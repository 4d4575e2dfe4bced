------------------------------ MODULE MCTicker ------------------------------
(* Two watchers that share a channel, in a table with one slot, so that        *)
(* starting the second one makes the table grow.                               *)
EXTENDS Ticker
=============================================================================
