------------------------------ MODULE MCMatch ------------------------------
(* One invitation and its two clients: nothing to instantiate but NULL.      *)
EXTENDS Match
=============================================================================
