------------------------------ MODULE MCService ------------------------------
(* One service thread and one other thread that sends to the same client; a   *)
(* request of every shape, headers of two units and payloads of at most one.  *)
EXTENDS Service

Request(type, size) == [type |-> type, size |-> size]

MCRequests == {Request("LOGIN", 0), Request("LOGIN", 1),
               Request("USERS", 0), Request("USERS", 1),
               Request("INVITE", 0), Request("INVITE", 1),
               Request("ACCEPT", 0), Request("RESIGN", 0), Request("OTHER", 0)}
=============================================================================
