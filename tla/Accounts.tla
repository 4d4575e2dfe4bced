------------------------------- MODULE Accounts -------------------------------
(***************************************************************************)
(* What a user of the server sees of the player registry                   *)
(* (hw5/include/player_registry.h): a name gets an account the first time  *)
(* somebody registers it, everybody who registers it later gets the same,  *)
(* and the account is kept until the server shuts down.                    *)
(***************************************************************************)
CONSTANTS Clients, Names, Players, NULL

VARIABLES
    open,       \* the registry is there
    account,    \* account[n]: the player of name n, or NULL
    user        \* user[c]: the player that client c plays as, or NULL

vars == <<open, account, user>>

Init ==
    /\ open = TRUE
    /\ account = [n \in Names |-> NULL]
    /\ user = [c \in Clients |-> NULL]

\* preg_register finds the account of the name, or opens one.
Register(c, n) ==
    /\ open
    /\ user[c] = NULL
    /\ \/ UNCHANGED account
       \/ /\ account[n] = NULL
          /\ \E p \in Players : /\ \A m \in Names : account[m] # p
                                /\ account' = [account EXCEPT ![n] = p]
    /\ account'[n] # NULL
    /\ user' = [user EXCEPT ![c] = account'[n]]
    /\ UNCHANGED open

\* The login is refused, or the client logs out.
Leave(c) ==
    /\ user[c] # NULL
    /\ user' = [user EXCEPT ![c] = NULL]
    /\ UNCHANGED <<open, account>>

\* preg_fini, for good; whoever is logged in keeps the player until it leaves.
Close ==
    /\ open
    /\ open' = FALSE
    /\ account' = [n \in Names |-> NULL]
    /\ UNCHANGED user

Next == Close \/ \E c \in Clients : Leave(c) \/ \E n \in Names : Register(c, n)

Spec == Init /\ [][Next]_vars
===============================================================================
