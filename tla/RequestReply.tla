---------------------------- MODULE RequestReply ----------------------------
(***************************************************************************)
(* What the server promises to one client (hw5/include/protocol.h and      *)
(* server.c:25-36): it takes the client's requests one at a time and in    *)
(* order, honours only LOGIN until the client has logged in and no LOGIN   *)
(* after that, and answers a request before it takes the next.             *)
(***************************************************************************)
EXTENDS Integers, Sequences

CONSTANTS Requests      \* what a client may ask for, with the field type

VARIABLES
    asked,      \* the requests of the client, in order
    taken,      \* how many of them the server has taken
    loggedIn,
    answers,    \* the answers, in order: <<which request, "ACK" or "NACK">>
    serving

vars == <<asked, taken, loggedIn, answers, serving>>

Init == /\ asked = <<>> /\ taken = 0
        /\ loggedIn = FALSE /\ answers = <<>> /\ serving = TRUE

Ask == /\ \E r \in Requests : asked' = Append(asked, r)
       /\ UNCHANGED <<taken, loggedIn, answers, serving>>

\* The server takes the next request and does what is asked, or does not.
Take ==
    /\ serving /\ taken < Len(asked)
    /\ taken' = taken + 1
    /\ \/ UNCHANGED loggedIn
       \/ asked[taken'].type = "LOGIN" /\ ~loggedIn /\ loggedIn' = TRUE
    /\ UNCHANGED <<asked, answers, serving>>

\* A list of users that was cut short: its ACK is followed by a NACK.
CutShort(a) == /\ asked[taken].type = "USERS" /\ a = "NACK" /\ answers # <<>>
               /\ answers[Len(answers)] = <<taken, "ACK">>
               /\ \A i \in 1 .. Len(answers) - 1 : answers[i][1] < taken

\* The request that was taken is answered, once; without a login, or for a
\* second login, by a NACK.
Answer ==
    /\ serving /\ taken > 0
    /\ \E a \in {"ACK", "NACK"} :
           /\ (\A i \in DOMAIN answers : answers[i][1] < taken) \/ CutShort(a)
           /\ ~loggedIn => a = "NACK"
           /\ asked[taken].type = "LOGIN" /\ a = "ACK" =>
                  \A i \in DOMAIN answers :
                      answers[i][2] = "ACK" => asked[answers[i][1]].type # "LOGIN"
           /\ answers' = Append(answers, <<taken, a>>)
    /\ UNCHANGED <<asked, taken, loggedIn, serving>>

\* The connection ends; nothing is taken or answered any more.
End == /\ serving /\ serving' = FALSE
       /\ loggedIn' = FALSE
       /\ UNCHANGED <<asked, taken, answers>>

Next == Ask \/ Take \/ Answer \/ End

Spec == Init /\ [][Next]_vars
=============================================================================
