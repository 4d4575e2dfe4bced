------------------------------ MODULE Service ------------------------------
(***************************************************************************)
(* The service thread of one client, jeux_client_service (server.c), on    *)
(* the connection of module Protocol, while another thread of the server   *)
(* sends packets to the same client.  The functions of client.c, which     *)
(* does not come with the sources, are modelled by what server.c makes of  *)
(* their results: they succeed or return -1.                               *)
(***************************************************************************)
EXTENDS Protocol

CONSTANTS
    Service,        \* the service thread, one of the senders
    Requests,       \* what the client may ask for: records with type and size
    MaxRequests,    \* bound on the requests of the client
    MaxNotes        \* bound on the packets of the other threads

ASSUME ServiceAssumption == Service \in Senders
ASSUME RequestsAssumption == Requests \subseteq [type : STRING, size : Nat]
ASSUME BoundAssumption == MaxRequests \in Nat /\ MaxNotes \in Nat

VARIABLES
    requests,       \* what the client has asked, in order
    notes,          \* how many packets the other threads have begun
    pc,             \* of the service thread
    player,         \* the client has a player: it is logged in
    payload,        \* the block payload points to: "none", "request" or "reply"
    nack_flag, EOF_flag,
    reply,          \* the answer that is being sent
    strp,           \* the string of client_accept_invitation has a block
    lost,           \* history: blocks that nothing points to any more
    taken,          \* history: requests dispatched
    answers,        \* history: <<the request, the answer>> sent
    misread         \* history: a reset was taken for the end of a header

thread == <<pc, player, payload, nack_flag, EOF_flag, reply, strp>>
history == <<lost, taken, answers, misread>>
vars == <<wire, requests, notes, thread, history>>

NoReply == [type |-> "NO", size |-> 0, id |-> 0]
Reply(type, size) == [type |-> type, size |-> size, id |-> hdr.id]

Init ==
    /\ WireInit
    /\ requests = <<>> /\ notes = 0
    /\ pc = "header" /\ player = FALSE /\ payload = "none"
    /\ nack_flag = FALSE /\ EOF_flag = FALSE
    /\ reply = NoReply /\ strp = FALSE
    /\ lost = 0 /\ taken = 0 /\ answers = <<>>
    /\ misread = FALSE

(* ---------------------- the client and other threads --------------------- *)
\* The client writes a request: all of it, or a part before it goes away.
Ask ==
    /\ conn = "open" /\ Len(requests) < MaxRequests
    /\ \E r \in Requests :
           LET packet == [type |-> r.type, size |-> r.size, id |-> Len(requests) + 1]
               units == UnitsOf(packet)
           IN \/ /\ incoming' = incoming \o units
                 /\ requests' = Append(requests, packet)
                 /\ UNCHANGED conn
              \/ \E n \in 1 .. Len(units) - 1 :
                     /\ incoming' = incoming \o SubSeq(units, 1, n)
                     /\ conn' \in {"eof", "reset"}
                     /\ UNCHANGED requests
    /\ UNCHANGED <<hdr, got, outgoing, mutex, sending, notes, thread, history>>

\* The client closes or resets the connection, or the main thread shuts it
\* down for reading (creg_shutdown_all).
Hangup ==
    /\ conn = "open"
    /\ conn' \in {"eof", "reset"}
    /\ UNCHANGED <<incoming, hdr, got, outgoing, mutex, sending, requests, notes,
                   thread, history>>

\* Another thread sends INVITED, MOVED, ENDED, ... to this client.
Notify(t) ==
    /\ notes < MaxNotes /\ sending[t] = <<>> /\ pc # "done"
    /\ \E size \in {0, 1} : StartSend(t, [type |-> "NOTE", size |-> size, id |-> 0])
    /\ notes' = notes + 1
    /\ UNCHANGED <<requests, thread, history>>

NotifyDone(t) == /\ SendDone(t) \/ SendFails(t)
                 /\ UNCHANGED <<requests, notes, thread, history>>

Transmit(t) == Write(t) /\ UNCHANGED <<requests, notes, thread, history>>

(* ------------------------------- receiving ------------------------------ *)
\* proto_recv_packet returns to the loop (a payload has been read or not),
\* fails, or goes on.
Receive ==
    /\ pc \in {"header", "payload"}
    /\ \/ /\ pc = "header"
          /\ \E next \in {"header", "payload", "dispatch", "leave"} :
                 /\ pc' = next
                 /\ \/ ReadHeader(next) /\ UNCHANGED misread
                    \/ HeaderReset(next) /\ misread' = (misread \/ next # "header")
       \/ /\ pc = "payload"
          /\ \E next \in {"payload", "dispatch"} : pc' = next /\ ReadPayload(next)
          /\ UNCHANGED misread
    /\ payload' = IF pc' = "payload" THEN "request" ELSE payload
    /\ UNCHANGED <<requests, notes, player, nack_flag, EOF_flag, reply, strp,
                   lost, taken, answers>>

ReceiveFails ==
    /\ \/ pc \in {"header", "payload"} /\ ReadEOF
       \/ pc = "payload" /\ PayloadReset
    /\ pc' = "leave"
    /\ UNCHANGED <<requests, notes, player, payload, nack_flag, EOF_flag, reply,
                   strp, history>>

(* ------------------------------ dispatching ----------------------------- *)
\* What one turn of the switch does: an answer to send, a flag, or neither.
Dispatched(next, login, block, nack, packet, str, gone) ==
    /\ pc = "dispatch"
    /\ pc' = next
    /\ player' = login /\ payload' = block /\ nack_flag' = nack
    /\ reply' = packet /\ strp' = str
    /\ lost' = lost + gone
    /\ taken' = IF misread THEN taken ELSE taken + 1
    /\ UNCHANGED <<incoming, conn, got, outgoing, mutex, sending,
                   requests, notes, EOF_flag, answers, misread>>

\* Faulty variant: nack_flag is not set.
NackForgotten ==
    Dispatched("cleanup", player, payload, FALSE, NoReply, strp, 0) /\ UNCHANGED hdr

Nack == Dispatched("cleanup", player, payload, TRUE, NoReply, strp, 0) /\ UNCHANGED hdr
Ack == Dispatched("reply", player, payload, nack_flag, Reply("ACK", 0), strp, 0)

\* A name is needed and there is no payload: NULL is compared or copied.
Nameless == hdr.size = 0
Crash == Dispatched("crashed", player, payload, nack_flag, NoReply, strp, 0) /\ UNCHANGED hdr

\* Faulty variant: a second LOGIN is honoured.
LoginAgain ==
    /\ hdr.type = "LOGIN"
    /\ \/ Nack
       \/ /\ Dispatched("reply", TRUE, payload, nack_flag, Reply("ACK", 0), strp, 0)
          /\ UNCHANGED hdr

\* LOGIN: refused with a player; preg_register or client_login may fail.
Login ==
    /\ hdr.type = "LOGIN"
    /\ \/ (player \/ ~Nameless) /\ Nack
       \/ ~player /\ Nameless /\ Crash
       \/ /\ ~player /\ ~Nameless
          /\ Dispatched("reply", TRUE, payload, nack_flag, Reply("ACK", 0), strp, 0)
          /\ UNCHANGED hdr

LoginRequired == hdr.type \notin {"LOGIN", "OTHER", "NO", "ACK"} /\ ~player /\ Nack

\* USERS: payload is set to NULL, then to the list; without memory for the
\* first line its length is computed through NULL, without memory for a later
\* one the shorter list is sent, and a NACK after it.
Users ==
    LET gone == IF payload = "none" THEN 0 ELSE 1 IN
    /\ hdr.type = "USERS" /\ player
    /\ \/ Dispatched("crashed", player, "none", TRUE, NoReply, strp, gone)
       \/ \E nack \in BOOLEAN :
              Dispatched("reply", player, "reply", nack, Reply("ACK", 1), strp, gone)
    /\ UNCHANGED hdr

\* INVITE: no such user or no invitation; the ACK is built in hdr itself.  With
\* no name the first client that is logged in is compared with NULL; there is
\* none only when all have been unregistered at the end of the server.
Invite ==
    /\ hdr.type = "INVITE" /\ player
    /\ \/ Nack
       \/ Nameless /\ Crash
       \/ ~Nameless /\ Ack /\ hdr' = Reply("ACK", 0)

\* ACCEPT: the state of the game, when the client moves first, is the payload.
Accept ==
    /\ hdr.type = "ACCEPT" /\ player
    /\ \/ Nack
       \/ Ack /\ UNCHANGED hdr
       \/ /\ Dispatched("reply", player, payload, nack_flag, Reply("ACK", 1), TRUE, 0)
          /\ UNCHANGED hdr

\* REVOKE, DECLINE, MOVE and RESIGN.
Simple ==
    /\ hdr.type \in {"REVOKE", "DECLINE", "MOVE", "RESIGN"} /\ player
    /\ Nack \/ (Ack /\ UNCHANGED hdr)

\* A packet of any other type is passed over.
PassOver ==
    /\ hdr.type \in {"OTHER", "NO", "ACK"}
    /\ Dispatched("cleanup", player, payload, nack_flag, NoReply, strp, 0)
    /\ UNCHANGED hdr

(* -------------------------------- answering ----------------------------- *)
SendReply ==
    /\ pc \in {"reply", "nack"}
    /\ StartSend(Service, IF pc = "nack" THEN Reply("NACK", 0) ELSE reply)
    /\ pc' = IF pc = "nack" THEN "nacking" ELSE "replying"
    /\ UNCHANGED <<requests, notes, player, payload, nack_flag, EOF_flag, reply,
                   strp, history>>

\* Once the answer is sent, strp is freed; the loop goes on or, after a NACK,
\* tests EOF_flag.
Replied ==
    /\ pc \in {"replying", "nacking"}
    /\ SendDone(Service)
    /\ pc' = CASE pc = "replying" -> "cleanup"
               [] pc = "nacking" -> IF EOF_flag THEN "leave" ELSE "header"
    /\ strp' = FALSE
    /\ answers' = IF misread THEN answers
                  ELSE Append(answers, <<taken, IF pc = "nacking" THEN "NACK" ELSE "ACK">>)
    /\ UNCHANGED <<requests, notes, player, payload, nack_flag, EOF_flag, reply,
                   lost, taken, misread>>

\* An answer that cannot be sent ends the loop; the string of ACCEPT is lost.
ReplyFails ==
    /\ pc \in {"replying", "nacking"}
    /\ SendFails(Service)
    /\ pc' = IF pc = "replying" THEN "cleanup" ELSE "leave"
    /\ EOF_flag' = (EOF_flag \/ pc = "replying")
    /\ strp' = FALSE
    /\ lost' = IF strp THEN lost + 1 ELSE lost
    /\ UNCHANGED <<requests, notes, player, payload, nack_flag, reply, taken,
                   answers, misread>>

\* After the switch: the payload is freed, then come NACK and end of the loop.
Cleanup ==
    /\ pc = "cleanup"
    /\ payload' = "none"
    /\ nack_flag' = FALSE
    /\ pc' = IF nack_flag THEN "nack" ELSE IF EOF_flag THEN "leave" ELSE "header"
    /\ UNCHANGED <<wire, requests, notes, player, EOF_flag, reply, strp, history>>

(* --------------------------------- leaving ------------------------------ *)
Leave ==
    /\ pc = "leave"
    /\ payload' = "none"
    /\ pc' = IF player THEN "logout" ELSE "unregister"
    /\ UNCHANGED <<wire, requests, notes, player, nack_flag, EOF_flag, reply, strp, history>>

Logout ==
    /\ pc = "logout"
    /\ player' = FALSE
    /\ pc' = "unregister"
    /\ UNCHANGED <<wire, requests, notes, payload, nack_flag, EOF_flag, reply, strp, history>>

Unregister ==
    /\ pc = "unregister"
    /\ pc' = "done"
    /\ conn' = IF conn = "open" THEN "eof" ELSE conn
    /\ UNCHANGED <<incoming, hdr, got, outgoing, mutex, sending, requests, notes,
                   player, payload, nack_flag, EOF_flag, reply, strp, history>>

Dispatch == Login \/ LoginRequired \/ Users \/ Invite \/ Accept \/ Simple \/ PassOver

ServiceStep ==
    \/ Receive \/ ReceiveFails
    \/ Dispatch
    \/ SendReply \/ Transmit(Service) \/ Replied \/ ReplyFails
    \/ Cleanup \/ Leave \/ Logout \/ Unregister

Others == Senders \ {Service}

OtherStep(t) == Transmit(t) \/ NotifyDone(t)

Next == \/ Ask \/ Hangup
        \/ ServiceStep
        \/ \E t \in Others : Notify(t) \/ OtherStep(t)

Spec == Init /\ [][Next]_vars

\* Threads of the server go on; one that has begun to send ends sending, and
\* a mutex that is released again and again is obtained.  The client may
\* stop at any time.
FairSpec == /\ Spec
            /\ SF_vars(ServiceStep)
            /\ \A t \in Others : WF_vars(OtherStep(t))

(* ------------------------------ properties ------------------------------ *)
Leaving == {"leave", "logout", "unregister", "done"}
Ended == {"done", "crashed"}
PacketTypes == {r.type : r \in Requests} \cup {"NO", "ACK", "NACK", "NOTE"}

TypeOK ==
    /\ conn \in {"open", "eof", "reset", "dead"}
    /\ hdr.type \in PacketTypes /\ got \in Nat
    /\ mutex \in Senders \cup {Free}
    /\ pc \in {"header", "payload", "dispatch", "reply", "replying", "cleanup",
               "nack", "nacking"} \cup Leaving \cup Ended
    /\ payload \in {"none", "request", "reply"}
    /\ {player, nack_flag, EOF_flag, strp, misread} \subseteq BOOLEAN
    /\ taken \in 0 .. MaxRequests /\ lost \in 0 .. 2 * MaxRequests

\* What reaches the client is made of whole packets: a packet begins where
\* another one has ended, or where its sender has failed for good
\* (client.h:129-131: exclusive access, "to prevent concurrent invocations
\* from corrupting each other's transmissions").
NoTornPackets ==
    conn = "open" =>
        \A i \in DOMAIN outgoing :
            LET u == outgoing[i]
                ends == u.unit = HeaderSize + u.packet.size
            IN IF i = Len(outgoing)
               THEN ends \/ (mutex # Free /\ sending[mutex] # <<>>
                              /\ Head(sending[mutex]) = [u EXCEPT !.unit = @ + 1])
               ELSE outgoing[i + 1] = [u EXCEPT !.unit = @ + 1]
                    \/ (ends /\ outgoing[i + 1].unit = 1)

\* However the stream is cut into reads, and wherever the client stops, the
\* packet that is dispatched is the next request, whole: none is skipped,
\* mixed with another one, or dispatched when only a part has arrived.  A
\* reset that is taken for a header makes the thread serve at most the
\* request before it once more, and only if it had no payload.  After an
\* answer that could not be sent nothing is dispatched any more.
DispatchesNextRequest ==
    pc = "dispatch" =>
        /\ ~EOF_flag
        /\ IF misread THEN hdr.id = taken /\ hdr.size = 0 /\ payload = "none"
           ELSE /\ taken < Len(requests)
                /\ hdr = requests[taken + 1]
                /\ payload = IF hdr.size > 0 THEN "request" ELSE "none"
                /\ incoming # <<>> => incoming[1].unit = 1

\* The blocks that are lost: the payload of a USERS request, whose pointer is
\* overwritten, and the string of an ACCEPT whose answer could not be sent.
LostBlocksAreKnown ==
    lost <= Cardinality({i \in DOMAIN requests :
                            \/ requests[i].type = "USERS" /\ requests[i].size > 0
                            \/ requests[i].type = "ACCEPT"})

\* When the thread has ended, whatever it was doing when the connection or
\* the memory failed, it has freed what it received but for the known blocks,
\* has logged out and does not hold the mutex of the CLIENT that others go on
\* using.  The variables it shares with them keep their types meanwhile.
NothingKept ==
    /\ TypeOK
    /\ LostBlocksAreKnown
    /\ pc = "done" => /\ payload = "none" /\ ~strp /\ ~player
                      /\ mutex # Service /\ sending[Service] = <<>>

Serving == ~misread /\ pc \notin Leaving \ {"leave"}

Promise == INSTANCE RequestReply WITH
    asked <- [i \in DOMAIN requests |-> [type |-> requests[i].type, size |-> requests[i].size]],
    loggedIn <- player /\ Serving,
    serving <- Serving

\* The service thread keeps the promise: requests are taken in order and
\* answered one by one, LOGIN first.
KeepsPromise == Promise!Spec

\* Every request that arrives whole is answered, unless the service of this
\* client ends or the type of the packet is unknown.
Asked(n) == n <= Len(requests) /\ requests[n].type # "OTHER"
Answered(n) == \E i \in DOMAIN answers : answers[i][1] = n

EveryRequestAnswered ==
    \A n \in 1 .. MaxRequests : Asked(n) ~> Answered(n) \/ pc \in Ended

\* When the client is gone the thread comes to its end (server.c:30-31).
ServiceEnds == conn # "open" ~> pc \in Ended
=============================================================================
