------------------------------ MODULE Protocol ------------------------------
(***************************************************************************)
(* The server's end of one connection (hw5/src/protocol.c).  One thread    *)
(* receives; any thread may send, under the mutex of the CLIENT that       *)
(* client_send_packet takes (client.h:128-134).  Both directions are       *)
(* streams: a read or a write may move less than it was asked for.         *)
(*                                                                         *)
(* A packet has a type, the size of its payload and an id.  On the stream  *)
(* it is HeaderSize units of header, of which the first carries type and   *)
(* id and the last the size, and then size units of payload.               *)
(***************************************************************************)
EXTENDS Integers, Sequences, FiniteSets

CONSTANTS
    Senders,        \* the threads that send on this connection
    HeaderSize,     \* units of a header
    Free            \* the value of the mutex when no thread holds it

ASSUME FreeAssumption == Free \notin Senders
ASSUME HeaderAssumption == HeaderSize \in Nat \ {0, 1}

VARIABLES
    incoming,       \* units that have arrived and have not been read
    conn,           \* "open", "eof", "reset", or "dead" once the reset was reported
    hdr,            \* the caller's header, filled in place
    got,            \* bytes_read of the part that is being received
    outgoing,       \* every unit written
    mutex,          \* the mutex of the CLIENT
    sending         \* by thread, what is left of the packet in transmission

wire == <<incoming, conn, hdr, got, outgoing, mutex, sending>>

UnitsOf(packet) == [u \in 1 .. HeaderSize + packet.size |-> [packet |-> packet, unit |-> u]]

WireInit ==
    /\ incoming = <<>> /\ conn = "open"
    /\ hdr = [type |-> "NO", size |-> 0, id |-> 0]      \* calloc
    /\ got = 0
    /\ outgoing = <<>> /\ mutex = Free
    /\ sending = [t \in Senders |-> <<>>]

(* --------------------------- proto_recv_packet -------------------------- *)
Received(n) == SubSeq(incoming, n + 1, Len(incoming))

\* A read of the header that returns n units.  ReadHeader, HeaderReset and
\* ReadPayload tell the caller what comes next: the continuations header,
\* payload and return of the loop are values of the caller's pc.
FillHeader(n) ==
    LET last == incoming[n]
        first == incoming[1]
    IN  [hdr EXCEPT !.type = IF got = 0 THEN first.packet.type ELSE @,
                    !.id = IF got = 0 THEN first.packet.id ELSE @,
                    !.size = IF got + n = HeaderSize THEN last.packet.size ELSE @]

\* With the header complete, the payload is read if its size is not zero;
\* without memory for it, the call fails.
AfterHeader(size) == IF size > 0 THEN {"payload", "leave"} ELSE {"dispatch"}

\* Faulty variant: what one read returns is taken for the whole header.
ReadHeaderOnce(next) ==
    \E n \in 1 .. HeaderSize - got :
        /\ n <= Len(incoming)
        /\ incoming' = Received(n)
        /\ hdr' = FillHeader(n)
        /\ got' = 0 /\ next \in AfterHeader(hdr'.size)
        /\ UNCHANGED <<conn, outgoing, mutex, sending>>

ReadHeader(next) ==
    \E n \in 1 .. HeaderSize - got :
        /\ n <= Len(incoming)
        /\ incoming' = Received(n)
        /\ hdr' = FillHeader(n)
        /\ IF got + n = HeaderSize
           THEN got' = 0 /\ next \in AfterHeader(hdr'.size)
           ELSE got' = got + n /\ next = "header"
        /\ UNCHANGED <<conn, outgoing, mutex, sending>>

\* Faulty variant: after a reset the thread waits for more.
ReadEOFOnly ==
    /\ incoming = <<>> /\ conn = "eof"
    /\ UNCHANGED wire

\* read returns 0: end of file.
ReadEOF ==
    /\ incoming = <<>> /\ conn \in {"eof", "dead"}
    /\ UNCHANGED wire

\* read returns -1 once, which is stored in a size_t: it is not negative, and
\* bytes_read, less by one, is compared as an unsigned number.
HeaderReset(next) ==
    /\ incoming = <<>> /\ conn = "reset"
    /\ conn' = "dead"
    /\ IF got = 0
       THEN got' = 0 /\ next \in AfterHeader(hdr.size)
       ELSE got' = got - 1 /\ next = "header"
    /\ UNCHANGED <<incoming, hdr, outgoing, mutex, sending>>

ReadPayload(next) ==
    \E n \in 1 .. hdr.size - got :
        /\ n <= Len(incoming)
        /\ incoming' = Received(n)
        /\ IF got + n = hdr.size THEN got' = 0 /\ next = "dispatch"
                                 ELSE got' = got + n /\ next = "payload"
        /\ UNCHANGED <<conn, hdr, outgoing, mutex, sending>>

\* The payload's read tests a signed result.
PayloadReset ==
    /\ incoming = <<>> /\ conn = "reset"
    /\ conn' = "dead"
    /\ UNCHANGED <<incoming, hdr, got, outgoing, mutex, sending>>

(* --------------------------- proto_send_packet -------------------------- *)
\* Faulty variant: the packet is sent without the mutex.
StartUnlocked(t, packet) ==
    /\ mutex' = t
    /\ sending' = [sending EXCEPT ![t] = UnitsOf(packet)]
    /\ UNCHANGED <<incoming, conn, hdr, got, outgoing>>

\* client_send_packet takes the mutex and sends the packet.
StartSend(t, packet) ==
    /\ mutex = Free
    /\ mutex' = t
    /\ sending' = [sending EXCEPT ![t] = UnitsOf(packet)]
    /\ UNCHANGED <<incoming, conn, hdr, got, outgoing>>

\* What is left of the part that is being written: the header or the payload.
PartLeft(t) == LET unit == Head(sending[t]).unit IN
               IF unit <= HeaderSize THEN HeaderSize - unit + 1 ELSE Len(sending[t])

\* A write that takes n units.
Write(t) ==
    /\ sending[t] # <<>>
    /\ \E n \in 1 .. PartLeft(t) :
           /\ outgoing' = outgoing \o SubSeq(sending[t], 1, n)
           /\ sending' = [sending EXCEPT ![t] = SubSeq(@, n + 1, Len(@))]
    /\ UNCHANGED <<incoming, conn, hdr, got, mutex>>

\* All is written: 0 is returned and the mutex released.
SendDone(t) ==
    /\ mutex = t /\ sending[t] = <<>>
    /\ mutex' = Free
    /\ UNCHANGED <<incoming, conn, hdr, got, outgoing, sending>>

\* Faulty variant: the error return forgets the mutex.
SendFailsLocked(t) ==
    /\ mutex = t /\ sending[t] # <<>>
    /\ conn # "open"
    /\ sending' = [sending EXCEPT ![t] = <<>>]
    /\ UNCHANGED <<incoming, conn, hdr, got, outgoing, mutex>>

\* A write fails once the peer is gone: -1 is returned, whatever was written.
SendFails(t) ==
    /\ mutex = t /\ sending[t] # <<>>
    /\ conn # "open"
    /\ mutex' = Free
    /\ sending' = [sending EXCEPT ![t] = <<>>]
    /\ UNCHANGED <<incoming, conn, hdr, got, outgoing>>
=============================================================================
