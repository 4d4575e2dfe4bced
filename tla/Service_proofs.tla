---------------------------- MODULE Service_proofs ----------------------------
(* Theorems about Service, for every set of senders and of requests, every    *)
(* length of a header and every number of requests and of notes.              *)
EXTENDS Service, FiniteSetTheorems, SequenceTheorems, TLAPS

(***************************************************************************)
(* The inductive invariant.                                                *)
(***************************************************************************)
Packets == [type : PacketTypes, size : Nat, id : Nat]
Units == [packet : Packets, unit : Nat]
Unit(packet, u) == [packet |-> packet, unit |-> u]
Total(packet) == HeaderSize + packet.size

Types ==
    /\ incoming \in Seq(Units) /\ outgoing \in Seq(Units)
    /\ sending \in [Senders -> Seq(Units)]
    /\ mutex \in Senders \cup {Free}
    /\ conn \in {"open", "eof", "reset", "dead"}
    /\ hdr \in Packets /\ reply \in Packets
    /\ requests \in Seq(Packets)
    /\ answers \in Seq(Nat \X {"ACK", "NACK"})
    /\ {got, notes, taken, lost} \subseteq Nat
    /\ pc \in {"header", "payload", "dispatch", "reply", "replying", "cleanup",
               "nack", "nacking"} \cup Leaving \cup Ended
    /\ payload \in {"none", "request", "reply"}
    /\ {player, nack_flag, EOF_flag, strp, misread} \subseteq BOOLEAN

\* What is left to send is the rest of one packet.
RestOK(s) ==
    LET packet == s[1].packet
        done == Total(packet) - Len(s)
    IN  /\ done >= 0
        /\ \A i \in 1..Len(s) : s[i] = Unit(packet, done + i)

\* Who sends holds the mutex.
SendersOK ==
    /\ mutex = Service <=> pc \in {"replying", "nacking"}
    /\ \A t \in Senders : sending[t] # <<>> => mutex = t /\ RestOK(sending[t])

\* Two units that may follow each other on the wire.
Follows(u, v) == v = Unit(u.packet, u.unit + 1) \/ (u.unit = Total(u.packet) /\ v.unit = 1)

\* While the connection is open, what was written continues with what is left to write.
OutgoingOK ==
    conn = "open" =>
        /\ \A i \in 1..(Len(outgoing) - 1) : Follows(outgoing[i], outgoing[i + 1])
        /\ mutex # Free /\ sending[mutex] # <<>> =>
              IF outgoing = <<>> THEN Head(sending[mutex]).unit = 1
              ELSE Follows(outgoing[Len(outgoing)], Head(sending[mutex]))
        /\ (mutex = Free \/ sending[mutex] = <<>>) /\ outgoing # <<>> =>
              LET last == outgoing[Len(outgoing)] IN last.unit = Total(last.packet)

\* The requests are numbered, and what has arrived are units of them in order: whole
\* packets, and when the connection is not open any more a part of one packet more.
UnitOK(u) ==
    /\ u.unit \in 1..Total(u.packet)
    /\ u.packet.id \in 1..(Len(requests) + 1)
    /\ u.packet.id <= Len(requests) => u.packet = requests[u.packet.id]
    /\ u.packet.id = Len(requests) + 1 => conn # "open" /\ u.unit < Total(u.packet)

RunOK(i, j) ==
    LET u == incoming[i]
        at == u.unit + (j - i)
    IN  /\ at <= Total(u.packet) => incoming[j] = Unit(u.packet, at)
        /\ at = Total(u.packet) + 1 =>
              incoming[j].unit = 1 /\ incoming[j].packet.id = u.packet.id + 1

LastOK(u) == \/ u.packet.id = Len(requests) + 1
             \/ u.packet.id = Len(requests) /\ u.unit = Total(u.packet)

StreamOK ==
    /\ Len(requests) <= MaxRequests
    /\ \A i \in 1..Len(requests) : requests[i].id = i
    /\ \A i \in 1..Len(incoming) : UnitOK(incoming[i])
    /\ \A i, j \in 1..Len(incoming) : i <= j => RunOK(i, j)
    /\ incoming # <<>> => LastOK(incoming[Len(incoming)])

\* A reset that was reported is the end of the stream.
DeadOK ==
    /\ conn = "dead" => incoming = <<>> /\ (misread \/ pc \in {"header"} \cup Leaving)
    /\ misread => conn = "dead"

\* The unit that comes next in the stream.
NextPacket == IF pc = "dispatch" THEN taken + 2 ELSE taken + 1
NextUnit == IF pc = "header" THEN got + 1
            ELSE IF pc = "payload" THEN HeaderSize + got + 1
            ELSE 1

PositionOK ==
    /\ taken <= Len(requests)
    /\ conn # "dead" /\ pc \notin Leaving =>
          IF incoming = <<>>
          THEN NextPacket = Len(requests) + 1 /\ (conn = "open" => NextUnit = 1)
          ELSE incoming[1].packet.id = NextPacket /\ incoming[1].unit = NextUnit

\* The header that is being filled, that of the next request, or of the last one.
AtRest == \/ misread
          \/ pc \in {"reply", "replying", "cleanup", "nack", "nacking"}
          \/ pc = "header" /\ got = 0 /\ conn # "dead"

HeaderOK ==
    /\ pc = "header" => got < HeaderSize
    /\ pc = "payload" => got < hdr.size
    /\ pc \notin {"header", "payload"} \cup Leaving => got = 0
    /\ pc = "header" /\ got > 0 /\ conn # "dead" =>
          /\ hdr.id = taken + 1
          /\ taken < Len(requests) => hdr.type = requests[taken + 1].type
    /\ pc = "payload" /\ ~misread =>
          /\ taken < Len(requests) => hdr = requests[taken + 1]
          /\ incoming # <<>> => incoming[1].packet.size = hdr.size
    /\ pc = "dispatch" /\ ~misread => taken < Len(requests) /\ hdr = requests[taken + 1]
    /\ pc = "dispatch" /\ misread => hdr.size = 0
    /\ AtRest => /\ hdr.id = taken
                 /\ taken = 0 => hdr.type = "NO"
                 /\ taken > 0 => hdr.type \in {requests[taken].type, "ACK"}

\* The flags, the blocks and the login.
FlagsOK ==
    /\ EOF_flag => pc \in {"cleanup", "nack", "nacking"} \cup Leaving
    /\ nack_flag => pc \in {"reply", "replying", "cleanup", "crashed"}
    /\ strp => pc \in {"reply", "replying"}
    /\ pc \in {"unregister", "done"} => ~player
    /\ pc \in {"header", "nack", "nacking", "logout", "unregister", "done"} => payload = "none"
    /\ pc = "payload" => payload = "request"
    /\ pc = "dispatch" => payload = IF hdr.size > 0 THEN "request" ELSE "none"

\* Every lost block is that of another request; that of an ACCEPT is lost only at the end.
Leaky(n) == {i \in 1..n : \/ requests[i].type = "USERS" /\ requests[i].size > 0
                          \/ requests[i].type = "ACCEPT"}

LostOK ==
    /\ lost <= Cardinality(Leaky(taken))
    /\ taken > 0 /\ requests[taken].type = "ACCEPT" /\ ~EOF_flag =>
          lost <= Cardinality(Leaky(taken - 1))
    /\ strp => taken > 0 /\ requests[taken].type = "ACCEPT"

\* What has been answered, and what may be answered next.
LoginAcked == \E i \in 1..Len(answers) :
                 answers[i][2] = "ACK" /\ requests[answers[i][1]].type = "LOGIN"
Unanswered == \A i \in 1..Len(answers) : answers[i][1] < taken
Cut == /\ requests[taken].type = "USERS" /\ answers # <<>>
       /\ answers[Len(answers)] = <<taken, "ACK">>
       /\ \A i \in 1..(Len(answers) - 1) : answers[i][1] < taken

AnswersOK ==
    /\ \A i \in 1..Len(answers) : answers[i][1] \in 1..taken
    /\ LoginAcked => player \/ ~Serving
    /\ ~misread /\ pc \in {"reply", "replying"} =>
          /\ taken > 0 /\ Unanswered /\ player
          /\ requests[taken].type = "LOGIN" => ~LoginAcked
          /\ nack_flag => requests[taken].type = "USERS"
    /\ ~misread /\ (pc \in {"nack", "nacking"} \/ (pc = "cleanup" /\ nack_flag)) =>
          taken > 0 /\ (Unanswered \/ Cut)

IInv == /\ Types
        /\ SendersOK
        /\ OutgoingOK
        /\ StreamOK
        /\ DeadOK
        /\ PositionOK
        /\ HeaderOK
        /\ FlagsOK
        /\ LostOK
        /\ AnswersOK

-----------------------------------------------------------------------------
(***************************************************************************)
(* Sequences, packets and their units.                                     *)
(***************************************************************************)
\* The elements of a sequence.
LEMMA SeqElements ==
    ASSUME NEW S, NEW s \in Seq(S)
    PROVE  /\ Len(s) \in Nat /\ DOMAIN s = 1..Len(s)
           /\ \A i \in 1..Len(s) : s[i] \in S
           /\ s = <<>> <=> Len(s) = 0
           /\ s # <<>> => Head(s) = s[1] /\ Len(s) >= 1
<1>1. Len(s) \in Nat /\ DOMAIN s = 1..Len(s) /\ s \in [1..Len(s) -> S]
  BY LenProperties
<1>2. s = <<>> <=> Len(s) = 0
  BY EmptySeq
<1>3. s # <<>> => Head(s) = s[1]
  OBVIOUS
<1>4. QED
  BY <1>1, <1>2, <1>3

\* What is left of a sequence without its first n elements.
LEMMA Drop ==
    ASSUME NEW S, NEW s \in Seq(S), NEW n \in 0..Len(s)
    PROVE  LET d == SubSeq(s, n + 1, Len(s))
           IN  /\ d \in Seq(S) /\ Len(d) = Len(s) - n
               /\ \A i \in 1..(Len(s) - n) : d[i] = s[n + i]
<1>1. Len(s) \in Nat /\ \A i \in 1..Len(s) : s[i] \in S
  BY SeqElements
<1>2. \A i \in (n + 1)..Len(s) : s[i] \in S
  BY <1>1
<1>3. n + 1 \in Int /\ Len(s) \in Int
  BY <1>1
<1> DEFINE d == SubSeq(s, n + 1, Len(s))
<1>4. /\ d \in Seq(S)
      /\ Len(d) = IF n + 1 <= Len(s) THEN Len(s) - (n + 1) + 1 ELSE 0
      /\ \A i \in 1..(Len(s) - (n + 1) + 1) : d[i] = s[(n + 1) + i - 1]
  BY <1>2, <1>3, SubSeqProperties
<1> HIDE DEF d
<1>5. d \in Seq(S) /\ Len(d) = Len(s) - n /\ \A i \in 1..(Len(s) - n) : d[i] = s[n + i]
  BY <1>1, <1>4
<1>6. QED
  BY <1>5 DEF d

\* The first n elements of a sequence.
LEMMA Prefix ==
    ASSUME NEW S, NEW s \in Seq(S), NEW n \in 0..Len(s)
    PROVE  LET d == SubSeq(s, 1, n)
           IN  d \in Seq(S) /\ Len(d) = n /\ \A i \in 1..n : d[i] = s[i]
<1>1. Len(s) \in Nat /\ \A i \in 1..Len(s) : s[i] \in S
  BY SeqElements
<1>2. \A i \in 1..n : s[i] \in S
  BY <1>1
<1> DEFINE d == SubSeq(s, 1, n)
<1>3. /\ d \in Seq(S) /\ Len(d) = IF 1 <= n THEN n - 1 + 1 ELSE 0
      /\ \A i \in 1..(n - 1 + 1) : d[i] = s[1 + i - 1]
  BY <1>2, 1 \in Int, n \in Int, SubSeqProperties
<1> HIDE DEF d
<1>4. d \in Seq(S) /\ Len(d) = n /\ \A i \in 1..n : d[i] = s[i]
  BY <1>3
<1>5. QED
  BY <1>4 DEF d

\* The units of a packet are a sequence.
LEMMA UnitsOfPacket ==
    ASSUME NEW packet \in Packets
    PROVE  /\ UnitsOf(packet) \in Seq(Units)
           /\ Len(UnitsOf(packet)) = Total(packet) /\ Total(packet) \in Nat \ {0}
           /\ \A i \in 1..Total(packet) : UnitsOf(packet)[i] = Unit(packet, i)
<1>1. Total(packet) \in Nat \ {0} /\ packet.size \in Nat
  BY HeaderAssumption DEF Packets, Total
<1> DEFINE n == Total(packet)
<1>2. UnitsOf(packet) = [i \in 1..n |-> Unit(packet, i)]
  BY DEF UnitsOf, Total, Unit
<1> HIDE DEF n
<1>3. \A i \in 1..n : Unit(packet, i) \in Units
  BY <1>1 DEF n, Unit, Units
<1>4. UnitsOf(packet) \in [1..n -> Units]
  BY <1>2, <1>3
<1>5. UnitsOf(packet) \in Seq(Units) /\ Len(UnitsOf(packet)) = n
  BY <1>1, <1>4 DEF n
<1>6. QED
  BY <1>1, <1>2, <1>5 DEF n

\* The fields of units and packets.
LEMMA UnitFields ==
    ASSUME NEW u \in Units
    PROVE  /\ u.packet \in Packets /\ u.unit \in Nat /\ u.packet.size \in Nat
           /\ u.packet.id \in Nat /\ u.packet.type \in PacketTypes
           /\ Total(u.packet) \in Nat /\ Total(u.packet) >= HeaderSize
           /\ u = Unit(u.packet, u.unit)
<1>1. u.packet \in Packets /\ u.unit \in Nat /\ u = [packet |-> u.packet, unit |-> u.unit]
  BY DEF Units
<1>2. u.packet.size \in Nat /\ u.packet.id \in Nat /\ u.packet.type \in PacketTypes
  BY <1>1 DEF Packets
<1>3. QED
  BY <1>1, <1>2, HeaderAssumption DEF Total, Unit

-----------------------------------------------------------------------------
(***************************************************************************)
(* Sending: what is written.                                               *)
(***************************************************************************)
\* Steps that write nothing and leave the mutex alone.
LEMMA SendingKept ==
    ASSUME IInv, UNCHANGED <<outgoing, mutex, sending>>,
           conn' = conn \/ conn' # "open",
           pc \in {"replying", "nacking"} <=> pc' \in {"replying", "nacking"}
    PROVE  SendersOK' /\ OutgoingOK'
BY DEF IInv, SendersOK, RestOK, OutgoingOK, Follows, Unit, Total

\* A sender begins with the first unit of its packet, and the packet before it has ended.
LEMMA StartSends ==
    ASSUME IInv, NEW t \in Senders, NEW packet \in Packets, StartSend(t, packet),
           pc \notin {"replying", "nacking"},
           t = Service <=> pc' \in {"replying", "nacking"}
    PROVE  SendersOK' /\ OutgoingOK' /\ sending' \in [Senders -> Seq(Units)]
<1> USE DEF StartSend
<1> DEFINE units == UnitsOf(packet)
<1>1. /\ units \in Seq(Units) /\ Len(units) = Total(packet) /\ Total(packet) \in Nat \ {0}
      /\ \A i \in 1..Total(packet) : units[i] = Unit(packet, i)
  BY UnitsOfPacket
<1>2. /\ sending \in [Senders -> Seq(Units)] /\ mutex = Free /\ mutex' = t
      /\ \A u \in Senders : sending[u] = <<>>
  BY FreeAssumption DEF IInv, Types, SendersOK
<1>3. /\ sending'[t] = units /\ \A u \in Senders \ {t} : sending'[u] = <<>>
      /\ sending' \in [Senders -> Seq(Units)]
  BY <1>1, <1>2
<1> HIDE DEF units
<1>4. units # <<>> /\ Head(units) = units[1] /\ units[1].packet = packet /\ units[1].unit = 1
  BY <1>1, SeqElements DEF Unit
<1>5. RestOK(units)
  BY <1>1, <1>4 DEF RestOK
<1>6. SendersOK'
  <2>1. \A u \in Senders : sending'[u] # <<>> => mutex' = u /\ RestOK(sending'[u])
    BY <1>2, <1>3, <1>5
  <2>2. mutex' = Service <=> pc' \in {"replying", "nacking"}
    BY <1>2
  <2>3. QED
    BY <2>1, <2>2 DEF SendersOK
<1>7. OutgoingOK'
  <2> SUFFICES ASSUME conn = "open" PROVE OutgoingOK'
    BY DEF OutgoingOK
  <2>1. outgoing' = outgoing /\ conn' = conn
    OBVIOUS
  <2>2. /\ \A i \in 1..(Len(outgoing) - 1) : Follows(outgoing[i], outgoing[i + 1])
        /\ outgoing # <<>> => outgoing[Len(outgoing)].unit = Total(outgoing[Len(outgoing)].packet)
    BY <1>2 DEF IInv, OutgoingOK
  <2>3. outgoing # <<>> => Follows(outgoing[Len(outgoing)], units[1])
    BY <1>4, <2>2 DEF Follows
  <2>4. mutex' # Free /\ sending'[mutex'] = units
    BY <1>2, <1>3, FreeAssumption
  <2>5. QED
    BY <1>4, <2>1, <2>2, <2>3, <2>4 DEF OutgoingOK, Follows, Unit, Total
<1>8. QED
  BY <1>3, <1>6, <1>7

\* The mutex is released when nothing is left, or when the peer is gone.
LEMMA SendEnds ==
    ASSUME IInv, NEW t \in Senders, SendDone(t) \/ SendFails(t),
           t = Service <=> pc \in {"replying", "nacking"},
           pc' \notin {"replying", "nacking"}
    PROVE  SendersOK' /\ OutgoingOK' /\ sending' \in [Senders -> Seq(Units)]
<1> USE DEF SendDone, SendFails
<1>1. /\ sending \in [Senders -> Seq(Units)] /\ mutex = t /\ mutex' = Free
      /\ outgoing' = outgoing /\ conn' = conn
  BY DEF IInv, Types
<1>2. \A u \in Senders \ {t} : sending[u] = <<>>
  BY <1>1 DEF IInv, SendersOK
<1>3. <<>> \in Seq(Units)
  BY EmptySeq
<1>4. \A u \in Senders : sending'[u] = <<>>
  BY <1>1, <1>2
<1>5. sending' \in [Senders -> Seq(Units)]
  BY <1>1, <1>3
<1>6. SendersOK'
  BY <1>1, <1>4, ServiceAssumption, FreeAssumption DEF SendersOK
<1>7. OutgoingOK'
  <2> SUFFICES ASSUME conn = "open" PROVE OutgoingOK'
    BY <1>1 DEF OutgoingOK
  <2>1. sending[mutex] = <<>>
    BY <1>1
  <2>2. QED
    BY <1>1, <2>1 DEF IInv, OutgoingOK, Follows, Unit, Total
<1>8. QED
  BY <1>5, <1>6, <1>7

\* A write moves the units that come next, in order.
LEMMA WriteFollows ==
    ASSUME IInv, NEW t \in Senders, Write(t), pc' = pc
    PROVE  /\ SendersOK' /\ OutgoingOK'
           /\ sending' \in [Senders -> Seq(Units)] /\ outgoing' \in Seq(Units)
<1> DEFINE s == sending[t]
           p == s[1].packet
           done == Total(p) - Len(s)
<1>1. /\ s \in Seq(Units) /\ s # <<>> /\ mutex = t
      /\ sending \in [Senders -> Seq(Units)] /\ outgoing \in Seq(Units)
      /\ RestOK(s)
  BY DEF Write, IInv, Types, SendersOK
<1>2. PICK n \in 1..PartLeft(t) :
         /\ outgoing' = outgoing \o SubSeq(s, 1, n)
         /\ sending' = [sending EXCEPT ![t] = SubSeq(@, n + 1, Len(@))]
         /\ UNCHANGED <<incoming, conn, hdr, got, mutex>>
  BY DEF Write
<1> HIDE DEF s
<1>3. /\ Len(s) \in Nat /\ Len(s) >= 1 /\ Head(s) = s[1]
      /\ \A i \in 1..Len(s) : s[i] \in Units
  BY <1>1, SeqElements
<1>4. p \in Packets /\ Total(p) \in Nat /\ Total(p) >= HeaderSize
  BY <1>3, UnitFields
<1> HIDE DEF p
<1>5. done >= 0 /\ \A i \in 1..Len(s) : s[i] = Unit(p, done + i)
  BY <1>1 DEF RestOK, p
<1>a. done \in Int /\ Total(p) = done + Len(s)
  BY <1>3, <1>4
<1> HIDE DEF done
<1>6. n \in 1..Len(s)
  <2>1. s[1].unit = done + 1
    <3>1. s[1] = Unit(p, done + 1)
      BY <1>3, <1>5
    <3>2. QED
      BY <3>1 DEF Unit
  <2>2. PartLeft(t) = IF s[1].unit <= HeaderSize THEN HeaderSize - s[1].unit + 1 ELSE Len(s)
    BY <1>3 DEF PartLeft, s
  <2>3. PartLeft(t) <= Len(s) /\ PartLeft(t) \in Int
    BY <1>3, <1>4, <1>5, <1>a, <2>1, <2>2, HeaderAssumption
  <2>4. QED
    BY <1>3, <2>3
<1> DEFINE w == SubSeq(s, 1, n)
           r == SubSeq(s, n + 1, Len(s))
<1>7. w \in Seq(Units) /\ Len(w) = n /\ \A i \in 1..n : w[i] = Unit(p, done + i)
  <2>1. n \in 0..Len(s)
    BY <1>6
  <2>2. w \in Seq(Units) /\ Len(w) = n /\ \A i \in 1..n : w[i] = s[i]
    BY <1>1, <2>1, Prefix
  <2>3. QED
    BY <1>3, <1>5, <1>6, <2>2
<1>8. /\ r \in Seq(Units) /\ Len(r) = Len(s) - n
      /\ \A i \in 1..(Len(s) - n) : r[i] = Unit(p, done + n + i)
  <2>1. n \in 0..Len(s)
    BY <1>6
  <2>2. r \in Seq(Units) /\ Len(r) = Len(s) - n /\ \A i \in 1..(Len(s) - n) : r[i] = s[n + i]
    BY <1>1, <2>1, Drop
  <2>3. \A i \in 1..(Len(s) - n) : n + i \in 1..Len(s) /\ done + (n + i) = done + n + i
    BY <1>3, <1>6, <1>a
  <2>4. QED
    BY <1>5, <2>2, <2>3
<1> HIDE DEF w, r
<1>9. /\ sending'[t] = r /\ \A u \in Senders \ {t} : sending'[u] = sending[u]
      /\ sending' \in [Senders -> Seq(Units)]
  BY <1>1, <1>2, <1>8 DEF s, r
<1>10. /\ outgoing' = outgoing \o w /\ outgoing' \in Seq(Units)
       /\ Len(outgoing') = Len(outgoing) + n /\ Len(outgoing) \in Nat
       /\ \A i \in 1..Len(outgoing) : outgoing'[i] = outgoing[i]
       /\ \A i \in 1..n : outgoing'[Len(outgoing) + i] = Unit(p, done + i)
  <2>1. /\ outgoing' = outgoing \o w
        /\ outgoing \o w \in Seq(Units)
        /\ Len(outgoing \o w) = Len(outgoing) + Len(w)
        /\ \A i \in 1 .. Len(outgoing) + Len(w) :
              (outgoing \o w)[i] = IF i <= Len(outgoing) THEN outgoing[i]
                                   ELSE w[i - Len(outgoing)]
    BY <1>1, <1>2, <1>7, ConcatProperties DEF w
  <2>2. Len(outgoing) \in Nat
    BY <1>1, SeqElements
  <2>3. \A i \in 1..n : outgoing'[Len(outgoing) + i] = w[i]
    BY <1>6, <1>7, <2>1, <2>2
  <2>4. QED
    BY <1>6, <1>7, <2>1, <2>2, <2>3
<1>11. r # <<>> => RestOK(r) /\ Head(r) = Unit(p, done + n + 1) /\ Len(r) >= 1
  <2> SUFFICES ASSUME r # <<>>
               PROVE  RestOK(r) /\ Head(r) = Unit(p, done + n + 1) /\ Len(r) >= 1
    OBVIOUS
  <2>1. Head(r) = r[1] /\ Len(r) >= 1
    BY <1>8, SeqElements
  <2>2. r[1] = Unit(p, done + n + 1) /\ r[1].packet = p
    BY <1>3, <1>6, <1>8, <2>1 DEF Unit
  <2>3. Total(p) - Len(r) = done + n /\ done + n >= 0
    BY <1>3, <1>5, <1>6, <1>8, <1>a
  <2>4. QED
    BY <1>8, <2>1, <2>2, <2>3 DEF RestOK
<1>12. SendersOK'
  <2>1. \A u \in Senders : sending'[u] # <<>> => mutex' = u /\ RestOK(sending'[u])
    BY <1>1, <1>2, <1>9, <1>11 DEF IInv, SendersOK
  <2>2. QED
    BY <1>2, <2>1 DEF IInv, SendersOK
<1>13. OutgoingOK'
  <2> SUFFICES ASSUME conn = "open" PROVE OutgoingOK'
    BY <1>2 DEF OutgoingOK
  <2> DEFINE m == Len(outgoing)
  <2>1. /\ \A i \in 1..(m - 1) : Follows(outgoing[i], outgoing[i + 1])
        /\ outgoing # <<>> => Follows(outgoing[m], s[1])
        /\ outgoing = <<>> => s[1].unit = 1
    BY <1>1, <1>3, FreeAssumption DEF IInv, OutgoingOK, s
  <2>2. s[1] = Unit(p, done + 1)
    BY <1>3, <1>5
  <2>3. outgoing = <<>> <=> m = 0
    BY <1>1, SeqElements
  <2> HIDE DEF m
  <2>4. /\ m \in Nat /\ Len(outgoing') = m + n
        /\ \A i \in 1..m : outgoing'[i] = outgoing[i]
        /\ \A i \in 1..n : outgoing'[m + i] = Unit(p, done + i)
    BY <1>10 DEF m
  <2>5. ASSUME NEW i \in 1..(Len(outgoing') - 1)
        PROVE  Follows(outgoing'[i], outgoing'[i + 1])
    <3>1. CASE i < m
      BY <2>1, <2>4, <3>1
    <3>2. CASE i = m
      <4>1. outgoing'[i] = outgoing[m] /\ outgoing'[i + 1] = Unit(p, done + 1) /\ m # 0
        BY <1>6, <2>4, <3>2
      <4>2. QED
        BY <2>1, <2>2, <2>3, <4>1
    <3>3. CASE i > m
      <4>1. PICK k \in 1..(n - 1) : i = m + k
        <5>1. i - m \in 1..(n - 1) /\ i = m + (i - m)
          BY <1>6, <2>4, <3>3
        <5>2. QED
          BY <5>1
      <4>2. k \in 1..n /\ k + 1 \in 1..n /\ i + 1 = m + (k + 1)
        BY <1>6, <2>4, <4>1
      <4>3. outgoing'[i] = Unit(p, done + k) /\ outgoing'[i + 1] = Unit(p, done + (k + 1))
        BY <2>4, <4>1, <4>2
      <4>4. QED
        BY <1>a, <4>3 DEF Follows, Unit
    <3>4. QED
      BY <2>4, <3>1, <3>2, <3>3
  <2>6. outgoing' # <<>> /\ outgoing'[Len(outgoing')] = Unit(p, done + n)
    BY <1>6, <1>10, <2>4, SeqElements
  <2>7. mutex' = t /\ t # Free /\ sending'[mutex'] = r
    BY <1>1, <1>2, <1>9, FreeAssumption
  <2>8. r # <<>> => Follows(outgoing'[Len(outgoing')], Head(r))
    BY <1>6, <1>11, <1>a, <2>6 DEF Follows, Unit
  <2>9. r = <<>> => done + n = Total(p)
    <3> SUFFICES ASSUME r = <<>> PROVE done + n = Total(p)
      OBVIOUS
    <3>1. Len(r) = 0
      BY <1>8, SeqElements
    <3>2. Len(s) - n = 0
      BY <1>8, <3>1
    <3>3. n = Len(s)
      BY <1>3, <1>6, <3>2
    <3>4. QED
      BY <1>a, <3>3
  <2>10. r = <<>> => LET last == outgoing'[Len(outgoing')]
                     IN  last.unit = Total(last.packet)
    BY <2>6, <2>9 DEF Unit
  <2>11. QED
    BY <2>5, <2>6, <2>7, <2>8, <2>10 DEF OutgoingOK, Follows, Unit, Total
<1>14. QED
  BY <1>9, <1>10, <1>12, <1>13

-----------------------------------------------------------------------------
(***************************************************************************)
(* Receiving: the stream of units and the header that is filled from it.   *)
(***************************************************************************)
Busy == {"reply", "replying", "cleanup", "nack", "nacking"}

\* Steps that read nothing.
LEMMA StreamKept ==
    ASSUME IInv, UNCHANGED <<incoming, requests, hdr, got, taken, misread>>,
           conn' = conn \/ (conn = "open" /\ conn' \in {"eof", "reset"}),
           \/ pc' = pc
           \/ pc' \in Leaving
           \/ pc \in Busy /\ pc' \in Busy \cup {"header"}
    PROVE  StreamOK' /\ DeadOK' /\ PositionOK' /\ HeaderOK'
<1>1. StreamOK'
  BY DEF IInv, StreamOK, UnitOK, RunOK, LastOK, Unit, Total
<1>2. DeadOK'
  <2>1. conn' = "dead" <=> conn = "dead"
    BY DEF IInv, Types
  <2>2. conn = "dead" => misread \/ pc' \in {"header"} \cup Leaving
    BY DEF IInv, DeadOK, Busy, Leaving
  <2>3. QED
    BY <2>1, <2>2 DEF IInv, DeadOK
<1>3. PositionOK'
  <2>1. taken' <= Len(requests')
    BY DEF IInv, PositionOK
  <2>2. ASSUME conn' # "dead", pc' \notin Leaving
        PROVE  conn # "dead" /\ NextPacket' = NextPacket /\ NextUnit' = NextUnit
                /\ pc \notin Leaving
    <3>1. CASE pc' = pc
      BY <2>2, <3>1 DEF NextPacket, NextUnit
    <3>2. CASE pc \in Busy /\ pc' \in Busy \cup {"header"}
      <4>1. got = 0 /\ pc \notin {"header", "payload", "dispatch"} \cup Leaving
        BY <3>2 DEF IInv, HeaderOK, Busy, Leaving
      <4>2. QED
        BY <2>2, <3>2, <4>1 DEF NextPacket, NextUnit, Busy
    <3>3. QED
      BY <2>2, <3>1, <3>2
  <2>3. QED
    BY <2>1, <2>2 DEF IInv, PositionOK
<1>4. HeaderOK'
  <2>1. CASE pc' = pc
    BY <2>1 DEF IInv, HeaderOK, AtRest
  <2>2. CASE pc' \in Leaving
    BY <2>2 DEF IInv, HeaderOK, AtRest, Leaving
  <2>3. CASE pc \in Busy /\ pc' \in Busy \cup {"header"}
    <3>1. got = 0 /\ AtRest
      BY <2>3 DEF IInv, HeaderOK, Busy, Leaving, AtRest
    <3>2. QED
      BY <2>3, <3>1, HeaderAssumption DEF IInv, HeaderOK, Busy, AtRest
  <2>4. QED
    BY <2>1, <2>2, <2>3
<1>5. QED
  BY <1>1, <1>2, <1>3, <1>4

\* The units that a read returns are those of one packet, and what comes after them.
LEMMA ReadUnits ==
    ASSUME IInv, NEW n \in 1..Len(incoming),
           NEW p, p = incoming[1].packet,
           NEW at, at = incoming[1].unit + (n - 1), at <= Total(p)
    PROVE  /\ p \in Packets /\ Total(p) \in Nat /\ at \in Nat
           /\ incoming[n] = Unit(p, at)
           /\ n < Len(incoming) /\ at < Total(p) => incoming[n + 1] = Unit(p, at + 1)
           /\ n < Len(incoming) /\ at = Total(p) =>
                 incoming[n + 1].unit = 1 /\ incoming[n + 1].packet.id = p.id + 1
           /\ n = Len(incoming) =>
                 p.id = Len(requests) + 1 \/ (p.id = Len(requests) /\ at = Total(p))
           /\ p.id \in 1..(Len(requests) + 1)
           /\ p.id <= Len(requests) => p = requests[p.id]
           /\ p.id = Len(requests) + 1 => conn # "open" /\ at < Total(p)
<1>1. incoming \in Seq(Units) /\ Len(incoming) \in Nat
      /\ \A i \in 1..Len(incoming) : incoming[i] \in Units
  <2>1. incoming \in Seq(Units)
    BY DEF IInv, Types
  <2>2. QED
    BY <2>1, SeqElements
<1>2. 1 \in 1..Len(incoming) /\ n \in Int
  BY <1>1
<1>3. incoming[1].unit \in Nat /\ p \in Packets /\ Total(p) \in Nat /\ p.id \in Nat
  BY <1>1, <1>2, UnitFields
<1>4. at \in Nat
  BY <1>2, <1>3
<1>5. \A j \in 1..Len(incoming) : 1 <= j => RunOK(1, j)
  BY <1>2 DEF IInv, StreamOK
<1>6. incoming[n] = Unit(p, at)
  BY <1>1, <1>2, <1>3, <1>5 DEF RunOK
<1>7. n < Len(incoming) => RunOK(1, n + 1)
  BY <1>1, <1>5
<1>8. incoming[1].unit + ((n + 1) - 1) = at + 1
  BY <1>2, <1>3
<1>9. /\ n < Len(incoming) /\ at < Total(p) => incoming[n + 1] = Unit(p, at + 1)
      /\ n < Len(incoming) /\ at = Total(p) =>
            incoming[n + 1].unit = 1 /\ incoming[n + 1].packet.id = p.id + 1
  BY <1>3, <1>4, <1>7, <1>8 DEF RunOK
<1>10. UnitOK(incoming[n]) /\ (n = Len(incoming) => LastOK(incoming[n]))
  <2>1. incoming # <<>>
    BY <1>1, <1>2, SeqElements
  <2>2. QED
    BY <2>1 DEF IInv, StreamOK
<1>11. incoming[n].packet = p /\ incoming[n].unit = at
  BY <1>6 DEF Unit
<1>12. QED
  BY <1>3, <1>4, <1>6, <1>9, <1>10, <1>11 DEF UnitOK, LastOK

\* What is left after a read is a stream again.
LEMMA ReadStream ==
    ASSUME IInv, NEW n \in 1..Len(incoming), incoming' = Received(n),
           UNCHANGED <<conn, requests>>
    PROVE  /\ StreamOK' /\ incoming' \in Seq(Units)
           /\ incoming' = <<>> <=> n = Len(incoming)
           /\ n < Len(incoming) => incoming'[1] = incoming[n + 1]
<1>1. incoming \in Seq(Units) /\ Len(incoming) \in Nat /\ n \in 0..Len(incoming)
  <2>1. incoming \in Seq(Units)
    BY DEF IInv, Types
  <2>2. QED
    BY <2>1, SeqElements
<1>2. /\ incoming' \in Seq(Units) /\ Len(incoming') = Len(incoming) - n
      /\ \A i \in 1..(Len(incoming) - n) : incoming'[i] = incoming[n + i]
  BY <1>1, Drop DEF Received
<1>3. incoming' = <<>> <=> n = Len(incoming)
  <2>1. incoming' = <<>> <=> Len(incoming') = 0
    BY <1>2, SeqElements
  <2>2. QED
    BY <1>1, <1>2, <2>1
<1>4. n < Len(incoming) => incoming'[1] = incoming[n + 1]
  BY <1>1, <1>2
<1>5. \A i \in 1..Len(incoming') : n + i \in 1..Len(incoming) /\ incoming'[i] = incoming[n + i]
  BY <1>1, <1>2
<1>6. \A i \in 1..Len(incoming') : UnitOK(incoming[i])'
  BY <1>5 DEF IInv, StreamOK, UnitOK, Unit, Total
<1>7. ASSUME NEW i \in 1..Len(incoming'), NEW j \in 1..Len(incoming'), i <= j
      PROVE  RunOK(i, j)'
  <2>1. RunOK(n + i, n + j)
    BY <1>1, <1>2, <1>5, <1>7 DEF IInv, StreamOK
  <2>2. (n + j) - (n + i) = j - i
    BY <1>1, <1>2
  <2>3. QED
    BY <1>5, <2>1, <2>2 DEF RunOK, Unit, Total
<1>8. incoming' # <<>> => LastOK(incoming[Len(incoming)])'
  <2> SUFFICES ASSUME incoming' # <<>> PROVE LastOK(incoming[Len(incoming)])'
    OBVIOUS
  <2>1. Len(incoming') >= 1 /\ n + Len(incoming') = Len(incoming)
    BY <1>1, <1>2, <1>3
  <2>2. incoming'[Len(incoming')] = incoming[Len(incoming)]
    BY <1>1, <1>2, <1>5, <2>1
  <2>3. LastOK(incoming[Len(incoming)])
    <3>1. incoming # <<>>
      BY <1>1, SeqElements
    <3>2. QED
      BY <3>1 DEF IInv, StreamOK
  <2>4. QED
    BY <2>2, <2>3 DEF LastOK, Total
<1>9. StreamOK'
  BY <1>6, <1>7, <1>8 DEF IInv, StreamOK
<1>10. QED
  BY <1>2, <1>3, <1>4, <1>9

\* What a read leaves: the rest of the packet, or the next one.
LEMMA ReadOn ==
    ASSUME IInv, NEW n \in 1..Len(incoming), incoming' = Received(n),
           UNCHANGED <<conn, requests>>,
           NEW p, p = incoming[1].packet,
           NEW at, at = incoming[1].unit + (n - 1), at <= Total(p)
    PROVE  /\ StreamOK' /\ incoming' \in Seq(Units)
           /\ incoming[n] = Unit(p, at)
           /\ at < Total(p) /\ incoming' = <<>> => p.id = Len(requests) + 1 /\ conn # "open"
           /\ at = Total(p) /\ incoming' = <<>> => p.id = Len(requests)
           /\ at < Total(p) /\ incoming' # <<>> =>
                 /\ incoming'[1].packet = p /\ incoming'[1].unit = at + 1
           /\ at = Total(p) /\ incoming' # <<>> =>
                 /\ incoming'[1].packet.id = p.id + 1 /\ incoming'[1].unit = 1
           /\ at = Total(p) => p.id <= Len(requests)
           /\ p.id <= Len(requests) => p = requests[p.id]
<1>1. /\ p \in Packets /\ Total(p) \in Nat /\ at \in Nat
      /\ incoming[n] = Unit(p, at)
      /\ n < Len(incoming) /\ at < Total(p) => incoming[n + 1] = Unit(p, at + 1)
      /\ n < Len(incoming) /\ at = Total(p) =>
            incoming[n + 1].unit = 1 /\ incoming[n + 1].packet.id = p.id + 1
      /\ n = Len(incoming) => p.id = Len(requests) + 1 \/ (p.id = Len(requests) /\ at = Total(p))
      /\ p.id \in 1..(Len(requests) + 1)
      /\ p.id <= Len(requests) => p = requests[p.id]
      /\ p.id = Len(requests) + 1 => conn # "open" /\ at < Total(p)
  BY ReadUnits
<1>2. /\ StreamOK' /\ incoming' \in Seq(Units)
      /\ incoming' = <<>> <=> n = Len(incoming)
      /\ n < Len(incoming) => incoming'[1] = incoming[n + 1]
  BY ReadStream
<1>3. Len(incoming) \in Nat /\ Len(requests) \in Nat
  <2>1. incoming \in Seq(Units) /\ requests \in Seq(Packets)
    BY DEF IInv, Types
  <2>2. QED
    BY <2>1, SeqElements
<1>4. n = Len(incoming) \/ n < Len(incoming)
  BY <1>3
<1>5. ASSUME incoming' = <<>>, at < Total(p)
      PROVE  p.id = Len(requests) + 1 /\ conn # "open"
  BY <1>1, <1>2, <1>3, <1>5
<1>6. ASSUME incoming' = <<>>, at = Total(p)
      PROVE  p.id = Len(requests)
  BY <1>1, <1>2, <1>3, <1>6
<1>7. ASSUME incoming' # <<>>, at < Total(p)
      PROVE  incoming'[1].packet = p /\ incoming'[1].unit = at + 1
  <2>1. incoming'[1] = Unit(p, at + 1)
    BY <1>1, <1>2, <1>4, <1>7
  <2>2. QED
    BY <2>1 DEF Unit
<1>8. ASSUME incoming' # <<>>, at = Total(p)
      PROVE  incoming'[1].packet.id = p.id + 1 /\ incoming'[1].unit = 1
  <2>1. n < Len(incoming) /\ incoming'[1] = incoming[n + 1]
    BY <1>2, <1>4, <1>8
  <2>2. QED
    BY <1>1, <1>8, <2>1
<1>9. at = Total(p) => p.id <= Len(requests)
  BY <1>1, <1>3
<1>10. QED
  BY <1>1, <1>2, <1>5, <1>6, <1>7, <1>8, <1>9

\* A read of the header.
LEMMA ReadHeaderStream ==
    ASSUME IInv, NEW next, pc = "header", ReadHeader(next), pc' = next,
           UNCHANGED <<requests, taken, misread>>
    PROVE  /\ StreamOK' /\ DeadOK' /\ PositionOK' /\ HeaderOK'
           /\ incoming' \in Seq(Units) /\ hdr' \in Packets /\ got' \in Nat
           /\ next \in {"header", "payload", "dispatch", "leave"} /\ ~misread
           /\ next \in {"header", "leave"} \/ next = (IF hdr'.size > 0 THEN "payload" ELSE "dispatch")
<1>1. PICK n \in 1..(HeaderSize - got) :
         /\ n <= Len(incoming)
         /\ incoming' = Received(n)
         /\ hdr' = FillHeader(n)
         /\ IF got + n = HeaderSize
            THEN got' = 0 /\ next \in AfterHeader(hdr'.size)
            ELSE got' = got + n /\ next = "header"
         /\ UNCHANGED <<conn, outgoing, mutex, sending>>
  BY DEF ReadHeader
<1> DEFINE p == incoming[1].packet
           at == incoming[1].unit + (n - 1)
<1>2. /\ incoming \in Seq(Units) /\ got \in Nat /\ hdr \in Packets /\ taken \in Nat
      /\ Len(requests) \in Nat /\ taken <= Len(requests)
  <2>1. requests \in Seq(Packets)
    BY DEF IInv, Types
  <2>2. QED
    BY <2>1, SeqElements DEF IInv, Types, PositionOK
<1>3. /\ n \in 1..Len(incoming) /\ incoming # <<>>
      /\ \A i \in 1..Len(incoming) : incoming[i] \in Units
  BY <1>1, <1>2, SeqElements
<1>4. conn # "dead" /\ ~misread
  BY <1>3 DEF IInv, DeadOK
<1>5. p.id = taken + 1 /\ incoming[1].unit = got + 1
  BY <1>3, <1>4 DEF IInv, PositionOK, NextPacket, NextUnit, Leaving
<1>6. /\ p \in Packets /\ Total(p) \in Nat /\ Total(p) = HeaderSize + p.size /\ p.size \in Nat
      /\ p.type \in PacketTypes /\ p.id \in Nat
  BY <1>2, <1>3, UnitFields DEF Total
<1>7. at = got + n /\ at <= HeaderSize /\ at <= Total(p) /\ n \in Nat
  <2>1. n \in Nat /\ got + n <= HeaderSize
    BY <1>1, <1>2, HeaderAssumption
  <2>2. at = (got + 1) + (n - 1)
    BY <1>5
  <2> HIDE DEF at
  <2>3. at = got + n
    BY <1>2, <2>1, <2>2
  <2> HIDE DEF p
  <2>4. QED
    BY <1>2, <1>6, <2>1, <2>3, HeaderAssumption
<1> HIDE DEF p, at
<1>8. /\ StreamOK' /\ incoming' \in Seq(Units)
      /\ incoming[n] = Unit(p, at)
      /\ at < Total(p) /\ incoming' = <<>> => p.id = Len(requests) + 1 /\ conn # "open"
      /\ at = Total(p) /\ incoming' = <<>> => p.id = Len(requests)
      /\ at < Total(p) /\ incoming' # <<>> =>
            /\ incoming'[1].packet = p /\ incoming'[1].unit = at + 1
      /\ at = Total(p) /\ incoming' # <<>> =>
            /\ incoming'[1].packet.id = p.id + 1 /\ incoming'[1].unit = 1
      /\ at = Total(p) => p.id <= Len(requests)
      /\ p.id <= Len(requests) => p = requests[p.id]
  BY <1>1, <1>3, <1>7, ReadOn DEF p, at
<1>9. p.id = taken + 1
  BY <1>5 DEF p
<1>10. /\ hdr'.type = IF got = 0 THEN p.type ELSE hdr.type
       /\ hdr'.id = taken + 1
       /\ hdr'.size = IF at = HeaderSize THEN p.size ELSE hdr.size
       /\ hdr' \in Packets
  <2>1. incoming[n].packet = p
    BY <1>8 DEF Unit
  <2>2. got > 0 => hdr.id = taken + 1
    BY <1>4 DEF IInv, HeaderOK
  <2> DEFINE type == IF got = 0 THEN p.type ELSE hdr.type
             id == IF got = 0 THEN p.id ELSE hdr.id
             size == IF at = HeaderSize THEN p.size ELSE hdr.size
  <2>3. hdr' = [hdr EXCEPT !.type = type, !.id = id, !.size = size]
    <3>1. got + n = HeaderSize <=> at = HeaderSize
      BY <1>7
    <3>2. FillHeader(n) = [hdr EXCEPT !.type = IF got = 0 THEN incoming[1].packet.type ELSE @,
                                      !.id = IF got = 0 THEN incoming[1].packet.id ELSE @,
                                      !.size = IF got + n = HeaderSize
                                               THEN incoming[n].packet.size ELSE @]
      BY DEF FillHeader
    <3>3. QED
      BY <1>1, <2>1, <3>1, <3>2, Zenon DEF p
  <2>4. type \in PacketTypes /\ id = taken + 1 /\ size \in Nat
    BY <1>2, <1>6, <1>9, <2>2 DEF Packets
  <2> HIDE DEF type, id, size
  <2>5. hdr' = [type |-> type, size |-> size, id |-> id]
    BY <1>2, <2>3 DEF Packets
  <2>6. hdr' \in Packets
    BY <1>2, <2>4, <2>5 DEF Packets
  <2>7. QED
    BY <2>4, <2>5, <2>6 DEF type, id, size
<1>11. taken < Len(requests) =>
          /\ hdr'.type = requests[taken + 1].type
          /\ at = HeaderSize => hdr' = requests[taken + 1]
  <2> SUFFICES ASSUME taken < Len(requests)
               PROVE  /\ hdr'.type = requests[taken + 1].type
                      /\ at = HeaderSize => hdr' = requests[taken + 1]
    OBVIOUS
  <2>1. p = requests[taken + 1]
    BY <1>2, <1>8, <1>9
  <2>2. got > 0 => hdr.type = requests[taken + 1].type
    BY <1>4 DEF IInv, HeaderOK
  <2>3. hdr'.type = p.type
    BY <1>2, <1>10, <2>1, <2>2
  <2>4. at = HeaderSize => hdr' = p
    BY <1>6, <1>9, <1>10, <2>3 DEF Packets
  <2>5. QED
    BY <2>1, <2>3, <2>4
<1>12. DeadOK'
  BY <1>1, <1>4 DEF DeadOK
<1>13. ASSUME at # HeaderSize
       PROVE  got' = at /\ next = "header" /\ PositionOK' /\ HeaderOK'
  <2>1. got' = at /\ next = "header" /\ at < HeaderSize /\ at > 0 /\ at < Total(p)
    BY <1>1, <1>2, <1>6, <1>7, <1>13, HeaderAssumption
  <2>2. PositionOK'
    <3>1. incoming' = <<>> => taken + 1 = Len(requests) + 1 /\ conn # "open"
      BY <1>8, <1>9, <2>1
    <3>2. incoming' # <<>> => incoming'[1].packet.id = taken + 1 /\ incoming'[1].unit = at + 1
      BY <1>8, <1>9, <2>1
    <3>3. NextPacket' = taken + 1 /\ NextUnit' = at + 1
      BY <2>1 DEF NextPacket, NextUnit
    <3>4. QED
      BY <1>1, <1>2, <3>1, <3>2, <3>3 DEF PositionOK
  <2>3. HeaderOK'
    BY <1>4, <1>10, <1>11, <2>1 DEF HeaderOK, AtRest, Leaving
  <2>4. QED
    BY <2>1, <2>2, <2>3
<1>14. ASSUME at = HeaderSize
       PROVE  /\ PositionOK' /\ HeaderOK' /\ got' = 0
              /\ next = "leave" \/ next = (IF hdr'.size > 0 THEN "payload" ELSE "dispatch")
  <2>1. /\ got' = 0 /\ hdr'.size = p.size
        /\ next = "leave" \/ next = (IF p.size > 0 THEN "payload" ELSE "dispatch")
    BY <1>1, <1>6, <1>7, <1>10, <1>14 DEF AfterHeader
  <2>2. CASE next = "leave"
    BY <1>1, <1>2, <1>4, <2>1, <2>2 DEF PositionOK, HeaderOK, AtRest, Leaving
  <2>3. CASE next = "payload"
    <3>1. p.size > 0 /\ at < Total(p)
      BY <1>6, <1>14, <2>1, <2>3, HeaderAssumption
    <3>2. incoming' = <<>> => taken + 1 = Len(requests) + 1 /\ conn # "open"
      BY <1>8, <1>9, <3>1
    <3>3. incoming' # <<>> =>
             /\ incoming'[1].packet.id = taken + 1 /\ incoming'[1].unit = HeaderSize + 1
             /\ incoming'[1].packet.size = hdr'.size
      BY <1>8, <1>9, <1>14, <2>1, <3>1
    <3>4. NextPacket' = taken + 1 /\ NextUnit' = HeaderSize + 1
      BY <2>1, <2>3, HeaderAssumption DEF NextPacket, NextUnit
    <3>5. PositionOK'
      BY <1>1, <1>2, <3>2, <3>3, <3>4 DEF PositionOK
    <3>6. HeaderOK'
      BY <1>4, <1>11, <1>14, <2>1, <2>3, <3>1, <3>3 DEF HeaderOK, AtRest, Leaving
    <3>7. QED
      BY <2>1, <3>5, <3>6
  <2>4. CASE next = "dispatch"
    <3>1. p.size = 0 /\ at = Total(p)
      BY <1>6, <1>14, <2>1, <2>4, HeaderAssumption
    <3>2. incoming' = <<>> => taken + 2 = Len(requests) + 1
      BY <1>2, <1>8, <1>9, <3>1
    <3>3. incoming' # <<>> =>
             incoming'[1].packet.id = taken + 2 /\ incoming'[1].unit = 1
      BY <1>2, <1>8, <1>9, <3>1
    <3>4. NextPacket' = taken + 2 /\ NextUnit' = 1
      BY <2>1, <2>4 DEF NextPacket, NextUnit
    <3>5. PositionOK'
      BY <1>1, <1>2, <3>2, <3>3, <3>4 DEF PositionOK
    <3>6. taken < Len(requests)
      BY <1>2, <1>8, <1>9, <3>1
    <3>7. HeaderOK'
      BY <1>4, <1>11, <1>14, <2>1, <2>4, <3>6 DEF HeaderOK, AtRest, Leaving
    <3>8. QED
      BY <2>1, <3>5, <3>7
  <2>5. QED
    BY <2>1, <2>2, <2>3, <2>4
<1>15. QED
  BY <1>2, <1>4, <1>7, <1>8, <1>10, <1>12, <1>13, <1>14

\* A reset while the header is awaited: nothing arrives any more.
LEMMA HeaderResetStream ==
    ASSUME IInv, NEW next, pc = "header", HeaderReset(next), pc' = next,
           misread' = (misread \/ next # "header"), UNCHANGED <<requests, taken>>
    PROVE  /\ StreamOK' /\ DeadOK' /\ PositionOK' /\ HeaderOK' /\ got' \in Nat
           /\ next \in {"header", "leave"} \/ next = (IF hdr'.size > 0 THEN "payload" ELSE "dispatch")
<1>1. /\ incoming = <<>> /\ conn = "reset" /\ conn' = "dead"
      /\ UNCHANGED <<incoming, hdr>>
      /\ IF got = 0 THEN got' = 0 /\ next \in AfterHeader(hdr.size)
                    ELSE got' = got - 1 /\ next = "header"
  BY DEF HeaderReset
<1>2. got \in Nat /\ hdr.size \in Nat /\ ~misread /\ got < HeaderSize /\ taken <= Len(requests)
  BY <1>1 DEF IInv, Types, Packets, DeadOK, HeaderOK, PositionOK
<1>3. StreamOK'
  <2>1. Len(incoming) = 0
    BY <1>1
  <2>2. QED
    BY <1>1, <2>1 DEF IInv, StreamOK
<1>4. PositionOK'
  BY <1>1, <1>2 DEF PositionOK
<1>5. CASE got = 0
  <2>1. /\ got' = 0
        /\ next = "leave" \/ next = (IF hdr.size > 0 THEN "payload" ELSE "dispatch")
        /\ misread'
    BY <1>1, <1>2, <1>5 DEF AfterHeader
  <2>2. AtRest
    BY <1>1, <1>5 DEF AtRest
  <2>3. DeadOK' /\ HeaderOK'
    BY <1>1, <1>2, <2>1, <2>2, HeaderAssumption DEF IInv, DeadOK, HeaderOK, AtRest, Leaving
  <2>4. QED
    BY <1>1, <1>3, <1>4, <2>1, <2>3
<1>6. CASE got # 0
  <2>1. got' = got - 1 /\ next = "header" /\ ~misread'
    BY <1>1, <1>2, <1>6
  <2>2. got' \in Nat /\ got' < HeaderSize
    BY <1>2, <1>6, <2>1, HeaderAssumption
  <2>3. DeadOK' /\ HeaderOK'
    BY <1>1, <2>1, <2>2 DEF DeadOK, HeaderOK, AtRest, Leaving
  <2>4. QED
    BY <1>3, <1>4, <2>1, <2>2, <2>3
<1>7. QED
  BY <1>5, <1>6

\* A read of the payload.
LEMMA ReadPayloadStream ==
    ASSUME IInv, NEW next, pc = "payload", ReadPayload(next), pc' = next,
           UNCHANGED <<requests, taken, misread>>
    PROVE  /\ StreamOK' /\ DeadOK' /\ PositionOK' /\ HeaderOK'
           /\ incoming' \in Seq(Units) /\ got' \in Nat /\ hdr' = hdr /\ ~misread
           /\ next \in {"payload", "dispatch"} /\ hdr.size > 0
<1>1. PICK n \in 1..(hdr.size - got) :
         /\ n <= Len(incoming)
         /\ incoming' = Received(n)
         /\ IF got + n = hdr.size THEN got' = 0 /\ next = "dispatch"
                                  ELSE got' = got + n /\ next = "payload"
         /\ UNCHANGED <<conn, hdr, outgoing, mutex, sending>>
  BY DEF ReadPayload
<1> DEFINE p == incoming[1].packet
           at == incoming[1].unit + (n - 1)
<1>2. /\ incoming \in Seq(Units) /\ got \in Nat /\ hdr \in Packets /\ taken \in Nat
      /\ Len(requests) \in Nat /\ taken <= Len(requests)
  <2>1. requests \in Seq(Packets)
    BY DEF IInv, Types
  <2>2. QED
    BY <2>1, SeqElements DEF IInv, Types, PositionOK
<1>3. /\ hdr.size \in Nat /\ n \in Nat /\ n >= 1 /\ got + n <= hdr.size
      /\ n \in 1..Len(incoming) /\ incoming # <<>>
      /\ \A i \in 1..Len(incoming) : incoming[i] \in Units
  <2>1. hdr.size \in Nat
    BY <1>2 DEF Packets
  <2>2. Len(incoming) \in Nat /\ \A i \in 1..Len(incoming) : incoming[i] \in Units
    BY <1>2, SeqElements
  <2>3. QED
    BY <1>1, <1>2, <2>1, <2>2, SeqElements
<1>4. conn # "dead" /\ ~misread
  BY <1>3 DEF IInv, DeadOK
<1>5. /\ p.id = taken + 1 /\ incoming[1].unit = HeaderSize + got + 1 /\ p.size = hdr.size
      /\ taken < Len(requests) => hdr = requests[taken + 1]
  BY <1>3, <1>4 DEF IInv, PositionOK, HeaderOK, NextPacket, NextUnit, Leaving
<1>6. Total(p) = HeaderSize + hdr.size
  BY <1>5 DEF Total
<1>7. at = HeaderSize + got + n /\ at <= Total(p)
  <2>1. at = (HeaderSize + got + 1) + (n - 1)
    BY <1>5
  <2> HIDE DEF at
  <2>2. at = HeaderSize + got + n
    BY <1>2, <1>3, <2>1, HeaderAssumption
  <2> HIDE DEF p
  <2>3. QED
    BY <1>2, <1>3, <1>6, <2>2, HeaderAssumption
<1> HIDE DEF p, at
<1>8. /\ StreamOK' /\ incoming' \in Seq(Units)
      /\ at < Total(p) /\ incoming' = <<>> => p.id = Len(requests) + 1 /\ conn # "open"
      /\ at = Total(p) /\ incoming' = <<>> => p.id = Len(requests)
      /\ at < Total(p) /\ incoming' # <<>> =>
            /\ incoming'[1].packet = p /\ incoming'[1].unit = at + 1
      /\ at = Total(p) /\ incoming' # <<>> =>
            /\ incoming'[1].packet.id = p.id + 1 /\ incoming'[1].unit = 1
      /\ at = Total(p) => p.id <= Len(requests)
  BY <1>1, <1>3, <1>7, ReadOn DEF p, at
<1>9. p.id = taken + 1 /\ p.size = hdr.size
  BY <1>5 DEF p
<1>10. DeadOK'
  BY <1>1, <1>4 DEF DeadOK
<1>11. ASSUME got + n # hdr.size
       PROVE  got' \in Nat /\ next = "payload" /\ PositionOK' /\ HeaderOK'
  <2>1. /\ got' = got + n /\ next = "payload" /\ got + n < hdr.size /\ got' \in Nat
        /\ at < Total(p) /\ NextUnit' = at + 1
    <3>1. got' = got + n /\ next = "payload"
      BY <1>1, <1>11
    <3>2. got + n < hdr.size /\ got + n \in Nat
      BY <1>2, <1>3, <1>11
    <3>3. n \in Nat /\ got \in Nat /\ hdr.size \in Nat
      BY <1>2, <1>3
    <3>4. at < Total(p)
      BY <1>6, <1>7, <3>2, <3>3, HeaderAssumption
    <3>5. NextUnit' = HeaderSize + (got + n) + 1
      BY <3>1 DEF NextUnit
    <3>6. NextUnit' = at + 1
      BY <1>7, <3>3, <3>5, HeaderAssumption
    <3>7. QED
      BY <3>1, <3>2, <3>4, <3>6
  <2>2. incoming' = <<>> => taken + 1 = Len(requests) + 1 /\ conn # "open"
    BY <1>8, <1>9, <2>1
  <2>3. incoming' # <<>> =>
           /\ incoming'[1].packet.id = taken + 1 /\ incoming'[1].unit = at + 1
           /\ incoming'[1].packet.size = hdr.size
    BY <1>8, <1>9, <2>1
  <2>4. NextPacket' = taken + 1
    BY <2>1 DEF NextPacket
  <2>5. PositionOK'
    BY <1>1, <1>2, <2>1, <2>2, <2>3, <2>4 DEF PositionOK
  <2>6. HeaderOK'
    BY <1>1, <1>4, <1>5, <2>1, <2>3 DEF HeaderOK, AtRest, Leaving
  <2>7. QED
    BY <2>1, <2>5, <2>6
<1>12. ASSUME got + n = hdr.size
       PROVE  got' = 0 /\ next = "dispatch" /\ PositionOK' /\ HeaderOK'
  <2>1. got' = 0 /\ next = "dispatch" /\ at = Total(p)
    BY <1>1, <1>2, <1>3, <1>6, <1>7, <1>12, HeaderAssumption
  <2>2. incoming' = <<>> => taken + 2 = Len(requests) + 1
    BY <1>2, <1>8, <1>9, <2>1
  <2>3. incoming' # <<>> => incoming'[1].packet.id = taken + 2 /\ incoming'[1].unit = 1
    BY <1>2, <1>8, <1>9, <2>1
  <2>4. NextPacket' = taken + 2 /\ NextUnit' = 1
    BY <2>1 DEF NextPacket, NextUnit
  <2>5. taken < Len(requests)
    BY <1>2, <1>8, <1>9, <2>1
  <2>6. PositionOK'
    BY <1>1, <1>2, <2>2, <2>3, <2>4 DEF PositionOK
  <2>7. HeaderOK'
    BY <1>1, <1>4, <1>5, <2>1, <2>5 DEF HeaderOK, AtRest, Leaving
  <2>8. QED
    BY <2>1, <2>6, <2>7
<1>13. got' \in Nat /\ next \in {"payload", "dispatch"} /\ PositionOK' /\ HeaderOK'
  BY <1>11, <1>12
<1>14. QED
  BY <1>1, <1>2, <1>3, <1>4, <1>8, <1>10, <1>13

\* What the client has asked stays asked.
Grown == /\ Len(requests) <= Len(requests')
         /\ \A i \in 1..Len(requests) : requests'[i] = requests[i]

\* The units of one packet more arrive, all of them or, before the client goes, a part.
LEMMA ArriveStream ==
    ASSUME IInv, conn = "open", Len(requests) < MaxRequests,
           NEW packet \in Packets, packet.id = Len(requests) + 1,
           NEW m \in 1..Total(packet), NEW w \in Seq(Units), Len(w) = m,
           \A i \in 1..m : w[i] = Unit(packet, i),
           incoming' = incoming \o w, UNCHANGED <<hdr, got, taken, misread, pc>>,
           \/ m = Total(packet) /\ requests' = Append(requests, packet) /\ conn' = conn
           \/ m < Total(packet) /\ requests' = requests /\ conn' \in {"eof", "reset"}
    PROVE  /\ StreamOK' /\ DeadOK' /\ PositionOK' /\ HeaderOK'
           /\ incoming' \in Seq(Units) /\ requests' \in Seq(Packets) /\ Grown
<1> DEFINE L == Len(incoming)
           R == Len(requests)
<1>1. /\ incoming \in Seq(Units) /\ requests \in Seq(Packets)
      /\ got \in Nat /\ taken \in Nat
  BY DEF IInv, Types
<1>2. /\ L \in Nat /\ R \in Nat /\ m \in Nat \ {0} /\ Total(packet) \in Nat
      /\ \A i \in 1..L : incoming[i] \in Units
      /\ incoming = <<>> <=> L = 0
  <2>1. Total(packet) \in Nat
    BY UnitsOfPacket
  <2>2. QED
    BY <1>1, <2>1, SeqElements
<1>3. /\ incoming' \in Seq(Units) /\ Len(incoming') = L + m
      /\ \A i \in 1..L : incoming'[i] = incoming[i]
      /\ \A i \in 1..m : incoming'[L + i] = Unit(packet, i)
  <2>1. /\ incoming \o w \in Seq(Units) /\ Len(incoming \o w) = Len(incoming) + Len(w)
        /\ \A i \in 1 .. Len(incoming) + Len(w) :
              (incoming \o w)[i] = IF i <= Len(incoming) THEN incoming[i]
                                   ELSE w[i - Len(incoming)]
    BY <1>1, ConcatProperties
  <2>2. ASSUME NEW i \in 1..m
        PROVE  incoming'[L + i] = Unit(packet, i)
    <3>1. L + i \in 1 .. Len(incoming) + Len(w) /\ ~(L + i <= L) /\ (L + i) - L = i
      BY <1>2
    <3>2. QED
      BY <2>1, <3>1
  <2>3. QED
    BY <1>2, <2>1, <2>2
<1>4. /\ requests' \in Seq(Packets) /\ Grown
      /\ Len(requests') \in {R, R + 1}
      /\ Len(requests') = R => conn' # "open" /\ conn' # "dead" /\ m < Total(packet)
      /\ Len(requests') = R + 1 =>
            requests'[R + 1] = packet /\ conn' = "open" /\ m = Total(packet)
  <2>1. /\ Append(requests, packet) \in Seq(Packets)
        /\ Len(Append(requests, packet)) = R + 1
        /\ \A i \in 1..R : Append(requests, packet)[i] = requests[i]
        /\ Append(requests, packet)[R + 1] = packet
    BY <1>1, AppendProperties
  <2>2. CASE m = Total(packet) /\ requests' = Append(requests, packet) /\ conn' = conn
    <3> DEFINE a == Append(requests, packet)
    <3>1. requests' = a /\ conn' = "open"
      BY <2>2
    <3> HIDE DEF a
    <3>2. /\ a \in Seq(Packets) /\ Len(a) = R + 1
          /\ \A i \in 1..R : a[i] = requests[i]
          /\ a[R + 1] = packet
      BY <2>1 DEF a
    <3>3. requests' \in Seq(Packets) /\ Len(requests') = R + 1 /\ requests'[R + 1] = packet
      BY <3>1, <3>2
    <3>4. Grown
      BY <1>2, <3>1, <3>2 DEF Grown
    <3> HIDE DEF R
    <3>5. QED
      BY <1>2, <2>2, <3>1, <3>3, <3>4
  <2>3. CASE m < Total(packet) /\ requests' = requests /\ conn' \in {"eof", "reset"}
    <3>1. Grown
      BY <1>2, <2>3 DEF Grown
    <3>2. requests' \in Seq(Packets) /\ Len(requests') = R
      BY <1>1, <2>3
    <3> HIDE DEF R
    <3>3. QED
      BY <1>2, <2>3, <3>1, <3>2
  <2>4. QED
    BY <2>2, <2>3
<1>5. ASSUME NEW i \in 1..L
      PROVE  /\ incoming[i].packet.id \in 1..R
             /\ incoming[i].packet = requests[incoming[i].packet.id]
             /\ incoming[i].unit \in 1..Total(incoming[i].packet)
             /\ Total(incoming[i].packet) \in Nat
  <2>1. UnitOK(incoming[i]) /\ incoming[i] \in Units
    BY <1>2 DEF IInv, StreamOK
  <2>2. /\ Total(incoming[i].packet) \in Nat /\ incoming[i].packet.id \in Nat
    BY <2>1, UnitFields
  <2>3. QED
    BY <1>2, <2>1, <2>2 DEF UnitOK
<1>6. L > 0 => incoming[L].packet.id = R /\ incoming[L].unit = Total(incoming[L].packet)
  <2> SUFFICES ASSUME L > 0
               PROVE  incoming[L].packet.id = R /\ incoming[L].unit = Total(incoming[L].packet)
    OBVIOUS
  <2>1. L \in 1..L /\ incoming # <<>>
    BY <1>2
  <2>2. LastOK(incoming[L])
    BY <2>1 DEF IInv, StreamOK
  <2>3. incoming[L].packet.id \in 1..R
    BY <1>5, <2>1
  <2>4. QED
    BY <1>2, <2>2, <2>3 DEF LastOK
<1> HIDE DEF L, R
<1>7. \A i \in 1..(L + m) : i \in 1..L \/ \E k \in 1..m : i = L + k
  <2> SUFFICES ASSUME NEW i \in 1..(L + m), i \notin 1..L
               PROVE  \E k \in 1..m : i = L + k
    OBVIOUS
  <2>1. i - L \in 1..m /\ i = L + (i - L)
    BY <1>2
  <2>2. QED
    BY <2>1
<1>8. \A i \in 1..Len(incoming') : UnitOK(incoming[i])'
  <2> SUFFICES ASSUME NEW i \in 1..(L + m) PROVE UnitOK(incoming[i])'
    BY <1>3
  <2>1. CASE i \in 1..L
    <3>1. /\ incoming'[i] = incoming[i] /\ incoming[i].packet.id \in 1..R
          /\ incoming[i].packet = requests[incoming[i].packet.id]
          /\ incoming[i].unit \in 1..Total(incoming[i].packet)
      BY <1>3, <1>5, <2>1
    <3>2. requests'[incoming[i].packet.id] = requests[incoming[i].packet.id]
      BY <1>4, <3>1 DEF Grown, R
    <3> DEFINE id == incoming[i].packet.id
    <3>a. id \in 1..R
      BY <3>1
    <3> HIDE DEF id
    <3>b. id \in 1..(Len(requests') + 1) /\ id # Len(requests') + 1
      BY <1>2, <1>4, <3>a
    <3>3. incoming[i].packet.id \in 1..(Len(requests') + 1)
          /\ incoming[i].packet.id # Len(requests') + 1
      BY <3>b DEF id
    <3>4. QED
      BY <3>1, <3>2, <3>3 DEF UnitOK, Total
  <2>2. CASE \E k \in 1..m : i = L + k
    <3>1. PICK k \in 1..m : i = L + k
      BY <2>2
    <3>a. incoming'[i] = Unit(packet, k)
      BY <1>3, <3>1
    <3>2. incoming'[i].packet = packet /\ incoming'[i].unit = k
      BY <3>a DEF Unit
    <3>3. /\ packet.id = R + 1 /\ k \in 1..Total(packet)
          /\ k < Total(packet) \/ m = Total(packet)
      BY <1>2 DEF R
    <3>4. packet.id \in 1..(Len(requests') + 1)
      BY <1>2, <1>4, <3>3
    <3>5. packet.id <= Len(requests') => packet = requests'[packet.id]
      BY <1>2, <1>4, <3>3
    <3>6. packet.id = Len(requests') + 1 => conn' # "open" /\ k < Total(packet)
      BY <1>2, <1>4, <3>3
    <3>7. QED
      BY <3>2, <3>3, <3>4, <3>5, <3>6 DEF UnitOK, Total
  <2>3. QED
    BY <1>7, <2>1, <2>2
<1>9. ASSUME NEW i \in 1..Len(incoming'), NEW j \in 1..Len(incoming'), i <= j
      PROVE  RunOK(i, j)'
  <2>0. i \in 1..(L + m) /\ j \in 1..(L + m)
    BY <1>3
  <2>1. CASE i \in 1..L /\ j \in 1..L
    <3>1. RunOK(i, j)
      BY <1>9, <2>1 DEF IInv, StreamOK, L
    <3>2. QED
      BY <1>3, <2>1, <3>1 DEF RunOK, Unit, Total
  <2>2. CASE i \in 1..L /\ \E k \in 1..m : j = L + k
    <3>1. PICK k \in 1..m : j = L + k
      BY <2>2
    <3> DEFINE u == incoming[i]
               total == Total(u.packet)
               at == u.unit + (j - i)
    <3>2. /\ incoming'[i] = u /\ u.unit \in 1..total /\ total \in Nat
          /\ u.packet.id \in 1..R
      BY <1>3, <1>5, <2>2
    <3>3. incoming'[j] = Unit(packet, k)
      BY <1>3, <3>1
    <3>4. RunOK(i, L)
      <4>1. L \in 1..L /\ i <= L
        BY <1>2, <2>2
      <4>2. QED
        BY <2>2, <4>1 DEF IInv, StreamOK, L
    <3>5. /\ u.unit + (L - i) <= total => incoming[L] = Unit(u.packet, u.unit + (L - i))
      BY <3>4 DEF RunOK
    <3>6. incoming[L].packet.id = R /\ incoming[L].unit = Total(incoming[L].packet)
      BY <1>2, <1>6, <2>2
    <3> HIDE DEF u, total
    <3> DEFINE e == u.unit + (L - i)
    <3>a. u.unit \in Int /\ L \in Int /\ i \in Int /\ j \in Int /\ k \in Nat /\ k >= 1 /\ j = L + k
      BY <1>2, <2>2, <3>1, <3>2
    <3>7. e \in Int /\ at = e + k
      BY <3>a
    <3>8. e <= total => u.packet.id = R /\ e = total
      <4>1. ASSUME e <= total
            PROVE  incoming[L].packet = u.packet /\ incoming[L].unit = e
        BY <3>5, <4>1 DEF Unit
      <4>2. QED
        BY <3>6, <4>1 DEF total
    <3> HIDE DEF at, e
    <3>9. ~(at <= total)
      BY <3>2, <3>7, <3>8, <3>a
    <3>10. at = total + 1 => k = 1 /\ u.packet.id = R
      BY <3>2, <3>7, <3>8, <3>a
    <3>11. incoming'[j].unit = k /\ incoming'[j].packet.id = R + 1
      BY <3>3 DEF Unit, R
    <3>12. at = total + 1 => incoming'[j].unit = 1 /\ incoming'[j].packet.id = u.packet.id + 1
      BY <3>10, <3>11
    <3>13. QED
      BY <3>2, <3>9, <3>12 DEF RunOK, at, u, total, Total
  <2>3. CASE (\E k \in 1..m : i = L + k) /\ \E k \in 1..m : j = L + k
    <3>1. PICK k \in 1..m : i = L + k
      BY <2>3
    <3>2. PICK l \in 1..m : j = L + l
      BY <2>3
    <3>3. incoming'[i] = Unit(packet, k) /\ incoming'[j] = Unit(packet, l)
      BY <1>3, <3>1, <3>2
    <3>4. k + (j - i) = l /\ l <= Total(packet) /\ l # Total(packet) + 1
      BY <1>2, <3>1, <3>2
    <3>5. incoming'[i].packet = packet /\ incoming'[i].unit = k
      BY <3>3 DEF Unit
    <3>6. QED
      BY <3>3, <3>4, <3>5 DEF RunOK, Total, Unit
  <2>4. CASE (\E k \in 1..m : i = L + k) /\ j \in 1..L
    BY <1>2, <1>9, <2>4
  <2>5. QED
    BY <1>7, <2>0, <2>1, <2>2, <2>3, <2>4
<1>10. LastOK(incoming[Len(incoming)])'
  <2>1. incoming'[L + m] = Unit(packet, m)
    BY <1>2, <1>3
  <2>2. /\ incoming'[L + m].packet = packet /\ incoming'[L + m].unit = m
        /\ packet.id = R + 1
    BY <2>1 DEF Unit, R
  <2>3. \/ packet.id = Len(requests') + 1
        \/ packet.id = Len(requests') /\ m = Total(packet)
    BY <1>4, <2>2
  <2>4. QED
    BY <1>3, <2>2, <2>3 DEF LastOK, Total
<1>11. StreamOK'
  <2>1. Len(requests') <= MaxRequests
    BY <1>2, <1>4, BoundAssumption DEF R
  <2>2. \A i \in 1..Len(requests') : requests'[i].id = i
    <3> SUFFICES ASSUME NEW i \in 1..Len(requests') PROVE requests'[i].id = i
      OBVIOUS
    <3>1. CASE i \in 1..R
      BY <1>4, <3>1 DEF IInv, StreamOK, Grown, R
    <3>2. CASE i = R + 1 /\ Len(requests') = R + 1
      BY <1>4, <3>2 DEF R
    <3>3. QED
      BY <1>2, <1>4, <3>1, <3>2
  <2>3. QED
    BY <1>8, <1>9, <1>10, <2>1, <2>2 DEF StreamOK
<1>12. DeadOK'
  <2>1. conn' # "dead" /\ ~misread
    BY <1>4 DEF IInv, DeadOK
  <2>2. QED
    BY <2>1 DEF DeadOK
<1>13. incoming' # <<>> /\ conn' # "dead" /\ Len(incoming') >= 1
  <2>1. Len(incoming') >= 1
    BY <1>2, <1>3
  <2>2. QED
    BY <1>3, <1>4, <2>1, SeqElements
<1>14. taken <= R /\ taken <= Len(requests')
  BY <1>1, <1>2, <1>4 DEF IInv, PositionOK, R
<1>15. L = 0 /\ pc \notin Leaving => NextPacket = R + 1 /\ NextUnit = 1
  BY <1>2 DEF IInv, PositionOK, R
<1>16. L > 0 /\ pc \notin Leaving => incoming[1].packet.id = NextPacket /\ incoming[1].unit = NextUnit
  BY <1>2 DEF IInv, PositionOK
<1>17. NextPacket' = NextPacket /\ NextUnit' = NextUnit
  BY DEF NextPacket, NextUnit
<1>18. PositionOK'
  <2> SUFFICES ASSUME pc \notin Leaving
               PROVE  incoming'[1].packet.id = NextPacket /\ incoming'[1].unit = NextUnit
    BY <1>13, <1>14, <1>17 DEF PositionOK
  <2>1. CASE L = 0
    <3>1. incoming'[1] = Unit(packet, 1)
      BY <1>2, <1>3, <2>1
    <3>2. QED
      BY <1>15, <2>1, <3>1 DEF Unit, R
  <2>2. CASE L > 0
    BY <1>2, <1>3, <1>16, <2>2
  <2>3. QED
    BY <1>2, <2>1, <2>2
<1>19. ASSUME pc \notin Leaving, NextUnit # 1
       PROVE  L > 0 /\ incoming'[1] = incoming[1] /\ NextPacket <= R
  <2>1. L > 0
    BY <1>2, <1>15, <1>19
  <2>2. 1 \in 1..L
    BY <1>2, <2>1
  <2>3. QED
    BY <1>2, <1>3, <1>5, <1>16, <1>19, <2>1, <2>2
<1>20. HeaderOK'
  <2>1. CASE pc = "header"
    <3>1. got > 0 => taken + 1 <= R /\ taken < R
      BY <1>1, <1>2, <1>19, <2>1 DEF NextPacket, NextUnit, Leaving
    <3>2. got > 0 => taken < R /\ requests'[taken + 1] = requests[taken + 1]
      BY <1>1, <1>2, <1>4, <3>1 DEF Grown, R
    <3>3. taken > 0 => requests'[taken] = requests[taken]
      BY <1>1, <1>4, <1>14 DEF Grown, R
    <3>4. ~misread
      BY DEF IInv, DeadOK
    <3>5. QED
      BY <1>13, <2>1, <3>2, <3>3, <3>4 DEF IInv, HeaderOK, AtRest, R
  <2>2. CASE pc = "payload"
    <3>1. /\ L > 0 /\ incoming'[1] = incoming[1] /\ taken + 1 <= R
      BY <1>1, <1>2, <1>19, <2>2, HeaderAssumption DEF NextPacket, NextUnit, Leaving
    <3>2. taken < R /\ requests'[taken + 1] = requests[taken + 1]
      BY <1>1, <1>2, <1>4, <3>1 DEF Grown, R
    <3>3. ~misread /\ incoming # <<>>
      BY <1>2, <3>1 DEF IInv, DeadOK
    <3>4. QED
      BY <2>2, <3>1, <3>2, <3>3 DEF IInv, HeaderOK, AtRest, R
  <2>3. CASE pc = "dispatch"
    <3>1. ~misread
      BY DEF IInv, DeadOK
    <3>2. taken < R /\ hdr = requests[taken + 1]
      BY <2>3, <3>1 DEF IInv, HeaderOK, R
    <3>3. requests'[taken + 1] = requests[taken + 1] /\ taken < Len(requests')
      BY <1>1, <1>2, <1>4, <3>2 DEF Grown, R
    <3>4. QED
      BY <2>3, <3>1, <3>2, <3>3 DEF IInv, HeaderOK, AtRest
  <2>4. CASE pc \notin {"header", "payload", "dispatch"}
    <3>1. taken > 0 => requests'[taken] = requests[taken]
      BY <1>1, <1>4, <1>14 DEF Grown, R
    <3>2. QED
      BY <2>4, <3>1 DEF IInv, HeaderOK, AtRest
  <2>5. QED
    BY <2>1, <2>2, <2>3, <2>4
<1>21. QED
  BY <1>3, <1>4, <1>11, <1>12, <1>18, <1>20

-----------------------------------------------------------------------------
(***************************************************************************)
(* The flags, the lost blocks and the answers.                             *)
(***************************************************************************)
\* The lengths and counters are natural numbers, and taken requests are requests.
LEMMA Counters ==
    ASSUME IInv
    PROVE  /\ Len(requests) \in Nat /\ Len(answers) \in Nat
           /\ taken \in 0..Len(requests) /\ lost \in Nat
           /\ \A i \in 1..Len(requests) :
                 requests[i] \in Packets /\ requests[i].type \in PacketTypes
           /\ \A i \in 1..Len(answers) : answers[i] \in Nat \X {"ACK", "NACK"}
<1>1. /\ requests \in Seq(Packets) /\ answers \in Seq(Nat \X {"ACK", "NACK"})
      /\ taken \in Nat /\ lost \in Nat /\ taken <= Len(requests)
  BY DEF IInv, Types, PositionOK
<1>2. /\ Len(requests) \in Nat /\ \A i \in 1..Len(requests) : requests[i] \in Packets
  BY <1>1, SeqElements
<1>3. Len(answers) \in Nat /\ \A i \in 1..Len(answers) : answers[i] \in Nat \X {"ACK", "NACK"}
  BY <1>1, SeqElements
<1>4. QED
  BY <1>1, <1>2, <1>3 DEF Packets

\* What is said of the requests that were taken stays true when more arrive.
LEMMA RequestsGrow ==
    ASSUME IInv, Grown,
           UNCHANGED <<hdr, pc, player, payload, nack_flag, EOF_flag, strp, lost, taken,
                       answers, misread>>
    PROVE  FlagsOK' /\ LostOK' /\ AnswersOK'
<1>1. \A i \in 1..taken : requests'[i] = requests[i]
  BY Counters DEF Grown
<1>2. FlagsOK'
  BY DEF IInv, FlagsOK
<1>3. LostOK'
  <2>1. Leaky(taken)' = Leaky(taken) /\ Leaky(taken - 1)' = Leaky(taken - 1)
    <3>1. \A i \in 1..(taken - 1) : i \in 1..taken
      BY Counters
    <3>2. QED
      BY <1>1, <3>1 DEF Leaky
  <2>2. taken > 0 => requests'[taken] = requests[taken]
    BY <1>1, Counters
  <2>3. QED
    BY <2>1, <2>2 DEF IInv, LostOK
<1>4. AnswersOK'
  <2>1. \A i \in 1..Len(answers) : answers[i][1] \in 1..taken
    BY DEF IInv, AnswersOK
  <2>2. LoginAcked' <=> LoginAcked
    BY <1>1, <2>1 DEF LoginAcked
  <2>3. taken > 0 => requests'[taken] = requests[taken]
    BY <1>1, Counters
  <2>4. Unanswered' <=> Unanswered
    BY DEF Unanswered
  <2>5. taken > 0 /\ Cut => Cut'
    BY <2>3 DEF Cut
  <2>6. Serving' <=> Serving
    BY DEF Serving
  <2>7. QED
    BY <2>1, <2>2, <2>3, <2>4, <2>5, <2>6 DEF IInv, AnswersOK
<1>5. QED
  BY <1>2, <1>3, <1>4

\* Steps that lose no block.
LEMMA LostKept ==
    ASSUME IInv, UNCHANGED <<requests, taken, lost>>, strp' => strp, EOF_flag => EOF_flag'
    PROVE  LostOK'
BY DEF IInv, LostOK, Leaky

\* The thread is about to send a NACK, or has decided to.
Nacking == pc \in {"nack", "nacking"} \/ (pc = "cleanup" /\ nack_flag)

\* Steps that answer nothing.
LEMMA AnswersKept ==
    ASSUME IInv, UNCHANGED <<requests, taken, answers>>, misread => misread',
           Serving' => Serving /\ player' = player,
           pc' \in {"reply", "replying"} => /\ pc \in {"reply", "replying"}
                                            /\ player' = player /\ nack_flag' = nack_flag,
           Nacking' => Nacking
    PROVE  AnswersOK'
<1>1. /\ LoginAcked' <=> LoginAcked
      /\ Unanswered' <=> Unanswered
      /\ Cut' <=> Cut
  BY DEF LoginAcked, Unanswered, Cut
<1>2. \A i \in 1..Len(answers') : answers'[i][1] \in 1..taken'
  BY DEF IInv, AnswersOK
<1>3. LoginAcked' => player' \/ ~Serving'
  BY <1>1 DEF IInv, AnswersOK
<1>4. ASSUME ~misread', pc' \in {"reply", "replying"}
      PROVE  /\ taken' > 0 /\ Unanswered' /\ player'
             /\ requests'[taken'].type = "LOGIN" => ~LoginAcked'
             /\ nack_flag' => requests'[taken'].type = "USERS"
  BY <1>1, <1>4 DEF IInv, AnswersOK
<1>5. ASSUME ~misread', Nacking'
      PROVE  taken' > 0 /\ (Unanswered' \/ Cut')
  BY <1>1, <1>5 DEF IInv, AnswersOK, Nacking
<1>6. QED
  BY <1>2, <1>3, <1>4, <1>5 DEF AnswersOK, Nacking

\* An ACCEPT or a USERS request with a payload is one more that may lose a block.
LEMMA LeakyGrows ==
    ASSUME NEW n \in Nat
    PROVE  /\ IsFiniteSet(Leaky(n)) /\ Cardinality(Leaky(n)) \in Nat
           /\ Cardinality(Leaky(n)) <= n
           /\ Cardinality(Leaky(n + 1)) \in Nat
           /\ Cardinality(Leaky(n)) <= Cardinality(Leaky(n + 1))
           /\ \/ requests[n + 1].type = "USERS" /\ requests[n + 1].size > 0
              \/ requests[n + 1].type = "ACCEPT"
              => Cardinality(Leaky(n + 1)) = Cardinality(Leaky(n)) + 1
<1>1. IsFiniteSet(1..n) /\ Cardinality(1..n) = n /\ IsFiniteSet(1..(n + 1))
  <2>1. /\ IsFiniteSet(1..n)
        /\ Cardinality(1..n) = IF 1 > n THEN 0 ELSE n - 1 + 1
    BY FS_Interval, 1 \in Int, n \in Int
  <2>2. IsFiniteSet(1..(n + 1))
    BY FS_Interval, 1 \in Int, n + 1 \in Int
  <2>3. QED
    BY <2>1, <2>2
<1>2. IsFiniteSet(Leaky(n)) /\ Cardinality(Leaky(n)) <= n
  <2>1. Leaky(n) \subseteq 1..n
    BY DEF Leaky
  <2>2. QED
    BY <1>1, <2>1, FS_Subset
<1>3. IsFiniteSet(Leaky(n + 1))
  <2>1. Leaky(n + 1) \subseteq 1..(n + 1)
    BY DEF Leaky
  <2>2. QED
    BY <1>1, <2>1, FS_Subset
<1>4. Cardinality(Leaky(n)) \in Nat /\ Cardinality(Leaky(n + 1)) \in Nat
  BY <1>2, <1>3, FS_CardinalityType
<1>5. Cardinality(Leaky(n)) <= Cardinality(Leaky(n + 1))
  <2>1. Leaky(n) \subseteq Leaky(n + 1)
    BY DEF Leaky
  <2>2. QED
    BY <1>3, <2>1, FS_Subset
<1>6. ASSUME \/ requests[n + 1].type = "USERS" /\ requests[n + 1].size > 0
             \/ requests[n + 1].type = "ACCEPT"
      PROVE  Cardinality(Leaky(n + 1)) = Cardinality(Leaky(n)) + 1
  <2>1. Leaky(n + 1) = Leaky(n) \cup {n + 1}
    <3>1. \A i \in 1..(n + 1) : i \in 1..n \/ i = n + 1
      OBVIOUS
    <3>2. n + 1 \in 1..(n + 1) /\ 1..n \subseteq 1..(n + 1)
      OBVIOUS
    <3>3. QED
      BY <1>6, <3>1, <3>2 DEF Leaky
  <2>2. n + 1 \notin Leaky(n)
    BY DEF Leaky
  <2>3. QED
    BY <1>2, <2>1, <2>2, FS_AddElement
<1>7. QED
  BY <1>2, <1>4, <1>5, <1>6

-----------------------------------------------------------------------------
(***************************************************************************)
(* Dispatching: one turn of the switch.                                    *)
(***************************************************************************)
\* What the cases of the switch have in common.
Turned ==
    /\ pc = "dispatch" /\ pc' \in {"cleanup", "reply", "crashed"}
    /\ UNCHANGED <<incoming, conn, got, outgoing, mutex, sending,
                   requests, notes, EOF_flag, answers, misread>>
    /\ taken' = IF misread THEN taken ELSE taken + 1
    /\ hdr' = hdr \/ (hdr' = Reply("ACK", 0) /\ hdr.type = "INVITE")
    /\ reply' \in Packets /\ nack_flag' \in BOOLEAN /\ strp' \in BOOLEAN
    /\ payload' \in {"none", "request", "reply"}
    /\ player' = player \/ (player' = TRUE /\ hdr.type = "LOGIN" /\ ~player)
    /\ \/ lost' = lost
       \/ lost' = lost + 1 /\ hdr.type = "USERS" /\ payload # "none"
    /\ pc' = "reply" => player' /\ (hdr.type = "LOGIN" => ~player)
    /\ pc' = "reply" /\ nack_flag' => nack_flag \/ hdr.type = "USERS"
    /\ pc' = "crashed" => strp' = strp
    /\ strp' => strp \/ (hdr.type = "ACCEPT" /\ pc' = "reply")

\* Every case of the switch is such a turn.
LEMMA DispatchTurns ==
    ASSUME IInv, Dispatch
    PROVE  Turned
<1>1. /\ NoReply \in Packets
      /\ \A size \in {0, 1} : Reply("ACK", size) \in Packets
  BY DEF IInv, Types, NoReply, Reply, Packets, PacketTypes
<1>2. /\ payload \in {"none", "request", "reply"} /\ player \in BOOLEAN
      /\ nack_flag \in BOOLEAN /\ strp \in BOOLEAN /\ lost \in Nat
  BY DEF IInv, Types
<1>3. lost + 0 = lost
  BY <1>2
<1>4. ASSUME Nack PROVE Turned
  BY <1>1, <1>2, <1>3, <1>4 DEF Turned, Nack, Dispatched
<1>5. ASSUME Ack, player, hdr.type # "LOGIN",
             hdr' = hdr \/ (hdr' = Reply("ACK", 0) /\ hdr.type = "INVITE")
      PROVE  Turned
  BY <1>1, <1>2, <1>3, <1>5 DEF Turned, Ack, Dispatched
<1>6. ASSUME Crash PROVE Turned
  BY <1>1, <1>2, <1>3, <1>6 DEF Turned, Crash, Dispatched
<1>7. CASE Login
  <2>1. CASE Nack
    BY <1>4, <2>1
  <2>2. CASE /\ Dispatched("reply", TRUE, payload, nack_flag, Reply("ACK", 0), strp, 0)
             /\ ~player /\ UNCHANGED hdr
    <3>1. hdr.type = "LOGIN"
      BY <1>7 DEF Login
    <3>2. QED
      BY <1>1, <1>2, <1>3, <2>2, <3>1 DEF Turned, Dispatched
  <2>3. CASE Crash
    BY <1>6, <2>3
  <2>4. QED
    BY <1>7, <2>1, <2>2, <2>3 DEF Login
<1>8. CASE LoginRequired
  BY <1>4, <1>8 DEF LoginRequired
<1>9. CASE Users
  <2> DEFINE gone == IF payload = "none" THEN 0 ELSE 1
  <2>1. lost + gone = lost \/ (lost + gone = lost + 1 /\ payload # "none")
    BY <1>3
  <2>2. hdr.type = "USERS" /\ player /\ UNCHANGED hdr
    BY <1>9 DEF Users
  <2>3. CASE Dispatched("crashed", player, "none", TRUE, NoReply, strp, gone)
    <3> HIDE DEF gone
    <3>1. QED
      BY <1>1, <1>2, <2>1, <2>2, <2>3 DEF Turned, Dispatched
  <2>4. CASE \E nack \in BOOLEAN :
               Dispatched("reply", player, "reply", nack, Reply("ACK", 1), strp, gone)
    <3> HIDE DEF gone
    <3>1. QED
      BY <1>1, <1>2, <2>1, <2>2, <2>4 DEF Turned, Dispatched
  <2>5. QED
    BY <1>9, <2>3, <2>4 DEF Users
<1>10. CASE Invite
  <2>1. CASE Nack
    BY <1>4, <2>1
  <2>2. CASE Crash
    BY <1>6, <2>2
  <2>3. CASE Ack /\ hdr' = Reply("ACK", 0)
    BY <1>5, <1>10, <2>3 DEF Invite
  <2>4. QED
    BY <1>10, <2>1, <2>2, <2>3 DEF Invite
<1>11. CASE Accept
  <2>1. CASE Nack
    BY <1>4, <2>1
  <2>2. CASE Ack /\ UNCHANGED hdr
    BY <1>5, <1>11, <2>2 DEF Accept
  <2>3. CASE /\ Dispatched("reply", player, payload, nack_flag, Reply("ACK", 1), TRUE, 0)
             /\ UNCHANGED hdr
    BY <1>1, <1>2, <1>3, <1>11, <2>3 DEF Turned, Accept, Dispatched
  <2>4. QED
    BY <1>11, <2>1, <2>2, <2>3 DEF Accept
<1>12. CASE Simple
  BY <1>4, <1>5, <1>12 DEF Simple
<1>13. CASE PassOver
  BY <1>1, <1>2, <1>3, <1>13 DEF Turned, PassOver, Dispatched
<1>14. QED
  BY <1>7, <1>8, <1>9, <1>10, <1>11, <1>12, <1>13 DEF Dispatch

\* The request that is dispatched: the next one, or the last one again.
LEMMA DispatchedRequest ==
    ASSUME IInv, pc = "dispatch"
    PROVE  /\ ~EOF_flag /\ ~nack_flag /\ ~strp /\ got = 0
           /\ hdr.size = 0 => payload = "none"
           /\ ~misread => /\ taken < Len(requests) /\ hdr = requests[taken + 1]
                          /\ hdr.id = taken + 1
           /\ misread => /\ hdr.size = 0 /\ hdr.id = taken
                         /\ taken = 0 => hdr.type = "NO"
                         /\ taken > 0 => hdr.type \in {requests[taken].type, "ACK"}
<1>1. ~EOF_flag /\ ~nack_flag /\ ~strp /\ got = 0
  BY DEF IInv, FlagsOK, HeaderOK, Leaving
<1>2. hdr.size = 0 => payload = "none"
  BY DEF IInv, FlagsOK
<1>3. ASSUME ~misread
      PROVE  taken < Len(requests) /\ hdr = requests[taken + 1] /\ hdr.id = taken + 1
  <2>1. taken < Len(requests) /\ hdr = requests[taken + 1]
    BY <1>3 DEF IInv, HeaderOK
  <2>2. taken + 1 \in 1..Len(requests)
    BY <2>1, Counters
  <2>3. QED
    BY <2>1, <2>2 DEF IInv, StreamOK
<1>4. ASSUME misread
      PROVE  /\ hdr.size = 0 /\ hdr.id = taken
             /\ taken = 0 => hdr.type = "NO"
             /\ taken > 0 => hdr.type \in {requests[taken].type, "ACK"}
  BY <1>4 DEF IInv, HeaderOK, AtRest
<1>5. QED
  BY <1>1, <1>2, <1>3, <1>4

\* Afterwards the header is that of the request that was taken.
LEMMA TurnedStream ==
    ASSUME IInv, Turned
    PROVE  StreamOK' /\ DeadOK' /\ PositionOK' /\ HeaderOK' /\ hdr' \in Packets
<1> USE DEF Turned
<1>1. StreamOK'
  BY DEF IInv, StreamOK, UnitOK, RunOK, LastOK, Unit, Total
<1>2. DeadOK'
  BY DEF IInv, DeadOK, Leaving
<1>3. taken \in Nat /\ taken' \in Nat /\ taken' <= Len(requests)
  BY Counters, DispatchedRequest
<1>4. PositionOK'
  <2>1. conn # "dead" => conn' # "dead"
    OBVIOUS
  <2>2. conn # "dead" /\ ~misread => NextPacket' = NextPacket /\ NextUnit' = NextUnit
    BY <1>3 DEF NextPacket, NextUnit
  <2>3. misread => conn = "dead"
    BY DEF IInv, DeadOK
  <2>4. pc \notin Leaving
    BY DEF Leaving
  <2>5. QED
    BY <1>3, <2>2, <2>3, <2>4 DEF IInv, PositionOK
<1>5. hdr' \in Packets /\ hdr'.id = hdr.id /\ hdr'.type \in {hdr.type, "ACK"}
  <2>1. hdr \in Packets
    BY DEF IInv, Types
  <2>2. Reply("ACK", 0) \in Packets
    BY <2>1 DEF Reply, Packets, PacketTypes
  <2>3. QED
    BY <2>1, <2>2 DEF Reply
<1>6. HeaderOK'
  <2>1. got' = 0 /\ pc' \notin {"header", "payload", "dispatch"}
    BY DispatchedRequest
  <2>2. ASSUME AtRest'
        PROVE  /\ hdr'.id = taken'
               /\ taken' = 0 => hdr'.type = "NO"
               /\ taken' > 0 => hdr'.type \in {requests'[taken'].type, "ACK"}
    <3>1. CASE ~misread
      BY <1>3, <1>5, <3>1, DispatchedRequest
    <3>2. CASE misread
      <4>1. hdr'.id = taken' /\ taken' = taken
        BY <1>5, <3>2, DispatchedRequest
      <4>2. taken > 0 => hdr'.type \in {requests[taken].type, "ACK"}
        BY <1>5, <3>2, DispatchedRequest
      <4>3. taken = 0 => hdr'.type = "NO"
        <5>1. taken = 0 => hdr.type = "NO"
          BY <3>2, DispatchedRequest
        <5>2. QED
          BY <5>1
      <4>4. QED
        BY <4>1, <4>2, <4>3
    <3>3. QED
      BY <3>1, <3>2
  <2>3. QED
    BY <2>1, <2>2 DEF HeaderOK
<1>7. QED
  BY <1>1, <1>2, <1>4, <1>5, <1>6

\* What a turn of the switch loses, and what it may answer.
LEMMA DispatchIInv ==
    ASSUME IInv, Turned
    PROVE  IInv'
<1> USE DEF Turned
<1>1. StreamOK' /\ DeadOK' /\ PositionOK' /\ HeaderOK' /\ hdr' \in Packets
  BY TurnedStream
<1>2. SendersOK' /\ OutgoingOK'
  BY SendingKept
<1>3. Types'
  <2>1. taken' \in Nat /\ lost' \in Nat
    BY Counters
  <2>2. player' \in BOOLEAN
    BY DEF IInv, Types
  <2>3. QED
    BY <1>1, <2>1, <2>2 DEF IInv, Types, Ended
<1>4. FlagsOK'
  <2>1. ~EOF_flag' /\ (strp' => pc' = "reply") /\ pc' \in {"cleanup", "reply", "crashed"}
    BY DispatchedRequest
  <2>2. QED
    BY <2>1 DEF FlagsOK, Leaving
<1>5. LostOK'
  <2>1. \A n \in Int : Leaky(n)' = Leaky(n)
    BY DEF Leaky
  <2>2. CASE ~misread
    <3>1. /\ taken' = taken + 1 /\ taken \in Nat /\ lost \in Nat
          /\ hdr = requests[taken + 1] /\ hdr.size \in Nat
          /\ ~EOF_flag /\ ~strp /\ (hdr.size = 0 => payload = "none")
      BY <2>2, Counters, DispatchedRequest DEF IInv, Types, Packets
    <3>2. lost <= Cardinality(Leaky(taken))
      BY DEF IInv, LostOK
    <3>3. /\ Cardinality(Leaky(taken)) \in Nat /\ Cardinality(Leaky(taken + 1)) \in Nat
          /\ Cardinality(Leaky(taken)) <= Cardinality(Leaky(taken + 1))
          /\ hdr.type = "USERS" /\ hdr.size > 0 =>
                Cardinality(Leaky(taken + 1)) = Cardinality(Leaky(taken)) + 1
      BY <3>1, LeakyGrows
    <3>4. CASE lost' = lost
      <4>1. lost' <= Cardinality(Leaky(taken')) /\ lost' <= Cardinality(Leaky(taken' - 1))
        BY <3>1, <3>2, <3>3, <3>4
      <4>2. strp' => taken' > 0 /\ requests'[taken'].type = "ACCEPT"
        BY <3>1
      <4>3. /\ Leaky(taken') = Leaky(taken)' /\ Leaky(taken' - 1) = Leaky(taken - 1)'
        BY <2>1, <3>1
      <4>4. QED
        BY <4>1, <4>2, <4>3 DEF LostOK
    <3>5. CASE lost' = lost + 1 /\ hdr.type = "USERS" /\ payload # "none"
      <4>1. lost' <= Cardinality(Leaky(taken'))
        BY <3>1, <3>2, <3>3, <3>5
      <4>2. requests'[taken'].type = "USERS" /\ ~strp'
        BY <3>1, <3>5
      <4>3. Leaky(taken') = Leaky(taken)'
        BY <2>1, <3>1
      <4>4. QED
        BY <4>1, <4>2, <4>3 DEF LostOK
    <3>6. QED
      BY <3>4, <3>5
  <2>3. CASE misread
    <3>1. /\ taken' = taken /\ lost' = lost /\ ~strp /\ ~EOF_flag
          /\ taken = 0 => hdr.type = "NO"
          /\ taken > 0 => hdr.type \in {requests[taken].type, "ACK"}
      BY <2>3, DispatchedRequest
    <3>2. strp' => taken > 0 /\ requests[taken].type = "ACCEPT"
      BY <3>1, Counters
    <3>3. LostOK
      BY DEF IInv
    <3>4. QED
      BY <3>1, <3>2, <3>3 DEF LostOK, Leaky
  <2>4. QED
    BY <2>2, <2>3
<1>6. AnswersOK'
  <2>1. LoginAcked' <=> LoginAcked
    BY DEF LoginAcked
  <2>2. LoginAcked => player \/ ~Serving
    BY DEF IInv, AnswersOK
  <2>3. Serving' <=> Serving
    BY DEF Serving, Leaving
  <2>4. Serving <=> ~misread
    BY DEF Serving, Leaving
  <2>5. player => player'
    OBVIOUS
  <2>6. \A i \in 1..Len(answers') : answers'[i][1] \in 1..taken'
    <3>1. \A i \in 1..Len(answers) : answers[i][1] \in 1..taken
      BY DEF IInv, AnswersOK
    <3>2. 1..taken \subseteq 1..taken'
      BY Counters
    <3>3. QED
      BY <3>1, <3>2
  <2>7. ASSUME ~misread
        PROVE  /\ taken' > 0 /\ Unanswered'
               /\ pc' = "reply" =>
                     /\ player'
                     /\ requests'[taken'].type = "LOGIN" => ~LoginAcked'
                     /\ nack_flag' => requests'[taken'].type = "USERS"
    <3>1. taken' = taken + 1 /\ taken \in Nat /\ hdr = requests[taken + 1] /\ ~nack_flag
      BY <2>7, Counters, DispatchedRequest
    <3>2. \A i \in 1..Len(answers) : answers[i][1] \in 1..taken
      BY DEF IInv, AnswersOK
    <3>3. Unanswered'
      BY <3>1, <3>2 DEF Unanswered
    <3>4. pc' = "reply" /\ hdr.type = "LOGIN" => ~LoginAcked
      BY <2>2, <2>4, <2>7
    <3>5. QED
      BY <2>1, <3>1, <3>3, <3>4
  <2>8. LoginAcked' => player' \/ ~Serving'
    BY <2>1, <2>2, <2>3, <2>5
  <2>9. pc' \notin {"replying", "nack", "nacking"} /\ misread' = misread
    OBVIOUS
  <2>10. QED
    BY <2>6, <2>7, <2>8, <2>9 DEF AnswersOK
<1>7. QED
  BY <1>1, <1>2, <1>3, <1>4, <1>5, <1>6 DEF IInv

-----------------------------------------------------------------------------
(***************************************************************************)
(* Every step keeps the invariant.                                         *)
(***************************************************************************)
\* A request is a packet once it has a number.
LEMMA RequestIsPacket ==
    ASSUME NEW r \in Requests, NEW id \in Nat
    PROVE  [type |-> r.type, size |-> r.size, id |-> id] \in Packets
<1>1. r.type \in PacketTypes /\ r.size \in Nat
  BY RequestsAssumption DEF PacketTypes
<1>2. QED
  BY <1>1 DEF Packets

\* The client writes a request, or a part of one and goes away.
LEMMA AskIInv ==
    ASSUME IInv, Ask
    PROVE  IInv'
<1>1. PICK r \in Requests :
        LET packet == [type |-> r.type, size |-> r.size, id |-> Len(requests) + 1]
            units == UnitsOf(packet)
        IN \/ /\ incoming' = incoming \o units
              /\ requests' = Append(requests, packet)
              /\ UNCHANGED conn
           \/ \E n \in 1 .. Len(units) - 1 :
                  /\ incoming' = incoming \o SubSeq(units, 1, n)
                  /\ conn' \in {"eof", "reset"}
                  /\ UNCHANGED requests
  BY DEF Ask
<1> DEFINE packet == [type |-> r.type, size |-> r.size, id |-> Len(requests) + 1]
           units == UnitsOf(packet)
<1>2. /\ conn = "open" /\ Len(requests) < MaxRequests
      /\ UNCHANGED <<hdr, got, outgoing, mutex, sending, notes, thread, history>>
  BY DEF Ask
<1>3. packet \in Packets /\ packet.id = Len(requests) + 1
  BY Counters, RequestIsPacket
<1> HIDE DEF packet
<1>4. /\ units \in Seq(Units) /\ Len(units) = Total(packet) /\ Total(packet) \in Nat \ {0}
      /\ \A i \in 1..Total(packet) : units[i] = Unit(packet, i)
  BY <1>3, UnitsOfPacket
<1> HIDE DEF units
<1>5. /\ StreamOK' /\ DeadOK' /\ PositionOK' /\ HeaderOK'
      /\ incoming' \in Seq(Units) /\ requests' \in Seq(Packets) /\ Grown
      /\ conn' = conn \/ conn' \in {"eof", "reset"}
  <2>1. CASE /\ incoming' = incoming \o units
             /\ requests' = Append(requests, packet)
             /\ UNCHANGED conn
    <3>1. Total(packet) \in 1..Total(packet)
      BY <1>4
    <3>2. /\ StreamOK' /\ DeadOK' /\ PositionOK' /\ HeaderOK'
          /\ incoming' \in Seq(Units) /\ requests' \in Seq(Packets) /\ Grown
      BY <1>2, <1>3, <1>4, <2>1, <3>1, ArriveStream DEF thread, history
    <3>3. QED
      BY <2>1, <3>2
  <2>2. CASE \E n \in 1 .. Len(units) - 1 :
                 /\ incoming' = incoming \o SubSeq(units, 1, n)
                 /\ conn' \in {"eof", "reset"}
                 /\ UNCHANGED requests
    <3>1. PICK n \in 1 .. Len(units) - 1 :
                 /\ incoming' = incoming \o SubSeq(units, 1, n)
                 /\ conn' \in {"eof", "reset"}
                 /\ UNCHANGED requests
      BY <2>2
    <3> DEFINE w == SubSeq(units, 1, n)
    <3>2. n \in 0..Len(units) /\ n \in 1..Total(packet) /\ n < Total(packet)
      BY <1>4
    <3>3. w \in Seq(Units) /\ Len(w) = n /\ \A i \in 1..n : w[i] = units[i]
      BY <1>4, <3>2, Prefix
    <3>4. \A i \in 1..n : w[i] = Unit(packet, i)
      BY <1>4, <3>2, <3>3
    <3>5. incoming' = incoming \o w
      BY <3>1
    <3> HIDE DEF w
    <3>6. /\ StreamOK' /\ DeadOK' /\ PositionOK' /\ HeaderOK'
          /\ incoming' \in Seq(Units) /\ requests' \in Seq(Packets) /\ Grown
      BY <1>2, <1>3, <3>1, <3>2, <3>3, <3>4, <3>5, ArriveStream DEF thread, history
    <3>7. QED
      BY <3>1, <3>6
  <2>3. QED
    BY <1>1, <2>1, <2>2 DEF units, packet
<1>6. SendersOK' /\ OutgoingOK'
  BY <1>2, <1>5, SendingKept DEF thread
<1>7. FlagsOK' /\ LostOK' /\ AnswersOK'
  BY <1>2, <1>5, RequestsGrow DEF thread, history
<1>8. Types'
  BY <1>2, <1>5 DEF IInv, Types, thread, history
<1>9. QED
  BY <1>5, <1>6, <1>7, <1>8 DEF IInv

\* The connection closes; what has arrived can still be read.
LEMMA HangupIInv ==
    ASSUME IInv, Hangup
    PROVE  IInv'
<1>1. /\ conn = "open" /\ conn' \in {"eof", "reset"}
      /\ UNCHANGED <<incoming, hdr, got, outgoing, mutex, sending, requests, notes, pc,
                     player, payload, nack_flag, EOF_flag, reply, strp, lost, taken,
                     answers, misread>>
  BY DEF Hangup, thread, history
<1>2. SendersOK' /\ OutgoingOK'
  BY <1>1, SendingKept
<1>3. StreamOK' /\ DeadOK' /\ PositionOK' /\ HeaderOK'
  BY <1>1, StreamKept
<1>4. Grown
  BY <1>1, Counters DEF Grown
<1>5. FlagsOK' /\ LostOK' /\ AnswersOK'
  BY <1>1, <1>4, RequestsGrow
<1>6. Types'
  BY <1>1 DEF IInv, Types
<1>7. QED
  BY <1>2, <1>3, <1>5, <1>6 DEF IInv

\* Steps of the other threads leave the service thread and the stream alone.
LEMMA OthersQuiet ==
    ASSUME IInv, UNCHANGED <<incoming, conn, hdr, got, requests, thread, history>>
    PROVE  /\ StreamOK' /\ DeadOK' /\ PositionOK' /\ HeaderOK'
           /\ FlagsOK' /\ LostOK' /\ AnswersOK'
<1> USE DEF thread, history
<1>1. StreamOK' /\ DeadOK' /\ PositionOK' /\ HeaderOK'
  BY StreamKept
<1>2. Grown
  BY Counters DEF Grown
<1>3. QED
  BY <1>1, <1>2, RequestsGrow

\* A packet of another thread is begun.
LEMMA NotifyIInv ==
    ASSUME IInv, NEW t \in Others, Notify(t)
    PROVE  IInv'
<1>1. PICK size \in {0, 1} : StartSend(t, [type |-> "NOTE", size |-> size, id |-> 0])
  BY DEF Notify
<1>2. notes' = notes + 1 /\ UNCHANGED <<incoming, conn, hdr, got, outgoing, requests, thread, history>>
  BY <1>1 DEF Notify, StartSend
<1>3. [type |-> "NOTE", size |-> size, id |-> 0] \in Packets
  BY DEF Packets, PacketTypes
<1>4. t \in Senders /\ t # Service /\ mutex = Free /\ mutex' = t
  BY <1>1 DEF Others, StartSend
<1>5. pc \notin {"replying", "nacking"} /\ pc' = pc
  BY <1>2, <1>4, ServiceAssumption, FreeAssumption DEF IInv, SendersOK, thread
<1>6. SendersOK' /\ OutgoingOK' /\ sending' \in [Senders -> Seq(Units)]
  BY <1>1, <1>3, <1>4, <1>5, StartSends
<1>7. /\ StreamOK' /\ DeadOK' /\ PositionOK' /\ HeaderOK'
      /\ FlagsOK' /\ LostOK' /\ AnswersOK'
  BY <1>2, OthersQuiet
<1>8. Types'
  BY <1>2, <1>4, <1>6 DEF IInv, Types, thread, history
<1>9. QED
  BY <1>6, <1>7, <1>8 DEF IInv

\* A packet of another thread ends, or fails.
LEMMA NotifyDoneIInv ==
    ASSUME IInv, NEW t \in Others, NotifyDone(t)
    PROVE  IInv'
<1>1. /\ SendDone(t) \/ SendFails(t)
      /\ UNCHANGED <<requests, notes, thread, history>>
  BY DEF NotifyDone
<1>2. /\ UNCHANGED <<incoming, conn, hdr, got, outgoing>> /\ mutex = t /\ mutex' = Free
  BY <1>1 DEF SendDone, SendFails
<1>3. t \in Senders /\ t # Service
  BY DEF Others
<1>4. pc \notin {"replying", "nacking"} /\ pc' = pc
  BY <1>1, <1>2, <1>3 DEF IInv, SendersOK, thread
<1>5. SendersOK' /\ OutgoingOK' /\ sending' \in [Senders -> Seq(Units)]
  BY <1>1, <1>3, <1>4, SendEnds
<1>6. /\ StreamOK' /\ DeadOK' /\ PositionOK' /\ HeaderOK'
      /\ FlagsOK' /\ LostOK' /\ AnswersOK'
  BY <1>1, <1>2, OthersQuiet
<1>7. Types'
  BY <1>1, <1>2, <1>5 DEF IInv, Types, thread, history
<1>8. QED
  BY <1>5, <1>6, <1>7 DEF IInv

\* A write, of any thread.
LEMMA TransmitIInv ==
    ASSUME IInv, NEW t \in Senders, Transmit(t)
    PROVE  IInv'
<1>1. Write(t) /\ UNCHANGED <<requests, notes, thread, history>>
  BY DEF Transmit
<1>2. UNCHANGED <<incoming, conn, hdr, got, mutex>> /\ pc' = pc
  BY <1>1 DEF Write, thread
<1>3. SendersOK' /\ OutgoingOK' /\ sending' \in [Senders -> Seq(Units)] /\ outgoing' \in Seq(Units)
  BY <1>1, <1>2, WriteFollows
<1>4. /\ StreamOK' /\ DeadOK' /\ PositionOK' /\ HeaderOK'
      /\ FlagsOK' /\ LostOK' /\ AnswersOK'
  BY <1>1, <1>2, OthersQuiet
<1>5. Types'
  BY <1>1, <1>2, <1>3 DEF IInv, Types, thread, history
<1>6. QED
  BY <1>3, <1>4, <1>5 DEF IInv

\* A read, or a reset that is taken for the end of a header.
LEMMA ReceiveIInv ==
    ASSUME IInv, Receive
    PROVE  IInv'
<1>1. /\ pc \in {"header", "payload"}
      /\ payload' = IF pc' = "payload" THEN "request" ELSE payload
      /\ UNCHANGED <<requests, notes, player, nack_flag, EOF_flag, reply, strp,
                     lost, taken, answers>>
  BY DEF Receive
<1>2. /\ UNCHANGED <<outgoing, mutex, sending>>
      /\ conn' = conn \/ conn' = "dead"
      /\ pc' \in {"header", "payload", "dispatch", "leave"}
      /\ misread \in BOOLEAN => misread' \in BOOLEAN
      /\ misread => misread'
      /\ StreamOK' /\ DeadOK' /\ PositionOK' /\ HeaderOK'
      /\ incoming' \in Seq(Units) /\ got' \in Nat /\ hdr' \in Packets
      /\ pc = "header" => \/ pc' \in {"header", "leave"}
                          \/ pc' = (IF hdr'.size > 0 THEN "payload" ELSE "dispatch")
      /\ pc = "payload" => pc' \in {"payload", "dispatch"} /\ hdr'.size > 0
  <2>1. CASE pc = "header"
    <3>1. PICK next \in {"header", "payload", "dispatch", "leave"} :
            /\ pc' = next
            /\ \/ ReadHeader(next) /\ UNCHANGED misread
               \/ HeaderReset(next) /\ misread' = (misread \/ next # "header")
      BY <2>1 DEF Receive
    <3>2. CASE ReadHeader(next) /\ UNCHANGED misread
      <4>1. /\ StreamOK' /\ DeadOK' /\ PositionOK' /\ HeaderOK'
            /\ incoming' \in Seq(Units) /\ hdr' \in Packets /\ got' \in Nat
            /\ \/ next \in {"header", "leave"}
               \/ next = (IF hdr'.size > 0 THEN "payload" ELSE "dispatch")
        BY <1>1, <2>1, <3>1, <3>2, ReadHeaderStream
      <4>2. UNCHANGED <<conn, outgoing, mutex, sending>>
        BY <3>2 DEF ReadHeader
      <4>3. QED
        BY <2>1, <3>1, <3>2, <4>1, <4>2
    <3>3. CASE HeaderReset(next) /\ misread' = (misread \/ next # "header")
      <4>1. /\ StreamOK' /\ DeadOK' /\ PositionOK' /\ HeaderOK' /\ got' \in Nat
            /\ \/ next \in {"header", "leave"}
               \/ next = (IF hdr'.size > 0 THEN "payload" ELSE "dispatch")
        BY <1>1, <2>1, <3>1, <3>3, HeaderResetStream
      <4>2. UNCHANGED <<incoming, hdr, outgoing, mutex, sending>> /\ conn' = "dead"
        BY <3>3 DEF HeaderReset
      <4>3. incoming' \in Seq(Units) /\ hdr' \in Packets
        BY <4>2 DEF IInv, Types
      <4>4. (misread => misread') /\ (misread \in BOOLEAN => misread' \in BOOLEAN)
        BY <3>3
      <4>5. QED
        BY <2>1, <3>1, <4>1, <4>2, <4>3, <4>4
    <3>4. QED
      BY <3>1, <3>2, <3>3
  <2>2. CASE pc = "payload"
    <3>1. PICK next \in {"payload", "dispatch"} : pc' = next /\ ReadPayload(next)
      BY <2>2 DEF Receive
    <3>2. UNCHANGED misread
      BY <2>2 DEF Receive
    <3>3. /\ StreamOK' /\ DeadOK' /\ PositionOK' /\ HeaderOK'
          /\ incoming' \in Seq(Units) /\ got' \in Nat /\ hdr' = hdr /\ hdr.size > 0
      BY <1>1, <2>2, <3>1, <3>2, ReadPayloadStream
    <3>4. UNCHANGED <<conn, outgoing, mutex, sending>>
      BY <3>1 DEF ReadPayload
    <3>5. hdr' \in Packets
      BY <3>3 DEF IInv, Types
    <3>6. QED
      BY <2>2, <3>1, <3>2, <3>3, <3>4, <3>5
  <2>3. QED
    BY <1>1, <2>1, <2>2
<1>3. SendersOK' /\ OutgoingOK'
  <2>1. pc \notin {"replying", "nacking"} /\ pc' \notin {"replying", "nacking"}
    BY <1>1, <1>2
  <2>2. QED
    BY <1>2, <2>1, SendingKept
<1>4. FlagsOK'
  <2>1. /\ ~EOF_flag /\ ~nack_flag /\ ~strp
        /\ pc = "header" => payload = "none"
        /\ pc = "payload" => payload = "request"
    BY <1>1 DEF IInv, FlagsOK, Leaving
  <2>2. QED
    BY <1>1, <1>2, <2>1 DEF FlagsOK
<1>5. LostOK'
  BY <1>1, LostKept
<1>6. AnswersOK'
  <2>1. Serving' => Serving
    BY <1>1, <1>2 DEF Serving, Leaving
  <2>2. pc' \notin {"reply", "replying"} /\ ~Nacking'
    BY <1>2 DEF Nacking
  <2>3. QED
    BY <1>1, <1>2, <2>1, <2>2, AnswersKept
<1>7. Types'
  <2>1. /\ misread' \in BOOLEAN /\ pc' \in {"header", "payload", "dispatch", "leave"}
        /\ conn' \in {"open", "eof", "reset", "dead"}
        /\ payload' \in {"none", "request", "reply"}
    BY <1>1, <1>2 DEF IInv, Types
  <2>2. QED
    BY <1>1, <1>2, <2>1 DEF IInv, Types, Leaving
<1>8. QED
  BY <1>2, <1>3, <1>4, <1>5, <1>6, <1>7 DEF IInv

\* The end of the stream, or a reset while the payload is awaited.
LEMMA ReceiveFailsIInv ==
    ASSUME IInv, ReceiveFails
    PROVE  IInv'
<1>1. /\ pc \in {"header", "payload"} /\ pc' = "leave"
      /\ UNCHANGED <<incoming, hdr, got, outgoing, mutex, sending, requests, notes, player,
                     payload, nack_flag, EOF_flag, reply, strp, history>>
      /\ \/ UNCHANGED conn
         \/ conn = "reset" /\ conn' = "dead" /\ incoming = <<>>
  BY DEF ReceiveFails, ReadEOF, PayloadReset, wire
<1>2. StreamOK' /\ DeadOK' /\ PositionOK' /\ HeaderOK'
  <2>1. CASE UNCHANGED conn
    BY <1>1, <2>1, StreamKept DEF history, Leaving
  <2>2. CASE conn = "reset" /\ conn' = "dead" /\ incoming = <<>>
    <3>1. StreamOK'
      <4>1. Len(incoming) = 0
        BY <2>2
      <4>2. QED
        BY <1>1, <2>2, <4>1 DEF IInv, StreamOK
    <3>2. ~misread
      BY <2>2 DEF IInv, DeadOK
    <3>3. DeadOK'
      BY <1>1, <2>2, <3>2 DEF DeadOK, Leaving, history
    <3>4. PositionOK'
      BY <1>1, <2>2 DEF IInv, PositionOK, history
    <3>5. HeaderOK'
      BY <1>1, <3>2 DEF HeaderOK, AtRest, Leaving, history
    <3>6. QED
      BY <3>1, <3>3, <3>4, <3>5
  <2>3. QED
    BY <1>1, <2>1, <2>2
<1>3. SendersOK' /\ OutgoingOK'
  <2>1. pc \notin {"replying", "nacking"} /\ pc' \notin {"replying", "nacking"}
    BY <1>1
  <2>2. QED
    BY <1>1, <2>1, SendingKept
<1>4. FlagsOK'
  <2>1. ~EOF_flag /\ ~nack_flag /\ ~strp
    BY <1>1 DEF IInv, FlagsOK, Leaving
  <2>2. QED
    BY <1>1, <2>1 DEF FlagsOK
<1>5. LostOK'
  BY <1>1, LostKept DEF history
<1>6. AnswersOK'
  <2>1. Serving' => Serving
    BY <1>1 DEF Serving, Leaving, history
  <2>2. pc' \notin {"reply", "replying"} /\ ~Nacking'
    BY <1>1 DEF Nacking
  <2>3. QED
    BY <1>1, <2>1, <2>2, AnswersKept DEF history
<1>7. Types'
  BY <1>1 DEF IInv, Types, Leaving, history
<1>8. QED
  BY <1>2, <1>3, <1>4, <1>5, <1>6, <1>7 DEF IInv

\* The answer is begun.
LEMMA SendReplyIInv ==
    ASSUME IInv, SendReply
    PROVE  IInv'
<1>1. /\ pc \in {"reply", "nack"}
      /\ pc' = IF pc = "nack" THEN "nacking" ELSE "replying"
      /\ UNCHANGED <<requests, notes, player, payload, nack_flag, EOF_flag, reply,
                     strp, history>>
      /\ StartSend(Service, IF pc = "nack" THEN Reply("NACK", 0) ELSE reply)
  BY DEF SendReply
<1>2. UNCHANGED <<incoming, conn, hdr, got, outgoing>> /\ mutex' = Service
  BY <1>1 DEF StartSend
<1>3. (IF pc = "nack" THEN Reply("NACK", 0) ELSE reply) \in Packets
  BY DEF IInv, Types, Reply, Packets, PacketTypes
<1>4. SendersOK' /\ OutgoingOK' /\ sending' \in [Senders -> Seq(Units)]
  <2>1. pc \notin {"replying", "nacking"} /\ pc' \in {"replying", "nacking"}
    BY <1>1
  <2>2. QED
    BY <1>1, <1>3, <2>1, ServiceAssumption, StartSends
<1>5. StreamOK' /\ DeadOK' /\ PositionOK' /\ HeaderOK'
  BY <1>1, <1>2, StreamKept DEF history, Busy
<1>6. FlagsOK'
  <2>1. CASE pc = "reply"
    BY <1>1, <2>1 DEF IInv, FlagsOK, Leaving
  <2>2. CASE pc = "nack"
    BY <1>1, <2>2 DEF IInv, FlagsOK, Leaving
  <2>3. QED
    BY <1>1, <2>1, <2>2
<1>7. LostOK'
  BY <1>1, LostKept DEF history
<1>8. AnswersOK'
  <2>1. Serving' => Serving
    BY <1>1 DEF Serving, Leaving, history
  <2>2. /\ pc' \in {"reply", "replying"} => pc \in {"reply", "replying"}
        /\ Nacking' => Nacking
    BY <1>1 DEF Nacking
  <2>3. QED
    BY <1>1, <2>1, <2>2, AnswersKept DEF history
<1>9. Types'
  BY <1>1, <1>2, <1>4, ServiceAssumption DEF IInv, Types, history
<1>10. QED
  BY <1>4, <1>5, <1>6, <1>7, <1>8, <1>9 DEF IInv

\* The answer is sent: an ACK, or a NACK that comes alone or after a list cut short.
LEMMA RepliedIInv ==
    ASSUME IInv, Replied
    PROVE  IInv'
<1> DEFINE a == IF pc = "nacking" THEN "NACK" ELSE "ACK"
<1>1. /\ pc \in {"replying", "nacking"} /\ SendDone(Service) /\ strp' = FALSE
      /\ answers' = IF misread THEN answers ELSE Append(answers, <<taken, a>>)
      /\ UNCHANGED <<requests, notes, player, payload, nack_flag, EOF_flag, reply,
                     lost, taken, misread>>
  BY DEF Replied
<1>2. /\ pc = "replying" => pc' = "cleanup"
      /\ pc = "nacking" => pc' = IF EOF_flag THEN "leave" ELSE "header"
  BY DEF Replied
<1>3. UNCHANGED <<incoming, conn, hdr, got, outgoing, sending>> /\ mutex' = Free
  BY <1>1 DEF SendDone
<1>4. SendersOK' /\ OutgoingOK' /\ sending' \in [Senders -> Seq(Units)]
  BY <1>1, <1>2, ServiceAssumption, SendEnds
<1>5. StreamOK' /\ DeadOK' /\ PositionOK' /\ HeaderOK'
  BY <1>1, <1>2, <1>3, StreamKept DEF Busy, Leaving
<1>6. FlagsOK'
  <2>1. CASE pc = "replying"
    BY <1>1, <1>2, <2>1 DEF IInv, FlagsOK, Leaving
  <2>2. CASE pc = "nacking"
    BY <1>1, <1>2, <2>2 DEF IInv, FlagsOK, Leaving
  <2>3. QED
    BY <1>1, <2>1, <2>2
<1>7. LostOK'
  BY <1>1, LostKept
<1>8. taken \in Nat /\ Len(answers) \in Nat /\ answers \in Seq(Nat \X {"ACK", "NACK"})
  BY Counters DEF IInv, Types
<1> HIDE DEF a
<1>9. ASSUME ~misread
      PROVE  /\ answers' \in Seq(Nat \X {"ACK", "NACK"})
             /\ Len(answers') = Len(answers) + 1
             /\ \A i \in 1..Len(answers) : answers'[i] = answers[i]
             /\ answers'[Len(answers) + 1] = <<taken, a>>
  <2>1. <<taken, a>> \in Nat \X {"ACK", "NACK"}
    BY <1>8 DEF a
  <2>2. answers' = Append(answers, <<taken, a>>)
    BY <1>1, <1>9
  <2> DEFINE e == <<taken, a>>
  <2> HIDE DEF e
  <2>3. /\ Append(answers, e) \in Seq(Nat \X {"ACK", "NACK"})
        /\ Len(Append(answers, e)) = Len(answers) + 1
        /\ \A i \in 1..Len(answers) : Append(answers, e)[i] = answers[i]
        /\ Append(answers, e)[Len(answers) + 1] = e
    BY <1>8, <2>1, AppendProperties DEF e
  <2>4. QED
    BY <2>2, <2>3 DEF e
<1>10. AnswersOK'
  <2>1. /\ \A i \in 1..Len(answers) : answers[i][1] \in 1..taken
        /\ LoginAcked => player \/ ~Serving
        /\ ~misread /\ pc = "replying" =>
              /\ taken > 0 /\ Unanswered /\ player
              /\ nack_flag => requests[taken].type = "USERS"
        /\ ~misread /\ pc = "nacking" => taken > 0
    BY DEF IInv, AnswersOK
  <2>2. CASE misread
    <3>1. ~Serving' /\ misread'
      BY <1>1, <2>2 DEF Serving
    <3>2. QED
      BY <1>1, <2>1, <2>2, <3>1 DEF AnswersOK
  <2>3. CASE ~misread
    <3>1. \A i \in 1..Len(answers') : i \in 1..Len(answers) \/ i = Len(answers) + 1
      BY <1>8, <1>9, <2>3
    <3>2. answers'[Len(answers) + 1][1] = taken /\ answers'[Len(answers) + 1][2] = a
      BY <1>9, <2>3
    <3>3. \A i \in 1..Len(answers') : answers'[i][1] \in 1..taken'
      <4>1. taken \in 1..taken
        BY <1>1, <1>8, <2>1, <2>3
      <4>2. QED
        BY <1>1, <1>9, <2>1, <2>3, <3>1, <3>2, <4>1
    <3>4. LoginAcked' => player' \/ ~Serving'
      <4>1. CASE pc = "replying"
        BY <1>1, <2>1, <2>3, <4>1
      <4>2. CASE pc = "nacking"
        <5>1. a = "NACK"
          BY <4>2 DEF a
        <5>2. LoginAcked' => LoginAcked
          BY <1>1, <1>9, <2>3, <3>1, <3>2, <5>1 DEF LoginAcked
        <5>3. Serving
          BY <2>3, <4>2 DEF Serving, Leaving
        <5>4. QED
          BY <1>1, <2>1, <5>2, <5>3
      <4>3. QED
        BY <1>1, <4>1, <4>2
    <3>5. pc' \notin {"reply", "replying", "nack", "nacking"}
      BY <1>1, <1>2
    <3>6. ASSUME pc' = "cleanup", nack_flag'
          PROVE  taken' > 0 /\ Cut'
      <4>1. pc = "replying" /\ nack_flag /\ a = "ACK"
        BY <1>1, <1>2, <3>6 DEF a
      <4>2. taken > 0 /\ Unanswered /\ requests[taken].type = "USERS"
        BY <2>1, <2>3, <4>1
      <4>3. answers' # <<>> /\ Len(answers') - 1 = Len(answers)
        BY <1>8, <1>9, <2>3, SeqElements
      <4>4. answers'[Len(answers')] = <<taken, "ACK">>
        BY <1>9, <2>3, <4>1
      <4>5. \A i \in 1..Len(answers) : answers'[i][1] < taken
        BY <1>9, <2>3, <4>2 DEF Unanswered
      <4>6. QED
        BY <1>1, <4>2, <4>3, <4>4, <4>5 DEF Cut
    <3>7. QED
      BY <3>3, <3>4, <3>5, <3>6 DEF AnswersOK
  <2>4. QED
    BY <2>2, <2>3 DEF IInv, Types
<1>11. Types'
  <2>1. answers' \in Seq(Nat \X {"ACK", "NACK"})
    BY <1>1, <1>8, <1>9
  <2>2. pc' \in {"cleanup", "leave", "header"}
    BY <1>1, <1>2
  <2>3. QED
    BY <1>1, <1>3, <1>4, <2>1, <2>2 DEF IInv, Types, Leaving
<1>12. QED
  BY <1>4, <1>5, <1>6, <1>7, <1>10, <1>11 DEF IInv

\* The answer cannot be sent: the loop ends, and the string of an ACCEPT is lost.
LEMMA ReplyFailsIInv ==
    ASSUME IInv, ReplyFails
    PROVE  IInv'
<1>1. /\ pc \in {"replying", "nacking"} /\ SendFails(Service)
      /\ pc' = IF pc = "replying" THEN "cleanup" ELSE "leave"
      /\ EOF_flag' = (EOF_flag \/ pc = "replying")
      /\ strp' = FALSE
      /\ lost' = IF strp THEN lost + 1 ELSE lost
      /\ UNCHANGED <<requests, notes, player, payload, nack_flag, reply, taken,
                     answers, misread>>
  BY DEF ReplyFails
<1>2. UNCHANGED <<incoming, conn, hdr, got, outgoing>> /\ mutex' = Free
  BY <1>1 DEF SendFails
<1>3. SendersOK' /\ OutgoingOK' /\ sending' \in [Senders -> Seq(Units)]
  BY <1>1, ServiceAssumption, SendEnds
<1>4. StreamOK' /\ DeadOK' /\ PositionOK' /\ HeaderOK'
  BY <1>1, <1>2, StreamKept DEF Busy, Leaving
<1>5. FlagsOK'
  <2>1. CASE pc = "replying"
    BY <1>1, <2>1 DEF IInv, FlagsOK, Leaving
  <2>2. CASE pc = "nacking"
    BY <1>1, <2>2 DEF IInv, FlagsOK, Leaving
  <2>3. QED
    BY <1>1, <2>1, <2>2
<1>6. LostOK'
  <2>1. CASE ~strp
    <3>1. EOF_flag => EOF_flag'
      BY <1>1
    <3>2. QED
      BY <1>1, <2>1, <3>1, LostKept
  <2>2. CASE strp
    <3>1. pc = "replying" /\ ~EOF_flag /\ EOF_flag' /\ lost' = lost + 1
      BY <1>1, <2>2 DEF IInv, FlagsOK, Leaving
    <3>2. /\ taken > 0 /\ requests[taken].type = "ACCEPT"
          /\ lost <= Cardinality(Leaky(taken - 1))
      BY <2>2, <3>1 DEF IInv, LostOK
    <3>3. taken - 1 \in Nat /\ (taken - 1) + 1 = taken /\ lost \in Nat
      BY <3>2, Counters
    <3>4. /\ Cardinality(Leaky(taken - 1)) \in Nat
          /\ Cardinality(Leaky(taken)) = Cardinality(Leaky(taken - 1)) + 1
      <4> DEFINE n == taken - 1
      <4>1. n \in Nat /\ n + 1 = taken /\ requests[n + 1].type = "ACCEPT"
        BY <3>2, <3>3
      <4> HIDE DEF n
      <4>2. /\ Cardinality(Leaky(n)) \in Nat
            /\ Cardinality(Leaky(n + 1)) = Cardinality(Leaky(n)) + 1
        BY <4>1, LeakyGrows
      <4>3. QED
        BY <4>1, <4>2 DEF n
    <3>5. lost' <= Cardinality(Leaky(taken))
      BY <3>1, <3>2, <3>3, <3>4
    <3>6. Leaky(taken)' = Leaky(taken)
      BY <1>1 DEF Leaky
    <3>7. QED
      BY <1>1, <3>1, <3>5, <3>6 DEF LostOK
  <2>3. QED
    BY <2>1, <2>2
<1>7. AnswersOK'
  <2>1. Serving' => Serving
    BY <1>1 DEF Serving, Leaving
  <2>2. pc' \notin {"reply", "replying"}
    BY <1>1
  <2>3. CASE pc = "replying" /\ nack_flag /\ ~misread
    <3>1. /\ taken > 0 /\ Unanswered
          /\ \A i \in 1..Len(answers) : answers[i][1] \in 1..taken
          /\ LoginAcked => player \/ ~Serving
      BY <2>3 DEF IInv, AnswersOK
    <3>2. (Unanswered' <=> Unanswered) /\ (LoginAcked' <=> LoginAcked)
      BY <1>1 DEF Unanswered, LoginAcked
    <3>3. QED
      BY <1>1, <2>1, <2>2, <3>1, <3>2 DEF AnswersOK
  <2>4. CASE pc = "nacking" \/ ~nack_flag
    <3>1. Nacking' => Nacking
      BY <1>1, <2>4 DEF Nacking
    <3>2. QED
      BY <1>1, <2>1, <2>2, <3>1, AnswersKept
  <2>5. CASE misread
    <3>1. /\ \A i \in 1..Len(answers) : answers[i][1] \in 1..taken
          /\ misread' /\ ~Serving'
      BY <1>1, <2>5 DEF IInv, AnswersOK, Serving
    <3>2. QED
      BY <1>1, <3>1 DEF AnswersOK
  <2>6. QED
    BY <1>1, <2>3, <2>4, <2>5
<1>8. Types'
  <2>1. EOF_flag' \in BOOLEAN /\ lost' \in Nat /\ pc' \in {"cleanup", "leave"}
    BY <1>1, Counters
  <2>2. QED
    BY <1>1, <1>2, <1>3, <2>1 DEF IInv, Types, Leaving
<1>9. QED
  BY <1>3, <1>4, <1>5, <1>6, <1>7, <1>8 DEF IInv

\* After the switch the payload is freed.
LEMMA CleanupIInv ==
    ASSUME IInv, Cleanup
    PROVE  IInv'
<1>1. /\ pc = "cleanup" /\ payload' = "none" /\ nack_flag' = FALSE
      /\ pc' = IF nack_flag THEN "nack" ELSE IF EOF_flag THEN "leave" ELSE "header"
      /\ UNCHANGED <<incoming, conn, hdr, got, outgoing, mutex, sending,
                     requests, notes, player, EOF_flag, reply, strp, history>>
  BY DEF Cleanup, wire
<1>2. pc' \in {"nack", "leave", "header"}
  BY <1>1
<1>3. SendersOK' /\ OutgoingOK'
  <2>1. pc \notin {"replying", "nacking"} /\ pc' \notin {"replying", "nacking"}
    BY <1>1
  <2>2. QED
    BY <1>1, <2>1, SendingKept
<1>4. StreamOK' /\ DeadOK' /\ PositionOK' /\ HeaderOK'
  BY <1>1, <1>2, StreamKept DEF history, Busy, Leaving
<1>5. FlagsOK'
  <2>1. ~strp
    BY <1>1 DEF IInv, FlagsOK
  <2>2. QED
    BY <1>1, <2>1 DEF FlagsOK, Leaving
<1>6. LostOK'
  BY <1>1, LostKept DEF history
<1>7. AnswersOK'
  <2>1. Serving' => Serving
    BY <1>1 DEF Serving, Leaving, history
  <2>2. pc' \notin {"reply", "replying"} /\ (Nacking' => Nacking)
    BY <1>1 DEF Nacking
  <2>3. QED
    BY <1>1, <2>1, <2>2, AnswersKept DEF history
<1>8. Types'
  BY <1>1, <1>2 DEF IInv, Types, history, Leaving
<1>9. QED
  BY <1>3, <1>4, <1>5, <1>6, <1>7, <1>8 DEF IInv

\* The end of the thread.
LEMMA LeavingIInv ==
    ASSUME IInv, Leave \/ Logout \/ Unregister
    PROVE  IInv'
<1>1. /\ pc \in Leaving \ {"done"} /\ pc' \in Leaving \ {"leave"}
      /\ UNCHANGED <<incoming, hdr, got, outgoing, mutex, sending,
                     requests, notes, nack_flag, EOF_flag, reply, strp, history>>
      /\ conn' = conn \/ (conn = "open" /\ conn' = "eof")
  BY DEF Leave, Logout, Unregister, wire, Leaving
<1>2. /\ pc \notin {"replying", "nacking"} /\ pc' \notin {"replying", "nacking"}
      /\ pc' \notin {"reply", "nack", "cleanup"}
  BY <1>1 DEF Leaving
<1>3. /\ payload \in {"none", "request", "reply"} => payload' \in {"none", "request", "reply"}
      /\ player \in BOOLEAN => player' \in BOOLEAN
      /\ pc' \in {"unregister", "done"} => ~player'
      /\ pc' \in {"logout", "unregister", "done"} /\ payload' = "none"
  <2>1. player \in BOOLEAN
    BY DEF IInv, Types
  <2>2. /\ pc \in {"unregister", "done"} => ~player
        /\ pc \in {"logout", "unregister"} => payload = "none"
    BY DEF IInv, FlagsOK
  <2>3. CASE Leave
    BY <2>1, <2>2, <2>3 DEF Leave
  <2>4. CASE Logout
    BY <2>1, <2>2, <2>4 DEF Logout
  <2>5. CASE Unregister
    BY <2>1, <2>2, <2>5 DEF Unregister
  <2>6. QED
    BY <2>3, <2>4, <2>5
<1>4. SendersOK' /\ OutgoingOK'
  BY <1>1, <1>2, SendingKept
<1>5. StreamOK' /\ DeadOK' /\ PositionOK' /\ HeaderOK'
  BY <1>1, StreamKept DEF history
<1>6. FlagsOK'
  <2>1. ~strp /\ ~nack_flag
    BY <1>1 DEF IInv, FlagsOK, Leaving
  <2>2. QED
    BY <1>1, <1>3, <2>1 DEF FlagsOK
<1>7. LostOK'
  BY <1>1, LostKept DEF history
<1>8. AnswersOK'
  <2>1. ~Serving'
    BY <1>1 DEF Serving
  <2>2. ~Nacking'
    BY <1>2 DEF Nacking
  <2>3. QED
    BY <1>1, <1>2, <2>1, <2>2, AnswersKept DEF history
<1>9. Types'
  BY <1>1, <1>3 DEF IInv, Types, history
<1>10. QED
  BY <1>4, <1>5, <1>6, <1>7, <1>8, <1>9 DEF IInv

\* The invariant holds when the thread starts.
LEMMA InitIInv == Init => IInv
<1> SUFFICES ASSUME Init PROVE IInv
  OBVIOUS
<1> USE DEF Init, WireInit
<1>1. /\ <<>> \in Seq(Units) /\ <<>> \in Seq(Packets)
      /\ <<>> \in Seq(Nat \X {"ACK", "NACK"})
      /\ incoming = <<>> /\ requests = <<>> /\ answers = <<>> /\ outgoing = <<>>
      /\ Len(incoming) = 0 /\ Len(requests) = 0 /\ Len(answers) = 0 /\ Len(outgoing) = 0
  BY EmptySeq
<1>2. hdr \in Packets /\ reply \in Packets /\ hdr.type = "NO" /\ hdr.id = 0
  BY DEF Packets, PacketTypes, NoReply
<1>3. Types
  <2>1. sending \in [Senders -> Seq(Units)]
    BY <1>1
  <2>2. {player, nack_flag, EOF_flag, strp, misread} \subseteq BOOLEAN
    OBVIOUS
  <2>3. {got, notes, taken, lost} \subseteq Nat
    OBVIOUS
  <2>4. /\ mutex \in Senders \cup {Free} /\ conn \in {"open", "eof", "reset", "dead"}
        /\ payload \in {"none", "request", "reply"} /\ pc = "header"
    OBVIOUS
  <2>5. /\ incoming \in Seq(Units) /\ outgoing \in Seq(Units)
        /\ requests \in Seq(Packets) /\ answers \in Seq(Nat \X {"ACK", "NACK"})
    BY <1>1
  <2> HIDE DEF Init, WireInit
  <2>6. QED
    BY <1>2, <2>1, <2>2, <2>3, <2>4, <2>5 DEF Types
<1>4. SendersOK
  BY ServiceAssumption, FreeAssumption DEF SendersOK
<1>5. OutgoingOK
  BY <1>1 DEF OutgoingOK
<1>6. StreamOK /\ DeadOK
  BY <1>1, BoundAssumption DEF StreamOK, DeadOK
<1>7. PositionOK
  BY <1>1 DEF PositionOK, NextPacket, NextUnit
<1>8. HeaderOK
  BY <1>2, HeaderAssumption DEF HeaderOK, AtRest, Leaving
<1>9. FlagsOK
  BY DEF FlagsOK
<1>10. LostOK
  <2>1. Cardinality(Leaky(0)) \in Nat
    BY LeakyGrows
  <2>2. QED
    BY <2>1 DEF LostOK
<1>11. AnswersOK
  BY <1>1 DEF AnswersOK, LoginAcked
<1>12. QED
  BY <1>3, <1>4, <1>5, <1>6, <1>7, <1>8, <1>9, <1>10, <1>11 DEF IInv

\* A step that changes nothing keeps it.
LEMMA StutterIInv ==
    ASSUME IInv, UNCHANGED vars
    PROVE  IInv'
<1>1. /\ UNCHANGED <<incoming, conn, hdr, got, outgoing, mutex, sending>>
      /\ UNCHANGED <<requests, notes, thread, history>>
  BY DEF vars, wire
<1>2. /\ StreamOK' /\ DeadOK' /\ PositionOK' /\ HeaderOK'
      /\ FlagsOK' /\ LostOK' /\ AnswersOK'
  BY <1>1, OthersQuiet
<1>3. SendersOK' /\ OutgoingOK'
  BY <1>1, SendingKept DEF thread
<1>4. Types'
  BY <1>1 DEF IInv, Types, thread, history
<1>5. QED
  BY <1>2, <1>3, <1>4 DEF IInv

\* Every step keeps it, one action at a time.
LEMMA NextIInv == IInv /\ [Next]_vars => IInv'
<1> SUFFICES ASSUME IInv, [Next]_vars PROVE IInv'
  OBVIOUS
<1>1. CASE Ask
  BY <1>1, AskIInv
<1>2. CASE Hangup
  BY <1>2, HangupIInv
<1>3. CASE ServiceStep
  <2>1. CASE Receive \/ ReceiveFails
    BY <2>1, ReceiveIInv, ReceiveFailsIInv
  <2>2. CASE Dispatch
    BY <2>2, DispatchTurns, DispatchIInv
  <2>3. CASE SendReply \/ Replied \/ ReplyFails
    BY <2>3, SendReplyIInv, RepliedIInv, ReplyFailsIInv
  <2>4. CASE Transmit(Service)
    BY <2>4, TransmitIInv, ServiceAssumption
  <2>5. CASE Cleanup
    BY <2>5, CleanupIInv
  <2>6. CASE Leave \/ Logout \/ Unregister
    BY <2>6, LeavingIInv
  <2>7. QED
    BY <1>3, <2>1, <2>2, <2>3, <2>4, <2>5, <2>6 DEF ServiceStep
<1>4. ASSUME NEW t \in Others, Notify(t) \/ OtherStep(t)
      PROVE  IInv'
  <2>1. t \in Senders
    BY DEF Others
  <2>2. QED
    BY <1>4, <2>1, NotifyIInv, NotifyDoneIInv, TransmitIInv DEF OtherStep
<1>5. CASE UNCHANGED vars
  BY <1>5, StutterIInv
<1>6. QED
  BY <1>1, <1>2, <1>3, <1>4, <1>5 DEF Next

\* The invariant holds in every state that the service can reach.
LEMMA SpecIInv == Spec => []IInv
BY InitIInv, NextIInv, PTL DEF Spec

-----------------------------------------------------------------------------
(***************************************************************************)
(* The theorems.                                                           *)
(***************************************************************************)
\* What follows a unit in the stream, as NoTornPackets has it.
LEMMA NextUnitOf ==
    ASSUME NEW u \in Units
    PROVE  [u EXCEPT !.unit = @ + 1] = Unit(u.packet, u.unit + 1)
BY DEF Units, Unit

\* However the threads that send to one client interleave, and wherever a
\* write fails, what reaches the client is made of whole packets
\* (client_send_packet takes the mutex of the CLIENT, proto_send_packet writes
\* the header and then the payload).
THEOREM StreamOfWholePackets == Spec => []NoTornPackets
<1>1. IInv => NoTornPackets
  <2> SUFFICES ASSUME IInv, conn = "open", NEW i \in DOMAIN outgoing
               PROVE LET u == outgoing[i]
                         ends == u.unit = HeaderSize + u.packet.size
                     IN IF i = Len(outgoing)
                        THEN ends \/ (mutex # Free /\ sending[mutex] # <<>>
                                       /\ Head(sending[mutex]) = [u EXCEPT !.unit = @ + 1])
                        ELSE outgoing[i + 1] = [u EXCEPT !.unit = @ + 1]
                             \/ (ends /\ outgoing[i + 1].unit = 1)
    BY DEF NoTornPackets
  <2>1. outgoing \in Seq(Units)
    BY DEF IInv, Types
  <2>2. /\ Len(outgoing) \in Nat /\ i \in 1..Len(outgoing) /\ outgoing[i] \in Units
        /\ outgoing # <<>>
    BY <2>1, SeqElements
  <2>3. [outgoing[i] EXCEPT !.unit = @ + 1] = Unit(outgoing[i].packet, outgoing[i].unit + 1)
    BY <2>2, NextUnitOf
  <2>4. OutgoingOK
    BY DEF IInv
  <2>5. CASE i = Len(outgoing)
    <3>1. CASE mutex # Free /\ sending[mutex] # <<>>
      <4>1. Follows(outgoing[i], Head(sending[mutex]))
        BY <2>2, <2>4, <2>5, <3>1 DEF OutgoingOK
      <4>2. QED
        BY <2>3, <2>5, <3>1, <4>1 DEF Follows, Total
    <3>2. CASE mutex = Free \/ sending[mutex] = <<>>
      <4>1. outgoing[i].unit = Total(outgoing[i].packet)
        BY <2>2, <2>4, <2>5, <3>2 DEF OutgoingOK
      <4>2. QED
        BY <2>5, <4>1 DEF Total
    <3>3. QED
      BY <3>1, <3>2
  <2>6. CASE i # Len(outgoing)
    <3>1. i \in 1..(Len(outgoing) - 1)
      BY <2>2, <2>6
    <3>2. Follows(outgoing[i], outgoing[i + 1])
      BY <2>4, <3>1 DEF OutgoingOK
    <3>3. QED
      BY <2>3, <2>6, <3>2 DEF Follows, Total
  <2>7. QED
    BY <2>5, <2>6
<1>2. QED
  BY <1>1, SpecIInv, PTL

\* What is dispatched is the next request, whole; after a reset that was taken
\* for a header it is at most the one before it, and only without a payload
\* (proto_recv_packet, and the loop of jeux_client_service).
THEOREM RequestsInOrder == Spec => []DispatchesNextRequest
<1>1. IInv => DispatchesNextRequest
  <2> SUFFICES ASSUME IInv, pc = "dispatch"
               PROVE /\ ~EOF_flag
                     /\ IF misread THEN hdr.id = taken /\ hdr.size = 0 /\ payload = "none"
                        ELSE /\ taken < Len(requests)
                             /\ hdr = requests[taken + 1]
                             /\ payload = IF hdr.size > 0 THEN "request" ELSE "none"
                             /\ incoming # <<>> => incoming[1].unit = 1
    BY DEF DispatchesNextRequest
  <2>1. ~EOF_flag
    BY DispatchedRequest
  <2>2. misread => hdr.id = taken /\ hdr.size = 0 /\ payload = "none"
    BY DispatchedRequest
  <2>3. ~misread => taken < Len(requests) /\ hdr = requests[taken + 1]
    BY DispatchedRequest
  <2>4. payload = IF hdr.size > 0 THEN "request" ELSE "none"
    BY DEF IInv, FlagsOK
  <2>5. incoming # <<>> => incoming[1].unit = 1
    BY DEF IInv, DeadOK, PositionOK, NextUnit, Leaving
  <2>6. QED
    BY <2>1, <2>2, <2>3, <2>4, <2>5
<1>2. QED
  BY <1>1, SpecIInv, PTL

\* When the thread has ended it keeps nothing, and the blocks that were lost
\* until then are those of USERS requests with a payload and of ACCEPT
\* requests (server.c:218-219 and 304-317, 449-461).
THEOREM NothingIsKept == Spec => []NothingKept
<1>1. ASSUME IInv PROVE NothingKept
  <2>1. /\ taken \in 0..Len(requests) /\ Len(requests) \in Nat /\ lost \in Nat
        /\ Len(requests) <= MaxRequests
    BY <1>1, Counters DEF IInv, StreamOK
  <2>2. /\ Cardinality(Leaky(taken)) \in Nat /\ Cardinality(Leaky(taken)) <= taken
        /\ IsFiniteSet(Leaky(Len(requests))) /\ Cardinality(Leaky(Len(requests))) \in Nat
    BY <2>1, LeakyGrows
  <2>3. lost <= Cardinality(Leaky(taken))
    BY <1>1 DEF IInv, LostOK
  <2>4. taken \in 0..MaxRequests /\ lost \in 0..(2 * MaxRequests)
    BY <2>1, <2>2, <2>3, BoundAssumption
  <2>5. TypeOK
    BY <1>1, <2>4 DEF IInv, Types, TypeOK, Packets
  <2>6. Leaky(Len(requests)) =
           {i \in DOMAIN requests : \/ requests[i].type = "USERS" /\ requests[i].size > 0
                                    \/ requests[i].type = "ACCEPT"}
    <3>1. requests \in Seq(Packets)
      BY <1>1 DEF IInv, Types
    <3>2. DOMAIN requests = 1..Len(requests)
      BY <3>1, SeqElements
    <3>3. QED
      BY <3>2 DEF Leaky
  <2>7. Cardinality(Leaky(taken)) <= Cardinality(Leaky(Len(requests)))
    <3>1. Leaky(taken) \subseteq Leaky(Len(requests))
      BY <2>1 DEF Leaky
    <3>2. QED
      BY <2>2, <3>1, FS_Subset
  <2>8. LostBlocksAreKnown
    <3>1. lost <= Cardinality(Leaky(Len(requests)))
      BY <2>1, <2>2, <2>3, <2>7
    <3>2. QED
      BY <2>6, <3>1 DEF LostBlocksAreKnown
  <2>9. pc = "done" => /\ payload = "none" /\ ~strp /\ ~player
                       /\ mutex # Service /\ sending[Service] = <<>>
    BY <1>1, ServiceAssumption DEF IInv, FlagsOK, SendersOK
  <2>10. QED
    BY <2>5, <2>8, <2>9 DEF NothingKept
<1>2. IInv => NothingKept
  BY <1>1
<1>3. QED
  BY <1>2, SpecIInv, PTL

-----------------------------------------------------------------------------
(***************************************************************************)
(* The promise of RequestReply, step by step.                              *)
(***************************************************************************)
\* What the client has asked, without the numbers.
Wanted == [type : PacketTypes, size : Nat]
asked == [i \in DOMAIN requests |-> [type |-> requests[i].type, size |-> requests[i].size]]

\* The requests and what has been asked correspond.
LEMMA AskedAre ==
    ASSUME IInv
    PROVE  /\ DOMAIN requests = 1..Len(requests) /\ Len(requests) \in Nat
           /\ asked \in Seq(Wanted) /\ Len(asked) = Len(requests)
           /\ \A i \in 1..Len(requests) : asked[i].type = requests[i].type
           /\ DOMAIN answers = 1..Len(answers)
<1>1. requests \in Seq(Packets) /\ answers \in Seq(Nat \X {"ACK", "NACK"})
  BY DEF IInv, Types
<1>2. /\ DOMAIN requests = 1..Len(requests) /\ Len(requests) \in Nat
      /\ \A i \in 1..Len(requests) : requests[i] \in Packets
      /\ DOMAIN answers = 1..Len(answers)
  BY <1>1, SeqElements
<1>3. \A i \in 1..Len(requests) :
        [type |-> requests[i].type, size |-> requests[i].size] \in Wanted
  BY <1>2 DEF Packets, Wanted
<1>4. /\ asked \in [1..Len(requests) -> Wanted]
      /\ \A i \in 1..Len(requests) : asked[i].type = requests[i].type
  BY <1>2, <1>3 DEF asked
<1>5. asked \in Seq(Wanted) /\ Len(asked) = Len(requests)
  <2> DEFINE n == Len(requests)
  <2>1. n \in Nat /\ asked \in [1..n -> Wanted]
    BY <1>2, <1>4
  <2> HIDE DEF n, asked
  <2>2. asked \in Seq(Wanted) /\ Len(asked) = n
    BY <2>1
  <2>3. QED
    BY <2>2 DEF n
<1>6. QED
  BY <1>2, <1>4, <1>5

\* Steps that the client cannot tell from no step.
LEMMA PromiseStutters ==
    ASSUME UNCHANGED <<requests, taken, answers>>, Serving' <=> Serving,
           player /\ Serving <=> player' /\ Serving'
    PROVE  UNCHANGED Promise!vars
<1>1. Serving' = Serving /\ (player /\ Serving)' = (player /\ Serving)
  OBVIOUS
<1>2. QED
  BY <1>1 DEF Promise!vars

\* A request that arrives whole.
LEMMA PromiseAsk ==
    ASSUME IInv, NEW r \in Requests,
           requests' = Append(requests, [type |-> r.type, size |-> r.size,
                                         id |-> Len(requests) + 1]),
           UNCHANGED <<taken, answers>>, Serving' <=> Serving, player' = player
    PROVE  Promise!Ask
<1> DEFINE packet == [type |-> r.type, size |-> r.size, id |-> Len(requests) + 1]
           n == Len(requests)
<1>1. /\ requests \in Seq(Packets) /\ packet \in Packets /\ n \in Nat
      /\ DOMAIN requests = 1..n
      /\ asked \in Seq(Wanted) /\ Len(asked) = n
  <2>1. Len(requests) + 1 \in Nat
    BY Counters
  <2>2. packet \in Packets
    BY <2>1, RequestIsPacket
  <2> HIDE DEF packet
  <2>3. QED
    BY <2>2, AskedAre DEF IInv, Types
<1>2. r \in [type : STRING, size : Nat] /\ r = [type |-> r.type, size |-> r.size]
  BY RequestsAssumption
<1>3. r \in Wanted
  BY <1>2 DEF PacketTypes, Wanted
<1>4. [type |-> packet.type, size |-> packet.size] = r
  BY <1>2
<1> HIDE DEF packet
<1>5. /\ requests' = Append(requests, packet) /\ Append(requests, packet) \in Seq(Packets)
      /\ Len(requests') = n + 1
      /\ \A i \in 1..n : requests'[i] = requests[i]
      /\ requests'[n + 1] = packet
  <2>1. requests' = Append(requests, packet)
    BY DEF packet
  <2>2. QED
    BY <1>1, <2>1, AppendProperties
<1>6. DOMAIN requests' = 1..(n + 1)
  BY <1>1, <1>5, SeqElements
<1> HIDE DEF n
<1>7. /\ Append(asked, r) \in Seq(Wanted)
      /\ Len(Append(asked, r)) = n + 1
      /\ \A i \in 1..n : Append(asked, r)[i] = asked[i]
      /\ Append(asked, r)[n + 1] = r
  BY <1>1, <1>3, AppendProperties
<1>8. \A i \in 1..(n + 1) : asked'[i] = Append(asked, r)[i]
  <2> SUFFICES ASSUME NEW i \in 1..(n + 1) PROVE asked'[i] = Append(asked, r)[i]
    OBVIOUS
  <2>1. asked'[i] = [type |-> requests'[i].type, size |-> requests'[i].size]
    BY <1>6 DEF asked
  <2>2. CASE i \in 1..n
    <3>1. asked[i] = [type |-> requests[i].type, size |-> requests[i].size]
      BY <1>1, <2>2 DEF asked
    <3>2. QED
      BY <1>5, <1>7, <2>1, <2>2, <3>1
  <2>3. CASE i = n + 1
    BY <1>4, <1>5, <1>7, <2>1, <2>3
  <2>4. QED
    BY <1>1, <2>2, <2>3
<1>9. asked' = Append(asked, r)
  <2> DEFINE a == Append(asked, r)
  <2>1. a \in [1..(n + 1) -> Wanted]
    BY <1>1, <1>7, LenProperties
  <2>2. asked' = [i \in 1..(n + 1) |-> asked'[i]]
    BY <1>6 DEF asked
  <2>3. \A i \in 1..(n + 1) : asked'[i] = a[i]
    BY <1>8
  <2> HIDE DEF a, asked
  <2>4. asked' = a
    BY <2>1, <2>2, <2>3
  <2>5. QED
    BY <2>4 DEF a
<1>10. Serving' = Serving /\ (player /\ Serving)' = (player /\ Serving)
  OBVIOUS
<1>11. QED
  BY <1>9, <1>10 DEF Promise!Ask, asked

\* The turn of the switch takes the next request.
LEMMA PromiseTake ==
    ASSUME IInv, Turned, ~misread
    PROVE  Promise!Take
<1> USE DEF Turned
<1>1. Serving /\ Serving'
  BY DEF Serving, Leaving
<1>2. taken \in Nat /\ taken' = taken + 1 /\ taken < Len(requests) /\ hdr = requests[taken + 1]
  BY Counters, DispatchedRequest
<1>3. Len(asked) = Len(requests) /\ asked[taken'].type = hdr.type
  BY <1>2, AskedAre
<1>4. asked' = asked
  BY DEF asked
<1>5. \/ (player /\ Serving)' = (player /\ Serving)
      \/ asked[taken'].type = "LOGIN" /\ ~(player /\ Serving) /\ (player /\ Serving)' = TRUE
  <2>1. player' = player \/ (hdr.type = "LOGIN" /\ ~player /\ player' = TRUE)
    OBVIOUS
  <2>2. CASE player' = player
    BY <1>1, <2>2
  <2>3. CASE hdr.type = "LOGIN" /\ ~player /\ player' = TRUE
    BY <1>1, <1>3, <2>3
  <2>4. QED
    BY <2>1, <2>2, <2>3
<1>6. answers' = answers /\ Serving' = Serving
  BY <1>1
<1>7. Serving /\ taken < Len(asked)
  BY <1>1, <1>2, <1>3
<1>8. QED
  BY <1>2, <1>4, <1>5, <1>6, <1>7 DEF Promise!Take, asked

\* The request that was taken is answered, or the service has ended already.
LEMMA PromiseAnswer ==
    ASSUME IInv, Replied
    PROVE  Promise!Answer \/ UNCHANGED Promise!vars
<1> DEFINE a == IF pc = "nacking" THEN "NACK" ELSE "ACK"
<1>1. /\ pc \in {"replying", "nacking"}
      /\ pc' \in {"cleanup", "leave", "header"}
      /\ answers' = IF misread THEN answers ELSE Append(answers, <<taken, a>>)
      /\ UNCHANGED <<requests, player, nack_flag, taken, misread>>
  BY DEF Replied
<1>2. (Serving <=> ~misread) /\ (Serving' <=> ~misread')
  BY <1>1 DEF Serving, Leaving
<1>3. CASE misread
  BY <1>1, <1>2, <1>3, PromiseStutters
<1>4. CASE ~misread
  <2>1. Serving /\ Serving' /\ Serving' = Serving
    BY <1>1, <1>2, <1>4
  <2>2. (player /\ Serving)' = (player /\ Serving)
    BY <1>1, <2>1
  <2>3. asked' = asked
    BY <1>1 DEF asked
  <2>4. /\ taken \in 1..Len(requests) /\ DOMAIN answers = 1..Len(answers)
        /\ asked[taken].type = requests[taken].type
    <3>1. taken > 0
      BY <1>1, <1>4 DEF IInv, AnswersOK
    <3>2. taken \in 1..Len(requests)
      BY <3>1, Counters
    <3>3. QED
      BY <3>2, AskedAre
  <2>5. \A i \in DOMAIN answers : answers[i][1] \in 1..Len(requests)
                                  /\ asked[answers[i][1]].type = requests[answers[i][1]].type
    <3>1. \A i \in 1..Len(answers) : answers[i][1] \in 1..taken
      BY DEF IInv, AnswersOK
    <3>2. 1..taken \subseteq 1..Len(requests)
      BY <2>4
    <3>3. QED
      BY <2>4, <3>1, <3>2, AskedAre
  <2>6. a \in {"ACK", "NACK"} /\ answers' = Append(answers, <<taken, a>>)
    BY <1>1, <1>4
  <2>7. CASE pc = "replying"
    <3>1. a = "ACK"
      BY <2>7
    <3>2. /\ Unanswered /\ player
          /\ requests[taken].type = "LOGIN" => ~LoginAcked
      BY <1>4, <2>7 DEF IInv, AnswersOK
    <3>3. \A i \in DOMAIN answers : answers[i][1] < taken
      BY <2>4, <3>2 DEF Unanswered
    <3>4. asked[taken].type = "LOGIN" =>
             \A i \in DOMAIN answers :
                answers[i][2] = "ACK" => asked[answers[i][1]].type # "LOGIN"
      BY <2>4, <2>5, <3>2 DEF LoginAcked
    <3> HIDE DEF asked, a
    <3>5. ~(player /\ Serving) => a = "NACK"
      BY <2>1, <3>2
    <3>6. QED
      BY <1>1, <2>1, <2>2, <2>3, <2>4, <2>6, <3>1, <3>3, <3>4, <3>5
         DEF Promise!Answer, asked
  <2>8. CASE pc = "nacking"
    <3>1. a = "NACK"
      BY <2>8
    <3>2. Unanswered \/ Cut
      BY <1>4, <2>8 DEF IInv, AnswersOK
    <3>3. \/ \A i \in DOMAIN answers : answers[i][1] < taken
          \/ Promise!CutShort("NACK")
      BY <2>4, <3>2 DEF Unanswered, Cut, Promise!CutShort, asked
    <3>4. a # "ACK"
      BY <3>1
    <3> HIDE DEF a
    <3>5. QED
      BY <1>1, <2>1, <2>2, <2>3, <2>4, <2>6, <3>1, <3>3, <3>4 DEF Promise!Answer, asked
  <2>9. QED
    BY <1>1, <2>7, <2>8
<1>5. QED
  BY <1>3, <1>4 DEF IInv, Types

\* The service of the client ends.
LEMMA PromiseEnds ==
    ASSUME Serving, ~Serving', UNCHANGED <<requests, taken, answers>>
    PROVE  Promise!End
<1>1. Serving = TRUE /\ Serving' = FALSE /\ (player /\ Serving)' = FALSE
  <2>1. Serving \in BOOLEAN /\ Serving' \in BOOLEAN
    BY DEF Serving
  <2>2. QED
    BY <2>1
<1>2. asked' = asked
  BY DEF asked
<1>3. QED
  BY <1>1, <1>2 DEF Promise!End, asked

\* The service thread keeps the promise: it takes the requests in order,
\* honours only LOGIN until the client has logged in and no LOGIN after that,
\* and answers a request once, before it takes the next
\* (server.c:25-36 and 59-471).
THEOREM ServiceKeepsPromise == Spec => KeepsPromise
<1>1. Init => Promise!Init
  <2> SUFFICES ASSUME Init PROVE Promise!Init
    OBVIOUS
  <2>1. Serving = TRUE /\ (player /\ Serving) = FALSE /\ requests = <<>>
    BY DEF Init, Serving, Leaving
  <2>2. asked = <<>>
    BY <2>1 DEF asked
  <2>3. QED
    BY <2>1, <2>2 DEF Init, Promise!Init, asked
<1>2. IInv /\ [Next]_vars => [Promise!Next]_(Promise!vars)
  <2> SUFFICES ASSUME IInv, [Next]_vars
               PROVE  Promise!Next \/ UNCHANGED Promise!vars
    OBVIOUS
  <2>1. ASSUME UNCHANGED <<requests, thread, history>>
        PROVE  UNCHANGED Promise!vars
    <3>1. (Serving' <=> Serving) /\ (player /\ Serving <=> player' /\ Serving')
      BY <2>1 DEF Serving, thread, history
    <3>2. QED
      BY <2>1, <3>1, PromiseStutters DEF history
  <2>2. CASE Ask
    <3>1. UNCHANGED <<taken, answers>> /\ (Serving' <=> Serving) /\ player' = player
      BY <2>2 DEF Ask, thread, history, Serving
    <3>2. CASE UNCHANGED requests
      BY <2>1, <2>2, <3>2 DEF Ask
    <3>3. CASE \E r \in Requests :
                 requests' = Append(requests, [type |-> r.type, size |-> r.size,
                                               id |-> Len(requests) + 1])
      BY <3>1, <3>3, PromiseAsk DEF Promise!Next
    <3>4. QED
      BY <2>2, <3>2, <3>3 DEF Ask
  <2>3. CASE Hangup \/ \E t \in Others : Notify(t) \/ OtherStep(t)
    BY <2>1, <2>3 DEF Hangup, Notify, OtherStep, Transmit, NotifyDone
  <2>4. CASE Receive
    <3>1. /\ pc \in {"header", "payload"} /\ UNCHANGED <<requests, taken, answers, player>>
          /\ pc' \in {"header", "payload", "dispatch", "leave"}
          /\ misread => misread'
      <4>1. /\ pc \in {"header", "payload"} /\ UNCHANGED <<requests, taken, answers, player>>
            /\ pc' \in {"header", "payload", "dispatch", "leave"}
        BY <2>4 DEF Receive
      <4>2. misread' = misread \/ \E next \in {"header", "payload", "dispatch", "leave"} :
                                    misread' = (misread \/ next # "header")
        BY <2>4, Zenon DEF Receive
      <4>3. misread => misread'
        BY <4>2
      <4>4. QED
        BY <4>1, <4>3
    <3>2. Serving' => Serving
      BY <3>1 DEF Serving, Leaving
    <3>3. CASE Serving' <=> Serving
      BY <3>1, <3>3, PromiseStutters
    <3>4. CASE Serving /\ ~Serving'
      BY <3>1, <3>4, PromiseEnds DEF Promise!Next
    <3>5. QED
      BY <3>2, <3>3, <3>4
  <2>5. CASE Dispatch
    <3>1. Turned
      BY <2>5, DispatchTurns
    <3>2. CASE misread
      <4>1. ~Serving /\ ~Serving' /\ UNCHANGED <<requests, taken, answers>>
        BY <3>1, <3>2 DEF Turned, Serving
      <4>2. QED
        BY <4>1, PromiseStutters
    <3>3. CASE ~misread
      BY <3>1, <3>3, PromiseTake DEF Promise!Next
    <3>4. QED
      BY <3>2, <3>3
  <2>6. CASE Replied
    BY <2>6, PromiseAnswer DEF Promise!Next
  <2>7. CASE ReceiveFails \/ SendReply \/ ReplyFails \/ Cleanup
    <3>1. /\ UNCHANGED <<requests, taken, answers, player, misread>>
          /\ pc \notin Leaving \ {"leave"} /\ pc' \notin Leaving \ {"leave"}
      BY <2>7 DEF ReceiveFails, SendReply, ReplyFails, Cleanup, history, Leaving
    <3>2. Serving' <=> Serving
      BY <3>1 DEF Serving
    <3>3. QED
      BY <3>1, <3>2, PromiseStutters
  <2>8. CASE Leave \/ Logout \/ Unregister
    <3>1. UNCHANGED <<requests, taken, answers>> /\ ~Serving'
      BY <2>8 DEF Leave, Logout, Unregister, history, Serving, Leaving
    <3>2. CASE Serving
      BY <3>1, <3>2, PromiseEnds DEF Promise!Next
    <3>3. CASE ~Serving
      BY <3>1, <3>3, PromiseStutters
    <3>4. QED
      BY <3>2, <3>3
  <2>9. CASE Transmit(Service) \/ UNCHANGED vars
    BY <2>1, <2>9 DEF Transmit, vars
  <2>10. QED
    BY <2>2, <2>3, <2>4, <2>5, <2>6, <2>7, <2>8, <2>9 DEF Next, ServiceStep
<1>3. QED
  BY <1>1, <1>2, SpecIInv, PTL DEF Spec, KeepsPromise, Promise!Spec
=============================================================================
