------------------------------ MODULE PipeSteps ------------------------------
(***************************************************************************)
(* The inductive invariant of a pipe, and what each step of a pipe does to *)
(* the stream of a direction, to the ends, to the sleepers and to the      *)
(* wakes they are owed.  PipeProofs counts the references and has the      *)
(* theorems.                                                               *)
(***************************************************************************)
EXTENDS Pipe, TLAPS

\* The provers, in the order and with the seconds that suit these proofs.
USE SMTT(2), ZenonT(10), SMTT(40), ZenonT(60)

Message == [first : Nat, len : Nat, pos : Nat]

\* The threads that still hold a reference to end i.
Holding == Calling \cup {"ready", "received", "sent", "notify"}
Holders(i) == {t \in Thread : Side[t] = i /\ pc[t] \in Holding}

\* One direction: its messages follow one another from the byte that is read
\* next to the byte that is sent next, and all of them count against the room.
Within(q, to) ==
    \A k \in 1..Len(q) : /\ q[k].pos <= q[k].len /\ (k > 1 => q[k].pos = 0)
                         /\ q[k].first + q[k].len <= to
Chained(q, to) ==
    \A k \in 1..Len(q) : q[k].first + q[k].len = IF k = Len(q) THEN to ELSE q[k + 1].first
Ordered(q) ==
    \A j, k \in 1..Len(q) : j < k => q[j].first + q[j].len <= q[k].first
Room(q, room) ==
    room > Capacity => \E k \in 1..Len(q) : q[k].len = room

Stream(q, room, to, from) ==
    /\ q = <<>> => room = 0 /\ from = to
    /\ q # <<>> => room + q[1].first = to /\ from = q[1].first + q[1].pos
    /\ Within(q, to) /\ Chained(q, to) /\ Ordered(q) /\ Room(q, room)

Flows == /\ queue \in [Ends -> Seq(Message)]
         /\ bytes \in [Ends -> Nat] /\ sent \in [Ends -> Nat] /\ got \in [Ends -> Nat]

Streams == \A i \in Ends : IF freed THEN queue[i] = <<>> /\ bytes[i] = 0
                           ELSE Stream(queue[i], bytes[i], sent[i], got[i])

\* An end is closed after its last reference went, by the thread that dropped
\* it; the pipe is freed by one that found both ends closed.
Closes ==
    /\ \A i \in Ends : ~open[i] => refs[i] = 0
    /\ \A t \in Thread : pc[t] = "close" =>
          /\ refs[Side[t]] = 0 /\ open[Side[t]]
          /\ \A u \in Thread : pc[u] = "close" /\ Side[u] = Side[t] => u = t
    /\ \A t \in Thread : pc[t] = "free" => t \in last
    /\ last # {} \/ freed => \A i \in Ends : ~open[i]

Counted == \A i \in Ends : refs[i] = Cardinality(Holders(i))

Held == \A t \in Thread : pc[t] \in Holding => refs[Side[t]] # 0

\* Who sleeps is in a call, on the queue of its end; a send has no deadline.
Sleepers ==
    /\ \A i \in Ends, t \in Thread :
          /\ t \in readable[i] => Side[t] = i /\ pc[t] = "recv"
          /\ t \in writable[i] => Side[t] = Peer(i) /\ pc[t] = "send"
    /\ \A t \in pollers : pc[t] = "poll"
    /\ \A t \in Thread : pc[t] = "send" => ~timed[t]

\* Whoever sleeps for nothing is on somebody's way: the wakes that are still
\* to come are those of the queue it sleeps on.
WritersStillWoken ==
    \A t \in Thread : t \in writable[Peer(Side[t])] /\ ~SendWaits(t) =>
        \E u \in Thread : Side[u] # Side[t] /\ pc[u] \in {"received", "wake_reader", "wake_writer"}

PollersStillWoken ==
    \A t \in pollers : EndPoll(Side[t]) =>
        \E u \in Thread : pc[u] \in {"sent", "notify", "wake_reader", "wake_writer", "wake_pollers"}

WakesToCome == ReadersWoken /\ WritersStillWoken /\ PollersStillWoken

Inv == TypeOK /\ Streams /\ Closes /\ Counted /\ Held /\ Sleepers /\ WakesToCome

-----------------------------------------------------------------------------
(* The stream of a direction. *)

\* What the messages of a queue are.
LEMMA Messages ==
    ASSUME NEW q \in Seq(Message)
    PROVE  /\ Len(q) \in Nat /\ (q = <<>> <=> Len(q) = 0)
           /\ \A k \in 1..Len(q) : q[k].first \in Nat /\ q[k].len \in Nat /\ q[k].pos \in Nat
<1>1. Len(q) \in Nat /\ (q = <<>> <=> Len(q) = 0) /\ \A k \in 1..Len(q) : q[k] \in Message
  OBVIOUS
<1> QED
  BY <1>1 DEF Message

\* A message of which more is read.
LEMMA MoreRead ==
    ASSUME NEW m \in Message, NEW p \in Nat
    PROVE  LET r == [m EXCEPT !.pos = p]
           IN  r \in Message /\ r.first = m.first /\ r.len = m.len /\ r.pos = p
BY DEF Message

\* pipe_send puts its message behind the others.
LEMMA StreamSend ==
    ASSUME NEW q \in Seq(Message), NEW room \in Nat, NEW to \in Nat, NEW from \in Nat, NEW n \in Nat,
           Stream(q, room, to, from), room = 0 \/ room + n <= Capacity
    PROVE  Stream(Append(q, [first |-> to, len |-> n, pos |-> 0]), room + n, to + n, from)
<1> DEFINE m == [first |-> to, len |-> n, pos |-> 0]
           r == Append(q, m)
<1>0. Capacity \in Nat
  BY PipeAssumption
<1>1. /\ Len(q) \in Nat /\ (q = <<>> <=> Len(q) = 0)
      /\ \A k \in 1..Len(q) : q[k].first \in Nat /\ q[k].len \in Nat /\ q[k].pos \in Nat
  BY Messages
<1>2. /\ r # <<>> /\ Len(r) = Len(q) + 1 /\ r[Len(q) + 1] = m
      /\ \A k \in 1..Len(q) : r[k] = q[k]
  OBVIOUS
<1>3. m.first = to /\ m.len = n /\ m.pos = 0
  OBVIOUS
<1> HIDE DEF m, r
<1>4. \A k \in 1..Len(r) : k \in 1..Len(q) \/ k = Len(q) + 1
  BY <1>1, <1>2
<1>5. Within(r, to + n)
  <2> SUFFICES ASSUME NEW k \in 1..Len(r)
               PROVE  r[k].pos <= r[k].len /\ (k > 1 => r[k].pos = 0) /\ r[k].first + r[k].len <= to + n
    BY DEF Within
  <2>1. CASE k = Len(q) + 1
    BY <1>2, <1>3, <2>1
  <2>2. CASE k \in 1..Len(q)
    <3>1. /\ r[k] = q[k] /\ q[k].first \in Nat /\ q[k].len \in Nat
          /\ q[k].pos <= q[k].len /\ (k > 1 => q[k].pos = 0) /\ q[k].first + q[k].len <= to
      BY <1>1, <1>2, <2>2 DEF Stream, Within
    <3> QED
      BY <3>1
  <2> QED
    BY <1>4, <2>1, <2>2
<1>6. Chained(r, to + n)
  <2> SUFFICES ASSUME NEW k \in 1..Len(r)
               PROVE  r[k].first + r[k].len = IF k = Len(r) THEN to + n ELSE r[k + 1].first
    BY DEF Chained
  <2>1. CASE k = Len(q) + 1
    BY <1>2, <1>3, <2>1
  <2>2. CASE k \in 1..Len(q)
    <3>1. /\ r[k] = q[k] /\ k # Len(r)
          /\ q[k].first + q[k].len = IF k = Len(q) THEN to ELSE q[k + 1].first
      BY <1>1, <1>2, <2>2 DEF Stream, Chained
    <3>2. IF k = Len(q) THEN r[k + 1] = m ELSE r[k + 1] = q[k + 1]
      BY <1>1, <1>2, <2>2
    <3> QED
      BY <1>3, <3>1, <3>2
  <2> QED
    BY <1>4, <2>1, <2>2
<1>7. Ordered(r)
  <2> SUFFICES ASSUME NEW j \in 1..Len(r), NEW k \in 1..Len(r), j < k
               PROVE  r[j].first + r[j].len <= r[k].first
    BY DEF Ordered
  <2>1. CASE k = Len(q) + 1
    <3>1. j \in 1..Len(q) /\ r[k] = m
      BY <1>1, <1>2, <1>4, <2>1
    <3>2. r[j] = q[j] /\ q[j].first + q[j].len <= to
      BY <1>2, <3>1 DEF Stream, Within
    <3> QED
      BY <1>3, <3>1, <3>2
  <2>2. CASE k \in 1..Len(q)
    <3>1. j \in 1..Len(q)
      BY <1>1, <1>2, <2>2
    <3> QED
      BY <1>2, <2>2, <3>1 DEF Stream, Ordered
  <2> QED
    BY <1>4, <2>1, <2>2
<1>8. room + n + r[1].first = to + n /\ from = r[1].first + r[1].pos
  <2>1. CASE Len(q) = 0
    BY <1>1, <1>2, <1>3, <2>1 DEF Stream
  <2>2. CASE Len(q) # 0
    <3>1. r[1] = q[1] /\ q[1].first \in Nat
      BY <1>1, <1>2, <2>2
    <3>2. room + q[1].first = to /\ from = q[1].first + q[1].pos
      BY <1>1, <2>2 DEF Stream
    <3> QED
      BY <3>1, <3>2
  <2> QED
    BY <2>1, <2>2
<1>9. Room(r, room + n)
  BY <1>0, <1>1, <1>2, <1>3 DEF Room
<1>10. Stream(r, room + n, to + n, from)
  BY <1>2, <1>5, <1>6, <1>7, <1>8, <1>9 DEF Stream
<1> QED
  BY <1>10 DEF r, m

\* A read leaves the rest of a message ...
LEMMA StreamRead ==
    ASSUME NEW q \in Seq(Message), NEW room \in Nat, NEW to \in Nat, NEW from \in Nat, NEW n \in Nat,
           Stream(q, room, to, from), q # <<>>, q[1].pos + n <= q[1].len
    PROVE  /\ [q EXCEPT ![1] = [q[1] EXCEPT !.pos = q[1].pos + n]] \in Seq(Message)
           /\ Stream([q EXCEPT ![1] = [q[1] EXCEPT !.pos = q[1].pos + n]], room, to, q[1].first + q[1].pos + n)
<1> DEFINE r == [q EXCEPT ![1] = [q[1] EXCEPT !.pos = q[1].pos + n]]
<1>1. /\ Len(q) \in Nat /\ Len(q) # 0
      /\ \A k \in 1..Len(q) : q[k].first \in Nat /\ q[k].len \in Nat /\ q[k].pos \in Nat
  BY Messages
<1>2. q[1] \in Message /\ 1 \in DOMAIN q
  BY <1>1
<1> DEFINE rest == [q[1] EXCEPT !.pos = q[1].pos + n]
<1>3. rest \in Message /\ rest.first = q[1].first /\ rest.len = q[1].len /\ rest.pos = q[1].pos + n
  <2>1. q[1].pos + n \in Nat
    BY <1>1
  <2> QED
    BY <1>2, <2>1, MoreRead
<1>4. r = [q EXCEPT ![1] = rest]
  OBVIOUS
<1> HIDE DEF rest, r
<1>5. r \in Seq(Message) /\ Len(r) = Len(q)
  BY <1>1, <1>2, <1>3, <1>4
<1>6. /\ r # <<>> /\ r[1] = rest
      /\ \A k \in 1..Len(q) : k # 1 => r[k] = q[k]
      /\ \A k \in 1..Len(q) : r[k].first = q[k].first /\ r[k].len = q[k].len /\ (k > 1 => r[k].pos = q[k].pos)
  <2>1. \A k \in 1..Len(q) : r[k] = IF k = 1 THEN rest ELSE q[k]
    BY <1>2, <1>4
  <2>2. r # <<>>
    BY <1>1, <1>5, Messages
  <2> QED
    BY <1>1, <1>3, <2>1, <2>2
<1>7. Within(r, to)
  <2> SUFFICES ASSUME NEW k \in 1..Len(q)
               PROVE  r[k].pos <= r[k].len /\ (k > 1 => r[k].pos = 0) /\ r[k].first + r[k].len <= to
    BY <1>5 DEF Within
  <2>1. q[k].pos <= q[k].len /\ (k > 1 => q[k].pos = 0) /\ q[k].first + q[k].len <= to
    BY DEF Stream, Within
  <2> QED
    BY <1>3, <1>6, <2>1
<1>8. Chained(r, to)
  <2> SUFFICES ASSUME NEW k \in 1..Len(q)
               PROVE  r[k].first + r[k].len = IF k = Len(q) THEN to ELSE r[k + 1].first
    BY <1>5 DEF Chained
  <2>1. q[k].first + q[k].len = IF k = Len(q) THEN to ELSE q[k + 1].first
    BY DEF Stream, Chained
  <2>2. k # Len(q) => k + 1 \in 1..Len(q)
    BY <1>1
  <2> QED
    BY <1>6, <2>1, <2>2
<1>9. Ordered(r)
  BY <1>5, <1>6 DEF Stream, Ordered
<1>10. Room(r, room)
  BY <1>5, <1>6 DEF Stream, Room
<1>11. Stream(r, room, to, q[1].first + q[1].pos + n)
  BY <1>1, <1>3, <1>6, <1>7, <1>8, <1>9, <1>10 DEF Stream
<1> QED
  BY <1>5, <1>11 DEF r

\* ... or takes it off the queue.
LEMMA StreamTaken ==
    ASSUME NEW q \in Seq(Message), NEW room \in Nat, NEW to \in Nat, NEW from \in Nat,
           Stream(q, room, to, from), q # <<>>
    PROVE  /\ room - q[1].len \in Nat
           /\ Stream(Tail(q), room - q[1].len, to, q[1].first + q[1].len)
<1> DEFINE r == Tail(q)
           rest == room - q[1].len
<1>0. Capacity \in Nat
  BY PipeAssumption
<1>1. /\ Len(q) \in Nat /\ Len(q) # 0
      /\ \A k \in 1..Len(q) : q[k].first \in Nat /\ q[k].len \in Nat /\ q[k].pos \in Nat
  BY Messages
<1>2. /\ Len(r) = Len(q) - 1 /\ (r = <<>> <=> Len(r) = 0)
      /\ \A k \in 1..Len(r) : r[k] = q[k + 1]
  <2>1. r \in Seq(Message) /\ Len(r) = Len(q) - 1
    BY <1>1
  <2>2. \A k \in 1..Len(r) : r[k] = q[k + 1]
    BY <1>1, <2>1
  <2> QED
    BY <2>1, <2>2, Messages, ZenonT(60)
<1> HIDE DEF r
<1>3. /\ \A k \in 1..Len(r) : k + 1 \in 1..Len(q)
      /\ Len(r) # 0 => 1 \in 1..Len(r)
  BY <1>1, <1>2
<1>4. room + q[1].first = to /\ q[1].first + q[1].len <= to
  BY <1>1 DEF Stream, Within
<1>5. rest \in Nat /\ rest + q[1].len = room
  BY <1>1, <1>4
<1> HIDE DEF rest
<1>6. Within(r, to)
  <2> SUFFICES ASSUME NEW k \in 1..Len(r)
               PROVE  r[k].pos <= r[k].len /\ (k > 1 => r[k].pos = 0) /\ r[k].first + r[k].len <= to
    BY DEF Within
  <2>1. k + 1 \in 1..Len(q) /\ k + 1 > 1 /\ r[k] = q[k + 1]
    BY <1>2, <1>3
  <2>2. q[k + 1].pos <= q[k + 1].len /\ q[k + 1].pos = 0 /\ q[k + 1].first + q[k + 1].len <= to
    BY <2>1 DEF Stream, Within
  <2> QED
    BY <2>1, <2>2
<1>7. Chained(r, to)
  <2> SUFFICES ASSUME NEW k \in 1..Len(r)
               PROVE  r[k].first + r[k].len = IF k = Len(r) THEN to ELSE r[k + 1].first
    BY DEF Chained
  <2>1. q[k + 1].first + q[k + 1].len = IF k + 1 = Len(q) THEN to ELSE q[k + 2].first
    BY <1>1, <1>3 DEF Stream, Chained
  <2>2. r[k] = q[k + 1] /\ (k = Len(r) <=> k + 1 = Len(q))
    BY <1>1, <1>2
  <2>3. k # Len(r) => r[k + 1] = q[k + 2]
    <3>1. k # Len(r) => k + 1 \in 1..Len(r) /\ (k + 1) + 1 = k + 2
      BY <1>1, <1>2
    <3> QED
      BY <1>2, <3>1
  <2> QED
    BY <2>1, <2>2, <2>3
<1>8. Ordered(r)
  <2> SUFFICES ASSUME NEW j \in 1..Len(r), NEW k \in 1..Len(r), j < k
               PROVE  r[j].first + r[j].len <= r[k].first
    BY DEF Ordered
  <2>1. j + 1 < k + 1 /\ r[j] = q[j + 1] /\ r[k] = q[k + 1]
    BY <1>2
  <2> QED
    BY <1>3, <2>1 DEF Stream, Ordered
<1>9. q[1].first + q[1].len = IF Len(q) = 1 THEN to ELSE q[2].first
  <2>1. 1 \in 1..Len(q)
    BY <1>1
  <2>2. q[1].first + q[1].len = IF 1 = Len(q) THEN to ELSE q[1 + 1].first
    BY <2>1, ZenonT(60) DEF Stream, Chained
  <2> QED
    BY <2>2
<1>10. r = <<>> => rest = 0 /\ q[1].first + q[1].len = to
  <2> SUFFICES ASSUME r = <<>>
               PROVE  rest = 0 /\ q[1].first + q[1].len = to
    OBVIOUS
  <2>1. Len(q) = 1 /\ q[1].first \in Nat /\ q[1].len \in Nat
    BY <1>1, <1>2
  <2> QED
    BY <1>4, <1>5, <1>9, <2>1
<1>11. r # <<>> => rest + r[1].first = to /\ q[1].first + q[1].len = r[1].first + r[1].pos
  <2> SUFFICES ASSUME r # <<>>
               PROVE  rest + r[1].first = to /\ q[1].first + q[1].len = r[1].first + r[1].pos
    OBVIOUS
  <2>1. r[1] = q[2] /\ q[1].first + q[1].len = q[2].first
    BY <1>1, <1>2, <1>3, <1>9
  <2>2. q[2].pos = 0 /\ q[2].first \in Nat
    BY <1>1, <1>2, <1>3 DEF Stream, Within
  <2>3. q[1].first \in Nat /\ q[1].len \in Nat
    BY <1>1
  <2>4. rest + (q[1].first + q[1].len) = to
    BY <1>4, <1>5, <2>3
  <2> QED
    BY <2>1, <2>2, <2>4
<1>12. Room(r, rest)
  <2> SUFFICES ASSUME rest > Capacity
               PROVE  \E k \in 1..Len(r) : r[k].len = rest
    BY DEF Room
  <2>0. q[1].first \in Nat /\ q[1].len \in Nat
    BY <1>1
  <2>1. PICK k \in 1..Len(q) : q[k].len = room
    <3>1. room > Capacity
      BY <1>0, <1>5, <2>0
    <3> QED
      BY <3>1 DEF Stream, Room
  <2>2. k # 1
    BY <1>0, <1>5, <2>0, <2>1
  <2>3. q[1].first + q[1].len <= q[k].first /\ q[k].first + q[k].len <= to /\ q[k].first \in Nat
    BY <1>1, <2>2 DEF Stream, Ordered, Within
  <2>4. q[k].first + room <= to /\ room + q[1].first = to
    BY <1>4, <2>1, <2>3
  <2>5. q[k].first <= q[1].first
    BY <2>0, <2>3, <2>4
  <2>6. q[1].len = 0
    BY <2>0, <2>3, <2>5
  <2>7. rest = room /\ k - 1 \in 1..Len(r) /\ r[k - 1] = q[k]
    BY <1>1, <1>2, <1>5, <2>2, <2>6
  <2> QED
    BY <2>1, <2>7
<1>13. Stream(r, rest, to, q[1].first + q[1].len)
  BY <1>6, <1>7, <1>8, <1>10, <1>11, <1>12 DEF Stream
<1> QED
  BY <1>5, <1>13 DEF r, rest

-----------------------------------------------------------------------------
(* Every step keeps the invariant. *)

Step(t) == Start(t) \/ Run(t) \/ VnodeUnref(t) \/ TimeOut(t)

\* What each variable is a function of.
LEMMA Shape ==
    ASSUME TypeOK
    PROVE  /\ DOMAIN queue = Ends /\ DOMAIN bytes = Ends /\ DOMAIN sent = Ends /\ DOMAIN got = Ends
           /\ DOMAIN open = Ends /\ DOMAIN refs = Ends /\ DOMAIN readable = Ends /\ DOMAIN writable = Ends
           /\ DOMAIN pc = Thread /\ DOMAIN len = Thread /\ DOMAIN timed = Thread
           /\ \A i \in Ends : /\ queue[i] \in Seq(Message) /\ bytes[i] \in Nat /\ sent[i] \in Nat
                              /\ got[i] \in Nat /\ refs[i] \in Nat
           /\ \A t \in Thread : len[t] \in Nat
BY DEF TypeOK, Message

\* The ends.
LEMMA Sides ==
    /\ \A t \in Thread : Side[t] \in Ends /\ Peer(Side[t]) \in Ends /\ Peer(Side[t]) # Side[t]
    /\ \A t, u \in Thread : Side[u] # Side[t] <=> Side[u] = Peer(Side[t])
    /\ \A i \in Ends : Peer(i) \in Ends /\ Peer(Peer(i)) = i /\ Peer(i) # i
BY PipeAssumption DEF Ends, Peer

\* The streams of both directions.
LEMMA StreamsStep ==
    ASSUME Inv, NEW t \in Thread, Step(t)
    PROVE  Streams' /\ Flows'
<1>0. Flows
  BY DEF Inv, TypeOK, Flows, Message
<1>1. CASE UNCHANGED <<queue, bytes, sent, got, freed>>
  BY <1>0, <1>1 DEF Inv, Streams, Flows
<1>2. CASE RecvTake(t)
  <2> DEFINE i == Side[t]
             q == queue[i]
             m == Head(q)
             n == IF m.len - m.pos < len[t] THEN m.len - m.pos ELSE len[t]
  <2>1. /\ i \in Ends /\ q \in Seq(Message) /\ bytes[i] \in Nat /\ sent[i] \in Nat /\ got[i] \in Nat /\ len[t] \in Nat
        /\ q # <<>> /\ m = q[1]
    <3>1. TypeOK /\ i \in Ends
      BY Sides DEF Inv
    <3>2. q # <<>>
      BY <1>2 DEF RecvTake
    <3> QED
      BY <3>1, <3>2, Shape
  <2>2. ~freed
    BY <2>1 DEF Inv, Streams
  <2>3. Stream(q, bytes[i], sent[i], got[i])
    BY <2>1, <2>2 DEF Inv, Streams
  <2>4. /\ queue' = [queue EXCEPT ![i] = IF m.pos + n = m.len THEN Tail(q) ELSE [q EXCEPT ![1] = [m EXCEPT !.pos = m.pos + n]]]
        /\ bytes' = [bytes EXCEPT ![i] = IF m.pos + n = m.len THEN bytes[i] - m.len ELSE bytes[i]]
        /\ got' = [got EXCEPT ![i] = m.first + m.pos + n]
        /\ UNCHANGED <<sent, freed>>
    <3>1. Take(i, n) /\ got' = [got EXCEPT ![i] = m.first + m.pos + n] /\ UNCHANGED <<sent, freed>>
      BY <1>2 DEF RecvTake
    <3>2. queue' = [queue EXCEPT ![i] = IF m.pos + n = m.len THEN Tail(q) ELSE [q EXCEPT ![1] = [m EXCEPT !.pos = m.pos + n]]]
      BY <3>1, Zenon DEF Take
    <3>3. bytes' = [bytes EXCEPT ![i] = IF m.pos + n = m.len THEN bytes[i] - m.len ELSE bytes[i]]
      BY <3>1, Zenon DEF Take
    <3> QED
      BY <3>1, <3>2, <3>3
  <2>5. \A j \in Ends : j # i => queue'[j] = queue[j] /\ bytes'[j] = bytes[j] /\ sent'[j] = sent[j] /\ got'[j] = got[j]
    BY <2>4, Shape DEF Inv
  <2>6. m.pos \in Nat /\ m.len \in Nat /\ m.first \in Nat /\ m.pos <= m.len
    <3>1. Len(q) \in Nat /\ Len(q) # 0
      BY <2>1, Messages
    <3>2. 1 \in 1..Len(q)
      BY <3>1
    <3> QED
      BY <2>1, <2>3, <3>2, Messages, ZenonT(60) DEF Stream, Within
  <2> HIDE DEF m
  <2>7. n \in Nat /\ m.pos + n <= m.len
    BY <2>1, <2>6
  <2> HIDE DEF n
  <2>8. /\ Stream(queue'[i], bytes'[i], sent'[i], got'[i])
        /\ queue'[i] \in Seq(Message) /\ bytes'[i] \in Nat /\ got'[i] \in Nat
    <3>1. CASE m.pos + n = m.len
      <4>1. m.first + m.pos + n = m.first + m.len
        BY <2>6, <2>7, <3>1
      <4>2. /\ queue'[i] = Tail(q) /\ bytes'[i] = bytes[i] - m.len /\ sent'[i] = sent[i]
            /\ got'[i] = m.first + m.len
        BY <2>1, <2>4, <3>1, <4>1, Shape DEF Inv
      <4>3. Tail(q) \in Seq(Message)
        BY <2>1
      <4> QED
        <5>1. bytes[i] - m.len \in Nat /\ Stream(Tail(q), bytes[i] - m.len, sent[i], m.first + m.len)
          BY <2>1, <2>3, StreamTaken
        <5>2. m.first + m.len \in Nat
          BY <2>6
        <5> QED
          BY <4>2, <4>3, <5>1, <5>2
    <3>2. CASE m.pos + n # m.len
      <4>1. /\ queue'[i] = [q EXCEPT ![1] = [m EXCEPT !.pos = m.pos + n]] /\ bytes'[i] = bytes[i]
            /\ sent'[i] = sent[i] /\ got'[i] = m.first + m.pos + n
        BY <2>1, <2>4, <3>2, Shape, ZenonT(60) DEF Inv
      <4>2. /\ [q EXCEPT ![1] = [q[1] EXCEPT !.pos = q[1].pos + n]] \in Seq(Message)
            /\ Stream([q EXCEPT ![1] = [q[1] EXCEPT !.pos = q[1].pos + n]], bytes[i], sent[i], q[1].first + q[1].pos + n)
        BY <2>1, <2>3, <2>7, StreamRead
      <4> QED
        <5>1. m.first + m.pos + n \in Nat
          BY <2>6, <2>7
        <5> QED
          BY <2>1, <4>1, <4>2, <5>1
    <3> QED
      BY <3>1, <3>2
  <2>9. Flows'
    BY <1>0, <2>1, <2>4, <2>5, <2>8, ZenonT(60) DEF Flows
  <2> QED
    BY <2>2, <2>4, <2>5, <2>8, <2>9, ZenonT(60) DEF Inv, Streams
<1>3. CASE SendQueue(t)
  <2> DEFINE i == Peer(Side[t])
             q == queue[i]
  <2>1. /\ i \in Ends /\ q \in Seq(Message) /\ bytes[i] \in Nat /\ sent[i] \in Nat /\ got[i] \in Nat /\ len[t] \in Nat
        /\ open[i] /\ ~SendWaits(t)
    BY <1>3, Shape, Sides, ZenonT(60) DEF Inv, SendQueue
  <2>2. ~freed
    BY <2>1 DEF Inv, Closes
  <2>3. Stream(q, bytes[i], sent[i], got[i])
    BY <2>1, <2>2 DEF Inv, Streams
  <2>4. bytes[i] = 0 \/ bytes[i] + len[t] <= Capacity
    BY <2>1, PipeAssumption DEF SendWaits
  <2>5. /\ queue' = [queue EXCEPT ![i] = Append(q, [first |-> sent[i], len |-> len[t], pos |-> 0])]
        /\ bytes' = [bytes EXCEPT ![i] = bytes[i] + len[t]]
        /\ sent' = [sent EXCEPT ![i] = sent[i] + len[t]]
        /\ UNCHANGED <<got, freed>>
    BY <1>3 DEF SendQueue
  <2>6. /\ queue'[i] = Append(q, [first |-> sent[i], len |-> len[t], pos |-> 0])
        /\ bytes'[i] = bytes[i] + len[t] /\ sent'[i] = sent[i] + len[t] /\ got'[i] = got[i]
    BY <2>1, <2>5, Shape DEF Inv
  <2>7. Stream(queue'[i], bytes'[i], sent'[i], got'[i])
    BY <2>1, <2>3, <2>4, <2>6, StreamSend
  <2>8. \A j \in Ends : j # i => queue'[j] = queue[j] /\ bytes'[j] = bytes[j] /\ sent'[j] = sent[j] /\ got'[j] = got[j]
    BY <2>5, Shape DEF Inv
  <2>9. Flows'
    <3>1. Append(q, [first |-> sent[i], len |-> len[t], pos |-> 0]) \in Seq(Message)
      BY <2>1 DEF Message
    <3> QED
      BY <1>0, <2>1, <2>5, <2>6, <2>8, <3>1 DEF Flows
  <2> QED
    BY <2>2, <2>5, <2>7, <2>8, <2>9 DEF Inv, Streams
<1>4. CASE ReleaseFree(t)
  BY <1>0, <1>4 DEF ReleaseFree, Streams, Flows, count
<1> QED
  BY <1>1, <1>2, <1>3, <1>4 DEF Step, Start, Call, Run, RecvSleep, RecvEof, RecvWake, SendSleep, SendEpipe,
     SendWake, SendNotify, PollSleep, PollReady, EndRelease, ReleaseWakeReader, ReleaseWakeWriter,
     ReleaseNotify, VnodeUnref, TimeOut, Return, pipe, waits, calls, count

\* Nobody is left in a call at a closed end.
LEMMA ClosedEnds ==
    ASSUME Held, NEW i \in Ends, refs[i] = 0
    PROVE  \A t \in Thread : Side[t] = i => pc[t] \notin Holding
BY DEF Held

\* Ends are closed in order.
LEMMA ClosesStep ==
    ASSUME Inv, NEW t \in Thread, Step(t)
    PROVE  Closes'
<1>0. TypeOK /\ Held /\ Closes
  BY DEF Inv
<1>1. CASE /\ UNCHANGED <<refs, open, last, freed>>
           /\ pc' = pc \/ \E l : pc' = [pc EXCEPT ![t] = l] /\ l \notin {"close", "free"}
  BY <1>0, <1>1, Shape DEF Closes
<1>2. CASE VnodeUnref(t)
  <2> DEFINE i == Side[t]
  <2>1. /\ i \in Ends /\ pc[t] = "ready" /\ refs[i] \in Nat
        /\ refs' = [refs EXCEPT ![i] = refs[i] - 1]
        /\ pc' = [pc EXCEPT ![t] = IF refs[i] = 1 THEN "close" ELSE "gone"]
        /\ UNCHANGED <<open, last, freed>>
    BY <1>0, <1>2, Shape, Sides DEF VnodeUnref
  <2>2. refs[i] # 0
    BY <1>0, <2>1, ClosedEnds DEF Holding
  <2>3. /\ \A j \in Ends : refs'[j] = IF j = i THEN refs[j] - 1 ELSE refs[j]
        /\ \A u \in Thread : pc'[u] = IF u # t THEN pc[u] ELSE IF refs[i] = 1 THEN "close" ELSE "gone"
    BY <1>0, <2>1, Shape
  <2>4. open[i] /\ \A u \in Thread : pc[u] = "close" => Side[u] # i
    BY <1>0, <2>1, <2>2 DEF Closes
  <2> QED
    BY <1>0, <2>1, <2>2, <2>3, <2>4, Sides DEF Closes
<1>3. CASE EndRelease(t)
  <2> DEFINE i == Side[t]
  <2>1. /\ i \in Ends /\ pc[t] = "close"
        /\ open' = [open EXCEPT ![i] = FALSE]
        /\ pc' = [pc EXCEPT ![t] = "wake_reader"]
        /\ last' = IF open[Peer(i)] THEN last ELSE {t}
        /\ UNCHANGED <<refs, freed>>
    BY <1>3, Sides DEF EndRelease
  <2>2. /\ \A j \in Ends : open'[j] = IF j = i THEN FALSE ELSE open[j]
        /\ \A u \in Thread : pc'[u] = IF u # t THEN pc[u] ELSE "wake_reader"
    BY <1>0, <2>1, Shape
  <2>3. refs[i] = 0 /\ open[i] /\ \A u \in Thread : pc[u] = "close" /\ Side[u] = i => u = t
    BY <1>0, <2>1 DEF Closes
  <2>4. last = {} /\ ~freed /\ \A u \in Thread : pc[u] # "free"
    BY <1>0, <2>1, <2>3 DEF Closes
  <2>5. last' # {} \/ freed' => \A j \in Ends : ~open'[j]
    <3>1. \A j \in Ends : j = i \/ j = Peer(i)
      BY <2>1 DEF Ends, Peer
    <3>2. last' # {} => ~open[Peer(i)]
      BY <2>1, <2>4
    <3> QED
      BY <2>1, <2>2, <2>4, <3>1, <3>2, ZenonT(60)
  <2>6. \A j \in Ends : ~open'[j] => refs'[j] = 0
    BY <1>0, <2>1, <2>2, <2>3 DEF Closes
  <2>7. \A u \in Thread : pc'[u] = "close" =>
          /\ refs'[Side[u]] = 0 /\ open'[Side[u]]
          /\ \A v \in Thread : pc'[v] = "close" /\ Side[v] = Side[u] => v = u
    BY <1>0, <2>1, <2>2, <2>3, Sides DEF Closes
  <2> QED
    BY <2>2, <2>4, <2>5, <2>6, <2>7 DEF Closes
<1>4. CASE ReleaseNotify(t) \/ ReleaseFree(t)
  BY <1>0, <1>4, Shape DEF Closes, ReleaseNotify, ReleaseFree, pipe
<1>5. CASE Start(t) \/ TimeOut(t)
  <2>1. /\ UNCHANGED <<refs, open, last, freed>>
        /\ \E l \in {"ready", "send", "recv", "poll"} : pc' = [pc EXCEPT ![t] = l]
    BY <1>5 DEF Start, Call, TimeOut, Return, pipe
  <2> QED
    BY <1>1, <2>1, ZenonT(60)
<1>6. CASE Run(t) /\ ~EndRelease(t) /\ ~ReleaseNotify(t) /\ ~ReleaseFree(t)
  <2>1. /\ UNCHANGED <<refs, open, last, freed>>
        /\ pc' = pc \/ \E l \in {"ready", "received", "sent", "notify", "wake_writer", "wake_pollers"} :
                          pc' = [pc EXCEPT ![t] = l]
    BY <1>6, ZenonT(60) DEF Run, RecvSleep, RecvEof, RecvTake, RecvWake, SendSleep, SendEpipe,
       SendQueue, SendWake, SendNotify, PollSleep, PollReady, ReleaseWakeReader, ReleaseWakeWriter,
       Return, pipe, calls
  <2> QED
    BY <1>1, <2>1
<1> QED
  BY <1>2, <1>3, <1>4, <1>5, <1>6 DEF Step

\* Who is awake may do anything but a send with a deadline.
LEMMA SleepersKept ==
    ASSUME TypeOK, Sleepers, NEW t \in Thread, ~Asleep(t),
           \A i \in Ends : readable'[i] \subseteq readable[i] /\ writable'[i] \subseteq writable[i],
           pollers' \subseteq pollers,
           \A u \in Thread : u # t => pc'[u] = pc[u] /\ timed'[u] = timed[u],
           pc'[t] = "send" => ~timed'[t]
    PROVE  Sleepers'
<1>1. \A i \in Ends, u \in Thread : u \in readable'[i] \/ u \in writable'[i] => u # t /\ pc'[u] = pc[u]
  BY DEF Asleep
<1>2. \A u \in pollers' : u # t /\ u \in Thread /\ pc'[u] = pc[u]
  BY DEF Asleep, TypeOK
<1>3. \A u \in Thread : pc'[u] = "send" => ~timed'[u]
  BY DEF Sleepers
<1>4. \A i \in Ends, u \in Thread :
         /\ u \in readable'[i] => Side[u] = i /\ pc'[u] = "recv"
         /\ u \in writable'[i] => Side[u] = Peer(i) /\ pc'[u] = "send"
  BY <1>1 DEF Sleepers
<1>5. \A u \in pollers' : pc'[u] = "poll"
  BY <1>2 DEF Sleepers
<1> QED
  BY <1>3, <1>4, <1>5 DEF Sleepers

\* Sleepers stay where they are until they are woken.
LEMMA SleepersStep ==
    ASSUME Inv, NEW t \in Thread, Step(t)
    PROVE  Sleepers'
<1>0. TypeOK /\ Sleepers
  BY DEF Inv
<1>1. CASE TimeOut(t)
  BY <1>0, <1>1, Shape DEF TimeOut, Return, Sleepers, Asleep
<1>2. CASE RecvSleep(t)
  BY <1>0, <1>2, Shape, Sides, ZenonT(60) DEF RecvSleep, Sleepers, calls
<1>3. CASE SendSleep(t)
  <2>1. \A i \in Ends : writable'[i] = IF i = Peer(Side[t]) THEN writable[i] \cup {t} ELSE writable[i]
    BY <1>0, <1>3, Shape, ZenonT(60) DEF SendSleep
  <2>2. Side[t] = Peer(Peer(Side[t]))
    BY Sides
  <2> QED
    BY <1>0, <1>3, <2>1, <2>2 DEF SendSleep, Sleepers, calls
<1>4. CASE PollSleep(t)
  BY <1>0, <1>4, Shape, Sides, ZenonT(60) DEF PollSleep, Sleepers, calls
<1>5. CASE Start(t) \/ RecvEof(t) \/ RecvTake(t) \/ SendEpipe(t) \/ SendQueue(t) \/ PollReady(t)
  <2>1. /\ ~Asleep(t)
        /\ UNCHANGED waits
        /\ \E l, d : pc' = [pc EXCEPT ![t] = l] /\ timed' = [timed EXCEPT ![t] = d] /\ (l = "send" => ~d)
    BY <1>0, <1>5, ZenonT(60) DEF Start, Call, RecvEof, RecvTake, SendEpipe, SendQueue, PollReady, Return, Sleepers, Asleep
  <2> QED
    BY <1>0, <2>1, Shape, SleepersKept DEF waits
<1>6. CASE \/ RecvWake(t) \/ SendWake(t) \/ SendNotify(t) \/ VnodeUnref(t) \/ EndRelease(t)
           \/ ReleaseWakeReader(t) \/ ReleaseWakeWriter(t) \/ ReleaseNotify(t) \/ ReleaseFree(t)
  <2>1. /\ pc[t] \notin Calling /\ UNCHANGED timed
        /\ \E l : pc' = [pc EXCEPT ![t] = l] /\ l # "send"
    BY <1>6, ZenonT(60) DEF RecvWake, SendWake, SendNotify, VnodeUnref, EndRelease, ReleaseWakeReader, ReleaseWakeWriter,
       ReleaseNotify, ReleaseFree, Calling
  <2>2. /\ readable' = readable \/ \E i : readable' = [readable EXCEPT ![i] = {}]
        /\ writable' = writable \/ \E i : writable' = [writable EXCEPT ![i] = {}]
        /\ pollers' = pollers \/ pollers' = {}
    BY <1>6, ZenonT(60) DEF RecvWake, SendWake, SendNotify, VnodeUnref, EndRelease, ReleaseWakeReader, ReleaseWakeWriter,
       ReleaseNotify, ReleaseFree, PollNotify, waits
  <2>3. ~Asleep(t)
    BY <1>0, <2>1 DEF Sleepers, Asleep, Calling
  <2>4. \A i \in Ends : readable'[i] \subseteq readable[i] /\ writable'[i] \subseteq writable[i]
    BY <1>0, <2>2, Shape, ZenonT(60)
  <2> QED
    BY <1>0, <2>1, <2>2, <2>3, <2>4, Shape, SleepersKept, ZenonT(60)
<1> QED
  BY <1>1, <1>2, <1>3, <1>4, <1>5, <1>6 DEF Step, Run

\* A step that brings no message and closes nothing needs to wake no reader.
LEMMA ReadersKept ==
    ASSUME ReadersWoken, NEW t \in Thread, pc[t] \notin {"sent", "wake_reader"},
           \A i \in Ends : readable'[i] \subseteq readable[i] /\ (queue[i] = <<>> => queue'[i] = <<>>),
           \A u \in Thread : u # t => pc'[u] = pc[u], open' = open
    PROVE  ReadersWoken'
<1> SUFFICES ASSUME NEW v \in Thread, v \in readable'[Side[v]], ~RecvWaits(v)'
             PROVE  \E u \in Thread : Side[u] # Side[v] /\ pc'[u] \in {"sent", "wake_reader"}
  BY DEF ReadersWoken
<1>1. v \in readable[Side[v]] /\ ~RecvWaits(v)
  BY Sides DEF RecvWaits
<1> QED
  BY <1>1 DEF ReadersWoken

\* The readers are woken after a send and after a close.
LEMMA ReadersStep ==
    ASSUME Inv, NEW t \in Thread, Step(t)
    PROVE  ReadersWoken'
<1>0. TypeOK /\ ReadersWoken
  BY DEF Inv, WakesToCome
<1>1. CASE RecvSleep(t)
  <2>1. RecvWaits(t) /\ UNCHANGED <<pc, queue, open>>
    BY <1>1 DEF RecvSleep, pipe, calls
  <2>2. \A i \in Ends : readable'[i] \subseteq readable[i] \cup {t}
    BY <1>0, <1>1, Shape, ZenonT(60) DEF RecvSleep
  <2> QED
    BY <1>0, <2>1, <2>2, Sides DEF ReadersWoken, RecvWaits
<1>2. CASE SendQueue(t) \/ EndRelease(t)
  <2> DEFINE i == Peer(Side[t])
  <2>1. /\ UNCHANGED readable
        /\ \E l \in {"sent", "wake_reader"} : pc' = [pc EXCEPT ![t] = l]
        /\ pc[t] \notin {"sent", "wake_reader"}
        /\ \A j \in Ends : j # i => queue'[j] = queue[j] /\ open'[Peer(j)] = open[Peer(j)]
    <3>1. \A j \in Ends : j # i => Peer(j) \in Ends /\ Peer(j) # Side[t]
      BY Sides DEF Ends, Peer
    <3>2. CASE SendQueue(t)
      BY <1>0, <3>1, <3>2, Shape DEF SendQueue, Return, waits
    <3>3. CASE EndRelease(t)
      BY <1>0, <3>1, <3>3, Shape, ZenonT(60) DEF EndRelease, waits
    <3> QED
      BY <1>2, <3>2, <3>3
  <2> SUFFICES ASSUME NEW v \in Thread, v \in readable'[Side[v]], ~RecvWaits(v)'
               PROVE  \E u \in Thread : Side[u] # Side[v] /\ pc'[u] \in {"sent", "wake_reader"}
    BY DEF ReadersWoken
  <2>2. CASE Side[v] = i
    BY <1>0, <2>1, <2>2, Shape, Sides
  <2>3. CASE Side[v] # i
    <3>1. ~RecvWaits(v)
      BY <2>1, <2>3, Sides DEF RecvWaits
    <3>2. PICK u \in Thread : Side[u] # Side[v] /\ pc[u] \in {"sent", "wake_reader"}
      BY <1>0, <2>1, <3>1 DEF ReadersWoken
    <3>3. u # t /\ pc'[u] = pc[u]
      BY <1>0, <2>1, <3>2, Shape
    <3> QED
      BY <3>2, <3>3
  <2> QED
    BY <2>2, <2>3
<1>3. CASE SendWake(t) \/ ReleaseWakeReader(t)
  <2>1. /\ UNCHANGED <<queue, open>>
        /\ readable' = [readable EXCEPT ![Peer(Side[t])] = {}]
        /\ \E l : pc' = [pc EXCEPT ![t] = l]
    BY <1>3 DEF SendWake, ReleaseWakeReader, pipe
  <2> SUFFICES ASSUME NEW v \in Thread, v \in readable'[Side[v]], ~RecvWaits(v)'
               PROVE  \E u \in Thread : Side[u] # Side[v] /\ pc'[u] \in {"sent", "wake_reader"}
    BY DEF ReadersWoken
  <2>2. Side[v] # Peer(Side[t]) /\ v \in readable[Side[v]] /\ ~RecvWaits(v)
    BY <1>0, <2>1, Shape, Sides DEF RecvWaits
  <2>3. PICK u \in Thread : Side[u] # Side[v] /\ pc[u] \in {"sent", "wake_reader"}
    BY <1>0, <2>2 DEF ReadersWoken
  <2>4. u # t
    BY <2>2, <2>3, Sides
  <2> QED
    BY <1>0, <2>1, <2>3, <2>4, Shape
<1>4. CASE TimeOut(t)
  <2>1. pc[t] \in Calling
    BY <1>4 DEF Inv, Sleepers, TimeOut, Asleep, Calling
  <2>2. /\ open' = open /\ queue' = queue /\ \A u \in Thread : u # t => pc'[u] = pc[u]
        /\ \A i \in Ends : readable'[i] \subseteq readable[i]
    BY <1>0, <1>4, Shape DEF TimeOut, Return, pipe
  <2> QED
    BY <1>0, <2>1, <2>2, ReadersKept DEF Calling
<1>5. CASE RecvTake(t)
  <2>1. /\ pc[t] = "recv" /\ open' = open /\ readable' = readable
        /\ \E l : pc' = [pc EXCEPT ![t] = l]
        /\ queue[Side[t]] # <<>> /\ \E q : queue' = [queue EXCEPT ![Side[t]] = q]
    BY <1>5, ZenonT(60) DEF RecvTake, Take, Return, waits
  <2>2. \A i \in Ends : queue[i] = <<>> => queue'[i] = <<>>
    BY <1>0, <2>1, Shape
  <2> QED
    BY <1>0, <2>1, <2>2, Shape, ReadersKept
<1>6. CASE \/ Start(t) \/ RecvEof(t) \/ RecvWake(t) \/ SendSleep(t) \/ SendEpipe(t) \/ SendNotify(t)
           \/ PollSleep(t) \/ PollReady(t) \/ VnodeUnref(t) \/ ReleaseWakeWriter(t) \/ ReleaseNotify(t)
           \/ ReleaseFree(t)
  <2>1. /\ pc[t] \notin {"sent", "wake_reader"} /\ open' = open /\ readable' = readable
        /\ queue' = queue \/ queue' = [i \in Ends |-> <<>>]
        /\ pc' = pc \/ \E l : pc' = [pc EXCEPT ![t] = l]
    BY <1>6, ZenonT(60) DEF Start, Call, RecvEof, RecvWake, SendSleep, SendEpipe, SendNotify, PollSleep, PollReady, VnodeUnref,
       ReleaseWakeWriter, ReleaseNotify, ReleaseFree, Return, pipe, waits, calls
  <2> QED
    BY <1>0, <2>1, Shape, ReadersKept
<1> QED
  BY <1>1, <1>2, <1>3, <1>4, <1>5, <1>6 DEF Step, Run

\* A step that makes no room and closes nothing needs to wake no writer.
LEMMA WritersKept ==
    ASSUME TypeOK, WritersStillWoken, NEW t \in Thread, pc[t] \notin {"received", "wake_reader", "wake_writer"},
           \A i \in Ends : t \notin writable'[i] /\ writable'[i] \subseteq writable[i],
           \A i \in Ends : bytes'[i] \in Nat /\ bytes'[i] >= bytes[i],
           \A u \in Thread : u # t => pc'[u] = pc[u] /\ len'[u] = len[u], open' = open
    PROVE  WritersStillWoken'
<1> SUFFICES ASSUME NEW v \in Thread, v \in writable'[Peer(Side[v])], ~SendWaits(v)'
             PROVE  \E u \in Thread : Side[u] # Side[v] /\ pc'[u] \in {"received", "wake_reader", "wake_writer"}
  BY DEF WritersStillWoken
<1> DEFINE i == Peer(Side[v])
<1>0. i \in Ends
  BY Sides
<1>1. /\ v # t /\ v \in writable[i] /\ len'[v] = len[v]
      /\ bytes[i] \in Nat /\ bytes'[i] \in Nat /\ bytes'[i] >= bytes[i] /\ len[v] \in Nat /\ Capacity \in Nat
  BY <1>0, Shape, PipeAssumption
<1>2. ~SendWaits(v)
  BY <1>0, <1>1 DEF SendWaits
<1>3. PICK u \in Thread : Side[u] # Side[v] /\ pc[u] \in {"received", "wake_reader", "wake_writer"}
  BY <1>1, <1>2 DEF WritersStillWoken
<1> QED
  BY <1>3, ZenonT(60)

\* A read makes room when it ends a message.
LEMMA RoomMade ==
    ASSUME TypeOK, NEW t \in Thread, RecvTake(t)
    PROVE  /\ UNCHANGED <<open, writable>> /\ pc[t] = "recv" /\ ~Asleep(t) /\ len' = [len EXCEPT ![t] = 0]
           /\ \A j \in Ends : j # Side[t] => bytes'[j] = bytes[j]
           /\ \/ pc' = [pc EXCEPT ![t] = "received"]
              \/ pc' = [pc EXCEPT ![t] = "ready"] /\ bytes'[Side[t]] = bytes[Side[t]]
<1> DEFINE i == Side[t]
           m == Head(queue[i])
           n == IF m.len - m.pos < len[t] THEN m.len - m.pos ELSE len[t]
<1>1. /\ bytes' = [bytes EXCEPT ![i] = IF m.pos + n = m.len THEN bytes[i] - m.len ELSE bytes[i]]
      /\ pc' = [pc EXCEPT ![t] = IF m.pos + n = m.len THEN "received" ELSE "ready"]
  BY Zenon DEF RecvTake, Take, Return
<1>2. UNCHANGED <<open, writable>> /\ pc[t] = "recv" /\ ~Asleep(t) /\ len' = [len EXCEPT ![t] = 0]
  BY ZenonT(60) DEF RecvTake, Return, waits
<1> HIDE DEF m, n
<1> QED
  BY <1>1, <1>2, Shape, Sides, ZenonT(60)

\* The writers are woken after a message is read and after a close.
LEMMA WritersStep ==
    ASSUME Inv, NEW t \in Thread, Step(t)
    PROVE  WritersStillWoken'
<1>0. TypeOK /\ WritersStillWoken /\ Sleepers
  BY DEF Inv, WakesToCome
<1>1. CASE SendSleep(t)
  <2>1. SendWaits(t) /\ UNCHANGED <<pc, bytes, open, len>>
    BY <1>1 DEF SendSleep, pipe, calls
  <2>2. \A i \in Ends : writable'[i] \subseteq writable[i] \cup {t}
    BY <1>0, <1>1, Shape, ZenonT(60) DEF SendSleep
  <2> QED
    BY <1>0, <2>1, <2>2, Sides DEF WritersStillWoken, SendWaits
<1>2. CASE (RecvTake(t) /\ pc'[t] = "received") \/ EndRelease(t)
  <2> DEFINE i == Side[t]
  <2>1. /\ UNCHANGED <<writable>> /\ pc[t] \in {"recv", "close"}
        /\ \E l \in {"received", "wake_reader"} : pc' = [pc EXCEPT ![t] = l]
        /\ len' = len \/ len' = [len EXCEPT ![t] = 0]
        /\ \A j \in Ends : j # i => bytes'[j] = bytes[j] /\ open'[j] = open[j]
    <3>1. CASE EndRelease(t)
      BY <1>0, <3>1, Shape, Sides DEF EndRelease, waits
    <3>2. CASE RecvTake(t) /\ pc'[t] = "received"
      BY <1>0, <3>2, RoomMade, Shape, ZenonT(60)
    <3> QED
      BY <1>2, <3>1, <3>2
  <2> SUFFICES ASSUME NEW v \in Thread, v \in writable'[Peer(Side[v])], ~SendWaits(v)'
               PROVE  \E u \in Thread : Side[u] # Side[v] /\ pc'[u] \in {"received", "wake_reader", "wake_writer"}
    BY DEF WritersStillWoken
  <2>2. CASE Side[v] = Peer(i)
    BY <1>0, <2>1, <2>2, Shape, Sides
  <2>3. CASE Side[v] = i
    <3>0. pc[v] = "send"
      BY <1>0, <2>1, Sides DEF Sleepers
    <3>1. v # t /\ len'[v] = len[v]
      BY <1>0, <2>1, <3>0, Shape
    <3>2. ~SendWaits(v)
      BY <2>1, <2>3, <3>1, Sides DEF SendWaits
    <3>3. PICK u \in Thread : Side[u] # Side[v] /\ pc[u] \in {"received", "wake_reader", "wake_writer"}
      BY <1>0, <2>1, <3>2, ZenonT(60) DEF WritersStillWoken
    <3>4. u # t /\ pc'[u] = pc[u]
      BY <1>0, <2>1, <2>3, <3>3, Shape
    <3> QED
      BY <3>3, <3>4
  <2> QED
    BY <2>2, <2>3, Sides
<1>3. CASE RecvWake(t) \/ ReleaseWakeWriter(t)
  <2>1. /\ UNCHANGED <<bytes, open, len>>
        /\ writable' = [writable EXCEPT ![Side[t]] = {}]
        /\ \E l : pc' = [pc EXCEPT ![t] = l]
    BY <1>3 DEF RecvWake, ReleaseWakeWriter, pipe
  <2> SUFFICES ASSUME NEW v \in Thread, v \in writable'[Peer(Side[v])], ~SendWaits(v)'
               PROVE  \E u \in Thread : Side[u] # Side[v] /\ pc'[u] \in {"received", "wake_reader", "wake_writer"}
    BY DEF WritersStillWoken
  <2>2. Peer(Side[v]) # Side[t] /\ v \in writable[Peer(Side[v])] /\ ~SendWaits(v)
    BY <1>0, <2>1, Shape, Sides DEF SendWaits
  <2>3. PICK u \in Thread : Side[u] # Side[v] /\ pc[u] \in {"received", "wake_reader", "wake_writer"}
    BY <1>0, <2>2 DEF WritersStillWoken
  <2>4. u # t
    BY <2>2, <2>3, Sides
  <2> QED
    BY <1>0, <2>1, <2>3, <2>4, Shape
<1>4. CASE ReleaseWakeReader(t)
  <2>1. /\ UNCHANGED <<bytes, open, len, writable>> /\ pc' = [pc EXCEPT ![t] = "wake_writer"] /\ pc[t] = "wake_reader"
    BY <1>4 DEF ReleaseWakeReader
  <2> QED
    BY <1>0, <2>1, Shape DEF WritersStillWoken, SendWaits
<1>5. CASE ReleaseFree(t)
  <2>1. \A i \in Ends : ~open[i]
    BY <1>5 DEF Inv, Closes, ReleaseFree
  <2>2. \A u \in Thread : pc[u] \notin Holding
    BY <2>1, ClosedEnds, Sides DEF Inv, Closes
  <2>3. writable' = writable /\ \A i \in Ends : writable[i] = {}
    BY <1>0, <1>5, <2>2 DEF Sleepers, Holding, Calling, TypeOK, ReleaseFree, waits
  <2> QED
    BY <2>3, Sides DEF WritersStillWoken
<1>6. CASE \/ Start(t) \/ RecvEof(t) \/ RecvSleep(t) \/ (RecvTake(t) /\ pc'[t] # "received") \/ SendEpipe(t) \/ SendQueue(t)
           \/ SendWake(t) \/ SendNotify(t) \/ PollSleep(t) \/ PollReady(t) \/ VnodeUnref(t) \/ ReleaseNotify(t)
           \/ TimeOut(t)
  <2>1. /\ pc[t] \notin {"received", "wake_reader", "wake_writer"} /\ UNCHANGED <<open, writable>>
        /\ pc' = pc \/ \E l : pc' = [pc EXCEPT ![t] = l]
        /\ len' = len \/ \E n : len' = [len EXCEPT ![t] = n]
        /\ \/ \A i \in Ends : bytes'[i] = bytes[i]
           \/ bytes' = [bytes EXCEPT ![Peer(Side[t])] = @ + len[t]]
    <3>1. CASE TimeOut(t)
      BY <1>0, <3>1, ZenonT(60) DEF TimeOut, Return, Sleepers, Asleep, pipe
    <3>2. CASE RecvTake(t) /\ pc'[t] # "received"
      BY <1>0, <3>2, RoomMade, Shape, Sides
    <3> QED
      BY <1>6, <3>1, <3>2, ZenonT(60) DEF Start, Call, RecvEof, RecvSleep, SendEpipe, SendQueue, SendWake, SendNotify,
         PollSleep, PollReady, VnodeUnref, ReleaseNotify, Return, pipe, waits, calls
  <2>2. \A i \in Ends : t \notin writable[i]
    BY <1>0, <1>6, ZenonT(60) DEF Start, Call, RecvEof, RecvSleep, RecvTake, SendEpipe, SendQueue, SendWake, SendNotify,
       PollSleep, PollReady, VnodeUnref, ReleaseNotify, TimeOut, Asleep, Sleepers
  <2>3. \A i \in Ends : bytes'[i] \in Nat /\ bytes'[i] >= bytes[i]
    <3>1. CASE \A i \in Ends : bytes'[i] = bytes[i]
      BY <1>0, <3>1, Shape
    <3>2. CASE bytes' = [bytes EXCEPT ![Peer(Side[t])] = @ + len[t]]
      <4>1. \A i \in Ends : bytes'[i] = IF i = Peer(Side[t]) THEN bytes[i] + len[t] ELSE bytes[i]
        BY <1>0, <3>2, Shape
      <4>2. len[t] \in Nat /\ \A i \in Ends : bytes[i] \in Nat
        BY <1>0, Shape
      <4> QED
        BY <4>1, <4>2
    <3> QED
      BY <2>1, <3>1, <3>2
  <2> QED
    BY <1>0, <2>1, <2>2, <2>3, Shape, WritersKept, ZenonT(60)
<1> QED
  BY <1>1, <1>2, <1>3, <1>4, <1>5, <1>6 DEF Step, Run

\* The pollers are told after a send and after a close.
LEMMA PollersStep ==
    ASSUME Inv, NEW t \in Thread, Step(t)
    PROVE  PollersStillWoken'
<1> DEFINE W == {"sent", "notify", "wake_reader", "wake_writer", "wake_pollers"}
<1>0. TypeOK /\ PollersStillWoken
  BY DEF Inv, WakesToCome
<1>1. CASE PollSleep(t)
  BY <1>0, <1>1, ZenonT(60) DEF PollSleep, PollersStillWoken, EndPoll, pipe, calls
<1>2. CASE SendNotify(t) \/ ReleaseNotify(t)
  BY <1>2 DEF SendNotify, ReleaseNotify, PollNotify, PollersStillWoken
<1>3. CASE \E l \in W : pc' = [pc EXCEPT ![t] = l]
  BY <1>0, <1>3, Shape DEF PollersStillWoken
<1>4. CASE /\ pc[t] \notin W /\ pollers' \subseteq pollers /\ open' = open
           /\ pc' = pc \/ \E l : pc' = [pc EXCEPT ![t] = l]
           /\ \A i \in Ends : queue[i] = <<>> => queue'[i] = <<>>
  <2> SUFFICES ASSUME NEW v \in pollers', EndPoll(Side[v])'
               PROVE  \E u \in Thread : pc'[u] \in W
    BY DEF PollersStillWoken
  <2>1. v \in pollers /\ EndPoll(Side[v])
    <3>1. v \in Thread
      BY <1>0, <1>4 DEF TypeOK
    <3> QED
      BY <1>4, <3>1, Sides DEF EndPoll
  <2>2. PICK u \in Thread : pc[u] \in W
    BY <1>0, <2>1 DEF PollersStillWoken
  <2>3. u # t
    BY <1>4, <2>2
  <2>4. pc'[u] = pc[u]
    BY <1>0, <1>4, <2>3, Shape
  <2> QED
    BY <2>2, <2>4
<1>5. CASE SendQueue(t) \/ EndRelease(t) \/ SendWake(t) \/ ReleaseWakeReader(t) \/ ReleaseWakeWriter(t)
  BY <1>3, <1>5, ZenonT(60) DEF SendQueue, EndRelease, SendWake, ReleaseWakeReader, ReleaseWakeWriter, Return
<1>6. CASE RecvTake(t)
  <2>1. /\ pc[t] = "recv" /\ open' = open /\ pollers' = pollers
        /\ \E l : pc' = [pc EXCEPT ![t] = l]
        /\ queue[Side[t]] # <<>> /\ \E q : queue' = [queue EXCEPT ![Side[t]] = q]
    BY <1>6, ZenonT(60) DEF RecvTake, Take, Return, waits
  <2>2. \A i \in Ends : queue[i] = <<>> => queue'[i] = <<>>
    BY <1>0, <2>1, Shape, ZenonT(60)
  <2> QED
    BY <1>4, <2>1, <2>2, ZenonT(60)
<1>7. CASE TimeOut(t)
  <2>1. pc[t] \in Calling
    BY <1>7 DEF Inv, Sleepers, TimeOut, Asleep, Calling
  <2> QED
    BY <1>4, <1>7, <2>1, ZenonT(60) DEF TimeOut, Return, Calling, pipe
<1>8. CASE \/ Start(t) \/ RecvEof(t) \/ RecvSleep(t) \/ RecvWake(t) \/ SendSleep(t) \/ SendEpipe(t)
           \/ PollReady(t) \/ VnodeUnref(t) \/ ReleaseFree(t)
  <2>1. /\ pc[t] \notin W /\ open' = open /\ pollers' = pollers
        /\ queue' = queue \/ queue' = [i \in Ends |-> <<>>]
        /\ pc' = pc \/ \E l : pc' = [pc EXCEPT ![t] = l]
    BY <1>8, ZenonT(60) DEF Start, Call, RecvEof, RecvSleep, RecvWake, SendSleep, SendEpipe, PollReady, VnodeUnref,
       ReleaseFree, Return, pipe, waits, calls
  <2> QED
    BY <1>4, <2>1
<1> QED
  BY <1>1, <1>2, <1>5, <1>6, <1>7, <1>8 DEF Step, Run

\* A counter that is not zero goes down to a counter.
LEMMA OneLess == \A n \in Nat : n # 0 => n - 1 \in Nat
OBVIOUS

\* Types.
LEMMA TypeStep ==
    ASSUME Inv, NEW t \in Thread, Step(t)
    PROVE  TypeOK'
<1> DEFINE Labels == Calling \cup Releasing \cup {"ready", "received", "sent", "notify", "close", "gone"}
<1>0. TypeOK /\ Side[t] \in Ends /\ Peer(Side[t]) \in Ends
  BY Sides DEF Inv
<1>1. queue' \in [Ends -> Seq([first : Nat, len : Nat, pos : Nat])] /\ bytes' \in [Ends -> Nat]
      /\ sent' \in [Ends -> Nat] /\ got' \in [Ends -> Nat]
  BY StreamsStep DEF Flows, Message
<1>2. ASSUME pc' = pc \/ \E l \in Labels : pc' = [pc EXCEPT ![t] = l],
             len' = len \/ \E n \in Nat : len' = [len EXCEPT ![t] = n],
             timed' = timed \/ \E d \in BOOLEAN : timed' = [timed EXCEPT ![t] = d],
             readable' \in [Ends -> SUBSET Thread], writable' \in [Ends -> SUBSET Thread], pollers' \subseteq Thread,
             open' \in [Ends -> BOOLEAN], refs' \in [Ends -> Nat], left' \in [Ends -> Nat],
             freed' \in BOOLEAN, damaged' \in BOOLEAN, last' \subseteq Thread
      PROVE  TypeOK'
  <2>1. pc \in [Thread -> Labels] /\ len \in [Thread -> Nat] /\ timed \in [Thread -> BOOLEAN]
    BY <1>0, Zenon DEF TypeOK
  <2>2. pc' \in [Thread -> Labels] /\ len' \in [Thread -> Nat] /\ timed' \in [Thread -> BOOLEAN]
    <3> HIDE DEF Labels
    <3> QED
      BY <1>2, <2>1
  <2> QED
    BY <1>1, <1>2, <2>2, Zenon DEF TypeOK
<1> HIDE DEF Labels
<1>3. /\ pc' = pc \/ \E l \in Labels : pc' = [pc EXCEPT ![t] = l]
      /\ len' = len \/ \E n \in Nat : len' = [len EXCEPT ![t] = n]
      /\ timed' = timed \/ \E d \in BOOLEAN : timed' = [timed EXCEPT ![t] = d]
  <2>1. CASE Start(t)
    BY <2>1, PipeAssumption, ZenonT(60) DEF Start, Call, Labels, Calling
  <2>2. CASE Run(t) \/ VnodeUnref(t) \/ TimeOut(t)
    <3>1. /\ len' = len \/ len' = [len EXCEPT ![t] = 0]
          /\ timed' = timed \/ timed' = [timed EXCEPT ![t] = FALSE]
      BY <2>2, ZenonT(60) DEF Run, RecvSleep, RecvEof, RecvTake, RecvWake, SendSleep, SendEpipe, SendQueue, SendWake, SendNotify,
         PollSleep, PollReady, EndRelease, ReleaseWakeReader, ReleaseWakeWriter, ReleaseNotify, ReleaseFree,
         VnodeUnref, TimeOut, Return, calls
    <3>2. pc' = pc \/ \E l \in Labels : pc' = [pc EXCEPT ![t] = l]
      BY <2>2, ZenonT(60) DEF Run, RecvSleep, RecvEof, RecvTake, RecvWake, SendSleep, SendEpipe, SendQueue, SendWake, SendNotify,
         PollSleep, PollReady, EndRelease, ReleaseWakeReader, ReleaseWakeWriter, ReleaseNotify, ReleaseFree,
         VnodeUnref, TimeOut, Return, calls, Labels, Releasing
    <3> QED
      BY <3>1, <3>2, ZenonT(60)
  <2> QED
    BY <2>1, <2>2 DEF Step
<1>4. readable' \in [Ends -> SUBSET Thread] /\ writable' \in [Ends -> SUBSET Thread] /\ pollers' \subseteq Thread
  <2>0. readable \in [Ends -> SUBSET Thread] /\ writable \in [Ends -> SUBSET Thread] /\ pollers \subseteq Thread
    BY <1>0, Zenon DEF TypeOK
  <2>1. \/ readable' = readable \/ readable' = [i \in Ends |-> readable[i] \ {t}]
        \/ \E i \in Ends : readable' = [readable EXCEPT ![i] = {}] \/ readable' = [readable EXCEPT ![i] = @ \cup {t}]
    BY <1>0, ZenonT(60) DEF Step, Start, Call, Run, RecvSleep, RecvEof, RecvTake, RecvWake, SendSleep, SendEpipe, SendQueue, SendWake,
       SendNotify, PollSleep, PollReady, EndRelease, ReleaseWakeReader, ReleaseWakeWriter, ReleaseNotify, ReleaseFree,
       VnodeUnref, TimeOut, waits
  <2>2. \/ writable' = writable
        \/ \E i \in Ends : writable' = [writable EXCEPT ![i] = {}] \/ writable' = [writable EXCEPT ![i] = @ \cup {t}]
    BY <1>0, ZenonT(60) DEF Step, Start, Call, Run, RecvSleep, RecvEof, RecvTake, RecvWake, SendSleep, SendEpipe, SendQueue, SendWake,
       SendNotify, PollSleep, PollReady, EndRelease, ReleaseWakeReader, ReleaseWakeWriter, ReleaseNotify, ReleaseFree,
       VnodeUnref, TimeOut, waits
  <2>3. pollers' \subseteq pollers \cup {t}
    BY ZenonT(60) DEF Step, Start, Call, Run, RecvSleep, RecvEof, RecvTake, RecvWake, SendSleep, SendEpipe, SendQueue, SendWake,
       SendNotify, PollSleep, PollReady, EndRelease, ReleaseWakeReader, ReleaseWakeWriter, ReleaseNotify, ReleaseFree,
       VnodeUnref, TimeOut, PollNotify, waits
  <2>4. readable' \in [Ends -> SUBSET Thread]
    BY <2>0, <2>1
  <2>5. writable' \in [Ends -> SUBSET Thread]
    BY <2>0, <2>2
  <2> QED
    BY <2>0, <2>3, <2>4, <2>5
<1>5. left' \in [Ends -> Nat]
  <2>1. CASE Start(t)
    <3>1. left' = left \/ (left[Peer(Side[t])] > 0 /\ left' = [left EXCEPT ![Peer(Side[t])] = left[Peer(Side[t])] - 1])
      BY <2>1 DEF Start, Call
    <3>2. left[Peer(Side[t])] \in Nat /\ left \in [Ends -> Nat]
      BY <1>0 DEF TypeOK
    <3>3. left[Peer(Side[t])] > 0 => left[Peer(Side[t])] - 1 \in Nat
      BY <3>2
    <3> QED
      BY <3>1, <3>2, <3>3
  <2>2. CASE ~Start(t)
    <3>1. left' = left
      BY <2>2, ZenonT(60) DEF Step, Run, RecvSleep, RecvEof, RecvTake, RecvWake, SendSleep, SendEpipe, SendQueue, SendWake,
         SendNotify, PollSleep, PollReady, EndRelease, ReleaseWakeReader, ReleaseWakeWriter, ReleaseNotify, ReleaseFree,
         VnodeUnref, TimeOut, count
    <3> QED
      BY <1>0, <3>1 DEF TypeOK
  <2> QED
    BY <2>1, <2>2
<1>6. refs' \in [Ends -> Nat]
  <2>1. CASE VnodeUnref(t)
    <3>1. refs[Side[t]] # 0
      BY <1>0, <2>1, ClosedEnds DEF Inv, VnodeUnref, Holding
    <3>2. refs[Side[t]] - 1 \in Nat /\ refs \in [Ends -> Nat]
      <4>1. refs[Side[t]] \in Nat
        BY <1>0, Shape, ZenonT(60)
      <4>2. refs[Side[t]] - 1 \in Nat
        BY <3>1, <4>1, OneLess
      <4> QED
        BY <1>0, <4>2, Zenon DEF TypeOK
    <3>3. refs' = [refs EXCEPT ![Side[t]] = refs[Side[t]] - 1]
      BY <2>1 DEF VnodeUnref
    <3> QED
      BY <3>2, <3>3, ZenonT(60)
  <2>2. CASE ~VnodeUnref(t)
    <3>1. refs' = refs
      BY <2>2, ZenonT(60) DEF Step, Start, Call, Run, RecvSleep, RecvEof, RecvTake, RecvWake, SendSleep, SendEpipe, SendQueue, SendWake,
         SendNotify, PollSleep, PollReady, EndRelease, ReleaseWakeReader, ReleaseWakeWriter, ReleaseNotify, ReleaseFree,
         TimeOut, pipe
    <3> QED
      BY <1>0, <3>1 DEF TypeOK
  <2> QED
    BY <2>1, <2>2
<1>7. open' \in [Ends -> BOOLEAN] /\ freed' \in BOOLEAN /\ damaged' \in BOOLEAN /\ last' \subseteq Thread
  <2>1. /\ open' = open \/ open' = [open EXCEPT ![Side[t]] = FALSE]
        /\ freed' = freed \/ freed' = TRUE
        /\ damaged' = damaged \/ damaged' = (damaged \/ freed)
        /\ last' = last \/ last' = {t}
    BY ZenonT(60) DEF Step, Start, Call, Run, RecvSleep, RecvEof, RecvTake, RecvWake, SendSleep, SendEpipe, SendQueue, SendWake,
       SendNotify, PollSleep, PollReady, EndRelease, ReleaseWakeReader, ReleaseWakeWriter, ReleaseNotify, ReleaseFree,
       VnodeUnref, TimeOut, Use, pipe
  <2>2. open \in [Ends -> BOOLEAN] /\ freed \in BOOLEAN /\ damaged \in BOOLEAN /\ last \subseteq Thread
    BY <1>0 DEF TypeOK
  <2> QED
    BY <2>1, <2>2, ZenonT(60)
<1> QED
  BY <1>2, <1>3, <1>4, <1>5, <1>6, <1>7
==============================================================================
