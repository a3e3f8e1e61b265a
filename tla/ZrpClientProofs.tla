-------------------------- MODULE ZrpClientProofs --------------------------
(***************************************************************************)
(* The proofs that a session of ZrpClient is sound: SessionSound and       *)
(* SomeoneReceives hold of every number of threads and tags.               *)
(*                                                                         *)
(* The invariant adds what makes them inductive: the list of calls is that *)
(* of the threads in rpc, a message on the wire carries the tag of a call  *)
(* in progress exactly when it is about that call's request, and inbox     *)
(* belongs to the one thread that receives.                                *)
(***************************************************************************)
EXTENDS ZrpClient, ListProofs, FiniteSetTheorems

\* The provers, in the order and with the seconds that suit these proofs.
USE SMTT(2), ZenonT(10), SMTT(40), ZenonT(60)

Listed ==
    /\ Once(calls)
    /\ \A t \in Thread : On(calls, t) <=> pc[t] # "idle"
    /\ \A t \in Thread : pc[t] # "idle" => number[t] > 0

\* A message with the tag of a call in progress is about its request, and the
\* other way round.
Belongs(m) ==
    /\ m.request.n <= number[m.request.thread]
    /\ \A t \in Thread : pc[t] # "idle" => (m.tag = call[t].tag <=> m.request = Request(t))

AllBelong ==
    /\ \A m \in requests : Belongs(m)
    /\ \A m \in replies : Belongs(m)
    /\ inbox.type \notin Nothing => Belongs(inbox)

NoPendings == ~udp => inbox.type # "pending" /\ \A m \in replies : m.type # "pending"

OneReceives ==
    /\ receiving <=> \E t \in Thread : pc[t] \in Receiving
    /\ \A t, u \in Thread : pc[t] \in Receiving /\ pc[u] \in Receiving => t = u
    /\ ~receiving => inbox = NoReply("empty")
    /\ \A t \in Thread : pc[t] = "recv" => inbox = NoReply("empty")
    /\ \A t \in Thread : pc[t] = "copy" => inbox.type = "reply" /\ owner = inbox.request

Asleep == changed # {} => receiving /\ ~dead

Inv ==
    /\ TypeOK /\ Listed /\ TagsDiffer /\ AllBelong /\ NoPendings
    /\ OneReceives /\ Asleep /\ NothingLost /\ RightReply

\* A request is out.
Out == {"loop"} \cup Receiving

\* The functions of the threads.
LEMMA Shape ==
    Inv => /\ call \in [Thread -> Call_] /\ pc \in [Thread -> InRpc \cup {"idle", "end"}]
           /\ number \in [Thread -> Nat]
  BY DEF Inv, TypeOK

-----------------------------------------------------------------------------
(* The operators                                                           *)

\* The order of the naturals has no infinite descent.
LEMMA NatWellFounded == IsWellFoundedOn({ss \in Nat \X Nat : ss[1] < ss[2]}, Nat)
  BY NatLessThanWellFounded, Zenon DEF OpToRel

\* Counting up ends at the first number of a set, if there is one (next_tag).
LEMMA Least ==
    ASSUME NEW S \in SUBSET Nat, S # {}
    PROVE  \E n \in S : \A k \in S : n <= k
<1> DEFINE R == {ss \in Nat \X Nat : ss[1] < ss[2]}
<1>1. IsWellFoundedOn(R, Nat)
  BY NatWellFounded
<1> HIDE DEF R
<1>2. PICK n \in S : \A k \in S : ~(<<k, n>> \in R)
  BY <1>1, WFMin, ZenonT(60)
<1>3. \A k \in S : ~(k < n)
  BY <1>2, ZenonT(60) DEF R
<1> QED BY <1>3
\* next_tag ends: there are fewer threads than tags, so one of the tags after
\* the last one given is free, and it finds the first.
LEMMA NextTagFree ==
    ASSUME TypeOK, Listed
    PROVE  NextTag \in Tags /\ ~InUse(NextTag)
<1> DEFINE after(k) == (tag + k) % NOTAG
           free == {k \in 1 .. NOTAG : ~InUse(after(k))}
<1>1. NOTAG \in Nat \ {0} /\ tag \in 0 .. NOTAG - 1
  <2>1. tag \in 0 .. NOTAG - 1 /\ NOTAG \in Nat
    BY ZrpClientAssumption DEF TypeOK, Tags
  <2> QED BY <2>1
<1>2. \A k \in 1 .. NOTAG : after(k) = IF tag + k < NOTAG THEN tag + k ELSE tag + k - NOTAG
  BY <1>1
<1>3. \A k \in 1 .. NOTAG : after(k) \in Tags
  BY <1>1, <1>2 DEF Tags
<1>4. \A j, k \in 1 .. NOTAG : after(j) = after(k) => j = k
  BY <1>1, <1>2
<1>5. free # {}
  <2> SUFFICES ASSUME \A k \in 1 .. NOTAG : InUse(after(k)) PROVE FALSE
    OBVIOUS
  <2>1. \A k \in 1 .. NOTAG : \E u \in Thread : call[u].tag = after(k)
    BY ElementOfSeq DEF InUse, TypeOK
  <2> DEFINE f == [k \in 1 .. NOTAG |-> CHOOSE u \in Thread : call[u].tag = after(k)]
  <2>2. f \in [1 .. NOTAG -> Thread] /\ \A k \in 1 .. NOTAG : call[f[k]].tag = after(k)
    BY <2>1
  <2>3. IsFiniteSet(1 .. NOTAG) /\ Cardinality(1 .. NOTAG) = NOTAG
    BY <1>1, FS_Interval
  <2>4. \E j, k \in 1 .. NOTAG : j # k /\ f[j] = f[k]
    <3> HIDE DEF f
    <3> QED BY <2>2, <2>3, ZrpClientAssumption, FS_PigeonHole
  <2> QED BY <1>4, <2>2, <2>4
<1>6. PICK k \in free : \A j \in free : k <= j
  <2>1. free \in SUBSET Nat
    BY <1>1
  <2> HIDE DEF free
  <2> QED BY <1>5, <2>1, Least
<1>7. \E i \in 1 .. NOTAG : ~InUse(after(i)) /\ \A j \in 1 .. i - 1 : InUse(after(j))
  <2>1. \A j \in 1 .. k - 1 : j \in 1 .. NOTAG /\ j \notin free
    BY <1>1, <1>6
  <2> QED BY <1>6, <2>1
<1> DEFINE i == CHOOSE i \in 1 .. NOTAG : ~InUse(after(i)) /\ \A j \in 1 .. i - 1 : InUse(after(j))
<1>8. i \in 1 .. NOTAG /\ ~InUse(after(i))
  BY <1>7
<1>9. NextTag = after(i)
  BY DEF NextTag
<1> QED BY <1>3, <1>8, <1>9, ZenonT(60)

-----------------------------------------------------------------------------
(* What a step leaves as it was                                            *)

\* Messages still belong to their calls when none begins and no new message
\* but one that belongs is on the wire.
LEMMA BelongKept ==
    ASSUME AllBelong, number' = number,
           \A u \in Thread : pc'[u] # "idle" => pc[u] # "idle",
           \A u \in Thread : call'[u].tag = call[u].tag,
           \A m \in requests' : m \in requests \/ Belongs(m),
           \A m \in replies' : \E k \in requests \cup replies : k.tag = m.tag /\ k.request = m.request,
           inbox'.type \notin Nothing => inbox' \in replies \cup {inbox}
    PROVE  AllBelong'
<1>1. ASSUME NEW m, Belongs(m) PROVE Belongs(m)'
  BY <1>1 DEF Belongs, Request
<1>2. ASSUME NEW m \in requests' PROVE Belongs(m)'
  BY <1>1 DEF AllBelong
<1>3. ASSUME NEW m \in replies' PROVE Belongs(m)'
  <2>1. PICK k \in requests \cup replies : k.tag = m.tag /\ k.request = m.request
    OBVIOUS
  <2>2. Belongs(k)'
    BY <1>1 DEF AllBelong
  <2> QED BY <2>1, <2>2 DEF Belongs
<1>4. ASSUME inbox'.type \notin Nothing PROVE Belongs(inbox)'
  <2>1. Belongs(inbox')
    BY <1>4 DEF AllBelong, Belongs, Request
  <2> QED BY <2>1 DEF Belongs, Request
<1> QED BY <1>2, <1>3, <1>4 DEF AllBelong

\* No request is lost when messages only move on: a request to its reply, a
\* reply to the inbox.
LEMMA LossKept ==
    ASSUME NothingLost, transport' = transport, number' = number, closed => closed',
           \A u \in Thread : pc'[u] \in Out /\ ~call'[u].done =>
             (pc[u] \in Out /\ ~call[u].done) \/ Underway(u)',
           ~udp => \A m \in requests : m \in requests' \/ \E k \in replies' : k.request = m.request,
           ~udp => \A m \in replies : m \in replies' \/ inbox' = m,
           ~udp => \A u \in Thread :
             pc'[u] \in Out /\ ~call'[u].done /\ inbox.request = Request(u) => inbox' = inbox
    PROVE  NothingLost'
<1> SUFFICES ASSUME ~udp, ~closed, NEW u \in Thread, pc'[u] \in Out, ~call'[u].done, ~Underway(u)'
             PROVE  FALSE
  BY DEF NothingLost, udp, Out
<1>1. Underway(u)
  BY DEF NothingLost, Out
<1> QED BY <1>1 DEF Underway, Request

\* No call begins or ends, and no tag is given.
LEMMA SameCalls ==
    ASSUME Inv, UNCHANGED <<calls, number>>,
           \A u \in Thread : /\ pc'[u] = "idle" <=> pc[u] = "idle"
                             /\ call'[u].tag = call[u].tag
    PROVE  Listed' /\ TagsDiffer'
  BY DEF Inv, Listed, TagsDiffer

\* A step that begins and ends no call, and neither starts nor ends a turn to
\* receive.
LEMMA QuietStep ==
    ASSUME Inv, TypeOK', UNCHANGED <<calls, receiving, inbox, owner, number, transport>>,
           \A u \in Thread : /\ call'[u].tag = call[u].tag
                             /\ call'[u].len = "reply" => call[u].len = "reply" /\ call'[u].rx = call[u].rx,
           \A u \in Thread : \/ pc'[u] = pc[u]
                             \/ {pc[u], pc'[u]} \cap (Receiving \cup {"idle"}) = {},
           changed' # {} => receiving /\ ~dead',
           \A m \in requests' : m \in requests \/ Belongs(m),
           \A m \in replies' : /\ m \in replies \/ m.type = "reply" \/ udp
                               /\ \E k \in requests \cup replies : k.tag = m.tag /\ k.request = m.request,
           closed => closed',
           ~udp => \A m \in requests : m \in requests' \/ \E k \in replies' : k.request = m.request,
           ~udp => replies \subseteq replies',
           \A u \in Thread : pc'[u] \in Out /\ ~call'[u].done =>
             (pc[u] \in Out /\ ~call[u].done) \/ Underway(u)'
    PROVE  Inv'
<1>1. Listed' /\ TagsDiffer'
  <2>1. \A u \in Thread : pc'[u] = "idle" <=> pc[u] = "idle"
    OBVIOUS
  <2> QED BY <2>1, SameCalls
<1>2. AllBelong' /\ NothingLost' /\ NoPendings' /\ Asleep'
  BY BelongKept, LossKept DEF Inv, NoPendings, udp, Asleep
<1>3. OneReceives' /\ RightReply'
  BY ZenonT(60) DEF Inv, OneReceives, Receiving, RightReply, Request
<1> QED BY <1>1, <1>2, <1>3 DEF Inv

\* The receiver's turn ends.
LEMMA TurnEnds ==
    ASSUME Inv, TypeOK', NEW t \in Thread, pc[t] \in Receiving, DoneReceiving(t),
           UNCHANGED <<calls, number, transport, requests, replies, closed>>,
           \A u \in Thread : call'[u].tag = call[u].tag,
           \A u \in Thread : pc[u] \in Out /\ ~call'[u].done /\ ~udp =>
             ~call[u].done /\ inbox.request # Request(u),
           RightReply'
    PROVE  Inv'
<1>1. Listed' /\ TagsDiffer'
  BY Shape, SameCalls DEF DoneReceiving, Receiving
<1>2. AllBelong'
  BY Shape, BelongKept DEF Inv, DoneReceiving, NoReply, Nothing, Receiving
<1>3. NoPendings' /\ Asleep'
  BY DEF Inv, NoPendings, Asleep, DoneReceiving, NoReply, udp
<1>4. OneReceives'
  BY Shape DEF Inv, OneReceives, DoneReceiving, Receiving
<1>5. NothingLost'
  <2> SUFFICES ASSUME ~udp, ~closed, NEW u \in Thread, pc'[u] \in Out, ~call'[u].done
               PROVE  Underway(u)'
    BY DEF NothingLost, udp, Out
  <2>1. pc[u] \in Out
    BY Shape DEF DoneReceiving, Out, Receiving
  <2>2. Underway(u) /\ inbox.request # Request(u)
    BY <2>1 DEF Inv, NothingLost, Out
  <2> QED BY <2>2 DEF Underway, Request
<1> QED BY <1>1, <1>2, <1>3, <1>4, <1>5 DEF Inv

-----------------------------------------------------------------------------
(* Calls and messages                                                      *)

\* What Fail writes into a struct call.
LEMMA LenSet ==
    ASSUME TypeOK, NEW t \in Thread, NEW e \in Len_, call' = [call EXCEPT ![t].len = e]
    PROVE  /\ call' \in [Thread -> Call_]
           /\ \A u \in Thread : /\ call'[u].tag = call[u].tag /\ call'[u].done = call[u].done
                                /\ u # t => call'[u] = call[u]
           /\ call'[t].len = e
<1>1. call \in [Thread -> Call_]
  BY DEF TypeOK
<1> QED BY <1>1 DEF Call_

\* The request a thread sends carries the tag of its own call.
LEMMA OwnRequest ==
    ASSUME Inv, NEW t \in Thread, pc[t] # "idle"
    PROVE  LET m == [tag |-> call[t].tag, request |-> Request(t)]
           IN  Belongs(m) /\ m \in [tag : Tags, request : Requests]
<1> DEFINE m == [tag |-> call[t].tag, request |-> Request(t)]
<1>1. m.tag = call[t].tag /\ m.request = Request(t) /\ m.request.thread = t /\ m.request.n = number[t]
  BY DEF Request
<1>2. number[t] \in Nat \ {0} /\ call[t].tag \in Tags
  BY DEF Inv, TypeOK, Listed, Call_
<1>3. Request(t) \in Requests
  BY <1>2 DEF Request, Requests
<1>4. \A u \in Thread : Request(u) = Request(t) => u = t
  BY DEF Request
<1>5. m \in [tag : Tags, request : Requests]
  BY <1>2, <1>3
<1> HIDE DEF m
<1>6. Belongs(m)
  BY <1>1, <1>2, <1>4 DEF Belongs, Inv, TagsDiffer
<1> QED BY <1>5, <1>6 DEF m

\* What is in the inbox names a request exactly when it is a reply.
LEMMA InboxRequest ==
    ASSUME TypeOK
    PROVE  IF inbox.type \in Nothing THEN inbox.request = NoRequest ELSE inbox.request \in Requests
<1>1. CASE inbox \in Reply
  BY <1>1 DEF Reply, Nothing
<1>2. CASE inbox \in {NoReply(why) : why \in Nothing}
  BY <1>2 DEF NoReply
<1> QED BY <1>1, <1>2 DEF TypeOK

\* What is no reply answers nobody.
LEMMA NotMine ==
    ASSUME Inv, NEW u \in Thread, pc[u] # "idle", inbox.type \in Nothing
    PROVE  inbox.request # Request(u)
<1>1. inbox.request = NoRequest
  BY InboxRequest DEF Inv
<1>2. number[u] # 0
  BY DEF Inv, Listed, TypeOK
<1> QED BY <1>1, <1>2 DEF NoRequest, Request

\* What a send that fails writes into a struct call.
LEMMA SendSet ==
    ASSUME TypeOK, NEW t \in Thread, NEW e \in Len_,
           call' = [call EXCEPT ![t] = [@ EXCEPT !.done = TRUE, !.len = e]]
    PROVE  /\ call' \in [Thread -> Call_]
           /\ \A u \in Thread : call'[u].tag = call[u].tag /\ (u # t => call'[u] = call[u])
           /\ call'[t].done /\ call'[t].len = e
<1>1. call \in [Thread -> Call_]
  BY DEF TypeOK
<1> QED BY <1>1, ZenonT(60) DEF Call_

\* What Rpending writes into a struct call, and what a retry does.
LEMMA PendingSet ==
    ASSUME TypeOK, NEW t \in Thread, NEW b \in BOOLEAN,
           call' = [call EXCEPT ![t].pending = b]
    PROVE  /\ call' \in [Thread -> Call_]
           /\ \A u \in Thread : /\ call'[u].tag = call[u].tag /\ call'[u].done = call[u].done
                                /\ call'[u].len = call[u].len /\ call'[u].rx = call[u].rx
<1>1. call \in [Thread -> Call_]
  BY DEF TypeOK
<1> QED BY <1>1 DEF Call_

\* What the copy of a reply writes into a struct call.
LEMMA ReplySet ==
    ASSUME TypeOK, NEW t \in Thread, NEW r \in Requests,
           call' = [call EXCEPT ![t] = [@ EXCEPT !.rx = r, !.len = "reply", !.done = TRUE]]
    PROVE  /\ call' \in [Thread -> Call_]
           /\ \A u \in Thread : call'[u].tag = call[u].tag /\ (u # t => call'[u] = call[u])
           /\ call'[t].done /\ call'[t].len = "reply" /\ call'[t].rx = r
<1> DEFINE c == [call[t] EXCEPT !.rx = r, !.len = "reply", !.done = TRUE]
<1>1. call[t] \in Call_
  BY DEF TypeOK
<1>2. c \in Call_ /\ c.tag = call[t].tag /\ c.done /\ c.len = "reply" /\ c.rx = r
  BY <1>1, ZenonT(60) DEF Call_, Len_
<1> HIDE DEF c
<1>3. call' = [call EXCEPT ![t] = c]
  BY DEF c
<1> QED BY <1>2, <1>3 DEF TypeOK

\* The receiver looks for the call with the reply's tag: no two have it, so
\* the first it finds is the only one.
LEMMA OwnersAre ==
    ASSUME Inv
    PROVE  \A u : u \in Owners <=> u \in Thread /\ pc[u] # "idle" /\ call[u].tag = inbox.tag
<1>0. calls \in Seq(Thread) /\ Len(calls) \in Nat
  BY LenProperties DEF Inv, TypeOK
<1>1. ASSUME NEW u \in Owners PROVE u \in Thread /\ pc[u] # "idle" /\ call[u].tag = inbox.tag
  <2>1. PICK i \in 1 .. Len(calls) : u = calls[i] /\ call[calls[i]].tag = inbox.tag
    BY DEF Owners
  <2>2. u \in Thread /\ On(calls, u)
    BY <1>0, <2>1, ElementOfSeq DEF On
  <2> QED BY <2>1, <2>2 DEF Inv, Listed
<1>2. ASSUME NEW u \in Thread, pc[u] # "idle", call[u].tag = inbox.tag PROVE u \in Owners
  <2>1. PICK i \in 1 .. Len(calls) : calls[i] = u
    BY <1>2 DEF Inv, Listed, On
  <2>2. ASSUME NEW j \in 1 .. i - 1, call[calls[j]].tag = inbox.tag PROVE FALSE
    <3>1. j \in 1 .. Len(calls) /\ j # i
      BY <1>0
    <3>2. calls[j] \in Thread /\ On(calls, calls[j])
      BY <1>0, <3>1, ElementOfSeq DEF On
    <3>3. calls[j] = u
      BY <1>2, <2>2, <3>2 DEF Inv, Listed, TagsDiffer
    <3> QED BY <2>1, <3>1, <3>3 DEF Inv, Listed, Once
  <2> QED BY <1>2, <2>1, <2>2 DEF Owners
<1> QED BY <1>1, <1>2

-----------------------------------------------------------------------------
(* begin and end                                                           *)

\* end takes the call off the list.
LEMMA EndStep ==
    ASSUME Inv, NEW t \in Thread, End(t)
    PROVE  Inv'
<1>0. /\ calls' \in Seq(Thread) /\ Once(calls')
      /\ \A u : On(calls', u) <=> On(calls, u) /\ u # t
  <2>1. calls \in Seq(Thread) /\ Once(calls) /\ calls' = Without(calls, t)
    BY DEF Inv, TypeOK, Listed, End
  <2> QED BY <2>1, WithoutFacts
<1>1. TypeOK'
  BY <1>0 DEF Inv, End, TypeOK, Call_, locals, net, InRpc
<1>2. Listed'
  BY Shape, <1>0 DEF Inv, End, Listed
<1>3. TagsDiffer'
  BY Shape DEF Inv, End, TagsDiffer, locals
<1>4. AllBelong'
  BY Shape, BelongKept DEF Inv, End, locals, net
<1>5. NoPendings'
  BY DEF Inv, End, NoPendings, net, udp
<1>6. OneReceives'
  BY Shape DEF Inv, End, OneReceives, Receiving
<1>7. Asleep'
  BY DEF Inv, End, Asleep
<1>8. NothingLost'
  BY Shape, LossKept DEF Inv, End, Out, Receiving, locals, net
<1>9. RightReply'
  BY Shape DEF Inv, End, RightReply, Request, locals
<1> QED BY <1>1, <1>2, <1>3, <1>4, <1>5, <1>6, <1>7, <1>8, <1>9 DEF Inv

\* begin lists the call under a tag that no other call and no message has.
LEMMA BeginStep ==
    ASSUME Inv, NEW t \in Thread, Begin(t)
    PROVE  Inv'
<1> DEFINE new == [tag |-> NextTag, done |-> FALSE, pending |-> FALSE, len |-> "none", rx |-> NoRequest]
<1>a. NextTag \in Tags /\ ~InUse(NextTag)
  BY NextTagFree DEF Inv
<1>b. /\ calls' \in Seq(Thread) /\ Once(calls')
      /\ \A u : On(calls', u) <=> On(calls, u) \/ u = t
  <2>1. calls \in Seq(Thread) /\ Once(calls) /\ ~On(calls, t) /\ calls' = <<t>> \o calls
    BY DEF Inv, TypeOK, Listed, Begin
  <2> QED BY <2>1, ConsFacts
<1>c. \A u \in Thread : pc[u] # "idle" => call[u].tag # NextTag
  <2>1. ASSUME NEW u \in Thread, pc[u] # "idle" PROVE call[u].tag # NextTag
    <3>1. \E i \in 1 .. Len(calls) : calls[i] = u
      BY <2>1 DEF Inv, Listed, On
    <3> QED BY <1>a, <3>1 DEF InUse
  <2> QED BY <2>1
<1>d. call' = [call EXCEPT ![t] = new] /\ new \in Call_ /\ new.tag = NextTag /\ new.len # "reply"
  BY <1>a, ZenonT(60) DEF Begin, Call_, Len_
<1> HIDE DEF new
<1>e. /\ pc[t] = "idle" /\ pc' = [pc EXCEPT ![t] = "start"] /\ number' = [number EXCEPT ![t] = @ + 1]
      /\ inbox' = inbox /\ transport' = transport /\ closed' = closed
      /\ receiving' = receiving /\ changed' = changed /\ dead' = dead /\ owner' = owner
      /\ requests' = {m \in requests : m.tag # NextTag} /\ replies' = {m \in replies : m.tag # NextTag}
  BY ZenonT(60) DEF Begin
<1>f. /\ call \in [Thread -> Call_] /\ pc \in [Thread -> InRpc \cup {"idle", "end"}]
      /\ number \in [Thread -> Nat]
  BY DEF Inv, TypeOK
<1>1. TypeOK'
  <2>1. call' \in [Thread -> Call_] /\ pc' \in [Thread -> InRpc \cup {"idle", "end"}]
        /\ number' \in [Thread -> Nat]
    BY <1>d, <1>e, <1>f DEF InRpc
  <2>2. tries' \in [Thread -> 0 .. TRIES] /\ polling' \in [Thread -> BOOLEAN] /\ outcome' \in [Thread -> Len_]
    BY ZrpClientAssumption DEF Inv, TypeOK, Begin, Len_
  <2>3. tag' \in Tags /\ UNCHANGED <<late, pendings, damaged>>
    BY <1>a, ZenonT(60) DEF Begin
  <2>4. requests' \subseteq [tag : Tags, request : Requests] /\ replies' \subseteq Reply
    BY <1>e DEF Inv, TypeOK
  <2> QED BY <1>b, <1>e, <2>1, <2>2, <2>3, <2>4, ZenonT(60) DEF Inv, TypeOK
<1>2. Listed'
  <2>0. pc' = [pc EXCEPT ![t] = "start"] /\ number' = [number EXCEPT ![t] = @ + 1]
    BY <1>e, Zenon
  <2>1. \A u \in Thread : pc'[u] # "idle" <=> pc[u] # "idle" \/ u = t
    BY <1>f, <2>0
  <2>2. ASSUME NEW u \in Thread, pc'[u] # "idle" PROVE number'[u] > 0
    <3>1. CASE u = t
      <4>1. number'[t] = number[t] + 1 /\ number[t] \in Nat
        BY <1>f, <2>0
      <4> QED BY <3>1, <4>1
    <3>2. CASE u # t
      <4>1. number'[u] = number[u] /\ pc[u] # "idle"
        BY <1>f, <2>0, <2>1, <2>2, <3>2
      <4> QED BY <4>1 DEF Inv, Listed
    <3> QED BY <3>1, <3>2
  <2> QED BY <1>b, <2>1, <2>2, ZenonT(60) DEF Inv, Listed
<1>3. TagsDiffer'
  BY <1>c, <1>d, <1>e, <1>f DEF Inv, TagsDiffer
<1>4. AllBelong'
  <2>1. ASSUME NEW m, m.request \in Requests, m.tag # NextTag, Belongs(m)
        PROVE  Belongs(m)'
    <3>0. m.request.thread \in Thread /\ m.request.n \in Nat
      BY <2>1 DEF Requests
    <3>1. m.request.n <= number'[m.request.thread] /\ m.request # Request(t)'
      BY <1>e, <1>f, <2>1, <3>0 DEF Belongs, Request
    <3>2. ASSUME NEW u \in Thread, pc'[u] # "idle" PROVE m.tag = call'[u].tag <=> m.request = Request(u)'
      <4>1. CASE u = t
        BY <1>d, <1>f, <2>1, <3>1, <4>1
      <4>2. CASE u # t
        BY <1>d, <1>e, <1>f, <2>1, <3>2, <4>2 DEF Belongs, Request
      <4> QED BY <4>1, <4>2
    <3> QED BY <3>1, <3>2 DEF Belongs
  <2>2. \A m \in requests : m.request \in Requests
    BY DEF Inv, TypeOK
  <2>3. \A m \in replies : m.request \in Requests
    BY DEF Inv, TypeOK, Reply
  <2>4. ASSUME inbox.type \notin Nothing PROVE Belongs(inbox)'
    <3>1. inbox.request \in Requests /\ inbox.tag # NextTag
      BY <2>4 DEF Inv, TypeOK, Begin, Reply, NoReply
    <3> QED BY <1>e, <2>1, <2>4, <3>1 DEF Inv, AllBelong, Belongs, Request
  <2> QED BY <1>e, <2>1, <2>2, <2>3, <2>4 DEF Inv, AllBelong
<1>5. NoPendings'
  BY <1>e DEF Inv, NoPendings, udp
<1>6. OneReceives'
  BY <1>e, <1>f DEF Inv, OneReceives, Receiving
<1>7. Asleep'
  BY <1>e DEF Inv, Asleep
<1>8. NothingLost'
  <2> SUFFICES ASSUME ~udp, ~closed, NEW u \in Thread, pc'[u] \in Out, ~call'[u].done
               PROVE  Underway(u)'
    BY <1>e DEF NothingLost, udp, Out
  <2>1. u # t /\ pc[u] \in Out /\ pc[u] # "idle" /\ call'[u] = call[u] /\ number'[u] = number[u]
    BY <1>d, <1>e, <1>f DEF Out, Receiving
  <2>2. Underway(u)
    BY <2>1 DEF Inv, NothingLost, Out
  <2>3. \A m \in requests \cup replies : m.request = Request(u) => m.tag # NextTag
    BY <1>c, <2>1 DEF Inv, AllBelong, Belongs
  <2> QED BY <1>e, <2>1, <2>2, <2>3 DEF Underway, Request
<1>9. RightReply'
  BY <1>d, <1>e, <1>f, ZenonT(60) DEF Inv, RightReply, Request
<1> QED BY <1>1, <1>2, <1>3, <1>4, <1>5, <1>6, <1>7, <1>8, <1>9 DEF Inv

-----------------------------------------------------------------------------
(* rpc, until the receiver has a message                                   *)

\* A thread fails, or finds its reply: what it leaves alone.
LEMMA FailStep ==
    ASSUME Inv, NEW t \in Thread, pc[t] \in {"start", "loop"}, NEW e \in Len_ \ {"reply"}, Fail(t, e),
           UNCHANGED <<calls, tag, receiving, tries, polling, late, net, inbox, owner, number, outcome, damaged,
                       transport>>,
           dead' \in BOOLEAN, (changed' = changed /\ dead' = dead) \/ changed' = {}
    PROVE  Inv'
<1>1. /\ call' \in [Thread -> Call_]
      /\ \A u \in Thread : call'[u].tag = call[u].tag /\ (u # t => call'[u] = call[u])
      /\ call'[t].len # "reply"
  BY LenSet, ZenonT(60) DEF Inv, Fail
<1>2. TypeOK'
  BY <1>1 DEF Inv, TypeOK, Fail, InRpc, net
<1> QED BY <1>1, <1>2, Shape, QuietStep DEF Inv, Asleep, Fail, Receiving, Out, net

\* A step of rpc that only moves the thread, or puts it to sleep or wakes it.
LEMMA MoveStep ==
    ASSUME Inv, NEW t \in Thread,
           UNCHANGED <<calls, tag, receiving, dead, call, tries, polling, net, inbox, owner, number, outcome,
                       damaged, transport>>,
           late' \in [Thread -> BOOLEAN], changed' \subseteq Thread,
           changed' # {} => changed # {} \/ (receiving /\ ~dead),
           \/ pc' = pc
           \/ pc[t] \in {"start", "loop"} /\ \E l \in {"send", "end"} : pc' = [pc EXCEPT ![t] = l]
    PROVE  Inv'
<1>1. TypeOK'
  BY ZenonT(60) DEF Inv, TypeOK, InRpc, net
<1> QED BY <1>1, Shape, QuietStep DEF Inv, Asleep, Receiving, Out, net

\* rpc starts; in a dead session it fails.
LEMMA StartStep ==
    ASSUME Inv, NEW t \in Thread, Start(t)
    PROVE  Inv'
<1>1. dead \in BOOLEAN /\ late \in [Thread -> BOOLEAN] /\ changed \subseteq Thread
  BY DEF Inv, TypeOK
<1> QED BY <1>1, FailStep, MoveStep DEF Start, Fail, session, Len_

\* A turn of the loop in rpc that ends the wait or sleeps, and a deadline.
LEMMA LoopStep ==
    ASSUME Inv, NEW t \in Thread, LoopDone(t) \/ LoopDead(t) \/ GiveUp(t) \/ Sleep(t) \/ Expire(t)
    PROVE  Inv'
<1>1. dead \in BOOLEAN /\ late \in [Thread -> BOOLEAN] /\ changed \subseteq Thread
  BY DEF Inv, TypeOK
<1>2. CASE LoopDone(t)
  BY <1>1, <1>2, MoveStep, ZenonT(60) DEF LoopDone, AtLoop, session, locals
<1>3. CASE LoopDead(t) \/ GiveUp(t)
  BY <1>1, <1>3, FailStep, ZenonT(60) DEF LoopDead, GiveUp, AtLoop, Waits, session, Len_
<1>4. CASE Sleep(t)
  BY <1>1, <1>4, MoveStep DEF Sleep, Waits, locals
<1>5. CASE Expire(t)
  BY <1>1, <1>5, MoveStep DEF Expire
<1> QED BY <1>2, <1>3, <1>4, <1>5

\* The request goes out, the first time or again, or it cannot.
LEMMA SendStep ==
    ASSUME Inv, NEW t \in Thread, Send(t) \/ Resend(t)
    PROVE  Inv'
<1> DEFINE m == [tag |-> call[t].tag, request |-> Request(t)]
<1>1. /\ pc[t] \in {"send", "resend"} /\ pc' = [pc EXCEPT ![t] = "loop"] /\ late' \in [Thread -> BOOLEAN]
      /\ UNCHANGED <<calls, tag, receiving, dead, changed, tries, polling, replies, closed, pendings, inbox, owner,
                     number, outcome, damaged, transport>>
  BY ZenonT(60) DEF Inv, TypeOK, Send, Resend, session
<1>2. \/ call' = call /\ requests' = requests \cup {m}
      \/ /\ requests' = requests
         /\ \E e \in {"unsent", "EIO"} : call' = [call EXCEPT ![t] = [@ EXCEPT !.done = TRUE, !.len = e]]
  BY ZenonT(60) DEF Send, Resend
<1>3. /\ call' \in [Thread -> Call_]
      /\ \A u \in Thread : call'[u].tag = call[u].tag /\ (u # t => call'[u] = call[u])
      /\ \/ call'[t] = call[t] /\ requests' = requests \cup {m}
         \/ call'[t].done /\ call'[t].len # "reply" /\ requests' = requests
  BY <1>2, Shape, SendSet, ZenonT(60) DEF Inv, Len_
<1>4. Belongs(m) /\ m \in [tag : Tags, request : Requests] /\ m.request = Request(t)
  BY <1>1, OwnRequest, ZenonT(60)
<1> HIDE DEF m
<1>5. TypeOK'
  BY <1>1, <1>3, <1>4, ZenonT(60) DEF Inv, TypeOK, InRpc
<1> QED BY <1>1, <1>3, <1>4, <1>5, Shape, QuietStep DEF Inv, Asleep, Receiving, Out, Underway, Request

\* A deadline has passed, and the request is to be sent again.
LEMMA RetryStep ==
    ASSUME Inv, NEW t \in Thread, Retry(t)
    PROVE  Inv'
<1>1. /\ call' \in [Thread -> Call_]
      /\ \A u \in Thread : /\ call'[u].tag = call[u].tag /\ call'[u].done = call[u].done
                           /\ call'[u].len = call[u].len /\ call'[u].rx = call[u].rx
  BY PendingSet, ZenonT(60) DEF Inv, Retry
<1>2. tries' \in [Thread -> 0 .. TRIES] /\ polling' \in [Thread -> BOOLEAN]
  BY ZrpClientAssumption DEF Inv, TypeOK, Retry, Call_
<1>3. TypeOK'
  BY <1>1, <1>2 DEF Inv, TypeOK, Retry, InRpc, session, net
<1> QED BY <1>1, <1>3, Shape, QuietStep
        DEF Inv, Asleep, Retry, Waits, AtLoop, Receiving, Out, session, net

\* A thread becomes the receiver: nobody else is.
LEMMA ReceiveStep ==
    ASSUME Inv, NEW t \in Thread, Receive(t)
    PROVE  Inv'
<1>0. /\ pc[t] = "loop" /\ pc' = [pc EXCEPT ![t] = "recv"] /\ receiving' = TRUE /\ ~receiving
      /\ UNCHANGED <<calls, tag, dead, changed, call, tries, polling, late, requests, replies, closed, pendings,
                     inbox, owner, number, outcome, damaged, transport>>
  BY ZenonT(60) DEF Receive, Waits, AtLoop, locals, net
<1>1. TypeOK'
  BY <1>0 DEF Inv, TypeOK, InRpc, Receiving
<1>2. Listed' /\ TagsDiffer' /\ RightReply' /\ Asleep'
  BY <1>0, Shape, SameCalls DEF Inv, RightReply, Request, Asleep
<1>3. AllBelong' /\ NoPendings' /\ NothingLost'
  BY <1>0, Shape, BelongKept, LossKept DEF Inv, NoPendings, udp, Out, Receiving
<1>4. OneReceives'
  BY <1>0, Shape DEF Inv, OneReceives, Receiving
<1> QED BY <1>1, <1>2, <1>3, <1>4 DEF Inv

\* The receiver comes back, with a message or without one.
LEMMA WaitStep ==
    ASSUME Inv, NEW t \in Thread, Wait(t)
    PROVE  Inv'
<1>0. /\ pc[t] = "recv" /\ pc' = [pc EXCEPT ![t] = "got"]
      /\ inbox' \in replies \cup {NoReply("stray"), NoReply("timeout"), NoReply("eof")}
      /\ replies' \subseteq replies /\ \A m \in replies : m \in replies' \/ inbox' = m
      /\ UNCHANGED <<calls, tag, receiving, dead, changed, call, tries, polling, late, requests, closed, pendings,
                     owner, number, outcome, damaged, transport>>
  BY ZenonT(60) DEF Wait, Got, GotNothing, session, locals, net
<1>a. inbox.type \in Nothing
  BY <1>0 DEF Inv, OneReceives, NoReply, Nothing
<1>b. inbox' \in replies \/ (inbox'.type \in Nothing /\ inbox'.type # "pending")
  <2>1. ASSUME NEW why \in {"stray", "timeout", "eof"}, inbox' = NoReply(why)
        PROVE  inbox'.type \in Nothing /\ inbox'.type # "pending"
    BY <2>1 DEF NoReply, Nothing
  <2> QED BY <1>0, <2>1
<1>1. TypeOK'
  BY <1>0 DEF Inv, TypeOK, InRpc, Receiving, Nothing
<1>2. Listed' /\ TagsDiffer' /\ RightReply' /\ Asleep' /\ NoPendings'
  <2>1. \A u \in Thread : pc'[u] = IF u = t THEN "got" ELSE pc[u]
    BY <1>0, Shape
  <2>2. Listed' /\ TagsDiffer'
    <3>1. \A u \in Thread : pc'[u] = "idle" <=> pc[u] = "idle"
      BY <1>0, <2>1
    <3>2. UNCHANGED <<calls, number, call>>
      BY <1>0
    <3> QED BY <3>1, <3>2, SameCalls
  <2>3. RightReply'
    BY <1>0, ZenonT(60) DEF Inv, RightReply, Request
  <2>4. Asleep' /\ NoPendings'
    BY <1>0, <1>b, ZenonT(60) DEF Inv, Asleep, NoPendings, udp
  <2> QED BY <2>2, <2>3, <2>4
<1>3. AllBelong' /\ NothingLost'
  BY <1>0, <1>a, <1>b, Shape, NotMine, BelongKept, LossKept DEF Inv, Out, Receiving
<1>4. OneReceives'
  BY <1>0, Shape DEF Inv, OneReceives, Receiving
<1> QED BY <1>1, <1>2, <1>3, <1>4 DEF Inv

-----------------------------------------------------------------------------
(* What the receiver does with it                                          *)

\* What is no reply is dropped, or ends the session.
LEMMA DropStep ==
    ASSUME Inv, NEW t \in Thread, Drop(t)
    PROVE  Inv'
<1>1. TypeOK'
  BY ZenonT(60) DEF Inv, TypeOK, Drop, DoneReceiving, InRpc, Nothing, locals, net, udp
<1>2. \A u \in Thread : pc[u] \in Out => inbox.request # Request(u)
  BY NotMine DEF Drop, Out, Receiving
<1> QED BY <1>1, <1>2, TurnEnds, ZenonT(60) DEF Inv, Drop, Receiving, RightReply, Request, locals, net

\* A late copy of a reply is dropped: whoever it is for has it.
LEMMA DropLateStep ==
    ASSUME Inv, NEW t \in Thread, DropLate(t)
    PROVE  Inv'
<1>1. \A u \in Thread : pc[u] # "idle" /\ inbox.request = Request(u) => call[u].done
  BY OwnersAre, ZenonT(60) DEF Inv, AllBelong, Belongs, DropLate
<1>2. TypeOK'
  BY ZenonT(60) DEF Inv, TypeOK, DropLate, DoneReceiving, InRpc, Nothing, locals, net
<1> QED BY <1>1, <1>2, TurnEnds, ZenonT(60) DEF Inv, DropLate, Out, Receiving, RightReply, Request, locals, net

\* Rpending is noted in the call it is for.
LEMMA PendingStep ==
    ASSUME Inv, NEW t \in Thread, Pending(t)
    PROVE  Inv'
<1>1. udp
  BY DEF Inv, NoPendings, Pending
<1>2. /\ call' \in [Thread -> Call_]
      /\ \A u \in Thread : /\ call'[u].tag = call[u].tag /\ call'[u].done = call[u].done
                           /\ call'[u].len = call[u].len /\ call'[u].rx = call[u].rx
  <2>1. PICK u \in Thread : call' = [call EXCEPT ![u].pending = TRUE]
    BY OwnersAre, ZenonT(60) DEF Pending
  <2> QED BY <2>1, PendingSet, ZenonT(60) DEF Inv
<1>3. TypeOK'
  BY <1>2, ZenonT(60) DEF Inv, TypeOK, Pending, DoneReceiving, InRpc, Nothing, net
<1> QED BY <1>1, <1>2, <1>3, TurnEnds DEF Inv, Pending, Receiving, RightReply, Request, net

\* The receiver has found the call whose request the reply answers.
LEMMA HandOverStep ==
    ASSUME Inv, NEW t \in Thread, HandOver(t)
    PROVE  Inv'
<1>0. /\ pc[t] = "got" /\ pc' = [pc EXCEPT ![t] = "copy"] /\ inbox.type = "reply"
      /\ UNCHANGED <<calls, tag, receiving, dead, changed, call, tries, polling, late, requests, replies, closed,
                     pendings, inbox, number, outcome, damaged, transport>>
  BY DEF HandOver, session, locals, net
<1>a. owner' = inbox.request
  <2>1. PICK u \in Owners : owner' = Request(u)
    BY DEF HandOver
  <2> QED BY <1>0, <2>1, OwnersAre, ZenonT(60) DEF Inv, AllBelong, Belongs, Nothing
<1>1. TypeOK'
  <2>1. inbox.request \in Requests
    BY <1>0, InboxRequest DEF Inv, Nothing
  <2> QED BY <1>0, <1>a, <2>1 DEF Inv, TypeOK, InRpc, Receiving
<1>2. Listed' /\ TagsDiffer' /\ RightReply' /\ Asleep' /\ NoPendings'
  BY <1>0, Shape, SameCalls, ZenonT(60) DEF Inv, RightReply, Request, Asleep, NoPendings, udp
<1>3. AllBelong' /\ NothingLost'
  BY <1>0, Shape, BelongKept, LossKept DEF Inv, Out, Receiving
<1>4. OneReceives'
  BY <1>0, <1>a, Shape DEF Inv, OneReceives, Receiving
<1> QED BY <1>1, <1>2, <1>3, <1>4 DEF Inv

\* The copy: the call the reply is for is done, unless it is over.
LEMMA CopyStep ==
    ASSUME Inv, NEW t \in Thread, Copy(t)
    PROVE  Inv'
<1>1. inbox.request = owner /\ owner \in Requests
  <2>1. inbox.type = "reply" /\ inbox.request = owner
    BY DEF Copy, Inv, OneReceives
  <2> QED BY <2>1, InboxRequest DEF Inv, Nothing
<1>2. owner.thread \in Thread /\ owner = [thread |-> owner.thread, n |-> owner.n]
  BY <1>1 DEF Requests
<1>3. /\ call' \in [Thread -> Call_]
      /\ \A u \in Thread : call'[u].tag = call[u].tag
      /\ \A u \in Thread : u # owner.thread => call'[u] = call[u]
      /\ Over(owner) => call' = call
      /\ ~Over(owner) => /\ call'[owner.thread].done /\ call'[owner.thread].rx = owner
                         /\ Request(owner.thread) = owner
  <2>1. CASE Over(owner)
    BY <2>1, Shape DEF Copy
  <2>2. CASE ~Over(owner)
    <3>1. call' = [call EXCEPT ![owner.thread] = [@ EXCEPT !.rx = owner, !.len = "reply", !.done = TRUE]]
      BY <1>1, <2>2 DEF Copy
    <3>2. Request(owner.thread) = owner
      BY <1>2, <2>2 DEF Over, Request
    <3> HIDE DEF Over
    <3> QED BY <1>1, <1>2, <2>2, <3>1, <3>2, ReplySet, ZenonT(60) DEF Inv
  <2> QED BY <2>1, <2>2
<1>4. TypeOK'
  BY <1>3, ZenonT(60) DEF Inv, TypeOK, Copy, Over, DoneReceiving, InRpc, Nothing, net
<1>5. ASSUME NEW u \in Thread, pc[u] \in Out, ~call'[u].done
      PROVE  ~call[u].done /\ inbox.request # Request(u)
  <2>1. pc[u] # "idle"
    BY <1>5 DEF Out, Receiving
  <2>2. CASE Over(owner)
    BY <1>1, <1>3, <1>5, <2>1, <2>2 DEF Over, Request
  <2>3. CASE ~Over(owner)
    BY <1>1, <1>2, <1>3, <1>5, <2>3 DEF Request
  <2> QED BY <2>2, <2>3
<1>6. RightReply'
  BY <1>2, <1>3 DEF Inv, RightReply, Request, Copy
<1> QED BY <1>3, <1>4, <1>5, <1>6, TurnEnds DEF Copy, Receiving, net

-----------------------------------------------------------------------------
(* The server and the network                                              *)

\* The server answers, for good or with Rpending.
LEMMA AnswerStep ==
    ASSUME Inv, NEW m \in requests, Answer(m) \/ AnswerPending(m)
    PROVE  Inv'
<1>1. PICK type \in {"reply", "pending"} :
        /\ replies' = replies \cup {[tag |-> m.tag, request |-> m.request, type |-> type]}
        /\ type = "reply" \/ udp
  BY DEF Answer, AnswerPending
<1> DEFINE new == [tag |-> m.tag, request |-> m.request, type |-> type]
<1>2. new \in Reply /\ new.tag = m.tag /\ new.request = m.request /\ new.type = type
  BY DEF Inv, TypeOK, Reply
<1> HIDE DEF new
<1>3. replies' = replies \cup {new} /\ (type = "reply" \/ udp)
  BY <1>1 DEF new
<1>4. pendings' \in 0 .. MaxPending /\ requests' \subseteq requests /\ requests \ {m} \subseteq requests'
  BY ZrpClientAssumption DEF Inv, TypeOK, Answer, AnswerPending
<1>5. UNCHANGED <<Environment, closed>>
  BY DEF Answer, AnswerPending
<1>6. TypeOK'
  BY <1>2, <1>3, <1>4, <1>5 DEF Inv, TypeOK, Environment, session, locals
<1> QED BY <1>2, <1>3, <1>4, <1>5, <1>6, QuietStep, ZenonT(60) DEF Inv, Asleep, Environment, session, locals, Out

\* The network loses a message, or the server closes the channel.
LEMMA NetworkStep ==
    ASSUME Inv, Lose \/ Close
    PROVE  Inv'
<1>1. TypeOK'
  BY ZenonT(60) DEF Inv, TypeOK, Lose, Close, Environment, session, locals
<1>2. UNCHANGED Environment /\ changed' = changed /\ dead' = dead
  BY DEF Lose, Close, Environment, session
<1>3. /\ requests' \subseteq requests /\ replies' \subseteq replies /\ (closed => closed')
      /\ udp \/ UNCHANGED <<requests, replies>>
  BY DEF Lose, Close
<1> QED BY <1>1, <1>2, <1>3, QuietStep DEF Inv, Asleep, Environment, session, locals

-----------------------------------------------------------------------------
\* A session starts without calls.
LEMMA InitInv == Init => Inv
<1> SUFFICES ASSUME Init PROVE Inv
  OBVIOUS
<1>1. TypeOK
  <2>1. 0 \in Tags /\ 0 \in 0 .. TRIES /\ 0 \in 0 .. MaxPending
    <3>1. Cardinality(Thread) \in Nat
      BY ZrpClientAssumption, FS_CardinalityType
    <3> QED BY <3>1, ZrpClientAssumption DEF Tags
  <2>2. [tag |-> 0, done |-> FALSE, pending |-> FALSE, len |-> "none", rx |-> NoRequest] \in Call_
    BY <2>1 DEF Call_, Len_
  <2>3. calls \in Seq(Thread)
    BY DEF Init
  <2> QED BY <2>1, <2>2, <2>3, ZenonT(60) DEF Init, TypeOK, Len_, InRpc, Nothing
<1>2. Listed
  BY DEF Init, Listed, Once, On
<1>3. TagsDiffer /\ AllBelong /\ NoPendings /\ Asleep /\ NothingLost /\ RightReply
  BY DEF Init, TagsDiffer, AllBelong, NoPendings, Asleep, NothingLost, RightReply, NoReply, Nothing, Receiving
<1>4. OneReceives
  BY DEF Init, OneReceives, Receiving, NoReply
<1> QED BY <1>1, <1>2, <1>3, <1>4 DEF Inv

\* Every step keeps the invariant.
LEMMA StepInv == Inv /\ [Next]_vars => Inv'
<1> SUFFICES ASSUME Inv, [Next]_vars PROVE Inv'
  OBVIOUS
<1>1. CASE UNCHANGED vars
  <2>1. TypeOK'
    BY <1>1 DEF vars, session, locals, net, Inv, TypeOK
  <2> QED BY <1>1, <2>1, QuietStep, ZenonT(60) DEF vars, session, locals, net, Inv, Asleep
<1>2. ASSUME NEW t \in Thread, Begin(t) \/ Rpc(t) \/ Expire(t) \/ Wait(t) PROVE Inv'
  BY <1>2, BeginStep, WaitStep, StartStep, SendStep, LoopStep, RetryStep, ReceiveStep, DropStep, DropLateStep,
     PendingStep, HandOverStep, CopyStep, EndStep DEF Rpc
<1>3. ASSUME NEW m \in requests, Answer(m) \/ AnswerPending(m) PROVE Inv'
  BY <1>3, AnswerStep
<1> QED BY <1>1, <1>2, <1>3, NetworkStep DEF Next

\* rpc, begin and next_tag: whatever the network does and however many threads
\* share a session, no two requests in flight have one tag, every reply gets to
\* the thread that asked for it, an open channel loses no request, and nobody
\* sleeps in a session that is dead.
THEOREM SessionsAreSound == Spec => []SessionSound
<1>1. Inv => SessionSound
  BY DEF Inv, SessionSound, DeadWakesAll, Asleep
<1> QED BY <1>1, InitInv, StepInv, PTL DEF Spec

\* rpc: a thread sleeps on s->changed only while exactly one other receives for
\* everybody.
THEOREM OneReceiver == Spec => []SomeoneReceives
<1>1. Inv => SomeoneReceives
  <2> SUFFICES ASSUME Inv, receiving
               PROVE  Cardinality({t \in Thread : pc[t] \in Receiving}) = 1
    BY DEF SomeoneReceives, Inv, Asleep
  <2>1. PICK t \in Thread : pc[t] \in Receiving
    BY DEF Inv, OneReceives
  <2>2. {u \in Thread : pc[u] \in Receiving} = {t}
    BY <2>1 DEF Inv, OneReceives
  <2> QED BY <2>2, FS_Singleton
<1> QED BY <1>1, InitInv, StepInv, PTL DEF Spec
=============================================================================
