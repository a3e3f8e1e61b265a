----------------------------- MODULE PipeProofs -----------------------------
(***************************************************************************)
(* Proofs about pipes, for any number of threads on either side, any       *)
(* capacity and any lengths of reads and writes: a direction is a stream   *)
(* without gaps, nobody sleeps for nothing, end of file is told truly, and *)
(* what is freed is used by no call.                                       *)
(***************************************************************************)
EXTENDS PipeSteps, FiniteSetTheorems

\* The provers, in the order and with the seconds that suit these proofs.
USE SMTT(2), ZenonT(10), SMTT(40), ZenonT(60)

\* The size of a set of threads is a number, 0 for no thread only, and goes
\* down by one with each thread taken out.
LEMMA Sizes ==
    ASSUME NEW S, S \subseteq Thread
    PROVE  /\ Cardinality(S) \in Nat /\ (Cardinality(S) = 0 => S = {})
           /\ \A t \in S : Cardinality(S \ {t}) = Cardinality(S) - 1
<1>1. IsFiniteSet(S)
  BY FS_Subset, PipeAssumption
<1>2. Cardinality(S) \in Nat /\ (Cardinality(S) = 0 => S = {})
  BY <1>1, FS_CardinalityType, FS_EmptySet
<1>3. \A t \in S : Cardinality(S \ {t}) = Cardinality(S) - 1
  BY <1>1, FS_RemoveElement
<1> QED
  BY <1>2, <1>3

\* Who holds a reference changes with vnode_unref only.
LEMMA HoldersKept ==
    ASSUME TypeOK, Counted, NEW t \in Thread, NEW l, pc' = [pc EXCEPT ![t] = l],
           pc[t] \in Holding <=> l \in Holding, refs' = refs
    PROVE  Counted'
<1>1. \A i \in Ends : Holders(i)' = Holders(i)
  BY Shape DEF Holders
<1> QED
  BY <1>1 DEF Counted

\* A reference is counted while a thread holds it.
LEMMA CountedStep ==
    ASSUME Inv, NEW t \in Thread, Step(t)
    PROVE  Counted'
<1>0. TypeOK /\ Counted
  BY DEF Inv
<1>1. CASE pc' = pc /\ refs' = refs
  BY <1>0, <1>1 DEF Counted, Holders
<1>2. CASE \E l : pc' = [pc EXCEPT ![t] = l] /\ (pc[t] \in Holding <=> l \in Holding) /\ refs' = refs
  BY <1>0, <1>2, HoldersKept, ZenonT(60)
<1>3. CASE VnodeUnref(t)
  <2> DEFINE i == Side[t]
  <2>1. /\ i \in Ends /\ pc[t] = "ready" /\ refs[i] \in Nat
        /\ refs' = [refs EXCEPT ![i] = refs[i] - 1]
        /\ pc' = [pc EXCEPT ![t] = IF refs[i] = 1 THEN "close" ELSE "gone"]
    BY <1>0, <1>3, Shape, Sides DEF VnodeUnref
  <2>2. /\ t \in Holders(i) /\ Holders(i)' = Holders(i) \ {t}
        /\ \A j \in Ends : j # i => Holders(j)' = Holders(j)
    BY <1>0, <2>1, Shape DEF Holders, Holding, Calling
  <2>4. Cardinality(Holders(i)') = Cardinality(Holders(i)) - 1
    BY <2>2, Sizes DEF Holders
  <2>5. \A j \in Ends : refs'[j] = IF j = i THEN refs[j] - 1 ELSE refs[j]
    BY <1>0, <2>1, Shape
  <2> QED
    BY <1>0, <2>1, <2>2, <2>4, <2>5, ZenonT(60) DEF Counted
<1>4. CASE Start(t)
  <2>1. pc[t] = "ready" /\ refs' = refs /\ \E op \in Calling : pc' = [pc EXCEPT ![t] = op]
    BY <1>4 DEF Start, Call, Calling, pipe
  <2> QED
    BY <1>2, <2>1, ZenonT(60) DEF Holding
<1>5. CASE Run(t) \/ TimeOut(t)
  <2> SUFFICES \/ pc' = pc /\ refs' = refs
               \/ \E l : pc' = [pc EXCEPT ![t] = l] /\ (pc[t] \in Holding <=> l \in Holding) /\ refs' = refs
    BY <1>1, <1>2
  <2>1. CASE TimeOut(t)
    BY <2>1, ZenonT(60) DEF TimeOut, Return, Inv, Sleepers, Asleep, Holding, Calling, pipe
  <2>2. CASE Run(t)
    BY <2>2, ZenonT(60) DEF Run, RecvSleep, RecvEof, RecvTake, RecvWake, SendSleep, SendEpipe, SendQueue,
       SendWake, SendNotify, PollSleep, PollReady, EndRelease, ReleaseWakeReader, ReleaseWakeWriter,
       ReleaseNotify, ReleaseFree, Return, pipe, waits, calls, count, Holding, Calling
  <2> QED
    BY <1>5, <2>1, <2>2
<1> QED
  BY <1>3, <1>4, <1>5 DEF Step

\* Whoever is in a call holds a reference.
LEMMA HeldStep ==
    ASSUME TypeOK', Counted'
    PROVE  Held'
<1> SUFFICES ASSUME NEW t \in Thread, pc'[t] \in Holding
             PROVE  refs'[Side[t]] # 0
  BY DEF Held
<1>1. Side[t] \in Ends /\ t \in Holders(Side[t])' /\ Holders(Side[t])' \subseteq Thread
  BY Sides DEF Holders
<1>2. refs'[Side[t]] = Cardinality(Holders(Side[t])')
  BY <1>1 DEF Counted
<1> QED
  BY <1>1, <1>2, Sizes

\* A pipe starts empty, with a reference for each thread.
LEMMA InitInv == Init => Inv
<1> SUFFICES ASSUME Init
             PROVE  Inv
  OBVIOUS
<1>1. \A i \in Ends : Holders(i) = {t \in Thread : Side[t] = i}
  BY DEF Init, Holders, Holding
<1>2. Counted /\ \A i \in Ends : refs[i] \in Nat
  <2>1. \A i \in Ends : refs[i] = Cardinality({t \in Thread : Side[t] = i})
    BY DEF Init
  <2>2. \A i \in Ends : {t \in Thread : Side[t] = i} \subseteq Thread
    OBVIOUS
  <2>3. \A i \in Ends : refs[i] \in Nat
    BY <2>1, <2>2, Sizes
  <2> QED
    BY <1>1, <2>1, <2>3 DEF Counted
<1>h. Held
  <2> SUFFICES ASSUME NEW t \in Thread
               PROVE  refs[Side[t]] # 0
    BY DEF Held
  <2>1. Side[t] \in Ends /\ t \in Holders(Side[t]) /\ Holders(Side[t]) \subseteq Thread
    BY <1>1, Sides DEF Holders
  <2> QED
    BY <1>2, <2>1, Sizes DEF Counted
<1>3. TypeOK
  <2>1. queue \in [Ends -> Seq([first : Nat, len : Nat, pos : Nat])] /\ left \in [Ends -> Nat]
    BY PipeAssumption DEF Init, Ends
  <2>2. refs \in [Ends -> Nat]
    BY <1>2 DEF Init
  <2> QED
    BY <2>1, <2>2, ZenonT(60) DEF Init, TypeOK
<1>4. Streams
  <2>1. Stream(<<>>, 0, 0, 0)
    BY PipeAssumption DEF Stream, Within, Chained, Ordered, Room
  <2> QED
    BY <2>1 DEF Init, Streams
<1>5. Closes /\ Sleepers
  BY DEF Init, Closes, Sleepers
<1>6. WakesToCome
  BY Sides DEF Init, WakesToCome, ReadersWoken, WritersStillWoken, PollersStillWoken
<1> QED
  BY <1>2, <1>h, <1>3, <1>4, <1>5, <1>6 DEF Inv

\* Every step keeps the invariant.
LEMMA StepInv == Inv /\ [Next]_vars => Inv'
<1> SUFFICES ASSUME Inv, [Next]_vars
             PROVE  Inv'
  OBVIOUS
<1>1. CASE Next
  <2>1. PICK t \in Thread : Step(t)
    BY <1>1 DEF Next, Step
  <2> QED
    BY <2>1, TypeStep, StreamsStep, ClosesStep, CountedStep, HeldStep, SleepersStep, ReadersStep, WritersStep, PollersStep
    DEF Inv, WakesToCome
<1>2. CASE UNCHANGED vars
  <2>0. UNCHANGED <<queue, bytes, open, refs, freed, damaged, last, readable, writable, pollers, pc, len, timed, sent, got, left>>
    BY <1>2 DEF vars, pipe, waits, calls, count
  <2>1. TypeOK'
    BY <2>0, Zenon DEF Inv, TypeOK
  <2>2. Streams' /\ Closes'
    BY <2>0 DEF Inv, Streams, Closes
  <2>3. Counted' /\ Held' /\ Sleepers'
    <3>1. \A i \in Ends : Holders(i)' = Holders(i)
      BY <2>0 DEF Holders
    <3> QED
      BY <2>0, <3>1 DEF Inv, Counted, Held, Sleepers
  <2>4. WakesToCome'
    BY <2>0 DEF Inv, WakesToCome, ReadersWoken, WritersStillWoken, PollersStillWoken, RecvWaits, SendWaits, EndPoll
  <2> QED
    BY <2>1, <2>2, <2>3, <2>4 DEF Inv
<1> QED
  BY <1>1, <1>2

\* The invariant holds always.
LEMMA InvHolds == Spec => []Inv
BY InitInv, StepInv, PTL DEF Spec

\* What the invariant says of a pipe.
LEMMA InvIsSound == Inv => PipeSound
<1> SUFFICES ASSUME Inv
             PROVE  PipeSound
  OBVIOUS
<1>1. BytesInOrder
  BY ZenonT(60) DEF Inv, Streams, BytesInOrder, Stream, Within, Chained
<1>2. CapacityKept
  <2> SUFFICES ASSUME NEW i \in Ends
               PROVE  /\ bytes[i] = IF queue[i] = <<>> THEN 0 ELSE sent[i] - queue[i][1].first
                      /\ bytes[i] > Capacity => \E k \in 1..Len(queue[i]) : queue[i][k].len = bytes[i]
    BY DEF CapacityKept
  <2>1. CASE freed
    BY <2>1, PipeAssumption DEF Inv, Streams
  <2>2. CASE ~freed
    <3>1. Stream(queue[i], bytes[i], sent[i], got[i]) /\ bytes[i] \in Nat /\ queue[i] \in Seq(Message)
      BY <2>2, Shape DEF Inv, Streams
    <3>2. queue[i] # <<>> => queue[i][1].first \in Nat
      BY <3>1, Messages
    <3> QED
      BY <3>1, <3>2 DEF Stream, Room
  <2> QED
    BY <2>1, <2>2, ZenonT(60)
<1>3. FreedWhenBothClosed
  <2> SUFFICES ASSUME freed
               PROVE  /\ \A i \in Ends : queue[i] = <<>> /\ refs[i] = 0 /\ ~open[i]
                      /\ \A t \in Thread : ~Asleep(t) /\ pc[t] \notin Calling
    BY DEF FreedWhenBothClosed
  <2>1. \A i \in Ends : queue[i] = <<>> /\ refs[i] = 0 /\ ~open[i]
    BY DEF Inv, Closes, Streams
  <2>2. \A t \in Thread : pc[t] \notin Calling
    BY <2>1, ClosedEnds, Sides DEF Inv, Holding
  <2> QED
    BY <2>1, <2>2 DEF Inv, Sleepers, Asleep, Calling
<1>4. NoLostWake
  BY DEF Inv, WakesToCome, NoLostWake, WritersWoken, PollersWoken, WritersStillWoken, PollersStillWoken, Releasing
<1> QED
  BY <1>1, <1>2, <1>3, <1>4 DEF Inv, PipeSound

\* A pipe loses no byte and no wake, keeps to its capacity and is freed when
\* nobody can use it (pipe_send, pipe_recv, end_release), whoever uses it.
THEOREM PipesAreSound == Spec => []PipeSound
BY InvHolds, InvIsSound, PTL

\* End of file and EPIPE are told when the other end is closed, and only after
\* everything that was sent has been read (pipe_recv, pipe_send).
THEOREM EndOfFileTold == Spec => EndOfFileIsTrue
<1>1. ASSUME Inv, NEW t \in Thread, RecvEof(t)
      PROVE  refs[Peer(Side[t])] = 0 /\ got[Side[t]] = sent[Side[t]]
  <2>1. ~open[Peer(Side[t])] /\ queue[Side[t]] = <<>> /\ pc[t] \in Holding
    BY <1>1 DEF RecvEof, RecvWaits, Holding, Calling
  <2>2. refs[Side[t]] # 0
    BY <1>1, <2>1, ClosedEnds, Sides, ZenonT(60) DEF Inv
  <2>3. ~freed
    BY <1>1, <2>2, Sides DEF Inv, Closes
  <2> QED
    BY <1>1, <2>1, <2>3, Sides, ZenonT(60) DEF Inv, Closes, Streams, Stream
<1>2. ASSUME Inv, NEW t \in Thread, SendEpipe(t)
      PROVE  refs[Peer(Side[t])] = 0
  BY <1>2, Sides DEF SendEpipe, Inv, Closes
<1>3. Inv /\ [Next]_vars => [\A t \in Thread : /\ RecvEof(t) => refs[Peer(Side[t])] = 0 /\ got[Side[t]] = sent[Side[t]]
                                               /\ SendEpipe(t) => refs[Peer(Side[t])] = 0]_vars
  BY <1>1, <1>2
<1> QED
  BY <1>3, InvHolds, PTL DEF Spec, EndOfFileIsTrue
=============================================================================
