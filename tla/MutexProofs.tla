---------------------------- MODULE MutexProofs ----------------------------
(***************************************************************************)
(* Proofs about the sleeping lock, for any number of threads.              *)
(***************************************************************************)
EXTENDS Mutex, ListProofs

\* The provers, in the order and with the seconds that suit these proofs.
USE SMTT(2), ZenonT(10), SMTT(40), ZenonT(60)

\* The invariant is inductive as it stands once all of it is taken together:
\* a woken thread is off the queue, so waking it twice is impossible.
Inv == TypeOK /\ MutualExclusion /\ WaitersQueued /\ FreeLockHasATaker

\* mutex_lock either takes a free lock or joins the queue.
LEMMA LockInv ==
    ASSUME Inv, NEW t \in Thread, MutexLock(t)
    PROVE  Inv'
<1>1. /\ at \in [Thread -> {"out", "waiting", "woken", "in"}] /\ waiters \in Seq(Thread)
      /\ Once(waiters) /\ ~On(waiters, t) /\ at[t] # "in" /\ at[t] # "waiting"
  BY DEF Inv, TypeOK, WaitersQueued, MutexLock
<1>2. CASE owner = NoThread
  <2>1. owner' = t /\ at' = [at EXCEPT ![t] = "in"] /\ waiters' = waiters
    BY <1>2 DEF MutexLock
  <2>2. \A x \in Thread : at'[x] = IF x = t THEN "in" ELSE at[x] BY <1>1, <2>1
  <2>3. TypeOK' BY <1>1, <2>1 DEF Inv, TypeOK
  <2>4. MutualExclusion' BY <1>2, <2>1, <2>2, MutexAssumption DEF Inv, MutualExclusion
  <2>5. WaitersQueued' BY <1>1, <2>1, <2>2 DEF Inv, WaitersQueued
  <2>6. FreeLockHasATaker' BY <2>1, MutexAssumption DEF FreeLockHasATaker
  <2> QED BY <2>3, <2>4, <2>5, <2>6 DEF Inv
<1>3. CASE owner # NoThread
  <2>1. /\ owner' = owner /\ at' = [at EXCEPT ![t] = "waiting"]
        /\ waiters' = Append(waiters, t)
    BY <1>3 DEF MutexLock
  <2>2. \A x \in Thread : at'[x] = IF x = t THEN "waiting" ELSE at[x] BY <1>1, <2>1
  <2>3. /\ waiters' \in Seq(Thread) /\ Once(waiters')
        /\ \A x : On(waiters', x) <=> On(waiters, x) \/ x = t
    BY <1>1, <2>1, AppendFacts
  <2>4. TypeOK' BY <1>1, <2>1, <2>3 DEF Inv, TypeOK
  <2>5. MutualExclusion' BY <1>1, <2>1, <2>2 DEF Inv, MutualExclusion
  <2>6. WaitersQueued' BY <2>2, <2>3 DEF Inv, WaitersQueued
  <2>7. FreeLockHasATaker' BY <1>3, <2>1 DEF FreeLockHasATaker
  <2> QED BY <2>4, <2>5, <2>6, <2>7 DEF Inv
<1> QED BY <1>2, <1>3

\* mutex_unlock frees the lock and wakes the first waiter.
LEMMA UnlockInv ==
    ASSUME Inv, NEW t \in Thread, MutexUnlock(t)
    PROVE  Inv'
<1>1. /\ at \in [Thread -> {"out", "waiting", "woken", "in"}] /\ waiters \in Seq(Thread)
      /\ Once(waiters) /\ ~On(waiters, t) /\ at[t] = "in" /\ owner = t
      /\ owner' = NoThread /\ \A x \in Thread : at[x] = "in" => x = t
  BY DEF Inv, TypeOK, WaitersQueued, MutexUnlock, MutualExclusion
<1>2. CASE waiters = <<>>
  <2>1. at' = [at EXCEPT ![t] = "out"] /\ waiters' = waiters BY <1>2 DEF MutexUnlock
  <2>2. \A x \in Thread : at'[x] = IF x = t THEN "out" ELSE at[x] BY <1>1, <2>1
  <2>3. TypeOK' BY <1>1, <2>1 DEF Inv, TypeOK
  <2>4. MutualExclusion' BY <1>1, <2>2, MutexAssumption DEF MutualExclusion
  <2>5. WaitersQueued' BY <1>1, <2>1, <2>2 DEF Inv, WaitersQueued
  <2>6. FreeLockHasATaker' BY <1>2, <2>1 DEF FreeLockHasATaker
  <2> QED BY <2>3, <2>4, <2>5, <2>6 DEF Inv
<1>3. CASE waiters # <<>>
  <2> DEFINE h == Head(waiters)
  <2>1. at' = [at EXCEPT ![t] = "out", ![h] = "woken"] /\ waiters' = Tail(waiters)
    BY <1>3 DEF MutexUnlock
  <2>2. /\ h \in Thread /\ waiters' \in Seq(Thread) /\ Once(waiters') /\ On(waiters, h)
        /\ \A x : On(waiters', x) <=> On(waiters, x) /\ x # h
    BY <1>1, <1>3, <2>1, TailFacts
  <2> HIDE DEF h
  <2>3. h # t BY <1>1, <2>2
  <2>4. \A x \in Thread : at'[x] = IF x = t THEN "out" ELSE IF x = h THEN "woken" ELSE at[x]
    BY <1>1, <2>1, <2>2, <2>3
  <2>5. TypeOK' BY <1>1, <2>1, <2>2 DEF Inv, TypeOK
  <2>6. MutualExclusion' BY <1>1, <2>4, MutexAssumption DEF MutualExclusion
  <2>7. WaitersQueued' BY <1>1, <2>2, <2>3, <2>4 DEF Inv, WaitersQueued
  <2>8. FreeLockHasATaker' BY <2>2, <2>3, <2>4 DEF FreeLockHasATaker
  <2> QED BY <2>5, <2>6, <2>7, <2>8 DEF Inv
<1> QED BY <1>2, <1>3

\* The invariant holds in every state the lock reaches.
THEOREM MutexInvHolds == Spec => []Inv
<1>1. Init => Inv
  <2> SUFFICES ASSUME Init PROVE Inv OBVIOUS
  <2>1. TypeOK BY EmptySeq DEF Init, TypeOK
  <2>2. MutualExclusion BY MutexAssumption DEF Init, MutualExclusion
  <2>3. WaitersQueued BY DEF Init, WaitersQueued, Once, On
  <2>4. FreeLockHasATaker BY DEF Init, FreeLockHasATaker
  <2> QED BY <2>1, <2>2, <2>3, <2>4 DEF Inv
<1>2. Inv /\ [Next]_vars => Inv'
  <2>1. CASE UNCHANGED vars
    BY <2>1 DEF vars, Inv, TypeOK, MutualExclusion, WaitersQueued, FreeLockHasATaker
  <2> QED BY <2>1, LockInv, UnlockInv DEF Next
<1> QED BY <1>1, <1>2, PTL DEF Spec

\* mutex_lock lets one thread in at a time.
THEOREM LockExcludes == Spec => []MutualExclusion
<1>1. Inv => MutualExclusion BY DEF Inv
<1> QED BY <1>1, MutexInvHolds, PTL

\* Waking one waiter per unlock is enough: a free lock somebody waits for
\* always has a woken thread on its way to it.
THEOREM LockNeverForgotten == Spec => []FreeLockHasATaker
<1>1. Inv => FreeLockHasATaker BY DEF Inv
<1> QED BY <1>1, MutexInvHolds, PTL
=============================================================================
