-------------------------- MODULE SchedRefinement --------------------------
(***************************************************************************)
(* The scheduler implements WaitQueues, for any number of threads and wait *)
(* queues: every step of sched.c is a step its callers were promised or    *)
(* one they cannot see.  And a timed wait ends in a wake or in a timeout,  *)
(* never in both.                                                          *)
(***************************************************************************)
EXTENDS SchedProofs

\* The provers, in the order and with the seconds that suit these proofs.
USE SMTT(2), ZenonT(10), SMTT(40), ZenonT(60)

-----------------------------------------------------------------------------
\* A step after which the same threads are free, blocked and asleep cannot be
\* seen in Life.
LEMMA LifeSame ==
    ASSUME \A t \in Thread : state'[t] = "BLOCKED" <=> state[t] = "BLOCKED",
           \A t \in Thread : state'[t] = "SLEEPING" <=> state[t] = "SLEEPING",
           \A t \in Thread : state'[t] = "FREE" <=> state[t] = "FREE"
    PROVE  Life' = Life
BY DEF Life

\* A step that changes one thread.
LEMMA LifeOne ==
    ASSUME NEW t \in Thread, NEW how,
           how = CASE state'[t] = "FREE" -> "free"
                   [] state'[t] = "BLOCKED" -> "waiting"
                   [] state'[t] = "SLEEPING" -> "sleeping"
                   [] OTHER -> "ready",
           \A x \in Thread \ {t} : state'[x] = "BLOCKED" <=> state[x] = "BLOCKED",
           \A x \in Thread \ {t} : state'[x] = "SLEEPING" <=> state[x] = "SLEEPING",
           \A x \in Thread \ {t} : state'[x] = "FREE" <=> state[x] = "FREE"
    PROVE  Life' = [Life EXCEPT ![t] = how]
<1>1. Life = [x \in Thread |-> Life[x]] /\ Life' = [x \in Thread |-> Life'[x]]
  BY DEF Life
<1>2. Life'[t] = how BY DEF Life
<1>3. \A x \in Thread \ {t} : Life'[x] = Life[x] BY DEF Life
<1> QED BY <1>1, <1>2, <1>3

\* sched_init: the main thread is ready, nobody waits.
LEMMA InitRefines ==
    ASSUME Init
    PROVE  Waits!Init
<1>1. Timed = {}
  BY DEF Init, Timed, On
<1>2. Life \in [Thread -> {"free", "ready"}]
  <2>1. \A t \in Thread : state[t] \in {"FREE", "RUNNABLE", "RUNNING"}
    BY DEF Init, All
  <2> QED BY <2>1 DEF Life
<1> QED BY <1>1, <1>2 DEF Init, Waits!Init

\* Steps that callers cannot see.
LEMMA QuietRefines ==
    ASSUME Life' = Life, sleepers' = sleepers, waiters' = waiters, timed_out' = timed_out
    PROVE  UNCHANGED Waits!vars
BY DEF Waits!vars, Timed

\* thread_alloc makes a thread.
LEMMA AllocRefines ==
    ASSUME Inv, NEW t \in Thread, ThreadAlloc(t)
    PROVE  Waits!Spawn(t)
<1>1. \A x \in Thread : state'[x] = IF x = t THEN "RUNNABLE" ELSE state[x]
  BY CurrentFacts DEF ThreadAlloc, Inv, TypeOK
<1>2. Life' = [Life EXCEPT ![t] = "ready"]
  BY <1>1, LifeOne
<1>3. Life[t] = "free" BY DEF Life, ThreadAlloc
<1>4. waiters' = waiters /\ Timed' = Timed BY DEF ThreadAlloc, lists, Timed
<1> QED BY <1>2, <1>3, <1>4 DEF Waits!Spawn, Waits!Become, ThreadAlloc

\* What a caller that switches away has done to Life: x is the state it put
\* itself in.
LEMMA LeaveLife ==
    ASSUME Inv, Calling, NEW x \in {"SLEEPING", "BLOCKED", "DEAD"},
           Schedule([state EXCEPT ![current] = x], run_queue, <<>>)
    PROVE  /\ current \in Thread /\ Life[current] = "ready"
           /\ Life' = [Life EXCEPT ![current] =
                         CASE x = "SLEEPING" -> "sleeping" [] x = "BLOCKED" -> "waiting" [] OTHER -> "free"]
<1>1. current # Idle /\ current \in Thread /\ state[current] = "RUNNING"
  BY CurrentFacts DEF Calling
<1>2. /\ \A t \in Thread : state'[t] = "BLOCKED" <=>
            IF t = current THEN x = "BLOCKED" ELSE state[t] = "BLOCKED"
      /\ \A t \in Thread : state'[t] = "SLEEPING" <=>
            IF t = current THEN x = "SLEEPING" ELSE state[t] = "SLEEPING"
      /\ \A t \in Thread : state'[t] = "FREE" <=>
            IF t = current THEN x = "DEAD" ELSE state[t] = "FREE"
  BY <1>1, LeaveFacts
<1>3. Life[current] = "ready" BY <1>1 DEF Life
<1> DEFINE how == CASE x = "SLEEPING" -> "sleeping" [] x = "BLOCKED" -> "waiting" [] OTHER -> "free"
<1>4. how = CASE state'[current] = "FREE" -> "free"
              [] state'[current] = "BLOCKED" -> "waiting"
              [] state'[current] = "SLEEPING" -> "sleeping"
              [] OTHER -> "ready"
  BY <1>1, <1>2
<1> HIDE DEF how
<1>5. Life' = [Life EXCEPT ![current] = how]
  BY <1>1, <1>2, <1>4, LifeOne
<1> QED BY <1>1, <1>3, <1>5 DEF how

\* thread_yield.
LEMMA YieldRefines ==
    ASSUME Inv, ThreadYield
    PROVE  UNCHANGED Waits!vars
<1>1. [state EXCEPT ![current] = "RUNNING"] = state
  <2>1. current \in All /\ state[current] = "RUNNING" BY CurrentFacts DEF ThreadYield, Calling
  <2> QED BY <2>1 DEF Inv, TypeOK
<1>2. Schedule([state EXCEPT ![current] = "RUNNING"], run_queue, <<>>) /\ current # Idle
  BY <1>1 DEF ThreadYield, Calling
<1>3. state[current] = "RUNNING" BY CurrentFacts, <1>2
<1>4. /\ \A t \in Thread : state'[t] = "BLOCKED" <=> state[t] = "BLOCKED"
      /\ \A t \in Thread : state'[t] = "SLEEPING" <=> state[t] = "SLEEPING"
      /\ \A t \in Thread : state'[t] = "FREE" <=> state[t] = "FREE"
  BY <1>2, <1>3, LeaveFacts
<1> QED BY <1>4, LifeSame, QuietRefines DEF ThreadYield, waits

\* thread_sleep_until.
LEMMA SleepRefines ==
    ASSUME Inv, NEW tick \in Nat, ThreadSleepUntil(tick)
    PROVE  current \in Thread /\ Waits!Sleep(current)
<1>1. current \in Thread /\ Life[current] = "ready" /\ Life' = [Life EXCEPT ![current] = "sleeping"]
  <2>1. /\ Calling /\ Schedule([state EXCEPT ![current] = "SLEEPING"], run_queue, <<>>)
    BY DEF ThreadSleepUntil
  <2> QED BY <2>1, LeaveLife
<1>2. Timed' = Timed \cup {current}
  BY <1>1, SleepInsertFacts DEF ThreadSleepUntil, Timed
<1> QED BY <1>1, <1>2 DEF Waits!Sleep, Waits!Become, ThreadSleepUntil

\* waitq_sleep.
LEMMA WaitRefines ==
    ASSUME Inv, NEW w \in WaitQ, WaitqSleep(w)
    PROVE  current \in Thread /\ Waits!Wait(current, w)
<1>1. current \in Thread /\ Life[current] = "ready" /\ Life' = [Life EXCEPT ![current] = "waiting"]
  <2>1. Calling /\ Schedule([state EXCEPT ![current] = "BLOCKED"], run_queue, <<>>)
    BY DEF WaitqSleep
  <2> QED BY <2>1, LeaveLife
<1>2. Timed' = Timed BY DEF WaitqSleep, Timed
<1> QED BY <1>1, <1>2 DEF Waits!Wait, Waits!Become, WaitqSleep, waits

\* waitq_sleep_until.
LEMMA WaitUntilRefines ==
    ASSUME Inv, NEW w \in WaitQ, NEW tick \in Nat, WaitqSleepUntil(w, tick)
    PROVE  current \in Thread /\ Waits!WaitUntil(current, w)
<1>1. current \in Thread /\ Life[current] = "ready" /\ Life' = [Life EXCEPT ![current] = "waiting"]
  <2>1. Calling /\ Schedule([state EXCEPT ![current] = "BLOCKED"], run_queue, <<>>)
    BY DEF WaitqSleepUntil
  <2> QED BY <2>1, LeaveLife
<1>2. Timed' = Timed \cup {current}
  BY <1>1, SleepInsertFacts DEF WaitqSleepUntil, Timed
<1> QED BY <1>1, <1>2 DEF Waits!WaitUntil, Waits!Become, WaitqSleepUntil

\* thread_exit.
LEMMA ExitRefines ==
    ASSUME Inv, ThreadExit
    PROVE  current \in Thread /\ Waits!Finish(current)
<1>1. current \in Thread /\ Life[current] = "ready" /\ Life' = [Life EXCEPT ![current] = "free"]
  <2>1. Calling /\ Schedule([state EXCEPT ![current] = "DEAD"], run_queue, <<>>)
    BY DEF ThreadExit
  <2> QED BY <2>1, LeaveLife
<1>2. Timed' = Timed BY DEF ThreadExit, Timed
<1> QED BY <1>1, <1>2 DEF Waits!Finish, Waits!Become, ThreadExit, waits

-----------------------------------------------------------------------------
\* What waitq_pop of a thread that is there does to the queues and deadlines.
LEMMA PopRefines ==
    ASSUME Inv, NEW w \in WaitQ, waiters[w] # <<>>, WaitqPop(w), timed_out' = timed_out,
           LET t == Head(waiters[w]) IN
           /\ state'[t] \notin {"FREE", "BLOCKED", "SLEEPING"}
           /\ \A x \in Thread \ {t} : state'[x] = "BLOCKED" <=> state[x] = "BLOCKED"
           /\ \A x \in Thread \ {t} : state'[x] = "SLEEPING" <=> state[x] = "SLEEPING"
           /\ \A x \in Thread \ {t} : state'[x] = "FREE" <=> state[x] = "FREE"
    PROVE  Waits!Wake(w)
<1> DEFINE t == Head(waiters[w])
<1>1. t \in Thread /\ state[t] = "BLOCKED" BY PopFacts
<1>2. Life' = [Life EXCEPT ![t] = "ready"] BY <1>1, LifeOne
<1>3. Timed' = Timed \ {t}
  <2>1. sleepers \in Seq(Thread) /\ Once(sleepers) BY DEF Inv, TypeOK, WaitPlaced
  <2>2. CASE waiting_on[t] # NoWaitQ
    <3>1. sleepers' = Without(sleepers, t) BY <2>2 DEF WaitqPop
    <3>2. \A y : On(sleepers', y) <=> On(sleepers, y) /\ y # t
      BY <2>1, <3>1, WithoutFacts
    <3> QED BY <3>2 DEF Timed
  <2>3. CASE waiting_on[t] = NoWaitQ
    <3>1. sleepers' = sleepers /\ ~On(sleepers, t)
      BY <1>1, <2>3 DEF WaitqPop, Inv, WaitPlaced
    <3> QED BY <3>1 DEF Timed
  <2> QED BY <2>2, <2>3
<1>4. waiters' = [waiters EXCEPT ![w] = Tail(@)] BY DEF WaitqPop
<1> QED BY <1>2, <1>3, <1>4 DEF Waits!Wake, Waits!Become

\* The queue of the wake that is being done.
LEMMA WorkQueue ==
    ASSUME Inv, todo # <<>>, Head(todo).op \in {"one", "all"}
    PROVE  Head(todo).wq \in WaitQ
<1>1. Head(todo) \in Work BY HeadTailProperties DEF Inv, TypeOK
<1> QED BY <1>1 DEF Work

\* One round of waitq_wake_all.
LEMMA WakeAllNextRefines ==
    ASSUME Inv, WakeAllNext
    PROVE  \E w \in WaitQ : Waits!Wake(w)
<1> DEFINE w == Head(todo).wq
           t == Head(waiters[w])
<1>1. /\ w \in WaitQ /\ waiters[w] # <<>> /\ WaitqPop(w)
      /\ state' = [state EXCEPT ![t] = "RUNNABLE"] /\ timed_out' = timed_out
  BY WorkQueue DEF WakeAllNext
<1>2. t \in Thread BY <1>1, PopFacts
<1>3. \A x \in Thread : state'[x] = IF x = t THEN "RUNNABLE" ELSE state[x]
  BY <1>1, <1>2, CurrentFacts DEF Inv, TypeOK
<1> HIDE DEF w
<1>4. Waits!Wake(w) BY <1>1, <1>2, <1>3, PopRefines
<1> QED BY <1>1, <1>4

\* The end of waitq_wake_all, and waitq_wake_one when nobody waits.
LEMMA ReschedRefines ==
    ASSUME Inv, todo # <<>>, ReschedIfIdle(state, run_queue),
           UNCHANGED <<sleepers, waiters, timed_out>>
    PROVE  UNCHANGED Waits!vars
<1>1. /\ state \in [All -> State] /\ run_queue \in Seq(Thread)
      /\ ReadyPlaced(current, state, run_queue, Embryos)
  BY DEF Inv, TypeOK, State
<1>2. /\ \A t \in Thread : state'[t] = "BLOCKED" <=> state[t] = "BLOCKED"
      /\ \A t \in Thread : state'[t] = "SLEEPING" <=> state[t] = "SLEEPING"
      /\ \A t \in Thread : state'[t] = "FREE" <=> state[t] = "FREE"
  BY <1>1, ReschedFacts
<1> QED BY <1>2, LifeSame, QuietRefines

\* waitq_wake_one.
LEMMA WakeOneRefines ==
    ASSUME Inv, WaitqWakeOne
    PROVE  UNCHANGED Waits!vars \/ \E w \in WaitQ : Waits!Wake(w)
<1> DEFINE w == Head(todo).wq
           t == Head(waiters[w])
<1>1. w \in WaitQ /\ todo # <<>> /\ timed_out' = timed_out
  BY WorkQueue DEF WaitqWakeOne
<1>2. CASE waiters[w] = <<>>
  BY <1>1, <1>2, ReschedRefines DEF WaitqWakeOne
<1>3. CASE waiters[w] # <<>>
  <2> DEFINE st == [state EXCEPT ![t] = "RUNNABLE"]
             q == Append(run_queue, t)
  <2>1. WaitqPop(w) /\ ReschedIfIdle(st, q) BY <1>3 DEF WaitqWakeOne
  <2>2. t \in Thread /\ state[t] = "BLOCKED" BY <1>1, <1>3, <2>1, PopFacts
  <2>3. st \in [All -> State] /\ q \in Seq(Thread) /\ ReadyPlaced(current, st, q, Embryos)
    BY <2>2, ReadyFacts
  <2>4. \A x \in Thread : st[x] = IF x = t THEN "RUNNABLE" ELSE state[x]
    BY <2>2, CurrentFacts DEF Inv, TypeOK
  <2> HIDE DEF st, q, w
  <2>5. /\ \A x \in Thread : state'[x] = "BLOCKED" <=> st[x] = "BLOCKED"
        /\ \A x \in Thread : state'[x] = "SLEEPING" <=> st[x] = "SLEEPING"
        /\ \A x \in Thread : state'[x] = "FREE" <=> st[x] = "FREE"
    BY <1>1, <2>1, <2>3, ReschedFacts
  <2>6. Waits!Wake(w) BY <1>1, <1>3, <2>1, <2>2, <2>4, <2>5, PopRefines
  <2> QED BY <1>1, <2>6
<1> QED BY <1>2, <1>3

\* sched_tick ends a sleep or a timed wait.
LEMMA TickExpireRefines ==
    ASSUME Inv, TickExpire
    PROVE  \E t \in Thread : Waits!Oversleep(t) \/ \E w \in WaitQ : Waits!Expire(t, w)
<1> DEFINE t == Head(sleepers)
           w == waiting_on[t]
<1>1. /\ sleepers # <<>> /\ sleepers' = Tail(sleepers)
      /\ waiters' = [v \in WaitQ |-> IF v = w THEN Without(waiters[v], t) ELSE waiters[v]]
      /\ timed_out' = [timed_out EXCEPT ![t] = IF w # NoWaitQ THEN TRUE ELSE @]
      /\ state' = [state EXCEPT ![t] = "RUNNABLE"]
  BY DEF TickExpire
<1>2. /\ sleepers \in Seq(Thread) /\ Once(sleepers) /\ waiters \in [WaitQ -> Seq(Thread)]
      /\ timed_out \in [Thread -> BOOLEAN]
  BY DEF Inv, TypeOK, WaitPlaced
<1>3. /\ t \in Thread /\ On(sleepers, t)
      /\ \A y : On(sleepers', y) <=> On(sleepers, y) /\ y # t
  BY <1>1, <1>2, TailFacts
<1> HIDE DEF t
<1>4. Timed' = Timed \ {t} /\ t \in Timed BY <1>3 DEF Timed
<1>5. \A x \in Thread : state'[x] = IF x = t THEN "RUNNABLE" ELSE state[x]
  BY <1>1, <1>3, CurrentFacts DEF Inv, TypeOK
<1>6. Life' = [Life EXCEPT ![t] = "ready"] BY <1>3, <1>5, LifeOne
<1>7. w \in WaitQ \cup {NoWaitQ} BY <1>3 DEF Inv, TypeOK
<1>8. CASE w = NoWaitQ
  <2>1. Life[t] = "sleeping" BY <1>3, <1>8 DEF Inv, WaitPlaced, Life
  <2>2. waiters' = waiters BY <1>1, <1>2, <1>8, SchedAssumption
  <2>3. timed_out' = timed_out BY <1>1, <1>2, <1>8
  <2>4. Waits!Oversleep(t)
    BY <1>4, <1>6, <2>1, <2>2, <2>3 DEF Waits!Oversleep, Waits!Become
  <2> QED BY <1>3, <2>4
<1>9. CASE w # NoWaitQ
  <2>1. w \in WaitQ /\ On(waiters[w], t) BY <1>3, <1>7, <1>9 DEF Inv, WaitPlaced
  <2> HIDE DEF w
  <2>2. Life[t] = "waiting" BY <1>3, <2>1 DEF Inv, WaitPlaced, Life
  <2> DEFINE k == CHOOSE i \in 1..Len(waiters[w]) : waiters[w][i] = t
  <2>3. k \in 1..Len(waiters[w]) /\ waiters[w][k] = t BY <2>1 DEF On
  <2>4. Without(waiters[w], t) = UnlinkAt(waiters[w], k) BY <2>1 DEF Without, On
  <2> HIDE DEF k
  <2>5. waiters' = [waiters EXCEPT ![w] = UnlinkAt(@, k)] BY <1>1, <1>2, <2>1, <2>4
  <2>6. timed_out' = [timed_out EXCEPT ![t] = TRUE] BY <1>1, <1>9
  <2>7. Waits!Expire(t, w)
    BY <1>4, <1>6, <2>2, <2>3, <2>5, <2>6 DEF Waits!Expire, Waits!Become, Waits!UnlinkAt, UnlinkAt
  <2> QED BY <1>3, <2>1, <2>7
<1> QED BY <1>8, <1>9

\* The end of sched_tick.
LEMMA TickEndRefines ==
    ASSUME Inv, TickEnd
    PROVE  UNCHANGED Waits!vars
<1>1. UNCHANGED <<sleepers, waiters, timed_out>> BY DEF TickEnd, waits
<1>2. CASE UNCHANGED state
  <2>1. Life' = Life BY <1>2 DEF Life
  <2> QED BY <1>1, <2>1, QuietRefines
<1>3. CASE Schedule(state, run_queue, Tail(todo))
  <2>1. /\ state \in [All -> State] /\ run_queue \in Seq(Thread) /\ Tail(todo) \in Seq(Work)
        /\ ReadyPlaced(current, state, run_queue, Embryos)
    BY HeadTailProperties DEF TickEnd, Inv, TypeOK, State
  <2>2. /\ \A t \in Thread : state'[t] = "BLOCKED" <=> state[t] = "BLOCKED"
        /\ \A t \in Thread : state'[t] = "SLEEPING" <=> state[t] = "SLEEPING"
        /\ \A t \in Thread : state'[t] = "FREE" <=> state[t] = "FREE"
    BY <1>3, <2>1, SwitchFacts
  <2> QED BY <1>1, <2>2, LifeSame, QuietRefines
<1> QED BY <1>2, <1>3 DEF TickEnd

\* Steps that leave every thread's state and every list a caller sees alone.
LEMMA StillRefines ==
    ASSUME UNCHANGED <<state, sleepers, waiters, timed_out>>
    PROVE  UNCHANGED Waits!vars
<1>1. Life' = Life BY DEF Life
<1> QED BY <1>1, QuietRefines

\* Every step of the scheduler is a step of WaitQueues or invisible in it.
LEMMA NextRefines ==
    ASSUME Inv, [Next]_vars
    PROVE  [Waits!Next]_(Waits!vars)
<1>1. CASE UNCHANGED vars BY <1>1, StillRefines DEF vars, lists, waits
<1>2. ASSUME NEW t \in Thread, ThreadAlloc(t) PROVE Waits!Next
  BY <1>2, AllocRefines DEF Waits!Next
<1>3. CASE ThreadCreateIn \/ ThreadSetNamespace \/ ThreadExitUnref \/ SchedEnablePreemption
  BY <1>3, StillRefines
  DEF ThreadCreateIn, ThreadSetNamespace, ThreadExitUnref, SchedEnablePreemption, lists, waits
<1>4. CASE ThreadYield BY <1>4, YieldRefines
<1>5. ASSUME NEW tick \in 0..MaxTick, ThreadSleepUntil(tick) PROVE Waits!Next
  BY <1>5, SchedAssumption, SleepRefines DEF Waits!Next
<1>6. ASSUME NEW w \in WaitQ, WaitqSleep(w) PROVE Waits!Next
  BY <1>6, WaitRefines DEF Waits!Next
<1>7. ASSUME NEW w \in WaitQ, NEW tick \in 0..MaxTick, WaitqSleepUntil(w, tick) PROVE Waits!Next
  BY <1>7, SchedAssumption, WaitUntilRefines DEF Waits!Next
<1>8. CASE ThreadExit BY <1>8, ExitRefines DEF Waits!Next
<1>9. ASSUME NEW op \in {"one", "all"}, NEW w \in WaitQ, ThreadWake(op, w)
      PROVE  UNCHANGED Waits!vars
  BY <1>9, StillRefines DEF ThreadWake, lists, waits
<1>10. CASE WakeAllNext BY <1>10, WakeAllNextRefines DEF Waits!Next
<1>11. CASE WakeAllEnd BY <1>11, ReschedRefines DEF WakeAllEnd, waits
<1>12. CASE WaitqWakeOne BY <1>12, WakeOneRefines DEF Waits!Next
<1>13. CASE TickExpire BY <1>13, TickExpireRefines DEF Waits!Next
<1>14. CASE TickEnd BY <1>14, TickEndRefines
<1>15. CASE TimerTick BY <1>15, StillRefines DEF TimerTick, lists, waits
<1>16. ASSUME NEW wakes \in IrqHandlers, Irq(wakes) PROVE UNCHANGED Waits!vars
  BY <1>16, StillRefines DEF Irq, lists, waits
<1> QED
  BY <1>1, <1>2, <1>3, <1>4, <1>5, <1>6, <1>7, <1>8, <1>9, <1>10, <1>11, <1>12, <1>13, <1>14,
     <1>15, <1>16
  DEF Next, ThreadStep, IrqStep

\* The scheduler keeps the promises of sched.h: ready, waiting and sleeping are
\* all a caller can tell apart, wait queues are first in, first out, and only
\* the clock ends a wait that nobody ended.
THEOREM KeepsPromises == Spec => ImplementsWaitQueues
<1>1. Init => Waits!Init BY InitRefines
<1>2. Inv /\ [Next]_vars => [Waits!Next]_(Waits!vars) BY NextRefines
<1> QED BY <1>1, <1>2, InvHolds, PTL DEF Spec, ImplementsWaitQueues, Waits!Spec
-----------------------------------------------------------------------------
(***************************************************************************)
(* How a timed wait ends.                                                  *)
(***************************************************************************)

\* While a thread is in a timed wait, its timed_out is still FALSE.
NotYetExpired == \A t \in Thread : waiting_on[t] # NoWaitQ => ~timed_out[t]

\* waitq_sleep_until clears timed_out, and only sched_tick sets it, when it
\* ends the wait.
LEMMA NotYetExpiredStep ==
    ASSUME Inv, NotYetExpired, [Next]_vars
    PROVE  NotYetExpired'
<1>1. CASE UNCHANGED <<waiting_on, timed_out>> BY <1>1 DEF NotYetExpired
<1>2. /\ current # Idle => current \in Thread /\ waiting_on \in [Thread -> WaitQ \cup {NoWaitQ}]
      /\ timed_out \in [Thread -> BOOLEAN]
  BY CurrentFacts DEF Inv, TypeOK
<1>3. ASSUME NEW t \in Thread, ThreadAlloc(t) PROVE NotYetExpired'
  BY <1>2, <1>3 DEF ThreadAlloc, NotYetExpired
<1>4. ASSUME NEW w \in WaitQ, NEW tick \in 0..MaxTick, WaitqSleepUntil(w, tick) PROVE NotYetExpired'
  BY <1>2, <1>4 DEF WaitqSleepUntil, Calling, NotYetExpired
<1>5. ASSUME NEW w, waiting_on' = [waiting_on EXCEPT ![w] = NoWaitQ], timed_out' = timed_out
      PROVE  NotYetExpired'
  BY <1>2, <1>5 DEF NotYetExpired, Inv, TypeOK
<1>6. CASE WakeAllNext BY <1>5, <1>6 DEF WakeAllNext, WaitqPop
<1>7. CASE WaitqWakeOne BY <1>1, <1>5, <1>7 DEF WaitqWakeOne, WaitqPop
<1>8. CASE TickExpire
  <2>1. PICK t : /\ waiting_on' = [waiting_on EXCEPT ![t] = NoWaitQ]
                 /\ timed_out' = [timed_out EXCEPT ![t] = IF waiting_on[t] # NoWaitQ THEN TRUE ELSE @]
    BY <1>8 DEF TickExpire
  <2> QED BY <1>2, <2>1 DEF NotYetExpired, Inv, TypeOK
<1>9. CASE UNCHANGED vars \/ ThreadCreateIn \/ ThreadYield \/ ThreadSetNamespace \/ ThreadExitUnref
           \/ ThreadExit \/ SchedEnablePreemption \/ WakeAllEnd \/ TickEnd \/ TimerTick
  BY <1>1, <1>9
  DEF vars, ThreadCreateIn, ThreadYield, ThreadSetNamespace, ThreadExitUnref, ThreadExit,
      SchedEnablePreemption, WakeAllEnd, TickEnd, TimerTick, waits
<1>10. ASSUME NEW tick, ThreadSleepUntil(tick) PROVE NotYetExpired'
  BY <1>1, <1>10 DEF ThreadSleepUntil
<1>11. ASSUME NEW w, WaitqSleep(w) PROVE NotYetExpired'
  BY <1>1, <1>11 DEF WaitqSleep, waits
<1>12. ASSUME NEW op, NEW w, ThreadWake(op, w) PROVE NotYetExpired'
  BY <1>1, <1>12 DEF ThreadWake, waits
<1>13. ASSUME NEW wakes, Irq(wakes) PROVE NotYetExpired'
  BY <1>1, <1>13 DEF Irq, waits
<1> QED
  BY <1>3, <1>4, <1>6, <1>7, <1>8, <1>9, <1>10, <1>11, <1>12, <1>13 DEF Next, ThreadStep, IrqStep

\* Only a wake or the clock ends a timed wait.
LEMMA WhoEndsWaits ==
    ASSUME Inv, Next, NEW t \in Thread, state[t] = "BLOCKED", state'[t] # "BLOCKED"
    PROVE  WakeAllNext \/ WaitqWakeOne \/ TickExpire
<1>1. Life[t] = "waiting" /\ Life'[t] # "waiting"
  <2>1. Life[t] = "waiting" BY DEF Life
  <2>2. Life'[t] # "waiting" BY DEF Life
  <2> QED BY <2>1, <2>2
<1>2. ASSUME NEW x \in Thread, Life[x] # "waiting", NEW how, Life' = [Life EXCEPT ![x] = how]
      PROVE  FALSE
  <2>1. Life = [y \in Thread |-> Life[y]] BY DEF Life
  <2> QED BY <1>1, <1>2, <2>1
<1>3. UNCHANGED Waits!vars => FALSE BY <1>1 DEF Waits!vars
<1>4. ASSUME NEW x \in Thread, ThreadAlloc(x) PROVE FALSE
  BY <1>2, <1>4, AllocRefines DEF Waits!Spawn, Waits!Become
<1>5. CASE ThreadCreateIn \/ ThreadSetNamespace \/ ThreadExitUnref \/ SchedEnablePreemption
           \/ TimerTick
  BY <1>5
  DEF ThreadCreateIn, ThreadSetNamespace, ThreadExitUnref, SchedEnablePreemption, TimerTick
<1>6. ThreadYield => FALSE BY <1>3, YieldRefines
<1>7. ASSUME NEW tick \in 0..MaxTick, ThreadSleepUntil(tick) PROVE FALSE
  BY <1>2, <1>7, SchedAssumption, SleepRefines DEF Waits!Sleep, Waits!Become
<1>8. ASSUME NEW w \in WaitQ, WaitqSleep(w) PROVE FALSE
  BY <1>2, <1>8, WaitRefines DEF Waits!Wait, Waits!Become
<1>9. ASSUME NEW w \in WaitQ, NEW tick \in 0..MaxTick, WaitqSleepUntil(w, tick) PROVE FALSE
  BY <1>2, <1>9, SchedAssumption, WaitUntilRefines DEF Waits!WaitUntil, Waits!Become
<1>10. ThreadExit => FALSE BY <1>2, ExitRefines DEF Waits!Finish, Waits!Become
<1>11. ASSUME NEW op, NEW w, ThreadWake(op, w) PROVE FALSE BY <1>11 DEF ThreadWake
<1>12. ASSUME NEW wakes, Irq(wakes) PROVE FALSE BY <1>12 DEF Irq
<1>13. WakeAllEnd => FALSE BY <1>3, ReschedRefines DEF WakeAllEnd, waits
<1>14. TickEnd => FALSE BY <1>3, TickEndRefines
<1> QED
  BY <1>4, <1>5, <1>6, <1>7, <1>8, <1>9, <1>10, <1>11, <1>12, <1>13, <1>14
  DEF Next, ThreadStep, IrqStep

\* A thread that a wake ends the wait of is off the sleep list.
LEMMA WakeEndsWait ==
    ASSUME NEW w \in WaitQ, Waits!Wake(w), NEW t \in Thread,
           state[t] = "BLOCKED", state'[t] # "BLOCKED"
    PROVE  ~On(sleepers', t)
<1>1. Life[t] = "waiting" BY DEF Life
<1>2. Life'[t] # "waiting" BY DEF Life
<1>3. Life = [y \in Thread |-> Life[y]] BY DEF Life
<1>4. t = Head(waiters[w]) BY <1>1, <1>2, <1>3 DEF Waits!Wake, Waits!Become
<1>5. t \notin Timed' BY <1>4 DEF Waits!Wake
<1> QED BY <1>5 DEF Timed

\* A thread leaves waitq_sleep_until woken or timed out, never both, and the
\* one that is woken in time is not left on the sleep list.
THEOREM WaitsEndOnce == Spec => WokenOrTimedOut
<1> DEFINE A == \A t \in Thread :
                  waiting_on[t] # NoWaitQ /\ state'[t] # "BLOCKED" =>
                    /\ ~On(sleepers', t)
                    /\ timed_out'[t] => wake_tick[t] <= ticks
                    /\ timed_out'[t] <=> Head(todo).op = "tick"
<1>1. Init => NotYetExpired BY DEF Init, NotYetExpired
<1>2. Inv /\ NotYetExpired /\ [Next]_vars => NotYetExpired' BY NotYetExpiredStep
<1>3. Inv /\ NotYetExpired /\ [Next]_vars => [A]_vars
  <2> SUFFICES ASSUME Inv, NotYetExpired, Next, NEW t \in Thread,
                      waiting_on[t] # NoWaitQ, state'[t] # "BLOCKED"
               PROVE  /\ ~On(sleepers', t)
                      /\ timed_out'[t] => wake_tick[t] <= ticks
                      /\ timed_out'[t] <=> Head(todo).op = "tick"
    OBVIOUS
  <2>1. state[t] = "BLOCKED" /\ ~timed_out[t]
    <3>1. waiting_on[t] \in WaitQ /\ On(waiters[waiting_on[t]], t)
      BY DEF Inv, TypeOK, WaitPlaced
    <3> QED BY <3>1 DEF Inv, WaitPlaced, NotYetExpired
  <2>2. CASE WakeAllNext
    <3>1. \E w \in WaitQ : Waits!Wake(w) BY <2>2, WakeAllNextRefines
    <3>2. ~On(sleepers', t) BY <2>1, <3>1, WakeEndsWait
    <3>3. ~timed_out'[t] /\ Head(todo).op = "all" BY <2>1, <2>2 DEF WakeAllNext
    <3> QED BY <3>2, <3>3
  <2>3. CASE WaitqWakeOne
    <3>1. Life[t] = "waiting" BY <2>1 DEF Life
    <3>2. Life'[t] # "waiting" BY DEF Life
    <3>3. \E w \in WaitQ : Waits!Wake(w) BY <2>3, <3>1, <3>2, WakeOneRefines DEF Waits!vars
    <3>4. ~On(sleepers', t) BY <2>1, <3>3, WakeEndsWait
    <3>5. ~timed_out'[t] /\ Head(todo).op = "one" BY <2>1, <2>3 DEF WaitqWakeOne
    <3> QED BY <3>4, <3>5
  <2>4. CASE TickExpire
    <3> DEFINE s == Head(sleepers)
    <3>1. /\ sleepers # <<>> /\ sleepers' = Tail(sleepers) /\ wake_tick[s] <= ticks
          /\ state' = [state EXCEPT ![s] = "RUNNABLE"] /\ Head(todo).op = "tick"
          /\ timed_out' = [timed_out EXCEPT ![s] = IF waiting_on[s] # NoWaitQ THEN TRUE ELSE @]
      BY <2>4 DEF TickExpire
    <3>2. sleepers \in Seq(Thread) /\ Once(sleepers) BY DEF Inv, TypeOK, WaitPlaced
    <3>3. \A y : On(sleepers', y) <=> On(sleepers, y) /\ y # s
      BY <3>1, <3>2, TailFacts
    <3> HIDE DEF s
    <3>4. t = s BY <2>1, <3>1, CurrentFacts DEF Inv, TypeOK
    <3>5. timed_out'[t] BY <3>1, <3>4 DEF Inv, TypeOK
    <3> QED BY <3>1, <3>3, <3>4, <3>5
  <2> QED BY <2>1, <2>2, <2>3, <2>4, WhoEndsWaits
<1> QED BY <1>1, <1>2, <1>3, InvHolds, PTL DEF Spec, WokenOrTimedOut
=============================================================================
