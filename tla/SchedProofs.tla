---------------------------- MODULE SchedProofs ----------------------------
(***************************************************************************)
(* Proofs about the scheduler: its lists and its thread states agree, the  *)
(* sleep list is sorted, the CPU is idle only when nothing is ready, and a *)
(* freed thread holds no namespace, for any number of threads and wait     *)
(* queues, any time slice and any interrupt handlers.                      *)
(***************************************************************************)
EXTENDS Sched, ListProofs

\* The provers, in the order and with the seconds that suit these proofs.
USE SMTT(2), ZenonT(10), SMTT(40), ZenonT(60)

(***************************************************************************)
(* The inductive invariant, and what the helpers -- schedule, the sleep    *)
(* list, wake_waiter -- do to it.                                          *)
(***************************************************************************)


State == {"FREE", "RUNNABLE", "RUNNING", "SLEEPING", "BLOCKED", "DEAD"}

\* The threads that are allocated and not yet queued.
Embryos == {t \in Thread : Embryo(t)}

\* The half of EveryThreadInItsPlace that is about running and being ready,
\* for thread cur, thread states st, run queue q and embryos E.
ReadyPlaced(cur, st, q, E) ==
    /\ Once(q)
    /\ \A t \in Thread : st[t] = "RUNNING" <=> t = cur
    /\ \A t \in Thread : On(q, t) <=> st[t] = "RUNNABLE" /\ t \notin E
    /\ \A t \in E : st[t] = "RUNNABLE"
    /\ \A t \in Thread : st[t] # "DEAD"
    /\ st[Idle] = IF cur = Idle THEN "RUNNING" ELSE "RUNNABLE"

\* The half that is about waiting, for the sleep list sl, the wait queues wq
\* and the timed waits on.
WaitPlaced(st, sl, wq, on) ==
    /\ Once(sl) /\ \A w \in WaitQ : Once(wq[w])
    /\ \A t \in Thread :
        /\ st[t] = "BLOCKED" <=> \E w \in WaitQ : On(wq[w], t)
        /\ \A v, w \in WaitQ : On(wq[v], t) /\ On(wq[w], t) => v = w
        /\ On(sl, t) <=> st[t] = "SLEEPING" \/ on[t] # NoWaitQ
        /\ on[t] # NoWaitQ => On(wq[on[t]], t)

\* Two creators never make the same thread.
MakingOnce ==
    \A c, d \in Thread : making[c] = making[d] /\ making[c] # NoThread => c = d

\* An exiting thread is still allocated and has let go of its namespace.
ExitingLetGo == \A t \in exiting : state[t] # "FREE" /\ ~has_ns[t]

\* The inductive invariant.
Inv ==
    /\ TypeOK
    /\ ReadyPlaced(current, state, run_queue, Embryos)
    /\ WaitPlaced(state, sleepers, waiters, waiting_on)
    /\ SleepersSorted
    /\ MakingOnce
    /\ IdleOnlyWhenNothingIsReady
    /\ ExitingLetGo
    /\ FreedWithoutNamespace

-----------------------------------------------------------------------------
\* What schedule() does to the caller's thread states and run queue.
LEMMA ScheduleType ==
    ASSUME TypeOK,
           NEW st \in [All -> State], NEW q \in Seq(Thread), NEW rest \in Seq(Work),
           Schedule(st, q, rest)
    PROVE  /\ current' \in All
           /\ state' \in [All -> State]
           /\ run_queue' \in Seq(Thread)
           /\ slice_left' \in 1..Slice
           /\ todo' \in Seq(Work)
           /\ idle_todo' \in Seq(Work)
<1> DEFINE ready == IF st[current] = "RUNNING" /\ current # Idle THEN Append(q, current) ELSE q
<1>1. ready \in Seq(Thread)
  <2>1. current # Idle => current \in Thread BY DEF TypeOK, All
  <2> QED BY <2>1, AppendFacts
<1>2. ready # <<>> => Head(ready) \in Thread /\ Tail(ready) \in Seq(Thread)
  BY <1>1, HeadTailProperties
<1>3. <<>> \in Seq(Thread) /\ <<>> \in Seq(Work)
  BY EmptySeq
<1>4. /\ current' = IF ready = <<>> THEN Idle ELSE Head(ready)
      /\ run_queue' = IF ready = <<>> THEN <<>> ELSE Tail(ready)
      /\ slice_left' = Slice
      /\ todo' = IF current' = Idle THEN idle_todo ELSE <<>>
      /\ idle_todo' = IF current = Idle THEN rest
                      ELSE IF current' = Idle THEN <<>> ELSE idle_todo
  BY DEF Schedule
<1>5. \E left \in State : state' = [st EXCEPT ![current] = left, ![current'] = "RUNNING"]
  <2> DEFINE left == CASE st[current] = "RUNNING" -> "RUNNABLE"
                       [] st[current] = "DEAD" -> "FREE"
                       [] OTHER -> st[current]
  <2>1. current \in All BY DEF TypeOK
  <2>2. left \in State BY <2>1 DEF State
  <2>3. state' = [st EXCEPT ![current] = left, ![current'] = "RUNNING"] BY DEF Schedule
  <2> QED BY <2>2, <2>3, ZenonT(60)
<1> HIDE DEF ready
<1>6. current' \in All /\ run_queue' \in Seq(Thread)
  BY <1>2, <1>3, <1>4 DEF All
<1>7. state' \in [All -> State]
  BY <1>5, <1>6 DEF State
<1>8. slice_left' \in 1..Slice
  BY <1>4, SchedAssumption
<1>9. todo' \in Seq(Work) /\ idle_todo' \in Seq(Work)
  BY <1>3, <1>4 DEF TypeOK
<1> QED BY <1>6, <1>7, <1>8, <1>9

\* schedule() keeps every thread in its place.  The caller has changed at most
\* the state of the current thread -- which is running, blocked, asleep or
\* dead -- and made threads ready.
LEMMA ScheduleFacts ==
    ASSUME TypeOK,
           NEW st \in [All -> State], NEW q \in Seq(Thread), NEW rest,
           NEW E \in SUBSET Thread,
           Schedule(st, q, rest),
           Once(q),
           st[current] \in {"RUNNING", "SLEEPING", "BLOCKED", "DEAD"},
           \A t \in Thread : t # current => st[t] # "RUNNING" /\ st[t] # "DEAD",
           \A t \in Thread : On(q, t) <=> st[t] = "RUNNABLE" /\ t \notin E,
           \A t \in E : st[t] = "RUNNABLE",
           st[Idle] = IF current = Idle THEN "RUNNING" ELSE "RUNNABLE"
    PROVE  /\ ReadyPlaced(current', state', run_queue', E)
           /\ \A t \in Thread : state'[t] = "BLOCKED" <=> st[t] = "BLOCKED"
           /\ \A t \in Thread : state'[t] = "SLEEPING" <=> st[t] = "SLEEPING"
           /\ \A t \in Thread : state'[t] = "FREE" <=> st[t] \in {"FREE", "DEAD"}
           /\ current' = Idle => run_queue' = <<>>
<1> DEFINE ready == IF st[current] = "RUNNING" /\ current # Idle THEN Append(q, current) ELSE q
           next == IF ready = <<>> THEN Idle ELSE Head(ready)
           left == CASE st[current] = "RUNNING" -> "RUNNABLE"
                     [] st[current] = "DEAD" -> "FREE"
                     [] OTHER -> st[current]
<1>1. current \in All /\ (current # Idle => current \in Thread) /\ Idle \notin Thread
  BY SchedAssumption DEF TypeOK, All
<1>2. current \notin E /\ (current \in Thread => ~On(q, current))
  BY <1>1
<1>3. /\ ready \in Seq(Thread) /\ Once(ready)
      /\ \A t \in Thread : On(ready, t) <=>
            On(q, t) \/ (t = current /\ st[current] = "RUNNING")
  <2>1. CASE st[current] = "RUNNING" /\ current # Idle
    BY <1>1, <1>2, <2>1, AppendFacts
  <2>2. CASE ~(st[current] = "RUNNING" /\ current # Idle)
    BY <1>1, <2>2
  <2> QED BY <2>1, <2>2
<1>4. /\ current' = next
      /\ run_queue' = IF ready = <<>> THEN <<>> ELSE Tail(ready)
      /\ state' = [st EXCEPT ![current] = left, ![next] = "RUNNING"]
  BY DEF Schedule
<1>5. left \in State /\ left # "DEAD" /\ left # "RUNNING"
      /\ (st[current] = "RUNNING" => left = "RUNNABLE")
      /\ (st[current] = "DEAD" => left = "FREE")
      /\ (st[current] \in {"BLOCKED", "SLEEPING"} => left = st[current])
  BY DEF State
<1> HIDE DEF ready, left
<1>6. CASE ready = <<>>
  <2>1. next = Idle /\ run_queue' = <<>> /\ \A t \in Thread : ~On(ready, t)
    BY <1>4, <1>6 DEF On
  <2>2. Once(run_queue') /\ \A t \in Thread : ~On(run_queue', t)
    BY <2>1 DEF On, Once
  <2>3. \A t \in Thread : state'[t] = IF t = current THEN left ELSE st[t]
    BY <1>1, <1>4, <2>1 DEF All
  <2>4. state'[Idle] = "RUNNING"
    BY <1>1, <1>4, <2>1 DEF All
  <2>5. current = Idle \/ st[current] # "RUNNING"
    BY <1>1, <1>3, <2>1
  <2> HIDE DEF next
  <2>6. ReadyPlaced(current', state', run_queue', E)
    BY <1>1, <1>2, <1>3, <1>4, <1>5, <2>1, <2>2, <2>3, <2>4, <2>5, ZenonT(60) DEF ReadyPlaced
  <2> QED BY <1>1, <1>5, <2>1, <2>3, <2>5, <2>6
<1>7. CASE ready # <<>>
  <2>1. /\ next = Head(ready) /\ run_queue' = Tail(ready) /\ next \in Thread
        /\ Once(run_queue') /\ On(ready, next)
        /\ \A t : On(run_queue', t) <=> On(ready, t) /\ t # next
    BY <1>3, <1>4, <1>7, TailFacts
  <2> HIDE DEF next
  <2>2. \A t \in Thread : state'[t] = IF t = next THEN "RUNNING" ELSE IF t = current THEN left
                                                                     ELSE st[t]
    BY <1>1, <1>4, <2>1 DEF All
  <2>3. state'[Idle] = "RUNNABLE"
    BY <1>1, <1>4, <1>5, <2>1 DEF All
  <2>4. next \notin E /\ next # Idle /\ (next = current \/ st[next] = "RUNNABLE")
        /\ (next = current => st[current] = "RUNNING")
    BY <1>1, <1>2, <1>3, <2>1
  <2>5. current' = next /\ current' # Idle
    BY <1>4, <2>4
  <2>6. ASSUME NEW t \in Thread
        PROVE  /\ state'[t] = "RUNNING" <=> t = current'
               /\ On(run_queue', t) <=> state'[t] = "RUNNABLE" /\ t \notin E
               /\ t \in E => state'[t] = "RUNNABLE"
               /\ state'[t] # "DEAD"
               /\ state'[t] = "BLOCKED" <=> st[t] = "BLOCKED"
               /\ state'[t] = "SLEEPING" <=> st[t] = "SLEEPING"
               /\ state'[t] = "FREE" <=> st[t] \in {"FREE", "DEAD"}
    <3>1. CASE t = next
      <4>1. state'[t] = "RUNNING" /\ t \notin E /\ ~On(run_queue', t)
        BY <2>1, <2>2, <2>4, <3>1
      <4>2. st[t] = "RUNNING" \/ st[t] = "RUNNABLE" BY <2>4, <3>1
      <4> QED BY <2>5, <3>1, <4>1, <4>2
    <3>2. CASE t # next /\ t = current
      <4>1. state'[t] = left /\ t \notin E BY <1>2, <2>2, <3>2
      <4>2. On(run_queue', t) <=> st[current] = "RUNNING"
        BY <1>2, <1>3, <2>1, <3>2
      <4> QED BY <1>5, <2>5, <3>2, <4>1, <4>2
    <3>3. CASE t # next /\ t # current
      <4>1. state'[t] = st[t] /\ (On(run_queue', t) <=> On(q, t))
        BY <1>3, <2>1, <2>2, <3>3
      <4> QED BY <2>5, <3>3, <4>1
    <3> QED BY <3>1, <3>2, <3>3
  <2>7. ReadyPlaced(current', state', run_queue', E)
    BY <2>1, <2>3, <2>5, <2>6 DEF ReadyPlaced
  <2> QED BY <2>5, <2>6, <2>7
<1> QED BY <1>6, <1>7

\* The running thread, and the constants.
LEMMA CurrentFacts ==
    ASSUME Inv
    PROVE  /\ Idle \notin Thread /\ NoThread \notin Thread /\ NoWaitQ \notin WaitQ
           /\ Idle \in All /\ Thread \subseteq All
           /\ current \in All
           /\ current # Idle => current \in Thread /\ state[current] = "RUNNING"
           /\ state[Idle] = IF current = Idle THEN "RUNNING" ELSE "RUNNABLE"
           /\ Embryos \subseteq Thread
BY SchedAssumption DEF Inv, TypeOK, ReadyPlaced, All, Embryos

\* schedule() called by the current thread after it has put itself in state x.
LEMMA LeaveFacts ==
    ASSUME Inv, current # Idle, NEW x \in {"RUNNING", "SLEEPING", "BLOCKED", "DEAD"},
           Schedule([state EXCEPT ![current] = x], run_queue, <<>>)
    PROVE  /\ current' \in All
           /\ state' \in [All -> State]
           /\ run_queue' \in Seq(Thread)
           /\ slice_left' \in 1..Slice
           /\ todo' \in Seq(Work)
           /\ idle_todo' \in Seq(Work)
           /\ ReadyPlaced(current', state', run_queue', Embryos)
           /\ \A t \in Thread : state'[t] = "BLOCKED" <=>
                 IF t = current THEN x = "BLOCKED" ELSE state[t] = "BLOCKED"
           /\ \A t \in Thread : state'[t] = "SLEEPING" <=>
                 IF t = current THEN x = "SLEEPING" ELSE state[t] = "SLEEPING"
           /\ \A t \in Thread : state'[t] = "FREE" <=>
                 IF t = current THEN x = "DEAD" ELSE state[t] = "FREE"
           /\ current' = Idle => run_queue' = <<>>
<1> DEFINE st == [state EXCEPT ![current] = x]
<1>1. TypeOK /\ st \in [All -> State] /\ run_queue \in Seq(Thread) /\ <<>> \in Seq(Work)
  BY EmptySeq DEF Inv, TypeOK, State
<1>2. \A t \in Thread : st[t] = IF t = current THEN x ELSE state[t]
  BY CurrentFacts DEF Inv, TypeOK
<1>3. st[current] = x /\ st[Idle] = "RUNNABLE" /\ current \in Thread
  BY CurrentFacts DEF Inv, TypeOK
<1>4. state[current] = "RUNNING" /\ current \notin Embryos
  BY CurrentFacts DEF Inv, ReadyPlaced
<1>5. /\ Once(run_queue)
      /\ \A t \in Thread : t # current => st[t] # "RUNNING" /\ st[t] # "DEAD"
      /\ \A t \in Thread : On(run_queue, t) <=> st[t] = "RUNNABLE" /\ t \notin Embryos
      /\ \A t \in Embryos : st[t] = "RUNNABLE"
  BY <1>2, <1>3, <1>4 DEF Inv, ReadyPlaced, Embryos
<1>6. Schedule(st, run_queue, <<>>) /\ Embryos \in SUBSET Thread
  BY CurrentFacts
<1> HIDE DEF st
<1>7. /\ current' \in All /\ state' \in [All -> State] /\ run_queue' \in Seq(Thread)
      /\ slice_left' \in 1..Slice /\ todo' \in Seq(Work) /\ idle_todo' \in Seq(Work)
  BY <1>1, <1>6, ScheduleType, ZenonT(60)
<1>8. /\ ReadyPlaced(current', state', run_queue', Embryos)
      /\ \A t \in Thread : state'[t] = "BLOCKED" <=> st[t] = "BLOCKED"
      /\ \A t \in Thread : state'[t] = "SLEEPING" <=> st[t] = "SLEEPING"
      /\ \A t \in Thread : state'[t] = "FREE" <=> st[t] \in {"FREE", "DEAD"}
      /\ current' = Idle => run_queue' = <<>>
  BY <1>1, <1>3, <1>5, <1>6, ScheduleFacts, ZenonT(60)
<1>9. \A t \in Thread : t # current => state[t] # "DEAD"
  BY DEF Inv, ReadyPlaced
<1> QED BY <1>2, <1>7, <1>8, <1>9, ZenonT(60)

\* Waiting is a matter of who is blocked and who sleeps.
LEMMA WaitPlacedSame ==
    ASSUME NEW st, NEW st2, NEW sl, NEW wq, NEW on,
           WaitPlaced(st, sl, wq, on),
           \A t \in Thread : st2[t] = "BLOCKED" <=> st[t] = "BLOCKED",
           \A t \in Thread : st2[t] = "SLEEPING" <=> st[t] = "SLEEPING"
    PROVE  WaitPlaced(st2, sl, wq, on)
BY DEF WaitPlaced

\* sched_init establishes the invariant.
LEMMA InitInv ==
    ASSUME Init
    PROVE  Inv
<1>1. /\ Main \in Thread /\ Idle \notin Thread /\ Idle # Main /\ NoThread \notin Thread
      /\ Slice \in Nat \ {0} /\ MaxTick \in Nat
  BY SchedAssumption DEF All
<1>2. \A S : <<>> \in Seq(S)
  BY EmptySeq
<1>3. Once(<<>>) /\ (\A t : ~On(<<>>, t)) /\ \A key : SortedBy(<<>>, key)
  BY DEF Once, On, SortedBy
<1>4. \A t \in All : state[t] = IF t = Main THEN "RUNNING" ELSE IF t = Idle THEN "RUNNABLE" ELSE "FREE"
  BY <1>1 DEF Init
<1>5. TypeOK
  <2>1. state \in [All -> State] BY DEF Init, State
  <2>2. waiters \in [WaitQ -> Seq(Thread)] BY <1>2 DEF Init
  <2>3. run_queue \in Seq(Thread) /\ sleepers \in Seq(Thread)
        /\ todo \in Seq(Work) /\ idle_todo \in Seq(Work)
    BY <1>2 DEF Init
  <2>4. current \in All /\ slice_left \in 1..Slice /\ ticks \in 0..MaxTick
    BY <1>1 DEF Init, All
  <2>5. wake_tick \in [Thread -> Nat] /\ waiting_on \in [Thread -> WaitQ \cup {NoWaitQ}]
        /\ timed_out \in [Thread -> BOOLEAN] /\ preemptive \in BOOLEAN
        /\ making \in [Thread -> Thread \cup {NoThread}] /\ has_ns \in [Thread -> BOOLEAN]
        /\ exiting \in SUBSET Thread
    BY ZenonT(60) DEF Init
  <2> QED BY <2>1, <2>2, <2>3, <2>4, <2>5 DEF TypeOK, State
<1>6. Embryos = {}
  BY <1>1 DEF Init, Embryos, Embryo
<1>7. ReadyPlaced(current, state, run_queue, Embryos)
  BY <1>1, <1>3, <1>4, <1>6 DEF Init, ReadyPlaced, All
<1>8. WaitPlaced(state, sleepers, waiters, waiting_on)
  BY <1>1, <1>3, <1>4 DEF Init, WaitPlaced, All
<1> QED BY <1>1, <1>3, <1>5, <1>7, <1>8
  DEF Init, Inv, SleepersSorted, MakingOnce, IdleOnlyWhenNothingIsReady, ExitingLetGo,
      FreedWithoutNamespace

\* sleep_insert by the running thread: it goes on the sleep list, which stays
\* sorted.
LEMMA SleepInsertFacts ==
    ASSUME Inv, Calling, NEW tick \in Nat, SleepInsert(current, tick),
           wake_tick' = [wake_tick EXCEPT ![current] = tick]
    PROVE  /\ sleepers' \in Seq(Thread) /\ wake_tick' \in [Thread -> Nat]
           /\ Once(sleepers') /\ SleepersSorted'
           /\ \A t : On(sleepers', t) <=> On(sleepers, t) \/ t = current
<1>1. /\ current \in Thread /\ sleepers \in Seq(Thread) /\ wake_tick \in [Thread -> Nat]
      /\ Once(sleepers) /\ SortedBy(sleepers, wake_tick)
  BY CurrentFacts DEF Calling, Inv, TypeOK, WaitPlaced, SleepersSorted
<1>2. ~On(sleepers, current)
  <2>1. state[current] = "RUNNING" BY CurrentFacts DEF Calling
  <2> QED BY <1>1, <2>1, ZenonT(60) DEF Inv, TypeOK, WaitPlaced
<1>3. PICK k \in 0..Len(sleepers) : IsSleepSlot(k, tick) /\ sleepers' = LinkAt(sleepers, k + 1, current)
  BY DEF SleepInsert
<1>4. /\ \A i \in 1..k : wake_tick[sleepers[i]] <= tick
      /\ k < Len(sleepers) => wake_tick[sleepers[k + 1]] > tick
  BY <1>3 DEF IsSleepSlot
<1>5. SortedBy(sleepers', wake_tick')
  BY <1>1, <1>2, <1>3, <1>4, InsertSorted, ZenonT(60)
<1>6. /\ sleepers' \in Seq(Thread) /\ Once(sleepers')
      /\ \A t : On(sleepers', t) <=> On(sleepers, t) \/ t = current
  BY <1>1, <1>2, <1>3, InsertFacts
<1> QED BY <1>1, <1>5, <1>6 DEF SleepersSorted

\* The running thread is on no list.
LEMMA CurrentOnNoList ==
    ASSUME Inv, Calling
    PROVE  /\ current \in Thread /\ state[current] = "RUNNING"
           /\ \A w \in WaitQ : ~On(waiters[w], current)
           /\ waiting_on[current] = NoWaitQ /\ ~On(sleepers, current)
<1>1. current \in Thread /\ state[current] = "RUNNING"
  BY CurrentFacts DEF Calling
<1> QED BY <1>1, ZenonT(60) DEF Inv, TypeOK, WaitPlaced

\* The running thread appends itself to wait queue w.
LEMMA EnqueueWaiter ==
    ASSUME Inv, Calling, NEW w \in WaitQ,
           waiters' = [waiters EXCEPT ![w] = Append(@, current)]
    PROVE  /\ waiters' \in [WaitQ -> Seq(Thread)]
           /\ \A v \in WaitQ : Once(waiters'[v])
           /\ \A v \in WaitQ : \A t : On(waiters'[v], t) <=>
                 On(waiters[v], t) \/ (v = w /\ t = current)
<1>1. /\ current \in Thread /\ waiters[w] \in Seq(Thread) /\ ~On(waiters[w], current)
      /\ Once(waiters[w]) /\ waiters \in [WaitQ -> Seq(Thread)]
      /\ \A v \in WaitQ : Once(waiters[v])
  BY CurrentOnNoList DEF Inv, TypeOK, WaitPlaced
<1> DEFINE new == Append(waiters[w], current)
<1>2. /\ new \in Seq(Thread) /\ Once(new)
      /\ \A t : On(new, t) <=> On(waiters[w], t) \/ t = current
  BY <1>1, AppendFacts
<1>3. waiters' = [waiters EXCEPT ![w] = new]
  OBVIOUS
<1> HIDE DEF new
<1>4. \A v \in WaitQ : waiters'[v] = IF v = w THEN new ELSE waiters[v]
  BY <1>1, <1>3, ZenonT(60)
<1>5. waiters' \in [WaitQ -> Seq(Thread)]
  BY <1>1, <1>2, <1>3
<1> QED BY <1>1, <1>2, <1>4, <1>5

\* Thread t leaves every list of waiting threads and becomes ready.
LEMMA WakeFacts ==
    ASSUME Inv, NEW t \in Thread, state[t] \in {"BLOCKED", "SLEEPING"},
           sleepers' = Without(sleepers, t),
           waiters' \in [WaitQ -> Seq(Thread)],
           \A v \in WaitQ : Once(waiters'[v]),
           \A v \in WaitQ : \A x : On(waiters'[v], x) <=> On(waiters[v], x) /\ x # t,
           waiting_on' = [waiting_on EXCEPT ![t] = NoWaitQ],
           wake_tick' = [wake_tick EXCEPT ![t] = 0]
    PROVE  /\ sleepers' \in Seq(Thread) /\ wake_tick' \in [Thread -> Nat]
           /\ waiting_on' \in [Thread -> WaitQ \cup {NoWaitQ}]
           /\ WaitPlaced([state EXCEPT ![t] = "RUNNABLE"], sleepers', waiters', waiting_on')
           /\ SleepersSorted'
<1> DEFINE st == [state EXCEPT ![t] = "RUNNABLE"]
<1>1. /\ sleepers \in Seq(Thread) /\ Once(sleepers) /\ wake_tick \in [Thread -> Nat]
      /\ SortedBy(sleepers, wake_tick) /\ waiting_on \in [Thread -> WaitQ \cup {NoWaitQ}]
  BY DEF Inv, TypeOK, WaitPlaced, SleepersSorted
<1>2. /\ sleepers' \in Seq(Thread) /\ Once(sleepers')
      /\ \A x : On(sleepers', x) <=> On(sleepers, x) /\ x # t
  BY <1>1, WithoutFacts
<1>3. SortedBy(sleepers', wake_tick')
  BY <1>1, WithoutSorted, ZenonT(60)
<1>4. \A x \in Thread : st[x] = IF x = t THEN "RUNNABLE" ELSE state[x]
  BY CurrentFacts DEF Inv, TypeOK
<1>5. \A x \in Thread : waiting_on'[x] = IF x = t THEN NoWaitQ ELSE waiting_on[x]
  BY <1>1
<1> HIDE DEF st
<1>6. ASSUME NEW x \in Thread
      PROVE  /\ st[x] = "BLOCKED" <=> \E v \in WaitQ : On(waiters'[v], x)
             /\ \A u, v \in WaitQ : On(waiters'[u], x) /\ On(waiters'[v], x) => u = v
             /\ On(sleepers', x) <=> st[x] = "SLEEPING" \/ waiting_on'[x] # NoWaitQ
             /\ waiting_on'[x] # NoWaitQ => On(waiters'[waiting_on'[x]], x)
  <2>1. CASE x = t
    BY <1>2, <1>4, <1>5, <2>1
  <2>2. CASE x # t
    <3>1. /\ st[x] = state[x] /\ waiting_on'[x] = waiting_on[x]
          /\ On(sleepers', x) <=> On(sleepers, x)
          /\ \A v \in WaitQ : On(waiters'[v], x) <=> On(waiters[v], x)
      BY <1>2, <1>4, <1>5, <2>2
    <3>2. waiting_on[x] \in WaitQ \cup {NoWaitQ} BY <1>1
    <3> QED BY <3>1, <3>2 DEF Inv, WaitPlaced
  <2> QED BY <2>1, <2>2
<1>7. WaitPlaced(st, sleepers', waiters', waiting_on')
  BY <1>2, <1>6 DEF WaitPlaced
<1> QED BY <1>1, <1>2, <1>3, <1>7 DEF st, SleepersSorted

\* ... and goes to the end of the run queue.
LEMMA ReadyFacts ==
    ASSUME Inv, NEW t \in Thread, state[t] \in {"BLOCKED", "SLEEPING"}
    PROVE  /\ Append(run_queue, t) \in Seq(Thread)
           /\ Append(run_queue, t) # <<>>
           /\ [state EXCEPT ![t] = "RUNNABLE"] \in [All -> State]
           /\ ReadyPlaced(current, [state EXCEPT ![t] = "RUNNABLE"], Append(run_queue, t), Embryos)
           /\ \A x \in Thread : [state EXCEPT ![t] = "RUNNABLE"][x] = "FREE" <=> state[x] = "FREE"
<1> DEFINE st == [state EXCEPT ![t] = "RUNNABLE"]
           q == Append(run_queue, t)
<1>1. /\ run_queue \in Seq(Thread) /\ Once(run_queue) /\ ~On(run_queue, t)
      /\ t # current /\ t \notin Embryos /\ t # Idle
  BY CurrentFacts DEF Inv, TypeOK, ReadyPlaced
<1>2. /\ q \in Seq(Thread) /\ q # <<>> /\ Once(q)
      /\ \A x : On(q, x) <=> On(run_queue, x) \/ x = t
  BY <1>1, AppendFacts
<1>3. /\ st \in [All -> State]
      /\ \A x \in Thread : st[x] = IF x = t THEN "RUNNABLE" ELSE state[x]
      /\ st[Idle] = state[Idle]
  BY <1>1, CurrentFacts DEF Inv, TypeOK, State
<1> HIDE DEF st, q
<1>4. ReadyPlaced(current, st, q, Embryos)
  BY <1>1, <1>2, <1>3, CurrentFacts DEF Inv, ReadyPlaced
<1>5. \A x \in Thread : st[x] = "FREE" <=> state[x] = "FREE"
  BY <1>3
<1> QED BY <1>2, <1>3, <1>4, <1>5 DEF st, q

\* waitq_pop takes the head of the queue off it, and off the sleep list.
LEMMA PopFacts ==
    ASSUME Inv, NEW w \in WaitQ, waiters[w] # <<>>, WaitqPop(w)
    PROVE  /\ Head(waiters[w]) \in Thread /\ state[Head(waiters[w])] = "BLOCKED"
           /\ sleepers' \in Seq(Thread) /\ wake_tick' \in [Thread -> Nat]
           /\ waiters' \in [WaitQ -> Seq(Thread)]
           /\ waiting_on' \in [Thread -> WaitQ \cup {NoWaitQ}]
           /\ WaitPlaced([state EXCEPT ![Head(waiters[w])] = "RUNNABLE"],
                         sleepers', waiters', waiting_on')
           /\ SleepersSorted'
<1> DEFINE t == Head(waiters[w])
           rest == Tail(waiters[w])
<1>1. /\ waiters \in [WaitQ -> Seq(Thread)] /\ waiters[w] \in Seq(Thread) /\ Once(waiters[w])
      /\ \A v \in WaitQ : Once(waiters[v])
  BY DEF Inv, TypeOK, WaitPlaced
<1>2. /\ t \in Thread /\ rest \in Seq(Thread) /\ Once(rest) /\ On(waiters[w], t)
      /\ \A x : On(rest, x) <=> On(waiters[w], x) /\ x # t
  BY <1>1, TailFacts
<1>3. /\ waiters' = [waiters EXCEPT ![w] = rest]
      /\ sleepers' = IF waiting_on[t] # NoWaitQ THEN Without(sleepers, t) ELSE sleepers
      /\ waiting_on' = [waiting_on EXCEPT ![t] = NoWaitQ]
      /\ wake_tick' = [wake_tick EXCEPT ![t] = 0]
  BY DEF WaitqPop
<1> HIDE DEF t, rest
<1>4. state[t] = "BLOCKED" /\ \A v \in WaitQ : On(waiters[v], t) => v = w
  BY <1>2 DEF Inv, WaitPlaced
<1>5. sleepers' = Without(sleepers, t)
  <2>1. CASE waiting_on[t] # NoWaitQ BY <1>3, <2>1
  <2>2. CASE waiting_on[t] = NoWaitQ
    <3>1. ~On(sleepers, t) BY <1>2, <1>4, <2>2 DEF Inv, WaitPlaced
    <3> QED BY <1>3, <2>2, <3>1 DEF Without, On
  <2> QED BY <2>1, <2>2
<1>6. \A v \in WaitQ : waiters'[v] = IF v = w THEN rest ELSE waiters[v]
  BY <1>1, <1>3
<1>7. /\ waiters' \in [WaitQ -> Seq(Thread)]
      /\ \A v \in WaitQ : Once(waiters'[v])
      /\ \A v \in WaitQ : \A x : On(waiters'[v], x) <=> On(waiters[v], x) /\ x # t
  BY <1>1, <1>2, <1>3, <1>4, <1>6
<1>8. /\ sleepers' \in Seq(Thread) /\ wake_tick' \in [Thread -> Nat]
      /\ waiting_on' \in [Thread -> WaitQ \cup {NoWaitQ}]
      /\ WaitPlaced([state EXCEPT ![t] = "RUNNABLE"], sleepers', waiters', waiting_on')
      /\ SleepersSorted'
  BY <1>2, <1>3, <1>4, <1>5, <1>7, WakeFacts, ZenonT(60)
<1> QED BY <1>2, <1>4, <1>7, <1>8 DEF t

\* schedule() called with interrupts off, from states st and run queue q in
\* which every thread is in its place.
LEMMA SwitchFacts ==
    ASSUME Inv, NEW st \in [All -> State], NEW q \in Seq(Thread), NEW rest \in Seq(Work),
           ReadyPlaced(current, st, q, Embryos), Schedule(st, q, rest)
    PROVE  /\ current' \in All /\ state' \in [All -> State] /\ run_queue' \in Seq(Thread)
           /\ slice_left' \in 1..Slice /\ todo' \in Seq(Work) /\ idle_todo' \in Seq(Work)
           /\ ReadyPlaced(current', state', run_queue', Embryos)
           /\ \A t \in Thread : state'[t] = "BLOCKED" <=> st[t] = "BLOCKED"
           /\ \A t \in Thread : state'[t] = "SLEEPING" <=> st[t] = "SLEEPING"
           /\ \A t \in Thread : state'[t] = "FREE" <=> st[t] = "FREE"
           /\ IdleOnlyWhenNothingIsReady'
<1>1. st[current] = "RUNNING"
  BY CurrentFacts DEF ReadyPlaced
<1>2. /\ current' \in All /\ state' \in [All -> State] /\ run_queue' \in Seq(Thread)
      /\ slice_left' \in 1..Slice /\ todo' \in Seq(Work) /\ idle_todo' \in Seq(Work)
  BY ScheduleType DEF Inv
<1>3. /\ TypeOK /\ Embryos \in SUBSET Thread /\ Once(q)
      /\ st[current] \in {"RUNNING", "SLEEPING", "BLOCKED", "DEAD"}
      /\ \A t \in Thread : t # current => st[t] # "RUNNING" /\ st[t] # "DEAD"
      /\ \A t \in Thread : On(q, t) <=> st[t] = "RUNNABLE" /\ t \notin Embryos
      /\ \A t \in Embryos : st[t] = "RUNNABLE"
      /\ st[Idle] = IF current = Idle THEN "RUNNING" ELSE "RUNNABLE"
      /\ \A t \in Thread : st[t] # "DEAD"
  BY <1>1, CurrentFacts DEF Inv, ReadyPlaced
<1>4. /\ ReadyPlaced(current', state', run_queue', Embryos)
      /\ \A t \in Thread : state'[t] = "BLOCKED" <=> st[t] = "BLOCKED"
      /\ \A t \in Thread : state'[t] = "SLEEPING" <=> st[t] = "SLEEPING"
      /\ \A t \in Thread : state'[t] = "FREE" <=> st[t] \in {"FREE", "DEAD"}
      /\ current' = Idle => run_queue' = <<>>
  BY <1>3, ScheduleFacts, ZenonT(60)
<1> QED BY <1>2, <1>3, <1>4 DEF IdleOnlyWhenNothingIsReady

\* resched_if_idle at the end of a wake.
LEMMA ReschedFacts ==
    ASSUME Inv, todo # <<>>, NEW st \in [All -> State], NEW q \in Seq(Thread),
           ReadyPlaced(current, st, q, Embryos), ReschedIfIdle(st, q)
    PROVE  /\ current' \in All /\ state' \in [All -> State] /\ run_queue' \in Seq(Thread)
           /\ slice_left' \in 1..Slice /\ todo' \in Seq(Work) /\ idle_todo' \in Seq(Work)
           /\ ReadyPlaced(current', state', run_queue', Embryos)
           /\ \A t \in Thread : state'[t] = "BLOCKED" <=> st[t] = "BLOCKED"
           /\ \A t \in Thread : state'[t] = "SLEEPING" <=> st[t] = "SLEEPING"
           /\ \A t \in Thread : state'[t] = "FREE" <=> st[t] = "FREE"
           /\ IdleOnlyWhenNothingIsReady'
<1>1. Tail(todo) \in Seq(Work)
  BY HeadTailProperties DEF Inv, TypeOK
<1>2. CASE current = Idle /\ q # <<>>
  <2>1. Schedule(st, q, Tail(todo)) BY <1>2 DEF ReschedIfIdle
  <2> QED BY <1>1, <2>1, SwitchFacts, ZenonT(60)
<1>3. CASE ~(current = Idle /\ q # <<>>)
  <2>1. /\ state' = st /\ run_queue' = q /\ todo' = Tail(todo)
        /\ UNCHANGED <<current, slice_left, idle_todo>>
    BY <1>3 DEF ReschedIfIdle
  <2> QED BY <1>1, <1>3, <2>1 DEF Inv, TypeOK, IdleOnlyWhenNothingIsReady
<1> QED BY <1>2, <1>3


(***************************************************************************)
(* One lemma per action.                                                   *)
(***************************************************************************)

\* thread_alloc makes an embryo.
LEMMA AllocInv ==
    ASSUME Inv, NEW t \in Thread, ThreadAlloc(t)
    PROVE  Inv'
<1>1. /\ current \in Thread /\ state[current] = "RUNNING" /\ t # current /\ t # Idle
      /\ making[current] = NoThread /\ NoThread \notin Thread /\ t \notin Embryos
      /\ current # Idle
  BY CurrentFacts DEF ThreadAlloc, Calling, Inv, ReadyPlaced
<1>2. state \in [All -> State] /\ t \in All /\ making \in [Thread -> Thread \cup {NoThread}]
      /\ has_ns \in [Thread -> BOOLEAN]
  BY CurrentFacts DEF Inv, TypeOK, State
<1>3. /\ \A x \in All : state'[x] = IF x = t THEN "RUNNABLE" ELSE state[x]
      /\ \A c \in Thread : making'[c] = IF c = current THEN t ELSE making[c]
      /\ \A c \in Thread : has_ns'[c] = IF c = t THEN has_ns[current] ELSE has_ns[c]
  BY <1>2 DEF ThreadAlloc
<1>4. Embryos' = Embryos \cup {t}
  BY <1>1, <1>3 DEF Embryos, Embryo
<1>5. TypeOK'
  BY <1>1, <1>2 DEF Inv, TypeOK, ThreadAlloc, lists, State
<1>6. ReadyPlaced(current, state, run_queue, Embryos)' /\ FreedWithoutNamespace'
  <2>1. current' = current /\ run_queue' = run_queue BY DEF ThreadAlloc, lists
  <2>2. state'[Idle] = state[Idle] BY <1>1, <1>3, CurrentFacts
  <2> QED BY <1>1, <1>3, <1>4, <2>1, <2>2, CurrentFacts
      DEF Inv, ReadyPlaced, ThreadAlloc, FreedWithoutNamespace
<1>7. WaitPlaced(state', sleepers, waiters, waiting_on)
  <2>1. \A x \in Thread : state'[x] = "BLOCKED" <=> state[x] = "BLOCKED"
    BY <1>3, CurrentFacts DEF ThreadAlloc
  <2>2. \A x \in Thread : state'[x] = "SLEEPING" <=> state[x] = "SLEEPING"
    BY <1>3, CurrentFacts DEF ThreadAlloc
  <2> QED BY <2>1, <2>2, WaitPlacedSame DEF Inv
<1>8. MakingOnce'
  BY <1>1, <1>3 DEF Inv, MakingOnce, Embryos, Embryo
<1>9. ExitingLetGo'
  <2>1. t \notin exiting /\ exiting' = exiting /\ exiting \subseteq Thread
    BY DEF Inv, TypeOK, ExitingLetGo, ThreadAlloc
  <2> QED BY <1>3, <2>1, CurrentFacts DEF Inv, ExitingLetGo
<1> QED BY <1>1, <1>5, <1>6, <1>7, <1>8, <1>9
  DEF Inv, SleepersSorted, IdleOnlyWhenNothingIsReady, ThreadAlloc, lists

\* thread_create_in queues it.
LEMMA CreateInv ==
    ASSUME Inv, ThreadCreateIn
    PROVE  Inv'
<1> DEFINE t == making[current]
<1>1. /\ current \in Thread /\ t \in Thread /\ NoThread \notin Thread /\ t \in Embryos
      /\ state[t] = "RUNNABLE" /\ ~On(run_queue, t)
  <2>1. current \in Thread /\ t \in Thread /\ NoThread \notin Thread
    BY CurrentFacts DEF ThreadCreateIn, Inv, TypeOK
  <2>2. t \in Embryos BY <2>1 DEF Embryos, Embryo
  <2> QED BY <2>1, <2>2 DEF Inv, ReadyPlaced
<1>2. /\ run_queue' = Append(run_queue, t)
      /\ \A c \in Thread : making'[c] = IF c = current THEN NoThread ELSE making[c]
      /\ making' \in [Thread -> Thread \cup {NoThread}]
  BY ZenonT(60) DEF ThreadCreateIn, Inv, TypeOK
<1>3. Embryos' = Embryos \ {t}
  BY <1>1, <1>2 DEF Embryos, Embryo, Inv, MakingOnce
<1>4. /\ run_queue' \in Seq(Thread) /\ Once(run_queue')
      /\ \A x : On(run_queue', x) <=> On(run_queue, x) \/ x = t
  BY <1>1, <1>2, AppendFacts DEF Inv, TypeOK, ReadyPlaced
<1>5. TypeOK'
  BY <1>2, <1>4 DEF Inv, TypeOK, ThreadCreateIn, waits
<1>6. ReadyPlaced(current, state, run_queue, Embryos)'
  BY <1>1, <1>3, <1>4 DEF Inv, ReadyPlaced, ThreadCreateIn
<1>7. MakingOnce'
  BY <1>1, <1>2 DEF Inv, MakingOnce
<1> QED BY <1>5, <1>6, <1>7
  DEF Inv, WaitPlaced, SleepersSorted, IdleOnlyWhenNothingIsReady, ThreadCreateIn, waits,
      ExitingLetGo, FreedWithoutNamespace

\* thread_set_namespace, and the first half of thread_exit.
LEMMA NamespaceInv ==
    ASSUME Inv, ThreadSetNamespace \/ ThreadExitUnref
    PROVE  Inv'
<1>1. current \in Thread /\ state[current] = "RUNNING" /\ current \notin exiting
  BY CurrentFacts DEF ThreadSetNamespace, ThreadExitUnref, Calling
<1>2. /\ has_ns' \in [Thread -> BOOLEAN]
      /\ \A t \in Thread : t # current => has_ns'[t] = has_ns[t]
      /\ ThreadExitUnref => ~has_ns'[current] /\ exiting' = exiting \cup {current}
      /\ ThreadSetNamespace => exiting' = exiting
  BY <1>1, ZenonT(60) DEF ThreadSetNamespace, ThreadExitUnref, Inv, TypeOK
<1>3. /\ current' = current /\ state' = state /\ lists' = lists /\ waits' = waits
      /\ slice_left' = slice_left /\ preemptive' = preemptive /\ ticks' = ticks
      /\ todo' = todo /\ idle_todo' = idle_todo /\ making' = making
  BY DEF ThreadSetNamespace, ThreadExitUnref
<1>4. TypeOK'
  BY <1>1, <1>2, <1>3 DEF Inv, TypeOK, lists, waits
<1>5. ExitingLetGo' /\ FreedWithoutNamespace'
  BY <1>1, <1>2, <1>3 DEF Inv, TypeOK, ExitingLetGo, FreedWithoutNamespace
<1>6. Embryos' = Embryos
  BY <1>3 DEF Embryos, Embryo
<1> QED BY <1>3, <1>4, <1>5, <1>6
  DEF Inv, ReadyPlaced, WaitPlaced, SleepersSorted, IdleOnlyWhenNothingIsReady, MakingOnce,
      lists, waits

\* Steps that touch neither threads nor lists: a call that only leaves work to
\* do with interrupts off, and an interrupt.
LEMMA QuietInv ==
    ASSUME Inv, current' = current, state' = state, lists' = lists, waits' = waits,
           slice_left' = slice_left, preemptive' \in BOOLEAN, ticks' \in 0..MaxTick,
           todo' \in Seq(Work), todo' = <<>> => todo = <<>>,
           idle_todo' = idle_todo, life' = life
    PROVE  Inv'
<1>1. TypeOK'
  BY DEF Inv, TypeOK, lists, waits, life
<1>2. Embryos' = Embryos
  BY DEF Embryos, Embryo, life
<1> QED BY <1>1, <1>2
  DEF Inv, ReadyPlaced, WaitPlaced, SleepersSorted, IdleOnlyWhenNothingIsReady, MakingOnce,
      ExitingLetGo, FreedWithoutNamespace, lists, waits, life

\* What is left to show of a call that ends in schedule(): how the lists of
\* waiting threads changed, and the state x it left the caller in.
LEMMA LeaveInv ==
    ASSUME Inv, Calling, NEW x \in {"RUNNING", "SLEEPING", "BLOCKED"},
           Schedule([state EXCEPT ![current] = x], run_queue, <<>>),
           sleepers' \in Seq(Thread), wake_tick' \in [Thread -> Nat],
           waiters' \in [WaitQ -> Seq(Thread)],
           waiting_on' \in [Thread -> WaitQ \cup {NoWaitQ}],
           timed_out' \in [Thread -> BOOLEAN],
           WaitPlaced([state EXCEPT ![current] = x], sleepers', waiters', waiting_on'),
           SleepersSorted',
           UNCHANGED <<preemptive, ticks, life>>
    PROVE  Inv'
<1>1. current \in Thread /\ current # Idle /\ state[current] = "RUNNING" /\ Thread \subseteq All
  BY CurrentFacts DEF Calling
<1>2. /\ current' \in All /\ state' \in [All -> State] /\ run_queue' \in Seq(Thread)
      /\ slice_left' \in 1..Slice /\ todo' \in Seq(Work) /\ idle_todo' \in Seq(Work)
      /\ ReadyPlaced(current', state', run_queue', Embryos)
      /\ \A t \in Thread : state'[t] = "BLOCKED" <=>
            IF t = current THEN x = "BLOCKED" ELSE state[t] = "BLOCKED"
      /\ \A t \in Thread : state'[t] = "SLEEPING" <=>
            IF t = current THEN x = "SLEEPING" ELSE state[t] = "SLEEPING"
      /\ \A t \in Thread : state'[t] = "FREE" <=>
            IF t = current THEN x = "DEAD" ELSE state[t] = "FREE"
      /\ current' = Idle => run_queue' = <<>>
  BY <1>1, LeaveFacts, ZenonT(60)
<1>3. TypeOK'
  BY <1>2, ZenonT(60) DEF Inv, TypeOK, State, life
<1>4. Embryos' = Embryos
  BY DEF Embryos, Embryo, life
<1>5. WaitPlaced(state', sleepers', waiters', waiting_on')
  <2> DEFINE st == [state EXCEPT ![current] = x]
  <2>1. \A t \in Thread : st[t] = IF t = current THEN x ELSE state[t]
    BY <1>1 DEF Inv, TypeOK
  <2> HIDE DEF st
  <2>2. \A t \in Thread : state'[t] = "BLOCKED" <=> st[t] = "BLOCKED" BY <1>2, <2>1, ZenonT(60)
  <2>3. \A t \in Thread : state'[t] = "SLEEPING" <=> st[t] = "SLEEPING" BY <1>2, <2>1, ZenonT(60)
  <2>4. WaitPlaced(st, sleepers', waiters', waiting_on') BY DEF st
  <2> QED BY <2>2, <2>3, <2>4, WaitPlacedSame, ZenonT(60)
<1>6. \A t \in Thread : state'[t] = "FREE" <=> state[t] = "FREE"
  BY <1>1, <1>2
<1>7. ExitingLetGo' /\ FreedWithoutNamespace' /\ MakingOnce'
  BY <1>6, ZenonT(60) DEF Inv, TypeOK, ExitingLetGo, FreedWithoutNamespace, MakingOnce, life
<1> QED BY <1>2, <1>3, <1>4, <1>5, <1>7 DEF Inv, IdleOnlyWhenNothingIsReady

\* thread_yield.
LEMMA YieldInv ==
    ASSUME Inv, ThreadYield
    PROVE  Inv'
<1>1. [state EXCEPT ![current] = "RUNNING"] = state
  <2>1. current \in All /\ state[current] = "RUNNING" BY CurrentFacts DEF ThreadYield, Calling
  <2> QED BY <2>1 DEF Inv, TypeOK
<1>2. Schedule([state EXCEPT ![current] = "RUNNING"], run_queue, <<>>)
  BY <1>1 DEF ThreadYield
<1>3. WaitPlaced([state EXCEPT ![current] = "RUNNING"], sleepers', waiters', waiting_on')
  BY <1>1 DEF Inv, ThreadYield, waits
<1>4. /\ sleepers' \in Seq(Thread) /\ wake_tick' \in [Thread -> Nat]
      /\ waiters' \in [WaitQ -> Seq(Thread)]
      /\ waiting_on' \in [Thread -> WaitQ \cup {NoWaitQ}] /\ timed_out' \in [Thread -> BOOLEAN]
      /\ SleepersSorted' /\ UNCHANGED <<preemptive, ticks, life>> /\ Calling
  BY DEF Inv, TypeOK, SleepersSorted, ThreadYield, waits
<1> QED BY <1>2, <1>3, <1>4, LeaveInv

\* thread_sleep_until.
LEMMA SleepUntilInv ==
    ASSUME Inv, NEW tick \in Nat, ThreadSleepUntil(tick)
    PROVE  Inv'
<1> DEFINE st == [state EXCEPT ![current] = "SLEEPING"]
<1>1. /\ Calling /\ Schedule(st, run_queue, <<>>) /\ UNCHANGED <<preemptive, ticks, life>>
      /\ waiters' = waiters /\ waiting_on' = waiting_on /\ timed_out' = timed_out
  BY DEF ThreadSleepUntil
<1>2. /\ sleepers' \in Seq(Thread) /\ wake_tick' \in [Thread -> Nat]
      /\ Once(sleepers') /\ SleepersSorted'
      /\ \A t : On(sleepers', t) <=> On(sleepers, t) \/ t = current
  BY SleepInsertFacts, ZenonT(60) DEF ThreadSleepUntil
<1>3. \A t \in Thread : st[t] = IF t = current THEN "SLEEPING" ELSE state[t]
  BY CurrentFacts DEF Inv, TypeOK
<1>4. WaitPlaced(st, sleepers', waiters', waiting_on')
  <2> HIDE DEF st
  <2> QED BY <1>1, <1>2, <1>3, CurrentOnNoList, ZenonT(60) DEF Inv, WaitPlaced
<1>5. /\ waiters' \in [WaitQ -> Seq(Thread)]
      /\ waiting_on' \in [Thread -> WaitQ \cup {NoWaitQ}] /\ timed_out' \in [Thread -> BOOLEAN]
  BY <1>1 DEF Inv, TypeOK
<1> QED BY <1>1, <1>2, <1>4, <1>5, LeaveInv

\* waitq_sleep.
LEMMA WaitqSleepInv ==
    ASSUME Inv, NEW w \in WaitQ, WaitqSleep(w)
    PROVE  Inv'
<1> DEFINE st == [state EXCEPT ![current] = "BLOCKED"]
<1>1. /\ Calling /\ Schedule(st, run_queue, <<>>) /\ UNCHANGED <<preemptive, ticks, life>>
      /\ sleepers' = sleepers /\ wake_tick' = wake_tick
      /\ waiting_on' = waiting_on /\ timed_out' = timed_out
  BY DEF WaitqSleep, waits
<1>2. /\ waiters' \in [WaitQ -> Seq(Thread)]
      /\ \A v \in WaitQ : Once(waiters'[v])
      /\ \A v \in WaitQ : \A t : On(waiters'[v], t) <=>
            On(waiters[v], t) \/ (v = w /\ t = current)
  BY EnqueueWaiter, ZenonT(60) DEF WaitqSleep
<1>3. \A t \in Thread : st[t] = IF t = current THEN "BLOCKED" ELSE state[t]
  BY CurrentFacts DEF Inv, TypeOK
<1>4. /\ sleepers' \in Seq(Thread) /\ wake_tick' \in [Thread -> Nat]
      /\ waiting_on' \in [Thread -> WaitQ \cup {NoWaitQ}] /\ timed_out' \in [Thread -> BOOLEAN]
      /\ SleepersSorted'
  BY <1>1 DEF Inv, TypeOK, SleepersSorted
<1>5. WaitPlaced(st, sleepers', waiters', waiting_on')
  <2> HIDE DEF st
  <2>1. Once(sleepers) /\ \A t \in Thread : waiting_on[t] \in WaitQ \cup {NoWaitQ}
    BY DEF Inv, TypeOK, WaitPlaced
  <2>2. ASSUME NEW t \in Thread
        PROVE  /\ st[t] = "BLOCKED" <=> \E v \in WaitQ : On(waiters'[v], t)
               /\ \A u, v \in WaitQ : On(waiters'[u], t) /\ On(waiters'[v], t) => u = v
               /\ On(sleepers, t) <=> st[t] = "SLEEPING" \/ waiting_on[t] # NoWaitQ
               /\ waiting_on[t] # NoWaitQ => On(waiters'[waiting_on[t]], t)
    <3>1. CASE t = current
      BY <1>1, <1>2, <1>3, <2>1, <3>1, CurrentOnNoList
    <3>2. CASE t # current
      <4>1. st[t] = state[t] /\ \A v \in WaitQ : On(waiters'[v], t) <=> On(waiters[v], t)
        BY <1>2, <1>3, <3>2
      <4> QED BY <2>1, <4>1 DEF Inv, WaitPlaced
    <3> QED BY <3>1, <3>2
  <2> QED BY <1>1, <1>2, <2>1, <2>2 DEF WaitPlaced
<1> QED BY <1>1, <1>2, <1>4, <1>5, LeaveInv

\* waitq_sleep_until.
LEMMA WaitqSleepUntilInv ==
    ASSUME Inv, NEW w \in WaitQ, NEW tick \in Nat, WaitqSleepUntil(w, tick)
    PROVE  Inv'
<1> DEFINE st == [state EXCEPT ![current] = "BLOCKED"]
<1>1. /\ Calling /\ Schedule(st, run_queue, <<>>) /\ UNCHANGED <<preemptive, ticks, life>>
  BY DEF WaitqSleepUntil
<1>2. /\ waiters' \in [WaitQ -> Seq(Thread)]
      /\ \A v \in WaitQ : Once(waiters'[v])
      /\ \A v \in WaitQ : \A t : On(waiters'[v], t) <=>
            On(waiters[v], t) \/ (v = w /\ t = current)
  BY <1>1, EnqueueWaiter, ZenonT(60) DEF WaitqSleepUntil
<1>3. /\ sleepers' \in Seq(Thread) /\ wake_tick' \in [Thread -> Nat]
      /\ Once(sleepers') /\ SleepersSorted'
      /\ \A t : On(sleepers', t) <=> On(sleepers, t) \/ t = current
  BY SleepInsertFacts, ZenonT(60) DEF WaitqSleepUntil
<1>4. \A t \in Thread : st[t] = IF t = current THEN "BLOCKED" ELSE state[t]
  BY CurrentFacts DEF Inv, TypeOK
<1>5. /\ waiting_on' \in [Thread -> WaitQ \cup {NoWaitQ}] /\ timed_out' \in [Thread -> BOOLEAN]
      /\ \A t \in Thread : waiting_on'[t] = IF t = current THEN w ELSE waiting_on[t]
  BY <1>1, CurrentOnNoList DEF Inv, TypeOK, WaitqSleepUntil
<1>6. WaitPlaced(st, sleepers', waiters', waiting_on')
  <2> HIDE DEF st
  <2>1. w # NoWaitQ /\ \A t \in Thread : waiting_on[t] \in WaitQ \cup {NoWaitQ}
    BY CurrentFacts DEF Inv, TypeOK
  <2>2. ASSUME NEW t \in Thread
        PROVE  /\ st[t] = "BLOCKED" <=> \E v \in WaitQ : On(waiters'[v], t)
               /\ \A u, v \in WaitQ : On(waiters'[u], t) /\ On(waiters'[v], t) => u = v
               /\ On(sleepers', t) <=> st[t] = "SLEEPING" \/ waiting_on'[t] # NoWaitQ
               /\ waiting_on'[t] # NoWaitQ => On(waiters'[waiting_on'[t]], t)
    <3>1. CASE t = current
      BY <1>1, <1>2, <1>3, <1>4, <1>5, <2>1, <3>1, CurrentOnNoList
    <3>2. CASE t # current
      <4>1. /\ st[t] = state[t] /\ waiting_on'[t] = waiting_on[t]
            /\ On(sleepers', t) <=> On(sleepers, t)
            /\ \A v \in WaitQ : On(waiters'[v], t) <=> On(waiters[v], t)
        BY <1>2, <1>3, <1>4, <1>5, <3>2
      <4> QED BY <2>1, <4>1 DEF Inv, WaitPlaced
    <3> QED BY <3>1, <3>2
  <2> QED BY <1>2, <1>3, <2>2, ZenonT(60) DEF WaitPlaced
<1> QED BY <1>1, <1>2, <1>3, <1>5, <1>6, LeaveInv

\* thread_exit, at its end: the thread is freed.
LEMMA ExitInv ==
    ASSUME Inv, ThreadExit
    PROVE  Inv'
<1> DEFINE st == [state EXCEPT ![current] = "DEAD"]
<1>1. /\ Calling /\ Schedule(st, run_queue, <<>>) /\ current \in exiting
      /\ UNCHANGED <<sleepers, waiters, waits, preemptive, ticks, making, has_ns>>
      /\ exiting' = exiting \ {current}
  BY DEF ThreadExit
<1>2. /\ current' \in All /\ state' \in [All -> State] /\ run_queue' \in Seq(Thread)
      /\ slice_left' \in 1..Slice /\ todo' \in Seq(Work) /\ idle_todo' \in Seq(Work)
      /\ ReadyPlaced(current', state', run_queue', Embryos)
      /\ \A t \in Thread : state'[t] = "BLOCKED" <=>
            IF t = current THEN FALSE ELSE state[t] = "BLOCKED"
      /\ \A t \in Thread : state'[t] = "SLEEPING" <=>
            IF t = current THEN FALSE ELSE state[t] = "SLEEPING"
      /\ \A t \in Thread : state'[t] = "FREE" <=>
            IF t = current THEN TRUE ELSE state[t] = "FREE"
      /\ current' = Idle => run_queue' = <<>>
  BY <1>1, LeaveFacts DEF Calling
<1>3. TypeOK'
  BY <1>1, <1>2 DEF Inv, TypeOK, State, waits
<1>4. Embryos' = Embryos
  BY <1>1 DEF Embryos, Embryo
<1>5. WaitPlaced(state', sleepers, waiters, waiting_on)
  BY <1>1, <1>2, CurrentOnNoList, WaitPlacedSame DEF Inv
<1>6. ExitingLetGo' /\ FreedWithoutNamespace'
  BY <1>1, <1>2 DEF Inv, TypeOK, ExitingLetGo, FreedWithoutNamespace
<1> QED BY <1>1, <1>2, <1>3, <1>4, <1>5, <1>6, ZenonT(60)
  DEF Inv, IdleOnlyWhenNothingIsReady, SleepersSorted, MakingOnce, waits

\* What is left to show of a step made with interrupts off: the thread states
\* st it made, and what came of them.
LEMMA StepInv ==
    ASSUME Inv, NEW st,
           current' \in All, state' \in [All -> State], run_queue' \in Seq(Thread),
           slice_left' \in 1..Slice, todo' \in Seq(Work), idle_todo' \in Seq(Work),
           sleepers' \in Seq(Thread), wake_tick' \in [Thread -> Nat],
           waiters' \in [WaitQ -> Seq(Thread)],
           waiting_on' \in [Thread -> WaitQ \cup {NoWaitQ}],
           timed_out' \in [Thread -> BOOLEAN],
           ReadyPlaced(current', state', run_queue', Embryos),
           WaitPlaced(st, sleepers', waiters', waiting_on'), SleepersSorted',
           \A t \in Thread : state'[t] = "BLOCKED" <=> st[t] = "BLOCKED",
           \A t \in Thread : state'[t] = "SLEEPING" <=> st[t] = "SLEEPING",
           \A t \in Thread : state'[t] = "FREE" <=> state[t] = "FREE",
           IdleOnlyWhenNothingIsReady',
           UNCHANGED <<preemptive, ticks, life>>
    PROVE  Inv'
<1>1. TypeOK'
  BY DEF Inv, TypeOK, State, life
<1>2. Embryos' = Embryos
  BY ZenonT(60) DEF Embryos, Embryo, life
<1>3. WaitPlaced(state', sleepers', waiters', waiting_on')
  BY WaitPlacedSame, ZenonT(60)
<1>4. ExitingLetGo' /\ FreedWithoutNamespace' /\ MakingOnce'
  BY DEF Inv, TypeOK, ExitingLetGo, FreedWithoutNamespace, MakingOnce, life
<1> QED BY <1>1, <1>2, <1>3, <1>4 DEF Inv

\* One round of waitq_wake_all.
LEMMA WakeAllNextInv ==
    ASSUME Inv, WakeAllNext
    PROVE  Inv'
<1>1. PICK w \in WaitQ : /\ waiters[w] # <<>> /\ WaitqPop(w)
                         /\ state' = [state EXCEPT ![Head(waiters[w])] = "RUNNABLE"]
                         /\ run_queue' = Append(run_queue, Head(waiters[w]))
  <2>1. Head(todo) \in Work BY HeadTailProperties DEF WakeAllNext, Inv, TypeOK
  <2>2. Head(todo).wq \in WaitQ BY <2>1 DEF Work, WakeAllNext
  <2> QED BY <2>2, ZenonT(60) DEF WakeAllNext
<1>2. UNCHANGED <<current, timed_out, slice_left, preemptive, ticks, todo, idle_todo, life>>
      /\ todo # <<>>
  BY DEF WakeAllNext
<1> DEFINE t == Head(waiters[w])
<1>3. /\ t \in Thread /\ state[t] = "BLOCKED"
      /\ sleepers' \in Seq(Thread) /\ wake_tick' \in [Thread -> Nat]
      /\ waiters' \in [WaitQ -> Seq(Thread)]
      /\ waiting_on' \in [Thread -> WaitQ \cup {NoWaitQ}]
      /\ WaitPlaced([state EXCEPT ![t] = "RUNNABLE"], sleepers', waiters', waiting_on')
      /\ SleepersSorted'
  BY <1>1, PopFacts, ZenonT(60)
<1> HIDE DEF t
<1>4. /\ run_queue' \in Seq(Thread) /\ state' \in [All -> State]
      /\ ReadyPlaced(current, state', run_queue', Embryos)
      /\ \A x \in Thread : state'[x] = "FREE" <=> state[x] = "FREE"
  BY <1>1, <1>3, ReadyFacts, ZenonT(60) DEF t
<1>5. WaitPlaced(state', sleepers', waiters', waiting_on')
  BY <1>1, <1>3 DEF t
<1>6. /\ current' \in All /\ slice_left' \in 1..Slice /\ todo' \in Seq(Work)
      /\ idle_todo' \in Seq(Work) /\ timed_out' \in [Thread -> BOOLEAN]
      /\ IdleOnlyWhenNothingIsReady'
  BY <1>2 DEF Inv, TypeOK, IdleOnlyWhenNothingIsReady
<1> QED BY <1>2, <1>3, <1>4, <1>5, <1>6, StepInv, ZenonT(60)

\* The end of waitq_wake_all.
LEMMA WakeAllEndInv ==
    ASSUME Inv, WakeAllEnd
    PROVE  Inv'
<1>1. /\ todo # <<>> /\ ReschedIfIdle(state, run_queue)
      /\ UNCHANGED <<sleepers, waiters, waits, preemptive, ticks, life>>
  BY DEF WakeAllEnd
<1>2. /\ state \in [All -> State] /\ run_queue \in Seq(Thread)
      /\ ReadyPlaced(current, state, run_queue, Embryos)
  BY DEF Inv, TypeOK, State
<1>3. /\ current' \in All /\ state' \in [All -> State] /\ run_queue' \in Seq(Thread)
      /\ slice_left' \in 1..Slice /\ todo' \in Seq(Work) /\ idle_todo' \in Seq(Work)
      /\ ReadyPlaced(current', state', run_queue', Embryos)
      /\ \A t \in Thread : state'[t] = "BLOCKED" <=> state[t] = "BLOCKED"
      /\ \A t \in Thread : state'[t] = "SLEEPING" <=> state[t] = "SLEEPING"
      /\ \A t \in Thread : state'[t] = "FREE" <=> state[t] = "FREE"
      /\ IdleOnlyWhenNothingIsReady'
  BY <1>1, <1>2, ReschedFacts
<1>4. /\ sleepers' \in Seq(Thread) /\ wake_tick' \in [Thread -> Nat]
      /\ waiters' \in [WaitQ -> Seq(Thread)]
      /\ waiting_on' \in [Thread -> WaitQ \cup {NoWaitQ}] /\ timed_out' \in [Thread -> BOOLEAN]
      /\ WaitPlaced(state, sleepers', waiters', waiting_on') /\ SleepersSorted'
  BY <1>1 DEF Inv, TypeOK, SleepersSorted, waits
<1> QED BY <1>1, <1>3, <1>4, StepInv, ZenonT(60)

\* waitq_wake_one.
LEMMA WakeOneInv ==
    ASSUME Inv, WaitqWakeOne
    PROVE  Inv'
<1> DEFINE w == Head(todo).wq
<1>1. todo # <<>> /\ w \in WaitQ /\ UNCHANGED <<timed_out, preemptive, ticks, life>>
      /\ timed_out' \in [Thread -> BOOLEAN]
  <2>1. Head(todo) \in Work BY HeadTailProperties DEF WaitqWakeOne, Inv, TypeOK
  <2> QED BY <2>1 DEF Work, WaitqWakeOne, Inv, TypeOK
<1>2. CASE waiters[w] = <<>>
  <2>1. /\ ReschedIfIdle(state, run_queue)
        /\ UNCHANGED <<sleepers, waiters, waiting_on, wake_tick>>
    BY <1>2 DEF WaitqWakeOne
  <2>2. /\ state \in [All -> State] /\ run_queue \in Seq(Thread)
        /\ ReadyPlaced(current, state, run_queue, Embryos)
    BY DEF Inv, TypeOK, State
  <2>3. /\ current' \in All /\ state' \in [All -> State] /\ run_queue' \in Seq(Thread)
        /\ slice_left' \in 1..Slice /\ todo' \in Seq(Work) /\ idle_todo' \in Seq(Work)
        /\ ReadyPlaced(current', state', run_queue', Embryos)
        /\ \A t \in Thread : state'[t] = "BLOCKED" <=> state[t] = "BLOCKED"
        /\ \A t \in Thread : state'[t] = "SLEEPING" <=> state[t] = "SLEEPING"
        /\ \A t \in Thread : state'[t] = "FREE" <=> state[t] = "FREE"
        /\ IdleOnlyWhenNothingIsReady'
    BY <1>1, <2>1, <2>2, ReschedFacts
  <2>4. /\ sleepers' \in Seq(Thread) /\ wake_tick' \in [Thread -> Nat]
        /\ waiters' \in [WaitQ -> Seq(Thread)]
        /\ waiting_on' \in [Thread -> WaitQ \cup {NoWaitQ}]
        /\ WaitPlaced(state, sleepers', waiters', waiting_on') /\ SleepersSorted'
    BY <2>1 DEF Inv, TypeOK, SleepersSorted
  <2> QED BY <1>1, <2>3, <2>4, StepInv, ZenonT(60)
<1>3. CASE waiters[w] # <<>>
  <2> DEFINE t == Head(waiters[w])
             st == [state EXCEPT ![t] = "RUNNABLE"]
             q == Append(run_queue, t)
  <2>1. WaitqPop(w) /\ ReschedIfIdle(st, q)
    BY <1>3 DEF WaitqWakeOne
  <2>2. /\ t \in Thread /\ state[t] = "BLOCKED"
        /\ sleepers' \in Seq(Thread) /\ wake_tick' \in [Thread -> Nat]
        /\ waiters' \in [WaitQ -> Seq(Thread)]
        /\ waiting_on' \in [Thread -> WaitQ \cup {NoWaitQ}]
        /\ WaitPlaced(st, sleepers', waiters', waiting_on') /\ SleepersSorted'
    BY <1>1, <1>3, <2>1, PopFacts
  <2> HIDE DEF t
  <2>3. /\ st \in [All -> State] /\ q \in Seq(Thread)
        /\ ReadyPlaced(current, st, q, Embryos)
        /\ \A x \in Thread : st[x] = "FREE" <=> state[x] = "FREE"
    BY <2>2, ReadyFacts
  <2> HIDE DEF st, q
  <2>4. /\ current' \in All /\ state' \in [All -> State] /\ run_queue' \in Seq(Thread)
        /\ slice_left' \in 1..Slice /\ todo' \in Seq(Work) /\ idle_todo' \in Seq(Work)
        /\ ReadyPlaced(current', state', run_queue', Embryos)
        /\ \A x \in Thread : state'[x] = "BLOCKED" <=> st[x] = "BLOCKED"
        /\ \A x \in Thread : state'[x] = "SLEEPING" <=> st[x] = "SLEEPING"
        /\ \A x \in Thread : state'[x] = "FREE" <=> st[x] = "FREE"
        /\ IdleOnlyWhenNothingIsReady'
    BY <1>1, <2>1, <2>3, ReschedFacts
  <2>5. \A x \in Thread : state'[x] = "FREE" <=> state[x] = "FREE"
    BY <2>3, <2>4
  <2> QED BY <1>1, <2>2, <2>4, <2>5, StepInv, ZenonT(60)
<1> QED BY <1>2, <1>3

\* sched_tick takes the first sleeper off the list and makes it ready.
LEMMA TickExpireInv ==
    ASSUME Inv, TickExpire
    PROVE  Inv'
<1> DEFINE t == Head(sleepers)
           w == waiting_on[t]
<1>1. /\ todo # <<>> /\ sleepers # <<>> /\ sleepers' = Tail(sleepers)
      /\ waiters' = [v \in WaitQ |-> IF v = w THEN Without(waiters[v], t) ELSE waiters[v]]
      /\ waiting_on' = [waiting_on EXCEPT ![t] = NoWaitQ]
      /\ timed_out' = [timed_out EXCEPT ![t] = IF w # NoWaitQ THEN TRUE ELSE @]
      /\ wake_tick' = [wake_tick EXCEPT ![t] = 0]
      /\ state' = [state EXCEPT ![t] = "RUNNABLE"]
      /\ run_queue' = Append(run_queue, t)
      /\ UNCHANGED <<current, slice_left, preemptive, ticks, todo, idle_todo, life>>
  BY ZenonT(60) DEF TickExpire
<1>2. sleepers \in Seq(Thread) /\ Once(sleepers) /\ waiters \in [WaitQ -> Seq(Thread)]
      /\ \A v \in WaitQ : Once(waiters[v])
  BY DEF Inv, TypeOK, WaitPlaced
<1>3. t \in Thread /\ On(sleepers, t) /\ sleepers' = Without(sleepers, t)
  BY <1>1, <1>2, TailFacts, TailIsWithout
<1> HIDE DEF t
<1>4. /\ state[t] \in {"BLOCKED", "SLEEPING"} /\ w \in WaitQ \cup {NoWaitQ}
      /\ \A v \in WaitQ : On(waiters[v], t) => v = w
  <2>1. state[t] = "SLEEPING" \/ (w # NoWaitQ /\ On(waiters[w], t))
    BY <1>3 DEF Inv, WaitPlaced
  <2>2. w \in WaitQ \cup {NoWaitQ} BY <1>3 DEF Inv, TypeOK
  <2> QED BY <1>3, <2>1, <2>2, ZenonT(60) DEF Inv, WaitPlaced
<1> HIDE DEF w
<1>5. /\ waiters' \in [WaitQ -> Seq(Thread)]
      /\ \A v \in WaitQ : Once(waiters'[v])
      /\ \A v \in WaitQ : \A x : On(waiters'[v], x) <=> On(waiters[v], x) /\ x # t
  <2>1. ASSUME NEW v \in WaitQ
        PROVE  /\ waiters'[v] \in Seq(Thread) /\ Once(waiters'[v])
               /\ \A x : On(waiters'[v], x) <=> On(waiters[v], x) /\ x # t
    <3>1. CASE v = w
      <4>1. waiters'[v] = Without(waiters[v], t) BY <1>1, <3>1
      <4>2. waiters[v] \in Seq(Thread) /\ Once(waiters[v]) BY <1>2
      <4> QED BY <4>1, <4>2, WithoutFacts
    <3>2. CASE v # w
      BY <1>1, <1>2, <1>4, <3>2
    <3> QED BY <3>1, <3>2
  <2> QED BY <1>1, <2>1, ZenonT(60)
<1>6. /\ sleepers' \in Seq(Thread) /\ wake_tick' \in [Thread -> Nat]
      /\ waiting_on' \in [Thread -> WaitQ \cup {NoWaitQ}]
      /\ WaitPlaced(state', sleepers', waiters', waiting_on')
      /\ SleepersSorted'
  BY <1>1, <1>3, <1>4, <1>5, WakeFacts, ZenonT(60)
<1>7. /\ run_queue' \in Seq(Thread) /\ state' \in [All -> State]
      /\ ReadyPlaced(current, state', run_queue', Embryos)
      /\ \A x \in Thread : state'[x] = "FREE" <=> state[x] = "FREE"
  BY <1>1, <1>3, <1>4, ReadyFacts, ZenonT(60)
<1>8. /\ current' \in All /\ slice_left' \in 1..Slice /\ todo' \in Seq(Work)
      /\ idle_todo' \in Seq(Work) /\ timed_out' \in [Thread -> BOOLEAN]
      /\ IdleOnlyWhenNothingIsReady'
  BY <1>1, ZenonT(60) DEF Inv, TypeOK, IdleOnlyWhenNothingIsReady
<1> QED BY <1>1, <1>5, <1>6, <1>7, <1>8, StepInv, ZenonT(60)

\* The end of sched_tick.
LEMMA TickEndInv ==
    ASSUME Inv, TickEnd
    PROVE  Inv'
<1>1. todo # <<>> /\ UNCHANGED <<sleepers, waiters, waits, preemptive, ticks, life>>
  BY DEF TickEnd
<1>2. /\ sleepers' \in Seq(Thread) /\ wake_tick' \in [Thread -> Nat]
      /\ waiters' \in [WaitQ -> Seq(Thread)]
      /\ waiting_on' \in [Thread -> WaitQ \cup {NoWaitQ}] /\ timed_out' \in [Thread -> BOOLEAN]
      /\ WaitPlaced(state, sleepers', waiters', waiting_on') /\ SleepersSorted'
  BY <1>1 DEF Inv, TypeOK, SleepersSorted, waits
<1>3. /\ state \in [All -> State] /\ run_queue \in Seq(Thread) /\ Tail(todo) \in Seq(Work)
      /\ ReadyPlaced(current, state, run_queue, Embryos)
  BY <1>1, HeadTailProperties DEF Inv, TypeOK, State
<1>4. CASE Schedule(state, run_queue, Tail(todo))
  <2>1. /\ current' \in All /\ state' \in [All -> State] /\ run_queue' \in Seq(Thread)
        /\ slice_left' \in 1..Slice /\ todo' \in Seq(Work) /\ idle_todo' \in Seq(Work)
        /\ ReadyPlaced(current', state', run_queue', Embryos)
        /\ \A t \in Thread : state'[t] = "BLOCKED" <=> state[t] = "BLOCKED"
        /\ \A t \in Thread : state'[t] = "SLEEPING" <=> state[t] = "SLEEPING"
        /\ \A t \in Thread : state'[t] = "FREE" <=> state[t] = "FREE"
        /\ IdleOnlyWhenNothingIsReady'
    BY <1>3, <1>4, SwitchFacts, ZenonT(60)
  <2> QED BY <1>1, <1>2, <2>1, StepInv, ZenonT(60)
<1>5. CASE /\ IF current = Idle THEN run_queue = <<>> ELSE ~preemptive \/ slice_left > 1
           /\ slice_left' = IF current # Idle /\ preemptive THEN slice_left - 1 ELSE slice_left
           /\ todo' = Tail(todo)
           /\ UNCHANGED <<current, state, run_queue, idle_todo>>
  <2>1. slice_left' \in 1..Slice
    BY <1>5, SchedAssumption DEF Inv, TypeOK
  <2>2. /\ current' \in All /\ state' \in [All -> State] /\ run_queue' \in Seq(Thread)
        /\ todo' \in Seq(Work) /\ idle_todo' \in Seq(Work)
        /\ ReadyPlaced(current', state', run_queue', Embryos)
        /\ IdleOnlyWhenNothingIsReady'
        /\ \A t \in Thread : state'[t] = state[t]
    BY <1>3, <1>5 DEF Inv, TypeOK, IdleOnlyWhenNothingIsReady
  <2> QED BY <1>1, <1>2, <2>1, <2>2, StepInv, ZenonT(60)
<1> QED BY <1>4, <1>5 DEF TickEnd

\* Calls and interrupts that only leave work to do with interrupts off.
LEMMA PendingInv ==
    ASSUME Inv,
           \/ SchedEnablePreemption
           \/ \E op \in {"one", "all"}, w \in WaitQ : ThreadWake(op, w)
           \/ TimerTick
           \/ \E wakes \in IrqHandlers : Irq(wakes)
    PROVE  Inv'
<1>1. CASE SchedEnablePreemption
  BY <1>1, QuietInv DEF SchedEnablePreemption, Inv, TypeOK
<1>2. ASSUME NEW op \in {"one", "all"}, NEW w \in WaitQ, ThreadWake(op, w) PROVE Inv'
  <2>1. [op |-> op, wq |-> w] \in Work BY DEF Work
  <2>2. todo' \in Seq(Work) /\ todo' # <<>> BY <1>2, <2>1 DEF ThreadWake
  <2> QED BY <1>2, <2>2, QuietInv, ZenonT(60) DEF ThreadWake, Inv, TypeOK
<1>3. CASE TimerTick
  <2>1. Tick \in Work BY ZenonT(60) DEF Tick, Work
  <2>2. todo' \in Seq(Work) /\ todo' # <<>> BY <1>3, <2>1 DEF TimerTick
  <2>3. ticks' \in 0..MaxTick BY <1>3, SchedAssumption DEF TimerTick, Inv, TypeOK
  <2> QED BY <1>3, <2>2, <2>3, QuietInv DEF TimerTick, Inv, TypeOK
<1>4. ASSUME NEW wakes \in IrqHandlers, Irq(wakes) PROVE Inv'
  <2>1. wakes \in Seq([op : {"one", "all"}, wq : WaitQ]) BY SchedAssumption, ZenonT(60)
  <2>2. \A i \in 1..Len(wakes) : wakes[i] \in Work BY <2>1, ElementOfSeq, ZenonT(60) DEF Work
  <2>3. wakes \in Seq(Work) BY <2>1, <2>2
  <2> QED BY <1>4, <2>3, QuietInv DEF Irq, Inv, TypeOK
<1> QED BY <1>1, <1>2, <1>3, <1>4

\* The invariant is inductive.
LEMMA NextInv ==
    ASSUME Inv, [Next]_vars
    PROVE  Inv'
<1>1. CASE UNCHANGED vars
  BY <1>1, ZenonT(60) DEF vars, lists, waits, life, Inv, TypeOK, ReadyPlaced, WaitPlaced, SleepersSorted,
      MakingOnce, IdleOnlyWhenNothingIsReady, ExitingLetGo, FreedWithoutNamespace, Embryos, Embryo
<1>2. ASSUME NEW t \in Thread, ThreadAlloc(t) PROVE Inv' BY <1>2, AllocInv
<1>3. CASE ThreadCreateIn BY <1>3, CreateInv
<1>4. CASE ThreadYield BY <1>4, YieldInv
<1>5. ASSUME NEW tick \in 0..MaxTick, ThreadSleepUntil(tick) PROVE Inv' BY <1>5, SleepUntilInv
<1>6. ASSUME NEW w \in WaitQ, WaitqSleep(w) PROVE Inv' BY <1>6, WaitqSleepInv
<1>7. ASSUME NEW w \in WaitQ, NEW tick \in 0..MaxTick, WaitqSleepUntil(w, tick) PROVE Inv'
  BY <1>7, WaitqSleepUntilInv
<1>8. CASE ThreadSetNamespace \/ ThreadExitUnref BY <1>8, NamespaceInv
<1>9. CASE ThreadExit BY <1>9, ExitInv
<1>10. CASE \/ SchedEnablePreemption
            \/ \E op \in {"one", "all"}, w \in WaitQ : ThreadWake(op, w)
            \/ TimerTick
            \/ \E wakes \in IrqHandlers : Irq(wakes)
  BY <1>10, PendingInv
<1>11. CASE WakeAllNext BY <1>11, WakeAllNextInv
<1>12. CASE WakeAllEnd BY <1>12, WakeAllEndInv
<1>13. CASE WaitqWakeOne BY <1>13, WakeOneInv
<1>14. CASE TickExpire BY <1>14, TickExpireInv
<1>15. CASE TickEnd BY <1>15, TickEndInv
<1> QED
  BY <1>1, <1>2, <1>3, <1>4, <1>5, <1>6, <1>7, <1>8, <1>9, <1>10, <1>11, <1>12, <1>13, <1>14, <1>15
  DEF Next, ThreadStep, IrqStep

-----------------------------------------------------------------------------
\* The invariant holds in every state the scheduler reaches.
THEOREM InvHolds == Spec => []Inv
<1>1. Init => Inv BY InitInv
<1>2. Inv /\ [Next]_vars => Inv' BY NextInv
<1> QED BY <1>1, <1>2, PTL DEF Spec

\* No operation of sched.c loses a thread or puts it on two lists that exclude
\* each other: every thread is where its state says.
THEOREM ThreadsInPlace == Spec => []EveryThreadInItsPlace
<1>1. Inv => EveryThreadInItsPlace
  BY ZenonT(60) DEF Inv, ReadyPlaced, WaitPlaced, EveryThreadInItsPlace, Embryos
<1> QED BY <1>1, InvHolds, PTL

\* sleep_insert and the unlinking of sleepers keep the sleep list sorted.
THEOREM SortedSleepers == Spec => []SleepersSorted
<1>1. Inv => SleepersSorted BY DEF Inv
<1> QED BY <1>1, InvHolds, PTL

\* Whoever makes a thread ready while the CPU is idle switches to it before
\* interrupts are on again (resched_if_idle, sched_tick).
THEOREM NeverIdleWithWork == Spec => []IdleOnlyWhenNothingIsReady
<1>1. Inv => IdleOnlyWhenNothingIsReady BY DEF Inv
<1> QED BY <1>1, InvHolds, PTL

\* finish_switch never frees a thread that still holds a namespace.
THEOREM NoNamespaceInSwitch == Spec => []FreedWithoutNamespace
<1>1. Inv => FreedWithoutNamespace BY DEF Inv
<1> QED BY <1>1, InvHolds, PTL

\* Every variable keeps its type.
THEOREM TypeCorrect == Spec => []TypeOK
<1>1. Inv => TypeOK BY DEF Inv
<1> QED BY <1>1, InvHolds, PTL

\* sched_tick may stop at the first sleeper that is not due: when it is done,
\* nobody who was due is left.
THEOREM TickIsComplete == Spec => TickWakesEveryoneDue
<1>1. Inv /\ [Next]_vars =>
        [TickEnd => \A i \in 1..Len(sleepers) : wake_tick[sleepers[i]] > ticks]_vars
  <2> SUFFICES ASSUME Inv, TickEnd, NEW i \in 1..Len(sleepers)
               PROVE  wake_tick[sleepers[i]] > ticks
    BY ZenonT(60)
  <2>1. sleepers \in Seq(Thread) /\ wake_tick \in [Thread -> Nat] /\ ticks \in Nat
        /\ SortedBy(sleepers, wake_tick)
    BY SchedAssumption DEF Inv, TypeOK, SleepersSorted
  <2>2. sleepers # <<>> /\ 1 \in 1..Len(sleepers) /\ Head(sleepers) = sleepers[1]
    BY <2>1, LenProperties, EmptySeq
  <2>3. wake_tick[sleepers[1]] > ticks BY <2>2 DEF TickEnd
  <2>4. i = 1 \/ wake_tick[sleepers[1]] <= wake_tick[sleepers[i]]
    BY <2>1, <2>2 DEF SortedBy
  <2>5. sleepers[1] \in Thread /\ sleepers[i] \in Thread BY <2>1, <2>2, ElementOfSeq
  <2>6. wake_tick[sleepers[1]] \in Nat /\ wake_tick[sleepers[i]] \in Nat BY <2>1, <2>5
  <2> QED BY <2>1, <2>3, <2>4, <2>6
<1> QED BY <1>1, InvHolds, PTL DEF Spec, TickWakesEveryoneDue
=============================================================================
