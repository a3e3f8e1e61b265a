------------------------------- MODULE Sched -------------------------------
(***************************************************************************)
(* The kernel thread scheduler (zkt/scheduler/sched.c): round-robin run    *)
(* queue, idle thread, sorted sleep list, wait queues with and without a   *)
(* deadline, preemption by the timer, and the switch an interrupt handler  *)
(* makes when it wakes a thread while the CPU is idle.                     *)
(*                                                                         *)
(* There is one CPU, so a stretch of code that runs with interrupts off is *)
(* one atomic step -- except that waking and expiring threads are loops,   *)
(* which are taken one thread at a time here: `todo' holds what the        *)
(* context that has interrupts off still has to do, and while it is not    *)
(* empty no other step is possible.                                        *)
(***************************************************************************)
EXTENDS Lists

CONSTANTS
    Thread,       \* thread structures that can be allocated
    Main,         \* the boot context, a thread from sched_init on
    Idle,         \* the idle thread
    NoThread,
    WaitQ,        \* the wait queues of the kernel
    NoWaitQ,
    Slice,        \* TIME_SLICE_TICKS
    MaxTick,      \* bound: the clock stops advancing here
    IrqHandlers   \* what interrupt handlers wake, in order

All == Thread \cup {Idle}

\* A piece of work done with interrupts off: waitq_wake_one and
\* waitq_wake_all on a wait queue, and the timer's sched_tick.
Work == [op : {"one", "all"}, wq : WaitQ] \cup [op : {"tick"}, wq : {NoWaitQ}]
Tick == [op |-> "tick", wq |-> NoWaitQ]

ASSUME SchedAssumption ==
    /\ Main \in Thread
    /\ Idle \notin Thread
    /\ NoThread \notin All
    /\ NoWaitQ \notin WaitQ
    /\ Slice \in Nat \ {0}
    /\ MaxTick \in Nat
    /\ IrqHandlers \subseteq Seq([op : {"one", "all"}, wq : WaitQ])

VARIABLES
    current,      \* the running thread
    state,        \* enum thread_state of each, "FREE" when not allocated
    run_queue,    \* run_head .. run_tail
    sleepers,     \* the sleep list, sorted by wake_tick
    wake_tick,    \* read only while on the sleep list; 0 otherwise here
    waiters,      \* the threads on each wait queue
    waiting_on,   \* the wait queue of a timed wait
    timed_out,
    slice_left,
    preemptive,
    ticks,        \* timer.c's clock
    todo,         \* what the context with interrupts off still has to do
    idle_todo,    \* the same, of the handler the idle thread was switched out of
    making,       \* a thread its creator has allocated and not yet enqueued
    has_ns,       \* the thread holds a reference to a namespace
    exiting       \* the thread is in thread_exit

lists == <<run_queue, sleepers, waiters>>
waits == <<wake_tick, waiting_on, timed_out>>
life == <<making, has_ns, exiting>>
vars == <<current, state, lists, waits, slice_left, preemptive, ticks, todo,
          idle_todo, life>>

TypeOK ==
    /\ current \in All
    /\ state \in [All -> {"FREE", "RUNNABLE", "RUNNING", "SLEEPING", "BLOCKED", "DEAD"}]
    /\ run_queue \in Seq(Thread)
    /\ sleepers \in Seq(Thread)
    /\ wake_tick \in [Thread -> Nat]
    /\ waiters \in [WaitQ -> Seq(Thread)]
    /\ waiting_on \in [Thread -> WaitQ \cup {NoWaitQ}]
    /\ timed_out \in [Thread -> BOOLEAN]
    /\ slice_left \in 1..Slice
    /\ preemptive \in BOOLEAN
    /\ ticks \in 0..MaxTick
    /\ todo \in Seq(Work)
    /\ idle_todo \in Seq(Work)
    /\ making \in [Thread -> Thread \cup {NoThread}]
    /\ has_ns \in [Thread -> BOOLEAN]
    /\ exiting \in SUBSET Thread

(***************************************************************************)
(* sched_init: the boot context becomes thread Main; idle is allocated but *)
(* never queued.                                                           *)
(***************************************************************************)
Init ==
    /\ current = Main
    /\ state = [t \in All |-> CASE t = Main -> "RUNNING"
                                [] t = Idle -> "RUNNABLE"
                                [] OTHER -> "FREE"]
    /\ run_queue = <<>>
    /\ sleepers = <<>>
    /\ wake_tick = [t \in Thread |-> 0]
    /\ waiters = [w \in WaitQ |-> <<>>]
    /\ waiting_on = [t \in Thread |-> NoWaitQ]
    /\ timed_out = [t \in Thread |-> FALSE]
    /\ slice_left = Slice
    /\ preemptive = FALSE
    /\ ticks = 0
    /\ todo = <<>>
    /\ idle_todo = <<>>
    /\ making = [t \in Thread |-> NoThread]
    /\ has_ns = [t \in Thread |-> FALSE]
    /\ exiting = {}

-----------------------------------------------------------------------------
(***************************************************************************)
(* schedule() and finish_switch().  st and q are the thread states and the *)
(* run queue the caller has made; rest is what an interrupt handler still  *)
(* has to do when it returns to the thread switched out, which only the    *)
(* idle thread can be left with.                                           *)
(***************************************************************************)
Schedule(st, q, rest) ==
    LET prev == current
        ready == IF st[prev] = "RUNNING" /\ prev # Idle THEN Append(q, prev) ELSE q
        next == IF ready = <<>> THEN Idle ELSE Head(ready)
        left == CASE st[prev] = "RUNNING" -> "RUNNABLE"
                  [] st[prev] = "DEAD" -> "FREE"
                  [] OTHER -> st[prev]
    IN  /\ current' = next
        /\ state' = [st EXCEPT ![prev] = left, ![next] = "RUNNING"]
        /\ run_queue' = IF ready = <<>> THEN <<>> ELSE Tail(ready)
        /\ slice_left' = Slice
        /\ todo' = IF next = Idle THEN idle_todo ELSE <<>>
        /\ idle_todo' = IF prev = Idle THEN rest ELSE IF next = Idle THEN <<>> ELSE idle_todo

\* Mutant: every sleeper goes to the front.
IsSleepSlotFirst(k, tick) == k = 0

\* Where sleep_insert puts a thread with this deadline: behind every sleeper
\* due no later than it.
IsSleepSlot(k, tick) ==
    /\ \A i \in 1..k : wake_tick[sleepers[i]] <= tick
    /\ k < Len(sleepers) => wake_tick[sleepers[k + 1]] > tick

SleepInsert(t, tick) ==
    \E k \in 0..Len(sleepers) :
        /\ IsSleepSlot(k, tick)
        /\ sleepers' = LinkAt(sleepers, k + 1, t)

-----------------------------------------------------------------------------
(***************************************************************************)
(* What the running thread may call.  It is not in the middle of creating  *)
(* a thread, and it has interrupts on.                                     *)
(***************************************************************************)
Calling == current # Idle /\ todo = <<>> /\ making[current] = NoThread

\* thread_alloc: the new thread is listed and shares its creator's namespace.
ThreadAlloc(t) ==
    /\ Calling /\ current \notin exiting
    /\ state[t] = "FREE"
    /\ state' = [state EXCEPT ![t] = "RUNNABLE"]
    /\ timed_out' = [timed_out EXCEPT ![t] = FALSE]
    /\ has_ns' = [has_ns EXCEPT ![t] = has_ns[current]]
    /\ making' = [making EXCEPT ![current] = t]
    /\ UNCHANGED <<current, lists, wake_tick, waiting_on, slice_left, preemptive, ticks, todo,
                   idle_todo, exiting>>

\* The second half of thread_create_in, with interrupts off again.
ThreadCreateIn ==
    /\ current # Idle /\ todo = <<>> /\ making[current] # NoThread
    /\ run_queue' = Append(run_queue, making[current])
    /\ making' = [making EXCEPT ![current] = NoThread]
    /\ UNCHANGED <<current, state, sleepers, waiters, waits, slice_left, preemptive,
                   ticks, todo, idle_todo, has_ns, exiting>>

ThreadYield ==
    /\ Calling
    /\ Schedule(state, run_queue, <<>>)
    /\ UNCHANGED <<sleepers, waiters, waits, preemptive, ticks, life>>

ThreadSleepUntil(tick) ==
    /\ Calling
    /\ wake_tick' = [wake_tick EXCEPT ![current] = tick]
    /\ SleepInsert(current, tick)
    /\ Schedule([state EXCEPT ![current] = "SLEEPING"], run_queue, <<>>)
    /\ UNCHANGED <<waiters, waiting_on, timed_out, preemptive, ticks, life>>

WaitqSleep(w) ==
    /\ Calling
    /\ waiters' = [waiters EXCEPT ![w] = Append(@, current)]
    /\ Schedule([state EXCEPT ![current] = "BLOCKED"], run_queue, <<>>)
    /\ UNCHANGED <<sleepers, waits, preemptive, ticks, life>>

\* Mutant: timed_out keeps what the last timed wait left in it.
WaitqSleepUntilStale(w, tick) ==
    /\ Calling
    /\ waiting_on' = [waiting_on EXCEPT ![current] = w]
    /\ wake_tick' = [wake_tick EXCEPT ![current] = tick]
    /\ SleepInsert(current, tick)
    /\ waiters' = [waiters EXCEPT ![w] = Append(@, current)]
    /\ Schedule([state EXCEPT ![current] = "BLOCKED"], run_queue, <<>>)
    /\ UNCHANGED <<timed_out, preemptive, ticks, life>>

WaitqSleepUntil(w, tick) ==
    /\ Calling
    /\ waiting_on' = [waiting_on EXCEPT ![current] = w]
    /\ timed_out' = [timed_out EXCEPT ![current] = FALSE]
    /\ wake_tick' = [wake_tick EXCEPT ![current] = tick]
    /\ SleepInsert(current, tick)
    /\ waiters' = [waiters EXCEPT ![w] = Append(@, current)]
    /\ Schedule([state EXCEPT ![current] = "BLOCKED"], run_queue, <<>>)
    /\ UNCHANGED <<preemptive, ticks, life>>

ThreadSetNamespace ==
    /\ Calling /\ current \notin exiting
    /\ has_ns' = [has_ns EXCEPT ![current] = TRUE]
    /\ UNCHANGED <<current, state, lists, waits, slice_left, preemptive, ticks, todo,
                   idle_todo, making, exiting>>

\* thread_exit, first the namespace: ns_unref may wait, so an exiting thread
\* can still sleep and be woken.
ThreadExitUnref ==
    /\ Calling /\ current \notin exiting
    /\ exiting' = exiting \cup {current}
    /\ has_ns' = [has_ns EXCEPT ![current] = FALSE]
    /\ UNCHANGED <<current, state, lists, waits, slice_left, preemptive, ticks, todo,
                   idle_todo, making>>

\* ... then the thread itself, freed by finish_switch on the next one's stack.
ThreadExit ==
    /\ Calling /\ current \in exiting
    /\ exiting' = exiting \ {current}
    /\ Schedule([state EXCEPT ![current] = "DEAD"], run_queue, <<>>)
    /\ UNCHANGED <<sleepers, waiters, waits, preemptive, ticks, making, has_ns>>

SchedEnablePreemption ==
    /\ Calling /\ ~preemptive
    /\ preemptive' = TRUE
    /\ UNCHANGED <<current, state, lists, waits, slice_left, ticks, todo, idle_todo, life>>

\* A thread calls waitq_wake_one or waitq_wake_all.
ThreadWake(op, w) ==
    /\ Calling
    /\ todo' = <<[op |-> op, wq |-> w]>>
    /\ UNCHANGED <<current, state, lists, waits, slice_left, preemptive, ticks,
                   idle_todo, life>>

-----------------------------------------------------------------------------
(***************************************************************************)
(* Interrupts.                                                             *)
(***************************************************************************)

\* A device interrupts whatever runs, and its handler is to wake wakes.
Irq(wakes) ==
    /\ todo = <<>>
    /\ todo' = wakes
    /\ UNCHANGED <<current, state, lists, waits, slice_left, preemptive, ticks,
                   idle_todo, life>>

\* timer_tick.  The clock saturates at MaxTick, where every deadline is due.
TimerTick ==
    /\ todo = <<>>
    /\ ticks' = IF ticks = MaxTick THEN ticks ELSE ticks + 1
    /\ todo' = <<Tick>>
    /\ UNCHANGED <<current, state, lists, waits, slice_left, preemptive, idle_todo, life>>

\* Mutant: a woken thread stays on the sleep list.
WaitqPopKeepsSleeper(w) ==
    /\ waiters' = [waiters EXCEPT ![w] = Tail(@)]
    /\ waiting_on' = [waiting_on EXCEPT ![Head(waiters[w])] = NoWaitQ]
    /\ UNCHANGED <<sleepers, wake_tick>>

\* waitq_pop of a thread that is there.
WaitqPop(w) ==
    LET t == Head(waiters[w])
    IN  /\ waiters' = [waiters EXCEPT ![w] = Tail(@)]
        /\ sleepers' = IF waiting_on[t] # NoWaitQ THEN Without(sleepers, t) ELSE sleepers
        /\ waiting_on' = [waiting_on EXCEPT ![t] = NoWaitQ]
        /\ wake_tick' = [wake_tick EXCEPT ![t] = 0]

\* One round of waitq_wake_all's loop.
WakeAllNext ==
    /\ todo # <<>> /\ Head(todo).op = "all"
    /\ LET w == Head(todo).wq
       IN  /\ waiters[w] # <<>>
           /\ WaitqPop(w)
           /\ state' = [state EXCEPT ![Head(waiters[w])] = "RUNNABLE"]
           /\ run_queue' = Append(run_queue, Head(waiters[w]))
    /\ UNCHANGED <<current, timed_out, slice_left, preemptive, ticks, todo, idle_todo, life>>

\* Mutant: a wake never switches away from the idle thread.
ReschedNever(st, q) ==
    /\ state' = st /\ run_queue' = q /\ todo' = Tail(todo)
    /\ UNCHANGED <<current, slice_left, idle_todo>>

\* resched_if_idle, which ends both wakes: st and q as for Schedule.
ReschedIfIdle(st, q) ==
    IF current = Idle /\ q # <<>>
    THEN Schedule(st, q, Tail(todo))
    ELSE /\ state' = st /\ run_queue' = q /\ todo' = Tail(todo)
         /\ UNCHANGED <<current, slice_left, idle_todo>>

WakeAllEnd ==
    /\ todo # <<>> /\ Head(todo).op = "all"
    /\ waiters[Head(todo).wq] = <<>>
    /\ ReschedIfIdle(state, run_queue)
    /\ UNCHANGED <<sleepers, waiters, waits, preemptive, ticks, life>>

WaitqWakeOne ==
    /\ todo # <<>> /\ Head(todo).op = "one"
    /\ LET w == Head(todo).wq
       IN  IF waiters[w] = <<>>
           THEN /\ ReschedIfIdle(state, run_queue)
                /\ UNCHANGED <<sleepers, waiters, waiting_on, wake_tick>>
           ELSE /\ WaitqPop(w)
                /\ ReschedIfIdle([state EXCEPT ![Head(waiters[w])] = "RUNNABLE"],
                                 Append(run_queue, Head(waiters[w])))
    /\ UNCHANGED <<timed_out, preemptive, ticks, life>>

\* Mutant: a timed wait that expires is not marked.
TickExpireSilent ==
    /\ todo # <<>> /\ Head(todo).op = "tick"
    /\ sleepers # <<>> /\ wake_tick[Head(sleepers)] <= ticks
    /\ LET t == Head(sleepers)
           w == waiting_on[t]
       IN  /\ sleepers' = Tail(sleepers)
           /\ waiters' = [v \in WaitQ |-> IF v = w THEN Without(waiters[v], t) ELSE waiters[v]]
           /\ waiting_on' = [waiting_on EXCEPT ![t] = NoWaitQ]
           /\ wake_tick' = [wake_tick EXCEPT ![t] = 0]
           /\ state' = [state EXCEPT ![t] = "RUNNABLE"]
           /\ run_queue' = Append(run_queue, t)
    /\ UNCHANGED <<current, timed_out, slice_left, preemptive, ticks, todo, idle_todo, life>>

\* sched_tick's loop over the sleepers that are due.
TickExpire ==
    /\ todo # <<>> /\ Head(todo).op = "tick"
    /\ sleepers # <<>> /\ wake_tick[Head(sleepers)] <= ticks
    /\ LET t == Head(sleepers)
           w == waiting_on[t]
       IN  /\ sleepers' = Tail(sleepers)
           /\ waiters' = [v \in WaitQ |-> IF v = w THEN Without(waiters[v], t) ELSE waiters[v]]
           /\ waiting_on' = [waiting_on EXCEPT ![t] = NoWaitQ]
           /\ timed_out' = [timed_out EXCEPT ![t] = IF w # NoWaitQ THEN TRUE ELSE @]
           /\ wake_tick' = [wake_tick EXCEPT ![t] = 0]
           /\ state' = [state EXCEPT ![t] = "RUNNABLE"]
           /\ run_queue' = Append(run_queue, t)
    /\ UNCHANGED <<current, slice_left, preemptive, ticks, todo, idle_todo, life>>

\* Mutant: the tick never takes the CPU from a thread.
TickEndNoPreempt ==
    /\ todo # <<>> /\ Head(todo).op = "tick"
    /\ sleepers # <<>> => wake_tick[Head(sleepers)] > ticks
    /\ \/ /\ current = Idle /\ run_queue # <<>>
          /\ Schedule(state, run_queue, Tail(todo))
       \/ /\ current = Idle => run_queue = <<>>
          /\ todo' = Tail(todo)
          /\ UNCHANGED <<current, state, run_queue, slice_left, idle_todo>>
    /\ UNCHANGED <<sleepers, waiters, waits, preemptive, ticks, life>>

\* The end of sched_tick: idle gives way, or the slice runs down.
TickEnd ==
    /\ todo # <<>> /\ Head(todo).op = "tick"
    /\ sleepers # <<>> => wake_tick[Head(sleepers)] > ticks
    /\ \/ /\ IF current = Idle THEN run_queue # <<>> ELSE preemptive /\ slice_left = 1
          /\ Schedule(state, run_queue, Tail(todo))
       \/ /\ IF current = Idle THEN run_queue = <<>> ELSE ~preemptive \/ slice_left > 1
          /\ slice_left' = IF current # Idle /\ preemptive THEN slice_left - 1 ELSE slice_left
          /\ todo' = Tail(todo)
          /\ UNCHANGED <<current, state, run_queue, idle_todo>>
    /\ UNCHANGED <<sleepers, waiters, waits, preemptive, ticks, life>>

-----------------------------------------------------------------------------
ThreadStep ==
    \/ \E t \in Thread : ThreadAlloc(t)
    \/ ThreadCreateIn
    \/ ThreadYield
    \/ \E tick \in 0..MaxTick : ThreadSleepUntil(tick)
    \/ \E w \in WaitQ : WaitqSleep(w)
    \/ \E w \in WaitQ, tick \in 0..MaxTick : WaitqSleepUntil(w, tick)
    \/ ThreadSetNamespace
    \/ ThreadExitUnref
    \/ ThreadExit
    \/ SchedEnablePreemption
    \/ \E op \in {"one", "all"}, w \in WaitQ : ThreadWake(op, w)

IrqStep ==
    \/ WakeAllNext
    \/ WakeAllEnd
    \/ WaitqWakeOne
    \/ TickExpire
    \/ TickEnd

Next == ThreadStep \/ IrqStep \/ TimerTick \/ \E wakes \in IrqHandlers : Irq(wakes)

Spec == Init /\ [][Next]_vars

\* What the hardware guarantees: a handler that has interrupts off comes to
\* its end, and the timer interrupt, which has the highest priority of the
\* 8259's lines, is taken again and again, however many others there are.
Fairness == WF_vars(IrqStep) /\ SF_vars(TimerTick)

FairSpec == Spec /\ Fairness

-----------------------------------------------------------------------------
(***************************************************************************)
(* Properties.                                                             *)
(***************************************************************************)

\* t is allocated and its creator has not queued it yet.
Embryo(t) == \E c \in Thread : making[c] = t

\* The lists and the states agree: a thread is on the run queue exactly when
\* it is ready to run, on one wait queue exactly when it is blocked, and on
\* the sleep list exactly when it waits for the clock -- with or without a
\* wait queue -- and never twice.  So no wakeup, timeout, preemption or exit
\* loses a thread or queues one twice (sched.c links all of these through
\* two pointers of struct thread).
EveryThreadInItsPlace ==
    /\ Once(run_queue) /\ Once(sleepers) /\ \A w \in WaitQ : Once(waiters[w])
    /\ \A t \in Thread :
        /\ state[t] = "RUNNING" <=> t = current
        /\ On(run_queue, t) <=> state[t] = "RUNNABLE" /\ ~Embryo(t)
        /\ state[t] = "BLOCKED" <=> \E w \in WaitQ : On(waiters[w], t)
        /\ \A v, w \in WaitQ : On(waiters[v], t) /\ On(waiters[w], t) => v = w
        /\ On(sleepers, t) <=> state[t] = "SLEEPING" \/ waiting_on[t] # NoWaitQ
        /\ waiting_on[t] # NoWaitQ => On(waiters[waiting_on[t]], t)

\* The sleep list is sorted, which sched_tick's loop relies on when it stops
\* at the first sleeper that is not due.
SleepersSorted == SortedBy(sleepers, wake_tick)

\* The CPU is never left idle while a thread is ready: whoever queues one
\* while idle runs switches to it before interrupts are on again.
IdleOnlyWhenNothingIsReady ==
    current = Idle /\ todo = <<>> => run_queue = <<>>

\* finish_switch frees a thread inside the switch, where it must not wait: by
\* then the thread has let go of its namespace (the comment in thread_exit).
FreedWithoutNamespace ==
    \A t \in Thread : state[t] = "FREE" => ~has_ns[t]

\* When sched_tick is done, no sleeper that was due is left on the list.
TickWakesEveryoneDue ==
    [][TickEnd => \A i \in 1..Len(sleepers) : wake_tick[sleepers[i]] > ticks]_vars

\* A thread leaves a timed wait either woken or timed out, never both:
\* waitq_sleep_until returns false only when the deadline has passed, and a
\* thread a wake takes off in time is not left on the sleep list, where the
\* clock would wake it a second time, out of some later wait.
WokenOrTimedOut ==
    [][\A t \in Thread :
        waiting_on[t] # NoWaitQ /\ state'[t] # "BLOCKED" =>
            /\ ~On(sleepers', t)
            /\ timed_out'[t] => wake_tick[t] <= ticks
            /\ timed_out'[t] <=> Head(todo).op = "tick"]_vars

\* Round robin: with preemption on, every thread that is ready runs.
ReadyThreadsRun ==
    \A t \in Thread :
        (preemptive /\ state[t] = "RUNNABLE" /\ ~Embryo(t)) ~> (state[t] # "RUNNABLE")

\* A thread that sleeps wakes up.
SleepersWake ==
    \A t \in Thread : (state[t] = "SLEEPING") ~> (state[t] # "SLEEPING")

\* Nobody is left behind for ever: neither on the run queue (round robin in
\* sched_tick) nor on the sleep list.
EveryoneGoesOn == ReadyThreadsRun /\ SleepersWake

\* sched.h on wait queues: a producer, "a thread or an IRQ handler", makes the
\* condition true and wakes, and "Checking with interrupts off is what makes
\* the wakeup impossible to miss".  So once a handler is on its way to wake
\* all of w, every thread waiting on w goes on.
HandlersWakeWaiters ==
    \A t \in Thread, w \in WaitQ :
        (On(waiters[w], t) /\ On(todo \o idle_todo, [op |-> "all", wq |-> w]))
            ~> ~On(waiters[w], t)

-----------------------------------------------------------------------------
\* What a caller sees of the threads: running, ready and just allocated
\* threads are all "ready", and being on the sleep list is having a deadline.
Life == [t \in Thread |-> CASE state[t] = "FREE" -> "free"
                            [] state[t] = "BLOCKED" -> "waiting"
                            [] state[t] = "SLEEPING" -> "sleeping"
                            [] OTHER -> "ready"]
Timed == {t \in Thread : On(sleepers, t)}

Waits == INSTANCE WaitQueues WITH
    life <- Life, queue <- waiters, timed <- Timed, expired <- timed_out

\* The scheduler keeps the promises of sched.h that WaitQueues states.
ImplementsWaitQueues == Waits!Spec
=============================================================================
