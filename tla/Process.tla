------------------------------ MODULE Process ------------------------------
(***************************************************************************)
(* User processes (zkt/kernel/process.c): the process list, spawning,      *)
(* exiting, and the two ways a parent collects a child, process_wait and   *)
(* process_reap.  A process is an address of a struct process, which is    *)
(* used again once it is freed; its one thread is a struct thread with a   *)
(* life of its own, and points back at the process twice, as the process   *)
(* its ticks are charged to and as the owner of its name.                  *)
(***************************************************************************)
EXTENDS Lists, SequencesExt

CONSTANTS
    Proc,         \* struct process addresses
    Thread,       \* struct thread addresses
    Kernel,       \* kernel threads that spawn and wait (parent NULL); they never reap
    Null,
    MaxPid        \* bound: how many processes are started

VARIABLES
    processes,    \* the list, newest first
    alive,        \* the struct processes that are allocated
    proc,         \* their fields
    next_pid,
    pc,           \* what each thread is doing; "none" when there is no such thread
    process,      \* the process a thread belongs to
    name,         \* the process whose name it is called by
    arg,          \* the process a thread spawns, waits for or reaps
    asked,        \* the pid it waits for
    made,         \* the thread a spawning thread has created
    outcome,      \* the status each pid exited with
    told          \* the status each pid's waiter was given

vars == <<processes, alive, proc, next_pid, pc, process, name, arg, asked, made, outcome, told>>

Pid == 1..MaxPid

New(n, up) ==
    [pid |-> n, parent |-> up, orphaned |-> FALSE, exited |-> FALSE, waited_on |-> FALSE,
     status |-> Null, thread |-> Null]

Doing == {"run", "spawn", "store", "spawned", "asleep", "take", "exit", "leave"}

TypeOK ==
    /\ processes \in Seq(Proc)
    /\ alive \in SUBSET Proc
    /\ proc \in [Proc -> [pid : Nat, parent : Proc \cup {Null}, orphaned : BOOLEAN, exited : BOOLEAN,
                          waited_on : BOOLEAN, status : Pid \cup {Null}, thread : Thread \cup {Null}]]
    /\ next_pid \in 1..MaxPid + 1
    /\ pc \in [Thread -> Doing \cup {"none"}]
    /\ process \in [Thread -> Proc \cup {Null}]
    /\ name \in [Thread -> Proc \cup {Null}]
    /\ arg \in [Thread -> Proc \cup {Null}]
    /\ asked \in [Thread -> 0..MaxPid]
    /\ made \in [Thread -> Thread \cup {Null}]
    /\ outcome \in [Pid -> Pid \cup {Null}]
    /\ told \in [Pid -> Pid \cup {Null}]

Init ==
    /\ processes = <<>>
    /\ alive = {}
    /\ proc = [p \in Proc |-> New(0, Null)]
    /\ next_pid = 1
    /\ pc = [t \in Thread |-> IF t \in Kernel THEN "run" ELSE "none"]
    /\ process = [t \in Thread |-> Null]
    /\ name = [t \in Thread |-> Null]
    /\ arg = [t \in Thread |-> Null]
    /\ asked = [t \in Thread |-> 0]
    /\ made = [t \in Thread |-> Null]
    /\ outcome = [n \in Pid |-> Null]
    /\ told = [n \in Pid |-> Null]

-----------------------------------------------------------------------------
Go(t, next) == pc' = [pc EXCEPT ![t] = next]

\* kfree, of one that is on the list no longer.  What it holds is not read
\* again, so the model forgets it.
Free(p) ==
    /\ alive' = alive \ {p}
    /\ proc' = [proc EXCEPT ![p] = New(0, Null)]

\* process_spawn up to the new process being on the list.  Everything before
\* that (the executable, the address space, the descriptors) is the caller's
\* own and is given back when it fails.
SpawnLink(t, p) ==
    /\ pc[t] = "run" /\ p \notin alive /\ next_pid <= MaxPid
    /\ alive' = alive \cup {p}
    /\ proc' = [proc EXCEPT ![p] = New(next_pid, process[t])]
    /\ next_pid' = next_pid + 1
    /\ processes' = <<p>> \o processes
    /\ arg' = [arg EXCEPT ![t] = p]
    /\ Go(t, "spawn")
    /\ UNCHANGED <<process, name, asked, made, outcome, told>>

\* thread_create_in: the child is ready to run before its parent goes on.
SpawnThread(t, u) ==
    /\ pc[t] = "spawn" /\ pc[u] = "none"
    /\ pc' = [pc EXCEPT ![t] = "store", ![u] = "run"]
    /\ process' = [process EXCEPT ![u] = arg[t]]
    /\ name' = [name EXCEPT ![u] = arg[t]]
    /\ made' = [made EXCEPT ![t] = u]
    /\ UNCHANGED <<processes, alive, proc, next_pid, arg, asked, outcome, told>>

\* No memory for a thread: the process goes again.
SpawnFail(t) ==
    /\ pc[t] = "spawn"
    /\ processes' = Without(processes, arg[t])
    /\ Free(arg[t])
    /\ arg' = [arg EXCEPT ![t] = Null]
    /\ Go(t, "run")
    /\ UNCHANGED <<next_pid, process, name, asked, made, outcome, told>>

\* The parent stores the thread it has created, which may be gone by now.
\* The kernel threads that spawn (monitor.c) go on to wait for what they have
\* spawned.
SpawnStore(t) ==
    /\ pc[t] = "store"
    /\ proc' = [proc EXCEPT ![arg[t]].thread = made[t]]
    /\ made' = [made EXCEPT ![t] = Null]
    /\ IF t \in Kernel
       THEN UNCHANGED arg /\ Go(t, "spawned")
       ELSE arg' = [arg EXCEPT ![t] = Null] /\ Go(t, "run")
    /\ UNCHANGED <<processes, alive, next_pid, process, name, asked, outcome, told>>

-----------------------------------------------------------------------------
\* A child the caller may still collect: not an orphan whose parent is NULL
\* like a kernel thread's, and not being waited for already.
Mine(t, p) ==
    proc[p].parent = process[t] /\ ~proc[p].orphaned /\ ~proc[p].waited_on

\* The first of the list that fits, as the loops over it find it.
FirstThat(Fits(_)) ==
    SelectInSeq(processes, Fits)

\* process_reap: the newest child that has exited, if there is one.
Reap(t) ==
    LET k == FirstThat(LAMBDA p : Mine(t, p) /\ proc[p].exited)
    IN  /\ pc[t] = "run" /\ t \notin Kernel /\ k # 0
        /\ arg' = [arg EXCEPT ![t] = processes[k]]
        /\ asked' = [asked EXCEPT ![t] = proc[processes[k]].pid]
        /\ processes' = Without(processes, processes[k])
        /\ Go(t, "take")
        /\ UNCHANGED <<alive, proc, next_pid, process, name, made, outcome, told>>

\* Mutant: any child will do.
WaitsForAny(t, p, n) == Mine(t, p)

WaitsFor(t, p, n) == proc[p].pid = n /\ Mine(t, p)

\* process_wait of a child that is there: it is marked, so nobody else waits
\* for it, and the caller sleeps until it has exited ...
Wait(t, n) ==
    LET k == FirstThat(LAMBDA p : WaitsFor(t, p, n))
    IN  /\ IF t \in Kernel THEN pc[t] = "spawned" /\ n = proc[arg[t]].pid ELSE pc[t] = "run"
        /\ k # 0
        /\ proc' = [proc EXCEPT ![processes[k]].waited_on = TRUE]
        /\ arg' = [arg EXCEPT ![t] = processes[k]]
        /\ asked' = [asked EXCEPT ![t] = n]
        /\ IF proc[processes[k]].exited
           THEN processes' = Without(processes, processes[k]) /\ Go(t, "take")
           ELSE UNCHANGED processes /\ Go(t, "asleep")
        /\ UNCHANGED <<alive, next_pid, process, name, made, outcome, told>>

\* Mutant: the exit wakes nobody.
WaitWokenNever(t) ==
    /\ FALSE
    /\ UNCHANGED vars

\* ... woken, it takes the process off the list ...
WaitWoken(t) ==
    /\ pc[t] = "asleep" /\ proc[arg[t]].exited
    /\ processes' = Without(processes, arg[t])
    /\ Go(t, "take")
    /\ UNCHANGED <<alive, proc, next_pid, process, name, arg, asked, made, outcome, told>>

\* ... and both end by reading the status and freeing the process, with
\* interrupts on.
Take(t) ==
    /\ pc[t] = "take"
    /\ told' = [told EXCEPT ![asked[t]] = proc[arg[t]].status]
    /\ Free(arg[t])
    /\ arg' = [arg EXCEPT ![t] = Null]
    /\ asked' = [asked EXCEPT ![t] = 0]
    /\ Go(t, "run")
    /\ UNCHANGED <<processes, next_pid, process, name, made, outcome>>

-----------------------------------------------------------------------------
\* process_exit, or a fatal exception: what the process exported, its files
\* and its address space go first, and may take time.
Exit(t) ==
    /\ pc[t] = "run" /\ process[t] # Null
    /\ Go(t, "exit")
    /\ UNCHANGED <<processes, alive, proc, next_pid, process, name, arg, asked, made, outcome, told>>

\* Mutant: a child that has finished is not freed with its parent.
FinishedKept(p) == {}

\* The children of p that have finished: nobody will collect them.
Finished(p) == {c \in ToSet(processes) : proc[c].parent = p /\ proc[c].exited}

\* Mutant: the children that still run keep their parent.
OrphansNone(p, c) == FALSE

Orphans(p, c) == proc[c].parent = p

\* The rest of process_exit, with interrupts off.  Children that have
\* finished are freed and the others orphaned; an orphan frees itself, any
\* other process wakes its waiter.  A process exits with its own pid, so that
\* no two statuses are alike.
ExitFinish(t) ==
    LET p == process[t]
        s == proc[p].pid
        self == IF proc[p].orphaned THEN {p} ELSE {}
        gone == Finished(p) \cup self
    IN  /\ pc[t] = "exit"
        /\ processes' = SelectSeq(processes, LAMBDA c : c \notin gone)
        /\ alive' = alive \ gone
        /\ proc' = [c \in Proc |->
             IF c \in gone THEN New(0, Null)
             ELSE IF c = p THEN [proc[c] EXCEPT !.status = s, !.exited = TRUE, !.thread = Null]
             ELSE IF Contains(processes, c) /\ Orphans(p, c)
             THEN [proc[c] EXCEPT !.parent = Null, !.orphaned = TRUE]
             ELSE proc[c]]
        /\ process' = [process EXCEPT ![t] = Null]
        /\ outcome' = [outcome EXCEPT ![s] = s]
        /\ Go(t, "leave")
        /\ UNCHANGED <<next_pid, name, arg, asked, made, told>>

\* thread_exit: the thread lets go of its namespace, which may take time, and
\* is then freed.
ThreadExit(t) ==
    /\ pc[t] = "leave"
    /\ Go(t, "none")
    /\ name' = [name EXCEPT ![t] = Null]
    /\ UNCHANGED <<processes, alive, proc, next_pid, process, arg, asked, made, outcome, told>>

-----------------------------------------------------------------------------
Run(t) ==
    \/ \E u \in Thread : SpawnThread(t, u)
    \/ SpawnStore(t)
    \/ t \in Kernel /\ \E n \in Pid : Wait(t, n)
    \/ WaitWoken(t)
    \/ Take(t)
    \/ ExitFinish(t)
    \/ ThreadExit(t)

Start(t) ==
    \/ \E p \in Proc : SpawnLink(t, p)
    \/ t \notin Kernel /\ \E n \in Pid : Wait(t, n)
    \/ Reap(t)
    \/ Exit(t)

Next == \E t \in Thread : Run(t) \/ Start(t) \/ SpawnFail(t)

Spec == Init /\ [][Next]_vars

\* A thread in the kernel goes on.  A program may run for ever, and never
\* exit or collect its children.
FairSpec == Spec /\ \A t \in Thread : WF_vars(Run(t))

-----------------------------------------------------------------------------
(***************************************************************************)
(* Properties.                                                             *)
(***************************************************************************)

\* No pointer of the kernel leads to a process that has been freed: what is
\* on the list, the parent of a process on it (process_list reads its pid),
\* the process a thread runs for (whose ticks sched_tick counts), and the one
\* a thread spawns, waits for or is collecting.
NoDanglingProcess ==
    /\ Once(processes) /\ ToSet(processes) \subseteq alive
    /\ \A p \in ToSet(processes) : proc[p].parent \in alive \cup {Null}
    /\ \A t \in Thread : process[t] \in alive \cup {Null} /\ arg[t] \in alive \cup {Null}

\* Nothing stays behind: every process that has exited and is still there
\* either has a parent that can collect it -- one that has not exited, or
\* the kernel -- or is being collected; no orphan waits for anybody.
NoLostZombie ==
    \A p \in alive : proc[p].exited =>
        /\ ~proc[p].orphaned
        /\ \/ Contains(processes, p) /\ (proc[p].parent # Null => ~proc[proc[p].parent].exited)
           \/ \E t \in Thread : pc[t] = "take" /\ arg[t] = p

\* Every process on the list that has not exited has the thread that will
\* exit for it, except while it is being made.
LivingProcessHasAThread ==
    \A p \in ToSet(processes) : ~proc[p].exited =>
        \/ \E t \in Thread : process[t] = p /\ pc[t] \in Doing
        \/ \E t \in Thread : pc[t] = "spawn" /\ arg[t] = p

\* /dev/ps reads the state of a process's thread through p->thread unless the
\* process has exited: the parent's late store never leaves it pointing at a
\* thread that is gone.
ListReadsLiveThreads ==
    \A p \in ToSet(processes) :
        ~proc[p].exited /\ proc[p].thread # Null =>
            pc[proc[p].thread] # "none" /\ process[proc[p].thread] = p

\* The list and the structures it leads to are sound, whoever spawns, exits
\* and collects.
ProcessesSound ==
    TypeOK /\ NoDanglingProcess /\ LivingProcessHasAThread /\ ListReadsLiveThreads

\* The status a child exits with is what its parent is told, and it is told
\* once: two waits, a wait and a reap, or two processes that get the same
\* address one after the other, are never mixed up.
StatusStep ==
    /\ \A n \in Pid : told'[n] \in {Null, outcome'[n]} /\ told[n] \in {Null, told'[n]}
    /\ \A t \in Thread : Take(t) => told[asked[t]] = Null

\* A parent sleeps in process_wait for a child that has exited.
WaitsForExited(n) == outcome[n] # Null /\ \E t \in Thread : pc[t] = "asleep" /\ asked[t] = n

\* sched.h on thread_create: "`name` must outlive the thread."  The thread of
\* a process is called by the name inside its struct process.
NameOutlivesThread ==
    \A t \in Thread : name[t] \in alive \cup {Null}

=============================================================================
