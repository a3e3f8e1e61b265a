----------------------------- MODULE WaitQueues -----------------------------
(***************************************************************************)
(* What the scheduler promises its callers (zkt/scheduler/sched.h): a      *)
(* thread is ready, or it waits on one wait queue, or it sleeps; wait      *)
(* queues are first in, first out; a deadline may end a timed wait, and    *)
(* then the waiter learns that it did.  Which ready thread runs, when it   *)
(* is preempted, and the idle thread are not visible here: any ready       *)
(* thread may take the next step.  The models of the kernel's other parts  *)
(* use their wait queues on these terms, and Sched implements them.        *)
(***************************************************************************)
EXTENDS Lists

CONSTANTS Thread, WaitQ

VARIABLES
    life,     \* "free", "ready", "waiting" or "sleeping"
    queue,    \* the threads waiting on each wait queue
    timed,    \* the threads whose wait or sleep the clock will end
    expired   \* the last timed wait of the thread ran out of time

vars == <<life, queue, timed, expired>>

Init ==
    /\ life \in [Thread -> {"free", "ready"}]
    /\ queue = [w \in WaitQ |-> <<>>]
    /\ timed = {}
    /\ expired = [t \in Thread |-> FALSE]

Become(t, how) == life' = [life EXCEPT ![t] = how]

Spawn(t) ==
    /\ life[t] = "free" /\ Become(t, "ready")
    /\ expired' = [expired EXCEPT ![t] = FALSE]
    /\ UNCHANGED <<queue, timed>>

Finish(t) ==
    /\ life[t] = "ready" /\ Become(t, "free")
    /\ UNCHANGED <<queue, timed, expired>>

Sleep(t) ==
    /\ life[t] = "ready" /\ Become(t, "sleeping")
    /\ timed' = timed \cup {t}
    /\ UNCHANGED <<queue, expired>>

Wait(t, w) ==
    /\ life[t] = "ready" /\ Become(t, "waiting")
    /\ queue' = [queue EXCEPT ![w] = Append(@, t)]
    /\ UNCHANGED <<timed, expired>>

WaitUntil(t, w) ==
    /\ life[t] = "ready" /\ Become(t, "waiting")
    /\ queue' = [queue EXCEPT ![w] = Append(@, t)]
    /\ timed' = timed \cup {t}
    /\ expired' = [expired EXCEPT ![t] = FALSE]

\* The thread that waited longest goes on, in time.
Wake(w) ==
    /\ queue[w] # <<>>
    /\ Become(Head(queue[w]), "ready")
    /\ queue' = [queue EXCEPT ![w] = Tail(@)]
    /\ timed' = timed \ {Head(queue[w])}
    /\ UNCHANGED expired

Oversleep(t) ==
    /\ life[t] = "sleeping" /\ t \in timed /\ Become(t, "ready")
    /\ timed' = timed \ {t}
    /\ UNCHANGED <<queue, expired>>

Expire(t, w) ==
    /\ life[t] = "waiting" /\ t \in timed /\ Become(t, "ready")
    /\ \E i \in 1..Len(queue[w]) :
        /\ queue[w][i] = t
        /\ queue' = [queue EXCEPT ![w] = UnlinkAt(@, i)]
    /\ timed' = timed \ {t}
    /\ expired' = [expired EXCEPT ![t] = TRUE]

Next ==
    \/ \E t \in Thread : Spawn(t) \/ Finish(t) \/ Sleep(t) \/ Oversleep(t)
    \/ \E t \in Thread, w \in WaitQ : Wait(t, w) \/ WaitUntil(t, w) \/ Expire(t, w)
    \/ \E w \in WaitQ : Wake(w)

Spec == Init /\ [][Next]_vars
=============================================================================
