------------------------------- MODULE Mutex -------------------------------
(***************************************************************************)
(* The sleeping lock (zkt/scheduler/mutex.c) on a wait queue.  Testing the *)
(* owner and going to sleep are one step, with interrupts off; a woken     *)
(* waiter tests again, because another thread may take the lock between    *)
(* the unlock and the waiter getting to run.                               *)
(***************************************************************************)
EXTENDS Lists

CONSTANTS Thread, NoThread

ASSUME MutexAssumption == NoThread \notin Thread

VARIABLES
    owner,
    waiters,   \* the wait queue
    at         \* where each thread is: "out", "waiting", "woken" or "in"

vars == <<owner, waiters, at>>

TypeOK ==
    /\ owner \in Thread \cup {NoThread}
    /\ waiters \in Seq(Thread)
    /\ at \in [Thread -> {"out", "waiting", "woken", "in"}]

Init ==
    /\ owner = NoThread
    /\ waiters = <<>>
    /\ at = [t \in Thread |-> "out"]

\* Mutant: a waiter that was woken takes the lock without testing again.
MutexLockUntested(t) ==
    /\ at[t] \in {"out", "woken"}
    /\ IF at[t] = "woken" \/ owner = NoThread
       THEN owner' = t /\ at' = [at EXCEPT ![t] = "in"] /\ UNCHANGED waiters
       ELSE /\ waiters' = Append(waiters, t) /\ at' = [at EXCEPT ![t] = "waiting"]
            /\ UNCHANGED owner

\* mutex_lock, from the call or from waitq_sleep's return, up to the next
\* waitq_sleep or the end.  It panics for a thread that holds the lock.
MutexLock(t) ==
    /\ at[t] \in {"out", "woken"}
    /\ \/ /\ owner = NoThread
          /\ owner' = t
          /\ at' = [at EXCEPT ![t] = "in"]
          /\ UNCHANGED waiters
       \/ /\ owner # NoThread
          /\ waiters' = Append(waiters, t)
          /\ at' = [at EXCEPT ![t] = "waiting"]
          /\ UNCHANGED owner

\* Mutant: nobody is woken.
MutexUnlockSilent(t) ==
    /\ at[t] = "in" /\ owner = t
    /\ owner' = NoThread
    /\ at' = [at EXCEPT ![t] = "out"]
    /\ UNCHANGED waiters

\* mutex_unlock.
MutexUnlock(t) ==
    /\ at[t] = "in" /\ owner = t
    /\ owner' = NoThread
    /\ IF waiters = <<>>
       THEN at' = [at EXCEPT ![t] = "out"] /\ UNCHANGED waiters
       ELSE /\ at' = [at EXCEPT ![t] = "out", ![Head(waiters)] = "woken"]
            /\ waiters' = Tail(waiters)

Next == \E t \in Thread : MutexLock(t) \/ MutexUnlock(t)

Spec == Init /\ [][Next]_vars

-----------------------------------------------------------------------------
\* At most one thread is past mutex_lock and not yet past mutex_unlock, and
\* it is the owner: no wakeup lets a second one in.
MutualExclusion == \A t \in Thread : at[t] = "in" <=> owner = t

\* A waiter is on the queue once, and nobody else is.
WaitersQueued ==
    /\ Once(waiters)
    /\ \A t \in Thread : at[t] = "waiting" <=> On(waiters, t)

\* The free lock is never forgotten: while somebody waits for it, a thread
\* that was woken is on its way to try again.  mutex_unlock wakes one waiter
\* only, so this is what keeps the others from waiting for ever.
FreeLockHasATaker ==
    owner = NoThread /\ waiters # <<>> => \E t \in Thread : at[t] = "woken"
=============================================================================
