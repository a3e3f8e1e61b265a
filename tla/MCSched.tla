------------------------------ MODULE MCSched ------------------------------
(***************************************************************************)
(* Instances of Sched for TLC.                                             *)
(***************************************************************************)
EXTENDS Sched, TLC

CONSTANTS t1, t2, t3, w1, w2

MCThread == {t1, t2, t3}
MCTwo == {t1, t2}
MCWaitQ == {w1, w2}

\* Threads other than Main are interchangeable.
MCSymmetry == Permutations({t2, t3})

WakeAll(w) == [op |-> "all", wq |-> w]
WakeOne(w) == [op |-> "one", wq |-> w]

\* console_input wakes its readers, then the pollers; netif_notify wakes the
\* network thread.
MCIrqHandlers == {<<WakeAll(w1), WakeAll(w2)>>, <<WakeOne(w1)>>}
MCIrq1 == {<<WakeAll(w1), WakeOne(w1)>>}
MCIrqOne == {<<WakeOne(w1)>>}
=============================================================================
