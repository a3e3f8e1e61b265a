------------------------------- MODULE MCLive -------------------------------
(***************************************************************************)
(* One instance for TLC of the parts of the kernel in which threads wait   *)
(* for each other: pipes, processes, the network stack.  A behaviour runs  *)
(* one of them, `part', and leaves the others alone; w1 .. w12 are the     *)
(* variables of processes or of the network stack, in their order there,   *)
(* and 0 while pipes run.                                                  *)
(***************************************************************************)
EXTENDS Pipe, TLC

CONSTANTS Null, a1, a2, b1

VARIABLES part, w1, w2, w3, w4, w5, w6, w7, w8, w9, w10, w11, w12

\* Two threads on one end of the pipe and one on the other, with messages to
\* the one or to the two.
MCSide == a1 :> 0 @@ a2 :> 0 @@ b1 :> 1
OneWay == {0 :> 0 @@ 1 :> 2, 0 :> 1 @@ 1 :> 0}

\* One thread on each end, with messages both ways.
OneEach == a1 :> 0 @@ b1 :> 1
BothWays == {0 :> 2 @@ 1 :> 1}

\* A kernel thread and up to three processes at two addresses.
P == INSTANCE Process WITH processes <- w1, alive <- w2, proc <- w3, next_pid <- w4, pc <- w5, process <- w6, name <- w7,
         arg <- w8, asked <- w9, made <- w10, outcome <- w11, told <- w12,
         Thread <- {"kt", "t1", "t2"}, Kernel <- {"kt"}, Proc <- {"p1", "p2"}, MaxPid <- 3

\* One thread that sends, receives and pings, and two hosts of the link.
N == INSTANCE Net WITH work_pending <- w1, net <- w2, ring <- w3, irq <- w4, loop <- w5, cache <- w6, queue <- w7, ping <- w8,
         usr <- w9, calls <- w10, got <- w11, frames <- w12,
         Users <- {"u1"}, Hosts <- {"h1", "h2"}, LOOPBACK_QUEUE_MAX <- 1, QUEUE_MAX <- 1, ARP_CACHE <- 1, ARP_TRIES <- 1,
         RingMax <- 1, MaxCalls <- 1, MaxFrames <- 1

others == <<w1, w2, w3, w4, w5, w6, w7, w8, w9, w10, w11, w12>>
lvars == <<part, vars, others>>

LInit ==
    /\ Init
    /\ \/ /\ part = "pipe"
          /\ w1 = 0 /\ w2 = 0 /\ w3 = 0 /\ w4 = 0 /\ w5 = 0 /\ w6 = 0
          /\ w7 = 0 /\ w8 = 0 /\ w9 = 0 /\ w10 = 0 /\ w11 = 0 /\ w12 = 0
       \/ part = "process" /\ left[1] = 0 /\ P!Init
       \/ part = "net" /\ left[1] = 0 /\ N!Init

LNext ==
    /\ UNCHANGED part
    /\ \/ part = "pipe" /\ Next /\ UNCHANGED others
       \/ part = "process" /\ P!Next /\ UNCHANGED vars
       \/ part = "net" /\ N!Next /\ UNCHANGED vars

\* What the scheduler and the interrupts guarantee: of pipes and processes,
\* that every thread that can run does; of the network, that its thread and the
\* caller do, and that the CPU takes the card's interrupt.
Turn(i) ==
    /\ UNCHANGED part
    /\ \/ part = "pipe" /\ Run(<<a1, a2, b1>>[i]) /\ UNCHANGED others
       \/ part = "process" /\ P!Run(<<"kt", "t1", "t2">>[i]) /\ UNCHANGED vars
       \/ part = "net" /\ UNCHANGED vars /\ CASE i = 1 -> N!Irq [] i = 2 -> N!NetStep [] i = 3 -> N!Step("u1")

LSafe == LInit /\ [][LNext]_lvars
LSpec == LSafe /\ \A i \in 1 .. 3 : WF_lvars(Turn(i))

-----------------------------------------------------------------------------
\* Whoever waits for what has happened goes on: a reader, a writer or a poller of
\* a pipe whose other end is closed; a parent that waits in process_wait for a
\* child that has exited; a caller of the network, and what the network has
\* received or queued.
Waits(i) ==
    \/ part = "pipe" /\ EndedUnder(<<a1, a2, b1>>[i])
    \/ part = "process" /\ P!WaitsForExited(i)
    \/ part = "net" /\ ((i = 1 /\ N!Busy("u1")) \/ (i = 2 /\ N!Pending))
EveryWaitEnds == \A i \in 1 .. 3 : Waits(i) ~> ~Waits(i)
=============================================================================
