-------------------------------- MODULE Pipe --------------------------------
(***************************************************************************)
(* Pipes (zkt/fs/pipe.c): two connected ends, a queue of messages in each  *)
(* direction, threads that read, write, poll and close, and the release of *)
(* an end with its last reference.  A stretch of code with interrupts off  *)
(* is one action; the wakes that follow it are actions of their own,       *)
(* because the thread can be preempted before each.                        *)
(*                                                                         *)
(* The bytes of a direction are numbered in the order they are sent, so a  *)
(* message is the number of its first byte, its length and how much of it  *)
(* has been read.                                                          *)
(***************************************************************************)
EXTENDS Naturals, Sequences, FiniteSets

CONSTANTS
    Thread,
    Side,         \* Side[t]: the end t holds a reference to
    Capacity,     \* PIPE_CAPACITY
    ReadSizes,    \* the lengths of reads
    WriteSizes,   \* and of writes (none above MESSAGE_MAX)
    Budgets       \* bound: how many sends to each end are called, one of these

ASSUME PipeAssumption ==
    /\ IsFiniteSet(Thread) /\ Side \in [Thread -> {0, 1}]
    /\ Capacity \in Nat \ {0}
    /\ ReadSizes \subseteq Nat /\ WriteSizes \subseteq Nat
    /\ Budgets \subseteq [{0, 1} -> Nat]

VARIABLES
    queue,        \* dir[i].head .. tail: what end i is to read
    bytes,        \* dir[i].bytes
    open,         \* open[i]
    refs,         \* end[i].vnode.refs
    freed,        \* kfree(p) has been called
    damaged,      \* a release has used the pipe after that
    readable,     \* the wait queues, as sets: every wake is a wake_all
    writable,
    pollers,      \* poll.c's wait queue
    pc,           \* what each thread is doing
    len,          \* the length of its read or write
    timed,        \* its read or poll has a deadline
    last,         \* end_release's `last', of the thread that found it true
    sent,         \* the number of bytes sent to end i so far
    got,          \* the number of bytes end i has read so far
    left          \* the sends to end i that may still be called

pipe == <<queue, bytes, open, refs, freed, damaged, last>>
waits == <<readable, writable, pollers>>
calls == <<pc, len, timed>>
count == <<sent, got, left>>
vars == <<pipe, waits, calls, count>>

Ends == {0, 1}
Peer(i) == 1 - i

\* The steps of end_release after the end is marked closed, in order.
Releasing == {"wake_reader", "wake_writer", "wake_pollers", "free"}
Calling == {"recv", "send", "poll"}

TypeOK ==
    /\ queue \in [Ends -> Seq([first : Nat, len : Nat, pos : Nat])]
    /\ bytes \in [Ends -> Nat]
    /\ open \in [Ends -> BOOLEAN]
    /\ refs \in [Ends -> Nat]
    /\ freed \in BOOLEAN /\ damaged \in BOOLEAN
    /\ readable \in [Ends -> SUBSET Thread]
    /\ writable \in [Ends -> SUBSET Thread]
    /\ pollers \in SUBSET Thread
    /\ pc \in [Thread -> Calling \cup Releasing \cup
                 {"ready", "received", "sent", "notify", "close", "gone"}]
    /\ len \in [Thread -> Nat]
    /\ timed \in [Thread -> BOOLEAN]
    /\ last \in SUBSET Thread
    /\ sent \in [Ends -> Nat] /\ got \in [Ends -> Nat] /\ left \in [Ends -> Nat]

\* pipe_create, after which every thread has been given a reference to its end.
Init ==
    /\ queue = [i \in Ends |-> <<>>]
    /\ bytes = [i \in Ends |-> 0]
    /\ open = [i \in Ends |-> TRUE]
    /\ refs = [i \in Ends |-> Cardinality({t \in Thread : Side[t] = i})]
    /\ freed = FALSE /\ damaged = FALSE
    /\ readable = [i \in Ends |-> {}]
    /\ writable = [i \in Ends |-> {}]
    /\ pollers = {}
    /\ pc = [t \in Thread |-> "ready"]
    /\ len = [t \in Thread |-> 0]
    /\ timed = [t \in Thread |-> FALSE]
    /\ last = {}
    /\ sent = [i \in Ends |-> 0]
    /\ got = [i \in Ends |-> 0]
    /\ left \in Budgets

-----------------------------------------------------------------------------
Asleep(t) == t \in pollers \/ \E i \in Ends : t \in readable[i] \cup writable[i]

\* t calls pipe_recv, pipe_send or poll_files.  pipe_send makes its message
\* before it looks at the pipe.
Call(t, op, n, deadline) ==
    /\ pc[t] = "ready"
    /\ IF op = "send"
       THEN /\ left[Peer(Side[t])] > 0
            /\ left' = [left EXCEPT ![Peer(Side[t])] = @ - 1]
       ELSE UNCHANGED left
    /\ pc' = [pc EXCEPT ![t] = op]
    /\ len' = [len EXCEPT ![t] = n]
    /\ timed' = [timed EXCEPT ![t] = deadline]
    /\ UNCHANGED <<pipe, waits, sent, got>>

Return(t, next) ==
    /\ pc' = [pc EXCEPT ![t] = next]
    /\ len' = [len EXCEPT ![t] = 0]
    /\ timed' = [timed EXCEPT ![t] = FALSE]

RecvWaits(t) == queue[Side[t]] = <<>> /\ open[Peer(Side[t])]

\* pipe_recv's loop: the reader goes to sleep.
RecvSleep(t) ==
    /\ pc[t] = "recv" /\ ~Asleep(t)
    /\ RecvWaits(t)
    /\ readable' = [readable EXCEPT ![Side[t]] = @ \cup {t}]
    /\ UNCHANGED <<pipe, writable, pollers, calls, count>>

\* The writer is gone and everything is read.
RecvEof(t) ==
    /\ pc[t] = "recv" /\ ~Asleep(t)
    /\ ~RecvWaits(t) /\ queue[Side[t]] = <<>>
    /\ Return(t, "ready")
    /\ UNCHANGED <<pipe, waits, count>>

\* Mutant: a message leaves the queue when any of it has been read.
TakeWhole(i, n) ==
    LET m == Head(queue[i])
    IN  /\ queue' = [queue EXCEPT ![i] = Tail(@)]
        /\ bytes' = [bytes EXCEPT ![i] = @ - m.len]

\* n bytes are read from the message at the head, which leaves the queue, and
\* gives up its room, when all of it has been read.
Take(i, n) ==
    LET m == Head(queue[i])
        done == m.pos + n = m.len
    IN  /\ queue' = [queue EXCEPT ![i] = IF done THEN Tail(@) ELSE [@ EXCEPT ![1] = [m EXCEPT !.pos = m.pos + n]]]
        /\ bytes' = [bytes EXCEPT ![i] = IF done THEN @ - m.len ELSE @]

RecvTake(t) ==
    LET i == Side[t]
        m == Head(queue[i])
        n == IF m.len - m.pos < len[t] THEN m.len - m.pos ELSE len[t]
    IN  /\ pc[t] = "recv" /\ ~Asleep(t)
        /\ queue[i] # <<>>
        /\ Take(i, n)
        /\ got' = [got EXCEPT ![i] = m.first + m.pos + n]
        /\ Return(t, IF m.pos + n = m.len THEN "received" ELSE "ready")
        /\ UNCHANGED <<open, refs, freed, damaged, last, waits, sent, left>>

\* Mutant: the room a message leaves is not announced.
RecvWakeNone(t) ==
    /\ pc[t] = "received"
    /\ pc' = [pc EXCEPT ![t] = "ready"]
    /\ UNCHANGED <<pipe, waits, len, timed, count>>

\* ... and then wakes the writers, with interrupts on in between.
RecvWake(t) ==
    /\ pc[t] = "received"
    /\ writable' = [writable EXCEPT ![Side[t]] = {}]
    /\ pc' = [pc EXCEPT ![t] = "ready"]
    /\ UNCHANGED <<pipe, readable, pollers, len, timed, count>>

\* The deadline of a read or a poll passes: sched_tick takes the thread off
\* its wait queue and the call returns, whatever happens before it runs.
TimeOut(t) ==
    /\ timed[t] /\ Asleep(t)
    /\ readable' = [i \in Ends |-> readable[i] \ {t}]
    /\ pollers' = pollers \ {t}
    /\ Return(t, "ready")
    /\ UNCHANGED <<pipe, writable, count>>

SendWaits(t) ==
    LET i == Peer(Side[t])
    IN  open[i] /\ bytes[i] # 0 /\ bytes[i] + len[t] > Capacity

SendSleep(t) ==
    /\ pc[t] = "send" /\ ~Asleep(t)
    /\ SendWaits(t)
    /\ writable' = [writable EXCEPT ![Peer(Side[t])] = @ \cup {t}]
    /\ UNCHANGED <<pipe, readable, pollers, calls, count>>

SendEpipe(t) ==
    /\ pc[t] = "send" /\ ~Asleep(t)
    /\ ~open[Peer(Side[t])]
    /\ Return(t, "ready")
    /\ UNCHANGED <<pipe, waits, count>>

SendQueue(t) ==
    LET i == Peer(Side[t])
    IN  /\ pc[t] = "send" /\ ~Asleep(t)
        /\ open[i] /\ ~SendWaits(t)
        /\ queue' = [queue EXCEPT ![i] = Append(@, [first |-> sent[i], len |-> len[t], pos |-> 0])]
        /\ bytes' = [bytes EXCEPT ![i] = @ + len[t]]
        /\ sent' = [sent EXCEPT ![i] = @ + len[t]]
        /\ Return(t, "sent")
        /\ UNCHANGED <<open, refs, freed, damaged, last, waits, got, left>>

\* The two wakes that follow: the readers, then poll_notify.
SendWake(t) ==
    /\ pc[t] = "sent"
    /\ readable' = [readable EXCEPT ![Peer(Side[t])] = {}]
    /\ pc' = [pc EXCEPT ![t] = "notify"]
    /\ UNCHANGED <<pipe, writable, pollers, len, timed, count>>

PollNotify == pollers' = {}

SendNotify(t) ==
    /\ pc[t] = "notify"
    /\ PollNotify
    /\ pc' = [pc EXCEPT ![t] = "ready"]
    /\ UNCHANGED <<pipe, readable, writable, len, timed, count>>

\* end_poll, and poll_files' loop around it.
EndPoll(i) == queue[i] # <<>> \/ ~open[Peer(i)]

PollSleep(t) ==
    /\ pc[t] = "poll" /\ ~Asleep(t)
    /\ ~EndPoll(Side[t])
    /\ pollers' = pollers \cup {t}
    /\ UNCHANGED <<pipe, readable, writable, calls, count>>

PollReady(t) ==
    /\ pc[t] = "poll" /\ ~Asleep(t)
    /\ EndPoll(Side[t])
    /\ Return(t, "ready")
    /\ UNCHANGED <<pipe, waits, count>>

-----------------------------------------------------------------------------
(***************************************************************************)
(* Closing: vnode_unref, and end_release by the thread that dropped the    *)
(* last reference to its end.                                              *)
(***************************************************************************)
\* Mutant: every reference dropped releases the end.
VnodeUnrefAny(t) ==
    LET i == Side[t]
    IN  /\ pc[t] = "ready"
        /\ refs' = [refs EXCEPT ![i] = @ - 1]
        /\ pc' = [pc EXCEPT ![t] = "close"]
        /\ UNCHANGED <<queue, bytes, open, freed, damaged, last, waits, len, timed, count>>

VnodeUnref(t) ==
    LET i == Side[t]
    IN  /\ pc[t] = "ready"
        /\ refs' = [refs EXCEPT ![i] = @ - 1]
        /\ pc' = [pc EXCEPT ![t] = IF refs[i] = 1 THEN "close" ELSE "gone"]
        /\ UNCHANGED <<queue, bytes, open, freed, damaged, last, waits, len, timed, count>>

\* Mutant: an end that is not the last to close tells nobody.
EndReleaseSilent(t) ==
    LET i == Side[t]
    IN  /\ pc[t] = "close"
        /\ open' = [open EXCEPT ![i] = FALSE]
        /\ pc' = [pc EXCEPT ![t] = IF open[Peer(i)] THEN "gone" ELSE "wake_reader"]
        /\ last' = IF open[Peer(i)] THEN last ELSE {t}
        /\ UNCHANGED <<queue, bytes, refs, freed, damaged, waits, len, timed, count>>

\* The end is marked closed; the thread notes whether the other one is too.
EndRelease(t) ==
    LET i == Side[t]
    IN  /\ pc[t] = "close"
        /\ open' = [open EXCEPT ![i] = FALSE]
        /\ pc' = [pc EXCEPT ![t] = "wake_reader"]
        /\ last' = IF open[Peer(i)] THEN last ELSE {t}
        /\ UNCHANGED <<queue, bytes, refs, freed, damaged, waits, len, timed, count>>

\* A use of the pipe by end_release: nobody else can tell when it is freed.
Use == damaged' = (damaged \/ freed)

ReleaseWakeReader(t) ==
    /\ pc[t] = "wake_reader"
    /\ Use
    /\ readable' = [readable EXCEPT ![Peer(Side[t])] = {}]
    /\ pc' = [pc EXCEPT ![t] = "wake_writer"]
    /\ UNCHANGED <<queue, bytes, open, refs, freed, last, writable, pollers, len, timed, count>>

ReleaseWakeWriter(t) ==
    /\ pc[t] = "wake_writer"
    /\ Use
    /\ writable' = [writable EXCEPT ![Side[t]] = {}]
    /\ pc' = [pc EXCEPT ![t] = "wake_pollers"]
    /\ UNCHANGED <<queue, bytes, open, refs, freed, last, readable, pollers, len, timed, count>>

ReleaseNotify(t) ==
    /\ pc[t] = "wake_pollers"
    /\ PollNotify
    /\ pc' = [pc EXCEPT ![t] = IF t \in last THEN "free" ELSE "gone"]
    /\ UNCHANGED <<pipe, readable, writable, len, timed, count>>

ReleaseFree(t) ==
    /\ pc[t] = "free"
    /\ freed' = TRUE
    /\ queue' = [i \in Ends |-> <<>>]
    /\ bytes' = [i \in Ends |-> 0]
    /\ pc' = [pc EXCEPT ![t] = "gone"]
    /\ UNCHANGED <<open, refs, damaged, last, waits, len, timed, count>>

-----------------------------------------------------------------------------
Run(t) ==
    \/ RecvSleep(t) \/ RecvEof(t) \/ RecvTake(t) \/ RecvWake(t)
    \/ SendSleep(t) \/ SendEpipe(t) \/ SendQueue(t) \/ SendWake(t) \/ SendNotify(t)
    \/ PollSleep(t) \/ PollReady(t)
    \/ EndRelease(t) \/ ReleaseWakeReader(t) \/ ReleaseWakeWriter(t)
    \/ ReleaseNotify(t) \/ ReleaseFree(t)

Start(t) ==
    \/ \E n \in WriteSizes : Call(t, "send", n, FALSE)
    \/ \E n \in ReadSizes, d \in BOOLEAN : Call(t, "recv", n, d)
    \/ \E d \in BOOLEAN : Call(t, "poll", 0, d)

Next == \E t \in Thread : Start(t) \/ Run(t) \/ VnodeUnref(t) \/ TimeOut(t)

Spec == Init /\ [][Next]_vars

\* A thread that is awake in the kernel gets to run (Sched's ReadyThreadsRun);
\* nobody has to call anything, and no deadline has to pass.
FairSpec == Spec /\ \A t \in Thread : WF_vars(Run(t))

-----------------------------------------------------------------------------
(***************************************************************************)
(* Properties.                                                             *)
(***************************************************************************)

\* "a shorter read leaves the rest of the message for the next one (so byte
\* streams lose nothing)": what is queued is exactly the bytes after the last
\* one read, in the order they were sent, however reads and writes of
\* different sizes by several threads interleave.
BytesInOrder ==
    ~freed => \A i \in Ends :
        LET q == queue[i]
            from(k) == q[k].first + q[k].pos
        IN  /\ (IF q = <<>> THEN sent[i] ELSE from(1)) = got[i]
            /\ \A k \in 1..Len(q) : q[k].pos <= q[k].len /\ (k > 1 => q[k].pos = 0)
            /\ \A k \in 1..Len(q) :
                q[k].first + q[k].len = IF k = Len(q) THEN sent[i] ELSE q[k + 1].first

\* "Each direction holds PIPE_CAPACITY bytes [...] a single bigger message is
\* taken when the queue is empty": bytes is what the queue holds, and goes
\* over the capacity for one such message only.
CapacityKept ==
    \A i \in Ends :
        /\ bytes[i] = IF queue[i] = <<>> THEN 0 ELSE sent[i] - queue[i][1].first
        /\ bytes[i] > Capacity =>
            \E k \in 1..Len(queue[i]) : queue[i][k].len = bytes[i]

\* No reader is forgotten: one that sleeps although there is a message, or
\* although the other end is gone, has somebody on the way to wake it.
ReadersWoken ==
    \A t \in Thread : t \in readable[Side[t]] /\ ~RecvWaits(t) =>
        \E u \in Thread : Side[u] # Side[t] /\ pc[u] \in {"sent", "wake_reader"}

\* The same for a writer when there is room for its message, or nobody left
\* to read it.
WritersWoken ==
    \A t \in Thread : t \in writable[Peer(Side[t])] /\ ~SendWaits(t) =>
        \E u \in Thread : Side[u] # Side[t] /\ pc[u] \in {"received"} \cup Releasing

\* The same for a poller ("Checking and sleeping with interrupts off: a
\* notify can't slip in between").
PollersWoken ==
    \A t \in pollers : EndPoll(Side[t]) =>
        \E u \in Thread : pc[u] \in {"sent", "notify"} \cup Releasing

\* Nobody sleeps for nothing: the wakes that pipe_send, pipe_recv and
\* end_release make with interrupts on again are enough for readers, writers
\* and pollers alike.
NoLostWake == ReadersWoken /\ WritersWoken /\ PollersWoken

\* t waits although the other end has gone away.
EndedUnder(t) == Asleep(t) /\ ~open[Peer(Side[t])]

\* A call says end of file only when the other end is gone and everything it
\* sent has been read, and EPIPE only when there is nobody to read.
EndOfFileIsTrue ==
    [][\A t \in Thread :
        /\ RecvEof(t) => refs[Peer(Side[t])] = 0 /\ got[Side[t]] = sent[Side[t]]
        /\ SendEpipe(t) => refs[Peer(Side[t])] = 0]_vars

\* The release of the last end frees everything, once every reference is gone.
FreedWhenBothClosed ==
    freed => /\ \A i \in Ends : queue[i] = <<>> /\ refs[i] = 0 /\ ~open[i]
             /\ \A t \in Thread : ~Asleep(t) /\ pc[t] \notin Calling

\* The pipe is what its fields say: a bounded stream in each direction, whole
\* until the release of the last end frees it.
PipeSound == TypeOK /\ BytesInOrder /\ CapacityKept /\ FreedWhenBothClosed /\ NoLostWake

\* vfs.h:59 says of release: "Called when the last reference goes; frees the
\* vnode."  So no release still uses the pipe its vnode is part of once it
\* has been freed.
ReleaseUsesLivePipe == ~damaged

=============================================================================
