--------------------------------- MODULE Net ---------------------------------
(* The network stack between the drivers and the threads that use it          *)
(* (zkt/net/netif.c, arp.c, ip.c, udp.c): the network thread, which alone     *)
(* handles what is received; the loopback queue; the ARP cache and those who  *)
(* wait for an answer; UDP endpoints and their queues; ping.  A stretch with  *)
(* interrupts off is one step.  The other hosts are the environment: their    *)
(* frames come late, several times or never.                                  *)
EXTENDS Integers, SequencesExt, FiniteSets

CONSTANTS Users,               \* threads, each with an endpoint of its own
          Hosts,               \* the other hosts of the link
          LOOPBACK_QUEUE_MAX, QUEUE_MAX, ARP_CACHE, ARP_TRIES,
          RingMax,             \* frames the card keeps
          MaxCalls,            \* bound: sends and pings of a user
          MaxFrames            \* bound: frames from the link

VARIABLES work_pending,
          net,        \* the network thread: where it is, and the frame it handles
          ring, irq,  \* frames in the card, and its interrupt that is not taken yet
          loop,       \* the loopback queue
          cache,      \* the hosts the ARP cache knows
          queue,      \* the datagrams of every endpoint: [from, n]
          ping,       \* ping_lock's owner, ping_answered, ping_seq, ping_from
          usr,        \* what every user does
          calls, got, \* sends and pings so far; the last datagram of each sender received
          frames      \* frames that have come from the link

None == "none"
vars == <<work_pending, net, ring, irq, loop, cache, queue, ping, usr, calls, got, frames>>
nic  == <<ring, irq, frames>>
udp  == <<queue, got>>

\* A user: where it is, whom it sends to, the ARP attempts made, what the
\* packet is for.
Rest == [pc |-> "idle", dst |-> None, tries |-> 0, what |-> None]

Init == /\ work_pending = FALSE /\ net = [pc |-> "check", frame |-> None]
        /\ ring = <<>> /\ irq = FALSE /\ frames = 0
        /\ loop = <<>> /\ cache = {}
        /\ queue = [u \in Users |-> <<>>] /\ got = [u \in Users |-> [s \in Users |-> 0]]
        /\ ping = [owner |-> None, waiting |-> FALSE, answered |-> FALSE, seq |-> 0, from |-> None]
        /\ usr = [u \in Users |-> Rest] /\ calls = [u \in Users |-> 0]

\* What comes from the link: ARP questions to us, ARP for somebody else, ARP
\* answers, pings, answers to pings, datagrams.
LinkFrames == [host : Hosts, kind : {"arp_request", "arp_other", "arp_reply", "echo"}]
              \cup [host : Hosts, kind : {"echo_reply"}, seq : 1..MaxCalls]
              \cup [host : Hosts, kind : {"udp"}, to : Users]

At(u, label) == usr[u].pc = label
Goto(u, label) == usr' = [usr EXCEPT ![u].pc = label]
Return(u) == usr' = [usr EXCEPT ![u] = Rest]

-----------------------------------------------------------------------------
(* The card and its interrupt handler. *)

FrameArrives(f) ==
    /\ frames < MaxFrames /\ Len(ring) < RingMax
    /\ ring' = Append(ring, f) /\ irq' = TRUE /\ frames' = frames + 1
    /\ UNCHANGED <<work_pending, net, loop, cache, udp, ping, usr, calls>>

\* netif_notify, from the handler.
Woken == IF net.pc = "asleep" THEN [net EXCEPT !.pc = "check"] ELSE net
Irq == /\ irq /\ irq' = FALSE
       /\ work_pending' = TRUE /\ net' = Woken
       /\ UNCHANGED <<ring, frames, loop, cache, udp, ping, usr, calls>>

-----------------------------------------------------------------------------
(* Sending: udp_send, icmp_ping, ip_output. *)

\* A datagram to an endpoint of this machine: loopback_queue.
SendLocal(u, to) ==
    /\ At(u, "idle") /\ calls[u] < MaxCalls
    /\ calls' = [calls EXCEPT ![u] = @ + 1]
    /\ IF Len(loop) = LOOPBACK_QUEUE_MAX THEN UNCHANGED <<loop, usr>>
       ELSE /\ loop' = Append(loop, [from |-> u, to |-> to, n |-> calls[u] + 1])
            /\ Goto(u, "notify")
    /\ UNCHANGED <<work_pending, net, nic, cache, udp, ping>>

\* netif_notify, from a thread: two stretches.
Notify(u) == /\ At(u, "notify") /\ work_pending' = TRUE /\ Goto(u, "wake")
             /\ UNCHANGED <<net, nic, loop, cache, udp, ping, calls>>
Wake(u) == /\ At(u, "wake") /\ net' = Woken /\ Return(u)
           /\ UNCHANGED <<work_pending, nic, loop, cache, udp, ping, calls>>

SendRemote(u, host) ==
    /\ At(u, "idle") /\ calls[u] < MaxCalls
    /\ calls' = [calls EXCEPT ![u] = @ + 1]
    /\ usr' = [usr EXCEPT ![u] = [pc |-> "resolve", dst |-> host, tries |-> 0, what |-> "udp"]]
    /\ UNCHANGED <<work_pending, net, nic, loop, cache, udp, ping>>

\* icmp_ping, with ping_lock.
Ping(u, host) ==
    /\ At(u, "idle") /\ calls[u] < MaxCalls /\ ping.owner = None
    /\ calls' = [calls EXCEPT ![u] = @ + 1]
    /\ ping' = [owner |-> u, waiting |-> TRUE, answered |-> FALSE, seq |-> calls[u] + 1, from |-> host]
    /\ usr' = [usr EXCEPT ![u] = [pc |-> "resolve", dst |-> host, tries |-> 0, what |-> "ping"]]
    /\ UNCHANGED <<work_pending, net, nic, loop, cache, udp>>

\* arp_resolve: the cache, then a question and a wait, ARP_TRIES times, and the
\* cache once more.
Resolve(u) ==
    LET known == usr[u].dst \in cache
        isping == usr[u].what = "ping"
    IN /\ At(u, "resolve")
       /\ usr' = [usr EXCEPT ![u] = IF known THEN (IF isping THEN [@ EXCEPT !.pc = "pingwait"] ELSE Rest)
                                    ELSE IF usr[u].tries < ARP_TRIES THEN [@ EXCEPT !.pc = "arpwait"]
                                    ELSE Rest]
       /\ ping' = IF isping /\ ~known /\ usr[u].tries = ARP_TRIES THEN [ping EXCEPT !.owner = None] ELSE ping
       /\ UNCHANGED <<work_pending, net, nic, loop, cache, udp, calls>>

ArpWait(u) ==
    /\ At(u, "arpwait")
    /\ usr' = [usr EXCEPT ![u] = IF usr[u].dst \in cache THEN [@ EXCEPT !.pc = "resolve", !.tries = @ + 1]
                                 ELSE [@ EXCEPT !.pc = "arpsleep"]]
    /\ UNCHANGED <<work_pending, net, nic, loop, cache, udp, ping, calls>>

ArpTimeout(u) ==
    /\ At(u, "arpsleep")
    /\ usr' = [usr EXCEPT ![u].pc = "resolve", ![u].tries = @ + 1]
    /\ UNCHANGED <<work_pending, net, nic, loop, cache, udp, ping, calls>>

PingWait(u) ==
    /\ At(u, "pingwait")
    /\ IF ping.answered THEN Return(u) /\ ping' = [ping EXCEPT !.owner = None, !.waiting = FALSE]
       ELSE Goto(u, "pingsleep") /\ UNCHANGED ping
    /\ UNCHANGED <<work_pending, net, nic, loop, cache, udp, calls>>

PingTimeout(u) ==
    /\ At(u, "pingsleep") /\ Return(u) /\ ping' = [ping EXCEPT !.owner = None, !.waiting = FALSE]
    /\ UNCHANGED <<work_pending, net, nic, loop, cache, udp, calls>>

-----------------------------------------------------------------------------
(* udp_recv. *)

Recv(u) == /\ At(u, "idle") /\ Goto(u, "recv")
           /\ UNCHANGED <<work_pending, net, nic, loop, cache, udp, ping, calls>>

Take(u) ==
    LET d == Head(queue[u])
    IN /\ queue[u] # <<>> /\ queue' = [queue EXCEPT ![u] = Tail(@)]
       /\ got' = IF d.from \in Users THEN [got EXCEPT ![u][d.from] = d.n] ELSE got

RecvTake(u) == /\ usr[u].pc \in {"recv", "recvlast"} /\ Take(u) /\ Return(u)
               /\ UNCHANGED <<work_pending, net, nic, loop, cache, ping, calls>>
RecvSleep(u) == /\ At(u, "recv") /\ queue[u] = <<>> /\ Goto(u, "recvsleep")
                /\ UNCHANGED <<work_pending, net, nic, loop, cache, udp, ping, calls>>
RecvTimeout(u) == /\ At(u, "recvsleep") /\ Goto(u, "recvlast")
                  /\ UNCHANGED <<work_pending, net, nic, loop, cache, udp, ping, calls>>
RecvNothing(u) == /\ At(u, "recvlast") /\ queue[u] = <<>> /\ Return(u)
                  /\ UNCHANGED <<work_pending, net, nic, loop, cache, udp, ping, calls>>

-----------------------------------------------------------------------------
(* network_main. *)

NetCheckLate ==
    /\ net.pc = "check"
    /\ net' = [net EXCEPT !.pc = IF work_pending THEN "poll" ELSE "asleep"]
    /\ UNCHANGED <<work_pending, nic, loop, cache, udp, ping, usr, calls>>

\* Sleeps unless there is work, and forgets the notice before it looks.
NetCheck ==
    /\ net.pc = "check"
    /\ net' = [net EXCEPT !.pc = IF work_pending THEN "poll" ELSE "asleep"]
    /\ work_pending' = FALSE
    /\ UNCHANGED <<nic, loop, cache, udp, ping, usr, calls>>

\* The driver's poll, one frame after the other.
NetPoll ==
    /\ net.pc = "poll"
    /\ IF ring = <<>> THEN net' = [net EXCEPT !.pc = "loop"] /\ UNCHANGED ring
       ELSE net' = [pc |-> "input", frame |-> Head(ring)] /\ ring' = Tail(ring)
    /\ UNCHANGED <<work_pending, irq, frames, loop, cache, udp, ping, usr, calls>>

\* Who is learnt from a frame: the sender of anything meant for us, and of any
\* ARP packet if it is known already.
LearnsArpOnly(f) == f.kind \in {"arp_request", "arp_reply"} \/ f.host \in cache

Learns(f) == f.kind # "arp_other" \/ f.host \in cache

\* arp_learn, with interrupts off: a known host, a free slot, or the slot of
\* whoever was used least recently; which one that is depends on clock ticks
\* several uses can share.
Learn ==
    /\ net.pc = "input"
    /\ IF ~Learns(net.frame) THEN net' = [net EXCEPT !.pc = "deliver"] /\ UNCHANGED cache
       ELSE /\ net' = [net EXCEPT !.pc = "learned"]
            /\ \E gone \in IF net.frame.host \in cache \/ Cardinality(cache) < ARP_CACHE THEN {{}} ELSE {{h} : h \in cache} :
                  cache' = (cache \ gone) \cup {net.frame.host}
    /\ UNCHANGED <<work_pending, nic, loop, udp, ping, usr, calls>>

\* Its wake, with interrupts on again.
LearnWake ==
    /\ net.pc = "learned" /\ net' = [net EXCEPT !.pc = "deliver"]
    /\ usr' = [u \in Users |-> IF At(u, "arpsleep") THEN [usr[u] EXCEPT !.pc = "arpwait"] ELSE usr[u]]
    /\ UNCHANGED <<work_pending, nic, loop, cache, udp, ping, calls>>

\* udp_input.
Enqueue(u, d) ==
    IF Len(queue[u]) = QUEUE_MAX THEN UNCHANGED <<udp, usr>>
    ELSE /\ queue' = [queue EXCEPT ![u] = Append(@, d)]
         /\ usr' = IF At(u, "recvsleep") THEN [usr EXCEPT ![u].pc = "recv"] ELSE usr
         /\ UNCHANGED got

\* The rest of netif_input: arp_input's answer, ip_input, icmp_input.  Answers
\* to ARP and to pings leave the machine and are not followed further.
Deliver ==
    /\ net.pc = "deliver"
    /\ net' = [pc |-> "poll", frame |-> None]
    /\ CASE net.frame.kind = "udp" -> Enqueue(net.frame.to, [from |-> net.frame.host, n |-> 0]) /\ UNCHANGED ping
         [] net.frame.kind = "echo_reply" ->
               LET mine == ping.waiting /\ net.frame.seq = ping.seq /\ net.frame.host = ping.from
               IN /\ ping' = IF mine THEN [ping EXCEPT !.answered = TRUE] ELSE ping
                  /\ usr' = [u \in Users |-> IF mine /\ At(u, "pingsleep") THEN [usr[u] EXCEPT !.pc = "pingwait"] ELSE usr[u]]
                  /\ UNCHANGED udp
         [] OTHER -> UNCHANGED <<udp, ping, usr>>
    /\ UNCHANGED <<work_pending, nic, loop, cache, calls>>

NetLoop ==
    /\ net.pc = "loop"
    /\ IF loop = <<>> THEN net' = [net EXCEPT !.pc = "check"] /\ UNCHANGED <<loop, udp, usr>>
       ELSE /\ loop' = Tail(loop) /\ UNCHANGED net
            /\ Enqueue(Head(loop).to, [from |-> Head(loop).from, n |-> Head(loop).n])
    /\ UNCHANGED <<work_pending, nic, cache, ping, calls>>

Call(u) == \/ \E to \in Users : SendLocal(u, to)
           \/ \E h \in Hosts : SendRemote(u, h) \/ Ping(u, h)
           \/ Recv(u)
Step(u) == \/ Notify(u) \/ Wake(u) \/ Resolve(u) \/ ArpWait(u) \/ ArpTimeout(u)
           \/ PingWait(u) \/ PingTimeout(u) \/ RecvTake(u) \/ RecvSleep(u) \/ RecvTimeout(u) \/ RecvNothing(u)
NetStep == NetCheck \/ NetPoll \/ Learn \/ LearnWake \/ Deliver \/ NetLoop

Next == \/ \E f \in LinkFrames : FrameArrives(f)
        \/ Irq \/ NetStep
        \/ \E u \in Users : Call(u) \/ Step(u)

Spec == Init /\ [][Next]_vars

\* The CPU takes the interrupt, and every thread that can run runs: the
\* scheduler is round robin.  Timeouts come from the tick.
FairSpec == /\ Spec /\ WF_vars(Irq) /\ WF_vars(NetStep)
            /\ \A u \in Users : WF_vars(Step(u))

-----------------------------------------------------------------------------
\* Nobody sleeps through what it waits for: the network thread never sleeps on
\* frames or packets nobody will tell it of; a thread that waits for an ARP
\* answer does not sleep once the host is known, save until the wake that
\* arp_learn makes after the store; nor a receiver with a datagram, nor a pinger
\* with its answer.
NobodyForgotten ==
    /\ net.pc = "asleep" /\ (work_pending \/ ring # <<>> \/ loop # <<>>)
          => irq \/ \E u \in Users : usr[u].pc \in {"notify", "wake"}
    /\ \A u \in Users :
          /\ At(u, "arpsleep") /\ usr[u].dst \in cache => net.pc = "learned"
          /\ At(u, "recvsleep") => queue[u] = <<>>
          /\ At(u, "pingsleep") => ~ping.answered /\ ping.owner = u

\* Pings from the link are answered at once: when a ping is delivered its sender
\* is in the ARP cache, so the network thread, which must not wait for an ARP
\* answer, has no need to ("so replies to it need no ARP round trip", netif.c:141).
EchoAnsweredAtOnce == net.pc = "deliver" /\ net.frame.kind = "echo" => net.frame.host \in cache

\* The datagrams of one sender to one endpoint are received in the order they
\* were sent, each at most once, whatever queue is full on the way.
DatagramsInOrder ==
    \A u, s \in Users :
       LET mine == SelectSeq(queue[u], LAMBDA d : d.from = s) \o SelectSeq(loop, LAMBDA d : d.from = s /\ d.to = u)
           ns   == <<got[u][s]>> \o [i \in DOMAIN mine |-> mine[i].n]
       IN \A i, j \in DOMAIN ns : i < j => ns[i] < ns[j]

\* A thread is in a call; something received or queued is not handled yet.
Busy(u) == usr[u].pc # "idle"
Pending == ring # <<>> \/ loop # <<>>
=============================================================================
