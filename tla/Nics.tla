-------------------------------- MODULE Nics --------------------------------
(***************************************************************************)
(* The six network card drivers, between the card and netif.c: the receive *)
(* and transmit rings of e1000.c ("em"), pcnet.c ("pcn"), tulip.c ("dc"),  *)
(* virtio_net.c ("vio"), rtl8139.c ("rl") and ne2000.c ("ne").  The first  *)
(* four share descriptors with the card, each owned by one side; rl and ne *)
(* have a ring of pages the card fills and a register with how far the     *)
(* driver has read.  The interrupt handler notifies the network thread,    *)
(* which polls the ring until it is empty.  The card is external.          *)
(***************************************************************************)
EXTENDS Naturals, Sequences

CONSTANTS Kinds,      \* the drivers looked at
          Slots,      \* descriptors, or pages, of the receive ring
          TxSlots,    \* transmit descriptors
          MaxLen,     \* pages of the longest frame
          MaxFrames   \* frames received, and frames sent

VARIABLES kind,
          rx,      \* [own, frame, in, out, limit, stopped]: the receive ring
          irq,     \* [cause, line, seen]: the card's causes, the controller's latch, the handler's copy
          work,    \* netif.c's work_pending
          poll,    \* "idle", "loop", or "back" (about to end, with something given back)
          tx,      \* [own, frame, next, card, busy, done]: the transmit ring
          queue,   \* what the card stored and the driver has not passed on, oldest first
          sends,   \* what transmit took and the card has not sent, oldest first
          n,       \* [rx, tx]: frames so far
          ok       \* did every frame come out whole and in order?

vars == <<kind, rx, irq, work, poll, tx, queue, sends, n, ok>>

(* The drivers, by what their rings and handlers do differently.           *)
(* paged: a ring of pages, not descriptors; clears: reading the causes     *)
(* clears them; edge: the line is an edge, so the handler reads again;     *)
(* behind: the card stops a slot short; halves: a descriptor may come back *)
(* with the start of a frame; stops: the card stops when it owns none; tx: *)
(* who says that a transmit slot is free (its descriptor or register, the  *)
(* used ring, or the interrupt).                                           *)
Plain == [paged |-> FALSE, clears |-> FALSE, edge |-> FALSE, behind |-> FALSE, halves |-> FALSE,
          stops |-> FALSE, tx |-> "own"]

(* e1000_irq, e1000_poll (RDT follows the slot read), e1000_transmit.      *)
E1000 == [Plain EXCEPT !.clears = TRUE, !.behind = TRUE]

(* pcnet_irq, pcnet_poll (a descriptor without its end waits), transmit.   *)
Pcnet == [Plain EXCEPT !.halves = TRUE]

(* tulip_irq, tulip_poll (and the poll demand after it), send, transmit.   *)
Tulip == [Plain EXCEPT !.stops = TRUE]

(* vnet_irq, vnet_poll, vnet_transmit (the used ring read first).          *)
VirtioNet == [Plain EXCEPT !.clears = TRUE, !.tx = "used"]

(* rtl_irq, rtl_poll (CAPR follows the bytes read), rtl_transmit.          *)
Rtl8139 == [Plain EXCEPT !.paged = TRUE]

(* ne_irq, ne_poll (BNRY follows the pages read), ne_transmit, one buffer. *)
Ne2000 == [Plain EXCEPT !.paged = TRUE, !.edge = TRUE, !.tx = "interrupt"]

Driver == [em |-> E1000, pcn |-> Pcnet, dc |-> Tulip, vio |-> VirtioNet, rl |-> Rtl8139, ne |-> Ne2000][kind]
Paged == Driver.paged
After(i, k) == (i + k) % Slots

(* allocate and the probes' set-up: the card owns every receive buffer,    *)
(* but em's RDT stays a slot behind it.                                    *)
Init == /\ kind \in Kinds
        /\ rx = [own |-> [i \in 0 .. Slots - 1 |-> TRUE], frame |-> [i \in 0 .. Slots - 1 |-> <<>>],
                 in |-> 0, out |-> 0, limit |-> Slots - 1, stopped |-> FALSE]
        /\ irq = [cause |-> {}, line |-> FALSE, seen |-> {}] /\ work = FALSE /\ poll = "idle"
        /\ tx = [own |-> [i \in 0 .. TxSlots - 1 |-> FALSE], frame |-> [i \in 0 .. TxSlots - 1 |-> 0],
                 next |-> 0, card |-> <<>>, done |-> {}]
        /\ queue = <<>> /\ sends = <<>> /\ n = [rx |-> 0, tx |-> 0] /\ ok = TRUE

-----------------------------------------------------------------------------
(* The card: external.  ne's interrupt line is an edge: the controller     *)
(* latches it when the first cause comes up; the others' are levels.       *)
Raise(c) == irq' = [irq EXCEPT !.cause = @ \cup {c}, !.line = @ \/ (Driver.edge /\ irq.cause = {})]

(* Has the card room for a frame of len pages?                             *)
Room(len) == IF Paged THEN len + 1 <= (rx.limit + Slots - rx.in) % Slots
             ELSE rx.own[rx.in] /\ ~rx.stopped /\ (Driver.behind => rx.in # rx.limit)

(* A frame arrives.  PCnet may hand the descriptor back twice, the start   *)
(* of the frame first; Tulip stops when it owns no descriptor.             *)
Arrive(len, half) ==
  /\ n.rx < MaxFrames /\ n' = [n EXCEPT !.rx = @ + 1]
  /\ (half => Driver.halves) /\ (len > 1 => Paged)
  /\ \A i \in DOMAIN rx.frame : rx.frame[i] # <<>> => rx.frame[i][1].whole
  /\ IF Room(len)
     THEN /\ rx' = [rx EXCEPT !.own[rx.in] = FALSE, !.in = After(@, len),
                              !.frame[rx.in] = <<[id |-> n'.rx, len |-> len, whole |-> ~half]>>]
          /\ queue' = Append(queue, n'.rx) /\ (IF half THEN UNCHANGED irq ELSE Raise("rx"))
     ELSE /\ rx' = [rx EXCEPT !.stopped = Driver.stops] /\ Raise("overflow") /\ UNCHANGED queue
  /\ UNCHANGED <<kind, work, poll, tx, sends, ok>>

(* PCnet's second write: the frame is whole.                               *)
Complete(i) == /\ rx.frame[i] # <<>> /\ ~rx.frame[i][1].whole /\ ~rx.own[i]
               /\ rx' = [rx EXCEPT !.frame[i][1].whole = TRUE] /\ Raise("rx")
               /\ UNCHANGED <<kind, work, poll, tx, queue, sends, n, ok>>

(* The card sends the oldest frame it was given, whatever its buffer holds *)
(* now.  ne's interrupt for it may be lost.                                *)
Send(lost) ==
        /\ tx.card # <<>>
        /\ LET i == Head(tx.card)
           IN /\ ok' = (ok /\ tx.frame[i] = Head(sends))
              /\ tx' = [tx EXCEPT !.card = Tail(@), !.done = IF Driver.tx = "used" THEN @ \cup {i} ELSE @,
                                  !.own[i] = @ /\ Driver.tx # "own"]
              /\ sends' = Tail(sends)
              /\ (IF Driver.tx = "interrupt" /\ ~lost THEN Raise("tx") ELSE UNCHANGED irq)
        /\ UNCHANGED <<kind, rx, work, poll, queue, n>>

-----------------------------------------------------------------------------
(* The interrupt is taken (its latch cleared) and the handler reads the    *)
(* causes: e1000's and virtio's register clears as it is read.             *)
IrqRead == /\ irq.seen = {} /\ irq.cause # {} /\ (Driver.edge => irq.line)
           /\ irq' = [irq EXCEPT !.line = FALSE, !.seen = irq.cause,
                                 !.cause = IF Driver.clears THEN {} ELSE @]
           /\ UNCHANGED <<kind, rx, work, poll, tx, queue, sends, n, ok>>

IrqOnce ==
  /\ irq.seen # {}
  /\ irq' = [irq EXCEPT !.seen = {}, !.cause = IF Driver.clears THEN @ ELSE @ \ irq.seen]
  /\ work' = (work \/ irq.seen \cap {"rx", "overflow"} # {})
  /\ tx' = IF Driver.tx = "interrupt" /\ "tx" \in irq.seen THEN [tx EXCEPT !.own[0] = FALSE] ELSE tx
  /\ UNCHANGED <<kind, rx, poll, queue, sends, n, ok>>

(* e1000_irq, pcnet_irq, tulip_irq, vnet_irq, rtl_irq: what was read is    *)
(* acknowledged, the network thread notified.  ne_irq reads again, until   *)
(* no cause is left.                                                       *)
Irq == /\ irq.seen # {}
       /\ LET left == IF Driver.clears THEN irq.cause ELSE irq.cause \ irq.seen
          IN irq' = [irq EXCEPT !.cause = left, !.seen = IF Driver.edge THEN left ELSE {}]
       /\ work' = (work \/ irq.seen \cap {"rx", "overflow"} # {})
       /\ tx' = IF Driver.tx = "interrupt" /\ "tx" \in irq.seen THEN [tx EXCEPT !.own[0] = FALSE] ELSE tx
       /\ UNCHANGED <<kind, rx, poll, queue, sends, n, ok>>

(* network_main, woken: work_pending is cleared before the card is polled. *)
Wake == /\ work /\ poll = "idle" /\ work' = FALSE /\ poll' = "loop"
        /\ UNCHANGED <<kind, rx, irq, tx, queue, sends, n, ok>>

PollHasHasty == ~rx.own[rx.out]

(* Is there a frame for the driver at the ring's next place?  A PCnet      *)
(* descriptor without its end is still being written, unless the card has  *)
(* gone on to the next one.                                                *)
PollHas == IF Paged THEN After(rx.limit, 1) # rx.in
           ELSE /\ ~rx.own[rx.out]
                /\ (Driver.halves /\ ~rx.frame[rx.out][1].whole) => ~rx.own[After(rx.out, 1)]

(* One turn of e1000_poll, pcnet_poll, tulip_poll, vnet_poll, rtl_poll,    *)
(* ne_poll: the frame goes to netif_input, and its place back to the card. *)
PollTake == /\ poll \in {"loop", "back"} /\ PollHas
            /\ LET at == IF Paged THEN After(rx.limit, 1) ELSE rx.out
                   f == rx.frame[at][1]
               IN /\ ok' = (ok /\ queue # <<>> /\ f.id = Head(queue) /\ f.whole)
                  /\ queue' = IF queue = <<>> THEN queue ELSE Tail(queue)
                  /\ rx' = [rx EXCEPT !.own[at] = TRUE, !.frame[at] = <<>>, !.out = After(at, f.len),
                                      !.limit = IF Paged THEN After(at, f.len + Slots - 1)
                                                ELSE IF Driver.behind THEN at ELSE @]
            /\ poll' = "back"
            /\ UNCHANGED <<kind, irq, work, tx, sends, n>>

(* rtl_poll, ne_poll: a header that makes no sense.  rl is reset and its   *)
(* transmit slots start over; ne drops everything in the ring.             *)
PollCorrupt == /\ poll \in {"loop", "back"} /\ Paged /\ PollHas
               /\ rx' = [rx EXCEPT !.limit = After(rx.in, Slots - 1), !.out = rx.in,
                                   !.own = [i \in DOMAIN @ |-> TRUE], !.frame = [i \in DOMAIN @ |-> <<>>]]
               /\ queue' = <<>> /\ poll' = "idle"
               /\ IF kind = "rl"
                  THEN /\ tx' = [tx EXCEPT !.next = 0, !.card = <<>>, !.own = [i \in DOMAIN @ |-> FALSE]]
                       /\ sends' = <<>>
                  ELSE UNCHANGED <<tx, sends>>
               /\ UNCHANGED <<kind, irq, work, n, ok>>

(* The ring is empty: the loop ends.  tulip_poll, having given a           *)
(* descriptor back, lets a card that stopped go on.                        *)
PollEnd == /\ poll \in {"loop", "back"} /\ ~PollHas /\ poll' = "idle"
           /\ rx' = [rx EXCEPT !.stopped = @ /\ poll = "loop"]
           /\ UNCHANGED <<kind, irq, work, tx, queue, sends, n, ok>>

-----------------------------------------------------------------------------
(* The slot transmit may use: the ring's next, once the card is done with  *)
(* it; of virtio the first free one, after the used ring is read.          *)
Reclaimed == [i \in DOMAIN tx.own |-> tx.own[i] /\ i \notin tx.done]
FreeSlots == IF Driver.tx = "used" THEN {i \in DOMAIN tx.own : ~Reclaimed[i] /\ \A j \in 0 .. i - 1 : Reclaimed[j]}
             ELSE {i \in {IF Driver.tx = "interrupt" THEN 0 ELSE tx.next} : ~tx.own[i]}

(* e1000_transmit, pcnet_transmit, tulip_transmit and send, vnet_transmit, *)
(* rtl_transmit, ne_transmit.  With no slot free the caller waits, and     *)
(* after 100 ms gets -ETIMEDOUT, which changes nothing here.               *)
Transmit == /\ n.tx < MaxFrames /\ n' = [n EXCEPT !.tx = @ + 1]
            /\ \E i \in FreeSlots :
                 tx' = [tx EXCEPT !.own = [Reclaimed EXCEPT ![i] = TRUE], !.done = {},
                                  !.frame[i] = n'.tx, !.card = Append(@, i), !.next = (i + 1) % TxSlots]
            /\ sends' = Append(sends, n'.tx)
            /\ UNCHANGED <<kind, rx, irq, work, poll, queue, ok>>

(* ne_transmit's wait ends without the interrupt, the frame long sent: the *)
(* buffer is taken all the same.                                           *)
NeTimedOut == /\ Driver.tx = "interrupt" /\ tx.own[0] /\ tx.card = <<>> /\ "tx" \notin irq.cause
              /\ tx' = [tx EXCEPT !.own[0] = FALSE]
              /\ UNCHANGED <<kind, rx, irq, work, poll, queue, sends, n, ok>>

Next == \/ \E len \in 1 .. MaxLen, half \in BOOLEAN : Arrive(len, half)
        \/ \E i \in DOMAIN rx.frame : Complete(i)
        \/ (\E lost \in BOOLEAN : Send(lost)) \/ IrqRead \/ Irq \/ Wake \/ PollTake \/ PollCorrupt \/ PollEnd \/ Transmit \/ NeTimedOut

Spec == Init /\ [][Next]_vars

(***************************************************************************)
(* Every frame the card stored is passed on whole and in order, and every  *)
(* frame transmit took goes out whole and in order: no buffer is touched   *)
(* while the other side owns it.  No frame is forgotten in a ring, and no  *)
(* stopped card left stopped: an interrupt is up, the network thread has   *)
(* work, or it is still polling (ne_irq's loop, tulip_poll's demand,       *)
(* pcnet_poll's half-written descriptor).                                  *)
(***************************************************************************)
NicsTrue ==
  /\ ok
  /\ (irq.line \/ irq.seen # {} \/ (~Driver.edge /\ irq.cause # {}) \/ work \/ poll # "idle")
     \/ /\ ~PollHas /\ ~rx.stopped
        /\ \A i \in DOMAIN queue : \E j \in DOMAIN rx.frame :
             rx.frame[j] # <<>> /\ rx.frame[j][1].id = queue[i] /\ ~rx.frame[j][1].whole

-----------------------------------------------------------------------------
(* How a device comes into use: the probes and init functions of the         *)
(* network cards, disks and sound cards, from looking for the device to      *)
(* registering it.  They run at start with interrupts on, so the card may    *)
(* receive a frame, and its handler run, between any two of their steps; the *)
(* network thread is made when all are done (net_init).  A probe is the      *)
(* sequence of its steps: what it needs, and gives up without; what it       *)
(* tries, and goes on without; and what it sets up.  Of the registers only   *)
(* those remain that let the card run, interrupt or forget.  kind and work   *)
(* are as above.                                                             *)

CONSTANT ProbedKinds        \* the drivers looked at

VARIABLES todo,       \* the steps left
          up,         \* what is so: see the steps
          end,        \* "probing", "up" or "failed"
          frame,      \* a frame is in the receive ring
          cause,      \* the card's cause of interrupt
          latch,      \* the controller's latch of an edge
          thread      \* is there a network thread?

probeVars == <<kind, todo, up, end, frame, cause, latch, work, thread>>

Need(x) == [op |-> "need", what |-> {x}]
Try(x)  == [op |-> "try", what |-> {x}]
Set(xs) == [op |-> "set", what |-> xs]
Forget  == [op |-> "forget", what |-> {}]   \* pending causes are dropped

(***************************************************************************)
(* regs: the driver knows its registers; record, fields: the device's      *)
(* structure, and what others use of it; memory: what the card reads and   *)
(* writes; runs: the card does so; irqs: it may interrupt; handler: the    *)
(* line has its handler; listed: others find the device.                   *)
(***************************************************************************)

\* read_mac, allocate: a page of descriptors, then a page for two buffers each.
E1000Allocate == <<Need("mac"), Need("descriptors"), Need("buffers"), Set({"memory"})>>

\* find, e1000_probe: a last read of ICR after the interrupts are enabled.
E1000Probe == <<Need("pci"), Need("line"), Need("regs")>> \o E1000Allocate
              \o <<Set({"runs"}), Set({"fields"}), Set({"handler"}), Set({"irqs"}), Forget, Set({"listed"})>>

\* reset_and_detect, allocate.
PcnetAllocate == <<Need("reset"), Need("descriptors"), Need("buffers"), Set({"memory"})>>

\* pcnet_probe: CSR0 starts the card and enables its interrupts in one write.
PcnetProbe == <<Need("pci"), Need("line"), Set({"regs"})>> \o PcnetAllocate
              \o <<Need("initialized"), Set({"runs", "irqs"}), Set({"fields"}), Set({"handler"}), Set({"listed"})>>

\* allocate, of tulip.c.
TulipAllocate == <<Need("descriptors"), Need("buffers"), Set({"memory"})>>

\* find, tulip_probe: the address filter (load_filter) may fail to load.
TulipProbe == <<Need("pci"), Need("line"), Set({"regs"}), Need("mac")>> \o TulipAllocate
              \o <<Forget, Set({"fields"}), Set({"handler"}), Set({"irqs"}), Try("filter"), Set({"runs"}), Set({"listed"})>>

\* virtio_start, virtio_features, virtio_queue.
VirtioStart == <<Need("regs"), Need("queues")>>

\* buffers, virtio_net_probe.
VirtioNetProbe == <<Need("pci"), Need("line")>> \o VirtioStart
                  \o <<Need("buffers"), Set({"memory"}), Set({"fields"}), Set({"handler"}), Set({"runs", "irqs"}), Set({"listed"})>>

\* start, of rtl8139.c: the receiver is on when ISR is cleared.
Rtl8139Start == <<Need("reset"), Set({"runs"}), Forget, Set({"irqs"})>>

\* rtl8139_probe.
Rtl8139Probe == <<Need("pci"), Need("line"), Set({"regs"}), Need("buffers"), Set({"memory"})>> \o Rtl8139Start
                \o <<Set({"fields"}), Set({"handler"}), Set({"listed"})>>

\* ne2000_probe: the ring is the card's own memory.
Ne2000Probe == <<Need("regs"), Need("reset"), Set({"memory"}), Forget, Set({"irqs"}), Set({"runs"}), Set({"fields"}),
                 Set({"handler"}), Set({"listed"})>>

\* probe of ata.c, for a disk.
AtaProbe == <<Set({"regs", "memory"}), Need("identity"), Need("record"), Set({"fields"}), Need("geometry"),
              Need("listed"), Try("chs"), Try("partitions")>>

\* atapi_probe: a CD drive.
AtapiProbe == <<Set({"regs", "memory"}), Need("identity"), Need("cd"), Need("record"), Set({"fields"}), Need("listed")>>

\* init_controller: one controller, taken from the BIOS if that lets go of it.
AhciController == <<Need("regs"), Try("owned"), Need("memory")>>

\* setup_port, identify: the port's page, its engine started, and a first command.
SetupPort == <<Need("page"), Need("stopped"), Set({"runs"}), Need("identity")>>

\* probe_cd.
AhciCd == <<Need("record")>> \o SetupPort \o <<Need("cd"), Set({"fields"}), Try("listed")>>

\* probe_port, for a disk.
AhciPort == <<Need("present"), Need("record")>> \o SetupPort
            \o <<Need("lba48"), Set({"fields"}), Need("listed"), Try("partitions")>>

\* probe of virtio_blk.c.
VirtioBlkProbe == <<Need("regs"), Need("record"), Need("memory"), Need("queues"), Set({"runs"}), Set({"fields"}),
                    Need("listed"), Try("partitions")>>

\* floppy_init: the handler is there before the controller is asked anything.
FloppyInit == <<Set({"regs"}), Need("types"), Need("memory"), Try("cache"), Set({"handler"}), Need("reset"),
                Try("format"), Set({"record", "fields"}), Try("listed"), Try("motor_thread")>>

\* ac97_init.
Ac97Init == <<Need("pci"), Need("regs"), Need("line"), Need("codec"), Need("memory"), Set({"fields"}),
              Set({"handler"}), Need("listed")>>

\* sb16_init.
Sb16Init == <<Set({"regs"}), Need("reset"), Need("version"), Need("memory"), Set({"fields"}), Set({"handler"}),
              Need("listed")>>

Steps == [em |-> E1000Probe, pcn |-> PcnetProbe, dc |-> TulipProbe, vio |-> VirtioNetProbe, rl |-> Rtl8139Probe,
          ne |-> Ne2000Probe, ata |-> AtaProbe, atapi |-> AtapiProbe, sata |-> AhciController \o AhciPort,
          scd |-> AhciController \o AhciCd, vd |-> VirtioBlkProbe, fd |-> FloppyInit, ac97 |-> Ac97Init, sb16 |-> Sb16Init]

NetKinds == {"em", "pcn", "dc", "vio", "rl", "ne"}
Edge == kind = "ne"

ProbeInit == /\ kind \in ProbedKinds /\ todo = Steps[kind] /\ up = {} /\ end = "probing"
             /\ frame = FALSE /\ cause = FALSE /\ latch = FALSE /\ work = FALSE /\ thread = FALSE

\* What a probe that gives up takes back: ata frees the record, and virtio is
\* told that it failed.
TakenBack == CASE kind \in {"ata", "atapi"} -> {"record"} [] kind \in {"vio", "vd"} -> {"queues"} [] OTHER -> {}

\* A step of the probe.
Goes == /\ todo # <<>> /\ todo' = Tail(todo)
        /\ up' = up \cup Head(todo).what
        /\ cause' = (cause /\ Head(todo).op # "forget")
        /\ end' = IF Len(todo) = 1 THEN "up" ELSE end
        /\ UNCHANGED <<kind, frame, latch, work, thread>>

\* What the probe tried is not to be had, and it goes on.
GoesWithout == /\ todo # <<>> /\ Head(todo).op = "try" /\ todo' = Tail(todo)
               /\ end' = IF Len(todo) = 1 THEN "up" ELSE end
               /\ UNCHANGED <<kind, up, frame, cause, latch, work, thread>>

\* What it needs is not to be had.
GivesUp == /\ todo # <<>> /\ Head(todo).op = "need" /\ todo' = <<>>
           /\ end' = "failed" /\ up' = up \ TakenBack
           /\ UNCHANGED <<kind, frame, cause, latch, work, thread>>

\* net_init: the network thread, when every probe is done.
ThreadCreate == /\ end # "probing" /\ kind \in NetKinds /\ ~thread /\ thread' = TRUE
                /\ UNCHANGED <<kind, todo, up, end, frame, cause, latch, work>>

\* network_main polls the interfaces that are listed.
Polls == /\ thread /\ work /\ work' = FALSE /\ frame' = (frame /\ "listed" \notin up)
         /\ UNCHANGED <<kind, todo, up, end, cause, latch, thread>>

\* A card that runs receives a frame.
FirstFrame == /\ kind \in NetKinds /\ "runs" \in up /\ frame' = TRUE /\ cause' = TRUE
          /\ latch' = (latch \/ (Edge /\ "irqs" \in up /\ ~cause))
          /\ UNCHANGED <<kind, todo, up, end, work, thread>>

\* The interrupt is taken when there is a handler: until then the line is masked.
Interrupt == /\ {"handler", "irqs"} \subseteq up /\ (IF Edge THEN latch ELSE cause)
             /\ cause' = FALSE /\ latch' = FALSE /\ work' = (work \/ cause)
             /\ UNCHANGED <<kind, todo, up, end, frame, thread>>

ProbeNext == Goes \/ GoesWithout \/ GivesUp \/ ThreadCreate \/ Polls \/ FirstFrame \/ Interrupt

ProbeSpec == ProbeInit /\ [][ProbeNext]_probeVars


\* A card that writes to memory has memory of its own to write to, a handler
\* knows the registers it reads, whoever finds a device can use it at once, and
\* a device that was given up neither interrupts nor is found.
NothingTooEarly ==
    /\ "runs" \in up => "memory" \in up
    /\ "handler" \in up => "regs" \in up
    /\ "listed" \in up => {"regs", "memory", "fields"} \subseteq up
    /\ "listed" \in up /\ kind \in {"ata", "atapi", "sata", "scd", "vd", "fd"} => "record" \in up
    /\ end = "failed" => {"irqs", "listed"} \cap up = {}

\* A frame that came while the card was set up is not forgotten: the interrupt
\* is up or the network thread has work.
FirstFrameNoticed == end = "up" /\ frame => work \/ (IF Edge THEN latch ELSE cause)

\* em drops the causes once more after its interrupts are enabled, and rl when
\* its receiver is on already: a frame of that moment waits for the next one.
ProbesTrue == NothingTooEarly /\ (kind \notin {"em", "rl"} => FirstFrameNoticed)
=============================================================================
