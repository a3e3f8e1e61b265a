----------------------------- MODULE MCSystem -----------------------------
(* One instance for TLC of the parts of the system below the programs:        *)
(* processes and open files, the console, file systems and file trees, disks  *)
(* and removable media, network cards and the network stack, sound, serial    *)
(* lines and input, DHCP, remote files and remote jobs, the C library, the    *)
(* shell, the installer and the boot loader.  A behaviour runs one of them,   *)
(* `part`; the variables v1 .. v12 are that part's state, in the order of its *)
(* own variables, and those it has no use for stay 0.                         *)
EXTENDS Integers, Sequences, FiniteSets, TLC

CONSTANT Null              \* no process, no thread, no status

VARIABLES part, v1, v2, v3, v4, v5, v6, v7, v8, v9, v10, v11, v12

-----------------------------------------------------------------------------
\* A kernel thread and up to three processes at three addresses.
Processes == INSTANCE Process WITH processes <- v1, alive <- v2, proc <- v3, next_pid <- v4, pc <- v5, process <- v6, name <- v7,
            arg <- v8, asked <- v9, made <- v10, outcome <- v11, told <- v12,
            Thread <- {"kernel", "t1", "t2", "t3"}, Kernel <- {"kernel"}, Proc <- {"p1", "p2", "p3"}, MaxPid <- 3

\* Programs of two segments that overlap, leave the image or share a page, or do not.
Segs == [load : {TRUE}, offset : {0, 1}, vaddr : {1, 2, 3, 5}, filesz : {0, 2}, memsz : {0, 2, 3}, w : BOOLEAN]
        \cup {[load |-> FALSE, offset |-> 0, vaddr |-> 2, filesz |-> 1, memsz |-> 1, w |-> TRUE]}
Prog == INSTANCE Programs WITH
    \* Two processes with three descriptors each, of which a child inherits two.
    alive <- v1, leaving <- v2, fds <- v3, file <- v4, refs <- v5, busy <- v6,
    Proc <- {"p1", "p2"}, File <- {"f1", "f2"}, Node <- {"n1", "n2"}, FdMax <- 3, Inherited <- 2, None <- "none",
    elf <- v1, at <- v2, mem <- v3, mapped <- v4, readonly <- v5, state <- v6,
    PageSize <- 2, ImageMin <- 2, ImageTop <- 8, FileSize <- 2, Segments <- Segs, Entries <- {3},
    Versions <- {1, 3}, VersionMin <- 1, VersionMax <- 2, Frames <- 3

\* Archives of three members, whole and malformed, and a file that grows.
Member(p, t, n) == [path |-> p, type |-> t, data |-> n]
Members == {Member(<<"a">>, "file", 1), Member(<<"a">>, "dir", 0), Member(<<"a", "b">>, "file", 2),
            Member(<<"a", "b">>, "dir", 0), Member(<<"b">>, "malformed", 0), Member(<<"a">>, "link", 0)}
Archives == {<<>>} \cup [1 .. 3 -> Members]

\* Unions with an empty member and with a name in two members.
SomeUnions == {<< <<"a", "b">>, <<>>, <<"c">> >>, << <<>>, <<"a">> >>, << <<"a">>, <<"a", "d">> >>}

\* A disc with Rock Ridge names and one with Joliet names, exchanged under two threads.
Rec(kind, e, n, p, j, r) == [kind |-> kind, extent |-> e, bytes |-> n, plain |-> p, joliet |-> j, rock |-> r]
Vol(d) == IF d = "d1"
          THEN [names |-> "rock", root |-> [extent |-> 0, bytes |-> 4],
                dirs |-> [b \in {0, 1} |->
                    IF b = 0 THEN <<Rec("dot", 0, 4, "", "", ""), Rec("associated", 5, 1, "a", "a", "a")>>
                    ELSE <<Rec("moved", 6, 2, "a", "a", "a"), Rec("file", 2, 3, "A", "a", "a")>>]]
          ELSE [names |-> "joliet", root |-> [extent |-> 1, bytes |-> 2],
                dirs |-> [b \in {1} |-> <<Rec("file", 0, 2, "A", "a", "")>>]]
Trees == INSTANCE FileTrees WITH
    use <- v1, obj <- v2, opened <- v3, shadow <- v4, fits <- v5, vfs_calls <- v6,
    Unions <- SomeUnions, OffsetMax <- 3, DevBlockSize <- 2, Blocks <- 3, Name <- {"x", "y"}, MaxVfsCalls <- 3,
    tree <- v1, rest <- v2, unpacked <- v3, ram_file <- v4, heap <- v5, ram_call <- v6, ram_want <- v7, torn <- v8,
    calls <- v9, Archive <- Archives, RamThread <- {1}, Together <- FALSE, Buf <- {"b1", "b2", "b3"}, MaxSize <- 2,
    MaxCalls <- 3,
    inside <- v1, attention <- v2, changes <- v3, fss <- v4, root <- v5, lock <- v6, call <- v7, file <- v8,
    ok <- v9, Disc <- {"d1", "d2"}, NoDisc <- "none", Volume <- Vol, Thread <- {"t1", "t2"}, Fs <- {1, 2, 3, 4}, NoFs <- 0,
    BlockSize <- 2, Wants <- {"a"}, MaxChanges <- 1

-----------------------------------------------------------------------------
\* A disk of four blocks with overlapping and outsized partitions, behind each driver.
PartitionTable == << [type |-> "fat", start |-> 1, count |-> 2], [type |-> "fat", start |-> 2, count |-> 4],
                     [type |-> "extended", start |-> 1, count |-> 1] >>

Drive == INSTANCE Storage WITH
    disk <- v1, parts <- v2, medium <- v3, cache <- v4, call <- v5, dev <- v6, used <- v7,
    bounce <- v8, want <- v9, got <- v10, calls <- v11, late <- v12,
    Blocks <- 4, MaxSectors <- 2, Byte <- 2, Heads <- 2, Sectors <- 1, Kinds <- {"ata", "chs", "sata", "vd"},
    Tables <- {PartitionTable}, Data <- {9}, MaxCount <- 3, MaxLate <- 1, MaxCalls <- 2,
    kind <- v1, inside <- v2, line <- v3, holds <- v4, drive <- v5, media_cache <- v6, media_call <- v7,
    told <- v8, from <- v9, good <- v10, changes <- v11,
    Disk <- {"d1", "d2"}, NoDisk <- "none", Cylinders <- 2, PerCylinder <- 2, Slots <- 1, Anytime <- FALSE,
    MaxChanges <- 3

Nic == INSTANCE Nics WITH kind <- v1, rx <- v2, irq <- v3, work <- v4, poll <- v5, tx <- v6, queue <- v7, sends <- v8, n <- v9,
           ok <- v10, Kinds <- {"em", "pcn", "dc", "vio", "rl", "ne"}, Slots <- 4, TxSlots <- 2, MaxLen <- 2, MaxFrames <- 3,
           \* A device of each kind, found or not, while frames arrive.
           todo <- v2, up <- v3, end <- v5, frame <- v6, cause <- v7, latch <- v8, thread <- v9,
           ProbedKinds <- {"em", "pcn", "dc", "vio", "rl", "ne", "ata", "atapi", "sata", "scd", "vd", "fd", "ac97", "sb16"}

Stream == INSTANCE CharDevices WITH
    \* Two readers of a console whose ring and line hold two characters.
    ring <- v1, line <- v2, pos <- v3, after_cr <- v4, holder <- v5, pc <- v6, want <- v7, cur <- v8,
    poller <- v9, typed <- v10, got <- v11,
    Reader <- {"r1", "r2"}, RingSize <- 2, LineMax <- 2, Lens <- {1, 2}, MaxTyped <- 3,
    kind <- v1, tx <- v2, fifo <- v3, ier <- v4, w <- v5, rx <- v6, reader <- v7, taken <- v8,
    count <- v9, ok <- v10, Kinds <- {"com1", "com"}, Writer <- {"w1", "w2"}, ComRingSize <- 2, FifoDepth <- 1,
    Texts <- {<<"a">>, <<"b", "nl", "c">>}, MaxIn <- 3,
    use <- v1, mods <- v2, held <- v3, queue <- v4, opens <- v5, sleeping <- v6, seen <- v7,
    events <- v8, QueueSize <- 2, First <- {8, 25, 72}, Data <- {0, 255}, Int16 <- 256, MaxEvents <- 6, MaxBytes <- 9,
    fragments <- v1, started <- v2, filled <- v3, offset <- v4, running <- v5, underruns <- v6, writer_pc <- v7,
    left <- v8, written <- v9, played <- v10, fit <- v11, caught <- v12,
    N <- 3, B <- 2, MaxParts <- 9, MaxWrite <- 4

-----------------------------------------------------------------------------
\* One thread that sends, receives and pings, and two hosts of the link.
Stack == INSTANCE Net WITH work_pending <- v1, net <- v2, ring <- v3, irq <- v4, loop <- v5, cache <- v6, queue <- v7,
             ping <- v8, usr <- v9, calls <- v10, got <- v11, frames <- v12,
             Users <- {"u1"}, Hosts <- {"h1", "h2"}, LOOPBACK_QUEUE_MAX <- 1, QUEUE_MAX <- 1, ARP_CACHE <- 1, ARP_TRIES <- 1,
             RingMax <- 1, MaxCalls <- 1, MaxFrames <- 2

Addressed == INSTANCE Dhcp WITH pc <- v1, tries <- v2, xid <- v3, offer <- v4, ip <- v5, fresh <- v6, net <- v7, bound <- v8,
             Server <- {"s1", "s2"}, Address <- {"a"}, None <- "none", Tries <- 2, Lease <- 2, MaxXid <- 2

Far == INSTANCE Remote WITH
    session <- v1, nodes <- v2, server <- v3, call <- v4, lost <- v5, dir <- v6, cache <- v7, lock <- v8,
    seen <- v9, Thread <- {"t1", "t2"}, MaxFid <- 3, Entries <- 2, PerMessage <- 2, DirCache <- 1,
    \* A directory with a file in it, three identifiers and three requests.
    tree <- v1, removed <- v2, refs <- v3, fids <- v4, deferred <- v5, out <- v6, owed <- v7,
    wrong <- v8, Node <- {"d", "f"}, Parent <- [d |-> "root", f |-> "d"], Root <- "root",
    Id <- {1, 2, 3}, Tag <- {1, 2, 3}, None <- "none",
    jobs <- v1, next_id <- v2, aux <- v3, job_fids <- v4, job_deferred <- v5, runner <- v6, said <- v7,
    ended <- v8, pc <- v9, mine <- v10, result <- v11,
    Terminal <- {"t1", "t2"}, MaxJobs <- 2, Codes <- {125}, Vectors <- {6}

Lib == INSTANCE Libc WITH
    file <- v1, off <- v2, f <- v3, turn <- v4, pos <- v5, data <- v6, calls <- v7,
    BUFSIZ <- 2, Chars <- {"a", "nl"}, MaxFile <- 3, MaxCalls <- 5,
    free_list <- v1, used <- v2, brk <- v3, lost <- v4,
    HeapMax <- 12, GROW_MIN <- 4, Sizes <- {0, 2, 4}

Sh == INSTANCE Shell WITH words <- v1, stages <- v2, k <- v3, phase <- v4, held <- v5, next_in <- v6, pids <- v7, ends <- v8,
          codes <- v9, status <- v10, STAGES_MAX <- 3, MaxWords <- 5, Codes <- {0, 3}

\* Boot areas that fit and that do not, kernels that fit memory and that do not.
BootHeaders == {[addr |-> 0, total |-> 1], [addr |-> 3, total |-> 2], [addr |-> 3, total |-> 3], [addr |-> 2, total |-> 4]}
BootKernels == {<<[paddr |-> 1, memsz |-> 2]>>, <<[paddr |-> 1, memsz |-> 1], [paddr |-> 2, memsz |-> 1]>>,
                <<[paddr |-> 1, memsz |-> 3]>>, <<[paddr |-> 0, memsz |-> 0]>>}
VideoMode(w, h, fits, sets) == [w |-> w, h |-> h, fits |-> fits, sets |-> sets]
VideoModes == {<<VideoMode(2, 2, TRUE, TRUE), VideoMode(3, 2, TRUE, TRUE), VideoMode(2, 3, TRUE, FALSE)>>,
               <<VideoMode(3, 3, FALSE, TRUE), VideoMode(1, 1, TRUE, FALSE)>>}
Starter == INSTANCE Boot WITH
    pc <- v1, boot <- v2, mem_upper <- v3, line <- v4, fb <- v5, left <- v6, dest <- v7,
    stack <- v8, a20 <- v9, memory <- v10, info <- v11, keys <- v12,
    Headers <- BootHeaders, Kernels <- BootKernels, Modes <- VideoModes, Wants <- {<<0, 0>>, <<3, 2>>},
    AREA_MIN <- 1, AREA_MAX <- 3, RUN_MEMORY <- 1, MemTop <- 6, BA_CMDLINE_MAX <- 2, Bounce <- 2, Budget <- 4,
    MaxKeys <- 2,
    phase <- v1, at <- v2, disk <- v3, was <- v4, cmd <- v5, whole <- v6,
    Release <- 2, Old <- 1, Bad <- 9, Cmds <- {"c1", "c2"}

-----------------------------------------------------------------------------
\* The variables from the k-th on, unused by the part that runs: 0, and left so.
Idle12 == v12 = 0
Idle11 == v11 = 0 /\ Idle12
Idle10 == v10 = 0 /\ Idle11
Idle9 == v9 = 0 /\ Idle10
Idle8 == v8 = 0 /\ Idle9
Idle7 == v7 = 0 /\ Idle8
Idle6 == v6 = 0 /\ Idle7
Idle5 == v5 = 0 /\ Idle6

Same12 == UNCHANGED v12
Same11 == UNCHANGED v11 /\ Same12
Same10 == UNCHANGED v10 /\ Same11
Same9 == UNCHANGED v9 /\ Same10
Same8 == UNCHANGED v8 /\ Same9
Same7 == UNCHANGED v7 /\ Same8
Same6 == UNCHANGED v6 /\ Same7
Same5 == UNCHANGED v5 /\ Same6

SInit ==
    \/ part = "process" /\ Processes!Init
    \/ part = "net" /\ Stack!Init
    \/ part = "open" /\ Prog!FilesInit /\ Idle7
    \/ part = "console" /\ Stream!ConsoleInit /\ Idle12
    \/ part = "elf" /\ Prog!ElfInit /\ Idle7
    \/ part = "ramfs" /\ Trees!RamInit /\ Idle10
    \/ part = "vfs" /\ Trees!VfsInit /\ Idle7
    \/ part = "iso" /\ Trees!IsoInit /\ Idle10
    \/ part = "disks" /\ Drive!DiskInit
    \/ part = "media" /\ Drive!MediaInit /\ Idle12
    \/ part = "nics" /\ Nic!Init /\ Idle11
    \/ part = "probes" /\ Nic!ProbeInit /\ Idle10
    \/ part = "sound" /\ Stream!SoundInit
    \/ part = "serial" /\ Stream!SerialInit /\ Idle11
    \/ part = "input" /\ Stream!InputInit /\ Idle9
    \/ part = "dhcp" /\ Addressed!Init /\ Idle9
    \/ part = "remote" /\ Far!RemoteInit /\ Idle10
    \/ part = "server" /\ Far!ServerInit /\ Idle9
    \/ part = "cpud" /\ Far!CpuInit /\ Idle12
    \/ part = "stdio" /\ Lib!StdioInit /\ Idle8
    \/ part = "malloc" /\ Lib!MallocInit /\ Idle5
    \/ part = "shell" /\ Sh!Init /\ Idle11
    \/ part = "install" /\ Starter!InstallInit /\ Idle7
    \/ part = "boot" /\ Starter!BootInit

SNext ==
    /\ UNCHANGED part
    /\ \/ part = "process" /\ Processes!Next
       \/ part = "net" /\ Stack!Next
       \/ part = "open" /\ Prog!FilesNext /\ Same7
       \/ part = "console" /\ Stream!ConsoleNext /\ Same12
       \/ part = "elf" /\ Prog!ElfNext /\ Same7
       \/ part = "ramfs" /\ Trees!RamNext /\ Same10
       \/ part = "vfs" /\ Trees!VfsNext /\ Same7
       \/ part = "iso" /\ Trees!IsoNext /\ Same10
       \/ part = "disks" /\ Drive!DiskNext
       \/ part = "media" /\ Drive!MediaNext /\ Same12
       \/ part = "nics" /\ Nic!Next /\ Same11
       \/ part = "probes" /\ Nic!ProbeNext /\ Same10
       \/ part = "sound" /\ Stream!SoundNext
       \/ part = "serial" /\ Stream!SerialNext /\ Same11
       \/ part = "input" /\ Stream!InputNext /\ Same9
       \/ part = "dhcp" /\ Addressed!Next /\ Same9
       \/ part = "remote" /\ Far!RemoteNext /\ Same10
       \/ part = "server" /\ Far!ServerNext /\ Same9
       \/ part = "cpud" /\ Far!CpuNext /\ Same12
       \/ part = "stdio" /\ Lib!StdioNext /\ Same8
       \/ part = "malloc" /\ Lib!MallocNext /\ Same5
       \/ part = "shell" /\ Sh!Next /\ Same11
       \/ part = "install" /\ Starter!InstallNext /\ Same7
       \/ part = "boot" /\ Starter!BootNext

svars == <<part, v1, v2, v3, v4, v5, v6, v7, v8, v9, v10, v11, v12>>
SSpec == SInit /\ [][SNext]_svars

-----------------------------------------------------------------------------
\* Processes and the list they are on are sound, and no zombie is forgotten.
ProcessesSound == part = "process" => Processes!ProcessesSound /\ Processes!NoLostZombie

\* The status a child exits with is told to its parent, once (process_wait and
\* process_reap).
StatusToldOnce == [][part = "process" => Processes!StatusStep]_svars

\* Nobody sleeps through what it waits for; the datagrams of a sender keep their
\* order; a ping is answered without asking for an address (netif.c, arp.c,
\* ip.c, udp.c).
NetSound == part = "net" => Stack!NobodyForgotten /\ Stack!EchoAnsweredAtOnce /\ Stack!DatagramsInOrder

\* Disk and network drivers do what their callers were told: a block reads as
\* last written, through cache, partition and driver (ata.c, ahci.c,
\* virtio_blk.c); after a change of medium no old block is returned and the
\* change is reported (floppy.c, atapi.c); frames are handed up once, in order, and
\* none waits unseen (the six network drivers); a device is usable when it is
\* registered, and one that was given up is silent (the probes).
DevicesTrue ==
    /\ part = "disks" => Drive!DiskTrue
    /\ part = "media" => Drive!MediaTrue
    /\ part = "nics" => Nic!NicsTrue
    /\ part = "probes" => Nic!ProbesTrue

\* Streams arrive whole and in order: typed lines at one reader each
\* (kconsole.c), key and mouse events (ps2kbd.c, ps2mouse.c), bytes of a serial line
\* (uart.c), samples at the card (audio.c).
StreamsDelivered ==
    /\ part = "console" => Stream!LinesDelivered
    /\ part = "input" => Stream!InputTrue
    /\ part = "serial" => Stream!SerialTrue
    /\ part = "sound" => Stream!SoundInOrder

\* Files are what their owners made them: open files and descriptors are counted
\* (syscall.c, process.c), reading and writing through an offset, a union or a
\* block device follows the file (vfs.c), the RAM file system holds the archive's
\* tree and what was written (ramfs.c), a CD shows the disc that is in (iso9660.c).
FileSystemsTrue ==
    /\ part = "open" => Prog!DescriptorsCounted
    /\ part = "vfs" => Trees!FilesTrue
    /\ part = "ramfs" => Trees!TreeTrue
    /\ part = "iso" => Trees!DiscTrue

\* The system comes up as promised: the boot loader starts a kernel in the state
\* it expects or stops (stage2), an interrupted installation leaves a disk that
\* boots something whole (install.c), a program starts with its segments in
\* place and its code protected (elf.c).
StartsTrue ==
    /\ part = "boot" => Starter!KernelAsPromised
    /\ part = "install" => Starter!InstallSafe
    /\ part = "elf" => Prog!ProgramLoaded

\* Network services keep their word to the other side: the address in use is one
\* a server has bound (dhcp.c), every remote file has its own live identifier
\* (zrp_client.c), a program that serves files answers every request once (zrpsrv.c),
\* every remote job ends with its own status told once (cpud.c, cpu.c).
ServicesTrue ==
    /\ part = "dhcp" => Addressed!AppliedIsBound
    /\ part = "remote" => Far!FilesOfSession
    /\ part = "server" => Far!RequestsAnswered
    /\ part = "cpud" => Far!JobsTrue

\* What every program relies on: buffered streams equal the file (stdio.c),
\* malloc's blocks are disjoint and its free list is whole (malloc.c), the shell
\* runs every stage with its own ends of the pipes and reports the last (sh.c).
LibraryTrue ==
    /\ part = "stdio" => Lib!StreamsTrue
    /\ part = "malloc" => Lib!MallocSound
    /\ part = "shell" => Sh!ShellTrue

-----------------------------------------------------------------------------
\* The boot loader alone; "the loader stops" when its copy fails (see Boot).
BootSpec == SInit /\ part = "boot" /\ [][SNext]_svars
LoaderStops == part = "boot" => Starter!LoaderStops
=============================================================================
