------------------------------ MODULE Programs ------------------------------
(***************************************************************************)
(* What the kernel keeps for a program: its open files and descriptors,    *)
(* and its image.                                                          *)
(***************************************************************************)
EXTENDS Naturals, Sequences, FiniteSets

-----------------------------------------------------------------------------
(* The descriptor tables of processes and the open files behind them         *)
(* (zkt/kernel/syscall.c, the fd operations of process.c, and struct file of *)
(* zkt/fs/vfs.c).  A struct file is shared by dup and by spawn, counted, and *)
(* freed with its node's reference when the last descriptor goes.            *)

CONSTANTS Proc, File, Node,
          FdMax,       \* PROC_FD_MAX
          Inherited,   \* spawn hands on descriptors 0 .. Inherited - 1
          None

VARIABLES alive,       \* processes
          leaving,     \* ... that are exiting
          fds,         \* their tables
          file,        \* each struct file: refs (0 when free), node, offset
          refs,        \* the nodes' references, one kept by their tree
          busy         \* the read or write a process is inside

filesVars == <<alive, leaving, fds, file, refs, busy>>

Fd == 0 .. FdMax - 1

FreeFile == [refs |-> 0, node |-> None, offset |-> 0]

Holes(p) == {fd \in Fd : fds[p][fd] = None}

LowestFd(p) == CHOOSE fd \in Holes(p) : \A o \in Holes(p) : fd <= o

(* vfs_open and vfs_open_vnode: a file with a reference to its node.         *)
Fresh(f, n) == [file EXCEPT ![f] = [refs |-> 1, node |-> n, offset |-> 0]]

(* vfs_close, and location_release with the last reference.                  *)
Closed(fs, f) == IF fs[f].refs = 1 THEN [fs EXCEPT ![f] = FreeFile]
                 ELSE [fs EXCEPT ![f].refs = @ - 1]

Unref(rs, fs, f) == IF fs[f].refs = 1 THEN [rs EXCEPT ![fs[f].node] = @ - 1] ELSE rs

Ready(p) == p \in alive \ leaving /\ busy[p] = None

-----------------------------------------------------------------------------
Open(p, f, n) ==
  /\ Ready(p) /\ file[f].refs = 0
  /\ \/ /\ Holes(p) # {}
        /\ file' = Fresh(f, n) /\ refs' = [refs EXCEPT ![n] = @ + 1]
        /\ fds' = [fds EXCEPT ![p][LowestFd(p)] = f]
     \/ Holes(p) = {} /\ UNCHANGED <<file, refs, fds>>
  /\ UNCHANGED <<alive, leaving, busy>>

Close(p, fd) ==
  /\ Ready(p) /\ fds[p][fd] # None
  /\ fds' = [fds EXCEPT ![p][fd] = None]
  /\ refs' = Unref(refs, file, fds[p][fd])
  /\ file' = Closed(file, fds[p][fd])
  /\ UNCHANGED <<alive, leaving, busy>>

(* SYS_DUP: a reference first, given back when the table is full.            *)
Dup(p, fd) ==
  /\ Ready(p) /\ fds[p][fd] # None
  /\ \/ /\ Holes(p) # {}
        /\ fds' = [fds EXCEPT ![p][LowestFd(p)] = fds[p][fd]]
        /\ file' = [file EXCEPT ![fds[p][fd]].refs = @ + 1]
     \/ Holes(p) = {} /\ UNCHANGED <<fds, file>>
  /\ UNCHANGED <<alive, leaving, refs, busy>>

Dup2KeepsOld(p, fd, newfd) ==
  /\ Ready(p) /\ fds[p][fd] # None /\ fd # newfd
  /\ fds' = [fds EXCEPT ![p][newfd] = fds[p][fd]]
  /\ file' = [file EXCEPT ![fds[p][fd]].refs = @ + 1]
  /\ UNCHANGED <<alive, leaving, refs, busy>>

(* sys_dup2 and process_fd_install_at: what was there is closed afterwards.  *)
Dup2(p, fd, newfd) ==
  /\ Ready(p) /\ fds[p][fd] # None /\ fd # newfd
  /\ fds' = [fds EXCEPT ![p][newfd] = fds[p][fd]]
  /\ LET more == [file EXCEPT ![fds[p][fd]].refs = @ + 1]
         old == fds[p][newfd]
     IN /\ file' = IF old = None THEN more ELSE Closed(more, old)
        /\ refs' = IF old = None THEN refs ELSE Unref(refs, more, old)
  /\ UNCHANGED <<alive, leaving, busy>>

(* sys_pipe: two nodes made with one reference each, which passes to the     *)
(* files; a file that cannot be made, or a full table, undoes all of it.     *)
Pipe(p, f, g, n, m) ==
  /\ Ready(p) /\ f # g /\ n # m /\ file[f].refs = 0 /\ file[g].refs = 0
  /\ refs[n] = 0 /\ refs[m] = 0
  /\ \/ /\ Cardinality(Holes(p)) >= 2
        /\ file' = [file EXCEPT ![f] = [refs |-> 1, node |-> n, offset |-> 0],
                                ![g] = [refs |-> 1, node |-> m, offset |-> 0]]
        /\ refs' = [refs EXCEPT ![n] = 1, ![m] = 1]
        /\ LET a == LowestFd(p)
               b == CHOOSE fd \in Holes(p) \ {a} : \A o \in Holes(p) \ {a} : fd <= o
           IN fds' = [fds EXCEPT ![p] = [@ EXCEPT ![a] = f, ![b] = g]]
     \/ UNCHANGED <<file, refs, fds>>
  /\ UNCHANGED <<alive, leaving, busy>>

(* process_spawn: the child shares its parent's first descriptors; without a *)
(* thread for it they are closed again.                                      *)
Spawn(p, c) ==
  /\ Ready(p) /\ c \notin alive \cup leaving
  /\ \/ /\ alive' = alive \cup {c}
        /\ fds' = [fds EXCEPT ![c] = [fd \in Fd |-> IF fd < Inherited THEN fds[p][fd] ELSE None]]
        /\ file' = [f \in File |->
             [file[f] EXCEPT !.refs = @ + Cardinality({fd \in 0 .. Inherited - 1 : fds[p][fd] = f})]]
     \/ UNCHANGED <<alive, fds, file>>
  /\ UNCHANGED <<leaving, refs, busy>>

(* process_exit closes every descriptor, one after another.                  *)
Exit(p) ==
  /\ p \in alive /\ busy[p] = None /\ leaving' = leaving \cup {p}
  /\ IF \E fd \in Fd : fds[p][fd] # None
     THEN \E fd \in Fd :
            /\ fds[p][fd] # None /\ \A o \in 0 .. fd - 1 : fds[p][o] = None
            /\ fds' = [fds EXCEPT ![p][fd] = None]
            /\ refs' = Unref(refs, file, fds[p][fd])
            /\ file' = Closed(file, fds[p][fd])
            /\ UNCHANGED alive
     ELSE alive' = alive \ {p} /\ UNCHANGED <<fds, file, refs>>
  /\ UNCHANGED busy

(* sys_read and sys_write hold no reference while the node works, and the    *)
(* node may make them wait (vfs_read, vfs_write).                            *)
Transfer(p, fd) ==
  /\ Ready(p) /\ fds[p][fd] # None
  /\ busy' = [busy EXCEPT ![p] = fds[p][fd]]
  /\ UNCHANGED <<alive, leaving, fds, file, refs>>

Transferred(p) ==
  /\ busy[p] # None
  /\ busy' = [busy EXCEPT ![p] = None]
  /\ file' = [file EXCEPT ![busy[p]].offset = (@ + 1) % 2]
  /\ UNCHANGED <<alive, leaving, fds, refs>>

FilesInit ==
       /\ \E p \in Proc : alive = {p}
       /\ leaving = {}
       /\ fds = [p \in Proc |-> [fd \in Fd |-> None]]
       /\ file = [f \in File |-> FreeFile]
       /\ refs = [n \in Node |-> 0]
       /\ busy = [p \in Proc |-> None]

FilesNext ==
       \E p \in Proc :
         \/ \E f \in File, n \in Node : Open(p, f, n)
         \/ \E fd \in Fd : Close(p, fd) \/ Dup(p, fd) \/ Transfer(p, fd) \/ \E o \in Fd : Dup2(p, fd, o)
         \/ \E f, g \in File, n, m \in Node : Pipe(p, f, g, n, m)
         \/ \E c \in Proc : Spawn(p, c)
         \/ Exit(p) \/ Transferred(p)

FilesSpec == FilesInit /\ [][FilesNext]_filesVars

-----------------------------------------------------------------------------
Slots == {<<p, fd>> : p \in Proc, fd \in Fd}

(* Every open file is counted once for each descriptor, over all processes,  *)
(* and every node once for each open file: nothing is freed while it is used *)
(* or kept when it is not, and a transfer that waits keeps its file, though  *)
(* it took no reference of its own.                                          *)
DescriptorsCounted ==
  /\ \A f \in File : file[f].refs = Cardinality({s \in Slots : fds[s[1]][s[2]] = f})
  /\ \A n \in Node : refs[n] = Cardinality({f \in File : file[f].refs > 0 /\ file[f].node = n})
  /\ \A p \in Proc : busy[p] # None => file[busy[p]].refs > 0
  /\ \A p \in Proc \ alive : \A fd \in Fd : fds[p][fd] = None

-----------------------------------------------------------------------------
(* Loading an ELF executable (zkt/kernel/elf.c and the part of process_spawn *)
(* that calls it): the header's and the segments' checks, mapping zeroed     *)
(* pages, copying, and write-protecting what no writable segment shares.     *)
(* An address holds one byte; the file's bytes are numbered from 1.          *)

CONSTANTS PageSize, ImageMin, ImageTop,   \* the user image's addresses
          FileSize,
          Segments,    \* the program headers a file may have
          Entries,     \* its entry points
          Versions,    \* the versions its ABI note may give, and the ones run
          VersionMin, VersionMax,
          Frames       \* page frames there are

VARIABLES elf, at, mem, mapped, readonly, state

elfVars == <<elf, at, mem, mapped, readonly, state>>

PageOf(a) == a - (a % PageSize)

Pages == {a \in 0 .. ImageTop - 1 : a % PageSize = 0}

PagesOf(s) == {p \in Pages : p >= PageOf(s.vaddr) /\ p < s.vaddr + s.memsz}

Loads(s) == s.load /\ s.memsz # 0

(* valid_segment.                                                            *)
ValidSegment(s) ==
  /\ s.memsz >= s.filesz /\ s.offset <= FileSize /\ s.filesz <= FileSize - s.offset
  /\ s.vaddr >= ImageMin /\ s.vaddr < ImageTop /\ s.memsz <= ImageTop - s.vaddr

(* writable_segment_covers.                                                  *)
WritableStartsIn(page) ==
  \E i \in DOMAIN elf.segs : Loads(elf.segs[i]) /\ elf.segs[i].w /\ PageOf(elf.segs[i].vaddr) = page

WritableCovers(page) ==
  \E i \in DOMAIN elf.segs :
     /\ Loads(elf.segs[i]) /\ elf.segs[i].w
     /\ page < elf.segs[i].vaddr + elf.segs[i].memsz /\ elf.segs[i].vaddr < page + PageSize

-----------------------------------------------------------------------------
(* A refused file: vmm_as_clear_user and vmm_as_destroy give all back.       *)
Fail ==
  /\ state' = "failed" /\ mapped' = {} /\ mem' = [a \in DOMAIN mem |-> 0] /\ readonly' = {}
  /\ UNCHANGED <<elf, at>>

Header ==
  /\ state = "header"
  /\ IF elf.version \in VersionMin .. VersionMax
     THEN state' = "load" /\ UNCHANGED <<elf, at, mem, mapped, readonly>>
     ELSE Fail

(* The next segment: skipped, refused, or mapped and filled.                 *)
Load ==
  /\ state = "load" /\ at <= Len(elf.segs)
  /\ LET s == elf.segs[at]
         new == PagesOf(s) \ mapped
     IN \/ /\ ~Loads(s)
           /\ at' = at + 1 /\ UNCHANGED <<elf, mem, mapped, readonly, state>>
        \/ /\ Loads(s)
           /\ ~ValidSegment(s) \/ Cardinality(mapped \cup new) > Frames
           /\ Fail
        \/ /\ Loads(s) /\ ValidSegment(s) /\ Cardinality(mapped \cup new) <= Frames
           /\ mapped' = mapped \cup new
           /\ mem' = [a \in DOMAIN mem |->
                        IF a >= s.vaddr /\ a < s.vaddr + s.filesz THEN s.offset + (a - s.vaddr) + 1
                        ELSE IF PageOf(a) \in new THEN 0
                        ELSE mem[a]]
           /\ at' = at + 1 /\ UNCHANGED <<elf, readonly, state>>

EntryLoaded ==
  \E i \in DOMAIN elf.segs :
     Loads(elf.segs[i]) /\ elf.entry >= elf.segs[i].vaddr
     /\ elf.entry - elf.segs[i].vaddr < elf.segs[i].memsz

Protect ==
  /\ state = "load" /\ at > Len(elf.segs)
  /\ IF ~EntryLoaded THEN Fail
     ELSE /\ readonly' = {p \in mapped :
                            /\ \E i \in DOMAIN elf.segs :
                                 Loads(elf.segs[i]) /\ ~elf.segs[i].w /\ p \in PagesOf(elf.segs[i])
                            /\ ~WritableCovers(p)}
          /\ state' = "loaded"
          /\ UNCHANGED <<elf, at, mem, mapped>>

(* setup_stack may still find no frame for the stack.                        *)
Stack ==
  /\ state = "loaded"
  /\ IF Cardinality(mapped) = Frames THEN Fail
     ELSE state' = "ready" /\ UNCHANGED <<elf, at, mem, mapped, readonly>>

ElfInit ==
     /\ elf \in [segs : UNION {[1 .. n -> Segments] : n \in 1 .. 2}, entry : Entries, version : Versions]
     /\ at = 1 /\ mem = [a \in 0 .. ImageTop - 1 |-> 0] /\ mapped = {} /\ readonly = {}
     /\ state = "header"

ElfNext == Header \/ Load \/ Protect \/ Stack

ElfSpec == ElfInit /\ [][ElfNext]_elfVars

-----------------------------------------------------------------------------
Bytes(s) == {a \in 0 .. ImageTop - 1 : a >= s.vaddr /\ a < s.vaddr + s.memsz}

Live == {i \in DOMAIN elf.segs : Loads(elf.segs[i])}

Apart == \A i, j \in Live : i # j => Bytes(elf.segs[i]) \cap Bytes(elf.segs[j]) = {}

(* A program whose segments do not overlap starts with each of them as the   *)
(* file has it and zeroes after that, though two may share a page; a page is *)
(* write-protected exactly when no writable segment has a byte in it; only   *)
(* the segments' pages are mapped; and a refused file leaves nothing mapped. *)
ProgramLoaded ==
  /\ state = "ready" =>
       /\ Apart => \A i \in Live : \A a \in Bytes(elf.segs[i]) :
            LET s == elf.segs[i]
            IN mem[a] = (IF a - s.vaddr < s.filesz THEN s.offset + (a - s.vaddr) + 1 ELSE 0)
       /\ mapped = {PageOf(a) : a \in UNION {Bytes(elf.segs[i]) : i \in Live}}
       /\ \A p \in mapped : p \in readonly <=>
            \A i \in Live : elf.segs[i].w => \A a \in Bytes(elf.segs[i]) : PageOf(a) # p
       /\ \A p \in mapped : p >= ImageMin
       /\ \E i \in Live : elf.entry \in Bytes(elf.segs[i])
  /\ state = "failed" => mapped = {}
=============================================================================
