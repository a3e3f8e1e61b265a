------------------------------ MODULE DosFiles ------------------------------
(***************************************************************************)
(* The files of a DOS program: which descriptor of the host belongs to     *)
(* which handle, control block or search, and which directory of ManiOS a  *)
(* DOS path names.                                                         *)
(***************************************************************************)
EXTENDS Integers, SequencesExt, FiniteSetsExt

-----------------------------------------------------------------------------
(* The file tables of the DOS machine (userland/dosrun/dosapi.c): handles      *)
(* (INT 21h 3Ch-3Eh, 45h, 46h, 5Bh), file control blocks (0Fh, 10h, 16h) and   *)
(* directory searches (4Eh, 4Fh), each of which holds a descriptor of the      *)
(* host, and what EXEC, the end of a child and the end of the machine do with  *)
(* them.  Descriptors 0 to 2 belong to the runner; the others to the machine.  *)

CONSTANTS Handles,         \* HANDLES: the handles are 0..Handles - 1
          FcbSlots, FindSlots, \* 16 and 8 in the code
          Fcbs, Dtas,      \* the FCBs in guest memory, the transfer areas used
          HostFds,         \* the host's descriptors above 2
          MaxDepth         \* bound: how many programs wait for a child

VARIABLES proc,            \* the tables of the running program
          parents,         \* those of the programs that wait, innermost first
          fcb,             \* per FCB in guest memory: the slot it names, 0: none
          open,            \* the host's descriptors above 2 that are open
          state            \* "runs"; "over" after dos_free

filesVars == <<proc, parents, fcb, open, state>>

NoFd == -1
\* The kernel gives out the lowest free descriptor (process_fd_install).
Lowest(free) == {fd \in free : \A other \in free : fd <= other}
Free == HostFds \ open
NoTables == [handle  |-> [h \in 0..(Handles - 1) |-> NoFd], private |-> {},
             fcb     |-> [s \in 1..FcbSlots |-> NoFd],
             find    |-> [s \in 1..FindSlots |-> [fd |-> NoFd, dta |-> 0]]]

\* Every descriptor a program's tables hold and that is the machine's own.
Owned(t) == {fd \in Range(t.handle) \cup Range(t.fcb) \cup {t.find[s].fd : s \in 1..FindSlots} : fd \in HostFds}

\* dos_new: the console is 0 and 1.
FilesInit == /\ proc = [NoTables EXCEPT !.handle = [h \in 0..(Handles - 1) |-> IF h < 2 THEN h ELSE NoFd]]
             /\ parents = <<>> /\ fcb = [f \in Fcbs |-> 0] /\ open = {} /\ state = "runs"

\* handle_alloc: the first free entry; when there is none the caller closes fd.
HandleAlloc(t, fd) ==
    LET free == {h \in DOMAIN t.handle : t.handle[h] = NoFd}
    IN IF free = {} THEN [t |-> t, ok |-> FALSE]
       ELSE [t |-> [t EXCEPT !.handle[Min(free)] = fd, !.private = @ \ {Min(free)}], ok |-> TRUE]

\* 3Ch, 3Dh, 5Bh.  private: bit 7 of the access mode of 3Dh.
OpenFile(private, fd) ==
    LET a  == HandleAlloc(proc, fd)
        h  == CHOOSE h \in DOMAIN proc.handle : a.t.handle[h] = fd
    IN /\ a.ok
       /\ proc' = IF private THEN [a.t EXCEPT !.private = @ \cup {h}] ELSE a.t
       /\ open' = open \cup {fd}
       /\ UNCHANGED <<parents, fcb, state>>

\* 3Eh: the descriptors of the runner are never closed.
CloseHandle(h) ==
    /\ proc.handle[h] # NoFd
    /\ proc' = [proc EXCEPT !.handle[h] = NoFd, !.private = @ \ {h}]
    /\ open' = open \ {proc.handle[h]}
    /\ UNCHANGED <<parents, fcb, state>>

\* Mutant: what the target named before stays open.
DuplicateKeeps(h, target, fd) ==
       /\ proc.handle[h] # NoFd /\ target # h
       /\ proc' = [proc EXCEPT !.handle[target] = fd, !.private = IF h \in @ THEN @ \cup {target} ELSE @ \ {target}]
       /\ open' = open \cup {fd}
       /\ UNCHANGED <<parents, fcb, state>>

\* 45h, for the first free target, and 46h, for any: the target is closed only
\* when the duplicate has been made.
Duplicate(h, target, fd) ==
       /\ proc.handle[h] # NoFd /\ target # h
       /\ proc' = [proc EXCEPT !.handle[target] = fd, !.private = IF h \in @ THEN @ \cup {target} ELSE @ \ {target}]
       /\ open' = (open \cup {fd}) \ {proc.handle[target]}
       /\ UNCHANGED <<parents, fcb, state>>

\* The slot an FCB in memory names, if that slot is open.
SlotOf(f) == IF fcb[f] # 0 /\ proc.fcb[fcb[f]] # NoFd THEN fcb[f] ELSE 0

\* 0Fh and 16h: an FCB that is open keeps its slot, and its old file is closed.
FcbOpen(f, fd) ==
    LET empty == {s \in 1..FcbSlots : proc.fcb[s] = NoFd}
        s     == IF SlotOf(f) # 0 THEN SlotOf(f) ELSE Min(empty)
    IN /\ SlotOf(f) # 0 \/ empty # {}
       /\ open' = (open \cup {fd}) \ {proc.fcb[s]}
       /\ proc' = [proc EXCEPT !.fcb[s] = fd]
       /\ fcb' = [fcb EXCEPT ![f] = s]
       /\ UNCHANGED <<parents, state>>

\* 10h: closing an FCB that is not open succeeds and does nothing.
FcbClose(f) ==
    /\ SlotOf(f) # 0
    /\ open' = open \ {proc.fcb[SlotOf(f)]}
    /\ proc' = [proc EXCEPT !.fcb[SlotOf(f)] = NoFd]
    /\ UNCHANGED <<parents, fcb, state>>

\* 4Eh: a search that this transfer area had is closed first.  The directory
\* may be missing or hold nothing that matches (kept is FALSE).
FindFirst(dta, kept, fd) ==
    LET mine  == {s \in 1..FindSlots : proc.find[s].fd # NoFd /\ proc.find[s].dta = dta}
        empty == {s \in 1..FindSlots : proc.find[s].fd = NoFd}
        s     == IF mine # {} THEN Max(mine) ELSE Min(empty)
        left  == open \ {proc.find[s].fd}
    IN /\ mine # {} \/ empty # {}
       /\ fd \in Lowest(HostFds \ left)
       /\ open' = IF kept THEN left \cup {fd} ELSE left
       /\ proc' = [proc EXCEPT !.find[s] = [fd |-> IF kept THEN fd ELSE NoFd, dta |-> IF kept THEN dta ELSE 0]]
       /\ UNCHANGED <<parents, fcb, state>>

\* 4Fh after the last entry: the search is closed.
FindEnd(s) ==
    /\ proc.find[s].fd # NoFd
    /\ open' = open \ {proc.find[s].fd}
    /\ proc' = [proc EXCEPT !.find[s] = NoTables.find[s]]
    /\ UNCHANGED <<parents, fcb, state>>

\* What dos_exec duplicates: all that is not private.
Shared(t) == {h \in DOMAIN t.handle : t.handle[h] # NoFd /\ h \notin t.private}

\* 4Bh: the child has duplicates of what its parent shares and nothing else.  A
\* load that fails, in memory or in the loader, closes them all again.
Exec ==
    /\ Len(parents) < MaxDepth
    /\ \E dup \in Injection(Shared(proc), Free) :
          /\ \A h \in DOMAIN dup : dup[h] \in Lowest(Free \ {dup[g] : g \in {g \in DOMAIN dup : g < h}})
          /\ proc' = [NoTables EXCEPT !.handle = [h \in DOMAIN @ |-> IF h \in DOMAIN dup THEN dup[h] ELSE NoFd]]
          /\ open' = open \cup Range(dup)
    /\ parents' = <<proc>> \o parents
    /\ UNCHANGED <<fcb, state>>

\* Mutant: the searches of the child are forgotten.
ExecReturnKeeps ==
    /\ parents # <<>>
    /\ open' = open \ (Range(proc.handle) \cup Range(proc.fcb))
    /\ proc' = Head(parents) /\ parents' = Tail(parents)
    /\ UNCHANGED <<fcb, state>>

\* exec_return.
ExecReturn ==
    /\ parents # <<>>
    /\ open' = open \ Owned(proc)
    /\ proc' = Head(parents) /\ parents' = Tail(parents)
    /\ UNCHANGED <<fcb, state>>

\* dos_free, however deep the programs are: the tables of all of them.
DosFree ==
    /\ state' = "over"
    /\ open' = open \ (Owned(proc) \cup UNION {Owned(parents[i]) : i \in DOMAIN parents})
    /\ proc' = NoTables /\ parents' = <<>>
    /\ UNCHANGED fcb

FilesNext == /\ state = "runs"
             /\ \/ \E fd \in Lowest(Free) : \/ \E private \in BOOLEAN : OpenFile(private, fd)
                                            \/ \E h, t \in DOMAIN proc.handle : Duplicate(h, t, fd)
                                            \/ \E f \in Fcbs : FcbOpen(f, fd)
                \/ \E h \in DOMAIN proc.handle : CloseHandle(h)
                \/ \E f \in Fcbs : FcbClose(f)
                \/ \E dta \in Dtas, kept \in BOOLEAN, fd \in HostFds : FindFirst(dta, kept, fd)
                \/ \E s \in 1..FindSlots : FindEnd(s)
                \/ Exec \/ ExecReturn \/ DosFree

FilesSpec == FilesInit /\ [][FilesNext]_filesVars

-----------------------------------------------------------------------------
\* Whatever a program and its children open, duplicate, redirect, close twice or
\* leave open, every descriptor of the host that is open has exactly one owner
\* among the tables of the running program and of the ones that wait for it, no
\* table names a descriptor that was closed, and dos_free leaves none open.
DescriptorsOwnedOnce ==
    LET all == <<proc>> \o parents
        Count(t, fd) == Cardinality({h \in DOMAIN t.handle : t.handle[h] = fd})
                        + Cardinality({s \in 1..FcbSlots : t.fcb[s] = fd})
                        + Cardinality({s \in 1..FindSlots : t.find[s].fd = fd})
        S(fd) == MapThenSumSet(LAMBDA i : Count(all[i], fd), DOMAIN all)
    IN /\ \A fd \in HostFds : S(fd) = IF fd \in open THEN 1 ELSE 0
       /\ state = "over" => open = {}

-----------------------------------------------------------------------------
(* Drive letters and DOS paths, twice over: ManiDOS's (userland/dos/drives.c *)
(* and the CD, RD and drive commands) and dosrun's (userland/dosrun/drives.c *)
(* behind INT 21h functions 0Eh, 39h-3Bh and 47h).  A path is a sequence of  *)
(* components; a ManiOS path starts at /.  Case and buffer sizes are left    *)
(* out: every name is short and lower case.                                  *)

CONSTANTS Disks,       \* the disks that may be under /n, in name order
          Group(_),    \* 0 floppy, 1 hard disk, 2 CD, -1 anything else
          Words,       \* the components a typed path is made of
          MaxWords,
          MaxDirs

VARIABLES under_n, dirs, mounts, cwd, current

pathsVars == <<under_n, dirs, mounts, cwd, current>>

Letters == <<"A", "B", "C", "D", "E", "Z">>

Paths == UNION {[1 .. n -> Words] : n \in 0 .. MaxWords}

(* What is typed: a drive or none, rooted or not, and the components.        *)
Typed == [drive : {"", "C", "Z"}, rooted : BOOLEAN, parts : Paths]

-----------------------------------------------------------------------------
(* Which directory each letter names.                                        *)

Present(m) == {l \in DOMAIN m : m[l] # <<"none">>}

NoDrives == [l \in ToSet(Letters) |->
               CASE l = "A" -> <<"boot">> [] l = "Z" -> <<>> [] OTHER -> <<"none">>]

(* From the letter at position 3, C:, one letter for each disk of seq.       *)
LettersFrom(m, seq) ==
  [l \in DOMAIN m |->
     IF \E i \in 1 .. Len(seq) : i + 2 < Len(Letters) /\ Letters[i + 2] = l
     THEN <<"n", seq[CHOOSE i \in 1 .. Len(seq) : Letters[i + 2] = l]>>
     ELSE m[l]]

Sorted(S) == SelectSeq(Disks, LAMBDA d : d \in S)

(* drives_init: the first floppy is B:, the hard disks C: on, then the CDs,  *)
(* then the other floppies.                                                  *)
DrivesInit(S) ==
  LET of(g) == SelectSeq(Sorted(S), LAMBDA d : Group(d) = g)
      floppies == of(0)
      others == IF floppies = <<>> THEN <<>> ELSE Tail(floppies)
      m == IF floppies = <<>> THEN NoDrives
           ELSE [NoDrives EXCEPT !["B"] = <<"n", Head(floppies)>>]
  IN LettersFrom(m, of(1) \o of(2) \o others)

(* dos_mount_defaults: whatever is under /n, by name, from C:.               *)
DosMountDefaults(S) == LettersFrom(NoDrives, Sorted(S))

-----------------------------------------------------------------------------
(* ManiDOS: dos_resolve and dos_to_manios.                                   *)

Drop(s, n) == SubSeq(s, 1, IF Len(s) > n THEN Len(s) - n ELSE 0)

ResolveStep(stack, w) ==
  CASE w = "."   -> stack
    [] w = ".."  -> Drop(stack, 1)
    [] w = "..." -> Drop(stack, 2)
    [] OTHER     -> Append(stack, w)

DosResolve(at, in) == FoldLeft(ResolveStep, <<>>, IF in.rooted THEN in.parts ELSE at \o in.parts)

DosToManios(root, path) == root \o path

(* drives_follow_cwd: the drive whose root is the longest prefix.            *)
DrivesFollowCwd(m, where) ==
  LET fits == {l \in Present(m) : IsPrefix(m[l], where)}
      best == CHOOSE l \in fits : \A k \in fits : Len(m[k]) <= Len(m[l])
  IN [drive |-> best, path |-> SubSeq(where, Len(m[best]) + 1, Len(where))]

-----------------------------------------------------------------------------
(* dosrun: dos_path, dos_chdir, dos_directory.                               *)

DosPathStep(out, w) ==
  CASE w = "."  -> out
    [] w = ".." -> Drop(out, 1)
    [] OTHER    -> Append(out, w)

DriveOf(in) == IF in.drive = "" THEN current ELSE in.drive

DosPath(in) ==
  LET d == DriveOf(in)
  IN mounts[d] \o FoldLeft(DosPathStep, <<>>, IF in.rooted THEN in.parts ELSE cwd[d] \o in.parts)

DosSetDrive(d) ==
  /\ d \in Present(mounts)
  /\ current' = d
  /\ UNCHANGED <<under_n, dirs, mounts, cwd>>

DosChdir(in) ==
  LET d == DriveOf(in)
      mapped == DosPath(in)
  IN /\ mounts[d] # <<"none">>
     /\ mapped \in dirs
     /\ cwd' = [cwd EXCEPT ![d] = SubSeq(mapped, Len(mounts[d]) + 1, Len(mapped))]
     /\ UNCHANGED <<under_n, dirs, mounts, current>>

Mkdir(in) ==
  LET mapped == DosPath(in)
  IN /\ mounts[DriveOf(in)] # <<"none">>
     /\ mapped # <<>> /\ mapped \notin dirs /\ Front(mapped) \in dirs
     /\ Cardinality(dirs) < MaxDirs
     /\ dirs' = dirs \cup {mapped}
     /\ UNCHANGED <<under_n, mounts, cwd, current>>

RmdirOwnDrive(in) ==
  LET mapped == DosPath(in)
      d == DriveOf(in)
  IN /\ mounts[d] # <<"none">>
     /\ mapped # mounts[d] /\ mapped # mounts[d] \o cwd[d]
     /\ mapped \in dirs /\ \A x \in dirs : ~IsStrictPrefix(mapped, x)
     /\ dirs' = dirs \ {mapped}
     /\ UNCHANGED <<under_n, mounts, cwd, current>>

(* dos_directory's removal: not a drive's root, nor any drive's directory,   *)
(* and rmdir only takes an empty directory.                                  *)
Rmdir(in) ==
  LET mapped == DosPath(in)
  IN /\ mounts[DriveOf(in)] # <<"none">>
     /\ \A l \in Present(mounts) : mapped # mounts[l] /\ mapped # mounts[l] \o cwd[l]
     /\ mapped \in dirs /\ \A x \in dirs : ~IsStrictPrefix(mapped, x)
     /\ dirs' = dirs \ {mapped}
     /\ UNCHANGED <<under_n, mounts, cwd, current>>

-----------------------------------------------------------------------------
PathsInit ==
       /\ under_n \in {ToSet(SubSeq(Disks, 1, j)) : j \in 0 .. Len(Disks)}
       /\ mounts = DosMountDefaults(under_n)
       /\ dirs = {<<>>, <<"boot">>, <<"n">>} \cup {<<"n", d>> : d \in under_n}
       /\ cwd = [l \in ToSet(Letters) |-> <<>>]
       /\ current = "C"

PathsNext ==
       \/ \E d \in ToSet(Letters) : DosSetDrive(d)
       \/ \E in \in Typed : DosChdir(in) \/ Mkdir(in) \/ Rmdir(in)

PathsSpec == PathsInit /\ [][PathsNext]_pathsVars

-----------------------------------------------------------------------------
(* dosrun's drives stay on directories that exist, though one directory is   *)
(* reached through two drives and programs remove directories; a ManiDOS     *)
(* started by another finds the directory it was started in; and the two     *)
(* path translations agree wherever "..." is not used.                       *)
DrivesSound ==
  /\ \A l \in Present(mounts) : mounts[l] \o cwd[l] \in dirs
  /\ \A where \in dirs :
       LET m == DrivesInit(under_n)
           f == DrivesFollowCwd(m, where)
       IN DosToManios(m[f.drive], f.path) = where
  /\ \A in \in Typed :
       (mounts[DriveOf(in)] # <<"none">> /\ "..." \notin ToSet(in.parts \o cwd[DriveOf(in)])) =>
          DosPath(in) = DosToManios(mounts[DriveOf(in)], DosResolve(cwd[DriveOf(in)], in))

(* dosrun/drives.c says it mounts the same directories ManiDOS does, so that *)
(* a DOS program and ManiDOS see the same files.                             *)
SameDrives == mounts = DrivesInit(under_n)
=============================================================================
