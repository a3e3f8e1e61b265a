------------------------------ MODULE DosMemory ------------------------------
(***************************************************************************)
(* Memory as dosrun gives it out: conventional memory and programs in it,  *)
(* extended and expanded memory, and the loader that puts a program into   *)
(* its block.                                                              *)
(***************************************************************************)
EXTENDS Integers, SequencesExt, FiniteSetsExt

-----------------------------------------------------------------------------
(* Conventional memory of the DOS machine (userland/dosrun/dosapi.c): the      *)
(* chain of memory control blocks, what a program does with it through INT 21h *)
(* (48h allocate, 49h free, 4Ah resize), and EXEC, which loads a child into    *)
(* blocks of its own and gives them back when the child ends or the load       *)
(* fails.  The chain is a sequence of blocks; a header is one paragraph.       *)

CONSTANTS Paragraphs,      \* from the first header to the end of memory
          Sizes,           \* the sizes programs ask for; 0 asks for the largest
          EnvSize,         \* paragraphs of an environment
          ChildMin, ChildMax, \* what load_program_at wants for a program
          MaxDepth         \* bound: how many programs wait for a child

VARIABLES arena,           \* [owner, size] of the blocks, in order; owner 0: free
          psp,             \* the segment of the running program
          memsize,         \* PSP:02 of every program that is alive
          parents          \* the programs that wait, innermost first

arenaVars == <<arena, psp, memsize, parents>>

Loading == 65535           \* the owner while EXEC has not finished
Free(a, i) == a[i].owner = 0

\* The segment of block i: the one after its header.
SegOf(a, i) ==
    LET S[k \in 1..i] == IF k = 1 THEN 1 ELSE S[k - 1] + a[k - 1].size + 1
    IN S[i]
IndexOf(a, seg) == CHOOSE i \in DOMAIN a : SegOf(a, i) = seg

\* mcb_join: block i takes in the free blocks behind it.
McbJoin(a, i) ==
    LET last == CHOOSE k \in i..Len(a) : /\ \A j \in (i + 1)..k : Free(a, j)
                                         /\ k = Len(a) \/ ~Free(a, k + 1)
    IN SubSeq(a, 1, i - 1)
       \o <<[a[i] EXCEPT !.size = (SegOf(a, last) + a[last].size) - SegOf(a, i)]>>
       \o SubSeq(a, last + 1, Len(a))

\* Mutant: the header of the rest is not taken off.
McbSplitNoHeader(a, i, wanted) ==
    IF wanted >= a[i].size THEN a
    ELSE McbJoin(SubSeq(a, 1, i - 1) \o <<[a[i] EXCEPT !.size = wanted], [owner |-> 0, size |-> a[i].size - wanted]>>
                 \o SubSeq(a, i + 1, Len(a)), i + 1)

\* mcb_split: the rest is a free block, joined with what is free behind it.
McbSplit(a, i, wanted) ==
    IF wanted >= a[i].size THEN a
    ELSE McbJoin(SubSeq(a, 1, i - 1) \o <<[a[i] EXCEPT !.size = wanted], [owner |-> 0, size |-> a[i].size - wanted - 1]>>
                 \o SubSeq(a, i + 1, Len(a)), i + 1)

\* The walk of dos_memory and exec_alloc: every free block on the way is joined,
\* until one is big enough.  at is 0 when none is.
RECURSIVE Fit(_, _, _)
Fit(a, i, wanted) ==
    LET b == IF Free(a, i) THEN McbJoin(a, i) ELSE a
    IN IF Free(b, i) /\ wanted > 0 /\ b[i].size >= wanted THEN [a |-> b, at |-> i]
       ELSE IF i = Len(b) THEN [a |-> b, at |-> 0] ELSE Fit(b, i + 1, wanted)

\* exec_alloc: between min and max paragraphs for the owner `Loading`.
ExecAlloc(a, min, max) ==
    LET f == Fit(a, 1, min)
        s == McbSplit(f.a, f.at, IF f.a[f.at].size < max THEN f.a[f.at].size ELSE max)
    IN IF f.at = 0 THEN f ELSE [a |-> [s EXCEPT ![f.at].owner = Loading], at |-> f.at]

\* exec_release: the owner's blocks are free, and then all free ones are joined.
ExecRelease(a, owner) ==
    Fit([i \in DOMAIN a |-> IF a[i].owner = owner THEN [a[i] EXCEPT !.owner = 0] ELSE a[i]], 1, 0).a

-----------------------------------------------------------------------------
\* dos_set_program and dos_build_psp: a program, its environment elsewhere, and
\* the rest free.
ArenaInit == \E size \in {ChildMax, Paragraphs - 1} :
                /\ arena = IF size = Paragraphs - 1 THEN <<[owner |-> 1, size |-> size]>>
                           ELSE <<[owner |-> 1, size |-> size], [owner |-> 0, size |-> Paragraphs - size - 2]>>
                /\ psp = 1 /\ memsize = [p \in {1} |-> 1 + size] /\ parents = <<>>

\* 48h.
Allocate(wanted) ==
    LET f == Fit(arena, 1, wanted)
    IN /\ arena' = IF f.at = 0 THEN f.a ELSE [McbSplit(f.a, f.at, wanted) EXCEPT ![f.at].owner = psp]
       /\ UNCHANGED <<psp, memsize, parents>>

\* 49h, for a block of the program's own that it does not run in.
Release(i) ==
    /\ arena[i].owner = psp /\ SegOf(arena, i) # psp
    /\ arena' = McbJoin([arena EXCEPT ![i].owner = 0], i)
    /\ UNCHANGED <<psp, memsize, parents>>

\* 4Ah: what is free behind the block is joined to it in any case.
Resize(i, wanted) ==
    LET a == McbJoin(arena, i)
        ok == a[i].size >= wanted
    IN /\ arena[i].owner = psp /\ wanted > 0
       /\ arena' = IF ok THEN McbSplit(a, i, wanted) ELSE a
       /\ memsize' = IF ok /\ SegOf(arena, i) = psp THEN [memsize EXCEPT ![psp] = psp + wanted] ELSE memsize
       /\ UNCHANGED <<psp, parents>>

\* 4Bh: an environment and a program, or neither.  A handle that cannot be
\* duplicated ("dup") or the second load_program_at ("load") may fail it too.
Exec(fails) ==
    LET env   == ExecAlloc(arena, EnvSize, EnvSize)
        child == ExecAlloc(env.a, ChildMin, ChildMax)
        seg   == SegOf(child.a, child.at)
    IN /\ Len(parents) < MaxDepth
       /\ IF fails # "nothing" \/ env.at = 0 \/ child.at = 0
          THEN /\ arena' = ExecRelease(CASE fails = "dup" -> arena [] env.at = 0 -> env.a [] OTHER -> child.a, Loading)
               /\ UNCHANGED <<psp, memsize, parents>>
          ELSE /\ arena' = [i \in DOMAIN child.a |->
                              IF child.a[i].owner = Loading THEN [child.a[i] EXCEPT !.owner = seg] ELSE child.a[i]]
               /\ psp' = seg /\ parents' = <<psp>> \o parents
               /\ memsize' = [p \in DOMAIN memsize \cup {seg} |-> IF p = seg THEN seg + child.a[child.at].size ELSE memsize[p]]

\* exec_return: the blocks of the child, however many, and its parent goes on.
ExecReturn ==
    /\ parents # <<>>
    /\ arena' = ExecRelease(arena, psp)
    /\ psp' = Head(parents) /\ parents' = Tail(parents)
    /\ memsize' = [p \in DOMAIN memsize \ {psp} |-> memsize[p]]

ArenaNext == \/ \E n \in Sizes : Allocate(n) \/ \E i \in DOMAIN arena : Resize(i, n)
             \/ \E i \in DOMAIN arena : Release(i)
             \/ \E fails \in {"nothing", "dup", "load"} : Exec(fails)
             \/ ExecReturn

ArenaSpec == ArenaInit /\ [][ArenaNext]_arenaVars

-----------------------------------------------------------------------------
\* The chain of memory blocks stays whole through every sequence of allocating,
\* resizing, freeing, EXEC, failing EXEC and return: it fills memory exactly
\* (mcb_valid's Z block ends at A000h), every block belongs to a program that is
\* alive, every program that is alive, waiting parents included, still has the
\* block it runs in, and PSP:02 never points behind that block.
ArenaSound ==
    LET alive == {psp} \cup Range(parents)
    IN /\ SegOf(arena, Len(arena)) + Last(arena).size = Paragraphs
       /\ \A i \in DOMAIN arena : arena[i].owner \in alive \cup {0} /\ arena[i].size >= 0
       /\ DOMAIN memsize = alive
       /\ \A p \in alive : \E i \in DOMAIN arena :
             SegOf(arena, i) = p /\ arena[i].owner = p /\ memsize[p] <= p + arena[i].size

-----------------------------------------------------------------------------
(* The memory pools of the DOS machine (userland/dosrun/dosapi.c): extended    *)
(* memory (dos_xms), whose blocks follow one another, and expanded memory      *)
(* (int67), whose pages a program sees through the four pages of a window.     *)
(* A page's content is one value.                                              *)

CONSTANTS XmsSize, XmsHandles,   \* KB in the pool; handles 1..XmsHandles
          EmsPages, EmsHandles,  \* pages in the pool; handles 0..EmsHandles - 1
          Frames,                \* the pages of the window: 0..Frames - 1
          Values

VARIABLES pool,            \* the driver a behaviour uses: "xms" or "ems"
          xms,             \* per handle: [at, len, grown], at 0: free
          pages_of,        \* per handle: its pages, 0: free
          ems,             \* the pool
          map,             \* per page of the window: [h, p], h -1: nothing
          window,          \* what the window holds
          wrote            \* per handle and page: what the program last put there

poolsVars == <<pool, xms, pages_of, ems, map, window, wrote>>

NoBlock == [at |-> 0, len |-> 0, grown |-> FALSE]
Hs == 0..(EmsHandles - 1)
Nothing == [h |-> -1, p |-> -1]
None == "zero"                  \* calloc: the pool starts with zeros

PoolsInit == /\ pool \in {"xms", "ems"}
             /\ xms = [h \in 1..XmsHandles |-> NoBlock]
             /\ pages_of = [h \in Hs |-> 0] /\ ems = [p \in 0..(EmsPages - 1) |-> None]
             /\ map = [f \in 0..(Frames - 1) |-> Nothing] /\ window = [f \in 0..(Frames - 1) |-> None]
             /\ wrote = [h \in Hs |-> [p \in 0..(EmsPages - 1) |-> "unknown"]]

-----------------------------------------------------------------------------
\* XMS 09h: behind the last block; a handle is the offset plus one.
XmsAllocate(kb) ==
    LET free == {h \in DOMAIN xms : xms[h].at = 0}
        used == Max({0} \cup {xms[h].at + xms[h].len : h \in DOMAIN xms \ free})
    IN /\ pool = "xms" /\ free # {} /\ kb > 0 /\ used + kb <= XmsSize
       /\ xms' = [xms EXCEPT ![Min(free)] = [at |-> used + 1, len |-> kb, grown |-> FALSE]]
       /\ UNCHANGED <<pool, pages_of, ems, map, window, wrote>>

\* XMS 0Ah.
XmsFree(h) ==
    /\ xms[h].at # 0 /\ xms' = [xms EXCEPT ![h] = NoBlock]
    /\ UNCHANGED <<pool, pages_of, ems, map, window, wrote>>

\* XMS 0Fh: only the size of the whole pool bounds the new length.
XmsReallocate(h, kb) ==
    /\ xms[h].at # 0 /\ kb <= XmsSize
    /\ xms' = [xms EXCEPT ![h].len = kb, ![h].grown = @ \/ kb > xms[h].len]
    /\ UNCHANGED <<pool, pages_of, ems, map, window, wrote>>

-----------------------------------------------------------------------------
Used == MapThenSumSet(LAMBDA h : pages_of[h], Hs)

\* Where a handle's page is in the pool: behind the pages of the lower handles.
PageAt(h, p) == MapThenSumSet(LAMBDA i : pages_of[i], 0..(h - 1)) + p

\* After handle h came or went, nothing is known of the higher handles' pages.
Shifted(h) == [i \in Hs |-> IF i >= h THEN [p \in 0..(EmsPages - 1) |-> "unknown"] ELSE wrote[i]]

\* INT 67h 43h: the lowest free handle.
EmsAllocate(want) ==
    LET free == {h \in Hs : pages_of[h] = 0}
    IN /\ pool = "ems" /\ want > 0 /\ Used + want <= EmsPages /\ free # {}
       /\ pages_of' = [pages_of EXCEPT ![Min(free)] = want]
       /\ wrote' = Shifted(Min(free))
       /\ UNCHANGED <<pool, xms, ems, map, window>>

\* A page that two frames show is in neither of them for sure.
Shown(m, h, p) == Cardinality({f \in DOMAIN m : m[f] = [h |-> h, p |-> p]})
Known(m, w) == [h \in Hs |-> [p \in 0..(EmsPages - 1) |-> IF Shown(m, h, p) > 1 THEN "unknown" ELSE w[h][p]]]

\* Mutant: the window is not written back.
EmsMapLoses(f, h, p) ==
    /\ p < pages_of[h]
    /\ window' = [window EXCEPT ![f] = ems[PageAt(h, p)]]
    /\ map' = [map EXCEPT ![f] = [h |-> h, p |-> p]]
    /\ wrote' = Known(map', wrote)
    /\ UNCHANGED <<pool, xms, pages_of, ems>>

\* INT 67h 44h: what the window held goes back to the page it showed.
EmsMap(f, h, p) ==
    LET back == IF map[f].h < 0 THEN ems ELSE [ems EXCEPT ![PageAt(map[f].h, map[f].p)] = window[f]]
    IN /\ p < pages_of[h]
       /\ ems' = back /\ window' = [window EXCEPT ![f] = back[PageAt(h, p)]]
       /\ map' = [map EXCEPT ![f] = [h |-> h, p |-> p]]
       /\ wrote' = Known(map', wrote)
       /\ UNCHANGED <<pool, xms, pages_of>>

\* INT 67h 45h: its pages leave the window.
EmsFree(h) ==
    /\ pages_of[h] > 0
    /\ pages_of' = [pages_of EXCEPT ![h] = 0]
    /\ map' = [f \in DOMAIN map |-> IF map[f].h = h THEN Nothing ELSE map[f]]
    /\ wrote' = Shifted(h)
    /\ UNCHANGED <<pool, xms, ems, window>>

\* The program writes through the window.
Write(f, v) ==
    /\ map[f].h >= 0
    /\ window' = [window EXCEPT ![f] = v]
    /\ wrote' = Known(map, [wrote EXCEPT ![map[f].h][map[f].p] = v])
    /\ UNCHANGED <<pool, xms, pages_of, ems, map>>

PoolsNext == \/ \E kb \in 1..XmsSize : XmsAllocate(kb) \/ \E h \in DOMAIN xms : XmsReallocate(h, kb)
             \/ \E h \in DOMAIN xms : XmsFree(h)
             \/ \E n \in 1..2 : EmsAllocate(n)
             \/ \E h \in Hs : EmsFree(h)
             \/ \E f \in DOMAIN map, h \in Hs, p \in 0..(EmsPages - 1) : EmsMap(f, h, p)
             \/ \E f \in DOMAIN map, v \in Values : Write(f, v)

PoolsSpec == PoolsInit /\ [][PoolsNext]_poolsVars

-----------------------------------------------------------------------------
\* Blocks of extended memory lie inside the pool and share no byte, except for
\* what 0Fh has made longer; and a page of expanded memory holds what was last
\* written to it, in the window or behind it, through every order of mapping,
\* as long as one frame at a time shows it and no lower handle comes or goes.
PoolsSound ==
    /\ \A h \in DOMAIN xms : xms[h].at # 0 /\ ~xms[h].grown =>
          /\ (xms[h].at - 1) + xms[h].len <= XmsSize
          /\ \A i \in DOMAIN xms \ {h} : xms[i].at # 0 /\ ~xms[i].grown =>
                xms[h].at + xms[h].len <= xms[i].at \/ xms[i].at + xms[i].len <= xms[h].at
    /\ Used <= EmsPages
    /\ \A h \in Hs, p \in 0..(EmsPages - 1) : p < pages_of[h] /\ wrote[h][p] # "unknown" =>
          wrote[h][p] = IF Shown(map, h, p) = 0 THEN ems[PageAt(h, p)]
                        ELSE window[CHOOSE f \in DOMAIN map : map[f] = [h |-> h, p |-> p]]

-----------------------------------------------------------------------------
(* The loader of dosrun (userland/dosrun/loader.c): how much memory a .COM or *)
(* an MZ .EXE asks for, where its image goes in the block it gets, and which  *)
(* words are relocated.  load_program asks first, without loading, and loads  *)
(* into what it then allocates.  Sizes are scaled down: a paragraph has Para  *)
(* bytes, the PSP takes Psp paragraphs, a segment counter goes up to Max16.   *)

CONSTANTS Para, Psp, PspSeg, Top, Max16,
          ComMax,      \* bytes a .COM may have (0xFF00)
          ComParas,    \* paragraphs it needs (0x1000)
          Files        \* [exe, header_ok, len, min, max, relocs]: an image of len bytes

VARIABLES file, step, asked, at, res

loaderVars == <<file, step, asked, at, res>>

Least(a, b) == IF a < b THEN a ELSE b
Most(a, b) == IF a < b THEN b ELSE a
Available == Top - PspSeg

ImageParas(f) == (f.len + Para - 1) \div Para + Psp

(* Mutant: the PSP is counted as part of the image at the high end.           *)
LoadExeTooLow(f, psp_at, paras) ==
  LET low == psp_at + Psp
      greedy == f.min = 0 /\ f.max = 0
      min == ImageParas(f) + f.min
      max == Most(IF greedy THEN Max16 ELSE ImageParas(f) + f.max, min)
      seg == IF greedy /\ ImageParas(f) <= paras THEN psp_at + paras - ImageParas(f) ELSE low
  IN  IF ~f.header_ok THEN [rc |-> 11]
      ELSE IF f.len > (Top - low) * Para THEN [rc |-> 11]
      ELSE IF min > paras THEN [rc |-> 8]
      ELSE IF \E r \in f.relocs : r + 1 >= f.len THEN [rc |-> 11]
      ELSE [rc |-> 0, min |-> Least(min, Max16), max |-> Least(max, Max16), seg |-> seg]

(* load_program_at for an .EXE, with paras paragraphs from psp on.            *)
LoadExe(f, psp_at, paras) ==
  LET low == psp_at + Psp
      greedy == f.min = 0 /\ f.max = 0
      min == ImageParas(f) + f.min
      max == Most(IF greedy THEN Max16 ELSE ImageParas(f) + f.max, min)
      seg == IF greedy /\ ImageParas(f) <= paras THEN psp_at + paras - (ImageParas(f) - Psp) ELSE low
  IN  IF ~f.header_ok THEN [rc |-> 11]
      ELSE IF f.len > (Top - low) * Para THEN [rc |-> 11]
      ELSE IF min > paras THEN [rc |-> 8]
      ELSE IF \E r \in f.relocs : r + 1 >= f.len THEN [rc |-> 11]
      ELSE [rc |-> 0, min |-> Least(min, Max16), max |-> Least(max, Max16), seg |-> seg]

(* ... and for a .COM: in the segment of the PSP itself.                      *)
LoadCom(f, psp_at, paras) ==
  IF f.len > ComMax THEN [rc |-> 11]
  ELSE IF paras < ComParas THEN [rc |-> 8]
  ELSE [rc |-> 0, min |-> ComParas, max |-> Max16, seg |-> psp_at]

LoadAt(f, psp_at, paras) == IF f.exe THEN LoadExe(f, psp_at, paras) ELSE LoadCom(f, psp_at, paras)

(* load_program: the first call only asks.                                    *)
Ask ==
  /\ step = "ask"
  /\ LET r == LoadAt(file, PspSeg, Available)
     IN  IF r.rc = 0 THEN asked' = Least(r.max, Available) /\ step' = "load"
         ELSE asked' = 0 /\ step' = "refused"
  /\ UNCHANGED <<file, at, res>>

(* The second call loads into the block allocated.                            *)
Load ==
  /\ step = "load"
  /\ res' = LoadAt(file, PspSeg, asked)
  /\ at' = IF res'.rc = 0 THEN res'.seg ELSE 0
  /\ step' = "loaded"
  /\ UNCHANGED <<file, asked>>

LoaderInit ==
        /\ file \in Files
        /\ step = "ask" /\ asked = 0 /\ at = 0 /\ res = [rc |-> 0]

LoaderNext == Ask \/ Load

LoaderSpec == LoaderInit /\ [][LoaderNext]_loaderVars

-----------------------------------------------------------------------------
(* Once asking succeeded, loading does; and the image, wherever the program   *)
(* asked to have it, lies inside the block it was given, above its PSP and    *)
(* below the end of DOS memory, with every relocated word inside it.          *)
LoadedInItsBlock ==
  step = "loaded" =>
    /\ res.rc = 0
    /\ LET first == at * Para + (IF file.exe THEN 0 ELSE Psp * Para)
       IN  /\ first >= (PspSeg + Psp) * Para
           /\ first + file.len <= (PspSeg + asked) * Para
           /\ PspSeg + asked <= Top
           /\ \A r \in file.relocs : first + r + 2 <= first + file.len
=============================================================================
