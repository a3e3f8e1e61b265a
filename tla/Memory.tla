------------------------------- MODULE Memory -------------------------------
(***************************************************************************)
(* The memory of the kernel: its heap, and the frames and page tables      *)
(* below it.                                                               *)
(***************************************************************************)
EXTENDS Integers, SequencesExt, FiniteSetsExt

-----------------------------------------------------------------------------
(* The kernel heap (zkt/mm/heap.c): blocks of a header and a payload, in a  *)
(* list in the order of their addresses; first fit, split when the rest can *)
(* hold anything, joined again by kfree, and more pages when nothing fits.  *)
(* Every operation runs with interrupts off and is one step.  Addresses     *)
(* count bytes from KERNEL_HEAP_START.                                      *)

CONSTANTS HEAP_ALIGN,      \* payloads are multiples of this, and so is the header
          Header,          \* sizeof(struct block)
          PAGE_SIZE,
          MaxHeap,         \* KERNEL_HEAP_MAX_SIZE
          Sizes,           \* the sizes callers ask for
          MaxLive          \* bound: allocations at one time

VARIABLES blocks,          \* heap_head and its successors: [addr, size, used]
          heap_end,        \* the first byte that is not mapped
          used_bytes,
          live             \* what callers hold: [ptr, size], with the size they asked for

heapVars == <<blocks, heap_end, used_bytes, live>>

RoundUp(n, unit) == ((n + unit - 1) \div unit) * unit

HeapInit == blocks = <<>> /\ heap_end = 0 /\ used_bytes = 0 /\ live = {}

\* The first free block that is big enough; 0 when there is none.
FirstFit(list, size) == SelectInSeq(list, LAMBDA b : ~b.used /\ b.size >= size)

SplitNoHeader(b, size) ==
    IF b.size >= size + Header + HEAP_ALIGN
    THEN <<[b EXCEPT !.size = size, !.used = TRUE],
           [addr |-> b.addr + Header + size, size |-> b.size - size, used |-> FALSE]>>
    ELSE <<[b EXCEPT !.used = TRUE]>>

\* The block a caller gets, and the rest of it as a block of its own.
Split(b, size) ==
    IF b.size >= size + Header + HEAP_ALIGN
    THEN <<[b EXCEPT !.size = size, !.used = TRUE],
           [addr |-> b.addr + Header + size, size |-> (b.size - size) - Header, used |-> FALSE]>>
    ELSE <<[b EXCEPT !.used = TRUE]>>

\* Pages for a block of `size` at the end: the last block grows if it is free.
Grown(list, end, bytes) ==
    IF list # <<>> /\ ~Last(list).used
    THEN [list EXCEPT ![Len(list)].size = @ + bytes]
    ELSE Append(list, [addr |-> end, size |-> bytes - Header, used |-> FALSE])

Take(list, i, size, asked) ==
    LET parts == Split(list[i], size)
    IN /\ blocks' = SubSeq(list, 1, i - 1) \o parts \o SubSeq(list, i + 1, Len(list))
       /\ used_bytes' = used_bytes + parts[1].size
       /\ live' = live \cup {[ptr |-> list[i].addr + Header, size |-> asked]}

\* kmalloc.  It fails, with everything as before, when the region is full or
\* there is no frame for one of the pages: those mapped so far are given back.
Kmalloc(asked) ==
    LET size  == RoundUp(asked, HEAP_ALIGN)
        i     == FirstFit(blocks, size)
        bytes == RoundUp(Header + size, PAGE_SIZE)
        more  == Grown(blocks, heap_end, bytes)
    IN /\ Cardinality(live) < MaxLive
       /\ \/ i # 0 /\ Take(blocks, i, size, asked) /\ UNCHANGED heap_end
          \/ /\ i = 0 /\ bytes <= MaxHeap - heap_end
             /\ heap_end' = heap_end + bytes
             /\ Take(more, FirstFit(more, size), size, asked)

\* kfree's loop: every block takes in the free ones behind it.
Coalesced(list) ==
    LET J[i \in 0..Len(list)] ==
            IF i = 0 THEN <<>>
            ELSE IF J[i - 1] # <<>> /\ ~Last(J[i - 1]).used /\ ~list[i].used
            THEN [J[i - 1] EXCEPT ![Len(J[i - 1])].size = @ + Header + list[i].size]
            ELSE Append(J[i - 1], list[i])
    IN J[Len(list)]

Kfree(p) ==
    LET i == SelectInSeq(blocks, LAMBDA b : b.addr + Header = p.ptr)
    IN /\ p \in live
       /\ live' = live \ {p}
       /\ blocks' = Coalesced([blocks EXCEPT ![i].used = FALSE])
       /\ used_bytes' = used_bytes - blocks[i].size
       /\ UNCHANGED heap_end

HeapNext == \/ \E size \in Sizes : Kmalloc(size)
            \/ \E p \in live : Kfree(p)

HeapSpec == HeapInit /\ [][HeapNext]_heapVars

-----------------------------------------------------------------------------
\* What heap_check (169-189) looks for: blocks tile the mapped heap exactly,
\* payloads are aligned and no two free blocks are neighbours.
HeapCheck ==
    /\ \A i \in DOMAIN blocks :
          /\ blocks[i].addr = IF i = 1 THEN 0 ELSE blocks[i - 1].addr + Header + blocks[i - 1].size
          /\ blocks[i].size % HEAP_ALIGN = 0 /\ blocks[i].size > 0
          /\ i > 1 => blocks[i].used \/ blocks[i - 1].used
    /\ heap_end = IF blocks = <<>> THEN 0 ELSE Last(blocks).addr + Header + Last(blocks).size

\* The heap is sound after every kmalloc and kfree: it passes heap_check; what
\* callers hold are exactly the used blocks, each at least as long as was asked
\* for, inside the mapped heap and apart from the others; and used_bytes is
\* their sum.
HeapSound ==
    LET in_use == {b \in Range(blocks) : b.used}
    IN /\ HeapCheck
       /\ used_bytes = MapThenSumSet(LAMBDA b : b.size, in_use)
       /\ {b.addr + Header : b \in in_use} = {p.ptr : p \in live}
       /\ Cardinality(in_use) = Cardinality(live)
       /\ \A p \in live :
             /\ p.ptr + p.size <= heap_end
             /\ \A q \in live : p # q => p.ptr + p.size + Header <= q.ptr \/ q.ptr + q.size + Header <= p.ptr

-----------------------------------------------------------------------------
(* Frames, page tables and address spaces: zkt/mm/pmm.c, zkt/mm/kpage.c,     *)
(* zkt/mm/kstack.c, zkt/mm/dma.c, zkt/arch/i386/paging.c, and what processes *)
(* do with them (zkt/kernel/process.c: making a space, sbrk, exit).  A       *)
(* stretch with interrupts off is one step; a process is preempted anywhere  *)
(* else, with a frame in its hand.  A virtual page is [area, n]: a user page,*)
(* a page of the kernel stacks or one of the single kernel pages.            *)

CONSTANTS Procs, Frames,       \* Frames: 1..n, the frames the bitmap covers
          BITS_PER_WORD,
          PtSize,              \* entries of a page table
          UserPages,           \* pages of the program's heap, at most
          KSTACK_PAGES,
          StackSlots, PageSlots, \* kernel stacks, and single kernel pages, at most
          DmaFrames, Boundary  \* a DMA buffer, and what it must not cross

VARIABLES used,       \* the bitmap
          search_hint, free_count,
          pd,         \* directories: [space -> [page table number -> frame or 0]]
          pt,         \* what is in the frames that are page tables
          spaces,     \* all_spaces
          kpage,      \* used[] of kpage.c: whose directory, or None
          kstack,     \* slot_used[] of kstack.c: the slots that are used
          dma,        \* first frame of the DMA buffer, or 0
          pc, hand,   \* per process: where it is, and the frame it holds
          brk, want,  \* its heap in pages, and as it will be when sbrk is done
          page, upto      \* the page a loop is at, and the one it ends before

None == "none"
Kernel == "kernel"

mm   == <<used, search_hint, free_count>>
tabs == <<pd, pt, spaces>>
proc == <<pc, hand, brk, want, page, upto>>
memoryVars == <<mm, tabs, kpage, kstack, dma, proc>>

TablesOf(area, pages) == {[area |-> area, n |-> k] : k \in 0..((pages - 1) \div PtSize)}
StackPages == StackSlots * (KSTACK_PAGES + 1)
UserTables == TablesOf("user", UserPages)
KernelTables == TablesOf("stacks", StackPages) \cup TablesOf("pages", PageSlots)
TableNo(va) == [area |-> va.area, n |-> va.n \div PtSize]
NoTable == [k \in UserTables \cup KernelTables |-> 0]
NoEntries == [i \in 0..(PtSize - 1) |-> 0]
UserPage(n) == [area |-> "user", n |-> n]
PageSlot(i) == [area |-> "pages", n |-> i]
StackPage(slot, i) == [area |-> "stacks", n |-> slot * (KSTACK_PAGES + 1) + 1 + i]

MemoryInit == /\ used = {} /\ search_hint = 0 /\ free_count = Cardinality(Frames)
              /\ pd = [s \in Procs \cup {Kernel} |-> NoTable]
              /\ pt = [f \in Frames |-> NoEntries] /\ spaces = {Kernel}
              /\ kpage = [i \in 0..(PageSlots - 1) |-> None] /\ kstack = {}
              /\ dma = 0
              /\ pc = [p \in Procs |-> "none"] /\ hand = [p \in Procs |-> 0]
              /\ brk = [p \in Procs |-> 0] /\ want = [p \in Procs |-> 0]
              /\ page = [p \in Procs |-> 0] /\ upto = [p \in Procs |-> 0]

-----------------------------------------------------------------------------
(* The frame allocator, the page tables: functions of a memory m. *)

Now == [used |-> used, hint |-> search_hint, free |-> free_count, pd |-> pd, pt |-> pt]
Becomes(m) == /\ used' = m.used /\ search_hint' = m.hint /\ free_count' = m.free
              /\ pd' = m.pd /\ pt' = m.pt

WordOf(f) == (f - 1) \div BITS_PER_WORD
Words == {WordOf(f) : f \in Frames}
Full(m, w) == \A f \in Frames : WordOf(f) = w => f \in m.used

\* pmm_alloc_frame: the lowest free frame of the first word that has one.
AllocFrame(m) ==
    LET Got(f) == [m |-> [m EXCEPT !.used = @ \cup {f}, !.hint = WordOf(f), !.free = @ - 1], frame |-> f]
        free == {f \in Frames \ m.used : WordOf(f) >= m.hint}
    IN IF free = {} THEN [m |-> [m EXCEPT !.hint = Max(Words) + 1], frame |-> 0] ELSE Got(Min(free))

FreeFrameHintKept(m, f) == [m EXCEPT !.used = @ \ {f}, !.free = @ + 1]

FreeFrame(m, f) ==
    [m EXCEPT !.used = @ \ {f}, !.free = @ + 1, !.hint = IF WordOf(f) < @ THEN WordOf(f) ELSE @]

PublishedInActive(s, k) == {s, Kernel}

\* The directories a new table goes into: a kernel table goes into all.
PublishedIn(s, k) == IF k \in KernelTables THEN spaces ELSE {s}

\* map_page_locked in space s: a missing table is made first, a kernel one for
\* every listed space.  A table that was made stays when the page is there already.
WithTable(m, s, k, table) ==
    [m EXCEPT !.pd = [x \in DOMAIN @ |-> IF x \in PublishedIn(s, k) THEN [@[x] EXCEPT ![k] = table] ELSE @[x]],
              !.pt = [@ EXCEPT ![table] = NoEntries]]

Entered(m, s, va, frame) ==
    LET table == m.pd[s][TableNo(va)]
    IN IF m.pt[table][va.n % PtSize] # 0 THEN [m |-> m, ok |-> FALSE]
       ELSE [m |-> [m EXCEPT !.pt[table][va.n % PtSize] = frame], ok |-> TRUE]

MapPage(m, s, va, frame) ==
    LET Made(got) == IF got.frame = 0 THEN [m |-> got.m, ok |-> FALSE]
                     ELSE Entered(WithTable(got.m, s, TableNo(va), got.frame), s, va, frame)
    IN IF m.pd[s][TableNo(va)] # 0 THEN Entered(m, s, va, frame) ELSE Made(AllocFrame(m))

PteOf(m, s, va) == IF m.pd[s][TableNo(va)] = 0 THEN 0 ELSE m.pt[m.pd[s][TableNo(va)]][va.n % PtSize]

\* vmm_unmap_page.
UnmapPage(m, s, va) == [m EXCEPT !.pt[m.pd[s][TableNo(va)]][va.n % PtSize] = 0]

\* A frame mapped at a kernel address, or nothing at all: kpage_alloc, map_stack.
MapNew(m, s, va) ==
    LET OrFreed(r, f) == IF r.ok THEN r ELSE [m |-> FreeFrame(r.m, f), ok |-> FALSE]
        Mapping(got) == IF got.frame = 0 THEN [m |-> got.m, ok |-> FALSE]
                        ELSE OrFreed(MapPage(got.m, s, va, got.frame), got.frame)
    IN Mapping(AllocFrame(m))

UnmapAndFree(m, s, va) == FreeFrame(UnmapPage(m, s, va), PteOf(m, s, va))

-----------------------------------------------------------------------------
(* Kernel stacks and DMA buffers, by a thread in any space that is in use. *)

ActiveSpaces == {Kernel} \cup {p \in Procs : pc[p] = "run"}

\* The first n pages of a stack unmapped and their frames freed, in order.
StackFreed(m, s, slot, n) ==
    LET F[i \in 0..n] == IF i = 0 THEN m ELSE UnmapAndFree(F[i - 1], s, StackPage(slot, i - 1))
    IN F[n]

\* kstack_alloc: the first free slot, mapped page by page or not at all.
KstackMapped(s, slot) ==
    LET Page(r, i) == IF r.ok THEN r ELSE [r EXCEPT !.m = StackFreed(r.m, s, slot, i)]
        R[i \in 0..KSTACK_PAGES] ==
            IF i = 0 THEN [m |-> Now, ok |-> TRUE]
            ELSE IF ~R[i - 1].ok THEN R[i - 1]
            ELSE Page(MapNew(R[i - 1].m, s, StackPage(slot, i - 1)), i - 1)
    IN R[KSTACK_PAGES]

KstackAlloc(s) ==
    LET free == (0..(StackSlots - 1)) \ kstack
        Done(slot, r) == Becomes(r.m) /\ kstack' = IF r.ok THEN kstack \cup {slot} ELSE kstack
    IN /\ free # {}
       /\ Done(Min(free), KstackMapped(s, Min(free)))
       /\ UNCHANGED <<spaces, kpage, dma, proc>>

KstackFree(s, slot) ==
    /\ slot \in kstack /\ kstack' = kstack \ {slot}
    /\ Becomes(StackFreed(Now, s, slot, KSTACK_PAGES))
    /\ UNCHANGED <<spaces, kpage, dma, proc>>

\* dma_alloc, pmm_alloc_contiguous: the first run of free frames that crosses
\* no boundary.
DmaRuns == {f \in Frames : /\ (f..(f + DmaFrames - 1)) \subseteq Frames \ used
                           /\ f \div Boundary = (f + DmaFrames - 1) \div Boundary}

DmaAlloc == /\ dma = 0 /\ DmaRuns # {} /\ dma' = Min(DmaRuns)
            /\ used' = used \cup (dma'..(dma' + DmaFrames - 1))
            /\ free_count' = free_count - DmaFrames
            /\ UNCHANGED <<search_hint, tabs, kpage, kstack, proc>>

DmaFree == /\ dma # 0 /\ dma' = 0
           /\ LET F[i \in 0..DmaFrames] == IF i = 0 THEN Now ELSE FreeFrame(F[i - 1], dma + i - 1)
              IN Becomes(F[DmaFrames])
           /\ UNCHANGED <<spaces, kpage, kstack, proc>>

-----------------------------------------------------------------------------
(* Address spaces and the heap of a process. *)

Goto(p, from, label) == pc[p] = from /\ pc' = [pc EXCEPT ![p] = label]
Hold(p, f) == hand' = [hand EXCEPT ![p] = f]
HeapVars == <<brk, want, page, upto>>

\* sbrk returns, with the end at n.
HeapEnds(p, n) == /\ brk' = [brk EXCEPT ![p] = n] /\ want' = [want EXCEPT ![p] = 0]
                  /\ page' = [page EXCEPT ![p] = 0] /\ upto' = [upto EXCEPT ![p] = 0]

\* vmm_as_create, first half: a page for the directory.
AsAlloc(p, s) ==
    LET free == {i \in DOMAIN kpage : kpage[i] = None}
        Done(slot, r) ==
            /\ pc' = [pc EXCEPT ![p] = IF r.ok THEN "made" ELSE "none"]
            /\ Becomes([r.m EXCEPT !.pd[p] = NoTable])
            /\ kpage' = IF r.ok THEN [kpage EXCEPT ![slot] = p] ELSE kpage
    IN /\ pc[p] = "none" /\ free # {}
       /\ Done(Min(free), MapNew(Now, s, PageSlot(Min(free))))
       /\ UNCHANGED <<spaces, kstack, dma, hand, HeapVars>>

\* vmm_as_create, second half: the kernel's tables, and joining the list; the
\* caller enters the space to fill it.
AsJoin(p) ==
    /\ Goto(p, "made", "run")
    /\ pd' = [pd EXCEPT ![p] = [k \in DOMAIN @ |-> IF k \in KernelTables THEN pd[Kernel][k] ELSE @[k]]]
    /\ spaces' = spaces \cup {p}
    /\ UNCHANGED <<mm, pt, kpage, kstack, dma, hand, HeapVars>>

\* process_sbrk: the pages between the old and the new end are mapped, or
\* unmapped, one at a time.
Sbrk(p, pages) ==
    /\ pages # brk[p]
    /\ Goto(p, "run", IF pages > brk[p] THEN "frame" ELSE "unmap")
    /\ want' = [want EXCEPT ![p] = pages]
    /\ page' = [page EXCEPT ![p] = Min({pages, brk[p]})]
    /\ upto' = [upto EXCEPT ![p] = Max({pages, brk[p]})]
    /\ UNCHANGED <<mm, tabs, kpage, kstack, dma, hand, brk>>

\* What is mapped so far is unmapped again, and the end stays where it was.
Undo(p) == /\ want' = [want EXCEPT ![p] = brk[p]]
           /\ page' = [page EXCEPT ![p] = brk[p]] /\ upto' = [upto EXCEPT ![p] = page[p]]

GrowFrame(p) ==
    LET Done(got) ==
            /\ Goto(p, "frame", IF got.frame = 0 THEN "unmap" ELSE "map")
            /\ Becomes(got.m) /\ Hold(p, got.frame)
            /\ IF got.frame = 0 THEN Undo(p) ELSE UNCHANGED <<want, page, upto>>
    IN pc[p] = "frame" /\ Done(AllocFrame(Now)) /\ UNCHANGED <<spaces, kpage, kstack, dma, brk>>

GrowMap(p) ==
    LET last == page[p] + 1 = upto[p]
        Done(r) ==
            /\ Goto(p, "map", IF ~r.ok THEN "give" ELSE IF last THEN "run" ELSE "frame")
            /\ Becomes(r.m)
            /\ Hold(p, IF r.ok THEN 0 ELSE hand[p])
            /\ IF r.ok /\ last THEN HeapEnds(p, want[p])
               ELSE page' = [page EXCEPT ![p] = IF r.ok THEN @ + 1 ELSE @] /\ UNCHANGED <<brk, want, upto>>
    IN pc[p] = "map" /\ Done(MapPage(Now, p, UserPage(page[p]), hand[p])) /\ UNCHANGED <<spaces, kpage, kstack, dma>>

GiveBack(p) ==
    /\ Goto(p, "give", "unmap") /\ Becomes(FreeFrame(Now, hand[p])) /\ Hold(p, 0)
    /\ Undo(p)
    /\ UNCHANGED <<spaces, kpage, kstack, dma, brk>>

ShrinkUnmap(p) ==
    /\ page[p] < upto[p]
    /\ Goto(p, "unmap", "free") /\ Hold(p, PteOf(Now, p, UserPage(page[p])))
    /\ Becomes(UnmapPage(Now, p, UserPage(page[p])))
    /\ UNCHANGED <<spaces, kpage, kstack, dma, HeapVars>>

ShrinkFree(p) ==
    /\ Goto(p, "free", "unmap") /\ Becomes(FreeFrame(Now, hand[p])) /\ Hold(p, 0)
    /\ page' = [page EXCEPT ![p] = @ + 1]
    /\ UNCHANGED <<spaces, kpage, kstack, dma, brk, want, upto>>

ShrinkDone(p) ==
    /\ page[p] = upto[p] /\ Goto(p, "unmap", "run")
    /\ HeapEnds(p, want[p])
    /\ UNCHANGED <<mm, tabs, kpage, kstack, dma, hand>>

\* vmm_as_clear_user, by the process on its way out or by the spawner that
\* could not fill the space: the frames of a table, then the table.
Mapped(p) == {n \in 0..(UserPages - 1) : PteOf(Now, p, UserPage(n)) # 0}
Tables(p) == {k \in UserTables : pd[p][k] # 0}
FirstTable(p) == CHOOSE k \in Tables(p) : \A j \in Tables(p) : k.n <= j.n

Exit(p) == Goto(p, "run", "clear") /\ UNCHANGED <<mm, tabs, kpage, kstack, dma, hand, HeapVars>>

ClearFree(p) ==
    LET n == Min(Mapped(p))
    IN /\ Mapped(p) # {}
       /\ Goto(p, "clear", "entry") /\ Becomes(FreeFrame(Now, PteOf(Now, p, UserPage(n))))
       /\ page' = [page EXCEPT ![p] = n]
       /\ UNCHANGED <<spaces, kpage, kstack, dma, hand, brk, want, upto>>

ClearEntry(p) ==
    /\ Goto(p, "entry", "clear") /\ Becomes(UnmapPage(Now, p, UserPage(page[p])))
    /\ UNCHANGED <<spaces, kpage, kstack, dma, hand, HeapVars>>

ClearTable(p) ==
    /\ Tables(p) # {} /\ \A n \in Mapped(p) : TableNo(UserPage(n)) # FirstTable(p)
    /\ Goto(p, "clear", "table") /\ Hold(p, pd[p][FirstTable(p)])
    /\ pd' = [pd EXCEPT ![p][FirstTable(p)] = 0]
    /\ UNCHANGED <<mm, pt, spaces, kpage, kstack, dma, HeapVars>>

FreeTable(p) ==
    /\ Goto(p, "table", "clear") /\ Becomes(FreeFrame(Now, hand[p])) /\ Hold(p, 0)
    /\ UNCHANGED <<spaces, kpage, kstack, dma, HeapVars>>

\* vmm_as_destroy, from the kernel's own space, and kpage_free.
AsUnlist(p) ==
    /\ Tables(p) = {} /\ Goto(p, "clear", "unlisted")
    /\ spaces' = spaces \ {p} /\ HeapEnds(p, 0)
    /\ UNCHANGED <<mm, pd, pt, kpage, kstack, dma, hand>>

SlotOf(p) == CHOOSE i \in DOMAIN kpage : kpage[i] = p

KpageUnmap(p) ==
    /\ Goto(p, "unlisted", "pdfree") /\ Hold(p, PteOf(Now, Kernel, PageSlot(SlotOf(p))))
    /\ Becomes(UnmapPage(Now, Kernel, PageSlot(SlotOf(p))))
    /\ UNCHANGED <<spaces, kpage, kstack, dma, HeapVars>>

KpageFree(p) ==
    /\ Goto(p, "pdfree", "slot") /\ Becomes(FreeFrame(Now, hand[p])) /\ Hold(p, 0)
    /\ UNCHANGED <<spaces, kpage, kstack, dma, HeapVars>>

KpageSlot(p) ==
    /\ Goto(p, "slot", "none") /\ kpage' = [kpage EXCEPT ![SlotOf(p)] = None]
    /\ UNCHANGED <<mm, tabs, kstack, dma, hand, HeapVars>>

MemoryNext == \/ \E s \in ActiveSpaces : \/ KstackAlloc(s)
                                         \/ \E slot \in kstack : KstackFree(s, slot)
                                         \/ \E p \in Procs : AsAlloc(p, s)
              \/ DmaAlloc \/ DmaFree
              \/ \E p \in Procs :
                    \/ AsJoin(p) \/ \E n \in 0..UserPages : Sbrk(p, n)
                    \/ GrowFrame(p) \/ GrowMap(p) \/ GiveBack(p)
                    \/ ShrinkUnmap(p) \/ ShrinkFree(p) \/ ShrinkDone(p)
                    \/ Exit(p) \/ ClearFree(p) \/ ClearEntry(p) \/ ClearTable(p) \/ FreeTable(p)
                    \/ AsUnlist(p) \/ KpageUnmap(p) \/ KpageFree(p) \/ KpageSlot(p)

MemorySpec == MemoryInit /\ [][MemoryNext]_memoryVars

-----------------------------------------------------------------------------
\* Who has which frame: an entry of a page table, a directory that uses it as a
\* table, a process that holds it, the DMA buffer.  An entry that clear_user is
\* about to zero no longer counts.
Owned ==
       {<<"page", x[1], x[2], PteOf(Now, x[1], UserPage(x[2]))>> :
            x \in {y \in Procs \X (0..(UserPages - 1)) : ~(pc[y[1]] = "entry" /\ page[y[1]] = y[2])}}
  \cup {<<"page", va.area, va.n, PteOf(Now, Kernel, va)>> :
            va \in {StackPage(s, i) : s \in 0..(StackSlots - 1), i \in 0..(KSTACK_PAGES - 1)} \cup {PageSlot(i) : i \in 0..(PageSlots - 1)}}
  \cup {<<"table", p, k.n, pd[p][k]>> : p \in Procs, k \in UserTables}
  \cup {<<"table", k.area, k.n, pd[Kernel][k]>> : k \in KernelTables}
  \cup {<<"hand", p, 0, hand[p]>> : p \in Procs}
  \cup {<<"dma", Kernel, f - dma, f>> : f \in IF dma = 0 THEN {} ELSE dma..(dma + DmaFrames - 1)}

\* Every frame in use has exactly one owner and a free frame has none, through
\* every failure of sbrk, of kstack_alloc and of vmm_as_create, and while two
\* processes grow and clear their spaces at once.  free_count counts, every
\* word below search_hint is full, and at rest exactly the pages below the end
\* of the heap are mapped.
FramesAccounted ==
    /\ LET owned == {x \in Owned : x[4] # 0}
       IN used = {x[4] : x \in owned} /\ Cardinality(owned) = Cardinality(used)
    /\ free_count = Cardinality(Frames \ used)
    /\ \A w \in Words : w < search_hint => Full(Now, w)
    /\ \A p \in Procs : pc[p] = "run" => Mapped(p) = 0..(brk[p] - 1)

\* Every listed space has the kernel's page tables, all of them, whenever the
\* table was made and whichever space was active ("Every address space shares
\* the kernel's page tables", paging.c:18).
KernelHalfShared == \A s \in spaces : \A k \in KernelTables : pd[s][k] = pd[Kernel][k]
=============================================================================
