-------------------------------- MODULE Fat --------------------------------
(***************************************************************************)
(* The FAT12/16 volume (zkt/fs/fat.c): the allocation table, the slots of  *)
(* the directories, and the nodes programs have open on them.  Every       *)
(* operation runs under the volume's lock, so it is one action; what makes *)
(* it hard is what lasts between operations: the disk, the search hint,    *)
(* and nodes that remember where their entry and their clusters were.      *)
(*                                                                         *)
(* File data is not modelled: a file is its chain and its size in sectors. *)
(* The copies of the table are written alike, so there is one of them.     *)
(***************************************************************************)
EXTENDS Integers, SequencesExt, FiniteSetsExt, Bitwise

CONSTANTS
    Clusters,     \* cluster_count
    RootSlots,    \* root_entries
    DirSlots,     \* entries in a cluster
    PerCluster,   \* sectors_per_cluster, for files
    Names,        \* [stem, long]: long is 0 for a name that fits 8.3
    Handles,      \* where vnodes are allocated
    MaxSize,      \* bound: the sectors of a file
    Lengths,      \* the lengths of writes, in sectors
    Fat12,        \* whether the table is packed in 12 bits
    RemoveOpen    \* whether files are removed while they are open

VARIABLES
    disk,         \* [fat, hint, slots]; slots[0] is the fixed root
    node          \* the vnodes, by handle

fatVars == <<disk, node>>

Cluster == 2 .. Clusters + 1
EndMarker == IF Fat12 THEN 4095 ELSE 65535
IsEndOfChain(v) == v >= (IF Fat12 THEN 4088 ELSE 65528)

\* A slot of a directory.  "junk" is what a cluster held before.
Slot(st, name, dir, first, size) == [st |-> st, name |-> name, dir |-> dir, first |-> first, size |-> size]
Blank(st) == Slot(st, <<>>, FALSE, 0, 0)
End == Blank("end")
Deleted == Blank("deleted")
Junk == Blank("junk")

AllSlots(e) == [i \in 0 .. DirSlots - 1 |-> e]

NoNode == [open |-> FALSE, place |-> 0, off |-> 0, dir |-> FALSE, first |-> 0, size |-> 0,
           cursor |-> <<0, 0>>, stale |-> FALSE]

\* fat_set_entry for each cluster of a set, through the bytes the entry is
\* stored in: fat_patch_byte with keep 0xFF leaves the bits that are set.
FatSetEntries(f, set, v) ==
    [c \in Cluster |->
        IF c \notin set THEN f[c]
        ELSE IF Fat12 /\ c % 2 = 0 THEN ((f[c] % 256) | (v % 256)) + 256 * ((v \div 256) % 16)
        ELSE v]

FatSetEntry(f, c, v) == FatSetEntries(f, {c}, v)

\* The clusters from c on: as far as valid links lead, at most once around.
Chain(f, c) ==
    LET upto[k \in 0 .. Clusters] ==
          IF k = 0 THEN IF c \in Cluster THEN <<c>> ELSE <<>>
          ELSE LET s == upto[k - 1]
               IN  IF s # <<>> /\ f[Last(s)] \in Cluster THEN Append(s, f[Last(s)]) ELSE s
    IN  upto[Clusters]

\* alloc_cluster's search, from the hint on; 0 when the disk is full.
FindFree(d) ==
    LET at(i) == 2 + ((d.hint - 2 + i) % Clusters)
        free == {i \in 0 .. Clusters - 1 : d.fat[at(i)] = 0}
    IN  IF free = {} THEN 0 ELSE at(Min(free))

TakeCluster(d, c) ==
    [d EXCEPT !.fat = FatSetEntry(@, c, EndMarker), !.hint = IF c + 1 \in Cluster THEN c + 1 ELSE 2,
              !.slots[c] = AllSlots(Junk)]

\* free_chain, and whether it found the end.
FreeChain(d, first) ==
    LET gone == ToSet(Chain(d.fat, first))
    IN  [d EXCEPT !.fat = FatSetEntries(@, gone, 0),
                  !.hint = IF first \in Cluster THEN first ELSE @,
                  !.slots = [p \in DOMAIN @ |-> IF p \in gone THEN AllSlots(Junk) ELSE @[p]]]

ChainEnds(d, first) == first \in Cluster => IsEndOfChain(d.fat[Last(Chain(d.fat, first))])

-----------------------------------------------------------------------------
(* Directories: place 0 is the fixed root, any other the first cluster.    *)

\* The slots of a directory, by offset.
Slots(d, place) ==
    IF place = 0 THEN d.slots[0]
    ELSE LET chain == Chain(d.fat, place)
         IN  [off \in 0 .. DirSlots * Len(chain) - 1 |->
                d.slots[chain[(off \div DirSlots) + 1]][off % DirSlots]]

SlotCount(s) == Cardinality(DOMAIN s)
SlotAt(d, place, off) == Slots(d, place)[off]

\* Writes e to the slots at offs, which the directory has.
PutSlots(d, place, offs, e) ==
    IF place = 0 THEN [d EXCEPT !.slots[0] = [i \in DOMAIN @ |-> IF i \in offs THEN e ELSE @[i]]]
    ELSE LET chain == Chain(d.fat, place)
             k(c) == CHOOSE j \in 1 .. Len(chain) : chain[j] = c
         IN  [d EXCEPT !.slots = [c \in DOMAIN @ |->
                IF c \notin ToSet(chain) THEN @[c]
                ELSE [i \in DOMAIN @[c] |-> IF (k(c) - 1) * DirSlots + i \in offs THEN e ELSE @[c][i]]]]

PutSlot(d, place, off, e) == PutSlots(d, place, {off}, e)

\* for_each_entry: the offsets before the end marker that hold a name.
Visible(s) ==
    LET end == Min({SlotCount(s)} \cup {off \in DOMAIN s : s[off].st = "end"})
    IN  {off \in 0 .. end - 1 : s[off].st \in {"used", "junk"}}

\* name11_of, and the aliases make_entry_name tries.
Alias(name, n) == <<name.stem, n>>
Name11Of(name) == Alias(name, IF name.long = 0 THEN 0 ELSE 1)

\* entry_find: the first entry of that name, or none.
EntryFind(d, place, name) ==
    LET s == Slots(d, place)
        hits == {off \in Visible(s) : s[off].name = Name11Of(name)}
    IN  IF hits = {} THEN {} ELSE {Min(hits)}

\* make_entry_name: the name itself if it fits, and the first free alias.
MakeEntryName(d, place, name, skip) ==
    LET s == Slots(d, place)
        taken == {s[off].name : off \in Visible(s) \ skip}
        alias == Min({n \in 1 .. Cardinality(taken) + 1 : Alias(name, n) \notin taken})
    IN  IF name.long = 0 /\ Alias(name, 0) \notin taken THEN Alias(name, 0) ELSE Alias(name, alias)

\* entry_slot: a deleted slot, the end marker, or past the last cluster.
EntrySlot(d, place) ==
    LET s == Slots(d, place)
    IN  Min({SlotCount(s)} \cup {off \in DOMAIN s : s[off].st \in {"deleted", "end"}})

\* slots_delete from lfn_start: the long-name slots before off, and with
\* it if asked.
LfnStart(d, place, off) ==
    LET s == Slots(d, place)
    IN  Min({k \in 0 .. off : \A j \in k .. off - 1 : s[j].st = "lfn"})

SlotsDelete(d, place, from, to) ==
    PutSlots(d, place, from .. to, Deleted)

EntryDelete(d, place, off) == SlotsDelete(d, place, LfnStart(d, place, off), off)

DirIsEmpty(d, first) == Visible(Slots(d, first)) = {}

-----------------------------------------------------------------------------
(* Growing.  A result is the disk, the node's first cluster and a code.    *)

\* sync_entry: the node's cluster and size go into its entry.
SyncEntry(d, n) ==
    PutSlot(d, n.place, n.off,
            [SlotAt(d, n.place, n.off) EXCEPT !.first = n.first, !.size = IF n.dir THEN 0 ELSE n.size])

\* The new cluster c of cluster_for_write: cleared if it is a directory's,
\* then linked to the one before or, as the first, put into the entry.
Cleared(d, n, c) == IF n.dir THEN [d EXCEPT !.slots[c] = AllSlots(End)] ELSE d

Linked(d, n, prev, c) ==
    IF prev # 0 THEN [d EXCEPT !.fat = FatSetEntry(@, prev, c)] ELSE SyncEntry(d, [n EXCEPT !.first = c])

Link(d, n, prev, c) == Linked(Cleared(TakeCluster(d, c), n, c), n, prev, c)

\* cluster_for_write: the index'th cluster, and those before it.
ClusterForWrite(d, n, index) ==
    LET Extend(s, c) ==
          IF c = 0 THEN [s EXCEPT !.rc = "ENOSPC"]
          ELSE [s EXCEPT !.d = Link(s.d, n, s.prev, c), !.c = c, !.first = IF s.prev = 0 THEN c ELSE @]
        Turn(s) ==
          CASE s.rc # "ok" -> s
            [] s.rc = "ok" /\ s.c = 0 -> Extend(s, FindFree(s.d))
            [] s.rc = "ok" /\ s.c # 0 -> IF s.c \in Cluster THEN s ELSE [s EXCEPT !.rc = "EIO"]
        Follow(s) ==
          IF s.rc # "ok" THEN s
          ELSE LET next == s.d.fat[s.c]
               IN  [s EXCEPT !.prev = s.c, !.c = IF IsEndOfChain(next) THEN 0 ELSE next,
                             !.rc = IF IsEndOfChain(next) \/ next \in Cluster THEN "ok" ELSE "EIO"]
        upto[i \in 0 .. index] ==
          Turn(IF i = 0 THEN [d |-> d, first |-> n.first, c |-> n.first, prev |-> 0, rc |-> "ok"]
               ELSE Follow(upto[i - 1]))
    IN  upto[index]

\* node_write of the len sectors from offset of a file: how many are done.
NodeWrite(d, n, offset, len) ==
    LET Sector(done, r) == [d |-> r.d, first |-> r.first, rc |-> r.rc, done |-> IF r.rc = "ok" THEN done + 1 ELSE done]
        upto[k \in 0 .. len] ==
          IF k = 0 THEN [d |-> d, first |-> n.first, done |-> 0, rc |-> "ok"]
          ELSE LET s == upto[k - 1]
               IN  IF s.rc # "ok" THEN s
                   ELSE Sector(s.done, ClusterForWrite(s.d, [n EXCEPT !.first = s.first], (offset + k - 1) \div PerCluster))
    IN  upto[len]

\* entry_place: into the slot at off, which may need a new cluster; and a
\* new end marker behind it when it took the old one.  The fixed root does
\* not grow.
HasRoom(d, place, off) == off < SlotCount(Slots(d, place)) \/ (place # 0 /\ FindFree(d) # 0)

GrownTo(d, place, off) ==
    IF off < SlotCount(Slots(d, place)) THEN d
    ELSE ClusterForWrite(d, [NoNode EXCEPT !.dir = TRUE, !.first = place], off \div DirSlots).d

EndedAt(d, place, off) == IF off < SlotCount(Slots(d, place)) THEN PutSlot(d, place, off, End) ELSE d

EntryPlace(d, place, off, e) ==
    IF off >= SlotCount(Slots(d, place)) \/ SlotAt(d, place, off).st = "end"
    THEN EndedAt(PutSlot(GrownTo(d, place, off), place, off, e), place, off + 1)
    ELSE PutSlot(d, place, off, e)

-----------------------------------------------------------------------------
(* The operations.  A directory is given by an open node, or is the root.  *)

OpenDirs == {0} \cup {node[h].first : h \in {k \in Handles : node[k].open /\ node[k].dir}}

NodeOf(d, place, off) ==
    LET e == SlotAt(d, place, off)
    IN  [open |-> TRUE, place |-> place, off |-> off, dir |-> e.dir, first |-> e.first,
         size |-> IF e.dir THEN 0 ELSE e.size, cursor |-> <<0, 0>>, stale |-> FALSE]

FatWalk(h, place, name) ==
    /\ ~node[h].open
    /\ \E off \in EntryFind(disk, place, name) :
        node' = [node EXCEPT ![h] = NodeOf(disk, place, off)]
    /\ UNCHANGED disk

FatRelease(h) ==
    /\ node[h].open
    /\ node' = [node EXCEPT ![h] = NoNode]
    /\ UNCHANGED disk

\* Mutant: "." and ".." only.
NewDirectoryNoEnd(d, c, up) ==
    [TakeCluster(d, c) EXCEPT !.slots[c] =
        [AllSlots(Junk) EXCEPT ![0] = Slot("dot", <<>>, TRUE, c, 0),
                               ![1] = Slot("dot", <<>>, TRUE, up, 0)]]

\* new_directory: "." and ".." and an end marker, in the first sector.
NewDirectory(d, c, up) ==
    [TakeCluster(d, c) EXCEPT !.slots[c] =
        [AllSlots(Junk) EXCEPT ![0] = Slot("dot", <<>>, TRUE, c, 0),
                               ![1] = Slot("dot", <<>>, TRUE, up, 0), ![2] = End]]

\* fat_create, when it succeeds (h # NoHandle) and when there is no memory
\* for the node, and it takes everything back.
Created(h, place, off, c, memory, made, e) ==
    LET Undone(d) == disk' = (IF c # 0 THEN FreeChain(d, c) ELSE d) /\ UNCHANGED node
        Made(d) == disk' = d /\ node' = [node EXCEPT ![h] = NodeOf(d, place, off)]
    IN  IF ~HasRoom(made, place, off) THEN Undone(made)
        ELSE IF memory THEN Made(EntryPlace(made, place, off, e))
        ELSE Undone(EntryDelete(EntryPlace(made, place, off, e), place, off))

FatCreate(h, place, name, dir, memory) ==
    LET off == EntrySlot(disk, place)
        c == IF dir THEN FindFree(disk) ELSE 0
    IN  /\ ~node[h].open
        /\ EntryFind(disk, place, name) = {}
        /\ place = 0 => off < RootSlots
        /\ dir => c # 0
        /\ Created(h, place, off, c, memory, IF dir THEN NewDirectory(disk, c, place) ELSE disk,
                   Slot("used", MakeEntryName(disk, place, name, {}), dir, c, 0))

\* Whether a node is open on the entry, or on the directory it stands for.
InUse(place, off) ==
    \E h \in Handles : node[h].open /\ \/ node[h].place = place /\ node[h].off = off
                                       \/ /\ SlotAt(disk, place, off).dir
                                          /\ node[h].place = SlotAt(disk, place, off).first

Removable(place, off, dir) ==
    /\ SlotAt(disk, place, off).dir = dir
    /\ dir => DirIsEmpty(disk, SlotAt(disk, place, off).first)
    /\ RemoveOpen \/ ~InUse(place, off)

\* fat_remove: the chain first, then the entry, unless the chain was bad.
FatRemove(place, name, dir) ==
    \E off \in EntryFind(disk, place, name) :
        LET first == SlotAt(disk, place, off).first
            freed == FreeChain(disk, first)
        IN  /\ Removable(place, off, dir)
            /\ disk' = IF ChainEnds(disk, first) THEN EntryDelete(freed, place, off) ELSE freed
            /\ UNCHANGED node

\* drop_target: what has the new name already goes.
DropTarget(d, place, off) ==
    EntryDelete(FreeChain(SlotsDelete(d, place, LfnStart(d, place, off), off - 1), SlotAt(d, place, off).first), place, off)

\* The entry of `from' gets the name, in its slot; its long name goes.
Renamed(d, place, off, name) ==
    PutSlot(SlotsDelete(d, place, LfnStart(d, place, off), off - 1), place, off,
            [SlotAt(d, place, off) EXCEPT !.name = MakeEntryName(d, place, name, {off})])

FatRename(place, from, to) ==
    \E off \in EntryFind(disk, place, from) :
        LET over == EntryFind(disk, place, to) \ {off}
        IN  /\ \A t \in over : /\ Removable(place, t, SlotAt(disk, place, off).dir)
                               /\ ChainEnds(disk, SlotAt(disk, place, t).first)
            /\ disk' = Renamed(IF over = {} THEN disk
                               ELSE DropTarget(disk, place, CHOOSE t \in over : TRUE),
                               place, off, to)
            /\ UNCHANGED node

\* Mutant: the place of the last read is kept.
RefreshedCursorKept(n) ==
    LET e == SlotAt(disk, n.place, n.off)
    IN  [n EXCEPT !.first = e.first, !.size = e.size, !.stale = FALSE]

\* refresh_entry: what the entry says now; it fails when it was deleted.
Refreshed(n) ==
    LET e == SlotAt(disk, n.place, n.off)
    IN  [n EXCEPT !.first = e.first, !.size = e.size, !.cursor = <<0, 0>>, !.stale = FALSE]

\* h's node is now n; the other nodes of that file have not been told.
Changes(h, n) ==
    node' = [k \in Handles |->
        IF k = h THEN n
        ELSE IF node[k].open /\ node[k].place = n.place /\ node[k].off = n.off
        THEN [node[k] EXCEPT !.stale = TRUE] ELSE node[k]]

Refreshable(h) ==
    /\ node[h].open /\ ~node[h].dir
    /\ SlotAt(disk, node[h].place, node[h].off).st # "deleted"

\* The node and its entry after node_write: the entry is written if the file grew.
Wrote(h, n, offset, w) ==
    LET m == [n EXCEPT !.first = w.first, !.size = IF w.done > 0 THEN Max({@, offset + w.done}) ELSE @]
    IN  /\ Changes(h, m)
        /\ disk' = IF m.size > n.size THEN SyncEntry(w.d, m) ELSE w.d

FatWrite(h, offset, len) ==
    /\ Refreshable(h)
    /\ LET n == Refreshed(node[h]) IN Wrote(h, n, offset, NodeWrite(disk, n, offset, len))

\* Everything goes: the chain, and then what the entry says.
Emptied(h, n, empty) ==
    /\ Changes(h, empty)
    /\ disk' = IF ChainEnds(disk, n.first) THEN SyncEntry(FreeChain(disk, n.first), empty) ELSE FreeChain(disk, n.first)

\* c is the last cluster that stays; what follows is freed, and c ends the
\* chain unless the end of what follows was not found.
Shortened(h, n, size, c) ==
    LET next == disk.fat[c]
        cut == IF IsEndOfChain(next) THEN disk ELSE FreeChain(disk, next)
    IN  IF IsEndOfChain(next) \/ ChainEnds(disk, next)
        THEN /\ Changes(h, [n EXCEPT !.size = size])
             /\ disk' = SyncEntry([cut EXCEPT !.fat = FatSetEntry(@, c, EndMarker)], [n EXCEPT !.size = size])
        ELSE Changes(h, n) /\ disk' = cut

Truncated(h, n, size, chain) ==
    \/ /\ size >= n.size /\ size > 0
       /\ node' = [node EXCEPT ![h] = n]
       /\ UNCHANGED disk
    \/ size = 0 /\ Emptied(h, n, [n EXCEPT !.first = 0, !.size = 0])
    \/ /\ size > 0 /\ size < n.size /\ chain # <<>>
       /\ Shortened(h, n, size, chain[Min({(size + PerCluster - 1) \div PerCluster, Len(chain)})])

FatTruncate(h, size) ==
    /\ Refreshable(h)
    /\ LET n == Refreshed(node[h]) IN Truncated(h, n, size, Chain(disk.fat, n.first))

\* cluster_at, from the cursor if that is not past index; 0 past the end.
ClusterAt(n, index) ==
    LET near == n.cursor[2] # 0 /\ n.cursor[1] <= index
        chain == Chain(disk.fat, IF near THEN n.cursor[2] ELSE n.first)
        k == index - (IF near THEN n.cursor[1] ELSE 0) + 1
    IN  IF k <= Len(chain) THEN chain[k] ELSE 0

\* fat_read of one sector, which leaves the cursor at its cluster.
FatRead(h, offset) ==
    LET c == ClusterAt(node[h], offset \div PerCluster)
    IN  /\ node[h].open /\ ~node[h].dir /\ offset < node[h].size
        /\ c # 0
        /\ node' = [node EXCEPT ![h].cursor = <<offset \div PerCluster, c>>]
        /\ UNCHANGED disk

-----------------------------------------------------------------------------
FatInit ==
    /\ \E name \in {<<>>} \cup {Alias(n, 1) : n \in {m \in Names : m.long # 0}} :
        disk = [fat |-> [c \in Cluster |-> 0], hint |-> 2,
                slots |-> [p \in {0} \cup Cluster |->
                    IF p # 0 THEN AllSlots(Junk)
                    ELSE [i \in 0 .. RootSlots - 1 |->
                            IF name = <<>> \/ i > 1 THEN End
                            ELSE IF i = 0 THEN Blank("lfn") ELSE Slot("used", name, FALSE, 0, 0)]]]
    /\ node = [h \in Handles |-> NoNode]

FatNext ==
    \/ \E p \in OpenDirs, name \in Names :
         \/ \E h \in Handles : FatWalk(h, p, name)
         \/ \E h \in Handles, dir, memory \in BOOLEAN : FatCreate(h, p, name, dir, memory)
         \/ \E dir \in BOOLEAN : FatRemove(p, name, dir)
         \/ \E to \in Names : FatRename(p, name, to)
    \/ \E h \in Handles :
         \/ FatRelease(h)
         \/ \E offset \in 0 .. MaxSize - 1 :
              FatRead(h, offset) \/ \E len \in {k \in Lengths : offset + k <= MaxSize} : FatWrite(h, offset, len)
         \/ \E size \in 0 .. MaxSize - 1 : FatTruncate(h, size)

FatSpec == FatInit /\ [][FatNext]_fatVars

-----------------------------------------------------------------------------
(* Properties                                                              *)

\* The directories of the volume: the root and what the tree leads to.
Places ==
    LET under[k \in 0 .. Clusters] ==
          IF k = 0 THEN {0}
          ELSE LET up == under[k - 1]
               IN  up \cup UNION {LET s == Slots(disk, p)
                                  IN {s[off].first : off \in {o \in Visible(s) : s[o].dir}} : p \in up}
    IN  under[Clusters]

Entries == UNION {LET s == Slots(disk, p) IN {[at |-> <<p, off>>, e |-> s[off]] : off \in Visible(s)} :
                     p \in Places}
ChainOf(x) == Chain(disk.fat, x.e.first)

\* What CHKDSK looks for: chains that end, that share nothing, that are long
\* enough for the file, and every cluster that is taken in one of them.
ChainsSound ==
    LET all == {[x |-> x, chain |-> ChainOf(x)] : x \in Entries}
    IN  /\ \A a \in all :
            /\ a.chain # <<>> => IsEndOfChain(disk.fat[Last(a.chain)])
            /\ a.x.e.size <= PerCluster * Len(a.chain)
            /\ \A b \in all : a.x.at # b.x.at => ToSet(a.chain) \cap ToSet(b.chain) = {}
        /\ \A c \in Cluster : disk.fat[c] # 0 => \E a \in all : Contains(a.chain, c)

\* A directory shows what was put into it and nothing a cluster held before,
\* no name twice, and no long name whose entry is gone.
DirectoriesSound ==
    \A p \in Places :
        LET s == Slots(disk, p)
        IN  /\ \A off \in Visible(s) : s[off].st # "junk"
            /\ \A a, b \in Visible(s) : a # b => s[a].name # s[b].name
            /\ \A off \in DOMAIN s : s[off].st = "lfn" =>
                    off + 1 \in DOMAIN s /\ s[off + 1].st \in {"lfn", "used"}

VolumeSound == ChainsSound /\ DirectoriesSound

\* A node remembers its file's first cluster and where it read last.  Unless
\* another handle has changed the file since ("another handle on the same
\* file may have changed them since this node was made"), what it remembers is
\* still so and every read stays in the clusters of its own file.
ReadsOwnFile ==
    \A h \in Handles : node[h].open /\ ~node[h].dir /\ ~node[h].stale =>
        \A index \in {offset \div PerCluster : offset \in 0 .. node[h].size - 1} :
            ClusterAt(node[h], index) =
                Chain(disk.fat, SlotAt(disk, node[h].place, node[h].off).first)[index + 1]
=============================================================================
