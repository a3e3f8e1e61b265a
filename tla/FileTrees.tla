------------------------------ MODULE FileTrees ------------------------------
(***************************************************************************)
(* File trees: open files on whatever the VFS holds, the RAM file system   *)
(* and the ISO 9660 CD.                                                    *)
(***************************************************************************)
EXTENDS Integers, Sequences, FiniteSets

-----------------------------------------------------------------------------
(***************************************************************************)
(* What vfs.c and devfs.c do on an open file or on a name: opening with    *)
(* O_CREAT and O_EXCL; reading, writing and seeking at the shared           *)
(* offset; listing a union directory by its three counters, in turn or     *)
(* from any entry; removing and renaming where a file system may not be    *)
(* able to; and a block device read and written by bytes, through its      *)
(* blocks.  Each behaviour uses one of these.                              *)
(***************************************************************************)

CONSTANTS Unions,    \* union directories: sequences of listings
          OffsetMax, \* 0x7FFFFFFF
          DevBlockSize, Blocks,
          Name,
          MaxVfsCalls

VARIABLES use,       \* "list", "file", "name" or "block"
          obj,       \* the directory listed, the file's bytes, the directory's names, the device's bytes
          opened,         \* struct file
          shadow,    \* what a reader who knows the whole of it expects next
          fits,      \* every answer so far was right
          vfs_calls

vfsVars == <<use, obj, opened, shadow, fits, vfs_calls>>

File0 == [mode |-> "rdwr", offset |-> 0, member |-> 1, index |-> 0, entry |-> 0]

VfsInit == /\ opened = File0 /\ fits = TRUE /\ vfs_calls = 0
           /\ \/ use = "list" /\ obj \in Unions /\ shadow = 0
              \/ use = "file" /\ obj = <<>> /\ shadow = 0
              \/ use = "name" /\ shadow = 0
                 /\ obj \in {o \in [names : [Name -> {"none", "file", "dir"}], can : BOOLEAN] : o.can \/ o.names[CHOOSE n \in Name : TRUE] # "none"}
              \/ use = "block" /\ obj = [p \in 0 .. (DevBlockSize * Blocks - 1) |-> 0] /\ shadow = 0

RECURSIVE Flat(_)
Flat(u) == IF u = <<>> THEN <<>> ELSE Head(u) \o Flat(Tail(u))

(* vfs_readdir: the next entry of the member being listed, or of the next  *)
(* member that has one.                                                    *)
RECURSIVE Readdir(_)
Readdir(g) ==
  IF g.member > Len(obj) THEN [f |-> g, out |-> <<>>]
  ELSE IF g.index < Len(obj[g.member])
  THEN [f |-> [g EXCEPT !.index = @ + 1, !.entry = @ + 1], out |-> <<obj[g.member][g.index + 1]>>]
  ELSE Readdir([g EXCEPT !.member = @ + 1, !.index = 0])

(* vfs_readdir_at: back to the start if the entry is behind; then forward. *)
RECURSIVE Forward(_, _)
Forward(g, entry) ==
  IF g.entry >= entry THEN Readdir(g)
  ELSE LET r == Readdir(g) IN IF r.out = <<>> THEN r ELSE Forward(r.f, entry)

ReaddirAtNoRewind(g, entry) == Forward(g, entry)

ReaddirAt(g, entry) == Forward(IF entry < g.entry THEN [g EXCEPT !.member = 1, !.index = 0, !.entry = 0] ELSE g, entry)

Expected(n) == IF n < Len(Flat(obj)) THEN <<Flat(obj)[n + 1]>> ELSE <<>>
After(r, n) == IF r.out = <<>> THEN Len(Flat(obj)) ELSE n + 1

Step == vfs_calls < MaxVfsCalls /\ vfs_calls' = vfs_calls + 1

List == /\ use = "list" /\ Step
        /\ LET r == Readdir(opened) IN opened' = r.f /\ fits' = (fits /\ r.out = Expected(shadow)) /\ shadow' = After(r, shadow)
        /\ UNCHANGED <<use, obj>>

ListAt(n) == /\ use = "list" /\ Step
             /\ LET r == ReaddirAt(opened, n) IN opened' = r.f /\ fits' = (fits /\ r.out = Expected(n)) /\ shadow' = After(r, n)
             /\ UNCHANGED <<use, obj>>

(* vfs_seek on a directory: only back to its start.                        *)
Rewind == /\ use = "list" /\ Step /\ shadow' = 0
          /\ opened' = [opened EXCEPT !.member = 1, !.index = 0, !.entry = 0] /\ UNCHANGED <<use, obj, fits>>

(* vfs_seek on anything else: the target is kept within 31 bits.           *)
Seek(whence, offset) ==
  LET base == IF whence = "set" THEN 0 ELSE IF whence = "cur" THEN opened.offset ELSE Len(obj)
      target == base + offset
  IN /\ use = "file" /\ Step
     /\ IF target < 0 \/ target > OffsetMax THEN UNCHANGED <<opened, shadow>>
        ELSE opened' = [opened EXCEPT !.offset = target] /\ shadow' = target
     /\ UNCHANGED <<use, obj, fits>>

(* vfs_read, vfs_pread, vfs_write and vfs_pwrite on a file that keeps      *)
(* zeros in gaps; only the plain ones move the offset.                     *)
ReadFile(at, len, moves) ==
  LET n == IF at >= Len(obj) THEN 0 ELSE IF len < Len(obj) - at THEN len ELSE Len(obj) - at
  IN /\ use = "file" /\ Step /\ at = (IF moves THEN opened.offset ELSE at)
     /\ opened' = IF moves THEN [opened EXCEPT !.offset = @ + n] ELSE opened
     /\ shadow' = (IF moves THEN shadow + n ELSE shadow) /\ UNCHANGED <<use, obj, fits>>

WriteFile(at, len, moves) ==
  LET end == at + len
      size == IF end > Len(obj) THEN end ELSE Len(obj)
  IN /\ use = "file" /\ Step /\ at = (IF moves THEN opened.offset ELSE at) /\ end <= OffsetMax
     /\ obj' = [p \in 1 .. size |-> IF p > at /\ p <= end THEN 1 ELSE IF p <= Len(obj) THEN obj[p] ELSE 0]
     /\ opened' = IF moves THEN [opened EXCEPT !.offset = @ + len] ELSE opened
     /\ shadow' = (IF moves THEN shadow + len ELSE shadow) /\ UNCHANGED <<use, fits>>

(* vfs_open on a name: created if it is not there and may be; O_EXCL       *)
(* refuses what was there, a directory is never written, and a read-only   *)
(* file system says so to a writer (O_TRUNC, here, like one).              *)
OpenRc(kind, write, creat, excl) ==
  IF kind = "none" /\ ~creat THEN "ENOENT"
  ELSE IF kind = "none" THEN (IF obj.can THEN "ok" ELSE "EROFS")
  ELSE IF creat /\ excl THEN "EEXIST"
  ELSE IF write /\ kind = "dir" THEN "EISDIR"
  ELSE IF write /\ ~obj.can THEN "EROFS" ELSE "ok"

Open(name, write, creat, excl) ==
  LET kind == obj.names[name]  rc == OpenRc(kind, write, creat, excl)
  IN /\ use = "name" /\ Step
     /\ obj' = IF rc = "ok" /\ kind = "none" THEN [obj EXCEPT !.names[name] = "file"] ELSE obj
     /\ fits' = (fits /\ (rc = "ok" => obj'.names[name] # "none")
                      /\ (rc = "EEXIST" => kind # "none") /\ (rc = "ENOENT" => kind = "none"))
     /\ UNCHANGED <<use, opened, shadow>>

(* vfs_remove, exists_for: without a remove operation, ENOENT comes before *)
(* EROFS.                                                                  *)
Remove(name, expect) ==
  LET kind == obj.names[name]
      rc == IF kind = "none" THEN "ENOENT" ELSE IF ~obj.can THEN "EROFS"
            ELSE IF kind # expect THEN "wrong" ELSE "ok"
  IN /\ use = "name" /\ Step
     /\ obj' = IF rc = "ok" THEN [obj EXCEPT !.names[name] = "none"] ELSE obj
     /\ fits' = (fits /\ ((rc = "ENOENT") = (kind = "none")))
     /\ UNCHANGED <<use, opened, shadow>>

(* vfs_rename, within one directory.                                       *)
Rename(from, to) ==
  /\ use = "name" /\ Step
  /\ obj' = IF obj.can /\ obj.names[from] # "none" /\ obj.names[to] = "none"
            THEN [obj EXCEPT !.names[to] = obj.names[from], !.names[from] = "none"] ELSE obj
  /\ UNCHANGED <<use, opened, shadow, fits>>

Size == DevBlockSize * Blocks
Least(a, b) == IF a < b THEN a ELSE b

(* read_block_bytes, write_block_bytes: byte ranges clipped to the device. *)
(* A write goes block by block, whole ones straight from the caller's      *)
(* buffer, partial ones read, changed and written back; the first block    *)
(* the device refuses (bad) ends it, with what was done before.            *)
RECURSIVE WriteBytes(_, _, _, _, _)
WriteBytes(dev, pos, end, v, bad) ==
  IF pos >= end THEN [dev |-> dev, done |-> pos]
  ELSE LET within == pos % DevBlockSize  lba == pos \div DevBlockSize
           whole == within = 0 /\ end - pos >= DevBlockSize
           blocks == IF whole THEN (end - pos) \div DevBlockSize ELSE 1
           chunk == IF whole THEN blocks * DevBlockSize ELSE Least(DevBlockSize - within, end - pos)
       IN IF bad \in lba .. (lba + blocks - 1) THEN [dev |-> dev, done |-> pos]
          ELSE WriteBytes([p \in DOMAIN dev |-> IF p >= pos /\ p < pos + chunk THEN v ELSE dev[p]],
                          pos + chunk, end, v, bad)

WriteBlocks(offset, len, bad) ==
  /\ use = "block" /\ Step
  /\ LET end == IF offset >= Size THEN offset ELSE offset + Least(len, Size - offset)
         r == WriteBytes(obj, offset, end, vfs_calls + 1, bad)
     IN /\ obj' = r.dev
        /\ fits' = (fits /\ r.done <= end
                    /\ (\A p \in DOMAIN obj : r.dev[p] = IF p >= offset /\ p < r.done THEN vfs_calls + 1 ELSE obj[p])
                    /\ (bad >= Blocks => r.done = end))
  /\ UNCHANGED <<use, opened, shadow>>

(* read_block_bytes: block by block through a bounce buffer.               *)
RECURSIVE ReadBytes(_, _, _, _)
ReadBytes(buf, pos, end, bad) ==
  IF pos >= end \/ pos \div DevBlockSize = bad THEN buf
  ELSE LET chunk == Least(DevBlockSize - (pos % DevBlockSize), end - pos)
       IN ReadBytes(buf \o [i \in 1 .. chunk |-> obj[(pos + i) - 1]], pos + chunk, end, bad)

ReadBlocks(offset, len, bad) ==
  /\ use = "block" /\ Step
  /\ LET end == IF offset >= Size THEN offset ELSE offset + Least(len, Size - offset)
         got == ReadBytes(<<>>, offset, end, bad)
     IN fits' = (fits /\ (\A i \in 1 .. Len(got) : got[i] = obj[(offset + i) - 1])
                 /\ (bad >= Blocks => Len(got) = end - offset))
  /\ UNCHANGED <<use, obj, opened, shadow>>

VfsNext ==
     \/ List \/ (\E n \in 0 .. 4 : ListAt(n)) \/ Rewind
     \/ \E w \in {"set", "cur", "end"}, o \in -2 .. 2 : Seek(w, o)
     \/ \E at \in 0 .. OffsetMax, len \in 1 .. 2, moves \in BOOLEAN : ReadFile(at, len, moves) \/ WriteFile(at, len, moves)
     \/ \E n \in Name, w, c, e \in BOOLEAN : Open(n, w, c, e)
     \/ \E n \in Name, k \in {"file", "dir"} : Remove(n, k)
     \/ \E n, m \in Name : Rename(n, m)
     \/ \E o \in 0 .. Size, l \in 0 .. Size, bad \in 0 .. Blocks :
          WriteBlocks(o, l, bad) \/ ReadBlocks(o, l, bad)

VfsSpec == VfsInit /\ [][VfsNext]_vfsVars

(***************************************************************************)
(* A listing, taken in turn, rewound, or asked for by number in any order, *)
(* gives every entry of the union once, in the members' order; the offset  *)
(* is where the reads, writes and seeks that succeeded put it, never       *)
(* beyond 31 bits; an open, removal or renaming answers by what is there;  *)
(* and a write of bytes changes exactly the bytes it says it wrote, up to  *)
(* the block that failed, of partial blocks too.                           *)
(***************************************************************************)
FilesTrue ==
  /\ fits /\ (use = "file" => opened.offset = shadow /\ opened.offset \in 0 .. OffsetMax)
  /\ use = "list" => opened.entry = (LET S[m \in 0 .. Len(obj)] == IF m = 0 THEN 0 ELSE S[m - 1] + Len(obj[m])
                                     IN IF opened.member > Len(obj) THEN S[Len(obj)] ELSE S[opened.member - 1] + opened.index)

-----------------------------------------------------------------------------
(***************************************************************************)
(* ramfs.c and bootfs.c: trees in memory.  The boot archive is unpacked    *)
(* into one: directories are made as paths need them, a file's data stays  *)
(* where the archive has it.  One file of the kernel's root can be written *)
(* (the text page that DOS programs share): a write or a truncation makes  *)
(* a new buffer, fills it from the old one and changes over, freeing the   *)
(* old one.  Nothing is locked and the kernel is preemptible; Together     *)
(* says whether calls on that file overlap.                                *)
(***************************************************************************)

CONSTANTS Archive,  \* the archives: sequences of [path, type, data]
          RamThread, Together,
          Buf,      \* heap blocks
          MaxSize, MaxCalls

VARIABLES tree,     \* its nodes in the order they were made: [path, type, data]
          rest,     \* entries of the archive still to come
          unpacked,     \* those unpacked
          ram_file,     \* the writable file: [size, buf], buf a set of at most one
          heap,     \* Buf -> <<>> (free) or <<bytes>>
          ram_call,     \* what a thread is doing
          ram_want,     \* the bytes the calls that returned have left
          torn,     \* a thread read or freed a block that was free
          calls

ramVars == <<tree, rest, unpacked, ram_file, heap, ram_call, ram_want, torn, calls>>

NoCall == [op |-> "idle"]

RamInit == /\ tree = <<>> /\ rest \in Archive /\ unpacked = <<>>
           /\ ram_file = [size |-> 0, buf |-> {}] /\ heap = [b \in Buf |-> <<>>]
           /\ ram_call = [t \in RamThread |-> NoCall] /\ ram_want = <<>> /\ torn = FALSE /\ calls = 0

Index(nodes, path) == {k \in 1 .. Len(nodes) : nodes[k].path = path}
TypeAt(nodes, path) == IF path = <<>> THEN "dir" ELSE nodes[CHOOSE k \in Index(nodes, path) : TRUE].type
Children(nodes, path) == {k \in 1 .. Len(nodes) : Len(nodes[k].path) = Len(path) + 1
                                                   /\ SubSeq(nodes[k].path, 1, Len(path)) = path}

(* make_path: each directory on the way is made if it is missing; a file   *)
(* on the way ends it.                                                     *)
MakePath(nodes, path) ==
  LET M[n \in 0 .. Len(path)] ==
        IF n = 0 THEN [nodes |-> nodes, ok |-> TRUE]
        ELSE LET m == M[n - 1]  p == SubSeq(path, 1, n)
             IN IF ~m.ok \/ TypeAt(m.nodes, SubSeq(path, 1, n - 1)) # "dir" THEN [m EXCEPT !.ok = FALSE]
                ELSE IF Index(m.nodes, p) # {} THEN m
                ELSE [m EXCEPT !.nodes = Append(@, [path |-> p, type |-> "dir", data |-> <<>>])]
  IN M[Len(path)]

AddFileAnyway(nodes, path, data) ==
  LET m == MakePath(nodes, path)
  IN IF ~m.ok \/ path = <<>> THEN m.nodes
     ELSE [m.nodes EXCEPT ![CHOOSE k \in Index(m.nodes, path) : TRUE] = [@ EXCEPT !.type = "file", !.data = data]]

(* ramfs_add_file: refused on a directory with something in it.            *)
AddFile(nodes, path, data) ==
  LET m == MakePath(nodes, path)
  IN IF ~m.ok \/ path = <<>> \/ Children(m.nodes, path) # {} THEN m.nodes
     ELSE [m.nodes EXCEPT ![CHOOSE k \in Index(m.nodes, path) : TRUE] = [@ EXCEPT !.type = "file", !.data = data]]

(* bootfs_create: the next entry of the archive; a malformed header, or    *)
(* data past its end, destroys the tree.                                   *)
Unpack ==
  /\ rest # <<>>
  /\ LET e == Head(rest)
     IN IF e.type = "malformed" THEN tree' = <<>> /\ rest' = <<>> /\ unpacked' = <<>>
        ELSE /\ tree' = (IF e.type = "file" THEN AddFile(tree, e.path, e.data)
                         ELSE IF e.type = "dir" THEN MakePath(tree, e.path).nodes ELSE tree)
             /\ rest' = Tail(rest) /\ unpacked' = Append(unpacked, e)
  /\ UNCHANGED <<ram_file, heap, ram_call, ram_want, torn, calls>>

(* The byte at p after a write of v's at offset, over the bytes in old.    *)
Over(old, size, offset, v, len) ==
  [p \in 1 .. size |-> IF p > offset /\ p <= offset + len THEN v ELSE IF p <= Len(old) THEN old[p] ELSE 0]

Written(old, c) == LET end == c.offset + c.len
                   IN Over(old, IF end > Len(old) THEN end ELSE Len(old), c.offset, c.v, c.len)
Truncated(old, size) == Over(old, size, 0, 0, 0)

Bytes == IF ram_file.buf = {} THEN <<>> ELSE LET b == CHOOSE b \in ram_file.buf : TRUE
                                              IN IF heap[b] = <<>> THEN <<>> ELSE heap[b][1]
Dangling == ram_file.buf # {} /\ heap[CHOOSE b \in ram_file.buf : TRUE] = <<>>

(* ram_write, ram_truncate begin: the new block is allocated and filled.   *)
(* (The file is in another tree than the archive: a behaviour uses one.)   *)
Start(t, c, new) ==
  /\ rest = <<>> /\ unpacked = <<>> /\ ram_call[t] = NoCall /\ calls < MaxCalls /\ calls' = calls + 1
  /\ Together \/ \A u \in RamThread : ram_call[u] = NoCall
  /\ torn' = (torn \/ Dangling)
  /\ \/ /\ Len(new) > 0
        /\ \E b \in Buf : /\ heap[b] = <<>>
                          /\ heap' = [heap EXCEPT ![b] = <<new>>]
                          /\ ram_call' = [ram_call EXCEPT ![t] = [op |-> "free", c |-> c, buf |-> {b}, size |-> Len(new)]]
     \/ /\ Len(new) = 0 /\ UNCHANGED heap
        /\ ram_call' = [ram_call EXCEPT ![t] = [op |-> "free", c |-> c, buf |-> {}, size |-> 0]]
  /\ UNCHANGED <<tree, rest, unpacked, ram_file, ram_want>>

Write(t, offset, len) ==
  LET c == [op |-> "write", offset |-> offset, len |-> len, v |-> t]
      old == Truncated(Bytes, ram_file.size)
  IN offset + len <= MaxSize /\ len > 0 /\ Start(t, c, Written(old, c))

Truncate(t, size) ==
  /\ size # ram_file.size /\ size <= MaxSize
  /\ Start(t, [op |-> "truncate", size |-> size], Truncated(Bytes, size))

(* The old block is freed...                                               *)
FreeOld(t) ==
  /\ ram_call[t].op = "free"
  /\ torn' = (torn \/ Dangling)
  /\ heap' = [b \in Buf |-> IF b \in ram_file.buf THEN <<>> ELSE heap[b]]
  /\ ram_call' = [ram_call EXCEPT ![t].op = "publish"]
  /\ UNCHANGED <<tree, rest, unpacked, ram_file, ram_want, calls>>

(* ...and the new one takes its place.                                     *)
Publish(t) ==
  /\ ram_call[t].op = "publish"
  /\ ram_file' = [size |-> ram_call[t].size, buf |-> ram_call[t].buf]
  /\ ram_want' = LET c == ram_call[t].c IN IF c.op = "write" THEN Written(ram_want, c) ELSE Truncated(ram_want, c.size)
  /\ ram_call' = [ram_call EXCEPT ![t] = NoCall]
  /\ UNCHANGED <<tree, rest, unpacked, heap, torn, calls>>

RamNext == \/ Unpack
           \/ \E t \in RamThread : \/ \E o \in 0 .. MaxSize, l \in 1 .. MaxSize : Write(t, o, l)
                                   \/ (\E s \in 0 .. MaxSize : Truncate(t, s))
                                   \/ FreeOld(t) \/ Publish(t)

RamSpec == RamInit /\ [][RamNext]_ramVars

(***************************************************************************)
(* The tree is one: every node's directory is there, is a directory, and   *)
(* has no second node of the name, so a walk finds what a listing shows;   *)
(* a file is exactly what the last entry of its path brought.  The         *)
(* writable file's bytes are those its writes and truncations left, gaps   *)
(* as zeros, and only its own block is allocated.                          *)
(***************************************************************************)
TreeTrue ==
  /\ \A k \in 1 .. Len(tree) :
       /\ Index(tree, tree[k].path) = {k}
       /\ LET up == SubSeq(tree[k].path, 1, Len(tree[k].path) - 1)
          IN up # <<>> => Index(tree, up) # {} /\ TypeAt(tree, up) = "dir"
       /\ tree[k].type = "file" => \E j \in 1 .. Len(unpacked) : unpacked[j].path = tree[k].path /\ unpacked[j].data = tree[k].data
  /\ ~Together /\ (\A t \in RamThread : ram_call[t] = NoCall) =>
       ~torn /\ Bytes = ram_want /\ Cardinality({b \in Buf : heap[b] # <<>>}) = Cardinality(ram_file.buf)

(***************************************************************************)
(* ramfs.h on the writable file: "Writes are kept in RAM."  What a write   *)
(* that has returned wrote is in the file when nobody is changing it.      *)
(***************************************************************************)
WritesKept == (\A t \in RamThread : ram_call[t] = NoCall) => Bytes = ram_want

-----------------------------------------------------------------------------
(***************************************************************************)
(* iso9660.c on a drive whose disc may be taken out or changed at any      *)
(* time.  The mounted root is a removable one: every walk through it first *)
(* takes up the disc that is in now.  A file system object is counted (by  *)
(* the root, by nodes, by the calls using it) and knows how often the      *)
(* drive had changed discs when it was opened; a file stays with it, and   *)
(* fails to read once the disc has gone.                                   *)
(***************************************************************************)

CONSTANTS Disc, NoDisc,
          Volume(_),  \* disc -> [names, root: a record, dirs: extent -> sequence of records per block]
          Thread, Fs, NoFs,
          BlockSize,  \* bytes in a block
          Wants,      \* names looked up
          MaxChanges

VARIABLES inside, attention, \* the drive: its disc, and whether it still has to say it changed
          changes,           \* media_changes
          fss,               \* file systems: [refs, changes, names, root, cache, disc]
          root,              \* the removable root: [fs, at]
          lock,              \* follow_lock
          call,              \* a thread in iso_walk
          file,              \* the file a thread found: <<>> or <<[fs, at, disc]>>
          ok

isoVars == <<inside, attention, changes, fss, root, lock, call, file, ok>>

Idle == [pc |-> "idle"]
Free == [refs |-> 0]

IsoInit == /\ inside \in Disc \cup {NoDisc} /\ attention = FALSE /\ changes = 0
           /\ fss = [f \in Fs |-> Free] /\ root = [fs |-> NoFs, at |-> <<>>] /\ lock = {}
           /\ call = [t \in Thread |-> Idle] /\ file = [t \in Thread |-> <<>>] /\ ok = TRUE

(* The drive: a disc goes in or out; the next command, whatever it is, is  *)
(* answered with the news, and counted (atapi.c, Storage).  External.      *)
Swap(d) == /\ changes < MaxChanges /\ d # inside /\ inside' = d /\ attention' = TRUE
           /\ UNCHANGED <<changes, fss, root, lock, call, file, ok>>

Told == /\ attention' = FALSE /\ changes' = IF attention THEN changes + 1 ELSE changes
        /\ UNCHANGED inside

FsPut(table, f) == [table EXCEPT ![f] = IF @.refs = 1 THEN Free ELSE [@ EXCEPT !.refs = @ - 1]]
FsGet(table, f) == [table EXCEPT ![f].refs = @ + 1]

StaleNever(f) == FALSE

(* stale: a disc taken out or changed since the mount.                     *)
Stale(f) == fss[f].changes # changes

(* read_block and iso_read's straight path: refused if stale; from the     *)
(* cache; else from the drive, which may have news.  "got" is what is read.*)
ReadBlock(f, lba, cached) ==
  IF Stale(f) THEN [rc |-> "fail", asks |-> FALSE]
  ELSE IF cached /\ fss[f].cache # <<>> /\ fss[f].cache[1].lba = lba
  THEN [rc |-> "ok", asks |-> FALSE, got |-> fss[f].cache[1]]
  ELSE IF attention \/ inside = NoDisc THEN [rc |-> "fail", asks |-> TRUE]
  ELSE [rc |-> "ok", asks |-> TRUE, got |-> [lba |-> lba, disc |-> inside]]

Cached(table, f, r) == [table EXCEPT ![f].cache = IF r.rc = "ok" THEN <<r.got>> ELSE IF r.asks THEN <<>> ELSE @]
Asked(r) == IF r.asks THEN Told ELSE UNCHANGED <<inside, attention, changes>>

(* iso_walk through the removable root: directory and follow_disc, with    *)
(* follow_lock: the drive is asked, an old disc's file system let go.      *)
Walk(t, want) ==
  /\ call[t] = Idle /\ lock = {} /\ lock' = {t} /\ file[t] = <<>>
  /\ Told
  /\ IF root.fs # NoFs /\ fss[root.fs].changes # changes'
     THEN fss' = FsPut(fss, root.fs) /\ root' = [root EXCEPT !.fs = NoFs]
     ELSE UNCHANGED <<fss, root>>
  /\ call' = [call EXCEPT ![t] = [pc |-> IF root'.fs # NoFs \/ inside = NoDisc THEN "directory" ELSE "open",
                                  want |-> want]]
  /\ UNCHANGED <<file, ok>>

(* open_fs: the count is noted, then the volume descriptors are read...    *)
OpenFs(t, f) ==
  /\ call[t].pc = "open" /\ fss[f] = Free /\ \A g \in Fs : g < f => fss[g] # Free
  /\ IF attention \/ inside = NoDisc
     THEN call' = [call EXCEPT ![t].pc = "directory"] /\ UNCHANGED fss
     ELSE /\ call' = [call EXCEPT ![t] = [pc |-> "names", want |-> @.want, fs |-> f]]
          /\ fss' = [fss EXCEPT ![f] = [refs |-> 1, changes |-> changes, cache |-> <<>>, names |-> "plain",
                                        root |-> Volume(inside).root, disc |-> inside]]
  /\ Told /\ UNCHANGED <<root, lock, file, ok>>

(* ...and the root's block, for Rock Ridge; else the Joliet tree if there  *)
(* is one.  (A disc that changed just now leaves a file system that is     *)
(* stale from the start.)                                                  *)
Names(t) ==
  LET f == call[t].fs  r == ReadBlock(f, fss[f].root.extent, TRUE)  v == Volume(fss[f].disc)
  IN /\ call[t].pc = "names"
     /\ Asked(r)
     /\ LET names == IF v.names = "rock" /\ r.rc = "fail" THEN "plain" ELSE v.names
        IN fss' = Cached([fss EXCEPT ![f].names = names], f, r)
     /\ root' = [fs |-> f, at |-> fss[f].root]
     /\ call' = [call EXCEPT ![t] = [pc |-> "directory", want |-> @.want]]
     /\ UNCHANGED <<lock, file, ok>>

(* directory: a reference for this call; no disc, no entry.                *)
Directory(t) ==
  /\ call[t].pc = "directory" /\ lock' = {}
  /\ IF root.fs = NoFs THEN call' = [call EXCEPT ![t] = Idle] /\ UNCHANGED fss
     ELSE /\ call' = [call EXCEPT ![t] = [pc |-> "look", want |-> @.want, fs |-> root.fs, at |-> root.at, block |-> 0]]
          /\ fss' = FsGet(fss, root.fs)
  /\ UNCHANGED <<inside, attention, changes, root, file, ok>>

(* decode: the name shown, "" for a record that is not: ".", "..",         *)
(* associated files, directories Rock Ridge moved, nameless ones.          *)
Decode(names, r) ==
  IF r.kind \in {"dot", "associated"} \/ (names = "rock" /\ r.kind = "moved") THEN ""
  ELSE IF names = "rock" /\ r.rock # "" THEN r.rock
  ELSE IF names = "joliet" THEN r.joliet ELSE r.plain

Match(f, records, want) ==
  LET hits == {k \in 1 .. Len(records) : Decode(fss[f].names, records[k]) = want}
  IN IF hits = {} THEN <<>> ELSE <<records[CHOOSE k \in hits : \A j \in hits : k <= j]>>

(* for_each_record, match, with the file system's lock: a block of the     *)
(* directory; a record found becomes a node with its own reference.        *)
Look(t) ==
  LET c == call[t]  f == c.fs
      r == ReadBlock(f, c.at.extent + c.block, TRUE)
      dirs == IF r.rc = "ok" THEN Volume(r.got.disc).dirs ELSE <<>>
      records == IF r.rc = "ok" /\ r.got.lba \in DOMAIN dirs THEN dirs[r.got.lba] ELSE <<>>
      hit == Match(f, records, c.want)
      done == r.rc = "fail" \/ hit # <<>> \/ (c.block + 1) * BlockSize >= c.at.bytes
  IN /\ c.pc = "look" /\ Asked(r)
     /\ ok' = (ok /\ (r.rc = "ok" => r.got.disc = fss[f].disc))
     /\ IF done
        THEN /\ call' = [call EXCEPT ![t] = Idle]
             /\ IF hit # <<>> /\ hit[1].kind = "file"
                THEN /\ file' = [file EXCEPT ![t] = <<[fs |-> f, at |-> hit[1]]>>]
                     /\ fss' = Cached(fss, f, r)   \* new_node's reference, and this call's dropped
                ELSE /\ fss' = FsPut(Cached(fss, f, r), f) /\ UNCHANGED file
        ELSE /\ call' = [call EXCEPT ![t].block = @ + 1] /\ fss' = Cached(fss, f, r) /\ UNCHANGED file
     /\ UNCHANGED <<root, lock>>

(* iso_read: len bytes from offset, block by block: whole blocks straight  *)
(* from the drive, the rest through the cache.                             *)
Read(t, offset, len) ==
  LET n == file[t][1]
      want == IF len < n.at.bytes - offset THEN len ELSE n.at.bytes - offset
  IN /\ call[t] = Idle /\ file[t] # <<>> /\ offset < n.at.bytes
     /\ call' = [call EXCEPT ![t] = [pc |-> "read", pos |-> offset, left |-> want, start |-> offset]]
     /\ UNCHANGED <<inside, attention, changes, fss, root, lock, file, ok>>

ReadStep(t) ==
  LET c == call[t]  n == file[t][1]  f == n.fs
      within == c.pos % BlockSize
      whole == within = 0 /\ c.left >= BlockSize
      lba == n.at.extent + (c.pos \div BlockSize)
      r == ReadBlock(f, lba, ~whole)
      blocks == IF whole THEN c.left \div BlockSize ELSE 0
      chunk == IF whole THEN blocks * BlockSize
               ELSE IF BlockSize - within < c.left THEN BlockSize - within ELSE c.left
  IN /\ c.pc = "read" /\ Asked(r)
     /\ fss' = IF whole THEN fss ELSE Cached(fss, f, r)
     /\ ok' = (ok /\ (r.rc = "ok" => r.got = [lba |-> lba, disc |-> fss[f].disc]))
     /\ call' = [call EXCEPT ![t] = IF r.rc = "fail" \/ c.left = chunk THEN Idle
                                    ELSE [@ EXCEPT !.pos = @ + chunk, !.left = @ - chunk]]
     /\ UNCHANGED <<root, lock, file>>

(* iso_release.                                                            *)
Release(t) == /\ call[t] = Idle /\ file[t] # <<>> /\ fss' = FsPut(fss, file[t][1].fs)
              /\ file' = [file EXCEPT ![t] = <<>>]
              /\ UNCHANGED <<inside, attention, changes, root, lock, call, ok>>

IsoNext == \/ \E d \in Disc \cup {NoDisc} : Swap(d)
           \/ \E t \in Thread : \/ \E want \in Wants : Walk(t, want)
                                \/ (\E f \in Fs : OpenFs(t, f)) \/ Names(t) \/ Directory(t) \/ Look(t)
                                \/ (\E o \in 0 .. 1 : Read(t, o, 2 * BlockSize))
                                \/ ReadStep(t) \/ Release(t)

IsoSpec == IsoInit /\ [][IsoNext]_isoVars

Count(t, f) == (IF "fs" \in DOMAIN call[t] /\ call[t].pc = "look" /\ call[t].fs = f THEN 1 ELSE 0)
               + (IF file[t] # <<>> /\ file[t][1].fs = f THEN 1 ELSE 0)

(***************************************************************************)
(* Whatever disc is in: bytes and directory records come from the disc the *)
(* file system was opened on, cached ones too, never from another put in   *)
(* since; a file was found where that disc has a file of that name; and a  *)
(* file system is freed exactly when the last of the root, the nodes and   *)
(* the calls that use it lets go.                                          *)
(***************************************************************************)
DiscTrue ==
  /\ ok
  /\ \A t \in Thread : file[t] # <<>> =>
       LET n == file[t][1]  dirs == Volume(fss[n.fs].disc).dirs
       IN \E b \in DOMAIN dirs : \E k \in 1 .. Len(dirs[b]) : dirs[b][k] = n.at
  /\ \A f \in Fs :
       LET opening == {t \in Thread : call[t].pc = "names" /\ call[t].fs = f}
           Sum[S \in SUBSET Thread] == IF S = {} THEN 0 ELSE LET t == CHOOSE t \in S : TRUE IN Count(t, f) + Sum[S \ {t}]
       IN fss[f].refs = (IF root.fs = f THEN 1 ELSE 0) + Cardinality(opening) + Sum[Thread]
  /\ \A f \in Fs : fss[f] # Free /\ fss[f].cache # <<>> => fss[f].cache[1].disc = fss[f].disc
=============================================================================
