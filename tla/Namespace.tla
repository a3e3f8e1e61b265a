------------------------------ MODULE Namespace ------------------------------
(* Namespaces and open files (zkt/fs/namespace.c, zkt/fs/vfs.c): threads that *)
(* share mount tables resolve paths, open, duplicate and close files, bind,   *)
(* unbind, fork their namespace and let go of it.  A location is a sequence   *)
(* of vnodes, the members of a union.  References are counted one vnode at a  *)
(* time; the mount table is locked while it is read or changed, and never     *)
(* across a walk or a release.                                                *)
EXTENDS Integers, SequencesExt, FiniteSetsExt

CONSTANTS Threads, Spaces,    \* Spaces: the namespaces there can be
          First,              \* the namespace everybody starts in
          Vnodes, Root,
          Dirs,               \* the vnodes that are directories
          Child,              \* Child[<<dir, name>>]: what a walk finds there
          Paths,              \* the paths used, cleaned: sequences of names
          Boot,               \* the mounts of the first namespace, made by fs_init
          VFS_UNION_MAX, MaxFileRefs,
          MaxCalls            \* bound: how many operations are started

VARIABLES refs,      \* struct vnode: references
          nsrefs,    \* struct namespace: references; 0: not there
          mounts,    \* its mount table: [path, loc] in the order of the list
          lock,      \* its lock: the owner or None
          th,        \* what every thread is doing
          calls      \* how many operations were started

Absent == "none"
namespaceVars == <<refs, nsrefs, mounts, lock, th, calls>>

\* A thread: where it is, its namespace (None once it has exited) and the new
\* one it makes; the path it resolves, how much of it, where it has come and how
\* many members of that it has references to; what it must let go of, one vnode
\* after the other; the operation with its arguments; its open file.
Idle(ns, file, fdrefs) ==
    [pc |-> "idle", ns |-> ns, new |-> Absent, path |-> <<>>, done |-> 0, loc |-> <<>>, counted |-> 0,
     old |-> <<>>, drop |-> <<>>, op |-> "none", onto |-> <<>>, flag |-> "none", from |-> <<>>,
     file |-> file, fdrefs |-> fdrefs]

Count(seq, v) == Cardinality({i \in DOMAIN seq : seq[i] = v})
TableVnodes(table) == FlattenSeq([i \in DOMAIN table |-> table[i].loc])

NamespaceInit == /\ refs = [v \in Vnodes |-> Count(<<Root>> \o TableVnodes(Boot), v)]
                 /\ nsrefs = [n \in Spaces |-> IF n = First THEN Cardinality(Threads) ELSE 0]
                 /\ mounts = [n \in Spaces |-> IF n = First THEN Boot ELSE <<>>]
                 /\ lock = [n \in Spaces |-> Absent]
                 /\ th = [t \in Threads |-> Idle(First, <<>>, 0)]
                 /\ calls = 0

Set(t, r) == th' = [th EXCEPT ![t] = r]
At(t, label) == th[t].pc = label /\ th[t].drop = <<>>
RefAll(seq) == refs' = [v \in Vnodes |-> refs[v] + Count(seq, v)]

\* A thread in a namespace calls one of the operations.
Calls(t) == /\ At(t, "idle") /\ th[t].ns # Absent /\ calls < MaxCalls
            /\ calls' = calls + 1

\* Goes back to the caller, with these vnodes still to be let go of.
Finish(t, drop) == Set(t, [Idle(th[t].ns, th[t].file, th[t].fdrefs) EXCEPT !.drop = drop])

-----------------------------------------------------------------------------
(* vnode_unref, one vnode of the location that is released. *)

Unref(t) ==
    /\ th[t].drop # <<>>
    /\ refs' = [refs EXCEPT ![Head(th[t].drop)] = @ - 1]
    /\ Set(t, [th[t] EXCEPT !.drop = Tail(@)])
    /\ UNCHANGED <<nsrefs, mounts, lock>>

-----------------------------------------------------------------------------
(* ns_resolve and apply_mount. *)

\* From the root of the namespace, with nothing walked yet.
Resolve(t, r, path) ==
    /\ refs' = [refs EXCEPT ![Root] = @ + 1]
    /\ Set(t, [r EXCEPT !.pc = "mount", !.path = path, !.done = 0, !.loc = <<Root>>, !.counted = 1])
    /\ UNCHANGED <<nsrefs, mounts, lock>>

MountAt(ns, path) == SelectInSeq(mounts[ns], LAMBDA m : m.path = path)

ApplyLock(t) ==
    /\ At(t, "mount") /\ lock[th[t].ns] = Absent
    /\ lock' = [lock EXCEPT ![th[t].ns] = t]
    /\ Set(t, [th[t] EXCEPT !.pc = "copy"])
    /\ UNCHANGED <<refs, nsrefs, mounts>>

\* location_copy: the vnodes first, then a reference to each.
ApplyCopy(t) ==
    LET i == MountAt(th[t].ns, SubSeq(th[t].path, 1, th[t].done))
    IN /\ At(t, "copy")
       /\ Set(t, IF i = 0 THEN [th[t] EXCEPT !.pc = "unlock"]
                 ELSE [th[t] EXCEPT !.pc = "ref", !.old = th[t].loc, !.loc = mounts[th[t].ns][i].loc, !.counted = 0])
       /\ UNCHANGED <<refs, nsrefs, mounts, lock>>

ApplyRef(t) ==
    /\ At(t, "ref")
    /\ refs' = [refs EXCEPT ![th[t].loc[th[t].counted + 1]] = @ + 1]
    /\ Set(t, [th[t] EXCEPT !.counted = @ + 1,
                            !.pc = IF th[t].counted + 1 = Len(th[t].loc) THEN "unlock" ELSE "ref"])
    /\ UNCHANGED <<nsrefs, mounts, lock>>

ApplyUnlock(t) ==
    /\ At(t, "unlock") /\ lock' = [lock EXCEPT ![th[t].ns] = Absent]
    /\ Set(t, [th[t] EXCEPT !.pc = "walk", !.drop = th[t].old, !.old = <<>>])
    /\ UNCHANGED <<refs, nsrefs, mounts>>

\* walk_location: the first member that has the name; then what was walked
\* from is released, and when there is no such name, that is the end.
Walk(t) ==
    LET name == th[t].path[th[t].done + 1]
        i    == SelectInSeq(th[t].loc, LAMBDA v : <<v, name>> \in DOMAIN Child)
        next == Child[<<th[t].loc[i], name>>]
    IN /\ At(t, "walk") /\ th[t].done < Len(th[t].path)
       /\ IF i = 0 THEN UNCHANGED refs /\ Finish(t, th[t].loc \o th[t].from)
          ELSE /\ refs' = [refs EXCEPT ![next] = @ + 1]
               /\ Set(t, [th[t] EXCEPT !.pc = "mount", !.drop = th[t].loc, !.loc = <<next>>, !.counted = 1,
                                       !.done = @ + 1])
       /\ UNCHANGED <<nsrefs, mounts, lock>>

Resolved(t) == At(t, "walk") /\ th[t].done = Len(th[t].path)

-----------------------------------------------------------------------------
(* Open files. *)

\* vfs_open: the file takes over the location that was found.
Open(t, path) == /\ At(t, "idle") /\ th[t].ns # Absent /\ th[t].fdrefs = 0
                 /\ Resolve(t, [th[t] EXCEPT !.op = "open"], path)

OpenDone(t) == /\ Resolved(t) /\ th[t].op = "open"
               /\ Set(t, Idle(th[t].ns, th[t].loc, 1))
               /\ UNCHANGED <<refs, nsrefs, mounts, lock>>

\* vfs_dup.
Dup(t) == /\ At(t, "idle") /\ th[t].fdrefs \in 1..(MaxFileRefs - 1)
          /\ Set(t, [th[t] EXCEPT !.fdrefs = @ + 1])
          /\ UNCHANGED <<refs, nsrefs, mounts, lock>>

\* vfs_close: the last reference releases the location.
Close(t) == /\ At(t, "idle") /\ th[t].fdrefs > 0
            /\ Set(t, IF th[t].fdrefs > 1 THEN [th[t] EXCEPT !.fdrefs = @ - 1]
                      ELSE [Idle(th[t].ns, <<>>, 0) EXCEPT !.drop = th[t].file])
            /\ UNCHANGED <<refs, nsrefs, mounts, lock>>

-----------------------------------------------------------------------------
(* vfs_bind, vfs_mount and vfs_unbind. *)

Bind(t, new, onto, flag) ==
    /\ At(t, "idle") /\ th[t].ns # Absent
    /\ Resolve(t, [th[t] EXCEPT !.op = "from", !.onto = onto, !.flag = flag], new)

BindOnto(t) ==
    /\ Resolved(t) /\ th[t].op = "from"
    /\ Resolve(t, [th[t] EXCEPT !.op = "bind", !.from = th[t].loc], th[t].onto)

\* vfs_mount: a file system's root instead of a path.
Mount(t, root, onto, flag) ==
    /\ At(t, "idle") /\ th[t].ns # Absent /\ refs[root] > 0
    /\ Set(t, [th[t] EXCEPT !.pc = "walk", !.op = "from", !.onto = onto, !.flag = flag, !.loc = <<root>>, !.counted = 1])
    /\ refs' = [refs EXCEPT ![root] = @ + 1]
    /\ UNCHANGED <<nsrefs, mounts, lock>>

Union(from, onto, flag) ==
    CASE flag = "replace" -> from [] flag = "before" -> from \o onto [] flag = "after" -> onto \o from

BindFails(t) ==
    LET from == th[t].from  onto == th[t].loc
    IN \/ (from[1] \in Dirs) # (onto[1] \in Dirs)
       \/ th[t].flag # "replace" /\ onto[1] \notin Dirs
       \/ Len(Union(from, onto, th[t].flag)) > VFS_UNION_MAX

\* bind_locations: references of its own for the union.
BindCompose(t) ==
    LET from == th[t].from  onto == th[t].loc
    IN /\ Resolved(t) /\ th[t].op = "bind"
       /\ IF BindFails(t) THEN UNCHANGED refs /\ Finish(t, from \o onto)
          ELSE /\ RefAll(Union(from, onto, th[t].flag))
               /\ Set(t, [th[t] EXCEPT !.pc = "set", !.old = Union(from, onto, th[t].flag)])
       /\ UNCHANGED <<nsrefs, mounts, lock>>

SetMountUnlocked(t) ==
    LET i == MountAt(th[t].ns, th[t].path)
    IN /\ At(t, "set")
       /\ mounts' = [mounts EXCEPT ![th[t].ns] = IF i # 0 THEN [@ EXCEPT ![i].loc = th[t].old]
                                                 ELSE Append(@, [path |-> th[t].path, loc |-> th[t].old])]
       /\ Finish(t, (IF i = 0 THEN <<>> ELSE mounts[th[t].ns][i].loc) \o th[t].from \o th[t].loc)
       /\ UNCHANGED <<refs, nsrefs, lock>>

\* ns_set_mount, with the lock: the mount is replaced or added at the end, and
\* what it replaces is released after.
SetMount(t) ==
    LET i == MountAt(th[t].ns, th[t].path)
    IN /\ At(t, "set") /\ lock[th[t].ns] = Absent
       /\ mounts' = [mounts EXCEPT ![th[t].ns] = IF i # 0 THEN [@ EXCEPT ![i].loc = th[t].old]
                                                 ELSE Append(@, [path |-> th[t].path, loc |-> th[t].old])]
       /\ Finish(t, (IF i = 0 THEN <<>> ELSE mounts[th[t].ns][i].loc) \o th[t].from \o th[t].loc)
       /\ UNCHANGED <<refs, nsrefs, lock>>

\* There is no memory for the mount.
SetMountFails(t) ==
    /\ At(t, "set") /\ lock[th[t].ns] = Absent /\ MountAt(th[t].ns, th[t].path) = 0
    /\ Finish(t, th[t].old \o th[t].from \o th[t].loc)
    /\ UNCHANGED <<refs, nsrefs, mounts, lock>>

\* vfs_unbind, ns_remove_mount.
Unbind(t, path) ==
    LET i == MountAt(th[t].ns, path)
    IN /\ At(t, "idle") /\ th[t].ns # Absent /\ lock[th[t].ns] = Absent /\ i # 0
       /\ mounts' = [mounts EXCEPT ![th[t].ns] = RemoveAt(@, i)]
       /\ Finish(t, mounts[th[t].ns][i].loc)
       /\ UNCHANGED <<refs, nsrefs, lock>>

-----------------------------------------------------------------------------
(* ns_fork, ns_unref, and who uses them. *)

\* ns_create: a namespace with the same root.
Fork(t, new) ==
    /\ At(t, "idle") /\ th[t].ns # Absent /\ nsrefs[new] = 0 /\ mounts[new] = <<>>
    /\ \A u \in Threads : th[u].new # new
    /\ nsrefs' = [nsrefs EXCEPT ![new] = 1]
    /\ refs' = [refs EXCEPT ![Root] = @ + 1]
    /\ Set(t, [th[t] EXCEPT !.pc = "flock", !.new = new])
    /\ UNCHANGED <<mounts, lock>>

ForkLock(t) ==
    /\ At(t, "flock") /\ lock[th[t].ns] = Absent
    /\ lock' = [lock EXCEPT ![th[t].ns] = t]
    /\ Set(t, [th[t] EXCEPT !.pc = "fork"])
    /\ UNCHANGED <<refs, nsrefs, mounts>>

ForkMount(t) ==
    LET k == Len(mounts[th[t].new]) + 1
    IN /\ At(t, "fork") /\ k <= Len(mounts[th[t].ns])
       /\ mounts' = [mounts EXCEPT ![th[t].new] = Append(@, mounts[th[t].ns][k])]
       /\ RefAll(mounts[th[t].ns][k].loc)
       /\ UNCHANGED <<nsrefs, lock, th>>

\* thread_set_namespace(new), and the maker's own reference to it dropped.
ForkDone(t) ==
    /\ At(t, "fork") /\ Len(mounts[th[t].new]) = Len(mounts[th[t].ns])
    /\ lock' = [lock EXCEPT ![th[t].ns] = Absent]
    /\ Set(t, [th[t] EXCEPT !.pc = "leave", !.ns = th[t].new, !.new = th[t].ns])
    /\ UNCHANGED <<refs, nsrefs, mounts>>

\* No memory for a mount: the half made namespace goes.
ForkFails(t) ==
    /\ At(t, "fork") /\ Len(mounts[th[t].new]) < Len(mounts[th[t].ns])
    /\ lock' = [lock EXCEPT ![th[t].ns] = Absent]
    /\ Set(t, [th[t] EXCEPT !.pc = "leave"])
    /\ UNCHANGED <<refs, nsrefs, mounts>>

\* thread_exit.
ThreadExit(t) == /\ At(t, "idle") /\ th[t].ns # Absent /\ th[t].fdrefs = 0
                 /\ Set(t, [th[t] EXCEPT !.pc = "leave", !.ns = Absent, !.new = th[t].ns])
                 /\ UNCHANGED <<refs, nsrefs, mounts, lock>>

\* ns_unref of th.new: the last one takes the table apart.
Leave(t) ==
    LET n == th[t].new
    IN /\ At(t, "leave")
       /\ nsrefs' = [nsrefs EXCEPT ![n] = @ - 1]
       /\ IF nsrefs[n] > 1 THEN Finish(t, <<>>) /\ UNCHANGED mounts
          ELSE /\ mounts' = [mounts EXCEPT ![n] = <<>>]
               /\ Finish(t, TableVnodes(mounts[n]) \o <<Root>>)
       /\ UNCHANGED <<refs, lock>>

Flags == {"replace", "before", "after"}

Start(t) ==
    \/ \E p \in Paths : Open(t, p) \/ Unbind(t, p)
    \/ Dup(t)
    \/ \E p, q \in Paths, flag \in Flags : Bind(t, p, q, flag)
    \/ \E v \in Dirs, q \in Paths, flag \in Flags : Mount(t, v, q, flag)
    \/ \E n \in Spaces : Fork(t, n)

Go(t) ==
    \/ Unref(t) \/ ApplyLock(t) \/ ApplyCopy(t) \/ ApplyRef(t) \/ ApplyUnlock(t) \/ Walk(t)
    \/ OpenDone(t) \/ Close(t)
    \/ BindOnto(t) \/ BindCompose(t) \/ SetMount(t) \/ SetMountFails(t)
    \/ ForkLock(t) \/ ForkMount(t) \/ ForkDone(t) \/ ForkFails(t) \/ ThreadExit(t) \/ Leave(t)

NamespaceNext == \E t \in Threads : \/ Calls(t) /\ Start(t)
                                    \/ Go(t) /\ UNCHANGED calls

NamespaceSpec == NamespaceInit /\ [][NamespaceNext]_namespaceVars

-----------------------------------------------------------------------------
HeldBy(t) == SubSeq(th[t].loc, 1, th[t].counted) \o th[t].old \o th[t].drop \o th[t].from \o th[t].file
HeldIn(n) == TableVnodes(mounts[n]) \o (IF nsrefs[n] > 0 THEN <<Root>> ELSE <<>>)

\* Vnodes and namespaces are shared safely: the references of a vnode are
\* exactly those that mount tables, open files and threads hold, whatever fails
\* on the way; a vnode copied from a mount and not counted yet is still alive
\* (the lock keeps the mount); and a fork copies the table of one moment, though
\* others bind and unbind meanwhile.
NamespacesSound ==
    /\ \A v \in Vnodes : refs[v] = MapThenSumSet(LAMBDA t : Count(HeldBy(t), v), Threads)
                                   + MapThenSumSet(LAMBDA n : Count(HeldIn(n), v), Spaces)
    /\ \A t \in Threads : \A v \in Range(th[t].loc) : refs[v] > 0
    /\ \A t \in Threads : th[t].pc = "fork" => IsPrefix(mounts[th[t].new], mounts[th[t].ns])
=============================================================================
