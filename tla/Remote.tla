------------------------------- MODULE Remote -------------------------------
(***************************************************************************)
(* Services over ZRP: the files of another machine, the library programs   *)
(* serve files with, and the service that runs jobs for others.            *)
(***************************************************************************)
EXTENDS Integers, Sequences, FiniteSets

-----------------------------------------------------------------------------
(* The files of a mounted ZRP server, on the client's side                    *)
(* (zkt/net/zrp_client.c from make_node on): mounting a session, the fids its *)
(* vnodes hold on the server, and the entries of a directory kept from one    *)
(* Tread.  How a request gets its answer is ZrpClient's; here a request is    *)
(* answered, refused, answered with something that cannot be read, or lost    *)
(* with the whole session (dead).                                             *)

CONSTANTS Thread, MaxFid,
          Entries,       \* how many entries the root directory may have, at most
          PerMessage,    \* entries a reply has room for
          DirCache

ROOT_FID == 1

VARIABLES session,             \* the session: [refs, next_fid, dead]; refs = 0 when there is none
          nodes,         \* fids that have a vnode here
          server,        \* fids the server holds for the session
          call,          \* per thread: [op, fid, dir]; dir: the vnode it holds
          lost,          \* fids given up: their clunk could not be sent
          dir,           \* the server's directory: a sequence of entries
          cache,         \* [first, list, of]; of: the directory they were read from
          lock,          \* who holds cache_lock
          seen           \* the last entry read, with the one that was asked for

remoteVars == <<session, nodes, server, call, lost, dir, cache, lock, seen>>

Idle == [op |-> "idle", fid |-> 0, dir |-> 0]
Is(t, op) == call[t].op = op
Goes(t, op, fid) == call' = [call EXCEPT ![t].op = op, ![t].fid = fid, ![t].dir = IF op = "idle" THEN 0 ELSE @]
InUse(fid) == \E t \in Thread : call[t].dir = fid
NoCache == [first |-> 0, list |-> <<>>, of |-> <<>>]

(* session_unref                                                              *)
Unref(x) == [x EXCEPT !.refs = @ - 1]

(* zrp_mount_key, zrp_mount_channel: a session with one reference.            *)
Mount(t) ==
  /\ Is(t, "idle") /\ session.refs = 0 /\ nodes = {} /\ \A u \in Thread : Is(u, "idle")
  /\ session' = [refs |-> 1, next_fid |-> ROOT_FID + 1, dead |-> FALSE]
  /\ server' = {} /\ lost' = {} /\ cache' = NoCache
  /\ Goes(t, "version", 0)
  /\ UNCHANGED <<nodes, dir, lock, seen>>

(* attach: Tversion and, with a key, Tauth; a failure drops the reference.    *)
Version(t, ok, key) ==
  /\ Is(t, "version")
  /\ IF ok /\ ~session.dead THEN Goes(t, IF key THEN "auth" ELSE "attach", ROOT_FID) /\ UNCHANGED session
     ELSE Goes(t, "idle", 0) /\ session' = Unref(session)
  /\ UNCHANGED <<nodes, server, lost, dir, cache, lock, seen>>

Authenticate(t, ok) ==
  /\ Is(t, "auth")
  /\ IF ok /\ ~session.dead THEN Goes(t, "attach", ROOT_FID) /\ UNCHANGED session
     ELSE Goes(t, "idle", 0) /\ session' = Unref(session)
  /\ UNCHANGED <<nodes, server, lost, dir, cache, lock, seen>>

(* The server's answer to Tattach: "root", "file" (not a directory), "bad"    *)
(* (cannot be read, or no memory for the node) or "error".                    *)
Attach(t, answer) ==
  /\ Is(t, "attach")
  /\ LET rc == IF session.dead THEN "error" ELSE answer
     IN  /\ server' = IF rc = "error" THEN server ELSE server \cup {ROOT_FID}
         /\ CASE rc = "root" -> /\ nodes' = nodes \cup {ROOT_FID} /\ UNCHANGED <<session, lost>>
                                /\ Goes(t, "idle", 0)
              [] rc = "file" -> /\ Goes(t, "clunkroot", ROOT_FID) /\ UNCHANGED <<session, nodes, lost>>
              [] rc = "bad" -> /\ lost' = lost \cup {ROOT_FID} /\ session' = Unref(session)
                               /\ Goes(t, "idle", 0) /\ UNCHANGED nodes
              [] OTHER -> session' = Unref(session) /\ Goes(t, "idle", 0) /\ UNCHANGED <<nodes, lost>>
  /\ UNCHANGED <<dir, cache, lock, seen>>

(* zrp_walk: a fid of its own, then the request.                              *)
Walk(t, d) ==
  /\ Is(t, "idle") /\ d \in nodes /\ session.next_fid <= MaxFid
  /\ session' = [session EXCEPT !.next_fid = @ + 1]
  /\ call' = [call EXCEPT ![t] = [op |-> "walk", fid |-> session.next_fid, dir |-> d]]
  /\ UNCHANGED <<nodes, server, lost, dir, cache, lock, seen>>

(* The answer: the file, one that gives no node (the fid is clunked), or an   *)
(* error.                                                                     *)
WalkAnswered(t, answer) ==
  /\ Is(t, "walk")
  /\ LET rc == IF session.dead THEN "error" ELSE answer
         fid == call[t].fid
     IN  /\ server' = IF rc = "error" THEN server ELSE server \cup {fid}
         /\ CASE rc = "file" -> /\ nodes' = nodes \cup {fid} /\ Goes(t, "idle", 0)
                                /\ session' = [session EXCEPT !.refs = @ + 1]
              [] rc = "bad" -> Goes(t, "clunk", fid) /\ UNCHANGED <<session, nodes>>
              [] OTHER -> Goes(t, "idle", 0) /\ UNCHANGED <<session, nodes>>
  /\ UNCHANGED <<lost, dir, cache, lock, seen>>

(* clunk of a fid that has no node; nothing is done if it fails.              *)
Clunk(t, ok) ==
  /\ Is(t, "clunk")
  /\ LET sent == ok /\ ~session.dead
     IN  /\ server' = IF sent THEN server \ {call[t].fid} ELSE server
         /\ lost' = IF sent THEN lost ELSE lost \cup {call[t].fid}
  /\ Goes(t, "idle", 0)
  /\ UNCHANGED <<session, nodes, dir, cache, lock, seen>>

(* zrp_release: the last reference of the vnode is gone.                      *)
Release(t, fid) ==
  /\ Is(t, "idle") /\ fid \in nodes /\ ~InUse(fid)
  /\ nodes' = nodes \ {fid}
  /\ Goes(t, "release", fid)
  /\ UNCHANGED <<session, server, lost, dir, cache, lock, seen>>

(* Mutant: the session's reference is dropped only if the clunk went out.     *)
ReleasedIfSent(t, ok) ==
  /\ call[t].op \in {"release", "clunkroot"}
  /\ LET sent == ok /\ ~session.dead
     IN  /\ server' = IF sent THEN server \ {call[t].fid} ELSE server
         /\ lost' = IF sent THEN lost ELSE lost \cup {call[t].fid}
         /\ session' = IF sent THEN Unref(session) ELSE session
         /\ cache' = IF call[t].fid = ROOT_FID THEN NoCache ELSE cache
  /\ Goes(t, "idle", 0)
  /\ UNCHANGED <<nodes, dir, lock, seen>>

Released(t, ok) ==
  /\ call[t].op \in {"release", "clunkroot"}
  /\ LET sent == ok /\ ~session.dead
     IN  /\ server' = IF sent THEN server \ {call[t].fid} ELSE server
         /\ lost' = IF sent THEN lost ELSE lost \cup {call[t].fid}
         /\ session' = Unref(session)
         /\ cache' = IF call[t].fid = ROOT_FID THEN NoCache ELSE cache
  /\ Goes(t, "idle", 0)
  /\ UNCHANGED <<nodes, dir, lock, seen>>

(* zrp_readdir of the root: under cache_lock, from the cache or by a Tread    *)
(* of the entries from the one asked for on.                                  *)
Covers(c, i) == i >= c.first /\ i < c.first + Len(c.list)

Readdir(t) ==
  /\ Is(t, "idle") /\ ROOT_FID \in nodes /\ lock = "free"
  /\ lock' = t
  /\ call' = [call EXCEPT ![t] = [op |-> "read", fid |-> 0, dir |-> ROOT_FID]]
  /\ UNCHANGED <<session, nodes, server, lost, dir, cache, seen>>

Fetched(i, whole) ==
  LET left == IF i >= Len(dir) THEN 0 ELSE Len(dir) - i
      n == IF left < PerMessage THEN left ELSE PerMessage
      kept == IF n < DirCache THEN n ELSE DirCache
  IN  [first |-> i, of |-> dir,
       list |-> [k \in 1 .. (IF whole THEN kept ELSE IF kept = 0 THEN 0 ELSE kept - 1) |-> dir[i + k]]]

(* What comes back: all entries, some and then one that cannot be read, or an *)
(* error.                                                                     *)
ReaddirDone(t, i, answer) ==
  /\ Is(t, "read") /\ lock = t
  /\ LET rc == IF Covers(cache, i) THEN "cached" ELSE IF session.dead THEN "error" ELSE answer
         now == CASE rc = "cached" -> cache
                  [] rc = "whole" -> Fetched(i, TRUE)
                  [] rc = "part" -> Fetched(i, FALSE)
                  [] OTHER -> [first |-> i, list |-> <<>>, of |-> dir]
     IN  /\ cache' = now
         /\ seen' = IF rc \in {"cached", "whole"} /\ Covers(now, i)
                    THEN <<now.list[i - now.first + 1], now.of[i + 1]>> ELSE <<>>
  /\ lock' = "free" /\ Goes(t, "idle", 0)
  /\ UNCHANGED <<session, nodes, server, lost, dir>>

(* The server's side: its directory changes; it goes away with the session.   *)
DirChanges(e) ==
  /\ session.refs > 0
  /\ dir' \in {Append(dir, e), IF dir = <<>> THEN dir ELSE Tail(dir)}
  /\ Len(dir') <= Entries
  /\ UNCHANGED <<session, nodes, server, call, lost, cache, lock, seen>>

Dies ==
  /\ session.refs > 0 /\ ~session.dead
  /\ session' = [session EXCEPT !.dead = TRUE] /\ server' = {}
  /\ UNCHANGED <<nodes, call, lost, dir, cache, lock, seen>>

RemoteInit ==
        /\ session = [refs |-> 0, next_fid |-> 0, dead |-> FALSE]
        /\ nodes = {} /\ server = {} /\ call = [t \in Thread |-> Idle] /\ lost = {}
        /\ dir \in {<<>>, <<"a", "b">>} /\ cache = NoCache /\ lock = "free" /\ seen = <<>>

RemoteNext ==
        \/ \E t \in Thread, ok \in BOOLEAN : Authenticate(t, ok) \/ Clunk(t, ok) \/ Released(t, ok)
        \/ \E t \in Thread, ok, key \in BOOLEAN : Version(t, ok, key)
        \/ \E t \in Thread : Mount(t) \/ Readdir(t)
        \/ \E t \in Thread, a \in {"root", "file", "bad", "error"} : Attach(t, a)
        \/ \E t \in Thread, a \in {"file", "bad", "error"} : WalkAnswered(t, a)
        \/ \E t \in Thread, fid \in nodes : Walk(t, fid) \/ Release(t, fid)
        \/ \E t \in Thread, i \in 0 .. Entries, a \in {"whole", "part", "error"} : ReaddirDone(t, i, a)
        \/ \E e \in {"a", "b"} : DirChanges(e)
        \/ Dies

RemoteSpec == RemoteInit /\ [][RemoteNext]_remoteVars

-----------------------------------------------------------------------------
(* While the server lives, every vnode has its fid there, and every fid there *)
(* has its vnode, a call that is about to make or drop one, or a clunk that   *)
(* could not be sent; the session counts its vnodes and the mount or the      *)
(* release under way, so it goes with the last of them and never before; and  *)
(* an entry of a directory is the one asked for, as the server had it when    *)
(* the entries around it were read.                                           *)
Holding(t) == call[t].op \in {"version", "auth", "attach", "clunkroot", "release"}
FilesOfSession ==
  /\ ~session.dead => /\ nodes \subseteq server
                      /\ \A fid \in server \ nodes :
                           fid \in lost \/ \E t \in Thread : call[t].fid = fid /\ ~Is(t, "idle")
  /\ session.refs = Cardinality(nodes) + Cardinality({t \in Thread : Holding(t)})
  /\ \A t, u \in Thread : t # u /\ call[t].op = "walk" => call[u].fid # call[t].fid
  /\ \A t \in Thread : call[t].op = "walk" => call[t].fid \notin nodes
  /\ seen # <<>> => seen[1] = seen[2]

-----------------------------------------------------------------------------
(* The file server library (libc/zrpsrv.c) that programs such as the desktop   *)
(* serve their files with: the tree of nodes, the client's fids, deferred      *)
(* reads, and the one buffer in which replies are built.  An action is one     *)
(* request handled by zsrv_handle, with the program's callback in the middle   *)
(* of it, or one call of the program between two requests.  Messages that do   *)
(* not parse are answered EPROTO or not at all and change nothing.             *)

CONSTANTS Node,        \* the nodes a program may have under the root
          Parent,      \* where each is, all of them below Root
          Root,
          Id, Tag,     \* the client's fids and tags
          None

VARIABLES tree,        \* nodes reachable from the root
          removed,     \* nodes out of the tree that are not freed yet
          refs,        \* refs of every node
          fids,        \* the list of fids: [id, node]
          deferred,    \* the list of deferred reads: [tag, id]
          out,         \* the tag of the reply last started in s->out
          owed,        \* tags of requests that have no answer yet
          wrong        \* an answer went out that nobody waited for

File == Node \ {Parent[n] : n \in Node}
serverVars == <<tree, removed, refs, fids, deferred, out, owed, wrong>>

State == [tree |-> tree, removed |-> removed, refs |-> refs, fids |-> fids, deferred |-> deferred,
          out |-> out, owed |-> owed, wrong |-> wrong]
Becomes(s) == /\ tree' = s.tree /\ removed' = s.removed /\ refs' = s.refs /\ fids' = s.fids
              /\ deferred' = s.deferred /\ out' = s.out /\ owed' = s.owed /\ wrong' = s.wrong

ServerInit == /\ tree = {Root} /\ removed = {} /\ refs = [n \in Node \cup {Root} |-> IF n = Root THEN 1 ELSE 0]
              /\ fids = <<>> /\ deferred = <<>> /\ out = None /\ owed = {} /\ wrong = FALSE

-----------------------------------------------------------------------------
(* Replies. *)

Start(s, tag) == [s EXCEPT !.out = tag]
\* Whatever reply is in the buffer goes out.
Finish(s) == [s EXCEPT !.owed = @ \ {s.out}, !.wrong = @ \/ s.out \notin s.owed]
Reply(s, tag) == Finish(Start(s, tag))
SendError(s, tag) == Reply(s, tag)

Unlink(s, req) == [s EXCEPT !.deferred = SelectSeq(@, LAMBDA r : r # req)]
Respond(s, req) == Reply(Unlink(s, req), req.tag)

RECURSIVE FailAll(_, _)
FailAll(s, reqs) == IF reqs = <<>> THEN s ELSE FailAll(SendError(Unlink(s, Head(reqs)), Head(reqs).tag), Tail(reqs))
NodeOf(s, id) == LET f == SelectSeq(s.fids, LAMBDA g : g.id = id) IN IF f = <<>> THEN None ELSE f[1].node

-----------------------------------------------------------------------------
(* The tree and the fids. *)

NewFid(s, id, n) == [s EXCEPT !.fids = <<[id |-> id, node |-> n]>> \o @, !.refs[n] = @ + 1]

NodePut(s, n) == LET t == [s EXCEPT !.refs[n] = @ - 1]
                 IN IF t.refs[n] = 0 THEN [t EXCEPT !.removed = @ \ {n}] ELSE t

RemoveOneSilent(s, n) ==
    [s EXCEPT !.tree = @ \ {n}, !.removed = IF s.refs[n] = 0 THEN @ ELSE @ \cup {n}]

\* A node out of the tree: its deferred reads fail, and it is freed unless a fid
\* is on it.
RemoveOne(s, n) ==
    LET t == FailAll(s, SelectSeq(s.deferred, LAMBDA r : NodeOf(s, r.id) = n))
    IN [t EXCEPT !.tree = @ \ {n}, !.removed = IF s.refs[n] = 0 THEN @ ELSE @ \cup {n}]

RECURSIVE Remove(_, _)
Remove(s, n) == LET below == {c \in s.tree \cap Node : Parent[c] = n}
                IN IF below # {} THEN Remove(Remove(s, CHOOSE c \in below : TRUE), n) ELSE RemoveOne(s, n)

\* clunk, with the program's callback, which may take nodes out of the tree.
SrvClunk(s, f, takes) ==
       LET t == FailAll(s, SelectSeq(s.deferred, LAMBDA r : r.id = f.id))
           u == IF takes \in t.tree \cap Node THEN Remove(t, takes) ELSE t
       IN NodePut([u EXCEPT !.fids = SelectSeq(@, LAMBDA g : g # f)], f.node)

RECURSIVE ClunkAll(_, _)
ClunkAll(s, takes) == IF s.fids = <<>> THEN s ELSE ClunkAll(SrvClunk(s, s.fids[1], takes), takes)

-----------------------------------------------------------------------------
(* Requests: what perform does, and the error that zsrv_handle sends. *)

Ask(tag) == [State EXCEPT !.owed = @ \cup {tag}]
Fails(tag) == Becomes(SendError(Ask(tag), tag))

SrvVersion(tag, takes) == tag \notin owed /\ Becomes(Reply(ClunkAll(Ask(tag), takes), tag))

SrvAttach(tag, id) ==
       /\ tag \notin owed
       /\ IF NodeOf(State, id) # None THEN Fails(tag) ELSE Becomes(Reply(NewFid(Ask(tag), id, Root), tag))

\* To itself, or to a child by name.
SrvWalk(tag, id, new, to) ==
       LET n == NodeOf(State, id)
       IN /\ tag \notin owed
          /\ IF n \notin tree \/ ~(to = n \/ (to \in tree \cap Node /\ Parent[to] = n)) \/ NodeOf(State, new) # None
             THEN Fails(tag) ELSE Becomes(Reply(NewFid(Ask(tag), new, to), tag))

\* A read of a file, which the program answers now, refuses, or puts off.
Read(tag, id, putoff) ==
    LET n == NodeOf(State, id)
    IN /\ tag \notin owed
       /\ IF n \notin tree THEN Fails(tag)
          ELSE IF n \in File /\ putoff
          THEN Becomes([Start(Ask(tag), tag) EXCEPT !.deferred = <<[tag |-> tag, id |-> id]>> \o @])
          ELSE Becomes(Reply(Ask(tag), tag))

\* What a callback or the program does between requests: answers a deferred read,
\* or takes a node out of the tree, or nothing.
Program(s) == {s} \cup {Respond(s, s.deferred[i]) : i \in DOMAIN s.deferred} \cup {Remove(s, n) : n \in s.tree \cap Node}

WriteStartsEarly(tag, id) ==
    LET n == NodeOf(State, id)
    IN /\ tag \notin owed
       /\ IF n \notin tree \cap File THEN Fails(tag)
          ELSE \E s \in Program(Start(Ask(tag), tag)) : Becomes(Finish(s))

\* A write to a file; the reply is started once the callback is back.
Write(tag, id) ==
    LET n == NodeOf(State, id)
    IN /\ tag \notin owed
       /\ IF n \notin tree \cap File THEN Fails(tag)
          ELSE \E s \in Program(Ask(tag)) : Becomes(Finish(Start(s, tag)))

TClunk(tag, id, takes) ==
    /\ tag \notin owed
    /\ IF NodeOf(State, id) = None THEN Fails(tag)
       ELSE LET f == SelectSeq(fids, LAMBDA g : g.id = id)[1] IN Becomes(Reply(SrvClunk(Ask(tag), f, takes), tag))

Stat(tag, id) == /\ tag \notin owed
                 /\ IF NodeOf(State, id) = None THEN Fails(tag) ELSE Becomes(Reply(Ask(tag), tag))

\* zsrv_add: a node under a directory of the tree.
Add(n) == /\ n \notin tree \cup removed /\ Parent[n] \in tree
          /\ tree' = tree \cup {n} /\ UNCHANGED <<removed, refs, fids, deferred, out, owed, wrong>>

Between == \E s \in Program(State) \ {State} : Becomes(s)

\* The client is gone: zsrv_free.
Free == /\ fids # <<>> /\ \E takes \in Node \cup {None} : Becomes([ClunkAll(State, takes) EXCEPT !.tree = {Root}])

ServerNext == \/ \E tag \in Tag :
                    \/ \E takes \in Node \cup {None} : SrvVersion(tag, takes)
                    \/ \E id \in Id : \/ SrvAttach(tag, id) \/ Stat(tag, id) \/ Write(tag, id)
                                      \/ \E new \in Id, to \in Node \cup {Root} : SrvWalk(tag, id, new, to)
                                      \/ \E putoff \in BOOLEAN : Read(tag, id, putoff)
                                      \/ \E takes \in Node \cup {None} : TClunk(tag, id, takes)
              \/ \E n \in Node : Add(n)
              \/ Between \/ Free

ServerSpec == ServerInit /\ [][ServerNext]_serverVars

-----------------------------------------------------------------------------
\* Every request is answered exactly once, now, later or with an error, whatever
\* the program does in the middle: a request without an answer is a deferred read,
\* whose fid is open on a node still in the tree.  A node is freed when it is out
\* of the tree and the last fid on it is gone, neither before nor never ("a removed
\* node lives until they go", zrpsrv.h:28).
RequestsAnswered ==
    /\ ~wrong /\ owed = {deferred[i].tag : i \in DOMAIN deferred} /\ Cardinality(owed) = Len(deferred)
    /\ \A i \in DOMAIN deferred : NodeOf(State, deferred[i].id) \in tree
    /\ \A n \in Node \cup {Root} :
          refs[n] = (IF n = Root THEN 1 ELSE 0) + Cardinality({i \in DOMAIN fids : fids[i].node = n})
    /\ removed = {n \in Node : refs[n] > 0} \ tree

-----------------------------------------------------------------------------
(* Running a command on another machine: cpu, the terminal's side            *)
(* (userland/bin/cpu.c), and cpud, which serves /new and /N/wait and runs    *)
(* each job in a process of its own (userland/bin/cpud.c).  cpud is one      *)
(* thread: it takes one request or reaps its children at a time, while the   *)
(* jobs' runners and the terminals go on.                                    *)

CONSTANTS Terminal, MaxJobs, Codes, Vectors

VARIABLES jobs,        \* cpud's list, newest first
          next_id,
          aux,         \* per terminal: the job of its /new fid, 0 if none or no fid
          job_fids,        \* the fids each terminal has open: "new", "wait"
          job_deferred,    \* wait reads not answered yet: <<terminal, job>>
          runner,      \* per job: what its process is doing
          said,        \* per job: something is in the pipe to cpud
          ended,       \* per job: how its command went, once the runner is gone
          pc,          \* per terminal: where cpu is
          mine,        \* per terminal: the number it read from /new
          result       \* per terminal: what cpu returned, NoResult until then

cpuVars == <<jobs, next_id, aux, job_fids, job_deferred, runner, said, ended, pc, mine, result>>

JobId == 1 .. MaxJobs
NoResult == 1000
Exit(c) == <<"exit", c>>
Killed(v) == <<"killed", v>>
Nothing == <<"none", 0>>

Listed(id) == \E i \in DOMAIN jobs : jobs[i].id = id
Job(id) == jobs[CHOOSE i \in DOMAIN jobs : jobs[i].id = id]
Without(s, id) == SelectSeq(s, LAMBDA j : j.id # id)

(* verdict, and what cpu makes of it (the end of cpu.c's main).              *)
Verdict(j) == IF j.why THEN <<"error", 0>> ELSE j.status

Returned(v) == CASE v[1] = "exit" -> v[2]
                 [] v[1] = "error" -> 125
                 [] v[1] = "killed" -> 128 + v[2]

(* start and serve_write: a job per /new fid; its directory may fail to be   *)
(* made, which leaves it no wait file.                                       *)
ServeWrite(t, starts, files) ==
  /\ pc[t] = "write" /\ "new" \in job_fids[t] /\ aux[t] = 0
  /\ IF starts /\ next_id <= MaxJobs
     THEN /\ jobs' = <<[id |-> next_id, done |-> FALSE, status |-> Nothing, why |-> FALSE,
                        owner |-> t, files |-> files]>> \o jobs
          /\ next_id' = next_id + 1
          /\ aux' = [aux EXCEPT ![t] = next_id]
          /\ runner' = [runner EXCEPT ![next_id] = "setup"]
          /\ pc' = [pc EXCEPT ![t] = "number"]
          /\ UNCHANGED result
     ELSE /\ pc' = [pc EXCEPT ![t] = "exited"]
          /\ result' = [result EXCEPT ![t] = 1]
          /\ UNCHANGED <<jobs, next_id, aux, runner>>
  /\ UNCHANGED <<job_fids, job_deferred, said, ended, mine>>

(* serve_read of /new: the job's number.                                     *)
ServeReadNew(t) ==
  /\ pc[t] = "number" /\ aux[t] # 0
  /\ mine' = [mine EXCEPT ![t] = aux[t]]
  /\ pc' = [pc EXCEPT ![t] = "open"]
  /\ UNCHANGED <<jobs, next_id, aux, job_fids, job_deferred, runner, said, ended, result>>

(* cpu opens /N/wait: it is there as long as the job's files are.            *)
OpenWait(t) ==
  /\ pc[t] = "open"
  /\ IF Listed(mine[t]) /\ Job(mine[t]).files
     THEN /\ job_fids' = [job_fids EXCEPT ![t] = @ \cup {"wait"}]
          /\ pc' = [pc EXCEPT ![t] = "wait"] /\ UNCHANGED result
     ELSE /\ pc' = [pc EXCEPT ![t] = "exited"]
          /\ result' = [result EXCEPT ![t] = 1] /\ UNCHANGED job_fids
  /\ UNCHANGED <<jobs, next_id, aux, job_deferred, runner, said, ended, mine>>

(* serve_read of /N/wait: the verdict if there is one, else the read waits.  *)
ServeReadWait(t) ==
  /\ pc[t] = "wait" /\ Listed(mine[t])
  /\ LET j == Job(mine[t])
     IN  IF j.done
         THEN /\ pc' = [pc EXCEPT ![t] = "exited"]
              /\ result' = [result EXCEPT ![t] = Returned(Verdict(j))]
              /\ UNCHANGED job_deferred
         ELSE /\ job_deferred' = job_deferred \cup {<<t, j.id>>}
              /\ pc' = [pc EXCEPT ![t] = "blocked"] /\ UNCHANGED result
  /\ UNCHANGED <<jobs, next_id, aux, job_fids, runner, said, ended, mine>>

(* job_main: the runner gives up before the program starts, saying why on    *)
(* the pipe (125); or on the terminal (127); or it starts the program and    *)
(* returns the program's own code, 128 + the vector if it was killed.        *)
RunnerGivesUp(id) ==
  /\ runner[id] = "setup"
  /\ runner' = [runner EXCEPT ![id] = "zombie"]
  /\ said' = [said EXCEPT ![id] = TRUE]
  /\ ended' = [ended EXCEPT ![id] = <<"error", 0>>]
  /\ UNCHANGED <<jobs, next_id, aux, job_fids, job_deferred, pc, mine, result>>

RunnerSpawns(id, ok) ==
  /\ runner[id] = "setup"
  /\ runner' = [runner EXCEPT ![id] = IF ok THEN "program" ELSE "zombie"]
  /\ ended' = IF ok THEN ended ELSE [ended EXCEPT ![id] = Exit(127)]
  /\ UNCHANGED <<jobs, next_id, aux, job_fids, job_deferred, said, pc, mine, result>>

ProgramEnds(id, how) ==
  /\ runner[id] = "program"
  /\ runner' = [runner EXCEPT ![id] = "zombie"]
  /\ ended' = [ended EXCEPT ![id] = IF how[1] = "killed" THEN Exit(128 + how[2]) ELSE how]
  /\ UNCHANGED <<jobs, next_id, aux, job_fids, job_deferred, said, pc, mine, result>>

(* The runner itself killed, perhaps after it had said something.            *)
RunnerKilled(id, v, spoke) ==
  /\ runner[id] \in {"setup", "program"} /\ (spoke => runner[id] = "setup")
  /\ runner' = [runner EXCEPT ![id] = "zombie"]
  /\ said' = [said EXCEPT ![id] = spoke]
  /\ ended' = [ended EXCEPT ![id] = Killed(v)]
  /\ UNCHANGED <<jobs, next_id, aux, job_fids, job_deferred, pc, mine, result>>

(* What wait() tells of a runner that gave up is its exit code.              *)
Status(id) == IF ended[id][1] = "error" THEN Exit(125) ELSE ended[id]

(* reap_jobs, for one child: the job learns its end and what was said, every *)
(* read waiting for it is answered, and it goes if its terminal is gone.     *)
ReapedJob(id) ==
  [Job(id) EXCEPT !.done = TRUE, !.status = Status(id),
                  !.why = said[id] /\ Status(id) = Exit(125)]

ReapJobs(id) ==
  /\ runner[id] = "zombie"
  /\ runner' = [runner EXCEPT ![id] = "gone"]
  /\ IF Listed(id)
     THEN LET j == ReapedJob(id)
              told == {t \in Terminal : <<t, id>> \in job_deferred}
          IN  /\ jobs' = IF j.owner \in Terminal
                         THEN [i \in DOMAIN jobs |-> IF jobs[i].id = id THEN j ELSE jobs[i]]
                         ELSE Without(jobs, id)
              /\ job_deferred' = {d \in job_deferred : d[2] # id}
              /\ pc' = [t \in Terminal |-> IF t \in told /\ pc[t] = "blocked" THEN "exited" ELSE pc[t]]
              /\ result' = [t \in Terminal |-> IF t \in told /\ pc[t] = "blocked"
                                               THEN Returned(Verdict(j)) ELSE result[t]]
     ELSE UNCHANGED <<jobs, job_deferred, pc, result>>
  /\ UNCHANGED <<next_id, aux, job_fids, said, ended, mine>>

(* serve_clunk of a /new fid: a job that is done goes with its terminal.     *)
ServeClunkAlways(t) ==
  /\ pc[t] \in {"exited", "lost"} /\ "new" \in job_fids[t]
  /\ job_fids' = [job_fids EXCEPT ![t] = @ \ {"new"}]
  /\ aux' = [aux EXCEPT ![t] = 0]
  /\ jobs' = Without(jobs, aux[t])
  /\ UNCHANGED <<next_id, job_deferred, runner, said, ended, pc, mine, result>>

ServeClunk(t) ==
  /\ pc[t] \in {"exited", "lost"} /\ "new" \in job_fids[t]
  /\ job_fids' = [job_fids EXCEPT ![t] = @ \ {"new"}]
  /\ aux' = [aux EXCEPT ![t] = 0]
  /\ jobs' = IF aux[t] = 0 THEN jobs
             ELSE IF Job(aux[t]).done THEN Without(jobs, aux[t])
             ELSE [i \in DOMAIN jobs |-> IF jobs[i].id = aux[t]
                                         THEN [jobs[i] EXCEPT !.owner = "none"] ELSE jobs[i]]
  /\ UNCHANGED <<next_id, job_deferred, runner, said, ended, pc, mine, result>>

ClunkWait(t) ==
  /\ pc[t] \in {"exited", "lost"} /\ "wait" \in job_fids[t]
  /\ \A d \in job_deferred : d[1] # t
  /\ job_fids' = [job_fids EXCEPT ![t] = @ \ {"wait"}]
  /\ UNCHANGED <<jobs, next_id, aux, job_deferred, runner, said, ended, pc, mine, result>>

(* The terminal goes away, at any time.                                      *)
Lost(t) ==
  /\ pc[t] \notin {"exited", "lost"}
  /\ pc' = [pc EXCEPT ![t] = "lost"]
  /\ UNCHANGED <<jobs, next_id, aux, job_fids, job_deferred, runner, said, ended, mine, result>>

CpuInit ==
     /\ jobs = <<>> /\ next_id = 1 /\ job_deferred = {}
     /\ aux = [t \in Terminal |-> 0]
     /\ job_fids = [t \in Terminal |-> {"new"}]
     /\ runner = [id \in JobId |-> "none"]
     /\ said = [id \in JobId |-> FALSE]
     /\ ended = [id \in JobId |-> Nothing]
     /\ pc = [t \in Terminal |-> "write"]
     /\ mine = [t \in Terminal |-> 0]
     /\ result = [t \in Terminal |-> NoResult]

CpuNext ==
     \/ \E t \in Terminal :
          \/ \E starts, files \in BOOLEAN : ServeWrite(t, starts, files)
          \/ ServeReadNew(t) \/ OpenWait(t) \/ ServeReadWait(t)
          \/ ServeClunk(t) \/ ClunkWait(t) \/ Lost(t)
     \/ \E id \in JobId :
          \/ RunnerGivesUp(id) \/ ReapJobs(id)
          \/ \E ok \in BOOLEAN : RunnerSpawns(id, ok)
          \/ \E c \in Codes : ProgramEnds(id, Exit(c))
          \/ \E v \in Vectors : ProgramEnds(id, Killed(v))
          \/ \E v \in Vectors, spoke \in BOOLEAN : RunnerKilled(id, v, spoke)

CpuSpec == CpuInit /\ [][CpuNext]_cpuVars

-----------------------------------------------------------------------------
(* cpu returns what became of its own job: the program's code, 128 + the     *)
(* vector that killed it or its runner, 125 only when the program returned   *)
(* that or never started.  The job a /new fid names is never freed under it; *)
(* a job stays until it has ended and its terminal has let go (cpud.c: "A    *)
(* job's files go once it has ended and its terminal has let go") and no     *)
(* longer; and nobody waits for a job that has ended or is gone.             *)
JobsTrue ==
  /\ \A t \in Terminal :
       /\ result[t] \notin {NoResult, 1} => result[t] = Returned(ended[mine[t]])
       /\ pc[t] = "blocked" <=> pc[t] # "lost" /\ \E d \in job_deferred : d[1] = t
       /\ aux[t] # 0 => Listed(aux[t]) /\ Job(aux[t]).owner = t
  /\ \A id \in 1 .. next_id - 1 :
       Listed(id) <=> (runner[id] # "gone" \/ \E t \in Terminal : aux[t] = id)
  /\ \A d \in job_deferred : Listed(d[2]) /\ runner[d[2]] # "gone"
=============================================================================
