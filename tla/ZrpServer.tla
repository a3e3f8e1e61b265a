----------------------------- MODULE ZrpServer -----------------------------
(***************************************************************************)
(* The ZRP server (zkt/net/zrp_server.c): a receiver that answers versions *)
(* and repeats and queues the rest, workers that are started as needed and *)
(* perform requests, sessions with their fids and the replies kept for     *)
(* repeats, exports that processes make and take back, and the stop of the *)
(* server.  srv->lock is a mutex that is never held across anything that   *)
(* waits, so a stretch that holds it is one action; what is freed or sent  *)
(* after it is an action of its own.                                       *)
(*                                                                         *)
(* The network can deliver any request of any client at any time and any   *)
(* number of times.  A request is equal to another exactly when tag and    *)
(* bytes are (the code compares their hash and length).  The server has no *)
(* key: authentication is left out.                                        *)
(***************************************************************************)
EXTENDS Lists, SequencesExt

CONSTANTS
    Settings,       \* the requests clients send (client, tag, type, fid, newfid), and whether
                    \* kmalloc and thread_create can fail
    Slots,          \* the sessions: 1 .. SESSIONS
    FIDS, DONE_CACHE, WORKERS_MAX, QUEUE_MAX,
    Worker,         \* addresses of worker threads, more than WORKERS_MAX
    Sfid,           \* addresses of struct sfid
    Export,         \* addresses of struct export; all have one name
    MaxGeneration   \* bound: the versions a session goes through

Types == {"version", "attach", "walk", "read", "write", "clunk", "stat"}

ASSUME ZrpServerAssumption ==
    /\ \A s \in Settings : s.scarce \in BOOLEAN /\ \A m \in s.requests : m.type \in Types
    /\ FIDS \in Nat /\ DONE_CACHE \in Nat \ {0} /\ WORKERS_MAX \in Nat \ {0} /\ QUEUE_MAX \in Nat

VARIABLES
    setting,        \* the one of Settings looked at
    session,        \* srv->sessions
    recency,        \* the sessions ordered by last_active, the oldest first
    sfid,           \* the fids allocated
    export,         \* the exports allocated
    exports,        \* srv->exports
    queue,          \* srv->queue
    workers, idle, threads, stop,
    work,           \* idle workers' wait queue
    pc,             \* each worker's place in worker_main
    job,            \* its job; srv->active is the jobs of the workers at work
    held,           \* the fid it has a reference to
    made,           \* the fid it has opened
    ex,             \* the export it is opening in
    rc,             \* perform's result
    rpc,            \* the receiver's place
    gone,           \* the fids it has to free
    upc,            \* the place of the process that exports and stops the server
    unlisted,       \* the exports that process has to free
    performed,      \* how often a request has had its effect in this generation (2: or more)
    damaged         \* an export was looked at after it was freed

sessions == <<session, recency>>
files == <<sfid, export, exports>>
pool == <<queue, workers, idle, threads, work>>
locals == <<job, held, made, ex, rc>>
receiver == <<rpc, gone>>
user == <<upc, unlisted, stop>>
vars == <<sessions, files, pool, pc, locals, receiver, user, performed, damaged, setting>>

Request == setting.requests
MayRunOut == setting.scarce

None == "none"
NoSession == [used |-> FALSE, client |-> None, generation |-> 0, jobs |-> 0, fids |-> {},
              done |-> <<>>]
NoFid == [refs |-> 0, id |-> 0, ex |-> None, generation |-> 0, open |-> FALSE]
NoExport == [refs |-> 0, ns |-> FALSE]
NoJob == [slot |-> 0, generation |-> 0, request |-> None]

\* The workers whose job is on srv->active, and the ones that exist.
AtWork == {"work", "open", "insert", "use", "put", "drop", "free", "finish"}
Working == {w \in Worker : pc[w] \in AtWork}
Alive == {w \in Worker : pc[w] # "none"}

TypeOK ==
    /\ \A s \in Slots : session[s].jobs \in Nat /\ session[s].fids \subseteq Sfid
    /\ recency \in Seq(Slots)
    /\ \A f \in Sfid : sfid[f].refs \in Nat
    /\ \A e \in Export : export[e].refs \in Nat \cup {-1}
    /\ exports \subseteq Export
    /\ Len(queue) \in 0 .. QUEUE_MAX
    /\ workers \in 0 .. WORKERS_MAX /\ idle \in Nat /\ threads \in Nat
    /\ pc \in [Worker -> AtWork \cup {"none", "starting", "rest", "asleep", "woken", "send",
                                      "leave"}]

\* zrp_serve: the receiver, and one worker from the start.
Init ==
    /\ setting \in Settings
    /\ session = [s \in Slots |-> NoSession]
    /\ recency = SetToSeq(Slots)
    /\ sfid = [f \in Sfid |-> NoFid]
    /\ export = [e \in Export |-> NoExport]
    /\ exports = {}
    /\ queue = <<>> /\ work = <<>>
    /\ workers = 1 /\ idle = 1 /\ threads = 2 /\ stop = FALSE
    /\ pc = [w \in Worker |-> IF w = CHOOSE first \in Worker : TRUE THEN "starting" ELSE "none"]
    /\ job = [w \in Worker |-> NoJob]
    /\ held = [w \in Worker |-> None]
    /\ made = [w \in Worker |-> None]
    /\ ex = [w \in Worker |-> None]
    /\ rc = [w \in Worker |-> "ok"]
    /\ rpc = "loop" /\ gone = {}
    /\ upc = "ready" /\ unlisted = {}
    /\ performed = [m \in Request |-> 0]
    /\ damaged = FALSE

-----------------------------------------------------------------------------
(* Exports and fids                                                        *)

\* export_put: the last reference marks the export to be freed.
PutExport(exps, e) == [exps EXCEPT ![e].refs = IF @ = 1 THEN -1 ELSE @ - 1]

LastRef(f) == sfid[f].refs = 1

\* Mutant: a fid's reference to its export outlives it.
PutFidsOnly(F) ==
    /\ sfid' = [f \in Sfid |-> IF f \in F THEN [sfid[f] EXCEPT !.refs = @ - 1] ELSE sfid[f]]
    /\ export' = export

\* fid_put, for one fid and for a set of them: with the last reference goes
\* the fid's reference to its export.
PutFids(F) ==
    /\ sfid' = [f \in Sfid |-> IF f \in F THEN [sfid[f] EXCEPT !.refs = @ - 1] ELSE sfid[f]]
    /\ export' = FoldSet(LAMBDA f, exps : PutExport(exps, sfid[f].ex), export,
                         {f \in F : LastRef(f)})

FindFid(s, id) == {f \in session[s].fids : sfid[f].id = id}

\* get_fid: only if the session is still the one the job was sent in.
GetFid(j, id) ==
    IF session[j.slot].generation = j.generation THEN FindFid(j.slot, id) ELSE {}

Ref(f) == [sfid EXCEPT ![f].refs = @ + 1]

\* export_free_if_done, on its own and at the end of fid_free.
FreeExportIfDone(e) ==
    /\ damaged' = (damaged \/ ~export[e].ns)
    /\ export' = IF export[e].ns /\ export[e].refs = -1
                 THEN [export EXCEPT ![e].ns = FALSE]
                 ELSE export

\* fid_free: the file is closed, the export freed if that was its last fid.
FreeFid(f) ==
    /\ sfid' = [sfid EXCEPT ![f] = NoFid]
    /\ FreeExportIfDone(sfid[f].ex)

-----------------------------------------------------------------------------
(* The workers                                                             *)

\* How many more workers `queued' jobs call for.
Wanted(queued) ==
    IF queued > idle /\ WORKERS_MAX > workers
    THEN Min({queued - idle, WORKERS_MAX - workers})
    ELSE 0

\* enough_workers: starts them, or as many as it can; `place' is where the
\* workers are otherwise.  (With no address left it waits: a bound.)
EnoughWorkers(queued, place) ==
    LET free == {w \in Worker : pc[w] = "none"}
    IN  \E W \in SUBSET free :
          /\ \/ Cardinality(W) = Wanted(queued)
             \/ MayRunOut /\ Cardinality(W) < Wanted(queued)
          /\ pc' = [w \in Worker |-> IF w \in W THEN "starting" ELSE place[w]]
          /\ workers' = workers + Cardinality(W)
          /\ idle' = idle + Cardinality(W)
          /\ threads' = threads + Cardinality(W)

\* The worker's loop, with the lock held and `n' others idle: it takes a job,
\* or waits for one, or leaves if another waits already or the server stops.
Loop(w, n) ==
    \/ /\ queue # <<>>
       /\ queue' = Tail(queue)
       /\ job' = [job EXCEPT ![w] = Head(queue)]
       /\ rc' = [rc EXCEPT ![w] = "ok"]
       /\ pc' = [pc EXCEPT ![w] = "work"]
       /\ idle' = n
       /\ UNCHANGED workers
    \/ /\ queue = <<>> /\ ~stop /\ n = 0
       /\ pc' = [pc EXCEPT ![w] = "rest"]
       /\ idle' = n + 1
       /\ UNCHANGED <<queue, job, rc, workers>>
    \/ /\ queue = <<>> /\ (stop \/ n > 0)
       /\ pc' = [pc EXCEPT ![w] = "leave"]
       /\ idle' = n /\ workers' = workers - 1
       /\ UNCHANGED <<queue, job, rc>>

LoopUnchanged == <<sessions, files, threads, work, held, made, ex, receiver, user, performed, damaged>>

\* A worker that is started counts as idle until it comes here.
WorkerStart(w) ==
    /\ pc[w] = "starting"
    /\ \/ Loop(w, idle - 1)
       \/ /\ MayRunOut          \* no buffer
          /\ pc' = [pc EXCEPT ![w] = "leave"]
          /\ idle' = idle - 1 /\ workers' = workers - 1
          /\ UNCHANGED <<queue, job, rc>>
    /\ UNCHANGED LoopUnchanged

\* With interrupts off: nothing to do still, so sleep.
Rest(w) ==
    /\ pc[w] = "rest"
    /\ \/ /\ queue = <<>> /\ ~stop
          /\ work' = Append(work, w)
          /\ pc' = [pc EXCEPT ![w] = "asleep"]
       \/ /\ queue # <<>> \/ stop
          /\ pc' = [pc EXCEPT ![w] = "woken"]
          /\ UNCHANGED work
    /\ UNCHANGED <<sessions, files, queue, workers, idle, threads, locals, receiver, user, performed,
                   damaged>>

WorkerWoken(w) ==
    /\ pc[w] = "woken"
    /\ Loop(w, idle - 1)
    /\ UNCHANGED LoopUnchanged

\* thread_done: the thread is no more.
WorkerExit(w) ==
    /\ pc[w] = "leave"
    /\ threads' = threads - 1
    /\ pc' = [pc EXCEPT ![w] = "none"]
    /\ UNCHANGED <<sessions, files, queue, workers, idle, work, locals, receiver, user, performed,
                   damaged>>

-----------------------------------------------------------------------------
(* Requests                                                                *)

Req(w) == job[w].request

\* The worker goes on to `place' with result r.
Go(w, place, r) ==
    /\ pc' = [pc EXCEPT ![w] = place]
    /\ rc' = [rc EXCEPT ![w] = r]

\* A request has its effect; it counts for the generation it was sent in.
Performed(w) ==
    performed' = IF session[job[w].slot].generation = job[w].generation
                 THEN [performed EXCEPT ![Req(w)] = Min({@ + 1, 2})]
                 ELSE performed

Forget(clients) == [m \in Request |-> IF m.client \in clients THEN 0 ELSE performed[m]]

PerformUnchanged == <<sessions, exports, pool, job, receiver, user>>

\* do_attach finds the export, and holds it while opening its root.
AttachFind(w) ==
    /\ pc[w] = "work" /\ Req(w).type = "attach"
    /\ \/ /\ exports = {}
          /\ Go(w, "finish", "ENOENT")
          /\ UNCHANGED <<export, ex>>
       \/ \E e \in exports :
            /\ export' = [export EXCEPT ![e].refs = @ + 1]
            /\ ex' = [ex EXCEPT ![w] = e]
            /\ Go(w, "open", "ok")
    /\ UNCHANGED <<PerformUnchanged, sfid, held, made, performed, damaged>>

\* do_walk gets the fid it starts from and looks whether the new one is free.
WalkFind(w) ==
    /\ pc[w] = "work" /\ Req(w).type = "walk"
    /\ \/ /\ GetFid(job[w], Req(w).fid) = {}
          /\ Go(w, "finish", "EBADF")
          /\ UNCHANGED <<sfid, held, ex>>
       \/ \E f \in GetFid(job[w], Req(w).fid) :
            /\ sfid' = Ref(f)
            /\ held' = [held EXCEPT ![w] = f]
            /\ ex' = [ex EXCEPT ![w] = sfid[f].ex]
            /\ IF FindFid(job[w].slot, Req(w).newfid) = {}
               THEN Go(w, "open", "ok")
               ELSE Go(w, "insert", "EINVAL")
    /\ UNCHANGED <<PerformUnchanged, export, made, performed, damaged>>

NewId(w) == IF Req(w).type = "attach" THEN Req(w).fid ELSE Req(w).newfid

\* The address kmalloc gives: they are interchangeable, so one of them will do.
Unused ==
    LET free == {f \in Sfid : sfid[f] = NoFid}
    IN  {f \in free : f = CHOOSE g \in free : TRUE}

\* open_fid, without the lock: it may fail.
Open(w) ==
    /\ pc[w] = "open"
    /\ \/ \E f \in Unused :
            /\ sfid' = [sfid EXCEPT ![f] = [refs |-> 1, id |-> NewId(w), ex |-> ex[w],
                                            generation |-> job[w].generation, open |-> TRUE]]
            /\ made' = [made EXCEPT ![w] = f]
            /\ Go(w, "insert", "ok")
       \/ Go(w, "insert", "error") /\ UNCHANGED <<sfid, made>>
    /\ UNCHANGED <<PerformUnchanged, export, held, ex, performed, damaged>>

\* Mutant: a fid goes into whatever session has the slot now.
InsertResultAnytime(j, f) ==
    CASE FindFid(j.slot, sfid[f].id) # {} -> "EINVAL"
      [] Cardinality(session[j.slot].fids) >= FIDS -> "EMFILE"
      [] OTHER -> "ok"

\* Whether insert_fid puts fid f in the table of job j's session.
InsertResult(j, f) ==
    CASE session[j.slot].generation # j.generation -> "EIO"
      [] FindFid(j.slot, sfid[f].id) # {} -> "EINVAL"
      [] Cardinality(session[j.slot].fids) >= FIDS -> "EMFILE"
      [] OTHER -> "ok"

\* The second stretch of do_attach and do_walk under the lock: the fid is put
\* in the table, and what was held is let go.
Insert(w) ==
    LET j == job[w]
        r == IF rc[w] = "ok" THEN InsertResult(j, made[w]) ELSE rc[w]
        refd == IF r = "ok" THEN [export EXCEPT ![ex[w]].refs = @ + 1] ELSE export
        lets == held[w] # None /\ LastRef(held[w])
    IN  /\ pc[w] = "insert"
        /\ session' = IF r = "ok" THEN [session EXCEPT ![j.slot].fids = @ \cup {made[w]}] ELSE session
        /\ export' = IF held[w] = None \/ lets THEN PutExport(refd, ex[w]) ELSE refd
        /\ sfid' = IF held[w] = None THEN sfid ELSE [sfid EXCEPT ![held[w]].refs = @ - 1]
        /\ IF r = "ok" THEN Performed(w) ELSE UNCHANGED performed
        /\ Go(w, "drop", r)
        /\ held' = [held EXCEPT ![w] = IF lets THEN @ ELSE None]
        /\ UNCHANGED <<recency, exports, pool, job, made, ex, receiver, user, damaged>>

\* A fid that was opened and is not wanted after all is closed.  do_attach
\* then looks whether it has to free the export, do_walk the fid it held.
Drop(w) ==
    /\ pc[w] = "drop"
    /\ sfid' = IF rc[w] # "ok" /\ made[w] # None
               THEN [sfid EXCEPT ![made[w]] = NoFid]
               ELSE sfid
    /\ made' = [made EXCEPT ![w] = None]
    /\ pc' = [pc EXCEPT ![w] = "free"]
    /\ UNCHANGED <<PerformUnchanged, export, held, ex, rc, performed, damaged>>

\* do_read and do_write get the fid ...
Get(w) ==
    /\ pc[w] = "work" /\ Req(w).type \in {"read", "write"}
    /\ \/ /\ GetFid(job[w], Req(w).fid) = {}
          /\ Go(w, "finish", "EBADF")
          /\ UNCHANGED <<sfid, held>>
       \/ \E f \in GetFid(job[w], Req(w).fid) :
            /\ sfid' = Ref(f)
            /\ held' = [held EXCEPT ![w] = f]
            /\ Go(w, "use", "ok")
    /\ UNCHANGED <<PerformUnchanged, export, made, ex, performed, damaged>>

\* ... read or write its file without the lock, which a read may wait for ...
Use(w) ==
    /\ pc[w] = "use"
    /\ Performed(w)
    /\ \/ Go(w, "put", "ok")
       \/ Go(w, "put", "error")
    /\ UNCHANGED <<PerformUnchanged, files, held, made, ex, damaged>>

\* ... and let it go.
Put(w) ==
    /\ pc[w] = "put"
    /\ PutFids({held[w]})
    /\ held' = [held EXCEPT ![w] = IF LastRef(held[w]) THEN @ ELSE None]
    /\ pc' = [pc EXCEPT ![w] = "free"]
    /\ UNCHANGED <<PerformUnchanged, made, ex, rc, performed, damaged>>

\* do_clunk_or_stat: a clunk takes the fid out of the table, with its reference.
ClunkOrStat(w) ==
    /\ pc[w] = "work" /\ Req(w).type \in {"clunk", "stat"}
    /\ \/ /\ GetFid(job[w], Req(w).fid) = {}
          /\ Go(w, "finish", "EBADF")
          /\ UNCHANGED <<session, sfid, export, held, performed>>
       \/ \E f \in GetFid(job[w], Req(w).fid) :
            /\ Performed(w)
            /\ Go(w, "free", "ok")
            /\ IF Req(w).type = "clunk"
               THEN /\ session' = [session EXCEPT ![job[w].slot].fids = @ \ {f}]
                    /\ PutFids({f})
                    /\ held' = [held EXCEPT ![w] = IF LastRef(f) THEN f ELSE None]
               ELSE UNCHANGED <<session, sfid, export, held>>
    /\ UNCHANGED <<recency, exports, pool, job, made, ex, receiver, user, damaged>>

\* What is freed after the lock is given up: the fid whose last reference this
\* was (fid_free), and do_attach's export.
Free(w) ==
    /\ pc[w] = "free"
    /\ \/ /\ held[w] # None
          /\ FreeFid(held[w])
       \/ /\ held[w] = None /\ Req(w).type = "attach" /\ ex[w] # None
          /\ FreeExportIfDone(ex[w])
          /\ UNCHANGED sfid
       \/ /\ held[w] = None /\ ~(Req(w).type = "attach" /\ ex[w] # None)
          /\ UNCHANGED <<sfid, export, damaged>>
    /\ held' = [held EXCEPT ![w] = None]
    /\ ex' = [ex EXCEPT ![w] = None]
    /\ pc' = [pc EXCEPT ![w] = "finish"]
    /\ UNCHANGED <<PerformUnchanged, made, rc, performed>>
\* s->last_active is now the latest.
Touch(s) == Append(Without(recency, s), s)

\* remember: the reply replaces the oldest of the DONE_CACHE kept.
Kept(done, m) ==
    LET all == Append(done, m)
    IN  IF Len(all) > DONE_CACHE THEN Tail(all) ELSE all

IsCurrent(j) == session[j.slot].generation = j.generation

\* The end of work, under the lock: the reply is kept for repeats; a clunk
\* that leaves a session without fids and jobs ends it, and a failed attach
\* that does only forgets the replies.
Finish(w) ==
    LET j == job[w]
        s == session[j.slot]
        current == IsCurrent(j)
        over == current /\ s.jobs = 1 /\ s.fids = {}
        ends == over /\ Req(w).type = "clunk"
        forgets == ends \/ (over /\ Req(w).type = "attach" /\ rc[w] # "ok")
    IN  /\ pc[w] = "finish"
        /\ \E keeps \in {current} \cup (IF MayRunOut THEN {FALSE} ELSE {}) :
             session' = [session EXCEPT ![j.slot] =
               [@ EXCEPT !.jobs = @ - 1,
                         !.used = @ /\ ~ends,
                         !.generation = IF ends THEN @ + 1 ELSE @,
                         !.done = IF forgets THEN <<>> ELSE IF keeps THEN Kept(@, Req(w)) ELSE @]]
        /\ recency' = IF current THEN Touch(j.slot) ELSE recency
        /\ performed' = IF ends THEN Forget({s.client}) ELSE performed
        /\ pc' = [pc EXCEPT ![w] = "send"]
        /\ job' = [job EXCEPT ![w] = NoJob]
        /\ rc' = [rc EXCEPT ![w] = "ok"]
        /\ UNCHANGED <<files, pool, held, made, ex, receiver, user, damaged>>

\* The reply is sent and the worker looks for the next job.
Send(w) ==
    /\ pc[w] = "send"
    /\ Loop(w, idle)
    /\ UNCHANGED LoopUnchanged

-----------------------------------------------------------------------------
(* The receiver                                                            *)

Of(m) == {s \in Slots : session[s].used /\ session[s].client = m.client}

\* A repeat of a request that is queued or being worked on.
InProgress(s, m) ==
    LET same(j) == j.slot = s /\ j.generation = session[s].generation /\ j.request = m
    IN  \/ \E i \in 1 .. Len(queue) : same(queue[i])
        \/ \E w \in Working : same(job[w])

\* Mutant: the replies kept are not looked at.
AnsweredNever(s, m) == FALSE

Answered(s, m) == Contains(session[s].done, m)

\* A repeat is told to wait (and is one more chance to start a worker) or
\* gets the reply again.
ReceiveRepeat(m) ==
    /\ rpc = "loop" /\ ~stop
    /\ \E s \in Of(m) :
         \/ /\ InProgress(s, m)
            /\ EnoughWorkers(Len(queue), pc)
         \/ /\ ~InProgress(s, m) /\ Answered(s, m)
            /\ UNCHANGED <<workers, idle, threads, pc>>
    /\ UNCHANGED <<sessions, files, queue, work, locals, receiver, user, performed, damaged>>

\* Mutant: also one with requests in progress.
VictimsBusy ==
    LET free == {s \in Slots : ~session[s].used}
    IN  IF free # {} THEN {Min(free)} ELSE {Head(recency)}

\* The session a Tversion from a new client gets: the first that is free, or
\* else the least recently active one with nothing in progress.
Victims ==
    LET free == {s \in Slots : ~session[s].used}
        quiet == SelectSeq(recency, LAMBDA s : session[s].jobs = 0)
    IN  IF free # {} THEN {Min(free)} ELSE IF quiet # <<>> THEN {Head(quiet)} ELSE {}

\* version, of a client that has no session or of one that has: its session
\* starts over without fids and replies.
ReceiveVersion(m) ==
    LET found == IF Of(m) = {} THEN Victims ELSE Of(m)
    IN  /\ rpc = "loop" /\ ~stop /\ m.type = "version"
        /\ \A s \in Of(m) : ~InProgress(s, m) /\ ~Answered(s, m)
        /\ \A s \in found : session[s].generation < MaxGeneration
        /\ \/ /\ found = {}           \* EBUSY
              /\ UNCHANGED <<sessions, sfid, export, receiver, performed>>
           \/ \E s \in found :
                LET fids == session[s].fids
                IN  /\ session' = [session EXCEPT ![s] =
                         [@ EXCEPT !.used = TRUE, !.client = m.client, !.generation = @ + 1,
                                   !.fids = {}, !.done = Kept(<<>>, m),
                                   !.jobs = IF Of(m) = {} THEN 0 ELSE @]]
                    /\ recency' = Touch(s)
                    /\ PutFids(fids)
                    /\ gone' = {f \in fids : LastRef(f)}
                    /\ rpc' = IF gone' = {} THEN "loop" ELSE "free"
                    /\ performed' = Forget({m.client, session[s].client})
        /\ UNCHANGED <<exports, pool, pc, locals, user, damaged>>

\* Mutant: nobody is woken.
WokenNone == pc

\* waitq_wake_one: the places with the first idle worker woken.
WokenOne == IF work = <<>> THEN pc ELSE [pc EXCEPT ![Head(work)] = "woken"]

Room == Len(queue) < QUEUE_MAX

\* Any other request is queued, and a worker started or woken for it; it is
\* refused without a session, and dropped if there is no room for it.
ReceiveRequest(m) ==
    /\ rpc = "loop" /\ ~stop /\ m.type # "version"
    /\ \A s \in Of(m) : ~InProgress(s, m) /\ ~Answered(s, m)
    /\ \/ /\ ~Room \/ MayRunOut \/ Of(m) = {}
          /\ UNCHANGED <<session, queue, workers, idle, threads, work, pc>>
       \/ \E s \in Of(m) :
            /\ Room
            /\ queue' = Append(queue, [slot |-> s, generation |-> session[s].generation, request |-> m])
            /\ session' = [session EXCEPT ![s].jobs = @ + 1]
            /\ EnoughWorkers(Len(queue) + 1, WokenOne)
            /\ work' = IF work = <<>> THEN work ELSE Tail(work)
    /\ UNCHANGED <<recency, files, locals, receiver, user, performed, damaged>>

\* The fids a Tversion took out are freed after the lock is given up.
ReceiverFree ==
    /\ rpc = "free"
    /\ \E f \in gone :
         /\ FreeFid(f)
         /\ gone' = gone \ {f}
         /\ rpc' = IF gone' = {} THEN "loop" ELSE "free"
    /\ UNCHANGED <<sessions, exports, pool, pc, locals, user, performed>>

\* The receiver looks at stop after every datagram and every RECV_TIMEOUT_MS.
ReceiverExit ==
    /\ rpc = "loop" /\ stop
    /\ rpc' = "done"
    /\ threads' = threads - 1
    /\ UNCHANGED <<sessions, files, queue, workers, idle, work, pc, locals, gone, user, performed,
                   damaged>>

-----------------------------------------------------------------------------
(* A process that exports, and stops the server                            *)

ZrpExport ==
    /\ upc = "ready" /\ exports = {}
    /\ \E e \in Export :
         /\ ~export[e].ns
         /\ export' = [export EXCEPT ![e] = [refs |-> 1, ns |-> TRUE]]
         /\ exports' = {e}
    /\ UNCHANGED <<sessions, sfid, pool, pc, locals, receiver, user, performed, damaged>>

\* zrp_unexport, zrp_unexport_owner: unlist, under the lock ...
ZrpUnexport ==
    /\ upc = "ready"
    /\ \E e \in exports :
         /\ export' = PutExport(export, e)
         /\ unlisted' = IF export'[e].refs = -1 THEN {e} ELSE {}
         /\ upc' = IF unlisted' = {} THEN "ready" ELSE "free"
    /\ exports' = {}
    /\ UNCHANGED <<sessions, sfid, pool, pc, locals, receiver, stop, performed, damaged>>

\* ... then free_exports.
FreeExports ==
    /\ upc = "free"
    /\ \E e \in unlisted : FreeExportIfDone(e) /\ unlisted' = unlisted \ {e}
    /\ upc' = "ready"
    /\ UNCHANGED <<sessions, sfid, exports, pool, pc, locals, receiver, stop, performed>>

\* Mutant: the idle workers are not told.
WokenAllNone == pc

WokenAll == [w \in Worker |-> IF Contains(work, w) THEN "woken" ELSE pc[w]]

\* zrp_server_stop: wakes the idle workers and waits for all threads ...
ZrpServerStop ==
    /\ upc = "ready" /\ stop = FALSE
    /\ stop' = TRUE
    /\ pc' = WokenAll
    /\ work' = <<>>
    /\ upc' = "stop"
    /\ UNCHANGED <<sessions, files, queue, workers, idle, threads, locals, receiver, unlisted, performed,
                   damaged>>

\* ... then takes the fids out of one session after the other and frees them ...
StopSession ==
    /\ upc = "stop" /\ threads = 0
    /\ \/ \E s \in Slots :
            /\ gone = {} /\ session[s].used
            /\ session' = [session EXCEPT ![s].used = FALSE, ![s].fids = {}, ![s].done = <<>>]
            /\ PutFids(session[s].fids)
            /\ gone' = {f \in session[s].fids : LastRef(f)}
            /\ UNCHANGED damaged
       \/ \E f \in gone :
            /\ FreeFid(f)
            /\ gone' = gone \ {f}
            /\ UNCHANGED session
    /\ UNCHANGED <<recency, exports, pool, pc, locals, rpc, user, performed>>

\* ... and the requests nobody will perform, and what is still exported.
StopEnd ==
    /\ upc = "stop" /\ threads = 0
    /\ gone = {} /\ \A s \in Slots : ~session[s].used
    /\ queue' = <<>>
    /\ export' = [e \in Export |-> IF e \in exports THEN NoExport ELSE export[e]]
    /\ exports' = {}
    /\ upc' = "stopped"
    /\ UNCHANGED <<sessions, sfid, workers, idle, threads, work, pc, locals, receiver, unlisted, stop,
                   performed, damaged>>

-----------------------------------------------------------------------------
Perform(w) ==
    \/ AttachFind(w) \/ WalkFind(w) \/ Open(w) \/ Insert(w) \/ Drop(w)
    \/ Get(w) \/ Put(w) \/ ClunkOrStat(w) \/ Free(w) \/ Finish(w) \/ Send(w)

Manage(w) == WorkerStart(w) \/ Rest(w) \/ WorkerWoken(w) \/ WorkerExit(w)

Receive(m) == ReceiveRepeat(m) \/ ReceiveVersion(m) \/ ReceiveRequest(m)

\* A kernel whose memory is damaged can do anything: the model stops there.
Next ==
    /\ ~damaged /\ UNCHANGED setting
    /\ \/ \E w \in Worker : Perform(w) \/ Use(w) \/ Manage(w)
       \/ \E m \in Request : Receive(m)
       \/ ReceiverFree \/ ReceiverExit
       \/ ZrpExport \/ ZrpUnexport \/ FreeExports
       \/ ZrpServerStop \/ StopSession \/ StopEnd

Spec == Init /\ [][Next]_vars

Step(action) == ~damaged /\ action /\ UNCHANGED setting

\* Workers and the receiver run; a write, and a read whose file has data,
\* come back.  A client has no duty to send, nor a process to export or stop.
FairSpec ==
    /\ Spec
    /\ \A w \in Worker : WF_vars(Step(Perform(w) \/ Manage(w)))
    /\ \A w \in Worker : WF_vars(Step(Use(w) /\ Req(w).type # "read"))
    /\ WF_vars(Step(ReceiverFree \/ ReceiverExit))
    /\ WF_vars(Step(FreeExports \/ StopSession \/ StopEnd))

-----------------------------------------------------------------------------
(* Properties                                                              *)

\* s->jobs of every session is the number of its jobs, so a session that is
\* given away has none, and no worker ends a job in another client's session.
JobsCounted ==
    \A s \in Slots : upc # "stopped" =>
        session[s].jobs = Cardinality({w \in Working : job[w].slot = s})
                          + Cardinality({i \in 1 .. Len(queue) : queue[i].slot = s})

\* A fid in a session's table was opened by a request of the session as it is
\* now, never by one sent before a Tversion started it over, and no id is in
\* the table twice.
FidsOfThisSession ==
    \A s \in Slots : \A f \in session[s].fids :
        /\ sfid[f].generation = session[s].generation
        /\ FindFid(s, sfid[f].id) = {f}

\* The references of a fid are those the session table and the workers that
\* use it hold; whoever put the last one is about to free it.
FidRefsCounted ==
    \A f \in Sfid : sfid[f].open =>
        LET users == Cardinality({w \in Worker : held[w] = f /\ pc[w] \notin {"drop", "free"}})
            table == Cardinality({s \in Slots : f \in session[s].fids})
            fresh == Cardinality({w \in Worker : made[w] = f /\ (pc[w] = "insert" \/ rc[w] # "ok")})
        IN  /\ sfid[f].refs = users + table + fresh
            /\ sfid[f].refs = 0 => f \in gone \/ \E w \in Worker : held[w] = f

\* The references of an export are the list's, one for every fid that was put
\* in a table and is not freed, and one for every attach in progress.
ExportRefsCounted ==
    \A e \in Export : export[e].ns =>
        LET listed == IF e \in exports THEN 1 ELSE 0
            fids == Cardinality({f \in Sfid : sfid[f].ex = e /\ sfid[f].refs > 0
                                   /\ \A w \in Worker : made[w] = f => pc[w] = "drop" /\ rc[w] = "ok"})
            opening == Cardinality({w \in Worker : ex[w] = e /\ Req(w).type = "attach"
                                      /\ pc[w] \in {"open", "insert"}})
            n == listed + fids + opening
        IN  export[e].refs = IF n = 0 THEN -1 ELSE n

\* idle and workers are what they say, so enough_workers neither starts more
\* than WORKERS_MAX nor believes in idle workers that are not there.
WorkersCounted ==
    /\ workers = Cardinality({w \in Alive : pc[w] # "leave"})
    /\ idle = Cardinality({w \in Worker : pc[w] \in {"starting", "rest", "asleep", "woken"}})
    /\ threads = Cardinality(Alive) + (IF rpc = "done" THEN 0 ELSE 1)

\* Every count the server keeps is a count of what it says.
CountsTrue == TypeOK /\ FidRefsCounted /\ ExportRefsCounted /\ WorkersCounted /\ JobsCounted

\* No lost wake-up: while jobs are queued, not all idle workers sleep -- one is
\* on its way to the queue -- unless there is none because all are at work.
QueuedJobHasWorker ==
    queue # <<>> /\ ~stop =>
        \/ \E w \in Worker : pc[w] \in {"starting", "rest", "woken", "send"}
        \/ \A w \in Worker : pc[w] # "asleep"

\* The server is sound: its counts are true, its fids belong to the session
\* they are in, and what is queued has somebody to take it.
ServerSound == CountsTrue /\ FidsOfThisSession /\ QueuedJobHasWorker

\* "it is not performed a second time": while the replies of all its requests
\* fit into the cache, no request has its effect twice in one generation of a
\* session, however often and however late it arrives.
NotPerformedTwice ==
    \A m \in Request :
        m.type # "stat" /\ ~MayRunOut /\ Cardinality({o \in Request : o.client = m.client}) <= DONE_CACHE
          => performed[m] <= 1

\* A request that is queued is performed (or the server stops), as long as
\* fewer workers than there may be wait in a read.
QueuedIsTaken == (queue # <<>> /\ ~MayRunOut) ~> (queue = <<>> \/ stop \/ damaged)

\* zrp_server_stop comes back when the reads in progress do.
StopEnds == stop ~> (upc = "stopped" \/ damaged \/ \E w \in Worker : pc[w] = "use")

\* The server goes on: with what is queued, and with stopping.
ServerGoesOn == QueuedIsTaken /\ StopEnds

\* export_put: "marks it for freeing by the caller", and fid_free frees after
\* the lock is given up: an export is freed once, by the one that put the last
\* reference, and nobody looks at it afterwards.
ExportFreedOnce == ~damaged
=============================================================================
