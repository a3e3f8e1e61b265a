----------------------------- MODULE ZrpClient -----------------------------
(***************************************************************************)
(* The requests of a ZRP client's session (zkt/net/zrp_client.c): threads  *)
(* that send requests on one session and wait, of which one at a time      *)
(* receives for everybody, over UDP (requests and replies are lost,        *)
(* repeated and reordered; each request is sent again at its deadline) or  *)
(* over a channel (nothing is lost, and the server may close it).          *)
(*                                                                         *)
(* A stretch with interrupts off is one action.  A request is known by its *)
(* thread and number, the reply carries its request's tag and name.  The   *)
(* server and the network are external: they answer in any order.          *)
(***************************************************************************)
EXTENDS Lists, FiniteSetsExt

CONSTANTS
    Thread,
    NOTAG,          \* ZRP_NOTAG: tags are 0 .. NOTAG - 1
    TRIES,
    MaxRequests,    \* bound: the requests of all threads, for each transport looked at
    MaxPending      \* bound: how often the server says Rpending

ASSUME ZrpClientAssumption ==
    /\ DOMAIN MaxRequests \subseteq {"udp", "channel"}
    /\ NOTAG \in Nat /\ TRIES \in Nat \ {0} /\ MaxPending \in Nat
    /\ IsFiniteSet(Thread) /\ Cardinality(Thread) < NOTAG

VARIABLES
    calls,          \* s->calls, the newest first
    tag,            \* s->tag
    receiving,      \* s->receiving
    dead,           \* s->dead
    changed,        \* the threads asleep on s->changed
    call,           \* each thread's struct call, rx and the reply in it included
    pc,             \* where each thread is in begin, rpc and end
    tries, polling, \* rpc's locals
    late,           \* the thread's deadline has passed
    inbox,          \* s->inbox and n, of the receiving thread
    owner,          \* the request it found the call of
    requests,       \* the requests on their way to the server
    replies,        \* the replies on their way back
    closed,         \* the server has closed its end of the channel
    number,         \* the requests each thread has begun
    pendings,       \* the times the server has said Rpending
    outcome,        \* what rpc returned last to each thread
    transport,      \* "udp" or "channel" (s->chan)
    damaged         \* a reply was copied for a call that is over

session == <<calls, tag, receiving, dead, changed>>
locals == <<call, tries, polling, late>>
net == <<requests, replies, closed, pendings>>
vars == <<session, locals, net, pc, inbox, owner, number, outcome, damaged, transport>>

udp == transport = "udp"
Tags == 0 .. NOTAG - 1
Requests == [thread : Thread, n : Nat \ {0}]
NoRequest == [thread |-> "none", n |-> 0]
Request(t) == [thread |-> t, n |-> number[t]]

\* What the receiver can find: a reply, a datagram that is none, nothing in
\* time, or the end of the file.
Reply == [tag : Tags, request : Requests, type : {"reply", "pending"}]
Nothing == {"empty", "stray", "timeout", "eof"}
NoReply(why) == [tag |-> 0, request |-> NoRequest, type |-> why]
Len_ == {"none", "reply", "EIO", "ETIMEDOUT", "unsent"}

\* struct call.
Call_ == [tag : Tags, done : BOOLEAN, pending : BOOLEAN, len : Len_, rx : Requests \cup {NoRequest}]

\* The receiving thread's steps, and those of a thread whose call is listed.
Receiving == {"recv", "got", "copy"}
InRpc == {"start", "send", "loop", "resend"} \cup Receiving

TypeOK ==
    /\ calls \in Seq(Thread) /\ tag \in Tags
    /\ receiving \in BOOLEAN /\ dead \in BOOLEAN /\ changed \subseteq Thread
    /\ call \in [Thread -> Call_]
    /\ pc \in [Thread -> InRpc \cup {"idle", "end"}]
    /\ tries \in [Thread -> 0 .. TRIES] /\ polling \in [Thread -> BOOLEAN]
    /\ late \in [Thread -> BOOLEAN]
    /\ inbox \in Reply \cup {NoReply(why) : why \in Nothing} /\ owner \in Requests \cup {NoRequest}
    /\ requests \subseteq [tag : Tags, request : Requests] /\ replies \subseteq Reply
    /\ closed \in BOOLEAN
    /\ number \in [Thread -> Nat] /\ pendings \in 0 .. MaxPending
    /\ outcome \in [Thread -> Len_] /\ damaged \in BOOLEAN

Init ==
    /\ transport \in DOMAIN MaxRequests
    /\ calls = <<>> /\ tag = 0 /\ receiving = FALSE /\ dead = FALSE /\ changed = {}
    /\ call = [t \in Thread |-> [tag |-> 0, done |-> FALSE, pending |-> FALSE, len |-> "none",
                                 rx |-> NoRequest]]
    /\ pc = [t \in Thread |-> "idle"]
    /\ tries = [t \in Thread |-> 0]
    /\ polling = [t \in Thread |-> FALSE]
    /\ late = [t \in Thread |-> FALSE]
    /\ inbox = NoReply("empty") /\ owner = NoRequest
    /\ requests = {} /\ replies = {} /\ closed = FALSE
    /\ number = [t \in Thread |-> 0] /\ pendings = 0
    /\ outcome = [t \in Thread |-> "none"] /\ damaged = FALSE

-----------------------------------------------------------------------------
(* begin and end                                                           *)

InUse(x) == \E i \in 1 .. Len(calls) : call[calls[i]].tag = x

\* Mutant: tags count up and wrap, whoever uses them.
NextTagBlind == (tag + 1) % NOTAG

\* next_tag: the first after the last one given that no listed call uses.
NextTag ==
    LET after(k) == (tag + k) % NOTAG
    IN  after(CHOOSE k \in 1 .. NOTAG :
                  /\ ~InUse(after(k))
                  /\ \A j \in 1 .. k - 1 : InUse(after(j)))

\* begin: a tag is taken and the call is listed in one step.  Before a tag is
\* used again all others have been: the network is assumed to have forgotten
\* it, and the receiver to be done with it.
Begin(t) ==
    /\ pc[t] = "idle" /\ SumFunction(number) < MaxRequests[transport]
    /\ inbox.type \in Nothing \/ inbox.tag # NextTag
    /\ tag' = NextTag
    /\ calls' = <<t>> \o calls
    /\ call' = [call EXCEPT ![t] = [tag |-> NextTag, done |-> FALSE, pending |-> FALSE,
                                    len |-> "none", rx |-> NoRequest]]
    /\ tries' = [tries EXCEPT ![t] = 1]
    /\ polling' = [polling EXCEPT ![t] = FALSE]
    /\ number' = [number EXCEPT ![t] = @ + 1]
    /\ outcome' = [outcome EXCEPT ![t] = "none"]
    /\ requests' = {m \in requests : m.tag # NextTag}
    /\ replies' = {m \in replies : m.tag # NextTag}
    /\ pc' = [pc EXCEPT ![t] = "start"]
    /\ UNCHANGED <<receiving, dead, changed, late, inbox, owner, closed, pendings, damaged, transport>>

\* rpc returns c->len, and end takes the call off the list and frees its buffers.
End(t) ==
    /\ pc[t] = "end"
    /\ outcome' = [outcome EXCEPT ![t] = call[t].len]
    /\ calls' = Without(calls, t)
    /\ pc' = [pc EXCEPT ![t] = "idle"]
    /\ UNCHANGED <<tag, receiving, dead, changed, locals, net, inbox, owner, number, damaged, transport>>

\* The loop ends with an error.
Fail(t, error) ==
    /\ call' = [call EXCEPT ![t].len = error]
    /\ pc' = [pc EXCEPT ![t] = "end"]

-----------------------------------------------------------------------------
(* rpc                                                                     *)

\* A session that is dead takes no more requests.
Start(t) ==
    /\ pc[t] = "start"
    /\ \/ dead /\ Fail(t, "EIO")
       \/ ~dead /\ pc' = [pc EXCEPT ![t] = "send"] /\ UNCHANGED call
    /\ UNCHANGED <<session, tries, polling, late, net, inbox, owner, number, outcome, damaged, transport>>

\* The request goes out, and its deadline is set; over a channel that is
\* closed, and over UDP for want of memory or of a route, it does not.
Send(t) ==
    LET fails == [call EXCEPT ![t] = [@ EXCEPT !.done = TRUE, !.len = IF udp THEN "unsent" ELSE "EIO"]]
    IN  /\ pc[t] = "send"
        /\ \/ /\ udp \/ ~closed
              /\ requests' = requests \cup {[tag |-> call[t].tag, request |-> Request(t)]}
              /\ UNCHANGED call
           \/ udp /\ call' = fails /\ UNCHANGED requests
           \/ ~udp /\ closed /\ call' = fails /\ UNCHANGED requests
        /\ late' = [late EXCEPT ![t] = FALSE]
        /\ pc' = [pc EXCEPT ![t] = "loop"]
        /\ UNCHANGED <<session, tries, polling, replies, closed, pendings, inbox, owner, number, outcome,
                       damaged, transport>>

\* Time passes: a deadline is reached, which ends a sleep.
Expire(t) ==
    /\ udp /\ pc[t] \in {"loop"} \cup Receiving /\ ~late[t]
    /\ late' = [late EXCEPT ![t] = TRUE]
    /\ changed' = changed \ {t}
    /\ UNCHANGED <<calls, tag, receiving, dead, call, tries, polling, net, pc, inbox, owner, number,
                   outcome, damaged, transport>>

AtLoop(t) == pc[t] = "loop" /\ t \notin changed
Waits(t) == AtLoop(t) /\ ~call[t].done /\ ~dead

LoopDone(t) ==
    /\ AtLoop(t) /\ call[t].done
    /\ pc' = [pc EXCEPT ![t] = "end"]
    /\ UNCHANGED <<session, locals, net, inbox, owner, number, outcome, damaged, transport>>

LoopDead(t) ==
    /\ AtLoop(t) /\ ~call[t].done /\ dead
    /\ Fail(t, "EIO")
    /\ UNCHANGED <<session, tries, polling, late, net, inbox, owner, number, outcome, damaged, transport>>

\* The last try has gone unanswered: the session is dead.
GiveUp(t) ==
    /\ Waits(t) /\ udp /\ late[t] /\ ~call[t].pending /\ tries[t] = TRIES
    /\ dead' = TRUE /\ changed' = {}
    /\ Fail(t, "ETIMEDOUT")
    /\ UNCHANGED <<calls, tag, receiving, tries, polling, late, net, inbox, owner, number, outcome,
                   damaged, transport>>

\* The deadline has passed: Rpending since the last one starts the tries over.
Retry(t) ==
    /\ Waits(t) /\ udp /\ late[t]
    /\ call[t].pending \/ tries[t] < TRIES
    /\ polling' = [polling EXCEPT ![t] = @ \/ call[t].pending]
    /\ tries' = [tries EXCEPT ![t] = IF call[t].pending THEN 1 ELSE @ + 1]
    /\ call' = [call EXCEPT ![t].pending = FALSE]
    /\ pc' = [pc EXCEPT ![t] = "resend"]
    /\ UNCHANGED <<session, late, net, inbox, owner, number, outcome, damaged, transport>>

Resend(t) ==
    /\ pc[t] = "resend"
    /\ requests' = requests \cup {[tag |-> call[t].tag, request |-> Request(t)]}
    /\ late' = [late EXCEPT ![t] = FALSE]
    /\ pc' = [pc EXCEPT ![t] = "loop"]
    /\ UNCHANGED <<session, call, tries, polling, replies, closed, pendings, inbox, owner, number,
                   outcome, damaged, transport>>

\* Somebody else receives.
Sleep(t) ==
    /\ Waits(t) /\ ~(udp /\ late[t]) /\ receiving
    /\ changed' = changed \cup {t}
    /\ UNCHANGED <<calls, tag, receiving, dead, locals, net, pc, inbox, owner, number, outcome, damaged, transport>>

Receive(t) ==
    /\ Waits(t) /\ ~(udp /\ late[t]) /\ ~receiving
    /\ receiving' = TRUE
    /\ pc' = [pc EXCEPT ![t] = "recv"]
    /\ UNCHANGED <<calls, tag, dead, changed, locals, net, inbox, owner, number, outcome, damaged, transport>>

\* udp_recv or pipe_recv returns with a message, a copy of which may follow.
Got(t, m) ==
    /\ pc[t] = "recv" /\ m \in replies
    /\ inbox' = m
    /\ \/ replies' = replies \ {m}
       \/ udp /\ m.type = "reply" /\ UNCHANGED replies
    /\ pc' = [pc EXCEPT ![t] = "got"]
    /\ UNCHANGED <<session, locals, requests, closed, pendings, owner, number, outcome, damaged, transport>>

\* It returns without one.
GotNothing(t) ==
    /\ pc[t] = "recv"
    /\ \/ (udp \/ ~closed) /\ inbox' = NoReply("stray")
       \/ udp /\ late[t] /\ inbox' = NoReply("timeout")
       \/ ~udp /\ closed /\ replies = {} /\ inbox' = NoReply("eof")
    /\ pc' = [pc EXCEPT ![t] = "got"]
    /\ UNCHANGED <<session, locals, net, owner, number, outcome, damaged, transport>>

-----------------------------------------------------------------------------
(* What the receiver does with it                                          *)

\* Mutant: the receiver's turn ends and nobody is told.
DoneReceivingQuietly(t) ==
    /\ receiving' = FALSE /\ changed' = changed
    /\ inbox' = NoReply("empty") /\ owner' = NoRequest
    /\ pc' = [pc EXCEPT ![t] = "loop"]

DoneReceiving(t) ==
    /\ receiving' = FALSE /\ changed' = {}
    /\ inbox' = NoReply("empty") /\ owner' = NoRequest
    /\ pc' = [pc EXCEPT ![t] = "loop"]

\* Mutant: the end of the file is dropped like a malformed reply.
DropAlive(t) ==
    /\ pc[t] = "got" /\ inbox.type \in Nothing
    /\ dead' = FALSE
    /\ DoneReceiving(t)
    /\ UNCHANGED <<calls, tag, locals, net, number, outcome, damaged, transport>>

\* A channel at its end of file: the server is gone.  Anything else that is
\* no reply is dropped.
Drop(t) ==
    /\ pc[t] = "got" /\ inbox.type \in Nothing
    /\ dead' = (~udp /\ inbox.type \in {"timeout", "eof"})
    /\ DoneReceiving(t)
    /\ UNCHANGED <<calls, tag, locals, net, number, outcome, damaged, transport>>

\* Mutant: whoever asked last gets it.
OwnersNewest == {t \in Thread : calls # <<>> /\ t = Head(calls)}

\* The listed call with the reply's tag, if there is one.
Owners ==
    {calls[i] : i \in {i \in 1 .. Len(calls) :
        /\ call[calls[i]].tag = inbox.tag
        /\ \A j \in 1 .. i - 1 : call[calls[j]].tag # inbox.tag}}

\* A reply nobody waits for (any more) is dropped.
DropLate(t) ==
    /\ pc[t] = "got" /\ inbox.type \notin Nothing
    /\ \A u \in Owners : inbox.type = "reply" /\ call[u].done
    /\ DoneReceiving(t)
    /\ UNCHANGED <<calls, tag, dead, locals, net, number, outcome, damaged, transport>>

Pending(t) ==
    /\ pc[t] = "got" /\ inbox.type = "pending"
    /\ \E u \in Owners : call' = [call EXCEPT ![u].pending = TRUE]
    /\ DoneReceiving(t)
    /\ UNCHANGED <<calls, tag, dead, tries, polling, late, net, number, outcome, damaged, transport>>

\* The reply is for u: interrupts go on for the copy.
HandOver(t) ==
    /\ pc[t] = "got" /\ inbox.type = "reply"
    /\ \E u \in Owners : ~call[u].done /\ owner' = Request(u)
    /\ pc' = [pc EXCEPT ![t] = "copy"]
    /\ UNCHANGED <<session, locals, net, inbox, number, outcome, damaged, transport>>

\* The call a request was sent with is over, its buffers freed.
Over(r) == number[r.thread] # r.n \/ pc[r.thread] = "idle"

\* memcpy, and the call is done.
Copy(t) ==
    /\ pc[t] = "copy"
    /\ damaged' = Over(owner)
    /\ call' = IF Over(owner)
               THEN call
               ELSE [call EXCEPT ![owner.thread] =
                           [@ EXCEPT !.rx = inbox.request, !.len = "reply", !.done = TRUE]]
    /\ DoneReceiving(t)
    /\ UNCHANGED <<calls, tag, dead, tries, polling, late, net, number, outcome, transport>>

-----------------------------------------------------------------------------
(* The server and the network                                              *)

Environment == <<session, locals, pc, inbox, owner, number, outcome, damaged, transport>>

\* The server answers a request; over UDP a copy of the request may follow.
Answer(m) ==
    /\ m \in requests /\ ~closed
    /\ replies' = replies \cup {[tag |-> m.tag, request |-> m.request, type |-> "reply"]}
    /\ \/ requests' = requests \ {m}
       \/ udp /\ UNCHANGED requests
    /\ UNCHANGED <<Environment, closed, pendings>>

\* It is still working on it.
AnswerPending(m) ==
    /\ udp /\ m \in requests /\ pendings < MaxPending
    /\ replies' = replies \cup {[tag |-> m.tag, request |-> m.request, type |-> "pending"]}
    /\ requests' \in {requests, requests \ {m}}
    /\ pendings' = pendings + 1
    /\ UNCHANGED <<Environment, closed>>

Lose ==
    /\ udp
    /\ \/ \E m \in requests : requests' = requests \ {m} /\ UNCHANGED replies
       \/ \E m \in replies : replies' = replies \ {m} /\ UNCHANGED requests
    /\ UNCHANGED <<Environment, closed, pendings>>

Close ==
    /\ ~udp /\ ~closed
    /\ closed' = TRUE
    /\ UNCHANGED <<Environment, requests, replies, pendings>>

-----------------------------------------------------------------------------
Rpc(t) ==
    \/ Start(t) \/ Send(t) \/ LoopDone(t) \/ LoopDead(t) \/ GiveUp(t) \/ Retry(t) \/ Resend(t)
    \/ Sleep(t) \/ Receive(t) \/ Drop(t) \/ DropLate(t) \/ Pending(t) \/ HandOver(t) \/ Copy(t)
    \/ End(t)

Wait(t) == (\E m \in replies : Got(t, m)) \/ GotNothing(t)

\* A kernel whose memory is damaged can do anything: the model stops there.
Next ==
    /\ ~damaged
    /\ \/ \E t \in Thread : Begin(t) \/ Rpc(t) \/ Expire(t) \/ Wait(t)
       \/ \E m \in requests : Answer(m) \/ AnswerPending(m)
       \/ Lose \/ Close

Spec == Init /\ [][Next]_vars

\* Threads run, time passes and a receiver that can return does; the server
\* owes nothing.
FairSpec ==
    /\ Spec
    /\ \A t \in Thread :
         WF_vars(~damaged /\ Rpc(t)) /\ WF_vars(~damaged /\ Expire(t)) /\ WF_vars(~damaged /\ Wait(t))

-----------------------------------------------------------------------------
(* Properties                                                              *)

\* next_tag and begin: no two requests in flight have one tag, however often
\* the tags have wrapped.
TagsDiffer ==
    \A t, u \in Thread : t # u /\ pc[t] # "idle" /\ pc[u] # "idle" => call[t].tag # call[u].tag

\* rpc: the reply a thread finds in its buffer answers the request it made,
\* whoever received it and whatever late copies arrive.
RightReply == \A t \in Thread : call[t].len = "reply" => call[t].rx = Request(t)

\* A thread sleeps on s->changed only while another one receives for it, and
\* one thread receives at a time: when the receiver has its own reply and
\* leaves, a sleeper takes its place.
SomeoneReceives ==
    /\ changed # {} => receiving
    /\ receiving => Cardinality({t \in Thread : pc[t] \in Receiving}) = 1

\* When a session dies every thread asleep in it is woken, to fail at once
\* (docs/zrp.md: "its other requests, and later ones, fail at once").
DeadWakesAll == dead => changed = {}

\* The thread's request is with the server, or its reply is on its way, or in
\* the receiver's hands.
Underway(t) ==
    \/ \E m \in requests : m.request = Request(t)
    \/ \E m \in replies : m.request = Request(t)
    \/ inbox.request = Request(t)

\* Over a channel that is open, a request that is out and not answered is with
\* the server, or its reply is on its way, or in the receiver's hands.
NothingLost ==
    ~udp /\ ~closed =>
      \A t \in Thread : pc[t] \in {"loop"} \cup Receiving /\ ~call[t].done => Underway(t)

\* The session is sound: tags are told apart, no request of an open channel is
\* lost, nobody sleeps in a session that is dead, and every reply gets to the
\* thread that asked.
SessionSound == TypeOK /\ TagsDiffer /\ NothingLost /\ DeadWakesAll /\ RightReply

\* Every request ends: over UDP the server answers or the tries run out, and
\* when the server closes its end of a channel all that wait come back.
EveryRpcEnds ==
    \A t \in Thread : (pc[t] # "idle" /\ (udp \/ closed)) ~> (pc[t] = "idle" \/ damaged)

\* docs/zrp.md, of a request that timed out: the kernel "treats the session as
\* dead".
TimedOutMeansDead == \A t \in Thread : outcome[t] = "ETIMEDOUT" => dead

\* rpc: "The owner waits until done, so its buffer stays put."
BufferStaysPut == ~damaged
=============================================================================
