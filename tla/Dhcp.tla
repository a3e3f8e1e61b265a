-------------------------------- MODULE Dhcp --------------------------------
(***************************************************************************)
(* dhcp.c: the client's thread, which gets an address (DISCOVER, OFFER,    *)
(* REQUEST, ACK), uses it, and asks for it again at half its lease.  The   *)
(* network loses, delays and repeats messages, across exchanges too; two   *)
(* servers share it, and give addresses whose lease has run out to others. *)
(* Each exchange has its own transaction number; an exchange is short      *)
(* against a lease, so leases run out only while the client sleeps.        *)
(***************************************************************************)
EXTENDS Naturals, FiniteSets

CONSTANTS Server, Address, None,
          Tries,      \* a DISCOVER, and a REQUEST, is sent this often
          Lease,      \* sleeps a lease lasts
          MaxXid      \* exchanges

VARIABLES pc,        \* the thread: "sleep", "offer", "ack"
          tries,     \* messages sent in this step of the exchange
          xid,
          offer,     \* the offer taken: [server, ip], or its absence
          ip,        \* what the interface uses: None, or [server, ip]
          fresh,     \* was it applied since the last sleep?
          net,       \* every message sent: any may arrive, any number of times, or not
          bound      \* bound[s][a]: sleeps left of our lease; 0 free; "other"

vars == <<pc, tries, xid, offer, ip, fresh, net, bound>>

Nothing == [server |-> None, ip |-> None]
Other == Lease + 1     \* somebody else has it

Init == /\ pc = "sleep" /\ tries = 0 /\ xid = 0 /\ offer = Nothing /\ ip = Nothing /\ fresh = FALSE
        /\ net = {} /\ bound = [s \in Server |-> [a \in Address |-> 0]]

Message(type, x, s, a) == [type |-> type, xid |-> x, server |-> s, ip |-> a]

(* acquire begins: a new transaction number, the first DISCOVER.           *)
Acquire == /\ pc = "sleep" /\ xid < MaxXid /\ xid' = xid + 1
           /\ pc' = "offer" /\ tries' = 1 /\ offer' = Nothing
           /\ net' = net \cup {Message("discover", xid', None, None)}
           /\ UNCHANGED <<ip, fresh, bound>>

ParseAny(msg, types) == msg.type \in types

(* parse, await: a reply counts if it is of our transaction and of a type  *)
(* that is waited for; others are skipped.                                 *)
Parse(msg, types) == msg.xid = xid /\ msg.type \in types

(* An offer is taken: the REQUEST goes out.                                *)
Offered(msg) == /\ pc = "offer" /\ msg \in net /\ Parse(msg, {"offer"})
                /\ offer' = [server |-> msg.server, ip |-> msg.ip]
                /\ pc' = "ack" /\ tries' = 1
                /\ net' = net \cup {Message("request", xid, msg.server, msg.ip)}
                /\ UNCHANGED <<xid, ip, fresh, bound>>

(* apply: the address acknowledged is the interface's.                     *)
Apply(msg) == /\ pc = "ack" /\ msg \in net /\ Parse(msg, {"ack"})
              /\ ip' = [server |-> msg.server, ip |-> msg.ip] /\ fresh' = TRUE
              /\ pc' = "sleep" /\ UNCHANGED <<tries, xid, offer, net, bound>>

(* A NAK, or a step that had no answer Tries times: the exchange failed,   *)
(* and the old address stays in use.                                       *)
Nak(msg) == /\ pc = "ack" /\ msg \in net /\ Parse(msg, {"nak"})
            /\ pc' = "sleep" /\ UNCHANGED <<tries, xid, offer, ip, fresh, net, bound>>

Again == /\ pc \in {"offer", "ack"}
         /\ IF tries < Tries
            THEN /\ tries' = tries + 1 /\ UNCHANGED pc
                 /\ net' = net \cup {IF pc = "offer" THEN Message("discover", xid, None, None)
                                     ELSE Message("request", xid, offer.server, offer.ip)}
            ELSE pc' = "sleep" /\ UNCHANGED <<tries, net>>
         /\ UNCHANGED <<xid, offer, ip, fresh, bound>>

(* dhcp_main sleeps, half the lease or a pause: leases run.                *)
Sleep == /\ pc = "sleep" /\ fresh' = FALSE /\ xid > 0
         /\ bound' = [s \in Server |-> [a \in Address |->
                        IF bound[s][a] \in 1 .. Lease THEN bound[s][a] - 1 ELSE bound[s][a]]]
         /\ UNCHANGED <<pc, tries, xid, offer, ip, net>>

(* A server: offers an address it has free or that is ours; binds it when  *)
(* it is asked for by name, or refuses; gives free ones to others.         *)
Offer(s, msg, a) == /\ msg \in net /\ msg.type = "discover" /\ bound[s][a] # Other
                    /\ net' = net \cup {Message("offer", msg.xid, s, a)}
                    /\ UNCHANGED <<pc, tries, xid, offer, ip, fresh, bound>>

Answer(msg) == /\ msg \in net /\ msg.type = "request"
               /\ LET s == msg.server  a == msg.ip
                  IN IF bound[s][a] = Other
                     THEN net' = net \cup {Message("nak", msg.xid, s, a)} /\ UNCHANGED bound
                     ELSE /\ net' = net \cup {Message("ack", msg.xid, s, a)}
                          /\ bound' = [bound EXCEPT ![s][a] = Lease]
               /\ UNCHANGED <<pc, tries, xid, offer, ip, fresh>>

GiveToOther(s, a) == /\ bound[s][a] = 0 /\ bound' = [bound EXCEPT ![s][a] = Other]
                     /\ UNCHANGED <<pc, tries, xid, offer, ip, fresh, net>>

Next == \/ Acquire \/ Again \/ Sleep
        \/ \E msg \in net : Offered(msg) \/ Apply(msg) \/ Nak(msg) \/ Answer(msg)
                             \/ \E s \in Server, a \in Address : Offer(s, msg, a)
        \/ \E s \in Server, a \in Address : GiveToOther(s, a)

Spec == Init /\ [][Next]_vars

(***************************************************************************)
(* When an address is applied, the server that acknowledged it has it      *)
(* bound to this machine, whatever answers of this or an earlier exchange  *)
(* the network repeats; an exchange ends after Tries messages of each      *)
(* kind.                                                                   *)
(***************************************************************************)
AppliedIsBound == (fresh => bound[ip.server][ip.ip] \in 1 .. Lease) /\ tries <= Tries
====
