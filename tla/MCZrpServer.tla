---------------------------- MODULE MCZrpServer ----------------------------
(***************************************************************************)
(* Instances of ZrpServer for TLC.                                         *)
(***************************************************************************)
EXTENDS ZrpServer

CONSTANTS c1, c2, w1, w2, f1, f2, f3, e1

Message(client, tag, type, fid, newfid) ==
    [client |-> client, tag |-> tag, type |-> type, fid |-> fid, newfid |-> newfid]

Version(c) == Message(c, 0, "version", 0, 0)
Attach(c) == Message(c, 1, "attach", 1, 0)

\* A client that attaches while memory runs out, one that walks ...
Attaches == {Version(c1), Attach(c1)}
Walks == {Version(c1), Attach(c1), Message(c1, 2, "walk", 1, 2)}

\* ... and two that take one session from each other, one with a read that
\* waits.
TwoClients ==
    {Version(c1), Attach(c1), Message(c1, 2, "read", 1, 0),
     Version(c2), Attach(c2), Message(c2, 2, "clunk", 1, 0)}

Setting(requests, scarce) == [requests |-> requests, scarce |-> scarce]
OneSetting == {Setting(Walks, FALSE)}
ThreeSettings == {Setting(Attaches, TRUE), Setting(Walks, FALSE), Setting(TwoClients, FALSE)}
=============================================================================
