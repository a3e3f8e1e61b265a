---------------------------- MODULE MCZrpClient ----------------------------
(***************************************************************************)
(* Instances of ZrpClient for TLC.                                         *)
(***************************************************************************)
EXTENDS ZrpClient, TLC

Symmetry == Permutations(Thread)

TwoAndFour == "udp" :> 2 @@ "channel" :> 4
TwoEach == "udp" :> 2 @@ "channel" :> 2
=============================================================================
