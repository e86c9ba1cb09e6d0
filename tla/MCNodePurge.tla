----------------------------- MODULE MCNodePurge -----------------------------
(* Instances of NodePurge for TLC; one OSD per storage node.               *)
EXTENDS NodePurge, TLC
CONSTANTS m1, m2, m3, w1, o1, o2

OsdsOfMasters == (o1 :> m1) @@ (o2 :> m2)
OsdOfWorker == o1 :> w1
=============================================================================
