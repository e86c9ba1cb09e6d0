--------------------------- MODULE MCRookReconcile ---------------------------
(* Instances of RookReconcile for TLC.                                     *)
EXTENDS RookReconcile, TLC
CONSTANTS o1, o2, o3, h1, h2, h3

ThreeHosts == (o1 :> h1) @@ (o2 :> h2) @@ (o3 :> h3)
=============================================================================
