---------------------------- MODULE MCInternalLB ----------------------------
(* Instances of InternalLB for TLC.                                        *)
EXTENDS InternalLB
=============================================================================
