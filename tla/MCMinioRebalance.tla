-------------------------- MODULE MCMinioRebalance --------------------------
(* Instances of MinioRebalance for TLC.                                    *)
EXTENDS MinioRebalance
=============================================================================
