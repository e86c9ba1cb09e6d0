------------------------- MODULE MCStorageMigration -------------------------
(* Instances of StorageMigration for TLC.                                  *)
EXTENDS StorageMigration
CONSTANTS v1, v2, w1
=============================================================================
