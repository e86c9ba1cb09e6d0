----------------------- MODULE MCObjectStoreMigration -----------------------
(* Instances of ObjectStoreMigration for TLC.                              *)
EXTENDS ObjectStoreMigration
CONSTANTS r1, r2

\* A single MinIO to be migrated, or one that moves to ha-minio, not both at once.
OneMove == {<<TRUE, FALSE, 0>>, <<TRUE, TRUE, MaxApprovals>>}
SingleMinio == {<<TRUE, FALSE, 0>>}
HAMinio == {<<TRUE, TRUE, 0>>}
=============================================================================
