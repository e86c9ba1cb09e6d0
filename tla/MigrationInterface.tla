------------------------- MODULE MigrationInterface -------------------------
(***************************************************************************)
(* What /storagemigration promises whoever polls its status: an abstract   *)
(* specification of the storage migration, implemented by StorageMigration.*)
(* "reported" is the answer of GetMigrationStatus and "moved" those of the *)
(* volumes there were at the start that are on the Rook class.             *)
(***************************************************************************)
CONSTANT Volumes

VARIABLES reported, moved

vars == <<reported, moved>>

Stopped == {"not started", "not ready", "failed"}
Running == {"running object storage migration", "running pvc migration"}

Init == reported = "not started" /\ moved = {}

Begin ==
  /\ reported \in Stopped
  /\ reported' = "running object storage migration" /\ UNCHANGED moved

\* The cluster is not ready for a migration, or cannot be asked.
Refuse ==
  /\ reported \in Stopped
  /\ reported' \in {"not ready", "failed"} /\ UNCHANGED moved

ObjectsMoved ==
  /\ reported = "running object storage migration"
  /\ reported' = "running pvc migration" /\ UNCHANGED moved

\* Volumes move while the status says so, never back and never later.
MoveVolume ==
  /\ reported = "running pvc migration"
  /\ \E v \in Volumes \ moved : moved' = moved \cup {v}
  /\ UNCHANGED reported

Complete ==
  /\ reported = "running pvc migration" /\ moved = Volumes
  /\ reported' = "completed" /\ UNCHANGED moved

Fail ==
  /\ reported \in Running
  /\ reported' = "failed" /\ UNCHANGED moved

\* The status is forgotten with the process, unless it is "completed".
Restart ==
  /\ reported # "completed"
  /\ reported' = "not started" /\ UNCHANGED moved

Next == Begin \/ Refuse \/ ObjectsMoved \/ MoveVolume \/ Complete \/ Fail \/ Restart

Spec == Init /\ [][Next]_vars

\* A migration that runs ends.
RunsEnd == reported \in Running ~> reported \notin Running
=============================================================================
