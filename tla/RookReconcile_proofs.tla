------------------------- MODULE RookReconcile_proofs -------------------------
(***************************************************************************)
(* Proofs about RookReconcile, for any OSDs, hosts, levels of replication  *)
(* and bounds.                                                             *)
(***************************************************************************)
EXTENDS RookReconcile, FiniteSetTheorems, TLAPS

(* Where a tick may be.                                                     *)

Late == {"health", "healthMin", "mon", "mgr", "csi", "mds", "prioritize", "end"}
Sizing == {"size", "min"}
InResource == Sizing \cup {"patch", "pgNum"}

\* The lists of pools that are left of the three resources' commands.
BlockLeft == {<<"block">>}
FsLeft == {<<"fsMeta", "fsData">>, <<"fsData">>}
OsLeft == {<<"osMeta", "nonEc", "osData">>, <<"nonEc", "osData">>, <<"osData">>}

\* Where the tick may be, by the version and by the resource.
PlaceInv ==
  /\ cr \in Resource
  /\ CrPool \subseteq pools /\ (Before14 => "health" \notin pools)
  /\ step \in Sizing =>
       /\ Before14
       /\ \/ cr = "block" /\ todo \in BlockLeft
          \/ cr = "fs" /\ todo \in FsLeft
          \/ cr = "os" /\ todo \in OsLeft
  /\ step = "pgNum" => ~Before14 /\ cr = "os"

\* What is left of each list when its first pool is done.
LEMMA Lists ==
  /\ \A l \in BlockLeft \cup FsLeft \cup OsLeft : l \in Seq(Pool) /\ Head(l) \in Pool
  /\ \A l \in BlockLeft : Head(l) = "block" /\ ~(Len(l) > 1)
  /\ \A l \in FsLeft : Len(l) > 1 =>
       l = <<"fsMeta", "fsData">> /\ Head(l) = "fsMeta" /\ Tail(l) = <<"fsData">>
  /\ \A l \in OsLeft : Len(l) > 1 =>
       \/ l = <<"osMeta", "nonEc", "osData">> /\ Head(l) = "osMeta" /\ Tail(l) = <<"nonEc", "osData">>
       \/ l = <<"nonEc", "osData">> /\ Head(l) = "nonEc" /\ Tail(l) = <<"osData">>
  /\ \A l \in FsLeft : ~(Len(l) > 1) => l = <<"fsData">> /\ Head(l) = "fsData"
  /\ \A l \in OsLeft : ~(Len(l) > 1) => l = <<"osData">> /\ Head(l) = "osData"
<1>1. /\ Len(<<"block">>) = 1 /\ Head(<<"block">>) = "block"
      /\ Len(<<"fsMeta", "fsData">>) = 2 /\ Head(<<"fsMeta", "fsData">>) = "fsMeta"
      /\ Len(<<"fsData">>) = 1 /\ Head(<<"fsData">>) = "fsData"
      /\ Len(<<"osMeta", "nonEc", "osData">>) = 3 /\ Head(<<"osMeta", "nonEc", "osData">>) = "osMeta"
      /\ Len(<<"nonEc", "osData">>) = 2 /\ Head(<<"nonEc", "osData">>) = "nonEc"
      /\ Len(<<"osData">>) = 1 /\ Head(<<"osData">>) = "osData"
  OBVIOUS
<1>2. /\ Tail(<<"fsMeta", "fsData">>) = <<"fsData">>
      /\ Tail(<<"osMeta", "nonEc", "osData">>) = <<"nonEc", "osData">>
      /\ Tail(<<"nonEc", "osData">>) = <<"osData">>
  OBVIOUS
<1>3. /\ {"block", "fsMeta", "fsData", "osMeta", "osData", "nonEc"} \subseteq Pool
  BY DEF Pool, CrPool
<1>4. \A l \in BlockLeft \cup FsLeft \cup OsLeft : l \in Seq(Pool)
  <2>1. <<"block">> \in Seq(Pool) /\ <<"fsData">> \in Seq(Pool) /\ <<"osData">> \in Seq(Pool)
    BY <1>3
  <2>2. <<"fsMeta", "fsData">> \in Seq(Pool) /\ <<"nonEc", "osData">> \in Seq(Pool)
    BY <1>3
  <2>3. <<"osMeta", "nonEc", "osData">> \in Seq(Pool)
    BY <1>3
  <2>4. QED
    BY <2>1, <2>2, <2>3 DEF BlockLeft, FsLeft, OsLeft
<1>5. QED
  BY <1>1, <1>2, <1>3, <1>4 DEF BlockLeft, FsLeft, OsLeft

\* A number of hosts is at most that of the OSDs.
LEMMA HostsBound ==
  ASSUME NEW S \in SUBSET Osd
  PROVE  Cardinality(Hosts(S)) \in 0 .. Cardinality(Osd)
<1> DEFINE f == [o \in S |-> HostOf[o]]
<1>1. IsFiniteSet(S) /\ Cardinality(S) <= Cardinality(Osd) /\ Cardinality(Osd) \in Nat
  BY FS_Subset, FS_CardinalityType, ConstantsAssumption
<1>2. f \in Surjection(S, Hosts(S))
  BY DEF Surjection, Hosts
<1>3. IsFiniteSet(Hosts(S)) /\ Cardinality(Hosts(S)) <= Cardinality(S)
  BY <1>1, <1>2, FS_Surjection
<1>4. Cardinality(Hosts(S)) \in Nat /\ Cardinality(S) \in Nat
  BY <1>1, <1>3, FS_CardinalityType
<1>5. QED
  BY <1>1, <1>3, <1>4

\* Where the tick goes behind a resource.
LEMMA NextResource ==
  ASSUME cr \in Resource, EndResource
  PROVE  /\ cr = "block" => step' = "patch" /\ cr' = "fs"
         /\ cr = "fs" => step' = "patch" /\ cr' = "os"
         /\ cr = "os" => step' = "health" /\ cr' = "block"
         /\ todo' = << >>
  BY DEF EndResource, At, Resource

\* The step of a resource whose own pools are not all done ends it, or goes on with one
\* of its lists.
LEMMA NextList ==
  ASSUME PlaceInv, step \in Sizing
  PROVE  /\ Head(todo) \in Pool /\ todo \in Seq(Pool)
         /\ Len(todo) > 1 =>
              /\ cr = "fs" => Tail(todo) \in FsLeft
              /\ cr = "os" => Tail(todo) \in OsLeft
              /\ cr # "block"
         /\ Head(todo) \notin pools => Head(todo) = "nonEc" /\ Len(todo) > 1
<1>1. \/ cr = "block" /\ todo \in BlockLeft
      \/ cr = "fs" /\ todo \in FsLeft
      \/ cr = "os" /\ todo \in OsLeft
  BY DEF PlaceInv
<1>2. {"block", "fsMeta", "fsData", "osMeta", "osData"} \subseteq pools
  BY DEF PlaceInv, CrPool
<1>3. <<"fsData">> \in FsLeft /\ <<"osData">> \in OsLeft /\ <<"nonEc", "osData">> \in OsLeft
  BY DEF FsLeft, OsLeft
<1>4. CASE cr = "block" /\ todo \in BlockLeft
  BY <1>2, <1>4, Lists
<1>5. CASE cr = "fs" /\ todo \in FsLeft
  BY <1>2, <1>3, <1>5, Lists
<1>6. CASE cr = "os" /\ todo \in OsLeft
  BY <1>2, <1>3, <1>6, Lists
<1>7. QED
  BY <1>1, <1>4, <1>5, <1>6

\* A tick keeps to the order of its resources and of their commands.
LEMMA PlaceInvariant == Spec => []PlaceInv
<1>1. Init => PlaceInv
  BY DEF Init, PlaceInv, Sizing, CrPool, Pool, Resource
<1>2. PlaceInv /\ [Next]_vars => PlaceInv'
  <2> SUFFICES ASSUME PlaceInv, [Next]_vars PROVE PlaceInv'
    OBVIOUS
  <2> USE DEF PlaceInv, Sizing, Before14, versions, place, At
  <2>a. ASSUME EndResource, UNCHANGED versions
        PROVE  PlaceInv'
    <3>1. cr' \in Resource /\ step' \in {"patch", "health"}
      BY <2>a, NextResource DEF Resource
    <3>2. QED
      BY <2>a, <3>1
  <2>1. CASE OperatorStep
    <3>1. CASE Tick
      BY <3>1 DEF Tick, Resource
    <3>2. CASE CountHosts
      BY <3>2 DEF CountHosts, Resource
    <3>3. CASE GetCephVersion
      BY <3>3 DEF GetCephVersion, Resource
    <3>4. CASE PatchResource
      <4>1. UNCHANGED versions
        BY <3>4 DEF PatchResource
      <4>2. \/ EndResource
            \/ Before14 /\ At("size", cr, Commands(cr))
            \/ ~Before14 /\ cr = "os" /\ At("pgNum", cr, << >>)
        BY <3>4 DEF PatchResource, PatchMade, PatchFails, AfterPatch
      <4>3. CASE Before14 /\ At("size", cr, Commands(cr))
        BY <4>1, <4>3 DEF Commands, Resource, BlockLeft, FsLeft, OsLeft
      <4>4. CASE ~Before14 /\ cr = "os" /\ At("pgNum", cr, << >>)
        BY <4>1, <4>4
      <4>5. QED
        BY <2>a, <4>1, <4>2, <4>3, <4>4
    <3>5. CASE SetSize
      <4>1. step \in Sizing /\ UNCHANGED versions
        BY <3>5 DEF SetSize
      <4>2. \/ EndResource
            \/ step' = "min" /\ UNCHANGED <<cr, todo>>
            \/ step' = "size" /\ Head(todo) \notin pools /\ cr' = cr /\ todo' = Tail(todo)
        BY <3>5 DEF SetSize
      <4>3. CASE step' \in Sizing /\ UNCHANGED <<cr, todo>>
        BY <4>1, <4>3
      <4>4. CASE step' = "size" /\ Len(todo) > 1 /\ cr' = cr /\ todo' = Tail(todo)
        BY <4>1, <4>4, NextList
      <4>5. QED
        BY <2>a, <4>1, <4>2, <4>3, <4>4, NextList
    <3>6. CASE SetMinSize
      <4>1. step \in Sizing /\ UNCHANGED versions
        BY <3>6 DEF SetMinSize
      <4>2. \/ EndResource
            \/ step' = "size" /\ Len(todo) > 1 /\ cr' = cr /\ todo' = Tail(todo)
        BY <3>6 DEF SetMinSize
      <4>3. CASE step' \in Sizing /\ UNCHANGED <<cr, todo>>
        BY <4>1, <4>3
      <4>4. CASE step' = "size" /\ Len(todo) > 1 /\ cr' = cr /\ todo' = Tail(todo)
        BY <4>1, <4>4, NextList
      <4>5. QED
        BY <2>a, <4>1, <4>2, <4>3, <4>4, NextList
    <3>7. CASE SetPgNumMin
      BY <2>a, <3>7 DEF SetPgNumMin
    <3>8. CASE SetDeviceHealthSize
      <4>1. step' \in {"mon", "healthMin"} /\ cr' = cr /\ UNCHANGED versions
        BY <3>8 DEF SetDeviceHealthSize, HealthSized, HealthFails
      <4>2. QED
        BY <4>1
    <3>9. CASE SetDeviceHealthMinSize
      BY <3>9 DEF SetDeviceHealthMinSize
    <3>10. CASE ReconcileMonCount
      BY <3>10 DEF ReconcileMonCount
    <3>11. CASE ReconcileMgrCount
      BY <3>11 DEF ReconcileMgrCount
    <3>12. CASE SetCephCSIResources
      BY <3>12 DEF SetCephCSIResources
    <3>13. CASE PatchFilesystemMDSPlacement
      BY <3>13 DEF PatchFilesystemMDSPlacement
    <3>14. CASE PrioritizeRook
      BY <3>14 DEF PrioritizeRook
    <3>15. CASE EndTick
      BY <3>15 DEF EndTick, Resource
    <3>16. QED
      BY <2>1, <3>1, <3>2, <3>3, <3>4, <3>5, <3>6, <3>7, <3>8,
         <3>9, <3>10, <3>11, <3>12, <3>13, <3>14, <3>15 DEF OperatorStep
  <2>2. CASE \E r \in Resource : RookApplies(r)
    BY <2>2 DEF RookApplies
  <2>3. CASE \E o \in Osd : OsdChange(o)
    BY <2>3 DEF OsdChange
  <2>4. CASE PodLost
    BY <2>4 DEF PodLost
  <2>5. CASE PodReturns
    BY <2>5 DEF PodReturns
  <2>6. CASE UNCHANGED vars
    BY <2>6 DEF vars
  <2>7. QED
    BY <2>1, <2>2, <2>3, <2>4, <2>5, <2>6 DEF Next
<1>3. QED
  BY <1>1, <1>2, PTL DEF Spec

\* The levels and sizes that the actions assign.
LEMMA LevelType ==
  /\ \A n \in Nat : Factor(n) \in Size /\ MinOf(n) \in {1, 2}
  /\ Size \subseteq Nat \ {0} /\ MinCephPoolReplication \in Size
  BY ConstantsAssumption DEF Factor, Size, MinOf

(* The parts of the type invariant.                                         *)

VersionsType ==
  rook \in {"1.0", "1.4", "1.9"} /\ ceph \in {"pacific or older", "quincy"} /\ pools \subseteq Pool
SizesType ==
  /\ spec \in [CrPool -> Size] /\ size \in [Pool -> Size] /\ minSize \in [Pool -> {1, 2}]
  /\ level \in Size
HostsType ==
  /\ osds \subseteq Osd /\ classed \subseteq osds
  /\ nodes \in 0 .. Cardinality(Osd) /\ count \in 0 .. Cardinality(Osd)
DaemonsType == mons \in {1, 3} /\ mgrs \in {1, 2}
PlaceType == step \in Step /\ cr \in Resource /\ todo \in Seq(Pool) /\ i \in 0 .. Period - 1
FlagsType ==
  /\ csiResources \in BOOLEAN /\ mdsSpread \in BOOLEAN /\ full \in BOOLEAN /\ failed \in BOOLEAN
  /\ skipped \in BOOLEAN /\ didUpdate \in BOOLEAN /\ cephVersion \in BOOLEAN /\ pod \in BOOLEAN
CountersType == osdChanges \in Nat /\ podLosses \in Nat /\ failures \in Nat

\* Together they are the type invariant.
LEMMA TypeParts ==
  TypeOK <=> /\ VersionsType /\ SizesType /\ HostsType /\ DaemonsType
             /\ PlaceType /\ FlagsType /\ CountersType
  BY DEF TypeOK, VersionsType, SizesType, HostsType, DaemonsType, PlaceType, FlagsType, CountersType

\* A pool that ceph resizes keeps its type.
LEMMA ResizeType ==
  ASSUME SizesType, NEW p \in Pool, NEW n \in Size, Resize(p, n)
  PROVE  size' \in [Pool -> Size] /\ minSize' \in [Pool -> {1, 2}]
<1>1. n \in Nat /\ n >= 1
  BY LevelType
<1>2. minSize[p] \in {1, 2}
  BY DEF SizesType
<1>3. (IF n < minSize[p] THEN n ELSE minSize[p]) \in {1, 2}
  BY <1>1, <1>2
<1>4. QED
  BY <1>3 DEF Resize, SizesType

\* The flags of the tick and of the cluster stay Boolean.
LEMMA FlagsStep == ASSUME FlagsType, [Next]_vars PROVE FlagsType'
<1> USE DEF FlagsType, versions, sizes, upkeep, counts, daemons, place, locals, outcome, env,
            Works, Fails, CephRuns, CephSkipped, CephRefuses
<1>1. CASE OperatorStep
  <2>1. CASE Tick
    BY <2>1 DEF Tick
  <2>2. CASE CountHosts
    BY <2>2 DEF CountHosts
  <2>3. CASE GetCephVersion
    BY <2>3 DEF GetCephVersion
  <2>4. CASE PatchResource
    BY <2>4 DEF PatchResource, PatchMade, PatchFails, AfterPatch, EndResource
  <2>5. CASE SetSize
    BY <2>5 DEF SetSize
  <2>6. CASE SetMinSize
    BY <2>6 DEF SetMinSize
  <2>7. CASE SetPgNumMin
    BY <2>7 DEF SetPgNumMin
  <2>8. CASE SetDeviceHealthSize
    BY <2>8 DEF SetDeviceHealthSize, HealthSized, HealthFails
  <2>9. CASE SetDeviceHealthMinSize
    BY <2>9 DEF SetDeviceHealthMinSize
  <2>10. CASE ReconcileMonCount
    BY <2>10 DEF ReconcileMonCount
  <2>11. CASE ReconcileMgrCount
    BY <2>11 DEF ReconcileMgrCount
  <2>12. CASE SetCephCSIResources
    BY <2>12 DEF SetCephCSIResources
  <2>13. CASE PatchFilesystemMDSPlacement
    BY <2>13 DEF PatchFilesystemMDSPlacement
  <2>14. CASE PrioritizeRook
    BY <2>14 DEF PrioritizeRook
  <2>15. CASE EndTick
    BY <2>15 DEF EndTick, NoTick
  <2>16. QED
    BY <1>1, <2>1, <2>2, <2>3, <2>4, <2>5, <2>6, <2>7, <2>8,
       <2>9, <2>10, <2>11, <2>12, <2>13, <2>14, <2>15 DEF OperatorStep
<1>2. CASE \E r \in Resource : RookApplies(r)
  BY <1>2 DEF RookApplies
<1>3. CASE \E o \in Osd : OsdChange(o)
  BY <1>3 DEF OsdChange
<1>4. CASE PodLost
  BY <1>4 DEF PodLost
<1>5. CASE PodReturns
  BY <1>5 DEF PodReturns
<1>6. CASE UNCHANGED vars
  BY <1>6 DEF vars
<1>7. QED
  BY <1>1, <1>2, <1>3, <1>4, <1>5, <1>6 DEF Next

\* No action changes the versions or the pools that exist.
LEMMA VersionsStep == ASSUME VersionsType, [Next]_vars PROVE VersionsType'
<1> USE DEF VersionsType, versions, sizes, upkeep, counts, daemons, place, locals, outcome, env
<1>1. CASE UNCHANGED vars
  BY <1>1 DEF vars
<1>2. QED
  BY <1>1
     DEF Next, OperatorStep,
         Tick, CountHosts, GetCephVersion, PatchResource, SetSize, SetMinSize, SetPgNumMin,
         SetDeviceHealthSize, SetDeviceHealthMinSize, ReconcileMonCount, ReconcileMgrCount,
         SetCephCSIResources, PatchFilesystemMDSPlacement, PrioritizeRook, EndTick, RookApplies,
         OsdChange, PodLost, PodReturns

\* The counts of the daemons stay among those that are wanted.
LEMMA DaemonsStep == ASSUME DaemonsType, [Next]_vars PROVE DaemonsType'
<1> USE DEF DaemonsType, versions, sizes, upkeep, counts, daemons, place, locals, outcome, env
<1>1. CASE ReconcileMonCount
  BY <1>1 DEF ReconcileMonCount, DesiredMons
<1>2. CASE ReconcileMgrCount
  BY <1>2 DEF ReconcileMgrCount, DesiredMgrs
<1>3. CASE UNCHANGED vars
  BY <1>3 DEF vars
<1>4. QED
  BY <1>1, <1>2, <1>3
     DEF Next, OperatorStep,
         Tick, CountHosts, GetCephVersion, PatchResource, SetSize, SetMinSize, SetPgNumMin,
         SetDeviceHealthSize, SetDeviceHealthMinSize, SetCephCSIResources,
         PatchFilesystemMDSPlacement, PrioritizeRook, EndTick, RookApplies, OsdChange, PodLost,
         PodReturns

\* The OSDs, and what the tick has read of their hosts.
LEMMA HostsStep == ASSUME HostsType, [Next]_vars PROVE HostsType'
<1> USE DEF HostsType, versions, sizes, upkeep, counts, daemons, place, locals, outcome, env
<1>1. CASE Tick
  BY <1>1, HostsBound DEF Tick
<1>2. CASE CountHosts
  <2>1. Cardinality(Hosts(osds \ HighIds)) \in 0 .. Cardinality(Osd)
    BY HostsBound
  <2>2. QED
    BY <1>2, <2>1 DEF CountHosts
<1>3. CASE PrioritizeRook
  <2>1. \A o \in NextOsd : o \subseteq osds
    BY DEF NextOsd
  <2>2. QED
    BY <1>3, <2>1 DEF PrioritizeRook
<1>4. CASE EndTick
  <2>1. 0 \in 0 .. Cardinality(Osd)
    BY FS_CardinalityType, ConstantsAssumption
  <2>2. QED
    BY <1>4, <2>1 DEF EndTick, NoTick
<1>5. CASE \E o \in Osd : OsdChange(o)
  BY <1>5 DEF OsdChange
<1>6. CASE UNCHANGED vars
  BY <1>6 DEF vars
<1>7. QED
  BY <1>1, <1>2, <1>3, <1>4, <1>5, <1>6
     DEF Next, OperatorStep,
         GetCephVersion, PatchResource, SetSize, SetMinSize, SetPgNumMin, SetDeviceHealthSize,
         SetDeviceHealthMinSize, ReconcileMonCount, ReconcileMgrCount, SetCephCSIResources,
         PatchFilesystemMDSPlacement, RookApplies, PodLost, PodReturns

\* The bounds on the environment are counted in Nat.
LEMMA CountersStep == ASSUME CountersType, [Next]_vars PROVE CountersType'
<1> USE DEF CountersType, versions, sizes, upkeep, counts, daemons, place, locals, outcome, env
<1> USE DEF Works, Fails, CephRuns, CephSkipped, CephRefuses, PatchMade, PatchFails, HealthSized, HealthFails
<1>1. CASE UNCHANGED vars
  BY <1>1 DEF vars
<1>2. QED
  BY <1>1
     DEF Next, OperatorStep,
         Tick, CountHosts, GetCephVersion, PatchResource, SetSize, SetMinSize, SetPgNumMin,
         SetDeviceHealthSize, SetDeviceHealthMinSize, ReconcileMonCount, ReconcileMgrCount,
         SetCephCSIResources, PatchFilesystemMDSPlacement, PrioritizeRook, EndTick, RookApplies,
         OsdChange, PodLost, PodReturns

\* Sizes and levels stay between the configured ones.
LEMMA SizesStep == ASSUME VersionsType, HostsType, PlaceInv, SizesType, [Next]_vars PROVE SizesType'
<1> USE DEF SizesType, versions, sizes, upkeep, counts, daemons, place, locals, outcome, env
<1>a. /\ CrPool \subseteq Pool /\ "health" \in Pool /\ "block" \in CrPool
      /\ \A n \in Size : MinOf(n) \in {1, 2} /\ n \in Nat \ {0}
  BY LevelType DEF Pool, CrPool
<1>1. CASE CountHosts
  <2>1. count' \in Nat => Factor(count') \in Size
    BY LevelType
  <2>2. Cardinality(Hosts(osds \ HighIds)) \in Nat
    BY HostsBound DEF HostsType
  <2>3. QED
    BY <1>1, <2>1, <2>2 DEF CountHosts
<1>2. CASE PatchResource
  <2>1. spec' \in {spec, PatchedSpec(cr)} /\ UNCHANGED <<size, minSize, level>>
    BY <1>2 DEF PatchResource, PatchMade, PatchFails
  <2>2. PatchedSpec(cr) \in [CrPool -> Size]
    BY DEF PatchedSpec
  <2>3. QED
    BY <2>1, <2>2
<1>3. CASE SetSize
  <2>1. Head(todo) \in Pool
    BY <1>3, NextList DEF SetSize, Sizing
  <2>2. CASE Resize(Head(todo), level)
    BY <1>3, <2>1, <2>2, ResizeType DEF SetSize
  <2>3. CASE UNCHANGED <<size, minSize>>
    BY <1>3, <2>3 DEF SetSize
  <2>4. QED
    BY <1>3, <2>2, <2>3 DEF SetSize
<1>4. CASE SetMinSize
  <2>1. minSize' \in {minSize, [minSize EXCEPT ![Head(todo)] = MinOf(level)]}
    BY <1>4 DEF SetMinSize
  <2>2. UNCHANGED <<spec, size, level>>
    BY <1>4 DEF SetMinSize
  <2>3. QED
    BY <1>a, <2>1, <2>2
<1>5. CASE SetDeviceHealthSize
  <2>1. Resize("health", level) \/ UNCHANGED <<size, minSize>>
    BY <1>5 DEF SetDeviceHealthSize, HealthSized, HealthFails
  <2>2. CASE Resize("health", level)
    BY <1>a, <1>5, <2>2, ResizeType DEF SetDeviceHealthSize
  <2>3. QED
    BY <1>5, <2>1, <2>2 DEF SetDeviceHealthSize
<1>6. CASE SetDeviceHealthMinSize
  <2>1. minSize' \in {minSize, [minSize EXCEPT !["health"] = MinOf(level)]}
    BY <1>6 DEF SetDeviceHealthMinSize
  <2>2. UNCHANGED <<spec, size, level>>
    BY <1>6 DEF SetDeviceHealthMinSize
  <2>3. QED
    BY <1>a, <2>1, <2>2
<1>7. CASE EndTick
  BY <1>7, LevelType DEF EndTick, NoTick
<1>8. CASE \E r \in Resource : RookApplies(r)
  <2>1. PICK r \in Resource : RookApplies(r)
    BY <1>8
  <2>2. UNCHANGED <<spec, level>>
    BY <2>1 DEF RookApplies
  <2>3. CASE Before14
    <3>1. Resize("block", spec["block"]) /\ spec["block"] \in Size /\ "block" \in Pool
      BY <1>a, <2>1, <2>3 DEF RookApplies
    <3>2. QED
      BY <2>2, <3>1, ResizeType
  <2>4. CASE ~Before14
    <3>1. PoolsOf(r) \subseteq CrPool
      BY <2>1 DEF PoolsOf, CrPool, Resource
    <3>2. size' \in [Pool -> Size] /\ minSize' \in [Pool -> {1, 2}]
      BY <1>a, <2>1, <2>4, <3>1 DEF RookApplies
    <3>3. QED
      BY <2>2, <3>2
  <2>5. QED
    BY <2>3, <2>4
<1>9. CASE UNCHANGED vars
  BY <1>9 DEF vars
<1>10. QED
  BY <1>1, <1>2, <1>3, <1>4, <1>5, <1>6, <1>7, <1>8, <1>9
     DEF Next, OperatorStep,
         Tick, GetCephVersion, SetPgNumMin, ReconcileMonCount, ReconcileMgrCount,
         SetCephCSIResources, PatchFilesystemMDSPlacement, PrioritizeRook, OsdChange, PodLost,
         PodReturns

\* The tick is at one of its steps, and the counter below its period.
LEMMA PlaceStep == ASSUME PlaceInv, PlaceType, [Next]_vars PROVE PlaceType'
<1> USE DEF PlaceType, versions, sizes, upkeep, counts, daemons, place, locals, outcome, env
<1> USE DEF At, Step
<1>a. ASSUME EndResource, UNCHANGED i
      PROVE  PlaceType'
  <2>1. cr' \in Resource /\ step' \in {"patch", "health"} /\ todo' = << >>
    BY <1>a, NextResource DEF Resource
  <2>2. QED
    BY <1>a, <2>1
<1>b. /\ \A l \in BlockLeft \cup FsLeft \cup OsLeft : l \in Seq(Pool)
      /\ << >> \in Seq(Pool) /\ {"block", "fs", "os"} = Resource
  BY Lists DEF Resource
<1>1. CASE PatchResource
  <2>1. UNCHANGED i
    BY <1>1 DEF PatchResource
  <2>2. \/ EndResource
        \/ At("size", cr, Commands(cr))
        \/ At("pgNum", cr, << >>)
    BY <1>1 DEF PatchResource, PatchMade, PatchFails, AfterPatch
  <2>3. Commands(cr) \in BlockLeft \cup FsLeft \cup OsLeft
    BY DEF Commands, Resource, BlockLeft, FsLeft, OsLeft
  <2>4. QED
    BY <1>a, <1>b, <2>1, <2>2, <2>3
<1>2. CASE SetSize
  <2>1. \/ EndResource
        \/ step' = "min" /\ UNCHANGED <<cr, todo>>
        \/ step' = "size" /\ Head(todo) \notin pools /\ cr' = cr /\ todo' = Tail(todo)
    BY <1>2 DEF SetSize
  <2>2. UNCHANGED i /\ step \in Sizing
    BY <1>2 DEF SetSize, Sizing
  <2>3. Head(todo) \notin pools => Tail(todo) \in Seq(Pool)
    BY <1>b, <2>2, NextList DEF Resource
  <2>4. QED
    BY <1>a, <2>1, <2>2, <2>3
<1>3. CASE SetMinSize
  <2>1. \/ EndResource
        \/ step' = "size" /\ Len(todo) > 1 /\ cr' = cr /\ todo' = Tail(todo)
    BY <1>3 DEF SetMinSize
  <2>2. UNCHANGED i /\ step \in Sizing
    BY <1>3 DEF SetMinSize, Sizing
  <2>3. Len(todo) > 1 => Tail(todo) \in Seq(Pool)
    BY <1>b, <2>2, NextList DEF Resource
  <2>4. QED
    BY <1>a, <2>1, <2>2, <2>3
<1>4. CASE SetPgNumMin
  BY <1>a, <1>4 DEF SetPgNumMin
<1>5. CASE EndTick
  <2>1. (i + 1) % Period \in 0 .. Period - 1
    BY ConstantsAssumption
  <2>2. i' \in {i, (i + 1) % Period} /\ step' = "wait" /\ cr' = "block" /\ todo' = << >>
    BY <1>5 DEF EndTick
  <2>3. QED
    BY <1>b, <2>1, <2>2
<1>6. CASE Tick \/ CountHosts \/ GetCephVersion
  <2>1. UNCHANGED i /\ step' \in Step /\ cr' = "block" /\ todo' = << >>
    BY <1>6 DEF Tick, CountHosts, GetCephVersion
  <2>2. QED
    BY <1>b, <2>1
<1>7. CASE SetDeviceHealthSize \/ SetDeviceHealthMinSize \/ ReconcileMonCount \/ ReconcileMgrCount
           \/ SetCephCSIResources \/ PatchFilesystemMDSPlacement \/ PrioritizeRook
  <2>1. UNCHANGED <<i, cr, todo>> /\ step' \in Step
    BY <1>7 DEF SetDeviceHealthSize, SetDeviceHealthMinSize, ReconcileMonCount, ReconcileMgrCount,
                SetCephCSIResources, PatchFilesystemMDSPlacement, PrioritizeRook,
                HealthSized, HealthFails
  <2>2. QED
    BY <2>1
<1>8. CASE (\E r \in Resource : RookApplies(r)) \/ (\E o \in Osd : OsdChange(o))
           \/ PodLost \/ PodReturns \/ UNCHANGED vars
  BY <1>8 DEF RookApplies, OsdChange, PodLost, PodReturns, vars
<1>9. QED
  BY <1>1, <1>2, <1>3, <1>4, <1>5, <1>6, <1>7, <1>8 DEF Next, OperatorStep

\* Type correctness of the tick, the pools and the daemons.
THEOREM TypeCorrect == Spec => []TypeOK
<1>1. Init => TypeOK
  <2> SUFFICES ASSUME Init PROVE TypeOK
    OBVIOUS
  <2>1. VersionsType
    <3>1. rook \in {"1.0", "1.4", "1.9"} /\ ceph \in {"pacific or older", "quincy"}
      <4>1. \/ rook = <<"1.0", "pacific or older">>[1] /\ ceph = <<"1.0", "pacific or older">>[2]
            \/ rook = <<"1.4", "pacific or older">>[1] /\ ceph = <<"1.4", "pacific or older">>[2]
            \/ rook = <<"1.9", "quincy">>[1] /\ ceph = <<"1.9", "quincy">>[2]
        BY Zenon DEF Init
      <4>2. /\ <<"1.0", "pacific or older">>[1] = "1.0"
            /\ <<"1.0", "pacific or older">>[2] = "pacific or older"
            /\ <<"1.4", "pacific or older">>[1] = "1.4"
            /\ <<"1.4", "pacific or older">>[2] = "pacific or older"
            /\ <<"1.9", "quincy">>[1] = "1.9" /\ <<"1.9", "quincy">>[2] = "quincy"
        OBVIOUS
      <4>3. QED
        BY <4>1, <4>2, Zenon
    <3>2. pools \in {Pool \ {"health"}, CrPool, Pool \ {"nonEc"}}
      BY DEF Init
    <3>3. QED
      BY <3>1, <3>2 DEF VersionsType, Pool
  <2>2. SizesType
    BY LevelType, ConstantsAssumption DEF Init, SizesType
  <2>3. HostsType
    <3>1. 0 \in 0 .. Cardinality(Osd)
      BY FS_CardinalityType, ConstantsAssumption
    <3>2. QED
      BY <3>1, ConstantsAssumption DEF Init, HostsType
  <2>4. DaemonsType /\ CountersType
    BY DEF Init, DaemonsType, CountersType
  <2>5. PlaceType
    <3>1. << >> \in Seq(Pool) /\ 0 \in 0 .. Period - 1
      BY ConstantsAssumption
    <3>2. QED
      BY <3>1 DEF Init, PlaceType, Step, Resource
  <2>6. FlagsType
    BY DEF Init, FlagsType
  <2>7. QED
    BY <2>1, <2>2, <2>3, <2>4, <2>5, <2>6, TypeParts
<1>2. TypeOK /\ PlaceInv /\ [Next]_vars => TypeOK'
  <2> SUFFICES ASSUME TypeOK, PlaceInv, [Next]_vars PROVE TypeOK'
    OBVIOUS
  <2>1. /\ VersionsType /\ SizesType /\ HostsType /\ DaemonsType
        /\ PlaceType /\ FlagsType /\ CountersType
    BY TypeParts
  <2>2. VersionsType' /\ HostsType' /\ DaemonsType' /\ CountersType'
    BY <2>1, VersionsStep, HostsStep, DaemonsStep, CountersStep
  <2>3. SizesType'
    BY <2>1, SizesStep
  <2>4. PlaceType' /\ FlagsType'
    BY <2>1, PlaceStep, FlagsStep
  <2>5. QED
    BY <2>2, <2>3, <2>4, TypeParts DEF TypeOK, VersionsType, SizesType, HostsType, DaemonsType,
       PlaceType, FlagsType, CountersType
<1>3. QED
  BY <1>1, <1>2, PlaceInvariant, PTL DEF Spec

(* What a full reconcile has repaired.                                      *)

\* The pools that the tick has behind it: those of the earlier resources, and of the
\* present one those that are no longer to do.
BlockBehind == step \in Late \/ (step \in InResource /\ cr \in {"fs", "os"})
FsBehind == step \in Late \/ (step \in InResource /\ cr = "os")
OsBehind == step \in Late
PoolsBehind ==
  (IF BlockBehind THEN {"block"} ELSE {})
    \cup (IF FsBehind \/ (step \in Sizing /\ todo = <<"fsData">>) THEN {"fsMeta"} ELSE {})
    \cup (IF FsBehind THEN {"fsData"} ELSE {})
    \cup (IF OsBehind \/ (step \in Sizing /\ todo \in {<<"nonEc", "osData">>, <<"osData">>})
            THEN {"osMeta"} ELSE {})
    \cup (IF OsBehind \/ (step \in Sizing /\ todo = <<"osData">>) THEN {"nonEc"} ELSE {})
    \cup (IF OsBehind THEN {"osData"} ELSE {})

\* The resources that are patched.
Patched(r) ==
  \/ r = "block" /\ BlockBehind
  \/ r = "fs" /\ FsBehind
  \/ r = "os" /\ OsBehind
  \/ step \in InResource \ {"patch"} /\ cr = r

\* The block pool's resource has the very level, so that Rook 1.0 leaves its size alone.
SpecsRaised ==
  /\ \A r \in Resource : Patched(r) => \A p \in PoolsOf(r) : spec[p] >= level
  /\ Patched("block") => spec["block"] = level

\* Before Rook 1.4 ekco sets both sizes, one after the other.
PoolsResized ==
  Before14 =>
    /\ \A p \in PoolsBehind \cap pools : size[p] = level /\ minSize[p] = MinOf(level)
    /\ step = "min" => size[Head(todo)] = level

\* Since then only those of the device health pool.
HealthResized ==
  ~Before14 =>
    /\ step \in Late \ {"health"} => size["health"] = level
    /\ step \in Late \ {"health", "healthMin"} => minSize["health"] = MinOf(level)

\* A full reconcile that reports no error so far, and had a pod for its commands.
Clean == full /\ ~failed /\ ~skipped
Repaired == SpecsRaised /\ PoolsResized /\ HealthResized

\* It has repaired what it has behind it, whatever was left undone before it began.
RepairInv == PlaceInv /\ (Clean => Repaired)

\* A step that leaves the sizes alone and puts nothing more behind the tick repairs as
\* much as there was.
LEMMA RepairedStays ==
  ASSUME Repaired, UNCHANGED <<spec, size, minSize, level, rook, pools>>,
         PoolsBehind' \subseteq PoolsBehind, \A r \in Resource : Patched(r)' => Patched(r),
         step' = "min" => step = "min" /\ todo' = todo,
         step' \in Late \ {"health"} => Before14 \/ step \in Late \ {"health"},
         step' \in Late \ {"health", "healthMin"} => Before14 \/ step \in Late \ {"health", "healthMin"}
  PROVE  Repaired'
<1>1. SpecsRaised'
  BY DEF Repaired, SpecsRaised, PoolsOf, Resource
<1>2. PoolsResized'
  BY DEF Repaired, PoolsResized, Before14, MinOf
<1>3. HealthResized'
  BY DEF Repaired, HealthResized, Before14, MinOf
<1>4. QED
  BY <1>1, <1>2, <1>3 DEF Repaired

\* Nothing is behind a tick that is not at a resource yet.
LEMMA NothingBehind ==
  ASSUME step' \in {"wait", "count", "version"} \/ (step' = "patch" /\ cr' = "block")
  PROVE  Repaired'
<1>1. PoolsBehind' = {}
  BY DEF PoolsBehind, BlockBehind, FsBehind, OsBehind, Late, InResource, Sizing
<1>2. \A r \in Resource : ~Patched(r)'
  BY DEF Patched, BlockBehind, FsBehind, OsBehind, Late, InResource, Sizing, Resource
<1>3. "block" \in Resource /\ step' # "min" /\ step' \notin Late
  BY DEF Resource, Late
<1>4. QED
  BY <1>1, <1>2, <1>3 DEF Repaired, SpecsRaised, PoolsResized, HealthResized

\* Everything is behind a tick that has done the last resource.
LEMMA AllBehind ==
  /\ step \in Late =>
       /\ PoolsBehind = {"block", "fsMeta", "fsData", "osMeta", "nonEc", "osData"}
       /\ \A r \in Resource : Patched(r)
  /\ step' \in Late =>
       /\ PoolsBehind' = {"block", "fsMeta", "fsData", "osMeta", "nonEc", "osData"}
       /\ \A r \in Resource : Patched(r)'
  BY DEF PoolsBehind, BlockBehind, FsBehind, OsBehind, Patched, Resource

\* The patch of a resource.
LEMMA PatchRepairs ==
  ASSUME TypeOK, PlaceInv, Clean => Repaired, PatchResource, Clean'
  PROVE  Repaired'
<1> USE DEF Clean
<1>1. PatchMade /\ Clean /\ UNCHANGED <<size, minSize, level, versions>>
  <2>1. UNCHANGED <<size, minSize, level, versions>> /\ full' = full
    BY DEF PatchResource
  <2>2. full /\ failed' # TRUE
    BY <2>1
  <2>3. PatchMade
    BY <2>2 DEF PatchResource, PatchFails, Fails
  <2>4. failed' = failed /\ skipped' = skipped
    BY <2>3 DEF PatchMade, Works, outcome
  <2>5. QED
    BY <2>1, <2>2, <2>3, <2>4
<1>2. UNCHANGED versions /\ spec' = PatchedSpec(cr) /\ cr \in Resource /\ step = "patch"
  BY <1>1 DEF PatchMade, PatchResource, PlaceInv
<1>3. /\ spec \in [CrPool -> Size] /\ level \in Size /\ Size \subseteq Nat
      /\ \A r \in Resource : PoolsOf(r) \subseteq CrPool
  BY LevelType DEF TypeOK, PoolsOf, CrPool, Resource
<1>4. /\ \A p \in CrPool : spec'[p] >= level \/ spec'[p] = spec[p]
      /\ \A p \in PoolsOf(cr) : spec'[p] >= level
      /\ cr = "block" => spec'["block"] = level
      /\ cr # "block" => spec'["block"] = spec["block"]
  BY <1>2, <1>3 DEF PatchedSpec, Behind, PoolsOf, CrPool, Resource
<1>5. \/ EndResource /\ ~Before14
      \/ Before14 /\ At("size", cr, Commands(cr))
      \/ ~Before14 /\ cr = "os" /\ At("pgNum", cr, << >>)
  BY <1>1 DEF PatchMade, AfterPatch
<1>6. \A r \in Resource : Patched(r)' => Patched(r) \/ r = cr
  BY <1>2, <1>5, NextResource
     DEF Patched, At, BlockBehind, FsBehind, OsBehind, Late, InResource, Sizing, Resource
<1>7. Repaired /\ level' = level
  BY <1>1
<1>8. SpecsRaised'
  <2>1. ASSUME NEW r \in Resource, Patched(r)', NEW q \in PoolsOf(r)
        PROVE  spec'[q] >= level'
    BY <1>3, <1>4, <1>6, <1>7, <2>1 DEF Repaired, SpecsRaised
  <2>2. Patched("block")' => spec'["block"] = level'
    BY <1>4, <1>6, <1>7 DEF Repaired, SpecsRaised, Resource
  <2>3. \A r : PoolsOf(r)' = PoolsOf(r)
    BY DEF PoolsOf
  <2>4. QED
    BY <2>1, <2>2, <2>3 DEF SpecsRaised
<1>9. PoolsResized'
  <2> SUFFICES ASSUME Before14' PROVE PoolsResized'
    BY DEF PoolsResized
  <2>1. Before14 /\ At("size", cr, Commands(cr))
    BY <1>2, <1>5 DEF Before14, versions
  <2>2. /\ Commands("block") # <<"fsData">> /\ Commands("block") \notin {<<"nonEc", "osData">>, <<"osData">>}
        /\ Commands("fs") # <<"fsData">> /\ Commands("fs") \notin {<<"nonEc", "osData">>, <<"osData">>}
        /\ Commands("os") # <<"fsData">> /\ Commands("os") \notin {<<"nonEc", "osData">>, <<"osData">>}
    BY DEF Commands
  <2>3. PoolsBehind' \subseteq PoolsBehind /\ step' # "min"
    BY <1>2, <2>1, <2>2
       DEF PoolsBehind, At, BlockBehind, FsBehind, OsBehind, Late, InResource, Sizing, Resource
  <2>4. QED
    BY <1>1, <1>7, <2>3, <2>1 DEF Repaired, PoolsResized, MinOf, versions
<1>10. HealthResized'
  <2>1. ~Before14' => step' \notin Late \ {"health"}
    BY <1>2, <1>5, NextResource DEF At, Late, Before14, versions, Resource
  <2>2. QED
    BY <2>1 DEF HealthResized
<1>11. QED
  BY <1>8, <1>9, <1>10 DEF Repaired

\* Before Rook 1.4: what the lists say of the pools behind the tick.
LEMMA ListBehind ==
  ASSUME PlaceInv, step \in Sizing
  PROVE  /\ Before14 /\ Head(todo) \notin PoolsBehind /\ Patched(cr)
         /\ step' \in Sizing /\ UNCHANGED <<cr, todo>> => PoolsBehind' = PoolsBehind
         /\ step' \in Sizing /\ cr' = cr /\ todo' = Tail(todo) /\ Len(todo) > 1 =>
              PoolsBehind' = PoolsBehind \cup {Head(todo)}
         /\ EndResource /\ ~(Len(todo) > 1) => PoolsBehind' = PoolsBehind \cup {Head(todo)}
         /\ (step' \in Sizing /\ cr' = cr) \/ EndResource =>
              \A r \in Resource : Patched(r)' => Patched(r)
<1> USE DEF Sizing
<1>1. \/ cr = "block" /\ todo \in BlockLeft
      \/ cr = "fs" /\ todo \in FsLeft
      \/ cr = "os" /\ todo \in OsLeft
  BY DEF PlaceInv
<1>2. Before14 /\ Patched(cr) /\ cr \in Resource
  BY DEF PlaceInv, Patched, InResource
<1>3. (step' \in Sizing /\ cr' = cr) \/ EndResource => \A r \in Resource : Patched(r)' => Patched(r)
  BY <1>2, NextResource DEF Patched, BlockBehind, FsBehind, OsBehind, Late, InResource, Resource
<1> DEFINE Rest == {<<"fsData">>, <<"nonEc", "osData">>, <<"osData">>}
<1>4. /\ <<"fsData">> # <<"osData">> /\ <<"fsData">> # <<"nonEc", "osData">>
      /\ <<"nonEc", "osData">> # <<"osData">>
      /\ <<"block">> \notin Rest /\ <<"fsMeta", "fsData">> \notin Rest
      /\ <<"osMeta", "nonEc", "osData">> \notin Rest
      /\ << >> \notin Rest
  OBVIOUS
<1>5. CASE cr = "block" /\ todo \in BlockLeft
  <2>1. todo = <<"block">> /\ Head(todo) = "block" /\ ~(Len(todo) > 1)
    BY <1>5, Lists DEF BlockLeft
  <2>2. PoolsBehind = {}
    BY <1>4, <1>5, <2>1 DEF PoolsBehind, BlockBehind, FsBehind, OsBehind, Late, InResource
  <2>3. step' \in Sizing /\ UNCHANGED <<cr, todo>> => PoolsBehind' = {}
    BY <1>4, <1>5, <2>1 DEF PoolsBehind, BlockBehind, FsBehind, OsBehind, Late, InResource
  <2>4. EndResource => PoolsBehind' = {"block"}
    BY <1>2, <1>4, <1>5, NextResource
       DEF PoolsBehind, BlockBehind, FsBehind, OsBehind, Late, InResource
  <2>5. QED
    BY <1>2, <1>3, <2>1, <2>2, <2>3, <2>4
<1>6. CASE cr = "fs" /\ todo \in FsLeft
  <2>1. \/ todo = <<"fsMeta", "fsData">> /\ Head(todo) = "fsMeta" /\ Tail(todo) = <<"fsData">>
            /\ Len(todo) > 1
        \/ todo = <<"fsData">> /\ Head(todo) = "fsData" /\ ~(Len(todo) > 1)
    BY <1>6, Lists DEF FsLeft
  <2>2. PoolsBehind = IF todo = <<"fsData">> THEN {"block", "fsMeta"} ELSE {"block"}
    BY <1>4, <1>6, <2>1 DEF PoolsBehind, BlockBehind, FsBehind, OsBehind, Late, InResource
  <2>3. step' \in Sizing /\ cr' = cr /\ todo' \in {todo, <<"fsData">>} =>
          PoolsBehind' = IF todo' = <<"fsData">> THEN {"block", "fsMeta"} ELSE {"block"}
    BY <1>4, <1>6, <2>1 DEF PoolsBehind, BlockBehind, FsBehind, OsBehind, Late, InResource
  <2>4. EndResource => PoolsBehind' = {"block", "fsMeta", "fsData"}
    BY <1>2, <1>4, <1>6, NextResource
       DEF PoolsBehind, BlockBehind, FsBehind, OsBehind, Late, InResource
  <2>5. CASE todo = <<"fsMeta", "fsData">>
    BY <1>2, <1>3, <1>4, <2>1, <2>2, <2>3, <2>5
  <2>6. CASE todo = <<"fsData">>
    BY <1>2, <1>3, <1>4, <2>1, <2>2, <2>3, <2>4, <2>6
  <2>7. QED
    BY <2>1, <2>5, <2>6
<1>7. CASE cr = "os" /\ todo \in OsLeft
  <2> DEFINE B(l) == {"block", "fsMeta", "fsData"}
                       \cup (IF l \in {<<"nonEc", "osData">>, <<"osData">>} THEN {"osMeta"} ELSE {})
                       \cup (IF l = <<"osData">> THEN {"nonEc"} ELSE {})
  <2>1. \/ todo = <<"osMeta", "nonEc", "osData">> /\ Head(todo) = "osMeta"
           /\ Tail(todo) = <<"nonEc", "osData">> /\ Len(todo) > 1
        \/ todo = <<"nonEc", "osData">> /\ Head(todo) = "nonEc" /\ Tail(todo) = <<"osData">> /\ Len(todo) > 1
        \/ todo = <<"osData">> /\ Head(todo) = "osData" /\ ~(Len(todo) > 1)
    BY <1>7, Lists DEF OsLeft
  <2>2. PoolsBehind = B(todo)
    BY <1>4, <1>7, <2>1 DEF PoolsBehind, BlockBehind, FsBehind, OsBehind, Late, InResource
  <2>3. step' \in Sizing /\ cr' = cr => PoolsBehind' = B(todo')
    BY <1>4, <1>7 DEF PoolsBehind, BlockBehind, FsBehind, OsBehind, Late, InResource
  <2>4. EndResource => PoolsBehind' = {"block", "fsMeta", "fsData", "osMeta", "nonEc", "osData"}
    BY <1>2, <1>4, <1>7, NextResource
       DEF PoolsBehind, BlockBehind, FsBehind, OsBehind, Late, InResource
  <2>5. CASE todo = <<"osMeta", "nonEc", "osData">>
    BY <1>2, <1>3, <1>4, <2>1, <2>2, <2>3, <2>5
  <2>6. CASE todo = <<"nonEc", "osData">>
    BY <1>2, <1>3, <1>4, <2>1, <2>2, <2>3, <2>6
  <2>7. CASE todo = <<"osData">>
    BY <1>2, <1>3, <1>4, <2>1, <2>2, <2>3, <2>4, <2>7
  <2>8. QED
    BY <2>1, <2>5, <2>6, <2>7
<1>8. QED
  BY <1>1, <1>5, <1>6, <1>7

\* A pool whose two sizes are set one after the other.
LEMMA SetSizeRepairs ==
  ASSUME TypeOK, PlaceInv, Clean => Repaired, SetSize, Clean'
  PROVE  Repaired'
<1> USE DEF Clean, Sizing
<1>1. UNCHANGED <<versions, spec, level>> /\ full' = full /\ step = "size"
  BY DEF SetSize, locals
<1>2. \/ Head(todo) \in pools /\ Resize(Head(todo), level) /\ At("min", cr, todo) /\ CephRuns
      \/ Head(todo) \notin pools /\ At("size", cr, Tail(todo)) /\ UNCHANGED <<size, minSize>> /\ CephRuns
  BY <1>1 DEF SetSize, CephSkipped, Fails
<1>3. Clean /\ Repaired
  BY <1>1, <1>2 DEF CephRuns, Works, outcome
<1>4. /\ Before14 /\ Head(todo) \notin PoolsBehind /\ Head(todo) \in Pool
      /\ Head(todo) \notin pools => Len(todo) > 1
      /\ \A r \in Resource : Patched(r)' => Patched(r)
  BY <1>1, <1>2, ListBehind, NextList DEF At
<1>5. SpecsRaised'
  BY <1>1, <1>3, <1>4 DEF Repaired, SpecsRaised, PoolsOf, Resource
<1>6. PoolsResized'
  <2>1. CASE Head(todo) \in pools /\ Resize(Head(todo), level) /\ At("min", cr, todo)
    <3>1. PoolsBehind' = PoolsBehind /\ todo' = todo
      BY <1>1, <2>1, ListBehind DEF At
    <3>2. \A p \in Pool : p # Head(todo) => size'[p] = size[p] /\ minSize'[p] = minSize[p]
      BY <2>1 DEF Resize, TypeOK
    <3>3. size'[Head(todo)] = level
      BY <1>4, <2>1 DEF Resize, TypeOK
    <3>4. pools \subseteq Pool /\ pools' = pools /\ level' = level
      BY <1>1 DEF TypeOK, versions
    <3>5. \A p \in PoolsBehind' \cap pools' : size'[p] = level' /\ minSize'[p] = MinOf(level')
      BY <1>3, <1>4, <3>1, <3>2, <3>4 DEF Repaired, PoolsResized
    <3>6. QED
      BY <3>1, <3>3, <3>4, <3>5 DEF PoolsResized, MinOf
  <2>2. CASE Head(todo) \notin pools /\ At("size", cr, Tail(todo)) /\ UNCHANGED <<size, minSize>>
    <3>1. PoolsBehind' = PoolsBehind \cup {Head(todo)} /\ step' # "min"
      BY <1>1, <1>4, <2>2, ListBehind DEF At
    <3>2. pools' = pools /\ level' = level
      BY <1>1 DEF versions
    <3>3. QED
      BY <1>3, <1>4, <2>2, <3>1, <3>2 DEF Repaired, PoolsResized, MinOf
  <2>3. QED
    BY <1>2, <2>1, <2>2
<1>7. HealthResized'
  BY <1>1, <1>4 DEF HealthResized, Before14, versions
<1>8. QED
  BY <1>5, <1>6, <1>7 DEF Repaired

\* The second of the two sizes; the tick goes on with the next pool or resource.
LEMMA SetMinSizeRepairs ==
  ASSUME TypeOK, PlaceInv, Clean => Repaired, SetMinSize, Clean'
  PROVE  Repaired'
<1> USE DEF Clean, Sizing
<1> DEFINE p == Head(todo)
<1>1. UNCHANGED <<versions, spec, size, level>> /\ full' = full /\ step = "min"
  BY DEF SetMinSize
<1>2. /\ minSize' = [minSize EXCEPT ![p] = MinOf(level)] /\ CephRuns
      /\ \/ Len(todo) > 1 /\ At("size", cr, Tail(todo))
         \/ ~(Len(todo) > 1) /\ EndResource
  BY <1>1 DEF SetMinSize, CephSkipped, CephRefuses, Fails
<1>3. Clean /\ Repaired
  BY <1>1, <1>2 DEF CephRuns, Works, outcome
<1>4. /\ Before14 /\ p \in Pool /\ p \notin PoolsBehind
      /\ PoolsBehind' = PoolsBehind \cup {p}
      /\ \A r \in Resource : Patched(r)' => Patched(r)
  BY <1>1, <1>2, ListBehind, NextList DEF At
<1>5. SpecsRaised'
  BY <1>1, <1>3, <1>4 DEF Repaired, SpecsRaised, PoolsOf, Resource
<1>6. PoolsResized'
  <2>1. pools \subseteq Pool /\ pools' = pools /\ level' = level /\ size' = size
    BY <1>1 DEF TypeOK, versions
  <2>2. \A q \in Pool : minSize'[q] = IF q = p THEN MinOf(level) ELSE minSize[q]
    BY <1>2, <1>4 DEF TypeOK
  <2>3. size[p] = level /\ \A q \in PoolsBehind \cap pools : size[q] = level /\ minSize[q] = MinOf(level)
    BY <1>1, <1>3, <1>4 DEF Repaired, PoolsResized
  <2>4. \A q \in PoolsBehind' \cap pools' : size'[q] = level' /\ minSize'[q] = MinOf(level')
    BY <1>4, <2>1, <2>2, <2>3
  <2>5. step' # "min"
    BY <1>2, NextResource DEF At, PlaceInv, Resource
  <2>6. QED
    BY <2>4, <2>5 DEF PoolsResized, MinOf
<1>7. HealthResized'
  BY <1>1, <1>4 DEF HealthResized, Before14, versions
<1>8. QED
  BY <1>5, <1>6, <1>7 DEF Repaired

\* The device health pool, which has no resource.
LEMMA HealthRepairs ==
  ASSUME TypeOK, PlaceInv, Clean => Repaired, SetDeviceHealthSize \/ SetDeviceHealthMinSize, Clean'
  PROVE  Repaired'
<1> USE DEF Clean
<1>1. UNCHANGED <<versions, spec, level>> /\ full' = full /\ step \in {"health", "healthMin"}
  BY DEF SetDeviceHealthSize, SetDeviceHealthMinSize, locals
<1>2. \/ step = "health" /\ Before14 /\ Works /\ UNCHANGED <<size, minSize>> /\ step' = "mon"
      \/ step = "health" /\ ~Before14 /\ Works /\ Resize("health", level) /\ step' = "healthMin"
      \/ step = "healthMin" /\ Works /\ size' = size /\ step' = "mon"
           /\ minSize' = [minSize EXCEPT !["health"] = MinOf(level)]
  <2>1. CASE SetDeviceHealthSize
    BY <1>1, <2>1
       DEF SetDeviceHealthSize, HealthSized, HealthFails, CephRuns, CephSkipped, CephRefuses, Fails, At
  <2>2. CASE SetDeviceHealthMinSize
    BY <2>2 DEF SetDeviceHealthMinSize, CephRuns, CephSkipped, CephRefuses, Fails, At
  <2>3. QED
    BY <2>1, <2>2
<1>3. Clean /\ Repaired
  BY <1>1, <1>2 DEF Works, outcome
<1>4. /\ PoolsBehind' = PoolsBehind /\ "health" \notin PoolsBehind
      /\ \A r \in Resource : Patched(r)
  BY <1>1, <1>2, AllBehind DEF Late
<1>5. SpecsRaised'
  BY <1>1, <1>3, <1>4 DEF Repaired, SpecsRaised, PoolsOf, Resource
<1>6. PoolsResized'
  <2>1. \A q \in Pool : q # "health" => size'[q] = size[q] /\ minSize'[q] = minSize[q]
    BY <1>2 DEF Resize, TypeOK
  <2>2. pools \subseteq Pool /\ pools' = pools /\ level' = level /\ rook' = rook /\ step' # "min"
    BY <1>1, <1>2 DEF TypeOK, versions
  <2>3. QED
    BY <1>3, <1>4, <2>1, <2>2 DEF Repaired, PoolsResized, Before14, MinOf
<1>7. HealthResized'
  <2>1. "health" \in Pool /\ level' = level /\ rook' = rook
    BY <1>1 DEF Pool, versions
  <2>2. CASE Before14
    BY <2>1, <2>2 DEF HealthResized, Before14
  <2>3. CASE ~Before14 /\ step = "health"
    <3>1. size'["health"] = level /\ step' = "healthMin"
      BY <1>2, <2>1, <2>3 DEF Resize, TypeOK
    <3>2. QED
      BY <2>1, <3>1 DEF HealthResized, Late
  <2>4. CASE ~Before14 /\ step = "healthMin"
    <3>1. size["health"] = level
      BY <1>3, <2>4 DEF Repaired, HealthResized, Late
    <3>2. minSize'["health"] = MinOf(level) /\ size' = size
      BY <1>2, <2>1, <2>4 DEF TypeOK
    <3>3. QED
      BY <2>1, <3>1, <3>2 DEF HealthResized, MinOf
  <2>5. QED
    BY <1>1, <2>2, <2>3, <2>4
<1>8. QED
  BY <1>5, <1>6, <1>7 DEF Repaired

\* Rook applies a resource at any time: before 1.4 only to the block pool, whose resource
\* has the level by then, and since then not to the device health pool.
LEMMA RookKeepsRepaired ==
  ASSUME TypeOK, PlaceInv, Repaired, NEW r \in Resource, RookApplies(r)
  PROVE  Repaired'
<1>1. UNCHANGED <<versions, spec, step, cr, todo, level>>
  BY DEF RookApplies, place, locals
<1>2. PoolsBehind' = PoolsBehind /\ \A x \in Resource : Patched(x)' = Patched(x)
  BY <1>1 DEF PoolsBehind, Patched, BlockBehind, FsBehind, OsBehind
<1>3. SpecsRaised'
  BY <1>1, <1>2 DEF Repaired, SpecsRaised, PoolsOf, Resource
<1>4. PoolsResized'
  <2> SUFFICES ASSUME Before14' PROVE PoolsResized'
    BY DEF PoolsResized
  <2>1. Before14 /\ r = "block" /\ Resize("block", spec["block"]) /\ size["block"] # spec["block"]
    BY <1>1 DEF Before14, versions, RookApplies, PoolsOf
  <2>2. /\ \A q \in Pool : q # "block" => size'[q] = size[q] /\ minSize'[q] = minSize[q]
        /\ size'["block"] = spec["block"]
    BY <2>1 DEF Resize, TypeOK, Pool, CrPool
  <2>3. "block" \in PoolsBehind => Patched("block")
    BY DEF PoolsBehind, Patched
  <2>4. "block" \notin PoolsBehind
    <3>1. SUFFICES ASSUME "block" \in PoolsBehind PROVE FALSE
      OBVIOUS
    <3>2. spec["block"] = level /\ "block" \in pools
      BY <2>3, <3>1 DEF Repaired, SpecsRaised, PlaceInv, CrPool
    <3>3. size["block"] = level
      BY <2>1, <3>1, <3>2 DEF Repaired, PoolsResized
    <3>4. QED
      BY <2>1, <3>2, <3>3
  <2>5. step = "min" => size'[Head(todo)] = level
    <3>1. SUFFICES ASSUME step = "min" PROVE size'[Head(todo)] = level
      OBVIOUS
    <3>2. size[Head(todo)] = level /\ Head(todo) \in Pool
      BY <2>1, <3>1, NextList DEF Repaired, PoolsResized, Sizing
    <3>3. CASE Head(todo) = "block"
      <4>1. cr = "block"
        BY <3>1, <3>3, Lists DEF PlaceInv, Sizing, FsLeft, OsLeft
      <4>2. Patched("block")
        BY <3>1, <4>1 DEF Patched, InResource, Sizing
      <4>3. QED
        BY <2>2, <3>3, <4>2 DEF Repaired, SpecsRaised
    <3>4. QED
      BY <2>2, <3>2, <3>3
  <2>6. pools \subseteq Pool /\ pools' = pools /\ level' = level /\ todo' = todo /\ step' = step
    BY <1>1 DEF TypeOK, versions
  <2>7. QED
    BY <1>2, <2>1, <2>2, <2>4, <2>5, <2>6 DEF Repaired, PoolsResized, MinOf
<1>5. HealthResized'
  <2> SUFFICES ASSUME ~Before14' PROVE HealthResized'
    BY DEF HealthResized
  <2>1. ~Before14 /\ "health" \in Pool /\ "health" \notin PoolsOf(r)
    BY <1>1 DEF Before14, versions, PoolsOf, Pool, Resource
  <2>2. size'["health"] = size["health"] /\ minSize'["health"] = minSize["health"]
    BY <2>1 DEF RookApplies
  <2>3. QED
    BY <1>1, <2>1, <2>2 DEF Repaired, HealthResized, MinOf
<1>6. QED
  BY <1>3, <1>4, <1>5 DEF Repaired

\* What a clean full reconcile has behind it stays repaired.
LEMMA RepairInvariant == Spec => []RepairInv
<1>1. Init => (Clean => Repaired)
  BY DEF Init, Clean
<1>2. TypeOK /\ PlaceInv /\ (Clean => Repaired) /\ [Next]_vars => (Clean => Repaired)'
  <2> SUFFICES ASSUME TypeOK, PlaceInv, Clean => Repaired, [Next]_vars, Clean'
               PROVE  Repaired'
    OBVIOUS
  <2>a. ASSUME UNCHANGED <<versions, sizes, step, cr, todo, level>>, UNCHANGED outcome, full' = full
        PROVE  Repaired'
    <3>1. Repaired
      BY <2>a DEF Clean, outcome
    <3>2. PoolsBehind' = PoolsBehind /\ \A r \in Resource : Patched(r)' = Patched(r)
      BY <2>a DEF PoolsBehind, Patched, BlockBehind, FsBehind, OsBehind
    <3>3. UNCHANGED <<spec, size, minSize, level, rook, pools, step, todo>>
      BY <2>a DEF versions, sizes
    <3>4. QED
      BY <3>1, <3>2, <3>3, RepairedStays
  <2>b. ASSUME step \in Late \ {"health", "healthMin"}, step' \in Late \ {"health", "healthMin"},
               UNCHANGED <<versions, sizes, locals>>, Works \/ failed' = TRUE
        PROVE  Repaired'
    <3>1. full' = full /\ failed' = failed /\ skipped' = skipped
      BY <2>b DEF locals, Works, outcome, Clean
    <3>2. Repaired
      BY <3>1 DEF Clean
    <3>3. PoolsBehind' = PoolsBehind /\ \A r \in Resource : Patched(r)' => Patched(r)
      BY <2>b, AllBehind
    <3>4. UNCHANGED <<spec, size, minSize, level, rook, pools>> /\ step' # "min"
      BY <2>b DEF versions, sizes, locals, Late
    <3>5. QED
      BY <2>b, <3>2, <3>3, <3>4, RepairedStays
  <2>1. CASE Tick \/ CountHosts \/ GetCephVersion \/ EndTick
    <3>1. step' \in {"wait", "count", "version"} \/ (step' = "patch" /\ cr' = "block") \/ failed' = TRUE
      BY <2>1 DEF Tick, CountHosts, GetCephVersion, EndTick, At, Fails
    <3>2. QED
      BY <3>1, NothingBehind DEF Clean
  <2>2. CASE PatchResource
    BY <2>2, PatchRepairs
  <2>3. CASE SetSize
    BY <2>3, SetSizeRepairs
  <2>4. CASE SetMinSize
    BY <2>4, SetMinSizeRepairs
  <2>5. CASE SetPgNumMin
    <3>1. /\ ~Before14 /\ cr = "os" /\ step = "pgNum" /\ EndResource
          /\ UNCHANGED <<versions, sizes, level>> /\ full' = full
      BY <2>5 DEF SetPgNumMin, PlaceInv
    <3>2. failed' = failed /\ skipped' = skipped
      BY <2>5 DEF SetPgNumMin, CephRuns, CephSkipped, Fails, Works, outcome, Clean
    <3>3. Repaired /\ \A r \in Resource : Patched(r)
      BY <3>1, <3>2 DEF Clean, Patched, FsBehind, BlockBehind, InResource, Sizing, Resource
    <3>4. SpecsRaised'
      BY <3>1, <3>3 DEF Repaired, SpecsRaised, PoolsOf, Resource, sizes
    <3>5. PoolsResized' /\ HealthResized'
      BY <3>1, NextResource DEF PoolsResized, HealthResized, Before14, versions, Late, Resource
    <3>6. QED
      BY <3>4, <3>5 DEF Repaired
  <2>6. CASE SetDeviceHealthSize \/ SetDeviceHealthMinSize
    BY <2>6, HealthRepairs
  <2>7. CASE ReconcileMonCount \/ ReconcileMgrCount \/ SetCephCSIResources
             \/ PatchFilesystemMDSPlacement \/ PrioritizeRook
    <3>1. /\ step \in Late \ {"health", "healthMin"} /\ step' \in Late \ {"health", "healthMin"}
          /\ UNCHANGED <<versions, sizes, locals>>
      BY <2>7 DEF ReconcileMonCount, ReconcileMgrCount, SetCephCSIResources,
                  PatchFilesystemMDSPlacement, PrioritizeRook, At, Late
    <3>2. Works \/ failed' = TRUE
      BY <2>7 DEF ReconcileMonCount, ReconcileMgrCount, SetCephCSIResources,
                  PatchFilesystemMDSPlacement, PrioritizeRook, Fails
    <3>3. QED
      BY <2>b, <3>1, <3>2
  <2>8. CASE \E r \in Resource : RookApplies(r)
    <3>1. PICK r \in Resource : RookApplies(r)
      BY <2>8
    <3>2. Repaired
      BY <3>1 DEF RookApplies, Clean, locals, outcome
    <3>3. QED
      BY <3>1, <3>2, RookKeepsRepaired
  <2>9. CASE (\E o \in Osd : OsdChange(o)) \/ PodLost \/ PodReturns \/ UNCHANGED vars
    <3>1. UNCHANGED <<versions, sizes, place, locals, outcome>>
      BY <2>9 DEF OsdChange, PodLost, PodReturns, vars
    <3>2. UNCHANGED <<step, cr, todo, level>> /\ full' = full
      BY <3>1 DEF place, locals
    <3>3. QED
      BY <2>a, <3>1, <3>2
  <2>10. QED
    BY <2>1, <2>2, <2>3, <2>4, <2>5, <2>6, <2>7, <2>8, <2>9 DEF Next, OperatorStep
<1>3. QED
  BY <1>1, <1>2, TypeCorrect, PlaceInvariant, PTL DEF Spec, RepairInv

\* At the end of a full reconcile that reports no error and had a pod for its commands,
\* everything that ekco sets itself is at the level of the tick, whatever failed or was
\* skipped in the ticks before and whatever Rook, the pod and the OSDs did meanwhile.
THEOREM FullReconcileRepaired == Spec => []FullReconcileRepairs
<1>1. TypeOK /\ RepairInv => FullReconcileRepairs
  <2> SUFFICES ASSUME TypeOK, PlaceInv, Repaired, step = "end" PROVE
        /\ \A p \in CrPool : spec[p] >= level
        /\ Before14 => \A p \in pools : Holds(p, level)
        /\ ~Before14 => Holds("health", level)
    BY DEF RepairInv, Clean, FullReconcileRepairs
  <2>1. /\ step \in Late \ {"health", "healthMin"}
        /\ PoolsBehind = {"block", "fsMeta", "fsData", "osMeta", "nonEc", "osData"}
        /\ \A r \in Resource : Patched(r)
    BY AllBehind DEF Late
  <2>2. level \in Nat /\ MinOf(level) \in Nat
    BY LevelType DEF TypeOK, MinOf
  <2>3. \A p \in CrPool : spec[p] >= level
    BY <2>1 DEF Repaired, SpecsRaised, CrPool, PoolsOf, Resource
  <2>4. Before14 => \A p \in pools : Holds(p, level)
    <3>1. Before14 => pools \subseteq PoolsBehind
      BY <2>1 DEF PlaceInv, TypeOK, Pool, CrPool
    <3>2. QED
      BY <2>2, <3>1 DEF Repaired, PoolsResized, Holds
  <2>5. ~Before14 => Holds("health", level)
    BY <2>1, <2>2 DEF Repaired, HealthResized, Holds
  <2>6. QED
    BY <2>3, <2>4, <2>5
<1>2. QED
  BY <1>1, TypeCorrect, RepairInvariant, PTL
=============================================================================
