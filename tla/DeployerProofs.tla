--------------------------- MODULE DeployerProofs ---------------------------
(***************************************************************************)
(* Proofs about Deployer, for any deployers, pools and specs, caches as    *)
(* stale as they like, and crashes anywhere: its type invariant, that its  *)
(* pools behave as ResourcePool's (so that everything proved about them    *)
(* carries over), and that it implements RoundLedger.                      *)
(***************************************************************************)
EXTENDS Deployer, ResourcePoolProofs

-----------------------------------------------------------------------------
(* The inductive invariant. *)

\* The deployers: types, a spec for what exists, and what current means.
DepOK ==
    /\ dep \in [Deployers -> DeployerObject]
    /\ depCache \in [Deployers -> DeployerObject]
    /\ depFresh \in [Deployers -> BOOLEAN]
    /\ \A d \in Deployers : /\ dep[d].exists => dep[d].spec \in Specs
                            /\ depCache[d].exists => depCache[d].spec \in Specs
                            /\ depFresh[d] => depCache[d] = dep[d]

WorkOK ==
    /\ work \in [Deployers -> [Workloads -> PodStates]]
    /\ workCache \in [Deployers -> [Workloads -> PodStates]]

OrphansOK == orphans \in [Deployers -> SUBSET (Types \X Int)]

\* Where the copy is the object that was read.
Reading == {"finalize", "dropFinalizer", "addFinalizer", "undo", "cleanup", "release", "handle"}

\* What a reconciliation whose copy is current knows of the server's object:
\* on which side of the round asked for it is, and what of it the copy has.
Agrees(pc, copy, object) ==
    /\ object.exists /\ copy.exists
    /\ copy.deleting = object.deleting
    /\ copy.spec = object.spec
    /\ pc \in Reading => copy = object
    /\ object.deleting <=> pc \in {"finalize", "dropFinalizer"}
    /\ pc = "undo" => object.spec.round < object.currentRound
    /\ pc \in {"cleanup", "release", "beg", "save"} =>
           object.spec.round > object.currentRound
    /\ pc \in {"handle", "create", "publish"} => object.spec.round = object.currentRound
    /\ pc \in {"beg", "save"} =>
           /\ copy.currentRound = object.spec.round
           /\ copy.history = BackedUp(object)
           /\ copy.phase = "Pending"
    /\ pc \in {"create", "publish"} =>
           /\ copy.currentRound = object.currentRound
           /\ copy.history = object.history
           /\ copy.phase # "UNDO"

RunType == [pc : PCs, d : Deployers \cup {None}, copy : DeployerObject, fresh : BOOLEAN]

Working == run.pc \notin {"idle", "down"}

RunOK ==
    /\ run \in RunType
    /\ Working => run.d \in Deployers /\ run.copy.exists /\ run.copy.spec \in Specs
    /\ run.fresh => Working /\ Agrees(run.pc, run.copy, dep[run.d])

DeployerInv == DepOK /\ WorkOK /\ OrphansOK /\ RunOK /\ queue \in SUBSET Deployers

-----------------------------------------------------------------------------
(* Objects. *)

LEMMA AbsentDeployerType == AbsentDeployer \in DeployerObject /\ ~AbsentDeployer.exists
BY EmptySeq DEF AbsentDeployer, DeployerObject, Phases

LEMMA IdleType == Idle \in RunType /\ Idle.pc = "idle" /\ ~Idle.fresh
BY AbsentDeployerType DEF Idle, RunType, PCs

LEMMA DownType == Down \in RunType /\ Down.pc = "down" /\ ~Down.fresh
BY AbsentDeployerType DEF Down, Idle, RunType, PCs

LEMMA BackedUpType ==
    ASSUME NEW object \in DeployerObject, object.spec \in Specs
    PROVE  BackedUp(object) \in Seq(HistoryEntry)
<1> DEFINE entry == [round |-> object.currentRound, phase |-> object.phase,
                     spec |-> object.spec]
<1>1. entry \in HistoryEntry /\ object.history \in Seq(HistoryEntry)
    BY DEF DeployerObject, HistoryEntry
<1>2. Append(object.history, entry) \in Seq(HistoryEntry)
    BY <1>1, AppendProperties
<1> QED
    BY <1>1, <1>2 DEF BackedUp

\* The fields a handler sets, one at a time.
LEMMA SetField ==
    ASSUME NEW object \in DeployerObject
    PROVE  /\ \A v \in Phases : [object EXCEPT !.phase = v] \in DeployerObject
           /\ \A v \in Pools : [object EXCEPT !.resourcePool = v] \in DeployerObject
           /\ \A v \in BOOLEAN : [object EXCEPT !.finalizer = v] \in DeployerObject
           /\ \A v \in BOOLEAN : [object EXCEPT !.deleting = v] \in DeployerObject
           /\ \A v \in Specs : [object EXCEPT !.spec = v] \in DeployerObject
BY DEF DeployerObject

\* The objects that writers from outside make of a deployer.
LEMMA EditedType ==
    ASSUME NEW object \in DeployerObject, NEW spec \in Specs
    PROVE  LET new == [object EXCEPT !.spec = spec] IN
           /\ new \in DeployerObject /\ new.spec \in Specs
           /\ new.exists = object.exists /\ new.deleting = object.deleting
           /\ new.phase = object.phase /\ new.history = object.history
           /\ new.currentRound = object.currentRound
BY DEF DeployerObject

LEMMA AppliedType ==
    ASSUME NEW object \in DeployerObject, NEW spec \in Specs
    PROVE  LET new == [object EXCEPT !.spec = spec, !.finalizer = FALSE] IN
           /\ new \in DeployerObject /\ new.spec \in Specs
           /\ new.exists = object.exists /\ new.deleting = object.deleting
           /\ new.phase = object.phase /\ new.history = object.history
           /\ new.currentRound = object.currentRound
BY DEF DeployerObject

LEMMA MarkedType ==
    ASSUME NEW object \in DeployerObject
    PROVE  LET new == [object EXCEPT !.deleting = TRUE] IN
           /\ new \in DeployerObject /\ new.deleting = TRUE
           /\ new.exists = object.exists /\ new.spec = object.spec
           /\ new.phase = object.phase /\ new.history = object.history
           /\ new.currentRound = object.currentRound
BY DEF DeployerObject

LEMMA NextRoundType ==
    ASSUME NEW object \in DeployerObject, object.spec \in Specs
    PROVE  /\ NextRound(object) \in DeployerObject
           /\ NextRound(object).exists = object.exists
           /\ NextRound(object).deleting = object.deleting
           /\ NextRound(object).spec = object.spec
           /\ NextRound(object).currentRound = object.spec.round
           /\ NextRound(object).history = BackedUp(object)
           /\ NextRound(object).phase = "Pending"
<1>1. BackedUp(object) \in Seq(HistoryEntry) /\ object.spec.round \in Int
    BY BackedUpType, SpecsAssumption
<1> QED
    BY <1>1 DEF NextRound, DeployerObject, Phases

-----------------------------------------------------------------------------
(* The deployers. *)

LEMMA StoreKeepsDep ==
    ASSUME DepOK, NEW d \in Deployers, NEW object \in DeployerObject,
           object.exists => object.spec \in Specs, StoreDeployer(d, object)
    PROVE  /\ DepOK'
           /\ dep'[d] = object
           /\ \A e \in Deployers : e # d => dep'[e] = dep[e]
<1>1. /\ dep' \in [Deployers -> DeployerObject]
      /\ dep'[d] = object
      /\ \A e \in Deployers : e # d => dep'[e] = dep[e]
    BY DEF DepOK, StoreDeployer
<1>2. DeployersLag \in BOOLEAN
    BY SpecsAssumption
<1>3. depCache' \in [Deployers -> DeployerObject]
    BY <1>1 DEF DepOK, StoreDeployer
<1>4. depFresh' \in [Deployers -> BOOLEAN]
    BY DEF DepOK, StoreDeployer
<1>5. \A e \in Deployers : depFresh'[e] => depCache'[e] = dep'[e]
    BY <1>1, <1>2 DEF DepOK, StoreDeployer
<1>6. \A e \in Deployers : dep'[e].exists => dep'[e].spec \in Specs
    BY <1>1 DEF DepOK
<1>7. \A e \in Deployers : depCache'[e].exists => depCache'[e].spec \in Specs
    BY <1>6 DEF DepOK, StoreDeployer
<1> QED
    BY <1>1, <1>3, <1>4, <1>5, <1>6, <1>7 DEF DepOK

LEMMA PublishKeepsDep ==
    ASSUME DepOK, run.fresh => run.d \in Deployers, NEW object \in DeployerObject,
           object.spec \in Specs, PublishStatus(object)
    PROVE  /\ DepOK'
           /\ run.fresh => dep'[run.d] = object
BY StoreKeepsDep DEF PublishStatus, DepOK, depVars

LEMMA OutsideKeepsDep ==
    ASSUME DepOK, DeployerUser PROVE DepOK'
<1>1. ASSUME NEW d \in Deployers, NEW spec \in Specs, CreateDeployer(d, spec)
      PROVE  DepOK'
    <2> DEFINE object == [AbsentDeployer EXCEPT !.exists = TRUE, !.spec = spec]
    <2>1. object \in DeployerObject /\ object.spec \in Specs
        BY AbsentDeployerType DEF DeployerObject
    <2> HIDE DEF object
    <2>2. StoreDeployer(d, object)
        BY <1>1 DEF CreateDeployer, WriteFromOutside, object
    <2> QED
        BY <2>1, <2>2, StoreKeepsDep
<1>2. ASSUME NEW d \in Deployers, NEW spec \in Specs, EditDeployer(d, spec)
      PROVE  DepOK'
    <2> DEFINE object == [dep[d] EXCEPT !.spec = spec]
    <2>0. dep[d] \in DeployerObject
        BY DEF DepOK
    <2>1. object \in DeployerObject /\ object.spec \in Specs
        BY ONLY <2>0, spec \in Specs, EditedType
    <2> HIDE DEF object
    <2>2. StoreDeployer(d, object)
        BY <1>2 DEF EditDeployer, WriteFromOutside, object
    <2> QED
        BY <2>1, <2>2, StoreKeepsDep
<1>3. ASSUME NEW d \in Deployers, DeleteDeployer(d)
      PROVE  DepOK'
    <2> DEFINE marked == [dep[d] EXCEPT !.deleting = TRUE]
    <2>0. dep[d] \in DeployerObject /\ dep[d].spec \in Specs
        BY <1>3 DEF DeleteDeployer, DepOK
    <2>1. marked \in DeployerObject /\ marked.spec \in Specs
        BY ONLY <2>0, MarkedType
    <2> HIDE DEF marked
    <2>2. StoreDeployer(d, marked) \/ StoreDeployer(d, AbsentDeployer)
        BY <1>3 DEF DeleteDeployer, WriteFromOutside, marked
    <2> QED
        BY <2>1, <2>2, AbsentDeployerType, StoreKeepsDep
<1>4. ASSUME NEW d \in Deployers, NEW spec \in Specs, ApplyDeployer(d, spec)
      PROVE  DepOK'
    <2> DEFINE object == [dep[d] EXCEPT !.spec = spec, !.finalizer = FALSE]
    <2>0. dep[d] \in DeployerObject
        BY DEF DepOK
    <2>1. object \in DeployerObject /\ object.spec \in Specs
        BY ONLY <2>0, spec \in Specs, AppliedType
    <2> HIDE DEF object
    <2>2. StoreDeployer(d, object) \/ StoreDeployer(d, AbsentDeployer)
        BY <1>4 DEF ApplyDeployer, WriteFromOutside, object
    <2> QED
        BY <2>1, <2>2, AbsentDeployerType, StoreKeepsDep
<1> QED
    BY <1>1, <1>2, <1>3, <1>4 DEF DeployerUser

\* What the reconciler stores: the copy with one more field set.
LEMMA ControllerKeepsDep ==
    ASSUME DeployerInv, DeployerController PROVE DepOK'
<1> USE DEF DeployerInv
<1>0. Working => /\ run.d \in Deployers /\ run.copy \in DeployerObject
                 /\ run.copy.spec \in Specs
    BY DEF RunOK, RunType
<1>1. ASSUME Working, NEW v \in {"UNDO", "Failed", "Pending"}
      PROVE  /\ [run.copy EXCEPT !.phase = v] \in DeployerObject
             /\ [run.copy EXCEPT !.phase = v].spec \in Specs
    <2>1. v \in Phases
        BY DEF Phases
    <2>2. [run.copy EXCEPT !.phase = v] \in DeployerObject
        BY <1>0, <1>1, <2>1, SetField
    <2> QED
        BY <1>0, <1>1, <2>2 DEF DeployerObject
<1>2. CASE AddFinalizer
    <2> DEFINE object == [run.copy EXCEPT !.finalizer = TRUE]
    <2>1. Working
        BY <1>2 DEF AddFinalizer, At, Working
    <2>2. object \in DeployerObject /\ object.spec \in Specs
        BY <1>0, <2>1 DEF DeployerObject
    <2> HIDE DEF object
    <2>3. StoreDeployer(run.d, object)
        BY <1>2 DEF AddFinalizer, Store, object
    <2> QED
        BY <1>0, <2>1, <2>2, <2>3, StoreKeepsDep
<1>3. CASE DropFinalizer
    <2>1. Working /\ StoreDeployer(run.d, AbsentDeployer)
        BY <1>3 DEF DropFinalizer, Store, At, Working
    <2> QED
        BY <1>0, <2>1, AbsentDeployerType, StoreKeepsDep
<1>4. CASE Undo
    <2> DEFINE object == [run.copy EXCEPT !.phase = "UNDO"]
    <2>1. Working
        BY <1>4 DEF Undo, At, Working
    <2>2. object \in DeployerObject /\ object.spec \in Specs
        BY <1>1, <2>1
    <2> HIDE DEF object
    <2>3. StoreDeployer(run.d, object)
        BY <1>4 DEF Undo, Store, object
    <2> QED
        BY <1>0, <2>1, <2>2, <2>3, StoreKeepsDep
<1>5. CASE Save
    <2>1. Working /\ StoreDeployer(run.d, run.copy)
        BY <1>5 DEF Save, Store, At, Working
    <2> QED
        BY <1>0, <2>1, StoreKeepsDep
<1>6. CASE BegPanic \/ HandleFails
    <2> DEFINE object == [run.copy EXCEPT !.phase = "Failed"]
    <2>1. Working
        BY <1>6 DEF BegPanic, HandleFails, At, Working
    <2>2. object \in DeployerObject /\ object.spec \in Specs
        BY <1>1, <2>1
    <2> HIDE DEF object
    <2>3. PublishStatus(object)
        BY <1>6 DEF BegPanic, HandleFails, object
    <2> QED
        BY <1>0, <2>1, <2>2, <2>3, PublishKeepsDep
<1>7. CASE HandleMissing
    <2> DEFINE object == [run.copy EXCEPT !.phase = "Pending"]
    <2>1. Working
        BY <1>7 DEF HandleMissing, At, Working
    <2>2. object \in DeployerObject /\ object.spec \in Specs
        BY <1>1, <2>1
    <2> HIDE DEF object
    <2>3. PublishStatus(object)
        BY <1>7 DEF HandleMissing, object
    <2> QED
        BY <1>0, <2>1, <2>2, <2>3, PublishKeepsDep
<1>8. CASE Publish
    <2>1. Working /\ PublishStatus(run.copy)
        BY <1>8 DEF Publish, At, Working
    <2> QED
        BY <1>0, <2>1, PublishKeepsDep
<1>9. CASE UNCHANGED depVars
    BY <1>9 DEF DepOK, depVars
<1>10. UNCHANGED depVars \/ AddFinalizer \/ DropFinalizer \/ Undo \/ Save \/ BegPanic
           \/ HandleFails \/ HandleMissing \/ Publish
    BY DEF DeployerController, Conflict, Finalize, Cleanup, ReleaseOld, Beg, BegFails,
           HandleWatch, KeepJob, ForceDelete, CreateWorkload
<1> QED
    BY <1>2, <1>3, <1>4, <1>5, <1>6, <1>7, <1>8, <1>9, <1>10

LEMMA NextKeepsDep == ASSUME DeployerInv, Next PROVE DepOK'
<1> USE DEF DeployerInv
<1>1. ASSUME NEW d \in Deployers, SyncDeployer(d) PROVE DepOK'
    BY <1>1 DEF SyncDeployer, DepOK
<1>2. ASSUME Start PROVE DepOK'
    BY <1>2 DEF Start, DepOK
<1>3. CASE UNCHANGED depVars
    BY <1>3 DEF DepOK, depVars
<1>4. ASSUME Next
      PROVE  \/ DeployerController \/ DeployerUser \/ Start \/ UNCHANGED depVars
             \/ \E d \in Deployers : SyncDeployer(d)
    BY <1>4 DEF Next, Get, PoolStep, SyncWork, Resync, CollectGarbage, MovePod, OrphanEnds, Crash
<1> QED
    BY <1>1, <1>2, <1>3, <1>4, ControllerKeepsDep, OutsideKeepsDep

-----------------------------------------------------------------------------
(* The workloads. *)

LEMMA SetWorkType ==
    ASSUME WorkOK, NEW d \in Deployers, NEW w, NEW state \in PodStates, SetWork(d, w, state)
    PROVE  WorkOK'
<1>1. work' \in [Deployers -> [Workloads -> PodStates]]
    BY DEF WorkOK, SetWork
<1> QED
    BY <1>1 DEF WorkOK, SetWork

LEMMA ControllerKeepsWork ==
    ASSUME DeployerInv, DeployerController PROVE WorkOK'
<1> USE DEF DeployerInv
<1>1. CASE UNCHANGED workVars
    BY <1>1 DEF WorkOK, workVars
<1>2. CASE Cleanup \/ ForceDelete \/ CreateWorkload
    <2>1. Working
        BY <1>2 DEF Cleanup, ForceDelete, CreateWorkload, At, Working
    <2>2. run.d \in Deployers
        BY <2>1 DEF RunOK
    <2>3. \/ UNCHANGED workVars
          \/ \E w : SetWork(run.d, w, "none") \/ SetWork(run.d, w, "nopod")
        BY <1>2 DEF Cleanup, DeleteJob, ForceDelete, CreateWorkload
    <2> QED
        BY <1>1, <2>2, <2>3, SetWorkType DEF PodStates
<1> QED
    BY <1>1, <1>2
    DEF DeployerController, Conflict, AddFinalizer, Finalize, DropFinalizer, Undo, ReleaseOld,
        Beg, BegFails, BegPanic, Save, HandleMissing, HandleWatch, HandleFails, KeepJob, Publish

LEMMA NextKeepsWork == ASSUME DeployerInv, Next PROVE WorkOK'
<1> USE DEF DeployerInv
<1>1. CASE UNCHANGED workVars
    BY <1>1 DEF WorkOK, workVars
<1>2. ASSUME NEW d \in Deployers, NEW w \in Workloads, MovePod(d, w) PROVE WorkOK'
    <2>1. PICK move \in PodMoves(w[1]) : SetWork(d, w, move[2])
        BY <1>2 DEF MovePod
    <2>2. move[2] \in PodStates
        BY DEF PodMoves, PodStates
    <2> QED
        BY <2>1, <2>2, SetWorkType
<1>3. ASSUME NEW d \in Deployers, SyncWork(d) PROVE WorkOK'
    BY <1>3 DEF SyncWork, WorkOK
<1>4. ASSUME NEW d \in Deployers, CollectGarbage(d) PROVE WorkOK'
    <2>1. NoWork \in [Workloads -> PodStates]
        BY DEF NoWork, PodStates
    <2>2. work' \in [Deployers -> [Workloads -> PodStates]]
        BY <1>4, <2>1 DEF CollectGarbage, WorkOK
    <2> QED
        BY <1>4, <2>2 DEF CollectGarbage, WorkOK
<1>5. ASSUME Start PROVE WorkOK'
    BY <1>5 DEF Start, WorkOK
<1>6. ASSUME Next
      PROVE  \/ DeployerController \/ Start \/ UNCHANGED workVars
             \/ \E d \in Deployers : \/ SyncWork(d) \/ CollectGarbage(d)
                                     \/ \E w \in Workloads : MovePod(d, w) \/ OrphanEnds(d, w)
    BY <1>6 DEF Next, Get, PoolStep, DeployerUser, CreateDeployer, EditDeployer, DeleteDeployer,
                ApplyDeployer, WriteFromOutside, SyncDeployer, Resync, Crash
<1>7. ASSUME NEW d \in Deployers, NEW w \in Workloads, OrphanEnds(d, w) PROVE WorkOK'
    BY <1>7 DEF OrphanEnds, WorkOK
<1> QED
    BY <1>1, <1>2, <1>3, <1>4, <1>5, <1>6, <1>7, ControllerKeepsWork

\* An orphan was the job of the copy's current round.
LEMMA NextKeepsOrphans == ASSUME DeployerInv, Next PROVE OrphansOK'
<1> USE DEF DeployerInv
<1>1. CASE UNCHANGED orphans
    BY <1>1 DEF OrphansOK
<1>2. CASE Cleanup
    <2>1. run.copy.currentRound \in Int
        BY DEF RunOK, RunType, DeployerObject
    <2>2. UNCHANGED orphans \/ DeleteJob(run.d, <<"job", run.copy.currentRound>>)
        BY <1>2 DEF Cleanup, workVars
    <2> QED
        BY <1>1, <2>1, <2>2 DEF DeleteJob, OrphansOK, Types
<1>3. ASSUME NEW d \in Deployers, NEW w \in Workloads, OrphanEnds(d, w) PROVE OrphansOK'
    BY <1>3 DEF OrphanEnds, OrphansOK
<1>4. ASSUME DeployerController PROVE Cleanup \/ UNCHANGED orphans
    BY <1>4 DEF DeployerController, Conflict, AddFinalizer, Finalize, DropFinalizer, Undo,
                ReleaseOld, Beg, BegFails, BegPanic, Save, HandleMissing, HandleWatch,
                HandleFails, KeepJob, ForceDelete, CreateWorkload, Publish, workVars
<1>5. ASSUME Next
      PROVE  \/ DeployerController \/ UNCHANGED orphans
             \/ \E d \in Deployers : \E w \in Workloads : OrphanEnds(d, w)
    BY <1>5 DEF Next, Get, PoolStep, DeployerUser, CreateDeployer, EditDeployer, DeleteDeployer,
                ApplyDeployer, WriteFromOutside, SyncDeployer, SyncWork, Resync,
                CollectGarbage, MovePod, Crash, Start, workVars
<1> QED
    BY <1>1, <1>2, <1>3, <1>4, <1>5

-----------------------------------------------------------------------------
(* The reconciliation in progress. *)

\* Whoever else writes a deployer makes the copy of a reconciliation stale.
LEMMA OutsideKeepsRun ==
    ASSUME DeployerInv, NEW d \in Deployers, NEW object, WriteFromOutside(d, object)
    PROVE  RunOK'
<1>1. \/ run' = run /\ (run.d = d => object = dep[d])
      \/ run' = [run EXCEPT !.fresh = FALSE]
    BY DEF WriteFromOutside
<1>2. /\ dep'[d] = object
      /\ \A e \in Deployers : e # d => dep'[e] = dep[e]
    BY DEF WriteFromOutside, StoreDeployer, DeployerInv, DepOK
<1>3. CASE run' = run /\ (run.d = d => object = dep[d])
    <2>1. run.fresh => dep'[run.d] = dep[run.d]
        BY <1>2, <1>3 DEF DeployerInv, RunOK
    <2>2. ASSUME run.fresh PROVE Agrees(run'.pc, run'.copy, dep'[run'.d])
        BY <1>3, <2>1, <2>2 DEF DeployerInv, RunOK
    <2> QED
        BY <1>3, <2>2 DEF DeployerInv, RunOK, Working
<1>4. CASE run' = [run EXCEPT !.fresh = FALSE]
    <2>1. run' \in RunType /\ ~run'.fresh /\ run'.pc = run.pc /\ run'.d = run.d
              /\ run'.copy = run.copy
        BY <1>4 DEF DeployerInv, RunOK, RunType
    <2> QED
        BY <2>1 DEF DeployerInv, RunOK, Working
<1> QED
    BY <1>1, <1>3, <1>4

\* The branch that is taken is the one that the object's fields determine.
LEMMA RouteAgrees ==
    ASSUME NEW object \in DeployerObject, object.exists, object.spec \in Specs,
           Route(object) # "idle"
    PROVE  /\ Route(object) \in PCs \ {"idle", "down"}
           /\ Agrees(Route(object), object, object)
<1>1. object.spec.round \in Int /\ object.currentRound \in Int
         /\ object.deleting \in BOOLEAN /\ object.finalizer \in BOOLEAN
    BY SpecsAssumption DEF DeployerObject
<1>2. CASE object.deleting
    BY <1>1, <1>2 DEF Route, PCs, Agrees, Reading
<1>3. CASE ~object.deleting /\ ~object.finalizer
    BY <1>1, <1>3 DEF Route, PCs, Agrees, Reading
<1>4. CASE ~object.deleting /\ object.finalizer
    <2>1. Route(object) = IF object.spec.round < object.currentRound THEN "undo"
                          ELSE IF object.spec.round > object.currentRound THEN "cleanup"
                          ELSE "handle"
        BY <1>1, <1>4 DEF Route
    <2> QED
        BY <1>1, <1>4, <2>1 DEF PCs, Agrees, Reading
<1> QED
    BY <1>1, <1>2, <1>3, <1>4

LEMMA GetKeepsRun == ASSUME DeployerInv, NEW d \in Deployers, Get(d) PROVE RunOK'
<1> DEFINE seen == depCache[d]
<1>1. UNCHANGED dep
    BY DEF Get, depVars
<1>2. CASE ~(seen.exists /\ Route(seen) # "idle")
    BY <1>2, IdleType DEF Get, RunOK, Working
<1>3. CASE seen.exists /\ Route(seen) # "idle"
    <2>1. run' = [pc |-> Route(seen), d |-> d, copy |-> seen, fresh |-> depFresh[d]]
        BY <1>3 DEF Get
    <2>2. /\ seen \in DeployerObject /\ seen.spec \in Specs /\ depFresh[d] \in BOOLEAN
          /\ depFresh[d] => seen = dep[d]
        BY <1>3 DEF DeployerInv, DepOK
    <2> HIDE DEF seen
    <2>3. Route(seen) \in PCs \ {"idle", "down"} /\ Agrees(Route(seen), seen, seen)
        BY <1>3, <2>2, RouteAgrees
    <2>4. run' \in RunType /\ run'.pc \notin {"idle", "down"} /\ run'.copy = seen
             /\ run'.d = d /\ run'.fresh = depFresh[d] /\ run'.pc = Route(seen)
        BY <2>1, <2>2, <2>3 DEF RunType
    <2>5. run'.fresh => Agrees(run'.pc, run'.copy, dep'[run'.d])
        BY <1>1, <2>2, <2>3, <2>4
    <2> QED
        BY <1>3, <2>2, <2>4, <2>5 DEF RunOK, Working
<1> QED
    BY <1>2, <1>3

\* The next step of a reconciliation.
LEMMA GotoKeepsRun ==
    ASSUME DeployerInv, Working, NEW pc \in PCs \ {"idle", "down"},
           NEW copy \in DeployerObject, copy.exists, copy.spec \in Specs, Goto(pc, copy),
           run.fresh => Agrees(pc, copy, dep'[run.d])
    PROVE  RunOK'
<1>1. /\ run' \in RunType /\ run'.pc = pc /\ run'.copy = copy
      /\ run'.d = run.d /\ run'.fresh = run.fresh
    BY DEF Goto, DeployerInv, RunOK, RunType
<1>2. run'.fresh => Agrees(run'.pc, run'.copy, dep'[run'.d])
    BY <1>1
<1> QED
    BY <1>1, <1>2 DEF DeployerInv, RunOK, Working

\* A copy of which one status is changed, in the round it was read in.
LEMMA HandledAgrees ==
    ASSUME NEW copy \in DeployerObject, NEW object \in DeployerObject,
           Agrees("handle", copy, object), NEW phase \in Phases \ {"UNDO"},
           NEW pc \in {"create", "publish"}
    PROVE  /\ [copy EXCEPT !.phase = phase] \in DeployerObject
           /\ [copy EXCEPT !.phase = phase].exists
           /\ [copy EXCEPT !.phase = phase].spec = object.spec
           /\ Agrees(pc, [copy EXCEPT !.phase = phase], object)
           /\ Agrees(pc, [copy EXCEPT !.phase = phase], [copy EXCEPT !.phase = phase])
<1> DEFINE new == [copy EXCEPT !.phase = phase]
<1>1. copy = object /\ object.exists /\ ~object.deleting
          /\ object.spec.round = object.currentRound
    BY DEF Agrees, Reading
<1>2. /\ new \in DeployerObject
      /\ new.exists = object.exists /\ new.deleting = object.deleting
      /\ new.spec = object.spec /\ new.currentRound = object.currentRound
      /\ new.history = object.history /\ new.phase = phase
    BY <1>1 DEF DeployerObject
<1> HIDE DEF new
<1>3. new.phase # "UNDO"
    BY <1>2
<1>4. Agrees(pc, new, object) /\ Agrees(pc, new, new)
    BY <1>1, <1>2, <1>3 DEF Agrees, Reading
<1> QED
    BY <1>1, <1>2, <1>4 DEF new

LEMMA IdleKeepsRun == ASSUME run' = Idle \/ run' = Down PROVE RunOK'
BY IdleType, DownType DEF RunOK, Working

LEMMA PhaseOfWorkload ==
    ASSUME DeployerInv, At("handle")
    PROVE  PhaseOfPod[workCache[run.d][Workload]] \in Phases \ {"UNDO"}
<1>1. run.d \in Deployers /\ run.copy.spec \in Specs
    BY DEF At, Working, DeployerInv, RunOK
<1>2. Workload \in Workloads
    BY <1>1 DEF Workload, Workloads, RoundNumbers
<1>3. workCache[run.d][Workload] \in PodStates
    BY <1>1, <1>2 DEF DeployerInv, WorkOK
<1> QED
    BY <1>3 DEF PhaseOfPod, Phases, PodStates

LEMMA ControllerKeepsRun ==
    ASSUME DeployerInv, DeployerController PROVE RunOK'
<1> DEFINE object == dep[run.d]
<1>0. /\ Working => /\ run.d \in Deployers /\ run.copy \in DeployerObject
                    /\ run.copy.exists /\ run.copy.spec \in Specs
                    /\ object \in DeployerObject
      /\ run.fresh => Working /\ Agrees(run.pc, run.copy, object)
    BY DEF DeployerInv, RunOK, RunType, DepOK
<1>1. CASE Conflict \/ DropFinalizer \/ Undo \/ BegFails \/ BegPanic \/ Save \/ HandleFails
               \/ Publish
    <2>1. run' = Idle
        BY <1>1 DEF Conflict, DropFinalizer, Undo, BegFails, BegPanic, Save, HandleFails,
                    Publish, Return
    <2> QED
        BY <2>1, IdleKeepsRun
<1>2. CASE AddFinalizer
    <2> DEFINE added == [run.copy EXCEPT !.finalizer = TRUE]
    <2>1. /\ run.pc = "addFinalizer" /\ Working /\ run.fresh
          /\ StoreDeployer(run.d, added)
          /\ Goto(Route(added), added)
        BY <1>2 DEF AddFinalizer, At, Store, Working
    <2>2. ~run.copy.deleting
        BY <1>0, <2>1 DEF Agrees
    <2>3. /\ added \in DeployerObject /\ added.exists /\ added.spec \in Specs
          /\ added.finalizer /\ added.deleting = FALSE
        BY <1>0, <2>1, <2>2 DEF DeployerObject
    <2> HIDE DEF added
    <2>4. Route(added) # "idle"
        BY <2>3 DEF Route
    <2>5. dep'[run.d] = added
        BY <1>0, <2>1, <2>3, StoreKeepsDep DEF DeployerInv
    <2>6. Route(added) \in PCs \ {"idle", "down"} /\ Agrees(Route(added), added, added)
        BY <2>3, <2>4, RouteAgrees
    <2> QED
        BY <2>1, <2>3, <2>5, <2>6, GotoKeepsRun
<1>3. CASE Finalize
    <2>1. run.pc = "finalize" /\ Working /\ UNCHANGED dep
        BY <1>3 DEF Finalize, At, Working, depVars
    <2>2. Goto("dropFinalizer", run.copy) \/ run' = Idle
        BY <1>3 DEF Finalize, Release, Return
    <2>3. run.fresh => Agrees("dropFinalizer", run.copy, dep'[run.d])
        BY <1>0, <2>1 DEF Agrees, Reading
    <2> QED
        BY <1>0, <2>1, <2>2, <2>3, GotoKeepsRun, IdleKeepsRun DEF PCs
<1>4. CASE Cleanup
    <2>1. run.pc = "cleanup" /\ Working /\ UNCHANGED dep
        BY <1>4 DEF Cleanup, At, Working, depVars
    <2>2. Goto("release", run.copy) \/ run' = Idle
        BY <1>4 DEF Cleanup, Return
    <2>3. run.fresh => Agrees("release", run.copy, dep'[run.d])
        BY <1>0, <2>1 DEF Agrees, Reading
    <2> QED
        BY <1>0, <2>1, <2>2, <2>3, GotoKeepsRun, IdleKeepsRun DEF PCs
<1>5. CASE ReleaseOld
    <2>1. run.pc = "release" /\ Working /\ UNCHANGED dep
        BY <1>5 DEF ReleaseOld, At, Working, depVars
    <2>2. Goto("beg", NextRound(run.copy)) \/ run' = Idle
        BY <1>5 DEF ReleaseOld, Release, Return
    <2>3. /\ NextRound(run.copy) \in DeployerObject
          /\ NextRound(run.copy).exists = run.copy.exists
          /\ NextRound(run.copy).deleting = run.copy.deleting
          /\ NextRound(run.copy).spec = run.copy.spec
          /\ NextRound(run.copy).currentRound = run.copy.spec.round
          /\ NextRound(run.copy).history = BackedUp(run.copy)
          /\ NextRound(run.copy).phase = "Pending"
        BY <1>0, <2>1, NextRoundType
    <2>4. run.fresh => Agrees("beg", NextRound(run.copy), dep'[run.d])
        BY <1>0, <2>1, <2>3 DEF Agrees, Reading
    <2> QED
        BY <1>0, <2>1, <2>2, <2>3, <2>4, GotoKeepsRun, IdleKeepsRun DEF PCs
<1>6. CASE Beg
    <2> DEFINE granted == [run.copy EXCEPT !.resourcePool = run.copy.spec.pool]
    <2>1. run.pc = "beg" /\ Working /\ UNCHANGED dep /\ Goto("save", granted)
        BY <1>6 DEF Beg, At, Working, depVars
    <2>2. run.copy.spec.pool \in Pools
        BY <1>0, <2>1, SpecsAssumption
    <2>3. /\ granted \in DeployerObject
          /\ granted.exists = run.copy.exists /\ granted.deleting = run.copy.deleting
          /\ granted.spec = run.copy.spec /\ granted.currentRound = run.copy.currentRound
          /\ granted.history = run.copy.history /\ granted.phase = run.copy.phase
        BY <1>0, <2>1, <2>2 DEF DeployerObject
    <2> HIDE DEF granted
    <2>4. run.fresh => Agrees("save", granted, dep'[run.d])
        BY <1>0, <2>1, <2>3 DEF Agrees, Reading
    <2> QED
        BY <1>0, <2>1, <2>3, <2>4, GotoKeepsRun DEF PCs
<1>7. CASE HandleMissing
    <2> DEFINE pending == [run.copy EXCEPT !.phase = "Pending"]
    <2>1. run.pc = "handle" /\ Working /\ PublishStatus(pending) /\ Goto("create", pending)
        BY <1>7 DEF HandleMissing, At, Working
    <2>2. pending \in DeployerObject /\ pending.exists /\ pending.spec \in Specs
        BY <1>0, <2>1 DEF DeployerObject, Phases
    <2>3. ASSUME run.fresh PROVE Agrees("create", pending, pending)
        <3>1. /\ run.copy \in DeployerObject /\ object \in DeployerObject
              /\ Agrees("handle", run.copy, object)
            BY <1>0, <2>1, <2>3
        <3>2. "Pending" \in Phases \ {"UNDO"}
            BY DEF Phases
        <3>3. "create" \in {"create", "publish"}
            OBVIOUS
        <3> HIDE DEF object
        <3> QED
            BY ONLY <3>1, <3>2, <3>3, HandledAgrees
    <2> HIDE DEF pending
    <2>4. run.fresh => dep'[run.d] = pending
        BY <1>0, <2>1, <2>2, PublishKeepsDep DEF DeployerInv
    <2> QED
        BY <2>1, <2>2, <2>3, <2>4, GotoKeepsRun DEF PCs
<1>8. CASE HandleWatch
    <2> DEFINE phase == PhaseOfPod[workCache[run.d][Workload]]
               seen == [run.copy EXCEPT !.phase = phase]
    <2>1. run.pc = "handle" /\ Working /\ UNCHANGED dep /\ Goto("publish", seen)
        BY <1>8 DEF HandleWatch, At, Working, depVars
    <2>2. phase \in Phases \ {"UNDO"}
        BY <2>1, PhaseOfWorkload DEF At
    <2> HIDE DEF phase
    <2>3. seen \in DeployerObject /\ seen.exists /\ seen.spec \in Specs
        BY <1>0, <2>1, <2>2 DEF DeployerObject
    <2>4. ASSUME run.fresh PROVE Agrees("publish", seen, dep'[run.d])
        <3>1. /\ run.copy \in DeployerObject /\ object \in DeployerObject
              /\ Agrees("handle", run.copy, object)
            BY <1>0, <2>1, <2>4
        <3>2. "publish" \in {"create", "publish"}
            OBVIOUS
        <3>3. object = dep'[run.d]
            BY <2>1
        <3> HIDE DEF object
        <3>4. Agrees("publish", seen, object)
            BY ONLY <2>2, <3>1, <3>2, HandledAgrees
        <3> QED
            BY ONLY <3>3, <3>4
    <2> HIDE DEF seen
    <2> QED
        BY <2>1, <2>3, <2>4, GotoKeepsRun DEF PCs
<1>9. CASE KeepJob \/ CreateWorkload
    <2>1. run.pc = "create" /\ Working /\ UNCHANGED dep /\ Goto("publish", run.copy)
        BY <1>9 DEF KeepJob, CreateWorkload, At, Working, depVars
    <2>2. run.fresh => Agrees("publish", run.copy, dep'[run.d])
        BY <1>0, <2>1 DEF Agrees, Reading
    <2> QED
        BY <1>0, <2>1, <2>2, GotoKeepsRun DEF PCs
<1>10. CASE ForceDelete
    BY <1>10 DEF ForceDelete, DeployerInv, RunOK, Working, depVars
<1> QED
    BY <1>1, <1>2, <1>3, <1>4, <1>5, <1>6, <1>7, <1>8, <1>9, <1>10 DEF DeployerController

LEMMA NextKeepsRun == ASSUME DeployerInv, Next PROVE RunOK'
<1>1. CASE UNCHANGED <<run, dep>>
    BY <1>1 DEF DeployerInv, RunOK, Working
<1>2. ASSUME DeployerUser PROVE RunOK'
    BY <1>2, OutsideKeepsRun
    DEF DeployerUser, CreateDeployer, EditDeployer, DeleteDeployer, ApplyDeployer
<1>3. ASSUME Crash \/ Start PROVE RunOK'
    BY <1>3, IdleKeepsRun DEF Crash, Start
<1>4. ASSUME Next
      PROVE  \/ DeployerController \/ DeployerUser \/ Crash \/ Start \/ UNCHANGED <<run, dep>>
             \/ \E d \in Deployers : Get(d)
    BY <1>4 DEF Next, PoolStep, SyncDeployer, SyncWork, Resync, CollectGarbage, MovePod,
                OrphanEnds, depVars
<1> QED
    BY <1>1, <1>2, <1>3, <1>4, GetKeepsRun, ControllerKeepsRun

LEMMA NextKeepsQueue == ASSUME DeployerInv, Next PROVE queue' \in SUBSET Deployers
<1> USE DEF DeployerInv
<1>1. Working => run.d \in Deployers
    BY DEF RunOK
<1>2. ASSUME DeployerController PROVE queue' \in SUBSET Deployers
    <2>1. Working
        BY <1>2 DEF DeployerController, Conflict, AddFinalizer, Finalize, DropFinalizer, Undo,
                    Cleanup, ReleaseOld, Beg, BegFails, BegPanic, Save, HandleMissing,
                    HandleWatch, HandleFails, KeepJob, ForceDelete, CreateWorkload, Publish,
                    At, Working
    <2>2. queue' \subseteq queue \cup {run.d}
        BY <1>2 DEF DeployerController, Conflict, AddFinalizer, Finalize, DropFinalizer, Undo,
                    Cleanup, ReleaseOld, Release, Beg, BegFails, BegPanic, Save, HandleMissing,
                    HandleWatch, HandleFails, KeepJob, ForceDelete, CreateWorkload, Publish,
                    Return, Woken, WokenByPublish
    <2> QED
        BY <1>1, <2>1, <2>2
<1>3. ASSUME DeployerUser PROVE queue' \in SUBSET Deployers
    BY <1>3 DEF DeployerUser, CreateDeployer, EditDeployer, DeleteDeployer, ApplyDeployer,
                WriteFromOutside, Woken
<1>4. ASSUME Next
      PROVE  \/ DeployerController \/ DeployerUser \/ UNCHANGED queue
             \/ \E d \in Deployers : queue' = queue \cup {d} \/ queue' = queue \ {d}
             \/ queue' \subseteq Deployers
    BY <1>4 DEF Next, Get, PoolStep, SyncDeployer, SyncWork, Resync, CollectGarbage, MovePod,
                OrphanEnds, Crash, Start
<1> QED
    BY <1>2, <1>3, <1>4

THEOREM DeployerInvariant == Spec => []DeployerInv
<1>1. Init => DeployerInv
    <2> SUFFICES ASSUME Init PROVE DeployerInv
        OBVIOUS
    <2>1. DepOK
        BY AbsentDeployerType DEF Init, DepOK
    <2>2. WorkOK
        BY DEF Init, WorkOK, NoWork, PodStates
    <2>3. RunOK
        BY IdleType DEF Init, RunOK, Working
    <2> QED
        BY <2>1, <2>2, <2>3 DEF DeployerInv, OrphansOK, Init
<1>2. DeployerInv /\ [Next]_vars => DeployerInv'
    <2>1. DeployerInv /\ Next => DeployerInv'
        BY NextKeepsDep, NextKeepsWork, NextKeepsOrphans, NextKeepsRun, NextKeepsQueue
        DEF DeployerInv
    <2>2. DeployerInv /\ UNCHANGED vars => DeployerInv'
        BY DEF DeployerInv, DepOK, WorkOK, OrphansOK, RunOK, Working, vars, depVars, workVars
    <2> QED
        BY <2>1, <2>2
<1> QED
    BY <1>1, <1>2, PTL DEF Spec

-----------------------------------------------------------------------------
(* The pools under the deployers. *)

LEMMA ControllerUsesPools ==
    ASSUME DeployerInv, DeployerController PROVE PoolNext \/ UNCHANGED poolVars
<1>0. Working => run.d \in Owners /\ run.copy.spec \in Specs
    BY DEF DeployerInv, RunOK, Deployers
<1>1. CASE Beg
    <2>1. Working /\ BegGranted(run.copy.spec.pool, run.d, run.copy.spec.amount)
        BY <1>1 DEF Beg, At, Working
    <2>2. run.copy.spec.pool \in Pools /\ run.copy.spec.amount \in Requests
        BY <1>0, <2>1, SpecsAssumption
    <2> QED
        BY <1>0, <2>1, <2>2 DEF PoolNext, PoolClient
<1>2. CASE Finalize \/ ReleaseOld
    <2>1. Working
        BY <1>2 DEF Finalize, ReleaseOld, At, Working
    <2>2. Released(run.copy.resourcePool, run.d) \/ UNCHANGED poolVars
        BY <1>2 DEF Finalize, ReleaseOld, Release
    <2>3. Released(run.copy.resourcePool, run.d) => run.copy.resourcePool \in Pools
        BY DEF Released
    <2> QED
        BY <1>0, <2>1, <2>2, <2>3 DEF PoolNext, PoolClient
<1> QED
    BY <1>1, <1>2
    DEF DeployerController, Conflict, AddFinalizer, DropFinalizer, Undo, Cleanup, BegFails,
        BegPanic, Save, HandleMissing, HandleWatch, HandleFails, KeepJob, ForceDelete,
        CreateWorkload, Publish

LEMMA NextUsesPools == DeployerInv /\ [Next]_vars => [PoolNext]_poolVars
<1> SUFFICES ASSUME DeployerInv, [Next]_vars PROVE PoolNext \/ UNCHANGED poolVars
    OBVIOUS
<1>1. ASSUME PoolStep PROVE PoolNext
    BY <1>1 DEF PoolStep, PoolNext
<1>2. ASSUME Start PROVE PoolNext
    BY <1>2 DEF Start, PoolNext
<1>3. ASSUME Crash PROVE AbandonPool \/ UNCHANGED poolVars
    BY <1>3 DEF Crash, AbandonPool, poolVars
<1>4. \/ DeployerController \/ PoolStep \/ Start \/ Crash \/ UNCHANGED poolVars
    BY DEF Next, Get, DeployerUser, CreateDeployer, EditDeployer, DeleteDeployer, ApplyDeployer,
           WriteFromOutside, SyncDeployer, SyncWork, Resync, CollectGarbage, MovePod,
           OrphanEnds, vars
<1> QED
    BY <1>1, <1>2, <1>3, <1>4, ControllerUsesPools DEF PoolNext, PoolController

\* Whatever deployers do, to the pools it is what ResourcePool's clients do.
THEOREM DeployersArePoolClients == Spec => PoolSpec
<1>1. Init => PoolInit
    BY DEF Init
<1> QED
    BY <1>1, NextUsesPools, DeployerInvariant, PTL DEF Spec, PoolSpec

\* Every variable has its type, and a pool's copy called current is the server's.
THEOREM DeployersTypeCorrect == Spec => []TypeOK
<1>1. DeployerInv /\ PoolTypeOK => TypeOK
    BY DEF DeployerInv, DepOK, WorkOK, OrphansOK, RunOK, RunType, TypeOK
<1> QED
    BY <1>1, DeployerInvariant, DeployersArePoolClients, PoolTypeCorrect, PTL

\* With deployers, workflows, stale caches and crashes, too, a pool in use has
\* its finalizer and was initialised by its reconciler,
THEOREM ReservationsAreProtectedAmongDeployers == Spec => []ReservationsProtected
BY DeployersArePoolClients, ReservationsAreProtected, PTL

\* and no reservation is lost, doubled or taken by a stale copy.
THEOREM DeployersImplementLedger == Spec => ImplementsLedger
BY DeployersArePoolClients, PoolsImplementLedger, PTL

-----------------------------------------------------------------------------
(* The rounds of the deployers. *)

View(object) ==
    [exists |-> object.exists, deleting |-> object.deleting, spec |-> object.spec,
     phase |-> object.phase, currentRound |-> object.currentRound,
     history |-> object.history]

Viewed == [d \in Deployers |-> View(dep[d])]

ViewType ==
    [exists : BOOLEAN, deleting : BOOLEAN, spec : Specs \cup {None}, phase : Phases,
     currentRound : Int, history : Seq(HistoryEntry)]

LEMMA ViewFields ==
    ASSUME NEW object \in DeployerObject
    PROVE  /\ View(object) \in ViewType
           /\ View(object).exists = object.exists
           /\ View(object).deleting = object.deleting
           /\ View(object).spec = object.spec
           /\ View(object).phase = object.phase
           /\ View(object).currentRound = object.currentRound
           /\ View(object).history = object.history
BY DEF View, ViewType, DeployerObject

LEMMA SameView ==
    ASSUME NEW view \in ViewType, NEW other \in ViewType,
           view.exists = other.exists, view.deleting = other.deleting,
           view.spec = other.spec, view.phase = other.phase,
           view.currentRound = other.currentRound, view.history = other.history
    PROVE  view = other
BY DEF ViewType

LEMMA StoreViews ==
    ASSUME DepOK, NEW d \in Deployers, NEW object, StoreDeployer(d, object)
    PROVE  Viewed' = [Viewed EXCEPT ![d] = View(object)]
<1>1. dep' = [dep EXCEPT ![d] = object]
    BY DEF StoreDeployer
<1>2. \A e \in Deployers : View(dep'[e]) = IF e = d THEN View(object) ELSE View(dep[e])
    BY <1>1 DEF DepOK
<1> QED
    BY <1>2 DEF Viewed

\* The view that the ledger's steps set is that of the object stored.
LEMMA MovedView ==
    ASSUME NEW old \in DeployerObject, NEW new \in DeployerObject,
           new.exists = old.exists, new.deleting = old.deleting, new.spec = old.spec
    PROVE  View(new) = [View(old) EXCEPT !.phase = new.phase, !.history = new.history,
                                         !.currentRound = new.currentRound]
<1> DEFINE view == [View(old) EXCEPT !.phase = new.phase, !.history = new.history,
                                     !.currentRound = new.currentRound]
<1>1. /\ View(old) \in ViewType /\ View(new) \in ViewType
      /\ new.phase \in Phases /\ new.history \in Seq(HistoryEntry) /\ new.currentRound \in Int
    BY ViewFields DEF DeployerObject
<1>2. /\ view \in ViewType /\ view.exists = View(old).exists
      /\ view.deleting = View(old).deleting /\ view.spec = View(old).spec
      /\ view.phase = new.phase /\ view.history = new.history
      /\ view.currentRound = new.currentRound
    BY <1>1 DEF ViewType
<1> HIDE DEF view
<1>3. View(new) = view
    BY <1>1, <1>2, ViewFields, SameView
<1> QED
    BY <1>3 DEF view

LEMMA ReportedView ==
    ASSUME NEW old \in DeployerObject, NEW new \in DeployerObject,
           new.exists = old.exists, new.deleting = old.deleting, new.spec = old.spec,
           new.currentRound = old.currentRound, new.history = old.history
    PROVE  View(new) = [View(old) EXCEPT !.phase = new.phase]
<1> DEFINE view == [View(old) EXCEPT !.phase = new.phase]
<1>1. View(old) \in ViewType /\ View(new) \in ViewType /\ new.phase \in Phases
    BY ViewFields DEF DeployerObject
<1>2. /\ view \in ViewType /\ view.exists = View(old).exists
      /\ view.deleting = View(old).deleting /\ view.spec = View(old).spec
      /\ view.phase = new.phase /\ view.history = View(old).history
      /\ view.currentRound = View(old).currentRound
    BY <1>1 DEF ViewType
<1> HIDE DEF view
<1>3. View(new) = view
    BY <1>1, <1>2, ViewFields, SameView
<1> QED
    BY <1>3 DEF view

LEMMA AskedView ==
    ASSUME NEW old \in DeployerObject, NEW new \in DeployerObject,
           new.exists = old.exists, new.deleting = old.deleting, new.phase = old.phase,
           new.currentRound = old.currentRound, new.history = old.history
    PROVE  View(new) = [View(old) EXCEPT !.spec = new.spec]
<1> DEFINE view == [View(old) EXCEPT !.spec = new.spec]
<1>1. View(old) \in ViewType /\ View(new) \in ViewType /\ new.spec \in Specs \cup {None}
    BY ViewFields DEF DeployerObject
<1>2. /\ view \in ViewType /\ view.exists = View(old).exists
      /\ view.deleting = View(old).deleting /\ view.spec = new.spec
      /\ view.phase = View(old).phase /\ view.history = View(old).history
      /\ view.currentRound = View(old).currentRound
    BY <1>1 DEF ViewType
<1> HIDE DEF view
<1>3. View(new) = view
    BY <1>1, <1>2, ViewFields, SameView
<1> QED
    BY <1>3 DEF view

LEMMA MarkedView ==
    ASSUME NEW old \in DeployerObject, NEW new \in DeployerObject,
           new.exists = old.exists, new.phase = old.phase,
           new.currentRound = old.currentRound, new.history = old.history,
           new.spec = old.spec
    PROVE  View(new) = [View(old) EXCEPT !.deleting = new.deleting]
<1> DEFINE view == [View(old) EXCEPT !.deleting = new.deleting]
<1>1. View(old) \in ViewType /\ View(new) \in ViewType /\ new.deleting \in BOOLEAN
    BY ViewFields DEF DeployerObject
<1>2. /\ view \in ViewType /\ view.exists = View(old).exists
      /\ view.deleting = new.deleting /\ view.spec = View(old).spec
      /\ view.phase = View(old).phase /\ view.history = View(old).history
      /\ view.currentRound = View(old).currentRound
    BY <1>1 DEF ViewType
<1> HIDE DEF view
<1>3. View(new) = view
    BY <1>1, <1>2, ViewFields, SameView
<1> QED
    BY <1>3 DEF view

LEMMA AbsentView == View(AbsentDeployer) = Rounds!Absent
BY DEF View, AbsentDeployer, Rounds!Absent

\* A step on one deployer that leaves its fields alone is no step.
LEMMA UnmovedView ==
    ASSUME DepOK, NEW d \in Deployers, NEW new \in DeployerObject, StoreDeployer(d, new),
           new.exists = dep[d].exists, new.deleting = dep[d].deleting,
           new.spec = dep[d].spec, new.phase = dep[d].phase,
           new.currentRound = dep[d].currentRound, new.history = dep[d].history
    PROVE  UNCHANGED Viewed
<1>1. View(new) = View(dep[d])
    BY ViewFields, SameView DEF DepOK
<1>2. Viewed' = [Viewed EXCEPT ![d] = View(dep[d])]
    BY <1>1, StoreViews
<1> QED
    BY <1>2 DEF Viewed

\* What the ledger sees of one deployer.
LEMMA ViewedField ==
    ASSUME DepOK, NEW d \in Deployers
    PROVE  /\ Viewed[d] = View(dep[d])
           /\ dep[d] \in DeployerObject
           /\ Viewed[d].exists = dep[d].exists /\ Viewed[d].deleting = dep[d].deleting
           /\ Viewed[d].spec = dep[d].spec /\ Viewed[d].phase = dep[d].phase
           /\ Viewed[d].currentRound = dep[d].currentRound
           /\ Viewed[d].history = dep[d].history
BY ViewFields DEF DepOK, Viewed

LEMMA ArchivedView ==
    ASSUME NEW object PROVE Rounds!BackedUp(View(object)) = BackedUp(object)
BY DEF Rounds!BackedUp, BackedUp, View

LEMMA SamePhases == Rounds!Phases = Phases
BY DEF Rounds!Phases, Phases

\* The ledger's steps, for an object that is stored.
LEMMA StoreMovesOn ==
    ASSUME DepOK, NEW d \in Deployers, NEW new \in DeployerObject, StoreDeployer(d, new),
           dep[d].exists, ~dep[d].deleting, dep[d].spec.round > dep[d].currentRound,
           new.exists = dep[d].exists, new.deleting = dep[d].deleting,
           new.spec = dep[d].spec, new.phase \in {"Pending", "Failed"},
           new.history = BackedUp(dep[d]), new.currentRound = dep[d].spec.round
    PROVE  Rounds!Next
<1> DEFINE phase == new.phase
           history == new.history
           round == new.currentRound
           old == Viewed[d]
<1>0. dep[d] \in DeployerObject /\ old = View(dep[d])
    BY ViewedField
<1>a. View(new) = [View(dep[d]) EXCEPT !.phase = new.phase, !.history = new.history,
                                       !.currentRound = new.currentRound]
    BY <1>0, MovedView, Zenon
<1>1. View(new) = [old EXCEPT !.phase = phase, !.history = history, !.currentRound = round]
    BY <1>0, <1>a, Zenon
<1>2. Rounds!BackedUp(old) = history /\ old.spec.round = round
    BY ViewedField, ArchivedView
<1>3. Viewed' = [Viewed EXCEPT ![d] = View(new)]
    BY StoreViews
<1>4. /\ phase \in {"Pending", "Failed"}
      /\ old.exists /\ ~old.deleting /\ old.spec.round > old.currentRound
    BY ViewedField
<1> HIDE DEF phase, history, round, old
<1>5. View(new) = [old EXCEPT !.phase = phase, !.history = Rounds!BackedUp(old),
                              !.currentRound = old.spec.round]
    BY <1>1, <1>2, Zenon
<1>6. Rounds!MoveOn(d, phase)
    BY <1>3, <1>4, <1>5 DEF Rounds!MoveOn, Rounds!Set, Viewed, View, old
<1>7. phase \in Rounds!Phases
    BY <1>4, SamePhases DEF Phases
<1> QED
    BY <1>6, <1>7 DEF Rounds!Next

LEMMA StoreReports ==
    ASSUME DepOK, NEW d \in Deployers, NEW new \in DeployerObject, StoreDeployer(d, new),
           dep[d].exists, ~dep[d].deleting,
           \/ dep[d].spec.round < dep[d].currentRound /\ new.phase = "UNDO"
           \/ dep[d].spec.round = dep[d].currentRound /\ new.phase # "UNDO",
           new.exists = dep[d].exists, new.deleting = dep[d].deleting,
           new.spec = dep[d].spec, new.history = dep[d].history,
           new.currentRound = dep[d].currentRound
    PROVE  Rounds!Next
<1> DEFINE view == [View(dep[d]) EXCEPT !.phase = new.phase]
<1>1. view = View(new)
    BY ViewedField, ReportedView
<1> HIDE DEF view
<1>2. Viewed' = [Viewed EXCEPT ![d] = view]
    BY <1>1, StoreViews
<1>3. new.phase \in Rounds!Phases
    BY SamePhases DEF DeployerObject
<1>4. Rounds!Report(d, new.phase)
    BY <1>2, <1>3, ViewedField DEF Rounds!Report, Rounds!Set, Viewed, View, view
<1> QED
    BY <1>3, <1>4 DEF Rounds!Next

LEMMA StoreVanishes ==
    ASSUME DepOK, NEW d \in Deployers, StoreDeployer(d, AbsentDeployer), dep[d].exists
    PROVE  Rounds!Next
<1>1. Viewed' = [Viewed EXCEPT ![d] = Rounds!Absent]
    BY StoreViews, AbsentView
<1>2. Rounds!Vanish(d)
    BY <1>1 DEF Rounds!Vanish, Rounds!Set, Viewed, View
<1> QED
    BY <1>2 DEF Rounds!Next

LEMMA StoreAsks ==
    ASSUME DepOK, NEW d \in Deployers, NEW new \in DeployerObject, StoreDeployer(d, new),
           dep[d].exists, new.spec \in Specs,
           new.exists = dep[d].exists, new.deleting = dep[d].deleting,
           new.phase = dep[d].phase, new.history = dep[d].history,
           new.currentRound = dep[d].currentRound
    PROVE  Rounds!Next
<1> DEFINE view == [View(dep[d]) EXCEPT !.spec = new.spec]
<1>1. view = View(new)
    BY ViewedField, AskedView
<1> HIDE DEF view
<1>2. Viewed' = [Viewed EXCEPT ![d] = view]
    BY <1>1, StoreViews
<1>3. Rounds!Ask(d, new.spec)
    BY <1>2, ViewedField DEF Rounds!Ask, Rounds!Set, Viewed, View, view
<1> QED
    BY <1>3 DEF Rounds!Next

LEMMA OutsideMoves == ASSUME DepOK, DeployerUser PROVE Rounds!Next
<1>1. ASSUME NEW d \in Deployers, NEW spec \in Specs, CreateDeployer(d, spec)
      PROVE  Rounds!Next
    <2> DEFINE object == [AbsentDeployer EXCEPT !.exists = TRUE, !.spec = spec]
               view == Rounds!New(spec)
    <2>1. View(object) = view
        BY AbsentDeployerType DEF View, AbsentDeployer, Rounds!New
    <2> HIDE DEF view
    <2>2. Viewed' = [Viewed EXCEPT ![d] = view]
        BY <1>1, <2>1, StoreViews DEF CreateDeployer, WriteFromOutside
    <2>3. ~dep[d].exists
        BY <1>1 DEF CreateDeployer
    <2>4. Rounds!Appear(d, spec)
        BY <2>2, <2>3 DEF Rounds!Appear, Rounds!Set, Viewed, View, view
    <2> QED
        BY <2>4 DEF Rounds!Next
<1>2. ASSUME NEW d \in Deployers, NEW spec \in Specs, EditDeployer(d, spec)
      PROVE  Rounds!Next
    <2> DEFINE object == [dep[d] EXCEPT !.spec = spec]
    <2>0. dep[d] \in DeployerObject
        BY DEF DepOK
    <2>1. /\ object \in DeployerObject /\ object.spec \in Specs
          /\ object.exists = dep[d].exists /\ object.deleting = dep[d].deleting
          /\ object.phase = dep[d].phase /\ object.history = dep[d].history
          /\ object.currentRound = dep[d].currentRound
        BY ONLY <2>0, spec \in Specs, EditedType
    <2> HIDE DEF object
    <2>2. dep[d].exists /\ StoreDeployer(d, object)
        BY <1>2 DEF EditDeployer, WriteFromOutside, object
    <2> QED
        BY <2>1, <2>2, StoreAsks
<1>3. ASSUME NEW d \in Deployers, DeleteDeployer(d)
      PROVE  Rounds!Next
    <2>0. dep[d] \in DeployerObject
        BY DEF DepOK
    <2> DEFINE marked == [dep[d] EXCEPT !.deleting = TRUE]
               view == [View(dep[d]) EXCEPT !.deleting = marked.deleting]
    <2>1. /\ marked \in DeployerObject /\ marked.deleting = TRUE
          /\ marked.exists = dep[d].exists /\ marked.spec = dep[d].spec
          /\ marked.phase = dep[d].phase /\ marked.history = dep[d].history
          /\ marked.currentRound = dep[d].currentRound
        BY ONLY <2>0, MarkedType
    <2>2. dep[d].exists /\ (StoreDeployer(d, marked) \/ StoreDeployer(d, AbsentDeployer))
        BY <1>3 DEF DeleteDeployer, WriteFromOutside
    <2> HIDE DEF marked
    <2>3. view = View(marked)
        BY <2>1, ViewedField, MarkedView
    <2> HIDE DEF view
    <2>4. ASSUME StoreDeployer(d, marked) PROVE Rounds!AskToVanish(d)
        <3>1. Viewed' = [Viewed EXCEPT ![d] = view]
            BY <2>3, <2>4, StoreViews
        <3>2. Viewed' = [Viewed EXCEPT ![d] = [Viewed[d] EXCEPT !.deleting = TRUE]]
            BY <2>1, <3>1, ViewedField DEF view
        <3> QED
            BY <2>2, <3>2 DEF Rounds!AskToVanish, Rounds!Set, Viewed, View
    <2> QED
        BY <2>2, <2>4, StoreVanishes DEF Rounds!Next
<1>4. ASSUME NEW d \in Deployers, NEW spec \in Specs, ApplyDeployer(d, spec)
      PROVE  Rounds!Next
    <2> DEFINE object == [dep[d] EXCEPT !.spec = spec, !.finalizer = FALSE]
    <2>0. dep[d] \in DeployerObject
        BY DEF DepOK
    <2>1. /\ object \in DeployerObject /\ object.spec \in Specs
          /\ object.exists = dep[d].exists /\ object.deleting = dep[d].deleting
          /\ object.phase = dep[d].phase /\ object.history = dep[d].history
          /\ object.currentRound = dep[d].currentRound
        BY ONLY <2>0, spec \in Specs, AppliedType
    <2> HIDE DEF object
    <2>2. dep[d].exists /\ (StoreDeployer(d, object) \/ StoreDeployer(d, AbsentDeployer))
        BY <1>4 DEF ApplyDeployer, WriteFromOutside, object
    <2> QED
        BY <2>1, <2>2, StoreAsks, StoreVanishes
<1> QED
    BY <1>1, <1>2, <1>3, <1>4 DEF DeployerUser

\* What a reconciliation whose copy is current stores, field by field.
LEMMA ControllerStores ==
    ASSUME DeployerInv, Working
    PROVE  /\ run.d \in Deployers /\ run.copy \in DeployerObject
           /\ \A phase \in Phases :
                  LET object == [run.copy EXCEPT !.phase = phase] IN
                  /\ object \in DeployerObject
                  /\ object.exists = run.copy.exists /\ object.deleting = run.copy.deleting
                  /\ object.spec = run.copy.spec /\ object.phase = phase
                  /\ object.currentRound = run.copy.currentRound
                  /\ object.history = run.copy.history
           /\ run.fresh => Agrees(run.pc, run.copy, dep[run.d])
BY DEF DeployerInv, RunOK, RunType, DeployerObject

LEMMA PublishReports ==
    ASSUME DeployerInv, run.pc \in {"handle", "create", "publish"},
           NEW phase \in Phases \ {"UNDO"},
           PublishStatus([run.copy EXCEPT !.phase = phase])
    PROVE  Rounds!Next \/ UNCHANGED Viewed
<1> DEFINE object == [run.copy EXCEPT !.phase = phase]
<1>1. Working /\ DepOK
    BY DEF Working, DeployerInv
<1>2. CASE ~run.fresh
    BY <1>2 DEF PublishStatus, depVars, Viewed
<1>3. CASE run.fresh
    <2>1. Agrees(run.pc, run.copy, dep[run.d]) /\ StoreDeployer(run.d, object)
        BY <1>1, <1>3, ControllerStores DEF PublishStatus
    <2>2. /\ object \in DeployerObject /\ object.phase = phase /\ run.d \in Deployers
          /\ object.exists = run.copy.exists /\ object.deleting = run.copy.deleting
          /\ object.spec = run.copy.spec /\ object.currentRound = run.copy.currentRound
          /\ object.history = run.copy.history
        BY <1>1, ControllerStores
    <2> HIDE DEF object
    <2>3. /\ dep[run.d].exists /\ ~dep[run.d].deleting
          /\ dep[run.d].spec.round = dep[run.d].currentRound
          /\ run.copy.exists = dep[run.d].exists /\ run.copy.deleting = dep[run.d].deleting
          /\ run.copy.spec = dep[run.d].spec
          /\ run.copy.currentRound = dep[run.d].currentRound
          /\ run.copy.history = dep[run.d].history
        BY <2>1 DEF Agrees, Reading
    <2> QED
        BY <1>1, <2>1, <2>2, <2>3, StoreReports
<1> QED
    BY <1>2, <1>3

LEMMA ControllerMoves ==
    ASSUME DeployerInv, DeployerController PROVE Rounds!Next \/ UNCHANGED Viewed
<1>0. DepOK
    BY DEF DeployerInv
<1>1. ASSUME UNCHANGED depVars PROVE UNCHANGED Viewed
    BY <1>1 DEF depVars, Viewed
<1>2. CASE AddFinalizer
    <2> DEFINE object == [run.copy EXCEPT !.finalizer = TRUE]
    <2>1. Working /\ run.fresh /\ StoreDeployer(run.d, object) /\ run.pc = "addFinalizer"
        BY <1>2 DEF AddFinalizer, At, Working, Store
    <2>2. run.copy = dep[run.d] /\ run.d \in Deployers /\ run.copy \in DeployerObject
        BY <2>1, ControllerStores DEF Agrees, Reading
    <2>3. /\ object \in DeployerObject
          /\ object.exists = run.copy.exists /\ object.deleting = run.copy.deleting
          /\ object.spec = run.copy.spec /\ object.phase = run.copy.phase
          /\ object.currentRound = run.copy.currentRound /\ object.history = run.copy.history
        BY <2>2 DEF DeployerObject
    <2> HIDE DEF object
    <2> QED
        BY <1>0, <2>1, <2>2, <2>3, UnmovedView
<1>3. CASE DropFinalizer
    <2>1. Working /\ run.fresh /\ StoreDeployer(run.d, AbsentDeployer)
        BY <1>3 DEF DropFinalizer, At, Working, Store
    <2>2. run.d \in Deployers /\ dep[run.d].exists
        BY <2>1, ControllerStores DEF Agrees
    <2> QED
        BY <1>0, <2>1, <2>2, StoreVanishes
<1>4. CASE Undo
    <2> DEFINE object == [run.copy EXCEPT !.phase = "UNDO"]
    <2>1. Working /\ run.fresh /\ StoreDeployer(run.d, object) /\ run.pc = "undo"
        BY <1>4 DEF Undo, At, Working, Store
    <2>2. /\ run.copy = dep[run.d] /\ run.d \in Deployers
          /\ dep[run.d].exists /\ ~dep[run.d].deleting
          /\ dep[run.d].spec.round < dep[run.d].currentRound
        BY <2>1, ControllerStores DEF Agrees, Reading
    <2>3. /\ object \in DeployerObject /\ object.phase = "UNDO"
          /\ object.exists = run.copy.exists /\ object.deleting = run.copy.deleting
          /\ object.spec = run.copy.spec
          /\ object.currentRound = run.copy.currentRound /\ object.history = run.copy.history
        BY <2>1, ControllerStores DEF Phases
    <2> HIDE DEF object
    <2> QED
        BY <1>0, <2>1, <2>2, <2>3, StoreReports
<1>5. CASE Save
    <2>1. Working /\ run.fresh /\ StoreDeployer(run.d, run.copy) /\ run.pc = "save"
        BY <1>5 DEF Save, At, Working, Store
    <2>2. /\ run.copy \in DeployerObject /\ run.d \in Deployers
          /\ dep[run.d].exists /\ ~dep[run.d].deleting
          /\ dep[run.d].spec.round > dep[run.d].currentRound
          /\ run.copy.exists = dep[run.d].exists /\ run.copy.deleting = dep[run.d].deleting
          /\ run.copy.spec = dep[run.d].spec /\ run.copy.phase = "Pending"
          /\ run.copy.history = BackedUp(dep[run.d])
          /\ run.copy.currentRound = dep[run.d].spec.round
        BY <2>1, ControllerStores DEF Agrees
    <2> QED
        BY <1>0, <2>1, <2>2, StoreMovesOn
<1>6. CASE BegPanic
    <2> DEFINE object == [run.copy EXCEPT !.phase = "Failed"]
    <2>1. Working /\ run.pc = "beg" /\ PublishStatus(object)
        BY <1>6 DEF BegPanic, At, Working
    <2>2. CASE ~run.fresh
        BY <1>1, <2>1, <2>2 DEF PublishStatus
    <2>3. CASE run.fresh
        <3>1. /\ object \in DeployerObject /\ object.phase = "Failed"
              /\ object.exists = run.copy.exists /\ object.deleting = run.copy.deleting
              /\ object.spec = run.copy.spec
              /\ object.currentRound = run.copy.currentRound
              /\ object.history = run.copy.history
            BY <2>1, ControllerStores DEF Phases
        <3> HIDE DEF object
        <3>2. /\ run.d \in Deployers /\ StoreDeployer(run.d, object)
              /\ dep[run.d].exists /\ ~dep[run.d].deleting
              /\ dep[run.d].spec.round > dep[run.d].currentRound
              /\ run.copy.exists = dep[run.d].exists /\ run.copy.deleting = dep[run.d].deleting
              /\ run.copy.spec = dep[run.d].spec
              /\ run.copy.history = BackedUp(dep[run.d])
              /\ run.copy.currentRound = dep[run.d].spec.round
            BY <2>1, <2>3, ControllerStores DEF Agrees, PublishStatus
        <3> QED
            BY <1>0, <3>1, <3>2, StoreMovesOn
    <2> QED
        BY <2>2, <2>3
<1>7. CASE HandleMissing
    <2>1. run.pc = "handle" /\ PublishStatus([run.copy EXCEPT !.phase = "Pending"])
        BY <1>7 DEF HandleMissing, At
    <2> QED
        BY <2>1, PublishReports DEF Phases
<1>8. CASE HandleFails
    <2>1. /\ run.pc \in {"handle", "create"}
          /\ PublishStatus([run.copy EXCEPT !.phase = "Failed"])
        BY <1>8 DEF HandleFails
    <2> QED
        BY <2>1, PublishReports DEF Phases
<1>9. CASE Publish
    <2>1. run.pc = "publish" /\ PublishStatus(run.copy) /\ Working
        BY <1>9 DEF Publish, At, Working
    <2>2. CASE ~run.fresh
        BY <1>1, <2>1, <2>2 DEF PublishStatus
    <2>3. CASE run.fresh
        <3>1. /\ run.copy \in DeployerObject /\ run.d \in Deployers
              /\ StoreDeployer(run.d, run.copy)
              /\ dep[run.d].exists /\ ~dep[run.d].deleting
              /\ dep[run.d].spec.round = dep[run.d].currentRound /\ run.copy.phase # "UNDO"
              /\ run.copy.exists = dep[run.d].exists /\ run.copy.deleting = dep[run.d].deleting
              /\ run.copy.spec = dep[run.d].spec
              /\ run.copy.currentRound = dep[run.d].currentRound
              /\ run.copy.history = dep[run.d].history
            BY <2>1, <2>3, ControllerStores DEF Agrees, PublishStatus
        <3> QED
            BY <1>0, <3>1, StoreReports
    <2> QED
        BY <2>2, <2>3
<1>10. CASE Conflict \/ Finalize \/ Cleanup \/ ReleaseOld \/ Beg \/ BegFails \/ HandleWatch
            \/ KeepJob \/ ForceDelete \/ CreateWorkload
    BY <1>1, <1>10 DEF Conflict, Finalize, Cleanup, ReleaseOld, Beg, BegFails, HandleWatch,
                       KeepJob, ForceDelete, CreateWorkload
<1> QED
    BY <1>2, <1>3, <1>4, <1>5, <1>6, <1>7, <1>8, <1>9, <1>10 DEF DeployerController

LEMMA NextMoves == DeployerInv /\ [Next]_vars => [Rounds!Next]_Viewed
<1> SUFFICES ASSUME DeployerInv, [Next]_vars PROVE Rounds!Next \/ UNCHANGED Viewed
    OBVIOUS
<1>1. DepOK
    BY DEF DeployerInv
<1>2. ASSUME UNCHANGED dep PROVE UNCHANGED Viewed
    BY <1>2 DEF Viewed
<1>3. DeployerController \/ DeployerUser \/ UNCHANGED dep
    BY DEF Next, Get, PoolStep, SyncDeployer, SyncWork, Resync, CollectGarbage, MovePod,
           OrphanEnds, Crash, Start, vars, depVars
<1> QED
    BY <1>1, <1>2, <1>3, ControllerMoves, OutsideMoves

\* However stale the copies, whoever else writes and wherever the manager
\* stops: a deployer moves exactly to the round asked for at that moment, the
\* step archives the round recorded until then, and no status is another
\* round's.
THEOREM DeployersImplementRounds == Spec => ImplementsRounds
<1>1. Init => Rounds!Init
    BY AbsentView DEF Init, Rounds!Init, View
<1>2. Viewed = [d \in Deployers |->
                   [exists |-> dep[d].exists, deleting |-> dep[d].deleting,
                    spec |-> dep[d].spec, phase |-> dep[d].phase,
                    currentRound |-> dep[d].currentRound, history |-> dep[d].history]]
    BY DEF Viewed, View
<1> QED
    BY <1>1, <1>2, NextMoves, DeployerInvariant, PTL
    DEF Spec, ImplementsRounds, Rounds!Spec, Viewed, View

\* So what RoundLedgerProofs proves of every ledger of rounds holds here.
Ledgers == INSTANCE RoundLedgerProofs WITH
    Names <- Deployers,
    rounds <- [d \in Deployers |->
                   [exists |-> dep[d].exists, deleting |-> dep[d].deleting,
                    spec |-> dep[d].spec, phase |-> dep[d].phase,
                    currentRound |-> dep[d].currentRound, history |-> dep[d].history]]

\* The rounds in the history of a deployer increase, whatever happens.
THEOREM DeployerHistoriesAreOrdered == Spec => []HistoryIsOrdered
<1>1. Ledgers!HaveRounds
    BY SpecsAssumption DEF Ledgers!HaveRounds
<1>2. Rounds!Init => Ledgers!Init
    BY DEF Rounds!Init, Ledgers!Init, Rounds!Absent, Ledgers!Absent
<1>3. [Rounds!Next]_Viewed => [Ledgers!Next]_Viewed
    <2> SUFFICES ASSUME Rounds!Next PROVE Ledgers!Next
        OBVIOUS
    <2>1. PICK d \in Deployers :
              \/ \E spec \in Specs : Rounds!Appear(d, spec) \/ Rounds!Ask(d, spec)
              \/ Rounds!AskToVanish(d)
              \/ Rounds!Vanish(d)
              \/ \E phase \in Rounds!Phases :
                     Rounds!MoveOn(d, phase) \/ Rounds!Report(d, phase)
        BY DEF Rounds!Next
    <2>2. ASSUME NEW spec \in Specs, Rounds!Appear(d, spec) \/ Rounds!Ask(d, spec)
          PROVE  Ledgers!Appear(d, spec) \/ Ledgers!Ask(d, spec)
        BY <2>2 DEF Rounds!Appear, Ledgers!Appear, Rounds!Ask, Ledgers!Ask,
                    Rounds!Set, Ledgers!Set, Rounds!New, Ledgers!New
    <2>3. ASSUME Rounds!AskToVanish(d) \/ Rounds!Vanish(d)
          PROVE  Ledgers!AskToVanish(d) \/ Ledgers!Vanish(d)
        BY <2>3 DEF Rounds!AskToVanish, Ledgers!AskToVanish, Rounds!Vanish, Ledgers!Vanish,
                    Rounds!Set, Ledgers!Set, Rounds!Absent, Ledgers!Absent
    <2>4. Rounds!Phases = Ledgers!Phases
        BY DEF Rounds!Phases, Ledgers!Phases
    <2>5. ASSUME NEW phase \in Rounds!Phases,
                 Rounds!MoveOn(d, phase) \/ Rounds!Report(d, phase)
          PROVE  Ledgers!MoveOn(d, phase) \/ Ledgers!Report(d, phase)
        BY <2>5 DEF Rounds!MoveOn, Ledgers!MoveOn, Rounds!Report, Ledgers!Report,
                    Rounds!Set, Ledgers!Set, Rounds!BackedUp, Ledgers!BackedUp,
                    Rounds!Phases, Ledgers!Phases
    <2> QED
        BY <2>1, <2>2, <2>3, <2>4, <2>5 DEF Ledgers!Next
<1>4. HistoryIsOrdered <=> Ledgers!HistoryIsOrdered
    BY DEF HistoryIsOrdered, Rounds!HistoryIsOrdered, Ledgers!HistoryIsOrdered
<1>5. Ledgers!Spec => []Ledgers!HistoryIsOrdered
    BY <1>1, Ledgers!HistoriesAreOrdered
<1> QED
    BY <1>2, <1>3, <1>4, <1>5, DeployersImplementRounds, PTL
    DEF ImplementsRounds, Rounds!Spec, Ledgers!Spec, Viewed, View
=============================================================================
