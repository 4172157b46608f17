--------------------------- MODULE WorkflowProofs ---------------------------
(***************************************************************************)
(* Proofs about Workflow, for any specs, a cached copy as stale as it      *)
(* likes, restarts, conflicts and failed calls anywhere: its types, that   *)
(* no placeholder is ever run, that the deployer follows the builder, that *)
(* a round that is recorded has been generated, that no workflow is lost   *)
(* sight of, that its rounds are those of RoundLedger, and that these are  *)
(* exact and in order whether it builds or not.                            *)
(***************************************************************************)
EXTENDS Workflow, SequenceTheorems, TLAPS

-----------------------------------------------------------------------------
(* The inductive invariant. *)

\* What exists has a spec, and is not marked without having the finalizer.
Sound(object) ==
    object.exists => /\ object.spec \in WorkflowSpecs
                     /\ object.deleting => object.finalizer

WorkflowOK ==
    /\ workflow \in WorkflowObject /\ Sound(workflow)
    /\ workflowCache \in WorkflowObject /\ Sound(workflowCache)
    /\ workflowFresh \in BOOLEAN
    /\ workflowFresh => workflowCache = workflow
    /\ WorkflowsLag \/ workflowFresh
    /\ queued \in BOOLEAN

RunType == [pc : PCs, copy : WorkflowObject, fresh : BOOLEAN, seen : Phases \cup {None}]

\* The copy that a write will not refuse is the workflow but for the phase.
RunOK ==
    /\ run \in RunType
    /\ ~At("idle") => run.copy.exists /\ run.copy.spec \in WorkflowSpecs
    /\ At("addFinalizer") => ~run.copy.deleting
    /\ run.fresh => /\ ~At("idle")
                    /\ run.copy = [workflow EXCEPT !.phase = run.copy.phase]

\* The rounds that count: those reached only grow, so that -1 is never reached.
Reached == {r \in RoundNumbers : r >= 0}

BuilderOK ==
    /\ builder \in BuilderObject
    /\ builder.round \in RoundNumbers /\ builder.currentRound \in Reached
    /\ hook \in [pc : {"none", "trigger", "publish"}, round : RoundNumbers, fresh : BOOLEAN]

DeployerOK ==
    /\ deployer \in DeployerObject
    /\ deployer.round \in RoundNumbers \cup {-1} /\ deployer.currentRound \in Reached
    /\ deployer.image = "fake" => deployer.round = -1

\* Only a stateful set of a round that has ended is left behind.
WorkOK ==
    /\ work \in [Types \X RoundNumbers -> Workload]
    /\ \A t \in Types, r \in RoundNumbers :
           /\ work[<<t, r>>].pod = "none" => work[<<t, r>>] = NoWorkload
           /\ work[<<t, r>>].pod = "left" => t = "service" /\ r < deployer.currentRound
           /\ work[<<t, r>>].image # "fake"

WorkflowInv == WorkflowOK /\ RunOK /\ BuilderOK /\ DeployerOK /\ WorkOK

\* Where all workflows build, the deployer is asked for what the builder reached.
EverybodyBuilds == \A spec \in WorkflowSpecs : spec.build

Follows ==
    /\ hook.pc # "none" => hook.round <= builder.currentRound
    /\ deployer.round <= builder.currentRound
    /\ deployer.currentRound <= builder.currentRound

\* What GenerateWorkload has done for a spec.
BuilderGenerated(spec) == spec.build => builder.exists /\ builder.round = spec.round

DeployerGenerated(spec) ==
    deployer.exists /\ deployer.from = spec.round /\ deployer.type = spec.type

Recorded == workflow.exists /\ workflow.spec.round = workflow.currentRound

\* Behind the recorded round there is no older spec on its way, neither in the
\* cache nor in a reconciliation, and a current copy has one in the cache.
Generated ==
    /\ Recorded => /\ workflowCache.spec = workflow.spec
                   /\ ~At("idle") => run.copy.spec = workflow.spec
                   /\ DeployerGenerated(workflow.spec)
                   /\ BuilderGenerated(workflow.spec)
    /\ run.fresh => workflowCache.spec = workflow.spec
    /\ run.fresh /\ run.pc \in {"deployer", "save"} => BuilderGenerated(run.copy.spec)
    /\ run.fresh /\ At("save") => DeployerGenerated(run.copy.spec)
-----------------------------------------------------------------------------
(* Objects and rounds. *)

LEMMA RoundsAreInt == RoundNumbers \subseteq Int /\ 0 \in Reached /\ Reached \subseteq RoundNumbers
BY WorkflowAssumption DEF RoundNumbers, Reached

LEMMA SpecTypes ==
    ASSUME NEW spec \in WorkflowSpecs
    PROVE  /\ spec.round \in RoundNumbers /\ spec.round \in Int /\ spec.round # 0
           /\ spec.build \in BOOLEAN /\ spec.type \in Types
BY WorkflowAssumption DEF RoundNumbers

LEMMA AbsentWorkflowType ==
    AbsentWorkflow \in WorkflowObject /\ ~AbsentWorkflow.exists /\ Sound(AbsentWorkflow)
BY EmptySeq DEF AbsentWorkflow, WorkflowObject, Phases, Sound

LEMMA IdleType == Idle \in RunType /\ Idle.pc = "idle" /\ ~Idle.fresh
BY AbsentWorkflowType DEF Idle, RunType, PCs

\* The fields that the handlers, the users and the API server set, one at a time.
LEMMA SetField ==
    ASSUME NEW object \in WorkflowObject
    PROVE  /\ \A v \in Phases : [object EXCEPT !.phase = v] \in WorkflowObject
           /\ [object EXCEPT !.finalizer = TRUE] \in WorkflowObject
           /\ [object EXCEPT !.deleting = TRUE] \in WorkflowObject
           /\ [object EXCEPT !.based = TRUE] \in WorkflowObject
           /\ \A v \in WorkflowSpecs : [object EXCEPT !.spec = v] \in WorkflowObject
BY DEF WorkflowObject

LEMMA NextRoundType ==
    ASSUME NEW object \in WorkflowObject, object.spec \in WorkflowSpecs
    PROVE  /\ NextRound(object) \in WorkflowObject
           /\ NextRound(object).exists = object.exists
           /\ NextRound(object).deleting = object.deleting
           /\ NextRound(object).finalizer = object.finalizer
           /\ NextRound(object).spec = object.spec
           /\ NextRound(object).currentRound = object.spec.round
<1>1. /\ object.history \in Seq(HistoryEntry) /\ object.currentRound \in Int
      /\ object.spec.round \in Int /\ object.phase \in Phases
    BY SpecTypes DEF WorkflowObject
<1> DEFINE entry == [round |-> object.currentRound, phase |-> object.phase, spec |-> object.spec]
           history == BackedUp(object)
<1>2. entry \in HistoryEntry
    BY <1>1 DEF HistoryEntry
<1>3. history \in Seq(HistoryEntry)
    BY <1>1, <1>2, AppendProperties DEF BackedUp
<1>4. NextRound(object) = [object EXCEPT !.history = history, !.phase = "Pending",
                                         !.currentRound = object.spec.round]
    BY DEF NextRound
<1> HIDE DEF history
<1> QED
    BY <1>1, <1>3, <1>4 DEF WorkflowObject, Phases

\* A copy that differs by its phase only.
LEMMA SameButPhase ==
    ASSUME NEW object \in WorkflowObject, NEW copy \in WorkflowObject,
           copy = [object EXCEPT !.phase = copy.phase]
    PROVE  /\ copy.exists = object.exists /\ copy.deleting = object.deleting
           /\ copy.finalizer = object.finalizer /\ copy.based = object.based
           /\ copy.spec = object.spec /\ copy.currentRound = object.currentRound
           /\ copy.history = object.history
           /\ Sound(object) => Sound(copy)
BY DEF WorkflowObject, Sound

\* What a route leads to.
LEMMA RouteType ==
    ASSUME NEW object \in WorkflowObject
    PROVE  /\ Route(object) \in {"idle", "dropFinalizer", "addFinalizer", "base", "getBuilder",
                                 "builder", "deployer"}
           /\ Route(object) = "addFinalizer" => ~object.deleting /\ ~object.finalizer
           /\ Route(object) = "idle" => object.deleting /\ ~object.finalizer
           /\ Route(object) = "deployer" => ~object.spec.build
<1>1. object.deleting \in BOOLEAN /\ object.finalizer \in BOOLEAN /\ object.based \in BOOLEAN
    BY DEF WorkflowObject
<1> QED
    BY <1>1 DEF Route

-----------------------------------------------------------------------------
(* The workflow and its cache. *)

LEMMA StoreKeepsWorkflow ==
    ASSUME WorkflowOK, NEW object \in WorkflowObject, Sound(object), StoreWorkflow(object),
           queued' \in BOOLEAN
    PROVE  WorkflowOK'
BY DEF WorkflowOK, StoreWorkflow, Sound

LEMMA SameKeepsWorkflow ==
    ASSUME WorkflowOK, UNCHANGED workflowVars, queued' \in BOOLEAN
    PROVE  WorkflowOK'
BY DEF WorkflowOK, workflowVars, Sound

\* What a writer from outside does to a reconciliation.
LEMMA OutsideKeepsRun ==
    ASSUME RunOK, NEW object, WriteFromOutside(object)
    PROVE  RunOK'
BY DEF RunOK, WriteFromOutside, At, RunType, StoreWorkflow

\* The reconciliation that ends.
LEMMA IdleKeepsRun ==
    ASSUME run' = Idle
    PROVE  RunOK'
BY IdleType DEF RunOK, At
-----------------------------------------------------------------------------
(* Steps of the reconciliation: the workflow and the copy. *)

LEMMA GetKeepsRun ==
    ASSUME WorkflowOK, RunOK, Get
    PROVE  WorkflowOK' /\ RunOK'
<1> DEFINE seen == workflowCache
           next == [Idle EXCEPT !.pc = Route(seen), !.copy = seen, !.fresh = workflowFresh]
<1>1. seen \in WorkflowObject /\ Sound(seen) /\ workflowFresh \in BOOLEAN
    BY DEF WorkflowOK
<1>2. WorkflowOK'
    BY SameKeepsWorkflow DEF Get
<1>3. CASE run' = Idle
    BY <1>2, <1>3, IdleKeepsRun
<1>4. CASE seen.exists /\ Route(seen) # "idle" /\ run' = next
    <2>1. Route(seen) \in PCs /\ (Route(seen) = "addFinalizer" => ~seen.deleting)
        BY <1>1, RouteType DEF PCs
    <2>2. /\ next \in RunType /\ next.pc = Route(seen) /\ next.copy = seen
          /\ next.fresh = workflowFresh
        BY <1>1, <2>1, IdleType DEF RunType
    <2>3. workflowFresh => seen = [workflow' EXCEPT !.phase = seen.phase]
        BY <1>1 DEF WorkflowOK, WorkflowObject, Get, workflowVars
    <2> HIDE DEF next, seen
    <2>4. RunOK'
        BY <1>1, <1>4, <2>1, <2>2, <2>3 DEF RunOK, At, Sound
    <2> QED
        BY <1>2, <2>4
<1> QED
    BY <1>3, <1>4 DEF Get

\* What a handler in which the copy is current stores.
LEMMA CopyIsTheWorkflow ==
    ASSUME WorkflowOK, RunOK, run.fresh
    PROVE  /\ run.copy \in WorkflowObject /\ workflow \in WorkflowObject
           /\ workflow.exists /\ run.copy.exists
           /\ run.copy = [workflow EXCEPT !.phase = run.copy.phase]
           /\ run.copy.deleting = workflow.deleting /\ run.copy.finalizer = workflow.finalizer
           /\ run.copy.spec = workflow.spec /\ run.copy.currentRound = workflow.currentRound
           /\ run.copy.history = workflow.history
           /\ run.copy.spec \in WorkflowSpecs /\ Sound(run.copy)
<1>1. /\ run.copy \in WorkflowObject /\ workflow \in WorkflowObject /\ Sound(workflow)
      /\ run.copy = [workflow EXCEPT !.phase = run.copy.phase]
      /\ run.copy.exists /\ run.copy.spec \in WorkflowSpecs
    BY DEF RunOK, RunType, WorkflowOK
<1> QED
    BY <1>1, SameButPhase

LEMMA AddFinalizerKeepsRun ==
    ASSUME WorkflowOK, RunOK, AddFinalizer
    PROVE  WorkflowOK' /\ RunOK'
<1> DEFINE object == [run.copy EXCEPT !.finalizer = TRUE]
<1>1. run.copy \in WorkflowObject /\ run.copy.exists /\ run.copy.spec \in WorkflowSpecs
      /\ ~run.copy.deleting /\ run.fresh /\ StoreWorkflow(object) /\ workflow' = object
      /\ run' = [run EXCEPT !.pc = Route(object), !.copy = object]
    BY DEF AddFinalizer, Store, StoreWorkflow, At, RunOK, RunType
<1>2. /\ object \in WorkflowObject /\ object.exists /\ object.spec \in WorkflowSpecs
      /\ ~object.deleting /\ object.finalizer
    BY <1>1 DEF WorkflowObject
<1>3. object = [object EXCEPT !.phase = object.phase]
    BY <1>2 DEF WorkflowObject
<1> HIDE DEF object
<1>4. Sound(object)
    BY <1>2 DEF Sound
<1>5. Route(object) \in PCs \ {"idle", "addFinalizer"}
    BY <1>2, RouteType DEF PCs
<1>6. queued' \in BOOLEAN
    BY DEF AddFinalizer, WorkflowOK, Woken, object
<1>7. WorkflowOK'
    BY <1>1, <1>2, <1>4, <1>6, StoreKeepsWorkflow
<1>8. run' \in RunType /\ run'.pc = Route(object) /\ run'.copy = object /\ run'.fresh = run.fresh
    BY <1>1, <1>2, <1>5 DEF RunOK, RunType
<1>9. RunOK'
    BY <1>1, <1>2, <1>3, <1>5, <1>8 DEF RunOK, At
<1> QED
    BY <1>7, <1>9

\* A write that ends the reconciliation.
LEMMA FinalWrite ==
    ASSUME WorkflowOK, RunOK, NEW object \in WorkflowObject, Sound(object),
           Store(object), run' = Idle, queued' \in BOOLEAN
    PROVE  WorkflowOK' /\ RunOK'
BY StoreKeepsWorkflow, IdleKeepsRun DEF Store

LEMMA QueuedType ==
    ASSUME WorkflowOK, NEW requeue \in BOOLEAN, Return(requeue)
    PROVE  queued' \in BOOLEAN /\ run' = Idle
BY DEF WorkflowOK, Return

LEMMA WokenType == ASSUME NEW object PROVE Woken(object) \in BOOLEAN
BY DEF Woken

LEMMA FinalWrites ==
    ASSUME WorkflowOK, RunOK, DropFinalizer \/ Base \/ Undo \/ Save
    PROVE  WorkflowOK' /\ RunOK'
<1>1. ASSUME run.fresh
      PROVE  /\ [run.copy EXCEPT !.based = TRUE] \in WorkflowObject
             /\ Sound([run.copy EXCEPT !.based = TRUE])
             /\ Undone(run.copy) \in WorkflowObject /\ Sound(Undone(run.copy))
             /\ NextRound(run.copy) \in WorkflowObject /\ Sound(NextRound(run.copy))
    <2>1. run.copy \in WorkflowObject /\ run.copy.spec \in WorkflowSpecs /\ Sound(run.copy)
        BY <1>1, CopyIsTheWorkflow
    <2>2. /\ [run.copy EXCEPT !.based = TRUE] \in WorkflowObject
          /\ Sound([run.copy EXCEPT !.based = TRUE])
        BY <2>1 DEF WorkflowObject, Sound
    <2>3. Undone(run.copy) \in WorkflowObject /\ Sound(Undone(run.copy))
        BY <2>1 DEF WorkflowObject, Undone, Phases, Sound
    <2>4. NextRound(run.copy) \in WorkflowObject /\ Sound(NextRound(run.copy))
        BY <2>1, NextRoundType DEF Sound
    <2> QED
        BY <2>2, <2>3, <2>4
<1>2. CASE DropFinalizer
    <2>1. Store(AbsentWorkflow) /\ Return(Woken(AbsentWorkflow))
        BY <1>2 DEF DropFinalizer
    <2>2. queued' \in BOOLEAN /\ run' = Idle
        BY <2>1, QueuedType, WokenType
    <2> QED
        BY <2>1, <2>2, AbsentWorkflowType, FinalWrite
<1>3. CASE Base
    <2> DEFINE object == [run.copy EXCEPT !.based = TRUE]
    <2>1. Store(object) /\ Return(TRUE) /\ run.fresh
        BY <1>3 DEF Base, Store
    <2>2. object \in WorkflowObject /\ Sound(object)
        BY <1>1, <2>1
    <2> HIDE DEF object
    <2>3. queued' \in BOOLEAN /\ run' = Idle
        BY <2>1, QueuedType
    <2> QED
        BY <2>1, <2>2, <2>3, FinalWrite
<1>4. CASE Undo
    <2>1. Store(Undone(run.copy)) /\ Return(Woken(Undone(run.copy))) /\ run.fresh
        BY <1>4 DEF Undo, Store
    <2>2. queued' \in BOOLEAN /\ run' = Idle
        BY <2>1, QueuedType, WokenType
    <2> QED
        BY <1>1, <2>1, <2>2, FinalWrite
<1>5. CASE Save
    <2>1. Store(NextRound(run.copy)) /\ Return(TRUE) /\ run.fresh
        BY <1>5 DEF Save, Store
    <2>2. queued' \in BOOLEAN /\ run' = Idle
        BY <2>1, QueuedType
    <2> QED
        BY <1>1, <2>1, <2>2, FinalWrite
<1> QED
    BY <1>2, <1>3, <1>4, <1>5

LEMMA ComposedType ==
    ASSUME NEW phase \in Phases, NEW built \in Phases \cup {None}, NEW deployed \in Phases
    PROVE  Composed(phase, built, deployed) \in Phases
BY DEF Composed, Phases

\* The reconciliation that gets on, in steps that leave the workflow alone.
LEMMA OwnSteps ==
    ASSUME WorkflowOK, RunOK, BuilderOK, DeployerOK,
           ApplyBuilder \/ ApplyDeployer \/ GetBuilder \/ GetDeployer
    PROVE  WorkflowOK' /\ RunOK'
<1>1. run \in RunType /\ run.copy \in WorkflowObject /\ run.seen \in Phases \cup {None}
    BY DEF RunOK, RunType
<1>2. UNCHANGED workflowVars /\ run.pc \in {"builder", "deployer", "getBuilder", "getDeployer"}
    BY DEF ApplyBuilder, ApplyDeployer, GetBuilder, GetDeployer, At
<1>3. queued' \in BOOLEAN
    BY DEF ApplyBuilder, ApplyDeployer, GetBuilder, GetDeployer, WorkflowOK, Return
<1>4. WorkflowOK'
    BY <1>2, <1>3, SameKeepsWorkflow
<1>5. workflow' = workflow /\ workflow \in WorkflowObject
    BY <1>2 DEF workflowVars, WorkflowOK
<1>6. CASE ApplyBuilder \/ ApplyDeployer
    <2>1. \E pc \in {"deployer", "save"} : run' = [run EXCEPT !.pc = pc]
        BY <1>6 DEF ApplyBuilder, ApplyDeployer
    <2> QED
        BY <1>2, <1>4, <1>5, <2>1 DEF RunOK, RunType, PCs, At
<1>7. CASE GetBuilder
    <2> DEFINE seen == IF builder.exists THEN builder.phase ELSE None
    <2>1. seen \in Phases \cup {None}
        BY DEF BuilderOK, BuilderObject
    <2>2. run' = [run EXCEPT !.pc = "getDeployer", !.seen = seen]
        BY <1>7 DEF GetBuilder
    <2> HIDE DEF seen
    <2> QED
        BY <1>2, <1>4, <1>5, <2>1, <2>2 DEF RunOK, RunType, PCs, At
<1>8. CASE GetDeployer
    <2> DEFINE phase == Composed(run.copy.phase, run.seen, deployer.phase)
               copy == [run.copy EXCEPT !.phase = phase]
    <2>1. phase \in Phases
        BY <1>1, ComposedType DEF DeployerOK, DeployerObject, WorkflowObject
    <2> HIDE DEF phase
    <2>2. /\ copy \in WorkflowObject /\ copy.exists = run.copy.exists
          /\ copy.spec = run.copy.spec /\ copy.deleting = run.copy.deleting
          /\ copy.phase = phase
        BY <1>1, <2>1 DEF WorkflowObject
    <2>3. run.fresh => copy = [workflow EXCEPT !.phase = phase]
        BY <1>1, <1>5, <2>1 DEF RunOK, WorkflowObject
    <2> HIDE DEF copy
    <2>4. CASE run' = Idle
        BY <1>4, <2>4, IdleKeepsRun
    <2>5. CASE run' = [run EXCEPT !.pc = "publish", !.copy = copy]
        <3>1. run' \in RunType /\ run'.pc = "publish" /\ run'.copy = copy /\ run'.fresh = run.fresh
            BY <1>1, <2>2, <2>5 DEF RunType, PCs
        <3> QED
            BY <1>2, <1>4, <1>5, <2>2, <2>3, <3>1 DEF RunOK, At
    <2> QED
        BY <1>8, <2>4, <2>5 DEF GetDeployer, Return, phase, copy
<1> QED
    BY <1>6, <1>7, <1>8

LEMMA PublishKeepsRun ==
    ASSUME WorkflowOK, RunOK, Publish
    PROVE  WorkflowOK' /\ RunOK'
<1>1. queued' \in BOOLEAN /\ run' = Idle
    BY QueuedType DEF Publish
<1>2. CASE run.fresh
    BY <1>1, <1>2, CopyIsTheWorkflow, FinalWrite DEF Publish, Store
<1>3. CASE ~run.fresh
    BY <1>1, <1>3, SameKeepsWorkflow, IdleKeepsRun DEF Publish
<1> QED
    BY <1>2, <1>3
\* The users.
LEMMA UserKeepsRun ==
    ASSUME WorkflowOK, RunOK, WorkflowUser
    PROVE  WorkflowOK' /\ RunOK'
<1>1. ASSUME NEW object \in WorkflowObject, Sound(object), WriteFromOutside(object)
      PROVE  WorkflowOK' /\ RunOK'
    <2>1. queued' \in BOOLEAN /\ StoreWorkflow(object)
        BY <1>1 DEF WriteFromOutside, WorkflowOK, Woken
    <2> QED
        BY <1>1, <2>1, StoreKeepsWorkflow, OutsideKeepsRun
<1>2. ASSUME NEW spec \in WorkflowSpecs, CreateWorkflow(spec)
      PROVE  WorkflowOK' /\ RunOK'
    <2> DEFINE object == [AbsentWorkflow EXCEPT !.exists = TRUE, !.spec = spec]
    <2>1. object \in WorkflowObject /\ Sound(object)
        BY AbsentWorkflowType DEF AbsentWorkflow, WorkflowObject, Sound
    <2>2. WriteFromOutside(object)
        BY <1>2 DEF CreateWorkflow
    <2> HIDE DEF object
    <2> QED
        BY <1>1, <2>1, <2>2
<1>3. ASSUME NEW spec \in WorkflowSpecs, EditWorkflow(spec)
      PROVE  WorkflowOK' /\ RunOK'
    <2> DEFINE object == [workflow EXCEPT !.spec = spec]
    <2>1. object \in WorkflowObject /\ Sound(object)
        BY DEF WorkflowOK, WorkflowObject, Sound
    <2>2. WriteFromOutside(object)
        BY <1>3 DEF EditWorkflow
    <2> HIDE DEF object
    <2> QED
        BY <1>1, <2>1, <2>2
<1>4. CASE DeleteWorkflow
    <2> DEFINE object == [workflow EXCEPT !.deleting = TRUE]
    <2>1. object \in WorkflowObject /\ (workflow.finalizer => Sound(object))
        BY DEF WorkflowOK, WorkflowObject, Sound
    <2>2. WriteFromOutside(IF workflow.finalizer THEN object ELSE AbsentWorkflow)
        BY <1>4 DEF DeleteWorkflow
    <2> HIDE DEF object
    <2> QED
        BY <1>1, <2>1, <2>2, AbsentWorkflowType
<1> QED
    BY <1>2, <1>3, <1>4 DEF WorkflowUser

LEMMA WorkflowAndRunKept ==
    ASSUME WorkflowOK, RunOK, BuilderOK, DeployerOK, [Next]_vars
    PROVE  WorkflowOK' /\ RunOK'
<1>1. CASE WorkflowController
    <2>1. CASE Conflict \/ GenerateFails
        <3>1. UNCHANGED workflowVars /\ Return(TRUE)
            BY <2>1 DEF Conflict, GenerateFails
        <3> QED
            BY <3>1, QueuedType, SameKeepsWorkflow, IdleKeepsRun
    <2> QED
        BY <1>1, <2>1, GetKeepsRun, AddFinalizerKeepsRun, FinalWrites, OwnSteps, PublishKeepsRun
           DEF WorkflowController
<1>2. CASE WorkflowUser
    BY <1>2, UserKeepsRun
<1>3. CASE SyncWorkflow \/ Restart
    <2>1. /\ workflow' = workflow /\ workflowCache' = workflow /\ workflowFresh' = TRUE
          /\ queued' = TRUE /\ (run' = run \/ run' = Idle)
        BY <1>3 DEF SyncWorkflow, Restart
    <2>2. WorkflowOK'
        BY <2>1 DEF WorkflowOK, Sound
    <2> QED
        BY <2>1, <2>2, IdleKeepsRun DEF RunOK, At
<1>4. ASSUME UNCHANGED <<workflowVars, run>>, queued' \in {queued, TRUE}
      PROVE  WorkflowOK' /\ RunOK'
    <2>1. queued' \in BOOLEAN
        BY <1>4 DEF WorkflowOK
    <2>2. WorkflowOK'
        BY <1>4, <2>1, SameKeepsWorkflow
    <2> QED
        BY <1>4, <2>2 DEF RunOK, At, workflowVars
<1>5. CASE BuilderController
    BY <1>4, <1>5 DEF BuilderController, BuilderMovesOn, BuilderUndone, StartsBuild,
                      BuilderReports, HookRuns, BuildIsDone, WriteBuilder, workflowVars
<1>6. CASE DeployerController
    BY <1>4, <1>6 DEF DeployerController, DeployerMovesOn, DeployerUndone, Deploys,
                      DeployerReports, WriteDeployer, workflowVars
<1>7. CASE CollectGarbage \/ Resync \/ (\E w \in DOMAIN work : MovePod(w)) \/ UNCHANGED vars
    BY <1>4, <1>7 DEF CollectGarbage, Resync, MovePod, vars
<1> QED
    BY <1>1, <1>2, <1>3, <1>5, <1>6, <1>7 DEF Next

-----------------------------------------------------------------------------
(* What is generated, and its workloads. *)

\* Steps in which the workflow's reconciler writes neither builder nor deployer.
LEMMA ElsewhereUntouched ==
    ASSUME [Next]_vars
    PROVE  \/ UNCHANGED <<builder, deployer, hook, work>>
           \/ ApplyBuilder \/ ApplyDeployer \/ BuilderController \/ DeployerController
           \/ CollectGarbage
           \/ \E w \in DOMAIN work : MovePod(w)
           \/ Restart
<1>1. CASE WorkflowController
    BY <1>1 DEF WorkflowController, Get, Conflict, DropFinalizer, AddFinalizer, Base,
                GenerateFails, Undo, Save, GetBuilder, GetDeployer, Publish
<1>2. CASE WorkflowUser
    BY <1>2 DEF WorkflowUser, CreateWorkflow, EditWorkflow, DeleteWorkflow, WriteFromOutside
<1>3. CASE SyncWorkflow \/ Resync \/ UNCHANGED vars
    BY <1>3 DEF SyncWorkflow, Resync, vars
<1> QED
    BY <1>1, <1>2, <1>3 DEF Next

LEMMA AbsentTypes ==
    /\ AbsentBuilder \in BuilderObject /\ AbsentDeployer \in DeployerObject
    /\ ~AbsentBuilder.exists /\ ~AbsentDeployer.exists
    /\ AbsentBuilder.round = 0 /\ AbsentBuilder.currentRound = 0
    /\ AbsentDeployer.round = 0 /\ AbsentDeployer.currentRound = 0
    /\ AbsentDeployer.image # "fake"
    /\ NoHook \in [pc : {"none", "trigger", "publish"}, round : RoundNumbers, fresh : BOOLEAN]
    /\ NoHook.pc = "none"
BY RoundsAreInt DEF AbsentBuilder, AbsentDeployer, BuilderObject, DeployerObject, Types, Images,
                    Phases, NoHook

LEMMA NoWorkType ==
    /\ NoWorkload \in Workload /\ NoWorkload.pod = "none" /\ NoWorkload.image # "fake"
    /\ NoWork \in [Types \X RoundNumbers -> Workload]
    /\ \A t \in Types, r \in RoundNumbers : NoWork[<<t, r>>] = NoWorkload
BY DEF NoWorkload, Workload, Images, NoWork

\* What a workload may become when the deployer has reached a round.
Fine(w, load, reached) ==
    /\ load \in Workload
    /\ load.pod = "none" => load = NoWorkload
    /\ load.pod = "left" => w[1] = "service" /\ w[2] < reached
    /\ load.image # "fake"

LEMMA PutKeepsWork ==
    ASSUME WorkOK, NEW w, NEW load, Fine(w, load, deployer'.currentRound),
           work' = [work EXCEPT ![w] = load],
           deployer.currentRound \in Int, deployer'.currentRound \in Int,
           deployer'.currentRound >= deployer.currentRound
    PROVE  WorkOK'
<1>1. ASSUME NEW t \in Types, NEW r \in RoundNumbers
      PROVE  /\ work'[<<t, r>>].pod = "none" => work'[<<t, r>>] = NoWorkload
             /\ work'[<<t, r>>].pod = "left" => t = "service" /\ r < deployer'.currentRound
             /\ work'[<<t, r>>].image # "fake"
    <2>1. CASE w = <<t, r>>
        BY <2>1 DEF WorkOK, Fine
    <2>2. CASE w # <<t, r>>
        BY <2>2, RoundsAreInt DEF WorkOK
    <2> QED
        BY <2>1, <2>2
<1>2. work' \in [Types \X RoundNumbers -> Workload]
    BY DEF WorkOK, Fine
<1> QED
    BY <1>1, <1>2 DEF WorkOK

LEMMA SameKeepsWork ==
    ASSUME WorkOK, UNCHANGED work, deployer.currentRound \in Int,
           deployer'.currentRound \in Int, deployer'.currentRound >= deployer.currentRound
    PROVE  WorkOK'
BY RoundsAreInt DEF WorkOK
\* What the reconciler of the workflow generates.
LEMMA GenerationKept ==
    ASSUME RunOK, BuilderOK, DeployerOK, WorkOK, ApplyBuilder \/ ApplyDeployer
    PROVE  BuilderOK' /\ DeployerOK' /\ WorkOK'
<1> DEFINE spec == run.copy.spec
<1>1. /\ spec \in WorkflowSpecs /\ spec.round \in RoundNumbers /\ spec.round \in Int
      /\ spec.type \in Types /\ spec.build \in BOOLEAN
    BY SpecTypes DEF RunOK, ApplyBuilder, ApplyDeployer, At
<1> HIDE DEF spec
<1>2. CASE ApplyBuilder
    <2>1. /\ NewBuilder(spec) \in BuilderObject
          /\ NewBuilder(spec).round = spec.round
          /\ NewBuilder(spec).currentRound = builder.currentRound
        BY <1>1 DEF BuilderOK, BuilderObject, NewBuilder
    <2>2. /\ builder' = NewBuilder(spec) /\ hook' = [hook EXCEPT !.fresh = FALSE]
          /\ UNCHANGED <<deployer, work>>
        BY <1>2 DEF ApplyBuilder, spec
    <2>3. BuilderOK'
        BY <1>1, <2>1, <2>2 DEF BuilderOK
    <2>4. DeployerOK' /\ WorkOK'
        BY <2>2 DEF DeployerOK, WorkOK
    <2> QED
        BY <2>3, <2>4
<1>3. CASE ApplyDeployer
    <2>1. /\ NewDeployer(spec) \in DeployerObject
          /\ NewDeployer(spec).round \in RoundNumbers \cup {-1}
          /\ NewDeployer(spec).currentRound = deployer.currentRound
          /\ NewDeployer(spec).image = "fake" => NewDeployer(spec).round = -1
        <3> DEFINE round == IF spec.build THEN -1 ELSE spec.round
                   image == IF spec.build THEN "fake" ELSE "base"
        <3>1. /\ round \in RoundNumbers \cup {-1} /\ round \in Int /\ image \in Images
              /\ image = "fake" => round = -1
            BY <1>1 DEF Images
        <3>2. NewDeployer(spec) = [deployer EXCEPT !.exists = TRUE, !.type = spec.type,
                                                   !.from = spec.round, !.round = round,
                                                   !.image = image]
            BY DEF NewDeployer
        <3> HIDE DEF round, image
        <3> QED
            BY <1>1, <3>1, <3>2 DEF DeployerOK, DeployerObject
    <2>2. deployer' = NewDeployer(spec) /\ UNCHANGED <<builder, hook, work>>
        BY <1>3 DEF ApplyDeployer, spec
    <2>3. BuilderOK' /\ DeployerOK' /\ WorkOK'
        BY <2>1, <2>2 DEF BuilderOK, DeployerOK, WorkOK
    <2> QED
        BY <2>3
<1> QED
    BY <1>2, <1>3

\* What the builder writes of itself.
LEMMA BuilderWrites ==
    ASSUME BuilderOK, NEW phase \in Phases,
           \/ WriteBuilder([builder EXCEPT !.phase = phase])
           \/ /\ WriteBuilder([builder EXCEPT !.currentRound = builder.round, !.phase = phase])
              /\ builder.round > builder.currentRound
    PROVE  BuilderOK' /\ UNCHANGED deployer /\ builder'.currentRound >= builder.currentRound
           /\ builder'.round = builder.round
<1>1. /\ builder \in BuilderObject /\ builder.round \in RoundNumbers
      /\ builder.currentRound \in Reached /\ builder.round \in Int /\ builder.currentRound \in Int
      /\ builder.round > builder.currentRound => builder.round \in Reached
    BY RoundsAreInt DEF BuilderOK, Reached
<1>2. ASSUME NEW round \in Reached, round >= builder.currentRound,
             WriteBuilder([builder EXCEPT !.currentRound = round, !.phase = phase])
      PROVE  BuilderOK' /\ UNCHANGED deployer /\ builder'.currentRound >= builder.currentRound
             /\ builder'.round = builder.round
    <2> DEFINE object == [builder EXCEPT !.currentRound = round, !.phase = phase]
    <2>1. /\ object \in BuilderObject /\ object.round = builder.round
          /\ object.currentRound = round
        BY <1>1, RoundsAreInt DEF BuilderObject
    <2>2. /\ builder' = object /\ UNCHANGED deployer
          /\ hook' = [hook EXCEPT !.fresh = (@ /\ object = builder)]
        BY <1>2 DEF WriteBuilder
    <2> HIDE DEF object
    <2>3. hook' \in [pc : {"none", "trigger", "publish"}, round : RoundNumbers, fresh : BOOLEAN]
        BY <2>2 DEF BuilderOK
    <2> QED
        BY <1>1, <1>2, <2>1, <2>2, <2>3 DEF BuilderOK
<1>3. [builder EXCEPT !.phase = phase]
          = [builder EXCEPT !.currentRound = builder.currentRound, !.phase = phase]
    BY <1>1 DEF BuilderObject
<1>4. CASE WriteBuilder([builder EXCEPT !.phase = phase])
    <2>1. WriteBuilder([builder EXCEPT !.currentRound = builder.currentRound, !.phase = phase])
        BY <1>3, <1>4
    <2>2. /\ builder.currentRound \in Reached /\ builder.currentRound >= builder.currentRound
        BY <1>1
    <2> QED
        BY <1>2, <2>1, <2>2, Zenon
<1>5. CASE /\ WriteBuilder([builder EXCEPT !.currentRound = builder.round, !.phase = phase])
           /\ builder.round > builder.currentRound
    <2>1. builder.round >= builder.currentRound
        BY <1>1, <1>5
    <2> QED
        BY <1>1, <1>2, <1>5, <2>1
<1> QED
    BY <1>4, <1>5

LEMMA BuilderKept ==
    ASSUME BuilderOK, DeployerOK, WorkOK, BuilderController
    PROVE  BuilderOK' /\ DeployerOK' /\ WorkOK' /\ builder'.currentRound >= builder.currentRound
           /\ builder'.round = builder.round
<1>1. /\ builder \in BuilderObject /\ builder.round \in RoundNumbers /\ builder.round \in Int
      /\ builder.currentRound \in RoundNumbers /\ builder.currentRound \in Int
      /\ deployer.currentRound \in Int
    BY RoundsAreInt DEF BuilderOK, DeployerOK
<1>2. ASSUME NEW phase \in Phases, NEW load \in {NoWorkload, [pod |-> "Pending", image |-> "none"]},
             \/ WriteBuilder([builder EXCEPT !.phase = phase])
             \/ /\ WriteBuilder([builder EXCEPT !.currentRound = builder.round, !.phase = phase])
                /\ builder.round > builder.currentRound,
             UNCHANGED work \/ work' = [work EXCEPT ![BuildJob] = load]
      PROVE  BuilderOK' /\ DeployerOK' /\ WorkOK' /\ builder'.currentRound >= builder.currentRound
             /\ builder'.round = builder.round
    <2>1. BuilderOK' /\ UNCHANGED deployer /\ builder'.currentRound >= builder.currentRound
          /\ builder'.round = builder.round
        BY <1>2, BuilderWrites
    <2>2. DeployerOK'
        BY <2>1 DEF DeployerOK
    <2>3. Fine(BuildJob, load, deployer'.currentRound)
        BY <1>2 DEF Fine, Workload, NoWorkload, Images
    <2>4. WorkOK'
        BY <1>1, <1>2, <2>1, <2>3, PutKeepsWork, SameKeepsWork
    <2> QED
        BY <2>1, <2>2, <2>4
<1>3. CASE BuilderMovesOn \/ BuilderUndone \/ StartsBuild
    BY <1>2, <1>3 DEF BuilderMovesOn, BuilderUndone, StartsBuild, Phases
<1>4. CASE BuilderReports
    <2> DEFINE seen == work[BuildJob].pod
    <2>1. seen \in {"Pending", "Doing", "Done", "Failed"}
        <3>1. /\ work[BuildJob] \in Workload /\ work[BuildJob] # NoWorkload
              /\ seen = "none" => work[BuildJob] = NoWorkload
              /\ seen # "left"
            BY <1>1, <1>4 DEF BuilderReports, BuildJob, WorkOK, Types
        <3> QED
            BY <3>1 DEF Workload
    <2>2. CASE seen = "Done"
        <3>1. /\ hook' = [pc |-> "trigger", round |-> builder.round, fresh |-> TRUE]
              /\ UNCHANGED <<builder, deployer, work>>
            BY <1>4, <2>2 DEF BuilderReports
        <3>2. BuilderOK'
            BY <1>1, <3>1 DEF BuilderOK
        <3> QED
            BY <1>1, <3>1, <3>2 DEF DeployerOK, WorkOK
    <2>3. CASE seen # "Done"
        BY <1>2, <1>4, <2>1, <2>3 DEF BuilderReports, Phases
    <2> QED
        BY <2>2, <2>3
<1>5. CASE HookRuns
    <2>1. hook.round \in RoundNumbers /\ hook.round \in Int
        BY RoundsAreInt DEF BuilderOK
    <2>2. /\ Triggered \in DeployerObject /\ Triggered.round \in RoundNumbers
          /\ Triggered.currentRound = deployer.currentRound /\ Triggered.image = "built"
        BY <2>1 DEF Triggered, DeployerOK, DeployerObject, Images
    <2>3. (deployer' = Triggered \/ deployer' = deployer) /\ UNCHANGED <<builder, work>>
          /\ hook' = [hook EXCEPT !.pc = "publish"]
        BY <1>5 DEF HookRuns
    <2>4. BuilderOK'
        BY <2>3 DEF BuilderOK
    <2>5. DeployerOK' /\ WorkOK'
        BY <2>2, <2>3 DEF DeployerOK, WorkOK
    <2> QED
        BY <1>1, <2>3, <2>4, <2>5
<1>6. CASE BuildIsDone
    <2>1. /\ builder' = builder \/ builder' = [builder EXCEPT !.phase = "Done"]
          /\ hook' = NoHook /\ UNCHANGED <<deployer, work>>
        BY <1>6 DEF BuildIsDone
    <2>2. BuilderOK' /\ builder'.currentRound = builder.currentRound
          /\ builder'.round = builder.round
        BY <2>1, AbsentTypes DEF BuilderOK, BuilderObject, Phases
    <2> QED
        BY <1>1, <2>1, <2>2 DEF DeployerOK, WorkOK
<1> QED
    BY <1>3, <1>4, <1>5, <1>6 DEF BuilderController
\* What the deployer writes of itself.
LEMMA DeployerWrites ==
    ASSUME DeployerOK, BuilderOK, NEW phase \in Phases,
           \/ WriteDeployer([deployer EXCEPT !.phase = phase])
           \/ /\ WriteDeployer([deployer EXCEPT !.currentRound = deployer.round, !.phase = phase])
              /\ deployer.round > deployer.currentRound
    PROVE  /\ DeployerOK' /\ BuilderOK' /\ UNCHANGED <<builder, hook>>
           /\ deployer'.currentRound \in {deployer.currentRound, deployer.round}
           /\ deployer'.currentRound >= deployer.currentRound
           /\ deployer'.round = deployer.round
<1>1. /\ deployer \in DeployerObject /\ deployer.round \in RoundNumbers \cup {-1}
      /\ deployer.currentRound \in Reached /\ deployer.currentRound \in Int
      /\ deployer.round \in Int
      /\ deployer.round > deployer.currentRound => deployer.round \in Reached
      /\ deployer.image = "fake" => deployer.round = -1
    BY RoundsAreInt DEF DeployerOK, Reached
<1>2. ASSUME NEW round \in Reached, round >= deployer.currentRound,
             round \in {deployer.currentRound, deployer.round},
             WriteDeployer([deployer EXCEPT !.currentRound = round, !.phase = phase])
      PROVE  /\ DeployerOK' /\ BuilderOK' /\ UNCHANGED <<builder, hook>>
             /\ deployer'.currentRound \in {deployer.currentRound, deployer.round}
             /\ deployer'.currentRound >= deployer.currentRound
             /\ deployer'.round = deployer.round
    <2> DEFINE object == [deployer EXCEPT !.currentRound = round, !.phase = phase]
    <2>1. /\ object \in DeployerObject /\ object.round = deployer.round
          /\ object.currentRound = round /\ object.image = deployer.image
        BY <1>1, RoundsAreInt DEF DeployerObject
    <2>2. deployer' = object /\ UNCHANGED <<builder, hook>>
        BY <1>2 DEF WriteDeployer
    <2> HIDE DEF object
    <2> QED
        BY <1>1, <1>2, <2>1, <2>2 DEF BuilderOK, DeployerOK
<1>3. [deployer EXCEPT !.phase = phase]
          = [deployer EXCEPT !.currentRound = deployer.currentRound, !.phase = phase]
    BY <1>1 DEF DeployerObject
<1>4. CASE WriteDeployer([deployer EXCEPT !.phase = phase])
    <2>1. WriteDeployer([deployer EXCEPT !.currentRound = deployer.currentRound, !.phase = phase])
        BY <1>3, <1>4
    <2>2. /\ deployer.currentRound \in Reached /\ deployer.currentRound >= deployer.currentRound
          /\ deployer.currentRound \in {deployer.currentRound, deployer.round}
        BY <1>1
    <2> QED
        BY <1>2, <2>1, <2>2, Zenon
<1>5. CASE /\ WriteDeployer([deployer EXCEPT !.currentRound = deployer.round, !.phase = phase])
           /\ deployer.round > deployer.currentRound
    <2>1. deployer.round >= deployer.currentRound
        BY <1>1, <1>5
    <2> QED
        BY <1>1, <1>2, <1>5, <2>1
<1> QED
    BY <1>4, <1>5

LEMMA DeployerKept ==
    ASSUME BuilderOK, DeployerOK, WorkOK, DeployerController
    PROVE  /\ BuilderOK' /\ DeployerOK' /\ WorkOK' /\ UNCHANGED <<builder, hook>>
           /\ deployer'.currentRound \in {deployer.currentRound, deployer.round}
           /\ deployer'.round = deployer.round
<1>1. /\ deployer \in DeployerObject /\ deployer.type \in Types
      /\ deployer.currentRound \in RoundNumbers /\ deployer.currentRound \in Int
      /\ deployer.round \in Int /\ deployer.currentRound # -1
      /\ deployer.image \in Images
      /\ deployer.image = "fake" => deployer.round = -1
    BY RoundsAreInt DEF DeployerOK, DeployerObject, Reached
<1>2. /\ work[DeployWork] \in Workload
      /\ work[DeployWork].pod = "none" => work[DeployWork] = NoWorkload
      /\ work[DeployWork].pod # "left" /\ work[DeployWork].image # "fake"
    BY <1>1 DEF WorkOK, DeployWork
<1>3. ASSUME NEW phase \in Phases, NEW load,
             \/ WriteDeployer([deployer EXCEPT !.phase = phase])
             \/ /\ WriteDeployer([deployer EXCEPT !.currentRound = deployer.round, !.phase = phase])
                /\ deployer.round > deployer.currentRound,
             \/ UNCHANGED work
             \/ /\ work' = [work EXCEPT ![DeployWork] = load]
                /\ Fine(DeployWork, load, deployer'.currentRound)
      PROVE  /\ BuilderOK' /\ DeployerOK' /\ WorkOK' /\ UNCHANGED <<builder, hook>>
             /\ deployer'.currentRound \in {deployer.currentRound, deployer.round}
             /\ deployer'.round = deployer.round
    <2>1. /\ DeployerOK' /\ BuilderOK' /\ UNCHANGED <<builder, hook>>
          /\ deployer'.currentRound \in {deployer.currentRound, deployer.round}
          /\ deployer'.currentRound >= deployer.currentRound
          /\ deployer'.round = deployer.round
        BY <1>3, DeployerWrites
    <2>2. deployer'.currentRound \in Int
        BY <1>1, <2>1
    <2>3. WorkOK'
        BY <1>1, <1>3, <2>1, <2>2, PutKeepsWork, SameKeepsWork
    <2> QED
        BY <2>1, <2>3
<1>4. CASE DeployerMovesOn
    <2> DEFINE left == [work[DeployWork] EXCEPT !.pod = "left"]
    <2>1. /\ deployer.round > deployer.currentRound
          /\ WriteDeployer([deployer EXCEPT !.currentRound = deployer.round, !.phase = "Pending"])
          /\ deployer'.currentRound = deployer.round
          /\ \/ work' = [work EXCEPT ![DeployWork] = NoWorkload]
             \/ /\ deployer.type # "job" /\ work[DeployWork] # NoWorkload
                /\ work' = [work EXCEPT ![DeployWork] = left]
        BY <1>1, <1>4 DEF DeployerMovesOn, WriteDeployer, DeployerObject
    <2>2. Fine(DeployWork, NoWorkload, deployer'.currentRound)
        BY NoWorkType DEF Fine
    <2>3. ASSUME deployer.type # "job"
          PROVE  Fine(DeployWork, left, deployer'.currentRound)
        <3>1. /\ left \in Workload /\ left.pod = "left" /\ left.image # "fake"
            BY <1>2 DEF Workload
        <3>2. DeployWork[1] = "service" /\ DeployWork[2] = deployer.currentRound
            BY <1>1, <2>3 DEF DeployWork, Types
        <3> HIDE DEF left
        <3> QED
            BY <2>1, <3>1, <3>2 DEF Fine
    <2> HIDE DEF left
    <2> QED
        BY <1>3, <2>1, <2>2, <2>3 DEF Phases
<1>5. CASE DeployerUndone
    BY <1>3, <1>5 DEF DeployerUndone, Phases
<1>6. CASE Deploys
    <2> DEFINE load == [pod |-> "Pending", image |-> deployer.image]
    <2>1. load \in Workload /\ load.pod = "Pending" /\ load.image # "fake"
        BY <1>1, <1>6 DEF Deploys, Workload
    <2>2. Fine(DeployWork, load, deployer'.currentRound)
        BY <2>1 DEF Fine
    <2>3. /\ WriteDeployer([deployer EXCEPT !.phase = "Pending"])
          /\ work' = [work EXCEPT ![DeployWork] = load]
        BY <1>6 DEF Deploys
    <2> HIDE DEF load
    <2> QED
        BY <1>3, <2>2, <2>3 DEF Phases
<1>7. CASE DeployerReports
    <2>1. work[DeployWork].pod \in Phases
        BY <1>2, <1>7 DEF DeployerReports, Workload, Phases
    <2> QED
        BY <1>3, <1>7, <2>1 DEF DeployerReports
<1> QED
    BY <1>4, <1>5, <1>6, <1>7 DEF DeployerController

\* Kubernetes: pods, and the garbage collector.
LEMMA ClusterKept ==
    ASSUME BuilderOK, DeployerOK, WorkOK,
           CollectGarbage \/ Restart \/ \E w \in DOMAIN work : MovePod(w)
    PROVE  BuilderOK' /\ DeployerOK' /\ WorkOK'
<1>1. CASE CollectGarbage
    <2>1. /\ builder' = AbsentBuilder /\ deployer' = AbsentDeployer /\ hook' = NoHook
          /\ work' = NoWork
        BY <1>1 DEF CollectGarbage
    <2>2. BuilderOK' /\ DeployerOK'
        BY <2>1, AbsentTypes, RoundsAreInt DEF BuilderOK, DeployerOK
    <2>3. WorkOK'
        BY <2>1, NoWorkType DEF WorkOK
    <2> QED
        BY <2>2, <2>3
<1>2. CASE Restart
    <2>1. hook' = NoHook /\ UNCHANGED <<builder, deployer, work>>
        BY <1>2 DEF Restart
    <2> QED
        BY <2>1, AbsentTypes DEF BuilderOK, DeployerOK, WorkOK
<1>3. ASSUME NEW w \in DOMAIN work, MovePod(w)
      PROVE  BuilderOK' /\ DeployerOK' /\ WorkOK'
    <2>1. UNCHANGED <<builder, hook, deployer>> /\ deployer.currentRound \in Int
        BY <1>3, RoundsAreInt DEF MovePod, DeployerOK
    <2>2. PICK pod \in {"Pending", "Doing", "Done", "Failed"} : work' = [work EXCEPT ![w].pod = pod]
        BY <1>3 DEF MovePod
    <2> DEFINE load == [work[w] EXCEPT !.pod = pod]
    <2>3. work[w] \in Workload /\ work[w].image # "fake"
        BY DEF WorkOK
    <2>4. Fine(w, load, deployer'.currentRound)
        BY <2>3 DEF Fine, Workload
    <2>5. work' = [work EXCEPT ![w] = load]
        BY <2>2
    <2>6. /\ deployer.currentRound \in Int /\ deployer'.currentRound \in Int
          /\ deployer'.currentRound >= deployer.currentRound
        BY <2>1
    <2> HIDE DEF load
    <2>7. WorkOK'
        BY <2>4, <2>5, <2>6, PutKeepsWork
    <2> QED
        BY <2>1, <2>7 DEF BuilderOK, DeployerOK
<1> QED
    BY <1>1, <1>2, <1>3

LEMMA RestKept ==
    ASSUME WorkflowInv, [Next]_vars
    PROVE  BuilderOK' /\ DeployerOK' /\ WorkOK'
<1>1. CASE UNCHANGED <<builder, deployer, hook, work>>
    BY <1>1 DEF WorkflowInv, BuilderOK, DeployerOK, WorkOK
<1> QED
    BY <1>1, ElsewhereUntouched, GenerationKept, BuilderKept, DeployerKept, ClusterKept
       DEF WorkflowInv
-----------------------------------------------------------------------------
(* The invariant, types and images. *)

LEMMA InitInv == Init => WorkflowInv
<1> SUFFICES ASSUME Init PROVE WorkflowInv
    OBVIOUS
<1>1. WorkflowOK /\ RunOK
    BY AbsentWorkflowType, IdleType DEF Init, WorkflowOK, RunOK, At
<1>2. BuilderOK /\ DeployerOK
    BY AbsentTypes, RoundsAreInt DEF Init, BuilderOK, DeployerOK
<1>3. WorkOK
    BY NoWorkType DEF Init, WorkOK
<1> QED
    BY <1>1, <1>2, <1>3 DEF WorkflowInv

LEMMA InvKept == WorkflowInv /\ [Next]_vars => WorkflowInv'
BY WorkflowAndRunKept, RestKept DEF WorkflowInv

\* Copies as stale as they like, and a restart between any two steps.
THEOREM WorkflowInvariant == Spec => []WorkflowInv
BY InitInv, InvKept, PTL DEF Spec

\* Every variable of Workflow keeps its type.
THEOREM WorkflowsTypeCorrect == Spec => []TypeOK
<1>1. WorkflowInv => TypeOK
    <2> SUFFICES ASSUME WorkflowInv PROVE TypeOK
        OBVIOUS
    <2>1. hook \in [pc : {"none", "trigger", "publish"}, round : Int, fresh : BOOLEAN]
        BY RoundsAreInt DEF WorkflowInv, BuilderOK
    <2> QED
        BY <2>1 DEF WorkflowInv, WorkflowOK, RunOK, RunType, BuilderOK, DeployerOK, WorkOK, TypeOK
<1> QED
    BY <1>1, WorkflowInvariant, PTL

\* The placeholder of newDeployer is never run: it stands only in a deployer that
\* is asked for round -1, and the rounds a deployer reaches are not negative.
THEOREM PlaceholderNeverRuns == Spec => []FakeImageNeverRuns
<1>1. WorkflowInv => FakeImageNeverRuns
    BY DEF WorkflowInv, WorkOK, FakeImageNeverRuns
<1> QED
    BY <1>1, WorkflowInvariant, PTL

-----------------------------------------------------------------------------
(* The deployer follows the builder. *)

LEMMA FollowsKept ==
    ASSUME EverybodyBuilds, WorkflowInv, Follows, [Next]_vars
    PROVE  Follows'
<1>1. /\ builder.round \in Int /\ builder.currentRound \in Int /\ builder.currentRound >= 0
      /\ deployer.round \in Int /\ deployer.currentRound \in Int /\ hook.round \in Int
    <2>1. BuilderOK /\ DeployerOK
        BY DEF WorkflowInv
    <2>2. /\ builder.round \in RoundNumbers /\ builder.currentRound \in Reached
          /\ hook.round \in RoundNumbers
        BY <2>1 DEF BuilderOK
    <2>3. deployer.round \in Int /\ deployer.currentRound \in Reached
        BY <2>1 DEF DeployerOK, DeployerObject
    <2>4. RoundNumbers \subseteq Int
        BY RoundsAreInt
    <2> QED
        BY <2>2, <2>3, <2>4 DEF Reached
<1>2. CASE UNCHANGED <<builder, deployer, hook>>
    BY <1>2 DEF Follows
<1>3. CASE ApplyBuilder
    <2>1. builder'.currentRound = builder.currentRound /\ deployer' = deployer
          /\ hook'.pc = hook.pc /\ hook'.round = hook.round
        BY <1>3 DEF ApplyBuilder, NewBuilder, WorkflowInv, BuilderOK, BuilderObject
    <2> QED
        BY <2>1 DEF Follows
<1>4. CASE ApplyDeployer
    <2>1. run.copy.spec.build
        BY <1>4 DEF ApplyDeployer, At, WorkflowInv, RunOK, EverybodyBuilds
    <2>2. deployer'.round = -1 /\ deployer'.currentRound = deployer.currentRound
          /\ UNCHANGED <<builder, hook>>
        BY <1>4, <2>1 DEF ApplyDeployer, NewDeployer, WorkflowInv, DeployerOK, DeployerObject
    <2> QED
        BY <1>1, <2>2 DEF Follows
<1>5. CASE BuilderController
    <2>1. builder'.currentRound >= builder.currentRound /\ builder'.currentRound \in Int
          /\ builder'.round = builder.round
        BY <1>5, BuilderKept, RoundsAreInt DEF WorkflowInv, BuilderOK
    <2>2. CASE BuilderMovesOn \/ BuilderUndone \/ StartsBuild
        <3>1. deployer' = deployer /\ hook'.pc = hook.pc /\ hook'.round = hook.round
            BY <2>2 DEF BuilderMovesOn, BuilderUndone, StartsBuild, WriteBuilder, WorkflowInv,
                        BuilderOK
        <3> QED
            BY <1>1, <2>1, <3>1 DEF Follows
    <2>3. CASE BuilderReports
        <3>1. /\ deployer' = deployer
              /\ hook'.pc # "none" => hook'.round = builder.currentRound
            BY <2>3 DEF BuilderReports, WriteBuilder, WorkflowInv, BuilderOK
        <3> QED
            BY <1>1, <2>1, <3>1 DEF Follows
    <2>4. CASE HookRuns
        <3>1. /\ deployer'.currentRound = deployer.currentRound
              /\ deployer'.round \in {deployer.round, hook.round}
              /\ hook.pc # "none" /\ hook'.round = hook.round
            BY <2>4 DEF HookRuns, Triggered, WorkflowInv, BuilderOK, DeployerOK, DeployerObject
        <3> QED
            BY <1>1, <2>1, <3>1 DEF Follows
    <2>5. CASE BuildIsDone
        <3>1. deployer' = deployer /\ hook' = NoHook
            BY <2>5 DEF BuildIsDone
        <3> QED
            BY <1>1, <2>1, <3>1, AbsentTypes DEF Follows
    <2> QED
        BY <1>5, <2>2, <2>3, <2>4, <2>5 DEF BuilderController
<1>6. CASE DeployerController
    BY <1>6, DeployerKept DEF WorkflowInv, Follows
<1>7. CASE CollectGarbage
    <2>1. builder' = AbsentBuilder /\ deployer' = AbsentDeployer /\ hook' = NoHook
        BY <1>7 DEF CollectGarbage
    <2> QED
        BY <2>1, AbsentTypes DEF Follows
<1>8. CASE (\E w \in DOMAIN work : MovePod(w)) \/ Restart
    <2>1. UNCHANGED <<builder, deployer>> /\ (hook' = hook \/ hook' = NoHook)
        BY <1>8 DEF MovePod, Restart
    <2> QED
        BY <2>1, AbsentTypes DEF Follows
<1> QED
    BY <1>2, <1>3, <1>4, <1>5, <1>6, <1>7, <1>8, ElsewhereUntouched

\* Where every workflow builds: the deployer of a workflow is never in a round
\* that its builder has not reached, since nothing but the hook asks it for one.
THEOREM DeployersFollow == EverybodyBuilds /\ Spec => []DeployerFollowsBuilder
<1>1. EverybodyBuilds => EverybodyBuilds'
    BY DEF EverybodyBuilds
<1>2. Init => Follows
    BY AbsentTypes DEF Init, Follows
<1>3. EverybodyBuilds /\ WorkflowInv /\ Follows /\ [Next]_vars => Follows'
    BY FollowsKept
<1>4. Follows => DeployerFollowsBuilder
    BY DEF Follows, DeployerFollowsBuilder
<1> QED
    BY <1>1, <1>2, <1>3, <1>4, WorkflowInvariant, PTL DEF Spec
-----------------------------------------------------------------------------
(* A round that is recorded has been generated. *)

\* A reconciliation that leaves the workflow alone, and what was generated.
LEMMA GeneratedStays ==
    ASSUME Generated,
           UNCHANGED <<workflow, workflowCache, run>>,
           UNCHANGED <<builder, deployer>>
    PROVE  Generated'
BY DEF Generated, Recorded, BuilderGenerated, DeployerGenerated, At

LEMMA StoredSpec ==
    ASSUME WorkflowInv, Generated, NEW object, Store(object), object.spec = workflow.spec
    PROVE  workflow' = object /\ workflowCache'.spec = workflow.spec
BY DEF Store, StoreWorkflow, Generated

LEMMA ReconcilerGenerates ==
    ASSUME WorkflowInv, Generated, WorkflowController
    PROVE  Generated'
<1>1. WorkflowOK /\ RunOK /\ WorkflowOK' /\ RunOK'
    BY WorkflowAndRunKept DEF WorkflowInv, Next
<1>2. ~run.fresh \/ (/\ workflow.exists /\ run.copy.spec = workflow.spec
                     /\ run.copy.currentRound = workflow.currentRound
                     /\ run.copy.exists)
    BY <1>1, CopyIsTheWorkflow
<1>3. CASE run' = Idle /\ UNCHANGED <<workflowVars, builder, deployer>>
    BY <1>3, IdleType DEF Generated, Recorded, BuilderGenerated, DeployerGenerated, At, workflowVars
<1>4. CASE Conflict \/ GenerateFails
    BY <1>3, <1>4 DEF Conflict, GenerateFails, Return
<1>5. CASE Get
    <2>1. CASE run' = Idle
        BY <1>3, <1>5, <2>1 DEF Get
    <2>2. CASE /\ workflowCache.exists /\ Route(workflowCache) # "idle"
               /\ run' = [Idle EXCEPT !.pc = Route(workflowCache), !.copy = workflowCache,
                                      !.fresh = workflowFresh]
        <3>1. /\ UNCHANGED <<workflow, workflowCache, builder, deployer>>
              /\ run'.pc = Route(workflowCache) /\ run'.copy = workflowCache
              /\ run'.fresh = workflowFresh
            BY <1>5, <2>2 DEF Get, Idle, workflowVars
        <3>2. /\ run'.pc # "save"
              /\ run'.pc = "deployer" => ~run'.copy.spec.build
              /\ workflowFresh => workflowCache = workflow
            BY <1>1, <3>1, RouteType DEF WorkflowOK
        <3> QED
            BY <3>1, <3>2 DEF Generated, Recorded, BuilderGenerated, DeployerGenerated, At
    <2> QED
        BY <1>5, <2>1, <2>2 DEF Get
<1>6. CASE DropFinalizer
    <2>1. workflow' = AbsentWorkflow /\ run' = Idle
        BY <1>6 DEF DropFinalizer, Store, StoreWorkflow, Return
    <2> QED
        BY <2>1, AbsentWorkflowType, IdleType DEF Generated, Recorded
<1>7. CASE AddFinalizer
    <2> DEFINE object == [run.copy EXCEPT !.finalizer = TRUE]
    <2>1. /\ Store(object) /\ run' = [run EXCEPT !.pc = Route(object), !.copy = object]
          /\ UNCHANGED <<builder, deployer>>
        BY <1>7 DEF AddFinalizer
    <2>2. /\ object \in WorkflowObject
          /\ object.spec = run.copy.spec /\ object.exists = run.copy.exists
          /\ object.currentRound = run.copy.currentRound
        BY <1>1 DEF RunOK, RunType, WorkflowObject
    <2> HIDE DEF object
    <2>3. run.fresh /\ object.spec = workflow.spec /\ object.currentRound = workflow.currentRound
          /\ workflow.exists
        BY <1>2, <2>1, <2>2 DEF Store
    <2>4. workflow' = object /\ workflowCache'.spec = workflow.spec
        BY <2>1, <2>3, StoredSpec
    <2>5. run'.pc = Route(object) /\ run'.copy = object
        BY <1>1, <2>1 DEF RunOK, RunType
    <2>6. run'.pc # "save" /\ (run'.pc = "deployer" => ~run'.copy.spec.build)
        BY <2>2, <2>5, RouteType
    <2> QED
        BY <2>1, <2>3, <2>4, <2>5, <2>6
        DEF Generated, Recorded, BuilderGenerated, DeployerGenerated, At
<1>8. ASSUME NEW object, Store(object), run' = Idle, object.spec = workflow.spec,
             object.currentRound = workflow.currentRound, UNCHANGED <<builder, deployer>>
      PROVE  Generated'
    <2>1. workflow' = object /\ workflowCache'.spec = workflow.spec /\ workflow.exists
        BY <1>2, <1>8, StoredSpec DEF Store
    <2> QED
        BY <1>8, <2>1, IdleType DEF Generated, Recorded, BuilderGenerated, DeployerGenerated, At
<1>9. CASE Base \/ Undo
    <2>1. PICK object \in {[run.copy EXCEPT !.based = TRUE], Undone(run.copy)} :
              Store(object) /\ run' = Idle /\ UNCHANGED <<builder, deployer>>
        BY <1>9 DEF Base, Undo, Return
    <2>2. object.spec = run.copy.spec /\ object.currentRound = run.copy.currentRound
        BY <1>1, <2>1 DEF RunOK, RunType, WorkflowObject, Undone
    <2> QED
        BY <1>2, <1>8, <2>1, <2>2 DEF Store
<1>10. CASE Publish
    <2>1. run' = Idle /\ UNCHANGED <<builder, deployer>>
        BY <1>10 DEF Publish, Return
    <2>2. CASE run.fresh
        BY <1>2, <1>8, <1>10, <2>1, <2>2 DEF Publish, Store
    <2>3. CASE ~run.fresh
        BY <1>3, <1>10, <2>1, <2>3 DEF Publish
    <2> QED
        BY <2>2, <2>3
<1>11. CASE Save
    <2>1. /\ Store(NextRound(run.copy)) /\ run' = Idle /\ UNCHANGED <<builder, deployer>>
          /\ run.fresh /\ At("save")
        BY <1>11 DEF Save, Return, Store
    <2>2. /\ NextRound(run.copy).spec = workflow.spec
          /\ NextRound(run.copy).currentRound = workflow.spec.round
        BY <1>1, <1>2, <2>1, CopyIsTheWorkflow, NextRoundType
    <2>3. workflow' = NextRound(run.copy) /\ workflowCache'.spec = workflow.spec
        BY <2>1, <2>2, StoredSpec
    <2>4. DeployerGenerated(workflow.spec) /\ BuilderGenerated(workflow.spec)
        BY <1>2, <2>1 DEF Generated, At
    <2> QED
        BY <2>1, <2>2, <2>3, <2>4, IdleType
        DEF Generated, Recorded, BuilderGenerated, DeployerGenerated, At
<1>12. CASE GetBuilder \/ GetDeployer
    <2>1. CASE run' = Idle
        BY <1>3, <1>12, <2>1 DEF GetBuilder, GetDeployer
    <2>2. CASE run' # Idle
        <3>1. /\ UNCHANGED <<workflow, workflowCache, builder, deployer>>
              /\ run.pc \in {"getBuilder", "getDeployer"}
              /\ run'.pc \in {"getDeployer", "publish"}
              /\ run'.copy.spec = run.copy.spec /\ run'.fresh = run.fresh
            <4>1. run \in RunType /\ run.copy \in WorkflowObject
                BY <1>1 DEF RunOK, RunType
            <4>2. CASE GetBuilder
                BY <4>1, <4>2 DEF GetBuilder, At, workflowVars, RunType
            <4>3. CASE GetDeployer
                <5> DEFINE phase == Composed(run.copy.phase, run.seen, deployer.phase)
                           copy == [run.copy EXCEPT !.phase = phase]
                <5>1. /\ run' = [run EXCEPT !.pc = "publish", !.copy = copy]
                      /\ run.pc = "getDeployer"
                      /\ UNCHANGED <<workflow, workflowCache, builder, deployer>>
                    BY <2>2, <4>3 DEF GetDeployer, At, Return, workflowVars
                <5>2. copy.spec = run.copy.spec
                    BY <4>1 DEF WorkflowObject
                <5> HIDE DEF copy
                <5> QED
                    BY <4>1, <5>1, <5>2 DEF RunType
            <4> QED
                BY <1>12, <4>2, <4>3
        <3> QED
            BY <3>1 DEF Generated, Recorded, BuilderGenerated, DeployerGenerated, At
    <2> QED
        BY <2>1, <2>2
<1>13. CASE ApplyBuilder
    <2>1. /\ UNCHANGED <<workflow, workflowCache, deployer>>
          /\ run.pc = "builder" /\ run'.pc = "deployer" /\ run'.copy = run.copy
          /\ run'.fresh = run.fresh
          /\ builder'.exists /\ builder'.round = run.copy.spec.round
        BY <1>1, <1>13 DEF ApplyBuilder, At, workflowVars, RunOK, RunType, NewBuilder,
                           WorkflowInv, BuilderOK, BuilderObject
    <2> QED
        BY <2>1 DEF Generated, Recorded, BuilderGenerated, DeployerGenerated, At
<1>14. CASE ApplyDeployer
    <2>1. /\ UNCHANGED <<workflow, workflowCache, builder>>
          /\ run.pc = "deployer" /\ run'.pc = "save" /\ run'.copy = run.copy
          /\ run'.fresh = run.fresh /\ deployer'.exists
          /\ deployer'.from = run.copy.spec.round /\ deployer'.type = run.copy.spec.type
        BY <1>1, <1>14 DEF ApplyDeployer, At, workflowVars, RunOK, RunType, NewDeployer,
                           WorkflowInv, DeployerOK, DeployerObject
    <2> QED
        BY <2>1 DEF Generated, Recorded, BuilderGenerated, DeployerGenerated, At
<1> QED
    BY <1>4, <1>5, <1>6, <1>7, <1>9, <1>10, <1>11, <1>12, <1>13, <1>14 DEF WorkflowController
LEMMA GeneratedKept ==
    ASSUME ~UsersReturn, WorkflowInv, Generated, [Next]_vars
    PROVE  Generated'
<1>1. WorkflowOK /\ RunOK
    BY DEF WorkflowInv
<1>2. CASE WorkflowController
    BY <1>2, ReconcilerGenerates
<1>3. CASE WorkflowUser
    <2>1. ASSUME NEW object, WriteFromOutside(object), object # workflow,
                 ~(object.exists /\ object.spec.round = object.currentRound)
          PROVE  Generated'
        BY <2>1 DEF WriteFromOutside, StoreWorkflow, Generated, Recorded, RunOK, RunType, At
    <2>2. ASSUME NEW object, WriteFromOutside(object), object = workflow
          PROVE  Generated'
        BY <1>1, <2>2
        DEF WriteFromOutside, StoreWorkflow, Generated, Recorded, BuilderGenerated,
            DeployerGenerated, At
    <2>3. ASSUME NEW spec \in WorkflowSpecs, CreateWorkflow(spec)
          PROVE  Generated'
        <3> DEFINE object == [AbsentWorkflow EXCEPT !.exists = TRUE, !.spec = spec]
        <3>1. /\ object.exists /\ object.spec.round # object.currentRound
            BY SpecTypes DEF AbsentWorkflow
        <3>2. WriteFromOutside(object)
            BY <2>3 DEF CreateWorkflow
        <3> HIDE DEF object
        <3> QED
            BY <2>1, <2>2, <3>1, <3>2
    <2>4. ASSUME NEW spec \in WorkflowSpecs, EditWorkflow(spec)
          PROVE  Generated'
        <3> DEFINE object == [workflow EXCEPT !.spec = spec]
        <3>1. object.spec.round # object.currentRound
            BY <1>1, <2>4 DEF EditWorkflow, WorkflowOK, WorkflowObject
        <3>2. WriteFromOutside(object)
            BY <2>4 DEF EditWorkflow
        <3> HIDE DEF object
        <3> QED
            BY <2>1, <2>2, <3>1, <3>2
    <2>5. CASE DeleteWorkflow
        <3> DEFINE object == [workflow EXCEPT !.deleting = TRUE]
        <3>1. CASE WriteFromOutside(AbsentWorkflow)
            BY <2>1, <2>2, <3>1, AbsentWorkflowType
        <3>2. CASE WriteFromOutside(object)
            <4>1. /\ object.exists = workflow.exists /\ object.spec = workflow.spec
                  /\ object.currentRound = workflow.currentRound
                BY <1>1 DEF WorkflowOK, WorkflowObject
            <4> HIDE DEF object
            <4>2. CASE object = workflow
                BY <2>2, <3>2, <4>2
            <4>3. CASE object # workflow
                <5>1. /\ workflow' = object /\ workflowCache' \in {workflowCache, object}
                      /\ run'.fresh = FALSE /\ run'.pc = run.pc /\ run'.copy = run.copy
                      /\ UNCHANGED <<builder, deployer>>
                    BY <1>1, <3>2, <4>3 DEF WriteFromOutside, StoreWorkflow, RunOK, RunType
                <5> QED
                    BY <4>1, <5>1 DEF Generated, Recorded, BuilderGenerated, DeployerGenerated, At
            <4> QED
                BY <4>2, <4>3
        <3> QED
            BY <2>5, <3>1, <3>2 DEF DeleteWorkflow
    <2> QED
        BY <1>3, <2>3, <2>4, <2>5 DEF WorkflowUser
<1>4. CASE SyncWorkflow \/ Restart
    <2>1. /\ workflow' = workflow /\ workflowCache' = workflow /\ UNCHANGED <<builder, deployer>>
          /\ run' = run \/ run' = Idle
        BY <1>4 DEF SyncWorkflow, Restart
    <2> QED
        BY <1>1, <2>1, CopyIsTheWorkflow, IdleType
        DEF Generated, Recorded, BuilderGenerated, DeployerGenerated, At
<1>5. CASE BuilderController
    <2>1. UNCHANGED <<workflow, workflowCache, run>>
        BY <1>5 DEF BuilderController, BuilderMovesOn, BuilderUndone, StartsBuild,
                    BuilderReports, HookRuns, BuildIsDone, WriteBuilder, workflowVars
    <2>2. builder'.exists = builder.exists /\ builder'.round = builder.round
        BY <1>5 DEF BuilderController, BuilderMovesOn, BuilderUndone, StartsBuild,
                    BuilderReports, HookRuns, BuildIsDone, WriteBuilder, WorkflowInv, BuilderOK,
                    BuilderObject
    <2>3. /\ deployer'.exists = deployer.exists /\ deployer'.from = deployer.from
          /\ deployer'.type = deployer.type
        BY <1>5 DEF BuilderController, BuilderMovesOn, BuilderUndone, StartsBuild,
                    BuilderReports, HookRuns, BuildIsDone, WriteBuilder, Triggered, WorkflowInv,
                    DeployerOK, DeployerObject
    <2> QED
        BY <2>1, <2>2, <2>3 DEF Generated, Recorded, BuilderGenerated, DeployerGenerated, At
<1>6. CASE DeployerController
    <2>1. UNCHANGED <<workflow, workflowCache, run, builder>>
        BY <1>6 DEF DeployerController, DeployerMovesOn, DeployerUndone, Deploys,
                    DeployerReports, WriteDeployer, workflowVars
    <2>2. /\ deployer'.exists = deployer.exists /\ deployer'.from = deployer.from
          /\ deployer'.type = deployer.type
        BY <1>6 DEF DeployerController, DeployerMovesOn, DeployerUndone, Deploys,
                    DeployerReports, WriteDeployer, WorkflowInv, DeployerOK, DeployerObject
    <2> QED
        BY <2>1, <2>2 DEF Generated, Recorded, BuilderGenerated, DeployerGenerated, At
<1>7. CASE CollectGarbage
    <2>1. UNCHANGED <<workflow, workflowCache, run>> /\ ~workflow.exists
        BY <1>7 DEF CollectGarbage, workflowVars
    <2>2. ~run.fresh
        BY <1>1, <2>1, CopyIsTheWorkflow
    <2> QED
        BY <2>1, <2>2 DEF Generated, Recorded
<1>8. CASE Resync \/ (\E w \in DOMAIN work : MovePod(w)) \/ UNCHANGED vars
    BY <1>8, GeneratedStays DEF Resync, MovePod, vars, workflowVars
<1> QED
    BY <1>2, <1>3, <1>4, <1>5, <1>6, <1>7, <1>8 DEF Next

\* As long as nobody asks again for a round that has been left: behind a round
\* that is recorded stand a deployer generated from the spec of that very round, and
\* with a build stage the builder of that round, however stale the copies and wherever
\* the three writes were cut.  The round and the image that a hook gives to the
\* deployer afterwards are not among what this says.
THEOREM RoundsAreGenerated == ~UsersReturn /\ Spec => []RoundIsGenerated
<1>1. ~UsersReturn => (~UsersReturn)'
    OBVIOUS
<1>2. Init => Generated
    BY AbsentWorkflowType, IdleType DEF Init, Generated, Recorded, At
<1>3. ~UsersReturn /\ WorkflowInv /\ Generated /\ [Next]_vars => Generated'
    BY GeneratedKept
<1>4. Generated => RoundIsGenerated
    BY DEF Generated, Recorded, BuilderGenerated, DeployerGenerated, RoundIsGenerated
<1> QED
    BY <1>1, <1>2, <1>3, <1>4, WorkflowInvariant, PTL DEF Spec

-----------------------------------------------------------------------------
(* No workflow is lost sight of. *)

LEMMA LookedAt ==
    ASSUME WorkflowInv, NobodyIsForgotten, [Next]_vars
    PROVE  NobodyIsForgotten'
<1>1. WorkflowOK /\ RunOK
    BY DEF WorkflowInv
<1>2. CASE queued' = TRUE
    BY <1>2 DEF NobodyIsForgotten
<1>3. CASE run'.pc # "idle"
    BY <1>3 DEF NobodyIsForgotten, At
<1>4. CASE Get
    <2>1. CASE run' = Idle
        <3>1. UNCHANGED <<workflow, workflowFresh>>
              /\ (~workflowCache.exists \/ Route(workflowCache) = "idle")
            <4>1. ASSUME workflowCache.exists, Route(workflowCache) # "idle" PROVE FALSE
                <5>1. run'.pc = Route(workflowCache)
                    BY <1>4, <4>1 DEF Get, Idle
                <5> QED
                    BY <2>1, <4>1, <5>1, IdleType
            <4> QED
                BY <1>4, <4>1 DEF Get, workflowVars
        <3>2. workflowCache.exists => workflowCache.deleting /\ ~workflowCache.finalizer
            BY <1>1, <3>1, RouteType DEF WorkflowOK
        <3>3. ~workflowCache.exists
            BY <1>1, <3>2 DEF WorkflowOK, Sound
        <3> QED
            BY <1>1, <3>1, <3>3 DEF NobodyIsForgotten, WorkflowOK
    <2>2. CASE run' # Idle
        <3>1. run'.pc = Route(workflowCache) /\ Route(workflowCache) # "idle"
            BY <1>4, <2>2 DEF Get, Idle
        <3> QED
            BY <1>3, <3>1
    <2> QED
        BY <2>1, <2>2
<1>5. CASE DropFinalizer
    <2>1. workflow' = AbsentWorkflow
        BY <1>5 DEF DropFinalizer, Store, StoreWorkflow
    <2> QED
        BY <2>1, AbsentWorkflowType DEF NobodyIsForgotten
<1>6. CASE Undo
    <2>1. /\ run.fresh /\ workflow' = Undone(run.copy)
          /\ run.copy.spec.round < run.copy.currentRound
        BY <1>6 DEF Undo, Store, StoreWorkflow
    <2>2. /\ workflow'.spec = run.copy.spec /\ workflow'.currentRound = run.copy.currentRound
          /\ run.copy.spec.round \in Int /\ run.copy.currentRound \in Int
        BY <1>1, <2>1, CopyIsTheWorkflow, SpecTypes DEF WorkflowObject, Undone
    <2> QED
        BY <2>1, <2>2 DEF NobodyIsForgotten
<1>7. CASE Conflict \/ Base \/ GenerateFails \/ Save \/ Publish \/ SyncWorkflow \/ Restart \/ Resync
    BY <1>2, <1>7 DEF Conflict, Base, GenerateFails, Save, Publish, SyncWorkflow, Restart, Resync,
                      Return
<1>8. CASE AddFinalizer
    <2> DEFINE object == [run.copy EXCEPT !.finalizer = TRUE]
    <2>1. ~run.copy.deleting /\ run.copy \in WorkflowObject
        BY <1>1, <1>8 DEF AddFinalizer, RunOK, RunType
    <2>2. object \in WorkflowObject /\ object.deleting = run.copy.deleting
        BY <2>1 DEF WorkflowObject
    <2> HIDE DEF object
    <2>3. run'.pc = Route(object)
        BY <1>1, <1>8 DEF AddFinalizer, RunOK, RunType, object
    <2> QED
        BY <1>3, <2>1, <2>2, <2>3, RouteType
<1>9. CASE ApplyBuilder \/ ApplyDeployer \/ GetBuilder \/ GetDeployer
    <2>1. run'.pc \in {"deployer", "save", "getDeployer", "publish"} \/ queued' = TRUE
        BY <1>1, <1>9 DEF ApplyBuilder, ApplyDeployer, GetBuilder, GetDeployer, RunOK, RunType,
                          Return
    <2> QED
        BY <1>2, <1>3, <2>1
<1>10. CASE WorkflowUser
    <2>1. ASSUME NEW object, WriteFromOutside(object)
          PROVE  NobodyIsForgotten'
        <3>1. CASE object = workflow
            <4>1. workflow' = workflow /\ run' = run /\ (queued => queued')
                  /\ (workflowFresh' => workflowFresh)
                BY <1>1, <2>1, <3>1 DEF WriteFromOutside, StoreWorkflow, WorkflowOK
            <4> QED
                BY <4>1 DEF NobodyIsForgotten, At
        <3>2. CASE object # workflow
            BY <1>1, <2>1, <3>2 DEF WriteFromOutside, StoreWorkflow, Woken, NobodyIsForgotten,
                                    WorkflowOK
        <3> QED
            BY <3>1, <3>2
    <2> QED
        BY <1>10, <2>1 DEF WorkflowUser, CreateWorkflow, EditWorkflow, DeleteWorkflow
<1>11. CASE BuilderController
    <2>1. UNCHANGED <<workflowVars, queued, run>>
        BY <1>11 DEF BuilderController, BuilderMovesOn, BuilderUndone, StartsBuild,
                     BuilderReports, HookRuns, BuildIsDone, WriteBuilder
    <2> QED
        BY <2>1 DEF NobodyIsForgotten, At, workflowVars
<1>12. CASE DeployerController
    <2>1. UNCHANGED <<workflowVars, queued, run>>
        BY <1>12 DEF DeployerController, DeployerMovesOn, DeployerUndone, Deploys,
                     DeployerReports, WriteDeployer
    <2> QED
        BY <2>1 DEF NobodyIsForgotten, At, workflowVars
<1>13. CASE CollectGarbage \/ (\E w \in DOMAIN work : MovePod(w)) \/ UNCHANGED vars
    <2>1. UNCHANGED <<workflowVars, queued, run>>
        BY <1>13 DEF CollectGarbage, MovePod, vars
    <2> QED
        BY <2>1 DEF NobodyIsForgotten, At, workflowVars
<1> QED
    BY <1>4, <1>5, <1>6, <1>7, <1>8, <1>9, <1>10, <1>11, <1>12, <1>13
       DEF Next, WorkflowController

\* A workflow that is not asked for an earlier round than its own is in the work
\* queue, or being reconciled, or an event of it is on its way.
THEOREM NobodyForgotten == Spec => []NobodyIsForgotten
<1>1. Init => NobodyIsForgotten
    BY AbsentWorkflowType DEF Init, NobodyIsForgotten
<1>2. WorkflowInv /\ NobodyIsForgotten /\ [Next]_vars => NobodyIsForgotten'
    BY LookedAt
<1> QED
    BY <1>1, <1>2, WorkflowInvariant, PTL DEF Spec
-----------------------------------------------------------------------------
(* The rounds of a workflow are those of the ledger. *)

\* Only copies that are not marked are composed or generated from, and only in
\* the round asked for is a status composed.
RoutedInv ==
    /\ run.pc \in {"builder", "deployer", "save", "getBuilder", "getDeployer", "publish"} =>
           ~run.copy.deleting
    /\ run.pc \in {"getBuilder", "getDeployer", "publish"} =>
           run.copy.spec.round = run.copy.currentRound

\* From its first round on a workflow that builds has a builder, which a current
\* reconciliation has seen; so the status that it composes can be UNDO only if it
\* was before.
ComposedInv ==
    /\ workflow.exists /\ workflow.currentRound # 0 => builder.exists
    /\ run.fresh /\ run.pc \in {"deployer", "save"} => builder.exists
    /\ run.fresh /\ run.pc # "publish" => run.copy = workflow
    /\ run.fresh /\ run.pc = "getDeployer" => run.seen # None
    /\ run.fresh /\ run.pc = "publish" /\ run.copy.phase = "UNDO" => workflow.phase = "UNDO"

RoundsInv == RoutedInv /\ ComposedInv

LEMMA RouteLeads ==
    ASSUME NEW object \in WorkflowObject, object.exists => object.spec \in WorkflowSpecs,
           object.exists
    PROVE  /\ Route(object) \in {"builder", "deployer", "getBuilder"} => ~object.deleting
           /\ Route(object) = "getBuilder" => object.spec.round = object.currentRound
           /\ Route(object) = "deployer" => ~object.spec.build
           /\ Route(object) \notin {"save", "getDeployer", "publish"}
<1>1. /\ object.deleting \in BOOLEAN /\ object.finalizer \in BOOLEAN /\ object.based \in BOOLEAN
      /\ object.spec.build \in BOOLEAN
    BY SpecTypes DEF WorkflowObject
<1> QED
    BY <1>1 DEF Route, Generates

\* Where a reconciliation that is under way comes from.
LEMMA RoutedKept ==
    ASSUME WorkflowOK, RunOK, RoutedInv, [Next]_vars PROVE RoutedInv'
<1>0. run \in RunType
    BY DEF RunOK
<1>1. ASSUME run' = Idle PROVE RoutedInv'
    BY <1>1, IdleType DEF RoutedInv
<1>2. ASSUME run'.pc = run.pc, run'.copy = run.copy PROVE RoutedInv'
    BY <1>2 DEF RoutedInv
<1>3. CASE Get
    <2> DEFINE seen == workflowCache
    <2>1. \/ run' = Idle
          \/ seen.exists /\ run'.pc = Route(seen) /\ run'.copy = seen
        BY <1>3 DEF Get, Idle
    <2>2. seen \in WorkflowObject /\ (seen.exists => seen.spec \in WorkflowSpecs)
        BY DEF WorkflowOK, Sound
    <2> HIDE DEF seen
    <2>3. CASE seen.exists /\ run'.pc = Route(seen) /\ run'.copy = seen
        BY <2>2, <2>3, RouteLeads DEF RoutedInv
    <2> QED
        BY <1>1, <2>1, <2>3
<1>4. CASE AddFinalizer
    <2> DEFINE object == [run.copy EXCEPT !.finalizer = TRUE]
    <2>1. run'.pc = Route(object) /\ run'.copy = object /\ At("addFinalizer")
        BY <1>0, <1>4 DEF AddFinalizer, RunType
    <2>2. object \in WorkflowObject /\ object.exists /\ object.spec \in WorkflowSpecs
        BY <1>0, <2>1 DEF RunOK, RunType, WorkflowObject, At
    <2> HIDE DEF object
    <2> QED
        BY <2>1, <2>2, RouteLeads DEF RoutedInv
<1>5. CASE ApplyBuilder \/ ApplyDeployer \/ GetBuilder
    BY <1>0, <1>5 DEF ApplyBuilder, ApplyDeployer, GetBuilder, At, RoutedInv, RunType
<1>6. CASE GetDeployer
    <2> DEFINE phase == Composed(run.copy.phase, run.seen, deployer.phase)
    <2>1. \/ run' = Idle
          \/ run.pc = "getDeployer" /\ run' = [run EXCEPT !.pc = "publish",
                                                          !.copy = [@ EXCEPT !.phase = phase]]
        BY <1>6 DEF GetDeployer, Return, At
    <2> HIDE DEF phase
    <2>2. CASE run.pc = "getDeployer" /\ run' = [run EXCEPT !.pc = "publish",
                                                          !.copy = [@ EXCEPT !.phase = phase]]
        BY <1>0, <2>2 DEF RoutedInv, RunType, WorkflowObject
    <2> QED
        BY <1>1, <2>1, <2>2
<1>7. CASE Conflict \/ DropFinalizer \/ Base \/ GenerateFails \/ Undo \/ Save \/ Publish \/ Restart
    BY <1>1, <1>7 DEF Conflict, DropFinalizer, Base, GenerateFails, Undo, Save, Publish, Return,
                      Restart
<1>8. CASE WorkflowUser
    <2>1. run' = run \/ run' = [run EXCEPT !.fresh = FALSE]
        BY <1>8 DEF WorkflowUser, CreateWorkflow, EditWorkflow, DeleteWorkflow, WriteFromOutside
    <2> QED
        BY <1>0, <1>2, <2>1 DEF RunType
<1>9. CASE BuilderController \/ DeployerController
    BY <1>2, <1>9 DEF BuilderController, BuilderMovesOn, BuilderUndone, StartsBuild,
                      BuilderReports, HookRuns, BuildIsDone, WriteBuilder, DeployerController,
                      DeployerMovesOn, DeployerUndone, Deploys, DeployerReports, WriteDeployer
<1>10. CASE SyncWorkflow \/ CollectGarbage \/ Resync \/ (\E w \in DOMAIN work : MovePod(w))
            \/ UNCHANGED vars
    BY <1>2, <1>10 DEF SyncWorkflow, CollectGarbage, Resync, MovePod, vars
<1> QED
    BY <1>3, <1>4, <1>5, <1>6, <1>7, <1>8, <1>9, <1>10 DEF Next, WorkflowController

\* No controller takes a builder away.
LEMMA BuilderStays ==
    ASSUME BuilderOK, WorkflowController \/ BuilderController \/ DeployerController,
           builder.exists
    PROVE  builder'.exists
<1>1. CASE ApplyBuilder \/ BuilderController
    BY <1>1 DEF ApplyBuilder, NewBuilder, BuilderController, BuilderMovesOn, BuilderUndone,
                StartsBuild, BuilderReports, HookRuns, BuildIsDone, WriteBuilder, BuilderOK,
                BuilderObject
<1>2. CASE DeployerController
    BY <1>2 DEF DeployerController, DeployerMovesOn, DeployerUndone, Deploys, DeployerReports,
                WriteDeployer
<1>3. CASE WorkflowController /\ ~ApplyBuilder
    BY <1>3 DEF WorkflowController, Get, Conflict, DropFinalizer, AddFinalizer, Base,
                ApplyDeployer, GenerateFails, Undo, Save, GetBuilder, GetDeployer, Publish
<1> QED
    BY <1>1, <1>2, <1>3

LEMMA NoSurprise ==
    ASSUME NEW phase \in Phases, NEW built \in Phases, NEW deployed \in Phases,
           Composed(phase, built, deployed) = "UNDO"
    PROVE  phase = "UNDO"
BY WorkflowAssumption DEF Composed, HashDone, HasStarted

\* A step in which the builder stays, and with it what a reconciliation has seen.
LEMMA ComposedStays ==
    ASSUME ComposedInv, builder.exists => builder'.exists, UNCHANGED <<workflow, run>>
    PROVE  ComposedInv'
BY DEF ComposedInv

LEMMA ReconcilerComposes ==
    ASSUME EverybodyBuilds, WorkflowInv, RoutedInv, ComposedInv, WorkflowController
    PROVE  ComposedInv'
<1>0. /\ WorkflowOK /\ RunOK /\ BuilderOK /\ DeployerOK
      /\ run \in RunType /\ workflow \in WorkflowObject
      /\ builder.exists => builder'.exists
    BY BuilderStays DEF WorkflowInv, WorkflowOK, RunOK
<1>1. ASSUME run' = Idle, workflow'.exists /\ workflow'.currentRound # 0 => builder'.exists
      PROVE  ComposedInv'
    BY <1>1, IdleType DEF ComposedInv
<1>2. ASSUME run' = Idle, workflow' = workflow PROVE ComposedInv'
    BY <1>0, <1>1, <1>2 DEF ComposedInv
<1>3. run.fresh => /\ workflow.exists /\ run.copy.currentRound = workflow.currentRound
                   /\ run.copy.exists = workflow.exists
                   /\ run.copy \in WorkflowObject /\ run.copy.spec \in WorkflowSpecs
    BY <1>0, CopyIsTheWorkflow
<1>4. CASE Get
    <2> DEFINE seen == workflowCache
    <2>1. /\ UNCHANGED <<workflow, builder>>
          /\ \/ run' = Idle
             \/ /\ seen.exists /\ run'.pc = Route(seen) /\ run'.copy = seen
                /\ run'.fresh = workflowFresh
        BY <1>4 DEF Get, Idle, workflowVars
    <2>2. /\ seen \in WorkflowObject /\ (seen.exists => seen.spec \in WorkflowSpecs)
          /\ workflowFresh => seen = workflow
        BY <1>0 DEF WorkflowOK, Sound
    <2> HIDE DEF seen
    <2>3. CASE seen.exists /\ run'.pc = Route(seen) /\ run'.copy = seen
               /\ run'.fresh = workflowFresh
        <3>1. run'.pc \notin {"deployer", "save", "getDeployer", "publish"}
            BY <2>2, <2>3, RouteLeads DEF EverybodyBuilds
        <3> QED
            BY <2>1, <2>2, <2>3, <3>1 DEF ComposedInv
    <2> QED
        BY <1>2, <2>1, <2>3
<1>5. CASE AddFinalizer
    <2> DEFINE object == [run.copy EXCEPT !.finalizer = TRUE]
    <2>1. /\ run.fresh /\ workflow' = object /\ builder' = builder
          /\ run'.pc = Route(object) /\ run'.copy = object
        BY <1>0, <1>5 DEF AddFinalizer, Store, StoreWorkflow, RunType
    <2>2. /\ object \in WorkflowObject /\ object.exists /\ object.spec \in WorkflowSpecs
          /\ object.currentRound = workflow.currentRound /\ object.exists = workflow.exists
        BY <1>3, <2>1 DEF WorkflowObject
    <2> HIDE DEF object
    <2>3. run'.pc \notin {"deployer", "save", "getDeployer", "publish"}
        BY <2>1, <2>2, RouteLeads DEF EverybodyBuilds
    <2> QED
        BY <2>1, <2>2, <2>3 DEF ComposedInv
<1>6. CASE ApplyBuilder
    <2>1. builder'.exists
        BY <1>0, <1>6 DEF ApplyBuilder, NewBuilder, BuilderOK, BuilderObject
    <2>2. /\ run.pc = "builder" /\ run'.pc = "deployer" /\ run'.copy = run.copy
          /\ run'.fresh = run.fresh /\ workflow' = workflow
        BY <1>0, <1>6 DEF ApplyBuilder, At, RunType, workflowVars
    <2> QED
        BY <2>1, <2>2 DEF ComposedInv
<1>7. CASE ApplyDeployer
    <2>1. /\ run.pc = "deployer" /\ run'.pc = "save" /\ run'.copy = run.copy
          /\ run'.fresh = run.fresh /\ UNCHANGED <<workflow, builder>>
        BY <1>0, <1>7 DEF ApplyDeployer, At, RunType, workflowVars
    <2> QED
        BY <2>1 DEF ComposedInv
<1>8. CASE GetBuilder
    <2>1. /\ run.pc = "getBuilder" /\ run'.pc = "getDeployer" /\ run'.copy = run.copy
          /\ run'.fresh = run.fresh /\ UNCHANGED <<workflow, builder>>
          /\ run'.seen = IF builder.exists THEN builder.phase ELSE None
        BY <1>0, <1>8 DEF GetBuilder, At, RunType, workflowVars
    <2>2. run.fresh => builder.exists
        <3>1. run.fresh => run.copy.currentRound # 0
            BY <1>3, <2>1, SpecTypes DEF RoutedInv
        <3> QED
            BY <1>3, <3>1 DEF ComposedInv
    <2>3. builder.phase # None
        BY <1>0, WorkflowAssumption DEF BuilderOK, BuilderObject
    <2> QED
        BY <2>1, <2>2, <2>3 DEF ComposedInv
<1>9. CASE GetDeployer
    <2> DEFINE phase == Composed(run.copy.phase, run.seen, deployer.phase)
    <2>1. /\ UNCHANGED <<workflow, builder>> /\ run.pc = "getDeployer"
          /\ \/ run' = Idle
             \/ run' = [run EXCEPT !.pc = "publish", !.copy = [@ EXCEPT !.phase = phase]]
        BY <1>9 DEF GetDeployer, Return, At, workflowVars
    <2>2. run.fresh /\ phase = "UNDO" => workflow.phase = "UNDO"
        <3>1. run.fresh => run.copy.phase = workflow.phase /\ run.seen \in Phases
            BY <1>0, <2>1 DEF ComposedInv, RunType
        <3>2. run.copy.phase \in Phases /\ deployer.phase \in Phases
            BY <1>0 DEF RunType, WorkflowObject, DeployerOK, DeployerObject
        <3> QED
            BY <3>1, <3>2, NoSurprise
    <2> HIDE DEF phase
    <2>3. CASE run' = [run EXCEPT !.pc = "publish", !.copy = [@ EXCEPT !.phase = phase]]
        <3>1. run'.pc = "publish" /\ run'.copy.phase = phase /\ run'.fresh = run.fresh
            BY <1>0, <2>3 DEF RunType, WorkflowObject
        <3> QED
            BY <2>1, <2>2, <3>1 DEF ComposedInv
    <2> QED
        BY <1>2, <2>1, <2>3
<1>10. CASE DropFinalizer
    <2>1. workflow' = AbsentWorkflow /\ run' = Idle
        BY <1>10 DEF DropFinalizer, Store, StoreWorkflow, Return
    <2> QED
        BY <1>1, <2>1, AbsentWorkflowType
<1>11. CASE Base \/ Undo
    <2>1. /\ run.fresh /\ run' = Idle
          /\ workflow' \in {[run.copy EXCEPT !.based = TRUE], Undone(run.copy)}
        BY <1>11 DEF Base, Undo, Store, StoreWorkflow, Return
    <2>2. workflow'.exists = workflow.exists /\ workflow'.currentRound = workflow.currentRound
        BY <1>3, <2>1 DEF WorkflowObject, Undone
    <2> QED
        BY <1>0, <1>1, <2>1, <2>2 DEF ComposedInv
<1>12. CASE Save
    <2>1. run.fresh /\ run.pc = "save" /\ run' = Idle
        BY <1>12 DEF Save, Store, Return, At
    <2> QED
        BY <1>0, <1>1, <2>1 DEF ComposedInv
<1>13. CASE Publish
    <2>1. run' = Idle /\ (workflow' = workflow \/ (run.fresh /\ workflow' = run.copy))
        BY <1>13 DEF Publish, StoreWorkflow, Return, workflowVars
    <2> QED
        BY <1>0, <1>1, <1>3, <2>1 DEF ComposedInv
<1>14. CASE Conflict \/ GenerateFails
    BY <1>2, <1>14 DEF Conflict, GenerateFails, Return, workflowVars
<1> QED
    BY <1>4, <1>5, <1>6, <1>7, <1>8, <1>9, <1>10, <1>11, <1>12, <1>13, <1>14
       DEF WorkflowController

LEMMA ComposedKept ==
    ASSUME EverybodyBuilds, WorkflowInv, RoutedInv, ComposedInv, [Next]_vars
    PROVE  ComposedInv'
<1>0. run \in RunType /\ workflow \in WorkflowObject /\ BuilderOK
    BY DEF WorkflowInv, WorkflowOK, RunOK
<1>1. CASE WorkflowController
    BY <1>1, ReconcilerComposes
<1>2. CASE WorkflowUser
    <2>1. ASSUME NEW object, WriteFromOutside(object),
                 object.exists => \/ object.currentRound = 0
                                  \/ workflow.exists /\ object.currentRound = workflow.currentRound
          PROVE  ComposedInv'
        <3>1. /\ builder' = builder /\ workflow' = object
              /\ run'.pc = run.pc /\ run'.copy = run.copy /\ run'.seen = run.seen
              /\ run'.fresh => run.fresh /\ object = workflow
            BY <1>0, <2>1 DEF WriteFromOutside, StoreWorkflow, RunType
        <3> QED
            BY <2>1, <3>1 DEF ComposedInv
    <2>2. ASSUME NEW spec \in WorkflowSpecs, CreateWorkflow(spec) PROVE ComposedInv'
        <3> DEFINE object == [AbsentWorkflow EXCEPT !.exists = TRUE, !.spec = spec]
        <3>1. object.currentRound = 0 /\ WriteFromOutside(object)
            BY <2>2 DEF CreateWorkflow, AbsentWorkflow
        <3> HIDE DEF object
        <3> QED
            BY <2>1, <3>1
    <2>3. ASSUME NEW spec \in WorkflowSpecs, EditWorkflow(spec) PROVE ComposedInv'
        <3> DEFINE object == [workflow EXCEPT !.spec = spec]
        <3>1. /\ object.currentRound = workflow.currentRound /\ workflow.exists
              /\ WriteFromOutside(object)
            BY <1>0, <2>3 DEF EditWorkflow, WorkflowObject
        <3> HIDE DEF object
        <3> QED
            BY <2>1, <3>1
    <2>4. CASE DeleteWorkflow
        <3> DEFINE object == [workflow EXCEPT !.deleting = TRUE]
        <3>1. object.currentRound = workflow.currentRound
            BY <1>0 DEF WorkflowObject
        <3>2. /\ workflow.exists
              /\ WriteFromOutside(object) \/ WriteFromOutside(AbsentWorkflow)
            BY <2>4 DEF DeleteWorkflow
        <3> HIDE DEF object
        <3> QED
            BY <2>1, <3>1, <3>2, AbsentWorkflowType
    <2> QED
        BY <1>2, <2>2, <2>3, <2>4 DEF WorkflowUser
<1>3. CASE CollectGarbage
    <2>1. ~workflow.exists /\ UNCHANGED <<workflow, run>>
        BY <1>3 DEF CollectGarbage, workflowVars
    <2>2. ~run.fresh
        BY <2>1, CopyIsTheWorkflow DEF WorkflowInv
    <2> QED
        BY <2>1, <2>2 DEF ComposedInv
<1>4. CASE Restart
    <2>1. run' = Idle /\ UNCHANGED <<workflow, builder>>
        BY <1>4 DEF Restart
    <2> QED
        BY <2>1, IdleType DEF ComposedInv
<1>5. CASE BuilderController \/ DeployerController
    <2>1. UNCHANGED <<workflow, run>>
        BY <1>5 DEF BuilderController, BuilderMovesOn, BuilderUndone, StartsBuild,
                    BuilderReports, HookRuns, BuildIsDone, WriteBuilder, DeployerController,
                    DeployerMovesOn, DeployerUndone, Deploys, DeployerReports, WriteDeployer,
                    workflowVars
    <2> QED
        BY <1>0, <1>5, <2>1, BuilderStays, ComposedStays
<1>6. CASE SyncWorkflow \/ Resync \/ (\E w \in DOMAIN work : MovePod(w)) \/ UNCHANGED vars
    <2>1. UNCHANGED <<workflow, run, builder>>
        BY <1>6 DEF SyncWorkflow, Resync, MovePod, vars, workflowVars
    <2> QED
        BY <2>1, ComposedStays
<1> QED
    BY <1>1, <1>2, <1>3, <1>4, <1>5, <1>6 DEF Next

View(object) ==
    [exists |-> object.exists, deleting |-> object.deleting, spec |-> object.spec,
     phase |-> object.phase, currentRound |-> object.currentRound, history |-> object.history]

Viewed == [n \in {"workflow"} |-> View(workflow)]

LEMMA AbsentView ==
    View(AbsentWorkflow) = Rounds!Absent
    /\ \A spec \in WorkflowSpecs :
           View([AbsentWorkflow EXCEPT !.exists = TRUE, !.spec = spec]) = Rounds!New(spec)
BY DEF View, AbsentWorkflow, Rounds!Absent, Rounds!New

\* Setting the one object of the ledger.
LEMMA ViewSet ==
    /\ Viewed["workflow"] = View(workflow)
    /\ \A view : (Viewed' = [Viewed EXCEPT !["workflow"] = view]) <=> View(workflow') = view
<1>1. ASSUME NEW view, View(workflow') = view
      PROVE  Viewed' = [Viewed EXCEPT !["workflow"] = view]
    BY <1>1 DEF Viewed, View
<1>2. ASSUME NEW view, Viewed' = [Viewed EXCEPT !["workflow"] = view]
      PROVE  View(workflow') = view
    <2>1. Viewed'["workflow"] = view
        BY <1>2 DEF Viewed
    <2> QED
        BY <2>1 DEF Viewed, View
<1> QED
    BY <1>1, <1>2 DEF Viewed

LEMMA StoreUnseen ==
    ASSUME View(workflow') = View(workflow) PROVE UNCHANGED Viewed
BY DEF Viewed, View

LEMMA StoreAsks ==
    ASSUME workflow.exists, NEW spec \in WorkflowSpecs, workflow' = [workflow EXCEPT !.spec = spec],
           workflow \in WorkflowObject
    PROVE  Rounds!Next
<1>1. /\ workflow'.exists = workflow.exists /\ workflow'.deleting = workflow.deleting
      /\ workflow'.spec = spec /\ workflow'.phase = workflow.phase
      /\ workflow'.currentRound = workflow.currentRound /\ workflow'.history = workflow.history
    BY DEF WorkflowObject
<1>2. View(workflow') = [View(workflow) EXCEPT !.spec = spec]
    BY ONLY <1>1 DEF View
<1>3. Rounds!Ask("workflow", spec)
    BY <1>2, ViewSet DEF Rounds!Ask, Rounds!Set, Viewed, View
<1> QED
    BY <1>3 DEF Rounds!Next

LEMMA StoreVanishes ==
    ASSUME workflow.exists, workflow' = AbsentWorkflow PROVE Rounds!Next
<1>1. Rounds!Vanish("workflow")
    BY ViewSet, AbsentView DEF Rounds!Vanish, Rounds!Set, Viewed, View
<1> QED
    BY <1>1 DEF Rounds!Next

LEMMA StoreReports ==
    ASSUME workflow.exists, ~workflow.deleting, workflow \in WorkflowObject, NEW phase \in Phases,
           workflow' = [workflow EXCEPT !.phase = phase],
           \/ workflow.spec.round < workflow.currentRound /\ phase = "UNDO"
           \/ workflow.spec.round = workflow.currentRound /\ phase \in Phases \ {"UNDO"}
    PROVE  Rounds!Next
<1>1. /\ workflow'.exists = workflow.exists /\ workflow'.deleting = workflow.deleting
      /\ workflow'.spec = workflow.spec /\ workflow'.phase = phase
      /\ workflow'.currentRound = workflow.currentRound /\ workflow'.history = workflow.history
    BY DEF WorkflowObject
<1>2. View(workflow') = [View(workflow) EXCEPT !.phase = phase]
    BY ONLY <1>1 DEF View
<1>3. Rounds!Report("workflow", phase)
    BY <1>2, ViewSet DEF Rounds!Report, Rounds!Set, Viewed, View, Rounds!Phases, Phases
<1> QED
    BY <1>3 DEF Rounds!Next, Rounds!Phases, Phases

LEMMA StoreMovesOn ==
    ASSUME workflow.exists, ~workflow.deleting, workflow \in WorkflowObject,
           workflow.spec.round > workflow.currentRound,
           workflow' = NextRound(workflow)
    PROVE  Rounds!Next
<1>1. /\ workflow'.exists = workflow.exists /\ workflow'.deleting = workflow.deleting
      /\ workflow'.spec = workflow.spec /\ workflow'.phase = "Pending"
      /\ workflow'.currentRound = workflow.spec.round
      /\ workflow'.history = BackedUp(workflow)
    BY DEF WorkflowObject, NextRound
<1>2. Rounds!BackedUp(View(workflow)) = BackedUp(workflow)
    BY DEF Rounds!BackedUp, BackedUp, View
<1>3. View(workflow') = [View(workflow) EXCEPT !.phase = "Pending",
                                               !.history = Rounds!BackedUp(View(workflow)),
                                               !.currentRound = View(workflow).spec.round]
    <2> DEFINE backup == BackedUp(workflow)
    <2> HIDE DEF backup
    <2>1. workflow'.history = backup /\ Rounds!BackedUp(View(workflow)) = backup
        BY <1>1, <1>2 DEF backup
    <2> DEFINE phase == "Pending"
               round == workflow.spec.round
    <2>2. /\ workflow'.exists = workflow.exists /\ workflow'.deleting = workflow.deleting
          /\ workflow'.spec = workflow.spec /\ workflow'.phase = phase
          /\ workflow'.currentRound = round /\ workflow'.history = backup
        BY <1>1, <2>1
    <2> HIDE DEF phase, round
    <2> DEFINE begun == [View(workflow) EXCEPT !.phase = phase]
               archived == [begun EXCEPT !.history = backup]
    <2>3. View(workflow) = [exists |-> workflow.exists, deleting |-> workflow.deleting,
                            spec |-> workflow.spec, phase |-> workflow.phase,
                            currentRound |-> workflow.currentRound,
                            history |-> workflow.history]
        BY DEF View
    <2>4. begun = [exists |-> workflow.exists, deleting |-> workflow.deleting,
                   spec |-> workflow.spec, phase |-> phase,
                   currentRound |-> workflow.currentRound, history |-> workflow.history]
        BY ONLY <2>3
    <2> HIDE DEF begun
    <2>5. archived = [exists |-> workflow.exists, deleting |-> workflow.deleting,
                      spec |-> workflow.spec, phase |-> phase,
                      currentRound |-> workflow.currentRound, history |-> backup]
        BY ONLY <2>4
    <2> HIDE DEF archived
    <2>6. View(workflow') = [archived EXCEPT !.currentRound = round]
        BY ONLY <2>2, <2>5 DEF View
    <2>7. View(workflow') = [View(workflow) EXCEPT !.phase = phase, !.history = backup,
                                                   !.currentRound = round]
        BY <2>6 DEF archived, begun
    <2>8. round = View(workflow).spec.round
        BY DEF View, round
    <2>9. View(workflow') = [View(workflow) EXCEPT !.phase = "Pending", !.history = backup,
                                                   !.currentRound = View(workflow).spec.round]
        BY <2>7, <2>8 DEF phase
    <2> QED
        BY <2>1, <2>9
<1>4. Rounds!MoveOn("workflow", "Pending")
    <2> DEFINE backup == Rounds!BackedUp(View(workflow))
    <2> HIDE DEF backup
    <2>1. Viewed' = [Viewed EXCEPT !["workflow"] =
                        [View(workflow) EXCEPT !.phase = "Pending", !.history = backup,
                                               !.currentRound = View(workflow).spec.round]]
        BY <1>3, ViewSet DEF backup
    <2>2. /\ Viewed["workflow"] = View(workflow)
          /\ View(workflow).exists /\ ~View(workflow).deleting
          /\ View(workflow).spec.round > View(workflow).currentRound
        BY ViewSet DEF View
    <2> QED
        BY <2>1, <2>2 DEF Rounds!MoveOn, Rounds!Set, Viewed, View, backup
<1> QED
    BY <1>4 DEF Rounds!Next, Rounds!Phases

LEMMA ReconcilerMoves ==
    ASSUME EverybodyBuilds, WorkflowInv, RoundsInv, WorkflowController
    PROVE  Rounds!Next \/ UNCHANGED Viewed
<1>0. /\ WorkflowOK /\ RunOK /\ run \in RunType /\ workflow \in WorkflowObject
      /\ workflow.currentRound \in Int /\ (workflow.exists => workflow.spec.round \in Int)
    BY SpecTypes DEF WorkflowInv, WorkflowOK, RunOK, WorkflowObject, Sound
<1>1. run.fresh => /\ workflow.exists
                   /\ run.copy = [workflow EXCEPT !.phase = run.copy.phase]
                   /\ run.pc # "publish" => run.copy = workflow
    BY <1>0, CopyIsTheWorkflow DEF RoundsInv, ComposedInv
<1>2. ASSUME UNCHANGED workflow PROVE UNCHANGED Viewed
    BY <1>2, StoreUnseen DEF View
<1>3. CASE AddFinalizer \/ Base
    <2>1. workflow' \in {[workflow EXCEPT !.finalizer = TRUE], [workflow EXCEPT !.based = TRUE]}
        BY <1>1, <1>3 DEF AddFinalizer, Base, At, Store, StoreWorkflow
    <2>2. View(workflow') = View(workflow)
        BY <1>0, <2>1 DEF View, WorkflowObject
    <2> QED
        BY <2>2, StoreUnseen
<1>4. CASE DropFinalizer
    <2>1. workflow.exists /\ workflow' = AbsentWorkflow
        BY <1>1, <1>4 DEF DropFinalizer, Store, StoreWorkflow
    <2> QED
        BY <2>1, StoreVanishes
<1>5. CASE Undo
    <2>1. /\ run.fresh /\ run.copy = workflow /\ ~workflow.deleting
          /\ workflow.spec.round < workflow.currentRound
          /\ workflow' = [workflow EXCEPT !.phase = "UNDO"]
        BY <1>1, <1>5 DEF Undo, Undone, At, Store, StoreWorkflow, RoundsInv, RoutedInv
    <2> QED
        BY <1>0, <1>1, <2>1, StoreReports DEF Phases
<1>6. CASE Save
    <2>1. /\ run.fresh /\ run.copy = workflow /\ ~workflow.deleting
          /\ workflow.spec.round > workflow.currentRound
          /\ workflow' = NextRound(workflow)
        BY <1>1, <1>6 DEF Save, At, Store, StoreWorkflow, RoundsInv, RoutedInv
    <2> QED
        BY <1>0, <1>1, <2>1, StoreMovesOn
<1>7. CASE Publish
    <2> DEFINE phase == run.copy.phase
    <2>1. CASE ~run.fresh
        BY <1>2, <1>7, <2>1 DEF Publish, workflowVars
    <2>2. CASE run.fresh
        <3>1. /\ workflow' = [workflow EXCEPT !.phase = phase]
              /\ ~run.copy.deleting /\ run.copy.spec.round = run.copy.currentRound
              /\ phase = "UNDO" => workflow.phase = "UNDO"
            BY <1>1, <1>7, <2>2
               DEF Publish, StoreWorkflow, At, RoundsInv, RoutedInv, ComposedInv
        <3>2. ~workflow.deleting /\ workflow.spec.round = workflow.currentRound /\ phase \in Phases
            BY <1>0, <2>2, <3>1, CopyIsTheWorkflow DEF WorkflowObject
        <3> HIDE DEF phase
        <3>3. CASE phase = "UNDO"
            <4>1. workflow' = workflow
                BY <1>0, <3>1, <3>3 DEF WorkflowObject
            <4> QED
                BY <1>2, <4>1
        <3>4. CASE phase # "UNDO"
            BY <1>0, <1>1, <2>2, <3>1, <3>2, <3>4, StoreReports
        <3> QED
            BY <3>3, <3>4
    <2> QED
        BY <2>1, <2>2
<1>8. CASE \/ Get \/ Conflict \/ ApplyBuilder \/ ApplyDeployer \/ GenerateFails
           \/ GetBuilder \/ GetDeployer
    <2>1. UNCHANGED workflow
        BY <1>8 DEF Get, Conflict, ApplyBuilder, ApplyDeployer, GenerateFails, GetBuilder,
                    GetDeployer, workflowVars
    <2> QED
        BY <1>2, <2>1
<1> QED
    BY <1>3, <1>4, <1>5, <1>6, <1>7, <1>8 DEF WorkflowController

LEMMA UserMoves ==
    ASSUME WorkflowInv, WorkflowUser PROVE Rounds!Next
<1>0. workflow \in WorkflowObject
    BY DEF WorkflowInv, WorkflowOK
<1>1. ASSUME NEW spec \in WorkflowSpecs, CreateWorkflow(spec) PROVE Rounds!Next
    <2>1. /\ ~workflow.exists
          /\ workflow' = [AbsentWorkflow EXCEPT !.exists = TRUE, !.spec = spec]
        BY <1>1 DEF CreateWorkflow, WriteFromOutside, StoreWorkflow
    <2>2. View(workflow') = Rounds!New(spec)
        BY <2>1, AbsentView
    <2>3. Rounds!Appear("workflow", spec)
        BY <2>1, <2>2, ViewSet DEF Rounds!Appear, Rounds!Set, View
    <2> QED
        BY <2>3 DEF Rounds!Next
<1>2. ASSUME NEW spec \in WorkflowSpecs, EditWorkflow(spec) PROVE Rounds!Next
    <2>1. workflow.exists /\ workflow' = [workflow EXCEPT !.spec = spec]
        BY <1>2 DEF EditWorkflow, WriteFromOutside, StoreWorkflow
    <2> QED
        BY <1>0, <2>1, StoreAsks
<1>3. CASE DeleteWorkflow
    <2>1. /\ workflow.exists
          /\ workflow' = [workflow EXCEPT !.deleting = TRUE] \/ workflow' = AbsentWorkflow
        BY <1>3 DEF DeleteWorkflow, WriteFromOutside, StoreWorkflow
    <2>2. ASSUME workflow' = [workflow EXCEPT !.deleting = TRUE] PROVE Rounds!Next
        <3> DEFINE asked == TRUE
        <3>1. /\ workflow'.exists = workflow.exists /\ workflow'.deleting = asked
              /\ workflow'.spec = workflow.spec /\ workflow'.phase = workflow.phase
              /\ workflow'.currentRound = workflow.currentRound
              /\ workflow'.history = workflow.history
            BY <1>0, <2>2 DEF WorkflowObject
        <3> HIDE DEF asked
        <3>2. View(workflow') = [View(workflow) EXCEPT !.deleting = asked]
            BY ONLY <3>1 DEF View
        <3>3. View(workflow') = [View(workflow) EXCEPT !.deleting = TRUE]
            BY <3>2 DEF asked
        <3>4. Rounds!AskToVanish("workflow")
            BY <2>1, <3>3, ViewSet DEF Rounds!AskToVanish, Rounds!Set, Viewed, View
        <3> QED
            BY <3>4 DEF Rounds!Next
    <2> QED
        BY <2>1, <2>2, StoreVanishes
<1> QED
    BY <1>1, <1>2, <1>3 DEF WorkflowUser

LEMMA NextMoves ==
    EverybodyBuilds /\ WorkflowInv /\ RoundsInv /\ [Next]_vars => [Rounds!Next]_Viewed
<1> SUFFICES ASSUME EverybodyBuilds, WorkflowInv, RoundsInv, [Next]_vars
             PROVE  Rounds!Next \/ UNCHANGED Viewed
    OBVIOUS
<1>1. WorkflowController \/ WorkflowUser \/ UNCHANGED workflow
    BY DEF Next, SyncWorkflow, CollectGarbage, Restart, Resync, MovePod, BuilderController,
           BuilderMovesOn, BuilderUndone, StartsBuild, BuilderReports, HookRuns, BuildIsDone,
           WriteBuilder, DeployerController, DeployerMovesOn, DeployerUndone, Deploys,
           DeployerReports, WriteDeployer, vars, workflowVars
<1>2. UNCHANGED workflow => UNCHANGED Viewed
    BY StoreUnseen DEF View
<1> QED
    BY <1>1, <1>2, ReconcilerMoves, UserMoves

\* Where all workflows build: from however stale a copy it is computed, a write of
\* the reconciler moves a workflow exactly to the round asked for at that moment and
\* archives the round that ends; and the status that it composes of those of
\* builder and deployer, read one after the other, is never the UNDO that one of
\* them has of an earlier round.
THEOREM WorkflowsImplementRounds == EverybodyBuilds /\ Spec => ImplementsRounds
<1>1. Init => Rounds!Init
    BY AbsentView DEF Init, Rounds!Init, View
<1>2. Init => RoundsInv
    BY IdleType, AbsentWorkflowType DEF Init, RoundsInv, RoutedInv, ComposedInv
<1>3. EverybodyBuilds /\ WorkflowInv /\ RoundsInv /\ [Next]_vars => RoundsInv'
    BY RoutedKept, ComposedKept DEF RoundsInv, WorkflowInv
<1>4. EverybodyBuilds => EverybodyBuilds'
    BY DEF EverybodyBuilds
<1>5. Viewed = [n \in {"workflow"} |->
                   [exists |-> workflow.exists, deleting |-> workflow.deleting,
                    spec |-> workflow.spec, phase |-> workflow.phase,
                    currentRound |-> workflow.currentRound, history |-> workflow.history]]
    BY DEF Viewed, View
<1> QED
    BY <1>1, <1>2, <1>3, <1>4, NextMoves, WorkflowInvariant, PTL
    DEF Spec, ImplementsRounds, Rounds!Spec, Viewed, View

-----------------------------------------------------------------------------
(* Whatever is built or not: how the rounds of a workflow are recorded. *)

\* A reconciliation whose copy is current has the status of the workflow, too, until
\* it composes another.
CopyInv == run.fresh /\ run.pc # "publish" => run.copy = workflow

LEMMA CopyKept ==
    ASSUME WorkflowInv, CopyInv, [Next]_vars PROVE CopyInv'
<1>0. run \in RunType /\ workflow \in WorkflowObject
    BY DEF WorkflowInv, WorkflowOK, RunOK
<1>1. ASSUME run' = Idle PROVE CopyInv'
    BY <1>1, IdleType DEF CopyInv
<1>2. ASSUME UNCHANGED <<workflow, run>> PROVE CopyInv'
    BY <1>2 DEF CopyInv
<1>3. CASE Get
    BY <1>1, <1>3, IdleType DEF Get, CopyInv, WorkflowInv, WorkflowOK, workflowVars, RunType
<1>4. CASE AddFinalizer
    <2> DEFINE object == [run.copy EXCEPT !.finalizer = TRUE]
    <2>1. workflow' = object /\ run' = [run EXCEPT !.pc = Route(object), !.copy = object]
        BY <1>4 DEF AddFinalizer, Store, StoreWorkflow
    <2> HIDE DEF object
    <2> QED
        BY <1>0, <2>1 DEF CopyInv, RunType
<1>5. CASE ApplyBuilder \/ ApplyDeployer \/ GetBuilder
    <2>1. /\ UNCHANGED workflow /\ run.pc # "publish"
          /\ run'.copy = run.copy /\ run'.fresh = run.fresh
        BY <1>0, <1>5 DEF ApplyBuilder, ApplyDeployer, GetBuilder, At, RunType, workflowVars
    <2> QED
        BY <2>1 DEF CopyInv
<1>6. CASE GetDeployer
    <2>1. run' = Idle \/ run'.pc = "publish"
        BY <1>0, <1>6 DEF GetDeployer, Return, RunType
    <2> QED
        BY <1>1, <2>1 DEF CopyInv
<1>7. CASE Conflict \/ DropFinalizer \/ Base \/ GenerateFails \/ Undo \/ Save \/ Publish \/ Restart
    BY <1>1, <1>7 DEF Conflict, DropFinalizer, Base, GenerateFails, Undo, Save, Publish, Return,
                      Restart
<1>8. CASE WorkflowUser
    <2>1. ASSUME NEW object, WriteFromOutside(object)
          PROVE  UNCHANGED <<workflow, run>> \/ run' = [run EXCEPT !.fresh = FALSE]
        BY <2>1 DEF WriteFromOutside, StoreWorkflow
    <2>2. UNCHANGED <<workflow, run>> \/ run' = [run EXCEPT !.fresh = FALSE]
        BY <1>8, <2>1 DEF WorkflowUser, CreateWorkflow, EditWorkflow, DeleteWorkflow
    <2> QED
        BY <1>0, <1>2, <2>2 DEF CopyInv, RunType
<1>9. CASE BuilderController \/ DeployerController
    BY <1>2, <1>9 DEF BuilderController, BuilderMovesOn, BuilderUndone, StartsBuild,
                      BuilderReports, HookRuns, BuildIsDone, WriteBuilder, DeployerController,
                      DeployerMovesOn, DeployerUndone, Deploys, DeployerReports, WriteDeployer,
                      workflowVars
<1>10. CASE SyncWorkflow \/ CollectGarbage \/ Resync \/ (\E w \in DOMAIN work : MovePod(w))
            \/ UNCHANGED vars
    BY <1>2, <1>10 DEF SyncWorkflow, CollectGarbage, Resync, MovePod, vars, workflowVars
<1> QED
    BY <1>3, <1>4, <1>5, <1>6, <1>7, <1>8, <1>9, <1>10 DEF Next, WorkflowController

RoundKept ==
    workflow'.currentRound = workflow.currentRound /\ workflow'.history = workflow.history

MovesOn ==
    /\ workflow.exists /\ ~workflow.deleting
    /\ workflow.spec.round > workflow.currentRound
    /\ workflow' = NextRound(workflow)

\* A step keeps the round and the history of a workflow, or begins the round asked
\* for by the spec that the server has at that moment, which is a later one, and
\* archives the round that ends with the status that was shown last.
RoundsAreExact == [][workflow.exists /\ workflow'.exists => RoundKept \/ MovesOn]_vars

\* What a step makes of the round and the history.
LEMMA RoundsStep ==
    ASSUME WorkflowInv, RoutedInv, CopyInv, [Next]_vars
    PROVE  \/ RoundKept
           \/ MovesOn
           \/ workflow' = AbsentWorkflow
           \/ ~workflow.exists /\ workflow'.currentRound = 0 /\ workflow'.history = <<>>
<1>0. /\ WorkflowOK /\ RunOK /\ run \in RunType /\ workflow \in WorkflowObject
      /\ run.copy \in WorkflowObject
    BY DEF WorkflowInv, WorkflowOK, RunOK, RunType
<1>1. ASSUME UNCHANGED workflow PROVE RoundKept
    BY <1>1 DEF RoundKept
<1>2. CASE AddFinalizer \/ Base \/ Undo \/ Publish
    <2>1. \/ UNCHANGED workflow
          \/ run.fresh /\ workflow' \in {[run.copy EXCEPT !.finalizer = TRUE],
                                         [run.copy EXCEPT !.based = TRUE],
                                         [run.copy EXCEPT !.phase = "UNDO"], run.copy}
        BY <1>2 DEF AddFinalizer, Base, Undo, Undone, Publish, Store, StoreWorkflow, workflowVars
    <2>2. CASE UNCHANGED workflow
        BY <1>1, <2>2
    <2>3. CASE run.fresh /\ workflow' \in {[run.copy EXCEPT !.finalizer = TRUE],
                                           [run.copy EXCEPT !.based = TRUE],
                                           [run.copy EXCEPT !.phase = "UNDO"], run.copy}
        <3>1. /\ workflow'.currentRound = run.copy.currentRound
              /\ workflow'.history = run.copy.history
            BY <1>0, <2>3 DEF WorkflowObject
        <3> QED
            BY <1>0, <2>3, <3>1, CopyIsTheWorkflow DEF RoundKept
    <2> QED
        BY <2>1, <2>2, <2>3
<1>3. CASE DropFinalizer
    BY <1>3 DEF DropFinalizer, Store, StoreWorkflow
<1>4. CASE Save
    <2>1. /\ run.fresh /\ run.copy = workflow /\ ~workflow.deleting
          /\ workflow.spec.round > workflow.currentRound
          /\ workflow' = NextRound(workflow)
        BY <1>4 DEF Save, At, Store, StoreWorkflow, RoutedInv, CopyInv
    <2> QED
        BY <1>0, <2>1, CopyIsTheWorkflow DEF MovesOn
<1>5. CASE WorkflowUser
    <2>1. ASSUME NEW spec \in WorkflowSpecs, CreateWorkflow(spec)
          PROVE  ~workflow.exists /\ workflow'.currentRound = 0 /\ workflow'.history = <<>>
        BY <2>1 DEF CreateWorkflow, WriteFromOutside, StoreWorkflow, AbsentWorkflow
    <2>2. ASSUME NEW spec \in WorkflowSpecs, EditWorkflow(spec) PROVE RoundKept
        BY <1>0, <2>2
           DEF EditWorkflow, WriteFromOutside, StoreWorkflow, RoundKept, WorkflowObject
    <2>3. CASE DeleteWorkflow
        BY <1>0, <2>3
           DEF DeleteWorkflow, WriteFromOutside, StoreWorkflow, RoundKept, WorkflowObject
    <2> QED
        BY <1>5, <2>1, <2>2, <2>3 DEF WorkflowUser
<1>6. CASE \/ Get \/ Conflict \/ ApplyBuilder \/ ApplyDeployer \/ GenerateFails
           \/ GetBuilder \/ GetDeployer \/ BuilderController \/ DeployerController
           \/ SyncWorkflow \/ CollectGarbage \/ Restart \/ Resync
           \/ (\E w \in DOMAIN work : MovePod(w)) \/ UNCHANGED vars
    <2>1. UNCHANGED workflow
        BY <1>6 DEF Get, Conflict, ApplyBuilder, ApplyDeployer, GenerateFails, GetBuilder,
                    GetDeployer, SyncWorkflow, CollectGarbage, Restart, Resync, MovePod,
                    BuilderController, BuilderMovesOn, BuilderUndone, StartsBuild,
                    BuilderReports, HookRuns, BuildIsDone, WriteBuilder, DeployerController,
                    DeployerMovesOn, DeployerUndone, Deploys, DeployerReports, WriteDeployer,
                    vars, workflowVars
    <2> QED
        BY <1>1, <2>1
<1> QED
    BY <1>2, <1>3, <1>4, <1>5, <1>6 DEF Next, WorkflowController

LEMMA RoutedAndCopied == Spec => [](WorkflowInv /\ RoutedInv /\ CopyInv)
<1>1. Init => RoutedInv /\ CopyInv
    BY IdleType DEF Init, RoutedInv, CopyInv
<1>2. WorkflowInv /\ RoutedInv /\ CopyInv /\ [Next]_vars => RoutedInv' /\ CopyInv'
    BY RoutedKept, CopyKept DEF WorkflowInv
<1> QED
    BY <1>1, <1>2, WorkflowInvariant, PTL DEF Spec

\* Of however old a spec the reconciler has generated builder and deployer: the round
\* that it records is the one asked for at that moment.  This half of the promise of
\* RoundLedger needs no build stage.
THEOREM RecordedRoundsAreExact == Spec => RoundsAreExact
<1>1. WorkflowInv /\ RoutedInv /\ CopyInv /\ [Next]_vars =>
          (workflow.exists /\ workflow'.exists => RoundKept \/ MovesOn)
    BY RoundsStep, AbsentWorkflowType
<1> QED
    BY <1>1, RoutedAndCopied, PTL DEF Spec, RoundsAreExact

\* The history of RoundLedger, read off the workflow.
Ledger == INSTANCE RoundLedgerProofs WITH
    Names <- {"workflow"},
    Specs <- WorkflowSpecs,
    rounds <- Viewed

HistoryInOrder == Ledger!Ordered(workflow.history, workflow.currentRound)

LEMMA NextRoundIsOrdered ==
    ASSUME workflow \in WorkflowObject, workflow.spec \in WorkflowSpecs,
           workflow.spec.round > workflow.currentRound, HistoryInOrder,
           workflow' = NextRound(workflow)
    PROVE  HistoryInOrder'
<1> DEFINE object == View(workflow)
           next == workflow.spec.round
<1>1. Ledger!Entry = HistoryEntry /\ Ledger!Phases = Phases
    BY DEF Ledger!Entry, HistoryEntry, Ledger!Phases, Phases
<1>2. /\ object \in Ledger!Object
      /\ object.spec = workflow.spec /\ object.history = workflow.history
      /\ object.currentRound = workflow.currentRound
    BY <1>1 DEF View, WorkflowObject, Ledger!Object
<1>3. next \in Int
    BY SpecTypes
<1>4. Ledger!BackedUp(object) = BackedUp(workflow)
    BY DEF Ledger!BackedUp, BackedUp, View
<1>5. workflow'.history = BackedUp(workflow) /\ workflow'.currentRound = next
    BY DEF NextRound, WorkflowObject
<1> HIDE DEF object, next
<1>6. Ledger!Ordered(Ledger!BackedUp(object), next)
    BY <1>2, <1>3, Ledger!ArchiveIsOrdered DEF HistoryInOrder, next
<1> QED
    BY <1>4, <1>5, <1>6 DEF HistoryInOrder, Ledger!Ordered

\* The history of a workflow lists its rounds in increasing order, each once and
\* before the current one, however often a generation was cut short and repeated and
\* whether or not there is a build stage.
THEOREM WorkflowHistoriesAreOrdered == Spec => []HistoryInOrder
<1>1. ASSUME NEW object, object.history = <<>>
      PROVE  Ledger!Ordered(object.history, object.currentRound)
    BY <1>1 DEF Ledger!Ordered
<1>2. Init => HistoryInOrder
    BY <1>1 DEF Init, AbsentWorkflow, HistoryInOrder
<1>3. WorkflowInv /\ RoutedInv /\ CopyInv /\ HistoryInOrder /\ [Next]_vars => HistoryInOrder'
    <2> SUFFICES ASSUME WorkflowInv, RoutedInv, CopyInv, HistoryInOrder, [Next]_vars
                 PROVE  HistoryInOrder'
        OBVIOUS
    <2>1. CASE RoundKept
        BY <2>1 DEF RoundKept, HistoryInOrder, Ledger!Ordered
    <2>2. CASE MovesOn
        BY <2>2, NextRoundIsOrdered DEF MovesOn, WorkflowInv, WorkflowOK, Sound
    <2>3. CASE workflow'.history = <<>>
        BY <2>3 DEF HistoryInOrder, Ledger!Ordered
    <2>4. AbsentWorkflow.history = <<>>
        BY DEF AbsentWorkflow
    <2> QED
        BY <2>1, <2>2, <2>3, <2>4, RoundsStep
<1> QED
    BY <1>2, <1>3, RoutedAndCopied, PTL DEF Spec
=============================================================================
