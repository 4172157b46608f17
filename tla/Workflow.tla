------------------------------ MODULE Workflow ------------------------------
(***************************************************************************)
(* A workflow and the builder and deployer that it generates under its own *)
(* name: WorkflowReconciler.Reconcile with every call it makes that        *)
(* changes state, in detail; builder and deployer as RoundLedger describes *)
(* them (they move to the round they are asked for and report for it), and *)
(* the hook of the builder step by step, because a workflow may write      *)
(* between the steps.                                                      *)
(*                                                                         *)
(* Of images only their origin is kept.  All specs are complete: no        *)
(* pointer that GenerateWorkload follows is nil.  The workflow reads       *)
(* builder and deployer as they are; only its own copy may be stale.       *)
(***************************************************************************)
EXTENDS CommonStatus

CONSTANTS
    WorkflowSpecs,  \* the specs users may give the workflow
    None,
    WorkflowsLag,   \* TRUE: the cached copy of the workflow may be out of date
    UsersReturn     \* TRUE: users may ask again for the round reached, after another

Types == {"job", "service"}

ASSUME WorkflowAssumption ==
    /\ WorkflowSpecs \subseteq [round : Int \ {0}, build : BOOLEAN, type : Types]
    /\ None \notin WorkflowSpecs /\ None \notin Phases
    /\ {WorkflowsLag, UsersReturn} \subseteq BOOLEAN

VARIABLES
    workflow,       \* the workflow in the API server
    workflowCache, workflowFresh,   \* as in Deployer: cache and version
    queued,         \* whether the workflow's key is in the work queue
    run,            \* the reconciliation in progress
    builder, deployer,              \* what the workflow has generated
    hook,           \* the builder's hook in progress
    work            \* jobs and stateful sets, by type and round

workflowVars == <<workflow, workflowCache, workflowFresh>>
vars == <<workflowVars, queued, run, builder, deployer, hook, work>>

RoundNumbers == {s.round : s \in WorkflowSpecs} \cup {0}

HistoryEntry == [round : Int, phase : Phases, spec : WorkflowSpecs]

\* `based`: Status.Base is not nil any more.
WorkflowObject ==
    [exists : BOOLEAN, deleting : BOOLEAN, finalizer : BOOLEAN, based : BOOLEAN,
     spec : WorkflowSpecs \cup {None}, phase : Phases, currentRound : Int,
     history : Seq(HistoryEntry)]

AbsentWorkflow ==
    [exists |-> FALSE, deleting |-> FALSE, finalizer |-> FALSE, based |-> FALSE,
     spec |-> None, phase |-> "", currentRound |-> 0, history |-> <<>>]

BuilderObject == [exists : BOOLEAN, round : Int, phase : Phases, currentRound : Int]

AbsentBuilder ==
    [exists |-> FALSE, round |-> 0, phase |-> "", currentRound |-> 0]

\* "built" is what a builder hands over, "base" comes with the spec, "fake" is a
\* placeholder.  (The destination, new in each generation, is left out.)
Images == {"none", "built", "base", "fake"}

\* `from`: the round of the workflow's spec that the rest of the deployer's spec
\* (containers, ports, resources) was generated from.  Hooks leave it alone.
DeployerObject ==
    [exists : BOOLEAN, round : Int, type : Types, from : Int, image : Images,
     phase : Phases, currentRound : Int]

AbsentDeployer ==
    [exists |-> FALSE, round |-> 0, type |-> "job", from |-> 0, image |-> "none",
     phase |-> "", currentRound |-> 0]

\* Builder and deployer have the same name, and so have their jobs of a round:
\* <name>-<round>.  The image tells them apart: a build job has none.
\* Of the pod its status is kept, until nobody reads it any more ("left").
Workload == [pod : {"none", "Pending", "Doing", "Done", "Failed", "left"}, image : Images]

NoWorkload == [pod |-> "none", image |-> "none"]

NoWork == [w \in Types \X RoundNumbers |-> NoWorkload]

NoHook == [pc |-> "none", round |-> 0, fresh |-> FALSE]

Idle == [pc |-> "idle", copy |-> AbsentWorkflow, fresh |-> FALSE, seen |-> None]

PCs == {"idle", "dropFinalizer", "addFinalizer", "base", "builder", "deployer", "save",
        "getBuilder", "getDeployer", "publish"}

Init ==
    /\ workflow = AbsentWorkflow
    /\ workflowCache = workflow
    /\ workflowFresh = TRUE
    /\ queued = FALSE
    /\ run = Idle
    /\ builder = AbsentBuilder
    /\ deployer = AbsentDeployer
    /\ hook = NoHook
    /\ work = NoWork

-----------------------------------------------------------------------------
(* The API server, the cache and the users. *)

At(pc) == run.pc = pc

StoreWorkflow(object) ==
    /\ workflow' = object
    /\ workflowCache' = IF WorkflowsLag THEN workflowCache ELSE object
    /\ workflowFresh' = (WorkflowsLag => workflowFresh /\ object = workflow)

Woken(object) == ~WorkflowsLag /\ object # workflow

SyncWorkflow ==
    /\ ~workflowFresh
    /\ workflowCache' = workflow
    /\ workflowFresh' = TRUE
    /\ queued' = TRUE
    /\ UNCHANGED <<workflow, run, builder, deployer, hook, work>>

WriteFromOutside(object) ==
    /\ StoreWorkflow(object)
    /\ queued' = (queued \/ Woken(object))
    /\ run' = IF object # workflow THEN [run EXCEPT !.fresh = FALSE] ELSE run
    /\ UNCHANGED <<builder, deployer, hook, work>>

\* The name is used again only after everything of it has been collected.
CreateWorkflow(spec) ==
    /\ ~workflow.exists
    /\ ~builder.exists /\ ~deployer.exists /\ work = NoWork
    /\ WriteFromOutside([AbsentWorkflow EXCEPT !.exists = TRUE, !.spec = spec])

EditWorkflow(spec) ==
    /\ workflow.exists
    /\ ~workflow.deleting
    /\ spec # workflow.spec
    /\ UsersReturn \/ spec.round # workflow.currentRound
    /\ WriteFromOutside([workflow EXCEPT !.spec = spec])

DeleteWorkflow ==
    /\ workflow.exists
    /\ ~workflow.deleting
    /\ WriteFromOutside(IF workflow.finalizer
                          THEN [workflow EXCEPT !.deleting = TRUE]
                          ELSE AbsentWorkflow)

WorkflowUser ==
    \/ \E spec \in WorkflowSpecs : CreateWorkflow(spec) \/ EditWorkflow(spec)
    \/ DeleteWorkflow

\* Builder and deployer are owned by the workflow, their workloads by them:
\* when it is gone they are collected, and work on until then.
CollectGarbage ==
    /\ ~workflow.exists
    /\ builder.exists \/ deployer.exists \/ work # NoWork
    /\ builder' = AbsentBuilder
    /\ deployer' = AbsentDeployer
    /\ hook' = NoHook
    /\ work' = NoWork
    /\ UNCHANGED <<workflowVars, queued, run>>

\* The pod of a workload gets on; that of a service does not succeed and is
\* replaced when it fails.
MovePod(w) ==
    /\ \E pod \in {"Pending", "Doing", "Done", "Failed"} :
           /\ <<work[w].pod, pod>> \in
                  {<<"Pending", "Doing">>, <<"Pending", "Failed">>, <<"Doing", "Failed">>,
                   IF w[1] = "job" THEN <<"Doing", "Done">> ELSE <<"Failed", "Pending">>}
           /\ work' = [work EXCEPT ![w].pod = pod]
    /\ UNCHANGED <<workflowVars, queued, run, builder, deployer, hook>>

-----------------------------------------------------------------------------
(* The reconciliation of the workflow. *)

Generates(object) == object.spec.round # object.currentRound

Route(object) ==
    CASE object.deleting /\ object.finalizer -> "dropFinalizer"
      [] object.deleting /\ ~object.finalizer -> "idle"
      [] ~object.deleting /\ ~object.finalizer -> "addFinalizer"
      [] OTHER -> IF ~object.based THEN "base"
                  ELSE IF ~Generates(object) THEN "getBuilder"
                  ELSE IF object.spec.build THEN "builder"
                  ELSE "deployer"

Return(requeue) ==
    /\ run' = Idle
    /\ queued' = (queued \/ requeue)

Store(object) == run.fresh /\ StoreWorkflow(object)

Get ==
    LET seen == workflowCache IN
    /\ At("idle")
    /\ queued
    /\ queued' = FALSE
    /\ run' = IF seen.exists /\ Route(seen) # "idle"
                THEN [Idle EXCEPT !.pc = Route(seen), !.copy = seen, !.fresh = workflowFresh]
                ELSE Idle
    /\ UNCHANGED <<workflowVars, builder, deployer, hook, work>>

\* An Update or Status().Update whose error the handler returns.
Conflict ==
    /\ run.pc \in {"dropFinalizer", "addFinalizer", "base", "save"}
    /\ ~run.fresh
    /\ Return(TRUE)
    /\ UNCHANGED <<workflowVars, builder, deployer, hook, work>>

\* finalizeWorkflow does nothing: deletion goes on with the finalizer.
DropFinalizer ==
    /\ At("dropFinalizer")
    /\ Store(AbsentWorkflow)
    /\ Return(Woken(AbsentWorkflow))
    /\ UNCHANGED <<builder, deployer, hook, work>>

AddFinalizer ==
    LET object == [run.copy EXCEPT !.finalizer = TRUE] IN
    /\ At("addFinalizer")
    /\ Store(object)
    /\ run' = [run EXCEPT !.pc = Route(object), !.copy = object]
    /\ queued' = (queued \/ Woken(object))
    /\ UNCHANGED <<builder, deployer, hook, work>>

Base ==
    /\ At("base")
    /\ Store([run.copy EXCEPT !.based = TRUE])
    /\ Return(TRUE)
    /\ UNCHANGED <<builder, deployer, hook, work>>

-----------------------------------------------------------------------------
(* GenerateWorkload, for any round but the recorded one. *)

\* The update leaves the status as it is.
NewBuilder(spec) ==
    [builder EXCEPT !.exists = TRUE, !.round = spec.round]

\* Mutant: a builder that exists is left as it is.
ApplyBuilderOnce ==
    /\ At("builder")
    /\ builder' = IF builder.exists THEN builder ELSE NewBuilder(run.copy.spec)
    /\ hook' = [hook EXCEPT !.fresh = FALSE]
    /\ run' = [run EXCEPT !.pc = "deployer"]
    /\ UNCHANGED <<workflowVars, queued, deployer, work>>

\* CreateResource with `update`: created, or written over the newest version.
ApplyBuilder ==
    /\ At("builder")
    /\ builder' = NewBuilder(run.copy.spec)
    /\ hook' = [hook EXCEPT !.fresh = FALSE]
    /\ run' = [run EXCEPT !.pc = "deployer"]
    /\ UNCHANGED <<workflowVars, queued, deployer, work>>

\* Mutant: the deployer is asked for the round before it has an image.
NewDeployerAtOnce(spec) ==
    [deployer EXCEPT !.exists = TRUE, !.type = spec.type, !.from = spec.round,
                     !.round = spec.round,
                     !.image = IF spec.build THEN "fake" ELSE "base"]

\* With a build stage the round stays out, for which the API server puts -1.
NewDeployer(spec) ==
    [deployer EXCEPT !.exists = TRUE, !.type = spec.type, !.from = spec.round,
                     !.round = IF spec.build THEN -1 ELSE spec.round,
                     !.image = IF spec.build THEN "fake" ELSE "base"]

\* Mutant: a deployer that exists is left as it is.
ApplyDeployerOnce ==
    /\ At("deployer")
    /\ deployer' = IF deployer.exists THEN deployer ELSE NewDeployer(run.copy.spec)
    /\ run' = [run EXCEPT !.pc = "save"]
    /\ UNCHANGED <<workflowVars, queued, builder, hook, work>>

ApplyDeployer ==
    /\ At("deployer")
    /\ deployer' = NewDeployer(run.copy.spec)
    /\ run' = [run EXCEPT !.pc = "save"]
    /\ UNCHANGED <<workflowVars, queued, builder, hook, work>>

\* The retries are used up, or the API server refuses.
GenerateFails ==
    /\ run.pc \in {"builder", "deployer"}
    /\ Return(TRUE)
    /\ UNCHANGED <<workflowVars, builder, deployer, hook, work>>

\* The status that follows: UNDO for an earlier round, which nothing wakes the
\* reconciler for any more, or the new round, the last one archived.
Undone(object) == [object EXCEPT !.phase = "UNDO"]

NextRound(object) ==
    [object EXCEPT !.history = BackedUp(object), !.phase = "Pending",
                   !.currentRound = object.spec.round]

Undo ==
    LET object == Undone(run.copy) IN
    /\ At("save")
    /\ run.copy.spec.round < run.copy.currentRound
    /\ Store(object)
    /\ Return(Woken(object))
    /\ UNCHANGED <<builder, deployer, hook, work>>

Save ==
    /\ At("save")
    /\ run.copy.spec.round > run.copy.currentRound
    /\ Store(NextRound(run.copy))
    /\ Return(TRUE)
    /\ UNCHANGED <<builder, deployer, hook, work>>

-----------------------------------------------------------------------------
(* In the recorded round: the status is composed of those of the builder, if *)
(* there is one, and the deployer, read one after the other.                 *)

GetBuilder ==
    /\ At("getBuilder")
    /\ run' = [run EXCEPT !.pc = "getDeployer",
                          !.seen = IF builder.exists THEN builder.phase ELSE None]
    /\ UNCHANGED <<workflowVars, queued, builder, deployer, hook, work>>

\* Mutant: a workflow that is done or has failed stays so.
ComposedOnce(phase, built, deployed) ==
    CASE HashDone(phase) -> phase
      [] ~HashDone(phase) /\ built = None -> deployed
      [] ~HashDone(phase) /\ built = "Doing" -> "Doing"
      [] ~HashDone(phase) /\ built # None /\ HashDone(built) ->
             IF HasStarted(deployed) THEN deployed ELSE "Doing"
      [] OTHER -> phase

\* Mutant: the status of a deployer that has not been started is taken, too.
ComposedUnstarted(phase, built, deployed) ==
    CASE built = None -> deployed
      [] built = "Doing" -> "Doing"
      [] built # None /\ HashDone(built) -> deployed
      [] OTHER -> phase

Composed(phase, built, deployed) ==
    CASE built = None -> deployed
      [] built = "Doing" -> "Doing"
      [] built # None /\ HashDone(built) -> IF HasStarted(deployed) THEN deployed ELSE "Doing"
      [] OTHER -> phase

GetDeployer ==
    LET phase == Composed(run.copy.phase, run.seen, deployer.phase) IN
    /\ At("getDeployer")
    /\ IF deployer.exists
         THEN /\ run' = [run EXCEPT !.pc = "publish", !.copy = [@ EXCEPT !.phase = phase]]
              /\ UNCHANGED queued
         ELSE Return(TRUE)
    /\ UNCHANGED <<workflowVars, builder, deployer, hook, work>>

\* Mutant: a workflow that is done or has failed is not looked at again.
PublishUntilDone ==
    /\ At("publish")
    /\ IF run.fresh THEN StoreWorkflow(run.copy) ELSE UNCHANGED workflowVars
    /\ run' = Idle
    /\ queued' = (queued \/ ~HashDone(run.copy.phase) \/ (run.fresh /\ Woken(run.copy)))
    /\ UNCHANGED <<builder, deployer, hook, work>>

\* PublishStatus; a conflict is logged and otherwise ignored.
Publish ==
    /\ At("publish")
    /\ IF run.fresh THEN StoreWorkflow(run.copy) ELSE UNCHANGED workflowVars
    /\ Return(TRUE)
    /\ UNCHANGED <<builder, deployer, hook, work>>

WorkflowController ==
    \/ Get \/ Conflict \/ DropFinalizer \/ AddFinalizer \/ Base
    \/ ApplyBuilder \/ ApplyDeployer \/ GenerateFails \/ Undo \/ Save
    \/ GetBuilder \/ GetDeployer \/ Publish

-----------------------------------------------------------------------------
(* The builder: MoveOn and Report of RoundLedger, its job, and its hook. *)

WriteBuilder(object) ==
    /\ builder' = object
    /\ hook' = [hook EXCEPT !.fresh = (@ /\ object = builder)]
    /\ UNCHANGED <<workflowVars, queued, run, deployer>>

BuildJob == <<"job", builder.currentRound>>

BuilderMovesOn ==
    /\ builder.exists /\ hook.pc = "none"
    /\ builder.round > builder.currentRound
    /\ WriteBuilder([builder EXCEPT !.currentRound = builder.round, !.phase = "Pending"])
    /\ work' = [work EXCEPT ![BuildJob] = NoWorkload]

BuilderUndone ==
    /\ builder.exists /\ hook.pc = "none"
    /\ builder.round < builder.currentRound
    /\ builder.phase # "UNDO"
    /\ WriteBuilder([builder EXCEPT !.phase = "UNDO"])
    /\ UNCHANGED work

StartsBuild ==
    /\ builder.exists /\ hook.pc = "none"
    /\ builder.round = builder.currentRound
    /\ work[BuildJob] = NoWorkload
    /\ WriteBuilder([builder EXCEPT !.phase = "Pending"])
    /\ work' = [work EXCEPT ![BuildJob] = [pod |-> "Pending", image |-> "none"]]

\* The pod's phase is the status, but before the build is Done its hook runs,
\* with the round of the builder as it was read.
BuilderReports ==
    LET seen == work[BuildJob].pod IN
    /\ builder.exists /\ hook.pc = "none"
    /\ builder.round = builder.currentRound
    /\ work[BuildJob] # NoWorkload
    /\ seen # builder.phase
    /\ IF seen = "Done"
         THEN /\ hook' = [pc |-> "trigger", round |-> builder.round, fresh |-> TRUE]
              /\ UNCHANGED <<workflowVars, queued, run, builder, deployer>>
         ELSE WriteBuilder([builder EXCEPT !.phase = seen])
    /\ UNCHANGED work

\* Mutant: the hook asks for the next round of the deployer.
TriggeredNext == [deployer EXCEPT !.round = deployer.currentRound + 1, !.image = "built"]

\* newBuilder gives its one hook ForceRound and DynamicImage.
Triggered == [deployer EXCEPT !.round = hook.round, !.image = "built"]

HookRuns ==
    /\ hook.pc = "trigger"
    /\ deployer' = IF deployer.exists THEN Triggered ELSE deployer
    /\ hook' = [hook EXCEPT !.pc = "publish"]
    /\ UNCHANGED <<workflowVars, queued, run, builder, work>>

BuildIsDone ==
    /\ hook.pc = "publish"
    /\ builder' = IF hook.fresh THEN [builder EXCEPT !.phase = "Done"] ELSE builder
    /\ hook' = NoHook
    /\ UNCHANGED <<workflowVars, queued, run, deployer, work>>

BuilderController ==
    BuilderMovesOn \/ BuilderUndone \/ StartsBuild \/ BuilderReports \/ HookRuns \/ BuildIsDone

-----------------------------------------------------------------------------
(* The deployer: MoveOn and Report of RoundLedger, and its workload. *)

WriteDeployer(object) ==
    /\ deployer' = object
    /\ UNCHANGED <<workflowVars, queued, run, builder, hook>>

DeployWork == <<deployer.type, deployer.currentRound>>

\* The job of the round that ends is deleted; a stateful set stays.
DeployerMovesOn ==
    /\ deployer.exists
    /\ deployer.round > deployer.currentRound
    /\ WriteDeployer([deployer EXCEPT !.currentRound = deployer.round, !.phase = "Pending"])
    /\ work' = IF deployer.type = "job" \/ work[DeployWork] = NoWorkload
                 THEN [work EXCEPT ![DeployWork] = NoWorkload]
                 ELSE [work EXCEPT ![DeployWork].pod = "left"]

DeployerUndone ==
    /\ deployer.exists
    /\ deployer.round < deployer.currentRound
    /\ deployer.phase # "UNDO"
    /\ WriteDeployer([deployer EXCEPT !.phase = "UNDO"])
    /\ UNCHANGED work

\* GetSubResource asks for the name: a build job of the round will do.
Deploys ==
    /\ deployer.exists
    /\ deployer.round = deployer.currentRound
    /\ work[DeployWork] = NoWorkload
    /\ WriteDeployer([deployer EXCEPT !.phase = "Pending"])
    /\ work' = [work EXCEPT ![DeployWork] = [pod |-> "Pending", image |-> deployer.image]]

\* Mutant: the phase of the pod is taken over as Kubernetes names it.
DeployerReportsRaw ==
    LET seen == work[DeployWork].pod IN
    /\ deployer.exists
    /\ deployer.round = deployer.currentRound
    /\ work[DeployWork] # NoWorkload
    /\ WriteDeployer([deployer EXCEPT !.phase = IF seen = "Doing" THEN "Running" ELSE seen])
    /\ UNCHANGED work

\* The status of the pod is that of the deployer.
DeployerReports ==
    LET seen == work[DeployWork].pod IN
    /\ deployer.exists
    /\ deployer.round = deployer.currentRound
    /\ work[DeployWork] # NoWorkload
    /\ seen # deployer.phase
    /\ WriteDeployer([deployer EXCEPT !.phase = seen])
    /\ UNCHANGED work

DeployerController == DeployerMovesOn \/ DeployerUndone \/ Deploys \/ DeployerReports

-----------------------------------------------------------------------------
\* The process ends between two steps of a handler and is started again.
Restart ==
    /\ ~At("idle") \/ hook.pc # "none"
    /\ workflowCache' = workflow
    /\ workflowFresh' = TRUE
    /\ queued' = TRUE
    /\ run' = Idle
    /\ hook' = NoHook
    /\ UNCHANGED <<workflow, builder, deployer, work>>

\* The periodic resync of the informers.
Resync ==
    /\ workflowCache.exists
    /\ ~queued
    /\ queued' = TRUE
    /\ UNCHANGED <<workflowVars, run, builder, deployer, hook, work>>

Next ==
    \/ WorkflowController \/ BuilderController \/ DeployerController
    \/ WorkflowUser
    \/ SyncWorkflow \/ CollectGarbage \/ Restart \/ Resync
    \/ \E w \in DOMAIN work : MovePod(w)

Spec == Init /\ [][Next]_vars

\* An informer delivers, the worker of each controller goes on, and a key that is
\* in the queue is handed out.  The pods, the users and the resync are not bound.
Fairness ==
    /\ WF_vars(SyncWorkflow)
    /\ WF_vars(WorkflowController)
    /\ WF_vars(BuilderController)
    /\ WF_vars(DeployerController)

FairSpec == Spec /\ Fairness

-----------------------------------------------------------------------------
(* Properties. *)

TypeOK ==
    /\ workflow \in WorkflowObject
    /\ workflowCache \in WorkflowObject
    /\ workflowFresh \in BOOLEAN
    /\ queued \in BOOLEAN
    /\ run \in [pc : PCs, copy : WorkflowObject, fresh : BOOLEAN, seen : Phases \cup {None}]
    /\ builder \in BuilderObject
    /\ deployer \in DeployerObject
    /\ hook \in [pc : {"none", "trigger", "publish"}, round : Int, fresh : BOOLEAN]
    /\ work \in [Types \X RoundNumbers -> Workload]

\* In an instance whose workflows all build: however generation, hook, restarts
\* and edits interleave, the deployer of a workflow is never in a round that its
\* builder has not reached.
DeployerFollowsBuilder == deployer.currentRound <= builder.currentRound

\* The placeholder that a deployer is generated with is never run.
FakeImageNeverRuns == \A w \in DOMAIN work : work[w].image # "fake"

\* In the round that is recorded, if users have not returned to it: the builder and
\* the deployer that are there were generated from the spec of this round and not
\* of another one, however stale the copies were and wherever a conflict or a
\* restart cut the three writes.  (Of the deployer's round and image this says
\* nothing: a hook that was under way while the deployer was generated may still
\* give it those of the build that it belongs to.)
RoundIsGenerated ==
    workflow.exists /\ workflow.spec.round = workflow.currentRound =>
        /\ deployer.exists
        /\ deployer.from = workflow.currentRound
        /\ deployer.type = workflow.spec.type
        /\ workflow.spec.build => builder.exists /\ builder.round = workflow.currentRound

\* In that round the workflow is looked at for ever, so that its status can
\* become that of its deployer, whatever it said too early.
NobodyIsForgotten ==
    workflow.exists /\ workflow.spec.round >= workflow.currentRound =>
        queued \/ ~At("idle") \/ ~workflowFresh

\* Its rounds are those of the ledger, as a deployer's and a builder's are: in an
\* instance whose workflows all build, whatever the copy that is written was
\* computed from, a workflow moves exactly to the round asked for at that moment and
\* archives the one that ends, and never shows an UNDO in the round asked for, which
\* its builder and its deployer may still have for an earlier one.
Rounds == INSTANCE RoundLedger WITH
    Names <- {"workflow"},
    Specs <- WorkflowSpecs,
    rounds <- [n \in {"workflow"} |->
                   [exists |-> workflow.exists, deleting |-> workflow.deleting,
                    spec |-> workflow.spec, phase |-> workflow.phase,
                    currentRound |-> workflow.currentRound, history |-> workflow.history]]

ImplementsRounds == Rounds!Spec

\* From some time on nobody edits or deletes the workflow, the API server does what
\* it is asked, no process ends (a step that does no more than the end of a handler
\* is one of its controller), and the workloads and their pods stay as they are.
Quiet ==
    <>[][/\ workflow'.spec = workflow.spec /\ workflow'.deleting = workflow.deleting
         /\ work' = work
         /\ ~GenerateFails
         /\ Restart => WorkflowController \/ BuilderController]_vars

\* Then a round that is asked for is generated and recorded; and when its build is
\* over and its deployer has been asked for it, the workflow ends with the status of
\* the pod that the deployer runs, whatever older status of either it has shown.
StatusSettles ==
    Quiet =>
        <>[](workflow.exists /\ ~workflow.deleting
                 /\ workflow.spec.round >= workflow.currentRound
             => /\ workflow.spec.round = workflow.currentRound
                /\ HashDone(builder.phase) /\ deployer.round = workflow.currentRound =>
                       LET pod == work[DeployWork].pod IN
                       workflow.phase = IF pod = "Pending" THEN "Doing" ELSE pod)

-----------------------------------------------------------------------------
\* types/status.go:27, "StatusDone means the CRD has been deployed": a workflow
\* of type job that is Done has run its deployer's job in that round.  It is
\* refuted by a run of its own, and README.md says how.
DoneMeansDeployed ==
    workflow.exists /\ workflow.phase = "Done" /\ workflow.spec.round = workflow.currentRound =>
        work[<<workflow.spec.type, workflow.currentRound>>].image # "none"
=============================================================================
