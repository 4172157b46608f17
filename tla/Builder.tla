------------------------------ MODULE Builder ------------------------------
(***************************************************************************)
(* Builders and the deployers they trigger: BuilderReconciler.Reconcile    *)
(* with every call it makes that changes state, the build jobs and the     *)
(* config map of their Dockerfile, the images that finished builds push,   *)
(* and the hooks (TriggerDeployer) that write deployers.                   *)
(*                                                                         *)
(* Deployers are those of RoundLedger, which Deployer implements, without  *)
(* status and history: they move on to the round they are asked for, and   *)
(* their other writes only make a new version.                             *)
(***************************************************************************)
EXTENDS CommonStatus

CONSTANTS
    Builders,
    Deployers,
    BuilderSpecs,   \* the specs users may give a builder
    Images,
    None,
    MaxRound,       \* bounds the rounds that deployers move on to
    BuildersLag,    \* TRUE: the cached copy of a builder may be out of date
    DeployersLag,   \* TRUE: the cached copy of a deployer may be out of date
    JobsLag,        \* TRUE: the cached jobs and pods may be out of date
    DeployersChange,\* TRUE: users create and delete deployers at any time
    ApiErrors,      \* TRUE: the API server may reject a job, a config map or a hook's write
    Crashes         \* TRUE: the manager may crash; it is started again

Hook == [deployer : Deployers, forceRound : BOOLEAN, dynamicImage : BOOLEAN,
         image : Images \cup {None}]

\* `raw`: the Dockerfile is in the spec and reaches the job by a config map.
ASSUME BuilderAssumption ==
    /\ BuilderSpecs \subseteq [round : Int \ {0}, destination : Images, raw : BOOLEAN,
                               hooks : Seq(Hook)]
    /\ None \notin Builders /\ None \notin BuilderSpecs /\ None \notin Images
    /\ MaxRound \in Nat
    /\ {BuildersLag, DeployersLag, JobsLag, DeployersChange, ApiErrors, Crashes} \subseteq BOOLEAN

VARIABLES
    builder, builderCache, builderFresh,    \* as in Deployer: server, cache, versions
    queue,          \* the work queue of the builder controller
    run,            \* the reconciliation in progress
    jobs,           \* the build jobs in the API server, by builder and round
    jobsCache,      \* the state of the jobs and their pods in the informer caches
    orphans,        \* the images that the pods of deleted jobs may still push
    dockerfile,     \* whether the builder's config map exists
    pushed,         \* the images in the registry
    deployer, deployerCache, deployerFresh

builderVars == <<builder, builderCache, builderFresh>>
jobVars == <<jobs, jobsCache, orphans, dockerfile, pushed>>
deployerVars == <<deployer, deployerCache, deployerFresh>>
vars == <<builderVars, queue, run, jobVars, deployerVars>>

RoundNumbers == {s.round : s \in BuilderSpecs} \cup {0}

HistoryEntry == [round : Int, phase : Phases, spec : BuilderSpecs]

BuilderObject ==
    [exists : BOOLEAN, deleting : BOOLEAN, finalizer : BOOLEAN,
     spec : BuilderSpecs \cup {None}, phase : Phases, currentRound : RoundNumbers,
     history : Seq(HistoryEntry)]

AbsentBuilder ==
    [exists |-> FALSE, deleting |-> FALSE, finalizer |-> FALSE, spec |-> None,
     phase |-> "", currentRound |-> 0, history |-> <<>>]

\* A job, the image its pod pushes, and how it gets its Dockerfile: "own" from
\* the build context, else from the config map, as long as that has the file
\* under the name that the job was created with.
Job == [state : PodStates, image : Images \cup {None}, dockerfile : {"own", "mounted", "lost"}]

NoJob == [state |-> "none", image |-> None, dockerfile |-> "own"]

NoJobs == [r \in RoundNumbers |-> NoJob]

States(b) == [r \in RoundNumbers |-> jobs[b][r].state]

DeployerObject ==
    [exists : BOOLEAN, round : Int, image : Images \cup {None}, currentRound : Int]

AbsentDeployer == [exists |-> FALSE, round |-> 0, image |-> None, currentRound |-> 0]

\* A deployer that is created without a round gets the default, -1.
NewDeployer == [AbsentDeployer EXCEPT !.exists = TRUE, !.round = -1]

Idle == [pc |-> "idle", b |-> None, copy |-> AbsentBuilder, fresh |-> FALSE,
         hook |-> 0, target |-> AbsentDeployer, targetFresh |-> FALSE]

Down == [Idle EXCEPT !.pc = "down"]

PCs == {"idle", "down", "dropFinalizer", "addFinalizer", "undo", "cleanup", "save", "handle",
        "dockerfile", "create", "hookGet", "hookUpdate", "publish"}

Init ==
    /\ builder = [b \in Builders |-> AbsentBuilder]
    /\ builderCache = builder
    /\ builderFresh = [b \in Builders |-> TRUE]
    /\ queue = {}
    /\ run = Idle
    /\ jobs = [b \in Builders |-> NoJobs]
    /\ jobsCache = [b \in Builders |-> States(b)]
    /\ orphans = [b \in Builders |-> {}]
    /\ dockerfile = [b \in Builders |-> FALSE]
    /\ pushed = {}
    /\ deployer = [d \in Deployers |-> IF DeployersChange THEN AbsentDeployer ELSE NewDeployer]
    /\ deployerCache = deployer
    /\ deployerFresh = [d \in Deployers |-> TRUE]

-----------------------------------------------------------------------------
(* The API server and the caches. *)

StoreBuilder(b, object) ==
    /\ builder' = [builder EXCEPT ![b] = object]
    /\ builderCache' = IF BuildersLag THEN builderCache ELSE builder'
    /\ builderFresh' = [builderFresh EXCEPT ![b] = (BuildersLag => @ /\ object = builder[b])]

Woken(b, object) == IF BuildersLag \/ object = builder[b] THEN {} ELSE {b}

SyncBuilder(b) ==
    /\ run.pc # "down"
    /\ ~builderFresh[b]
    /\ builderCache' = [builderCache EXCEPT ![b] = builder[b]]
    /\ builderFresh' = [builderFresh EXCEPT ![b] = TRUE]
    /\ queue' = queue \cup {b}
    /\ UNCHANGED <<builder, run, jobVars, deployerVars>>

SetJobs(b, new) ==
    /\ jobs' = [jobs EXCEPT ![b] = new]
    /\ jobsCache' = IF JobsLag THEN jobsCache
                    ELSE [jobsCache EXCEPT ![b] = [r \in RoundNumbers |-> new[r].state]]

SyncJobs(b) ==
    /\ run.pc # "down"
    /\ jobsCache[b] # States(b)
    /\ jobsCache' = [jobsCache EXCEPT ![b] = States(b)]
    /\ UNCHANGED <<builderVars, queue, run, jobs, orphans, dockerfile, pushed, deployerVars>>

\* The pod of a job moves.  It starts when it finds its Dockerfile, and if it
\* succeeds it has pushed the image.
MovePod(b, r) ==
    \E move \in PodMoves("job") :
        /\ jobs[b][r].state = move[1]
        /\ move[2] = "Running" => jobs[b][r].dockerfile # "lost"
        /\ SetJobs(b, [jobs[b] EXCEPT ![r].state = move[2]])
        /\ pushed' = IF move[2] = "Succeeded" THEN pushed \cup {jobs[b][r].image} ELSE pushed
        /\ UNCHANGED <<builderVars, queue, run, orphans, dockerfile, deployerVars>>

\* DeleteJob, as for deployers, leaves a pod that is not over behind.
DeleteJob(b, r) ==
    LET job == jobs[b][r] IN
    /\ SetJobs(b, [jobs[b] EXCEPT ![r] = NoJob])
    /\ orphans' = IF job.state \in {"Pending", "Running", "Unknown"}
                    THEN [orphans EXCEPT ![b] = @ \cup {job.image}]
                    ELSE orphans

\* Such a pod pushes its image some day, or fails, or waits for ever for a
\* Dockerfile that is gone.
OrphanEnds(b, image) ==
    /\ image \in orphans[b]
    /\ orphans' = [orphans EXCEPT ![b] = @ \ {image}]
    /\ pushed' \in {pushed, pushed \cup {image}}
    /\ UNCHANGED <<builderVars, queue, run, jobs, jobsCache, dockerfile, deployerVars>>

\* Jobs and config maps are owned by their builder and are collected after it,
\* with their pods; orphans are nobody's.
CollectGarbage(b) ==
    /\ ~builder[b].exists
    /\ jobs[b] # NoJobs \/ dockerfile[b]
    /\ SetJobs(b, NoJobs)
    /\ dockerfile' = [dockerfile EXCEPT ![b] = FALSE]
    /\ UNCHANGED <<builderVars, queue, run, orphans, pushed, deployerVars>>

\* The server stores a deployer: there is a new version, also if nothing of it
\* that is modelled here changes.
StoreDeployer(d, object) ==
    /\ deployer' = [deployer EXCEPT ![d] = object]
    /\ deployerCache' = IF DeployersLag THEN deployerCache ELSE deployer'
    /\ deployerFresh' = [deployerFresh EXCEPT ![d] = ~DeployersLag]

SyncDeployer(d) ==
    /\ run.pc # "down"
    /\ ~deployerFresh[d]
    /\ deployerCache' = [deployerCache EXCEPT ![d] = deployer[d]]
    /\ deployerFresh' = [deployerFresh EXCEPT ![d] = TRUE]
    /\ UNCHANGED <<builderVars, queue, run, jobVars, deployer>>

-----------------------------------------------------------------------------
(* The other writers of builders, and of deployers. *)

WriteFromOutside(b, object) ==
    /\ StoreBuilder(b, object)
    /\ queue' = queue \cup Woken(b, object)
    /\ run' = IF run.b = b /\ object # builder[b] THEN [run EXCEPT !.fresh = FALSE] ELSE run
    /\ UNCHANGED <<jobVars, deployerVars>>

\* A name is used again only after its jobs and config map are collected.
CreateBuilder(b, spec) ==
    /\ ~builder[b].exists
    /\ jobs[b] = NoJobs /\ ~dockerfile[b]
    /\ WriteFromOutside(b, [AbsentBuilder EXCEPT !.exists = TRUE, !.spec = spec])

EditBuilder(b, spec) ==
    /\ builder[b].exists
    /\ spec # builder[b].spec
    /\ WriteFromOutside(b, [builder[b] EXCEPT !.spec = spec])

DeleteBuilder(b) ==
    /\ builder[b].exists
    /\ ~builder[b].deleting
    /\ WriteFromOutside(b, IF builder[b].finalizer
                             THEN [builder[b] EXCEPT !.deleting = TRUE]
                             ELSE AbsentBuilder)

BuilderUser ==
    \E b \in Builders :
        \/ \E spec \in BuilderSpecs : CreateBuilder(b, spec) \/ EditBuilder(b, spec)
        \/ DeleteBuilder(b)

\* A hook that has read the deployer holds an old version from then on.
WriteDeployer(d, object) ==
    /\ StoreDeployer(d, object)
    /\ run' = IF run.pc = "hookUpdate" /\ run.copy.spec.hooks[run.hook].deployer = d
                THEN [run EXCEPT !.targetFresh = FALSE]
                ELSE run
    /\ UNCHANGED <<builderVars, queue, jobVars>>

\* The deployer's own reconciler: MoveOn of RoundLedger, and its other writes.
DeployerMovesOn(d) ==
    /\ deployer[d].exists
    /\ deployer[d].round > deployer[d].currentRound
    /\ deployer[d].round <= MaxRound
    /\ WriteDeployer(d, [deployer[d] EXCEPT !.currentRound = deployer[d].round])

DeployerReports(d) ==
    /\ deployer[d].exists
    /\ WriteDeployer(d, deployer[d])

DeployerWriter ==
    \E d \in Deployers :
        \/ DeployerMovesOn(d) \/ DeployerReports(d)
        \/ DeployersChange /\ ~deployer[d].exists /\ WriteDeployer(d, NewDeployer)
        \/ DeployersChange /\ deployer[d].exists /\ WriteDeployer(d, AbsentDeployer)

-----------------------------------------------------------------------------
(* The reconciliation of a builder. *)

At(pc) == run.pc = pc

\* Mutant: an earlier round is built again.
RouteAgain(object) ==
    CASE object.deleting /\ object.finalizer -> "dropFinalizer"
      [] object.deleting /\ ~object.finalizer -> "idle"
      [] ~object.deleting /\ ~object.finalizer -> "addFinalizer"
      [] OTHER -> IF object.spec.round > object.currentRound THEN "cleanup" ELSE "handle"

\* finalizeBuilder does nothing: deletion goes on with the finalizer.
Route(object) ==
    CASE object.deleting /\ object.finalizer -> "dropFinalizer"
      [] object.deleting /\ ~object.finalizer -> "idle"
      [] ~object.deleting /\ ~object.finalizer -> "addFinalizer"
      [] OTHER -> IF object.spec.round < object.currentRound THEN "undo"
                  ELSE IF object.spec.round > object.currentRound THEN "cleanup"
                  ELSE "handle"

Goto(pc, copy) == run' = [run EXCEPT !.pc = pc, !.copy = copy]

Return(requeue) ==
    /\ run' = Idle
    /\ queue' = IF requeue THEN queue \cup {run.b} ELSE queue

Store(object) == run.fresh /\ StoreBuilder(run.b, object)

\* Mutant: the status is written whatever the version.
PublishStatusBlindly(object) == StoreBuilder(run.b, object)

\* PublishStatus: a conflict is logged and otherwise ignored.
PublishStatus(object) ==
    IF run.fresh THEN StoreBuilder(run.b, object) ELSE UNCHANGED builderVars

WokenByPublish(object) == IF run.fresh THEN Woken(run.b, object) ELSE {}

Get(b) ==
    LET seen == builderCache[b] IN
    /\ At("idle")
    /\ b \in queue
    /\ queue' = queue \ {b}
    /\ run' = IF seen.exists /\ Route(seen) # "idle"
                THEN [Idle EXCEPT !.pc = Route(seen), !.b = b, !.copy = seen,
                                  !.fresh = builderFresh[b]]
                ELSE Idle
    /\ UNCHANGED <<builderVars, jobVars, deployerVars>>

\* An Update or Status().Update whose error the handler returns.
Conflict ==
    /\ run.pc \in {"dropFinalizer", "addFinalizer", "undo", "save"}
    /\ ~run.fresh
    /\ Return(TRUE)
    /\ UNCHANGED <<builderVars, jobVars, deployerVars>>

AddFinalizer ==
    LET object == [run.copy EXCEPT !.finalizer = TRUE] IN
    /\ At("addFinalizer")
    /\ Store(object)
    /\ Goto(Route(object), object)
    /\ queue' = queue \cup Woken(run.b, object)
    /\ UNCHANGED <<jobVars, deployerVars>>

DropFinalizer ==
    /\ At("dropFinalizer")
    /\ Store(AbsentBuilder)
    /\ run' = Idle
    /\ queue' = queue \cup Woken(run.b, AbsentBuilder)
    /\ UNCHANGED <<jobVars, deployerVars>>

Undo ==
    LET object == [run.copy EXCEPT !.phase = "UNDO"] IN
    /\ At("undo")
    /\ Store(object)
    /\ run' = Idle
    /\ queue' = queue \cup Woken(run.b, object)
    /\ UNCHANGED <<jobVars, deployerVars>>

\* Mutant: the new round is not recorded.
NextRoundUnrecorded(object) ==
    [object EXCEPT !.history = BackedUp(object), !.phase = "Pending"]

\* A new round: DeleteJob finds the job of the current one in the cache and
\* deletes it in the server; then BackupState, in the copy only.
NextRound(object) ==
    [object EXCEPT !.history = BackedUp(object), !.phase = "Pending",
                   !.currentRound = object.spec.round]

\* Mutant: the job of the round to come is deleted.
CleanupNext ==
    LET next == run.copy.spec.round IN
    /\ At("cleanup")
    /\ DeleteJob(run.b, next)
    /\ Goto("save", NextRound(run.copy))
    /\ UNCHANGED <<builderVars, queue, dockerfile, pushed, deployerVars>>

\* Mutant: a job that has not finished is left to finish.
CleanupFinished ==
    LET old == run.copy.currentRound IN
    /\ At("cleanup")
    /\ IF jobsCache[run.b][old] \in {"Succeeded", "Failed"}
         THEN DeleteJob(run.b, old)
         ELSE UNCHANGED <<jobs, jobsCache, orphans>>
    /\ Goto("save", NextRound(run.copy))
    /\ UNCHANGED <<builderVars, queue, dockerfile, pushed, deployerVars>>

Cleanup ==
    LET old == run.copy.currentRound IN
    /\ At("cleanup")
    /\ IF jobsCache[run.b][old] # "none"
         THEN IF jobs[run.b][old].state # "none"
                THEN /\ DeleteJob(run.b, old)
                     /\ Goto("save", NextRound(run.copy)) /\ UNCHANGED queue
                ELSE Return(TRUE) /\ UNCHANGED <<jobs, jobsCache, orphans>>
         ELSE Goto("save", NextRound(run.copy)) /\ UNCHANGED <<queue, jobs, jobsCache, orphans>>
    /\ UNCHANGED <<builderVars, dockerfile, pushed, deployerVars>>

Save ==
    /\ At("save")
    /\ Store(run.copy)
    /\ Return(TRUE)
    /\ UNCHANGED <<jobVars, deployerVars>>

\* createAndWatchJob in the current round.  No job in the cache: Pending is
\* published, and NewJob comes before the creation of the job.
HandleMissing ==
    LET object == [run.copy EXCEPT !.phase = "Pending"] IN
    /\ At("handle")
    /\ jobsCache[run.b][run.copy.spec.round] = "none"
    /\ PublishStatus(object)
    /\ Goto(IF object.spec.raw THEN "dockerfile" ELSE "create", object)
    /\ queue' = queue \cup WokenByPublish(object)
    /\ UNCHANGED <<jobVars, deployerVars>>

\* The config map is created by force, each time with a new name in it.
Lose(b) ==
    [r \in RoundNumbers |-> IF jobs[b][r].dockerfile = "mounted"
                              THEN [jobs[b][r] EXCEPT !.dockerfile = "lost"]
                              ELSE jobs[b][r]]

DeleteDockerfile ==
    /\ At("dockerfile")
    /\ dockerfile[run.b]
    /\ dockerfile' = [dockerfile EXCEPT ![run.b] = FALSE]
    /\ SetJobs(run.b, Lose(run.b))
    /\ UNCHANGED <<builderVars, queue, run, orphans, pushed, deployerVars>>

CreateDockerfile ==
    /\ At("dockerfile")
    /\ ~dockerfile[run.b]
    /\ dockerfile' = [dockerfile EXCEPT ![run.b] = TRUE]
    /\ Goto("create", run.copy)
    /\ UNCHANGED <<builderVars, queue, jobs, jobsCache, orphans, pushed, deployerVars>>

\* A job that the server has already is left alone.
CreateJob ==
    LET r == run.copy.spec.round
        job == [state |-> "nopod", image |-> run.copy.spec.destination,
                dockerfile |-> IF ~run.copy.spec.raw THEN "own"
                               ELSE IF dockerfile[run.b] THEN "mounted" ELSE "lost"] IN
    /\ At("create")
    /\ IF jobs[run.b][r].state = "none"
         THEN SetJobs(run.b, [jobs[run.b] EXCEPT ![r] = job])
         ELSE UNCHANGED <<jobs, jobsCache>>
    /\ Goto("publish", run.copy)
    /\ UNCHANGED <<builderVars, queue, orphans, dockerfile, pushed, deployerVars>>

HandleFails ==
    LET object == [run.copy EXCEPT !.phase = "Failed"] IN
    /\ ApiErrors
    /\ run.pc \in {"handle", "dockerfile", "create"}
    /\ PublishStatus(object)
    /\ Return(TRUE)
    /\ UNCHANGED <<jobVars, deployerVars>>

\* Mutant: the phase of the pod is taken for the status.
SeenPhaseRaw == jobsCache[run.b][run.copy.spec.round]

\* The pod of the job determines the status; the hooks come first when the
\* build is done and the copy does not say so yet.
SeenPhase == PhaseOfPod[jobsCache[run.b][run.copy.spec.round]]

HandleWatch ==
    LET object == [run.copy EXCEPT !.phase = SeenPhase]
        triggers == SeenPhase = "Done" /\ run.copy.phase # "Done" IN
    /\ At("handle")
    /\ jobsCache[run.b][run.copy.spec.round] # "none"
    /\ IF triggers /\ run.copy.spec.hooks # <<>>
         THEN run' = [run EXCEPT !.pc = "hookGet", !.hook = 1]
         ELSE Goto("publish", object)
    /\ UNCHANGED <<builderVars, queue, jobVars, deployerVars>>

-----------------------------------------------------------------------------
(* TriggerDeployer: the hooks of the copy, one after the other. *)

TheHook == run.copy.spec.hooks[run.hook]

\* After the last hook the build is Done.
AfterHook ==
    IF run.hook < Len(run.copy.spec.hooks)
      THEN [run EXCEPT !.pc = "hookGet", !.hook = @ + 1,
                       !.target = AbsentDeployer, !.targetFresh = FALSE]
      ELSE [run EXCEPT !.pc = "publish", !.copy = [@ EXCEPT !.phase = "Done"], !.hook = 0,
                       !.target = AbsentDeployer, !.targetFresh = FALSE]

\* A deployer that the cache does not have is passed over.
HookGet ==
    LET d == TheHook.deployer IN
    /\ At("hookGet")
    /\ run' = IF deployerCache[d].exists
                THEN [run EXCEPT !.pc = "hookUpdate", !.target = deployerCache[d],
                                 !.targetFresh = deployerFresh[d]]
                ELSE AfterHook
    /\ UNCHANGED <<builderVars, queue, jobVars, deployerVars>>

\* What the hook makes of the deployer that it has read.
Triggered(hook, copy, target) ==
    [target EXCEPT
        !.round = IF hook.forceRound THEN copy.spec.round ELSE target.currentRound + 1,
        !.image = IF hook.dynamicImage THEN copy.spec.destination ELSE hook.image]

HookUpdate ==
    LET object == Triggered(TheHook, run.copy, run.target) IN
    /\ At("hookUpdate")
    /\ run.targetFresh
    /\ StoreDeployer(TheHook.deployer, object)
    /\ run' = AfterHook
    /\ UNCHANGED <<builderVars, queue, jobVars>>

\* Mutant: the error of a hook is only logged.
HookFailsQuietly ==
    /\ At("hookUpdate")
    /\ ~run.targetFresh \/ ApiErrors
    /\ run' = AfterHook
    /\ UNCHANGED <<builderVars, queue, jobVars, deployerVars>>

\* The deployer has changed or is gone, or the API server rejects the write: the
\* build is called Doing, so that it is looked at, and all its hooks are run, again.
HookFails ==
    /\ At("hookUpdate")
    /\ ~run.targetFresh \/ ApiErrors
    /\ run' = [run EXCEPT !.pc = "publish", !.copy = [@ EXCEPT !.phase = "Doing"], !.hook = 0,
                          !.target = AbsentDeployer, !.targetFresh = FALSE]
    /\ UNCHANGED <<builderVars, queue, jobVars, deployerVars>>

\* Mutant: only a build that runs is looked at again.
PublishPollDoing ==
    /\ At("publish")
    /\ PublishStatus(run.copy)
    /\ run' = Idle
    /\ queue' = queue \cup WokenByPublish(run.copy)
                      \cup (IF run.copy.phase = "Doing" THEN {run.b} ELSE {})
    /\ UNCHANGED <<jobVars, deployerVars>>

\* The last PublishStatus; a build that is done or failed is not polled.
Publish ==
    /\ At("publish")
    /\ PublishStatus(run.copy)
    /\ run' = Idle
    /\ queue' = queue \cup WokenByPublish(run.copy)
                      \cup (IF HashDone(run.copy.phase) THEN {} ELSE {run.b})
    /\ UNCHANGED <<jobVars, deployerVars>>

BuilderController ==
    \/ Conflict \/ AddFinalizer \/ DropFinalizer \/ Undo \/ Cleanup \/ Save
    \/ HandleMissing \/ DeleteDockerfile \/ CreateDockerfile \/ CreateJob \/ HandleFails
    \/ HandleWatch \/ HookGet \/ HookUpdate \/ HookFails \/ Publish

-----------------------------------------------------------------------------
Crash ==
    /\ Crashes
    /\ ~At("down")
    /\ run' = Down
    /\ UNCHANGED <<builderVars, queue, jobVars, deployerVars>>

Start ==
    /\ At("down")
    /\ run' = Idle
    /\ queue' = {b \in Builders : builder[b].exists}
    /\ builderCache' = builder
    /\ builderFresh' = [b \in Builders |-> TRUE]
    /\ jobsCache' = [b \in Builders |-> States(b)]
    /\ deployerCache' = deployer
    /\ deployerFresh' = [d \in Deployers |-> TRUE]
    /\ UNCHANGED <<builder, jobs, orphans, dockerfile, pushed, deployer>>

Resync(b) ==
    /\ ~At("down")
    /\ builderCache[b].exists
    /\ b \notin queue
    /\ queue' = queue \cup {b}
    /\ UNCHANGED <<builderVars, run, jobVars, deployerVars>>

Next ==
    \/ \E b \in Builders : Get(b)
    \/ BuilderController
    \/ BuilderUser
    \/ DeployerWriter
    \/ \E b \in Builders :
           \/ SyncBuilder(b) \/ SyncJobs(b) \/ Resync(b) \/ CollectGarbage(b)
           \/ \E r \in RoundNumbers : MovePod(b, r)
           \/ \E image \in Images : OrphanEnds(b, image)
    \/ \E d \in Deployers : SyncDeployer(d)
    \/ Crash \/ Start

Spec == Init /\ [][Next]_vars

\* As for Deployer: informers deliver, keys are handed out, the worker goes on
\* and a crashed manager is started again.
Fairness ==
    /\ \A b \in Builders : /\ WF_vars(SyncBuilder(b)) /\ WF_vars(SyncJobs(b))
                           /\ WF_vars(CollectGarbage(b)) /\ SF_vars(Get(b))
    /\ \A d \in Deployers : WF_vars(SyncDeployer(d))
    /\ WF_vars(BuilderController)
    /\ WF_vars(Start)

FairSpec == Spec /\ Fairness

-----------------------------------------------------------------------------
(* Properties. *)

TypeOK ==
    /\ builder \in [Builders -> BuilderObject]
    /\ builderCache \in [Builders -> BuilderObject]
    /\ builderFresh \in [Builders -> BOOLEAN]
    /\ queue \in SUBSET Builders
    /\ run \in [pc : PCs, b : Builders \cup {None}, copy : BuilderObject, fresh : BOOLEAN,
                hook : Nat, target : DeployerObject, targetFresh : BOOLEAN]
    /\ jobs \in [Builders -> [RoundNumbers -> Job]]
    /\ jobsCache \in [Builders -> [RoundNumbers -> PodStates]]
    /\ orphans \in [Builders -> SUBSET Images]
    /\ dockerfile \in [Builders -> BOOLEAN]
    /\ pushed \in SUBSET Images
    /\ deployer \in [Deployers -> DeployerObject]
    /\ deployerCache \in [Deployers -> DeployerObject]
    /\ deployerFresh \in [Deployers -> BOOLEAN]

\* The builders seen without finalizers, jobs, caches and queues.
Rounds == INSTANCE RoundLedger WITH
    Names <- Builders,
    Specs <- BuilderSpecs,
    rounds <- [b \in Builders |->
                   [exists |-> builder[b].exists, deleting |-> builder[b].deleting,
                    spec |-> builder[b].spec, phase |-> builder[b].phase,
                    currentRound |-> builder[b].currentRound,
                    history |-> builder[b].history]]

\* A builder, like a deployer, moves exactly to the round asked for at that
\* moment, archives the one that ends, and has no other round's status.
ImplementsRounds == Rounds!Spec

\* In an instance where each round has its destination: a deployer is given an
\* image only after the job that pushes it has succeeded, however stale the
\* copies of the builder, its jobs and the deployer are.
TriggeredImageIsPushed ==
    [][\A d \in Deployers :
           (deployer'[d].exists /\ deployer'[d].image # deployer[d].image)
               => deployer'[d].image \in pushed]_vars

\* In an instance with one builder, each of whose deployers all of its hooks
\* force, or none: no stale copy makes a hook send its deployer back from a round
\* that the builder built, so that it would be undone.  (A builder that is
\* created again starts over.)
ForcedRoundsGrow ==
    [][\A d \in Deployers, b \in Builders :
           (/\ deployer[d].exists /\ deployer'[d].exists
            /\ \/ deployer[d].round = builder[b].currentRound
               \/ \E i \in 1 .. Len(builder[b].history) :
                      deployer[d].round = builder[b].history[i].round)
               => deployer'[d].round >= deployer[d].round]_vars

\* While the manager runs, a builder whose status is not final is in the queue,
\* in progress, or has an event on its way.
Settled(object) ==
    \/ object.spec.round = object.currentRound /\ HashDone(object.phase)
    \/ object.spec.round < object.currentRound /\ object.phase = "UNDO"

NobodyIsForgotten ==
    ~At("down") =>
        \A b \in Builders :
            builder[b].exists =>
                Settled(builder[b]) \/ b \in queue \/ run.b = b \/ ~builderFresh[b]

\* However stale the copies of builders, as long as jobs are not read from a
\* stale cache: a builder has no job of another round than its own,
NoStrayJob ==
    \A b \in Builders, r \in RoundNumbers :
        builder[b].exists /\ jobs[b][r].state # "none" => r = builder[b].currentRound

\* and a job that has not started finds the Dockerfile it was created with.
JobsFindTheirDockerfile ==
    \A b \in Builders, r \in RoundNumbers :
        jobs[b][r].state \in {"nopod", "Pending"} => jobs[b][r].dockerfile # "lost"

\* As long as jobs are read as they are and no deployer comes or goes: when a
\* build is called Done, each deployer of its hooks is asked to run the image
\* that the job of this round has pushed and, if the hook forces the round, in
\* this round or a later one.  Whatever conflicts the hooks met, none is skipped.
DoneMeansTriggered ==
    [][\A b \in Builders :
           builder[b].phase # "Done" /\ builder'[b].phase = "Done" =>
               \A i \in 1 .. Len(builder[b].spec.hooks) :
                   LET hook == builder[b].spec.hooks[i]
                       d == hook.deployer
                       r == builder[b].currentRound IN
                   deployer[d].exists =>
                       /\ hook.dynamicImage => deployer[d].image = jobs[b][r].image
                       /\ hook.forceRound => deployer[d].round >= r]_vars

\* All others stop writing some day, the API server rejects no more, and the
\* manager stays up.
Quiet ==
    <>[][/\ ~BuilderUser /\ ~DeployerWriter /\ ~HandleFails /\ ~Crash
         /\ HookFails => ~run.targetFresh]_vars

\* Then a round that is asked for is reached, and ends or has its job,
RoundIsBuilt ==
    Quiet =>
        <>[](\A b \in Builders :
                 builder[b].exists /\ ~builder[b].deleting
                     /\ builder[b].spec.round >= builder[b].currentRound
                 => /\ builder[b].spec.round = builder[b].currentRound
                    /\ \/ HashDone(builder[b].phase)
                       \/ jobs[b][builder[b].currentRound].state # "none")

\* and a build that has succeeded is called Done.
SuccessIsReported ==
    Quiet =>
        <>[](\A b \in Builders :
                 builder[b].exists /\ ~builder[b].deleting
                     /\ builder[b].spec.round = builder[b].currentRound
                     /\ jobs[b][builder[b].currentRound].state = "Succeeded"
                 => builder[b].phase = "Done")
=============================================================================
