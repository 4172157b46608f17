------------------------------ MODULE Deployer ------------------------------
(***************************************************************************)
(* Deployers over resource pools: DeployerReconciler.Reconcile with every  *)
(* call it makes that changes state, the workloads (Jobs, StatefulSets) it *)
(* creates and deletes, the pods Kubernetes runs for them, and the users   *)
(* and workflows that write deployers.                                     *)
(*                                                                         *)
(* One worker reconciles one deployer at a time.  A reconciliation works   *)
(* on the copy it read from the cache; `run` is that copy, where it is in  *)
(* the handler and whether the copy is still the server's version.  Each   *)
(* API write, and each read after which another actor may move, is a step. *)
(***************************************************************************)
EXTENDS ResourcePool, CommonStatus

CONSTANTS
    Specs,          \* the specs users and workflows may give a deployer
    DeployersLag,   \* TRUE: the cached copy of a deployer may be out of date
    WorkLag,        \* TRUE: the cached workloads may be out of date
    PodsMove,       \* FALSE: the pods of workloads stay as they were created
    ApiErrors,      \* TRUE: the API server may reject a workload or service
    JobsAccepted,   \* TRUE: something in the cluster gives the pods of deployers' Jobs
                    \* a restart policy; without it the API server refuses these Jobs
    WorkflowApplies,\* TRUE: a workflow may apply a deployer it generates
    Crashes         \* TRUE: the manager may crash; it is started again

Deployers == Owners
Types == {"job", "service"}
RoundNumbers == {s.round : s \in Specs} \cup {0}

\* Jobs and StatefulSets are named <deployer>-<round>.
Workloads == {s.type : s \in Specs} \X RoundNumbers

\* A round of 0 is not among them: the field is omitted when it is empty, so
\* that the first update of the finalizer turns it into the default of -1.
ASSUME SpecsAssumption ==
    /\ Specs \subseteq [round : Int \ {0}, pool : Pools, type : Types, amount : Requests]
    /\ None \notin Owners
    /\ None \notin Specs
    /\ {DeployersLag, WorkLag, PodsMove, ApiErrors, JobsAccepted, WorkflowApplies, Crashes}
           \subseteq BOOLEAN

VARIABLES
    dep,        \* the deployers in the API server
    depCache,   \* the deployers in the informer cache
    depFresh,   \* whether the cached copy is the server's version
    queue,      \* the work queue of the deployer controller
    run,        \* the reconciliation in progress
    work,       \* the workloads in the API server, with the state of their pod
    workCache,  \* the workloads and pods in the informer caches
    orphans     \* the deleted jobs whose pod goes on

depVars == <<dep, depCache, depFresh>>
workVars == <<work, workCache, orphans>>
vars == <<poolVars, depVars, queue, run, workVars>>

HistoryEntry == [round : Int, phase : Phases, spec : Specs]

DeployerObject ==
    [exists : BOOLEAN, deleting : BOOLEAN, finalizer : BOOLEAN,
     spec : Specs \cup {None}, phase : Phases, currentRound : Int,
     resourcePool : Pools \cup {None}, history : Seq(HistoryEntry)]

AbsentDeployer ==
    [exists |-> FALSE, deleting |-> FALSE, finalizer |-> FALSE, spec |-> None,
     phase |-> "", currentRound |-> 0, resourcePool |-> None, history |-> <<>>]

Idle == [pc |-> "idle", d |-> None, copy |-> AbsentDeployer, fresh |-> FALSE]

\* The manager is not running.
Down == [Idle EXCEPT !.pc = "down"]

PCs == {"idle", "down", "finalize", "dropFinalizer", "addFinalizer", "undo", "cleanup",
        "release", "beg", "save", "handle", "create", "publish"}

NoWork == [w \in Workloads |-> "none"]

Init ==
    /\ PoolInit
    /\ dep = [d \in Deployers |-> AbsentDeployer]
    /\ depCache = dep
    /\ depFresh = [d \in Deployers |-> TRUE]
    /\ queue = {}
    /\ run = Idle
    /\ work = [d \in Deployers |-> NoWork]
    /\ workCache = work
    /\ orphans = [d \in Deployers |-> {}]

-----------------------------------------------------------------------------
(* The API server and the caches. *)

\* The server stores a deployer; if anything changed there is a new version,
\* and the event wakes the reconciler when the cache has it.
StoreDeployer(d, object) ==
    /\ dep' = [dep EXCEPT ![d] = object]
    /\ depCache' = IF DeployersLag THEN depCache ELSE dep'
    /\ depFresh' = [depFresh EXCEPT ![d] = (DeployersLag => @ /\ object = dep[d])]

Woken(d, object) == IF DeployersLag \/ object = dep[d] THEN {} ELSE {d}

SyncDeployer(d) ==
    /\ run.pc # "down"
    /\ ~depFresh[d]
    /\ depCache' = [depCache EXCEPT ![d] = dep[d]]
    /\ depFresh' = [depFresh EXCEPT ![d] = TRUE]
    /\ queue' = queue \cup {d}
    /\ UNCHANGED <<poolVars, dep, run, workVars>>

SetWork(d, w, state) ==
    /\ work' = [work EXCEPT ![d][w] = state]
    /\ workCache' = IF WorkLag THEN workCache ELSE work'

\* Workloads are not watched: the change of one wakes nobody.
SyncWork(d) ==
    /\ run.pc # "down"
    /\ workCache[d] # work[d]
    /\ workCache' = [workCache EXCEPT ![d] = work[d]]
    /\ UNCHANGED <<poolVars, depVars, queue, run, work, orphans>>

\* DeleteJob names no propagation policy, and the default for Jobs is Orphan:
\* the Job goes, and a pod of it that is not over stays and goes on.  It has
\* lost its owner and the Job its selector, so nothing of the program finds it.
DeleteJob(d, w) ==
    /\ SetWork(d, w, "none")
    /\ orphans' = IF work[d][w] \in {"Pending", "Running", "Unknown"}
                    THEN [orphans EXCEPT ![d] = @ \cup {w}]
                    ELSE orphans

\* A pod without a Job ends at some time, or not at all.
OrphanEnds(d, w) ==
    /\ PodsMove
    /\ w \in orphans[d]
    /\ orphans' = [orphans EXCEPT ![d] = @ \ {w}]
    /\ UNCHANGED <<poolVars, depVars, queue, run, work, workCache>>

\* The pod of a workload moves.
MovePod(d, w) ==
    \E move \in PodMoves(w[1]) :
        /\ PodsMove
        /\ work[d][w] = move[1]
        /\ SetWork(d, w, move[2])
        /\ UNCHANGED <<poolVars, depVars, queue, run, orphans>>

\* Workloads are owned by their deployer and are collected after it, with their
\* pods; orphans are nobody's.
CollectGarbage(d) ==
    /\ ~dep[d].exists
    /\ work[d] # NoWork
    /\ work' = [work EXCEPT ![d] = NoWork]
    /\ workCache' = IF WorkLag THEN workCache ELSE work'
    /\ UNCHANGED <<poolVars, depVars, queue, run, orphans>>

-----------------------------------------------------------------------------
(* The writers of deployers other than their reconciler. *)

\* Whatever they write, a reconciliation in progress on the deployer holds an
\* old version from then on.
WriteFromOutside(d, object) ==
    /\ StoreDeployer(d, object)
    /\ queue' = queue \cup Woken(d, object)
    /\ run' = IF run.d = d /\ object # dep[d] THEN [run EXCEPT !.fresh = FALSE] ELSE run
    /\ UNCHANGED <<poolVars, workVars>>

\* A name is used again only after its workloads are collected.
CreateDeployer(d, spec) ==
    /\ ~dep[d].exists
    /\ work[d] = NoWork
    /\ WriteFromOutside(d, [AbsentDeployer EXCEPT !.exists = TRUE, !.spec = spec])

EditDeployer(d, spec) ==
    /\ dep[d].exists
    /\ spec # dep[d].spec
    /\ WriteFromOutside(d, [dep[d] EXCEPT !.spec = spec])

DeleteDeployer(d) ==
    /\ dep[d].exists
    /\ ~dep[d].deleting
    /\ WriteFromOutside(d, IF dep[d].finalizer
                             THEN [dep[d] EXCEPT !.deleting = TRUE]
                             ELSE AbsentDeployer)

\* A workflow applies the deployer it generated over the one in the server:
\* CreateResource with update replaces the metadata too, so the finalizer
\* goes, and with it a deployer that is marked for deletion.
ApplyDeployer(d, spec) ==
    /\ WorkflowApplies
    /\ dep[d].exists
    /\ WriteFromOutside(d, IF dep[d].deleting
                             THEN AbsentDeployer
                             ELSE [dep[d] EXCEPT !.spec = spec, !.finalizer = FALSE])

DeployerUser ==
    \E d \in Deployers :
        \/ \E spec \in Specs : \/ CreateDeployer(d, spec) \/ EditDeployer(d, spec)
                               \/ ApplyDeployer(d, spec)
        \/ DeleteDeployer(d)

-----------------------------------------------------------------------------
(* The reconciliation of a deployer. *)

\* Where a reconciliation goes once the finalizer is settled or not needed.
Route(object) ==
    CASE object.deleting /\ object.finalizer -> "finalize"
      [] object.deleting /\ ~object.finalizer -> "idle"
      [] ~object.deleting /\ ~object.finalizer -> "addFinalizer"
      [] OTHER -> IF object.spec.round < object.currentRound THEN "undo"
                  ELSE IF object.spec.round > object.currentRound THEN "cleanup"
                  ELSE "handle"

At(pc) == run.pc = pc

Goto(pc, copy) == run' = [run EXCEPT !.pc = pc, !.copy = copy]

\* The reconciliation returns; with an error or a requeue the key comes back.
Return(requeue) ==
    /\ run' = Idle
    /\ queue' = IF requeue THEN queue \cup {run.d} ELSE queue

\* A write of the reconciler on the current version.
Store(object) == run.fresh /\ StoreDeployer(run.d, object)

\* Mutant: the status is written whatever the version.
PublishStatusBlindly(object) == StoreDeployer(run.d, object)

\* PublishStatus: a conflict is logged and otherwise ignored.
PublishStatus(object) ==
    IF run.fresh THEN StoreDeployer(run.d, object) ELSE UNCHANGED depVars

WokenByPublish(object) == IF run.fresh THEN Woken(run.d, object) ELSE {}

\* r.Get: the key leaves the queue and the cached copy is taken.
Get(d) ==
    LET seen == depCache[d] IN
    /\ At("idle")
    /\ d \in queue
    /\ queue' = queue \ {d}
    /\ run' = IF seen.exists /\ Route(seen) # "idle"
                THEN [pc |-> Route(seen), d |-> d, copy |-> seen, fresh |-> depFresh[d]]
                ELSE Idle
    /\ UNCHANGED <<poolVars, depVars, workVars>>

\* An Update or Status().Update whose error the handler returns.
Conflict ==
    /\ run.pc \in {"dropFinalizer", "addFinalizer", "undo", "save"}
    /\ ~run.fresh
    /\ Return(TRUE)
    /\ UNCHANGED <<poolVars, depVars, workVars>>

AddFinalizer ==
    LET object == [run.copy EXCEPT !.finalizer = TRUE] IN
    /\ At("addFinalizer")
    /\ Store(object)
    /\ Goto(Route(object), object)
    /\ queue' = queue \cup Woken(run.d, object)
    /\ UNCHANGED <<poolVars, workVars>>

\* ReleaseResource on the pool of the copy's status, then on to `pc`.
Release(pc, copy) ==
    \/ /\ NothingToRelease(run.copy.resourcePool, run.d)
       /\ Goto(pc, copy)
       /\ UNCHANGED <<poolVars, queue>>
    \/ /\ Released(run.copy.resourcePool, run.d)
       /\ Goto(pc, copy)
       /\ UNCHANGED queue
    \/ /\ ReleaseFails(run.copy.resourcePool, run.d)
       /\ Return(TRUE)
       /\ UNCHANGED poolVars

\* Deletion: finalizeDeployer, then the finalizer goes and the object with it.
Finalize ==
    /\ At("finalize")
    /\ Release("dropFinalizer", run.copy)
    /\ UNCHANGED <<depVars, workVars>>

DropFinalizer ==
    /\ At("dropFinalizer")
    /\ Store(AbsentDeployer)
    /\ run' = Idle
    /\ queue' = queue \cup Woken(run.d, AbsentDeployer)
    /\ UNCHANGED <<poolVars, workVars>>

\* The spec asks for an earlier round: the status says UNDO and that is all.
Undo ==
    LET object == [run.copy EXCEPT !.phase = "UNDO"] IN
    /\ At("undo")
    /\ Store(object)
    /\ run' = Idle
    /\ queue' = queue \cup Woken(run.d, object)
    /\ UNCHANGED <<poolVars, workVars>>

\* Mutant: deletes the job of the round to come.
CleanupNext ==
    LET old == <<"job", run.copy.spec.round>> IN
    /\ At("cleanup")
    /\ IF run.copy.spec.type = "job" /\ workCache[run.d][old] # "none"
         THEN IF work[run.d][old] # "none"
                THEN DeleteJob(run.d, old) /\ Goto("release", run.copy) /\ UNCHANGED queue
                ELSE Return(TRUE) /\ UNCHANGED workVars
         ELSE Goto("release", run.copy) /\ UNCHANGED <<queue, workVars>>
    /\ UNCHANGED <<poolVars, depVars>>

\* Mutant: a job that has not finished is left to finish.
CleanupFinished ==
    LET old == <<"job", run.copy.currentRound>> IN
    /\ At("cleanup")
    /\ IF workCache[run.d][old] \in {"Succeeded", "Failed"}
         THEN DeleteJob(run.d, old)
         ELSE UNCHANGED workVars
    /\ Goto("release", run.copy)
    /\ UNCHANGED <<poolVars, depVars, queue>>

\* The spec asks for a new round.  CleanupForNextRound deletes the workload of
\* the current one if it is a job and the cache has it; for a service it looks
\* for a Deployment, which no code creates.
Cleanup ==
    LET old == <<"job", run.copy.currentRound>> IN
    /\ At("cleanup")
    /\ IF run.copy.spec.type = "job" /\ workCache[run.d][old] # "none"
         THEN IF work[run.d][old] # "none"
                THEN DeleteJob(run.d, old) /\ Goto("release", run.copy) /\ UNCHANGED queue
                ELSE Return(TRUE) /\ UNCHANGED workVars
         ELSE Goto("release", run.copy) /\ UNCHANGED <<queue, workVars>>
    /\ UNCHANGED <<poolVars, depVars>>

\* CleanupForNextRound goes on with the release; then BackupState and the new
\* round, in the copy only.  The second ReleaseResource finds no pool name.
NextRound(object) ==
    [object EXCEPT !.resourcePool = None, !.history = BackedUp(object),
                   !.phase = "Pending", !.currentRound = object.spec.round]

ReleaseOld ==
    /\ At("release")
    /\ Release("beg", NextRound(run.copy))
    /\ UNCHANGED <<depVars, workVars>>

Beg ==
    LET p == run.copy.spec.pool IN
    /\ At("beg")
    /\ BegGranted(p, run.d, run.copy.spec.amount)
    /\ Goto("save", [run.copy EXCEPT !.resourcePool = p])
    /\ UNCHANGED <<depVars, queue, workVars>>

\* Mutant: a refusal is final.
BegFailsForGood ==
    LET p == run.copy.spec.pool IN
    /\ At("beg")
    /\ BegRefused(p, run.copy.spec.amount) \/ (RetriesUsedUp(p) /\ ~BegPanics(p))
    /\ Return(FALSE)
    /\ UNCHANGED <<poolVars, depVars, workVars>>

\* Not enough: StatusFailed is set in the copy, and the copy is dropped.
BegFails ==
    LET p == run.copy.spec.pool IN
    /\ At("beg")
    /\ BegRefused(p, run.copy.spec.amount) \/ (RetriesUsedUp(p) /\ ~BegPanics(p))
    /\ Return(TRUE)
    /\ UNCHANGED <<poolVars, depVars, workVars>>

\* The deferred recover publishes the copy as Failed and returns no error.
BegPanic ==
    LET object == [run.copy EXCEPT !.phase = "Failed"] IN
    /\ At("beg")
    /\ BegPanics(run.copy.spec.pool)
    /\ PublishStatus(object)
    /\ run' = Idle
    /\ queue' = queue \cup WokenByPublish(object)
    /\ UNCHANGED <<poolVars, workVars>>

Save ==
    /\ At("save")
    /\ Store(run.copy)
    /\ Return(TRUE)
    /\ UNCHANGED <<poolVars, workVars>>

\* Handle, in the current round: the workload's name, its cached and live state.
Workload == <<run.copy.spec.type, run.copy.spec.round>>

\* No workload in the cache: Pending is published before one is created.
HandleMissing ==
    LET object == [run.copy EXCEPT !.phase = "Pending"] IN
    /\ At("handle")
    /\ workCache[run.d][Workload] = "none"
    /\ PublishStatus(object)
    /\ Goto("create", object)
    /\ queue' = queue \cup WokenByPublish(object)
    /\ UNCHANGED <<poolVars, workVars>>

\* CreateResource reads the live object.  A job that exists is left alone.
KeepJob ==
    /\ At("create")
    /\ run.copy.spec.type = "job"
    /\ work[run.d][Workload] # "none"
    /\ Goto("publish", run.copy)
    /\ UNCHANGED <<poolVars, depVars, queue, workVars>>

\* Mutant: jobs are created by force, too.
ForceDeleteAny ==
    /\ At("create")
    /\ work[run.d][Workload] # "none"
    /\ SetWork(run.d, Workload, "none")
    /\ UNCHANGED <<poolVars, depVars, queue, run, orphans>>

\* A stateful set is created by force: one that exists is deleted first.
ForceDelete ==
    /\ At("create")
    /\ run.copy.spec.type = "service"
    /\ work[run.d][Workload] # "none"
    /\ SetWork(run.d, Workload, "none")
    /\ UNCHANGED <<poolVars, depVars, queue, run, orphans>>

\* newJob leaves the restart policy of the pods out, which means Always, and the
\* API server takes no Job of such pods.
Refused == run.copy.spec.type = "job" /\ ~JobsAccepted

CreateWorkload ==
    /\ At("create")
    /\ ~Refused
    /\ work[run.d][Workload] = "none"
    /\ SetWork(run.d, Workload, "nopod")
    /\ Goto("publish", run.copy)
    /\ UNCHANGED <<poolVars, depVars, queue, orphans>>

\* Mutant: the phase of the pod is taken for the status.
HandleWatchRaw ==
    /\ At("handle")
    /\ workCache[run.d][Workload] # "none"
    /\ Goto("publish", [run.copy EXCEPT !.phase = workCache[run.d][Workload]])
    /\ UNCHANGED <<poolVars, depVars, queue, workVars>>

\* A workload in the cache: its pod determines the status.
HandleWatch ==
    /\ At("handle")
    /\ workCache[run.d][Workload] # "none"
    /\ Goto("publish", [run.copy EXCEPT !.phase = PhaseOfPod[workCache[run.d][Workload]]])
    /\ UNCHANGED <<poolVars, depVars, queue, workVars>>

\* The API server rejects a workload or a service: Handle returns the error.
HandleFails ==
    LET object == [run.copy EXCEPT !.phase = "Failed"] IN
    /\ run.pc \in {"handle", "create"}
    /\ ApiErrors \/ (At("create") /\ Refused /\ work[run.d][Workload] = "none")
    /\ PublishStatus(object)
    /\ Return(TRUE)
    /\ UNCHANGED <<poolVars, workVars>>

\* Mutant: only a workload that runs is looked at again.
PublishPollDoing ==
    /\ At("publish")
    /\ PublishStatus(run.copy)
    /\ run' = Idle
    /\ queue' = queue \cup WokenByPublish(run.copy)
                      \cup (IF run.copy.phase = "Doing" THEN {run.d} ELSE {})
    /\ UNCHANGED <<poolVars, workVars>>

\* Mutant: a job that runs is not looked at again, as if it were a service.
PublishSleepDoing ==
    /\ At("publish")
    /\ PublishStatus(run.copy)
    /\ run' = Idle
    /\ queue' = queue \cup WokenByPublish(run.copy)
                      \cup (IF run.copy.phase = "Pending" THEN {run.d} ELSE {})
    /\ UNCHANGED <<poolVars, workVars>>

\* The last PublishStatus; a finished round, and a service that runs, do not
\* ask to be looked at again.
Publish ==
    LET polls == ~(\/ HashDone(run.copy.phase)
                   \/ run.copy.spec.type = "service" /\ run.copy.phase = "Doing") IN
    /\ At("publish")
    /\ PublishStatus(run.copy)
    /\ run' = Idle
    /\ queue' = queue \cup WokenByPublish(run.copy) \cup (IF polls THEN {run.d} ELSE {})
    /\ UNCHANGED <<poolVars, workVars>>

DeployerController ==
    \/ Conflict \/ AddFinalizer \/ Finalize \/ DropFinalizer \/ Undo
    \/ Cleanup \/ ReleaseOld \/ Beg \/ BegFails \/ BegPanic \/ Save
    \/ HandleMissing \/ HandleWatch \/ HandleFails
    \/ KeepJob \/ ForceDelete \/ CreateWorkload \/ Publish

-----------------------------------------------------------------------------
\* The manager ends anywhere: what is in progress is lost, on pools too.
Crash ==
    /\ Crashes
    /\ ~At("down")
    /\ run' = Down
    /\ poolHeld' = {}
    /\ UNCHANGED <<pool, poolCache, poolFresh, depVars, queue, workVars>>

\* It starts again: the caches are filled and every deployer is reconciled.
Start ==
    /\ At("down")
    /\ run' = Idle
    /\ queue' = {d \in Deployers : dep[d].exists}
    /\ depCache' = dep
    /\ depFresh' = [d \in Deployers |-> TRUE]
    /\ workCache' = work
    /\ RestartPools
    /\ UNCHANGED <<dep, work, orphans>>

\* The periodic resynchronisation of the informer hands out every key.
Resync(d) ==
    /\ ~At("down")
    /\ depCache[d].exists
    /\ d \notin queue
    /\ queue' = queue \cup {d}
    /\ UNCHANGED <<poolVars, depVars, run, workVars>>

\* The steps of pools in which no deployer is involved.
PoolStep ==
    /\ \/ PoolUser
       \/ ~At("down") /\ (PoolController \/ \E p \in Pools : SyncPool(p))
    /\ UNCHANGED <<depVars, queue, run, workVars>>

Next ==
    \/ \E d \in Deployers : Get(d)
    \/ DeployerController
    \/ PoolStep
    \/ DeployerUser
    \/ \E d \in Deployers :
           \/ SyncDeployer(d) \/ SyncWork(d) \/ Resync(d) \/ CollectGarbage(d)
           \/ \E w \in Workloads : MovePod(d, w) \/ OrphanEnds(d, w)
    \/ Crash \/ Start

Spec == Init /\ [][Next]_vars

\* The informers deliver; the work queue is first in, first out, so a key that
\* keeps coming back is handed out; the worker goes on; a crashed manager is
\* started again.
Undisturbed == ~At("down") /\ UNCHANGED <<depVars, queue, run, workVars>>

Fairness ==
    /\ \A p \in Pools : /\ WF_vars(SyncPool(p) /\ Undisturbed)
                        /\ WF_vars(DropPoolFinalizer(p) /\ Undisturbed)
                        /\ WF_vars(AddPoolFinalizer(p) /\ Undisturbed)
                        /\ WF_vars(PublishFromCache(p) /\ Undisturbed)
    /\ WF_vars((AbandonPool \/ \E p \in Pools : PublishAfterFinalizer(p)) /\ Undisturbed)
    /\ \A d \in Deployers : /\ WF_vars(SyncDeployer(d))
                            /\ WF_vars(SyncWork(d))
                            /\ WF_vars(CollectGarbage(d))
                            /\ SF_vars(Get(d))
    /\ WF_vars(DeployerController)
    /\ WF_vars(Start)

FairSpec == Spec /\ Fairness

-----------------------------------------------------------------------------
(* Properties that hold. *)

\* Every variable has its type, and a copy called current is the server's:
\* the copy of a reconciliation differs from it in the status only.
TypeOK ==
    /\ PoolTypeOK
    /\ dep \in [Deployers -> DeployerObject]
    /\ depCache \in [Deployers -> DeployerObject]
    /\ depFresh \in [Deployers -> BOOLEAN]
    /\ queue \in SUBSET Deployers
    /\ run \in [pc : PCs, d : Deployers \cup {None}, copy : DeployerObject, fresh : BOOLEAN]
    /\ work \in [Deployers -> [Workloads -> PodStates]]
    /\ workCache \in [Deployers -> [Workloads -> PodStates]]
    /\ orphans \in [Deployers -> SUBSET (Types \X Int)]

\* The deployers seen without finalizers, pools, caches and queues.
Rounds == INSTANCE RoundLedger WITH
    Names <- Deployers,
    rounds <- [d \in Deployers |->
                   [exists |-> dep[d].exists, deleting |-> dep[d].deleting,
                    spec |-> dep[d].spec, phase |-> dep[d].phase,
                    currentRound |-> dep[d].currentRound, history |-> dep[d].history]]

\* However stale the copies, whoever else writes and wherever the manager
\* stops: a deployer moves to the round that its spec asks for at that moment
\* and no other, the step that moves it archives exactly the round and the
\* status recorded until then, and a status is never that of another round
\* than the one asked for when it is written.
ImplementsRounds == Rounds!Spec

\* The history of a deployer in the server lists its rounds in increasing
\* order, each once, all of them before the current one.
HistoryIsOrdered == Rounds!HistoryIsOrdered

\* Without stale reads of deployers and workloads, a deployer has no workload
\* of another round than the one it records.
NoStrayWorkload ==
    \A d \in Deployers, w \in Workloads :
        dep[d].exists /\ work[d][w] # "none" => w[2] = dep[d].currentRound

\* Where nobody asks for an earlier round than before, and either there is one
\* round or deployers are not read from a stale cache: while the deployer stays and
\* no later round is asked for, the pool that its status records holds a
\* reservation of it, whatever the other clients of the pool, its reconciler and
\* the workflows do.
RecordedPoolIsReserved ==
    \A d \in Deployers, p \in Pools :
        (/\ dep[d].exists /\ ~dep[d].deleting /\ dep[d].resourcePool = p
         /\ dep[d].spec.round <= dep[d].currentRound)
            => Holds(pool[p].usage, d)

\* Unless the deployer is being deleted, its reservation is given back only
\* after its Job objects are deleted, so that nothing that could still create a
\* pod of the old round is left.  (The pod that it has goes on; see DeleteJob.)
JobDeletedBeforeReleased ==
    [][\A d \in Deployers, p \in Pools :
           (/\ ~dep[d].deleting
            /\ Cardinality(Positions(pool'[p].usage, d))
                   < Cardinality(Positions(pool[p].usage, d)))
               => work[d] = NoWork]_vars

\* Where nobody asks for an earlier round than before: the job of the recorded
\* round, once created, is not deleted or created again while its deployer exists
\* and no later round is asked for, however stale the copies are that it is looked
\* up, kept or deleted by.
JobIsNotRestarted ==
    [][\A d \in Deployers, w \in Workloads :
           (/\ dep[d].exists
            /\ dep[d].spec.round <= dep[d].currentRound
            /\ w = <<"job", dep[d].currentRound>>
            /\ work[d][w] # "none")
               => work'[d][w] # "none"]_vars

\* A deployer is called Done only if the job of its recorded round succeeded.
DoneMeansSucceeded ==
    [][\A d \in Deployers :
           dep[d].phase # "Done" /\ dep'[d].phase = "Done" =>
               work[d][<<dep[d].spec.type, dep[d].currentRound>>] = "Succeeded"]_vars

\* No deployer is forgotten: while the manager runs, one whose status is not
\* final is in the queue, in progress, or has an event on its way.  (Final are
\* Done and Failed in the round asked for, UNDO for an earlier one and, because
\* the code stops polling there, a service that runs.)
Settled(object) ==
    \/ /\ object.spec.round = object.currentRound
       /\ \/ HashDone(object.phase)
          \/ object.spec.type = "service" /\ object.phase = "Doing"
    \/ object.spec.round < object.currentRound /\ object.phase = "UNDO"

NobodyIsForgotten ==
    ~At("down") =>
        \A d \in Deployers :
            dep[d].exists =>
                Settled(dep[d]) \/ d \in queue \/ run.d = d \/ ~depFresh[d]

\* Users, workflows and crashes stop some day, and no pool in use is deleted.
Quiet == <>[][~DeployerUser /\ ~PoolUser /\ ~Crash]_vars
PoolsStay == [](\A p \in Pools : ~pool[p].deleting)

\* Then every deployer marked for deletion is gone for good,
DeletionCompletes == Quiet /\ PoolsStay => <>[](\A d \in Deployers : ~dep[d].deleting)

\* a deployer whose round is not the one its spec asks for is held up by a
\* pool that does not exist or whose Free does not fit it (or by the bound of
\* the model), and by nothing else,
HeldUpByPool(d) ==
    LET p == dep[d].spec.pool IN
    \/ ~pool[p].exists
    \/ pool[p].free = NoAmount
    \/ ~Fits(dep[d].spec.amount, pool[p].free)
    \/ Len(pool[p].usage) >= MaxUsage

RoundIsReached ==
    Quiet /\ PoolsStay =>
        <>[](\A d \in Deployers :
                 dep[d].exists /\ ~dep[d].deleting /\ ~HeldUpByPool(d)
                     => dep[d].currentRound >= dep[d].spec.round)

\* and a job that has succeeded in the current round is reported Done.
SuccessIsReported ==
    Quiet =>
        <>[](\A d \in Deployers :
                 (/\ dep[d].exists /\ ~dep[d].deleting
                  /\ dep[d].spec.round = dep[d].currentRound
                  /\ work[d][<<dep[d].spec.type, dep[d].currentRound>>] = "Succeeded")
                     => dep[d].phase = "Done")

-----------------------------------------------------------------------------
(* Statements of the repository that the code does not keep: each is refuted *)
(* by a run of its own, and README.md says how. *)

\* resourcepool_controller.go:92, "check validation of the resource pool", and
\* deployer.go:144, "resource pool is not enough": the reservations of a pool
\* fit its capacity (the instance has one capacity, so no pool is resized).
ReservationsFitCapacity ==
    \A p \in Pools : Remaining(pool[p].capacity, pool[p].usage) \in Resource

\* deployer.go:101, "release the resource usage", resourcepool_controller.go:71,
\* "wait for the resource to be released": a deployer that is gone holds none.
GoneDeployersHoldNothing ==
    \A d \in Deployers, p \in Pools : Holds(pool[p].usage, d) => dep[d].exists
=============================================================================
