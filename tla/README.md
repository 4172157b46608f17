# A verification of cloudrun

cloudrun is a Kubernetes operator (kubebuilder, controller-runtime). Users write
`Workflow`, `Builder`, `Deployer` and `ResourcePool` objects; the manager's
controllers turn them into jobs, stateful sets and services and report what
becomes of them in the objects' statuses. These modules model the controllers as
TLA+ specifications; TLC checks them on small instances and TLAPS proves theorems
about them for every value of the constants.

Paths below are relative to the repository (`controllers/...`, `types/...`).

## 1. Inventory

### The components

**Resource pools** (`controllers/resourcepool_controller.go`,
`api/v1alpha1/resourcepool_types.go`, `types/resource.go`).
State: a capacity, the finalizer, `Status.Usage` (the list of reservations) and
`Status.Free` (nil until the first reconciliation).
Operations: `Reconcile` adds the finalizer, recomputes Free from the usage list
and refuses to write a negative one; a pool marked for deletion waits until its
list is empty. The list itself is written by deployers, not by this reconciler.
Correct when: no reservation is lost, doubled or overwritten by a stale copy; a
pool in use does not disappear; Free becomes what capacity and usage determine;
an empty pool can be deleted.

**Deployers** (`controllers/deployer_controller.go`,
`controllers/deploy/deployer.go`).
State: the spec (round, pool, type, amount), the status (phase, current round,
pool name, history), the finalizer.
Operations: `Reconcile` reads a cached copy and takes one of these ways: deletion
(release, drop the finalizer), first visit (add the finalizer), an earlier round
asked for (UNDO), a new round (`CleanupForNextRound`, `BackupState`,
`BegResource`, status update), the current round (`Handle`, status).
`BegResource` and `ReleaseResource` write the pool. `recover` publishes a panic.
Correct when: the history is the sequence of rounds; a reservation is held as
long as the round's workload runs and given back after it (the code keeps this of
Job objects, not of their pods, see the weaknesses); the status is that of the
workload; deletion and new rounds complete.

**Workloads** (`controllers/core/job.go`, `controllers/core/context.go`,
`controllers/core/pod.go`, `controllers/deploy/service.go`).
State: a job or stateful set per deployer and round, its pod, and a service.
Operations: `CreateAndWatchJob`, `handleService`, `GetSubResource`,
`CreateResource` (with `update` or `force`), `DeleteJob`, `GetStatusFromPod`,
`createOrUpdateService` (the selector and the ports of the Service; the API server
gives it node ports).
Correct when: a workload of a round is created once and belongs to the recorded
round; its pod's phase is translated correctly; a service that is called Doing can
be reached at the ports of its round, and at the same node ports as before.

**Statuses and history** (`types/status.go`, `controllers/core/status.go`,
`controllers/core/history.go`, `controllers/core/utils.go`).
`PublishStatus` writes a status and only logs a failure.

**Builders** (`controllers/builder_controller.go`, `controllers/build/*.go`).
State: spec and rounds like a deployer's, one job per round, hooks that name
deployers. Operations: `Reconcile`, `TriggerDeployer` (the hook run when the job
is done: it edits the deployers), `NewJob` and the contexts that fetch sources.
Correct when: a finished build triggers every named deployer that exists, with
its own image, at least once and never before it is done.

**Workflows** (`controllers/workflow_controller.go`,
`controllers/workflow/workflow.go`). State: base, build and deploy stages and a
status composed of those of the builder and the deployer it generates.
Operations: `Reconcile`, `GenerateWorkload` (applies both objects over what is
there). Correct when: the status describes one round of both.

**Applications** (`controllers/application_controller.go`): a generated stub.
**Manager** (`main.go`): starts the controllers, one worker each.
**API types**: declarations and generated copies.

### How they interact

    user ----> Workflow --applies--> Builder --hook edits--> Deployer
                   \------------------applies------------------^
    Deployer --Beg/Release (Status.Usage)--> ResourcePool <-- its reconciler (Status.Free)
    Deployer --creates/deletes--> Job, StatefulSet --> Pod --phase--> Deployer's status
    Deployer --creates/updates--> Service --selects--> Pod (by name, round and type)

All communication goes through objects in the API server. Reads are served by
informer caches that lag; a write succeeds only on the version it was computed
from, otherwise it conflicts. Each controller has one worker, so two
reconciliations of one kind never overlap, but those of different kinds do.
Jobs, stateful sets and Services are not watched: the deployer reconciler polls,
until the status is final or, for a service, Doing.

### What is hard

- Two controllers write different fields of one pool status (`Usage`, `Free`) by
  whole-status updates from cached copies.
- A grant and the record of it are two writes to two objects; a conflict, an
  error, a panic or a crash may come between them.
- A new round is a sequence of some six API calls, each of which may fail and be
  repeated from a copy that is out of date.
- Existence of a workload is decided by a lagging cache, its deletion acts on
  the live object.
- A failed status write is only logged, so something must reconcile again.
- Objects are written by several clients (user, builder hook, workflow), of which
  one replaces the metadata and with it the finalizer.
- A Job is deleted without a propagation policy: its pod goes on.
- A service that is called Doing is left alone: what a stale copy or a conflict has
  left undone by then stays undone.

`PROJECT.json` lists each of these hazards at its line with the properties that
cover it.

## 2. Modules

| module | models | extends |
|---|---|---|
| `Resources` | amounts, usage lists and the arithmetic of Free | |
| `PoolLedger` | abstract: what a pool promises its clients | `Resources` |
| `ResourcePool` | pools, cache, reconciler, Beg and Release | `Resources` |
| `CommonStatus` | statuses, history entry, pod phases | |
| `RoundLedger` | abstract: what an object with rounds promises | `CommonStatus` |
| `Deployer` | deployers, workloads, users, workflows, crashes, over `ResourcePool` | `ResourcePool`, `CommonStatus` |
| `Service` | deployers of type service: stateful sets, the Service, its ports, pods by label | `CommonStatus` |
| `Builder` | builders, their jobs and Dockerfiles, the hooks that write deployers | `CommonStatus` |
| `Workflow` | workflows, what they generate, and the hook between them | `CommonStatus` |
| `MCResourcePool`, `MCDeployer`, `MCService`, `MCBuilder`, `MCWorkflow` | the instances TLC checks | |
| `ResourcesProofs`, `ResourcePoolProofs`, `RoundLedgerProofs` | theorems about pools and rounds | |
| `DeployerProofs`, `DeployerWorkProofs` | theorems about deployers: types and refinements; workloads and reservations | |
| `ServiceProofs`, `BuilderProofs`, `WorkflowProofs` | theorems about these | |

`Deployer` composes deployers and pools in full detail. `Builder` composes builders
with deployers reduced to what `RoundLedger` says of them (a round asked for, a
round reached, versions). `Workflow` composes the workflow reconciler with a builder
and a deployer that are both reduced in this way, and with the hook in detail.
`Service` looks at the part of `handleService` that `Deployer` takes in one step, and
reduces in turn what `Deployer` has in detail (finalizer, deletion, pools, history).

### Abstractions shared by all modules

- *Versions.* A write succeeds only on the current resource version. The models
  keep, instead of version numbers, whether a copy is still the server's version
  (`poolFresh`, `depFresh`, `run.fresh`). A write that changes nothing makes no
  new version, as in the API server.
- *Events.* The cache of a kind either follows the server at once or, with
  `PoolsLag`, `DeployersLag`, `WorkLag` and so on, at any later time (`SyncPool`,
  `SyncDeployer`, `SyncWork`); the event is what wakes the reconciler.
- *One worker.* A reconciliation of a deployer is in progress or none is (`run`).
- *Data.* Amounts are functions from resource kinds to naturals; specs keep the
  round, the pool, the type and the amount; those of services their ports. Pod
  templates, times and messages are left out.

### `ResourcePool`

`pool` is the object in the server, `poolCache` the informer's copy. A Get and
the one write that follows it in the code are one action: nothing else is read in
between, and a write whose copy is not current conflicts and changes nothing.
The exception is the first visit, where `Reconcile` adds the finalizer and goes
on with the copy the Update returned: `poolHeld` marks the pool in between, so
that a grant, a resize or a crash can fall between the two writes.

| action | code |
|---|---|
| `DropPoolFinalizer`, `AddPoolFinalizer`, `PublishFromCache`, `PublishAfterFinalizer` | `ResourcePoolReconciler.Reconcile` |
| `AbandonPool` | its error exits after the finalizer, and the end of the process |
| `BegGranted`, `BegRefused`, `BegPanics`, `RetriesUsedUp` | `Context.BegResource` |
| `Released`, `NothingToRelease`, `ReleaseFails` | `Context.ReleaseResource` |
| `CreatePool`, `ResizePool`, `DeletePool` | users |

A `RetryOnConflict` that succeeds is one action at the moment of its last try;
one whose retries are used up returns the conflict (`RetriesUsedUp`).

### `PoolLedger`

One step per promise: a pool opens, is resized, is marked, closes only with an
empty list, its Free is recomputed only to what capacity and usage determine, a
grant is checked against the Free of this moment and appended, a return removes
the first entry of its owner. `ImplementsLedger` says that `ResourcePool` (and,
composed, `Deployer`) implements it under the mapping that forgets the
finalizer, the cache and the worker.

### `Deployer`

`dep` is the server's copy, `depCache` the informer's, `queue` the work queue,
`run` the reconciliation in progress: its copy of the deployer (which the code
mutates step by step), whether that is still current, and where it is (`pc`).

| `pc` | actions | code |
|---|---|---|
| `idle` | `Get` | `Reconcile`, the cached Get and the branches |
| `finalize`, `dropFinalizer` | `Finalize`, `DropFinalizer` | deletion |
| `addFinalizer` | `AddFinalizer` | first visit |
| `undo` | `Undo` | an earlier round is asked for |
| `cleanup`, `release` | `Cleanup`, `ReleaseOld` | `CleanupForNextRound`, `BackupState` and the new round's copy |
| `beg`, `save` | `Beg`, `BegFails`, `BegPanic`, `Save` | `BegResource`, status update, `recover` |
| `handle`, `create` | `HandleMissing`, `HandleWatch`, `HandleFails`, `KeepJob`, `ForceDelete`, `CreateWorkload` | `Handle`: `handleJob`/`CreateAndWatchJob`, `handleService` |
| `publish` | `Publish` | the last `PublishStatus` and the requeue |
| any write | `Conflict` | an Update that is not current |

`work[d][<<type, round>>]` is the workload of a deployer, named
`<deployer>-<round>` in the code, with the state of its pod; `workCache` is what
`GetSubResource` and `GetPodsByLabel` see. `ctx.Delete` names no propagation policy
(`job.go:123`), for which the API server's default for a batch/v1 Job is to orphan the
pod: `DeleteJob` takes the Job away and leaves a pod that has not ended behind, in
`orphans`, until it ends by itself. The environment: `CreateDeployer`,
`EditDeployer` (a user, or the hook of a builder), `DeleteDeployer`,
`ApplyDeployer` (a workflow, which replaces the metadata), `MovePod`, `OrphanEnds`,
`CollectGarbage`, `Resync`, `Crash` and `Start`.

`JobsAccepted` is a premise about the cluster. The pod template of a deployer's Job
sets no restart policy (`deploy/deployer.go:276`), which defaults to Always, and a
plain API server refuses such a Job (FALSE: `CreateWorkload` is disabled for jobs and
`HandleFails` is what remains). What is said of jobs that run (`DoneMeansSucceeded`,
`SuccessIsReported`, `JobIsNotRestarted`) has content only where TRUE, that is, where
something in the cluster fills the policy in.

### `Service`

`service[d]` is the Service of a deployer: its selector, that is, the round, and its
ports with their node ports (`None` until the API server gives one); `serviceCache`
is what `createOrUpdateService` reads. `sets[d][r]` is the stateful set of a round
with the state of its pod, `namesake[d]` the pods of deployers of the same name in
other namespaces, which have the same labels.

| `pc` | actions | code |
|---|---|---|
| `idle` | `Get` | `Reconcile`, the cached Get and the branches |
| `undo`, `save` | `Record` | UNDO, or the next round with its status (in one step) |
| `handle` | `HandleMissing`, `ReadService` | `handleService`: no stateful set of the round, or `createOrUpdateService` up to the write |
| `createSet` | `CreateSet` | `createStatefulSet` |
| `updateService` | `UpdateService` | the Update of a Service that was found |
| `createService` | `DeleteService`, `CreateService` | `CreateResource` by force: the live object is deleted first |
| these three | `ServiceFails`, `ApiRejects` | the error exits, after which Failed is published |
| `watch` | `Watch` | `GetPodsByLabel` and `GetStatusFromPod` |
| `publish` | `Publish` | the last `PublishStatus` and the requeue, which Doing does not have |

`Accepted` and `Given` are the API server's part: a Service has ports, no two of one
name; node ports that are set are kept, free ones are given to the rest.

### `RoundLedger`

One step per promise: an object appears, is asked for a round, is marked and
vanishes; `MoveOn` takes it to exactly the round asked for at that moment and
archives the one that ends; `Report` sets a status for the round asked for, UNDO
only for an earlier one. `ImplementsRounds` says that `Deployer` and `Builder`
implement it under the mapping that forgets finalizers, caches, queues and
workloads.

### `Builder`

`builder`, its cache, `queue` and `run` are as in `Deployer`; `jobs[b][r]` is the
build job of a round with the image it pushes and how it gets its Dockerfile,
`dockerfile[b]` the config map of a raw Dockerfile, `pushed` the registry. As for
deployers, `DeleteJob` leaves the pod behind: `orphans[b]` are the images that pods of
deleted jobs may still push (`OrphanEnds`, with or without a push).

| `pc` | actions | code |
|---|---|---|
| `idle` | `Get` | `Reconcile`, the cached Get and the branches |
| `addFinalizer`, `dropFinalizer`, `undo` | `AddFinalizer`, `DropFinalizer`, `Undo` | the same branches as the deployer's |
| `cleanup`, `save` | `Cleanup`, `Save` | `DeleteJob`, `BackupState`, the new round's status |
| `handle` | `HandleMissing`, `HandleWatch`, `HandleFails` | `CreateAndWatchJob` |
| `dockerfile`, `create` | `DeleteDockerfile`, `CreateDockerfile`, `CreateJob` | `NewJob` with the raw context, `CreateResource` |
| `hookGet`, `hookUpdate` | `HookGet`, `HookUpdate`, `HookFails` | `TriggerDeployer`, one Get and one Update per hook; the Update conflicts or is rejected |
| `publish` | `Publish` | the last `PublishStatus` and the requeue |

### `Workflow`

`workflow`, its cache, `queued` and `run` are as above for the one workflow;
`builder` and `deployer` are the objects of its name, `hook` the builder's hook in
progress (with the round of the builder when it began), `work` the
jobs and stateful sets by type and round. A job has one entry whoever creates it,
because builder and deployer have the same name and both name it `<name>-<round>`;
its image tells a deployer's job from a build job. `deployer.from` is the round of the
workflow whose spec the deployer was generated from, as `builder.round` is for the
builder, whose round nobody else writes. Deployers' Jobs are taken to be accepted here,
and a Job that is deleted frees its name.

| `pc` | actions | code |
|---|---|---|
| `idle` | `Get` | `WorkflowReconciler.Reconcile`, the cached Get and the branches |
| `addFinalizer`, `dropFinalizer`, `base` | `AddFinalizer`, `DropFinalizer`, `Base` | first visit, deletion, `Status.Base` |
| `builder`, `deployer` | `ApplyBuilder`, `ApplyDeployer`, `GenerateFails` | `GenerateWorkload`, one `CreateResource` each |
| `save` | `Undo`, `Save` | the status that follows |
| `getBuilder`, `getDeployer` | `GetBuilder`, `GetDeployer` | the two Gets and the composition |
| `publish` | `Publish` | `PublishStatus` |

The builder's and deployer's own reconciliations are atomic steps (`BuilderMovesOn`,
`StartsBuild`, `BuilderReports`, `DeployerMovesOn`, `Deploys`, ...), of which
`Builder` and `Deployer` have the detail. The hook is not atomic (`BuilderReports`,
`HookRuns`, `BuildIsDone`), since a generation may fall between its steps.
`Restart` ends whatever is in progress. What a deleted workflow owned works on until
it is collected (`CollectGarbage`), all at once.

## 3. What TLC checks

| run | properties | instance |
|---|---|---|
| `pool` | `PoolTypeOK`, `ReservationsProtected`, `ImplementsLedger`, `FreeConverges`, `EmptyPoolsGo` | 1 pool, 2 owners, capacities 2 and 3, requests 1 and 2, 3 entries, stale cache |
| `deployer_jobs` | `TypeOK`, `NoStrayWorkload`, `ImplementsRounds`, `JobDeletedBeforeReleased`, `DoneMeansSucceeded` | 1 job deployer, rounds 1 and 2, 2 entries, stale pools, API errors, crashes |
| `deployer_two` | `ReservationsProtected`, `RecordedPoolIsReserved`, `ImplementsLedger` | 2 deployers of type service, 1 round, workflow applies, stale workloads whose pods stay as they are, crashes, symmetry |
| `deployer_live` | `NobodyIsForgotten`, `JobIsNotRestarted`, `DeletionCompletes`, `RoundIsReached`, `SuccessIsReported` | 1 job deployer, 1 round, stale deployers and workloads, crashes |
| `builder_jobs` | `TypeOK`, `NobodyIsForgotten`, `NoStrayJob`, `JobsFindTheirDockerfile`, `ImplementsRounds`, `TriggeredImageIsPushed`, `ForcedRoundsGrow`, `DoneMeansTriggered` | 1 builder with a raw Dockerfile, rounds 1 and 2 with a destination each, forced hooks (2 in round 1, 1 in round 2), stale builders, API errors, crashes |
| `builder_live` | `RoundIsBuilt`, `SuccessIsReported` | 1 builder, 1 round, 1 hook without ForceRound, everything stale, deployers come and go, API errors, crashes |
| `workflow` | `TypeOK`, `DeployerFollowsBuilder`, `FakeImageNeverRuns`, `RoundIsGenerated`, `NobodyIsForgotten`, `ImplementsRounds` | 1 workflow that builds and serves, rounds 1 and 2, stale workflows, errors, restarts |
| `workflow_live` | `StatusSettles` | the same, with a current cache and fairness |
| `services` | `TypeOK`, `AtRestServed`, `DoingMeansServed`, `NodePortsAreKept` | 1 service, rounds 1 and 2 with one port, two, or none exported, 2 node ports, a namesake, stale deployers and Services, API errors, crashes |

What they say of the code, in short:

- *Pools.* A pool with reservations exists and keeps its finalizer; every write of
  reconciler and clients is a step of the ledger; Free converges; an empty pool
  that is marked goes.
- *Rounds.* From whatever copy it is computed, a status that is written moves the
  object (deployer, builder or workflow) to the round asked for at that moment,
  archives the one that ends, once, and never reports for another round.
- *Workloads.* A job belongs to the recorded round, is created once, and Done is
  its success; resources are given back after its Job object is deleted (not: after
  its pod has ended).
- *Services.* A service is called Doing, and left alone, only when its Service selects
  the pods of its round and has the ports asked for; ports keep their node ports.
- *Hooks.* A deployer is given an image only when it has been pushed; a build is
  Done only when all its hooks were heard; forced rounds do not go back.
- *Generation.* In the recorded round of a workflow, the builder and the deployer that
  are there were generated from the spec of this round and no other; the deployer never
  gets ahead of the builder and never runs the placeholder image. (Which round and image
  a hook has given the deployer since is not part of it, see the weaknesses.)
- *Liveness.* Rounds are reached, results reported and deletions completed; a workflow
  settles on the status of what it deployed, whatever it showed before.

*Why the bounds are enough.* The pool is the only object deployers share, and what
goes wrong on it goes wrong between two clients, or between one client and the
reconciler, so one pool and two owners suffice; capacities and requests are such
that one reservation fits alone and two do not, or just do. `MaxUsage` cuts off
lists longer than three (`pool`) or two (deployers): a longer list repeats the same
entries (the leak below grows without bound). A refusal at the bound behaves as a full pool. Rounds: a
stale copy can be one round behind, or ahead of what the user asks for now, which
takes two, as does a history to which an entry is added. Deployers interact only through the
pool, which is why the runs on rounds, workloads and liveness have one, and
builders not at all, so each run has one. `MaxRound` bounds the rounds
that the deployers of builders move on to, not those they are asked for, so a hook that
is run again is never cut off: in `builder_live`, where it is 1, a hook without
ForceRound asks for round 1, the deployer moves on, and the hook, run once more because
the Done status was lost, asks for round 2. In `builder_jobs` all hooks are forced, and
what round the deployers are in plays no part (0). Two hooks are needed for one
to fail after the other was heard. A workflow writes only objects of its own name,
and a Service belongs to one deployer, hence one of each; two node ports let a port
that loses its own get the other. A Service that exports nothing is what the API
server refuses, so that `ServiceFails` occurs without a conflict too.
Reservations do not depend on pods, so in `deployer_two` pods stay as they are
(`PodsMove`), which pays for the stale workloads: only from them a workload that has
appeared meanwhile is replaced by force (`ForceDelete`).
Symmetry is used only in `deployer_two`, which checks no liveness.

*Which staleness a property allows.* `NoStrayWorkload` and `JobDeletedBeforeReleased`
are checked with current caches of deployers and workloads (only the writes
conflict), `NoStrayJob`, `JobsFindTheirDockerfile` and `DoneMeansTriggered` with stale
builders but current jobs, and deployers that neither come nor go: from a stale copy the job
of an old round may be created once more and stays, see the weaknesses. The properties of the other
runs hold with the lag that their instance lists. What else they allow, and under which
premises they hold for any number of rounds, the theorems say (section 4). `ForcedRoundsGrow` leaves out a
builder that is deleted and created again, which starts over; `RoundIsGenerated` of
workflows leaves out a user who returns to the recorded
round after having asked for another (`UsersReturn`), see the weaknesses.
`DeployerFollowsBuilder` and `ImplementsRounds` are about workflows with a build stage,
which is what the run's workflow has in both rounds; without one nothing waits for a
hook, and the deployer's UNDO may show (see the weaknesses).
`RoundIsBuilt` says that the round's build is over or has its job: with stale jobs
the cached state of a job that is gone may end a round. `NodePortsAreKept` leaves
out the creation by force.

*Deadlock* is checked in every run.

*Fairness.* `PoolFairness` and the `Fairness` of `Deployer` and `Builder` assume
that an informer delivers (weak), that each reconciler's worker goes on (weak: one
worker per controller, no call blocks for ever), that the queue hands out a key
that keeps coming back (strong, `SF_vars(Get(d))`: the work queue is first in,
first out, but `Get(d)` is disabled while the worker is busy), that a crashed
manager is started again and that the garbage collector runs. The pod, the users
and the crash have no fairness. The liveness properties hold under `Quiet`
(users, other writers, crashes and errors of the API server stop) because a user who edits for ever can
starve any controller; `DeletionCompletes` and `RoundIsReached` also need
`PoolsStay` (no pool is marked for deletion), see the weaknesses.

The `Fairness` of `Workflow` is weak fairness of its informer and of the three
controllers (one key each, so no strong fairness is needed). Its `Quiet` asks of the
users that spec and deletion stay, of the API server that it rejects nothing, and of
the pods that they stay as they are. It cannot say "no `Restart`" as an action: where
a handler has only to end, the step of the restart is the step of the handler, so it
says that no step is a restart unless it is also a controller's.
`StatusSettles` then says that the round is reached and, when the hook has asked the
deployer for it, that the workflow keeps the status of the deployer's pod. That this
needs the deployer's controller has been seen by leaving out its fairness.

*Vacuity.* Every property has a mutant in `PROJECT.json`: a changed definition,
kept next to the original in the module under the comment "Mutant:", with which
the same run fails.

### Statements that the code does not keep

Three runs end in a counterexample to a statement of the repository.

- `overcommit`: `BegResource` does not lower `Free`; until the pool is reconciled
  a second deployer is checked against the same Free. The sum exceeds the
  capacity, after which the pool's reconciler fails (negative Free) and the old
  Free stays, so that further grants succeed.
- `orphan_reservation`: the grant is written to the pool before the pool's name
  is written to the deployer. If the deployer is marked for deletion in between,
  the status update conflicts, `ReleaseResource` finds no name, and the entry
  stays for good.
- `job_name_shared`: builder and deployer of a workflow have the workflow's name,
  and `GetSubResource` looks a job up as `<name>-<round>`. A deployer of type job
  is asked by the hook for the builder's round, finds the build job, which has
  succeeded, and reports Done; its own job is never created, and the workflow is
  Done although `types/status.go:27` says that it "has been deployed".

### Weaknesses met while modelling, without a run of their own

Deployers and pools:

- A pool whose Free is still nil makes `BegResource` panic (`deployer.go:142`).
  The recovered reconciliation publishes the copy, whose `CurrentRound` has
  already moved, so the next reconciliation creates the workload though nothing
  was reserved.
- A refusal sets `StatusFailed` on the copy only (`deployer.go:143`); the error
  return skips every status update, so the stored status never shows it.
- A crash, or a conflict, between grant and status update
  (`deployer_controller.go:142`) leaves a reservation; the next try for the same
  round begs again and may be refused because of its own entry, for good. If it is
  granted, there are two entries of which a release removes the first: the other stays
  in the pool as long as the releases do not outnumber the grants.
- After `ReleaseResource` for a next round that is not granted, the stored status
  names the old pool. When that pool goes, `GetCurrentResourcePool` returns
  NotFound and neither the next round nor the deletion can proceed
  (`deployer.go:92`); this is why `DeletionCompletes` needs `PoolsStay`.
- The history entry of a round carries the spec of the next one
  (`deployer.go:191`: `BackupState` runs when the spec has changed).
- The Job of a round is deleted without a propagation policy (`core/job.go:123`), so its
  pod goes on by default, and the reservation of the round is given back while it runs
  (`deployer.go:183`): `JobDeletedBeforeReleased` is about Job objects.
- The Job of a deployer has no restart policy (`deploy/deployer.go:276`). Unless
  something in the cluster fills it in, the API server refuses the Job, and the deployer
  is Failed and tried again, for ever (`JobsAccepted`).
- UNDO is only a status: workload and reservation of the current round stay.
- A user who asks for the next round and takes it back while the reconciliation is at
  it: the job of the current round has been deleted and is created again, and its
  reservation has been given back, though the status goes on naming the pool, and is
  not begged again in that round (`deployer_controller.go:121`). A reconciliation from a stale copy
  that still asks for the round gives back the reservation of a deployer that has
  moved on already. Hence the premises of `RecordedPoolsAreReserved` and
  `JobsAreNotRestarted`.
- The stateful set of an old round stays: `deleteDeployment` looks for a
  `Deployment`, but `createStatefulSet` creates a `StatefulSet` (`service.go:88`).
- `createStatefulSet` creates by force: if the cache has not seen the stateful
  set yet, the one that runs is deleted and created again (`service.go:188`).
- So is a Service that the cache has not seen yet: its node ports change, and a crash
  in between leaves none until the next reconciliation (`service.go:174`).
- A service that exports no port, or the same port of two containers, has a Service
  that the API server refuses: it is Failed, and tried again, for ever
  (`service.go:143`).
- An edit of the ports alone is no new round, but changes the Service of the current
  one; an earlier round that is asked for changes nothing but the status.
- The pods of a deployer are listed over all namespaces (`pod.go:30`): the pod of a
  namesake in the same round may give the status.

Builders:

- A hook that is run again, because the Done status was lost in a conflict, asks a
  deployer without ForceRound for one more round of the same image. `builder_live` has
  this behaviour; no property forbids it, because no document promises one round.
- The pod of a build whose Job has been deleted for the next round goes on
  (`core/job.go:123`) and may push its image after the next build has begun.
- Every attempt to create a job replaces the config map of a raw Dockerfile. From a
  stale cache of jobs the attempt is made although the job exists, and a job that
  still waits for the old file name never starts (`raw.go:48`).
- A deployer that the cache does not have yet is passed over by the hook.

Workflows:

- `GenerateWorkload` can be repeated for one round (a conflict of the status that
  follows is enough), but is not idempotent: the builder gets a new destination (a
  UUID), so a hook that runs later hands over an image nobody pushed; and the
  deployer's round goes back to -1, so when the hook has run already, it is not
  asked for the round again and the workflow stays Doing.
- A hook that is under way while the deployer of the next round is generated may give
  this deployer the round and the image of the build that the hook belongs to.
- A build that fails leaves its workflow Doing: the deployer, never asked for its
  round, is UNDO or has no status, which the composition turns into Doing.
- In a new round the workflow may report the Done of the last one until the builder
  (or, without a build stage, the deployer) has moved on; this is put right because it
  goes on polling.
- Without a build stage the deployer's status is the workflow's. If a user takes a round
  back while it is being generated (the deployer has been asked for 2 and is in it, the
  spec says 1 before the status follows, which is then lost in the conflict), the
  next generation asks the deployer for 1, an earlier round for it, so it is UNDO; the
  workflow, for which 1 is new, records it and then shows the deployer's UNDO in the
  round it is asked for, and its deployer stays in 2. `ImplementsRounds` fails for that
  reason when the specs have no build stage.
- A user who asks for an earlier round and then again for the recorded one (2, 1, 2)
  leaves builder and deployer in round 1 for good: in the recorded round nothing is
  generated.
- A workflow without build stage and without base image makes `GenerateWorkload`
  panic after `BackupState`: the copy that is published has one more history
  entry each time. `Status.Stage` never leaves Pending.

## 4. What is proved

All theorems hold for every value of the constants that satisfies the stated
assumptions (`AmountsAssumption`, `PoolAssumption`, `SpecsAssumption`,
`ServiceAssumption`, `BuilderAssumption`, `WorkflowAssumption`): any number of pools,
deployers, builders and resource kinds, any capacities, specs, hooks, ports and rounds
other than 0, any `MaxUsage` and `MaxRound`, any combination of stale caches, errors
and crashes. Round 0 is excluded because a new object's recorded round is 0. Where a
theorem needs more, its statement has the assumption to the left of `Spec`.

**`ResourcesProofs`**: `FirstOfIsFirst`, `WithoutRemovesOne` and what they rest on
say what removing the first entry of an owner from a usage list does (the list
is one shorter, what was before the entry stays, what was behind it moves up).

**`ResourcePoolProofs`**

- `PoolTypeCorrect`: `PoolSpec => []PoolTypeOK`, types and "a copy called current
  is the server's".
- `ReservationsAreProtected`: `PoolSpec => []ReservationsProtected`. The property
  is not inductive: a grant is computed from the cached copy, which may never
  have been protected. The inductive invariant `PoolInv` adds, for each pool, the
  chain that leads there (`Guarded`): a pool with a Free has its finalizer, a pool
  with entries has a Free, an absent pool has neither, and a held pool is one
  whose finalizer has been written; with the equality of current copies this
  carries over to the copy every grant is computed from.
- `PoolsImplementLedger`: `PoolSpec => ImplementsLedger`. Each action maps to a
  ledger step or a stutter, by the invariant: `DropPoolFinalizer` is a `Close`
  because the current copy's list is empty, a published Free is the one that the
  current list determines, and so on.

**`RoundLedgerProofs`**: `HistoriesAreOrdered`, that whatever implements the ledger of
rounds has ordered histories, by an invariant that bounds every entry by the current
round.

**`DeployerProofs`**

- `DeployersTypeCorrect`: `Spec => []TypeOK`, by the inductive invariant
  `DeployerInv`. Besides the types it says what the copy of a reconciliation has to
  do with the server's object (`Agrees`): while the copy is current, which is when
  its write succeeds, it has the object's spec, history and round, except at `beg`
  and `save`, where the copy is exactly the next round of the object.
- `DeployersArePoolClients`: every step of `Deployer` is a step of `ResourcePool`
  or leaves its variables alone, so `Spec => PoolSpec`; with it
  `ReservationsAreProtectedAmongDeployers` and `DeployersImplementLedger` follow
  from the theorems on pools.
- `DeployersImplementRounds`: `Spec => ImplementsRounds`. By `Agrees`, a successful
  `Save` is a `MoveOn` and every other successful write a `Report` or a stutter; a
  user's write is one of the others. No cache occurs in the argument other than
  through "current copies are the server's".
- `DeployerHistoriesAreOrdered`: `Spec => []HistoryIsOrdered`, from the two above.

**`DeployerWorkProofs`**, on top of `DeployerInv`

- `NoDeployerIsForgotten`: `NobodyIsForgotten`, by `WatchInv`: a reconciliation whose
  copy is out of date has its key in the queue or an event on its way.
- `DoneIsASuccess` (with current workloads): `DoneMeansSucceeded`, by `SeenInv`: a
  copy that says Done was made from a job that succeeded and that nobody has touched.
- `NoWorkloadIsStray` and `DeletedThenReleased` (`JobDeletedBeforeReleased`), under
  `InOrder` (all deployers are jobs, current copies, no workflow replaces the metadata).
  `StrayInv` says how far the deletion of the old job has come at each `pc`; `FinalInv`
  adds the way of a deletion. Nothing is said of the pod that a deleted Job leaves
  behind.
- `RecordedPoolsAreReserved`: `RecordedPoolIsReserved` where nobody asks for an earlier
  round than before (`NobodyGoesBack`, an action property of the users and workflows)
  and either copies of deployers are current or all specs ask for one round
  (`OneRound`). The invariant `HeldInv` says that a recorded pool, and the one that a
  reconciliation is about to record, holds an entry, and that a reconciliation which is
  on its way to a release either has nothing to release or acts on a deployer that is
  `Dispensable`: deleted, or asked for a later round, which nobody takes back. That
  other clients do not take the entry is shown by counting: every step but the owner's
  own release `Keeps` the number of its entries.
- `JobsAreNotRestarted`: `JobIsNotRestarted` under `NobodyGoesBack`, whatever is stale.
  By `AheadInv` no copy, cached or in use, asks for a later round than the server's
  object once that is in a round; by `JobInv` a cleanup is only made for a copy that
  asks for a later round than it records, and no workload is of round 0. So a cleanup
  that finds the job of the recorded round acts on a deployer that is asked for a later
  round.

**`ServiceProofs`**, by the inductive invariant `ServiceInv`

- `ServicesTypeCorrect`: `Spec => []TypeOK`.
- `RestIsServed` and `DoingIsServed`: `AtRestServed` and `DoingMeansServed`, whatever
  is stale. A Service is not polled, so the invariant follows what the reconciler
  knows: from the moment it has written the Service (`watch`, and `publish` with a
  status that ends the polling) the Service fits its copy (`Fits`); its copy is the
  server's object but for the phase, or somebody has changed it, and then the
  deployer is in the queue or its event is on its way (`Owed`).
- `NodePortsKept`: `NodePortsAreKept`. An update that succeeds was computed from the
  Service as it is, whose ports have different names and all a node port (`Sound`).

**`BuilderProofs`**

- `BuildersTypeCorrect` and `BuildersImplementRounds`: as for deployers, by
  `BuilderInv`, whose `Agrees` includes what is known while the hooks run.
- `NobodyForgotten`: `NobodyIsForgotten`, by `Remembered`.
- `BuilderHistoriesAreOrdered`, from the refinement and the theorem on the ledger.
- `OnlyPushedImagesAreTriggered`, under `OneDestination` (a round has one destination)
  and `HooksHandOver` (hooks hand over what was built): `TriggeredImageIsPushed` with
  everything stale, by `PushedInv`: a job that is seen to have succeeded has pushed the
  image of its round.
- `NoJobIsStray` and `EachJobFindsItsDockerfile`, with a current cache of jobs: the
  cached copy of a builder is one that the server had (`Lineage`), so that a stale
  copy cannot be ahead, and `JobsInv` says which jobs a copy can create or delete.
- `HooksNeverSendBack`, with one builder (`OneBuilder`), each of whose deployers is forced
  by all its hooks or by none (`HooksOfOneKind`): `ForcedRoundsGrow` with everything
  stale. By `HookRound` a reconciliation that runs hooks is in the round of the server's
  object, however old its copy; by `TargetInv` a deployer that no hook forces is never
  asked for more than the round after its own, so that what a hook without ForceRound
  writes is no step back.
- `DoneAfterAllHooks`, with current jobs and deployers that stay (their copies may be
  stale), one destination per round, and hooks that agree (`HooksAgree`: of two hooks of
  a builder on one deployer, the later asks for what the earlier did): `DoneMeansTriggered`.
  `HeardInv` follows the hooks through their conflicts: those before the current one
  are heard, and whoever is about to report a first Done has run them all in this
  reconciliation, after the job had succeeded.

**`WorkflowProofs`**

- `WorkflowsTypeCorrect` and `PlaceholderNeverRuns` (`FakeImageNeverRuns`), by
  `WorkflowInv`: the placeholder stands only where round -1 is asked for.
- `DeployersFollow`, under `EverybodyBuilds`: `DeployerFollowsBuilder`, by `Follows`,
  which bounds the round that the deployer is asked for, and the hook's, by the
  builder's.
- `RoundsAreGenerated`, without `UsersReturn`: `RoundIsGenerated`, by `Generated`,
  which says at each `pc` which of the two objects has been written from the spec of the
  round. For the deployer that is `from` and the type; a hook and the deployer's own
  reconciler keep both.
- `NobodyForgotten`: `NobodyIsForgotten`.
- `WorkflowsImplementRounds`, under `EverybodyBuilds`: `ImplementsRounds`. Writes of the
  spec and the generation are as for deployers (`RoutedInv`: a copy that is current is at
  a `pc` that its rounds lead to). A status that is published has to be shown to be no
  UNDO unless the workflow has one already, though it is composed of two objects read
  one after the other, which their reconcilers and the hook change in between. By
  `ComposedInv` a workflow in a round has its builder, and so has a reconciliation that
  is about to save its first one; so a current reconciliation has seen a builder, and
  from then on the composition passes on no status of a deployer that has not started.
  Without a build there is no builder to see, and the weakness above is the
  counterexample that TLC finds.
- `RecordedRoundsAreExact` and `WorkflowHistoriesAreOrdered`: the part of that promise
  which holds whatever is built. The round that is recorded is the one asked for at that
  moment, and a later one; the round that ends is archived with the status shown last
  (`CopyInv`: a current copy is the workflow until it is given a composed status); so
  the history is in order. The second cites the lemma on the ledger's archive.

Only model-checked: all liveness, which is outside the prover's reach (`FreeConverges`,
`EmptyPoolsGo`, `DeletionCompletes`, `RoundIsReached`, `SuccessIsReported`, `RoundIsBuilt`,
`StatusSettles`). Every invariant and every action property of the runs is a theorem.

## 5. Not modelled

- The int32 width of the sums.
- Namespaces, except where the pods of a namesake are listed (`Service`).
- The build contexts' init containers, pod templates, environment: layout.
- Specs of workflows with nil pointers that `GenerateWorkload` follows (the panic is
  described above); the stage of a workflow.
- A name is used again only after what belonged to it has been collected. A job and its
  pod are one object while the Job is there; the Job counts as gone from the moment its
  deletion is requested, and its pod goes on in `orphans`. A stateful set goes with its
  pod.
- Builder and deployer are read as they are by the workflow model, not from a cache,
  and images lose their names there: what the hook hands over is "built". (`Builder`
  has destinations and the registry.)
- `ApplicationReconciler` (a stub), flags, probes, leader election.
- Start and end times and messages of a status.

## 6. What is left

1. Amounts in int32 (`Used` and the check of `BegResource` wrap around), as a module
   of its own checked against `Resources`.
2. An abstract specification of what a workflow promises its user (each round ends
   in the deployment of what was built in it), as far as the code keeps it, and
   `StatusSettles` with a stale cache of workflows.
3. Liveness of services: that a service whose Service is refused for a while ends
   Doing.
