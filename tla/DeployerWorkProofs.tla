------------------------- MODULE DeployerWorkProofs -------------------------
(***************************************************************************)
(* More proofs about Deployer: that no deployer is forgotten, however stale *)
(* the copies and wherever the manager crashes; that Done means a success; *)
(* where nothing is read from a stale cache, that a deployer of jobs has   *)
(* no workload of another round than its own, and gives its reservation    *)
(* back only after its jobs are deleted; and where nobody goes back to an  *)
(* earlier round, that a recorded pool is reserved and that no job is      *)
(* restarted.                                                              *)
(***************************************************************************)
EXTENDS DeployerProofs, FiniteSetTheorems

-----------------------------------------------------------------------------
(* The inductive invariants. *)

\* What is marked for deletion has the finalizer.
Marked(object) == object.deleting => object.finalizer

\* A reconciliation whose copy is current is one that sees to the deployer; one
\* whose copy is not may end without doing so.
Attended(d) ==
    Settled(dep[d]) \/ d \in queue \/ (run.fresh /\ run.d = d) \/ ~depFresh[d]

WatchInv ==
    \A d \in Deployers :
        /\ DeployersLag \/ depFresh[d]
        /\ Marked(dep[d]) /\ Marked(depCache[d])
        /\ ~At("down") /\ dep[d].exists => Attended(d)

\* What a reconciliation is about to publish has been seen.
SeenInv ==
    /\ workCache = work
    /\ At("create") => run.copy.phase = "Pending"
    /\ At("publish") /\ run.fresh /\ run.copy.phase = "Done" =>
           work[run.d][Workload] = "Succeeded"

OnlyJobs == \A spec \in Specs : spec.type = "job"

InOrder == OnlyJobs /\ ~DeployersLag /\ ~WorkLag /\ ~WorkflowApplies

\* The places of a reconciliation that has seen the finalizer: its deployer stays,
\* and in its round, until it moves it on; before that it has deleted its workload.
Sent == {"cleanup", "release", "beg", "save", "handle", "create"}

InPlace(pc, copy, object) ==
    /\ object.exists /\ object.finalizer
    /\ pc \in {"cleanup", "release", "handle", "create"} =>
           copy.currentRound = object.currentRound
    /\ pc \in {"handle", "create"} => copy.spec.round = copy.currentRound

Workless(works) == \A w \in Workloads : works[w] = "none"

StrayInv ==
    /\ workCache = work
    /\ \A d \in Deployers : dep[d].currentRound \in RoundNumbers /\ depFresh[d]
    /\ NoStrayWorkload
    /\ run.pc \in Sent => InPlace(run.pc, run.copy, dep[run.d])
    /\ run.pc \in {"release", "beg", "save"} => Workless(work[run.d])

\* Users and workflows never ask a deployer for an earlier round than before.
RoundsGrow ==
    \A d \in Deployers :
        dep[d].exists /\ dep'[d].exists => dep[d].spec.round <= dep'[d].spec.round

NobodyGoesBack == [][RoundsGrow]_vars

OneRound == \A s, t \in Specs : s.round = t.round

\* The reservation of a deployer may be given back.
Dispensable(d) ==
    \/ ~dep[d].exists \/ dep[d].deleting \/ dep[d].resourcePool = None
    \/ ~(dep[d].spec.round <= dep[d].currentRound)

\* An object in round 0 has no pool, so that there is nothing to release before
\* the first round; later the reservation is released only on behalf of a copy
\* that is as good as the server's object, nor is that of a deployer that has been
\* created again released on behalf of the one that is gone.
Rounded(object) ==
    /\ object.currentRound \in RoundNumbers
    /\ object.currentRound = 0 => object.resourcePool = None

HeldDeps ==
    \A d \in Deployers :
        /\ DeployersLag \/ depCache[d] = dep[d]
        /\ Rounded(dep[d]) /\ Rounded(depCache[d])
        /\ depCache[d].deleting /\ dep[d].exists /\ ~dep[d].deleting =>
               dep[d].resourcePool = None
        /\ \A p \in Pools :
               ~Dispensable(d) /\ dep[d].resourcePool = p => Holds(pool[p].usage, d)

HeldRun ==
    /\ Rounded(run.copy)
    /\ run.pc = "beg" => run.copy.currentRound # 0 /\ run.copy.resourcePool = None
    /\ run.pc \in {"finalize", "cleanup", "release"} =>
           run.copy.resourcePool = None \/ Dispensable(run.d)
    /\ run.fresh /\ run.pc \notin {"finalize", "dropFinalizer"} => ~depCache[run.d].deleting
    /\ run.fresh /\ run.pc \in {"create", "publish"} =>
           run.copy.resourcePool = dep[run.d].resourcePool
    /\ run.pc = "save" => /\ run.copy.resourcePool \in Pools
                          /\ Holds(pool[run.copy.resourcePool].usage, run.d)

HeldInv == HeldDeps /\ HeldRun

-----------------------------------------------------------------------------
(* No deployer is forgotten. *)

\* A write of one deployer, and what stays.
LEMMA StoredOne ==
    ASSUME DepOK, NEW d \in Deployers, NEW object, StoreDeployer(d, object)
    PROVE  /\ dep'[d] = object
           /\ DeployersLag \/ depFresh[d] => DeployersLag \/ depFresh'[d]
           /\ DeployersLag /\ object # dep[d] => ~depFresh'[d]
           /\ DeployersLag /\ object = dep[d] => depFresh'[d] = depFresh[d]
           /\ depCache'[d] \in {depCache[d], object}
           /\ ~DeployersLag => depCache'[d] = object
           /\ \A e \in Deployers : e # d => /\ dep'[e] = dep[e]
                                            /\ DeployersLag => depCache'[e] = depCache[e]
                                            /\ depCache'[e] \in {depCache[e], dep[e]}
                                            /\ depFresh'[e] = depFresh[e]
                                               \/ (~DeployersLag /\ depFresh'[e])
BY DEF StoreDeployer, DepOK

\* A step that touches only one deployer, and leaves it attended.
LEMMA AttendedStep ==
    ASSUME DeployerInv, WatchInv, NEW d \in Deployers,
           \/ UNCHANGED depVars
           \/ \E object : Marked(object) /\ StoreDeployer(d, object),
           \A e \in Deployers \ {d} : e \in queue => e \in queue',
           \A e \in Deployers \ {d} : run.fresh /\ run.d = e => run'.fresh /\ run'.d = e,
           ~At("down") \/ At("down")',
           At("down")' \/ (dep'[d].exists => Attended(d)')
    PROVE  WatchInv'
<1>1. DepOK
    BY DEF DeployerInv
<1>2. /\ DeployersLag \/ depFresh'[d]
      /\ Marked(dep'[d]) /\ Marked(depCache'[d])
      /\ \A e \in Deployers \ {d} : /\ dep'[e] = dep[e]
                                    /\ depCache'[e] \in {depCache[e], dep[e]}
                                    /\ DeployersLag \/ depFresh'[e]
                                    /\ depFresh'[e] => depFresh[e]
    <2>1. CASE UNCHANGED depVars
        BY <2>1 DEF depVars, WatchInv
    <2>2. ASSUME NEW object, Marked(object), StoreDeployer(d, object)
          PROVE  /\ DeployersLag \/ depFresh'[d]
                 /\ Marked(dep'[d]) /\ Marked(depCache'[d])
                 /\ \A e \in Deployers \ {d} : /\ dep'[e] = dep[e]
                                               /\ depCache'[e] \in {depCache[e], dep[e]}
                                               /\ DeployersLag \/ depFresh'[e]
                                               /\ depFresh'[e] => depFresh[e]
        <3>1. /\ dep'[d] = object /\ depCache'[d] \in {depCache[d], object}
              /\ DeployersLag \/ depFresh'[d]
            BY <1>1, <2>2, StoredOne DEF WatchInv
        <3>2. \A e \in Deployers \ {d} : /\ dep'[e] = dep[e]
                                         /\ depCache'[e] \in {depCache[e], dep[e]}
                                         /\ DeployersLag \/ depFresh'[e]
                                         /\ depFresh'[e] => depFresh[e]
            BY <1>1, <2>2, StoredOne DEF WatchInv
        <3> QED
            BY <2>2, <3>1, <3>2 DEF WatchInv
    <2> QED
        BY <2>1, <2>2
<1>3. ASSUME NEW e \in Deployers \ {d}, ~At("down")', dep'[e].exists
      PROVE  Attended(e)'
    BY <1>2, <1>3 DEF WatchInv, Attended
<1> QED
    BY <1>2, <1>3 DEF WatchInv

LEMMA OutsideAttends ==
    ASSUME DeployerInv, WatchInv, NEW d \in Deployers, NEW object, Marked(object),
           WriteFromOutside(d, object)
    PROVE  WatchInv'
<1>1. DepOK /\ run \in RunType
    BY DEF DeployerInv, RunOK
<1>2. /\ StoreDeployer(d, object) /\ queue' = queue \cup Woken(d, object)
      /\ run'.pc = run.pc /\ run'.d = run.d
      /\ run'.fresh = run.fresh \/ (run.d = d /\ object # dep[d])
    BY <1>1 DEF WriteFromOutside, RunType
<1>3. CASE object = dep[d]
    <2>1. /\ dep'[d] = dep[d] /\ (depFresh'[d] => depFresh[d])
          /\ run'.fresh = run.fresh
        BY <1>1, <1>2, <1>3, StoredOne DEF WatchInv
    <2>2. At("down")' \/ (dep'[d].exists => Attended(d)')
        BY <1>2, <2>1 DEF WatchInv, Attended, At
    <2> QED
        BY <1>2, <2>2, AttendedStep DEF At
<1>4. CASE object # dep[d]
    <2>1. ~depFresh'[d] \/ d \in queue'
        BY <1>1, <1>2, <1>4, StoredOne DEF Woken
    <2> QED
        BY <1>2, <2>1, AttendedStep DEF At, Attended
<1> QED
    BY <1>3, <1>4

LEMMA UsersAttend == ASSUME DeployerInv, WatchInv, DeployerUser PROVE WatchInv'
<1>1. ASSUME NEW d \in Deployers, NEW spec \in Specs, CreateDeployer(d, spec)
      PROVE  WatchInv'
    <2> DEFINE object == [AbsentDeployer EXCEPT !.exists = TRUE, !.spec = spec]
    <2>1. Marked(object)
        BY DEF Marked, AbsentDeployer
    <2> QED
        BY <1>1, <2>1, OutsideAttends DEF CreateDeployer
<1>2. ASSUME NEW d \in Deployers, NEW spec \in Specs, EditDeployer(d, spec)
      PROVE  WatchInv'
    <2> DEFINE object == [dep[d] EXCEPT !.spec = spec]
    <2>1. Marked(object)
        BY DEF Marked, WatchInv, DeployerInv, DepOK, DeployerObject
    <2> QED
        BY <1>2, <2>1, OutsideAttends DEF EditDeployer
<1>3. ASSUME NEW d \in Deployers, NEW spec \in Specs, ApplyDeployer(d, spec)
      PROVE  WatchInv'
    <2> DEFINE object == [dep[d] EXCEPT !.spec = spec, !.finalizer = FALSE]
    <2>1. ~dep[d].deleting => Marked(object)
        BY DEF Marked, DeployerInv, DepOK, DeployerObject
    <2>2. Marked(AbsentDeployer)
        BY DEF Marked, AbsentDeployer
    <2> QED
        BY <1>3, <2>1, <2>2, OutsideAttends DEF ApplyDeployer
<1>4. ASSUME NEW d \in Deployers, DeleteDeployer(d)
      PROVE  WatchInv'
    <2> DEFINE object == [dep[d] EXCEPT !.deleting = TRUE]
    <2>1. dep[d].finalizer => Marked(object)
        BY DEF Marked, DeployerInv, DepOK, DeployerObject
    <2>2. Marked(AbsentDeployer)
        BY DEF Marked, AbsentDeployer
    <2> QED
        BY <1>4, <2>1, <2>2, OutsideAttends DEF DeleteDeployer
<1> QED
    BY <1>1, <1>2, <1>3, <1>4 DEF DeployerUser

LEMMA GetAttends == ASSUME DeployerInv, WatchInv, NEW d \in Deployers, Get(d) PROVE WatchInv'
<1> DEFINE seen == depCache[d]
<1>1. DepOK /\ RunOK /\ UNCHANGED depVars /\ ~run.fresh /\ run.pc = "idle"
    BY DEF DeployerInv, RunOK, Get, At, Working
<1>2. CASE seen.exists /\ Route(seen) # "idle"
    <2>1. run'.d = d /\ run'.fresh = depFresh[d]
        BY <1>2 DEF Get
    <2> QED
        BY <1>1, <2>1, AttendedStep DEF Get, At, Attended, depVars
<1>3. CASE ~seen.exists
    <2>1. ~depFresh'[d] \/ ~dep'[d].exists
        BY <1>1, <1>3 DEF DepOK, depVars
    <2> QED
        BY <1>1, <2>1, AttendedStep DEF Get, At, Attended
<1>4. CASE seen.exists /\ Route(seen) = "idle"
    <2>1. seen.deleting /\ ~seen.finalizer
        <3>1. seen.deleting \in BOOLEAN /\ seen.finalizer \in BOOLEAN
            BY <1>1 DEF DepOK, DeployerObject
        <3> QED
            BY <1>4, <3>1 DEF Route
    <2> QED
        BY <2>1 DEF WatchInv, Marked
<1> QED
    BY <1>2, <1>3, <1>4

\* A reconciliation that has a current copy and no deletion to finish.
LEMMA CopyUnmarked ==
    ASSUME DeployerInv, run.fresh, run.pc \notin {"finalize", "dropFinalizer"}
    PROVE  /\ run.d \in Deployers /\ run.copy \in DeployerObject /\ run.copy.spec \in Specs
           /\ ~run.copy.deleting /\ Agrees(run.pc, run.copy, dep[run.d])
           /\ \A phase \in Phases : Marked([run.copy EXCEPT !.phase = phase])
           /\ Marked(run.copy)
<1>1. /\ run.d \in Deployers /\ run.copy \in DeployerObject /\ run.copy.spec \in Specs
      /\ Agrees(run.pc, run.copy, dep[run.d])
    BY DEF DeployerInv, RunOK, RunType
<1>2. ~run.copy.deleting
    BY <1>1 DEF Agrees, DeployerInv, DepOK, DeployerObject
<1> QED
    BY <1>1, <1>2 DEF Marked, DeployerObject

LEMMA ControllerAttends ==
    ASSUME DeployerInv, WatchInv, DeployerController PROVE WatchInv'
<1>0. /\ Working /\ ~At("down") /\ run.d \in Deployers /\ run \in RunType /\ DepOK
      /\ run.copy \in DeployerObject
    <2>1. Working
        BY DEF DeployerController, Conflict, AddFinalizer, Finalize, DropFinalizer, Undo,
               Cleanup, ReleaseOld, Beg, BegFails, BegPanic, Save, HandleMissing,
               HandleWatch, HandleFails, KeepJob, ForceDelete, CreateWorkload, Publish,
               At, Working
    <2> QED
        BY <2>1 DEF DeployerInv, RunOK, RunType, Working, At
<1> SUFFICES ASSUME NEW d \in Deployers, d = run.d PROVE WatchInv'
    BY <1>0
<1>1. /\ Working /\ ~At("down") /\ run \in RunType /\ DepOK /\ run.copy \in DeployerObject
    BY <1>0
<1>2. \A e \in Deployers \ {d} : ~(run.fresh /\ run.d = e)
    OBVIOUS
<1>3. ASSUME \/ UNCHANGED depVars
             \/ \E object : Marked(object) /\ StoreDeployer(d, object),
             \A e \in Deployers \ {d} : e \in queue => e \in queue',
             dep'[d].exists => Attended(d)'
      PROVE  WatchInv'
    BY <1>1, <1>2, <1>3, AttendedStep
<1>4. ASSUME Return(TRUE),
             \/ UNCHANGED depVars
             \/ \E object : Marked(object) /\ StoreDeployer(d, object)
      PROVE  WatchInv'
    <2>1. d \in queue' /\ (\A e \in Deployers \ {d} : e \in queue => e \in queue')
        BY <1>4 DEF Return
    <2> QED
        BY <1>3, <1>4, <2>1 DEF Attended
<1>5. ASSUME UNCHANGED depVars, queue \subseteq queue', run'.fresh = run.fresh, run'.d = run.d
      PROVE  WatchInv'
    <2>1. dep'[d].exists => Attended(d)'
        BY <1>1, <1>5 DEF WatchInv, Attended, depVars
    <2> QED
        BY <1>3, <1>5, <2>1
<1>6. ASSUME UNCHANGED depVars, queue \subseteq queue', ~run.fresh
      PROVE  WatchInv'
    <2>1. dep'[d].exists => Attended(d)'
        BY <1>1, <1>6 DEF WatchInv, Attended, depVars
    <2> QED
        BY <1>3, <1>6, <2>1
<1>7. CASE Conflict \/ BegFails
    BY <1>4, <1>7 DEF Conflict, BegFails
<1>8. CASE Finalize \/ ReleaseOld \/ Cleanup \/ Beg \/ KeepJob \/ ForceDelete \/ CreateWorkload
           \/ HandleWatch
    <2>1. UNCHANGED depVars
        BY <1>8 DEF Finalize, ReleaseOld, Cleanup, Beg, KeepJob, ForceDelete, CreateWorkload,
                    HandleWatch
    <2>2. Return(TRUE) \/ (queue' = queue /\ run'.fresh = run.fresh /\ run'.d = run.d)
        BY <1>1, <1>8 DEF Finalize, ReleaseOld, Release, Cleanup, Beg, KeepJob, ForceDelete,
                          CreateWorkload, HandleWatch, Goto, RunType
    <2> QED
        BY <1>4, <1>5, <2>1, <2>2
<1>9. CASE AddFinalizer
    <2> DEFINE object == [run.copy EXCEPT !.finalizer = TRUE]
    <2>1. /\ StoreDeployer(d, object) /\ run.fresh /\ queue \subseteq queue'
          /\ run'.fresh = run.fresh /\ run'.d = run.d
        BY <1>1, <1>9 DEF AddFinalizer, Store, Goto, RunType
    <2>2. Marked(object)
        BY <1>1 DEF Marked, DeployerObject
    <2> QED
        BY <1>3, <2>1, <2>2 DEF Attended
<1>10. CASE DropFinalizer
    <2>1. StoreDeployer(d, AbsentDeployer) /\ queue \subseteq queue'
        BY <1>10 DEF DropFinalizer, Store
    <2>2. Marked(AbsentDeployer)
        BY DEF Marked, AbsentDeployer
    <2>3. ~dep'[d].exists
        BY <1>1, <2>1, StoredOne, AbsentDeployerType
    <2> QED
        BY <1>3, <2>1, <2>2, <2>3
<1>11. ASSUME NEW object, run.fresh, Marked(object), StoreDeployer(d, object),
              queue \subseteq queue', Settled(object) \/ d \in queue'
       PROVE  WatchInv'
    <2>1. dep'[d] = object
        BY <1>1, <1>11, StoredOne
    <2> QED
        BY <1>3, <1>11, <2>1 DEF Attended
<1>12. CASE Undo
    <2> DEFINE object == [run.copy EXCEPT !.phase = "UNDO"]
    <2>1. run.fresh /\ StoreDeployer(d, object) /\ queue \subseteq queue' /\ run.pc = "undo"
        BY <1>12 DEF Undo, Store, At
    <2>2. Marked(object)
        BY <2>1, CopyUnmarked DEF Phases
    <2>3. Settled(object)
        BY <1>1, <2>1, CopyUnmarked DEF Agrees, Reading, Settled, DeployerObject
    <2> QED
        BY <1>11, <2>1, <2>2, <2>3
<1>13. CASE Save
    <2>1. run.fresh /\ StoreDeployer(d, run.copy) /\ run.pc = "save" /\ Return(TRUE)
        BY <1>13 DEF Save, Store, At
    <2>2. Marked(run.copy)
        BY <2>1, CopyUnmarked
    <2> QED
        BY <1>4, <2>1, <2>2
<1>14. CASE BegPanic
    <2> DEFINE object == [run.copy EXCEPT !.phase = "Failed"]
    <2>1. PublishStatus(object) /\ queue \subseteq queue' /\ run.pc = "beg"
        BY <1>14 DEF BegPanic, At
    <2>2. CASE run.fresh
        <3>1. Marked(object) /\ StoreDeployer(d, object)
            BY <2>1, <2>2, CopyUnmarked DEF Phases, PublishStatus
        <3>2. object.spec.round = object.currentRound /\ object.phase = "Failed"
            BY <1>1, <2>1, <2>2, CopyUnmarked DEF Agrees, DeployerObject
        <3> QED
            BY <1>11, <2>1, <2>2, <3>1, <3>2 DEF Settled, HashDone
    <2> QED
        BY <1>6, <2>1, <2>2 DEF PublishStatus
<1>15. CASE HandleMissing
    <2> DEFINE object == [run.copy EXCEPT !.phase = "Pending"]
    <2>1. /\ PublishStatus(object) /\ queue \subseteq queue' /\ run.pc = "handle"
          /\ run'.fresh = run.fresh /\ run'.d = run.d
        BY <1>1, <1>15 DEF HandleMissing, At, Goto, RunType
    <2>2. CASE run.fresh
        <3>1. Marked(object) /\ StoreDeployer(d, object)
            BY <2>1, <2>2, CopyUnmarked DEF Phases, PublishStatus
        <3> QED
            BY <1>3, <2>1, <2>2, <3>1 DEF Attended
    <2> QED
        BY <1>6, <2>1, <2>2 DEF PublishStatus
<1>16. CASE HandleFails
    <2> DEFINE object == [run.copy EXCEPT !.phase = "Failed"]
    <2>1. PublishStatus(object) /\ run.pc \in {"handle", "create"} /\ Return(TRUE)
        BY <1>16 DEF HandleFails
    <2>2. UNCHANGED depVars \/ (Marked(object) /\ StoreDeployer(d, object))
        BY <2>1, CopyUnmarked DEF Phases, PublishStatus
    <2> QED
        BY <1>4, <2>1, <2>2
<1>17. CASE Publish
    <2>1. PublishStatus(run.copy) /\ queue \subseteq queue' /\ run.pc = "publish"
        BY <1>17 DEF Publish, At
    <2>2. CASE run.fresh
        <3>1. Marked(run.copy) /\ StoreDeployer(d, run.copy)
              /\ run.copy.spec.round = run.copy.currentRound
            BY <2>1, <2>2, CopyUnmarked DEF Agrees, PublishStatus
        <3>2. Settled(run.copy) \/ d \in queue'
            BY <1>17, <3>1 DEF Publish, Settled
        <3> QED
            BY <1>11, <2>1, <2>2, <3>1, <3>2
    <2> QED
        BY <1>6, <2>1, <2>2 DEF PublishStatus
<1> QED
    BY <1>7, <1>8, <1>9, <1>10, <1>12, <1>13, <1>14, <1>15, <1>16, <1>17 DEF DeployerController

LEMMA NextAttends == DeployerInv /\ WatchInv /\ [Next]_vars => WatchInv'
<1> SUFFICES ASSUME DeployerInv, WatchInv, [Next]_vars PROVE WatchInv'
    OBVIOUS
<1>1. ASSUME UNCHANGED <<depVars, run>>, queue \subseteq queue' PROVE WatchInv'
    BY <1>1 DEF WatchInv, Attended, At, depVars
<1>2. ASSUME NEW d \in Deployers, SyncDeployer(d) PROVE WatchInv'
    BY <1>2 DEF SyncDeployer, WatchInv, Attended, At, DeployerInv, DepOK
<1>3. CASE Crash
    BY <1>3, DownType DEF Crash, WatchInv, At, depVars
<1>4. CASE Start
    <2>1. /\ dep' = dep /\ depCache' = dep /\ depFresh' = [d \in Deployers |-> TRUE]
          /\ \A d \in Deployers : dep[d].exists => d \in queue'
        BY <1>4 DEF Start
    <2> QED
        BY <2>1 DEF WatchInv, Attended
<1>5. ASSUME NEW d \in Deployers,
             \/ SyncWork(d) \/ Resync(d) \/ CollectGarbage(d)
             \/ \E w \in Workloads : MovePod(d, w) \/ OrphanEnds(d, w)
      PROVE  WatchInv'
    BY <1>1, <1>5 DEF SyncWork, Resync, CollectGarbage, MovePod, OrphanEnds
<1>6. CASE PoolStep \/ UNCHANGED vars
    BY <1>1, <1>6 DEF PoolStep, vars
<1> QED
    BY <1>2, <1>3, <1>4, <1>5, <1>6, GetAttends, ControllerAttends, UsersAttend DEF Next

\* For any deployers and specs, caches as stale as they like, and crashes: while
\* the manager runs, a deployer whose status is not final is in the work queue,
\* or in progress, or has an event on its way.
THEOREM NoDeployerIsForgotten == Spec => []NobodyIsForgotten
<1>1. Init => WatchInv
    <2> SUFFICES ASSUME Init PROVE WatchInv
        OBVIOUS
    <2>1. \A d \in Deployers : dep[d] = AbsentDeployer /\ depCache[d] = AbsentDeployer
                               /\ depFresh[d]
        BY DEF Init
    <2>2. ~AbsentDeployer.exists /\ Marked(AbsentDeployer)
        BY DEF Marked, AbsentDeployer
    <2> QED
        BY <2>1, <2>2 DEF WatchInv
<1>2. WatchInv => NobodyIsForgotten
    BY DEF WatchInv, Attended, NobodyIsForgotten
<1> QED
    BY <1>1, <1>2, NextAttends, DeployerInvariant, PTL DEF Spec

-----------------------------------------------------------------------------
(* Done means a success: where workloads are not read from a stale cache. *)

LEMMA DonePod ==
    ASSUME NEW state \in PodStates, PhaseOfPod[state] = "Done" PROVE state = "Succeeded"
BY DEF PodStates, PhaseOfPod

\* The cache has every write at once.
LEMMA WorkSeen ==
    ASSUME ~WorkLag, workCache = work, [Next]_vars
    PROVE  workCache' = work'
<1>1. CASE DeployerController
    BY <1>1 DEF DeployerController, Conflict, AddFinalizer, Finalize, DropFinalizer, Undo,
                Cleanup, ReleaseOld, Beg, BegFails, BegPanic, Save, HandleMissing, HandleWatch,
                HandleFails, KeepJob, ForceDelete, CreateWorkload, Publish, DeleteJob, SetWork,
                workVars
<1>2. CASE DeployerUser
    BY <1>2 DEF DeployerUser, CreateDeployer, EditDeployer, ApplyDeployer, DeleteDeployer,
                WriteFromOutside, workVars
<1>3. CASE PoolStep \/ Crash \/ Start \/ UNCHANGED vars \/ \E d \in Deployers : Get(d)
    BY <1>3 DEF PoolStep, Crash, Start, Get, vars, workVars
<1>4. ASSUME NEW d \in Deployers,
             \/ SyncDeployer(d) \/ SyncWork(d) \/ Resync(d) \/ CollectGarbage(d)
             \/ \E w \in Workloads : MovePod(d, w) \/ OrphanEnds(d, w)
      PROVE  workCache' = work'
    BY <1>4 DEF SyncDeployer, SyncWork, Resync, CollectGarbage, MovePod, OrphanEnds,
                SetWork, workVars
<1> QED
    BY <1>1, <1>2, <1>3, <1>4 DEF Next

\* Where a reconciliation stands after a step of its own.
LEMMA OwnPlaces ==
    ASSUME DeployerInv, DeployerController
    PROVE  \/ run'.pc \notin {"create", "publish"}
           \/ HandleMissing \/ HandleWatch \/ KeepJob \/ ForceDelete \/ CreateWorkload
<1>1. run \in RunType
    BY DEF DeployerInv, RunOK
<1>2. ASSUME run' = Idle PROVE run'.pc \notin {"create", "publish"}
    BY <1>2, IdleType
<1>3. CASE AddFinalizer
    <2> DEFINE object == [run.copy EXCEPT !.finalizer = TRUE]
    <2>1. run'.pc = Route(object) /\ object \in DeployerObject
        BY <1>1, <1>3 DEF AddFinalizer, Goto, RunType, DeployerObject
    <2>2. Route(object) \notin {"create", "publish"}
        <3>1. object.deleting \in BOOLEAN /\ object.finalizer \in BOOLEAN
            BY <2>1 DEF DeployerObject
        <3> HIDE DEF object
        <3> QED
            BY <3>1 DEF Route
    <2> QED
        BY <2>1, <2>2
<1>4. CASE Finalize \/ ReleaseOld \/ Cleanup \/ Beg
    <2>1. run' = Idle \/ run'.pc \in {"dropFinalizer", "beg", "release", "save"}
        BY <1>1, <1>4 DEF Finalize, ReleaseOld, Release, Cleanup, Beg, Goto, Return, RunType
    <2> QED
        BY <1>2, <2>1
<1>5. CASE Conflict \/ DropFinalizer \/ Undo \/ BegFails \/ BegPanic \/ Save \/ HandleFails
           \/ Publish
    BY <1>2, <1>5 DEF Conflict, DropFinalizer, Undo, BegFails, BegPanic, Save, HandleFails,
                      Publish, Return
<1> QED
    BY <1>3, <1>4, <1>5 DEF DeployerController

LEMMA ControllerSees ==
    ASSUME ~WorkLag, DeployerInv, SeenInv, DeployerController
    PROVE  SeenInv'
<1>1. run \in RunType /\ run.copy \in DeployerObject /\ workCache' = work'
    BY WorkSeen DEF DeployerInv, RunOK, RunType, SeenInv, Next
<1>2. CASE run'.pc \notin {"create", "publish"}
    BY <1>1, <1>2 DEF SeenInv, At
<1>3. CASE HandleMissing
    <2>1. run'.pc = "create" /\ run'.copy.phase = "Pending"
        BY <1>1, <1>3 DEF HandleMissing, Goto, RunType, DeployerObject
    <2> QED
        BY <1>1, <2>1 DEF SeenInv, At
<1>4. CASE ForceDelete
    <2>1. run' = run /\ run.pc = "create" /\ run.copy.phase = "Pending"
        BY <1>4 DEF ForceDelete, SeenInv, At
    <2> QED
        BY <1>1, <2>1 DEF SeenInv, At
<1>5. CASE KeepJob \/ CreateWorkload
    <2>1. run'.pc = "publish" /\ run'.copy.phase = "Pending"
        BY <1>1, <1>5 DEF KeepJob, CreateWorkload, SeenInv, At, Goto, RunType
    <2> QED
        BY <1>1, <2>1 DEF SeenInv, At
<1>6. CASE HandleWatch
    <2> DEFINE state == workCache[run.d][Workload]
               copy == [run.copy EXCEPT !.phase = PhaseOfPod[state]]
    <2>1. /\ run.pc = "handle" /\ UNCHANGED workVars
          /\ run' = [run EXCEPT !.pc = "publish", !.copy = copy]
        BY <1>6 DEF HandleWatch, At, Goto
    <2>2. run.d \in Deployers /\ run.copy.spec \in Specs /\ Workload \in Workloads
        <3>1. run.d \in Deployers /\ run.copy.spec \in Specs
            BY <2>1 DEF Working, DeployerInv, RunOK
        <3> QED
            BY <3>1 DEF Workload, Workloads, RoundNumbers
    <2>3. state \in PodStates
        BY <2>2 DEF DeployerInv, WorkOK
    <2>4. /\ copy.phase = PhaseOfPod[state] /\ copy.spec = run.copy.spec
        BY <1>1 DEF DeployerObject
    <2> HIDE DEF copy
    <2>5. run'.pc = "publish" /\ run'.copy = copy /\ run'.d = run.d
        BY <1>1, <2>1 DEF RunType
    <2>6. Workload' = Workload
        BY <2>4, <2>5 DEF Workload
    <2>7. run'.copy.phase = "Done" => work'[run'.d][Workload'] = "Succeeded"
        BY <2>1, <2>3, <2>4, <2>5, <2>6, DonePod DEF SeenInv, workVars
    <2> QED
        BY <1>1, <2>5, <2>7 DEF SeenInv, At
<1> QED
    BY <1>2, <1>3, <1>4, <1>5, <1>6, OwnPlaces

LEMMA NextSees == ~WorkLag /\ DeployerInv /\ SeenInv /\ [Next]_vars => SeenInv'
<1> SUFFICES ASSUME ~WorkLag, DeployerInv, SeenInv, [Next]_vars PROVE SeenInv'
    OBVIOUS
<1>1. workCache' = work' /\ workCache = work /\ run \in RunType
    BY WorkSeen DEF SeenInv, DeployerInv, RunOK
<1>2. ASSUME run'.pc = run.pc, run'.d = run.d, run'.copy = run.copy, run'.fresh => run.fresh,
             run.fresh => work'[run.d] = work[run.d]
      PROVE  SeenInv'
    <2>1. Workload' = Workload
        BY <1>2 DEF Workload
    <2> QED
        BY <1>1, <1>2, <2>1 DEF SeenInv, At
<1>3. ASSUME run'.pc \notin {"create", "publish"} PROVE SeenInv'
    BY <1>1, <1>3 DEF SeenInv, At
<1>4. ASSUME NEW d \in Deployers, Get(d) PROVE SeenInv'
    <2> DEFINE seen == depCache[d]
    <2>1. seen.deleting \in BOOLEAN /\ seen.finalizer \in BOOLEAN
        BY DEF DeployerInv, DepOK, DeployerObject
    <2>2. Route(seen) \notin {"create", "publish"}
        BY <2>1 DEF Route
    <2>3. run' = Idle \/ run'.pc = Route(seen)
        BY <1>4 DEF Get
    <2> QED
        BY <1>3, <2>2, <2>3, IdleType
<1>5. CASE DeployerUser
    <2>1. (run' = run \/ run' = [run EXCEPT !.fresh = FALSE]) /\ work' = work
        BY <1>5 DEF DeployerUser, CreateDeployer, EditDeployer, ApplyDeployer, DeleteDeployer,
                    WriteFromOutside, workVars
    <2>2. run'.pc = run.pc /\ run'.d = run.d /\ run'.copy = run.copy /\ (run'.fresh => run.fresh)
        BY <1>1, <2>1 DEF RunType
    <2> QED
        BY <1>2, <2>1, <2>2
<1>6. CASE Crash \/ Start
    BY <1>3, <1>6, IdleType, DownType DEF Crash, Start
<1>7. CASE PoolStep \/ UNCHANGED vars
    BY <1>2, <1>7 DEF PoolStep, vars, workVars
<1>8. ASSUME NEW d \in Deployers, SyncDeployer(d) \/ SyncWork(d) \/ Resync(d) PROVE SeenInv'
    BY <1>2, <1>8 DEF SyncDeployer, SyncWork, Resync, workVars
<1>11. ASSUME NEW d \in Deployers, NEW w \in Workloads, OrphanEnds(d, w) PROVE SeenInv'
    BY <1>2, <1>11 DEF OrphanEnds
<1>9. ASSUME NEW d \in Deployers, CollectGarbage(d) PROVE SeenInv'
    <2>1. run' = run /\ ~dep[d].exists /\ work' = [work EXCEPT ![d] = NoWork]
        BY <1>9 DEF CollectGarbage
    <2>2. run.fresh => run.d # d
        BY <2>1 DEF DeployerInv, RunOK, Agrees
    <2>3. run.fresh => work'[run.d] = work[run.d]
        BY <2>1, <2>2 DEF DeployerInv, WorkOK, RunOK
    <2> QED
        BY <1>2, <2>1, <2>3
<1>10. ASSUME NEW d \in Deployers, NEW w \in Workloads, MovePod(d, w) PROVE SeenInv'
    <2>1. PICK move \in PodMoves(w[1]) : work[d][w] = move[1] /\ SetWork(d, w, move[2])
                                         /\ UNCHANGED run
        BY <1>10 DEF MovePod
    <2>2. move[1] # "Succeeded"
        BY DEF PodMoves
    <2>3. work' = [work EXCEPT ![d][w] = move[2]]
        BY <2>1 DEF SetWork
    <2>4. ASSUME At("publish"), run.fresh, work[run.d][Workload] = "Succeeded"
          PROVE  work'[run.d][Workload] = "Succeeded"
        <3>1. run.d \in Deployers
            BY <2>4 DEF DeployerInv, RunOK
        <3>2. run.d # d \/ Workload # w
            BY <2>1, <2>2, <2>4
        <3> QED
            BY <2>3, <2>4, <3>1, <3>2 DEF DeployerInv, WorkOK
    <2>5. Workload' = Workload
        BY <2>1 DEF Workload
    <2> QED
        BY <1>1, <2>1, <2>4, <2>5 DEF SeenInv, At
<1> QED
    BY <1>4, <1>5, <1>6, <1>7, <1>8, <1>9, <1>10, <1>11, ControllerSees DEF Next

\* The status that a step gives to a deployer.
LEMMA DoneIsSeen ==
    ASSUME DeployerInv, SeenInv, Next, NEW d \in Deployers,
           dep[d].phase # "Done", dep'[d].phase = "Done"
    PROVE  work[d][<<dep[d].spec.type, dep[d].currentRound>>] = "Succeeded"
<1>1. DepOK /\ run \in RunType
    BY DEF DeployerInv, RunOK
<1>2. ASSUME NEW e \in Deployers, NEW object, StoreDeployer(e, object),
             object.phase = "Done" => object.phase = dep[e].phase
      PROVE  FALSE
    BY <1>1, <1>2, StoredOne
<1>3. ASSUME UNCHANGED dep PROVE FALSE
    BY <1>3
<1>4. CASE DeployerUser
    <2>1. ASSUME NEW e \in Deployers, NEW spec \in Specs
          PROVE  /\ [AbsentDeployer EXCEPT !.exists = TRUE, !.spec = spec].phase # "Done"
                 /\ [dep[e] EXCEPT !.spec = spec].phase = dep[e].phase
                 /\ [dep[e] EXCEPT !.spec = spec, !.finalizer = FALSE].phase = dep[e].phase
                 /\ [dep[e] EXCEPT !.deleting = TRUE].phase = dep[e].phase
                 /\ AbsentDeployer.phase # "Done"
        BY <1>1 DEF DepOK, DeployerObject, AbsentDeployer
    <2>2. ASSUME NEW e \in Deployers, NEW spec \in Specs, CreateDeployer(e, spec) PROVE FALSE
        BY <1>2, <2>1, <2>2 DEF CreateDeployer, WriteFromOutside
    <2>3. ASSUME NEW e \in Deployers, NEW spec \in Specs, EditDeployer(e, spec) PROVE FALSE
        BY <1>2, <2>1, <2>3 DEF EditDeployer, WriteFromOutside
    <2>4. ASSUME NEW e \in Deployers, NEW spec \in Specs, ApplyDeployer(e, spec) PROVE FALSE
        BY <1>2, <2>1, <2>4 DEF ApplyDeployer, WriteFromOutside
    <2>5. ASSUME NEW e \in Deployers, DeleteDeployer(e) PROVE FALSE
        <3>1. /\ AbsentDeployer.phase # "Done"
              /\ [dep[e] EXCEPT !.deleting = TRUE].phase = dep[e].phase
            BY <1>1 DEF DepOK, DeployerObject, AbsentDeployer
        <3> QED
            BY <1>2, <2>5, <3>1 DEF DeleteDeployer, WriteFromOutside
    <2> QED
        BY <1>4, <2>2, <2>3, <2>4, <2>5 DEF DeployerUser
<1>5. CASE DeployerController
    <2>1. Working => run.d \in Deployers /\ run.copy \in DeployerObject
        BY DEF DeployerInv, RunOK, RunType
    <2>2. ASSUME UNCHANGED depVars PROVE FALSE
        BY <1>3, <2>2 DEF depVars
    <2>3. CASE Publish
        <3>1. run.pc = "publish" /\ run.fresh /\ StoreDeployer(run.d, run.copy)
            BY <2>2, <2>3 DEF Publish, PublishStatus, At
        <3>2. run.d \in Deployers /\ Agrees("publish", run.copy, dep[run.d])
            BY <3>1 DEF DeployerInv, RunOK
        <3>3. run.d = d /\ run.copy.phase = "Done"
            BY <1>1, <3>1, <3>2, StoredOne
        <3>4. work[d][Workload] = "Succeeded"
            BY <3>1, <3>3 DEF SeenInv, At
        <3>5. Workload = <<dep[d].spec.type, dep[d].currentRound>>
            BY <3>2, <3>3 DEF Agrees, Workload
        <3> QED
            BY <3>4, <3>5
    <2>4. ASSUME NEW phase \in {"UNDO", "Failed", "Pending"}, Working,
                 StoreDeployer(run.d, [run.copy EXCEPT !.phase = phase])
          PROVE  FALSE
        <3>1. [run.copy EXCEPT !.phase = phase].phase = phase
            BY <2>1, <2>4 DEF DeployerObject
        <3> QED
            BY <1>2, <2>1, <2>4, <3>1
    <2>5. CASE Undo \/ BegPanic \/ HandleFails \/ HandleMissing
        BY <2>2, <2>4, <2>5 DEF Undo, BegPanic, HandleFails, HandleMissing, PublishStatus, Store,
                                At, Working
    <2>6. CASE AddFinalizer
        <3> DEFINE object == [run.copy EXCEPT !.finalizer = TRUE]
        <3>1. /\ run.pc = "addFinalizer" /\ run.fresh /\ StoreDeployer(run.d, object)
            BY <2>6 DEF AddFinalizer, At, Store
        <3>2. run.d \in Deployers /\ run.copy = dep[run.d] /\ run.copy \in DeployerObject
            BY <3>1 DEF DeployerInv, RunOK, RunType, Agrees, Reading
        <3>3. object.phase = dep[run.d].phase
            BY <3>2 DEF DeployerObject
        <3> QED
            BY <1>2, <3>1, <3>2, <3>3
    <2>7. CASE DropFinalizer
        <3>1. Working /\ StoreDeployer(run.d, AbsentDeployer) /\ AbsentDeployer.phase # "Done"
            BY <2>7 DEF DropFinalizer, At, Store, Working, AbsentDeployer
        <3> QED
            BY <1>2, <2>1, <3>1
    <2>8. CASE Save
        <3>1. Working /\ run.fresh /\ run.pc = "save" /\ StoreDeployer(run.d, run.copy)
            BY <2>8 DEF Save, At, Store, Working
        <3>2. run.copy.phase = "Pending"
            BY <3>1 DEF DeployerInv, RunOK, Agrees
        <3> QED
            BY <1>2, <2>1, <3>1, <3>2
    <2> QED
        BY <1>5, <2>2, <2>3, <2>5, <2>6, <2>7, <2>8
           DEF DeployerController, Conflict, Finalize, Cleanup, ReleaseOld, Beg, BegFails,
               HandleWatch, KeepJob, ForceDelete, CreateWorkload
<1>6. CASE PoolStep \/ Crash \/ Start \/ \E e \in Deployers : Get(e)
    BY <1>3, <1>6 DEF PoolStep, Crash, Start, Get, depVars
<1>7. ASSUME NEW e \in Deployers,
             \/ SyncDeployer(e) \/ SyncWork(e) \/ Resync(e) \/ CollectGarbage(e)
             \/ \E w \in Workloads : MovePod(e, w) \/ OrphanEnds(e, w)
      PROVE  FALSE
    BY <1>3, <1>7 DEF SyncDeployer, SyncWork, Resync, CollectGarbage, MovePod, OrphanEnds, depVars
<1> QED
    BY <1>4, <1>5, <1>6, <1>7 DEF Next

\* As long as workloads are not read from a stale cache, and whatever else is
\* stale: a deployer becomes Done only when the job of its round has succeeded.
THEOREM DoneIsASuccess == ~WorkLag /\ Spec => DoneMeansSucceeded
<1>1. ~WorkLag => (~WorkLag)'
    OBVIOUS
<1>2. Init => SeenInv
    BY IdleType DEF Init, SeenInv, At
<1>3. DeployerInv /\ SeenInv /\ [Next]_vars =>
          [\A d \in Deployers :
               dep[d].phase # "Done" /\ dep'[d].phase = "Done" =>
                   work[d][<<dep[d].spec.type, dep[d].currentRound>>] = "Succeeded"]_vars
    BY DoneIsSeen
<1> QED
    BY <1>1, <1>2, <1>3, NextSees, DeployerInvariant, PTL DEF Spec, DoneMeansSucceeded

-----------------------------------------------------------------------------
(* No stray workload: jobs only, nothing read from a stale cache, and no    *)
(* workflow that takes the finalizer away.                                  *)

\* A step that brings no workload to a deployer and moves none that has any.
LEMMA StrayStep ==
    ASSUME StrayInv, workCache' = work',
           \A d \in Deployers : dep'[d].currentRound \in RoundNumbers /\ depFresh'[d],
           \A d \in Deployers, w \in Workloads :
               dep'[d].exists /\ work'[d][w] # "none" =>
                   dep[d].exists /\ work[d][w] # "none"
                   /\ dep'[d].currentRound = dep[d].currentRound,
           run'.pc \in Sent => InPlace(run'.pc, run'.copy, dep'[run'.d]),
           run'.pc \in {"release", "beg", "save"} => Workless(work'[run'.d])
    PROVE  StrayInv'
<1>1. NoStrayWorkload'
    BY DEF StrayInv, NoStrayWorkload
<1>2. \A d \in Deployers : dep'[d].currentRound \in RoundNumbers /\ depFresh'[d]
    OBVIOUS
<1> QED
    BY <1>1, <1>2 DEF StrayInv

\* Without stale deployers, a write is seen at once.
LEMMA StoredAtOnce ==
    ASSUME ~DeployersLag, DepOK, NEW d \in Deployers, NEW object,
           \A e \in Deployers : depFresh[e], StoreDeployer(d, object)
    PROVE  /\ \A e \in Deployers : depFresh'[e] /\ dep'[e] = IF e = d THEN object ELSE dep[e]
BY DEF StoreDeployer, DepOK

LEMMA OutsideStrays ==
    ASSUME InOrder, DeployerInv, StrayInv, NEW d \in Deployers, NEW object,
           WriteFromOutside(d, object),
           object.currentRound \in RoundNumbers,
           object.exists => \/ Workless(work[d])
                            \/ dep[d].exists /\ object.currentRound = dep[d].currentRound,
           dep[d].exists /\ dep[d].finalizer =>
               /\ object.exists /\ object.finalizer
               /\ object.currentRound = dep[d].currentRound
    PROVE  StrayInv'
<1>1. /\ StoreDeployer(d, object) /\ UNCHANGED workVars /\ DepOK /\ run \in RunType
      /\ run' = run \/ run' = [run EXCEPT !.fresh = FALSE]
    BY DEF WriteFromOutside, DeployerInv, RunOK
<1>2. run'.pc = run.pc /\ run'.copy = run.copy /\ run'.d = run.d
    BY <1>1 DEF RunType
<1>3. \A e \in Deployers : depFresh'[e] /\ dep'[e] = IF e = d THEN object ELSE dep[e]
    BY <1>1, StoredAtOnce DEF InOrder, StrayInv
<1>4. \A e \in Deployers, w \in Workloads :
          dep'[e].exists /\ work'[e][w] # "none" =>
              dep[e].exists /\ work[e][w] # "none"
              /\ dep'[e].currentRound = dep[e].currentRound
    BY <1>1, <1>3 DEF workVars, Workless
<1>5. run.pc \in Sent => run.d \in Deployers
    BY DEF DeployerInv, RunOK, Working, Sent
<1>6. run'.pc \in Sent => InPlace(run'.pc, run'.copy, dep'[run'.d])
    BY <1>2, <1>3, <1>5 DEF StrayInv, InPlace
<1>7. run'.pc \in {"release", "beg", "save"} => Workless(work'[run'.d])
    BY <1>1, <1>2 DEF StrayInv, Workless, workVars
<1> QED
    BY <1>1, <1>3, <1>4, <1>6, <1>7, StrayStep DEF StrayInv, workVars

LEMMA UsersStray ==
    ASSUME InOrder, DeployerInv, StrayInv, DeployerUser PROVE StrayInv'
<1>0. DepOK /\ \A d \in Deployers : dep[d].currentRound \in RoundNumbers
    BY DEF DeployerInv, StrayInv
<1>1. ASSUME NEW d \in Deployers, NEW spec \in Specs, CreateDeployer(d, spec)
      PROVE  StrayInv'
    <2> DEFINE object == [AbsentDeployer EXCEPT !.exists = TRUE, !.spec = spec]
    <2>1. object.currentRound \in RoundNumbers
        BY DEF AbsentDeployer, RoundNumbers
    <2>2. WriteFromOutside(d, object) /\ ~dep[d].exists /\ work[d] = NoWork
        BY <1>1 DEF CreateDeployer
    <2>3. Workless(work[d])
        BY <2>2 DEF Workless, NoWork
    <2> QED
        BY <2>1, <2>2, <2>3, OutsideStrays
<1>2. ASSUME NEW d \in Deployers, NEW spec \in Specs, EditDeployer(d, spec)
      PROVE  StrayInv'
    <2> DEFINE object == [dep[d] EXCEPT !.spec = spec]
    <2>1. /\ object.exists = dep[d].exists /\ object.finalizer = dep[d].finalizer
          /\ object.currentRound = dep[d].currentRound
        BY <1>0 DEF DepOK, DeployerObject
    <2>2. WriteFromOutside(d, object) /\ dep[d].exists
        BY <1>2 DEF EditDeployer
    <2> HIDE DEF object
    <2> QED
        BY <1>0, <2>1, <2>2, OutsideStrays
<1>3. ASSUME NEW d \in Deployers, DeleteDeployer(d)
      PROVE  StrayInv'
    <2> DEFINE object == [dep[d] EXCEPT !.deleting = TRUE]
    <2>1. /\ object.exists = dep[d].exists /\ object.finalizer = dep[d].finalizer
          /\ object.currentRound = dep[d].currentRound
        BY <1>0 DEF DepOK, DeployerObject
    <2>2. AbsentDeployer.currentRound \in RoundNumbers /\ ~AbsentDeployer.exists
        BY DEF AbsentDeployer, RoundNumbers
    <2>3. \/ WriteFromOutside(d, object) /\ dep[d].exists
          \/ WriteFromOutside(d, AbsentDeployer) /\ ~dep[d].finalizer
        BY <1>3 DEF DeleteDeployer
    <2> HIDE DEF object
    <2> QED
        BY <1>0, <2>1, <2>2, <2>3, OutsideStrays
<1>4. ~\E d \in Deployers, spec \in Specs : ApplyDeployer(d, spec)
    BY DEF ApplyDeployer, InOrder
<1> QED
    BY <1>1, <1>2, <1>3, <1>4 DEF DeployerUser

\* The objects a reconciliation is sent on with.
LEMMA RoutedInPlace ==
    ASSUME NEW object \in DeployerObject, object.exists, object.spec \in Specs,
           Route(object) \in Sent
    PROVE  /\ InPlace(Route(object), object, object)
           /\ Route(object) \notin {"release", "beg", "save"}
<1>1. object.spec.round \in Int /\ object.currentRound \in Int
         /\ object.deleting \in BOOLEAN /\ object.finalizer \in BOOLEAN
    BY SpecsAssumption DEF DeployerObject
<1>2. ~object.deleting /\ object.finalizer
    BY <1>1 DEF Route, Sent
<1>3. Route(object) = IF object.spec.round < object.currentRound THEN "undo"
                      ELSE IF object.spec.round > object.currentRound THEN "cleanup"
                      ELSE "handle"
    BY <1>2 DEF Route
<1> QED
    BY <1>1, <1>2, <1>3 DEF InPlace

LEMMA GetStrays ==
    ASSUME InOrder, DeployerInv, StrayInv, NEW d \in Deployers, Get(d) PROVE StrayInv'
<1> DEFINE seen == depCache[d]
<1>1. /\ UNCHANGED <<dep, depFresh, work, workCache>>
      /\ seen = dep[d] /\ seen \in DeployerObject /\ (seen.exists => seen.spec \in Specs)
    BY DEF Get, depVars, workVars, StrayInv, DeployerInv, DepOK
<1> HIDE DEF seen
<1>2. /\ run'.pc \in Sent => InPlace(run'.pc, run'.copy, dep'[run'.d])
      /\ run'.pc \notin {"release", "beg", "save"}
    <2>1. CASE run' = Idle
        BY <2>1, IdleType DEF Sent
    <2>2. CASE seen.exists /\ run' = [pc |-> Route(seen), d |-> d, copy |-> seen,
                                     fresh |-> depFresh[d]]
        <3>1. run'.pc = Route(seen) /\ run'.copy = seen /\ dep'[run'.d] = seen
            BY <1>1, <2>2
        <3>2. Route(seen) \in {"release", "beg", "save"} => Route(seen) \in Sent
            BY DEF Sent
        <3> QED
            BY <1>1, <2>2, <3>1, <3>2, RoutedInPlace
    <2> QED
        BY <2>1, <2>2 DEF Get, seen
<1> QED
    BY <1>1, <1>2, StrayStep DEF StrayInv

LEMMA ControllerStrays ==
    ASSUME InOrder, DeployerInv, StrayInv, DeployerController PROVE StrayInv'
<1>0. /\ Working /\ run.d \in Deployers /\ run \in RunType /\ DepOK /\ WorkOK
      /\ run.copy \in DeployerObject /\ run.copy.spec \in Specs
      /\ run.copy.spec.type = "job" /\ run.copy.spec.round \in RoundNumbers
    <2>1. Working
        BY DEF DeployerController, Conflict, AddFinalizer, Finalize, DropFinalizer, Undo,
               Cleanup, ReleaseOld, Beg, BegFails, BegPanic, Save, HandleMissing,
               HandleWatch, HandleFails, KeepJob, ForceDelete, CreateWorkload, Publish,
               At, Working
    <2> QED
        BY <2>1 DEF DeployerInv, RunOK, RunType, InOrder, OnlyJobs, RoundNumbers
<1>1. workCache' = work'
    BY WorkSeen DEF InOrder, StrayInv, Next
<1>2. ASSUME UNCHANGED depVars, work' = work,
             run'.pc \in Sent => InPlace(run'.pc, run'.copy, dep[run.d]) /\ run'.d = run.d,
             run'.pc \in {"release", "beg", "save"} => Workless(work[run.d])
      PROVE  StrayInv'
    <2>1. run'.pc \in {"release", "beg", "save"} => run'.pc \in Sent
        BY DEF Sent
    <2>2. \A d \in Deployers : dep'[d].currentRound \in RoundNumbers /\ depFresh'[d]
        BY <1>2 DEF StrayInv, depVars
    <2> QED
        BY <1>1, <1>2, <2>1, <2>2, StrayStep DEF StrayInv, depVars
<1>3. ASSUME UNCHANGED depVars, work' = work, run'.pc \notin Sent PROVE StrayInv'
    <2>1. run'.pc \notin {"release", "beg", "save"}
        BY <1>3 DEF Sent
    <2> QED
        BY <1>2, <1>3, <2>1
<1>4. ASSUME NEW object, StoreDeployer(run.d, object), work' = work,
             object.currentRound \in RoundNumbers,
             object.exists => \/ Workless(work[run.d])
                              \/ dep[run.d].exists
                                 /\ object.currentRound = dep[run.d].currentRound,
             run'.pc \in Sent => InPlace(run'.pc, run'.copy, object) /\ run'.d = run.d,
             run'.pc \notin {"release", "beg", "save"}
      PROVE  StrayInv'
    <2>1. \A e \in Deployers : depFresh'[e] /\ dep'[e] = IF e = run.d THEN object ELSE dep[e]
        BY <1>0, <1>4, StoredAtOnce DEF InOrder, StrayInv
    <2>2. \A e \in Deployers, w \in Workloads :
              dep'[e].exists /\ work'[e][w] # "none" =>
                  dep[e].exists /\ work[e][w] # "none"
                  /\ dep'[e].currentRound = dep[e].currentRound
        BY <1>4, <2>1 DEF Workless, StrayInv, NoStrayWorkload
    <2>3. run'.pc \in Sent => InPlace(run'.pc, run'.copy, dep'[run'.d])
        BY <1>0, <1>4, <2>1
    <2> QED
        BY <1>1, <1>4, <2>1, <2>2, <2>3, StrayStep DEF StrayInv
<1>5. ASSUME run' = Idle PROVE run'.pc \notin Sent /\ run'.pc \notin {"release", "beg", "save"}
    BY <1>5, IdleType DEF Sent
<1>6. CASE Conflict \/ BegFails
    BY <1>3, <1>5, <1>6 DEF Conflict, BegFails, Return, workVars
<1>7. CASE Finalize \/ HandleWatch \/ KeepJob
    <2>1. run' = Idle \/ run'.pc \in {"dropFinalizer", "publish"}
        BY <1>0, <1>7 DEF Finalize, Release, Return, HandleWatch, KeepJob, Goto, RunType
    <2>2. run'.pc \notin Sent
        BY <1>5, <2>1 DEF Sent
    <2> QED
        BY <1>3, <1>7, <2>2 DEF Finalize, HandleWatch, KeepJob, workVars
<1>8. CASE ReleaseOld
    <2>1. /\ At("release") /\ UNCHANGED depVars /\ work' = work
          /\ run' = Idle \/ (run'.pc = "beg" /\ run'.d = run.d)
        BY <1>0, <1>8 DEF ReleaseOld, Release, Return, Goto, workVars, RunType
    <2>2. InPlace("beg", run'.copy, dep[run.d]) /\ Workless(work[run.d])
        BY <2>1 DEF StrayInv, Sent, InPlace, At
    <2> QED
        BY <1>2, <1>5, <2>1, <2>2
<1>9. CASE Beg
    <2>1. At("beg") /\ UNCHANGED depVars /\ work' = work /\ run'.pc = "save" /\ run'.d = run.d
        BY <1>0, <1>9 DEF Beg, Goto, workVars, RunType
    <2>2. InPlace("save", run'.copy, dep[run.d]) /\ Workless(work[run.d])
        BY <2>1 DEF StrayInv, Sent, InPlace, At
    <2> QED
        BY <1>2, <2>1, <2>2
<1>10. CASE AddFinalizer
    <2> DEFINE object == [run.copy EXCEPT !.finalizer = TRUE]
    <2>1. /\ run.pc = "addFinalizer" /\ run.fresh /\ StoreDeployer(run.d, object) /\ work' = work
          /\ run'.pc = Route(object) /\ run'.copy = object /\ run'.d = run.d
        BY <1>0, <1>10 DEF AddFinalizer, At, Store, Goto, workVars, RunType
    <2>2. run.copy = dep[run.d] /\ dep[run.d].exists
        BY <2>1 DEF DeployerInv, RunOK, Agrees, Reading
    <2>3. /\ object \in DeployerObject /\ object.exists /\ object.spec = run.copy.spec
          /\ object.currentRound = dep[run.d].currentRound
        BY <1>0, <2>2 DEF DeployerObject
    <2> HIDE DEF object
    <2>4. /\ Route(object) \in Sent => InPlace(Route(object), object, object)
          /\ Route(object) \notin {"release", "beg", "save"}
        BY <1>0, <2>3, RoutedInPlace DEF Sent
    <2>5. object.currentRound \in RoundNumbers
        BY <1>0, <2>3 DEF StrayInv
    <2> QED
        BY <1>4, <2>1, <2>2, <2>3, <2>4, <2>5
<1>11. CASE DropFinalizer
    <2>1. StoreDeployer(run.d, AbsentDeployer) /\ work' = work /\ run' = Idle
        BY <1>11 DEF DropFinalizer, Store, workVars
    <2>2. AbsentDeployer.currentRound \in RoundNumbers /\ ~AbsentDeployer.exists
        BY DEF AbsentDeployer, RoundNumbers
    <2> QED
        BY <1>4, <1>5, <2>1, <2>2
\* The status of the copy is written in the round that is recorded.
<1>12. ASSUME NEW phase, run.fresh, run.pc \in {"undo", "handle", "create", "publish"},
              StoreDeployer(run.d, [run.copy EXCEPT !.phase = phase]), work' = work,
              \/ run'.pc \notin Sent
              \/ /\ run'.pc = "create" /\ run'.d = run.d /\ run.pc = "handle"
                 /\ run'.copy = [run.copy EXCEPT !.phase = phase]
       PROVE  StrayInv'
    <2> DEFINE object == [run.copy EXCEPT !.phase = phase]
    <2>1. /\ dep[run.d].exists /\ run.copy.currentRound = dep[run.d].currentRound
          /\ run.pc = "handle" => run.copy = dep[run.d]
        BY <1>12 DEF DeployerInv, RunOK, Agrees, Reading
    <2>2. /\ object.currentRound = run.copy.currentRound /\ object.exists = run.copy.exists
          /\ object.finalizer = run.copy.finalizer /\ object.spec = run.copy.spec
        BY <1>0 DEF DeployerObject
    <2>3. object.currentRound \in RoundNumbers
        BY <1>0, <2>1, <2>2 DEF StrayInv
    <2>4. run.pc = "handle" => InPlace("create", object, object)
        BY <2>1, <2>2 DEF StrayInv, Sent, InPlace
    <2>5. run'.pc \notin {"release", "beg", "save"}
        BY <1>12 DEF Sent
    <2> HIDE DEF object
    <2> QED
        BY <1>4, <1>12, <2>1, <2>2, <2>3, <2>4, <2>5 DEF object
<1>13. CASE Undo
    BY <1>5, <1>12, <1>13 DEF Undo, Store, At, workVars
<1>14. CASE HandleMissing
    <2> DEFINE object == [run.copy EXCEPT !.phase = "Pending"]
    <2>1. /\ run.pc = "handle" /\ PublishStatus(object) /\ work' = work
          /\ run'.pc = "create" /\ run'.copy = object /\ run'.d = run.d
        BY <1>0, <1>14 DEF HandleMissing, At, Goto, workVars, RunType
    <2>2. CASE run.fresh
        BY <1>12, <2>1, <2>2 DEF PublishStatus
    <2>3. CASE ~run.fresh
        <3>1. object.currentRound = run.copy.currentRound /\ object.spec = run.copy.spec
            BY <1>0 DEF DeployerObject
        <3>2. InPlace("create", object, dep[run.d])
            BY <2>1, <3>1 DEF StrayInv, Sent, InPlace
        <3> QED
            BY <1>2, <2>1, <2>3, <3>2 DEF PublishStatus
    <2> QED
        BY <2>2, <2>3
<1>15. CASE HandleFails
    <2>1. /\ run.pc \in {"handle", "create"} /\ work' = work /\ run' = Idle
          /\ PublishStatus([run.copy EXCEPT !.phase = "Failed"])
        BY <1>15 DEF HandleFails, Return, workVars
    <2> QED
        BY <1>3, <1>5, <1>12, <2>1 DEF PublishStatus
<1>16. CASE Publish
    <2>1. run.pc = "publish" /\ work' = work /\ run' = Idle /\ PublishStatus(run.copy)
        BY <1>16 DEF Publish, At, workVars
    <2>2. run.copy = [run.copy EXCEPT !.phase = run.copy.phase]
        BY <1>0 DEF DeployerObject
    <2> QED
        BY <1>3, <1>5, <1>12, <2>1, <2>2 DEF PublishStatus
\* The round moves on, with nothing left to run.
<1>17. CASE Save
    <2>1. run.pc = "save" /\ run.fresh /\ StoreDeployer(run.d, run.copy) /\ work' = work
          /\ run' = Idle
        BY <1>17 DEF Save, Store, At, Return, workVars
    <2>2. Workless(work[run.d]) /\ run.copy.currentRound \in RoundNumbers
        BY <1>0, <2>1 DEF StrayInv, DeployerInv, RunOK, Agrees
    <2> QED
        BY <1>4, <1>5, <2>1, <2>2
<1>18. CASE BegPanic
    <2> DEFINE object == [run.copy EXCEPT !.phase = "Failed"]
    <2>1. run.pc = "beg" /\ PublishStatus(object) /\ work' = work /\ run' = Idle
        BY <1>18 DEF BegPanic, At, workVars
    <2>2. Workless(work[run.d])
        BY <2>1 DEF StrayInv
    <2>3. run.fresh => object.currentRound \in RoundNumbers
        <3>1. object.currentRound = run.copy.currentRound
            BY <1>0 DEF DeployerObject
        <3> QED
            BY <1>0, <2>1, <3>1 DEF DeployerInv, RunOK, Agrees
    <2> QED
        BY <1>3, <1>4, <1>5, <2>1, <2>2, <2>3 DEF PublishStatus
\* What runs for the round that ends is its job: no other is there.
<1>19. CASE Cleanup
    <2> DEFINE old == <<"job", run.copy.currentRound>>
    <2>1. /\ run.pc = "cleanup" /\ UNCHANGED depVars
          /\ run.copy.currentRound = dep[run.d].currentRound
          /\ dep[run.d].exists /\ dep[run.d].finalizer
        BY <1>19 DEF Cleanup, At, StrayInv, Sent, InPlace
    <2>2. \A w \in Workloads : w # old => work[run.d][w] = "none"
        <3>1. ASSUME NEW w \in Workloads, work[run.d][w] # "none" PROVE w = old
            <4>1. w[2] = dep[run.d].currentRound
                BY <1>0, <2>1, <3>1 DEF StrayInv, NoStrayWorkload
            <4>2. w[1] = "job" /\ w = <<w[1], w[2]>>
                BY DEF InOrder, OnlyJobs, Workloads
            <4> QED
                BY <2>1, <4>1, <4>2
        <3> QED
            BY <3>1
    <2>3. InPlace("release", run.copy, dep[run.d])
        BY <2>1 DEF InPlace
    <2>4. CASE work[run.d][old] # "none"
        <3>1. /\ work' = [work EXCEPT ![run.d][old] = "none"]
              /\ run'.pc = "release" /\ run'.copy = run.copy /\ run'.d = run.d
            BY <1>0, <1>19, <2>4 DEF Cleanup, StrayInv, DeleteJob, SetWork, Goto, RunType
        <3>2. \A e \in Deployers, w \in Workloads :
                  work'[e][w] = IF e = run.d /\ w = old THEN "none" ELSE work[e][w]
            BY <1>0, <3>1 DEF WorkOK
        <3>3. Workless(work'[run.d])
            BY <1>0, <2>2, <3>2 DEF Workless
        <3>4. \A d \in Deployers : dep'[d].currentRound \in RoundNumbers /\ depFresh'[d]
            BY <2>1 DEF StrayInv, depVars
        <3> HIDE DEF old
        <3> QED
            BY <1>1, <2>1, <2>3, <3>1, <3>2, <3>3, <3>4, StrayStep DEF StrayInv, depVars
    <2>5. CASE work[run.d][old] = "none"
        <3>1. Workless(work[run.d])
            BY <2>2, <2>5 DEF Workless
        <3>2. run'.pc = "release" /\ run'.copy = run.copy /\ run'.d = run.d /\ work' = work
            BY <1>0, <1>19, <2>5 DEF Cleanup, StrayInv, Goto, workVars, RunType
        <3> QED
            BY <1>2, <2>1, <2>3, <3>1, <3>2
    <2> QED
        BY <2>4, <2>5
<1>20. CASE CreateWorkload
    <2>1. /\ run.pc = "create" /\ UNCHANGED depVars /\ run'.pc = "publish"
          /\ work' = [work EXCEPT ![run.d][Workload] = "nopod"]
        BY <1>0, <1>20 DEF CreateWorkload, At, SetWork, Goto, RunType
    <2>2. Workload[2] = dep[run.d].currentRound
        BY <2>1 DEF StrayInv, Sent, InPlace, Workload
    <2>3. \A e \in Deployers, w \in Workloads :
              work'[e][w] # "none" => work[e][w] # "none" \/ (e = run.d /\ w = Workload)
        BY <1>0, <2>1 DEF WorkOK
    <2>4. NoStrayWorkload'
        BY <2>1, <2>2, <2>3 DEF StrayInv, NoStrayWorkload, depVars
    <2>5. \A d \in Deployers : dep'[d].currentRound \in RoundNumbers /\ depFresh'[d]
        BY <2>1 DEF StrayInv, depVars
    <2>6. run'.pc \notin Sent
        BY <2>1 DEF Sent
    <2> QED
        BY <1>1, <2>1, <2>4, <2>5, <2>6 DEF StrayInv
<1>21. ~ForceDelete
    BY <1>0 DEF ForceDelete
<1> QED
    BY <1>6, <1>7, <1>8, <1>9, <1>10, <1>11, <1>13, <1>14, <1>15, <1>16, <1>17, <1>18, <1>19,
       <1>20, <1>21 DEF DeployerController

LEMMA NextStrays == InOrder /\ DeployerInv /\ StrayInv /\ [Next]_vars => StrayInv'
<1> SUFFICES ASSUME InOrder, DeployerInv, StrayInv, [Next]_vars PROVE StrayInv'
    OBVIOUS
<1>1. workCache' = work' /\ WorkOK /\ run \in RunType
    BY WorkSeen DEF InOrder, StrayInv, DeployerInv, RunOK
\* What Kubernetes does to workloads: it moves pods, and collects them.
<1>2. ASSUME UNCHANGED <<dep, depFresh, run>>,
             \A d \in Deployers, w \in Workloads : work'[d][w] # "none" => work[d][w] # "none"
      PROVE  StrayInv'
    <2>1. \A d \in Deployers : Workless(work[d]) => Workless(work'[d])
        BY <1>2 DEF Workless
    <2>2. run.pc \in Sent => run.d \in Deployers
        BY DEF DeployerInv, RunOK, Working, Sent
    <2>3. run.pc \in {"release", "beg", "save"} => run.pc \in Sent
        BY DEF Sent
    <2>4. run'.pc \in {"release", "beg", "save"} => Workless(work'[run'.d])
        BY <1>2, <2>1, <2>2, <2>3 DEF StrayInv
    <2> QED
        BY <1>1, <1>2, <2>4, StrayStep DEF StrayInv
<1>3. ASSUME UNCHANGED <<dep, depFresh, work>>, run' = Idle \/ run' = Down PROVE StrayInv'
    <2>1. run'.pc \notin Sent /\ run'.pc \notin {"release", "beg", "save"}
        BY <1>3, IdleType, DownType DEF Sent
    <2> QED
        BY <1>1, <1>3, <2>1, StrayStep DEF StrayInv
<1>4. CASE Crash
    BY <1>3, <1>4 DEF Crash, depVars, workVars
<1>5. CASE Start
    <2>1. UNCHANGED <<dep, work>> /\ run' = Idle /\ depFresh' = [d \in Deployers |-> TRUE]
        BY <1>5 DEF Start
    <2>2. depFresh' = depFresh
        BY <2>1 DEF StrayInv, DeployerInv, DepOK
    <2> QED
        BY <1>3, <2>1, <2>2
<1>6. CASE PoolStep \/ UNCHANGED vars
    BY <1>2, <1>6 DEF PoolStep, vars, depVars, workVars
<1>7. ASSUME NEW d \in Deployers PROVE ~SyncDeployer(d)
    BY DEF SyncDeployer, StrayInv
<1>8. ASSUME NEW d \in Deployers, SyncWork(d) \/ Resync(d) PROVE StrayInv'
    BY <1>2, <1>8 DEF SyncWork, Resync, depVars, workVars
<1>11. ASSUME NEW d \in Deployers, NEW w \in Workloads, OrphanEnds(d, w) PROVE StrayInv'
    BY <1>2, <1>11 DEF OrphanEnds, depVars
<1>9. ASSUME NEW d \in Deployers, CollectGarbage(d) PROVE StrayInv'
    <2>1. work' = [work EXCEPT ![d] = NoWork] /\ UNCHANGED <<depVars, run>>
        BY <1>9 DEF CollectGarbage
    <2>2. \A e \in Deployers, w \in Workloads : work'[e][w] # "none" => work[e][w] # "none"
        BY <1>1, <2>1 DEF WorkOK, NoWork
    <2> QED
        BY <1>2, <2>1, <2>2 DEF depVars
<1>10. ASSUME NEW d \in Deployers, NEW w \in Workloads, MovePod(d, w) PROVE StrayInv'
    <2>1. PICK move \in PodMoves(w[1]) : work[d][w] = move[1] /\ SetWork(d, w, move[2])
                                         /\ UNCHANGED <<depVars, run>>
        BY <1>10 DEF MovePod
    <2>2. move[1] # "none"
        BY DEF PodMoves
    <2>3. work' = [work EXCEPT ![d][w] = move[2]]
        BY <2>1 DEF SetWork
    <2>4. \A e \in Deployers, v \in Workloads : work'[e][v] # "none" => work[e][v] # "none"
        BY <1>1, <2>1, <2>2, <2>3 DEF WorkOK
    <2> QED
        BY <1>2, <2>1, <2>4 DEF depVars
<1> QED
    BY <1>2, <1>4, <1>5, <1>6, <1>7, <1>8, <1>9, <1>10, <1>11, GetStrays, UsersStray,
       ControllerStrays, UNCHANGED vars \/ Next DEF Next

LEMMA StrayInit == Init => StrayInv
<1> SUFFICES ASSUME Init PROVE StrayInv
    OBVIOUS
<1>1. \A d \in Deployers : dep[d] = AbsentDeployer /\ depFresh[d]
    BY DEF Init
<1>2. AbsentDeployer.currentRound \in RoundNumbers /\ ~AbsentDeployer.exists
    BY DEF AbsentDeployer, RoundNumbers
<1>3. run = Idle /\ workCache = work
    BY DEF Init
<1> QED
    BY <1>1, <1>2, <1>3, IdleType DEF StrayInv, NoStrayWorkload, Sent

\* Where every spec is a job's, no read is from a stale cache and no workflow
\* takes the finalizer away: whatever the users do, and wherever the manager
\* crashes, a deployer has no workload of another round than the one it records.
THEOREM NoWorkloadIsStray == InOrder /\ Spec => []NoStrayWorkload
<1>1. InOrder => InOrder'
    BY DEF InOrder, OnlyJobs
<1>2. StrayInv => NoStrayWorkload
    BY DEF StrayInv
<1> QED
    BY <1>1, <1>2, StrayInit, NextStrays, DeployerInvariant, PTL DEF Spec

-----------------------------------------------------------------------------
(* The recorded pool is reserved. *)

\* The reservations of an owner outlive a step.
Reserved(usage, owner) == Cardinality(Positions(usage, owner))

Keeps(owner) ==
    \A p \in Pools : Reserved(pool[p].usage, owner) <= Reserved(pool'[p].usage, owner)

LEMMA ReservedType ==
    ASSUME NEW usage \in Seq(Reservation), NEW owner
    PROVE  /\ IsFiniteSet(Positions(usage, owner)) /\ Reserved(usage, owner) \in Nat
           /\ Holds(usage, owner) => Reserved(usage, owner) > 0
<1>1. Len(usage) \in Nat /\ Positions(usage, owner) \in SUBSET (1 .. Len(usage))
    BY LenProperties DEF Positions
<1>2. IsFiniteSet(1 .. Len(usage))
    BY <1>1, FS_Interval
<1>3. IsFiniteSet(Positions(usage, owner))
    BY <1>1, <1>2, FS_Subset
<1> QED
    BY <1>3, FS_CardinalityType, FS_EmptySet DEF Reserved, Holds

LEMMA PoolUsageType == ASSUME PoolInv, NEW p \in Pools PROVE pool[p].usage \in Seq(Reservation)
BY DEF PoolInv, PoolTypeOK, PoolObject

\* What is kept is still held.
LEMMA KeepsHolds ==
    ASSUME PoolInv, NEW owner, Keeps(owner), NEW p \in Pools, Holds(pool[p].usage, owner)
    PROVE  Holds(pool'[p].usage, owner)
<1>1. Reserved(pool[p].usage, owner) > 0 /\ Reserved(pool[p].usage, owner) \in Nat
    BY PoolUsageType, ReservedType
<1>2. Reserved(pool[p].usage, owner) <= Reserved(pool'[p].usage, owner)
    BY DEF Keeps
<1>3. ASSUME ~Holds(pool'[p].usage, owner) PROVE FALSE
    <2>1. Reserved(pool'[p].usage, owner) = 0
        BY <1>3, FS_EmptySet DEF Holds, Reserved
    <2> QED
        BY <1>1, <1>2, <2>1
<1> QED
    BY <1>3

LEMMA WriteKeeps ==
    ASSUME PoolInv, NEW p \in Pools, NEW object, NEW owner, WritePool(p, object),
           Reserved(pool[p].usage, owner) <= Reserved(object.usage, owner)
    PROVE  Keeps(owner)
<1>1. \A q \in Pools : Reserved(pool[q].usage, owner) \in Nat
    BY PoolUsageType, ReservedType
<1>2. \A q \in Pools : pool'[q] = IF q = p THEN object ELSE pool[q]
    BY DEF WritePool, PoolInv, PoolTypeOK
<1> QED
    BY <1>1, <1>2 DEF Keeps

LEMMA AppendReserves ==
    ASSUME NEW usage \in Seq(Reservation), NEW owner \in Owners, NEW amount \in Requests,
           NEW other
    PROVE  LET more == Append(usage, [owner |-> owner, amount |-> amount]) IN
           /\ Reserved(usage, other) <= Reserved(more, other)
           /\ Holds(more, owner)
<1> DEFINE entry == [owner |-> owner, amount |-> amount]
           more == Append(usage, entry)
<1>1. entry \in Reservation /\ entry.owner = owner
    BY AmountsAssumption DEF Reservation
<1> HIDE DEF entry
<1>2. /\ Len(more) = Len(usage) + 1 /\ Len(usage) \in Nat
      /\ more[Len(more)] = entry /\ more \in Seq(Reservation)
      /\ \A i \in 1 .. Len(usage) : more[i] = usage[i]
    BY <1>1, AppendProperties, LenProperties
<1>3. Positions(usage, other) \in SUBSET Positions(more, other)
    <2>1. \A i \in 1 .. Len(usage) : i \in 1 .. Len(more) /\ more[i] = usage[i]
        BY <1>2
    <2> HIDE DEF more
    <2> QED
        BY <2>1 DEF Positions
<1>4. IsFiniteSet(Positions(more, other))
    BY <1>2, ReservedType
<1>5. Reserved(usage, other) <= Reserved(more, other)
    BY <1>3, <1>4, FS_Subset DEF Reserved
<1>6. Len(more) \in 1 .. Len(more) /\ more[Len(more)].owner = owner
    BY <1>1, <1>2
<1>7. Holds(more, owner)
    BY <1>6 DEF Holds, Positions
<1> QED
    BY <1>5, <1>7 DEF entry

\* The entries of the others move up, if they were behind: none is lost.
LEMMA WithoutReserves ==
    ASSUME NEW usage \in Seq(Reservation), NEW owner, NEW other, other # owner,
           Holds(usage, owner)
    PROVE  Reserved(usage, other) <= Reserved(Without(usage, owner), other)
<1> DEFINE f == FirstOf(usage, owner)
           fewer == Without(usage, owner)
           S == Positions(usage, other)
           T == Positions(fewer, other)
           moved == [i \in S |-> IF i < f THEN i ELSE i - 1]
<1>1. f \in 1 .. Len(usage) /\ usage[f].owner = owner /\ Len(usage) \in Nat
    BY FirstOfIsFirst, LenProperties
<1>2. /\ Len(fewer) = Len(usage) - 1 /\ fewer \in Seq(Reservation)
      /\ \A i \in 1 .. Len(usage) - 1 : fewer[i] = IF i < f THEN usage[i] ELSE usage[i + 1]
    BY WithoutRemovesOne
<1>3. \A i \in S : i \in 1 .. Len(usage) /\ usage[i].owner = other /\ i # f
    BY <1>1 DEF Positions
<1> HIDE DEF f, fewer, S
<1>4. ASSUME NEW i \in S PROVE moved[i] \in T
    <2>1. i \in 1 .. Len(usage) /\ usage[i].owner = other /\ i # f
        BY <1>3
    <2>2. CASE i < f
        <3>1. i \in 1 .. Len(fewer) /\ fewer[i].owner = other
            BY <1>1, <1>2, <2>1, <2>2
        <3> QED
            BY <2>2, <3>1 DEF Positions
    <2>3. CASE ~(i < f)
        <3>1. i - 1 \in 1 .. Len(fewer) /\ fewer[i - 1].owner = other
            BY <1>1, <1>2, <2>1, <2>3
        <3> QED
            BY <2>3, <3>1 DEF Positions
    <2> QED
        BY <2>2, <2>3
<1>5. moved \in [S -> T]
    BY <1>4
<1>6. \A i, j \in S : moved[i] = moved[j] => i = j
    <2>1. \A i, j \in S : i \in Int /\ j \in Int /\ i # f /\ j # f /\ f \in Int
        BY <1>1, <1>3
    <2> QED
        BY <2>1
<1>7. IsFiniteSet(S) /\ IsFiniteSet(T) /\ Cardinality(S) \in Nat /\ Cardinality(T) \in Nat
    BY <1>2, ReservedType DEF S, Reserved
<1> HIDE DEF moved, T
<1>8. ~(Cardinality(T) < Cardinality(S))
    BY <1>5, <1>6, <1>7, FS_PigeonHole
<1> QED
    BY <1>7, <1>8 DEF Reserved, S, T, fewer

LEMMA ReleasedKeeps ==
    ASSUME PoolInv, NEW p, NEW owner, NEW other, other # owner, Released(p, owner)
    PROVE  Keeps(other)
<1>1. /\ p \in Pools /\ poolCache[p] = pool[p] /\ pool[p] \in PoolObject
      /\ Holds(pool[p].usage, owner)
      /\ WritePool(p, [pool[p] EXCEPT !.usage = Without(pool[p].usage, owner)])
    BY DEF Released, UpdatePool, PoolInv, PoolTypeOK
<1>2. Reserved(pool[p].usage, other) <= Reserved(Without(pool[p].usage, owner), other)
    BY <1>1, PoolUsageType, WithoutReserves
<1>3. [pool[p] EXCEPT !.usage = Without(pool[p].usage, owner)].usage
          = Without(pool[p].usage, owner)
    BY <1>1 DEF PoolObject
<1> QED
    BY <1>1, <1>2, <1>3, WriteKeeps

LEMMA GrantedKeeps ==
    ASSUME PoolInv, NEW p \in Pools, NEW owner \in Owners, NEW amount \in Requests,
           BegGranted(p, owner, amount)
    PROVE  Holds(pool'[p].usage, owner) /\ \A other \in Owners : Keeps(other)
<1> DEFINE usage == Append(pool[p].usage, [owner |-> owner, amount |-> amount])
<1>1. /\ poolCache[p] = pool[p] /\ pool[p] \in PoolObject
      /\ WritePool(p, [pool[p] EXCEPT !.usage = usage])
    BY DEF BegGranted, UpdatePool, PoolInv, PoolTypeOK
<1>2. /\ Holds(usage, owner)
      /\ \A other \in Owners : Reserved(pool[p].usage, other) <= Reserved(usage, other)
    BY PoolUsageType, AppendReserves
<1> HIDE DEF usage
<1>3. [pool[p] EXCEPT !.usage = usage].usage = usage
    BY <1>1 DEF PoolObject
<1>4. pool'[p].usage = usage
    BY <1>1, <1>3 DEF WritePool, PoolInv, PoolTypeOK
<1> QED
    BY <1>1, <1>2, <1>3, <1>4, WriteKeeps

LEMMA UnchangedPoolKeeps ==
    ASSUME PoolInv, UNCHANGED pool PROVE \A d \in Deployers : Keeps(d)
<1>1. \A d \in Deployers, p \in Pools : Reserved(pool[p].usage, d) \in Nat
    BY PoolUsageType, ReservedType
<1> QED
    BY <1>1 DEF Keeps

\* What is done to a pool without a deployer leaves its usage list alone: a pool
\* comes and goes with an empty one.
LEMMA PoolStepKeepsUsage ==
    ASSUME PoolInv, PoolStep PROVE \A p \in Pools : pool'[p].usage = pool[p].usage
<1> DEFINE Same == \A p \in Pools : pool'[p].usage = pool[p].usage
<1>0. \A p \in Pools : /\ pool[p] \in PoolObject /\ poolCache[p] \in PoolObject /\ Guarded(pool[p])
                       /\ poolFresh[p] => poolCache[p] = pool[p]
    BY DEF PoolInv, PoolTypeOK
<1>a. ASSUME NEW p \in Pools, NEW object, WritePool(p, object), object.usage = pool[p].usage
      PROVE  Same
    BY <1>a DEF WritePool, PoolInv, PoolTypeOK
<1>1. ASSUME UNCHANGED pool PROVE Same
    BY <1>1
<1> HIDE DEF Same
<1>2. ASSUME NEW p \in Pools, NEW capacity \in Capacities, CreatePool(p, capacity)
      PROVE  Same
    <2>1. pool[p].usage = <<>>
        BY <1>0, <1>2 DEF CreatePool, Guarded
    <2>2. [AbsentPool EXCEPT !.exists = TRUE, !.capacity = capacity].usage = <<>>
        BY DEF AbsentPool
    <2> QED
        BY <1>2, <1>a, <2>1, <2>2 DEF CreatePool
<1>3. ASSUME NEW p \in Pools, NEW capacity \in Capacities, ResizePool(p, capacity)
      PROVE  Same
    <2>1. [pool[p] EXCEPT !.capacity = capacity].usage = pool[p].usage
        BY <1>0 DEF PoolObject
    <2> QED
        BY <1>3, <1>a, <2>1 DEF ResizePool
<1>4. ASSUME NEW p \in Pools, DeletePool(p) PROVE Same
    <2>1. [pool[p] EXCEPT !.deleting = TRUE].usage = pool[p].usage
        BY <1>0 DEF PoolObject
    <2>2. ~pool[p].finalizer => pool[p].usage = AbsentPool.usage
        BY <1>0 DEF Guarded, AbsentPool
    <2> QED
        BY <1>4, <1>a, <2>1, <2>2 DEF DeletePool
<1>5. ASSUME NEW p \in Pools, DropPoolFinalizer(p) PROVE Same
    <2>1. WritePool(p, AbsentPool) /\ AbsentPool.usage = pool[p].usage
        BY <1>0, <1>5 DEF DropPoolFinalizer, UpdatePool, AbsentPool
    <2> QED
        BY <1>a, <2>1
<1>6. ASSUME NEW p \in Pools, AddPoolFinalizer(p) PROVE Same
    <2>1. [pool[p] EXCEPT !.finalizer = TRUE].usage = pool[p].usage
        BY <1>0 DEF PoolObject
    <2> QED
        BY <1>0, <1>6, <1>a, <2>1 DEF AddPoolFinalizer, UpdatePool
<1>7. ASSUME NEW p \in Pools, PublishFree(p, pool[p]) PROVE Same
    <2> DEFINE free == Remaining(pool[p].capacity, pool[p].usage)
    <2>1. WritePool(p, [pool[p] EXCEPT !.free = free])
        BY <1>7 DEF PublishFree
    <2> HIDE DEF free
    <2>2. [pool[p] EXCEPT !.free = free].usage = pool[p].usage
        BY <1>0 DEF PoolObject
    <2> QED
        BY <1>a, <2>1, <2>2
<1>8. ASSUME PoolController PROVE Same
    BY <1>0, <1>1, <1>5, <1>6, <1>7, <1>8 DEF PoolController, PublishFromCache,
       PublishAfterFinalizer, AbandonPool
<1>9. Same
    BY <1>1, <1>2, <1>3, <1>4, <1>8 DEF PoolStep, PoolUser, SyncPool
<1> QED
    BY <1>9 DEF Same

LEMMA PoolStepKeeps ==
    ASSUME PoolInv, PoolStep PROVE \A owner \in Owners : Keeps(owner)
<1>1. \A p \in Pools, owner \in Owners : Reserved(pool[p].usage, owner) \in Nat
    BY PoolUsageType, ReservedType
<1> QED
    BY <1>1, PoolStepKeepsUsage DEF Keeps

\* An object that records the pool that its deployer has recorded already.
SameClaim(d, object) ==
    /\ dep[d].exists /\ ~dep[d].deleting
    /\ object.resourcePool = dep[d].resourcePool
    /\ object.spec.round <= object.currentRound => dep[d].spec.round <= dep[d].currentRound

\* A write of a deployer: its object has no pool, or the one it had, or one that
\* was reserved for it.
LEMMA HeldWrite ==
    ASSUME DepOK, HeldDeps, UNCHANGED pool, NEW d \in Deployers, NEW object, Rounded(object),
           StoreDeployer(d, object),
           object.exists /\ ~object.deleting =>
               \/ object.resourcePool = None
               \/ SameClaim(d, object)
               \/ /\ ~depCache[d].deleting
                  /\ Holds(pool[object.resourcePool].usage, d)
    PROVE  HeldDeps'
<1>1. /\ dep'[d] = object /\ depCache'[d] \in {depCache[d], object}
      /\ DeployersLag \/ depCache'[d] = object
      /\ \A e \in Deployers : e # d => dep'[e] = dep[e] /\ depCache'[e] \in {depCache[e], dep[e]}
    BY StoredOne
<1>2. \A p \in Pools : p # None
    BY PoolAssumption
<1>3. ASSUME NEW e \in Deployers
      PROVE  /\ DeployersLag \/ depCache'[e] = dep'[e]
             /\ Rounded(dep'[e]) /\ Rounded(depCache'[e])
             /\ depCache'[e].deleting /\ dep'[e].exists /\ ~dep'[e].deleting =>
                    dep'[e].resourcePool = None
             /\ \A p \in Pools :
                    ~Dispensable(e)' /\ dep'[e].resourcePool = p => Holds(pool'[p].usage, e)
    <2>1. CASE e # d
        BY <1>1, <2>1 DEF HeldDeps, Dispensable
    <2>2. CASE e = d
        BY <1>1, <1>2, <2>2 DEF HeldDeps, Dispensable, SameClaim
    <2> QED
        BY <2>1, <2>2
<1> QED
    BY <1>3 DEF HeldDeps

\* A step on the pools: it takes no reservation of a deployer that stays and has
\* recorded its pool.
LEMMA HeldPools ==
    ASSUME PoolInv, HeldDeps, UNCHANGED depVars,
           \A d \in Deployers : Keeps(d) \/ Dispensable(d)
    PROVE  HeldDeps'
<1>1. \A d \in Deployers, p \in Pools :
          ~Dispensable(d) /\ dep[d].resourcePool = p => Holds(pool'[p].usage, d)
    BY KeepsHolds DEF HeldDeps
<1> QED
    BY <1>1 DEF HeldDeps, Dispensable, depVars

\* What others do while a reconciliation goes on.
LEMMA RunStays ==
    ASSUME PoolInv, DeployerInv, HeldRun,
           run'.pc = run.pc, run'.copy = run.copy, run'.d = run.d,
           run'.fresh => /\ run.fresh
                         /\ dep'[run.d].resourcePool = dep[run.d].resourcePool
                         /\ depCache'[run.d].deleting =>
                                depCache[run.d].deleting \/ dep[run.d].deleting,
           \A d \in Deployers : Keeps(d) /\ (Dispensable(d) => Dispensable(d)')
    PROVE  HeldRun'
<1>1. run.pc \in {"save", "finalize", "cleanup", "release"} => run.d \in Deployers
    BY DEF DeployerInv, RunOK, Working
<1>2. run.fresh /\ run.pc \notin {"finalize", "dropFinalizer"} => ~dep[run.d].deleting
    <2>1. run.fresh => dep[run.d] \in DeployerObject
        BY DEF DeployerInv, RunOK, DepOK
    <2> QED
        BY <2>1 DEF DeployerInv, RunOK, Agrees, DeployerObject
<1>3. run.pc = "save" => Holds(pool'[run.copy.resourcePool].usage, run.d)
    BY <1>1, KeepsHolds DEF HeldRun
<1>4. run'.fresh /\ run.pc \notin {"finalize", "dropFinalizer"} => ~depCache'[run.d].deleting
    BY <1>2 DEF HeldRun
<1>5. run.pc \in {"finalize", "cleanup", "release"} =>
          run.copy.resourcePool = None \/ Dispensable(run.d)'
    BY <1>1 DEF HeldRun, Dispensable
<1> QED
    BY <1>3, <1>4, <1>5 DEF HeldRun, Rounded, Dispensable

\* A reconciliation that has ended.
LEMMA HeldIdle == ASSUME run' = Idle \/ run' = Down PROVE HeldRun'
<1>1. run'.copy = AbsentDeployer /\ run'.pc \in {"idle", "down"} /\ run'.fresh = FALSE
    BY DEF Idle, Down
<1>2. Rounded(AbsentDeployer)
    BY DEF Rounded, AbsentDeployer, RoundNumbers
<1> QED
    BY <1>1, <1>2 DEF HeldRun, Rounded

LEMMA OutsideHolds ==
    ASSUME PoolInv, DeployerInv, HeldInv, NEW d \in Deployers, NEW object, Rounded(object),
           WriteFromOutside(d, object),
           object.exists /\ ~object.deleting =>
               object.resourcePool = None \/ SameClaim(d, object)
    PROVE  HeldInv'
<1>1. DepOK /\ run \in RunType /\ (run.fresh => run.d \in Deployers)
    BY DEF DeployerInv, RunOK, Working
<1>2. /\ StoreDeployer(d, object) /\ UNCHANGED pool
      /\ run'.pc = run.pc /\ run'.d = run.d /\ run'.copy = run.copy
      /\ run'.fresh => run.fresh /\ (run.d = d => object = dep[d])
    BY <1>1 DEF WriteFromOutside, RunType, poolVars
<1>3. HeldDeps'
    BY <1>1, <1>2, HeldWrite DEF HeldInv
<1>4. /\ dep'[d] = object /\ depCache'[d] \in {depCache[d], object}
      /\ \A e \in Deployers : e # d => dep'[e] = dep[e] /\ depCache'[e] \in {depCache[e], dep[e]}
    BY <1>1, <1>2, StoredOne
<1>5. run'.fresh => /\ run.fresh /\ dep'[run.d].resourcePool = dep[run.d].resourcePool
                    /\ depCache'[run.d].deleting =>
                           depCache[run.d].deleting \/ dep[run.d].deleting
    BY <1>1, <1>2, <1>4
<1>6. \A e \in Deployers : Dispensable(e) => Dispensable(e)'
    BY <1>4 DEF Dispensable, SameClaim
<1> QED
    BY <1>2, <1>3, <1>5, <1>6, RunStays, UnchangedPoolKeeps DEF HeldInv

LEMMA UsersHold ==
    ASSUME PoolInv, DeployerInv, HeldInv, RoundsGrow, DeployerUser PROVE HeldInv'
<1>0. /\ \A d \in Deployers : /\ dep[d] \in DeployerObject /\ Rounded(dep[d])
                              /\ dep[d].currentRound \in Int
                              /\ dep[d].exists => dep[d].spec.round \in Int
      /\ \A spec \in Specs : spec.round \in Int
      /\ DepOK
    BY SpecsAssumption DEF DeployerInv, DepOK, HeldInv, HeldDeps, DeployerObject
\* What is asked for grows, so that the claim is no greater than before.
<1>b. ASSUME NEW d \in Deployers, NEW spec \in Specs, NEW object, WriteFromOutside(d, object),
             dep[d].exists, ~dep[d].deleting, object.exists, object.spec = spec,
             object.resourcePool = dep[d].resourcePool,
             object.currentRound = dep[d].currentRound
      PROVE  SameClaim(d, object)
    <2>1. dep'[d] = object
        BY <1>0, <1>b, StoredOne DEF WriteFromOutside
    <2>2. dep[d].spec.round <= spec.round
        BY <1>b, <2>1 DEF RoundsGrow
    <2> QED
        BY <1>0, <1>b, <2>2 DEF SameClaim
<1>a. Rounded(AbsentDeployer) /\ ~AbsentDeployer.exists
    BY DEF Rounded, AbsentDeployer, RoundNumbers
<1>1. ASSUME NEW d \in Deployers, NEW spec \in Specs, CreateDeployer(d, spec)
      PROVE  HeldInv'
    <2> DEFINE object == [AbsentDeployer EXCEPT !.exists = TRUE, !.spec = spec]
    <2>1. object.resourcePool = None /\ object.currentRound = 0
        BY DEF AbsentDeployer
    <2>2. Rounded(object)
        BY <2>1 DEF Rounded, RoundNumbers
    <2> QED
        BY <1>1, <2>1, <2>2, OutsideHolds DEF CreateDeployer
<1>2. ASSUME NEW d \in Deployers, NEW spec \in Specs, EditDeployer(d, spec)
      PROVE  HeldInv'
    <2> DEFINE object == [dep[d] EXCEPT !.spec = spec]
    <2>1. /\ object.resourcePool = dep[d].resourcePool /\ object.deleting = dep[d].deleting
          /\ object.currentRound = dep[d].currentRound /\ object.exists = dep[d].exists
          /\ object.spec = spec
        BY <1>0 DEF DeployerObject
    <2>2. WriteFromOutside(d, object) /\ dep[d].exists
        BY <1>2 DEF EditDeployer
    <2> HIDE DEF object
    <2>3. Rounded(object)
        BY <1>0, <2>1 DEF Rounded
    <2>4. ~object.deleting => SameClaim(d, object)
        BY <1>b, <2>1, <2>2
    <2> QED
        BY <2>2, <2>3, <2>4, OutsideHolds
<1>3. ASSUME NEW d \in Deployers, NEW spec \in Specs, ApplyDeployer(d, spec)
      PROVE  HeldInv'
    <2> DEFINE object == [dep[d] EXCEPT !.spec = spec, !.finalizer = FALSE]
    <2>1. /\ object.resourcePool = dep[d].resourcePool /\ object.deleting = dep[d].deleting
          /\ object.currentRound = dep[d].currentRound /\ object.exists = dep[d].exists
          /\ object.spec = spec
        BY <1>0 DEF DeployerObject
    <2>2. WriteFromOutside(d, object) \/ WriteFromOutside(d, AbsentDeployer)
        BY <1>3 DEF ApplyDeployer
    <2>3. dep[d].exists
        BY <1>3 DEF ApplyDeployer
    <2> HIDE DEF object
    <2>4. Rounded(object)
        BY <1>0, <2>1 DEF Rounded
    <2>5. WriteFromOutside(d, object) /\ ~object.deleting => SameClaim(d, object)
        BY <1>b, <2>1, <2>3
    <2> QED
        BY <1>a, <2>2, <2>4, <2>5, OutsideHolds
<1>4. ASSUME NEW d \in Deployers, DeleteDeployer(d)
      PROVE  HeldInv'
    <2> DEFINE object == [dep[d] EXCEPT !.deleting = TRUE]
    <2>1. /\ object.resourcePool = dep[d].resourcePool /\ object.deleting
          /\ object.currentRound = dep[d].currentRound
        BY <1>0 DEF DeployerObject
    <2>2. WriteFromOutside(d, object) \/ WriteFromOutside(d, AbsentDeployer)
        BY <1>4 DEF DeleteDeployer
    <2> HIDE DEF object
    <2>3. Rounded(object)
        BY <1>0, <2>1 DEF Rounded
    <2> QED
        BY <1>a, <2>1, <2>2, <2>3, OutsideHolds
<1> QED
    BY <1>1, <1>2, <1>3, <1>4 DEF DeployerUser

\* Where there is one round, an object that is sent to a cleanup has no pool.
LEMMA RoutedHolds ==
    ASSUME NEW object \in DeployerObject, object.exists, object.spec \in Specs,
           Rounded(object)
    PROVE  /\ Route(object) = "cleanup" =>
                  /\ ~(object.spec.round <= object.currentRound)
                  /\ OneRound => object.resourcePool = None
           /\ Route(object) = "finalize" => object.deleting
           /\ Route(object) \notin {"release", "beg", "create", "publish", "save"}
           /\ Route(object) \notin {"finalize", "dropFinalizer", "idle"} => ~object.deleting
<1>1. object.spec.round \in Int /\ object.currentRound \in Int
         /\ object.deleting \in BOOLEAN /\ object.finalizer \in BOOLEAN
    BY SpecsAssumption DEF DeployerObject
<1>2. OneRound => object.currentRound = 0 \/ object.currentRound = object.spec.round
    BY DEF Rounded, RoundNumbers, OneRound
<1> QED
    BY <1>1, <1>2 DEF Route, Rounded

LEMMA GetHolds ==
    ASSUME OneRound \/ ~DeployersLag, PoolInv, DeployerInv, HeldInv, NEW d \in Deployers, Get(d)
    PROVE  HeldInv'
<1> DEFINE seen == depCache[d]
<1>1. /\ UNCHANGED <<pool, depVars>>
      /\ seen \in DeployerObject /\ (seen.exists => seen.spec \in Specs) /\ Rounded(seen)
    BY DEF Get, poolVars, DeployerInv, DepOK, HeldInv, HeldDeps
<1>2. HeldDeps'
    BY <1>1, HeldPools, UnchangedPoolKeeps DEF HeldInv
<1>3. CASE run' = Idle
    BY <1>2, <1>3, HeldIdle DEF HeldInv
<1>4. CASE /\ seen.exists /\ Route(seen) # "idle"
           /\ run' = [pc |-> Route(seen), d |-> d, copy |-> seen, fresh |-> depFresh[d]]
    <2>1. run'.pc = Route(seen) /\ run'.copy = seen /\ run'.d = d
        BY <1>4
    <2>2. seen.deleting /\ dep[d].exists /\ ~dep[d].deleting => dep[d].resourcePool = None
        BY DEF HeldInv, HeldDeps
    <2>3. dep' = dep /\ depCache'[d] = seen /\ (DeployersLag \/ seen = dep[d])
        BY <1>1 DEF depVars, HeldInv, HeldDeps
    <2> HIDE DEF seen
    <2>5. Route(seen) \in {"finalize", "cleanup"} => seen.resourcePool = None \/ Dispensable(d)
        BY <1>1, <1>4, <2>2, <2>3, RoutedHolds DEF Dispensable
    <2>4. HeldRun'
        BY <1>1, <1>4, <2>1, <2>3, <2>5, RoutedHolds DEF HeldRun, Rounded, Dispensable
    <2> QED
        BY <1>2, <2>4 DEF HeldInv
<1> QED
    BY <1>3, <1>4 DEF Get

LEMMA ControllerHolds ==
    ASSUME PoolInv, DeployerInv, HeldInv, DeployerController PROVE HeldInv'
<1>0. /\ Working /\ run.d \in Deployers /\ run \in RunType /\ DepOK
      /\ run.copy \in DeployerObject /\ run.copy.spec \in Specs /\ Rounded(run.copy)
      /\ None \notin Pools
    <2>1. Working
        BY DEF DeployerController, Conflict, AddFinalizer, Finalize, DropFinalizer, Undo,
               Cleanup, ReleaseOld, Beg, BegFails, BegPanic, Save, HandleMissing,
               HandleWatch, HandleFails, KeepJob, ForceDelete, CreateWorkload, Publish,
               At, Working
    <2> QED
        BY <2>1, PoolAssumption DEF DeployerInv, RunOK, RunType, HeldInv, HeldRun
<1>1. ASSUME UNCHANGED <<pool, depVars>> PROVE HeldDeps'
    BY <1>1, HeldPools, UnchangedPoolKeeps DEF HeldInv
<1>2. ASSUME UNCHANGED <<pool, depVars>>, run' = Idle PROVE HeldInv'
    BY <1>1, <1>2, HeldIdle DEF HeldInv
\* The copy is written over the version it was read from: its pool is None, or
\* the one that was recorded, or reserved just before.
<1>3. ASSUME NEW object, UNCHANGED pool, StoreDeployer(run.d, object), Rounded(object),
             \/ ~object.exists \/ object.resourcePool = None
             \/ /\ run.fresh /\ run.pc \notin {"finalize", "dropFinalizer"}
                /\ object.resourcePool = dep[run.d].resourcePool
                /\ object.spec = dep[run.d].spec /\ object.currentRound = dep[run.d].currentRound
             \/ run.fresh /\ run.pc = "save" /\ object = run.copy
      PROVE  HeldDeps'
    <2>1. run.fresh /\ run.pc \notin {"finalize", "dropFinalizer"} =>
              dep[run.d].exists /\ ~dep[run.d].deleting /\ ~depCache[run.d].deleting
        <3>1. dep[run.d].deleting \in BOOLEAN
            BY <1>0 DEF DepOK, DeployerObject
        <3> QED
            BY <3>1 DEF DeployerInv, RunOK, Agrees, HeldInv, HeldRun
    <2>2. run.pc = "save" => Holds(pool[run.copy.resourcePool].usage, run.d)
        BY DEF HeldInv, HeldRun
    <2>3. object.exists /\ ~object.deleting =>
              \/ object.resourcePool = None \/ SameClaim(run.d, object)
              \/ /\ ~depCache[run.d].deleting
                 /\ Holds(pool[object.resourcePool].usage, run.d)
        BY <1>3, <2>1, <2>2 DEF SameClaim
    <2> QED
        BY <1>0, <1>3, <2>3, HeldWrite DEF HeldInv
<1>4. CASE Conflict \/ BegFails
    BY <1>2, <1>4 DEF Conflict, BegFails, Return, depVars, poolVars
<1>5. CASE Finalize
    <2>1. /\ UNCHANGED depVars /\ run.pc = "finalize"
          /\ UNCHANGED pool \/ Released(run.copy.resourcePool, run.d)
          /\ \/ run' = Idle
             \/ run'.pc = "dropFinalizer" /\ run'.copy = run.copy
        BY <1>0, <1>5 DEF Finalize, Release, Return, Goto, At, poolVars, RunType
    <2>2. \A d \in Deployers : d # run.d => Keeps(d)
        BY <2>1, ReleasedKeeps, UnchangedPoolKeeps
    <2>3. UNCHANGED pool \/ Dispensable(run.d)
        BY <1>0, <2>1 DEF HeldInv, HeldRun, Released
    <2>4. HeldDeps'
        BY <2>1, <2>2, <2>3, HeldPools, UnchangedPoolKeeps DEF HeldInv
    <2>5. CASE run' = Idle
        BY <2>4, <2>5, HeldIdle DEF HeldInv
    <2>6. CASE run'.pc = "dropFinalizer" /\ run'.copy = run.copy
        BY <1>0, <2>4, <2>6 DEF HeldInv, HeldRun, Rounded
    <2> QED
        BY <2>1, <2>5, <2>6
<1>6. CASE ReleaseOld
    <2>1. /\ run.pc = "release" /\ UNCHANGED depVars
          /\ UNCHANGED pool \/ Released(run.copy.resourcePool, run.d)
        BY <1>6 DEF ReleaseOld, Release, At, poolVars
    <2>2. \/ run' = Idle
          \/ /\ run'.pc = "beg" /\ run'.copy = NextRound(run.copy) /\ run'.d = run.d
             /\ run'.fresh = run.fresh
        BY <1>0, <1>6 DEF ReleaseOld, Release, Return, Goto, RunType
    <2>5. \A d \in Deployers : d # run.d => Keeps(d)
        BY <2>1, ReleasedKeeps, UnchangedPoolKeeps
    <2>6. UNCHANGED pool \/ Dispensable(run.d)
        BY <1>0, <2>1 DEF HeldInv, HeldRun, Released
    <2>7. HeldDeps'
        BY <2>1, <2>5, <2>6, HeldPools, UnchangedPoolKeeps DEF HeldInv
    <2>3. CASE run' = Idle
        BY <2>3, <2>7, HeldIdle DEF HeldInv
    <2>4. CASE /\ run'.pc = "beg" /\ run'.copy = NextRound(run.copy) /\ run'.d = run.d
               /\ run'.fresh = run.fresh
        <3>1. /\ NextRound(run.copy).currentRound = run.copy.spec.round
              /\ NextRound(run.copy).resourcePool = None
            BY <1>0, NextRoundType DEF NextRound, DeployerObject
        <3>2. run.copy.spec.round \in RoundNumbers /\ run.copy.spec.round # 0
            BY <1>0, SpecsAssumption DEF RoundNumbers
        <3>3. run.fresh => ~depCache[run.d].deleting
            BY <2>1 DEF HeldInv, HeldRun
        <3>4. HeldRun'
            BY <2>1, <2>4, <3>1, <3>2, <3>3 DEF HeldRun, Rounded, RoundNumbers, depVars
        <3> QED
            BY <2>7, <3>4 DEF HeldInv
    <2> QED
        BY <2>2, <2>3, <2>4
<1>7. CASE Cleanup
    <2>1. /\ run.pc = "cleanup" /\ UNCHANGED <<pool, depVars>>
          /\ \/ run' = Idle
             \/ /\ run'.pc = "release" /\ run'.copy = run.copy /\ run'.d = run.d
                /\ run'.fresh = run.fresh
        BY <1>0, <1>7 DEF Cleanup, At, Return, Goto, poolVars, RunType
    <2>2. CASE run' = Idle
        BY <1>2, <2>1, <2>2
    <2>3. CASE /\ run'.pc = "release" /\ run'.copy = run.copy /\ run'.d = run.d
               /\ run'.fresh = run.fresh
        <3>1. HeldRun'
            BY <2>1, <2>3 DEF HeldInv, HeldRun, Rounded, Dispensable, depVars
        <3> QED
            BY <1>1, <2>1, <3>1 DEF HeldInv
    <2> QED
        BY <2>1, <2>2, <2>3
<1>8. CASE Beg
    <2> DEFINE p == run.copy.spec.pool
               copy == [run.copy EXCEPT !.resourcePool = p]
    <2>1. /\ run.pc = "beg" /\ UNCHANGED depVars /\ BegGranted(p, run.d, run.copy.spec.amount)
          /\ run'.pc = "save" /\ run'.copy = copy /\ run'.d = run.d /\ run'.fresh = run.fresh
        BY <1>0, <1>8 DEF Beg, At, Goto, RunType
    <2>2. p \in Pools /\ run.copy.spec.amount \in Requests
        BY <1>0, SpecsAssumption
    <2>3. Holds(pool'[p].usage, run.d) /\ \A d \in Deployers : Keeps(d)
        BY <1>0, <2>1, <2>2, GrantedKeeps DEF Deployers
    <2>4. copy.resourcePool = p /\ copy.currentRound = run.copy.currentRound
        BY <1>0 DEF DeployerObject
    <2> HIDE DEF copy, p
    <2>5. /\ run.copy.currentRound # 0 /\ run.copy.currentRound \in RoundNumbers
          /\ run.fresh => ~depCache[run.d].deleting
        BY <2>1 DEF HeldInv, HeldRun, Rounded
    <2>6. HeldRun'
        BY <2>1, <2>2, <2>3, <2>4, <2>5 DEF HeldRun, Rounded, RoundNumbers, depVars
    <2>7. HeldDeps'
        BY <2>1, <2>3, HeldPools DEF HeldInv
    <2> QED
        BY <2>6, <2>7 DEF HeldInv
<1>9. CASE AddFinalizer
    <2> DEFINE object == [run.copy EXCEPT !.finalizer = TRUE]
    <2>1. /\ run.pc = "addFinalizer" /\ run.fresh /\ StoreDeployer(run.d, object) /\ UNCHANGED pool
          /\ run'.pc = Route(object) /\ run'.copy = object /\ run'.d = run.d
        BY <1>0, <1>9 DEF AddFinalizer, At, Store, Goto, poolVars, RunType
    <2>2. run.copy = dep[run.d] /\ run.copy.exists /\ ~run.copy.deleting
        <3>1. run.copy.deleting \in BOOLEAN
            BY <1>0 DEF DeployerObject
        <3> QED
            BY <2>1, <3>1 DEF DeployerInv, RunOK, Agrees, Reading
    <2>3. /\ object \in DeployerObject /\ object.exists /\ object.spec = run.copy.spec
          /\ object.currentRound = run.copy.currentRound /\ ~object.deleting
          /\ object.resourcePool = run.copy.resourcePool
        BY <1>0, <2>2 DEF DeployerObject
    <2> HIDE DEF object
    <2>4. Rounded(object)
        BY <1>0, <2>3 DEF Rounded
    <2>5. HeldDeps'
        BY <1>3, <2>1, <2>2, <2>3, <2>4
    <2>6. /\ Route(object) = "cleanup" => ~(object.spec.round <= object.currentRound)
          /\ Route(object) \notin {"finalize", "release", "beg", "create", "publish", "save"}
        BY <1>0, <2>3, <2>4, RoutedHolds
    <2>7. ~depCache'[run.d].deleting /\ dep'[run.d] = object
        BY <1>0, <2>1, <2>3, StoredOne DEF HeldInv, HeldRun
    <2>8. HeldRun'
        BY <2>1, <2>4, <2>6, <2>7 DEF HeldRun, Rounded, Dispensable
    <2> QED
        BY <2>5, <2>8 DEF HeldInv
<1>10. CASE DropFinalizer
    <2>1. StoreDeployer(run.d, AbsentDeployer) /\ UNCHANGED pool /\ run' = Idle
        BY <1>10 DEF DropFinalizer, Store, poolVars
    <2>2. Rounded(AbsentDeployer) /\ ~AbsentDeployer.exists
        BY DEF Rounded, AbsentDeployer, RoundNumbers
    <2> QED
        BY <1>3, <2>1, <2>2, HeldIdle DEF HeldInv
\* A status written at the end.
<1>11. ASSUME NEW phase, UNCHANGED pool, run' = Idle,
              run.pc \in {"undo", "beg", "handle", "create", "publish"},
              UNCHANGED depVars \/ (run.fresh
                                    /\ StoreDeployer(run.d, [run.copy EXCEPT !.phase = phase]))
       PROVE  HeldInv'
    <2> DEFINE object == [run.copy EXCEPT !.phase = phase]
    <2>1. /\ object.resourcePool = run.copy.resourcePool
          /\ object.currentRound = run.copy.currentRound /\ object.spec = run.copy.spec
        BY <1>0 DEF DeployerObject
    <2>2. run.fresh => \/ object.resourcePool = None
                       \/ /\ run.pc # "beg" /\ object.resourcePool = dep[run.d].resourcePool
                          /\ object.spec = dep[run.d].spec
                          /\ object.currentRound = dep[run.d].currentRound
        BY <1>11, <2>1 DEF HeldInv, HeldRun, DeployerInv, RunOK, Agrees, Reading
    <2> HIDE DEF object
    <2>3. Rounded(object)
        BY <1>0, <2>1 DEF Rounded
    <2>4. CASE run.fresh /\ StoreDeployer(run.d, object)
        <3>1. HeldDeps'
            BY <1>3, <1>11, <2>2, <2>3, <2>4
        <3> QED
            BY <1>11, <3>1, HeldIdle DEF HeldInv
    <2> QED
        BY <1>2, <1>11, <2>4 DEF object
<1>12. CASE Undo
    <2>1. /\ run.pc = "undo" /\ UNCHANGED pool /\ run' = Idle /\ run.fresh
          /\ StoreDeployer(run.d, [run.copy EXCEPT !.phase = "UNDO"])
        BY <1>12 DEF Undo, At, Store, poolVars
    <2> QED
        BY <1>11, <2>1
<1>13. CASE BegPanic \/ HandleFails
    <2>1. /\ run.pc \in {"beg", "handle", "create"} /\ UNCHANGED pool /\ run' = Idle
          /\ PublishStatus([run.copy EXCEPT !.phase = "Failed"])
        BY <1>13 DEF BegPanic, HandleFails, At, Return, poolVars
    <2> QED
        BY <1>11, <2>1 DEF PublishStatus
<1>14. CASE Publish
    <2>1. /\ run.pc = "publish" /\ UNCHANGED pool /\ run' = Idle /\ PublishStatus(run.copy)
        BY <1>14 DEF Publish, At, poolVars
    <2>2. run.copy = [run.copy EXCEPT !.phase = run.copy.phase]
        BY <1>0 DEF DeployerObject
    <2> QED
        BY <1>11, <2>1, <2>2 DEF PublishStatus
<1>15. CASE Save
    <2>1. /\ run.pc = "save" /\ run.fresh /\ UNCHANGED pool /\ run' = Idle
          /\ StoreDeployer(run.d, run.copy)
        BY <1>15 DEF Save, At, Store, Return, poolVars
    <2>2. HeldDeps'
        BY <1>0, <1>3, <2>1
    <2> QED
        BY <2>1, <2>2, HeldIdle DEF HeldInv
<1>16. CASE HandleMissing
    <2> DEFINE object == [run.copy EXCEPT !.phase = "Pending"]
    <2>1. /\ run.pc = "handle" /\ PublishStatus(object) /\ UNCHANGED pool
          /\ run'.pc = "create" /\ run'.copy = object /\ run'.d = run.d /\ run'.fresh = run.fresh
        BY <1>0, <1>16 DEF HandleMissing, At, Goto, poolVars, RunType
    <2>2. /\ object.resourcePool = run.copy.resourcePool /\ object.deleting = run.copy.deleting
          /\ object.currentRound = run.copy.currentRound /\ object.spec = run.copy.spec
        BY <1>0 DEF DeployerObject
    <2> HIDE DEF object
    <2>3. Rounded(object)
        BY <1>0, <2>2 DEF Rounded
    <2>4. CASE run.fresh
        <3>1. StoreDeployer(run.d, object) /\ run.copy = dep[run.d] /\ ~run.copy.deleting
            <4>1. run.copy.deleting \in BOOLEAN
                BY <1>0 DEF DeployerObject
            <4> QED
                BY <2>1, <2>4, <4>1 DEF PublishStatus, DeployerInv, RunOK, Agrees, Reading
        <3>2. HeldDeps'
            BY <1>3, <2>1, <2>2, <2>3, <2>4, <3>1
        <3>3. dep'[run.d] = object /\ ~depCache'[run.d].deleting
            BY <1>0, <2>1, <2>2, <2>4, <3>1, StoredOne DEF HeldInv, HeldRun
        <3>4. HeldRun'
            BY <2>1, <2>3, <3>3 DEF HeldRun, Rounded
        <3> QED
            BY <3>2, <3>4 DEF HeldInv
    <2>5. CASE ~run.fresh
        <3>1. HeldRun'
            BY <2>1, <2>3, <2>5 DEF HeldRun, Rounded
        <3> QED
            BY <1>1, <2>1, <2>5, <3>1 DEF HeldInv, PublishStatus
    <2> QED
        BY <2>4, <2>5
<1>17. CASE HandleWatch
    <2> DEFINE copy == [run.copy EXCEPT !.phase = PhaseOfPod[workCache[run.d][Workload]]]
    <2>1. /\ run.pc = "handle" /\ UNCHANGED <<pool, depVars>>
          /\ run'.pc = "publish" /\ run'.copy = copy /\ run'.d = run.d /\ run'.fresh = run.fresh
        BY <1>0, <1>17 DEF HandleWatch, At, Goto, poolVars, RunType
    <2>2. copy.resourcePool = run.copy.resourcePool /\ copy.currentRound = run.copy.currentRound
        BY <1>0 DEF DeployerObject
    <2> HIDE DEF copy
    <2>3. run.fresh => run.copy = dep[run.d] /\ ~depCache[run.d].deleting
        BY <2>1 DEF DeployerInv, RunOK, Agrees, Reading, HeldInv, HeldRun
    <2>4. HeldRun'
        BY <1>0, <2>1, <2>2, <2>3 DEF HeldRun, Rounded, depVars
    <2> QED
        BY <1>1, <2>1, <2>4 DEF HeldInv
<1>18. CASE KeepJob \/ ForceDelete \/ CreateWorkload
    <2>1. /\ run.pc = "create" /\ UNCHANGED <<pool, depVars>>
          /\ run'.pc \in {"create", "publish"} /\ run'.copy = run.copy /\ run'.d = run.d
          /\ run'.fresh = run.fresh
        BY <1>0, <1>18 DEF KeepJob, ForceDelete, CreateWorkload, At, Goto, poolVars, RunType
    <2>2. HeldRun'
        BY <2>1 DEF HeldInv, HeldRun, Rounded, depVars
    <2> QED
        BY <1>1, <2>1, <2>2 DEF HeldInv
<1> QED
    BY <1>4, <1>5, <1>6, <1>7, <1>8, <1>9, <1>10, <1>12, <1>13, <1>14, <1>15, <1>16, <1>17,
       <1>18 DEF DeployerController

LEMMA NextHolds ==
    /\ OneRound \/ ~DeployersLag
    /\ PoolInv /\ DeployerInv /\ HeldInv
    /\ [RoundsGrow]_vars /\ [Next]_vars
    => HeldInv'
<1> SUFFICES ASSUME OneRound \/ ~DeployersLag, PoolInv, DeployerInv, HeldInv,
                    [RoundsGrow]_vars, [Next]_vars
             PROVE  HeldInv'
    OBVIOUS
<1>1. DepOK /\ run \in RunType /\ (run.fresh => run.d \in Deployers)
    BY DEF DeployerInv, RunOK, Working
<1>2. ASSUME UNCHANGED <<depVars, run>>, \A d \in Deployers : Keeps(d) PROVE HeldInv'
    <2>1. \A d \in Deployers : Dispensable(d) => Dispensable(d)'
        BY <1>2 DEF Dispensable, depVars
    <2>2. HeldRun'
        BY <1>2, <2>1, RunStays DEF HeldInv, depVars
    <2> QED
        BY <1>2, <2>2, HeldPools DEF HeldInv
<1>3. CASE PoolStep
    BY <1>2, <1>3, PoolStepKeeps DEF PoolStep, Deployers
<1>4. CASE UNCHANGED vars
    BY <1>2, <1>4, UnchangedPoolKeeps DEF vars, poolVars
\* The cache is brought up to date.
<1>5. ASSUME UNCHANGED <<dep, pool>>,
             \A d \in Deployers : depCache'[d] \in {depCache[d], dep[d]}
      PROVE  HeldDeps'
    BY <1>5 DEF HeldInv, HeldDeps, Rounded, Dispensable
<1>6. ASSUME NEW d \in Deployers, SyncDeployer(d) PROVE HeldInv'
    <2>1. /\ UNCHANGED <<dep, pool, run>>
          /\ \A e \in Deployers : depCache'[e] \in {depCache[e], dep[e]}
        BY <1>1, <1>6 DEF SyncDeployer, DepOK, poolVars
    <2>2. \A e \in Deployers : Dispensable(e) => Dispensable(e)'
        BY <2>1 DEF Dispensable
    <2>3. HeldRun'
        BY <1>1, <2>1, <2>2, RunStays, UnchangedPoolKeeps DEF HeldInv
    <2> QED
        BY <1>5, <2>1, <2>3 DEF HeldInv
<1>7. ASSUME NEW d \in Deployers,
             \/ SyncWork(d) \/ Resync(d) \/ CollectGarbage(d)
             \/ \E w \in Workloads : MovePod(d, w) \/ OrphanEnds(d, w)
      PROVE  HeldInv'
    BY <1>2, <1>7, UnchangedPoolKeeps
       DEF SyncWork, Resync, CollectGarbage, MovePod, OrphanEnds, poolVars
<1>8. CASE Crash
    <2>1. UNCHANGED <<pool, depVars>> /\ run' = Down
        BY <1>8 DEF Crash
    <2>2. HeldDeps'
        BY <2>1, HeldPools, UnchangedPoolKeeps DEF HeldInv
    <2> QED
        BY <2>1, <2>2, HeldIdle DEF HeldInv
<1>9. CASE Start
    <2>1. UNCHANGED <<dep, pool>> /\ depCache' = dep /\ run' = Idle
        BY <1>9 DEF Start, RestartPools
    <2>2. HeldDeps'
        BY <1>5, <2>1
    <2> QED
        BY <2>1, <2>2, HeldIdle DEF HeldInv
<1>10. CASE DeployerUser
    <2>1. RoundsGrow \/ UNCHANGED vars
        OBVIOUS
    <2> QED
        BY <1>4, <1>10, <2>1, UsersHold
<1> QED
    BY <1>3, <1>4, <1>6, <1>7, <1>8, <1>9, <1>10, GetHolds, ControllerHolds DEF Next

LEMMA HeldInit == Init => HeldInv
<1> SUFFICES ASSUME Init PROVE HeldInv
    OBVIOUS
<1>1. \A d \in Deployers : dep[d] = AbsentDeployer /\ depCache[d] = AbsentDeployer
    BY DEF Init
<1>2. Rounded(AbsentDeployer) /\ ~AbsentDeployer.exists
    BY DEF Rounded, AbsentDeployer, RoundNumbers
<1>3. HeldDeps
    BY <1>1, <1>2 DEF HeldDeps, Dispensable
<1>4. run.copy = AbsentDeployer /\ run.pc = "idle" /\ run.fresh = FALSE
    BY DEF Init, Idle
<1>5. HeldRun
    BY <1>2, <1>4 DEF HeldRun
<1> QED
    BY <1>3, <1>5 DEF HeldInv

\* Where nobody goes back to an earlier round, and copies of deployers are stale
\* only if there is one round: whatever the other clients of the pool do, however
\* stale the copies of pools and workloads, wherever the manager crashes, and
\* whether workflows take finalizers away or not, the pool that a deployer's status
\* records holds a reservation of it until it is deleted or a later round is asked
\* for.
THEOREM RecordedPoolsAreReserved ==
    (OneRound \/ ~DeployersLag) /\ NobodyGoesBack /\ Spec => []RecordedPoolIsReserved
<1>1. (OneRound \/ ~DeployersLag) => (OneRound \/ ~DeployersLag)'
    BY DEF OneRound
<1>2. HeldInv => RecordedPoolIsReserved
    BY PoolAssumption DEF HeldInv, HeldDeps, RecordedPoolIsReserved, Dispensable
<1> QED
    BY <1>1, <1>2, HeldInit, NextHolds, DeployerInvariant, DeployersArePoolClients, PoolInvariant,
       PTL DEF Spec, NobodyGoesBack

-----------------------------------------------------------------------------
(* A job is not restarted. *)

\* A copy of a deployer that is in a round asks for no later round than it does.
\* (Until its first round is written, what is cached may still be the copy of one
\* that had the name before.)
NotAhead(object, d) ==
    dep[d].exists /\ dep[d].currentRound # 0 /\ object.exists
        => object.spec.round <= dep[d].spec.round

AheadInv ==
    /\ \A d \in Deployers : NotAhead(depCache[d], d)
    /\ Working => NotAhead(run.copy, run.d)
    /\ run.fresh => depCache[run.d].exists /\ depCache[run.d].spec = run.copy.spec

JobInv ==
    /\ \A d \in Deployers, w \in Workloads : w[2] = 0 => work[d][w] = "none"
    /\ run.pc = "cleanup" => ~(run.copy.spec.round <= run.copy.currentRound)

\* Where a reconciliation comes to a cleanup or to a deletion from.
LEMMA SentOn ==
    ASSUME run \in RunType, [Next]_vars
    PROVE  \/ run'.pc \notin {"cleanup", "finalize"}
           \/ run'.pc = run.pc /\ run'.copy = run.copy /\ run'.d = run.d
           \/ AddFinalizer \/ \E d \in Deployers : Get(d)
<1>1. ASSUME run' = Idle \/ run' = Down PROVE run'.pc \notin {"cleanup", "finalize"}
    BY <1>1, IdleType, DownType
<1>2. CASE \/ Conflict \/ DropFinalizer \/ Undo \/ BegFails \/ BegPanic \/ Save \/ HandleFails
           \/ Publish
    BY <1>1, <1>2 DEF Conflict, DropFinalizer, Undo, BegFails, BegPanic, Save, HandleFails,
                      Publish, Return
<1>3. CASE \/ Finalize \/ ReleaseOld \/ Cleanup \/ Beg \/ HandleMissing \/ HandleWatch
           \/ KeepJob \/ CreateWorkload
    <2>1. \/ run' = Idle
          \/ run'.pc \in {"dropFinalizer", "beg", "release", "save", "create", "publish"}
        BY <1>3 DEF Finalize, ReleaseOld, Release, Cleanup, Beg, HandleMissing,
                    HandleWatch, KeepJob, CreateWorkload, Goto, Return, RunType
    <2> QED
        BY <1>1, <2>1
<1>4. CASE ForceDelete \/ PoolStep \/ UNCHANGED vars
    BY <1>4 DEF ForceDelete, PoolStep, vars
<1>5. CASE DeployerUser
    <2>1. run' = run \/ run' = [run EXCEPT !.fresh = FALSE]
        BY <1>5 DEF DeployerUser, CreateDeployer, EditDeployer, ApplyDeployer, DeleteDeployer,
                    WriteFromOutside
    <2> QED
        BY <2>1 DEF RunType
<1>6. CASE Crash \/ Start
    BY <1>1, <1>6 DEF Crash, Start
<1>7. ASSUME NEW d \in Deployers,
              \/ SyncDeployer(d) \/ SyncWork(d) \/ Resync(d) \/ CollectGarbage(d)
              \/ \E w \in Workloads : MovePod(d, w) \/ OrphanEnds(d, w)
       PROVE  run' = run
    BY <1>7 DEF SyncDeployer, SyncWork, Resync, CollectGarbage, MovePod, OrphanEnds
<1> QED
    BY <1>2, <1>3, <1>4, <1>5, <1>6, <1>7 DEF Next, DeployerController

\* Only a copy that asks for a later round is sent to a cleanup.
LEMMA CleanupIsForLater ==
    ASSUME DeployerInv, JobInv, [Next]_vars
    PROVE  run'.pc = "cleanup" => ~(run'.copy.spec.round <= run'.copy.currentRound)
<1>0. run \in RunType
    BY DEF DeployerInv, RunOK
<1>1. ASSUME run'.pc = run.pc, run'.copy = run.copy
      PROVE  run'.pc = "cleanup" => ~(run'.copy.spec.round <= run'.copy.currentRound)
    BY <1>1 DEF JobInv
<1>2. ASSUME NEW object \in DeployerObject, object.exists => object.spec \in Specs, object.exists,
             Route(object) = "cleanup"
      PROVE  ~(object.spec.round <= object.currentRound)
    <2>1. object.spec.round \in Int /\ object.currentRound \in Int
          /\ object.deleting \in BOOLEAN /\ object.finalizer \in BOOLEAN
        BY <1>2, SpecsAssumption DEF DeployerObject
    <2> QED
        BY <1>2, <2>1 DEF Route
<1>3. ASSUME NEW d \in Deployers, Get(d)
      PROVE  run'.pc = "cleanup" => ~(run'.copy.spec.round <= run'.copy.currentRound)
    <2> DEFINE seen == depCache[d]
    <2>1. \/ run' = Idle
          \/ seen.exists /\ run'.pc = Route(seen) /\ run'.copy = seen
        BY <1>3 DEF Get
    <2>2. seen \in DeployerObject /\ (seen.exists => seen.spec \in Specs)
        BY DEF DeployerInv, DepOK
    <2> HIDE DEF seen
    <2> QED
        BY <1>2, <2>1, <2>2, IdleType
<1>4. CASE AddFinalizer
    <2> DEFINE object == [run.copy EXCEPT !.finalizer = TRUE]
    <2>1. run'.pc = Route(object) /\ run'.copy = object /\ run.pc = "addFinalizer"
        BY <1>0, <1>4 DEF AddFinalizer, At, Goto, RunType
    <2>2. run.copy \in DeployerObject /\ run.copy.exists /\ run.copy.spec \in Specs
        BY <2>1 DEF DeployerInv, RunOK, RunType, Working
    <2>3. object \in DeployerObject /\ object.exists /\ object.spec \in Specs
        BY <2>2 DEF DeployerObject
    <2> HIDE DEF object
    <2> QED
        BY <1>2, <2>1, <2>3
<1> QED
    BY <1>0, <1>1, <1>3, <1>4, SentOn

\* A reconciliation writes the spec that it has read, over the current version.
LEMMA ControllerWrites ==
    ASSUME DeployerInv, DeployerController
    PROVE  /\ Working /\ run.d \in Deployers /\ run.copy.exists
           /\ \/ UNCHANGED depVars
              \/ /\ run.fresh
                 /\ \E object : /\ StoreDeployer(run.d, object)
                                /\ object.exists \/ run' = Idle
                                /\ object.exists => object.spec = run.copy.spec
           /\ \/ run' = Idle
              \/ /\ run'.d = run.d /\ run'.fresh = run.fresh
                 /\ run'.copy.spec = run.copy.spec
<1>0. Working
    BY DEF DeployerController, Conflict, AddFinalizer, Finalize, DropFinalizer, Undo,
           Cleanup, ReleaseOld, Beg, BegFails, BegPanic, Save, HandleMissing,
           HandleWatch, HandleFails, KeepJob, ForceDelete, CreateWorkload, Publish,
           At, Working
<1>1. /\ run.d \in Deployers /\ run \in RunType /\ run.copy.exists
      /\ run.copy \in DeployerObject
    BY <1>0 DEF DeployerInv, RunOK, RunType
<1>2. \A phase : /\ [run.copy EXCEPT !.phase = phase].spec = run.copy.spec
                 /\ [run.copy EXCEPT !.phase = phase].exists
    BY <1>1 DEF DeployerObject
<1>3. CASE Conflict \/ BegFails
    BY <1>0, <1>1, <1>3 DEF Conflict, BegFails, Return
<1>4. CASE Undo \/ BegPanic \/ HandleFails
    <2>1. \E phase : /\ run.fresh => StoreDeployer(run.d, [run.copy EXCEPT !.phase = phase])
                     /\ ~run.fresh => UNCHANGED depVars
        BY <1>4 DEF Undo, BegPanic, HandleFails, PublishStatus, Store
    <2>2. run' = Idle
        BY <1>4 DEF Undo, BegPanic, HandleFails, Return
    <2> QED
        BY <1>0, <1>1, <1>2, <2>1, <2>2
<1>5. CASE Save \/ Publish
    BY <1>0, <1>1, <1>5 DEF Save, Publish, PublishStatus, Store, Return
<1>6. CASE DropFinalizer
    BY <1>0, <1>1, <1>6, AbsentDeployerType DEF DropFinalizer, Store
<1>7. CASE AddFinalizer
    <2>1. /\ [run.copy EXCEPT !.finalizer = TRUE].spec = run.copy.spec
          /\ [run.copy EXCEPT !.finalizer = TRUE].exists
        BY <1>1 DEF DeployerObject
    <2> QED
        BY <1>0, <1>1, <1>7, <2>1 DEF AddFinalizer, Store, Goto, RunType
<1>8. CASE Finalize \/ Cleanup \/ KeepJob \/ ForceDelete \/ CreateWorkload
    BY <1>0, <1>1, <1>8 DEF Finalize, Cleanup, KeepJob, ForceDelete, CreateWorkload, Release,
                            Goto, Return, RunType
<1>9. CASE ReleaseOld
    <2>1. NextRound(run.copy).spec = run.copy.spec
        BY <1>1 DEF NextRound, DeployerObject
    <2>2. \/ run' = Idle
          \/ /\ run'.d = run.d /\ run'.fresh = run.fresh
             /\ run'.copy = NextRound(run.copy)
        BY <1>1, <1>9 DEF ReleaseOld, Release, Goto, Return, RunType
    <2>3. UNCHANGED depVars
        BY <1>9 DEF ReleaseOld
    <2> QED
        BY <1>0, <1>1, <2>1, <2>2, <2>3
<1>10. CASE Beg
    <2>1. [run.copy EXCEPT !.resourcePool = run.copy.spec.pool].spec = run.copy.spec
        BY <1>1 DEF DeployerObject
    <2>2. /\ run'.d = run.d /\ run'.fresh = run.fresh
          /\ run'.copy = [run.copy EXCEPT !.resourcePool = run.copy.spec.pool]
        BY <1>1, <1>10 DEF Beg, Goto, RunType
    <2>3. UNCHANGED depVars
        BY <1>10 DEF Beg
    <2> QED
        BY <1>0, <1>1, <2>1, <2>2, <2>3
<1>11. CASE HandleMissing \/ HandleWatch
    <2>1. PICK phase : /\ run'.d = run.d /\ run'.fresh = run.fresh
                       /\ run'.copy = [run.copy EXCEPT !.phase = phase]
                       /\ UNCHANGED depVars \/ PublishStatus(run'.copy)
        BY <1>1, <1>11 DEF HandleMissing, HandleWatch, Goto, RunType
    <2>2. run'.copy.spec = run.copy.spec /\ run'.copy.exists
        BY <1>2, <2>1
    <2> QED
        BY <1>0, <1>1, <2>1, <2>2 DEF PublishStatus
<1> QED
    BY <1>3, <1>4, <1>5, <1>6, <1>7, <1>8, <1>9, <1>10, <1>11 DEF DeployerController

\* A write after which copies are still not ahead: the spec grows in a round, and
\* the first round is written when the cache has the deployer.
LEMMA StoredNotAhead ==
    ASSUME DepOK, AheadInv, NEW d \in Deployers, NEW object, StoreDeployer(d, object),
           object.exists => object.spec.round \in Int,
           object.exists /\ object.currentRound # 0 =>
               /\ dep[d].exists /\ dep[d].spec.round <= object.spec.round
               /\ dep[d].currentRound # 0 \/ depCache[d].spec.round <= object.spec.round
    PROVE  /\ dep'[d] = object
           /\ depCache'[d] \in {depCache[d], object}
           /\ \A e \in Deployers : NotAhead(depCache[e], e)'
<1>1. /\ dep'[d] = object /\ depCache'[d] \in {depCache[d], object}
      /\ \A e \in Deployers : e # d => dep'[e] = dep[e] /\ depCache'[e] \in {depCache[e], dep[e]}
    BY StoredOne
<1>2. \A e \in Deployers : /\ dep[e].exists => dep[e].spec.round \in Int
                           /\ depCache[e].exists => depCache[e].spec.round \in Int
    BY SpecsAssumption DEF DepOK
<1>3. ASSUME NEW e \in Deployers, e # d PROVE NotAhead(depCache[e], e)'
    BY <1>1, <1>2, <1>3 DEF AheadInv, NotAhead
<1>4. NotAhead(depCache[d], d)'
    <2>1. depCache[d].exists /\ object.exists /\ object.currentRound # 0 =>
              depCache[d].spec.round <= object.spec.round
        BY <1>2 DEF AheadInv, NotAhead
    <2> QED
        BY <1>1, <2>1 DEF NotAhead
<1> QED
    BY <1>1, <1>3, <1>4

LEMMA UsersNotAhead ==
    ASSUME DeployerInv, AheadInv, RoundsGrow, DeployerUser PROVE AheadInv'
<1>0. /\ DepOK /\ run \in RunType
      /\ \A d \in Deployers : /\ dep[d] \in DeployerObject
                              /\ dep[d].exists => dep[d].spec.round \in Int
      /\ \A spec \in Specs : spec.round \in Int
    BY SpecsAssumption DEF DeployerInv, DepOK, RunOK
<1>1. ASSUME NEW d \in Deployers, NEW object, WriteFromOutside(d, object),
             object.exists => object.spec.round \in Int,
             object.exists /\ object.currentRound # 0 =>
                 dep[d].exists /\ dep[d].currentRound # 0
      PROVE  AheadInv'
    <2>1. /\ StoreDeployer(d, object)
          /\ run'.pc = run.pc /\ run'.d = run.d /\ run'.copy = run.copy
          /\ run'.fresh => run.fresh /\ (run.d = d => object = dep[d])
        BY <1>0, <1>1 DEF WriteFromOutside, RunType
    <2>2. /\ dep'[d] = object
          /\ \A e \in Deployers : e # d => /\ dep'[e] = dep[e]
                                           /\ depCache'[e] \in {depCache[e], dep[e]}
        BY <1>0, <2>1, StoredOne
    <2>3. object.exists /\ object.currentRound # 0 => dep[d].spec.round <= object.spec.round
        BY <1>1, <2>2 DEF RoundsGrow
    <2>4. /\ depCache'[d] \in {depCache[d], object}
          /\ \A e \in Deployers : NotAhead(depCache[e], e)'
        BY <1>0, <1>1, <2>1, <2>3, StoredNotAhead
    <2>5. Working' => NotAhead(run.copy, run.d)'
        <3>1. Working => run.d \in Deployers /\ run.copy.spec.round \in Int
            BY SpecsAssumption DEF DeployerInv, RunOK
        <3>2. Working /\ run.d = d /\ object.exists /\ object.currentRound # 0 =>
                  run.copy.spec.round <= object.spec.round
            <4>1. Working /\ run.d = d /\ object.exists /\ object.currentRound # 0 =>
                      run.copy.spec.round <= dep[d].spec.round
                BY <1>1 DEF AheadInv, NotAhead, DeployerInv, RunOK
            <4>2. dep[d].exists => dep[d].spec.round \in Int
                BY <1>0
            <4> QED
                BY <1>1, <2>3, <3>1, <4>1, <4>2
        <3>3. Working' <=> Working
            BY <2>1 DEF Working
        <3>4. CASE run.d = d
            <4>1. run'.d = d /\ dep'[run'.d] = object
                BY <2>1, <2>2, <3>4
            <4> QED
                BY <2>1, <3>2, <3>3, <3>4, <4>1 DEF NotAhead
        <3>5. CASE run.d # d
            <4>1. Working => dep'[run.d] = dep[run.d]
                BY <2>2, <3>1, <3>5
            <4>2. Working => NotAhead(run.copy, run.d)
                BY DEF AheadInv
            <4> QED
                BY <2>1, <3>3, <4>1, <4>2 DEF NotAhead
        <3> QED
            BY <3>4, <3>5
    <2>6. run'.fresh => depCache'[run.d].exists /\ depCache'[run.d].spec = run.copy.spec
        <3>1. run.fresh => /\ run.d \in Deployers
                           /\ dep[run.d].exists /\ dep[run.d].spec = run.copy.spec
            BY DEF DeployerInv, RunOK, Agrees
        <3> QED
            BY <2>1, <2>2, <2>4, <3>1 DEF AheadInv
    <2> QED
        BY <2>1, <2>4, <2>5, <2>6 DEF AheadInv
<1>2. ASSUME NEW d \in Deployers, NEW spec \in Specs, CreateDeployer(d, spec) PROVE AheadInv'
    <2> DEFINE object == [AbsentDeployer EXCEPT !.exists = TRUE, !.spec = spec]
    <2>1. object.spec = spec /\ object.currentRound = 0 /\ WriteFromOutside(d, object)
        BY <1>2 DEF CreateDeployer, AbsentDeployer
    <2> HIDE DEF object
    <2> QED
        BY <1>0, <1>1, <2>1
<1>3. ASSUME NEW d \in Deployers, NEW spec \in Specs, EditDeployer(d, spec) PROVE AheadInv'
    <2> DEFINE object == [dep[d] EXCEPT !.spec = spec]
    <2>1. /\ object.spec = spec /\ object.currentRound = dep[d].currentRound
          /\ WriteFromOutside(d, object) /\ dep[d].exists
        BY <1>0, <1>3 DEF EditDeployer, DeployerObject
    <2> HIDE DEF object
    <2> QED
        BY <1>0, <1>1, <2>1
<1>4. ASSUME NEW d \in Deployers, NEW spec \in Specs, ApplyDeployer(d, spec) PROVE AheadInv'
    <2> DEFINE object == [dep[d] EXCEPT !.spec = spec, !.finalizer = FALSE]
    <2>1. /\ object.spec = spec /\ object.currentRound = dep[d].currentRound
          /\ WriteFromOutside(d, object) \/ WriteFromOutside(d, AbsentDeployer)
          /\ dep[d].exists
        BY <1>0, <1>4 DEF ApplyDeployer, DeployerObject
    <2> HIDE DEF object
    <2> QED
        BY <1>0, <1>1, <2>1, AbsentDeployerType
<1>5. ASSUME NEW d \in Deployers, DeleteDeployer(d) PROVE AheadInv'
    <2> DEFINE object == [dep[d] EXCEPT !.deleting = TRUE]
    <2>1. object.spec = dep[d].spec /\ object.currentRound = dep[d].currentRound
        BY <1>0 DEF DeployerObject
    <2>2. /\ WriteFromOutside(d, object) \/ WriteFromOutside(d, AbsentDeployer)
          /\ dep[d].exists
        BY <1>5 DEF DeleteDeployer
    <2> HIDE DEF object
    <2>3. CASE WriteFromOutside(d, object)
        <3>0. dep[d].spec.round \in Int
            BY <1>0, <2>2
        <3>1. object.spec.round \in Int
            BY <2>1, <3>0
        <3>2. object.currentRound # 0 => dep[d].exists /\ dep[d].currentRound # 0
            BY <2>1, <2>2
        <3> QED
            BY <1>1, <2>3, <3>1, <3>2
    <2>4. CASE WriteFromOutside(d, AbsentDeployer)
        BY <1>1, <2>4, AbsentDeployerType
    <2> QED
        BY <2>2, <2>3, <2>4
<1> QED
    BY <1>2, <1>3, <1>4, <1>5 DEF DeployerUser

LEMMA NextNotAhead ==
    DeployerInv /\ AheadInv /\ [RoundsGrow]_vars /\ [Next]_vars => AheadInv'
<1> SUFFICES ASSUME DeployerInv, AheadInv, [RoundsGrow]_vars, [Next]_vars PROVE AheadInv'
    OBVIOUS
<1>0. /\ DepOK /\ run \in RunType
      /\ run.fresh => /\ Working /\ dep[run.d].exists /\ dep[run.d].spec = run.copy.spec
      /\ Working => /\ run.d \in Deployers /\ run.copy.exists
                    /\ run.copy.spec.round \in Int
      /\ \A d \in Deployers : dep[d].exists => dep[d].spec.round \in Int
    BY SpecsAssumption DEF DeployerInv, DepOK, RunOK, Agrees
<1>1. ASSUME run' = Idle \/ run' = Down, \A d \in Deployers : NotAhead(depCache[d], d)'
      PROVE  AheadInv'
    BY <1>1, IdleType, DownType DEF AheadInv, Working
<1>2. ASSUME UNCHANGED <<depVars, run>> PROVE AheadInv'
    BY <1>2 DEF depVars, AheadInv, NotAhead, Working
<1>3. CASE DeployerController
    <2>1. /\ Working /\ run.d \in Deployers
          /\ \/ run' = Idle
             \/ /\ run'.d = run.d /\ run'.fresh = run.fresh
                /\ run'.copy.spec = run.copy.spec
        BY <1>3, ControllerWrites
    <2>2. CASE UNCHANGED depVars
        <3>1. \A d \in Deployers : NotAhead(depCache[d], d)'
            BY <2>2 DEF depVars, AheadInv, NotAhead
        <3> QED
            BY <1>0, <1>1, <2>1, <2>2, <3>1 DEF depVars, AheadInv, NotAhead
    <2>3. ASSUME run.fresh, NEW object, StoreDeployer(run.d, object),
                 object.exists \/ run' = Idle,
                 object.exists => object.spec = run.copy.spec
          PROVE  AheadInv'
        <3>1. object.exists => object.spec.round \in Int
            BY <1>0, <2>1, <2>3
        <3>2. object.exists => /\ dep[run.d].exists /\ dep[run.d].spec.round <= object.spec.round
                               /\ depCache[run.d].spec.round <= object.spec.round
            BY <1>0, <2>1, <2>3 DEF AheadInv
        <3>3. /\ dep'[run.d] = object
              /\ depCache'[run.d] \in {depCache[run.d], object}
              /\ \A e \in Deployers : NotAhead(depCache[e], e)'
            BY <1>0, <2>1, <2>3, <3>1, <3>2, StoredNotAhead
        <3>4. CASE run' = Idle
            BY <1>1, <3>3, <3>4
        <3>5. CASE /\ object.exists
                   /\ run'.d = run.d /\ run'.fresh = run.fresh
                   /\ run'.copy.spec = run.copy.spec
            <4>1. NotAhead(run.copy, run.d)'
                <5>1. object.exists => run'.copy.spec.round <= object.spec.round
                    BY <1>0, <2>1, <2>3, <3>5
                <5> QED
                    BY <3>3, <3>5, <5>1 DEF NotAhead
            <4>2. depCache'[run.d].exists /\ depCache'[run.d].spec = run.copy.spec
                BY <2>3, <3>3, <3>5 DEF AheadInv
            <4>3. run'.fresh =>
                      depCache'[run'.d].exists /\ depCache'[run'.d].spec = run'.copy.spec
                BY <3>5, <4>2
            <4> QED
                BY <3>3, <4>1, <4>3 DEF AheadInv
        <3> QED
            BY <2>1, <2>3, <3>4, <3>5
    <2> QED
        BY <1>3, <2>2, <2>3, ControllerWrites
<1>4. ASSUME NEW d \in Deployers, Get(d) PROVE AheadInv'
    <2>1. UNCHANGED depVars
        BY <1>4 DEF Get
    <2>2. \A e \in Deployers : NotAhead(depCache[e], e)'
        BY <2>1 DEF depVars, AheadInv, NotAhead
    <2>3. \/ run' = Idle
          \/ /\ depCache[d].exists
             /\ run' = [pc |-> Route(depCache[d]), d |-> d, copy |-> depCache[d],
                        fresh |-> depFresh[d]]
        BY <1>4 DEF Get
    <2>4. CASE run' = Idle
        BY <1>1, <2>2, <2>4
    <2>5. CASE depCache[d].exists /\ run'.d = d /\ run'.copy = depCache[d]
        BY <2>1, <2>2, <2>5 DEF depVars, AheadInv, NotAhead
    <2> QED
        BY <2>3, <2>4, <2>5
<1>5. ASSUME NEW d \in Deployers, SyncDeployer(d) PROVE AheadInv'
    <2>1. /\ UNCHANGED <<dep, run>> /\ depCache' = [depCache EXCEPT ![d] = dep[d]]
        BY <1>5 DEF SyncDeployer
    <2>2. depCache'[d] = dep[d] /\ \A e \in Deployers : e # d => depCache'[e] = depCache[e]
        BY <1>0, <2>1 DEF DepOK
    <2>3. \A e \in Deployers : NotAhead(depCache[e], e)'
        BY <1>0, <2>1, <2>2 DEF AheadInv, NotAhead
    <2> QED
        BY <1>0, <2>1, <2>2, <2>3 DEF AheadInv, NotAhead, Working
<1>6. CASE Start
    <2>1. UNCHANGED dep /\ depCache' = dep /\ run' = Idle
        BY <1>6 DEF Start
    <2>2. \A e \in Deployers : NotAhead(depCache[e], e)'
        BY <1>0, <2>1 DEF NotAhead
    <2> QED
        BY <1>1, <2>1, <2>2
<1>7. CASE Crash
    <2>1. UNCHANGED depVars /\ run' = Down
        BY <1>7 DEF Crash
    <2>2. \A e \in Deployers : NotAhead(depCache[e], e)'
        BY <2>1 DEF depVars, AheadInv, NotAhead
    <2> QED
        BY <1>1, <2>1, <2>2
<1>8. CASE PoolStep \/ UNCHANGED vars
    BY <1>2, <1>8 DEF PoolStep, vars
<1>9. ASSUME NEW d \in Deployers,
             \/ SyncWork(d) \/ Resync(d) \/ CollectGarbage(d)
             \/ \E w \in Workloads : MovePod(d, w) \/ OrphanEnds(d, w)
      PROVE  AheadInv'
    BY <1>2, <1>9 DEF SyncWork, Resync, CollectGarbage, MovePod, OrphanEnds
<1>10. CASE DeployerUser
    <2>1. RoundsGrow \/ UNCHANGED vars
        OBVIOUS
    <2> QED
        BY <1>8, <1>10, <2>1, UsersNotAhead
<1> QED
    BY <1>3, <1>4, <1>5, <1>6, <1>7, <1>8, <1>9, <1>10 DEF Next

\* What a step does to a workload: it is created for a round, a pod moves, it is
\* collected after its deployer, it is a stateful set created by force, or the job
\* of the round that a copy which asks for a later one has recorded.
LEMMA JobStep ==
    ASSUME DeployerInv, JobInv, [Next]_vars, NEW d \in Deployers, NEW w \in Workloads
    PROVE  /\ w[2] = 0 => work'[d][w] = "none"
           /\ dep[d].exists /\ w[1] = "job" /\ work[d][w] # "none" =>
                  \/ work'[d][w] # "none"
                  \/ Cleanup /\ d = run.d /\ w = <<"job", run.copy.currentRound>>
<1>0. WorkOK /\ run \in RunType
    BY DEF DeployerInv, RunOK
<1>1. ASSUME UNCHANGED work
      PROVE  /\ w[2] = 0 => work'[d][w] = "none"
             /\ work[d][w] # "none" => work'[d][w] # "none"
    BY <1>1 DEF JobInv
<1>2. ASSUME NEW e, NEW v \in Workloads, NEW state, SetWork(e, v, state)
      PROVE  work'[d][w] = IF d = e /\ w = v THEN state ELSE work[d][w]
    BY <1>0, <1>2 DEF SetWork, WorkOK
<1>3. ASSUME NEW e \in Deployers, CollectGarbage(e)
      PROVE  /\ w[2] = 0 => work'[d][w] = "none"
             /\ dep[d].exists /\ work[d][w] # "none" => work'[d][w] # "none"
    <2>1. work' = [work EXCEPT ![e] = NoWork] /\ ~dep[e].exists
        BY <1>3 DEF CollectGarbage
    <2>2. d # e => work'[d] = work[d]
        BY <1>0, <2>1 DEF WorkOK
    <2>3. d = e => work'[d][w] = "none"
        BY <1>0, <2>1 DEF WorkOK, NoWork
    <2> QED
        BY <2>1, <2>2, <2>3 DEF JobInv
<1>4. ASSUME NEW e \in Deployers, NEW v \in Workloads, MovePod(e, v)
      PROVE  /\ w[2] = 0 => work'[d][w] = "none"
             /\ work[d][w] # "none" => work'[d][w] # "none"
    <2>1. PICK move \in PodMoves(v[1]) : work[e][v] = move[1] /\ SetWork(e, v, move[2])
        BY <1>4 DEF MovePod
    <2>2. move[1] # "none" /\ move[2] # "none"
        BY DEF PodMoves
    <2>3. v[2] # 0
        BY <2>1, <2>2 DEF JobInv
    <2> QED
        BY <1>2, <2>1, <2>2, <2>3 DEF JobInv
<1>5. CASE Cleanup
    <2> DEFINE old == <<"job", run.copy.currentRound>>
    <2>1. UNCHANGED work \/ work' = [work EXCEPT ![run.d][old] = "none"]
        BY <1>5 DEF Cleanup, DeleteJob, SetWork, workVars
    <2>2. CASE work' = [work EXCEPT ![run.d][old] = "none"]
        <3>1. work'[d][w] = IF d = run.d /\ w = old THEN "none" ELSE work[d][w]
            BY <1>0, <2>2 DEF WorkOK
        <3> QED
            BY <1>5, <3>1 DEF JobInv
    <2> QED
        BY <1>1, <2>1, <2>2
<1>6. CASE ForceDelete \/ CreateWorkload
    <2>1. run.copy.spec \in Specs
        BY <1>6 DEF ForceDelete, CreateWorkload, At, DeployerInv, RunOK, Working
    <2>2. Workload \in Workloads /\ Workload[1] = run.copy.spec.type /\ Workload[2] # 0
        BY <2>1, SpecsAssumption DEF Workload, Workloads, RoundNumbers
    <2>3. \/ SetWork(run.d, Workload, "none") /\ Workload[1] = "service"
          \/ SetWork(run.d, Workload, "nopod")
        BY <1>6, <2>2 DEF ForceDelete, CreateWorkload
    <2> QED
        BY <1>2, <2>2, <2>3 DEF JobInv
<1>7. CASE \/ Conflict \/ AddFinalizer \/ Finalize \/ DropFinalizer \/ Undo \/ ReleaseOld \/ Beg
           \/ BegFails \/ BegPanic \/ Save \/ HandleMissing \/ HandleWatch \/ HandleFails
           \/ KeepJob \/ Publish
    BY <1>1, <1>7 DEF Conflict, AddFinalizer, Finalize, DropFinalizer, Undo, ReleaseOld, Beg,
                      BegFails, BegPanic, Save, HandleMissing, HandleWatch, HandleFails,
                      KeepJob, Publish, workVars
<1>8. CASE DeployerUser \/ PoolStep \/ Crash \/ Start \/ UNCHANGED vars
    BY <1>1, <1>8 DEF DeployerUser, CreateDeployer, EditDeployer, ApplyDeployer,
                      DeleteDeployer, WriteFromOutside, PoolStep, Crash, Start, vars, workVars
<1>9. ASSUME NEW e \in Deployers, \/ Get(e) \/ SyncDeployer(e) \/ SyncWork(e) \/ Resync(e)
                                \/ \E v \in Workloads : OrphanEnds(e, v)
      PROVE  UNCHANGED work
    BY <1>9 DEF Get, SyncDeployer, SyncWork, Resync, OrphanEnds, workVars
<1> QED
    BY <1>1, <1>3, <1>4, <1>5, <1>6, <1>7, <1>8, <1>9 DEF Next, DeployerController

\* Where nobody goes back to an earlier round: however stale the copies of
\* deployers and workloads are from which a job is looked up or cleaned up,
\* wherever the manager crashes and whoever deletes the deployer and creates it
\* again, a job that was created for its round is not deleted or created again
\* while the deployer exists and asks for no later round.
THEOREM JobsAreNotRestarted == NobodyGoesBack /\ Spec => JobIsNotRestarted
<1>1. Init => JobInv
    BY IdleType DEF Init, JobInv, NoWork
<1>2. Init => AheadInv
    BY IdleType, AbsentDeployerType DEF Init, AheadInv, NotAhead, Working
<1>3. DeployerInv /\ JobInv /\ [Next]_vars => JobInv'
    <2> SUFFICES ASSUME DeployerInv, JobInv, [Next]_vars PROVE JobInv'
        OBVIOUS
    <2>1. \A d \in Deployers, w \in Workloads : w[2] = 0 => work'[d][w] = "none"
        BY JobStep
    <2> QED
        BY <2>1, CleanupIsForLater DEF JobInv
<1>4. DeployerInv /\ AheadInv /\ JobInv /\ [Next]_vars =>
          [\A d \in Deployers, w \in Workloads :
               (/\ dep[d].exists
                /\ dep[d].spec.round <= dep[d].currentRound
                /\ w = <<"job", dep[d].currentRound>>
                /\ work[d][w] # "none")
                   => work'[d][w] # "none"]_vars
    <2> SUFFICES ASSUME DeployerInv, AheadInv, JobInv, [Next]_vars,
                        NEW d \in Deployers, NEW w \in Workloads, dep[d].exists,
                        dep[d].spec.round <= dep[d].currentRound,
                        w = <<"job", dep[d].currentRound>>, work[d][w] # "none",
                        Cleanup, d = run.d, w = <<"job", run.copy.currentRound>>
                 PROVE  FALSE
        BY JobStep
    <2>1. /\ run.pc = "cleanup" /\ Working
          /\ run.copy.exists /\ run.copy.spec.round \in Int
        BY SpecsAssumption DEF Cleanup, At, Working, DeployerInv, RunOK
    <2>2. /\ dep[d].currentRound # 0 /\ dep[d].currentRound = run.copy.currentRound
          /\ dep[d].currentRound \in Int /\ dep[d].spec.round \in Int
        <3>1. w[2] = dep[d].currentRound /\ w[2] = run.copy.currentRound
            OBVIOUS
        <3>2. w[2] # 0
            BY DEF JobInv
        <3>3. dep[d] \in DeployerObject /\ dep[d].spec \in Specs
            BY DEF DeployerInv, DepOK
        <3>4. dep[d].currentRound \in Int /\ dep[d].spec.round \in Int
            BY <3>3, SpecsAssumption DEF DeployerObject
        <3> QED
            BY <3>1, <3>2, <3>4
    <2>3. run.copy.spec.round <= dep[d].spec.round
        BY <2>1, <2>2 DEF AheadInv, NotAhead
    <2>4. ~(run.copy.spec.round <= run.copy.currentRound)
        BY <2>1 DEF JobInv
    <2> QED
        BY <2>1, <2>2, <2>3, <2>4
<1> QED
    BY <1>1, <1>2, <1>3, <1>4, NextNotAhead, DeployerInvariant, PTL
       DEF Spec, NobodyGoesBack, JobIsNotRestarted

-----------------------------------------------------------------------------
(* Deleted before released: where no workload is stray.                    *)

\* A deployer whose deletion is under way is marked until its finalizer goes.
FinalInv == run.pc = "finalize" => dep[run.d].exists /\ dep[run.d].deleting

LEMMA MarkStays ==
    ASSUME InOrder, DeployerInv, [Next]_vars, run.pc = "finalize", NEW d \in Deployers,
           d = run.d, dep[d].exists, dep[d].deleting
    PROVE  dep'[d].exists /\ dep'[d].deleting
<1>1. DepOK /\ run \in RunType
    BY DEF DeployerInv, RunOK
<1>2. CASE DeployerUser
    <2>1. ASSUME NEW e \in Deployers, e # d, NEW object, StoreDeployer(e, object)
          PROVE  dep'[d] = dep[d]
        BY <1>1, <2>1, StoredOne
    <2>2. ASSUME NEW e \in Deployers, NEW spec \in Specs,
                 \/ CreateDeployer(e, spec) \/ EditDeployer(e, spec)
          PROVE  dep'[d].exists /\ dep'[d].deleting
        <3>1. CASE e # d
            <4>1. \E object : StoreDeployer(e, object)
                BY <2>2 DEF CreateDeployer, EditDeployer, WriteFromOutside
            <4> QED
                BY <2>1, <3>1, <4>1
        <3>2. CASE e = d
            <4> DEFINE object == [dep[d] EXCEPT !.spec = spec]
            <4>0. ~CreateDeployer(e, spec)
                BY <3>2 DEF CreateDeployer
            <4>1. EditDeployer(e, spec)
                BY <2>2, <4>0
            <4>2. EditDeployer(d, spec)
                BY <3>2, <4>1, Zenon
            <4>3. StoreDeployer(d, object)
                BY <4>2, Zenon DEF EditDeployer, WriteFromOutside
            <4>4. object.exists = dep[d].exists /\ object.deleting = dep[d].deleting
                <5>1. dep[d] \in DeployerObject
                    BY <1>1 DEF DepOK
                <5> QED
                    BY <5>1 DEF DeployerObject
            <4>5. dep'[d] = object
                BY <1>1, <4>3, StoredOne
            <4> HIDE DEF object
            <4> QED
                BY <4>4, <4>5
        <3> QED
            BY <3>1, <3>2
    <2>3. ASSUME NEW e \in Deployers, DeleteDeployer(e) PROVE dep'[d] = dep[d]
        BY <2>1, <2>3 DEF DeleteDeployer, WriteFromOutside
    <2>4. ~\E e \in Deployers, spec \in Specs : ApplyDeployer(e, spec)
        BY DEF ApplyDeployer, InOrder
    <2> QED
        BY <1>2, <2>2, <2>3, <2>4 DEF DeployerUser
<1>3. CASE DeployerController
    <2>1. Finalize
        BY <1>3 DEF DeployerController, Conflict, AddFinalizer, DropFinalizer, Undo, Cleanup,
                    ReleaseOld, Beg, BegFails, BegPanic, Save, HandleMissing, HandleWatch,
                    HandleFails, KeepJob, ForceDelete, CreateWorkload, Publish, At
    <2> QED
        BY <2>1 DEF Finalize, depVars
<1>4. CASE PoolStep \/ Crash \/ Start \/ UNCHANGED vars \/ \E e \in Deployers : Get(e)
    BY <1>4 DEF PoolStep, Crash, Start, Get, vars, depVars
<1>5. ASSUME NEW e \in Deployers,
             \/ SyncDeployer(e) \/ SyncWork(e) \/ Resync(e) \/ CollectGarbage(e)
             \/ \E w \in Workloads : MovePod(e, w) \/ OrphanEnds(e, w)
      PROVE  dep' = dep
    BY <1>5 DEF SyncDeployer, SyncWork, Resync, CollectGarbage, MovePod, OrphanEnds, depVars
<1> QED
    BY <1>2, <1>3, <1>4, <1>5 DEF Next

LEMMA NextIsFinal ==
    InOrder /\ DeployerInv /\ StrayInv /\ FinalInv /\ [Next]_vars => FinalInv'
<1> SUFFICES ASSUME InOrder, DeployerInv, StrayInv, FinalInv, [Next]_vars,
                    run'.pc = "finalize"
             PROVE  dep'[run'.d].exists /\ dep'[run'.d].deleting
    BY DEF FinalInv
<1>0. run \in RunType
    BY DEF DeployerInv, RunOK
<1>1. CASE run'.pc = run.pc /\ run'.d = run.d
    <2>1. run.d \in Deployers /\ dep[run.d].exists /\ dep[run.d].deleting
        BY <1>1 DEF FinalInv, DeployerInv, RunOK, Working
    <2> QED
        BY <1>1, <2>1, MarkStays
<1>2. ASSUME NEW d \in Deployers, Get(d) PROVE dep'[run'.d].exists /\ dep'[run'.d].deleting
    <2> DEFINE seen == depCache[d]
    <2>1. seen.exists /\ run'.pc = Route(seen) /\ run'.d = d /\ dep' = dep
        BY <1>2, IdleType DEF Get, depVars
    <2>2. seen = dep[d] /\ seen.deleting \in BOOLEAN /\ seen.finalizer \in BOOLEAN
        BY DEF StrayInv, DeployerInv, DepOK, DeployerObject
    <2>3. seen.deleting
        BY <2>1, <2>2 DEF Route
    <2> QED
        BY <2>1, <2>2, <2>3
<1>3. ~AddFinalizer
    <2> SUFFICES ASSUME AddFinalizer PROVE FALSE
        OBVIOUS
    <2> DEFINE object == [run.copy EXCEPT !.finalizer = TRUE]
    <2>1. run'.pc = Route(object) /\ run.pc = "addFinalizer" /\ run.fresh
        BY <1>0 DEF AddFinalizer, At, Store, Goto, RunType
    <2>2. run.copy \in DeployerObject /\ ~dep[run.d].deleting /\ dep[run.d].deleting \in BOOLEAN
          /\ run.copy.deleting = dep[run.d].deleting
        <3>1. run.d \in Deployers /\ run.copy \in DeployerObject
            BY <2>1 DEF DeployerInv, RunOK, RunType, Working
        <3>2. dep[run.d].deleting \in BOOLEAN
            BY <3>1 DEF DeployerInv, DepOK, DeployerObject
        <3> QED
            BY <2>1, <3>1, <3>2 DEF DeployerInv, RunOK, Agrees
    <2>3. object.deleting = run.copy.deleting /\ object.finalizer \in BOOLEAN
        BY <2>2 DEF DeployerObject
    <2> HIDE DEF object
    <2> QED
        BY <2>1, <2>2, <2>3 DEF Route
<1> QED
    BY <1>0, <1>1, <1>2, <1>3, SentOn

LEMMA NextReleasesWorkless ==
    ASSUME PoolInv, PoolInv', DeployerInv, StrayInv, FinalInv, [Next]_vars,
           NEW d \in Deployers, NEW p \in Pools, ~dep[d].deleting,
           Reserved(pool'[p].usage, d) < Reserved(pool[p].usage, d)
    PROVE  work[d] = NoWork
<1>1. Reserved(pool[p].usage, d) \in Nat /\ Reserved(pool'[p].usage, d) \in Nat
    BY PoolUsageType, ReservedType DEF PoolInv, PoolTypeOK, PoolObject
<1>2. ~Keeps(d)
    BY <1>1 DEF Keeps
<1>3. ~UNCHANGED pool /\ ~PoolStep
    BY <1>2, UnchangedPoolKeeps, PoolStepKeeps DEF Deployers
<1>4. ASSUME Released(run.copy.resourcePool, run.d) PROVE d = run.d
    BY <1>2, <1>4, ReleasedKeeps
<1>5. CASE Finalize
    <2>1. Released(run.copy.resourcePool, run.d) /\ run.pc = "finalize"
        BY <1>3, <1>5 DEF Finalize, Release, At, poolVars
    <2> QED
        BY <1>4, <2>1 DEF FinalInv
<1>6. CASE ReleaseOld
    <2>1. Released(run.copy.resourcePool, run.d) /\ run.pc = "release"
        BY <1>3, <1>6 DEF ReleaseOld, Release, At, poolVars
    <2>2. \A w \in Workloads : work[d][w] = "none"
        BY <1>4, <2>1 DEF StrayInv, Workless
    <2> QED
        BY <2>2 DEF DeployerInv, WorkOK, NoWork
<1>7. CASE Beg
    <2>1. /\ run.d \in Owners /\ run.copy.spec.pool \in Pools /\ run.copy.spec.amount \in Requests
          /\ BegGranted(run.copy.spec.pool, run.d, run.copy.spec.amount)
        BY <1>7, SpecsAssumption DEF Beg, At, DeployerInv, RunOK, Working, Deployers
    <2> QED
        BY <1>2, <2>1, GrantedKeeps DEF Deployers
<1>8. DeployerController => Finalize \/ ReleaseOld \/ Beg
    BY <1>3 DEF DeployerController, Conflict, AddFinalizer, DropFinalizer, Undo, Cleanup,
                BegFails, BegPanic, Save, HandleMissing, HandleWatch, HandleFails, KeepJob,
                ForceDelete, CreateWorkload, Publish, poolVars
<1>9. ~DeployerUser /\ ~Crash /\ ~Start /\ ~UNCHANGED vars /\ ~\E e \in Deployers : Get(e)
    BY <1>3 DEF DeployerUser, CreateDeployer, EditDeployer, ApplyDeployer, DeleteDeployer,
                WriteFromOutside, Crash, Start, RestartPools, Get, vars, poolVars
<1>10. ASSUME NEW e \in Deployers
       PROVE  /\ ~SyncDeployer(e) /\ ~SyncWork(e) /\ ~Resync(e) /\ ~CollectGarbage(e)
              /\ ~\E w \in Workloads : MovePod(e, w) \/ OrphanEnds(e, w)
    BY <1>3 DEF SyncDeployer, SyncWork, Resync, CollectGarbage, MovePod, OrphanEnds, poolVars
<1> QED
    BY <1>3, <1>5, <1>6, <1>7, <1>8, <1>9, <1>10 DEF Next

\* Where nobody goes back to an earlier round, deployers and workloads are not read
\* from stale caches, no workflow applies them and all are jobs, but whatever pools, their
\* other clients and crashes do: unless the deployer is being deleted, its reservation is
\* given back only after the Job objects it was made for are deleted.  Of a pod that such
\* a Job leaves behind nothing is said.
THEOREM DeletedThenReleased == InOrder /\ Spec => JobDeletedBeforeReleased
<1>1. InOrder => InOrder'
    BY DEF InOrder, OnlyJobs
<1>2. Init => FinalInv
    BY IdleType DEF Init, FinalInv
<1>3. PoolInv /\ PoolInv' /\ DeployerInv /\ StrayInv /\ FinalInv /\ [Next]_vars =>
          [\A d \in Deployers, p \in Pools :
               (/\ ~dep[d].deleting
                /\ Cardinality(Positions(pool'[p].usage, d))
                       < Cardinality(Positions(pool[p].usage, d)))
                   => work[d] = NoWork]_vars
    BY NextReleasesWorkless DEF Reserved
<1> QED
    BY <1>1, <1>2, <1>3, StrayInit, NextStrays, NextIsFinal, DeployerInvariant,
       DeployersArePoolClients, PoolInvariant, PTL DEF Spec, JobDeletedBeforeReleased
=============================================================================
