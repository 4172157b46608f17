--------------------------- MODULE BuilderProofs ---------------------------
(***************************************************************************)
(* Proofs about Builder, for any builders, deployers and specs: its type   *)
(* invariant; that it implements RoundLedger; that no builder is           *)
(* forgotten; that a triggered image has been pushed, whatever is stale;   *)
(* while jobs are read as they are, that no job is left behind and that    *)
(* each finds its Dockerfile; and what hooks do: they never send a         *)
(* deployer back, and a build is Done only when each of them was heard.    *)
(***************************************************************************)
EXTENDS Builder, SequenceTheorems, TLAPS

-----------------------------------------------------------------------------
(* The inductive invariant. *)

\* The builders: types, a spec for what exists, and what current means.  One
\* that is marked without a finalizer is gone.
BuilderOK ==
    /\ builder \in [Builders -> BuilderObject]
    /\ builderCache \in [Builders -> BuilderObject]
    /\ builderFresh \in [Builders -> BOOLEAN]
    /\ \A b \in Builders :
           /\ builder[b].exists => builder[b].spec \in BuilderSpecs
           /\ builder[b].deleting => builder[b].finalizer
           /\ builderCache[b].exists => builderCache[b].spec \in BuilderSpecs
           /\ builderFresh[b] => builderCache[b] = builder[b]

\* The jobs: what is there has an image to push.
JobsOK ==
    /\ jobs \in [Builders -> [RoundNumbers -> Job]]
    /\ jobsCache \in [Builders -> [RoundNumbers -> PodStates]]
    /\ dockerfile \in [Builders -> BOOLEAN]
    /\ pushed \in SUBSET Images
    /\ \A b \in Builders, r \in RoundNumbers :
           jobs[b][r].state # "none" => jobs[b][r].image \in Images

OrphansOK == orphans \in [Builders -> SUBSET Images]

DeployersOK ==
    /\ deployer \in [Deployers -> DeployerObject]
    /\ deployerCache \in [Deployers -> DeployerObject]
    /\ deployerFresh \in [Deployers -> BOOLEAN]

Hooking == {"hookGet", "hookUpdate"}

\* Where the copy is the object that was read.
Reading == {"dropFinalizer", "addFinalizer", "undo", "cleanup", "handle"} \cup Hooking

Building == {"dockerfile", "create"}

\* What a reconciliation whose copy is current knows of the server's object:
\* on which side of the round asked for it is, and what of it the copy has.
Agrees(pc, copy, object) ==
    /\ object.exists /\ copy.exists
    /\ copy.deleting = object.deleting
    /\ copy.finalizer = object.finalizer
    /\ copy.spec = object.spec
    /\ pc \in Reading => copy = object
    /\ object.deleting <=> pc = "dropFinalizer"
    /\ object.finalizer <=> pc # "addFinalizer"
    /\ pc = "undo" => object.spec.round < object.currentRound
    /\ pc \in {"cleanup", "save"} => object.spec.round > object.currentRound
    /\ pc \in {"handle", "publish"} \cup Building \cup Hooking =>
           object.spec.round = object.currentRound
    /\ pc = "save" =>
           /\ copy.currentRound = object.spec.round
           /\ copy.history = BackedUp(object)
           /\ copy.phase = "Pending"
    /\ pc \in {"publish"} \cup Building =>
           /\ copy.currentRound = object.currentRound
           /\ copy.history = object.history
           /\ copy.phase # "UNDO"

RunType == [pc : PCs, b : Builders \cup {None}, copy : BuilderObject, fresh : BOOLEAN,
            hook : Nat, target : DeployerObject, targetFresh : BOOLEAN]

Working == run.pc \notin {"idle", "down"}

RunOK ==
    /\ run \in RunType
    /\ Working => run.b \in Builders /\ run.copy.exists /\ run.copy.spec \in BuilderSpecs
    /\ run.pc \in Hooking => run.hook \in 1 .. Len(run.copy.spec.hooks)
    /\ run.fresh => Working /\ Agrees(run.pc, run.copy, builder[run.b])

BuilderInv ==
    BuilderOK /\ JobsOK /\ OrphansOK /\ DeployersOK /\ RunOK /\ queue \in SUBSET Builders

\* A reconciliation whose copy is stale is not the last one.
Remembered ==
    /\ NobodyIsForgotten
    /\ Working /\ ~run.fresh => run.b \in queue \/ ~builderFresh[run.b]
    /\ ~Working => run.b = None

\* What a cached builder that is not marked tells of the server's: it is still
\* there, and in the same round, unless the cached one is about to leave it.
Tells(seen, object) ==
    seen.exists /\ seen.finalizer /\ ~seen.deleting =>
        /\ object.exists /\ object.finalizer
        /\ seen.currentRound = object.currentRound \/ seen.spec.round > seen.currentRound

\* What a reconciliation that is about to change this knows of the cache.
CacheBefore ==
    /\ run.fresh /\ run.pc = "addFinalizer" => ~builderCache[run.b].finalizer
    /\ run.fresh /\ run.pc = "dropFinalizer" => builderCache[run.b] = builder[run.b]
    /\ run.fresh /\ run.pc \in {"cleanup", "save"} =>
           builderCache[run.b] = builder[run.b] \/ ~builderCache[run.b].finalizer

Lineage ==
    /\ \A b \in Builders : Tells(builderCache[b], builder[b])
    /\ run.pc \in {"handle"} \cup Building =>
           /\ builder[run.b].exists /\ builder[run.b].finalizer
           /\ run.copy.spec.round = builder[run.b].currentRound
    /\ CacheBefore

NoJobOf(b) == \A r \in RoundNumbers : jobs[b][r].state = "none"

JobsSeen == \A b \in Builders : jobsCache[b] = States(b)

\* What a reconciliation knows of the jobs of its builder.
RunKnows ==
    /\ run.fresh /\ run.pc = "save" => NoJobOf(run.b)
    /\ run.pc \in Building => NoJobOf(run.b)
    /\ run.pc = "create" /\ run.copy.spec.raw => dockerfile[run.b]

\* The jobs, as long as they are read as they are.
JobsInv == JobsSeen /\ NoStrayJob /\ JobsFindTheirDockerfile /\ RunKnows

\* A round has one destination.
OneDestination ==
    \A s, t \in BuilderSpecs : s.round = t.round => s.destination = t.destination

\* Hooks hand over what was built.
HooksHandOver ==
    \A s \in BuilderSpecs : \A i \in 1 .. Len(s.hooks) : s.hooks[i].dynamicImage

\* What is seen to have succeeded has pushed the image of its round.
IsPushed(r) == \A s \in BuilderSpecs : s.round = r => s.destination \in pushed

JobsPushed ==
    \A b \in Builders, r \in RoundNumbers :
        /\ jobs[b][r].state # "none" =>
               \A s \in BuilderSpecs : s.round = r => s.destination = jobs[b][r].image
        /\ jobs[b][r].state = "Succeeded" => IsPushed(r)
        /\ jobsCache[b][r] = "Succeeded" => IsPushed(r)

PushedInv ==
    /\ JobsPushed
    /\ run.pc \in Hooking => run.copy.spec.destination \in pushed
    /\ run.pc = "hookUpdate" => run.target.exists
    /\ \A d \in Deployers : ~deployer[d].exists => deployer[d].image = None

-----------------------------------------------------------------------------
(* Objects. *)

LEMMA RoundsAreInt == RoundNumbers \subseteq Int /\ 0 \in RoundNumbers
BY BuilderAssumption DEF RoundNumbers

LEMMA AbsentBuilderType ==
    AbsentBuilder \in BuilderObject /\ AbsentBuilder.exists = FALSE
        /\ AbsentBuilder.deleting = FALSE
BY EmptySeq, RoundsAreInt DEF AbsentBuilder, BuilderObject, Phases

LEMMA AbsentDeployerType == AbsentDeployer \in DeployerObject
BY DEF AbsentDeployer, DeployerObject

LEMMA NewDeployerType == NewDeployer \in DeployerObject
<1>1. -1 \in Int
    OBVIOUS
<1> QED
    BY <1>1, AbsentDeployerType DEF NewDeployer, DeployerObject

LEMMA IdleType == Idle \in RunType /\ Idle.pc = "idle" /\ ~Idle.fresh
BY AbsentBuilderType, AbsentDeployerType DEF Idle, RunType, PCs

LEMMA DownType == Down \in RunType /\ Down.pc = "down" /\ ~Down.fresh
BY AbsentBuilderType, AbsentDeployerType DEF Down, Idle, RunType, PCs

\* The fields a handler or a user sets, one at a time.
LEMMA PhaseSet ==
    ASSUME NEW object \in BuilderObject, NEW phase \in Phases
    PROVE  LET new == [object EXCEPT !.phase = phase] IN
           /\ new \in BuilderObject /\ new.phase = phase
           /\ new.exists = object.exists /\ new.deleting = object.deleting
           /\ new.finalizer = object.finalizer /\ new.spec = object.spec
           /\ new.currentRound = object.currentRound /\ new.history = object.history
BY DEF BuilderObject

LEMMA FinalizerSet ==
    ASSUME NEW object \in BuilderObject
    PROVE  LET new == [object EXCEPT !.finalizer = TRUE] IN
           /\ new \in BuilderObject /\ new.finalizer = TRUE
           /\ new.exists = object.exists /\ new.deleting = object.deleting
           /\ new.spec = object.spec /\ new.phase = object.phase
           /\ new.currentRound = object.currentRound /\ new.history = object.history
BY DEF BuilderObject

LEMMA SpecSet ==
    ASSUME NEW object \in BuilderObject, NEW spec \in BuilderSpecs
    PROVE  LET new == [object EXCEPT !.spec = spec] IN
           /\ new \in BuilderObject /\ new.spec = spec
           /\ new.exists = object.exists /\ new.deleting = object.deleting
           /\ new.finalizer = object.finalizer /\ new.phase = object.phase
           /\ new.currentRound = object.currentRound /\ new.history = object.history
BY DEF BuilderObject

LEMMA MarkSet ==
    ASSUME NEW object \in BuilderObject
    PROVE  LET new == [object EXCEPT !.deleting = TRUE] IN
           /\ new \in BuilderObject /\ new.deleting = TRUE
           /\ new.exists = object.exists /\ new.finalizer = object.finalizer
           /\ new.spec = object.spec /\ new.phase = object.phase
           /\ new.currentRound = object.currentRound /\ new.history = object.history
BY DEF BuilderObject

LEMMA CreatedType ==
    ASSUME NEW spec \in BuilderSpecs
    PROVE  LET new == [AbsentBuilder EXCEPT !.exists = TRUE, !.spec = spec] IN
           /\ new \in BuilderObject /\ new.exists = TRUE /\ new.deleting = FALSE
           /\ new.finalizer = FALSE /\ new.spec = spec /\ new.phase = ""
           /\ new.currentRound = 0 /\ new.history = <<>>
<1>1. /\ AbsentBuilder \in BuilderObject
      /\ AbsentBuilder.deleting = FALSE /\ AbsentBuilder.finalizer = FALSE
      /\ AbsentBuilder.phase = "" /\ AbsentBuilder.currentRound = 0
      /\ AbsentBuilder.history = <<>>
    BY AbsentBuilderType DEF AbsentBuilder
<1> QED
    BY <1>1 DEF BuilderObject

LEMMA BackedUpType ==
    ASSUME NEW object \in BuilderObject, object.spec \in BuilderSpecs
    PROVE  BackedUp(object) \in Seq(HistoryEntry)
<1> DEFINE entry == [round |-> object.currentRound, phase |-> object.phase,
                     spec |-> object.spec]
<1>1. entry \in HistoryEntry /\ object.history \in Seq(HistoryEntry)
    BY RoundsAreInt DEF BuilderObject, HistoryEntry
<1>2. Append(object.history, entry) \in Seq(HistoryEntry)
    BY <1>1, AppendProperties
<1> QED
    BY <1>1, <1>2 DEF BackedUp

LEMMA NextRoundType ==
    ASSUME NEW object \in BuilderObject, object.spec \in BuilderSpecs
    PROVE  /\ NextRound(object) \in BuilderObject
           /\ NextRound(object).exists = object.exists
           /\ NextRound(object).deleting = object.deleting
           /\ NextRound(object).finalizer = object.finalizer
           /\ NextRound(object).spec = object.spec
           /\ NextRound(object).currentRound = object.spec.round
           /\ NextRound(object).history = BackedUp(object)
           /\ NextRound(object).phase = "Pending"
<1>1. BackedUp(object) \in Seq(HistoryEntry) /\ object.spec.round \in Int
    BY BackedUpType, BuilderAssumption
<1>2. object.spec.round \in RoundNumbers
    BY DEF RoundNumbers
<1> QED
    BY <1>1, <1>2 DEF NextRound, BuilderObject, Phases

LEMMA SpecFields ==
    ASSUME NEW spec \in BuilderSpecs
    PROVE  /\ spec.round \in Int /\ spec.round \in RoundNumbers
           /\ spec.destination \in Images /\ spec.hooks \in Seq(Hook)
BY BuilderAssumption DEF RoundNumbers

LEMMA HookOfSpec ==
    ASSUME NEW spec \in BuilderSpecs, NEW i \in 1 .. Len(spec.hooks)
    PROVE  spec.hooks[i] \in Hook
BY SpecFields, ElementOfSeq

-----------------------------------------------------------------------------
(* The builders: what the reconciler stores, and what others do.             *)

\* What the reconciler makes of the object that is there,
Adds(new, old) ==
    /\ old.exists /\ ~old.deleting /\ ~old.finalizer /\ new.finalizer
    /\ new.exists = old.exists /\ new.deleting = old.deleting /\ new.spec = old.spec
    /\ new.phase = old.phase /\ new.currentRound = old.currentRound
    /\ new.history = old.history

Reports(new, old) ==
    /\ old.exists /\ ~old.deleting /\ old.finalizer
    /\ \/ old.spec.round < old.currentRound /\ new.phase = "UNDO"
       \/ old.spec.round = old.currentRound /\ new.phase # "UNDO"
    /\ new.exists = old.exists /\ new.deleting = old.deleting
    /\ new.finalizer = old.finalizer /\ new.spec = old.spec
    /\ new.currentRound = old.currentRound /\ new.history = old.history

MovesOn(new, old) ==
    /\ old.exists /\ ~old.deleting /\ old.finalizer
    /\ old.spec.round > old.currentRound
    /\ new.exists = old.exists /\ new.deleting = old.deleting
    /\ new.finalizer = old.finalizer /\ new.spec = old.spec /\ new.phase = "Pending"
    /\ new.currentRound = old.spec.round /\ new.history = BackedUp(old)

\* each from where it is.
Writes(new) ==
    /\ run.fresh /\ Working
    /\ new \in BuilderObject
    /\ StoreBuilder(run.b, new)
    /\ \/ run.pc = "dropFinalizer" /\ new = AbsentBuilder /\ builder[run.b].exists
       \/ run.pc = "addFinalizer" /\ Adds(new, builder[run.b])
       \/ run.pc = "undo" /\ Reports(new, builder[run.b]) /\ new.phase = "UNDO"
       \/ run.pc \in {"handle", "publish"} \cup Building /\ Reports(new, builder[run.b])
              /\ builder[run.b].spec.round = builder[run.b].currentRound
       \/ run.pc = "save" /\ MovesOn(new, builder[run.b])

LEMMA PublishWrites ==
    ASSUME BuilderInv, run.pc \in {"handle", "publish"} \cup Building,
           NEW new \in BuilderObject, new.phase # "UNDO",
           new.exists = run.copy.exists, new.deleting = run.copy.deleting,
           new.finalizer = run.copy.finalizer, new.spec = run.copy.spec,
           new.currentRound = run.copy.currentRound, new.history = run.copy.history,
           PublishStatus(new)
    PROVE  UNCHANGED builderVars \/ Writes(new)
<1>1. CASE ~run.fresh
    BY <1>1 DEF PublishStatus
<1>2. CASE run.fresh
    <2>1. Working /\ Agrees(run.pc, run.copy, builder[run.b])
        BY <1>2 DEF BuilderInv, RunOK
    <2>2. StoreBuilder(run.b, new)
        BY <1>2 DEF PublishStatus
    <2>3. /\ Reports(new, builder[run.b])
          /\ builder[run.b].spec.round = builder[run.b].currentRound
        BY <2>1 DEF Agrees, Reports, Reading, Building, Hooking
    <2> QED
        BY <1>2, <2>1, <2>2, <2>3 DEF Writes
<1> QED
    BY <1>1, <1>2

LEMMA ControllerWrites ==
    ASSUME BuilderInv, BuilderController
    PROVE  UNCHANGED builderVars \/ \E new \in BuilderObject : Writes(new)
<1> DEFINE object == builder[run.b]
<1>0. /\ run.copy \in BuilderObject
      /\ run.fresh => Working /\ Agrees(run.pc, run.copy, object)
    BY DEF BuilderInv, RunOK, RunType
<1> HIDE DEF object
<1>1. CASE AddFinalizer
    <2> DEFINE new == [run.copy EXCEPT !.finalizer = TRUE]
    <2>1. run.pc = "addFinalizer" /\ run.fresh /\ StoreBuilder(run.b, new)
        BY <1>1 DEF AddFinalizer, At, Store
    <2>2. /\ new \in BuilderObject /\ new.finalizer = TRUE
          /\ new.exists = run.copy.exists /\ new.deleting = run.copy.deleting
          /\ new.spec = run.copy.spec /\ new.phase = run.copy.phase
          /\ new.currentRound = run.copy.currentRound /\ new.history = run.copy.history
        BY ONLY <1>0, FinalizerSet
    <2> HIDE DEF new
    <2>3. Adds(new, object)
        BY <1>0, <2>1, <2>2 DEF Agrees, Adds, Reading
    <2> QED
        BY <1>0, <2>1, <2>2, <2>3 DEF Writes, object
<1>2. CASE DropFinalizer
    <2>1. run.pc = "dropFinalizer" /\ run.fresh /\ StoreBuilder(run.b, AbsentBuilder)
        BY <1>2 DEF DropFinalizer, At, Store
    <2>2. object.exists
        BY <1>0, <2>1 DEF Agrees
    <2> QED
        BY <1>0, <2>1, <2>2, AbsentBuilderType DEF Writes, object
<1>3. CASE Undo
    <2> DEFINE new == [run.copy EXCEPT !.phase = "UNDO"]
    <2>1. run.pc = "undo" /\ run.fresh /\ StoreBuilder(run.b, new)
        BY <1>3 DEF Undo, At, Store
    <2>a. "UNDO" \in Phases
        BY DEF Phases
    <2>2. /\ new \in BuilderObject /\ new.phase = "UNDO"
          /\ new.exists = run.copy.exists /\ new.deleting = run.copy.deleting
          /\ new.finalizer = run.copy.finalizer /\ new.spec = run.copy.spec
          /\ new.currentRound = run.copy.currentRound /\ new.history = run.copy.history
        BY ONLY <1>0, <2>a, PhaseSet
    <2> HIDE DEF new
    <2>3. Reports(new, object)
        BY <1>0, <2>1, <2>2 DEF Agrees, Reports, Reading
    <2> QED
        BY <1>0, <2>1, <2>2, <2>3 DEF Writes, object
<1>4. CASE Save
    <2>1. run.pc = "save" /\ run.fresh /\ StoreBuilder(run.b, run.copy)
        BY <1>4 DEF Save, At, Store
    <2>2. MovesOn(run.copy, object)
        BY <1>0, <2>1 DEF Agrees, MovesOn
    <2> QED
        BY <1>0, <2>1, <2>2 DEF Writes, object
<1>5. ASSUME NEW phase \in {"Pending", "Failed"},
             PublishStatus([run.copy EXCEPT !.phase = phase]),
             run.pc \in {"handle"} \cup Building
      PROVE  UNCHANGED builderVars \/ \E new \in BuilderObject : Writes(new)
    <2> DEFINE new == [run.copy EXCEPT !.phase = phase]
    <2>1. phase \in Phases /\ phase # "UNDO"
        BY DEF Phases
    <2>2. /\ new \in BuilderObject /\ new.phase = phase
          /\ new.exists = run.copy.exists /\ new.deleting = run.copy.deleting
          /\ new.finalizer = run.copy.finalizer /\ new.spec = run.copy.spec
          /\ new.currentRound = run.copy.currentRound /\ new.history = run.copy.history
        BY ONLY <1>0, <2>1, PhaseSet
    <2>3. PublishStatus(new)
        BY <1>5
    <2> HIDE DEF new
    <2> QED
        BY <1>5, <2>1, <2>2, <2>3, PublishWrites
<1>6. CASE HandleMissing \/ HandleFails
    <2>1. \E phase \in {"Pending", "Failed"} :
              /\ PublishStatus([run.copy EXCEPT !.phase = phase])
              /\ run.pc \in {"handle"} \cup Building
        BY <1>6 DEF HandleMissing, HandleFails, At, Building
    <2> QED
        BY <1>5, <2>1
<1>7. CASE Publish
    <2>1. run.pc = "publish" /\ PublishStatus(run.copy)
        BY <1>7 DEF Publish, At
    <2>2. run.fresh => run.copy.phase # "UNDO"
        BY <1>0, <2>1 DEF Agrees
    <2>3. CASE ~run.fresh
        BY <2>1, <2>3 DEF PublishStatus
    <2>4. CASE run.fresh
        BY <1>0, <2>1, <2>2, <2>4, PublishWrites
    <2> QED
        BY <2>3, <2>4
<1> QED
    BY <1>1, <1>2, <1>3, <1>4, <1>6, <1>7
    DEF BuilderController, Conflict, Cleanup, DeleteDockerfile, CreateDockerfile, CreateJob,
        HandleWatch, HookGet, HookUpdate, HookFails

\* A user writes an object that is not the one that is there.
Asks(b, new) ==
    /\ b \in Builders /\ new \in BuilderObject /\ new # builder[b]
    /\ WriteFromOutside(b, new)
    /\ \/ /\ ~builder[b].exists
          /\ jobs[b] = NoJobs /\ ~dockerfile[b]
          /\ new.exists /\ ~new.deleting /\ ~new.finalizer /\ new.spec \in BuilderSpecs
          /\ new.phase = "" /\ new.currentRound = 0 /\ new.history = <<>>
       \/ /\ builder[b].exists /\ new.spec \in BuilderSpecs
          /\ new.exists = builder[b].exists /\ new.deleting = builder[b].deleting
          /\ new.finalizer = builder[b].finalizer /\ new.phase = builder[b].phase
          /\ new.currentRound = builder[b].currentRound /\ new.history = builder[b].history
       \/ /\ builder[b].exists /\ builder[b].finalizer /\ new.deleting = TRUE
          /\ new.exists = builder[b].exists /\ new.spec = builder[b].spec
          /\ new.finalizer = builder[b].finalizer /\ new.phase = builder[b].phase
          /\ new.currentRound = builder[b].currentRound /\ new.history = builder[b].history
       \/ builder[b].exists /\ ~builder[b].finalizer /\ new = AbsentBuilder

LEMMA UserAsks ==
    ASSUME BuilderOK, BuilderUser
    PROVE  \E b \in Builders, new \in BuilderObject : Asks(b, new)
<1>1. ASSUME NEW b \in Builders, NEW spec \in BuilderSpecs, CreateBuilder(b, spec)
      PROVE  \E new \in BuilderObject : Asks(b, new)
    <2> DEFINE new == [AbsentBuilder EXCEPT !.exists = TRUE, !.spec = spec]
    <2>1. /\ new \in BuilderObject /\ new.exists = TRUE /\ new.deleting = FALSE
          /\ new.finalizer = FALSE /\ new.spec = spec /\ new.phase = ""
          /\ new.currentRound = 0 /\ new.history = <<>>
        BY ONLY spec \in BuilderSpecs, CreatedType
    <2>2. /\ WriteFromOutside(b, new) /\ ~builder[b].exists
          /\ jobs[b] = NoJobs /\ ~dockerfile[b]
        BY <1>1 DEF CreateBuilder
    <2> HIDE DEF new
    <2> QED
        BY <2>1, <2>2 DEF Asks
<1>2. ASSUME NEW b \in Builders, NEW spec \in BuilderSpecs, EditBuilder(b, spec)
      PROVE  \E new \in BuilderObject : Asks(b, new)
    <2> DEFINE new == [builder[b] EXCEPT !.spec = spec]
    <2>0. builder[b] \in BuilderObject
        BY DEF BuilderOK
    <2>1. /\ new \in BuilderObject /\ new.spec = spec
          /\ new.exists = builder[b].exists /\ new.deleting = builder[b].deleting
          /\ new.finalizer = builder[b].finalizer /\ new.phase = builder[b].phase
          /\ new.currentRound = builder[b].currentRound /\ new.history = builder[b].history
        BY ONLY <2>0, spec \in BuilderSpecs, SpecSet
    <2>2. WriteFromOutside(b, new) /\ builder[b].exists
        BY <1>2 DEF EditBuilder
    <2>3. spec # builder[b].spec
        BY <1>2 DEF EditBuilder
    <2> HIDE DEF new
    <2> QED
        BY <2>1, <2>2, <2>3 DEF Asks
<1>3. ASSUME NEW b \in Builders, DeleteBuilder(b)
      PROVE  \E new \in BuilderObject : Asks(b, new)
    <2> DEFINE new == [builder[b] EXCEPT !.deleting = TRUE]
    <2>0. builder[b] \in BuilderObject
        BY DEF BuilderOK
    <2>1. /\ new \in BuilderObject /\ new.deleting = TRUE
          /\ new.exists = builder[b].exists /\ new.finalizer = builder[b].finalizer
          /\ new.spec = builder[b].spec /\ new.phase = builder[b].phase
          /\ new.currentRound = builder[b].currentRound /\ new.history = builder[b].history
        BY ONLY <2>0, MarkSet
    <2>2. /\ builder[b].exists /\ ~builder[b].deleting
          /\ WriteFromOutside(b, IF builder[b].finalizer THEN new ELSE AbsentBuilder)
        BY <1>3 DEF DeleteBuilder
    <2> HIDE DEF new
    <2>3. CASE builder[b].finalizer
        BY <2>1, <2>2, <2>3 DEF Asks
    <2>4. CASE ~builder[b].finalizer
        BY <2>2, <2>4, AbsentBuilderType DEF Asks
    <2> QED
        BY <2>3, <2>4
<1> QED
    BY <1>1, <1>2, <1>3 DEF BuilderUser

LEMMA StoreKeepsBuilders ==
    ASSUME BuilderOK, NEW b \in Builders, NEW new \in BuilderObject,
           new.exists => new.spec \in BuilderSpecs, new.deleting => new.finalizer,
           StoreBuilder(b, new)
    PROVE  /\ BuilderOK'
           /\ builder'[b] = new
           /\ \A c \in Builders : c # b => builder'[c] = builder[c]
<1>1. /\ builder' \in [Builders -> BuilderObject]
      /\ builder'[b] = new
      /\ \A c \in Builders : c # b => builder'[c] = builder[c]
    BY DEF BuilderOK, StoreBuilder
<1>2. BuildersLag \in BOOLEAN
    BY BuilderAssumption
<1>3. builderCache' \in [Builders -> BuilderObject]
    BY <1>1 DEF BuilderOK, StoreBuilder
<1>4. builderFresh' \in [Builders -> BOOLEAN]
    BY DEF BuilderOK, StoreBuilder
<1>5. \A c \in Builders : builderFresh'[c] => builderCache'[c] = builder'[c]
    BY <1>1, <1>2 DEF BuilderOK, StoreBuilder
<1>6. \A c \in Builders : /\ builder'[c].exists => builder'[c].spec \in BuilderSpecs
                          /\ builder'[c].deleting => builder'[c].finalizer
    BY <1>1 DEF BuilderOK
<1>7. \A c \in Builders : builderCache'[c].exists => builderCache'[c].spec \in BuilderSpecs
    BY <1>6 DEF BuilderOK, StoreBuilder
<1> QED
    BY <1>1, <1>3, <1>4, <1>5, <1>6, <1>7 DEF BuilderOK

\* What the reconciler writes is a builder, of the key in progress.
LEMMA WritesKeep ==
    ASSUME BuilderInv, NEW new \in BuilderObject, Writes(new)
    PROVE  /\ BuilderOK'
           /\ run.b \in Builders
           /\ builder'[run.b] = new
           /\ \A c \in Builders : c # run.b => builder'[c] = builder[c]
<1>1. BuilderOK /\ run.b \in Builders /\ StoreBuilder(run.b, new)
    BY DEF BuilderInv, RunOK, Writes
<1>2. builder[run.b].exists => builder[run.b].spec \in BuilderSpecs
    BY <1>1 DEF BuilderOK
<1>3. /\ new.exists => new.spec \in BuilderSpecs
      /\ new.deleting => new.finalizer
    BY <1>2, AbsentBuilderType DEF Writes, Adds, Reports, MovesOn
<1> QED
    BY <1>1, <1>3, StoreKeepsBuilders

LEMMA AsksKeep ==
    ASSUME BuilderOK, NEW b \in Builders, NEW new \in BuilderObject, Asks(b, new)
    PROVE  /\ BuilderOK'
           /\ builder'[b] = new
           /\ \A c \in Builders : c # b => builder'[c] = builder[c]
<1>1. StoreBuilder(b, new)
    BY DEF Asks, WriteFromOutside
<1>2. /\ builder[b].exists => builder[b].spec \in BuilderSpecs
      /\ builder[b].deleting => builder[b].finalizer
    BY DEF BuilderOK
<1>3. /\ new.exists => new.spec \in BuilderSpecs
      /\ new.deleting => new.finalizer
    BY <1>2, AbsentBuilderType DEF Asks
<1> QED
    BY <1>1, <1>3, StoreKeepsBuilders

\* Whose steps write builders.
LEMMA BuilderWriters ==
    ASSUME BuilderInv, Next
    PROVE  \/ UNCHANGED builderVars
           \/ BuilderController /\ \E new \in BuilderObject : Writes(new)
           \/ \E b \in Builders, new \in BuilderObject : Asks(b, new)
           \/ \E b \in Builders : SyncBuilder(b)
           \/ Start
<1>1. \/ BuilderController \/ BuilderUser \/ Start \/ UNCHANGED builderVars
      \/ \E b \in Builders : SyncBuilder(b)
    BY DEF Next, Get, DeployerWriter, DeployerMovesOn, DeployerReports, WriteDeployer, SyncJobs,
           Resync, CollectGarbage, MovePod, OrphanEnds, SyncDeployer, Crash
<1> QED
    BY <1>1, ControllerWrites, UserAsks DEF BuilderInv

LEMMA NextKeepsBuilders == ASSUME BuilderInv, Next PROVE BuilderOK'
<1>0. BuilderOK
    BY DEF BuilderInv
<1>1. CASE UNCHANGED builderVars
    BY <1>0, <1>1 DEF BuilderOK, builderVars
<1>2. ASSUME NEW b \in Builders, SyncBuilder(b) PROVE BuilderOK'
    BY <1>0, <1>2 DEF SyncBuilder, BuilderOK
<1>3. CASE Start
    BY <1>0, <1>3 DEF Start, BuilderOK
<1> QED
    BY <1>0, <1>1, <1>2, <1>3, BuilderWriters, WritesKeep, AsksKeep

-----------------------------------------------------------------------------
(* The jobs and the deployers. *)

LEMMA NoJobsType == NoJobs \in [RoundNumbers -> Job] /\ \A r \in RoundNumbers : NoJobs[r] = NoJob
BY DEF NoJobs, NoJob, Job, PodStates

\* The jobs of one builder are replaced by jobs of the right kind.
LEMMA SetJobsType ==
    ASSUME JobsOK, NEW b \in Builders, NEW new \in [RoundNumbers -> Job], SetJobs(b, new),
           \A r \in RoundNumbers : new[r].state # "none" => new[r].image \in Images,
           dockerfile' \in [Builders -> BOOLEAN], pushed' \in SUBSET Images
    PROVE  /\ JobsOK'
           /\ jobs'[b] = new
           /\ \A c \in Builders : c # b => jobs'[c] = jobs[c]
<1>1. /\ jobs' \in [Builders -> [RoundNumbers -> Job]]
      /\ jobs'[b] = new
      /\ \A c \in Builders : c # b => jobs'[c] = jobs[c]
    BY DEF JobsOK, SetJobs
<1>2. [r \in RoundNumbers |-> new[r].state] \in [RoundNumbers -> PodStates]
    BY DEF Job
<1>3. jobsCache' \in [Builders -> [RoundNumbers -> PodStates]]
    BY <1>2 DEF JobsOK, SetJobs
<1>4. \A c \in Builders, r \in RoundNumbers :
          jobs'[c][r].state # "none" => jobs'[c][r].image \in Images
    BY <1>1 DEF JobsOK
<1> QED
    BY <1>1, <1>3, <1>4 DEF JobsOK

\* One job is replaced.
LEMMA JobSet ==
    ASSUME JobsOK, NEW b \in Builders, NEW r, NEW job \in Job,
           job.state # "none" => job.image \in Images,
           SetJobs(b, [jobs[b] EXCEPT ![r] = job]),
           dockerfile' \in [Builders -> BOOLEAN], pushed' \in SUBSET Images
    PROVE  /\ JobsOK'
           /\ \A s \in RoundNumbers : jobs'[b][s] = IF s = r THEN job ELSE jobs[b][s]
           /\ \A c \in Builders : c # b => jobs'[c] = jobs[c]
<1> DEFINE new == [jobs[b] EXCEPT ![r] = job]
<1>1. jobs[b] \in [RoundNumbers -> Job]
    BY DEF JobsOK
<1>2. /\ new \in [RoundNumbers -> Job]
      /\ \A s \in RoundNumbers : new[s] = IF s = r THEN job ELSE jobs[b][s]
    BY <1>1
<1>3. SetJobs(b, new)
    OBVIOUS
<1> HIDE DEF new
<1>4. \A s \in RoundNumbers : new[s].state # "none" => new[s].image \in Images
    BY <1>2 DEF JobsOK
<1>5. /\ JobsOK'
      /\ jobs'[b] = new
      /\ \A c \in Builders : c # b => jobs'[c] = jobs[c]
    BY <1>2, <1>3, <1>4, SetJobsType
<1> QED
    BY <1>2, <1>5

LEMMA LoseType ==
    ASSUME JobsOK, NEW b \in Builders
    PROVE  /\ Lose(b) \in [RoundNumbers -> Job]
           /\ \A r \in RoundNumbers : /\ Lose(b)[r].state = jobs[b][r].state
                                      /\ Lose(b)[r].image = jobs[b][r].image
                                      /\ jobs[b][r].dockerfile = "own" => Lose(b)[r] = jobs[b][r]
<1>1. ASSUME NEW job \in Job
      PROVE  LET lost == [job EXCEPT !.dockerfile = "lost"] IN
             lost \in Job /\ lost.state = job.state /\ lost.image = job.image
    BY DEF Job
<1>2. ASSUME NEW r \in RoundNumbers
      PROVE  /\ Lose(b)[r] \in Job
             /\ Lose(b)[r].state = jobs[b][r].state
             /\ Lose(b)[r].image = jobs[b][r].image
             /\ jobs[b][r].dockerfile = "own" => Lose(b)[r] = jobs[b][r]
    <2>1. jobs[b][r] \in Job
        BY DEF JobsOK
    <2>2. Lose(b)[r] = IF jobs[b][r].dockerfile = "mounted"
                         THEN [jobs[b][r] EXCEPT !.dockerfile = "lost"]
                         ELSE jobs[b][r]
        BY DEF Lose
    <2> QED
        BY <1>1, <2>1, <2>2
<1> QED
    BY <1>2 DEF Lose

LEMMA NoJobType == NoJob \in Job /\ NoJob.state = "none" /\ NoJob.dockerfile = "own"
BY DEF NoJob, Job, PodStates

\* What the reconciler does to the jobs of its key.
LEMMA ControllerKeepsJobs ==
    ASSUME BuilderInv, BuilderController PROVE JobsOK'
<1>0. JobsOK /\ (Working => run.b \in Builders /\ run.copy.spec \in BuilderSpecs)
    BY DEF BuilderInv, RunOK
<1>a. dockerfile \in [Builders -> BOOLEAN] /\ pushed \in SUBSET Images
    BY <1>0 DEF JobsOK
<1>1. CASE UNCHANGED jobVars
    BY <1>0, <1>1 DEF JobsOK, jobVars
<1>2. CASE Cleanup
    <2>1. Working /\ UNCHANGED <<dockerfile, pushed>>
        BY <1>2 DEF Cleanup, At, Working
    <2>2. \/ UNCHANGED jobVars
          \/ \E r : SetJobs(run.b, [jobs[run.b] EXCEPT ![r] = NoJob])
        BY <1>2 DEF Cleanup, DeleteJob, jobVars
    <2> QED
        BY <1>0, <1>a, <1>1, <2>1, <2>2, NoJobType, JobSet
<1>3. CASE DeleteDockerfile
    <2>1. Working /\ UNCHANGED pushed /\ SetJobs(run.b, Lose(run.b))
        BY <1>3 DEF DeleteDockerfile, At, Working
    <2>2. dockerfile' \in [Builders -> BOOLEAN]
        BY <1>3, <1>a DEF DeleteDockerfile
    <2>3. /\ run.b \in Builders /\ Lose(run.b) \in [RoundNumbers -> Job]
          /\ \A r \in RoundNumbers : /\ Lose(run.b)[r].state = jobs[run.b][r].state
                                     /\ Lose(run.b)[r].image = jobs[run.b][r].image
        BY <1>0, <2>1, LoseType
    <2>4. \A r \in RoundNumbers :
              Lose(run.b)[r].state # "none" => Lose(run.b)[r].image \in Images
        BY <1>0, <2>3 DEF JobsOK
    <2>5. pushed' \in SUBSET Images
        BY <1>a, <2>1
    <2> QED
        BY <1>0, <2>1, <2>2, <2>3, <2>4, <2>5, SetJobsType
<1>4. CASE CreateDockerfile
    BY <1>0, <1>4 DEF CreateDockerfile, JobsOK
<1>5. CASE CreateJob
    <2> DEFINE job == [state |-> "nopod", image |-> run.copy.spec.destination,
                       dockerfile |-> IF ~run.copy.spec.raw THEN "own"
                                      ELSE IF dockerfile[run.b] THEN "mounted" ELSE "lost"]
    <2>1. Working /\ UNCHANGED <<dockerfile, pushed>>
        BY <1>5 DEF CreateJob, At, Working
    <2>2. run.copy.spec.destination \in Images
        BY <1>0, <2>1, SpecFields
    <2>3. job \in Job /\ job.image \in Images
        BY <2>2 DEF Job, PodStates
    <2>4. \/ UNCHANGED jobVars
          \/ \E r : SetJobs(run.b, [jobs[run.b] EXCEPT ![r] = job])
        BY <1>5 DEF CreateJob, jobVars
    <2> HIDE DEF job
    <2> QED
        BY <1>0, <1>a, <1>1, <2>1, <2>3, <2>4, JobSet
<1> QED
    BY <1>1, <1>2, <1>3, <1>4, <1>5
    DEF BuilderController, Conflict, AddFinalizer, DropFinalizer, Undo, Save, HandleMissing,
        HandleFails, HandleWatch, HookGet, HookUpdate, HookFails, Publish

LEMMA MovePodMoves ==
    ASSUME JobsOK, NEW b \in Builders, NEW r \in RoundNumbers, MovePod(b, r)
    PROVE  /\ JobsOK'
           /\ \E state \in PodStates \ {"none", "nopod"}, moved \in Job :
                  /\ moved = [jobs[b][r] EXCEPT !.state = state]
                  /\ jobs[b][r].state # "none"
                  /\ state = "Running" => jobs[b][r].dockerfile # "lost"
                  /\ state = "Pending" => jobs[b][r].state = "nopod"
                  /\ moved.state = state /\ moved.image = jobs[b][r].image
                  /\ moved.dockerfile = jobs[b][r].dockerfile
                  /\ SetJobs(b, [jobs[b] EXCEPT ![r].state = state])
                  /\ \A s \in RoundNumbers : jobs'[b][s] = IF s = r THEN moved ELSE jobs[b][s]
                  /\ pushed' = IF state = "Succeeded" THEN pushed \cup {jobs[b][r].image}
                                                      ELSE pushed
           /\ \A c \in Builders : c # b => jobs'[c] = jobs[c]
<1>1. PICK move \in PodMoves("job") :
          /\ jobs[b][r].state = move[1]
          /\ move[2] = "Running" => jobs[b][r].dockerfile # "lost"
          /\ SetJobs(b, [jobs[b] EXCEPT ![r].state = move[2]])
          /\ pushed' = IF move[2] = "Succeeded" THEN pushed \cup {jobs[b][r].image} ELSE pushed
          /\ UNCHANGED dockerfile
    BY DEF MovePod
<1>2. /\ move[2] \in PodStates \ {"none", "nopod"} /\ move[1] # "none"
      /\ move[2] = "Pending" => move[1] = "nopod"
    BY DEF PodMoves, PodStates
<1> DEFINE state == move[2]
           moved == [jobs[b][r] EXCEPT !.state = state]
<1>3. jobs[b] \in [RoundNumbers -> Job] /\ jobs[b][r] \in Job /\ jobs[b][r].image \in Images
    BY <1>1, <1>2 DEF JobsOK
<1>4. /\ moved \in Job /\ moved.state = state /\ moved.image = jobs[b][r].image
      /\ moved.dockerfile = jobs[b][r].dockerfile
    BY <1>2, <1>3 DEF Job
<1>5. [jobs[b] EXCEPT ![r].state = state] = [jobs[b] EXCEPT ![r] = moved]
    BY <1>3
<1>6. dockerfile' \in [Builders -> BOOLEAN] /\ pushed' \in SUBSET Images
    BY <1>1, <1>3 DEF JobsOK
<1>7. SetJobs(b, [jobs[b] EXCEPT ![r] = moved])
    BY <1>1, <1>5
<1> HIDE DEF moved
<1>8. /\ JobsOK'
      /\ \A s \in RoundNumbers : jobs'[b][s] = IF s = r THEN moved ELSE jobs[b][s]
      /\ \A c \in Builders : c # b => jobs'[c] = jobs[c]
    BY <1>3, <1>4, <1>6, <1>7, JobSet
<1>9. moved = [jobs[b][r] EXCEPT !.state = state]
    BY DEF moved
<1>10. state \in PodStates \ {"none", "nopod"} /\ jobs[b][r].state # "none"
    BY <1>1, <1>2
<1> HIDE DEF state
<1>11. /\ state = "Running" => jobs[b][r].dockerfile # "lost"
       /\ state = "Pending" => jobs[b][r].state = "nopod"
       /\ SetJobs(b, [jobs[b] EXCEPT ![r].state = state])
       /\ pushed' = IF state = "Succeeded" THEN pushed \cup {jobs[b][r].image} ELSE pushed
    BY <1>1, <1>2 DEF state
<1>12. \A c \in Builders : c # b => jobs'[c] = jobs[c]
    BY <1>8
<1> QED
    BY <1>4, <1>8, <1>9, <1>10, <1>11, <1>12

\* Of the job that has moved, what the others need.
LEMMA MovedJob ==
    ASSUME JobsOK, NEW b \in Builders, NEW r \in RoundNumbers, MovePod(b, r)
    PROVE  /\ jobs[b][r].state # "none"
           /\ jobs'[b][r].state \notin {"none", "nopod"}
           /\ jobs'[b][r].state = "Pending" => jobs[b][r].state = "nopod"
           /\ jobs'[b][r].dockerfile = jobs[b][r].dockerfile
           /\ \A s \in RoundNumbers : s # r => jobs'[b][s] = jobs[b][s]
           /\ \A c \in Builders : c # b => jobs'[c] = jobs[c]
<1>1. PICK state \in PodStates \ {"none", "nopod"}, moved \in Job :
          /\ moved = [jobs[b][r] EXCEPT !.state = state]
          /\ jobs[b][r].state # "none"
          /\ state = "Running" => jobs[b][r].dockerfile # "lost"
          /\ state = "Pending" => jobs[b][r].state = "nopod"
          /\ moved.state = state /\ moved.image = jobs[b][r].image
          /\ moved.dockerfile = jobs[b][r].dockerfile
          /\ SetJobs(b, [jobs[b] EXCEPT ![r].state = state])
          /\ \A s \in RoundNumbers : jobs'[b][s] = IF s = r THEN moved ELSE jobs[b][s]
          /\ pushed' = IF state = "Succeeded" THEN pushed \cup {jobs[b][r].image}
                                              ELSE pushed
    BY MovePodMoves
<1>2. \A c \in Builders : c # b => jobs'[c] = jobs[c]
    BY MovePodMoves
<1> QED
    BY <1>1, <1>2

LEMMA CollectedJobs ==
    ASSUME JobsOK, NEW b \in Builders, CollectGarbage(b)
    PROVE  /\ JobsOK' /\ jobs'[b] = NoJobs
           /\ \A c \in Builders : c # b => jobs'[c] = jobs[c]
<1>1. SetJobs(b, NoJobs) /\ UNCHANGED pushed
    BY DEF CollectGarbage
<1>2. dockerfile' \in [Builders -> BOOLEAN] /\ pushed' \in SUBSET Images
    BY DEF CollectGarbage, JobsOK
<1> QED
    BY <1>1, <1>2, NoJobsType, NoJobType, SetJobsType

\* The caches are read again.
LEMMA StatesType ==
    ASSUME JobsOK, NEW b \in Builders PROVE States(b) \in [RoundNumbers -> PodStates]
<1>1. \A r \in RoundNumbers : jobs[b][r] \in Job
    BY DEF JobsOK
<1> QED
    BY <1>1 DEF States, Job

\* Whose steps write jobs.
LEMMA JobWriters ==
    ASSUME Next
    PROVE  \/ UNCHANGED jobVars \/ BuilderController \/ Start
           \/ \E b \in Builders : \/ SyncJobs(b) \/ CollectGarbage(b)
                                  \/ \E r \in RoundNumbers : MovePod(b, r)
                                  \/ \E image \in Images : OrphanEnds(b, image)
BY DEF Next, Get, BuilderUser, CreateBuilder, EditBuilder, DeleteBuilder, WriteFromOutside,
       DeployerWriter, DeployerMovesOn, DeployerReports, WriteDeployer, SyncBuilder, Resync,
       SyncDeployer, Crash

LEMMA NextKeepsJobs == ASSUME BuilderInv, Next PROVE JobsOK'
<1>0. JobsOK
    BY DEF BuilderInv
<1>1. CASE UNCHANGED jobVars
    BY <1>0, <1>1 DEF JobsOK, jobVars
<1>2. ASSUME NEW b \in Builders, SyncJobs(b) PROVE JobsOK'
    <2>1. jobsCache' \in [Builders -> [RoundNumbers -> PodStates]]
        BY <1>0, <1>2, StatesType DEF SyncJobs, JobsOK
    <2> QED
        BY <1>0, <1>2, <2>1 DEF SyncJobs, JobsOK
<1>3. CASE Start
    <2>1. jobsCache' \in [Builders -> [RoundNumbers -> PodStates]]
        BY <1>0, <1>3, StatesType DEF Start
    <2> QED
        BY <1>0, <1>3, <2>1 DEF Start, JobsOK
<1>4. ASSUME NEW b \in Builders, NEW image \in Images, OrphanEnds(b, image) PROVE JobsOK'
    BY <1>0, <1>4 DEF OrphanEnds, JobsOK
<1> QED
    BY <1>0, <1>1, <1>2, <1>3, <1>4, JobWriters, ControllerKeepsJobs, MovePodMoves, CollectedJobs

\* An orphan pushes the image of the job of the copy's current round.
LEMMA NextKeepsOrphans == ASSUME BuilderInv, Next PROVE OrphansOK'
<1>0. JobsOK /\ OrphansOK
    BY DEF BuilderInv
<1>1. CASE UNCHANGED orphans
    BY <1>0, <1>1 DEF OrphansOK
<1>2. CASE Cleanup
    <2>1. run.b \in Builders /\ run.copy.currentRound \in RoundNumbers
        BY <1>2 DEF BuilderInv, RunOK, RunType, BuilderObject, Cleanup, At, Working
    <2>2. UNCHANGED orphans \/ DeleteJob(run.b, run.copy.currentRound)
        BY <1>2 DEF Cleanup
    <2>3. jobs[run.b][run.copy.currentRound].state # "none" =>
              jobs[run.b][run.copy.currentRound].image \in Images
        BY <1>0, <2>1 DEF JobsOK
    <2> QED
        BY <1>0, <1>1, <2>1, <2>2, <2>3 DEF DeleteJob, OrphansOK
<1>3. ASSUME NEW b \in Builders, NEW image \in Images, OrphanEnds(b, image) PROVE OrphansOK'
    BY <1>0, <1>3 DEF OrphanEnds, OrphansOK
<1>4. ASSUME BuilderController PROVE Cleanup \/ UNCHANGED orphans
    BY <1>4 DEF BuilderController, Conflict, AddFinalizer, DropFinalizer, Undo, Save,
                HandleMissing, DeleteDockerfile, CreateDockerfile, CreateJob, HandleFails,
                HandleWatch, HookGet, HookUpdate, HookFails, Publish, jobVars
<1>5. \/ UNCHANGED orphans \/ BuilderController
      \/ \E b \in Builders : \E image \in Images : OrphanEnds(b, image)
    BY JobWriters DEF jobVars, Start, SyncJobs, CollectGarbage, MovePod
<1> QED
    BY <1>1, <1>2, <1>3, <1>4, <1>5

LEMMA StoreKeepsDeployers ==
    ASSUME DeployersOK, NEW d \in Deployers, NEW new \in DeployerObject, StoreDeployer(d, new)
    PROVE  DeployersOK'
<1>1. deployer' \in [Deployers -> DeployerObject]
    BY DEF DeployersOK, StoreDeployer
<1>2. DeployersLag \in BOOLEAN
    BY BuilderAssumption
<1> QED
    BY <1>1, <1>2 DEF DeployersOK, StoreDeployer

\* What a deployer's own reconciler and its users write.
LEMMA WritersKeepDeployers == ASSUME DeployersOK, DeployerWriter PROVE DeployersOK'
<1>1. ASSUME NEW d \in Deployers, DeployerMovesOn(d) PROVE DeployersOK'
    <2> DEFINE new == [deployer[d] EXCEPT !.currentRound = deployer[d].round]
    <2>1. new \in DeployerObject
        BY DEF DeployersOK, DeployerObject
    <2>2. StoreDeployer(d, new)
        BY <1>1 DEF DeployerMovesOn, WriteDeployer
    <2> HIDE DEF new
    <2> QED
        BY <2>1, <2>2, StoreKeepsDeployers
<1>2. ASSUME NEW d \in Deployers,
             \/ StoreDeployer(d, deployer[d]) \/ StoreDeployer(d, NewDeployer)
             \/ StoreDeployer(d, AbsentDeployer)
      PROVE  DeployersOK'
    <2>1. deployer[d] \in DeployerObject
        BY DEF DeployersOK
    <2> QED
        BY <1>2, <2>1, NewDeployerType, AbsentDeployerType, StoreKeepsDeployers
<1> QED
    BY <1>1, <1>2 DEF DeployerWriter, DeployerReports, WriteDeployer

\* What a hook writes.
LEMMA TriggeredType ==
    ASSUME NEW hook \in Hook, NEW copy, copy.spec \in BuilderSpecs, NEW target \in DeployerObject
    PROVE  /\ Triggered(hook, copy, target) \in DeployerObject
           /\ Triggered(hook, copy, target).image
                  = IF hook.dynamicImage THEN copy.spec.destination ELSE hook.image
<1> DEFINE round == IF hook.forceRound THEN copy.spec.round ELSE target.currentRound + 1
           image == IF hook.dynamicImage THEN copy.spec.destination ELSE hook.image
<1>1. round \in Int /\ image \in Images \cup {None}
    BY SpecFields DEF Hook, DeployerObject
<1>2. Triggered(hook, copy, target) = [target EXCEPT !.round = round, !.image = image]
    BY DEF Triggered
<1> HIDE DEF round, image
<1>3. /\ [target EXCEPT !.round = round, !.image = image] \in DeployerObject
      /\ [target EXCEPT !.round = round, !.image = image].image = image
    BY <1>1 DEF DeployerObject
<1> QED
    BY <1>2, <1>3 DEF image

LEMMA TheHookType ==
    ASSUME BuilderInv, run.pc \in Hooking
    PROVE  /\ TheHook \in Hook /\ run.copy.spec \in BuilderSpecs
           /\ run.hook \in 1 .. Len(run.copy.spec.hooks)
<1>1. run.copy.spec \in BuilderSpecs /\ run.hook \in 1 .. Len(run.copy.spec.hooks)
    BY DEF BuilderInv, RunOK, Working, Hooking
<1> QED
    BY <1>1, HookOfSpec DEF TheHook

LEMMA HookUpdateStores ==
    ASSUME BuilderInv, HookUpdate
    PROVE  LET new == Triggered(TheHook, run.copy, run.target) IN
           /\ TheHook \in Hook /\ TheHook.deployer \in Deployers /\ new \in DeployerObject
           /\ StoreDeployer(TheHook.deployer, new)
<1>1. run.pc \in Hooking /\ run.target \in DeployerObject
    BY DEF HookUpdate, At, Hooking, BuilderInv, RunOK, RunType
<1>2. TheHook \in Hook /\ run.copy.spec \in BuilderSpecs
    BY <1>1, TheHookType
<1>3. Triggered(TheHook, run.copy, run.target) \in DeployerObject
    BY <1>1, <1>2, TriggeredType
<1>4. TheHook.deployer \in Deployers
    BY <1>2 DEF Hook
<1> QED
    BY <1>2, <1>3, <1>4 DEF HookUpdate

\* Whose steps write deployers.
LEMMA DeployerWriters ==
    ASSUME Next
    PROVE  \/ UNCHANGED deployerVars \/ HookUpdate \/ DeployerWriter \/ Start
           \/ \E d \in Deployers : SyncDeployer(d)
<1>1. ASSUME BuilderController PROVE UNCHANGED deployerVars \/ HookUpdate
    BY <1>1 DEF BuilderController, Conflict, AddFinalizer, DropFinalizer, Undo, Cleanup, Save,
                HandleMissing, DeleteDockerfile, CreateDockerfile, CreateJob, HandleFails,
                HandleWatch, HookGet, HookFails, Publish
<1>2. ASSUME BuilderUser PROVE UNCHANGED deployerVars
    BY <1>2 DEF BuilderUser, CreateBuilder, EditBuilder, DeleteBuilder, WriteFromOutside
<1> QED
    BY <1>1, <1>2 DEF Next, Get, SyncBuilder, SyncJobs, Resync, CollectGarbage, MovePod,
                      OrphanEnds, Crash

LEMMA NextKeepsDeployers == ASSUME BuilderInv, Next PROVE DeployersOK'
<1>0. DeployersOK
    BY DEF BuilderInv
<1>1. CASE UNCHANGED deployerVars
    BY <1>0, <1>1 DEF DeployersOK, deployerVars
<1>2. CASE HookUpdate
    BY <1>0, <1>2, HookUpdateStores, StoreKeepsDeployers
<1>3. CASE Start
    BY <1>0, <1>3 DEF Start, DeployersOK
<1>4. ASSUME NEW d \in Deployers, SyncDeployer(d) PROVE DeployersOK'
    BY <1>0, <1>4 DEF SyncDeployer, DeployersOK
<1> QED
    BY <1>0, <1>1, <1>2, <1>3, <1>4, DeployerWriters, WritersKeepDeployers

-----------------------------------------------------------------------------
(* The reconciliation in progress. *)

\* Whoever else writes a builder makes the copy of a reconciliation stale.
LEMMA AsksKeepRun ==
    ASSUME BuilderInv, NEW b \in Builders, NEW new \in BuilderObject, Asks(b, new)
    PROVE  /\ RunOK'
           /\ run'.pc = run.pc /\ run'.b = run.b /\ run'.copy = run.copy
           /\ run'.fresh => run.fresh /\ builder'[run.b] = builder[run.b]
           /\ ~run'.fresh => ~run.fresh \/ (run.b = b /\ new # builder[b])
<1>1. \/ run' = run /\ (run.b = b => new = builder[b])
      \/ run' = [run EXCEPT !.fresh = FALSE] /\ run.b = b /\ new # builder[b]
    BY DEF Asks, WriteFromOutside
<1>2. /\ builder'[b] = new
      /\ \A c \in Builders : c # b => builder'[c] = builder[c]
    BY AsksKeep DEF BuilderInv
<1>3. CASE run' = run /\ (run.b = b => new = builder[b])
    <2>1. run.fresh => builder'[run.b] = builder[run.b]
        BY <1>2, <1>3 DEF BuilderInv, RunOK
    <2>2. ASSUME run.fresh PROVE Agrees(run'.pc, run'.copy, builder'[run'.b])
        BY <1>3, <2>1, <2>2 DEF BuilderInv, RunOK
    <2> QED
        BY <1>3, <2>1, <2>2 DEF BuilderInv, RunOK, Working
<1>4. CASE run' = [run EXCEPT !.fresh = FALSE] /\ run.b = b /\ new # builder[b]
    <2>1. /\ run' \in RunType /\ run'.fresh = FALSE /\ run'.pc = run.pc /\ run'.b = run.b
          /\ run'.copy = run.copy /\ run'.hook = run.hook
        BY <1>4 DEF BuilderInv, RunOK, RunType
    <2> QED
        BY <1>4, <2>1 DEF BuilderInv, RunOK, Working
<1> QED
    BY <1>1, <1>3, <1>4

\* A write to a deployer leaves all but the hook's version as it is.
LEMMA WritersKeepRun ==
    ASSUME BuilderInv, DeployerWriter
    PROVE  /\ RunOK'
           /\ run'.pc = run.pc /\ run'.b = run.b /\ run'.copy = run.copy
           /\ run'.fresh = run.fresh
<1>1. run' = run \/ run' = [run EXCEPT !.targetFresh = FALSE]
    BY DEF DeployerWriter, DeployerMovesOn, DeployerReports, WriteDeployer
<1>2. /\ run' \in RunType /\ run'.fresh = run.fresh /\ run'.pc = run.pc /\ run'.b = run.b
      /\ run'.copy = run.copy /\ run'.hook = run.hook
    BY <1>1 DEF BuilderInv, RunOK, RunType
<1>3. UNCHANGED builder
    BY DEF DeployerWriter, DeployerMovesOn, DeployerReports, WriteDeployer, builderVars
<1> QED
    BY <1>2, <1>3 DEF BuilderInv, RunOK, Working

\* The branch that is taken is the one that the object's fields determine.
LEMMA RouteAgrees ==
    ASSUME NEW object \in BuilderObject, object.exists, object.spec \in BuilderSpecs,
           Route(object) # "idle"
    PROVE  /\ Route(object) \in PCs \ {"idle", "down"}
           /\ Route(object) \notin Hooking
           /\ (object.deleting => object.finalizer) => Agrees(Route(object), object, object)
<1>1. object.spec.round \in Int /\ object.currentRound \in Int
         /\ object.deleting \in BOOLEAN /\ object.finalizer \in BOOLEAN
    BY SpecFields, RoundsAreInt DEF BuilderObject
<1>2. CASE object.deleting
    BY <1>1, <1>2 DEF Route, PCs, Agrees, Reading, Building, Hooking
<1>3. CASE ~object.deleting /\ ~object.finalizer
    BY <1>1, <1>3 DEF Route, PCs, Agrees, Reading, Building, Hooking
<1>4. CASE ~object.deleting /\ object.finalizer
    <2>1. Route(object) = IF object.spec.round < object.currentRound THEN "undo"
                          ELSE IF object.spec.round > object.currentRound THEN "cleanup"
                          ELSE "handle"
        BY <1>1, <1>4 DEF Route
    <2> QED
        BY <1>1, <1>4, <2>1 DEF PCs, Agrees, Reading, Building, Hooking
<1> QED
    BY <1>1, <1>2, <1>3, <1>4

LEMMA GetRuns ==
    ASSUME BuilderInv, NEW b \in Builders, Get(b)
    PROVE  /\ RunOK'
           /\ UNCHANGED <<builderVars, jobVars>>
           /\ \/ run' = Idle /\ (builderCache[b].exists => Route(builderCache[b]) = "idle")
              \/ /\ run'.b = b /\ run'.copy = builderCache[b] /\ run'.fresh = builderFresh[b]
                 /\ run'.pc = Route(builderCache[b]) /\ run'.pc \notin Hooking
                 /\ builderCache[b].exists
<1> DEFINE seen == builderCache[b]
<1>1. UNCHANGED <<builderVars, jobVars>> /\ UNCHANGED builder
    BY DEF Get, builderVars
<1>2. CASE ~(seen.exists /\ Route(seen) # "idle")
    <2>1. run' = Idle
        BY <1>2 DEF Get
    <2>2. Idle.pc \notin Hooking
        BY IdleType DEF Hooking
    <2> QED
        BY <1>1, <1>2, <2>1, <2>2, IdleType DEF RunOK, Working
<1>3. CASE seen.exists /\ Route(seen) # "idle"
    <2>1. run' = [Idle EXCEPT !.pc = Route(seen), !.b = b, !.copy = seen,
                              !.fresh = builderFresh[b]]
        BY <1>3 DEF Get
    <2>2. /\ seen \in BuilderObject /\ seen.spec \in BuilderSpecs /\ builderFresh[b] \in BOOLEAN
          /\ builderFresh[b] => seen = builder[b] /\ (seen.deleting => seen.finalizer)
        BY <1>3 DEF BuilderInv, BuilderOK
    <2> HIDE DEF seen
    <2>3. /\ Route(seen) \in PCs \ {"idle", "down"} /\ Route(seen) \notin Hooking
          /\ (seen.deleting => seen.finalizer) => Agrees(Route(seen), seen, seen)
        BY <1>3, <2>2, RouteAgrees
    <2>4. run' \in RunType /\ run'.pc \notin {"idle", "down"} /\ run'.copy = seen
             /\ run'.b = b /\ run'.fresh = builderFresh[b] /\ run'.pc = Route(seen)
        BY <2>1, <2>2, <2>3, IdleType DEF RunType
    <2>5. run'.fresh => Agrees(run'.pc, run'.copy, builder'[run'.b])
        BY <1>1, <2>2, <2>3, <2>4
    <2>6. RunOK'
        BY <1>3, <2>2, <2>3, <2>4, <2>5 DEF RunOK, Working
    <2> QED
        BY <1>1, <1>3, <2>3, <2>4, <2>6 DEF seen
<1> QED
    BY <1>2, <1>3

\* The next step of a reconciliation.
LEMMA GotoKeepsRun ==
    ASSUME BuilderInv, Working, NEW pc \in PCs \ ({"idle", "down"} \cup Hooking),
           NEW copy \in BuilderObject, copy.exists, copy.spec \in BuilderSpecs, Goto(pc, copy),
           run.fresh => Agrees(pc, copy, builder'[run.b])
    PROVE  RunOK'
<1>1. /\ run' \in RunType /\ run'.pc = pc /\ run'.copy = copy
      /\ run'.b = run.b /\ run'.fresh = run.fresh
    BY DEF Goto, BuilderInv, RunOK, RunType
<1>2. run'.fresh => Agrees(run'.pc, run'.copy, builder'[run'.b])
    BY <1>1
<1> QED
    BY <1>1, <1>2 DEF BuilderInv, RunOK, Working

\* A copy of which one status is changed, in the round it was read in.
LEMMA HandledAgrees ==
    ASSUME NEW from \in {"handle"} \cup Hooking,
           NEW copy \in BuilderObject, NEW object \in BuilderObject,
           Agrees(from, copy, object), NEW phase \in Phases \ {"UNDO"},
           NEW pc \in {"publish"} \cup Building
    PROVE  /\ Agrees(pc, [copy EXCEPT !.phase = phase], object)
           /\ Agrees(pc, [copy EXCEPT !.phase = phase], [copy EXCEPT !.phase = phase])
<1> DEFINE new == [copy EXCEPT !.phase = phase]
<1>1. copy = object /\ object.exists /\ ~object.deleting /\ object.finalizer
          /\ object.spec.round = object.currentRound
    BY DEF Agrees, Reading, Hooking
<1>a. copy \in BuilderObject /\ phase \in Phases
    OBVIOUS
<1>b. /\ new \in BuilderObject /\ new.phase = phase
      /\ new.exists = copy.exists /\ new.deleting = copy.deleting
      /\ new.finalizer = copy.finalizer /\ new.spec = copy.spec
      /\ new.currentRound = copy.currentRound /\ new.history = copy.history
    BY ONLY <1>a, PhaseSet
<1> HIDE DEF new
<1>2. /\ new \in BuilderObject /\ new.phase = phase
      /\ new.exists = object.exists /\ new.deleting = object.deleting
      /\ new.finalizer = object.finalizer /\ new.spec = object.spec
      /\ new.currentRound = object.currentRound /\ new.history = object.history
    BY <1>1, <1>b
<1>3. new.phase # "UNDO"
    BY <1>2
<1>4. Agrees(pc, new, object) /\ Agrees(pc, new, new)
    BY <1>1, <1>2, <1>3 DEF Agrees, Reading, Building, Hooking
<1> QED
    BY <1>4 DEF new

LEMMA IdleKeepsRun == ASSUME run' = Idle \/ run' = Down PROVE RunOK'
BY IdleType, DownType DEF RunOK, Working, Hooking

LEMMA SeenPhaseType ==
    ASSUME BuilderInv, Working PROVE SeenPhase \in Phases \ {"UNDO"}
<1>1. run.b \in Builders /\ run.copy.spec.round \in RoundNumbers
    BY SpecFields DEF BuilderInv, RunOK
<1>2. jobsCache[run.b][run.copy.spec.round] \in PodStates
    BY <1>1 DEF BuilderInv, JobsOK
<1> QED
    BY <1>2 DEF SeenPhase, PhaseOfPod, Phases, PodStates

\* After a hook: the next one, or the build is Done.
LEMMA AfterHookType ==
    ASSUME BuilderInv, run.pc \in Hooking, UNCHANGED builder, run' = AfterHook
    PROVE  /\ RunOK'
           /\ run'.b = run.b /\ run'.fresh = run.fresh
           /\ run'.pc = "publish" \/ (run'.pc = "hookGet" /\ run'.copy = run.copy)
<1> DEFINE done == [run.copy EXCEPT !.phase = "Done"]
<1>0. /\ Working /\ run.hook \in 1 .. Len(run.copy.spec.hooks) /\ run \in RunType
      /\ run.copy \in BuilderObject /\ run.copy.exists /\ run.copy.spec \in BuilderSpecs
      /\ run.b \in Builders
      /\ run.fresh => Agrees(run.pc, run.copy, builder[run.b])
    BY DEF BuilderInv, RunOK, RunType, Working, Hooking
<1>1. CASE run.hook < Len(run.copy.spec.hooks)
    <2>1. run' = [run EXCEPT !.pc = "hookGet", !.hook = @ + 1,
                             !.target = AbsentDeployer, !.targetFresh = FALSE]
        BY <1>1 DEF AfterHook
    <2>2. Len(run.copy.spec.hooks) \in Nat
        BY <1>0, SpecFields, LenProperties
    <2>3. run.hook + 1 \in 1 .. Len(run.copy.spec.hooks) /\ run.hook + 1 \in Nat
        BY <1>0, <1>1, <2>2
    <2>4. /\ run' \in RunType /\ run'.pc = "hookGet" /\ run'.b = run.b /\ run'.fresh = run.fresh
          /\ run'.copy = run.copy /\ run'.hook = run.hook + 1
        BY <1>0, <2>1, <2>3, AbsentDeployerType DEF RunType, PCs
    <2>5. run.fresh => Agrees("hookGet", run.copy, builder[run.b])
        BY <1>0 DEF Agrees, Reading, Building, Hooking
    <2> QED
        BY <1>0, <2>3, <2>4, <2>5 DEF RunOK, Working
<1>2. CASE ~(run.hook < Len(run.copy.spec.hooks))
    <2>1. run' = [run EXCEPT !.pc = "publish", !.copy = done, !.hook = 0,
                             !.target = AbsentDeployer, !.targetFresh = FALSE]
        BY <1>2 DEF AfterHook
    <2>a. "Done" \in Phases \ {"UNDO"}
        BY DEF Phases
    <2>2. done \in BuilderObject /\ done.exists = run.copy.exists /\ done.spec = run.copy.spec
        BY ONLY <1>0, <2>a, PhaseSet
    <2>3. ASSUME run.fresh PROVE Agrees("publish", done, builder[run.b])
        <3>1. builder[run.b] \in BuilderObject /\ run.pc \in {"handle"} \cup Hooking
            BY <1>0 DEF BuilderInv, BuilderOK
        <3>2. "publish" \in {"publish"} \cup Building
            OBVIOUS
        <3>3. Agrees(run.pc, run.copy, builder[run.b])
            BY <1>0, <2>3
        <3> QED
            BY ONLY <1>0, <2>a, <3>1, <3>2, <3>3, HandledAgrees
    <2> HIDE DEF done
    <2>4. /\ run' \in RunType /\ run'.pc = "publish" /\ run'.b = run.b /\ run'.fresh = run.fresh
          /\ run'.copy = done
        <3>1. "publish" \in PCs /\ 0 \in Nat /\ FALSE \in BOOLEAN
            BY DEF PCs
        <3>2. run \in RunType /\ done \in BuilderObject /\ AbsentDeployer \in DeployerObject
            BY <1>0, <2>2, AbsentDeployerType
        <3> QED
            BY ONLY <2>1, <3>1, <3>2 DEF RunType
    <2>5. run'.b \in Builders /\ run'.copy.exists /\ run'.copy.spec \in BuilderSpecs
        BY <1>0, <2>2, <2>4
    <2>6. run'.fresh => Agrees(run'.pc, run'.copy, builder'[run'.b])
        BY <2>3, <2>4
    <2> QED
        BY <2>4, <2>5, <2>6 DEF RunOK, Working, Hooking
<1> QED
    BY <1>1, <1>2

LEMMA ControllerKeepsRun ==
    ASSUME BuilderInv, BuilderController PROVE RunOK'
<1> DEFINE object == builder[run.b]
<1>0. /\ run \in RunType
      /\ Working => /\ run.b \in Builders /\ run.copy \in BuilderObject
                    /\ run.copy.exists /\ run.copy.spec \in BuilderSpecs
                    /\ object \in BuilderObject
      /\ run.fresh => Working /\ Agrees(run.pc, run.copy, object)
    BY DEF BuilderInv, RunOK, RunType, BuilderOK
<1>1. CASE Conflict \/ DropFinalizer \/ Undo \/ Save \/ HandleFails \/ Publish
    <2>1. run' = Idle
        BY <1>1 DEF Conflict, DropFinalizer, Undo, Save, HandleFails, Publish, Return
    <2> QED
        BY <2>1, IdleKeepsRun
<1>2. CASE AddFinalizer
    <2> DEFINE added == [run.copy EXCEPT !.finalizer = TRUE]
    <2>1. /\ run.pc = "addFinalizer" /\ Working /\ run.fresh
          /\ StoreBuilder(run.b, added) /\ Goto(Route(added), added)
        BY <1>2 DEF AddFinalizer, At, Store, Working
    <2>2. ~run.copy.deleting
        BY <1>0, <2>1 DEF Agrees
    <2>a. run.copy \in BuilderObject
        BY <1>0, <2>1
    <2>b. /\ added \in BuilderObject /\ added.finalizer = TRUE
          /\ added.exists = run.copy.exists /\ added.deleting = run.copy.deleting
          /\ added.spec = run.copy.spec
        BY ONLY <2>a, FinalizerSet
    <2> HIDE DEF added
    <2>3. added.exists /\ added.spec \in BuilderSpecs /\ ~added.deleting
        BY <1>0, <2>1, <2>2, <2>b
    <2>4. Route(added) # "idle"
        BY <2>3, <2>b DEF Route
    <2>5. builder'[run.b] = added
        BY <1>0, <2>1, <2>3, <2>b, StoreKeepsBuilders DEF BuilderInv
    <2>6. /\ Route(added) \in PCs \ {"idle", "down"} /\ Route(added) \notin Hooking
          /\ Agrees(Route(added), added, added)
        BY <2>3, <2>4, <2>b, RouteAgrees
    <2> QED
        BY <2>1, <2>3, <2>5, <2>6, <2>b, GotoKeepsRun
<1>3. CASE Cleanup
    <2>1. run.pc = "cleanup" /\ Working /\ UNCHANGED builder
        BY <1>3 DEF Cleanup, At, Working, builderVars
    <2>2. Goto("save", NextRound(run.copy)) \/ run' = Idle
        BY <1>3 DEF Cleanup, Return
    <2>3. /\ NextRound(run.copy) \in BuilderObject
          /\ NextRound(run.copy).exists = run.copy.exists
          /\ NextRound(run.copy).deleting = run.copy.deleting
          /\ NextRound(run.copy).finalizer = run.copy.finalizer
          /\ NextRound(run.copy).spec = run.copy.spec
          /\ NextRound(run.copy).currentRound = run.copy.spec.round
          /\ NextRound(run.copy).history = BackedUp(run.copy)
          /\ NextRound(run.copy).phase = "Pending"
        BY <1>0, <2>1, NextRoundType
    <2>4. run.fresh => Agrees("save", NextRound(run.copy), builder'[run.b])
        BY <1>0, <2>1, <2>3 DEF Agrees, Reading, Building, Hooking
    <2>5. "save" \in PCs \ ({"idle", "down"} \cup Hooking)
        BY DEF PCs, Hooking
    <2> QED
        BY <1>0, <2>1, <2>2, <2>3, <2>4, <2>5, GotoKeepsRun, IdleKeepsRun
<1>4. CASE HandleMissing
    <2> DEFINE pending == [run.copy EXCEPT !.phase = "Pending"]
               next == IF pending.spec.raw THEN "dockerfile" ELSE "create"
    <2>1. run.pc = "handle" /\ Working /\ PublishStatus(pending) /\ Goto(next, pending)
        BY <1>4 DEF HandleMissing, At, Working
    <2>a. "Pending" \in Phases \ {"UNDO"} /\ next \in {"publish"} \cup Building
        BY DEF Phases, Building
    <2>b. run.copy \in BuilderObject
        BY <1>0, <2>1
    <2>2. /\ pending \in BuilderObject /\ pending.phase = "Pending"
          /\ pending.exists = run.copy.exists /\ pending.deleting = run.copy.deleting
          /\ pending.finalizer = run.copy.finalizer /\ pending.spec = run.copy.spec
        BY ONLY <2>a, <2>b, PhaseSet
    <2>3. ASSUME run.fresh PROVE Agrees(next, pending, pending) /\ ~pending.deleting
        <3>1. object \in BuilderObject /\ Agrees("handle", run.copy, object)
            BY <1>0, <2>1, <2>3
        <3>2. "handle" \in {"handle"} \cup Hooking
            OBVIOUS
        <3> HIDE DEF object, next
        <3>3. Agrees(next, pending, pending)
            BY ONLY <2>a, <2>b, <3>1, <3>2, HandledAgrees
        <3>4. ~run.copy.deleting
            BY <3>1 DEF Agrees
        <3> QED
            BY <2>2, <3>3, <3>4
    <2>4. next \in PCs \ ({"idle", "down"} \cup Hooking)
        BY DEF PCs, Hooking
    <2> HIDE DEF pending, next
    <2>5. ASSUME run.fresh PROVE builder'[run.b] = pending
        <3>1. StoreBuilder(run.b, pending)
            BY <2>1, <2>5 DEF PublishStatus
        <3> QED
            BY <1>0, <2>1, <2>2, <2>3, <2>5, <3>1, StoreKeepsBuilders DEF BuilderInv
    <2> QED
        BY <1>0, <2>1, <2>2, <2>3, <2>4, <2>5, GotoKeepsRun
<1>5. CASE DeleteDockerfile
    BY <1>5 DEF DeleteDockerfile, BuilderInv, RunOK, Working, builderVars
<1>6. CASE CreateDockerfile
    <2>1. run.pc = "dockerfile" /\ Working /\ UNCHANGED builder /\ Goto("create", run.copy)
        BY <1>6 DEF CreateDockerfile, At, Working, builderVars
    <2>2. run.fresh => Agrees("create", run.copy, builder'[run.b])
        BY <1>0, <2>1 DEF Agrees, Reading, Building, Hooking
    <2>3. "create" \in PCs \ ({"idle", "down"} \cup Hooking)
        BY DEF PCs, Hooking
    <2> QED
        BY <1>0, <2>1, <2>2, <2>3, GotoKeepsRun
<1>7. CASE CreateJob
    <2>1. run.pc = "create" /\ Working /\ UNCHANGED builder /\ Goto("publish", run.copy)
        BY <1>7 DEF CreateJob, At, Working, builderVars
    <2>2. run.fresh => Agrees("publish", run.copy, builder'[run.b])
        BY <1>0, <2>1 DEF Agrees, Reading, Building, Hooking
    <2>3. "publish" \in PCs \ ({"idle", "down"} \cup Hooking)
        BY DEF PCs, Hooking
    <2> QED
        BY <1>0, <2>1, <2>2, <2>3, GotoKeepsRun
<1>8. CASE HandleWatch
    <2> DEFINE seen == [run.copy EXCEPT !.phase = SeenPhase]
    <2>1. run.pc = "handle" /\ Working /\ UNCHANGED builder
        BY <1>8 DEF HandleWatch, At, Working, builderVars
    <2>2. \/ Goto("publish", seen)
          \/ /\ run.copy.spec.hooks # <<>>
             /\ run' = [run EXCEPT !.pc = "hookGet", !.hook = 1]
        BY <1>8 DEF HandleWatch
    <2>3. CASE Goto("publish", seen)
        <3>1. SeenPhase \in Phases \ {"UNDO"}
            BY <2>1, SeenPhaseType
        <3>2. run.copy \in BuilderObject
            BY <1>0, <2>1
        <3>3. /\ seen \in BuilderObject /\ seen.exists = run.copy.exists
              /\ seen.spec = run.copy.spec
            BY ONLY <3>1, <3>2, PhaseSet
        <3>4. ASSUME run.fresh PROVE Agrees("publish", seen, object)
            <4>1. object \in BuilderObject /\ Agrees("handle", run.copy, object)
                BY <1>0, <2>1, <3>4
            <4>2. "publish" \in {"publish"} \cup Building /\ "handle" \in {"handle"} \cup Hooking
                OBVIOUS
            <4> HIDE DEF object
            <4> QED
                BY ONLY <3>1, <3>2, <4>1, <4>2, HandledAgrees
        <3> HIDE DEF seen
        <3>5. "publish" \in PCs \ ({"idle", "down"} \cup Hooking)
            BY DEF PCs, Hooking
        <3> QED
            BY <1>0, <2>1, <2>3, <3>3, <3>4, <3>5, GotoKeepsRun
    <2>4. CASE run.copy.spec.hooks # <<>> /\ run' = [run EXCEPT !.pc = "hookGet", !.hook = 1]
        <3>1. /\ run' \in RunType /\ run'.pc = "hookGet" /\ run'.b = run.b
              /\ run'.fresh = run.fresh /\ run'.copy = run.copy /\ run'.hook = 1
            BY <1>0, <2>4 DEF RunType, PCs
        <3>2. run.copy.spec.hooks \in Seq(Hook)
            BY <1>0, <2>1, SpecFields
        <3>3. 1 \in 1 .. Len(run.copy.spec.hooks)
            BY <2>4, <3>2, EmptySeq, LenProperties
        <3>4. run.fresh => Agrees("hookGet", run.copy, object)
            BY <1>0, <2>1 DEF Agrees, Reading, Building, Hooking
        <3> QED
            BY <1>0, <2>1, <3>1, <3>3, <3>4 DEF RunOK, Working
    <2> QED
        BY <2>2, <2>3, <2>4
<1>9. CASE HookGet
    <2>1. run.pc = "hookGet" /\ Working /\ UNCHANGED builder /\ run.pc \in Hooking
        BY <1>9 DEF HookGet, At, Working, builderVars, Hooking
    <2>2. \/ run' = AfterHook
          \/ run' = [run EXCEPT !.pc = "hookUpdate", !.target = deployerCache[TheHook.deployer],
                                !.targetFresh = deployerFresh[TheHook.deployer]]
        BY <1>9 DEF HookGet
    <2>3. CASE run' = AfterHook
        BY <2>1, <2>3, AfterHookType
    <2>4. CASE run' = [run EXCEPT !.pc = "hookUpdate", !.target = deployerCache[TheHook.deployer],
                                  !.targetFresh = deployerFresh[TheHook.deployer]]
        <3>1. TheHook \in Hook /\ run.hook \in 1 .. Len(run.copy.spec.hooks)
            BY <2>1, TheHookType
        <3>2. TheHook.deployer \in Deployers
            BY <3>1 DEF Hook
        <3>3. /\ deployerCache[TheHook.deployer] \in DeployerObject
              /\ deployerFresh[TheHook.deployer] \in BOOLEAN
            BY <3>2 DEF BuilderInv, DeployersOK
        <3>4. /\ run' \in RunType /\ run'.pc = "hookUpdate" /\ run'.b = run.b
              /\ run'.fresh = run.fresh /\ run'.copy = run.copy /\ run'.hook = run.hook
            BY <1>0, <2>4, <3>3 DEF RunType, PCs
        <3>5. run.fresh => Agrees("hookUpdate", run.copy, object)
            BY <1>0, <2>1 DEF Agrees, Reading, Building, Hooking
        <3> QED
            BY <1>0, <2>1, <3>1, <3>4, <3>5 DEF RunOK, Working
    <2> QED
        BY <2>2, <2>3, <2>4
<1>10. CASE HookUpdate
    <2>1. run.pc \in Hooking /\ UNCHANGED builder /\ run' = AfterHook
        BY <1>10 DEF HookUpdate, At, builderVars, Hooking
    <2> QED
        BY <2>1, AfterHookType
<1>11. CASE HookFails
    <2> DEFINE doing == [run.copy EXCEPT !.phase = "Doing"]
    <2>1. /\ run.pc = "hookUpdate" /\ Working /\ UNCHANGED builder
          /\ run' = [run EXCEPT !.pc = "publish", !.copy = doing, !.hook = 0,
                                !.target = AbsentDeployer, !.targetFresh = FALSE]
        BY <1>11 DEF HookFails, At, Working, builderVars
    <2>a. "Doing" \in Phases \ {"UNDO"} /\ run.copy \in BuilderObject
        BY <1>0, <2>1 DEF Phases
    <2>2. doing \in BuilderObject /\ doing.exists = run.copy.exists /\ doing.spec = run.copy.spec
        BY ONLY <2>a, PhaseSet
    <2>3. ASSUME run.fresh PROVE Agrees("publish", doing, object)
        <3>1. object \in BuilderObject /\ Agrees("hookUpdate", run.copy, object)
            BY <1>0, <2>1, <2>3
        <3>2. "publish" \in {"publish"} \cup Building /\ "hookUpdate" \in {"handle"} \cup Hooking
            BY DEF Hooking
        <3> HIDE DEF object
        <3> QED
            BY ONLY <2>a, <3>1, <3>2, HandledAgrees
    <2> HIDE DEF doing
    <2>4. /\ run' \in RunType /\ run'.pc = "publish" /\ run'.b = run.b /\ run'.fresh = run.fresh
          /\ run'.copy = doing
        BY <1>0, <2>1, <2>2, AbsentDeployerType DEF RunType, PCs
    <2> QED
        BY <1>0, <2>1, <2>2, <2>3, <2>4 DEF RunOK, Working, Hooking
<1> QED
    BY <1>1, <1>2, <1>3, <1>4, <1>5, <1>6, <1>7, <1>8, <1>9, <1>10, <1>11 DEF BuilderController

LEMMA NextKeepsRun == ASSUME BuilderInv, Next PROVE RunOK'
<1>1. CASE UNCHANGED <<run, builder>>
    BY <1>1 DEF BuilderInv, RunOK, Working
<1>2. ASSUME BuilderUser PROVE RunOK'
    BY <1>2, UserAsks, AsksKeepRun DEF BuilderInv
<1>3. ASSUME Crash \/ Start PROVE RunOK'
    BY <1>3, IdleKeepsRun DEF Crash, Start
<1>4. \/ BuilderController \/ BuilderUser \/ DeployerWriter \/ Crash \/ Start
      \/ UNCHANGED <<run, builder>>
      \/ \E b \in Builders : Get(b)
    BY DEF Next, SyncBuilder, SyncJobs, Resync, CollectGarbage, MovePod,
           OrphanEnds, SyncDeployer, builderVars
<1> QED
    BY <1>1, <1>2, <1>3, <1>4, GetRuns, ControllerKeepsRun, WritersKeepRun

LEMMA NextKeepsQueue == ASSUME BuilderInv, Next PROVE queue' \in SUBSET Builders
<1>0. queue \in SUBSET Builders /\ (Working => run.b \in Builders)
    BY DEF BuilderInv, RunOK
<1>1. ASSUME BuilderController PROVE queue' \in SUBSET Builders
    <2>1. Working
        BY <1>1 DEF BuilderController, Conflict, AddFinalizer, DropFinalizer, Undo, Cleanup, Save,
                    HandleMissing, DeleteDockerfile, CreateDockerfile, CreateJob, HandleFails,
                    HandleWatch, HookGet, HookUpdate, HookFails, Publish, At, Working
    <2>2. queue' \subseteq queue \cup {run.b}
        BY <1>1 DEF BuilderController, Conflict, AddFinalizer, DropFinalizer, Undo, Cleanup, Save,
                    HandleMissing, DeleteDockerfile, CreateDockerfile, CreateJob, HandleFails,
                    HandleWatch, HookGet, HookUpdate, HookFails, Publish,
                    Return, Woken, WokenByPublish
    <2> QED
        BY <1>0, <2>1, <2>2
<1>2. ASSUME BuilderUser PROVE queue' \in SUBSET Builders
    BY <1>0, <1>2 DEF BuilderUser, CreateBuilder, EditBuilder, DeleteBuilder, WriteFromOutside,
                      Woken
<1>3. \/ BuilderController \/ BuilderUser \/ UNCHANGED queue
      \/ \E b \in Builders : queue' = queue \cup {b} \/ queue' = queue \ {b}
      \/ queue' \subseteq Builders
    BY DEF Next, Get, SyncBuilder, SyncJobs, Resync, CollectGarbage, MovePod,
           OrphanEnds, SyncDeployer,
           DeployerWriter, DeployerMovesOn, DeployerReports, WriteDeployer, Crash, Start
<1> QED
    BY <1>0, <1>1, <1>2, <1>3

LEMMA InitBuilderInv == Init => BuilderInv
<1> SUFFICES ASSUME Init PROVE BuilderInv
    OBVIOUS
<1>1. BuilderOK
    BY AbsentBuilderType DEF Init, BuilderOK
<1>2. JobsOK
    <2>1. \A b \in Builders : jobs[b] = NoJobs
        BY DEF Init
    <2>2. \A b \in Builders : jobsCache[b] \in [RoundNumbers -> PodStates]
        BY <2>1, NoJobsType DEF Init, States, NoJob, PodStates
    <2>3. jobsCache \in [Builders -> [RoundNumbers -> PodStates]]
        BY <2>2 DEF Init
    <2> QED
        BY <2>1, <2>3, NoJobsType, NoJobType DEF Init, JobsOK
<1>3. DeployersOK
    BY NewDeployerType, AbsentDeployerType DEF Init, DeployersOK
<1>4. RunOK
    BY IdleType DEF Init, RunOK, Working, Hooking
<1> QED
    BY <1>1, <1>2, <1>3, <1>4 DEF BuilderInv, OrphansOK, Init

THEOREM BuilderInvariant == Spec => []BuilderInv
<1>1. BuilderInv /\ [Next]_vars => BuilderInv'
    <2>1. BuilderInv /\ Next => BuilderInv'
        BY NextKeepsBuilders, NextKeepsJobs, NextKeepsOrphans, NextKeepsDeployers, NextKeepsRun,
           NextKeepsQueue
        DEF BuilderInv
    <2>2. BuilderInv /\ UNCHANGED vars => BuilderInv'
        BY DEF BuilderInv, BuilderOK, JobsOK, OrphansOK, DeployersOK, RunOK, Working, vars,
               builderVars, jobVars, deployerVars
    <2> QED
        BY <2>1, <2>2
<1> QED
    BY <1>1, InitBuilderInv, PTL DEF Spec

\* Whatever is stale, fails or stops: every variable keeps its type.
THEOREM BuildersTypeCorrect == Spec => []TypeOK
<1>1. BuilderInv => TypeOK
    BY DEF BuilderInv, BuilderOK, JobsOK, OrphansOK, DeployersOK, RunOK, RunType, TypeOK
<1> QED
    BY <1>1, BuilderInvariant, PTL

-----------------------------------------------------------------------------
(* Builders implement RoundLedger. *)

View(object) ==
    [exists |-> object.exists, deleting |-> object.deleting, spec |-> object.spec,
     phase |-> object.phase, currentRound |-> object.currentRound, history |-> object.history]

Viewed == [b \in Builders |-> View(builder[b])]

Ledgers == INSTANCE RoundLedgerProofs WITH
    Names <- Builders,
    Specs <- BuilderSpecs,
    rounds <- Viewed

LEMMA ViewType ==
    ASSUME NEW object \in BuilderObject
    PROVE  /\ View(object) \in Ledgers!Object
           /\ View(object).exists = object.exists /\ View(object).deleting = object.deleting
           /\ View(object).spec = object.spec /\ View(object).phase = object.phase
           /\ View(object).currentRound = object.currentRound
           /\ View(object).history = object.history
<1>1. Ledgers!Entry = HistoryEntry /\ Ledgers!Phases = Phases
    BY DEF Ledgers!Entry, HistoryEntry, Ledgers!Phases, Phases
<1> QED
    BY <1>1, RoundsAreInt DEF View, BuilderObject, Ledgers!Object

LEMMA AbsentView == View(AbsentBuilder) = Ledgers!Absent
BY DEF View, AbsentBuilder, Ledgers!Absent

LEMMA ViewedType ==
    ASSUME BuilderOK
    PROVE  /\ Ledgers!LedgerTypeOK
           /\ \A b \in Builders : Viewed[b] = View(builder[b])
<1>1. \A b \in Builders : builder[b] \in BuilderObject
    BY DEF BuilderOK
<1>2. \A b \in Builders : Viewed[b] = View(builder[b])
    BY DEF Viewed
<1>3. Viewed \in [Builders -> Ledgers!Object]
    BY <1>1, ViewType DEF Viewed
<1>4. \A b \in Builders : Viewed[b].exists => Viewed[b].spec \in BuilderSpecs
    BY <1>1, <1>2, ViewType DEF BuilderOK
<1> QED
    BY <1>2, <1>3, <1>4 DEF Ledgers!LedgerTypeOK

\* What the ledger's steps are about: what was there and what is stored.
LEMMA StoredView ==
    ASSUME BuilderOK, NEW b \in Builders, NEW new \in BuilderObject, StoreBuilder(b, new)
    PROVE  /\ Ledgers!Set(b, View(new))
           /\ Ledgers!LedgerTypeOK
           /\ View(new) \in Ledgers!Object
           /\ View(new).exists = new.exists /\ View(new).deleting = new.deleting
           /\ View(new).spec = new.spec /\ View(new).phase = new.phase
           /\ View(new).currentRound = new.currentRound /\ View(new).history = new.history
           /\ Viewed[b].exists = builder[b].exists /\ Viewed[b].deleting = builder[b].deleting
           /\ Viewed[b].spec = builder[b].spec /\ Viewed[b].phase = builder[b].phase
           /\ Viewed[b].currentRound = builder[b].currentRound
           /\ Viewed[b].history = builder[b].history
<1>1. builder[b] \in BuilderObject /\ Viewed[b] = View(builder[b])
    BY ViewedType DEF BuilderOK
<1>2. builder' = [builder EXCEPT ![b] = new] /\ builder \in [Builders -> BuilderObject]
    BY DEF StoreBuilder, BuilderOK
<1>3. Viewed' = [c \in Builders |-> View(builder'[c])]
    BY DEF Viewed
<1>4. \A c \in Builders : View(builder'[c]) = IF c = b THEN View(new) ELSE View(builder[c])
    BY <1>2
<1>5. Viewed' = [Viewed EXCEPT ![b] = View(new)]
    BY <1>3, <1>4 DEF Viewed
<1>6. Ledgers!Set(b, View(new))
    BY <1>5 DEF Ledgers!Set
<1> QED
    BY <1>1, <1>6, ViewType, ViewedType

LEMMA ViewBackedUp ==
    ASSUME NEW b \in Builders, Viewed[b].spec = builder[b].spec,
           Viewed[b].phase = builder[b].phase,
           Viewed[b].currentRound = builder[b].currentRound,
           Viewed[b].history = builder[b].history
    PROVE  Ledgers!BackedUp(Viewed[b]) = BackedUp(builder[b])
BY DEF Ledgers!BackedUp, BackedUp

LEMMA WritesMove ==
    ASSUME BuilderInv, NEW new \in BuilderObject, Writes(new)
    PROVE  [Ledgers!Next]_Viewed
<1> DEFINE b == run.b
<1>1. BuilderOK /\ b \in Builders /\ StoreBuilder(b, new)
    BY DEF BuilderInv, RunOK, Writes
<1> HIDE DEF b
<1>2. /\ Ledgers!Set(b, View(new))
      /\ Ledgers!LedgerTypeOK
      /\ View(new) \in Ledgers!Object
      /\ View(new).exists = new.exists /\ View(new).deleting = new.deleting
      /\ View(new).spec = new.spec /\ View(new).phase = new.phase
      /\ View(new).currentRound = new.currentRound /\ View(new).history = new.history
      /\ Viewed[b].exists = builder[b].exists /\ Viewed[b].deleting = builder[b].deleting
      /\ Viewed[b].spec = builder[b].spec /\ Viewed[b].phase = builder[b].phase
      /\ Viewed[b].currentRound = builder[b].currentRound
      /\ Viewed[b].history = builder[b].history
    BY <1>1, StoredView
<1>3. CASE new = AbsentBuilder /\ builder[b].exists
    BY <1>1, <1>2, <1>3, AbsentView, Ledgers!StepVanishes
<1>4. CASE Adds(new, builder[b])
    <2>1. UNCHANGED Viewed
        BY <1>1, <1>2, <1>4, Ledgers!StepKeeps DEF Adds
    <2> QED
        BY <2>1
<1>5. CASE Reports(new, builder[b])
    BY <1>1, <1>2, <1>5, Ledgers!StepReports DEF Reports
<1>6. CASE MovesOn(new, builder[b])
    <2>1. Ledgers!BackedUp(Viewed[b]) = BackedUp(builder[b])
        BY <1>1, <1>2, ViewBackedUp
    <2> QED
        BY <1>1, <1>2, <1>6, <2>1, Ledgers!StepMovesOn DEF MovesOn
<1> QED
    BY <1>3, <1>4, <1>5, <1>6 DEF Writes, b

LEMMA AsksMove ==
    ASSUME BuilderOK, NEW b \in Builders, NEW new \in BuilderObject, Asks(b, new)
    PROVE  [Ledgers!Next]_Viewed
<1>1. StoreBuilder(b, new)
    BY DEF Asks, WriteFromOutside
<1>2. /\ Ledgers!Set(b, View(new))
      /\ Ledgers!LedgerTypeOK
      /\ View(new) \in Ledgers!Object
      /\ View(new).exists = new.exists /\ View(new).deleting = new.deleting
      /\ View(new).spec = new.spec /\ View(new).phase = new.phase
      /\ View(new).currentRound = new.currentRound /\ View(new).history = new.history
      /\ Viewed[b].exists = builder[b].exists /\ Viewed[b].deleting = builder[b].deleting
      /\ Viewed[b].spec = builder[b].spec /\ Viewed[b].phase = builder[b].phase
      /\ Viewed[b].currentRound = builder[b].currentRound
      /\ Viewed[b].history = builder[b].history
    BY <1>1, StoredView
<1>3. CASE /\ ~builder[b].exists
           /\ new.exists /\ ~new.deleting /\ ~new.finalizer /\ new.spec \in BuilderSpecs
           /\ new.phase = "" /\ new.currentRound = 0 /\ new.history = <<>>
    BY <1>2, <1>3, Ledgers!StepAppears
<1>4. CASE /\ builder[b].exists /\ new.spec \in BuilderSpecs
           /\ new.exists = builder[b].exists /\ new.deleting = builder[b].deleting
           /\ new.finalizer = builder[b].finalizer /\ new.phase = builder[b].phase
           /\ new.currentRound = builder[b].currentRound /\ new.history = builder[b].history
    BY <1>2, <1>4, Ledgers!StepAsks
<1>5. CASE /\ builder[b].exists /\ builder[b].finalizer /\ new.deleting = TRUE
           /\ new.exists = builder[b].exists /\ new.spec = builder[b].spec
           /\ new.finalizer = builder[b].finalizer /\ new.phase = builder[b].phase
           /\ new.currentRound = builder[b].currentRound /\ new.history = builder[b].history
    BY <1>2, <1>5, Ledgers!StepMarks
<1>6. CASE builder[b].exists /\ new = AbsentBuilder
    BY <1>2, <1>6, AbsentView, Ledgers!StepVanishes
<1> QED
    BY <1>3, <1>4, <1>5, <1>6 DEF Asks

LEMMA NextMoves == BuilderInv /\ [Next]_vars => [Ledgers!Next]_Viewed
<1> SUFFICES ASSUME BuilderInv, [Next]_vars PROVE [Ledgers!Next]_Viewed
    OBVIOUS
<1>1. BuilderOK
    BY DEF BuilderInv
<1>2. ASSUME UNCHANGED builder PROVE UNCHANGED Viewed
    BY <1>2 DEF Viewed
<1>3. \/ \E new \in BuilderObject : Writes(new)
      \/ \E b \in Builders, new \in BuilderObject : Asks(b, new)
      \/ UNCHANGED builder
    BY BuilderWriters DEF vars, builderVars, SyncBuilder, Start
<1> QED
    BY <1>1, <1>2, <1>3, WritesMove, AsksMove

LEMMA InitMoves == Init => Ledgers!Init
<1> SUFFICES ASSUME Init PROVE Viewed = [b \in Builders |-> Ledgers!Absent]
    BY DEF Ledgers!Init
<1>1. \A b \in Builders : builder[b] = AbsentBuilder
    BY DEF Init
<1> QED
    BY <1>1, AbsentView DEF Viewed

LEMMA BuildersAreLedgers == Spec => Ledgers!Spec
BY InitMoves, NextMoves, BuilderInvariant, PTL DEF Spec, Ledgers!Spec

\* However stale the copies, whoever else writes and wherever the manager
\* stops: a builder moves exactly to the round asked for at that moment, the
\* step archives the round recorded until then, and no status is another
\* round's.
THEOREM BuildersImplementRounds == Spec => ImplementsRounds
<1> DEFINE seen == [b \in Builders |->
                      [exists |-> builder[b].exists, deleting |-> builder[b].deleting,
                       spec |-> builder[b].spec, phase |-> builder[b].phase,
                       currentRound |-> builder[b].currentRound,
                       history |-> builder[b].history]]
<1>1. Viewed = seen
    BY DEF Viewed, View
<1>2. Ledgers!Init => Rounds!Init
    BY <1>1 DEF Rounds!Init, Ledgers!Init, Rounds!Absent, Ledgers!Absent
<1>3. [Ledgers!Next]_Viewed => [Rounds!Next]_seen
    <2> SUFFICES ASSUME [Ledgers!Next]_Viewed PROVE [Rounds!Next]_seen
        OBVIOUS
    <2>1. Viewed' = seen'
        BY DEF Viewed, View
    <2>2. CASE UNCHANGED Viewed
        BY <1>1, <2>1, <2>2
    <2>3. CASE Ledgers!Next
        <3>1. PICK b \in Builders :
                  \/ \E spec \in BuilderSpecs : Ledgers!Appear(b, spec) \/ Ledgers!Ask(b, spec)
                  \/ Ledgers!AskToVanish(b)
                  \/ Ledgers!Vanish(b)
                  \/ \E phase \in Ledgers!Phases :
                         Ledgers!MoveOn(b, phase) \/ Ledgers!Report(b, phase)
            BY <2>3 DEF Ledgers!Next
        <3>2. ASSUME NEW spec \in BuilderSpecs, Ledgers!Appear(b, spec) \/ Ledgers!Ask(b, spec)
              PROVE  Rounds!Appear(b, spec) \/ Rounds!Ask(b, spec)
            BY <1>1, <2>1, <3>2 DEF Rounds!Appear, Ledgers!Appear, Rounds!Ask, Ledgers!Ask,
                                    Rounds!Set, Ledgers!Set, Rounds!New, Ledgers!New
        <3>3. ASSUME Ledgers!AskToVanish(b) \/ Ledgers!Vanish(b)
              PROVE  Rounds!AskToVanish(b) \/ Rounds!Vanish(b)
            BY <1>1, <2>1, <3>3 DEF Rounds!AskToVanish, Ledgers!AskToVanish, Rounds!Vanish,
                                    Ledgers!Vanish, Rounds!Set, Ledgers!Set, Rounds!Absent,
                                    Ledgers!Absent
        <3>4. Rounds!Phases = Ledgers!Phases
            BY DEF Rounds!Phases, Ledgers!Phases
        <3>5. ASSUME NEW phase \in Ledgers!Phases,
                     Ledgers!MoveOn(b, phase) \/ Ledgers!Report(b, phase)
              PROVE  Rounds!MoveOn(b, phase) \/ Rounds!Report(b, phase)
            BY <1>1, <2>1, <3>5 DEF Rounds!MoveOn, Ledgers!MoveOn, Rounds!Report, Ledgers!Report,
                                    Rounds!Set, Ledgers!Set, Rounds!BackedUp, Ledgers!BackedUp,
                                    Rounds!Phases, Ledgers!Phases
        <3> QED
            BY <3>1, <3>2, <3>3, <3>4, <3>5 DEF Rounds!Next
    <2> QED
        BY <2>2, <2>3
<1> QED
    BY <1>1, <1>2, <1>3, BuildersAreLedgers, PTL
    DEF ImplementsRounds, Rounds!Spec, Ledgers!Spec

-----------------------------------------------------------------------------
(* No builder is forgotten. *)

\* What keeps a builder from being forgotten.
Noted(b) ==
    builder[b].exists => Settled(builder[b]) \/ b \in queue \/ run.b = b \/ ~builderFresh[b]

LEMMA RememberedMeans ==
    Remembered <=> /\ ~At("down") => \A b \in Builders : Noted(b)
                   /\ Working /\ ~run.fresh => run.b \in queue \/ ~builderFresh[run.b]
                   /\ ~Working => run.b = None
BY DEF Remembered, NobodyIsForgotten, Noted

\* A reconciliation goes on with the version it has; or ends, and then either
\* the key is queued, or what it wrote is settled, or it wrote nothing.
LEMMA GotoGoes ==
    ASSUME run \in RunType, NEW pc \in PCs \ {"idle", "down"}, NEW copy, Goto(pc, copy)
    PROVE  Working' /\ run'.b = run.b /\ run'.fresh = run.fresh
BY DEF Goto, RunType, Working

LEMMA ControllerEnds ==
    ASSUME BuilderInv, BuilderController
    PROVE  /\ Working /\ queue \subseteq queue'
           /\ \/ Working' /\ run'.b = run.b /\ run'.fresh = run.fresh
              \/ /\ run' = Idle
                 /\ \/ run.b \in queue'
                    \/ builder'[run.b].exists => Settled(builder'[run.b])
                    \/ ~run.fresh
<1> DEFINE Goal == \/ Working' /\ run'.b = run.b /\ run'.fresh = run.fresh
                   \/ /\ run' = Idle
                      /\ \/ run.b \in queue'
                         \/ builder'[run.b].exists => Settled(builder'[run.b])
                         \/ ~run.fresh
<1>0. Working /\ queue \subseteq queue'
    BY DEF BuilderController, Conflict, AddFinalizer, DropFinalizer, Undo, Cleanup, Save,
           HandleMissing, DeleteDockerfile, CreateDockerfile, CreateJob, HandleFails,
           HandleWatch, HookGet, HookUpdate, HookFails, Publish, At, Working, Return
<1> SUFFICES Goal
    BY <1>0
<1>1. /\ run \in RunType /\ run.copy \in BuilderObject /\ run.b \in Builders
      /\ run.copy.exists /\ run.copy.spec \in BuilderSpecs
      /\ run.fresh => Agrees(run.pc, run.copy, builder[run.b])
    BY <1>0 DEF BuilderInv, RunOK, RunType
<1>2. CASE Conflict \/ Save \/ HandleFails
    BY <1>2 DEF Conflict, Save, HandleFails, Return
<1>3. CASE DropFinalizer
    <2>1. StoreBuilder(run.b, AbsentBuilder) /\ run' = Idle
        BY <1>3 DEF DropFinalizer, Store
    <2>2. builder'[run.b] = AbsentBuilder
        BY <1>1, <2>1 DEF StoreBuilder, BuilderInv, BuilderOK
    <2> QED
        BY <2>1, <2>2, AbsentBuilderType
<1>4. CASE Undo
    <2> DEFINE new == [run.copy EXCEPT !.phase = "UNDO"]
    <2>1. StoreBuilder(run.b, new) /\ run' = Idle /\ run.fresh /\ run.pc = "undo"
        BY <1>4 DEF Undo, Store, At
    <2>a. "UNDO" \in Phases /\ run.copy \in BuilderObject
        BY <1>1 DEF Phases
    <2>2. /\ new.phase = "UNDO" /\ new.spec = run.copy.spec
          /\ new.currentRound = run.copy.currentRound
        BY ONLY <2>a, PhaseSet
    <2>3. builder'[run.b] = new
        BY <1>1, <2>1 DEF StoreBuilder, BuilderInv, BuilderOK
    <2>4. run.copy.spec.round < run.copy.currentRound
        BY <1>1, <2>1 DEF Agrees, Reading
    <2> HIDE DEF new
    <2>5. Settled(new)
        BY <2>2, <2>4 DEF Settled
    <2> QED
        BY <2>1, <2>3, <2>5
<1>5. CASE Publish
    <2>1. /\ run.pc = "publish" /\ run' = Idle /\ PublishStatus(run.copy)
          /\ run.b \in queue' \/ HashDone(run.copy.phase)
        BY <1>5 DEF Publish, At
    <2>2. ASSUME run.fresh, HashDone(run.copy.phase) PROVE Settled(builder'[run.b])
        <3>1. builder'[run.b] = run.copy
            BY <1>1, <2>1, <2>2 DEF PublishStatus, StoreBuilder, BuilderInv, BuilderOK
        <3>2. run.copy.spec.round = run.copy.currentRound
            BY <1>1, <2>1, <2>2 DEF Agrees
        <3> QED
            BY <2>2, <3>1, <3>2 DEF Settled
    <2> QED
        BY <2>1, <2>2
<1>6. CASE AddFinalizer
    <2> DEFINE added == [run.copy EXCEPT !.finalizer = TRUE]
    <2>1. Goto(Route(added), added) /\ run.pc = "addFinalizer" /\ run.fresh
        BY <1>6 DEF AddFinalizer, At, Store
    <2>2. ~run.copy.deleting
        BY <1>1, <2>1 DEF Agrees
    <2>a. run.copy \in BuilderObject
        BY <1>1
    <2>3. added \in BuilderObject /\ added.finalizer = TRUE /\ added.exists = run.copy.exists
             /\ added.deleting = run.copy.deleting /\ added.spec = run.copy.spec
        BY ONLY <2>a, FinalizerSet
    <2> HIDE DEF added
    <2>4. Route(added) # "idle"
        BY <2>2, <2>3 DEF Route
    <2>5. Route(added) \in PCs \ {"idle", "down"}
        BY <1>1, <2>3, <2>4, RouteAgrees
    <2> QED
        BY <1>1, <2>1, <2>5, GotoGoes
<1>7. CASE Cleanup
    <2>1. \/ Goto("save", NextRound(run.copy))
          \/ run' = Idle /\ run.b \in queue'
        BY <1>7 DEF Cleanup, Return
    <2>2. "save" \in PCs \ {"idle", "down"}
        BY DEF PCs
    <2> QED
        BY <1>1, <2>1, <2>2, GotoGoes
<1>8. CASE HookGet \/ HookUpdate \/ HookFails
    <2>1. CASE run' = AfterHook
        BY <1>1, <2>1 DEF AfterHook, RunType, Working
    <2>2. CASE HookGet /\ run' # AfterHook
        BY <1>1, <2>2 DEF HookGet, RunType, Working
    <2>3. CASE HookFails
        BY <1>1, <2>3 DEF HookFails, RunType, Working
    <2> QED
        BY <1>8, <2>1, <2>2, <2>3 DEF HookUpdate
<1>9. CASE HandleMissing \/ CreateDockerfile \/ CreateJob
    <2>1. \E pc \in {"dockerfile", "create", "publish"} : \E copy : Goto(pc, copy)
        BY <1>9 DEF HandleMissing, CreateDockerfile, CreateJob
    <2>2. {"dockerfile", "create", "publish"} \subseteq PCs \ {"idle", "down"}
        BY DEF PCs
    <2> QED
        BY <1>1, <2>1, <2>2, GotoGoes
<1>10. CASE DeleteDockerfile
    BY <1>0, <1>10 DEF DeleteDockerfile, Working
<1>11. CASE HandleWatch
    <2>1. \/ \E copy : Goto("publish", copy)
          \/ run' = [run EXCEPT !.pc = "hookGet", !.hook = 1]
        BY <1>11 DEF HandleWatch
    <2>2. "publish" \in PCs \ {"idle", "down"}
        BY DEF PCs
    <2>3. CASE run' = [run EXCEPT !.pc = "hookGet", !.hook = 1]
        BY <1>1, <2>3 DEF RunType, Working
    <2> QED
        BY <1>1, <2>1, <2>2, <2>3, GotoGoes
<1> QED
    BY <1>2, <1>3, <1>4, <1>5, <1>6, <1>7, <1>8, <1>9, <1>10, <1>11 DEF BuilderController

LEMMA ControllerRemembers ==
    ASSUME BuilderInv, Remembered, BuilderController PROVE Remembered'
<1>1. /\ Working /\ queue \subseteq queue'
      /\ \/ Working' /\ run'.b = run.b /\ run'.fresh = run.fresh
         \/ /\ run' = Idle
            /\ \/ run.b \in queue'
               \/ builder'[run.b].exists => Settled(builder'[run.b])
               \/ ~run.fresh
    BY ControllerEnds
<1>2. \/ UNCHANGED builderVars
      \/ run.fresh /\ \E new : StoreBuilder(run.b, new)
    BY ControllerWrites DEF Writes
<1>3. /\ run.b \in Builders /\ ~At("down")
      /\ \A c \in Builders : c # run.b =>
             builder'[c] = builder[c] /\ builderFresh'[c] = builderFresh[c]
      /\ ~run.fresh => builder' = builder /\ builderFresh' = builderFresh
    BY <1>1, <1>2 DEF BuilderInv, RunOK, BuilderOK, StoreBuilder, builderVars, Working, At
<1>4. \A c \in Builders : c # run.b => Noted(c)'
    BY <1>1, <1>3, RememberedMeans DEF Noted
<1>5. ASSUME NEW c \in Builders, c = run.b PROVE Noted(c)'
    <2>1. CASE run'.b = run.b
        BY <1>5, <2>1 DEF Noted
    <2>2. CASE run.b \in queue' \/ (builder'[run.b].exists => Settled(builder'[run.b]))
        BY <1>5, <2>2 DEF Noted
    <2>3. CASE ~run.fresh
        BY <1>1, <1>3, <1>5, <2>3, RememberedMeans DEF Noted
    <2> QED
        BY <1>1, <2>1, <2>2, <2>3
<1>6. Working' /\ ~run'.fresh => run'.b \in queue' \/ ~builderFresh'[run'.b]
    <2>1. Idle.pc = "idle"
        BY IdleType
    <2> QED
        BY <1>1, <1>3, <2>1, RememberedMeans DEF Working
<1>7. ~Working' => run'.b = None
    BY <1>1 DEF Idle
<1>8. \A c \in Builders : Noted(c)'
    BY <1>4, <1>5
<1> QED
    BY <1>6, <1>7, <1>8 DEF Remembered, NobodyIsForgotten, Noted

\* Who else writes leaves an event behind: in the queue, or on its way.
LEMMA AsksRemember ==
    ASSUME BuilderInv, Remembered, NEW b \in Builders, NEW new \in BuilderObject, Asks(b, new)
    PROVE  Remembered'
<1>0. new # builder[b]
    BY DEF Asks
<1>1. /\ builder'[b] = new
      /\ \A c \in Builders : c # b => builder'[c] = builder[c]
    BY AsksKeep DEF BuilderInv
<1>2. /\ run'.pc = run.pc /\ run'.b = run.b
      /\ ~run'.fresh => ~run.fresh \/ (run.b = b /\ new # builder[b])
    BY AsksKeepRun
<1>3. /\ queue \subseteq queue'
      /\ ~BuildersLag /\ new # builder[b] => b \in queue'
      /\ builderFresh' = [builderFresh EXCEPT ![b] = (BuildersLag => @ /\ new = builder[b])]
    BY DEF Asks, WriteFromOutside, StoreBuilder, Woken
<1>4. BuildersLag \in BOOLEAN /\ builderFresh \in [Builders -> BOOLEAN]
    BY BuilderAssumption DEF BuilderInv, BuilderOK
<1>5. /\ \A c \in Builders : c # b => builderFresh'[c] = builderFresh[c]
      /\ new # builder[b] => b \in queue' \/ ~builderFresh'[b]
      /\ BuildersLag /\ ~builderFresh[b] => ~builderFresh'[b]
    BY <1>3, <1>4
<1>6. \A c \in Builders : c \in queue \/ ~builderFresh[c] => c \in queue' \/ ~builderFresh'[c]
    BY <1>0, <1>1, <1>3, <1>5
<1>7. \A c \in Builders : Noted(c) => Noted(c)'
    BY <1>1, <1>2, <1>5, <1>6 DEF Noted
<1>8. Working => run.b \in Builders
    BY DEF BuilderInv, RunOK
<1> QED
    BY <1>2, <1>5, <1>6, <1>7, <1>8 DEF Remembered, NobodyIsForgotten, Noted, At, Working

LEMMA GetRemembers ==
    ASSUME BuilderInv, Remembered, NEW b \in Builders, Get(b) PROVE Remembered'
<1>0. /\ run.b = None /\ None \notin Builders /\ ~At("down")
      /\ \A c \in Builders : Noted(c)
    BY RememberedMeans, BuilderAssumption DEF Get, At, Working
<1>1. /\ builder' = builder /\ builderFresh' = builderFresh
      /\ \A c \in Builders : c # b /\ c \in queue => c \in queue'
      /\ \/ run' = Idle /\ (builderCache[b].exists => Route(builderCache[b]) = "idle")
         \/ run'.b = b /\ run'.fresh = builderFresh[b]
    BY GetRuns DEF builderVars, Get
<1>2. \A c \in Builders : c # b => Noted(c)'
    BY <1>0, <1>1 DEF Noted
<1>3. CASE run' = Idle /\ (builderCache[b].exists => Route(builderCache[b]) = "idle")
    <2>1. builderFresh[b] => ~builder[b].exists
        <3>1. builderFresh[b] => builderCache[b] = builder[b]
            BY DEF BuilderInv, BuilderOK
        <3>2. /\ builder[b].deleting => builder[b].finalizer
              /\ builder[b].deleting \in BOOLEAN /\ builder[b].finalizer \in BOOLEAN
            BY DEF BuilderInv, BuilderOK, BuilderObject
        <3>3. Route(builder[b]) # "idle"
            BY <3>2 DEF Route
        <3> QED
            BY <1>3, <3>1, <3>3
    <2>2. Noted(b)'
        BY <1>1, <2>1 DEF Noted
    <2>3. ~Working' /\ run'.b = None
        BY <1>3 DEF Working, Idle
    <2>4. \A c \in Builders : Noted(c)'
        BY <1>2, <2>2
    <2> QED
        BY <2>3, <2>4 DEF Remembered, NobodyIsForgotten, Noted
<1>4. CASE run'.b = b /\ run'.fresh = builderFresh[b] /\ run' # Idle
    <2>1. Noted(b)'
        BY <1>4 DEF Noted
    <2>2. \A c \in Builders : Noted(c)'
        BY <1>2, <2>1
    <2>3. Working'
        <3>1. run'.pc = Route(builderCache[b]) /\ Route(builderCache[b]) # "idle"
            BY <1>4 DEF Get, Idle
        <3> QED
            BY <3>1 DEF Working, Route
    <2> QED
        BY <1>1, <1>4, <2>2, <2>3 DEF Remembered, NobodyIsForgotten, Noted
<1>5. Idle.b # b
    BY <1>0 DEF Idle
<1> QED
    BY <1>1, <1>3, <1>4, <1>5

LEMMA NextRemembers ==
    ASSUME BuilderInv, Remembered, [Next]_vars PROVE Remembered'
<1>1. CASE UNCHANGED <<builder, builderFresh, queue, run>>
    BY <1>1 DEF Remembered, NobodyIsForgotten, Settled, Working, At
<1>2. CASE BuilderUser
    BY <1>2, UserAsks, AsksRemember DEF BuilderInv
<1>3. CASE DeployerWriter
    <2>1. run'.pc = run.pc /\ run'.b = run.b /\ run'.fresh = run.fresh
        BY <1>3, WritersKeepRun
    <2>2. UNCHANGED <<builder, builderFresh, queue>>
        BY <1>3 DEF DeployerWriter, DeployerMovesOn, DeployerReports, WriteDeployer, builderVars
    <2> QED
        BY <2>1, <2>2 DEF Remembered, NobodyIsForgotten, Settled, Working, At
<1>4. ASSUME NEW b \in Builders, SyncBuilder(b) PROVE Remembered'
    <2>1. /\ UNCHANGED <<builder, run>> /\ queue' = queue \cup {b}
          /\ \A c \in Builders : c # b => builderFresh'[c] = builderFresh[c]
        BY <1>4 DEF SyncBuilder, BuilderInv, BuilderOK
    <2>2. Working => run.b \in Builders
        BY DEF BuilderInv, RunOK
    <2> QED
        BY <2>1, <2>2 DEF Remembered, NobodyIsForgotten, Settled, Working, At
<1>5. ASSUME NEW b \in Builders, Resync(b) PROVE Remembered'
    <2>1. UNCHANGED <<builder, builderFresh, run>> /\ queue' = queue \cup {b}
        BY <1>5 DEF Resync, builderVars
    <2> QED
        BY <2>1 DEF Remembered, NobodyIsForgotten, Settled, Working, At
<1>6. CASE Crash
    <2>1. run' = Down
        BY <1>6 DEF Crash
    <2> QED
        BY <2>1 DEF Remembered, NobodyIsForgotten, Working, At, Down, Idle
<1>7. CASE Start
    <2>1. run' = Idle /\ \A b \in Builders : builder'[b].exists => b \in queue'
        BY <1>7 DEF Start
    <2> QED
        BY <2>1 DEF Remembered, NobodyIsForgotten, Working, At, Idle
<1>8. \/ \E b \in Builders : Get(b) \/ SyncBuilder(b) \/ Resync(b)
      \/ BuilderController \/ BuilderUser \/ DeployerWriter \/ Crash \/ Start
      \/ UNCHANGED <<builder, builderFresh, queue, run>>
    BY DEF Next, SyncJobs, CollectGarbage, MovePod, OrphanEnds, SyncDeployer, vars, builderVars
<1> QED
    BY <1>1, <1>2, <1>3, <1>4, <1>5, <1>6, <1>7, <1>8, GetRemembers, ControllerRemembers

\* While the manager runs, no builder whose status is not final is forgotten: a
\* conflict that is only logged, or a status that is not written, leaves the
\* key in the queue or an event on its way.
THEOREM NobodyForgotten == Spec => []NobodyIsForgotten
<1>1. Init => Remembered
    BY AbsentBuilderType DEF Init, Remembered, NobodyIsForgotten, Working, Idle
<1>2. Remembered => NobodyIsForgotten
    BY DEF Remembered
<1> QED
    BY <1>1, <1>2, NextRemembers, BuilderInvariant, PTL DEF Spec

-----------------------------------------------------------------------------
(* A triggered image has been pushed. *)

\* Nothing is taken out of the registry.
LEMMA PushedGrows ==
    ASSUME [Next]_vars PROVE pushed \subseteq pushed'
BY DEF Next, vars, jobVars, Get, BuilderController, Conflict, AddFinalizer, DropFinalizer, Undo,
       Cleanup, Save, HandleMissing, DeleteDockerfile, CreateDockerfile, CreateJob, HandleFails,
       HandleWatch, HookGet, HookUpdate, HookFails, Publish, BuilderUser, CreateBuilder,
       EditBuilder, DeleteBuilder, WriteFromOutside, DeployerWriter, DeployerMovesOn,
       DeployerReports, WriteDeployer, SyncBuilder, SyncJobs, Resync, CollectGarbage, MovePod,
       OrphanEnds,
       SyncDeployer, Crash, Start

LEMMA StaysPushed ==
    ASSUME pushed \subseteq pushed', NEW r, IsPushed(r) PROVE IsPushed(r)'
BY DEF IsPushed

\* The jobs of one builder are replaced by jobs that have the image of their
\* round, pushed if they have succeeded.
LEMMA SetJobsPushed ==
    ASSUME JobsOK, JobsPushed, NEW b \in Builders, NEW new \in [RoundNumbers -> Job],
           SetJobs(b, new), pushed \subseteq pushed',
           \A r \in RoundNumbers :
               /\ new[r].state # "none" =>
                      \A s \in BuilderSpecs : s.round = r => s.destination = new[r].image
               /\ new[r].state = "Succeeded" => IsPushed(r)'
    PROVE  JobsPushed'
<1> SUFFICES ASSUME NEW c \in Builders, NEW r \in RoundNumbers
             PROVE  /\ jobs'[c][r].state # "none" =>
                           \A s \in BuilderSpecs : s.round = r => s.destination = jobs'[c][r].image
                    /\ jobs'[c][r].state = "Succeeded" => IsPushed(r)'
                    /\ jobsCache'[c][r] = "Succeeded" => IsPushed(r)'
    BY DEF JobsPushed
<1>1. /\ jobs'[b] = new
      /\ c # b => jobs'[c] = jobs[c]
    BY DEF JobsOK, SetJobs
<1>2. \/ jobsCache'[c][r] = jobsCache[c][r]
      \/ c = b /\ jobsCache'[c][r] = new[r].state
    BY DEF JobsOK, SetJobs
<1> QED
    BY <1>1, <1>2, StaysPushed DEF JobsPushed

LEMMA JobSetPushed ==
    ASSUME JobsOK, JobsPushed, NEW b \in Builders, NEW r \in RoundNumbers, NEW job \in Job,
           SetJobs(b, [jobs[b] EXCEPT ![r] = job]), pushed \subseteq pushed',
           job.state # "none" =>
               \A s \in BuilderSpecs : s.round = r => s.destination = job.image,
           job.state = "Succeeded" => IsPushed(r)'
    PROVE  JobsPushed'
<1> DEFINE new == [jobs[b] EXCEPT ![r] = job]
<1>1. jobs[b] \in [RoundNumbers -> Job]
    BY DEF JobsOK
<1>2. /\ new \in [RoundNumbers -> Job]
      /\ \A q \in RoundNumbers : new[q] = IF q = r THEN job ELSE jobs[b][q]
    BY <1>1
<1>3. SetJobs(b, new)
    OBVIOUS
<1> HIDE DEF new
<1>4. \A q \in RoundNumbers :
          /\ new[q].state # "none" =>
                 \A s \in BuilderSpecs : s.round = q => s.destination = new[q].image
          /\ new[q].state = "Succeeded" => IsPushed(q)'
    BY <1>2, StaysPushed DEF JobsPushed
<1> QED
    BY <1>2, <1>3, <1>4, SetJobsPushed

LEMMA ControllerKeepsJobsPushed ==
    ASSUME OneDestination, BuilderInv, JobsPushed, BuilderController PROVE JobsPushed'
<1>0. JobsOK /\ (Working => run.b \in Builders /\ run.copy.spec \in BuilderSpecs)
    BY DEF BuilderInv, RunOK
<1>1. CASE UNCHANGED jobVars
    BY <1>1 DEF JobsPushed, IsPushed, jobVars
<1>2. CASE Cleanup
    <2>1. Working /\ UNCHANGED pushed
        BY <1>2 DEF Cleanup, At, Working
    <2>2. \/ UNCHANGED jobVars
          \/ /\ jobs[run.b][run.copy.currentRound].state # "none"
             /\ SetJobs(run.b, [jobs[run.b] EXCEPT ![run.copy.currentRound] = NoJob])
        BY <1>2 DEF Cleanup, DeleteJob, jobVars
    <2>3. CASE SetJobs(run.b, [jobs[run.b] EXCEPT ![run.copy.currentRound] = NoJob])
        <3> DEFINE new == [jobs[run.b] EXCEPT ![run.copy.currentRound] = NoJob]
        <3>1. jobs[run.b] \in [RoundNumbers -> Job] /\ run.b \in Builders
            BY <1>0, <2>1 DEF JobsOK
        <3>2. /\ new \in [RoundNumbers -> Job]
              /\ \A q \in RoundNumbers : new[q] = NoJob \/ new[q] = jobs[run.b][q]
            BY <3>1, NoJobType
        <3>3. SetJobs(run.b, new)
            BY <2>3
        <3> HIDE DEF new
        <3>4. \A q \in RoundNumbers :
                  /\ new[q].state # "none" =>
                         \A s \in BuilderSpecs : s.round = q => s.destination = new[q].image
                  /\ new[q].state = "Succeeded" => IsPushed(q)'
            BY <2>1, <3>1, <3>2, NoJobType, StaysPushed DEF JobsPushed
        <3> QED
            BY <1>0, <2>1, <3>1, <3>2, <3>3, <3>4, SetJobsPushed
    <2> QED
        BY <1>1, <2>2, <2>3
<1>3. CASE DeleteDockerfile
    <2>1. Working /\ UNCHANGED pushed /\ SetJobs(run.b, Lose(run.b))
        BY <1>3 DEF DeleteDockerfile, At, Working
    <2>2. /\ run.b \in Builders /\ Lose(run.b) \in [RoundNumbers -> Job]
          /\ \A r \in RoundNumbers : /\ Lose(run.b)[r].state = jobs[run.b][r].state
                                     /\ Lose(run.b)[r].image = jobs[run.b][r].image
        BY <1>0, <2>1, LoseType
    <2>3. \A r \in RoundNumbers :
              /\ Lose(run.b)[r].state # "none" =>
                     \A s \in BuilderSpecs : s.round = r => s.destination = Lose(run.b)[r].image
              /\ Lose(run.b)[r].state = "Succeeded" => IsPushed(r)'
        BY <2>1, <2>2, StaysPushed DEF JobsPushed
    <2> QED
        BY <1>0, <2>1, <2>2, <2>3, SetJobsPushed
<1>4. CASE CreateDockerfile
    BY <1>4 DEF CreateDockerfile, JobsPushed, IsPushed
<1>5. CASE CreateJob
    <2> DEFINE r == run.copy.spec.round
               job == [state |-> "nopod", image |-> run.copy.spec.destination,
                       dockerfile |-> IF ~run.copy.spec.raw THEN "own"
                                      ELSE IF dockerfile[run.b] THEN "mounted" ELSE "lost"]
    <2>1. Working /\ UNCHANGED <<dockerfile, pushed>>
        BY <1>5 DEF CreateJob, At, Working
    <2>2. run.copy.spec.destination \in Images /\ r \in RoundNumbers /\ run.b \in Builders
        BY <1>0, <2>1, SpecFields
    <2>3. job \in Job /\ job.state = "nopod" /\ job.image = run.copy.spec.destination
        BY <2>2 DEF Job, PodStates
    <2>4. \A s \in BuilderSpecs : s.round = r => s.destination = run.copy.spec.destination
        BY <1>0, <2>1 DEF OneDestination
    <2>5. \/ UNCHANGED jobVars
          \/ SetJobs(run.b, [jobs[run.b] EXCEPT ![r] = job])
        BY <1>5 DEF CreateJob, jobVars
    <2> HIDE DEF job, r
    <2> QED
        BY <1>0, <1>1, <2>1, <2>2, <2>3, <2>4, <2>5, JobSetPushed
<1> QED
    BY <1>1, <1>2, <1>3, <1>4, <1>5
    DEF BuilderController, Conflict, AddFinalizer, DropFinalizer, Undo, Save, HandleMissing,
        HandleFails, HandleWatch, HookGet, HookUpdate, HookFails, Publish

LEMMA NextKeepsJobsPushed ==
    ASSUME OneDestination, BuilderInv, JobsPushed, Next PROVE JobsPushed'
<1>0. JobsOK /\ pushed \subseteq pushed'
    BY PushedGrows DEF BuilderInv
<1>1. CASE UNCHANGED jobVars
    BY <1>1 DEF JobsPushed, IsPushed, jobVars
<1>2. ASSUME NEW b \in Builders, SyncJobs(b) PROVE JobsPushed'
    BY <1>0, <1>2 DEF SyncJobs, JobsPushed, IsPushed, States, JobsOK
<1>3. ASSUME NEW b \in Builders, CollectGarbage(b) PROVE JobsPushed'
    <2>1. SetJobs(b, NoJobs)
        BY <1>3 DEF CollectGarbage
    <2> QED
        BY <1>0, <2>1, NoJobsType, NoJobType, SetJobsPushed
<1>4. ASSUME NEW b \in Builders, NEW r \in RoundNumbers, MovePod(b, r) PROVE JobsPushed'
    <2>1. PICK state \in PodStates \ {"none", "nopod"}, moved \in Job :
              /\ moved = [jobs[b][r] EXCEPT !.state = state]
              /\ jobs[b][r].state # "none"
              /\ state = "Running" => jobs[b][r].dockerfile # "lost"
              /\ state = "Pending" => jobs[b][r].state = "nopod"
              /\ moved.state = state /\ moved.image = jobs[b][r].image
              /\ moved.dockerfile = jobs[b][r].dockerfile
              /\ SetJobs(b, [jobs[b] EXCEPT ![r].state = state])
              /\ \A s \in RoundNumbers : jobs'[b][s] = IF s = r THEN moved ELSE jobs[b][s]
              /\ pushed' = IF state = "Succeeded" THEN pushed \cup {jobs[b][r].image}
                                                  ELSE pushed
        BY <1>0, <1>4, MovePodMoves
    <2>2. jobs[b] \in [RoundNumbers -> Job] /\ jobs[b][r] \in Job
        BY <1>0 DEF JobsOK
    <2>3. moved \in Job /\ moved.state = state /\ moved.image = jobs[b][r].image
        BY <2>1
    <2>4. [jobs[b] EXCEPT ![r].state = state] = [jobs[b] EXCEPT ![r] = moved]
        BY <2>1, <2>2
    <2>5. SetJobs(b, [jobs[b] EXCEPT ![r] = moved])
        BY <2>1, <2>4
    <2>6. \A s \in BuilderSpecs : s.round = r => s.destination = moved.image
        BY <2>1, <2>3 DEF JobsPushed
    <2>7. moved.state = "Succeeded" => IsPushed(r)'
        BY <2>1, <2>3, <2>6 DEF IsPushed
    <2> QED
        BY <1>0, <2>3, <2>5, <2>6, <2>7, JobSetPushed
<1>5. CASE Start
    BY <1>0, <1>5 DEF Start, JobsPushed, IsPushed, States, JobsOK
<1>6. ASSUME NEW b \in Builders, NEW image \in Images, OrphanEnds(b, image) PROVE JobsPushed'
    BY <1>0, <1>6, StaysPushed DEF OrphanEnds, JobsPushed
<1> QED
    BY <1>1, <1>2, <1>3, <1>4, <1>5, <1>6, JobWriters, ControllerKeepsJobsPushed

\* The hooks run once the job is seen to have succeeded.
LEMMA ControllerKeepsHooks ==
    ASSUME BuilderInv, PushedInv, BuilderController
    PROVE  /\ run'.pc \in Hooking => run'.copy.spec.destination \in pushed'
           /\ run'.pc = "hookUpdate" => run'.target.exists
<1>0. run \in RunType /\ run.copy \in BuilderObject
    BY DEF BuilderInv, RunOK, RunType
<1>1. CASE HandleWatch
    <2>1. CASE run' = [run EXCEPT !.pc = "hookGet", !.hook = 1] /\ SeenPhase = "Done"
        <3>1. /\ run.b \in Builders /\ run.copy.spec \in BuilderSpecs
              /\ run.copy.spec.round \in RoundNumbers
            BY <1>1, SpecFields DEF HandleWatch, At, BuilderInv, RunOK, Working
        <3>2. jobsCache[run.b][run.copy.spec.round] \in PodStates
            BY <3>1 DEF BuilderInv, JobsOK
        <3>3. jobsCache[run.b][run.copy.spec.round] = "Succeeded"
            BY <2>1, <3>2 DEF SeenPhase, PhaseOfPod, PodStates
        <3>4. run.copy.spec.destination \in pushed
            BY <3>1, <3>3 DEF PushedInv, JobsPushed, IsPushed
        <3>5. pushed' = pushed
            BY <1>1 DEF HandleWatch, jobVars
        <3>6. run'.copy = run.copy /\ run'.pc = "hookGet"
            BY <1>0, <2>1 DEF RunType
        <3> QED
            BY <3>4, <3>5, <3>6
    <2>2. CASE \E copy : Goto("publish", copy)
        BY <1>0, <2>2 DEF Goto, RunType, Hooking
    <2> QED
        BY <1>1, <2>1, <2>2 DEF HandleWatch
<1>2. CASE run.pc \in Hooking /\ run' = AfterHook /\ UNCHANGED <<builder, pushed>>
    <2>1. run'.pc = "publish" \/ (run'.pc = "hookGet" /\ run'.copy = run.copy)
        BY <1>2, AfterHookType
    <2> QED
        BY <1>2, <2>1 DEF PushedInv, Hooking
<1>3. CASE HookGet /\ run' # AfterHook
    <2>1. /\ run.pc = "hookGet" /\ UNCHANGED pushed /\ deployerCache[TheHook.deployer].exists
          /\ run' = [run EXCEPT !.pc = "hookUpdate", !.target = deployerCache[TheHook.deployer],
                                !.targetFresh = deployerFresh[TheHook.deployer]]
        BY <1>3 DEF HookGet, At, jobVars
    <2>2. run'.copy = run.copy /\ run'.target = deployerCache[TheHook.deployer]
        BY <1>0, <2>1 DEF RunType
    <2> QED
        BY <2>1, <2>2 DEF PushedInv, Hooking
<1>4. CASE HookFails \/ DeleteDockerfile
    BY <1>0, <1>4 DEF HookFails, DeleteDockerfile, RunType, At, Hooking
<1>5. CASE HookGet \/ HookUpdate
    BY <1>2, <1>3, <1>5 DEF HookGet, HookUpdate, At, Hooking, builderVars, jobVars
<1>6. CASE \/ Conflict \/ DropFinalizer \/ Undo \/ Save \/ HandleFails \/ Publish
           \/ Cleanup /\ run' = Idle
    <2>1. run' = Idle
        BY <1>6 DEF Conflict, DropFinalizer, Undo, Save, HandleFails, Publish, Return
    <2> QED
        BY <2>1, IdleType DEF Hooking
<1>7. ASSUME NEW pc \in {"dockerfile", "create", "publish", "save"}, NEW copy, Goto(pc, copy)
      PROVE  run'.pc \notin Hooking
    BY <1>0, <1>7 DEF Goto, RunType, Hooking
<1>8. CASE HandleMissing \/ CreateDockerfile \/ CreateJob \/ (Cleanup /\ run' # Idle)
    <2>1. \E pc \in {"dockerfile", "create", "publish", "save"} : \E copy : Goto(pc, copy)
        BY <1>8 DEF HandleMissing, CreateDockerfile, CreateJob, Cleanup, Return
    <2> QED
        BY <1>7, <2>1 DEF Hooking
<1>9. CASE AddFinalizer
    <2>1. PICK copy : Goto(Route(copy), copy)
        BY <1>9 DEF AddFinalizer
    <2> QED
        BY <1>0, <2>1 DEF Goto, RunType, Hooking, Route
<1> QED
    BY <1>1, <1>4, <1>5, <1>6, <1>8, <1>9 DEF BuilderController

LEMMA RunKeepsHooks ==
    ASSUME BuilderInv, PushedInv, Next
    PROVE  /\ run'.pc \in Hooking => run'.copy.spec.destination \in pushed'
           /\ run'.pc = "hookUpdate" => run'.target.exists
<1>0. pushed \subseteq pushed' /\ run \in RunType
    BY PushedGrows DEF BuilderInv, RunOK
<1>1. ASSUME run'.pc = run.pc, run'.copy = run.copy, run'.target = run.target
      PROVE  /\ run'.pc \in Hooking => run'.copy.spec.destination \in pushed'
             /\ run'.pc = "hookUpdate" => run'.target.exists
    BY <1>0, <1>1 DEF PushedInv
<1>2. CASE run' = run \/ run' = [run EXCEPT !.fresh = FALSE]
           \/ run' = [run EXCEPT !.targetFresh = FALSE]
    BY <1>0, <1>1, <1>2 DEF RunType
<1>3. CASE BuilderUser \/ DeployerWriter
    BY <1>2, <1>3 DEF BuilderUser, CreateBuilder, EditBuilder, DeleteBuilder, WriteFromOutside,
                      DeployerWriter, DeployerMovesOn, DeployerReports, WriteDeployer
<1>4. ASSUME NEW b \in Builders, Get(b) PROVE run'.pc \notin Hooking
    BY <1>4, GetRuns, IdleType DEF Hooking
<1>5. CASE Crash \/ Start
    BY <1>5, IdleType, DownType DEF Crash, Start, Hooking
<1>6. \/ BuilderController \/ BuilderUser \/ DeployerWriter \/ Crash \/ Start
      \/ run' = run
      \/ \E b \in Builders : Get(b)
    BY DEF Next, SyncBuilder, SyncJobs, Resync, CollectGarbage, MovePod, OrphanEnds, SyncDeployer
<1> QED
    BY <1>2, <1>3, <1>4, <1>5, <1>6, ControllerKeepsHooks DEF Hooking

\* What a step does to the images of the deployers.
LEMMA ImagesArePushed ==
    ASSUME HooksHandOver, BuilderInv, PushedInv, Next, NEW d \in Deployers
    PROVE  /\ deployer'[d].exists /\ deployer'[d].image # deployer[d].image
                  => deployer'[d].image \in pushed
           /\ ~deployer'[d].exists => deployer'[d].image = None
<1>0. /\ deployer \in [Deployers -> DeployerObject]
      /\ ~deployer[d].exists => deployer[d].image = None
    BY DEF PushedInv, BuilderInv, DeployersOK
<1>1. CASE UNCHANGED deployer
    BY <1>0, <1>1
<1>2. ASSUME NEW c \in Deployers, NEW new, StoreDeployer(c, new),
             new.exists /\ new.image # deployer[c].image => new.image \in pushed,
             ~new.exists => new.image = None
      PROVE  /\ deployer'[d].exists /\ deployer'[d].image # deployer[d].image
                    => deployer'[d].image \in pushed
             /\ ~deployer'[d].exists => deployer'[d].image = None
    <2>1. deployer'[c] = new /\ (c # d => deployer'[d] = deployer[d])
        BY <1>0, <1>2 DEF StoreDeployer
    <2> QED
        BY <1>0, <1>2, <2>1
<1>3. CASE HookUpdate
    <2> DEFINE new == Triggered(TheHook, run.copy, run.target)
    <2>1. /\ run.pc = "hookUpdate" /\ run.pc \in Hooking /\ run.target.exists
          /\ run.target \in DeployerObject /\ run.copy.spec.destination \in pushed
        BY <1>3 DEF HookUpdate, At, Hooking, PushedInv, BuilderInv, RunOK, RunType
    <2>2. /\ TheHook \in Hook /\ run.copy.spec \in BuilderSpecs
          /\ run.hook \in 1 .. Len(run.copy.spec.hooks)
        BY <2>1, TheHookType
    <2>3. TheHook.dynamicImage
        BY <2>2 DEF HooksHandOver, TheHook
    <2>4. new.image = run.copy.spec.destination
        BY <2>1, <2>2, <2>3, TriggeredType
    <2>5. new.exists = run.target.exists
        BY <2>1 DEF Triggered, DeployerObject
    <2>6. TheHook.deployer \in Deployers /\ StoreDeployer(TheHook.deployer, new)
        BY <1>3, HookUpdateStores
    <2> HIDE DEF new
    <2> QED
        BY <1>2, <2>1, <2>4, <2>5, <2>6
<1>4. CASE DeployerWriter
    <2>1. ASSUME NEW c \in Deployers, DeployerMovesOn(c)
          PROVE  \E new : /\ StoreDeployer(c, new)
                          /\ new.exists = deployer[c].exists /\ new.image = deployer[c].image
        <3> DEFINE new == [deployer[c] EXCEPT !.currentRound = deployer[c].round]
        <3>1. StoreDeployer(c, new)
            BY <2>1 DEF DeployerMovesOn, WriteDeployer
        <3>2. new.exists = deployer[c].exists /\ new.image = deployer[c].image
            BY <1>0 DEF DeployerObject
        <3> QED
            BY <3>1, <3>2
    <2>2. PICK c \in Deployers :
              \/ DeployerMovesOn(c)
              \/ StoreDeployer(c, deployer[c])
              \/ StoreDeployer(c, AbsentDeployer)
              \/ ~deployer[c].exists /\ StoreDeployer(c, NewDeployer)
        BY <1>4 DEF DeployerWriter, DeployerReports, WriteDeployer
    <2>3. ~deployer[c].exists => deployer[c].image = None
        BY DEF PushedInv
    <2>4. AbsentDeployer.exists = FALSE /\ AbsentDeployer.image = None /\ NewDeployer.exists = TRUE
             /\ NewDeployer.image = None
        BY DEF AbsentDeployer, NewDeployer
    <2> QED
        BY <1>2, <2>1, <2>2, <2>3, <2>4
<1>5. \/ UNCHANGED deployer \/ HookUpdate \/ DeployerWriter
    BY DeployerWriters DEF deployerVars, Start, SyncDeployer
<1> QED
    BY <1>1, <1>3, <1>4, <1>5

LEMMA InitJobsPushed == Init => JobsPushed
<1> SUFFICES ASSUME Init PROVE JobsPushed
    OBVIOUS
<1>1. \A b \in Builders : jobs[b] = NoJobs /\ jobsCache[b] = States(b)
    BY DEF Init
<1>2. \A b \in Builders, r \in RoundNumbers :
          jobs[b][r].state = "none" /\ jobsCache[b][r] = "none"
    <2>1. \A b \in Builders, r \in RoundNumbers : States(b)[r] = jobs[b][r].state
        BY DEF States
    <2>2. \A b \in Builders, r \in RoundNumbers : jobs[b][r].state = "none"
        BY <1>1, NoJobsType, NoJobType
    <2> QED
        BY <1>1, <2>1, <2>2
<1> QED
    BY <1>2 DEF JobsPushed

\* In an instance where each round has its destination and hooks hand over what
\* was built: a deployer is given an image only after the job that pushes it
\* has succeeded, however stale the copies of the builder, its jobs and the
\* deployer are, and wherever the manager stops.
THEOREM OnlyPushedImagesAreTriggered ==
    OneDestination /\ HooksHandOver /\ Spec => TriggeredImageIsPushed
<1>1. Init => PushedInv
    BY InitJobsPushed DEF Init, PushedInv, Idle, Hooking, AbsentDeployer, NewDeployer
<1>2. OneDestination /\ HooksHandOver /\ BuilderInv /\ PushedInv /\ [Next]_vars => PushedInv'
    <2>1. OneDestination /\ HooksHandOver /\ BuilderInv /\ PushedInv /\ Next => PushedInv'
        BY NextKeepsJobsPushed, RunKeepsHooks, ImagesArePushed DEF PushedInv
    <2>2. PushedInv /\ UNCHANGED vars => PushedInv'
        BY DEF PushedInv, JobsPushed, IsPushed, vars, jobVars, deployerVars
    <2> QED
        BY <2>1, <2>2
<1>3. OneDestination /\ HooksHandOver /\ BuilderInv /\ PushedInv /\ [Next]_vars =>
          [\A d \in Deployers :
               (deployer'[d].exists /\ deployer'[d].image # deployer[d].image)
                   => deployer'[d].image \in pushed]_vars
    BY ImagesArePushed
<1>4. OneDestination /\ HooksHandOver => (OneDestination /\ HooksHandOver)'
    BY DEF OneDestination, HooksHandOver
<1> QED
    BY <1>1, <1>2, <1>3, <1>4, BuilderInvariant, PTL DEF Spec, TriggeredImageIsPushed

-----------------------------------------------------------------------------
(* No job is left behind, as long as jobs are read as they are. *)

\* Where a step of the reconciler leads, and from where.
LEMMA ControllerGoes ==
    ASSUME BuilderInv, BuilderController
    PROVE  /\ run'.pc \notin {"addFinalizer", "dropFinalizer"}
           /\ run'.pc \in {"cleanup", "handle"} => AddFinalizer
           /\ run'.pc = "save" => Cleanup
           /\ run'.pc \in Building =>
                  \/ HandleMissing \/ CreateDockerfile
                  \/ DeleteDockerfile /\ run' = run
           /\ run'.pc \in Building =>
                  run.pc \in {"handle"} \cup Building /\ run'.copy.spec = run.copy.spec
<1>0. run \in RunType /\ run.copy \in BuilderObject
    BY DEF BuilderInv, RunOK, RunType
<1>1. CASE run' = Idle
    BY <1>1, IdleType DEF Building
<1>2. CASE AddFinalizer
    <2> DEFINE added == [run.copy EXCEPT !.finalizer = TRUE]
    <2>1. Goto(Route(added), added) /\ run.pc = "addFinalizer" /\ run.fresh
        BY <1>2 DEF AddFinalizer, At, Store
    <2>2. ~run.copy.deleting
        BY <2>1 DEF BuilderInv, RunOK, Agrees
    <2>3. added.finalizer = TRUE /\ added.deleting = run.copy.deleting
        BY <1>0, FinalizerSet
    <2> HIDE DEF added
    <2>4. Route(added) \in {"undo", "cleanup", "handle"}
        BY <2>2, <2>3 DEF Route
    <2>5. run'.pc = Route(added)
        BY <1>0, <2>1 DEF Goto, RunType
    <2> QED
        BY <1>2, <2>4, <2>5 DEF Building
<1>3. CASE Cleanup /\ run' # Idle
    <2>1. Goto("save", NextRound(run.copy))
        BY <1>3 DEF Cleanup, Return
    <2>2. run'.pc = "save"
        BY <1>0, <2>1 DEF Goto, RunType
    <2> QED
        BY <1>3, <2>2 DEF Building
<1>4. CASE HandleMissing
    <2> DEFINE pending == [run.copy EXCEPT !.phase = "Pending"]
    <2>1. /\ run.pc = "handle"
          /\ Goto(IF pending.spec.raw THEN "dockerfile" ELSE "create", pending)
        BY <1>4 DEF HandleMissing, At
    <2>2. pending.spec = run.copy.spec
        BY <1>0 DEF BuilderObject
    <2> HIDE DEF pending
    <2>3. run'.pc \in Building /\ run'.copy = pending
        BY <1>0, <2>1 DEF Goto, RunType, Building
    <2> QED
        BY <1>4, <2>1, <2>2, <2>3 DEF Building
<1>5. CASE CreateDockerfile
    <2>1. run.pc = "dockerfile" /\ Goto("create", run.copy)
        BY <1>5 DEF CreateDockerfile, At
    <2>2. run'.pc = "create" /\ run'.copy = run.copy
        BY <1>0, <2>1 DEF Goto, RunType
    <2> QED
        BY <1>5, <2>1, <2>2 DEF Building
<1>6. CASE DeleteDockerfile
    BY <1>6 DEF DeleteDockerfile, At, Building
<1>7. CASE HandleWatch \/ CreateJob \/ HookGet \/ HookUpdate \/ HookFails
    <2>1. CASE \E copy : Goto("publish", copy)
        BY <1>0, <2>1 DEF Goto, RunType, Building
    <2>2. CASE run' = [run EXCEPT !.pc = "hookGet", !.hook = 1]
        BY <1>0, <2>2 DEF RunType, Building
    <2>3. CASE run' = AfterHook
        BY <1>0, <2>3 DEF AfterHook, RunType, Building
    <2>4. CASE HookGet /\ run' # AfterHook
        BY <1>0, <2>4 DEF HookGet, RunType, Building
    <2>5. CASE HookFails
        BY <1>0, <2>5 DEF HookFails, RunType, Building
    <2> QED
        BY <1>7, <2>1, <2>2, <2>3, <2>4, <2>5 DEF HandleWatch, CreateJob, HookUpdate
<1> QED
    BY <1>1, <1>2, <1>3, <1>4, <1>5, <1>6, <1>7
    DEF BuilderController, Conflict, DropFinalizer, Undo, Save, HandleFails, Publish, Return

\* Where a write leaves the cache.
LEMMA StoreLeavesCache ==
    ASSUME BuilderOK, NEW b \in Builders, NEW new \in BuilderObject, StoreBuilder(b, new)
    PROVE  \A c \in Builders : \/ builderCache'[c] = builderCache[c]
                               \/ builderCache'[c] = builder'[c]
BY DEF StoreBuilder

LEMMA TellsKept ==
    ASSUME BuilderInv, Lineage, Next, NEW c \in Builders
    PROVE  Tells(builderCache'[c], builder'[c])
<1>0. BuilderOK /\ Tells(builderCache[c], builder[c])
    BY DEF BuilderInv, Lineage
<1>1. CASE builderCache'[c] = builder'[c]
    BY <1>1 DEF Tells
<1>2. CASE UNCHANGED builderVars
    BY <1>0, <1>2 DEF builderVars
<1>3. ASSUME NEW new \in BuilderObject, Writes(new), builderCache'[c] = builderCache[c]
      PROVE  Tells(builderCache'[c], builder'[c])
    <2>1. /\ run.b \in Builders /\ builder'[run.b] = new
          /\ \A e \in Builders : e # run.b => builder'[e] = builder[e]
        BY <1>3, WritesKeep
    <2>2. run.fresh /\ Agrees(run.pc, run.copy, builder[run.b])
        BY <1>3 DEF Writes, BuilderInv, RunOK
    <2>3. CASE c # run.b
        BY <1>0, <1>3, <2>1, <2>3
    <2>4. CASE c = run.b /\ run.pc = "dropFinalizer"
        BY <1>3, <2>2, <2>4 DEF Lineage, CacheBefore, Agrees, Tells
    <2>5. CASE c = run.b /\ run.pc = "addFinalizer"
        BY <1>3, <2>2, <2>5 DEF Lineage, CacheBefore, Tells
    <2>6. CASE c = run.b /\ Reports(new, builder[run.b])
        BY <1>0, <1>3, <2>1, <2>6 DEF Reports, Tells
    <2>7. CASE c = run.b /\ run.pc = "save" /\ MovesOn(new, builder[run.b])
        BY <1>3, <2>1, <2>2, <2>7 DEF Lineage, CacheBefore, MovesOn, Tells
    <2> QED
        BY <1>3, <2>3, <2>4, <2>5, <2>6, <2>7 DEF Writes
<1>4. ASSUME NEW b \in Builders, NEW new \in BuilderObject, Asks(b, new),
             builderCache'[c] = builderCache[c]
      PROVE  Tells(builderCache'[c], builder'[c])
    <2>1. /\ builder'[b] = new
          /\ \A e \in Builders : e # b => builder'[e] = builder[e]
        BY <1>0, <1>4, AsksKeep
    <2>2. CASE c # b
        BY <1>0, <1>4, <2>1, <2>2
    <2>3. CASE c = b
        BY <1>0, <1>4, <2>1, <2>3 DEF Asks, Tells
    <2> QED
        BY <2>2, <2>3
<1>5. ASSUME NEW b \in Builders, SyncBuilder(b)
      PROVE  UNCHANGED <<builder[c], builderCache[c]>> \/ builderCache'[c] = builder'[c]
    BY <1>0, <1>5 DEF SyncBuilder, BuilderOK
<1>6. CASE Start
    BY <1>1, <1>6 DEF Start
<1>7. ASSUME NEW b \in Builders, NEW new \in BuilderObject, StoreBuilder(b, new)
      PROVE  builderCache'[c] = builderCache[c] \/ builderCache'[c] = builder'[c]
    BY <1>0, <1>7, StoreLeavesCache
<1>8. ASSUME NEW new \in BuilderObject, Writes(new)
      PROVE  run.b \in Builders /\ StoreBuilder(run.b, new)
    BY <1>8, WritesKeep DEF Writes
<1>9. ASSUME NEW b \in Builders, NEW new \in BuilderObject, Asks(b, new) PROVE StoreBuilder(b, new)
    BY <1>9 DEF Asks, WriteFromOutside
<1> QED
    BY <1>0, <1>1, <1>2, <1>3, <1>4, <1>5, <1>6, <1>7, <1>8, <1>9, BuilderWriters

\* Whoever handles a round, handles that of the server's object: no one else
\* moves it on, or takes its finalizer.
LEMMA HandlingKept ==
    ASSUME BuilderInv, Lineage, Next, run'.pc \in {"handle"} \cup Building
    PROVE  /\ builder'[run'.b].exists /\ builder'[run'.b].finalizer
           /\ run'.copy.spec.round = builder'[run'.b].currentRound
<1>0. BuilderOK /\ RunOK'
    BY NextKeepsRun DEF BuilderInv
<1>1. CASE run'.fresh
    BY <1>0, <1>1 DEF RunOK, Agrees, Building, Hooking
<1>2. ASSUME ~run'.fresh, BuilderController
      PROVE  /\ builder'[run'.b].exists /\ builder'[run'.b].finalizer
             /\ run'.copy.spec.round = builder'[run'.b].currentRound
    <2>1. run'.b = run.b /\ run'.fresh = run.fresh
        <3>1. Working'
            BY DEF Working, Building
        <3>2. run' # Idle
            BY <3>1 DEF Working, Idle
        <3> QED
            BY <1>2, <3>2, ControllerEnds
    <2>2. /\ run.pc \in {"handle"} \cup Building
          /\ run'.copy.spec = run.copy.spec
        BY <1>2, <2>1, ControllerGoes DEF AddFinalizer, Store
    <2>3. UNCHANGED builder
        BY <1>2, <2>1, ControllerWrites DEF Writes, builderVars
    <2> QED
        BY <2>1, <2>2, <2>3 DEF Lineage
<1>3. ASSUME NEW b \in Builders, NEW new \in BuilderObject, Asks(b, new)
      PROVE  /\ builder'[run'.b].exists /\ builder'[run'.b].finalizer
             /\ run'.copy.spec.round = builder'[run'.b].currentRound
    <2>1. run'.pc = run.pc /\ run'.b = run.b /\ run'.copy = run.copy
        BY <1>3, AsksKeepRun
    <2>2. /\ builder'[b] = new
          /\ \A c \in Builders : c # b => builder'[c] = builder[c]
        BY <1>0, <1>3, AsksKeep
    <2>3. /\ run.b \in Builders /\ builder[run.b].exists /\ builder[run.b].finalizer
          /\ run.copy.spec.round = builder[run.b].currentRound
        BY <2>1 DEF Lineage, BuilderInv, RunOK, Working, Building
    <2>4. CASE b # run.b
        BY <2>1, <2>2, <2>3, <2>4
    <2>5. CASE b = run.b
        <3>1. builder[b].exists /\ builder[b].finalizer
            BY <2>3, <2>5
        <3>2. new.exists /\ new.finalizer /\ new.currentRound = builder[b].currentRound
            BY <1>3, <3>1 DEF Asks
        <3> QED
            BY <2>1, <2>2, <2>3, <2>5, <3>2
    <2> QED
        BY <2>4, <2>5
<1>4. ASSUME NEW b \in Builders, Get(b)
      PROVE  /\ builder'[run'.b].exists /\ builder'[run'.b].finalizer
             /\ run'.copy.spec.round = builder'[run'.b].currentRound
    <2>1. run'.pc = "handle" /\ run' # Idle
        BY <1>4, GetRuns, IdleType, RouteAgrees DEF Building, Route
    <2>2. /\ run'.b = b /\ run'.copy = builderCache[b] /\ UNCHANGED builder
          /\ builderCache[b].exists /\ Route(builderCache[b]) = "handle"
        BY <1>4, <2>1, GetRuns DEF builderVars
    <2>3. builderCache[b] \in BuilderObject /\ builderCache[b].spec \in BuilderSpecs
        BY <1>0, <2>2 DEF BuilderOK
    <2>4. /\ builderCache[b].finalizer /\ ~builderCache[b].deleting
          /\ builderCache[b].spec.round = builderCache[b].currentRound
        BY <2>2, <2>3, SpecFields, RoundsAreInt DEF Route, BuilderObject
    <2>5. Tells(builderCache[b], builder[b])
        BY DEF Lineage
    <2>6. builderCache[b].currentRound \in Int
        BY <2>3, RoundsAreInt DEF BuilderObject
    <2> QED
        BY <2>2, <2>4, <2>5, <2>6 DEF Tells
<1>5. CASE UNCHANGED <<run.pc, run.b, run.copy, builder>>
    BY <1>5 DEF Lineage
<1>6. CASE DeployerWriter
    <2>1. UNCHANGED builder
        BY <1>6 DEF DeployerWriter, DeployerMovesOn, DeployerReports, WriteDeployer, builderVars
    <2> QED
        BY <1>5, <1>6, <2>1, WritersKeepRun
<1>7. ~Crash /\ ~Start
    BY IdleType, DownType DEF Crash, Start, Building
<1>8. \/ BuilderController \/ BuilderUser \/ DeployerWriter \/ Crash \/ Start
      \/ UNCHANGED <<run, builder>>
      \/ \E b \in Builders : Get(b)
    BY DEF Next, SyncBuilder, SyncJobs, Resync, CollectGarbage, MovePod,
           OrphanEnds, SyncDeployer, builderVars
<1> QED
    BY <1>0, <1>1, <1>2, <1>3, <1>4, <1>5, <1>6, <1>7, <1>8, UserAsks

LEMMA CacheBeforeKept ==
    ASSUME BuilderInv, Lineage, Next, run'.fresh PROVE CacheBefore'
<1>0. BuilderOK /\ Working' /\ run'.b \in Builders /\ Agrees(run'.pc, run'.copy, builder'[run'.b])
    BY NextKeepsRun DEF BuilderInv, RunOK
<1>1. CASE builderCache'[run'.b] = builder'[run'.b]
    BY <1>0, <1>1 DEF CacheBefore, Agrees
<1>2. CASE /\ UNCHANGED <<run.pc, run.b, builder[run.b], builderCache[run.b]>>
           /\ run.fresh
    BY <1>2 DEF Lineage, CacheBefore
<1>3. CASE BuilderController
    <2>1. run' # Idle /\ run'.b = run.b /\ run.fresh
        <3>1. run' # Idle
            BY <1>0, IdleType DEF Working
        <3> QED
            BY <1>3, <3>1, ControllerEnds
    <2>2. CASE AddFinalizer
        <3>1. /\ run.pc = "addFinalizer" /\ \E new : StoreBuilder(run.b, new)
            BY <2>2 DEF AddFinalizer, At, Store
        <3>2. ~builderCache[run.b].finalizer
            BY <2>1, <3>1 DEF Lineage, CacheBefore
        <3>3. UNCHANGED builderCache \/ builderCache' = builder'
            BY <3>1 DEF StoreBuilder
        <3>4. run'.pc \notin {"addFinalizer", "dropFinalizer"}
            BY <1>3, ControllerGoes
        <3> QED
            BY <1>1, <2>1, <3>2, <3>3, <3>4 DEF CacheBefore
    <2>3. CASE Cleanup
        <3>1. run.pc = "cleanup" /\ UNCHANGED <<builder, builderCache>>
            BY <2>3 DEF Cleanup, At, builderVars
        <3>2. run'.pc \notin {"addFinalizer", "dropFinalizer"}
            BY <1>3, ControllerGoes
        <3> QED
            BY <2>1, <3>1, <3>2 DEF Lineage, CacheBefore
    <2>4. CASE ~AddFinalizer /\ ~Cleanup
        BY <1>3, <2>4, ControllerGoes DEF CacheBefore
    <2> QED
        BY <2>2, <2>3, <2>4
<1>4. ASSUME NEW b \in Builders, NEW new \in BuilderObject, Asks(b, new) PROVE CacheBefore'
    <2>1. /\ run'.pc = run.pc /\ run'.b = run.b
          /\ run.fresh /\ builder'[run.b] = builder[run.b]
        BY <1>4, AsksKeepRun
    <2>2. \/ builderCache'[run.b] = builderCache[run.b]
          \/ builderCache'[run.b] = builder'[run.b]
        BY <1>0, <1>4, <2>1, StoreLeavesCache DEF Asks, WriteFromOutside
    <2> QED
        BY <1>1, <1>2, <2>1, <2>2
<1>5. ASSUME NEW b \in Builders, Get(b) PROVE CacheBefore'
    <2>1. run'.b = b /\ run'.fresh = builderFresh[b] /\ UNCHANGED <<builder, builderCache>>
        <3>1. run' # Idle
            BY <1>0, IdleType DEF Working
        <3> QED
            BY <1>5, <3>1, GetRuns DEF builderVars
    <2>2. builderCache[b] = builder[b]
        BY <1>0, <2>1 DEF BuilderOK
    <2> QED
        BY <1>1, <2>1, <2>2
<1>6. ASSUME NEW b \in Builders, SyncBuilder(b) PROVE CacheBefore'
    <2>1. run' = run /\ builder' = builder
          /\ (builderCache'[run.b] = builderCache[run.b] \/ builderCache'[run.b] = builder'[run.b])
        BY <1>0, <1>6 DEF SyncBuilder, BuilderOK
    <2> QED
        BY <1>1, <1>2, <2>1
<1>7. CASE DeployerWriter
    <2>1. UNCHANGED <<builder, builderCache>>
        BY <1>7 DEF DeployerWriter, DeployerMovesOn, DeployerReports, WriteDeployer, builderVars
    <2> QED
        BY <1>2, <1>7, <2>1, WritersKeepRun
<1>8. ~Crash /\ ~Start
    BY <1>0 DEF Crash, Start, Working, Idle, Down
<1>9. \/ BuilderController \/ BuilderUser \/ DeployerWriter \/ Crash \/ Start
      \/ UNCHANGED <<run, builder, builderCache>>
      \/ \E b \in Builders : Get(b) \/ SyncBuilder(b)
    BY DEF Next, SyncJobs, Resync, CollectGarbage, MovePod, OrphanEnds, SyncDeployer, builderVars
<1> QED
    BY <1>0, <1>2, <1>3, <1>4, <1>5, <1>6, <1>7, <1>8, <1>9, UserAsks

LEMMA LineageKept == BuilderInv /\ Lineage /\ [Next]_vars => Lineage'
<1>1. BuilderInv /\ Lineage /\ Next => Lineage'
    <2> SUFFICES ASSUME BuilderInv, Lineage, Next PROVE Lineage'
        OBVIOUS
    <2>1. CacheBefore'
        <3>1. CASE ~run'.fresh
            BY <3>1 DEF CacheBefore
        <3> QED
            BY <3>1, CacheBeforeKept
    <2> QED
        BY <2>1, TellsKept, HandlingKept DEF Lineage
<1>2. Lineage /\ UNCHANGED vars => Lineage'
    BY DEF Lineage, CacheBefore, Tells, vars, builderVars
<1> QED
    BY <1>1, <1>2

LEMMA SetJobsSeen ==
    ASSUME ~JobsLag, JobsOK, JobsSeen, NEW b \in Builders, NEW new, SetJobs(b, new)
    PROVE  JobsSeen'
<1>1. /\ jobs' = [jobs EXCEPT ![b] = new]
      /\ jobsCache' = [jobsCache EXCEPT ![b] = [r \in RoundNumbers |-> new[r].state]]
    BY DEF SetJobs
<1>2. \A c \in Builders : jobsCache'[c] = [r \in RoundNumbers |-> jobs'[c][r].state]
    BY <1>1 DEF JobsOK, JobsSeen, States
<1> QED
    BY <1>2 DEF JobsSeen, States

LEMMA SeenKept == ASSUME ~JobsLag, BuilderInv, JobsSeen, Next PROVE JobsSeen'
<1>0. JobsOK /\ (Working => run.b \in Builders)
    BY DEF BuilderInv, RunOK
<1>1. CASE UNCHANGED <<jobs, jobsCache>>
    BY <1>1 DEF JobsSeen, States
<1>2. ASSUME NEW b \in Builders, \E new : SetJobs(b, new) PROVE JobsSeen'
    BY <1>0, <1>2, SetJobsSeen
<1>3. CASE BuilderController
    <2>1. Working /\ (UNCHANGED <<jobs, jobsCache>> \/ \E new : SetJobs(run.b, new))
        BY <1>3, ControllerEnds
        DEF BuilderController, Conflict, AddFinalizer, DropFinalizer, Undo, Cleanup, DeleteJob,
            Save, HandleMissing, DeleteDockerfile, CreateDockerfile, CreateJob, HandleFails,
            HandleWatch, HookGet, HookUpdate, HookFails, Publish, jobVars
    <2> QED
        BY <1>0, <1>1, <1>2, <2>1
<1>4. ASSUME NEW b \in Builders, CollectGarbage(b) \/ \E r \in RoundNumbers : MovePod(b, r)
      PROVE  JobsSeen'
    BY <1>2, <1>4 DEF CollectGarbage, MovePod, OrphanEnds
<1>5. ASSUME NEW b \in Builders, SyncJobs(b) PROVE JobsSeen'
    <2>1. jobs' = jobs /\ jobsCache' = [jobsCache EXCEPT ![b] = States(b)]
        BY <1>5 DEF SyncJobs
    <2> QED
        BY <1>0, <2>1 DEF JobsSeen, States, JobsOK
<1>6. CASE Start
    BY <1>6 DEF Start, JobsSeen, States
<1> QED
    BY <1>1, <1>3, <1>4, <1>5, <1>6, JobWriters DEF OrphanEnds, jobVars

\* The current round of a builder that has a job stays what it is.
LEMMA StrayKept == ASSUME BuilderInv, JobsInv, Next, UNCHANGED jobs PROVE NoStrayJob'
<1> SUFFICES ASSUME NEW c \in Builders, NEW r \in RoundNumbers,
                    builder'[c].exists, jobs[c][r].state # "none"
             PROVE  r = builder'[c].currentRound
    BY DEF NoStrayJob
<1>1. builder[c].exists => r = builder[c].currentRound
    BY DEF JobsInv, NoStrayJob
<1>2. CASE builder'[c] = builder[c]
    BY <1>1, <1>2
<1>3. ASSUME NEW new \in BuilderObject, Writes(new) PROVE r = builder'[c].currentRound
    <2>1. /\ run.b \in Builders /\ builder'[run.b] = new
          /\ \A e \in Builders : e # run.b => builder'[e] = builder[e]
        BY <1>3, WritesKeep
    <2>2. CASE c # run.b
        BY <1>2, <2>1, <2>2
    <2>3. CASE c = run.b /\ (Adds(new, builder[run.b]) \/ Reports(new, builder[run.b]))
        BY <1>1, <2>1, <2>3 DEF Adds, Reports
    <2>4. CASE c = run.b /\ run.pc = "save"
        BY <1>3, <2>4 DEF Writes, JobsInv, RunKnows, NoJobOf
    <2>5. CASE c = run.b /\ new = AbsentBuilder
        BY <2>1, <2>5, AbsentBuilderType
    <2> QED
        BY <1>3, <2>2, <2>3, <2>4, <2>5 DEF Writes
<1>4. ASSUME NEW b \in Builders, NEW new \in BuilderObject, Asks(b, new)
      PROVE  r = builder'[c].currentRound
    <2>1. /\ builder'[b] = new
          /\ \A e \in Builders : e # b => builder'[e] = builder[e]
        BY <1>4, AsksKeep DEF BuilderInv
    <2>2. CASE c # b
        BY <1>2, <2>1, <2>2
    <2>3. CASE c = b /\ ~builder[b].exists
        <3>1. jobs[c] = NoJobs \/ new = AbsentBuilder
            BY <1>4, <2>3 DEF Asks
        <3> QED
            BY <2>1, <2>3, <3>1, NoJobsType, NoJobType, AbsentBuilderType
    <2>4. CASE c = b /\ builder[b].exists
        BY <1>1, <1>4, <2>1, <2>4, AbsentBuilderType DEF Asks
    <2> QED
        BY <2>2, <2>3, <2>4
<1>5. \/ UNCHANGED builder
      \/ \E new \in BuilderObject : Writes(new)
      \/ \E b \in Builders, new \in BuilderObject : Asks(b, new)
    BY BuilderWriters DEF builderVars, SyncBuilder, Start
<1> QED
    BY <1>2, <1>3, <1>4, <1>5

\* Nothing that happens meanwhile gives the builder of a reconciliation a job,
\* or takes its config map.
LEMMA KnowledgeKept ==
    ASSUME RunKnows, run'.pc = run.pc, run'.b = run.b, run'.copy = run.copy,
           run'.fresh => run.fresh,
           run.pc \in {"save"} \cup Building =>
               \A r \in RoundNumbers :
                   jobs[run.b][r].state = "none" => jobs'[run.b][r].state = "none",
           run.pc = "create" => (dockerfile[run.b] => dockerfile'[run.b])
    PROVE  RunKnows'
<1>1. run.pc \in {"save"} \cup Building /\ NoJobOf(run.b) => NoJobOf(run.b)'
    BY DEF NoJobOf
<1> QED
    BY <1>1 DEF RunKnows, Building

LEMMA OthersKnow ==
    ASSUME BuilderInv, Lineage, JobsInv, Next, ~BuilderController PROVE RunKnows'
<1>0. JobsOK /\ RunKnows /\ (Working => run.b \in Builders)
    BY DEF BuilderInv, RunOK, JobsInv
<1>1. ASSUME NEW b \in Builders, Get(b) PROVE RunKnows'
    <2>1. run'.pc \notin {"save"} \cup Building
        BY <1>1, GetRuns, IdleType DEF Building, Route
    <2> QED
        BY <2>1 DEF RunKnows, Building
<1>2. CASE Crash \/ Start
    BY <1>2, IdleType, DownType DEF Crash, Start, RunKnows, Building
<1>3. CASE UNCHANGED <<run, jobs, dockerfile>>
    BY <1>0, <1>3 DEF RunKnows, NoJobOf
<1>4. CASE BuilderUser
    <2>1. UNCHANGED <<jobs, dockerfile>>
        BY <1>4 DEF BuilderUser, CreateBuilder, EditBuilder, DeleteBuilder, WriteFromOutside,
                    jobVars
    <2>2. run'.pc = run.pc /\ run'.b = run.b /\ run'.copy = run.copy /\ (run'.fresh => run.fresh)
        BY <1>4, UserAsks, AsksKeepRun DEF BuilderInv
    <2> QED
        BY <1>0, <2>1, <2>2, KnowledgeKept
<1>5. CASE DeployerWriter
    <2>1. UNCHANGED <<jobs, dockerfile>>
        BY <1>5 DEF DeployerWriter, DeployerMovesOn, DeployerReports, WriteDeployer, jobVars
    <2> QED
        BY <1>0, <1>5, <2>1, WritersKeepRun, KnowledgeKept
<1>6. ASSUME NEW b \in Builders, NEW q \in RoundNumbers, MovePod(b, q) PROVE RunKnows'
    <2>1. UNCHANGED <<run, dockerfile>>
        BY <1>6 DEF MovePod
    <2>2. \A c \in Builders, r \in RoundNumbers :
              jobs[c][r].state = "none" => jobs'[c][r].state = "none"
        BY <1>0, <1>6, MovedJob
    <2>3. run.pc \in {"save"} \cup Building => run.b \in Builders
        BY <1>0 DEF Working, Building
    <2> QED
        BY <1>0, <2>1, <2>2, <2>3, KnowledgeKept
<1>7. ASSUME NEW b \in Builders, CollectGarbage(b) PROVE RunKnows'
    <2>1. UNCHANGED run /\ ~builder[b].exists /\ dockerfile' = [dockerfile EXCEPT ![b] = FALSE]
        BY <1>7 DEF CollectGarbage
    <2>2. \A c \in Builders, r \in RoundNumbers :
              jobs[c][r].state = "none" => jobs'[c][r].state = "none"
        BY <1>0, <1>7, CollectedJobs, NoJobsType, NoJobType
    <2>3. run.pc \in {"save"} \cup Building => run.b \in Builders
        BY <1>0 DEF Working, Building
    <2>4. run.pc = "create" => run.b # b
        BY <2>1 DEF Lineage, Building
    <2>5. run.pc = "create" => (dockerfile[run.b] => dockerfile'[run.b])
        BY <1>0, <2>1, <2>3, <2>4 DEF JobsOK, Building
    <2> QED
        BY <1>0, <2>1, <2>2, <2>3, <2>5, KnowledgeKept
<1>8. \/ \E b \in Builders : Get(b) \/ CollectGarbage(b) \/ \E q \in RoundNumbers : MovePod(b, q)
      \/ BuilderUser \/ DeployerWriter \/ Crash \/ Start
      \/ UNCHANGED <<run, jobs, dockerfile>>
    BY DEF Next, SyncBuilder, SyncJobs, Resync, SyncDeployer, OrphanEnds, jobVars
<1> QED
    BY <1>1, <1>2, <1>3, <1>4, <1>5, <1>6, <1>7, <1>8

\* What the reconciler does to jobs, it knows or it finds.
LEMMA ControllerInOrder ==
    ASSUME ~JobsLag, BuilderInv, Lineage, JobsInv, BuilderController
    PROVE  NoStrayJob' /\ JobsFindTheirDockerfile' /\ RunKnows'
<1> DEFINE b == run.b
           r == run.copy.spec.round
<1>0. /\ Working /\ b \in Builders /\ run.copy.spec \in BuilderSpecs /\ r \in RoundNumbers
      /\ run \in RunType /\ JobsOK
      /\ Next
    BY ControllerEnds, SpecFields DEF BuilderInv, RunOK, Next
<1>1. /\ NoStrayJob /\ JobsFindTheirDockerfile /\ RunKnows
      /\ \A q \in RoundNumbers : jobsCache[b][q] = jobs[b][q].state
    BY <1>0 DEF JobsInv, JobsSeen, States
<1>2. ASSUME run.pc \in {"handle"} \cup Building
      PROVE  builder[b].exists /\ r = builder[b].currentRound
    BY <1>2 DEF Lineage
<1>3. CASE HandleMissing
    <2>1. run.pc = "handle" /\ jobsCache[b][r] = "none" /\ UNCHANGED <<jobs, dockerfile>>
        BY <1>3 DEF HandleMissing, At, jobVars
    <2>2. NoJobOf(b)
        BY <1>0, <1>1, <1>2, <2>1 DEF NoJobOf, NoStrayJob
    <2>3. /\ run'.b = b /\ run'.copy.spec = run.copy.spec
          /\ run'.pc = IF run.copy.spec.raw THEN "dockerfile" ELSE "create"
        <3>1. run.copy \in BuilderObject
            BY <1>0 DEF RunType
        <3>2. [run.copy EXCEPT !.phase = "Pending"].spec = run.copy.spec
            BY <3>1 DEF BuilderObject
        <3> QED
            BY <1>0, <1>3, <3>2 DEF HandleMissing, Goto, RunType
    <2>4. \A q \in RoundNumbers : jobs'[run'.b][q].state = "none"
        BY <2>1, <2>2, <2>3 DEF NoJobOf
    <2>5. RunKnows'
        BY <2>3, <2>4 DEF RunKnows, NoJobOf
    <2> QED
        BY <1>0, <1>1, <2>1, <2>5, StrayKept DEF JobsFindTheirDockerfile
<1>4. CASE CreateDockerfile
    <2>1. /\ run.pc = "dockerfile" /\ Goto("create", run.copy) /\ UNCHANGED jobs
          /\ dockerfile' = [dockerfile EXCEPT ![b] = TRUE]
        BY <1>4 DEF CreateDockerfile, At
    <2>2. run'.pc = "create" /\ run'.b = b /\ dockerfile'[b]
        BY <1>0, <2>1 DEF Goto, RunType, JobsOK
    <2>3. NoJobOf(b)
        BY <1>1, <2>1 DEF RunKnows, Building
    <2>4. \A q \in RoundNumbers : jobs'[run'.b][q].state = "none"
        BY <2>1, <2>2, <2>3 DEF NoJobOf
    <2>5. RunKnows'
        BY <2>2, <2>4 DEF RunKnows, NoJobOf
    <2> QED
        BY <1>0, <1>1, <2>1, <2>5, StrayKept DEF JobsFindTheirDockerfile
<1>5. CASE DeleteDockerfile
    <2>1. /\ run.pc = "dockerfile" /\ SetJobs(b, Lose(b)) /\ run' = run /\ UNCHANGED builder
        BY <1>5 DEF DeleteDockerfile, At, builderVars
    <2>2. \A c \in Builders : jobs'[c] = IF c = b THEN Lose(b) ELSE jobs[c]
        BY <1>0, <2>1 DEF SetJobs, JobsOK
    <2>3. NoJobOf(b)
        BY <1>1, <2>1 DEF RunKnows, Building
    <2>4. \A q \in RoundNumbers : jobs'[b][q].state = "none"
        BY <1>0, <2>2, <2>3, LoseType DEF NoJobOf
    <2>5. RunKnows'
        BY <2>1, <2>4 DEF RunKnows, NoJobOf
    <2>6. NoStrayJob' /\ JobsFindTheirDockerfile'
        BY <1>1, <2>1, <2>2, <2>4 DEF NoStrayJob, JobsFindTheirDockerfile
    <2> QED
        BY <2>5, <2>6
<1>6. CASE CreateJob
    <2> DEFINE job == [state |-> "nopod", image |-> run.copy.spec.destination,
                       dockerfile |-> IF ~run.copy.spec.raw THEN "own"
                                      ELSE IF dockerfile[run.b] THEN "mounted" ELSE "lost"]
    <2>1. /\ run.pc = "create" /\ Goto("publish", run.copy) /\ UNCHANGED builder
          /\ \/ UNCHANGED <<jobs, jobsCache>>
             \/ SetJobs(b, [jobs[b] EXCEPT ![r] = job])
        BY <1>6 DEF CreateJob, At, builderVars
    <2>2. RunKnows'
        <3>1. run'.pc = "publish"
            BY <1>0, <2>1 DEF Goto, RunType
        <3> QED
            BY <3>1 DEF RunKnows, Building
    <2>3. job.dockerfile # "lost"
        BY <1>1, <2>1 DEF RunKnows
    <2> HIDE DEF job
    <2>4. CASE UNCHANGED <<jobs, jobsCache>>
        BY <1>0, <1>1, <2>2, <2>4, StrayKept DEF JobsFindTheirDockerfile
    <2>5. CASE SetJobs(b, [jobs[b] EXCEPT ![r] = job])
        <3>1. /\ \A q \in RoundNumbers : jobs'[b][q] = IF q = r THEN job ELSE jobs[b][q]
              /\ \A c \in Builders : c # b => jobs'[c] = jobs[c]
            BY <1>0, <2>5 DEF SetJobs, JobsOK
        <3>2. builder[b].exists /\ r = builder[b].currentRound
            BY <1>2, <2>1 DEF Building
        <3>3. NoStrayJob'
            BY <1>0, <1>1, <2>1, <3>1, <3>2 DEF NoStrayJob
        <3>4. JobsFindTheirDockerfile'
            BY <1>0, <1>1, <2>3, <3>1 DEF JobsFindTheirDockerfile
        <3> QED
            BY <2>2, <3>3, <3>4
    <2> QED
        BY <2>1, <2>4, <2>5
<1>7. CASE Cleanup
    <2> DEFINE old == run.copy.currentRound
    <2>1. /\ run.pc = "cleanup" /\ UNCHANGED builder
          /\ Goto("save", NextRound(run.copy)) \/ run' = Idle
          /\ \/ UNCHANGED jobs /\ (run' # Idle => jobsCache[b][old] = "none")
             \/ SetJobs(b, [jobs[b] EXCEPT ![old] = NoJob])
        BY <1>7 DEF Cleanup, DeleteJob, At, Return, builderVars
    <2>2. run' # Idle => run'.pc = "save" /\ run'.b = b /\ run'.fresh = run.fresh
        BY <1>0, <2>1 DEF Goto, RunType
    <2>3. \A q \in RoundNumbers : \/ jobs'[b][q] = jobs[b][q] /\ (q = old /\ run' # Idle =>
                                                                     jobs[b][q].state = "none")
                                  \/ jobs'[b][q] = NoJob
        <3>1. CASE UNCHANGED jobs /\ (run' # Idle => jobsCache[b][old] = "none")
            BY <1>1, <3>1
        <3>2. CASE SetJobs(b, [jobs[b] EXCEPT ![old] = NoJob])
            <4>1. jobs[b] \in [RoundNumbers -> Job] /\ jobs'[b] = [jobs[b] EXCEPT ![old] = NoJob]
                BY <1>0, <3>2 DEF SetJobs, JobsOK
            <4> QED
                BY <4>1
        <3> QED
            BY <2>1, <3>1, <3>2
    <2>4. \A c \in Builders : c # b => jobs'[c] = jobs[c]
        BY <1>0, <2>1 DEF SetJobs, JobsOK
    <2>5. NoStrayJob' /\ JobsFindTheirDockerfile'
        BY <1>0, <1>1, <2>1, <2>3, <2>4, NoJobType DEF NoStrayJob, JobsFindTheirDockerfile
    <2>6. CASE run' = Idle
        BY <2>5, <2>6, IdleType DEF RunKnows, Building
    <2>7. CASE run' # Idle /\ run.fresh
        <3>1. builder[b].exists /\ old = builder[b].currentRound
            BY <2>1, <2>7 DEF BuilderInv, RunOK, Agrees, Reading
        <3>2. \A q \in RoundNumbers : jobs'[b][q].state = "none"
            BY <1>0, <1>1, <2>3, <2>7, <3>1, NoJobType DEF NoStrayJob
        <3> QED
            BY <2>2, <2>5, <2>7, <3>2 DEF RunKnows, NoJobOf, Building
    <2>8. CASE run' # Idle /\ ~run.fresh
        BY <2>2, <2>5, <2>8 DEF RunKnows, Building
    <2> QED
        BY <2>6, <2>7, <2>8
<1>8. CASE /\ ~HandleMissing /\ ~CreateDockerfile /\ ~DeleteDockerfile /\ ~CreateJob
           /\ ~Cleanup
    <2>1. UNCHANGED <<jobs, dockerfile>>
        BY <1>8 DEF BuilderController, Conflict, AddFinalizer, DropFinalizer, Undo, Save,
                    HandleFails, HandleWatch, HookGet, HookUpdate, HookFails, Publish, jobVars
    <2>2. run'.pc \notin {"save"} \cup Building
        BY <1>8, ControllerGoes
    <2>3. RunKnows'
        BY <2>2 DEF RunKnows, Building
    <2> QED
        BY <1>0, <1>1, <2>1, <2>3, StrayKept DEF JobsFindTheirDockerfile
<1> QED
    BY <1>3, <1>4, <1>5, <1>6, <1>7, <1>8

LEMMA JobsInOrder == ~JobsLag /\ BuilderInv /\ Lineage /\ JobsInv /\ [Next]_vars => JobsInv'
<1>1. ASSUME ~JobsLag, BuilderInv, Lineage, JobsInv, Next PROVE JobsInv'
    <2>0. JobsOK /\ NoStrayJob /\ JobsFindTheirDockerfile
        BY <1>1 DEF BuilderInv, JobsInv
    <2>1. JobsSeen'
        BY <1>1, SeenKept DEF JobsInv
    <2>2. CASE BuilderController
        BY <1>1, <2>1, <2>2, ControllerInOrder DEF JobsInv
    <2>3. ASSUME NEW b \in Builders, NEW r \in RoundNumbers, MovePod(b, r)
          PROVE  NoStrayJob' /\ JobsFindTheirDockerfile'
        <3>1. /\ jobs[b][r].state # "none"
              /\ jobs'[b][r].state \notin {"none", "nopod"}
              /\ jobs'[b][r].state = "Pending" => jobs[b][r].state = "nopod"
              /\ jobs'[b][r].dockerfile = jobs[b][r].dockerfile
              /\ \A s \in RoundNumbers : s # r => jobs'[b][s] = jobs[b][s]
              /\ \A c \in Builders : c # b => jobs'[c] = jobs[c]
            BY <2>0, <2>3, MovedJob
        <3>2. UNCHANGED builder
            BY <2>3 DEF MovePod, builderVars
        <3>3. NoStrayJob'
            BY <2>0, <3>1, <3>2 DEF NoStrayJob
        <3>4. JobsFindTheirDockerfile'
            BY <2>0, <3>1 DEF JobsFindTheirDockerfile
        <3> QED
            BY <3>3, <3>4
    <2>4. ASSUME NEW b \in Builders, CollectGarbage(b)
          PROVE  NoStrayJob' /\ JobsFindTheirDockerfile'
        <3>1. /\ \A r \in RoundNumbers : jobs'[b][r].state = "none"
              /\ \A c \in Builders : c # b => jobs'[c] = jobs[c]
            BY <2>0, <2>4, CollectedJobs, NoJobsType, NoJobType
        <3>2. UNCHANGED builder
            BY <2>4 DEF CollectGarbage, builderVars
        <3>3. NoStrayJob'
            BY <2>0, <3>1, <3>2 DEF NoStrayJob
        <3>4. JobsFindTheirDockerfile'
            BY <2>0, <3>1 DEF JobsFindTheirDockerfile
        <3> QED
            BY <3>3, <3>4
    <2>5. ASSUME UNCHANGED jobs PROVE NoStrayJob' /\ JobsFindTheirDockerfile'
        BY <1>1, <2>0, <2>5, StrayKept DEF JobsFindTheirDockerfile
    <2>6. CASE ~BuilderController
        <3>1. RunKnows'
            BY <1>1, <2>6, OthersKnow
        <3>2. \/ UNCHANGED jobs
              \/ \E b \in Builders : CollectGarbage(b) \/ \E r \in RoundNumbers : MovePod(b, r)
            BY <1>1, <2>6, JobWriters DEF jobVars, SyncJobs, OrphanEnds, Start
        <3> QED
            BY <2>1, <2>3, <2>4, <2>5, <3>1, <3>2 DEF JobsInv
    <2> QED
        BY <2>2, <2>6
<1>2. JobsInv /\ UNCHANGED vars => JobsInv'
    BY DEF JobsInv, JobsSeen, States, NoStrayJob, JobsFindTheirDockerfile, RunKnows, NoJobOf, vars,
           builderVars, jobVars
<1> QED
    BY <1>1, <1>2

LEMMA InitJobsInv == Init => Lineage /\ JobsInv
<1> SUFFICES ASSUME Init PROVE Lineage /\ JobsInv
    OBVIOUS
<1>1. Lineage
    BY AbsentBuilderType DEF Init, Lineage, CacheBefore, Tells, Idle, Building
<1>2. \A b \in Builders, r \in RoundNumbers : jobs[b][r].state = "none"
    BY NoJobsType, NoJobType DEF Init
<1>3. JobsSeen
    BY DEF Init, JobsSeen
<1> QED
    BY <1>1, <1>2, <1>3 DEF Init, JobsInv, NoStrayJob, JobsFindTheirDockerfile, RunKnows, Idle,
                            Building

LEMMA JobsInvariant == ~JobsLag /\ Spec => []JobsInv
<1>1. ~JobsLag => (~JobsLag)'
    OBVIOUS
<1> QED
    BY <1>1, InitJobsInv, LineageKept, JobsInOrder, BuilderInvariant, PTL DEF Spec

\* As long as jobs are not read from a stale cache, and however stale the copies
\* of builders are: a builder has no job of another round than its own,
THEOREM NoJobIsStray == ~JobsLag /\ Spec => []NoStrayJob
<1>1. JobsInv => NoStrayJob
    BY DEF JobsInv
<1> QED
    BY <1>1, JobsInvariant, PTL

\* and a job that has not started finds the Dockerfile that it was created with.
THEOREM EachJobFindsItsDockerfile == ~JobsLag /\ Spec => []JobsFindTheirDockerfile
<1>1. JobsInv => JobsFindTheirDockerfile
    BY DEF JobsInv
<1> QED
    BY <1>1, JobsInvariant, PTL

-----------------------------------------------------------------------------
(* What hooks do: the deployers that they force never go back, and a build   *)
(* is Done only when they were heard.                                        *)

\* A reconciliation that runs hooks, or is about to report, is in the round of
\* the server's object, however stale its copy is.
HookRound ==
    run.pc \in Hooking \cup {"publish"} =>
        /\ builder[run.b].exists /\ builder[run.b].finalizer
        /\ run.copy.spec.round = builder[run.b].currentRound

LEMMA AfterHookGoes ==
    ASSUME BuilderInv, run.pc \in Hooking, run' = AfterHook
    PROVE  /\ run'.b = run.b /\ run'.fresh = run.fresh /\ run'.copy.spec = run.copy.spec
           /\ \/ /\ run'.pc = "hookGet" /\ run'.hook = run.hook + 1 /\ run'.copy = run.copy
                 /\ run.hook < Len(run.copy.spec.hooks)
              \/ run'.pc = "publish" /\ run.hook = Len(run.copy.spec.hooks)
<1>0. run \in RunType /\ run.copy \in BuilderObject
    BY DEF BuilderInv, RunOK, RunType
<1>1. /\ run.copy.spec \in BuilderSpecs
      /\ run.hook \in 1 .. Len(run.copy.spec.hooks)
    BY TheHookType
<1>2. Len(run.copy.spec.hooks) \in Nat
    BY <1>1, SpecFields, LenProperties
<1>3. CASE run.hook < Len(run.copy.spec.hooks)
    BY <1>0, <1>3 DEF AfterHook, RunType
<1>4. CASE ~(run.hook < Len(run.copy.spec.hooks))
    <2> DEFINE done == [run.copy EXCEPT !.phase = "Done"]
    <2>1. done.spec = run.copy.spec
        BY <1>0 DEF BuilderObject
    <2> HIDE DEF done
    <2>2. run' = [run EXCEPT !.pc = "publish", !.copy = done, !.hook = 0,
                             !.target = AbsentDeployer, !.targetFresh = FALSE]
        BY <1>4 DEF AfterHook, done
    <2>3. run.hook = Len(run.copy.spec.hooks)
        BY <1>1, <1>2, <1>4
    <2> QED
        BY <1>0, <2>1, <2>2, <2>3 DEF RunType
<1> QED
    BY <1>3, <1>4

\* Where the hooks begin, how they go on, and what else leads to the report.
Begins ==
    /\ HandleWatch /\ run.pc = "handle" /\ SeenPhase = "Done"
    /\ run'.pc = "hookGet" /\ run'.hook = 1 /\ run'.copy = run.copy

Watches ==
    /\ HandleWatch /\ run.pc = "handle" /\ run'.pc = "publish"
    /\ SeenPhase = "Done" => run.copy.phase = "Done" \/ run.copy.spec.hooks = <<>>
    /\ run'.copy.phase = SeenPhase

Creates == CreateJob /\ run.pc = "create" /\ run'.pc = "publish" /\ run'.copy = run.copy

Reads ==
    /\ HookGet /\ run.pc = "hookGet" /\ deployerCache[TheHook.deployer].exists
    /\ run'.pc = "hookUpdate" /\ run'.hook = run.hook /\ run'.copy = run.copy
    /\ run'.target = deployerCache[TheHook.deployer]
    /\ run'.targetFresh = deployerFresh[TheHook.deployer]

GoesOn ==
    /\ \/ HookUpdate /\ run.pc = "hookUpdate"
       \/ HookGet /\ run.pc = "hookGet" /\ ~deployerCache[TheHook.deployer].exists
    /\ run' = AfterHook

Fails ==
    /\ HookFails /\ run.pc = "hookUpdate" /\ run'.pc = "publish" /\ run'.copy.phase = "Doing"

LEMMA HookSteps ==
    ASSUME BuilderInv, BuilderController, run'.pc \in Hooking \cup {"publish"}
    PROVE  /\ run'.b = run.b /\ run'.fresh = run.fresh /\ run'.copy.spec = run.copy.spec
           /\ UNCHANGED builder
           /\ Begins \/ Watches \/ Creates \/ Reads \/ GoesOn \/ Fails
<1> DEFINE Same == /\ run'.b = run.b /\ run'.fresh = run.fresh
                   /\ run'.copy.spec = run.copy.spec
<1>0. run \in RunType /\ run.copy \in BuilderObject
    BY DEF BuilderInv, RunOK, RunType
<1>1. CASE HandleWatch
    <2> DEFINE object == [run.copy EXCEPT !.phase = SeenPhase]
               triggers == /\ SeenPhase = "Done" /\ run.copy.phase # "Done"
                           /\ run.copy.spec.hooks # <<>>
    <2>1. /\ run.pc = "handle" /\ UNCHANGED builder
          /\ IF triggers THEN run' = [run EXCEPT !.pc = "hookGet", !.hook = 1]
                         ELSE Goto("publish", object)
        BY <1>1 DEF HandleWatch, At, builderVars
    <2>2. object.spec = run.copy.spec /\ object.phase = SeenPhase
        BY <1>0 DEF BuilderObject
    <2> HIDE DEF object
    <2>3. CASE triggers
        <3>1. Same /\ run'.pc = "hookGet" /\ run'.hook = 1 /\ run'.copy = run.copy
            BY <1>0, <2>1, <2>3 DEF RunType
        <3> QED
            BY <1>1, <2>1, <2>3, <3>1 DEF Begins
    <2>4. CASE ~triggers
        <3>1. run'.pc = "publish" /\ run'.copy = object /\ run'.b = run.b /\ run'.fresh = run.fresh
            BY <1>0, <2>1, <2>4 DEF Goto, RunType
        <3> QED
            BY <1>1, <2>1, <2>2, <2>4, <3>1 DEF Watches
    <2> QED
        BY <2>3, <2>4
<1>2. CASE CreateJob
    <2>1. run.pc = "create" /\ Goto("publish", run.copy) /\ UNCHANGED builder
        BY <1>2 DEF CreateJob, At, builderVars
    <2>2. Same /\ run'.pc = "publish" /\ run'.copy = run.copy
        BY <1>0, <2>1 DEF Goto, RunType
    <2> QED
        BY <1>2, <2>1, <2>2 DEF Creates
<1>3. CASE HookGet
    <2> DEFINE d == TheHook.deployer
    <2>1. /\ run.pc = "hookGet" /\ UNCHANGED builder
          /\ run' = IF deployerCache[d].exists
                      THEN [run EXCEPT !.pc = "hookUpdate", !.target = deployerCache[d],
                                       !.targetFresh = deployerFresh[d]]
                      ELSE AfterHook
        BY <1>3 DEF HookGet, At, builderVars
    <2>2. CASE deployerCache[d].exists
        <3>1. /\ Same /\ run'.pc = "hookUpdate" /\ run'.hook = run.hook /\ run'.copy = run.copy
              /\ run'.target = deployerCache[d] /\ run'.targetFresh = deployerFresh[d]
            BY <1>0, <2>1, <2>2 DEF RunType
        <3> QED
            BY <1>3, <2>1, <2>2, <3>1 DEF Reads
    <2>3. CASE ~deployerCache[d].exists
        <3>1. run' = AfterHook
            BY <2>1, <2>3
        <3>2. Same
            BY <2>1, <3>1, AfterHookGoes DEF Hooking
        <3> QED
            BY <1>3, <2>1, <2>3, <3>1, <3>2 DEF GoesOn
    <2> QED
        BY <2>2, <2>3
<1>4. CASE HookUpdate
    <2>1. run.pc = "hookUpdate" /\ UNCHANGED builder /\ run' = AfterHook
        BY <1>4 DEF HookUpdate, At, builderVars
    <2>2. Same
        BY <2>1, AfterHookGoes DEF Hooking
    <2> QED
        BY <1>4, <2>1, <2>2 DEF GoesOn
<1>5. CASE HookFails
    <2> DEFINE doing == [run.copy EXCEPT !.phase = "Doing"]
    <2>1. doing.spec = run.copy.spec /\ doing.phase = "Doing"
        BY <1>0 DEF BuilderObject
    <2> HIDE DEF doing
    <2>2. /\ run.pc = "hookUpdate" /\ UNCHANGED builder
          /\ run' = [run EXCEPT !.pc = "publish", !.copy = doing, !.hook = 0,
                                !.target = AbsentDeployer, !.targetFresh = FALSE]
        BY <1>5 DEF HookFails, At, builderVars, doing
    <2>3. Same /\ run'.pc = "publish" /\ run'.copy.phase = "Doing"
        BY <1>0, <2>1, <2>2 DEF RunType
    <2> QED
        BY <1>5, <2>2, <2>3 DEF Fails
<1>6. CASE \/ Conflict \/ DropFinalizer \/ Undo \/ Save \/ HandleFails \/ Publish
           \/ Cleanup /\ run' = Idle
    <2>1. run' = Idle
        BY <1>6 DEF Conflict, DropFinalizer, Undo, Save, HandleFails, Publish, Return
    <2> QED
        BY <2>1, IdleType DEF Hooking
<1>7. ASSUME NEW pc \in PCs \ (Hooking \cup {"publish"}), NEW copy, Goto(pc, copy) PROVE FALSE
    BY <1>0, <1>7 DEF Goto, RunType
<1>8. CASE HandleMissing \/ CreateDockerfile \/ (Cleanup /\ run' # Idle)
    <2>1. \E pc \in {"dockerfile", "create", "save"} : \E copy : Goto(pc, copy)
        BY <1>8 DEF HandleMissing, CreateDockerfile, Cleanup, Return
    <2> QED
        BY <1>7, <2>1 DEF PCs, Hooking
<1>9. CASE DeleteDockerfile
    BY <1>9 DEF DeleteDockerfile, At, Hooking
<1>10. CASE AddFinalizer
    <2>1. PICK copy : Goto(Route(copy), copy)
        BY <1>10 DEF AddFinalizer
    <2>2. Route(copy) \in PCs \ (Hooking \cup {"publish"})
        BY DEF Route, PCs, Hooking
    <2> QED
        BY <1>7, <2>1, <2>2
<1> QED
    BY <1>1, <1>2, <1>3, <1>4, <1>5, <1>6, <1>8, <1>9, <1>10 DEF BuilderController

\* What others do meanwhile makes copies stale at most.
LEMMA OthersKeepHooks ==
    ASSUME BuilderInv, Next, ~BuilderController, run'.pc \in Hooking \cup {"publish"}
    PROVE  /\ run'.pc = run.pc /\ run'.b = run.b /\ run'.copy = run.copy /\ run'.hook = run.hook
           /\ run'.target = run.target
           /\ run'.fresh => run.fresh /\ builder'[run.b] = builder[run.b]
           /\ run'.targetFresh => run.targetFresh
<1>0. run \in RunType
    BY DEF BuilderInv, RunOK
<1>1. CASE run' = run /\ UNCHANGED builder
    BY <1>1
<1>2. CASE BuilderUser
    <2>1. PICK b \in Builders, new \in BuilderObject : Asks(b, new)
        BY <1>2, UserAsks DEF BuilderInv
    <2>2. /\ run'.pc = run.pc /\ run'.b = run.b /\ run'.copy = run.copy
          /\ run'.fresh => run.fresh /\ builder'[run.b] = builder[run.b]
        BY <2>1, AsksKeepRun
    <2>3. run' = run \/ run' = [run EXCEPT !.fresh = FALSE]
        BY <2>1 DEF Asks, WriteFromOutside
    <2>4. run'.hook = run.hook /\ run'.target = run.target /\ run'.targetFresh = run.targetFresh
        BY <1>0, <2>3 DEF RunType
    <2> QED
        BY <2>2, <2>4
<1>3. CASE DeployerWriter
    <2>1. /\ run' = run \/ run' = [run EXCEPT !.targetFresh = FALSE]
          /\ UNCHANGED builder
        BY <1>3 DEF DeployerWriter, DeployerMovesOn, DeployerReports, WriteDeployer, builderVars
    <2> QED
        BY <1>0, <2>1 DEF RunType
<1>4. ASSUME NEW b \in Builders, Get(b) PROVE FALSE
    <2>1. run'.pc = "idle" \/ run'.pc = Route(builderCache[b])
        BY <1>4, GetRuns, IdleType
    <2> QED
        BY <2>1 DEF Route, Hooking
<1>5. ~Crash /\ ~Start
    BY IdleType, DownType DEF Crash, Start, Hooking
<1>6. \/ BuilderUser \/ DeployerWriter \/ Crash \/ Start
      \/ run' = run /\ UNCHANGED builder
      \/ \E b \in Builders : Get(b)
    BY DEF Next, SyncBuilder, SyncJobs, Resync, CollectGarbage, MovePod,
           OrphanEnds, SyncDeployer, builderVars
<1> QED
    BY <1>1, <1>2, <1>3, <1>4, <1>5, <1>6

LEMMA HookRoundKept == BuilderInv /\ Lineage /\ HookRound /\ [Next]_vars => HookRound'
<1>1. ASSUME BuilderInv, Lineage, HookRound, Next, run'.pc \in Hooking \cup {"publish"}
      PROVE  /\ builder'[run'.b].exists /\ builder'[run'.b].finalizer
             /\ run'.copy.spec.round = builder'[run'.b].currentRound
    <2>1. CASE BuilderController
        <3>1. /\ run'.b = run.b /\ run'.copy.spec = run.copy.spec /\ UNCHANGED builder
              /\ run.pc \in {"handle", "create"} \cup Hooking
            BY <1>1, <2>1, HookSteps DEF Begins, Watches, Creates, Reads, GoesOn, Fails, Hooking
        <3> QED
            BY <1>1, <3>1 DEF Lineage, HookRound, Building
    <2>2. CASE ~BuilderController
        <3>1. run'.pc = run.pc /\ run'.b = run.b /\ run'.copy = run.copy
            BY <1>1, <2>2, OthersKeepHooks
        <3>2. /\ run.b \in Builders /\ builder[run.b].exists /\ builder[run.b].finalizer
              /\ run.copy.spec.round = builder[run.b].currentRound
            BY <1>1, <3>1 DEF HookRound, BuilderInv, RunOK, Working, Hooking
        <3>3. CASE UNCHANGED builder
            BY <3>1, <3>2, <3>3
        <3>4. ASSUME NEW b \in Builders, NEW new \in BuilderObject, Asks(b, new)
              PROVE  /\ builder'[run.b].exists /\ builder'[run.b].finalizer
                     /\ builder'[run.b].currentRound = builder[run.b].currentRound
            <4>1. /\ builder'[b] = new
                  /\ \A c \in Builders : c # b => builder'[c] = builder[c]
                BY <1>1, <3>4, AsksKeep DEF BuilderInv
            <4> QED
                BY <3>2, <3>4, <4>1 DEF Asks
        <3> QED
            BY <1>1, <2>2, <3>1, <3>2, <3>3, <3>4, BuilderWriters
            DEF builderVars, SyncBuilder, Start
    <2> QED
        BY <2>1, <2>2
<1>2. HookRound /\ UNCHANGED vars => HookRound'
    BY DEF HookRound, vars, builderVars
<1> QED
    BY <1>1, <1>2 DEF HookRound

LEMMA InitHookRound == Init => HookRound
BY IdleType DEF Init, HookRound, Hooking

LEMMA HookRoundInvariant == Spec => [](HookRound /\ Lineage)
BY InitHookRound, InitJobsInv, LineageKept, HookRoundKept, BuilderInvariant, PTL DEF Spec

\* What a hook makes of its target.
LEMMA TriggeredFields ==
    ASSUME NEW hook \in Hook, NEW copy, copy.spec \in BuilderSpecs, NEW target \in DeployerObject
    PROVE  LET new == Triggered(hook, copy, target) IN
           /\ new \in DeployerObject
           /\ new.exists = target.exists /\ new.currentRound = target.currentRound
           /\ new.round = IF hook.forceRound THEN copy.spec.round ELSE target.currentRound + 1
           /\ new.image = IF hook.dynamicImage THEN copy.spec.destination ELSE hook.image
<1> DEFINE round == IF hook.forceRound THEN copy.spec.round ELSE target.currentRound + 1
           image == IF hook.dynamicImage THEN copy.spec.destination ELSE hook.image
<1>1. Triggered(hook, copy, target) = [target EXCEPT !.round = round, !.image = image]
    BY DEF Triggered
<1>2. Triggered(hook, copy, target) \in DeployerObject
    BY TriggeredType
<1> HIDE DEF round, image
<1>3. LET new == [target EXCEPT !.round = round, !.image = image] IN
      /\ new.exists = target.exists /\ new.currentRound = target.currentRound
      /\ new.round = round /\ new.image = image
    BY DEF DeployerObject
<1> QED
    BY <1>1, <1>2, <1>3 DEF round, image

\* A deployer that some hook forces to the round of its builder.
Forced(d) ==
    \E s \in BuilderSpecs : \E i \in 1 .. Len(s.hooks) :
        s.hooks[i].deployer = d /\ s.hooks[i].forceRound

\* What a hook has read is what it writes over; a deployer that is not forced is
\* asked for the round after its own at most.
CacheCurrent == \A d \in Deployers : deployerFresh[d] => deployerCache[d] = deployer[d]

TargetInv ==
    /\ CacheCurrent
    /\ run.pc = "hookUpdate" /\ run.targetFresh => run.target = deployer[TheHook.deployer]
    /\ \A d \in Deployers : ~Forced(d) => deployer[d].round <= deployer[d].currentRound + 1

LEMMA StoreKeepsCurrent ==
    ASSUME DeployersOK, CacheCurrent, NEW d \in Deployers, NEW new, StoreDeployer(d, new)
    PROVE  /\ CacheCurrent'
           /\ deployer'[d] = new
           /\ \A c \in Deployers : c # d => deployer'[c] = deployer[c]
<1>1. DeployersLag \in BOOLEAN
    BY BuilderAssumption
<1> QED
    BY <1>1 DEF DeployersOK, CacheCurrent, StoreDeployer

\* What others than hooks write to a deployer.
LEMMA WriterWrites ==
    ASSUME DeployersOK, DeployerWriter
    PROVE  \E d \in Deployers, new \in DeployerObject :
               /\ WriteDeployer(d, new)
               /\ \/ /\ new.exists /\ deployer[d].exists /\ new.image = deployer[d].image
                     /\ new.round = deployer[d].round
                     /\ new.currentRound \in {deployer[d].currentRound, deployer[d].round}
                  \/ DeployersChange /\ ~deployer[d].exists /\ new = NewDeployer
                  \/ DeployersChange /\ new = AbsentDeployer
<1>1. PICK d \in Deployers :
          \/ DeployerMovesOn(d) \/ DeployerReports(d)
          \/ DeployersChange /\ ~deployer[d].exists /\ WriteDeployer(d, NewDeployer)
          \/ DeployersChange /\ deployer[d].exists /\ WriteDeployer(d, AbsentDeployer)
    BY DEF DeployerWriter
<1>2. deployer[d] \in DeployerObject
    BY DEF DeployersOK
<1>3. CASE DeployerMovesOn(d)
    <2> DEFINE new == [deployer[d] EXCEPT !.currentRound = deployer[d].round]
    <2>1. /\ new \in DeployerObject /\ new.exists = deployer[d].exists
          /\ new.image = deployer[d].image /\ new.round = deployer[d].round
          /\ new.currentRound = deployer[d].round
        BY <1>2 DEF DeployerObject
    <2>2. WriteDeployer(d, new) /\ deployer[d].exists
        BY <1>3 DEF DeployerMovesOn
    <2> HIDE DEF new
    <2> QED
        BY <2>1, <2>2
<1>4. CASE DeployerReports(d)
    BY <1>2, <1>4 DEF DeployerReports
<1> QED
    BY <1>1, <1>3, <1>4, NewDeployerType, AbsentDeployerType

LEMMA TargetKept == BuilderInv /\ TargetInv /\ [Next]_vars => TargetInv'
<1>1. ASSUME BuilderInv, TargetInv, Next PROVE TargetInv'
    <2>0. /\ DeployersOK /\ CacheCurrent /\ run \in RunType
          /\ \A d \in Deployers : deployer[d] \in DeployerObject
        BY <1>1 DEF BuilderInv, RunOK, DeployersOK, TargetInv
    <2>1. CASE HookUpdate
        <3> DEFINE new == Triggered(TheHook, run.copy, run.target)
                   d == TheHook.deployer
        <3>1. /\ run.pc \in Hooking /\ run.pc = "hookUpdate" /\ run.targetFresh
              /\ run.target \in DeployerObject /\ run' = AfterHook
            BY <2>0, <2>1 DEF HookUpdate, At, Hooking, RunType
        <3>2. /\ TheHook \in Hook /\ run.copy.spec \in BuilderSpecs
              /\ run.hook \in 1 .. Len(run.copy.spec.hooks)
            BY <1>1, <3>1, TheHookType
        <3>3. /\ new.exists = run.target.exists /\ new.currentRound = run.target.currentRound
              /\ new.round = IF TheHook.forceRound THEN run.copy.spec.round
                                                  ELSE run.target.currentRound + 1
            BY <3>1, <3>2, TriggeredFields
        <3>4. StoreDeployer(d, new) /\ d \in Deployers
            BY <1>1, <2>1, HookUpdateStores
        <3> HIDE DEF new
        <3>5. /\ CacheCurrent' /\ deployer'[d] = new
              /\ \A c \in Deployers : c # d => deployer'[c] = deployer[c]
            BY <2>0, <3>4, StoreKeepsCurrent
        <3>6. run'.pc # "hookUpdate"
            BY <1>1, <3>1, AfterHookGoes
        <3>7. ~Forced(d) => ~TheHook.forceRound
            BY <3>2 DEF Forced, TheHook
        <3>8. run.target.currentRound \in Int
            BY <3>1 DEF DeployerObject
        <3>9. ~Forced(d) => deployer'[d].round <= deployer'[d].currentRound + 1
            BY <3>3, <3>5, <3>7, <3>8
        <3> QED
            BY <1>1, <3>5, <3>6, <3>9 DEF TargetInv
    <2>2. CASE DeployerWriter
        <3>1. PICK d \in Deployers, new \in DeployerObject :
                  /\ WriteDeployer(d, new)
                  /\ \/ /\ new.exists /\ deployer[d].exists /\ new.image = deployer[d].image
                        /\ new.round = deployer[d].round
                        /\ new.currentRound \in {deployer[d].currentRound, deployer[d].round}
                     \/ DeployersChange /\ ~deployer[d].exists /\ new = NewDeployer
                     \/ DeployersChange /\ new = AbsentDeployer
            BY <2>0, <2>2, WriterWrites
        <3>2. /\ CacheCurrent' /\ deployer'[d] = new
              /\ \A c \in Deployers : c # d => deployer'[c] = deployer[c]
            BY <2>0, <3>1, StoreKeepsCurrent DEF WriteDeployer
        <3>3. ~Forced(d) => new.round <= new.currentRound + 1
            <4>1. ~Forced(d) => deployer[d].round <= deployer[d].currentRound + 1
                BY <1>1 DEF TargetInv
            <4>2. new.round \in Int /\ new.currentRound \in Int
                BY DEF DeployerObject
            <4>3. /\ NewDeployer.round = -1 /\ NewDeployer.currentRound = 0
                  /\ AbsentDeployer.round = 0 /\ AbsentDeployer.currentRound = 0
                BY DEF NewDeployer, AbsentDeployer
            <4> QED
                BY <3>1, <4>1, <4>2, <4>3
        <3>4. ASSUME run'.pc = "hookUpdate", run'.targetFresh
              PROVE  run'.target = deployer'[run'.copy.spec.hooks[run'.hook].deployer]
            <4>1. /\ run'.pc = run.pc /\ run'.copy = run.copy /\ run'.hook = run.hook
                  /\ run'.target = run.target
                  /\ run.targetFresh /\ (run.pc = "hookUpdate" => TheHook.deployer # d)
                BY <2>0, <3>1, <3>4 DEF WriteDeployer, RunType, TheHook
            <4>2. TheHook \in Hook
                BY <1>1, <3>4, <4>1, TheHookType DEF Hooking
            <4>3. TheHook.deployer \in Deployers /\ TheHook.deployer # d
                BY <3>4, <4>1, <4>2 DEF Hook
            <4>4. run.target = deployer[TheHook.deployer]
                BY <1>1, <3>4, <4>1 DEF TargetInv
            <4> QED
                BY <3>2, <4>1, <4>3, <4>4 DEF TheHook
        <3> QED
            BY <1>1, <3>2, <3>3, <3>4 DEF TargetInv, TheHook
    <2>3. CASE UNCHANGED deployer
        <3>1. CacheCurrent'
            <4>1. ASSUME NEW d \in Deployers, SyncDeployer(d) PROVE CacheCurrent'
                BY <2>0, <4>1 DEF SyncDeployer, CacheCurrent, DeployersOK
            <4>2. CASE Start
                BY <4>2 DEF Start, CacheCurrent
            <4>3. CASE UNCHANGED deployerVars
                BY <2>0, <4>3 DEF deployerVars, CacheCurrent
            <4>4. \/ UNCHANGED deployerVars \/ HookUpdate \/ DeployerWriter \/ Start
                  \/ \E d \in Deployers : SyncDeployer(d)
                BY <1>1, DeployerWriters
            <4> QED
                BY <2>1, <2>2, <4>1, <4>2, <4>3, <4>4 DEF TargetInv
        <3>2. ASSUME run'.pc = "hookUpdate", run'.targetFresh
              PROVE  run'.target = deployer'[run'.copy.spec.hooks[run'.hook].deployer]
            <4>1. CASE BuilderController
                <5>1. Reads
                    <6>1. GoesOn => run'.pc # "hookUpdate"
                        BY <1>1, AfterHookGoes DEF GoesOn, Hooking
                    <6> QED
                        BY <1>1, <3>2, <4>1, <6>1, HookSteps
                        DEF Begins, Watches, Creates, Fails, Hooking
                <5>2. TheHook \in Hook
                    BY <1>1, <5>1, TheHookType DEF Reads, Hooking
                <5>3. TheHook.deployer \in Deployers /\ deployerFresh[TheHook.deployer]
                    BY <3>2, <5>1, <5>2 DEF Reads, Hook
                <5> QED
                    BY <2>0, <2>3, <5>1, <5>3 DEF Reads, TheHook, CacheCurrent
            <4>2. CASE ~BuilderController
                BY <1>1, <2>3, <3>2, <4>2, OthersKeepHooks DEF TargetInv, TheHook, Hooking
            <4> QED
                BY <4>1, <4>2
        <3> QED
            BY <1>1, <2>3, <3>1, <3>2 DEF TargetInv, TheHook
    <2> QED
        BY <1>1, <2>1, <2>2, <2>3, DeployerWriters DEF deployerVars, Start, SyncDeployer
<1>2. TargetInv /\ UNCHANGED vars => TargetInv'
    BY DEF TargetInv, CacheCurrent, TheHook, vars, deployerVars
<1> QED
    BY <1>1, <1>2

LEMMA InitTarget == Init => TargetInv
<1> SUFFICES ASSUME Init PROVE TargetInv
    OBVIOUS
<1>1. \A d \in Deployers : deployer[d] = AbsentDeployer \/ deployer[d] = NewDeployer
    BY DEF Init
<1>2. /\ AbsentDeployer.round = 0 /\ AbsentDeployer.currentRound = 0
      /\ NewDeployer.round = -1 /\ NewDeployer.currentRound = 0
    BY DEF AbsentDeployer, NewDeployer
<1>3. \A d \in Deployers : deployer[d].round <= deployer[d].currentRound + 1
    BY <1>1, <1>2
<1> QED
    BY <1>3, IdleType DEF Init, TargetInv, CacheCurrent

\* A deployer is forced by all the hooks that trigger it, or by none.
HooksOfOneKind ==
    \A s \in BuilderSpecs : \A i \in 1 .. Len(s.hooks) :
        Forced(s.hooks[i].deployer) => s.hooks[i].forceRound

OneBuilder == \A b, c \in Builders : b = c

\* The rounds that a builder has had are no later than its own.
RoundsOf(b) ==
    {builder[b].currentRound}
        \cup {builder[b].history[i].round : i \in 1 .. Len(builder[b].history)}

LEMMA RoundsAreEarlier ==
    ASSUME BuilderInv, Ledgers!HistoryIsOrdered, NEW b \in Builders, NEW r \in RoundsOf(b)
    PROVE  r \in Int /\ r <= builder[b].currentRound
<1>1. builder[b].currentRound \in Int /\ builder[b].history \in Seq(HistoryEntry)
    BY RoundsAreInt DEF BuilderInv, BuilderOK, BuilderObject
<1>2. Viewed[b].currentRound = builder[b].currentRound /\ Viewed[b].history = builder[b].history
    BY ViewedType, ViewType DEF BuilderInv, BuilderOK
<1>3. ASSUME NEW i \in 1 .. Len(builder[b].history)
      PROVE  /\ builder[b].history[i].round \in Int
             /\ builder[b].history[i].round < builder[b].currentRound
    <2>1. builder[b].history[i] \in HistoryEntry
        BY <1>1, <1>3, ElementOfSeq
    <2>2. builder[b].history[i].round < builder[b].currentRound
        BY <1>2, <1>3 DEF Ledgers!HistoryIsOrdered
    <2> QED
        BY <2>1, <2>2 DEF HistoryEntry
<1> QED
    BY <1>1, <1>3 DEF RoundsOf

\* The rounds in the history of a builder increase, whatever happens.
THEOREM BuilderHistoriesAreOrdered == Spec => []Ledgers!HistoryIsOrdered
<1>1. Ledgers!HaveRounds
    BY BuilderAssumption DEF Ledgers!HaveRounds
<1>2. Ledgers!Spec => []Ledgers!HistoryIsOrdered
    BY <1>1, Ledgers!HistoriesAreOrdered
<1> QED
    BY <1>2, BuildersAreLedgers, PTL

\* With one builder, each of whose deployers is forced by all its hooks or by
\* none: no hook, from whatever stale copy it runs, however often it is repeated
\* and wherever the manager stops, sends a deployer back from a round that the
\* builder has built.
THEOREM HooksNeverSendBack == OneBuilder /\ HooksOfOneKind /\ Spec => ForcedRoundsGrow
<1> DEFINE Grows == \A d \in Deployers, b \in Builders :
               (/\ deployer[d].exists /\ deployer'[d].exists
                /\ \/ deployer[d].round = builder[b].currentRound
                   \/ \E i \in 1 .. Len(builder[b].history) :
                          deployer[d].round = builder[b].history[i].round)
                   => deployer'[d].round >= deployer[d].round
           Inv == BuilderInv /\ HookRound /\ TargetInv /\ Ledgers!HistoryIsOrdered
<1>1. ASSUME OneBuilder, HooksOfOneKind, Inv, Next PROVE Grows
    <2> SUFFICES ASSUME NEW d \in Deployers, NEW b \in Builders,
                        deployer[d].exists, deployer'[d].exists,
                        deployer[d].round \in RoundsOf(b)
                 PROVE  deployer'[d].round >= deployer[d].round
        BY DEF RoundsOf
    <2>0. /\ deployer[d].round \in Int /\ deployer[d].currentRound \in Int
          /\ deployer[d].round <= builder[b].currentRound
          /\ DeployersOK /\ CacheCurrent
        BY <1>1, RoundsAreEarlier DEF BuilderInv, DeployersOK, DeployerObject, TargetInv
    <2>1. CASE HookUpdate
        <3> DEFINE new == Triggered(TheHook, run.copy, run.target)
                   c == TheHook.deployer
        <3>1. /\ run.pc \in Hooking /\ run.pc = "hookUpdate" /\ run.targetFresh
              /\ run.target \in DeployerObject
            BY <1>1, <2>1 DEF HookUpdate, At, Hooking, BuilderInv, RunOK, RunType
        <3>2. /\ TheHook \in Hook /\ run.copy.spec \in BuilderSpecs
              /\ run.hook \in 1 .. Len(run.copy.spec.hooks) /\ run.b \in Builders
            BY <1>1, <3>1, TheHookType DEF BuilderInv, RunOK, Working, Hooking
        <3>3. new.round = IF TheHook.forceRound THEN run.copy.spec.round
                                                ELSE run.target.currentRound + 1
            BY <3>1, <3>2, TriggeredFields
        <3>4. StoreDeployer(c, new) /\ c \in Deployers
            BY <1>1, <2>1, HookUpdateStores
        <3> HIDE DEF new
        <3>5. deployer'[c] = new /\ \A e \in Deployers : e # c => deployer'[e] = deployer[e]
            BY <2>0, <3>4, StoreKeepsCurrent
        <3>6. CASE d # c
            BY <2>0, <3>5, <3>6
        <3>7. CASE d = c /\ TheHook.forceRound
            <4>1. run.copy.spec.round = builder[run.b].currentRound /\ run.b = b
                BY <1>1, <3>1, <3>2 DEF HookRound, OneBuilder
            <4> QED
                BY <2>0, <3>3, <3>5, <3>7, <4>1
        <3>8. CASE d = c /\ ~TheHook.forceRound
            <4>1. ~Forced(d)
                BY <1>1, <3>2, <3>8 DEF HooksOfOneKind, TheHook
            <4>2. /\ deployer[d].round <= deployer[d].currentRound + 1
                  /\ run.target = deployer[d]
                BY <1>1, <3>1, <3>8, <4>1 DEF TargetInv
            <4> QED
                BY <2>0, <3>3, <3>5, <3>8, <4>2
        <3> QED
            BY <3>6, <3>7, <3>8
    <2>2. CASE DeployerWriter
        <3>1. PICK c \in Deployers, new \in DeployerObject :
                  /\ WriteDeployer(c, new)
                  /\ \/ /\ new.exists /\ deployer[c].exists /\ new.image = deployer[c].image
                        /\ new.round = deployer[c].round
                        /\ new.currentRound \in {deployer[c].currentRound, deployer[c].round}
                     \/ DeployersChange /\ ~deployer[c].exists /\ new = NewDeployer
                     \/ DeployersChange /\ new = AbsentDeployer
            BY <2>0, <2>2, WriterWrites
        <3>2. deployer'[c] = new /\ \A e \in Deployers : e # c => deployer'[e] = deployer[e]
            BY <2>0, <3>1, StoreKeepsCurrent DEF WriteDeployer
        <3>3. ~AbsentDeployer.exists
            BY DEF AbsentDeployer
        <3> QED
            BY <2>0, <3>1, <3>2, <3>3
    <2>3. CASE UNCHANGED deployer
        BY <2>0, <2>3
    <2> QED
        BY <1>1, <2>1, <2>2, <2>3, DeployerWriters DEF deployerVars, Start, SyncDeployer
<1>2. OneBuilder /\ HooksOfOneKind => (OneBuilder /\ HooksOfOneKind)'
    BY DEF OneBuilder, HooksOfOneKind, Forced
<1>3. OneBuilder /\ HooksOfOneKind /\ Inv /\ [Next]_vars => [Grows]_vars
    BY <1>1
<1> QED
    BY <1>2, <1>3, BuilderHistoriesAreOrdered, BuilderInvariant, HookRoundInvariant, InitTarget,
       TargetKept, PTL DEF Spec, ForcedRoundsGrow

-----------------------------------------------------------------------------
(* A build is called Done when its hooks were heard. *)

\* What the deployer of a hook is asked for once the hook was heard.
Heard(hook, spec) ==
    LET object == deployer[hook.deployer] IN
    /\ hook.dynamicImage => object.image = spec.destination
    /\ hook.forceRound => object.round >= spec.round

\* Of two hooks of a builder on one deployer, the later asks for what the
\* earlier has asked for.
HooksAgree ==
    \A s \in BuilderSpecs : \A i, j \in 1 .. Len(s.hooks) :
        i < j /\ s.hooks[i].deployer = s.hooks[j].deployer =>
            /\ s.hooks[i].dynamicImage => s.hooks[j].dynamicImage
            /\ s.hooks[i].forceRound => s.hooks[j].forceRound

Succeeded(b, r) == jobs[b][r].state = "Succeeded"

AllThere == \A d \in Deployers : deployer[d].exists /\ deployerCache[d].exists

\* While jobs are read as they are and deployers stay: the job of a hook's round
\* has succeeded, the hooks before it were heard, and whoever is about to call
\* the build Done knows that of all.
HeardInv ==
    /\ AllThere
    /\ run.pc \in Building => run.copy.phase = "Pending"
    /\ run.pc \in Hooking =>
           /\ Succeeded(run.b, run.copy.spec.round)
           /\ \A i \in 1 .. Len(run.copy.spec.hooks) :
                  i < run.hook => Heard(run.copy.spec.hooks[i], run.copy.spec)
    /\ /\ run.pc = "publish" /\ run.copy.phase = "Done"
       /\ run.fresh /\ builder[run.b].phase # "Done"
       /\ run.copy.spec.hooks # <<>>
       => /\ Succeeded(run.b, run.copy.spec.round)
          /\ \A i \in 1 .. Len(run.copy.spec.hooks) :
                 Heard(run.copy.spec.hooks[i], run.copy.spec)

\* A job that has succeeded stays, unless its builder is gone or cleaned up.
LEMMA StaysSucceeded ==
    ASSUME BuilderInv, Next, NEW b \in Builders, NEW r \in RoundNumbers, Succeeded(b, r),
           builder[b].exists, run.pc \in Hooking \cup {"publish"}
    PROVE  Succeeded(b, r)'
<1>0. JobsOK
    BY DEF BuilderInv
<1>1. CASE UNCHANGED jobs
    BY <1>1 DEF Succeeded
<1>2. ASSUME NEW c \in Builders, NEW q \in RoundNumbers, MovePod(c, q) PROVE Succeeded(b, r)'
    <2>1. \E move \in PodMoves("job") : jobs[c][q].state = move[1]
        BY <1>2 DEF MovePod
    <2>2. ~(c = b /\ q = r)
        BY <2>1 DEF Succeeded, PodMoves
    <2>3. /\ \A s \in RoundNumbers : s # q => jobs'[c][s] = jobs[c][s]
          /\ \A e \in Builders : e # c => jobs'[e] = jobs[e]
        BY <1>0, <1>2, MovedJob
    <2> QED
        BY <2>2, <2>3 DEF Succeeded
<1>3. ASSUME NEW c \in Builders, CollectGarbage(c) PROVE Succeeded(b, r)'
    <2>1. c # b
        BY <1>3 DEF CollectGarbage
    <2> QED
        BY <1>0, <1>3, <2>1, CollectedJobs DEF Succeeded
<1>4. CASE BuilderController
    <2>1. UNCHANGED jobs
        BY <1>4 DEF BuilderController, Conflict, AddFinalizer, DropFinalizer, Undo, Cleanup, Save,
                    HandleMissing, DeleteDockerfile, CreateDockerfile, CreateJob, HandleFails,
                    HandleWatch, HookGet, HookUpdate, HookFails, Publish, At, Hooking, jobVars
    <2> QED
        BY <1>1, <2>1
<1> QED
    BY <1>1, <1>2, <1>3, <1>4, JobWriters DEF jobVars, SyncJobs, OrphanEnds, Start

\* Only a hook makes a deployer forget what it was asked for.
LEMMA StaysHeard ==
    ASSUME BuilderInv, ~DeployersChange, Next, ~HookUpdate,
           NEW hook \in Hook, NEW spec, Heard(hook, spec)
    PROVE  Heard(hook, spec)'
<1>0. DeployersOK /\ hook.deployer \in Deployers
    BY DEF BuilderInv, Hook
<1>1. CASE DeployerWriter
    <2>1. PICK c \in Deployers, new \in DeployerObject :
              /\ StoreDeployer(c, new)
              /\ new.image = deployer[c].image /\ new.round = deployer[c].round
        BY <1>0, <1>1, WriterWrites DEF WriteDeployer
    <2>2. deployer'[c] = new /\ \A e \in Deployers : e # c => deployer'[e] = deployer[e]
        BY <1>0, <2>1 DEF StoreDeployer, DeployersOK
    <2> QED
        BY <1>0, <2>1, <2>2 DEF Heard
<1>2. CASE UNCHANGED deployer
    BY <1>2 DEF Heard
<1> QED
    BY <1>1, <1>2, DeployerWriters DEF deployerVars, Start, SyncDeployer

\* A hook is heard by its deployer, and leaves those before it heard.
LEMMA HookIsHeard ==
    ASSUME BuilderInv, HooksAgree, HookUpdate,
           NEW i \in 1 .. Len(run.copy.spec.hooks),
           i < run.hook => Heard(run.copy.spec.hooks[i], run.copy.spec), i <= run.hook
    PROVE  LET hook == run.copy.spec.hooks[i]
               object == deployer'[hook.deployer] IN
           /\ hook.dynamicImage => object.image = run.copy.spec.destination
           /\ hook.forceRound => object.round >= run.copy.spec.round
<1> DEFINE new == Triggered(TheHook, run.copy, run.target)
           c == TheHook.deployer
           hook == run.copy.spec.hooks[i]
           d == hook.deployer
<1>1. /\ run.pc \in Hooking /\ run.target \in DeployerObject /\ DeployersOK
    BY DEF HookUpdate, At, Hooking, BuilderInv, RunOK, RunType
<1>2. /\ TheHook \in Hook /\ run.copy.spec \in BuilderSpecs
      /\ run.hook \in 1 .. Len(run.copy.spec.hooks)
    BY <1>1, TheHookType
<1>3. /\ new.round = IF TheHook.forceRound THEN run.copy.spec.round
                                            ELSE run.target.currentRound + 1
      /\ new.image = IF TheHook.dynamicImage THEN run.copy.spec.destination ELSE TheHook.image
    BY <1>1, <1>2, TriggeredFields
<1>4. StoreDeployer(c, new) /\ c \in Deployers
    BY HookUpdateStores
<1> HIDE DEF new
<1>5. deployer'[c] = new /\ \A e \in Deployers : e # c => deployer'[e] = deployer[e]
    BY <1>1, <1>4 DEF StoreDeployer, DeployersOK
<1>6. hook \in Hook /\ d \in Deployers /\ run.copy.spec.round \in Int
    BY <1>2, HookOfSpec, SpecFields DEF Hook
<1>7. d = c => /\ hook.dynamicImage => TheHook.dynamicImage
               /\ hook.forceRound => TheHook.forceRound
    BY <1>2 DEF HooksAgree, TheHook
<1>8. CASE d = c
    BY <1>3, <1>5, <1>6, <1>7, <1>8
<1>9. CASE d # c
    <2>1. i < run.hook
        BY <1>2, <1>9 DEF TheHook
    <2> QED
        BY <1>5, <1>6, <1>9, <2>1 DEF Heard
<1> QED
    BY <1>8, <1>9

LEMMA AllThereKept ==
    ASSUME BuilderInv, ~DeployersChange, TargetInv, AllThere, Next PROVE AllThere'
<1>0. DeployersOK
    BY DEF BuilderInv
<1>1. ASSUME NEW d \in Deployers, NEW new, new.exists, StoreDeployer(d, new) PROVE AllThere'
    <2>1. \A e \in Deployers : deployer'[e].exists
        BY <1>0, <1>1 DEF StoreDeployer, AllThere, DeployersOK
    <2> QED
        BY <1>1, <2>1 DEF StoreDeployer, AllThere
<1>2. CASE HookUpdate
    <2> DEFINE new == Triggered(TheHook, run.copy, run.target)
    <2>1. /\ run.pc \in Hooking /\ run.pc = "hookUpdate" /\ run.targetFresh
          /\ run.target \in DeployerObject
        BY <1>2 DEF HookUpdate, At, Hooking, BuilderInv, RunOK, RunType
    <2>2. TheHook \in Hook /\ run.copy.spec \in BuilderSpecs
        BY <2>1, TheHookType
    <2>3. TheHook.deployer \in Deployers /\ StoreDeployer(TheHook.deployer, new)
        BY <1>2, HookUpdateStores
    <2>4. new.exists = run.target.exists
        BY <2>1, <2>2, TriggeredFields
    <2>5. run.target.exists
        BY <2>1, <2>3 DEF TargetInv, AllThere
    <2> HIDE DEF new
    <2> QED
        BY <1>1, <2>3, <2>4, <2>5
<1>3. CASE DeployerWriter
    BY <1>0, <1>1, <1>3, WriterWrites DEF WriteDeployer
<1>4. CASE UNCHANGED deployerVars
    BY <1>4 DEF deployerVars, AllThere
<1>5. CASE Start
    BY <1>5 DEF Start, AllThere
<1>6. ASSUME NEW d \in Deployers, SyncDeployer(d) PROVE AllThere'
    BY <1>0, <1>6 DEF SyncDeployer, AllThere, DeployersOK
<1> QED
    BY <1>2, <1>3, <1>4, <1>5, <1>6, DeployerWriters

\* From the creation of the job on the copy says Pending.
LEMMA PendingKept ==
    ASSUME BuilderInv, run.pc \in Building => run.copy.phase = "Pending", Next,
           run'.pc \in Building
    PROVE  run'.copy.phase = "Pending"
<1>0. run \in RunType /\ run.copy \in BuilderObject
    BY DEF BuilderInv, RunOK, RunType
<1>1. CASE HandleMissing
    <2> DEFINE pending == [run.copy EXCEPT !.phase = "Pending"]
    <2>1. pending.phase = "Pending"
        BY <1>0 DEF BuilderObject
    <2> HIDE DEF pending
    <2>2. Goto(IF pending.spec.raw THEN "dockerfile" ELSE "create", pending)
        BY <1>1 DEF HandleMissing, pending
    <2> QED
        BY <1>0, <2>1, <2>2 DEF Goto, RunType
<1>2. CASE CreateDockerfile
    <2>1. Goto("create", run.copy) /\ run.pc = "dockerfile"
        BY <1>2 DEF CreateDockerfile, At
    <2>2. run'.copy = run.copy
        BY <1>0, <2>1 DEF Goto, RunType
    <2> QED
        BY <2>1, <2>2 DEF Building
<1>3. CASE run'.pc = run.pc /\ run'.copy = run.copy
    BY <1>3
<1>4. CASE BuilderUser
    BY <1>3, <1>4, UserAsks, AsksKeepRun DEF BuilderInv
<1>5. CASE DeployerWriter
    BY <1>3, <1>5, WritersKeepRun
<1>6. ASSUME NEW b \in Builders, Get(b) PROVE FALSE
    BY <1>6, GetRuns, IdleType DEF Building, Route
<1>7. ~Crash /\ ~Start
    BY IdleType, DownType DEF Crash, Start, Building
<1>8. \/ BuilderController \/ BuilderUser \/ DeployerWriter \/ Crash \/ Start
      \/ run' = run
      \/ \E b \in Builders : Get(b)
    BY DEF Next, SyncBuilder, SyncJobs, Resync, CollectGarbage, MovePod, OrphanEnds, SyncDeployer
<1> QED
    BY <1>1, <1>2, <1>3, <1>4, <1>5, <1>6, <1>7, <1>8, ControllerGoes

\* What a reconciliation knows of its hooks when it goes on, or goes to report.
LEMMA HooksKnow ==
    ASSUME ~JobsLag, ~DeployersChange, HooksAgree, BuilderInv, HookRound, JobsSeen,
           TargetInv, HeardInv, Next, run'.pc \in Hooking \cup {"publish"},
           run'.pc = "publish" =>
               /\ run'.copy.phase = "Done" /\ run'.fresh /\ builder'[run'.b].phase # "Done"
               /\ run'.copy.spec.hooks # <<>>
    PROVE  /\ jobs'[run'.b][run'.copy.spec.round].state = "Succeeded"
           /\ \A i \in 1 .. Len(run'.copy.spec.hooks) :
                  run'.pc = "publish" \/ i < run'.hook =>
                      LET hook == run'.copy.spec.hooks[i]
                          object == deployer'[hook.deployer] IN
                      /\ hook.dynamicImage => object.image = run'.copy.spec.destination
                      /\ hook.forceRound => object.round >= run'.copy.spec.round
<1> DEFINE spec == run.copy.spec
           Told(i) == LET hook == spec.hooks[i]
                          object == deployer'[hook.deployer] IN
                      /\ hook.dynamicImage => object.image = spec.destination
                      /\ hook.forceRound => object.round >= spec.round
<1>0. /\ run'.b = run.b /\ run'.copy.spec = spec
      /\ run'.fresh => run.fresh /\ builder'[run.b] = builder[run.b]
      /\ run.pc \in {"handle", "create", "publish"} \cup Hooking
    BY HookSteps, OthersKeepHooks DEF Begins, Watches, Creates, Reads, GoesOn, Fails, Hooking
<1>1. /\ run.b \in Builders /\ run.copy.exists /\ spec \in BuilderSpecs
      /\ spec.round \in RoundNumbers
    BY <1>0, SpecFields DEF BuilderInv, RunOK, Working, Hooking
<1>2. \A i \in 1 .. Len(spec.hooks) : spec.hooks[i] \in Hook
    BY <1>1, HookOfSpec
<1>3. ASSUME run.pc \in Hooking \cup {"publish"}, Succeeded(run.b, spec.round)
      PROVE  jobs'[run.b][spec.round].state = "Succeeded"
    <2>1. builder[run.b].exists
        BY <1>3 DEF HookRound
    <2> QED
        BY <1>1, <1>3, <2>1, StaysSucceeded DEF Succeeded
<1>4. ASSUME ~HookUpdate, NEW i \in 1 .. Len(spec.hooks), Heard(spec.hooks[i], spec)
      PROVE  Told(i)
    BY <1>2, <1>4, StaysHeard DEF Heard
<1>5. CASE BuilderController
    <2>1. UNCHANGED builder
        BY <1>5, HookSteps
    <2>2. CASE Begins
        <3>1. jobsCache[run.b][spec.round] \in PodStates
            BY <1>1 DEF BuilderInv, JobsOK
        <3>2. jobsCache[run.b][spec.round] = "Succeeded"
            BY <2>2, <3>1 DEF Begins, SeenPhase, PhaseOfPod, PodStates
        <3>3. UNCHANGED jobs
            BY <2>2 DEF Begins, HandleWatch, jobVars
        <3>a. States(run.b)[spec.round] = jobs[run.b][spec.round].state
            BY <1>1 DEF States
        <3>b. jobsCache[run.b] = States(run.b)
            BY <1>1 DEF JobsSeen
        <3>4. jobs'[run.b][spec.round].state = "Succeeded"
            BY <3>2, <3>3, <3>a, <3>b
        <3>5. run'.pc = "hookGet" /\ run'.hook = 1
            BY <2>2 DEF Begins
        <3> QED
            BY <1>0, <3>4, <3>5
    <2>3. CASE Watches
        <3>1. run.pc = "handle" /\ run'.pc = "publish" /\ run.copy.phase = "Done"
            BY <1>0, <2>3 DEF Watches
        <3>2. run.copy = builder[run.b]
            BY <1>0, <3>1 DEF BuilderInv, RunOK, Agrees, Reading
        <3> QED
            BY <1>0, <2>1, <3>1, <3>2
    <2>4. CASE Creates
        BY <2>4 DEF Creates, HeardInv, Building
    <2>5. CASE Reads
        <3>1. /\ run.pc = "hookGet" /\ run'.pc = "hookUpdate" /\ run'.hook = run.hook
              /\ ~HookUpdate
            BY <2>5 DEF Reads, HookUpdate, At
        <3>2. /\ Succeeded(run.b, spec.round)
              /\ \A i \in 1 .. Len(spec.hooks) : i < run.hook => Heard(spec.hooks[i], spec)
            BY <3>1 DEF HeardInv, Hooking
        <3> QED
            BY <1>0, <1>3, <1>4, <3>1, <3>2 DEF Hooking
    <2>6. CASE GoesOn
        <3>1. run.pc \in Hooking /\ run' = AfterHook
            BY <2>6 DEF GoesOn, Hooking
        <3>2. TheHook.deployer \in Deployers /\ run.hook \in 1 .. Len(spec.hooks)
            BY <3>1, TheHookType DEF Hook
        <3>3. HookUpdate
            BY <2>6, <3>2 DEF GoesOn, HeardInv, AllThere
        <3>4. /\ Succeeded(run.b, spec.round)
              /\ \A i \in 1 .. Len(spec.hooks) : i < run.hook => Heard(spec.hooks[i], spec)
            BY <3>1 DEF HeardInv
        <3>5. \A i \in 1 .. Len(spec.hooks) : i <= run.hook => Told(i)
            BY <3>3, <3>4, HookIsHeard
        <3>6. \/ run'.pc = "hookGet" /\ run'.hook = run.hook + 1
              \/ run'.pc = "publish" /\ run.hook = Len(spec.hooks)
            BY <3>1, AfterHookGoes
        <3>7. \A i \in 1 .. Len(spec.hooks) :
                  run'.pc = "publish" \/ i < run'.hook => i <= run.hook
            BY <3>2, <3>6
        <3> QED
            BY <1>0, <1>3, <3>1, <3>4, <3>5, <3>7
    <2>7. CASE Fails
        BY <2>7 DEF Fails
    <2> QED
        BY <1>5, <2>2, <2>3, <2>4, <2>5, <2>6, <2>7, HookSteps
<1>6. CASE ~BuilderController
    <2>1. /\ run'.pc = run.pc /\ run'.copy = run.copy /\ run'.hook = run.hook
          /\ ~HookUpdate
        BY <1>6, OthersKeepHooks DEF BuilderController
    <2>2. CASE run.pc = "publish"
        <3>1. /\ run.copy.phase = "Done" /\ run.fresh /\ builder[run.b].phase # "Done"
              /\ spec.hooks # <<>>
            BY <1>0, <2>1, <2>2
        <3>2. /\ Succeeded(run.b, spec.round)
              /\ \A i \in 1 .. Len(spec.hooks) : Heard(spec.hooks[i], spec)
            BY <2>2, <3>1 DEF HeardInv
        <3> QED
            BY <1>0, <1>3, <1>4, <2>1, <2>2, <3>2
    <2>3. CASE run.pc \in Hooking
        <3>1. /\ Succeeded(run.b, spec.round)
              /\ \A i \in 1 .. Len(spec.hooks) : i < run.hook => Heard(spec.hooks[i], spec)
            BY <2>3 DEF HeardInv
        <3> QED
            BY <1>0, <1>3, <1>4, <2>1, <2>3, <3>1 DEF Hooking
    <2> QED
        BY <2>1, <2>2, <2>3
<1> QED
    BY <1>5, <1>6

LEMMA HeardKept ==
    ASSUME ~JobsLag, ~DeployersChange, HooksAgree, BuilderInv, HookRound, JobsSeen,
           TargetInv, HeardInv, Next
    PROVE  HeardInv'
<1>1. AllThere'
    BY AllThereKept DEF HeardInv
<1>2. run'.pc \in Building => run'.copy.phase = "Pending"
    BY PendingKept DEF HeardInv
<1>3. ASSUME run'.pc \in Hooking
      PROVE  /\ jobs'[run'.b][run'.copy.spec.round].state = "Succeeded"
             /\ \A i \in 1 .. Len(run'.copy.spec.hooks) :
                    i < run'.hook =>
                        LET hook == run'.copy.spec.hooks[i]
                            object == deployer'[hook.deployer] IN
                        /\ hook.dynamicImage => object.image = run'.copy.spec.destination
                        /\ hook.forceRound => object.round >= run'.copy.spec.round
    <2>1. run'.pc # "publish"
        BY <1>3 DEF Hooking
    <2> QED
        BY <1>3, <2>1, HooksKnow
<1>4. ASSUME run'.pc = "publish", run'.copy.phase = "Done", run'.fresh,
             builder'[run'.b].phase # "Done", run'.copy.spec.hooks # <<>>
      PROVE  /\ jobs'[run'.b][run'.copy.spec.round].state = "Succeeded"
             /\ \A i \in 1 .. Len(run'.copy.spec.hooks) :
                    LET hook == run'.copy.spec.hooks[i]
                        object == deployer'[hook.deployer] IN
                    /\ hook.dynamicImage => object.image = run'.copy.spec.destination
                    /\ hook.forceRound => object.round >= run'.copy.spec.round
    BY <1>4, HooksKnow
<1> QED
    BY <1>1, <1>2, <1>3, <1>4 DEF HeardInv, Succeeded, Heard

LEMMA InitHeard == ~DeployersChange /\ Init => HeardInv
<1> SUFFICES ASSUME ~DeployersChange, Init PROVE HeardInv
    OBVIOUS
<1>1. NewDeployer.exists
    BY DEF NewDeployer, AbsentDeployer
<1> QED
    BY <1>1, IdleType DEF Init, HeardInv, AllThere, Hooking, Building

\* Who calls a build Done.
LEMMA DoneIsPublished ==
    ASSUME BuilderInv, Next, NEW b \in Builders,
           builder[b].phase # "Done", builder'[b].phase = "Done"
    PROVE  /\ run.pc = "publish" /\ run.b = b /\ run.fresh /\ run.copy.phase = "Done"
           /\ run.copy.spec = builder[b].spec
<1>0. BuilderOK /\ run \in RunType /\ run.copy \in BuilderObject
    BY DEF BuilderInv, RunOK, RunType
<1>1. ASSUME NEW c \in Builders, NEW new \in BuilderObject, StoreBuilder(c, new)
      PROVE  c = b /\ new.phase = "Done"
    <2>1. builder'[c] = new /\ \A e \in Builders : e # c => builder'[e] = builder[e]
        BY <1>0, <1>1 DEF StoreBuilder, BuilderOK
    <2> QED
        BY <2>1
<1>2. BuilderController /\ \E new \in BuilderObject : Writes(new)
    <2>1. ASSUME NEW c \in Builders, NEW new \in BuilderObject, Asks(c, new) PROVE FALSE
        <3>1. c = b /\ new.phase = "Done"
            BY <1>1, <2>1 DEF Asks, WriteFromOutside
        <3>2. AbsentBuilder.phase = ""
            BY DEF AbsentBuilder
        <3> QED
            BY <2>1, <3>1, <3>2 DEF Asks
    <2> QED
        BY <2>1, BuilderWriters DEF builderVars, SyncBuilder, Start
<1>3. Working /\ run.fresh /\ run.b \in Builders /\ Agrees(run.pc, run.copy, builder[run.b])
    BY <1>2 DEF Writes, BuilderInv, RunOK
<1>4. ASSUME NEW new, new \in BuilderObject, StoreBuilder(run.b, new)
      PROVE  run.b = b /\ new.phase = "Done"
    BY <1>1, <1>3, <1>4
<1>5. ASSUME NEW phase \in Phases \ {"Done"},
             StoreBuilder(run.b, [run.copy EXCEPT !.phase = phase])
      PROVE  FALSE
    <2> DEFINE new == [run.copy EXCEPT !.phase = phase]
    <2>1. new \in BuilderObject /\ new.phase = phase
        BY <1>0, PhaseSet
    <2> HIDE DEF new
    <2>2. StoreBuilder(run.b, new)
        BY <1>5 DEF new
    <2> QED
        BY <1>4, <2>1, <2>2
<1>6. CASE HandleMissing \/ HandleFails \/ Undo
    <2>1. \E phase \in {"Pending", "Failed", "UNDO"} :
              PublishStatus([run.copy EXCEPT !.phase = phase])
        BY <1>3, <1>6 DEF HandleMissing, HandleFails, Undo, PublishStatus, Store
    <2> QED
        BY <1>3, <1>5, <2>1 DEF PublishStatus, Phases
<1>7. CASE AddFinalizer
    <2> DEFINE new == [run.copy EXCEPT !.finalizer = TRUE]
    <2>1. new \in BuilderObject /\ new.phase = run.copy.phase
        BY <1>0, FinalizerSet
    <2>2. StoreBuilder(run.b, new) /\ run.pc = "addFinalizer"
        BY <1>7 DEF AddFinalizer, Store, At
    <2> HIDE DEF new
    <2> QED
        BY <1>3, <1>4, <2>1, <2>2 DEF Agrees, Reading
<1>8. CASE DropFinalizer
    <2>1. StoreBuilder(run.b, AbsentBuilder)
        BY <1>8 DEF DropFinalizer, Store
    <2>2. AbsentBuilder \in BuilderObject
        BY AbsentBuilderType
    <2>3. AbsentBuilder.phase # "Done"
        BY DEF AbsentBuilder
    <2> QED
        BY <1>4, <2>1, <2>2, <2>3
<1>9. CASE Save
    <2>1. StoreBuilder(run.b, run.copy) /\ run.pc = "save"
        BY <1>9 DEF Save, Store, At
    <2> QED
        BY <1>0, <1>3, <1>4, <2>1 DEF Agrees
<1>10. CASE Publish
    <2>1. StoreBuilder(run.b, run.copy) /\ run.pc = "publish"
        BY <1>3, <1>10 DEF Publish, PublishStatus, At
    <2> QED
        BY <1>0, <1>3, <1>4, <2>1 DEF Agrees
<1>11. CASE UNCHANGED builderVars
    BY <1>11 DEF builderVars
<1> QED
    BY <1>2, <1>6, <1>7, <1>8, <1>9, <1>10, <1>11
    DEF BuilderController, Conflict, Cleanup, DeleteDockerfile, CreateDockerfile, CreateJob,
        HandleWatch, HookGet, HookUpdate, HookFails

\* While jobs are read as they are, deployers stay, a round has one destination
\* and the hooks of a builder agree: whenever a build is called Done, each
\* deployer of its hooks is asked for the image that the job of the round has
\* pushed, and for this round or a later one if it is forced, whatever conflicts
\* the hooks have met and however stale the copies of builders and deployers were.
THEOREM DoneAfterAllHooks ==
    ~JobsLag /\ ~DeployersChange /\ OneDestination /\ HooksAgree /\ Spec => DoneMeansTriggered
<1> DEFINE Assumed == ~JobsLag /\ ~DeployersChange /\ OneDestination /\ HooksAgree
           Inv == BuilderInv /\ HookRound /\ JobsSeen /\ TargetInv /\ JobsPushed /\ HeardInv
           Triggers ==
               \A b \in Builders :
                   builder[b].phase # "Done" /\ builder'[b].phase = "Done" =>
                       \A i \in 1 .. Len(builder[b].spec.hooks) :
                           LET hook == builder[b].spec.hooks[i]
                               d == hook.deployer
                               r == builder[b].currentRound IN
                           deployer[d].exists =>
                               /\ hook.dynamicImage => deployer[d].image = jobs[b][r].image
                               /\ hook.forceRound => deployer[d].round >= r
<1>1. ASSUME Inv, OneDestination, Next PROVE Triggers
    <2> SUFFICES ASSUME NEW b \in Builders,
                        builder[b].phase # "Done", builder'[b].phase = "Done",
                        NEW i \in 1 .. Len(builder[b].spec.hooks)
                 PROVE  LET hook == builder[b].spec.hooks[i]
                            d == hook.deployer
                            r == builder[b].currentRound IN
                        /\ hook.dynamicImage => deployer[d].image = jobs[b][r].image
                        /\ hook.forceRound => deployer[d].round >= r
        OBVIOUS
    <2> DEFINE spec == builder[b].spec
    <2>1. /\ run.pc = "publish" /\ run.b = b /\ run.fresh /\ run.copy.phase = "Done"
          /\ run.copy.spec = spec
        BY <1>1, DoneIsPublished
    <2>2. /\ builder[b].exists /\ spec.round = builder[b].currentRound
          /\ spec \in BuilderSpecs
        BY <1>1, <2>1 DEF HookRound, BuilderInv, RunOK, Working
    <2>3. spec.round \in RoundNumbers /\ spec.hooks \in Seq(Hook)
        BY <2>2, SpecFields
    <2>4. spec.hooks # <<>>
        BY <2>3
    <2>5. Succeeded(b, spec.round) /\ Heard(spec.hooks[i], spec)
        BY <1>1, <2>1, <2>4 DEF HeardInv
    <2>6. jobs[b][spec.round].image = spec.destination
        BY <1>1, <2>2, <2>3, <2>5 DEF JobsPushed, Succeeded
    <2> QED
        BY <2>2, <2>5, <2>6 DEF Heard
<1>2. Assumed => Assumed'
    BY DEF OneDestination, HooksAgree
<1>3. Assumed /\ Init => JobsPushed /\ HeardInv
    BY InitHeard, InitJobsPushed
<1>4. Assumed /\ Inv /\ [Next]_vars => (JobsPushed /\ HeardInv)'
    <2>1. ASSUME Assumed, Inv, Next PROVE (JobsPushed /\ HeardInv)'
        BY <2>1, NextKeepsJobsPushed, HeardKept
    <2>2. ASSUME Inv, UNCHANGED vars PROVE (JobsPushed /\ HeardInv)'
        BY <2>2 DEF HeardInv, AllThere, Heard, Succeeded, JobsPushed, IsPushed, vars, builderVars,
                    jobVars, deployerVars
    <2> QED
        BY <2>1, <2>2
<1>5. Assumed /\ Inv /\ [Next]_vars => [Triggers]_vars
    BY <1>1
<1>6. JobsInv => JobsSeen
    BY DEF JobsInv
<1> QED
    BY <1>2, <1>3, <1>4, <1>5, <1>6, BuilderInvariant, HookRoundInvariant, JobsInvariant,
       InitTarget, TargetKept, PTL DEF Spec, DoneMeansTriggered

=============================================================================
