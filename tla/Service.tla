------------------------------ MODULE Service ------------------------------
(***************************************************************************)
(* Deployers that are services: handleService with the stateful set of     *)
(* each round, the Service that selects the pods of the current one, its   *)
(* ports, the node ports that the API server gives them, and the status    *)
(* read from pods that are listed by labels over all namespaces.           *)
(*                                                                         *)
(* Deployer has the finalizer, deletion, the pools, the history and stale  *)
(* stateful sets; here a round is recorded in one step, stateful sets and  *)
(* pods are read as they are, and the handler is modelled call by call.    *)
(***************************************************************************)
EXTENDS CommonStatus, SequencesExt

CONSTANTS
    Deployers,
    Namesakes,      \* the pods that deployers of the same name may have in other
                    \* namespaces: records of a round and a pod state
    Specs,          \* the specs users may give a deployer
    NodePorts,      \* the ports that the API server may give a service
    None,
    DeployersLag,   \* TRUE: the cached copy of a deployer may be out of date
    ServicesLag,    \* TRUE: the cached services may be
    ApiErrors,      \* TRUE: the API server may reject a stateful set or a service
    Crashes         \* TRUE: the manager may crash; it is started again

\* `ports`: those of the containers, one container after the other.
Port == [protocol : {"tcp", "udp", "sctp"}, number : Nat, export : BOOLEAN]

ASSUME ServiceAssumption ==
    /\ Namesakes \subseteq [round : Int, state : PodStates]
    /\ Specs \subseteq [round : Int \ {0}, ports : Seq(Port)]
    /\ None \notin Deployers /\ None \notin Specs /\ None \notin NodePorts
    /\ {DeployersLag, ServicesLag, ApiErrors, Crashes} \subseteq BOOLEAN

VARIABLES
    dep, depCache, depFresh,                \* as in Deployer: server, cache, versions
    service, serviceCache, serviceFresh,    \* the Services, by their deployer
    queue,          \* the work queue of the deployer controller
    run,            \* the reconciliation in progress
    sets,           \* the stateful sets, by deployer and round, as the state of their pod
    namesake        \* the pods of a deployer's namesakes

depVars == <<dep, depCache, depFresh>>
serviceVars == <<service, serviceCache, serviceFresh>>
setVars == <<sets, namesake>>
vars == <<depVars, serviceVars, queue, run, setVars>>

RoundNumbers == {s.round : s \in Specs} \cup {0}

DeployerObject ==
    [exists : BOOLEAN, spec : Specs \cup {None}, phase : Phases, currentRound : Int]

AbsentDeployer == [exists |-> FALSE, spec |-> None, phase |-> "", currentRound |-> 0]

\* A port of a Service is known by its name, <protocol>-<number>; its node port
\* is None until the API server gives it one.
PortName(port) == <<port.protocol, port.number>>

ServicePort == [name : {PortName(p) : p \in UNION {Range(s.ports) : s \in Specs}},
                node : NodePorts \cup {None}]

\* The ports of a Service stand at the places that they have in the spec.
Places == UNION {DOMAIN s.ports : s \in Specs}

\* The selector of a Service is the owner's name, the round and the type.
ServiceObject ==
    [exists : BOOLEAN, round : RoundNumbers,
     ports : UNION {[places -> ServicePort] : places \in SUBSET Places}]

AbsentService == [exists |-> FALSE, round |-> 0, ports |-> <<>>]

NoSets == [r \in RoundNumbers |-> "none"]

Idle == [pc |-> "idle", d |-> None, copy |-> AbsentDeployer, fresh |-> FALSE,
         service |-> AbsentService, serviceFresh |-> FALSE]

\* The manager is not running.
Down == [Idle EXCEPT !.pc = "down"]

PCs == {"idle", "down", "undo", "save", "handle", "createSet", "updateService",
        "createService", "watch", "publish"}

Init ==
    /\ dep = [d \in Deployers |-> AbsentDeployer]
    /\ depCache = dep
    /\ depFresh = [d \in Deployers |-> TRUE]
    /\ service = [d \in Deployers |-> AbsentService]
    /\ serviceCache = service
    /\ serviceFresh = [d \in Deployers |-> TRUE]
    /\ queue = {}
    /\ run = Idle
    /\ sets = [d \in Deployers |-> NoSets]
    /\ namesake = [d \in Deployers |-> {}]

-----------------------------------------------------------------------------
(* The API server and the caches. *)

StoreDeployer(d, object) ==
    /\ dep' = [dep EXCEPT ![d] = object]
    /\ depCache' = IF DeployersLag THEN depCache ELSE dep'
    /\ depFresh' = [depFresh EXCEPT ![d] = (DeployersLag => @ /\ object = dep[d])]

Woken(d, object) == IF DeployersLag \/ object = dep[d] THEN {} ELSE {d}

StoreService(d, object) ==
    /\ service' = [service EXCEPT ![d] = object]
    /\ serviceCache' = IF ServicesLag THEN serviceCache ELSE service'
    /\ serviceFresh' = [serviceFresh EXCEPT ![d] = (ServicesLag => @ /\ object = service[d])]

SyncDeployer(d) ==
    /\ run.pc # "down"
    /\ ~depFresh[d]
    /\ depCache' = [depCache EXCEPT ![d] = dep[d]]
    /\ depFresh' = [depFresh EXCEPT ![d] = TRUE]
    /\ queue' = queue \cup {d}
    /\ UNCHANGED <<dep, serviceVars, run, setVars>>

\* Services are not watched: they wake nobody.
SyncService(d) ==
    /\ run.pc # "down"
    /\ ~serviceFresh[d]
    /\ serviceCache' = [serviceCache EXCEPT ![d] = service[d]]
    /\ serviceFresh' = [serviceFresh EXCEPT ![d] = TRUE]
    /\ UNCHANGED <<depVars, service, queue, run, setVars>>

MovePod(d, r) ==
    \E move \in PodMoves("service") :
        /\ sets[d][r] = move[1]
        /\ sets' = [sets EXCEPT ![d][r] = move[2]]
        /\ UNCHANGED <<depVars, serviceVars, queue, run, namesake>>

\* The pods of deployers of the same name elsewhere come and go.
MoveNamesake(d) ==
    \E pods \in {{}} \cup {{p} : p \in Namesakes} :
        /\ pods # namesake[d]
        /\ namesake' = [namesake EXCEPT ![d] = pods]
        /\ UNCHANGED <<depVars, serviceVars, queue, run, sets>>

\* A Service has ports, and no two of one name.
Accepted(object) ==
    /\ DOMAIN object.ports # {}
    /\ \A i, j \in DOMAIN object.ports :
           i # j => object.ports[i].name # object.ports[j].name

\* The node ports that a Service has are kept; free ones are given to the rest.
Given(object) ==
    LET taken == {p.node : p \in UNION {Range(service[e].ports) : e \in Deployers}
                                 \cup Range(object.ports)} IN
    {given \in [exists : {TRUE}, round : {object.round},
                ports : [DOMAIN object.ports -> ServicePort]] :
        /\ \A i \in DOMAIN object.ports :
               /\ given.ports[i].name = object.ports[i].name
               /\ IF object.ports[i].node # None
                    THEN given.ports[i].node = object.ports[i].node
                    ELSE given.ports[i].node \in NodePorts \ taken
        /\ \A i, j \in DOMAIN object.ports :
               i # j => given.ports[i].node # given.ports[j].node}

-----------------------------------------------------------------------------
(* The users. *)

WriteFromOutside(d, object) ==
    /\ StoreDeployer(d, object)
    /\ queue' = queue \cup Woken(d, object)
    /\ run' = IF run.d = d /\ object # dep[d] THEN [run EXCEPT !.fresh = FALSE] ELSE run
    /\ UNCHANGED <<serviceVars, setVars>>

CreateDeployer(d, spec) ==
    /\ ~dep[d].exists
    /\ WriteFromOutside(d, [AbsentDeployer EXCEPT !.exists = TRUE, !.spec = spec])

\* Also ports alone: that is no new round.
EditDeployer(d, spec) ==
    /\ dep[d].exists
    /\ spec # dep[d].spec
    /\ WriteFromOutside(d, [dep[d] EXCEPT !.spec = spec])

DeployerUser ==
    \E d \in Deployers, spec \in Specs : CreateDeployer(d, spec) \/ EditDeployer(d, spec)

-----------------------------------------------------------------------------
(* The reconciliation of a deployer. *)

At(pc) == run.pc = pc

Goto(pc, copy) == run' = [run EXCEPT !.pc = pc, !.copy = copy]

Return(requeue) ==
    /\ run' = Idle
    /\ queue' = IF requeue THEN queue \cup {run.d} ELSE queue

PublishStatus(object) ==
    IF run.fresh THEN StoreDeployer(run.d, object) ELSE UNCHANGED depVars

WokenByPublish(object) == IF run.fresh THEN Woken(run.d, object) ELSE {}

Get(d) ==
    LET seen == depCache[d] IN
    /\ At("idle")
    /\ d \in queue
    /\ queue' = queue \ {d}
    /\ run' = IF seen.exists
                THEN [Idle EXCEPT !.d = d, !.copy = seen, !.fresh = depFresh[d],
                                  !.pc = IF seen.spec.round < seen.currentRound THEN "undo"
                                         ELSE IF seen.spec.round > seen.currentRound THEN "save"
                                         ELSE "handle"]
                ELSE Idle
    /\ UNCHANGED <<depVars, serviceVars, setVars>>

\* UNDO, or the next round, goes to the server: an error comes back.  The old
\* stateful set and the Service stay as they are.
Record ==
    LET object == IF At("undo")
                    THEN [run.copy EXCEPT !.phase = "UNDO"]
                    ELSE [run.copy EXCEPT !.phase = "Pending",
                                          !.currentRound = run.copy.spec.round] IN
    /\ run.pc \in {"undo", "save"}
    /\ IF run.fresh
         THEN /\ StoreDeployer(run.d, object)
              /\ run' = Idle
              /\ queue' = queue \cup Woken(run.d, object)
                                \cup (IF At("save") THEN {run.d} ELSE {})
         ELSE Return(TRUE) /\ UNCHANGED depVars
    /\ UNCHANGED <<serviceVars, setVars>>

TheRound == run.copy.currentRound

\* No stateful set of the round: Pending is published before one is created.
HandleMissing ==
    LET object == [run.copy EXCEPT !.phase = "Pending"] IN
    /\ At("handle")
    /\ sets[run.d][TheRound] = "none"
    /\ PublishStatus(object)
    /\ Goto("createSet", object)
    /\ queue' = queue \cup WokenByPublish(object)
    /\ UNCHANGED <<serviceVars, setVars>>

CreateSet ==
    /\ At("createSet")
    /\ sets' = [sets EXCEPT ![run.d][TheRound] = "nopod"]
    /\ Goto("publish", run.copy)
    /\ UNCHANGED <<depVars, serviceVars, queue, namesake>>

Exported(spec) == {i \in DOMAIN spec.ports : spec.ports[i].export}

\* Mutant: every exported port is a new one.
WantedAnew(old, copy) ==
    [exists |-> TRUE, round |-> copy.currentRound,
     ports |-> [i \in Exported(copy.spec) |->
                   [name |-> PortName(copy.spec.ports[i]), node |-> None]]]

\* createOrUpdateService: what the Service becomes.  A port that the old one
\* has, by name, is taken over with its node port (searchInSvcPorts).
Wanted(old, copy) ==
    LET had(name) == {p \in Range(old.ports) : p.name = name}
        taken(name) == IF had(name) # {} THEN CHOOSE p \in had(name) : TRUE
                                         ELSE [name |-> name, node |-> None] IN
    [exists |-> TRUE, round |-> copy.currentRound,
     ports |-> [i \in Exported(copy.spec) |-> taken(PortName(copy.spec.ports[i]))]]

\* Mutant: a Service that exists is left alone.
ReadServiceOnce ==
    /\ At("handle")
    /\ sets[run.d][TheRound] # "none"
    /\ run' = IF serviceCache[run.d].exists
                THEN [run EXCEPT !.pc = "watch"]
                ELSE [run EXCEPT !.pc = "createService",
                                 !.service = Wanted(AbsentService, run.copy)]
    /\ UNCHANGED <<depVars, serviceVars, queue, setVars>>

\* The stateful set is there: the Service is read from the cache.
ReadService ==
    LET seen == serviceCache[run.d] IN
    /\ At("handle")
    /\ sets[run.d][TheRound] # "none"
    /\ run' = [run EXCEPT !.pc = IF seen.exists THEN "updateService" ELSE "createService",
                          !.service = Wanted(seen, run.copy),
                          !.serviceFresh = serviceFresh[run.d]]
    /\ UNCHANGED <<depVars, serviceVars, queue, setVars>>

\* The Service is written, and the pods are looked at.
WriteService ==
    /\ \E given \in Given(run.service) : StoreService(run.d, given)
    /\ run' = [run EXCEPT !.pc = "watch", !.service = AbsentService, !.serviceFresh = FALSE]
    /\ UNCHANGED <<depVars, queue, setVars>>

UpdateService ==
    /\ At("updateService")
    /\ run.serviceFresh
    /\ Accepted(run.service)
    /\ WriteService

\* CreateResource reads the live object and, by force, deletes it first.
DeleteService ==
    /\ At("createService")
    /\ service[run.d].exists
    /\ StoreService(run.d, AbsentService)
    /\ UNCHANGED <<depVars, queue, run, setVars>>

CreateService ==
    /\ At("createService")
    /\ ~service[run.d].exists
    /\ Accepted(run.service)
    /\ WriteService

\* Handle returns an error: Failed is published and the key comes back.
HandleFails ==
    LET object == [run.copy EXCEPT !.phase = "Failed"] IN
    /\ PublishStatus(object)
    /\ Return(TRUE)
    /\ UNCHANGED <<serviceVars, setVars>>

\* Mutant: the error is logged, and the pods are looked at.
ServiceErrorLogged ==
    /\ \/ At("updateService") /\ ~run.serviceFresh
       \/ run.pc \in {"updateService", "createService"} /\ ~Accepted(run.service)
    /\ Goto("watch", run.copy)
    /\ UNCHANGED <<depVars, serviceVars, queue, setVars>>

\* The Service has changed, or is not a valid one.
ServiceFails ==
    /\ \/ At("updateService") /\ ~run.serviceFresh
       \/ run.pc \in {"updateService", "createService"} /\ ~Accepted(run.service)
    /\ HandleFails

ApiRejects ==
    /\ ApiErrors
    /\ run.pc \in {"createSet", "updateService", "createService"}
    /\ HandleFails

\* The pods with the labels owner.name, round and type, in any namespace.
Listed ==
    {s \in {sets[run.d][TheRound]} : s \notin {"none", "nopod"}}
    \cup {p.state : p \in {q \in namesake[run.d] : q.round = TheRound}}

\* Mutant: the state of the pod is taken for the status.
WatchRaw ==
    /\ At("watch")
    /\ \E state \in IF Listed = {} THEN {"nopod"} ELSE Listed :
           Goto("publish", [run.copy EXCEPT !.phase = state])
    /\ UNCHANGED <<depVars, serviceVars, queue, setVars>>

\* GetStatusFromPod: the first of them determines the status.
Watch ==
    /\ At("watch")
    /\ \E state \in IF Listed = {} THEN {"nopod"} ELSE Listed :
           Goto("publish", [run.copy EXCEPT !.phase = PhaseOfPod[state]])
    /\ UNCHANGED <<depVars, serviceVars, queue, setVars>>

\* A service that runs does not ask to be looked at again.
Publish ==
    LET polls == ~HashDone(run.copy.phase) /\ run.copy.phase # "Doing" IN
    /\ At("publish")
    /\ PublishStatus(run.copy)
    /\ run' = Idle
    /\ queue' = queue \cup WokenByPublish(run.copy) \cup (IF polls THEN {run.d} ELSE {})
    /\ UNCHANGED <<serviceVars, setVars>>

ServiceController ==
    \/ Record \/ HandleMissing \/ CreateSet \/ ReadService \/ UpdateService
    \/ DeleteService \/ CreateService \/ ServiceFails \/ Watch \/ Publish

-----------------------------------------------------------------------------
Crash ==
    /\ Crashes
    /\ ~At("down")
    /\ run' = Down
    /\ UNCHANGED <<depVars, serviceVars, queue, setVars>>

Start ==
    /\ At("down")
    /\ run' = Idle
    /\ queue' = {d \in Deployers : dep[d].exists}
    /\ depCache' = dep
    /\ depFresh' = [d \in Deployers |-> TRUE]
    /\ serviceCache' = service
    /\ serviceFresh' = [d \in Deployers |-> TRUE]
    /\ UNCHANGED <<dep, service, setVars>>

Next ==
    \/ \E d \in Deployers : Get(d)
    \/ ServiceController \/ ApiRejects
    \/ DeployerUser
    \/ \E d \in Deployers :
           \/ SyncDeployer(d) \/ SyncService(d) \/ MoveNamesake(d)
           \/ \E r \in RoundNumbers : MovePod(d, r)
    \/ Crash \/ Start

Spec == Init /\ [][Next]_vars

-----------------------------------------------------------------------------
(* Properties. *)

TypeOK ==
    /\ dep \in [Deployers -> DeployerObject]
    /\ depCache \in [Deployers -> DeployerObject]
    /\ depFresh \in [Deployers -> BOOLEAN]
    /\ service \in [Deployers -> ServiceObject]
    /\ serviceCache \in [Deployers -> ServiceObject]
    /\ serviceFresh \in [Deployers -> BOOLEAN]
    /\ queue \in SUBSET Deployers
    /\ run \in [pc : PCs, d : Deployers \cup {None}, copy : DeployerObject, fresh : BOOLEAN,
                service : ServiceObject, serviceFresh : BOOLEAN]
    /\ sets \in [Deployers -> [RoundNumbers -> PodStates]]
    /\ namesake \in [Deployers -> SUBSET Namesakes]

\* The Service of a deployer serves the spec of an object: it selects the pods
\* of its round and has exactly the ports that the spec exports.
Serves(d, object) ==
    /\ service[d].exists
    /\ service[d].round = object.currentRound
    /\ {p.name : p \in Range(service[d].ports)}
           = {PortName(object.spec.ports[i]) : i \in Exported(object.spec)}

\* However stale the copies, a deployer is called Doing, which ends the polling,
\* only when its Service serves the round and the ports asked for.
DoingMeansServed ==
    [][\A d \in Deployers :
           dep[d].phase # "Doing" /\ dep'[d].phase = "Doing" => Serves(d, dep'[d])]_vars

\* However edits, rounds and stale copies overtake each other, nothing is left
\* wrong: while the manager runs, the Service of a deployer with no event on its
\* way and no reconciliation ahead serves what is asked for, unless that is an
\* earlier round.
AtRestServed ==
    ~At("down") =>
        \A d \in Deployers :
            dep[d].exists =>
                \/ d \in queue \/ run.d = d \/ ~depFresh[d]
                \/ dep[d].spec.round < dep[d].currentRound
                \/ Serves(d, dep[d])

\* A port that stays exported keeps its node port through every round, edit and
\* conflict, unless the Service was not yet in the cache when a reconciliation
\* looked for it: that one deletes and creates it again.
NodePortsAreKept ==
    [][\A d \in Deployers :
           service[d].exists /\ ~At("createService") =>
               /\ service'[d].exists
               /\ \A p \in Range(service[d].ports), q \in Range(service'[d].ports) :
                      p.name = q.name => p.node = q.node]_vars
=============================================================================
