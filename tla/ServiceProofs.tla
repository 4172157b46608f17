--------------------------- MODULE ServiceProofs ----------------------------
(***************************************************************************)
(* Proofs about Service: that a deployer of type service is called Doing,  *)
(* and left alone, only when its Service selects the pods of its round and *)
(* has the ports asked for, and that a port keeps its node port.           *)
(***************************************************************************)
EXTENDS Service, TLAPS

-----------------------------------------------------------------------------
(* The inductive invariant. *)

\* The deployers: types, a spec for what exists, and what current means.
DepOK ==
    /\ dep \in [Deployers -> DeployerObject]
    /\ depCache \in [Deployers -> DeployerObject]
    /\ depFresh \in [Deployers -> BOOLEAN]
    /\ \A d \in Deployers :
           /\ dep[d].exists => dep[d].spec \in Specs
           /\ depCache[d].exists => depCache[d].spec \in Specs
           /\ {dep[d].currentRound, depCache[d].currentRound} \subseteq RoundNumbers
           /\ depFresh[d] => depCache[d] = dep[d]
           /\ DeployersLag \/ depFresh[d]

\* A Service that exists has ports, each of its own name and with a node port.
Sound(object) ==
    object.exists => /\ Accepted(object)
                     /\ \A i \in DOMAIN object.ports : object.ports[i].node # None

ServiceOK ==
    /\ service \in [Deployers -> ServiceObject]
    /\ serviceCache \in [Deployers -> ServiceObject]
    /\ serviceFresh \in [Deployers -> BOOLEAN]
    /\ \A d \in Deployers : /\ Sound(service[d])
                            /\ serviceFresh[d] => serviceCache[d] = service[d]

SetsOK ==
    /\ queue \in SUBSET Deployers
    /\ sets \in [Deployers -> [RoundNumbers -> PodStates]]
    /\ namesake \in [Deployers -> SUBSET Namesakes]

RunType ==
    [pc : PCs, d : Deployers \cup {None}, copy : DeployerObject, fresh : BOOLEAN,
     service : ServiceObject, serviceFresh : BOOLEAN]

Working == run.pc \notin {"idle", "down"}

\* The deployer will be looked at.
Owed(d) == d \in queue \/ ~depFresh[d]

\* A Service, written or about to be, that is made for an object.
Fits(made, object) ==
    /\ made.exists
    /\ made.round = object.currentRound
    /\ DOMAIN made.ports = Exported(object.spec)
    /\ \A i \in DOMAIN made.ports : made.ports[i].name = PortName(object.spec.ports[i])

Writing == {"updateService", "createService"}

\* A status that ends the polling.
Final(phase) == HashDone(phase) \/ phase = "Doing"

\* The reconciliation: its copy is the server's but for the phase as long as it is
\* current, and when it is not the key comes back; a status that ends the polling
\* is on its way only after the Service has been written for the copy.
RunOK ==
    /\ run \in RunType
    /\ Working => /\ run.d \in Deployers /\ run.copy.exists
                  /\ run.copy.spec \in Specs /\ run.copy.currentRound \in RoundNumbers
                  /\ run.fresh \/ Owed(run.d)
    /\ ~Working => run.d = None
    /\ run.fresh => /\ Working
                    /\ run.copy = [dep[run.d] EXCEPT !.phase = run.copy.phase]
    /\ At("undo") => run.copy.spec.round < run.copy.currentRound
    /\ At("createSet") => run.copy.phase = "Pending"
    /\ run.pc \in Writing => Fits(run.service, run.copy)
    /\ At("updateService") /\ run.serviceFresh =>
           /\ service[run.d].exists
           /\ run.service = Wanted(service[run.d], run.copy)
    /\ At("watch") \/ (At("publish") /\ Final(run.copy.phase)) => Fits(service[run.d], run.copy)

\* At rest, what is asked for is served.
RestOK ==
    ~At("down") =>
        \A d \in Deployers :
            dep[d].exists =>
                \/ Owed(d) \/ run.d = d
                \/ dep[d].spec.round < dep[d].currentRound
                \/ Fits(service[d], dep[d])

ServiceInv == DepOK /\ ServiceOK /\ SetsOK /\ RunOK /\ RestOK

-----------------------------------------------------------------------------
(* Objects. *)

LEMMA RoundsAreInt == RoundNumbers \subseteq Int /\ 0 \in RoundNumbers
BY ServiceAssumption DEF RoundNumbers

LEMMA AbsentTypes ==
    /\ AbsentDeployer \in DeployerObject /\ ~AbsentDeployer.exists
    /\ AbsentDeployer.currentRound = 0 /\ AbsentDeployer.phase = ""
    /\ AbsentService \in ServiceObject /\ ~AbsentService.exists
<1>1. AbsentDeployer \in DeployerObject
    BY DEF AbsentDeployer, DeployerObject, Phases
<1>2. <<>> \in [{} -> ServicePort]
  <2>1. \A n : n \notin 1..0
      BY SMT
  <2>2. 1..0 = {}
      BY <2>1
  <2>3. <<>> \in [1..0 -> ServicePort]
      BY SMT
  <2> QED
      BY <2>2, <2>3, Zenon
<1>3. {} \in SUBSET Places
    OBVIOUS
<1>4. <<>> \in UNION {[places -> ServicePort] : places \in SUBSET Places}
    BY <1>2, <1>3, Zenon
<1>5. AbsentService \in ServiceObject
    BY <1>4, RoundsAreInt DEF AbsentService, ServiceObject
<1> QED
    BY <1>1, <1>5 DEF AbsentDeployer, AbsentService

LEMMA IdleTypes ==
    /\ Idle \in RunType /\ Idle.pc = "idle" /\ Idle.d = None /\ ~Idle.fresh
    /\ Down \in RunType /\ Down.pc = "down" /\ Down.d = None /\ ~Down.fresh
<1>1. Idle \in RunType
    BY AbsentTypes DEF Idle, RunType, PCs
<1>2. Down \in RunType /\ Down.pc = "down" /\ Down.d = Idle.d /\ Down.fresh = Idle.fresh
    BY <1>1 DEF Down, RunType, PCs
<1> QED
    BY <1>1, <1>2 DEF Idle

\* A place that a spec exports has a name that Services know.
LEMMA ExportedPlaces ==
    ASSUME NEW spec \in Specs, NEW i \in Exported(spec)
    PROVE  i \in Places /\ \A node \in NodePorts \cup {None} :
               [name |-> PortName(spec.ports[i]), node |-> node] \in ServicePort
<1>1. i \in DOMAIN spec.ports
    BY DEF Exported
<1>2. spec.ports[i] \in Range(spec.ports)
    BY <1>1 DEF Range
<1>3. spec.ports[i] \in UNION {Range(s.ports) : s \in Specs}
    BY <1>2
<1>4. PortName(spec.ports[i]) \in {PortName(p) : p \in UNION {Range(s.ports) : s \in Specs}}
    BY <1>3
<1> QED
    BY <1>1, <1>4 DEF Places, ServicePort

-----------------------------------------------------------------------------
(* What createOrUpdateService makes of a Service. *)

LEMMA ServiceObjectIsTyped ==
    ASSUME NEW object
    PROVE  object \in ServiceObject <=>
               /\ object = [exists |-> object.exists, round |-> object.round,
                            ports |-> object.ports]
               /\ object.exists \in BOOLEAN /\ object.round \in RoundNumbers
               /\ \E places \in SUBSET Places : object.ports \in [places -> ServicePort]
BY DEF ServiceObject

\* What a Service becomes is made for the object, and what it has is taken over.
LEMMA WantedFits ==
    ASSUME NEW old \in ServiceObject, NEW copy \in DeployerObject,
           copy.spec \in Specs, copy.currentRound \in RoundNumbers
    PROVE  LET made == Wanted(old, copy) IN
           /\ made \in ServiceObject
           /\ Fits(made, copy)
           /\ \A i \in DOMAIN made.ports :
                  \A p \in Range(old.ports) :
                      p.name = made.ports[i].name => made.ports[i] \in Range(old.ports)
<1> DEFINE made == Wanted(old, copy)
           had(name) == {p \in Range(old.ports) : p.name = name}
           taken(name) == IF had(name) # {} THEN CHOOSE p \in had(name) : TRUE
                                            ELSE [name |-> name, node |-> None]
           spec == copy.spec
           ports == [i \in Exported(spec) |-> taken(PortName(spec.ports[i]))]
<1>1. made = [exists |-> TRUE, round |-> copy.currentRound, ports |-> ports]
    BY DEF Wanted
<1>2. \A p \in Range(old.ports) : p \in ServicePort
  <2>1. PICK places \in SUBSET Places : old.ports \in [places -> ServicePort]
      BY ServiceObjectIsTyped
  <2> QED
      BY <2>1 DEF Range
<1>3. \A name : had(name) # {} => /\ taken(name) \in Range(old.ports)
                                  /\ taken(name).name = name
    OBVIOUS
<1>4. ASSUME NEW i \in Exported(spec)
      PROVE  LET name == PortName(spec.ports[i]) IN
             /\ taken(name) \in ServicePort
             /\ taken(name).name = name
    BY <1>2, <1>3, ExportedPlaces
<1> HIDE DEF taken
<1>5. ports \in [Exported(spec) -> ServicePort]
    BY <1>4
<1>6. Exported(spec) \in SUBSET Places
    BY ExportedPlaces
<1>7. made \in ServiceObject
    BY <1>1, <1>5, <1>6 DEF ServiceObject
<1>8. Fits(made, copy)
    BY <1>1, <1>4 DEF Fits
<1>9. ASSUME NEW i \in DOMAIN made.ports, NEW p \in Range(old.ports),
             p.name = made.ports[i].name
      PROVE  made.ports[i] \in Range(old.ports)
  <2> DEFINE name == PortName(spec.ports[i])
  <2>1. i \in Exported(spec) /\ made.ports[i] = taken(name)
      BY <1>1, <1>9
  <2>2. p.name = name
      BY <1>4, <1>9, <2>1
  <2>3. had(name) # {}
      BY <2>2
  <2> QED
      BY <1>3, <2>1, <2>3
<1> QED
    BY <1>7, <1>8, <1>9

\* What the API server makes of a Service that it accepts.
LEMMA GivenFits ==
    ASSUME NEW object \in ServiceObject, object.exists, Accepted(object),
           NEW given \in Given(object)
    PROVE  /\ given \in ServiceObject
           /\ given.exists /\ given.round = object.round
           /\ DOMAIN given.ports = DOMAIN object.ports
           /\ \A i \in DOMAIN object.ports :
                  /\ given.ports[i].name = object.ports[i].name
                  /\ object.ports[i].node # None =>
                         given.ports[i].node = object.ports[i].node
           /\ Sound(given)
<1>1. /\ given \in [exists : {TRUE}, round : {object.round},
                    ports : [DOMAIN object.ports -> ServicePort]]
      /\ \A i \in DOMAIN object.ports :
             /\ given.ports[i].name = object.ports[i].name
             /\ \/ object.ports[i].node # None
                   /\ given.ports[i].node = object.ports[i].node
                \/ object.ports[i].node = None /\ given.ports[i].node \in NodePorts
    BY DEF Given
<1>2. PICK places \in SUBSET Places : object.ports \in [places -> ServicePort]
    BY ServiceObjectIsTyped
<1>3. given.ports \in [DOMAIN object.ports -> ServicePort] /\ DOMAIN object.ports = places
    BY <1>1, <1>2
<1>4. object.round \in RoundNumbers
    BY ServiceObjectIsTyped
<1>5. given \in ServiceObject
    BY <1>1, <1>2, <1>3, <1>4 DEF ServiceObject
<1>6. DOMAIN given.ports = DOMAIN object.ports
    BY <1>3
<1>7. Accepted(given)
    BY <1>1, <1>6 DEF Accepted
<1>8. \A i \in DOMAIN given.ports : given.ports[i].node # None
    BY <1>1, <1>6, ServiceAssumption
<1> QED
    BY <1>1, <1>5, <1>6, <1>7, <1>8 DEF Sound

\* A Service given for one that is made for an object is made for it too.
LEMMA GivenIsMade ==
    ASSUME NEW object \in ServiceObject, Accepted(object), NEW copy, Fits(object, copy),
           NEW given \in Given(object)
    PROVE  Fits(given, copy)
BY GivenFits DEF Fits

-----------------------------------------------------------------------------
(* The API server and the caches. *)

LEMMA StoredDeployer ==
    ASSUME DepOK, NEW d \in Deployers, NEW object \in DeployerObject,
           object.exists => object.spec \in Specs, object.currentRound \in RoundNumbers,
           StoreDeployer(d, object)
    PROVE  /\ DepOK'
           /\ dep'[d] = object
           /\ \A e \in Deployers : e # d => dep'[e] = dep[e] /\ depFresh'[e] = depFresh[e]
           /\ ~depFresh[d] => ~depFresh'[d]
           /\ object # dep[d] => d \in Woken(d, object) \/ ~depFresh'[d]
<1>0. DeployersLag \in BOOLEAN
    BY ServiceAssumption
<1>1. /\ dep' \in [Deployers -> DeployerObject]
      /\ dep'[d] = object
      /\ \A e \in Deployers : e # d => dep'[e] = dep[e]
    BY DEF DepOK, StoreDeployer
<1>2. depCache' \in [Deployers -> DeployerObject]
    BY <1>1 DEF DepOK, StoreDeployer
<1>3. /\ depFresh' \in [Deployers -> BOOLEAN]
      /\ depFresh'[d] <=> (DeployersLag => depFresh[d] /\ object = dep[d])
      /\ \A e \in Deployers : e # d => depFresh'[e] = depFresh[e]
    BY <1>0 DEF DepOK, StoreDeployer
<1>4. \A e \in Deployers :
          depCache'[e] = IF DeployersLag THEN depCache[e] ELSE dep'[e]
    BY DEF StoreDeployer
<1>5. DepOK'
  <2>1. ASSUME NEW e \in Deployers
        PROVE  /\ dep'[e].exists => dep'[e].spec \in Specs
               /\ depCache'[e].exists => depCache'[e].spec \in Specs
               /\ {dep'[e].currentRound, depCache'[e].currentRound} \subseteq RoundNumbers
    <3>1. dep'[e] = object \/ dep'[e] = dep[e]
        BY <1>1
    <3>2. depCache'[e] = depCache[e] \/ depCache'[e] = dep'[e]
        BY <1>4
    <3>3. /\ dep'[e].exists => dep'[e].spec \in Specs
          /\ dep'[e].currentRound \in RoundNumbers
        BY <3>1 DEF DepOK
    <3> QED
        BY <3>2, <3>3 DEF DepOK
  <2>2. ASSUME NEW e \in Deployers
        PROVE  /\ depFresh'[e] => depCache'[e] = dep'[e]
               /\ DeployersLag \/ depFresh'[e]
    <3>1. CASE DeployersLag
        BY <3>1, <1>1, <1>3, <1>4 DEF DepOK
    <3>2. CASE ~DeployersLag
        BY <3>2, <1>3, <1>4 DEF DepOK
    <3> QED
        BY <3>1, <3>2
  <2> QED
      BY <1>1, <1>2, <1>3, <2>1, <2>2 DEF DepOK
<1>6. ~depFresh[d] => ~depFresh'[d]
    BY <1>3 DEF DepOK
<1>7. object # dep[d] => d \in Woken(d, object) \/ ~depFresh'[d]
    BY <1>3 DEF Woken
<1> QED
    BY <1>1, <1>3, <1>5, <1>6, <1>7

\* Nobody who was owed a look is forgotten, and the change is owed one.
LEMMA StoreOwes ==
    ASSUME DepOK, NEW d \in Deployers, NEW object \in DeployerObject,
           object.exists => object.spec \in Specs, object.currentRound \in RoundNumbers,
           StoreDeployer(d, object), queue \cup Woken(d, object) \subseteq queue'
    PROVE  /\ \A e \in Deployers : Owed(e) => Owed(e)'
           /\ object # dep[d] => Owed(d)'
<1>1. /\ \A e \in Deployers : e # d => depFresh'[e] = depFresh[e]
      /\ ~depFresh[d] => ~depFresh'[d]
      /\ object # dep[d] => d \in Woken(d, object) \/ ~depFresh'[d]
    BY StoredDeployer, Zenon
<1>2. SUFFICES ASSUME NEW e \in Deployers
               PROVE  /\ Owed(e) => Owed(e)'
                      /\ e = d /\ object # dep[d] => Owed(e)'
    BY <1>2
<1> QED
    BY <1>1 DEF Owed

LEMMA StoredService ==
    ASSUME ServiceOK, NEW d \in Deployers, NEW object \in ServiceObject, Sound(object),
           StoreService(d, object)
    PROVE  /\ ServiceOK'
           /\ service'[d] = object
           /\ \A e \in Deployers : e # d => service'[e] = service[e]
<1>0. ServicesLag \in BOOLEAN
    BY ServiceAssumption
<1>1. /\ service' \in [Deployers -> ServiceObject]
      /\ service'[d] = object
      /\ \A e \in Deployers : e # d => service'[e] = service[e]
    BY DEF ServiceOK, StoreService
<1>2. serviceCache' \in [Deployers -> ServiceObject]
    BY <1>1 DEF ServiceOK, StoreService
<1>3. /\ serviceFresh' \in [Deployers -> BOOLEAN]
      /\ serviceFresh'[d] <=> (ServicesLag => serviceFresh[d] /\ object = service[d])
      /\ \A e \in Deployers : e # d => serviceFresh'[e] = serviceFresh[e]
    BY <1>0 DEF ServiceOK, StoreService
<1>4. \A e \in Deployers :
          serviceCache'[e] = IF ServicesLag THEN serviceCache[e] ELSE service'[e]
    BY DEF StoreService
<1>5. ASSUME NEW e \in Deployers
      PROVE  Sound(service'[e]) /\ (serviceFresh'[e] => serviceCache'[e] = service'[e])
  <2>1. Sound(service'[e])
      BY <1>1 DEF ServiceOK
  <2>2. CASE ServicesLag
      BY <2>1, <2>2, <1>1, <1>3, <1>4 DEF ServiceOK
  <2>3. CASE ~ServicesLag
      BY <2>1, <2>3, <1>4
  <2> QED
      BY <2>2, <2>3
<1> QED
    BY <1>1, <1>2, <1>3, <1>5 DEF ServiceOK

\* The status is published, or the server's object stays as it is.
LEMMA Published ==
    ASSUME ServiceInv, Working, NEW object \in DeployerObject,
           object.exists, object.spec \in Specs, object.currentRound \in RoundNumbers,
           PublishStatus(object), queue \cup WokenByPublish(object) \subseteq queue'
    PROVE  /\ DepOK'
           /\ \A e \in Deployers : e # run.d => dep'[e] = dep[e]
           /\ \A e \in Deployers : Owed(e) => Owed(e)'
           /\ run.fresh => dep'[run.d] = object
<1>0. DepOK /\ run.d \in Deployers
    BY DEF ServiceInv, RunOK
<1>1. CASE run.fresh
  <2>1. StoreDeployer(run.d, object) /\ queue \cup Woken(run.d, object) \subseteq queue'
      BY <1>1 DEF PublishStatus, WokenByPublish
  <2> QED
      BY <1>0, <2>1, StoredDeployer, StoreOwes, Zenon
<1>2. CASE ~run.fresh
  <2>1. UNCHANGED depVars /\ queue \subseteq queue'
      BY <1>2 DEF PublishStatus
  <2> QED
      BY <1>0, <1>2, <2>1 DEF DepOK, depVars, Owed
<1> QED
    BY <1>1, <1>2

-----------------------------------------------------------------------------
(* Every step keeps the invariant. *)

LEMMA IdleIsOK ==
    ASSUME run' = Idle \/ run' = Down
    PROVE  RunOK'
BY IdleTypes DEF RunOK, Working, At, Writing

\* What a reconciliation that goes on has to keep.
LEMMA WorkIsOK ==
    ASSUME NEW d \in Deployers, NEW copy, run' \in RunType, run'.d = d, run'.copy = copy,
           run'.pc \notin {"idle", "down"},
           copy.exists, copy.spec \in Specs, copy.currentRound \in RoundNumbers,
           run'.fresh \/ Owed(d)',
           run'.fresh => copy = [dep'[d] EXCEPT !.phase = copy.phase],
           run'.pc = "undo" => copy.spec.round < copy.currentRound,
           run'.pc = "createSet" => copy.phase = "Pending",
           run'.pc \in Writing => Fits(run'.service, copy),
           run'.pc = "updateService" /\ run'.serviceFresh =>
               service'[d].exists /\ run'.service = Wanted(service'[d], copy),
           run'.pc = "watch" \/ (run'.pc = "publish" /\ Final(copy.phase)) =>
               Fits(service'[d], copy)
    PROVE  RunOK'
<1>1. Working'
    BY DEF Working
<1>2. run'.fresh => run'.copy = [dep'[run'.d] EXCEPT !.phase = run'.copy.phase]
    BY Zenon
<1>3. run'.fresh \/ run'.d \in queue' \/ ~depFresh'[run'.d]
    BY DEF Owed
<1>4. run'.pc \in Writing => Fits(run'.service, run'.copy)
    OBVIOUS
<1>5. run'.pc = "updateService" /\ run'.serviceFresh =>
          /\ service'[run'.d].exists
          /\ run'.service = Wanted(service'[run'.d], run'.copy)
    OBVIOUS
<1>6. run'.pc = "watch" \/ (run'.pc = "publish" /\ Final(run'.copy.phase)) =>
          Fits(service'[run'.d], run'.copy)
    OBVIOUS
<1> QED
    BY <1>1, <1>2, <1>3, <1>4, <1>5, <1>6 DEF RunOK, Owed, At, Writing

\* When one deployer is worked on, the others rest as before.
LEMMA RestKept ==
    ASSUME RestOK, ~At("down"), NEW d, d = run.d,
           \A e \in Deployers : Owed(e) => Owed(e)',
           \A e \in Deployers : e # d => dep'[e] = dep[e] /\ service'[e] = service[e],
           d \in Deployers /\ dep'[d].exists =>
               \/ run'.d = d \/ Owed(d)'
               \/ dep'[d].spec.round < dep'[d].currentRound
               \/ Fits(service'[d], dep'[d])
    PROVE  RestOK'
<1>1. SUFFICES ASSUME NEW e \in Deployers, dep'[e].exists
               PROVE  \/ Owed(e)' \/ run'.d = e
                      \/ dep'[e].spec.round < dep'[e].currentRound
                      \/ Fits(service'[e], dep'[e])
    BY DEF RestOK
<1>2. CASE e = d
    BY <1>1, <1>2
<1>3. CASE e # d
    BY <1>1, <1>3 DEF RestOK
<1> QED
    BY <1>2, <1>3

\* A reconciliation that ends with its key in the queue.
LEMMA Returned ==
    ASSUME ServiceInv, Working, NEW d, d = run.d, NEW object \in DeployerObject,
           object.exists, object.spec \in Specs, object.currentRound \in RoundNumbers,
           PublishStatus(object), run' = Idle, queue' \in SUBSET Deployers,
           queue \cup WokenByPublish(object) \cup {d} \subseteq queue',
           UNCHANGED <<serviceVars, setVars>>
    PROVE  ServiceInv'
<1>1. /\ DepOK' /\ \A e \in Deployers : e # d => dep'[e] = dep[e]
      /\ \A e \in Deployers : Owed(e) => Owed(e)'
  <2>1. queue \cup WokenByPublish(object) \subseteq queue'
      OBVIOUS
  <2> QED
      BY <2>1, Published, Zenon
<1>2. ServiceOK' /\ SetsOK'
    BY DEF ServiceInv, ServiceOK, SetsOK, serviceVars, setVars
<1>3. RunOK'
    BY IdleIsOK
<1>4. Owed(d)'
    BY DEF Owed
<1>5. RestOK'
    BY <1>1, <1>4, RestKept DEF ServiceInv, Working, At, serviceVars
<1> QED
    BY <1>1, <1>2, <1>3, <1>5 DEF ServiceInv

LEMMA GetKeeps ==
    ASSUME ServiceInv, NEW d \in Deployers, Get(d)
    PROVE  ServiceInv'
<1> DEFINE seen == depCache[d]
           pc == IF seen.spec.round < seen.currentRound THEN "undo"
                 ELSE IF seen.spec.round > seen.currentRound THEN "save" ELSE "handle"
           taken == [Idle EXCEPT !.d = d, !.copy = seen, !.fresh = depFresh[d], !.pc = pc]
<1>1. /\ At("idle") /\ d \in queue /\ queue' = queue \ {d}
      /\ run' = IF seen.exists THEN taken ELSE Idle
      /\ UNCHANGED <<depVars, serviceVars, setVars>>
    BY DEF Get
<1>2. DepOK' /\ ServiceOK' /\ SetsOK'
    BY <1>1 DEF ServiceInv, DepOK, ServiceOK, SetsOK, depVars, serviceVars, setVars
<1>3. /\ seen \in DeployerObject /\ seen.currentRound \in RoundNumbers
      /\ seen.exists => seen.spec \in Specs
      /\ depFresh[d] \in BOOLEAN /\ (depFresh[d] => seen = dep[d])
    BY DEF ServiceInv, DepOK
<1>4. \A e \in Deployers : e # d => (Owed(e) => Owed(e)')
    BY <1>1 DEF Owed, depVars
<1>5. depFresh[d] \/ Owed(d)'
    BY <1>1 DEF Owed, depVars
<1>6. CASE seen.exists
  <2>1. Idle \in RunType
      BY IdleTypes
  <2>2. pc \in {"undo", "save", "handle"} /\ (pc = "undo" => seen.spec.round < seen.currentRound)
      OBVIOUS
  <2> HIDE DEF pc
  <2>3. /\ taken \in RunType /\ taken.pc = pc /\ taken.d = d /\ taken.copy = seen
        /\ taken.fresh = depFresh[d]
      BY <1>3, <2>1, <2>2 DEF RunType, PCs
  <2> HIDE DEF taken
  <2>4. run' = taken
      BY <1>1, <1>6
  <2>5. depFresh[d] => taken.copy = [dep'[d] EXCEPT !.phase = taken.copy.phase]
      BY <1>1, <1>3, <2>3 DEF depVars, DeployerObject
  <2>6. taken.fresh \/ Owed(d)'
      BY <1>5, <2>3
  <2>7. RunOK'
    <3>1. run'.pc \in {"undo", "save", "handle"} /\ run'.d = d /\ run'.copy = seen
        BY <2>2, <2>3, <2>4
    <3>2. run'.fresh => run'.copy = [dep'[run'.d] EXCEPT !.phase = run'.copy.phase]
        BY <2>3, <2>4, <2>5, <3>1, Zenon
    <3>3. run'.fresh \/ Owed(d)'
        BY <2>4, <2>6
    <3>4. run' \in RunType
        BY <2>3, <2>4
    <3>5. run'.pc = "undo" => run'.copy.spec.round < run'.copy.currentRound
        BY <2>2, <2>3, <2>4
    <3> QED
      <4>1. /\ run'.pc \notin {"idle", "down"}
            /\ run'.pc \notin Writing
            /\ run'.pc # "createSet" /\ run'.pc # "updateService"
            /\ run'.pc # "watch" /\ run'.pc # "publish"
          BY <3>1 DEF Writing
      <4>2. run'.fresh => seen = [dep'[d] EXCEPT !.phase = seen.phase]
          BY <3>1, <3>2
      <4>3. run'.pc = "undo" => seen.spec.round < seen.currentRound
          BY <3>1, <3>5
      <4> HIDE DEF seen
      <4> QED
          BY <1>3, <1>6, <3>1, <3>3, <3>4, <4>1, <4>2, <4>3, WorkIsOK, Zenon
  <2>8. RestOK'
    <3>1. SUFFICES ASSUME NEW e \in Deployers, dep'[e].exists, e # d
                   PROVE  \/ Owed(e)'
                          \/ dep'[e].spec.round < dep'[e].currentRound
                          \/ Fits(service'[e], dep'[e])
        BY <2>3, <2>4 DEF RestOK
    <3>2. e # run.d
        BY <1>1, ServiceAssumption DEF ServiceInv, RunOK, Working, At
    <3> QED
        BY <1>1, <1>4, <3>1, <3>2 DEF ServiceInv, RestOK, At, depVars, serviceVars
  <2> QED
      BY <1>2, <2>7, <2>8 DEF ServiceInv
<1>7. CASE ~seen.exists
  <2>1. RunOK'
      BY <1>1, <1>7, IdleIsOK
  <2>2. dep'[d].exists => Owed(d)'
      BY <1>1, <1>3, <1>5, <1>7 DEF depVars
  <2>4. RestOK'
    <3>1. SUFFICES ASSUME NEW e \in Deployers, dep'[e].exists
                   PROVE  \/ Owed(e)'
                          \/ dep'[e].spec.round < dep'[e].currentRound
                          \/ Fits(service'[e], dep'[e])
        BY DEF RestOK
    <3>2. e # run.d
        BY <1>1, ServiceAssumption DEF ServiceInv, RunOK, Working, At
    <3> QED
        BY <1>1, <1>4, <2>2, <3>1, <3>2 DEF ServiceInv, RestOK, At, depVars, serviceVars
  <2> QED
      BY <1>2, <2>1, <2>4 DEF ServiceInv
<1> QED
    BY <1>6, <1>7

\* What is known of a reconciliation at work.
LEMMA WorkFacts ==
    ASSUME ServiceInv, Working
    PROVE  /\ run \in RunType /\ run.d \in Deployers /\ run.d # None
           /\ run.copy \in DeployerObject /\ run.copy.exists
           /\ run.copy.spec \in Specs /\ run.copy.currentRound \in RoundNumbers
           /\ run.copy.spec.round \in RoundNumbers
           /\ run.fresh \in BOOLEAN /\ (run.fresh \/ Owed(run.d))
           /\ run.fresh => run.copy = [dep[run.d] EXCEPT !.phase = run.copy.phase]
           /\ ~At("down") /\ dep[run.d] \in DeployerObject
<1>1. /\ run \in RunType /\ run.d \in Deployers /\ run.copy.exists
      /\ run.copy.spec \in Specs /\ run.copy.currentRound \in RoundNumbers
      /\ run.fresh \/ Owed(run.d)
    BY DEF ServiceInv, RunOK
<1>2. run.copy.spec.round \in RoundNumbers
    BY <1>1 DEF RoundNumbers
<1>3. run.fresh => run.copy = [dep[run.d] EXCEPT !.phase = run.copy.phase]
    BY DEF ServiceInv, RunOK
<1>4. run.copy \in DeployerObject /\ run.fresh \in BOOLEAN
    BY <1>1 DEF RunType
<1>5. ~At("down")
    BY DEF Working, At
<1>6. dep[run.d] \in DeployerObject
    BY <1>1 DEF ServiceInv, DepOK
<1> QED
    BY <1>1, <1>2, <1>3, <1>4, <1>5, <1>6, ServiceAssumption

\* An object whose phase is set.
LEMMA Renamed ==
    ASSUME NEW copy \in DeployerObject, NEW phase \in Phases
    PROVE  LET named == [copy EXCEPT !.phase = phase] IN
           /\ named \in DeployerObject
           /\ named.exists = copy.exists /\ named.spec = copy.spec
           /\ named.currentRound = copy.currentRound /\ named.phase = phase
BY DEF DeployerObject

LEMMA RecordKeeps ==
    ASSUME ServiceInv, Record
    PROVE  ServiceInv'
<1> DEFINE object == IF At("undo")
                       THEN [run.copy EXCEPT !.phase = "UNDO"]
                       ELSE [run.copy EXCEPT !.phase = "Pending",
                                             !.currentRound = run.copy.spec.round]
           d == run.d
<1>0. Working
    BY DEF Record, Working
<1>1. /\ object \in DeployerObject /\ object.exists
      /\ object.spec \in Specs /\ object.currentRound \in RoundNumbers
  <2>1. {"UNDO", "Pending"} \subseteq Phases
      BY DEF Phases
  <2> QED
    <3>1. CASE At("undo")
        BY <1>0, <2>1, <3>1, WorkFacts, Renamed
    <3>2. CASE ~At("undo")
      <4> DEFINE round == run.copy.spec.round
      <4>1. round \in RoundNumbers /\ run.copy \in DeployerObject /\ run.copy.exists
            /\ run.copy.spec \in Specs /\ "Pending" \in Phases
          BY <1>0, <2>1, WorkFacts
      <4>2. object = [run.copy EXCEPT !.phase = "Pending", !.currentRound = round]
          BY <3>2
      <4> HIDE DEF object, round
      <4>3. /\ object \in DeployerObject /\ object.exists = run.copy.exists
            /\ object.spec = run.copy.spec /\ object.currentRound = round
          BY <4>1, <4>2, RoundsAreInt DEF DeployerObject
      <4> QED
          BY <4>1, <4>3
    <3> QED
        BY <3>1, <3>2
<1>2. At("undo") => object.spec.round < object.currentRound
  <2>1. At("undo") => run.copy.spec.round < run.copy.currentRound
      BY DEF ServiceInv, RunOK
  <2>2. "UNDO" \in Phases
      BY DEF Phases
  <2> QED
      BY <1>0, <2>1, <2>2, WorkFacts, Renamed
<1> HIDE DEF object
<1>3. /\ run.pc \in {"undo", "save"}
      /\ IF run.fresh
            THEN /\ StoreDeployer(run.d, object)
                 /\ run' = Idle
                 /\ queue' = queue \cup Woken(run.d, object)
                                   \cup (IF At("save") THEN {run.d} ELSE {})
            ELSE Return(TRUE) /\ UNCHANGED depVars
      /\ UNCHANGED <<serviceVars, setVars>>
    BY DEF Record, object
<1>4. CASE ~run.fresh
  <2>1. PublishStatus(object) /\ run' = Idle /\ queue' = queue \cup {d}
      BY <1>3, <1>4 DEF PublishStatus, Return
  <2>2. queue' \in SUBSET Deployers
      BY <1>0, <2>1, WorkFacts DEF ServiceInv, SetsOK
  <2>3. queue \cup WokenByPublish(object) \cup {d} \subseteq queue'
      BY <1>4, <2>1 DEF WokenByPublish
  <2> QED
      BY <1>0, <1>1, <1>3, <2>1, <2>2, <2>3, Returned
<1>5. CASE run.fresh
  <2>1. StoreDeployer(d, object) /\ queue \cup Woken(d, object) \subseteq queue'
      BY <1>3, <1>5
  <2>2. d \in Deployers /\ DepOK
      BY <1>0, WorkFacts DEF ServiceInv
  <2>3. /\ DepOK' /\ dep'[d] = object
        /\ \A e \in Deployers : e # d => dep'[e] = dep[e]
      BY <1>1, <2>1, <2>2, StoredDeployer, Zenon
  <2>4. \A e \in Deployers : Owed(e) => Owed(e)'
      BY <1>1, <2>1, <2>2, StoreOwes, Zenon
  <2>5. ServiceOK' /\ SetsOK'
    <3>1. queue' \in SUBSET Deployers
        BY <1>3, <1>5, <2>2 DEF ServiceInv, SetsOK, Woken
    <3> QED
        BY <1>3, <3>1 DEF ServiceInv, ServiceOK, SetsOK, serviceVars, setVars
  <2>6. RunOK'
      BY <1>3, <1>5, IdleIsOK
  <2>7. RestOK'
    <3>1. At("undo") \/ d \in queue'
        BY <1>3, <1>5 DEF At
    <3>2. SUFFICES ASSUME NEW e, e = d
                   PROVE  RestOK'
        OBVIOUS
    <3>3. Owed(e)' \/ dep'[e].spec.round < dep'[e].currentRound
        BY <1>2, <2>3, <3>1, <3>2 DEF Owed
    <3>4. /\ RestOK /\ ~At("down")
          /\ \A x \in Deployers : x # e => dep'[x] = dep[x] /\ service'[x] = service[x]
        BY <1>0, <1>3, <2>3, <3>2, WorkFacts DEF ServiceInv, serviceVars
    <3> HIDE DEF d
    <3> QED
        BY <2>4, <3>2, <3>3, <3>4, RestKept DEF d
  <2> QED
      BY <2>3, <2>5, <2>6, <2>7 DEF ServiceInv
<1> QED
    BY <1>0, <1>4, <1>5, WorkFacts

LEMMA HandleFailsKeeps ==
    ASSUME ServiceInv, Working, HandleFails
    PROVE  ServiceInv'
<1> DEFINE object == [run.copy EXCEPT !.phase = "Failed"]
<1>1. /\ object \in DeployerObject /\ object.exists
      /\ object.spec \in Specs /\ object.currentRound \in RoundNumbers
  <2>1. "Failed" \in Phases
      BY DEF Phases
  <2> QED
      BY <2>1, WorkFacts, Renamed
<1> HIDE DEF object
<1>2. /\ PublishStatus(object) /\ run' = Idle /\ UNCHANGED <<serviceVars, setVars>>
      /\ queue' = queue \cup {run.d}
    BY DEF HandleFails, object, Return
<1>3. queue' \in SUBSET Deployers
    BY <1>2, WorkFacts DEF ServiceInv, SetsOK
<1>4. queue \cup WokenByPublish(object) \cup {run.d} \subseteq queue'
    BY <1>2 DEF WokenByPublish, Woken
<1> QED
    BY <1>1, <1>2, <1>3, <1>4, Returned

LEMMA HandleMissingKeeps ==
    ASSUME ServiceInv, HandleMissing
    PROVE  ServiceInv'
<1> DEFINE object == [run.copy EXCEPT !.phase = "Pending"]
<1>0. Working
    BY DEF HandleMissing, At, Working
<1>1. /\ object \in DeployerObject /\ object.exists
      /\ object.spec \in Specs /\ object.currentRound \in RoundNumbers
      /\ object.phase = "Pending"
  <2>1. "Pending" \in Phases
      BY DEF Phases
  <2> QED
      BY <1>0, <2>1, WorkFacts, Renamed
<1> HIDE DEF object
<1>2. /\ PublishStatus(object) /\ UNCHANGED <<serviceVars, setVars>>
      /\ run' = [run EXCEPT !.pc = "createSet", !.copy = object]
      /\ queue' = queue \cup WokenByPublish(object)
    BY DEF HandleMissing, object, Goto
<1>3. SUFFICES ASSUME NEW d, d = run.d
               PROVE  ServiceInv'
    OBVIOUS
<1>4. /\ DepOK' /\ \A e \in Deployers : e # d => dep'[e] = dep[e]
      /\ \A e \in Deployers : Owed(e) => Owed(e)'
      /\ run.fresh => dep'[d] = object
  <2>1. queue \cup WokenByPublish(object) \subseteq queue'
      BY <1>2
  <2> QED
      BY <1>0, <1>1, <1>2, <1>3, <2>1, Published, Zenon
<1>5. d \in Deployers /\ (run.fresh \/ Owed(d)')
    BY <1>0, <1>3, <1>4, WorkFacts
<1>6. ServiceOK' /\ SetsOK'
  <2>1. queue' \in SUBSET Deployers
      BY <1>2, <1>3, <1>5 DEF ServiceInv, SetsOK, WokenByPublish, Woken
  <2> QED
      BY <1>2, <2>1 DEF ServiceInv, ServiceOK, SetsOK, serviceVars, setVars
<1>7. /\ run' \in RunType /\ run'.d = d /\ run'.copy = object
      /\ run'.pc = "createSet" /\ run'.fresh = run.fresh
  <2>1. run \in RunType
      BY <1>0, WorkFacts
  <2> QED
      BY <1>1, <1>2, <1>3, <2>1 DEF RunType, PCs
<1>8. run'.fresh => object = [dep'[d] EXCEPT !.phase = object.phase]
    BY <1>1, <1>4, <1>7 DEF DeployerObject
<1>9. RunOK'
  <2>1. /\ run'.pc \notin {"idle", "down"} /\ run'.pc # "undo" /\ run'.pc \notin Writing
        /\ run'.pc # "updateService" /\ run'.pc # "watch" /\ run'.pc # "publish"
      BY <1>7 DEF Writing
  <2>2. run'.fresh \/ Owed(d)'
      BY <1>5, <1>7
  <2> QED
      BY <1>1, <1>5, <1>7, <1>8, <2>1, <2>2, WorkIsOK, Zenon
<1>10. RestOK'
  <2>1. /\ RestOK /\ ~At("down")
        /\ \A e \in Deployers : e # d => dep'[e] = dep[e] /\ service'[e] = service[e]
      BY <1>0, <1>2, <1>4, WorkFacts DEF ServiceInv, serviceVars
  <2> QED
      BY <1>3, <1>4, <1>7, <2>1, RestKept, Zenon
<1> QED
    BY <1>4, <1>6, <1>9, <1>10 DEF ServiceInv

\* A step that leaves the deployers alone, and the reconciliation at work.
LEMMA GoesOn ==
    ASSUME ServiceInv, Working, UNCHANGED <<depVars, queue>>, ServiceOK', SetsOK',
           NEW d, d = run.d, \A e \in Deployers : e # d => service'[e] = service[e],
           NEW copy, run' \in RunType, run'.d = d, run'.copy = copy, run'.fresh = run.fresh,
           copy = [run.copy EXCEPT !.phase = copy.phase],
           run'.pc \notin {"idle", "down", "undo"},
           run'.pc = "createSet" => copy.phase = "Pending",
           run'.pc \in Writing => Fits(run'.service, copy),
           run'.pc = "updateService" /\ run'.serviceFresh =>
               service'[d].exists /\ run'.service = Wanted(service'[d], copy),
           run'.pc = "watch" \/ (run'.pc = "publish" /\ Final(copy.phase)) =>
               Fits(service'[d], copy)
    PROVE  ServiceInv'
<1>1. /\ d \in Deployers /\ run.copy \in DeployerObject /\ dep[d] \in DeployerObject
      /\ run.copy.exists /\ run.copy.spec \in Specs /\ run.copy.currentRound \in RoundNumbers
      /\ run.fresh \/ Owed(d)
      /\ run.fresh => run.copy = [dep[d] EXCEPT !.phase = run.copy.phase]
    BY WorkFacts
<1>2. copy.exists /\ copy.spec \in Specs /\ copy.currentRound \in RoundNumbers
    BY <1>1 DEF DeployerObject
<1>3. \A e \in Deployers : Owed(e) => Owed(e)'
    BY DEF Owed, depVars
<1>4. run'.fresh \/ Owed(d)'
    BY <1>1, <1>3
<1>5. run'.fresh => copy = [dep'[d] EXCEPT !.phase = copy.phase]
    BY <1>1 DEF depVars, DeployerObject
<1>6. RunOK'
  <2>1. run'.pc \notin {"idle", "down"} /\ run'.pc # "undo"
      OBVIOUS
  <2> QED
      BY <1>1, <1>2, <1>4, <1>5, <2>1, WorkIsOK, Zenon
<1>7. DepOK'
    BY DEF ServiceInv, DepOK, depVars
<1>8. RestOK'
  <2>1. /\ RestOK /\ ~At("down")
        /\ \A e \in Deployers : e # d => dep'[e] = dep[e] /\ service'[e] = service[e]
      BY WorkFacts DEF ServiceInv, depVars
  <2> QED
      BY <1>3, <2>1, RestKept, Zenon
<1> QED
    BY <1>6, <1>7, <1>8 DEF ServiceInv

LEMMA CreateSetKeeps ==
    ASSUME ServiceInv, CreateSet
    PROVE  ServiceInv'
<1>0. /\ Working /\ run.copy.phase = "Pending"
      /\ UNCHANGED <<depVars, serviceVars, queue, namesake>>
      /\ sets' = [sets EXCEPT ![run.d][TheRound] = "nopod"]
      /\ run' = [run EXCEPT !.pc = "publish", !.copy = run.copy]
    BY DEF CreateSet, At, Working, ServiceInv, RunOK, Goto
<1>1. SUFFICES ASSUME NEW d, d = run.d, NEW copy, copy = run.copy
               PROVE  ServiceInv'
    OBVIOUS
<1>2. ServiceOK'
    BY <1>0 DEF ServiceInv, ServiceOK, serviceVars
<1>3. SetsOK'
  <2>1. "nopod" \in PodStates /\ sets \in [Deployers -> [RoundNumbers -> PodStates]]
      BY DEF PodStates, ServiceInv, SetsOK
  <2>2. sets' \in [Deployers -> [RoundNumbers -> PodStates]]
      BY <1>0, <2>1
  <2> QED
      BY <1>0, <2>2 DEF ServiceInv, SetsOK
<1>4. /\ run' \in RunType /\ run'.d = d /\ run'.copy = copy /\ run'.fresh = run.fresh
      /\ run'.pc = "publish"
  <2>1. run \in RunType
      BY <1>0, WorkFacts
  <2> QED
      BY <1>0, <1>1, <2>1 DEF RunType, PCs
<1>5. copy = [run.copy EXCEPT !.phase = copy.phase]
    BY <1>0, <1>1, WorkFacts DEF DeployerObject
<1>6. ~Final(copy.phase)
    BY <1>0, <1>1 DEF Final, HashDone
<1>7. /\ run'.pc \notin {"idle", "down", "undo"} /\ run'.pc \notin Writing
      /\ run'.pc # "createSet" /\ run'.pc # "updateService" /\ run'.pc # "watch"
      /\ \A e \in Deployers : e # d => service'[e] = service[e]
      /\ UNCHANGED <<depVars, queue>>
    BY <1>0, <1>4 DEF Writing, serviceVars
<1> QED
    BY <1>0, <1>1, <1>2, <1>3, <1>4, <1>5, <1>6, <1>7, GoesOn, Zenon

LEMMA ReadServiceKeeps ==
    ASSUME ServiceInv, ReadService
    PROVE  ServiceInv'
<1> DEFINE seen == serviceCache[run.d]
           pc == IF seen.exists THEN "updateService" ELSE "createService"
<1>0. /\ Working /\ UNCHANGED <<depVars, serviceVars, queue, setVars>>
      /\ run' = [run EXCEPT !.pc = pc, !.service = Wanted(seen, run.copy),
                            !.serviceFresh = serviceFresh[run.d]]
    BY DEF ReadService, At, Working
<1>1. SUFFICES ASSUME NEW d, d = run.d, NEW copy, copy = run.copy
               PROVE  ServiceInv'
    OBVIOUS
<1>2. ServiceOK' /\ SetsOK'
    BY <1>0 DEF ServiceInv, ServiceOK, SetsOK, serviceVars, setVars
<1>3. /\ seen \in ServiceObject /\ serviceFresh[d] \in BOOLEAN
      /\ serviceFresh[d] => seen = service[d]
    BY <1>0, <1>1, WorkFacts DEF ServiceInv, ServiceOK
<1>4. Wanted(seen, copy) \in ServiceObject /\ Fits(Wanted(seen, copy), copy)
  <2>1. /\ copy \in DeployerObject /\ copy.spec \in Specs
        /\ copy.currentRound \in RoundNumbers
      BY <1>0, <1>1, WorkFacts
  <2> QED
      BY <1>3, <2>1, WantedFits
<1>5. pc \in Writing /\ (pc = "updateService" => seen.exists)
    BY DEF Writing
<1> HIDE DEF seen, pc
<1>6. /\ run' \in RunType /\ run'.d = d /\ run'.copy = copy /\ run'.fresh = run.fresh
      /\ run'.pc = pc /\ run'.service = Wanted(seen, copy)
      /\ run'.serviceFresh = serviceFresh[d]
  <2>1. run \in RunType
      BY <1>0, WorkFacts
  <2>2. pc \in PCs
      BY <1>5 DEF Writing, PCs
  <2> QED
      BY <1>0, <1>1, <1>3, <1>4, <2>1, <2>2 DEF RunType
<1>7. copy = [run.copy EXCEPT !.phase = copy.phase]
    BY <1>0, <1>1, WorkFacts DEF DeployerObject
<1>8. run'.pc = "updateService" /\ run'.serviceFresh =>
          service'[d].exists /\ run'.service = Wanted(service'[d], copy)
    BY <1>0, <1>3, <1>5, <1>6 DEF serviceVars
<1>9. /\ run'.pc \notin {"idle", "down", "undo"} /\ run'.pc # "createSet"
      /\ run'.pc # "watch" /\ run'.pc # "publish"
      /\ \A e \in Deployers : e # d => service'[e] = service[e]
      /\ UNCHANGED <<depVars, queue>>
    BY <1>0, <1>5, <1>6 DEF Writing, serviceVars
<1>10. Fits(run'.service, copy)
    BY <1>4, <1>6
<1> QED
    BY <1>0, <1>1, <1>2, <1>6, <1>7, <1>8, <1>9, <1>10, GoesOn, Zenon

LEMMA WriteServiceKeeps ==
    ASSUME ServiceInv, run.pc \in Writing, Accepted(run.service), WriteService
    PROVE  ServiceInv'
<1>0. PICK given \in Given(run.service) : StoreService(run.d, given)
    BY DEF WriteService
<1>1. /\ Working /\ UNCHANGED <<depVars, queue, setVars>>
      /\ run' = [run EXCEPT !.pc = "watch", !.service = AbsentService, !.serviceFresh = FALSE]
    BY DEF WriteService, Writing, Working
<1>2. SUFFICES ASSUME NEW d, d = run.d, NEW copy, copy = run.copy
               PROVE  ServiceInv'
    OBVIOUS
<1>3. run.service \in ServiceObject /\ Fits(run.service, copy) /\ run.service.exists
    BY <1>1, <1>2, WorkFacts DEF ServiceInv, RunOK, RunType, Fits
<1>4. given \in ServiceObject /\ Sound(given) /\ Fits(given, copy)
    BY <1>3, GivenFits, GivenIsMade
<1>5. /\ ServiceOK' /\ service'[d] = given
      /\ \A e \in Deployers : e # d => service'[e] = service[e]
    BY <1>0, <1>1, <1>2, <1>4, WorkFacts, StoredService DEF ServiceInv
<1>6. SetsOK'
    BY <1>1 DEF ServiceInv, SetsOK, setVars
<1>7. /\ run' \in RunType /\ run'.d = d /\ run'.copy = copy /\ run'.fresh = run.fresh
      /\ run'.pc = "watch"
  <2>1. run \in RunType /\ AbsentService \in ServiceObject
      BY <1>1, WorkFacts, AbsentTypes
  <2> QED
      BY <1>1, <1>2, <2>1 DEF RunType, PCs
<1>8. copy = [run.copy EXCEPT !.phase = copy.phase]
    BY <1>1, <1>2, WorkFacts DEF DeployerObject
<1>9. /\ run'.pc \notin {"idle", "down", "undo"} /\ run'.pc \notin Writing
      /\ run'.pc # "createSet" /\ run'.pc # "updateService" /\ run'.pc # "publish"
      /\ UNCHANGED <<depVars, queue>> /\ Fits(service'[d], copy)
    BY <1>1, <1>4, <1>5, <1>7 DEF Writing
<1> QED
    BY <1>1, <1>2, <1>5, <1>6, <1>7, <1>8, <1>9, GoesOn, Zenon

LEMMA DeleteServiceKeeps ==
    ASSUME ServiceInv, DeleteService
    PROVE  ServiceInv'
<1>1. /\ At("createService") /\ Working
      /\ StoreService(run.d, AbsentService)
      /\ UNCHANGED <<depVars, queue, run, setVars>>
    BY DEF DeleteService, At, Working
<1>2. SUFFICES ASSUME NEW d, d = run.d, NEW copy, copy = run.copy
               PROVE  ServiceInv'
    OBVIOUS
<1>3. /\ ServiceOK' /\ \A e \in Deployers : e # d => service'[e] = service[e]
    BY <1>1, <1>2, WorkFacts, AbsentTypes, StoredService DEF ServiceInv, Sound
<1>4. SetsOK'
    BY <1>1 DEF ServiceInv, SetsOK, setVars
<1>5. /\ run' \in RunType /\ run'.d = d /\ run'.copy = copy /\ run'.fresh = run.fresh
      /\ run'.pc = "createService" /\ Fits(run'.service, copy)
    BY <1>1, <1>2, WorkFacts DEF At, ServiceInv, RunOK, Writing
<1>6. copy = [run.copy EXCEPT !.phase = copy.phase]
    BY <1>1, <1>2, WorkFacts DEF DeployerObject
<1>7. /\ run'.pc \notin {"idle", "down", "undo"} /\ run'.pc # "createSet"
      /\ run'.pc # "updateService" /\ run'.pc # "publish" /\ run'.pc # "watch"
      /\ UNCHANGED <<depVars, queue>>
    BY <1>1, <1>5
<1> QED
    BY <1>1, <1>2, <1>3, <1>4, <1>5, <1>6, <1>7, GoesOn, Zenon

\* What is listed is the state of a pod.
LEMMA ListedStates ==
    ASSUME ServiceInv, Working, NEW state \in IF Listed = {} THEN {"nopod"} ELSE Listed
    PROVE  state \in PodStates /\ PhaseOfPod[state] \in Phases
<1>1. /\ run.d \in Deployers /\ TheRound \in RoundNumbers
    BY WorkFacts DEF TheRound
<1>2. sets[run.d][TheRound] \in PodStates /\ namesake[run.d] \subseteq Namesakes
    BY <1>1 DEF ServiceInv, SetsOK
<1>3. \A p \in Namesakes : p.state \in PodStates
    BY ServiceAssumption
<1>4. "nopod" \in PodStates
    BY DEF PodStates
<1>5. state \in PodStates
    BY <1>2, <1>3, <1>4 DEF Listed
<1>6. \A s \in PodStates : PhaseOfPod[s] \in Phases
    BY DEF PhaseOfPod, PodStates, Phases
<1> QED
    BY <1>5, <1>6

LEMMA WatchKeeps ==
    ASSUME ServiceInv, Watch
    PROVE  ServiceInv'
<1>0. Working
    BY DEF Watch, At, Working
<1>1. PICK state \in IF Listed = {} THEN {"nopod"} ELSE Listed :
          Goto("publish", [run.copy EXCEPT !.phase = PhaseOfPod[state]])
    BY DEF Watch
<1> DEFINE phase == PhaseOfPod[state]
<1>2. phase \in Phases
    BY <1>0, ListedStates
<1> HIDE DEF phase
<1>3. SUFFICES ASSUME NEW d, d = run.d,
                      NEW copy, copy = [run.copy EXCEPT !.phase = phase]
               PROVE  ServiceInv'
    OBVIOUS
<1>4. copy \in DeployerObject /\ copy = [run.copy EXCEPT !.phase = copy.phase]
      /\ copy.spec = run.copy.spec /\ copy.currentRound = run.copy.currentRound
    BY <1>0, <1>2, <1>3, WorkFacts DEF DeployerObject
<1>5. UNCHANGED <<depVars, serviceVars, queue, setVars>>
    BY DEF Watch
<1>6. ServiceOK' /\ SetsOK'
    BY <1>5 DEF ServiceInv, ServiceOK, SetsOK, serviceVars, setVars
<1>7. /\ run' \in RunType /\ run'.d = d /\ run'.copy = copy /\ run'.fresh = run.fresh
      /\ run'.pc = "publish"
  <2>1. run \in RunType
      BY <1>0, WorkFacts
  <2>2. run' = [run EXCEPT !.pc = "publish", !.copy = copy]
      BY <1>1, <1>3 DEF Goto, phase
  <2> QED
      BY <1>3, <1>4, <2>1, <2>2 DEF RunType, PCs
<1>8. Fits(service[d], run.copy)
    BY <1>3 DEF Watch, ServiceInv, RunOK
<1>9. Fits(service'[d], copy)
    BY <1>4, <1>5, <1>8 DEF Fits, serviceVars
<1>10. /\ run'.pc \notin {"idle", "down", "undo"} /\ run'.pc \notin Writing
       /\ run'.pc # "createSet" /\ run'.pc # "updateService"
       /\ \A e \in Deployers : e # d => service'[e] = service[e]
       /\ UNCHANGED <<depVars, queue>>
    BY <1>5, <1>7 DEF Writing, serviceVars
<1> QED
    BY <1>0, <1>3, <1>4, <1>6, <1>7, <1>9, <1>10, GoesOn, Zenon

LEMMA PublishKeeps ==
    ASSUME ServiceInv, Publish
    PROVE  ServiceInv'
<1> DEFINE polls == ~HashDone(run.copy.phase) /\ run.copy.phase # "Doing"
<1>0. /\ Working /\ At("publish")
      /\ PublishStatus(run.copy) /\ run' = Idle /\ UNCHANGED <<serviceVars, setVars>>
      /\ queue' = queue \cup WokenByPublish(run.copy) \cup (IF polls THEN {run.d} ELSE {})
    BY DEF Publish, At, Working
<1>1. SUFFICES ASSUME NEW d, d = run.d, NEW copy, copy = run.copy
               PROVE  ServiceInv'
    OBVIOUS
<1>2. /\ copy \in DeployerObject /\ copy.exists /\ copy.spec \in Specs
      /\ copy.currentRound \in RoundNumbers /\ d \in Deployers
      /\ run.fresh \/ Owed(d)
    BY <1>0, <1>1, WorkFacts
<1>3. /\ DepOK' /\ \A e \in Deployers : e # d => dep'[e] = dep[e]
      /\ \A e \in Deployers : Owed(e) => Owed(e)'
      /\ run.fresh => dep'[d] = copy
  <2>1. queue \cup WokenByPublish(copy) \subseteq queue'
      BY <1>0, <1>1
  <2> QED
      BY <1>0, <1>1, <1>2, <2>1, Published, Zenon
<1>4. ServiceOK' /\ SetsOK'
  <2>1. queue' \in SUBSET Deployers
      BY <1>0, <1>1, <1>2 DEF ServiceInv, SetsOK, WokenByPublish, Woken
  <2> QED
      BY <1>0, <2>1 DEF ServiceInv, ServiceOK, SetsOK, serviceVars, setVars
<1>5. RunOK'
    BY <1>0, IdleIsOK
<1>6. Owed(d)' \/ Fits(service'[d], dep'[d])
  <2>1. CASE polls
      BY <1>0, <1>1, <2>1 DEF Owed
  <2>2. CASE ~polls
    <3>1. Final(copy.phase)
        BY <1>1, <2>2 DEF Final
    <3>2. Fits(service[d], copy)
        BY <1>0, <1>1, <3>1 DEF ServiceInv, RunOK
    <3>3. CASE run.fresh
        BY <1>0, <1>3, <3>2, <3>3 DEF serviceVars
    <3>4. CASE ~run.fresh
        BY <1>2, <1>3, <3>4
    <3> QED
        BY <3>3, <3>4
  <2> QED
      BY <2>1, <2>2
<1>7. RestOK'
  <2>1. /\ RestOK /\ ~At("down")
        /\ \A e \in Deployers : e # d => dep'[e] = dep[e] /\ service'[e] = service[e]
      BY <1>0, <1>3, WorkFacts DEF ServiceInv, serviceVars
  <2> QED
      BY <1>1, <1>3, <1>6, <2>1, RestKept, Zenon
<1> QED
    BY <1>3, <1>4, <1>5, <1>7 DEF ServiceInv

LEMMA UserKeeps ==
    ASSUME ServiceInv, NEW d \in Deployers, NEW object \in DeployerObject, object.exists,
           object.spec \in Specs, object.currentRound \in RoundNumbers,
           object # dep[d], WriteFromOutside(d, object)
    PROVE  ServiceInv'
<1>0. /\ StoreDeployer(d, object) /\ queue' = queue \cup Woken(d, object)
      /\ run' = IF run.d = d THEN [run EXCEPT !.fresh = FALSE] ELSE run
      /\ UNCHANGED <<serviceVars, setVars>>
    BY DEF WriteFromOutside
<1>1. /\ DepOK' /\ \A e \in Deployers : e # d => dep'[e] = dep[e]
      /\ dep'[d] = object
    BY <1>0, StoredDeployer DEF ServiceInv
<1>2. (\A e \in Deployers : Owed(e) => Owed(e)') /\ Owed(d)'
    BY <1>0, StoreOwes DEF ServiceInv
<1>3. ServiceOK' /\ SetsOK'
  <2>1. queue' \in SUBSET Deployers
      BY <1>0 DEF ServiceInv, SetsOK, Woken
  <2> QED
      BY <1>0, <2>1 DEF ServiceInv, ServiceOK, SetsOK, serviceVars, setVars
<1>4. /\ run' \in RunType /\ run'.pc = run.pc /\ run'.d = run.d /\ run'.copy = run.copy
      /\ run'.service = run.service /\ run'.serviceFresh = run.serviceFresh
      /\ run'.fresh => run.fresh /\ run.d # d
      /\ run.d # d => run'.fresh = run.fresh
  <2>1. run \in RunType
      BY DEF ServiceInv, RunOK
  <2> QED
      BY <1>0, <2>1 DEF RunType
<1>5. RunOK'
  <2>1. CASE ~Working
    <3>1. run.d = None /\ ~run.fresh
        BY <2>1 DEF ServiceInv, RunOK
    <3>2. run'.d = None /\ ~run'.fresh /\ run'.pc \in {"idle", "down"}
        BY <1>4, <2>1, <3>1 DEF Working
    <3> QED
        BY <1>4, <3>2 DEF RunOK, Working, At, Writing
  <2>2. CASE Working
    <3>1. SUFFICES ASSUME NEW w, w = run.d
                   PROVE  RunOK'
        OBVIOUS
    <3>2. /\ w \in Deployers /\ run.copy.exists /\ run.copy.spec \in Specs
          /\ run.copy.currentRound \in RoundNumbers /\ (run.fresh \/ Owed(w))
        BY <2>2, <3>1, WorkFacts
    <3>3. run'.fresh \/ Owed(w)'
        BY <1>2, <1>4, <3>1, <3>2
    <3>4. run'.fresh => run.copy = [dep'[w] EXCEPT !.phase = run.copy.phase]
      <4>1. run'.fresh => run.fresh /\ dep'[w] = dep[w]
          BY <1>1, <1>4, <3>1, <3>2
      <4> QED
          BY <2>2, <3>1, <4>1, WorkFacts
    <3>5. /\ run'.pc \notin {"idle", "down"} /\ run'.d = w
          /\ run'.pc = "undo" => run.copy.spec.round < run.copy.currentRound
          /\ run'.pc = "createSet" => run.copy.phase = "Pending"
          /\ run'.pc \in Writing => Fits(run'.service, run.copy)
          /\ run'.pc = "updateService" /\ run'.serviceFresh =>
                 service'[w].exists /\ run'.service = Wanted(service'[w], run.copy)
          /\ run'.pc = "watch" \/ (run'.pc = "publish" /\ Final(run.copy.phase)) =>
                 Fits(service'[w], run.copy)
        BY <1>0, <1>4, <2>2, <3>1 DEF ServiceInv, RunOK, Working, At, serviceVars
    <3> QED
        BY <1>4, <3>2, <3>3, <3>4, <3>5, WorkIsOK, Zenon
  <2> QED
      BY <2>1, <2>2
<1>6. RestOK'
  <2>1. SUFFICES ASSUME ~(run'.pc = "down"), NEW e \in Deployers, dep'[e].exists
                 PROVE  \/ Owed(e)' \/ run'.d = e
                        \/ dep'[e].spec.round < dep'[e].currentRound
                        \/ Fits(service'[e], dep'[e])
      BY DEF RestOK, At
  <2>2. CASE e = d
      BY <1>2, <2>2
  <2>3. CASE e # d
      BY <1>0, <1>1, <1>2, <1>4, <2>1, <2>3 DEF ServiceInv, RestOK, At, serviceVars
  <2> QED
      BY <2>2, <2>3
<1> QED
    BY <1>1, <1>3, <1>5, <1>6 DEF ServiceInv

LEMMA DeployerUserKeeps ==
    ASSUME ServiceInv, DeployerUser
    PROVE  ServiceInv'
<1>1. PICK d \in Deployers, spec \in Specs : CreateDeployer(d, spec) \/ EditDeployer(d, spec)
    BY DEF DeployerUser
<1>2. CASE CreateDeployer(d, spec)
  <2>1. SUFFICES ASSUME NEW object,
                        object = [AbsentDeployer EXCEPT !.exists = TRUE, !.spec = spec]
                 PROVE  ServiceInv'
      OBVIOUS
  <2>2. /\ object \in DeployerObject /\ object.exists /\ object.spec = spec
        /\ object.currentRound = 0
      BY <2>1, AbsentTypes DEF DeployerObject
  <2>3. object # dep[d] /\ WriteFromOutside(d, object)
      BY <1>2, <2>1, <2>2 DEF CreateDeployer
  <2> QED
      BY <2>2, <2>3, RoundsAreInt, UserKeeps
<1>3. CASE EditDeployer(d, spec)
  <2>1. SUFFICES ASSUME NEW object, object = [dep[d] EXCEPT !.spec = spec]
                 PROVE  ServiceInv'
      OBVIOUS
  <2>2. dep[d] \in DeployerObject /\ dep[d].currentRound \in RoundNumbers
      BY DEF ServiceInv, DepOK
  <2>3. /\ object \in DeployerObject /\ object.exists = dep[d].exists /\ object.spec = spec
        /\ object.currentRound = dep[d].currentRound
      BY <2>1, <2>2 DEF DeployerObject
  <2>4. object.exists /\ object # dep[d] /\ WriteFromOutside(d, object)
      BY <1>3, <2>1, <2>3 DEF EditDeployer
  <2> QED
      BY <2>2, <2>3, <2>4, UserKeeps
<1> QED
    BY <1>1, <1>2, <1>3

\* The caches, the pods, and the pods of the namesakes.
LEMMA SyncDeployerKeeps ==
    ASSUME ServiceInv, NEW d \in Deployers, SyncDeployer(d)
    PROVE  ServiceInv'
<1>0. /\ run.pc # "down" /\ UNCHANGED <<dep, serviceVars, run, setVars>>
      /\ depCache' = [depCache EXCEPT ![d] = dep[d]]
      /\ depFresh' = [depFresh EXCEPT ![d] = TRUE]
      /\ queue' = queue \cup {d}
    BY DEF SyncDeployer
<1>1. DepOK'
    BY <1>0 DEF ServiceInv, DepOK
<1>2. ServiceOK' /\ SetsOK'
    BY <1>0 DEF ServiceInv, ServiceOK, SetsOK, serviceVars, setVars
<1>3. \A e \in Deployers : Owed(e) => Owed(e)'
    BY <1>0 DEF ServiceInv, DepOK, Owed
<1>4. RunOK'
  <2>1. Working => run.fresh \/ Owed(run.d)
      BY DEF ServiceInv, RunOK
  <2>2. Working => run.d \in Deployers
      BY DEF ServiceInv, RunOK
  <2>3. Working => run.fresh \/ run.d \in queue' \/ ~depFresh'[run.d]
      BY <1>3, <2>1, <2>2 DEF Owed
  <2> QED
      BY <1>0, <2>3 DEF ServiceInv, RunOK, Owed, Working, At, serviceVars
<1>5. RestOK'
  <2>1. SUFFICES ASSUME ~At("down"), NEW e \in Deployers, dep[e].exists
                 PROVE  \/ Owed(e)' \/ run.d = e
                        \/ dep[e].spec.round < dep[e].currentRound
                        \/ Fits(service[e], dep[e])
      BY <1>0 DEF RestOK, At, serviceVars
  <2> QED
      BY <1>3, <2>1 DEF ServiceInv, RestOK
<1> QED
    BY <1>1, <1>2, <1>4, <1>5 DEF ServiceInv

\* Steps outside the deployers, their Services and the reconciliation.
LEMMA AsideKeeps ==
    ASSUME ServiceInv, UNCHANGED <<depVars, queue, run, service>>, ServiceOK', SetsOK'
    PROVE  ServiceInv'
<1>1. DepOK' /\ RunOK' /\ RestOK'
    BY DEF ServiceInv, DepOK, RunOK, RestOK, Working, Owed, At, depVars
<1> QED
    BY <1>1 DEF ServiceInv

LEMMA SyncServiceKeeps ==
    ASSUME ServiceInv, NEW d \in Deployers, SyncService(d)
    PROVE  ServiceInv'
<1>1. ServiceOK'
    BY DEF ServiceInv, ServiceOK, SyncService
<1>2. SetsOK' /\ UNCHANGED <<depVars, queue, run, service>>
    BY DEF ServiceInv, SetsOK, SyncService, setVars
<1> QED
    BY <1>1, <1>2, AsideKeeps

LEMMA PodsKeep ==
    ASSUME ServiceInv, NEW d \in Deployers,
           MoveNamesake(d) \/ \E r \in RoundNumbers : MovePod(d, r)
    PROVE  ServiceInv'
<1>1. CASE MoveNamesake(d)
  <2>1. PICK pods \in {{}} \cup {{p} : p \in Namesakes} :
            /\ namesake' = [namesake EXCEPT ![d] = pods]
            /\ UNCHANGED <<depVars, serviceVars, queue, run, sets>>
      BY <1>1 DEF MoveNamesake
  <2>2. pods \in SUBSET Namesakes
      OBVIOUS
  <2>3. ServiceOK' /\ SetsOK'
      BY <2>1, <2>2 DEF ServiceInv, ServiceOK, SetsOK, serviceVars
  <2> QED
      BY <2>1, <2>3, AsideKeeps DEF serviceVars
<1>2. CASE \E r \in RoundNumbers : MovePod(d, r)
  <2>1. PICK r \in RoundNumbers, move \in PodMoves("service") :
            /\ sets' = [sets EXCEPT ![d][r] = move[2]]
            /\ UNCHANGED <<depVars, serviceVars, queue, run, namesake>>
      BY <1>2 DEF MovePod
  <2>2. move[2] \in PodStates
      BY <2>1 DEF PodMoves, PodStates
  <2>3. sets' \in [Deployers -> [RoundNumbers -> PodStates]]
      BY <2>1, <2>2 DEF ServiceInv, SetsOK
  <2>4. ServiceOK' /\ SetsOK'
      BY <2>1, <2>3 DEF ServiceInv, ServiceOK, SetsOK, serviceVars
  <2> QED
      BY <2>1, <2>4, AsideKeeps DEF serviceVars
<1> QED
    BY <1>1, <1>2

LEMMA CrashKeeps ==
    ASSUME ServiceInv, Crash
    PROVE  ServiceInv'
<1>0. run' = Down /\ UNCHANGED <<depVars, serviceVars, queue, setVars>>
    BY DEF Crash
<1>1. DepOK' /\ ServiceOK' /\ SetsOK'
    BY <1>0 DEF ServiceInv, DepOK, ServiceOK, SetsOK, depVars, serviceVars, setVars
<1>2. RunOK' /\ RestOK'
    BY <1>0, IdleIsOK, IdleTypes DEF RestOK, At
<1> QED
    BY <1>1, <1>2 DEF ServiceInv

LEMMA StartKeeps ==
    ASSUME ServiceInv, Start
    PROVE  ServiceInv'
<1>0. /\ run' = Idle /\ queue' = {d \in Deployers : dep[d].exists}
      /\ depCache' = dep /\ depFresh' = [d \in Deployers |-> TRUE]
      /\ serviceCache' = service /\ serviceFresh' = [d \in Deployers |-> TRUE]
      /\ UNCHANGED <<dep, service, setVars>>
    BY DEF Start
<1>1. DepOK' /\ ServiceOK' /\ SetsOK'
    BY <1>0 DEF ServiceInv, DepOK, ServiceOK, SetsOK, setVars
<1>2. RunOK'
    BY <1>0, IdleIsOK
<1>3. \A d \in Deployers : dep'[d].exists => Owed(d)'
    BY <1>0 DEF Owed
<1>4. RestOK'
    BY <1>3 DEF RestOK
<1> QED
    BY <1>1, <1>2, <1>4 DEF ServiceInv

LEMMA InitServiceInv == Init => ServiceInv
<1>1. SUFFICES ASSUME Init
               PROVE  ServiceInv
    OBVIOUS
<1>2. DepOK
    BY <1>1, AbsentTypes, RoundsAreInt DEF Init, DepOK
<1>3. ServiceOK
    BY <1>1, AbsentTypes DEF Init, ServiceOK, Sound
<1>4. SetsOK
    BY <1>1 DEF Init, SetsOK, NoSets, PodStates
<1>5. RunOK
    BY <1>1, IdleTypes DEF Init, RunOK, Working, At, Writing
<1>6. RestOK
    BY <1>1, AbsentTypes DEF Init, RestOK
<1> QED
    BY <1>2, <1>3, <1>4, <1>5, <1>6 DEF ServiceInv

LEMMA NextServiceInv ==
    ASSUME ServiceInv, [Next]_vars
    PROVE  ServiceInv'
<1>1. CASE \E d \in Deployers : Get(d)
    BY <1>1, GetKeeps
<1>2. CASE Record \/ HandleMissing \/ CreateSet \/ ReadService
    BY <1>2, RecordKeeps, HandleMissingKeeps, CreateSetKeeps, ReadServiceKeeps
<1>3. CASE UpdateService \/ CreateService
    BY <1>3, WriteServiceKeeps DEF UpdateService, CreateService, At, Writing
<1>4. CASE DeleteService \/ Watch \/ Publish
    BY <1>4, DeleteServiceKeeps, WatchKeeps, PublishKeeps
<1>5. CASE ServiceFails \/ ApiRejects
  <2>1. Working /\ HandleFails
      BY <1>5 DEF ServiceFails, ApiRejects, At, Working
  <2> QED
      BY <2>1, HandleFailsKeeps
<1>6. CASE DeployerUser
    BY <1>6, DeployerUserKeeps
<1>7. CASE \E d \in Deployers :
               \/ SyncDeployer(d) \/ SyncService(d) \/ MoveNamesake(d)
               \/ \E r \in RoundNumbers : MovePod(d, r)
    BY <1>7, SyncDeployerKeeps, SyncServiceKeeps, PodsKeep
<1>8. CASE Crash \/ Start
    BY <1>8, CrashKeeps, StartKeeps
<1>9. CASE UNCHANGED vars
    BY <1>9, AsideKeeps DEF vars, serviceVars, setVars, ServiceInv, ServiceOK, SetsOK
<1> QED
    BY <1>1, <1>2, <1>3, <1>4, <1>5, <1>6, <1>7, <1>8, <1>9 DEF Next, ServiceController

LEMMA ServiceInvariance == Spec => []ServiceInv
<1>1. Init => ServiceInv
    BY InitServiceInv
<1>2. ServiceInv /\ [Next]_vars => ServiceInv'
    BY NextServiceInv
<1> QED
    BY <1>1, <1>2, PTL DEF Spec

-----------------------------------------------------------------------------
(* The theorems. *)

\* A Service that is made for an object serves it.
LEMMA FitsServes ==
    ASSUME NEW d \in Deployers, NEW object, Fits(service[d], object)
    PROVE  Serves(d, object)
<1>1. /\ service[d].exists /\ service[d].round = object.currentRound
      /\ DOMAIN service[d].ports = Exported(object.spec)
      /\ \A i \in Exported(object.spec) :
             service[d].ports[i].name = PortName(object.spec.ports[i])
    BY DEF Fits
<1>2. {p.name : p \in Range(service[d].ports)}
          = {PortName(object.spec.ports[i]) : i \in Exported(object.spec)}
    BY <1>1 DEF Range
<1> QED
    BY <1>1, <1>2 DEF Serves

\* Every variable of Service has its type: deployers, Services, caches, the queue,
\* the reconciliation in progress, the stateful sets and the pods elsewhere.
THEOREM ServicesTypeCorrect == Spec => []TypeOK
<1>1. ServiceInv => TypeOK
    BY DEF ServiceInv, DepOK, ServiceOK, SetsOK, RunOK, RunType, TypeOK
<1> QED
    BY <1>1, ServiceInvariance, PTL

\* While the manager runs, the Service of a deployer that nobody will look at
\* selects the pods of its round and has the ports that its spec exports, unless
\* the round asked for is an earlier one: whatever edits, stale copies, conflicts,
\* rejections and crashes came before.
THEOREM RestIsServed == Spec => []AtRestServed
<1>1. ASSUME ServiceInv
      PROVE  AtRestServed
  <2>1. SUFFICES ASSUME ~At("down"), NEW d \in Deployers, dep[d].exists
                 PROVE  \/ d \in queue \/ run.d = d \/ ~depFresh[d]
                        \/ dep[d].spec.round < dep[d].currentRound
                        \/ Serves(d, dep[d])
      BY DEF AtRestServed
  <2> QED
      BY <1>1, <2>1, FitsServes DEF ServiceInv, RestOK, Owed
<1> QED
    BY <1>1, ServiceInvariance, PTL

\* The server's object changes phase by a status that is published, a round that
\* is recorded, or a user who creates it.
LEMMA DoingIsPublished ==
    ASSUME ServiceInv, Next, NEW d \in Deployers,
           dep[d].phase # "Doing", dep'[d].phase = "Doing"
    PROVE  Publish /\ run.fresh /\ d = run.d /\ dep'[d] = run.copy
<1>1. \A w \in Deployers, object \in DeployerObject :
          StoreDeployer(w, object) => /\ w # d => dep'[d] = dep[d]
                                      /\ w = d => dep'[d] = object
    BY DEF ServiceInv, DepOK, StoreDeployer
<1>2. dep' # dep
    OBVIOUS
<1>3. CASE DeployerUser
  <2>1. PICK w \in Deployers, spec \in Specs : CreateDeployer(w, spec) \/ EditDeployer(w, spec)
      BY <1>3 DEF DeployerUser
  <2>2. CASE CreateDeployer(w, spec)
    <3>1. SUFFICES ASSUME NEW object,
                          object = [AbsentDeployer EXCEPT !.exists = TRUE, !.spec = spec]
                   PROVE  FALSE
        OBVIOUS
    <3>2. object \in DeployerObject /\ object.phase = ""
        BY <3>1, AbsentTypes DEF DeployerObject
    <3>3. StoreDeployer(w, object)
        BY <2>2, <3>1 DEF CreateDeployer, WriteFromOutside
    <3> QED
        BY <1>1, <3>2, <3>3
  <2>3. CASE EditDeployer(w, spec)
    <3>1. SUFFICES ASSUME NEW object, object = [dep[w] EXCEPT !.spec = spec]
                   PROVE  FALSE
        OBVIOUS
    <3>2. object \in DeployerObject /\ object.phase = dep[w].phase
        BY <3>1 DEF ServiceInv, DepOK, DeployerObject
    <3>3. StoreDeployer(w, object)
        BY <2>3, <3>1 DEF EditDeployer, WriteFromOutside
    <3> QED
        BY <1>1, <3>2, <3>3
  <2> QED
      BY <2>1, <2>2, <2>3
<1>4. ASSUME Working, NEW object \in DeployerObject, PublishStatus(object)
      PROVE  run.fresh /\ d = run.d /\ dep'[d] = object
  <2>1. run.fresh
      BY <1>2, <1>4 DEF PublishStatus, depVars
  <2> QED
      BY <1>1, <1>4, <2>1, WorkFacts DEF PublishStatus
<1>5. CASE Record
  <2>0. Working
      BY <1>5 DEF Record, Working
  <2>1. PICK object : /\ \/ object = [run.copy EXCEPT !.phase = "UNDO"]
                         \/ object = [run.copy EXCEPT !.phase = "Pending",
                                                      !.currentRound = run.copy.spec.round]
                      /\ StoreDeployer(run.d, object)
      BY <1>2, <1>5 DEF Record, depVars
  <2>2. object \in DeployerObject /\ object.phase # "Doing"
    <3>1. run.copy \in DeployerObject /\ run.copy.spec.round \in Int
        BY <2>0, WorkFacts, RoundsAreInt
    <3> QED
        BY <2>1, <3>1 DEF DeployerObject, Phases
  <2> QED
      BY <1>1, <2>0, <2>1, <2>2, WorkFacts
<1>6. CASE HandleMissing \/ ServiceFails \/ ApiRejects
  <2>1. Working
      BY <1>6 DEF HandleMissing, ServiceFails, ApiRejects, Working, At
  <2>2. PICK phase \in {"Pending", "Failed"} : PublishStatus([run.copy EXCEPT !.phase = phase])
      BY <1>6 DEF HandleMissing, ServiceFails, ApiRejects, HandleFails
  <2>3. SUFFICES ASSUME NEW object, object = [run.copy EXCEPT !.phase = phase]
                 PROVE  FALSE
      OBVIOUS
  <2>4. object \in DeployerObject /\ object.phase = phase
    <3>1. phase \in Phases
        BY DEF Phases
    <3> QED
        BY <2>1, <2>3, <3>1, WorkFacts, Renamed
  <2> QED
      BY <1>4, <2>1, <2>2, <2>3, <2>4
<1>7. CASE Publish
  <2>1. Working /\ PublishStatus(run.copy)
      BY <1>7 DEF Publish, Working, At
  <2> QED
      BY <1>4, <1>7, <2>1, WorkFacts
<1>8. CASE \/ CreateSet \/ ReadService \/ UpdateService \/ DeleteService \/ CreateService
           \/ Watch \/ Crash \/ Start
           \/ \E w \in Deployers :
                  \/ Get(w) \/ SyncDeployer(w) \/ SyncService(w) \/ MoveNamesake(w)
                  \/ \E r \in RoundNumbers : MovePod(w, r)
    BY <1>2, <1>8 DEF CreateSet, ReadService, UpdateService, DeleteService, CreateService,
       WriteService, Watch, Crash, Start, Get, SyncDeployer, SyncService, MoveNamesake,
       MovePod, depVars
<1> QED
    BY <1>3, <1>5, <1>6, <1>7, <1>8 DEF Next, ServiceController

\* A deployer is called Doing, after which nobody polls it, only when its Service
\* selects the pods of the round that is recorded and has the ports exported.
THEOREM DoingIsServed == Spec => DoingMeansServed
<1>1. ASSUME ServiceInv, Next, NEW d \in Deployers,
             dep[d].phase # "Doing", dep'[d].phase = "Doing"
      PROVE  Serves(d, dep'[d])
  <2>1. Publish /\ d = run.d /\ dep'[d] = run.copy
      BY <1>1, DoingIsPublished
  <2>2. Final(run.copy.phase)
      BY <1>1, <2>1 DEF Final
  <2>3. Fits(service[d], dep'[d])
      BY <1>1, <2>1, <2>2 DEF Publish, ServiceInv, RunOK
  <2> QED
      BY <2>3, FitsServes
<1>2. ASSUME ServiceInv, [Next]_vars
      PROVE  [\A d \in Deployers :
                 dep[d].phase # "Doing" /\ dep'[d].phase = "Doing" => Serves(d, dep'[d])]_vars
    BY <1>1, <1>2
<1> QED
    BY <1>2, ServiceInvariance, PTL DEF Spec, DoingMeansServed

\* A Service changes by an update of a current copy, by force, or after that.
LEMMA ServiceChanges ==
    ASSUME ServiceInv, Next, NEW d \in Deployers, service'[d] # service[d],
           service[d].exists, ~At("createService")
    PROVE  /\ run.d = d /\ service'[d] \in Given(run.service)
           /\ run.service \in ServiceObject /\ run.service.exists /\ Accepted(run.service)
           /\ run.service = Wanted(service[d], run.copy)
           /\ run.copy \in DeployerObject /\ run.copy.spec \in Specs
           /\ run.copy.currentRound \in RoundNumbers
<1>0. service' # service
    OBVIOUS
<1>1. UpdateService
  <2>1. CASE DeployerUser
      BY <1>0, <2>1 DEF DeployerUser, CreateDeployer, EditDeployer, WriteFromOutside, serviceVars
  <2>2. CASE \/ Record \/ HandleMissing \/ CreateSet \/ ReadService \/ ServiceFails
             \/ ApiRejects \/ Watch \/ Publish \/ Crash \/ Start
      BY <1>0, <2>2 DEF Record, HandleMissing, CreateSet, ReadService, ServiceFails, ApiRejects,
         HandleFails, Watch, Publish, Crash, Start, serviceVars
  <2>3. CASE \E w \in Deployers :
                 \/ Get(w) \/ SyncDeployer(w) \/ SyncService(w) \/ MoveNamesake(w)
                 \/ \E r \in RoundNumbers : MovePod(w, r)
      BY <1>0, <2>3 DEF Get, SyncDeployer, SyncService, MoveNamesake, MovePod, serviceVars
  <2>4. CASE DeleteService \/ CreateService
      BY <2>4 DEF DeleteService, CreateService
  <2> QED
      BY <2>1, <2>2, <2>3, <2>4 DEF Next, ServiceController
<1>2. PICK given \in Given(run.service) : StoreService(run.d, given)
    BY <1>1 DEF UpdateService, WriteService
<1>3. service' = [service EXCEPT ![run.d] = given]
    BY <1>2 DEF StoreService
<1>4. d = run.d /\ service'[d] = given
    BY <1>3 DEF ServiceInv, ServiceOK
<1>5. At("updateService") /\ run.serviceFresh /\ Accepted(run.service) /\ Working
    BY <1>1 DEF UpdateService, At, Working
<1>6. run.service = Wanted(service[d], run.copy)
    BY <1>4, <1>5 DEF ServiceInv, RunOK
<1>7. run.service \in ServiceObject /\ Fits(run.service, run.copy)
    BY <1>5 DEF ServiceInv, RunOK, RunType, At, Writing
<1> QED
    BY <1>2, <1>4, <1>5, <1>6, <1>7, WorkFacts DEF Fits

\* A port that stays exported keeps its node port through rounds, edits, stale
\* copies and conflicts, unless its Service is written anew by force.
THEOREM NodePortsKept == Spec => NodePortsAreKept
<1>1. ASSUME ServiceInv, Next, NEW d \in Deployers,
             service[d].exists, ~At("createService")
      PROVE  /\ service'[d].exists
             /\ \A p \in Range(service[d].ports), q \in Range(service'[d].ports) :
                    p.name = q.name => p.node = q.node
  <2> DEFINE old == service[d]
  <2>1. /\ old \in ServiceObject
        /\ \A i, j \in DOMAIN old.ports : i # j => old.ports[i].name # old.ports[j].name
        /\ \A i \in DOMAIN old.ports : old.ports[i].node # None
      BY <1>1 DEF ServiceInv, ServiceOK, Sound, Accepted
  <2>2. \A p, q \in Range(old.ports) : p.name = q.name => p = q
      BY <2>1 DEF Range
  <2>3. \A p \in Range(old.ports) : p.node # None
      BY <2>1 DEF Range
  <2>4. CASE service'[d] = old
      BY <1>1, <2>2, <2>4
  <2>5. CASE service'[d] # old
    <3> DEFINE made == run.service
               given == service'[d]
    <3>1. /\ given \in Given(made) /\ made \in ServiceObject /\ made.exists /\ Accepted(made)
          /\ made = Wanted(old, run.copy)
          /\ run.copy \in DeployerObject /\ run.copy.spec \in Specs
          /\ run.copy.currentRound \in RoundNumbers
        BY <1>1, <2>5, ServiceChanges
    <3>2. \A i \in DOMAIN made.ports, p \in Range(old.ports) :
              p.name = made.ports[i].name => made.ports[i] \in Range(old.ports)
        BY <2>1, <3>1, WantedFits
    <3>3. /\ given.exists /\ DOMAIN given.ports = DOMAIN made.ports
          /\ \A i \in DOMAIN made.ports :
                 /\ given.ports[i].name = made.ports[i].name
                 /\ made.ports[i].node # None => given.ports[i].node = made.ports[i].node
        BY <3>1, GivenFits
    <3> HIDE DEF made, given
    <3>4. ASSUME NEW p \in Range(old.ports), NEW i \in DOMAIN given.ports,
                 p.name = given.ports[i].name
          PROVE  p.node = given.ports[i].node
      <4>1. i \in DOMAIN made.ports /\ p.name = made.ports[i].name
          BY <3>3, <3>4
      <4>2. made.ports[i] \in Range(old.ports)
          BY <3>2, <4>1
      <4>3. made.ports[i] = p
          BY <2>2, <4>1, <4>2
      <4> QED
          BY <2>3, <3>3, <4>1, <4>3
    <3> QED
        BY <3>3, <3>4 DEF Range, given
  <2> QED
      BY <2>4, <2>5
<1>2. ASSUME ServiceInv, [Next]_vars
      PROVE  [\A d \in Deployers :
                 service[d].exists /\ ~At("createService") =>
                     /\ service'[d].exists
                     /\ \A p \in Range(service[d].ports), q \in Range(service'[d].ports) :
                            p.name = q.name => p.node = q.node]_vars
    BY <1>1, <1>2
<1> QED
    BY <1>2, ServiceInvariance, PTL DEF Spec, NodePortsAreKept
=============================================================================
