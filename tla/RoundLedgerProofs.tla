------------------------- MODULE RoundLedgerProofs -------------------------
(* RoundLedger keeps its histories in order, for any objects and rounds.    *)
EXTENDS RoundLedger, SequenceTheorems, TLAPS

\* The only thing a spec must have; a module that uses RoundLedger assumes it.
HaveRounds == \A s \in Specs : s.round \in Int

Entry == [round : Int, phase : Phases, spec : Specs]

Object == [exists : BOOLEAN, deleting : BOOLEAN, spec : Specs \cup {None},
           phase : Phases, currentRound : Int, history : Seq(Entry)]

LedgerTypeOK ==
    /\ rounds \in [Names -> Object]
    /\ \A n \in Names : rounds[n].exists => rounds[n].spec \in Specs

\* What is ordered stays ordered when a round is archived and a later begins.
Ordered(h, current) ==
    /\ \A i \in 1 .. Len(h) : h[i].round < current
    /\ \A i, j \in 1 .. Len(h) : i < j => h[i].round < h[j].round

LEMMA ArchiveIsOrdered ==
    ASSUME NEW object \in Object, object.spec \in Specs,
           Ordered(object.history, object.currentRound),
           NEW next \in Int, next > object.currentRound
    PROVE  /\ BackedUp(object) \in Seq(Entry)
           /\ Ordered(BackedUp(object), next)
<1> DEFINE h == object.history
           entry == [round |-> object.currentRound, phase |-> object.phase,
                     spec |-> object.spec]
<1>1. h \in Seq(Entry) /\ object.currentRound \in Int /\ entry \in Entry
    BY DEF Object, Entry
<1>2. \A i \in 1 .. Len(h) : h[i].round \in Int
    <2> HIDE DEF h, entry
    <2>1. \A i \in 1 .. Len(h) : h[i] \in Entry
        BY <1>1, ElementOfSeq
    <2> QED
        BY <2>1 DEF Entry
<1>3. CASE object.currentRound = 0
    <2>1. BackedUp(object) = h
        BY <1>3 DEF BackedUp
    <2>2. \A i \in 1 .. Len(h) : h[i].round < object.currentRound
        BY DEF Ordered
    <2>3. \A i, j \in 1 .. Len(h) : i < j => h[i].round < h[j].round
        BY DEF Ordered
    <2> HIDE DEF h, entry
    <2>4. \A i \in 1 .. Len(h) : h[i].round < next
        BY <1>1, <1>2, <2>2
    <2> QED
        BY <1>1, <2>1, <2>3, <2>4 DEF Ordered
<1>4. CASE object.currentRound # 0
    <2> DEFINE g == Append(h, entry)
    <2>1. BackedUp(object) = g
        BY <1>4 DEF BackedUp
    <2>2. /\ g \in Seq(Entry)
          /\ Len(g) = Len(h) + 1
          /\ \A i \in 1 .. Len(h) : g[i] = h[i]
          /\ g[Len(h) + 1] = entry
        BY <1>1, AppendProperties
    <2>3. Len(h) \in Nat /\ entry.round = object.currentRound
        BY <1>1, LenProperties
    <2> HIDE DEF g, entry, h
    <2>4. \A i \in 1 .. Len(h) : h[i].round < object.currentRound
        BY DEF Ordered, h
    <2>5. \A i, j \in 1 .. Len(h) : i < j => h[i].round < h[j].round
        BY DEF Ordered, h
    <2>6. \A i \in 1 .. Len(g) : g[i].round < next
        BY <1>1, <1>2, <2>2, <2>3, <2>4
    <2>7. \A i, j \in 1 .. Len(g) : i < j => g[i].round < g[j].round
        BY <1>1, <1>2, <2>2, <2>3, <2>4, <2>5
    <2> QED
        BY <2>1, <2>2, <2>6, <2>7 DEF Ordered
<1> QED
    BY <1>3, <1>4

LedgerInv == LedgerTypeOK /\ HistoryIsOrdered

\* A step on one object that leaves its history ordered keeps the invariant.
LEMMA SetKeepsOrder ==
    ASSUME LedgerInv, NEW n \in Names, NEW object \in Object, Set(n, object),
           object.exists => object.spec \in Specs,
           Ordered(object.history, object.currentRound)
    PROVE  LedgerInv'
<1>1. /\ rounds' \in [Names -> Object]
      /\ rounds'[n] = object
      /\ \A m \in Names : m # n => rounds'[m] = rounds[m]
    BY DEF LedgerInv, LedgerTypeOK, Set
<1>2. LedgerTypeOK'
    BY <1>1 DEF LedgerInv, LedgerTypeOK
<1>3. HistoryIsOrdered'
    <2> SUFFICES ASSUME NEW m \in Names
                 PROVE  Ordered(rounds'[m].history, rounds'[m].currentRound)
        BY DEF HistoryIsOrdered, Ordered
    <2>1. CASE m = n
        BY <1>1, <2>1
    <2>2. CASE m # n
        BY <1>1, <2>2 DEF LedgerInv, HistoryIsOrdered, Ordered
    <2> QED
        BY <2>1, <2>2
<1> QED
    BY <1>2, <1>3 DEF LedgerInv

LEMMA EmptyIsOrdered == <<>> \in Seq(Entry) /\ Ordered(<<>>, 0)
BY EmptySeq DEF Ordered

LEMMA LedgerInvHolds == ASSUME HaveRounds, LedgerInv, [Next]_rounds PROVE LedgerInv'
<1>0. \A n \in Names : /\ rounds[n] \in Object
                       /\ rounds[n].exists => rounds[n].spec \in Specs
                       /\ Ordered(rounds[n].history, rounds[n].currentRound)
    BY DEF LedgerInv, LedgerTypeOK, HistoryIsOrdered, Ordered
<1>1. CASE UNCHANGED rounds
    BY <1>1 DEF LedgerInv, LedgerTypeOK, HistoryIsOrdered
<1>2. ASSUME NEW n \in Names, NEW spec \in Specs, Appear(n, spec)
      PROVE  LedgerInv'
    <2>1. New(spec) \in Object /\ New(spec).spec \in Specs
        BY EmptyIsOrdered DEF New, Object, Phases
    <2>2. Ordered(New(spec).history, New(spec).currentRound)
        BY EmptyIsOrdered DEF New
    <2> QED
        BY <1>2, <2>1, <2>2, SetKeepsOrder DEF Appear
<1>3. ASSUME NEW n \in Names, NEW spec \in Specs, Ask(n, spec)
      PROVE  LedgerInv'
    <2> DEFINE object == [rounds[n] EXCEPT !.spec = spec]
    <2>1. /\ object \in Object
          /\ object.spec \in Specs
          /\ object.history = rounds[n].history
          /\ object.currentRound = rounds[n].currentRound
        BY <1>0 DEF Object
    <2> HIDE DEF object
    <2>2. Set(n, object)
        BY <1>3 DEF Ask, object
    <2> QED
        BY <1>0, <2>1, <2>2, SetKeepsOrder
<1>4. ASSUME NEW n \in Names, AskToVanish(n)
      PROVE  LedgerInv'
    <2> DEFINE object == [rounds[n] EXCEPT !.deleting = TRUE]
    <2>1. /\ object \in Object
          /\ object.exists => object.spec \in Specs
          /\ object.history = rounds[n].history
          /\ object.currentRound = rounds[n].currentRound
        BY <1>0 DEF Object
    <2> HIDE DEF object
    <2>2. Set(n, object)
        BY <1>4 DEF AskToVanish, object
    <2> QED
        BY <1>0, <2>1, <2>2, SetKeepsOrder
<1>5. ASSUME NEW n \in Names, Vanish(n)
      PROVE  LedgerInv'
    <2>1. Absent \in Object /\ ~Absent.exists
        BY EmptyIsOrdered DEF Absent, Object, Phases
    <2>2. Ordered(Absent.history, Absent.currentRound)
        BY EmptyIsOrdered DEF Absent
    <2> QED
        BY <1>5, <2>1, <2>2, SetKeepsOrder DEF Vanish
<1>6. ASSUME NEW n \in Names, NEW phase \in Phases, MoveOn(n, phase)
      PROVE  LedgerInv'
    <2> DEFINE next == rounds[n].spec.round
               object == [rounds[n] EXCEPT !.phase = phase,
                                           !.history = BackedUp(rounds[n]),
                                           !.currentRound = next]
    <2>1. rounds[n].spec \in Specs /\ next \in Int /\ next > rounds[n].currentRound
        BY <1>0, <1>6 DEF HaveRounds, MoveOn
    <2>2. Set(n, object)
        BY <1>6 DEF MoveOn
    <2>3. BackedUp(rounds[n]) \in Seq(Entry) /\ Ordered(BackedUp(rounds[n]), next)
        BY <1>0, <2>1, ArchiveIsOrdered
    <2>4. /\ object \in Object
          /\ object.spec \in Specs
          /\ object.history = BackedUp(rounds[n])
          /\ object.currentRound = next
        BY <1>0, <2>1, <2>3 DEF Object
    <2> HIDE DEF object, next
    <2> QED
        BY <2>2, <2>3, <2>4, SetKeepsOrder
<1>7. ASSUME NEW n \in Names, NEW phase \in Phases, Report(n, phase)
      PROVE  LedgerInv'
    <2> DEFINE object == [rounds[n] EXCEPT !.phase = phase]
    <2>1. /\ object \in Object
          /\ object.exists => object.spec \in Specs
          /\ object.history = rounds[n].history
          /\ object.currentRound = rounds[n].currentRound
        BY <1>0 DEF Object
    <2> HIDE DEF object
    <2>2. Set(n, object)
        BY <1>7 DEF Report, object
    <2> QED
        BY <1>0, <2>1, <2>2, SetKeepsOrder
<1> QED
    BY <1>1, <1>2, <1>3, <1>4, <1>5, <1>6, <1>7 DEF Next

\* Every history lists its rounds in increasing order, before the current one:
\* what BackupState appends, whenever it is called, keeps the list in order.
THEOREM HistoriesAreOrdered == HaveRounds /\ Spec => []HistoryIsOrdered
<1>1. Init => LedgerInv
    <2> SUFFICES ASSUME Init PROVE LedgerInv
        OBVIOUS
    <2>1. Absent \in Object /\ ~Absent.exists
        BY EmptyIsOrdered DEF Absent, Object, Phases
    <2>2. LedgerTypeOK
        BY <2>1 DEF Init, LedgerTypeOK
    <2>3. \A n \in Names : rounds[n].history = <<>>
        BY DEF Init, Absent
    <2>4. HistoryIsOrdered
        BY <2>3 DEF HistoryIsOrdered
    <2> QED
        BY <2>2, <2>4 DEF LedgerInv
<1>2. LedgerInv => HistoryIsOrdered
    BY DEF LedgerInv
<1>3. HaveRounds /\ LedgerInv /\ [Next]_rounds => LedgerInv'
    BY LedgerInvHolds
<1>4. HaveRounds => HaveRounds'
    BY DEF HaveRounds
<1> QED
    BY <1>1, <1>2, <1>3, <1>4, PTL DEF Spec

-----------------------------------------------------------------------------
(* How an implementation shows that a step is one of the ledger: by what the *)
(* object that is stored has of the one that was there.                      *)

LEMMA SameObject ==
    ASSUME NEW o \in Object, NEW p \in Object,
           o.exists = p.exists, o.deleting = p.deleting, o.spec = p.spec, o.phase = p.phase,
           o.currentRound = p.currentRound, o.history = p.history
    PROVE  o = p
BY DEF Object

LEMMA StepAppears ==
    ASSUME NEW n \in Names, NEW new \in Object, Set(n, new), ~rounds[n].exists,
           new.exists, ~new.deleting, new.spec \in Specs, new.phase = "",
           new.currentRound = 0, new.history = <<>>
    PROVE  Next
<1> DEFINE made == New(new.spec)
<1>1. made \in Object
    BY EmptySeq DEF New, Object, Phases
<1>2. /\ made.exists = TRUE /\ made.deleting = FALSE /\ made.spec = new.spec /\ made.phase = ""
      /\ made.currentRound = 0 /\ made.history = <<>>
    BY DEF New
<1>3. new.exists = TRUE /\ new.deleting = FALSE
    <2>1. new.exists \in BOOLEAN /\ new.deleting \in BOOLEAN
        BY DEF Object
    <2> QED
        BY <2>1
<1> HIDE DEF made
<1>4. new = made
    BY <1>1, <1>2, <1>3, SameObject
<1>5. Appear(n, new.spec)
    BY <1>4 DEF Appear, made
<1> QED
    BY <1>5 DEF Next

LEMMA StepAsks ==
    ASSUME LedgerTypeOK, NEW n \in Names, NEW new \in Object, Set(n, new), rounds[n].exists,
           new.spec \in Specs,
           new.exists = rounds[n].exists, new.deleting = rounds[n].deleting,
           new.phase = rounds[n].phase, new.currentRound = rounds[n].currentRound,
           new.history = rounds[n].history
    PROVE  Next
<1> DEFINE asked == [rounds[n] EXCEPT !.spec = new.spec]
<1>1. rounds[n] \in Object
    BY DEF LedgerTypeOK
<1>2. /\ asked \in Object /\ asked.spec = new.spec
      /\ asked.exists = rounds[n].exists /\ asked.deleting = rounds[n].deleting
      /\ asked.phase = rounds[n].phase /\ asked.history = rounds[n].history
      /\ asked.currentRound = rounds[n].currentRound
    BY <1>1 DEF Object
<1> HIDE DEF asked
<1>3. new = asked
    BY <1>2, SameObject
<1>4. Ask(n, new.spec)
    BY <1>3 DEF Ask, asked
<1> QED
    BY <1>4 DEF Next

LEMMA StepMarks ==
    ASSUME LedgerTypeOK, NEW n \in Names, NEW new \in Object, Set(n, new), rounds[n].exists,
           new.deleting = TRUE,
           new.exists = rounds[n].exists, new.spec = rounds[n].spec,
           new.phase = rounds[n].phase, new.currentRound = rounds[n].currentRound,
           new.history = rounds[n].history
    PROVE  Next
<1> DEFINE marked == [rounds[n] EXCEPT !.deleting = TRUE]
<1>1. rounds[n] \in Object
    BY DEF LedgerTypeOK
<1>2. /\ marked \in Object /\ marked.deleting = TRUE
      /\ marked.exists = rounds[n].exists /\ marked.spec = rounds[n].spec
      /\ marked.phase = rounds[n].phase /\ marked.history = rounds[n].history
      /\ marked.currentRound = rounds[n].currentRound
    BY <1>1 DEF Object
<1> HIDE DEF marked
<1>3. new = marked
    BY <1>2, SameObject
<1>4. AskToVanish(n)
    BY <1>3 DEF AskToVanish, marked
<1> QED
    BY <1>4 DEF Next

LEMMA StepVanishes ==
    ASSUME NEW n \in Names, Set(n, Absent), rounds[n].exists
    PROVE  Next
BY DEF Next, Vanish

LEMMA StepMovesOn ==
    ASSUME LedgerTypeOK, NEW n \in Names, NEW new \in Object, Set(n, new),
           rounds[n].exists, ~rounds[n].deleting,
           rounds[n].spec.round > rounds[n].currentRound,
           new.exists = rounds[n].exists, new.deleting = rounds[n].deleting,
           new.spec = rounds[n].spec, new.phase \in {"Pending", "Failed"},
           new.currentRound = rounds[n].spec.round, new.history = BackedUp(rounds[n])
    PROVE  Next
<1> DEFINE round == rounds[n].spec.round
           history == BackedUp(rounds[n])
           moved == [rounds[n] EXCEPT !.phase = new.phase, !.history = history,
                                      !.currentRound = round]
<1>1. rounds[n] \in Object /\ round \in Int /\ history \in Seq(Entry) /\ new.phase \in Phases
    BY DEF LedgerTypeOK, Object
<1> HIDE DEF round, history
<1>2. /\ moved \in Object /\ moved.phase = new.phase
      /\ moved.exists = rounds[n].exists /\ moved.deleting = rounds[n].deleting
      /\ moved.spec = rounds[n].spec /\ moved.history = history
      /\ moved.currentRound = round
    BY <1>1 DEF Object
<1> HIDE DEF moved
<1>3. new = moved
    BY <1>2, SameObject DEF round, history
<1>4. MoveOn(n, new.phase)
    BY <1>3 DEF MoveOn, moved, round, history
<1> QED
    BY <1>1, <1>4 DEF Next

LEMMA StepReports ==
    ASSUME LedgerTypeOK, NEW n \in Names, NEW new \in Object, Set(n, new),
           rounds[n].exists, ~rounds[n].deleting,
           \/ rounds[n].spec.round < rounds[n].currentRound /\ new.phase = "UNDO"
           \/ rounds[n].spec.round = rounds[n].currentRound /\ new.phase # "UNDO",
           new.exists = rounds[n].exists, new.deleting = rounds[n].deleting,
           new.spec = rounds[n].spec, new.currentRound = rounds[n].currentRound,
           new.history = rounds[n].history
    PROVE  Next
<1> DEFINE told == [rounds[n] EXCEPT !.phase = new.phase]
<1>1. rounds[n] \in Object /\ new.phase \in Phases
    BY DEF LedgerTypeOK, Object
<1>2. /\ told \in Object /\ told.phase = new.phase
      /\ told.exists = rounds[n].exists /\ told.deleting = rounds[n].deleting
      /\ told.spec = rounds[n].spec /\ told.history = rounds[n].history
      /\ told.currentRound = rounds[n].currentRound
    BY <1>1 DEF Object
<1> HIDE DEF told
<1>3. new = told
    BY <1>2, SameObject
<1>4. Report(n, new.phase)
    BY <1>1, <1>3 DEF Report, told
<1> QED
    BY <1>1, <1>4 DEF Next

LEMMA StepKeeps ==
    ASSUME LedgerTypeOK, NEW n \in Names, NEW new \in Object, Set(n, new),
           new.exists = rounds[n].exists, new.deleting = rounds[n].deleting,
           new.spec = rounds[n].spec, new.phase = rounds[n].phase,
           new.currentRound = rounds[n].currentRound, new.history = rounds[n].history
    PROVE  UNCHANGED rounds
<1>1. rounds[n] \in Object
    BY DEF LedgerTypeOK
<1>2. new = rounds[n]
    BY <1>1, SameObject
<1> QED
    BY <1>2 DEF Set, LedgerTypeOK
=============================================================================
