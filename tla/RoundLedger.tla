---------------------------- MODULE RoundLedger ----------------------------
(***************************************************************************)
(* What the reconcilers of objects with rounds promise, without caches,    *)
(* conflicts, queues or workloads: an object is asked for a round by its   *)
(* spec, a step moves it to exactly the round that is asked for at that    *)
(* moment and archives the round that ends, and a status is reported only  *)
(* for the round asked for at that moment.  Deployer and Builder implement *)
(* it, and Workflow where all workflows build.                             *)
(***************************************************************************)
EXTENDS CommonStatus

CONSTANTS
    Names,      \* the objects
    Specs,      \* what they may be asked for: records with a field `round`
    None        \* the spec of an object that does not exist

VARIABLE rounds

Absent == [exists |-> FALSE, deleting |-> FALSE, spec |-> None, phase |-> "",
           currentRound |-> 0, history |-> <<>>]

New(spec) == [exists |-> TRUE, deleting |-> FALSE, spec |-> spec, phase |-> "",
              currentRound |-> 0, history |-> <<>>]

Init == rounds = [n \in Names |-> Absent]

Set(n, object) == rounds' = [rounds EXCEPT ![n] = object]

Appear(n, spec) == ~rounds[n].exists /\ Set(n, New(spec))

Ask(n, spec) == rounds[n].exists /\ Set(n, [rounds[n] EXCEPT !.spec = spec])

AskToVanish(n) == rounds[n].exists /\ Set(n, [rounds[n] EXCEPT !.deleting = TRUE])

Vanish(n) == rounds[n].exists /\ Set(n, Absent)

\* The status after the step tells whether the round could be started.
MoveOn(n, phase) ==
    /\ rounds[n].exists /\ ~rounds[n].deleting
    /\ rounds[n].spec.round > rounds[n].currentRound
    /\ phase \in {"Pending", "Failed"}
    /\ Set(n, [rounds[n] EXCEPT !.phase = phase,
                                !.history = BackedUp(rounds[n]),
                                !.currentRound = rounds[n].spec.round])

\* UNDO is reported while an earlier round is asked for, and only then.
Report(n, phase) ==
    /\ rounds[n].exists /\ ~rounds[n].deleting
    /\ \/ rounds[n].spec.round < rounds[n].currentRound /\ phase = "UNDO"
       \/ rounds[n].spec.round = rounds[n].currentRound /\ phase \in Phases \ {"UNDO"}
    /\ Set(n, [rounds[n] EXCEPT !.phase = phase])

Next ==
    \E n \in Names :
        \/ \E spec \in Specs : Appear(n, spec) \/ Ask(n, spec)
        \/ AskToVanish(n)
        \/ Vanish(n)
        \/ \E phase \in Phases : MoveOn(n, phase) \/ Report(n, phase)

Spec == Init /\ [][Next]_rounds

\* The history of an object lists its rounds in increasing order, each once,
\* all of them before the current one.
HistoryIsOrdered ==
    \A n \in Names :
        LET h == rounds[n].history IN
        /\ \A i \in 1 .. Len(h) : h[i].round < rounds[n].currentRound
        /\ \A i, j \in 1 .. Len(h) : i < j => h[i].round < h[j].round
=============================================================================
