----------------------------- MODULE MCBuilder ------------------------------
(* Small instances of Builder: one builder, whose rounds have destinations of *)
(* their own, and hooks that deploy what it builds.                           *)
EXTENDS Builder

CONSTANTS b1, d1, d2

\* Round r is pushed to image r.
Image1 == {1}
Image12 == {1, 2}

Force(d) == [deployer |-> d, forceRound |-> TRUE, dynamicImage |-> TRUE, image |-> None]
Follow(d) == [Force(d) EXCEPT !.forceRound = FALSE]

SpecOf(round, raw, hooks) ==
    [round |-> round, destination |-> round, raw |-> raw, hooks |-> hooks]

OneRound == {SpecOf(1, FALSE, <<Follow(d1)>>)}
TwoRounds == {SpecOf(1, TRUE, <<Force(d1), Force(d2)>>), SpecOf(2, TRUE, <<Force(d1)>>)}
=============================================================================
