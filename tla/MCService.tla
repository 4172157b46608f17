----------------------------- MODULE MCService ------------------------------
(* A small instance of Service: one deployer, in whose rounds one port, two, *)
(* or none are exported.                                                     *)
EXTENDS Service

CONSTANT web

Tcp(number, export) == [protocol |-> "tcp", number |-> number, export |-> export]

SpecOf(round, ports) == [round |-> round, ports |-> ports]

\* Elsewhere, a round of the same number may fail.
Elsewhere == {[round |-> 1, state |-> "Failed"]}

Growing == {SpecOf(1, <<Tcp(80, TRUE)>>), SpecOf(1, <<Tcp(80, FALSE)>>),
            SpecOf(2, <<Tcp(80, TRUE), Tcp(81, TRUE)>>)}
=============================================================================
