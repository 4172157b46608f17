----------------------------- MODULE MCDeployer -----------------------------
(* Small instances of Deployer: one pool, in which one deployer fits, and   *)
(* specs that differ in the round only: jobs, or services.                  *)
EXTENDS Deployer

CONSTANT p1

CpuOnly == {"cpu"}
Cpu(n) == [k \in CpuOnly |-> n]
One == {Cpu(1)}
Two == {Cpu(2)}

SpecOf(round, type) == [round |-> round, pool |-> p1, type |-> type, amount |-> Cpu(2)]

JobsUpTo(round) == {SpecOf(r, "job") : r \in 1 .. round}
ServicesUpTo(round) == {SpecOf(r, "service") : r \in 1 .. round}
Jobs1 == JobsUpTo(1)
Jobs2 == JobsUpTo(2)
Services1 == ServicesUpTo(1)

\* Deployers of the same spec are interchangeable.
Symmetry == Permutations(Owners)
=============================================================================
