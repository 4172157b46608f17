--------------------------- MODULE MCResourcePool ---------------------------
(* Small instances of ResourcePool. *)
EXTENDS ResourcePool

\* One resource kind: 2 fit in a pool of 3 once, 1 fits beside it.
CpuOnly == {"cpu"}
Cpu(n) == [k \in CpuOnly |-> n]
CpuCapacities == {Cpu(2), Cpu(3)}
CpuRequests == {Cpu(1), Cpu(2)}

=============================================================================
