----------------------------- MODULE MCWorkflow -----------------------------
(* Small instances of Workflow: what is built and then served, or run as a job. *)
EXTENDS Workflow

SpecsUpTo(round, type) == {[round |-> r, build |-> TRUE, type |-> type] : r \in 1 .. round}

Services2 == SpecsUpTo(2, "service")
Jobs1 == SpecsUpTo(1, "job")
=============================================================================
