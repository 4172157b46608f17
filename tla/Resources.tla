----------------------------- MODULE Resources -----------------------------
(***************************************************************************)
(* Resource vectors (types.Resource: CPU and Memory) and the usage list of *)
(* a resource pool (ResourcePoolStatus.Usage): pure operators, no state.   *)
(***************************************************************************)
EXTENDS Integers, SequencesExt

CONSTANTS
    Kinds,      \* the components of a resource vector, e.g. {"cpu", "memory"}
    Owners,     \* the names of the deployers that may hold reservations
    Capacities, \* the capacities a user may give a pool
    Requests    \* the amounts a deployer's containers may add up to

Resource == [Kinds -> Nat]

ASSUME AmountsAssumption == Capacities \subseteq Resource /\ Requests \subseteq Resource

Nothing == [k \in Kinds |-> 0]

\* Every component fits: the check of BegResource, component by component.
Fits(request, free) == \A k \in Kinds : request[k] <= free[k]

\* One entry of the usage list: who reserved, and how much.
Reservation == [owner : Owners, amount : Resource]

\* The sum of the reservations, component by component.
Used(usage) ==
    [k \in Kinds |-> FoldSeq(LAMBDA u, sum : sum + u.amount[k], 0, usage)]

\* What remains of a capacity: a Resource only if no component is negative.
Remaining(capacity, usage) ==
    [k \in Kinds |-> capacity[k] - Used(usage)[k]]

\* The positions of an owner's reservations, and the first one: the entry on
\* which the loop of ReleaseResource breaks.
Positions(usage, owner) ==
    {i \in 1 .. Len(usage) : usage[i].owner = owner}

FirstOf(usage, owner) ==
    CHOOSE i \in Positions(usage, owner) :
        \A j \in Positions(usage, owner) : i <= j

Holds(usage, owner) == Positions(usage, owner) # {}

\* The list after a release: only the first entry of the owner goes.
Without(usage, owner) == RemoveAt(usage, FirstOf(usage, owner))
=============================================================================
