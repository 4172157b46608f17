----------------------------- MODULE PoolLedger -----------------------------
(***************************************************************************)
(* What a resource pool promises, without caches, finalizers, conflicts or *)
(* controllers: a ledger of reservations per pool that changes by atomic   *)
(* grants, returns and recomputations, and that is removed only when no    *)
(* reservation is left.  ResourcePool and Deployer implement it.           *)
(*                                                                         *)
(* The ledger does NOT promise that the reservations fit the capacity:     *)
(* `free` is a register that a recomputation brings up to date, and a      *)
(* grant consults the register only.                                       *)
(***************************************************************************)
EXTENDS Resources

CONSTANTS
    Pools,      \* the names of resource pools
    NoAmount    \* the value of `free` before the first recomputation

VARIABLE ledger

Closed == [open |-> FALSE, deleting |-> FALSE, capacity |-> Nothing,
           free |-> NoAmount, usage |-> <<>>]

New(capacity) == [open |-> TRUE, deleting |-> FALSE, capacity |-> capacity,
                  free |-> NoAmount, usage |-> <<>>]

Account == [open : BOOLEAN, deleting : BOOLEAN, capacity : Resource,
            free : Resource \cup {NoAmount}, usage : Seq(Reservation)]

Init == ledger = [p \in Pools |-> Closed]

Set(p, account) == ledger' = [ledger EXCEPT ![p] = account]

Open(p, capacity) ==
    /\ ~ledger[p].open
    /\ Set(p, New(capacity))

Resize(p, capacity) ==
    /\ ledger[p].open
    /\ Set(p, [ledger[p] EXCEPT !.capacity = capacity])

AskToClose(p) ==
    /\ ledger[p].open
    /\ Set(p, [ledger[p] EXCEPT !.deleting = TRUE])

\* A pool disappears with an empty usage list only.
Close(p) ==
    /\ ledger[p].open
    /\ ledger[p].usage = <<>>
    /\ Set(p, Closed)

\* The register is recomputed only if the reservations fit.
Recompute(p) ==
    LET left == Remaining(ledger[p].capacity, ledger[p].usage) IN
    /\ ledger[p].open
    /\ ~ledger[p].deleting
    /\ left \in Resource
    /\ Set(p, [ledger[p] EXCEPT !.free = left])

\* A grant fits the register as it is at the moment of the grant.
Grant(p, owner, request) ==
    /\ ledger[p].open
    /\ ledger[p].free # NoAmount
    /\ Fits(request, ledger[p].free)
    /\ Set(p, [ledger[p] EXCEPT
                   !.usage = Append(@, [owner |-> owner, amount |-> request])])

\* A return takes one entry of that owner, the oldest, and no other.
Return(p, owner) ==
    /\ Holds(ledger[p].usage, owner)
    /\ Set(p, [ledger[p] EXCEPT !.usage = Without(@, owner)])

Next ==
    \E p \in Pools :
        \/ \E capacity \in Capacities : Open(p, capacity) \/ Resize(p, capacity)
        \/ AskToClose(p)
        \/ Close(p)
        \/ Recompute(p)
        \/ \E owner \in Owners :
               \/ \E request \in Requests : Grant(p, owner, request)
               \/ Return(p, owner)

Spec == Init /\ [][Next]_ledger

=============================================================================
