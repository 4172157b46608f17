---------------------------- MODULE ResourcePool ----------------------------
(***************************************************************************)
(* Resource pools: the copy of each pool in the API server, the copy in    *)
(* the manager's informer cache, the reconciler of resource pools and the  *)
(* two operations its clients (the deployers) perform on a pool, Beg and   *)
(* Release.                                                                *)
(*                                                                         *)
(* Reads come from the cache, writes go to the server and succeed only if  *)
(* the copy they were computed from is the server's current version.       *)
(* Instead of version numbers the module keeps, per pool, whether the      *)
(* cached copy is current.  A Get followed by one write is one action: a   *)
(* write that would lose the race is a conflict and changes nothing.       *)
(*                                                                         *)
(* A reconciliation that only returns an error or a requeue changes no     *)
(* state and has no action; every change of a pool is an event for its     *)
(* own reconciler, so a pool may be reconciled at any time.                *)
(***************************************************************************)
EXTENDS Resources

CONSTANTS
    Pools,      \* the names of resource pools
    NoAmount,   \* Status.Free == nil
    None,       \* the empty name
    MaxUsage,   \* bound: entries of a usage list the model lets a pool reach
    PoolsLag    \* TRUE: the cached copy of a pool may be out of date

ASSUME PoolAssumption ==
    /\ NoAmount \notin Resource
    /\ None \notin Pools
    /\ MaxUsage \in Nat \ {0}
    /\ PoolsLag \in BOOLEAN

VARIABLES
    pool,       \* the pools in the API server
    poolCache,  \* the pools in the informer cache
    poolFresh,  \* whether the cached copy is the server's version
    poolHeld    \* the pools whose reconciler has just added the finalizer and
                \* goes on with the copy that Update returned, still current

poolVars == <<pool, poolCache, poolFresh, poolHeld>>

PoolObject == [exists : BOOLEAN, deleting : BOOLEAN, finalizer : BOOLEAN,
               capacity : Resource, free : Resource \cup {NoAmount},
               usage : Seq(Reservation)]

AbsentPool == [exists |-> FALSE, deleting |-> FALSE, finalizer |-> FALSE,
               capacity |-> Nothing, free |-> NoAmount, usage |-> <<>>]

PoolInit ==
    /\ pool = [p \in Pools |-> AbsentPool]
    /\ poolCache = pool
    /\ poolFresh = [p \in Pools |-> TRUE]
    /\ poolHeld = {}

-----------------------------------------------------------------------------
(* The API server and the informer cache. *)

\* The server stores a new version of a pool.  A write that changes nothing
\* makes no new version.  Whoever holds the previous version will conflict.
WritePool(p, object) ==
    /\ pool' = [pool EXCEPT ![p] = object]
    /\ poolCache' = IF PoolsLag THEN poolCache ELSE pool'
    /\ poolFresh' = [poolFresh EXCEPT ![p] = (PoolsLag => @ /\ object = pool[p])]

\* An update computed from the cached copy: a conflict unless it is current.
UpdatePool(p, object) == poolFresh[p] /\ WritePool(p, object)

\* The informer catches up.
SyncPool(p) ==
    /\ ~poolFresh[p]
    /\ poolCache' = [poolCache EXCEPT ![p] = pool[p]]
    /\ poolFresh' = [poolFresh EXCEPT ![p] = TRUE]
    /\ UNCHANGED <<pool, poolHeld>>

-----------------------------------------------------------------------------
(* The users of the cluster. *)

CreatePool(p, capacity) ==
    /\ ~pool[p].exists
    /\ WritePool(p, [AbsentPool EXCEPT !.exists = TRUE, !.capacity = capacity])
    /\ poolHeld' = poolHeld \ {p}

ResizePool(p, capacity) ==
    /\ pool[p].exists
    /\ pool[p].capacity # capacity
    /\ WritePool(p, [pool[p] EXCEPT !.capacity = capacity])
    /\ poolHeld' = poolHeld \ {p}

\* Deleting an object with a finalizer only marks it.
DeletePool(p) ==
    /\ pool[p].exists
    /\ ~pool[p].deleting
    /\ WritePool(p, IF pool[p].finalizer
                      THEN [pool[p] EXCEPT !.deleting = TRUE]
                      ELSE AbsentPool)
    /\ poolHeld' = poolHeld \ {p}

PoolUser ==
    \E p \in Pools :
        \/ \E capacity \in Capacities :
               CreatePool(p, capacity) \/ ResizePool(p, capacity)
        \/ DeletePool(p)

-----------------------------------------------------------------------------
(* The reconciler of resource pools: one worker, one key at a time. *)

\* Mutant: the finalizer goes whatever is reserved.
DropPoolFinalizerInUse(p) ==
    LET seen == poolCache[p] IN
    /\ poolHeld = {}
    /\ seen.exists /\ seen.deleting /\ seen.finalizer
    /\ UpdatePool(p, AbsentPool)
    /\ UNCHANGED poolHeld

\* Mutant: waits for Free to be the capacity, which nobody recomputes any more.
DropPoolFinalizerWhenFree(p) ==
    LET seen == poolCache[p] IN
    /\ poolHeld = {}
    /\ seen.exists /\ seen.deleting /\ seen.finalizer
    /\ seen.free = seen.capacity
    /\ UpdatePool(p, AbsentPool)
    /\ UNCHANGED poolHeld

\* A pool marked for deletion loses its finalizer, and so disappears, once its
\* usage list is empty; until then the reconciler only asks to be called again.
DropPoolFinalizer(p) ==
    LET seen == poolCache[p] IN
    /\ poolHeld = {}
    /\ seen.exists /\ seen.deleting /\ seen.finalizer
    /\ seen.usage = <<>>
    /\ UpdatePool(p, AbsentPool)
    /\ UNCHANGED poolHeld

\* First visit: the finalizer is added and the reconciliation goes on with the
\* copy the server returned, whether or not the cache has seen it.
AddPoolFinalizer(p) ==
    LET seen == poolCache[p] IN
    /\ poolHeld = {}
    /\ seen.exists /\ ~seen.deleting /\ ~seen.finalizer
    /\ UpdatePool(p, [seen EXCEPT !.finalizer = TRUE])
    /\ poolHeld' = {p}

\* Mutant: a negative Free is written.
PublishFreeUnchecked(p, seen) ==
    /\ seen.exists /\ ~seen.deleting /\ seen.finalizer
    /\ WritePool(p, [seen EXCEPT !.free = Remaining(seen.capacity, seen.usage)])
    /\ poolHeld' = {}

\* Mutant: Free is written before the finalizer is added.
PublishFreeUnprotected(p, seen) ==
    LET free == Remaining(seen.capacity, seen.usage) IN
    /\ seen.exists /\ ~seen.deleting
    /\ free \in Resource
    /\ WritePool(p, [seen EXCEPT !.free = free])
    /\ poolHeld' = {}

\* Mutant: Free is computed once only.
PublishFreeOnce(p, seen) ==
    LET free == Remaining(seen.capacity, seen.usage) IN
    /\ seen.exists /\ ~seen.deleting /\ seen.finalizer
    /\ seen.free = NoAmount
    /\ free \in Resource
    /\ WritePool(p, [seen EXCEPT !.free = free])
    /\ poolHeld' = {}

\* Free is recomputed from the usage list and the whole status is written.  If
\* a component would be negative the reconciler returns an error first, and
\* the Free of the last success stays.
PublishFree(p, seen) ==
    LET free == Remaining(seen.capacity, seen.usage) IN
    /\ seen.exists /\ ~seen.deleting /\ seen.finalizer
    /\ free \in Resource
    /\ WritePool(p, [seen EXCEPT !.free = free])
    /\ poolHeld' = {}

PublishFromCache(p) == poolHeld = {} /\ poolFresh[p] /\ PublishFree(p, poolCache[p])

PublishAfterFinalizer(p) == p \in poolHeld /\ PublishFree(p, pool[p])

\* A negative Free, or the end of the process, ends the reconciliation early.
AbandonPool == poolHeld # {} /\ poolHeld' = {} /\ UNCHANGED <<pool, poolCache, poolFresh>>

\* The manager starts again: the cache is filled from the server.
RestartPools ==
    /\ poolCache' = pool
    /\ poolFresh' = [p \in Pools |-> TRUE]
    /\ poolHeld' = {}
    /\ UNCHANGED pool

PoolController ==
    \/ \E p \in Pools : \/ DropPoolFinalizer(p) \/ AddPoolFinalizer(p)
                        \/ PublishFromCache(p) \/ PublishAfterFinalizer(p)
    \/ AbandonPool

-----------------------------------------------------------------------------
(* The operations of the clients.  Each is the body of a RetryOnConflict:  *)
(* reads the cached pool, decides, and writes.  After a conflict the body  *)
(* runs again, or the retries are used up and the conflict is the error.   *)

\* BegResource takes Free.CPU of the cached copy: a nil Free is a panic.
BegPanics(p) == poolCache[p].exists /\ poolCache[p].free = NoAmount

\* No such pool, or "resource pool is not enough".  A list at the bound of the
\* model counts as a pool that is not enough.
BegRefused(p, amount) ==
    \/ ~poolCache[p].exists
    \/ Len(poolCache[p].usage) >= MaxUsage
    \/ poolCache[p].free # NoAmount /\ ~Fits(amount, poolCache[p].free)

\* A reservation is appended; Free is left for the reconciler to recompute.
BegGranted(p, owner, amount) ==
    LET seen == poolCache[p] IN
    /\ seen.exists /\ seen.free # NoAmount /\ Fits(amount, seen.free)
    /\ Len(seen.usage) < MaxUsage
    /\ UpdatePool(p, [seen EXCEPT
                          !.usage = Append(@, [owner |-> owner, amount |-> amount])])
    /\ poolHeld' = poolHeld \ {p}

\* The retries of a Beg or a Release are used up.
RetriesUsedUp(p) == poolCache[p].exists /\ ~poolFresh[p]

\* Mutant: releasing what is not reserved is an error.
NothingToReleaseIsAnError(p, owner) == p = None /\ owner \in Owners

\* ReleaseResource: nothing to do without a pool, or without an entry of the
\* owner in the cached copy.
NothingToRelease(p, owner) ==
    \/ p = None
    \/ p \in Pools /\ poolCache[p].exists /\ ~Holds(poolCache[p].usage, owner)

\* Mutant: every entry of the owner is removed.
ReleasedAll(p, owner) ==
    LET seen == poolCache[p] IN
    /\ p \in Pools
    /\ seen.exists /\ Holds(seen.usage, owner)
    /\ UpdatePool(p, [seen EXCEPT !.usage = SelectSeq(@, LAMBDA u : u.owner # owner)])
    /\ poolHeld' = poolHeld \ {p}

\* Mutant: the oldest entry goes, whoever's it is.
ReleasedOldest(p, owner) ==
    LET seen == poolCache[p] IN
    /\ p \in Pools
    /\ seen.exists /\ Holds(seen.usage, owner)
    /\ UpdatePool(p, [seen EXCEPT !.usage = Tail(@)])
    /\ poolHeld' = poolHeld \ {p}

\* The first entry of the owner is removed.
Released(p, owner) ==
    LET seen == poolCache[p] IN
    /\ p \in Pools
    /\ seen.exists /\ Holds(seen.usage, owner)
    /\ UpdatePool(p, [seen EXCEPT !.usage = Without(@, owner)])
    /\ poolHeld' = poolHeld \ {p}

\* A pool that does not exist is an error, not a release.
ReleaseFails(p, owner) ==
    /\ p \in Pools
    /\ \/ ~poolCache[p].exists
       \/ Holds(poolCache[p].usage, owner) /\ RetriesUsedUp(p)

\* Clients that beg and release whenever they like.
PoolClient ==
    \E p \in Pools, owner \in Owners :
        \/ \E amount \in Requests : BegGranted(p, owner, amount)
        \/ Released(p, owner)

-----------------------------------------------------------------------------
PoolNext ==
    \/ PoolController
    \/ PoolClient
    \/ PoolUser
    \/ \E p \in Pools : SyncPool(p)
    \/ RestartPools

PoolSpec == PoolInit /\ [][PoolNext]_poolVars

\* The informer delivers every change, and the queue of the reconciler hands
\* out every key it holds.
PoolFairness ==
    /\ \A p \in Pools : /\ WF_poolVars(SyncPool(p))
                        /\ WF_poolVars(DropPoolFinalizer(p))
                        /\ WF_poolVars(AddPoolFinalizer(p))
                        /\ WF_poolVars(PublishFromCache(p))
    /\ WF_poolVars(\/ AbandonPool \/ \E p \in Pools : PublishAfterFinalizer(p))

FairPoolSpec == PoolSpec /\ PoolFairness

-----------------------------------------------------------------------------
(* Properties. *)

\* Every variable has its type, and a copy called current is the server's.
PoolTypeOK ==
    /\ pool \in [Pools -> PoolObject]
    /\ poolCache \in [Pools -> PoolObject]
    /\ poolFresh \in [Pools -> BOOLEAN]
    /\ poolHeld \in SUBSET Pools
    /\ \A p \in Pools : poolFresh[p] => poolCache[p] = pool[p]

\* Reservations are protected: a pool in whose server copy anyone holds a
\* reservation still has its finalizer, so that deleting it waits for the
\* releases, and has been initialised by its reconciler.
ReservationsProtected ==
    \A p \in Pools :
        pool[p].usage # <<>> =>
            pool[p].exists /\ pool[p].finalizer /\ pool[p].free # NoAmount

\* The ledger seen through the finalizers, the caches and the conflicts.
Ledger == INSTANCE PoolLedger WITH
    ledger <- [p \in Pools |->
                   [open |-> pool[p].exists, deleting |-> pool[p].deleting,
                    capacity |-> pool[p].capacity, free |-> pool[p].free,
                    usage |-> pool[p].usage]]

\* Pools implement the ledger: no reservation is lost, doubled or taken by a
\* stale copy, a pool disappears with no reservation left, and every grant
\* fits the Free that is in the server when it is written.
ImplementsLedger == Ledger!Spec

\* When users and clients fall silent, every pool whose reservations fit ends
\* up with the Free that its capacity and its usage list determine.
Silence == <>[][~PoolClient /\ ~PoolUser]_poolVars

FreeIsRight(p) ==
    LET left == Remaining(pool[p].capacity, pool[p].usage) IN
    pool[p].exists /\ ~pool[p].deleting /\ left \in Resource => pool[p].free = left

FreeConverges == Silence => <>[](\A p \in Pools : FreeIsRight(p))

\* When users and clients fall silent, a pool marked for deletion on which
\* nobody holds a reservation is gone for good.
EmptyPoolsGo ==
    Silence => <>[](\A p \in Pools : pool[p].deleting => pool[p].usage # <<>>)
=============================================================================
