------------------------- MODULE ResourcePoolProofs -------------------------
(***************************************************************************)
(* Proofs about ResourcePool: its type invariant, the protection of        *)
(* reservations, and that it implements PoolLedger, for any number of      *)
(* pools and clients, any capacities and requests, and caches as stale as  *)
(* they like.                                                              *)
(***************************************************************************)
EXTENDS ResourcePool, ResourcesProofs

LEMMA NothingIsAResource == Nothing \in Resource
BY DEF Nothing, Resource

LEMMA AbsentPoolType == AbsentPool \in PoolObject
BY NothingIsAResource, EmptySeq DEF AbsentPool, PoolObject

\* A write of the server keeps the types and the meaning of poolFresh.
LEMMA WritePoolType ==
    ASSUME PoolTypeOK, NEW p \in Pools, NEW object \in PoolObject,
           WritePool(p, object), poolHeld' \in SUBSET Pools
    PROVE  PoolTypeOK'
<1>1. pool' \in [Pools -> PoolObject]
    BY DEF PoolTypeOK, WritePool
<1>2. poolCache' \in [Pools -> PoolObject]
    BY <1>1 DEF PoolTypeOK, WritePool
<1>3. poolFresh' \in [Pools -> BOOLEAN]
    BY DEF PoolTypeOK, WritePool
<1>4. \A q \in Pools : poolFresh'[q] => poolCache'[q] = pool'[q]
    BY PoolAssumption DEF PoolTypeOK, WritePool
<1> QED
    BY <1>1, <1>2, <1>3, <1>4 DEF PoolTypeOK

\* A client's entry, appended or removed, leaves a well-typed pool.
LEMMA GrantedType ==
    ASSUME NEW object \in PoolObject, NEW owner \in Owners, NEW amount \in Requests
    PROVE  [object EXCEPT !.usage = Append(@, [owner |-> owner, amount |-> amount])]
               \in PoolObject
<1>1. [owner |-> owner, amount |-> amount] \in Reservation
    BY AmountsAssumption DEF Reservation
<1>2. object.usage \in Seq(Reservation)
    BY DEF PoolObject
<1>3. Append(object.usage, [owner |-> owner, amount |-> amount]) \in Seq(Reservation)
    BY <1>1, <1>2, AppendProperties
<1> QED
    BY <1>3 DEF PoolObject

\* What users write.
LEMMA WrittenType ==
    ASSUME NEW object \in PoolObject, NEW capacity \in Resource
    PROVE  [object EXCEPT !.capacity = capacity] \in PoolObject
BY DEF PoolObject

LEMMA MarkedPoolType ==
    ASSUME NEW object \in PoolObject
    PROVE  [object EXCEPT !.deleting = TRUE] \in PoolObject
BY DEF PoolObject

LEMMA ReleasedType ==
    ASSUME NEW object \in PoolObject, NEW owner, Holds(object.usage, owner)
    PROVE  [object EXCEPT !.usage = Without(@, owner)] \in PoolObject
<1>1. object.usage \in Seq(Reservation)
    BY DEF PoolObject
<1>2. Without(object.usage, owner) \in Seq(Reservation)
    BY <1>1, WithoutRemovesOne
<1> QED
    BY <1>2 DEF PoolObject

-----------------------------------------------------------------------------
(* Type correctness, action by action. *)

LEMMA PoolUserType == ASSUME PoolTypeOK, PoolUser PROVE PoolTypeOK'
<1>1. ASSUME NEW p \in Pools, NEW capacity \in Capacities, CreatePool(p, capacity)
      PROVE  PoolTypeOK'
    <2>1. [AbsentPool EXCEPT !.exists = TRUE, !.capacity = capacity] \in PoolObject
        BY AbsentPoolType, AmountsAssumption DEF PoolObject
    <2> QED
        BY <1>1, <2>1, WritePoolType DEF CreatePool, PoolTypeOK
<1>2. ASSUME NEW p \in Pools, NEW capacity \in Capacities, ResizePool(p, capacity)
      PROVE  PoolTypeOK'
    <2>1. [pool[p] EXCEPT !.capacity = capacity] \in PoolObject
        <3>1. pool[p] \in PoolObject /\ capacity \in Resource
            BY AmountsAssumption DEF PoolTypeOK
        <3> QED
            BY ONLY <3>1, WrittenType
    <2> QED
        BY <1>2, <2>1, WritePoolType DEF ResizePool, PoolTypeOK
<1>3. ASSUME NEW p \in Pools, DeletePool(p)
      PROVE  PoolTypeOK'
    <2>1. [pool[p] EXCEPT !.deleting = TRUE] \in PoolObject
        <3>1. pool[p] \in PoolObject
            BY DEF PoolTypeOK
        <3> QED
            BY ONLY <3>1, MarkedPoolType
    <2> QED
        BY <1>3, <2>1, AbsentPoolType, WritePoolType DEF DeletePool, PoolTypeOK
<1> QED
    BY <1>1, <1>2, <1>3 DEF PoolUser

LEMMA PublishFreeType ==
    ASSUME PoolTypeOK, NEW p \in Pools, NEW seen \in PoolObject, PublishFree(p, seen)
    PROVE  PoolTypeOK'
<1>1. [seen EXCEPT !.free = Remaining(seen.capacity, seen.usage)] \in PoolObject
    BY DEF PublishFree, PoolObject
<1> QED
    BY <1>1, WritePoolType DEF PublishFree

LEMMA PoolControllerType == ASSUME PoolTypeOK, PoolController PROVE PoolTypeOK'
<1>1. ASSUME NEW p \in Pools, DropPoolFinalizer(p) PROVE PoolTypeOK'
    BY <1>1, AbsentPoolType, WritePoolType DEF DropPoolFinalizer, UpdatePool, PoolTypeOK
<1>2. ASSUME NEW p \in Pools, AddPoolFinalizer(p) PROVE PoolTypeOK'
    <2>1. [poolCache[p] EXCEPT !.finalizer = TRUE] \in PoolObject
        BY DEF PoolTypeOK, PoolObject
    <2> QED
        BY <1>2, <2>1, WritePoolType DEF AddPoolFinalizer, UpdatePool, PoolTypeOK
<1>3. ASSUME NEW p \in Pools, PublishFromCache(p) PROVE PoolTypeOK'
    BY <1>3, PublishFreeType DEF PublishFromCache, PoolTypeOK
<1>4. ASSUME NEW p \in Pools, PublishAfterFinalizer(p) PROVE PoolTypeOK'
    BY <1>4, PublishFreeType DEF PublishAfterFinalizer, PoolTypeOK
<1>5. ASSUME AbandonPool PROVE PoolTypeOK'
    BY <1>5 DEF AbandonPool, PoolTypeOK
<1> QED
    BY <1>1, <1>2, <1>3, <1>4, <1>5 DEF PoolController

LEMMA PoolClientType == ASSUME PoolTypeOK, PoolClient PROVE PoolTypeOK'
<1>1. ASSUME NEW p \in Pools, NEW owner \in Owners, NEW amount \in Requests,
             BegGranted(p, owner, amount)
      PROVE  PoolTypeOK'
    <2>1. poolCache[p] \in PoolObject
        BY DEF PoolTypeOK
    <2>2. [poolCache[p] EXCEPT
              !.usage = Append(@, [owner |-> owner, amount |-> amount])] \in PoolObject
        BY <2>1, GrantedType
    <2> QED
        BY <1>1, <2>2, WritePoolType DEF BegGranted, UpdatePool, PoolTypeOK
<1>2. ASSUME NEW p \in Pools, NEW owner \in Owners, Released(p, owner)
      PROVE  PoolTypeOK'
    <2>1. poolCache[p] \in PoolObject
        BY DEF PoolTypeOK
    <2>2. [poolCache[p] EXCEPT !.usage = Without(@, owner)] \in PoolObject
        BY <1>2, <2>1, ReleasedType DEF Released
    <2> QED
        BY <1>2, <2>2, WritePoolType DEF Released, UpdatePool, PoolTypeOK
<1> QED
    BY <1>1, <1>2 DEF PoolClient

LEMMA PoolNextType == ASSUME PoolTypeOK, PoolNext PROVE PoolTypeOK'
<1>1. ASSUME NEW p \in Pools, SyncPool(p) PROVE PoolTypeOK'
    BY <1>1 DEF SyncPool, PoolTypeOK
<1>2. CASE RestartPools
    BY <1>2 DEF RestartPools, PoolTypeOK
<1> QED
    BY <1>1, <1>2, PoolControllerType, PoolClientType, PoolUserType DEF PoolNext

\* ResourcePool is type correct, and a cached copy that is called current is
\* the server's: no write of any actor leaves a stale copy marked as fresh.
THEOREM PoolTypeCorrect == PoolSpec => []PoolTypeOK
<1>1. PoolInit => PoolTypeOK
    BY AbsentPoolType DEF PoolInit, PoolTypeOK
<1>2. PoolTypeOK /\ [PoolNext]_poolVars => PoolTypeOK'
    <2>1. PoolTypeOK /\ PoolNext => PoolTypeOK'
        BY PoolNextType
    <2>2. PoolTypeOK /\ UNCHANGED poolVars => PoolTypeOK'
        BY DEF poolVars, PoolTypeOK
    <2> QED
        BY <2>1, <2>2
<1> QED
    BY <1>1, <1>2, PTL DEF PoolSpec

-----------------------------------------------------------------------------
(* Reservations are protected.  The invariant is not inductive alone: a    *)
(* grant must know that a pool with a Free has its finalizer.              *)

Guarded(object) ==
    /\ object.usage # <<>> =>
           object.exists /\ object.finalizer /\ object.free # NoAmount
    /\ object.free # NoAmount => object.exists /\ object.finalizer

\* The inductive invariant: ReservationsProtected, strengthened by "only the
\* reconciler that has added the finalizer writes a Free".
PoolInv == PoolTypeOK /\ \A p \in Pools : Guarded(pool[p])

LEMMA WritePoolGuards ==
    ASSUME PoolInv, NEW p \in Pools, NEW object, Guarded(object), WritePool(p, object)
    PROVE  \A q \in Pools : Guarded(pool'[q])
BY DEF PoolInv, PoolTypeOK, WritePool

LEMMA AbsentPoolGuarded == Guarded(AbsentPool)
BY DEF Guarded, AbsentPool

LEMMA PoolUserGuards ==
    ASSUME PoolInv, PoolUser PROVE \A q \in Pools : Guarded(pool'[q])
<1>1. ASSUME NEW p \in Pools, NEW capacity \in Capacities, CreatePool(p, capacity)
      PROVE  \A q \in Pools : Guarded(pool'[q])
    <2>1. Guarded([AbsentPool EXCEPT !.exists = TRUE, !.capacity = capacity])
        BY DEF Guarded, AbsentPool
    <2> QED
        BY <1>1, <2>1, WritePoolGuards DEF CreatePool
<1>2. ASSUME NEW p \in Pools, NEW capacity \in Capacities, ResizePool(p, capacity)
      PROVE  \A q \in Pools : Guarded(pool'[q])
    <2>1. Guarded([pool[p] EXCEPT !.capacity = capacity])
        BY DEF PoolInv, PoolTypeOK, PoolObject, Guarded
    <2> QED
        BY <1>2, <2>1, WritePoolGuards DEF ResizePool
<1>3. ASSUME NEW p \in Pools, DeletePool(p)
      PROVE  \A q \in Pools : Guarded(pool'[q])
    <2>1. Guarded([pool[p] EXCEPT !.deleting = TRUE])
        BY DEF PoolInv, PoolTypeOK, PoolObject, Guarded
    <2> QED
        BY <1>3, <2>1, AbsentPoolGuarded, WritePoolGuards DEF DeletePool
<1> QED
    BY <1>1, <1>2, <1>3 DEF PoolUser

LEMMA PoolControllerGuards ==
    ASSUME PoolInv, PoolController PROVE \A q \in Pools : Guarded(pool'[q])
<1>1. ASSUME NEW p \in Pools, DropPoolFinalizer(p)
      PROVE  \A q \in Pools : Guarded(pool'[q])
    BY <1>1, AbsentPoolGuarded, WritePoolGuards DEF DropPoolFinalizer, UpdatePool
<1>2. ASSUME NEW p \in Pools, AddPoolFinalizer(p)
      PROVE  \A q \in Pools : Guarded(pool'[q])
    <2>1. poolCache[p] = pool[p] /\ poolCache[p].exists
        BY <1>2 DEF AddPoolFinalizer, UpdatePool, PoolInv, PoolTypeOK
    <2>2. Guarded([pool[p] EXCEPT !.finalizer = TRUE])
        BY <2>1 DEF PoolInv, PoolTypeOK, PoolObject, Guarded
    <2> QED
        BY <1>2, <2>1, <2>2, WritePoolGuards DEF AddPoolFinalizer, UpdatePool
<1>3. ASSUME NEW p \in Pools, NEW seen \in PoolObject, PublishFree(p, seen)
      PROVE  \A q \in Pools : Guarded(pool'[q])
    <2>1. Guarded([seen EXCEPT !.free = Remaining(seen.capacity, seen.usage)])
        BY <1>3, PoolAssumption DEF PublishFree, PoolObject, Guarded
    <2> QED
        BY <1>3, <2>1, WritePoolGuards DEF PublishFree
<1>4. ASSUME AbandonPool PROVE \A q \in Pools : Guarded(pool'[q])
    BY <1>4 DEF AbandonPool, PoolInv
<1> QED
    BY <1>1, <1>2, <1>3, <1>4
    DEF PoolController, PublishFromCache, PublishAfterFinalizer, PoolInv, PoolTypeOK

LEMMA PoolClientGuards ==
    ASSUME PoolInv, PoolClient PROVE \A q \in Pools : Guarded(pool'[q])
<1>1. ASSUME NEW p \in Pools, NEW owner \in Owners, NEW amount \in Requests,
             BegGranted(p, owner, amount)
      PROVE  \A q \in Pools : Guarded(pool'[q])
    <2>1. poolCache[p] = pool[p] /\ pool[p].free # NoAmount
        BY <1>1 DEF BegGranted, UpdatePool, PoolInv, PoolTypeOK
    <2>2. Guarded([pool[p] EXCEPT
                       !.usage = Append(@, [owner |-> owner, amount |-> amount])])
        BY <2>1 DEF PoolInv, PoolTypeOK, PoolObject, Guarded
    <2> QED
        BY <1>1, <2>1, <2>2, WritePoolGuards DEF BegGranted, UpdatePool
<1>2. ASSUME NEW p \in Pools, NEW owner \in Owners, Released(p, owner)
      PROVE  \A q \in Pools : Guarded(pool'[q])
    <2>1. poolCache[p] = pool[p] /\ Holds(pool[p].usage, owner)
        BY <1>2 DEF Released, UpdatePool, PoolInv, PoolTypeOK
    <2>2. pool[p].usage # <<>>
        BY <2>1 DEF Holds, Positions
    <2>3. Guarded([pool[p] EXCEPT !.usage = Without(@, owner)])
        BY <2>2 DEF PoolInv, PoolTypeOK, PoolObject, Guarded
    <2> QED
        BY <1>2, <2>1, <2>3, WritePoolGuards DEF Released, UpdatePool
<1> QED
    BY <1>1, <1>2 DEF PoolClient

\* Every state of the specification satisfies the inductive invariant.
THEOREM PoolInvariant == PoolSpec => []PoolInv
<1>1. PoolInit => PoolInv
    BY AbsentPoolType, AbsentPoolGuarded DEF PoolInit, PoolTypeOK, PoolInv
<1>2. PoolInv /\ [PoolNext]_poolVars => PoolInv'
    <2> SUFFICES ASSUME PoolInv, [PoolNext]_poolVars PROVE PoolInv'
        OBVIOUS
    <2>1. CASE PoolNext
        <3>1. PoolTypeOK'
            BY <2>1, PoolNextType DEF PoolInv
        <3>2. ASSUME UNCHANGED pool PROVE \A q \in Pools : Guarded(pool'[q])
            BY <3>2 DEF PoolInv
        <3>3. \A q \in Pools : Guarded(pool'[q])
            BY <2>1, <3>2, PoolControllerGuards, PoolClientGuards, PoolUserGuards
            DEF PoolNext, SyncPool, RestartPools
        <3> QED
            BY <3>1, <3>3 DEF PoolInv
    <2>2. CASE UNCHANGED poolVars
        BY <2>2 DEF poolVars, PoolInv, PoolTypeOK
    <2> QED
        BY <2>1, <2>2
<1> QED
    BY <1>1, <1>2, PTL DEF PoolSpec

\* A pool in which anyone holds a reservation still has its finalizer and has
\* been initialised, whatever users, clients and restarts do in between.
THEOREM ReservationsAreProtected == PoolSpec => []ReservationsProtected
<1>1. PoolInv => ReservationsProtected
    BY DEF PoolInv, Guarded, ReservationsProtected
<1> QED
    BY <1>1, PoolInvariant, PTL

-----------------------------------------------------------------------------
(* Pools implement the ledger.  The instance has copies of the operators of *)
(* Resources: each is the same operator.                                    *)

LEMMA SameResource == Resource = Ledger!Resource
BY DEF Resource, Ledger!Resource

LEMMA SameFits == ASSUME NEW r, NEW f PROVE Fits(r, f) = Ledger!Fits(r, f)
BY DEF Fits, Ledger!Fits

LEMMA SameRemaining ==
    ASSUME NEW c, NEW u PROVE Remaining(c, u) = Ledger!Remaining(c, u)
BY DEF Remaining, Used, FoldSeq, FoldFunction, FoldFunctionOnSet, MapThenFoldSet,
       Ledger!Remaining, Ledger!Used, Ledger!FoldSeq, Ledger!FoldFunction,
       Ledger!FoldFunctionOnSet, Ledger!MapThenFoldSet

LEMMA SameHolds == ASSUME NEW u, NEW o PROVE Holds(u, o) = Ledger!Holds(u, o)
BY DEF Holds, Positions, Ledger!Holds, Ledger!Positions

LEMMA SameWithout == ASSUME NEW u, NEW o PROVE Without(u, o) = Ledger!Without(u, o)
BY DEF Without, RemoveAt, FirstOf, Positions,
       Ledger!Without, Ledger!RemoveAt, Ledger!FirstOf, Ledger!Positions

\* The account that a pool object stands for, and the refinement mapping.
AccountOf(object) ==
    [open |-> object.exists, deleting |-> object.deleting,
     capacity |-> object.capacity, free |-> object.free, usage |-> object.usage]

Mapped == [p \in Pools |-> AccountOf(pool[p])]

LEMMA AbsentIsClosed == AccountOf(AbsentPool) = Ledger!Closed
BY DEF AccountOf, AbsentPool, Nothing, Ledger!Closed, Ledger!Nothing

\* A write of the server sets the account.
LEMMA WriteSets ==
    ASSUME PoolTypeOK, NEW p \in Pools, NEW object, WritePool(p, object)
    PROVE  Mapped' = [Mapped EXCEPT ![p] = AccountOf(object)]
BY DEF WritePool, PoolTypeOK, Mapped

\* Changing one field of a pool object changes that field of the account.
LEMMA AccountFields ==
    ASSUME NEW object \in PoolObject, NEW v
    PROVE  /\ AccountOf([object EXCEPT !.usage = v]) = [AccountOf(object) EXCEPT !.usage = v]
           /\ AccountOf([object EXCEPT !.free = v]) = [AccountOf(object) EXCEPT !.free = v]
           /\ AccountOf([object EXCEPT !.capacity = v]) =
                  [AccountOf(object) EXCEPT !.capacity = v]
           /\ AccountOf([object EXCEPT !.deleting = v]) =
                  [AccountOf(object) EXCEPT !.deleting = v]
           /\ AccountOf([object EXCEPT !.finalizer = v]) = AccountOf(object)
<1> DEFINE account(d, c, f, u) == [open |-> object.exists, deleting |-> d,
                                   capacity |-> c, free |-> f, usage |-> u]
<1>1. /\ [AccountOf(object) EXCEPT !.usage = v] =
             account(object.deleting, object.capacity, object.free, v)
      /\ [AccountOf(object) EXCEPT !.free = v] =
             account(object.deleting, object.capacity, v, object.usage)
      /\ [AccountOf(object) EXCEPT !.capacity = v] =
             account(object.deleting, v, object.free, object.usage)
      /\ [AccountOf(object) EXCEPT !.deleting = v] =
             account(v, object.capacity, object.free, object.usage)
    BY DEF AccountOf
<1>2. AccountOf([object EXCEPT !.usage = v]) =
          account(object.deleting, object.capacity, object.free, v)
    BY DEF AccountOf, PoolObject
<1>3. AccountOf([object EXCEPT !.free = v]) =
          account(object.deleting, object.capacity, v, object.usage)
    BY DEF AccountOf, PoolObject
<1>4. AccountOf([object EXCEPT !.capacity = v]) =
          account(object.deleting, v, object.free, object.usage)
    BY DEF AccountOf, PoolObject
<1>5. AccountOf([object EXCEPT !.deleting = v]) =
          account(v, object.capacity, object.free, object.usage)
    BY DEF AccountOf, PoolObject
<1>6. AccountOf([object EXCEPT !.finalizer = v]) = AccountOf(object)
    BY DEF AccountOf, PoolObject
<1> QED
    BY <1>1, <1>2, <1>3, <1>4, <1>5, <1>6

\* Creating a pool opens a new account.
LEMMA NewAccount ==
    ASSUME NEW c
    PROVE  AccountOf([AbsentPool EXCEPT !.exists = TRUE, !.capacity = c]) = Ledger!New(c)
BY AbsentPoolType DEF AccountOf, AbsentPool, Ledger!New

LEMMA PoolUserMaps ==
    ASSUME PoolInv, PoolUser PROVE Ledger!Next
<1> USE DEF PoolInv
<1>1. ASSUME NEW p \in Pools, NEW capacity \in Capacities, CreatePool(p, capacity)
      PROVE  Ledger!Open(p, capacity)
    <2> DEFINE object == [AbsentPool EXCEPT !.exists = TRUE, !.capacity = capacity]
               account == Ledger!New(capacity)
    <2>1. ~pool[p].exists /\ WritePool(p, object)
        BY <1>1 DEF CreatePool
    <2>2. AccountOf(object) = account
        BY NewAccount
    <2> HIDE DEF object, account
    <2>3. Mapped' = [Mapped EXCEPT ![p] = account]
        BY <2>1, <2>2, WriteSets
    <2> QED
        BY <2>1, <2>3 DEF Ledger!Open, Ledger!Set, Mapped, AccountOf, account
<1>2. ASSUME NEW p \in Pools, NEW capacity \in Capacities, ResizePool(p, capacity)
      PROVE  Ledger!Resize(p, capacity)
    <2> DEFINE object == [pool[p] EXCEPT !.capacity = capacity]
               account == [AccountOf(pool[p]) EXCEPT !.capacity = capacity]
    <2>1. pool[p].exists /\ WritePool(p, object)
        BY <1>2 DEF ResizePool
    <2>2. AccountOf(object) = account
        BY AccountFields DEF PoolTypeOK
    <2> HIDE DEF object, account
    <2>3. Mapped' = [Mapped EXCEPT ![p] = account]
        BY <2>1, <2>2, WriteSets
    <2> QED
        BY <2>1, <2>3 DEF Ledger!Resize, Ledger!Set, Mapped, AccountOf, account
<1>3. ASSUME NEW p \in Pools, DeletePool(p), pool[p].finalizer
      PROVE  Ledger!AskToClose(p)
    <2> DEFINE object == [pool[p] EXCEPT !.deleting = TRUE]
               account == [AccountOf(pool[p]) EXCEPT !.deleting = TRUE]
    <2>1. pool[p].exists /\ WritePool(p, object)
        BY <1>3 DEF DeletePool
    <2>2. AccountOf(object) = account
        BY AccountFields DEF PoolTypeOK
    <2> HIDE DEF object, account
    <2>3. Mapped' = [Mapped EXCEPT ![p] = account]
        BY <2>1, <2>2, WriteSets
    <2> QED
        BY <2>1, <2>3 DEF Ledger!AskToClose, Ledger!Set, Mapped, AccountOf, account
<1>4. ASSUME NEW p \in Pools, DeletePool(p), ~pool[p].finalizer
      PROVE  Ledger!Close(p)
    <2>1. Mapped' = [Mapped EXCEPT ![p] = Ledger!Closed]
        BY <1>4, WriteSets, AbsentIsClosed DEF DeletePool
    <2>2. pool[p].usage = <<>>
        BY <1>4 DEF Guarded
    <2> QED
        BY <1>4, <2>1, <2>2 DEF DeletePool, Ledger!Close, Ledger!Set, Mapped, AccountOf
<1> QED
    BY <1>1, <1>2, <1>3, <1>4 DEF PoolUser, Ledger!Next

LEMMA PoolControllerMaps ==
    ASSUME PoolInv, PoolController
    PROVE  Ledger!Next \/ UNCHANGED Mapped
<1> USE DEF PoolInv
<1>1. ASSUME NEW p \in Pools, DropPoolFinalizer(p) PROVE Ledger!Close(p)
    <2>1. poolCache[p] = pool[p]
        BY <1>1 DEF DropPoolFinalizer, UpdatePool, PoolTypeOK
    <2>2. Mapped' = [Mapped EXCEPT ![p] = Ledger!Closed]
        BY <1>1, WriteSets, AbsentIsClosed DEF DropPoolFinalizer, UpdatePool
    <2> QED
        BY <1>1, <2>1, <2>2 DEF DropPoolFinalizer, Ledger!Close, Ledger!Set, Mapped, AccountOf
<1>2. ASSUME NEW p \in Pools, AddPoolFinalizer(p) PROVE UNCHANGED Mapped
    <2>1. /\ poolCache[p] = pool[p]
          /\ pool' = [pool EXCEPT ![p] = [pool[p] EXCEPT !.finalizer = TRUE]]
        BY <1>2 DEF AddPoolFinalizer, UpdatePool, WritePool, PoolTypeOK
    <2>2. AccountOf([pool[p] EXCEPT !.finalizer = TRUE]) = AccountOf(pool[p])
        BY AccountFields DEF PoolTypeOK
    <2>3. \A q \in Pools : AccountOf(pool'[q]) = AccountOf(pool[q])
        BY <2>1, <2>2 DEF PoolTypeOK
    <2> QED
        BY <2>3 DEF Mapped
<1>3. ASSUME NEW p \in Pools, PublishFree(p, pool[p]) PROVE Ledger!Recompute(p)
    <2> DEFINE left == Remaining(pool[p].capacity, pool[p].usage)
               object == [pool[p] EXCEPT !.free = left]
               account == [AccountOf(pool[p]) EXCEPT !.free = left]
    <2>1. /\ pool[p].exists /\ ~pool[p].deleting /\ left \in Ledger!Resource
          /\ WritePool(p, object)
        BY <1>3, SameResource DEF PublishFree
    <2>2. left = Ledger!Remaining(pool[p].capacity, pool[p].usage)
        BY SameRemaining
    <2> HIDE DEF left
    <2>3. AccountOf(object) = account
        BY AccountFields DEF PoolTypeOK
    <2> HIDE DEF object, account
    <2>4. Mapped' = [Mapped EXCEPT ![p] = account]
        BY <2>1, <2>3, WriteSets
    <2> QED
        BY <2>1, <2>2, <2>4 DEF Ledger!Recompute, Ledger!Set, Mapped, AccountOf, account
<1>4. ASSUME AbandonPool PROVE UNCHANGED Mapped
    BY <1>4 DEF AbandonPool, Mapped
<1>5. ASSUME NEW p \in Pools, PublishFromCache(p) \/ PublishAfterFinalizer(p)
      PROVE  PublishFree(p, pool[p])
    BY <1>5 DEF PublishFromCache, PublishAfterFinalizer, PoolTypeOK
<1> QED
    BY <1>1, <1>2, <1>3, <1>4, <1>5 DEF PoolController, Ledger!Next

LEMMA PoolClientMaps ==
    ASSUME PoolInv, PoolClient PROVE Ledger!Next
<1> USE DEF PoolInv
<1>1. ASSUME NEW p \in Pools, NEW owner \in Owners, NEW amount \in Requests,
             BegGranted(p, owner, amount)
      PROVE  Ledger!Grant(p, owner, amount)
    <2> DEFINE usage == Append(pool[p].usage, [owner |-> owner, amount |-> amount])
               object == [pool[p] EXCEPT !.usage = usage]
               account == [AccountOf(pool[p]) EXCEPT !.usage = usage]
    <2>1. poolCache[p] = pool[p] /\ WritePool(p, object)
        BY <1>1 DEF BegGranted, UpdatePool, PoolTypeOK
    <2>2. pool[p].exists /\ pool[p].free # NoAmount /\ Ledger!Fits(amount, pool[p].free)
        BY <1>1, <2>1, SameFits DEF BegGranted
    <2> HIDE DEF usage
    <2>3. AccountOf(object) = account
        BY AccountFields DEF PoolTypeOK
    <2> HIDE DEF object, account
    <2>4. Mapped' = [Mapped EXCEPT ![p] = account]
        BY <2>1, <2>3, WriteSets
    <2> QED
        BY <2>2, <2>4 DEF Ledger!Grant, Ledger!Set, Mapped, AccountOf, account, usage
<1>2. ASSUME NEW p \in Pools, NEW owner \in Owners, Released(p, owner)
      PROVE  Ledger!Return(p, owner)
    <2> DEFINE usage == Without(pool[p].usage, owner)
               object == [pool[p] EXCEPT !.usage = usage]
               account == [AccountOf(pool[p]) EXCEPT !.usage = usage]
    <2>1. poolCache[p] = pool[p] /\ WritePool(p, object)
        BY <1>2 DEF Released, UpdatePool, PoolTypeOK
    <2>2. Ledger!Holds(pool[p].usage, owner)
        BY <1>2, <2>1, SameHolds DEF Released
    <2>3. usage = Ledger!Without(pool[p].usage, owner)
        BY SameWithout
    <2> HIDE DEF usage
    <2>4. AccountOf(object) = account
        BY AccountFields DEF PoolTypeOK
    <2> HIDE DEF object, account
    <2>5. Mapped' = [Mapped EXCEPT ![p] = account]
        BY <2>1, <2>4, WriteSets
    <2> QED
        BY <2>2, <2>3, <2>5 DEF Ledger!Return, Ledger!Set, Mapped, AccountOf, account
<1> QED
    BY <1>1, <1>2 DEF PoolClient, Ledger!Next

\* Pools implement the ledger: no reservation is lost, doubled or taken by a
\* stale copy, a pool disappears with no reservation left, and every grant
\* fits the Free that is in the server when it is written.
THEOREM PoolsImplementLedger == PoolSpec => ImplementsLedger
<1>1. PoolInit => Ledger!Init
    BY AbsentIsClosed DEF PoolInit, Ledger!Init, AccountOf
<1>2. PoolInv /\ [PoolNext]_poolVars => [Ledger!Next]_Mapped
    <2>1. PoolInv /\ PoolNext => Ledger!Next \/ UNCHANGED Mapped
        BY PoolControllerMaps, PoolClientMaps, PoolUserMaps
        DEF PoolNext, SyncPool, RestartPools, Mapped
    <2>2. UNCHANGED poolVars => UNCHANGED Mapped
        BY DEF poolVars, Mapped
    <2> QED
        BY <2>1, <2>2
<1>3. Mapped = [p \in Pools |->
                   [open |-> pool[p].exists, deleting |-> pool[p].deleting,
                    capacity |-> pool[p].capacity, free |-> pool[p].free,
                    usage |-> pool[p].usage]]
    BY DEF Mapped, AccountOf
<1> QED
    BY <1>1, <1>2, <1>3, PoolInvariant, PTL
       DEF PoolSpec, ImplementsLedger, Ledger!Spec, Mapped, AccountOf
=============================================================================
