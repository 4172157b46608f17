-------------------------- MODULE ResourcesProofs --------------------------
(***************************************************************************)
(* Facts about the operators of Resources, used by the proofs about pools. *)
(***************************************************************************)
EXTENDS Resources, SequenceTheorems, WellFoundedInduction, TLAPS

\* A set of naturals that is not empty has a least element.
LEMMA LeastNatural ==
    ASSUME NEW T \in SUBSET Nat, T # {}
    PROVE  \E i \in T : \A j \in T : i <= j
<1>1. OpToRel(<, Nat) = {ss \in Nat \X Nat : ss[1] < ss[2]}
    BY Zenon DEF OpToRel
<1>2. IsWellFoundedOn({ss \in Nat \X Nat : ss[1] < ss[2]}, Nat)
    BY <1>1, NatLessThanWellFounded, Zenon
<1>3. \E i \in T : \A j \in T : <<j, i>> \notin {ss \in Nat \X Nat : ss[1] < ss[2]}
    BY <1>2, WFMin
<1>4. PICK i \in T : \A j \in T : <<j, i>> \notin {ss \in Nat \X Nat : ss[1] < ss[2]}
    BY <1>3
<1>5. ASSUME NEW j \in T PROVE i <= j
    <2>1. ~(<<j, i>>[1] < <<j, i>>[2])
        BY <1>4 
    <2> QED
        BY <2>1
<1> QED
    BY <1>5

\* FirstOf, the loop of ReleaseResource that breaks on the first entry of the
\* owner: an entry of that owner, with none of that owner before it.
LEMMA FirstOfIsFirst ==
    ASSUME NEW usage \in Seq(Reservation), NEW owner, Holds(usage, owner)
    PROVE  /\ FirstOf(usage, owner) \in 1 .. Len(usage)
           /\ usage[FirstOf(usage, owner)].owner = owner
           /\ \A j \in 1 .. Len(usage) :
                  usage[j].owner = owner => FirstOf(usage, owner) <= j
<1>1. Positions(usage, owner) \in SUBSET Nat /\ Positions(usage, owner) # {}
    BY DEF Positions, Holds
<1>2. \E i \in Positions(usage, owner) : \A j \in Positions(usage, owner) : i <= j
    BY <1>1, LeastNatural
<1>3. /\ FirstOf(usage, owner) \in Positions(usage, owner)
      /\ \A j \in Positions(usage, owner) : FirstOf(usage, owner) <= j
    BY <1>2 DEF FirstOf
<1> QED
    BY <1>3 DEF Positions

\* Without, the slice expression of ReleaseResource: one entry fewer, every
\* other entry kept in its order.
LEMMA WithoutRemovesOne ==
    ASSUME NEW usage \in Seq(Reservation), NEW owner, Holds(usage, owner)
    PROVE  /\ Without(usage, owner) \in Seq(Reservation)
           /\ Len(Without(usage, owner)) = Len(usage) - 1
           /\ \A i \in 1 .. Len(usage) - 1 :
                  Without(usage, owner)[i] =
                      IF i < FirstOf(usage, owner) THEN usage[i] ELSE usage[i + 1]
<1> DEFINE f == FirstOf(usage, owner)
           before == SubSeq(usage, 1, f - 1)
           after == SubSeq(usage, f + 1, Len(usage))
<1>1. f \in 1 .. Len(usage) /\ Len(usage) \in Nat
    BY FirstOfIsFirst, LenProperties
<1>2. \A i \in 1 .. Len(usage) : usage[i] \in Reservation
    BY ElementOfSeq
<1> HIDE DEF f
<1>3. /\ before \in Seq(Reservation)
      /\ Len(before) = f - 1
      /\ \A i \in 1 .. f - 1 : before[i] = usage[i]
    <2>1. \A i \in 1 .. f - 1 : usage[i] \in Reservation
        BY <1>1, <1>2
    <2> QED
        BY <2>1, <1>1, SubSeqProperties
<1>4. /\ after \in Seq(Reservation)
      /\ Len(after) = Len(usage) - f
      /\ \A i \in 1 .. Len(usage) - f : after[i] = usage[f + i]
    <2>1. \A i \in f + 1 .. Len(usage) : usage[i] \in Reservation
        BY <1>1, <1>2
    <2>2. /\ SubSeq(usage, f + 1, Len(usage)) \in Seq(Reservation)
          /\ Len(SubSeq(usage, f + 1, Len(usage))) =
                 IF f + 1 <= Len(usage) THEN Len(usage) - (f + 1) + 1 ELSE 0
          /\ \A i \in 1 .. Len(usage) - (f + 1) + 1 :
                 SubSeq(usage, f + 1, Len(usage))[i] = usage[f + 1 + i - 1]
        BY <2>1, <1>1, SubSeqProperties
    <2> QED
        BY <2>2, <1>1
<1> HIDE DEF before, after
<1>5. Without(usage, owner) = before \o after
    BY DEF Without, RemoveAt, f, before, after
<1>6. /\ before \o after \in Seq(Reservation)
      /\ Len(before \o after) = Len(before) + Len(after)
      /\ \A i \in 1 .. Len(before) + Len(after) :
             (before \o after)[i] =
                 IF i <= Len(before) THEN before[i] ELSE after[i - Len(before)]
    BY <1>3, <1>4, ConcatProperties
<1>7. ASSUME NEW i \in 1 .. Len(usage) - 1
      PROVE  (before \o after)[i] = IF i < f THEN usage[i] ELSE usage[i + 1]
    BY <1>1, <1>3, <1>4, <1>6
<1> QED
    BY <1>1, <1>3, <1>4, <1>5, <1>6, <1>7 DEF f
=============================================================================
