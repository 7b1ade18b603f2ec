-------------------------- MODULE RingBufferProofs --------------------------
(***************************************************************************)
(* Which sequences share a slot, and that of several one is the first.     *)
(***************************************************************************)
EXTENDS RingBuffer, FiniteSetsExt, WellFoundedInduction, TLAPS

\* A ring has at least one slot.
LEMMA PositiveBufferSize == BufferSize \in Nat /\ BufferSize > 0
<1>1. BufferSize \in Nat /\ BufferSize # 0
  BY BufferSizeAssumption DEF IsPowerOfTwo
<1>. QED  BY <1>1

\* Two sequences less than a ring's length apart live in different slots.
LEMMA DistinctSlots ==
  ASSUME NEW i \in Nat, NEW j \in Nat, i < j, j < i + BufferSize
  PROVE  Index(i) # Index(j)
<1>. DEFINE B == BufferSize
           k == (j \div B) - (i \div B)
<1>0. B \in Nat /\ B > 0
  BY PositiveBufferSize
<1>1. /\ i = B * (i \div B) + (i % B)
      /\ j = B * (j \div B) + (j % B)
      /\ i \div B \in Int /\ j \div B \in Int /\ k \in Int
      /\ i % B \in Int /\ j % B \in Int
  BY <1>0
<1>2. SUFFICES ASSUME i % B = j % B  PROVE FALSE
  BY DEF Index
<1>3. j - i = B * (j \div B) - B * (i \div B)
  <2>. HIDE DEF B
  <2>. QED  BY <1>0, <1>1, <1>2
<1>4. B * (j \div B) - B * (i \div B) = B * k
  BY <1>0, <1>1
<1>5. j - i = B * k /\ 0 < j - i /\ j - i < B
  BY <1>0, <1>3, <1>4
<1>6. CASE k <= 0
  <2>1. B * k <= 0
    BY <1>0, <1>1, <1>6
  <2>. QED  BY <1>0, <1>1, <1>5, <2>1
<1>7. CASE k >= 1
  <2>1. B * k >= B
    BY <1>0, <1>1, <1>7
  <2>. QED  BY <1>0, <1>1, <1>5, <2>1
<1>. QED  BY <1>1, <1>6, <1>7

\* The mask maps every sequence to a slot.
LEMMA IndexIsSlot == \A i \in Nat : Index(i) \in Slots
BY PositiveBufferSize DEF Index, Slots

\* A non-empty set of naturals has a smallest element.
LEMMA SmallestElement ==
  ASSUME NEW S \in SUBSET Nat, S # {}
  PROVE  /\ Min(S) \in S
         /\ \A k \in S : Min(S) <= k
<1>. DEFINE R == OpToRel(<, Nat)
<1>1. IsWellFoundedOn(R, Nat)
  BY NatLessThanWellFounded
<1>2. PICK m \in S : \A k \in S : ~(<<k, m>> \in R)
  <2>. HIDE DEF R
  <2>. QED  BY <1>1, WFMin
<1>3. ASSUME NEW k \in S  PROVE m <= k
  <2>1. ~(k < m)
    BY <1>2 DEF OpToRel
  <2>. QED  BY <2>1
<1>. QED  BY <1>3 DEF Min
=============================================================================
