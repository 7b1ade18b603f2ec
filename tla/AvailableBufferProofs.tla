----------------------- MODULE AvailableBufferProofs ------------------------
(***************************************************************************)
(* What the stamps of AvailableBuffer tell apart, that set_batch stamps    *)
(* each sequence of a claim as set would, in one span or not, and that     *)
(* highest_published_sequence finds the first gap and nothing else.        *)
(***************************************************************************)
EXTENDS AvailableBuffer, RingBufferProofs

\* A sequence is put together from its generation and its slot.
LEMMA Division ==
  ASSUME NEW s \in Nat
  PROVE  /\ s = BufferSize * Generation(s) + Index(s)
         /\ Generation(s) \in Nat
         /\ Index(s) \in 0..(BufferSize - 1)
BY PositiveBufferSize DEF Generation, Index

\* The earlier generation belongs to the earlier sequence.
LEMMA EarlierGeneration ==
  ASSUME NEW i \in Nat, NEW j \in Nat, Generation(i) < Generation(j)
  PROVE  i < j
<1>. DEFINE B == BufferSize
           gi == Generation(i)
           gj == Generation(j)
<1>1. /\ i = B * gi + Index(i) /\ j = B * gj + Index(j)
      /\ gi \in Nat /\ gj \in Nat /\ B \in Nat /\ B > 0
      /\ Index(i) \in 0..(B - 1) /\ Index(j) \in 0..(B - 1)
  BY Division, PositiveBufferSize
<1>2. B * gj >= B * gi + B
  <2>1. B * gj = B * gi + B * (gj - gi)
    BY <1>1
  <2>2. gj - gi >= 1 /\ gj - gi \in Int
    BY <1>1
  <2>3. B * (gj - gi) >= B
    <3>. HIDE DEF B, gi, gj
    <3>. QED  BY <1>1, <2>2
  <2>. QED  BY <1>1, <2>1, <2>3
<1>. HIDE DEF B, gi, gj
<1>. QED  BY <1>1, <1>2

\* Of two sequences in one slot the later has the later generation, so a
\* stamp names one sequence of its slot.
LEMMA LaterGeneration ==
  ASSUME NEW i \in Nat, NEW j \in Nat, i < j, Index(i) = Index(j)
  PROVE  Generation(i) < Generation(j)
<1>1. Generation(i) \in Nat /\ Generation(j) \in Nat
  BY Division
<1>2. Generation(i) # Generation(j)
  <2>. SUFFICES ASSUME Generation(i) = Generation(j)  PROVE FALSE
    OBVIOUS
  <2>1. i = BufferSize * Generation(i) + Index(i)
    BY Division
  <2>2. j = BufferSize * Generation(j) + Index(j)
    BY Division
  <2>. QED  BY <2>1, <2>2
<1>3. ~(Generation(j) < Generation(i))
  BY EarlierGeneration
<1>. QED  BY <1>1, <1>2, <1>3

\* set_batch (utils.rs): the span it writes for a large batch that does not
\* wrap has the slots and the generations of the sequences in it, for every
\* batch that fits the ring.
LEMMA BatchIsExact ==
  ASSUME NEW lo \in Nat, NEW hi \in Nat, NEW s \in lo..hi,
         hi - lo < BufferSize
  PROVE  /\ BatchSlot(lo, hi, s) = Index(s)
         /\ BatchStamp(lo, hi, s) = Generation(s)
<1>. CASE ~IsSpan(lo, hi)
  BY DEF BatchSlot, BatchStamp
<1>. CASE IsSpan(lo, hi)
  <2>. DEFINE B == BufferSize
             g == Generation(lo)
             i == Index(lo)
  <2>1. /\ B \in Nat /\ B > 0 /\ g \in Nat /\ i \in 0..(B - 1)
        /\ lo = B * g + i
        /\ s \in Nat /\ lo <= s /\ s <= hi /\ hi < lo + B
    BY Division, PositiveBufferSize
  <2>2. Generation(hi) = g
    <3>. DEFINE k == Generation(hi) - g
    <3>1. hi = B * Generation(hi) + Index(hi) /\ Generation(hi) \in Nat
      BY Division
    <3>2. Index(hi) \in Int /\ i <= Index(hi)
      BY Division DEF IsSpan
    <3>3. k \in Int /\ k >= 0
      <4>1. ~(Generation(hi) < g)
        BY <2>1, EarlierGeneration
      <4>. QED  BY <2>1, <3>1, <4>1
    <3>4. hi - lo = B * k + (Index(hi) - i)
      <4>1. B * Generation(hi) = B * g + B * k
        BY <2>1, <3>1
      <4>2. B * g \in Int /\ B * k \in Int
        BY <2>1, <3>3
      <4>. HIDE DEF B, g, i, k
      <4>. QED  BY <2>1, <3>1, <3>2, <4>1, <4>2
    <3>5. k < 1
      <4>1. k >= 1 => B * k >= B /\ B * k \in Int
        <5>. HIDE DEF B, k
        <5>. QED  BY <2>1, <3>3
      <4>. HIDE DEF B, g, i, k
      <4>. QED  BY <2>1, <3>2, <3>3, <3>4, <4>1
    <3>6. k = 0
      BY <3>3, <3>5
    <3>. QED  BY <2>1, <3>1, <3>6
  <2>3. Generation(s) = g
    <3>1. ~(Generation(s) < g) /\ ~(Generation(hi) < Generation(s))
      BY <2>1, EarlierGeneration
    <3>2. Generation(s) \in Nat
      BY <2>1, Division
    <3>. HIDE DEF g
    <3>. QED  BY <2>1, <2>2, <3>1, <3>2
  <2>4. s = B * g + Index(s) /\ Index(s) \in 0..(B - 1)
    BY <2>1, <2>3, Division
  <2>5. Index(s) = i + (s - lo)
    <3>. HIDE DEF B, g, i
    <3>. QED  BY <2>1, <2>4
  <2>6. Generation(s - lo) = 0
    <3>1. s - lo \in 0..(B - 1)
      BY <2>1
    <3>. QED  BY <2>1, <3>1 DEF Generation
  <2>. QED  BY <2>1, <2>3, <2>5, <2>6 DEF BatchSlot, BatchStamp
<1>. QED  OBVIOUS

\* highest_published_sequence (utils.rs) stops right before the first gap:
\* from the first sequence it was asked about up to its result every stamp is
\* the one of its sequence, and the sequence after it is not published unless
\* it is past the last one asked about.  Processors extend a batch with it and
\* drain() takes its target from it.
THEOREM HighestPublishedIsExact ==
  ASSUME NEW stamps, NEW from \in Nat, NEW to \in Int
  PROVE  LET r == HighestPublished(stamps, from, to)
         IN  /\ r \in Int /\ from - 1 <= r
             /\ r <= to \/ r = from - 1
             /\ \A s \in from..r : IsAvailable(stamps, s)
             /\ r < to => ~IsAvailable(stamps, r + 1)
<1>. DEFINE missing == {s \in from..to : ~IsAvailable(stamps, s)}
<1>0. PICK r : r = HighestPublished(stamps, from, to)
  OBVIOUS
<1>. SUFFICES /\ r \in Int /\ from - 1 <= r
              /\ r <= to \/ r = from - 1
              /\ \A s \in from..r : IsAvailable(stamps, s)
              /\ r < to => ~IsAvailable(stamps, r + 1)
  BY <1>0
<1>1. CASE from > to
  <2>1. r = from - 1
    BY <1>0, <1>1 DEF HighestPublished
  <2>. QED  BY <1>1, <2>1
<1>2. CASE ~(from > to) /\ missing = {}
  <2>1. r = to
    BY <1>0, <1>2 DEF HighestPublished
  <2>. QED  BY <1>2, <2>1
<1>3. CASE ~(from > to) /\ missing # {}
  <2>1. r = Min(missing) - 1
    BY <1>0, <1>3 DEF HighestPublished
  <2>2. missing \in SUBSET Nat
    OBVIOUS
  <2>3. Min(missing) \in missing /\ \A k \in missing : Min(missing) <= k
    <3>. HIDE DEF missing
    <3>. QED  BY <1>3, <2>2, SmallestElement
  <2>4. PICK m \in Int : m = Min(missing)
    BY <2>2, <2>3
  <2>5. /\ m \in from..to /\ ~IsAvailable(stamps, m)
        /\ \A k \in missing : m <= k
    BY <2>3, <2>4
  <2>6. r = m - 1 /\ r + 1 = m
    BY <2>1, <2>4
  <2>7. ASSUME NEW s \in from..r  PROVE IsAvailable(stamps, s)
    <3>1. s \in from..to /\ ~(m <= s)
      BY <2>5, <2>6
    <3>. QED  BY <2>5, <3>1
  <2>. QED  BY <2>5, <2>6, <2>7
<1>. QED  BY <1>1, <1>2, <1>3
=============================================================================
