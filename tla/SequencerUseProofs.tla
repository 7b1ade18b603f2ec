------------------------- MODULE SequencerUseProofs --------------------------
(***************************************************************************)
(* Theorems about a sequencer used by itself, of either kind, for any ring *)
(* size, number of threads and consumers, batch sizes and bounds, and      *)
(* whatever gating sequences its owner adds and removes.                   *)
(***************************************************************************)
EXTENDS SequencerUseProperties, AvailableBufferProofs, SharedSequencesProofs,
        FiniteSetTheorems

-----------------------------------------------------------------------------
(* The inductive invariant. *)

\* What is being claimed and what was granted lies within what is claimed;
\* the single-producer sequencer moves its mark when it returns.
RangeInv ==
  /\ \A p \in Producers : \A range \in Granted(p) :
       range[1] <= range[2] /\ range[2] <= claimed
  /\ \A p \in Producers : ppc[p] # "idle" => low[p] <= high[p]
  /\ \A p \in Producers :
       /\ ppc[p] \in {"cached", "scan"} =>
            IF kind = "multi" THEN high[p] <= claimed ELSE claimed < high[p]
       /\ ppc[p] = "publish" => low[p] <= at[p] /\ at[p] <= high[p]

\* No minimum is ahead of a gating sequence that came in good order: neither
\* the one that was kept nor those that are being taken.
MinimumInv ==
  /\ \A c \in joined : cached_value <= sequence[c]
  /\ \A p \in Producers : ppc[p] = "scan" =>
       \A c \in joined : c \in pscan[p].left \/ pscan[p].low <= sequence[c]

\* The single-producer sequencer has one owner, of which no counter is ahead.
OwnerInv ==
  kind = "single" =>
    /\ ~shared
    /\ \A s \in gating \cup {Cursor} : sequence[s] <= claimed
    /\ cached_value <= claimed
    /\ ppc[Owner] = "scan" =>
         /\ gating # {}
         /\ pscan[Owner].left \subseteq gating
         /\ pscan[Owner].left # {} \/ pscan[Owner].low <= claimed

Invariant ==
  /\ TypeOK
  /\ RangeInv /\ MinimumInv /\ OwnerInv
  /\ NoOverrun

-----------------------------------------------------------------------------
(* Types. *)

Values == Nat \cup {-1}

\* The programs have the fields that the steps read.
LEMMA ProgramType ==
  ASSUME NEW k \in {"single", "multi"}, NEW prog \in Programs(k)
  PROVE  /\ prog.share \in BOOLEAN /\ prog.claims \in Nat
         /\ prog.gate \in BOOLEAN /\ prog.read \in Nat
         /\ prog.blind \in BOOLEAN
         /\ k = "single" => ~prog.share
<1>. DEFINE Good(r) == /\ r.share \in BOOLEAN /\ r.claims \in Nat
                       /\ r.gate \in BOOLEAN /\ r.read \in Nat
                       /\ r.blind \in BOOLEAN
           events == GatedRun * Cardinality(Producers) - BufferSize
<1>1. /\ OwnClaims \in Nat /\ ShortRun \in Nat /\ LongRun \in Nat
      /\ GatedRun \in Nat /\ events \in Nat
  BY UseAssumption
<1>. HIDE DEF events
<1>2. Good(Owned) /\ Owned.share = FALSE
  BY <1>1 DEF Owned
<1>3. Good(ConcurrentPublish)
  BY <1>1 DEF ConcurrentPublish
<1>4. Good(BackoffBehavior)
  BY <1>1 DEF BackoffBehavior, ConcurrentPublish
<1>5. Good(BenchmarkSimulation)
  <2>1. BenchmarkSimulation =
          [share |-> TRUE, claims |-> GatedRun, gate |-> TRUE, blind |-> FALSE,
           read |-> events]
    BY DEF BenchmarkSimulation, events
  <2>. QED  BY <1>1, <2>1
<1>6. Good(SimpleThreading)
  BY <1>1 DEF SimpleThreading
<1>7. CASE k = "single"
  <2>1. prog = Owned
    BY <1>7 DEF Programs
  <2>. QED  BY <1>2, <2>1
<1>8. CASE k = "multi"
  <2>1. prog \in {Owned, ConcurrentPublish, BackoffBehavior,
                  BenchmarkSimulation, SimpleThreading}
    BY <1>8 DEF Programs
  <2>2. Good(prog)
    <3>. HIDE DEF Good
    <3>. QED  BY <1>2, <1>3, <1>4, <1>5, <1>6, <2>1
  <2>. QED  BY <1>8, <2>2
<1>. QED  BY <1>7, <1>8

LEMMA Numbers ==
  ASSUME TypeOK
  PROVE  /\ MaxSequence \in Nat /\ BufferSize \in Nat /\ BufferSize > 0
         /\ claimed \in -1..MaxSequence /\ cached_value \in -1..MaxSequence
         /\ \A s \in SequenceIds : sequence[s] \in Values /\ sequence[s] \in Int
         /\ \A c \in joined : c \in Consumers /\ c \in SequenceIds /\ c # Cursor
         /\ \A c \in gating : c \in Consumers /\ c \in SequenceIds /\ c # Cursor
         /\ \A p \in Producers :
              /\ low[p] \in 0..MaxSequence /\ high[p] \in -1..MaxSequence
              /\ at[p] \in 0..(MaxSequence + 1)
              /\ pscan[p] \in Scans /\ claims[p] \subseteq Ranges
BY PositiveBufferSize, MaxSequenceAssumption, WiringType DEF TypeOK, Values

LEMMA HighestPublishedType ==
  ASSUME NEW from \in Nat, NEW to \in Nat
  PROVE  HighestPublished(stamps, from, to) \in Values
BY HighestPublishedIsExact DEF Values

LEMMA ReadableType ==
  ASSUME TypeOK, NEW c \in Consumers
  PROVE  Readable(c) \in Values
<1>1. sequence[c] \in Values /\ sequence[Cursor] \in Values
  BY Numbers, WiringType
<1>2. sequence[c] + 1 \in Nat /\ sequence[c] + 1 + ScanLimit \in Nat
  BY <1>1, UseAssumption DEF Values
<1>. QED  BY <1>1, <1>2, HighestPublishedType DEF Readable

-----------------------------------------------------------------------------
(* The consumers' steps. *)

\* A counter that rises, in a single-producer sequencer not past the claims.
LEMMA RiseKeeps ==
  ASSUME Invariant, NEW c \in Consumers, NEW v \in Nat,
         sequence[c] <= v,
         kind = "single" => v <= claimed,
         sequence' = [sequence EXCEPT ![c] = v],
         unread' \in [Consumers -> Nat],
         UNCHANGED <<kind, program, shared, gating, claimed, cached_value,
                     stamps, ppc, low, high, at, pscan, claims, todo, joined>>
  PROVE  Invariant'
<1>1. TypeOK /\ c \in SequenceIds /\ c # Cursor
  BY WiringType DEF Invariant
<1>2. TypeOK'
  BY <1>1 DEF TypeOK
<1>3. \A s \in SequenceIds :
        /\ sequence[s] \in Int /\ sequence'[s] \in Int
        /\ sequence[s] <= sequence'[s]
        /\ sequence'[s] = IF s = c THEN v ELSE sequence[s]
  BY <1>1, Numbers DEF TypeOK
<1>4. RangeInv'
  BY DEF Invariant, RangeInv, Granted
<1>5. MinimumInv'
  <2>1. \A d \in joined : d \in SequenceIds
    BY <1>1, Numbers
  <2>2. /\ cached_value \in Int
        /\ \A p \in Producers : pscan[p].low \in Int
    BY <1>1, Numbers DEF Scans
  <2>. QED  BY <1>3, <2>1, <2>2 DEF Invariant, MinimumInv
<1>6. OwnerInv'
  <2>1. \A s \in gating \cup {Cursor} : s \in SequenceIds
    BY <1>1, Numbers, WiringType
  <2>. QED  BY <1>3, <2>1 DEF Invariant, OwnerInv
<1>7. NoOverrun'
  <2>1. ASSUME NEW p \in Producers, NEW range \in Granted(p), NEW d \in joined
        PROVE  range[2] <= sequence'[d] + BufferSize
    <3>1. /\ range[2] <= sequence[d] + BufferSize
          /\ d \in SequenceIds /\ BufferSize \in Int
      BY <1>1, Numbers DEF Invariant, NoOverrun
    <3>2. range[2] \in Int
      BY <1>1, Numbers DEF Granted, Ranges
    <3>. QED  BY <1>3, <3>1, <3>2
  <2>. QED  BY <2>1 DEF NoOverrun, Granted
<1>. QED  BY <1>2, <1>4, <1>5, <1>6, <1>7 DEF Invariant

LEMMA ReaderKeeps ==
  ASSUME Invariant, NEW c \in Consumers, Reader(c)
  PROVE  Invariant'
<1>. USE DEF sequencerVars, rangeVars, SetSequence
<1>1. /\ TypeOK /\ sequence[c] \in Int /\ sequence[c] >= -1
      /\ Readable(c) \in Int
      /\ unread \in [Consumers -> Nat]
  BY Numbers, ReadableType, WiringType DEF Invariant, TypeOK, Values
<1>2. kind = "single" => ~shared /\ Readable(c) <= claimed
  BY DEF Invariant, OwnerInv, Readable
<1>3. CASE Consume(c)
  <2>1. PICK v \in sequence[c] + 1..Readable(c) :
          sequence' = [sequence EXCEPT ![c] = v]
    BY <1>3 DEF Consume
  <2>2. v \in Nat /\ sequence[c] <= v /\ v <= Readable(c)
    BY <1>1
  <2>3. kind = "single" => v <= claimed
    BY <1>1, <1>2, <2>2, Numbers
  <2>4. /\ unread' \in [Consumers -> Nat]
        /\ UNCHANGED <<kind, program, shared, gating, claimed, cached_value,
                       stamps, ppc, low, high, at, pscan, claims, todo, joined>>
    BY <1>1, <1>3 DEF Consume
  <2>. QED  BY <2>1, <2>2, <2>3, <2>4, RiseKeeps
<1>4. CASE ReadBatch(c)
  <2>. DEFINE r == Readable(c)
  <2>1. /\ sequence' = [sequence EXCEPT ![c] = r] /\ r > sequence[c] /\ shared
        /\ unread' = [unread EXCEPT ![c] =
             IF r - sequence[c] < unread[c] THEN unread[c] - (r - sequence[c])
             ELSE 0]
        /\ UNCHANGED <<kind, program, shared, gating, claimed, cached_value,
                       stamps, ppc, low, high, at, pscan, claims, todo, joined>>
    BY <1>4 DEF ReadBatch
  <2>2. r \in Int
    BY <1>1
  <2>. HIDE DEF r
  <2>3. r \in Nat /\ sequence[c] <= r
    BY <1>1, <2>1, <2>2
  <2>4. unread' \in [Consumers -> Nat]
    <3>1. unread[c] \in Nat
      BY <1>1
    <3>2. (IF r - sequence[c] < unread[c] THEN unread[c] - (r - sequence[c])
           ELSE 0) \in Nat
      BY <1>1, <2>2, <3>1
    <3>. QED  BY <1>1, <2>1, <3>2
  <2>. QED  BY <1>2, <2>1, <2>3, <2>4, RiseKeeps
<1>5. CASE CountOn(c)
  <2>1. /\ shared /\ unread[c] > 0
        /\ sequence' = [sequence EXCEPT ![c] = sequence[c] + 1]
        /\ unread' = [unread EXCEPT ![c] = @ - 1]
        /\ UNCHANGED <<kind, program, shared, gating, claimed, cached_value,
                       stamps, ppc, low, high, at, pscan, claims, todo, joined>>
    BY <1>5 DEF CountOn
  <2>2. sequence[c] + 1 \in Nat /\ sequence[c] <= sequence[c] + 1
    BY <1>1
  <2>3. unread' \in [Consumers -> Nat]
    BY <1>1, <2>1
  <2>. QED  BY <1>2, <2>1, <2>2, <2>3, RiseKeeps
<1>. QED  BY <1>3, <1>4, <1>5 DEF Reader

-----------------------------------------------------------------------------
(* The owner's gating sequences. *)

\* While the sequencer is owned and its owner in no call, nobody is in one.
LEMMA OwnedIsQuiet ==
  ASSUME Invariant, Owns
  PROVE  \A p \in Producers : ppc[p] = "idle"
BY DEF Invariant, TypeOK, Owns

LEMMA AddGatingSequenceKeeps ==
  ASSUME Invariant, NEW c \in Consumers, AddGatingSequence(c)
  PROVE  Invariant'
<1>1. PICK v \in {-1, claimed} :
        /\ sequence' = [sequence EXCEPT ![c] = v]
        /\ joined' = IF /\ \A range \in claims[Owner] : v < range[1]
                        /\ claimed <= v + BufferSize
                        /\ cached_value <= v
                       THEN joined \cup {c} ELSE joined
  BY DEF AddGatingSequence, SetSequence
<1>2. /\ Owns /\ c \notin gating /\ gating' = gating \cup {c}
      /\ UNCHANGED <<kind, program, shared, claimed, cached_value, stamps, ppc,
                     low, high, at, pscan, claims, todo, unread>>
  BY DEF AddGatingSequence, rangeVars
<1>3. /\ TypeOK /\ \A p \in Producers : ppc[p] = "idle"
      /\ c \in SequenceIds /\ c # Cursor
      /\ v \in Values /\ v \in Int /\ v <= claimed
  BY <1>2, OwnedIsQuiet, Numbers, WiringType DEF Invariant, Values
<1>4. /\ joined \subseteq gating
      /\ joined' \subseteq joined \cup {c}
      /\ c \in joined' => claimed <= v + BufferSize /\ cached_value <= v
  <2>1. joined \subseteq gating
    BY <1>3 DEF TypeOK
  <2>. QED  BY <1>1, <1>2, <2>1
<1>5. \A s \in SequenceIds : sequence'[s] = IF s = c THEN v ELSE sequence[s]
  BY <1>1, <1>3 DEF TypeOK
<1>6. TypeOK'
  <2>1. sequence' \in [SequenceIds -> Nat \cup {-1}]
    BY <1>1, <1>3 DEF TypeOK, Values
  <2>2. joined' \subseteq gating' /\ gating' \subseteq Consumers
    BY <1>2, <1>3, <1>4 DEF TypeOK
  <2>. QED  BY <1>2, <1>3, <2>1, <2>2 DEF TypeOK
<1>7. RangeInv'
  BY <1>2 DEF Invariant, RangeInv, Granted
<1>8. MinimumInv'
  BY <1>2, <1>3, <1>4, <1>5, Numbers DEF Invariant, MinimumInv
<1>9. OwnerInv'
  <2>1. Cursor \in SequenceIds /\ \A s \in gating : s \in SequenceIds
    BY <1>3, Numbers, WiringType
  <2>. QED
    BY <1>2, <1>3, <1>5, <2>1, UseAssumption DEF Invariant, OwnerInv
<1>10. NoOverrun'
  <2>1. ASSUME NEW p \in Producers, NEW range \in Granted(p), NEW d \in joined'
        PROVE  range[2] <= sequence'[d] + BufferSize
    <3>1. range[2] <= claimed /\ range[2] \in Int
      BY <1>3, Numbers DEF Invariant, RangeInv, Granted, Ranges
    <3>2. CASE d = c
      BY <1>3, <1>4, <1>5, <3>1, <3>2, Numbers
    <3>3. CASE d # c
      <4>1. d \in joined /\ d \in SequenceIds
        BY <1>3, <1>4, <3>3, Numbers
      <4>. QED  BY <1>5, <3>3, <4>1 DEF Invariant, NoOverrun
    <3>. QED  BY <3>2, <3>3
  <2>. QED  BY <1>2, <2>1 DEF NoOverrun, Granted
<1>. QED  BY <1>6, <1>7, <1>8, <1>9, <1>10 DEF Invariant

LEMMA RemoveGatingSequenceKeeps ==
  ASSUME Invariant, NEW c \in Consumers, RemoveGatingSequence(c)
  PROVE  Invariant'
<1>1. /\ Owns /\ gating' = gating \ {c} /\ joined' = joined \ {c}
      /\ UNCHANGED <<sequence, kind, program, shared, claimed, cached_value,
                     stamps, ppc, low, high, at, pscan, claims, todo, unread>>
  BY DEF RemoveGatingSequence, rangeVars
<1>2. \A p \in Producers : ppc[p] = "idle"
  BY <1>1, OwnedIsQuiet
<1>3. TypeOK'
  BY <1>1 DEF Invariant, TypeOK
<1>4. RangeInv' /\ MinimumInv'
  BY <1>1, <1>2 DEF Invariant, RangeInv, MinimumInv, Granted
<1>5. OwnerInv'
  BY <1>1, <1>2, UseAssumption DEF Invariant, OwnerInv
<1>6. NoOverrun'
  BY <1>1 DEF Invariant, NoOverrun, Granted
<1>. QED  BY <1>3, <1>4, <1>5, <1>6 DEF Invariant

-----------------------------------------------------------------------------
(* next(). *)

LEMMA CallNextKeeps ==
  ASSUME Invariant, NEW p \in Producers, NEW n \in Nat \ {0}, CallNext(p, n),
         p = Owner \/ shared
  PROVE  Invariant'
<1>1. /\ ppc[p] = "idle" /\ claimed + n <= MaxSequence /\ todo[p] > 0
      /\ todo' = [todo EXCEPT ![p] = @ - 1]
      /\ low' = [low EXCEPT ![p] = claimed + 1]
      /\ high' = [high EXCEPT ![p] = claimed + n]
      /\ claimed' = IF kind = "multi" THEN claimed + n ELSE claimed
      /\ ppc' = [ppc EXCEPT ![p] = "cached"]
      /\ UNCHANGED <<sequence, kind, program, shared, gating, cached_value,
                     stamps, at, pscan, claims, unread, joined>>
  BY DEF CallNext, GotoP
<1>2. /\ TypeOK /\ claimed \in -1..MaxSequence /\ MaxSequence \in Nat
      /\ claimed + 1 \in 0..MaxSequence /\ claimed + n \in -1..MaxSequence
      /\ claimed < claimed + n /\ claimed + 1 <= claimed + n
      /\ claimed' \in -1..MaxSequence /\ claimed <= claimed'
  <2>1. TypeOK /\ claimed \in -1..MaxSequence /\ MaxSequence \in Nat
    BY Numbers DEF Invariant
  <2>. QED  BY <1>1, <2>1
<1>3. TypeOK'
  <2>1. /\ low' \in [Producers -> 0..MaxSequence]
        /\ high' \in [Producers -> -1..MaxSequence]
        /\ todo' \in [Producers -> Nat]
        /\ ppc' \in [Producers -> {"idle", "cached", "scan", "publish"}]
    BY <1>1, <1>2 DEF TypeOK
  <2>2. ~shared' => \A q \in Producers \ {Owner} : ppc'[q] = "idle"
    BY <1>1, <1>2 DEF TypeOK
  <2>. QED  BY <1>1, <1>2, <2>1, <2>2 DEF TypeOK
<1>4. \A q \in Producers : Granted(q)' = Granted(q)
  BY <1>1, <1>2 DEF Granted, TypeOK
<1>5. RangeInv'
  <2>1. \A q \in Producers : \A range \in Granted(q) :
          range[1] <= range[2] /\ range[2] <= claimed'
    <3>. SUFFICES ASSUME NEW q \in Producers, NEW range \in Granted(q)
                  PROVE  range[1] <= range[2] /\ range[2] <= claimed'
      OBVIOUS
    <3>1. /\ range[1] <= range[2] /\ range[2] <= claimed /\ range[2] \in Int
      BY <1>2, Numbers DEF Invariant, RangeInv, Granted, Ranges
    <3>. QED  BY <1>2, <3>1
  <2>2. /\ ppc'[p] = "cached" /\ low'[p] = claimed + 1 /\ high'[p] = claimed + n
        /\ \A q \in Producers \ {p} :
             ppc'[q] = ppc[q] /\ low'[q] = low[q] /\ high'[q] = high[q]
    BY <1>1, <1>2 DEF TypeOK
  <2>3. \A q \in Producers \ {p} :
          kind = "single" /\ ppc[q] \in {"cached", "scan"} => claimed' = claimed
    BY <1>1
  <2>4. \A q \in Producers \ {p} :
          ppc[q] \in {"cached", "scan"} =>
            IF kind = "multi" THEN high[q] <= claimed' ELSE claimed' < high[q]
    <3>1. \A q \in Producers : high[q] \in Int
      BY <1>2, Numbers
    <3>. QED  BY <1>1, <1>2, <3>1 DEF Invariant, RangeInv
  <2>5. \A q \in Producers : ppc'[q] # "idle" => low'[q] <= high'[q]
    BY <1>2, <2>2 DEF Invariant, RangeInv
  <2>6. \A q \in Producers :
          /\ ppc'[q] \in {"cached", "scan"} =>
               IF kind = "multi" THEN high'[q] <= claimed' ELSE claimed' < high'[q]
          /\ ppc'[q] = "publish" => low'[q] <= at'[q] /\ at'[q] <= high'[q]
    <3>1. IF kind = "multi" THEN high'[p] <= claimed' ELSE claimed' < high'[p]
      BY <1>1, <1>2, <2>2
    <3>. QED  BY <1>1, <2>2, <2>4, <3>1 DEF Invariant, RangeInv
  <2>. QED  BY <1>1, <1>4, <2>1, <2>5, <2>6 DEF RangeInv
<1>6. MinimumInv'
  BY <1>1, <1>2 DEF Invariant, MinimumInv, TypeOK
<1>7. OwnerInv'
  <2>1. kind = "single" => claimed' = claimed
    BY <1>1
  <2>2. ppc'[Owner] = "scan" => ppc[Owner] = "scan"
    BY <1>1, <1>2, UseAssumption DEF TypeOK
  <2>. QED  BY <1>1, <2>1, <2>2 DEF Invariant, OwnerInv
<1>8. NoOverrun'
  BY <1>1, <1>4 DEF Invariant, NoOverrun
<1>. QED  BY <1>3, <1>5, <1>6, <1>7, <1>8 DEF Invariant

\* next() returns with a range that no gating sequence is a lap behind.
LEMMA ReturnKeeps ==
  ASSUME Invariant, NEW p \in Producers, ppc[p] \in {"cached", "scan"},
         Return(p, low[p], high[p]),
         \A c \in joined : high[p] <= sequence[c] + BufferSize,
         claimed' = IF kind = "single" THEN high[p] ELSE claimed,
         cached_value' \in -1..MaxSequence,
         \A c \in joined : cached_value' <= sequence[c],
         kind = "single" => cached_value' <= claimed,
         pscan' \in [Producers -> Scans],
         \A q \in Producers \ {p} : pscan'[q] = pscan[q],
         UNCHANGED <<sequence, kind, program, shared, gating, stamps, low,
                     high, at, todo, unread, joined>>
  PROVE  Invariant'
<1>. DEFINE new == <<low[p], high[p]>>
<1>1. /\ TypeOK /\ kind \in {"single", "multi"}
      /\ low[p] \in 0..MaxSequence /\ high[p] \in -1..MaxSequence
      /\ low[p] <= high[p] /\ MaxSequence \in Nat
      /\ claimed \in -1..MaxSequence
      /\ IF kind = "multi" THEN high[p] <= claimed ELSE claimed < high[p]
  BY Numbers DEF Invariant, RangeInv, TypeOK
<1>2. /\ new \in Ranges
      /\ claimed' \in -1..MaxSequence /\ claimed <= claimed'
      /\ high[p] <= claimed'
  BY <1>1 DEF Ranges
<1>3. /\ ppc' = [ppc EXCEPT ![p] = "idle"]
      /\ claims' = [claims EXCEPT ![p] = @ \cup {new}]
  BY DEF Return, GotoP
<1>. HIDE DEF new
<1>4. /\ ppc'[p] = "idle" /\ claims'[p] = claims[p] \cup {new}
      /\ \A q \in Producers \ {p} : ppc'[q] = ppc[q] /\ claims'[q] = claims[q]
      /\ ppc' \in [Producers -> {"idle", "cached", "scan", "publish"}]
      /\ claims' \in [Producers -> SUBSET Ranges]
  BY <1>1, <1>2, <1>3 DEF TypeOK
<1>5. TypeOK'
  <2>1. ~shared' => \A q \in Producers \ {Owner} : ppc'[q] = "idle"
    BY <1>1, <1>4 DEF TypeOK
  <2>. QED  BY <1>1, <1>2, <1>4, <2>1 DEF TypeOK
<1>6. /\ \A q \in Producers \ {p} : Granted(q)' = Granted(q)
      /\ Granted(p)' = Granted(p) \cup {new}
  BY <1>1, <1>4 DEF Granted
<1>7. new[1] = low[p] /\ new[2] = high[p]
  BY DEF new
<1>8. RangeInv'
  <2>1. \A q \in Producers : \A range \in Granted(q) :
          range[1] <= range[2] /\ range[2] <= claimed'
    <3>. SUFFICES ASSUME NEW q \in Producers, NEW range \in Granted(q)
                  PROVE  range[1] <= range[2] /\ range[2] <= claimed'
      OBVIOUS
    <3>1. /\ range[1] <= range[2] /\ range[2] <= claimed /\ range[2] \in Int
      BY <1>1, Numbers DEF Invariant, RangeInv, Granted, Ranges
    <3>. QED  BY <1>1, <1>2, <3>1
  <2>2. \A q \in Producers : \A range \in Granted(q)' :
          range[1] <= range[2] /\ range[2] <= claimed'
    BY <1>1, <1>2, <1>6, <1>7, <2>1
  <2>3. \A q \in Producers \ {p} : kind = "single" => ppc[q] = "idle"
    BY <1>1, UseAssumption DEF Invariant, OwnerInv, TypeOK
  <2>4. \A q \in Producers :
          /\ ppc'[q] # "idle" => low[q] <= high[q]
          /\ ppc'[q] \in {"cached", "scan"} =>
               IF kind = "multi" THEN high[q] <= claimed' ELSE claimed' < high[q]
          /\ ppc'[q] = "publish" => low[q] <= at[q] /\ at[q] <= high[q]
    BY <1>1, <1>4, <2>3 DEF Invariant, RangeInv
  <2>. QED  BY <2>2, <2>4 DEF RangeInv
<1>9. MinimumInv'
  BY <1>4 DEF Invariant, MinimumInv
<1>10. OwnerInv'
  <2>1. kind = "single" => p = Owner
    BY <1>1, UseAssumption DEF Invariant, OwnerInv, TypeOK
  <2>2. kind = "single" =>
          /\ \A s \in gating \cup {Cursor} : sequence[s] <= claimed'
          /\ cached_value' <= claimed'
    <3>1. \A s \in gating \cup {Cursor} : sequence[s] \in Int
      BY <1>1, Numbers, WiringType
    <3>. QED  BY <1>1, <1>2, <3>1 DEF Invariant, OwnerInv
  <2>. QED  BY <1>4, <2>1, <2>2 DEF Invariant, OwnerInv
<1>11. NoOverrun'
  BY <1>6, <1>7 DEF Invariant, NoOverrun
<1>. QED  BY <1>5, <1>8, <1>9, <1>10, <1>11 DEF Invariant

\* Room up to a minimum that is behind every gating sequence is room.
LEMMA RoomIsRoom ==
  ASSUME TypeOK, NEW p \in Producers, NEW m \in Int,
         \A c \in joined : m <= sequence[c], HasRoom(p, m)
  PROVE  \A c \in joined : high[p] <= sequence[c] + BufferSize
BY Numbers DEF HasRoom

LEMMA LoadCachedKeeps ==
  ASSUME Invariant, NEW p \in Producers, LoadCached(p)
  PROVE  Invariant'
<1>1. /\ ppc[p] = "cached"
      /\ UNCHANGED <<sequence, kind, program, shared, gating, cached_value,
                     stamps, low, high, at, todo, unread, joined>>
  BY DEF LoadCached
<1>2. TypeOK /\ cached_value \in -1..MaxSequence /\ MaxSequence \in Nat
  BY Numbers DEF Invariant
<1>3. CASE SkipsScan(p)
  <2>1. /\ Return(p, low[p], high[p]) /\ pscan' = pscan
        /\ claimed' = IF kind = "single" THEN high[p] ELSE claimed
    BY <1>3 DEF LoadCached
  <2>2. joined = {} \/ HasRoom(p, cached_value)
    BY <1>2, <1>3 DEF SkipsScan, TypeOK
  <2>3. \A c \in joined : high[p] <= sequence[c] + BufferSize
    BY <1>2, <2>2, RoomIsRoom DEF Invariant, MinimumInv
  <2>4. /\ \A c \in joined : cached_value' <= sequence[c]
        /\ kind = "single" => cached_value' <= claimed
        /\ pscan' \in [Producers -> Scans]
    BY <1>1, <1>2, <2>1 DEF Invariant, MinimumInv, OwnerInv, TypeOK
  <2>. QED  BY <1>1, <1>2, <2>1, <2>3, <2>4, ReturnKeeps
<1>4. CASE ~SkipsScan(p)
  <2>1. /\ ppc' = [ppc EXCEPT ![p] = "scan"]
        /\ pscan' = [pscan EXCEPT ![p] = MinScan(gating)]
        /\ UNCHANGED <<claimed, claims>>
    BY <1>4 DEF LoadCached, GotoP
  <2>2. MinScan(gating) \in Scans /\ MinScan(gating).left = gating
    <3>1. gating \in SUBSET SequenceIds
      BY <1>2, WiringType DEF TypeOK
    <3>. QED  BY <3>1, MinScanType DEF MinScan
  <2>3. /\ ppc'[p] = "scan" /\ pscan'[p].left = gating
        /\ \A q \in Producers \ {p} : ppc'[q] = ppc[q] /\ pscan'[q] = pscan[q]
        /\ ppc' \in [Producers -> {"idle", "cached", "scan", "publish"}]
        /\ pscan' \in [Producers -> Scans]
    BY <1>2, <2>1, <2>2 DEF TypeOK
  <2>4. TypeOK'
    <3>1. ~shared' => \A q \in Producers \ {Owner} : ppc'[q] = "idle"
      BY <1>1, <1>2, <2>3 DEF TypeOK
    <3>. QED  BY <1>1, <1>2, <2>1, <2>3, <3>1 DEF TypeOK
  <2>5. \A q \in Producers : Granted(q)' = Granted(q)
    BY <1>1, <2>1, <2>3 DEF Granted
  <2>6. RangeInv'
    BY <1>1, <2>1, <2>3, <2>5 DEF Invariant, RangeInv
  <2>7. MinimumInv'
    BY <1>1, <1>2, <2>3 DEF Invariant, MinimumInv, TypeOK
  <2>8. OwnerInv'
    <3>1. kind = "single" => p = Owner /\ gating # {}
      BY <1>1, <1>2, <1>4, UseAssumption
         DEF Invariant, OwnerInv, TypeOK, SkipsScan
    <3>. QED  BY <1>1, <2>1, <2>3, <3>1 DEF Invariant, OwnerInv
  <2>9. NoOverrun'
    BY <1>1, <2>5 DEF Invariant, NoOverrun
  <2>. QED  BY <2>4, <2>6, <2>7, <2>8, <2>9 DEF Invariant
<1>. QED  BY <1>3, <1>4

LEMMA LoadGatingKeeps ==
  ASSUME Invariant, NEW p \in Producers, LoadGating(p)
  PROVE  Invariant'
<1>1. PICK s \in pscan[p].left : pscan' = [pscan EXCEPT ![p] = Load(pscan[p], s)]
  BY DEF LoadGating
<1>2. /\ ppc[p] = "scan"
      /\ UNCHANGED <<sequence, kind, program, shared, gating, claimed,
                     cached_value, stamps, ppc, low, high, at, claims, todo,
                     unread, joined>>
  BY DEF LoadGating, sequencerVars
<1>3. /\ TypeOK /\ pscan[p] \in Scans /\ s \in SequenceIds
      /\ sequence[s] \in Values /\ MaxSequence \in Nat
  BY Numbers DEF Invariant, Scans
<1>4. /\ Load(pscan[p], s) \in Scans
      /\ Load(pscan[p], s).left = pscan[p].left \ {s}
      /\ Load(pscan[p], s).low <= pscan[p].low
      /\ Load(pscan[p], s).low <= sequence[s]
      /\ Load(pscan[p], s).low \in Int /\ pscan[p].low \in Int
  BY <1>3 DEF Load, Scans, Values
<1>5. /\ pscan'[p] = Load(pscan[p], s)
      /\ \A q \in Producers \ {p} : pscan'[q] = pscan[q]
      /\ pscan' \in [Producers -> Scans]
  BY <1>1, <1>3, <1>4 DEF TypeOK
<1>6. TypeOK'
  BY <1>2, <1>3, <1>5 DEF TypeOK
<1>7. RangeInv' /\ NoOverrun'
  BY <1>2 DEF Invariant, RangeInv, NoOverrun, Granted
<1>8. MinimumInv'
  <2>1. \A c \in joined :
          c \in pscan'[p].left \/ pscan'[p].low <= sequence[c]
    <3>. SUFFICES ASSUME NEW c \in joined
                  PROVE  c \in pscan'[p].left \/ pscan'[p].low <= sequence[c]
      OBVIOUS
    <3>1. c \in pscan[p].left \/ pscan[p].low <= sequence[c]
      BY <1>2 DEF Invariant, MinimumInv
    <3>2. sequence[c] \in Int
      BY <1>3, Numbers
    <3>. QED  BY <1>4, <1>5, <3>1, <3>2
  <2>. QED  BY <1>2, <1>5, <2>1 DEF Invariant, MinimumInv
<1>9. OwnerInv'
  <2>. SUFFICES ASSUME kind = "single"
                PROVE  /\ pscan'[Owner].left \subseteq gating
                       /\ pscan'[Owner].low <= claimed
    BY <1>2 DEF Invariant, OwnerInv
  <2>1. p = Owner
    BY <1>2, <1>3, UseAssumption DEF Invariant, OwnerInv, TypeOK
  <2>2. s \in gating /\ pscan[p].left \subseteq gating
    BY <1>2, <2>1 DEF Invariant, OwnerInv
  <2>3. sequence[s] <= claimed /\ sequence[s] \in Int /\ claimed \in Int
    BY <1>3, <2>2, Numbers DEF Invariant, OwnerInv
  <2>. QED  BY <1>4, <1>5, <2>1, <2>2, <2>3
<1>. QED  BY <1>6, <1>7, <1>8, <1>9 DEF Invariant

LEMMA EndScanKeeps ==
  ASSUME Invariant, NEW p \in Producers, EndScan(p)
  PROVE  Invariant'
<1>. DEFINE m == pscan[p].low
<1>1. /\ ppc[p] = "scan" /\ pscan[p].left = {}
      /\ cached_value' = IF kind = "multi" \/ HasRoom(p, m) THEN m
                         ELSE cached_value
      /\ UNCHANGED <<sequence, kind, program, shared, gating, stamps, low,
                     high, at, todo, unread, joined>>
  BY DEF EndScan
<1>2. /\ TypeOK /\ m \in -1..MaxSequence /\ MaxSequence \in Nat /\ m \in Int
      /\ kind \in {"single", "multi"}
  BY Numbers DEF Invariant, Scans, TypeOK
<1>3. \A c \in joined : m <= sequence[c]
  BY <1>1 DEF Invariant, MinimumInv
<1>4. kind = "single" => p = Owner /\ m <= claimed
  BY <1>1, <1>2, UseAssumption DEF Invariant, OwnerInv, TypeOK
<1>5. /\ cached_value' \in -1..MaxSequence
      /\ \A c \in joined : cached_value' <= sequence[c]
      /\ kind = "single" => cached_value' <= claimed
  BY <1>1, <1>2, <1>3, <1>4, Numbers DEF Invariant, MinimumInv, OwnerInv
<1>6. MinScan({}) \in Scans /\ MinScan(gating) \in Scans
      /\ MinScan(gating).left = gating /\ MinScan(gating).low = MaxSequence
  <2>1. gating \in SUBSET SequenceIds /\ {} \in SUBSET SequenceIds
    BY <1>2, WiringType DEF TypeOK
  <2>. QED  BY <2>1, MinScanType DEF MinScan
<1>7. CASE HasRoom(p, m)
  <2>1. /\ Return(p, low[p], high[p])
        /\ claimed' = IF kind = "single" THEN high[p] ELSE claimed
        /\ pscan' = [pscan EXCEPT ![p] = MinScan({})]
    BY <1>7 DEF EndScan
  <2>2. /\ pscan' \in [Producers -> Scans]
        /\ \A q \in Producers \ {p} : pscan'[q] = pscan[q]
    BY <1>2, <1>6, <2>1 DEF TypeOK
  <2>3. \A c \in joined : high[p] <= sequence[c] + BufferSize
    BY <1>2, <1>3, <1>7, RoomIsRoom
  <2>. QED  BY <1>1, <1>5, <2>1, <2>2, <2>3, ReturnKeeps
<1>8. CASE ~HasRoom(p, m)
  <2>1. /\ UNCHANGED <<ppc, claimed, claims>>
        /\ pscan' = [pscan EXCEPT ![p] = MinScan(gating)]
    BY <1>8 DEF EndScan
  <2>2. /\ pscan'[p] = MinScan(gating)
        /\ \A q \in Producers \ {p} : pscan'[q] = pscan[q]
        /\ pscan' \in [Producers -> Scans]
    BY <1>2, <1>6, <2>1 DEF TypeOK
  <2>3. TypeOK'
    BY <1>1, <1>2, <1>5, <2>1, <2>2 DEF TypeOK
  <2>4. RangeInv' /\ NoOverrun'
    BY <1>1, <2>1 DEF Invariant, RangeInv, NoOverrun, Granted
  <2>5. MinimumInv'
    <3>1. \A c \in joined : c \in gating
      BY <1>2 DEF TypeOK
    <3>. QED  BY <1>1, <1>5, <1>6, <2>1, <2>2, <3>1 DEF Invariant, MinimumInv
  <2>6. OwnerInv'
    <3>1. kind = "single" => gating # {}
      BY <1>1, <1>4 DEF Invariant, OwnerInv
    <3>. QED
      BY <1>1, <1>4, <1>5, <1>6, <2>1, <2>2, <3>1 DEF Invariant, OwnerInv
  <2>. QED  BY <2>3, <2>4, <2>5, <2>6 DEF Invariant
<1>. QED  BY <1>7, <1>8

-----------------------------------------------------------------------------
(* publish(). *)

LEMMA PublishKeeps ==
  ASSUME Invariant, NEW p \in Producers, Publish(p), p = Owner \/ shared
  PROVE  Invariant'
<1>1. PICK range \in claims[p] :
        /\ claims' = [claims EXCEPT ![p] = @ \ {range}]
        /\ IF kind = "single"
             THEN /\ sequence' = [sequence EXCEPT ![Cursor] = range[2]]
                  /\ UNCHANGED <<ppc, low, high, at>>
             ELSE /\ low' = [low EXCEPT ![p] = range[1]]
                  /\ high' = [high EXCEPT ![p] = range[2]]
                  /\ at' = [at EXCEPT ![p] = range[1]]
                  /\ ppc' = [ppc EXCEPT ![p] = "publish"]
                  /\ UNCHANGED sequence
  BY DEF Publish, SetSequence, GotoP
<1>2. /\ ppc[p] = "idle"
      /\ UNCHANGED <<kind, program, shared, gating, claimed, cached_value,
                     stamps, pscan, todo, unread, joined>>
  BY DEF Publish, sequencerVars
<1>3. /\ TypeOK /\ MaxSequence \in Nat /\ claimed \in -1..MaxSequence
      /\ range \in Ranges /\ range = <<range[1], range[2]>>
      /\ range[1] \in 0..MaxSequence /\ range[2] \in 0..MaxSequence
      /\ range \in Granted(p)
      /\ range[1] <= range[2] /\ range[2] <= claimed
  <2>1. /\ TypeOK /\ MaxSequence \in Nat /\ claimed \in -1..MaxSequence
        /\ range \in Ranges /\ range \in Granted(p)
    BY Numbers DEF Invariant, Granted
  <2>2. range[1] <= range[2] /\ range[2] <= claimed
    BY <2>1 DEF Invariant, RangeInv
  <2>. QED  BY <2>1, <2>2 DEF Ranges
<1>4. /\ claims'[p] = claims[p] \ {range}
      /\ \A q \in Producers \ {p} : claims'[q] = claims[q]
      /\ claims' \in [Producers -> SUBSET Ranges]
  BY <1>1, <1>3 DEF TypeOK
<1>5. CASE kind = "single"
  <2>1. /\ sequence' = [sequence EXCEPT ![Cursor] = range[2]]
        /\ UNCHANGED <<ppc, low, high, at>>
    BY <1>1, <1>5
  <2>2. \A q \in Producers : Granted(q)' \subseteq Granted(q)
    BY <1>4, <2>1 DEF Granted
  <2>3. \A s \in SequenceIds : sequence'[s] =
          IF s = Cursor THEN range[2] ELSE sequence[s]
    BY <1>3, <2>1 DEF TypeOK
  <2>4. \A c \in joined \cup gating :
          c \in SequenceIds /\ sequence'[c] = sequence[c]
    BY <1>3, <2>3, Numbers
  <2>5. TypeOK'
    <3>1. sequence \in [SequenceIds -> Nat \cup {-1}]
      BY <1>3 DEF TypeOK
    <3>2. range[2] \in Nat \cup {-1}
      BY <1>3
    <3>3. sequence' \in [SequenceIds -> Nat \cup {-1}]
      BY <2>1, <3>1, <3>2
    <3>. QED  BY <1>2, <1>3, <1>4, <2>1, <3>3 DEF TypeOK
  <2>6. RangeInv'
    BY <1>2, <2>1, <2>2 DEF Invariant, RangeInv
  <2>7. MinimumInv'
    BY <1>2, <2>1, <2>4 DEF Invariant, MinimumInv
  <2>8. OwnerInv'
    BY <1>2, <1>3, <1>5, <2>1, <2>3, <2>4, WiringType DEF Invariant, OwnerInv
  <2>9. NoOverrun'
    BY <1>2, <2>2, <2>4 DEF Invariant, NoOverrun
  <2>. QED  BY <2>5, <2>6, <2>7, <2>8, <2>9 DEF Invariant
<1>6. CASE kind # "single"
  <2>1. /\ low' = [low EXCEPT ![p] = range[1]]
        /\ high' = [high EXCEPT ![p] = range[2]]
        /\ at' = [at EXCEPT ![p] = range[1]]
        /\ ppc' = [ppc EXCEPT ![p] = "publish"]
        /\ UNCHANGED sequence
    BY <1>1, <1>6
  <2>2. /\ low'[p] = range[1] /\ high'[p] = range[2] /\ at'[p] = range[1]
        /\ ppc'[p] = "publish"
        /\ \A q \in Producers \ {p} :
             /\ low'[q] = low[q] /\ high'[q] = high[q] /\ at'[q] = at[q]
             /\ ppc'[q] = ppc[q]
    BY <1>3, <2>1 DEF TypeOK
  <2>3. TypeOK'
    <3>1. /\ low' \in [Producers -> 0..MaxSequence]
          /\ high' \in [Producers -> -1..MaxSequence]
          /\ at' \in [Producers -> 0..(MaxSequence + 1)]
          /\ ppc' \in [Producers -> {"idle", "cached", "scan", "publish"}]
      BY <1>3, <2>1 DEF TypeOK
    <3>2. ~shared' => \A q \in Producers \ {Owner} : ppc'[q] = "idle"
      BY <1>2, <1>3, <2>2 DEF TypeOK
    <3>. QED  BY <1>2, <1>3, <1>4, <2>1, <3>1, <3>2 DEF TypeOK
  <2>4. \A q \in Producers : Granted(q)' \subseteq Granted(q)
    <3>1. Granted(p)' = (claims[p] \ {range}) \cup {<<range[1], range[2]>>}
      BY <1>4, <2>2 DEF Granted
    <3>2. Granted(p)' \subseteq Granted(p)
      BY <1>3, <3>1 DEF Granted
    <3>3. \A q \in Producers \ {p} : Granted(q)' = Granted(q)
      BY <1>4, <2>2 DEF Granted
    <3>. QED  BY <3>2, <3>3
  <2>5. RangeInv'
    <3>1. \A q \in Producers :
            /\ ppc'[q] # "idle" => low'[q] <= high'[q]
            /\ ppc'[q] \in {"cached", "scan"} =>
                 IF kind = "multi" THEN high'[q] <= claimed ELSE claimed < high'[q]
            /\ ppc'[q] = "publish" => low'[q] <= at'[q] /\ at'[q] <= high'[q]
      BY <1>3, <2>2 DEF Invariant, RangeInv
    <3>. QED  BY <1>2, <2>4, <3>1 DEF Invariant, RangeInv
  <2>6. MinimumInv'
    BY <1>2, <2>1, <2>2 DEF Invariant, MinimumInv
  <2>7. OwnerInv'
    BY <1>2, <1>6 DEF OwnerInv
  <2>8. NoOverrun'
    BY <1>2, <2>1, <2>4 DEF Invariant, NoOverrun
  <2>. QED  BY <2>3, <2>5, <2>6, <2>7, <2>8 DEF Invariant
<1>. QED  BY <1>5, <1>6

\* What set_batch stores is a lap's number.
LEMMA StampType ==
  ASSUME NEW lo \in Nat, NEW hi \in Int, NEW s \in Nat, lo <= s
  PROVE  BatchStamp(lo, hi, s) \in Nat
<1>1. s - lo \in Nat
  OBVIOUS
<1>2. Generation(lo) \in Nat /\ Generation(s - lo) \in Nat /\ Generation(s) \in Nat
  BY <1>1, Division
<1>. QED  BY <1>2 DEF BatchStamp

LEMMA PublishSlotKeeps ==
  ASSUME Invariant, NEW p \in Producers, PublishSlot(p)
  PROVE  Invariant'
<1>. DEFINE stamp == BatchStamp(low[p], high[p], at[p])
            slot == BatchSlot(low[p], high[p], at[p])
<1>1. /\ ppc[p] = "publish"
      /\ stamps' = [stamps EXCEPT ![slot] = stamp]
      /\ at' = [at EXCEPT ![p] = @ + 1]
      /\ ppc' = [ppc EXCEPT ![p] = IF at[p] = high[p] THEN "idle" ELSE "publish"]
      /\ UNCHANGED <<sequence, kind, program, shared, gating, claimed,
                     cached_value, low, high, pscan, claims, todo, unread,
                     joined>>
  BY DEF PublishSlot, sequencerVars, GotoP
<1>2. /\ TypeOK /\ MaxSequence \in Nat
      /\ low[p] \in 0..MaxSequence /\ high[p] \in -1..MaxSequence
      /\ at[p] \in 0..(MaxSequence + 1) /\ at[p] <= high[p]
  BY <1>1, Numbers DEF Invariant, RangeInv
<1>3. stamps' \in [Slots -> Nat \cup {-1}]
  <2>1. low[p] <= at[p]
    BY <1>1 DEF Invariant, RangeInv
  <2>2. stamp \in Nat
    BY <1>2, <2>1, StampType
  <2>. HIDE DEF stamp, slot
  <2>. QED  BY <1>1, <1>2, <2>2 DEF TypeOK
<1>4. /\ at'[p] = at[p] + 1
      /\ ppc'[p] = (IF at[p] = high[p] THEN "idle" ELSE "publish")
      /\ \A q \in Producers \ {p} : at'[q] = at[q] /\ ppc'[q] = ppc[q]
      /\ at' \in [Producers -> 0..(MaxSequence + 1)]
      /\ ppc' \in [Producers -> {"idle", "cached", "scan", "publish"}]
  <2>1. at[p] + 1 \in 0..(MaxSequence + 1)
    BY <1>2
  <2>. QED  BY <1>1, <1>2, <2>1 DEF TypeOK
<1>5. TypeOK'
  <2>1. ~shared' => \A q \in Producers \ {Owner} : ppc'[q] = "idle"
    BY <1>1, <1>2, <1>4 DEF TypeOK
  <2>. QED  BY <1>1, <1>2, <1>3, <1>4, <2>1 DEF TypeOK
<1>6. \A q \in Producers : Granted(q)' \subseteq Granted(q)
  BY <1>1, <1>4 DEF Granted
<1>7. RangeInv'
  <2>1. ppc'[p] = "publish" => at'[p] <= high[p] /\ low[p] <= at'[p]
    BY <1>1, <1>2, <1>4 DEF Invariant, RangeInv
  <2>. QED  BY <1>1, <1>4, <1>6, <2>1 DEF Invariant, RangeInv
<1>8. MinimumInv' /\ OwnerInv'
  BY <1>1, <1>2, <1>4, UseAssumption DEF Invariant, MinimumInv, OwnerInv
<1>9. NoOverrun'
  BY <1>1, <1>6 DEF Invariant, NoOverrun
<1>. QED  BY <1>5, <1>7, <1>8, <1>9 DEF Invariant

-----------------------------------------------------------------------------

LEMMA InvariantInitial == Init => Invariant
<1>. SUFFICES ASSUME Init  PROVE Invariant
  OBVIOUS
<1>. USE DEF Init
<1>1. /\ MaxSequence \in Nat /\ kind \in {"single", "multi"}
      /\ program \in Programs(kind) /\ shared = program.share
      /\ gating \subseteq Consumers /\ joined = gating
      /\ \A p \in Producers : ppc[p] = "idle" /\ claims[p] = {}
  BY MaxSequenceAssumption
<1>2. /\ program.claims \in Nat /\ program.read \in Nat
      /\ kind = "single" => ~program.share
  BY <1>1, ProgramType
<1>3. sequence \in [SequenceIds -> Nat \cup {-1}]
      /\ \A s \in SequenceIds : sequence[s] = -1
  BY DEF InitSequences
<1>4. TypeOK
  <2>1. pscan \in [Producers -> Scans]
    <3>1. MinScan({}) \in Scans
      BY MinScanType
    <3>. QED  BY <3>1
  <2>2. stamps \in [Slots -> Nat \cup {-1}]
    BY DEF InitStamps
  <2>3. /\ low \in [Producers -> 0..MaxSequence]
        /\ high \in [Producers -> -1..MaxSequence]
        /\ at \in [Producers -> 0..(MaxSequence + 1)]
        /\ claimed \in -1..MaxSequence /\ cached_value \in -1..MaxSequence
    BY <1>1
  <2>4. /\ todo \in [Producers -> Nat]
        /\ unread \in [Consumers -> Nat]
        /\ claims \in [Producers -> SUBSET Ranges]
        /\ ppc \in [Producers -> {"idle", "cached", "scan", "publish"}]
    BY <1>2
  <2>. QED  BY <1>1, <1>3, <2>1, <2>2, <2>3, <2>4 DEF TypeOK
<1>5. RangeInv /\ NoOverrun
  BY <1>1 DEF RangeInv, NoOverrun, Granted
<1>6. MinimumInv
  BY <1>1, <1>3, WiringType DEF MinimumInv
<1>7. OwnerInv
  BY <1>1, <1>2, <1>3, WiringType, UseAssumption DEF OwnerInv
<1>. QED  BY <1>4, <1>5, <1>6, <1>7 DEF Invariant

LEMMA InvariantStep == Invariant /\ [Next]_vars => Invariant'
<1>. SUFFICES ASSUME Invariant, [Next]_vars  PROVE Invariant'
  OBVIOUS
<1>1. ASSUME NEW c \in Consumers, AddGatingSequence(c) \/ RemoveGatingSequence(c)
      PROVE  Invariant'
  BY <1>1, AddGatingSequenceKeeps, RemoveGatingSequenceKeeps
<1>2. ASSUME NEW n \in BatchSizes, CallNext(Owner, n)  PROVE Invariant'
  BY <1>2, CallNextKeeps, UseAssumption
<1>3. CASE Publish(Owner)
  BY <1>3, PublishKeeps, UseAssumption
<1>4. ASSUME NEW p \in Producers, Thread(p)  PROVE Invariant'
  BY <1>4, CallNextKeeps, LoadCachedKeeps, LoadGatingKeeps, EndScanKeeps,
     PublishKeeps, PublishSlotKeeps DEF Thread
<1>5. ASSUME NEW c \in Consumers, Reader(c)  PROVE Invariant'
  BY <1>5, ReaderKeeps
<1>6. CASE UNCHANGED vars
  <2>1. UNCHANGED <<sequence, kind, program, shared, gating, claimed,
                    cached_value, stamps, ppc, low, high, at, pscan, claims,
                    todo, unread, joined>>
    BY <1>6 DEF vars, sequencerVars, rangeVars
  <2>2. TypeOK'
    BY <2>1 DEF Invariant, TypeOK
  <2>. QED
    BY <2>1, <2>2
       DEF Invariant, RangeInv, MinimumInv, OwnerInv, NoOverrun, Granted
<1>. QED  BY <1>1, <1>2, <1>3, <1>4, <1>5, <1>6 DEF Next, Done

LEMMA InvariantHolds == Spec => []Invariant
BY InvariantInitial, InvariantStep, PTL DEF Spec

-----------------------------------------------------------------------------
(* No sequence twice. *)

\* What a thread holds: what it was granted, and in the multi-producer
\* sequencer what next() has taken before it returns.
Held(p) ==
  Granted(p) \cup (IF kind = "multi" /\ ppc[p] \in {"cached", "scan"}
                     THEN {<<low[p], high[p]>>} ELSE {})

Apart(one, two) == one[2] < two[1] \/ two[2] < one[1]

\* What is held is apart, and what the owner of a single-producer sequencer
\* waits for comes after its last claim.
OnceInv ==
  /\ \A p, q \in Producers : \A one \in Held(p), two \in Held(q) :
       (p = q /\ one = two) \/ Apart(one, two)
  /\ kind = "single" /\ ppc[Owner] \in {"cached", "scan"} =>
       low[Owner] = claimed + 1

\* What next() does after the claim: it scans on, or returns.
LEMMA NextStep ==
  ASSUME Invariant, NEW p \in Producers,
         LoadCached(p) \/ LoadGating(p) \/ EndScan(p)
  PROVE  /\ UNCHANGED <<sequence, kind, program, shared, gating, stamps, low,
                        high, at, todo, unread, joined>>
         /\ ppc[p] \in {"cached", "scan"}
         /\ \A q \in Producers \ {p} : ppc'[q] = ppc[q] /\ claims'[q] = claims[q]
         /\ \/ /\ ppc'[p] \in {"cached", "scan"}
               /\ claims'[p] = claims[p] /\ claimed' = claimed
            \/ /\ ppc'[p] = "idle"
               /\ claims'[p] = claims[p] \cup {<<low[p], high[p]>>}
               /\ claimed' = IF kind = "single" THEN high[p] ELSE claimed
<1>1. /\ ppc \in [Producers -> {"idle", "cached", "scan", "publish"}]
      /\ claims \in [Producers -> SUBSET Ranges]
  BY DEF Invariant, TypeOK
<1>2. CASE LoadCached(p)
  <2>1. CASE SkipsScan(p)
    BY <1>1, <1>2, <2>1 DEF LoadCached, Return, GotoP
  <2>2. CASE ~SkipsScan(p)
    BY <1>1, <1>2, <2>2 DEF LoadCached, GotoP
  <2>. QED  BY <2>1, <2>2
<1>3. CASE LoadGating(p)
  BY <1>1, <1>3 DEF LoadGating, sequencerVars
<1>4. CASE EndScan(p)
  <2>1. CASE HasRoom(p, pscan[p].low)
    BY <1>1, <1>4, <2>1 DEF EndScan, Return, GotoP
  <2>2. CASE ~HasRoom(p, pscan[p].low)
    BY <1>1, <1>4, <2>2 DEF EndScan
  <2>. QED  BY <2>1, <2>2
<1>. QED  BY <1>2, <1>3, <1>4

\* What is held has been claimed.
LEMMA HeldIsClaimed ==
  ASSUME Invariant, NEW p \in Producers, NEW range \in Held(p)
  PROVE  /\ range[1] \in Nat /\ range[2] \in Int /\ range[1] <= range[2]
         /\ range[2] <= claimed
<1>1. CASE range \in Granted(p)
  BY <1>1, Numbers DEF Invariant, RangeInv, Granted, Ranges
<1>2. CASE range \notin Granted(p)
  <2>1. /\ kind = "multi" /\ ppc[p] \in {"cached", "scan"}
        /\ range = <<low[p], high[p]>>
    BY <1>2 DEF Held
  <2>. QED  BY <2>1, Numbers DEF Invariant, RangeInv
<1>. QED  BY <1>1, <1>2

\* A range that starts after all claims is apart from what is held.
LEMMA HeldStaysApart ==
  ASSUME Invariant, OnceInv, NEW p \in Producers, NEW hi \in Int,
         Held(p)' \subseteq Held(p) \cup {<<claimed + 1, hi>>},
         \A q \in Producers \ {p} : Held(q)' \subseteq Held(q)
  PROVE  \A q, r \in Producers : \A one \in Held(q)', two \in Held(r)' :
           (q = r /\ one = two) \/ Apart(one, two)
<1>. DEFINE new == <<claimed + 1, hi>>
<1>1. claimed \in Int
  BY Numbers DEF Invariant
<1>2. ASSUME NEW q \in Producers, NEW range \in Held(q)  PROVE range[2] < new[1]
  BY <1>1, HeldIsClaimed
<1>. HIDE DEF new
<1>3. \A q \in Producers : Held(q)' \subseteq
        Held(q) \cup (IF q = p THEN {new} ELSE {})
  BY DEF new
<1>. SUFFICES ASSUME NEW q \in Producers, NEW r \in Producers,
                     NEW one \in Held(q)', NEW two \in Held(r)'
              PROVE  (q = r /\ one = two) \/ Apart(one, two)
  OBVIOUS
<1>4. CASE one \in Held(q) /\ two \in Held(r)
  BY <1>4 DEF OnceInv
<1>5. CASE one \notin Held(q) /\ two \in Held(r)
  BY <1>2, <1>3, <1>5 DEF Apart
<1>6. CASE one \in Held(q) /\ two \notin Held(r)
  BY <1>2, <1>3, <1>6 DEF Apart
<1>7. CASE one \notin Held(q) /\ two \notin Held(r)
  BY <1>3, <1>7
<1>. QED  BY <1>4, <1>5, <1>6, <1>7

LEMMA OnceStep ==
  ASSUME Invariant, OnceInv, [Next]_vars
  PROVE  OnceInv'
<1>0. /\ TypeOK /\ ppc \in [Producers -> {"idle", "cached", "scan", "publish"}]
      /\ claims \in [Producers -> SUBSET Ranges]
      /\ low \in [Producers -> 0..MaxSequence]
      /\ high \in [Producers -> -1..MaxSequence]
      /\ claimed \in Int
  BY Numbers DEF Invariant, TypeOK
<1>1. ASSUME UNCHANGED <<kind, claimed, ppc, low, high, claims>>
      PROVE  OnceInv'
  BY <1>1 DEF OnceInv, Held, Granted
<1>2. ASSUME NEW c \in Consumers,
             AddGatingSequence(c) \/ RemoveGatingSequence(c) \/ Reader(c)
      PROVE  OnceInv'
  BY <1>1, <1>2
     DEF AddGatingSequence, RemoveGatingSequence, Reader, Consume, ReadBatch,
         CountOn, rangeVars, sequencerVars
<1>3. ASSUME NEW p \in Producers, NEW n \in Nat, CallNext(p, n),
             p = Owner \/ shared
      PROVE  OnceInv'
  <2>1. /\ ppc[p] = "idle" /\ ppc' = [ppc EXCEPT ![p] = "cached"]
        /\ low' = [low EXCEPT ![p] = claimed + 1]
        /\ high' = [high EXCEPT ![p] = claimed + n]
        /\ claimed' = IF kind = "multi" THEN claimed + n ELSE claimed
        /\ UNCHANGED <<kind, shared, claims>>
    BY <1>3 DEF CallNext, GotoP
  <2>2. /\ ppc'[p] = "cached" /\ low'[p] = claimed + 1 /\ high'[p] = claimed + n
        /\ \A q \in Producers \ {p} :
             ppc'[q] = ppc[q] /\ low'[q] = low[q] /\ high'[q] = high[q]
    BY <1>0, <2>1
  <2>3. Held(p)' \subseteq Held(p) \cup {<<claimed + 1, claimed + n>>}
    BY <2>1, <2>2 DEF Held, Granted
  <2>4. \A q \in Producers \ {p} : Held(q)' \subseteq Held(q)
    BY <2>1, <2>2 DEF Held, Granted
  <2>5. kind = "single" /\ ppc'[Owner] \in {"cached", "scan"} =>
          low'[Owner] = claimed' + 1
    BY <1>3, <2>1, <2>2 DEF Invariant, OwnerInv
  <2>6. claimed + n \in Int
    BY <1>0
  <2>. QED  BY <2>1, <2>3, <2>4, <2>5, <2>6, HeldStaysApart DEF OnceInv
<1>4. ASSUME NEW p \in Producers, LoadCached(p) \/ LoadGating(p) \/ EndScan(p)
      PROVE  OnceInv'
  <2>1. /\ UNCHANGED <<kind, low, high, shared>>
        /\ ppc[p] \in {"cached", "scan"}
        /\ \A q \in Producers \ {p} : ppc'[q] = ppc[q] /\ claims'[q] = claims[q]
        /\ \/ /\ ppc'[p] \in {"cached", "scan"}
              /\ claims'[p] = claims[p] /\ claimed' = claimed
           \/ /\ ppc'[p] = "idle"
              /\ claims'[p] = claims[p] \cup {<<low[p], high[p]>>}
              /\ claimed' = IF kind = "single" THEN high[p] ELSE claimed
    BY <1>4, NextStep
  <2>2. kind = "single" => p = Owner
    BY <2>1 DEF Invariant, OwnerInv, TypeOK
  <2>3. kind \in {"single", "multi"} /\ high[p] \in Int
    BY <1>0 DEF TypeOK
  <2>4. Held(p)' \subseteq Held(p) \cup {<<claimed + 1, high[p]>>}
    <3>1. CASE kind = "multi"
      BY <2>1, <3>1 DEF Held, Granted
    <3>2. CASE kind = "single"
      <4>1. low[p] = claimed + 1
        BY <2>1, <2>2, <3>2 DEF OnceInv
      <4>. QED  BY <2>1, <3>2, <4>1 DEF Held, Granted
    <3>. QED  BY <2>3, <3>1, <3>2
  <2>5. \A q \in Producers \ {p} : Held(q)' \subseteq Held(q)
    BY <2>1 DEF Held, Granted
  <2>6. kind = "single" /\ ppc'[Owner] \in {"cached", "scan"} =>
          low'[Owner] = claimed' + 1
    BY <2>1, <2>2 DEF OnceInv
  <2>. QED  BY <2>1, <2>3, <2>4, <2>5, <2>6, HeldStaysApart DEF OnceInv
<1>5. ASSUME NEW p \in Producers, Publish(p)  PROVE OnceInv'
  <2>1. PICK range \in claims[p] :
          /\ claims' = [claims EXCEPT ![p] = @ \ {range}]
          /\ IF kind = "single" THEN UNCHANGED <<ppc, low, high>>
               ELSE /\ low' = [low EXCEPT ![p] = range[1]]
                    /\ high' = [high EXCEPT ![p] = range[2]]
                    /\ ppc' = [ppc EXCEPT ![p] = "publish"]
    BY <1>5 DEF Publish, GotoP
  <2>2. /\ ppc[p] = "idle" /\ UNCHANGED <<kind, claimed>>
        /\ range \in Ranges /\ range = <<range[1], range[2]>>
    BY <1>0, <1>5 DEF Publish, sequencerVars, Ranges
  <2>3. \A q \in Producers : Held(q)' \subseteq Held(q)
    <3>1. CASE kind = "single"
      BY <1>0, <2>1, <2>2, <3>1 DEF Held, Granted
    <3>2. CASE kind # "single"
      <4>1. /\ low'[p] = range[1] /\ high'[p] = range[2] /\ ppc'[p] = "publish"
            /\ claims'[p] = claims[p] \ {range}
            /\ \A q \in Producers \ {p} :
                 /\ low'[q] = low[q] /\ high'[q] = high[q] /\ ppc'[q] = ppc[q]
                 /\ claims'[q] = claims[q]
        BY <1>0, <2>1, <2>2, <3>2
      <4>2. Held(p)' \subseteq claims[p]
        BY <2>1, <2>2, <4>1 DEF Held, Granted
      <4>3. claims[p] \subseteq Held(p)
        BY DEF Held, Granted
      <4>4. \A q \in Producers \ {p} : Held(q)' = Held(q)
        BY <2>2, <4>1 DEF Held, Granted
      <4>. QED  BY <4>2, <4>3, <4>4
    <3>. QED  BY <3>1, <3>2
  <2>4. kind = "single" /\ ppc'[Owner] \in {"cached", "scan"} =>
          low'[Owner] = claimed' + 1
    BY <2>1, <2>2 DEF OnceInv
  <2>. QED  BY <2>2, <2>3, <2>4 DEF OnceInv
<1>6. ASSUME NEW p \in Producers, PublishSlot(p)  PROVE OnceInv'
  <2>1. /\ ppc[p] = "publish" /\ UNCHANGED <<kind, claimed, low, high, claims>>
        /\ ppc' = [ppc EXCEPT ![p] = IF at[p] = high[p] THEN "idle" ELSE "publish"]
    BY <1>6 DEF PublishSlot, GotoP, sequencerVars
  <2>2. /\ ppc'[p] \in {"idle", "publish"}
        /\ \A q \in Producers \ {p} : ppc'[q] = ppc[q]
    BY <1>0, <2>1
  <2>3. \A q \in Producers : Held(q)' \subseteq Held(q)
    BY <2>1, <2>2 DEF Held, Granted
  <2>4. kind = "single" /\ ppc'[Owner] \in {"cached", "scan"} =>
          low'[Owner] = claimed' + 1
    BY <2>1, <2>2, UseAssumption DEF OnceInv
  <2>. QED  BY <2>1, <2>3, <2>4 DEF OnceInv
<1>7. CASE UNCHANGED vars
  BY <1>1, <1>7 DEF vars, rangeVars, sequencerVars
<1>. QED
  BY <1>2, <1>3, <1>4, <1>5, <1>6, <1>7, UseAssumption DEF Next, Thread, Done

LEMMA OnceInitial == Init => OnceInv
<1>. SUFFICES ASSUME Init  PROVE OnceInv
  OBVIOUS
<1>1. \A p \in Producers : ppc[p] = "idle" /\ claims[p] = {}
  BY DEF Init
<1>2. ppc[Owner] = "idle" /\ \A p \in Producers : Held(p) = {}
  BY <1>1, UseAssumption DEF Held, Granted
<1>. QED  BY <1>2 DEF OnceInv

-----------------------------------------------------------------------------
(* Threads that share a sequencer claim one sequence at a time. *)

\* The sequence a thread has in its hands, from the claim to the stamp.
Hand(p) ==
  IF ppc[p] = "idle" THEN {range[1] : range \in claims[p]} ELSE {low[p]}

OneClaimInv ==
  \A p \in Producers :
    /\ ppc[p] # "idle" => claims[p] = {} /\ high[p] = low[p] /\ low[p] <= claimed
    /\ ppc[p] = "publish" => at[p] = low[p]
    /\ \A range \in claims[p] : range[1] = range[2]
    /\ \A one, two \in claims[p] : one = two

\* Every slot carries the lap of some claim, that of a claim in hand an
\* earlier one than the claim's, and what is in no hand has been stamped.
StampInv ==
  /\ \A i \in Slots : BufferSize * stamps[i] + i <= claimed
  /\ \A p \in Producers : \A s \in Hand(p) : stamps[Index(s)] < Generation(s)
  /\ \A s \in 0..claimed :
       \/ \E p \in Producers : s \in Hand(p)
       \/ stamps[Index(s)] >= Generation(s)

\* Readers that wait are behind every claim in hand, and no stamp is a lap ahead
\* of them.
ReaderInv ==
  program.gate /\ ~program.blind =>
    /\ joined = Consumers
    /\ \A c \in Consumers :
         /\ sequence[c] <= claimed
         /\ \A p \in Producers : \A s \in Hand(p) : sequence[c] < s
         /\ \A i \in Slots :
              BufferSize * stamps[i] + i <= sequence[c] + BufferSize

\* What a consumer has seen and has still to see, and who gates.
UnreadInv ==
  /\ gating = IF program.gate THEN Consumers ELSE {}
  /\ \A c \in Consumers :
       IF unread[c] > 0 THEN sequence[c] + 1 + unread[c] = program.read
                        ELSE program.read <= sequence[c] + 1

\* The claims made so far by some threads, numbered by each.
ClaimsOf(threads) ==
  {claim \in threads \X (1..program.claims) :
     claim[2] <= program.claims - todo[claim[1]]}
OtherClaims(p) == ClaimsOf(Producers \ {p})

\* There are as many claims as sequences, and with nobody to wait for a claim
\* in hand is as far behind as the others have made claims since.
CountInv ==
  /\ \A p \in Producers : todo[p] <= program.claims
  /\ claimed + 1 = Cardinality(ClaimsOf(Producers))
  /\ ~program.gate \/ program.blind =>
       \A p \in Producers : \A s \in Hand(p) :
         claimed - s <= Cardinality(OtherClaims(p))

SharedInv ==
  shared => OneClaimInv /\ StampInv /\ ReaderInv /\ UnreadInv /\ CountInv

\* A shared sequencer is the multi-producer one, and what the steps read has
\* its type.
LEMMA SharedFacts ==
  ASSUME Invariant, shared
  PROVE  /\ TypeOK /\ kind = "multi" /\ claimed \in Int /\ claimed >= -1
         /\ BufferSize \in Nat /\ BufferSize > 0
         /\ ppc \in [Producers -> {"idle", "cached", "scan", "publish"}]
         /\ claims \in [Producers -> SUBSET Ranges]
         /\ low \in [Producers -> 0..MaxSequence]
         /\ high \in [Producers -> -1..MaxSequence]
         /\ \A i \in Slots : stamps[i] \in Int
         /\ \A c \in Consumers : sequence[c] \in Int /\ sequence[c] >= -1
         /\ program \in Programs("multi") /\ program.share
         /\ program.claims \in Nat
         /\ todo \in [Producers -> Nat] /\ unread \in [Consumers -> Nat]
<1>1. TypeOK /\ claimed \in -1..MaxSequence /\ MaxSequence \in Nat
  BY Numbers DEF Invariant
<1>2. kind = "multi" /\ program \in Programs("multi") /\ program.share
  BY <1>1 DEF Invariant, OwnerInv, TypeOK
<1>3. program.claims \in Nat
  BY <1>2, ProgramType
<1>4. ASSUME NEW c \in Consumers  PROVE sequence[c] \in Int /\ sequence[c] >= -1
  <2>1. c \in SequenceIds
    BY WiringType
  <2>2. sequence[c] \in Values
    BY <1>1, <2>1, Numbers
  <2>. QED  BY <2>2 DEF Values
<1>. QED  BY <1>1, <1>2, <1>3, <1>4, PositiveBufferSize DEF TypeOK

\* What is in a hand is a range of one sequence that is held.
LEMMA HandIsHeld ==
  ASSUME Invariant, shared, OneClaimInv, NEW p \in Producers, NEW s \in Hand(p)
  PROVE  <<s, s>> \in Held(p) /\ s \in Nat /\ s <= claimed
<1>1. <<s, s>> \in Held(p)
  <2>1. CASE ppc[p] = "idle"
    <3>1. PICK range \in claims[p] : s = range[1]
      BY <2>1 DEF Hand
    <3>2. range = <<range[1], range[2]>>
      BY SharedFacts DEF Ranges
    <3>3. range = <<s, s>>
      BY <3>1, <3>2 DEF OneClaimInv
    <3>. QED  BY <3>1, <3>3 DEF Held, Granted
  <2>2. CASE ppc[p] # "idle"
    <3>1. s = low[p] /\ high[p] = low[p]
      BY <2>2 DEF Hand, OneClaimInv
    <3>2. ppc[p] = "publish" \/ ppc[p] \in {"cached", "scan"}
      BY <2>2, SharedFacts
    <3>. QED  BY <3>1, <3>2, SharedFacts DEF Held, Granted
  <2>. QED  BY <2>1, <2>2
<1>. QED  BY <1>1, HeldIsClaimed

LEMMA HandsDiffer ==
  ASSUME Invariant, OnceInv, shared, OneClaimInv,
         NEW p \in Producers, NEW q \in Producers, p # q,
         NEW s \in Hand(p), NEW t \in Hand(q)
  PROVE  s # t
<1>1. <<s, s>> \in Held(p) /\ <<t, t>> \in Held(q) /\ s \in Nat /\ t \in Nat
  BY HandIsHeld
<1>2. Apart(<<s, s>>, <<t, t>>)
  BY <1>1 DEF OnceInv
<1>. QED  BY <1>1, <1>2 DEF Apart

\* The lap of a sequence is what tells it from others of its slot.
LEMMA LapOrder ==
  ASSUME NEW a \in Int, NEW s \in Nat
  PROVE  /\ Index(s) \in Slots
         /\ BufferSize * a + Index(s) < s => a < Generation(s)
         /\ s <= BufferSize * a + Index(s) => Generation(s) <= a
         /\ a = Generation(s) => BufferSize * a + Index(s) = s
<1>. DEFINE B == BufferSize
           g == Generation(s)
<1>1. /\ B \in Nat /\ B > 0 /\ g \in Nat /\ s = B * g + Index(s)
      /\ Index(s) \in 0..(B - 1)
  BY Division, PositiveBufferSize
<1>2. Index(s) \in Slots
  BY <1>1 DEF Slots
<1>. HIDE DEF B, g
<1>3. PICK i \in Int : i = Index(s)
  BY <1>1
<1>4. B * a + i < s => a < g
  <2>. SUFFICES ASSUME g <= a  PROVE s <= B * a + i
    BY <1>1, <1>3
  <2>1. PICK d \in Nat : a = g + d
    <3>1. a - g \in Nat /\ a = g + (a - g)
      BY <1>1
    <3>. QED  BY <3>1
  <2>2. B * a = B * g + B * d /\ B * d \in Nat
    BY <1>1, <2>1
  <2>. QED  BY <1>1, <1>3, <2>2
<1>5. s <= B * a + i => g <= a
  <2>. SUFFICES ASSUME a < g  PROVE B * a + i < s
    BY <1>1, <1>3
  <2>1. PICK d \in Nat : g = a + d + 1
    <3>1. g - a - 1 \in Nat /\ g = a + (g - a - 1) + 1
      BY <1>1
    <3>. QED  BY <3>1
  <2>2. B * g = B * a + B * d + B /\ B * d \in Nat
    BY <1>1, <2>1
  <2>. QED  BY <1>1, <1>3, <2>2
<1>6. a = g => B * a + i = s
  BY <1>1, <1>3
<1>. QED  BY <1>2, <1>3, <1>4, <1>5, <1>6 DEF B, g

\* Programs without consumers to wait for make a short or a long run.
LEMMA UngatedRuns ==
  ASSUME NEW prog \in Programs("multi"), prog.share, ~prog.gate \/ prog.blind
  PROVE  prog.claims \in {ShortRun, LongRun}
<1>1. prog \in {Owned, ConcurrentPublish, BackoffBehavior,
                BenchmarkSimulation, SimpleThreading}
  BY DEF Programs
<1>2. ~Owned.share
  BY DEF Owned
<1>3. ConcurrentPublish.claims = ShortRun /\ SimpleThreading.claims = ShortRun
  BY DEF ConcurrentPublish, SimpleThreading
<1>4. BackoffBehavior.claims = LongRun
  BY DEF BackoffBehavior, ConcurrentPublish
<1>5. BenchmarkSimulation.gate = TRUE /\ BenchmarkSimulation.blind = FALSE
  BY DEF BenchmarkSimulation
<1>. QED  BY <1>1, <1>2, <1>3, <1>4, <1>5

\* How many claims threads can make.
LEMMA ClaimsAreFinite ==
  ASSUME program.claims \in Nat, NEW threads \in SUBSET Producers
  PROVE  /\ IsFiniteSet(threads) /\ Cardinality(threads) \in Nat
         /\ IsFiniteSet(ClaimsOf(threads)) /\ Cardinality(ClaimsOf(threads)) \in Nat
         /\ Cardinality(ClaimsOf(threads)) <= Cardinality(threads) * program.claims
         /\ Cardinality(threads \X (1..program.claims)) =
              Cardinality(threads) * program.claims
<1>. DEFINE all == threads \X (1..program.claims)
<1>1. IsFiniteSet(threads) /\ Cardinality(threads) \in Nat
  BY RunsAssumption, FS_Subset, FS_CardinalityType
<1>2. /\ IsFiniteSet(1..program.claims)
      /\ Cardinality(1..program.claims) = program.claims
  BY FS_Interval
<1>3. /\ IsFiniteSet(all)
      /\ Cardinality(all) = Cardinality(threads) * Cardinality(1..program.claims)
  BY <1>1, <1>2, FS_Product
<1>4. ClaimsOf(threads) \subseteq all
  BY DEF ClaimsOf
<1>5. /\ IsFiniteSet(ClaimsOf(threads))
      /\ Cardinality(ClaimsOf(threads)) <= Cardinality(all)
  <2>. HIDE DEF all
  <2>. QED  BY <1>3, <1>4, FS_Subset
<1>6. Cardinality(ClaimsOf(threads)) \in Nat
  BY <1>5, FS_CardinalityType
<1>. QED  BY <1>1, <1>2, <1>3, <1>5, <1>6

\* The others' claims are fewer than the ring has slots.
LEMMA OthersFitTheRing ==
  ASSUME Invariant, shared, NEW p \in Producers
  PROVE  /\ Cardinality(OtherClaims(p)) \in Nat
         /\ ~program.gate \/ program.blind =>
              Cardinality(OtherClaims(p)) < BufferSize
<1>. DEFINE others == Producers \ {p}
<1>1. Cardinality(others) = Cardinality(Producers) - 1
  BY RunsAssumption, FS_RemoveElement
<1>2. /\ Cardinality(OtherClaims(p)) \in Nat
      /\ Cardinality(OtherClaims(p)) <= Cardinality(others) * program.claims
  <2>1. program.claims \in Nat
    BY SharedFacts
  <2>. QED  BY <2>1, ClaimsAreFinite DEF OtherClaims
<1>3. ASSUME ~program.gate \/ program.blind
      PROVE  (Cardinality(Producers) - 1) * program.claims < BufferSize
  <2>1. program.claims \in {ShortRun, LongRun}
    BY <1>3, SharedFacts, UngatedRuns
  <2>. QED  BY <2>1, RunsAssumption
<1>4. /\ BufferSize \in Nat /\ program.claims \in Nat
      /\ Cardinality(Producers) \in Nat
  BY PositiveBufferSize, SharedFacts, RunsAssumption, FS_CardinalityType
<1>5. PICK n \in Int : n = (Cardinality(Producers) - 1) * program.claims
  BY <1>4
<1>. QED  BY <1>1, <1>2, <1>3, <1>4, <1>5

\* A thread's next claim is one that was not made before.
LEMMA ClaimIsCounted ==
  ASSUME program.claims \in Nat, todo \in [Producers -> Nat],
         NEW p \in Producers, todo[p] > 0, todo[p] <= program.claims,
         todo' = [todo EXCEPT ![p] = @ - 1], UNCHANGED program,
         NEW threads \in SUBSET Producers
  PROVE  Cardinality(ClaimsOf(threads)') =
           Cardinality(ClaimsOf(threads)) + (IF p \in threads THEN 1 ELSE 0)
<1>. DEFINE all == threads \X (1..program.claims)
            k == program.claims - todo[p] + 1
<1>1. /\ todo'[p] = todo[p] - 1
      /\ \A q \in Producers \ {p} : todo'[q] = todo[q]
      /\ k \in 1..program.claims /\ k = program.claims - todo'[p]
  OBVIOUS
<1>2. /\ ClaimsOf(threads) = {claim \in all : claim[2] <= program.claims - todo[claim[1]]}
      /\ ClaimsOf(threads)' = {claim \in all : claim[2] <= program.claims - todo'[claim[1]]}
  BY DEF ClaimsOf
<1>3. IsFiniteSet(ClaimsOf(threads)) /\ Cardinality(ClaimsOf(threads)) \in Nat
  BY ClaimsAreFinite
<1>4. CASE p \in threads
  <2>1. ASSUME NEW q \in threads, NEW j \in 1..program.claims
        PROVE  j <= program.claims - todo'[q] <=>
                 (j <= program.claims - todo[q] \/ (q = p /\ j = k))
    <3>1. CASE q = p
      BY <1>1, <3>1
    <3>2. CASE q # p
      BY <1>1, <3>2
    <3>. QED  BY <3>1, <3>2
  <2>2. <<p, k>> \notin ClaimsOf(threads) /\ <<p, k>> \in all
    BY <1>1, <1>2, <1>4
  <2>. HIDE DEF k
  <2>3. ASSUME NEW claim \in all
        PROVE  claim \in ClaimsOf(threads)' <=>
                 (claim \in ClaimsOf(threads) \/ claim = <<p, k>>)
    <3>1. PICK q \in threads, j \in 1..program.claims : claim = <<q, j>>
      OBVIOUS
    <3>2. claim \in ClaimsOf(threads)' <=> j <= program.claims - todo'[q]
      BY <1>2, <3>1
    <3>3. claim \in ClaimsOf(threads) <=> j <= program.claims - todo[q]
      BY <1>2, <3>1
    <3>4. claim = <<p, k>> <=> (q = p /\ j = k)
      BY <3>1
    <3>. QED  BY <2>1, <3>2, <3>3, <3>4
  <2>4. ClaimsOf(threads)' = ClaimsOf(threads) \cup {<<p, k>>}
    <3>1. ClaimsOf(threads) \subseteq all /\ ClaimsOf(threads)' \subseteq all
      BY <1>2
    <3>. QED  BY <2>2, <2>3, <3>1
  <2>. QED  BY <1>3, <1>4, <2>2, <2>4, FS_AddElement
<1>5. CASE p \notin threads
  <2>1. \A claim \in all : todo'[claim[1]] = todo[claim[1]]
    BY <1>1, <1>5
  <2>2. ClaimsOf(threads)' = ClaimsOf(threads)
    BY <1>2, <2>1
  <2>. QED  BY <1>3, <1>5, <2>2
<1>. QED  BY <1>4, <1>5

SharedInvariant == Invariant /\ OnceInv /\ SharedInv

\* Steps after which every thread has in its hand what it had before.
LEMMA HandsKept ==
  ASSUME SharedInvariant, shared, OneClaimInv',
         \A p \in Producers : Hand(p)' = Hand(p),
         UNCHANGED <<sequence, shared, program, gating, claimed, stamps, todo,
                     unread, joined>>
  PROVE  SharedInv'
<1>1. OneClaimInv /\ StampInv /\ ReaderInv /\ UnreadInv /\ CountInv
  BY DEF SharedInvariant, SharedInv
<1>2. /\ ClaimsOf(Producers)' = ClaimsOf(Producers)
      /\ \A p \in Producers : OtherClaims(p)' = OtherClaims(p)
  BY DEF OtherClaims, ClaimsOf
<1>3. StampInv' /\ ReaderInv' /\ UnreadInv'
  BY <1>1 DEF StampInv, ReaderInv, UnreadInv
<1>4. CountInv'
  BY <1>1, <1>2 DEF CountInv
<1>. QED  BY <1>3, <1>4 DEF SharedInv

LEMMA NextSharedStep ==
  ASSUME SharedInvariant, shared, NEW p \in Producers,
         LoadCached(p) \/ LoadGating(p) \/ EndScan(p)
  PROVE  SharedInv'
<1>1. /\ Invariant /\ OneClaimInv
      /\ kind = "multi" /\ claims \in [Producers -> SUBSET Ranges]
  BY SharedFacts DEF SharedInvariant, SharedInv
<1>2. /\ UNCHANGED <<sequence, shared, program, gating, stamps, low, high, at,
                     todo, unread, joined>>
      /\ ppc[p] \in {"cached", "scan"}
      /\ \A q \in Producers \ {p} : ppc'[q] = ppc[q] /\ claims'[q] = claims[q]
      /\ \/ ppc'[p] \in {"cached", "scan"} /\ claims'[p] = claims[p]
         \/ ppc'[p] = "idle" /\ claims'[p] = claims[p] \cup {<<low[p], high[p]>>}
      /\ claimed' = claimed
  BY <1>1, NextStep
<1>3. claims[p] = {} /\ high[p] = low[p] /\ low[p] <= claimed
  BY <1>1, <1>2 DEF OneClaimInv
<1>4. \A q \in Producers : Hand(q)' = Hand(q)
  <2>1. Hand(p) = {low[p]}
    BY <1>2 DEF Hand
  <2>2. Hand(p)' = {low[p]}
    <3>1. CASE ppc'[p] \in {"cached", "scan"}
      BY <1>2, <3>1 DEF Hand
    <3>2. CASE ppc'[p] \notin {"cached", "scan"}
      <4>1. ppc'[p] = "idle" /\ claims'[p] = {<<low[p], high[p]>>}
        BY <1>2, <1>3, <3>2
      <4>2. Hand(p)' = {range[1] : range \in {<<low[p], high[p]>>}}
        BY <4>1 DEF Hand
      <4>. QED  BY <4>2
    <3>. QED  BY <3>1, <3>2
  <2>3. \A q \in Producers \ {p} : Hand(q)' = Hand(q)
    BY <1>2 DEF Hand
  <2>. QED  BY <2>1, <2>2, <2>3
<1>5. OneClaimInv'
  BY <1>1, <1>2, <1>3 DEF OneClaimInv
<1>. QED  BY <1>2, <1>4, <1>5, HandsKept

LEMMA PublishSharedStep ==
  ASSUME SharedInvariant, shared, NEW p \in Producers, Publish(p)
  PROVE  SharedInv'
<1>1. /\ Invariant /\ OneClaimInv
      /\ kind = "multi"
      /\ ppc \in [Producers -> {"idle", "cached", "scan", "publish"}]
      /\ claims \in [Producers -> SUBSET Ranges]
      /\ low \in [Producers -> 0..MaxSequence]
      /\ high \in [Producers -> -1..MaxSequence]
      /\ at \in [Producers -> 0..(MaxSequence + 1)]
  BY SharedFacts DEF SharedInvariant, SharedInv, TypeOK
<1>2. PICK range \in claims[p] :
        /\ claims' = [claims EXCEPT ![p] = @ \ {range}]
        /\ low' = [low EXCEPT ![p] = range[1]]
        /\ high' = [high EXCEPT ![p] = range[2]]
        /\ at' = [at EXCEPT ![p] = range[1]]
        /\ ppc' = [ppc EXCEPT ![p] = "publish"]
        /\ UNCHANGED sequence
  BY <1>1 DEF Publish, GotoP
<1>3. /\ ppc[p] = "idle"
      /\ UNCHANGED <<shared, program, gating, claimed, stamps, todo, unread,
                     joined>>
  BY DEF Publish, sequencerVars
<1>4. /\ claims[p] = {range} /\ range[1] = range[2] /\ range[1] <= claimed
  <2>1. range \in Granted(p)
    BY <1>2 DEF Granted
  <2>2. range[1] = range[2] /\ range[2] <= claimed
    BY <1>1, <1>2, <2>1 DEF OneClaimInv, Invariant, RangeInv
  <2>. QED  BY <1>1, <1>2, <2>2 DEF OneClaimInv
<1>5. /\ claims'[p] = {} /\ low'[p] = range[1] /\ high'[p] = range[1]
      /\ at'[p] = range[1] /\ ppc'[p] = "publish"
      /\ \A q \in Producers \ {p} :
           /\ ppc'[q] = ppc[q] /\ claims'[q] = claims[q]
           /\ low'[q] = low[q] /\ high'[q] = high[q] /\ at'[q] = at[q]
  BY <1>1, <1>2, <1>4
<1>6. \A q \in Producers : Hand(q)' = Hand(q)
  <2>1. Hand(p) = {claim[1] : claim \in {range}}
    BY <1>3, <1>4 DEF Hand
  <2>2. Hand(p) = {range[1]}
    BY <2>1
  <2>3. Hand(p)' = {range[1]}
    BY <1>5 DEF Hand
  <2>4. \A q \in Producers \ {p} : Hand(q)' = Hand(q)
    BY <1>5 DEF Hand
  <2>. QED  BY <2>2, <2>3, <2>4
<1>7. OneClaimInv'
  BY <1>1, <1>3, <1>4, <1>5 DEF OneClaimInv
<1>. QED  BY <1>2, <1>3, <1>6, <1>7, HandsKept

LEMMA CallNextSharedStep ==
  ASSUME SharedInvariant, shared, NEW p \in Producers, NEW n \in Nat,
         CallNext(p, n)
  PROVE  SharedInv'
<1>. DEFINE new == claimed + 1
<1>1. /\ Invariant /\ OneClaimInv /\ StampInv /\ ReaderInv /\ UnreadInv
      /\ CountInv
      /\ kind = "multi" /\ claimed \in Int /\ claimed >= -1
      /\ BufferSize \in Nat /\ BufferSize > 0
      /\ ppc \in [Producers -> {"idle", "cached", "scan", "publish"}]
      /\ claims \in [Producers -> SUBSET Ranges]
      /\ low \in [Producers -> 0..MaxSequence]
      /\ high \in [Producers -> -1..MaxSequence]
      /\ \A i \in Slots : stamps[i] \in Int
      /\ program.claims \in Nat
      /\ todo \in [Producers -> Nat]
  BY SharedFacts DEF SharedInvariant, SharedInv, TypeOK
<1>2. /\ ppc[p] = "idle" /\ claims[p] = {} /\ n = 1 /\ todo[p] > 0
      /\ todo' = [todo EXCEPT ![p] = @ - 1]
      /\ low' = [low EXCEPT ![p] = new] /\ high' = [high EXCEPT ![p] = new]
      /\ claimed' = new
      /\ ppc' = [ppc EXCEPT ![p] = "cached"]
      /\ UNCHANGED <<sequence, shared, program, gating, stamps, at, claims,
                     unread, joined>>
  BY <1>1 DEF CallNext, GotoP
<1>3. /\ ppc'[p] = "cached" /\ low'[p] = new /\ high'[p] = new
      /\ todo'[p] = todo[p] - 1 /\ todo[p] - 1 \in Nat
      /\ \A q \in Producers \ {p} :
           /\ ppc'[q] = ppc[q] /\ low'[q] = low[q] /\ high'[q] = high[q]
           /\ todo'[q] = todo[q]
  BY <1>1, <1>2
<1>4. /\ Hand(p)' = {new} /\ Hand(p) = {}
      /\ \A q \in Producers \ {p} : Hand(q)' = Hand(q)
  BY <1>2, <1>3 DEF Hand
<1>5. new \in Nat /\ claimed < new
  BY <1>1
<1>6. \A q \in Producers : \A s \in Hand(q) : s \in Nat /\ s <= claimed
  BY <1>1, HandIsHeld
<1>7. OneClaimInv'
  <2>1. \A q \in Producers : low[q] \in Int
    BY <1>1
  <2>2. \A q \in Producers \ {p} : ppc[q] # "idle" => low[q] <= new
    BY <1>1, <1>5, <2>1 DEF OneClaimInv
  <2>. HIDE DEF new
  <2>3. ASSUME NEW q \in Producers, ppc'[q] # "idle"
        PROVE  claims[q] = {} /\ high'[q] = low'[q] /\ low'[q] <= new
    BY <1>1, <1>2, <1>3, <1>5, <2>2, <2>3 DEF OneClaimInv
  <2>4. ASSUME NEW q \in Producers, ppc'[q] = "publish"
        PROVE  at[q] = low'[q]
    BY <1>1, <1>3, <2>4 DEF OneClaimInv
  <2>. QED  BY <1>1, <1>2, <2>3, <2>4 DEF OneClaimInv
<1>8. StampInv'
  <2>1. \A i \in Slots : i \in Int
    BY DEF Slots
  <2>2. \A i \in Slots : BufferSize * stamps[i] + i <= claimed'
    <3>. SUFFICES ASSUME NEW i \in Slots
                  PROVE  BufferSize * stamps[i] + i <= new
      BY <1>2
    <3>1. PICK v \in Int : v = BufferSize * stamps[i] + i
      BY <1>1, <2>1
    <3>2. v <= claimed
      BY <1>1, <3>1 DEF StampInv
    <3>. QED  BY <1>1, <3>1, <3>2
  <2>3. stamps[Index(new)] < Generation(new)
    <3>1. Index(new) \in Slots
      BY <1>5, LapOrder
    <3>2. stamps[Index(new)] \in Int /\ Index(new) \in Int
      BY <1>1, <2>1, <3>1
    <3>3. PICK v \in Int : v = BufferSize * stamps[Index(new)] + Index(new)
      BY <1>1, <3>2
    <3>4. v <= claimed
      BY <1>1, <3>1, <3>3 DEF StampInv
    <3>5. v < new
      BY <1>1, <3>4
    <3>. HIDE DEF new
    <3>. QED  BY <1>5, <3>2, <3>3, <3>5, LapOrder
  <2>4. \A q \in Producers : \A s \in Hand(q)' : stamps[Index(s)] < Generation(s)
    <3>. HIDE DEF new
    <3>. QED  BY <1>1, <1>4, <2>3 DEF StampInv
  <2>5. \A s \in 0..new : \/ \E q \in Producers : s \in Hand(q)'
                          \/ stamps[Index(s)] >= Generation(s)
    <3>. SUFFICES ASSUME NEW s \in 0..new
                  PROVE  \/ \E q \in Producers : s \in Hand(q)'
                         \/ stamps[Index(s)] >= Generation(s)
      OBVIOUS
    <3>1. s = new \/ s \in 0..claimed
      BY <1>1
    <3>. HIDE DEF new
    <3>. QED  BY <1>1, <1>4, <3>1 DEF StampInv
  <2>. QED  BY <1>2, <2>2, <2>4, <2>5 DEF StampInv
<1>9. ReaderInv' /\ UnreadInv'
  <2>1. UnreadInv'
    BY <1>1, <1>2 DEF UnreadInv
  <2>2. ASSUME program.gate /\ ~program.blind, NEW c \in Consumers
        PROVE  /\ sequence[c] <= new
               /\ \A q \in Producers : \A s \in Hand(q)' : sequence[c] < s
    <3>1. /\ sequence[c] \in Int /\ sequence[c] <= claimed
          /\ \A q \in Producers : \A s \in Hand(q) : sequence[c] < s
      BY <1>1, <2>2, SharedFacts DEF ReaderInv
    <3>2. sequence[c] < new /\ sequence[c] <= new
      BY <1>1, <3>1
    <3>. HIDE DEF new
    <3>. QED  BY <1>4, <3>1, <3>2
  <2>. HIDE DEF new
  <2>. QED  BY <1>1, <1>2, <2>1, <2>2 DEF ReaderInv
<1>10. CountInv'
  <2>1. todo[p] <= program.claims /\ \A q \in Producers : todo'[q] <= program.claims
    BY <1>1, <1>3 DEF CountInv
  <2>2. claimed' + 1 = Cardinality(ClaimsOf(Producers)')
    <3>1. Cardinality(ClaimsOf(Producers)') = Cardinality(ClaimsOf(Producers)) + 1
      BY <1>1, <1>2, <2>1, ClaimIsCounted
    <3>. QED  BY <1>1, <1>2, <3>1 DEF CountInv
  <2>3. ASSUME ~program.gate \/ program.blind,
               NEW q \in Producers, NEW s \in Hand(q)'
        PROVE  new - s <= Cardinality(OtherClaims(q)')
    <3>1. Cardinality(OtherClaims(q)) \in Nat
      BY <1>1, OthersFitTheRing
    <3>2. Cardinality(OtherClaims(q)') =
            Cardinality(OtherClaims(q)) + (IF p \in Producers \ {q} THEN 1 ELSE 0)
      BY <1>1, <1>2, <2>1, ClaimIsCounted DEF OtherClaims
    <3>3. CASE q = p
      BY <1>4, <1>5, <3>1, <3>2, <3>3
    <3>4. CASE q # p
      <4>1. s \in Hand(q)
        BY <1>4, <3>4
      <4>2. s \in Nat /\ claimed - s <= Cardinality(OtherClaims(q))
        BY <1>1, <1>6, <2>3, <4>1 DEF CountInv
      <4>. QED  BY <1>1, <3>1, <3>2, <3>4, <4>2
    <3>. QED  BY <3>3, <3>4
  <2>. HIDE DEF new
  <2>. QED  BY <1>2, <2>1, <2>2, <2>3 DEF CountInv
<1>. QED  BY <1>7, <1>8, <1>9, <1>10 DEF SharedInv

\* What PublishSlot stores for a claim of one sequence is that sequence's lap.
LEMMA StoredStamp ==
  ASSUME SharedInvariant, shared, NEW p \in Producers, PublishSlot(p)
  PROVE  LET s == low[p] IN
         /\ ppc[p] = "publish" /\ s \in Nat /\ s <= claimed
         /\ Hand(p) = {s} /\ <<s, s>> \in Granted(p)
         /\ stamps' = [stamps EXCEPT ![Index(s)] = Generation(s)]
         /\ ppc' = [ppc EXCEPT ![p] = "idle"]
         /\ UNCHANGED <<sequence, shared, program, gating, claimed, claims, low,
                        high, todo, unread, joined>>
<1>. DEFINE s == low[p]
<1>1. /\ Invariant /\ OneClaimInv /\ low \in [Producers -> 0..MaxSequence]
  BY SharedFacts DEF SharedInvariant, SharedInv
<1>2. /\ ppc[p] = "publish"
      /\ stamps' = [stamps EXCEPT ![BatchSlot(s, high[p], at[p])] =
                                    BatchStamp(s, high[p], at[p])]
      /\ ppc' = [ppc EXCEPT ![p] = IF at[p] = high[p] THEN "idle" ELSE "publish"]
      /\ UNCHANGED <<sequence, shared, program, gating, claimed, claims, low,
                     high, todo, unread, joined>>
  BY DEF PublishSlot, GotoP, sequencerVars
<1>3. high[p] = s /\ at[p] = s /\ s <= claimed /\ s \in Nat
  BY <1>1, <1>2 DEF OneClaimInv
<1>4. BatchSlot(s, s, s) = Index(s) /\ BatchStamp(s, s, s) = Generation(s)
  <2>1. s \in s..s /\ s - s < BufferSize
    BY <1>3, PositiveBufferSize
  <2>. HIDE DEF s
  <2>. QED  BY <1>3, <2>1, BatchIsExact
<1>5. Hand(p) = {s} /\ <<s, s>> \in Granted(p)
  BY <1>2, <1>3 DEF Hand, Granted
<1>. QED  BY <1>2, <1>3, <1>4, <1>5

\* The claims two threads have in hand share no slot unless the one that is
\* being published is the earlier: it has room, or no consumer holds it up and
\* the other is as close as the runs are short.
LEMMA EarlierFirst ==
  ASSUME SharedInvariant, shared, NEW p \in Producers, PublishSlot(p),
         NEW q \in Producers \ {p}, NEW t \in Hand(q),
         Index(t) = Index(low[p])
  PROVE  low[p] < t
<1>. DEFINE s == low[p]
<1>1. /\ Invariant /\ OnceInv /\ OneClaimInv /\ StampInv /\ ReaderInv /\ CountInv
      /\ claimed \in Int /\ BufferSize \in Nat /\ BufferSize > 0
  BY SharedFacts DEF SharedInvariant, SharedInv
<1>2. /\ s \in Nat /\ s <= claimed /\ Hand(p) = {s} /\ <<s, s>> \in Granted(p)
  BY StoredStamp
<1>3. t \in Nat /\ t # s
  <2>1. t \in Nat
    BY <1>1, HandIsHeld
  <2>2. s \in Hand(p)
    BY <1>2
  <2>. HIDE DEF s
  <2>. QED  BY <1>1, <2>1, <2>2, HandsDiffer
<1>4. s < t + BufferSize
  <2>1. CASE program.gate /\ ~program.blind
    <3>1. PICK c : c \in Consumers
      BY TopologyAssumption
    <3>2. c \in joined /\ sequence[c] < t
      BY <1>1, <2>1, <3>1 DEF ReaderInv
    <3>3. s <= sequence[c] + BufferSize
      BY <1>1, <1>2, <3>2 DEF Invariant, NoOverrun
    <3>4. sequence[c] \in Int
      BY <1>1, <3>1, SharedFacts
    <3>. HIDE DEF s
    <3>. QED  BY <1>1, <1>2, <1>3, <3>2, <3>3, <3>4
  <2>2. CASE ~program.gate \/ program.blind
    <3>1. claimed - t <= Cardinality(OtherClaims(q))
      BY <1>1, <2>2 DEF CountInv
    <3>2. /\ Cardinality(OtherClaims(q)) \in Nat
          /\ Cardinality(OtherClaims(q)) < BufferSize
      BY <1>1, <2>2, OthersFitTheRing
    <3>. HIDE DEF s
    <3>. QED  BY <1>1, <1>2, <1>3, <3>1, <3>2
  <2>. QED  BY <2>1, <2>2
<1>. HIDE DEF s
<1>5. ~(t < s)
  BY <1>2, <1>3, <1>4, DistinctSlots DEF s
<1>6. s < t
  BY <1>2, <1>3, <1>5
<1>. QED  BY <1>6 DEF s

\* Every stamp that is stored in a slot is a later one.
LEMMA StampRises ==
  ASSUME SharedInvariant, shared, NEW p \in Producers, PublishSlot(p)
  PROVE  \A i \in Slots :
           /\ stamps'[i] \in Int /\ stamps[i] <= stamps'[i]
           /\ stamps'[i] = IF i = Index(low[p]) THEN Generation(low[p])
                           ELSE stamps[i]
<1>1. /\ Invariant /\ StampInv /\ stamps \in [Slots -> Nat \cup {-1}]
      /\ \A i \in Slots : stamps[i] \in Int
  BY SharedFacts DEF SharedInvariant, SharedInv, TypeOK
<1>. DEFINE s == low[p]
<1>2. /\ s \in Nat /\ s \in Hand(p)
      /\ stamps' = [stamps EXCEPT ![Index(s)] = Generation(s)]
  BY StoredStamp
<1>. HIDE DEF s
<1>3. /\ Index(s) \in Slots /\ Generation(s) \in Nat
      /\ stamps[Index(s)] < Generation(s)
  BY <1>1, <1>2, LapOrder, Division DEF StampInv
<1>4. \A i \in Slots : stamps'[i] = IF i = Index(s) THEN Generation(s)
                                    ELSE stamps[i]
  BY <1>1, <1>2
<1>5. ASSUME NEW i \in Slots
      PROVE  stamps'[i] \in Int /\ stamps[i] <= stamps'[i]
  BY <1>1, <1>3, <1>4
<1>. QED  BY <1>4, <1>5 DEF s

LEMMA PublishSlotSharedStep ==
  ASSUME SharedInvariant, shared, NEW p \in Producers, PublishSlot(p)
  PROVE  SharedInv'
<1>. DEFINE s == low[p]
<1>1. /\ Invariant /\ OneClaimInv /\ StampInv /\ ReaderInv /\ UnreadInv
      /\ CountInv /\ claimed \in Int /\ claimed >= -1
      /\ ppc \in [Producers -> {"idle", "cached", "scan", "publish"}]
      /\ \A i \in Slots : stamps[i] \in Int
  BY SharedFacts DEF SharedInvariant, SharedInv
<1>2. /\ ppc[p] = "publish" /\ s \in Nat /\ s <= claimed /\ Hand(p) = {s}
      /\ ppc' = [ppc EXCEPT ![p] = "idle"]
      /\ UNCHANGED <<sequence, shared, program, gating, claimed, claims, low,
                     high, todo, unread, joined>>
  BY StoredStamp
<1>3. /\ ppc'[p] = "idle" /\ claims[p] = {}
      /\ \A q \in Producers \ {p} : ppc'[q] = ppc[q]
  BY <1>1, <1>2 DEF OneClaimInv
<1>4. /\ Hand(p)' = {}
      /\ \A q \in Producers \ {p} : Hand(q)' = Hand(q)
  BY <1>2, <1>3 DEF Hand
<1>5. /\ \A i \in Slots :
           /\ stamps'[i] \in Int /\ stamps[i] <= stamps'[i]
           /\ stamps'[i] = IF i = Index(s) THEN Generation(s) ELSE stamps[i]
      /\ Index(s) \in Slots /\ Generation(s) \in Nat
  <2>1. Index(s) \in Slots /\ Generation(s) \in Nat
    <3>. HIDE DEF s
    <3>. QED  BY <1>2, LapOrder, Division
  <2>. QED  BY <2>1, StampRises
<1>6. OneClaimInv'
  <2>1. \A q \in Producers \ {p} : ppc'[q] = "publish" => at'[q] = low'[q]
    <3>1. \A q \in Producers \ {p} : at'[q] = at[q]
      BY DEF PublishSlot, Invariant, TypeOK, SharedInvariant
    <3>. QED  BY <1>1, <1>2, <1>3, <3>1 DEF OneClaimInv
  <2>. QED  BY <1>1, <1>2, <1>3, <2>1 DEF OneClaimInv
<1>7. StampInv'
  <2>1. ASSUME NEW i \in Slots  PROVE BufferSize * stamps'[i] + i <= claimed
    <3>1. CASE i = Index(s)
      <4>1. BufferSize * Generation(s) + Index(s) = s
        <5>. HIDE DEF s
        <5>. QED  BY <1>2, <1>5, LapOrder
      <4>. QED  BY <1>2, <1>5, <3>1, <4>1
    <3>2. CASE i # Index(s)
      BY <1>1, <1>5, <3>2 DEF StampInv
    <3>. QED  BY <3>1, <3>2
  <2>2. ASSUME NEW q \in Producers, NEW t \in Hand(q)'
        PROVE  stamps'[Index(t)] < Generation(t)
    <3>1. q \in Producers \ {p} /\ t \in Hand(q)
      BY <1>4
    <3>2. t \in Nat
      BY <1>1, <3>1, HandIsHeld
    <3>3. Index(t) \in Slots
      BY <3>2, LapOrder
    <3>4. CASE Index(t) = Index(s)
      <4>1. s < t
        BY <3>1, <3>4, EarlierFirst
      <4>2. Generation(s) < Generation(t)
        <5>. HIDE DEF s
        <5>. QED  BY <1>2, <3>2, <3>4, <4>1, LaterGeneration
      <4>. QED  BY <1>5, <3>3, <3>4, <4>2
    <3>5. CASE Index(t) # Index(s)
      BY <1>1, <1>5, <3>1, <3>3, <3>5 DEF StampInv
    <3>. QED  BY <3>4, <3>5
  <2>3. ASSUME NEW t \in 0..claimed
        PROVE  \/ \E q \in Producers : t \in Hand(q)'
               \/ stamps'[Index(t)] >= Generation(t)
    <3>1. t \in Nat /\ Index(t) \in Slots /\ Generation(t) \in Nat
      BY LapOrder, Division
    <3>2. CASE t = s
      BY <1>5, <3>1, <3>2
    <3>3. CASE t # s
      <4>1. \/ \E q \in Producers : t \in Hand(q)
            \/ stamps[Index(t)] >= Generation(t)
        BY <1>1 DEF StampInv
      <4>2. CASE \E q \in Producers : t \in Hand(q)
        BY <1>2, <1>4, <3>3, <4>2
      <4>3. CASE stamps[Index(t)] >= Generation(t)
        <5>1. /\ stamps[Index(t)] \in Int /\ stamps'[Index(t)] \in Int
              /\ stamps[Index(t)] <= stamps'[Index(t)]
          BY <1>1, <1>5, <3>1
        <5>. QED  BY <3>1, <4>3, <5>1
      <4>. QED  BY <4>1, <4>2, <4>3
    <3>. QED  BY <3>2, <3>3
  <2>. QED  BY <1>2, <2>1, <2>2, <2>3 DEF StampInv
<1>8. ReaderInv' /\ UnreadInv'
  <2>1. ASSUME program.gate /\ ~program.blind, NEW c \in Consumers, NEW i \in Slots
        PROVE  BufferSize * stamps'[i] + i <= sequence[c] + BufferSize
    <3>1. CASE i = Index(s)
      <4>1. BufferSize * Generation(s) + Index(s) = s
        <5>. HIDE DEF s
        <5>. QED  BY <1>2, <1>5, LapOrder
      <4>2. c \in joined /\ <<s, s>> \in Granted(p)
        BY <1>1, <2>1, StoredStamp DEF ReaderInv
      <4>3. s <= sequence[c] + BufferSize
        BY <1>1, <4>2 DEF Invariant, NoOverrun
      <4>. QED  BY <1>5, <3>1, <4>1, <4>3
    <3>2. CASE i # Index(s)
      BY <1>1, <1>5, <2>1, <3>2 DEF ReaderInv
    <3>. QED  BY <3>1, <3>2
  <2>2. UnreadInv'
    BY <1>1, <1>2 DEF UnreadInv
  <2>. QED  BY <1>1, <1>2, <1>4, <2>1, <2>2 DEF ReaderInv
<1>9. CountInv'
  <2>1. /\ ClaimsOf(Producers)' = ClaimsOf(Producers)
        /\ \A q \in Producers : OtherClaims(q)' = OtherClaims(q)
    BY <1>2 DEF OtherClaims, ClaimsOf
  <2>. QED  BY <1>1, <1>2, <1>4, <2>1 DEF CountInv
<1>. QED  BY <1>6, <1>7, <1>8, <1>9 DEF SharedInv

\* A reader that waits sees only what is stamped, of the lap it expects: it
\* passes no claim in hand.
LEMMA ReadBatchSharedStep ==
  ASSUME SharedInvariant, shared, NEW c \in Consumers, ReadBatch(c)
  PROVE  SharedInv'
<1>. DEFINE r == Readable(c)
            from == sequence[c] + 1
<1>1. /\ Invariant /\ OneClaimInv /\ StampInv /\ ReaderInv /\ UnreadInv
      /\ CountInv /\ kind = "multi" /\ claimed \in Int
      /\ BufferSize \in Nat /\ BufferSize > 0
      /\ program.read \in Nat /\ unread \in [Consumers -> Nat]
      /\ \A d \in Consumers : sequence[d] \in Int /\ sequence[d] >= -1
      /\ \A i \in Slots : stamps[i] \in Int
      /\ TypeOK
  BY SharedFacts, ProgramType DEF SharedInvariant, SharedInv
<1>2. /\ sequence' = [sequence EXCEPT ![c] = r] /\ r > sequence[c]
      /\ unread[c] > 0
      /\ unread' = [unread EXCEPT ![c] =
           IF r - sequence[c] < unread[c] THEN unread[c] - (r - sequence[c])
           ELSE 0]
      /\ UNCHANGED <<shared, program, gating, claimed, stamps, ppc, low, high,
                     at, claims, todo, joined>>
  BY DEF ReadBatch, SetSequence, sequencerVars, rangeVars
<1>3. r = HighestPublished(stamps, from, from + ScanLimit)
  BY <1>1 DEF Readable
<1>4. from \in Nat /\ from + ScanLimit \in Int
  BY <1>1, UseAssumption
<1>5. PICK end \in Int : end = r /\ \A s \in from..end : IsAvailable(stamps, s)
  <2>. HIDE DEF r, from
  <2>. QED  BY <1>3, <1>4, HighestPublishedIsExact
<1>6. end \in from..end /\ end \in Nat
  BY <1>1, <1>2, <1>4, <1>5
<1>7. end <= claimed
  <2>1. stamps[Index(end)] = Generation(end)
    BY <1>5, <1>6 DEF IsAvailable
  <2>2. Index(end) \in Slots /\ stamps[Index(end)] \in Int
    BY <1>1, <1>6, LapOrder
  <2>3. BufferSize * stamps[Index(end)] + Index(end) <= claimed
    BY <1>1, <2>2 DEF StampInv
  <2>. QED  BY <1>6, <2>1, <2>2, <2>3, LapOrder
<1>8. \A q \in Producers : Hand(q)' = Hand(q)
  BY <1>2 DEF Hand
<1>9. ASSUME NEW q \in Producers, NEW s \in Hand(q), sequence[c] < s
      PROVE  end < s
  <2>1. s \in Nat /\ Index(s) \in Slots
    BY <1>1, HandIsHeld, LapOrder
  <2>2. stamps[Index(s)] < Generation(s) /\ Generation(s) \in Nat
    BY <1>1, <2>1, Division DEF StampInv
  <2>3. ~IsAvailable(stamps, s)
    BY <2>2 DEF IsAvailable
  <2>4. s \notin from..end
    BY <1>5, <2>3
  <2>. QED  BY <1>1, <1>9, <2>1, <2>4
<1>10. OneClaimInv' /\ StampInv'
  BY <1>1, <1>2, <1>8 DEF OneClaimInv, StampInv
<1>11. \A d \in Consumers : sequence'[d] = IF d = c THEN end ELSE sequence[d]
  BY <1>1, <1>2, <1>5, WiringType DEF TypeOK
<1>12. ReaderInv'
  <2>1. ASSUME program.gate /\ ~program.blind, NEW i \in Slots
        PROVE  BufferSize * stamps[i] + i <= end + BufferSize
    <3>1. /\ BufferSize * stamps[i] + i <= sequence[c] + BufferSize
          /\ BufferSize * stamps[i] + i \in Int
      <4>1. i \in Int /\ stamps[i] \in Int
        BY <1>1 DEF Slots
      <4>. QED  BY <1>1, <2>1, <4>1 DEF ReaderInv
    <3>2. PICK v \in Int : v = BufferSize * stamps[i] + i
      BY <3>1
    <3>. QED  BY <1>1, <1>2, <1>5, <3>1, <3>2
  <2>. QED  BY <1>11, <1>1, <1>2, <1>7, <1>8, <1>9, <2>1 DEF ReaderInv
<1>13. UnreadInv'
  <2>. HIDE DEF r
  <2>1. sequence[c] + 1 + unread[c] = program.read
    BY <1>1, <1>2 DEF UnreadInv
  <2>2. /\ unread'[c] = IF end - sequence[c] < unread[c]
                          THEN unread[c] - (end - sequence[c]) ELSE 0
        /\ \A d \in Consumers \ {c} : unread'[d] = unread[d]
    BY <1>1, <1>2, <1>5
  <2>3. IF unread'[c] > 0 THEN end + 1 + unread'[c] = program.read
                          ELSE program.read <= end + 1
    BY <1>1, <1>2, <1>5, <2>1, <2>2
  <2>. QED  BY <1>11, <1>1, <1>2, <2>2, <2>3 DEF UnreadInv
<1>14. CountInv'
  <2>1. /\ ClaimsOf(Producers)' = ClaimsOf(Producers)
        /\ \A q \in Producers : OtherClaims(q)' = OtherClaims(q)
    BY <1>2 DEF OtherClaims, ClaimsOf
  <2>. QED  BY <1>1, <1>2, <1>8, <2>1 DEF CountInv
<1>. QED  BY <1>10, <1>12, <1>14, <1>13 DEF SharedInv

LEMMA CountOnSharedStep ==
  ASSUME SharedInvariant, shared, NEW c \in Consumers, CountOn(c)
  PROVE  SharedInv'
<1>1. /\ TypeOK /\ OneClaimInv /\ StampInv /\ UnreadInv /\ CountInv
      /\ \A d \in Consumers : sequence[d] \in Int
      /\ unread \in [Consumers -> Nat]
  BY SharedFacts DEF SharedInvariant, SharedInv
<1>2. /\ program.blind /\ unread[c] > 0
      /\ sequence' = [sequence EXCEPT ![c] = sequence[c] + 1]
      /\ unread' = [unread EXCEPT ![c] = @ - 1]
      /\ UNCHANGED <<shared, program, gating, claimed, stamps, ppc, low, high,
                     at, claims, todo, joined>>
  BY DEF CountOn, SetSequence, sequencerVars, rangeVars
<1>3. /\ ClaimsOf(Producers)' = ClaimsOf(Producers)
      /\ \A q \in Producers :
           Hand(q)' = Hand(q) /\ OtherClaims(q)' = OtherClaims(q)
  BY <1>2 DEF Hand, OtherClaims, ClaimsOf
<1>4. UnreadInv'
  <2>1. /\ sequence'[c] = sequence[c] + 1 /\ unread'[c] = unread[c] - 1
        /\ \A d \in Consumers \ {c} :
             sequence'[d] = sequence[d] /\ unread'[d] = unread[d]
    BY <1>1, <1>2, WiringType DEF TypeOK
  <2>2. sequence[c] + 1 + unread[c] = program.read
    BY <1>1, <1>2 DEF UnreadInv
  <2>3. IF unread'[c] > 0 THEN sequence'[c] + 1 + unread'[c] = program.read
                          ELSE program.read <= sequence'[c] + 1
    BY <1>1, <1>2, <2>1, <2>2
  <2>. QED  BY <1>1, <1>2, <2>1, <2>3 DEF UnreadInv
<1>5. OneClaimInv' /\ StampInv' /\ ReaderInv' /\ CountInv'
  BY <1>1, <1>2, <1>3 DEF OneClaimInv, StampInv, ReaderInv, CountInv
<1>. QED  BY <1>4, <1>5 DEF SharedInv

LEMMA SharedStep == SharedInvariant /\ [Next]_vars => SharedInv'
<1>. SUFFICES ASSUME SharedInvariant, [Next]_vars, shared'  PROVE SharedInv'
  BY DEF SharedInv
<1>1. ASSUME NEW c \in Consumers, AddGatingSequence(c) \/ RemoveGatingSequence(c)
      PROVE  SharedInv'
  BY <1>1 DEF AddGatingSequence, RemoveGatingSequence, Owns
<1>2. ASSUME NEW n \in BatchSizes, CallNext(Owner, n)  PROVE SharedInv'
  <2>1. shared /\ n \in Nat
    BY <1>2, UseAssumption DEF CallNext
  <2>. QED  BY <1>2, <2>1, CallNextSharedStep, UseAssumption
<1>3. ASSUME NEW p \in Producers, Publish(p)  PROVE SharedInv'
  <2>1. shared
    BY <1>3 DEF Publish
  <2>. QED  BY <1>3, <2>1, PublishSharedStep
<1>4. ASSUME NEW p \in Producers, Thread(p)  PROVE SharedInv'
  <2>1. shared
    BY <1>4
       DEF Thread, CallNext, LoadCached, LoadGating, EndScan, Publish,
           PublishSlot
  <2>. QED
    BY <1>4, <2>1, CallNextSharedStep, NextSharedStep, PublishSharedStep,
       PublishSlotSharedStep DEF Thread
<1>5. ASSUME NEW c \in Consumers, Reader(c)  PROVE SharedInv'
  BY <1>5, ReadBatchSharedStep, CountOnSharedStep
     DEF Reader, Consume, ReadBatch, CountOn
<1>6. CASE UNCHANGED vars
  <2>1. /\ shared /\ OneClaimInv
        /\ UNCHANGED <<sequence, shared, program, gating, claimed, stamps, todo,
                       unread, joined, ppc, low, high, at, claims>>
    BY <1>6 DEF vars, rangeVars, sequencerVars, SharedInvariant, SharedInv
  <2>2. OneClaimInv' /\ \A p \in Producers : Hand(p)' = Hand(p)
    BY <2>1 DEF OneClaimInv, Hand
  <2>. QED  BY <2>1, <2>2, HandsKept
<1>. QED  BY <1>1, <1>2, <1>3, <1>4, <1>5, <1>6, UseAssumption DEF Next, Done

LEMMA SharedInitial == Init => SharedInv
<1>. SUFFICES ASSUME Init  PROVE SharedInv
  OBVIOUS
<1>1. /\ \A p \in Producers : ppc[p] = "idle" /\ claims[p] = {}
      /\ claimed = -1 /\ stamps = InitStamps
      /\ shared = program.share
      /\ gating = (IF program.gate THEN Consumers ELSE {}) /\ joined = gating
      /\ todo = [p \in Producers |->
                   IF shared \/ p = Owner THEN program.claims ELSE 0]
      /\ unread = [c \in Consumers |-> program.read]
  BY DEF Init
<1>2. \A c \in Consumers : sequence[c] = -1
  BY WiringType DEF Init, InitSequences
<1>3. \A p \in Producers : Hand(p) = {}
  BY <1>1 DEF Hand
<1>4. OneClaimInv
  BY <1>1 DEF OneClaimInv
<1>5. StampInv
  <2>1. ASSUME NEW i \in Slots  PROVE BufferSize * stamps[i] + i <= claimed
    BY <1>1, PositiveBufferSize DEF InitStamps, Slots
  <2>. QED  BY <1>1, <1>3, <2>1 DEF StampInv
<1>6. program.claims \in Nat /\ program.read \in Nat
  <2>1. kind \in {"single", "multi"} /\ program \in Programs(kind)
    BY DEF Init
  <2>. QED  BY <2>1, ProgramType
<1>7. ReaderInv /\ UnreadInv
  <2>1. ASSUME NEW i \in Slots
        PROVE  BufferSize * stamps[i] + i <= -1 + BufferSize
    BY <1>1, PositiveBufferSize DEF InitStamps, Slots
  <2>2. UnreadInv
    BY <1>6, <1>1, <1>2 DEF UnreadInv
  <2>. QED  BY <1>1, <1>2, <1>3, <2>1, <2>2 DEF ReaderInv
<1>8. ASSUME shared  PROVE CountInv
  <2>1. \A p \in Producers : todo[p] = program.claims
    BY <1>1, <1>8
  <2>2. ClaimsOf(Producers) = {}
    BY <1>6, <2>1 DEF ClaimsOf
  <2>3. Cardinality(ClaimsOf(Producers)) = 0
    BY <2>2, FS_EmptySet
  <2>. QED  BY <1>6, <1>1, <1>3, <2>1, <2>3 DEF CountInv
<1>. QED  BY <1>4, <1>5, <1>7, <1>8 DEF SharedInv

LEMMA SharedHolds == Spec => []SharedInvariant
<1>1. Init => SharedInvariant
  BY InvariantInitial, OnceInitial, SharedInitial DEF SharedInvariant
<1>2. SharedInvariant /\ [Next]_vars => SharedInvariant'
  BY InvariantStep, OnceStep, SharedStep DEF SharedInvariant
<1>. QED  BY <1>1, <1>2, PTL DEF Spec

-----------------------------------------------------------------------------
(* Nobody is stuck. *)

\* What a program leaves unread fits into the ring.
LEMMA ReadsLeaveARing ==
  ASSUME NEW prog \in Programs("multi"), prog.share
  PROVE  /\ ~prog.gate => prog.read = 0
         /\ prog.gate =>
              Cardinality(Producers) * prog.claims <= prog.read + BufferSize
         /\ prog.gate /\ ~prog.blind =>
              prog.read + BufferSize = Cardinality(Producers) * prog.claims
<1>. DEFINE n == Cardinality(Producers)
<1>1. /\ n \in Nat /\ BufferSize \in Nat
      /\ ShortRun \in Nat /\ LongRun \in Nat /\ GatedRun \in Nat
  BY RunsAssumption, UseAssumption, FS_CardinalityType, PositiveBufferSize
<1>2. prog \in {ConcurrentPublish, BackoffBehavior, BenchmarkSimulation,
                SimpleThreading}
  <2>1. ~Owned.share
    BY DEF Owned
  <2>. QED  BY <2>1 DEF Programs
<1>3. CASE prog \in {ConcurrentPublish, BackoffBehavior}
  <2>1. prog.gate = FALSE /\ prog.read = 0
    BY <1>3 DEF ConcurrentPublish, BackoffBehavior
  <2>. QED  BY <2>1
<1>4. CASE prog = BenchmarkSimulation
  <2>1. /\ prog.gate = TRUE /\ prog.claims = GatedRun
        /\ prog.read = GatedRun * n - BufferSize
    BY <1>4 DEF BenchmarkSimulation
  <2>. HIDE DEF n
  <2>2. PICK total \in Int : total = GatedRun * n
    BY <1>1
  <2>3. n * prog.claims = total
    BY <1>1, <2>1, <2>2
  <2>. QED  BY <1>1, <2>1, <2>2, <2>3 DEF n
<1>5. CASE prog = SimpleThreading
  <2>1. /\ prog.gate = TRUE /\ prog.blind = TRUE /\ prog.claims = ShortRun
        /\ prog.read = ShortRun
    BY <1>5 DEF SimpleThreading
  <2>2. (n - 1) * ShortRun < BufferSize
    BY RunsAssumption
  <2>. HIDE DEF n
  <2>3. PICK total \in Int : total = n * ShortRun
    BY <1>1
  <2>4. (n - 1) * ShortRun = total - ShortRun
    BY <1>1, <2>3
  <2>. QED  BY <1>1, <2>1, <2>2, <2>3, <2>4 DEF n
<1>. QED  BY <1>2, <1>3, <1>4, <1>5

\* All claims are made within the programs, and all of them when none is left.
LEMMA ClaimsInTotal ==
  ASSUME SharedInvariant, shared
  PROVE  /\ claimed + 1 <= Cardinality(Producers) * program.claims
         /\ (\A p \in Producers : todo[p] = 0) =>
              claimed + 1 = Cardinality(Producers) * program.claims
<1>1. /\ program.claims \in Nat /\ CountInv
  BY SharedFacts DEF SharedInvariant, SharedInv
<1>2. claimed + 1 = Cardinality(ClaimsOf(Producers))
  BY <1>1 DEF CountInv
<1>3. /\ Cardinality(ClaimsOf(Producers)) <= Cardinality(Producers) * program.claims
      /\ Cardinality(Producers \X (1..program.claims)) =
           Cardinality(Producers) * program.claims
  BY <1>1, ClaimsAreFinite
<1>4. ASSUME \A p \in Producers : todo[p] = 0
      PROVE  ClaimsOf(Producers) = Producers \X (1..program.claims)
  BY <1>1, <1>4 DEF ClaimsOf
<1>. QED  BY <1>2, <1>3, <1>4

\* A thread that waits for room waits for a consumer that has still to read.
LEMMA RoomBehindTheDone ==
  ASSUME SharedInvariant, shared, program.gate,
         NEW p \in Producers, ppc[p] # "idle",
         NEW c \in Consumers, unread[c] = 0
  PROVE  HasRoom(p, sequence[c])
<1>1. /\ OneClaimInv /\ UnreadInv /\ claimed \in Int
      /\ BufferSize \in Nat /\ sequence[c] \in Int
      /\ program.claims \in Nat /\ program.read \in Nat
      /\ program \in Programs("multi") /\ program.share
      /\ low[p] \in Int /\ high[p] \in Int
  <2>1. program.read \in Nat
    BY SharedFacts, ProgramType DEF SharedInvariant
  <2>. QED  BY <2>1, SharedFacts, Numbers DEF SharedInvariant, SharedInv
<1>2. high[p] <= claimed
  BY <1>1 DEF OneClaimInv
<1>3. PICK total \in Int : total = Cardinality(Producers) * program.claims
  BY <1>1, RunsAssumption, FS_CardinalityType
<1>4. claimed + 1 <= total /\ total <= program.read + BufferSize
  BY <1>1, <1>3, ClaimsInTotal, ReadsLeaveARing
<1>5. program.read <= sequence[c] + 1
  BY <1>1 DEF UnreadInv
<1>. QED  BY <1>1, <1>2, <1>4, <1>5 DEF HasRoom

LEMMA NothingBetween ==
  \A a \in Int, g \in Nat : a >= g /\ a - 1 < g => a = g
OBVIOUS

\* A stamp that is not old and not a lap ahead is the one that is looked for.
LEMMA ExactLap ==
  ASSUME NEW a \in Int, NEW s \in Nat, a >= Generation(s),
         BufferSize * a + Index(s) < s + BufferSize
  PROVE  a = Generation(s)
<1>1. BufferSize \in Nat /\ Generation(s) \in Nat /\ Index(s) \in Int
  BY Division, PositiveBufferSize
<1>2. BufferSize * (a - 1) + Index(s) < s
  <2>1. BufferSize * (a - 1) = BufferSize * a - BufferSize
    BY <1>1
  <2>2. PICK v \in Int : v = BufferSize * a
    BY <1>1
  <2>. QED  BY <1>1, <2>1, <2>2
<1>3. a - 1 < Generation(s)
  <2>1. a - 1 \in Int
    OBVIOUS
  <2>. QED  BY <1>2, <2>1, LapOrder
<1>. QED  BY <1>1, <1>3, NothingBetween

\* Among consumers that have still to read one is behind all the others.
LEMMA SlowestReader ==
  ASSUME NEW readers \in SUBSET Consumers, readers # {},
         \A c \in readers : sequence[c] \in Int /\ sequence[c] >= -1
  PROVE  \E c \in readers : \A d \in readers : sequence[c] <= sequence[d]
<1>. DEFINE next == {sequence[c] + 1 : c \in readers}
<1>1. next \in SUBSET Nat /\ next # {}
  <2>1. \A c \in readers : sequence[c] + 1 \in Nat
    OBVIOUS
  <2>2. PICK c \in readers : TRUE
    OBVIOUS
  <2>3. sequence[c] + 1 \in next
    OBVIOUS
  <2>. QED  BY <2>1, <2>3
<1>2. Min(next) \in next /\ \A k \in next : Min(next) <= k
  <2>. HIDE DEF next
  <2>. QED  BY <1>1, SmallestElement
<1>3. PICK c \in readers : Min(next) = sequence[c] + 1
  BY <1>2
<1>4. ASSUME NEW d \in readers  PROVE sequence[c] <= sequence[d]
  <2>1. sequence[d] + 1 \in next
    OBVIOUS
  <2>2. Min(next) <= sequence[d] + 1
    BY <1>2, <2>1
  <2>3. sequence[c] + 1 <= sequence[d] + 1
    BY <1>3, <2>2
  <2>. HIDE DEF next
  <2>. QED  BY <2>3
<1>. QED  BY <1>4

\* When no thread can go on, the slowest consumer that waits for an event is
\* behind none in anybody's hand: it can read it.
LEMMA SomebodyReads ==
  ASSUME SharedInvariant, shared, program.gate, ~program.blind,
         \A p \in Producers : ~CanGoOn(p),
         \E c \in Consumers : unread[c] > 0
  PROVE  \E c \in Consumers : CanRead(c)
<1>. DEFINE readers == {c \in Consumers : unread[c] > 0}
<1>1. /\ Invariant /\ OneClaimInv /\ StampInv /\ ReaderInv /\ UnreadInv
      /\ CountInv /\ claimed \in Int
      /\ BufferSize \in Nat /\ BufferSize > 0
      /\ ppc \in [Producers -> {"idle", "cached", "scan", "publish"}]
      /\ unread \in [Consumers -> Nat] /\ todo \in [Producers -> Nat]
      /\ \A c \in Consumers : sequence[c] \in Int /\ sequence[c] >= -1
      /\ \A i \in Slots : stamps[i] \in Int
      /\ program \in Programs("multi") /\ program.share
      /\ program.claims \in Nat
      /\ \A p \in Producers : low[p] \in Int /\ high[p] \in Int
  BY SharedFacts, Numbers DEF SharedInvariant, SharedInv
<1>2. PICK c \in readers : \A d \in readers : sequence[c] <= sequence[d]
  BY <1>1, SlowestReader
<1>. DEFINE s == sequence[c] + 1
<1>3. c \in Consumers /\ unread[c] > 0 /\ s \in Nat
  BY <1>1, <1>2
<1>4. ASSUME NEW p \in Producers, ppc[p] # "idle"
      PROVE  /\ low[p] = high[p] /\ low[p] <= claimed
             /\ sequence[c] + BufferSize < low[p]
  <2>1. /\ low[p] = high[p] /\ low[p] <= claimed
    BY <1>1, <1>4 DEF OneClaimInv
  <2>2. PICK d \in Consumers : ~HasRoom(p, sequence[d])
    <3>1. gating = Consumers
      BY <1>1 DEF UnreadInv
    <3>. QED  BY <1>1, <1>4, <3>1 DEF CanGoOn
  <2>3. unread[d] # 0
    BY <1>4, <2>2, RoomBehindTheDone
  <2>4. sequence[c] <= sequence[d]
    BY <1>1, <1>2, <2>3
  <2>. QED  BY <1>1, <1>3, <2>1, <2>2, <2>4 DEF HasRoom
<1>5. \A p \in Producers : ppc[p] = "idle" => claims[p] = {} /\ todo[p] = 0
  BY <1>1 DEF CanGoOn
<1>6. s <= claimed
  <2>1. CASE \E p \in Producers : ppc[p] # "idle"
    BY <1>1, <1>3, <1>4, <2>1
  <2>2. CASE \A p \in Producers : ppc[p] = "idle"
    <3>1. PICK total \in Int : total = Cardinality(Producers) * program.claims
      BY <1>1, RunsAssumption, FS_CardinalityType
    <3>2. claimed + 1 = total
      BY <1>5, <2>2, <3>1, ClaimsInTotal
    <3>3. program.read + BufferSize = total /\ program.read \in Nat
      BY <1>1, <3>1, ReadsLeaveARing, ProgramType
    <3>4. s + unread[c] = program.read
      BY <1>1, <1>3 DEF UnreadInv
    <3>5. unread[c] \in Nat
      BY <1>1, <1>3
    <3>. HIDE DEF s
    <3>. QED  BY <1>1, <1>3, <3>2, <3>3, <3>4, <3>5
  <2>. QED  BY <2>1, <2>2
<1>7. \A p \in Producers : s \notin Hand(p)
  <2>. SUFFICES ASSUME NEW p \in Producers, s \in Hand(p)  PROVE FALSE
    OBVIOUS
  <2>1. ppc[p] # "idle"
    BY <1>5 DEF Hand
  <2>2. s = low[p]
    BY <2>1 DEF Hand
  <2>. QED  BY <1>1, <1>3, <1>4, <2>1, <2>2
<1>8. IsAvailable(stamps, s)
  <2>1. s \in 0..claimed
    BY <1>1, <1>3, <1>6
  <2>2. sequence[c] + BufferSize < s + BufferSize
    BY <1>1, <1>3
  <2>3. Index(s) \in Slots
    <3>. HIDE DEF s
    <3>. QED  BY <1>3, LapOrder
  <2>4. /\ stamps[Index(s)] >= Generation(s) /\ stamps[Index(s)] \in Int
        /\ BufferSize * stamps[Index(s)] + Index(s) <= sequence[c] + BufferSize
    BY <1>1, <1>3, <1>7, <2>1, <2>3 DEF StampInv, ReaderInv
  <2>5. Index(s) \in Int
    BY <2>3 DEF Slots
  <2>. HIDE DEF s
  <2>6. PICK v \in Int : v = BufferSize * stamps[Index(s)] + Index(s)
    BY <1>1, <2>4, <2>5
  <2>7. v < s + BufferSize
    BY <1>1, <1>3, <2>2, <2>4, <2>6
  <2>8. stamps[Index(s)] = Generation(s)
    BY <1>3, <2>4, <2>6, <2>7, ExactLap
  <2>. QED  BY <2>8 DEF IsAvailable
<1>. QED  BY <1>3, <1>8 DEF CanRead

-----------------------------------------------------------------------------
(* The theorems. *)

\* Type correctness, whatever the owner claims, adds and removes.
THEOREM TypeCorrect == Spec => []TypeOK
<1>1. Invariant => TypeOK
  BY DEF Invariant
<1>. QED  BY <1>1, InvariantHolds, PTL

\* next() never grants a sequence that is a lap ahead of a gating sequence
\* which came in good order.
THEOREM NeverOverrun == Spec => []NoOverrun
<1>1. Invariant => NoOverrun
  BY DEF Invariant
<1>. QED  BY <1>1, InvariantHolds, PTL

\* cached_value of a single-producer sequencer is of no danger to a gating
\* sequence that is added at the last claim.
THEOREM LateJoin == Spec => []LateJoinIsSafe
<1>1. Invariant => LateJoinIsSafe
  BY DEF Invariant, OwnerInv, LateJoinIsSafe
<1>. QED  BY <1>1, InvariantHolds, PTL

\* The ranges that next() has given out and that are held at a time are apart,
\* whether one thread holds them or two.
THEOREM NoSequenceTwice == Spec => []ClaimedOnce
<1>1. OnceInv => ClaimedOnce
  BY DEF OnceInv, ClaimedOnce, Held, Apart
<1>2. Invariant /\ OnceInv /\ [Next]_vars => OnceInv'
  BY OnceStep
<1>. QED  BY <1>1, <1>2, OnceInitial, InvariantHolds, PTL DEF Spec

\* No thread stores the stamp of an earlier lap over that of a later one, gated
\* or not: the other side of the bound that NoOverrun puts on a claim, and for
\* the tests that gate nothing a matter of how many claims they make.
THEOREM StampsNeverFall == Spec => StampsOnlyRise
<1>1. SharedInvariant /\ [Next]_vars =>
        (shared => \A i \in Slots : stamps'[i] >= stamps[i])
  <2>. SUFFICES ASSUME SharedInvariant, [Next]_vars, shared, NEW i \in Slots
                PROVE  stamps'[i] >= stamps[i]
    OBVIOUS
  <2>1. stamps[i] \in Int
    BY SharedFacts DEF SharedInvariant
  <2>2. ASSUME NEW p \in Producers, PublishSlot(p)
        PROVE  stamps'[i] >= stamps[i]
    BY <2>1, <2>2, StampRises
  <2>3. ASSUME UNCHANGED stamps  PROVE stamps'[i] >= stamps[i]
    BY <2>1, <2>3
  <2>4. ASSUME NEW c \in Consumers,
               AddGatingSequence(c) \/ RemoveGatingSequence(c) \/ Reader(c)
        PROVE  stamps'[i] >= stamps[i]
    BY <2>3, <2>4
       DEF AddGatingSequence, RemoveGatingSequence, Reader, Consume, ReadBatch,
           CountOn
  <2>5. ASSUME NEW p \in Producers, NEW n, CallNext(p, n)
        PROVE  stamps'[i] >= stamps[i]
    BY <2>3, <2>5 DEF CallNext
  <2>6. ASSUME NEW p \in Producers,
               LoadCached(p) \/ LoadGating(p) \/ EndScan(p) \/ Publish(p)
        PROVE  stamps'[i] >= stamps[i]
    BY <2>3, <2>6 DEF LoadCached, LoadGating, EndScan, Publish
  <2>7. CASE UNCHANGED vars
    BY <2>3, <2>7 DEF vars
  <2>. QED
    BY <2>2, <2>4, <2>5, <2>6, <2>7, UseAssumption DEF Next, Thread, Done
<1>. QED  BY <1>1, SharedHolds, PTL DEF Spec, StampsOnlyRise

\* When all threads of a shared program are done, the last lap of what they
\* claimed is available without a gap.
THEOREM LastLapIsPublished == Spec => []LastLapPublished
<1>1. SharedInvariant => LastLapPublished
  <2>. SUFFICES ASSUME SharedInvariant, shared, Finished,
                       NEW s \in 0..claimed, s > claimed - BufferSize
                PROVE  IsAvailable(stamps, s)
    BY DEF LastLapPublished
  <2>1. /\ StampInv /\ claimed \in Int /\ BufferSize \in Nat /\ BufferSize > 0
        /\ \A i \in Slots : stamps[i] \in Int
    BY SharedFacts DEF SharedInvariant, SharedInv
  <2>2. \A p \in Producers : Hand(p) = {}
    BY DEF Finished, Hand
  <2>3. s \in Nat /\ Index(s) \in Slots /\ Index(s) \in Int
    BY LapOrder DEF Slots
  <2>4. PICK a \in Int : a = stamps[Index(s)]
    BY <2>1, <2>3
  <2>5. a >= Generation(s) /\ BufferSize * a + Index(s) <= claimed
    BY <2>1, <2>2, <2>3, <2>4 DEF StampInv
  <2>6. BufferSize * a + Index(s) < s + BufferSize
    <3>1. PICK v \in Int : v = BufferSize * a
      BY <2>1, <2>4
    <3>. QED  BY <2>1, <2>3, <2>5, <3>1
  <2>7. a = Generation(s)
    BY <2>3, <2>5, <2>6, ExactLap
  <2>. QED  BY <2>4, <2>7 DEF IsAvailable
<1>. QED  BY <1>1, SharedHolds, PTL

\* The programs of the tests cannot come to a halt before their end, for any
\* number of threads and consumers and any ring they may be run on.
THEOREM NoDeadlock == Spec => []NobodyIsStuck
<1>1. SharedInvariant => NobodyIsStuck
  <2>. SUFFICES ASSUME SharedInvariant, shared,
                       \A p \in Producers : ~CanGoOn(p),
                       \A c \in Consumers : ~CanRead(c)
                PROVE  Finished /\ \A c \in Consumers : unread[c] = 0
    BY DEF NobodyIsStuck
  <2>1. /\ UnreadInv
        /\ ppc \in [Producers -> {"idle", "cached", "scan", "publish"}]
        /\ unread \in [Consumers -> Nat] /\ todo \in [Producers -> Nat]
        /\ \A c \in Consumers : sequence[c] \in Int /\ sequence[c] >= -1
        /\ program \in Programs("multi") /\ program.share
    BY SharedFacts DEF SharedInvariant, SharedInv
  <2>2. ASSUME NEW c \in Consumers  PROVE unread[c] = 0
    <3>. SUFFICES ASSUME unread[c] > 0  PROVE FALSE
      <4>1. unread[c] \in Nat
        BY <2>1
      <4>. QED  BY <4>1
    <3>1. program.gate
      <4>. SUFFICES ASSUME ~program.gate  PROVE FALSE
        OBVIOUS
      <4>1. program.read = 0
        BY <2>1, ReadsLeaveARing
      <4>2. sequence[c] + 1 + unread[c] = 0
        BY <2>1, <4>1 DEF UnreadInv
      <4>3. sequence[c] \in Int /\ sequence[c] >= -1 /\ unread[c] \in Nat
        BY <2>1
      <4>. QED  BY <4>2, <4>3
    <3>2. ~program.blind
      BY DEF CanRead
    <3>. QED  BY <3>1, <3>2, SomebodyReads
  <2>3. ASSUME NEW p \in Producers  PROVE ppc[p] = "idle"
    <3>. SUFFICES ASSUME ppc[p] # "idle"  PROVE FALSE
      OBVIOUS
    <3>1. PICK c \in gating : ~HasRoom(p, sequence[c])
      BY <2>1 DEF CanGoOn
    <3>2. program.gate /\ c \in Consumers
      BY <2>1, <3>1 DEF UnreadInv
    <3>. QED  BY <2>2, <3>1, <3>2, RoomBehindTheDone
  <2>4. \A p \in Producers : claims[p] = {} /\ todo[p] = 0
    BY <2>1, <2>3 DEF CanGoOn
  <2>. QED  BY <2>2, <2>3, <2>4 DEF Finished
<1>. QED  BY <1>1, SharedHolds, PTL
=============================================================================
