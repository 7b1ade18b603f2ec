------------------------ MODULE MultiProducerProofs -------------------------
(***************************************************************************)
(* Theorems about MultiProducer for every ring size, wiring, number of     *)
(* threads and bound.                                                      *)
(***************************************************************************)
EXTENDS MultiProducerProperties, AvailableBufferProofs, SharedSequencesProofs

\* The ranges of the numbers that the proofs compare.
LEMMA Numbers ==
  ASSUME TypeOK
  PROVE  /\ MaxSequence \in Nat /\ BufferSize \in Nat /\ BufferSize > 0
         /\ high_water_mark \in -1..MaxSequence
         /\ \A g \in GatingSequences : g \in Consumers /\ sequence[g] \in -1..MaxSequence
         /\ \A p \in Producers :
              low[p] \in Nat /\ high[p] \in -1..MaxSequence /\ at[p] \in Nat
         /\ \A i \in Slots : stamps[i] \in Int
         /\ \A s \in Nat : Index(s) \in Slots /\ Generation(s) \in Nat
BY PositiveBufferSize, MaxSequenceAssumption, WiringType, IndexIsSlot, Division
   DEF TypeOK

\* Somebody gates the producers.
LEMMA SomeGate == \E g \in Consumers : g \in GatingSequences
BY TopologyAssumption DEF GatingSequences

-----------------------------------------------------------------------------
(* What the stamps say in a state of the invariant. *)

\* A stamp of s or of a later sequence in its slot means that s was claimed.
LEMMA PublishedIsClaimed ==
  ASSUME Invariant, NEW s \in Nat, Published(s)
  PROVE  s <= high_water_mark
<1>1. Index(s) \in Slots /\ stamps[Index(s)] >= Generation(s)
      /\ Generation(s) \in Nat /\ stamps[Index(s)] \in Int
  BY Numbers DEF Invariant, Published
<1>2. PICK t \in 0..high_water_mark :
        Index(s) = Index(t) /\ stamps[Index(s)] = Generation(t)
  BY <1>1 DEF Invariant, StampInv
<1>3. high_water_mark \in Int /\ t \in Nat /\ Generation(t) \in Nat
  BY Numbers DEF Invariant
<1>4. ~(t < s)
  <2>. SUFFICES ASSUME t < s  PROVE FALSE
    OBVIOUS
  <2>1. Generation(t) < Generation(s)
    BY <1>2, <1>3, LaterGeneration
  <2>. QED  BY <1>1, <1>2, <1>3, <2>1
<1>. QED  BY <1>2, <1>3, <1>4

LEMMA AvailableIsPublished ==
  ASSUME TypeOK, NEW s \in Nat, IsAvailable(stamps, s)
  PROVE  Published(s)
BY Numbers DEF IsAvailable, Published

\* A gating processor has not passed anything unpublished.
LEMMA NotPassed ==
  ASSUME Invariant, NEW g \in GatingSequences, NEW s \in Sequences,
         ~Published(s)
  PROVE  sequence[g] < s /\ ~(s <= Reach(g))
<1>1. sequence[g] <= Reach(g) /\ (s <= Reach(g) => ~ ~Published(s))
  BY DEF Invariant, ReaderInv
<1>2. Reach(g) \in Int /\ sequence[g] \in Int /\ s \in Int
  BY Numbers, MaxSequenceAssumption, WiringType
     DEF Reach, Invariant, TypeOK, Sequences
<1>. QED  BY <1>1, <1>2

\* Two sequences that a processor has within a ring's length ahead of it.
LEMMA WithinRing ==
  ASSUME TypeOK, NEW g \in GatingSequences, NEW i \in Nat, NEW j \in Nat,
         i # j,
         sequence[g] < i, i <= sequence[g] + BufferSize,
         sequence[g] < j, j <= sequence[g] + BufferSize
  PROVE  Index(i) # Index(j)
<1>1. sequence[g] \in Int /\ BufferSize \in Int
  BY Numbers
<1>2. CASE i < j
  BY <1>1, <1>2, DistinctSlots
<1>3. CASE j < i
  BY <1>1, <1>3, DistinctSlots
<1>. QED  BY <1>2, <1>3

\* What a thread that has its room is still to stamp lies within a ring's
\* length of every gating processor.
LEMMA PendingInRing ==
  ASSUME Invariant, NEW p \in Producers, ppc[p] \in {"write", "publish"}
  PROVE  /\ at[p] \in Pending(p) /\ low[p] <= at[p] /\ at[p] <= high[p]
         /\ high[p] <= high_water_mark
         /\ \A s \in Pending(p) :
              /\ s \in Sequences /\ s \in Nat /\ ~Published(s) /\ s <= high[p]
              /\ \A g \in GatingSequences :
                   sequence[g] < s /\ s <= sequence[g] + BufferSize
<1>1. /\ low[p] <= high[p] /\ high[p] <= high_water_mark
      /\ low[p] <= at[p] /\ at[p] <= high[p]
      /\ \A g \in GatingSequences : high[p] <= sequence[g] + BufferSize
  BY DEF Invariant, ClaimInv, RoomInv
<1>2. at[p] \in Pending(p)
  BY <1>1, Numbers DEF Invariant, Pending
<1>3. ASSUME NEW s \in Pending(p)
      PROVE  s \in Sequences /\ s \in Nat /\ ~Published(s) /\ s <= high[p]
  <2>1. s \in Nat /\ s <= high[p]
    BY <1>1, Numbers DEF Invariant, Pending
  <2>2. s \in Sequences
    BY <2>1, <1>1, Numbers DEF Invariant, Sequences
  <2>. QED  BY <2>1, <2>2 DEF Invariant, StampInv
<1>4. ASSUME NEW s \in Pending(p), NEW g \in GatingSequences
      PROVE  sequence[g] < s /\ s <= sequence[g] + BufferSize
  BY <1>1, <1>3, <1>4, NotPassed, Numbers DEF Invariant
<1>. QED  BY <1>1, <1>2, <1>3, <1>4

-----------------------------------------------------------------------------
(* publish() and its stamps. *)

\* A step of set_batch stamps the sequence it has come to.
LEMMA PublishExact ==
  ASSUME Invariant, NEW p \in Producers, PublishSlot(p)
  PROVE  /\ ppc[p] = "publish" /\ at[p] \in Nat
         /\ stamps' = [stamps EXCEPT ![Index(at[p])] = Generation(at[p])]
         /\ \A s \in Nat : stamps'[Index(s)] =
              IF Index(s) = Index(at[p]) THEN Generation(at[p])
                                         ELSE stamps[Index(s)]
<1>1. ppc[p] = "publish"
  BY DEF PublishSlot
<1>2. /\ low[p] <= at[p] /\ at[p] <= high[p] /\ high[p] < low[p] + BufferSize
      /\ low[p] \in Nat /\ high[p] \in Int /\ at[p] \in Nat
      /\ BufferSize \in Int
  BY <1>1, Numbers DEF Invariant, ClaimInv, RoomInv
<1>3. /\ BatchSlot(low[p], high[p], at[p]) = Index(at[p])
      /\ BatchStamp(low[p], high[p], at[p]) = Generation(at[p])
  BY <1>2, BatchIsExact
<1>4. stamps' = [stamps EXCEPT ![Index(at[p])] = Generation(at[p])]
  BY <1>3 DEF PublishSlot
<1>. QED
  BY <1>1, <1>2, <1>4, Numbers DEF Invariant, TypeOK

\* ... which makes it available, forgets nothing published, makes nothing
\* else look published, and takes no stamp from a sequence still to be read.
LEMMA StampingIsExact ==
  ASSUME Invariant, NEW p \in Producers, PublishSlot(p)
  PROVE  /\ IsAvailable(stamps', at[p])
         /\ \A s \in Sequences : Published(s) \/ s = at[p] => Published(s)'
         /\ \A s \in Sequences : s # at[p] /\ ~Published(s) => ~Published(s)'
         /\ \A s \in Sequences :
              IsAvailable(stamps', s) => IsAvailable(stamps, s) \/ s = at[p]
         /\ \A g \in GatingSequences, s \in Sequences :
              sequence[g] < s /\ IsAvailable(stamps, s) => IsAvailable(stamps', s)
<1>. DEFINE a == at[p]
<1>1. /\ ppc[p] = "publish" /\ a \in Nat /\ a \in Sequences /\ ~Published(a)
      /\ Generation(a) \in Nat
      /\ \A g \in GatingSequences :
           sequence[g] < a /\ a <= sequence[g] + BufferSize
  BY PublishExact, PendingInRing, Numbers DEF Invariant
<1>2. \A s \in Nat : stamps'[Index(s)] =
        IF Index(s) = Index(a) THEN Generation(a) ELSE stamps[Index(s)]
  BY PublishExact
<1>3. \A s \in Nat : stamps[Index(s)] \in Int /\ Generation(s) \in Nat
  BY Numbers DEF Invariant
<1>4. Sequences \subseteq Nat /\ TypeOK
  BY MaxSequenceAssumption DEF Sequences, Invariant
<1>5. \A s \in Nat : Published(s)' <=> stamps'[Index(s)] >= Generation(s)
  BY DEF Published
<1>6. stamps[Index(a)] < Generation(a)
  BY <1>1, <1>3 DEF Published
<1>. HIDE DEF a
<1>7. IsAvailable(stamps', a)
  BY <1>1, <1>2 DEF IsAvailable
<1>8. ASSUME NEW s \in Sequences, Published(s) \/ s = a  PROVE Published(s)'
  <2>1. CASE Index(s) = Index(a)
    <3>1. stamps'[Index(s)] = Generation(a) /\ stamps[Index(s)] < Generation(a)
      BY <1>2, <1>4, <1>6, <2>1
    <3>. QED  BY <1>1, <1>3, <1>4, <1>5, <1>8, <3>1 DEF Published
  <2>2. CASE Index(s) # Index(a)
    BY <1>2, <1>4, <1>5, <1>8, <2>2 DEF Published
  <2>. QED  BY <2>1, <2>2
<1>9. ASSUME NEW s \in Sequences, s # a, ~Published(s)  PROVE ~Published(s)'
  <2>1. CASE Index(s) # Index(a)
    BY <1>2, <1>4, <1>5, <1>9, <2>1 DEF Published
  <2>2. CASE Index(s) = Index(a) /\ a < s
    <3>1. Generation(a) < Generation(s)
      BY <1>1, <1>4, <2>2, LaterGeneration
    <3>. QED  BY <1>1, <1>2, <1>3, <1>4, <1>5, <2>2, <3>1
  <2>3. CASE s < a
    <3>1. PICK g \in Consumers : g \in GatingSequences
      BY SomeGate
    <3>2. sequence[g] < s
      BY <1>9, <3>1, NotPassed
    <3>3. s <= sequence[g] + BufferSize
      BY <1>1, <1>4, <2>3, <3>1, Numbers
    <3>4. Index(s) # Index(a)
      BY <1>1, <1>4, <1>9, <3>1, <3>2, <3>3, WithinRing
    <3>. QED  BY <2>1, <3>4
  <2>. QED  BY <1>1, <1>4, <1>9, <2>1, <2>2, <2>3
<1>10. ASSUME NEW s \in Sequences, IsAvailable(stamps', s)
       PROVE  IsAvailable(stamps, s) \/ s = a
  <2>1. CASE Index(s) # Index(a)
    BY <1>2, <1>4, <1>10, <2>1 DEF IsAvailable
  <2>2. CASE Index(s) = Index(a)
    <3>1. Generation(s) = Generation(a)
      BY <1>2, <1>4, <1>10, <2>2 DEF IsAvailable
    <3>2. ~(s < a) /\ ~(a < s)
      BY <1>1, <1>3, <1>4, <2>2, <3>1, LaterGeneration
    <3>. QED  BY <1>1, <1>4, <3>2
  <2>. QED  BY <2>1, <2>2
<1>11. ASSUME NEW g \in GatingSequences, NEW s \in Sequences,
              sequence[g] < s, IsAvailable(stamps, s)
       PROVE  IsAvailable(stamps', s)
  <2>1. s # a
    BY <1>1, <1>4, <1>11, AvailableIsPublished
  <2>2. s <= sequence[g] + BufferSize
    BY <1>11 DEF Invariant, EventInv
  <2>3. Index(s) # Index(a)
    BY <1>1, <1>4, <1>11, <2>1, <2>2, WithinRing
  <2>. QED  BY <1>2, <1>4, <1>11, <2>3 DEF IsAvailable
<1>. QED  BY <1>7, <1>8, <1>9, <1>10, <1>11 DEF a

-----------------------------------------------------------------------------
(* highest_published_sequence, as drain() calls it. *)

\* All is available up to what it returns, and the next sequence is not.
LEMMA DrainTarget ==
  ASSUME TypeOK
  PROVE  LET t == HighestPublished(stamps, 0, high_water_mark)
         IN  /\ t \in -1..high_water_mark
             /\ \A s \in 0..t : IsAvailable(stamps, s)
             /\ t < high_water_mark => ~IsAvailable(stamps, t + 1)
<1>1. high_water_mark \in Int /\ high_water_mark >= -1 /\ 0 \in Nat
  BY Numbers
<1>. QED  BY <1>1, HighestPublishedIsExact

\* Contiguous is where the first unpublished sequence is, at the latest.
LEMMA ContiguousIsFirst ==
  ASSUME TypeOK, NEW n \in Sequences, n <= MaxSequence => ~Published(n)
  PROVE  Contiguous \in Sequences /\ Contiguous <= n
<1>. DEFINE gaps == {s \in Sequences : s <= MaxSequence => ~Published(s)}
<1>1. Contiguous = Min(gaps)
  BY DEF Contiguous, Sequences
<1>2. gaps \in SUBSET Nat /\ n \in gaps
  BY MaxSequenceAssumption DEF Sequences
<1>3. Min(gaps) \in gaps /\ Min(gaps) <= n
  <2>. HIDE DEF gaps
  <2>. QED  BY <1>2, SmallestElement
<1>. QED  BY <1>1, <1>3

-----------------------------------------------------------------------------
(* Types. *)

LEMMA TypeInitial == Init => TypeOK
<1>. SUFFICES ASSUME Init  PROVE TypeOK
  OBVIOUS
<1>1. sequence \in [SequenceIds -> -1..MaxSequence]
  BY MaxSequenceAssumption DEF Init, InitSequences
<1>2. /\ cpc \in [Consumers -> ConsumerStates]
      /\ pos \in [Consumers -> Nat]
      /\ available \in [Consumers -> -1..MaxSequence]
      /\ probe \in [Consumers -> 0..(MaxSequence + 1)]
  BY MaxSequenceAssumption DEF Init, InitProcessors, ConsumerStates
<1>3. slots \in [Slots -> Int] /\ stamps \in [Slots -> Int]
  BY DEF Init, InitSlots, InitStamps, DefaultEvent
<1>4. pscan \in [Producers -> Scans] /\ dscan \in Scans
  BY MinScanType, WiringType DEF Init
<1>5. /\ low \in [Producers -> Nat]
      /\ high \in [Producers -> -1..MaxSequence]
      /\ at \in [Producers -> Nat]
      /\ high_water_mark \in -1..MaxSequence
      /\ cached_value \in -1..MaxSequence
      /\ target \in -1..MaxSequence
  BY MaxSequenceAssumption DEF Init
<1>6. /\ ppc \in [Producers -> {"idle", "cached", "scan", "write", "publish"}]
      /\ owner \in {"shared", "drain", "drained", "dropped"}
      /\ is_done \in BOOLEAN
  BY DEF Init
<1>. QED  BY <1>1, <1>2, <1>3, <1>4, <1>5, <1>6 DEF TypeOK

LEMMA LoadType ==
  ASSUME TypeOK, NEW sc \in Scans, NEW s \in sc.left
  PROVE  Load(sc, s) \in Scans
BY DEF TypeOK, Load, Scans

LEMMA TypeStep == Invariant /\ [Next]_vars => TypeOK'
<1>. SUFFICES ASSUME Invariant, [Next]_vars  PROVE TypeOK'
  OBVIOUS
<1>. USE WiringType, MaxSequenceAssumption
<1>. USE DEF consumerVars, producerVars, processorVars, ringVars, claimVars,
             drainVars
<1>0. TypeOK /\ MinScan(GatingSequences) \in Scans
  <2>. GatingSequences \in SUBSET SequenceIds
    OBVIOUS
  <2>. QED  BY MinScanType DEF Invariant
<1>1. ASSUME NEW c \in Consumers, CheckAlert(c)  PROVE TypeOK'
  BY <1>0, <1>1 DEF TypeOK, CheckAlert, Shutdown, Goto, ConsumerStates
<1>2. ASSUME NEW c \in Consumers, CheckSlot(c)  PROVE TypeOK'
  <2>1. NextSequence(c) \in 0..(MaxSequence + 1)
    BY <1>0 DEF TypeOK, NextSequence
  <2>. QED  BY <1>0, <1>2, <2>1 DEF TypeOK, CheckSlot, Goto, ConsumerStates
<1>3. ASSUME NEW c \in Consumers, ExtendBatch(c)  PROVE TypeOK'
  <2>1. /\ probe[c] \in Nat /\ probe[c] <= MaxSequence + 1
        /\ NextSequence(c) \in Nat
    BY <1>0 DEF TypeOK, NextSequence
  <2>2. CASE /\ IsAvailable(stamps, probe[c])
             /\ probe' = [probe EXCEPT ![c] = @ + 1]
             /\ UNCHANGED <<sequence, processorVars, producerVars>>
    <3>1. probe[c] <= MaxSequence
      BY <1>0, <2>1, <2>2, AvailableIsPublished, PublishedIsClaimed, Numbers
    <3>. QED  BY <1>0, <2>1, <2>2, <3>1 DEF TypeOK
  <2>3. CASE /\ BeginBatch(c, probe[c] - 1)
             /\ UNCHANGED <<sequence, probe, producerVars>>
    BY <1>0, <2>1, <2>3 DEF TypeOK, BeginBatch, Goto, ConsumerStates
  <2>. QED  BY <1>3, <2>2, <2>3 DEF ExtendBatch
<1>4. ASSUME NEW c \in Consumers, Process(c) \/ Panic(c)  PROVE TypeOK'
  <2>. UNCHANGED <<probe, producerVars>>
    BY <1>4 DEF Process, Panic
  <2>. USE <1>0 DEF TypeOK, Goto, ConsumerStates
  <2>1. CASE Run(c) \/ HandlerPanics(c)
    BY <2>1 DEF Run, HandlerPanics
  <2>2. CASE HandleEvent(c)
    BY <2>2 DEF HandleEvent
  <2>3. CASE Advance(c)
    BY <2>3 DEF Advance, SetSequence
  <2>. QED  BY <1>4, <2>1, <2>2, <2>3 DEF Process, Panic
<1>5. ASSUME NEW p \in Producers, NEW n \in 1..MaxBatch, Claim(p, n)
      PROVE  TypeOK'
  BY <1>0, <1>5, ProducersAssumption DEF TypeOK, Claim, GotoP
<1>6. ASSUME NEW p \in Producers, LoadCached(p)  PROVE TypeOK'
  BY <1>0, <1>6 DEF TypeOK, LoadCached, GotoP
<1>7. ASSUME NEW p \in Producers, LoadGating(p)  PROVE TypeOK'
  <2>1. PICK s \in pscan[p].left : pscan' = [pscan EXCEPT ![p] = Load(pscan[p], s)]
    BY <1>7 DEF LoadGating
  <2>2. Load(pscan[p], s) \in Scans
    BY <1>0, LoadType DEF TypeOK
  <2>. QED  BY <1>0, <1>7, <2>1, <2>2 DEF TypeOK, LoadGating
<1>8. ASSUME NEW p \in Producers, EndGatingScan(p)  PROVE TypeOK'
  <2>1. pscan[p].low \in -1..MaxSequence
    BY <1>0 DEF TypeOK, Scans
  <2>. QED  BY <1>0, <1>8, <2>1 DEF TypeOK, EndGatingScan, GotoP
<1>9. ASSUME NEW p \in Producers, WriteSlot(p)  PROVE TypeOK'
  <2>1. slots' \in [Slots -> Int]
    BY <1>0, <1>9, Numbers DEF TypeOK, WriteSlot, Store
  <2>2. /\ at' \in [Producers -> Nat]
        /\ ppc' \in [Producers -> {"idle", "cached", "scan", "write", "publish"}]
    BY <1>0, <1>9 DEF TypeOK, WriteSlot, GotoP
  <2>. QED  BY <1>0, <1>9, <2>1, <2>2 DEF TypeOK, WriteSlot
<1>10. ASSUME NEW p \in Producers, ClosurePanics(p)  PROVE TypeOK'
  BY <1>0, <1>10 DEF TypeOK, ClosurePanics, GotoP
<1>11. ASSUME NEW p \in Producers, PublishSlot(p)  PROVE TypeOK'
  <2>1. stamps' \in [Slots -> Int]
    BY <1>0, <1>11, PublishExact, Numbers DEF TypeOK
  <2>. QED  BY <1>0, <1>11, <2>1 DEF TypeOK, PublishSlot, GotoP
<1>12. CASE BeginDrain
  <2>1. HighestPublished(stamps, 0, high_water_mark) \in -1..MaxSequence
    BY <1>0, DrainTarget, Numbers
  <2>. QED  BY <1>0, <1>12, <2>1 DEF TypeOK, BeginDrain
<1>13. CASE LoadForDrain
  BY <1>0, <1>13, LoadType DEF TypeOK, LoadForDrain
<1>14. CASE EndDrainScan
  BY <1>0, <1>14 DEF TypeOK, EndDrainScan
<1>15. CASE DropProducer
  BY <1>0, <1>15 DEF TypeOK, DropProducer
<1>16. CASE Joined \/ UNCHANGED vars
  BY <1>0, <1>16 DEF TypeOK, Joined, vars
<1>. QED
  BY <1>1, <1>2, <1>3, <1>4, <1>5, <1>6, <1>7, <1>8, <1>9, <1>10, <1>11,
     <1>12, <1>13, <1>14, <1>15, <1>16
     DEF Next, Produce, Consumer, Drain

-----------------------------------------------------------------------------
(* Which action changes what. *)

\* A processor's part of the state is changed by its own actions only.
LEMMA ReaderSteps ==
  ASSUME TypeOK, [Next]_vars, NEW c \in Consumers
  PROVE  \/ /\ \/ CheckAlert(c) \/ CheckSlot(c) \/ ExtendBatch(c)
               \/ Process(c) \/ Panic(c)
            /\ UNCHANGED ringVars
         \/ /\ cpc'[c] = cpc[c] /\ pos'[c] = pos[c] /\ probe'[c] = probe[c]
            /\ available'[c] = available[c] /\ sequence'[c] = sequence[c]
<1>. DEFINE Same ==
       /\ cpc'[c] = cpc[c] /\ pos'[c] = pos[c] /\ probe'[c] = probe[c]
       /\ available'[c] = available[c] /\ sequence'[c] = sequence[c]
<1>1. ASSUME NEW d \in Consumers, d # c, Consumer(d) \/ Panic(d)  PROVE Same
  <2>. USE WiringType DEF TypeOK, Goto
  <2>1. CASE CheckAlert(d)
    BY <1>1, <2>1 DEF CheckAlert, Shutdown
  <2>2. CASE CheckSlot(d)
    BY <1>1, <2>2 DEF CheckSlot
  <2>3. CASE ExtendBatch(d)
    BY <1>1, <2>3 DEF ExtendBatch, BeginBatch, processorVars
  <2>4. CASE Process(d)
    BY <1>1, <2>4 DEF Process, Run, HandleEvent, Advance, SetSequence
  <2>5. CASE Panic(d)
    BY <1>1, <2>5 DEF Panic, HandlerPanics
  <2>. QED  BY <1>1, <2>1, <2>2, <2>3, <2>4, <2>5 DEF Consumer
<1>2. ASSUME Consumer(c) \/ Panic(c)
      PROVE  /\ \/ CheckAlert(c) \/ CheckSlot(c) \/ ExtendBatch(c)
                \/ Process(c) \/ Panic(c)
             /\ UNCHANGED ringVars
  BY <1>2 DEF Consumer, CheckAlert, CheckSlot, ExtendBatch, Process, Panic,
              producerVars
<1>3. ASSUME NEW p \in Producers, NEW n \in 1..MaxBatch, Claim(p, n)
      PROVE  Same
  BY <1>3 DEF Claim, consumerVars, processorVars
<1>4. ASSUME NEW p \in Producers, Produce(p) \/ ClosurePanics(p)  PROVE Same
  BY <1>4 DEF Produce, LoadCached, LoadGating, EndGatingScan, WriteSlot,
              PublishSlot, ClosurePanics, consumerVars, processorVars
<1>5. CASE BeginDrain \/ Drain \/ DropProducer \/ Joined \/ UNCHANGED vars
  BY <1>5 DEF BeginDrain, Drain, LoadForDrain, EndDrainScan, DropProducer,
              Joined, vars, consumerVars, processorVars
<1>. QED  BY <1>1, <1>2, <1>3, <1>4, <1>5 DEF Next

\* A thread's claim is changed by its own actions only.
LEMMA ThreadSteps ==
  ASSUME TypeOK, [Next]_vars, NEW p \in Producers
  PROVE  \/ \E n \in 1..MaxBatch : Claim(p, n)
         \/ LoadCached(p) \/ EndGatingScan(p) \/ WriteSlot(p)
         \/ ClosurePanics(p) \/ PublishSlot(p)
         \/ /\ ppc'[p] = ppc[p] /\ at'[p] = at[p]
            /\ low'[p] = low[p] /\ high'[p] = high[p]
<1>. DEFINE Same == /\ ppc'[p] = ppc[p] /\ at'[p] = at[p]
                    /\ low'[p] = low[p] /\ high'[p] = high[p]
<1>1. ASSUME NEW q \in Producers, q # p, NEW n \in 1..MaxBatch, Claim(q, n)
      PROVE  Same
  BY <1>1 DEF Claim, GotoP, TypeOK
<1>2. ASSUME NEW q \in Producers, q # p, Produce(q) \/ ClosurePanics(q)
      PROVE  Same
  <2>. USE DEF TypeOK, GotoP
  <2>1. CASE LoadCached(q) \/ LoadGating(q) \/ EndGatingScan(q)
    BY <1>2, <2>1 DEF LoadCached, LoadGating, EndGatingScan
  <2>2. CASE WriteSlot(q) \/ PublishSlot(q)
    BY <1>2, <2>2 DEF WriteSlot, PublishSlot
  <2>3. CASE ClosurePanics(q)
    BY <1>2, <2>3 DEF ClosurePanics
  <2>. QED  BY <1>2, <2>1, <2>2, <2>3 DEF Produce
<1>3. ASSUME LoadGating(p)  PROVE Same
  BY <1>3 DEF LoadGating
<1>4. ASSUME NEW c \in Consumers, Consumer(c) \/ Panic(c)  PROVE Same
  BY <1>4 DEF Consumer, CheckAlert, CheckSlot, ExtendBatch, Process, Panic,
              producerVars, claimVars
<1>5. CASE BeginDrain \/ Drain \/ DropProducer \/ Joined \/ UNCHANGED vars
  BY <1>5 DEF BeginDrain, Drain, LoadForDrain, EndDrainScan, DropProducer,
              Joined, vars, producerVars, claimVars
<1>. QED  BY <1>1, <1>2, <1>3, <1>4, <1>5 DEF Next, Produce

\* The ring and the mark are changed by writing, publishing and claiming.
LEMMA RingSteps ==
  ASSUME [Next]_vars
  PROVE  \/ \E p \in Producers : WriteSlot(p)
         \/ \E p \in Producers : PublishSlot(p)
         \/ UNCHANGED ringVars
<1>1. ASSUME NEW c \in Consumers, Consumer(c) \/ Panic(c)
      PROVE  UNCHANGED ringVars
  BY <1>1 DEF Consumer, CheckAlert, CheckSlot, ExtendBatch, Process, Panic,
              producerVars
<1>2. ASSUME NEW p \in Producers, NEW n \in 1..MaxBatch, Claim(p, n)
      PROVE  UNCHANGED ringVars
  BY <1>2 DEF Claim
<1>3. ASSUME NEW p \in Producers,
             \/ LoadCached(p) \/ LoadGating(p) \/ EndGatingScan(p)
             \/ ClosurePanics(p)
      PROVE  UNCHANGED ringVars
  BY <1>3 DEF LoadCached, LoadGating, EndGatingScan, ClosurePanics
<1>4. CASE BeginDrain \/ Drain \/ DropProducer \/ Joined \/ UNCHANGED vars
  BY <1>4 DEF BeginDrain, Drain, LoadForDrain, EndDrainScan, DropProducer,
              Joined, vars, producerVars
<1>. QED  BY <1>1, <1>2, <1>3, <1>4 DEF Next, Produce

LEMMA MarkGrows ==
  ASSUME TypeOK, [Next]_vars
  PROVE  /\ \/ \E p \in Producers, n \in 1..MaxBatch : Claim(p, n)
            \/ UNCHANGED high_water_mark
         /\ high_water_mark <= high_water_mark'
         /\ high_water_mark' \in Int
<1>0. high_water_mark \in Int
  BY DEF TypeOK
<1>1. ASSUME NEW c \in Consumers, Consumer(c) \/ Panic(c)
      PROVE  UNCHANGED high_water_mark
  BY <1>1 DEF Consumer, CheckAlert, CheckSlot, ExtendBatch, Process, Panic,
              producerVars
<1>2. ASSUME NEW p \in Producers, NEW n \in 1..MaxBatch, Claim(p, n)
      PROVE  high_water_mark <= high_water_mark' /\ high_water_mark' \in Int
  BY <1>0, <1>2, ProducersAssumption DEF Claim
<1>3. ASSUME NEW p \in Producers, Produce(p) \/ ClosurePanics(p)
      PROVE  UNCHANGED high_water_mark
  BY <1>3 DEF Produce, LoadCached, LoadGating, EndGatingScan, WriteSlot,
              PublishSlot, ClosurePanics
<1>4. ASSUME BeginDrain \/ Drain \/ DropProducer \/ Joined \/ UNCHANGED vars
      PROVE  UNCHANGED high_water_mark
  BY <1>4 DEF BeginDrain, Drain, LoadForDrain, EndDrainScan, DropProducer,
              Joined, vars, producerVars
<1>. QED  BY <1>0, <1>1, <1>2, <1>3, <1>4 DEF Next

\* A gating processor's sequence only grows, the fact every scan relies on.
LEMMA SequencesGrow ==
  ASSUME Invariant, [Next]_vars, NEW g \in GatingSequences
  PROVE  /\ sequence[g] \in Int /\ sequence'[g] \in Int
         /\ sequence[g] <= sequence'[g]
<1>0. /\ TypeOK /\ TypeOK' /\ g \in Consumers
      /\ sequence[g] \in Int /\ sequence'[g] \in Int
  BY TypeStep, WiringType DEF Invariant, TypeOK
<1>1. CASE Advance(g)
  <2>1. sequence[g] <= available[g]
    BY <1>0, <1>1 DEF Advance, Invariant, ReaderInv, Reach, InBatch
  <2>2. sequence'[g] = available[g]
    BY <1>0, <1>1, WiringType DEF Advance, SetSequence, TypeOK
  <2>. QED  BY <1>0, <2>1, <2>2
<1>2. ASSUME sequence'[g] = sequence[g]  PROVE sequence[g] <= sequence'[g]
  BY <1>0, <1>2
<1>3. ASSUME ~Advance(g)  PROVE sequence'[g] = sequence[g]
  BY <1>0, <1>3, ReaderSteps
     DEF CheckAlert, Shutdown, CheckSlot, ExtendBatch, Process, Run,
         HandleEvent, Panic, HandlerPanics
<1>. QED  BY <1>0, <1>1, <1>2, <1>3

-----------------------------------------------------------------------------
(* The conjuncts of the invariant, one by one. *)

LEMMA ClaimStep ==
  ASSUME Invariant, [Next]_vars, NEW p \in Producers
  PROVE  ClaimInv(p)'
<1>0. /\ TypeOK /\ TypeOK' /\ ClaimInv(p)
      /\ low[p] \in Nat /\ high[p] \in Int /\ at[p] \in Nat
      /\ high_water_mark \in Int /\ high_water_mark' \in Int
      /\ high_water_mark <= high_water_mark'
  BY TypeStep, MarkGrows, Numbers DEF Invariant
<1>1. ASSUME NEW n \in 1..MaxBatch, Claim(p, n)  PROVE ClaimInv(p)'
  <2>1. /\ ppc'[p] = "cached" /\ low'[p] = high_water_mark + 1
        /\ high'[p] = high_water_mark + n /\ high_water_mark' = high_water_mark + n
        /\ n \in Nat /\ n >= 1
    BY <1>0, <1>1, ProducersAssumption DEF Claim, GotoP, TypeOK
  <2>. QED  BY <1>0, <2>1 DEF ClaimInv
<1>2. CASE LoadCached(p)
  <2>1. /\ ppc[p] = "cached" /\ at'[p] = low[p]
        /\ UNCHANGED <<low, high>>
    BY <1>0, <1>2 DEF LoadCached, TypeOK
  <2>. QED  BY <1>0, <2>1 DEF ClaimInv
<1>3. CASE EndGatingScan(p)
  <2>1. ppc[p] = "scan" /\ UNCHANGED <<low, high, at>>
    BY <1>3 DEF EndGatingScan
  <2>. QED  BY <1>0, <2>1 DEF ClaimInv
<1>4. CASE WriteSlot(p)
  <2>1. /\ ppc[p] = "write" /\ UNCHANGED <<low, high>>
        /\ ppc'[p] \in {"write", "publish"}
        /\ at'[p] = IF at[p] = high[p] THEN low[p] ELSE at[p] + 1
    BY <1>0, <1>4 DEF WriteSlot, GotoP, TypeOK
  <2>. QED  BY <1>0, <2>1 DEF ClaimInv
<1>5. CASE PublishSlot(p)
  <2>1. /\ ppc[p] = "publish" /\ UNCHANGED <<low, high>>
        /\ \/ ppc'[p] = "idle"
           \/ /\ at[p] # high[p] /\ at'[p] = at[p] + 1
              /\ ppc'[p] = "publish"
    BY <1>0, <1>5 DEF PublishSlot, GotoP, TypeOK
  <2>. QED  BY <1>0, <2>1 DEF ClaimInv
<1>6. CASE ClosurePanics(p)
  BY <1>0, <1>6 DEF ClosurePanics, GotoP, TypeOK, ClaimInv
<1>7. CASE /\ ppc'[p] = ppc[p] /\ at'[p] = at[p]
           /\ low'[p] = low[p] /\ high'[p] = high[p]
  BY <1>0, <1>7 DEF ClaimInv
<1>. QED  BY <1>0, <1>1, <1>2, <1>3, <1>4, <1>5, <1>6, <1>7, ThreadSteps

LEMMA ClaimsApartStep ==
  ASSUME Invariant, [Next]_vars
  PROVE  ClaimsApart'
<1>0. TypeOK /\ TypeOK' /\ ClaimsApart /\ high_water_mark \in Int
  BY TypeStep, Numbers DEF Invariant
<1>1. ASSUME NEW p \in Producers, NEW n \in 1..MaxBatch, Claim(p, n)
      PROVE  ClaimsApart'
  <2>1. /\ low' = [low EXCEPT ![p] = high_water_mark + 1]
        /\ high' = [high EXCEPT ![p] = high_water_mark + n]
        /\ ppc' = [ppc EXCEPT ![p] = "cached"]
    BY <1>1 DEF Claim, GotoP
  <2>2. \A q \in Producers : ppc[q] # "idle" => high[q] < high_water_mark + 1
    BY <1>0, Numbers DEF Invariant, ClaimInv
  <2>3. ASSUME NEW q \in Producers, NEW r \in Producers, q # r,
               ppc'[q] # "idle", ppc'[r] # "idle"
        PROVE  high'[q] < low'[r] \/ high'[r] < low'[q]
    <3>1. CASE q = p
      <4>1. /\ ppc'[r] = ppc[r] /\ high'[r] = high[r]
            /\ low'[q] = high_water_mark + 1
        BY <1>0, <2>1, <2>3, <3>1 DEF TypeOK
      <4>. QED  BY <2>2, <2>3, <4>1
    <3>2. CASE r = p
      <4>1. /\ ppc'[q] = ppc[q] /\ high'[q] = high[q]
            /\ low'[r] = high_water_mark + 1
        BY <1>0, <2>1, <2>3, <3>2 DEF TypeOK
      <4>. QED  BY <2>2, <2>3, <4>1
    <3>3. CASE q # p /\ r # p
      <4>1. /\ ppc'[q] = ppc[q] /\ high'[q] = high[q] /\ low'[q] = low[q]
            /\ ppc'[r] = ppc[r] /\ high'[r] = high[r] /\ low'[r] = low[r]
        BY <1>0, <2>1, <3>3 DEF TypeOK
      <4>. QED  BY <1>0, <2>3, <4>1 DEF ClaimsApart
    <3>. QED  BY <3>1, <3>2, <3>3
  <2>. QED  BY <2>3 DEF ClaimsApart
<1>2. ASSUME ~ \E p \in Producers, n \in 1..MaxBatch : Claim(p, n)
      PROVE  ClaimsApart'
  <2>1. ASSUME NEW p \in Producers
        PROVE  /\ low'[p] = low[p] /\ high'[p] = high[p]
               /\ ppc'[p] # "idle" => ppc[p] # "idle"
    BY <1>0, <1>2, ThreadSteps
       DEF LoadCached, EndGatingScan, WriteSlot, ClosurePanics, PublishSlot,
           GotoP, TypeOK
  <2>. QED  BY <1>0, <2>1 DEF ClaimsApart
<1>. QED  BY <1>1, <1>2

\* The claims of any two threads are disjoint, as sets of what is pending.
LEMMA PendingApart ==
  ASSUME Invariant, NEW p \in Producers, NEW q \in Producers, p # q
  PROVE  Pending(p) \cap Pending(q) = {}
<1>1. ASSUME NEW r \in Producers, NEW s \in Pending(r)
      PROVE  ppc[r] # "idle" /\ s \in Nat /\ low[r] <= s /\ s <= high[r]
  BY <1>1, Numbers DEF Invariant, Pending, ClaimInv
<1>2. SUFFICES ASSUME NEW s \in Pending(p), s \in Pending(q)  PROVE FALSE
  OBVIOUS
<1>. QED  BY <1>1, <1>2, Numbers DEF Invariant, ClaimsApart

LEMMA PendingIsClaimed ==
  ASSUME Invariant, NEW p \in Producers, NEW s \in Pending(p)
  PROVE  s \in Nat /\ s \in Sequences /\ low[p] <= s /\ s <= high[p]
<1>1. s \in Nat /\ low[p] <= s /\ s <= high[p]
  BY Numbers DEF Invariant, Pending, ClaimInv
<1>. QED  BY <1>1, Numbers DEF Invariant, Sequences

LEMMA StampStep ==
  ASSUME Invariant, [Next]_vars
  PROVE  StampInv'
<1>0. /\ TypeOK /\ TypeOK' /\ StampInv
      /\ high_water_mark \in Int /\ high_water_mark' \in Int
      /\ high_water_mark <= high_water_mark'
  BY TypeStep, MarkGrows, Numbers DEF Invariant
<1>1. ASSUME NEW p \in Producers, NEW s \in Pending(p)'  PROVE ~Published(s)'
  <2>1. ASSUME NEW n \in 1..MaxBatch, Claim(p, n)  PROVE ~Published(s)'
    <3>1. /\ ppc'[p] = "cached" /\ low'[p] = high_water_mark + 1
          /\ high'[p] = high_water_mark + n /\ UNCHANGED stamps
      BY <1>0, <2>1 DEF Claim, GotoP, TypeOK, ringVars
    <3>2. s \in Nat /\ s > high_water_mark
      BY <1>0, <1>1, <3>1, Numbers DEF Pending
    <3>3. ~Published(s)
      BY <1>0, <3>2, PublishedIsClaimed
    <3>. QED  BY <3>1, <3>3 DEF Published
  <2>2. ASSUME s \in Pending(p), UNCHANGED stamps  PROVE ~Published(s)'
    BY <1>0, <2>2 DEF StampInv, Published
  <2>3. CASE LoadCached(p)
    <3>1. /\ ppc[p] = "cached" /\ ppc'[p] \in {"scan", "write"}
          /\ UNCHANGED <<low, high, stamps>>
      BY <1>0, <2>3 DEF LoadCached, GotoP, TypeOK, ringVars
    <3>2. s \in Pending(p)
      BY <1>1, <3>1 DEF Pending
    <3>. QED  BY <2>2, <3>1, <3>2
  <2>4. CASE EndGatingScan(p)
    <3>1. /\ ppc[p] = "scan" /\ ppc'[p] \in {"scan", "write"}
          /\ UNCHANGED <<low, high, stamps>>
      BY <1>0, <2>4 DEF EndGatingScan, GotoP, TypeOK, ringVars
    <3>2. s \in Pending(p)
      BY <1>1, <3>1 DEF Pending
    <3>. QED  BY <2>2, <3>1, <3>2
  <2>5. CASE WriteSlot(p)
    <3>1. /\ ppc[p] = "write" /\ UNCHANGED <<low, high, stamps>>
          /\ \/ ppc'[p] = "write"
             \/ ppc'[p] = "publish" /\ at'[p] = low[p]
      BY <1>0, <2>5 DEF WriteSlot, GotoP, TypeOK
    <3>2. s \in Pending(p)
      BY <1>1, <3>1 DEF Pending
    <3>. QED  BY <2>2, <3>1, <3>2
  <2>6. CASE ClosurePanics(p)
    BY <1>0, <1>1, <2>6 DEF ClosurePanics, GotoP, TypeOK, Pending
  <2>7. CASE PublishSlot(p)
    <3>1. /\ ppc[p] = "publish" /\ UNCHANGED <<low, high>>
          /\ \/ ppc'[p] = "idle"
             \/ ppc'[p] = "publish" /\ at'[p] = at[p] + 1
      BY <1>0, <2>7 DEF PublishSlot, GotoP, TypeOK
    <3>2. s \in Pending(p) /\ s # at[p]
      BY <1>0, <1>1, <3>1, Numbers DEF Pending
    <3>. QED  BY <1>0, <2>7, <3>2, PendingIsClaimed, StampingIsExact DEF StampInv
  <2>8. CASE /\ ppc'[p] = ppc[p] /\ at'[p] = at[p]
             /\ low'[p] = low[p] /\ high'[p] = high[p]
    <3>1. s \in Pending(p)
      BY <1>1, <2>8 DEF Pending
    <3>2. ASSUME NEW q \in Producers, PublishSlot(q)  PROVE ~Published(s)'
      <4>1. CASE q = p
        BY <2>7, <3>2, <4>1
      <4>2. CASE q # p
        <5>1. at[q] \in Pending(q)
          BY <3>2, PendingInRing DEF PublishSlot
        <5>2. s # at[q]
          BY <3>1, <4>2, <5>1, PendingApart
        <5>. QED
          BY <1>0, <3>1, <3>2, <5>2, PendingIsClaimed, StampingIsExact
             DEF StampInv
      <4>. QED  BY <4>1, <4>2
    <3>3. ASSUME ~ \E q \in Producers : PublishSlot(q)  PROVE UNCHANGED stamps
      BY <3>3, RingSteps DEF WriteSlot, ringVars
    <3>. QED  BY <2>2, <3>1, <3>2, <3>3
  <2>. QED
    BY <1>0, <2>1, <2>3, <2>4, <2>5, <2>6, <2>7, <2>8, ThreadSteps
<1>2. ASSUME NEW i \in Slots, stamps'[i] # -1
      PROVE  \E s \in 0..high_water_mark' :
               i = Index(s) /\ stamps'[i] = Generation(s)
  <2>1. ASSUME stamps'[i] = stamps[i]
        PROVE  \E s \in 0..high_water_mark' :
                 i = Index(s) /\ stamps'[i] = Generation(s)
    BY <1>0, <1>2, <2>1 DEF StampInv
  <2>2. ASSUME NEW p \in Producers, PublishSlot(p), stamps'[i] # stamps[i]
        PROVE  \E s \in 0..high_water_mark' :
                 i = Index(s) /\ stamps'[i] = Generation(s)
    <3>1. i = Index(at[p]) /\ stamps'[i] = Generation(at[p]) /\ at[p] \in Nat
      BY <1>0, <2>2, PublishExact DEF TypeOK
    <3>2. at[p] <= high_water_mark
      BY <1>0, <2>2, PendingInRing, Numbers DEF PublishSlot
    <3>. QED  BY <1>0, <3>1, <3>2
  <2>. QED  BY <2>1, <2>2, RingSteps DEF WriteSlot, ringVars
<1>. QED  BY <1>1, <1>2 DEF StampInv

\* Writing a slot leaves alone whatever a gating processor has yet to read,
\* and the slots of the other claims.
LEMMA WritingIsExact ==
  ASSUME Invariant, NEW p \in Producers, WriteSlot(p)
  PROVE  /\ at[p] \in Nat /\ Fetch(slots', at[p]) = at[p]
         /\ \A g \in GatingSequences, s \in Sequences :
              s # at[p] /\ sequence[g] < s /\ s <= sequence[g] + BufferSize =>
                Fetch(slots', s) = Fetch(slots, s)
<1>1. /\ ppc[p] = "write" /\ slots' = [slots EXCEPT ![Index(at[p])] = at[p]]
      /\ at[p] \in Nat /\ at[p] \in Pending(p)
      /\ \A g \in GatingSequences :
           sequence[g] < at[p] /\ at[p] <= sequence[g] + BufferSize
  BY PendingInRing DEF WriteSlot, Store
<1>2. /\ TypeOK /\ Sequences \subseteq Nat
      /\ \A s \in Nat : Index(s) \in Slots
  BY Numbers, MaxSequenceAssumption DEF Sequences, Invariant
<1>3. Fetch(slots', at[p]) = at[p]
  BY <1>1, <1>2 DEF Fetch, TypeOK
<1>4. ASSUME NEW g \in GatingSequences, NEW s \in Sequences, s # at[p],
             sequence[g] < s, s <= sequence[g] + BufferSize
      PROVE  Fetch(slots', s) = Fetch(slots, s)
  <2>1. Index(s) # Index(at[p])
    BY <1>1, <1>2, <1>4, WithinRing
  <2>. QED  BY <1>1, <1>2, <2>1 DEF Fetch, TypeOK
<1>. QED  BY <1>1, <1>3, <1>4

\* A thread finds room only where every gating processor has left it.
LEMMA RoomFound ==
  ASSUME Invariant, NEW p \in Producers, ppc[p] \in {"cached", "scan"},
         NEW bound \in Int, WrapPoint(p) <= bound,
         \A g \in GatingSequences : bound <= sequence[g]
  PROVE  /\ high[p] < low[p] + BufferSize
         /\ \A g \in GatingSequences : high[p] <= sequence[g] + BufferSize
<1>1. /\ BufferSize \in Int /\ high[p] \in Int /\ low[p] \in Nat
      /\ \A g \in GatingSequences : sequence[g] \in Int
      /\ low[p] <= high[p]
  BY Numbers DEF Invariant, ClaimInv
<1>2. ASSUME NEW g \in GatingSequences
      PROVE  high[p] <= sequence[g] + BufferSize /\ sequence[g] < low[p]
  <2>1. low[p] \in Pending(p)
    BY <1>1 DEF Pending
  <2>2. sequence[g] < low[p]
    BY <2>1, PendingIsClaimed, NotPassed DEF Invariant, StampInv
  <2>. QED  BY <1>1, <2>2 DEF WrapPoint
<1>3. PICK g \in Consumers : g \in GatingSequences
  BY SomeGate
<1>. QED  BY <1>1, <1>2, <1>3

\* The minimum of a finished scan is behind every gating processor.
LEMMA ScanIsSafe ==
  ASSUME Invariant, NEW p \in Producers, pscan[p].left = {}
  PROVE  pscan[p].low \in Int
         /\ \A g \in GatingSequences : pscan[p].low <= sequence[g]
BY DEF Invariant, ScanInv, TypeOK, Scans

LEMMA RoomStep ==
  ASSUME Invariant, [Next]_vars, NEW p \in Producers
  PROVE  RoomInv(p)'
<1>0. /\ TypeOK /\ TypeOK' /\ RoomInv(p) /\ ClaimInv(p)
      /\ BufferSize \in Nat
      /\ low[p] \in Nat /\ high[p] \in Int /\ at[p] \in Nat
      /\ \A g \in GatingSequences :
           /\ sequence[g] \in Int /\ sequence'[g] \in Int
           /\ sequence[g] <= sequence'[g]
  BY TypeStep, SequencesGrow, Numbers DEF Invariant
<1>00. /\ ppc \in [Producers -> {"idle", "cached", "scan", "write", "publish"}]
       /\ at \in [Producers -> Nat]
  BY <1>0 DEF TypeOK
<1>1. ASSUME NEW n \in 1..MaxBatch, Claim(p, n)  PROVE RoomInv(p)'
  BY <1>0, <1>1 DEF Claim, GotoP, TypeOK, RoomInv
<1>2. CASE ClosurePanics(p)
  BY <1>0, <1>2 DEF ClosurePanics, GotoP, TypeOK, RoomInv
<1>3. CASE LoadCached(p)
  <2>1. /\ ppc[p] = "cached" /\ at'[p] = low[p]
        /\ UNCHANGED <<low, high, sequence, slots>>
        /\ ppc'[p] = "scan" \/ (ppc'[p] = "write" /\ WrapPoint(p) <= cached_value)
    <3>1. WrapPoint(p) \in Int /\ cached_value \in Int
      BY <1>0 DEF WrapPoint, TypeOK
    <3>2. ppc'[p] = "scan" \/ (ppc'[p] = "write" /\ WrapPoint(p) <= cached_value)
      BY <1>00, <1>3, <3>1 DEF LoadCached, GotoP
    <3>3. at'[p] = low[p]
      BY <1>0, <1>3 DEF LoadCached, TypeOK
    <3>. QED  BY <1>3, <3>2, <3>3 DEF LoadCached, consumerVars, ringVars
  <2>2. CASE ppc'[p] = "scan"
    BY <2>2 DEF RoomInv
  <2>3. CASE ppc'[p] = "write" /\ WrapPoint(p) <= cached_value
    <3>1. cached_value \in Int /\ \A g \in GatingSequences : cached_value <= sequence[g]
      BY <1>0 DEF Invariant, TypeOK
    <3>2. /\ high[p] < low[p] + BufferSize
          /\ \A g \in GatingSequences : high[p] <= sequence[g] + BufferSize
      BY <2>1, <2>3, <3>1, RoomFound
    <3>3. \A s \in Pending(p)' : ~(s < at'[p])
      BY <1>0, <2>1, <2>3 DEF Pending
    <3>. QED  BY <2>1, <2>3, <3>2, <3>3 DEF RoomInv
  <2>. QED  BY <2>1, <2>2, <2>3
<1>4. CASE EndGatingScan(p)
  <2>1. /\ ppc[p] = "scan" /\ at[p] = low[p] /\ pscan[p].left = {}
        /\ UNCHANGED <<low, high, at, sequence, slots>>
        /\ \/ ppc'[p] = "scan"
           \/ ppc'[p] = "write" /\ WrapPoint(p) <= pscan[p].low
    BY <1>0, <1>4
       DEF EndGatingScan, GotoP, TypeOK, consumerVars, ringVars, ClaimInv
  <2>2. CASE ppc'[p] = "scan"
    BY <2>2 DEF RoomInv
  <2>3. CASE ppc'[p] = "write" /\ WrapPoint(p) <= pscan[p].low
    <3>1. /\ high[p] < low[p] + BufferSize
          /\ \A g \in GatingSequences : high[p] <= sequence[g] + BufferSize
      BY <2>1, <2>3, ScanIsSafe, RoomFound
    <3>2. \A s \in Pending(p)' : ~(s < at'[p])
      BY <1>0, <2>1, <2>3 DEF Pending
    <3>. QED  BY <2>1, <2>3, <3>1, <3>2 DEF RoomInv
  <2>. QED  BY <2>1, <2>2, <2>3
<1>5. CASE WriteSlot(p)
  <2>1. /\ ppc[p] = "write" /\ UNCHANGED <<low, high, sequence>>
        /\ \/ /\ at[p] = high[p] /\ ppc'[p] = "publish" /\ at'[p] = low[p]
           \/ /\ ppc'[p] = "write" /\ at'[p] = at[p] + 1
    BY <1>0, <1>5 DEF WriteSlot, GotoP, TypeOK, consumerVars
  <2>2. Pending(p)' = Pending(p)
    BY <2>1 DEF Pending
  <2>3. ASSUME NEW s \in Pending(p), s <= at[p]  PROVE Fetch(slots', s) = s
    <3>1. CASE s = at[p]
      BY <1>5, <3>1, WritingIsExact
    <3>2. CASE s # at[p]
      <4>1. PICK g \in Consumers : g \in GatingSequences
        BY SomeGate
      <4>2. /\ s \in Sequences /\ s \in Nat /\ s < at[p]
            /\ sequence[g] < s /\ s <= sequence[g] + BufferSize
        BY <1>0, <2>1, <2>3, <3>2, <4>1, PendingInRing
      <4>. QED  BY <1>0, <1>5, <2>1, <3>2, <4>1, <4>2, WritingIsExact DEF RoomInv
    <3>. QED  BY <3>1, <3>2
  <2>4. \A s \in Pending(p) : s \in Nat /\ s <= high[p]
    BY PendingIsClaimed
  <2>. QED  BY <1>0, <2>1, <2>2, <2>3, <2>4 DEF RoomInv
<1>6. CASE PublishSlot(p)
  <2>1. /\ ppc[p] = "publish" /\ UNCHANGED <<low, high, sequence, slots>>
        /\ ppc'[p] = "idle" \/ (ppc'[p] = "publish" /\ at'[p] = at[p] + 1)
    <3>1. ppc'[p] = "idle" \/ (ppc'[p] = "publish" /\ at'[p] = at[p] + 1)
      BY <1>00, <1>6 DEF PublishSlot, GotoP
    <3>. QED  BY <1>6, <3>1 DEF PublishSlot, consumerVars
  <2>2. ppc'[p] = "publish" => Pending(p)' \subseteq Pending(p)
    BY <1>0, <2>1 DEF Pending
  <2>. QED  BY <1>0, <2>1, <2>2 DEF RoomInv
<1>7. CASE /\ ~WriteSlot(p)
           /\ ppc'[p] = ppc[p] /\ at'[p] = at[p]
           /\ low'[p] = low[p] /\ high'[p] = high[p]
  <2>1. SUFFICES ASSUME ppc[p] \in {"write", "publish"}  PROVE RoomInv(p)'
    BY <1>7 DEF RoomInv
  <2>2. Pending(p)' = Pending(p)
    BY <1>7 DEF Pending
  <2>3. ASSUME NEW s \in Pending(p)  PROVE Fetch(slots', s) = Fetch(slots, s)
    <3>1. ASSUME NEW q \in Producers, WriteSlot(q)
          PROVE  Fetch(slots', s) = Fetch(slots, s)
      <4>1. at[q] \in Pending(q)
        BY <3>1, PendingInRing DEF WriteSlot
      <4>2. s # at[q]
        BY <1>7, <2>3, <3>1, <4>1, PendingApart
      <4>3. PICK g \in Consumers : g \in GatingSequences
        BY SomeGate
      <4>4. /\ s \in Sequences
            /\ sequence[g] < s /\ s <= sequence[g] + BufferSize
        BY <2>1, <2>3, <4>3, PendingInRing
      <4>. QED  BY <3>1, <4>2, <4>3, <4>4, WritingIsExact
    <3>2. ASSUME ~ \E q \in Producers : WriteSlot(q)  PROVE UNCHANGED slots
      BY <3>2, RingSteps DEF PublishSlot, ringVars
    <3>. QED  BY <3>1, <3>2
  <2>. QED  BY <1>0, <1>7, <2>1, <2>2, <2>3 DEF RoomInv
<1>. QED  BY <1>0, <1>1, <1>2, <1>3, <1>4, <1>5, <1>6, <1>7, ThreadSteps

\* What a step does to the stamps a gating processor has looked at.
LEMMA StampsKept ==
  ASSUME Invariant, [Next]_vars
  PROVE  /\ \A s \in Sequences : Published(s) => Published(s)'
         /\ \A g \in GatingSequences, s \in Sequences :
              sequence[g] < s /\ IsAvailable(stamps, s) => IsAvailable(stamps', s)
<1>1. CASE UNCHANGED stamps
  BY <1>1 DEF Published
<1>2. ASSUME NEW p \in Producers, PublishSlot(p)
      PROVE  /\ \A s \in Sequences : Published(s) => Published(s)'
             /\ \A g \in GatingSequences, s \in Sequences :
                  sequence[g] < s /\ IsAvailable(stamps, s) =>
                    IsAvailable(stamps', s)
  BY <1>2, StampingIsExact
<1>. QED  BY <1>1, <1>2, RingSteps DEF WriteSlot, ringVars

\* A claim stays with its thread until it is published.
LEMMA LostStep ==
  ASSUME Invariant, [Next]_vars, ~FaultyClosure
  PROVE  NothingLost'
<1>. SUFFICES ASSUME NEW s \in 0..high_water_mark'
              PROVE  Published(s)' \/ \E p \in Producers : s \in Pending(p)'
  BY DEF NothingLost
<1>0. /\ TypeOK /\ TypeOK' /\ NothingLost /\ s \in Nat /\ s \in Sequences
      /\ high_water_mark \in -1..MaxSequence
      /\ high_water_mark' \in -1..MaxSequence /\ MaxSequence \in Nat
  BY TypeStep, Numbers, MaxSequenceAssumption DEF Invariant, TypeOK, Sequences
<1>1. CASE high_water_mark < s
  <2>1. PICK p \in Producers, n \in 1..MaxBatch : Claim(p, n)
    BY <1>0, <1>1, MarkGrows
  <2>2. /\ ppc'[p] = "cached" /\ low'[p] = high_water_mark + 1
        /\ high'[p] = high_water_mark'
    BY <1>0, <2>1 DEF Claim, GotoP, TypeOK
  <2>3. s \in Pending(p)'
    BY <1>0, <1>1, <2>2 DEF Pending
  <2>. QED  BY <2>3
<1>2. CASE Published(s)
  BY <1>0, <1>2, StampsKept
<1>3. ASSUME NEW p \in Producers, s \in Pending(p)
      PROVE  Published(s)' \/ s \in Pending(p)'
  <2>0. low[p] \in Nat /\ high[p] \in Int /\ at[p] \in Nat /\ ppc[p] # "idle"
    BY <1>0, <1>3, Numbers DEF Pending
  <2>1. CASE LoadCached(p) \/ EndGatingScan(p)
    <3>1. /\ ppc[p] \in {"cached", "scan"} /\ ppc'[p] \in {"scan", "write"}
          /\ UNCHANGED <<low, high>>
      BY <1>0, <2>1 DEF LoadCached, EndGatingScan, GotoP, TypeOK
    <3>. QED  BY <1>3, <3>1 DEF Pending
  <2>2. CASE WriteSlot(p)
    <3>1. /\ ppc[p] = "write" /\ UNCHANGED <<low, high>>
          /\ \/ ppc'[p] = "write"
             \/ ppc'[p] = "publish" /\ at'[p] = low[p]
      BY <1>0, <2>2 DEF WriteSlot, GotoP, TypeOK
    <3>. QED  BY <1>3, <3>1 DEF Pending
  <2>3. CASE PublishSlot(p) /\ s = at[p]
    BY <1>0, <2>3, StampingIsExact
  <2>4. CASE PublishSlot(p) /\ s # at[p]
    <3>1. ppc[p] = "publish" /\ s \in at[p]..high[p] /\ UNCHANGED <<low, high>>
      BY <1>3, <2>4 DEF PublishSlot, Pending
    <3>2. ppc'[p] = "publish" /\ at'[p] = at[p] + 1
      BY <1>0, <2>0, <2>4, <3>1 DEF PublishSlot, TypeOK
    <3>. QED  BY <2>0, <2>4, <3>1, <3>2 DEF Pending
  <2>5. CASE /\ ppc'[p] = ppc[p] /\ at'[p] = at[p]
             /\ low'[p] = low[p] /\ high'[p] = high[p]
    BY <1>3, <2>5 DEF Pending
  <2>. QED
    BY <1>0, <2>0, <2>1, <2>2, <2>3, <2>4, <2>5, ThreadSteps
       DEF Claim, ClosurePanics
<1>. QED  BY <1>0, <1>1, <1>2, <1>3 DEF NothingLost

LEMMA ReaderStep ==
  ASSUME Invariant, [Next]_vars, NEW g \in GatingSequences
  PROVE  ReaderInv(g)'
<1>0. /\ TypeOK /\ TypeOK' /\ ReaderInv(g) /\ g \in Consumers
      /\ sequence[g] \in Int /\ sequence'[g] \in Int
      /\ available[g] \in Int /\ probe[g] \in Nat /\ pos[g] \in Nat
      /\ \A s \in Sequences : s \in Nat
  BY TypeStep, WiringType, MaxSequenceAssumption
     DEF Invariant, TypeOK, Sequences
<1>1. CASE /\ cpc'[g] = cpc[g] /\ pos'[g] = pos[g] /\ probe'[g] = probe[g]
           /\ available'[g] = available[g] /\ sequence'[g] = sequence[g]
  <2>1. Reach(g)' = Reach(g) /\ InBatch(g)' = InBatch(g)
    BY <1>1 DEF Reach, InBatch
  <2>2. /\ \A s \in Sequences : s <= Reach(g) => Published(s)'
        /\ \A s \in Sequences :
             sequence[g] < s /\ s <= Reach(g) => IsAvailable(stamps', s)
    BY <1>0, StampsKept DEF ReaderInv
  <2>. QED  BY <1>0, <1>1, <2>1, <2>2 DEF ReaderInv
<1>2. ASSUME /\ \/ CheckAlert(g) \/ CheckSlot(g) \/ ExtendBatch(g)
                \/ Process(g) \/ Panic(g)
             /\ UNCHANGED ringVars
      PROVE  ReaderInv(g)'
  <2>0. /\ UNCHANGED stamps
        /\ \A s \in Sequences : Published(s)' <=> Published(s)
    BY <1>2 DEF ringVars, Published
  <2>1. ASSUME Reach(g)' = Reach(g), sequence'[g] = sequence[g]
        PROVE  /\ sequence'[g] <= Reach(g)'
               /\ \A s \in Sequences : s <= Reach(g)' => Published(s)'
               /\ \A s \in Sequences :
                    sequence'[g] < s /\ s <= Reach(g)' => IsAvailable(stamps', s)
    BY <1>0, <2>0, <2>1 DEF ReaderInv
  <2>2. CASE CheckAlert(g)
    <3>1. /\ cpc[g] = "alert" /\ cpc'[g] \in {"scan", "stopped"}
          /\ UNCHANGED <<sequence, pos, available>>
      BY <1>0, <2>2 DEF CheckAlert, Shutdown, Goto, TypeOK
    <3>2. Reach(g)' = Reach(g) /\ ~InBatch(g) /\ ~InBatch(g)'
      BY <3>1 DEF Reach, InBatch
    <3>. QED  BY <1>0, <2>1, <3>1, <3>2 DEF ReaderInv, InBatch
  <2>3. CASE CheckSlot(g)
    <3>1. /\ cpc[g] = "scan" /\ cpc'[g] \in {"extend", "alert"}
          /\ probe'[g] = sequence[g] + 1
          /\ UNCHANGED <<sequence, pos, available>>
      BY <1>0, <2>3 DEF CheckSlot, Goto, TypeOK, NextSequence
    <3>2. Reach(g)' = Reach(g) /\ ~InBatch(g) /\ ~InBatch(g)'
      BY <1>0, <3>1 DEF Reach, InBatch
    <3>. QED  BY <1>0, <2>1, <3>1, <3>2 DEF ReaderInv, InBatch
  <2>4. CASE ExtendBatch(g)
    <3>0. /\ cpc[g] = "extend" /\ ~InBatch(g) /\ Reach(g) = probe[g] - 1
          /\ pos[g] = sequence[g] + 1 /\ sequence[g] <= probe[g] - 1
          /\ UNCHANGED sequence
      BY <1>0, <2>4 DEF ExtendBatch, InBatch, Reach, ReaderInv
    <3>1. CASE /\ IsAvailable(stamps, probe[g])
               /\ probe' = [probe EXCEPT ![g] = @ + 1]
               /\ UNCHANGED processorVars
      <4>1. /\ cpc'[g] = "extend" /\ probe'[g] = probe[g] + 1
            /\ pos'[g] = pos[g] /\ ~InBatch(g)'
        BY <1>0, <3>0, <3>1 DEF TypeOK, processorVars, InBatch
      <4>2. Reach(g)' = probe[g]
        BY <1>0, <4>1 DEF Reach, InBatch
      <4>3. Published(probe[g])
        BY <1>0, <3>1, AvailableIsPublished
      <4>4. \A s \in Sequences : s <= probe[g] => s = probe[g] \/ s <= Reach(g)
        BY <1>0, <3>0
      <4>5. \A s \in Sequences : s <= probe[g] => Published(s)'
        BY <1>0, <2>0, <4>3, <4>4 DEF ReaderInv
      <4>6. \A s \in Sequences :
              sequence[g] < s /\ s <= probe[g] => IsAvailable(stamps', s)
        BY <1>0, <2>0, <3>1, <4>4 DEF ReaderInv
      <4>7. sequence'[g] <= Reach(g)'
        BY <1>0, <3>0, <4>2
      <4>. QED  BY <3>0, <4>1, <4>2, <4>5, <4>6, <4>7 DEF ReaderInv, InBatch
    <3>2. CASE BeginBatch(g, probe[g] - 1)
      <4>1. /\ available'[g] = probe[g] - 1 /\ pos'[g] = sequence[g] + 1
            /\ cpc'[g] = IF sequence[g] + 1 <= probe[g] - 1
                           THEN "handle" ELSE "advance"
        BY <1>0, <3>2 DEF BeginBatch, NextSequence, Goto, TypeOK
      <4>2. InBatch(g)' /\ Reach(g)' = Reach(g)
        BY <3>0, <4>1 DEF InBatch, Reach
      <4>. QED  BY <1>0, <2>1, <3>0, <4>1, <4>2 DEF ReaderInv
    <3>. QED  BY <2>4, <3>1, <3>2 DEF ExtendBatch
  <2>5. CASE Process(g) \/ Panic(g)
    <3>1. CASE Run(g)
      <4>1. /\ cpc[g] = "spawned" /\ cpc'[g] = "alert"
            /\ UNCHANGED <<sequence, pos, available>>
        BY <1>0, <3>1 DEF Run, Goto, TypeOK
      <4>2. Reach(g)' = Reach(g) /\ ~InBatch(g) /\ ~InBatch(g)'
        BY <4>1 DEF Reach, InBatch
      <4>. QED  BY <1>0, <2>1, <4>1, <4>2 DEF ReaderInv, InBatch
    <3>2. CASE HandleEvent(g)
      <4>1. /\ cpc[g] = "handle" /\ pos'[g] = pos[g] + 1
            /\ cpc'[g] = IF pos[g] = available[g] THEN "advance" ELSE "handle"
            /\ UNCHANGED <<sequence, available>>
        BY <1>0, <3>2 DEF HandleEvent, Goto, TypeOK
      <4>2. Reach(g)' = Reach(g) /\ InBatch(g)'
        BY <4>1 DEF Reach, InBatch
      <4>. QED  BY <1>0, <2>1, <4>1, <4>2 DEF ReaderInv
    <3>3. CASE HandlerPanics(g)
      <4>1. /\ cpc[g] = "handle" /\ cpc'[g] = "dead"
            /\ UNCHANGED <<sequence, pos, available>>
        BY <1>0, <3>3 DEF HandlerPanics, Goto, TypeOK
      <4>2. Reach(g)' = Reach(g) /\ InBatch(g)'
        BY <4>1 DEF Reach, InBatch
      <4>. QED  BY <1>0, <2>1, <4>1, <4>2 DEF ReaderInv
    <3>4. CASE Advance(g)
      <4>1. /\ cpc[g] = "advance" /\ cpc'[g] = "alert"
            /\ sequence'[g] = available[g] /\ UNCHANGED <<pos, available>>
        BY <1>0, <3>4, WiringType DEF Advance, SetSequence, Goto, TypeOK
      <4>2. /\ Reach(g) = available[g] /\ Reach(g)' = available[g]
            /\ ~InBatch(g)'
        BY <4>1 DEF Reach, InBatch
      <4>3. pos'[g] = sequence'[g] + 1
        BY <1>0, <4>1 DEF ReaderInv
      <4>4. \A s \in Sequences : s <= Reach(g)' => Published(s)'
        BY <1>0, <2>0, <4>2 DEF ReaderInv
      <4>. QED  BY <1>0, <4>1, <4>2, <4>3, <4>4 DEF ReaderInv
    <3>. QED  BY <2>5, <3>1, <3>2, <3>3, <3>4 DEF Process, Panic
  <2>. QED  BY <1>2, <2>2, <2>3, <2>4, <2>5
<1>. QED  BY <1>0, <1>1, <1>2, ReaderSteps

LEMMA EventStep ==
  ASSUME Invariant, [Next]_vars, NEW g \in GatingSequences
  PROVE  EventInv(g)'
<1>0. /\ EventInv(g) /\ BufferSize \in Nat
      /\ sequence[g] \in Int /\ sequence'[g] \in Int
      /\ sequence[g] <= sequence'[g]
      /\ \A s \in Sequences : s \in Nat
  BY SequencesGrow, Numbers, MaxSequenceAssumption DEF Invariant, Sequences
<1>1. ASSUME NEW s \in Sequences, IsAvailable(stamps', s)
      PROVE  /\ s <= sequence'[g] + BufferSize
             /\ sequence'[g] < s => Fetch(slots', s) = s
  <2>1. CASE UNCHANGED ringVars
    BY <1>0, <1>1, <2>1 DEF EventInv, ringVars
  <2>2. ASSUME NEW p \in Producers, WriteSlot(p)
        PROVE  /\ s <= sequence'[g] + BufferSize
               /\ sequence'[g] < s => Fetch(slots', s) = s
    <3>1. IsAvailable(stamps, s) /\ ppc[p] = "write"
      BY <1>1, <2>2 DEF WriteSlot
    <3>2. s # at[p]
      BY <1>0, <3>1, PendingInRing, AvailableIsPublished DEF Invariant
    <3>. QED  BY <1>0, <2>2, <3>1, <3>2, WritingIsExact DEF EventInv
  <2>3. ASSUME NEW p \in Producers, PublishSlot(p)
        PROVE  /\ s <= sequence'[g] + BufferSize
               /\ sequence'[g] < s => Fetch(slots', s) = s
    <3>1. UNCHANGED slots /\ ppc[p] = "publish"
      BY <2>3 DEF PublishSlot
    <3>2. CASE IsAvailable(stamps, s)
      BY <1>0, <3>1, <3>2 DEF EventInv
    <3>3. CASE s = at[p]
      <4>1. /\ s \in Pending(p) /\ s <= sequence[g] + BufferSize
            /\ Fetch(slots, s) = s
        BY <3>1, <3>3, PendingInRing DEF Invariant, RoomInv
      <4>. QED  BY <1>0, <3>1, <4>1
    <3>. QED  BY <1>1, <2>3, <3>2, <3>3, StampingIsExact
  <2>. QED  BY <2>1, <2>2, <2>3, RingSteps
<1>. QED  BY <1>1 DEF EventInv

\* The cached minimum and the scans of the producers and of drain().
LEMMA ScanStep ==
  ASSUME Invariant, [Next]_vars
  PROVE  /\ \A g \in GatingSequences : cached_value' <= sequence'[g]
         /\ \A p \in Producers : ScanInv(pscan[p])'
         /\ ScanInv(dscan)'
<1>0. /\ TypeOK /\ TypeOK' /\ cached_value \in Int
      /\ \A g \in GatingSequences :
           /\ cached_value <= sequence[g]
           /\ sequence[g] \in Int /\ sequence'[g] \in Int
           /\ sequence[g] <= sequence'[g]
      /\ \A p \in Producers : pscan[p] \in Scans /\ pscan[p].low \in Int
      /\ dscan \in Scans /\ dscan.low \in Int
  BY TypeStep, SequencesGrow DEF Invariant, TypeOK, Scans
<1>1. ASSUME NEW sc \in Scans, sc.low \in Int, ScanInv(sc),
             NEW sc1, sc1 = sc \/ sc1 = MinScan(GatingSequences)
                               \/ \E s \in sc.left : sc1 = Load(sc, s)
      PROVE  /\ sc1.left \subseteq GatingSequences
             /\ \A g \in GatingSequences \ sc1.left : sc1.low <= sequence'[g]
  <2>1. CASE sc1 = sc
    BY <1>0, <1>1, <2>1 DEF ScanInv
  <2>2. CASE sc1 = MinScan(GatingSequences)
    BY <2>2 DEF MinScan
  <2>3. ASSUME NEW s \in sc.left, sc1 = Load(sc, s)
        PROVE  /\ sc1.left \subseteq GatingSequences
               /\ \A g \in GatingSequences \ sc1.left : sc1.low <= sequence'[g]
    BY <1>0, <1>1, <2>3 DEF ScanInv, Load
  <2>. QED  BY <1>1, <2>1, <2>2, <2>3
<1>2. ASSUME NEW p \in Producers  PROVE ScanInv(pscan[p])'
  <2>1. \/ pscan'[p] = pscan[p] \/ pscan'[p] = MinScan(GatingSequences)
        \/ \E s \in pscan[p].left : pscan'[p] = Load(pscan[p], s)
    <3>1. ASSUME NEW q \in Producers, LoadGating(q) \/ EndGatingScan(q)
          PROVE  \/ pscan'[p] = pscan[p] \/ pscan'[p] = MinScan(GatingSequences)
                 \/ \E s \in pscan[p].left : pscan'[p] = Load(pscan[p], s)
      BY <1>0, <3>1 DEF LoadGating, EndGatingScan, TypeOK
    <3>2. ASSUME ~ \E q \in Producers : LoadGating(q) \/ EndGatingScan(q)
          PROVE  UNCHANGED pscan
      BY <3>2
         DEF Next, Produce, Claim, LoadCached, WriteSlot, PublishSlot,
             ClosurePanics, Consumer, CheckAlert, CheckSlot, ExtendBatch,
             Process, Panic, BeginDrain, Drain, LoadForDrain, EndDrainScan,
             DropProducer, Joined, vars, producerVars, claimVars
    <3>. QED  BY <3>1, <3>2
  <2>2. ScanInv(pscan[p])
    BY DEF Invariant
  <2>. QED  BY <1>0, <1>1, <2>1, <2>2 DEF ScanInv
<1>3. ScanInv(dscan)'
  <2>1. \/ dscan' = dscan \/ dscan' = MinScan(GatingSequences)
        \/ \E s \in dscan.left : dscan' = Load(dscan, s)
    BY DEF Next, Produce, Claim, LoadCached, LoadGating, EndGatingScan,
           WriteSlot, PublishSlot, ClosurePanics, Consumer, CheckAlert,
           CheckSlot, ExtendBatch, Process, Panic, BeginDrain, Drain,
           LoadForDrain, EndDrainScan, DropProducer, Joined, vars,
           producerVars, drainVars
  <2>2. ScanInv(dscan)
    BY DEF Invariant
  <2>. QED  BY <1>0, <1>1, <2>1, <2>2 DEF ScanInv
<1>4. ASSUME NEW g \in GatingSequences  PROVE cached_value' <= sequence'[g]
  <2>1. ASSUME NEW p \in Producers, EndGatingScan(p)
        PROVE  cached_value' <= sequence'[g]
    <3>1. cached_value' = pscan[p].low /\ pscan[p].left = {}
      BY <2>1 DEF EndGatingScan
    <3>. QED  BY <1>0, <3>1, ScanIsSafe
  <2>2. ASSUME ~ \E p \in Producers : EndGatingScan(p)
        PROVE  UNCHANGED cached_value
    BY <2>2
       DEF Next, Produce, Claim, LoadCached, LoadGating, WriteSlot,
           PublishSlot, ClosurePanics, Consumer, CheckAlert, CheckSlot,
           ExtendBatch, Process, Panic, BeginDrain, Drain, LoadForDrain,
           EndDrainScan, DropProducer, Joined, vars, producerVars
  <2>. QED  BY <1>0, <2>1, <2>2
<1>. QED  BY <1>2, <1>3, <1>4

\* In the first lap what drain() waits for is all that is published with
\* nothing missing before it.
LEMMA FirstLapTarget ==
  ASSUME Invariant, NEW t \in Int, high_water_mark < BufferSize,
         t \in -1..high_water_mark,
         t < high_water_mark => ~IsAvailable(stamps, t + 1)
  PROVE  ~Published(t + 1)
<1>. SUFFICES ASSUME Published(t + 1)  PROVE FALSE
  OBVIOUS
<1>1. /\ t + 1 \in Nat /\ high_water_mark \in Int /\ BufferSize \in Nat
      /\ Index(t + 1) \in Slots /\ Generation(t + 1) \in Nat
      /\ stamps[Index(t + 1)] \in Int
  BY Numbers DEF Invariant
<1>2. t + 1 <= high_water_mark /\ ~IsAvailable(stamps, t + 1)
  BY <1>1, PublishedIsClaimed
<1>3. PICK s \in 0..high_water_mark :
        Index(t + 1) = Index(s) /\ stamps[Index(t + 1)] = Generation(s)
  <2>1. stamps[Index(t + 1)] # -1
    BY <1>1 DEF Published
  <2>. QED  BY <1>1, <2>1 DEF Invariant, StampInv
<1>4. s # t + 1 /\ s \in Nat
  BY <1>1, <1>2, <1>3 DEF IsAvailable
<1>5. CASE s < t + 1
  BY <1>1, <1>2, <1>3, <1>4, <1>5, DistinctSlots
<1>6. CASE t + 1 < s
  BY <1>1, <1>2, <1>3, <1>4, <1>6, DistinctSlots
<1>. QED  BY <1>1, <1>4, <1>5, <1>6

\* The life of the shared Producer.
LEMMA OwnerSteps ==
  ASSUME [Next]_vars
  PROVE  \/ BeginDrain \/ EndDrainScan \/ DropProducer
         \/ UNCHANGED <<owner, target, is_done>>
BY DEF Next, Produce, Claim, LoadCached, LoadGating, EndGatingScan, WriteSlot,
       PublishSlot, ClosurePanics, Consumer, CheckAlert, CheckSlot,
       ExtendBatch, Process, Panic, Drain, LoadForDrain, Joined, vars,
       producerVars, drainVars

LEMMA ShutdownStep ==
  ASSUME Invariant, [Next]_vars
  PROVE  ShutdownInv'
<1>0. /\ TypeOK /\ TypeOK' /\ ShutdownInv
      /\ \A g \in GatingSequences :
           /\ sequence[g] \in Int /\ sequence'[g] \in Int
           /\ sequence[g] <= sequence'[g]
      /\ target \in -1..MaxSequence /\ high_water_mark \in Int
      /\ owner \in {"shared", "drain", "drained", "dropped"}
  BY TypeStep, SequencesGrow DEF Invariant, TypeOK
<1>1. CASE BeginDrain
  <2>1. /\ owner = "shared" /\ owner' = "drain"
        /\ \A p \in Producers : ppc'[p] = "idle"
        /\ target' = HighestPublished(stamps, 0, high_water_mark)
        /\ UNCHANGED <<stamps, high_water_mark, is_done>>
    BY <1>1 DEF BeginDrain, IsLastOwner, ringVars, claimVars
  <2>2. /\ target' \in -1..high_water_mark
        /\ \A s \in 0..target' : IsAvailable(stamps, s)
        /\ target' < high_water_mark => ~IsAvailable(stamps, target' + 1)
    BY <1>0, <2>1, DrainTarget
  <2>3. high_water_mark < BufferSize => ~Published(target' + 1)
    BY <1>0, <2>2, FirstLapTarget
  <2>4. Published(target + 1)' <=> Published(target' + 1)
    BY <2>1 DEF Published
  <2>. QED  BY <1>0, <2>1, <2>2, <2>3, <2>4 DEF ShutdownInv
<1>2. ASSUME ~BeginDrain, owner # "shared"
      PROVE  /\ UNCHANGED <<stamps, high_water_mark, target>>
             /\ \A p \in Producers : ppc[p] = "idle" /\ ppc'[p] = "idle"
  <2>1. \A p \in Producers : ppc[p] = "idle"
    BY <1>0, <1>2 DEF ShutdownInv
  <2>2. UNCHANGED high_water_mark
    BY <1>0, <1>2, MarkGrows DEF Claim
  <2>3. UNCHANGED stamps
    BY <2>1, RingSteps DEF WriteSlot, PublishSlot, ringVars
  <2>4. UNCHANGED target
    BY <1>2, OwnerSteps DEF EndDrainScan, DropProducer
  <2>5. ASSUME NEW p \in Producers  PROVE ppc'[p] = "idle"
    BY <1>0, <1>2, <2>1, ThreadSteps
       DEF Claim, LoadCached, EndGatingScan, WriteSlot, ClosurePanics,
           PublishSlot
  <2>. QED  BY <2>1, <2>2, <2>3, <2>4, <2>5
<1>3. CASE EndDrainScan
  <2>1. /\ owner = "drain" /\ dscan.left = {}
        /\ \/ owner' = "drained" /\ is_done' = TRUE /\ CaughtUp
           \/ owner' = "drain" /\ is_done' = is_done
        /\ UNCHANGED sequence
    BY <1>3 DEF EndDrainScan, consumerVars
  <2>2. /\ UNCHANGED <<stamps, high_water_mark, target>>
        /\ \A p \in Producers : ppc'[p] = "idle"
    BY <1>2, <2>1 DEF BeginDrain, IsLastOwner
  <2>3. ASSUME CaughtUp, NEW g \in GatingSequences  PROVE sequence[g] >= target
    <3>1. dscan.low <= sequence[g] /\ dscan.low \in Int
      BY <2>1 DEF Invariant, ScanInv, TypeOK, Scans
    <3>. QED  BY <1>0, <2>3, <3>1 DEF CaughtUp
  <2>4. Published(target + 1)' <=> Published(target + 1)
    BY <2>2 DEF Published
  <2>. QED  BY <1>0, <2>1, <2>2, <2>3, <2>4 DEF ShutdownInv
<1>4. CASE DropProducer
  <2>1. /\ owner' = "dropped" /\ is_done' = TRUE
        /\ \A p \in Producers : ppc'[p] = "idle"
    BY <1>4 DEF DropProducer, IsLastOwner, claimVars
  <2>. QED  BY <2>1 DEF ShutdownInv
<1>5. CASE ~BeginDrain /\ UNCHANGED <<owner, target, is_done>>
  <2>1. CASE owner = "shared"
    BY <1>0, <1>5, <2>1 DEF ShutdownInv
  <2>2. CASE owner # "shared"
    <3>1. /\ UNCHANGED <<stamps, high_water_mark, target>>
          /\ \A p \in Producers : ppc'[p] = "idle"
      BY <1>2, <1>5, <2>2
    <3>2. Published(target + 1)' <=> Published(target + 1)
      BY <3>1 DEF Published
    <3>3. owner = "drained" => \A g \in GatingSequences : sequence'[g] >= target
      BY <1>0 DEF ShutdownInv
    <3>. QED  BY <1>0, <1>5, <3>1, <3>2, <3>3 DEF ShutdownInv
  <2>. QED  BY <2>1, <2>2
<1>. QED  BY <1>1, <1>3, <1>4, <1>5, OwnerSteps

-----------------------------------------------------------------------------
(* The invariant. *)

LEMMA InvariantInitial == Init => Invariant
<1>. SUFFICES ASSUME Init  PROVE Invariant
  OBVIOUS
<1>0. TypeOK /\ \A s \in Nat : Generation(s) \in Nat /\ Index(s) \in Slots
  BY TypeInitial, Numbers
<1>1. \A g \in GatingSequences :
        /\ g \in Consumers /\ cpc[g] = "spawned" /\ sequence[g] = -1
        /\ pos[g] = 0
  BY WiringType DEF Init, InitProcessors, InitSequences
<1>2. \A s \in Sequences : ~(s <= -1) /\ s \in Nat
  BY MaxSequenceAssumption DEF Sequences
<1>3. \A s \in Nat : ~Published(s) /\ ~IsAvailable(stamps, s)
  BY <1>0 DEF Init, InitStamps, Published, IsAvailable
<1>4. \A p \in Producers : ppc[p] = "idle" /\ Pending(p) = {}
  BY DEF Init, Pending
<1>5. ASSUME NEW g \in GatingSequences
      PROVE  ReaderInv(g) /\ EventInv(g) /\ cached_value <= sequence[g]
  <2>1. ~InBatch(g) /\ Reach(g) = -1
    BY <1>1 DEF InBatch, Reach
  <2>2. ReaderInv(g)
    BY <1>1, <1>2, <2>1 DEF ReaderInv
  <2>3. EventInv(g)
    BY <1>2, <1>3 DEF EventInv
  <2>. QED  BY <1>1, <2>2, <2>3 DEF Init
<1>6. /\ \A p \in Producers : ScanInv(pscan[p])
      /\ ScanInv(dscan)
  BY DEF Init, ScanInv, MinScan
<1>7. StampInv
  BY <1>4 DEF StampInv, Init, InitStamps
<1>8. /\ \A p \in Producers : ClaimInv(p) /\ RoomInv(p)
      /\ ClaimsApart
  BY <1>4 DEF ClaimInv, RoomInv, ClaimsApart
<1>9. ShutdownInv
  BY <1>4 DEF ShutdownInv, Init
<1>10. NothingLost
  BY DEF NothingLost, Init
<1>. QED  BY <1>0, <1>5, <1>6, <1>7, <1>8, <1>9, <1>10 DEF Invariant

LEMMA InvariantStep == Invariant /\ [Next]_vars => Invariant'
BY TypeStep, ClaimStep, RoomStep, ScanStep, ClaimsApartStep, StampStep,
   LostStep, ReaderStep, EventStep, ShutdownStep DEF Invariant

\* The inductive invariant of the multi-producer protocol.
THEOREM InvariantHolds == Spec => []Invariant
BY InvariantInitial, InvariantStep, PTL DEF Spec

\* Type correctness: in particular no sequence passes the last claimable one.
THEOREM TypeCorrect == Spec => []TypeOK
<1>1. Invariant => TypeOK
  BY DEF Invariant
<1>. QED  BY <1>1, InvariantHolds, PTL

\* While no closure panics, what was claimed is published or about to be.
THEOREM NoClaimLost ==
  ASSUME ~FaultyClosure
  PROVE  Spec => []NothingLost
<1>1. Invariant => NothingLost
  BY DEF Invariant
<1>. QED  BY <1>1, InvariantHolds, PTL

-----------------------------------------------------------------------------
(* What follows for the handlers, when the processors that gate the        *)
(* producers are all there are.                                            *)

LEMMA OneScopeGates ==
  ASSUME Stages = 1
  PROVE  GatingSequences = Consumers
BY TopologyAssumption DEF GatingSequences

\* The event a gating processor is handling, and where it stands.
LEMMA Handled ==
  ASSUME Invariant, NEW g \in GatingSequences, cpc[g] = "handle"
  PROVE  /\ pos[g] \in Sequences /\ pos[g] \in Nat /\ sequence[g] < pos[g]
         /\ pos[g] <= sequence[g] + BufferSize
         /\ Published(pos[g]) /\ Fetch(slots, pos[g]) = pos[g]
         /\ pos[g] <= Reach(g) /\ Reach(g) \in Int
<1>1. /\ TypeOK /\ ReaderInv(g) /\ EventInv(g) /\ g \in Consumers
      /\ pos[g] \in Nat /\ available[g] \in -1..MaxSequence
      /\ Reach(g) = available[g]
  BY WiringType DEF Invariant, TypeOK, Reach, InBatch
<1>2. sequence[g] < pos[g] /\ pos[g] <= available[g]
  BY <1>1 DEF ReaderInv
<1>3. pos[g] \in Sequences
  BY <1>1, <1>2, MaxSequenceAssumption DEF Sequences
<1>4. Published(pos[g]) /\ IsAvailable(stamps, pos[g])
  BY <1>1, <1>2, <1>3 DEF ReaderInv
<1>. QED  BY <1>1, <1>2, <1>3, <1>4 DEF EventInv

\* In a chain of any length the processors that gate the producers are served
\* as they should be, and no two closures meet.
THEOREM LastScopeSafety == Spec => []LastScopeIsSafe
<1>1. Invariant => LastScopeIsSafe
  <2>. SUFFICES ASSUME Invariant  PROVE LastScopeIsSafe
    OBVIOUS
  <2>0. TypeOK
    BY DEF Invariant
  <2>1. ASSUME NEW q \in Producers, ppc[q] = "write"
        PROVE  /\ at[q] \in Pending(q) /\ at[q] \in Nat /\ at[q] \in Sequences
               /\ ~Published(at[q])
               /\ \A g \in GatingSequences :
                    sequence[g] < at[q] /\ at[q] <= sequence[g] + BufferSize
    BY <2>1, PendingInRing
  <2>2. ASSUME NEW g \in GatingSequences, cpc[g] = "handle",
               NEW p \in Producers, ppc[p] = "write"
        PROVE  Index(at[p]) # Index(pos[g])
    <3>1. at[p] # pos[g]
      BY <2>1, <2>2, Handled
    <3>. QED  BY <2>0, <2>1, <2>2, <3>1, Handled, WithinRing
  <2>3. ASSUME NEW p \in Producers, NEW q \in Producers, p # q,
               ppc[p] = "write", ppc[q] = "write"
        PROVE  Index(at[p]) # Index(at[q])
    <3>1. at[p] # at[q]
      BY <2>1, <2>3, PendingApart
    <3>2. PICK g \in Consumers : g \in GatingSequences
      BY SomeGate
    <3>. QED  BY <2>0, <2>1, <2>3, <3>1, <3>2, WithinRing
  <2>. QED  BY <2>2, <2>3, Handled DEF LastScopeIsSafe
<1>. QED  BY <1>1, InvariantHolds, PTL

\* No closure writes a slot that a handler reads or another closure writes.
THEOREM DataRaceFreedom ==
  ASSUME Stages = 1
  PROVE  Spec => []NoDataRace
<1>1. LastScopeIsSafe => NoDataRace
  BY OneScopeGates DEF LastScopeIsSafe, NoDataRace
<1>. QED  BY <1>1, LastScopeSafety, PTL

\* In one scope a closure only replaces an event that every processor has
\* passed.
THEOREM NothingOverwritten ==
  ASSUME Stages = 1
  PROVE  Spec => []NoOverwrite
<1>1. Invariant => NoOverwrite
  <2>. SUFFICES ASSUME Invariant, NEW p \in Producers, ppc[p] = "write",
                       NEW c \in Consumers
                PROVE  at[p] - BufferSize <= sequence[c]
    BY DEF NoOverwrite
  <2>1. at[p] <= sequence[c] + BufferSize
    BY OneScopeGates, PendingInRing
  <2>2. at[p] \in Int /\ sequence[c] \in Int /\ BufferSize \in Int
    BY OneScopeGates, Numbers DEF Invariant
  <2>. QED  BY <2>1, <2>2
<1>. QED  BY <1>1, InvariantHolds, PTL

\* A handler is shown the event written for its sequence, whatever the order
\* in which the threads publish and whichever closures panic.
THEOREM IntegrityHolds ==
  ASSUME Stages = 1
  PROVE  Spec => []EventIntegrity
<1>1. Invariant => EventIntegrity
  BY OneScopeGates, Handled DEF EventIntegrity
<1>. QED  BY <1>1, InvariantHolds, PTL

\* While the ring has not wrapped drain() leaves nothing unhandled that has
\* nothing unpublished before it.
THEOREM FirstDrainIsComplete ==
  ASSUME Stages = 1
  PROVE  Spec => []DrainDeliversFirstLap
<1>1. Invariant => DrainDeliversFirstLap
  <2>. SUFFICES ASSUME Invariant, high_water_mark < BufferSize,
                       owner = "drained", NEW c \in Consumers
                PROVE  sequence[c] >= Contiguous - 1
    BY DEF DrainDeliversFirstLap, DrainDelivers
  <2>1. /\ TypeOK /\ target \in -1..MaxSequence /\ c \in GatingSequences
        /\ sequence[c] \in Int /\ MaxSequence \in Nat
    BY OneScopeGates, Numbers DEF Invariant, TypeOK
  <2>2. ~Published(target + 1) /\ sequence[c] >= target
    BY <2>1 DEF Invariant, ShutdownInv
  <2>3. target + 1 \in Sequences
    BY <2>1 DEF Sequences
  <2>4. Contiguous <= target + 1 /\ Contiguous \in Int
    BY <2>1, <2>2, <2>3, ContiguousIsFirst DEF Sequences
  <2>. QED  BY <2>1, <2>2, <2>4
<1>. QED  BY <1>1, InvariantHolds, PTL

-----------------------------------------------------------------------------
(* The abstract log. *)

\* Contiguous is the first sequence that does not look published.
LEMMA FirstGap ==
  Invariant =>
    /\ Contiguous \in Sequences /\ Contiguous \in Nat
    /\ Contiguous <= high_water_mark + 1
    /\ Contiguous <= MaxSequence => ~Published(Contiguous)
    /\ \A s \in Sequences : s < Contiguous => Published(s)
<1>. SUFFICES ASSUME Invariant
              PROVE  /\ Contiguous \in Sequences /\ Contiguous \in Nat
                     /\ Contiguous <= high_water_mark + 1
                     /\ Contiguous <= MaxSequence => ~Published(Contiguous)
                     /\ \A s \in Sequences : s < Contiguous => Published(s)
  OBVIOUS
<1>. DEFINE gaps == {s \in Sequences : s <= MaxSequence => ~Published(s)}
<1>0. TypeOK /\ high_water_mark \in -1..MaxSequence /\ MaxSequence \in Nat
  BY Numbers DEF Invariant
<1>1. Contiguous = Min(gaps)
  BY DEF Contiguous, Sequences
<1>2. high_water_mark + 1 \in Sequences /\ high_water_mark + 1 \in Nat
  BY <1>0 DEF Sequences
<1>3. ~Published(high_water_mark + 1)
  BY <1>0, <1>2, PublishedIsClaimed
<1>4. gaps \in SUBSET Nat /\ gaps # {}
  BY <1>0, <1>2, <1>3 DEF Sequences
<1>6. Min(gaps) \in gaps /\ \A k \in gaps : Min(gaps) <= k
  <2>. HIDE DEF gaps
  <2>. QED  BY <1>4, SmallestElement
<1>7. Contiguous <= high_water_mark + 1
  BY <1>1, <1>2, <1>3, <1>6
<1>8. \A s \in Sequences : s < Contiguous => Published(s)
  <2>1. \A k \in gaps : Contiguous <= k
    BY <1>1, <1>6
  <2>2. Contiguous \in Nat
    BY <1>1, <1>4, <1>6
  <2>3. \A s \in Sequences : s \in Nat
    BY <1>0 DEF Sequences
  <2>. QED  BY <2>1, <2>2, <2>3
<1>. QED  BY <1>1, <1>4, <1>6, <1>7, <1>8

\* What looks published carries its own stamp or that of a later sequence,
\* which no gating processor is a ring's length behind of.
LEMMA PublishedBy ==
  ASSUME Invariant, NEW s \in Nat, Published(s)
  PROVE  \E t \in Nat : /\ s <= t /\ Index(s) = Index(t)
                         /\ IsAvailable(stamps, t)
                         /\ \A g \in GatingSequences : t <= sequence[g] + BufferSize
<1>1. /\ Index(s) \in Slots /\ stamps[Index(s)] >= Generation(s)
      /\ Generation(s) \in Nat /\ stamps[Index(s)] \in Int
      /\ high_water_mark \in -1..MaxSequence /\ MaxSequence \in Nat
  BY Numbers DEF Invariant, Published
<1>2. PICK t \in 0..high_water_mark :
        Index(s) = Index(t) /\ stamps[Index(s)] = Generation(t)
  BY <1>1 DEF Invariant, StampInv
<1>3. t \in Nat /\ t \in Sequences /\ Generation(t) \in Nat
  BY <1>1, Numbers DEF Invariant, Sequences
<1>4. \A g \in GatingSequences : t <= sequence[g] + BufferSize
  BY <1>2, <1>3 DEF IsAvailable, Invariant, EventInv
<1>5. ~(t < s)
  <2>. SUFFICES ASSUME t < s  PROVE FALSE
    OBVIOUS
  <2>1. Generation(t) < Generation(s)
    BY <1>2, <1>3, LaterGeneration
  <2>. QED  BY <1>1, <1>2, <1>3, <2>1
<1>. QED  BY <1>2, <1>3, <1>4, <1>5 DEF IsAvailable

\* What looks published is at most a ring's length ahead of a gating processor.
LEMMA PublishedInRing ==
  Invariant =>
    \A s \in Nat, g \in GatingSequences :
      Published(s) => s <= sequence[g] + BufferSize
<1>. SUFFICES ASSUME Invariant, NEW s \in Nat, NEW g \in GatingSequences,
                     Published(s)
              PROVE  s <= sequence[g] + BufferSize
  OBVIOUS
<1>. QED  BY PublishedBy, Numbers DEF Invariant

\* What looks published right after a gating processor's sequence is there
\* for it to take.
LEMMA NextIsAvailable ==
  ASSUME Invariant, NEW g \in GatingSequences, NEW s \in Nat,
         s = sequence[g] + 1, Published(s)
  PROVE  IsAvailable(stamps, s)
<1>1. PICK t \in Nat : /\ s <= t /\ Index(s) = Index(t)
                       /\ IsAvailable(stamps, t)
                       /\ t <= sequence[g] + BufferSize
  BY PublishedBy
<1>2. sequence[g] \in Int /\ BufferSize \in Nat
  BY Numbers DEF Invariant
<1>. QED  BY <1>1, <1>2, DistinctSlots

\* Threads and processors never wait for one another in a circle: what comes
\* right after the last gating processor is published, for it to take, or is
\* in a claim that has room, since it starts no later.
THEOREM NoCircularWait == Spec => []SomebodyMoves
<1>1. Invariant => SomebodyMoves
  <2>. SUFFICES ASSUME Invariant, SomebodyWaits, NothingLost,
                       \A p \in Producers : high[p] - low[p] < BufferSize
                PROVE  \/ \E c \in Consumers : HasWork(c)
                       \/ \E p \in Producers : CanPublish(p)
    BY DEF SomebodyMoves
  <2>. DEFINE Next1 == {sequence[g] + 1 : g \in GatingSequences}
  <2>0. /\ TypeOK /\ BufferSize \in Nat /\ BufferSize > 0
        /\ high_water_mark \in Int
        /\ \A g \in GatingSequences :
             g \in Consumers /\ sequence[g] \in Int /\ sequence[g] + 1 \in Nat
        /\ \A p \in Producers : low[p] \in Nat /\ high[p] \in Int
    BY Numbers DEF Invariant
  <2>1. Next1 \in SUBSET Nat /\ Next1 # {}
    BY <2>0, SomeGate
  <2>2. Min(Next1) \in Next1 /\ \A k \in Next1 : Min(Next1) <= k
    <3>. HIDE DEF Next1
    <3>. QED  BY <2>1, SmallestElement
  <2>3. PICK last \in GatingSequences : sequence[last] + 1 = Min(Next1)
    BY <2>2
  <2>4. PICK s \in Nat : s = sequence[last] + 1
    BY <2>0
  <2>5. \A g \in GatingSequences : s <= sequence[g] + 1
    BY <2>2, <2>3, <2>4
  <2>. HIDE DEF Next1
  <2>6. CASE IsAvailable(stamps, s)
    BY <2>0, <2>4, <2>6 DEF HasWork, NextSequence
  <2>7. ASSUME NEW p \in Producers, ppc[p] \in {"cached", "scan"}, ~HasRoom(p),
               ~IsAvailable(stamps, s)
        PROVE  \E q \in Producers : CanPublish(q)
    <3>1. PICK g \in GatingSequences : ~(WrapPoint(p) <= sequence[g])
      BY <2>7 DEF HasRoom
    <3>2. high[p] <= high_water_mark
      BY <2>7 DEF Invariant, ClaimInv
    <3>3. s <= high_water_mark
      BY <2>0, <2>5, <3>1, <3>2 DEF WrapPoint
    <3>4. PICK q \in Producers : s \in Pending(q)
      BY <2>4, <2>7, <3>3, NextIsAvailable, <2>0 DEF NothingLost
    <3>5. CASE ppc[q] \in {"write", "publish"}
      BY <3>5 DEF CanPublish
    <3>6. CASE ppc[q] \in {"cached", "scan"}
      <4>1. low[q] <= s
        BY <2>0, <3>4, <3>6 DEF Pending
      <4>2. HasRoom(q)
        BY <2>0, <2>5, <4>1 DEF HasRoom, WrapPoint
      <4>. QED  BY <3>6, <4>2 DEF CanPublish
    <3>. QED  BY <3>4, <3>5, <3>6 DEF Pending
  <2>8. ASSUME owner = "drain", NEW g \in GatingSequences, sequence[g] < target
        PROVE  IsAvailable(stamps, s)
    <3>1. target \in Int
      BY <2>0 DEF TypeOK
    <3>2. s \in 0..target
      BY <2>0, <2>5, <2>8, <3>1
    <3>. QED  BY <2>8, <3>2 DEF Invariant, ShutdownInv
  <2>. QED  BY <2>6, <2>7, <2>8 DEF SomebodyWaits
<1>. QED  BY <1>1, InvariantHolds, PTL

\* A gating processor was handed no more than is published, and all that its
\* sequence covers.
LEMMA TakenIsPublished ==
  Invariant =>
    \A g \in GatingSequences :
      /\ pos[g] \in Nat /\ sequence[g] \in Int
      /\ sequence[g] < pos[g] /\ pos[g] <= Contiguous
      /\ cpc[g] = "handle" => pos[g] < Contiguous
<1>. SUFFICES ASSUME Invariant, NEW g \in GatingSequences
              PROVE  /\ pos[g] \in Nat /\ sequence[g] \in Int
                     /\ sequence[g] < pos[g] /\ pos[g] <= Contiguous
                     /\ cpc[g] = "handle" => pos[g] < Contiguous
  OBVIOUS
<1>1. /\ TypeOK /\ ReaderInv(g) /\ g \in Consumers /\ pos[g] \in Nat
      /\ sequence[g] \in -1..MaxSequence /\ available[g] \in -1..MaxSequence
      /\ probe[g] \in 0..(MaxSequence + 1) /\ MaxSequence \in Nat
      /\ cpc[g] \in ConsumerStates
  BY WiringType, Numbers DEF Invariant, TypeOK
<1>2. /\ Contiguous \in Nat /\ Contiguous \in Sequences
      /\ Contiguous <= MaxSequence => ~Published(Contiguous)
  BY FirstGap
<1>3. Reach(g) \in -1..MaxSequence
  BY <1>1 DEF Reach
<1>4. Reach(g) < Contiguous
  <2>. SUFFICES ASSUME Contiguous <= Reach(g)  PROVE FALSE
    BY <1>2, <1>3
  <2>. QED  BY <1>1, <1>2, <1>3 DEF ReaderInv
<1>5. CASE cpc[g] \in {"handle", "dead"}
  <2>1. Reach(g) = available[g]
    BY <1>5 DEF Reach, InBatch
  <2>. QED  BY <1>1, <1>2, <1>4, <1>5, <2>1 DEF ReaderInv
<1>6. CASE cpc[g] = "advance"
  <2>1. Reach(g) = available[g]
    BY <1>6 DEF Reach, InBatch
  <2>2. sequence[g] <= Reach(g) /\ pos[g] = available[g] + 1
    BY <1>1, <1>6 DEF ReaderInv
  <2>. QED  BY <1>1, <1>2, <1>4, <1>6, <2>1, <2>2
<1>7. CASE ~InBatch(g)
  <2>1. sequence[g] <= Reach(g) /\ pos[g] = sequence[g] + 1
    BY <1>1, <1>7 DEF ReaderInv
  <2>. QED  BY <1>1, <1>2, <1>3, <1>4, <1>7, <2>1 DEF InBatch
<1>. QED  BY <1>5, <1>6, <1>7 DEF InBatch

\* The first gap only moves up, and no further than every gating processor
\* leaves room for.
LEMMA GapMoves ==
  ASSUME Invariant, [Next]_vars
  PROVE  /\ Contiguous \in Nat /\ Contiguous' \in Nat
         /\ Contiguous <= Contiguous'
         /\ \A g \in GatingSequences : Contiguous' <= pos'[g] + BufferSize
<1>0. /\ Invariant' /\ BufferSize \in Nat /\ MaxSequence \in Nat
      /\ \A s \in Sequences : s \in Nat
  BY InvariantStep, Numbers DEF Invariant, Sequences
<1>1. /\ Contiguous \in Sequences /\ Contiguous \in Nat
      /\ \A s \in Sequences : s < Contiguous => Published(s)
  BY FirstGap
<1>2. /\ Contiguous' \in Sequences /\ Contiguous' \in Nat
      /\ \A s \in Sequences : s < Contiguous' => Published(s)'
      /\ \A s \in Sequences :
           s = Contiguous' /\ s <= MaxSequence => ~Published(s)'
  <2>1. (Invariant =>
           /\ Contiguous \in Sequences /\ Contiguous \in Nat
           /\ Contiguous <= high_water_mark + 1
           /\ Contiguous <= MaxSequence => ~Published(Contiguous)
           /\ \A s \in Sequences : s < Contiguous => Published(s))'
    BY FirstGap, PTL
  <2>. QED  BY <1>0, <2>1 DEF Sequences, Published
<1>3. /\ \A s \in Nat, g \in GatingSequences :
           Published(s)' => s <= sequence'[g] + BufferSize
      /\ \A g \in GatingSequences :
           pos'[g] \in Nat /\ sequence'[g] \in Int /\ sequence'[g] < pos'[g]
  <2>1. (Invariant =>
           \A s \in Nat, g \in GatingSequences :
             Published(s) => s <= sequence[g] + BufferSize)'
    BY PublishedInRing, PTL
  <2>2. (Invariant =>
           \A g \in GatingSequences :
             /\ pos[g] \in Nat /\ sequence[g] \in Int
             /\ sequence[g] < pos[g] /\ pos[g] <= Contiguous
             /\ cpc[g] = "handle" => pos[g] < Contiguous)'
    BY TakenIsPublished, PTL
  <2>. QED  BY <1>0, <2>1, <2>2
<1>4. Contiguous <= Contiguous'
  <2>. SUFFICES ASSUME Contiguous' < Contiguous  PROVE FALSE
    BY <1>1, <1>2
  <2>1. PICK s \in Sequences : s = Contiguous'
    BY <1>2
  <2>2. s < Contiguous /\ s <= MaxSequence
    BY <1>0, <1>1, <2>1 DEF Sequences
  <2>3. Published(s) /\ ~Published(s)'
    BY <1>1, <1>2, <2>1, <2>2
  <2>. QED  BY <2>3, StampsKept
<1>5. ASSUME NEW g \in GatingSequences
      PROVE  Contiguous' <= pos'[g] + BufferSize
  <2>1. PICK m \in 0..(MaxSequence + 1) : m = Contiguous'
    BY <1>2 DEF Sequences
  <2>2. CASE m = 0
    BY <1>0, <1>3, <2>1, <2>2
  <2>3. CASE m # 0
    <3>1. m - 1 \in Sequences /\ m - 1 \in Nat /\ m - 1 < m
      BY <2>3, MaxSequenceAssumption DEF Sequences
    <3>2. Published(m - 1)'
      BY <1>2, <2>1, <3>1
    <3>3. m - 1 <= sequence'[g] + BufferSize
      BY <1>3, <3>1, <3>2
    <3>4. m <= pos'[g] + BufferSize
      BY <1>0, <1>3, <2>1, <3>3
    <3>. QED  BY <2>1, <3>4
  <2>. QED  BY <2>2, <2>3
<1>. QED  BY <1>1, <1>2, <1>4, <1>5

\* Nothing is published by a step that leaves the stamps alone.
LEMMA GapStays ==
  ASSUME UNCHANGED stamps
  PROVE  Contiguous' = Contiguous
BY DEF Contiguous, Published

LEMMA LogInitial == Init => Log!LogInit
<1>. SUFFICES ASSUME Init  PROVE Log!LogInit
  OBVIOUS
<1>1. Invariant /\ high_water_mark = -1
  BY InvariantInitial DEF Init
<1>2. Contiguous = 0
  BY <1>1, FirstGap
<1>. QED  BY <1>2 DEF Init, InitProcessors, Log!LogInit, LogStatus

LEMMA LogStep ==
  ASSUME Stages = 1
  PROVE  Invariant /\ [Next]_vars => [Log!LogNext]_(Log!log)
<1>. SUFFICES ASSUME Invariant, [Next]_vars
              PROVE  Log!LogNext \/ UNCHANGED Log!log
  OBVIOUS
<1>0. /\ TypeOK /\ ShutdownInv
      /\ BufferSize \in Nat /\ high_water_mark \in Int
      /\ Contiguous \in Nat /\ Contiguous' \in Nat
      /\ Contiguous <= Contiguous'
      /\ \A c \in Consumers :
           /\ c \in GatingSequences /\ ReaderInv(c)
           /\ pos[c] \in Nat /\ sequence[c] \in Int
           /\ sequence[c] < pos[c] /\ pos[c] <= Contiguous
           /\ cpc[c] = "handle" => pos[c] < Contiguous
           /\ Contiguous' <= pos'[c] + BufferSize
  BY OneScopeGates, Numbers, TakenIsPublished, GapMoves DEF Invariant
<1>1. ASSUME UNCHANGED <<pos, stamps, owner>>, owner = "shared" \/ UNCHANGED high_water_mark
      PROVE  UNCHANGED Log!log
  BY <1>1, GapStays DEF Log!log, LogStatus
<1>2. ASSUME NEW c \in Consumers, HandleEvent(c), UNCHANGED producerVars
      PROVE  Log!LogNext
  <2>1. /\ cpc[c] = "handle" /\ pos' = [pos EXCEPT ![c] = pos[c] + 1]
        /\ Contiguous' = Contiguous /\ LogStatus' = LogStatus
    BY <1>2, GapStays
       DEF HandleEvent, producerVars, ringVars, drainVars, LogStatus
  <2>2. EarlierReaders(c) = {}
    BY TopologyAssumption
       DEF EarlierReaders, Upstream, SequenceIds, Depth
  <2>3. Log!Deliver(c)
    BY <1>0, <2>1, <2>2 DEF Log!Deliver
  <2>. QED  BY <2>3 DEF Log!LogNext
<1>3. ASSUME NEW c \in Consumers, ExtendBatch(c)  PROVE UNCHANGED Log!log
  <2>1. pos[c] = sequence[c] + 1
    BY <1>0, <1>3 DEF ExtendBatch, ReaderInv, InBatch
  <2>2. UNCHANGED pos
    BY <1>0, <1>3, <2>1
       DEF ExtendBatch, BeginBatch, NextSequence, processorVars, TypeOK
  <2>. QED  BY <1>1, <1>3, <2>2
            DEF ExtendBatch, producerVars, ringVars, drainVars
<1>4. ASSUME NEW c \in Consumers,
             \/ CheckAlert(c) \/ CheckSlot(c) \/ Panic(c)
             \/ Process(c) /\ ~HandleEvent(c)
      PROVE  UNCHANGED Log!log
  BY <1>1, <1>4
     DEF CheckAlert, Shutdown, CheckSlot, Panic, HandlerPanics, Process, Run,
         Advance, processorVars, producerVars, ringVars, drainVars
<1>5. ASSUME NEW p \in Producers, PublishSlot(p)
      PROVE  Log!LogNext \/ UNCHANGED Log!log
  <2>1. /\ ppc[p] = "publish"
        /\ UNCHANGED <<pos, owner, high_water_mark>>
    BY <1>5 DEF PublishSlot, consumerVars, processorVars, drainVars
  <2>2. owner = "shared"
    BY <1>0, <2>1 DEF ShutdownInv
  <2>3. LogStatus = "open" /\ LogStatus' = "open"
    BY <2>1, <2>2 DEF LogStatus
  <2>4. CASE Contiguous' = Contiguous
    BY <2>1, <2>3, <2>4 DEF Log!log
  <2>5. CASE Contiguous' # Contiguous
    <3>1. PICK old \in Nat, new \in Nat :
            old = Contiguous /\ new = Contiguous'
      BY <1>0
    <3>2. old < new /\ \A r \in Consumers : new <= pos[r] + BufferSize
      BY <1>0, <2>1, <2>5, <3>1
    <3>3. PICK c \in Consumers : TRUE
      BY SomeGate
    <3>4. \E n \in 1..BufferSize : new = old + n
      <4>1. pos[c] \in Nat /\ pos[c] <= old /\ new <= pos[c] + BufferSize
        BY <1>0, <3>1, <3>2, <3>3
      <4>2. old < new /\ new <= old + BufferSize /\ BufferSize \in Nat
        BY <1>0, <3>2, <4>1
      <4>3. new - old \in 1..BufferSize /\ new = old + (new - old)
        BY <4>2
      <4>. QED  BY <4>3
    <3>5. PICK n \in 1..BufferSize : new = old + n
      BY <3>4
    <3>6. Log!Append(n)
      BY <2>1, <2>3, <3>1, <3>2, <3>5 DEF Log!Append
    <3>. QED  BY <3>5, <3>6 DEF Log!LogNext
  <2>. QED  BY <2>4, <2>5
<1>6. CASE EndDrainScan
  <2>1. /\ UNCHANGED <<pos, stamps, high_water_mark>> /\ Contiguous' = Contiguous
        /\ owner = "drain" /\ dscan.left = {}
    BY <1>6, GapStays
       DEF EndDrainScan, consumerVars, processorVars, ringVars
  <2>2. CASE CaughtUp /\ high_water_mark < BufferSize
    <3>1. LogStatus = "open" /\ LogStatus' = "finished"
      <4>1. owner' = "drained" /\ high_water_mark' < BufferSize
        BY <1>6, <2>1, <2>2 DEF EndDrainScan
      <4>2. LogStatus = "open"
        BY <2>1 DEF LogStatus
      <4>3. ~(high_water_mark' >= BufferSize)
        BY <1>0, <2>1, <2>2
      <4>4. LogStatus' = "finished"
        BY <4>1, <4>3 DEF LogStatus
      <4>. QED  BY <4>2, <4>4
    <3>2. target \in -1..MaxSequence /\ dscan.low \in Int /\ MaxSequence \in Nat
      BY <1>0, Numbers DEF TypeOK, Scans
    <3>3. Contiguous <= target + 1
      <4>1. ~Published(target + 1)
        BY <1>0, <2>1, <2>2 DEF ShutdownInv
      <4>2. target + 1 \in Sequences
        BY <3>2 DEF Sequences
      <4>. QED  BY <1>0, <4>1, <4>2, ContiguousIsFirst
    <3>4. \A c \in Consumers : target <= sequence[c]
      BY <1>0, <2>1, <2>2, <3>2 DEF CaughtUp, Invariant, ScanInv
    <3>5. \A c \in Consumers : pos[c] = Contiguous
      BY <1>0, <3>2, <3>3, <3>4
    <3>6. Log!Finish
      BY <2>1, <3>1, <3>5 DEF Log!Finish
    <3>. QED  BY <3>6 DEF Log!LogNext
  <2>3. CASE CaughtUp /\ ~(high_water_mark < BufferSize)
    <3>1. LogStatus = "open" /\ LogStatus' = "abandoned"
      BY <1>0, <1>6, <2>1, <2>3 DEF EndDrainScan, LogStatus
    <3>2. Log!Abandon
      BY <2>1, <3>1 DEF Log!Abandon
    <3>. QED  BY <3>2 DEF Log!LogNext
  <2>4. CASE ~CaughtUp
    BY <1>1, <1>6, <2>1, <2>4 DEF EndDrainScan
  <2>. QED  BY <2>2, <2>3, <2>4
<1>7. CASE DropProducer
  <2>1. /\ LogStatus = "open" /\ LogStatus' = "abandoned"
        /\ UNCHANGED <<pos, stamps>>
    BY <1>7 DEF DropProducer, IsLastOwner, LogStatus, consumerVars,
                processorVars, ringVars
  <2>2. Log!Abandon
    BY <2>1, GapStays DEF Log!Abandon
  <2>. QED  BY <2>2 DEF Log!LogNext
<1>8. CASE BeginDrain
  <2>1. /\ LogStatus = "open" /\ LogStatus' = "open"
        /\ UNCHANGED <<pos, stamps>>
    BY <1>8 DEF BeginDrain, IsLastOwner, LogStatus, consumerVars,
                processorVars, ringVars
  <2>. QED  BY <2>1, GapStays DEF Log!log
<1>9. ASSUME NEW p \in Producers,
             \/ \E n \in 1..MaxBatch : Claim(p, n)
             \/ LoadCached(p) \/ LoadGating(p) \/ EndGatingScan(p)
             \/ WriteSlot(p) \/ ClosurePanics(p)
      PROVE  UNCHANGED Log!log
  BY <1>1, <1>9
     DEF Claim, LoadCached, LoadGating, EndGatingScan, WriteSlot,
         ClosurePanics, consumerVars, processorVars, ringVars, drainVars
<1>10. CASE LoadForDrain
  BY <1>1, <1>10 DEF LoadForDrain, consumerVars, processorVars, ringVars
<1>11. CASE UNCHANGED vars
  BY <1>1, <1>11 DEF vars, processorVars, producerVars, ringVars, drainVars
<1>12. ASSUME NEW c \in Consumers, Consumer(c) \/ Panic(c)
       PROVE  Log!LogNext \/ UNCHANGED Log!log
  BY <1>2, <1>3, <1>4, <1>12 DEF Consumer, Process
<1>. QED
  BY <1>5, <1>6, <1>7, <1>8, <1>9, <1>10, <1>11, <1>12
     DEF Next, Produce, Drain, Joined

\* A multi-producer disruptor of one scope implements the bounded log: claims
\* that are stamped out of order are handed to every processor in order, once
\* and with none left out, and drain() finishes the first lap.
THEOREM LogImplemented ==
  ASSUME Stages = 1
  PROVE  Spec => ImplementsLog
<1>. QED
  BY LogInitial, LogStep, InvariantHolds, PTL
     DEF Spec, ImplementsLog, Log!LogSafety
=============================================================================
