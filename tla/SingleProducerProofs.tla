------------------------ MODULE SingleProducerProofs ------------------------
(***************************************************************************)
(* Theorems about SingleProducer for every ring size, wiring and bound.    *)
(***************************************************************************)
EXTENDS SingleProducerProperties, RingBufferProofs, SharedSequencesProofs

-----------------------------------------------------------------------------
(* Types. *)

LEMMA LoadType ==
  ASSUME TypeOK, NEW sc \in Scans, NEW s \in sc.left
  PROVE  Load(sc, s) \in Scans
BY DEF TypeOK, Load, Scans

LEMMA TypeInitial == Init => TypeOK
<1>. SUFFICES ASSUME Init  PROVE TypeOK
  OBVIOUS
<1>1. sequence \in [SequenceIds -> -1..MaxSequence]
  BY MaxSequenceAssumption DEF Init, InitSequences
<1>2. /\ cpc \in [Consumers -> ConsumerStates]
      /\ pos \in [Consumers -> Nat]
      /\ available \in [Consumers -> -1..MaxSequence]
  BY MaxSequenceAssumption DEF Init, InitProcessors, ConsumerStates
<1>3. slots \in [Slots -> Int]
  BY MaxSequenceAssumption DEF Init, InitSlots, DefaultEvent
<1>4. scan \in [Consumers -> Scans] /\ pscan \in Scans
  BY MinScanType, WiringType DEF Init
<1>5. /\ cached_value \in -1..MaxSequence
      /\ end \in -1..MaxSequence
      /\ min_sequence \in -1..MaxSequence
      /\ next_value \in Nat /\ start \in Nat /\ at \in Nat
  BY MaxSequenceAssumption DEF Init
<1>6. ppc \in ProducerStates /\ is_done \in BOOLEAN /\ torn \subseteq Nat \X BOOLEAN
  BY Zenon DEF Init, ProducerStates
<1>. QED
  BY <1>1, <1>2, <1>3, <1>4, <1>5, <1>6 DEF TypeOK

LEMMA TypeStep == TypeOK /\ [Next]_vars => TypeOK'
<1>. SUFFICES ASSUME TypeOK, [Next]_vars  PROVE TypeOK'
  OBVIOUS
<1>. USE WiringType, MaxSequenceAssumption
<1>0. MinScan(GatingSequences) \in Scans
  <2>. GatingSequences \in SUBSET SequenceIds
    OBVIOUS
  <2>. QED  BY MinScanType
<1>1. ASSUME NEW c \in Consumers, CheckAlert(c)  PROVE TypeOK'
  BY <1>1 DEF TypeOK, CheckAlert, Shutdown, Goto, ConsumerStates,
              producerVars, sequencerVars, claimVars
<1>2. ASSUME NEW c \in Consumers, LoadDependency(c)  PROVE TypeOK'
  BY <1>2, LoadType DEF TypeOK, LoadDependency, processorVars, producerVars,
                        sequencerVars, claimVars
<1>3. ASSUME NEW c \in Consumers, EndScan(c)  PROVE TypeOK'
  <2>1. MinScan(Barrier(c)) \in Scans
    BY MinScanType
  <2>2. scan[c].low \in -1..MaxSequence /\ NextSequence(c) \in Nat
    BY DEF TypeOK, Scans, NextSequence
  <2>. QED
    BY <1>3, <2>1, <2>2
       DEF TypeOK, EndScan, BeginBatch, Retry, Goto, ConsumerStates,
           producerVars, sequencerVars, claimVars
<1>4. ASSUME NEW c \in Consumers, Process(c) \/ Panic(c)  PROVE TypeOK'
  <2>. UNCHANGED <<scan, producerVars>>
    BY <1>4 DEF Process, Panic
  <2>. USE DEF TypeOK, Goto, ConsumerStates, producerVars, sequencerVars,
               claimVars
  <2>1. CASE Run(c) \/ HandlerPanics(c)
    BY <2>1 DEF Run, HandlerPanics
  <2>2. CASE HandleEvent(c)
    BY <2>2 DEF HandleEvent
  <2>3. CASE Advance(c)
    BY <2>3 DEF Advance, SetSequence
  <2>. QED  BY <1>4, <2>1, <2>2, <2>3 DEF Process, Panic
<1>5. ASSUME NEW n \in 1..MaxBatch, BeginWrite(n)  PROVE TypeOK'
  BY <1>5, ProducerAssumption
     DEF TypeOK, BeginWrite, ProducerStates, processorVars, sequencerVars
<1>6. CASE LoadGating
  BY <1>6, LoadType DEF TypeOK, LoadGating, processorVars, sequencerVars
<1>7. CASE RefreshMinimum
  <2>1. pscan.low \in -1..MaxSequence
    BY DEF TypeOK, Scans
  <2>. QED
    BY <1>7, <1>0, <2>1
       DEF TypeOK, RefreshMinimum, processorVars, sequencerVars
<1>8. CASE Claim
  BY <1>8 DEF TypeOK, Claim, ProducerStates, processorVars
<1>9. CASE WriteSlot
  <2>1. slots' \in [Slots -> Int]
    <3>1. slots' = [slots EXCEPT ![Index(at)] = at]
      BY <1>9 DEF WriteSlot, Store
    <3>2. slots \in [Slots -> Int] /\ at \in Int
      BY DEF TypeOK
    <3>. QED  BY <3>1, <3>2
  <2>2. ppc' \in ProducerStates /\ at' \in Nat
    BY <1>9 DEF TypeOK, WriteSlot, ProducerStates
  <2>. QED
    BY <1>9, <2>1, <2>2 DEF TypeOK, WriteSlot, processorVars, sequencerVars
<1>10. CASE ClosurePanics
  <2>1. torn' \subseteq Nat \X BOOLEAN
    <3>1. torn' = torn \cup (start..(at - 1)) \X {TRUE}
                       \cup (at..end) \X {FALSE}
      BY <1>10 DEF ClosurePanics
    <3>2. start..(at - 1) \subseteq Nat /\ at..end \subseteq Nat
      BY DEF TypeOK
    <3>3. torn \subseteq Nat \X BOOLEAN
      BY DEF TypeOK
    <3>. QED  BY <3>1, <3>2, <3>3
  <2>. QED
    BY <1>10, <2>1
       DEF TypeOK, ClosurePanics, ProducerStates, processorVars, sequencerVars,
           claimVars
<1>11. CASE Publish
  BY <1>11 DEF TypeOK, Publish, SetSequence, ProducerStates, processorVars,
               sequencerVars, claimVars
<1>12. CASE BeginDrain
  BY <1>12, <1>0
     DEF TypeOK, BeginDrain, ProducerStates, processorVars, sequencerVars
<1>13. CASE EndDrainScan \/ DropProducer
  <2>1. is_done' \in BOOLEAN
    BY <1>13, Zenon DEF TypeOK, EndDrainScan, DropProducer
  <2>2. pscan' \in Scans /\ ppc' \in ProducerStates
    BY <1>0, <1>13
       DEF TypeOK, EndDrainScan, DropProducer, ProducerStates, claimVars
  <2>. QED
    BY <1>13, <2>1, <2>2
       DEF TypeOK, EndDrainScan, DropProducer, processorVars, claimVars
<1>14. CASE UNCHANGED vars
  BY <1>14 DEF TypeOK, vars, processorVars, producerVars, sequencerVars,
               claimVars
<1>. QED
  BY <1>1, <1>2, <1>3, <1>4, <1>5, <1>6, <1>7, <1>8, <1>9, <1>10, <1>11,
     <1>12, <1>13, <1>14
     DEF Next, Produce, Call, Consumer, Joined

\* Every variable keeps its type, whatever the ring size, the wiring, the
\* batches and the panics.
THEOREM TypeCorrect == Spec => []TypeOK
<1>. QED  BY TypeInitial, TypeStep, PTL DEF Spec

-----------------------------------------------------------------------------
(* What a step can do to the shared counters, seen from outside. *)

LEMMA SequenceSteps ==
  ASSUME TypeOK, [Next]_vars
  PROVE  \/ UNCHANGED sequence
         \/ \E c \in Consumers :
              /\ cpc[c] = "advance"
              /\ sequence' = [sequence EXCEPT ![c] = available[c]]
         \/ /\ ppc = "publish"
            /\ sequence' = [sequence EXCEPT ![Cursor] = end]
<1>1. ASSUME NEW c \in Consumers, Consumer(c) \/ Panic(c)
      PROVE  \/ UNCHANGED sequence
             \/ /\ cpc[c] = "advance"
                /\ sequence' = [sequence EXCEPT ![c] = available[c]]
  BY <1>1 DEF Consumer, Panic, CheckAlert, Shutdown, LoadDependency, EndScan,
              Process, Run, HandleEvent, Advance, HandlerPanics, SetSequence
<1>2. CASE Publish
  BY <1>2 DEF Publish, SetSequence
<1>3. ASSUME NEW n \in 1..MaxBatch, BeginWrite(n)  PROVE UNCHANGED sequence
  BY <1>3 DEF BeginWrite
<1>4. CASE \/ LoadGating \/ RefreshMinimum \/ Claim \/ WriteSlot
           \/ ClosurePanics \/ BeginDrain \/ EndDrainScan \/ DropProducer
           \/ UNCHANGED vars
  BY <1>4 DEF LoadGating, RefreshMinimum, Claim, WriteSlot, ClosurePanics,
              BeginDrain, EndDrainScan, DropProducer, vars
<1>. QED
  BY <1>1, <1>2, <1>3, <1>4 DEF Next, Produce, Call, Joined

\* The shared counters only grow, the fact every unlocked scan relies on.
LEMMA SequencesGrow ==
  ASSUME Invariant, [Next]_vars
  PROVE  /\ \A s \in SequenceIds : sequence[s] <= sequence'[s]
         /\ \A s \in SequenceIds : sequence'[s] \in Int
<1>0. TypeOK /\ TypeOK'
  BY TypeStep DEF Invariant
<1>1. \A s \in SequenceIds : sequence[s] \in Int /\ sequence'[s] \in Int
  BY <1>0 DEF TypeOK
<1>2. CASE UNCHANGED sequence
  BY <1>1, <1>2
<1>3. ASSUME NEW c \in Consumers, cpc[c] = "advance",
             sequence' = [sequence EXCEPT ![c] = available[c]]
      PROVE  \A s \in SequenceIds : sequence[s] <= sequence'[s]
  <2>1. sequence[c] < available[c] /\ available[c] \in Int
    BY <1>0, <1>3 DEF Invariant, BatchInv, TypeOK
  <2>. QED  BY <1>0, <1>1, <1>3, <2>1 DEF TypeOK
<1>4. CASE /\ ppc = "publish"
           /\ sequence' = [sequence EXCEPT ![Cursor] = end]
  <2>1. sequence[Cursor] < start /\ start <= end /\ start \in Int /\ end \in Int
    BY <1>0, <1>4 DEF Invariant, ClaimInv, TypeOK
  <2>2. sequence[Cursor] <= end
    BY <1>1, <2>1, WiringType
  <2>. QED  BY <1>0, <1>1, <1>4, <2>2 DEF TypeOK
<1>. QED
  BY <1>0, <1>1, <1>2, <1>3, <1>4, SequenceSteps

-----------------------------------------------------------------------------
(* Between the scopes. *)

\* What every processor of the scope just before c has passed, every earlier
\* one and the cursor have passed too.
LEMMA BarrierCoversUpstream ==
  ASSUME TypeOK, ScopesInOrder, NEW c \in Consumers, NEW low \in Int,
         \A s \in Barrier(c) : low <= sequence[s]
  PROVE  \A u \in Upstream(c) : low <= sequence[u]
<1>. TAKE u \in Upstream(c)
<1>1. u \in SequenceIds /\ Depth(u) < Stage[c] /\ Stage[c] \in 1..Stages
  BY TopologyAssumption DEF Upstream
<1>2. PICK d \in Barrier(c) : TRUE
  <2>1. CASE Stage[c] = 1
    <3>1. Cursor \in Barrier(c)
      BY <2>1 DEF Barrier, Depth, SequenceIds
    <3>. QED  BY <3>1
  <2>2. CASE Stage[c] # 1
    <3>1. PICK e \in Consumers : Stage[e] = Stage[c] - 1
      BY <1>1, <2>2, TopologyAssumption
    <3>2. e \in Barrier(c)
      BY <3>1, TopologyAssumption DEF Barrier, Depth, SequenceIds
    <3>. QED  BY <3>2
  <2>. QED  BY <2>1, <2>2
<1>3. d \in SequenceIds /\ Depth(d) = Stage[c] - 1
  BY <1>2 DEF Barrier
<1>4. CASE Depth(u) = Stage[c] - 1
  BY <1>1, <1>4 DEF Barrier
<1>5. CASE Depth(u) # Stage[c] - 1
  <2>1. Depth(u) < Depth(d)
    BY <1>1, <1>3, <1>5, WiringType, TopologyAssumption
  <2>2. sequence[d] <= sequence[u]
    BY <1>1, <1>3, <2>1 DEF ScopesInOrder
  <2>. QED  BY <1>1, <1>2, <1>3, <2>2 DEF TypeOK
<1>. QED  BY <1>4, <1>5

LEMMA ScopesStep == Invariant /\ [Next]_vars => ScopesInOrder'
<1>. SUFFICES ASSUME Invariant, [Next]_vars,
                     NEW s \in SequenceIds, NEW t \in SequenceIds,
                     Depth(s) < Depth(t)
              PROVE  sequence'[t] <= sequence'[s]
  BY DEF ScopesInOrder
<1>0. /\ TypeOK /\ TypeOK' /\ sequence[t] <= sequence[s]
      /\ sequence[s] <= sequence'[s] /\ sequence'[s] \in Int
      /\ sequence[s] \in Int /\ sequence[t] \in Int
  BY TypeStep, SequencesGrow DEF Invariant, ScopesInOrder, TypeOK
<1>1. t # Cursor
  BY WiringType DEF Depth
<1>2. CASE sequence'[t] = sequence[t]
  BY <1>0, <1>2
<1>3. CASE sequence'[t] # sequence[t]
  <2>1. /\ t \in Consumers /\ cpc[t] = "advance"
        /\ sequence'[t] = available[t]
    BY <1>0, <1>1, <1>3, SequenceSteps DEF TypeOK
  <2>2. s \in Upstream(t)
    BY <2>1, WiringType DEF Upstream, Depth
  <2>3. available[t] <= sequence[s]
    BY <2>1, <2>2 DEF Invariant, BatchInv, InBatch
  <2>. QED  BY <1>0, <2>1, <2>3 DEF TypeOK
<1>. QED  BY <1>2, <1>3

-----------------------------------------------------------------------------
(* The consumers. *)

\* The steps that concern processor c, and what all others leave alone.
LEMMA ProcessorSteps ==
  ASSUME TypeOK, [Next]_vars, NEW c \in Consumers
  PROVE  \/ CheckAlert(c) \/ LoadDependency(c) \/ EndScan(c)
         \/ Process(c) \/ Panic(c)
         \/ /\ cpc'[c] = cpc[c] /\ pos'[c] = pos[c]
            /\ available'[c] = available[c] /\ scan'[c] = scan[c]
            /\ sequence'[c] = sequence[c]
<1>. DEFINE Same == /\ cpc'[c] = cpc[c] /\ pos'[c] = pos[c]
                    /\ available'[c] = available[c] /\ scan'[c] = scan[c]
                    /\ sequence'[c] = sequence[c]
<1>1. ASSUME NEW d \in Consumers, d # c, Consumer(d) \/ Panic(d)  PROVE Same
  <2>. USE DEF TypeOK, Goto
  <2>1. CASE CheckAlert(d)
    BY <1>1, <2>1 DEF CheckAlert, Shutdown
  <2>2. CASE LoadDependency(d)
    BY <1>1, <2>2 DEF LoadDependency, processorVars
  <2>3. CASE EndScan(d)
    BY <1>1, <2>3 DEF EndScan, BeginBatch, Retry
  <2>4. CASE Process(d)
    BY <1>1, <2>4, WiringType
       DEF Process, Run, HandleEvent, Advance, SetSequence
  <2>5. CASE Panic(d)
    BY <1>1, <2>5 DEF Panic, HandlerPanics
  <2>. QED  BY <1>1, <2>1, <2>2, <2>3, <2>4, <2>5 DEF Consumer
<1>2. CASE Publish
  BY <1>2, WiringType DEF Publish, SetSequence, processorVars, TypeOK
<1>3. ASSUME NEW n \in 1..MaxBatch, BeginWrite(n)  PROVE Same
  BY <1>3 DEF BeginWrite, processorVars
<1>4. CASE \/ LoadGating \/ RefreshMinimum \/ Claim \/ WriteSlot
           \/ ClosurePanics \/ BeginDrain \/ EndDrainScan \/ DropProducer
           \/ UNCHANGED vars
  BY <1>4 DEF LoadGating, RefreshMinimum, Claim, WriteSlot, ClosurePanics,
              BeginDrain, EndDrainScan, DropProducer, vars, processorVars
<1>. QED
  BY <1>1, <1>2, <1>3, <1>4 DEF Next, Produce, Call, Joined, Consumer

LEMMA ScanStep ==
  ASSUME Invariant, [Next]_vars, NEW c \in Consumers
  PROVE  ScanInv(scan[c], Barrier(c))'
<1>0. /\ TypeOK /\ TypeOK' /\ ScanInv(scan[c], Barrier(c))
      /\ \A s \in Barrier(c) : sequence[s] <= sequence'[s]
      /\ \A s \in Barrier(c) : sequence[s] \in Int /\ sequence'[s] \in Int
      /\ scan[c].low \in Int
  BY TypeStep, SequencesGrow, WiringType DEF Invariant, TypeOK, Scans
<1>1. CASE scan'[c] = scan[c]
  BY <1>0, <1>1 DEF ScanInv
<1>2. CASE LoadDependency(c)
  <2>1. PICK s \in scan[c].left :
          scan' = [scan EXCEPT ![c] = Load(scan[c], s)]
    BY <1>2 DEF LoadDependency
  <2>2. scan'[c] = Load(scan[c], s)
    BY <1>0, <2>1 DEF TypeOK
  <2>. QED  BY <1>0, <2>2 DEF ScanInv, Load
<1>3. CASE EndScan(c)
  <2>1. scan'[c] = MinScan(Barrier(c))
    BY <1>0, <1>3 DEF EndScan, TypeOK
  <2>. QED  BY <2>1 DEF ScanInv, MinScan
<1>4. CASE CheckAlert(c) \/ Process(c) \/ Panic(c)
  <2>1. scan'[c] = scan[c]
    BY <1>4 DEF CheckAlert, Process, Panic
  <2>. QED  BY <1>1, <2>1
<1>. QED  BY <1>0, <1>1, <1>2, <1>3, <1>4, ProcessorSteps

LEMMA BatchStep ==
  ASSUME Invariant, [Next]_vars, NEW c \in Consumers
  PROVE  BatchInv(c)'
<1>0. /\ TypeOK /\ TypeOK' /\ BatchInv(c) /\ ScanInv(scan[c], Barrier(c))
      /\ ScopesInOrder
      /\ \A u \in Upstream(c) : sequence[u] <= sequence'[u]
      /\ \A u \in Upstream(c) : sequence[u] \in Int /\ sequence'[u] \in Int
      /\ available[c] \in Int /\ sequence[c] \in Int /\ pos[c] \in Nat
      /\ scan[c].low \in Int
  BY TypeStep, SequencesGrow, WiringType
     DEF Invariant, TypeOK, Upstream, Scans
<1>1. CASE /\ cpc'[c] = cpc[c] /\ pos'[c] = pos[c]
           /\ available'[c] = available[c] /\ sequence'[c] = sequence[c]
  BY <1>0, <1>1 DEF BatchInv, InBatch
<1>2. CASE LoadDependency(c)
  BY <1>0, <1>1, <1>2 DEF LoadDependency, processorVars
<1>3. CASE CheckAlert(c) \/ Run(c)
  <2>1. /\ cpc[c] \in {"spawned", "alert"} /\ cpc'[c] \in {"alert", "scan", "stopped"}
        /\ pos'[c] = pos[c] /\ sequence'[c] = sequence[c]
    BY <1>0, <1>3 DEF CheckAlert, Shutdown, Run, Goto, TypeOK
  <2>. QED  BY <1>0, <2>1 DEF BatchInv, InBatch
<1>4. CASE EndScan(c)
  <2>0. cpc[c] = "scan" /\ pos[c] = sequence[c] + 1 /\ UNCHANGED sequence
    BY <1>0, <1>4 DEF EndScan, BatchInv, InBatch
  <2>1. CASE scan[c].low >= NextSequence(c)
    <3>1. /\ available'[c] = scan[c].low /\ pos'[c] = sequence[c] + 1
          /\ cpc'[c] = "handle"
      BY <1>0, <1>4, <2>1
         DEF EndScan, BeginBatch, NextSequence, Goto, TypeOK
    <3>2. \A s \in Barrier(c) : scan[c].low <= sequence[s]
      BY <1>0, <1>4 DEF EndScan, ScanInv
    <3>3. \A u \in Upstream(c) : scan[c].low <= sequence[u]
      BY <1>0, <3>2, BarrierCoversUpstream
    <3>. QED
      BY <1>0, <2>0, <2>1, <3>1, <3>3 DEF BatchInv, InBatch, NextSequence
  <2>2. CASE ~(scan[c].low >= NextSequence(c))
    <3>1. cpc'[c] = "alert" /\ pos'[c] = pos[c]
      BY <1>0, <1>4, <2>2 DEF EndScan, Retry, Goto, TypeOK
    <3>. QED  BY <2>0, <3>1 DEF BatchInv, InBatch
  <2>. QED  BY <2>1, <2>2
<1>5. CASE HandleEvent(c)
  <2>1. /\ cpc[c] = "handle" /\ pos'[c] = pos[c] + 1
        /\ available'[c] = available[c] /\ sequence'[c] = sequence[c]
        /\ cpc'[c] = IF pos[c] = available[c] THEN "advance" ELSE "handle"
    BY <1>0, <1>5 DEF HandleEvent, Goto, TypeOK
  <2>. QED  BY <1>0, <2>1 DEF BatchInv, InBatch
<1>6. CASE Advance(c)
  <2>1. /\ cpc[c] = "advance" /\ pos'[c] = pos[c]
        /\ sequence'[c] = available[c] /\ cpc'[c] = "alert"
    BY <1>0, <1>6, WiringType DEF Advance, SetSequence, Goto, TypeOK
  <2>. QED  BY <1>0, <2>1 DEF BatchInv, InBatch
<1>7. CASE HandlerPanics(c)
  <2>1. /\ cpc[c] = "handle" /\ pos'[c] = pos[c]
        /\ available'[c] = available[c] /\ sequence'[c] = sequence[c]
        /\ cpc'[c] = "dead"
    BY <1>0, <1>7 DEF HandlerPanics, Goto, TypeOK
  <2>. QED  BY <1>0, <2>1 DEF BatchInv, InBatch
<1>. QED
  BY <1>0, <1>1, <1>2, <1>3, <1>4, <1>5, <1>6, <1>7, ProcessorSteps
     DEF Process, Panic

-----------------------------------------------------------------------------
(* The producer. *)

\* The steps of the producer thread, and what all others leave alone.
LEMMA ProducerSteps ==
  ASSUME TypeOK, [Next]_vars
  PROVE  \/ Produce \/ ClosurePanics \/ BeginDrain \/ DropProducer
         \/ \E n \in 1..MaxBatch : BeginWrite(n)
         \/ UNCHANGED producerVars /\ sequence'[Cursor] = sequence[Cursor]
<1>1. ASSUME NEW c \in Consumers, Consumer(c) \/ Panic(c)
      PROVE  UNCHANGED producerVars /\ sequence'[Cursor] = sequence[Cursor]
  <2>1. UNCHANGED producerVars
    <3>1. CASE CheckAlert(c) \/ EndScan(c)
      BY <3>1 DEF CheckAlert, EndScan
    <3>2. CASE LoadDependency(c)
      BY <3>2 DEF LoadDependency
    <3>3. CASE Process(c) \/ Panic(c)
      BY <3>3 DEF Process, Panic
    <3>. QED  BY <1>1, <3>1, <3>2, <3>3 DEF Consumer
  <2>2. CASE Advance(c)
    BY <2>1, <2>2, WiringType DEF Advance, SetSequence, TypeOK
  <2>3. CASE ~Advance(c)
    BY <1>1, <2>3
       DEF Consumer, Panic, CheckAlert, Shutdown, LoadDependency, EndScan,
           Process, Run, HandleEvent, HandlerPanics
  <2>. QED  BY <2>1, <2>2, <2>3
<1>2. CASE UNCHANGED vars
  BY <1>2 DEF vars
<1>. QED  BY <1>1, <1>2 DEF Next, Call, Joined

LEMMA ProducerScanStep ==
  Invariant /\ [Next]_vars => ScanInv(pscan, GatingSequences)'
<1>. SUFFICES ASSUME Invariant, [Next]_vars
              PROVE  ScanInv(pscan, GatingSequences)'
  OBVIOUS
<1>0. /\ TypeOK /\ ScanInv(pscan, GatingSequences)
      /\ \A s \in GatingSequences : sequence[s] <= sequence'[s]
      /\ \A s \in GatingSequences : sequence[s] \in Int /\ sequence'[s] \in Int
      /\ pscan.low \in Int
  BY SequencesGrow, WiringType DEF Invariant, TypeOK, Scans
<1>1. CASE UNCHANGED pscan
  BY <1>0, <1>1 DEF ScanInv
<1>2. CASE LoadGating
  BY <1>0, <1>2 DEF LoadGating, ScanInv, Load
<1>3. CASE pscan' = MinScan(GatingSequences)
  BY <1>3 DEF ScanInv, MinScan
<1>4. CASE RefreshMinimum \/ BeginDrain \/ EndDrainScan
  BY <1>3, <1>4 DEF RefreshMinimum, BeginDrain, EndDrainScan
<1>5. CASE Claim \/ WriteSlot \/ Publish \/ ClosurePanics \/ DropProducer
  BY <1>1, <1>5 DEF Claim, WriteSlot, Publish, ClosurePanics, DropProducer,
                    claimVars
<1>6. ASSUME NEW n \in 1..MaxBatch, BeginWrite(n)  PROVE UNCHANGED pscan
  BY <1>6 DEF BeginWrite
<1>. QED
  BY <1>0, <1>1, <1>2, <1>4, <1>5, <1>6, ProducerSteps
     DEF Produce, producerVars, claimVars

LEMMA ClaimStep == Invariant /\ [Next]_vars => ClaimInv'
<1>. SUFFICES ASSUME Invariant, [Next]_vars  PROVE ClaimInv'
  OBVIOUS
<1>0. /\ TypeOK /\ TypeOK' /\ ClaimInv
      /\ sequence[Cursor] \in Int /\ next_value \in Nat
      /\ start \in Nat /\ end \in Int /\ at \in Nat
  BY TypeStep, WiringType DEF Invariant, TypeOK
<1>. USE <1>0, MaxSequenceAssumption DEF ClaimInv
<1>1. ASSUME NEW n \in 1..MaxBatch, BeginWrite(n)  PROVE ClaimInv'
  BY <1>1, ProducerAssumption DEF BeginWrite, sequencerVars
<1>2. CASE LoadGating \/ RefreshMinimum \/ BeginDrain
  BY <1>2 DEF LoadGating, RefreshMinimum, BeginDrain, sequencerVars
<1>3. CASE Claim
  <2>1. end <= MaxSequence
    BY DEF TypeOK
  <2>. QED  BY <1>3, <2>1 DEF Claim
<1>4. CASE WriteSlot
  BY <1>4 DEF WriteSlot, sequencerVars
<1>5. CASE ClosurePanics \/ EndDrainScan \/ DropProducer
  BY <1>5 DEF ClosurePanics, EndDrainScan, DropProducer, sequencerVars,
              claimVars
<1>6. CASE Publish
  <2>1. sequence'[Cursor] = end
    BY <1>6, WiringType DEF Publish, SetSequence, TypeOK
  <2>. QED  BY <1>6, <2>1 DEF Publish, sequencerVars, claimVars
<1>7. CASE UNCHANGED producerVars /\ sequence'[Cursor] = sequence[Cursor]
  BY <1>7 DEF producerVars, sequencerVars, claimVars
<1>. QED
  BY <1>1, <1>2, <1>3, <1>4, <1>5, <1>6, <1>7, ProducerSteps DEF Produce

LEMMA CursorStep == Invariant /\ [Next]_vars => CursorInv'
<1>. SUFFICES ASSUME Invariant, [Next]_vars  PROVE CursorInv'
  OBVIOUS
<1>0. /\ TypeOK /\ ClaimInv /\ CursorInv
      /\ sequence[Cursor] \in Int /\ next_value \in Nat
      /\ start \in Nat /\ end \in Int /\ at \in Nat
  BY WiringType DEF Invariant, TypeOK
<1>. USE <1>0 DEF CursorInv, NothingLost
<1>1. CASE /\ UNCHANGED <<torn, next_value, start>>
           /\ sequence'[Cursor] = sequence[Cursor]
           /\ ppc' \in {"write", "publish"} <=> ppc \in {"write", "publish"}
  BY <1>1
<1>2. ASSUME NEW n \in 1..MaxBatch, BeginWrite(n)  PROVE CursorInv'
  BY <1>2 DEF BeginWrite, sequencerVars
<1>3. CASE LoadGating \/ RefreshMinimum \/ BeginDrain
  BY <1>1, <1>3 DEF LoadGating, RefreshMinimum, BeginDrain, sequencerVars
<1>4. CASE WriteSlot
  BY <1>1, <1>4 DEF WriteSlot, sequencerVars
<1>5. CASE EndDrainScan \/ DropProducer
  BY <1>1, <1>5 DEF EndDrainScan, DropProducer, claimVars
<1>6. CASE Claim
  BY <1>6 DEF Claim, ClaimInv
<1>7. CASE ClosurePanics
  <2>1. /\ <<end, FALSE>> \in torn'
        /\ sequence[Cursor] < end
        /\ sequence'[Cursor] = sequence[Cursor]
    <3>1. /\ torn' = torn \cup (start..(at - 1)) \X {TRUE}
                         \cup (at..end) \X {FALSE}
          /\ ppc = "write" /\ UNCHANGED sequence
      BY <1>7 DEF ClosurePanics
    <3>2. end \in at..end
      BY <3>1 DEF ClaimInv
    <3>3. <<end, FALSE>> \in (at..end) \X {FALSE}
      BY <3>2
    <3>4. <<end, FALSE>> \in torn'
      BY <3>1, <3>3
    <3>5. sequence[Cursor] < end
      BY <3>1 DEF ClaimInv
    <3>6. sequence'[Cursor] = sequence[Cursor]
      BY <3>1
    <3>. QED  BY <3>4, <3>5, <3>6
  <2>2. <<end, FALSE>>[1] = end
    OBVIOUS
  <2>3. ~(\A t \in torn' : t[1] <= sequence'[Cursor])
    BY <2>1, <2>2
  <2>. QED  BY <2>3
<1>8. CASE Publish
  <2>1. sequence'[Cursor] = end /\ end = next_value - 1
    BY <1>8, WiringType DEF Publish, SetSequence, ClaimInv, TypeOK
  <2>. QED  BY <1>8, <2>1 DEF Publish, sequencerVars
<1>9. CASE UNCHANGED producerVars /\ sequence'[Cursor] = sequence[Cursor]
  BY <1>1, <1>9 DEF producerVars, sequencerVars, claimVars
<1>. QED
  BY <1>2, <1>3, <1>4, <1>5, <1>6, <1>7, <1>8, <1>9, ProducerSteps DEF Produce

LEMMA GateStep == Invariant /\ [Next]_vars => GateInv'
<1>. SUFFICES ASSUME Invariant, [Next]_vars, NEW g \in GatingSequences
              PROVE  /\ cached_value' <= sequence'[g]
                     /\ min_sequence' <= sequence'[g]
                     /\ next_value' <= sequence'[g] + BufferSize + 1
  BY DEF GateInv
<1>0. /\ cached_value <= sequence[g] /\ min_sequence <= sequence[g]
      /\ next_value <= sequence[g] + BufferSize + 1
      /\ sequence[g] <= sequence'[g]
      /\ sequence[g] \in Int /\ sequence'[g] \in Int
      /\ cached_value \in Int /\ min_sequence \in Int /\ next_value \in Nat
      /\ end \in Int /\ pscan.low \in Int
  BY SequencesGrow, WiringType DEF Invariant, GateInv, TypeOK, Scans
<1>. USE <1>0, PositiveBufferSize
<1>1. CASE UNCHANGED <<next_value, cached_value, min_sequence>>
  BY <1>1
<1>2. ASSUME NEW n \in 1..MaxBatch, BeginWrite(n)
      PROVE  UNCHANGED <<next_value, cached_value>> /\ min_sequence' = cached_value
  BY <1>2 DEF BeginWrite, sequencerVars
<1>3. CASE RefreshMinimum
  <2>1. pscan.low <= sequence[g]
    BY <1>3 DEF Invariant, ScanInv, RefreshMinimum
  <2>. QED  BY <1>3, <2>1 DEF RefreshMinimum, sequencerVars
<1>4. CASE Claim
  BY <1>4 DEF Claim, HasRoom
<1>5. CASE \/ LoadGating \/ WriteSlot \/ Publish \/ EndDrainScan
           \/ ClosurePanics \/ BeginDrain \/ DropProducer
           \/ UNCHANGED producerVars
  BY <1>1, <1>5 DEF LoadGating, WriteSlot, Publish, EndDrainScan,
     ClosurePanics, BeginDrain, DropProducer, producerVars, sequencerVars,
     claimVars
<1>. QED
  BY <1>2, <1>3, <1>4, <1>5, ProducerSteps DEF Produce, Invariant

\* What the last scope has passed every processor has passed.
LEMMA GateCoversAll ==
  ASSUME TypeOK, ScopesInOrder, NEW low \in Int,
         \A g \in GatingSequences : low <= sequence[g]
  PROVE  \A c \in Consumers : low <= sequence[c]
<1>. TAKE c \in Consumers
<1>0. c \in SequenceIds /\ sequence[c] \in Int /\ Stage[c] \in 1..Stages
  BY WiringType, TopologyAssumption DEF TypeOK
<1>1. CASE Stage[c] = Stages
  BY <1>1 DEF GatingSequences
<1>2. CASE Stage[c] # Stages
  <2>1. PICK g \in Consumers : Stage[g] = Stages
    BY TopologyAssumption
  <2>2. g \in GatingSequences /\ Depth(c) < Depth(g) /\ g \in SequenceIds
    BY <1>0, <1>2, <2>1, WiringType, TopologyAssumption
       DEF GatingSequences, Depth
  <2>3. sequence[g] <= sequence[c] /\ sequence[g] \in Int
    BY <1>0, <2>2 DEF ScopesInOrder, TypeOK
  <2>. QED  BY <1>0, <2>2, <2>3
<1>. QED  BY <1>1, <1>2

\* Claims stay within a ring's length of every processor.
LEMMA AllWithinRing ==
  ASSUME TypeOK, ScopesInOrder, GateInv
  PROVE  \A c \in Consumers : next_value <= sequence[c] + BufferSize + 1
<1>0. /\ next_value \in Int /\ BufferSize \in Int
      /\ \A c \in Consumers : sequence[c] \in Int
  BY PositiveBufferSize, WiringType DEF TypeOK
<1>1. PICK low \in Int : low = next_value - BufferSize - 1
  BY <1>0
<1>2. \A g \in GatingSequences : low <= sequence[g]
  BY <1>0, <1>1, WiringType DEF GateInv
<1>3. \A c \in Consumers : low <= sequence[c]
  BY <1>1, <1>2, GateCoversAll
<1>. TAKE c \in Consumers
<1>4. low <= sequence[c] /\ sequence[c] \in Int
  BY <1>0, <1>3
<1>. QED  BY <1>0, <1>1, <1>4

LEMMA NoneAheadOfCursor ==
  ASSUME TypeOK, ScopesInOrder, NEW c \in Consumers
  PROVE  sequence[c] <= sequence[Cursor]
BY WiringType, TopologyAssumption DEF ScopesInOrder, Depth

LEMMA WindowStep == Invariant /\ [Next]_vars => WindowInv'
<1>. SUFFICES ASSUME Invariant, [Next]_vars,
                     NEW s \in 0..MaxSequence,
                     next_value' <= s + BufferSize, s < Written', <<s, FALSE>> \notin torn'
              PROVE  slots'[Index(s)] = s
  BY DEF WindowInv, Fetch
<1>0. /\ TypeOK /\ WindowInv /\ ClaimInv
      /\ s \in Nat /\ next_value \in Nat /\ start \in Nat /\ at \in Nat
      /\ end \in Int /\ BufferSize \in Nat /\ BufferSize > 0
  BY MaxSequenceAssumption, PositiveBufferSize DEF Invariant, TypeOK
<1>1. ASSUME UNCHANGED slots, next_value <= s + BufferSize, s < Written,
             <<s, FALSE>> \notin torn
      PROVE  slots'[Index(s)] = s
  BY <1>0, <1>1 DEF WindowInv, Fetch
<1>2. ASSUME UNCHANGED <<slots, next_value, torn>>, Written' = Written
      PROVE  slots'[Index(s)] = s
  BY <1>1, <1>2
<1>3. ASSUME NEW n \in 1..MaxBatch, BeginWrite(n)
      PROVE  UNCHANGED <<slots, next_value, torn>> /\ Written' = Written
  BY <1>3 DEF BeginWrite, Written, sequencerVars
<1>4. CASE LoadGating \/ RefreshMinimum \/ Publish \/ BeginDrain
           \/ EndDrainScan \/ DropProducer \/ UNCHANGED producerVars
  <2>1. UNCHANGED <<slots, next_value, torn>>
    BY <1>4 DEF LoadGating, RefreshMinimum, Publish, BeginDrain, EndDrainScan,
                DropProducer, producerVars, sequencerVars, claimVars
  <2>2. \/ ppc # "write" /\ ppc' # "write"
        \/ UNCHANGED <<ppc, at>>
    BY <1>4 DEF LoadGating, RefreshMinimum, Publish, BeginDrain, EndDrainScan,
                DropProducer, producerVars, claimVars
  <2>3. Written' = Written
    BY <2>1, <2>2 DEF Written
  <2>. QED  BY <1>2, <2>1, <2>3
<1>5. CASE Claim
  <2>1. /\ UNCHANGED <<slots, torn>> /\ ppc = "gate" /\ ppc' = "write"
        /\ next_value' = end + 1 /\ at' = start
        /\ start = next_value /\ start <= end
    BY <1>0, <1>5 DEF Claim, ClaimInv
  <2>2. Written = next_value /\ Written' = next_value
    BY <2>1 DEF Written
  <2>3. next_value <= s + BufferSize
    BY <1>0, <2>1
  <2>. QED  BY <1>1, <2>1, <2>2, <2>3
<1>6. CASE WriteSlot
  <2>1. /\ UNCHANGED <<next_value, torn>> /\ ppc = "write"
        /\ slots' = [slots EXCEPT ![Index(at)] = at]
        /\ at' = at + 1 /\ ppc' \in {"write", "publish"}
        /\ at = end => ppc' = "publish"
        /\ at # end => ppc' = "write"
    BY <1>6 DEF WriteSlot, Store, sequencerVars
  <2>2. at <= end /\ end = next_value - 1 /\ Written = at
    BY <1>0, <2>1 DEF ClaimInv, Written
  <2>3. Written' = at + 1
    BY <1>0, <2>1, <2>2 DEF Written
  <2>4. CASE s = at
    BY <1>0, <2>1, <2>4, IndexIsSlot DEF TypeOK
  <2>5. CASE s # at
    <3>1. s < at /\ at < s + BufferSize
      BY <1>0, <2>1, <2>2, <2>3, <2>5
    <3>2. Index(s) # Index(at)
      BY <1>0, <3>1, DistinctSlots
    <3>3. slots'[Index(s)] = slots[Index(s)]
      BY <1>0, <2>1, <3>2, IndexIsSlot DEF TypeOK
    <3>. QED  BY <1>0, <2>1, <2>2, <3>1, <3>3 DEF WindowInv, Fetch
  <2>. QED  BY <2>4, <2>5
<1>7. CASE ClosurePanics
  <2>1. /\ UNCHANGED <<slots, next_value>> /\ ppc = "write" /\ ppc' = "idle"
        /\ torn' = torn \cup (start..(at - 1)) \X {TRUE}
                     \cup (at..end) \X {FALSE}
        /\ end = next_value - 1
    BY <1>0, <1>7 DEF ClosurePanics, ClaimInv, sequencerVars
  <2>2. Written = at /\ Written' = next_value
    BY <2>1 DEF Written
  <2>3. <<s, FALSE>> \notin torn /\ s \notin at..end
    BY <2>1
  <2>. QED  BY <1>0, <1>1, <2>1, <2>2, <2>3
<1>. QED
  BY <1>0, <1>2, <1>3, <1>4, <1>5, <1>6, <1>7, ProducerSteps DEF Produce

LEMMA ShutdownStep == Invariant /\ [Next]_vars => ShutdownInv'
<1>. SUFFICES ASSUME Invariant, [Next]_vars  PROVE ShutdownInv'
  OBVIOUS
<1>0. /\ TypeOK /\ TypeOK' /\ ScopesInOrder /\ ScopesInOrder'
      /\ ClaimInv' /\ ShutdownInv
  BY TypeStep, ScopesStep, ClaimStep DEF Invariant
<1>1. /\ is_done <=> ppc \in {"drained", "dropped"}
      /\ (is_done' <=> ppc' \in {"drained", "dropped"})
      /\ is_done => is_done' /\ UNCHANGED <<ppc, next_value>>
      /\ ppc' = "drained" => ppc = "drained" \/ EndDrainScan
  <2>1. is_done <=> ppc \in {"drained", "dropped"}
    BY <1>0 DEF ShutdownInv
  <2>2. ASSUME NEW n \in 1..MaxBatch, BeginWrite(n)
        PROVE  /\ ppc = "idle" /\ ppc' = "gate" /\ is_done' = is_done
    BY <2>2 DEF BeginWrite, sequencerVars
  <2>3. CASE LoadGating \/ RefreshMinimum \/ Claim
    BY <2>1, <2>3 DEF LoadGating, RefreshMinimum, Claim, sequencerVars
  <2>4. CASE WriteSlot \/ ClosurePanics \/ Publish \/ BeginDrain
    <3>1. CASE WriteSlot \/ Publish \/ BeginDrain
      BY <2>1, <3>1 DEF WriteSlot, Publish, BeginDrain, sequencerVars
    <3>2. CASE ClosurePanics
      <4>1. ppc = "write" /\ ppc' = "idle" /\ UNCHANGED <<is_done, next_value>>
        BY <3>2 DEF ClosurePanics, sequencerVars
      <4>. QED  BY <2>1, <4>1
    <3>. QED  BY <2>4, <3>1, <3>2
  <2>5. CASE EndDrainScan
    BY <2>1, <2>5 DEF EndDrainScan
  <2>6. CASE DropProducer
    BY <2>1, <2>6 DEF DropProducer
  <2>7. CASE UNCHANGED producerVars
    BY <2>1, <2>7 DEF producerVars, sequencerVars
  <2>. QED
    BY <1>0, <2>1, <2>2, <2>3, <2>4, <2>5, <2>6, <2>7, ProducerSteps
       DEF Produce
<1>2. ASSUME NEW c \in Consumers, cpc'[c] = "stopped"  PROVE is_done'
  <2>1. CASE cpc[c] = "stopped"
    BY <1>0, <1>1, <2>1 DEF ShutdownInv
  <2>2. CASE cpc[c] # "stopped"
    <3>1. CheckAlert(c) /\ is_done
      BY <1>0, <1>2, <2>2, ProcessorSteps
         DEF CheckAlert, LoadDependency, EndScan, BeginBatch, Retry, Process,
             Run, HandleEvent, Advance, Panic, HandlerPanics, Goto, TypeOK,
             processorVars
    <3>. QED  BY <1>1, <3>1
  <2>. QED  BY <2>1, <2>2
<1>3. ASSUME ppc' = "drained", NEW c \in Consumers
      PROVE  sequence'[c] = next_value' - 1
  <2>0. /\ sequence'[c] \in Int /\ next_value \in Nat /\ next_value' \in Nat
        /\ sequence'[Cursor] \in Int /\ sequence[c] \in Int
        /\ sequence[c] <= sequence'[c]
    BY <1>0, WiringType, SequencesGrow DEF TypeOK
  <2>1. sequence'[c] <= next_value' - 1
    <3>1. sequence'[c] <= sequence'[Cursor]
      BY <1>0, WiringType, TopologyAssumption DEF ScopesInOrder, Depth
    <3>2. sequence'[Cursor] < next_value'
      BY <1>0 DEF ClaimInv
    <3>. QED  BY <2>0, <3>1, <3>2
  <2>2. sequence[c] >= next_value - 1 /\ next_value' = next_value
    <3>1. CASE ppc = "drained"
      BY <1>0, <1>1, <2>0, <3>1 DEF ShutdownInv
    <3>2. CASE ppc # "drained"
      <4>1. /\ EndDrainScan /\ pscan.left = {} /\ CaughtUp
            /\ next_value' = next_value
        BY <1>1, <1>3, <3>2 DEF EndDrainScan
      <4>2. \A g \in GatingSequences :
              /\ pscan.low <= sequence[g]
              /\ pscan.low \in Int /\ sequence[g] \in Int
        BY <1>0, <4>1, WiringType DEF Invariant, ScanInv, TypeOK, Scans
      <4>3. \A g \in GatingSequences : next_value - 1 <= sequence[g]
        BY <2>0, <4>1, <4>2 DEF CaughtUp
      <4>. QED  BY <1>0, <2>0, <4>1, <4>3, GateCoversAll
    <3>. QED  BY <3>1, <3>2
  <2>. QED  BY <2>0, <2>1, <2>2
<1>. QED  BY <1>1, <1>2, <1>3 DEF ShutdownInv

-----------------------------------------------------------------------------
(* The invariant holds, and what follows from it. *)

LEMMA InvariantInitial == Init => Invariant
<1>. SUFFICES ASSUME Init  PROVE Invariant
  OBVIOUS
<1>1. TypeOK
  BY TypeInitial
<1>2. /\ \A s \in SequenceIds : sequence[s] = -1
      /\ sequence[Cursor] = -1
      /\ next_value = 0 /\ cached_value = -1 /\ min_sequence = -1
      /\ ppc = "idle" /\ is_done = FALSE
      /\ pscan = MinScan(GatingSequences)
  BY WiringType DEF Init, InitSequences
<1>3. ASSUME NEW c \in Consumers
      PROVE  BatchInv(c) /\ ScanInv(scan[c], Barrier(c))
  <2>1. /\ cpc[c] = "spawned" /\ pos[c] = 0 /\ sequence[c] = -1
        /\ scan[c] = MinScan(Barrier(c))
    BY <1>2, <1>3, WiringType DEF Init, InitProcessors
  <2>. QED  BY <2>1 DEF BatchInv, InBatch, ScanInv, MinScan
<1>4. ScanInv(pscan, GatingSequences)
  BY <1>2 DEF ScanInv, MinScan
<1>5. ScopesInOrder
  BY <1>2 DEF ScopesInOrder
<1>6. ClaimInv
  BY <1>2, MaxSequenceAssumption DEF ClaimInv
<1>10. CursorInv
  BY <1>2 DEF CursorInv
<1>7. GateInv
  BY <1>2, PositiveBufferSize, WiringType DEF GateInv
<1>8. WindowInv
  BY <1>2 DEF WindowInv, Written
<1>9. ShutdownInv
  <2>1. \A c \in Consumers : cpc[c] # "stopped"
    BY DEF Init, InitProcessors
  <2>. QED  BY <1>2, <2>1 DEF ShutdownInv
<1>. QED
  BY <1>1, <1>3, <1>4, <1>5, <1>6, <1>7, <1>8, <1>9, <1>10 DEF Invariant

LEMMA InvariantStep == Invariant /\ [Next]_vars => Invariant'
<1>. SUFFICES ASSUME Invariant, [Next]_vars  PROVE Invariant'
  OBVIOUS
<1>1. \A c \in Consumers : BatchInv(c)' /\ ScanInv(scan[c], Barrier(c))'
  BY BatchStep, ScanStep
<1>2. TypeOK'
  BY TypeStep DEF Invariant
<1>. QED
  BY <1>1, <1>2, ProducerScanStep, ScopesStep, ClaimStep, CursorStep,
     GateStep, WindowStep, ShutdownStep
     DEF Invariant

\* The invariant of the protocol holds in every reachable state, for every
\* ring size, wiring and batch size, with and without panics.
THEOREM InvariantHolds == Spec => []Invariant
<1>. QED  BY InvariantInitial, InvariantStep, PTL DEF Spec

\* What a handler at work may rely on.
LEMMA HandledEvent ==
  ASSUME Invariant, NEW c \in Consumers, cpc[c] = "handle"
  PROVE  /\ pos[c] \in Nat /\ next_value <= pos[c] + BufferSize
         /\ \A u \in Upstream(c) : pos[c] <= sequence[u]
         /\ pos[c] < Written /\ pos[c] < next_value
<1>0. /\ TypeOK /\ ScopesInOrder /\ GateInv /\ ClaimInv /\ BatchInv(c)
      /\ pos[c] \in Nat /\ sequence[c] \in Int /\ available[c] \in Int
      /\ sequence[Cursor] \in Int /\ next_value \in Nat
      /\ start \in Nat /\ at \in Nat
      /\ BufferSize \in Nat
  BY WiringType, PositiveBufferSize DEF Invariant, TypeOK
<1>1. sequence[c] < pos[c] /\ pos[c] <= available[c]
  BY <1>0 DEF BatchInv
<1>2. \A u \in Upstream(c) : pos[c] <= sequence[u]
  <2>1. \A u \in Upstream(c) : sequence[u] \in Int
    BY <1>0 DEF Upstream, TypeOK
  <2>. QED  BY <1>0, <1>1, <2>1 DEF BatchInv, InBatch
<1>3. pos[c] <= sequence[Cursor]
  BY <1>2, WiringType, TopologyAssumption DEF Upstream, Depth
<1>4. next_value <= sequence[c] + BufferSize + 1
  BY <1>0, AllWithinRing
<1>5. pos[c] < Written /\ pos[c] < next_value
  BY <1>0, <1>3 DEF ClaimInv, Written
<1>. QED  BY <1>0, <1>1, <1>2, <1>4, <1>5

\* No slot is written while a handler holds a reference into it.
THEOREM DataRaceFreedom == Spec => []NoDataRace
<1>1. Invariant => NoDataRace
  <2>. SUFFICES ASSUME Invariant, ppc = "write",
                       NEW c \in Consumers, cpc[c] = "handle"
                PROVE  Index(at) # Index(pos[c])
    BY DEF NoDataRace
  <2>1. /\ at \in Nat /\ next_value \in Nat /\ at < next_value
        /\ BufferSize \in Nat
    <3>1. at \in Nat /\ end \in Int /\ next_value \in Nat
      BY DEF Invariant, TypeOK
    <3>2. at <= end /\ end = next_value - 1
      BY DEF Invariant, ClaimInv
    <3>. QED  BY <3>1, <3>2, PositiveBufferSize
  <2>2. /\ pos[c] \in Nat /\ next_value <= pos[c] + BufferSize
        /\ pos[c] < at
    BY HandledEvent DEF Written
  <2>. QED  BY <2>1, <2>2, DistinctSlots
<1>. QED  BY <1>1, InvariantHolds, PTL

\* A handler is shown the event that was written for its sequence.
THEOREM IntegrityHolds == Spec => []EventIntegrity
<1>1. Invariant => EventIntegrity
  <2>. SUFFICES ASSUME Invariant, NEW c \in Consumers, cpc[c] = "handle",
                       <<pos[c], FALSE>> \notin torn
                PROVE  Fetch(slots, pos[c]) = pos[c]
    BY DEF EventIntegrity
  <2>1. pos[c] \in 0..MaxSequence
    <3>1. next_value <= MaxSequence + 1 /\ next_value \in Nat
      BY DEF Invariant, ClaimInv, TypeOK
    <3>. QED  BY <3>1, HandledEvent, MaxSequenceAssumption
  <2>. QED  BY <2>1, HandledEvent DEF Invariant, WindowInv
<1>. QED  BY <1>1, InvariantHolds, PTL

\* Barrier scopes run one after another on every event.
THEOREM ScopesAreSequential == Spec => []StageOrder
<1>1. Invariant => StageOrder
  BY HandledEvent DEF StageOrder
<1>. QED  BY <1>1, InvariantHolds, PTL

\* When drain() has returned every event has been handled by every processor.
THEOREM DrainIsComplete == Spec => []DrainDelivers
<1>1. Invariant => DrainDelivers
  <2>. SUFFICES ASSUME Invariant, ppc = "drained", NEW c \in Consumers
                PROVE  sequence[c] = next_value - 1 /\ ~InBatch(c)
    BY DEF DrainDelivers
  <2>1. sequence[c] = next_value - 1
    BY DEF Invariant, ShutdownInv
  <2>2. ASSUME InBatch(c)  PROVE FALSE
    <3>1. /\ sequence[c] \in Int /\ available[c] \in Int /\ pos[c] \in Int
          /\ sequence[Cursor] \in Int /\ next_value \in Int
      BY WiringType DEF Invariant, TypeOK
    <3>2. sequence[c] < available[c]
      BY <2>2, <3>1 DEF Invariant, BatchInv, InBatch
    <3>3. available[c] <= sequence[Cursor]
      BY <2>2, WiringType, TopologyAssumption
         DEF Invariant, BatchInv, Upstream, Depth
    <3>4. sequence[Cursor] < next_value
      BY DEF Invariant, ClaimInv
    <3>. QED  BY <2>1, <3>1, <3>2, <3>3, <3>4
  <2>. QED  BY <2>1, <2>2
<1>. QED  BY <1>1, InvariantHolds, PTL

\* The producer and the processors never wait for one another in a circle: a
\* processor behind the cursor, of a scope as early as any such, has all that
\* it waits for.
THEOREM NoCircularWait == Spec => []SomebodyMoves
<1>1. Invariant => SomebodyMoves
  <2>. SUFFICES ASSUME Invariant, NEW g \in GatingSequences, NothingLost,
                       \/ /\ ppc = "gate" /\ end - start < BufferSize
                          /\ sequence[g] + BufferSize < end
                       \/ ppc = "drain" /\ sequence[g] < next_value - 1
                PROVE  \E c \in Consumers : HasWork(c)
    BY DEF SomebodyMoves, ProducerLacks
  <2>. DEFINE Behind == {c \in Consumers : sequence[c] < sequence[Cursor]}
              Scopes == {Stage[c] : c \in Behind}
  <2>0. /\ g \in Consumers /\ Cursor \in SequenceIds
        /\ \A s \in SequenceIds : sequence[s] \in Int
        /\ sequence[g] \in Int /\ sequence[Cursor] \in Int
        /\ next_value \in Nat /\ start \in Nat /\ end \in Int
        /\ BufferSize \in Nat
    BY WiringType, PositiveBufferSize DEF Invariant, TypeOK
  <2>1. sequence[Cursor] + 1 = next_value
    BY DEF Invariant, CursorInv
  <2>2. ppc = "gate" => start = next_value
    BY DEF Invariant, ClaimInv
  <2>3. g \in Behind
    BY <2>0, <2>1, <2>2
  <2>4. Scopes \in SUBSET Nat /\ Scopes # {}
    BY <2>3, TopologyAssumption
  <2>5. Min(Scopes) \in Scopes /\ \A k \in Scopes : Min(Scopes) <= k
    <3>. HIDE DEF Scopes
    <3>. QED  BY <2>4, SmallestElement
  <2>6. PICK c \in Behind : \A d \in Behind : Stage[c] <= Stage[d]
    BY <2>5
  <2>7. ASSUME NEW s \in Barrier(c)  PROVE sequence[c] < sequence[s]
    <3>1. s \in SequenceIds /\ Depth(s) = Stage[c] - 1 /\ Stage[c] \in Nat
      BY TopologyAssumption DEF Barrier
    <3>2. s \notin Behind
      BY <2>6, <3>1, TopologyAssumption DEF Depth
    <3>3. sequence[Cursor] <= sequence[s]
      BY <2>0, <3>1, <3>2 DEF SequenceIds
    <3>. QED  BY <2>0, <3>1, <3>3, WiringType
  <2>. QED  BY <2>7 DEF HasWork
<1>. QED  BY <1>1, InvariantHolds, PTL

-----------------------------------------------------------------------------
(* The abstract log. *)

LEMMA LogInitial == Init => Log!LogInit
BY WiringType DEF Init, InitSequences, InitProcessors, Log!LogInit, LogStatus

LEMMA LogStep == Invariant /\ [Next]_vars => [Log!LogNext]_(Log!log)
<1>. SUFFICES ASSUME Invariant, [Next]_vars
              PROVE  Log!LogNext \/ UNCHANGED Log!log
  OBVIOUS
<1>0. /\ TypeOK /\ ClaimInv /\ GateInv /\ ScopesInOrder /\ ShutdownInv
      /\ BufferSize \in Nat /\ sequence[Cursor] \in Int
      /\ \A c \in Consumers :
           /\ sequence[c] \in Int /\ available[c] \in Int /\ pos[c] \in Nat
           /\ sequence[c] < pos[c] /\ sequence[c] <= sequence[Cursor]
      /\ next_value \in Nat /\ end \in Int /\ start \in Nat
  <2>1. ASSUME NEW c \in Consumers
        PROVE  /\ sequence[c] \in Int /\ available[c] \in Int /\ pos[c] \in Nat
               /\ sequence[c] < pos[c] /\ sequence[c] <= sequence[Cursor]
    <3>1. /\ sequence[c] \in Int /\ available[c] \in Int /\ pos[c] \in Nat
      BY <2>1, WiringType DEF Invariant, TypeOK
    <3>2. sequence[c] < pos[c]
      BY <2>1, <3>1 DEF Invariant, BatchInv, InBatch
    <3>. QED  BY <2>1, <3>1, <3>2, NoneAheadOfCursor DEF Invariant
  <2>. QED  BY <2>1, PositiveBufferSize, WiringType DEF Invariant, TypeOK
<1>1. ASSUME UNCHANGED <<pos, ppc>>, sequence'[Cursor] = sequence[Cursor]
      PROVE  UNCHANGED Log!log
  BY <1>1 DEF Log!log, LogStatus
<1>2. ASSUME NEW c \in Consumers, HandleEvent(c), UNCHANGED producerVars
      PROVE  Log!LogNext
  <2>1. /\ cpc[c] = "handle" /\ pos' = [pos EXCEPT ![c] = pos[c] + 1]
        /\ UNCHANGED sequence
    BY <1>2 DEF HandleEvent
  <2>2. \A u \in Upstream(c) : pos[c] <= sequence[u]
    BY <2>1, HandledEvent
  <2>3. pos[c] < sequence[Cursor] + 1
    BY <1>0, <2>2, WiringType, TopologyAssumption DEF Upstream, Depth
  <2>4. \A u \in EarlierReaders(c) : pos[c] < pos[u]
    <3>. TAKE u \in EarlierReaders(c)
    <3>1. u \in Consumers /\ u \in Upstream(c)
      BY DEF EarlierReaders, Upstream, SequenceIds
    <3>. QED  BY <1>0, <2>2, <3>1
  <2>5. LogStatus' = LogStatus
    BY <1>2 DEF LogStatus, producerVars
  <2>6. Log!Deliver(c)
    BY <2>1, <2>3, <2>4, <2>5 DEF Log!Deliver
  <2>. QED  BY <2>6 DEF Log!LogNext
<1>3. ASSUME NEW c \in Consumers, EndScan(c)  PROVE UNCHANGED Log!log
  <2>1. pos[c] = sequence[c] + 1
    BY <1>3 DEF EndScan, Invariant, BatchInv, InBatch
  <2>2. UNCHANGED pos
    BY <1>0, <1>3, <2>1
       DEF EndScan, BeginBatch, Retry, NextSequence, TypeOK
  <2>. QED  BY <1>1, <1>3, <2>2 DEF EndScan, producerVars
<1>4. ASSUME NEW c \in Consumers,
             \/ CheckAlert(c) \/ LoadDependency(c) \/ Panic(c)
             \/ Process(c) /\ ~HandleEvent(c)
      PROVE  UNCHANGED Log!log
  <2>1. UNCHANGED <<pos, ppc>>
    BY <1>4 DEF CheckAlert, Shutdown, LoadDependency, Panic, HandlerPanics,
                Process, Run, Advance, processorVars, producerVars
  <2>2. sequence'[Cursor] = sequence[Cursor]
    <3>1. CASE Advance(c)
      BY <1>0, <3>1, WiringType DEF Advance, SetSequence, TypeOK
    <3>2. CASE ~Advance(c)
      BY <1>4, <3>2
         DEF CheckAlert, Shutdown, LoadDependency, Panic, HandlerPanics,
             Process, Run
    <3>. QED  BY <3>1, <3>2
  <2>. QED  BY <1>1, <2>1, <2>2
<1>5. CASE Publish
  <2>. DEFINE n == end - sequence[Cursor]
  <2>1. /\ sequence[Cursor] < start /\ start <= end /\ end = next_value - 1
        /\ sequence'[Cursor] = end /\ UNCHANGED pos
        /\ ppc = "publish" /\ ppc' = "idle"
    BY <1>0, <1>5, WiringType
       DEF Publish, SetSequence, ClaimInv, TypeOK, processorVars
  <2>2. \A c \in Consumers : next_value <= sequence[c] + BufferSize + 1
    BY <1>0, AllWithinRing
  <2>3. PICK c \in Consumers : TRUE
    BY TopologyAssumption
  <2>4. n \in 1..BufferSize
    BY <1>0, <2>1, <2>2, <2>3
  <2>5. \A r \in Consumers : (sequence[Cursor] + 1) + n <= pos[r] + BufferSize
    BY <1>0, <2>1, <2>2
  <2>6. sequence'[Cursor] + 1 = (sequence[Cursor] + 1) + n
    BY <1>0, <2>1
  <2>7. LogStatus = "open" /\ LogStatus' = "open"
    BY <2>1 DEF LogStatus
  <2>8. Log!Append(n)
    BY <2>1, <2>5, <2>6, <2>7 DEF Log!Append
  <2>. QED  BY <2>4, <2>8 DEF Log!LogNext
<1>6. CASE EndDrainScan
  <2>1. UNCHANGED pos /\ sequence'[Cursor] = sequence[Cursor]
    BY <1>6 DEF EndDrainScan, processorVars
  <2>2. CASE CaughtUp
    <3>1. /\ pscan.left = {} /\ LogStatus = "open" /\ LogStatus' = "finished"
      BY <1>6, <2>2 DEF EndDrainScan, LogStatus
    <3>2. \A g \in GatingSequences : next_value - 1 <= sequence[g]
      BY <1>0, <2>2, <3>1, WiringType
         DEF CaughtUp, Invariant, ScanInv, TypeOK, Scans
    <3>3. \A c \in Consumers : next_value - 1 <= sequence[c]
      BY <1>0, <3>2, GateCoversAll
    <3>4. ASSUME NEW c \in Consumers  PROVE pos[c] = sequence[Cursor] + 1
      <4>1. sequence[c] = sequence[Cursor]
        BY <1>0, <3>3 DEF ClaimInv
      <4>2. ~InBatch(c)
        <5>1. InBatch(c) => sequence[c] < available[c]
          BY <1>0 DEF Invariant, BatchInv, InBatch
        <5>2. InBatch(c) => available[c] <= sequence[Cursor]
          BY WiringType, TopologyAssumption
             DEF Invariant, BatchInv, Upstream, Depth
        <5>. QED  BY <1>0, <4>1, <5>1, <5>2
      <4>. QED  BY <4>1, <4>2 DEF Invariant, BatchInv
    <3>5. Log!Finish
      BY <2>1, <3>1, <3>4 DEF Log!Finish
    <3>. QED  BY <3>5 DEF Log!LogNext
  <2>3. CASE ~CaughtUp
    BY <1>1, <1>6, <2>1, <2>3 DEF EndDrainScan
  <2>. QED  BY <2>2, <2>3
<1>7. CASE DropProducer
  <2>1. /\ LogStatus = "open" /\ LogStatus' = "abandoned"
        /\ UNCHANGED <<pos, sequence>>
    BY <1>7 DEF DropProducer, LogStatus, processorVars
  <2>2. Log!Abandon
    BY <2>1 DEF Log!Abandon
  <2>. QED  BY <2>2 DEF Log!LogNext
<1>8. CASE \/ LoadGating \/ RefreshMinimum \/ Claim \/ WriteSlot
           \/ ClosurePanics \/ BeginDrain
  <2>1. /\ UNCHANGED <<pos, sequence>>
        /\ ppc \notin {"drained", "dropped"} /\ ppc' \notin {"drained", "dropped"}
    BY <1>8 DEF LoadGating, RefreshMinimum, Claim, WriteSlot, ClosurePanics,
                BeginDrain, processorVars
  <2>. QED  BY <2>1 DEF Log!log, LogStatus
<1>9. ASSUME NEW n \in 1..MaxBatch, BeginWrite(n)  PROVE UNCHANGED Log!log
  BY <1>9 DEF BeginWrite, processorVars, Log!log, LogStatus
<1>10. CASE UNCHANGED vars
  BY <1>1, <1>10 DEF vars, processorVars, producerVars
<1>11. ASSUME NEW c \in Consumers, Consumer(c) \/ Panic(c)
       PROVE  Log!LogNext \/ UNCHANGED Log!log
  BY <1>2, <1>3, <1>4, <1>11 DEF Consumer, Process
<1>. QED
  BY <1>5, <1>6, <1>7, <1>8, <1>9, <1>10, <1>11
     DEF Next, Produce, Call, Joined

\* The disruptor implements the bounded log: every processor is handed every
\* published event, once, in order and after the earlier scopes; no event is
\* dropped for want of room; drain() finishes with nothing left.
THEOREM LogImplemented == Spec => ImplementsLog
<1>. QED
  BY LogInitial, LogStep, InvariantHolds, PTL
     DEF Spec, ImplementsLog, Log!LogSafety
=============================================================================
