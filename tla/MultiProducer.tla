---------------------------- MODULE MultiProducer ---------------------------
(***************************************************************************)
(* A disruptor built with with_multi_producer_sequencer: threads that      *)
(* share one Producer in an Arc, its MultiProducerSequencer, and the       *)
(* processors behind an MpmcSequenceBarrier each, which watches the stamps *)
(* of the slots and nothing else.  Every step touches shared memory at     *)
(* most once.                                                              *)
(*                                                                         *)
(* A producer thread is                                                    *)
(*   idle      between two calls on the Producer                           *)
(*   cached    in next(), its range taken, about to read cached_value      *)
(*   scan      in next(), in get_minimum_sequence                          *)
(*   write     in write(), inside the closure for event at[p]              *)
(*   publish   in publish(), about to stamp the slot of at[p]              *)
(* and the Producer they share, in `owner`, is                             *)
(*   shared    in use                                                      *)
(*   drain     unwrapped by the last thread, which waits in drain()        *)
(*   drained   drain() has returned                                        *)
(*   dropped   the last Arc was dropped without drain()                    *)
(*                                                                         *)
(* A definition written just above another, with a longer name that begins *)
(* the same way, is a plausible mistake in it, as in SingleProducer.       *)
(***************************************************************************)
EXTENDS Processor, AvailableBuffer

CONSTANTS
  Producers,         \* the producer threads
  MaxBatch,          \* bound: the most items of one write()
  RefreshInterval,   \* 1024 in the code: REFRESH_MASK + 1
  ScanLimit,         \* 1024 in the code: how far wait_for extends a batch
  FaultyClosure      \* whether the closure given to write() may panic

ASSUME ProducersAssumption ==
  /\ MaxBatch \in Nat
  /\ RefreshInterval \in Nat \ {0}
  /\ ScanLimit \in Nat
  /\ FaultyClosure \in BOOLEAN

VARIABLES
  slots,             \* the ring buffer
  stamps,            \* available_buffer
  high_water_mark,   \* the last claimed sequence
  cached_value,
  is_done,           \* the alert flag every barrier shares
  ppc,               \* where each producer thread is
  low, high,         \* the range each thread has claimed
  at,                \* the event it is writing or publishing
  pscan,             \* its get_minimum_sequence
  owner,             \* what became of the shared Producer
  target,            \* local of drain()
  dscan,             \* get_minimum_sequence in drain()
  probe              \* highest_published_sequence of each barrier

ringVars == <<slots, stamps>>
claimVars == <<ppc, low, high, at, pscan>>
drainVars == <<owner, target, dscan, is_done>>
producerVars == <<ringVars, high_water_mark, cached_value, claimVars, drainVars>>
vars == <<sequence, processorVars, probe, producerVars>>

Init ==
  /\ InitSequences
  /\ InitProcessors
  /\ slots = InitSlots
  /\ stamps = InitStamps
  /\ high_water_mark = -1
  /\ cached_value = -1
  /\ is_done = FALSE
  /\ ppc = [p \in Producers |-> "idle"]
  /\ low = [p \in Producers |-> 0]
  /\ high = [p \in Producers |-> -1]
  /\ at = [p \in Producers |-> 0]
  /\ pscan = [p \in Producers |-> MinScan(GatingSequences)]
  /\ owner = "shared"
  /\ target = -1
  /\ dscan = MinScan(GatingSequences)
  /\ probe = [c \in Consumers |-> 0]

-----------------------------------------------------------------------------
(* The consumer's MpmcSequenceBarrier::wait_for. *)

CheckAlert(c) ==
  /\ cpc[c] = "alert"
  /\ IF is_done
       THEN Shutdown(c)
       ELSE Goto(c, "scan") /\ UNCHANGED <<sequence, pos, available>>
  /\ UNCHANGED <<probe, producerVars>>

\* is_available(sequence): leave the waiting loop, or go round again.
CheckSlotWithoutAlert(c) ==
  /\ cpc[c] = "scan"
  /\ Goto(c, IF IsAvailable(stamps, NextSequence(c)) THEN "extend" ELSE "scan")
  /\ probe' = [probe EXCEPT ![c] = NextSequence(c)]
  /\ UNCHANGED <<sequence, pos, available, producerVars>>
CheckSlot(c) ==
  /\ cpc[c] = "scan"
  /\ Goto(c, IF IsAvailable(stamps, NextSequence(c)) THEN "extend" ELSE "alert")
  /\ probe' = [probe EXCEPT ![c] = NextSequence(c)]
  /\ UNCHANGED <<sequence, pos, available, producerVars>>

\* highest_published_sequence(sequence, sequence + 1024), one load per step:
\* the first one looks again at the slot that was just seen available.
ExtendBatch(c) ==
  /\ cpc[c] = "extend"
  /\ IF probe[c] <= NextSequence(c) + ScanLimit /\ IsAvailable(stamps, probe[c])
       THEN /\ probe' = [probe EXCEPT ![c] = @ + 1]
            /\ UNCHANGED processorVars
       ELSE /\ BeginBatch(c, probe[c] - 1)
            /\ UNCHANGED probe
  /\ UNCHANGED <<sequence, producerVars>>

Process(c) ==
  /\ Run(c) \/ HandleEvent(c) \/ Advance(c)
  /\ UNCHANGED <<probe, producerVars>>

Panic(c) == HandlerPanics(c) /\ UNCHANGED <<probe, producerVars>>

Consumer(c) == CheckAlert(c) \/ CheckSlot(c) \/ ExtendBatch(c) \/ Process(c)

-----------------------------------------------------------------------------
(* A producer thread: Producer::write / moving_write around next and       *)
(* publish.                                                                *)

consumerVars == <<sequence, processorVars, probe>>

GotoP(p, state) == ppc' = [ppc EXCEPT ![p] = state]

\* write() of n items, n > 0: next(n) takes its range with one fetch-add.
Claim(p, n) ==
  /\ ppc[p] = "idle"
  /\ owner = "shared"
  /\ high_water_mark + n <= MaxSequence
  /\ high_water_mark' = high_water_mark + n
  /\ low' = [low EXCEPT ![p] = high_water_mark + 1]
  /\ high' = [high EXCEPT ![p] = high_water_mark + n]
  /\ GotoP(p, "cached")
  /\ UNCHANGED <<consumerVars, ringVars, cached_value, at, pscan, drainVars>>

WrapPointOneLess(p) == high[p] - BufferSize - 1
WrapPointOneMore(p) == high[p] - BufferSize + 1
WrapPoint(p) == high[p] - BufferSize

\* (next & REFRESH_MASK) == 0
IsRefreshDue(p) == (low[p] - 1) % RefreshInterval = 0

\* cached_value.get(), and which way next() goes with it.
LoadCached(p) ==
  /\ ppc[p] = "cached"
  /\ GotoP(p, IF WrapPoint(p) > cached_value \/ IsRefreshDue(p)
                THEN "scan" ELSE "write")
  /\ at' = [at EXCEPT ![p] = low[p]]
  /\ UNCHANGED <<consumerVars, ringVars, high_water_mark, cached_value, low,
                 high, pscan, drainVars>>

LoadGating(p) ==
  /\ ppc[p] = "scan"
  /\ \E s \in pscan[p].left : pscan' = [pscan EXCEPT ![p] = Load(pscan[p], s)]
  /\ UNCHANGED <<consumerVars, ringVars, high_water_mark, cached_value, ppc,
                 low, high, at, drainVars>>

\* cached_value.set(..) of the minimum found, then out of next() or round
\* again.
EndGatingScan(p) ==
  /\ ppc[p] = "scan"
  /\ pscan[p].left = {}
  /\ cached_value' = pscan[p].low
  /\ GotoP(p, IF WrapPoint(p) <= pscan[p].low THEN "write" ELSE "scan")
  /\ pscan' = [pscan EXCEPT ![p] = MinScan(GatingSequences)]
  /\ UNCHANGED <<consumerVars, ringVars, high_water_mark, low, high, at,
                 drainVars>>

WriteSlot(p) ==
  /\ ppc[p] = "write"
  /\ slots' = Store(slots, at[p], at[p])
  /\ IF at[p] = high[p]
       THEN at' = [at EXCEPT ![p] = low[p]] /\ GotoP(p, "publish")
       ELSE at' = [at EXCEPT ![p] = @ + 1] /\ UNCHANGED ppc
  /\ UNCHANGED <<consumerVars, stamps, high_water_mark, cached_value, low,
                 high, pscan, drainVars>>

\* The closure panics: the range is never published.  The thread may catch it
\* and go on; others share the Producer in any case.
ClosurePanics(p) ==
  /\ FaultyClosure
  /\ ppc[p] = "write"
  /\ GotoP(p, "idle")
  /\ UNCHANGED <<consumerVars, ringVars, high_water_mark, cached_value, low,
                 high, at, pscan, drainVars>>

\* publish(low, high): set_batch, one stamp at a time.
PublishSlotButLast(p) ==
  /\ ppc[p] = "publish"
  /\ IF at[p] = high[p]
       THEN UNCHANGED stamps
       ELSE stamps' = [stamps EXCEPT ![BatchSlot(low[p], high[p], at[p])] =
                                     BatchStamp(low[p], high[p], at[p])]
  /\ IF at[p] = high[p]
       THEN GotoP(p, "idle") /\ UNCHANGED at
       ELSE at' = [at EXCEPT ![p] = @ + 1] /\ UNCHANGED ppc
  /\ UNCHANGED <<consumerVars, slots, high_water_mark, cached_value, low,
                 high, pscan, drainVars>>
PublishSlot(p) ==
  /\ ppc[p] = "publish"
  /\ stamps' = [stamps EXCEPT ![BatchSlot(low[p], high[p], at[p])] =
                                BatchStamp(low[p], high[p], at[p])]
  /\ IF at[p] = high[p]
       THEN GotoP(p, "idle") /\ UNCHANGED at
       ELSE at' = [at EXCEPT ![p] = @ + 1] /\ UNCHANGED ppc
  /\ UNCHANGED <<consumerVars, slots, high_water_mark, cached_value, low,
                 high, pscan, drainVars>>

Produce(p) ==
  \/ LoadCached(p) \/ LoadGating(p) \/ EndGatingScan(p)
  \/ WriteSlot(p) \/ PublishSlot(p)

-----------------------------------------------------------------------------
(* The end of the Producer.  Both need the last Arc (Arc::try_unwrap), so  *)
(* no thread is inside a call.                                             *)

IsLastOwner == owner = "shared" /\ \A p \in Producers : ppc[p] = "idle"

\* drain() fixes its target; no producer is left to stamp anything meanwhile.
BeginDrain ==
  /\ IsLastOwner
  /\ owner' = "drain"
  /\ target' = HighestPublished(stamps, 0, high_water_mark)
  /\ dscan' = MinScan(GatingSequences)
  /\ UNCHANGED <<consumerVars, ringVars, high_water_mark, cached_value,
                 claimVars, is_done>>

LoadForDrain ==
  /\ owner = "drain"
  /\ \E s \in dscan.left : dscan' = Load(dscan, s)
  /\ UNCHANGED <<consumerVars, ringVars, high_water_mark, cached_value,
                 claimVars, owner, target, is_done>>

CaughtUpButOne == dscan.low >= target - 1
CaughtUpStrict == dscan.low > target
CaughtUp == dscan.low >= target

EndDrainScan ==
  /\ owner = "drain"
  /\ dscan.left = {}
  /\ IF CaughtUp
       THEN owner' = "drained" /\ is_done' = TRUE
       ELSE UNCHANGED <<owner, is_done>>
  /\ dscan' = MinScan(GatingSequences)
  /\ UNCHANGED <<consumerVars, ringVars, high_water_mark, cached_value,
                 claimVars, target>>

\* impl Drop for MultiProducerSequencer.
DropProducer ==
  /\ IsLastOwner
  /\ owner' = "dropped"
  /\ is_done' = TRUE
  /\ UNCHANGED <<consumerVars, ringVars, high_water_mark, cached_value,
                 claimVars, target, dscan>>

Drain == LoadForDrain \/ EndDrainScan

\* Every thread has ended: join() returns.
Joined ==
  /\ owner \in {"drained", "dropped"}
  /\ \A c \in Consumers : cpc[c] \in {"stopped", "dead"}
  /\ UNCHANGED vars

Next ==
  \/ \E p \in Producers :
       \/ \E n \in 1..MaxBatch : Claim(p, n)
       \/ Produce(p)
       \/ ClosurePanics(p)
  \/ \E c \in Consumers : Consumer(c) \/ Panic(c)
  \/ BeginDrain \/ Drain \/ DropProducer
  \/ Joined

Spec == Init /\ [][Next]_vars

\* A call runs to its end and a spawned thread is scheduled.  No call has to
\* be made and no panic has to happen.
FairSpec ==
  /\ Spec
  /\ \A p \in Producers : WF_vars(Produce(p))
  /\ WF_vars(Drain)
  /\ \A c \in Consumers : WF_vars(Consumer(c))
=============================================================================
