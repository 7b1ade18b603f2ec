--------------------------- MODULE SingleProducer ---------------------------
(***************************************************************************)
(* A disruptor built with with_single_producer_sequencer: one thread that  *)
(* owns the Producer and its SingleProducerSequencer, and the processors   *)
(* behind a ProcessingSequenceBarrier each.  Every step touches shared     *)
(* memory at most once.                                                    *)
(*                                                                         *)
(*   idle      between two calls on the Producer                           *)
(*   gate      in next(), in the loop that waits for room in the ring      *)
(*   write     in write(), inside the closure for event `at`               *)
(*   publish   about to store the cursor                                   *)
(*   drain     in drain(), waiting for the consumers to catch up           *)
(*   drained   drain() has returned                                        *)
(*   dropped   the Producer was dropped without drain()                    *)
(*                                                                         *)
(* A definition written just above another, with a longer name that begins *)
(* the same way, is a plausible mistake in it: no run uses it but to see   *)
(* that a property would notice.                                           *)
(***************************************************************************)
EXTENDS Processor, FiniteSets

CONSTANTS
  MaxBatch,       \* bound: the most items of one write()
  FaultyClosure   \* whether the closure given to write() may panic

ASSUME ProducerAssumption ==
  /\ MaxBatch \in Nat
  /\ FaultyClosure \in BOOLEAN

VARIABLES
  slots,          \* the ring buffer
  scan,           \* get_minimum_sequence of each barrier, in wait_for
  ppc,            \* where the producer thread is
  next_value,     \* SingleProducerSequencer.next_value
  cached_value,   \* SingleProducerSequencer.cached_value
  is_done,        \* the alert flag every barrier shares
  start, end,     \* the range next() is claiming or has claimed
  min_sequence,   \* local of next()
  pscan,          \* get_minimum_sequence in next() or drain()
  at,             \* sequence the closure is writing
  torn            \* history: the claims abandoned by a panic, each sequence
                  \* with whether it was written

sequencerVars == <<next_value, cached_value, is_done>>
claimVars == <<start, end, min_sequence, pscan, at>>
producerVars == <<ppc, sequencerVars, claimVars, slots, torn>>
vars == <<sequence, processorVars, scan, producerVars>>

ProducerStates ==
  {"idle", "gate", "write", "publish", "drain", "drained", "dropped"}

Init ==
  /\ InitSequences
  /\ InitProcessors
  /\ slots = InitSlots
  /\ scan = [c \in Consumers |-> MinScan(Barrier(c))]
  /\ ppc = "idle"
  /\ next_value = 0
  /\ cached_value = -1
  /\ is_done = FALSE
  /\ start = 0
  /\ end = -1
  /\ min_sequence = -1
  /\ pscan = MinScan(GatingSequences)
  /\ at = 0
  /\ torn = {}

-----------------------------------------------------------------------------
(* The consumer's ProcessingSequenceBarrier::wait_for, the same loop for   *)
(* the three waiting strategies: they differ in how they pass the time.    *)

\* check_alert(), a relaxed load: on shutdown wait_for gives up.
CheckAlert(c) ==
  /\ cpc[c] = "alert"
  /\ IF is_done
       THEN Shutdown(c)
       ELSE Goto(c, "scan") /\ UNCHANGED <<sequence, pos, available>>
  /\ UNCHANGED <<scan, producerVars>>

LoadDependency(c) ==
  /\ cpc[c] = "scan"
  /\ \E s \in scan[c].left : scan' = [scan EXCEPT ![c] = Load(scan[c], s)]
  /\ UNCHANGED <<sequence, processorVars, producerVars>>

\* Another round of wait_for starts with the alert flag again.
RetryWithoutAlert(c) == Goto(c, "scan") /\ UNCHANGED <<pos, available>>
Retry(c) == Goto(c, "alert") /\ UNCHANGED <<pos, available>>

\* minimum_sequence >= sequence, or go round again.
EndScan(c) ==
  /\ cpc[c] = "scan"
  /\ scan[c].left = {}
  /\ IF scan[c].low >= NextSequence(c)
       THEN BeginBatch(c, scan[c].low)
       ELSE Retry(c)
  /\ scan' = [scan EXCEPT ![c] = MinScan(Barrier(c))]
  /\ UNCHANGED <<sequence, producerVars>>

Process(c) ==
  /\ Run(c) \/ HandleEvent(c) \/ Advance(c)
  /\ UNCHANGED <<scan, producerVars>>

Panic(c) == HandlerPanics(c) /\ UNCHANGED <<scan, producerVars>>

Consumer(c) == CheckAlert(c) \/ LoadDependency(c) \/ EndScan(c) \/ Process(c)

-----------------------------------------------------------------------------
(* The producer: Producer::write / moving_write around next and publish.   *)

\* write() of n items, n > 0, enters next(n).
BeginWrite(n) ==
  /\ ppc = "idle"
  /\ next_value + (n - 1) <= MaxSequence
  /\ start' = next_value
  /\ end' = next_value + (n - 1)
  /\ min_sequence' = cached_value
  /\ ppc' = "gate"
  /\ UNCHANGED <<sequence, processorVars, scan, slots, sequencerVars, pscan,
                 at, torn>>

\* The negated condition of next()'s while loop.
HasRoomOneMore == min_sequence + BufferSize >= end - 1
HasRoomStrict == min_sequence + BufferSize > end
HasRoom == min_sequence + BufferSize >= end

\* next(), loop body: the strategy's wait_for reads the gating sequences.
LoadGating ==
  /\ \/ ppc = "gate" /\ ~HasRoom
     \/ ppc = "drain"
  /\ \E s \in pscan.left : pscan' = Load(pscan, s)
  /\ UNCHANGED <<sequence, processorVars, scan, ppc, sequencerVars, start,
                 end, min_sequence, at, slots, torn>>

\* wait_for(min_sequence, ..) returns what it found, or loops itself.
RefreshMinimum ==
  /\ ppc = "gate"
  /\ ~HasRoom
  /\ pscan.left = {}
  /\ min_sequence' = IF pscan.low >= min_sequence THEN pscan.low
                                                  ELSE min_sequence
  /\ pscan' = MinScan(GatingSequences)
  /\ UNCHANGED <<sequence, processorVars, scan, ppc, sequencerVars, start,
                 end, at, slots, torn>>

\* Room at last: next() returns the claim, write() takes its first slot.
Claim ==
  /\ ppc = "gate"
  /\ HasRoom
  /\ cached_value' = min_sequence
  /\ next_value' = end + 1
  /\ at' = start
  /\ ppc' = "write"
  /\ UNCHANGED <<sequence, processorVars, scan, is_done, start, end,
                 min_sequence, pscan, slots, torn>>

WriteSlot ==
  /\ ppc = "write"
  /\ slots' = Store(slots, at, at)
  /\ at' = at + 1
  /\ ppc' = IF at = end THEN "publish" ELSE "write"
  /\ UNCHANGED <<sequence, processorVars, scan, sequencerVars, start, end,
                 min_sequence, pscan, torn>>

\* The closure panics: write() unwinds with its claim made and not published.
\* The Producer survives in whoever catches the panic or shares the Arc.  What
\* comes before the item that panicked is written, but not published either.
ClosurePanics ==
  /\ FaultyClosure
  /\ ppc = "write"
  /\ torn' = torn \cup (start..(at - 1)) \X {TRUE} \cup (at..end) \X {FALSE}
  /\ ppc' = "idle"
  /\ UNCHANGED <<sequence, processorVars, scan, sequencerVars, claimVars,
                 slots>>

\* publish(start, end): one store, the low end is ignored.
PublishLowEnd ==
  /\ ppc = "publish"
  /\ SetSequence(Cursor, start)
  /\ ppc' = "idle"
  /\ UNCHANGED <<processorVars, scan, sequencerVars, claimVars, slots, torn>>
Publish ==
  /\ ppc = "publish"
  /\ SetSequence(Cursor, end)
  /\ ppc' = "idle"
  /\ UNCHANGED <<processorVars, scan, sequencerVars, claimVars, slots, torn>>

BeginDrain ==
  /\ ppc = "idle"
  /\ ppc' = "drain"
  /\ pscan' = MinScan(GatingSequences)
  /\ UNCHANGED <<sequence, processorVars, scan, sequencerVars, start, end,
                 min_sequence, at, slots, torn>>

\* The negated condition of drain()'s while loop.
CaughtUpButOne == pscan.low >= next_value - 2
CaughtUpStrict == pscan.low > next_value - 1
CaughtUp == pscan.low >= next_value - 1

\* drain() goes round again, or raises the flag.
EndDrainScan ==
  /\ ppc = "drain"
  /\ pscan.left = {}
  /\ IF CaughtUp
       THEN ppc' = "drained" /\ is_done' = TRUE
       ELSE UNCHANGED <<ppc, is_done>>
  /\ pscan' = MinScan(GatingSequences)
  /\ UNCHANGED <<sequence, processorVars, scan, next_value, cached_value,
                 start, end, min_sequence, at, slots, torn>>

\* impl Drop for SingleProducerSequencer.
DropProducer ==
  /\ ppc = "idle"
  /\ is_done' = TRUE
  /\ ppc' = "dropped"
  /\ UNCHANGED <<sequence, processorVars, scan, next_value, cached_value,
                 claimVars, slots, torn>>

\* What the thread does by itself once a call is made.
Produce ==
  \/ LoadGating \/ RefreshMinimum \/ Claim \/ WriteSlot \/ Publish
  \/ EndDrainScan

\* What the program around it may do.
Call ==
  \/ \E n \in 1..MaxBatch : BeginWrite(n)
  \/ BeginDrain
  \/ DropProducer

\* Every thread has ended: join() returns.
Joined ==
  /\ ppc \in {"drained", "dropped"}
  /\ \A c \in Consumers : cpc[c] \in {"stopped", "dead"}
  /\ UNCHANGED vars

Next ==
  \/ Produce
  \/ Call
  \/ ClosurePanics
  \/ \E c \in Consumers : Consumer(c) \/ Panic(c)
  \/ Joined

Spec == Init /\ [][Next]_vars

\* A call runs to its end and a spawned thread is scheduled.  No call has to
\* be made and no panic has to happen.
FairSpec ==
  /\ Spec
  /\ WF_vars(Produce)
  /\ \A c \in Consumers : WF_vars(Consumer(c))
=============================================================================
