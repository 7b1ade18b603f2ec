--------------------------- MODULE AvailableBuffer --------------------------
(***************************************************************************)
(* AvailableSequenceBuffer (utils.rs): one stamp per slot of the ring.     *)
(* Sequence s is available while its slot carries the generation of s, the *)
(* number of laps before it, so nothing has to be cleared when the ring    *)
(* wraps.  Stamps are stored and loaded one at a time; set_batch writes    *)
(* those of lo..hi in order, and BatchSlot and BatchStamp say where and    *)
(* what it writes for each.                                                *)
(***************************************************************************)
EXTENDS RingBuffer, FiniteSetsExt

CONSTANT SmallBatch   \* 8 in the code: above it set_batch looks for a span

ASSUME SmallBatchAssumption == SmallBatch \in Nat

InitStamps == [i \in Slots |-> -1]

\* sequence >> index_shift
Generation(s) == s \div BufferSize

IsAvailableOrOlder(stamps, s) == stamps[Index(s)] <= Generation(s)
IsAvailable(stamps, s) == stamps[Index(s)] = Generation(s)

\* A large batch that does not wrap is written as one span of slots.
IsSpan(lo, hi) == hi - lo + 1 > SmallBatch /\ Index(lo) <= Index(hi)

BatchSlot(lo, hi, s) == IF IsSpan(lo, hi) THEN Index(lo) + (s - lo)
                                          ELSE Index(s)

BatchStamp(lo, hi, s) == IF IsSpan(lo, hi) THEN Generation(lo) + Generation(s - lo)
                                           ELSE Generation(s)

\* highest_published_sequence: the end of the run of available sequences that
\* starts at `from`, and from - 1 when there is none.
HighestPublished(stamps, from, to) ==
  LET missing == {s \in from..to : ~IsAvailable(stamps, s)}
  IN  IF missing # {} THEN Min(missing) - 1
      ELSE IF from <= to THEN to ELSE from - 1
=============================================================================
