----------------------- MODULE SharedSequencesProofs ------------------------
(***************************************************************************)
(* Facts about the wiring and the minimum scan that the proofs about both  *)
(* kinds of disruptor use.                                                 *)
(***************************************************************************)
EXTENDS SharedSequences, TLAPS

\* The processors, and only they, gate and are depended on besides the cursor.
LEMMA WiringType ==
  /\ Consumers \subseteq SequenceIds
  /\ Cursor \in SequenceIds /\ Cursor \notin Consumers
  /\ GatingSequences \subseteq Consumers
  /\ \A c \in Consumers : Barrier(c) \subseteq SequenceIds
  /\ \A s \in SequenceIds : Depth(s) \in 0..Stages
BY TopologyAssumption DEF SequenceIds, GatingSequences, Barrier, Depth

\* A scan starts out well typed.
LEMMA MinScanType ==
  ASSUME NEW ids \in SUBSET SequenceIds
  PROVE  MinScan(ids) \in Scans
BY MaxSequenceAssumption DEF MinScan, Scans
=============================================================================
