-------------------------- MODULE SharedSequences ---------------------------
(***************************************************************************)
(* The AtomicSequence counters threads share, and the loop of              *)
(* Utils::get_minimum_sequence over a slice of them.  The loop loads one   *)
(* counter per step, so others may move between two of its loads.  The     *)
(* order of the loads, that of the slice in the code, is left open here.   *)
(***************************************************************************)
EXTENDS Topology

CONSTANT MaxSequence   \* stands for i64::MAX, and bounds what is ever claimed

ASSUME MaxSequenceAssumption == MaxSequence \in Nat

VARIABLE sequence

InitSequences == sequence = [s \in SequenceIds |-> -1]

SetSequence(s, value) == sequence' = [sequence EXCEPT ![s] = value]

\* The loop before its first load: nothing read, min_val = i64::MAX.
MinScan(ids) == [left |-> ids, low |-> MaxSequence]

\* One iteration: load s, keep the smaller value.
LoadLatest(scan, s) == [left |-> scan.left \ {s}, low |-> sequence[s]]
Load(scan, s) ==
  [left |-> scan.left \ {s},
   low  |-> IF sequence[s] < scan.low THEN sequence[s] ELSE scan.low]

Scans == [left : SUBSET SequenceIds, low : -1..MaxSequence]
=============================================================================
