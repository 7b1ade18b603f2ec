------------------------------ MODULE Topology ------------------------------
(***************************************************************************)
(* The wiring DisruptorBuilder hands to build(): a chain of barrier scopes *)
(* 1..Stages, each holding at least one event processor.  A processor of   *)
(* the first scope waits on the sequencer's cursor, one of scope k + 1 on  *)
(* every processor of scope k; the processors of the last scope gate the   *)
(* producer.                                                               *)
(***************************************************************************)
EXTENDS Integers

CONSTANTS
  Consumers,   \* the event processors, each named by its own sequence
  Cursor,      \* names the sequencer's cursor among the shared sequences
  Stages,      \* number of with_barrier calls
  Stage        \* the scope a processor was registered in

ASSUME TopologyAssumption ==
  /\ Cursor \notin Consumers
  /\ Stages \in Nat \ {0}
  /\ Stage \in [Consumers -> 1..Stages]
  /\ \A k \in 1..Stages : \E c \in Consumers : Stage[c] = k

SequenceIds == Consumers \cup {Cursor}

Depth(s) == IF s = Cursor THEN 0 ELSE Stage[s]

\* gating_sequences of the barrier a processor is created with.
Barrier(c) == {s \in SequenceIds : Depth(s) = Stage[c] - 1}

\* The sequences build() registers with add_gating_sequence.
GatingSequencesOfFirstScope == {c \in Consumers : Stage[c] = 1}
GatingSequences == {c \in Consumers : Stage[c] = Stages}

\* Everything a processor is meant to run after, directly or not.
Upstream(c) == {s \in SequenceIds : Depth(s) < Stage[c]}
=============================================================================
