--------------------------- MODULE MCSequencerUse ----------------------------
(* A small instance of SequencerUse for TLC. *)
EXTENDS SequencerUseProperties

CONSTANTS c1, c2, p1, p2   \* consumers and threads, as model values

OneScope == [c \in Consumers |-> 1]
=============================================================================
