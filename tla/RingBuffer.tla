----------------------------- MODULE RingBuffer -----------------------------
(***************************************************************************)
(* The pre-allocated event store (ringbuffer.rs): BufferSize slots, where  *)
(* sequence s lives in slot s & (capacity - 1).  A payload is abstracted   *)
(* to the sequence it was written for, as the tests of lib.rs do with      *)
(* *slot = seq.  The store itself synchronises nothing.                    *)
(***************************************************************************)
EXTENDS Integers

CONSTANT BufferSize

\* is_power_of_two, asserted by RingBuffer::new before anything is built.
IsPowerOfTwo(x) == x # 0 /\ \E k \in 0..x : x = 2^k

ASSUME BufferSizeAssumption == BufferSize \in Nat /\ IsPowerOfTwo(BufferSize)

Slots == 0..(BufferSize - 1)

\* The T::default() that a slot holds until it is first written.
DefaultEvent == -1

InitSlots == [i \in Slots |-> DefaultEvent]

\* sequence & (capacity - 1), which is the remainder for a power of two.
Index(s) == s % BufferSize

\* A write through get_mut(s), and what get(s) refers to.
Store(slots, s, event) == [slots EXCEPT ![Index(s)] = event]
Fetch(slots, s) == slots[Index(s)]
=============================================================================
