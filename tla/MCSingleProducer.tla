-------------------------- MODULE MCSingleProducer --------------------------
(* Small instances of SingleProducer for TLC. *)
EXTENDS SingleProducerProperties, TLC

CONSTANTS c1, c2, c3   \* processors, as model values

\* .with_barrier(|s| { c1 })
OneProcessor == c1 :> 1

\* .with_barrier(|s| { c1; c2 })
OneScope == c1 :> 1 @@ c2 :> 1

\* .with_barrier(|s| { c1; c2 }).with_barrier(|s| { c3 })
Join == c1 :> 1 @@ c2 :> 1 @@ c3 :> 2

\* .with_barrier(|s| { c1 }).with_barrier(|s| { c2 }).with_barrier(|s| { c3 })
Chain == c1 :> 1 @@ c2 :> 2 @@ c3 :> 3

\* The processors of one scope may be exchanged.
Interchangeable == Permutations({c1, c2})
=============================================================================
