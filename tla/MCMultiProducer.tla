--------------------------- MODULE MCMultiProducer --------------------------
(* Small instances of MultiProducer for TLC. *)
EXTENDS MultiProducerProperties, TLC

CONSTANTS
  c1, c2,   \* processors, as model values
  p1, p2    \* producer threads

\* .with_barrier(|s| { c1 })
OneProcessor == c1 :> 1

\* .with_barrier(|s| { c1; c2 })
OneScope == c1 :> 1 @@ c2 :> 1

\* .with_barrier(|s| { c1 }).with_barrier(|s| { c2 })
ShortChain == c1 :> 1 @@ c2 :> 2

\* Producer threads may be exchanged, and the processors of one scope.
Interchangeable == Permutations({c1, c2}) \cup Permutations({p1, p2})
InterchangeableProducers == Permutations({p1, p2})
=============================================================================
