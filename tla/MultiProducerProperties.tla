---------------------- MODULE MultiProducerProperties -----------------------
(***************************************************************************)
(* What must be true of MultiProducer, the inductive invariant behind it,  *)
(* and the abstract log it implements.                                     *)
(***************************************************************************)
EXTENDS MultiProducer

\* Every variable has its type; no sequence is stored, read or stamped past
\* the last one that could be claimed.
TypeOK ==
  /\ sequence \in [SequenceIds -> -1..MaxSequence]
  /\ cpc \in [Consumers -> ConsumerStates]
  /\ pos \in [Consumers -> Nat]
  /\ available \in [Consumers -> -1..MaxSequence]
  /\ probe \in [Consumers -> 0..(MaxSequence + 1)]
  /\ slots \in [Slots -> Int]
  /\ stamps \in [Slots -> Int]
  /\ high_water_mark \in -1..MaxSequence
  /\ cached_value \in -1..MaxSequence
  /\ is_done \in BOOLEAN
  /\ ppc \in [Producers -> {"idle", "cached", "scan", "write", "publish"}]
  /\ low \in [Producers -> Nat]
  /\ high \in [Producers -> -1..MaxSequence]
  /\ at \in [Producers -> Nat]
  /\ pscan \in [Producers -> Scans]
  /\ owner \in {"shared", "drain", "drained", "dropped"}
  /\ target \in -1..MaxSequence
  /\ dscan \in Scans

\* s was published, in this lap of the ring or, later, overwritten by another.
Published(s) == stamps[Index(s)] >= Generation(s)

\* How many events are published with none missing before them.
Contiguous ==
  Min({s \in 0..(MaxSequence + 1) : s <= MaxSequence => ~Published(s)})

\* The claimed sequences a thread still has to stamp.
Pending(p) ==
  CASE ppc[p] \in {"cached", "scan", "write"} -> low[p]..high[p]
    [] ppc[p] = "publish" -> at[p]..high[p]
    [] OTHER -> {}

-----------------------------------------------------------------------------
(* Safety. *)

\* The contract of get and get_mut (ringbuffer.rs): no closure is in a slot
\* that a handler, or the closure of another producer thread, is in, though
\* the threads claim without looking and all refresh one cached_value.
NoDataRace ==
  \A p \in Producers : ppc[p] = "write" =>
    /\ \A c \in Consumers : cpc[c] = "handle" => Index(at[p]) # Index(pos[c])
    /\ \A q \in Producers \ {p} :
         ppc[q] = "write" => Index(at[p]) # Index(at[q])

\* A handler is shown the event written for its sequence, whatever the order
\* in which the claims were published, and never one of an abandoned claim.
EventIntegrity ==
  \A c \in Consumers : cpc[c] = "handle" => Fetch(slots, pos[c]) = pos[c]

\* "Block until all consumers have processed up to the highest contiguous
\* published sequence, then signal shutdown" (sequencer.rs, drain).
DrainDelivers ==
  owner = "drained" => \A c \in Consumers : sequence[c] >= Contiguous - 1

\* What is left of it: that holds while the ring has not wrapped, holes left
\* by panicking closures included.
DrainDeliversFirstLap == high_water_mark < BufferSize => DrainDelivers

\* "Different barrier scopes run sequentially" (builder.rs): a handler sees an
\* event only when the handlers of all earlier scopes are done with it.
StageOrder ==
  \A c \in Consumers : cpc[c] = "handle" =>
    \A u \in Upstream(c) \ {Cursor} : pos[c] <= sequence[u]

\* "Backpressure is enforced by tracking the minimum of consumer sequences to
\* avoid overwriting unprocessed data when the ring wraps" (sequencer.rs).
NoOverwrite ==
  \A p \in Producers : ppc[p] = "write" =>
    \A c \in Consumers : at[p] - BufferSize <= sequence[c]

\* In a chain of any length the processors that gate the producers are served
\* as they should be: each is shown the event written for its sequence, and no
\* closure is in its slot or in that of another closure.  The earlier scopes
\* are not, as the runs with two of them show.
LastScopeIsSafe ==
  /\ \A g \in GatingSequences : cpc[g] = "handle" =>
       /\ Fetch(slots, pos[g]) = pos[g]
       /\ \A p \in Producers : ppc[p] = "write" => Index(at[p]) # Index(pos[g])
  /\ \A p, q \in Producers :
       p # q /\ ppc[p] = "write" /\ ppc[q] = "write" => Index(at[p]) # Index(at[q])

\* Every sequence the counter has handed out is published or still with a
\* thread that will publish it: no hole is left for the processors to wait at.
\* True while no closure panics, as write() publishes nothing when one does.
NothingLost ==
  \A s \in 0..high_water_mark : Published(s) \/ \E p \in Producers : s \in Pending(p)

\* Threads claim first and wait for room afterwards, each behind processors
\* that may wait for what another one has claimed.  All that waiting is
\* spinning, so a circle in it would stop nobody and be seen by nobody.  There
\* is none: while a thread lacks room, or drain() an event, some processor has
\* an event to take or is at work, or some thread has room for its claim.
\* Assumed is that all claims fit the ring and that no claim and no processor
\* was lost to a panic.
HasWork(c) == InBatch(c) \/ IsAvailable(stamps, NextSequence(c))

HasRoom(p) == \A g \in GatingSequences : WrapPoint(p) <= sequence[g]

CanPublish(p) ==
  \/ ppc[p] \in {"write", "publish"}
  \/ ppc[p] \in {"cached", "scan"} /\ HasRoom(p)

SomebodyWaits ==
  \/ \E p \in Producers : ppc[p] \in {"cached", "scan"} /\ ~HasRoom(p)
  \/ owner = "drain" /\ \E g \in GatingSequences : sequence[g] < target

SomebodyMoves ==
  /\ SomebodyWaits /\ NothingLost
  /\ \A p \in Producers : high[p] - low[p] < BufferSize
  /\ \A c \in Consumers : cpc[c] # "dead"
  => (\E c \in Consumers : HasWork(c)) \/ (\E p \in Producers : CanPublish(p))

-----------------------------------------------------------------------------
(* Liveness, under FairSpec, in one scope, with no panics and MaxBatch <=  *)
(* BufferSize.                                                             *)

\* A call of write() returns, also when it waits for room behind the claims
\* of other threads that wait as well.
WritesReturn == \A p \in Producers : ppc[p] = "cached" ~> ppc[p] = "idle"

\* drain() returns.
DrainTerminates == owner = "drain" ~> owner = "drained"

\* After drain() or the last drop every processor leaves its loop.
ThreadsEnd == is_done ~> \A c \in Consumers : cpc[c] = "stopped"

-----------------------------------------------------------------------------
(* The abstract log.  A drain() after the first lap promises no more than  *)
(* a drop, see DrainDelivers, and is mapped to one.                        *)

LogStatus ==
  CASE owner = "drained" /\ high_water_mark < BufferSize -> "finished"
    [] owner = "drained" /\ high_water_mark >= BufferSize -> "abandoned"
    [] owner = "dropped" -> "abandoned"
    [] OTHER -> "open"

EarlierReaders(c) == Upstream(c) \ {Cursor}

Log == INSTANCE BroadcastLog WITH
  Readers   <- Consumers,
  Before    <- EarlierReaders,
  Capacity  <- BufferSize,
  published <- Contiguous,
  taken     <- pos,
  status    <- LogStatus

\* A multi-producer disruptor of one scope implements the bounded multicast
\* log, its fairness included: claims published out of order come out in
\* order, in full and once.
ImplementsLiveLog == Log!LogSpec

\* The safety part of that.
ImplementsLog == Log!LogSafety

-----------------------------------------------------------------------------
(* The inductive invariant.  It speaks of the processors that gate the     *)
(* producers, which in a chain of one scope are all of them.               *)

Sequences == 0..(MaxSequence + 1)

\* A claim is a range below the mark, and at is inside it.
ClaimInv(p) ==
  ppc[p] # "idle" =>
    /\ low[p] <= high[p] /\ high[p] <= high_water_mark
    /\ ppc[p] = "scan" => at[p] = low[p]
    /\ ppc[p] \in {"write", "publish"} => low[p] <= at[p] /\ at[p] <= high[p]

\* No two threads hold overlapping claims.
ClaimsApart ==
  \A p, q \in Producers :
    p # q /\ ppc[p] # "idle" /\ ppc[q] # "idle" =>
      high[p] < low[q] \/ high[q] < low[p]

\* What is pending does not look published, and whatever does was claimed.
StampInv ==
  /\ \A p \in Producers : \A s \in Pending(p) : ~Published(s)
  /\ \A i \in Slots : stamps[i] # -1 =>
       \E s \in 0..high_water_mark : i = Index(s) /\ stamps[i] = Generation(s)

\* A thread writes only what all gating processors have made room for, and
\* what it wrote stays until it is published.
RoomInv(p) ==
  ppc[p] \in {"write", "publish"} =>
    /\ high[p] < low[p] + BufferSize
    /\ \A g \in GatingSequences : high[p] <= sequence[g] + BufferSize
    /\ \A s \in Pending(p) :
         ppc[p] = "publish" \/ s < at[p] => Fetch(slots, s) = s

\* How far a processor has seen the stamps.
Reach(c) == CASE InBatch(c) -> available[c]
              [] cpc[c] = "extend" -> probe[c] - 1
              [] OTHER -> sequence[c]

\* Where a gating processor stands, and that nothing is missing up to there.
ReaderInv(g) ==
  /\ cpc[g] \in {"handle", "dead"} =>
       sequence[g] < pos[g] /\ pos[g] <= available[g]
  /\ cpc[g] = "advance" => pos[g] = available[g] + 1
  /\ ~InBatch(g) => pos[g] = sequence[g] + 1
  /\ sequence[g] <= Reach(g)
  /\ \A s \in Sequences : s <= Reach(g) => Published(s)
  /\ \A s \in Sequences :
       sequence[g] < s /\ s <= Reach(g) => IsAvailable(stamps, s)

\* What carries its own stamp is within a ring's length of a gating
\* processor, and is in its slot while that processor has not passed it.
EventInv(g) ==
  \A s \in Sequences : IsAvailable(stamps, s) =>
    /\ s <= sequence[g] + BufferSize
    /\ sequence[g] < s => Fetch(slots, s) = s

\* A minimum found so far is a lower bound of what was loaded for it.
ScanInv(sc) ==
  /\ sc.left \subseteq GatingSequences
  /\ \A g \in GatingSequences \ sc.left : sc.low <= sequence[g]

\* drain() and the flag.  Up to its target all is published, and in the first
\* lap nothing that follows on it is.
ShutdownInv ==
  /\ owner # "shared" => \A p \in Producers : ppc[p] = "idle"
  /\ is_done <=> owner \in {"drained", "dropped"}
  /\ owner \in {"drain", "drained"} /\ high_water_mark < BufferSize =>
       ~Published(target + 1)
  /\ owner = "drain" => \A s \in 0..target : IsAvailable(stamps, s)
  /\ owner = "drained" => \A g \in GatingSequences : sequence[g] >= target

Invariant ==
  /\ TypeOK
  /\ \A p \in Producers : ClaimInv(p) /\ RoomInv(p) /\ ScanInv(pscan[p])
  /\ ClaimsApart
  /\ StampInv
  /\ FaultyClosure \/ NothingLost
  /\ \A g \in GatingSequences :
       ReaderInv(g) /\ EventInv(g) /\ cached_value <= sequence[g]
  /\ ScanInv(dscan)
  /\ ShutdownInv
=============================================================================
