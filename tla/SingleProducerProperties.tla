---------------------- MODULE SingleProducerProperties ----------------------
(***************************************************************************)
(* What must be true of SingleProducer, the inductive invariant behind it, *)
(* and the abstract log it implements.                                     *)
(***************************************************************************)
EXTENDS SingleProducer

\* Every variable has its type; a sequence is never stored past the last one
\* that could be claimed.
TypeOK ==
  /\ sequence \in [SequenceIds -> -1..MaxSequence]
  /\ cpc \in [Consumers -> ConsumerStates]
  /\ pos \in [Consumers -> Nat]
  /\ available \in [Consumers -> -1..MaxSequence]
  /\ slots \in [Slots -> Int]
  /\ scan \in [Consumers -> Scans]
  /\ ppc \in ProducerStates
  /\ next_value \in Nat
  /\ cached_value \in -1..MaxSequence
  /\ is_done \in BOOLEAN
  /\ start \in Nat
  /\ end \in -1..MaxSequence
  /\ min_sequence \in -1..MaxSequence
  /\ pscan \in Scans
  /\ at \in Nat
  /\ torn \subseteq Nat \X BOOLEAN

-----------------------------------------------------------------------------
(* Safety. *)

\* get_mut's contract (traits.rs: the Sequencer guarantees that no two
\* accesses to a slot conflict): while the closure writes a slot no handler
\* holds a reference into it, whatever the interleaving of the unlocked
\* minimum scans on both sides and however stale cached_value is.
NoDataRace ==
  ppc = "write" =>
    \A c \in Consumers : cpc[c] = "handle" => Index(at) # Index(pos[c])

\* What the Checker of the tests asserts: a handler is shown the event written
\* for its sequence, never an older or a newer one in the same slot.  (Of
\* what a closure that panicked has not written nothing can be said.)
EventIntegrity ==
  \A c \in Consumers :
    cpc[c] = "handle" => \/ Fetch(slots, pos[c]) = pos[c]
                         \/ <<pos[c], FALSE>> \in torn

\* Different barrier scopes run sequentially: a handler sees an event only
\* when every handler of every earlier scope, and the producer, are done with
\* it, although a barrier watches the scope just before it and no other.
StageOrder ==
  \A c \in Consumers :
    cpc[c] = "handle" => \A u \in Upstream(c) : pos[c] <= sequence[u]

\* drain() returns only when every processor of every scope has handled every
\* event, although it looks at the last scope only and one counter at a time.
DrainDelivers ==
  ppc = "drained" =>
    \A c \in Consumers : sequence[c] = next_value - 1 /\ ~InBatch(c)

\* All waiting here is spinning, so a circle of waits would not stop anybody
\* and would be seen by nobody.  There is none: while the producer lacks room
\* for a claim that fits the ring, or drain() lacks an event, some processor is
\* at work or has all it waits for.  Assumed is that no thread was lost to a
\* panic, and no claim ahead of the cursor: nothing could replace those.
HasWork(c) == InBatch(c) \/ \A s \in Barrier(c) : sequence[c] < sequence[s]

ProducerLacks ==
  \E g \in GatingSequences :
    \/ ppc = "gate" /\ end - start < BufferSize /\ sequence[g] + BufferSize < end
    \/ ppc = "drain" /\ sequence[g] < next_value - 1

NothingLost == \A t \in torn : t[1] <= sequence[Cursor]

SomebodyMoves ==
  ProducerLacks /\ NothingLost /\ (\A c \in Consumers : cpc[c] # "dead") =>
    \E c \in Consumers : HasWork(c)

\* publish "publishes the given sequence range" (traits.rs): no handler is
\* given a sequence that no call of publish named.
OnlyPublished ==
  \A c \in Consumers : cpc[c] = "handle" =>
    \A written \in BOOLEAN : <<pos[c], written>> \notin torn

-----------------------------------------------------------------------------
(* Liveness, under FairSpec, with no panics and MaxBatch <= BufferSize. *)

\* A producer waiting for room gets it: nobody waits on everybody, even when
\* a batch needs the whole ring.
WriteReturns == ppc = "gate" ~> ppc = "idle"

\* drain() returns.
DrainTerminates == ppc = "drain" ~> ppc = "drained"

\* After drain() or a drop every processor leaves its loop: join() returns.
ThreadsEnd == is_done ~> \A c \in Consumers : cpc[c] = "stopped"

-----------------------------------------------------------------------------
(* The abstract log. *)

EarlierReaders(c) == Upstream(c) \ {Cursor}

LogStatus == CASE ppc = "drained" -> "finished"
               [] ppc = "dropped" -> "abandoned"
               [] OTHER -> "open"

Log == INSTANCE BroadcastLog WITH
  Readers   <- Consumers,
  Before    <- EarlierReaders,
  Capacity  <- BufferSize,
  published <- sequence[Cursor] + 1,
  taken     <- pos,
  status    <- LogStatus

\* Whatever is observed of a disruptor could be observed of the log.
ImplementsLog == Log!LogSafety

\* And nothing is held back for ever while the Producer lives.
ImplementsLiveLog == Log!LogSpec

-----------------------------------------------------------------------------
(* The inductive invariant. *)

\* Where a processor stands between its sequence and the batch it was given;
\* the batch was complete upstream when it was given.
BatchInv(c) ==
  /\ cpc[c] \in {"handle", "dead"} =>
       sequence[c] < pos[c] /\ pos[c] <= available[c]
  /\ cpc[c] = "advance" =>
       sequence[c] < available[c] /\ pos[c] = available[c] + 1
  /\ ~InBatch(c) => pos[c] = sequence[c] + 1
  /\ InBatch(c) => \A u \in Upstream(c) : available[c] <= sequence[u]

\* A minimum found so far is a lower bound of what was loaded for it: the
\* counters only grow, so a scan that is out of date errs on the safe side.
ScanInv(sc, ids) ==
  /\ sc.left \subseteq ids
  /\ \A s \in ids \ sc.left : sc.low <= sequence[s]

\* No scope is ahead of an earlier one.
ScopesInOrder ==
  \A s, t \in SequenceIds : Depth(s) < Depth(t) => sequence[t] <= sequence[s]

\* The claim at hand and the cursor.
ClaimInv ==
  /\ sequence[Cursor] < next_value
  /\ next_value <= MaxSequence + 1
  /\ ppc = "gate" => start = next_value /\ start <= end
  /\ ppc \in {"write", "publish"} =>
       sequence[Cursor] < start /\ start <= end /\ end = next_value - 1
  /\ ppc = "write" => start <= at /\ at <= end

\* The cursor is right behind what is claimed, or behind the claim at hand,
\* unless a claim was abandoned and none published since.
CursorInv ==
  NothingLost =>
    sequence[Cursor] + 1 = IF ppc \in {"write", "publish"} THEN start
                                                            ELSE next_value

\* What the producer believes of the gating sequences is never too much, and
\* its claims stay within a ring's length of every one of them.
GateInv ==
  \A g \in GatingSequences :
    /\ cached_value <= sequence[g]
    /\ min_sequence <= sequence[g]
    /\ next_value <= sequence[g] + BufferSize + 1

\* Sequences from here up to next_value are claimed and not yet written.
Written == IF ppc = "write" THEN at ELSE next_value

\* The ring holds the last BufferSize of the claimed events.
WindowInv ==
  \A s \in 0..MaxSequence :
    next_value <= s + BufferSize /\ s < Written /\ <<s, FALSE>> \notin torn =>
      Fetch(slots, s) = s

ShutdownInv ==
  /\ is_done <=> ppc \in {"drained", "dropped"}
  /\ \A c \in Consumers : cpc[c] = "stopped" => is_done
  /\ ppc = "drained" => \A c \in Consumers : sequence[c] = next_value - 1

Invariant ==
  /\ TypeOK
  /\ \A c \in Consumers : BatchInv(c) /\ ScanInv(scan[c], Barrier(c))
  /\ ScanInv(pscan, GatingSequences)
  /\ ScopesInOrder
  /\ ClaimInv
  /\ CursorInv
  /\ GateInv
  /\ WindowInv
  /\ ShutdownInv
=============================================================================
