---------------------------- MODULE SequencerUse ----------------------------
(***************************************************************************)
(* A sequencer used by itself, without builder or processors, as the trait *)
(* Sequencer allows and the tests in sequencer.rs do.  While one thread    *)
(* owns it (&mut) it claims and publishes in any order and adds and        *)
(* removes gating sequences in between; once it is shared in an Arc that   *)
(* set is fixed, several threads claim and publish, and others play the    *)
(* consumers.  What is done with it is the program, chosen at the start.   *)
(*                                                                         *)
(* A thread that claims is                                                 *)
(*   idle      between two calls                                           *)
(*   cached    in next(), about to read cached_value                       *)
(*   scan      in next(), in get_minimum_sequence                          *)
(*   publish   in publish(), about to stamp the slot of at[p]              *)
(***************************************************************************)
EXTENDS SharedSequences, AvailableBuffer

CONSTANTS
  Producers,         \* the threads that may claim
  Owner,             \* the one that sets everything up
  BatchSizes,        \* how many sequences next() of the owner may ask for
  OwnClaims,         \* bound: its calls of next() while it owns the sequencer
  RefreshInterval,   \* 1024 in the code: REFRESH_MASK + 1
  ScanLimit,         \* 1024 in the code: how far wait_for extends a batch
  ShortRun,          \* claims of a thread that do not wrap the ring
  LongRun,           \* claims of a thread that wrap it, ungated
  GatedRun           \* claims of a thread in the program with readers

ASSUME UseAssumption ==
  /\ Owner \in Producers
  /\ BatchSizes \subseteq Nat \ {0}
  /\ {OwnClaims, ScanLimit, ShortRun, LongRun, GatedRun} \subseteq Nat
  /\ RefreshInterval \in Nat \ {0}
  /\ GatedRun * Cardinality(Producers) - BufferSize \in Nat

\* What the concurrent tests choose where no consumer holds them back: all the
\* claims of all threads but one are fewer than the ring has slots (4 x 8 claims
\* on 64 slots, 2 x 10 on 16, 2 x 20 on 64, 8 x 100 on 1024).
ASSUME RunsAssumption ==
  /\ IsFiniteSet(Producers)
  /\ \A run \in {ShortRun, LongRun} :
       (Cardinality(Producers) - 1) * run < BufferSize

VARIABLES
  kind,             \* "single" or "multi": which sequencer it is
  program,          \* what is done with it
  shared,           \* whether it is in an Arc
  gating,           \* gating_sequences
  claimed,          \* next_value - 1, or high_water_mark
  cached_value,
  stamps,           \* available_buffer
  ppc,              \* where each thread is
  low, high, at,    \* the range it claims or publishes, and the event
  pscan,            \* its get_minimum_sequence
  claims,           \* ranges next() returned and publish() was not given yet
  todo,             \* claims a thread has still to make
  unread,           \* events a reader has still to see
  joined            \* history: gating sequences added in good order

rangeVars == <<low, high, at, pscan>>
sequencerVars == <<gating, claimed, cached_value>>
vars == <<sequence, kind, program, shared, sequencerVars, stamps, ppc,
          rangeVars, claims, todo, unread, joined>>

-----------------------------------------------------------------------------
(* The programs, cut down from the tests; `share` tells whether the        *)
(* sequencer is put in an Arc, `claims` how many of one sequence each      *)
(* thread makes then, `gate` whether all consumers gate it from the start, *)
(* `read` how many events each of them sees and `blind` whether it just    *)
(* counts instead of waiting for them.                                     *)

Owned ==
  [share |-> FALSE, claims |-> OwnClaims, gate |-> FALSE, read |-> 0,
   blind |-> FALSE]

\* Threads of which none can be a lap ahead of another, first on a ring that
\* holds all they claim, then on one they wrap.
ConcurrentPublish ==
  [share |-> TRUE, claims |-> ShortRun, gate |-> FALSE, read |-> 0,
   blind |-> FALSE]
BackoffBehavior == [ConcurrentPublish EXCEPT !.claims = LongRun]

\* 60 events, a ring of 16 slots, readers that leave after 50.
BenchmarkSimulation ==
  [share |-> TRUE, claims |-> GatedRun, gate |-> TRUE, blind |-> FALSE,
   read |-> GatedRun * Cardinality(Producers) - BufferSize]

\* Consumers that pretend, on a ring that holds everything.
SimpleThreading ==
  [share |-> TRUE, claims |-> ShortRun, gate |-> TRUE, read |-> ShortRun,
   blind |-> TRUE]

\* The stress test is ConcurrentPublish with more threads and more claims.
Programs(k) ==
  IF k = "single" THEN {Owned}
  ELSE {Owned, ConcurrentPublish, BackoffBehavior, BenchmarkSimulation,
        SimpleThreading}

Init ==
  /\ InitSequences
  /\ kind \in {"single", "multi"}
  /\ program \in Programs(kind)
  /\ shared = program.share
  /\ gating = (IF program.gate THEN Consumers ELSE {})
  /\ claimed = -1
  /\ cached_value = -1
  /\ stamps = InitStamps
  /\ ppc = [p \in Producers |-> "idle"]
  /\ low = [p \in Producers |-> 0]
  /\ high = [p \in Producers |-> -1]
  /\ at = [p \in Producers |-> 0]
  /\ pscan = [p \in Producers |-> MinScan({})]
  /\ claims = [p \in Producers |-> {}]
  /\ todo = [p \in Producers |->
               IF shared \/ p = Owner THEN program.claims ELSE 0]
  /\ unread = [c \in Consumers |-> program.read]
  /\ joined = gating

-----------------------------------------------------------------------------
(* The owner's calls with &mut. *)

Owns == ~shared /\ ppc[Owner] = "idle"

\* A counter fresh from default(), or set to the last claim first.  It comes
\* in good order when everything up to it is published, no claim is a lap
\* ahead of it and cached_value, which add_gating_sequence leaves alone, is
\* not ahead of it either.
AddGatingSequence(c) ==
  /\ Owns
  /\ c \notin gating
  /\ \E v \in {-1, claimed} :
       /\ SetSequence(c, v)
       /\ joined' = IF /\ \A range \in claims[Owner] : v < range[1]
                       /\ claimed <= v + BufferSize
                       /\ cached_value <= v
                      THEN joined \cup {c} ELSE joined
  /\ gating' = gating \cup {c}
  /\ UNCHANGED <<kind, program, shared, claimed, cached_value, stamps, ppc,
                 rangeVars, claims, todo, unread>>

RemoveGatingSequence(c) ==
  /\ Owns
  /\ c \in gating
  /\ gating' = gating \ {c}
  /\ joined' = joined \ {c}
  /\ UNCHANGED <<sequence, kind, program, shared, claimed, cached_value,
                 stamps, ppc, rangeVars, claims, todo, unread>>

-----------------------------------------------------------------------------
(* next() of both sequencers. *)

GotoP(p, state) == ppc' = [ppc EXCEPT ![p] = state]

Return(p, lo, hi) ==
  /\ GotoP(p, "idle")
  /\ claims' = [claims EXCEPT ![p] = @ \cup {<<lo, hi>>}]

\* The multi-producer sequencer takes its range at once, the other when there
\* is room.  (A range longer than the ring is beyond what set_batch is for.)
\* MaxSequence bounds what is claimed.
CallNextOneEarly(p, n) ==
  /\ ppc[p] = "idle"
  /\ todo[p] > 0
  /\ shared => claims[p] = {} /\ n = 1
  /\ kind = "multi" => n <= BufferSize
  /\ claimed + n <= MaxSequence
  /\ todo' = [todo EXCEPT ![p] = @ - 1]
  /\ low' = [low EXCEPT ![p] = claimed]
  /\ high' = [high EXCEPT ![p] = claimed + n]
  /\ claimed' = IF kind = "multi" THEN claimed + n ELSE claimed
  /\ GotoP(p, "cached")
  /\ UNCHANGED <<sequence, kind, program, shared, gating, cached_value,
                 stamps, at, pscan, claims, unread, joined>>
CallNext(p, n) ==
  /\ ppc[p] = "idle"
  /\ todo[p] > 0
  /\ shared => claims[p] = {} /\ n = 1
  /\ kind = "multi" => n <= BufferSize
  /\ claimed + n <= MaxSequence
  /\ todo' = [todo EXCEPT ![p] = @ - 1]
  /\ low' = [low EXCEPT ![p] = claimed + 1]
  /\ high' = [high EXCEPT ![p] = claimed + n]
  /\ claimed' = IF kind = "multi" THEN claimed + n ELSE claimed
  /\ GotoP(p, "cached")
  /\ UNCHANGED <<sequence, kind, program, shared, gating, cached_value,
                 stamps, at, pscan, claims, unread, joined>>

\* wrap_point <= minimum, or end <= min_sequence + buffer_size.
HasRoomOneMore(p, minimum) == high[p] - BufferSize <= minimum + 1
HasRoomStrict(p, minimum) == high[p] - BufferSize < minimum
HasRoom(p, minimum) == high[p] - BufferSize <= minimum

SkipsScanWithRoom(p) ==
  /\ HasRoom(p, cached_value)
  /\ kind = "multi" => (low[p] - 1) % RefreshInterval # 0
SkipsScan(p) ==
  \/ kind = "single" /\ (gating = {} \/ HasRoom(p, cached_value))
  \/ /\ kind = "multi"
     /\ HasRoom(p, cached_value)
     /\ (low[p] - 1) % RefreshInterval # 0

LoadCached(p) ==
  /\ ppc[p] = "cached"
  /\ IF SkipsScan(p)
       THEN /\ Return(p, low[p], high[p])
            /\ claimed' = IF kind = "single" THEN high[p] ELSE claimed
            /\ UNCHANGED pscan
       ELSE /\ GotoP(p, "scan")
            /\ pscan' = [pscan EXCEPT ![p] = MinScan(gating)]
            /\ UNCHANGED <<claimed, claims>>
  /\ UNCHANGED <<sequence, kind, program, shared, gating, cached_value,
                 stamps, low, high, at, todo, unread, joined>>

LoadGating(p) ==
  /\ ppc[p] = "scan"
  /\ \E s \in pscan[p].left : pscan' = [pscan EXCEPT ![p] = Load(pscan[p], s)]
  /\ UNCHANGED <<sequence, kind, program, shared, sequencerVars, stamps, ppc,
                 low, high, at, claims, todo, unread, joined>>

\* The multi-producer sequencer keeps every minimum it finds, that of no
\* counters, i64::MAX, included; the other only the one it returns with.
EndScan(p) ==
  /\ ppc[p] = "scan"
  /\ pscan[p].left = {}
  /\ IF HasRoom(p, pscan[p].low)
       THEN /\ Return(p, low[p], high[p])
            /\ claimed' = IF kind = "single" THEN high[p] ELSE claimed
       ELSE UNCHANGED <<ppc, claimed, claims>>
  /\ cached_value' = IF kind = "multi" \/ HasRoom(p, pscan[p].low)
                       THEN pscan[p].low ELSE cached_value
  /\ pscan' = [pscan EXCEPT ![p] =
                 MinScan(IF HasRoom(p, pscan[p].low) THEN {} ELSE gating)]
  /\ UNCHANGED <<sequence, kind, program, shared, gating, stamps, low, high,
                 at, todo, unread, joined>>

-----------------------------------------------------------------------------
(* publish() of a range that was claimed.  The multi-producer sequencer     *)
(* takes them in any order.  The other stores the end of the range in its  *)
(* cursor, so its owner publishes in the order of the claims.              *)

Publish(p) ==
  /\ ppc[p] = "idle"
  /\ \E range \in claims[p] :
       /\ kind = "single" => \A other \in claims[p] : range[1] <= other[1]
       /\ claims' = [claims EXCEPT ![p] = @ \ {range}]
       /\ IF kind = "single"
            THEN SetSequence(Cursor, range[2]) /\ UNCHANGED <<ppc, low, high, at>>
            ELSE /\ low' = [low EXCEPT ![p] = range[1]]
                 /\ high' = [high EXCEPT ![p] = range[2]]
                 /\ at' = [at EXCEPT ![p] = range[1]]
                 /\ GotoP(p, "publish")
                 /\ UNCHANGED sequence
  /\ UNCHANGED <<kind, program, shared, sequencerVars, stamps, pscan, todo,
                 unread, joined>>

PublishSlotButLast(p) ==
  /\ ppc[p] = "publish"
  /\ stamps' = IF at[p] = high[p] THEN stamps
               ELSE [stamps EXCEPT ![BatchSlot(low[p], high[p], at[p])] =
                                     BatchStamp(low[p], high[p], at[p])]
  /\ at' = [at EXCEPT ![p] = @ + 1]
  /\ GotoP(p, IF at[p] = high[p] THEN "idle" ELSE "publish")
  /\ UNCHANGED <<sequence, kind, program, shared, sequencerVars, low, high,
                 pscan, claims, todo, unread, joined>>
PublishSlot(p) ==
  /\ ppc[p] = "publish"
  /\ stamps' = [stamps EXCEPT ![BatchSlot(low[p], high[p], at[p])] =
                                BatchStamp(low[p], high[p], at[p])]
  /\ at' = [at EXCEPT ![p] = @ + 1]
  /\ GotoP(p, IF at[p] = high[p] THEN "idle" ELSE "publish")
  /\ UNCHANGED <<sequence, kind, program, shared, sequencerVars, low, high,
                 pscan, claims, todo, unread, joined>>

-----------------------------------------------------------------------------
(* The consumers' side. *)

\* Highest sequence a consumer of the owned sequencer may set its counter to.
Readable(c) ==
  IF kind = "single" THEN sequence[Cursor]
  ELSE HighestPublished(stamps, sequence[c] + 1, sequence[c] + 1 + ScanLimit)

Consume(c) ==
  /\ ~shared
  /\ c \in gating
  /\ \E v \in sequence[c] + 1..Readable(c) : SetSequence(c, v)
  /\ UNCHANGED <<kind, program, shared, sequencerVars, stamps, ppc, rangeVars,
                 claims, todo, unread, joined>>

\* A round of a reader's loop: wait_for(next_seq) on a barrier nobody alerts
\* returns, the counter follows and the events count as processed.  Stamps in
\* reach of the reader do not change between their loads.
ReadBatch(c) ==
  /\ shared /\ ~program.blind
  /\ unread[c] > 0
  /\ Readable(c) > sequence[c]
  /\ LET processed == Readable(c) - sequence[c] IN
       unread' = [unread EXCEPT ![c] = IF processed < @ THEN @ - processed ELSE 0]
  /\ SetSequence(c, Readable(c))
  /\ UNCHANGED <<kind, program, shared, sequencerVars, stamps, ppc, rangeVars,
                 claims, todo, joined>>

\* A reader that moves its counter without looking.
CountOnOnceMore(c) ==
  /\ shared /\ program.blind
  /\ SetSequence(c, sequence[c] + 1)
  /\ unread' = [unread EXCEPT ![c] = @ - 1]
  /\ UNCHANGED <<kind, program, shared, sequencerVars, stamps, ppc, rangeVars,
                 claims, todo, joined>>
CountOn(c) ==
  /\ shared /\ program.blind
  /\ unread[c] > 0
  /\ SetSequence(c, sequence[c] + 1)
  /\ unread' = [unread EXCEPT ![c] = @ - 1]
  /\ UNCHANGED <<kind, program, shared, sequencerVars, stamps, ppc, rangeVars,
                 claims, todo, joined>>

-----------------------------------------------------------------------------

\* A call goes on, and a thread of a shared program makes its next one.
Thread(p) ==
  \/ shared /\ CallNext(p, 1)
  \/ LoadCached(p) \/ LoadGating(p) \/ EndScan(p)
  \/ shared /\ Publish(p)
  \/ PublishSlot(p)

Reader(c) == Consume(c) \/ ReadBatch(c) \/ CountOn(c)

Finished ==
  \A p \in Producers : ppc[p] = "idle" /\ claims[p] = {} /\ todo[p] = 0

\* The threads are joined, or the test returns.
Done == Finished /\ (\A c \in Consumers : unread[c] = 0) /\ UNCHANGED vars

Next ==
  \/ \E c \in Consumers : AddGatingSequence(c) \/ RemoveGatingSequence(c)
  \/ \E n \in BatchSizes : CallNext(Owner, n)
  \/ Publish(Owner)
  \/ \E p \in Producers : Thread(p)
  \/ \E c \in Consumers : Reader(c)
  \/ Done

Spec == Init /\ [][Next]_vars

\* Threads are scheduled and readers read; the owner need not do anything.
FairSpec ==
  /\ Spec
  /\ \A p \in Producers : WF_vars(Thread(p))
  /\ \A c \in Consumers : WF_vars(Reader(c))
=============================================================================
