# Verification of disruptor-rs

This directory holds TLA+ models of disruptor-rs, TLC configurations that check
them on small instances, and TLAPS proofs of their main properties for every
instance. Paths below are relative to the repository.

## 1. The system

disruptor-rs is a ring buffer through which producer threads hand events to
event processors, each a thread of its own, without locks. Threads meet only in
atomic counters ("sequences"), in the per-slot stamps of the multi-producer
variant, and in one shutdown flag.

| Component (source) | State | Operations | Talks to |
|---|---|---|---|
| Ring buffer (`src/ringbuffer.rs`) | slots, mask | `new`, `get`, `get_mut` (both unchecked) | written by producers, read by processors |
| Sequences (`src/sequence.rs`, `get_minimum_sequence` in `src/utils.rs`) | one `AtomicI64` each | `get`, `set`, `get_and_add`, the minimum of a slice, one load at a time | cursor, one per processor |
| Single-producer sequencer (`src/sequencer.rs`) | cursor, `next_value`, `cached_value`, gating sequences, `is_done` | `next`, `publish`, `drain`, drop | gating sequences, barriers (cursor, flag) |
| Multi-producer sequencer (`src/sequencer.rs`) | `high_water_mark`, `cached_value`, gating sequences, `is_done`, availability buffer | the same, by several threads | gating sequences, barriers (stamps, flag) |
| Availability buffer (`src/utils.rs`) | one generation stamp per slot | `is_available`, `set_batch`, `highest_published_sequence` | producers stamp, barriers read |
| Producer (`src/producer.rs`) | none of its own | `write`, `moving_write`, `drain`, drop | sequencer, ring buffer, the caller's closure |
| Barriers and waiting strategies (`src/barrier.rs`, `src/waiting.rs`) | what to watch, the flag | `wait_for` | called by processors and, for gating, by `next` |
| Event processors (`src/processor.rs`) | their sequence, `running` | `run`, `process_events`, `stop` | barrier, ring buffer, the user's handler |
| Builder (`src/builder.rs`) | the chain of barrier scopes so far | `with_barrier`, `handle_events…`, `build` | creates all of the above |
| Threaded executor (`src/executor.rs`) | runnables, then join handles | `spawn`, `join`, drop | processors |
| Market data example (`examples/crypto-market-data`) | websocket, `running` | `start`, `run`, `connect`, `on_message`, `stop`, the two joins of `main` | a Producer, a Ctrl-C handler, a server |

A scope's processors wait for the scope before it, the first scope's for the
producer; the last scope gates the producer.

### What is hard here

* No lock anywhere. A minimum is scanned one counter at a time while the
  counters move, and `cached_value` is an old minimum used on purpose.
* The slots are plain memory handed out as `&mut` and `&`; that no two threads
  are in one slot rests on counting alone, over a ring that wraps.
* A batch is read before the processor's sequence is stored; a barrier watches
  only the scope before it; `drain` watches only the last scope.
* Several producers claim before they know there is room, publish out of order,
  share one `cached_value`, and lap each other's stamps.
* Handlers and write closures may panic and leave a claim or a batch behind.
* Threads wait for one another in a circle of producer, scopes and ring; drain
  and join must end.
* The builder carries the counters of one scope to the next, to the last and to
  the producer; a wrong hand-over compiles, and so does an empty scope.
* The executor makes threads `'static` that may borrow from the program, and
  passes a panic of one of them on while the others run.
* A sequencer may also be used by itself: gating sequences come and go between
  its calls while `cached_value` stays, claims are published in any order, and
  ungated threads may be laps apart.

### What makes each component correct

* Ring buffer: no conflicting access (`NoDataRace`); a handler sees the event
  of its own sequence (`EventIntegrity`).
* Sequences: a scan is a lower bound of what was loaded for it (`ScanInv`).
* Sequencers: room is never overestimated (`GateInv`, `RoomInv`), no claim
  leaves a hole (`NothingLost`), producers and processors never all wait for
  each other (`SomebodyMoves`), so a waiting producer gets on (`WriteReturns`,
  `WritesReturn`); `drain` is complete (`DrainDelivers`) and returns
  (`DrainTerminates`).
* Availability buffer: stamps are exact for every batch (`BatchIsExact`), what
  is read from them stops right at the first gap (`HighestPublishedIsExact`) and
  no lap is taken for another (`StampInv`).
* Sequencers used by themselves: no two claims held at a time share a sequence
  (`ClaimedOnce`),
  no claim granted that a gating sequence forbids (`NoOverrun`), added late or
  early (`LateJoinIsSafe`).
* Barriers and builder: scopes run one after the other (`StageOrder`), for
  every chain the builder takes (`WiringFollowsScopes`, `HandledInOrder`).
* Processors and executor: every event once and in order (`ImplementsLiveLog`),
  every thread ends (`ThreadsEnd`), none outlives the program's frame
  (`NoThreadOutlives`), and `join` returns (`JoinReturns`).
* Example: whatever the server does, Ctrl-C ends it with nothing left behind
  (`CtrlCStops`, `ExitIsClean`).

`PROJECT.json` lists every component with what is left out, and every hazard at
its line with the properties that watch it.

## 2. The modules

| Module | Models | Notes |
|---|---|---|
| `RingBuffer` | slots, index, store, fetch | an event is the sequence it was written for; the mask is `%`, which it equals for a power of two (assumed, as `new` asserts) |
| `Topology` | the wiring a finished builder chain yields | constants only: scopes, barriers, gating |
| `SharedSequences` | the counters and the minimum scan | one load per step, in any order |
| `Processor` | a consumer thread | `Run`, `BeginBatch`, `HandleEvent`, `HandlerPanics`, `Advance`, `Shutdown` |
| `SingleProducer` | single-producer sequencer, producer, processing barrier | composes the four above |
| `AvailableBuffer` | the stamps | `set_batch` as where and what it writes per sequence, all three branches |
| `MultiProducer` | multi-producer sequencer, producer threads, MPMC barrier | composes the five |
| `Builder` | the fluent builder | one action per method, empty scopes included; the phases are the types |
| `Session` | the program around a disruptor | composes `Builder` with executor, `stop`, panicking callbacks, drain, drop and join in any order |
| `SequencerUse` | either sequencer used by itself | composes counters and stamps; an owner who changes the gating sequences, and the concurrent programs of the tests in `sequencer.rs` |
| `MarketFeed` | the example | composes the feed thread with `BroadcastLog`; websocket and server are external |
| `BroadcastLog` | the abstract promise of both disruptors | a bounded log: publish, deliver in order once and after earlier scopes, finish or abandon |
| `…Properties` | the properties of the module they are named after | refinement mappings and inductive invariants of the two disruptors |
| `MC…` | instances, wirings and symmetry for TLC | |
| `…Proofs` | lemmas and theorems | eight modules |

The state machines look at the same crate from different sides. In
`SingleProducer` and `MultiProducer` the wiring is a constant and every access
to shared memory a step. `Session` makes the wiring itself and follows the
program's calls, with publication in one step and a ring that never fills;
`WiringIsTopology` says that what it makes, with the single-producer sequencer and
no empty scope, meets the assumption of `Topology` and has its barriers and gating
sequences, so that what holds of `SingleProducer` for every wiring holds of it.
`SequencerUse` drops the processors and takes the sequencers through the calls
the trait `Sequencer` allows and no disruptor makes. `MarketFeed` uses the
abstract log in place of a disruptor, as `ImplementsLiveLog` entitles it to.

A step of `SingleProducer` or `MultiProducer` touches shared memory at most
once. `cpc` and `ppc` say where a thread is; locals of the code appear as variables only while they
outlive a step (`min_sequence`, `at`, `available`, `pos`, scans in progress,
`probe` for `highest_published_sequence`). The correspondence, line by line, is
`map` in `PROJECT.json`. In short:

* `next()` of the single producer is `BeginWrite`, then `LoadGating` and
  `RefreshMinimum` until `HasRoom`, then `Claim`; the closure runs in
  `WriteSlot`; `Publish` stores the cursor; `drain` is `BeginDrain`,
  `LoadGating`, `EndDrainScan`.
* `next()` of the multi-producer is `Claim` (the fetch-add), `LoadCached`,
  `LoadGating`, `EndGatingScan` (which stores `cached_value`); `PublishSlot`
  stamps one slot; `drain` is `BeginDrain`, `LoadForDrain`, `EndDrainScan`.
* `wait_for` of the processing barrier (the same loop in all three strategies; `map`
  names the busy-spinning one) is `CheckAlert`, `LoadDependency`,
  `EndScan`; of the MPMC barrier `CheckAlert`, `CheckSlot`, `ExtendBatch`.
* A builder method is the action `Provide`, `ChooseStrategy`,
  `ChooseSequencer`, `OpenFirstScope` or `OpenScope` (`with_barrier` is called),
  `HandleEvents`, `CloseScope` (its closure has returned), `Build`.
* `spawn` is `BeginSpawn`, `SpawnThread` per runnable, `EndSpawn`; `join` is
  `BeginJoin`, `JoinThread` per thread with the `unwrap` of its result,
  `EndJoin`. A processor's thread of `Session` is one with the callbacks
  `on_start` and `on_shutdown` and the state `running`, which `Processor` leaves
  out because `LoopTestHolds` shows that it decides nothing.
* In `SequencerUse` `next` is `CallNext`, `LoadCached`, `LoadGating`, `EndScan`
  of either sequencer, `publish` is `Publish` and, stamp by stamp, `PublishSlot`.
* In `MarketFeed` the loop of `run` is `CheckRunning`, `Connected` or
  `ConnectFails`, `Receive` or `ReadFails`, and what `on_message` makes of a
  frame: `Write`, `Pong`, `Disconnect`.

### Abstractions

* **Memory model.** Counters, stamps and the flag are sequentially consistent.
  The code loads and stores counters and stamps with Acquire and Release; the
  flag is relaxed, but nothing is published through it: a late sighting is a
  later step of `CheckAlert`. Reorderings a weaker model would allow between
  different atomics are not explored.
* **Time.** Spinning, yielding and sleeping are left out, and
  `signal_all_when_blocking` is empty in all three strategies.
* **Order of loads.** A scan reads its counters in any order; the code's order
  is one of them.
* **Numbers.** Sequences are bounded by `MaxSequence`, which also stands for
  `i64::MAX`, the start of every minimum. Overflow after 2^63 events is not
  modelled.
* `BeginDrain` of the multi-producer reads all stamps in one step. No thread is
  left that could change one: `drain` takes the only remaining owner.
* History variables: `torn` in `SingleProducer`, the claims abandoned by a panic,
  each sequence with whether it was written before (what was is still not
  published, which `OnlyPublished` is about; what was not `EventIntegrity` excepts);
  `scopes` and `scope_of` in `Builder`, where a handler was registered; `joined`
  in `SequencerUse`, the gating sequences that were added when no claim was
  ahead of them.
* `Session` publishes an event in one step, a barrier reads its counters in one
  step, and the ring is as large as `MaxEvents`.
* `ReadBatch` of `SequencerUse` reads the stamps of a batch in one step: those
  in reach of a reader that gates do not change.

## 3. Properties and runs

| Run | Instance | Properties | States |
|---|---|---|---|
| `sp_parallel` | one scope of two, 4 slots, 8 events, batches to 3 | `NoDataRace`, `DrainDelivers` | 297 000 |
| `sp_pipeline` | two processors joined by a third, 2 slots, 4 events, panics | `StageOrder`, `EventIntegrity`, `SomebodyMoves`, `Invariant` | 115 000 |
| `sp_live` | three scopes of one, 2 slots, 5 events, fair | `WriteReturns`, `DrainTerminates`, `ThreadsEnd`, `ImplementsLiveLog` | 44 000 |
| `sp_abandoned` | one processor, panicking closure | `OnlyPublished` is **violated** | – |
| `mp_parallel` | two producers, one scope of two, 2 slots, 5 events, panics | `NoDataRace`, `EventIntegrity`, `SomebodyMoves`, `DrainDeliversFirstLap`, `Invariant` | 296 000 |
| `mp_live` | two producers, one processor, 5 events, fair | `NothingLost`, `WritesReturn`, `DrainTerminates`, `ThreadsEnd`, `ImplementsLiveLog` | 27 000 |
| `mp_drain` | two producers, one processor | `DrainDelivers` is **violated** | – |
| `mp_scopes` | two producers, two scopes of one | `StageOrder` is **violated** | – |
| `mp_lapped` | the same | `NoOverwrite` is **violated** | – |
| `session` | two handlers that may panic, up to three scopes, either sequencer, 2 events, fair | `TypeOK`, `WiringFollowsScopes`, `HandledInOrder`, `DrainDelivers`, `NoThreadOutlives`, `JoinReturns`, `DrainReturns`, `ThreadsEnd` | 268 000 |
| `sequencer_use` | either sequencer with an owner and two counters, or two threads and two readers; 4 slots, fair | `TypeOK`, `NoOverrun`, `LateJoinIsSafe`, `ClaimedOnce`, `NobodyIsStuck`, `LastLapPublished`, `StampsOnlyRise`, `ClaimReturns`, `AllFinish` | 876 000 |
| `market_feed` | a ring of one slot, up to 3 data frames, any fault, fair | `ExitIsClean`, `CtrlCStops`, `CloseReconnects` | 285 |

The two state counts with two interchangeable processors (and producers) are
after symmetry reduction, used only where no temporal property is checked.

* `NoDataRace`: no closure is in a slot a handler, or another thread's closure,
  is in. This is the contract `get_mut` relies on.
* `EventIntegrity`: a handler is shown the event written for its sequence.
* `StageOrder`: a handler gets an event after all handlers of all earlier scopes.
* `DrainDelivers`: after `drain` every processor has handled everything.
* `ImplementsLiveLog`: the whole behaves as `BroadcastLog`, liveness included;
  it rules out lost, repeated and reordered events at once.
* `SomebodyMoves`: all waiting is spinning, so a circle of waits would not show
  as a deadlock. While a producer lacks room, or `drain` an event, a processor
  has something to do or another producer thread has room. Set aside by name are
  claims longer than the ring, and threads and claims lost to a panic; the runs
  with panics reach such states too.
* `NothingLost`: with several producers every claimed sequence is stamped or with
  a thread that will stamp it, as long as no closure panics.
* `Invariant`: the inductive invariant of section 5, so that what is proved is
  also looked at by TLC, in the instances with panics. `TypeOK` is part of it.
* `WiringFollowsScopes`, `HandledInOrder`, `DrainDelivers` of `Session`: for any
  chain, the barriers, the gating and the executor's list are what the scopes
  ask for; and so scopes run in order and `drain` is complete. An empty scope is
  set aside by name: the minimum of no counters is `i64::MAX`, and what stands
  behind it runs over events nobody has published (section 4).
* `NoThreadOutlives`: the transmute in `spawn` is sound as long as no thread has
  panicked.
* `JoinReturns`, `DrainReturns`, `ThreadsEnd` of `Session`: the calls return
  whatever was called before them, with the exceptions the properties name:
  `join` needs the Producer gone, `drain` needs threads that run.
* `NoOverrun`, `LateJoinIsSafe`: a gating sequence added between two calls is
  respected by the next, if it was added in good order: everything up to it
  published, no claim a ring ahead of it and `cached_value` not either. For the
  single-producer sequencer a counter set to the last claim meets the condition
  on `cached_value` by itself; for the multi-producer it may not.
* `ClaimedOnce`: the ranges in the hands of the callers of `next` at any one time
  are apart.
* `NobodyIsStuck`: `SomebodyMoves` for the tests' programs, whose readers leave
  before all is published.
* `StampsOnlyRise`, `LastLapPublished`: the stamps the concurrent tests of
  `sequencer.rs` assert on are the last lap's.
* `ClaimReturns`, `AllFinish`: those tests come to their end.
* `ExitIsClean`, `CtrlCStops`, `CloseReconnects`: shutdown and reconnection of
  the example under every fault of its connection.

### Why the bounds are enough

A ring of two slots is the smallest that has a first and a last slot, batches as
long as the ring and batches that wrap; four slots in `sp_parallel` add batches
that wrap and are shorter than the ring. Every passing run wraps the ring at
least once, so reused slots, stale minima and lapped stamps occur.
Two processors of one scope are needed for a scan that mixes old
and new counters, a join and a chain of three for scopes that watch only their
predecessor, two producer threads for every conflict between claims. The
thresholds of the code are scaled with the ring: `SmallBatch` 8 becomes 1, so
that a batch of two takes the span branch or wraps; `ScanLimit` 1024 becomes 1, so
that a batch is cut there; `RefreshInterval` 1024 becomes 2, so that periodic
refreshes happen and are skipped. For the safety properties the theorems of
section 5 remove the bounds.

`session` has the smallest chains in which something can be carried over
wrongly: two handlers in one scope, in two, and with an empty scope before,
between or after them. Two events make a batch of more than one and a handler
that is behind. Its ring has room for `MaxEvents`; a full ring is the subject of
the other models. In `sequencer_use` the owner makes three claims (`OwnClaims`)
of 1, 4 and 5 sequences (`BatchSizes`) on four slots: the last is longer than
the ring, the second wraps it and takes the span branch of `set_batch`. Each
thread of the shared programs claims one sequence at a time, as in the tests:
two (`ShortRun`) fill the ring exactly, three (`LongRun`) wrap it ungated, four
(`GatedRun`) go round twice with readers that leave, as in the test, when
`GatedRun` times the threads less one ring has been read.
`RefreshInterval`, `ScanLimit` and `SmallBatch` are 2. In `market_feed` a ring
of one slot (`Capacity`) makes a data frame wait, and three frames (`MaxMessages`)
make it wait again.

### Fairness

`FairSpec` gives weak fairness to each consumer thread and to each producer
thread inside a call: a spawned thread is scheduled, and a call goes on by
itself. No call is ever forced to be made, and no panic to happen. The loops
spin, yield or sleep for bounded times, so weak fairness is what an operating
system gives them. The liveness properties are checked without panics (a
handler that panics stops its sequence, and the producer then waits for ever,
see hazards) and with batches no longer than the ring (a longer one can never
find room).

In `Session` the threads that were spawned and the calls the program has made go
on; no call has to be made and no callback to panic, and the properties are
checked with panics. In `SequencerUse` threads and readers go on, the owner need
not. In `MarketFeed` the feed's calls return (a read does because the server
pings; the code sets no timeout on the socket, so a server that falls silent
without closing would block `run` and is not modelled), and `Connected` is strongly fair: a connection that is tried again and
again succeeds. Only `CloseReconnects` needs that; nobody has to press Ctrl-C.

### Deadlock

TLC checks for deadlock in every run. `Joined` is the one state in which a
disruptor may rest: the Producer is gone and all threads have ended. The other
models may rest in `Over`, when the program has returned or panicked, and in
`Done`, when every thread and reader is through.

## 4. Where the code and its documentation part

1. **A panicking closure publishes unwritten slots later** (`sp_abandoned`).
   `SingleProducerSequencer::publish(_, high)` ignores `low`
   (`src/sequencer.rs:151`), while `src/traits.rs:75` says that the given range
   is published. After a caught panic the next `write` hands the handlers the
   abandoned slots too. The multi-producer sequencer stamps exactly the range.
2. **`drain` of the multi-producer sequencer is complete only in the first lap**
   (`mp_drain`). It looks for the end of the published run from sequence 0
   (`src/sequencer.rs:313`). Once slot 0 carries a later generation, 0 is "not
   available", the target is -1, and the processors are shut down with events
   left; `src/sequencer.rs:308-309` promises otherwise. While the ring has not
   wrapped the promise holds (`DrainDeliversFirstLap`, proved).
3. **Scopes are not sequential behind a multi-producer sequencer**
   (`mp_scopes`). `create_sequence_barrier` ignores its gating sequences
   (`src/sequencer.rs:325`); `src/builder.rs:64-66` says that different scopes
   run sequentially.
4. **And an earlier scope may be overwritten** (`mp_lapped`). Only the last scope
   gates the producers, and nothing makes it wait for the earlier ones;
   `src/sequencer.rs:189-190` says that unprocessed data is not overwritten.

Because of 3 and 4 the multi-producer properties of handlers hold for one scope,
`Stages = 1`, and are checked and proved for that.

Further behaviour that contradicts no statement of the code but that its users
should know, with the place where a model shows it:

* Behind an empty scope a processor waits for nothing and never ends
  (`WaitFor`, `HandleEvent` of `Session`; `Wired` sets it aside). An empty last
  scope leaves the producer ungated.
* A multi-producer sequencer that was used without gating sequences keeps
  `i64::MAX` in `cached_value` (`src/sequencer.rs:264`) and looks past a
  sequence added later until the next periodic refresh.
* The cursor of `get_cursor` of the multi-producer sequencer never moves.
* `stop()` before `run()` is lost (`src/processor.rs:470`): `Run`.
* `join` before `drain` or drop of the Producer waits for ever, and so does
  `drain` before `spawn`; a drop without `drain` loses what is not handled yet.
* After a panic in one processor `join` panics at once, and other threads may
  still run (`NoThreadOutlives` names the case).
* In the example a Ctrl-C before `start()` is lost
  (`examples/crypto-market-data/binance.rs:121`), and a broken socket is read
  from for ever: only a Close frame leads to a new connection. `main.rs:5-6`
  speaks of a multi-producer disruptor; the sequencer it builds is the
  single-producer one.

## 5. What is proved

Every theorem holds for all values of the constants that satisfy the named
assumptions: any ring whose size is a power of two, any chain of non-empty
scopes, any number of processors and producer threads, any batch and sequence
bound, and with or without panics.

**Single producer** (`SingleProducerProofs`): `TypeCorrect`, `InvariantHolds`,
`DataRaceFreedom`, `IntegrityHolds`, `ScopesAreSequential`, `DrainIsComplete`,
`NoCircularWait` and `LogImplemented`.

None of these properties is inductive. `NoDataRace` needs that claims stay within
a ring's length of every gating processor (`GateInv`), which needs that a scan
under way never overestimates (`ScanInv`), which holds because counters only
grow. What the gating processors have passed says something about the others
only because no scope is ahead of an earlier one (`ScopesInOrder`), which needs
that a batch was complete upstream when it was handed out (`BatchInv`).
`WindowInv` adds what the ring holds, `ClaimInv` and `ShutdownInv` where the
producer stands, and `CursorInv` that no claim separates the cursor from what is
claimed next. `NoCircularWait` rests on the last one: if a gating processor lacks
events, they are behind the cursor, and among the processors that are behind it
one of the earliest scope has all it waits for. `Invariant` is their conjunction; each conjunct is preserved by
a lemma with a step per action. `LogImplemented` maps every step to a step of
`BroadcastLog` or to a stutter: `Publish` to `Append`, `HandleEvent` to
`Deliver`, the last `EndDrainScan` to `Finish`, `DropProducer` to `Abandon`.

**Multi producer** (`MultiProducerProofs`): `TypeCorrect`, `InvariantHolds`,
`NoClaimLost` (if no closure panics), `NoCircularWait` and `LastScopeSafety` for
every wiring; `DataRaceFreedom`, `IntegrityHolds`, `FirstDrainIsComplete`,
`NothingOverwritten` and `LogImplemented` for `Stages = 1`.

`LastScopeSafety` draws the line to divergences 3 and 4: in a chain it is the
earlier scopes that can be lapped; the last one sees the right events, and no
closure is in its slots or in another's. `LastScopeIsSafe` is in no run, since
with one scope it says what `NoDataRace` and `EventIntegrity` say.
`NothingOverwritten` is what `mp_lapped` shows to be false for two scopes.

The invariant speaks of gating processors. A thread in its write or publish loop
has room with respect to each of them (`RoomInv`), claims are disjoint
(`ClaimsApart`), a pending sequence never looks published and each stamp belongs
to a claimed sequence (`StampInv`), a gating processor has nothing unpublished
behind it (`ReaderInv`), no claimed sequence is lost if no closure panics
(`NothingLost`), and what carries its own stamp is at most a ring ahead
of it and still in its slot (`EventInv`). The circle to break is that a claim may
be a lap ahead of the processors before it has room: only `Pending` sequences,
and no others, can be unpublished below the mark, and two sequences within a
ring's length of one processor never share a slot (`DistinctSlots`,
`WithinRing`). `PublishExact` uses `BatchIsExact`: a claim that had room is no
longer than the ring, and for such a range the span branch of `set_batch` agrees
with the mask and the shift.

For `NoCircularWait` take the gating processor that is furthest behind. What
comes right after it is published, and the processor has work; or by
`NothingLost` it is pending in some thread's claim, which starts no later and is
no longer than the ring, so that this thread has room. In `drain`, the target was
read from stamps that no one can change any more (`ShutdownInv`).

`LogImplemented` maps what is published to the first sequence that does not look
published (`Contiguous`). A stamp stored out of order moves it not at all, one
that closes a gap moves it over everything stamped behind the gap: at most to a
ring's length past the slowest processor (`PublishedInRing`, `GapMoves`), which
is what `Append` allows. A processor is handed only what lies before it
(`TakenIsPublished`).

**Session** (`SessionProofs`): `TypeCorrect`, `WiringIsSequential`,
`WiringIsATopology`, `EventsInOrder`, `DrainIsComplete`, `ThreadsAreJoined`,
`AlwaysRunning`: the invariants of the run, and two more, for any number of
handlers, scopes and events. `WiringIsATopology` is about the seam between two
modules: the assumption of `Topology` becomes a theorem about `Builder`, except
that it sets aside empty scopes and the barriers of the multi-producer
sequencer, which are not `Topology`'s. `AlwaysRunning` (`LoopTestHolds`) is why
`Processor` needs no state `running`.

`BuilderInv` says what each phase holds: what the open scope's processors wait
for are the members of the scope before it, the list under construction holds
the handlers registered so far. From it follow the wiring and, scope by scope,
the order of counters: `OrderInv` says that no counter passes one of an earlier
scope, `BatchInv` that a batch was complete upstream when it was found; an
argument over the chain goes from a scope to its predecessor, and stops at an
empty one. `SpawnInv` says which threads the loop of `spawn` and that of `join`
have reached, `ProgramInv` what the program may hold meanwhile, `DrainInv` what
the drained counters have passed.

**Sequencers by themselves** (`SequencerUseProofs`): `TypeCorrect`,
`NeverOverrun`, `LateJoin`, `NoSequenceTwice`, `StampsNeverFall`,
`LastLapIsPublished`, `NoDeadlock`. `RangeInv` keeps the ranges in hand in order
and below what was claimed; `MinimumInv` says that `cached_value` and every scan
under way are at most each well-joined counter, which `NoOverrun` rests on;
`OwnerInv` that a sequencer still owned is used by one thread, without which a
counter could join during a scan. `OnceInv` adds that ranges in hand are apart
and below the mark the next claim starts from; no assumption on gating is needed
for it.

The other three are about the tests' concurrent programs and rest on counting.
`CountInv` says that the sequences claimed are as many as the claims the threads
have made, by a bijection over pairs of a thread and a number, and that in a
program whose readers do not wait for the stamps what was claimed since a claim
in hand was claimed by the other threads. With `RunsAssumption` (all claims of
all threads but one are fewer than the ring has slots) a thread is therefore
never a lap behind; where readers look before they move on, `ReaderInv` gives
the same, as no claim in hand is behind them and no stamp a lap ahead. So stamps
rise. `StampInv` says that whatever was claimed and is in no thread's hand has
been stamped, with its lap or a later one, from which the last lap follows when
no hand holds anything. `UnreadInv` says what a reader has left to read.
`NoDeadlock` then shows that a thread that waits for room waits for a reader
that still has to read (what a program leaves unread fits into the ring), and
that the reader furthest behind finds its event if no thread can go on.

**Market feed** (`MarketFeedProofs`): `TypeCorrect` and `ExitIsAlwaysClean`, from
what is already shut down at each step of the way out.

**Helpers**: `DistinctSlots`, `SmallestElement` (ring), `Division`,
`EarlierGeneration`, `LaterGeneration`, `BatchIsExact`,
`HighestPublishedIsExact` (stamps), `WiringType`, `MinScanType`.

Proved from: `BufferSizeAssumption` (power of two), `TopologyAssumption`,
`MaxSequenceAssumption`, `FaultyHandlersAssumption`, `ProducerAssumption`,
`SmallBatchAssumption`, `ProducersAssumption`, `BuilderAssumption` (cursor and
stamps are no handlers), `SessionAssumption` (no more events than `MaxSequence`),
`UseAssumption` (the readers' share is a number), `RunsAssumption` (the numbers of
threads, claims and slots the tests choose: 4 x 8 on 64, 2 x 10 on 16, 2 x 20 on
64, 8 x 100 on 1024), `FeedAssumption`. TLC evaluates
them in every run of the module.

**Model-checked only**: the liveness properties (`WriteReturns`, `WritesReturn`,
`DrainTerminates`, `ThreadsEnd`, `JoinReturns`, `DrainReturns`, `ClaimReturns`,
`AllFinish`, `CtrlCStops`, `CloseReconnects`) and the fairness part of the two
refinements (`ImplementsLiveLog`), which are out of this prover's reach. Every
invariant and every action property of a passing run is stated by a theorem. The
`NoCircularWait` theorems and `NoDeadlock` are the part of liveness that needs no
fairness: in each state somebody has something to do.

## 6. Not modelled

* `BarrierScope::with_barrier` (`src/builder.rs:289-301`) takes the scope by
  value, and the closures only get `&mut`: safe code cannot call it.
* Ranges longer than the ring given to `set_batch`: it computes slots past the
  buffer's end for them. `next` grants such a range only ungated.
* The same gating sequence added twice to a sequencer. Each removal takes one
  occurrence away; nothing in the crate adds one twice.
* `mem::forget` of the executor's handle, after which nobody joins the threads.
* `compare_and_set`, the increments and `get_maximum_sequence`, which the crate
  does not call.
* A Producer over a single-producer sequencer shared by threads, which its type
  allows (`src/producer.rs:122`); the documentation describes it for one
  producer only.
* Counter overflow after 2^63 events, and weaker memory orders.
* The benchmarks (`benches`), which measure throughput, and CI. Of the example
  the parsing of fields and the printing.

## 7. Plan

Done, in this order: single-producer core, its proof and refinement;
availability buffer and multi-producer core, its proof and refinement; the
builder and the program around a disruptor, with proofs; sequencers used by
themselves, with gating that changes, and proofs; the example; absence of circular
waits, the tests' programs for any number of threads, and the wiring of
`Topology` as a theorem about the builder.

What could follow: a proof that `Session`'s program finds somebody to move in every
state it waits in, as for the other models; weaker memory orders, for which every load of a counter would
have to offer older values, and a `Session` whose ring fills.
