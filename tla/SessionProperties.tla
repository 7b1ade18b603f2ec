------------------------- MODULE SessionProperties --------------------------
(***************************************************************************)
(* What must be true of Session: of the wiring the builder makes, of the   *)
(* handlers that run on it, and of the program that drains and joins.      *)
(***************************************************************************)
EXTENDS Session

\* Every variable has its type; no thread exists of a handler that was not
\* registered, and none is spawned before build().
TypeOK ==
  /\ phase \in {"DisruptorBuilder", "WithDataProvider", "WithWaitingStrategy",
                "WithSequencer", "BarrierScope", "WithEventHandlers", "built"}
  /\ sequencer \in {"none", "single", "multi"}
  /\ scope_gating \subseteq Handlers \cup {Cursor}
  /\ cursors \subseteq Handlers
  /\ scope_handlers \in Seq(Handlers)
  /\ gating_sequences \subseteq Handlers
  /\ event_handlers \in Seq(Handlers)
  /\ dependencies \in [Handlers -> SUBSET SequenceIds]
  /\ gated \subseteq Handlers
  /\ scopes \in 0..MaxScopes
  /\ scope_of \in [Handlers -> 0..scopes]
  /\ sequence \in [SequenceIds -> -1..MaxSequence]
  /\ tpc \in [Handlers -> {"none", "spawned", "start", "alert", "wait",
                           "event", "advance", "shutdown", "ended", "dead"}]
  /\ pos \in [Handlers -> 0..MaxSequence + 1]
  /\ available \in [Handlers -> -1..MaxSequence]
  /\ running \in [Handlers -> {"Idle", "Halted", "Running"}]
  /\ is_done \in BOOLEAN
  /\ main \in {"build", "use", "spawn", "drain", "join", "returned",
               "panicked"}
  /\ executor \in {"none", "runnables", "handle", "joined", "dropped"}
  /\ producer \in {"none", "held", "drained", "dropped"}
  /\ next_thread \in Nat \ {0}

Alive == {"spawned", "start", "alert", "wait", "event", "advance", "shutdown"}

NoEmptyScope(upTo) == \A k \in 1..upTo : Members(k) # {}

\* Whether every processor waits for something.  (The minimum of no sequences
\* is i64::MAX: a processor behind an empty scope runs away over slots nobody
\* has published, and its batch is never over.)
Wired == sequencer = "multi" \/ NoEmptyScope(scopes - 1)

-----------------------------------------------------------------------------
(* Safety. *)

\* What Topology assumes of a finished chain: the first scope waits for the
\* cursor, a later one for the scope before it, the last gates the producer,
\* and every processor reaches the executor.  It is the carrying over of
\* `cursors` from scope to scope that could go wrong.
WiringFollowsScopes ==
  phase = "built" =>
    /\ \A h \in Registered :
         dependencies[h] =
           IF sequencer = "multi" THEN {Stamps}
           ELSE IF scope_of[h] = 1 THEN {Cursor}
           ELSE Members(scope_of[h] - 1)
    /\ gated = Members(scopes)
    /\ Registered = {event_handlers[i] : i \in DOMAIN event_handlers}

\* ... and as a whole: what was built is a wiring that the modules over Topology
\* are checked and proved for, if no scope is empty and the sequencer is the
\* one that looks at what it is given.
Wiring == INSTANCE Topology WITH
       Consumers <- Registered, Stages <- scopes,
       Stage <- [h \in Registered |-> scope_of[h]]

WiringIsTopology ==
  phase = "built" /\ sequencer = "single" /\ NoEmptyScope(scopes) =>
    /\ Cursor \notin Registered
    /\ scopes \in Nat \ {0}
    /\ [h \in Registered |-> scope_of[h]] \in [Registered -> 1..scopes]
    /\ \A k \in 1..scopes : \E h \in Registered : scope_of[h] = k
    /\ \A h \in Registered : dependencies[h] = Wiring!Barrier(h)
    /\ gated = Wiring!GatingSequences

\* "Different barrier scopes run sequentially" (builder.rs) over the wiring as
\* built: with a single-producer sequencer an event that is handled is
\* published and done with by every handler of every earlier scope, unless
\* one of these scopes is empty.  With a multi-producer sequencer it is
\* published.
HandledInOrder ==
  \A h \in Handlers : tpc[h] = "event" =>
    \/ sequencer = "multi" /\ pos[h] <= Published
    \/ /\ sequencer = "single"
       /\ NoEmptyScope(scope_of[h] - 1) =>
            /\ pos[h] <= Published
            /\ \A u \in Registered :
                 scope_of[u] < scope_of[h] => pos[h] <= sequence[u]

\* drain() returned: everything written was handled by every handler, if the
\* last scope is not empty and waits for the earlier ones.
DrainDelivers ==
  producer = "drained" /\ NoEmptyScope(scopes)
    /\ (sequencer = "single" \/ scopes = 1) =>
      \A h \in Registered :
        sequence[h] = Published /\ tpc[h] \notin {"event", "advance"}

\* The unsafe block of spawn() makes 'static what may borrow from the program:
\* no thread may outlive the program's frame.  It holds because dropping the
\* handle joins every thread; only after a panic in one of them may others be
\* left behind.
NoThreadOutlives ==
  /\ main = "returned" =>
       \A h \in Handlers : tpc[h] \in {"none", "ended"}
  /\ main = "panicked" => \E h \in Handlers : tpc[h] = "dead"

\* While run() is in process_events the state is Running, whatever stop() did
\* before: the loop is left on the alert flag only.  (Module Processor leaves
\* `running` out because of this.)
LoopTestHolds ==
  \A h \in Handlers :
    tpc[h] \in {"start", "alert", "wait", "event", "advance"} =>
      running[h] = "Running"

-----------------------------------------------------------------------------
(* Liveness, under FairSpec. *)

\* join() comes back, with a panic if a thread had one, once the Producer is
\* gone.  (Called before, it waits for threads nobody tells to stop.)
JoinReturns ==
  main = "join" /\ is_done /\ Wired ~> main \in {"use", "panicked", "returned"}

\* drain() comes back unless a processor it waits for does not run.
DrainReturns ==
  main = "drain" /\ Wired ~>
    main = "use" \/ \E h \in Registered : tpc[h] \in {"none", "dead"}

\* Once the Producer is gone every thread comes to its end, also those of
\* which the handle was lost to a panic.
ThreadsEnd ==
  \A h \in Handlers :
    is_done /\ Wired /\ tpc[h] \in Alive ~> tpc[h] \in {"ended", "dead"}
=============================================================================
