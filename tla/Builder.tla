------------------------------ MODULE Builder -------------------------------
(***************************************************************************)
(* The fluent builder.  Each method consumes a value of one type and       *)
(* returns one of the next, so `phase` names the type at hand:             *)
(*                                                                         *)
(*   DisruptorBuilder       nothing chosen yet                             *)
(*   WithDataProvider       new() or with_ring_buffer()                    *)
(*   WithWaitingStrategy    with_..._waiting_strategy()                    *)
(*   WithSequencer          with_..._sequencer()                           *)
(*   BarrierScope           inside the closure given to with_barrier()     *)
(*   WithEventHandlers      with_barrier() has returned                    *)
(*   built                  build() has returned                           *)
(*                                                                         *)
(* Every processor has a counter of its own, so a Vec of counters is the   *)
(* set of the handlers they belong to.  A scope may stay empty.            *)
(***************************************************************************)
EXTENDS Integers, Sequences

CONSTANTS
  Handlers,    \* the handlers a program may register, each of them moved in
  Cursor,      \* the sequencer's cursor
  Stamps,      \* the available_buffer of a multi-producer sequencer
  MaxScopes    \* bound: calls of with_barrier

ASSUME BuilderAssumption ==
  /\ Cursor \notin Handlers
  /\ Stamps \notin Handlers
  /\ Cursor # Stamps
  /\ MaxScopes \in Nat

VARIABLES
  phase,
  sequencer,          \* which sequencer was chosen
  scope_gating,       \* BarrierScope.gating_sequences
  cursors,            \* BarrierScope.cursors
  scope_handlers,     \* BarrierScope.event_handlers
  gating_sequences,   \* WithEventHandlers.gating_sequences
  event_handlers,     \* WithEventHandlers.event_handlers
  dependencies,       \* what the barrier of each processor waits for
  gated,              \* gating_sequences of the sequencer
  scopes,             \* history: how many scopes were opened
  scope_of            \* history: the scope of each handler, 0 for none

scopeVars == <<scope_gating, cursors, scope_handlers>>
chainVars == <<gating_sequences, event_handlers>>
historyVars == <<scopes, scope_of>>
builderVars ==
  <<phase, sequencer, scopeVars, chainVars, dependencies, gated, historyVars>>

BuilderInit ==
  /\ phase = "DisruptorBuilder"
  /\ sequencer = "none"
  /\ scope_gating = {}
  /\ cursors = {}
  /\ scope_handlers = <<>>
  /\ gating_sequences = {}
  /\ event_handlers = <<>>
  /\ dependencies = [h \in Handlers |-> {}]
  /\ gated = {}
  /\ scopes = 0
  /\ scope_of = [h \in Handlers |-> 0]

Become(from, to) == phase = from /\ phase' = to

-----------------------------------------------------------------------------
(* Up to the first scope nothing is wired. *)

Provide ==
  /\ Become("DisruptorBuilder", "WithDataProvider")
  /\ UNCHANGED <<sequencer, scopeVars, chainVars, dependencies, gated,
                 historyVars>>

\* Three strategies that differ in how they pass the time.
ChooseStrategy ==
  /\ Become("WithDataProvider", "WithWaitingStrategy")
  /\ UNCHANGED <<sequencer, scopeVars, chainVars, dependencies, gated,
                 historyVars>>

ChooseSequencer(kind) ==
  /\ Become("WithWaitingStrategy", "WithSequencer")
  /\ sequencer' = kind
  /\ UNCHANGED <<scopeVars, chainVars, dependencies, gated, historyVars>>

-----------------------------------------------------------------------------
(* The scopes. *)

\* A scope begins with the sequences its processors will wait for.
EnterScope(gating) ==
  /\ scopes < MaxScopes
  /\ phase' = "BarrierScope"
  /\ scope_gating' = gating
  /\ cursors' = {}
  /\ scope_handlers' = <<>>
  /\ scopes' = scopes + 1
  /\ UNCHANGED <<sequencer, chainVars, dependencies, gated, scope_of>>

OpenFirstScope == phase = "WithSequencer" /\ EnterScope({Cursor})

OpenScopeOnCursor == phase = "WithEventHandlers" /\ EnterScope({Cursor})
OpenScope == phase = "WithEventHandlers" /\ EnterScope(gating_sequences)

\* create_sequence_barrier: only the single-producer sequencer looks at what
\* it is given, the other one's barrier watches the stamps.
MpmcBarrier(gating) == {Stamps}
CreateBarrier(gating) ==
  IF sequencer = "single" THEN gating ELSE MpmcBarrier(gating)

\* handle_events, handle_events_mut and the two they call.
HandleEvents(h) ==
  /\ phase = "BarrierScope"
  /\ scope_of[h] = 0
  /\ cursors' = cursors \cup {h}
  /\ dependencies' = [dependencies EXCEPT ![h] = CreateBarrier(scope_gating)]
  /\ scope_handlers' = Append(scope_handlers, h)
  /\ scope_of' = [scope_of EXCEPT ![h] = scopes]
  /\ UNCHANGED <<phase, sequencer, scope_gating, chainVars, gated, scopes>>

\* The closure returns: the scope's cursors are what the next scope waits for.
CloseScopeKeepingGates ==
  /\ Become("BarrierScope", "WithEventHandlers")
  /\ event_handlers' = event_handlers \o scope_handlers
  /\ gating_sequences' = gating_sequences \cup cursors
  /\ scope_gating' = {}
  /\ cursors' = {}
  /\ scope_handlers' = <<>>
  /\ UNCHANGED <<sequencer, dependencies, gated, historyVars>>
CloseScopeSkippingEmpty ==
  /\ Become("BarrierScope", "WithEventHandlers")
  /\ event_handlers' = event_handlers \o scope_handlers
  /\ gating_sequences' = IF cursors = {} THEN scope_gating ELSE cursors
  /\ scope_gating' = {}
  /\ cursors' = {}
  /\ scope_handlers' = <<>>
  /\ UNCHANGED <<sequencer, dependencies, gated, historyVars>>
CloseScope ==
  /\ Become("BarrierScope", "WithEventHandlers")
  /\ event_handlers' = event_handlers \o scope_handlers
  /\ gating_sequences' = cursors
  /\ scope_gating' = {}
  /\ cursors' = {}
  /\ scope_handlers' = <<>>
  /\ UNCHANGED <<sequencer, dependencies, gated, historyVars>>

\* build(): the last scope gates the producer.
Build ==
  /\ Become("WithEventHandlers", "built")
  /\ gated' = gating_sequences
  /\ UNCHANGED <<sequencer, scopeVars, chainVars, dependencies, historyVars>>

\* Everything before build().
Chain ==
  \/ Provide \/ ChooseStrategy
  \/ \E kind \in {"single", "multi"} : ChooseSequencer(kind)
  \/ OpenFirstScope \/ OpenScope
  \/ \E h \in Handlers : HandleEvents(h)
  \/ CloseScope

-----------------------------------------------------------------------------
(* The scopes of a chain. *)

Members(k) == {h \in Handlers : scope_of[h] = k}

Registered == {h \in Handlers : scope_of[h] # 0}
=============================================================================
