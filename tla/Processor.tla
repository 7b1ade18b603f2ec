----------------------------- MODULE Processor ------------------------------
(***************************************************************************)
(* The consumer thread: RunnableProcessor::run and process_events, for a   *)
(* shared handler and for a mutable one, whose code is the same.  What     *)
(* barrier.wait_for does is left to the module that extends this one: it   *)
(* takes a processor from "alert" to BeginBatch or to Shutdown.            *)
(*                                                                         *)
(*   spawned   the thread exists, run() has not started                    *)
(*   alert     about to (re)check the alert flag inside wait_for           *)
(*   scan      inside wait_for, reading what it depends on                 *)
(*   extend    the same, past its waiting loop (multi-producer only)       *)
(*   handle    inside on_event for event pos, holding a reference to it    *)
(*   advance   batch done, about to store the processor's own sequence     *)
(*   stopped   wait_for returned None, run() has returned                  *)
(*   dead      the handler panicked and the thread unwound                 *)
(*                                                                         *)
(* The flag `running` is not a variable: while the thread runs only run()  *)
(* writes it (stop() needs the same &mut), so the loop's test of it holds. *)
(***************************************************************************)
EXTENDS SharedSequences, RingBuffer

CONSTANT FaultyHandlers   \* the processors whose on_event may panic

ASSUME FaultyHandlersAssumption == FaultyHandlers \subseteq Consumers

VARIABLES
  cpc,         \* where each consumer thread is
  pos,         \* loop variable i of process_events
  available    \* what barrier.wait_for returned for the batch at hand

processorVars == <<cpc, pos, available>>

ConsumerStates ==
  {"spawned", "alert", "scan", "extend", "handle", "advance", "stopped",
   "dead"}

InitProcessors ==
  /\ cpc = [c \in Consumers |-> "spawned"]
  /\ pos = [c \in Consumers |-> 0]
  /\ available = [c \in Consumers |-> -1]

Goto(c, state) == cpc' = [cpc EXCEPT ![c] = state]

\* cursor.get() + 1: only the processor itself writes its sequence.
NextSequenceAgain(c) == sequence[c]
NextSequence(c) == sequence[c] + 1

InBatch(c) == cpc[c] \in {"handle", "advance", "dead"}

\* The spawned thread enters run() and, after on_start, process_events.
Run(c) ==
  /\ cpc[c] = "spawned"
  /\ Goto(c, "alert")
  /\ UNCHANGED <<sequence, pos, available>>

\* wait_for returned Some(upTo): enter the loop over next_sequence..=upTo.
BeginBatch(c, upTo) ==
  /\ available' = [available EXCEPT ![c] = upTo]
  /\ pos' = [pos EXCEPT ![c] = NextSequence(c)]
  /\ Goto(c, IF NextSequence(c) <= upTo THEN "handle" ELSE "advance")

\* on_event returned for event pos.
HandleEvent(c) ==
  /\ cpc[c] = "handle"
  /\ pos' = [pos EXCEPT ![c] = @ + 1]
  /\ Goto(c, IF pos[c] = available[c] THEN "advance" ELSE "handle")
  /\ UNCHANGED <<sequence, available>>

\* on_event panicked for event pos: the sequence is never stored again.
HandlerPanics(c) ==
  /\ c \in FaultyHandlers
  /\ cpc[c] = "handle"
  /\ Goto(c, "dead")
  /\ UNCHANGED <<sequence, pos, available>>

\* cursor.set(available_sequence); barrier.signal() wakes nobody.
Advance(c) ==
  /\ cpc[c] = "advance"
  /\ SetSequence(c, available[c])
  /\ Goto(c, "alert")
  /\ UNCHANGED <<pos, available>>

\* wait_for returned None: leave process_events, then on_shutdown.
Shutdown(c) ==
  /\ Goto(c, "stopped")
  /\ UNCHANGED <<sequence, pos, available>>
=============================================================================
