------------------------------ MODULE Session -------------------------------
(***************************************************************************)
(* The life of a disruptor as the program around it sees it: it is built   *)
(* (module Builder), its executor spawned or dropped, events are written,  *)
(* the Producer drained or dropped and the threads joined, in any order    *)
(* the types allow; handlers may panic in any of their three callbacks.    *)
(* The ring never fills here and an event is published in one step: what   *)
(* the sequencers and barriers do in between is the subject of the modules *)
(* SingleProducer and MultiProducer.  How a processor is wired is not a    *)
(* constant as there, but what the builder has made of the program's chain *)
(* of scopes, empty ones included.                                         *)
(*                                                                         *)
(* The thread of a processor is                                            *)
(*   none       not spawned                                                *)
(*   spawned    about to enter run()                                       *)
(*   start      in on_start()                                              *)
(*   alert      about to check the running state and the alert flag        *)
(*   wait       in wait_for(), about to read what it depends on            *)
(*   event      in on_event() for event pos                                *)
(*   advance    about to store its sequence                                *)
(*   shutdown   in on_shutdown()                                           *)
(*   ended      returned                                                   *)
(*   dead       unwound by a panic                                         *)
(***************************************************************************)
EXTENDS Builder, FiniteSetsExt

CONSTANTS
  FaultyHandlers,   \* the handlers that may panic
  MaxEvents,        \* bound: events written, at most the ring's capacity
  MaxSequence       \* stands for i64::MAX

ASSUME SessionAssumption ==
  /\ FaultyHandlers \subseteq Handlers
  /\ MaxEvents \in Nat
  /\ MaxSequence \in Nat
  /\ MaxEvents <= MaxSequence

VARIABLES
  sequence,      \* the counters, and the last event published
  tpc,           \* where the thread of each processor is
  pos,           \* the event it handles
  available,     \* what wait_for returned
  running,       \* its RunnableProcessorState
  is_done,       \* the alert flag
  main,          \* where the program is
  executor,      \* what the program holds of the executor
  producer,      \* what became of the Producer
  next_thread    \* how far the loop of spawn() or of join() is

threadVars == <<sequence, tpc, pos, available, running>>
programVars == <<is_done, main, executor, producer, next_thread>>
vars == <<builderVars, threadVars, programVars>>

SequenceIds == Handlers \cup {Cursor, Stamps}

Init ==
  /\ BuilderInit
  /\ sequence = [s \in SequenceIds |-> -1]
  /\ tpc = [h \in Handlers |-> "none"]
  /\ pos = [h \in Handlers |-> 0]
  /\ available = [h \in Handlers |-> -1]
  /\ running = [h \in Handlers |-> "Idle"]
  /\ is_done = FALSE
  /\ main = "build"
  /\ executor = "none"
  /\ producer = "none"
  /\ next_thread = 1

-----------------------------------------------------------------------------
(* The processors' threads. *)

GotoT(h, state) == tpc' = [tpc EXCEPT ![h] = state]

\* run() begins, whatever stop() may have stored before.
RunUnlessHalted(h) ==
  /\ tpc[h] = "spawned"
  /\ running' = [running EXCEPT ![h] = IF @ = "Idle" THEN "Running" ELSE @]
  /\ GotoT(h, "start")
  /\ UNCHANGED <<sequence, pos, available>>
Run(h) ==
  /\ tpc[h] = "spawned"
  /\ running' = [running EXCEPT ![h] = "Running"]
  /\ GotoT(h, "start")
  /\ UNCHANGED <<sequence, pos, available>>

Started(h) ==
  /\ tpc[h] = "start"
  /\ GotoT(h, "alert")
  /\ UNCHANGED <<sequence, pos, available, running>>

\* The loop's test of `running` and then wait_for's of the alert flag; on the
\* way out run() stores Idle and calls on_shutdown.
CheckAlertOfStop(h) ==
  /\ tpc[h] = "alert"
  /\ IF running[h] # "Running"
       THEN GotoT(h, "shutdown") /\ running' = [running EXCEPT ![h] = "Idle"]
       ELSE GotoT(h, "wait") /\ UNCHANGED running
  /\ UNCHANGED <<sequence, pos, available>>
CheckAlert(h) ==
  /\ tpc[h] = "alert"
  /\ IF is_done \/ running[h] # "Running"
       THEN GotoT(h, "shutdown") /\ running' = [running EXCEPT ![h] = "Idle"]
       ELSE GotoT(h, "wait") /\ UNCHANGED running
  /\ UNCHANGED <<sequence, pos, available>>

Minimum(ids) == Min({MaxSequence} \cup {sequence[s] : s \in ids})

\* One round of wait_for, and the head of the loop over the batch.
WaitFor(h) ==
  /\ tpc[h] = "wait"
  /\ LET upTo == Minimum(dependencies[h]) IN
       IF upTo > sequence[h]
         THEN /\ available' = [available EXCEPT ![h] = upTo]
              /\ pos' = [pos EXCEPT ![h] = sequence[h] + 1]
              /\ GotoT(h, "event")
         ELSE GotoT(h, "alert") /\ UNCHANGED <<pos, available>>
  /\ UNCHANGED <<sequence, running>>

\* on_event returned.  A batch up to i64::MAX is never over.
HandleEvent(h) ==
  /\ tpc[h] = "event"
  /\ IF pos[h] = MaxSequence
       THEN UNCHANGED <<pos, tpc>>
       ELSE /\ pos' = [pos EXCEPT ![h] = @ + 1]
            /\ GotoT(h, IF pos[h] = available[h] THEN "advance" ELSE "event")
  /\ UNCHANGED <<sequence, available, running>>

Advance(h) ==
  /\ tpc[h] = "advance"
  /\ sequence' = [sequence EXCEPT ![h] = available[h]]
  /\ GotoT(h, "alert")
  /\ UNCHANGED <<pos, available, running>>

End(h) ==
  /\ tpc[h] = "shutdown"
  /\ GotoT(h, "ended")
  /\ UNCHANGED <<sequence, pos, available, running>>

\* A callback panics: `running` keeps what it was.
Panic(h) ==
  /\ h \in FaultyHandlers
  /\ tpc[h] \in {"start", "event", "shutdown"}
  /\ GotoT(h, "dead")
  /\ UNCHANGED <<sequence, pos, available, running>>

ProcessEvents(h) ==
  \/ Run(h) \/ Started(h) \/ CheckAlert(h) \/ WaitFor(h) \/ HandleEvent(h)
  \/ Advance(h) \/ End(h)

-----------------------------------------------------------------------------
(* The program: first the executor ... *)

\* build_with_executor: with_runnables, and a Producer around the sequencer.
FinishBuild ==
  /\ main = "build"
  /\ Build
  /\ main' = "use"
  /\ executor' = "runnables"
  /\ producer' = "held"
  /\ UNCHANGED <<threadVars, is_done, next_thread>>

\* stop() takes the &mut only the owner of a runnable has.  ThreadedExecutor
\* never calls it; one given to build_with_executor may, before it spawns.
Stop(h) ==
  /\ main = "use"
  /\ executor = "runnables"
  /\ h \in Registered
  /\ running' = [running EXCEPT ![h] = "Halted"]
  /\ UNCHANGED <<builderVars, sequence, tpc, pos, available, programVars>>

BeginSpawn ==
  /\ main = "use"
  /\ executor = "runnables"
  /\ main' = "spawn"
  /\ next_thread' = 1
  /\ UNCHANGED <<builderVars, threadVars, is_done, executor, producer>>

\* The loop of spawn(): the threads start while it is still running.
SpawnThread ==
  /\ main = "spawn"
  /\ next_thread <= Len(event_handlers)
  /\ GotoT(event_handlers[next_thread], "spawned")
  /\ next_thread' = next_thread + 1
  /\ UNCHANGED <<builderVars, sequence, pos, available, running, is_done,
                 main, executor, producer>>

EndSpawn ==
  /\ main = "spawn"
  /\ next_thread > Len(event_handlers)
  /\ main' = "use"
  /\ executor' = "handle"
  /\ UNCHANGED <<builderVars, threadVars, is_done, producer, next_thread>>

\* The executor goes out of scope with its runnables never run.
DropExecutor ==
  /\ main = "use"
  /\ executor = "runnables"
  /\ executor' = "dropped"
  /\ UNCHANGED <<builderVars, threadVars, is_done, main, producer,
                 next_thread>>

BeginJoin ==
  /\ main = "use"
  /\ executor = "handle"
  /\ main' = "join"
  /\ next_thread' = 1
  /\ UNCHANGED <<builderVars, threadVars, is_done, executor, producer>>

\* The loop of ThreadedExecutorHandle::drop, which join() calls: wait for the
\* threads one by one.  unwrap() passes a panic on to the program, which
\* drops what it holds; the threads not joined yet run on.
JoinAnyThread ==
  /\ main = "join"
  /\ next_thread <= Len(event_handlers)
  /\ \E i \in next_thread..Len(event_handlers) : tpc[event_handlers[i]] = "ended"
  /\ next_thread' = next_thread + 1
  /\ UNCHANGED <<main, producer, is_done>>
  /\ UNCHANGED <<builderVars, threadVars, executor>>
JoinThreadThatEnds ==
  /\ main = "join"
  /\ next_thread <= Len(event_handlers)
  /\ tpc[event_handlers[next_thread]] = "ended"
  /\ next_thread' = next_thread + 1
  /\ UNCHANGED <<main, producer, is_done>>
  /\ UNCHANGED <<builderVars, threadVars, executor>>
JoinThread ==
  /\ main = "join"
  /\ next_thread <= Len(event_handlers)
  /\ \/ /\ tpc[event_handlers[next_thread]] = "ended"
        /\ next_thread' = next_thread + 1
        /\ UNCHANGED <<main, producer, is_done>>
     \/ /\ tpc[event_handlers[next_thread]] = "dead"
        /\ main' = "panicked"
        /\ producer' = IF producer = "held" THEN "dropped" ELSE producer
        /\ is_done' = TRUE
        /\ UNCHANGED next_thread
  /\ UNCHANGED <<builderVars, threadVars, executor>>

EndJoin ==
  /\ main = "join"
  /\ next_thread > Len(event_handlers)
  /\ main' = "use"
  /\ executor' = "joined"
  /\ UNCHANGED <<builderVars, threadVars, is_done, producer, next_thread>>

-----------------------------------------------------------------------------
(* ... and the Producer. *)

Published == sequence[IF sequencer = "single" THEN Cursor ELSE Stamps]

Write ==
  /\ main = "use"
  /\ producer = "held"
  /\ Published + 1 < MaxEvents
  /\ sequence' = [sequence EXCEPT
       ![IF sequencer = "single" THEN Cursor ELSE Stamps] = @ + 1]
  /\ UNCHANGED <<builderVars, tpc, pos, available, running, programVars>>

BeginDrain ==
  /\ main = "use"
  /\ producer = "held"
  /\ main' = "drain"
  /\ UNCHANGED <<builderVars, threadVars, is_done, executor, producer,
                 next_thread>>

\* One round of the loop in drain().
DrainRoundOfFirst ==
  /\ main = "drain"
  /\ IF \E h \in gated : sequence[h] >= Published
       THEN main' = "use" /\ producer' = "drained" /\ is_done' = TRUE
       ELSE UNCHANGED <<main, producer, is_done>>
  /\ UNCHANGED <<builderVars, threadVars, executor, next_thread>>
DrainRound ==
  /\ main = "drain"
  /\ IF Minimum(gated) >= Published
       THEN main' = "use" /\ producer' = "drained" /\ is_done' = TRUE
       ELSE UNCHANGED <<main, producer, is_done>>
  /\ UNCHANGED <<builderVars, threadVars, executor, next_thread>>

DropProducer ==
  /\ main = "use"
  /\ producer = "held"
  /\ producer' = "dropped"
  /\ is_done' = TRUE
  /\ UNCHANGED <<builderVars, threadVars, main, executor, next_thread>>

\* The program's function ends when it holds neither.
Return ==
  /\ main = "use"
  /\ executor \in {"joined", "dropped"}
  /\ producer \in {"drained", "dropped"}
  /\ main' = "returned"
  /\ UNCHANGED <<builderVars, threadVars, is_done, executor, producer,
                 next_thread>>

Over == main \in {"returned", "panicked"} /\ UNCHANGED vars

\* What the program does by itself once it has made a call.
Proceed ==
  \/ SpawnThread \/ EndSpawn
  \/ JoinThread \/ EndJoin
  \/ DrainRound

ThreadStep(h) == ProcessEvents(h) /\ UNCHANGED <<builderVars, programVars>>

Next ==
  \/ Chain /\ UNCHANGED <<threadVars, programVars>>
  \/ FinishBuild
  \/ \E h \in Handlers : Stop(h)
  \/ BeginSpawn \/ DropExecutor \/ BeginJoin
  \/ Write \/ BeginDrain \/ DropProducer
  \/ Proceed
  \/ Return \/ Over
  \/ \E h \in Handlers :
       \/ ThreadStep(h)
       \/ Panic(h) /\ UNCHANGED <<builderVars, programVars>>

Spec == Init /\ [][Next]_vars

\* A spawned thread is scheduled and a call of the program goes on by itself.
\* No call has to be made and no callback to panic.
FairSpec ==
  /\ Spec
  /\ WF_vars(Proceed)
  /\ \A h \in Handlers : WF_vars(ThreadStep(h))
=============================================================================
