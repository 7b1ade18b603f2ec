---------------------------- MODULE SessionProofs ----------------------------
(***************************************************************************)
(* The safety properties of Session for any number of handlers, scopes and *)
(* events, and any set of handlers that may panic.                         *)
(***************************************************************************)
EXTENDS SessionProperties, SequenceTheorems, WellFoundedInduction, TLAPS

-----------------------------------------------------------------------------
(* The parts of TypeOK. *)

BuilderType ==
  /\ phase \in {"DisruptorBuilder", "WithDataProvider", "WithWaitingStrategy",
                "WithSequencer", "BarrierScope", "WithEventHandlers", "built"}
  /\ sequencer \in {"none", "single", "multi"}
  /\ scope_gating \subseteq Handlers \cup {Cursor}
  /\ cursors \subseteq Handlers
  /\ scope_handlers \in Seq(Handlers)
  /\ gating_sequences \subseteq Handlers
  /\ event_handlers \in Seq(Handlers)
  /\ dependencies \in [Handlers -> SUBSET SequenceIds]
  /\ gated \subseteq Handlers
  /\ scopes \in 0..MaxScopes
  /\ scope_of \in [Handlers -> 0..scopes]

ThreadType ==
  /\ sequence \in [SequenceIds -> -1..MaxSequence]
  /\ tpc \in [Handlers -> {"none", "spawned", "start", "alert", "wait",
                           "event", "advance", "shutdown", "ended", "dead"}]
  /\ pos \in [Handlers -> 0..MaxSequence + 1]
  /\ available \in [Handlers -> -1..MaxSequence]
  /\ running \in [Handlers -> {"Idle", "Halted", "Running"}]

ProgramType ==
  /\ is_done \in BOOLEAN
  /\ main \in {"build", "use", "spawn", "drain", "join", "returned",
               "panicked"}
  /\ executor \in {"none", "runnables", "handle", "joined", "dropped"}
  /\ producer \in {"none", "held", "drained", "dropped"}
  /\ next_thread \in Nat \ {0}

LEMMA TypeParts == TypeOK <=> BuilderType /\ ThreadType /\ ProgramType
BY DEF TypeOK, BuilderType, ThreadType, ProgramType

-----------------------------------------------------------------------------
(* The inductive invariant. *)

Names(list) == {list[i] : i \in DOMAIN list}

Early ==
  {"DisruptorBuilder", "WithDataProvider", "WithWaitingStrategy",
   "WithSequencer"}

\* What a processor of scope k waits for when the sequencer looks at it.
Before(k) == IF k = 1 THEN {Cursor} ELSE Members(k - 1)

\* The chain so far: an open scope was given what the one before it left, a
\* closed one has handed on what it holds.
BuilderInv ==
  /\ phase \in Early => scopes = 0 /\ event_handlers = <<>>
  /\ phase \notin Early => scopes > 0
  /\ phase \notin Early \ {"WithSequencer"} => sequencer # "none"
  /\ \A h \in Registered : dependencies[h] =
       IF sequencer = "multi" THEN {Stamps} ELSE Before(scope_of[h])
  /\ phase = "BarrierScope" =>
       /\ cursors = Members(scopes)
       /\ scope_gating = Before(scopes)
       /\ Names(scope_handlers) = cursors
       /\ Names(event_handlers) = Registered \ cursors
  /\ phase \in {"WithEventHandlers", "built"} =>
       /\ gating_sequences = Members(scopes)
       /\ Names(event_handlers) = Registered
  /\ phase = "built" => gated = Members(scopes)

Batching == {"event", "advance"}

\* A processor in a batch has its sequence, the event and the end of the batch
\* in this order.
BatchInv ==
  \A h \in Handlers :
    /\ tpc[h] \in Batching => sequence[h] < available[h]
    /\ tpc[h] = "event" => sequence[h] < pos[h] /\ pos[h] <= available[h]

\* Whose progress bounds that of h: through the scopes before its own, if none
\* of them is empty.
Ahead(h) ==
  IF sequencer = "multi" THEN {Stamps}
  ELSE IF NoEmptyScope(scope_of[h] - 1)
         THEN {Cursor} \cup {u \in Registered : scope_of[u] < scope_of[h]}
         ELSE {}

OrderInv ==
  phase = "built" =>
    \A h \in Registered : \A s \in Ahead(h) :
      /\ sequence[h] <= sequence[s]
      /\ tpc[h] \in Batching => available[h] <= sequence[s]

\* Where the program is, and what it can hold and the threads be there.
ProgramInv ==
  /\ main = "build" <=> phase # "built"
  /\ main = "build" =>
       /\ executor = "none" /\ producer = "none"
       /\ \A s \in SequenceIds : sequence[s] = -1
  /\ main # "build" => executor # "none"
  /\ main = "spawn" => executor = "runnables"
  /\ main = "join" => executor = "handle"
  /\ main = "returned" => executor \in {"joined", "dropped"}

SpawnInv ==
  /\ executor \in {"none", "runnables", "dropped"} /\ main # "spawn" =>
       \A h \in Handlers : tpc[h] = "none"
  /\ \A h \in Handlers : tpc[h] # "none" => h \in Registered
  /\ main = "join" =>
       \A i \in DOMAIN event_handlers :
         i < next_thread => tpc[event_handlers[i]] = "ended"
  /\ executor = "joined" => \A h \in Registered : tpc[h] = "ended"
  /\ main = "panicked" => \E h \in Handlers : tpc[h] = "dead"

\* After drain() nothing more is written.
DrainInv ==
  producer = "drained" => \A h \in gated : sequence[h] >= Published

Invariant ==
  /\ TypeOK
  /\ BuilderInv /\ ProgramInv
  /\ BatchInv /\ OrderInv /\ SpawnInv
  /\ LoopTestHolds /\ DrainInv

-----------------------------------------------------------------------------
(* The minimum of a set of counters. *)

\* A non-empty set of counter values has a smallest one.
LEMMA SmallestValue ==
  ASSUME NEW S \in SUBSET (-1..MaxSequence), S # {}
  PROVE  Min(S) \in S /\ \A v \in S : Min(S) <= v
<1>. DEFINE R == OpToRel(<, Nat)
            T == {v + 1 : v \in S}
<1>0. MaxSequence \in Nat
  BY SessionAssumption
<1>1. IsWellFoundedOn(R, Nat)
  BY NatLessThanWellFounded
<1>2. T \in SUBSET Nat /\ T # {}
  <2>1. \A v \in S : v + 1 \in Nat
    BY <1>0
  <2>2. PICK v \in S : TRUE
    OBVIOUS
  <2>3. v + 1 \in T
    OBVIOUS
  <2>. QED  BY <2>1, <2>3
<1>3. PICK m \in T : \A k \in T : ~(<<k, m>> \in R)
  <2>. HIDE DEF R, T
  <2>. QED  BY <1>1, <1>2, WFMin
<1>4. PICK x \in S : m = x + 1
  BY <1>3
<1>5. ASSUME NEW v \in S  PROVE x <= v
  <2>1. v + 1 \in T /\ v + 1 \in Nat /\ m \in Nat
    BY <1>2, <1>3
  <2>2. ~(v + 1 < m)
    BY <1>3, <2>1 DEF OpToRel
  <2>. QED  BY <1>0, <1>4, <2>1, <2>2
<1>. QED  BY <1>4, <1>5 DEF Min

LEMMA MinimumFacts ==
  ASSUME ThreadType, NEW ids \in SUBSET SequenceIds
  PROVE  /\ Minimum(ids) \in -1..MaxSequence
         /\ \A s \in ids : Minimum(ids) <= sequence[s]
<1>. DEFINE S == {MaxSequence} \cup {sequence[s] : s \in ids}
<1>1. S \in SUBSET (-1..MaxSequence) /\ S # {}
  BY SessionAssumption DEF ThreadType
<1>2. Min(S) \in S /\ \A v \in S : Min(S) <= v
  <2>. HIDE DEF S
  <2>. QED  BY <1>1, SmallestValue
<1>3. Minimum(ids) = Min(S)
  BY DEF Minimum
<1>. QED  BY <1>1, <1>2, <1>3

-----------------------------------------------------------------------------
(* The builder. *)

LEMMA NamesOfAppend ==
  ASSUME NEW list \in Seq(Handlers), NEW h \in Handlers
  PROVE  /\ Append(list, h) \in Seq(Handlers)
         /\ Names(Append(list, h)) = Names(list) \cup {h}
<1>1. /\ Append(list, h) \in Seq(Handlers)
      /\ Len(Append(list, h)) = Len(list) + 1
      /\ \A i \in 1..Len(list) : Append(list, h)[i] = list[i]
      /\ Append(list, h)[Len(list) + 1] = h
  BY AppendProperties
<1>2. DOMAIN list = 1..Len(list) /\ Len(list) \in Nat
      /\ DOMAIN Append(list, h) = 1..Len(list) + 1
  BY <1>1, LenProperties
<1>3. Names(Append(list, h)) \subseteq Names(list) \cup {h}
  BY <1>1, <1>2 DEF Names
<1>4. Names(list) \subseteq Names(Append(list, h))
  BY <1>1, <1>2 DEF Names
<1>5. h \in Names(Append(list, h))
  BY <1>1, <1>2 DEF Names
<1>. QED  BY <1>1, <1>3, <1>4, <1>5

LEMMA NamesOfConcat ==
  ASSUME NEW a \in Seq(Handlers), NEW b \in Seq(Handlers)
  PROVE  /\ a \o b \in Seq(Handlers)
         /\ Names(a \o b) = Names(a) \cup Names(b)
<1>1. /\ a \o b \in Seq(Handlers)
      /\ Len(a \o b) = Len(a) + Len(b)
      /\ \A i \in 1..Len(a) + Len(b) :
           (a \o b)[i] = IF i <= Len(a) THEN a[i] ELSE b[i - Len(a)]
  BY ConcatProperties
<1>2. /\ DOMAIN a = 1..Len(a) /\ Len(a) \in Nat
      /\ DOMAIN b = 1..Len(b) /\ Len(b) \in Nat
      /\ DOMAIN (a \o b) = 1..Len(a) + Len(b)
  BY <1>1, LenProperties
<1>3. ASSUME NEW i \in 1..Len(a) + Len(b)
      PROVE  (a \o b)[i] \in Names(a) \cup Names(b)
  <2>1. CASE i <= Len(a)
    BY <1>1, <1>2, <2>1 DEF Names
  <2>2. CASE i > Len(a)
    <3>1. i - Len(a) \in DOMAIN b
      BY <1>2, <2>2
    <3>. QED  BY <1>1, <1>2, <2>2, <3>1 DEF Names
  <2>. QED  BY <1>2, <2>1, <2>2
<1>4. Names(a) \subseteq Names(a \o b)
  BY <1>1, <1>2 DEF Names
<1>5. ASSUME NEW j \in DOMAIN b  PROVE b[j] \in Names(a \o b)
  <2>1. j + Len(a) \in DOMAIN (a \o b) /\ ~(j + Len(a) <= Len(a))
        /\ (j + Len(a)) - Len(a) = j
    BY <1>2
  <2>2. (a \o b)[j + Len(a)] = b[j]
    BY <1>1, <1>2, <2>1
  <2>. QED  BY <2>1, <2>2 DEF Names
<1>. QED  BY <1>1, <1>2, <1>3, <1>4, <1>5 DEF Names

\* A scope is opened: nobody is in it yet.
LEMMA EnterScopeKeeps ==
  ASSUME BuilderType, BuilderInv, OpenFirstScope \/ OpenScope
  PROVE  BuilderType' /\ BuilderInv'
<1>. DEFINE gating == IF phase = "WithSequencer" THEN {Cursor}
                      ELSE gating_sequences
<1>1. /\ EnterScope(gating)
      /\ phase \in {"WithSequencer", "WithEventHandlers"}
  BY DEF OpenFirstScope, OpenScope
<1>2. /\ phase' = "BarrierScope" /\ scopes' = scopes + 1
      /\ scopes < MaxScopes /\ scopes \in Nat /\ MaxScopes \in Nat
      /\ scope_gating' = gating /\ cursors' = {} /\ scope_handlers' = <<>>
      /\ UNCHANGED <<sequencer, gating_sequences, event_handlers,
                     dependencies, gated, scope_of>>
  BY <1>1, BuilderAssumption DEF EnterScope, chainVars, BuilderType
<1>3. BuilderType'
  <2>1. scope_of' \in [Handlers -> 0..scopes']
    BY <1>2 DEF BuilderType
  <2>2. scope_handlers' \in Seq(Handlers)
    BY <1>2
  <2>. QED  BY <1>1, <1>2, <2>1, <2>2 DEF BuilderType
<1>4. /\ Members(scopes)' = {} /\ Registered' = Registered
      /\ \A k \in Nat : k <= scopes => Members(k)' = Members(k)
  BY <1>2 DEF BuilderType, Members, Registered
<1>5. Names(event_handlers) = Registered
  <2>1. CASE phase = "WithSequencer"
    <3>1. Names(event_handlers) = {}
      BY <2>1 DEF BuilderInv, Early, Names
    <3>2. Registered = {}
      BY <2>1 DEF BuilderInv, Early, BuilderType, Registered
    <3>. QED  BY <3>1, <3>2
  <2>2. CASE phase = "WithEventHandlers"
    BY <2>2 DEF BuilderInv
  <2>. QED  BY <1>1, <2>1, <2>2
<1>6. scope_gating' = Before(scopes)'
  <2>1. CASE phase = "WithSequencer"
    BY <1>2, <2>1 DEF BuilderInv, Early, Before
  <2>2. CASE phase = "WithEventHandlers"
    <3>1. scopes > 0 /\ gating_sequences = Members(scopes)
      BY <2>2 DEF BuilderInv, Early
    <3>2. (scopes + 1) - 1 = scopes /\ scopes + 1 # 1
      BY <1>2, <3>1
    <3>. QED  BY <1>2, <1>4, <2>2, <3>1, <3>2 DEF Before
  <2>. QED  BY <1>1, <2>1, <2>2
<1>7. \A h \in Registered' : dependencies'[h] =
        IF sequencer' = "multi" THEN {Stamps} ELSE Before(scope_of[h])'
  BY <1>2, <1>4 DEF BuilderInv, Before, Members
<1>8. Names(scope_handlers)' = {} /\ Names(event_handlers)' = Registered'
  BY <1>2, <1>4, <1>5 DEF Names
<1>9. sequencer # "none"
  BY <1>1 DEF BuilderInv, Early
<1>10. BuilderInv'
  <2>1. /\ phase' \notin Early /\ scopes' > 0 /\ sequencer' # "none"
        /\ phase' \notin {"WithEventHandlers", "built"}
    BY <1>2, <1>9 DEF Early
  <2>2. /\ cursors' = Members(scopes)' /\ Names(scope_handlers)' = cursors'
        /\ Names(event_handlers)' = Registered' \ cursors'
    BY <1>2, <1>4, <1>8
  <2>. QED  BY <1>6, <1>7, <2>1, <2>2 DEF BuilderInv
<1>. QED  BY <1>3, <1>10

\* A handler joins the open scope: it was in none.
LEMMA HandleEventsKeeps ==
  ASSUME BuilderType, BuilderInv, NEW h \in Handlers, HandleEvents(h)
  PROVE  BuilderType' /\ BuilderInv'
<1>1. /\ phase = "BarrierScope" /\ scope_of[h] = 0
      /\ cursors' = cursors \cup {h}
      /\ dependencies' = [dependencies EXCEPT ![h] = CreateBarrier(scope_gating)]
      /\ scope_handlers' = Append(scope_handlers, h)
      /\ scope_of' = [scope_of EXCEPT ![h] = scopes]
      /\ UNCHANGED <<phase, sequencer, scope_gating, gating_sequences,
                     event_handlers, gated, scopes>>
  BY DEF HandleEvents, chainVars
<1>2. /\ scopes \in Nat /\ scopes > 0 /\ sequencer \in {"single", "multi"}
      /\ scope_gating = Before(scopes)
  BY <1>1, BuilderAssumption DEF BuilderInv, Early, BuilderType
<1>3. /\ Append(scope_handlers, h) \in Seq(Handlers)
      /\ Names(scope_handlers)' = Names(scope_handlers) \cup {h}
  <2>1. scope_handlers \in Seq(Handlers)
    BY DEF BuilderType
  <2>2. Names(scope_handlers)' = Names(Append(scope_handlers, h))
    BY <1>1 DEF Names
  <2>. QED  BY <2>1, <2>2, NamesOfAppend
<1>4. CreateBarrier(scope_gating) \subseteq SequenceIds
  BY DEF CreateBarrier, MpmcBarrier, BuilderType, SequenceIds
<1>5. BuilderType'
  <2>1. dependencies' \in [Handlers -> SUBSET SequenceIds]
    BY <1>1, <1>4 DEF BuilderType
  <2>2. scope_of' \in [Handlers -> 0..scopes']
    BY <1>1, <1>2 DEF BuilderType
  <2>. QED  BY <1>1, <1>3, <2>1, <2>2 DEF BuilderType
<1>6. /\ Members(scopes)' = Members(scopes) \cup {h}
      /\ Registered' = Registered \cup {h} /\ h \notin Registered
      /\ \A k \in Nat : 0 < k /\ k < scopes => Members(k)' = Members(k)
  BY <1>1, <1>2 DEF BuilderType, Members, Registered
<1>7. ASSUME NEW k \in 1..scopes
      PROVE  k # 1 => {u \in Handlers : scope_of'[u] = k - 1} = Members(k - 1)
  <2>. SUFFICES ASSUME k # 1
                PROVE  \A u \in Handlers :
                         scope_of'[u] = k - 1 <=> scope_of[u] = k - 1
    BY DEF Members
  <2>1. k - 1 # scopes /\ k - 1 # 0
    BY <1>2
  <2>. QED  BY <1>1, <2>1 DEF BuilderType
<1>8. ASSUME NEW g \in Registered'
      PROVE  dependencies'[g] =
        IF sequencer' = "multi" THEN {Stamps} ELSE Before(scope_of[g])'
  <2>1. CASE g = h
    <3>1. dependencies'[g] = CreateBarrier(scope_gating) /\ scope_of'[g] = scopes
      BY <1>1, <2>1 DEF BuilderType
    <3>2. scopes # 1 =>
            {u \in Handlers : scope_of'[u] = scopes - 1} = Members(scopes - 1)
      BY <1>2, <1>7
    <3>3. Before(scope_of[g])' = Before(scopes)
      BY <3>1, <3>2 DEF Before, Members
    <3>. QED  BY <1>1, <1>2, <3>1, <3>3 DEF CreateBarrier, MpmcBarrier
  <2>2. CASE g # h
    <3>1. /\ g \in Registered /\ g \in Handlers
          /\ dependencies'[g] = dependencies[g] /\ scope_of'[g] = scope_of[g]
      BY <1>1, <1>6, <2>2 DEF BuilderType, Registered
    <3>2. scope_of[g] \in 1..scopes
      BY <3>1, <1>2 DEF BuilderType, Registered
    <3>3. Before(scope_of[g])' = Before(scope_of[g])
      BY <1>7, <3>1, <3>2 DEF Before, Members
    <3>. QED  BY <1>1, <3>1, <3>3 DEF BuilderInv
  <2>. QED  BY <2>1, <2>2
<1>9. scope_gating' = Before(scopes)'
  <2>1. scopes # 1 =>
          {u \in Handlers : scope_of'[u] = scopes - 1} = Members(scopes - 1)
    BY <1>2, <1>7
  <2>. QED  BY <1>1, <1>2, <2>1 DEF Before, Members
<1>10. Names(event_handlers)' = Registered' \ cursors'
  <2>1. Names(event_handlers) = Registered \ cursors /\ h \notin Registered
    BY <1>1, <1>6 DEF BuilderInv
  <2>. QED  BY <1>1, <1>6, <2>1 DEF Names
<1>11. BuilderInv'
  <2>1. cursors' = Members(scopes)' /\ Names(scope_handlers)' = cursors'
    BY <1>1, <1>3, <1>6 DEF BuilderInv
  <2>. QED  BY <1>1, <1>2, <1>8, <1>9, <1>10, <2>1 DEF BuilderInv, Early
<1>. QED  BY <1>5, <1>11

\* The closure returns and the scope's cursors are carried over.
LEMMA CloseScopeKeeps ==
  ASSUME BuilderType, BuilderInv, CloseScope
  PROVE  BuilderType' /\ BuilderInv'
<1>1. /\ phase = "BarrierScope" /\ phase' = "WithEventHandlers"
      /\ event_handlers' = event_handlers \o scope_handlers
      /\ gating_sequences' = cursors
      /\ scope_gating' = {} /\ cursors' = {} /\ scope_handlers' = <<>>
      /\ UNCHANGED <<sequencer, dependencies, gated, scopes, scope_of>>
  BY DEF CloseScope, Become, historyVars
<1>2. /\ event_handlers' \in Seq(Handlers)
      /\ Names(event_handlers)' = Names(event_handlers) \cup Names(scope_handlers)
  <2>1. event_handlers \in Seq(Handlers) /\ scope_handlers \in Seq(Handlers)
    BY DEF BuilderType
  <2>2. Names(event_handlers)' = Names(event_handlers \o scope_handlers)
    BY <1>1 DEF Names
  <2>. QED  BY <1>1, <2>1, <2>2, NamesOfConcat
<1>3. scope_handlers' \in Seq(Handlers)
  BY <1>1
<1>4. BuilderType'
  BY <1>1, <1>2, <1>3 DEF BuilderType
<1>5. /\ Registered' = Registered
      /\ Members(scopes)' = Members(scopes)
      /\ \A h \in Registered : Before(scope_of[h])' = Before(scope_of[h])
  BY <1>1 DEF Registered, Members, Before
<1>6. Names(event_handlers)' = Registered'
  <2>1. /\ Names(event_handlers) = Registered \ cursors
        /\ Names(scope_handlers) = cursors
        /\ cursors = Members(scopes) /\ scopes > 0
    BY <1>1 DEF BuilderInv, Early
  <2>2. Members(scopes) \subseteq Registered
    BY <2>1 DEF Members, Registered
  <2>. QED  BY <1>2, <1>5, <2>1, <2>2
<1>7. BuilderInv'
  BY <1>1, <1>5, <1>6 DEF BuilderInv, Early
<1>. QED  BY <1>4, <1>7

LEMMA ChainKeeps ==
  ASSUME BuilderType, BuilderInv, Chain
  PROVE  BuilderType' /\ BuilderInv'
<1>. USE DEF BuilderType, BuilderInv, Early, Registered, Members, Before,
            Become, scopeVars, chainVars, historyVars
<1>1. CASE Provide \/ ChooseStrategy
  BY <1>1 DEF Provide, ChooseStrategy
<1>2. ASSUME NEW kind \in {"single", "multi"}, ChooseSequencer(kind)
      PROVE  BuilderType' /\ BuilderInv'
  BY <1>2 DEF ChooseSequencer
<1>. QED
  BY <1>1, <1>2, EnterScopeKeeps, HandleEventsKeeps, CloseScopeKeeps DEF Chain

LEMMA BuildKeeps ==
  ASSUME BuilderType, BuilderInv, Build
  PROVE  BuilderType' /\ BuilderInv'
BY DEF Build, Become, BuilderType, BuilderInv, Early, Registered, Members,
   Before, scopeVars, chainVars, historyVars, Names
-----------------------------------------------------------------------------
(* The threads. *)

\* One step of the thread of h, be it a panic.
StepOf(h) ==
  /\ ProcessEvents(h) \/ Panic(h)
  /\ UNCHANGED <<builderVars, programVars>>

LEMMA Unchanged ==
  /\ UNCHANGED builderVars =>
       UNCHANGED <<phase, sequencer, scope_gating, cursors, scope_handlers,
                   gating_sequences, event_handlers, dependencies, gated,
                   scopes, scope_of>>
  /\ UNCHANGED threadVars =>
       UNCHANGED <<sequence, tpc, pos, available, running>>
  /\ UNCHANGED programVars =>
       UNCHANGED <<is_done, main, executor, producer, next_thread>>
BY DEF builderVars, scopeVars, chainVars, historyVars, threadVars, programVars

\* What a thread waits for has the type of a counter.
LEMMA WaitType ==
  ASSUME BuilderType, ThreadType, NEW h \in Handlers
  PROVE  Minimum(dependencies[h]) \in -1..MaxSequence
<1>1. dependencies[h] \in SUBSET SequenceIds
  BY DEF BuilderType
<1>. QED  BY <1>1, MinimumFacts

\* A thread keeps to its batch, and to the running state.
LEMMA ThreadKeepsBatch ==
  ASSUME BuilderType, ThreadType, BatchInv, LoopTestHolds,
         NEW h \in Handlers, ProcessEvents(h) \/ Panic(h)
  PROVE  ThreadType' /\ BatchInv' /\ LoopTestHolds'
<1>. USE DEF ThreadType, BatchInv, Batching, LoopTestHolds, GotoT
<1>0. /\ MaxSequence \in Nat
      /\ Handlers \subseteq SequenceIds
      /\ sequence[h] \in -1..MaxSequence
      /\ available[h] \in -1..MaxSequence
      /\ pos[h] \in 0..MaxSequence + 1
  BY SessionAssumption DEF SequenceIds
<1>1. CASE Run(h)
  BY <1>1 DEF Run
<1>2. CASE Started(h)
  BY <1>2 DEF Started
<1>3. CASE CheckAlert(h)
  BY <1>3 DEF CheckAlert
<1>4. CASE WaitFor(h)
  <2>. DEFINE upTo == Minimum(dependencies[h])
  <2>1. upTo \in -1..MaxSequence
    BY WaitType
  <2>. HIDE DEF upTo
  <2>2. CASE upTo > sequence[h]
    <3>1. /\ available' = [available EXCEPT ![h] = upTo]
          /\ pos' = [pos EXCEPT ![h] = sequence[h] + 1]
          /\ tpc' = [tpc EXCEPT ![h] = "event"] /\ tpc[h] = "wait"
          /\ UNCHANGED <<sequence, running>>
      BY <1>4, <2>2 DEF WaitFor, upTo
    <3>2. /\ sequence[h] + 1 \in 0..MaxSequence + 1
          /\ sequence[h] < sequence[h] + 1 /\ sequence[h] + 1 <= upTo
      BY <1>0, <2>1, <2>2
    <3>3. ThreadType'
      BY <1>0, <2>1, <3>1, <3>2
    <3>4. BatchInv'
      BY <1>0, <2>1, <2>2, <3>1, <3>2
    <3>5. LoopTestHolds'
      BY <3>1
    <3>. QED  BY <3>3, <3>4, <3>5
  <2>3. CASE ~(upTo > sequence[h])
    BY <1>4, <2>3 DEF WaitFor, upTo
  <2>. QED  BY <2>2, <2>3
<1>5. CASE HandleEvent(h)
  <2>1. CASE pos[h] = MaxSequence
    BY <1>5, <2>1 DEF HandleEvent
  <2>2. CASE pos[h] # MaxSequence
    <3>1. /\ pos' = [pos EXCEPT ![h] = @ + 1] /\ tpc[h] = "event"
          /\ tpc' = [tpc EXCEPT ![h] =
                       IF pos[h] = available[h] THEN "advance" ELSE "event"]
          /\ UNCHANGED <<sequence, available, running>>
      BY <1>5, <2>2 DEF HandleEvent
    <3>2. /\ pos[h] + 1 \in 0..MaxSequence + 1
          /\ sequence[h] < pos[h] + 1
          /\ pos[h] # available[h] => pos[h] + 1 <= available[h]
      BY <1>0, <2>2, <3>1
    <3>3. ThreadType'
      BY <1>0, <3>1, <3>2
    <3>4. BatchInv'
      BY <1>0, <3>1, <3>2
    <3>5. LoopTestHolds'
      BY <3>1
    <3>. QED  BY <3>3, <3>4, <3>5
  <2>. QED  BY <2>1, <2>2
<1>6. CASE Advance(h)
  <2>1. /\ sequence' = [sequence EXCEPT ![h] = available[h]]
        /\ tpc' = [tpc EXCEPT ![h] = "alert"] /\ tpc[h] = "advance"
        /\ UNCHANGED <<pos, available, running>>
    BY <1>6 DEF Advance
  <2>. QED  BY <1>0, <2>1
<1>7. CASE End(h)
  BY <1>7 DEF End
<1>8. CASE Panic(h)
  BY <1>8 DEF Panic
<1>. QED  BY <1>1, <1>2, <1>3, <1>4, <1>5, <1>6, <1>7, <1>8 DEF ProcessEvents

\* A thread that steps is alive, moves only itself and at most its sequence.
LEMMA ThreadFrame ==
  ASSUME ThreadType, NEW h \in Handlers, ProcessEvents(h) \/ Panic(h)
  PROVE  /\ tpc[h] \in Alive /\ tpc'[h] # "none"
         /\ \A g \in Handlers \ {h} :
              tpc'[g] = tpc[g] /\ available'[g] = available[g]
         /\ \/ sequence' = sequence
            \/ /\ tpc[h] = "advance" /\ tpc'[h] = "alert"
               /\ sequence' = [sequence EXCEPT ![h] = available[h]]
BY DEF ThreadType, ProcessEvents, Run, Started, CheckAlert, WaitFor,
   HandleEvent, Advance, End, Panic, GotoT, Alive

-----------------------------------------------------------------------------
(* The order of the scopes. *)

LEMMA SequencesRise ==
  ASSUME ThreadType, BatchInv, NEW h \in Handlers, ProcessEvents(h) \/ Panic(h)
  PROVE  /\ \A s \in SequenceIds : sequence[s] <= sequence'[s]
         /\ \A s \in SequenceIds \ {h} : sequence'[s] = sequence[s]
         /\ \A s \in SequenceIds :
              sequence[s] \in -1..MaxSequence /\ sequence'[s] \in -1..MaxSequence
<1>1. h \in SequenceIds /\ MaxSequence \in Nat
  BY SessionAssumption DEF SequenceIds
<1>2. \A s \in SequenceIds : sequence[s] \in -1..MaxSequence
  BY DEF ThreadType
<1>3. CASE sequence' = sequence
  BY <1>1, <1>2, <1>3
<1>4. CASE tpc[h] = "advance" /\ sequence' = [sequence EXCEPT ![h] = available[h]]
  <2>1. sequence[h] < available[h] /\ available[h] \in -1..MaxSequence
    BY <1>4 DEF BatchInv, Batching, ThreadType
  <2>. QED  BY <1>1, <1>2, <1>4, <2>1 DEF ThreadType
<1>. QED  BY <1>3, <1>4, ThreadFrame

\* Nobody is ahead of itself.
LEMMA AheadType ==
  ASSUME BuilderType, NEW h \in Registered
  PROVE  h \in Handlers /\ Ahead(h) \subseteq SequenceIds \ {h}
<1>1. \A u \in Registered : scope_of[u] < scope_of[h] => u \in Handlers /\ u # h
  BY BuilderAssumption DEF BuilderType, Registered
<1>. QED  BY <1>1, BuilderAssumption DEF Ahead, Registered, SequenceIds

\* A scope that is not the first and has none empty before it waits for a
\* processor of the scope before, which is behind all the earlier ones.
LEMMA WaitsBehind ==
  ASSUME BuilderType, ThreadType, BuilderInv, OrderInv, phase = "built",
         NEW h \in Registered, NEW s \in Ahead(h)
  PROVE  Minimum(dependencies[h]) <= sequence[s]
<1>1. /\ h \in Handlers /\ s \in SequenceIds
      /\ scope_of[h] \in Nat /\ scope_of[h] >= 1 /\ scope_of[h] <= scopes
      /\ scopes \in Nat
      /\ \A u \in Handlers : scope_of[u] \in Nat
      /\ dependencies[h] \in SUBSET SequenceIds
  BY AheadType, BuilderAssumption DEF BuilderType, Registered
<1>2. /\ Minimum(dependencies[h]) \in -1..MaxSequence
      /\ \A d \in dependencies[h] : Minimum(dependencies[h]) <= sequence[d]
  BY <1>1, MinimumFacts
<1>3. CASE sequencer = "multi"
  <2>1. dependencies[h] = {Stamps} /\ s = Stamps
    BY <1>3 DEF BuilderInv, Ahead
  <2>. QED  BY <1>2, <2>1
<1>4. CASE sequencer # "multi"
  <2>. DEFINE k == scope_of[h]
  <2>1. /\ dependencies[h] = Before(k)
        /\ NoEmptyScope(k - 1)
        /\ s = Cursor \/ (s \in Registered /\ scope_of[s] < k)
    BY <1>4 DEF BuilderInv, Ahead
  <2>2. CASE s \in dependencies[h]
    BY <1>2, <2>2
  <2>3. CASE s \notin dependencies[h]
    <3>1. k # 1
      <4>. SUFFICES ASSUME k = 1  PROVE FALSE
        OBVIOUS
      <4>1. s # Cursor
        BY <2>1, <2>3 DEF Before
      <4>. QED  BY <1>1, <2>1, <4>1 DEF Registered
    <3>2. k - 1 \in 1..(k - 1) /\ k - 1 \in Nat
      BY <1>1, <3>1
    <3>3. PICK d \in Handlers : scope_of[d] = k - 1
      BY <2>1, <3>2 DEF NoEmptyScope, Members
    <3>4. d \in dependencies[h] /\ d \in Registered
      BY <2>1, <3>1, <3>2, <3>3 DEF Before, Members, Registered
    <3>5. s # Cursor => scope_of[s] < k - 1
      <4>. SUFFICES ASSUME s # Cursor  PROVE scope_of[s] < k - 1
        OBVIOUS
      <4>1. s \in Handlers /\ scope_of[s] < k
        BY <2>1 DEF Registered
      <4>2. scope_of[s] # k - 1
        BY <2>1, <2>3, <3>1, <4>1 DEF Before, Members
      <4>. QED  BY <1>1, <4>1, <4>2
    <3>6. NoEmptyScope(scope_of[d] - 1)
      <4>1. \A j \in 1..(scope_of[d] - 1) : j \in 1..(k - 1)
        BY <1>1, <3>3
      <4>. QED  BY <2>1, <4>1 DEF NoEmptyScope
    <3>7. s \in Ahead(d)
      BY <1>4, <2>1, <3>3, <3>5, <3>6 DEF Ahead
    <3>8. sequence[d] <= sequence[s]
      BY <3>4, <3>7 DEF OrderInv
    <3>9. sequence[d] \in -1..MaxSequence /\ sequence[s] \in -1..MaxSequence
      BY <1>1, <3>3 DEF ThreadType, SequenceIds
    <3>. QED  BY <1>2, <3>4, <3>8, <3>9, SessionAssumption
  <2>. QED  BY <2>2, <2>3
<1>. QED  BY <1>3, <1>4

LEMMA ThreadKeepsOrder ==
  ASSUME BuilderType, ThreadType, BuilderInv, BatchInv, OrderInv,
         NEW h \in Handlers, StepOf(h)
  PROVE  OrderInv'
<1>0. /\ ProcessEvents(h) \/ Panic(h)
      /\ UNCHANGED <<phase, sequencer, dependencies, scopes, scope_of>>
  BY Unchanged DEF StepOf
<1>. SUFFICES ASSUME phase = "built", NEW g \in Registered, NEW s \in Ahead(g)
     PROVE  /\ sequence'[g] <= sequence'[s]
            /\ tpc'[g] \in Batching => available'[g] <= sequence'[s]
  BY <1>0 DEF OrderInv, Registered, Ahead, NoEmptyScope, Members
<1>1. /\ g \in Handlers /\ g \in SequenceIds /\ s \in SequenceIds /\ s # g
      /\ sequence[g] \in Int /\ sequence[s] \in Int /\ sequence'[s] \in Int
      /\ sequence'[g] \in Int /\ available[g] \in Int
      /\ sequence[s] <= sequence'[s]
  BY <1>0, AheadType, SequencesRise, SessionAssumption
     DEF SequenceIds, ThreadType
<1>2. /\ sequence[g] <= sequence[s]
      /\ tpc[g] \in Batching => available[g] <= sequence[s]
  BY DEF OrderInv
<1>3. CASE g # h
  <2>1. /\ sequence'[g] = sequence[g] /\ tpc'[g] = tpc[g]
        /\ available'[g] = available[g]
    BY <1>0, <1>1, <1>3, SequencesRise, ThreadFrame
  <2>. QED  BY <1>1, <1>2, <2>1
<1>4. CASE g = h
  <2>1. sequence'[g] <= sequence'[s]
    <3>1. CASE sequence' = sequence
      BY <1>2, <3>1
    <3>2. CASE tpc[h] = "advance" /\ sequence' = [sequence EXCEPT ![h] = available[h]]
      <4>1. sequence'[g] = available[g] /\ available[g] <= sequence[s]
        BY <1>1, <1>2, <1>4, <3>2 DEF Batching, ThreadType
      <4>. QED  BY <1>1, <4>1
    <3>. QED  BY <1>0, <3>1, <3>2, ThreadFrame
  <2>2. ASSUME tpc'[h] \in Batching
        PROVE  \/ tpc[h] \in Batching /\ available'[h] = available[h]
               \/ available'[h] = Minimum(dependencies[h])
    BY <1>0, <2>2 DEF ProcessEvents, Run, Started, CheckAlert, WaitFor,
       HandleEvent, Advance, End, Panic, GotoT, Batching, ThreadType
  <2>3. Minimum(dependencies[h]) <= sequence[s]
        /\ Minimum(dependencies[h]) \in Int
    BY <1>4, WaitsBehind, WaitType, SessionAssumption
  <2>. QED  BY <1>1, <1>2, <1>4, <2>1, <2>2, <2>3
<1>. QED  BY <1>3, <1>4
-----------------------------------------------------------------------------
(* Steps that leave some of the variables alone. *)

LEMMA BuilderFrame ==
  ASSUME BuilderType, BuilderInv, UNCHANGED builderVars
  PROVE  BuilderType' /\ BuilderInv'
BY Unchanged DEF BuilderType, BuilderInv, Registered, Members, Before, Names

LEMMA ThreadFrameOfProgram ==
  ASSUME ThreadType, BatchInv, LoopTestHolds, UNCHANGED threadVars
  PROVE  ThreadType' /\ BatchInv' /\ LoopTestHolds'
BY Unchanged DEF ThreadType, BatchInv, LoopTestHolds

LEMMA OrderFrame ==
  ASSUME OrderInv, UNCHANGED <<builderVars, threadVars>>
  PROVE  OrderInv'
BY Unchanged DEF OrderInv, Registered, Ahead, NoEmptyScope, Members

LEMMA PublishedFrame ==
  ASSUME UNCHANGED <<builderVars, threadVars>>
  PROVE  Published' = Published
BY Unchanged DEF Published

LEMMA ThreadKeepsProgram ==
  ASSUME Invariant, NEW h \in Handlers, StepOf(h)
  PROVE  ProgramType' /\ ProgramInv' /\ SpawnInv' /\ DrainInv'
<1>0. /\ BuilderType /\ ThreadType /\ ProgramType
      /\ BuilderInv /\ ProgramInv /\ BatchInv /\ SpawnInv /\ DrainInv
  BY TypeParts DEF Invariant
<1>1. /\ ProcessEvents(h) \/ Panic(h)
      /\ UNCHANGED <<phase, sequencer, event_handlers, gated, scopes, scope_of>>
      /\ UNCHANGED <<is_done, main, executor, producer, next_thread>>
  BY Unchanged DEF StepOf
<1>2. /\ tpc[h] \in Alive /\ tpc'[h] # "none"
      /\ \A g \in Handlers \ {h} : tpc'[g] = tpc[g]
  BY <1>0, <1>1, ThreadFrame
<1>3. tpc[h] \notin {"none", "ended", "dead"}
  BY <1>2 DEF Alive
<1>4. ProgramType' /\ ProgramInv'
  <2>1. main # "build"
    BY <1>0, <1>3 DEF ProgramInv, SpawnInv
  <2>. QED  BY <1>0, <1>1, <2>1 DEF ProgramType, ProgramInv
<1>5. SpawnInv'
  <2>1. ~(executor \in {"none", "runnables", "dropped"} /\ main # "spawn")
    BY <1>0, <1>3 DEF SpawnInv
  <2>2. Registered' = Registered /\ h \in Registered
    BY <1>0, <1>1, <1>3 DEF SpawnInv, Registered
  <2>3. executor # "joined"
    BY <1>0, <1>3, <2>2 DEF SpawnInv
  <2>4. main = "join" =>
          \A i \in DOMAIN event_handlers :
            i < next_thread => tpc'[event_handlers[i]] = "ended"
    <3>. SUFFICES ASSUME main = "join", NEW i \in DOMAIN event_handlers,
                         i < next_thread
                  PROVE  tpc'[event_handlers[i]] = "ended"
      OBVIOUS
    <3>1. tpc[event_handlers[i]] = "ended" /\ event_handlers[i] \in Handlers
      BY <1>0 DEF SpawnInv, BuilderType
    <3>. QED  BY <1>2, <1>3, <3>1
  <2>5. main = "panicked" => \E g \in Handlers : tpc'[g] = "dead"
    <3>. SUFFICES ASSUME main = "panicked"
                  PROVE  \E g \in Handlers : tpc'[g] = "dead"
      OBVIOUS
    <3>1. PICK g \in Handlers : tpc[g] = "dead"
      BY <1>0 DEF SpawnInv
    <3>2. g # h
      BY <1>3, <3>1
    <3>. QED  BY <1>2, <3>1, <3>2
  <2>6. \A g \in Handlers : tpc'[g] # "none" => g \in Registered
    BY <1>0, <1>2, <2>2 DEF SpawnInv
  <2>. QED  BY <1>1, <2>1, <2>2, <2>3, <2>4, <2>5, <2>6 DEF SpawnInv
<1>6. DrainInv'
  <2>1. Published' = Published /\ Published \in Int
    <3>1. /\ Cursor \in SequenceIds \ {h} /\ Stamps \in SequenceIds \ {h}
      BY BuilderAssumption DEF SequenceIds
    <3>2. sequence'[Cursor] = sequence[Cursor] /\ sequence'[Stamps] = sequence[Stamps]
          /\ sequence[Cursor] \in -1..MaxSequence /\ sequence[Stamps] \in -1..MaxSequence
      BY <1>0, <1>1, <3>1, SequencesRise
    <3>. QED  BY <1>1, <3>2, SessionAssumption DEF Published
  <2>2. \A g \in gated : g \in SequenceIds
    BY <1>0 DEF BuilderType, SequenceIds
  <2>3. \A s \in SequenceIds : sequence[s] <= sequence'[s]
          /\ sequence[s] \in Int /\ sequence'[s] \in Int
    BY <1>0, <1>1, SequencesRise, SessionAssumption
  <2>. SUFFICES ASSUME producer = "drained", NEW g \in gated
                PROVE  sequence'[g] >= Published
    BY <1>1, <2>1 DEF DrainInv
  <2>4. sequence[g] >= Published
    BY <1>0 DEF DrainInv
  <2>. QED  BY <2>1, <2>2, <2>3, <2>4
<1>. QED  BY <1>4, <1>5, <1>6

LEMMA ThreadStepKeeps ==
  ASSUME Invariant, NEW h \in Handlers, StepOf(h)
  PROVE  Invariant'
<1>0. /\ BuilderType /\ ThreadType /\ BuilderInv /\ BatchInv /\ OrderInv
      /\ LoopTestHolds
      /\ ProcessEvents(h) \/ Panic(h)
      /\ UNCHANGED builderVars
  BY TypeParts DEF Invariant, StepOf
<1>1. BuilderType' /\ BuilderInv'
  BY <1>0, BuilderFrame
<1>2. ThreadType' /\ BatchInv' /\ LoopTestHolds'
  BY <1>0, ThreadKeepsBatch
<1>3. OrderInv'
  BY <1>0, ThreadKeepsOrder
<1>4. ProgramType' /\ ProgramInv' /\ SpawnInv' /\ DrainInv'
  BY ThreadKeepsProgram
<1>5. TypeOK'
  BY <1>1, <1>2, <1>4 DEF TypeOK, BuilderType, ThreadType, ProgramType
<1>. QED  BY <1>1, <1>2, <1>3, <1>4, <1>5 DEF Invariant
-----------------------------------------------------------------------------
(* The program's steps. *)

\* Building: no thread runs yet and every counter is new.
LEMMA BuildStepKeeps ==
  ASSUME Invariant,
         \/ Chain /\ UNCHANGED <<threadVars, programVars>>
         \/ FinishBuild
  PROVE  Invariant'
<1>0. /\ BuilderType /\ ThreadType /\ ProgramType
      /\ BuilderInv /\ ProgramInv /\ BatchInv /\ SpawnInv /\ LoopTestHolds
  BY TypeParts DEF Invariant
<1>1. UNCHANGED threadVars
  BY DEF FinishBuild
<1>2. ThreadType' /\ BatchInv' /\ LoopTestHolds'
  BY <1>0, <1>1, ThreadFrameOfProgram
<1>3. BuilderType' /\ BuilderInv'
  BY <1>0, ChainKeeps, BuildKeeps DEF FinishBuild
<1>4. /\ phase # "built" /\ main = "build" /\ producer = "none"
      /\ \A h \in Handlers : tpc[h] = "none"
      /\ \A s \in SequenceIds : sequence[s] = -1
  <2>1. phase # "built"
    BY DEF Chain, Provide, ChooseStrategy, ChooseSequencer, OpenFirstScope,
       OpenScope, HandleEvents, CloseScope, FinishBuild, Build, Become
  <2>. QED  BY <1>0, <2>1 DEF ProgramInv, SpawnInv
<1>5. /\ sequence' = sequence /\ tpc' = tpc
      /\ \A h \in Handlers : tpc'[h] = "none"
      /\ \A s \in SequenceIds : sequence'[s] = -1
  BY <1>1, <1>4, Unchanged
<1>6. OrderInv'
  <2>1. ASSUME NEW h \in Handlers, NEW s \in SequenceIds
        PROVE  sequence'[h] <= sequence'[s] /\ tpc'[h] \notin Batching
    BY <1>5 DEF SequenceIds, Batching
  <2>2. \A h \in Registered' : h \in Handlers /\ Ahead(h)' \subseteq SequenceIds
    BY DEF Registered, Ahead, SequenceIds
  <2>. QED  BY <2>1, <2>2 DEF OrderInv
<1>7. ProgramType' /\ ProgramInv' /\ SpawnInv' /\ DrainInv'
  <2>1. CASE Chain /\ UNCHANGED <<threadVars, programVars>>
    <3>1. phase' # "built"
      BY <2>1 DEF Chain, Provide, ChooseStrategy, ChooseSequencer,
         OpenFirstScope, OpenScope, EnterScope, HandleEvents, CloseScope, Become
    <3>2. UNCHANGED <<is_done, main, executor, producer, next_thread>>
      BY <2>1, Unchanged
    <3>. QED
      BY <1>0, <1>4, <1>5, <3>1, <3>2
         DEF ProgramType, ProgramInv, SpawnInv, DrainInv
  <2>2. CASE FinishBuild
    BY <1>0, <1>4, <1>5, <2>2
       DEF FinishBuild, Build, Become, ProgramType, ProgramInv, SpawnInv, DrainInv
  <2>. QED  BY <2>1, <2>2
<1>8. TypeOK'
  BY <1>2, <1>3, <1>7 DEF TypeOK, BuilderType, ThreadType, ProgramType
<1>. QED  BY <1>2, <1>3, <1>6, <1>7, <1>8 DEF Invariant

\* Calls that move neither counters nor threads.
CallStep ==
  \/ BeginSpawn \/ EndSpawn \/ DropExecutor
  \/ BeginJoin \/ JoinThread \/ EndJoin
  \/ BeginDrain \/ DrainRound \/ DropProducer
  \/ Return \/ UNCHANGED vars

LEMMA CallStepFrame == CallStep => UNCHANGED <<builderVars, threadVars>>
BY DEF CallStep, BeginSpawn, EndSpawn, DropExecutor, BeginJoin, JoinThread,
   EndJoin, BeginDrain, DrainRound, DropProducer, Return, vars

\* A drain that returns has seen every gating sequence at the last event.
LEMMA DrainRoundKeeps ==
  ASSUME BuilderType, ThreadType, DrainInv, CallStep
  PROVE  DrainInv'
<1>0. UNCHANGED <<sequence, gated>> /\ Published' = Published
  BY CallStepFrame, PublishedFrame, Unchanged
<1>1. CASE producer' = "drained" /\ producer # "drained"
  <2>1. DrainRound /\ Minimum(gated) >= Published
    BY <1>1 DEF CallStep, BeginSpawn, EndSpawn, DropExecutor, BeginJoin,
       JoinThread, EndJoin, BeginDrain, DrainRound, DropProducer, Return,
       vars, programVars
  <2>2. gated \in SUBSET SequenceIds
    BY DEF BuilderType, SequenceIds
  <2>3. /\ Minimum(gated) \in Int
        /\ \A g \in gated : Minimum(gated) <= sequence[g] /\ sequence[g] \in Int
    BY <2>2, MinimumFacts, SessionAssumption DEF ThreadType
  <2>4. Published \in Int
    BY SessionAssumption DEF ThreadType, Published, SequenceIds
  <2>5. \A g \in gated : sequence[g] >= Published
    BY <2>1, <2>3, <2>4
  <2>. QED  BY <1>0, <2>5 DEF DrainInv
<1>2. CASE ~(producer' = "drained" /\ producer # "drained")
  BY <1>0, <1>2 DEF DrainInv
<1>. QED  BY <1>1, <1>2

LEMMA CallStepKeepsProgram ==
  ASSUME BuilderType, BuilderInv, ProgramType, ProgramInv, SpawnInv, CallStep
  PROVE  ProgramType' /\ ProgramInv' /\ SpawnInv'
<1>0. UNCHANGED <<phase, event_handlers, scope_of, sequence, tpc>>
  BY CallStepFrame, Unchanged
<1>1. Registered' = Registered
  BY <1>0 DEF Registered
<1>2. /\ event_handlers \in Seq(Handlers) /\ next_thread \in Nat \ {0}
      /\ DOMAIN event_handlers = 1..Len(event_handlers)
      /\ Len(event_handlers) \in Nat
  BY LenProperties DEF BuilderType, ProgramType
<1>. USE DEF ProgramType, ProgramInv, SpawnInv
<1>3. CASE BeginSpawn \/ EndSpawn \/ DropExecutor
  BY <1>0, <1>1, <1>3 DEF BeginSpawn, EndSpawn, DropExecutor
<1>4. CASE BeginJoin
  <2>1. \A i \in DOMAIN event_handlers : ~(i < 1)
    BY <1>2
  <2>. QED  BY <1>0, <1>1, <1>4, <2>1 DEF BeginJoin
<1>5. CASE JoinThread
  <2>1. main = "join" /\ next_thread <= Len(event_handlers)
        /\ next_thread \in DOMAIN event_handlers
        /\ event_handlers[next_thread] \in Handlers
        /\ UNCHANGED executor
    BY <1>2, <1>5 DEF JoinThread
  <2>2. CASE tpc[event_handlers[next_thread]] = "ended"
    <3>1. next_thread' = next_thread + 1 /\ UNCHANGED <<main, producer, is_done>>
      BY <1>5, <2>2 DEF JoinThread
    <3>2. \A i \in DOMAIN event_handlers :
            i < next_thread + 1 => i < next_thread \/ i = next_thread
      BY <1>2
    <3>3. next_thread + 1 \in Nat \ {0}
      BY <1>2
    <3>. QED  BY <1>0, <1>1, <2>1, <2>2, <3>1, <3>2, <3>3
  <2>3. CASE tpc[event_handlers[next_thread]] # "ended"
    <3>1. /\ tpc[event_handlers[next_thread]] = "dead"
          /\ main' = "panicked" /\ is_done' = TRUE /\ next_thread' = next_thread
          /\ producer' = IF producer = "held" THEN "dropped" ELSE producer
      BY <1>5, <2>3 DEF JoinThread
    <3>. QED  BY <1>0, <1>1, <2>1, <3>1
  <2>. QED  BY <2>2, <2>3
<1>6. CASE EndJoin
  <2>1. /\ main = "join" /\ main' = "use" /\ executor' = "joined"
        /\ next_thread > Len(event_handlers)
        /\ UNCHANGED <<is_done, producer, next_thread>>
    BY <1>6 DEF EndJoin
  <2>2. \A i \in DOMAIN event_handlers : tpc[event_handlers[i]] = "ended"
    BY <1>2, <2>1
  <2>3. Names(event_handlers) = Registered
    BY <2>1 DEF BuilderInv
  <2>4. \A h \in Registered : tpc[h] = "ended"
    BY <2>2, <2>3 DEF Names
  <2>. QED  BY <1>0, <1>1, <2>1, <2>4
<1>7. CASE BeginDrain \/ DrainRound \/ DropProducer
  BY <1>0, <1>1, <1>7 DEF BeginDrain, DrainRound, DropProducer
<1>8. CASE Return
  BY <1>0, <1>1, <1>8 DEF Return
<1>9. CASE UNCHANGED vars
  BY <1>0, <1>1, <1>9, Unchanged DEF vars
<1>. QED  BY <1>3, <1>4, <1>5, <1>6, <1>7, <1>8, <1>9 DEF CallStep
LEMMA CallStepKeeps ==
  ASSUME Invariant, CallStep
  PROVE  Invariant'
<1>0. /\ BuilderType /\ ThreadType /\ ProgramType
      /\ BuilderInv /\ ProgramInv /\ BatchInv /\ OrderInv /\ SpawnInv
      /\ LoopTestHolds /\ DrainInv
  BY TypeParts DEF Invariant
<1>1. UNCHANGED <<builderVars, threadVars>>
  BY CallStepFrame
<1>2. /\ BuilderType' /\ BuilderInv' /\ ThreadType' /\ BatchInv'
      /\ LoopTestHolds' /\ OrderInv'
  BY <1>0, <1>1, BuilderFrame, ThreadFrameOfProgram, OrderFrame
<1>3. ProgramType' /\ ProgramInv' /\ SpawnInv' /\ DrainInv'
  BY <1>0, CallStepKeepsProgram, DrainRoundKeeps
<1>4. TypeOK'
  BY <1>2, <1>3 DEF TypeOK, BuilderType, ThreadType, ProgramType
<1>. QED  BY <1>2, <1>3, <1>4 DEF Invariant

\* stop() comes before any thread.
LEMMA StopKeeps ==
  ASSUME Invariant, NEW h \in Handlers, Stop(h)
  PROVE  Invariant'
<1>0. /\ BuilderType /\ ThreadType /\ ProgramType
      /\ BuilderInv /\ ProgramInv /\ BatchInv /\ OrderInv /\ SpawnInv
      /\ LoopTestHolds /\ DrainInv
  BY TypeParts DEF Invariant
<1>1. /\ main = "use" /\ executor = "runnables"
      /\ running' = [running EXCEPT ![h] = "Halted"]
      /\ UNCHANGED builderVars /\ UNCHANGED programVars
      /\ UNCHANGED <<sequence, tpc, pos, available>>
  BY DEF Stop
<1>2. \A g \in Handlers : tpc[g] = "none"
  BY <1>0, <1>1 DEF SpawnInv
<1>3. BuilderType' /\ BuilderInv'
  BY <1>0, <1>1, BuilderFrame
<1>4. ThreadType' /\ BatchInv' /\ LoopTestHolds'
  BY <1>0, <1>1, <1>2 DEF ThreadType, BatchInv, LoopTestHolds
<1>5. OrderInv'
  BY <1>0, <1>1, Unchanged DEF OrderInv, Registered, Ahead, NoEmptyScope, Members
<1>6. ProgramType' /\ ProgramInv' /\ SpawnInv' /\ DrainInv'
  BY <1>0, <1>1, Unchanged
     DEF ProgramType, ProgramInv, SpawnInv, DrainInv, Registered, Published
<1>7. TypeOK'
  BY <1>3, <1>4, <1>6 DEF TypeOK, BuilderType, ThreadType, ProgramType
<1>. QED  BY <1>3, <1>4, <1>5, <1>6, <1>7 DEF Invariant

LEMMA SpawnThreadKeeps ==
  ASSUME Invariant, SpawnThread
  PROVE  Invariant'
<1>0. /\ BuilderType /\ ThreadType /\ ProgramType
      /\ BuilderInv /\ ProgramInv /\ BatchInv /\ OrderInv /\ SpawnInv
      /\ LoopTestHolds /\ DrainInv
  BY TypeParts DEF Invariant
<1>. DEFINE h == event_handlers[next_thread]
<1>1. /\ main = "spawn" /\ next_thread <= Len(event_handlers)
      /\ tpc' = [tpc EXCEPT ![h] = "spawned"]
      /\ next_thread' = next_thread + 1
      /\ UNCHANGED builderVars
      /\ UNCHANGED <<sequence, pos, available, running, is_done, main,
                     executor, producer>>
  BY DEF SpawnThread, GotoT
<1>2. UNCHANGED <<phase, sequencer, event_handlers, gated, scopes, scope_of>>
  BY <1>1, Unchanged
<1>3. /\ next_thread \in Nat \ {0} /\ next_thread \in DOMAIN event_handlers
      /\ phase = "built" /\ executor = "runnables"
  BY <1>0, <1>1, LenProperties DEF BuilderType, ProgramType, ProgramInv
<1>4. h \in Registered /\ h \in Handlers /\ Registered' = Registered
  <2>1. Names(event_handlers) = Registered
    BY <1>0, <1>3 DEF BuilderInv
  <2>. QED  BY <1>2, <1>3, <2>1 DEF Names, Registered
<1>. HIDE DEF h
<1>5. BuilderType' /\ BuilderInv'
  BY <1>0, <1>1, BuilderFrame
<1>6. /\ \A g \in Handlers \ {h} : tpc'[g] = tpc[g]
      /\ tpc'[h] = "spawned"
      /\ ThreadType'
  BY <1>0, <1>1, <1>4 DEF ThreadType
<1>7. BatchInv' /\ LoopTestHolds'
  BY <1>0, <1>1, <1>6 DEF BatchInv, Batching, LoopTestHolds
<1>8. OrderInv'
  <2>1. \A g \in Handlers : tpc'[g] \in Batching => tpc[g] \in Batching
    BY <1>6 DEF Batching
  <2>2. \A g \in Registered : g \in Handlers /\ Ahead(g)' = Ahead(g)
    BY <1>2 DEF Registered, Ahead, NoEmptyScope, Members
  <2>. QED  BY <1>0, <1>1, <1>3, <1>4, <2>1, <2>2 DEF OrderInv
<1>9. ProgramType' /\ ProgramInv'
  BY <1>0, <1>1, <1>2, <1>3 DEF ProgramType, ProgramInv
<1>10. SpawnInv'
  BY <1>0, <1>1, <1>2, <1>3, <1>4, <1>6 DEF SpawnInv
<1>11. DrainInv'
  BY <1>0, <1>1, <1>2 DEF DrainInv, Published
<1>12. TypeOK'
  BY <1>5, <1>6, <1>9 DEF TypeOK, BuilderType, ThreadType, ProgramType
<1>. QED  BY <1>5, <1>6, <1>7, <1>8, <1>9, <1>10, <1>11, <1>12 DEF Invariant

\* What is published only rises, and nobody has drained yet.
LEMMA WriteKeeps ==
  ASSUME Invariant, Write
  PROVE  Invariant'
<1>0. /\ BuilderType /\ ThreadType /\ ProgramType
      /\ BuilderInv /\ ProgramInv /\ BatchInv /\ OrderInv /\ SpawnInv
      /\ LoopTestHolds /\ DrainInv
  BY TypeParts DEF Invariant
<1>. DEFINE last == IF sequencer = "single" THEN Cursor ELSE Stamps
<1>1. /\ main = "use" /\ producer = "held"
      /\ sequence[last] + 1 < MaxEvents
      /\ sequence' = [sequence EXCEPT ![last] = @ + 1]
      /\ UNCHANGED builderVars /\ UNCHANGED programVars
      /\ UNCHANGED <<tpc, pos, available, running>>
  BY DEF Write, Published
<1>2. last \in SequenceIds /\ last \notin Handlers
  BY BuilderAssumption DEF SequenceIds
<1>. HIDE DEF last
<1>3. /\ sequence[last] \in -1..MaxSequence /\ MaxSequence \in Nat
      /\ sequence[last] + 1 \in -1..MaxSequence
  <2>1. sequence[last] \in -1..MaxSequence
    BY <1>0, <1>2 DEF ThreadType
  <2>. QED  BY <1>1, <2>1, SessionAssumption
<1>4. /\ ThreadType'
      /\ \A g \in Handlers : sequence'[g] = sequence[g]
      /\ \A s \in SequenceIds : sequence[s] <= sequence'[s]
                /\ sequence[s] \in Int /\ sequence'[s] \in Int
  <2>1. ThreadType'
    BY <1>0, <1>1, <1>3 DEF ThreadType
  <2>2. \A g \in Handlers : sequence'[g] = sequence[g]
    BY <1>0, <1>1, <1>2 DEF ThreadType, SequenceIds
  <2>3. \A s \in SequenceIds : sequence[s] <= sequence'[s]
                /\ sequence[s] \in Int /\ sequence'[s] \in Int
    BY <1>0, <1>1, <1>2, <1>3 DEF ThreadType
  <2>. QED  BY <2>1, <2>2, <2>3
<1>5. BuilderType' /\ BuilderInv'
  BY <1>0, <1>1, BuilderFrame
<1>6. BatchInv' /\ LoopTestHolds'
  BY <1>0, <1>1, <1>4 DEF BatchInv, Batching, LoopTestHolds
<1>7. OrderInv'
  <2>1. /\ phase' = phase /\ Registered' = Registered
        /\ \A g \in Registered : Ahead(g)' = Ahead(g)
    BY <1>1, Unchanged DEF Registered, Ahead, NoEmptyScope, Members
  <2>. SUFFICES ASSUME phase = "built", NEW g \in Registered, NEW s \in Ahead(g)
                PROVE  /\ sequence'[g] <= sequence'[s]
                       /\ tpc'[g] \in Batching => available'[g] <= sequence'[s]
    BY <2>1 DEF OrderInv
  <2>2. g \in Handlers /\ g \in SequenceIds /\ s \in SequenceIds
    BY <1>0, AheadType DEF SequenceIds
  <2>3. /\ sequence[g] <= sequence[s]
        /\ tpc[g] \in Batching => available[g] <= sequence[s]
    BY <1>0 DEF OrderInv
  <2>4. available[g] \in Int
    BY <1>0, <1>3, <2>2 DEF ThreadType
  <2>. QED  BY <1>1, <1>4, <2>2, <2>3, <2>4
<1>8. ProgramType' /\ ProgramInv' /\ SpawnInv' /\ DrainInv'
  BY <1>0, <1>1, Unchanged
     DEF ProgramType, ProgramInv, SpawnInv, DrainInv, Registered
<1>9. TypeOK'
  BY <1>4, <1>5, <1>8 DEF TypeOK, BuilderType, ThreadType, ProgramType
<1>. QED  BY <1>4, <1>5, <1>6, <1>7, <1>8, <1>9 DEF Invariant

-----------------------------------------------------------------------------

LEMMA InvariantInitial == Init => Invariant
<1>. SUFFICES ASSUME Init  PROVE Invariant
  OBVIOUS
<1>. USE DEF Init, BuilderInit
<1>1. BuilderType /\ ThreadType /\ ProgramType
  <2>1. 0 \in 0..MaxScopes /\ scope_of \in [Handlers -> 0..scopes]
    BY BuilderAssumption
  <2>2. BuilderType
    <3>1. /\ scope_handlers \in Seq(Handlers) /\ event_handlers \in Seq(Handlers)
          /\ dependencies \in [Handlers -> SUBSET SequenceIds]
          /\ scopes \in 0..MaxScopes
      BY <2>1
    <3>. QED  BY <2>1, <3>1 DEF BuilderType
  <2>3. /\ -1 \in -1..MaxSequence /\ 0 \in 0..MaxSequence + 1
    BY SessionAssumption
  <2>4. /\ sequence \in [SequenceIds -> -1..MaxSequence]
        /\ pos \in [Handlers -> 0..MaxSequence + 1]
        /\ available \in [Handlers -> -1..MaxSequence]
    BY <2>3
  <2>5. ThreadType
    <3>1. /\ tpc \in [Handlers -> {"none", "spawned", "start", "alert", "wait",
                           "event", "advance", "shutdown", "ended", "dead"}]
          /\ running \in [Handlers -> {"Idle", "Halted", "Running"}]
      OBVIOUS
    <3>. QED  BY <2>4, <3>1 DEF ThreadType
  <2>6. ProgramType
    <3>1. is_done \in BOOLEAN
      OBVIOUS
    <3>2. next_thread \in Nat \ {0}
      OBVIOUS
    <3>. QED  BY <3>1, <3>2 DEF ProgramType
  <2>. QED  BY <2>2, <2>5, <2>6
<1>2. Registered = {}
  BY DEF Registered
<1>3. BuilderInv
  BY <1>2 DEF BuilderInv, Early
<1>4. BatchInv /\ LoopTestHolds /\ OrderInv
  BY <1>2 DEF BatchInv, Batching, LoopTestHolds, OrderInv
<1>5. ProgramInv /\ SpawnInv /\ DrainInv
  BY DEF ProgramInv, SpawnInv, DrainInv
<1>. QED  BY <1>1, <1>3, <1>4, <1>5, TypeParts DEF Invariant

LEMMA InvariantStep == Invariant /\ [Next]_vars => Invariant'
<1>. SUFFICES ASSUME Invariant, [Next]_vars  PROVE Invariant'
  OBVIOUS
<1>1. CASE Chain /\ UNCHANGED <<threadVars, programVars>>
  BY <1>1, BuildStepKeeps
<1>2. CASE FinishBuild
  BY <1>2, BuildStepKeeps
<1>3. ASSUME NEW h \in Handlers, Stop(h)  PROVE Invariant'
  BY <1>3, StopKeeps
<1>4. CASE BeginSpawn \/ DropExecutor \/ BeginJoin \/ BeginDrain
           \/ DropProducer \/ Return \/ Over \/ UNCHANGED vars
  BY <1>4, CallStepKeeps DEF CallStep, Over
<1>5. CASE Write
  BY <1>5, WriteKeeps
<1>6. CASE Proceed
  BY <1>6, CallStepKeeps, SpawnThreadKeeps DEF Proceed, CallStep
<1>7. ASSUME NEW h \in Handlers,
             ThreadStep(h) \/ (Panic(h) /\ UNCHANGED <<builderVars, programVars>>)
      PROVE  Invariant'
  BY <1>7, ThreadStepKeeps DEF ThreadStep, StepOf
<1>. QED  BY <1>1, <1>2, <1>3, <1>4, <1>5, <1>6, <1>7 DEF Next

LEMMA InvariantHolds == Spec => []Invariant
BY InvariantInitial, InvariantStep, PTL DEF Spec

-----------------------------------------------------------------------------
(* The theorems. *)

\* Type correctness: every value of every variable, through any chain of
\* scopes and any order of calls.
THEOREM TypeCorrect == Spec => []TypeOK
<1>1. Invariant => TypeOK
  BY DEF Invariant
<1>. QED  BY <1>1, InvariantHolds, PTL

\* However many scopes a chain has, empty or not, build() has wired it as
\* module Topology assumes.
THEOREM WiringIsSequential == Spec => []WiringFollowsScopes
<1>1. Invariant => WiringFollowsScopes
  <2>. SUFFICES ASSUME Invariant, phase = "built"
                PROVE  /\ \A h \in Registered :
                            dependencies[h] =
                              IF sequencer = "multi" THEN {Stamps}
                              ELSE IF scope_of[h] = 1 THEN {Cursor}
                              ELSE Members(scope_of[h] - 1)
                       /\ gated = Members(scopes)
                       /\ Registered =
                            {event_handlers[i] : i \in DOMAIN event_handlers}
    BY DEF WiringFollowsScopes
  <2>. QED  BY DEF Invariant, BuilderInv, Before, Names
<1>. QED  BY <1>1, InvariantHolds, PTL

\* What is proved of the single-producer disruptor for any wiring that module
\* Topology admits is so for every chain of non-empty scopes that a program can
\* build with it: the barriers and the gating sequences are those of Topology.
THEOREM WiringIsATopology == Spec => []WiringIsTopology
<1>1. Invariant => WiringIsTopology
  <2>. SUFFICES ASSUME Invariant, phase = "built", sequencer = "single",
                       NoEmptyScope(scopes)
                PROVE  /\ Cursor \notin Registered
                       /\ scopes \in Nat \ {0}
                       /\ [h \in Registered |-> scope_of[h]]
                            \in [Registered -> 1..scopes]
                       /\ \A k \in 1..scopes :
                            \E h \in Registered : scope_of[h] = k
                       /\ \A h \in Registered : dependencies[h] = Wiring!Barrier(h)
                       /\ gated = Wiring!GatingSequences
    BY DEF WiringIsTopology
  <2>. DEFINE stage == [h \in Registered |-> scope_of[h]]
  <2>1. /\ BuilderType /\ BuilderInv
        /\ scopes \in Nat \ {0}
    BY TypeParts, BuilderAssumption DEF Invariant, BuilderInv, BuilderType, Early
  <2>2. \A h \in Registered :
          /\ h \in Handlers /\ h # Cursor
          /\ scope_of[h] \in Nat /\ scope_of[h] \in 1..scopes
          /\ stage[h] = scope_of[h]
    BY <2>1, BuilderAssumption DEF BuilderType, Registered
  <2>3. \A k \in Nat \ {0} :
          Members(k) = {h \in Registered : scope_of[h] = k}
    BY DEF Members, Registered
  <2>4. ASSUME NEW k \in 1..scopes
        PROVE  \E h \in Registered : scope_of[h] = k
    <3>1. Members(k) # {} /\ k \in Nat \ {0}
      BY DEF NoEmptyScope
    <3>. QED  BY <2>3, <3>1
  <2>5. ASSUME NEW h \in Registered  PROVE dependencies[h] = Wiring!Barrier(h)
    <3>1. dependencies[h] = Before(scope_of[h])
      BY <2>1 DEF BuilderInv
    <3>2. Wiring!Barrier(h) =
            {s \in Registered \cup {Cursor} : Wiring!Depth(s) = scope_of[h] - 1}
      BY <2>2 DEF Wiring!Barrier, Wiring!SequenceIds
    <3>3. /\ Wiring!Depth(Cursor) = 0
          /\ \A s \in Registered : Wiring!Depth(s) = scope_of[s]
      BY <2>2 DEF Wiring!Depth
    <3>4. CASE scope_of[h] = 1
      <4>1. Wiring!Barrier(h) = {Cursor}
        BY <2>2, <3>2, <3>3, <3>4
      <4>. QED  BY <3>1, <3>4, <4>1 DEF Before
    <3>5. CASE scope_of[h] # 1
      <4>1. scope_of[h] - 1 \in Nat \ {0}
        BY <2>2, <3>5
      <4>2. Wiring!Barrier(h) = {s \in Registered : scope_of[s] = scope_of[h] - 1}
        BY <3>2, <3>3, <4>1
      <4>. QED  BY <2>3, <3>1, <3>5, <4>1, <4>2 DEF Before
    <3>. QED  BY <3>4, <3>5
  <2>6. gated = Wiring!GatingSequences
    <3>1. Wiring!GatingSequences = {h \in Registered : scope_of[h] = scopes}
      BY <2>2 DEF Wiring!GatingSequences
    <3>. QED  BY <2>1, <2>3, <3>1 DEF BuilderInv
  <2>. QED  BY <2>1, <2>2, <2>4, <2>5, <2>6
<1>. QED  BY <1>1, InvariantHolds, PTL

\* The order of the scopes is kept, over the wiring as built.
THEOREM EventsInOrder == Spec => []HandledInOrder
<1>1. Invariant => HandledInOrder
  <2>. SUFFICES ASSUME Invariant, NEW h \in Handlers, tpc[h] = "event"
                PROVE  \/ sequencer = "multi" /\ pos[h] <= Published
                       \/ /\ sequencer = "single"
                          /\ NoEmptyScope(scope_of[h] - 1) =>
                               /\ pos[h] <= Published
                               /\ \A u \in Registered :
                                    scope_of[u] < scope_of[h] =>
                                      pos[h] <= sequence[u]
    BY DEF HandledInOrder
  <2>1. h \in Registered /\ phase = "built" /\ BuilderType
    BY TypeParts DEF Invariant, SpawnInv, ProgramInv
  <2>2. sequencer \in {"single", "multi"}
    BY <2>1 DEF Invariant, TypeOK, BuilderInv, Early
  <2>3. \A s \in Ahead(h) : pos[h] <= sequence[s]
    <3>. SUFFICES ASSUME NEW s \in Ahead(h)  PROVE pos[h] <= sequence[s]
      OBVIOUS
    <3>1. available[h] <= sequence[s] /\ pos[h] <= available[h]
      BY <2>1 DEF Invariant, OrderInv, BatchInv, Batching
    <3>2. /\ available[h] \in Int /\ sequence[s] \in Int /\ pos[h] \in Int
      BY <2>1, AheadType, SessionAssumption DEF Invariant, TypeOK
    <3>. QED  BY <3>1, <3>2
  <2>. QED  BY <2>2, <2>3 DEF Ahead, Published
<1>. QED  BY <1>1, InvariantHolds, PTL

\* drain() has waited for everybody.
THEOREM DrainIsComplete == Spec => []DrainDelivers
<1>1. Invariant => DrainDelivers
  <2>. SUFFICES ASSUME Invariant, producer = "drained", NoEmptyScope(scopes),
                       sequencer = "single" \/ scopes = 1,
                       NEW h \in Registered
                PROVE  /\ sequence[h] = Published
                       /\ tpc[h] \notin {"event", "advance"}
    BY DEF DrainDelivers
  <2>1. /\ phase = "built" /\ sequencer \in {"single", "multi"}
        /\ gated = Members(scopes)
        /\ scopes \in Nat /\ scopes > 0
        /\ h \in Handlers /\ scope_of[h] \in Nat
        /\ 1 <= scope_of[h] /\ scope_of[h] <= scopes
    BY BuilderAssumption
       DEF Invariant, TypeOK, BuilderInv, ProgramInv, Early, Registered
  <2>2. PICK g \in Handlers : scope_of[g] = scopes
    BY <2>1 DEF NoEmptyScope, Members
  <2>3. /\ g \in gated /\ g \in Registered /\ sequence[g] >= Published
        /\ \A u \in gated : sequence[u] >= Published
    BY <2>1, <2>2 DEF Invariant, DrainInv, Members, Registered
  <2>. DEFINE last == IF sequencer = "single" THEN Cursor ELSE Stamps
  <2>4. \A u \in Registered :
          (sequencer = "multi" => last \in Ahead(u))
          /\ (sequencer = "single" => {Cursor} \cup {w \in Registered : scope_of[w] < scope_of[u]}
                                         = Ahead(u))
    <3>. SUFFICES ASSUME NEW u \in Registered, sequencer = "single"
                  PROVE  NoEmptyScope(scope_of[u] - 1)
      BY DEF Ahead
    <3>1. scope_of[u] \in Nat /\ scope_of[u] <= scopes
      BY <2>1 DEF Invariant, TypeOK, Registered
    <3>2. \A j \in 1..(scope_of[u] - 1) : j \in 1..scopes
      BY <2>1, <3>1
    <3>. QED  BY <3>2 DEF NoEmptyScope
  <2>5. /\ last \in Ahead(h) /\ Published = sequence[last]
        /\ last \in SequenceIds
    BY <2>1, <2>4 DEF Published, SequenceIds
  <2>6. /\ sequence[h] <= sequence[last]
        /\ tpc[h] \in Batching => available[h] <= sequence[last]
    BY <2>1, <2>5 DEF Invariant, OrderInv
  <2>7. /\ sequence[h] \in Int /\ sequence[g] \in Int
        /\ sequence[last] \in Int /\ available[h] \in Int
    BY <2>1, <2>5, SessionAssumption DEF Invariant, TypeOK, SequenceIds
  <2>8. sequence[h] >= Published
    <3>1. CASE scope_of[h] = scopes
      BY <2>1, <2>3, <3>1 DEF Members
    <3>2. CASE scope_of[h] # scopes
      <4>1. sequencer = "single" /\ scope_of[h] < scope_of[g]
        BY <2>1, <2>2, <3>2
      <4>2. h \in Ahead(g)
        BY <2>3, <2>4, <4>1
      <4>3. sequence[g] <= sequence[h]
        BY <2>1, <2>3, <4>2 DEF Invariant, OrderInv
      <4>. QED  BY <2>3, <2>5, <2>7, <4>3
    <3>. QED  BY <3>1, <3>2
  <2>9. tpc[h] \in Batching => sequence[h] < available[h]
    BY <2>1 DEF Invariant, BatchInv
  <2>. QED  BY <2>5, <2>6, <2>7, <2>8, <2>9 DEF Batching
<1>. QED  BY <1>1, InvariantHolds, PTL

\* The lifetime that spawn() makes up is never outlived.
THEOREM ThreadsAreJoined == Spec => []NoThreadOutlives
<1>1. Invariant => NoThreadOutlives
  BY DEF Invariant, NoThreadOutlives, ProgramInv, SpawnInv, Registered
<1>. QED  BY <1>1, InvariantHolds, PTL

\* The loop of process_events is left on the alert flag only.
THEOREM AlwaysRunning == Spec => []LoopTestHolds
<1>1. Invariant => LoopTestHolds
  BY DEF Invariant
<1>. QED  BY <1>1, InvariantHolds, PTL
=============================================================================
