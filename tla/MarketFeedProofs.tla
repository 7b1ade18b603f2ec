-------------------------- MODULE MarketFeedProofs ---------------------------
(***************************************************************************)
(* The market data example keeps its types and exits cleanly, whatever the *)
(* ring's capacity and however many frames the server sends.               *)
(***************************************************************************)
EXTENDS MarketFeedProperties, TLAPS

\* What each stage of the shutdown leaves for the next: the feed has cleared
\* the flag and let go of its socket before it drops the Producer, dropped
\* the Producer before it ends, and ended before main turns to the handler.
Shutdown ==
  /\ fpc \in {"drop", "ended"} => ~running /\ socket = "none"
  /\ fpc = "ended" <=> status = "abandoned"
  /\ main \in {"handle", "returned"} => fpc = "ended"
  /\ main = "returned" => handler = "ended"

\* A data frame is only read while there may be one more.
Counted ==
  /\ fpc = "write" => published < MaxMessages
  /\ \A r \in Readers : taken[r] <= published

Invariant == TypeOK /\ Shutdown /\ Counted

LEMMA InitInvariant == ASSUME Init PROVE Invariant
<1>1. published = 0 /\ taken = [r \in Readers |-> 0] /\ status = "open"
  BY DEF Init, Log!LogInit
<1>2. taken \in [Readers -> 0..MaxMessages] /\ published \in 0..MaxMessages
  BY <1>1, FeedAssumption
<1>3. TypeOK
  BY <1>1, <1>2 DEF Init, TypeOK
<1>4. Shutdown /\ Counted
  BY <1>1 DEF Init, Shutdown, Counted
<1> QED
  BY <1>3, <1>4 DEF Invariant

\* The steps of the feed that leave the log alone.
LEMMA FeedKeepsInvariant ==
  ASSUME Invariant, UNCHANGED <<main, handler, log>>,
         \/ Start \/ CheckRunning \/ Connected \/ ConnectFails
         \/ (\E frame \in Frames : Receive(frame))
         \/ ReadFails \/ Pong \/ Disconnect \/ Stop
  PROVE  Invariant'
<1> USE FeedAssumption DEF Invariant, TypeOK, Shutdown, Counted, log
<1>1. CASE Start
  BY <1>1 DEF Start
<1>2. CASE CheckRunning
  BY <1>2 DEF CheckRunning
<1>3. CASE Connected \/ ConnectFails
  BY <1>3 DEF Connected, ConnectFails, OnOpen
<1>4. ASSUME NEW frame \in Frames, Receive(frame)
      PROVE  Invariant'
  BY <1>4 DEF Receive, OnMessage, Data
<1>5. CASE ReadFails \/ Pong
  BY <1>5 DEF ReadFails, Pong
<1>6. CASE Disconnect
  BY <1>6 DEF Disconnect
<1>7. CASE Stop
  BY <1>7 DEF Stop
<1> QED
  BY <1>1, <1>2, <1>3, <1>4, <1>5, <1>6, <1>7

\* The steps on the log, by the feed and by the handler.
LEMMA LogKeepsInvariant ==
  ASSUME Invariant, Write \/ DropProducer \/ OnEvent
  PROVE  Invariant'
<1> USE FeedAssumption DEF Invariant, TypeOK, Shutdown, Counted
<1>1. CASE Write
  BY <1>1 DEF Write, Log!Append
<1>2. CASE DropProducer
  BY <1>2 DEF DropProducer, Log!Abandon
<1>3. CASE OnEvent
  <2>1. PICK r \in Readers : Log!Deliver(r)
    BY <1>3 DEF OnEvent
  <2>2. taken[r] < published /\ taken' = [taken EXCEPT ![r] = @ + 1]
        /\ UNCHANGED <<published, status>>
    BY <2>1 DEF Log!Deliver
  <2>3. taken[r] \in 0..MaxMessages /\ published \in 0..MaxMessages
    OBVIOUS
  <2>4. taken' \in [Readers -> 0..MaxMessages]
    BY <2>2, <2>3
  <2>5. \A q \in Readers : taken'[q] <= published
    BY <2>2, <2>3
  <2>6. UNCHANGED <<fpc, socket, subscribed, running, main, handler>>
    BY <1>3 DEF OnEvent, feedVars
  <2> QED
    BY <2>2, <2>4, <2>5, <2>6
<1> QED
  BY <1>1, <1>2, <1>3

LEMMA StepKeepsInvariant ==
  ASSUME Invariant, [Next]_vars
  PROVE  Invariant'
<1>1. CASE Feed
  <2>1. CASE Write \/ DropProducer
    BY <2>1, LogKeepsInvariant
  <2>2. CASE ~(Write \/ DropProducer)
    <3>1. UNCHANGED <<main, handler, log>>
      BY <1>1, <2>2 DEF Feed, Start, CheckRunning, Connected, ConnectFails,
         Receive, ReadFails, Pong, Disconnect, Stop
    <3> QED
      BY <1>1, <2>2, <3>1, FeedKeepsInvariant DEF Feed
  <2> QED
    BY <2>1, <2>2
<1>2. CASE OnEvent
  BY <1>2, LogKeepsInvariant
<1>3. CASE HandlerEnds
  BY <1>3 DEF HandlerEnds, Invariant, TypeOK, Shutdown, Counted, feedVars, log
<1>4. CASE CtrlC
  BY <1>4 DEF CtrlC, Invariant, TypeOK, Shutdown, Counted, feedVars, log
<1>5. CASE JoinFeed \/ JoinHandle
  BY <1>5 DEF JoinFeed, JoinHandle, Invariant, TypeOK, Shutdown, Counted,
     feedVars, log
<1>6. CASE UNCHANGED vars
  BY <1>6 DEF vars, Invariant, TypeOK, Shutdown, Counted, feedVars, log
<1> QED
  BY <1>1, <1>2, <1>3, <1>4, <1>5, <1>6 DEF Next, Over

LEMMA InvariantHolds == Spec => []Invariant
<1>1. Init => Invariant
  BY InitInvariant
<1>2. Invariant /\ [Next]_vars => Invariant'
  BY StepKeepsInvariant
<1> QED
  BY <1>1, <1>2, PTL DEF Spec

\* Type correctness, and no more is written than the server sent.
THEOREM TypeCorrect == Spec => []TypeOK
<1>1. Invariant => TypeOK
  BY DEF Invariant
<1> QED
  BY <1>1, InvariantHolds, PTL

\* main only returns with the connection let go and both threads over.
THEOREM ExitIsAlwaysClean == Spec => []ExitIsClean
<1>1. Invariant => ExitIsClean
  BY DEF Invariant, Shutdown, ExitIsClean
<1> QED
  BY <1>1, InvariantHolds, PTL
=============================================================================
