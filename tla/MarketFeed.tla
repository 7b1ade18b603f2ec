----------------------------- MODULE MarketFeed ------------------------------
(***************************************************************************)
(* The crypto-market-data example: a feed thread reads frames from a       *)
(* websocket and writes the market data among them to a disruptor with one *)
(* handler; Ctrl-C clears `running`, and main joins the feed and then the  *)
(* executor.  The disruptor is the log of module BroadcastLog, which       *)
(* SingleProducer implements; the websocket library and the server are     *)
(* external: a frame, an error or a failed call may come at any time.      *)
(*                                                                         *)
(* The feed thread is                                                      *)
(*   start     about to call start()                                       *)
(*   check     at the head of the loop in run()                            *)
(*   connect   in connect()                                                *)
(*   read      in read_message()                                           *)
(*   write     in moving_write() with one item                             *)
(*   pong      in on_ping()                                                *)
(*   close     about to disconnect() after a Close frame                   *)
(*   stop      in stop()                                                   *)
(*   drop      leaving its closure, the last to hold the Producer          *)
(*   ended     returned                                                    *)
(***************************************************************************)
EXTENDS Integers

CONSTANTS
  Capacity,     \* 1024 in the code
  MaxMessages   \* bound: data frames the server sends

ASSUME FeedAssumption == Capacity \in Nat \ {0} /\ MaxMessages \in Nat

VARIABLES
  fpc,          \* where the feed thread is
  socket,       \* "none", "open", "closed" by the server, or "broken"
  subscribed,   \* whether the server was asked for data on this connection
  running,      \* the flag the Ctrl-C handler shares with the feed
  main,         \* "feed" or "handle": which thread main joins; or "returned"
  handler,      \* the processor's thread: "alive" or "ended"
  published, taken, status   \* the disruptor, as a log

feedVars == <<fpc, socket, subscribed>>
log == <<published, taken, status>>
vars == <<feedVars, running, main, handler, log>>

\* One handler, and nothing before it.
Readers == {"MarketDataHandler"}
Before(r) == {}

Log == INSTANCE BroadcastLog

Init ==
  /\ fpc = "start"
  /\ socket = "none"
  /\ subscribed = FALSE
  /\ running = TRUE
  /\ main = "feed"
  /\ handler = "alive"
  /\ Log!LogInit

\* What parse_message makes of a text; "malformed" for an error.
Texts == {"AggTrade", "Depth", "SubscriptionResponse", "None", "malformed"}

\* The texts that are written to the ring.
Data == {"AggTrade", "Depth"}

Frames == Texts \cup {"Ping", "Close", "Other"}

-----------------------------------------------------------------------------
(* The feed thread. *)

\* It sets the flag, whatever Ctrl-C may have done before.
Start ==
  /\ fpc = "start"
  /\ running' = TRUE
  /\ fpc' = "check"
  /\ UNCHANGED <<socket, subscribed, main, handler, log>>

CheckRunningUnconnected ==
  /\ fpc = "check"
  /\ fpc' = IF socket # "none" THEN "read"
            ELSE IF running THEN "connect" ELSE "stop"
  /\ UNCHANGED <<socket, subscribed, running, main, handler, log>>
CheckRunning ==
  /\ fpc = "check"
  /\ fpc' = IF ~running THEN "stop"
            ELSE IF socket = "none" THEN "connect" ELSE "read"
  /\ UNCHANGED <<socket, subscribed, running, main, handler, log>>

\* The subscription is sent, or it is not and the socket is kept all the same.
OnOpen ==
  \/ socket' = "open" /\ subscribed' = TRUE
  \/ socket' \in {"open", "broken"} /\ subscribed' = FALSE

Connected ==
  /\ fpc = "connect"
  /\ OnOpen
  /\ fpc' = "check"
  /\ UNCHANGED <<running, main, handler, log>>

ConnectFails ==
  /\ fpc = "connect"
  /\ fpc' = "check"
  /\ UNCHANGED <<socket, subscribed, running, main, handler, log>>

\* Where on_message goes with a frame.
OnMessage(frame) ==
  CASE frame \in Data   -> "write"
    [] frame = "Ping"   -> "pong"
    [] frame = "Close"  -> "close"
    [] OTHER            -> "check"

\* After the server's Close every call on the connection fails.
Receive(frame) ==
  /\ fpc = "read"
  /\ socket = "open"
  /\ frame \in {"AggTrade", "Depth", "SubscriptionResponse"} => subscribed
  /\ frame \in Data => published < MaxMessages
  /\ fpc' = OnMessage(frame)
  /\ socket' = IF frame = "Close" THEN "closed" ELSE socket
  /\ UNCHANGED <<subscribed, running, main, handler, log>>

\* read_message() fails, for once or for good; the socket is kept either way.
ReadFails ==
  /\ fpc = "read"
  /\ socket' \in IF socket = "open" THEN {"open", "broken"} ELSE {socket}
  /\ fpc' = "check"
  /\ UNCHANGED <<subscribed, running, main, handler, log>>

\* moving_write of one item, which waits for room.
Write ==
  /\ fpc = "write"
  /\ Log!Append(1)
  /\ fpc' = "check"
  /\ UNCHANGED <<socket, subscribed, running, main, handler>>

Pong ==
  /\ fpc = "pong"
  /\ socket' \in {"open", "broken"}
  /\ fpc' = "check"
  /\ UNCHANGED <<subscribed, running, main, handler, log>>

\* disconnect() lets go of the socket, whether close() succeeds or not; then
\* connect().
DisconnectWhenPossible ==
  /\ fpc = "close"
  /\ socket' \in {"none", socket}
  /\ subscribed' = FALSE
  /\ fpc' = "connect"
  /\ UNCHANGED <<running, main, handler, log>>
Disconnect ==
  /\ fpc = "close"
  /\ socket' = "none"
  /\ subscribed' = FALSE
  /\ fpc' = "connect"
  /\ UNCHANGED <<running, main, handler, log>>

StopKeepingSocket ==
  /\ fpc = "stop"
  /\ running' = FALSE
  /\ fpc' = "drop"
  /\ UNCHANGED <<socket, subscribed, main, handler, log>>
Stop ==
  /\ fpc = "stop"
  /\ running' = FALSE
  /\ socket' = "none"
  /\ subscribed' = FALSE
  /\ fpc' = "drop"
  /\ UNCHANGED <<main, handler, log>>

\* The last Arc of the Producer goes, without drain().
DropProducer ==
  /\ fpc = "drop"
  /\ Log!Abandon
  /\ fpc' = "ended"
  /\ UNCHANGED <<socket, subscribed, running, main, handler>>

Feed ==
  \/ Start \/ CheckRunning \/ Connected \/ ConnectFails
  \/ \E frame \in Frames : Receive(frame)
  \/ ReadFails \/ Write \/ Pong \/ Disconnect \/ Stop \/ DropProducer

-----------------------------------------------------------------------------
(* The other threads. *)

OnEvent ==
  /\ handler = "alive"
  /\ \E r \in Readers : Log!Deliver(r)
  /\ UNCHANGED <<feedVars, running, main, handler>>

\* The processor sees the flag; what it has not handled is lost.
HandlerEnds ==
  /\ handler = "alive"
  /\ status # "open"
  /\ handler' = "ended"
  /\ UNCHANGED <<feedVars, running, main, log>>

CtrlC ==
  /\ main # "returned"
  /\ running' = FALSE
  /\ UNCHANGED <<feedVars, main, handler, log>>

JoinFeed ==
  /\ main = "feed"
  /\ fpc = "ended"
  /\ main' = "handle"
  /\ UNCHANGED <<feedVars, running, handler, log>>

JoinHandle ==
  /\ main = "handle"
  /\ handler = "ended"
  /\ main' = "returned"
  /\ UNCHANGED <<feedVars, running, handler, log>>

Over == main = "returned" /\ UNCHANGED vars

Next ==
  \/ Feed \/ OnEvent \/ HandlerEnds \/ CtrlC \/ JoinFeed \/ JoinHandle
  \/ Over

Spec == Init /\ [][Next]_vars

\* Threads are scheduled, read_message() comes back in the end (the server
\* pings) and a connection that is tried again and again succeeds.  Nobody
\* has to press Ctrl-C.
FairSpec ==
  /\ Spec
  /\ WF_vars(Feed)
  /\ SF_vars(Connected)
  /\ WF_vars(OnEvent)
  /\ WF_vars(HandlerEnds)
  /\ WF_vars(JoinFeed \/ JoinHandle)
=============================================================================
