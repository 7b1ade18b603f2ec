------------------------ MODULE MarketFeedProperties -------------------------
(***************************************************************************)
(* What the example promises of its shutdown and its connection.           *)
(***************************************************************************)
EXTENDS MarketFeed

\* Every variable has its type; data is only sent to a subscriber.
TypeOK ==
  /\ fpc \in {"start", "check", "connect", "read", "write", "pong", "close",
              "stop", "drop", "ended"}
  /\ socket \in {"none", "open", "closed", "broken"}
  /\ subscribed \in BOOLEAN
  /\ running \in BOOLEAN
  /\ main \in {"feed", "handle", "returned"}
  /\ handler \in {"alive", "ended"}
  /\ published \in 0..MaxMessages
  /\ taken \in [Readers -> 0..MaxMessages]
  /\ status \in {"open", "abandoned"}
  /\ fpc \in {"read", "write", "pong", "close"} => socket # "none"

\* When main returns nothing is left behind: the connection was let go, both
\* threads are over and nobody still takes the feed to be running, whichever
\* frame, error or Ctrl-C came last.
ExitIsClean ==
  main = "returned" =>
    /\ socket = "none"
    /\ ~running
    /\ fpc = "ended"
    /\ handler = "ended"
    /\ status = "abandoned"

-----------------------------------------------------------------------------
(* Liveness, under FairSpec. *)

\* Ctrl-C brings main to its end, also when the connection is broken, a data
\* frame waits for room in a full ring or the server does not let the feed
\* in.  (Only before start() has run is it lost: start() sets the flag.)
CtrlCStops == ~running /\ fpc # "start" ~> main = "returned"

\* "Connection closed by server. Reconnecting...": unless Ctrl-C is pressed
\* another connection takes the place of the closed one.  (It may break too,
\* and a broken one is never replaced: run() reads from it again and again.)
CloseReconnects == fpc = "close" ~> socket \in {"open", "broken"} \/ ~running
=============================================================================
