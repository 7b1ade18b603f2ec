---------------------------- MODULE BroadcastLog ----------------------------
(***************************************************************************)
(* What a disruptor promises, without sequences, slots, barriers or scans: *)
(* a bounded log.  Every reader is handed every published event, in order  *)
(* and once, after the readers it is wired behind; an event that some      *)
(* reader still needs stays among the Capacity latest; and the log either  *)
(* finishes with everything delivered or is abandoned.                     *)
(***************************************************************************)
EXTENDS Integers

CONSTANTS
  Readers,
  Before(_),   \* the readers that come before a reader
  Capacity

VARIABLES
  published,   \* how many events were published
  taken,       \* how many of them each reader was handed
  status       \* "open", "finished" or "abandoned"

log == <<published, taken, status>>

LogInit ==
  /\ published = 0
  /\ taken = [r \in Readers |-> 0]
  /\ status = "open"

\* Publish n events at once, never more than the slowest reader leaves room.
Append(n) ==
  /\ status = "open"
  /\ \A r \in Readers : published + n <= taken[r] + Capacity
  /\ published' = published + n
  /\ UNCHANGED <<taken, status>>

\* r is handed its next event.  After a shutdown it may finish its batch.
Deliver(r) ==
  /\ taken[r] < published
  /\ \A u \in Before(r) : taken[r] < taken[u]
  /\ taken' = [taken EXCEPT ![r] = @ + 1]
  /\ UNCHANGED <<published, status>>

Finish ==
  /\ status = "open"
  /\ \A r \in Readers : taken[r] = published
  /\ status' = "finished"
  /\ UNCHANGED <<published, taken>>

Abandon ==
  /\ status = "open"
  /\ status' = "abandoned"
  /\ UNCHANGED <<published, taken>>

LogNext ==
  \/ \E n \in 1..Capacity : Append(n)
  \/ \E r \in Readers : Deliver(r)
  \/ Finish
  \/ Abandon

LogSafety == LogInit /\ [][LogNext]_log

\* While the log is open a reader gets all there is for it.
LogSpec ==
  /\ LogSafety
  /\ \A r \in Readers : WF_log(Deliver(r) /\ status = "open")
=============================================================================
