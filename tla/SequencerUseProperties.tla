----------------------- MODULE SequencerUseProperties ------------------------
(***************************************************************************)
(* What a sequencer owes to those who use it directly.                     *)
(***************************************************************************)
EXTENDS SequencerUse

Ranges == (0..MaxSequence) \X (0..MaxSequence)

\* Every variable has its type; a sequencer that is still owned is used by
\* its owner alone.
TypeOK ==
  /\ sequence \in [SequenceIds -> Nat \cup {-1}]
  /\ kind \in {"single", "multi"}
  /\ program \in Programs(kind)
  /\ shared = program.share
  /\ gating \subseteq Consumers
  /\ claimed \in -1..MaxSequence
  /\ cached_value \in -1..MaxSequence
  /\ stamps \in [Slots -> Nat \cup {-1}]
  /\ ppc \in [Producers -> {"idle", "cached", "scan", "publish"}]
  /\ low \in [Producers -> 0..MaxSequence]
  /\ high \in [Producers -> -1..MaxSequence]
  /\ at \in [Producers -> 0..(MaxSequence + 1)]
  /\ pscan \in [Producers -> Scans]
  /\ claims \in [Producers -> SUBSET Ranges]
  /\ todo \in [Producers -> Nat]
  /\ unread \in [Consumers -> Nat]
  /\ joined \subseteq gating
  /\ ~shared => \A p \in Producers \ {Owner} : ppc[p] = "idle"

\* The ranges the sequencer has given out and that may be written to.
Granted(p) ==
  claims[p] \cup (IF ppc[p] = "publish" THEN {<<low[p], high[p]>>} ELSE {})

\* next() gives no sequence out twice: what threads, or one and the same, may
\* write to at a time are ranges apart, whoever claims, scans and publishes in
\* between.  (For the single-producer sequencer too, which moves its mark only
\* when it returns, cached_value or the scan allowing.)
ClaimedOnce ==
  \A p, q \in Producers : \A one \in Granted(p), two \in Granted(q) :
    (p = q /\ one = two) \/ one[2] < two[1] \/ two[2] < one[1]

\* "Prevents buffer overflow by tracking consumer progress through gating
\* sequences": nothing next() has returned is a lap ahead of a consumer, be
\* the sequences added and removed while events are claimed and published, so
\* long as each was added in good order.  A claim longer than the ring is
\* never returned while there is one.
NoOverrun ==
  \A p \in Producers : \A range \in Granted(p) : \A c \in joined :
    range[2] <= sequence[c] + BufferSize

\* cached_value of a single-producer sequencer is never ahead of its claims,
\* also when others gated it before or nobody did: a counter that is set to
\* the last claim, all of it published, is always added in good order.  (Not to
\* the other sequencer: its ungated next() leaves the minimum of no counters,
\* i64::MAX, in cached_value, and add_gating_sequence does not reset it.)
LateJoinIsSafe ==
  kind = "single" => cached_value <= claimed

\* No stamp of an earlier lap is stored over that of a later one by threads
\* that share a sequencer: gated, because of NoOverrun, and in the ungated
\* tests, because none of them can be a lap behind the others.
StampsOnlyRise ==
  [][shared => \A i \in Slots : stamps'[i] >= stamps[i]]_vars

\* What the concurrent tests assert at their end: the last lap, or as much as
\* there is of it, is available without a gap.
LastLapPublished ==
  shared /\ Finished =>
    \A s \in 0..claimed : s > claimed - BufferSize => IsAvailable(stamps, s)

\* The threads and the readers of a shared program never all wait for each
\* other, although readers leave before all is published: one of them can
\* claim, publish or read, or next() finds room if it looks now.
CanGoOn(p) ==
  \/ ppc[p] = "idle" /\ (claims[p] # {} \/ todo[p] > 0)
  \/ ppc[p] \in {"cached", "scan"} /\ \A c \in gating : HasRoom(p, sequence[c])
  \/ ppc[p] = "publish"

CanRead(c) ==
  unread[c] > 0 /\ (program.blind \/ IsAvailable(stamps, sequence[c] + 1))

NobodyIsStuck ==
  shared =>
    \/ Finished /\ \A c \in Consumers : unread[c] = 0
    \/ \E p \in Producers : CanGoOn(p)
    \/ \E c \in Consumers : CanRead(c)

-----------------------------------------------------------------------------
(* Liveness, under FairSpec. *)

\* next() of at most a ring's worth returns to an owner that holds no other
\* claim back, if all that gate it came in good order and read on.
ClaimReturns ==
  ~shared /\ ppc[Owner] \in {"cached", "scan"} /\ gating = joined
    /\ claims[Owner] = {} /\ high[Owner] - low[Owner] < BufferSize
      ~> ppc[Owner] = "idle"

\* The threads of every test come to their end, although the readers leave
\* before all is published.
AllFinish ==
  shared ~> Finished /\ \A c \in Consumers : unread[c] = 0
=============================================================================
