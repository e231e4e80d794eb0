---------------------------- MODULE WindowReplay ----------------------------
(***************************************************************************)
(* The checkpoint window with the least environment it needs: a feed that  *)
(* delivers tokens in order and restarts from the saved checkpoint, and    *)
(* workers that report on delivered tokens in any order, also late, twice, *)
(* or failed after completed.                                              *)
(***************************************************************************)
EXTENDS CheckpointWindow

VARIABLES
  currentSeq,   \* the token the feed consumer received last
  verified      \* history: tokens whose last report, while tracked, was success

replayVars == <<sequenceQueue, checkpoint, currentSeq, verified>>

ReplayInit ==
  /\ sequenceQueue = <<>>
  /\ checkpoint = 0
  /\ currentSeq = 0
  /\ verified = {}

\* onRemoteChange: the next row of the feed is tracked.
TrackSequence(s) ==
  /\ s > currentSeq
  /\ \A t \in Tokens : t > currentSeq => s <= t
  /\ currentSeq' = s
  /\ sequenceQueue' = Tracked(sequenceQueue, s)
  /\ UNCHANGED <<checkpoint, verified>>

\* A worker's reconciliation of a delivered token succeeded.
MarkCompleted(s) ==
  /\ s <= currentSeq
  /\ sequenceQueue' = Marked(sequenceQueue, s, "completed")
  /\ verified' = verified \cup {s}
  /\ UNCHANGED <<checkpoint, currentSeq>>

\* A worker's reconciliation of a delivered token failed.
MarkFailed(s) ==
  /\ s <= currentSeq
  /\ sequenceQueue' = Marked(sequenceQueue, s, "failed")
  /\ verified' = IF s \in TokensOf(sequenceQueue) THEN verified \ {s} ELSE verified
  /\ UNCHANGED <<checkpoint, currentSeq>>

Commit ==
  /\ CommitFrom(sequenceQueue)
  /\ UNCHANGED <<currentSeq, verified>>

\* The process restarts: a new window, and the consumer starts at the row.
Restart ==
  /\ sequenceQueue' = <<>>
  /\ currentSeq' = checkpoint
  /\ UNCHANGED <<checkpoint, verified>>

ReplayNext ==
  \/ \E s \in Tokens : TrackSequence(s) \/ MarkCompleted(s) \/ MarkFailed(s)
  \/ Commit
  \/ Restart

ReplaySpec == ReplayInit /\ [][ReplayNext]_replayVars

-----------------------------------------------------------------------------

\* The window's queue holds tracked tokens and the row holds a token of the
\* feed or nothing (checkpoint-window.ts:11-13, checkpoint-repo.ts:12-25).
ReplayTypeOK ==
  /\ sequenceQueue \in Seq(TrackedSequence)
  /\ checkpoint \in Tokens \cup {0}
  /\ currentSeq \in Tokens \cup {0}
  /\ verified \subseteq Tokens

\* However reports are ordered, the saved checkpoint never covers a token whose
\* work has not been verified: a restart replays everything unfinished
\* (checkpoint-window.ts:45-82).
NothingSkipped == \A s \in Tokens : s <= checkpoint => s \in verified

\* The window keeps the contract of ContiguousCheckpoint: only reports of
\* success remove a token from the outstanding ones, and the row only moves
\* forward and below them.
Contract == INSTANCE ContiguousCheckpoint WITH
  outstanding <- Unverified(sequenceQueue), saved <- checkpoint
KeepsContract == Contract!AbsSpec
=============================================================================
