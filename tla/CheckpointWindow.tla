-------------------------- MODULE CheckpointWindow --------------------------
(***************************************************************************)
(* The in-memory window between the remote change feed and the durable     *)
(* pull checkpoint (src/src/daemon/checkpoint-window.ts), with the row it  *)
(* saves (src/src/storage/checkpoint-repo.ts).                             *)
(*                                                                         *)
(* CouchDB's update sequences are opaque strings that the code stores and  *)
(* sends back but never compares; a token is represented here by its       *)
(* position in the feed, and properties compare positions.                 *)
(***************************************************************************)
EXTENDS Naturals, Sequences

CONSTANT Tokens   \* the positions of the feed

ASSUME TokensAssumption == Tokens \subseteq Nat \ {0}

VARIABLES
  sequenceQueue,   \* tracked tokens in order of arrival, with their state
  checkpoint       \* last_update_seq of the checkpoint row, 0 before the first

SequenceState == {"pending", "completed", "failed"}
TrackedSequence == [seq : Tokens, state : SequenceState]

TokensOf(q) == {q[i].seq : i \in DOMAIN q}
Unverified(q) == {q[i].seq : i \in {j \in DOMAIN q : q[j].state # "completed"}}

\* Mutant of Tracked: the position after the token is tracked.
TrackedNext(q, s) ==
  IF s \in TokensOf(q) THEN q ELSE Append(q, [seq |-> s + 1, state |-> "pending"])

\* The queue after trackSequence(seq): a token already tracked is ignored.
Tracked(q, s) ==
  IF s \in TokensOf(q) THEN q ELSE Append(q, [seq |-> s, state |-> "pending"])

\* The queue after markCompleted(seq) or markFailed(seq): a token that is no
\* longer tracked is ignored, and a report replaces an earlier one.
Marked(q, s, st) ==
  [i \in DOMAIN q |-> IF q[i].seq = s THEN [q[i] EXCEPT !.state = st] ELSE q[i]]

\* Mutant of CommitPrefix: a failed entry no longer stops the prefix.
CommitPrefixOverFailures(q, k) ==
  /\ k \in 0 .. Len(q)
  /\ \A i \in 1 .. k : q[i].state # "pending"
  /\ k < Len(q) => q[k + 1].state = "pending"

\* The first k entries are the longest completed prefix of the queue
\* (getContiguousCommitSequence stops at the first entry not completed).
CommitPrefix(q, k) ==
  /\ k \in 0 .. Len(q)
  /\ \A i \in 1 .. k : q[i].state = "completed"
  /\ k < Len(q) => q[k + 1].state # "completed"

\* commit() applied to the queue q: save the last token of the completed
\* prefix, whatever the row held before, and purge the prefix.  With an empty
\* prefix nothing is saved or purged.
CommitFrom(q) ==
  \E k \in 0 .. Len(q) :
    /\ CommitPrefix(q, k)
    /\ sequenceQueue' = SubSeq(q, k + 1, Len(q))
    /\ checkpoint' = IF k = 0 THEN checkpoint ELSE q[k].seq
=============================================================================
