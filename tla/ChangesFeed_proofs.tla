------------------------- MODULE ChangesFeed_proofs -------------------------
(***************************************************************************)
(* The window alone: no order of reports, commits and restarts lets the    *)
(* checkpoint skip a token, for any feed, and the window implements        *)
(* ContiguousCheckpoint.  Then the feed and the window together: wherever  *)
(* the stream breaks, ends or is closed, the row covers verified tokens    *)
(* only, and a daemon that is not stopping leaves nothing out.             *)
(***************************************************************************)
EXTENDS ChangesFeed, CheckpointWindow_proofs

\* The queue is in feed order and lies between the row and the consumer.
InWindow ==
  /\ Ascending(sequenceQueue)
  /\ checkpoint <= currentSeq
  /\ \A s \in TokensOf(sequenceQueue) : checkpoint < s /\ s <= currentSeq

\* Nothing below a tracked token is neither verified nor tracked, and an entry
\* says completed because of its token's last report.
Remembered ==
  /\ \A t \in TokensOf(sequenceQueue), s \in Tokens :
       s <= t => s \in verified \cup TokensOf(sequenceQueue)
  /\ CompletedTokens(sequenceQueue) \subseteq verified

WindowInv == ReplayTypeOK /\ InWindow /\ Remembered /\ NothingSkipped

\* A received token is verified unless it waits in the queue.  Tracking a token
\* keeps WindowInv because of this part only.
CaughtUp == \A s \in Tokens : s <= currentSeq => s \in verified \cup TokensOf(sequenceQueue)

ReplayInv == WindowInv /\ CaughtUp

LEMMA ReplayInit_Inv == ReplayInit => ReplayInv
<1> SUFFICES ASSUME ReplayInit PROVE ReplayInv
  OBVIOUS
<1>1. sequenceQueue = <<>> /\ checkpoint = 0 /\ currentSeq = 0 /\ verified = {}
  BY DEF ReplayInit
<1>2. TokensOf(sequenceQueue) = {} /\ CompletedTokens(sequenceQueue) = {} /\ Ascending(sequenceQueue)
  BY <1>1 DEF TokensOf, CompletedTokens, Ascending
<1> QED
  BY <1>1, <1>2, TokensAssumption
  DEF ReplayInv, WindowInv, CaughtUp, ReplayTypeOK, InWindow, Remembered, NothingSkipped

\* Positions are numbers, and the queue is the kind the window's lemmas speak of.
LEMMA ReplayFacts ==
  ASSUME WindowInv
  PROVE  /\ sequenceQueue \in Seq(TrackedSequence) /\ Ascending(sequenceQueue)
         /\ TokensOf(sequenceQueue) \subseteq Tokens /\ Tokens \subseteq Nat
         /\ checkpoint \in Nat /\ currentSeq \in Nat
<1>1. sequenceQueue \in Seq(TrackedSequence) /\ Ascending(sequenceQueue)
  BY DEF WindowInv, ReplayTypeOK, InWindow
<1>2. TokensOf(sequenceQueue) \subseteq Tokens
  BY <1>1, TokensSplit
<1>3. Tokens \subseteq Nat /\ checkpoint \in Nat /\ currentSeq \in Nat
  BY TokensAssumption DEF WindowInv, ReplayTypeOK
<1> QED
  BY <1>1, <1>2, <1>3

\* The next token of the feed lies above every tracked one.
LEMMA NextIsAbove ==
  ASSUME WindowInv, NEW s \in Tokens, TrackSequence(s)
  PROVE  \A t \in TokensOf(sequenceQueue) : t < s
<1> SUFFICES ASSUME NEW t \in TokensOf(sequenceQueue) PROVE t < s
  OBVIOUS
<1>1. t \in Nat /\ s \in Nat /\ currentSeq \in Nat
  BY ReplayFacts
<1>2. t <= currentSeq /\ currentSeq < s
  BY <1>1 DEF WindowInv, InWindow, TrackSequence
<1> QED
  BY <1>1, <1>2

LEMMA TrackSequence_Inv ==
  ASSUME ReplayInv, NEW s \in Tokens, TrackSequence(s)
  PROVE  ReplayInv'
<1>0. WindowInv /\ CaughtUp
  BY DEF ReplayInv
<1>1. \A t \in TokensOf(sequenceQueue) : t < s
  BY <1>0, NextIsAbove
<1>2. /\ sequenceQueue' \in Seq(TrackedSequence)
      /\ TokensOf(sequenceQueue)' = TokensOf(sequenceQueue) \cup {s}
      /\ CompletedTokens(sequenceQueue)' = CompletedTokens(sequenceQueue)
      /\ Ascending(sequenceQueue)'
  BY <1>0, <1>1, TrackedTokens DEF WindowInv, ReplayTypeOK, InWindow, TrackSequence
<1>3. /\ TokensOf(sequenceQueue) \subseteq Nat /\ Tokens \subseteq Nat
      /\ s \in Nat /\ checkpoint \in Nat /\ currentSeq \in Nat
  BY <1>0, ReplayFacts
<1>4. ReplayTypeOK'
  BY <1>0, <1>2 DEF WindowInv, ReplayTypeOK, TrackSequence
<1>5. InWindow'
  BY <1>0, <1>2, <1>3 DEF WindowInv, InWindow, TrackSequence
<1>6. CaughtUp'
  <2>1. \A t \in Tokens : t <= s => t <= currentSeq \/ t = s
    BY <1>3 DEF TrackSequence
  <2> QED
    BY <1>0, <1>2, <2>1 DEF CaughtUp, TrackSequence
<1>7. Remembered'
  <2>1. \A t \in TokensOf(sequenceQueue)', u \in Tokens : u <= t => u <= s
    <3> SUFFICES ASSUME NEW t \in TokensOf(sequenceQueue)', NEW u \in Tokens, u <= t
                 PROVE  u <= s
      OBVIOUS
    <3>1. t \in Nat /\ u \in Nat /\ t <= s
      BY <1>1, <1>2, <1>3
    <3> QED
      BY <1>3, <3>1
  <2>2. currentSeq' = s
    BY DEF TrackSequence
  <2>3. CompletedTokens(sequenceQueue)' \subseteq verified'
    BY <1>0, <1>2 DEF WindowInv, Remembered, TrackSequence
  <2> QED
    BY <1>6, <2>1, <2>2, <2>3 DEF Remembered, CaughtUp
<1>8. NothingSkipped'
  BY <1>0 DEF WindowInv, NothingSkipped, TrackSequence
<1> QED
  BY <1>4, <1>5, <1>6, <1>7, <1>8 DEF ReplayInv, WindowInv

LEMMA Mark_Inv ==
  ASSUME WindowInv, NEW s \in Tokens, MarkCompleted(s) \/ MarkFailed(s)
  PROVE  WindowInv' /\ (CaughtUp => CaughtUp')
<1>1. PICK st \in SequenceState :
        /\ sequenceQueue' = Marked(sequenceQueue, s, st)
        /\ UNCHANGED <<checkpoint, currentSeq>>
        /\ st = "completed" => verified' = verified \cup {s}
        /\ st # "completed" => verified' = IF s \in TokensOf(sequenceQueue) THEN verified \ {s}
                                                                            ELSE verified
  BY DEF MarkCompleted, MarkFailed, SequenceState
<1>2. /\ sequenceQueue' \in Seq(TrackedSequence)
      /\ TokensOf(sequenceQueue)' = TokensOf(sequenceQueue)
      /\ Ascending(sequenceQueue)'
      /\ st = "completed" => CompletedTokens(sequenceQueue)' \subseteq CompletedTokens(sequenceQueue) \cup {s}
      /\ st # "completed" => CompletedTokens(sequenceQueue)' = CompletedTokens(sequenceQueue) \ {s}
  BY <1>1, MarkedTokens, MarkedEntries DEF WindowInv, ReplayTypeOK, InWindow
<1>3. ReplayTypeOK'
  BY <1>1, <1>2 DEF WindowInv, ReplayTypeOK
<1>4. InWindow'
  BY <1>1, <1>2 DEF WindowInv, InWindow
<1>5. Remembered'
  BY <1>1, <1>2 DEF WindowInv, Remembered
<1>6. NothingSkipped'
  <2>1. s \in TokensOf(sequenceQueue) => ~(s <= checkpoint)
    BY TokensAssumption DEF WindowInv, ReplayTypeOK, InWindow
  <2> QED
    BY <1>1, <2>1 DEF WindowInv, NothingSkipped
<1>7. CaughtUp => CaughtUp'
  BY <1>1, <1>2 DEF CaughtUp
<1> QED
  BY <1>3, <1>4, <1>5, <1>6, <1>7 DEF WindowInv

LEMMA Commit_Inv ==
  ASSUME WindowInv, Commit
  PROVE  WindowInv' /\ (CaughtUp => CaughtUp')
<1>1. /\ CommitFrom(sequenceQueue) /\ UNCHANGED <<currentSeq, verified>>
      /\ sequenceQueue \in Seq(TrackedSequence) /\ Ascending(sequenceQueue)
  BY DEF Commit, WindowInv, ReplayTypeOK, InWindow
<1>2. /\ sequenceQueue' \in Seq(TrackedSequence)
      /\ Ascending(sequenceQueue)'
      /\ TokensOf(sequenceQueue)' \subseteq TokensOf(sequenceQueue)
      /\ CompletedTokens(sequenceQueue)' \subseteq CompletedTokens(sequenceQueue)
  BY <1>1, CommitTokens
<1>3. CASE checkpoint' = checkpoint /\ sequenceQueue' = sequenceQueue
  <2>1. UNCHANGED replayVars
    BY <1>1, <1>3 DEF replayVars
  <2> QED
    BY <2>1 DEF replayVars, WindowInv, CaughtUp, ReplayTypeOK, InWindow, Remembered, NothingSkipped
<1>4. CASE /\ checkpoint' \in CompletedTokens(sequenceQueue)
           /\ \A s \in TokensOf(sequenceQueue) :
                IF s <= checkpoint' THEN s \in CompletedTokens(sequenceQueue)
                                    ELSE s \in TokensOf(sequenceQueue)'
           /\ \A s \in TokensOf(sequenceQueue)' : checkpoint' < s
  <2>1. /\ checkpoint' \in TokensOf(sequenceQueue)
        /\ TokensOf(sequenceQueue) \subseteq Tokens /\ Tokens \subseteq Nat
    BY <1>1, <1>4, TokensSplit, TokensAssumption
  <2>2. ReplayTypeOK'
    BY <1>1, <1>2, <2>1 DEF WindowInv, ReplayTypeOK
  <2>3. InWindow'
    BY <1>1, <1>2, <1>4, <2>1 DEF WindowInv, InWindow
  <2>4. \A s \in TokensOf(sequenceQueue) : s \in verified' \cup TokensOf(sequenceQueue)'
    BY <1>1, <1>4 DEF WindowInv, Remembered
  <2>5. Remembered'
    BY <1>1, <1>2, <2>4 DEF WindowInv, Remembered
  <2>6. NothingSkipped'
    <3> SUFFICES ASSUME NEW s \in Tokens, s <= checkpoint'
                 PROVE  s \in verified
      BY <1>1 DEF NothingSkipped
    <3>1. s \in verified \cup TokensOf(sequenceQueue)
      BY <2>1 DEF WindowInv, Remembered
    <3> QED
      BY <1>4, <3>1 DEF WindowInv, Remembered
  <2>7. CaughtUp => CaughtUp'
    BY <1>1, <2>4 DEF CaughtUp
  <2> QED
    BY <2>2, <2>3, <2>5, <2>6, <2>7 DEF WindowInv
<1> QED
  BY <1>1, <1>3, <1>4, CommitTokens

LEMMA Restart_Inv ==
  ASSUME WindowInv, Restart
  PROVE  ReplayInv'
<1>1. /\ sequenceQueue' = <<>> /\ currentSeq' = checkpoint
      /\ UNCHANGED <<checkpoint, verified>>
  BY DEF Restart
<1>2. TokensOf(sequenceQueue)' = {} /\ CompletedTokens(sequenceQueue)' = {} /\ Ascending(sequenceQueue)'
  BY <1>1 DEF TokensOf, CompletedTokens, Ascending
<1>3. checkpoint \in Nat
  BY ReplayFacts
<1> QED
  BY <1>1, <1>2, <1>3
  DEF ReplayInv, WindowInv, CaughtUp, ReplayTypeOK, InWindow, Remembered, NothingSkipped

LEMMA ReplayNext_Inv == ReplayInv /\ [ReplayNext]_replayVars => ReplayInv'
<1> SUFFICES ASSUME ReplayInv, [ReplayNext]_replayVars PROVE ReplayInv'
  OBVIOUS
<1>0. WindowInv /\ CaughtUp
  BY DEF ReplayInv
<1>1. ASSUME NEW s \in Tokens, TrackSequence(s) PROVE ReplayInv'
  BY <1>1, TrackSequence_Inv
<1>2. ASSUME NEW s \in Tokens, MarkCompleted(s) \/ MarkFailed(s) PROVE ReplayInv'
  BY <1>0, <1>2, Mark_Inv DEF ReplayInv
<1>3. CASE Commit
  BY <1>0, <1>3, Commit_Inv DEF ReplayInv
<1>4. CASE Restart
  BY <1>0, <1>4, Restart_Inv
<1>5. CASE UNCHANGED replayVars
  BY <1>5
  DEF replayVars, ReplayInv, WindowInv, CaughtUp, ReplayTypeOK, InWindow, Remembered, NothingSkipped
<1> QED
  BY <1>1, <1>2, <1>3, <1>4, <1>5 DEF ReplayNext

-----------------------------------------------------------------------------

\* The strengthened invariant holds in every reachable state.
THEOREM ReplayInvariant == ReplaySpec => []ReplayInv
<1>1. ReplayInit => ReplayInv
  BY ReplayInit_Inv
<1>2. ReplayInv /\ [ReplayNext]_replayVars => ReplayInv'
  BY ReplayNext_Inv
<1> QED
  BY <1>1, <1>2, PTL DEF ReplaySpec

\* The window and the row hold tokens of the feed (checkpoint-window.ts:11-13).
THEOREM ReplayTypeCorrect == ReplaySpec => []ReplayTypeOK
<1>1. ReplayInv => ReplayTypeOK
  BY DEF ReplayInv, WindowInv
<1> QED
  BY <1>1, ReplayInvariant, PTL

\* The checkpoint covers verified tokens only, whatever the length of the feed
\* and the order of reports, commits and restarts (checkpoint-window.ts:45-82).
THEOREM NothingIsSkipped == ReplaySpec => []NothingSkipped
<1>1. ReplayInv => NothingSkipped
  BY DEF ReplayInv, WindowInv
<1> QED
  BY <1>1, ReplayInvariant, PTL

-----------------------------------------------------------------------------
(* Refinement *)

LEMMA ReplayNext_Contract ==
  WindowInv /\ [ReplayNext]_replayVars => [Contract!AbsNext]_(Contract!absVars)
<1> SUFFICES ASSUME WindowInv, [ReplayNext]_replayVars
             PROVE  Contract!AbsNext \/ UNCHANGED Contract!absVars
  OBVIOUS
<1> USE DEF Contract!AbsNext, Contract!absVars
<1>0. /\ sequenceQueue \in Seq(TrackedSequence) /\ Ascending(sequenceQueue)
      /\ TokensOf(sequenceQueue) \subseteq Tokens /\ Tokens \subseteq Nat
      /\ checkpoint \in Nat /\ currentSeq \in Nat
  BY ReplayFacts
<1>1. ASSUME NEW s \in Tokens, TrackSequence(s) PROVE Contract!Open(s)
  <2>1. \A t \in TokensOf(sequenceQueue) : t < s
    BY <1>1, NextIsAbove
  <2>2. Unverified(sequenceQueue)' = Unverified(sequenceQueue) \cup {s}
    BY <1>0, <1>1, <2>1, TrackedTokens DEF TrackSequence
  <2>3. checkpoint < s /\ checkpoint' = checkpoint
    BY <1>0, <1>1 DEF WindowInv, InWindow, TrackSequence
  <2> QED
    BY <2>2, <2>3 DEF Contract!Open
<1>2. ASSUME NEW s \in Tokens, MarkCompleted(s) PROVE Contract!Settle(s)
  <2>1. Unverified(sequenceQueue)' = Unverified(sequenceQueue) \ {s}
    BY <1>0, <1>2, MarkedTokens DEF MarkCompleted, SequenceState
  <2> QED
    BY <1>2, <2>1 DEF Contract!Settle, MarkCompleted
<1>3. ASSUME NEW s \in Tokens, MarkFailed(s)
      PROVE  Contract!Open(s) \/ UNCHANGED Contract!absVars
  <2>1. Unverified(sequenceQueue)' = Unverified(sequenceQueue) \cup ({s} \cap TokensOf(sequenceQueue))
    BY <1>0, <1>3, MarkedTokens DEF MarkFailed, SequenceState
  <2>2. s \in TokensOf(sequenceQueue) => checkpoint < s
    BY DEF WindowInv, InWindow
  <2> QED
    BY <1>3, <2>1, <2>2 DEF Contract!Open, MarkFailed
<1>4. CASE Commit
  <2>1. CommitFrom(sequenceQueue)
    BY <1>4 DEF Commit
  <2>2. Unverified(sequenceQueue)' = Unverified(sequenceQueue)
    BY <1>0, <2>1, CommitTokens
  <2>3. CASE checkpoint' = checkpoint
    BY <2>2, <2>3
  <2>4. CASE /\ checkpoint' \in CompletedTokens(sequenceQueue)
             /\ \A s \in TokensOf(sequenceQueue)' : checkpoint' < s
    <3>1. checkpoint' \in Tokens /\ checkpoint < checkpoint'
      BY <1>0, <2>4, TokensSplit DEF WindowInv, InWindow
    <3>2. sequenceQueue' \in Seq(TrackedSequence)
      BY <1>0, <2>1, CommitTokens
    <3>3. Unverified(sequenceQueue') \subseteq TokensOf(sequenceQueue')
      BY <3>2, TokensSplit
    <3>4. \A s \in Unverified(sequenceQueue) : checkpoint' < s
      BY <2>2, <2>4, <3>3
    <3>5. Contract!Advance
      BY <2>2, <3>1, <3>4 DEF Contract!Advance
    <3> QED
      BY <3>5
  <2> QED
    BY <1>0, <2>1, <2>3, <2>4, CommitTokens
<1>5. ASSUME Restart PROVE Contract!Forget
  BY <1>5 DEF Restart, Contract!Forget, Unverified
<1>6. CASE UNCHANGED replayVars
  BY <1>6 DEF replayVars
<1> QED
  BY <1>1, <1>2, <1>3, <1>4, <1>5, <1>6 DEF ReplayNext

\* The window implements ContiguousCheckpoint: the row moves forward only, and
\* never onto or over a token whose work is outstanding
\* (checkpoint-window.ts:15-82).
THEOREM WindowKeepsContract == ReplaySpec => KeepsContract
<1>1. ReplayInit => Contract!AbsInit
  BY DEF ReplayInit, Contract!AbsInit, Unverified
<1>2. ReplayInv /\ [ReplayNext]_replayVars => [Contract!AbsNext]_(Contract!absVars)
  BY ReplayNext_Contract DEF ReplayInv
<1> QED
  BY <1>1, <1>2, ReplayInvariant, PTL DEF ReplaySpec, KeepsContract, Contract!AbsSpec

-----------------------------------------------------------------------------

\* While it stops, the consumer passes rows that the window does not track.
FeedInv == WindowInv /\ (~stopping => CaughtUp /\ StreamIsKept)

LEMMA FeedInit_Inv == FeedInit => FeedInv
<1> SUFFICES ASSUME FeedInit PROVE FeedInv
  OBVIOUS
<1>1. WindowInv /\ CaughtUp
  BY ReplayInit_Inv DEF FeedInit, ReplayInv
<1>2. StreamIsKept
  BY DEF FeedInit, Fresh, StreamIsKept
<1> QED
  BY <1>1, <1>2 DEF FeedInv

\* What leaves the window, the row and the consumer alone.
LEMMA WindowUntouched ==
  ASSUME UNCHANGED replayVars
  PROVE  (WindowInv => WindowInv') /\ (CaughtUp => CaughtUp')
BY DEF replayVars, WindowInv, CaughtUp, ReplayTypeOK, InWindow, Remembered, NothingSkipped

LEMMA RowArrives_Inv ==
  ASSUME FeedInv, NEW s \in Tokens, RowArrives(s)
  PROVE  FeedInv'
<1>1. TrackSequence(s) /\ UNCHANGED streamVars /\ ~stopping
  BY DEF RowArrives
<1>2. ReplayInv /\ StreamIsKept
  BY <1>1 DEF FeedInv, ReplayInv
<1>3. ReplayInv'
  BY <1>1, <1>2, TrackSequence_Inv
<1>4. StreamIsKept'
  BY <1>1, <1>2 DEF StreamIsKept, streamVars
<1> QED
  BY <1>3, <1>4 DEF FeedInv, ReplayInv

LEMMA RowIsDropped_Inv ==
  ASSUME FeedInv, NEW s \in Tokens, RowIsDropped(s)
  PROVE  FeedInv'
<1>1. WindowInv
  BY DEF FeedInv
<1>2. /\ UNCHANGED <<sequenceQueue, checkpoint, verified>>
      /\ currentSeq' = s /\ s > currentSeq /\ stopping /\ stopping' = stopping
  BY DEF RowIsDropped, streamVars
<1>3. ReplayTypeOK' /\ Remembered' /\ NothingSkipped'
  BY <1>1, <1>2 DEF WindowInv, ReplayTypeOK, Remembered, NothingSkipped
<1>4. InWindow'
  <2>1. checkpoint \in Nat /\ currentSeq \in Nat /\ s \in Nat /\ TokensOf(sequenceQueue) \subseteq Nat
    BY <1>1, ReplayFacts
  <2>2. Ascending(sequenceQueue)' /\ TokensOf(sequenceQueue)' = TokensOf(sequenceQueue)
    BY <1>1, <1>2 DEF WindowInv, InWindow
  <2>3. ASSUME NEW t \in TokensOf(sequenceQueue) PROVE checkpoint < t /\ t <= s
    <3>1. checkpoint < t /\ t <= currentSeq /\ t \in Nat
      BY <1>1, <2>1 DEF WindowInv, InWindow
    <3> QED
      BY <1>2, <2>1, <3>1
  <2>4. checkpoint <= s
    <3>1. checkpoint <= currentSeq
      BY <1>1 DEF WindowInv, InWindow
    <3> QED
      BY <1>2, <2>1, <3>1
  <2> QED
    BY <1>2, <2>2, <2>3, <2>4 DEF InWindow
<1> QED
  BY <1>2, <1>3, <1>4 DEF FeedInv, WindowInv

\* The stream's own steps: they move neither the window nor the consumer, and
\* only a broken stream, a clean end and a stop let go of it.
LEMMA Stream_Inv ==
  ASSUME FeedInv,
         \/ Connected \/ StreamBreaks \/ StartResolves \/ StreamEnds
         \/ RetryFires \/ BeginStop \/ CloseStream
  PROVE  FeedInv'
<1>1. UNCHANGED replayVars
  BY DEF Connected, StreamBreaks, StartResolves, StreamEnds, RetryFires, BeginStop, CloseStream
<1>2. WindowInv' /\ (CaughtUp => CaughtUp')
  BY <1>1, WindowUntouched DEF FeedInv
<1>3. ~stopping' => ~stopping
  BY DEF Connected, StreamBreaks, StartResolves, StreamEnds, RetryFires, BeginStop, CloseStream
<1>4. ~stopping' => StreamIsKept'
  BY <1>3
  DEF FeedInv, StreamIsKept,
      Connected, StreamBreaks, StartResolves, StreamEnds, RetryFires, BeginStop, CloseStream
<1> QED
  BY <1>2, <1>3, <1>4 DEF FeedInv

LEMMA Reports_Inv ==
  ASSUME FeedInv, Save \/ \E s \in Tokens : Report(s)
  PROVE  FeedInv'
<1>1. WindowInv' /\ (CaughtUp => CaughtUp') /\ UNCHANGED streamVars
  BY Commit_Inv, Mark_Inv DEF FeedInv, Save, Report
<1> QED
  BY <1>1 DEF FeedInv, StreamIsKept, streamVars

LEMMA NewProcess_Inv ==
  ASSUME FeedInv, NewProcess
  PROVE  FeedInv'
<1>1. ReplayInv'
  BY Restart_Inv DEF FeedInv, NewProcess
<1>2. StreamIsKept'
  BY DEF NewProcess, Fresh, StreamIsKept
<1> QED
  BY <1>1, <1>2 DEF FeedInv, ReplayInv

LEMMA FeedNext_Inv == FeedInv /\ [FeedNext]_feedVars => FeedInv'
<1> SUFFICES ASSUME FeedInv, [FeedNext]_feedVars PROVE FeedInv'
  OBVIOUS
<1>1. ASSUME NEW s \in Tokens, RowArrives(s) PROVE FeedInv'
  BY <1>1, RowArrives_Inv
<1>2. ASSUME NEW s \in Tokens, RowIsDropped(s) PROVE FeedInv'
  BY <1>2, RowIsDropped_Inv
<1>3. CASE \/ Connected \/ StreamBreaks \/ StartResolves \/ StreamEnds
           \/ RetryFires \/ BeginStop \/ CloseStream
  BY <1>3, Stream_Inv
<1>4. CASE Save \/ \E s \in Tokens : Report(s)
  BY <1>4, Reports_Inv
<1>5. CASE NewProcess
  BY <1>5, NewProcess_Inv
<1>6. CASE UNCHANGED feedVars
  <2>1. UNCHANGED replayVars /\ UNCHANGED streamVars
    BY <1>6 DEF feedVars
  <2> QED
    BY <2>1, WindowUntouched DEF FeedInv, StreamIsKept, streamVars
<1> QED
  BY <1>1, <1>2, <1>3, <1>4, <1>5, <1>6 DEF FeedNext

-----------------------------------------------------------------------------

\* The strengthened invariant holds in every reachable state.
THEOREM FeedInvariant == FeedSpec => []FeedInv
<1>1. FeedInit => FeedInv
  BY FeedInit_Inv
<1>2. FeedInv /\ [FeedNext]_feedVars => FeedInv'
  BY FeedNext_Inv
<1> QED
  BY <1>1, <1>2, PTL DEF FeedSpec

\* The window, the row and the consumer hold tokens of the feed
\* (checkpoint-window.ts:11-13, changes-consumer.ts currentSeq).
THEOREM FeedTypeCorrect == FeedSpec => []ReplayTypeOK
<1>1. FeedInv => ReplayTypeOK
  BY DEF FeedInv, WindowInv
<1> QED
  BY <1>1, FeedInvariant, PTL

\* The row covers verified tokens only, also when rows pass by during a stop
\* and whatever becomes of the stream (checkpoint-window.ts:45-82,
\* changes-consumer.ts).
THEOREM NothingIsSkippedByTheFeed == FeedSpec => []NothingSkipped
<1>1. FeedInv => NothingSkipped
  BY DEF FeedInv, WindowInv
<1> QED
  BY <1>1, FeedInvariant, PTL

\* A daemon that is not stopping reads on or will, and from a position that
\* leaves nothing out (continuous-engine.ts onRemoteError).
THEOREM FeedIsAlwaysKept == FeedSpec => []FeedIsKept
<1>1. FeedInv => FeedIsKept
  <2> SUFFICES ASSUME FeedInv, ~stopping PROVE StreamIsKept /\ NothingPassedBy
    BY DEF FeedIsKept
  <2>1. StreamIsKept /\ CaughtUp /\ InWindow
    BY DEF FeedInv, WindowInv
  <2> QED
    BY <2>1 DEF NothingPassedBy, CaughtUp, InWindow
<1> QED
  BY <1>1, FeedInvariant, PTL

\* With its feed the window still implements ContiguousCheckpoint
\* (checkpoint-window.ts:15-82).
THEOREM FeedKeepsContract == FeedSpec => KeepsContract
<1>1. FeedInit => Contract!AbsInit
  BY DEF FeedInit, ReplayInit, Contract!AbsInit, Unverified
<1>2. FeedInv /\ [FeedNext]_feedVars => [Contract!AbsNext]_(Contract!absVars)
  <2> SUFFICES ASSUME FeedInv, [FeedNext]_feedVars
               PROVE  [Contract!AbsNext]_(Contract!absVars)
    OBVIOUS
  <2>1. WindowInv
    BY DEF FeedInv
  <2>2. CASE [ReplayNext]_replayVars
    BY <2>1, <2>2, ReplayNext_Contract
  <2>3. ASSUME NEW s \in Tokens, RowIsDropped(s)
        PROVE  [Contract!AbsNext]_(Contract!absVars)
    BY <2>3 DEF RowIsDropped, Contract!absVars
  <2>4. [ReplayNext]_replayVars \/ \E s \in Tokens : RowIsDropped(s)
    BY DEF FeedNext, feedVars, ReplayNext,
           RowArrives, Report, Save, NewProcess,
           Connected, StreamBreaks, StartResolves, StreamEnds, RetryFires, BeginStop, CloseStream
  <2> QED
    BY <2>2, <2>3, <2>4
<1> QED
  BY <1>1, <1>2, FeedInvariant, PTL DEF FeedSpec, KeepsContract, Contract!AbsSpec

=============================================================================
