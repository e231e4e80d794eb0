----------------------- MODULE ContinuousEngine_proofs -----------------------
(***************************************************************************)
(* The saved checkpoint is sound in every run of the daemon: for any feed, *)
(* any number of files, workers, passes, failures, crashes and restarts.   *)
(* Rows taken in become requests, and the pool keeps its promises within   *)
(* the daemon.                                                             *)
(***************************************************************************)
EXTENDS ContinuousEngine, FileWorkerPool_proofs, CheckpointWindow_proofs

\* The window is in feed order below the consumer, and a completed entry was
\* applied, or reported as done by a worker that brought nothing.
WindowInv ==
  /\ Ascending(sequenceQueue)
  /\ \A s \in TokensOf(sequenceQueue) : s <= currentSeq
  /\ CompletedTokens(sequenceQueue) \subseteq Accounted

\* What a pass does not read again was sound when it began, and still is.
PassOK(pass) ==
  /\ pass.since <= Len(feed) /\ pass.probe <= pass.seen /\ pass.seen <= Len(feed)
  /\ \A s \in Positions : s <= pass.since /\ Required(s) => s \in Accounted

PassInv == \A i \in Passes : passes[i] # NoPass => PassOK(passes[i])

\* Before the daemon is live nothing has been received.
QuietInv ==
  phase \in {"DOWN", "CATCHING_UP"} =>
    sequenceQueue = <<>> /\ Busy(active) = {} /\ currentSeq = 0

EngineInv ==
  /\ EngineTyped /\ PoolInv
  /\ WindowInv /\ FeedInv /\ HintsInv /\ RunsInv /\ PassInv /\ QuietInv
  /\ CheckpointSound /\ ReceivedIsTracked

-----------------------------------------------------------------------------
(* Facts the steps share *)

LEMMA EngineFacts ==
  ASSUME EngineInv
  PROVE  /\ Len(feed) \in Nat /\ checkpoint \in Nat /\ currentSeq \in Nat
         /\ Tokens = 1 .. MaxChanges /\ MaxChanges \in Nat /\ Len(feed) <= MaxChanges
         /\ feed \in Seq(Paths \cup {Chunk}) /\ Chunk \notin Paths
         /\ sequenceQueue \in Seq(TrackedSequence) /\ Ascending(sequenceQueue)
         /\ TokensOf(sequenceQueue) \subseteq Tokens
         /\ CompletedTokens(sequenceQueue) \subseteq TokensOf(sequenceQueue)
         /\ Positions \subseteq Tokens
         /\ \A s \in Positions : s \in Nat /\ s >= 1 /\ s <= Len(feed)
<1>1. /\ feed \in Seq(Paths \cup {Chunk}) /\ Len(feed) <= MaxChanges
      /\ checkpoint \in Nat /\ currentSeq \in Nat
      /\ sequenceQueue \in Seq(TrackedSequence) /\ Ascending(sequenceQueue)
  BY DEF EngineInv, EngineTyped, WindowInv
<1>2. Len(feed) \in Nat
  BY <1>1
<1>3. Tokens = 1 .. MaxChanges /\ MaxChanges \in Nat /\ Chunk \notin Paths
  BY EngineAssumption
<1>4. /\ TokensOf(sequenceQueue) \subseteq Tokens
      /\ TokensOf(sequenceQueue) = CompletedTokens(sequenceQueue) \cup Unverified(sequenceQueue)
  BY <1>1, TokensSplit
<1>5. /\ Positions \subseteq Tokens
      /\ \A s \in Positions : s \in Nat /\ s >= 1 /\ s <= Len(feed)
  BY <1>1, <1>2, <1>3 DEF Positions
<1> QED
  BY <1>1, <1>2, <1>3, <1>4, <1>5

\* A step that leaves the feed alone leaves alone what is required of the vault.
LEMMA SameFeed ==
  ASSUME feed' = feed
  PROVE  /\ Positions' = Positions
         /\ \A s : Required(s)' <=> Required(s)
  BY DEF Positions, Required, Listed

\* Passes in progress stay sound while changes are only added to the accounted.
LEMMA PassesKept ==
  ASSUME EngineInv, feed' = feed, Accounted \subseteq Accounted',
         \A i \in Passes : passes'[i] = passes[i] \/ passes'[i] = NoPass
  PROVE  PassInv'
<1>1. Positions' = Positions /\ \A s : Required(s)' <=> Required(s)
  BY SameFeed
<1>2. ASSUME NEW i \in Passes, passes'[i] # NoPass PROVE PassOK(passes[i])
  BY <1>2 DEF EngineInv, PassInv
<1>3. ASSUME NEW i \in Passes, passes'[i] # NoPass
      PROVE  /\ passes'[i].since <= Len(feed') /\ passes'[i].probe <= passes'[i].seen
             /\ passes'[i].seen <= Len(feed')
             /\ \A s \in Positions' : s <= passes'[i].since /\ Required(s)' => s \in Accounted'
  BY <1>1, <1>2, <1>3 DEF PassOK
<1> QED
  BY <1>3 DEF PassInv, PassOK

\* A pass that begins will not read again what the row vouches for.
LEMMA PassBegins ==
  ASSUME EngineInv, NEW i \in Passes, BeginPass(i), feed' = feed, Accounted \subseteq Accounted'
  PROVE  PassInv' /\ passes' \in [Passes -> Pass \cup {NoPass}]
<1>1. PICK inc \in BOOLEAN, probe \in {0, Len(feed)} :
        passes' = [passes EXCEPT ![i] =
          [incremental |-> inc, since |-> IF inc THEN checkpoint ELSE 0,
           probe |-> probe, seen |-> Len(feed)]]
  BY DEF BeginPass
<1> DEFINE new == [incremental |-> inc, since |-> IF inc THEN checkpoint ELSE 0,
                   probe |-> probe, seen |-> Len(feed)]
<1>2. /\ new.since \in {0, checkpoint} /\ new.probe \in {0, Len(feed)} /\ new.seen = Len(feed)
      /\ new.incremental \in BOOLEAN
  OBVIOUS
<1>3. /\ Len(feed) \in Nat /\ checkpoint \in Nat /\ checkpoint <= Len(feed)
      /\ passes \in [Passes -> Pass \cup {NoPass}]
  BY EngineFacts DEF EngineInv, FeedInv, EngineTyped
<1>4. new \in Pass
  <2> DEFINE from == IF inc THEN checkpoint ELSE 0
  <2>1. from \in Nat /\ probe \in Nat /\ Len(feed) \in Nat
    BY <1>3
  <2>2. new = [incremental |-> inc, since |-> from, probe |-> probe, seen |-> Len(feed)]
    OBVIOUS
  <2> HIDE DEF from, new
  <2> QED
    BY <2>1, <2>2 DEF Pass
<1>5. passes' = [passes EXCEPT ![i] = new]
  BY <1>1
<1> HIDE DEF new
<1>6. passes' \in [Passes -> Pass \cup {NoPass}]
  BY <1>3, <1>4, <1>5
<1>7. Positions' = Positions /\ \A s : Required(s)' <=> Required(s)
  BY SameFeed
<1>8. \A s \in Positions : s <= new.since /\ Required(s) => s \in Accounted
  <2> SUFFICES ASSUME NEW s \in Positions, s <= new.since, Required(s) PROVE s \in Accounted
    OBVIOUS
  <2>1. s \in Nat /\ s >= 1
    BY EngineFacts
  <2>2. s <= checkpoint
    BY <1>2, <1>3, <2>1
  <2> QED
    BY <2>2 DEF EngineInv, CheckpointSound, SoundUpTo
<1>9. new.since <= Len(feed) /\ new.probe <= new.seen /\ new.seen <= Len(feed)
  BY <1>2, <1>3
<1>10. ASSUME NEW j \in Passes, j # i, passes'[j] # NoPass PROVE PassOK(passes[j]) /\ passes'[j] = passes[j]
  BY <1>3, <1>5, <1>10 DEF EngineInv, PassInv
<1>11. ASSUME NEW j \in Passes, passes'[j] # NoPass
       PROVE  /\ passes'[j].since <= Len(feed') /\ passes'[j].probe <= passes'[j].seen
              /\ passes'[j].seen <= Len(feed')
              /\ \A s \in Positions' : s <= passes'[j].since /\ Required(s)' => s \in Accounted'
  <2>1. CASE j = i
    <3>1. passes'[j] = new
      BY <1>3, <1>5, <2>1
    <3> QED
      BY <1>7, <1>8, <1>9, <3>1
  <2>2. CASE j # i
    BY <1>7, <1>10, <1>11, <2>2 DEF PassOK
  <2> QED
    BY <2>1, <2>2
<1> QED
  BY <1>6, <1>11 DEF PassInv, PassOK

\* The runs after a step: those that go on keep their record, those that start
\* have seen the whole feed.
LEMMA RunsRecorded ==
  ASSUME EngineInv, PoolInv', HintsInv', feed' = feed, NEW ending, RecordStarts(ending),
         \A p \in Busy(active) \ ending : active'[p] = active[p]
  PROVE  RunsInv' /\ runs' \in [Paths -> Run]
<1>1. runs' = [p \in Paths |->
        IF active'[p] = NoHint THEN NoRun
        ELSE IF active[p] = NoHint \/ p \in ending
             THEN [seen |-> Len(feed), permitted |-> phase = "LIVE"]
             ELSE runs[p]]
  BY DEF RecordStarts
<1>2. Len(feed) \in Nat /\ runs \in [Paths -> Run]
  BY EngineFacts DEF EngineInv, EngineTyped
<1>3. NoRun \in Run /\ [seen |-> Len(feed), permitted |-> phase = "LIVE"] \in Run
  BY <1>2 DEF NoRun, Run
<1>4. runs' \in [Paths -> Run]
  BY <1>1, <1>2, <1>3
<1>5. ASSUME NEW p \in Busy(active')
      PROVE  active'[p].remoteSeq <= runs'[p].seen /\ runs'[p].seen <= Len(feed')
  <2>1. p \in Paths /\ active'[p] # NoHint
    BY <1>5 DEF Busy
  <2>2. CASE active[p] = NoHint \/ p \in ending
    <3>1. runs'[p].seen = Len(feed)
      BY <1>1, <2>1, <2>2
    <3>2. active'[p] \in Hint
      BY <2>1 DEF PoolInv, PoolTypeOK
    <3>3. active'[p].remoteSeq \in Tokens \cup {0}
      BY <3>2, EngineAssumption DEF Hint
    <3>4. active'[p].remoteSeq # 0 => active'[p].remoteSeq \in Positions
      BY <1>5 DEF HintsInv, HintOK, Positions
    <3>5. active'[p].remoteSeq <= Len(feed)
      BY <1>2, <3>3, <3>4 DEF Positions
    <3> QED
      BY <1>2, <3>1, <3>5
  <2>3. CASE ~(active[p] = NoHint \/ p \in ending)
    <3>1. p \in Busy(active) \ ending
      BY <2>1, <2>3 DEF Busy
    <3>2. runs'[p] = runs[p] /\ active'[p] = active[p]
      BY <1>1, <2>1, <2>3, <3>1
    <3> QED
      BY <3>1, <3>2 DEF EngineInv, RunsInv
  <2> QED
    BY <2>2, <2>3
<1> QED
  BY <1>4, <1>5 DEF RunsInv

-----------------------------------------------------------------------------
(* The window *)

\* Reports and commits keep the window and the row sound, when the tokens that
\* become completed are accounted for.
LEMMA ReportKeeps ==
  ASSUME EngineInv, feed' = feed, currentSeq' = currentSeq, Accounted \subseteq Accounted',
         NEW q \in Seq(TrackedSequence), Ascending(q),
         TokensOf(q) = TokensOf(sequenceQueue), CompletedTokens(q) \subseteq Accounted',
         CommitFrom(q) \/ (sequenceQueue' = q /\ checkpoint' = checkpoint)
  PROVE  /\ sequenceQueue' \in Seq(TrackedSequence) /\ checkpoint' \in Nat
         /\ WindowInv' /\ FeedInv' /\ CheckpointSound' /\ ReceivedIsTracked'
<1>0. /\ Len(feed) \in Nat /\ checkpoint \in Nat /\ currentSeq \in Nat
      /\ TokensOf(q) \subseteq Nat /\ Positions \subseteq Nat
      /\ checkpoint <= Len(feed) /\ currentSeq <= Len(feed)
      /\ \A s \in TokensOf(q) : s <= currentSeq
  BY EngineFacts DEF EngineInv, FeedInv, WindowInv, Positions
<1>1. Positions' = Positions /\ \A s : Required(s)' <=> Required(s)
  BY SameFeed
<1>2. /\ sequenceQueue' \in Seq(TrackedSequence) /\ Ascending(sequenceQueue')
      /\ TokensOf(sequenceQueue') \subseteq TokensOf(q)
      /\ CompletedTokens(sequenceQueue') \subseteq CompletedTokens(q)
  BY CommitTokens
<1>3. WindowInv'
  BY <1>0, <1>2 DEF WindowInv
<1>4. \A s \in Positions : s <= checkpoint /\ Required(s) => s \in Accounted'
  BY DEF EngineInv, CheckpointSound, SoundUpTo
<1>5. \A s \in Positions : s <= currentSeq /\ Required(s) => s \in Accounted' \cup TokensOf(q)
  BY DEF EngineInv, ReceivedIsTracked
<1>6. CASE checkpoint' = checkpoint /\ sequenceQueue' = q
  <2>1. CheckpointSound'
    BY <1>1, <1>4, <1>6 DEF CheckpointSound, SoundUpTo
  <2>2. ReceivedIsTracked'
    BY <1>1, <1>5, <1>6 DEF ReceivedIsTracked
  <2> QED
    BY <1>0, <1>2, <1>3, <1>6, <2>1, <2>2 DEF FeedInv
<1>7. CASE /\ checkpoint' \in CompletedTokens(q)
           /\ \A s \in TokensOf(q) : IF s <= checkpoint' THEN s \in CompletedTokens(q)
                                                         ELSE s \in TokensOf(sequenceQueue')
  <2>1. checkpoint' \in TokensOf(q)
    BY <1>7, TokensSplit
  <2>2. checkpoint' \in Nat /\ checkpoint' <= currentSeq
    BY <1>0, <2>1
  <2>3. ASSUME NEW s \in Positions, s <= checkpoint', Required(s) PROVE s \in Accounted'
    <3>1. s <= currentSeq
      BY <1>0, <2>2, <2>3
    <3> QED
      BY <1>5, <1>7, <2>3, <3>1
  <2>4. CheckpointSound'
    BY <1>1, <2>3 DEF CheckpointSound, SoundUpTo
  <2>5. \A s \in TokensOf(q) : s \in Accounted' \cup TokensOf(sequenceQueue')
    BY <1>7
  <2>6. ReceivedIsTracked'
    BY <1>1, <1>5, <2>5 DEF ReceivedIsTracked
  <2> QED
    BY <1>0, <1>2, <1>3, <2>2, <2>4, <2>6 DEF FeedInv
<1> QED
  BY <1>6, <1>7, CommitTokens

-----------------------------------------------------------------------------
(* The pool *)

\* pump() moves hints but makes none up.
LEMMA PumpHints ==
  ASSUME EngineInv, feed' = feed, NEW q, NEW act, Sane(q, act), SlotsKept(act),
         Pump(q, act, isPaused),
         \A i \in DOMAIN q : HintOK(feed, q[i]),
         \A p \in Busy(act) : HintOK(feed, act[p])
  PROVE  HintsInv' /\ \A p \in Busy(act) : active'[p] = act[p]
<1>1. isPaused \in BOOLEAN /\ dirty \in [Paths -> Hint \cup {NoHint}]
  BY DEF EngineInv, PoolInv, PoolTypeOK
<1>2. /\ dirty' = dirty
      /\ \A i \in DOMAIN pendingQueue' : \E j \in DOMAIN q : pendingQueue'[i] = q[j]
      /\ \A p \in Busy(act) : active'[p] = act[p]
      /\ \A p \in Paths : active'[p] = act[p] \/ \E j \in DOMAIN q : active'[p] = q[j]
  BY <1>1, PumpKeeps
<1>3. \A i \in DOMAIN pendingQueue' : HintOK(feed, pendingQueue'[i])
  BY <1>2
<1>4. \A p \in Busy(active') : HintOK(feed, active'[p])
  BY <1>2 DEF Busy
<1>5. \A p \in Dirty' : HintOK(feed, dirty'[p])
  BY <1>2 DEF Dirty, EngineInv, HintsInv
<1> QED
  BY <1>2, <1>3, <1>4, <1>5 DEF HintsInv, Busy

\* What submitting a sound hint leaves of the invariant.
LEMMA SubmitKeeps ==
  ASSUME EngineInv, feed' = feed, Accounted \subseteq Accounted',
         NEW h \in Hint, HintOK(feed, h), Submit(h)
  PROVE  /\ PoolInv' /\ HintsInv' /\ RunsInv' /\ PassInv'
         /\ runs' \in [Paths -> Run] /\ passes' \in [Passes -> Pass \cup {NoPass}]
<1>1. PoolInv /\ passes \in [Passes -> Pass \cup {NoPass}] /\ RecordStarts({})
  BY DEF EngineInv, EngineTyped, Submit
<1>2. /\ active \in [Paths -> Hint \cup {NoHint}] /\ dirty \in [Paths -> Hint \cup {NoHint}]
      /\ h.path \in Paths
  BY <1>1 DEF PoolInv, PoolTypeOK, Hint
<1>4. CASE EnqueueAccepted(h) /\ UNCHANGED passes
  <2>1. PoolInv'
    BY <1>1, <1>4, EnqueueAccepted_Inv
  <2>2. PassInv' /\ passes' \in [Passes -> Pass \cup {NoPass}]
    BY <1>1, <1>4, PassesKept
  <2>3. HintsInv' /\ \A p \in Busy(active) : active'[p] = active[p]
    <3>1. CASE active[h.path] # NoHint
      <4>1. dirty' = [dirty EXCEPT ![h.path] = h] /\ UNCHANGED <<pendingQueue, active>>
        BY <1>4, <3>1 DEF EnqueueAccepted
      <4>2. \A p \in Dirty' : dirty'[p] = h \/ (p \in Dirty /\ dirty'[p] = dirty[p])
        BY <1>2, <4>1 DEF Dirty
      <4>3. \A p \in Dirty' : HintOK(feed, dirty'[p])
        BY <4>2 DEF EngineInv, HintsInv
      <4> QED
        BY <4>1, <4>3 DEF EngineInv, HintsInv, Busy
    <3>2. CASE active[h.path] = NoHint
      <4> DEFINE q == WithHint(pendingQueue, h)
      <4>1. Pump(q, active, isPaused)
        BY <1>4, <3>2 DEF EnqueueAccepted
      <4>2. h.path \notin Busy(active)
        BY <3>2 DEF Busy
      <4>3. /\ Sane(q, active)
            /\ \A i \in DOMAIN q : q[i] = h \/ \E j \in DOMAIN pendingQueue : q[i] = pendingQueue[j]
        BY <1>1, <4>2, InvIsSane, WithHintSane
      <4> HIDE DEF q
      <4>4. \A i \in DOMAIN q : HintOK(feed, q[i])
        BY <4>3 DEF EngineInv, HintsInv
      <4>5. SlotsKept(active) /\ \A p \in Busy(active) : HintOK(feed, active[p])
        BY <1>1, InvIsSane DEF EngineInv, HintsInv
      <4> QED
        BY <4>1, <4>3, <4>4, <4>5, PumpHints
    <3> QED
      BY <3>1, <3>2
  <2>4. RunsInv' /\ runs' \in [Paths -> Run]
    BY <1>1, <2>1, <2>3, RunsRecorded
  <2> QED
    BY <2>1, <2>2, <2>3, <2>4
<1>5. ASSUME Clear, NEW i \in Passes, BeginPass(i)
      PROVE  /\ PoolInv' /\ HintsInv' /\ RunsInv' /\ PassInv'
             /\ runs' \in [Paths -> Run] /\ passes' \in [Passes -> Pass \cup {NoPass}]
  <2>1. PoolInv'
    BY <1>1, <1>5, Clear_Inv DEF Clear
  <2>2. PassInv' /\ passes' \in [Passes -> Pass \cup {NoPass}]
    BY <1>5, PassBegins
  <2>3. DOMAIN pendingQueue' = {} /\ Dirty' = {} /\ active' = active
    BY <1>5 DEF Clear, ClearBacklog, Dirty
  <2>5. HintsInv'
    BY <2>3 DEF EngineInv, HintsInv, Busy
  <2>6. RunsInv' /\ runs' \in [Paths -> Run]
    BY <1>1, <2>1, <2>3, <2>5, RunsRecorded
  <2> QED
    BY <2>1, <2>2, <2>5, <2>6
<1> QED
  BY <1>4, <1>5 DEF Submit

\* What the end of a run leaves of the invariant.
LEMMA RunEndKeeps ==
  ASSUME EngineInv, feed' = feed, NEW p \in Paths,
         WorkerReturns(p) \/ WorkerThrows(p), RecordStarts({p})
  PROVE  PoolInv' /\ HintsInv' /\ RunsInv' /\ runs' \in [Paths -> Run]
<1>1. /\ PoolInv
      /\ active \in [Paths -> Hint \cup {NoHint}] /\ dirty \in [Paths -> Hint \cup {NoHint}]
  BY DEF EngineInv, PoolInv, PoolTypeOK
<1>2. WorkerEnds(p)
  BY DEF WorkerReturns, WorkerEnds
<1>3. PoolInv'
  BY <1>1, <1>2, WorkerEnds_Inv
<1>4. CASE WorkerReruns(p)
  <2>1. /\ active' = [active EXCEPT ![p] = dirty[p]] /\ p \in Dirty
        /\ dirty' = [dirty EXCEPT ![p] = NoHint] /\ pendingQueue' = pendingQueue
    BY <1>4 DEF WorkerReruns, Dirty
  <2>2. /\ \A r \in Busy(active') : HintOK(feed, active'[r])
        /\ \A r \in Dirty' : HintOK(feed, dirty'[r])
        /\ \A r \in Busy(active) \ {p} : active'[r] = active[r]
    BY <1>1, <2>1 DEF EngineInv, HintsInv, Busy, Dirty
  <2>4. HintsInv'
    BY <2>1, <2>2 DEF EngineInv, HintsInv, Busy
  <2> QED
    BY <1>3, <2>2, <2>4, RunsRecorded
<1>5. CASE Release(p)
  <2> DEFINE act == [active EXCEPT ![p] = NoHint]
  <2>1. Pump(pendingQueue, act, isPaused)
    BY <1>5 DEF Release
  <2>2. Sane(pendingQueue, act) /\ SlotsKept(act) /\ Busy(act) = Busy(active) \ {p}
    BY <1>1, ReleasedSane
  <2>3. \A r \in Busy(active) \ {p} : act[r] = active[r]
    BY <1>1 DEF Busy
  <2> HIDE DEF act
  <2>4. /\ \A i \in DOMAIN pendingQueue : HintOK(feed, pendingQueue[i])
        /\ \A r \in Busy(act) : HintOK(feed, act[r])
    BY <2>2, <2>3 DEF EngineInv, HintsInv
  <2>5. HintsInv' /\ \A r \in Busy(act) : active'[r] = act[r]
    BY <2>1, <2>2, <2>4, PumpHints
  <2> QED
    BY <1>3, <2>2, <2>3, <2>5, RunsRecorded
<1> QED
  BY <1>4, <1>5 DEF WorkerReturns, WorkerReleases, WorkerThrows

-----------------------------------------------------------------------------
(* The steps *)

LEMMA RemoteChange_Inv ==
  ASSUME EngineInv, NEW d \in Paths \cup {Chunk}, RemoteChange(d)
  PROVE  EngineInv'
<1>1. /\ feed' = Append(feed, d) /\ Len(feed) < MaxChanges
      /\ UNCHANGED <<sequenceQueue, checkpoint, poolVars, phase, currentSeq,
                     passes, runs, historyVars, localEvents, faults, starts>>
  BY DEF RemoteChange
<1>2. /\ feed \in Seq(Paths \cup {Chunk}) /\ Len(feed) \in Nat /\ MaxChanges \in Nat
      /\ checkpoint \in Nat /\ currentSeq \in Nat
      /\ checkpoint <= Len(feed) /\ currentSeq <= Len(feed)
  BY EngineFacts DEF EngineInv, FeedInv
<1>3. /\ feed' \in Seq(Paths \cup {Chunk}) /\ Len(feed') = Len(feed) + 1
      /\ \A s \in 1 .. Len(feed) : feed'[s] = feed[s]
  BY <1>1, <1>2
<1>4. /\ Positions \subseteq Positions'
      /\ \A s \in Positions' : s <= Len(feed) => s \in Positions
  BY <1>2, <1>3 DEF Positions
<1>5. \A s \in Positions : Required(s)' => Required(s)
  BY <1>3, <1>4 DEF Required, Listed, Positions
<1>6. Accounted' = Accounted
  BY <1>1 DEF Accounted, historyVars
<1>7. \A s \in Positions', k \in Nat : k <= Len(feed) /\ s <= k /\ Required(s)' =>
        s \in Positions /\ Required(s)
  <2> SUFFICES ASSUME NEW s \in Positions', NEW k \in Nat, k <= Len(feed), s <= k, Required(s)'
               PROVE  s \in Positions /\ Required(s)
    OBVIOUS
  <2>1. s \in Nat
    BY <1>3 DEF Positions
  <2>2. s <= Len(feed)
    BY <1>2, <2>1
  <2> QED
    BY <1>4, <1>5, <2>2
<1>8. EngineTyped' /\ PoolInv'
  <2>1. PoolInv'
    BY <1>1, PoolNext_Inv DEF EngineInv
  <2>2. Len(feed') <= MaxChanges
    BY <1>1, <1>2, <1>3
  <2> QED
    BY <1>1, <1>3, <2>1, <2>2 DEF EngineInv, EngineTyped, PoolInv, historyVars
<1>9. WindowInv' /\ QuietInv'
  BY <1>1, <1>6 DEF EngineInv, WindowInv, QuietInv, poolVars, Busy
<1>10. FeedInv'
  BY <1>1, <1>2, <1>3 DEF FeedInv
<1>11. HintsInv'
  <2>1. \A h : HintOK(feed, h) => HintOK(feed', h)
    BY <1>2, <1>3 DEF HintOK
  <2> QED
    BY <1>1, <2>1 DEF EngineInv, HintsInv, poolVars, Busy, Dirty
<1>12. RunsInv'
  <2>1. runs' = runs /\ active' = active /\ runs \in [Paths -> Run]
    BY <1>1 DEF EngineInv, EngineTyped, poolVars
  <2>2. \A p \in Busy(active) : runs[p].seen \in Nat
    BY <2>1 DEF Run, Busy
  <2> QED
    BY <1>2, <1>3, <2>1, <2>2 DEF EngineInv, RunsInv, Busy
<1>13. PassInv'
  <2> SUFFICES ASSUME NEW i \in Passes, passes[i] # NoPass PROVE PassOK(passes[i])'
    BY <1>1 DEF PassInv
  <2>1. passes[i] \in Pass /\ PassOK(passes[i]) /\ passes' = passes
    BY <1>1 DEF EngineInv, EngineTyped, PassInv
  <2>2. /\ passes[i].since \in Nat /\ passes[i].probe \in Nat /\ passes[i].seen \in Nat
        /\ passes[i].since <= Len(feed) /\ passes[i].probe <= passes[i].seen
        /\ passes[i].seen <= Len(feed)
        /\ \A s \in Positions : s <= passes[i].since /\ Required(s) => s \in Accounted
    BY <2>1 DEF Pass, PassOK
  <2>3. \A s \in Positions' : s <= passes[i].since /\ Required(s)' => s \in Accounted'
    BY <1>6, <1>7, <2>2
  <2>4. passes[i].since <= Len(feed') /\ passes[i].seen <= Len(feed')
    BY <1>2, <1>3, <2>2
  <2> QED
    BY <2>1, <2>2, <2>3, <2>4 DEF PassOK
<1>14. CheckpointSound'
  BY <1>1, <1>2, <1>6, <1>7 DEF EngineInv, CheckpointSound, SoundUpTo
<1>15. ReceivedIsTracked'
  BY <1>1, <1>2, <1>6, <1>7 DEF EngineInv, ReceivedIsTracked
<1> QED
  BY <1>8, <1>9, <1>10, <1>11, <1>12, <1>13, <1>14, <1>15 DEF EngineInv

LEMMA ReceiveRow_Inv ==
  ASSUME EngineInv, NEW s \in Tokens, ReceiveRow(s)
  PROVE  EngineInv'
<1>1. /\ phase = "LIVE" /\ s \in Positions /\ s > currentSeq /\ Listed(s)
      /\ \A t \in Positions : currentSeq < t /\ t < s => ~Listed(t)
      /\ currentSeq' = s
      /\ UNCHANGED <<checkpoint, feed, phase, historyVars, localEvents, faults, starts>>
  BY DEF ReceiveRow
<1>2. /\ feed \in Seq(Paths \cup {Chunk}) /\ Len(feed) \in Nat
      /\ checkpoint \in Nat /\ currentSeq \in Nat /\ currentSeq <= Len(feed)
      /\ s \in Nat /\ s <= Len(feed) /\ s >= 1
      /\ sequenceQueue \in Seq(TrackedSequence) /\ Ascending(sequenceQueue)
      /\ TokensOf(sequenceQueue) \subseteq Nat
      /\ \A t \in TokensOf(sequenceQueue) : t <= currentSeq
      /\ CompletedTokens(sequenceQueue) \subseteq Accounted
  BY <1>1, EngineFacts DEF EngineInv, FeedInv, WindowInv
<1>3. /\ Positions' = Positions /\ \A t : Required(t)' <=> Required(t)
      /\ Accounted' = Accounted
  BY <1>1, SameFeed DEF Accounted, historyVars
<1>4. /\ TokensOf(sequenceQueue) \subseteq TokensOf(sequenceQueue')
      /\ Required(s) => s \in TokensOf(sequenceQueue')
      /\ sequenceQueue' \in Seq(TrackedSequence) /\ WindowInv'
      /\ PoolInv' /\ HintsInv' /\ RunsInv' /\ PassInv'
      /\ runs' \in [Paths -> Run] /\ passes' \in [Passes -> Pass \cup {NoPass}]
  <2>0. \A t \in TokensOf(sequenceQueue) : t <= s /\ t < s
    BY <1>1, <1>2
  <2>1. CASE feed[s] = Chunk
    <3>1. UNCHANGED <<sequenceQueue, poolVars, passes, runs>> /\ ~Required(s)
      BY <1>1, <2>1, EngineAssumption DEF ReceiveRow, Required
    <3>2. WindowInv'
      BY <1>1, <1>2, <1>3, <2>0, <3>1 DEF WindowInv
    <3>3. PoolInv'
      BY <3>1, PoolNext_Inv DEF EngineInv
    <3>4. HintsInv' /\ RunsInv'
      BY <1>1, <3>1 DEF EngineInv, HintsInv, RunsInv, poolVars, Busy, Dirty
    <3>5. PassInv'
      BY <1>1, <1>3, <3>1, PassesKept
    <3> QED
      BY <1>2, <3>1, <3>2, <3>3, <3>4, <3>5 DEF EngineInv, EngineTyped
  <2>2. CASE feed[s] # Chunk
    <3> DEFINE h == [path |-> feed[s], remoteSeq |-> s]
    <3>1. sequenceQueue' = Tracked(sequenceQueue, s) /\ Submit(h)
      BY <2>2 DEF ReceiveRow
    <3>2. feed[s] \in Paths
      BY <1>1, <1>2, <2>2 DEF Positions
    <3>3. h \in Hint
      BY <3>2, EngineAssumption DEF Hint
    <3>4. HintOK(feed, h)
      BY <1>1 DEF HintOK, Positions
    <3> HIDE DEF h
    <3>5. /\ PoolInv' /\ HintsInv' /\ RunsInv' /\ PassInv'
          /\ runs' \in [Paths -> Run] /\ passes' \in [Passes -> Pass \cup {NoPass}]
      BY <1>1, <1>3, <3>1, <3>3, <3>4, SubmitKeeps
    <3>6. /\ sequenceQueue' \in Seq(TrackedSequence)
          /\ TokensOf(sequenceQueue') = TokensOf(sequenceQueue) \cup {s}
          /\ CompletedTokens(sequenceQueue') = CompletedTokens(sequenceQueue)
          /\ Ascending(sequenceQueue')
      BY <1>2, <2>0, <3>1, TrackedTokens
    <3>7. WindowInv'
      <4>1. s <= s
        BY <1>2
      <4> QED
        BY <1>1, <1>2, <1>3, <2>0, <3>6, <4>1 DEF WindowInv
    <3> QED
      BY <3>5, <3>6, <3>7
  <2> QED
    BY <2>1, <2>2
<1>5. EngineTyped'
  BY <1>1, <1>2, <1>4 DEF EngineInv, EngineTyped, PoolInv, historyVars
<1>6. FeedInv' /\ QuietInv'
  BY <1>1, <1>2 DEF EngineInv, FeedInv, QuietInv
<1>7. CheckpointSound'
  BY <1>1, <1>3 DEF EngineInv, CheckpointSound, SoundUpTo
<1>8. ReceivedIsTracked'
  <2> SUFFICES ASSUME NEW t \in Positions, t <= s, Required(t)
               PROVE  t \in Accounted \cup TokensOf(sequenceQueue')
    BY <1>1, <1>3 DEF ReceivedIsTracked
  <2>1. t \in Nat
    BY EngineFacts
  <2>2. CASE t <= currentSeq
    BY <1>4, <2>2 DEF EngineInv, ReceivedIsTracked
  <2>3. CASE currentSeq < t /\ t < s
    BY <1>1, <2>3 DEF Required
  <2>4. CASE t = s
    BY <1>4, <2>4
  <2> QED
    BY <1>2, <2>1, <2>2, <2>3, <2>4
<1> QED
  BY <1>4, <1>5, <1>6, <1>7, <1>8 DEF EngineInv

LEMMA LocalEvent_Inv ==
  ASSUME EngineInv, NEW p \in Paths, LocalEvent(p)
  PROVE  EngineInv'
<1> DEFINE h == [path |-> p, remoteSeq |-> 0]
<1>1. /\ phase = "LIVE" /\ localEvents < MaxLocal /\ localEvents' = localEvents + 1 /\ Submit(h)
      /\ UNCHANGED <<sequenceQueue, checkpoint, feed, phase, currentSeq, historyVars,
                     faults, starts>>
  BY DEF LocalEvent
<1>2. h \in Hint /\ HintOK(feed, h)
  BY EngineAssumption DEF Hint, HintOK
<1> HIDE DEF h
<1>3. Positions' = Positions /\ (\A t : Required(t)' <=> Required(t)) /\ Accounted' = Accounted
  BY <1>1, SameFeed DEF Accounted, historyVars
<1>4. /\ PoolInv' /\ HintsInv' /\ RunsInv' /\ PassInv'
      /\ runs' \in [Paths -> Run] /\ passes' \in [Passes -> Pass \cup {NoPass}]
  BY <1>1, <1>2, <1>3, SubmitKeeps
<1>5. localEvents' \in 0 .. MaxLocal
  BY <1>1, EngineAssumption DEF EngineInv, EngineTyped
<1>6. EngineTyped'
  BY <1>1, <1>4, <1>5 DEF EngineInv, EngineTyped, PoolInv, historyVars
<1>7. WindowInv' /\ FeedInv' /\ QuietInv'
  BY <1>1, <1>3 DEF EngineInv, WindowInv, FeedInv, QuietInv
<1>8. CheckpointSound' /\ ReceivedIsTracked'
  BY <1>1, <1>3 DEF EngineInv, CheckpointSound, SoundUpTo, ReceivedIsTracked
<1> QED
  BY <1>4, <1>6, <1>7, <1>8 DEF EngineInv

\* A run in progress: the daemon has been live, and the change of its token is
\* among those the run has seen.
LEMMA RunFacts ==
  ASSUME EngineInv, NEW p \in Paths, active[p] # NoHint
  PROVE  /\ active[p] \in Hint /\ active[p].path = p
         /\ active[p].remoteSeq \in Tokens \cup {0}
         /\ runs[p].seen \in Nat /\ runs[p].seen <= Len(feed)
         /\ 1 .. runs[p].seen \subseteq Tokens
         /\ active[p].remoteSeq # 0 =>
              active[p].remoteSeq \in {s \in 1 .. runs[p].seen : feed[s] = p}
         /\ phase \notin {"DOWN", "CATCHING_UP"}
<1>1. p \in Busy(active)
  BY DEF Busy
<1>2. active[p] \in Hint /\ active[p].path = p
  BY <1>1 DEF EngineInv, PoolInv, PoolTypeOK
<1>3. active[p].remoteSeq \in Tokens \cup {0}
  BY <1>2, EngineAssumption DEF Hint
<1>4. runs[p].seen \in Nat /\ runs[p].seen <= Len(feed) /\ active[p].remoteSeq <= runs[p].seen
  BY <1>1 DEF EngineInv, RunsInv, EngineTyped, Run
<1>5. 1 .. runs[p].seen \subseteq Tokens
  BY <1>4, EngineFacts
<1>6. active[p].remoteSeq # 0 =>
        active[p].remoteSeq \in {s \in 1 .. runs[p].seen : feed[s] = p}
  BY <1>1, <1>2, <1>4 DEF EngineInv, HintsInv, HintOK
<1>7. phase \notin {"DOWN", "CATCHING_UP"}
  BY <1>1 DEF EngineInv, QuietInv
<1> QED
  BY <1>2, <1>3, <1>4, <1>5, <1>6, <1>7

\* A run reported as done, whether it brought the changes it saw or concealed
\* that of its token.
LEMMA ReconcileSucceeds_Inv ==
  ASSUME EngineInv, NEW p \in Paths, ReconcileSucceeds(p) \/ ReconcileConceals(p)
  PROVE  EngineInv'
<1> DEFINE seq == active[p].remoteSeq
           served == SeenBy(p)
<1>1. /\ active[p] # NoHint /\ ReportDone(seq) /\ WorkerReturns(p) /\ RecordStarts({p})
      /\ UNCHANGED <<feed, phase, currentSeq, passes, leftBehind, localEvents, faults, starts>>
  BY DEF ReconcileSucceeds, ReconcileConceals
<1>2. \/ concealed' = concealed \cup (served \cap {seq}) /\ applied' = applied
      \/ applied' = applied \cup served /\ concealed' = concealed
  BY DEF ReconcileSucceeds, ReconcileConceals
<1>3. /\ seq \in Tokens \cup {0} /\ served \subseteq Tokens /\ (seq # 0 => seq \in served)
      /\ phase \notin {"DOWN", "CATCHING_UP"}
  BY <1>1, RunFacts DEF SeenBy
<1> HIDE DEF seq, served
<1>4. Accounted \subseteq Accounted' /\ (seq # 0 => seq \in Accounted')
  BY <1>1, <1>2, <1>3 DEF Accounted
<1>5. PoolInv' /\ HintsInv' /\ RunsInv' /\ runs' \in [Paths -> Run]
  BY <1>1, RunEndKeeps
<1>6. /\ sequenceQueue' \in Seq(TrackedSequence) /\ checkpoint' \in Nat
      /\ WindowInv' /\ FeedInv' /\ CheckpointSound' /\ ReceivedIsTracked'
  <2>0. /\ sequenceQueue \in Seq(TrackedSequence) /\ Ascending(sequenceQueue)
        /\ CompletedTokens(sequenceQueue) \subseteq Accounted
    BY EngineFacts DEF EngineInv, WindowInv
  <2>1. CASE seq = 0
    <3>1. sequenceQueue' = sequenceQueue /\ checkpoint' = checkpoint
      BY <1>1, <2>1 DEF ReportDone
    <3> QED
      BY <1>1, <1>4, <2>0, <3>1, ReportKeeps
  <2>2. CASE seq # 0
    <3> DEFINE q == Marked(sequenceQueue, seq, "completed")
    <3>1. CommitFrom(q)
      BY <1>1, <2>2 DEF ReportDone
    <3>2. "completed" \in SequenceState
      BY DEF SequenceState
    <3>3. /\ q \in Seq(TrackedSequence) /\ TokensOf(q) = TokensOf(sequenceQueue) /\ Ascending(q)
          /\ CompletedTokens(q) =
               CompletedTokens(sequenceQueue) \cup ({seq} \cap TokensOf(sequenceQueue))
      BY <2>0, <3>2, MarkedEntries, MarkedTokens
    <3> HIDE DEF q
    <3>4. CompletedTokens(q) \subseteq Accounted'
      BY <1>4, <2>0, <2>2, <3>3
    <3> QED
      BY <1>1, <1>4, <3>1, <3>3, <3>4, ReportKeeps
  <2> QED
    BY <2>1, <2>2
<1>7. PassInv'
  BY <1>1, <1>4, PassesKept
<1>8. EngineTyped'
  <2>1. applied' \subseteq Tokens /\ concealed' \subseteq Tokens
    BY <1>2, <1>3 DEF EngineInv, EngineTyped
  <2> QED
    BY <1>1, <1>5, <1>6, <2>1 DEF EngineInv, EngineTyped, PoolInv
<1>9. QuietInv'
  BY <1>1, <1>3 DEF QuietInv
<1> QED
  BY <1>5, <1>6, <1>7, <1>8, <1>9 DEF EngineInv

\* A failure report and the end of the run, whether it returned or threw.
LEMMA FailureReported_Inv ==
  ASSUME EngineInv, NEW p \in Paths, active[p] # NoHint, faults' \in 0 .. MaxFaults,
         ReportFailed(active[p].remoteSeq), WorkerReturns(p) \/ WorkerThrows(p),
         RecordStarts({p}),
         UNCHANGED <<feed, phase, currentSeq, passes, historyVars, localEvents, starts>>
  PROVE  EngineInv'
<1> DEFINE q == Marked(sequenceQueue, active[p].remoteSeq, "failed")
<1>1. sequenceQueue' = q /\ checkpoint' = checkpoint
  BY DEF ReportFailed
<1>2. /\ sequenceQueue \in Seq(TrackedSequence) /\ Ascending(sequenceQueue)
      /\ CompletedTokens(sequenceQueue) \subseteq Accounted
  BY EngineFacts DEF EngineInv, WindowInv
<1>3. "failed" \in SequenceState /\ "failed" # "completed"
  BY DEF SequenceState
<1>4. /\ q \in Seq(TrackedSequence) /\ TokensOf(q) = TokensOf(sequenceQueue) /\ Ascending(q)
      /\ CompletedTokens(q) \subseteq CompletedTokens(sequenceQueue)
  BY <1>2, <1>3, MarkedEntries, MarkedTokens
<1> HIDE DEF q
<1>5. Accounted' = Accounted
  BY DEF Accounted, historyVars
<1>6. PoolInv' /\ HintsInv' /\ RunsInv' /\ runs' \in [Paths -> Run]
  BY RunEndKeeps
<1>7. /\ sequenceQueue' \in Seq(TrackedSequence) /\ checkpoint' \in Nat
      /\ WindowInv' /\ FeedInv' /\ CheckpointSound' /\ ReceivedIsTracked'
  BY <1>1, <1>2, <1>4, <1>5, ReportKeeps
<1>8. PassInv'
  BY <1>5, PassesKept
<1>9. EngineTyped'
  BY <1>6, <1>7 DEF EngineInv, EngineTyped, PoolInv, historyVars
<1>10. QuietInv'
  BY RunFacts DEF QuietInv
<1> QED
  BY <1>6, <1>7, <1>8, <1>9, <1>10 DEF EngineInv

LEMMA ReconcileFails_Inv ==
  ASSUME EngineInv, NEW p \in Paths, ReconcileFails(p) \/ ReconcileThrows(p)
  PROVE  EngineInv'
<1>1. faults \in Nat /\ faults <= MaxFaults /\ MaxFaults \in Nat
  BY EngineAssumption DEF EngineInv, EngineTyped
<1>2. /\ active[p] # NoHint /\ ReportFailed(active[p].remoteSeq) /\ RecordStarts({p})
      /\ WorkerReturns(p) \/ WorkerThrows(p)
      /\ UNCHANGED <<feed, phase, currentSeq, passes, historyVars, localEvents, starts>>
  BY DEF ReconcileFails, ReconcileThrows
<1>3. faults' \in 0 .. MaxFaults
  <2>1. CASE ReconcileFails(p)
    BY <1>1, <2>1 DEF ReconcileFails
  <2>2. CASE ReconcileThrows(p)
    BY <1>1, <2>2 DEF ReconcileThrows
  <2> QED
    BY <2>1, <2>2
<1> QED
  BY <1>2, <1>3, FailureReported_Inv

LEMMA PeriodicPass_Inv ==
  ASSUME EngineInv, NEW i \in Passes, PeriodicPass(i)
  PROVE  EngineInv'
<1>1. /\ BeginPass(i)
      /\ UNCHANGED <<sequenceQueue, checkpoint, poolVars, feed, phase, currentSeq,
                     runs, historyVars, localEvents, faults, starts>>
  BY DEF PeriodicPass
<1>2. Positions' = Positions /\ (\A t : Required(t)' <=> Required(t)) /\ Accounted' = Accounted
  BY <1>1, SameFeed DEF Accounted, historyVars
<1>3. PassInv' /\ passes' \in [Passes -> Pass \cup {NoPass}]
  BY <1>1, <1>2, PassBegins
<1>4. PoolInv'
  BY <1>1, PoolNext_Inv DEF EngineInv
<1>5. EngineTyped'
  BY <1>1, <1>3, <1>4 DEF EngineInv, EngineTyped, PoolInv, historyVars
<1>6. WindowInv' /\ FeedInv' /\ QuietInv' /\ HintsInv' /\ RunsInv'
  BY <1>1, <1>2 DEF EngineInv, WindowInv, FeedInv, QuietInv, HintsInv, RunsInv, poolVars, Busy, Dirty
<1>7. CheckpointSound' /\ ReceivedIsTracked'
  BY <1>1, <1>2 DEF EngineInv, CheckpointSound, SoundUpTo, ReceivedIsTracked
<1> QED
  BY <1>3, <1>4, <1>5, <1>6, <1>7 DEF EngineInv

\* A pass may set the row to a position within what it read, if everything up
\* to there is accounted for.
LEMMA PassEnds ==
  ASSUME EngineInv, NEW i \in Passes, passes[i] # NoPass,
         checkpoint' \in {checkpoint, passes[i].seen, passes[i].probe},
         \A s \in Positions : s <= checkpoint' /\ Required(s) => s \in Accounted',
         Accounted \subseteq Accounted', GoLive,
         passes' = [passes EXCEPT ![i] = NoPass],
         UNCHANGED <<sequenceQueue, poolVars, feed, runs, localEvents, starts>>,
         faults' \in 0 .. MaxFaults,
         applied' \subseteq Tokens, concealed' \subseteq Tokens, leftBehind' \subseteq Tokens
  PROVE  EngineInv'
<1>1. /\ passes[i] \in Pass /\ passes[i].seen <= Len(feed) /\ passes[i].probe <= passes[i].seen
      /\ passes \in [Passes -> Pass \cup {NoPass}]
  BY DEF EngineInv, EngineTyped, PassInv, PassOK
<1>2. /\ Len(feed) \in Nat /\ checkpoint \in Nat /\ checkpoint <= Len(feed)
      /\ currentSeq \in Nat /\ currentSeq <= Len(feed)
  BY EngineFacts DEF EngineInv, FeedInv
<1>3. checkpoint' \in Nat /\ checkpoint' <= Len(feed)
  BY <1>1, <1>2 DEF Pass
<1>4. Positions' = Positions /\ \A t : Required(t)' <=> Required(t)
  BY SameFeed
<1>5. CheckpointSound'
  BY <1>4 DEF CheckpointSound, SoundUpTo
<1>6. PoolInv'
  BY PoolNext_Inv DEF EngineInv
<1>7. HintsInv' /\ RunsInv'
  BY DEF EngineInv, HintsInv, RunsInv, poolVars, Busy, Dirty
<1>8. PassInv' /\ passes' \in [Passes -> Pass \cup {NoPass}]
  <2>1. \A j \in Passes : passes'[j] = passes[j] \/ passes'[j] = NoPass
    BY <1>1
  <2> QED
    BY <1>1, <2>1, PassesKept
<1>9. /\ phase' \in Phases /\ currentSeq' \in Nat
      /\ WindowInv' /\ FeedInv' /\ QuietInv' /\ ReceivedIsTracked'
  <2>1. CASE phase = "CATCHING_UP"
    <3>1. phase' = "LIVE" /\ currentSeq' = checkpoint'
      BY <2>1 DEF GoLive
    <3>2. sequenceQueue' = <<>> /\ DOMAIN sequenceQueue' = {}
      BY <2>1 DEF EngineInv, QuietInv
    <3>3. WindowInv'
      BY <3>2 DEF WindowInv, Ascending, TokensOf, CompletedTokens
    <3>4. ReceivedIsTracked'
      BY <1>4, <3>1 DEF ReceivedIsTracked
    <3>5. FeedInv' /\ QuietInv'
      BY <1>3, <3>1 DEF FeedInv, QuietInv
    <3> QED
      BY <1>3, <3>1, <3>3, <3>4, <3>5 DEF Phases
  <2>2. CASE phase # "CATCHING_UP"
    <3>1. phase' = phase /\ currentSeq' = currentSeq
      BY <2>2 DEF GoLive
    <3>2. WindowInv' /\ QuietInv'
      BY <3>1 DEF EngineInv, WindowInv, QuietInv, poolVars, Busy
    <3>3. FeedInv'
      BY <1>2, <1>3, <3>1 DEF FeedInv
    <3>4. ReceivedIsTracked'
      BY <1>4, <3>1 DEF EngineInv, ReceivedIsTracked
    <3> QED
      BY <1>2, <3>1, <3>2, <3>3, <3>4 DEF EngineInv, EngineTyped
  <2> QED
    BY <2>1, <2>2
<1>10. EngineTyped'
  BY <1>3, <1>6, <1>8, <1>9 DEF EngineInv, EngineTyped, PoolInv
<1> QED
  BY <1>5, <1>6, <1>7, <1>8, <1>9, <1>10 DEF EngineInv

LEMMA EndPass_Inv ==
  ASSUME EngineInv, NEW i \in Passes, EndPass(i)
  PROVE  EngineInv'
<1> DEFINE pass == passes[i]
           done == IF SeesConflict(pass) THEN {}
                   ELSE Inventory(pass) \ (Blocked(pass) \cup Skipped(pass))
<1>1. /\ pass # NoPass /\ applied' = applied \cup done
      /\ \/ checkpoint' = checkpoint /\ leftBehind' = leftBehind
         \/ /\ checkpoint' \in {pass.seen, pass.probe}
            /\ leftBehind' = leftBehind \cup {s \in Inventory(pass) \ applied' : s <= checkpoint'}
      /\ passes' = [passes EXCEPT ![i] = NoPass] /\ GoLive
      /\ UNCHANGED <<sequenceQueue, poolVars, feed, runs, concealed, localEvents, faults, starts>>
  BY DEF EndPass
<1>2. /\ pass.since \in Nat /\ pass.seen \in Nat /\ pass.probe \in Nat
      /\ pass.seen <= Len(feed) /\ pass.probe <= pass.seen
      /\ \A s \in Positions : s <= pass.since /\ Required(s) => s \in Accounted
  BY <1>1 DEF EngineInv, EngineTyped, PassInv, PassOK, Pass
<1>3. Inventory(pass) = {s \in pass.since + 1 .. pass.seen : feed[s] \in Paths}
  BY DEF Inventory
<1>4. Inventory(pass) \subseteq Tokens /\ done \subseteq Inventory(pass)
  <2>1. pass.since + 1 .. pass.seen \subseteq Tokens
    BY <1>2, EngineFacts
  <2> QED
    BY <1>3, <2>1
<1> HIDE DEF pass, done
<1>5. Accounted \subseteq Accounted'
  BY <1>1 DEF Accounted
<1>6. \A s \in Positions : s <= checkpoint' /\ Required(s) => s \in Accounted'
  <2> SUFFICES ASSUME NEW s \in Positions, s <= checkpoint', Required(s) PROVE s \in Accounted'
    OBVIOUS
  <2>1. s \in Nat
    BY EngineFacts
  <2>2. CASE checkpoint' = checkpoint
    BY <1>5, <2>2 DEF EngineInv, CheckpointSound, SoundUpTo
  <2>3. CASE s <= pass.since
    BY <1>2, <1>5, <2>3
  <2>4. CASE checkpoint' # checkpoint /\ s > pass.since
    <3>1. checkpoint' \in Nat /\ checkpoint' <= pass.seen
      BY <1>1, <1>2, <2>4
    <3>2. s \in pass.since + 1 .. pass.seen /\ feed[s] \in Paths
      BY <1>2, <2>1, <2>4, <3>1 DEF Required
    <3>3. s \in Inventory(pass)
      BY <1>3, <3>2
    <3> QED
      BY <1>1, <2>4, <3>3 DEF Accounted
  <2> QED
    BY <1>2, <2>1, <2>2, <2>3, <2>4
<1>7. /\ applied' \subseteq Tokens /\ concealed' \subseteq Tokens /\ leftBehind' \subseteq Tokens
      /\ faults' \in 0 .. MaxFaults
  BY <1>1, <1>4 DEF EngineInv, EngineTyped
<1> QED
  BY <1>1, <1>5, <1>6, <1>7, PassEnds DEF pass

LEMMA EndPassUnready_Inv ==
  ASSUME EngineInv, NEW i \in Passes, EndPassUnready(i)
  PROVE  EngineInv'
<1> DEFINE probe == passes[i].probe
           missed == {s \in 1 .. probe : feed[s] \in Paths} \ applied
<1>1. /\ passes[i] # NoPass /\ faults < MaxFaults /\ faults' = faults + 1
      /\ checkpoint' = probe /\ leftBehind' = leftBehind \cup missed
      /\ passes' = [passes EXCEPT ![i] = NoPass] /\ GoLive
      /\ UNCHANGED <<sequenceQueue, poolVars, feed, runs, applied, concealed,
                     localEvents, starts>>
  BY DEF EndPassUnready
<1>2. probe \in Nat /\ probe <= Len(feed)
  BY <1>1, EngineFacts DEF EngineInv, EngineTyped, PassInv, PassOK, Pass
<1>3. missed \subseteq Tokens
  BY <1>2, EngineFacts
<1>4. \A s \in Positions : s <= probe /\ feed[s] \in Paths => s \in applied \cup missed
  BY <1>2, EngineFacts
<1> HIDE DEF probe, missed
<1>5. Accounted' = Accounted \cup missed /\ applied \subseteq Accounted
  BY <1>1 DEF Accounted
<1>6. \A s \in Positions : s <= checkpoint' /\ Required(s) => s \in Accounted'
  BY <1>1, <1>4, <1>5 DEF Required
<1>7. /\ applied' \subseteq Tokens /\ concealed' \subseteq Tokens /\ leftBehind' \subseteq Tokens
  BY <1>1, <1>3 DEF EngineInv, EngineTyped
<1>8. faults' \in 0 .. MaxFaults
  BY <1>1, EngineAssumption DEF EngineInv, EngineTyped
<1> QED
  BY <1>1, <1>5, <1>6, <1>7, <1>8, PassEnds DEF probe

\* A new process starts from the row alone.
LEMMA FreshProcess_Inv ==
  ASSUME EngineInv, FreshProcess, phase' = "DOWN", faults' \in 0 .. MaxFaults,
         UNCHANGED <<checkpoint, feed, historyVars, localEvents, starts>>
  PROVE  EngineInv'
<1>1. /\ sequenceQueue' = <<>> /\ passes' = [i \in Passes |-> NoPass]
      /\ runs' = [p \in Paths |-> NoRun] /\ currentSeq' = 0
      /\ active' = [p \in Paths |-> NoHint] /\ dirty' = [p \in Paths |-> NoHint]
      /\ pendingQueue' = <<>> /\ isPaused' = FALSE /\ drainWaiters' = 0
  BY DEF FreshProcess
<1>2. Positions' = Positions /\ (\A t : Required(t)' <=> Required(t)) /\ Accounted' = Accounted
  BY SameFeed DEF Accounted, historyVars
<1>3. PoolInv'
  <2>1. PoolInit'
    BY <1>1 DEF PoolInit
  <2>2. PoolInit' => PoolInv'
    BY PoolInit_Inv, PTL
  <2> QED
    BY <2>1, <2>2
<1>4. /\ DOMAIN sequenceQueue' = {} /\ DOMAIN pendingQueue' = {}
      /\ Busy(active') = {} /\ Dirty' = {} /\ sequenceQueue' \in Seq(TrackedSequence)
  BY <1>1 DEF Busy, Dirty
<1>5. EngineTyped'
  <2>1. runs' \in [Paths -> Run] /\ passes' \in [Passes -> Pass \cup {NoPass}]
    BY <1>1 DEF NoRun, Run
  <2>2. phase' \in Phases /\ currentSeq' \in Nat
    BY <1>1 DEF Phases
  <2> QED
    BY <1>3, <1>4, <2>1, <2>2 DEF EngineInv, EngineTyped, PoolInv, historyVars
<1>6. WindowInv' /\ QuietInv'
  BY <1>1, <1>4 DEF WindowInv, QuietInv, Ascending, TokensOf, CompletedTokens
<1>7. FeedInv'
  BY <1>1, EngineFacts DEF EngineInv, FeedInv
<1>8. HintsInv' /\ RunsInv'
  BY <1>4 DEF HintsInv, RunsInv
<1>9. PassInv'
  BY <1>1 DEF PassInv
<1>10. CheckpointSound'
  BY <1>2 DEF EngineInv, CheckpointSound, SoundUpTo
<1>11. ReceivedIsTracked'
  <2>1. \A s \in Positions : ~(s <= 0)
    BY EngineFacts
  <2> QED
    BY <1>1, <1>2, <2>1 DEF ReceivedIsTracked
<1> QED
  BY <1>3, <1>5, <1>6, <1>7, <1>8, <1>9, <1>10, <1>11 DEF EngineInv

LEMMA PassThrows_Inv ==
  ASSUME EngineInv, NEW i \in Passes, PassThrows(i)
  PROVE  EngineInv'
<1>1. /\ passes[i] # NoPass /\ faults' = faults + 1 /\ faults < MaxFaults
      /\ UNCHANGED <<checkpoint, feed, historyVars, localEvents, starts>>
  BY DEF PassThrows
<1>2. faults' \in 0 .. MaxFaults
  BY <1>1, EngineAssumption DEF EngineInv, EngineTyped
<1>3. CASE phase = "CATCHING_UP"
  BY <1>1, <1>2, <1>3, FreshProcess_Inv DEF PassThrows
<1>4. CASE phase # "CATCHING_UP"
  <2>1. /\ passes' = [passes EXCEPT ![i] = NoPass]
        /\ UNCHANGED <<sequenceQueue, poolVars, phase, runs, currentSeq>>
    BY <1>4 DEF PassThrows
  <2>2. checkpoint' = checkpoint /\ GoLive
    BY <1>1, <1>4, <2>1 DEF GoLive
  <2>3. /\ Accounted' = Accounted
        /\ applied' = applied /\ concealed' = concealed /\ leftBehind' = leftBehind
    BY <1>1 DEF Accounted, historyVars
  <2>4. applied' \subseteq Tokens /\ concealed' \subseteq Tokens /\ leftBehind' \subseteq Tokens
    BY <2>3 DEF EngineInv, EngineTyped
  <2>5. \A s \in Positions : s <= checkpoint' /\ Required(s) => s \in Accounted'
    BY <2>2, <2>3 DEF EngineInv, CheckpointSound, SoundUpTo
  <2> QED
    BY <1>1, <1>2, <2>1, <2>2, <2>3, <2>4, <2>5, PassEnds
<1> QED
  BY <1>3, <1>4

LEMMA Start_Inv ==
  ASSUME EngineInv, Start
  PROVE  EngineInv'
<1>1. PICK i \in Passes : BeginPass(i)
  BY DEF Start
<1>2. /\ phase = "DOWN" /\ phase' = "CATCHING_UP" /\ starts < MaxStarts /\ starts' = starts + 1
      /\ UNCHANGED <<sequenceQueue, checkpoint, poolVars, feed, currentSeq, runs,
                     historyVars, localEvents, faults>>
  BY DEF Start
<1>3. Positions' = Positions /\ (\A t : Required(t)' <=> Required(t)) /\ Accounted' = Accounted
  BY <1>2, SameFeed DEF Accounted, historyVars
<1>4. PassInv' /\ passes' \in [Passes -> Pass \cup {NoPass}]
  BY <1>1, <1>2, <1>3, PassBegins
<1>5. PoolInv'
  BY <1>2, PoolNext_Inv DEF EngineInv
<1>6. starts' \in 0 .. MaxStarts /\ phase' \in Phases
  BY <1>2, EngineAssumption DEF EngineInv, EngineTyped, Phases
<1>7. EngineTyped'
  BY <1>2, <1>4, <1>5, <1>6 DEF EngineInv, EngineTyped, PoolInv, historyVars
<1>8. WindowInv' /\ FeedInv' /\ QuietInv' /\ HintsInv' /\ RunsInv'
  BY <1>2, <1>3 DEF EngineInv, WindowInv, FeedInv, QuietInv, HintsInv, RunsInv, poolVars, Busy, Dirty
<1>9. CheckpointSound' /\ ReceivedIsTracked'
  BY <1>2, <1>3 DEF EngineInv, CheckpointSound, SoundUpTo, ReceivedIsTracked
<1> QED
  BY <1>4, <1>5, <1>7, <1>8, <1>9 DEF EngineInv

\* What the pull before the start brought is applied, and the feed is read from the
\* position it saved.
LEMMA StartPulled_Inv ==
  ASSUME EngineInv, StartPulled
  PROVE  EngineInv'
<1>1. PICK probed \in 0 .. Len(feed) :
        /\ applied' = applied \cup {s \in 1 .. probed : feed[s] \in Paths}
        /\ checkpoint' = probed
  BY DEF StartPulled
<1>2. /\ phase = "DOWN" /\ phase' = "LIVE" /\ currentSeq' = checkpoint'
      /\ starts < MaxStarts /\ starts' = starts + 1
      /\ UNCHANGED <<sequenceQueue, poolVars, feed, passes, runs, concealed, leftBehind,
                     localEvents, faults>>
  BY DEF StartPulled
<1>3. /\ Len(feed) \in Nat /\ Positions \subseteq Tokens /\ probed \in Nat /\ probed <= Len(feed)
      /\ \A s \in Positions : s \in Nat /\ s >= 1
  BY EngineFacts
<1>4. Positions' = Positions /\ (\A t : Required(t)' <=> Required(t))
  BY <1>2, SameFeed
<1>5. 1 .. probed \subseteq Positions
  BY <1>3 DEF Positions
<1>6. Accounted \subseteq Accounted' /\ applied' \subseteq Tokens
  BY <1>1, <1>2, <1>3, <1>5 DEF Accounted, EngineInv, EngineTyped
<1>7. \A s \in Positions : s <= probed /\ Required(s) => s \in Accounted'
  BY <1>1, <1>3 DEF Required, Accounted
<1>8. PassInv'
  BY <1>2, <1>6, PassesKept
<1>9. PoolInv'
  BY <1>2, PoolNext_Inv DEF EngineInv
<1>10. starts' \in 0 .. MaxStarts /\ phase' \in Phases
  BY <1>2, EngineAssumption DEF EngineInv, EngineTyped, Phases
<1>11. EngineTyped'
  BY <1>1, <1>2, <1>3, <1>6, <1>9, <1>10 DEF EngineInv, EngineTyped, PoolInv
<1>12. sequenceQueue = <<>> /\ Busy(active) = {}
  BY <1>2 DEF EngineInv, QuietInv
<1>13. WindowInv' /\ QuietInv'
  BY <1>2, <1>12 DEF WindowInv, QuietInv, Ascending, TokensOf, CompletedTokens
<1>14. FeedInv' /\ HintsInv' /\ RunsInv'
  BY <1>1, <1>2, <1>3 DEF EngineInv, FeedInv, HintsInv, RunsInv, poolVars, Busy, Dirty
<1>15. CheckpointSound' /\ ReceivedIsTracked'
  BY <1>1, <1>2, <1>4, <1>7 DEF CheckpointSound, SoundUpTo, ReceivedIsTracked
<1> QED
  BY <1>8, <1>9, <1>11, <1>13, <1>14, <1>15 DEF EngineInv

LEMMA BeginStop_Inv ==
  ASSUME EngineInv, BeginStop
  PROVE  EngineInv'
<1>1. /\ phase' = "STOPPING"
      /\ UNCHANGED poolVars \/ Drain
      /\ UNCHANGED <<sequenceQueue, checkpoint, feed, currentSeq, passes, runs,
                     historyVars, localEvents, faults, starts>>
  BY DEF BeginStop
<1>2. UNCHANGED <<pendingQueue, active, dirty>>
  BY <1>1 DEF Drain, poolVars
<1>3. Positions' = Positions /\ (\A t : Required(t)' <=> Required(t)) /\ Accounted' = Accounted
  BY <1>1, SameFeed DEF Accounted, historyVars
<1>4. PoolInv'
  BY <1>1, PoolNext_Inv, Drain_Inv DEF EngineInv
<1>5. EngineTyped' /\ QuietInv'
  <2>1. phase' \in Phases /\ QuietInv'
    BY <1>1 DEF Phases, QuietInv
  <2> QED
    BY <1>1, <1>4, <2>1 DEF EngineInv, EngineTyped, PoolInv, historyVars
<1>6. PassInv'
  BY <1>1, <1>3, PassesKept
<1>7. WindowInv' /\ FeedInv' /\ HintsInv' /\ RunsInv'
  BY <1>1, <1>2, <1>3 DEF EngineInv, WindowInv, FeedInv, HintsInv, RunsInv, Busy, Dirty
<1>8. CheckpointSound' /\ ReceivedIsTracked'
  BY <1>1, <1>3 DEF EngineInv, CheckpointSound, SoundUpTo, ReceivedIsTracked
<1> QED
  BY <1>4, <1>5, <1>6, <1>7, <1>8 DEF EngineInv

LEMMA EndStop_Inv ==
  ASSUME EngineInv, EndStop
  PROVE  EngineInv'
<1>1. /\ phase' = "STOPPED"
      /\ UNCHANGED poolVars \/ (ClearBacklog /\ drainWaiters' = 0)
      /\ CommitFrom(sequenceQueue)
      /\ UNCHANGED <<feed, currentSeq, passes, runs, historyVars, localEvents, faults, starts>>
  BY DEF EndStop
<1>2. Positions' = Positions /\ (\A t : Required(t)' <=> Required(t)) /\ Accounted' = Accounted
  BY <1>1, SameFeed DEF Accounted, historyVars
<1>3. PoolInv'
  BY <1>1, PoolNext_Inv, Clear_Inv DEF EngineInv
<1>4. /\ sequenceQueue' \in Seq(TrackedSequence) /\ checkpoint' \in Nat
      /\ WindowInv' /\ FeedInv' /\ CheckpointSound' /\ ReceivedIsTracked'
  <2>1. /\ sequenceQueue \in Seq(TrackedSequence) /\ Ascending(sequenceQueue)
        /\ CompletedTokens(sequenceQueue) \subseteq Accounted'
    BY <1>2, EngineFacts DEF EngineInv, WindowInv
  <2> QED
    BY <1>1, <1>2, <2>1, ReportKeeps
<1>5. PassInv'
  BY <1>1, <1>2, PassesKept
<1>6. EngineTyped' /\ QuietInv'
  <2>1. phase' \in Phases /\ QuietInv'
    BY <1>1 DEF Phases, QuietInv
  <2>2. /\ feed' = feed /\ currentSeq' = currentSeq /\ passes' = passes /\ runs' = runs
        /\ applied' = applied /\ concealed' = concealed /\ leftBehind' = leftBehind
        /\ localEvents' = localEvents /\ faults' = faults /\ starts' = starts
    BY <1>1 DEF historyVars
  <2> QED
    BY <1>3, <1>4, <2>1, <2>2 DEF EngineInv, EngineTyped, PoolInv
<1>7. HintsInv' /\ RunsInv'
  <2>1. /\ active' = active /\ runs' = runs /\ feed' = feed
        /\ \/ pendingQueue' = pendingQueue /\ dirty' = dirty
           \/ DOMAIN pendingQueue' = {} /\ Dirty' = {}
    BY <1>1 DEF ClearBacklog, poolVars, Dirty
  <2> QED
    BY <2>1 DEF EngineInv, HintsInv, RunsInv, Busy, Dirty
<1> QED
  BY <1>3, <1>4, <1>5, <1>6, <1>7 DEF EngineInv

LEMMA Stutter_Inv ==
  ASSUME EngineInv, UNCHANGED engineVars
  PROVE  EngineInv'
<1>1. UNCHANGED <<sequenceQueue, checkpoint, poolVars, feed, phase, currentSeq, passes, runs,
                  historyVars, localEvents, faults, starts>>
  BY DEF engineVars
<1>2. Positions' = Positions /\ (\A t : Required(t)' <=> Required(t)) /\ Accounted' = Accounted
  BY <1>1, SameFeed DEF Accounted, historyVars
<1>3. PoolInv'
  BY <1>1, PoolNext_Inv DEF EngineInv
<1>4. EngineTyped'
  BY <1>1, <1>3 DEF EngineInv, EngineTyped, PoolInv, historyVars
<1>5. PassInv'
  BY <1>1, <1>2, PassesKept
<1>6. WindowInv' /\ FeedInv' /\ QuietInv' /\ HintsInv' /\ RunsInv'
  BY <1>1, <1>2 DEF EngineInv, WindowInv, FeedInv, QuietInv, HintsInv, RunsInv, poolVars, Busy, Dirty
<1>7. CheckpointSound' /\ ReceivedIsTracked'
  BY <1>1, <1>2 DEF EngineInv, CheckpointSound, SoundUpTo, ReceivedIsTracked
<1> QED
  BY <1>3, <1>4, <1>5, <1>6, <1>7 DEF EngineInv

-----------------------------------------------------------------------------
(* The theorems *)

LEMMA EngineInit_Inv == EngineInit => EngineInv
<1> SUFFICES ASSUME EngineInit PROVE EngineInv
  OBVIOUS
<1>1. /\ sequenceQueue = <<>> /\ checkpoint = 0 /\ PoolInit
      /\ feed = <<>> /\ phase = "DOWN" /\ currentSeq = 0
      /\ passes = [i \in Passes |-> NoPass] /\ runs = [p \in Paths |-> NoRun]
      /\ applied = {} /\ concealed = {} /\ leftBehind = {}
      /\ localEvents = 0 /\ faults = 0 /\ starts = 0
  BY DEF EngineInit
<1>2. PoolInv
  BY <1>1, PoolInit_Inv
<1>3. /\ DOMAIN sequenceQueue = {} /\ sequenceQueue \in Seq(TrackedSequence)
      /\ feed \in Seq(Paths \cup {Chunk}) /\ Len(feed) = 0 /\ Positions = {}
  BY <1>1 DEF Positions
<1>4. DOMAIN pendingQueue = {} /\ Busy(active) = {} /\ Dirty = {}
  BY <1>1 DEF PoolInit, Busy, Dirty
<1>5. EngineTyped
  <2>1. /\ localEvents \in 0 .. MaxLocal /\ faults \in 0 .. MaxFaults /\ starts \in 0 .. MaxStarts
        /\ Len(feed) <= MaxChanges
    BY <1>1, <1>3, EngineAssumption
  <2>2. runs \in [Paths -> Run] /\ passes \in [Passes -> Pass \cup {NoPass}]
    BY <1>1 DEF NoRun, Run
  <2> QED
    BY <1>1, <1>2, <1>3, <2>1, <2>2 DEF EngineTyped, Phases, PoolInv
<1>6. WindowInv /\ FeedInv /\ QuietInv
  BY <1>1, <1>3, <1>4 DEF WindowInv, FeedInv, QuietInv, Ascending, TokensOf, CompletedTokens
<1>7. HintsInv /\ RunsInv /\ PassInv
  BY <1>1, <1>4 DEF HintsInv, RunsInv, PassInv
<1>8. CheckpointSound /\ ReceivedIsTracked
  BY <1>3 DEF CheckpointSound, SoundUpTo, ReceivedIsTracked
<1> QED
  BY <1>2, <1>5, <1>6, <1>7, <1>8 DEF EngineInv

LEMMA EngineNext_Inv == EngineInv /\ [EngineNext]_engineVars => EngineInv'
<1> SUFFICES ASSUME EngineInv, [EngineNext]_engineVars PROVE EngineInv'
  OBVIOUS
<1>1. ASSUME NEW d \in Paths \cup {Chunk}, RemoteChange(d) PROVE EngineInv'
  BY <1>1, RemoteChange_Inv
<1>2. ASSUME NEW s \in Tokens, ReceiveRow(s) PROVE EngineInv'
  BY <1>2, ReceiveRow_Inv
<1>3. ASSUME NEW p \in Paths, LocalEvent(p) PROVE EngineInv'
  BY <1>3, LocalEvent_Inv
<1>4. ASSUME NEW p \in Paths, ReconcileSucceeds(p) \/ ReconcileConceals(p) PROVE EngineInv'
  BY <1>4, ReconcileSucceeds_Inv
<1>5. ASSUME NEW p \in Paths, ReconcileFails(p) \/ ReconcileThrows(p) PROVE EngineInv'
  BY <1>5, ReconcileFails_Inv
<1>6. ASSUME NEW i \in Passes, PeriodicPass(i) PROVE EngineInv'
  BY <1>6, PeriodicPass_Inv
<1>7. ASSUME NEW i \in Passes, EndPass(i) PROVE EngineInv'
  BY <1>7, EndPass_Inv
<1>8. ASSUME NEW i \in Passes, EndPassUnready(i) PROVE EngineInv'
  BY <1>8, EndPassUnready_Inv
<1>9. ASSUME NEW i \in Passes, PassThrows(i) PROVE EngineInv'
  BY <1>9, PassThrows_Inv
<1>10. CASE Start \/ StartPulled
  BY <1>10, Start_Inv, StartPulled_Inv
<1>11. CASE BeginStop
  BY <1>11, BeginStop_Inv
<1>12. CASE EndStop
  BY <1>12, EndStop_Inv
<1>13. ASSUME Exit PROVE EngineInv'
  <2>1. /\ FreshProcess /\ phase' = "DOWN" /\ faults' = faults
        /\ UNCHANGED <<checkpoint, feed, historyVars, localEvents, starts>>
    BY <1>13 DEF Exit
  <2>2. faults' \in 0 .. MaxFaults
    BY <2>1 DEF EngineInv, EngineTyped
  <2> QED
    BY <2>1, <2>2, FreshProcess_Inv
<1>14. CASE UNCHANGED engineVars
  BY <1>14, Stutter_Inv
<1> QED
  BY <1>1, <1>2, <1>3, <1>4, <1>5, <1>6, <1>7, <1>8, <1>9, <1>10, <1>11, <1>12, <1>13, <1>14
  DEF EngineNext

\* The strengthened invariant holds in every reachable state.
THEOREM EngineInvariant == EngineSpec => []EngineInv
<1>1. EngineInit => EngineInv
  BY EngineInit_Inv
<1>2. EngineInv /\ [EngineNext]_engineVars => EngineInv'
  BY EngineNext_Inv
<1> QED
  BY <1>1, <1>2, PTL DEF EngineSpec

\* Every part of the daemon holds values of its type, the row and the consumer lie
\* within the feed, hints are about the documents their tokens changed, and no run
\* is older than the change of its hint (continuous-engine.ts:418-432,
\* checkpoint-window.ts:12-13, file-worker-pool.ts:19-23).
THEOREM EngineTypeCorrect == EngineSpec => []EngineTypeOK
<1>1. EngineInv => EngineTypeOK
  BY DEF EngineInv, EngineTypeOK, WindowInv
<1> QED
  BY <1>1, EngineInvariant, PTL

\* The saved checkpoint never moves past a change that is neither applied nor
\* let go by one of the named flaws, for any feed, any number of files,
\* workers and passes, and any failures, stops and crashes
\* (continuous-engine.ts:302-409, 464-494).
THEOREM CheckpointIsSound == EngineSpec => []CheckpointSound
<1>1. EngineInv => CheckpointSound
  BY DEF EngineInv
<1> QED
  BY <1>1, EngineInvariant, PTL

\* Every change the consumer has received is accounted for or tracked
\* (continuous-engine.ts:418-432).
THEOREM ReceivedStaysTracked == EngineSpec => []ReceivedIsTracked
<1>1. EngineInv => ReceivedIsTracked
  BY DEF EngineInv
<1> QED
  BY <1>1, EngineInvariant, PTL

-----------------------------------------------------------------------------
(* Rows become requests *)

\* enqueue() of a hint it does not refuse leaves the hint owed, or starts it.
LEMMA EnqueueOwes ==
  ASSUME PoolInv, NEW h \in Hint, EnqueueAccepted(h)
  PROVE  h.path \in Owed' \/ (active[h.path] = NoHint /\ active'[h.path] # NoHint)
<1>1. /\ h.path \in Paths /\ h # NoHint /\ isPaused \in BOOLEAN
      /\ dirty \in [Paths -> Hint \cup {NoHint}]
  BY PoolAssumption DEF Hint, PoolInv, PoolTypeOK
<1>2. CASE active[h.path] # NoHint
  <2>1. dirty' = [dirty EXCEPT ![h.path] = h]
    BY <1>2 DEF EnqueueAccepted
  <2>2. dirty'[h.path] # NoHint
    BY <1>1, <2>1
  <2> QED
    BY <1>1, <2>2 DEF Owed, Dirty
<1>3. CASE active[h.path] = NoHint
  <2> DEFINE q == WithHint(pendingQueue, h)
  <2>1. Pump(q, active, isPaused)
    BY <1>3 DEF EnqueueAccepted
  <2>2. h.path \notin Busy(active)
    BY <1>3 DEF Busy
  <2>3. /\ Sane(q, active) /\ SlotsKept(active)
        /\ PathsOf(q) = PathsOf(pendingQueue) \cup {h.path}
    BY <2>2, InvIsSane, WithHintSane
  <2> HIDE DEF q
  <2>4. PathsOf(pendingQueue') \cup Busy(active') = PathsOf(q) \cup Busy(active)
    BY <1>1, <2>1, <2>3, PumpKeeps
  <2>5. h.path \in PathsOf(pendingQueue') \/ h.path \in Busy(active')
    BY <2>3, <2>4
  <2> QED
    BY <1>3, <2>5 DEF Owed, Busy
<1> QED
  BY <1>2, <1>3

\* Only a row received raises the position of a live consumer: passes that end
\* leave it alone, and a new process starts it at 0.
LEMMA OnlyRowsAdvance ==
  ASSUME EngineInv, [EngineNext]_engineVars, currentSeq' > currentSeq, phase = "LIVE"
  PROVE  \E s \in Tokens : ReceiveRow(s)
<1>1. currentSeq \in Nat
  BY EngineFacts
<1>2. currentSeq' # currentSeq /\ currentSeq' # 0
  BY <1>1
<1>3. ~GoLive \/ currentSeq' = currentSeq
  BY DEF GoLive
<1>4. ~FreshProcess
  BY <1>2 DEF FreshProcess
<1>5. ASSUME NEW i \in Passes, EndPass(i) \/ EndPassUnready(i) PROVE FALSE
  BY <1>2, <1>3, <1>5 DEF EndPass, EndPassUnready
<1>6. ASSUME NEW i \in Passes, PassThrows(i) \/ PeriodicPass(i) PROVE FALSE
  BY <1>2, <1>6 DEF PassThrows, PeriodicPass
<1>7. ASSUME NEW p \in Paths, \/ ReconcileSucceeds(p) \/ ReconcileConceals(p)
                               \/ ReconcileFails(p) \/ ReconcileThrows(p)
      PROVE  FALSE
  BY <1>2, <1>7 DEF ReconcileSucceeds, ReconcileConceals, ReconcileFails, ReconcileThrows
<1>8. ASSUME NEW p \in Paths, LocalEvent(p) PROVE FALSE
  BY <1>2, <1>8 DEF LocalEvent
<1>9. ASSUME NEW d \in Paths \cup {Chunk}, RemoteChange(d) PROVE FALSE
  BY <1>2, <1>9 DEF RemoteChange
<1>10. CASE Start \/ StartPulled \/ BeginStop \/ EndStop \/ Exit
  BY <1>2, <1>4, <1>10 DEF Start, StartPulled, BeginStop, EndStop, Exit
<1>11. CASE UNCHANGED engineVars
  BY <1>2, <1>11 DEF engineVars
<1> QED
  BY <1>5, <1>6, <1>7, <1>8, <1>9, <1>10, <1>11 DEF EngineNext

\* A row taken in while there is room leads to a run that starts after it, in
\* whatever state its file, the queue and the passes are
\* (continuous-engine.ts:418-432, file-worker-pool.ts:34-57).
THEOREM RowsBecomeRequestsHolds == EngineSpec => RowsBecomeRequests
<1> DEFINE Served == currentSeq' > currentSeq /\ phase = "LIVE" /\ ~QueueFull =>
             \A p \in Paths : feed[currentSeq'] = p =>
               p \in Owed' \/ (active[p] = NoHint /\ active'[p] # NoHint)
<1>1. EngineInv /\ [EngineNext]_engineVars => Served
  <2> SUFFICES ASSUME EngineInv, [EngineNext]_engineVars,
                      currentSeq' > currentSeq, phase = "LIVE", ~QueueFull,
                      NEW p \in Paths, feed[currentSeq'] = p
               PROVE  p \in Owed' \/ (active[p] = NoHint /\ active'[p] # NoHint)
    OBVIOUS
  <2>1. PICK s \in Tokens : ReceiveRow(s)
    BY OnlyRowsAdvance
  <2>2. currentSeq' = s /\ feed[s] = p /\ feed[s] # Chunk
    BY <2>1, EngineAssumption DEF ReceiveRow
  <2> DEFINE h == [path |-> p, remoteSeq |-> s]
  <2>3. Submit(h)
    BY <2>1, <2>2 DEF ReceiveRow
  <2>4. h \in Hint /\ h.path = p
    BY EngineAssumption DEF Hint
  <2> HIDE DEF h
  <2>5. EnqueueAccepted(h)
    BY <2>3 DEF Submit
  <2> QED
    BY <2>4, <2>5, EnqueueOwes DEF EngineInv
<1>2. EngineInv /\ [EngineNext]_engineVars => [Served]_engineVars
  BY <1>1
<1> QED
  BY <1>2, EngineInvariant, PTL DEF EngineSpec, RowsBecomeRequests

-----------------------------------------------------------------------------
(* The pool within the daemon *)

\* The daemon changes its pool by the pool's operations only, or leaves it behind
\* with the process; the end of stop() clears it as the operation does.
LEMMA EngineUsesPool ==
  ASSUME EngineInv, [EngineNext]_engineVars
  PROVE  [PoolNext]_poolVars \/ FreshProcess \/ ClearBacklog
<1>1. ASSUME NEW h \in Hint, Submit(h) PROVE PoolNext
  BY <1>1 DEF Submit, PoolNext, Enqueue
<1>2. ASSUME NEW s \in Tokens, ReceiveRow(s) PROVE [PoolNext]_poolVars
  <2>1. CASE feed[s] = Chunk
    BY <1>2, <2>1 DEF ReceiveRow
  <2>2. CASE feed[s] # Chunk
    <3>1. feed \in Seq(Paths \cup {Chunk}) /\ s \in 1 .. Len(feed)
      BY <1>2, EngineFacts DEF ReceiveRow, Positions
    <3>2. feed[s] \in Paths
      BY <2>2, <3>1
    <3>3. [path |-> feed[s], remoteSeq |-> s] \in Hint
      BY <3>2, EngineAssumption DEF Hint
    <3> QED
      BY <1>1, <1>2, <2>2, <3>3 DEF ReceiveRow
  <2> QED
    BY <2>1, <2>2
<1>3. ASSUME NEW p \in Paths, LocalEvent(p) PROVE PoolNext
  <2>1. [path |-> p, remoteSeq |-> 0] \in Hint
    BY EngineAssumption DEF Hint
  <2> QED
    BY <1>1, <1>3, <2>1 DEF LocalEvent
<1>4. ASSUME NEW p \in Paths, \/ ReconcileSucceeds(p) \/ ReconcileConceals(p)
                               \/ ReconcileFails(p) \/ ReconcileThrows(p)
      PROVE  PoolNext
  BY <1>4 DEF ReconcileSucceeds, ReconcileConceals, ReconcileFails, ReconcileThrows,
              WorkerReturns, PoolNext, WorkerEnds
<1>5. ASSUME NEW i \in Passes,
             PeriodicPass(i) \/ EndPass(i) \/ EndPassUnready(i) \/ PassThrows(i)
      PROVE  UNCHANGED poolVars \/ FreshProcess
  BY <1>5 DEF PeriodicPass, EndPass, EndPassUnready, PassThrows
<1>6. ASSUME NEW d \in Paths \cup {Chunk}, RemoteChange(d) PROVE UNCHANGED poolVars
  BY <1>6 DEF RemoteChange
<1>7. CASE Start \/ StartPulled \/ BeginStop \/ EndStop \/ Exit
  BY <1>7 DEF Start, StartPulled, BeginStop, EndStop, Exit, PoolNext
<1>8. CASE UNCHANGED engineVars
  BY <1>8 DEF engineVars, poolVars
<1> QED
  BY <1>2, <1>3, <1>4, <1>5, <1>6, <1>7, <1>8 DEF EngineNext

\* As long as a process lives its pool is the abstract serial executor, driven by
\* feed rows, file events, overflows and stop() in any order: a request is lost
\* by a start of its file, by clear() or with the process, and not by coalescing,
\* a run that fails, or a pass (continuous-engine.ts:302-432, file-worker-pool.ts:34-148).
THEOREM EnginePoolServesLikeExecutor ==
  EngineSpec => [][FreshProcess \/ Executor!ExecNext]_(Executor!execVars)
<1>1. EngineInv /\ [EngineNext]_engineVars
        => [FreshProcess \/ Executor!ExecNext]_(Executor!execVars)
  <2> SUFFICES ASSUME EngineInv, [EngineNext]_engineVars
               PROVE  [FreshProcess \/ Executor!ExecNext]_(Executor!execVars)
    OBVIOUS
  <2>1. CASE [PoolNext]_poolVars
    BY <2>1, PoolNext_Executor DEF EngineInv
  <2>2. CASE ClearBacklog
    <3>1. DOMAIN pendingQueue' = {} /\ Dirty' = {} /\ active' = active
      BY <2>2 DEF ClearBacklog, Dirty
    <3> QED
      BY <3>1 DEF Executor!ExecNext, Executor!Discard, Owed, PathsOf
  <2> QED
    BY <2>1, <2>2, EngineUsesPool
<1> QED
  BY <1>1, EngineInvariant, PTL DEF EngineSpec

\* Within the daemon, over overflows, stops, crashes and restarts, the pool works on a
\* path with one worker, keeps its limits, leaves no slot idle while a hint waits, and
\* a stop() that waits for it to drain is woken (file-worker-pool.ts:34-118).
THEOREM EnginePoolIsSound ==
  EngineSpec => [](PendingApart /\ Bounded /\ WorkConserving /\ DrainWillWake)
<1>1. PoolInv => PendingApart /\ Bounded /\ WorkConserving /\ DrainWillWake
  BY DrainWakes DEF PoolInv
<1>2. EngineInv => PoolInv
  BY DEF EngineInv
<1> QED
  BY <1>1, <1>2, EngineInvariant, PTL
=============================================================================
