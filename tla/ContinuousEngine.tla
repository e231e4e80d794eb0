-------------------------- MODULE ContinuousEngine --------------------------
(***************************************************************************)
(* The daemon's event loop (src/src/daemon/continuous-engine.ts): rows of  *)
(* the remote change feed and local file events become hints for the       *)
(* worker pool, workers report on the checkpoint window, catch-up passes   *)
(* (at startup, periodic, after an overflow) overwrite the checkpoint, and *)
(* the process stops, dies and starts again from the checkpoint row.       *)
(*                                                                         *)
(* The feed is CouchDB's: position n is the n-th change of the database.   *)
(* What one reconciliation or one pass does to files and documents is      *)
(* abstracted to the set of changes whose latest remote state it brought   *)
(* into the vault.                                                         *)
(***************************************************************************)
EXTENDS CheckpointWindow, FileWorkerPool

CONSTANTS
  Chunk,         \* the document of a row that the consumer filters out
  Undecodable,   \* notes whose document cannot be decoded (a chunk is missing)
  Conflicted,    \* notes for which the planner finds a conflict
  Unplanned,     \* notes the planner has no case for: the file exists without provenance
  Kept,          \* notes whose file a worker may keep although it reports success
  ReadOnly,      \* no write capability: passes are pull-only and incremental
  Passes,        \* slots for catch-up passes in progress
  NoPass,        \* an empty slot
  MaxChanges,    \* bound on the length of the feed
  MaxLocal,      \* bound on local file events
  MaxFaults,     \* bound on failed and thrown reconciliations and passes
  MaxStarts      \* bound on starts of the process

ASSUME EngineAssumption ==
  /\ MaxChanges \in Nat /\ MaxLocal \in Nat /\ MaxFaults \in Nat /\ MaxStarts \in Nat
  /\ Tokens = 1 .. MaxChanges
  /\ RemoteSeqs = Tokens \cup {0}
  /\ Chunk \notin Paths
  /\ Undecodable \subseteq Paths /\ Conflicted \subseteq Paths
  /\ Unplanned \subseteq Paths /\ Kept \subseteq Paths
  /\ ReadOnly \in BOOLEAN
  /\ NoPass \notin [incremental : BOOLEAN, since : Nat, probe : Nat, seen : Nat]

VARIABLES
  feed,         \* the document of every change of the remote database
  phase,        \* the daemon's state, DOWN when there is no process
  currentSeq,   \* ChangesConsumer: the row received last
  passes,       \* the catch-up passes in progress
  runs,         \* what the run of each busy path started from
  applied,      \* history: changes whose remote state was brought into the vault
  concealed,    \* history: changes a worker reported as done without bringing them
  leftBehind,   \* history: changes a pass did not apply and checkpointed all the same
  localEvents, faults, starts   \* counters of the bounds above

historyVars == <<applied, concealed, leftBehind>>
engineVars == <<sequenceQueue, checkpoint, poolVars, feed, phase, currentSeq,
                passes, runs, historyVars, localEvents, faults, starts>>

Phases == {"DOWN", "CATCHING_UP", "LIVE", "STOPPING", "STOPPED"}
Run == [seen : Nat, permitted : BOOLEAN]
NoRun == [seen |-> 0, permitted |-> FALSE]
Pass == [incremental : BOOLEAN, since : Nat, probe : Nat, seen : Nat]

Positions == 1 .. Len(feed)

\* CouchDB lists a document at its latest change only; every chunk document
\* is written once.
Listed(s) == feed[s] = Chunk \/ \A t \in Positions : t > s => feed[t] # feed[s]

\* The changes a vault must hold to be up to date with the remote.
Required(s) == feed[s] \in Paths /\ Listed(s)

EngineInit ==
  /\ sequenceQueue = <<>> /\ checkpoint = 0
  /\ PoolInit
  /\ feed = <<>> /\ phase = "DOWN" /\ currentSeq = 0
  /\ passes = [i \in Passes |-> NoPass]
  /\ runs = [p \in Paths |-> NoRun]
  /\ applied = {} /\ concealed = {} /\ leftBehind = {}
  /\ localEvents = 0 /\ faults = 0 /\ starts = 0

\* Another client changes a note or uploads a chunk.
RemoteChange(d) ==
  /\ Len(feed) < MaxChanges
  /\ feed' = Append(feed, d)
  /\ UNCHANGED <<sequenceQueue, checkpoint, poolVars, phase, currentSeq,
                 passes, runs, historyVars, localEvents, faults, starts>>

-----------------------------------------------------------------------------
(* Intake *)

\* A run that starts reads the remote document as it is from then on, and is
\* refused in a phase that permits no reads (FileReconciler.reconcile).
RecordStarts(ending) ==
  runs' = [p \in Paths |->
    IF active'[p] = NoHint THEN NoRun
    ELSE IF active[p] = NoHint \/ p \in ending
         THEN [seen |-> Len(feed), permitted |-> phase = "LIVE"]
         ELSE runs[p]]

\* Mutant of BeginPass: every pass is incremental, whatever the mode.
BeginPassIncremental(i) ==
  /\ passes[i] = NoPass
  /\ \E probe \in {0, Len(feed)} :
       passes' = [passes EXCEPT ![i] =
         [incremental |-> TRUE, since |-> checkpoint, probe |-> probe, seen |-> Len(feed)]]

\* Mutant of BeginPass: an incremental pass starts at the consumer's position.
BeginPassFromConsumer(i) ==
  /\ passes[i] = NoPass
  /\ \E inc \in (IF ReadOnly THEN BOOLEAN ELSE {FALSE}), probe \in {0, Len(feed)} :
       passes' = [passes EXCEPT ![i] =
         [incremental |-> inc, since |-> IF inc THEN currentSeq ELSE 0,
          probe |-> probe, seen |-> Len(feed)]]

\* The first half of executeCatchUpPass: the probe of update_seq, ignored when
\* it fails, and the remote inventory, from the checkpoint when the pass is
\* incremental and from the start when it is not.
BeginPass(i) ==
  /\ passes[i] = NoPass
  /\ \E inc \in (IF ReadOnly THEN BOOLEAN ELSE {FALSE}), probe \in {0, Len(feed)} :
       passes' = [passes EXCEPT ![i] =
         [incremental |-> inc, since |-> IF inc THEN checkpoint ELSE 0,
          probe |-> probe, seen |-> Len(feed)]]

\* workerPool.enqueue with onQueueOverflow: a full queue drops the hint and
\* the backlog and starts a pass.
Submit(h) ==
  /\ \/ EnqueueAccepted(h) /\ UNCHANGED passes
     \/ QueueFull /\ Clear /\ \E i \in Passes : BeginPass(i)
  /\ RecordStarts({})

\* Mutant of ReceiveRow: the token is tracked only when its hint is queued.
ReceiveRowTrackingAccepted(s) ==
  /\ phase = "LIVE"
  /\ s \in Positions /\ s > currentSeq /\ Listed(s)
  /\ \A t \in Positions : currentSeq < t /\ t < s => ~Listed(t)
  /\ currentSeq' = s
  /\ IF feed[s] = Chunk
     THEN UNCHANGED <<sequenceQueue, poolVars, passes, runs>>
     ELSE /\ sequenceQueue' = IF QueueFull THEN sequenceQueue ELSE Tracked(sequenceQueue, s)
          /\ Submit([path |-> feed[s], remoteSeq |-> s])
  /\ UNCHANGED <<checkpoint, feed, phase, historyVars, localEvents, faults, starts>>

\* ChangesConsumer passes on the next row; onRemoteChange tracks its token
\* and queues its hint.  A lost connection only delays this: the feed is
\* reopened at currentSeq.
ReceiveRow(s) ==
  /\ phase = "LIVE"
  /\ s \in Positions /\ s > currentSeq /\ Listed(s)
  /\ \A t \in Positions : currentSeq < t /\ t < s => ~Listed(t)
  /\ currentSeq' = s
  /\ IF feed[s] = Chunk
     THEN UNCHANGED <<sequenceQueue, poolVars, passes, runs>>
     ELSE /\ sequenceQueue' = Tracked(sequenceQueue, s)
          /\ Submit([path |-> feed[s], remoteSeq |-> s])
  /\ UNCHANGED <<checkpoint, feed, phase, historyVars, localEvents, faults, starts>>

\* onFsInvalidation.
LocalEvent(p) ==
  /\ phase = "LIVE" /\ localEvents < MaxLocal
  /\ localEvents' = localEvents + 1
  /\ Submit([path |-> p, remoteSeq |-> 0])
  /\ UNCHANGED <<sequenceQueue, checkpoint, feed, phase, currentSeq, historyVars, faults, starts>>

-----------------------------------------------------------------------------
(* Ends of a reconciliation: processInvalidationHint, then the pool *)

\* The run returned, whatever its result: the pool looks for a dirty hint.
WorkerReturns(p) == WorkerReruns(p) \/ WorkerReleases(p)

\* Mutant of ReportFailed: the token of a failed reconciliation counts as done.
ReportFailedAsDone(seq) == CommitFrom(Marked(sequenceQueue, seq, "completed"))

\* markFailed(): the row is not touched.
ReportFailed(seq) ==
  /\ sequenceQueue' = Marked(sequenceQueue, seq, "failed")
  /\ UNCHANGED checkpoint

\* markCompleted() and commitContiguousCheckpoints(), for a hint with a token.
ReportDone(seq) ==
  IF seq = 0 THEN UNCHANGED <<sequenceQueue, checkpoint>>
  ELSE CommitFrom(Marked(sequenceQueue, seq, "completed"))

\* The changes of the note that its run could see.
SeenBy(p) == {s \in 1 .. runs[p].seen : feed[s] = p}

\* reconcile() returned success with file and note in agreement.
ReconcileSucceeds(p) ==
  /\ active[p] # NoHint /\ runs[p].permitted /\ p \notin Undecodable
  /\ ReportDone(active[p].remoteSeq)
  /\ applied' = applied \cup SeenBy(p)
  /\ WorkerReturns(p)
  /\ RecordStarts({p})
  /\ UNCHANGED <<feed, phase, currentSeq, passes, concealed, leftBehind, localEvents, faults,
                 starts>>

\* reconcile() returned success and brought nothing: a document that does not
\* decode counts as none; a conflict keeps the file when the remote has no bytes
\* or an installation fails; without write permission a push over a deleted note
\* is omitted; and a deletion under an encrypted path finds no file.
ReconcileConceals(p) ==
  /\ active[p] # NoHint /\ runs[p].permitted /\ p \in Undecodable \cup Kept
  /\ ReportDone(active[p].remoteSeq)
  /\ concealed' = concealed \cup (SeenBy(p) \cap {active[p].remoteSeq})
  /\ WorkerReturns(p)
  /\ RecordStarts({p})
  /\ UNCHANGED <<feed, phase, currentSeq, passes, applied, leftBehind, localEvents, faults, starts>>

\* reconcile() returned a failure, as it does at once in a phase that permits
\* no reads.
ReconcileFails(p) ==
  /\ active[p] # NoHint
  /\ faults' = IF runs[p].permitted THEN faults + 1 ELSE faults
  /\ faults' <= MaxFaults
  /\ ReportFailed(active[p].remoteSeq)
  /\ WorkerReturns(p)
  /\ RecordStarts({p})
  /\ UNCHANGED <<feed, phase, currentSeq, passes, historyVars, localEvents, starts>>

\* reconcile() threw: the remote read failed.
ReconcileThrows(p) ==
  /\ active[p] # NoHint /\ runs[p].permitted /\ faults < MaxFaults
  /\ faults' = faults + 1
  /\ ReportFailed(active[p].remoteSeq)
  /\ WorkerThrows(p)
  /\ RecordStarts({p})
  /\ UNCHANGED <<feed, phase, currentSeq, passes, historyVars, localEvents, starts>>

-----------------------------------------------------------------------------
(* Catch-up passes *)

\* triggerPeriodicScan() from the timer; passes may overlap.
PeriodicPass(i) ==
  /\ phase = "LIVE"
  /\ BeginPass(i)
  /\ UNCHANGED <<sequenceQueue, checkpoint, poolVars, feed, phase, currentSeq,
                 runs, historyVars, localEvents, faults, starts>>

\* Mutant of GoLive: the consumer starts at the present end of the feed.
GoLiveFromNow ==
  IF phase = "CATCHING_UP"
  THEN phase' = "LIVE" /\ currentSeq' = Len(feed)
  ELSE UNCHANGED <<phase, currentSeq>>

\* After the startup pass the feed is read from the row (setSince); a later
\* pass leaves the consumer alone.
GoLive ==
  IF phase = "CATCHING_UP"
  THEN phase' = "LIVE" /\ currentSeq' = checkpoint'
  ELSE UNCHANGED <<phase, currentSeq>>

Inventory(pass) == {s \in pass.since + 1 .. pass.seen : feed[s] \in Paths}
Blocked(pass) == {s \in Inventory(pass) : feed[s] \in Undecodable}
Skipped(pass) == {s \in Inventory(pass) : feed[s] \in Unplanned}
SeesConflict(pass) == \E s \in Inventory(pass) \ Blocked(pass) : feed[s] \in Conflicted

\* An incremental pass keeps the last_seq it consumed unless it met a document
\* it could not decode.
KeepsLastSeq(pass) == pass.incremental /\ Blocked(pass) = {}

\* The second half of executeCatchUpPass.  A conflict stops the pass before it
\* applies anything.  An incremental pass that kept its last_seq saves it when
\* it applied its plan; every other pass ends in saveProbeCheckpoint, whatever
\* its result.
EndPass(i) ==
  /\ passes[i] # NoPass
  /\ LET pass == passes[i]
         done == IF SeesConflict(pass) THEN {}
                 ELSE Inventory(pass) \ (Blocked(pass) \cup Skipped(pass))
     IN
       /\ applied' = applied \cup done
       /\ IF KeepsLastSeq(pass) /\ SeesConflict(pass)
          THEN UNCHANGED <<checkpoint, leftBehind>>
          ELSE /\ checkpoint' = IF KeepsLastSeq(pass) THEN pass.seen ELSE pass.probe
               /\ leftBehind' = leftBehind \cup
                    {s \in Inventory(pass) \ applied' : s <= checkpoint'}
  /\ passes' = [passes EXCEPT ![i] = NoPass]
  /\ GoLive
  /\ UNCHANGED <<sequenceQueue, poolVars, feed, runs, concealed, localEvents, faults, starts>>

\* The vault preflight of the pass fails: nothing is read or applied, and the
\* result is not an error.
EndPassUnready(i) ==
  /\ passes[i] # NoPass /\ faults < MaxFaults
  /\ faults' = faults + 1
  /\ checkpoint' = passes[i].probe
  /\ leftBehind' = leftBehind \cup ({s \in 1 .. passes[i].probe : feed[s] \in Paths} \ applied)
  /\ passes' = [passes EXCEPT ![i] = NoPass]
  /\ GoLive
  /\ UNCHANGED <<sequenceQueue, poolVars, feed, runs, applied, concealed, localEvents, starts>>

-----------------------------------------------------------------------------
(* Lifecycle *)

\* A process has nothing but the row; its parts are as constructed.
FreshProcess ==
  /\ sequenceQueue' = <<>>
  /\ pendingQueue' = <<>>
  /\ active' = [p \in Paths |-> NoHint]
  /\ dirty' = [p \in Paths |-> NoHint]
  /\ isPaused' = FALSE /\ drainWaiters' = 0
  /\ passes' = [i \in Passes |-> NoPass]
  /\ runs' = [p \in Paths |-> NoRun]
  /\ currentSeq' = 0

\* start(): preflight and the beginning of the startup pass.
Start ==
  /\ phase = "DOWN" /\ starts < MaxStarts
  /\ starts' = starts + 1
  /\ phase' = "CATCHING_UP"
  /\ \E i \in Passes : BeginPass(i)
  /\ UNCHANGED <<sequenceQueue, checkpoint, poolVars, feed, currentSeq, runs,
                 historyVars, localEvents, faults>>

\* start() of a daemon whose automatic start has just pulled everything up to the
\* position it saved (AutoArm): the startup pass is skipped.
StartPulled ==
  /\ phase = "DOWN" /\ starts < MaxStarts
  /\ starts' = starts + 1
  /\ \E probed \in 0 .. Len(feed) :
       /\ \A s \in 1 .. probed : feed[s] \notin Undecodable
       /\ applied' = applied \cup {s \in 1 .. probed : feed[s] \in Paths}
       /\ checkpoint' = probed
  /\ phase' = "LIVE" /\ currentSeq' = checkpoint'
  /\ UNCHANGED <<sequenceQueue, poolVars, feed, passes, runs, concealed, leftBehind,
                 localEvents, faults>>

\* The pass throws.  start() rejects and the process ends; a later pass is
\* only reported.
PassThrows(i) ==
  /\ passes[i] # NoPass /\ faults < MaxFaults
  /\ faults' = faults + 1
  /\ IF phase = "CATCHING_UP"
     THEN phase' = "DOWN" /\ FreshProcess
     ELSE /\ passes' = [passes EXCEPT ![i] = NoPass]
          /\ UNCHANGED <<sequenceQueue, poolVars, phase, runs, currentSeq>>
  /\ UNCHANGED <<checkpoint, feed, historyVars, localEvents, starts>>

\* stop(), also during the startup pass: intake closes and the pool drains.
BeginStop ==
  /\ phase \in {"CATCHING_UP", "LIVE"}
  /\ phase' = "STOPPING"
  /\ IF Idle THEN UNCHANGED poolVars ELSE Drain
  /\ UNCHANGED <<sequenceQueue, checkpoint, feed, currentSeq, passes, runs,
                 historyVars, localEvents, faults, starts>>

\* The pool has drained, or the drain timed out and the backlog is cleared;
\* the last commit follows, runs in progress notwithstanding.
EndStop ==
  /\ phase = "STOPPING"
  /\ phase' = "STOPPED"
  /\ IF drainWaiters = 0 THEN UNCHANGED poolVars
     ELSE ClearBacklog /\ drainWaiters' = 0
  /\ CommitFrom(sequenceQueue)
  /\ UNCHANGED <<feed, currentSeq, passes, runs, historyVars, localEvents, faults, starts>>

\* The process exits after stop(), or dies at any other moment.
Exit ==
  /\ phase # "DOWN"
  /\ phase' = "DOWN"
  /\ FreshProcess
  /\ UNCHANGED <<checkpoint, feed, historyVars, localEvents, faults, starts>>

EngineNext ==
  \/ \E d \in Paths \cup {Chunk} : RemoteChange(d)
  \/ \E s \in Tokens : ReceiveRow(s)
  \/ \E p \in Paths : \/ LocalEvent(p)
                      \/ ReconcileSucceeds(p)
                      \/ ReconcileConceals(p)
                      \/ ReconcileFails(p)
                      \/ ReconcileThrows(p)
  \/ \E i \in Passes : \/ PeriodicPass(i)
                       \/ EndPass(i)
                       \/ EndPassUnready(i)
                       \/ PassThrows(i)
  \/ Start \/ StartPulled \/ BeginStop \/ EndStop \/ Exit

EngineSpec == EngineInit /\ [][EngineNext]_engineVars

\* The periodic timer fires and every pass ends some day.  Nothing is assumed
\* of the feed, the file events or the workers.
FairPasses ==
  /\ WF_engineVars(\E i \in Passes : PeriodicPass(i))
  /\ \A i \in Passes : WF_engineVars(EndPass(i))

FairEngineSpec == EngineSpec /\ FairPasses

-----------------------------------------------------------------------------
(* Properties *)

EngineTyped ==
  /\ sequenceQueue \in Seq(TrackedSequence) /\ checkpoint \in Nat
  /\ PoolTypeOK
  /\ feed \in Seq(Paths \cup {Chunk}) /\ Len(feed) <= MaxChanges
  /\ phase \in Phases /\ currentSeq \in Nat
  /\ passes \in [Passes -> Pass \cup {NoPass}]
  /\ runs \in [Paths -> Run]
  /\ applied \subseteq Tokens /\ concealed \subseteq Tokens /\ leftBehind \subseteq Tokens
  /\ localEvents \in 0 .. MaxLocal /\ faults \in 0 .. MaxFaults /\ starts \in 0 .. MaxStarts

\* The row and the consumer lie within the feed.
FeedInv == checkpoint <= Len(feed) /\ currentSeq <= Len(feed)

\* In the feed f, a hint with a token is about the document the token changed.
HintOK(f, h) == h.remoteSeq # 0 => h.remoteSeq \in 1 .. Len(f) /\ f[h.remoteSeq] = h.path

HintsInv ==
  /\ \A i \in DOMAIN pendingQueue : HintOK(feed, pendingQueue[i])
  /\ \A p \in Busy(active) : HintOK(feed, active[p])
  /\ \A p \in Dirty : HintOK(feed, dirty[p])

\* A run has seen the change its hint is about.
RunsInv ==
  \A p \in Busy(active) : active[p].remoteSeq <= runs[p].seen /\ runs[p].seen <= Len(feed)

\* Every part of the daemon holds values of its type; the row and the consumer lie
\* within the feed; a hint with a token, queued, running or dirty, is about the
\* document the token changed; tracked tokens lie behind the consumer, and no run
\* is older than the change its hint is about (continuous-engine.ts:418-432).
EngineTypeOK ==
  /\ EngineTyped /\ FeedInv /\ HintsInv /\ RunsInv
  /\ \A s \in TokensOf(sequenceQueue) : s <= currentSeq

\* Changes up to n whose remote state is in the vault, or that the known flaws
\* of workers and passes let go.
Accounted == applied \cup concealed \cup leftBehind
SoundUpTo(n) == \A s \in Positions : s <= n /\ Required(s) => s \in Accounted

\* The saved checkpoint never moves past a change that is still to be
\* reconciled: not when workers finish out of order or fail, when hints are
\* coalesced or dropped by an overflow, when passes overlap workers and each
\* other, and not across stop, crash and restart.  The only changes it passes
\* are those a pass checkpointed unapplied, and those a worker reported as done
\* without bringing them: undecoded, or with the file of a conflict kept
\* (continuous-engine.ts:349-409, 464-494, file-reconciler.ts:555-579).
CheckpointSound == SoundUpTo(checkpoint)

\* A change the consumer has received is accounted for or still tracked, so
\* that no later commit can step over it (continuous-engine.ts:418-432).
ReceivedIsTracked ==
  \A s \in Positions :
    s <= currentSeq /\ Required(s) => s \in Accounted \cup TokensOf(sequenceQueue)

\* A row taken in while there is room leads to a run that starts after it, also
\* when its file is being worked on or waits already: no run counts for it that
\* read the remote before (file-worker-pool.ts:41-56).
RowsBecomeRequests ==
  [][currentSeq' > currentSeq /\ phase = "LIVE" /\ ~QueueFull =>
       \A p \in Paths : feed[currentSeq'] = p =>
         p \in Owed' \/ (active[p] = NoHint /\ active'[p] # NoHint)]_engineVars

\* A change the vault must still get, of a note that passes can apply.
Missing(s) ==
  s \in Positions /\ Required(s) /\ s \notin applied /\ feed[s] \notin Undecodable \cup Unplanned

\* A note in the inventory whose planning ends in a conflict.
Conflicting == \E s \in Positions : feed[s] \in Conflicted \ Undecodable

\* In write mode every change of a note that passes can apply reaches the vault
\* while the daemon stays up, whatever hints, reports and feed rows are lost and
\* whatever workers report as done without bringing it: the periodic pass takes
\* the whole inventory.  One conflict, of any note, is the exception: it ends
\* every pass before it applies anything (continuous-engine.ts:188-196, 504-514,
\* sync-coordinator.ts:279-289).
EventuallyApplied ==
  \A s \in Tokens : phase = "LIVE" /\ Missing(s) ~> phase # "LIVE" \/ ~Missing(s) \/ Conflicting
=============================================================================
