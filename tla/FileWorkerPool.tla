--------------------------- MODULE FileWorkerPool ---------------------------
(***************************************************************************)
(* The pool that reconciles files one worker per path                      *)
(* (src/src/daemon/file-worker-pool.ts).  Node runs one callback at a      *)
(* time: every action is the synchronous stretch of code between two       *)
(* awaits, from the callback that starts it to the next await.             *)
(***************************************************************************)
EXTENDS Naturals, Sequences, FiniteSets

CONSTANTS
  Paths,          \* hint.path values
  RemoteSeqs,     \* hint.remoteSeq values, 0 standing for undefined
  Concurrency,    \* options.concurrency
  MaxQueueSize,   \* options.maxQueueSize
  MaxDrains,      \* bound on drain() calls waiting at a time
  NoHint          \* no hint

Hint == [path : Paths, remoteSeq : RemoteSeqs]

ASSUME PoolAssumption ==
  /\ IsFiniteSet(Paths)
  /\ Concurrency \in Nat \ {0}
  /\ MaxQueueSize \in Nat \ {0}
  /\ MaxDrains \in Nat
  /\ NoHint \notin Hint

VARIABLES
  pendingQueue,   \* hints waiting for a worker, first in first out
  active,         \* the hint the worker of each path is running, or NoHint
  dirty,          \* the hint that arrived for a path while it ran, or NoHint
  isPaused,
  drainWaiters    \* number of drain() calls that wait

poolVars == <<pendingQueue, active, dirty, isPaused, drainWaiters>>

PathsOf(q) == {q[i].path : i \in DOMAIN q}
Busy(act) == {p \in Paths : act[p] # NoHint}
Dirty == {p \in Paths : dirty[p] # NoHint}

PoolInit ==
  /\ pendingQueue = <<>>
  /\ active = [p \in Paths |-> NoHint]
  /\ dirty = [p \in Paths |-> NoHint]
  /\ isPaused = FALSE
  /\ drainWaiters = 0

\* isIdle(); primed, it speaks of the state a step leads to.
Idle == pendingQueue = <<>> /\ Busy(active) = {} /\ Dirty = {}

QueueFull == Len(pendingQueue) >= MaxQueueSize

-----------------------------------------------------------------------------
(* pump() *)

\* Mutant of IndexIn: every shifted hint is taken for the first.
IndexInFirst(q, p) == 1

\* The first hint of path p in q.
IndexIn(q, p) == CHOOSE i \in DOMAIN q : q[i].path = p

\* The paths busy once the first j hints of q have been shifted.
BusyAfter(q, act, j) == Busy(act) \cup {q[i].path : i \in 1 .. j}

\* Mutant of Shifts: one free slot too many is assumed.
ShiftsBeyondLimit(q, act, k) ==
  /\ k \in 0 .. Len(q)
  /\ \A j \in 0 .. k - 1 : Cardinality(BusyAfter(q, act, j)) <= Concurrency
  /\ k = Len(q) \/ Cardinality(BusyAfter(q, act, k)) > Concurrency

\* The loop of pump() shifts the first k hints of q: it ran while a slot was
\* free, and stopped at an empty queue or a full set of slots.
Shifts(q, act, k) ==
  /\ k \in 0 .. Len(q)
  /\ \A j \in 0 .. k - 1 : Cardinality(BusyAfter(q, act, j)) < Concurrency
  /\ k = Len(q) \/ Cardinality(BusyAfter(q, act, k)) >= Concurrency

\* pump() on the queue q with the active hints act: shifted hints start a
\* worker, or become the dirty hint of a path that is busy already.
Pump(q, act, paused) ==
  \E k \in 0 .. Len(q) :
    LET taken == PathsOf(SubSeq(q, 1, k)) IN
    /\ IF paused THEN k = 0 ELSE Shifts(q, act, k)
    /\ pendingQueue' = SubSeq(q, k + 1, Len(q))
    /\ active' = [p \in Paths |->
         IF p \in taken /\ act[p] = NoHint THEN q[IndexIn(q, p)] ELSE act[p]]
    /\ dirty' = [p \in Paths |->
         IF p \in taken /\ act[p] # NoHint THEN q[IndexIn(q, p)] ELSE dirty[p]]

-----------------------------------------------------------------------------
(* Calls of the owner *)

\* Mutant of WithHint: a hint takes the last place whatever path is there.
WithHintReplacing(q, h) ==
  IF q = <<>> THEN <<h>> ELSE [q EXCEPT ![Len(q)] = h]

\* The queue with h added: a pending hint of the same path is replaced in place.
WithHint(q, h) ==
  IF h.path \in PathsOf(q)
  THEN [i \in DOMAIN q |-> IF q[i].path = h.path THEN h ELSE q[i]]
  ELSE Append(q, h)

\* Mutant of EnqueueAccepted: a hint for a busy path is queued, not set aside.
EnqueueBehindActive(h) ==
  /\ ~QueueFull
  /\ Pump(WithHint(pendingQueue, h), active, TRUE)
  /\ UNCHANGED <<isPaused, drainWaiters>>

\* Mutant of EnqueueAccepted: a hint for a busy path is taken for served.
EnqueueDroppingBusy(h) ==
  /\ ~QueueFull
  /\ \/ /\ active[h.path] # NoHint
        /\ UNCHANGED <<pendingQueue, active, dirty>>
     \/ /\ active[h.path] = NoHint
        /\ Pump(WithHint(pendingQueue, h), active, isPaused)
  /\ UNCHANGED <<isPaused, drainWaiters>>

\* enqueue() of a hint that is not refused.
EnqueueAccepted(h) ==
  /\ ~QueueFull
  /\ \/ /\ active[h.path] # NoHint
        /\ dirty' = [dirty EXCEPT ![h.path] = h]
        /\ UNCHANGED <<pendingQueue, active>>
     \/ /\ active[h.path] = NoHint
        /\ Pump(WithHint(pendingQueue, h), active, isPaused)
  /\ UNCHANGED <<isPaused, drainWaiters>>

\* clear(): runs in progress go on.
ClearBacklog ==
  /\ pendingQueue' = <<>>
  /\ dirty' = [p \in Paths |-> NoHint]
  /\ UNCHANGED <<active, isPaused>>

\* Its callers are the overflow callback and stop() once drain() has given
\* up, so no drain is waiting.
Clear == drainWaiters = 0 /\ ClearBacklog /\ UNCHANGED drainWaiters

Pause ==
  /\ isPaused' = TRUE
  /\ UNCHANGED <<pendingQueue, active, dirty, drainWaiters>>

Resume ==
  /\ isPaused' = FALSE
  /\ Pump(pendingQueue, active, FALSE)
  /\ UNCHANGED drainWaiters

\* drain() of a pool that is not idle leaves a resolver behind.
Drain ==
  /\ ~Idle /\ drainWaiters < MaxDrains
  /\ drainWaiters' = drainWaiters + 1
  /\ UNCHANGED <<pendingQueue, active, dirty, isPaused>>

\* The timer of a waiting drain() fires first.  Its resolver is not found in
\* drainResolvers and stays there; a later call of it has no effect.
DrainTimeout ==
  /\ drainWaiters > 0
  /\ drainWaiters' = drainWaiters - 1
  /\ UNCHANGED <<pendingQueue, active, dirty, isPaused>>

-----------------------------------------------------------------------------
(* Ends of a run of workerFn *)

\* The run returned and a hint arrived meanwhile: the same worker runs it.
WorkerReruns(p) ==
  /\ active[p] # NoHint /\ dirty[p] # NoHint
  /\ active' = [active EXCEPT ![p] = dirty[p]]
  /\ dirty' = [dirty EXCEPT ![p] = NoHint]
  /\ UNCHANGED <<pendingQueue, isPaused, drainWaiters>>

\* Mutant of Release: waiting drains are not woken.
ReleaseSilently(p) ==
  /\ Pump(pendingQueue, [active EXCEPT ![p] = NoHint], isPaused)
  /\ UNCHANGED <<isPaused, drainWaiters>>

\* Mutant of Release: the next hint is not started.
ReleaseWithoutPump(p) ==
  /\ Pump(pendingQueue, [active EXCEPT ![p] = NoHint], TRUE)
  /\ drainWaiters' = IF Idle' THEN 0 ELSE drainWaiters
  /\ UNCHANGED isPaused

\* The finally block: the path is given up, other work starts, and a pool
\* that became idle wakes every drain().
Release(p) ==
  /\ Pump(pendingQueue, [active EXCEPT ![p] = NoHint], isPaused)
  /\ drainWaiters' = IF Idle' THEN 0 ELSE drainWaiters
  /\ UNCHANGED isPaused

WorkerReleases(p) ==
  /\ active[p] # NoHint /\ dirty[p] = NoHint
  /\ Release(p)

\* The run threw: the loop is left without a look at dirtyPaths.
WorkerThrows(p) ==
  /\ active[p] # NoHint
  /\ Release(p)

WorkerEnds(p) == WorkerReruns(p) \/ WorkerReleases(p) \/ WorkerThrows(p)

-----------------------------------------------------------------------------
(* The pool on its own: any hint at any time, and an owner that answers an *)
(* overflow by clear(), as ContinuousEngine does.                          *)

Enqueue(h) == EnqueueAccepted(h) \/ (QueueFull /\ Clear)

PoolNext ==
  \/ \E h \in Hint : Enqueue(h)
  \/ Clear \/ Pause \/ Resume \/ Drain \/ DrainTimeout
  \/ \E p \in Paths : WorkerEnds(p)

\* Every run of workerFn settles.
PoolSpec ==
  /\ PoolInit /\ [][PoolNext]_poolVars
  /\ \A p \in Paths : WF_poolVars(WorkerEnds(p))

\* In addition no file changes during every single one of its runs for ever.
QuietPoolSpec ==
  /\ PoolSpec
  /\ \A p \in Paths : SF_poolVars(WorkerReleases(p) \/ WorkerThrows(p))

-----------------------------------------------------------------------------
(* Properties *)

\* The containers of the pool hold hints, each under its own path
\* (file-worker-pool.ts:19-23).
PoolTypeOK ==
  /\ pendingQueue \in Seq(Hint)
  /\ active \in [Paths -> Hint \cup {NoHint}]
  /\ dirty \in [Paths -> Hint \cup {NoHint}]
  /\ \A p \in Busy(active) : active[p].path = p
  /\ \A p \in Dirty : dirty[p].path = p
  /\ isPaused \in BOOLEAN
  /\ drainWaiters \in 0 .. MaxDrains

\* Two workers never run for one path: no path that is busy has a hint in the
\* queue, and none has two, so the test in pump() (file-worker-pool.ts:70-73)
\* is never true and serialisation rests on enqueue() alone.
PendingApart ==
  /\ PathsOf(pendingQueue) \cap Busy(active) = {}
  /\ \A i, j \in DOMAIN pendingQueue :
       pendingQueue[i].path = pendingQueue[j].path => i = j

\* Concurrency and the queue stay within their limits
\* (file-worker-pool.ts:35, 64).
Bounded ==
  /\ Cardinality(Busy(active)) <= Concurrency
  /\ Len(pendingQueue) <= MaxQueueSize

\* No slot is free while a hint waits, whatever runs end, throw or re-run.
WorkConserving ==
  pendingQueue # <<>> /\ ~isPaused => Cardinality(Busy(active)) >= Concurrency

\* A dirty hint whose path no worker is busy with.
Stranded == {p \in Paths : dirty[p] # NoHint /\ active[p] = NoHint}

\* A waiting drain() will be woken by a run that is still to end, unless the
\* pool is paused or a run that threw left a dirty hint behind
\* (file-worker-pool.ts:101-118).
DrainWillWake ==
  drainWaiters > 0 => Busy(active) # {} \/ isPaused \/ Stranded # {}

Owed == PathsOf(pendingQueue) \cup Dirty

\* Every request is picked up by a run that starts after it, discarded with
\* the backlog, paused, or left behind by a run that threw.
HintsAreServed == \A p \in Paths : p \in Owed ~> p \notin Owed \/ isPaused \/ p \in Stranded

\* Coalescing, queueing and re-running lose no request.
Executor == INSTANCE SerialExecutor WITH owed <- Owed, running <- Busy(active)
ServesLikeExecutor == Executor!ExecSpec
=============================================================================
