----------------------- MODULE FileWorkerPool_proofs -----------------------
(***************************************************************************)
(* The worker pool keeps its promises for any number of files, slots and   *)
(* queue places: one worker per path, bounded concurrency, no idle slot    *)
(* while work waits, no drain() without a run that will wake it; and it    *)
(* implements SerialExecutor.                                              *)
(***************************************************************************)
EXTENDS FileWorkerPool, FiniteSetTheorems, TLAPS

\* A queue and active hints as enqueue() leaves them for pump().
Sane(q, act) ==
  /\ q \in Seq(Hint)
  /\ act \in [Paths -> Hint \cup {NoHint}]
  /\ \A p \in Busy(act) : act[p].path = p
  /\ PathsOf(q) \cap Busy(act) = {}
  /\ \A i, j \in DOMAIN q : q[i].path = q[j].path => i = j

SlotsKept(act) == Cardinality(Busy(act)) <= Concurrency

-----------------------------------------------------------------------------
(* pump() *)

LEMMA BusyFinite ==
  ASSUME NEW act
  PROVE  IsFiniteSet(Busy(act)) /\ Cardinality(Busy(act)) \in Nat
<1>1. Busy(act) \subseteq Paths
  BY DEF Busy
<1>2. IsFiniteSet(Busy(act))
  BY <1>1, PoolAssumption, FS_Subset
<1> QED
  BY <1>2, FS_CardinalityType

\* The step in which pump() starts the first k hints of q.
StartsFirst(q, act, paused, k) ==
  /\ IF paused THEN k = 0 ELSE Shifts(q, act, k)
  /\ pendingQueue' = SubSeq(q, k + 1, Len(q))
  /\ active' = [p \in Paths |->
       IF p \in PathsOf(SubSeq(q, 1, k)) THEN q[IndexIn(q, p)] ELSE act[p]]
  /\ dirty' = dirty
  /\ Busy(active') = BusyAfter(q, act, k)
  /\ \A i \in 1 .. k : active'[q[i].path] = q[i]

\* What the loop of pump() shifts is started, and nothing else changes: no
\* shifted hint finds its path busy (file-worker-pool.ts:59-78).
LEMMA PumpStarts ==
  ASSUME NEW q, NEW act, NEW paused \in BOOLEAN, Sane(q, act), Pump(q, act, paused),
         dirty \in [Paths -> Hint \cup {NoHint}]
  PROVE  \E k \in 0 .. Len(q) : StartsFirst(q, act, paused, k)
<1>1. PICK k \in 0 .. Len(q) :
        /\ IF paused THEN k = 0 ELSE Shifts(q, act, k)
        /\ pendingQueue' = SubSeq(q, k + 1, Len(q))
        /\ active' = [p \in Paths |->
             IF p \in PathsOf(SubSeq(q, 1, k)) /\ act[p] = NoHint
             THEN q[IndexIn(q, p)] ELSE act[p]]
        /\ dirty' = [p \in Paths |->
             IF p \in PathsOf(SubSeq(q, 1, k)) /\ act[p] # NoHint
             THEN q[IndexIn(q, p)] ELSE dirty[p]]
  BY DEF Pump
<1> DEFINE taken == PathsOf(SubSeq(q, 1, k))
<1>2. /\ DOMAIN q = 1 .. Len(q) /\ Len(q) \in Nat /\ k \in Nat /\ k <= Len(q)
      /\ \A i \in 1 .. Len(q) : q[i] \in Hint
  BY DEF Sane
<1>3. \A i \in 1 .. Len(q) : q[i].path \in Paths
  BY <1>2 DEF Hint
<1>4. /\ DOMAIN SubSeq(q, 1, k) = 1 .. k
      /\ \A i \in 1 .. k : SubSeq(q, 1, k)[i] = q[i]
  BY <1>2 DEF Sane
<1>5. taken = {q[i].path : i \in 1 .. k}
  BY <1>4 DEF PathsOf
<1>6. taken \subseteq PathsOf(q) /\ taken \subseteq Paths
  BY <1>2, <1>3, <1>5 DEF PathsOf
<1>7. \A p \in taken : act[p] = NoHint
  BY <1>6 DEF Sane, Busy
<1>8. \A i \in 1 .. k : IndexIn(q, q[i].path) = i
  BY <1>2 DEF Sane, IndexIn
<1> HIDE DEF taken
<1>9. active' = [p \in Paths |-> IF p \in taken THEN q[IndexIn(q, p)] ELSE act[p]]
  BY <1>1, <1>7 DEF taken
<1>10. dirty' = dirty
  BY <1>1, <1>7 DEF taken
<1>11. \A i \in 1 .. k : active'[q[i].path] = q[i]
  BY <1>2, <1>3, <1>5, <1>8, <1>9
<1>12. \A p \in taken : active'[p] # NoHint
  BY <1>2, <1>5, <1>11, PoolAssumption
<1>13. Busy(active') = Busy(act) \cup taken
  BY <1>6, <1>7, <1>9, <1>12 DEF Busy
<1> QED
  BY <1>1, <1>5, <1>9, <1>10, <1>11, <1>13 DEF taken, BusyAfter, StartsFirst

\* pump() leaves a sane pool that works on or keeps all it was given, within
\* its slots, and with a free slot only if nothing waits.
LEMMA PumpKeeps ==
  ASSUME NEW q, NEW act, NEW paused \in BOOLEAN, Sane(q, act), SlotsKept(act),
         Pump(q, act, paused), dirty \in [Paths -> Hint \cup {NoHint}]
  PROVE  /\ Sane(pendingQueue', active')
         /\ SlotsKept(active')
         /\ dirty' = dirty
         /\ Len(pendingQueue') <= Len(q)
         /\ paused \/ pendingQueue' = <<>> \/ Cardinality(Busy(active')) >= Concurrency
         /\ PathsOf(pendingQueue') \cup Busy(active') = PathsOf(q) \cup Busy(act)
         /\ Busy(act) \subseteq Busy(active')
         /\ \A i \in DOMAIN pendingQueue' : \E j \in DOMAIN q : pendingQueue'[i] = q[j]
         /\ \A p \in Busy(act) : active'[p] = act[p]
         /\ \A p \in Paths : \/ active'[p] = act[p]
                             \/ \E j \in DOMAIN q : active'[p] = q[j]
<1>1. PICK k \in 0 .. Len(q) :
        /\ IF paused THEN k = 0 ELSE Shifts(q, act, k)
        /\ pendingQueue' = SubSeq(q, k + 1, Len(q))
        /\ active' = [p \in Paths |->
             IF p \in PathsOf(SubSeq(q, 1, k)) THEN q[IndexIn(q, p)] ELSE act[p]]
        /\ dirty' = dirty
        /\ Busy(active') = BusyAfter(q, act, k)
        /\ \A i \in 1 .. k : active'[q[i].path] = q[i]
  <2>1. PICK k \in 0 .. Len(q) : StartsFirst(q, act, paused, k)
    BY PumpStarts
  <2> QED
    BY <2>1 DEF StartsFirst
<1> DEFINE n == Len(q)
           rest == SubSeq(q, k + 1, Len(q))
<1>2. /\ DOMAIN q = 1 .. n /\ n \in Nat /\ k \in Nat /\ k <= n
      /\ \A i \in 1 .. n : q[i] \in Hint
  BY DEF Sane
<1>3. \A i \in 1 .. n : q[i].path \in Paths
  BY <1>2 DEF Hint
<1>4. /\ rest \in Seq(Hint)
      /\ Len(rest) = n - k
      /\ DOMAIN rest = 1 .. n - k
      /\ \A i \in 1 .. n - k : rest[i] = q[i + k]
  <2>1. q \in Seq(Hint)
    BY DEF Sane
  <2> QED
    BY <2>1
<1>5. /\ DOMAIN SubSeq(q, 1, k) = 1 .. k
      /\ \A i \in 1 .. k : SubSeq(q, 1, k)[i] = q[i]
  BY <1>2 DEF Sane
<1> DEFINE taken == PathsOf(SubSeq(q, 1, k))
<1>6. taken = {q[i].path : i \in 1 .. k}
  BY <1>5 DEF PathsOf
<1>7. pendingQueue' = rest
  BY <1>1
<1>8. active' = [p \in Paths |-> IF p \in taken THEN q[IndexIn(q, p)] ELSE act[p]]
  BY <1>1
<1> HIDE DEF n, rest, taken
<1>9. \A i \in DOMAIN rest : i + k \in 1 .. n /\ i + k > k /\ rest[i] = q[i + k]
  BY <1>2, <1>4
<1>10. \A p \in Paths : IF p \in taken THEN \E i \in 1 .. k : p = q[i].path /\ active'[p] = q[i]
                                         ELSE active'[p] = act[p]
  BY <1>1, <1>6, <1>8
<1>11. Busy(active') = Busy(act) \cup taken
  BY <1>1, <1>6 DEF BusyAfter
<1>12. \A i \in 1 .. k : i \in 1 .. n
  BY <1>2
<1>13. Sane(rest, active')
  <2>1. active' \in [Paths -> Hint \cup {NoHint}]
    <3>1. \A p \in Paths : active'[p] \in Hint \cup {NoHint}
      BY <1>2, <1>10, <1>12 DEF Sane
    <3> QED
      BY <1>8, <3>1
  <2>2. \A p \in Busy(active') : active'[p].path = p
    BY <1>10, <1>11 DEF Sane, Busy
  <2>3. PathsOf(rest) \cap Busy(active') = {}
    <3> SUFFICES ASSUME NEW i \in DOMAIN rest PROVE rest[i].path \notin Busy(active')
      BY DEF PathsOf
    <3>1. i + k \in 1 .. n /\ i + k > k /\ rest[i] = q[i + k]
      BY <1>9
    <3>2. rest[i].path \notin Busy(act)
      BY <1>2, <3>1 DEF Sane, PathsOf
    <3>3. \A j \in 1 .. k : q[i + k].path # q[j].path
      BY <1>2, <1>12, <3>1 DEF Sane
    <3>4. rest[i].path \notin taken
      BY <1>6, <3>1, <3>3
    <3> QED
      BY <1>11, <3>2, <3>4
  <2>4. ASSUME NEW i \in DOMAIN rest, NEW j \in DOMAIN rest, rest[i].path = rest[j].path
        PROVE  i = j
    <3>1. i + k \in DOMAIN q /\ j + k \in DOMAIN q /\ q[i + k].path = q[j + k].path
      BY <1>2, <1>9, <2>4
    <3>2. i + k = j + k
      BY <3>1 DEF Sane
    <3> QED
      BY <1>2, <1>4, <3>2
  <2> QED
    BY <1>4, <2>1, <2>2, <2>3, <2>4 DEF Sane
<1>14. SlotsKept(active')
  <2>1. CASE k = 0
    <3>1. taken = {}
      BY <1>6, <2>1
    <3> QED
      BY <1>11, <3>1 DEF SlotsKept
  <2>2. CASE k # 0
    <3> DEFINE B == BusyAfter(q, act, k - 1)
    <3>1. ~paused /\ k - 1 \in 0 .. k - 1 /\ k - 1 \in Nat
      BY <1>1, <1>2, <2>2
    <3>2. Cardinality(B) < Concurrency
      BY <1>1, <3>1 DEF Shifts
    <3>3. Busy(active') = B \cup {q[k].path}
      <4>1. 1 .. k = 1 .. k - 1 \cup {k}
        BY <1>2, <2>2
      <4>2. taken = {q[i].path : i \in 1 .. k - 1} \cup {q[k].path}
        BY <1>6, <4>1
      <4> QED
        BY <1>11, <4>2 DEF BusyAfter
    <3>4. B \subseteq Paths
      <4>1. \A i \in 1 .. k - 1 : i \in 1 .. n
        BY <1>2
      <4> QED
        BY <1>3, <4>1 DEF BusyAfter, Busy
    <3>5. IsFiniteSet(B)
      BY <3>4, PoolAssumption, FS_Subset
    <3>6. Cardinality(B) \in Nat
      BY <3>5, FS_CardinalityType
    <3> HIDE DEF B
    <3>7. Cardinality(B \cup {q[k].path}) <= Cardinality(B) + 1
      <4>1. Cardinality(B \cup {q[k].path}) =
              IF q[k].path \in B THEN Cardinality(B) ELSE Cardinality(B) + 1
        BY <3>5, FS_AddElement
      <4> QED
        BY <3>6, <4>1
    <3>8. Cardinality(Busy(active')) \in Nat
      BY BusyFinite
    <3> QED
      BY <3>2, <3>3, <3>6, <3>7, <3>8, PoolAssumption DEF SlotsKept
  <2> QED
    BY <2>1, <2>2
<1>15. paused \/ rest = <<>> \/ Cardinality(Busy(active')) >= Concurrency
  <2>1. CASE ~paused /\ k = n
    <3>1. Len(rest) = 0
      BY <1>2, <1>4, <2>1
    <3> QED
      BY <1>4, <3>1
  <2>2. CASE ~paused /\ k # n
    BY <1>1, <2>2 DEF Shifts, n
  <2> QED
    BY <2>1, <2>2
<1>16. PathsOf(rest) \cup Busy(active') = PathsOf(q) \cup Busy(act)
  <2>1. PathsOf(rest) \cup taken = PathsOf(q)
    <3>1. ASSUME NEW j \in DOMAIN q PROVE q[j].path \in PathsOf(rest) \cup taken
      <4>1. CASE j <= k
        BY <1>2, <1>6, <4>1
      <4>2. CASE j > k
        <5>1. j - k \in DOMAIN rest /\ rest[j - k] = q[j - k + k] /\ j - k + k = j
          BY <1>2, <1>4, <4>2
        <5> QED
          BY <5>1 DEF PathsOf
      <4> QED
        BY <1>2, <4>1, <4>2
    <3>2. PathsOf(q) \subseteq PathsOf(rest) \cup taken
      BY <3>1 DEF PathsOf
    <3>3. PathsOf(rest) \subseteq PathsOf(q) /\ taken \subseteq PathsOf(q)
      BY <1>2, <1>6, <1>9, <1>12 DEF PathsOf
    <3> QED
      BY <3>2, <3>3
  <2> QED
    BY <1>11, <2>1
<1>17. Len(rest) <= Len(q)
  BY <1>2, <1>4 DEF n
<1>18. \A i \in DOMAIN rest : \E j \in DOMAIN q : rest[i] = q[j]
  BY <1>2, <1>9
<1>19. \A p \in Paths : active'[p] = act[p] \/ \E j \in DOMAIN q : active'[p] = q[j]
  BY <1>2, <1>10, <1>12
<1>20. \A p \in Busy(act) : active'[p] = act[p]
  <2>1. taken \cap Busy(act) = {}
    BY <1>2, <1>6, <1>12 DEF Sane, PathsOf
  <2>2. Busy(act) \subseteq Paths
    BY DEF Busy
  <2> QED
    BY <1>10, <2>1, <2>2
<1>21. /\ Sane(pendingQueue', active') /\ dirty' = dirty
       /\ Len(pendingQueue') <= Len(q)
       /\ paused \/ pendingQueue' = <<>> \/ Cardinality(Busy(active')) >= Concurrency
  BY <1>1, <1>7, <1>13, <1>15, <1>17
<1>22. PathsOf(pendingQueue') \cup Busy(active') = PathsOf(q) \cup Busy(act)
  BY <1>7, <1>16
<1>23. Busy(act) \subseteq Busy(active')
  BY <1>11
<1>24. \A i \in DOMAIN pendingQueue' : \E j \in DOMAIN q : pendingQueue'[i] = q[j]
  BY <1>7, <1>18
<1> QED
  BY <1>14, <1>19, <1>20, <1>21, <1>22, <1>23, <1>24

-----------------------------------------------------------------------------
(* enqueue() *)

\* A hint for a path that is not busy keeps the queue sane: it replaces the
\* waiting hint of its path or joins the queue (file-worker-pool.ts:47-53).
LEMMA WithHintSane ==
  ASSUME NEW q, NEW act, Sane(q, act), NEW h \in Hint, h.path \notin Busy(act)
  PROVE  /\ Sane(WithHint(q, h), act)
         /\ Len(WithHint(q, h)) <= Len(q) + 1
         /\ PathsOf(WithHint(q, h)) = PathsOf(q) \cup {h.path}
         /\ \A i \in DOMAIN WithHint(q, h) :
              WithHint(q, h)[i] = h \/ \E j \in DOMAIN q : WithHint(q, h)[i] = q[j]
<1> DEFINE n == Len(q)
           r == WithHint(q, h)
<1>1. /\ DOMAIN q = 1 .. n /\ n \in Nat
      /\ \A i \in 1 .. n : q[i] \in Hint
  BY DEF Sane
<1>2. CASE h.path \in PathsOf(q)
  <2>1. r = [i \in 1 .. n |-> IF q[i].path = h.path THEN h ELSE q[i]]
    BY <1>1, <1>2 DEF WithHint
  <2>2. /\ DOMAIN r = 1 .. n
        /\ \A i \in 1 .. n : (r[i] = h \/ r[i] = q[i]) /\ r[i].path = q[i].path
    BY <1>1, <2>1
  <2>3. r \in Seq(Hint) /\ Len(r) = n
    <3>1. r \in [1 .. n -> Hint]
      BY <1>1, <2>1
    <3> QED
      BY <1>1, <3>1
  <2> HIDE DEF r, n
  <2>4. PathsOf(r) = PathsOf(q)
    BY <1>1, <2>2 DEF PathsOf
  <2>5. Sane(r, act)
    BY <1>1, <2>2, <2>3, <2>4 DEF Sane
  <2> QED
    BY <1>1, <1>2, <2>2, <2>3, <2>4, <2>5 DEF r, n
<1>3. CASE h.path \notin PathsOf(q)
  <2>1. r = Append(q, h)
    BY <1>3 DEF WithHint
  <2>2. /\ r \in Seq(Hint) /\ Len(r) = n + 1
        /\ DOMAIN r = 1 .. n + 1
        /\ \A i \in 1 .. n : r[i] = q[i]
        /\ r[n + 1] = h
    BY <1>1, <2>1 DEF Sane
  <2> HIDE DEF r, n
  <2>3. \A i \in DOMAIN r : i \in DOMAIN q \/ i = n + 1
    BY <1>1, <2>2
  <2>4. \A i \in DOMAIN q : i \in DOMAIN r /\ q[i].path # h.path
    BY <1>1, <1>3, <2>2 DEF PathsOf
  <2>5. n + 1 \in DOMAIN r
    BY <1>1, <2>2
  <2>6. PathsOf(r) = PathsOf(q) \cup {h.path}
    BY <1>1, <2>2, <2>3, <2>4, <2>5 DEF PathsOf
  <2>7. \A i, j \in DOMAIN r : r[i].path = r[j].path => i = j
    BY <1>1, <2>2, <2>3, <2>4 DEF Sane
  <2>8. Sane(r, act)
    BY <2>2, <2>6, <2>7 DEF Sane
  <2> QED
    BY <1>1, <2>2, <2>3, <2>6, <2>8 DEF r, n
<1> QED
  BY <1>2, <1>3

-----------------------------------------------------------------------------
(* The invariant *)

\* A waiting drain() was called on a pool that was not idle, and is woken when
\* the pool becomes idle (file-worker-pool.ts:109-118, 150-169).
DrainsWait == drainWaiters > 0 => ~Idle

PoolInv == PoolTypeOK /\ PendingApart /\ Bounded /\ WorkConserving /\ DrainsWait

LEMMA InvIsSane ==
  ASSUME PoolInv
  PROVE  Sane(pendingQueue, active) /\ SlotsKept(active)
  BY DEF PoolInv, PoolTypeOK, PendingApart, Bounded, Sane, SlotsKept

\* Only an empty queue has no paths.
LEMMA EmptyQueue ==
  ASSUME NEW q \in Seq(Hint)
  PROVE  q = <<>> <=> PathsOf(q) = {}
<1>1. CASE Len(q) = 0
  <2>1. q = <<>> /\ DOMAIN q = {}
    BY <1>1
  <2> QED
    BY <2>1 DEF PathsOf
<1>2. CASE Len(q) # 0
  <2>1. q # <<>> /\ 1 \in DOMAIN q
    BY <1>2
  <2> QED
    BY <2>1 DEF PathsOf
<1> QED
  BY <1>1, <1>2

\* What a step that ends in pump() leaves: everything but the drain() part.
LEMMA PumpInv ==
  ASSUME PoolInv, NEW q, NEW act, NEW paused \in BOOLEAN, isPaused' = paused,
         Sane(q, act), SlotsKept(act), Pump(q, act, paused), Len(q) <= MaxQueueSize,
         drainWaiters' \in 0 .. MaxDrains
  PROVE  PoolTypeOK' /\ PendingApart' /\ Bounded' /\ WorkConserving'
<1>1. dirty \in [Paths -> Hint \cup {NoHint}] /\ \A p \in Dirty : dirty[p].path = p
  BY DEF PoolInv, PoolTypeOK
<1>2. /\ Sane(pendingQueue', active') /\ SlotsKept(active') /\ dirty' = dirty
      /\ Len(pendingQueue') <= Len(q)
      /\ paused \/ pendingQueue' = <<>> \/ Cardinality(Busy(active')) >= Concurrency
  BY <1>1, PumpKeeps
<1>3. PoolTypeOK'
  BY <1>1, <1>2 DEF PoolTypeOK, Sane, Dirty
<1>4. PendingApart'
  BY <1>2 DEF PendingApart, Sane
<1>5. Bounded'
  <2>1. Len(pendingQueue') \in Nat /\ Len(q) \in Nat
    BY <1>2 DEF Sane
  <2> QED
    BY <1>2, <2>1, PoolAssumption DEF Bounded, SlotsKept
<1>6. WorkConserving'
  BY <1>2 DEF WorkConserving
<1> QED
  BY <1>3, <1>4, <1>5, <1>6

\* After a pump the pool is idle only if it got nothing to do.
LEMMA PumpIdle ==
  ASSUME PoolInv, NEW q, NEW act, NEW paused \in BOOLEAN,
         Sane(q, act), SlotsKept(act), Pump(q, act, paused), Idle'
  PROVE  q = <<>> /\ Busy(act) = {} /\ Dirty = {}
<1>1. /\ Sane(pendingQueue', active') /\ dirty' = dirty
      /\ PathsOf(pendingQueue') \cup Busy(active') = PathsOf(q) \cup Busy(act)
  BY PumpKeeps DEF PoolInv, PoolTypeOK
<1>2. pendingQueue' = <<>> /\ Busy(active') = {} /\ Dirty' = {}
  BY DEF Idle
<1>3. PathsOf(pendingQueue') = {}
  BY <1>1, <1>2, EmptyQueue DEF Sane
<1>4. PathsOf(q) = {} /\ Busy(act) = {}
  BY <1>1, <1>2, <1>3
<1>5. Dirty = {}
  BY <1>1, <1>2 DEF Dirty
<1> QED
  BY <1>4, <1>5, EmptyQueue DEF Sane

LEMMA EnqueueAccepted_Inv ==
  ASSUME PoolInv, NEW h \in Hint, EnqueueAccepted(h)
  PROVE  PoolInv'
<1>1. h.path \in Paths /\ h # NoHint
  BY PoolAssumption DEF Hint
<1>2. CASE active[h.path] # NoHint
  <2>1. /\ dirty' = [dirty EXCEPT ![h.path] = h]
        /\ UNCHANGED <<pendingQueue, active, isPaused, drainWaiters>>
    BY <1>2 DEF EnqueueAccepted
  <2>2. PoolTypeOK'
    BY <1>1, <2>1 DEF PoolInv, PoolTypeOK, Dirty
  <2>3. h.path \in Dirty'
    BY <1>1, <2>1 DEF PoolInv, PoolTypeOK, Dirty
  <2>4. ~Idle'
    BY <2>3 DEF Idle
  <2> QED
    BY <2>1, <2>2, <2>4 DEF PoolInv, PendingApart, Bounded, WorkConserving, DrainsWait
<1>3. CASE active[h.path] = NoHint
  <2> DEFINE q == WithHint(pendingQueue, h)
  <2>1. Pump(q, active, isPaused) /\ UNCHANGED <<isPaused, drainWaiters>> /\ ~QueueFull
    BY <1>3 DEF EnqueueAccepted
  <2>2. h.path \notin Busy(active)
    BY <1>3 DEF Busy
  <2>3. Sane(q, active) /\ Len(q) <= Len(pendingQueue) + 1
    BY <2>2, InvIsSane, WithHintSane
  <2>4. h.path \in PathsOf(q)
    BY <2>2, InvIsSane, WithHintSane
  <2> HIDE DEF q
  <2>5. Len(q) \in Nat /\ Len(pendingQueue) \in Nat
    BY <2>3, InvIsSane DEF Sane
  <2>6. Len(q) <= MaxQueueSize
    BY <2>1, <2>3, <2>5, PoolAssumption DEF QueueFull
  <2>7. isPaused \in BOOLEAN /\ drainWaiters \in 0 .. MaxDrains
    BY DEF PoolInv, PoolTypeOK
  <2>8. PoolTypeOK' /\ PendingApart' /\ Bounded' /\ WorkConserving'
    BY <2>1, <2>3, <2>6, <2>7, InvIsSane, PumpInv
  <2>9. ~Idle'
    <3>1. q # <<>>
      BY <2>3, <2>4, EmptyQueue DEF Sane
    <3> QED
      BY <2>1, <2>3, <2>7, <3>1, InvIsSane, PumpIdle
  <2> QED
    BY <2>8, <2>9 DEF PoolInv, DrainsWait
<1> QED
  BY <1>2, <1>3

LEMMA Clear_Inv ==
  ASSUME PoolInv, ClearBacklog, drainWaiters' = 0
  PROVE  PoolInv'
<1>1. /\ pendingQueue' = <<>> /\ dirty' = [p \in Paths |-> NoHint]
      /\ UNCHANGED <<active, isPaused>> /\ drainWaiters' = 0
  BY DEF ClearBacklog
<1>2. DOMAIN pendingQueue' = {} /\ Len(pendingQueue') = 0 /\ Dirty' = {}
  BY <1>1 DEF Dirty
<1>3. pendingQueue' \in Seq(Hint)
  BY <1>1
<1>4. PoolTypeOK'
  BY <1>1, <1>2, <1>3, PoolAssumption DEF PoolInv, PoolTypeOK
<1>5. PendingApart'
  BY <1>2 DEF PendingApart, PathsOf
<1>6. Bounded' /\ WorkConserving' /\ DrainsWait'
  BY <1>1, <1>2, PoolAssumption DEF PoolInv, Bounded, WorkConserving, DrainsWait
<1> QED
  BY <1>4, <1>5, <1>6 DEF PoolInv

LEMMA Pause_Inv == ASSUME PoolInv, Pause PROVE PoolInv'
  BY DEF Pause, PoolInv, PoolTypeOK, PendingApart, Bounded, WorkConserving, DrainsWait,
         Idle, Dirty

LEMMA Resume_Inv ==
  ASSUME PoolInv, Resume
  PROVE  PoolInv'
<1>1. isPaused' = FALSE /\ Pump(pendingQueue, active, FALSE) /\ drainWaiters' = drainWaiters
  BY DEF Resume
<1>2. drainWaiters \in 0 .. MaxDrains /\ Len(pendingQueue) <= MaxQueueSize
  BY DEF PoolInv, PoolTypeOK, Bounded
<1>3. PoolTypeOK' /\ PendingApart' /\ Bounded' /\ WorkConserving'
  BY <1>1, <1>2, InvIsSane, PumpInv
<1>4. Idle' => Idle
  BY <1>1, InvIsSane, PumpIdle DEF Idle
<1> QED
  BY <1>1, <1>3, <1>4 DEF PoolInv, DrainsWait

LEMMA Drain_Inv ==
  ASSUME PoolInv, Drain \/ DrainTimeout
  PROVE  PoolInv'
<1>1. UNCHANGED <<pendingQueue, active, dirty, isPaused>>
  BY DEF Drain, DrainTimeout
<1>2. drainWaiters' \in 0 .. MaxDrains /\ (drainWaiters' > 0 => ~Idle)
  <2>1. drainWaiters \in Nat /\ MaxDrains \in Nat /\ drainWaiters <= MaxDrains
    BY PoolAssumption DEF PoolInv, PoolTypeOK
  <2>2. CASE Drain
    BY <2>1, <2>2 DEF Drain
  <2>3. CASE DrainTimeout
    BY <2>1, <2>3 DEF DrainTimeout, PoolInv, DrainsWait
  <2> QED
    BY <2>2, <2>3
<1> QED
  BY <1>1, <1>2
  DEF PoolInv, PoolTypeOK, PendingApart, Bounded, WorkConserving, DrainsWait, Idle, Dirty

LEMMA WorkerReruns_Inv ==
  ASSUME PoolInv, NEW p \in Paths, WorkerReruns(p)
  PROVE  PoolInv' /\ Busy(active') = Busy(active)
<1>1. /\ active' = [active EXCEPT ![p] = dirty[p]]
      /\ dirty' = [dirty EXCEPT ![p] = NoHint]
      /\ UNCHANGED <<pendingQueue, isPaused, drainWaiters>>
      /\ p \in Busy(active) /\ p \in Dirty
  BY DEF WorkerReruns, Busy, Dirty
<1>2. dirty[p] \in Hint /\ dirty[p].path = p /\ dirty[p] # NoHint
  BY <1>1 DEF PoolInv, PoolTypeOK, Dirty
<1>3. Busy(active') = Busy(active)
  BY <1>1, <1>2 DEF Busy, PoolInv, PoolTypeOK
<1>4. PoolTypeOK'
  BY <1>1, <1>2, <1>3 DEF PoolInv, PoolTypeOK, Dirty
<1>5. PendingApart' /\ Bounded' /\ WorkConserving'
  BY <1>1, <1>3 DEF PoolInv, PendingApart, Bounded, WorkConserving
<1>6. ~Idle'
  BY <1>1, <1>3 DEF Idle
<1> QED
  BY <1>3, <1>4, <1>5, <1>6 DEF PoolInv, DrainsWait

\* The pool without the worker of p is one that pump() can start from.
LEMMA ReleasedSane ==
  ASSUME PoolInv, NEW p \in Paths
  PROVE  LET act == [active EXCEPT ![p] = NoHint] IN
         Sane(pendingQueue, act) /\ SlotsKept(act) /\ Busy(act) = Busy(active) \ {p}
<1> DEFINE act == [active EXCEPT ![p] = NoHint]
<1>1. /\ active \in [Paths -> Hint \cup {NoHint}]
      /\ \A r \in Busy(active) : active[r].path = r
      /\ pendingQueue \in Seq(Hint) /\ PendingApart
  BY DEF PoolInv, PoolTypeOK
<1>2. act \in [Paths -> Hint \cup {NoHint}] /\ \A r \in Paths \ {p} : act[r] = active[r]
  BY <1>1
<1>3. Busy(act) = Busy(active) \ {p}
  BY <1>1 DEF Busy
<1> HIDE DEF act
<1>4. Sane(pendingQueue, act)
  <2>1. \A r \in Busy(act) : act[r].path = r
    BY <1>1, <1>2, <1>3 DEF Busy
  <2> QED
    BY <1>1, <1>2, <1>3, <2>1 DEF Sane, PendingApart
<1>5. SlotsKept(act)
  <2>1. Cardinality(Busy(act)) <= Cardinality(Busy(active))
    BY <1>3, BusyFinite, FS_Subset
  <2> QED
    BY <2>1, BusyFinite, PoolAssumption DEF SlotsKept, PoolInv, Bounded
<1> QED
  BY <1>3, <1>4, <1>5 DEF act

LEMMA Release_Inv ==
  ASSUME PoolInv, NEW p \in Paths, Release(p)
  PROVE  PoolInv'
<1> DEFINE act == [active EXCEPT ![p] = NoHint]
<1>1. /\ Pump(pendingQueue, act, isPaused) /\ isPaused' = isPaused
      /\ drainWaiters' = IF Idle' THEN 0 ELSE drainWaiters
  BY DEF Release
<1>2. Sane(pendingQueue, act) /\ SlotsKept(act)
  BY ReleasedSane
<1> HIDE DEF act
<1>3. /\ isPaused \in BOOLEAN /\ drainWaiters' \in 0 .. MaxDrains
      /\ Len(pendingQueue) <= MaxQueueSize
  BY <1>1, PoolAssumption DEF PoolInv, PoolTypeOK, Bounded
<1>4. PoolTypeOK' /\ PendingApart' /\ Bounded' /\ WorkConserving'
  BY <1>1, <1>2, <1>3, PumpInv
<1>5. DrainsWait'
  BY <1>1 DEF DrainsWait
<1> QED
  BY <1>4, <1>5 DEF PoolInv

LEMMA WorkerEnds_Inv ==
  ASSUME PoolInv, NEW p \in Paths, WorkerEnds(p)
  PROVE  PoolInv'
  BY WorkerReruns_Inv, Release_Inv DEF WorkerEnds, WorkerReleases, WorkerThrows

LEMMA PoolInit_Inv == PoolInit => PoolInv
<1> SUFFICES ASSUME PoolInit PROVE PoolInv
  OBVIOUS
<1>1. /\ pendingQueue = <<>> /\ active = [p \in Paths |-> NoHint]
      /\ dirty = [p \in Paths |-> NoHint] /\ isPaused = FALSE /\ drainWaiters = 0
  BY DEF PoolInit
<1>2. DOMAIN pendingQueue = {} /\ Len(pendingQueue) = 0 /\ Busy(active) = {} /\ Dirty = {}
  BY <1>1 DEF Busy, Dirty
<1>3. Cardinality(Busy(active)) = 0
  BY <1>2, FS_EmptySet
<1>4. pendingQueue \in Seq(Hint)
  BY <1>1
<1>5. PoolTypeOK
  <2>0. MaxDrains \in Nat /\ drainWaiters = 0 /\ isPaused \in BOOLEAN
    BY <1>1, PoolAssumption, Zenon
  <2>1. drainWaiters \in 0 .. MaxDrains
    BY <2>0
  <2>2. /\ active \in [Paths -> Hint \cup {NoHint}]
        /\ dirty \in [Paths -> Hint \cup {NoHint}]
    BY <1>1
  <2> QED
    BY <1>2, <1>4, <2>0, <2>1, <2>2 DEF PoolTypeOK
<1>6. PendingApart
  BY <1>2 DEF PendingApart, PathsOf
<1>7. Bounded /\ WorkConserving /\ DrainsWait
  BY <1>1, <1>2, <1>3, PoolAssumption DEF Bounded, WorkConserving, DrainsWait
<1> QED
  BY <1>5, <1>6, <1>7 DEF PoolInv

LEMMA PoolNext_Inv == PoolInv /\ [PoolNext]_poolVars => PoolInv'
<1> SUFFICES ASSUME PoolInv, [PoolNext]_poolVars PROVE PoolInv'
  OBVIOUS
<1>1. ASSUME NEW h \in Hint, EnqueueAccepted(h) PROVE PoolInv'
  BY <1>1, EnqueueAccepted_Inv
<1>2. ASSUME Clear PROVE PoolInv'
  BY <1>2, Clear_Inv DEF Clear
<1>3. CASE Pause
  BY <1>3, Pause_Inv
<1>4. CASE Resume
  BY <1>4, Resume_Inv
<1>5. CASE Drain \/ DrainTimeout
  BY <1>5, Drain_Inv
<1>6. ASSUME NEW p \in Paths, WorkerEnds(p) PROVE PoolInv'
  BY <1>6, WorkerEnds_Inv
<1>7. CASE UNCHANGED poolVars
  BY <1>7 DEF poolVars, PoolInv, PoolTypeOK, PendingApart, Bounded, WorkConserving,
              DrainsWait, Idle, Dirty
<1> QED
  BY <1>1, <1>2, <1>3, <1>4, <1>5, <1>6, <1>7 DEF PoolNext, Enqueue

-----------------------------------------------------------------------------

\* The strengthened invariant holds in every reachable state.
THEOREM PoolInvariant == PoolSpec => []PoolInv
<1>1. PoolInit => PoolInv
  BY PoolInit_Inv
<1>2. PoolInv /\ [PoolNext]_poolVars => PoolInv'
  BY PoolNext_Inv
<1> QED
  BY <1>1, <1>2, PTL DEF PoolSpec

\* The containers of the pool hold hints under their own paths
\* (file-worker-pool.ts:19-23).
THEOREM PoolTypeCorrect == PoolSpec => []PoolTypeOK
<1>1. PoolInv => PoolTypeOK
  BY DEF PoolInv
<1> QED
  BY <1>1, PoolInvariant, PTL

\* A hint of a file that is worked on never waits in the queue, nor two hints of
\* one file, for any number of files, slots and queue places
\* (file-worker-pool.ts:34-56).
THEOREM PoolIsSerial == PoolSpec => []PendingApart
<1>1. PoolInv => PendingApart
  BY DEF PoolInv
<1> QED
  BY <1>1, PoolInvariant, PTL

\* The concurrency and queue limits are kept (file-worker-pool.ts:35, 64).
THEOREM PoolIsBounded == PoolSpec => []Bounded
<1>1. PoolInv => Bounded
  BY DEF PoolInv
<1> QED
  BY <1>1, PoolInvariant, PTL

\* No slot is free while a hint waits (file-worker-pool.ts:59-78, 101-105).
THEOREM PoolConservesWork == PoolSpec => []WorkConserving
<1>1. PoolInv => WorkConserving
  BY DEF PoolInv
<1> QED
  BY <1>1, PoolInvariant, PTL

LEMMA DrainWakes == ASSUME PoolInv PROVE DrainWillWake
<1> SUFFICES ASSUME drainWaiters > 0, Busy(active) = {}, ~isPaused, Stranded = {}
             PROVE  FALSE
  BY DEF DrainWillWake
<1>1. ~Idle
  BY DEF PoolInv, DrainsWait
<1>2. Dirty = {}
  BY DEF Dirty, Stranded, Busy
<1>3. pendingQueue # <<>>
  BY <1>1, <1>2 DEF Idle
<1>4. Cardinality(Busy(active)) >= Concurrency
  BY <1>3 DEF PoolInv, WorkConserving
<1>5. Cardinality(Busy(active)) = 0
  BY FS_EmptySet
<1> QED
  BY <1>4, <1>5, PoolAssumption

\* A waiting drain() is woken by a run still to end, in every state but those
\* the property names (file-worker-pool.ts:101-118).
THEOREM PoolDrainWakes == PoolSpec => []DrainWillWake
<1> QED
  BY DrainWakes, PoolInvariant, PTL

-----------------------------------------------------------------------------
(* Refinement *)

\* The instance counts with the same Cardinality.
LEMMA SameCardinality == \A S : Executor!Cardinality(S) = Cardinality(S)
  BY DEF Executor!Cardinality, Cardinality

\* A step that ends in pump() is a shift of the abstract executor.
LEMMA PumpShifts ==
  ASSUME PoolInv, NEW q, NEW act, NEW paused \in BOOLEAN, NEW asked, NEW ended,
         Sane(q, act), SlotsKept(act), Pump(q, act, paused),
         Busy(act) = Busy(active) \ ended, PathsOf(q) = PathsOf(pendingQueue) \cup asked
  PROVE  Executor!Shift(asked, ended)
<1>1. /\ Sane(pendingQueue', active') /\ SlotsKept(active') /\ dirty' = dirty
      /\ PathsOf(pendingQueue') \cup Busy(active') = PathsOf(q) \cup Busy(act)
      /\ Busy(act) \subseteq Busy(active')
  BY PumpKeeps DEF PoolInv, PoolTypeOK
<1>2. Dirty' = Dirty
  BY <1>1 DEF Dirty
<1> DEFINE started == Busy(active') \ Busy(act)
           waiting == Owed \cup asked
<1>3. PathsOf(q) \cap Busy(act) = {} /\ PathsOf(pendingQueue') \cap Busy(active') = {}
  BY <1>1 DEF Sane
<1>4. started \in SUBSET (waiting \ Busy(act))
  BY <1>1, <1>3 DEF Owed
<1>5. Busy(active') = Busy(act) \cup started
  BY <1>1
<1>6. Owed' \subseteq waiting /\ waiting \ started \subseteq Owed'
  BY <1>1, <1>2, <1>3 DEF Owed
<1>7. Cardinality(Busy(active')) <= Concurrency
  BY <1>1 DEF SlotsKept
<1> QED
  BY <1>4, <1>5, <1>6, <1>7, SameCardinality DEF Executor!Shift

LEMMA PoolNext_Executor ==
  PoolInv /\ [PoolNext]_poolVars => [Executor!ExecNext]_(Executor!execVars)
<1> SUFFICES ASSUME PoolInv, [PoolNext]_poolVars
             PROVE  Executor!ExecNext \/ UNCHANGED Executor!execVars
  OBVIOUS
<1> USE DEF Executor!ExecNext, Executor!execVars
<1>0. /\ isPaused \in BOOLEAN /\ Cardinality(Busy(active)) <= Concurrency
      /\ active \in [Paths -> Hint \cup {NoHint}] /\ dirty \in [Paths -> Hint \cup {NoHint}]
  BY DEF PoolInv, PoolTypeOK, Bounded
<1>1. ASSUME NEW h \in Hint, EnqueueAccepted(h) PROVE Executor!Request(h.path) /\ h.path \in Paths
  <2>1. h.path \in Paths /\ h # NoHint
    BY PoolAssumption DEF Hint
  <2>2. CASE active[h.path] # NoHint
    <3>1. dirty' = [dirty EXCEPT ![h.path] = h] /\ UNCHANGED <<pendingQueue, active>>
      BY <1>1, <2>2 DEF EnqueueAccepted
    <3>2. Dirty' = Dirty \cup {h.path}
      BY <1>0, <2>1, <3>1 DEF Dirty
    <3>3. Owed' = Owed \cup {h.path} /\ Busy(active') = Busy(active)
      BY <3>1, <3>2 DEF Owed
    <3>4. {} \in SUBSET ((Owed \cup {h.path}) \ (Busy(active) \ {}))
      OBVIOUS
    <3>5. Executor!Shift({h.path}, {})
      BY <1>0, <3>3, <3>4, SameCardinality DEF Executor!Shift
    <3> QED
      BY <2>1, <3>5 DEF Executor!Request
  <2>3. CASE active[h.path] = NoHint
    <3> DEFINE q == WithHint(pendingQueue, h)
    <3>1. Pump(q, active, isPaused)
      BY <1>1, <2>3 DEF EnqueueAccepted
    <3>2. h.path \notin Busy(active)
      BY <2>3 DEF Busy
    <3>3. Sane(q, active) /\ PathsOf(q) = PathsOf(pendingQueue) \cup {h.path}
      BY <3>2, InvIsSane, WithHintSane
    <3> HIDE DEF q
    <3>4. Executor!Shift({h.path}, {})
      BY <1>0, <3>1, <3>3, InvIsSane, PumpShifts
    <3> QED
      BY <2>1, <3>4 DEF Executor!Request
  <2> QED
    BY <2>2, <2>3
<1>2. ASSUME Clear PROVE Executor!Discard
  <2>1. DOMAIN pendingQueue' = {} /\ Dirty' = {} /\ active' = active
    BY <1>2 DEF Clear, ClearBacklog, Dirty
  <2> QED
    BY <2>1 DEF Executor!Discard, Owed, PathsOf
<1>3. ASSUME Resume PROVE Executor!Dispatch
  <2>1. Pump(pendingQueue, active, FALSE)
    BY <1>3 DEF Resume
  <2>2. /\ Busy(active) = Busy(active) \ {}
        /\ PathsOf(pendingQueue) = PathsOf(pendingQueue) \cup {}
    OBVIOUS
  <2>3. Executor!Shift({}, {})
    BY <2>1, <2>2, InvIsSane, PumpShifts
  <2> QED
    BY <2>3 DEF Executor!Dispatch
<1>4. CASE Pause \/ Drain \/ DrainTimeout \/ UNCHANGED poolVars
  BY <1>4 DEF Pause, Drain, DrainTimeout, poolVars, Owed, Dirty
<1>5. ASSUME NEW p \in Paths, WorkerReruns(p) PROVE Executor!Finish(p)
  <2>1. /\ dirty' = [dirty EXCEPT ![p] = NoHint] /\ pendingQueue' = pendingQueue
        /\ p \in Busy(active) /\ p \in Dirty
    BY <1>5 DEF WorkerReruns, Busy, Dirty
  <2>2. Busy(active') = Busy(active)
    BY <1>5, WorkerReruns_Inv
  <2>3. Dirty' = Dirty \ {p}
    BY <1>0, <2>1 DEF Dirty
  <2>4. p \notin PathsOf(pendingQueue)
    BY <2>1 DEF PoolInv, PendingApart
  <2>5. Owed' = Owed \ {p} /\ p \in Owed
    BY <2>1, <2>3, <2>4 DEF Owed
  <2>6. {p} \in SUBSET ((Owed \cup {}) \ (Busy(active) \ {p}))
    BY <2>5
  <2>7. Busy(active') = (Busy(active) \ {p}) \cup {p}
    BY <2>1, <2>2
  <2>8. Executor!Shift({}, {p})
    BY <1>0, <2>2, <2>5, <2>6, <2>7, SameCardinality DEF Executor!Shift
  <2> QED
    BY <2>1, <2>8 DEF Executor!Finish
<1>6. ASSUME NEW p \in Paths, active[p] # NoHint, Release(p) PROVE Executor!Finish(p)
  <2> DEFINE act == [active EXCEPT ![p] = NoHint]
  <2>1. Pump(pendingQueue, act, isPaused)
    BY <1>6 DEF Release
  <2>2. Sane(pendingQueue, act) /\ SlotsKept(act) /\ Busy(act) = Busy(active) \ {p}
    BY ReleasedSane
  <2> HIDE DEF act
  <2>3. PathsOf(pendingQueue) = PathsOf(pendingQueue) \cup {}
    OBVIOUS
  <2>4. Executor!Shift({}, {p})
    BY <1>0, <2>1, <2>2, <2>3, PumpShifts
  <2> QED
    BY <1>6, <2>4 DEF Executor!Finish, Busy
<1> QED
  BY <1>1, <1>2, <1>3, <1>4, <1>5, <1>6
  DEF PoolNext, Enqueue, WorkerEnds, WorkerReleases, WorkerThrows

\* The pool implements SerialExecutor: coalescing in the queue, dirty hints and
\* re-runs lose no request, and only clear() discards some
\* (file-worker-pool.ts:34-148).
THEOREM PoolServesLikeExecutor == PoolSpec => ServesLikeExecutor
<1>1. PoolInit => Executor!ExecInit
  BY PoolInit_Inv DEF PoolInit, Executor!ExecInit, Owed, PathsOf, Dirty, Busy
<1>2. PoolInv /\ [PoolNext]_poolVars => [Executor!ExecNext]_(Executor!execVars)
  BY PoolNext_Executor
<1> QED
  BY <1>1, <1>2, PoolInvariant, PTL DEF PoolSpec, ServesLikeExecutor, Executor!ExecSpec
=============================================================================
