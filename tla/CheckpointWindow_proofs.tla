----------------------- MODULE CheckpointWindow_proofs -----------------------
(***************************************************************************)
(* What the operations of the checkpoint window do to the tokens of a      *)
(* queue, for queues in feed order.  ChangesFeed_proofs and                *)
(* ContinuousEngine_proofs rest on these lemmas.                           *)
(***************************************************************************)
EXTENDS CheckpointWindow, TLAPS

\* Later entries hold later positions of the feed.
Ascending(q) == \A i, j \in DOMAIN q : i < j => q[i].seq < q[j].seq

CompletedTokens(q) == {q[i].seq : i \in {j \in DOMAIN q : q[j].state = "completed"}}

\* A tracked token is completed or unverified; in feed order, not both.
LEMMA TokensSplit ==
  ASSUME NEW q \in Seq(TrackedSequence)
  PROVE  /\ TokensOf(q) \subseteq Tokens
         /\ TokensOf(q) = CompletedTokens(q) \cup Unverified(q)
         /\ Ascending(q) => CompletedTokens(q) \cap Unverified(q) = {}
<1>1. /\ DOMAIN q = 1 .. Len(q) /\ Len(q) \in Nat
      /\ \A i \in 1 .. Len(q) : q[i] \in TrackedSequence
  OBVIOUS
<1>2. \A i \in DOMAIN q : q[i].seq \in Tokens /\ i \in Nat
  BY <1>1 DEF TrackedSequence
<1>3. ASSUME Ascending(q), NEW i \in DOMAIN q, NEW j \in DOMAIN q, q[i].seq = q[j].seq
      PROVE  i = j
  <2>1. i \in Nat /\ j \in Nat /\ q[i].seq \in Nat
    BY <1>2, TokensAssumption
  <2> QED
    BY <1>3, <2>1 DEF Ascending
<1> QED
  BY <1>2, <1>3 DEF TokensOf, CompletedTokens, Unverified

-----------------------------------------------------------------------------
(* Reports *)

\* A report changes states only: the queue keeps its entries and their order
\* (checkpoint-window.ts:29-43).
LEMMA MarkedEntries ==
  ASSUME NEW q \in Seq(TrackedSequence), NEW s, NEW st \in SequenceState
  PROVE  /\ Marked(q, s, st) \in Seq(TrackedSequence)
         /\ DOMAIN Marked(q, s, st) = DOMAIN q
         /\ \A i \in DOMAIN q :
              /\ Marked(q, s, st)[i].seq = q[i].seq
              /\ Marked(q, s, st)[i].state = IF q[i].seq = s THEN st ELSE q[i].state
<1>1. \A i \in 1 .. Len(q) : q[i] \in TrackedSequence
  OBVIOUS
<1>2. DOMAIN Marked(q, s, st) = 1 .. Len(q)
  BY DEF Marked
<1>3. \A i \in 1 .. Len(q) :
        /\ Marked(q, s, st)[i] \in TrackedSequence
        /\ Marked(q, s, st)[i].seq = q[i].seq
        /\ Marked(q, s, st)[i].state = IF q[i].seq = s THEN st ELSE q[i].state
  BY <1>1 DEF Marked, TrackedSequence
<1>4. Marked(q, s, st) \in [1 .. Len(q) -> TrackedSequence]
  BY <1>2, <1>3 DEF Marked
<1>5. Marked(q, s, st) \in Seq(TrackedSequence)
  BY <1>4
<1> QED
  BY <1>2, <1>3, <1>5

\* In terms of tokens: none is added or lost, a report of success completes at
\* most its own token, and after a report of failure its token is not completed.
LEMMA MarkedTokens ==
  ASSUME NEW q \in Seq(TrackedSequence), NEW s, NEW st \in SequenceState
  PROVE  /\ TokensOf(Marked(q, s, st)) = TokensOf(q)
         /\ Ascending(q) => Ascending(Marked(q, s, st))
         /\ st = "completed" =>
              /\ CompletedTokens(Marked(q, s, st)) = CompletedTokens(q) \cup ({s} \cap TokensOf(q))
              /\ Unverified(Marked(q, s, st)) = Unverified(q) \ {s}
         /\ st # "completed" =>
              /\ CompletedTokens(Marked(q, s, st)) = CompletedTokens(q) \ {s}
              /\ Unverified(Marked(q, s, st)) = Unverified(q) \cup ({s} \cap TokensOf(q))
<1> DEFINE r == Marked(q, s, st)
<1>1. /\ DOMAIN r = DOMAIN q
      /\ \A i \in DOMAIN q : /\ r[i].seq = q[i].seq
                             /\ r[i].state = IF q[i].seq = s THEN st ELSE q[i].state
  BY MarkedEntries
<1> HIDE DEF r
<1> QED
  BY <1>1 DEF TokensOf, Ascending, CompletedTokens, Unverified, r

-----------------------------------------------------------------------------
(* Tracking *)

\* Tracking a token above all others adds it, uncompleted, at the end of the
\* queue (checkpoint-window.ts:15-27).
LEMMA TrackedTokens ==
  ASSUME NEW q \in Seq(TrackedSequence), NEW s \in Tokens,
         \A t \in TokensOf(q) : t < s
  PROVE  /\ Tracked(q, s) \in Seq(TrackedSequence)
         /\ TokensOf(Tracked(q, s)) = TokensOf(q) \cup {s}
         /\ CompletedTokens(Tracked(q, s)) = CompletedTokens(q)
         /\ Unverified(Tracked(q, s)) = Unverified(q) \cup {s}
         /\ Ascending(q) => Ascending(Tracked(q, s))
<1> DEFINE e == [seq |-> s, state |-> "pending"]
           r == Append(q, e)
<1>1. s \notin TokensOf(q)
  BY TokensAssumption
<1>2. Tracked(q, s) = r
  BY <1>1 DEF Tracked
<1>3. e \in TrackedSequence
  BY DEF TrackedSequence, SequenceState
<1>4. /\ r \in Seq(TrackedSequence)
      /\ DOMAIN r = DOMAIN q \cup {Len(q) + 1}
      /\ Len(q) \in Nat /\ DOMAIN q = 1 .. Len(q)
      /\ \A i \in DOMAIN q : r[i] = q[i]
      /\ r[Len(q) + 1] = e
  BY <1>3
<1>5. e.seq = s /\ e.state = "pending"
  OBVIOUS
<1> HIDE DEF r, e
<1>6. TokensOf(r) = TokensOf(q) \cup {s}
  BY <1>4, <1>5 DEF TokensOf
<1>7. CompletedTokens(r) = CompletedTokens(q) /\ Unverified(r) = Unverified(q) \cup {s}
  BY <1>4, <1>5 DEF CompletedTokens, Unverified
<1>8. ASSUME Ascending(q) PROVE Ascending(r)
  <2> SUFFICES ASSUME NEW i \in DOMAIN r, NEW j \in DOMAIN r, i < j
               PROVE  r[i].seq < r[j].seq
    BY DEF Ascending
  <2>1. i \in DOMAIN q
    BY <1>4
  <2>2. CASE j \in DOMAIN q
    BY <1>4, <1>8, <2>1, <2>2 DEF Ascending
  <2>3. CASE j = Len(q) + 1
    <3>1. q[i].seq \in TokensOf(q)
      BY <2>1 DEF TokensOf
    <3> QED
      BY <1>4, <1>5, <2>1, <2>3, <3>1
  <2> QED
    BY <1>4, <2>2, <2>3
<1> QED
  BY <1>2, <1>4, <1>6, <1>7, <1>8

-----------------------------------------------------------------------------
(* Committing *)

\* A commit keeps the window, or moves the checkpoint to a token such that all
\* tokens up to it are completed and purged and all later ones stay
\* (checkpoint-window.ts:45-82).
LEMMA CommitTokens ==
  ASSUME NEW q \in Seq(TrackedSequence), Ascending(q), CommitFrom(q)
  PROVE  /\ sequenceQueue' \in Seq(TrackedSequence)
         /\ Ascending(sequenceQueue')
         /\ TokensOf(sequenceQueue') \subseteq TokensOf(q)
         /\ CompletedTokens(sequenceQueue') \subseteq CompletedTokens(q)
         /\ Unverified(sequenceQueue') = Unverified(q)
         /\ \/ checkpoint' = checkpoint /\ sequenceQueue' = q
            \/ /\ checkpoint' \in CompletedTokens(q)
               /\ \A s \in TokensOf(q) :
                    IF s <= checkpoint' THEN s \in CompletedTokens(q)
                                        ELSE s \in TokensOf(sequenceQueue')
               /\ \A s \in TokensOf(sequenceQueue') : checkpoint' < s
<1>1. PICK k \in 0 .. Len(q) :
        /\ CommitPrefix(q, k)
        /\ sequenceQueue' = SubSeq(q, k + 1, Len(q))
        /\ checkpoint' = IF k = 0 THEN checkpoint ELSE q[k].seq
  BY DEF CommitFrom
<1> DEFINE r == SubSeq(q, k + 1, Len(q))
           n == Len(q)
<1>2. /\ n \in Nat /\ k \in Nat /\ k <= n
      /\ DOMAIN q = 1 .. n
      /\ \A i \in 1 .. n : q[i] \in TrackedSequence
  OBVIOUS
<1>3. /\ r \in Seq(TrackedSequence)
      /\ Len(r) = n - k
      /\ DOMAIN r = 1 .. n - k
      /\ \A i \in 1 .. n - k : r[i] = q[i + k]
  OBVIOUS
<1>4. \A i \in 1 .. k : q[i].state = "completed"
  BY <1>1 DEF CommitPrefix
<1>5. \A i \in 1 .. n : q[i].seq \in Nat
  BY <1>2, TokensAssumption DEF TrackedSequence
<1> HIDE DEF r, n
<1>6. Ascending(r)
  <2> SUFFICES ASSUME NEW i \in 1 .. n - k, NEW j \in 1 .. n - k, i < j
               PROVE  r[i].seq < r[j].seq
    BY <1>3 DEF Ascending
  <2>1. i + k \in 1 .. n /\ j + k \in 1 .. n /\ i + k < j + k
    BY <1>2
  <2> QED
    BY <1>2, <1>3, <2>1 DEF Ascending
<1>7. \A i \in DOMAIN r : i + k \in 1 .. n /\ r[i] = q[i + k]
  BY <1>2, <1>3
<1>8. TokensOf(r) \subseteq TokensOf(q) /\ CompletedTokens(r) \subseteq CompletedTokens(q)
  BY <1>2, <1>7 DEF TokensOf, CompletedTokens
<1>9. Unverified(r) = Unverified(q)
  <2>1. Unverified(r) \subseteq Unverified(q)
    BY <1>2, <1>7 DEF Unverified
  <2>2. ASSUME NEW j \in DOMAIN q, q[j].state # "completed"
        PROVE  q[j].seq \in Unverified(r)
    <3>1. j \in 1 .. n /\ j > k
      BY <1>2, <1>4, <2>2
    <3>2. j - k \in 1 .. n - k /\ j - k + k = j
      BY <1>2, <3>1
    <3> QED
      BY <1>3, <2>2, <3>2 DEF Unverified
  <2>3. Unverified(q) \subseteq Unverified(r)
    BY <2>2 DEF Unverified
  <2> QED
    BY <2>1, <2>3
<1>10. CASE k = 0
  <2>1. r = q
    BY <1>2, <1>10 DEF r, n
  <2> QED
    BY <1>1, <1>3, <1>6, <1>8, <1>9, <1>10, <2>1 DEF r, n
<1>11. CASE k # 0
  <2>1. k \in 1 .. n /\ checkpoint' = q[k].seq /\ q[k].state = "completed"
    BY <1>1, <1>2, <1>4, <1>11
  <2>2. checkpoint' \in CompletedTokens(q) /\ checkpoint' \in Nat
    BY <1>2, <1>5, <2>1 DEF CompletedTokens
  <2>3. ASSUME NEW j \in 1 .. n
        PROVE  IF q[j].seq <= checkpoint' THEN q[j].seq \in CompletedTokens(q)
                                          ELSE q[j].seq \in TokensOf(r)
    <3>1. CASE j <= k
      <4>1. q[j].seq <= q[k].seq
        <5>1. CASE j = k
          BY <1>5, <5>1
        <5>2. CASE j < k
          BY <1>2, <1>5, <2>1, <5>2 DEF Ascending
        <5> QED
          BY <1>2, <3>1, <5>1, <5>2
      <4>2. q[j].state = "completed"
        BY <1>2, <1>4, <3>1
      <4> QED
        BY <1>2, <2>1, <4>1, <4>2 DEF CompletedTokens
    <3>2. CASE j > k
      <4>1. q[k].seq < q[j].seq
        BY <1>2, <2>1, <3>2 DEF Ascending
      <4>2. j - k \in 1 .. n - k /\ j - k + k = j
        BY <1>2, <3>2
      <4>3. q[j].seq \in TokensOf(r)
        BY <1>3, <4>2 DEF TokensOf
      <4> QED
        BY <1>2, <1>5, <2>1, <4>1, <4>3
    <3> QED
      BY <1>2, <3>1, <3>2
  <2>4. ASSUME NEW i \in DOMAIN r PROVE checkpoint' < r[i].seq
    <3>1. i + k \in 1 .. n /\ k < i + k
      BY <1>2, <1>3
    <3> QED
      BY <1>2, <1>7, <2>1, <3>1 DEF Ascending
  <2>5. sequenceQueue' = r
    BY <1>1 DEF r, n
  <2>6. \A s \in TokensOf(q) : IF s <= checkpoint' THEN s \in CompletedTokens(q)
                                                   ELSE s \in TokensOf(r)
    BY <1>2, <2>3 DEF TokensOf
  <2>7. \A s \in TokensOf(r) : checkpoint' < s
    BY <2>4 DEF TokensOf
  <2> QED
    BY <1>3, <1>6, <1>8, <1>9, <2>2, <2>5, <2>6, <2>7
<1> QED
  BY <1>10, <1>11
=============================================================================
