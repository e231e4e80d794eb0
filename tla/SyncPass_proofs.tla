-------------------------- MODULE SyncPass_proofs --------------------------
(***************************************************************************)
(* The rows are true, nothing is superseded unseen, and a pass that        *)
(* reports convergence has brought vault and notes in step: for any vault, *)
(* any contents and any number of edits, other clients' writes and faults  *)
(* that come between the readings of a pass and what it does.              *)
(***************************************************************************)
EXTENDS SyncPass, FiniteSetTheorems, TLAPS

\* rev is a live revision of p's note with content c, or with what a push stores
\* of it, or was written from another reading of the file.
Holds(p, rev, c) ==
  /\ rev \in 1 .. Len(docs[Id(p)])
  /\ \/ docs[Id(p)][rev].content \in {c} \cup Stored(c) /\ ~docs[Id(p)][rev].deleted
     \/ <<Id(p), rev>> \in misread

\* A row tells the truth about a revision that was in the vault.
RowHolds(p) == Holds(p, prov[p].rev, prov[p].content) /\ <<Id(p), prov[p].rev>> \in reflected
RowOK(p) == prov[p] # NoProv => RowHolds(p)

\* An action of the plan writes on top of revisions that were in the vault only,
\* and installs what a live revision holds.
Based(a) ==
  /\ a.kind = "push" => a.rev = 0 \/ <<Id(a.path), a.rev>> \in reflected
  /\ a.kind \in {"recase", "delete"} => <<Id(a.path), a.rev>> \in reflected
  /\ a.kind = "rename" => <<Id(a.old), a.rev>> \in reflected
  /\ a.kind = "pull" => Holds(a.path, a.rev, a.content)

PassRec ==
  [stage : Stages, seen : [Ids -> Nat], hash : [Paths -> Contents \cup {Absent}],
   bytes : [Paths -> Contents], waiting : SUBSET Paths, todo : SUBSET Action,
   doing : Action \cup {Nothing}, rev : Nat, ok : BOOLEAN, quiet : BOOLEAN]

Busy == {"installed", "kept", "unlinked", "stored", "renamed", "retired"}

\* What a pass knows between two awaits: the inventory is a part of what the
\* notes are, and what was installed or written is what the row will say.
InHand(r) ==
  /\ r.doing # Nothing => Based(r.doing)
  /\ r.stage = "renamed" => r.doing.kind = "rename"
  /\ r.stage \in {"installed", "stored"} =>
       /\ Holds(r.doing.path, r.rev, r.doing.content)
       /\ <<Id(r.doing.path), r.rev>> \in reflected
PassOK(r) ==
  /\ r \in PassRec
  /\ r.stage \in Busy <=> r.doing # Nothing
  /\ \A d \in Ids : r.seen[d] <= Len(docs[d])
  /\ \A a \in r.todo : Based(a)
  /\ InHand(r)

Typed ==
  /\ local \in [Paths -> Contents \cup {Absent}]
  /\ docs \in [Ids -> Seq(Revision)]
  /\ prov \in [Paths -> Provenance \cup {NoProv}]
  /\ report \in {"none", "converged", "conflict", "errors"}

SyncInv == Typed /\ (\A p \in Paths : RowOK(p)) /\ PassOK(pass) /\ unseen = {}

\* Other clients and passes only add to the histories of the notes.
Grows ==
  /\ docs \in [Ids -> Seq(Revision)] /\ docs' \in [Ids -> Seq(Revision)]
  /\ \A d \in Ids : Len(docs[d]) <= Len(docs'[d])
                    /\ \A i \in 1 .. Len(docs[d]) : docs'[d][i] = docs[d][i]
  /\ reflected \subseteq reflected' /\ misread \subseteq misread'

LEMMA IdsOfPaths ==
  /\ \A p \in Paths : Id(p) \in Ids
  /\ \A p, q \in Twins : Id(p) = Id(q)
BY DEF Ids, Id

LEMMA IdInTwins ==
  ASSUME NEW p \in Paths, NEW q \in Paths, p # q, Id(p) = Id(q)
  PROVE  p \in Twins /\ q \in Twins
BY DEF Id

\* A push stores contents, or what cannot be decoded.
LEMMA StoredType ==
  ASSUME NEW c \in Contents
  PROVE  /\ Stored(c) \subseteq Contents \cup {Garbled}
         /\ c \notin Binaries => Stored(c) = {c}
BY DEF Stored

LEMMA GrowsNot ==
  ASSUME docs \in [Ids -> Seq(Revision)], docs' = docs,
         reflected \subseteq reflected', misread \subseteq misread'
  PROVE  Grows
BY DEF Grows

LEMMA GrowsByOne ==
  ASSUME docs \in [Ids -> Seq(Revision)], NEW d \in Ids, NEW v \in Revision,
         docs' = [docs EXCEPT ![d] = Append(@, v)],
         reflected \subseteq reflected', misread \subseteq misread'
  PROVE  Grows /\ Len(docs'[d]) = Len(docs[d]) + 1 /\ docs'[d][Len(docs[d]) + 1] = v
<1>1. docs[d] \in Seq(Revision) /\ Append(docs[d], v) \in Seq(Revision)
  OBVIOUS
<1>2. \A e \in Ids : docs'[e] = IF e = d THEN Append(docs[d], v) ELSE docs[e]
  OBVIOUS
<1>3. /\ Len(Append(docs[d], v)) = Len(docs[d]) + 1
      /\ \A i \in 1 .. Len(docs[d]) : Append(docs[d], v)[i] = docs[d][i]
      /\ Append(docs[d], v)[Len(docs[d]) + 1] = v
  BY <1>1
<1>4. docs' \in [Ids -> Seq(Revision)]
  BY <1>1, <1>2
<1>5. \A e \in Ids : docs[e] \in Seq(Revision) /\ Len(docs[e]) \in Nat
  OBVIOUS
<1> QED
  BY <1>1, <1>2, <1>3, <1>4, <1>5 DEF Grows

LEMMA StaysHeld ==
  ASSUME Grows, NEW p \in Paths, NEW rev, NEW c, Holds(p, rev, c)
  PROVE  Holds(p, rev, c)'
<1>1. Id(p) \in Ids
  BY IdsOfPaths
<1>2. /\ Len(docs[Id(p)]) \in Nat /\ Len(docs'[Id(p)]) \in Nat
      /\ Len(docs[Id(p)]) <= Len(docs'[Id(p)])
  BY <1>1 DEF Grows
<1>3. rev \in 1 .. Len(docs[Id(p)]) /\ docs'[Id(p)][rev] = docs[Id(p)][rev]
  BY <1>1 DEF Grows, Holds
<1>4. rev \in 1 .. Len(docs'[Id(p)])
  BY <1>2, <1>3
<1> QED
  BY <1>3, <1>4 DEF Holds, Grows, Id

LEMMA StaysBased ==
  ASSUME Grows, NEW a \in Action, Based(a)
  PROVE  Based(a)'
<1>1. a.path \in Paths /\ a.old \in Paths
  BY DEF Action
<1>2. a.kind = "pull" => Holds(a.path, a.rev, a.content)'
  BY <1>1, StaysHeld DEF Based
<1> QED
  BY <1>2 DEF Based, Grows, Id

\* What is known of a pass stays true as the histories grow.
LEMMA StaysOK ==
  ASSUME Grows, NEW r, PassOK(r)
  PROVE  PassOK(r)'
<1>1. r \in PassRec /\ r.todo \subseteq Action /\ r.doing \in Action \cup {Nothing}
  BY DEF PassOK, PassRec
<1>2. \A a \in r.todo : Based(a)'
  BY <1>1, StaysBased DEF PassOK
<1>3. \A d \in Ids : r.seen[d] <= Len(docs'[d])
  <2> SUFFICES ASSUME NEW d \in Ids PROVE r.seen[d] <= Len(docs'[d])
    OBVIOUS
  <2>1. r.seen[d] \in Nat /\ r.seen[d] <= Len(docs[d])
    BY <1>1 DEF PassOK, PassRec
  <2>2. Len(docs[d]) <= Len(docs'[d]) /\ Len(docs[d]) \in Nat /\ Len(docs'[d]) \in Nat
    BY DEF Grows
  <2> QED
    BY <2>1, <2>2
<1>4. InHand(r)'
  <2>1. r.doing # Nothing => Based(r.doing)'
    BY <1>1, StaysBased DEF PassOK, InHand
  <2>2. ASSUME r.stage \in {"installed", "stored"}
        PROVE  /\ Holds(r.doing.path, r.rev, r.doing.content)'
               /\ <<Id(r.doing.path), r.rev>> \in reflected'
    <3>1. r.doing \in Action
      BY <1>1, <2>2 DEF PassOK, Busy
    <3>2. r.doing.path \in Paths
      BY <3>1 DEF Action
    <3>3. /\ Holds(r.doing.path, r.rev, r.doing.content)
          /\ <<Id(r.doing.path), r.rev>> \in reflected
      BY <2>2 DEF PassOK, InHand
    <3> QED
      BY <3>2, <3>3, StaysHeld DEF Grows
  <2>3. r.stage = "renamed" => r.doing.kind = "rename"
    BY DEF PassOK, InHand
  <2> QED
    BY <2>1, <2>2, <2>3 DEF InHand, Id
<1> QED
  BY <1>1, <1>2, <1>3, <1>4 DEF PassOK

LEMMA RowStays ==
  ASSUME Grows, NEW p \in Paths, RowOK(p), prov'[p] = prov[p]
  PROVE  RowOK(p)'
<1> SUFFICES ASSUME prov[p] # NoProv PROVE RowHolds(p)'
  BY DEF RowOK
<1>1. PICK rev, c : rev = prov[p].rev /\ c = prov[p].content
  OBVIOUS
<1>2. Holds(p, rev, c) /\ <<Id(p), rev>> \in reflected
  BY <1>1 DEF RowOK, RowHolds
<1>3. Holds(p, rev, c)' /\ <<Id(p), rev>> \in reflected'
  BY <1>2, StaysHeld DEF Grows
<1> QED
  BY <1>1, <1>3 DEF Holds, RowHolds, Id

LEMMA RowsStay ==
  ASSUME Grows, \A p \in Paths : RowOK(p), prov' = prov
  PROVE  \A p \in Paths : RowOK(p)'
BY RowStays

\* What a step has to show.
LEMMA StepOK ==
  ASSUME Typed', (\A p \in Paths : RowOK(p))', unseen' = {}, NEW r, PassOK(r)', pass' = r
  PROVE  SyncInv'
<1>1. PassOK(pass)'
  BY DEF PassOK, InHand, Based, Holds, Id
<1> QED
  BY <1>1 DEF SyncInv

\* A step that writes neither notes nor rows.
LEMMA PassMoves ==
  ASSUME SyncInv, UNCHANGED <<docs, prov, reflected, unseen, misread>>,
         local' \in [Paths -> Contents \cup {Absent}],
         report' \in {"none", "converged", "conflict", "errors"},
         NEW r, PassOK(r), pass' = r
  PROVE  SyncInv'
<1>1. Typed /\ (\A p \in Paths : RowOK(p)) /\ unseen = {}
  BY DEF SyncInv
<1>2. Grows
  BY <1>1, GrowsNot DEF Typed
<1>3. PassOK(r)' /\ (\A p \in Paths : RowOK(p))'
  BY <1>1, <1>2, StaysOK, RowsStay
<1>4. Typed' /\ unseen' = {}
  BY <1>1 DEF Typed
<1> QED
  BY <1>3, <1>4, StepOK

LEMMA NothingIsNoAction == Nothing \notin Action
BY DEF Nothing, Action, Kinds

\* No pass is in progress.
LEMMA IdleOK == ASSUME docs \in [Ids -> Seq(Revision)] PROVE PassOK(IdlePass)
<1>1. IdlePass \in PassRec
  BY PassAssumption DEF IdlePass, PassRec, Stages
<1>2. /\ IdlePass.stage = "idle" /\ IdlePass.doing = Nothing /\ IdlePass.todo = {}
      /\ \A d \in Ids : IdlePass.seen[d] = 0
  BY DEF IdlePass
<1>3. \A d \in Ids : Len(docs[d]) \in Nat
  OBVIOUS
<1>4. \A d \in Ids : IdlePass.seen[d] <= Len(docs[d])
  BY <1>2, <1>3
<1>5. InHand(IdlePass)
  BY <1>2 DEF InHand
<1> QED
  BY <1>1, <1>2, <1>4, <1>5 DEF PassOK, Busy

LEMMA Abort_Inv ==
  ASSUME SyncInv, UNCHANGED <<docs, prov, reflected, unseen, misread>>,
         local' \in [Paths -> Contents \cup {Absent}], Abort
  PROVE  SyncInv'
<1>1. PassOK(IdlePass)
  BY IdleOK DEF SyncInv, Typed
<1> QED
  BY <1>1, PassMoves DEF Abort

LEMMA Facts ==
  ASSUME SyncInv
  PROVE  /\ Typed /\ unseen = {} /\ PassOK(pass) /\ pass \in PassRec
         /\ pass.todo \subseteq Action /\ pass.doing \in Action \cup {Nothing}
         /\ \A a \in pass.todo : Based(a)
         /\ \A p \in Paths : RowOK(p)
         /\ \A p \in Paths : docs[Id(p)] \in Seq(Revision)
<1>1. Typed /\ unseen = {} /\ PassOK(pass) /\ pass \in PassRec /\ \A p \in Paths : RowOK(p)
  BY DEF SyncInv, PassOK
<1>2. /\ pass.todo \subseteq Action /\ pass.doing \in Action \cup {Nothing}
      /\ \A a \in pass.todo : Based(a)
  BY <1>1 DEF PassRec, PassOK
<1>3. \A p \in Paths : docs[Id(p)] \in Seq(Revision)
  BY <1>1, IdsOfPaths DEF Typed
<1> QED
  BY <1>1, <1>2, <1>3

\* What a pass goes on to that neither plans nor does anything new.
LEMMA GoesOn ==
  ASSUME SyncInv, NEW r \in PassRec,
         r.seen = pass.seen, r.todo \subseteq pass.todo,
         \/ r.stage = pass.stage /\ r.doing = pass.doing /\ r.rev = pass.rev
         \/ r.stage \notin Busy /\ r.doing = Nothing
         \/ r.stage \in {"unlinked", "retired"} /\ r.doing = pass.doing /\ pass.stage \in Busy
         \/ r.stage = "renamed" /\ r.doing = pass.doing /\ pass.stage \in Busy /\ r.doing.kind = "rename"
  PROVE  PassOK(r)
<1>1. PassOK(pass)
  BY Facts
<1>2. r.stage \in Busy <=> r.doing # Nothing
  BY <1>1 DEF PassOK, Busy
<1>3. InHand(r)
  BY <1>1 DEF PassOK, InHand, Busy
<1> QED
  BY <1>1, <1>2, <1>3 DEF PassOK

-----------------------------------------------------------------------------
(* The users and the other clients *)

LEMMA Disturbed ==
  ASSUME SyncInv, Disturb
  PROVE  \E r : pass' = r /\ PassOK(r)
<1>1. PICK r : pass' = r
  OBVIOUS
<1>2. CASE r = pass
  BY <1>1, <1>2, Facts
<1>3. CASE r = [pass EXCEPT !.quiet = FALSE]
  <2>1. /\ r \in PassRec /\ r.seen = pass.seen /\ r.todo = pass.todo
        /\ r.stage = pass.stage /\ r.doing = pass.doing /\ r.rev = pass.rev
    BY <1>3, Facts DEF PassRec
  <2> QED
    BY <1>1, <2>1, GoesOn
<1> QED
  BY <1>1, <1>2, <1>3 DEF Disturb

LEMMA Edit_Inv ==
  ASSUME SyncInv, NEW files \in [Paths -> Contents \cup {Absent}], Edit(files)
  PROVE  SyncInv'
<1>1. PICK r : pass' = r /\ PassOK(r)
  BY Disturbed DEF Edit
<1>2. /\ UNCHANGED <<docs, prov, reflected, unseen, misread>>
      /\ local' = files /\ report' = "none"
  BY DEF Edit, Disturb, histVars
<1> QED
  BY <1>1, <1>2, PassMoves

LEMMA OtherWrites_Inv ==
  ASSUME SyncInv, NEW v \in Revision, OtherWrites(v)
  PROVE  SyncInv'
<1>1. PICK r : pass' = r /\ PassOK(r)
  BY Disturbed DEF OtherWrites
<1>2. /\ docs' = [docs EXCEPT ![Id(v.path)] = Append(@, v)] /\ report' = "none"
      /\ UNCHANGED <<local, prov, reflected, unseen, misread>>
  BY DEF OtherWrites, Disturb, histVars
<1>3. Id(v.path) \in Ids
  BY IdsOfPaths DEF Revision
<1>4. Grows
  BY <1>2, <1>3, Facts, GrowsByOne DEF Typed
<1>5. PassOK(r)' /\ (\A p \in Paths : RowOK(p))'
  BY <1>1, <1>2, <1>4, Facts, StaysOK, RowsStay
<1>6. Typed' /\ unseen' = {}
  BY <1>2, <1>4, Facts DEF Typed, Grows
<1> QED
  BY <1>1, <1>5, <1>6, StepOK

LEMMA World_Inv ==
  ASSUME SyncInv, WorldNext
  PROVE  SyncInv'
<1>1. local \in [Paths -> Contents \cup {Absent}]
  BY Facts DEF Typed
<1>2. ASSUME NEW p \in Paths, NEW c \in Contents \cup {Absent}, UserEdits(p, c) PROVE SyncInv'
  BY <1>1, <1>2, Edit_Inv DEF UserEdits
<1>3. ASSUME NEW p \in Paths, NEW q \in Paths, UserRenames(p, q) PROVE SyncInv'
  <2>1. [local EXCEPT ![q] = local[p], ![p] = Absent] \in [Paths -> Contents \cup {Absent}]
    BY <1>1
  <2> QED
    BY <1>3, <2>1, Edit_Inv DEF UserRenames
<1> QED
  BY <1>2, <1>3, OtherWrites_Inv DEF WorldNext

-----------------------------------------------------------------------------
(* Reading *)

LEMMA BeginPass_Inv ==
  ASSUME SyncInv, BeginPass
  PROVE  SyncInv'
<1>1. PICK r : r = [IdlePass EXCEPT !.stage = "scan", !.waiting = Paths,
                                    !.seen = [d \in Ids |-> Len(docs[d])]]
  OBVIOUS
<1>2. docs \in [Ids -> Seq(Revision)] /\ \A d \in Ids : Len(docs[d]) \in Nat
  BY Facts DEF Typed
<1>3. IdlePass \in PassRec /\ IdlePass.doing = Nothing /\ IdlePass.todo = {}
  BY <1>2, IdleOK DEF PassOK, IdlePass
<1>4. /\ r.stage = "scan" /\ r.doing = Nothing /\ r.todo = {}
      /\ r.seen = [d \in Ids |-> Len(docs[d])]
  BY <1>1, <1>3 DEF PassRec
<1>5. r \in PassRec
  <2>1. [d \in Ids |-> Len(docs[d])] \in [Ids -> Nat]
    BY <1>2
  <2> QED
    BY <1>1, <1>3, <2>1 DEF PassRec, Stages
<1>6. PassOK(r)
  BY <1>2, <1>4, <1>5 DEF PassOK, InHand, Busy
<1>7. /\ pass' = r /\ report' = report
      /\ UNCHANGED <<local, docs, prov, reflected, unseen, misread>>
  BY <1>1 DEF BeginPass, histVars
<1> QED
  BY <1>6, <1>7, Facts, PassMoves DEF Typed

\* A reading of one file: the pass goes on to another or to the next stage.
LEMMA ReadStep ==
  ASSUME SyncInv, pass.stage \notin Busy, NEW r \in PassRec, pass' = r,
         r.stage \notin Busy, r.seen = pass.seen, r.todo = pass.todo, r.doing = pass.doing,
         UNCHANGED <<local, docs, prov, report, reflected, unseen, misread>>
  PROVE  SyncInv'
<1>1. r.doing = Nothing
  BY Facts DEF PassOK
<1>2. PassOK(r)
  BY <1>1, GoesOn
<1> QED
  BY <1>2, Facts, PassMoves DEF Typed

LEMMA ScanFile_Inv ==
  ASSUME SyncInv, NEW p \in Paths, ScanFile(p)
  PROVE  SyncInv'
<1>1. PICK scanned : scanned = [pass EXCEPT !.hash[p] = local[p], !.waiting = @ \ {p}]
  OBVIOUS
<1>2. /\ scanned \in PassRec /\ scanned.stage = pass.stage /\ scanned.seen = pass.seen
      /\ scanned.todo = pass.todo /\ scanned.doing = pass.doing
  <2>1. pass.hash \in [Paths -> Contents \cup {Absent}] /\ local[p] \in Contents \cup {Absent}
    BY Facts DEF Typed, PassRec
  <2>2. [pass.hash EXCEPT ![p] = local[p]] \in [Paths -> Contents \cup {Absent}]
    BY <2>1
  <2> QED
    BY <1>1, <2>2, Facts DEF PassRec
<1>3. PICK files : files = {q \in Paths : scanned.hash[q] # Absent}
  OBVIOUS
<1>4. PICK next : next = [scanned EXCEPT !.waiting = files,
                                         !.stage = IF files = {} THEN "plan" ELSE "read"]
  OBVIOUS
<1>5. pass' = scanned \/ pass' = next
  BY <1>1, <1>3, <1>4 DEF ScanFile
<1>6. /\ next \in PassRec /\ next.stage \in {"plan", "read"} /\ next.seen = pass.seen
      /\ next.todo = pass.todo /\ next.doing = pass.doing
  BY <1>2, <1>3, <1>4 DEF PassRec, Stages
<1>7. /\ pass.stage = "scan"
      /\ UNCHANGED <<local, docs, prov, report, reflected, unseen, misread>>
  BY DEF ScanFile, histVars
<1> QED
  BY <1>2, <1>5, <1>6, <1>7, ReadStep DEF Busy

LEMMA Read_Inv ==
  ASSUME SyncInv, NEW p \in Paths, NEW b \in Contents, Read(p, b)
  PROVE  SyncInv'
<1>1. PICK read : read = [pass EXCEPT !.bytes[p] = b, !.waiting = @ \ {p}]
  OBVIOUS
<1>2. /\ read \in PassRec /\ read.stage = pass.stage /\ read.seen = pass.seen
      /\ read.todo = pass.todo /\ read.doing = pass.doing
  <2>1. pass.bytes \in [Paths -> Contents]
    BY Facts DEF PassRec
  <2>2. [pass.bytes EXCEPT ![p] = b] \in [Paths -> Contents]
    BY <2>1
  <2> QED
    BY <1>1, <2>2, Facts DEF PassRec
<1>3. PICK next : next = [read EXCEPT !.stage = "plan"]
  OBVIOUS
<1>4. pass' = read \/ pass' = next
  BY <1>1, <1>3 DEF Read
<1>5. /\ next \in PassRec /\ next.stage = "plan" /\ next.seen = pass.seen
      /\ next.todo = pass.todo /\ next.doing = pass.doing
  BY <1>2, <1>3 DEF PassRec, Stages
<1>6. /\ pass.stage = "read"
      /\ UNCHANGED <<local, docs, prov, report, reflected, unseen, misread>>
  BY DEF Read, histVars
<1> QED
  BY <1>2, <1>4, <1>5, <1>6, ReadStep DEF Busy

LEMMA Readings_Inv ==
  ASSUME SyncInv, NEW p \in Paths, ReadFile(p) \/ ReadFails(p)
  PROVE  SyncInv'
<1>1. Empty \in Contents /\ local[p] \in Contents \cup {Absent}
  BY Facts, PassAssumption DEF Typed
<1>2. \E b \in Contents : Read(p, b)
  BY <1>1 DEF ReadFile, ReadFails
<1> QED
  BY <1>2, Read_Inv

-----------------------------------------------------------------------------
(* Planning *)

\* The inventory shows live or deleted revisions that there are, and none that
\* does not decode.
LEMMA LeafFacts ==
  ASSUME SyncInv, NEW p \in Paths, Leaf(p) # 0
  PROVE  /\ Leaf(p) \in 1 .. Len(docs[Id(p)]) /\ Note(p, Leaf(p)) = docs[Id(p)][Leaf(p)]
         /\ Note(p, Leaf(p)) \in Revision /\ Note(p, Leaf(p)).content \in Contents
<1>1. Leaf(p) = pass.seen[Id(p)] /\ Note(p, Leaf(p)).content # Garbled
  BY DEF Leaf
<1>2. Id(p) \in Ids
  BY IdsOfPaths
<1>3. pass.seen[Id(p)] \in Nat /\ pass.seen[Id(p)] <= Len(docs[Id(p)])
  BY <1>2, Facts DEF PassRec, PassOK
<1>4. docs[Id(p)] \in Seq(Revision) /\ Len(docs[Id(p)]) \in Nat
  BY Facts
<1>5. Leaf(p) \in 1 .. Len(docs[Id(p)])
  BY <1>1, <1>3, <1>4
<1>6. docs[Id(p)][Leaf(p)] \in Revision
  BY <1>4, <1>5
<1>7. Note(p, Leaf(p)) = docs[Id(p)][Leaf(p)]
  BY DEF Note
<1>8. Note(p, Leaf(p)) \in Revision
  BY <1>6, <1>7
<1>9. Note(p, Leaf(p)).content \in Contents \cup {Garbled}
  BY <1>8 DEF Revision
<1> QED
  BY <1>1, <1>5, <1>7, <1>8, <1>9

LEMMA ActType ==
  ASSUME SyncInv, NEW kind \in Kinds, NEW p \in Paths, NEW rev \in Nat, NEW c \in Contents
  PROVE  /\ Act(kind, p, rev, c) \in Action
         /\ Act(kind, p, rev, c).kind = kind /\ Act(kind, p, rev, c).path = p
         /\ Act(kind, p, rev, c).old = p /\ Act(kind, p, rev, c).rev = rev
         /\ Act(kind, p, rev, c).content = c
<1>1. pass.bytes[p] \in Contents
  BY Facts DEF PassRec
<1> QED
  BY <1>1 DEF Act, Action

LEMMA PlannedOK ==
  ASSUME SyncInv, NEW p \in Paths, NEW a \in Planned(p)
  PROVE  a \in Action /\ Based(a)
<1> DEFINE rev == Leaf(p)
           hash == pass.hash[p]
           row == prov[p]
           live == rev # 0 /\ ~Note(p, rev).deleted
<1>1. rev \in Nat
  <2>1. CASE Leaf(p) = 0
    BY <2>1
  <2>2. CASE Leaf(p) # 0
    BY <2>2, LeafFacts, Facts
  <2> QED
    BY <2>1, <2>2
<1>2. hash # Absent => hash \in Contents
  BY Facts DEF PassRec
<1>3. row # NoProv => /\ row \in Provenance /\ row.content \in Contents
                      /\ <<Id(p), row.rev>> \in reflected
  BY Facts DEF Typed, Provenance, RowOK, RowHolds
<1>4. live => Note(p, rev).content \in Contents /\ Holds(p, rev, Note(p, rev).content)
  BY LeafFacts DEF Holds
<1>5. \/ a = Act("push", p, rev, hash) /\ hash # Absent /\ row # NoProv /\ row.rev = rev
      \/ a = Act("pull", p, rev, Note(p, rev).content) /\ live
      \/ a \in {Act("conflict", p, rev, hash), Act("quarantine", p, rev, hash)} /\ hash # Absent
      \/ a = Act("conflict", p, rev, row.content) /\ row # NoProv
      \/ a = Act("push", p, 0, hash) /\ hash # Absent
      \/ a = Act("delete", p, rev, row.content) /\ row # NoProv /\ row.rev = rev
  <2> HIDE DEF rev, hash, row, live
  <2> QED
    BY DEF Planned, rev, hash, row, live
<1> HIDE DEF rev, hash, row, live
<1>6. {"push", "pull", "conflict", "quarantine", "delete"} \subseteq Kinds /\ 0 \in Nat
  BY DEF Kinds
<1>7. CASE a = Act("push", p, rev, hash) /\ hash # Absent /\ row # NoProv /\ row.rev = rev
  <2>1. a \in Action /\ a.kind = "push" /\ a.path = p /\ a.rev = rev
    BY <1>1, <1>2, <1>6, <1>7, ActType
  <2> QED
    BY <1>3, <1>7, <2>1 DEF Based
<1>8. CASE a = Act("pull", p, rev, Note(p, rev).content) /\ live
  <2>1. /\ a \in Action /\ a.kind = "pull" /\ a.path = p /\ a.rev = rev
        /\ a.content = Note(p, rev).content
    BY <1>1, <1>4, <1>6, <1>8, ActType
  <2> QED
    BY <1>4, <1>8, <2>1 DEF Based
<1>9. CASE a \in {Act("conflict", p, rev, hash), Act("quarantine", p, rev, hash)} /\ hash # Absent
  <2>1. a \in Action /\ a.kind \in {"conflict", "quarantine"}
    BY <1>1, <1>2, <1>6, <1>9, ActType
  <2> QED
    BY <2>1 DEF Based
<1>10. CASE a = Act("conflict", p, rev, row.content) /\ row # NoProv
  <2>1. a \in Action /\ a.kind = "conflict"
    BY <1>1, <1>3, <1>6, <1>10, ActType
  <2> QED
    BY <2>1 DEF Based
<1>11. CASE a = Act("push", p, 0, hash) /\ hash # Absent
  <2>1. a \in Action /\ a.kind = "push" /\ a.rev = 0
    BY <1>2, <1>6, <1>11, ActType
  <2> QED
    BY <2>1 DEF Based
<1>12. CASE a = Act("delete", p, rev, row.content) /\ row # NoProv /\ row.rev = rev
  <2>1. a \in Action /\ a.kind = "delete" /\ a.path = p /\ a.rev = rev
    BY <1>1, <1>3, <1>6, <1>12, ActType
  <2> QED
    BY <1>3, <1>12, <2>1 DEF Based
<1> QED
  BY <1>5, <1>7, <1>8, <1>9, <1>10, <1>11, <1>12

\* A rename of either sort: its source is a row, its target a file of the scan.
LEMMA RenamingOK ==
  ASSUME SyncInv, NEW old \in Deleted, NEW new \in Created, NEW kind \in {"recase", "rename"},
         kind = "recase" => Id(old) = Id(new), NEW a,
         a = [Act(kind, new, prov[old].rev, pass.hash[new]) EXCEPT !.old = old]
  PROVE  a \in Action /\ Based(a)
<1>1. /\ old \in Paths /\ prov[old] \in Provenance /\ <<Id(old), prov[old].rev>> \in reflected
      /\ new \in Paths /\ pass.hash[new] \in Contents
  BY Facts DEF Deleted, Created, Typed, PassRec, RowOK, RowHolds
<1>2. PICK rev : rev = prov[old].rev /\ rev \in Nat
  BY <1>1 DEF Provenance
<1>3. PICK b : b = Act(kind, new, rev, pass.hash[new])
  OBVIOUS
<1>4. b \in Action /\ b.kind = kind /\ b.path = new /\ b.rev = rev
  BY <1>1, <1>2, <1>3, ActType DEF Kinds
<1>5. a = [b EXCEPT !.old = old]
  BY <1>2, <1>3
<1>6. a \in Action /\ a.kind = kind /\ a.path = new /\ a.rev = rev /\ a.old = old
  BY <1>1, <1>4, <1>5 DEF Action
<1> QED
  BY <1>1, <1>2, <1>6 DEF Based

LEMMA PlanOK ==
  ASSUME SyncInv, NEW pairs \in CrossRenames, NEW a \in PlanOf(pairs)
  PROVE  a \in Action /\ Based(a)
<1>1. pairs \subseteq Deleted \X Created
  BY DEF CrossRenames
<1>2. /\ CaseRenames \subseteq Deleted \X Created
      /\ \A r \in CaseRenames : Id(r[1]) = Id(r[2])
  BY IdsOfPaths DEF CaseRenames
<1>3. \/ \E p \in Paths : a \in Planned(p)
      \/ \E r \in CaseRenames \cup pairs :
           a = [Act(IF r \in CaseRenames THEN "recase" ELSE "rename", r[2],
                    prov[r[1]].rev, pass.hash[r[2]]) EXCEPT !.old = r[1]]
  BY DEF PlanOf
<1>4. CASE \E p \in Paths : a \in Planned(p)
  BY <1>4, PlannedOK
<1>5. CASE \E r \in CaseRenames \cup pairs :
             a = [Act(IF r \in CaseRenames THEN "recase" ELSE "rename", r[2],
                      prov[r[1]].rev, pass.hash[r[2]]) EXCEPT !.old = r[1]]
  <2>1. PICK r \in CaseRenames \cup pairs :
             a = [Act(IF r \in CaseRenames THEN "recase" ELSE "rename", r[2],
                      prov[r[1]].rev, pass.hash[r[2]]) EXCEPT !.old = r[1]]
    BY <1>5
  <2>2. PICK kind : kind = IF r \in CaseRenames THEN "recase" ELSE "rename"
    OBVIOUS
  <2>3. /\ kind \in {"recase", "rename"} /\ r[1] \in Deleted /\ r[2] \in Created
        /\ kind = "recase" => Id(r[1]) = Id(r[2])
    BY <1>1, <1>2, <2>2
  <2>4. a = [Act(kind, r[2], prov[r[1]].rev, pass.hash[r[2]]) EXCEPT !.old = r[1]]
    BY <2>1, <2>2
  <2> QED
    BY <2>3, <2>4, RenamingOK
<1> QED
  BY <1>3, <1>4, <1>5

LEMMA Plan_Inv ==
  ASSUME SyncInv, NEW pairs, Plan(pairs)
  PROVE  SyncInv'
<1>1. pairs \in CrossRenames /\ UNCHANGED <<local, docs, prov, reflected, unseen, misread>>
  BY DEF Plan, histVars
<1>2. PICK plan : plan = PlanOf(pairs)
  OBVIOUS
<1>3. plan \subseteq Action /\ \A a \in plan : Based(a)
  BY <1>1, <1>2, PlanOK
<1>4. /\ docs \in [Ids -> Seq(Revision)] /\ local \in [Paths -> Contents \cup {Absent}]
      /\ report \in {"none", "converged", "conflict", "errors"}
  BY Facts DEF Typed
<1>5. PassOK(IdlePass)
  BY <1>4, IdleOK
<1>6. PICK r : r = [IdlePass EXCEPT !.stage = "apply", !.todo = plan, !.quiet = pass.quiet]
  OBVIOUS
<1>7. PassOK(r)
  <2>1. IdlePass \in PassRec /\ pass.quiet \in BOOLEAN
    BY <1>5, Facts DEF PassOK, PassRec
  <2>2. /\ r \in PassRec /\ r.stage = "apply" /\ r.todo = plan
        /\ r.doing = IdlePass.doing /\ r.seen = IdlePass.seen
    BY <1>3, <1>6, <2>1 DEF PassRec, Stages
  <2>3. IdlePass.doing = Nothing
    BY DEF IdlePass
  <2> QED
    BY <1>3, <1>5, <2>2, <2>3 DEF PassOK, InHand, Busy
<1>8. \/ pass' = IdlePass /\ report' = (IF pass.quiet THEN "conflict" ELSE report)
      \/ pass' = r /\ report' = report
  BY <1>2, <1>6 DEF Plan
<1>9. (pass' = IdlePass \/ pass' = r) /\ report' \in {"none", "converged", "conflict", "errors"}
  BY <1>4, <1>8
<1> QED
  BY <1>1, <1>4, <1>5, <1>7, <1>9, PassMoves

-----------------------------------------------------------------------------
(* Applying *)

\* What an action begins: it is taken from the plan and is in hand.
LEMMA BegunOK ==
  ASSUME SyncInv, NEW a \in pass.todo, NEW stage \in Busy, NEW rev \in Nat, NEW r,
         r = Begun(a, stage, rev)
  PROVE  /\ r \in PassRec /\ r.stage = stage /\ r.doing = a /\ r.rev = rev
         /\ r.todo = pass.todo \ {a} /\ r.seen = pass.seen /\ a \in Action /\ a # Nothing
<1>1. a \in Action /\ a # Nothing /\ pass \in PassRec /\ pass.todo \ {a} \subseteq Action
  BY Facts, NothingIsNoAction
<1>2. stage \in Stages
  BY DEF Busy, Stages
<1> QED
  BY <1>1, <1>2 DEF Begun, PassRec

\* The action is done with: the pass goes on to the next.
LEMMA FinishedOK ==
  ASSUME SyncInv
  PROVE  PassOK(Finished) /\ \A b \in BOOLEAN : PassOK([Finished EXCEPT !.ok = b])
<1>1. /\ Finished \in PassRec /\ Finished.stage = "apply" /\ Finished.doing = Nothing
      /\ Finished.todo = pass.todo /\ Finished.seen = pass.seen
  <2>1. pass \in PassRec
    BY Facts
  <2> QED
    BY <2>1 DEF Finished, PassRec, Stages
<1>2. ASSUME NEW b \in BOOLEAN, NEW r, r = [Finished EXCEPT !.ok = b]
      PROVE  PassOK(r)
  <2>1. /\ r \in PassRec /\ r.stage = "apply" /\ r.doing = Nothing
        /\ r.todo = pass.todo /\ r.seen = pass.seen
    BY <1>1, <1>2 DEF PassRec
  <2> QED
    BY <2>1, GoesOn DEF Busy
<1>3. PassOK(Finished)
  BY <1>1, GoesOn DEF Busy
<1> QED
  BY <1>2, <1>3

\* A step that changes a row.
LEMMA RowMoves ==
  ASSUME SyncInv, UNCHANGED <<local, docs, report, reflected, unseen, misread>>,
         prov' \in [Paths -> Provenance \cup {NoProv}],
         NEW p \in Paths, \A q \in Paths : q # p => prov'[q] \in {prov[q], NoProv},
         RowOK(p)', NEW r, PassOK(r), pass' = r
  PROVE  SyncInv'
<1>1. Typed /\ (\A q \in Paths : RowOK(q)) /\ unseen = {}
  BY DEF SyncInv
<1>2. Grows
  BY <1>1, GrowsNot DEF Typed
<1>3. ASSUME NEW q \in Paths PROVE RowOK(q)'
  <2>1. CASE q = p
    BY <2>1
  <2>2. CASE prov'[q] = prov[q]
    BY <1>1, <1>2, <2>2, RowStays
  <2>3. CASE prov'[q] = NoProv
    BY <2>3 DEF RowOK
  <2> QED
    BY <2>1, <2>2, <2>3
<1>4. PassOK(r)'
  BY <1>2, StaysOK
<1>5. Typed' /\ unseen' = {}
  BY <1>1 DEF Typed
<1> QED
  BY <1>3, <1>4, <1>5, StepOK

LEMMA Install_Inv ==
  ASSUME SyncInv, NEW a \in pass.todo, Install(a)
  PROVE  SyncInv'
<1>1. /\ a.kind = "pull" /\ a \in Action /\ Based(a)
      /\ local' = [local EXCEPT ![a.path] = a.content]
      /\ reflected' = reflected \cup {<<Id(a.path), a.rev>>}
      /\ pass' = Begun(a, "installed", a.rev)
      /\ UNCHANGED <<docs, prov, report, unseen, misread>>
  BY Facts DEF Install, Turn
<1>2. a.path \in Paths /\ a.rev \in Nat /\ a.content \in Contents
  BY <1>1 DEF Action
<1>3. PICK r : r = Begun(a, "installed", a.rev)
  OBVIOUS
<1>4. /\ r \in PassRec /\ r.stage = "installed" /\ r.doing = a /\ r.rev = a.rev
      /\ r.todo = pass.todo \ {a} /\ r.seen = pass.seen /\ a # Nothing
  BY <1>2, <1>3, BegunOK DEF Busy
<1>5. Grows
  BY <1>1, GrowsNot, Facts DEF Typed
<1>6. Based(a)' /\ Holds(a.path, a.rev, a.content)' /\ <<Id(a.path), a.rev>> \in reflected'
  <2>1. Holds(a.path, a.rev, a.content)
    BY <1>1 DEF Based
  <2> QED
    BY <1>1, <1>2, <1>5, <2>1, StaysBased, StaysHeld
<1>7. PassOK(r)'
  <2>1. PassOK(pass)
    BY Facts
  <2>2. \A b \in r.todo : Based(b)'
    BY <1>4, <1>5, Facts, StaysBased
  <2>3. \A d \in Ids : r.seen[d] <= Len(docs'[d])
    BY <1>1, <1>4, <2>1 DEF PassOK
  <2>4. InHand(r)'
    BY <1>4, <1>6 DEF InHand, Id
  <2> QED
    BY <1>4, <2>2, <2>3, <2>4 DEF PassOK, Busy
<1>8. Typed' /\ (\A p \in Paths : RowOK(p))' /\ unseen' = {}
  BY <1>1, <1>2, <1>5, Facts, RowsStay DEF Typed
<1> QED
  BY <1>1, <1>3, <1>7, <1>8, StepOK

LEMMA SaveRow_Inv ==
  ASSUME SyncInv, SaveRow
  PROVE  SyncInv'
<1>1. /\ pass.stage = "installed"
      /\ UNCHANGED <<local, docs, reflected, unseen, misread>>
      /\ \/ Abort /\ UNCHANGED prov
         \/ /\ prov' = [prov EXCEPT ![pass.doing.path] =
                                   [rev |-> pass.rev, content |-> pass.doing.content]]
            /\ pass' = Finished /\ UNCHANGED report
  BY DEF SaveRow, histVars
<1>2. CASE Abort /\ UNCHANGED prov
  BY <1>1, <1>2, Facts, Abort_Inv DEF Typed
<1>3. CASE /\ prov' = [prov EXCEPT ![pass.doing.path] =
                                   [rev |-> pass.rev, content |-> pass.doing.content]]
           /\ pass' = Finished /\ UNCHANGED report
  <2>1. PICK p, rev, c : p = pass.doing.path /\ rev = pass.rev /\ c = pass.doing.content
    OBVIOUS
  <2>2. p \in Paths /\ rev \in Nat /\ c \in Contents
    BY <1>1, <2>1, Facts DEF PassOK, Busy, Action, PassRec
  <2>3. Holds(p, rev, c) /\ <<Id(p), rev>> \in reflected
    BY <1>1, <2>1, Facts DEF PassOK, InHand
  <2>4. /\ prov \in [Paths -> Provenance \cup {NoProv}]
        /\ [rev |-> rev, content |-> c] \in Provenance
    BY <2>2, Facts DEF Typed, Provenance
  <2>5. prov' = [prov EXCEPT ![p] = [rev |-> rev, content |-> c]]
    BY <1>3, <2>1
  <2>6. prov' \in [Paths -> Provenance \cup {NoProv}] /\ prov'[p] = [rev |-> rev, content |-> c]
    BY <2>2, <2>4, <2>5
  <2>7. prov'[p].rev = rev /\ prov'[p].content = c
    BY <2>6
  <2>8. RowOK(p)'
    BY <1>1, <2>3, <2>7 DEF RowOK, RowHolds, Holds, Id
  <2>9. \A q \in Paths : q # p => prov'[q] \in {prov[q], NoProv}
    BY <2>4, <2>5
  <2>10. PICK r : r = Finished /\ PassOK(r) /\ pass' = r
    BY <1>3, FinishedOK
  <2> QED
    BY <1>1, <1>3, <2>2, <2>6, <2>8, <2>9, <2>10, RowMoves
<1> QED
  BY <1>1, <1>2, <1>3

LEMMA Quarantine_Inv ==
  ASSUME SyncInv, NEW a \in pass.todo, Quarantine(a)
  PROVE  SyncInv'
<1>1. /\ UNCHANGED <<local, docs, prov, reflected, unseen, misread>>
      /\ Abort \/ (pass' = Begun(a, "kept", 0) /\ UNCHANGED report)
  BY DEF Quarantine, histVars
<1>2. CASE Abort
  BY <1>1, <1>2, Facts, Abort_Inv DEF Typed
<1>3. CASE pass' = Begun(a, "kept", 0) /\ UNCHANGED report
  <2>1. PICK r : r = Begun(a, "kept", 0)
    OBVIOUS
  <2>2. /\ r \in PassRec /\ r.stage = "kept" /\ r.doing = a
        /\ r.todo = pass.todo \ {a} /\ r.seen = pass.seen /\ a # Nothing
    BY <2>1, BegunOK DEF Busy
  <2>3. PassOK(r)
    BY <2>2, Facts DEF PassOK, InHand, Busy
  <2> QED
    BY <1>1, <1>3, <2>1, <2>3, Facts, PassMoves DEF Typed
<1> QED
  BY <1>1, <1>2, <1>3

LEMMA Unlink_Inv ==
  ASSUME SyncInv, Unlink
  PROVE  SyncInv'
<1>1. /\ UNCHANGED <<docs, prov, reflected, unseen, misread>> /\ pass.stage = "kept"
      /\ local' = [local EXCEPT ![pass.doing.path] = Absent]
      /\ Abort \/ (pass' = [pass EXCEPT !.stage = "unlinked"] /\ UNCHANGED report)
  BY DEF Unlink, histVars
<1>2. local' \in [Paths -> Contents \cup {Absent}]
  BY <1>1, Facts DEF Typed
<1>3. CASE Abort
  BY <1>1, <1>2, <1>3, Abort_Inv
<1>4. CASE pass' = [pass EXCEPT !.stage = "unlinked"] /\ UNCHANGED report
  <2>1. PICK r : r = [pass EXCEPT !.stage = "unlinked"]
    OBVIOUS
  <2>2. /\ r \in PassRec /\ r.stage = "unlinked" /\ r.doing = pass.doing
        /\ r.todo = pass.todo /\ r.seen = pass.seen
    BY <2>1, Facts DEF PassRec, Stages
  <2>3. PassOK(r)
    BY <1>1, <2>2, GoesOn DEF Busy
  <2> QED
    BY <1>1, <1>2, <1>4, <2>1, <2>3, Facts, PassMoves DEF Typed
<1> QED
  BY <1>1, <1>3, <1>4

\* The number of a revision that a write adds.
LEMMA Added ==
  ASSUME docs \in [Ids -> Seq(Revision)], NEW v \in Revision, NEW d \in Ids,
         NEW m, m = Len(docs[d]), docs' = [docs EXCEPT ![d] = Append(@, v)],
         reflected \subseteq reflected', misread \subseteq misread'
  PROVE  /\ Grows /\ m + 1 \in Nat
         /\ m + 1 \in 1 .. Len(docs'[d]) /\ docs'[d][m + 1] = v
<1>1. m \in Nat
  OBVIOUS
<1>2. Grows /\ Len(docs'[d]) = m + 1 /\ docs'[d][m + 1] = v
  BY GrowsByOne
<1> QED
  BY <1>1, <1>2

\* A step that writes a note and no row.
LEMMA NoteMoves ==
  ASSUME SyncInv, Grows, unseen' = {}, UNCHANGED <<local, prov, report>>,
         NEW r \in PassRec, pass' = r, r.seen = pass.seen, r.todo \subseteq pass.todo,
         r.stage \in Busy, r.doing \in Action, InHand(r)'
  PROVE  SyncInv'
<1>1. PassOK(pass)'
  <2>1. PassOK(pass) /\ \A a \in r.todo : Based(a)'
    BY Facts, StaysBased
  <2>2. \A d \in Ids : r.seen[d] <= Len(docs'[d])
    <3> SUFFICES ASSUME NEW d \in Ids PROVE r.seen[d] <= Len(docs'[d])
      OBVIOUS
    <3>1. r.seen[d] \in Nat /\ r.seen[d] <= Len(docs[d])
      BY <2>1 DEF PassOK, PassRec
    <3>2. Len(docs[d]) <= Len(docs'[d]) /\ Len(docs[d]) \in Nat /\ Len(docs'[d]) \in Nat
      BY DEF Grows
    <3> QED
      BY <3>1, <3>2
  <2>3. r.doing # Nothing
    BY NothingIsNoAction
  <2>4. PassOK(r)'
    BY <2>1, <2>2, <2>3 DEF PassOK
  <2> QED
    BY <2>4 DEF PassOK, InHand, Based, Holds, Id
<1>2. Typed' /\ (\A p \in Paths : RowOK(p))'
  BY Facts, RowsStay DEF Typed, Grows
<1> QED
  BY <1>1, <1>2 DEF SyncInv

LEMMA Refused_Inv ==
  ASSUME SyncInv, NEW a \in pass.todo, Refused(a), UNCHANGED <<local, prov, report>>
  PROVE  SyncInv'
<1>1. /\ pass' = [pass EXCEPT !.todo = @ \ {a}, !.ok = FALSE]
      /\ UNCHANGED <<docs, reflected, unseen, misread>>
  BY DEF Refused, histVars
<1>2. PICK r : r = [pass EXCEPT !.todo = @ \ {a}, !.ok = FALSE]
  OBVIOUS
<1>3. /\ r \in PassRec /\ r.stage = pass.stage /\ r.doing = pass.doing
      /\ r.todo = pass.todo \ {a} /\ r.seen = pass.seen /\ r.rev = pass.rev
  BY <1>2, Facts DEF PassRec
<1>4. PassOK(r)
  BY <1>3, GoesOn
<1> QED
  BY <1>1, <1>2, <1>4, Facts, PassMoves DEF Typed

LEMMA Put_Inv ==
  ASSUME SyncInv, NEW a \in pass.todo, Put(a)
  PROVE  SyncInv'
<1>1. a \in Action /\ Based(a) /\ a.kind \in {"push", "rename", "recase"}
  BY Facts DEF Put, Turn
<1>2. UNCHANGED <<local, prov, report>>
  BY DEF Put
<1>3. a.path \in Paths /\ a.bytes \in Contents
  BY <1>1 DEF Action
<1>4. CASE Refused(a)
  BY <1>2, <1>4, Refused_Inv
<1>5. ASSUME NEW text \in Stored(a.bytes),
             Extends(a.path, IF a.kind = "rename" THEN 0 ELSE a.rev),
             Writes([path |-> a.path, content |-> text, deleted |-> FALSE], TRUE, Stored(a.content)),
             pass' = Begun(a, "stored", Current(a.path) + 1)
      PROVE  SyncInv'
  <2>a. PICK v : v = [path |-> a.path, content |-> text, deleted |-> FALSE]
    OBVIOUS
  <2>b. v \in Revision /\ v.path = a.path /\ ~v.deleted
    BY <1>3, <2>a, StoredType DEF Revision
  <2>c. Writes(v, TRUE, Stored(a.content))
    BY <1>5, <2>a
  <2>1. PICK d, m, n : d = Id(a.path) /\ m = Len(docs[d]) /\ n = m + 1
    OBVIOUS
  <2>2. n = Current(a.path) + 1 /\ (m = 0 \/ <<d, m>> \in reflected)
    BY <1>1, <1>5, <2>1 DEF Extends, Based, Current
  <2>3. /\ Grows /\ unseen' = {} /\ n \in Nat
        /\ n \in 1 .. Len(docs'[d]) /\ docs'[d][n] = v
        /\ <<d, n>> \in reflected'
        /\ v.content \in Stored(a.content) \/ <<d, n>> \in misread'
    <3>1. /\ docs' = [docs EXCEPT ![d] = Append(@, v)]
          /\ reflected' = reflected \cup {<<d, n>>}
          /\ unseen' = IF m = 0 \/ <<d, m>> \in reflected THEN unseen ELSE unseen \cup {<<d, m>>}
          /\ misread' = IF v.content \in Stored(a.content) THEN misread ELSE misread \cup {<<d, n>>}
      BY <2>b, <2>c, <2>1 DEF Writes
    <3>2. d \in Ids
      BY <1>3, <2>1, IdsOfPaths
    <3>3. reflected \subseteq reflected' /\ misread \subseteq misread'
      BY <3>1
    <3>4. docs \in [Ids -> Seq(Revision)]
      BY Facts DEF Typed
    <3>5. /\ Grows /\ m + 1 \in Nat
          /\ m + 1 \in 1 .. Len(docs'[d]) /\ docs'[d][m + 1] = v
      BY <2>b, <2>1, <3>1, <3>2, <3>3, <3>4, Added
    <3>6. unseen' = {}
      BY <2>2, <3>1, Facts
    <3> QED
      BY <2>1, <3>1, <3>5, <3>6
  <2>4. PICK r : r = Begun(a, "stored", n)
    OBVIOUS
  <2>5. /\ r \in PassRec /\ r.stage = "stored" /\ r.doing = a /\ r.rev = n
        /\ r.todo = pass.todo \ {a} /\ r.seen = pass.seen
    BY <2>3, <2>4, BegunOK DEF Busy
  <2>6. Based(a)'
    BY <1>1, <2>3, StaysBased
  <2>7. Holds(a.path, n, a.content)' /\ <<Id(a.path), n>> \in reflected'
    <3>2. \/ docs'[d][n].content \in {a.content} \cup Stored(a.content) /\ ~docs'[d][n].deleted
          \/ <<d, n>> \in misread'
      BY <2>b, <2>3
    <3>3. (n \in 1 .. Len(docs[Id(a.path)]))'
      BY <2>1, <2>3
    <3>4. (\/ docs[Id(a.path)][n].content \in {a.content} \cup Stored(a.content) /\ ~docs[Id(a.path)][n].deleted
           \/ <<Id(a.path), n>> \in misread)'
      BY <2>1, <3>2 DEF Stored
    <3> QED
      BY <2>1, <2>3, <3>3, <3>4 DEF Holds
  <2>8. InHand(r)'
    BY <2>5, <2>6, <2>7 DEF InHand
  <2>9. pass' = r
    BY <1>5, <2>2, <2>4
  <2> QED
    BY <1>1, <1>2, <2>3, <2>5, <2>8, <2>9, NoteMoves DEF Busy
<1> QED
  BY <1>4, <1>5 DEF Put

LEMMA Record_Inv ==
  ASSUME SyncInv, Record
  PROVE  SyncInv'
<1>1. PICK a : a = pass.doing
  OBVIOUS
<1>2. /\ pass.stage = "stored"
      /\ UNCHANGED <<local, docs, report, reflected, unseen, misread>>
      /\ prov' = [(IF a.kind = "recase" THEN [prov EXCEPT ![a.old] = NoProv] ELSE prov)
                    EXCEPT ![a.path] = [rev |-> pass.rev, content |-> a.content]]
      /\ pass' = IF a.kind = "rename" THEN [pass EXCEPT !.stage = "renamed"] ELSE Finished
  BY <1>1 DEF Record, histVars
<1>3. PICK p, rev, c : p = a.path /\ rev = pass.rev /\ c = a.content
  OBVIOUS
<1>4. a \in Action /\ p \in Paths /\ rev \in Nat /\ c \in Contents
  BY <1>1, <1>2, <1>3, Facts DEF PassOK, Busy, Action, PassRec
<1>5. Holds(p, rev, c) /\ <<Id(p), rev>> \in reflected
  BY <1>1, <1>2, <1>3, Facts DEF PassOK, InHand
<1>6. /\ prov \in [Paths -> Provenance \cup {NoProv}]
      /\ [rev |-> rev, content |-> c] \in Provenance
  BY <1>4, Facts DEF Typed, Provenance
<1>7. /\ prov'[p] = [rev |-> rev, content |-> c]
      /\ \A q \in Paths : q # p => prov'[q] \in {prov[q], NoProv}
      /\ prov' \in [Paths -> Provenance \cup {NoProv}]
  <2>1. PICK row : row = [rev |-> rev, content |-> c]
    OBVIOUS
  <2>2. PICK others : others = IF a.kind = "recase" THEN [prov EXCEPT ![a.old] = NoProv] ELSE prov
    OBVIOUS
  <2>3. /\ others \in [Paths -> Provenance \cup {NoProv}]
        /\ \A q \in Paths : others[q] \in {prov[q], NoProv}
    BY <1>6, <2>2
  <2>4. prov' = [others EXCEPT ![p] = row]
    BY <1>2, <1>3, <2>1, <2>2
  <2> QED
    BY <1>4, <1>6, <2>1, <2>3, <2>4
<1>8. RowOK(p)'
  <2>1. prov'[p].rev = rev /\ prov'[p].content = c
    BY <1>7
  <2> QED
    BY <1>2, <1>5, <2>1 DEF RowOK, RowHolds, Holds, Id
<1>9. \E r : pass' = r /\ PassOK(r)
  <2>1. CASE a.kind = "rename"
    <3>1. PICK r : r = [pass EXCEPT !.stage = "renamed"]
      OBVIOUS
    <3>2. /\ r \in PassRec /\ r.stage = "renamed" /\ r.doing = pass.doing
          /\ r.todo = pass.todo /\ r.seen = pass.seen
      BY <3>1, Facts DEF PassRec, Stages
    <3>3. PassOK(r)
      BY <1>1, <1>2, <2>1, <3>2, GoesOn DEF Busy
    <3> QED
      BY <1>2, <2>1, <3>1, <3>3
  <2>2. CASE a.kind # "rename"
    BY <1>2, <2>2, FinishedOK
  <2> QED
    BY <2>1, <2>2
<1> QED
  BY <1>2, <1>4, <1>7, <1>8, <1>9, RowMoves

\* A deletion on top of a revision that was in the vault.
LEMMA Deletes ==
  ASSUME SyncInv, NEW p \in Paths, NEW rev, Extends(p, rev), <<Id(p), rev>> \in reflected,
         Writes([path |-> p, content |-> Empty, deleted |-> TRUE], FALSE, {Empty})
  PROVE  Grows /\ unseen' = {}
<1>1. PICK d, m : d = Id(p) /\ m = Len(docs[d])
  OBVIOUS
<1>2. PICK v : v = [path |-> p, content |-> Empty, deleted |-> TRUE]
  OBVIOUS
<1>3. v \in Revision /\ v.path = p /\ v.content = Empty /\ d \in Ids
  BY <1>1, <1>2, PassAssumption, IdsOfPaths DEF Revision
<1>4. <<d, m>> \in reflected
  BY <1>1 DEF Extends, Current
<1>5. /\ docs' = [docs EXCEPT ![d] = Append(@, v)]
      /\ reflected' = reflected /\ misread' = misread
      /\ unseen' = IF m = 0 \/ <<d, m>> \in reflected THEN unseen ELSE unseen \cup {<<d, m>>}
  BY <1>1, <1>2, <1>3 DEF Writes
<1>6. docs \in [Ids -> Seq(Revision)]
  BY Facts DEF Typed
<1>7. Grows
  BY <1>3, <1>5, <1>6, GrowsByOne
<1> QED
  BY <1>4, <1>5, <1>7, Facts

LEMMA Delete_Inv ==
  ASSUME SyncInv, NEW a \in pass.todo, Delete(a)
  PROVE  SyncInv'
<1>1. a \in Action /\ Based(a) /\ a.kind = "delete" /\ a.path \in Paths
  BY Facts DEF Delete, Turn, Action
<1>2. UNCHANGED <<local, prov, report>>
  BY DEF Delete
<1>3. CASE Refused(a)
  BY <1>2, <1>3, Refused_Inv
<1>4. CASE /\ Extends(a.path, a.rev)
           /\ Writes([path |-> a.path, content |-> Empty, deleted |-> TRUE], FALSE, {Empty})
           /\ pass' = Begun(a, "retired", 0)
  <2>1. <<Id(a.path), a.rev>> \in reflected
    BY <1>1 DEF Based
  <2>2. Grows /\ unseen' = {}
    BY <1>1, <1>4, <2>1, Deletes
  <2>3. PICK r : r = Begun(a, "retired", 0)
    OBVIOUS
  <2>4. /\ r \in PassRec /\ r.stage = "retired" /\ r.doing = a
        /\ r.todo = pass.todo \ {a} /\ r.seen = pass.seen
    BY <2>3, BegunOK DEF Busy
  <2>5. Based(a)'
    BY <1>1, <2>2, StaysBased
  <2>6. InHand(r)'
    BY <2>4, <2>5 DEF InHand
  <2> QED
    BY <1>1, <1>2, <1>4, <2>2, <2>3, <2>4, <2>6, NoteMoves DEF Busy
<1> QED
  BY <1>3, <1>4 DEF Delete

LEMMA Retire_Inv ==
  ASSUME SyncInv, Retire
  PROVE  SyncInv'
<1>1. PICK a : a = pass.doing
  OBVIOUS
<1>2. pass.stage = "renamed" /\ UNCHANGED <<local, prov, report>>
  BY DEF Retire
<1>3. a \in Action /\ Based(a) /\ a.kind = "rename" /\ a.old \in Paths
  BY <1>1, <1>2, Facts, NothingIsNoAction DEF PassOK, InHand, Busy, Action
<1>4. CASE /\ pass' = [Finished EXCEPT !.ok = FALSE]
           /\ UNCHANGED <<docs, histVars>>
  <2>1. PICK r : r = [Finished EXCEPT !.ok = FALSE] /\ PassOK(r)
    BY FinishedOK
  <2>2. UNCHANGED <<docs, reflected, unseen, misread>>
    BY <1>4 DEF histVars
  <2> QED
    BY <1>2, <1>4, <2>1, <2>2, Facts, PassMoves DEF Typed
<1>5. CASE /\ Extends(a.old, a.rev)
           /\ Writes([path |-> a.old, content |-> Empty, deleted |-> TRUE], FALSE, {Empty})
           /\ pass' = [pass EXCEPT !.stage = "retired"]
  <2>1. <<Id(a.old), a.rev>> \in reflected
    BY <1>3 DEF Based
  <2>2. Grows /\ unseen' = {}
    BY <1>3, <1>5, <2>1, Deletes
  <2>3. PICK r : r = [pass EXCEPT !.stage = "retired"]
    OBVIOUS
  <2>4. /\ r \in PassRec /\ r.stage = "retired" /\ r.doing = a
        /\ r.todo = pass.todo /\ r.seen = pass.seen
    BY <1>1, <2>3, Facts DEF PassRec, Stages
  <2>5. Based(a)'
    BY <1>3, <2>2, StaysBased
  <2>6. InHand(r)'
    BY <2>4, <2>5 DEF InHand
  <2> QED
    BY <1>2, <1>3, <1>5, <2>2, <2>3, <2>4, <2>6, NoteMoves DEF Busy
<1> QED
  BY <1>1, <1>4, <1>5 DEF Retire

LEMMA Forget_Inv ==
  ASSUME SyncInv, Forget
  PROVE  SyncInv'
<1>1. PICK p : p = pass.doing.old
  OBVIOUS
<1>2. /\ pass.stage \in {"unlinked", "retired"}
      /\ prov' = [prov EXCEPT ![p] = NoProv] /\ pass' = Finished
      /\ UNCHANGED <<local, docs, report, reflected, unseen, misread>>
  BY <1>1 DEF Forget, histVars
<1>3. p \in Paths
  BY <1>1, <1>2, Facts DEF PassOK, Busy, Action
<1>4. prov \in [Paths -> Provenance \cup {NoProv}]
  BY Facts DEF Typed
<1>5. /\ prov' \in [Paths -> Provenance \cup {NoProv}] /\ prov'[p] = NoProv
      /\ \A q \in Paths : q # p => prov'[q] \in {prov[q], NoProv}
  BY <1>2, <1>3, <1>4
<1>6. RowOK(p)'
  BY <1>5 DEF RowOK
<1>7. PICK r : r = Finished /\ PassOK(r)
  BY FinishedOK
<1> QED
  BY <1>2, <1>3, <1>5, <1>6, <1>7, RowMoves

LEMMA EndPass_Inv ==
  ASSUME SyncInv, EndPass
  PROVE  SyncInv'
<1>1. /\ pass' = IdlePass /\ UNCHANGED <<local, docs, prov, reflected, unseen, misread>>
      /\ report' \in {report, "converged", "errors"}
  BY DEF EndPass, histVars
<1>2. PassOK(IdlePass)
  BY IdleOK, Facts DEF Typed
<1> QED
  BY <1>1, <1>2, Facts, PassMoves DEF Typed

LEMMA Faults_Inv ==
  ASSUME SyncInv, FaultNext
  PROVE  SyncInv'
<1>1. ASSUME NEW a \in pass.todo, PutFails(a) PROVE SyncInv'
  BY <1>1, Refused_Inv DEF PutFails
<1>2. CASE RetireFails
  <2>1. PICK r : r = [Finished EXCEPT !.ok = FALSE] /\ PassOK(r)
    BY FinishedOK
  <2>2. UNCHANGED <<local, docs, prov, report, reflected, unseen, misread>> /\ pass' = r
    BY <1>2, <2>1 DEF RetireFails, histVars
  <2> QED
    BY <2>1, <2>2, Facts, PassMoves DEF Typed
<1>3. CASE PassThrows
  <2>1. Abort /\ UNCHANGED <<local, docs, prov, reflected, unseen, misread>>
    BY <1>3 DEF PassThrows, histVars
  <2> QED
    BY <2>1, Facts, Abort_Inv DEF Typed
<1> QED
  BY <1>1, <1>2, <1>3, Readings_Inv DEF FaultNext

-----------------------------------------------------------------------------

LEMMA Next_Inv ==
  ASSUME SyncInv, [Next]_passVars
  PROVE  SyncInv'
<1>1. CASE UNCHANGED passVars
  <2>1. /\ UNCHANGED <<local, docs, prov, report, reflected, unseen, misread>>
        /\ pass' = pass
    BY <1>1 DEF passVars, histVars
  <2>2. PICK r : r = pass /\ PassOK(r)
    BY Facts
  <2> QED
    BY <2>1, <2>2, Facts, PassMoves DEF Typed
<1>2. CASE WorldNext
  BY <1>2, World_Inv
<1>3. CASE FaultNext
  BY <1>3, Faults_Inv
<1>4. CASE ReadNext
  BY <1>4, BeginPass_Inv, ScanFile_Inv, Readings_Inv, Plan_Inv DEF ReadNext
<1>5. CASE ApplyNext
  BY <1>5, Install_Inv, Quarantine_Inv, Put_Inv, Delete_Inv, SaveRow_Inv, Unlink_Inv,
     Record_Inv, Retire_Inv, Forget_Inv, EndPass_Inv DEF ApplyNext
<1> QED
  BY <1>1, <1>2, <1>3, <1>4, <1>5 DEF Next, PassNext

\* Of two twins one file is there at most, so that its note is its own.
LEMMA OneTwin ==
  ASSUME NEW present, present \subseteq Paths, Cardinality(present \cap Twins) <= 1
  PROVE  \A p, q \in present : Id(p) = Id(q) => p = q
<1> SUFFICES ASSUME NEW p \in present, NEW q \in present, Id(p) = Id(q), p # q PROVE FALSE
  OBVIOUS
<1>1. p \in Twins /\ q \in Twins
  BY IdInTwins
<1>2. IsFiniteSet(present \cap Twins) /\ {p, q} \subseteq present \cap Twins
  <2>1. IsFiniteSet(Paths) /\ present \cap Twins \subseteq Paths
    BY PassAssumption
  <2> QED
    BY <1>1, <2>1, FS_Subset
<1>3. Cardinality({p, q}) = 2
  <2>1. IsFiniteSet({p}) /\ Cardinality({p}) = 1
    BY FS_Singleton
  <2>2. q \notin {p} /\ {p} \cup {q} = {p, q}
    OBVIOUS
  <2>3. Cardinality({p} \cup {q}) = Cardinality({p}) + 1
    BY <2>1, <2>2, FS_AddElement
  <2> QED
    BY <2>1, <2>2, <2>3
<1>4. /\ Cardinality({p, q}) <= Cardinality(present \cap Twins)
      /\ Cardinality(present \cap Twins) \in Nat
  BY <1>2, FS_Subset, FS_CardinalityType
<1> QED
  BY <1>3, <1>4

\* Vault, notes and rows as an earlier pass left them.
LEMMA Init_Inv == PassInit => SyncInv
<1> SUFFICES ASSUME PassInit PROVE SyncInv
  OBVIOUS
<1>1. PICK files \in [Paths -> (Contents \ {Empty}) \cup {Absent}] :
    LET present == {p \in Paths : files[p] # Absent} IN
    /\ Cardinality(present \cap Twins) <= 1
    /\ local = files
    /\ docs = [d \in Ids |-> IF \E p \in present : Id(p) = d
                             THEN LET p == CHOOSE q \in present : Id(q) = d
                                  IN <<[path |-> p, content |-> files[p], deleted |-> FALSE]>>
                             ELSE <<>>]
    /\ prov = [p \in Paths |-> IF p \in present THEN [rev |-> 1, content |-> files[p]] ELSE NoProv]
    /\ reflected = {<<Id(p), 1>> : p \in present}
    /\ unseen = {} /\ misread = {}
    /\ pass = IdlePass /\ report = "none"
    /\ edits = 0 /\ writes = 0 /\ faults = 0
  BY DEF PassInit
<1>2. PICK present : present = {p \in Paths : files[p] # Absent}
  OBVIOUS
<1>3. \A p \in present : p \in Paths /\ files[p] \in Contents
  BY <1>2
<1>4. \A p, q \in present : Id(p) = Id(q) => p = q
  BY <1>1, <1>2, OneTwin
<1>5. \A d \in Ids :
        \/ docs[d] = <<>>
        \/ \E p \in present : /\ Id(p) = d
                             /\ docs[d] = <<[path |-> p, content |-> files[p], deleted |-> FALSE]>>
  BY <1>1, <1>2
<1>6. \A p \in present : docs[Id(p)] = <<[path |-> p, content |-> files[p], deleted |-> FALSE]>>
  BY <1>1, <1>2, <1>3, <1>4, IdsOfPaths
<1>7. Typed
  <2>1. local \in [Paths -> Contents \cup {Absent}]
    BY <1>1
  <2>2. docs \in [Ids -> Seq(Revision)]
    <3>1. \A p \in present : [path |-> p, content |-> files[p], deleted |-> FALSE] \in Revision
      BY <1>3 DEF Revision
    <3>2. \A d \in Ids : docs[d] = <<>> \/ \E v \in Revision : docs[d] = <<v>>
      BY <1>5, <3>1
    <3>3. <<>> \in Seq(Revision) /\ \A v \in Revision : <<v>> \in Seq(Revision)
      OBVIOUS
    <3>4. \A d \in Ids : docs[d] \in Seq(Revision)
      BY <3>2, <3>3
    <3>5. docs = [d \in Ids |-> docs[d]]
      BY <1>1
    <3> QED
      BY <3>4, <3>5
  <2>3. prov \in [Paths -> Provenance \cup {NoProv}]
    BY <1>1, <1>2, <1>3 DEF Provenance
  <2> QED
    BY <1>1, <2>1, <2>2, <2>3 DEF Typed
<1>8. ASSUME NEW p \in Paths PROVE RowOK(p)
  <2> SUFFICES ASSUME prov[p] # NoProv PROVE RowHolds(p)
    BY DEF RowOK
  <2>1. p \in present /\ prov[p].rev = 1 /\ prov[p].content = files[p]
    BY <1>1, <1>2
  <2>2. Len(docs[Id(p)]) = 1 /\ docs[Id(p)][1].content = files[p] /\ ~docs[Id(p)][1].deleted
    <3>1. PICK v : v = [path |-> p, content |-> files[p], deleted |-> FALSE]
      OBVIOUS
    <3>2. docs[Id(p)] = <<v>>
      BY <1>6, <2>1, <3>1
    <3>3. Len(docs[Id(p)]) = 1 /\ docs[Id(p)][1] = v
      BY <3>2
    <3>4. v.content = files[p] /\ ~v.deleted
      BY <3>1
    <3> QED
      BY <3>3, <3>4
  <2>3. <<Id(p), 1>> \in reflected
    BY <1>1, <1>2, <2>1
  <2> QED
    BY <2>1, <2>2, <2>3 DEF RowHolds, Holds
<1>9. PassOK(pass)
  BY <1>1, <1>7, IdleOK DEF Typed
<1> QED
  BY <1>1, <1>7, <1>8, <1>9 DEF SyncInv

\* Rows, plan and the action in hand are about revisions that there are and that
\* were in the vault, whatever happened since the inventory was read.
THEOREM SyncInvariant == PassSpec => []SyncInv
<1> QED
  BY Init_Inv, Next_Inv, PTL DEF PassSpec

\* A row tells the truth about the revision it names, whatever the user, other
\* clients and lost answers did between the readings of the pass and the row.
THEOREM RowsTellTheTruth == PassSpec => []RowsAreTrue
<1>1. ASSUME SyncInv PROVE RowsAreTrue
  BY <1>1, Facts DEF RowsAreTrue, RowOK, RowHolds, Holds, Note, Current
<1> QED
  BY <1>1, SyncInvariant, PTL

\* A pass replaces or deletes no revision that was never in the vault.
THEOREM NothingSupersededUnseen == PassSpec => []SupersedesReflected
<1>1. ASSUME SyncInv PROVE SupersedesReflected
  BY <1>1, Facts DEF SupersedesReflected
<1> QED
  BY <1>1, SyncInvariant, PTL

-----------------------------------------------------------------------------
(* Convergence: what the plan and the pass are about *)

\* Revision rev of the note is p's own: written under that name.
Own(p, rev) == rev \in 1 .. Current(p) /\ Note(p, rev).path = p

\* What an action builds on is of its own path, or of the path it renames.
Named(a) ==
  /\ a.kind \in {"pull", "quarantine", "delete"} => Own(a.path, a.rev)
  /\ a.kind = "push" => a.rev = 0 \/ Own(a.path, a.rev)
  /\ a.kind \in {"rename", "recase"} => Own(a.old, a.rev) /\ a.old # a.path
  /\ a.kind \notin {"rename", "recase"} => a.old = a.path
  /\ a.kind = "recase" => Id(a.old) = Id(a.path)
  /\ a.kind # "conflict"

Concerns(a, p) == p = a.path \/ p = a.old

\* The actions still to be done or finished.
InPlay == pass.todo \cup ({pass.doing} \ {Nothing})

\* No other action concerns a path whose file an action writes.
Apart(S) ==
  \A a, b \in S : b.kind \in {"pull", "quarantine"} /\ Concerns(a, b.path) => a = b

Reads == {"scan", "read", "plan"}

NamedInv ==
  /\ \A p \in Paths : prov[p] # NoProv => Own(p, prov[p].rev)
  /\ \A a \in InPlay : Named(a)
  /\ Apart(InPlay)
  /\ pass.doing # Nothing => pass.doing.kind \in KindOf(pass.stage)
  /\ pass.stage \in {"installed", "stored"} => Own(pass.doing.path, pass.rev)
  /\ pass.stage \in Reads => pass.todo = {}
  /\ pass.doing \notin pass.todo

Top(p) == Note(p, Current(p))

\* File and note of p are equal, or a pass has nothing to do about it.
Settled(p) ==
  \/ local[p] = Absent /\ Remote(p) \in {Absent, Garbled}
  \/ /\ local[p] # Absent /\ prov[p] # NoProv
     /\ Top(p).path # p \/ Top(p).content = Garbled
  \/ /\ local[p] # Absent /\ Remote(p) # Absent
     /\ \/ local[p] = Remote(p)
        \/ prov[p] = NoProv
        \/ /\ prov[p].rev = Current(p) /\ prov[p].content = local[p]
           /\ Top(p).content \in Stored(local[p]) \/ <<Id(p), Current(p)>> \in misread

\* The vault and the note are as the plan took them to be.
Ready(a) ==
  /\ a.kind \in {"push", "rename", "recase"} => local[a.path] = a.content
  /\ a.kind \in {"rename", "recase", "delete"} => local[a.old] = Absent
  /\ a.kind \in {"pull", "quarantine"} => a.rev = Current(a.path)
  /\ a.kind = "pull" => ~Top(a.path).deleted /\ Top(a.path).content = a.content
  /\ a.kind = "quarantine" => Top(a.path).deleted

\* Where the action that is being done has got to.
Halfway ==
  LET p == pass.doing.path
      o == pass.doing.old
  IN
  /\ pass.stage = "installed" => local[p] = pass.doing.content /\ Remote(p) = pass.doing.content
  /\ pass.stage = "kept" => Ready(pass.doing)
  /\ pass.stage \in {"unlinked", "retired"} => local[o] = Absent /\ Remote(o) = Absent
  /\ pass.stage = "stored" =>
       /\ local[p] = pass.doing.content
       /\ pass.rev = Current(p) /\ ~Top(p).deleted
       /\ Top(p).content \in Stored(pass.doing.content) \/ <<Id(p), Current(p)>> \in misread
  /\ pass.stage \in {"stored", "renamed"} /\ pass.doing.kind \in {"rename", "recase"} =>
       local[o] = Absent
  /\ pass.stage \in {"renamed", "retired"} => Settled(p)

\* A pass that nobody disturbed and that met no error has read the truth, and
\* every path is settled or waits for an action.
Progress ==
  /\ pass.quiet /\ pass.stage \in Reads =>
       /\ \A d \in Ids : pass.seen[d] = Len(docs[d])
       /\ \A p \in Paths : pass.stage # "scan" \/ p \notin pass.waiting => pass.hash[p] = local[p]
  /\ pass.quiet /\ pass.ok /\ pass.stage \notin Reads \cup {"idle"} =>
       /\ \A a \in pass.todo : Ready(a)
       /\ Halfway
       /\ \A p \in Paths : Settled(p) \/ \E a \in InPlay : Concerns(a, p)

\* A write that CouchDB will refuse.
Doomed(a) ==
  /\ a.kind \in {"push", "rename", "recase"}
  /\ ~Extends(a.path, IF a.kind = "rename" THEN 0 ELSE a.rev)

\* After convergence the next pass changes nothing.
Converged ==
  report = "converged" =>
    /\ pass.quiet /\ pass.stage \in Reads \cup {"idle", "apply"}
    /\ \A p \in Paths : Settled(p)
    /\ \A a \in pass.todo : Doomed(a)

SettleInv == NamedInv /\ Progress /\ Converged

-----------------------------------------------------------------------------
(* Names *)

LEMMA OwnStays ==
  ASSUME Grows, NEW p \in Paths, NEW rev, Own(p, rev)
  PROVE  Own(p, rev)'
<1>1. Id(p) \in Ids
  BY IdsOfPaths
<1>2. /\ Len(docs[Id(p)]) \in Nat /\ Len(docs'[Id(p)]) \in Nat
      /\ Len(docs[Id(p)]) <= Len(docs'[Id(p)])
  BY <1>1 DEF Grows
<1>3. rev \in 1 .. Len(docs[Id(p)]) /\ docs'[Id(p)][rev] = docs[Id(p)][rev]
  BY <1>1 DEF Grows, Own, Current
<1>4. rev \in 1 .. Len(docs'[Id(p)])
  BY <1>2, <1>3
<1> QED
  BY <1>3, <1>4 DEF Own, Current, Note, Id

LEMMA NamedStays ==
  ASSUME Grows, NEW a \in Action, Named(a)
  PROVE  Named(a)'
<1>1. a.path \in Paths /\ a.old \in Paths
  BY DEF Action
<1>2. /\ a.kind \in {"pull", "quarantine", "delete"} => Own(a.path, a.rev)'
      /\ a.kind = "push" => a.rev = 0 \/ Own(a.path, a.rev)'
      /\ a.kind \in {"rename", "recase"} => Own(a.old, a.rev)' /\ a.old # a.path
  BY <1>1, OwnStays DEF Named
<1> QED
  BY <1>2 DEF Named, Id

\* What a step has to show that takes up nothing new.
LEMMA NamedGoesOn ==
  ASSUME SyncInv, NamedInv, Grows, NEW r, pass' = r,
         \A p \in Paths : prov'[p] \in {prov[p], NoProv}
                          \/ \E n : prov'[p].rev = n /\ Own(p, n)',
         r.todo \subseteq pass.todo, r.doing \in InPlay \cup {Nothing},
         r.doing # Nothing => r.doing.kind \in KindOf(r.stage),
         r.stage \in {"installed", "stored"} => Own(r.doing.path, r.rev)',
         r.stage \in Reads => r.todo = {}, r.doing \notin r.todo
  PROVE  NamedInv'
<1>1. InPlay' \subseteq InPlay /\ InPlay \subseteq Action
  BY Facts DEF InPlay
<1>2. \A a \in InPlay' : Named(a)'
  BY <1>1, NamedStays DEF NamedInv
<1>3. Apart(InPlay)'
  BY <1>1 DEF NamedInv, Apart, Concerns
<1>4. ASSUME NEW p \in Paths, prov'[p] # NoProv PROVE Own(p, prov[p].rev)'
  <2>1. CASE prov'[p] = prov[p]
    <3>1. PICK n : n = prov[p].rev
      OBVIOUS
    <3>2. Own(p, n)'
      BY <1>4, <2>1, <3>1, OwnStays DEF NamedInv
    <3> QED
      BY <2>1, <3>1, <3>2 DEF Own
  <2>2. CASE \E n : prov'[p].rev = n /\ Own(p, n)'
    BY <2>2 DEF Own
  <2> QED
    BY <1>4, <2>1, <2>2
<1>5. /\ pass'.doing # Nothing => pass'.doing.kind \in KindOf(pass'.stage)
      /\ pass'.stage \in {"installed", "stored"} => Own(pass.doing.path, pass.rev)'
  BY DEF Own, Current, Note, Id
<1> QED
  BY <1>2, <1>3, <1>4, <1>5 DEF NamedInv, KindOf, Reads

-----------------------------------------------------------------------------
(* What a step leaves alone *)

\* File, row and note of p are as they were.
Untouched(p) ==
  /\ local'[p] = local[p] /\ prov'[p] = prov[p] /\ docs'[Id(p)] = docs[Id(p)]
  /\ misread \subseteq misread'

LEMMA NoteUntouched ==
  ASSUME NEW p \in Paths, docs'[Id(p)] = docs[Id(p)]
  PROVE  /\ Current(p)' = Current(p) /\ Top(p)' = Top(p) /\ Remote(p)' = Remote(p)
         /\ \A n : Note(p, n)' = Note(p, n)
BY DEF Current, Top, Remote, Note, Id

LEMMA StaysSettled ==
  ASSUME NEW p \in Paths, Untouched(p), Settled(p)
  PROVE  Settled(p)'
<1>1. /\ Current(p)' = Current(p) /\ Top(p)' = Top(p) /\ Remote(p)' = Remote(p)
      /\ local'[p] = local[p] /\ prov'[p] = prov[p]
      /\ <<Id(p), Current(p)>> \in misread => <<Id(p), Current(p)>>' \in misread'
  BY NoteUntouched DEF Untouched, Id
<1> QED
  BY <1>1 DEF Settled

\* A write for q that CouchDB accepts is the first of its note, or on top of a
\* revision of q, or of o when it renames that in case.
Writing(q, o, v) ==
  /\ docs' = [docs EXCEPT ![Id(q)] = Append(@, v)]
  /\ v.path = q /\ Id(o) = Id(q)
  /\ Current(q) = 0 \/ Own(q, Current(q)) \/ Own(o, Current(o))
  /\ misread \subseteq misread'

LEMMA WritesItsOwn ==
  ASSUME SyncInv, NEW p \in Paths, NEW q \in Paths, NEW o \in Paths,
         NEW v \in Revision, Writing(q, o, v)
  PROVE  /\ Current(q)' = Current(q) + 1 /\ Current(q)' # 0 /\ Top(q)' = v
         /\ p # q /\ p # o /\ Own(p, Current(p)) => docs'[Id(p)] = docs[Id(p)]
         /\ Id(p) # Id(q) => docs'[Id(p)] = docs[Id(p)]
         /\ Id(p) = Id(q) => Top(p)' = v /\ Current(p)' # 0
         /\ p # q /\ Remote(p) = Absent => Remote(p)' = Absent
<1>1. docs \in [Ids -> Seq(Revision)] /\ Id(p) \in Ids /\ Id(q) \in Ids
  BY Facts, IdsOfPaths DEF Typed
<1>2. /\ docs'[Id(q)] = Append(docs[Id(q)], v) /\ docs[Id(q)] \in Seq(Revision)
      /\ Id(p) # Id(q) => docs'[Id(p)] = docs[Id(p)]
  BY <1>1 DEF Writing
<1>3. /\ Len(docs[Id(q)]) \in Nat
      /\ Len(docs'[Id(q)]) = Len(docs[Id(q)]) + 1
      /\ docs'[Id(q)][Len(docs[Id(q)]) + 1] = v
  BY <1>2
<1>4. /\ Current(q)' = Current(q) + 1 /\ Current(q)' # 0 /\ Top(q)' = v
      /\ Id(p) = Id(q) => Top(p)' = v /\ Current(p)' # 0 /\ Current(p) = Current(q)
                          /\ Top(p) = Top(q)
  BY <1>3 DEF Current, Top, Note, Id
<1>5. \/ Current(q) = 0
      \/ Top(q).path = q \/ Top(q).path = o
  <2>1. Own(q, Current(q)) => Top(q).path = q
    BY DEF Own, Top
  <2>2. Own(o, Current(o)) => Top(o).path = o
    BY DEF Own, Top
  <2>3. Top(o) = Top(q)
    BY DEF Writing, Top, Note, Current
  <2> QED
    BY <2>1, <2>2, <2>3 DEF Writing
<1>6. Own(p, Current(p)) => Current(p) # 0 /\ Top(p).path = p
  BY <1>1 DEF Own, Top, Current
<1>7. p # q /\ p # o /\ Own(p, Current(p)) => docs'[Id(p)] = docs[Id(p)]
  BY <1>2, <1>4, <1>5, <1>6
<1>8. p # q /\ Remote(p) = Absent => Remote(p)' = Absent
  <2>1. CASE Id(p) # Id(q)
    BY <1>2, <2>1, NoteUntouched
  <2>2. CASE Id(p) = Id(q)
    <3>1. Top(p)'.path = q
      BY <1>4, <2>2 DEF Writing
    <3> QED
      BY <3>1 DEF Remote, Top
  <2> QED
    BY <2>1, <2>2
<1> QED
  BY <1>2, <1>4, <1>7, <1>8

\* A write for one path leaves every other path settled that was.
LEMMA WriteLeavesSettled ==
  ASSUME SyncInv, NEW p \in Paths, NEW q \in Paths, NEW o \in Paths, p # q, p # o,
         NEW v \in Revision, Writing(q, o, v),
         local'[p] = local[p], prov'[p] = prov[p], Settled(p)
  PROVE  Settled(p)'
<1>1. CASE docs'[Id(p)] = docs[Id(p)]
  BY <1>1, StaysSettled DEF Untouched, Writing
<1>2. CASE Id(p) = Id(q) /\ ~Own(p, Current(p))
  <2>1. Top(p)' = v /\ v.path = q
    BY <1>2, WritesItsOwn DEF Writing
  <2>2. CASE local[p] = Absent /\ Remote(p) = Absent
    BY <2>2, WritesItsOwn DEF Settled
  <2>3. CASE Remote(p) # Absent
    <3>1. Current(p) # 0 /\ Top(p).path = p
      BY <2>3 DEF Remote, Top
    <3>2. Current(p) \in 1 .. Current(p)
      BY <3>1, Facts DEF Current
    <3> QED
      BY <1>2, <3>1, <3>2 DEF Own, Top
  <2>4. CASE local[p] # Absent /\ prov[p] # NoProv
    BY <2>1, <2>4 DEF Settled
  <2> QED
    BY <1>2, <2>2, <2>3, <2>4 DEF Settled
<1> QED
  BY <1>1, <1>2, WritesItsOwn

\* What the plan took a path to be, it still is.
LEMMA StaysReady ==
  ASSUME NEW a \in Action, Ready(a), local'[a.path] = local[a.path], local'[a.old] = local[a.old],
         a.kind \in {"pull", "quarantine"} => docs'[Id(a.path)] = docs[Id(a.path)]
  PROVE  Ready(a)'
<1>1. a.path \in Paths
  BY DEF Action
<1>2. a.kind \in {"pull", "quarantine"} =>
        Current(a.path)' = Current(a.path) /\ Top(a.path)' = Top(a.path)
  BY <1>1, NoteUntouched
<1> QED
  BY <1>2 DEF Ready, Id

LEMMA WriteLeavesReady ==
  ASSUME SyncInv, NEW a \in Action, Named(a), Ready(a), local' = local,
         NEW q \in Paths, NEW o \in Paths, NEW v \in Revision, Writing(q, o, v),
         a.kind \in {"pull", "quarantine"} => a.path # q /\ a.path # o
  PROVE  Ready(a)'
<1>1. a.kind \in {"pull", "quarantine"} => Own(a.path, Current(a.path)) /\ a.path \in Paths
  BY DEF Named, Ready, Action
<1>2. a.kind \in {"pull", "quarantine"} => docs'[Id(a.path)] = docs[Id(a.path)]
  BY <1>1, WritesItsOwn
<1> QED
  BY <1>2, StaysReady

-----------------------------------------------------------------------------
(* The world, the readings and the ends of a pass *)

\* After convergence a step that changes nothing keeps to it.
LEMMA StaysConverged ==
  ASSUME Converged, UNCHANGED <<local, docs, prov, misread>>, report' \in {report, "none"},
         NEW r, pass' = r, pass.quiet => r.quiet,
         report = "converged" =>
           /\ r.stage \in Reads \cup {"idle", "apply"}
           /\ \A a \in r.todo : Doomed(a)
  PROVE  Converged'
<1> SUFFICES ASSUME report' = "converged"
             PROVE  /\ r.quiet /\ r.stage \in Reads \cup {"idle", "apply"}
                    /\ \A p \in Paths : Settled(p)'
                    /\ \A a \in r.todo : Doomed(a)'
  BY DEF Converged, Reads
<1>1. report = "converged"
  OBVIOUS
<1>2. \A p \in Paths : Settled(p)'
  BY <1>1, StaysSettled DEF Converged, Untouched
<1>3. \A a \in r.todo : Doomed(a)'
  BY <1>1 DEF Doomed, Extends, Current, Id
<1> QED
  BY <1>1, <1>2, <1>3 DEF Converged

LEMMA Idle_Settles ==
  ASSUME SyncInv, SettleInv, Grows, prov' = prov, pass' = IdlePass, report' # "converged"
  PROVE  SettleInv'
<1>1. PICK r : r = IdlePass
  OBVIOUS
<1>2. r.todo = {} /\ r.doing = Nothing /\ r.stage = "idle"
  BY <1>1 DEF IdlePass
<1>3. pass' = r
  BY <1>1
<1>4. NamedInv'
  BY <1>2, <1>3, NamedGoesOn DEF SettleInv
<1>5. Progress'
  BY <1>2, <1>3 DEF Progress, Reads
<1> QED
  BY <1>4, <1>5 DEF SettleInv, Converged

LEMMA World_Settles ==
  ASSUME SyncInv, SettleInv, Grows, prov' = prov, Disturb
  PROVE  SettleInv'
<1>1. PICK r : pass' = r
  OBVIOUS
<1>2. /\ r.todo = pass.todo /\ r.doing = pass.doing /\ r.stage = pass.stage /\ r.rev = pass.rev
      /\ r.stage = "idle" \/ ~r.quiet
  BY <1>1, Facts DEF Disturb, PassRec
<1>3. pass.stage \in {"installed", "stored"} => Own(pass.doing.path, pass.rev)'
  <2>1. PICK p, n : p = pass.doing.path /\ n = pass.rev
    OBVIOUS
  <2>2. SUFFICES ASSUME pass.stage \in {"installed", "stored"} PROVE Own(p, n)'
    BY <2>1, <1>1, <1>2 DEF Own, Current, Note, Id
  <2>3. p \in Paths
    BY <2>1, <2>2, Facts DEF PassOK, Busy, Action
  <2> QED
    BY <2>1, <2>2, <2>3, OwnStays DEF SettleInv, NamedInv
<1>4. NamedInv'
  <2>1. r.doing \in InPlay \cup {Nothing}
    BY <1>2 DEF InPlay
  <2>2. r.doing # Nothing => r.doing.kind \in KindOf(r.stage)
    BY <1>2 DEF SettleInv, NamedInv
  <2>3. (r.stage \in Reads => r.todo = {}) /\ r.doing \notin r.todo
    BY <1>2 DEF SettleInv, NamedInv
  <2> QED
    BY <1>1, <1>2, <1>3, <2>1, <2>2, <2>3, NamedGoesOn DEF SettleInv
<1>5. Progress'
  BY <1>1, <1>2 DEF Progress, Reads
<1>6. report' = "none"
  BY DEF Disturb
<1> QED
  BY <1>4, <1>5, <1>6 DEF SettleInv, Converged

\* A step of the pass that only reads.
LEMMA Reading_Settles ==
  ASSUME SyncInv, SettleInv, UNCHANGED <<local, docs, prov, report, reflected, misread>>,
         NEW r, pass' = r, r.stage \in Reads, r.doing = Nothing, r.todo = {},
         pass.quiet => r.quiet,
         r.quiet => /\ \A d \in Ids : r.seen[d] = Len(docs[d])
                    /\ \A p \in Paths : r.stage # "scan" \/ p \notin r.waiting => r.hash[p] = local[p]
  PROVE  SettleInv'
<1>1. Grows
  BY GrowsNot, Facts DEF Typed
<1>2. NamedInv'
  BY <1>1, NamedGoesOn DEF SettleInv, Reads
<1>3. Progress'
  BY DEF Progress, Reads
<1>4. Converged'
  BY StaysConverged DEF SettleInv, Reads
<1> QED
  BY <1>2, <1>3, <1>4 DEF SettleInv

LEMMA BeginPass_Settles ==
  ASSUME SyncInv, SettleInv, BeginPass
  PROVE  SettleInv'
<1>1. PICK r : r = [IdlePass EXCEPT !.stage = "scan", !.waiting = Paths,
                                    !.seen = [d \in Ids |-> Len(docs[d])]]
  OBVIOUS
<1>2. /\ r.stage = "scan" /\ r.doing = Nothing /\ r.todo = {} /\ r.waiting = Paths
      /\ r.seen = [d \in Ids |-> Len(docs[d])] /\ r.quiet = TRUE
  BY <1>1 DEF IdlePass
<1>3. pass' = r /\ UNCHANGED <<local, docs, prov, report, reflected, misread>>
  BY <1>1 DEF BeginPass, histVars
<1> QED
  BY <1>2, <1>3, Reading_Settles DEF Reads

LEMMA NothingPlanned ==
  ASSUME SyncInv, SettleInv, pass.stage \in Reads
  PROVE  pass.doing = Nothing /\ pass.todo = {}
BY Facts DEF PassOK, Busy, Reads, SettleInv, NamedInv

LEMMA ScanFile_Settles ==
  ASSUME SyncInv, SettleInv, NEW p \in Paths, ScanFile(p)
  PROVE  SettleInv'
<1>1. PICK scanned : scanned = [pass EXCEPT !.hash[p] = local[p], !.waiting = @ \ {p}]
  OBVIOUS
<1>2. pass \in PassRec /\ pass.hash \in [Paths -> Contents \cup {Absent}]
  BY Facts DEF PassRec
<1>3. /\ scanned.stage = "scan" /\ scanned.seen = pass.seen /\ scanned.quiet = pass.quiet
      /\ scanned.todo = {} /\ scanned.doing = Nothing
      /\ scanned.waiting = pass.waiting \ {p}
      /\ scanned.hash = [pass.hash EXCEPT ![p] = local[p]]
  BY <1>1, <1>2, NothingPlanned DEF ScanFile, PassRec, Reads
<1>4. PICK files : files = {q \in Paths : scanned.hash[q] # Absent}
  OBVIOUS
<1>5. PICK next : next = [scanned EXCEPT !.waiting = files,
                                         !.stage = IF files = {} THEN "plan" ELSE "read"]
  OBVIOUS
<1>6. scanned \in PassRec
  <2>1. [pass.hash EXCEPT ![p] = local[p]] \in [Paths -> Contents \cup {Absent}]
    BY <1>2, Facts DEF Typed
  <2> QED
    BY <1>1, <1>2, <2>1 DEF PassRec
<1>7. /\ next.stage \in {"plan", "read"} /\ next.seen = pass.seen /\ next.quiet = pass.quiet
      /\ next.todo = {} /\ next.doing = Nothing /\ next.hash = scanned.hash
  BY <1>3, <1>5, <1>6 DEF PassRec
<1>8. pass.quiet =>
        /\ \A d \in Ids : pass.seen[d] = Len(docs[d])
        /\ \A q \in Paths : q \notin scanned.waiting => scanned.hash[q] = local[q]
  <2>1. pass.quiet =>
          /\ \A d \in Ids : pass.seen[d] = Len(docs[d])
          /\ \A q \in Paths : q \notin pass.waiting => pass.hash[q] = local[q]
    BY DEF ScanFile, SettleInv, Progress, Reads
  <2> QED
    BY <1>2, <1>3, <2>1
<1>9. UNCHANGED <<local, docs, prov, report, reflected, misread>>
  BY DEF ScanFile, histVars
<1>10. CASE scanned.waiting # {} /\ pass' = scanned
  BY <1>3, <1>8, <1>9, <1>10, Reading_Settles DEF Reads
<1>11. CASE scanned.waiting = {} /\ pass' = next
  BY <1>7, <1>8, <1>9, <1>11, Reading_Settles DEF Reads
<1> QED
  BY <1>1, <1>4, <1>5, <1>10, <1>11 DEF ScanFile

LEMMA Read_Settles ==
  ASSUME SyncInv, SettleInv, NEW p \in Paths, ReadFile(p) \/ ReadFails(p)
  PROVE  SettleInv'
<1>1. PICK b : Read(p, b)
  BY DEF ReadFile, ReadFails
<1>2. PICK read : read = [pass EXCEPT !.bytes[p] = b, !.waiting = @ \ {p}]
  OBVIOUS
<1>3. PICK next : next = [read EXCEPT !.stage = "plan"]
  OBVIOUS
<1>4. pass \in PassRec /\ pass.stage = "read" /\ pass.doing = Nothing /\ pass.todo = {}
  BY <1>1, Facts, NothingPlanned DEF Read, Reads
<1>5. /\ read.stage = "read" /\ read.seen = pass.seen /\ read.quiet = pass.quiet
      /\ read.todo = {} /\ read.doing = Nothing /\ read.hash = pass.hash
  BY <1>2, <1>4 DEF PassRec
<1>6. /\ next.stage = "plan" /\ next.seen = pass.seen /\ next.quiet = pass.quiet
      /\ next.todo = {} /\ next.doing = Nothing /\ next.hash = pass.hash
  BY <1>2, <1>3, <1>4 DEF PassRec
<1>7. pass.quiet =>
        /\ \A d \in Ids : pass.seen[d] = Len(docs[d])
        /\ \A q \in Paths : pass.hash[q] = local[q]
  BY <1>4 DEF SettleInv, Progress, Reads
<1>8. UNCHANGED <<local, docs, prov, report, reflected, misread>>
  BY <1>1 DEF Read, ReadFile, ReadFails, histVars
<1>9. pass' = read \/ pass' = next
  BY <1>1, <1>2, <1>3 DEF Read
<1>10. CASE pass' = read
  BY <1>5, <1>7, <1>8, <1>10, Reading_Settles DEF Reads
<1>11. CASE pass' = next
  BY <1>6, <1>7, <1>8, <1>11, Reading_Settles DEF Reads
<1> QED
  BY <1>9, <1>10, <1>11

-----------------------------------------------------------------------------
(* The plan *)

Live(p) == Leaf(p) # 0 /\ ~Note(p, Leaf(p)).deleted

\* What the planner decides for one path, in the words of the planner.
Decided(p, a) ==
  /\ a \in Action /\ a.path = p /\ a.old = p
  /\ \/ /\ a.kind = "push" /\ a.rev = Leaf(p) /\ a.content = pass.hash[p] /\ Live(p)
        /\ pass.hash[p] # Absent /\ prov[p] # NoProv
        /\ pass.hash[p] # Note(p, Leaf(p)).content /\ pass.hash[p] # prov[p].content
     \/ /\ a.kind = "pull" /\ a.rev = Leaf(p) /\ a.content = Note(p, Leaf(p)).content /\ Live(p)
        /\ pass.hash[p] # Absent /\ prov[p] # NoProv
        /\ pass.hash[p] # Note(p, Leaf(p)).content /\ prov[p].rev # Leaf(p)
     \/ /\ a.kind = "pull" /\ a.rev = Leaf(p) /\ a.content = Note(p, Leaf(p)).content /\ Live(p)
        /\ pass.hash[p] = Absent /\ prov[p] = NoProv
     \/ a.kind = "conflict"
     \/ /\ a.kind = "push" /\ a.rev = 0 /\ a.content = pass.hash[p] /\ ~Live(p)
        /\ pass.hash[p] # Absent /\ prov[p] = NoProv
     \/ /\ a.kind = "delete" /\ a.rev = Leaf(p) /\ Live(p)
        /\ pass.hash[p] = Absent /\ prov[p] # NoProv
     \/ /\ a.kind = "quarantine" /\ a.rev = Leaf(p) /\ Leaf(p) # 0 /\ ~Live(p)
        /\ pass.hash[p] # Absent /\ prov[p] # NoProv

LEMMA PlannedDecides ==
  ASSUME SyncInv, NEW p \in Paths, NEW a \in Planned(p)
  PROVE  Decided(p, a)
<1>1. a \in Action
  BY PlannedOK
<1> DEFINE rev == Leaf(p)
           hash == pass.hash[p]
           row == prov[p]
           live == rev # 0 /\ ~Note(p, rev).deleted
           c == Note(p, rev).content
<1>2. \/ /\ a = Act("push", p, rev, hash) /\ live /\ hash # Absent /\ row # NoProv
         /\ hash # c /\ hash # row.content
      \/ /\ a = Act("pull", p, rev, c) /\ live /\ hash # Absent /\ row # NoProv
         /\ hash # c /\ row.rev # rev
      \/ a = Act("pull", p, rev, c) /\ live /\ hash = Absent /\ row = NoProv
      \/ a \in {Act("conflict", p, rev, hash), Act("conflict", p, rev, row.content)}
      \/ a = Act("push", p, 0, hash) /\ ~live /\ hash # Absent /\ row = NoProv
      \/ a = Act("delete", p, rev, row.content) /\ live /\ hash = Absent /\ row # NoProv
      \/ a = Act("quarantine", p, rev, hash) /\ rev # 0 /\ ~live /\ hash # Absent /\ row # NoProv
  <2> HIDE DEF rev, hash, row, live, c
  <2> QED
    BY DEF Planned, rev, hash, row, live, c
<1>3. live <=> Live(p)
  BY DEF Live
<1> HIDE DEF rev, hash, row, live, c
<1>4. \A kind, r, x : a = Act(kind, p, r, x) =>
        a.kind = kind /\ a.path = p /\ a.old = p /\ a.rev = r /\ a.content = x
  BY DEF Act
<1>5. CASE /\ a = Act("push", p, rev, hash) /\ live /\ hash # Absent /\ row # NoProv
           /\ hash # c /\ hash # row.content
  <2>1. a.kind = "push" /\ a.path = p /\ a.old = p /\ a.rev = rev /\ a.content = hash
    BY <1>4, <1>5
  <2> QED
    BY <1>1, <1>3, <1>5, <2>1 DEF Decided, rev, hash, row, c
<1>6. CASE /\ a = Act("pull", p, rev, c) /\ live /\ hash # Absent /\ row # NoProv
           /\ hash # c /\ row.rev # rev
  <2>1. a.kind = "pull" /\ a.path = p /\ a.old = p /\ a.rev = rev /\ a.content = c
    BY <1>4, <1>6
  <2> QED
    BY <1>1, <1>3, <1>6, <2>1 DEF Decided, rev, hash, row, c
<1>11. CASE a = Act("pull", p, rev, c) /\ live /\ hash = Absent /\ row = NoProv
  <2>1. a.kind = "pull" /\ a.path = p /\ a.old = p /\ a.rev = rev /\ a.content = c
    BY <1>4, <1>11
  <2> QED
    BY <1>1, <1>3, <1>11, <2>1 DEF Decided, rev, hash, row, c
<1>7. CASE a \in {Act("conflict", p, rev, hash), Act("conflict", p, rev, row.content)}
  <2>1. a.kind = "conflict" /\ a.path = p /\ a.old = p
    BY <1>4, <1>7
  <2> QED
    BY <1>1, <2>1 DEF Decided
<1>8. CASE a = Act("push", p, 0, hash) /\ ~live /\ hash # Absent /\ row = NoProv
  <2>1. a.kind = "push" /\ a.path = p /\ a.old = p /\ a.rev = 0 /\ a.content = hash
    BY <1>4, <1>8
  <2> QED
    BY <1>1, <1>3, <1>8, <2>1 DEF Decided, hash, row
<1>9. CASE a = Act("delete", p, rev, row.content) /\ live /\ hash = Absent /\ row # NoProv
  <2>1. a.kind = "delete" /\ a.path = p /\ a.old = p /\ a.rev = rev
    BY <1>4, <1>9
  <2> QED
    BY <1>1, <1>3, <1>9, <2>1 DEF Decided, rev, hash, row
<1>10. CASE a = Act("quarantine", p, rev, hash) /\ rev # 0 /\ ~live /\ hash # Absent /\ row # NoProv
  <2>1. a.kind = "quarantine" /\ a.path = p /\ a.old = p /\ a.rev = rev
    BY <1>4, <1>10
  <2> QED
    BY <1>1, <1>3, <1>10, <2>1 DEF Decided, rev, hash, row
<1> QED
  BY <1>2, <1>5, <1>6, <1>7, <1>8, <1>9, <1>10, <1>11

\* One path has one action at most, and one when there is something to decide.
LEMMA PlannedOnce ==
  ASSUME NEW p \in Paths, NEW a \in Planned(p), NEW b \in Planned(p)
  PROVE  a = b
<1> DEFINE rev == Leaf(p)
           hash == pass.hash[p]
           row == prov[p]
           live == rev # 0 /\ ~Note(p, rev).deleted
           c == Note(p, rev).content
<1>1. \E x : Planned(p) \subseteq {x}
  <2> HIDE DEF rev, hash, row, live, c
  <2> QED
    BY DEF Planned, rev, hash, row, live, c
<1> QED
  BY <1>1

LEMMA NothingToDecide ==
  ASSUME NEW p \in Paths, Planned(p) = {}
  PROVE  /\ pass.hash[p] # Absent /\ Live(p) =>
              prov[p] = NoProv \/ pass.hash[p] = Note(p, Leaf(p)).content
         /\ pass.hash[p] # Absent /\ ~Live(p) => prov[p] # NoProv /\ Leaf(p) = 0
         /\ pass.hash[p] = Absent => ~Live(p)
<1> DEFINE rev == Leaf(p)
           hash == pass.hash[p]
           row == prov[p]
           live == rev # 0 /\ ~Note(p, rev).deleted
           c == Note(p, rev).content
<1>1. /\ hash # Absent /\ live => row = NoProv \/ hash = c
      /\ hash # Absent /\ ~live => row # NoProv /\ rev = 0
      /\ hash = Absent => ~live
  <2> HIDE DEF rev, hash, row, live, c
  <2> QED
    BY DEF Planned, rev, hash, row, live, c
<1> QED
  BY <1>1 DEF Live

\* The actions of a plan: decisions for paths that no rename has taken, and
\* renames of lost files to found ones.
Renamed(old, new, a) ==
  /\ old \in Deleted /\ new \in Created
  /\ a.kind \in {"rename", "recase"}
  /\ a.kind = "recase" => Id(old) = Id(new)
  /\ a.path = new /\ a.old = old /\ a.rev = prov[old].rev /\ a.content = pass.hash[new]

LEMMA PlanShape ==
  ASSUME SyncInv, NEW pairs \in CrossRenames, NEW a \in PlanOf(pairs)
  PROVE  \/ \E p \in Paths : /\ a \in Planned(p)
                             /\ \A r \in CaseRenames \cup pairs : r[1] # p
         \/ \E r \in CaseRenames \cup pairs : Renamed(r[1], r[2], a)
<1>1. \/ \E p \in Paths : a \in Planned(p) /\ \A r \in CaseRenames \cup pairs : r[1] # p
      \/ \E r \in CaseRenames \cup pairs :
           a = [Act(IF r \in CaseRenames THEN "recase" ELSE "rename", r[2],
                    prov[r[1]].rev, pass.hash[r[2]]) EXCEPT !.old = r[1]]
  BY DEF PlanOf
<1>2. /\ pairs \subseteq Deleted \X Created /\ CaseRenames \subseteq Deleted \X Created
      /\ \A r \in CaseRenames : Id(r[1]) = Id(r[2])
  BY IdsOfPaths DEF CrossRenames, CaseRenames
<1>3. ASSUME NEW r \in CaseRenames \cup pairs,
             a = [Act(IF r \in CaseRenames THEN "recase" ELSE "rename", r[2],
                      prov[r[1]].rev, pass.hash[r[2]]) EXCEPT !.old = r[1]]
      PROVE  Renamed(r[1], r[2], a)
  <2>1. PICK kind, old, new, rev, c :
          /\ kind = IF r \in CaseRenames THEN "recase" ELSE "rename"
          /\ old = r[1] /\ new = r[2] /\ rev = prov[r[1]].rev /\ c = pass.hash[r[2]]
    OBVIOUS
  <2>2. a = [Act(kind, new, rev, c) EXCEPT !.old = old]
    BY <1>3, <2>1
  <2>3. /\ a.kind = kind /\ a.path = r[2] /\ a.old = r[1] /\ a.rev = prov[r[1]].rev
        /\ a.content = pass.hash[r[2]]
    <3>1. a.kind = kind /\ a.path = new /\ a.old = old /\ a.rev = rev /\ a.content = c
      BY <2>2 DEF Act
    <3> QED
      BY <2>1, <3>1
  <2>4. r[1] \in Deleted /\ r[2] \in Created
    BY <1>2
  <2> QED
    BY <1>2, <2>1, <2>3, <2>4 DEF Renamed
<1> QED
  BY <1>1, <1>3

LEMMA LeafIsOwn ==
  ASSUME SyncInv, NEW p \in Paths, Leaf(p) # 0
  PROVE  Own(p, Leaf(p))
BY LeafFacts DEF Leaf, Own, Current

LEMMA PlanNamed ==
  ASSUME SyncInv, NamedInv, NEW pairs \in CrossRenames,
         \A a \in PlanOf(pairs) : a.kind # "conflict"
  PROVE  (\A a \in PlanOf(pairs) : Named(a)) /\ Apart(PlanOf(pairs))
<1>1. ASSUME NEW a \in PlanOf(pairs) PROVE Named(a)
  <2>1. ASSUME NEW p \in Paths, a \in Planned(p) PROVE Named(a)
    <3>1. Decided(p, a)
      BY <2>1, PlannedDecides
    <3>2. Leaf(p) # 0 => Own(p, Leaf(p))
      BY LeafIsOwn
    <3> QED
      BY <3>1, <3>2 DEF Decided, Named, Live
  <2>2. ASSUME NEW old, NEW new, Renamed(old, new, a) PROVE Named(a)
    <3>1. old \in Paths /\ prov[old] # NoProv /\ prov[new] = NoProv
      BY <2>2 DEF Renamed, Deleted, Created
    <3>2. Own(old, prov[old].rev)
      BY <3>1 DEF NamedInv
    <3> QED
      BY <2>2, <3>1, <3>2 DEF Renamed, Named
  <2> QED
    BY <2>1, <2>2, PlanShape
<1>2. ASSUME NEW a \in PlanOf(pairs), NEW b \in PlanOf(pairs),
             b.kind \in {"pull", "quarantine"}, Concerns(a, b.path)
      PROVE  a = b
  <2>1. PICK p \in Paths : b \in Planned(p) /\ \A r \in CaseRenames \cup pairs : r[1] # p
    BY <1>2, PlanShape DEF Renamed
  <2>2. Decided(p, b)
    BY <2>1, PlannedDecides
  <2>3. b.path = p /\ (pass.hash[p] = Absent \/ prov[p] # NoProv)
    BY <1>2, <2>2 DEF Decided
  <2>4. ASSUME NEW q \in Paths, a \in Planned(q) PROVE a = b
    <3>1. a.path = q /\ a.old = q
      BY <2>4, PlannedDecides DEF Decided
    <3> QED
      BY <1>2, <2>1, <2>3, <2>4, <3>1, PlannedOnce DEF Concerns
  <2>5. ASSUME NEW r \in CaseRenames \cup pairs, Renamed(r[1], r[2], a) PROVE a = b
    <3>1. a.path = r[2] /\ a.old = r[1] /\ pass.hash[r[2]] # Absent /\ prov[r[2]] = NoProv
      BY <2>5 DEF Renamed, Created
    <3> QED
      BY <1>2, <2>1, <2>3, <3>1 DEF Concerns
  <2> QED
    BY <2>4, <2>5, PlanShape
<1> QED
  BY <1>1, <1>2 DEF Apart

\* A pass whose readings are true knows what the note of a path is.
Knows == /\ \A d \in Ids : pass.seen[d] = Len(docs[d])
         /\ \A p \in Paths : pass.hash[p] = local[p]

LEMMA KnowsTheNote ==
  ASSUME SyncInv, Knows, NEW p \in Paths
  PROVE  /\ Leaf(p) # 0 => /\ Leaf(p) = Current(p) /\ Note(p, Leaf(p)) = Top(p)
                           /\ Current(p) # 0 /\ Top(p).path = p /\ Top(p).content # Garbled
         /\ Leaf(p) = 0 => Current(p) = 0 \/ Top(p).path # p \/ Top(p).content = Garbled
         /\ Live(p) => /\ Remote(p) = Top(p).content /\ Remote(p) # Absent
                       /\ Current(p) # 0 /\ Top(p).path = p /\ Top(p).content # Garbled
         /\ ~Live(p) => Remote(p) = Absent \/ (Current(p) # 0 /\ Top(p).content = Garbled)
<1>1. pass.seen[Id(p)] = Current(p)
  BY IdsOfPaths DEF Knows, Current
<1>2. Leaf(p) = IF Current(p) # 0 /\ Top(p).path = p /\ Top(p).content # Garbled
                THEN Current(p) ELSE 0
  BY <1>1 DEF Leaf, Top
<1>3. Leaf(p) # 0 => Note(p, Leaf(p)) = Top(p)
  BY <1>2 DEF Top
<1>4. Leaf(p) # 0 => Top(p).content \in Contents /\ Top(p).content # Absent
  BY <1>3, LeafFacts, PassAssumption
<1> QED
  BY <1>2, <1>3, <1>4 DEF Live, Remote, Top

\* What a true plan takes for granted is so.
LEMMA PlanReady ==
  ASSUME SyncInv, NamedInv, Knows, NEW pairs \in CrossRenames,
         NEW a \in PlanOf(pairs), a.kind # "conflict"
  PROVE  Ready(a)
<1>1. ASSUME NEW p \in Paths, a \in Planned(p) PROVE Ready(a)
  <2>1. Decided(p, a)
    BY <1>1, PlannedDecides
  <2>2. pass.hash[p] = local[p]
    BY DEF Knows
  <2>3. a.kind \in {"push", "rename", "recase"} => local[a.path] = a.content
    BY <2>1, <2>2 DEF Decided
  <2>4. a.kind \in {"rename", "recase", "delete"} => local[a.old] = Absent
    BY <2>1, <2>2 DEF Decided
  <2>5. a.kind \in {"pull", "quarantine"} => /\ a.rev = Leaf(p) /\ Leaf(p) # 0 /\ a.path = p
                                             /\ a.kind = "quarantine" => ~Live(p)
                                             /\ a.kind = "pull" => /\ Live(p)
                                                                  /\ a.content = Note(p, Leaf(p)).content
    BY <2>1 DEF Decided, Live
  <2>6. Leaf(p) # 0 => Leaf(p) = Current(p) /\ Note(p, Leaf(p)) = Top(p)
    BY KnowsTheNote
  <2>7. a.kind \in {"pull", "quarantine"} => a.rev = Current(a.path)
    BY <2>5, <2>6
  <2>8. a.kind = "pull" => ~Top(a.path).deleted /\ Top(a.path).content = a.content
    BY <2>5, <2>6 DEF Live
  <2>9. a.kind = "quarantine" => Top(a.path).deleted
    BY <2>5, <2>6 DEF Live
  <2> QED
    BY <2>3, <2>4, <2>7, <2>8, <2>9 DEF Ready
<1>2. ASSUME NEW old, NEW new, Renamed(old, new, a) PROVE Ready(a)
  <2>1. /\ a.kind \in {"rename", "recase"} /\ a.path = new /\ a.old = old
        /\ a.content = pass.hash[new] /\ new \in Paths /\ old \in Paths
        /\ pass.hash[old] = Absent
    BY <1>2 DEF Renamed, Deleted, Created
  <2>2. local[a.path] = a.content /\ local[a.old] = Absent
    BY <2>1 DEF Knows
  <2> QED
    BY <2>1, <2>2 DEF Ready
<1> QED
  BY <1>1, <1>2, PlanShape

\* Every path that is not settled has an action in a true plan.
LEMMA PlanCovers ==
  ASSUME SyncInv, NamedInv, Knows, NEW pairs \in CrossRenames, NEW p \in Paths
  PROVE  Settled(p) \/ \E a \in PlanOf(pairs) : Concerns(a, p)
<1> DEFINE renames == CaseRenames \cup pairs
<1>1. CASE \E r \in renames : r[1] = p \/ r[2] = p
  <2>1. PICK r \in renames : r[1] = p \/ r[2] = p
    BY <1>1
  <2>2. PICK kind, old, new, rev, c :
          /\ kind = IF r \in CaseRenames THEN "recase" ELSE "rename"
          /\ old = r[1] /\ new = r[2] /\ rev = prov[r[1]].rev /\ c = pass.hash[r[2]]
    OBVIOUS
  <2>3. PICK a : a = [Act(kind, new, rev, c) EXCEPT !.old = old]
    OBVIOUS
  <2>4. a \in PlanOf(pairs)
    <3>1. a = [Act(IF r \in CaseRenames THEN "recase" ELSE "rename", r[2],
                   prov[r[1]].rev, pass.hash[r[2]]) EXCEPT !.old = r[1]]
      BY <2>2, <2>3
    <3> QED
      BY <3>1 DEF PlanOf
  <2>5. a.path = new /\ a.old = old
    BY <2>3 DEF Act
  <2> QED
    BY <2>1, <2>2, <2>4, <2>5 DEF Concerns
<1>2. CASE \A r \in renames : r[1] # p /\ r[2] # p
  <2>1. Planned(p) \subseteq PlanOf(pairs)
    BY <1>2 DEF PlanOf
  <2>2. CASE Planned(p) # {}
    <3>1. PICK a \in Planned(p) : TRUE
      BY <2>2
    <3>2. a.path = p
      BY PlannedDecides DEF Decided
    <3> QED
      BY <2>1, <3>1, <3>2 DEF Concerns
  <2>3. CASE Planned(p) = {}
    <3>1. pass.hash[p] = local[p]
      BY DEF Knows
    <3>2. CASE local[p] # Absent /\ Live(p)
      <4>1. prov[p] = NoProv \/ local[p] = Note(p, Leaf(p)).content
        BY <2>3, <3>1, <3>2, NothingToDecide
      <4>2. Remote(p) # Absent /\ Remote(p) = Note(p, Leaf(p)).content
        BY <3>2, KnowsTheNote DEF Live
      <4> QED
        BY <3>2, <4>1, <4>2 DEF Settled
    <3>3. CASE local[p] # Absent /\ ~Live(p)
      <4>1. prov[p] # NoProv /\ Leaf(p) = 0
        BY <2>3, <3>1, <3>3, NothingToDecide
      <4>2. Current(p) # 0
        BY <4>1, Facts DEF NamedInv, Own, Current
      <4> QED
        BY <3>3, <4>1, <4>2, KnowsTheNote DEF Settled
    <3>4. CASE local[p] = Absent
      <4>1. ~Live(p)
        BY <2>3, <3>1, <3>4, NothingToDecide
      <4>2. Remote(p) = Absent \/ (Current(p) # 0 /\ Top(p).content = Garbled)
        BY <4>1, KnowsTheNote
      <4>3. Remote(p) \in {Absent, Garbled}
        BY <4>2 DEF Remote, Top
      <4> QED
        BY <3>4, <4>3 DEF Settled
    <3> QED
      BY <3>2, <3>3, <3>4
  <2> QED
    BY <2>2, <2>3
<1> QED
  BY <1>1, <1>2

\* When all is settled, a plan without a conflict holds only writes that will be
\* refused: pushes and renames over a note that was there already.
LEMMA PlanDoomed ==
  ASSUME SyncInv, NamedInv, Knows, \A p \in Paths : Settled(p), NEW pairs \in CrossRenames,
         \A a \in PlanOf(pairs) : a.kind # "conflict", NEW a \in PlanOf(pairs)
  PROVE  Doomed(a)
<1>1. ASSUME NEW p \in Paths, a \in Planned(p) PROVE Doomed(a)
  <2>1. Decided(p, a) /\ a.kind # "conflict" /\ a.path = p
    BY <1>1, PlannedDecides DEF Decided
  <2>2. pass.hash[p] = local[p] /\ Settled(p)
    BY DEF Knows
  <2>3. ~Live(p)
    <3> SUFFICES ASSUME Live(p) PROVE FALSE
      OBVIOUS
    <3>1. /\ Remote(p) = Top(p).content /\ Remote(p) # Absent
          /\ Top(p).path = p /\ Top(p).content # Garbled
          /\ Leaf(p) = Current(p) /\ Note(p, Leaf(p)) = Top(p)
      BY KnowsTheNote DEF Live
    <3>2. local[p] # Absent
      BY <2>2, <3>1 DEF Settled
    <3>3. prov[p] # NoProv /\ local[p] # Top(p).content
      BY <2>1, <2>2, <3>1, <3>2 DEF Decided
    <3>4. prov[p].rev = Leaf(p) /\ local[p] = prov[p].content
      BY <2>2, <3>1, <3>2, <3>3 DEF Settled
    <3> QED
      BY <2>1, <2>2, <3>2, <3>4 DEF Decided
  <2>4. a.kind \in {"push", "quarantine"} /\ local[p] # Absent
        /\ (a.kind = "push" => a.rev = 0 /\ prov[p] = NoProv)
        /\ (a.kind = "quarantine" => Leaf(p) # 0 /\ prov[p] # NoProv)
    BY <2>1, <2>2, <2>3 DEF Decided
  <2>5. Remote(p) = Absent \/ (Current(p) # 0 /\ Top(p).content = Garbled)
    BY <2>3, KnowsTheNote
  <2>6. Leaf(p) # 0 => Current(p) # 0 /\ Top(p).path = p /\ Top(p).content # Garbled
    BY KnowsTheNote
  <2>7. a.kind = "push" /\ Current(p) # 0
    BY <2>2, <2>4, <2>5, <2>6 DEF Settled, Remote, Top
  <2> QED
    BY <2>1, <2>4, <2>7 DEF Doomed, Extends
<1>2. ASSUME NEW old, NEW new, Renamed(old, new, a) PROVE Doomed(a)
  <2>1. /\ a.kind \in {"rename", "recase"} /\ a.path = new /\ a.rev = prov[old].rev
        /\ a.kind = "recase" => Id(old) = Id(new)
        /\ new \in Paths /\ old \in Paths /\ prov[old] # NoProv /\ prov[new] = NoProv
        /\ local[new] # Absent
    BY <1>2 DEF Renamed, Deleted, Created, Knows
  <2>2. Settled(new) /\ Own(old, prov[old].rev)
    BY <2>1 DEF NamedInv
  <2>3. Current(new) # 0 /\ Top(new).path = new
    BY <2>1, <2>2 DEF Settled, Remote, Top
  <2>4. CASE a.kind = "rename"
    BY <2>1, <2>3, <2>4 DEF Doomed, Extends
  <2>5. CASE a.kind = "recase"
    <3>1. Top(new) = Top(old) /\ Current(new) = Current(old)
      BY <2>1, <2>5 DEF Top, Current, Note
    <3>2. prov[old].rev # Current(old)
      BY <2>1, <2>2, <2>3, <3>1 DEF Own, Top
    <3> QED
      BY <2>1, <2>5, <3>1, <3>2 DEF Doomed, Extends
  <2> QED
    BY <2>1, <2>4, <2>5
<1> QED
  BY <1>1, <1>2, PlanShape

LEMMA Plan_Settles ==
  ASSUME SyncInv, SettleInv, NEW pairs, Plan(pairs)
  PROVE  SettleInv'
<1>1. /\ pass.stage = "plan" /\ pairs \in CrossRenames
      /\ UNCHANGED <<local, docs, prov, reflected, misread>>
  BY DEF Plan, histVars
<1>2. Grows
  BY <1>1, GrowsNot, Facts DEF Typed
<1>3. PICK plan : plan = PlanOf(pairs)
  OBVIOUS
<1>4. pass.quiet => Knows
  BY <1>1 DEF SettleInv, Progress, Reads, Knows
<1>5. CASE \E a \in plan : a.kind = "conflict"
  <2>1. pass' = IdlePass /\ report' = IF pass.quiet THEN "conflict" ELSE report
    BY <1>3, <1>5 DEF Plan
  <2>2. report' # "converged"
    BY <2>1 DEF SettleInv, Converged
  <2> QED
    BY <1>1, <1>2, <2>1, <2>2, Idle_Settles
<1>6. CASE \A a \in plan : a.kind # "conflict"
  <2>1. PICK r : r = [IdlePass EXCEPT !.stage = "apply", !.todo = plan, !.quiet = pass.quiet]
    OBVIOUS
  <2>2. /\ r.stage = "apply" /\ r.todo = plan /\ r.quiet = pass.quiet /\ r.doing = Nothing
    BY <2>1 DEF IdlePass
  <2>3. pass' = r /\ report' = report
    BY <1>3, <1>6, <2>1 DEF Plan
  <2>4. (\A a \in plan : Named(a)) /\ Apart(plan) /\ plan \subseteq Action
    BY <1>1, <1>3, <1>6, PlanNamed, PlanOK DEF SettleInv
  <2>5. NamedInv'
    <3>1. InPlay' = plan
      BY <2>2, <2>3 DEF InPlay
    <3>2. \A a \in InPlay' : Named(a)'
      BY <1>2, <2>4, <3>1, NamedStays
    <3>3. Apart(InPlay)'
      BY <2>4, <3>1 DEF Apart, Concerns
    <3>4. \A p \in Paths : prov'[p] # NoProv => Own(p, prov[p].rev)'
      BY <1>1 DEF SettleInv, NamedInv, Own, Current, Note, Id
    <3> QED
      BY <2>2, <2>3, <2>4, <3>2, <3>3, <3>4, NothingIsNoAction DEF NamedInv, Reads
  <2>6. Progress'
    <3> SUFFICES ASSUME pass.quiet
                 PROVE  /\ \A a \in plan : Ready(a)'
                        /\ \A p \in Paths : Settled(p)' \/ \E a \in plan : Concerns(a, p)
      BY <2>2, <2>3 DEF Progress, Halfway, Reads, InPlay, Concerns
    <3>1. \A a \in plan : Ready(a)'
      <4>1. \A a \in plan : Ready(a) /\ a \in Action
        BY <1>1, <1>3, <1>4, <1>6, <2>4, PlanReady DEF SettleInv
      <4> QED
        BY <1>1, <4>1, StaysReady
    <3>2. \A p \in Paths : Settled(p) \/ \E a \in plan : Concerns(a, p)
      BY <1>1, <1>3, <1>4, PlanCovers DEF SettleInv
    <3>3. \A p \in Paths : Settled(p) => Settled(p)'
      BY <1>1, StaysSettled DEF Untouched
    <3> QED
      BY <3>1, <3>2, <3>3
  <2>7. Converged'
    <3>1. report = "converged" => \A a \in plan : Doomed(a)
      BY <1>1, <1>3, <1>4, <1>6, PlanDoomed DEF SettleInv, Converged
    <3> QED
      BY <1>1, <2>2, <2>3, <3>1, StaysConverged DEF SettleInv, Reads
  <2> QED
    BY <2>5, <2>6, <2>7 DEF SettleInv
<1> QED
  BY <1>5, <1>6

-----------------------------------------------------------------------------
(* The actions *)

\* A pass at work that nobody disturbed and that met no error.
Clean == pass.quiet /\ pass.ok

LEMMA AtWork ==
  ASSUME Progress, pass.stage \notin Reads \cup {"idle"}, Clean
  PROVE  /\ \A a \in pass.todo : Ready(a)
         /\ Halfway
         /\ \A p \in Paths : Settled(p) \/ \E a \in InPlay : Concerns(a, p)
BY DEF Progress, Clean

LEMMA BegunShape ==
  ASSUME SyncInv, NEW a \in pass.todo, NEW stage \in Busy, NEW rev \in Nat, NEW r,
         r = Begun(a, stage, rev)
  PROVE  /\ r.stage = stage /\ r.doing = a /\ r.rev = rev /\ r.todo = pass.todo \ {a}
         /\ r.quiet = pass.quiet /\ r.ok = pass.ok /\ r.doing \notin r.todo
         /\ a \in Action /\ a # Nothing /\ a.path \in Paths /\ a.old \in Paths
<1>1. r.stage = stage /\ r.doing = a /\ r.rev = rev /\ r.todo = pass.todo \ {a}
      /\ a \in Action /\ a # Nothing
  BY BegunOK
<1>2. r.quiet = pass.quiet /\ r.ok = pass.ok
  BY Facts DEF Begun, PassRec
<1> QED
  BY <1>1, <1>2 DEF Action

LEMMA FinishedShape ==
  ASSUME SyncInv, NEW r, r = Finished
  PROVE  /\ r.stage = "apply" /\ r.doing = Nothing /\ r.todo = pass.todo
         /\ r.quiet = pass.quiet /\ r.ok = pass.ok
BY Facts DEF Finished, PassRec

\* A turn: nothing is in hand yet.
LEMMA TurnFacts ==
  ASSUME SyncInv, SettleInv, NEW a, NEW kinds, Turn(a, kinds)
  PROVE  /\ a \in pass.todo /\ a \in Action /\ a.kind \in kinds /\ pass.stage = "apply"
         /\ pass.doing = Nothing /\ InPlay = pass.todo /\ a \in InPlay
         /\ Named(a) /\ a.path \in Paths /\ a.old \in Paths
         /\ \A b \in pass.todo : b \in Action /\ Named(b) /\ b.path \in Paths /\ b.old \in Paths
<1>1. a \in pass.todo /\ a.kind \in kinds /\ pass.stage = "apply"
  BY DEF Turn
<1>2. pass.doing = Nothing
  BY <1>1, Facts DEF PassOK, Busy
<1>3. InPlay = pass.todo
  BY <1>2 DEF InPlay
<1>4. \A b \in pass.todo : b \in Action /\ Named(b) /\ b.path \in Paths /\ b.old \in Paths
  BY <1>3, Facts DEF SettleInv, NamedInv, Action
<1> QED
  BY <1>1, <1>2, <1>3, <1>4

\* The action taken up still concerns its paths; the rest of the plan the others.
LEMMA BegunCovers ==
  ASSUME NEW a \in InPlay, NEW r, pass' = r, r.doing = a, a # Nothing, r.todo = pass.todo \ {a},
         pass.doing = Nothing,
         \A p \in Paths : Settled(p) \/ \E b \in InPlay : Concerns(b, p),
         \A p \in Paths : Settled(p) /\ ~Concerns(a, p) => Settled(p)'
  PROVE  \A p \in Paths : Settled(p)' \/ \E b \in InPlay' : Concerns(b, p)'
<1>1. InPlay' = InPlay /\ a \in InPlay'
  BY DEF InPlay
<1> QED
  BY <1>1 DEF Concerns

\* The steps within an action never happen after convergence.
LEMMA NotConverged ==
  ASSUME SettleInv, report' \in {report, "none"},
         pass.stage \notin Reads \cup {"idle", "apply"}
         \/ \E a \in pass.todo : ~Doomed(a)
  PROVE  report' # "converged"
BY DEF SettleInv, Converged

LEMMA Install_Settles ==
  ASSUME SyncInv, SettleInv, NEW a \in pass.todo, Install(a)
  PROVE  SettleInv'
<1>1. /\ Turn(a, {"pull"})
      /\ local' = [local EXCEPT ![a.path] = a.content]
      /\ reflected' = reflected \cup {<<Id(a.path), a.rev>>}
      /\ pass' = Begun(a, "installed", a.rev)
      /\ UNCHANGED <<docs, prov, report, misread>>
  BY DEF Install
<1>2. /\ a \in Action /\ a.kind = "pull" /\ pass.stage = "apply" /\ Named(a)
      /\ a.path \in Paths /\ a.old = a.path /\ a \in InPlay /\ pass.doing = Nothing
      /\ InPlay = pass.todo
      /\ \A b \in pass.todo : b \in Action /\ b.path \in Paths /\ b.old \in Paths
  BY <1>1, TurnFacts DEF Named
<1>3. Grows
  BY <1>1, GrowsNot, Facts DEF Typed
<1>4. PICK r : r = Begun(a, "installed", a.rev)
  OBVIOUS
<1>5. /\ r.stage = "installed" /\ r.doing = a /\ r.rev = a.rev /\ r.todo = pass.todo \ {a}
      /\ r.quiet = pass.quiet /\ r.ok = pass.ok /\ r.doing \notin r.todo /\ pass' = r
      /\ a # Nothing
  BY <1>1, <1>2, <1>4, BegunShape DEF Action, Busy
<1>6. NamedInv'
  <2>1. Own(a.path, a.rev)'
    BY <1>2, <1>3, OwnStays DEF Named
  <2>2. Own(r.doing.path, r.rev)'
    BY <1>5, <2>1 DEF Own, Current, Note, Id
  <2>3. r.doing.kind \in KindOf(r.stage)
    BY <1>2, <1>5 DEF KindOf
  <2> QED
    BY <1>1, <1>2, <1>3, <1>5, <2>2, <2>3, NamedGoesOn DEF SettleInv, Reads
<1>7. Progress'
  <2> SUFFICES ASSUME Clean
               PROVE  /\ \A b \in r.todo : Ready(b)'
                      /\ Halfway'
                      /\ \A p \in Paths : Settled(p)' \/ \E b \in InPlay' : Concerns(b, p)'
    BY <1>5 DEF Progress, Clean, Reads
  <2>1. /\ \A b \in pass.todo : Ready(b)
        /\ \A p \in Paths : Settled(p) \/ \E b \in InPlay : Concerns(b, p)
    BY <1>2, AtWork DEF SettleInv, Reads
  <2>2. local \in [Paths -> Contents \cup {Absent}]
    BY Facts DEF Typed
  <2>3. ASSUME NEW b \in r.todo PROVE Ready(b)'
    <3>1. b \in InPlay /\ b # a /\ b \in Action /\ Ready(b) /\ b.path \in Paths /\ b.old \in Paths
      BY <1>2, <1>5, <2>1
    <3>2. b.path # a.path /\ b.old # a.path
      BY <1>2, <3>1 DEF SettleInv, NamedInv, Apart, Concerns
    <3>3. local'[b.path] = local[b.path] /\ local'[b.old] = local[b.old]
      BY <1>1, <2>2, <3>1, <3>2
    <3> QED
      BY <1>1, <3>1, <3>3, StaysReady
  <2>4. Halfway'
    <3>1. /\ local'[a.path] = a.content
          /\ Current(a.path) # 0 /\ Top(a.path).path = a.path
          /\ ~Top(a.path).deleted /\ Top(a.path).content = a.content
      BY <1>1, <1>2, <2>1, <2>2, Facts DEF Ready, Named, Own, Top, Current
    <3>2. Remote(a.path)' = a.content
      BY <1>1, <1>2, <3>1, NoteUntouched DEF Remote, Top
    <3> QED
      BY <1>5, <3>1, <3>2 DEF Halfway, Remote, Top, Current, Note, Id
  <2>5. \A p \in Paths : Settled(p) /\ ~Concerns(a, p) => Settled(p)'
    <3> SUFFICES ASSUME NEW p \in Paths, Settled(p), ~Concerns(a, p) PROVE Settled(p)'
      OBVIOUS
    <3>1. local'[p] = local[p]
      BY <1>1, <2>2 DEF Concerns
    <3> QED
      BY <1>1, <3>1, StaysSettled DEF Untouched
  <2> QED
    BY <1>2, <1>5, <2>1, <2>3, <2>4, <2>5, BegunCovers
<1>8. report' # "converged"
  BY <1>1, <1>2, NotConverged DEF Doomed
<1> QED
  BY <1>6, <1>7, <1>8 DEF SettleInv, Converged

LEMMA Quarantine_Settles ==
  ASSUME SyncInv, SettleInv, NEW a \in pass.todo, Quarantine(a)
  PROVE  SettleInv'
<1>1. /\ Turn(a, {"quarantine"})
      /\ UNCHANGED <<local, docs, prov, reflected, misread>>
      /\ Abort \/ (pass' = Begun(a, "kept", 0) /\ UNCHANGED report)
  BY DEF Quarantine, histVars
<1>2. /\ a \in Action /\ a.kind = "quarantine" /\ pass.stage = "apply" /\ Named(a)
      /\ a \in InPlay /\ pass.doing = Nothing
      /\ \A b \in pass.todo : b \in Action
  BY <1>1, TurnFacts
<1>3. Grows
  BY <1>1, GrowsNot, Facts DEF Typed
<1>4. CASE Abort
  BY <1>1, <1>3, <1>4, Idle_Settles DEF Abort
<1>5. CASE pass' = Begun(a, "kept", 0) /\ UNCHANGED report
  <2>1. PICK r : r = Begun(a, "kept", 0)
    OBVIOUS
  <2>2. /\ r.stage = "kept" /\ r.doing = a /\ r.todo = pass.todo \ {a}
        /\ r.quiet = pass.quiet /\ r.ok = pass.ok /\ r.doing \notin r.todo /\ pass' = r
        /\ a # Nothing
    BY <1>5, <2>1, BegunShape DEF Busy
  <2>3. NamedInv'
    <3>1. r.doing.kind \in KindOf(r.stage)
      BY <1>2, <2>2 DEF KindOf
    <3> QED
      BY <1>1, <1>2, <1>3, <2>2, <3>1, NamedGoesOn DEF SettleInv, Reads
  <2>4. Progress'
    <3> SUFFICES ASSUME Clean
                 PROVE  /\ \A b \in r.todo : Ready(b)'
                        /\ Halfway'
                        /\ \A p \in Paths : Settled(p)' \/ \E b \in InPlay' : Concerns(b, p)'
      BY <2>2 DEF Progress, Clean, Reads
    <3>1. /\ \A b \in pass.todo : Ready(b)
          /\ \A p \in Paths : Settled(p) \/ \E b \in InPlay : Concerns(b, p)
      BY <1>2, AtWork DEF SettleInv, Reads
    <3>2. \A b \in pass.todo : Ready(b)'
      BY <1>1, <1>2, <3>1, StaysReady
    <3>3. Halfway'
      BY <2>2, <3>2 DEF Halfway, Ready, Top, Current, Note, Id
    <3>4. \A p \in Paths : Settled(p) => Settled(p)'
      BY <1>1, StaysSettled DEF Untouched
    <3> QED
      BY <1>2, <2>2, <3>1, <3>2, <3>3, <3>4, BegunCovers
  <2>5. report' # "converged"
    BY <1>2, <1>5, NotConverged DEF Doomed
  <2> QED
    BY <2>3, <2>4, <2>5 DEF SettleInv, Converged
<1> QED
  BY <1>1, <1>4, <1>5

LEMMA Refused_Settles ==
  ASSUME SyncInv, SettleInv, NEW a \in pass.todo, pass.stage = "apply", Refused(a),
         UNCHANGED <<local, prov, report>>
  PROVE  SettleInv'
<1>1. UNCHANGED <<docs, reflected, misread>>
  BY DEF Refused, histVars
<1>2. PICK r : r = [pass EXCEPT !.todo = @ \ {a}, !.ok = FALSE]
  OBVIOUS
<1>3. /\ r.stage = "apply" /\ r.doing = pass.doing /\ r.doing = Nothing
      /\ r.todo = pass.todo \ {a} /\ ~r.ok /\ r.quiet = pass.quiet /\ pass' = r
  BY <1>2, Facts DEF Refused, PassRec, PassOK, Busy
<1>4. Grows
  BY <1>1, GrowsNot, Facts DEF Typed
<1>5. NamedInv'
  <2>1. r.doing \notin r.todo
    BY <1>3 DEF SettleInv, NamedInv
  <2> QED
    BY <1>3, <1>4, <2>1, NamedGoesOn DEF SettleInv, Reads
<1>6. Progress'
  BY <1>3 DEF Progress, Reads
<1>7. Converged'
  <2>1. report = "converged" => \A b \in r.todo : Doomed(b)
    BY <1>3 DEF SettleInv, Converged
  <2> QED
    BY <1>1, <1>3, <2>1, StaysConverged DEF SettleInv
<1> QED
  BY <1>5, <1>6, <1>7 DEF SettleInv

\* An action taken up with a write: what is left to show is where it has got to.
LEMMA Write_Settles ==
  ASSUME SyncInv, SettleInv, NEW a, NEW kinds, Turn(a, kinds), Grows,
         UNCHANGED <<local, prov, report>>,
         NEW o \in {a.path, a.old}, NEW v \in Revision, Writing(a.path, o, v), ~Doomed(a),
         NEW r, pass' = r, r.stage \in Busy, r.doing = a, r.todo = pass.todo \ {a},
         r.quiet = pass.quiet, r.ok = pass.ok, a.kind \in KindOf(r.stage),
         r.stage \in {"installed", "stored"} => Own(a.path, r.rev)',
         Clean => Halfway'
  PROVE  SettleInv'
<1>1. /\ a \in pass.todo /\ a \in Action /\ pass.stage = "apply" /\ pass.doing = Nothing
      /\ InPlay = pass.todo /\ a \in InPlay /\ Named(a) /\ a.path \in Paths /\ o \in Paths
      /\ a # Nothing
      /\ \A b \in pass.todo : b \in Action /\ Named(b)
  BY TurnFacts, NothingIsNoAction
<1>2. NamedInv'
  <2>1. r.stage \in {"installed", "stored"} => Own(r.doing.path, r.rev)'
    BY DEF Own, Current, Note, Id
  <2> QED
    BY <1>1, <2>1, NamedGoesOn DEF SettleInv, Reads, Busy
<1>3. Progress'
  <2> SUFFICES ASSUME Clean
               PROVE  /\ \A b \in r.todo : Ready(b)'
                      /\ Halfway'
                      /\ \A p \in Paths : Settled(p)' \/ \E b \in InPlay' : Concerns(b, p)'
    BY DEF Progress, Clean, Reads, Busy
  <2>1. /\ \A b \in pass.todo : Ready(b)
        /\ \A p \in Paths : Settled(p) \/ \E b \in InPlay : Concerns(b, p)
    BY <1>1, AtWork DEF SettleInv, Reads
  <2>2. ASSUME NEW b \in r.todo PROVE Ready(b)'
    <3>1. b \in InPlay /\ b # a /\ b \in Action /\ Ready(b) /\ Named(b)
      BY <1>1, <2>1
    <3>2. b.kind \in {"pull", "quarantine"} => b.path # a.path /\ b.path # o
      BY <1>1, <3>1 DEF SettleInv, NamedInv, Apart, Concerns
    <3> QED
      BY <1>1, <3>1, <3>2, WriteLeavesReady
  <2>3. \A p \in Paths : Settled(p) /\ ~Concerns(a, p) => Settled(p)'
    BY <1>1, WriteLeavesSettled DEF Concerns
  <2> QED
    BY <1>1, <2>1, <2>2, <2>3, BegunCovers
<1>4. report' # "converged"
  BY <1>1, NotConverged
<1> QED
  BY <1>2, <1>3, <1>4 DEF SettleInv, Converged

LEMMA Put_Settles ==
  ASSUME SyncInv, SettleInv, NEW a \in pass.todo, Put(a)
  PROVE  SettleInv'
<1>1. Turn(a, {"push", "rename", "recase"}) /\ UNCHANGED <<local, prov, report>>
  BY DEF Put
<1>2. /\ a \in Action /\ a.kind \in {"push", "rename", "recase"} /\ pass.stage = "apply"
      /\ Named(a) /\ a.path \in Paths /\ a.old \in Paths
  BY <1>1, TurnFacts
<1>3. a.bytes \in Contents /\ a.content \in Contents
  BY <1>2 DEF Action
<1>4. CASE Refused(a)
  BY <1>1, <1>2, <1>4, Refused_Settles
<1>5. ASSUME NEW text \in Stored(a.bytes),
             Extends(a.path, IF a.kind = "rename" THEN 0 ELSE a.rev),
             Writes([path |-> a.path, content |-> text, deleted |-> FALSE], TRUE, Stored(a.content)),
             pass' = Begun(a, "stored", Current(a.path) + 1)
      PROVE  SettleInv'
  <2>a. PICK v : v = [path |-> a.path, content |-> text, deleted |-> FALSE]
    OBVIOUS
  <2>b. v \in Revision /\ v.path = a.path /\ ~v.deleted
    BY <1>2, <1>3, <2>a, StoredType DEF Revision
  <2>c. Writes(v, TRUE, Stored(a.content))
    BY <1>5, <2>a
  <2>1. PICK d, m, n : d = Id(a.path) /\ m = Len(docs[d]) /\ n = m + 1
    OBVIOUS
  <2>2. /\ docs' = [docs EXCEPT ![d] = Append(@, v)]
        /\ reflected \subseteq reflected' /\ misread \subseteq misread'
        /\ v.content \in Stored(a.content) \/ <<d, n>> \in misread'
    BY <2>b, <2>c, <2>1 DEF Writes
  <2>3. d \in Ids /\ docs \in [Ids -> Seq(Revision)]
    BY <1>2, <2>1, Facts, IdsOfPaths DEF Typed
  <2>4. Grows /\ n \in Nat /\ n \in 1 .. Len(docs'[d]) /\ docs'[d][n] = v
    BY <2>b, <2>1, <2>2, <2>3, Added
  <2>5. PICK o \in {a.path, a.old} : Writing(a.path, o, v)
    <3>1. /\ docs' = [docs EXCEPT ![Id(a.path)] = Append(@, v)]
          /\ misread \subseteq misread' /\ v.path = a.path
      BY <2>b, <2>1, <2>2
    <3>2. CASE a.kind = "rename"
      <4>1. Current(a.path) = 0
        BY <1>5, <3>2 DEF Extends
      <4> QED
        BY <3>1, <4>1 DEF Writing
    <3>3. CASE a.kind = "push"
      <4>1. Current(a.path) = 0 \/ Own(a.path, Current(a.path))
        BY <1>2, <1>5, <3>3 DEF Extends, Named
      <4> QED
        BY <3>1, <4>1 DEF Writing
    <3>4. CASE a.kind = "recase"
      <4>1. Id(a.old) = Id(a.path) /\ Own(a.old, a.rev) /\ a.rev = Current(a.path)
        BY <1>2, <1>5, <3>4 DEF Extends, Named
      <4>2. Current(a.old) = Current(a.path)
        BY <4>1 DEF Current
      <4> QED
        BY <3>1, <4>1, <4>2 DEF Writing
    <3> QED
      BY <1>2, <3>2, <3>3, <3>4
  <2>6. PICK r : r = Begun(a, "stored", n)
    OBVIOUS
  <2>7. n = Current(a.path) + 1 /\ pass' = r
    BY <1>5, <2>1, <2>6 DEF Current
  <2>8. /\ r.stage = "stored" /\ r.doing = a /\ r.rev = n /\ r.todo = pass.todo \ {a}
        /\ r.quiet = pass.quiet /\ r.ok = pass.ok
    BY <2>4, <2>6, BegunShape DEF Busy
  <2>9. Own(a.path, n)'
    BY <2>b, <2>1, <2>4 DEF Own, Current, Note
  <2>10. Own(a.path, r.rev)'
    BY <2>8, <2>9 DEF Own, Current, Note, Id
  <2>11. Clean => Halfway'
    <3> SUFFICES ASSUME Clean PROVE Halfway'
      OBVIOUS
    <3>1. Ready(a)
      BY <1>2, AtWork DEF SettleInv, Reads
    <3>2. Current(a.path)' = n /\ Top(a.path)' = v
      BY <1>2, <2>b, <2>5, <2>7, WritesItsOwn
    <3>3. /\ local'[a.path] = a.content
          /\ a.kind \in {"rename", "recase"} => local'[a.old] = Absent
      BY <1>1, <1>2, <3>1 DEF Ready
    <3>4. Top(a.path)'.content \in Stored(a.content) \/ <<Id(a.path), n>> \in misread'
      BY <2>1, <2>2, <3>2
    <3> QED
      BY <2>b, <2>7, <2>8, <3>2, <3>3, <3>4 DEF Halfway, Top, Current, Note, Id
  <2>12. ~Doomed(a)
    BY <1>5 DEF Doomed
  <2>13. a.kind \in KindOf(r.stage)
    BY <1>2, <2>8 DEF KindOf
  <2> QED
    BY <1>1, <2>b, <2>4, <2>5, <2>7, <2>8, <2>10, <2>11, <2>12, <2>13, Write_Settles DEF Busy
<1> QED
  BY <1>4, <1>5 DEF Put

LEMMA Delete_Settles ==
  ASSUME SyncInv, SettleInv, NEW a \in pass.todo, Delete(a)
  PROVE  SettleInv'
<1>1. Turn(a, {"delete"}) /\ UNCHANGED <<local, prov, report>>
  BY DEF Delete
<1>2. /\ a \in Action /\ a.kind = "delete" /\ pass.stage = "apply"
      /\ Named(a) /\ a.path \in Paths /\ a.old = a.path /\ Own(a.path, a.rev)
  BY <1>1, TurnFacts DEF Named
<1>3. PICK v : v = [path |-> a.path, content |-> Empty, deleted |-> TRUE]
  OBVIOUS
<1>4. v \in Revision /\ v.path = a.path /\ v.deleted /\ v.content = Empty
  BY <1>2, <1>3, PassAssumption DEF Revision
<1>5. CASE Refused(a)
  BY <1>1, <1>2, <1>5, Refused_Settles
<1>6. CASE /\ Extends(a.path, a.rev) /\ Writes(v, FALSE, {Empty})
           /\ pass' = Begun(a, "retired", 0)
  <2>1. /\ docs' = [docs EXCEPT ![Id(a.path)] = Append(@, v)]
        /\ reflected' = reflected /\ misread' = misread
    BY <1>4, <1>6 DEF Writes
  <2>2. Grows
    BY <1>2, <1>4, <2>1, GrowsByOne, IdsOfPaths, Facts DEF Typed
  <2>3. Writing(a.path, a.path, v)
    BY <1>2, <1>4, <1>6, <2>1 DEF Writing, Extends
  <2>4. PICK r : r = Begun(a, "retired", 0)
    OBVIOUS
  <2>5. /\ r.stage = "retired" /\ r.doing = a /\ r.todo = pass.todo \ {a}
        /\ r.quiet = pass.quiet /\ r.ok = pass.ok /\ pass' = r
    BY <1>6, <2>4, BegunShape DEF Busy
  <2>6. Clean => Halfway'
    <3> SUFFICES ASSUME Clean PROVE Halfway'
      OBVIOUS
    <3>1. Ready(a)
      BY <1>2, AtWork DEF SettleInv, Reads
    <3>2. local'[a.path] = Absent
      BY <1>1, <1>2, <3>1 DEF Ready
    <3>3. Top(a.path)' = v
      BY <1>2, <1>4, <2>3, WritesItsOwn
    <3>4. Remote(a.path)' = Absent
      BY <1>4, <3>3 DEF Remote, Top
    <3> QED
      BY <1>2, <2>5, <3>2, <3>4 DEF Halfway, Settled, Remote, Current, Note, Id
  <2>7. ~Doomed(a) /\ a.kind \in KindOf(r.stage)
    BY <1>2, <2>5 DEF Doomed, KindOf
  <2> QED
    BY <1>1, <1>4, <2>2, <2>3, <2>5, <2>6, <2>7, Write_Settles DEF Busy
<1> QED
  BY <1>3, <1>5, <1>6 DEF Delete

LEMMA InHandFacts ==
  ASSUME SyncInv, SettleInv, pass.stage \in Busy
  PROVE  /\ pass.doing \in Action /\ pass.doing # Nothing /\ Named(pass.doing)
         /\ pass.doing.path \in Paths /\ pass.doing.old \in Paths
         /\ pass.doing \in InPlay /\ pass.todo \subseteq InPlay
         /\ pass.doing \notin pass.todo
         /\ pass.doing.kind \in KindOf(pass.stage)
         /\ \A b \in pass.todo : b \in Action /\ Named(b) /\ b.path \in Paths /\ b.old \in Paths
         /\ \A b \in InPlay : b = pass.doing \/ b \in pass.todo
<1>1. /\ pass.doing \in Action /\ pass.doing # Nothing
      /\ \A b \in pass.todo : b \in Action
  BY Facts DEF PassOK
<1>2. /\ pass.doing \in InPlay /\ pass.todo \subseteq InPlay
      /\ \A b \in InPlay : b = pass.doing \/ b \in pass.todo
  BY <1>1 DEF InPlay
<1> QED
  BY <1>1, <1>2 DEF SettleInv, NamedInv, Action

\* The end of an action: its paths are settled, and the others are as they were.
LEMMA Finished_Settles ==
  ASSUME SyncInv, SettleInv, pass.stage \in Busy, UNCHANGED <<local, docs, report, misread, reflected>>,
         \A p \in Paths : prov'[p] \in {prov[p], NoProv}
                          \/ \E n : prov'[p].rev = n /\ Own(p, n),
         \A p \in Paths : ~Concerns(pass.doing, p) => prov'[p] = prov[p],
         NEW r, pass' = r, r.stage = "apply", r.doing = Nothing, r.todo = pass.todo,
         r.quiet = pass.quiet, r.ok => pass.ok,
         NEW x, NEW y, x = pass.doing.path, y = pass.doing.old,
         Clean /\ r.ok => Settled(x)' /\ Settled(y)'
  PROVE  SettleInv'
<1>1. Grows
  BY GrowsNot, Facts DEF Typed
<1>2. NamedInv'
  <2>1. \A p \in Paths : prov'[p] \in {prov[p], NoProv}
                         \/ \E n : prov'[p].rev = n /\ Own(p, n)'
    BY <1>1, OwnStays
  <2>2. r.doing \notin r.todo
    BY NothingIsNoAction, Facts
  <2> QED
    BY <1>1, <2>1, <2>2, NamedGoesOn DEF SettleInv, Reads
<1>3. Progress'
  <2> SUFFICES ASSUME Clean, r.ok
               PROVE  /\ \A b \in r.todo : Ready(b)'
                      /\ \A p \in Paths : Settled(p)' \/ \E b \in InPlay' : Concerns(b, p)'
    <3>1. Halfway'
      BY DEF Halfway
    <3> QED
      BY <3>1 DEF Progress, Clean, Reads
  <2>1. /\ \A b \in pass.todo : Ready(b)
        /\ \A p \in Paths : Settled(p) \/ \E b \in InPlay : Concerns(b, p)
    BY AtWork DEF SettleInv, Reads, Busy
  <2>2. \A b \in r.todo : Ready(b)'
    BY <2>1, InHandFacts, StaysReady
  <2>3. InPlay' = pass.todo
    BY Facts, NothingIsNoAction DEF InPlay
  <2>4. ASSUME NEW p \in Paths PROVE Settled(p)' \/ \E b \in pass.todo : Concerns(b, p)
    <3>1. CASE p = x \/ p = y
      BY <3>1
    <3>2. CASE ~Concerns(pass.doing, p) /\ Settled(p)
      BY <3>2, StaysSettled DEF Untouched
    <3>3. CASE ~Concerns(pass.doing, p) /\ \E b \in InPlay : Concerns(b, p)
      BY <3>3, InHandFacts
    <3> QED
      BY <2>1, <3>1, <3>2, <3>3 DEF Concerns
  <2> QED
    BY <2>2, <2>3, <2>4 DEF Concerns
<1>4. report' # "converged"
  BY NotConverged DEF Busy, Reads
<1> QED
  BY <1>2, <1>3, <1>4 DEF SettleInv, Converged

LEMMA SaveRow_Settles ==
  ASSUME SyncInv, SettleInv, SaveRow
  PROVE  SettleInv'
<1>1. /\ pass.stage = "installed" /\ pass.stage \in Busy
      /\ UNCHANGED <<local, docs, reflected, misread>>
  BY DEF SaveRow, histVars, Busy
<1>2. PICK p, rev, c : p = pass.doing.path /\ rev = pass.rev /\ c = pass.doing.content
  OBVIOUS
<1>3. /\ p \in Paths /\ pass.doing.old = p /\ pass.doing.kind = "pull" /\ c \in Contents
  BY <1>1, <1>2, InHandFacts DEF KindOf, Named, Action
<1>4. CASE Abort /\ UNCHANGED prov
  <2>1. Grows
    BY <1>1, GrowsNot, Facts DEF Typed
  <2> QED
    BY <1>1, <1>4, <2>1, Idle_Settles DEF Abort
<1>5. CASE /\ prov' = [prov EXCEPT ![p] = [rev |-> rev, content |-> c]]
           /\ pass' = Finished /\ UNCHANGED report
  <2>1. PICK row : row = [rev |-> rev, content |-> c]
    OBVIOUS
  <2>2. prov \in [Paths -> Provenance \cup {NoProv}]
    BY Facts DEF Typed
  <2>3. prov'[p] = row /\ row.rev = rev /\ \A q \in Paths : q # p => prov'[q] = prov[q]
    BY <1>3, <1>5, <2>1, <2>2
  <2>4. Own(p, rev)
    BY <1>1, <1>2 DEF SettleInv, NamedInv
  <2>5. \A q \in Paths : prov'[q] \in {prov[q], NoProv} \/ \E n : prov'[q].rev = n /\ Own(q, n)
    BY <2>3, <2>4
  <2>6. Clean => Settled(p)'
    <3> SUFFICES ASSUME Clean PROVE Settled(p)'
      OBVIOUS
    <3>1. Halfway
      BY <1>1, AtWork DEF SettleInv, Reads
    <3>2. local[p] = c /\ Remote(p) = c
      BY <1>1, <1>2, <3>1 DEF Halfway
    <3>3. local'[p] = c /\ Remote(p)' = c /\ c # Absent
      BY <1>1, <1>3, <3>2, NoteUntouched, PassAssumption
    <3> QED
      BY <3>3 DEF Settled
  <2>7. PICK r : r = Finished
    OBVIOUS
  <2>8. /\ r.stage = "apply" /\ r.doing = Nothing /\ r.todo = pass.todo
        /\ r.quiet = pass.quiet /\ r.ok = pass.ok /\ pass' = r
    BY <1>5, <2>7, FinishedShape
  <2> QED
    BY <1>1, <1>2, <1>3, <1>5, <2>3, <2>5, <2>6, <2>8, Finished_Settles DEF Concerns
<1> QED
  BY <1>2, <1>4, <1>5 DEF SaveRow

LEMMA Unlink_Settles ==
  ASSUME SyncInv, SettleInv, Unlink
  PROVE  SettleInv'
<1>1. /\ pass.stage = "kept" /\ pass.stage \in Busy
      /\ UNCHANGED <<docs, prov, reflected, misread>>
  BY DEF Unlink, histVars, Busy
<1>2. PICK a, p : a = pass.doing /\ p = a.path
  OBVIOUS
<1>3. /\ a \in Action /\ p \in Paths /\ a.old = p /\ a.kind = "quarantine" /\ a # Nothing
      /\ a \in InPlay /\ a \notin pass.todo /\ pass.todo \subseteq InPlay
      /\ \A b \in pass.todo : b \in Action
  BY <1>1, <1>2, InHandFacts DEF KindOf, Named
<1>4. Grows
  BY <1>1, GrowsNot, Facts DEF Typed
<1>5. local' = [local EXCEPT ![p] = Absent]
  BY <1>2 DEF Unlink
<1>6. local'[p] = Absent /\ \A q \in Paths : q # p => local'[q] = local[q]
  BY <1>3, <1>5, Facts DEF Typed
<1>7. CASE Abort
  BY <1>1, <1>4, <1>7, Idle_Settles DEF Abort
<1>8. CASE pass' = [pass EXCEPT !.stage = "unlinked"] /\ UNCHANGED report
  <2>1. PICK r : r = [pass EXCEPT !.stage = "unlinked"]
    OBVIOUS
  <2>2. /\ r.stage = "unlinked" /\ r.doing = a /\ r.todo = pass.todo
        /\ r.quiet = pass.quiet /\ r.ok = pass.ok /\ pass' = r
    BY <1>2, <1>8, <2>1, Facts DEF PassRec
  <2>3. NamedInv'
    <3>1. r.doing.kind \in KindOf(r.stage)
      BY <1>3, <2>2 DEF KindOf
    <3> QED
      BY <1>1, <1>3, <1>4, <2>2, <3>1, NamedGoesOn DEF SettleInv, Reads
  <2>4. Progress'
    <3> SUFFICES ASSUME Clean
                 PROVE  /\ \A b \in r.todo : Ready(b)'
                        /\ Halfway'
                        /\ \A q \in Paths : Settled(q)' \/ \E b \in InPlay' : Concerns(b, q)'
      BY <2>2 DEF Progress, Clean, Reads
    <3>1. /\ \A b \in pass.todo : Ready(b)
          /\ Halfway
          /\ \A q \in Paths : Settled(q) \/ \E b \in InPlay : Concerns(b, q)
      BY <1>1, AtWork DEF SettleInv, Reads
    <3>2. ASSUME NEW b \in r.todo PROVE Ready(b)'
      <4>1. b \in InPlay /\ b # a /\ b \in Action /\ Ready(b)
        BY <1>3, <2>2, <3>1
      <4>2. ~Concerns(b, p)
        BY <1>2, <1>3, <4>1 DEF SettleInv, NamedInv, Apart
      <4>3. local'[b.path] = local[b.path] /\ local'[b.old] = local[b.old]
        BY <1>6, <4>1, <4>2 DEF Concerns, Action
      <4> QED
        BY <1>1, <4>1, <4>3, StaysReady
    <3>3. Halfway'
      <4>1. Ready(a)
        BY <1>1, <1>2, <3>1 DEF Halfway
      <4>2. Top(p).deleted
        BY <1>2, <1>3, <4>1 DEF Ready
      <4>3. Remote(p) = Absent
        BY <4>2 DEF Remote, Top
      <4>4. Remote(p)' = Absent
        BY <1>1, <1>3, <4>3, NoteUntouched
      <4> QED
        BY <1>3, <1>6, <2>2, <4>4 DEF Halfway, Remote, Current, Note, Id
    <3>4. InPlay' = InPlay
      BY <1>2, <2>2 DEF InPlay
    <3>5. ASSUME NEW q \in Paths PROVE Settled(q)' \/ \E b \in InPlay : Concerns(b, q)
      <4>1. CASE q = p
        BY <1>2, <1>3, <4>1 DEF Concerns
      <4>2. CASE q # p /\ Settled(q)
        BY <1>1, <1>6, <4>2, StaysSettled DEF Untouched
      <4> QED
        BY <3>1, <4>1, <4>2
    <3> QED
      BY <3>2, <3>3, <3>4, <3>5 DEF Concerns
  <2>5. report' # "converged"
    BY <1>1, <1>8, NotConverged DEF Reads
  <2> QED
    BY <2>3, <2>4, <2>5 DEF SettleInv, Converged
<1> QED
  BY <1>2, <1>7, <1>8 DEF Unlink

LEMMA Record_Settles ==
  ASSUME SyncInv, SettleInv, Record
  PROVE  SettleInv'
<1>1. PICK a, p, o : a = pass.doing /\ p = a.path /\ o = a.old
  OBVIOUS
<1>2. PICK rev, c : rev = pass.rev /\ c = a.content
  OBVIOUS
<1>3. /\ pass.stage = "stored" /\ pass.stage \in Busy
      /\ UNCHANGED <<local, docs, report, reflected, misread>>
      /\ prov' = [(IF a.kind = "recase" THEN [prov EXCEPT ![o] = NoProv] ELSE prov)
                    EXCEPT ![p] = [rev |-> rev, content |-> c]]
      /\ pass' = IF a.kind = "rename" THEN [pass EXCEPT !.stage = "renamed"] ELSE Finished
  BY <1>1, <1>2 DEF Record, histVars, Busy
<1>4. /\ a \in Action /\ p \in Paths /\ o \in Paths /\ c \in Contents
      /\ a.kind \in {"push", "rename", "recase"} /\ a # Nothing /\ a \in InPlay /\ Named(a)
      /\ a \notin pass.todo /\ pass.todo \subseteq InPlay /\ \A b \in pass.todo : b \in Action
  BY <1>1, <1>2, <1>3, InHandFacts DEF KindOf, Action
<1>5. /\ prov'[p].rev = rev /\ prov'[p].content = c
      /\ a.kind = "recase" /\ o # p => prov'[o] = NoProv
      /\ \A q \in Paths : q # p => prov'[q] \in {prov[q], NoProv}
      /\ \A q \in Paths : q # p /\ q # o => prov'[q] = prov[q]
  <2>1. PICK row : row = [rev |-> rev, content |-> c]
    OBVIOUS
  <2>2. PICK others : others = IF a.kind = "recase" THEN [prov EXCEPT ![o] = NoProv] ELSE prov
    OBVIOUS
  <2>3. /\ others \in [Paths -> Provenance \cup {NoProv}]
        /\ \A q \in Paths : others[q] \in {prov[q], NoProv}
        /\ \A q \in Paths : q # o => others[q] = prov[q]
        /\ a.kind = "recase" => others[o] = NoProv
    BY <1>4, <2>2, Facts DEF Typed
  <2>4. prov' = [others EXCEPT ![p] = row]
    BY <1>3, <2>1, <2>2
  <2> QED
    BY <1>4, <2>1, <2>3, <2>4
<1>6. Own(p, rev) /\ Grows
  BY <1>1, <1>2, <1>3, GrowsNot, Facts DEF SettleInv, NamedInv, Typed
<1>7. \A q \in Paths : prov'[q] \in {prov[q], NoProv} \/ \E n : prov'[q].rev = n /\ Own(q, n)
  BY <1>5, <1>6
<1>8. \A q \in Paths : ~Concerns(a, q) => prov'[q] = prov[q]
  BY <1>1, <1>5 DEF Concerns
<1>9. Clean => /\ Settled(p)'
               /\ a.kind \in {"rename", "recase"} => local'[o] = Absent
  <2> SUFFICES ASSUME Clean
               PROVE  /\ Settled(p)'
                      /\ a.kind \in {"rename", "recase"} => local'[o] = Absent
    OBVIOUS
  <2>1. Halfway
    BY <1>3, AtWork DEF SettleInv, Reads
  <2>2. /\ local[p] = c /\ rev = Current(p) /\ ~Top(p).deleted
        /\ Top(p).content \in Stored(c) \/ <<Id(p), Current(p)>> \in misread
        /\ a.kind \in {"rename", "recase"} => local[o] = Absent
    BY <1>1, <1>2, <1>3, <2>1 DEF Halfway
  <2>3. Top(p).path = p /\ Current(p) # 0
    BY <1>6, <2>2, Facts DEF Own, Top, Current
  <2>4. Remote(p) = Top(p).content
    BY <2>2, <2>3 DEF Remote, Top
  <2>5. Top(p) \in Revision
    <3>1. docs[Id(p)] \in Seq(Revision) /\ rev \in 1 .. Len(docs[Id(p)])
      BY <1>4, <1>6, Facts DEF Own, Current
    <3> QED
      BY <2>2, <3>1 DEF Top, Note
  <2>6. Remote(p) # Absent /\ c # Absent
    BY <1>4, <2>3, <2>4, <2>5, PassAssumption DEF Revision
  <2>7. /\ Current(p)' = rev /\ Remote(p)' = Remote(p) /\ local'[p] = c
    BY <1>3, <1>4, <2>2, NoteUntouched
  <2>8. /\ Top(p)' = Top(p)
        /\ Top(p).content \in Stored(c) \/ <<Id(p), Current(p)>>' \in misread'
    BY <1>3, <1>4, <2>2, <2>7, NoteUntouched DEF Id
  <2>9. Settled(p)'
    BY <1>5, <2>6, <2>7, <2>8 DEF Settled
  <2> QED
    BY <1>3, <2>2, <2>9
<1>10. CASE a.kind = "rename"
  <2>1. PICK r : r = [pass EXCEPT !.stage = "renamed"]
    OBVIOUS
  <2>2. /\ r.stage = "renamed" /\ r.doing = a /\ r.todo = pass.todo
        /\ r.quiet = pass.quiet /\ r.ok = pass.ok /\ pass' = r
    BY <1>1, <1>3, <1>10, <2>1, Facts DEF PassRec
  <2>3. NamedInv'
    <3>1. r.doing.kind \in KindOf(r.stage)
      BY <1>10, <2>2 DEF KindOf
    <3>2. \A q \in Paths : prov'[q] \in {prov[q], NoProv}
                           \/ \E n : prov'[q].rev = n /\ Own(q, n)'
      BY <1>6, <1>7, OwnStays
    <3> QED
      BY <1>4, <1>6, <2>2, <3>1, <3>2, NamedGoesOn DEF SettleInv, Reads
  <2>4. Progress'
    <3> SUFFICES ASSUME Clean
                 PROVE  /\ \A b \in r.todo : Ready(b)'
                        /\ Halfway'
                        /\ \A q \in Paths : Settled(q)' \/ \E b \in InPlay' : Concerns(b, q)'
      BY <2>2 DEF Progress, Clean, Reads
    <3>1. /\ \A b \in pass.todo : Ready(b)
          /\ \A q \in Paths : Settled(q) \/ \E b \in InPlay : Concerns(b, q)
      BY <1>3, AtWork DEF SettleInv, Reads
    <3>2. \A b \in r.todo : Ready(b)'
      BY <1>3, <1>4, <2>2, <3>1, StaysReady
    <3>3. Halfway'
      BY <1>1, <1>9, <1>10, <2>2 DEF Halfway, Settled, Remote, Top, Current, Note, Id
    <3>4. InPlay' = InPlay
      BY <1>1, <2>2 DEF InPlay
    <3>5. ASSUME NEW q \in Paths PROVE Settled(q)' \/ \E b \in InPlay : Concerns(b, q)
      <4>1. CASE ~Concerns(a, q) /\ Settled(q)
        BY <1>3, <1>8, <4>1, StaysSettled DEF Untouched
      <4> QED
        BY <1>4, <3>1, <4>1
    <3> QED
      BY <3>2, <3>3, <3>4, <3>5 DEF Concerns
  <2>5. report' # "converged"
    BY <1>3, NotConverged DEF Reads
  <2> QED
    BY <2>3, <2>4, <2>5 DEF SettleInv, Converged
<1>11. CASE a.kind # "rename"
  <2>1. PICK r : r = Finished
    OBVIOUS
  <2>2. /\ r.stage = "apply" /\ r.doing = Nothing /\ r.todo = pass.todo
        /\ r.quiet = pass.quiet /\ r.ok = pass.ok /\ pass' = r
    BY <1>3, <1>11, <2>1, FinishedShape
  <2>3. Clean => Settled(o)'
    <3> SUFFICES ASSUME Clean, a.kind = "recase" PROVE Settled(o)'
      BY <1>1, <1>4, <1>9, <1>11 DEF Named
    <3>1. o # p /\ Id(o) = Id(p) /\ local'[o] = Absent
      BY <1>1, <1>4, <1>9 DEF Named
    <3>2. Halfway
      BY <1>3, AtWork DEF SettleInv, Reads
    <3>3. rev = Current(p)
      BY <1>1, <1>2, <1>3, <3>2 DEF Halfway
    <3>4. Top(p).path = p
      BY <1>6, <3>3 DEF Own, Top
    <3>5. Top(o) = Top(p)
      BY <3>1 DEF Top, Note, Current
    <3>6. Remote(o) = Absent
      BY <3>1, <3>4, <3>5 DEF Remote, Top
    <3>7. Remote(o)' = Absent
      BY <1>3, <1>4, <3>6, NoteUntouched
    <3> QED
      BY <3>1, <3>7 DEF Settled
  <2> QED
    BY <1>1, <1>3, <1>7, <1>8, <1>9, <2>2, <2>3, Finished_Settles
<1> QED
  BY <1>10, <1>11

\* The source of a rename is not deleted: the action ends with an error.
LEMMA NotRetired_Settles ==
  ASSUME SyncInv, SettleInv, pass.stage = "renamed",
         UNCHANGED <<local, docs, prov, report, reflected, misread>>,
         pass' = [Finished EXCEPT !.ok = FALSE]
  PROVE  SettleInv'
<1>1. PICK r : r = [Finished EXCEPT !.ok = FALSE]
  OBVIOUS
<1>2. /\ r.stage = "apply" /\ r.doing = Nothing /\ r.todo = pass.todo
      /\ r.quiet = pass.quiet /\ ~r.ok /\ pass' = r
  BY <1>1, Facts DEF Finished, PassRec
<1>3. PICK x, y : x = pass.doing.path /\ y = pass.doing.old
  OBVIOUS
<1> QED
  BY <1>2, <1>3, Finished_Settles DEF Busy

LEMMA Retire_Settles ==
  ASSUME SyncInv, SettleInv, Retire
  PROVE  SettleInv'
<1>1. PICK a, p, o : a = pass.doing /\ p = a.path /\ o = a.old
  OBVIOUS
<1>2. pass.stage = "renamed" /\ pass.stage \in Busy /\ UNCHANGED <<local, prov, report>>
  BY DEF Retire, Busy
<1>3. /\ a \in Action /\ p \in Paths /\ o \in Paths /\ a.kind = "rename" /\ o # p
      /\ Own(o, a.rev) /\ a # Nothing /\ a \in InPlay /\ a \notin pass.todo
      /\ pass.todo \subseteq InPlay /\ \A b \in pass.todo : b \in Action /\ Named(b)
  BY <1>1, <1>2, InHandFacts DEF KindOf, Named
<1>4. CASE pass' = [Finished EXCEPT !.ok = FALSE] /\ UNCHANGED <<docs, histVars>>
  <2>1. UNCHANGED <<docs, reflected, misread>>
    BY <1>4 DEF histVars
  <2> QED
    BY <1>2, <1>4, <2>1, NotRetired_Settles
<1>5. PICK v : v = [path |-> o, content |-> Empty, deleted |-> TRUE]
  OBVIOUS
<1>6. v \in Revision /\ v.path = o /\ v.deleted /\ v.content = Empty
  BY <1>3, <1>5, PassAssumption DEF Revision
<1>7. CASE /\ Extends(o, a.rev) /\ Writes(v, FALSE, {Empty})
           /\ pass' = [pass EXCEPT !.stage = "retired"]
  <2>1. /\ docs' = [docs EXCEPT ![Id(o)] = Append(@, v)]
        /\ reflected' = reflected /\ misread' = misread
    BY <1>6, <1>7 DEF Writes
  <2>2. Grows
    BY <1>3, <1>6, <2>1, GrowsByOne, IdsOfPaths, Facts DEF Typed
  <2>3. Writing(o, o, v)
    BY <1>3, <1>6, <1>7, <2>1 DEF Writing, Extends
  <2>4. PICK r : r = [pass EXCEPT !.stage = "retired"]
    OBVIOUS
  <2>5. /\ r.stage = "retired" /\ r.doing = a /\ r.todo = pass.todo
        /\ r.quiet = pass.quiet /\ r.ok = pass.ok /\ pass' = r
    BY <1>1, <1>7, <2>4, Facts DEF PassRec
  <2>6. NamedInv'
    <3>1. r.doing.kind \in KindOf(r.stage)
      BY <1>3, <2>5 DEF KindOf
    <3> QED
      BY <1>2, <1>3, <2>2, <2>5, <3>1, NamedGoesOn DEF SettleInv, Reads
  <2>7. Progress'
    <3> SUFFICES ASSUME Clean
                 PROVE  /\ \A b \in r.todo : Ready(b)'
                        /\ Halfway'
                        /\ \A q \in Paths : Settled(q)' \/ \E b \in InPlay' : Concerns(b, q)'
      BY <2>5 DEF Progress, Clean, Reads
    <3>1. /\ \A b \in pass.todo : Ready(b)
          /\ Halfway
          /\ \A q \in Paths : Settled(q) \/ \E b \in InPlay : Concerns(b, q)
      BY <1>2, AtWork DEF SettleInv, Reads
    <3>2. ASSUME NEW b \in r.todo PROVE Ready(b)'
      <4>1. b \in InPlay /\ b # a /\ b \in Action /\ Named(b) /\ Ready(b)
        BY <1>3, <2>5, <3>1
      <4>2. b.kind \in {"pull", "quarantine"} => b.path # o
        BY <1>1, <1>3, <4>1 DEF SettleInv, NamedInv, Apart, Concerns
      <4> QED
        BY <1>2, <1>3, <1>6, <2>3, <4>1, <4>2, WriteLeavesReady
    <3>3. Halfway'
      <4>1. local[o] = Absent /\ Settled(p)
        BY <1>1, <1>2, <1>3, <3>1 DEF Halfway
      <4>2. Settled(p)'
        BY <1>2, <1>3, <1>6, <2>3, <4>1, WriteLeavesSettled
      <4>3. Top(o)' = v
        BY <1>3, <1>6, <2>3, WritesItsOwn
      <4>4. local'[o] = Absent /\ Remote(o)' = Absent
        BY <1>2, <1>6, <4>1, <4>3 DEF Remote, Top
      <4> QED
        BY <1>1, <2>5, <4>2, <4>4 DEF Halfway, Settled, Remote, Top, Current, Note, Id
    <3>4. InPlay' = InPlay
      BY <1>1, <2>5 DEF InPlay
    <3>5. ASSUME NEW q \in Paths PROVE Settled(q)' \/ \E b \in InPlay : Concerns(b, q)
      <4>1. CASE Concerns(a, q)
        BY <1>3, <4>1
      <4>2. CASE ~Concerns(a, q) /\ Settled(q)
        <5>1. q # o
          BY <1>1, <4>2 DEF Concerns
        <5> QED
          BY <1>2, <1>3, <1>6, <2>3, <4>2, <5>1, WriteLeavesSettled
      <4> QED
        BY <3>1, <4>1, <4>2
    <3> QED
      BY <3>2, <3>3, <3>4, <3>5 DEF Concerns
  <2>8. report' # "converged"
    BY <1>2, NotConverged DEF Reads
  <2> QED
    BY <2>6, <2>7, <2>8 DEF SettleInv, Converged
<1> QED
  BY <1>1, <1>4, <1>5, <1>7 DEF Retire

LEMMA Forget_Settles ==
  ASSUME SyncInv, SettleInv, Forget
  PROVE  SettleInv'
<1>1. PICK p, o : p = pass.doing.path /\ o = pass.doing.old
  OBVIOUS
<1>2. /\ pass.stage \in {"unlinked", "retired"} /\ pass.stage \in Busy
      /\ prov' = [prov EXCEPT ![o] = NoProv] /\ pass' = Finished
      /\ UNCHANGED <<local, docs, report, reflected, misread>>
  BY <1>1 DEF Forget, histVars, Busy
<1>3. p \in Paths /\ o \in Paths
  BY <1>1, <1>2, InHandFacts
<1>4. /\ prov'[o] = NoProv
      /\ \A q \in Paths : q # o => prov'[q] = prov[q]
  BY <1>2, <1>3, Facts DEF Typed
<1>5. \A q \in Paths : prov'[q] \in {prov[q], NoProv} \/ \E n : prov'[q].rev = n /\ Own(q, n)
  BY <1>4
<1>6. \A q \in Paths : ~Concerns(pass.doing, q) => prov'[q] = prov[q]
  BY <1>1, <1>4 DEF Concerns
<1>7. Clean => Settled(p)' /\ Settled(o)'
  <2> SUFFICES ASSUME Clean PROVE Settled(p)' /\ Settled(o)'
    OBVIOUS
  <2>1. Halfway
    BY <1>2, AtWork DEF SettleInv, Reads, Busy
  <2>2. local[o] = Absent /\ Remote(o) = Absent /\ (pass.stage = "retired" => Settled(p))
    BY <1>1, <1>2, <2>1 DEF Halfway
  <2>3. local'[o] = Absent /\ Remote(o)' = Absent
    BY <1>2, <1>3, <2>2, NoteUntouched
  <2>4. Settled(o)'
    BY <2>3 DEF Settled
  <2>5. CASE p # o
    <3>1. pass.stage = "retired"
      BY <1>1, <1>2, <2>5, InHandFacts DEF KindOf, Named
    <3> QED
      BY <1>2, <1>3, <1>4, <2>2, <2>4, <2>5, <3>1, StaysSettled DEF Untouched
  <2> QED
    BY <2>4, <2>5
<1>8. PICK r : r = Finished
  OBVIOUS
<1>9. /\ r.stage = "apply" /\ r.doing = Nothing /\ r.todo = pass.todo
      /\ r.quiet = pass.quiet /\ r.ok = pass.ok /\ pass' = r
  BY <1>2, <1>8, FinishedShape
<1> QED
  BY <1>1, <1>2, <1>5, <1>6, <1>7, <1>9, Finished_Settles

\* The plan is done: no path waits for an action any more.
LEMMA EndPass_Settles ==
  ASSUME SyncInv, SettleInv, EndPass
  PROVE  SettleInv'
<1>1. /\ pass.stage = "apply" /\ pass.todo = {} /\ pass' = IdlePass
      /\ report' = IF ~pass.quiet THEN report ELSE IF pass.ok THEN "converged" ELSE "errors"
      /\ UNCHANGED <<local, docs, prov, reflected, misread>>
  BY DEF EndPass, histVars
<1>2. Grows
  BY <1>1, GrowsNot, Facts DEF Typed
<1>3. CASE report' # "converged"
  BY <1>1, <1>2, <1>3, Idle_Settles
<1>4. CASE report' = "converged"
  <2>1. Clean
    BY <1>1, <1>4 DEF Clean, SettleInv, Converged
  <2>2. InPlay = {}
    BY <1>1, Facts DEF InPlay, PassOK, Busy
  <2>3. \A p \in Paths : Settled(p)
    BY <1>1, <2>1, <2>2, AtWork DEF SettleInv, Reads
  <2>4. \A p \in Paths : Settled(p)'
    BY <1>1, <2>3, StaysSettled DEF Untouched
  <2>5. PICK r : r = IdlePass
    OBVIOUS
  <2>6. r.todo = {} /\ r.doing = Nothing /\ r.stage = "idle" /\ r.quiet /\ pass' = r
    BY <1>1, <2>5 DEF IdlePass
  <2>7. NamedInv'
    BY <1>1, <1>2, <2>6, NamedGoesOn DEF SettleInv
  <2>8. Progress'
    BY <2>6 DEF Progress, Reads
  <2>9. Converged'
    BY <2>4, <2>6 DEF Converged
  <2> QED
    BY <2>7, <2>8, <2>9 DEF SettleInv
<1> QED
  BY <1>3, <1>4

-----------------------------------------------------------------------------

LEMMA Faults_Settle ==
  ASSUME SyncInv, SettleInv, FaultNext
  PROVE  SettleInv'
<1>1. ASSUME NEW a \in pass.todo, PutFails(a) PROVE SettleInv'
  BY <1>1, Refused_Settles DEF PutFails, Turn
<1>2. CASE RetireFails
  BY <1>2, NotRetired_Settles DEF RetireFails, histVars
<1>3. CASE PassThrows
  <2>1. /\ pass' = IdlePass /\ report' = "none"
        /\ UNCHANGED <<docs, prov, reflected, misread>>
    BY <1>3 DEF PassThrows, Abort, histVars
  <2> QED
    BY <2>1, GrowsNot, Facts, Idle_Settles DEF Typed
<1> QED
  BY <1>1, <1>2, <1>3, Read_Settles DEF FaultNext

LEMMA AllWorld_Settles ==
  ASSUME SyncInv, SettleInv, WorldNext
  PROVE  SettleInv'
<1>1. ASSUME NEW files, Edit(files) PROVE SettleInv'
  <2>1. UNCHANGED <<docs, prov, reflected, misread>> /\ Disturb
    BY <1>1 DEF Edit, histVars
  <2> QED
    BY <2>1, GrowsNot, Facts, World_Settles DEF Typed
<1>2. ASSUME NEW v \in Revision, OtherWrites(v) PROVE SettleInv'
  <2>1. /\ docs' = [docs EXCEPT ![Id(v.path)] = Append(@, v)]
        /\ UNCHANGED <<prov, reflected, misread>> /\ Disturb
    BY <1>2 DEF OtherWrites, histVars
  <2>2. Id(v.path) \in Ids
    BY IdsOfPaths DEF Revision
  <2>3. Grows
    BY <2>1, <2>2, GrowsByOne, Facts DEF Typed
  <2> QED
    BY <2>1, <2>3, World_Settles
<1> QED
  BY <1>1, <1>2 DEF WorldNext, UserEdits, UserRenames

LEMMA Next_Settles ==
  ASSUME SyncInv, SettleInv, [Next]_passVars
  PROVE  SettleInv'
<1>1. CASE UNCHANGED passVars
  <2>1. /\ UNCHANGED <<local, docs, prov, report, reflected, misread>> /\ pass' = pass
    BY <1>1 DEF passVars, histVars
  <2>2. NamedInv'
    BY <2>1 DEF SettleInv, NamedInv, InPlay, Named, Own, Apart, Concerns, Current, Note, Id
  <2>3. /\ \A p \in Paths : Settled(p)' = Settled(p)
        /\ \A a : Ready(a)' = Ready(a) /\ Doomed(a)' = Doomed(a)
    BY <2>1 DEF Settled, Ready, Doomed, Remote, Top, Current, Note, Id, Extends
  <2>4. Halfway' = Halfway
    BY <2>1 DEF Halfway, Settled, Ready, Remote, Top, Current, Note, Id
  <2>5. Progress' /\ Converged'
    BY <2>1, <2>3, <2>4 DEF SettleInv, Progress, Converged, InPlay, Concerns, Reads
  <2> QED
    BY <2>2, <2>5 DEF SettleInv
<1>2. CASE WorldNext
  BY <1>2, AllWorld_Settles
<1>3. CASE FaultNext
  BY <1>3, Faults_Settle
<1>4. CASE ReadNext
  BY <1>4, BeginPass_Settles, ScanFile_Settles, Read_Settles, Plan_Settles DEF ReadNext
<1>5. CASE ApplyNext
  BY <1>5, Install_Settles, Quarantine_Settles, Put_Settles, Delete_Settles, SaveRow_Settles,
     Unlink_Settles, Record_Settles, Retire_Settles, Forget_Settles, EndPass_Settles DEF ApplyNext
<1> QED
  BY <1>1, <1>2, <1>3, <1>4, <1>5 DEF Next, PassNext

LEMMA Init_Settles == PassInit => SettleInv
<1> SUFFICES ASSUME PassInit PROVE SettleInv
  OBVIOUS
<1>1. PICK files \in [Paths -> (Contents \ {Empty}) \cup {Absent}] :
    LET present == {p \in Paths : files[p] # Absent} IN
    /\ Cardinality(present \cap Twins) <= 1
    /\ docs = [d \in Ids |-> IF \E p \in present : Id(p) = d
                             THEN LET p == CHOOSE q \in present : Id(q) = d
                                  IN <<[path |-> p, content |-> files[p], deleted |-> FALSE]>>
                             ELSE <<>>]
    /\ prov = [p \in Paths |-> IF p \in present THEN [rev |-> 1, content |-> files[p]] ELSE NoProv]
    /\ pass = IdlePass /\ report = "none"
  BY DEF PassInit
<1>2. PICK present : present = {p \in Paths : files[p] # Absent}
  OBVIOUS
<1>3. \A p, q \in present : Id(p) = Id(q) => p = q
  BY <1>1, <1>2, OneTwin
<1>4. ASSUME NEW p \in present PROVE Own(p, 1)
  <2>1. PICK v : v = [path |-> p, content |-> files[p], deleted |-> FALSE]
    OBVIOUS
  <2>2. p \in Paths /\ files[p] \in Contents
    BY <1>2
  <2>3. docs[Id(p)] = <<v>>
    BY <1>1, <1>2, <1>3, <2>1, <2>2, IdsOfPaths
  <2>4. Len(docs[Id(p)]) = 1 /\ docs[Id(p)][1] = v
    BY <2>3
  <2>5. v.path = p /\ v.content # Garbled
    BY <2>1, <2>2, PassAssumption
  <2> QED
    BY <2>4, <2>5 DEF Own, Current, Note
<1>5. \A p \in Paths : prov[p] # NoProv => p \in present /\ prov[p].rev = 1
  BY <1>1, <1>2
<1>6. pass.todo = {} /\ pass.doing = Nothing /\ pass.stage = "idle"
  BY <1>1 DEF IdlePass
<1>7. InPlay = {}
  BY <1>6 DEF InPlay
<1>8. NamedInv
  <2>1. \A p \in Paths : prov[p] # NoProv => Own(p, prov[p].rev)
    BY <1>4, <1>5
  <2> QED
    BY <1>6, <1>7, <2>1 DEF NamedInv, Apart
<1> QED
  BY <1>1, <1>6, <1>8 DEF SettleInv, Progress, Converged, Reads

\* Rows and actions are about a path's own revisions, no two actions disturb each
\* other, and a pass that is neither disturbed nor in error has for every path
\* either nothing to do or an action.
THEOREM SettleInvariant == PassSpec => []SettleInv
<1> QED
  BY SyncInvariant, Init_Settles, Next_Settles, PTL DEF PassSpec

\* Vault, notes, rows and pass hold values of their types, every row is about a
\* revision there is, and between the two halves of an action, and only then, one
\* of the kind that is halfway at that stage is in hand.
THEOREM PassTypeCorrect == PassSpec => []PassTypeOK
<1>1. ASSUME SyncInv, NamedInv PROVE PassTypeOK
  <2>1. \A p \in Paths : prov[p] # NoProv => prov[p].rev \in 1 .. Current(p)
    BY <1>1 DEF NamedInv, Own
  <2>2. pass.doing # Nothing => pass.doing.kind \in KindOf(pass.stage)
    BY <1>1 DEF NamedInv
  <2> QED
    BY <1>1, <2>1, <2>2, Facts DEF PassTypeOK, Typed, PassRec, PassOK, Busy
<1>2. SettleInv => NamedInv
  BY DEF SettleInv
<1> QED
  BY <1>1, <1>2, SyncInvariant, SettleInvariant, PTL

\* What is settled is in step, or is what the planner has no case for.
LEMMA SettledInStep ==
  ASSUME NamedInv, NEW p \in Paths, Settled(p)
  PROVE  InStep(p)
<1>1. CASE local[p] = Absent
  <2>1. CASE Remote(p) = Absent
    BY <1>1, <2>1 DEF InStep
  <2>2. CASE Remote(p) = Garbled
    <3>1. Current(p) # 0 /\ Note(p, Current(p)).content = Garbled
      BY <2>2, PassAssumption DEF Remote
    <3> QED
      BY <3>1 DEF InStep, Unplanned
  <2> QED
    BY <1>1, <2>1, <2>2 DEF Settled
<1>2. CASE local[p] # Absent /\ prov[p] # NoProv /\ Top(p).path # p
  BY <1>2 DEF InStep, Unplanned, Top
<1>3. CASE local[p] # Absent /\ prov[p] = NoProv
  BY <1>3 DEF Settled, InStep, Unplanned
<1>4. CASE local[p] # Absent /\ prov[p] # NoProv /\ Top(p).path = p
  <2>1. CASE Remote(p) = Absent
    <3>1. Current(p) # 0
      BY <1>4 DEF NamedInv, Own
    <3> QED
      BY <1>4, <2>1, <3>1 DEF Settled, InStep, Unplanned, Top
  <2>2. CASE Remote(p) # Absent
    <3>1. Current(p) # 0 /\ Remote(p) = Top(p).content
      BY <2>2 DEF Remote, Top
    <3>2. CASE Top(p).content = Garbled
      BY <3>1, <3>2 DEF InStep, Unplanned, Top
    <3>3. CASE Top(p).content # Garbled /\ Remote(p) \in Stored(local[p])
      BY <3>3 DEF InStep, Stored
    <3>4. CASE Top(p).content # Garbled /\ Remote(p) \notin Stored(local[p])
      BY <1>4, <3>1, <3>4 DEF Settled, InStep
    <3> QED
      BY <3>2, <3>3, <3>4
  <2> QED
    BY <2>1, <2>2
<1> QED
  BY <1>1, <1>2, <1>3, <1>4

\* When a pass reports that it converged, and until something happens, file and
\* note are equal for every path, renames and deletions included, but for what
\* buildSyncPlan() has no case for and for a file that was read differently
\* between its hash and its push: no action of a plan undoes what another one
\* did, and a plan without errors is about every path that differs.
THEOREM ConvergenceIsInSync == PassSpec => []ConvergedMeansInSync
<1>1. ASSUME SettleInv PROVE ConvergedMeansInSync
  BY <1>1, SettledInStep DEF SettleInv, Converged, ConvergedMeansInSync
<1> QED
  BY <1>1, SettleInvariant, PTL
=============================================================================
