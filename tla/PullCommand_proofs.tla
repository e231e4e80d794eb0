--------------------------- MODULE PullCommand_proofs ---------------------------
(***************************************************************************)
(* For any notes, bodies, page size and number of events: what the         *)
(* checkpoint of a pull and the position of an incremental reading claim,  *)
(* what a pull may overwrite, and that pulling again does nothing.         *)
(***************************************************************************)
EXTENDS PullCommand, TLAPS

-----------------------------------------------------------------------------
(* The inductive invariant *)

Seen == items \union pending \union found
Pulled(b) == [body |-> b, by |-> "pull"]

\* Every present leaf of the note has been collected, but for leaves that could
\* not be decoded; no file that a pull installed has such a body.
Whole(n) ==
  \A l \in leaves[n] : ItemOf(n, l) \in Seen \/ (n \in blocked /\ files[n] # Pulled(l.body))

\* Which phase belongs to which command, and when a reading is empty.
Phases ==
  /\ phase \in {"probing", "listing"} \union AtVault => command = "pull"
  /\ phase = "following" => command = "pass" /\ checkpoint <= cursor /\ cursor <= seq
  /\ command = "pull" => checkpoint <= position
  /\ phase \in {"idle", "probing"} => Seen = {} /\ blocked = {} /\ cursor = 0
  /\ phase \in {"comparing"} \union AtVault => items = {} /\ pending = {}
  /\ phase \in AtVault \ {"inspecting"} => outcome = "none"
  /\ phase \notin AtVault => plan = {}

\* What was collected of a note that has not changed since the snapshot is a
\* leaf of it, and comes with all the others; and no such note before the
\* cursor is missing, but those that were stepped over.
Inventoried ==
  command = "pull" /\ phase \in {"listing", "fetching"} =>
    /\ \A i \in Seen : changed[i.id] <= position =>
         Whole(i.id) /\ \E l \in leaves[i.id] : i = ItemOf(i.id, l)
    /\ \A n \in NoteIds \ dropped :
         changed[n] <= position /\ leaves[n] # {} /\ (phase = "listing" => n <= cursor) => Whole(n)

\* The incremental reading has every note that changed up to where it stands.
Followed ==
  command = "pass" /\ phase \in {"following", "fetching"} => \A n \in NoteIds :
    checkpoint < changed[n] /\ changed[n] <= (IF phase = "following" THEN cursor ELSE position) =>
      Whole(n) /\ (leaves[n] = {} => \E o \in items \union found : o.id = n /\ o.body = Gone)

\* Whatever was decoded once can be decoded for good.
Decodable ==
  /\ \A n \in NoteIds, b \in Bodies : files[n] = Pulled(b) => Decodes(b)
  /\ \A o \in found : o.body \in Bodies => Decodes(o.body)
  /\ \A a \in plan : a.kind = "create" => Decodes(a.row.body)

\* The plan has one action per path.  One that is being applied says what the
\* remote says, as far as that has not changed since the snapshot, and every
\* note without an action is reflected already.
Planned ==
  /\ \A a, b \in plan : a.path = b.path => a = b
  /\ outcome = "none" => \A a \in plan : changed[a.path] <= position =>
       IF a.kind = "create" THEN LiveLeaves(a.path) = {a.row} ELSE LiveLeaves(a.path) = {}
  /\ outcome = "none" /\ phase \in AtVault => \A n \in NoteIds \ dropped :
       leaves[n] # {} /\ changed[n] <= position => Reflected(n) \/ \E a \in plan : a.path = n

\* Where an action is half done, and what the preflight let through.
InHand ==
  /\ phase = "installed" => \A a \in plan, b \in Bodies :
       (\A c \in plan : a.path <= c.path) /\ files[a.path] = Pulled(b) => b = a.row.body
  /\ phase = "unlinked" => \A a \in plan, b \in Bodies :
       (\A c \in plan : a.path <= c.path) => files[a.path] # Pulled(b)
  /\ phase \in AtVault \ {"inspecting"} =>
       \A a \in plan : inspected[a.path] # NoFile => rows[a.path] # NoRow

PullInv ==
  /\ PullTypeOK /\ Phases /\ Inventoried /\ Followed /\ Decodable /\ Planned /\ InHand
  /\ PullCheckpointCovers

-----------------------------------------------------------------------------
(* The types *)

\* Ids are positive numbers, those of notes and chunks apart.
LEMMA IdFacts ==
  /\ \A i \in Ids : i \in Nat /\ i > 0
  /\ NoteIds \subseteq Ids /\ ChunkIds \subseteq Ids
  /\ \A i \in NoteIds : i \notin ChunkIds
BY IdsAssumption DEF Ids

\* A leaf makes an item, and the item tells its leaf.
LEMMA ItemOfType ==
 ASSUME NEW n \in NoteIds, NEW l \in Leaf
 PROVE  /\ ItemOf(n, l) \in Item
        /\ ItemOf(n, l).id = n /\ ItemOf(n, l).rev = l.rev /\ ItemOf(n, l).body = l.body
        /\ l = [rev |-> l.rev, body |-> l.body]
BY DEF ItemOf, Item, Leaf

\* What a page collects: all the leaves of its notes, word that a note has none,
\* and nothing else.
LEMMA Collected ==
 ASSUME NEW page, Collect(page)
 PROVE  /\ items \subseteq items'
        /\ \A n \in page \intersect NoteIds : \A l \in leaves[n] : ItemOf(n, l) \in items' \union pending'
        /\ \A n \in page \intersect NoteIds :
             leaves[n] = {} => [id |-> n, rev |-> changed[n], body |-> Gone] \in items'
        /\ \A i \in (items' \ items) \union pending' : \E n \in page \intersect NoteIds :
             \/ \E l \in leaves[n] : i = ItemOf(n, l)
             \/ leaves[n] = {} /\ i = [id |-> n, rev |-> changed[n], body |-> Gone]
<1> DEFINE W == UNION {ItemsOf(n, Winners(n)) : n \in page \intersect NoteIds}
           G == {[id |-> n, rev |-> changed[n], body |-> Gone] :
                   n \in {k \in page \intersect NoteIds : leaves[k] = {}}}
           P == UNION {ItemsOf(n, leaves[n] \ Winners(n)) : n \in page \intersect NoteIds}
           notes == page \intersect NoteIds
<1>0. items' = items \union G \union W BY DEF Collect
<1>1. pending' = P BY DEF Collect
<1>2. \A i : i \in W <=> \E n \in notes : i \in ItemsOf(n, Winners(n)) OBVIOUS
<1>3. \A i : i \in G <=> \E n \in notes : leaves[n] = {} /\ i = [id |-> n, rev |-> changed[n], body |-> Gone]
  OBVIOUS
<1>4. \A i : i \in P <=> \E n \in notes : i \in ItemsOf(n, leaves[n] \ Winners(n)) OBVIOUS
<1> HIDE DEF W, G, P
<1>5. \A n \in notes : \A l \in leaves[n] : ItemOf(n, l) \in W \union P
  <2> SUFFICES ASSUME NEW n \in notes, NEW l \in leaves[n] PROVE ItemOf(n, l) \in W \union P
    OBVIOUS
  <2>1. CASE l \in Winners(n)
    <3>1. ItemOf(n, l) \in ItemsOf(n, Winners(n)) BY <2>1 DEF ItemsOf
    <3> QED BY <3>1, <1>2
  <2>2. CASE l \in leaves[n] \ Winners(n)
    <3>1. ItemOf(n, l) \in ItemsOf(n, leaves[n] \ Winners(n)) BY <2>2 DEF ItemsOf
    <3> QED BY <3>1, <1>4
  <2> QED BY <2>1, <2>2
<1>6. \A i \in W \union P : \E n \in notes : \E l \in leaves[n] : i = ItemOf(n, l)
  <2>1. \A n : \A i \in ItemsOf(n, Winners(n)) : \E l \in leaves[n] : i = ItemOf(n, l)
    BY DEF ItemsOf, Winners
  <2>2. \A n : \A i \in ItemsOf(n, leaves[n] \ Winners(n)) : \E l \in leaves[n] : i = ItemOf(n, l)
    BY DEF ItemsOf
  <2>3. \A i \in W : \E n \in notes : i \in ItemsOf(n, Winners(n)) BY <1>2
  <2>4. \A i \in P : \E n \in notes : i \in ItemsOf(n, leaves[n] \ Winners(n)) BY <1>4
  <2> QED BY <2>1, <2>2, <2>3, <2>4
<1> QED BY <1>0, <1>1, <1>3, <1>5, <1>6

\* What a page collects is items.
LEMMA CollectTypes ==
 ASSUME PullTypeOK, NEW page, Collect(page)
 PROVE  items' \subseteq Item /\ pending' \subseteq Item
<1>1. \A n \in NoteIds : leaves[n] \subseteq Leaf /\ changed[n] \in Nat
  BY IdFacts DEF PullTypeOK
<1>2. \A n \in NoteIds : \A l \in leaves[n] : ItemOf(n, l) \in Item BY <1>1, ItemOfType
<1>3. \A n \in NoteIds : [id |-> n, rev |-> changed[n], body |-> Gone] \in Item BY <1>1 DEF Item
<1>4. \A i \in (items' \ items) \union pending' : i \in Item BY <1>2, <1>3, Collected
<1>5. items \subseteq Item BY DEF PullTypeOK
<1> QED BY <1>4, <1>5

\* What is listed from an id on are ids.
LEMMA ListedIds == ListedFrom(cursor) \subseteq Ids
BY IdFacts DEF ListedFrom, Stored

\* A change of a document makes a new revision number, and no other changes.
LEMMA ChangesMove ==
 ASSUME PullTypeOK, NEW id \in Ids, Changes(id)
 PROVE  /\ seq' \in Nat /\ seq' = seq + 1 /\ changed' \in [Ids -> 0..seq'] /\ changed'[id] = seq'
        /\ \A i \in Ids \ {id} : changed'[i] = changed[i]
BY DEF Changes, PullTypeOK

\* What other clients do to the remote: one note changes, or one chunk arrives.
LEMMA EnvironmentMoves ==
 ASSUME PullTypeOK, Environment
 PROVE  /\ leaves' \in [NoteIds -> SUBSET Leaf] /\ changed' \in [Ids -> 0..seq'] /\ seq' \in Nat
        /\ events' \in 0..MaxEvents /\ seq <= seq'
        /\ \A n \in NoteIds : changed'[n] <= seq => leaves'[n] = leaves[n] /\ changed'[n] = changed[n]
        /\ \A i \in Ids : changed[i] <= changed'[i]
<1>0. Happens => events' \in 0..MaxEvents BY IdsAssumption DEF PullTypeOK, Happens
<1>1. ASSUME NEW n \in NoteIds, NEW b \in Bodies \union {Tombstone}, OtherWrites(n, b)
      PROVE  /\ leaves' \in [NoteIds -> SUBSET Leaf] /\ Changes(n) /\ Happens
             /\ \A m \in NoteIds \ {n} : leaves'[m] = leaves[m]
  <2>1. PICK old : leaves' = [leaves EXCEPT ![n] = (@ \ old) \union {[rev |-> seq + 1, body |-> b]}]
    BY <1>1 DEF OtherWrites
  <2>2. [rev |-> seq + 1, body |-> b] \in Leaf BY DEF Leaf, PullTypeOK
  <2> QED BY <1>1, <2>1, <2>2 DEF OtherWrites, PullTypeOK
<1>2. ASSUME NEW n \in NoteIds, OtherRemoves(n)
      PROVE  /\ leaves' \in [NoteIds -> SUBSET Leaf] /\ Changes(n) /\ Happens
             /\ \A m \in NoteIds \ {n} : leaves'[m] = leaves[m]
  BY <1>2 DEF OtherRemoves, PullTypeOK
<1>3. ASSUME NEW n \in NoteIds, leaves' \in [NoteIds -> SUBSET Leaf], Changes(n),
             \A m \in NoteIds \ {n} : leaves'[m] = leaves[m]
      PROVE  /\ changed' \in [Ids -> 0..seq'] /\ seq' \in Nat /\ seq <= seq'
             /\ \A m \in NoteIds : changed'[m] <= seq => leaves'[m] = leaves[m] /\ changed'[m] = changed[m]
             /\ \A i \in Ids : changed[i] <= changed'[i]
  <2>1. n \in Ids /\ seq \in Nat /\ NoteIds \subseteq Ids /\ \A i \in Ids : changed[i] \in 0..seq
    BY IdFacts DEF PullTypeOK
  <2> QED BY <1>3, <2>1, ChangesMove
<1>4. ASSUME NEW c \in ChunkIds, ChunkArrives(c)
      PROVE  /\ leaves' \in [NoteIds -> SUBSET Leaf] /\ changed' \in [Ids -> 0..seq'] /\ seq' \in Nat
             /\ seq <= seq' /\ events' \in 0..MaxEvents
             /\ \A m \in NoteIds : changed'[m] <= seq => leaves'[m] = leaves[m] /\ changed'[m] = changed[m]
             /\ \A i \in Ids : changed[i] <= changed'[i]
  <2>1. c \in Ids /\ seq \in Nat /\ NoteIds \subseteq Ids \ {c} /\ \A i \in Ids : changed[i] \in 0..seq
    BY IdFacts DEF PullTypeOK
  <2>2. leaves' = leaves /\ leaves \in [NoteIds -> SUBSET Leaf] BY <1>4 DEF ChunkArrives, PullTypeOK
  <2> QED BY <1>0, <1>4, <2>1, <2>2, ChangesMove DEF ChunkArrives
<1> QED BY <1>0, <1>1, <1>2, <1>3, <1>4 DEF Environment

\* A reading collects items and decodes them, and forgets nothing it blocked.
LEMMA ReadTypes ==
 ASSUME PullTypeOK, Read, UNCHANGED <<remoteVars, events, localVars, pullVars>>
 PROVE  PullTypeOK'
<1>0. seq \in Nat /\ \A i \in Ids : changed[i] \in 0..seq BY DEF PullTypeOK
<1>1. CASE AllDocsPage
  <2>1. PICK page : Collect(page) BY <1>1 DEF AllDocsPage
  <2>2. items' \subseteq Item /\ pending' \subseteq Item BY <2>1, CollectTypes
  <2>3. cursor' \in Nat
    BY <1>1, ListedIds, IdFacts DEF AllDocsPage, FullPages, PullTypeOK
  <2>4. phase' \in {"listing", "fetching"} /\ UNCHANGED <<found, blocked, position>> /\ dropped' \subseteq NoteIds
    BY <1>1 DEF AllDocsPage, PullTypeOK
  <2> QED BY <2>2, <2>3, <2>4 DEF PullTypeOK, remoteVars, localVars, pullVars, Reading
<1>2. CASE ChangesPage
  <2>1. PICK page : Collect(page) BY <1>2 DEF ChangesPage
  <2>2. items' \subseteq Item /\ pending' \subseteq Item BY <2>1, CollectTypes
  <2>3. cursor' \in Nat /\ position' \in 0..seq
    BY <1>0, <1>2 DEF ChangesPage, FullPages, ChangedAfter, PullTypeOK
  <2>4. phase' \in {"following", "fetching"} /\ UNCHANGED <<found, blocked, dropped>>
    BY <1>2 DEF ChangesPage
  <2> QED BY <2>2, <2>3, <2>4 DEF PullTypeOK, remoteVars, localVars, pullVars, Reading
<1>3. CASE FetchLeaf
  <2>1. items' \subseteq Item /\ pending' \subseteq Item BY <1>3 DEF FetchLeaf, PullTypeOK
  <2> QED BY <1>3, <2>1 DEF FetchLeaf, PullTypeOK, remoteVars, localVars, pullVars
<1>4. CASE DecodeItem
  <2>1. PICK i \in items : /\ items' = items \ {i}
                           /\ \/ found' = found \union {i} /\ UNCHANGED blocked
                              \/ blocked' = blocked \union {i.id} /\ UNCHANGED found
    BY <1>4 DEF DecodeItem
  <2>2. i \in Item /\ i.id \in NoteIds BY <2>1 DEF PullTypeOK, Item
  <2>3. items' \subseteq Item /\ found' \subseteq Item /\ blocked' \subseteq NoteIds
    BY <2>1, <2>2 DEF PullTypeOK
  <2> QED BY <1>4, <2>3 DEF DecodeItem, PullTypeOK, remoteVars, localVars, pullVars
<1> QED BY <1>1, <1>2, <1>3, <1>4 DEF Read

\* A file is a body and a hand, a row a revision and a body.
LEMMA PlanTypes ==
 ASSUME PullTypeOK, BuildRecoverablePullPlan
 PROVE  plan' \subseteq Action
<1>1. ASSUME NEW o \in Creates
      PROVE  [kind |-> "create", path |-> o.id, row |-> [rev |-> o.rev, body |-> o.body]] \in Action
  <2>1. o \in Item /\ o.body \notin {Tombstone, Gone} BY DEF Creates, Live, PullTypeOK
  <2> QED BY <2>1 DEF Action, Item, Row, Paths
<1>2. ASSUME NEW n \in Deletes PROVE [kind |-> "quarantine", path |-> n] \in Action
  BY DEF Deletes, LocalFiles, Action
<1> QED BY <1>1, <1>2 DEF BuildRecoverablePullPlan

\* Every step of the command keeps the types.
LEMMA TypesKept == ASSUME PullInv, [PullNext]_vars PROVE PullTypeOK'
<1> USE DEF PullInv
<1>0. seq \in Nat /\ checkpoint \in 0..seq /\ position \in 0..seq BY DEF PullTypeOK
<1>1. CASE OthersWrite
  <2>1. UNCHANGED <<phase, readVars, localVars, pullVars>> /\ Environment BY <1>1 DEF OthersWrite
  <2> QED BY <1>0, <2>1, EnvironmentMoves DEF PullTypeOK, readVars, localVars, pullVars
<1>2. ASSUME NEW p \in Paths, UserEdits(p) PROVE PullTypeOK'
  <2>1. files' \in [Paths -> File \union {NoFile}] /\ events' \in 0..MaxEvents
    BY <1>2, IdsAssumption DEF UserEdits, PullTypeOK, File, Happens
  <2> QED BY <1>2, <2>1 DEF UserEdits, PullTypeOK, remoteVars, readVars, pullVars
<1>3. CASE BeginPull
  BY <1>0, <1>3 DEF BeginPull, Snapshot, PullTypeOK, Reading, remoteVars, localVars
<1>4. CASE BeginPass
  BY <1>0, <1>4 DEF BeginPass, PullTypeOK, Reading, remoteVars, localVars
<1>5. ASSUME NEW admitted \in BOOLEAN, Negotiate(admitted) PROVE PullTypeOK'
  BY <1>5 DEF Negotiate, PullTypeOK, Reading, remoteVars, readVars, localVars
<1>6. CASE ReadRemote BY <1>6, ReadTypes DEF ReadRemote
<1>7. CASE ReportPosition
  BY <1>0, <1>7 DEF ReportPosition, ForgetReading, PullTypeOK, remoteVars, localVars
<1>8. CASE BuildRecoverablePullPlan
  BY <1>8, PlanTypes DEF BuildRecoverablePullPlan, PullTypeOK, AtVault, remoteVars, readVars, localVars
<1>9. ASSUME NEW dryRun \in BOOLEAN, PreflightVault(dryRun) PROVE PullTypeOK'
  BY <1>9 DEF PreflightVault, PullTypeOK, AtVault, remoteVars, readVars, localVars
<1>10. ASSUME NEW a \in plan, InstallAtomically(a) PROVE PullTypeOK'
  <2>1. a.path \in Paths /\ a.row.body \in Bodies
    BY <1>10 DEF InstallAtomically, Applying, PullTypeOK, Action, Row
  <2>2. files' \in [Paths -> File \union {NoFile}]
    BY <1>10, <2>1 DEF InstallAtomically, PullTypeOK, File
  <2> QED BY <1>10, <2>2 DEF InstallAtomically, PullTypeOK, AtVault, remoteVars, readVars, pullVars
<1>11. ASSUME NEW a \in plan, SaveProvenance(a) PROVE PullTypeOK'
  <2>1. a.path \in Paths /\ a.row \in Row
    BY <1>11 DEF SaveProvenance, Applying, PullTypeOK, Action
  <2> QED BY <1>11, <2>1 DEF SaveProvenance, PullTypeOK, AtVault, remoteVars, readVars
<1>12. ASSUME NEW a \in plan, QuarantineFile(a) PROVE PullTypeOK'
  <2>1. a.path \in Paths /\ files[a.path] \in File
    BY <1>12 DEF QuarantineFile, PullTypeOK, Action
  <2>2. quarantined' \subseteq Paths \X Bodies BY <1>12, <2>1 DEF QuarantineFile, PullTypeOK, File
  <2> QED BY <1>12, <2>2 DEF QuarantineFile, PullTypeOK, AtVault, remoteVars, readVars, pullVars
<1>13. ASSUME NEW a \in plan, UnlinkFile(a) PROVE PullTypeOK'
  BY <1>13 DEF UnlinkFile, PullTypeOK, AtVault, remoteVars, readVars, pullVars
<1>14. ASSUME NEW a \in plan, DeleteProvenance(a) PROVE PullTypeOK'
  BY <1>14 DEF DeleteProvenance, PullTypeOK, AtVault, remoteVars, readVars
<1>15. CASE SaveCheckpoint
  BY <1>15 DEF SaveCheckpoint, PullTypeOK, remoteVars, readVars, pullVars
<1>16. CASE AssertNoMutation
  BY <1>0, <1>16 DEF AssertNoMutation, ExitReported, ForgetReading, PullTypeOK, remoteVars, localVars
<1>17. CASE Interrupted
  BY <1>0, <1>17 DEF Interrupted, ForgetReading, PullTypeOK, remoteVars, localVars
<1>18. CASE UNCHANGED vars
  BY <1>18 DEF vars, PullTypeOK, remoteVars, readVars, localVars, pullVars
<1> QED BY <1>1, <1>2, <1>3, <1>4, <1>5, <1>6, <1>7, <1>8, <1>9, <1>10, <1>11, <1>12, <1>13, <1>14,
           <1>15, <1>16, <1>17, <1>18 DEF PullNext

-----------------------------------------------------------------------------
(* Decoding *)

\* Chunks stay: what decodes now decodes after any step.
LEMMA DecodesForGood ==
 ASSUME PullInv, [PullNext]_vars, NEW b, Decodes(b)
 PROVE  Decodes(b)'
<1>1. PullTypeOK BY DEF PullInv
<1>2. \A i \in Ids : changed[i] <= changed'[i] /\ changed[i] \in Nat /\ changed'[i] \in Nat
  <2>1. CASE OthersWrite
    <3>1. /\ \A i \in Ids : changed[i] <= changed'[i]
          /\ changed' \in [Ids -> 0..seq'] /\ seq' \in Nat
      BY <1>1, <2>1, EnvironmentMoves DEF OthersWrite
    <3>2. \A i \in Ids : changed[i] \in 0..seq /\ changed'[i] \in 0..seq' BY <1>1, <3>1 DEF PullTypeOK
    <3> QED BY <1>1, <3>1, <3>2 DEF PullTypeOK
  <2>2. CASE UNCHANGED changed
    <3>1. \A i \in Ids : changed[i] \in 0..seq /\ seq \in Nat BY <1>1 DEF PullTypeOK
    <3> QED BY <2>2, <3>1
  <2>3. OthersWrite \/ UNCHANGED changed
    BY DEF PullNext, UserEdits, BeginPull, BeginPass, Negotiate, ReadRemote, ReportPosition,
       BuildRecoverablePullPlan, PreflightVault, InstallAtomically, SaveProvenance, QuarantineFile,
       UnlinkFile, DeleteProvenance, SaveCheckpoint, AssertNoMutation, Interrupted, remoteVars, vars
  <2> QED BY <2>1, <2>2, <2>3
<1>3. Stored \subseteq Stored'
  BY <1>2, IdFacts DEF Stored
<1> QED BY <1>3 DEF Decodes, Readable, Assembles

\* The files, the observations and the plan can be decoded for good.
LEMMA DecodableKept == ASSUME PullInv, [PullNext]_vars PROVE Decodable'
<1>0. PullTypeOK /\ Decodable /\ Phases BY DEF PullInv
<1>1. ASSUME NEW n \in NoteIds, NEW b \in Bodies, files'[n] = Pulled(b) PROVE Decodes(b)'
  <2>1. CASE files'[n] = files[n] BY <1>0, <1>1, <2>1, DecodesForGood DEF Decodable
  <2>2. ASSUME NEW p \in Paths, UserEdits(p) PROVE files'[n] = files[n]
    <3>1. PICK f \in {NoFile} \union [body: Bodies, by: {"user"}] : files' = [files EXCEPT ![p] = f]
      BY <2>2 DEF UserEdits
    <3>2. f # Pulled(b) BY PolicyAssumption DEF Pulled
    <3> QED BY <1>0, <1>1, <3>1, <3>2 DEF PullTypeOK, Paths
  <2>3. ASSUME NEW a \in plan, InstallAtomically(a) PROVE files'[n] = files[n] \/ Decodes(b)
    <3>1. Decodes(a.row.body) BY <1>0, <2>3 DEF InstallAtomically, Applying, Decodable
    <3>2. files'[n] = files[n] \/ files'[n] = [body |-> a.row.body, by |-> "pull"]
      BY <1>0, <2>3 DEF InstallAtomically, PullTypeOK, Paths
    <3> QED BY <1>1, <3>1, <3>2 DEF Pulled
  <2>4. ASSUME NEW a \in plan, UnlinkFile(a) PROVE files'[n] = files[n]
    <3>1. NoFile # Pulled(b) BY PolicyAssumption DEF Pulled
    <3> QED BY <1>0, <1>1, <2>4, <3>1 DEF UnlinkFile, PullTypeOK, Paths
  <2> QED BY <2>1, <2>2, <2>3, <2>4, DecodesForGood
     DEF PullNext, OthersWrite, BeginPull, BeginPass, Negotiate, ReadRemote, ReportPosition,
       BuildRecoverablePullPlan, PreflightVault, SaveProvenance, QuarantineFile,
       DeleteProvenance, SaveCheckpoint, AssertNoMutation, Interrupted, localVars, vars
<1>2. ASSUME NEW o \in found', o.body \in Bodies PROVE Decodes(o.body)'
  <2>1. CASE o \in found BY <1>0, <1>2, <2>1, DecodesForGood DEF Decodable
  <2>2. CASE ReadRemote
    <3>1. CASE DecodeItem
      <4>1. o \in found \/ (o.body \in {Tombstone, Gone} \/ Decodes(o.body)) BY <3>1 DEF DecodeItem
      <4> QED BY <1>2, <2>1, <4>1, IdsAssumption, DecodesForGood
    <3> QED BY <2>1, <2>2, <3>1 DEF ReadRemote, Read, AllDocsPage, ChangesPage, FetchLeaf
  <2> QED BY <1>2, <2>1, <2>2
     DEF PullNext, OthersWrite, UserEdits, BeginPull, BeginPass, Negotiate, ReportPosition, ForgetReading,
       BuildRecoverablePullPlan, PreflightVault, InstallAtomically, SaveProvenance, QuarantineFile,
       UnlinkFile, DeleteProvenance, SaveCheckpoint, AssertNoMutation, Interrupted, readVars, vars
<1>3. ASSUME NEW a \in plan', a.kind = "create" PROVE Decodes(a.row.body)'
  <2>1. CASE a \in plan BY <1>0, <1>3, <2>1, DecodesForGood DEF Decodable
  <2>2. CASE BuildRecoverablePullPlan
    <3>1. PICK o \in Creates : a = [kind |-> "create", path |-> o.id, row |-> [rev |-> o.rev, body |-> o.body]]
      BY <1>3, <2>2 DEF BuildRecoverablePullPlan
    <3>2. o \in found /\ o \in Item /\ o.body \notin {Tombstone, Gone} BY <1>0 DEF Creates, Live, PullTypeOK
    <3>3. o.body \in Bodies BY <3>2 DEF Item
    <3>4. Decodes(o.body) BY <1>0, <3>2, <3>3 DEF Decodable
    <3> QED BY <3>1, <3>4, DecodesForGood
  <2> QED BY <1>3, <2>1, <2>2
     DEF PullNext, OthersWrite, UserEdits, BeginPull, BeginPass, Negotiate, ReadRemote, ReportPosition,
       PreflightVault, InstallAtomically, SaveProvenance, QuarantineFile,
       UnlinkFile, DeleteProvenance, SaveCheckpoint, AssertNoMutation, Interrupted, pullVars, vars
<1> QED BY <1>1, <1>2, <1>3 DEF Decodable

-----------------------------------------------------------------------------
(* The reading *)

\* The phases follow one another as the command runs.
LEMMA PhasesKept == ASSUME PullInv, [PullNext]_vars PROVE Phases'
<1>0. PullTypeOK /\ Phases BY DEF PullInv
<1>a. seq \in Nat /\ checkpoint \in 0..seq /\ position \in 0..seq /\ cursor \in Nat BY <1>0 DEF PullTypeOK
<1> USE DEF Seen, AtVault
<1>1. CASE OthersWrite
  <2>1. seq <= seq' /\ seq' \in Nat BY <1>0, <1>1, EnvironmentMoves DEF OthersWrite
  <2> QED BY <1>0, <1>1, <1>a, <2>1 DEF OthersWrite, Phases, readVars, localVars, pullVars
<1>2. ASSUME NEW p \in Paths, UserEdits(p) PROVE Phases'
  BY <1>0, <1>2 DEF UserEdits, Phases, remoteVars, readVars, pullVars
<1>3. CASE BeginPull
  BY <1>0, <1>3, <1>a DEF BeginPull, Snapshot, Phases, localVars
<1>4. CASE BeginPass
  BY <1>0, <1>4, <1>a DEF BeginPass, Phases, remoteVars, localVars
<1>5. ASSUME NEW admitted \in BOOLEAN, Negotiate(admitted) PROVE Phases'
  BY <1>0, <1>5 DEF Negotiate, Phases, readVars, localVars
<1>6. CASE ReadRemote
  <2>1. UNCHANGED <<command, outcome, checkpoint, plan, seq>> BY <1>6 DEF ReadRemote, localVars, pullVars, remoteVars
  <2>2. CASE AllDocsPage BY <1>0, <2>1, <2>2 DEF AllDocsPage, Phases
  <2>3. CASE ChangesPage
    <3>1. /\ phase = "following" /\ command = "pass" /\ phase' \in {"following", "fetching"}
          /\ phase' = "following" => \E last \in Ids : cursor < changed[last] /\ cursor' = changed[last]
      BY <1>0, <2>3 DEF ChangesPage, FullPages, ChangedAfter, Phases
    <3>2. \A i \in Ids : changed[i] \in 0..seq BY <1>0 DEF PullTypeOK
    <3> QED BY <1>0, <1>a, <2>1, <3>1, <3>2 DEF Phases
  <2>4. CASE FetchLeaf BY <1>0, <2>1, <2>4 DEF FetchLeaf, Phases
  <2>5. CASE DecodeItem BY <1>0, <2>1, <2>5 DEF DecodeItem, Phases
  <2> QED BY <1>6, <2>2, <2>3, <2>4, <2>5 DEF ReadRemote, Read
<1>7. CASE ReportPosition
  BY <1>0, <1>7 DEF ReportPosition, ReadingDone, ForgetReading, Phases
<1>8. CASE BuildRecoverablePullPlan
  BY <1>0, <1>8 DEF BuildRecoverablePullPlan, ReadingDone, Phases, readVars, localVars
<1>9. ASSUME NEW dryRun \in BOOLEAN, PreflightVault(dryRun) PROVE Phases'
  BY <1>0, <1>9 DEF PreflightVault, Phases, readVars, localVars
<1>10. ASSUME NEW a \in plan, \/ InstallAtomically(a) \/ SaveProvenance(a)
                              \/ QuarantineFile(a) \/ UnlinkFile(a) \/ DeleteProvenance(a)
       PROVE  Phases'
  BY <1>0, <1>10 DEF InstallAtomically, SaveProvenance, QuarantineFile, UnlinkFile, DeleteProvenance,
     Applying, Phases, readVars, pullVars
<1>11. CASE SaveCheckpoint
  BY <1>0, <1>11, <1>a DEF SaveCheckpoint, Phases, readVars, pullVars
<1>12. CASE AssertNoMutation
  BY <1>0, <1>12 DEF AssertNoMutation, ForgetReading, Phases
<1>13. CASE Interrupted BY <1>0, <1>13 DEF Interrupted, ForgetReading, Phases
<1>14. CASE UNCHANGED vars
  BY <1>0, <1>14 DEF vars, Phases, remoteVars, readVars, localVars, pullVars
<1> QED BY <1>1, <1>2, <1>3, <1>4, <1>5, <1>6, <1>7, <1>8, <1>9, <1>10, <1>11, <1>12, <1>13, <1>14
        DEF PullNext

\* A note is as whole as before when it is not touched and nothing of it gets
\* lost on the way to the observations.
LEMMA WholeStays ==
 ASSUME NEW n \in NoteIds, Whole(n), leaves'[n] = leaves[n],
        n \in blocked => n \in blocked' /\ files'[n] = files[n],
        \A l \in leaves[n] : ItemOf(n, l) \in Seen =>
          ItemOf(n, l) \in Seen' \/ (n \in blocked' /\ files'[n] # Pulled(l.body))
 PROVE  Whole(n)'
BY DEF Whole, Seen, Pulled, ItemOf

\* No step of a reading loses a leaf: one that is still a leaf is answered, and
\* one that does not decode is no body of a file that was pulled.
LEMMA ReadingLosesNothing ==
 ASSUME PullInv, ReadRemote, NEW n \in NoteIds, Whole(n)
 PROVE  Whole(n)'
<1>0. PullTypeOK /\ Decodable /\ UNCHANGED <<leaves, files>>
  BY DEF PullInv, ReadRemote, remoteVars, localVars
<1>1. \A l \in leaves[n] :
         /\ ItemOf(n, l).id = n /\ ItemOf(n, l).rev = l.rev /\ ItemOf(n, l).body = l.body
         /\ l.body \in Bodies \union {Tombstone}
  <2>1. leaves[n] \subseteq Leaf BY <1>0 DEF PullTypeOK
  <2> QED BY <2>1, ItemOfType DEF Leaf
<1>2. CASE AllDocsPage \/ ChangesPage
  <2>1. PICK page : Collect(page) BY <1>2 DEF AllDocsPage, ChangesPage
  <2>2. Seen \subseteq Seen' /\ blocked' = blocked
    BY <1>2, <2>1, Collected DEF AllDocsPage, ChangesPage, Seen
  <2> QED BY <1>0, <2>2, WholeStays
<1>3. CASE FetchLeaf
  <2>1. PICK p \in pending : /\ pending' = pending \ {p}
                             /\ items' = items \union {p} \/ ((\A l \in leaves[p.id] : l.rev # p.rev) /\ items' = items)
                             /\ UNCHANGED <<found, blocked>>
    BY <1>3 DEF FetchLeaf
  <2>2. \A l \in leaves[n] : ItemOf(n, l) \in Seen => ItemOf(n, l) \in Seen'
    BY <1>1, <2>1 DEF Seen
  <2> QED BY <1>0, <2>1, <2>2, WholeStays
<1>4. CASE DecodeItem
  <2>1. PICK i \in items : /\ items' = items \ {i} /\ pending' = pending
                           /\ \/ found' = found \union {i} /\ UNCHANGED blocked
                              \/ /\ i.body \notin {Tombstone, Gone} /\ ~Decodes(i.body)
                                 /\ blocked' = blocked \union {i.id} /\ UNCHANGED found
    BY <1>4 DEF DecodeItem
  <2>2. ASSUME NEW l \in leaves[n], ItemOf(n, l) \in Seen
        PROVE  ItemOf(n, l) \in Seen' \/ (n \in blocked' /\ files'[n] # Pulled(l.body))
    <3>1. CASE ItemOf(n, l) # i \/ found' = found \union {i} BY <2>1, <2>2, <3>1 DEF Seen
    <3>2. CASE ItemOf(n, l) = i /\ found' # found \union {i}
      <4>1. l.body \in Bodies /\ ~Decodes(l.body) /\ n \in blocked' BY <1>1, <2>1, <3>2
      <4> QED BY <1>0, <4>1 DEF Decodable
    <3> QED BY <3>1, <3>2
  <2> QED BY <1>0, <2>1, <2>2, WholeStays
<1> QED BY <1>2, <1>3, <1>4 DEF ReadRemote, Read

\* What a reading collects was seen before or is on the page.
LEMMA SeenMoves ==
 ASSUME ReadRemote, NEW i \in Seen', i \notin Seen
 PROVE  AllDocsPage \/ ChangesPage
BY DEF ReadRemote, Read, FetchLeaf, DecodeItem, Seen

\* A page of the inventory lists notes that exist, steps over at most what it
\* says, and leaves out nothing up to the new cursor.
LEMMA PageOfInventory ==
 ASSUME PullTypeOK, AllDocsPage
 PROVE  \E page : /\ Collect(page)
                  /\ \A n \in page \intersect NoteIds : leaves[n] # {}
                  /\ \A n \in NoteIds \ dropped' :
                       leaves[n] # {} /\ (phase' = "listing" => n <= cursor') => n <= cursor \/ n \in page
<1>0. cursor \in Nat /\ \A i \in Ids : i \in Nat /\ i > 0 BY IdFacts DEF PullTypeOK
<1> DEFINE listed == ListedFrom(cursor) \ SkippedFrom(cursor)
<1>1. \A n \in NoteIds : n \in ListedFrom(cursor) => leaves[n] # {}
  BY IdFacts DEF ListedFrom, Stored
<1>2. \A n \in NoteIds \ dropped' : leaves[n] # {} /\ ~(n <= cursor) => n \in listed
  <2> SUFFICES ASSUME NEW n \in NoteIds \ dropped', leaves[n] # {}, ~(n <= cursor) PROVE n \in listed
    OBVIOUS
  <2>1. n \in ListedFrom(cursor) /\ n # cursor BY <1>0, IdFacts DEF ListedFrom
  <2>2. n \notin SkippedFrom(cursor) BY <2>1 DEF AllDocsPage
  <2> QED BY <2>1, <2>2
<1>3. CASE Collect(listed) /\ phase' = "fetching" BY <1>1, <1>2, <1>3
<1>4. ASSUME NEW page \in FullPages(listed, ById), NEW last \in page,
             Collect(page), Ends(last, page, ById), cursor' = last, phase' = phase
      PROVE  \A n \in NoteIds \ dropped' :
               leaves[n] # {} /\ (phase' = "listing" => n <= cursor') => n <= cursor \/ n \in page
  <2> SUFFICES ASSUME NEW n \in NoteIds \ dropped', leaves[n] # {}, n <= last, ~(n <= cursor)
               PROVE  n \in page
    BY <1>4 DEF AllDocsPage
  <2>1. n \in listed BY <1>2
  <2>2. page \subseteq listed /\ listed \subseteq Ids BY ListedIds DEF FullPages
  <2>3. n \notin page => ById[last] < ById[n] BY <2>1 DEF FullPages
  <2>4. ById[last] = last /\ ById[n] = n BY <2>1, <2>2 DEF ById
  <2> QED BY <1>0, <2>1, <2>2, <2>3, <2>4
<1>5. \A page \in FullPages(listed, ById) : page \subseteq listed BY DEF FullPages
<1>6. CASE \E page \in FullPages(listed, ById) : \E last \in page :
             Collect(page) /\ Ends(last, page, ById) /\ cursor' = last /\ phase' = phase
  BY <1>1, <1>4, <1>5, <1>6
<1> QED BY <1>3, <1>6 DEF AllDocsPage

\* The inventory stays true of every note that does not change under it.
LEMMA InventoriedKept == ASSUME PullInv, [PullNext]_vars PROVE Inventoried'
<1>0. PullTypeOK /\ Phases /\ Inventoried /\ PullTypeOK' BY TypesKept DEF PullInv
<1>a. seq \in Nat /\ position \in 0..seq /\ cursor \in Nat BY <1>0 DEF PullTypeOK
<1>b. \A i \in Seen : i.id \in NoteIds BY <1>0 DEF Seen, PullTypeOK, Item
<1>c. \A i \in Seen' : i.id \in NoteIds BY <1>0 DEF Seen, PullTypeOK, Item
<1> SUFFICES ASSUME command' = "pull", phase' \in {"listing", "fetching"}
             PROVE  /\ \A i \in Seen' : changed'[i.id] <= position' =>
                         Whole(i.id)' /\ \E l \in leaves'[i.id] : i = ItemOf(i.id, l)
                    /\ \A n \in NoteIds \ dropped' :
                         changed'[n] <= position' /\ leaves'[n] # {} /\ (phase' = "listing" => n <= cursor')
                           => Whole(n)'
  BY DEF Inventoried, ItemOf
<1>1. CASE OthersWrite
  <2>1. /\ \A n \in NoteIds : changed'[n] <= seq => leaves'[n] = leaves[n] /\ changed'[n] = changed[n]
        /\ UNCHANGED <<command, phase, readVars, files>>
    BY <1>0, <1>1, EnvironmentMoves DEF OthersWrite, localVars, pullVars
  <2>2. \A n \in NoteIds : changed'[n] \in Nat BY <1>0, IdFacts DEF PullTypeOK
  <2>3. \A n \in NoteIds : changed'[n] <= position => leaves'[n] = leaves[n] /\ changed'[n] = changed[n]
    BY <1>a, <2>1, <2>2
  <2>4. Seen' = Seen /\ UNCHANGED <<position, dropped, cursor, blocked>> BY <2>1 DEF Seen, readVars
  <2>5. \A n \in NoteIds : Whole(n) /\ changed'[n] <= position => Whole(n)'
    BY <2>1, <2>3, <2>4, WholeStays
  <2> QED BY <1>0, <1>b, <2>1, <2>3, <2>4, <2>5 DEF Inventoried
<1>2. ASSUME NEW admitted \in BOOLEAN, Negotiate(admitted)
      PROVE  phase' = "listing" => Seen' = {} /\ cursor' = 0
  BY <1>0, <1>2 DEF Negotiate, Phases, Seen, readVars
<1>3. CASE ReadRemote
  <2>1. UNCHANGED <<leaves, changed, command, files>> /\ phase \in {"listing", "fetching"} /\ position' = position
    BY <1>0, <1>3 DEF ReadRemote, Read, AllDocsPage, ChangesPage, FetchLeaf, DecodeItem, Phases, remoteVars,
          localVars, pullVars, Reading, AtVault
  <2>2. \A n \in NoteIds : Whole(n) => Whole(n)' BY <1>3, ReadingLosesNothing
  <2>3. CASE AllDocsPage
    <3>1. PICK page : /\ Collect(page)
                      /\ \A n \in page \intersect NoteIds : leaves[n] # {}
                      /\ \A n \in NoteIds \ dropped' :
                           leaves[n] # {} /\ (phase' = "listing" => n <= cursor') => n <= cursor \/ n \in page
      BY <1>0, <2>3, PageOfInventory
    <3>2. \A n \in page \intersect NoteIds : Whole(n)'
      BY <2>1, <3>1, Collected DEF Whole, Seen, ItemOf
    <3>3. \A i \in Seen' \ Seen : \E n \in page \intersect NoteIds : \E l \in leaves[n] : i = ItemOf(n, l)
      BY <2>3, <3>1, Collected DEF AllDocsPage, Seen
    <3>4. \A i \in Seen' \ Seen : i.id \in page /\ \E l \in leaves[i.id] : i = ItemOf(i.id, l)
      BY <3>3 DEF ItemOf
    <3>5. dropped \subseteq dropped' /\ phase = "listing" BY <2>3 DEF AllDocsPage
    <3>6. \A i \in Seen' : changed'[i.id] <= position' =>
            Whole(i.id)' /\ \E l \in leaves'[i.id] : i = ItemOf(i.id, l)
      BY <1>0, <1>b, <1>c, <2>1, <2>2, <3>2, <3>4 DEF Inventoried
    <3>7. \A n \in NoteIds \ dropped' :
            changed'[n] <= position' /\ leaves'[n] # {} /\ (phase' = "listing" => n <= cursor') => Whole(n)'
      BY <1>0, <2>1, <2>2, <3>1, <3>2, <3>5 DEF Inventoried
    <3> QED BY <3>6, <3>7
  <2>4. CASE FetchLeaf \/ DecodeItem
    <3>1. Seen' \subseteq Seen /\ UNCHANGED <<phase, cursor, dropped>>
      BY <2>4 DEF FetchLeaf, DecodeItem, Seen
    <3> QED BY <1>0, <1>b, <2>1, <2>2, <3>1 DEF Inventoried
  <2> QED BY <1>0, <1>3, <2>1, <2>3, <2>4 DEF ReadRemote, Read, ChangesPage
<1>4. OthersWrite \/ (\E admitted \in BOOLEAN : Negotiate(admitted)) \/ ReadRemote \/ UNCHANGED vars
  BY DEF PullNext, UserEdits, BeginPull, BeginPass, ReportPosition, BuildRecoverablePullPlan, PreflightVault,
     InstallAtomically, SaveProvenance, QuarantineFile, UnlinkFile, DeleteProvenance, SaveCheckpoint,
     AssertNoMutation, Interrupted, Reading
<1>5. CASE \E admitted \in BOOLEAN : Negotiate(admitted)
  BY <1>2, <1>5, IdFacts DEF Negotiate
<1>6. CASE UNCHANGED vars
  <2>1. /\ UNCHANGED <<leaves, changed, command, phase, files, cursor, position, dropped, blocked>>
        /\ Seen' = Seen
    BY <1>6 DEF vars, remoteVars, readVars, localVars, pullVars, Seen
  <2>2. \A n \in NoteIds : Whole(n) => Whole(n)' BY <2>1, WholeStays
  <2> QED BY <1>0, <1>b, <2>1, <2>2 DEF Inventoried
<1> QED BY <1>1, <1>3, <1>4, <1>5, <1>6

\* A page of changes leaves out nothing up to where the reading stands then.
LEMMA PageOfChanges ==
 ASSUME PullTypeOK, ChangesPage
 PROVE  \E page : /\ Collect(page)
                  /\ \A n \in NoteIds :
                       /\ changed[n] <= (IF phase' = "following" THEN cursor' ELSE position')
                       /\ ~(changed[n] <= cursor)
                       => n \in page
<1>0. cursor \in Nat /\ NoteIds \subseteq Ids /\ \A i \in Ids : changed[i] \in Nat BY IdFacts DEF PullTypeOK
<1> DEFINE listed == ChangedAfter(cursor)
<1>1. \A n \in NoteIds : ~(changed[n] <= cursor) => n \in listed BY <1>0 DEF ChangedAfter
<1>2. CASE Collect(listed) BY <1>1, <1>2
<1>3. ASSUME NEW page \in FullPages(listed, changed), NEW last \in page, cursor' = changed[last],
             NEW n \in NoteIds, changed[n] <= cursor', ~(changed[n] <= cursor)
      PROVE  n \in page
  <2>1. n \in listed /\ page \subseteq listed /\ listed \subseteq Ids BY <1>1, <1>3 DEF FullPages, ChangedAfter
  <2>2. n \notin page => changed[last] < changed[n] BY <2>1 DEF FullPages
  <2>3. changed[last] \in Nat /\ changed[n] \in Nat BY <1>0, <2>1
  <2> QED BY <1>3, <2>2, <2>3
<1>4. CASE /\ \E page \in FullPages(listed, changed) : \E last \in page :
                Collect(page) /\ Ends(last, page, changed)
                /\ position' = changed[last] /\ cursor' = changed[last]
           /\ UNCHANGED phase
  BY <1>3, <1>4 DEF ChangesPage
<1> QED BY <1>2, <1>4 DEF ChangesPage

\* The incremental reading has all that changed up to where it stands, whatever
\* changes again while it goes on.
LEMMA FollowedKept == ASSUME PullInv, [PullNext]_vars PROVE Followed'
<1>0. PullTypeOK /\ Phases /\ Followed /\ PullTypeOK' BY TypesKept DEF PullInv
<1>a. /\ seq \in Nat /\ position \in 0..seq /\ cursor \in Nat /\ checkpoint \in 0..seq
      /\ \A n \in NoteIds : changed[n] \in 0..seq /\ changed'[n] \in Nat
  BY <1>0, IdFacts DEF PullTypeOK
<1> DEFINE Word(n) == \E o \in items \union found : o.id = n /\ o.body = Gone
           Stands == IF phase = "following" THEN cursor ELSE position
<1> SUFFICES ASSUME command' = "pass", phase' \in {"following", "fetching"}, NEW n \in NoteIds,
                    checkpoint' < changed'[n], changed'[n] <= Stands'
             PROVE  Whole(n)' /\ (leaves'[n] = {} => Word(n)')
  BY DEF Followed
<1>1. CASE OthersWrite
  <2>1. /\ changed'[n] <= seq => leaves'[n] = leaves[n] /\ changed'[n] = changed[n]
        /\ UNCHANGED <<command, phase, readVars, files, checkpoint>>
    BY <1>0, <1>1, EnvironmentMoves DEF OthersWrite, localVars, pullVars
  <2>2. Stands' = Stands /\ Stands <= seq /\ Stands \in Nat BY <1>0, <1>a, <2>1 DEF readVars, Phases
  <2>3. leaves'[n] = leaves[n] /\ changed'[n] = changed[n] BY <1>a, <2>1, <2>2
  <2>4. Whole(n) /\ (leaves[n] = {} => Word(n)) BY <1>0, <2>1, <2>2, <2>3 DEF Followed
  <2>5. Seen' = Seen /\ UNCHANGED <<items, found, blocked>> BY <2>1 DEF Seen, readVars
  <2> QED BY <2>1, <2>3, <2>4, <2>5, WholeStays
<1>2. CASE BeginPass
  <2>1. Stands' = checkpoint /\ checkpoint' = checkpoint BY <1>2 DEF BeginPass, localVars
  <2> QED BY <1>a, <2>1
<1>3. CASE ReadRemote
  <2>1. UNCHANGED <<leaves, changed, command, files, checkpoint>>
    BY <1>3 DEF ReadRemote, remoteVars, localVars, pullVars
  <2>2. Whole(n) => Whole(n)' BY <1>3, ReadingLosesNothing
  <2>3. CASE ChangesPage
    <3>1. PICK page : /\ Collect(page)
                      /\ changed[n] <= Stands' /\ ~(changed[n] <= cursor) => n \in page
      BY <1>0, <2>3, PageOfChanges
    <3>2. phase = "following" /\ found' = found BY <2>3 DEF ChangesPage
    <3>3. CASE n \in page
      <4>1. Whole(n)' BY <2>1, <3>1, <3>3, Collected DEF Whole, Seen, ItemOf
      <4>2. leaves[n] = {} => [id |-> n, rev |-> changed[n], body |-> Gone] \in items'
        BY <3>1, <3>3, Collected
      <4> QED BY <2>1, <4>1, <4>2
    <3>4. CASE changed[n] <= cursor
      <4>1. Whole(n) /\ (leaves[n] = {} => Word(n)) BY <1>0, <2>1, <3>2, <3>4 DEF Followed
      <4>2. items \subseteq items' BY <3>1, Collected
      <4> QED BY <2>1, <2>2, <3>2, <4>1, <4>2
    <3> QED BY <2>1, <3>1, <3>3, <3>4
  <2>4. CASE FetchLeaf \/ DecodeItem
    <3>1. UNCHANGED <<phase, cursor, position>> BY <2>4 DEF FetchLeaf, DecodeItem
    <3>2. Whole(n) /\ (leaves[n] = {} => Word(n)) BY <1>0, <2>1, <3>1 DEF Followed
    <3>3. \A o \in items \union found : o.body = Gone => o \in items' \union found'
      BY <2>4 DEF FetchLeaf, DecodeItem
    <3> QED BY <2>1, <2>2, <3>2, <3>3
  <2>5. CASE AllDocsPage BY <1>0, <2>1, <2>5 DEF AllDocsPage, Phases
  <2> QED BY <1>3, <2>3, <2>4, <2>5 DEF ReadRemote, Read
<1>4. OthersWrite \/ BeginPass \/ ReadRemote \/ UNCHANGED vars
  BY <1>0 DEF PullNext, UserEdits, BeginPull, Negotiate, ReportPosition, BuildRecoverablePullPlan, PreflightVault,
     InstallAtomically, SaveProvenance, QuarantineFile, UnlinkFile, DeleteProvenance, SaveCheckpoint,
     AssertNoMutation, Interrupted, Reading
<1>5. CASE UNCHANGED vars
  <2>1. /\ UNCHANGED <<leaves, changed, command, phase, files, cursor, position, blocked, items, found>>
        /\ checkpoint' = checkpoint /\ Seen' = Seen
    BY <1>5 DEF vars, remoteVars, readVars, localVars, pullVars, Seen
  <2>2. Whole(n) /\ (leaves[n] = {} => Word(n)) BY <1>0, <2>1 DEF Followed
  <2> QED BY <2>1, <2>2, WholeStays
<1> QED BY <1>1, <1>2, <1>3, <1>4, <1>5

-----------------------------------------------------------------------------
(* The plan *)

\* When the inventory of a note that has not changed since the snapshot is done,
\* what was observed of it is what is there, but for what could not be decoded.
LEMMA ObservedIsThere ==
 ASSUME PullInv, BuildRecoverablePullPlan, NEW n \in NoteIds, changed[n] <= position
 PROVE  /\ \A o \in Observed(n) : Whole(n) /\ \E l \in leaves[n] : o = ItemOf(n, l)
        /\ n \notin dropped /\ leaves[n] # {} => Whole(n)
        /\ Whole(n) => \A l \in leaves[n] :
             ItemOf(n, l) \in Observed(n) \/ (blocked # {} /\ files[n] # Pulled(l.body))
        /\ \A o \in Observed(n) : o \in Live(n) <=> o.body # Tombstone
        /\ \A l \in leaves[n] : l.body # Gone /\ l \in Leaf
<1>0. PullTypeOK /\ Inventoried /\ command = "pull" /\ phase = "fetching" /\ Seen = found
  BY DEF PullInv, BuildRecoverablePullPlan, ReadingDone, Seen
<1>1. \A o \in Observed(n) : Whole(n) /\ \E l \in leaves[n] : o = ItemOf(n, l)
  BY <1>0 DEF Inventoried, Observed
<1>2. n \notin dropped /\ leaves[n] # {} => Whole(n) BY <1>0 DEF Inventoried
<1>3. \A l \in leaves[n] : l \in Leaf /\ ItemOf(n, l).id = n /\ ItemOf(n, l).body = l.body
  <2>1. leaves[n] \subseteq Leaf BY <1>0 DEF PullTypeOK
  <2> QED BY <2>1, ItemOfType
<1>4. \A l \in leaves[n] : l.body # Gone BY <1>3, IdsAssumption DEF Leaf
<1>5. Whole(n) => \A l \in leaves[n] :
        ItemOf(n, l) \in Observed(n) \/ (blocked # {} /\ files[n] # Pulled(l.body))
  BY <1>0, <1>3 DEF Whole, Observed
<1>6. \A o \in Observed(n) : o \in Live(n) <=> o.body # Tombstone BY <1>1, <1>3, <1>4 DEF Live
<1> QED BY <1>1, <1>2, <1>3, <1>4, <1>5, <1>6

\* A plan that nothing blocks says of such a note what the remote says.
LEMMA PlanIsTrue ==
 ASSUME PullInv, BuildRecoverablePullPlan, ~PlanBlocks, NEW n \in NoteIds, changed[n] <= position
 PROVE  /\ \A o \in Creates : o.id = n => LiveLeaves(n) = {[rev |-> o.rev, body |-> o.body]}
        /\ n \in Deletes => LiveLeaves(n) = {}
        /\ n \notin dropped /\ leaves[n] # {} =>
             Reflected(n) \/ n \in Deletes \/ \E o \in Creates : o.id = n
<1>0. PullTypeOK /\ blocked = {} BY DEF PullInv, PlanBlocks
<1>1. \A l \in leaves[n] : /\ ItemOf(n, l).rev = l.rev /\ ItemOf(n, l).body = l.body
                           /\ l = [rev |-> l.rev, body |-> l.body]
  BY ObservedIsThere, ItemOfType
<1>2. Whole(n) => \A l \in LiveLeaves(n) : ItemOf(n, l) \in Live(n)
  BY <1>0, <1>1, ObservedIsThere DEF LiveLeaves
<1>3. \A o \in Live(n) : Whole(n) /\ \E l \in LiveLeaves(n) : o = ItemOf(n, l)
  BY <1>1, ObservedIsThere DEF LiveLeaves, Live
<1>4. ASSUME NEW o \in Creates, o.id = n
      PROVE  LiveLeaves(n) = {[rev |-> o.rev, body |-> o.body]}
  <2>1. Live(n) = {o} BY <1>4 DEF Creates
  <2>2. \A l \in LiveLeaves(n) : l = [rev |-> o.rev, body |-> o.body]
    BY <1>1, <1>2, <1>3, <2>1 DEF LiveLeaves
  <2>3. LiveLeaves(n) # {} BY <1>3, <2>1
  <2> QED BY <2>2, <2>3
<1>5. ASSUME n \in Deletes PROVE LiveLeaves(n) = {}
  <2>1. Live(n) = {} /\ Whole(n) BY <1>5, ObservedIsThere DEF Deletes
  <2> QED BY <1>2, <2>1
<1>6. ASSUME n \notin dropped, leaves[n] # {}, n \notin Deletes, \A o \in Creates : o.id # n
      PROVE  Reflected(n)
  <2>1. Whole(n) BY <1>6, ObservedIsThere
  <2>2. \A l \in LiveLeaves(n) : ItemOf(n, l) \in Live(n) BY <1>2, <2>1
  <2>3. CASE Live(n) = {}
    <3>1. LiveLeaves(n) = {} BY <2>2, <2>3
    <3>2. Observed(n) # {} BY <1>0, <1>6, <2>1, ObservedIsThere
    <3>3. files[n] = NoFile BY <1>6, <2>3, <3>2 DEF Deletes, LocalFiles, Paths
    <3>4. NoFile \notin [body: Bodies, by: {"pull"}] BY PolicyAssumption
    <3> QED BY <3>1, <3>3, <3>4 DEF Reflected
  <2>4. ASSUME NEW o \in Live(n) PROVE Reflected(n)
    <3>1. Live(n) = {o}
      BY <2>4 DEF PlanBlocks
    <3>2. o.id = n /\ o \in found BY <2>4 DEF Live, Observed
    <3>3. UpToDate(o) BY <1>6, <3>1, <3>2 DEF Creates
    <3>4. PICK l \in LiveLeaves(n) : o = ItemOf(n, l) BY <1>3, <2>4
    <3>5. l = [rev |-> o.rev, body |-> o.body] /\ l.body = o.body BY <1>1, <3>4 DEF LiveLeaves
    <3>6. rows[n] = l /\ files[n].body = l.body BY <3>2, <3>3, <3>5 DEF UpToDate
    <3>7. \A k \in LiveLeaves(n) : k = l BY <1>1, <2>2, <3>1, <3>5 DEF LiveLeaves
    <3> QED BY <3>6, <3>7 DEF Reflected
  <2> QED BY <2>3, <2>4
<1> QED BY <1>4, <1>5, <1>6

\* A plan has one action per path.
LEMMA OneActionPerPath ==
 ASSUME BuildRecoverablePullPlan, NEW a \in plan', NEW b \in plan', a.path = b.path
 PROVE  a = b
<1>1. \A c \in plan' : (\E o \in Creates : c = [kind |-> "create", path |-> o.id,
                                                row |-> [rev |-> o.rev, body |-> o.body]])
                       \/ (\E n \in Deletes : c = [kind |-> "quarantine", path |-> n])
  BY DEF BuildRecoverablePullPlan
<1>2. \A o \in Creates : Live(o.id) = {o} BY DEF Creates
<1>3. \A n \in Deletes : Live(n) = {} BY DEF Deletes
<1>4. ASSUME NEW o \in Creates, NEW q \in Creates, o.id = q.id PROVE o = q BY <1>2, <1>4
<1>5. ASSUME NEW o \in Creates, NEW n \in Deletes PROVE o.id # n BY <1>2, <1>3
<1> QED BY <1>1, <1>4, <1>5

\* What the user does to a file takes no reflection away.
LEMMA EditsKeepReflected ==
 ASSUME PullTypeOK, NEW p \in Paths, UserEdits(p), NEW n \in NoteIds
 PROVE  /\ \A b \in Bodies : files'[n] = Pulled(b) => files[n] = Pulled(b)
        /\ Reflected(n) => Reflected(n)'
<1>1. PICK f \in {NoFile} \union [body: Bodies, by: {"user"}] : files' = [files EXCEPT ![p] = f]
  BY DEF UserEdits
<1>2. f \notin [body: Bodies, by: {"pull"}] BY PolicyAssumption
<1>3. \A b \in Bodies : f # Pulled(b) BY PolicyAssumption DEF Pulled
<1>4. files'[n] = files[n] \/ files'[n] = f BY <1>1 DEF PullTypeOK, Paths
<1>5. LiveLeaves(n)' = LiveLeaves(n) /\ rows' = rows BY DEF UserEdits, LiveLeaves, remoteVars
<1> QED BY <1>2, <1>3, <1>4, <1>5 DEF Reflected

\* The plan stays true while it is applied.
LEMMA PlannedKept == ASSUME PullInv, [PullNext]_vars PROVE Planned'
<1>0. PullTypeOK /\ Phases /\ Planned /\ InHand BY DEF PullInv
<1> USE DEF AtVault
<1>1. CASE plan' = {} /\ phase' \notin AtVault BY <1>1 DEF Planned
<1>2. ASSUME NEW p \in Paths, UserEdits(p) PROVE Planned'
  <2>1. UNCHANGED <<leaves, changed, plan, phase, outcome, position, dropped>>
    BY <1>2 DEF UserEdits, remoteVars, readVars, pullVars
  <2>2. \A n \in NoteIds : LiveLeaves(n)' = LiveLeaves(n) BY <2>1 DEF LiveLeaves
  <2>3. \A n \in NoteIds : Reflected(n) => Reflected(n)' BY <1>0, <1>2, EditsKeepReflected
  <2>4. \A a \in plan : a.path \in NoteIds BY <1>0 DEF PullTypeOK, Action, Paths
  <2> QED BY <1>0, <2>1, <2>2, <2>3, <2>4 DEF Planned
<1>3. CASE BuildRecoverablePullPlan
  <2>1. UNCHANGED <<leaves, changed, position, dropped, files, rows>> /\ phase' = "inspecting"
        /\ (outcome' = "none" => ~PlanBlocks)
    BY <1>3 DEF BuildRecoverablePullPlan, remoteVars, readVars, localVars
  <2>2. \A n \in NoteIds : LiveLeaves(n)' = LiveLeaves(n) /\ (Reflected(n) => Reflected(n)')
    BY <2>1 DEF LiveLeaves, Reflected
  <2>3. ASSUME NEW a \in plan', outcome' = "none", changed'[a.path] <= position'
        PROVE  IF a.kind = "create" THEN LiveLeaves(a.path)' = {a.row} ELSE LiveLeaves(a.path)' = {}
    <3>1. CASE \E o \in Creates : a = [kind |-> "create", path |-> o.id,
                                       row |-> [rev |-> o.rev, body |-> o.body]]
      <4>1. PICK o \in Creates : a = [kind |-> "create", path |-> o.id,
                                      row |-> [rev |-> o.rev, body |-> o.body]]
        BY <3>1
      <4>2. o.id \in NoteIds BY <1>0 DEF Creates, PullTypeOK, Item
      <4>3. LiveLeaves(o.id) = {[rev |-> o.rev, body |-> o.body]}
        BY <1>3, <2>1, <2>3, <4>1, <4>2, PlanIsTrue
      <4> QED BY <2>2, <4>1, <4>2, <4>3
    <3>2. CASE \E n \in Deletes : a = [kind |-> "quarantine", path |-> n]
      <4>1. PICK n \in Deletes : a = [kind |-> "quarantine", path |-> n] BY <3>2
      <4>2. n \in NoteIds BY DEF Deletes, LocalFiles, Paths
      <4>3. LiveLeaves(n) = {} BY <1>3, <2>1, <2>3, <4>1, <4>2, PlanIsTrue
      <4> QED BY <2>2, <4>1, <4>2, <4>3
    <3> QED BY <1>3, <3>1, <3>2 DEF BuildRecoverablePullPlan
  <2>4. ASSUME outcome' = "none", NEW n \in NoteIds \ dropped', leaves'[n] # {}, changed'[n] <= position'
        PROVE  Reflected(n)' \/ \E a \in plan' : a.path = n
    <3>1. Reflected(n) \/ n \in Deletes \/ \E o \in Creates : o.id = n
      BY <1>3, <2>1, <2>4, PlanIsTrue
    <3>2. \A o \in Creates : [kind |-> "create", path |-> o.id, row |-> [rev |-> o.rev, body |-> o.body]] \in plan'
      BY <1>3 DEF BuildRecoverablePullPlan
    <3>3. \A m \in Deletes : [kind |-> "quarantine", path |-> m] \in plan'
      BY <1>3 DEF BuildRecoverablePullPlan
    <3> QED BY <2>2, <3>1, <3>2, <3>3
  <2> QED BY <1>3, <2>3, <2>4, OneActionPerPath DEF Planned, LiveLeaves
<1>4. ASSUME NEW dryRun \in BOOLEAN, PreflightVault(dryRun) PROVE Planned'
  <2>1. /\ UNCHANGED <<leaves, changed, position, dropped, files, rows>>
        /\ \/ plan' = {} /\ phase' = "comparing"
           \/ plan' = plan /\ phase' = "applying" /\ outcome = "none"
    BY <1>4 DEF PreflightVault, remoteVars, readVars, localVars
  <2>2. \A n : LiveLeaves(n)' = LiveLeaves(n) /\ (Reflected(n) => Reflected(n)')
    BY <2>1 DEF LiveLeaves, Reflected
  <2>3. phase = "inspecting" BY <1>4 DEF PreflightVault
  <2> QED BY <1>0, <1>1, <2>1, <2>2, <2>3 DEF Planned
<1>5. ASSUME NEW a \in plan, InstallAtomically(a) \/ QuarantineFile(a) \/ UnlinkFile(a) PROVE Planned'
  <2>1. /\ UNCHANGED <<leaves, changed, plan, outcome, position, dropped, rows>>
        /\ \A n \in NoteIds \ {a.path} : files'[n] = files[n]
        /\ phase \in AtVault
    BY <1>0, <1>5 DEF InstallAtomically, QuarantineFile, UnlinkFile, Applying, remoteVars, readVars, pullVars,
       PullTypeOK, Paths
  <2>2. \A n : LiveLeaves(n)' = LiveLeaves(n) BY <2>1 DEF LiveLeaves
  <2>3. \A n \in NoteIds \ {a.path} : Reflected(n) => Reflected(n)' BY <2>1, <2>2 DEF Reflected
  <2> QED BY <1>0, <2>1, <2>2, <2>3 DEF Planned
<1>6. ASSUME NEW a \in plan, SaveProvenance(a) \/ DeleteProvenance(a) PROVE Planned'
  <2>1. /\ UNCHANGED <<leaves, changed, outcome, position, dropped, files>> /\ plan' = plan \ {a}
        /\ \A n \in NoteIds \ {a.path} : rows'[n] = rows[n]
        /\ phase \in AtVault \ {"inspecting"} /\ outcome = "none" /\ \A b \in plan : a.path <= b.path
    BY <1>0, <1>6 DEF SaveProvenance, DeleteProvenance, Applying, remoteVars, readVars,
       PullTypeOK, Paths, Phases
  <2>2. \A n : LiveLeaves(n)' = LiveLeaves(n) BY <2>1 DEF LiveLeaves
  <2>3. \A n \in NoteIds \ {a.path} : Reflected(n) => Reflected(n)' BY <2>1, <2>2 DEF Reflected
  <2>4. a.path \in NoteIds /\ changed[a.path] <= position => Reflected(a.path)'
    <3> SUFFICES ASSUME a.path \in NoteIds, changed[a.path] <= position PROVE Reflected(a.path)'
      OBVIOUS
    <3>1. CASE SaveProvenance(a)
      <4>1. LiveLeaves(a.path) = {a.row} BY <1>0, <2>1, <3>1 DEF SaveProvenance, Applying, Planned
      <4>2. rows'[a.path] = a.row BY <1>0, <3>1 DEF SaveProvenance, PullTypeOK, Paths
      <4>3. \A b \in Bodies : files[a.path] = Pulled(b) => b = a.row.body
        BY <1>0, <2>1, <3>1 DEF SaveProvenance, Applying, InHand
      <4>4. files[a.path] \in [body: Bodies, by: {"pull"}] => files[a.path].body = a.row.body
        BY <4>3 DEF Pulled
      <4> QED BY <2>1, <2>2, <4>1, <4>2, <4>4 DEF Reflected
    <3>2. CASE DeleteProvenance(a)
      <4>1. LiveLeaves(a.path) = {} BY <1>0, <2>1, <3>2 DEF DeleteProvenance, Applying, Planned
      <4>2. \A b \in Bodies : files[a.path] # Pulled(b)
        BY <1>0, <2>1, <3>2 DEF DeleteProvenance, Applying, InHand
      <4>3. files[a.path] \notin [body: Bodies, by: {"pull"}] BY <4>2 DEF Pulled
      <4> QED BY <2>1, <2>2, <4>1, <4>3 DEF Reflected
    <3> QED BY <1>6, <3>1, <3>2
  <2> QED BY <1>0, <2>1, <2>2, <2>3, <2>4 DEF Planned
<1>7. CASE phase \notin AtVault /\ ~BuildRecoverablePullPlan
  <2>1. phase' \notin AtVault /\ plan' = {}
    BY <1>0, <1>7 DEF PullNext, OthersWrite, UserEdits, BeginPull, BeginPass, Negotiate, ReportPosition,
       PreflightVault, InstallAtomically, SaveProvenance, QuarantineFile, UnlinkFile, DeleteProvenance,
       Applying, SaveCheckpoint, AssertNoMutation, Interrupted, ReadRemote, Read, AllDocsPage, ChangesPage,
       FetchLeaf, DecodeItem, Phases, pullVars, vars
  <2> QED BY <1>1, <2>1
<1>8. CASE SaveCheckpoint \/ Interrupted
  BY <1>0, <1>1, <1>8 DEF SaveCheckpoint, Interrupted, Phases, pullVars
<1>9. CASE UNCHANGED vars
  <2>1. UNCHANGED <<leaves, changed, plan, phase, outcome, position, dropped, files, rows>>
    BY <1>9 DEF vars, remoteVars, readVars, localVars, pullVars
  <2>2. \A n : LiveLeaves(n)' = LiveLeaves(n) /\ (Reflected(n) => Reflected(n)')
    BY <2>1 DEF LiveLeaves, Reflected
  <2> QED BY <1>0, <2>1, <2>2 DEF Planned
<1>10. CASE phase \in AtVault /\ ReadRemote
  <2>1. FALSE BY <1>0, <1>10
     DEF ReadRemote, Read, AllDocsPage, ChangesPage, FetchLeaf, DecodeItem, Phases
  <2> QED BY <2>1
<1> QED BY <1>2, <1>3, <1>4, <1>5, <1>6, <1>7, <1>8, <1>9, <1>10
        DEF PullNext, OthersWrite, BeginPull, BeginPass, Negotiate, ReportPosition, ReadingDone, AssertNoMutation

\* The action in hand is half done as its phase says, and a path that was not
\* free when the preflight looked had a row, and has it until its turn comes.
LEMMA InHandKept == ASSUME PullInv, [PullNext]_vars PROVE InHand'
<1>0. PullTypeOK /\ Phases /\ Planned /\ InHand /\ Phases' BY PhasesKept DEF PullInv
<1> USE DEF AtVault
<1>1. CASE plan' = {} BY <1>1 DEF InHand
<1>2. ASSUME NEW p \in Paths, UserEdits(p) PROVE InHand'
  <2>1. UNCHANGED <<plan, phase, inspected, rows>> BY <1>2 DEF UserEdits, pullVars
  <2>2. \A n \in NoteIds, b \in Bodies : files'[n] = Pulled(b) => files[n] = Pulled(b)
    BY <1>0, <1>2, EditsKeepReflected
  <2>3. \A a \in plan : a.path \in NoteIds BY <1>0 DEF PullTypeOK, Action, Paths
  <2> QED BY <1>0, <2>1, <2>2, <2>3 DEF InHand
<1>3. ASSUME NEW dryRun \in BOOLEAN, PreflightVault(dryRun) PROVE InHand'
  <2>1. phase' \in {"applying", "comparing"} /\ (phase' = "comparing" => plan' = {})
    BY <1>3 DEF PreflightVault
  <2>2. phase' = "applying" => /\ plan' = plan /\ inspected' = files /\ rows' = rows
                               /\ \A p \in Paths : files[p] # NoFile => rows[p] # NoRow
    BY <1>3 DEF PreflightVault, InTheWay, localVars
  <2>3. \A a \in plan : a.path \in Paths BY <1>0 DEF PullTypeOK, Action
  <2> QED BY <1>1, <2>1, <2>2, <2>3 DEF InHand
<1>4. ASSUME NEW a \in plan, InstallAtomically(a) PROVE InHand'
  <2>1. /\ UNCHANGED <<plan, inspected, rows>> /\ phase' = "installed" /\ phase = "applying"
        /\ files'[a.path] = Pulled(a.row.body) /\ \A c \in plan : a.path <= c.path
    BY <1>0, <1>4 DEF InstallAtomically, Applying, pullVars, PullTypeOK, Action, Pulled
  <2>2. \A b \in plan : (\A c \in plan : b.path <= c.path) => b = a
    BY <1>0, <2>1, IdFacts DEF Planned, PullTypeOK, Action, Paths
  <2>3. \A b \in Bodies : Pulled(a.row.body) = Pulled(b) => b = a.row.body BY DEF Pulled
  <2> QED BY <1>0, <2>1, <2>2, <2>3 DEF InHand
<1>5. ASSUME NEW a \in plan, UnlinkFile(a) PROVE InHand'
  <2>1. /\ UNCHANGED <<plan, inspected, rows>> /\ phase' = "unlinked" /\ phase = "copied"
        /\ files'[a.path] = NoFile /\ \A c \in plan : a.path <= c.path
    BY <1>0, <1>5 DEF UnlinkFile, Applying, pullVars, PullTypeOK, Action
  <2>2. \A b \in plan : (\A c \in plan : b.path <= c.path) => b = a
    BY <1>0, <2>1, IdFacts DEF Planned, PullTypeOK, Action, Paths
  <2>3. \A b \in Bodies : NoFile # Pulled(b) BY PolicyAssumption DEF Pulled
  <2> QED BY <1>0, <2>1, <2>2, <2>3 DEF InHand
<1>6. ASSUME NEW a \in plan, QuarantineFile(a) PROVE InHand'
  <2>1. UNCHANGED <<plan, inspected, rows>> /\ phase' = "copied" /\ phase = "applying"
    BY <1>6 DEF QuarantineFile, Applying, pullVars
  <2> QED BY <1>0, <2>1 DEF InHand
<1>7. ASSUME NEW a \in plan, SaveProvenance(a) \/ DeleteProvenance(a) PROVE InHand'
  <2>1. /\ plan' = plan \ {a} /\ inspected' = inspected /\ phase' = "applying"
        /\ phase \in {"installed", "unlinked"} /\ \A n \in Paths \ {a.path} : rows'[n] = rows[n]
    BY <1>0, <1>7 DEF SaveProvenance, DeleteProvenance, Applying, PullTypeOK
  <2>2. \A b \in plan' : b \in plan /\ b.path \in Paths \ {a.path}
    BY <1>0, <2>1 DEF Planned, PullTypeOK, Action
  <2> QED BY <1>0, <2>1, <2>2 DEF InHand
<1>8. CASE UNCHANGED vars
  <2>1. UNCHANGED <<plan, phase, inspected, rows, files>> BY <1>8 DEF vars, localVars, pullVars
  <2> QED BY <1>0, <2>1 DEF InHand
<1>9. CASE BuildRecoverablePullPlan BY <1>9 DEF BuildRecoverablePullPlan, InHand
<1>10. CASE \/ OthersWrite \/ BeginPull \/ BeginPass \/ (\E admitted \in BOOLEAN : Negotiate(admitted))
            \/ ReadRemote \/ ReportPosition \/ SaveCheckpoint \/ AssertNoMutation \/ Interrupted
  <2>1. phase' \notin AtVault
    BY <1>0, <1>10 DEF OthersWrite, BeginPull, BeginPass, Negotiate, ReportPosition, SaveCheckpoint,
       AssertNoMutation, Interrupted, ReadRemote, Read, AllDocsPage, ChangesPage, FetchLeaf, DecodeItem, Phases
  <2> QED BY <1>0, <1>1, <2>1 DEF Phases
<1> QED BY <1>2, <1>3, <1>4, <1>5, <1>6, <1>7, <1>8, <1>9, <1>10 DEF PullNext

-----------------------------------------------------------------------------
(* The checkpoint *)

\* A step that touches neither the note nor its file or row keeps it reflected.
LEMMA CoversUntouched ==
 ASSUME PullCheckpointCovers, checkpoint' = checkpoint, unread' = unread,
        \A n \in NoteIds : changed'[n] <= checkpoint =>
          leaves'[n] = leaves[n] /\ changed'[n] = changed[n]
          /\ (leaves[n] # {} /\ Reflected(n) => Reflected(n)')
 PROVE  PullCheckpointCovers'
BY DEF PullCheckpointCovers

\* Everything behind the checkpoint stays reflected: an action of the plan says
\* of an old note what its row says already.
LEMMA CoversKept == ASSUME PullInv, [PullNext]_vars PROVE PullCheckpointCovers'
<1>0. PullTypeOK /\ Phases /\ Planned /\ InHand /\ PullCheckpointCovers /\ PullTypeOK' BY TypesKept DEF PullInv
<1>a. /\ seq \in Nat /\ position \in 0..seq /\ checkpoint \in 0..seq
      /\ \A n \in NoteIds : changed[n] \in Nat /\ changed'[n] \in Nat
  BY <1>0, IdFacts DEF PullTypeOK
<1> USE DEF AtVault
<1>1. CASE OthersWrite
  <2>1. /\ \A n \in NoteIds : changed'[n] <= seq => leaves'[n] = leaves[n] /\ changed'[n] = changed[n]
        /\ UNCHANGED <<files, rows, checkpoint, unread>>
    BY <1>0, <1>1, EnvironmentMoves DEF OthersWrite, localVars
  <2>2. \A n \in NoteIds : changed'[n] <= checkpoint => leaves'[n] = leaves[n] /\ changed'[n] = changed[n]
    BY <1>a, <2>1
  <2>3. \A n \in NoteIds : leaves'[n] = leaves[n] /\ Reflected(n) => Reflected(n)'
    BY <2>1 DEF Reflected, LiveLeaves
  <2> QED BY <1>0, <2>1, <2>2, <2>3, CoversUntouched
<1>2. ASSUME NEW p \in Paths, UserEdits(p) PROVE PullCheckpointCovers'
  <2>1. UNCHANGED <<leaves, changed, checkpoint, unread>> BY <1>2 DEF UserEdits, remoteVars
  <2>2. \A n \in NoteIds : Reflected(n) => Reflected(n)' BY <1>0, <1>2, EditsKeepReflected
  <2> QED BY <1>0, <2>1, <2>2, CoversUntouched
<1>3. ASSUME NEW a \in plan, \/ InstallAtomically(a) \/ SaveProvenance(a)
                             \/ UnlinkFile(a) \/ DeleteProvenance(a)
      PROVE  PullCheckpointCovers'
  <2>1. /\ UNCHANGED <<leaves, changed, checkpoint, unread>> /\ phase \in AtVault \ {"inspecting"}
        /\ a.path \in Paths /\ outcome = "none" /\ command = "pull" /\ checkpoint <= position
    BY <1>0, <1>3 DEF InstallAtomically, SaveProvenance, UnlinkFile, DeleteProvenance, Applying, remoteVars,
       PullTypeOK, Action, Phases
  <2>2. \A n \in NoteIds : LiveLeaves(n)' = LiveLeaves(n) BY <2>1 DEF LiveLeaves
  <2>3. \A n \in NoteIds \ {a.path} : rows'[n] = rows[n] /\ files'[n] = files[n]
    BY <1>0, <1>3 DEF InstallAtomically, SaveProvenance, UnlinkFile, DeleteProvenance, PullTypeOK, Paths
  <2>4. \A n \in NoteIds \ {a.path} : Reflected(n) => Reflected(n)' BY <2>2, <2>3 DEF Reflected
  <2>5. ASSUME changed[a.path] <= checkpoint, Reflected(a.path) PROVE Reflected(a.path)'
    <3>1. changed[a.path] <= position BY <1>a, <2>1, <2>5 DEF Paths
    <3>2. IF a.kind = "create" THEN LiveLeaves(a.path) = {a.row} ELSE LiveLeaves(a.path) = {}
      BY <1>0, <2>1, <3>1 DEF Planned
    <3>3. CASE InstallAtomically(a)
      <4>1. /\ rows' = rows /\ files'[a.path] = [body |-> a.row.body, by |-> "pull"]
            /\ LiveLeaves(a.path) = {a.row}
        BY <1>0, <2>1, <3>2, <3>3 DEF InstallAtomically, Applying, PullTypeOK
      <4> QED BY <2>1, <2>2, <2>5, <4>1 DEF Reflected, Paths
    <3>4. CASE SaveProvenance(a)
      <4>1. files' = files /\ rows'[a.path] = a.row /\ LiveLeaves(a.path) = {a.row}
        BY <1>0, <2>1, <3>2, <3>4 DEF SaveProvenance, Applying, PullTypeOK
      <4> QED BY <2>1, <2>2, <2>5, <4>1 DEF Reflected, Paths
    <3>5. CASE UnlinkFile(a)
      <4>1. files'[a.path] = NoFile /\ LiveLeaves(a.path) = {} /\ NoFile \notin [body: Bodies, by: {"pull"}]
        BY <1>0, <2>1, <3>2, <3>5, PolicyAssumption DEF UnlinkFile, Applying, PullTypeOK
      <4> QED BY <2>1, <2>2, <4>1 DEF Reflected, Paths
    <3>6. CASE DeleteProvenance(a)
      <4>1. files' = files /\ LiveLeaves(a.path) = {}
        BY <3>2, <3>6 DEF DeleteProvenance, Applying
      <4> QED BY <2>1, <2>2, <2>5, <4>1 DEF Reflected, Paths
    <3> QED BY <1>3, <3>3, <3>4, <3>5, <3>6
  <2> QED BY <1>0, <2>1, <2>4, <2>5, CoversUntouched
<1>4. CASE SaveCheckpoint
  <2>1. /\ UNCHANGED <<leaves, changed, files, rows>> /\ checkpoint' = position /\ unread' = dropped
        /\ plan = {} /\ phase = "applying" /\ outcome = "none"
    BY <1>0, <1>4 DEF SaveCheckpoint, remoteVars, Phases
  <2>2. \A n \in NoteIds \ dropped : leaves[n] # {} /\ changed[n] <= position => Reflected(n)
    BY <1>0, <2>1 DEF Planned
  <2>3. \A n \in NoteIds : Reflected(n) => Reflected(n)' BY <2>1 DEF Reflected, LiveLeaves
  <2> QED BY <2>1, <2>2, <2>3 DEF PullCheckpointCovers
<1>5. CASE UNCHANGED <<leaves, changed, files, rows, checkpoint, unread>>
  <2>1. \A n \in NoteIds : Reflected(n) => Reflected(n)' BY <1>5 DEF Reflected, LiveLeaves
  <2> QED BY <1>0, <1>5, <2>1, CoversUntouched
<1> QED BY <1>1, <1>2, <1>3, <1>4, <1>5
        DEF PullNext, BeginPull, BeginPass, Negotiate, ReadRemote, ReportPosition, BuildRecoverablePullPlan,
            PreflightVault, QuarantineFile, AssertNoMutation, Interrupted, remoteVars, localVars, vars

-----------------------------------------------------------------------------
(* The theorems *)

\* The invariant holds of a vault without state.
LEMMA PullStarts == ASSUME PullInit PROVE PullInv
<1>1. \A n \in NoteIds : [rev |-> n, body |-> FirstBody] \in Leaf
  BY IdFacts, PolicyAssumption DEF Leaf
<1>2. leaves \in [NoteIds -> SUBSET Leaf] BY <1>1 DEF PullInit
<1>3. seq \in Ids /\ \A i \in Ids : i <= seq BY DEF PullInit
<1>4. changed \in [Ids -> 0..seq] /\ seq \in Nat BY <1>3, IdFacts DEF PullInit
<1>5. PullTypeOK
  BY <1>2, <1>4, IdsAssumption DEF PullInit, PullTypeOK
<1>6. Phases /\ Inventoried /\ Followed /\ Planned /\ InHand
  BY DEF PullInit, Phases, Inventoried, Followed, Planned, InHand, Seen, AtVault
<1>7. Decodable
  BY PolicyAssumption DEF PullInit, Decodable, Pulled, Paths
<1>8. PullCheckpointCovers
  <2>1. \A n \in NoteIds : changed[n] = n /\ n \in Nat /\ n > 0 BY IdFacts DEF PullInit
  <2> QED BY <2>1 DEF PullInit, PullCheckpointCovers
<1> QED BY <1>5, <1>6, <1>7, <1>8 DEF PullInv

\* Every step keeps the invariant.
LEMMA PullSteps == ASSUME PullInv, [PullNext]_vars PROVE PullInv'
BY TypesKept, PhasesKept, InventoriedKept, FollowedKept, DecodableKept, PlannedKept, InHandKept, CoversKept
   DEF PullInv

\* The inductive invariant holds in every run of the commands.
THEOREM PullInvHolds == PullSpec => []PullInv
BY PullStarts, PullSteps, PTL DEF PullSpec

\* Nothing but the body of a live note is ever installed, and what is kept of
\* the remote, of the vault and of the command has its type.
THEOREM PullTypeCorrect == PullSpec => []PullTypeOK
<1>1. PullInv => PullTypeOK BY DEF PullInv
<1> QED BY <1>1, PullInvHolds, PTL

\* The checkpoint of a pull covers every note that has not changed since it was
\* taken, but for those that the inventory has stepped over.
THEOREM PullCheckpointIsSound == PullSpec => []PullCheckpointCovers
<1>1. PullInv => PullCheckpointCovers BY DEF PullInv
<1> QED BY <1>1, PullInvHolds, PTL

\* No pull replaces or removes bytes that stood without a row when the
\* preflight looked.
THEOREM OverwritesAreProvenHolds == PullSpec => OverwritesAreProven
<1>1. ASSUME PullInv, [PullNext]_vars, phase # phase', NEW p \in Paths, files[p] # NoFile, files'[p] # files[p]
      PROVE  rows[p] # NoRow \/ inspected[p] # files[p]
  <2>0. PullTypeOK /\ InHand BY <1>1 DEF PullInv
  <2>1. \E a \in plan : InstallAtomically(a) \/ UnlinkFile(a)
    BY <1>1 DEF PullNext, OthersWrite, UserEdits, BeginPull, BeginPass, Negotiate, ReadRemote, ReportPosition,
       BuildRecoverablePullPlan, PreflightVault, SaveProvenance, QuarantineFile, DeleteProvenance,
       SaveCheckpoint, AssertNoMutation, Interrupted, localVars, vars
  <2>2. PICK a \in plan : InstallAtomically(a) \/ UnlinkFile(a) BY <2>1
  <2>3. p = a.path /\ phase \in AtVault \ {"inspecting"}
    BY <1>1, <2>0, <2>2 DEF InstallAtomically, UnlinkFile, Applying, AtVault, PullTypeOK
  <2> QED BY <1>1, <2>0, <2>2, <2>3 DEF InHand
<1>2. PullInv /\ [PullNext]_vars =>
        [phase # phase' => \A p \in Paths : files[p] # NoFile /\ files'[p] # files[p] =>
           <<p, files[p].body>> \in quarantined \/ rows[p] # NoRow \/ inspected[p] # files[p]]_vars
  BY <1>1
<1> QED BY <1>2, PullInvHolds, PTL DEF PullSpec, OverwritesAreProven

\* A plan has actions for notes that changed, were stepped over, or whose file
\* is missing or the user's.
THEOREM RepeatsNothingHolds == PullSpec => RepeatsNothing
<1>1. ASSUME PullInv, [PullNext]_vars, plan = {}, NEW a \in plan'
      PROVE  \/ changed[a.path] > checkpoint \/ a.path \in unread
             \/ files[a.path] = NoFile \/ files[a.path].by = "user"
  <2>0. PullTypeOK /\ PullCheckpointCovers /\ Phases BY <1>1 DEF PullInv
  <2>1. BuildRecoverablePullPlan
    BY <1>1 DEF PullNext, OthersWrite, UserEdits, BeginPull, BeginPass, Negotiate, ReadRemote, ReportPosition,
       PreflightVault, InstallAtomically, SaveProvenance, QuarantineFile, UnlinkFile, DeleteProvenance,
       SaveCheckpoint, AssertNoMutation, Interrupted, pullVars, vars
  <2>2. PICK n : n = a.path OBVIOUS
  <2>3. n \in NoteIds /\ ((\E o \in Creates : o.id = n) \/ n \in Deletes)
    BY <1>1, <2>0, <2>1, <2>2
       DEF BuildRecoverablePullPlan, Creates, Deletes, LocalFiles, PullTypeOK, Item, Paths
  <2>4. SUFFICES ASSUME ~(changed[n] > checkpoint), n \notin unread, files[n] # NoFile, files[n].by # "user"
                 PROVE  FALSE
    BY <2>2
  <2>5. /\ changed[n] \in Nat /\ checkpoint \in Nat /\ position \in Nat
        /\ checkpoint <= position
    BY <2>0, <2>1, <2>3, IdFacts DEF PullTypeOK, Phases, BuildRecoverablePullPlan
  <2>6. changed[n] <= checkpoint /\ changed[n] <= position BY <2>4, <2>5
  <2>7. Observed(n) # {}
    BY <2>3 DEF Creates, Deletes, Live
  <2>8. Whole(n) /\ leaves[n] # {} BY <1>1, <2>1, <2>3, <2>6, <2>7, ObservedIsThere
  <2>9. Reflected(n) BY <2>0, <2>3, <2>4, <2>6, <2>8 DEF PullCheckpointCovers
  <2>10. files[n] \in [body: Bodies, by: {"pull"}] /\ files[n] = Pulled(files[n].body)
    BY <2>0, <2>3, <2>4 DEF PullTypeOK, File, Paths, Pulled
  <2>11. PICK l \in LiveLeaves(n) : l.body = files[n].body /\ rows[n] = l BY <2>9, <2>10 DEF Reflected
  <2>12. l \in leaves[n] /\ l.body # Tombstone /\ l \in Leaf
    BY <1>1, <2>1, <2>3, <2>6, ObservedIsThere DEF LiveLeaves
  <2>13. ItemOf(n, l) \in Live(n)
    <3>1. ItemOf(n, l) \in Observed(n)
      BY <1>1, <2>1, <2>3, <2>6, <2>8, <2>10, <2>11, <2>12, ObservedIsThere
    <3>2. ItemOf(n, l).body = l.body BY <2>3, <2>12, ItemOfType
    <3> QED BY <1>1, <2>1, <2>3, <2>6, <2>12, <3>1, <3>2, ObservedIsThere
  <2>14. PICK o \in Creates : o.id = n BY <2>3, <2>13 DEF Deletes
  <2>15. o = ItemOf(n, l) BY <2>13, <2>14 DEF Creates
  <2>16. rows[n] = [rev |-> o.rev, body |-> o.body] /\ files[n].body = o.body
    BY <2>3, <2>11, <2>12, <2>15, ItemOfType
  <2>17. UpToDate(o) BY <2>3, <2>4, <2>14, <2>16 DEF UpToDate, LocalFiles, Paths
  <2> QED BY <2>14, <2>17 DEF Creates
<1>2. PullInv /\ [PullNext]_vars =>
        [plan = {} => \A a \in plan' :
           LET n == a.path IN
           changed[n] > checkpoint \/ n \in unread \/ files[n] = NoFile \/ files[n].by = "user"]_vars
  BY <1>1
<1> QED BY <1>2, PullInvHolds, PTL DEF PullSpec, RepeatsNothing

\* A pass reports a position only when it has all that changed up to there.
THEOREM ChangesCoverPositionHolds == PullSpec => ChangesCoverPosition
<1>1. ASSUME PullInv, [PullNext]_vars, outcome # "reported", outcome' = "reported",
             NEW n \in NoteIds, checkpoint < changed[n], changed[n] <= position
      PROVE  IF leaves[n] = {} THEN \E o \in found : o.id = n /\ o.body = Gone
             ELSE ItemsOf(n, leaves[n]) \subseteq found
  <2>1. ReportPosition
    BY <1>1 DEF PullNext, OthersWrite, UserEdits, BeginPull, BeginPass, Negotiate, ReadRemote,
       BuildRecoverablePullPlan, PreflightVault, InstallAtomically, SaveProvenance, QuarantineFile, UnlinkFile,
       DeleteProvenance, SaveCheckpoint, AssertNoMutation, ExitReported, Interrupted, pullVars, vars
  <2>2. phase = "fetching" /\ command = "pass" /\ items = {} /\ pending = {} /\ blocked = {}
    BY <1>1, <2>1 DEF ReportPosition, ReadingDone
  <2>3. Whole(n) /\ (leaves[n] = {} => \E o \in items \union found : o.id = n /\ o.body = Gone)
    BY <1>1, <2>2 DEF PullInv, Followed
  <2> QED BY <2>2, <2>3 DEF Whole, Seen, ItemsOf
<1>2. PullInv /\ [PullNext]_vars =>
        [outcome # "reported" /\ outcome' = "reported" => \A n \in NoteIds :
           checkpoint < changed[n] /\ changed[n] <= position =>
             IF leaves[n] = {} THEN \E o \in found : o.id = n /\ o.body = Gone
             ELSE ItemsOf(n, leaves[n]) \subseteq found]_vars
  BY <1>1
<1> QED BY <1>2, PullInvHolds, PTL DEF PullSpec, ChangesCoverPosition
==============================================================================
