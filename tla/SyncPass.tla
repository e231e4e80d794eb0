------------------------------ MODULE SyncPass ------------------------------
(***************************************************************************)
(* A pass over all files (src/src/domain/sync-coordinator.ts with          *)
(* sync-plan.ts and rename-detector.ts): the remote inventory, the scan    *)
(* that hashes every file, a second reading for the bytes, the plan, and   *)
(* its actions one after the other.  Passes follow each other, as runs of  *)
(* the sync command do.                                                    *)
(*                                                                         *)
(* Between any two awaits the user edits and renames files, other clients  *)
(* write notes, and the pass fails or dies.  What each of its inputs shows *)
(* is the state at the time it was read, and the actions come later.       *)
(*                                                                         *)
(* A revision is its number in the history of the note; contents stand     *)
(* for themselves and for their hash.  Of the quarantine only the order of *)
(* its steps is modelled.                                                  *)
(***************************************************************************)
EXTENDS Naturals, Sequences, FiniteSets

CONSTANTS
  Paths,      \* vault paths
  Twins,      \* two of them that differ in case only: they share a document id
  Contents,   \* contents of files
  Binaries,   \* those of them that are not UTF-8 text
  Empty,      \* no bytes
  Absent,     \* no file
  Garbled,    \* a note that cannot be decoded
  NoProv,     \* no provenance row
  MaxEdits, MaxWrites, MaxFaults   \* bounds on the user, other clients and faults

ASSUME PassAssumption ==
  /\ IsFiniteSet(Paths) /\ Twins \subseteq Paths /\ Cardinality(Twins) <= 2
  /\ Binaries \subseteq Contents /\ Empty \in Contents \ Binaries
  /\ Absent \notin Contents /\ Garbled \notin Contents \cup {Absent}
  /\ MaxEdits \in Nat /\ MaxWrites \in Nat /\ MaxFaults \in Nat

VARIABLES
  local,     \* the vault
  docs,      \* the revisions of every note, oldest first
  prov,      \* the provenance rows
  pass,      \* the pass in progress
  report,    \* what the last pass reported, unless something happened since it began
  reflected, \* history: revisions brought into the vault, or written from it
  unseen,    \* history: revisions superseded by this client that never were there
  misread,   \* history: revisions written from a reading other than the hashed one
  edits, writes, faults   \* counts, also the bounds of the actions

histVars == <<reflected, unseen, misread>>
countVars == <<edits, writes, faults>>
passVars == <<local, docs, prov, pass, report, histVars, countVars>>

\* The document id is the path in lower case.
Id(p) == IF p \in Twins THEN CHOOSE t \in Twins : TRUE ELSE p
Ids == {Id(p) : p \in Paths}

Revision == [path : Paths, content : Contents \cup {Garbled}, deleted : BOOLEAN]
Provenance == [rev : Nat, content : Contents]
Current(p) == Len(docs[Id(p)])
Note(p, rev) == docs[Id(p)][rev]

Stages == {"idle", "scan", "read", "plan", "apply", "installed", "kept", "unlinked",
           "stored", "renamed", "retired"}
Kinds == {"pull", "quarantine", "push", "delete", "rename", "recase", "conflict"}

\* rev: the revision to install, or the base of the write; content: what the
\* row will say; bytes: what is written; old: the source of a rename.
Action == [kind : Kinds, path : Paths, old : Paths, rev : Nat,
           content : Contents, bytes : Contents]
Nothing == [kind |-> "none"]

\* seen: the inventory; hash, bytes: the two readings of the vault; waiting:
\* files still to be read; rev: the revision just written; ok: no error so far;
\* quiet: nobody disturbed the pass so far.
IdlePass ==
  [stage |-> "idle", seen |-> [d \in Ids |-> 0], hash |-> [p \in Paths |-> Absent],
   bytes |-> [p \in Paths |-> Empty], waiting |-> {}, todo |-> {}, doing |-> Nothing,
   rev |-> 0, ok |-> TRUE, quiet |-> TRUE]

\* Vault, notes and rows agree, as an earlier pass left them.
PassInit ==
  \E files \in [Paths -> (Contents \ {Empty}) \cup {Absent}] :
    LET present == {p \in Paths : files[p] # Absent} IN
    /\ Cardinality(present \cap Twins) <= 1
    /\ local = files
    /\ docs = [d \in Ids |-> IF \E p \in present : Id(p) = d
                             THEN LET p == CHOOSE q \in present : Id(q) = d
                                  IN <<[path |-> p, content |-> files[p], deleted |-> FALSE]>>
                             ELSE <<>>]
    /\ prov = [p \in Paths |-> IF p \in present THEN [rev |-> 1, content |-> files[p]] ELSE NoProv]
    /\ reflected = {<<Id(p), 1>> : p \in present}
    /\ unseen = {} /\ misread = {}
    /\ pass = IdlePass /\ report = "none"
    /\ edits = 0 /\ writes = 0 /\ faults = 0

-----------------------------------------------------------------------------
(* The world around the pass *)

\* Someone else changes something: what the pass reports is no longer certain.
Disturb ==
  /\ pass' = IF pass.stage = "idle" THEN pass ELSE [pass EXCEPT !.quiet = FALSE]
  /\ report' = "none"

Edit(files) ==
  /\ edits < MaxEdits
  /\ edits' = edits + 1
  /\ local' = files
  /\ Disturb
  /\ UNCHANGED <<docs, prov, histVars, writes, faults>>

UserEdits(p, c) == local[p] # c /\ Edit([local EXCEPT ![p] = c])

UserRenames(p, q) ==
  /\ local[p] # Absent /\ local[q] = Absent
  /\ Edit([local EXCEPT ![q] = local[p], ![p] = Absent])

\* Another client creates, changes, renames in case, or deletes a note.
OtherWrites(revision) ==
  /\ writes < MaxWrites
  /\ revision.deleted => revision.content = Empty
  /\ writes' = writes + 1
  /\ docs' = [docs EXCEPT ![Id(revision.path)] = Append(@, revision)]
  /\ Disturb
  /\ UNCHANGED <<local, prov, histVars, edits, faults>>

-----------------------------------------------------------------------------
(* Reading: stages 1 to 3 of sync() *)

BeginPass ==
  /\ pass.stage = "idle"
  /\ pass' = [IdlePass EXCEPT !.stage = "scan", !.waiting = Paths,
                              !.seen = [d \in Ids |-> Len(docs[d])]]
  /\ UNCHANGED <<local, docs, prov, report, histVars, countVars>>

\* scanVault() hashes one file.
ScanFile(p) ==
  /\ pass.stage = "scan" /\ p \in pass.waiting
  /\ LET scanned == [pass EXCEPT !.hash[p] = local[p], !.waiting = @ \ {p}]
         files == {q \in Paths : scanned.hash[q] # Absent}
     IN pass' = IF scanned.waiting # {} THEN scanned
                ELSE [scanned EXCEPT !.waiting = files,
                                     !.stage = IF files = {} THEN "plan" ELSE "read"]
  /\ UNCHANGED <<local, docs, prov, report, histVars, countVars>>

Read(p, b) ==
  /\ pass.stage = "read" /\ p \in pass.waiting
  /\ LET read == [pass EXCEPT !.bytes[p] = b, !.waiting = @ \ {p}]
     IN pass' = IF read.waiting = {} THEN [read EXCEPT !.stage = "plan"] ELSE read
  /\ UNCHANGED <<local, docs, prov, report, histVars, edits, writes>>

\* The bytes to push are read a second time.  A file that is gone or cannot be
\* read has no bytes in the map, which the planner takes for no bytes.
ReadFile(p) == Read(p, IF local[p] = Absent THEN Empty ELSE local[p]) /\ UNCHANGED faults
ReadFails(p) == faults < MaxFaults /\ faults' = faults + 1 /\ Read(p, Empty)

-----------------------------------------------------------------------------
(* detectRenames() *)

Deleted == {p \in Paths : prov[p] # NoProv /\ pass.hash[p] = Absent}
Created == {p \in Paths : prov[p] = NoProv /\ pass.hash[p] # Absent}
Matches(old, new) == prov[old].content = pass.hash[new]

CaseRenames == {r \in (Deleted \cap Twins) \X (Created \cap Twins) : Matches(r[1], r[2])}

\* The possible sets of renames between paths: a new file that is the only one
\* with its content is taken by one of the rows that had it.
CrossRenames ==
  LET lost  == Deleted \ {r[1] : r \in CaseRenames}
      found == Created \ {r[2] : r \in CaseRenames}
      Only(new) == \A other \in found : pass.hash[other] = pass.hash[new] => other = new
      candidates == {r \in lost \X found : Matches(r[1], r[2]) /\ Only(r[2])}
  IN {pairs \in SUBSET candidates : \A r \in candidates : \E s \in pairs : \A q \in pairs : q[2] = r[2] <=> q = s}

-----------------------------------------------------------------------------
(* buildSyncPlan() *)

\* The revision of the inventory the planner knows for a path, 0 for none.
Leaf(p) ==
  LET rev == pass.seen[Id(p)]
  IN IF rev # 0 /\ Note(p, rev).path = p /\ Note(p, rev).content # Garbled THEN rev ELSE 0

Act(kind, p, rev, content) ==
  [kind |-> kind, path |-> p, old |-> p, rev |-> rev, content |-> content,
   bytes |-> pass.bytes[p]]

\* What is planned for one path that no rename has taken.  The remaining cases
\* have none: equal contents, a file and a note without a row, a row without a
\* note or without either.
Planned(p) ==
  LET rev == Leaf(p)
      hash == pass.hash[p]
      row == prov[p]
      live == rev # 0 /\ ~Note(p, rev).deleted
  IN CASE hash # Absent /\ live /\ row # NoProv /\ hash # Note(p, rev).content ->
            {IF row.rev = rev /\ hash # row.content THEN Act("push", p, rev, hash)
             ELSE IF row.rev # rev /\ hash = row.content THEN Act("pull", p, rev, Note(p, rev).content)
             ELSE Act("conflict", p, rev, hash)}
       [] hash # Absent /\ ~live /\ row = NoProv -> {Act("push", p, 0, hash)}
       [] hash = Absent /\ live ->
            {IF row = NoProv THEN Act("pull", p, rev, Note(p, rev).content)
             ELSE IF row.rev = rev THEN Act("delete", p, rev, row.content)
             ELSE Act("conflict", p, rev, row.content)}
       [] hash # Absent /\ rev # 0 /\ ~live /\ row # NoProv ->
            {Act(IF hash = row.content THEN "quarantine" ELSE "conflict", p, rev, hash)}
       [] OTHER -> {}

\* The plan for the given renames between paths.  A path renamed to is planned
\* for once more when the remote knows it.
PlanOf(pairs) ==
  LET renames == CaseRenames \cup pairs
      rest == {p \in Paths : /\ \A r \in renames : r[1] # p
                             /\ \A r \in renames : r[2] = p => Leaf(p) # 0}
      Renaming(r) == [Act(IF r \in CaseRenames THEN "recase" ELSE "rename", r[2],
                          prov[r[1]].rev, pass.hash[r[2]]) EXCEPT !.old = r[1]]
  IN {Renaming(r) : r \in renames} \cup UNION {Planned(p) : p \in rest}

\* A conflict ends the pass before anything is applied.
Plan(pairs) ==
  /\ pass.stage = "plan"
  /\ pairs \in CrossRenames
  /\ LET plan == PlanOf(pairs) IN
     IF \E a \in plan : a.kind = "conflict"
     THEN pass' = IdlePass /\ report' = (IF pass.quiet THEN "conflict" ELSE report)
     ELSE /\ pass' = [IdlePass EXCEPT !.stage = "apply", !.todo = plan, !.quiet = pass.quiet]
          /\ UNCHANGED report
  /\ UNCHANGED <<local, docs, prov, histVars, countVars>>

-----------------------------------------------------------------------------
(* Applying: stage 5 *)

\* Case renames come first in the plan, then the other renames.
Rank(a) == CASE a.kind = "recase" -> 1 [] a.kind = "rename" -> 2 [] OTHER -> 3

Turn(a, kinds) ==
  /\ pass.stage = "apply" /\ a \in pass.todo /\ a.kind \in kinds
  /\ \A b \in pass.todo : Rank(a) <= Rank(b)

Begun(a, stage, rev) ==
  [pass EXCEPT !.stage = stage, !.todo = @ \ {a}, !.doing = a, !.rev = rev]
Finished == [pass EXCEPT !.stage = "apply", !.doing = Nothing, !.rev = 0]

\* The pass throws, or its process dies: the plan is forgotten.
Abort == pass' = IdlePass /\ report' = "none"

\* installAtomically() renames over whatever is there.
Install(a) ==
  /\ Turn(a, {"pull"})
  /\ local' = [local EXCEPT ![a.path] = a.content]
  /\ reflected' = reflected \cup {<<Id(a.path), a.rev>>}
  /\ pass' = Begun(a, "installed", a.rev)
  /\ UNCHANGED <<docs, prov, report, unseen, misread, countVars>>

\* Mutant of SaveRow: the row takes the content it finds.
SaveRowAsFound ==
  LET p == pass.doing.path IN
  /\ pass.stage = "installed"
  /\ IF local[p] = Absent THEN Abort /\ UNCHANGED prov
     ELSE /\ prov' = [prov EXCEPT ![p] = [rev |-> pass.rev, content |-> local[p]]]
          /\ pass' = Finished /\ UNCHANGED report
  /\ UNCHANGED <<local, docs, histVars, countVars>>

\* stat() throws when the file is gone again, and the pass with it.
SaveRow ==
  LET p == pass.doing.path IN
  /\ pass.stage = "installed"
  /\ IF local[p] = Absent THEN Abort /\ UNCHANGED prov
     ELSE /\ prov' = [prov EXCEPT ![p] = [rev |-> pass.rev, content |-> pass.doing.content]]
          /\ pass' = Finished /\ UNCHANGED report
  /\ UNCHANGED <<local, docs, histVars, countVars>>

\* quarantineVaultFile() copies the file, unlinks what is there by then, and
\* throws when there is none.
Quarantine(a) ==
  /\ Turn(a, {"quarantine"})
  /\ IF local[a.path] = Absent THEN Abort
     ELSE pass' = Begun(a, "kept", 0) /\ UNCHANGED report
  /\ UNCHANGED <<local, docs, prov, histVars, countVars>>

Unlink ==
  LET p == pass.doing.path IN
  /\ pass.stage = "kept"
  /\ IF local[p] = Absent THEN Abort ELSE pass' = [pass EXCEPT !.stage = "unlinked"] /\ UNCHANGED report
  /\ local' = [local EXCEPT ![p] = Absent]
  /\ UNCHANGED <<docs, prov, histVars, countVars>>

\* CouchDB accepts a revision only on top of the current one.
Extends(p, base) == base = Current(p)

\* What pushFile() may store of a content.  It decodes the bytes as text, which
\* replaces what is not; the note keeps the size of the original and cannot be
\* decoded again, unless the replacement has the same size.
Stored(c) == IF c \in Binaries THEN (Contents \ (Binaries \cup {Empty})) \cup {Garbled} ELSE {c}

\* A write accepted by CouchDB of one of the contents it should have, and what
\* the histories say of it.
Writes(revision, inVault, contents) ==
  LET id == Id(revision.path)
      new == <<id, Len(docs[id]) + 1>>
      over == <<id, Len(docs[id])>>
  IN /\ docs' = [docs EXCEPT ![id] = Append(@, revision)]
     /\ reflected' = IF inVault THEN reflected \cup {new} ELSE reflected
     /\ unseen' = IF over[2] = 0 \/ over \in reflected THEN unseen ELSE unseen \cup {over}
     /\ misread' = IF revision.content \in contents THEN misread ELSE misread \cup {new}

\* Mutant of Refused: a refused write throws.
RefusedThrows(a) ==
  /\ a \in Action /\ pass' = IdlePass
  /\ UNCHANGED <<docs, histVars>>

\* A write that is refused is an error of the pass; the action is left alone.
Refused(a) ==
  /\ pass' = [pass EXCEPT !.todo = @ \ {a}, !.ok = FALSE]
  /\ UNCHANGED <<docs, histVars>>

\* Mutant of Put: a refused write is repeated on top of what is there.
PutRebased(a) ==
  /\ Turn(a, {"push", "rename", "recase"})
  /\ \E text \in Stored(a.bytes) :
       Writes([path |-> a.path, content |-> text, deleted |-> FALSE], TRUE, Stored(a.content))
  /\ pass' = Begun(a, "stored", Current(a.path) + 1)
  /\ UNCHANGED <<local, prov, report, countVars>>

\* pushFile(): a rename between paths creates the note, the others replace the
\* revision they know.
Put(a) ==
  /\ Turn(a, {"push", "rename", "recase"})
  /\ IF Extends(a.path, IF a.kind = "rename" THEN 0 ELSE a.rev)
     THEN /\ \E text \in Stored(a.bytes) :
               Writes([path |-> a.path, content |-> text, deleted |-> FALSE], TRUE,
                      Stored(a.content))
          /\ pass' = Begun(a, "stored", Current(a.path) + 1)
     ELSE Refused(a)
  /\ UNCHANGED <<local, prov, report, countVars>>

\* Mutant of Record: the revision that the next push would create.
RecordNext ==
  LET a == pass.doing
      others == IF a.kind = "recase" THEN [prov EXCEPT ![a.old] = NoProv] ELSE prov
  IN
  /\ pass.stage = "stored"
  /\ prov' = [others EXCEPT ![a.path] = [rev |-> pass.rev + 1, content |-> a.content]]
  /\ pass' = IF a.kind = "rename" THEN [pass EXCEPT !.stage = "renamed"] ELSE Finished
  /\ UNCHANGED <<local, docs, report, histVars, countVars>>

\* The row for what was pushed says the hash of the scan.
Record ==
  LET a == pass.doing
      others == IF a.kind = "recase" THEN [prov EXCEPT ![a.old] = NoProv] ELSE prov
  IN
  /\ pass.stage = "stored"
  /\ prov' = [others EXCEPT ![a.path] = [rev |-> pass.rev, content |-> a.content]]
  /\ pass' = IF a.kind = "rename" THEN [pass EXCEPT !.stage = "renamed"] ELSE Finished
  /\ UNCHANGED <<local, docs, report, histVars, countVars>>

\* writeDeletion() for a deletion, on top of the revision of the row.
Delete(a) ==
  /\ Turn(a, {"delete"})
  /\ IF Extends(a.path, a.rev)
     THEN /\ Writes([path |-> a.path, content |-> Empty, deleted |-> TRUE], FALSE, {Empty})
          /\ pass' = Begun(a, "retired", 0)
     ELSE Refused(a)
  /\ UNCHANGED <<local, prov, report, countVars>>

\* writeDeletion() for the source of a rename.
Retire ==
  LET a == pass.doing IN
  /\ pass.stage = "renamed"
  /\ IF Extends(a.old, a.rev)
     THEN /\ Writes([path |-> a.old, content |-> Empty, deleted |-> TRUE], FALSE, {Empty})
          /\ pass' = [pass EXCEPT !.stage = "retired"]
     ELSE pass' = [Finished EXCEPT !.ok = FALSE] /\ UNCHANGED <<docs, histVars>>
  /\ UNCHANGED <<local, prov, report, countVars>>

\* deleteProvenance() after a deletion on either side.
Forget ==
  /\ pass.stage \in {"unlinked", "retired"}
  /\ prov' = [prov EXCEPT ![pass.doing.old] = NoProv]
  /\ pass' = Finished
  /\ UNCHANGED <<local, docs, report, histVars, countVars>>

\* Mutant of EndPass: errors are not looked at.
EndPassAnyway ==
  /\ pass.stage = "apply" /\ pass.todo = {}
  /\ pass' = IdlePass
  /\ report' = IF pass.quiet THEN "converged" ELSE report
  /\ UNCHANGED <<local, docs, prov, histVars, countVars>>

EndPass ==
  /\ pass.stage = "apply" /\ pass.todo = {}
  /\ pass' = IdlePass
  /\ report' = IF ~pass.quiet THEN report ELSE IF pass.ok THEN "converged" ELSE "errors"
  /\ UNCHANGED <<local, docs, prov, histVars, countVars>>

-----------------------------------------------------------------------------
(* Faults *)

\* CouchDB answers a write with an error: the action is left where it is.
PutFails(a) ==
  /\ faults < MaxFaults /\ faults' = faults + 1
  /\ Turn(a, {"push", "rename", "recase", "delete"})
  /\ Refused(a)
  /\ UNCHANGED <<local, prov, report, edits, writes>>

RetireFails ==
  /\ faults < MaxFaults /\ faults' = faults + 1
  /\ pass.stage = "renamed"
  /\ pass' = [Finished EXCEPT !.ok = FALSE]
  /\ UNCHANGED <<local, docs, prov, report, histVars, edits, writes>>

\* A request or a file operation throws, or the process dies: after a write,
\* its answer is lost.
PassThrows ==
  /\ faults < MaxFaults /\ faults' = faults + 1
  /\ pass.stage # "idle"
  /\ Abort
  /\ UNCHANGED <<local, docs, prov, histVars, edits, writes>>

-----------------------------------------------------------------------------

WorldNext ==
  \/ \E p \in Paths, c \in Contents \cup {Absent} : UserEdits(p, c)
  \/ \E p, q \in Paths : UserRenames(p, q)
  \/ \E revision \in Revision : OtherWrites(revision)

FaultNext ==
  \/ \E p \in Paths : ReadFails(p)
  \/ \E a \in pass.todo : PutFails(a)
  \/ RetireFails
  \/ PassThrows

ReadNext ==
  \/ BeginPass
  \/ \E p \in Paths : ScanFile(p)
  \/ \E p \in Paths : ReadFile(p)
  \/ \E pairs \in CrossRenames : Plan(pairs)

ApplyNext ==
  \/ \E a \in pass.todo : Install(a) \/ Quarantine(a) \/ Put(a) \/ Delete(a)
  \/ SaveRow \/ Unlink \/ Record \/ Retire \/ Forget \/ EndPass

PassNext == ReadNext \/ ApplyNext
Next == WorldNext \/ FaultNext \/ PassNext

PassSpec == PassInit /\ [][Next]_passVars

\* Passes are run again and again, and each comes to its end.
FairPassSpec == PassSpec /\ WF_passVars(PassNext)

-----------------------------------------------------------------------------
(* Properties *)

\* The actions whose second half belongs to a stage.
KindOf(stage) ==
  CASE stage = "installed" -> {"pull"}
    [] stage \in {"kept", "unlinked"} -> {"quarantine"}
    [] stage = "stored" -> {"push", "rename", "recase"}
    [] stage = "renamed" -> {"rename"}
    [] stage = "retired" -> {"delete", "rename"}

\* Vault, notes, rows and pass hold values of their types; a row names a revision
\* there is; and between the halves of an action, and only then, the action in
\* hand is of a kind that the stage is a part of.
PassTypeOK ==
  /\ local \in [Paths -> Contents \cup {Absent}]
  /\ docs \in [Ids -> Seq(Revision)]
  /\ prov \in [Paths -> Provenance \cup {NoProv}]
  /\ \A p \in Paths : prov[p] # NoProv => prov[p].rev \in 1 .. Current(p)
  /\ pass.stage \in Stages
  /\ pass.todo \subseteq Action
  /\ pass.doing \in Action \cup {Nothing}
  /\ pass.stage \in {"installed", "kept", "unlinked", "stored", "renamed", "retired"}
       <=> pass.doing # Nothing
  /\ pass.doing # Nothing => pass.doing.kind \in KindOf(pass.stage)
  /\ report \in {"none", "converged", "conflict", "errors"}

\* A row tells the truth: the revision it names is a live note with the content
\* whose hash it holds, or with what a push makes of a binary file.  The exception
\* is a file that was read differently, or not at all, between its hash and its
\* push.
RowsAreTrue ==
  \A p \in Paths :
    prov[p] # NoProv =>
      \/ /\ Note(p, prov[p].rev).content \in {prov[p].content} \cup Stored(prov[p].content)
         /\ ~Note(p, prov[p].rev).deleted
      \/ <<Id(p), prov[p].rev>> \in misread

\* A pass replaces or deletes no revision that was never in the vault, whatever
\* happened between its inventory and the write.
SupersedesReflected == unseen = {}

\* The current note of a path, if it is live there.
Remote(p) ==
  IF Current(p) # 0 /\ ~Note(p, Current(p)).deleted /\ Note(p, Current(p)).path = p
  THEN Note(p, Current(p)).content ELSE Absent

\* What the planner has no case for: a note it cannot decode; a file and a
\* different note without a row; a row whose note the inventory has not under that path.
Unplanned(p) ==
  \/ Current(p) # 0 /\ Note(p, Current(p)).content = Garbled
  \/ local[p] # Absent /\ Remote(p) # Absent /\ prov[p] = NoProv
  \/ local[p] # Absent /\ prov[p] # NoProv /\ Note(p, Current(p)).path # p

\* A pass that reports convergence, and that nothing happened to, leaves file and
\* note equal for every path, deletions and renames included.  The exceptions are
\* what the planner has no case for, which the push of a binary file makes of its
\* note; a binary file whose decoded text has the same size, which the next pass
\* takes for a conflict; and a file that was read differently, or not at all,
\* between its hash and its push.
InStep(p) ==
  \/ local[p] = Remote(p)
  \/ Unplanned(p)
  \/ local[p] \in Binaries /\ Remote(p) \in Stored(local[p])
  \/ <<Id(p), Current(p)>> \in misread
ConvergedMeansInSync == report = "converged" => \A p \in Paths : InStep(p)

\* When users and other clients rest, passes come to an end of their work: from
\* then on every pass reports the same, either that all is in step or what keeps
\* it from being so.
Settles == \E r \in {"converged", "conflict", "errors"} : <>[](report = r)
=============================================================================
