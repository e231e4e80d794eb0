---------------------------- MODULE PullCommand ----------------------------
(***************************************************************************)
(* The pull command (src/src/cli/commands/pull.ts, domain/pull-plan.ts,    *)
(* filesystem/vault-preflight.ts, livesync/zero-mutation.ts): snapshot,    *)
(* negotiation, inventory, plan, preflight, application action by action,  *)
(* checkpoint, second snapshot.  Other clients write and the user edits    *)
(* between any two awaits, every request and every write may fail, and the *)
(* process may die at any point.  The same readers also serve the          *)
(* incremental pull-only pass of sync-coordinator.ts, modelled here as far *)
(* as the position it reports.                                             *)
(*                                                                         *)
(* A note's vault path is its document: decoding has verified the one      *)
(* against the other.  Tombstone rows name the document id, which is the   *)
(* path unless paths are obfuscated.                                       *)
(***************************************************************************)
EXTENDS RemoteInventory

CONSTANTS
  FirstBody,   \* what every note holds at first
  Dedicated,   \* whether vault.dedicated is configured
  NoFile, NoRow

ASSUME PolicyAssumption ==
  /\ FirstBody \in Bodies /\ Dedicated \in BOOLEAN
  /\ NoFile \notin [body: Bodies, by: {"pull", "user"}]
  /\ NoRow \notin [rev: Nat, body: Bodies]

VARIABLES
  command,     \* "pull", or "pass": an incremental pull-only pass
  files,       \* the vault; who wrote a file last is history, unseen by the code
  rows,        \* file_provenance: revision and hash reflected
  quarantined, \* what the quarantine holds
  checkpoint,  \* last_update_seq
  plan,        \* actions still to be applied
  inspected,   \* history: the files the preflight saw
  unread,      \* history: the notes the reading behind the checkpoint stepped over
  outcome      \* how the last command ended

localVars == <<files, rows, quarantined, checkpoint, unread>>
pullVars == <<command, plan, inspected, outcome>>
vars == <<remoteVars, events, phase, readVars, localVars, pullVars>>

Paths == NoteIds
\* A snapshot holds update_seq, the number of documents, which does not change
\* unless update_seq does, and the revisions of the markers, of which the local
\* ones change without it.
Snapshot == seq
File == [body: Bodies, by: {"pull", "user"}]
Row == [rev: Nat, body: Bodies]
Action == [kind: {"create"}, path: Paths, row: Row] \union [kind: {"quarantine"}, path: Paths]

\* A database in which every note has one and the same body, written with its
\* chunks in the order of their ids, and a vault without files or state.
PullInit ==
  /\ leaves = [n \in NoteIds |-> {[rev |-> n, body |-> FirstBody]}]
  /\ changed = [i \in Ids |-> IF i \in NoteIds \union FirstBody THEN i ELSE 0]
  /\ seq \in {s \in Ids : \A i \in Ids : i <= s} /\ events = 0 /\ phase = "idle"
  /\ cursor = 0 /\ pending = {} /\ items = {} /\ found = {}
  /\ blocked = {} /\ position = 0 /\ dropped = {}
  /\ files = [p \in Paths |-> NoFile] /\ rows = [p \in Paths |-> NoRow]
  /\ quarantined = {} /\ checkpoint = 0 /\ unread = {}
  /\ command = "none" /\ plan = {} /\ inspected = files /\ outcome = "none"

(***************************************************************************)
(* The environment.  A step of it that the present phase cannot see is left *)
(* to the phase before or after, with which it commutes: an edit while the *)
(* remote is being read, and a remote change while actions are applied.    *)
(***************************************************************************)
Reading == {"probing", "listing", "following", "fetching"}
AtVault == {"inspecting", "applying", "installed", "copied", "unlinked"}

OthersWrite ==
  /\ phase \notin AtVault /\ Environment
  /\ UNCHANGED <<phase, readVars, localVars, pullVars>>

UserEdits(p) ==
  /\ phase \notin Reading /\ Happens
  /\ \E f \in {NoFile} \union [body: Bodies, by: {"user"}] :
       f # files[p] /\ files' = [files EXCEPT ![p] = f]
  /\ UNCHANGED <<remoteVars, phase, readVars, rows, quarantined, checkpoint, unread, pullVars>>

(***************************************************************************)
(* Reading.                                                                *)
(***************************************************************************)
BeginPull ==
  /\ phase = "idle" /\ phase' = "probing"
  /\ command' = "pull" /\ outcome' = "none" /\ position' = Snapshot
  /\ UNCHANGED <<remoteVars, events, cursor, pending, items, found, blocked, dropped, localVars,
                 plan, inspected>>

\* A pass is incremental when there is a checkpoint to start from.
BeginPass ==
  /\ phase = "idle" /\ checkpoint > 0 /\ phase' = "following"
  /\ command' = "pass" /\ outcome' = "none" /\ cursor' = checkpoint
  /\ UNCHANGED <<remoteVars, events, pending, items, found, blocked, position, dropped, localVars,
                 plan, inspected>>

Negotiate(admitted) ==
  /\ phase = "probing"
  /\ IF admitted THEN phase' = "listing" /\ UNCHANGED outcome
                 ELSE phase' = "comparing" /\ outcome' = "refused"
  /\ UNCHANGED <<remoteVars, events, readVars, localVars, command, plan, inspected>>

ReadRemote == Read /\ UNCHANGED <<remoteVars, events, localVars, pullVars>>

\* The position of an incremental reading is reported only if everything decoded.
ReportPosition ==
  /\ ReadingDone /\ command = "pass"
  /\ outcome' = IF blocked = {} THEN "reported" ELSE "none"
  /\ phase' = "idle" /\ command' = "none" /\ ForgetReading
  /\ UNCHANGED <<remoteVars, events, localVars, plan, inspected>>

(***************************************************************************)
(* The plan, from the observations, the rows and a scan of the vault.      *)
(***************************************************************************)
LocalFiles == {p \in Paths : files[p] # NoFile}
Observed(n) == {o \in found : o.id = n}
\* Mutant: logical deletions are not told apart.
AnyLeaf(n) == {o \in found : o.id = n}
Live(n) == {o \in Observed(n) : o.body \notin {Tombstone, Gone}}
\* Mutant: the older planner (buildPullPlan), which knows no noop.
AlwaysCreate(o) == FALSE
UpToDate(o) ==
  /\ rows[o.id] = [rev |-> o.rev, body |-> o.body]
  /\ o.id \in LocalFiles /\ files[o.id].body = o.body

Creates == {o \in found : Live(o.id) = {o} /\ ~UpToDate(o)}
Deletes == {n \in LocalFiles : Observed(n) # {} /\ Live(n) = {}}

\* One note with several live revisions, or one that is unreadable, keeps the
\* whole plan from being applied.  A path outside the vault blocks it likewise.
PlanBlocks == blocked # {} \/ \E n \in NoteIds : \E o, other \in Live(n) : o # other

BuildRecoverablePullPlan ==
  /\ ReadingDone /\ command = "pull"
  /\ plan' = {[kind |-> "create", path |-> o.id, row |-> [rev |-> o.rev, body |-> o.body]] :
                o \in Creates}
             \union {[kind |-> "quarantine", path |-> n] : n \in Deletes}
  /\ phase' = "inspecting"
  /\ outcome' = IF PlanBlocks THEN "blocked" ELSE "none"
  /\ UNCHANGED <<remoteVars, events, readVars, localVars, command, inspected>>

\* Outside a dedicated vault any file is in the way, in one only those without
\* a provenance row.
\* Mutant: a dedicated vault is taken on trust.
OnlyOutsideDedicated(p) == files[p] # NoFile /\ ~Dedicated
InTheWay(p) == files[p] # NoFile /\ (Dedicated => rows[p] = NoRow)

PreflightVault(dryRun) ==
  /\ phase = "inspecting"
  /\ inspected' = files
  /\ LET ok == outcome = "none" /\ \A p \in Paths : ~InTheWay(p) IN
       /\ outcome' = IF ok THEN "none" ELSE "blocked"
       /\ IF ok /\ ~dryRun
          THEN phase' = "applying" /\ UNCHANGED plan
          ELSE phase' = "comparing" /\ plan' = {}
  /\ UNCHANGED <<remoteVars, events, readVars, localVars, command>>

(***************************************************************************)
(* Application, in the order of the inventory.                             *)
(***************************************************************************)
Applying(a, kind, at) == phase = at /\ a.kind = kind /\ \A b \in plan : a.path <= b.path

\* The file is renamed into place over whatever is there by now.
InstallAtomically(a) ==
  /\ Applying(a, "create", "applying")
  /\ files' = [files EXCEPT ![a.path] = [body |-> a.row.body, by |-> "pull"]]
  /\ phase' = "installed"
  /\ UNCHANGED <<remoteVars, events, readVars, rows, quarantined, checkpoint, unread, pullVars>>

SaveProvenance(a) ==
  /\ Applying(a, "create", "installed")
  /\ rows' = [rows EXCEPT ![a.path] = a.row]
  /\ plan' = plan \ {a} /\ phase' = "applying"
  /\ UNCHANGED <<remoteVars, events, readVars, files, quarantined, checkpoint, unread,
                 command, inspected, outcome>>

\* A copy is written, read back and recorded before the file goes; a file that
\* is no longer there ends the command (Interrupted).
QuarantineFile(a) ==
  /\ Applying(a, "quarantine", "applying") /\ files[a.path] # NoFile
  /\ quarantined' = quarantined \union {<<a.path, files[a.path].body>>}
  /\ phase' = "copied"
  /\ UNCHANGED <<remoteVars, events, readVars, files, rows, checkpoint, unread, pullVars>>

UnlinkFile(a) ==
  /\ Applying(a, "quarantine", "copied") /\ files[a.path] # NoFile
  /\ files' = [files EXCEPT ![a.path] = NoFile]
  /\ phase' = "unlinked"
  /\ UNCHANGED <<remoteVars, events, readVars, rows, quarantined, checkpoint, unread, pullVars>>

DeleteProvenance(a) ==
  /\ Applying(a, "quarantine", "unlinked")
  /\ rows' = [rows EXCEPT ![a.path] = NoRow]
  /\ plan' = plan \ {a} /\ phase' = "applying"
  /\ UNCHANGED <<remoteVars, events, readVars, files, quarantined, checkpoint, unread,
                 command, inspected, outcome>>

\* Mutant: the position of the moment is saved.
SaveCurrentSeq ==
  /\ phase = "applying" /\ plan = {}
  /\ checkpoint' = seq /\ unread' = dropped
  /\ phase' = "comparing"
  /\ UNCHANGED <<remoteVars, events, readVars, files, rows, quarantined, pullVars>>

\* The position is the one before the inventory was read.
SaveCheckpoint ==
  /\ phase = "applying" /\ plan = {}
  /\ checkpoint' = position /\ unread' = dropped
  /\ phase' = "comparing"
  /\ UNCHANGED <<remoteVars, events, readVars, files, rows, quarantined, pullVars>>

ExitReported == IF outcome = "none" THEN "success" ELSE outcome

\* The second snapshot: any change of the database or of the local markers in
\* between, whoever made it, is reported as a mutation by this command.
AssertNoMutation ==
  /\ phase = "comparing"
  /\ \/ outcome' = "mutation"
     \/ Snapshot = position /\ outcome' = ExitReported
  /\ phase' = "idle" /\ command' = "none" /\ ForgetReading
  /\ inspected' = [p \in Paths |-> NoFile]
  /\ UNCHANGED <<remoteVars, events, localVars, plan>>

\* A request or a write fails, or the process dies: what is on disk stays.  A
\* pass whose incremental reading fails reads everything instead and reports no
\* position.
Interrupted ==
  /\ phase # "idle"
  /\ phase' = "idle" /\ command' = "none" /\ ForgetReading
  /\ plan' = {} /\ inspected' = [p \in Paths |-> NoFile] /\ outcome' = "failed"
  /\ UNCHANGED <<remoteVars, events, localVars>>

PullNext ==
  \/ OthersWrite
  \/ \E p \in Paths : UserEdits(p)
  \/ BeginPull
  \/ BeginPass
  \/ \E admitted \in BOOLEAN : Negotiate(admitted)
  \/ ReadRemote
  \/ ReportPosition
  \/ BuildRecoverablePullPlan
  \/ \E dryRun \in BOOLEAN : PreflightVault(dryRun)
  \/ \E a \in plan : InstallAtomically(a) \/ SaveProvenance(a)
  \/ \E a \in plan : QuarantineFile(a) \/ UnlinkFile(a) \/ DeleteProvenance(a)
  \/ SaveCheckpoint
  \/ AssertNoMutation
  \/ Interrupted

PullSpec == PullInit /\ [][PullNext]_vars

(***************************************************************************)
(* Properties.                                                             *)
(***************************************************************************)

\* Leaves, observations, files, rows and plan hold what their names say; in
\* particular nothing but the body of a live note is ever installed.
PullTypeOK ==
  /\ leaves \in [NoteIds -> SUBSET Leaf] /\ changed \in [Ids -> 0..seq] /\ seq \in Nat
  /\ events \in 0..MaxEvents
  /\ phase \in {"idle", "comparing"} \union Reading \union AtVault
  /\ cursor \in Nat /\ position \in 0..seq /\ dropped \subseteq NoteIds /\ blocked \subseteq NoteIds
  /\ pending \subseteq Item /\ items \subseteq Item /\ found \subseteq Item
  /\ files \in [Paths -> File \union {NoFile}] /\ rows \in [Paths -> Row \union {NoRow}]
  /\ quarantined \subseteq Paths \X Bodies
  /\ checkpoint \in 0..seq /\ unread \subseteq NoteIds
  /\ command \in {"none", "pull", "pass"} /\ plan \subseteq Action
  /\ inspected \in [Paths -> File \union {NoFile}]
  /\ outcome \in {"none", "success", "refused", "blocked", "mutation", "failed", "reported"}

\* What the checkpoint of a pull claims (pull.ts saves the position of the
\* snapshot taken before the inventory): every note as it stood at that
\* position, and has not changed since, is reflected.  Its only live revision is
\* in its row, the file is that revision unless the user has touched it, and the
\* file of a deleted note is gone.  The named exceptions are notes the server
\* has deleted for good, which a full inventory does not list, and those that
\* skip=1 stepped over because the last row of the page before was deleted.
LiveLeaves(n) == {l \in leaves[n] : l.body # Tombstone}
Reflected(n) ==
  /\ \A l \in LiveLeaves(n) : rows[n] = l
  /\ files[n] \in [body: Bodies, by: {"pull"}] => \E l \in LiveLeaves(n) : l.body = files[n].body
PullCheckpointCovers ==
  \A n \in NoteIds \ unread : leaves[n] # {} /\ changed[n] <= checkpoint => Reflected(n)

\* What the preflight is for (vault-preflight.ts: a file without a provenance
\* row "will not be overwritten"): bytes that a pull replaces or removes are in
\* the quarantine, or stood at a path with a provenance row, or were written
\* after the preflight had looked.
OverwritesAreProven ==
  [][phase # phase' => \A p \in Paths : files[p] # NoFile /\ files'[p] # files[p] =>
       <<p, files[p].body>> \in quarantined \/ rows[p] # NoRow \/ inspected[p] # files[p]]_vars

\* Pulling again does nothing again (PULL-08): an action is planned only for a
\* note that changed since the checkpoint, was stepped over before it, or whose
\* file is missing or the user's.
RepeatsNothing ==
  [][plan = {} => \A a \in plan' :
       LET n == a.path IN
       changed[n] > checkpoint \/ n \in unread \/ files[n] = NoFile \/ files[n].by = "user"]_vars

\* What an incremental pass reports as its position (inventory.ts lastSeq, kept
\* by sync-coordinator.ts only if nothing was blocked): every note whose last
\* change lies between the checkpoint and that position was observed with all
\* its present leaves, or as deleted, whatever moved in the feed between pages.
ChangesCoverPosition ==
  [][outcome # "reported" /\ outcome' = "reported" => \A n \in NoteIds :
       checkpoint < changed[n] /\ changed[n] <= position =>
         IF leaves[n] = {} THEN \E o \in found : o.id = n /\ o.body = Gone
         ELSE ItemsOf(n, leaves[n]) \subseteq found]_vars
=============================================================================
