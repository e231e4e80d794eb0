------------------------------- MODULE AutoArm -------------------------------
(***************************************************************************)
(* Who may write to the remote, and what happens before: the commands arm, *)
(* arm --revoke and sync, the start of the daemon, and the auto-arm        *)
(* workflow that replaces the vault by the remote's notes                  *)
(* (src/src/cli/commands, src/src/domain/auto-arm.ts, the grant and        *)
(* admission repositories, src/src/livesync/negotiation.ts).               *)
(*                                                                         *)
(* One daemon or sync command runs at a time, and arm beside it.  The user *)
(* changes files, other clients change notes and the remote's settings,    *)
(* and the process dies between any two awaits.  What the daemon and the   *)
(* sync command do with one file is a single step here: FileReconciler and *)
(* SyncPass have its details.                                              *)
(*                                                                         *)
(* A revision is the update sequence number of its write.  Contents stand  *)
(* for themselves and for their hash.                                      *)
(***************************************************************************)
EXTENDS Naturals, Sequences, FiniteSets

CONSTANTS
  Paths,       \* vault paths
  Contents,    \* contents of files
  NoFile,      \* no file, or a deleted note
  NoRow,       \* no provenance row
  NoBinding,   \* no admission record, no arm command in progress
  Threshold,   \* local changes from which on auto-arm starts over (10 in the code)
  Modes,       \* the commands: the daemon in "auto", "write" or "readonly", "sync", "arm"
  MaxEvents    \* bound: writes and settings of others, edits, arm commands and crashes

ASSUME ArmAssumption ==
  /\ IsFiniteSet(Paths) /\ Threshold \in Nat \ {0}
  /\ NoFile \notin Contents /\ Contents # {}
  /\ Modes \subseteq {"auto", "write", "readonly", "sync", "arm"}
  /\ MaxEvents \in Nat

VARIABLES
  remote,      \* the current revision of every note
  markers,     \* the remote's version, milestone and settings documents
  vault,       \* the user's files
  arming,      \* the binding that a running arm command has read
  rows,        \* the provenance rows
  checkpoint,  \* the saved update sequence, 0 for none
  admission,   \* the binding of the stored admission
  issued,      \* the bindings of all grants ever issued, by number
  active,      \* the number of the grant that is not revoked, 0 for none
  pc,          \* the running process: what it does next
  cap,         \* the number of the grant its capability names, 0 for none
  probed,      \* what the process read from the remote: update sequence and binding
  plan,        \* the notes that auto-arm is about to materialise
  todo,        \* files still to be removed, installed or synchronised
  fresh,       \* the file installed without its row yet, as a set
  gone,        \* history: who removed a file last, "user", "wipe" or "none"
  unasked,     \* history: who, other than the user, removed files deleted remotely
  stale,       \* history: the admission of the process differed from the remote
  events       \* how many events of the world there were

outside == <<remote, markers, vault, arming>>
state == <<rows, checkpoint>>
rights == <<admission, issued, active>>
job == <<probed, plan, todo, fresh>>
process == <<pc, cap, job>>
history == <<gone, unasked>>
armVars == <<outside, state, rights, process, history, stale, events>>

-----------------------------------------------------------------------------
(* Negotiation *)

SupportedVersion == 12

\* The markers other clients leave.  Only the first three are admitted: an open
\* database, one with other settings, and one rebuilt since.
Open == [version |-> 12, revision |-> 1, milestone |-> TRUE, locked |-> FALSE, tweak |-> "base",
         encrypt |-> FALSE, sealed |-> FALSE, verified |-> TRUE]
MarkerSets ==
  {Open, [Open EXCEPT !.tweak = "other"], [Open EXCEPT !.revision = 2],
   [Open EXCEPT !.version = 0], [Open EXCEPT !.version = 13], [Open EXCEPT !.milestone = FALSE],
   [Open EXCEPT !.locked = TRUE], [Open EXCEPT !.tweak = "unknown"],
   [Open EXCEPT !.encrypt = TRUE], [Open EXCEPT !.sealed = TRUE, !.verified = FALSE]}

\* encrypt is the one setting that must agree with the local configuration,
\* which has it off; everything else that is recognised is adopted.
Blockers(m) ==
  {code \in {"VERSION_DOC_MISSING", "UNSUPPORTED_REMOTE_VERSION", "MILESTONE_MISSING",
             "DATABASE_LOCKED", "UNKNOWN_REMOTE_SETTING", "INCOMPATIBLE_TWEAK",
             "AUTHENTICATION_ERROR"} :
     \/ code = "VERSION_DOC_MISSING" /\ m.version = 0
     \/ code = "UNSUPPORTED_REMOTE_VERSION" /\ m.version > SupportedVersion
     \/ code = "MILESTONE_MISSING" /\ ~m.milestone
     \/ code = "DATABASE_LOCKED" /\ m.milestone /\ m.locked
     \/ code = "UNKNOWN_REMOTE_SETTING" /\ m.milestone /\ m.tweak = "unknown"
     \/ code = "INCOMPATIBLE_TWEAK" /\ m.milestone /\ m.encrypt
     \/ code = "AUTHENTICATION_ERROR" /\ ~m.verified /\ (m.sealed \/ (m.milestone /\ m.encrypt))}

Admitted(m) == Blockers(m) = {}

\* What a grant is bound to: the settings' hash and the version document's revision.
Binding(m) == [settings |-> <<m.version, m.tweak>>, generation |-> m.revision]
Bindings == {Binding(m) : m \in MarkerSets}

ASSUME BindingAssumption == NoBinding \notin Bindings

-----------------------------------------------------------------------------
(* State *)

Note == [rev : Nat, content : Contents \cup {NoFile}, whole : BOOLEAN]
Row == [rev : Nat, content : Contents]
Live(n) == n.content # NoFile
UpdateSeq == CHOOSE s \in {remote[p].rev : p \in Paths} : \A p \in Paths : remote[p].rev <= s

NothingProbed == [seq |-> 0, binding |-> NoBinding]
NoRows == [p \in Paths |-> NoRow]
RowOf(n) == IF Live(n) THEN [rev |-> n.rev, content |-> n.content] ELSE NoRow

\* A daemon that has probed the remote is named after its mode until it has stored
\* its admission, a sync command "verify".
Daemons == Modes \ {"sync", "arm"}
Starting == {"idle", "auto", "write", "readonly", "verify"}
Steps == Starting \cup {"autoarm", "trigger", "plan", "wipe", "admit", "apply", "validate",
          "issue", "grant", "engine", "live", "sync"}

\* Some notes exist, and the vault is new.
Absent == [rev |-> 0, content |-> NoFile, whole |-> TRUE]
Present == [rev |-> 1, content |-> CHOOSE c \in Contents : TRUE, whole |-> TRUE]
ArmInit ==
  /\ remote \in [Paths -> {Absent, Present}] /\ \E p \in Paths : remote[p] = Present
  /\ markers = Open /\ vault = [p \in Paths |-> NoFile] /\ arming = NoBinding
  /\ rows = NoRows /\ checkpoint = 0
  /\ admission = NoBinding /\ issued = <<>> /\ active = 0
  /\ pc = "idle" /\ cap = 0
  /\ probed = NothingProbed /\ plan = NoRows /\ todo = {} /\ fresh = {}
  /\ gone = [p \in Paths |-> "none"] /\ unasked = {} /\ stale = FALSE
  /\ events = 0

\* stale says whether the admission differed from the remote since the process
\* stored it, or has gone by what it found stored.
Watch ==
  stale' = /\ pc' \notin Starting
           /\ \/ pc \notin Starting /\ stale
              \/ admission' \notin {NoBinding, Binding(markers')}

Event == events < MaxEvents /\ events' = events + 1

-----------------------------------------------------------------------------
(* The world around the commands *)

\* Another client writes or deletes a note; its chunks may arrive later.
OtherWrites(p, c, complete) ==
  /\ Event
  /\ c # remote[p].content /\ (complete \/ c # NoFile)
  /\ remote' = [remote EXCEPT ![p] = [rev |-> UpdateSeq + 1, content |-> c, whole |-> complete]]
  /\ UNCHANGED <<markers, vault, arming, state, rights, process, history>> /\ Watch

ChunksArrive(p) ==
  /\ ~remote[p].whole
  /\ remote' = [remote EXCEPT ![p].whole = TRUE]
  /\ UNCHANGED <<markers, vault, arming, state, rights, process, history, events>> /\ Watch

OtherChangesMarkers(m) ==
  /\ Event
  /\ m # markers
  /\ markers' = m
  /\ UNCHANGED <<remote, vault, arming, state, rights, process, history>> /\ Watch

UserEdits(p, c) ==
  /\ Event
  /\ c # vault[p]
  /\ vault' = [vault EXCEPT ![p] = c]
  /\ gone' = [gone EXCEPT ![p] = IF c = NoFile THEN "user" ELSE "none"]
  /\ UNCHANGED <<remote, markers, arming, state, rights, process, unasked>> /\ Watch

-----------------------------------------------------------------------------
(* Grants and admission *)

\* Mutant: the new grant is not stored.
IssueUnstored(b) == issued' = issued /\ active' = Len(issued) + 1

\* issueGrant revokes what is active and inserts the new grant.
Issue(b) ==
  /\ issued' = Append(issued, b)
  /\ active' = Len(issued) + 1

\* verifyGrantBinding: a grant that is found unrevoked with another binding is revoked.
Valid(g, b) == g = active /\ g # 0 /\ issued[g] = b
RevokeDrifted(g, b) ==
  active' = IF g = active /\ g # 0 /\ issued[g] # b THEN 0 ELSE active

ArmProbe ==
  /\ Event
  /\ "arm" \in Modes /\ arming = NoBinding /\ Admitted(markers)
  /\ arming' = Binding(markers)
  /\ UNCHANGED <<remote, markers, vault, state, rights, process, history>> /\ Watch

ArmIssue ==
  /\ arming # NoBinding
  /\ admission' = arming
  /\ Issue(arming)
  /\ arming' = NoBinding
  /\ UNCHANGED <<remote, markers, vault, state, process, history, events>> /\ Watch

ArmRevoke ==
  /\ Event
  /\ "arm" \in Modes
  /\ active' = 0
  /\ UNCHANGED <<outside, state, admission, issued, process, history>> /\ Watch

-----------------------------------------------------------------------------
(* The start of a process *)

AfterAdmission(mode) ==
  CASE mode = "auto" -> "autoarm" [] mode = "write" -> "grant" [] OTHER -> "engine"

\* The remote is probed with several requests, and may have changed when the
\* answers are used.
Negotiate(step) ==
  /\ pc = "idle" /\ Admitted(markers)
  /\ probed' = [NothingProbed EXCEPT !.binding = Binding(markers)]
  /\ pc' = step
  /\ UNCHANGED <<outside, state, rights, cap, plan, todo, fresh, history, events>> /\ Watch

StartDaemon(mode) == mode \in Daemons /\ Negotiate(mode)
StartSync == "sync" \in Modes /\ Negotiate("verify")

\* A daemon that reaches the remote stores what it negotiated; one that does
\* not goes by the stored admission.
AdmitDaemon ==
  /\ pc \in Daemons
  /\ admission' = probed.binding
  /\ probed' = NothingProbed
  /\ pc' = AfterAdmission(pc)
  /\ UNCHANGED <<outside, state, issued, active, cap, plan, todo, fresh, history, events>> /\ Watch

StartDaemonOffline(mode) ==
  /\ pc = "idle" /\ mode \in Daemons
  /\ admission # NoBinding
  /\ pc' = AfterAdmission(mode)
  /\ UNCHANGED <<outside, state, rights, cap, job, history, events>> /\ Watch

\* The process is gone, and with it what it held in memory.
End ==
  /\ pc' = "idle" /\ cap' = 0
  /\ probed' = NothingProbed /\ plan' = NoRows /\ todo' = {} /\ fresh' = {}

\* The sync command verifies the grant against what it has negotiated, and ends
\* when there is none or it does not hold.
VerifySync ==
  /\ pc = "verify"
  /\ IF Valid(active, probed.binding)
     THEN /\ admission' = probed.binding
          /\ pc' = "sync" /\ cap' = active /\ todo' = Paths
          /\ probed' = NothingProbed /\ UNCHANGED <<plan, fresh>>
     ELSE End /\ UNCHANGED admission
  /\ RevokeDrifted(active, probed.binding)
  /\ UNCHANGED <<outside, state, issued, history, events>> /\ Watch

-----------------------------------------------------------------------------
(* The auto-arm workflow *)

Files == {p \in Paths : vault[p] # NoFile}
Rowed == {p \in Paths : rows[p] # NoRow}

\* Mutant: a missing grant does not start the workflow.
TriggeredByFiles ==
  \/ Files = {} \/ Rowed = {}
  \/ Cardinality(Files \ Rowed) >= Threshold \/ Cardinality(Rowed \ Files) >= Threshold

\* The conditions under which auto-arm starts over.
Triggered ==
  LET new == Cardinality(Files \ Rowed)
      deleted == Cardinality(Rowed \ Files)
  IN \/ Files = {} \/ Rowed = {}
     \/ new >= Threshold \/ deleted >= Threshold \/ new + deleted > Threshold
     \/ active = 0

AutoArmProbe ==
  /\ pc = "autoarm" /\ Admitted(markers)
  /\ probed' = [seq |-> UpdateSeq, binding |-> Binding(markers)]
  /\ pc' = "trigger"
  /\ UNCHANGED <<outside, state, rights, cap, plan, todo, fresh, history, events>> /\ Watch

CheckTrigger ==
  /\ pc = "trigger"
  /\ IF Triggered THEN pc' = "plan" /\ UNCHANGED probed
     ELSE pc' = "grant" /\ probed' = NothingProbed
  /\ UNCHANGED <<outside, state, rights, cap, plan, todo, fresh, history, events>> /\ Watch

\* A vault that cannot be scanned counts as an empty one, and a state database
\* that cannot be read as one without rows.
CheckTriggerUnread ==
  /\ Event
  /\ pc = "trigger"
  /\ pc' = "plan"
  /\ UNCHANGED <<outside, state, rights, cap, job, history>> /\ Watch

\* Every note decodes: nothing blocks the plan.
Feasible == \A p \in Paths : Live(remote[p]) => remote[p].whole

PlanReadOnlyPull ==
  /\ pc = "plan" /\ Feasible
  /\ plan' = [p \in Paths |-> RowOf(remote[p])]
  /\ todo' = Files
  /\ pc' = "wipe"
  /\ UNCHANGED <<outside, state, rights, cap, probed, fresh, history, events>> /\ Watch

\* The vault is emptied file by file, then the database is removed.
CleanupLocalVault(p) ==
  /\ pc = "wipe" /\ p \in todo
  /\ vault' = [vault EXCEPT ![p] = NoFile]
  /\ gone' = IF vault[p] = NoFile THEN gone ELSE [gone EXCEPT ![p] = "wipe"]
  /\ todo' = todo \ {p}
  /\ UNCHANGED <<remote, markers, arming, state, rights, pc, cap, probed, plan, fresh, unasked,
                 events>> /\ Watch

CleanupLocalState ==
  /\ pc = "wipe" /\ todo = {}
  /\ rows' = NoRows /\ checkpoint' = 0 /\ admission' = NoBinding /\ active' = 0
  /\ pc' = "admit"
  /\ UNCHANGED <<outside, issued, cap, job, history, events>> /\ Watch

AdmitForPull ==
  /\ pc = "admit"
  /\ admission' = probed.binding
  /\ todo' = {p \in Paths : plan[p] # NoRow}
  /\ pc' = "apply"
  /\ UNCHANGED <<outside, state, issued, active, cap, probed, plan, fresh, history, events>>
  /\ Watch

\* Mutant: the row is written before the file is installed.
RowBeforeFile(p) ==
  /\ pc = "apply" /\ fresh = {} /\ p \in todo
  /\ rows' = [rows EXCEPT ![p] = plan[p]]
  /\ todo' = todo \ {p} /\ fresh' = {p}
  /\ UNCHANGED <<outside, checkpoint, rights, pc, cap, probed, plan, history, events>> /\ Watch

InstallPlanned(p) ==
  /\ pc = "apply" /\ fresh = {} /\ p \in todo
  /\ vault' = [vault EXCEPT ![p] = plan[p].content]
  /\ gone' = [gone EXCEPT ![p] = "none"]
  /\ todo' = todo \ {p} /\ fresh' = {p}
  /\ UNCHANGED <<remote, markers, arming, state, rights, pc, cap, probed, plan, unasked, events>>
  /\ Watch

RecordPlanned(p) ==
  /\ pc = "apply" /\ p \in fresh
  /\ vault[p] # NoFile
  /\ rows' = [rows EXCEPT ![p] = plan[p]]
  /\ fresh' = {}
  /\ UNCHANGED <<outside, checkpoint, rights, pc, cap, probed, plan, todo, history, events>>
  /\ Watch

\* Mutant: the position saved is the remote's current one.
SaveCurrentSeq ==
  /\ pc = "apply" /\ todo = {} /\ fresh = {}
  /\ checkpoint' = UpdateSeq /\ plan' = NoRows
  /\ pc' = "validate"
  /\ UNCHANGED <<outside, rows, rights, cap, probed, todo, fresh, history, events>> /\ Watch

SavePulled ==
  /\ pc = "apply" /\ todo = {} /\ fresh = {}
  /\ checkpoint' = probed.seq
  /\ plan' = NoRows
  /\ pc' = "validate"
  /\ UNCHANGED <<outside, rows, rights, cap, probed, todo, fresh, history, events>> /\ Watch

RowHolds(p) == vault[p] = (IF rows[p] = NoRow THEN NoFile ELSE rows[p].content)
Synchronized == \A p \in Paths : RowHolds(p)

ValidateSynchronization ==
  /\ pc = "validate" /\ Synchronized
  /\ pc' = "issue"
  /\ UNCHANGED <<outside, state, rights, cap, job, history, events>> /\ Watch

IssueWriteGrant ==
  /\ pc = "issue"
  /\ Issue(probed.binding)
  /\ probed' = NothingProbed
  /\ pc' = "grant"
  /\ UNCHANGED <<outside, state, admission, cap, plan, todo, fresh, history, events>> /\ Watch

-----------------------------------------------------------------------------
(* The grant is taken, verified and used *)

CheckGrant ==
  /\ pc = "grant" /\ active # 0
  /\ cap' = active
  /\ pc' = "engine"
  /\ UNCHANGED <<outside, state, rights, job, history, events>> /\ Watch

\* Mutant: the capability is used as it is.
TrustGrant ==
  /\ pc = "engine" /\ admission # NoBinding
  /\ pc' = "live"
  /\ UNCHANGED <<outside, state, rights, cap, job, history, events>> /\ Watch

\* The engine verifies the grant against the stored admission, once, and goes
\* on without the capability when it does not hold.
ValidateAdmissionAndGrant ==
  /\ pc = "engine" /\ admission # NoBinding
  /\ cap' = IF Valid(cap, admission) THEN cap ELSE 0
  /\ RevokeDrifted(cap, admission)
  /\ pc' = "live"
  /\ UNCHANGED <<outside, state, admission, issued, job, history, events>> /\ Watch

RemoteChanged(p) == IF rows[p] = NoRow THEN Live(remote[p]) ELSE remote[p].rev # rows[p].rev
Conflict(p) == ~RowHolds(p) /\ RemoteChanged(p) /\ vault[p] # remote[p].content

\* The remote side alone changed: its content is installed, or the file moved
\* to the quarantine.
MayPull(p) == RemoteChanged(p) /\ ~Conflict(p) /\ (Live(remote[p]) => remote[p].whole)
Pull(p) ==
  /\ MayPull(p)
  /\ vault' = [vault EXCEPT ![p] = remote[p].content]
  /\ rows' = [rows EXCEPT ![p] = RowOf(remote[p])]
  /\ gone' = [gone EXCEPT ![p] = "none"]
  /\ UNCHANGED <<remote, unasked>>

\* The local side alone changed: its content is written, or the deletion.
MayPush(p) == cap # 0 /\ ~RowHolds(p) /\ ~RemoteChanged(p)
Push(p) ==
  /\ MayPush(p)
  /\ remote' = [remote EXCEPT ![p] = [rev |-> UpdateSeq + 1, content |-> vault[p], whole |-> TRUE]]
  /\ rows' = [rows EXCEPT ![p] = RowOf(remote'[p])]
  /\ unasked' = IF vault[p] = NoFile /\ gone[p] # "user" THEN unasked \cup {gone[p]} ELSE unasked
  /\ gone' = [gone EXCEPT ![p] = "none"]
  /\ UNCHANGED vault

Reconcile(p) ==
  /\ pc = "live"
  /\ Pull(p) \/ Push(p)
  /\ UNCHANGED <<markers, arming, checkpoint, rights, process, events>> /\ Watch

SyncFile(p) ==
  /\ pc = "sync" /\ p \in todo
  /\ \/ Pull(p) \/ Push(p)
     \/ ~MayPull(p) /\ ~MayPush(p) /\ UNCHANGED <<remote, vault, rows, history>>
  /\ todo' = todo \ {p}
  /\ UNCHANGED <<markers, arming, checkpoint, rights, pc, cap, probed, plan, fresh, events>>
  /\ Watch

SyncEnds ==
  /\ pc = "sync" /\ todo = {}
  /\ End
  /\ UNCHANGED <<outside, state, rights, history, events>> /\ Watch

-----------------------------------------------------------------------------
(* The end of a process *)

\* The command reports an error and exits.
Fails ==
  /\ \/ pc = "autoarm" /\ ~Admitted(markers)
     \/ pc = "plan" /\ ~Feasible
     \/ pc = "apply" /\ \E p \in fresh : vault[p] = NoFile
     \/ pc = "validate" /\ ~Synchronized
     \/ pc = "grant" /\ active = 0
     \/ pc = "engine" /\ admission = NoBinding
  /\ End
  /\ UNCHANGED <<outside, state, rights, history, events>> /\ Watch

\* The process is stopped, killed, or a request fails.
Crash ==
  /\ Event
  /\ pc # "idle"
  /\ End
  /\ UNCHANGED <<outside, state, rights, history>> /\ Watch

World ==
  \/ \E p \in Paths, c \in Contents \cup {NoFile} : \E w \in BOOLEAN : OtherWrites(p, c, w)
  \/ \E p \in Paths : ChunksArrive(p)
  \/ \E m \in MarkerSets : OtherChangesMarkers(m)
  \/ \E p \in Paths, c \in Contents \cup {NoFile} : UserEdits(p, c)
  \/ ArmProbe \/ ArmIssue \/ ArmRevoke
  \/ \E mode \in Modes : StartDaemonOffline(mode)
  \/ StartSync
  \/ CheckTriggerUnread
  \/ Crash

Works ==
  \/ AdmitDaemon \/ VerifySync
  \/ AutoArmProbe \/ CheckTrigger \/ PlanReadOnlyPull
  \/ \E p \in Paths : CleanupLocalVault(p) \/ InstallPlanned(p) \/ RecordPlanned(p)
  \/ CleanupLocalState \/ AdmitForPull \/ SavePulled
  \/ ValidateSynchronization \/ IssueWriteGrant
  \/ CheckGrant \/ ValidateAdmissionAndGrant
  \/ \E p \in Paths : Reconcile(p) \/ SyncFile(p)
  \/ SyncEnds \/ Fails

ArmNext == World \/ Works \/ \E mode \in Modes : StartDaemon(mode)

ArmSpec == ArmInit /\ [][ArmNext]_armVars

\* The process goes on, and the container is restarted whenever it has stopped.
FairArmSpec ==
  /\ ArmSpec
  /\ WF_armVars(Works) /\ SF_armVars(StartDaemon("auto"))

-----------------------------------------------------------------------------
(* Properties *)

ArmTypeOK ==
  /\ remote \in [Paths -> Note] /\ markers \in MarkerSets
  /\ vault \in [Paths -> Contents \cup {NoFile}]
  /\ rows \in [Paths -> Row \cup {NoRow}] /\ plan \in [Paths -> Row \cup {NoRow}]
  /\ checkpoint \in Nat /\ admission \in Bindings \cup {NoBinding}
  /\ issued \in Seq(Bindings) /\ active \in 0..Len(issued) /\ cap \in 0..Len(issued)
  /\ pc \in Steps
  /\ probed \in [seq : Nat, binding : Bindings \cup {NoBinding}]
  /\ todo \subseteq Paths /\ fresh \subseteq Paths
  /\ arming \in Bindings \cup {NoBinding}
  /\ gone \in [Paths -> {"none", "user", "wipe"}]
  /\ unasked \subseteq {"none", "wipe"} /\ stale \in BOOLEAN /\ events \in 0..MaxEvents

\* A process that can write is bound to the markers the remote has now, unless
\* the stored admission and the remote differed at some time since it stored that
\* admission, or took it from an earlier process.
WritesMatchTheRemote ==
  pc \in {"live", "sync"} /\ cap # 0 /\ ~stale => issued[cap] = Binding(markers)

\* A tombstone is pushed for a file that the user deleted, or that a wipe cut
\* short by the end of its process had removed.
DeletionsAreExplained == "none" \notin unasked

\* SYNC-04: a logical deletion is pushed for the user's intentional deletions.
DeletionsAreTheUsers == unasked = {}

\* Behind the saved position nothing is missing: a daemon that skips its first
\* pass may rely on the feed for everything else.
CheckpointCovers ==
  \A p \in Paths :
    Live(remote[p]) /\ remote[p].rev <= checkpoint
      => rows[p] = [rev |-> remote[p].rev, content |-> remote[p].content]

\* Once the others rest, the daemon comes up, and a daemon that can write
\* brings vault and remote together.
InSync(p) == Conflict(p) \/ vault[p] = remote[p].content
ComesUp ==
  <>[](\/ pc = "live" /\ (cap # 0 => \A p \in Paths : InSync(p) \/ ~remote[p].whole)
       \/ ~Admitted(markers) \/ ~Feasible)
==============================================================================
