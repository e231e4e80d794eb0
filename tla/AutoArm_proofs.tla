----------------------------- MODULE AutoArm_proofs -----------------------------
(***************************************************************************)
(* For any set of notes, any contents, any number of events and any        *)
(* trigger threshold: a process that can write is bound to the markers of  *)
(* the remote, a deletion is pushed only for a file that the user or a     *)
(* wipe removed, and nothing is missing behind the saved position.         *)
(***************************************************************************)
EXTENDS AutoArm, TLAPS

-----------------------------------------------------------------------------
(* The inductive invariant *)

\* The greatest revision exists, is a note's, and nothing that was read from
\* the remote or saved is beyond it.
Positions ==
  /\ \E p \in Paths : \A q \in Paths : remote[q].rev <= remote[p].rev
  /\ \E p \in Paths : checkpoint <= remote[p].rev
  /\ \E p \in Paths : probed.seq <= remote[p].rev
  /\ \A p \in Paths : Live(remote[p]) => remote[p].rev > 0

\* The steps of a process that goes by what it probed.
Bound == {"auto", "write", "readonly", "verify",
          "trigger", "plan", "wipe", "admit", "apply", "validate", "issue"}

\* Since the process took its admission that was absent or the remote's own; a
\* process that writes has one, and what the process probed stays bound.
Admissions ==
  /\ pc \notin Starting => stale \/ admission \in {NoBinding, Binding(markers)}
  /\ pc \in {"live", "sync"} => admission # NoBinding
  /\ pc \in Bound => probed.binding \in Bindings

\* The plan holds every note up to the probed sequence, and a row that auto-arm
\* no longer has to write says what the plan says.
Materialised ==
  /\ pc \in {"wipe", "admit", "apply"} =>
       \A p \in Paths : remote[p].rev <= probed.seq => plan[p] = RowOf(remote[p])
  /\ pc \in {"admit", "apply"} => checkpoint = 0
  /\ pc = "admit" => \A p \in Paths : rows[p] = NoRow
  /\ pc = "apply" => \A p \in Paths : p \notin todo \cup fresh => rows[p] = plan[p]
  /\ pc = "apply" => \A p \in todo \cup fresh : plan[p] # NoRow
  /\ pc # "apply" => fresh = {}
  /\ \A p, q \in fresh : p = q

\* A file that is missing under its row was removed by the user or by a wipe.
Removals == \A p \in Paths : rows[p] # NoRow /\ vault[p] = NoFile => gone[p] # "none"

ArmInv ==
  /\ ArmTypeOK /\ Positions /\ Admissions /\ Materialised /\ Removals
  /\ WritesMatchTheRemote /\ DeletionsAreExplained /\ CheckpointCovers

-----------------------------------------------------------------------------
(* The operators *)

\* A binding is recorded as what it was read from.
LEMMA BindingType ==
 ASSUME NEW m \in MarkerSets PROVE Binding(m) \in Bindings /\ Binding(m) # NoBinding
BY BindingAssumption DEF Bindings

\* The sequence that the next write exceeds is one no revision exceeds.
LEMMA UpdateSeqIsLast ==
 ASSUME ArmTypeOK, Positions
 PROVE  /\ UpdateSeq \in Nat
        /\ \E p \in Paths : UpdateSeq = remote[p].rev
        /\ \A p \in Paths : remote[p].rev <= UpdateSeq
<1>1. PICK p \in Paths : \A q \in Paths : remote[q].rev <= remote[p].rev BY DEF Positions
<1>2. \E s \in {remote[q].rev : q \in Paths} : \A q \in Paths : remote[q].rev <= s BY <1>1
<1>3. \A q \in Paths : remote[q].rev \in Nat BY DEF ArmTypeOK, Note
<1> QED BY <1>2, <1>3 DEF UpdateSeq

\* A note that exists has a row to be recorded, and a deleted one has none.
LEMMA RowOfType ==
 ASSUME NEW n \in Note
 PROVE  /\ RowOf(n) \in Row \cup {NoRow}
        /\ Live(n) => RowOf(n) = [rev |-> n.rev, content |-> n.content]
        /\ ~Live(n) => RowOf(n) = NoRow
BY DEF RowOf, Live, Note, Row

-----------------------------------------------------------------------------
(* The types *)

\* Nothing a process that has ended held in memory survives it.
LEMMA EndTypes ==
 ASSUME ArmTypeOK, End,
        UNCHANGED <<outside, state, rights, history>>, stale' \in BOOLEAN, events' \in 0..MaxEvents
 PROVE  ArmTypeOK'
BY ArmAssumption DEF ArmTypeOK, End, outside, state, rights, history, Starting, Steps,
              NothingProbed, NoRows

\* A probe of the remote finds the binding of its markers.
LEMMA NegotiateTypes ==
 ASSUME ArmTypeOK, NEW step \in Starting, Negotiate(step), stale' \in BOOLEAN
 PROVE  ArmTypeOK'
<1>1. probed' \in [seq : Nat, binding : Bindings \cup {NoBinding}]
  BY BindingType DEF Negotiate, NothingProbed, ArmTypeOK
<1> QED BY <1>1 DEF Negotiate, Starting, Steps, ArmTypeOK, outside, state, rights, history

\* A daemon starts from nothing and changes nothing but what it holds in memory.
LEMMA DaemonStarts ==
 ASSUME NEW mode \in Modes, StartDaemon(mode)
 PROVE  /\ pc = "idle" /\ pc' = mode /\ mode \in {"auto", "write", "readonly"}
        /\ UNCHANGED <<outside, state, rights, cap, plan, todo, fresh, history>>
BY ArmAssumption DEF StartDaemon, Negotiate, Daemons

\* A daemon that stores its admission goes on with it.
LEMMA DaemonAdmitted ==
 ASSUME AdmitDaemon
 PROVE  /\ pc \in Daemons /\ pc' \in {"autoarm", "grant", "engine"}
        /\ UNCHANGED <<outside, state, issued, active, cap, plan, todo, fresh, history>>
BY DEF AdmitDaemon, AfterAdmission

\* The world's events are counted within the bound.
LEMMA EventType == ASSUME Event, events \in 0..MaxEvents PROVE events' \in 0..MaxEvents
BY ArmAssumption DEF Event

\* The world, the arm command, a start and a crash keep the types.
LEMMA WorldTypes == ASSUME ArmInv, World PROVE ArmTypeOK'
<1> USE DEF ArmInv
<1>0. ArmTypeOK /\ UpdateSeq \in Nat BY UpdateSeqIsLast
<1>a. Watch => stale' \in BOOLEAN BY DEF Watch
<1>b. Event => events' \in 0..MaxEvents BY EventType DEF ArmTypeOK
<1>1. ASSUME NEW p \in Paths, NEW c \in Contents \cup {NoFile}, NEW w \in BOOLEAN, OtherWrites(p, c, w)
      PROVE  ArmTypeOK'
  <2>1. [rev |-> UpdateSeq + 1, content |-> c, whole |-> w] \in Note BY <1>0 DEF Note
  <2>2. remote' \in [Paths -> Note] BY <1>1, <2>1 DEF OtherWrites, ArmTypeOK
  <2> QED BY <1>1, <1>a, <1>b, <2>2 DEF OtherWrites, ArmTypeOK, state, rights, process, job, history
<1>2. ASSUME NEW p \in Paths, ChunksArrive(p) PROVE ArmTypeOK'
  <2>1. remote[p] \in Note BY DEF ArmTypeOK
  <2>2. [remote[p] EXCEPT !.whole = TRUE] \in Note BY <2>1 DEF Note
  <2>3. remote' = [remote EXCEPT ![p] = [remote[p] EXCEPT !.whole = TRUE]] BY <1>2 DEF ChunksArrive
  <2>4. remote' \in [Paths -> Note] BY <2>2, <2>3 DEF ArmTypeOK
  <2> QED BY <1>2, <1>a, <2>4 DEF ChunksArrive, ArmTypeOK, state, rights, process, job, history
<1>3. ASSUME NEW m \in MarkerSets, OtherChangesMarkers(m) PROVE ArmTypeOK'
  BY <1>3, <1>a, <1>b DEF OtherChangesMarkers, ArmTypeOK, state, rights, process, job, history
<1>4. ASSUME NEW p \in Paths, NEW c \in Contents \cup {NoFile}, UserEdits(p, c) PROVE ArmTypeOK'
  BY <1>4, <1>a, <1>b DEF UserEdits, ArmTypeOK, state, rights, process, job
<1>5. CASE ArmProbe
  BY <1>5, <1>a, <1>b, BindingType DEF ArmProbe, ArmTypeOK, state, rights, process, job, history
<1>6. CASE ArmIssue
  BY <1>6, <1>a DEF ArmIssue, Issue, ArmTypeOK, state, process, job, history
<1>7. CASE ArmRevoke
  BY <1>7, <1>a, <1>b DEF ArmRevoke, ArmTypeOK, outside, state, process, job, history
<1>8. ASSUME NEW mode \in Modes, StartDaemonOffline(mode) PROVE ArmTypeOK'
  BY <1>8, <1>a
     DEF StartDaemonOffline, AfterAdmission, Daemons, Starting, Steps, ArmTypeOK, outside, state,
         rights, job, history
<1>9. CASE StartSync
  <2>1. stale' \in BOOLEAN BY <1>9, <1>a DEF StartSync, Negotiate
  <2>2. "verify" \in Starting BY DEF Starting
  <2> QED BY <1>9, <2>1, <2>2, NegotiateTypes DEF StartSync
<1>10. CASE Crash
  BY <1>10, <1>a, <1>b, EndTypes DEF Crash
<1>11. CASE CheckTriggerUnread
  BY <1>11, <1>a, <1>b
     DEF CheckTriggerUnread, Starting, Steps, ArmTypeOK, outside, state, rights, job, history
<1> QED BY <1>1, <1>2, <1>3, <1>4, <1>5, <1>6, <1>7, <1>8, <1>9, <1>10, <1>11 DEF World

\* What a reconciliation does to one file, and what it leaves of the type.
LEMMA PullTypes ==
 ASSUME ArmTypeOK, NEW p \in Paths, Pull(p)
 PROVE  /\ remote' \in [Paths -> Note] /\ vault' \in [Paths -> Contents \cup {NoFile}]
        /\ rows' \in [Paths -> Row \cup {NoRow}] /\ gone' \in [Paths -> {"none", "user", "wipe"}]
        /\ unasked' \subseteq {"none", "wipe"}
<1>1. remote[p] \in Note BY DEF ArmTypeOK
<1>2. RowOf(remote[p]) \in Row \cup {NoRow} /\ remote[p].content \in Contents \cup {NoFile}
  BY <1>1, RowOfType DEF Note
<1> QED BY <1>2 DEF Pull, ArmTypeOK

\* A push likewise, with a revision that is new.
LEMMA PushTypes ==
 ASSUME ArmTypeOK, Positions, NEW p \in Paths, Push(p)
 PROVE  /\ remote' \in [Paths -> Note] /\ vault' \in [Paths -> Contents \cup {NoFile}]
        /\ rows' \in [Paths -> Row \cup {NoRow}] /\ gone' \in [Paths -> {"none", "user", "wipe"}]
        /\ unasked' \subseteq {"none", "wipe"}
<1>1. [rev |-> UpdateSeq + 1, content |-> vault[p], whole |-> TRUE] \in Note
  BY UpdateSeqIsLast DEF ArmTypeOK, Note
<1>2. remote' \in [Paths -> Note] BY <1>1 DEF Push, ArmTypeOK
<1>3. remote'[p] \in Note BY <1>2
<1>4. RowOf(remote'[p]) \in Row \cup {NoRow} BY <1>3, RowOfType
<1>5. rows' \in [Paths -> Row \cup {NoRow}] BY <1>4 DEF Push, ArmTypeOK
<1>6. gone[p] \in {"none", "user", "wipe"} BY DEF ArmTypeOK
<1> QED BY <1>2, <1>5, <1>6 DEF Push, ArmTypeOK

\* Every step of the daemon and of the sync command keeps the types.
LEMMA WorksTypes == ASSUME ArmInv, Works PROVE ArmTypeOK'
<1> USE DEF ArmInv
<1>0. ArmTypeOK /\ UpdateSeq \in Nat BY UpdateSeqIsLast
<1>a. Watch => stale' \in BOOLEAN BY DEF Watch
<1>1. CASE AutoArmProbe
  <2>1. probed' \in [seq : Nat, binding : Bindings \cup {NoBinding}]
    BY <1>1, <1>0, BindingType DEF AutoArmProbe, ArmTypeOK
  <2> QED BY <1>1, <1>a, <2>1 DEF AutoArmProbe, Starting, Steps, ArmTypeOK, outside, state, rights,
              history
<1>2. CASE CheckTrigger
  BY <1>2, <1>a DEF CheckTrigger, NothingProbed, Starting, Steps, ArmTypeOK, outside, state,
              rights, history
<1>3. CASE PlanReadOnlyPull
  BY <1>3, <1>a, RowOfType DEF PlanReadOnlyPull, Files, Starting, Steps, ArmTypeOK, outside, state,
              rights, history
<1>4. ASSUME NEW p \in Paths, CleanupLocalVault(p) PROVE ArmTypeOK'
  BY <1>4, <1>a DEF CleanupLocalVault, ArmTypeOK, state, rights
<1>5. ASSUME NEW p \in Paths, InstallPlanned(p) PROVE ArmTypeOK'
  <2>1. plan[p] \in Row BY <1>5 DEF InstallPlanned, Materialised, ArmTypeOK
  <2>2. plan[p].content \in Contents BY <2>1 DEF Row
  <2> QED BY <1>5, <1>a, <2>2 DEF InstallPlanned, ArmTypeOK, state, rights
<1>6. ASSUME NEW p \in Paths, RecordPlanned(p) PROVE ArmTypeOK'
  BY <1>6, <1>a DEF RecordPlanned, ArmTypeOK, outside, rights, history
<1>7. CASE CleanupLocalState
  BY <1>7, <1>a DEF CleanupLocalState, NoRows, Starting, Steps, ArmTypeOK, outside, job, history
<1>8. CASE AdmitForPull
  BY <1>8, <1>a DEF AdmitForPull, Starting, Steps, ArmTypeOK, outside, state, history
<1>9. CASE SavePulled
  BY <1>9, <1>a DEF SavePulled, NoRows, Starting, Steps, ArmTypeOK, outside, rights, history
<1>10. CASE ValidateSynchronization
  BY <1>10, <1>a DEF ValidateSynchronization, Starting, Steps, ArmTypeOK, outside, state, rights,
              job, history
<1>11. CASE IssueWriteGrant
  BY <1>11, <1>a
     DEF IssueWriteGrant, Issue, Admissions, Bound, NothingProbed, Starting, Steps, ArmTypeOK, outside,
         state, history
<1>12. CASE CheckGrant
  BY <1>12, <1>a DEF CheckGrant, Starting, Steps, ArmTypeOK, outside, state, rights, job, history
<1>13. CASE ValidateAdmissionAndGrant
  BY <1>13, <1>a
     DEF ValidateAdmissionAndGrant, Valid, RevokeDrifted, Starting, Steps, ArmTypeOK, outside,
         state, job, history
<1>14. ASSUME NEW p \in Paths, Reconcile(p) PROVE ArmTypeOK'
  BY <1>14, <1>a, PullTypes, PushTypes DEF Reconcile, ArmTypeOK, rights, process, job
<1>15. ASSUME NEW p \in Paths, SyncFile(p) PROVE ArmTypeOK'
  <2>1. /\ remote' \in [Paths -> Note] /\ vault' \in [Paths -> Contents \cup {NoFile}]
        /\ rows' \in [Paths -> Row \cup {NoRow}] /\ gone' \in [Paths -> {"none", "user", "wipe"}]
        /\ unasked' \subseteq {"none", "wipe"}
    BY <1>15, PullTypes, PushTypes DEF SyncFile, ArmTypeOK, history
  <2> QED BY <1>15, <1>a, <2>1 DEF SyncFile, ArmTypeOK, rights
<1>16. CASE SyncEnds BY <1>16, <1>a, EndTypes DEF SyncEnds, ArmTypeOK
<1>17. CASE Fails BY <1>17, <1>a, EndTypes DEF Fails, ArmTypeOK
<1>18. CASE AdmitDaemon
  <2>1. AfterAdmission(pc) \in Steps BY DEF AfterAdmission, Starting, Steps
  <2> QED BY <1>18, <1>a, <2>1 DEF AdmitDaemon, NothingProbed, ArmTypeOK, outside, state, history
<1>19. CASE VerifySync
  BY <1>19, <1>a
     DEF VerifySync, Valid, RevokeDrifted, End, NothingProbed, NoRows, Starting, Steps, ArmTypeOK,
         outside, state, history
<1> QED BY <1>1, <1>2, <1>3, <1>4, <1>5, <1>6, <1>7, <1>8, <1>9, <1>10, <1>11, <1>12, <1>13, <1>14,
           <1>15, <1>16, <1>17, <1>18, <1>19 DEF Works

\* The types hold in every step.
LEMMA TypesKept == ASSUME ArmInv, [ArmNext]_armVars PROVE ArmTypeOK'
<1> USE DEF ArmInv
<1>1. ASSUME NEW mode \in Modes, StartDaemon(mode) PROVE ArmTypeOK'
  <2>1. mode \in Starting /\ stale' \in BOOLEAN
    BY <1>1, ArmAssumption DEF StartDaemon, Negotiate, Daemons, Starting, Watch
  <2> QED BY <1>1, <2>1, NegotiateTypes DEF StartDaemon
<1>2. CASE UNCHANGED armVars
  BY <1>2 DEF armVars, outside, state, rights, process, job, history, ArmTypeOK
<1> QED BY <1>1, <1>2, WorldTypes, WorksTypes DEF ArmNext

-----------------------------------------------------------------------------
(* Revisions and positions *)

\* What a step may do with the notes: nothing that shows in a revision or a
\* content, or one write with a new revision while no position moves.
SameNotes ==
  \A p \in Paths : remote'[p].rev = remote[p].rev /\ remote'[p].content = remote[p].content
NewNote(p, n) ==
  /\ n \in Note /\ n.rev = UpdateSeq + 1
  /\ remote' = [remote EXCEPT ![p] = n]
  /\ UNCHANGED <<checkpoint, probed, plan>>

\* A push is one new note.
LEMMA PushWrites ==
 ASSUME ArmTypeOK, Positions, NEW p \in Paths, Push(p), UNCHANGED <<checkpoint, probed, plan>>
 PROVE  \E n \in Note : NewNote(p, n)
<1>1. PICK n : n = [rev |-> UpdateSeq + 1, content |-> vault[p], whole |-> TRUE] OBVIOUS
<1>2. n \in Note BY <1>1, UpdateSeqIsLast DEF ArmTypeOK, Note
<1> QED BY <1>1, <1>2 DEF NewNote, Push

\* Every step is one or the other.
LEMMA NotesMove ==
 ASSUME ArmInv, [ArmNext]_armVars
 PROVE  SameNotes \/ \E p \in Paths : \E n \in Note : NewNote(p, n)
<1> USE DEF ArmInv
<1>1. ASSUME NEW p \in Paths, NEW c \in Contents \cup {NoFile}, NEW w \in BOOLEAN, OtherWrites(p, c, w)
      PROVE  \E n \in Note : NewNote(p, n)
  <2>1. PICK n : n = [rev |-> UpdateSeq + 1, content |-> c, whole |-> w] OBVIOUS
  <2>2. n \in Note BY <2>1, UpdateSeqIsLast DEF Note
  <2> QED BY <1>1, <2>1, <2>2 DEF NewNote, OtherWrites, state, process, job
<1>2. ASSUME NEW p \in Paths, ChunksArrive(p) PROVE SameNotes
  <2>1. remote \in [Paths -> Note] BY DEF ArmTypeOK
  <2> QED BY <1>2, <2>1 DEF ChunksArrive, SameNotes, Note
<1>3. ASSUME NEW p \in Paths, Reconcile(p) \/ SyncFile(p)
      PROVE  SameNotes \/ \E n \in Note : NewNote(p, n)
  <2>1. UNCHANGED <<checkpoint, probed, plan>> BY <1>3 DEF Reconcile, SyncFile, process, job
  <2>2. CASE Push(p) BY <2>1, <2>2, PushWrites
  <2>3. CASE UNCHANGED remote BY <2>3 DEF SameNotes
  <2> QED BY <1>3, <2>2, <2>3 DEF Reconcile, SyncFile, Pull
<1>4. CASE World
  <2>1. CASE UNCHANGED remote BY <2>1 DEF SameNotes
  <2> QED BY <1>1, <1>2, <1>4, <2>1
          DEF World, OtherChangesMarkers, UserEdits, ArmProbe, ArmIssue, ArmRevoke, StartDaemonOffline,
              StartSync, Negotiate, CheckTriggerUnread, Crash, outside
<1>5. CASE Works
  <2>1. CASE UNCHANGED remote BY <2>1 DEF SameNotes
  <2> QED BY <1>3, <1>5, <2>1
          DEF Works, AdmitDaemon, VerifySync, AutoArmProbe, CheckTrigger, PlanReadOnlyPull,
              CleanupLocalVault, InstallPlanned,
              RecordPlanned, CleanupLocalState, AdmitForPull, SavePulled, ValidateSynchronization,
              IssueWriteGrant, CheckGrant, ValidateAdmissionAndGrant, SyncEnds, Fails, outside
<1>6. ASSUME NEW mode \in Modes, StartDaemon(mode) PROVE SameNotes
  BY <1>6 DEF StartDaemon, Negotiate, Daemons, SameNotes, outside
<1>7. CASE UNCHANGED armVars BY <1>7 DEF armVars, SameNotes, outside
<1> QED BY <1>4, <1>5, <1>6, <1>7 DEF ArmNext

\* A note whose revision is not beyond what was known is the note it was.
LEMMA KnownNotesStay ==
 ASSUME ArmInv, [ArmNext]_armVars, NEW s \in Nat, \E q \in Paths : s <= remote[q].rev,
        NEW p \in Paths, remote'[p].rev <= s
 PROVE  remote'[p].rev = remote[p].rev /\ remote'[p].content = remote[p].content
<1>1. CASE SameNotes BY <1>1 DEF SameNotes
<1>2. ASSUME NEW q \in Paths, NEW n \in Note, NewNote(q, n)
      PROVE  remote'[p].rev = remote[p].rev /\ remote'[p].content = remote[p].content
  <2>1. ArmTypeOK /\ Positions BY DEF ArmInv
  <2>2. UpdateSeq \in Nat /\ \A r \in Paths : remote[r].rev <= UpdateSeq BY <2>1, UpdateSeqIsLast
  <2>3. \A r \in Paths : remote[r].rev \in Nat BY <2>1 DEF ArmTypeOK, Note
  <2>4. s <= UpdateSeq BY <2>2, <2>3
  <2>5. CASE p = q
    <3>1. remote'[p].rev = UpdateSeq + 1 BY <1>2, <2>1, <2>5 DEF NewNote, ArmTypeOK
    <3> QED BY <3>1, <2>2, <2>4
  <2>6. CASE p # q BY <1>2, <2>1, <2>6 DEF NewNote, ArmTypeOK
  <2> QED BY <2>5, <2>6
<1> QED BY <1>1, <1>2, NotesMove

\* Where the positions come from.
LEMMA PositionsMove ==
 ASSUME ArmInv, [ArmNext]_armVars
 PROVE  checkpoint' \in {checkpoint, 0, probed.seq} /\ probed'.seq \in {probed.seq, 0, UpdateSeq}
<1>1. CASE World
  BY <1>1 DEF World, OtherWrites, ChunksArrive, OtherChangesMarkers, UserEdits, ArmProbe, ArmIssue,
              ArmRevoke, StartDaemonOffline, StartSync, Negotiate, CheckTriggerUnread, Crash, End,
              NothingProbed, state, process, job
<1>2. CASE Works
  BY <1>2 DEF Works, AdmitDaemon, VerifySync, AutoArmProbe, CheckTrigger, PlanReadOnlyPull,
              CleanupLocalVault, InstallPlanned,
              RecordPlanned, CleanupLocalState, AdmitForPull, SavePulled, ValidateSynchronization,
              IssueWriteGrant, CheckGrant, ValidateAdmissionAndGrant, Reconcile, SyncFile, SyncEnds,
              Fails, End, NothingProbed, state, process, job
<1>3. ASSUME NEW mode \in Modes, StartDaemon(mode) PROVE checkpoint' = checkpoint /\ probed'.seq = 0
  BY <1>3 DEF StartDaemon, Negotiate, NothingProbed, state
<1>4. CASE UNCHANGED armVars BY <1>4 DEF armVars, state, process, job
<1> QED BY <1>1, <1>2, <1>3, <1>4 DEF ArmNext

\* Positions stay behind the greatest revision.
LEMMA PositionsKept == ASSUME ArmInv, [ArmNext]_armVars PROVE Positions'
<1>1. ArmTypeOK /\ Positions /\ ArmTypeOK' BY TypesKept DEF ArmInv
<1>2. /\ UpdateSeq \in Nat /\ \E p \in Paths : UpdateSeq = remote[p].rev
      /\ \A p \in Paths : remote[p].rev <= UpdateSeq
  BY <1>1, UpdateSeqIsLast
<1>3. PICK last \in Paths : UpdateSeq = remote[last].rev BY <1>2
<1>4. /\ \A p \in Paths : remote[p].rev \in Nat /\ remote'[p].rev \in Nat
      /\ checkpoint \in Nat /\ probed.seq \in Nat /\ checkpoint' \in Nat /\ probed'.seq \in Nat
  BY <1>1 DEF ArmTypeOK, Note
<1>5. checkpoint <= UpdateSeq /\ probed.seq <= UpdateSeq BY <1>1, <1>2, <1>4 DEF Positions
<1>6. checkpoint' <= UpdateSeq /\ probed'.seq <= UpdateSeq BY <1>2, <1>5, PositionsMove
<1>7. CASE SameNotes
  <2>1. \A p \in Paths : remote'[p].rev <= remote'[last].rev BY <1>2, <1>3, <1>7 DEF SameNotes
  <2>2. checkpoint' <= remote'[last].rev /\ probed'.seq <= remote'[last].rev
    BY <1>3, <1>6, <1>7 DEF SameNotes
  <2>3. \A p \in Paths : Live(remote[p])' => remote'[p].rev > 0
    BY <1>1, <1>7 DEF SameNotes, Live, Positions
  <2> QED BY <2>1, <2>2, <2>3 DEF Positions
<1>8. ASSUME NEW p \in Paths, NEW n \in Note, NewNote(p, n) PROVE Positions'
  <2>1. remote'[p] = n /\ n.rev = UpdateSeq + 1 /\ \A q \in Paths \ {p} : remote'[q] = remote[q]
    BY <1>1, <1>8 DEF NewNote, ArmTypeOK
  <2>2. \A q \in Paths : remote'[q].rev <= remote'[p].rev BY <2>1, <1>2, <1>4
  <2>3. checkpoint' <= remote'[p].rev /\ probed'.seq <= remote'[p].rev BY <2>1, <1>2, <1>4, <1>6
  <2>4. \A q \in Paths : Live(remote[q])' => remote'[q].rev > 0
    BY <2>1, <1>1, <1>2 DEF Live, Positions
  <2> QED BY <2>2, <2>3, <2>4 DEF Positions
<1> QED BY <1>7, <1>8, NotesMove

-----------------------------------------------------------------------------
(* Admissions and grants *)

\* In every step but stuttering the watch is kept.
LEMMA WatchKept == ASSUME ArmNext PROVE Watch
<1>1. CASE World
  BY <1>1 DEF World, OtherWrites, ChunksArrive, OtherChangesMarkers, UserEdits, ArmProbe, ArmIssue,
              ArmRevoke, StartDaemonOffline, StartSync, Negotiate, CheckTriggerUnread, Crash
<1>2. CASE Works
  BY <1>2 DEF Works, AdmitDaemon, VerifySync, AutoArmProbe, CheckTrigger, PlanReadOnlyPull,
              CleanupLocalVault, InstallPlanned,
              RecordPlanned, CleanupLocalState, AdmitForPull, SavePulled, ValidateSynchronization,
              IssueWriteGrant, CheckGrant, ValidateAdmissionAndGrant, Reconcile, SyncFile,
              SyncEnds, Fails
<1> QED BY <1>1, <1>2 DEF ArmNext, StartDaemon, Negotiate

\* A process that writes keeps its admission: only a wipe removes it.
LEMMA AdmissionStays ==
 ASSUME ArmInv, [ArmNext]_armVars, pc' \in {"live", "sync"}
 PROVE  /\ admission' # NoBinding
        /\ \/ pc' = pc /\ cap' = cap /\ UNCHANGED <<admission, issued>>
           \/ pc' = pc /\ cap' = cap /\ ArmIssue
           \/ VerifySync
           \/ ValidateAdmissionAndGrant
<1>1. ArmTypeOK BY DEF ArmInv
<1>2. CASE VerifySync
  <2>1. admission' = probed.binding /\ probed.binding \in Bindings
    BY <1>2 DEF VerifySync, End, ArmInv, Admissions, Bound
  <2> QED BY <1>2, <2>1, BindingAssumption
<1>3. CASE ValidateAdmissionAndGrant BY <1>3 DEF ValidateAdmissionAndGrant
<1>4. CASE ArmIssue BY <1>4 DEF ArmIssue, process, job
<1>5. CASE World /\ ~ArmIssue
  BY <1>5 DEF World, OtherWrites, ChunksArrive, OtherChangesMarkers, UserEdits, ArmProbe, ArmRevoke,
              StartDaemonOffline, AfterAdmission, StartSync, Negotiate, CheckTriggerUnread, Crash,
              End, ArmInv, Admissions, rights, process, outside
<1>6. CASE Works /\ ~ValidateAdmissionAndGrant /\ ~VerifySync
  BY <1>6 DEF Works, AdmitDaemon, AfterAdmission, AutoArmProbe, CheckTrigger, PlanReadOnlyPull,
              CleanupLocalVault, InstallPlanned,
              RecordPlanned, CleanupLocalState, AdmitForPull, SavePulled, ValidateSynchronization,
              IssueWriteGrant, CheckGrant, Reconcile, SyncFile, SyncEnds, Fails, End, ArmInv, Admissions,
              rights, process, outside
<1>7. ASSUME NEW mode \in Modes, StartDaemon(mode) PROVE FALSE
  BY <1>7, DaemonStarts
<1>8. CASE UNCHANGED armVars BY <1>8 DEF armVars, outside, rights, process, ArmInv, Admissions
<1> QED BY <1>2, <1>3, <1>4, <1>5, <1>6, <1>7, <1>8 DEF ArmNext

\* What auto-arm probed is a binding for as long as it is used.
LEMMA ProbedStaysBound ==
 ASSUME ArmInv, [ArmNext]_armVars,
        pc' \in Bound
 PROVE  probed'.binding \in Bindings
<1>1. ArmTypeOK /\ Admissions BY DEF ArmInv
<1>2. CASE World
  BY <1>1, <1>2, BindingType DEF World, ArmTypeOK, OtherWrites, ChunksArrive, OtherChangesMarkers,
              UserEdits, ArmProbe, ArmIssue,
              ArmRevoke, StartDaemonOffline, AfterAdmission, Daemons, StartSync, Negotiate,
              NothingProbed, CheckTriggerUnread, Crash, End,
              Admissions, Bound, process, job
<1>3. CASE AutoArmProbe BY <1>1, <1>3, BindingType DEF AutoArmProbe, ArmTypeOK
<1>4. CASE Works /\ ~AutoArmProbe /\ ~AdmitDaemon
  BY <1>1, <1>4 DEF Works, VerifySync, CheckTrigger, PlanReadOnlyPull, CleanupLocalVault, InstallPlanned,
              RecordPlanned, CleanupLocalState, AdmitForPull, SavePulled, ValidateSynchronization,
              IssueWriteGrant, CheckGrant, ValidateAdmissionAndGrant, Reconcile, SyncFile, SyncEnds,
              Fails, End, Admissions, Bound, process, job
<1>7. CASE AdmitDaemon BY <1>7, DaemonAdmitted DEF Bound
<1>5. ASSUME NEW mode \in Modes, StartDaemon(mode) PROVE probed'.binding \in Bindings
  BY <1>1, <1>5, BindingType DEF StartDaemon, Negotiate, NothingProbed, ArmTypeOK
<1>6. CASE UNCHANGED armVars BY <1>1, <1>6 DEF armVars, process, job, Admissions
<1> QED BY <1>2, <1>3, <1>4, <1>5, <1>6, <1>7 DEF ArmNext

\* What is known of the admission lasts as long as the process.
LEMMA AdmissionsKept == ASSUME ArmInv, [ArmNext]_armVars PROVE Admissions'
<1>1. pc' \notin Starting => stale' \/ admission' \in {NoBinding, Binding(markers')}
  <2>1. CASE ArmNext BY <2>1, WatchKept DEF Watch
  <2>2. CASE UNCHANGED armVars
    BY <2>2 DEF armVars, outside, rights, process, Starting, ArmInv, Admissions
  <2> QED BY <2>1, <2>2
<1>2. Binding(markers)' = Binding(markers') BY DEF Binding
<1> QED BY <1>1, <1>2, AdmissionStays, ProbedStaysBound DEF Admissions

\* A process that goes on as not stale was not stale before.
LEMMA StaleStays ==
 ASSUME [ArmNext]_armVars, pc \notin Starting, pc' \notin Starting, ~stale' PROVE ~stale
<1>1. CASE ArmNext BY <1>1, WatchKept DEF Watch
<1>2. CASE UNCHANGED armVars BY <1>2 DEF armVars
<1> QED BY <1>1, <1>2

\* No step lets a process write under another binding unseen.
LEMMA WritesMatchKept == ASSUME ArmInv, [ArmNext]_armVars PROVE WritesMatchTheRemote'
<1> SUFFICES ASSUME pc' \in {"live", "sync"}, cap' # 0, ~stale'
             PROVE  issued'[cap'] = Binding(markers')
  BY DEF WritesMatchTheRemote, Binding
<1>1. ArmTypeOK /\ WritesMatchTheRemote /\ Admissions /\ Admissions' BY AdmissionsKept DEF ArmInv
<1>2. admission' = Binding(markers') BY <1>1, AdmissionStays DEF Admissions, Binding, Starting
<1>3. ASSUME pc' = pc, cap' = cap
      PROVE  issued[cap] = Binding(markers) /\ admission # NoBinding /\ admission = Binding(markers)
    BY <1>1, <1>3, StaleStays DEF WritesMatchTheRemote, Admissions, Starting
<1>4. CASE pc' = pc /\ cap' = cap /\ UNCHANGED <<admission, issued>>
  BY <1>2, <1>3, <1>4
<1>5. CASE pc' = pc /\ cap' = cap /\ ArmIssue
  <2>1. issued' = Append(issued, arming) /\ markers' = markers BY <1>5 DEF ArmIssue, Issue
  <2>2. issued'[cap] = issued[cap] BY <2>1, <1>1, <1>5 DEF ArmTypeOK
  <2> QED BY <1>3, <1>5, <2>1, <2>2
<1>6. CASE VerifySync
  <2>1. /\ Valid(active, probed.binding) /\ cap' = active /\ issued' = issued
        /\ admission' = probed.binding
    BY <1>6 DEF VerifySync, End
  <2> QED BY <1>2, <2>1 DEF Valid
<1>7. CASE ValidateAdmissionAndGrant
  BY <1>7, <1>2 DEF ValidateAdmissionAndGrant, Valid
<1> QED BY <1>4, <1>5, <1>6, <1>7, AdmissionStays

-----------------------------------------------------------------------------
(* The plan, the rows and the saved position *)

\* The plan is not changed while it is carried out.
LEMMA PlanMoves ==
 ASSUME ArmInv, [ArmNext]_armVars, pc' \in {"wipe", "admit", "apply"}
 PROVE  \/ PlanReadOnlyPull
        \/ pc \in {"wipe", "admit", "apply"} /\ plan' = plan /\ probed' = probed
<1>1. CASE World
  BY <1>1 DEF World, OtherWrites, ChunksArrive, OtherChangesMarkers, UserEdits, ArmProbe, ArmIssue,
              ArmRevoke, StartDaemonOffline, AfterAdmission, Daemons, StartSync, Negotiate,
              CheckTriggerUnread, Crash, End, process, job
<1>2. CASE Works
  <2>1. CASE \E p \in Paths : Reconcile(p) \/ SyncFile(p) BY <2>1 DEF Reconcile, SyncFile, process, job
  <2>2. CASE \E p \in Paths : CleanupLocalVault(p) \/ InstallPlanned(p) \/ RecordPlanned(p)
    BY <2>2 DEF CleanupLocalVault, InstallPlanned, RecordPlanned
  <2>3. CASE CleanupLocalState \/ AdmitForPull
    BY <2>3 DEF CleanupLocalState, AdmitForPull, job
  <2>5. CASE AdmitDaemon BY <2>5, DaemonAdmitted
  <2>4. CASE \/ VerifySync \/ AutoArmProbe \/ CheckTrigger \/ SavePulled \/ ValidateSynchronization
             \/ IssueWriteGrant \/ CheckGrant \/ ValidateAdmissionAndGrant \/ SyncEnds \/ Fails
    BY <2>4 DEF VerifySync, AutoArmProbe, CheckTrigger, SavePulled, ValidateSynchronization,
              IssueWriteGrant,
                CheckGrant, ValidateAdmissionAndGrant, SyncEnds, Fails, End
  <2> QED BY <1>2, <2>1, <2>2, <2>3, <2>4, <2>5 DEF Works
<1>3. ASSUME NEW mode \in Modes, StartDaemon(mode) PROVE FALSE
  BY <1>3, DaemonStarts
<1>4. CASE UNCHANGED armVars BY <1>4 DEF armVars, process, job
<1> QED BY <1>1, <1>2, <1>3, <1>4 DEF ArmNext

\* What the plan says of a known note stays true.
LEMMA PlanKept ==
 ASSUME ArmInv, [ArmNext]_armVars, pc' \in {"wipe", "admit", "apply"},
        NEW p \in Paths, remote'[p].rev <= probed'.seq
 PROVE  plan'[p] = RowOf(remote[p])'
<1>1. ArmTypeOK /\ Positions /\ Materialised BY DEF ArmInv
<1>2. CASE PlanReadOnlyPull
  BY <1>2 DEF PlanReadOnlyPull, RowOf, Live, outside
<1>3. CASE pc \in {"wipe", "admit", "apply"} /\ plan' = plan /\ probed' = probed
  <2>1. probed.seq \in Nat /\ \E q \in Paths : probed.seq <= remote[q].rev
    BY <1>1 DEF ArmTypeOK, Positions
  <2>2. remote'[p].rev = remote[p].rev /\ remote'[p].content = remote[p].content
    BY <1>3, <2>1, KnownNotesStay
  <2>3. plan[p] = RowOf(remote[p]) BY <1>1, <1>3, <2>2 DEF Materialised
  <2> QED BY <1>3, <2>2, <2>3 DEF RowOf, Live
<1> QED BY <1>2, <1>3, PlanMoves

\* What a step does with the rows while the plan is carried out.
LEMMA MaterialisedRows ==
 ASSUME ArmInv, [ArmNext]_armVars
 PROVE  /\ pc' \in {"admit", "apply"} => checkpoint' = 0
        /\ pc' = "admit" => \A p \in Paths : rows'[p] = NoRow
        /\ pc' = "apply" => \A p \in Paths : p \notin todo' \cup fresh' => rows'[p] = plan'[p]
        /\ pc' = "apply" => \A p \in todo' \cup fresh' : plan'[p] # NoRow
        /\ pc' # "apply" => fresh' = {}
        /\ \A p, q \in fresh' : p = q
<1>0. ArmTypeOK /\ Materialised BY DEF ArmInv
<1>1. CASE World
  <2>1. UNCHANGED <<rows, checkpoint>> BY <1>1
     DEF World, OtherWrites, ChunksArrive, OtherChangesMarkers, UserEdits, ArmProbe, ArmIssue,
              ArmRevoke, StartDaemonOffline, StartSync, Negotiate, CheckTriggerUnread, Crash, state
  <2>2. \/ UNCHANGED <<pc, fresh, todo, plan>>
        \/ pc # "apply" /\ pc' \notin {"admit", "apply"} /\ UNCHANGED fresh
        \/ pc' = "idle" /\ fresh' = {}
    BY <1>1
     DEF World, OtherWrites, ChunksArrive, OtherChangesMarkers, UserEdits, ArmProbe, ArmIssue,
              ArmRevoke, StartDaemonOffline, AfterAdmission, Daemons, StartSync, Negotiate,
              CheckTriggerUnread, Crash, End, process, job
  <2> QED BY <1>0, <2>1, <2>2 DEF Materialised
<1>2. ASSUME NEW p \in Paths, InstallPlanned(p)
      PROVE  /\ pc' = "apply" /\ checkpoint' = 0 /\ rows' = rows /\ plan' = plan
             /\ todo' \cup fresh' = todo \cup fresh /\ fresh' = {p} /\ todo' \subseteq todo
  BY <1>0, <1>2 DEF InstallPlanned, Materialised, state
<1>3. ASSUME NEW p \in Paths, RecordPlanned(p)
      PROVE  /\ pc' = "apply" /\ checkpoint' = 0 /\ plan' = plan /\ todo' = todo
             /\ fresh = {p} /\ fresh' = {} /\ rows' = [rows EXCEPT ![p] = plan[p]]
  BY <1>0, <1>3 DEF RecordPlanned, Materialised
<1>4. CASE CleanupLocalState
  BY <1>0, <1>4 DEF CleanupLocalState, NoRows, Materialised, job
<1>5. CASE AdmitForPull
  BY <1>0, <1>5 DEF AdmitForPull, Materialised, state
<1>6. CASE \E p \in Paths : InstallPlanned(p)
  <2>1. PICK p \in Paths : InstallPlanned(p) BY <1>6
  <2>2. pc = "apply" BY <2>1 DEF InstallPlanned
  <2> QED BY <1>0, <1>2, <2>1, <2>2 DEF Materialised
<1>7. CASE \E p \in Paths : RecordPlanned(p)
  <2>1. rows \in [Paths -> Row \cup {NoRow}] BY <1>0 DEF ArmTypeOK
  <2> QED BY <1>0, <1>3, <1>7, <2>1 DEF Materialised
<1>13. CASE AdmitDaemon
  <2>1. pc # "apply" /\ pc' \notin {"admit", "apply"} /\ UNCHANGED fresh
    BY <1>13, DaemonAdmitted, ArmAssumption DEF Daemons
  <2> QED BY <1>0, <2>1 DEF Materialised
<1>8. CASE \/ VerifySync \/ AutoArmProbe \/ CheckTrigger \/ PlanReadOnlyPull
           \/ \E p \in Paths : CleanupLocalVault(p) \/ Reconcile(p) \/ SyncFile(p)
           \/ SavePulled \/ ValidateSynchronization \/ IssueWriteGrant \/ CheckGrant
           \/ ValidateAdmissionAndGrant \/ SyncEnds \/ Fails
  BY <1>0, <1>8 DEF VerifySync, AutoArmProbe, CheckTrigger, PlanReadOnlyPull, CleanupLocalVault,
              Reconcile, SyncFile,
     SavePulled, ValidateSynchronization, IssueWriteGrant, CheckGrant, ValidateAdmissionAndGrant,
     SyncEnds, Fails, End, Materialised, process, job
<1>9. ASSUME NEW mode \in Modes, StartDaemon(mode)
      PROVE  pc = "idle" /\ pc' \notin {"admit", "apply"} /\ UNCHANGED fresh
  BY <1>9, DaemonStarts
<1>10. CASE UNCHANGED armVars BY <1>0, <1>10 DEF armVars, state, process, job, Materialised
<1>11. CASE \E mode \in Modes : StartDaemon(mode) BY <1>0, <1>9, <1>11 DEF Materialised
<1>12. CASE Works BY <1>4, <1>5, <1>6, <1>7, <1>8, <1>12, <1>13 DEF Works
<1> QED BY <1>1, <1>10, <1>11, <1>12 DEF ArmNext

\* The plan and the rows written from it stay in step.
LEMMA MaterialisedKept == ASSUME ArmInv, [ArmNext]_armVars PROVE Materialised'
BY PlanKept, MaterialisedRows DEF Materialised

-----------------------------------------------------------------------------
(* Missing files *)

\* A reconciliation leaves no row over a missing file, and pushes the deletion
\* of no file that was last installed or pushed.
LEMMA PullRemovals ==
 ASSUME ArmInv, NEW p \in Paths, Pull(p)
 PROVE  Removals' /\ unasked' = unasked
<1>1. ArmTypeOK /\ Removals BY DEF ArmInv
<1>2. unasked' = unasked /\ rows'[p] = RowOf(remote[p]) /\ vault'[p] = remote[p].content
      /\ \A q \in Paths \ {p} : rows'[q] = rows[q] /\ vault'[q] = vault[q] /\ gone'[q] = gone[q]
  BY <1>1 DEF Pull, ArmTypeOK
<1>3. rows'[p] # NoRow => vault'[p] # NoFile BY <1>2 DEF RowOf, Live
<1> QED BY <1>1, <1>2, <1>3 DEF Removals

\* A push likewise: the file it finds missing was removed by somebody.
LEMMA PushRemovals ==
 ASSUME ArmInv, NEW p \in Paths, Push(p)
 PROVE  Removals' /\ "none" \notin unasked'
<1>1. ArmTypeOK /\ Removals /\ DeletionsAreExplained BY DEF ArmInv
<1>2. PICK n : n = [rev |-> UpdateSeq + 1, content |-> vault[p], whole |-> TRUE] OBVIOUS
<1>3. remote'[p] = n /\ n.content = vault[p] BY <1>1, <1>2 DEF Push, ArmTypeOK
<1>4. /\ vault' = vault /\ rows'[p] = RowOf(n)
      /\ \A q \in Paths \ {p} : rows'[q] = rows[q] /\ gone'[q] = gone[q]
  BY <1>1, <1>3 DEF Push, ArmTypeOK
<1>5. rows'[p] # NoRow => vault'[p] # NoFile BY <1>3, <1>4 DEF RowOf, Live
<1>6. Removals' BY <1>1, <1>4, <1>5 DEF Removals
<1>7. vault[p] = NoFile => gone[p] # "none"
  BY <1>1 DEF Push, MayPush, RowHolds, Removals
<1>8. "none" \notin unasked' BY <1>1, <1>7 DEF Push, DeletionsAreExplained
<1> QED BY <1>6, <1>8

\* Every file that is missing under its row has been accounted for.
LEMMA RemovalsKept == ASSUME ArmInv, [ArmNext]_armVars PROVE Removals' /\ "none" \notin unasked'
<1>0. ArmTypeOK /\ Materialised /\ Removals /\ DeletionsAreExplained BY DEF ArmInv
<1>1. CASE UNCHANGED <<rows, vault, history>> BY <1>0, <1>1 DEF Removals, DeletionsAreExplained, history
<1>2. ASSUME NEW p \in Paths, NEW c \in Contents \cup {NoFile}, UserEdits(p, c)
      PROVE  Removals' /\ unasked' = unasked
  BY <1>0, <1>2 DEF UserEdits, Removals, ArmTypeOK, state
<1>3. CASE World
  BY <1>0, <1>1, <1>2, <1>3
     DEF World, OtherWrites, ChunksArrive, OtherChangesMarkers, ArmProbe, ArmIssue, ArmRevoke,
         StartDaemonOffline, StartSync, Negotiate, CheckTriggerUnread, Crash, outside, state,
         DeletionsAreExplained
<1>4. ASSUME NEW p \in Paths, CleanupLocalVault(p) PROVE Removals' /\ unasked' = unasked
  BY <1>0, <1>4 DEF CleanupLocalVault, Removals, ArmTypeOK, state
<1>5. ASSUME NEW p \in Paths, InstallPlanned(p) PROVE Removals' /\ unasked' = unasked
  <2>1. plan[p] \in Row BY <1>0, <1>5 DEF InstallPlanned, Materialised, ArmTypeOK
  <2>2. plan[p].content # NoFile BY <2>1, ArmAssumption DEF Row
  <2> QED BY <1>0, <1>5, <2>2 DEF InstallPlanned, Removals, ArmTypeOK, state
<1>6. ASSUME NEW p \in Paths, RecordPlanned(p) PROVE Removals' /\ unasked' = unasked
  BY <1>0, <1>6 DEF RecordPlanned, Removals, ArmTypeOK, outside, history
<1>7. CASE CleanupLocalState
  BY <1>0, <1>7 DEF CleanupLocalState, NoRows, Removals, DeletionsAreExplained, history
<1>8. ASSUME NEW p \in Paths, Reconcile(p) \/ SyncFile(p) PROVE Removals' /\ "none" \notin unasked'
  BY <1>0, <1>1, <1>8, PullRemovals, PushRemovals DEF Reconcile, SyncFile, DeletionsAreExplained
<1>9. CASE \/ AdmitDaemon \/ VerifySync \/ AutoArmProbe \/ CheckTrigger \/ PlanReadOnlyPull \/ AdmitForPull \/ SavePulled
           \/ ValidateSynchronization \/ IssueWriteGrant \/ CheckGrant \/ ValidateAdmissionAndGrant
           \/ SyncEnds \/ Fails
  BY <1>1, <1>9 DEF AdmitDaemon, VerifySync, AutoArmProbe, CheckTrigger, PlanReadOnlyPull,
              AdmitForPull, SavePulled,
     ValidateSynchronization, IssueWriteGrant, CheckGrant, ValidateAdmissionAndGrant, SyncEnds, Fails,
     outside, state
<1>10. CASE Works BY <1>0, <1>4, <1>5, <1>6, <1>7, <1>8, <1>9, <1>10 DEF Works, DeletionsAreExplained
<1>11. ASSUME NEW mode \in Modes, StartDaemon(mode) PROVE UNCHANGED <<rows, vault, history>>
  BY <1>11 DEF StartDaemon, Negotiate, Daemons, outside, state
<1>12. CASE UNCHANGED armVars BY <1>1, <1>12 DEF armVars, outside, state
<1> QED BY <1>1, <1>3, <1>10, <1>11, <1>12 DEF ArmNext

-----------------------------------------------------------------------------
(* The saved position *)

\* A step that moves neither the position nor a row keeps every note covered:
\* a note that is not beyond the position is the one that was there.
LEMMA CoveredNoteStays ==
 ASSUME ArmInv, [ArmNext]_armVars, checkpoint' = checkpoint,
        NEW p \in Paths, rows'[p] = rows[p], Live(remote[p])', remote'[p].rev <= checkpoint'
 PROVE  rows'[p] = [rev |-> remote'[p].rev, content |-> remote'[p].content]
<1>1. ArmTypeOK /\ Positions /\ CheckpointCovers BY DEF ArmInv
<1>2. remote'[p].rev = remote[p].rev /\ remote'[p].content = remote[p].content
  BY <1>1, KnownNotesStay DEF ArmTypeOK, Positions
<1> QED BY <1>1, <1>2 DEF CheckpointCovers, Live

\* What a reconciliation records is the note.
LEMMA ReconciledRow ==
 ASSUME ArmTypeOK, NEW p \in Paths, Pull(p) \/ Push(p)
 PROVE  /\ rows'[p] = RowOf(remote[p])'
        /\ \A q \in Paths \ {p} : rows'[q] = rows[q]
<1>1. CASE Pull(p) BY <1>1 DEF Pull, ArmTypeOK, RowOf, Live
<1>2. CASE Push(p) BY <1>2 DEF Push, ArmTypeOK, RowOf, Live
<1> QED BY <1>1, <1>2

\* No step moves the position past a note without its row, or a row away from it.
LEMMA CoversKept == ASSUME ArmInv, [ArmNext]_armVars PROVE CheckpointCovers'
<1> SUFFICES ASSUME NEW p \in Paths, Live(remote[p])', remote'[p].rev <= checkpoint'
             PROVE  rows'[p] = [rev |-> remote'[p].rev, content |-> remote'[p].content]
  BY DEF CheckpointCovers
<1>0. ArmTypeOK /\ Positions /\ Materialised /\ ArmTypeOK' /\ Positions'
  BY TypesKept, PositionsKept DEF ArmInv
<1>a. checkpoint' # 0
  <2>1. remote'[p].rev > 0 /\ remote'[p].rev \in Nat BY <1>0 DEF Positions, ArmTypeOK, Note
  <2> QED BY <2>1
<1>1. CASE UNCHANGED state BY <1>1, CoveredNoteStays DEF state
<1>2. CASE World
  BY <1>1, <1>2
     DEF World, OtherWrites, ChunksArrive, OtherChangesMarkers, UserEdits, ArmProbe, ArmIssue, ArmRevoke,
         StartDaemonOffline, StartSync, Negotiate, CheckTriggerUnread, Crash
<1>3. ASSUME NEW q \in Paths, RecordPlanned(q) PROVE FALSE
  BY <1>0, <1>3, <1>a DEF RecordPlanned, Materialised
<1>4. CASE CleanupLocalState BY <1>4, <1>a DEF CleanupLocalState
<1>5. CASE SavePulled
  <2>1. /\ remote' = remote /\ rows' = rows /\ remote[p].rev <= probed.seq
        /\ pc = "apply" /\ todo \cup fresh = {}
    BY <1>5 DEF SavePulled, outside
  <2>2. rows[p] = plan[p] /\ plan[p] = RowOf(remote[p]) BY <1>0, <2>1 DEF Materialised
  <2> QED BY <2>1, <2>2 DEF RowOf, Live
<1>6. ASSUME NEW q \in Paths, Reconcile(q) \/ SyncFile(q), Pull(q) \/ Push(q)
      PROVE  rows'[p] = [rev |-> remote'[p].rev, content |-> remote'[p].content]
  <2>1. checkpoint' = checkpoint BY <1>6 DEF Reconcile, SyncFile
  <2>2. CASE p = q BY <1>0, <1>6, <2>2, ReconciledRow DEF RowOf, Live
  <2>3. CASE p # q BY <1>0, <1>6, <2>1, <2>3, ReconciledRow, CoveredNoteStays
  <2> QED BY <2>2, <2>3
<1>7. ASSUME NEW q \in Paths, Reconcile(q) \/ SyncFile(q)
      PROVE  (Pull(q) \/ Push(q)) \/ UNCHANGED state
  BY <1>7 DEF Reconcile, SyncFile, state
<1>8. ASSUME NEW q \in Paths, CleanupLocalVault(q) \/ InstallPlanned(q) PROVE UNCHANGED state
  BY <1>8 DEF CleanupLocalVault, InstallPlanned
<1>9. CASE \/ AdmitDaemon \/ VerifySync \/ AutoArmProbe \/ CheckTrigger \/ PlanReadOnlyPull \/ AdmitForPull
           \/ ValidateSynchronization \/ IssueWriteGrant \/ CheckGrant \/ ValidateAdmissionAndGrant
           \/ SyncEnds \/ Fails
  BY <1>1, <1>9 DEF AdmitDaemon, VerifySync, AutoArmProbe, CheckTrigger, PlanReadOnlyPull, AdmitForPull,
     ValidateSynchronization, IssueWriteGrant, CheckGrant, ValidateAdmissionAndGrant, SyncEnds, Fails
<1>10. CASE Works BY <1>1, <1>3, <1>4, <1>5, <1>6, <1>7, <1>8, <1>9, <1>10 DEF Works
<1>11. ASSUME NEW mode \in Modes, StartDaemon(mode) PROVE UNCHANGED state BY <1>11 DEF StartDaemon,
              Negotiate
<1>12. CASE UNCHANGED armVars BY <1>1, <1>12 DEF armVars
<1> QED BY <1>1, <1>2, <1>10, <1>11, <1>12 DEF ArmNext

-----------------------------------------------------------------------------
(* The theorems *)

\* The invariant holds before the first command.
LEMMA ArmStarts == ASSUME ArmInit PROVE ArmInv
<1>1. Absent \in Note /\ Present \in Note BY ArmAssumption DEF Absent, Present, Note
<1>2. PICK last \in Paths : remote[last] = Present BY DEF ArmInit
<1>3. \A p \in Paths : remote[p] \in {Absent, Present} BY DEF ArmInit
<1>4. Absent.rev = 0 /\ Present.rev = 1 /\ ~Live(Absent) BY DEF Absent, Present, Live
<1>5. remote \in [Paths -> Note] BY <1>1 DEF ArmInit
<1>6. Open \in MarkerSets BY DEF MarkerSets
<1>7. ArmTypeOK
  <2>1. issued \in Seq(Bindings) /\ active \in 0..Len(issued) /\ cap \in 0..Len(issued) BY DEF ArmInit
  <2>2. rows \in [Paths -> Row \cup {NoRow}] /\ plan \in [Paths -> Row \cup {NoRow}]
        /\ probed \in [seq : Nat, binding : Bindings \cup {NoBinding}]
    BY DEF ArmInit, NoRows, NothingProbed
  <2>3. events \in 0..MaxEvents BY ArmAssumption DEF ArmInit
  <2> QED BY <1>5, <1>6, <2>1, <2>2, <2>3 DEF ArmInit, ArmTypeOK, Starting, Steps
<1>8. Positions BY <1>2, <1>3, <1>4 DEF ArmInit, Positions, NothingProbed
<1>9. Admissions /\ Materialised /\ Removals /\ WritesMatchTheRemote /\ DeletionsAreExplained
  BY DEF ArmInit, NoRows, Admissions, Starting, Bound, Materialised, Removals,
         WritesMatchTheRemote, DeletionsAreExplained
<1>10. CheckpointCovers BY <1>3, <1>4 DEF ArmInit, CheckpointCovers
<1> QED BY <1>7, <1>8, <1>9, <1>10 DEF ArmInv

\* Every step keeps the invariant.
LEMMA ArmSteps == ASSUME ArmInv, [ArmNext]_armVars PROVE ArmInv'
<1>1. DeletionsAreExplained' BY RemovalsKept DEF DeletionsAreExplained
<1> QED BY <1>1, TypesKept, PositionsKept, AdmissionsKept, MaterialisedKept, RemovalsKept, WritesMatchKept,
           CoversKept DEF ArmInv

\* The inductive invariant holds of every run of the commands.
THEOREM ArmInvHolds == ArmSpec => []ArmInv
BY ArmStarts, ArmSteps, PTL DEF ArmSpec

\* Every variable keeps its type: in particular a grant that is active or held
\* is one that was issued.
THEOREM ArmTypeCorrect == ArmSpec => []ArmTypeOK
<1>1. ArmInv => ArmTypeOK BY DEF ArmInv
<1> QED BY <1>1, ArmInvHolds, PTL

\* A process that can write is bound to the markers the remote has now, unless
\* the admission and the remote have differed since it began.
THEOREM WritesAreBound == ArmSpec => []WritesMatchTheRemote
<1>1. ArmInv => WritesMatchTheRemote BY DEF ArmInv
<1> QED BY <1>1, ArmInvHolds, PTL

\* No deletion is pushed for a file that was installed or pushed last.
THEOREM TombstonesAreExplained == ArmSpec => []DeletionsAreExplained
<1>1. ArmInv => DeletionsAreExplained BY DEF ArmInv
<1> QED BY <1>1, ArmInvHolds, PTL

\* Behind the saved position no note is missing from the rows, whatever crash
\* cut the wipe, the materialisation or the saving short.
THEOREM ArmSkipsNothing == ArmSpec => []CheckpointCovers
<1>1. ArmInv => CheckpointCovers BY DEF ArmInv
<1> QED BY <1>1, ArmInvHolds, PTL
==============================================================================
