--------------------------- MODULE FileReconciler ---------------------------
(***************************************************************************)
(* Reconciliation of one synced file (src/src/daemon/file-reconciler.ts)   *)
(* with the writes it makes: the vault file (installAtomically), the       *)
(* quarantine (quarantineVaultFile), the remote note (PushAdapter,         *)
(* DeletionWriter) and the provenance row (ProvenanceRepository).          *)
(*                                                                         *)
(* Between any two awaits of a run the user edits the file, other clients  *)
(* write the note, the process dies, and the run that the worker pool      *)
(* started under the other key of the same file (the vault path for local  *)
(* events, the document id for feed rows) does its own steps.              *)
(*                                                                         *)
(* A revision is its number in the history of the note; contents stand     *)
(* for themselves and for their hash.                                      *)
(***************************************************************************)
EXTENDS Naturals, Sequences

CONSTANTS
  Texts,       \* contents that are UTF-8 text
  Binaries,    \* contents that are not
  Empty,       \* the text of no bytes
  Absent,      \* no file
  Vanished,    \* a file that was there for stat() and gone for readFile()
  Garbled,     \* a note that cannot be decoded
  NoProv,      \* no provenance row
  Keys,        \* pool keys of the file: "path", and "docId" unless it is the same string
  EncryptedPaths,   \* paths in documents are obfuscated
  ReadOnly,    \* no write permission or no capability
  MaxEdits, MaxWrites, MaxFaults,   \* bounds on user edits, other clients' writes, faults
  MaxRevs      \* bound on the revisions the daemon adds to

Contents == Texts \cup Binaries

ASSUME FileAssumption ==
  /\ Empty \in Texts
  /\ Texts \cap Binaries = {}
  /\ Absent \notin Contents /\ Vanished \notin Contents \cup {Absent}
  /\ Garbled \notin Contents
  /\ Keys \in {{"path"}, {"path", "docId"}}
  /\ EncryptedPaths \in BOOLEAN /\ ReadOnly \in BOOLEAN
  /\ EncryptedPaths => "docId" \in Keys
  /\ MaxEdits \in Nat /\ MaxWrites \in Nat /\ MaxFaults \in Nat /\ MaxRevs \in Nat

VARIABLES
  local,     \* the vault file
  docs,      \* the revisions of the note, oldest first
  prov,      \* its provenance row
  kept,      \* contents in conflict copies and in the quarantine
  hint,      \* the worker pool's hint of each key
  run        \* the reconciliation in progress under each key

VARIABLES
  reflected,   \* history: revisions whose content was the vault file's
  lost,        \* history: contents destroyed that the run had read
  edits, writes, ownWrites, faults   \* counts, also the bounds of the actions

histVars == <<reflected, lost>>
countVars == <<edits, writes, ownWrites, faults>>
fileVars == <<local, docs, prov, kept, hint, run, histVars, countVars>>

Provenance == [rev : Nat, content : Contents]
Revision == [content : Contents \cup {Garbled}, deleted : BOOLEAN]
Steps == {"idle", "stat", "read", "put", "record", "tombstone", "forget", "pull", "pulled",
          "quarantine", "unlink", "copy", "overwrite"}

\* rev: the remote revision read (0: none, or not decodable), or written;
\* seen: the provenance read; bytes: the file read; at: edits when it was read.
Run == [step : Steps, rev : Nat, seen : Provenance \cup {NoProv},
        bytes : Contents \cup {Absent, Vanished}, at : Nat]
Idle == [step |-> "idle", rev |-> 0, seen |-> NoProv, bytes |-> Absent, at |-> 0]

Current == Len(docs)
Live(rev) == rev # 0 /\ ~docs[rev].deleted
Tombstone(rev) == rev # 0 /\ docs[rev].deleted

FileInit ==
  /\ local = Absent /\ docs = <<>> /\ prov = NoProv /\ kept = {}
  /\ hint = [k \in Keys |-> "none"]
  /\ run = [k \in Keys |-> Idle]
  /\ reflected = {} /\ lost = {}
  /\ edits = 0 /\ writes = 0 /\ ownWrites = 0 /\ faults = 0

-----------------------------------------------------------------------------
(* Hints *)

\* A change of the vault file, by anyone, comes back as a watcher event under
\* the path; a change of the note, by anyone, as a feed row under the id.
LocalHint == [hint EXCEPT !["path"] = "owed"]
RemoteKey == IF "docId" \in Keys THEN "docId" ELSE "path"
RemoteHint == [hint EXCEPT ![RemoteKey] = "owed"]

UserEdits(c) ==
  /\ edits < MaxEdits /\ local # c
  /\ edits' = edits + 1
  /\ local' = c
  /\ hint' = LocalHint
  /\ UNCHANGED <<docs, prov, kept, run, histVars, writes, ownWrites, faults>>

\* Another client writes or deletes the note; a note whose chunks are missing
\* cannot be decoded.
OtherWrites(revision) ==
  /\ writes < MaxWrites
  /\ revision.deleted => revision.content = Empty
  /\ writes' = writes + 1
  /\ docs' = Append(docs, revision)
  /\ hint' = RemoteHint
  /\ UNCHANGED <<local, prov, kept, run, histVars, edits, ownWrites, faults>>

-----------------------------------------------------------------------------
(* How a run goes on and ends *)

Goes(k, step) == run' = [run EXCEPT ![k].step = step]
Ends(k) == run' = [run EXCEPT ![k] = Idle]

\* The pool leaves the loop of a run that throws without serving the hint that
\* arrived meanwhile.
Throws(k) ==
  /\ Ends(k)
  /\ hint' = [hint EXCEPT ![k] = IF @ = "owed" THEN "stranded" ELSE @]

\* What the vault loses when the file becomes c under a run that read it after
\* its last edit: its content, unless it is in the note's history, kept, or still
\* there.  An edit made after the run read the file is not protected at all.
Loses(k, c) ==
  LET safe == kept \cup {c} \cup {docs[r].content : r \in DOMAIN docs}
      gone == {local} \cap (Contents \ safe)
  IN lost' = IF edits = run[k].at THEN lost \cup gone ELSE lost

-----------------------------------------------------------------------------
(* reconcile(): reads *)

\* Mutant of Fetch: the document may come from a cache.
FetchCached(k) ==
  /\ run[k].step = "idle" /\ hint[k] = "owed"
  /\ hint' = [hint EXCEPT ![k] = "none"]
  /\ \E rev \in 0 .. Current :
       /\ rev # 0 => docs[rev].content # Garbled
       /\ run' = [run EXCEPT ![k] = [Idle EXCEPT !.step = "stat", !.rev = rev]]
  /\ UNCHANGED <<local, docs, prov, kept, histVars, countVars>>

\* The remote document is fetched.  A note that does not decode counts as none,
\* and a tombstone with an encrypted path is looked for in the vault under the
\* ciphertext, where nothing is.
Fetch(k) ==
  /\ run[k].step = "idle" /\ hint[k] = "owed"
  /\ hint' = [hint EXCEPT ![k] = "none"]
  /\ LET rev == IF Current = 0 \/ docs[Current].content = Garbled THEN 0 ELSE Current
         elsewhere == (rev = 0 /\ k = "docId") \/ (Tombstone(rev) /\ EncryptedPaths)
     IN run' = [run EXCEPT ![k] = IF elsewhere THEN Idle ELSE [Idle EXCEPT !.step = "stat", !.rev = rev]]
  /\ UNCHANGED <<local, docs, prov, kept, histVars, countVars>>

\* getByPath() and stat().  Of a missing file there is nothing to read.
Stat(k) ==
  /\ run[k].step = "stat"
  /\ run' = [run EXCEPT ![k].step = "read", ![k].seen = prov, ![k].at = edits,
                        ![k].bytes = IF local = Absent THEN Absent ELSE Vanished]
  /\ UNCHANGED <<local, docs, prov, kept, hint, histVars, countVars>>

\* What readFile() returns after a stat() that found a file, or none.
ReadBytes(k) ==
  IF run[k].bytes = Absent THEN Absent ELSE IF local = Absent THEN Vanished ELSE local

\* The next step of a run that read the remote revision rev, the provenance p
\* and the bytes b, different from those of the revision; "idle" is the end.  A
\* conflict does nothing when the remote has no bytes or the local ones are gone.
Decision(rev, p, b) ==
  LET remoteMatches == p # NoProv /\ p.rev = rev
      localMatches  == p # NoProv /\ p.content = b
  IN CASE b # Absent /\ Live(rev) /\ remoteMatches /\ ~localMatches -> "put"
       [] b # Absent /\ Live(rev) /\ ~remoteMatches /\ localMatches -> "pull"
       [] b # Absent /\ Live(rev) /\ remoteMatches = localMatches
            /\ docs[rev].content # Empty /\ b # Vanished -> "copy"
       [] b # Absent /\ ~Live(rev) /\ (p = NoProv \/ rev = 0) -> "put"
       [] b # Absent /\ Tombstone(rev) /\ localMatches -> "quarantine"
       [] b = Absent /\ Live(rev) /\ remoteMatches -> "tombstone"
       [] b = Absent /\ Live(rev) /\ ~remoteMatches -> "pull"
       [] OTHER -> "idle"

\* readFile() and everything up to the next await: equal contents only renew
\* the row, a file missing on both sides loses it, and a push is skipped without
\* write permission.
Decide(k) ==
  /\ run[k].step = "read"
  /\ LET rev  == run[k].rev
         b    == ReadBytes(k)
         next == Decision(rev, run[k].seen, b)
         read == [run[k] EXCEPT !.step = next, !.bytes = b,
                                !.at = IF b = Absent THEN @ ELSE edits]
     IN
       \/ /\ Live(rev) /\ docs[rev].content = b
          /\ prov' = [rev |-> rev, content |-> b]
          /\ reflected' = reflected \cup {rev}
          /\ Ends(k)
       \/ /\ ~(Live(rev) /\ docs[rev].content = b)
          /\ prov' = IF b = Absent /\ ~Live(rev) THEN NoProv ELSE prov
          /\ UNCHANGED reflected
          /\ IF next = "idle" \/ (ReadOnly /\ next \in {"put", "tombstone"})
             THEN Ends(k)
             ELSE run' = [run EXCEPT ![k] = read]
  /\ UNCHANGED <<local, docs, kept, hint, lost, countVars>>

\* The remote read fails: reconcile() throws.  A failed stat() or readFile() is
\* only reported.
ReadFails(k) ==
  /\ faults < MaxFaults /\ run[k].step \in {"stat", "read"}
  /\ \/ run[k].step = "stat" /\ Throws(k)
     \/ Ends(k) /\ UNCHANGED hint
  /\ faults' = faults + 1
  /\ UNCHANGED <<local, docs, prov, kept, histVars, edits, writes, ownWrites>>

-----------------------------------------------------------------------------
(* executePull *)

\* Mutant of Install: the row is saved before the file.
InstallAfterRow(k) ==
  LET row == [rev |-> run[k].rev, content |-> docs[run[k].rev].content] IN
  /\ run[k].step = "pull"
  /\ IF prov # row
     THEN prov' = row /\ UNCHANGED <<local, hint, run, histVars>>
     ELSE /\ local' = row.content
          /\ Loses(k, local')
          /\ reflected' = reflected \cup {run[k].rev}
          /\ Goes(k, "pulled")
          /\ hint' = IF local' = local THEN hint ELSE LocalHint
          /\ UNCHANGED prov
  /\ UNCHANGED <<docs, kept, countVars>>

\* installAtomically: the temporary file is renamed over whatever is there.
Install(k) ==
  /\ run[k].step = "pull"
  /\ local' = docs[run[k].rev].content
  /\ Loses(k, local')
  /\ reflected' = reflected \cup {run[k].rev}
  /\ Goes(k, "pulled")
  /\ hint' = IF local' = local THEN hint ELSE LocalHint
  /\ UNCHANGED <<docs, prov, kept, countVars>>

\* Mutant of RecordPull: the row takes whatever the read-back finds.
RecordPullUnchecked(k) ==
  /\ run[k].step = "pulled" /\ local # Absent
  /\ prov' = [rev |-> run[k].rev, content |-> local]
  /\ Ends(k)
  /\ UNCHANGED <<local, docs, kept, hint, histVars, countVars>>

\* The read-back, and the row when it agrees.
RecordPull(k) ==
  /\ run[k].step = "pulled"
  /\ prov' = IF local = docs[run[k].rev].content
             THEN [rev |-> run[k].rev, content |-> local] ELSE prov
  /\ Ends(k)
  /\ UNCHANGED <<local, docs, kept, hint, histVars, countVars>>

-----------------------------------------------------------------------------
(* executePullDelete *)

\* quarantineVaultFile reads the file again and keeps a copy; it fails when the
\* file is gone.
Quarantine(k) ==
  /\ run[k].step = "quarantine"
  /\ IF local = Absent THEN Ends(k) /\ UNCHANGED kept
     ELSE kept' = kept \cup {local} /\ Goes(k, "unlink")
  /\ UNCHANGED <<local, docs, prov, hint, histVars, countVars>>

\* It unlinks whatever is there by now.
Unlink(k) ==
  /\ run[k].step = "unlink"
  /\ IF local = Absent THEN Ends(k) /\ UNCHANGED hint
     ELSE Goes(k, "forget") /\ hint' = LocalHint
  /\ local' = Absent
  /\ Loses(k, Absent)
  /\ UNCHANGED <<docs, prov, kept, reflected, countVars>>

\* deleteProvenance, after a local or a remote deletion.
Forget(k) ==
  /\ run[k].step = "forget"
  /\ prov' = NoProv
  /\ Ends(k)
  /\ UNCHANGED <<local, docs, kept, hint, histVars, countVars>>

-----------------------------------------------------------------------------
(* executePushCreate, executePushUpdate, executePushDelete *)

\* Mutant of Extends: a write needs no base revision.
ExtendsAnything(base) == base \in Nat

\* CouchDB accepts a revision only on top of the current one.
Extends(base) == base = Current

\* What pushFile stores: the bytes go through a text decoder, and the size of
\* the original no longer matches what is stored of a binary file.
Stored(b) == IF b \in Texts THEN b ELSE Garbled

\* pushFile uploads the chunks and then the note, on top of the provenance
\* revision or as a new document.  It throws for a file that vanished.
Put(k) ==
  /\ run[k].step = "put" /\ Current < MaxRevs
  /\ LET base == IF Live(run[k].rev) THEN run[k].seen.rev ELSE 0 IN
     CASE run[k].bytes = Vanished ->
            Throws(k) /\ UNCHANGED <<docs, reflected, ownWrites>>
       [] run[k].bytes # Vanished /\ ~Extends(base) ->
            Ends(k) /\ UNCHANGED <<docs, reflected, ownWrites, hint>>
       [] run[k].bytes # Vanished /\ Extends(base) ->
            /\ docs' = Append(docs, [content |-> Stored(run[k].bytes), deleted |-> FALSE])
            /\ ownWrites' = ownWrites + 1
            /\ reflected' = reflected \cup {Current + 1}
            /\ run' = [run EXCEPT ![k].step = "record", ![k].rev = Current + 1]
            /\ hint' = RemoteHint
  /\ UNCHANGED <<local, prov, kept, lost, edits, writes, faults>>

\* Mutant of RecordPut: the revision that a next push would create.
RecordPutNext(k) ==
  /\ run[k].step = "record"
  /\ prov' = [rev |-> run[k].rev + 1, content |-> run[k].bytes]
  /\ Ends(k)
  /\ UNCHANGED <<local, docs, kept, hint, histVars, countVars>>

\* The answer arrives and the new revision is recorded with the bytes pushed.
RecordPut(k) ==
  /\ run[k].step = "record"
  /\ prov' = [rev |-> run[k].rev, content |-> run[k].bytes]
  /\ Ends(k)
  /\ UNCHANGED <<local, docs, kept, hint, histVars, countVars>>

\* writeDeletion puts a tombstone on top of the provenance revision.
PutTombstone(k) ==
  /\ run[k].step = "tombstone" /\ Current < MaxRevs
  /\ IF Extends(run[k].seen.rev)
     THEN /\ docs' = Append(docs, [content |-> Empty, deleted |-> TRUE])
          /\ ownWrites' = ownWrites + 1
          /\ reflected' = reflected \cup {Current + 1}
          /\ Goes(k, "forget")
          /\ hint' = RemoteHint
     ELSE Ends(k) /\ UNCHANGED <<docs, ownWrites, reflected, hint>>
  /\ UNCHANGED <<local, prov, kept, lost, edits, writes, faults>>

-----------------------------------------------------------------------------
(* handleConflict *)

\* Mutant of Copy: a copy that was not written counts as written.
CopyUnwritten(k) ==
  /\ run[k].step = "copy"
  /\ Goes(k, "overwrite")
  /\ UNCHANGED <<local, docs, prov, kept, hint, histVars, countVars>>

\* Mutant of Copy: the conflict is left with the copy written.
CopyOnly(k) ==
  /\ run[k].step = "copy"
  /\ kept' = kept \cup {run[k].bytes}
  /\ Ends(k)
  /\ UNCHANGED <<local, docs, prov, hint, histVars, countVars>>

\* The bytes read are installed under a new name.
Copy(k) ==
  /\ run[k].step = "copy"
  /\ kept' = kept \cup {run[k].bytes}
  /\ Goes(k, "overwrite")
  /\ UNCHANGED <<local, docs, prov, hint, histVars, countVars>>

\* The remote bytes are installed under the file's name.  The row stays.
Overwrite(k) ==
  /\ run[k].step = "overwrite"
  /\ local' = docs[run[k].rev].content
  /\ Loses(k, local')
  /\ reflected' = reflected \cup {run[k].rev}
  /\ hint' = IF local' = local THEN hint ELSE LocalHint
  /\ Ends(k)
  /\ UNCHANGED <<docs, prov, kept, countVars>>

-----------------------------------------------------------------------------
(* Faults *)

\* A file operation or a request before it reached the server fails.  The push
\* adapters throw on a lost connection, the rest is caught.
StepFails(k) ==
  /\ faults < MaxFaults
  /\ run[k].step \in {"pull", "quarantine", "unlink", "put", "tombstone", "copy", "overwrite"}
  /\ IF run[k].step \in {"put", "tombstone"} THEN Throws(k) ELSE Ends(k) /\ UNCHANGED hint
  /\ faults' = faults + 1
  /\ UNCHANGED <<local, docs, prov, kept, histVars, edits, writes, ownWrites>>

\* The answer to a write that CouchDB accepted is lost.
AnswerLost(k) ==
  /\ faults < MaxFaults
  /\ run[k].step = "record" \/ (run[k].step = "forget" /\ Live(run[k].rev))
  /\ Throws(k)
  /\ faults' = faults + 1
  /\ UNCHANGED <<local, docs, prov, kept, histVars, edits, writes, ownWrites>>

\* The process dies; the next one hears of the file again.
Crash ==
  /\ faults < MaxFaults
  /\ run' = [k \in Keys |-> Idle]
  /\ hint' = [k \in Keys |-> "owed"]
  /\ faults' = faults + 1
  /\ UNCHANGED <<local, docs, prov, kept, histVars, edits, writes, ownWrites>>

RunNext(k) ==
  \/ Fetch(k) \/ Stat(k) \/ Decide(k)
  \/ Install(k) \/ RecordPull(k)
  \/ Quarantine(k) \/ Unlink(k) \/ Forget(k)
  \/ Put(k) \/ RecordPut(k) \/ PutTombstone(k)
  \/ Copy(k) \/ Overwrite(k)

FileNext ==
  \/ \E c \in Contents \cup {Absent} : UserEdits(c)
  \/ \E revision \in Revision : OtherWrites(revision)
  \/ \E k \in Keys : RunNext(k) \/ ReadFails(k) \/ StepFails(k) \/ AnswerLost(k)
  \/ Crash

FileSpec == FileInit /\ [][FileNext]_fileVars

\* Every await of a run settles, and the pool starts a run for a hint.
FairFileSpec == FileSpec /\ \A k \in Keys : WF_fileVars(RunNext(k))

-----------------------------------------------------------------------------
(* Properties *)

\* The rows and files hold values of their types, and a provenance row names a
\* revision of the note (provenance-repo.ts:15-41).
FileTypeOK ==
  /\ local \in Contents \cup {Absent}
  /\ docs \in Seq(Revision)
  /\ prov \in Provenance \cup {NoProv}
  /\ prov # NoProv => prov.rev \in DOMAIN docs
  /\ kept \subseteq Contents
  /\ hint \in [Keys -> {"none", "owed", "stranded"}]
  /\ run \in [Keys -> Run]
  /\ \A k \in Keys : run[k].rev \in 0 .. Current
  /\ reflected \subseteq DOMAIN docs
  /\ lost \subseteq Contents
  /\ edits \in 0 .. MaxEdits /\ writes \in 0 .. MaxWrites /\ faults \in 0 .. MaxFaults
  /\ ownWrites \in Nat

\* The provenance row pairs a live revision with exactly the bytes that
\* revision stores (or, of a binary file, that a push makes of them), whatever
\* edits, other runs and crashes come between the read, the write and the row
\* (file-reconciler.ts:181, 362, 452, 505).
ProvenanceSound ==
  prov # NoProv =>
    /\ ~docs[prov.rev].deleted
    /\ docs[prov.rev].content \in {prov.content, Stored(prov.content)}

\* A revision is overwritten or deleted remotely only after its content was in
\* the vault: no change of another client is discarded unseen, and no file
\* that never arrived is taken for one the user deleted, also across a crash
\* (file-reconciler.ts:196-198, 234-236).
SupersedesReflected ==
  [][ownWrites' > ownWrites /\ Current > 0 => Current \in reflected]_fileVars

\* No run destroys bytes it has read unless they are in the note's history, in
\* a conflict copy or in the quarantine (file-reconciler.ts:199-204, 215-220).
NothingReadIsLost == lost = {}

\* Under one key, every revision the daemon writes answers an edit of the user:
\* lost answers, retries and crashes duplicate none (file-reconciler.ts:412-515).
NoDuplicateRevisions == ownWrites <= edits

\* Under one key, no run puts a revision into the vault that is older than the
\* one recorded there (file-reconciler.ts:193-206, 229-241).
InstallsForward ==
  [][\A k \in Keys :
       run[k].step \in {"pull", "overwrite"} /\ run'[k].step # run[k].step /\ local' # local =>
         prov = NoProv \/ prov.rev <= run[k].rev]_fileVars

\* The file and the note agree.
InSync ==
  local = IF Current # 0 /\ ~docs[Current].deleted THEN docs[Current].content ELSE Absent

\* The states the reconciler does not get out of by itself: the note does not
\* decode; it is a tombstone and the file is not the one the row knows, so that
\* every push lacks the base revision and is refused; the remote has no bytes
\* and conflicts with the file; or a run that threw left its hint behind.
Undecodable == Current # 0 /\ docs[Current].content = Garbled
Recreated == Tombstone(Current) /\ local # Absent /\ (prov = NoProv \/ prov.content # local)
EmptyConflict ==
  /\ Live(Current) /\ docs[Current].content = Empty /\ local # Absent
  /\ prov = NoProv \/ (prov.rev # Current /\ prov.content # local)
Stranded == \E k \in Keys : hint[k] = "stranded"
Stuck == Undecodable \/ Recreated \/ EmptyConflict \/ Stranded

\* When the users rest and no request fails, the hints of the last changes
\* alone bring file and note together, although a push that lost a race and a
\* pull that lost the file under it are not retried.
Converges == <>[](InSync \/ Stuck \/ faults > 0)
=============================================================================
