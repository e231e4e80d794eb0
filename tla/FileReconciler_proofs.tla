----------------------- MODULE FileReconciler_proofs -----------------------
(***************************************************************************)
(* The row says the truth, no revision is superseded unseen and nothing    *)
(* read is lost, for any contents, any number of edits, writers' revisions *)
(* and faults, and for one run of the file at a time as for two.  With one *)
(* run at a time, no revision is written twice and no older one installed. *)
(***************************************************************************)
EXTENDS FileReconciler, TLAPS

\* A row, stored or read by a run: its revision was in the vault, and holds its
\* content.
Sound(p) ==
  p # NoProv =>
    /\ p.rev \in reflected /\ p.rev \in DOMAIN docs
    /\ ~docs[p.rev].deleted
    /\ docs[p.rev].content \in {p.content, Stored(p.content)}

\* What a run knows between two awaits.
Readable(r) == r.step \in {"stat", "read"} /\ r.rev # 0 => docs[r.rev].content # Garbled
Pulls(r) ==
  r.step \in {"pull", "pulled", "copy", "overwrite"} =>
    Live(r.rev) /\ docs[r.rev].content \in Contents
Pulled(r) == r.step = "pulled" => r.rev \in reflected
Pushes(r) ==
  /\ r.step = "put" => r.bytes # Absent
  /\ (r.step = "put" /\ Live(r.rev)) \/ r.step = "tombstone" =>
       r.seen # NoProv /\ r.seen.rev = r.rev
Copies(r) == r.step = "copy" => r.bytes \in Contents
Pushed(r) ==
  r.step = "record" =>
    /\ r.rev \in reflected /\ Live(r.rev)
    /\ r.bytes \in Contents /\ docs[r.rev].content = Stored(r.bytes)
RunOK(r) ==
  /\ r \in Run /\ r.rev \in 0 .. Len(docs)
  /\ Sound(r.seen)
  /\ Readable(r) /\ Pulls(r) /\ Pulled(r) /\ Pushes(r) /\ Copies(r) /\ Pushed(r)

RowInv == FileTypeOK /\ Sound(prov) /\ \A k \in Keys : RunOK(run[k])

\* Other clients and the daemon only add to the history of the note.
Grows ==
  /\ docs \in Seq(Revision) /\ docs' \in Seq(Revision)
  /\ Len(docs) <= Len(docs') /\ \A i \in 1 .. Len(docs) : docs'[i] = docs[i]
  /\ reflected \subseteq reflected'

LEMMA GrowsByOne ==
  ASSUME docs \in Seq(Revision), NEW v \in Revision, docs' = Append(docs, v),
         reflected \subseteq reflected'
  PROVE  Grows /\ Len(docs') = Len(docs) + 1 /\ docs'[Len(docs) + 1] = v
BY DEF Grows

LEMMA GrowsNot ==
  ASSUME docs \in Seq(Revision), docs' = docs, reflected \subseteq reflected'
  PROVE  Grows
BY DEF Grows

\* What is known of a row stays true as the history grows.
LEMMA StaysSound ==
  ASSUME Grows, NEW p, Sound(p)
  PROVE  Sound(p)'
<1> SUFFICES ASSUME p # NoProv
             PROVE  /\ p.rev \in reflected' /\ p.rev \in DOMAIN docs'
                    /\ ~docs'[p.rev].deleted
                    /\ docs'[p.rev].content \in {p.content, Stored(p.content)}
  BY DEF Sound, Stored
<1>1. p.rev \in 1 .. Len(docs) /\ p.rev \in reflected
  BY DEF Sound, Grows
<1>2. DOMAIN docs' = 1 .. Len(docs') /\ Len(docs) \in Nat /\ Len(docs') \in Nat
  BY DEF Grows
<1>3. docs'[p.rev] = docs[p.rev] /\ p.rev \in DOMAIN docs'
  BY <1>1, <1>2 DEF Grows
<1> QED
  BY <1>1, <1>3 DEF Sound, Grows

\* And so does what is known of a run that does nothing.
LEMMA StaysOK ==
  ASSUME Grows, NEW r, RunOK(r)
  PROVE  RunOK(r)'
<1>1. r \in Run /\ r.rev \in 0 .. Len(docs) /\ Len(docs) \in Nat /\ Len(docs') \in Nat
  BY DEF RunOK, Grows
<1>2. r.rev \in 0 .. Len(docs') /\ (r.rev # 0 => docs'[r.rev] = docs[r.rev])
  BY <1>1 DEF Grows
<1>3. Sound(r.seen)'
  BY StaysSound DEF RunOK
<1>4. Live(r.rev)' <=> Live(r.rev)
  BY <1>2 DEF Live
<1>5. Readable(r)' /\ Pulled(r)' /\ Copies(r)'
  BY <1>2 DEF RunOK, Readable, Pulled, Copies, Grows
<1>6. Pulls(r)'
  BY <1>2, <1>4 DEF RunOK, Pulls, Live
<1>7. Pushes(r)'
  BY <1>4 DEF RunOK, Pushes
<1>8. Pushed(r)'
  BY <1>2, <1>4 DEF RunOK, Pushed, Grows, Live, Stored
<1> QED
  BY <1>1, <1>2, <1>3, <1>5, <1>6, <1>7, <1>8 DEF RunOK

\* One run goes on to what is known of it, and the others stay.
LEMMA OneGoesOn ==
  ASSUME RowInv, Grows, NEW k \in Keys, NEW r, RunOK(r)', run' = [run EXCEPT ![k] = r]
  PROVE  /\ \A j \in Keys : RunOK(run[j])'
         /\ (run \in [Keys -> Run])' /\ (\A j \in Keys : run[j].rev \in 0 .. Current)'
<1>1. run \in [Keys -> Run]
  BY DEF RowInv, FileTypeOK
<1>2. \A j \in Keys : run'[j] = IF j = k THEN r ELSE run[j]
  BY <1>1
<1>3. ASSUME NEW j \in Keys PROVE RunOK(run[j])'
  <2>1. RunOK(run[j])
    BY DEF RowInv
  <2>2. CASE j = k
    <3>1. run'[j] = r
      BY <1>2, <2>2
    <3> QED
      BY <3>1 DEF RunOK, Sound, Readable, Pulls, Pulled, Pushes, Copies, Pushed, Live
  <2>3. CASE j # k
    <3> DEFINE q == run[j]
    <3>1. run'[j] = q
      BY <1>2, <2>3
    <3>2. PICK u : u = run[j]
      OBVIOUS
    <3>3. RunOK(u)
      BY <2>1, <3>2
    <3>4. RunOK(u)'
      BY <3>3, StaysOK
    <3>5. run'[j] = u
      BY <3>1, <3>2
    <3> QED
      BY <3>4, <3>5 DEF RunOK, Sound, Readable, Pulls, Pulled, Pushes, Copies, Pushed, Live
  <2> QED
    BY <2>2, <2>3
<1>4. (run \in [Keys -> Run])'
  BY <1>1, <1>3 DEF RunOK
<1>5. (\A j \in Keys : run[j].rev \in 0 .. Current)'
  BY <1>3 DEF RunOK, Current
<1> QED
  BY <1>3, <1>4, <1>5

\* The types of everything but the runs.
OthersTyped ==
  /\ local \in Contents \cup {Absent}
  /\ docs \in Seq(Revision)
  /\ prov \in Provenance \cup {NoProv}
  /\ kept \subseteq Contents
  /\ hint \in [Keys -> {"none", "owed", "stranded"}]
  /\ reflected \subseteq DOMAIN docs
  /\ lost \subseteq Contents
  /\ edits \in 0 .. MaxEdits /\ writes \in 0 .. MaxWrites /\ faults \in 0 .. MaxFaults
  /\ ownWrites \in Nat

LEMMA RowFacts ==
  ASSUME RowInv
  PROVE  /\ OthersTyped /\ Sound(prov) /\ run \in [Keys -> Run]
         /\ Current \in Nat /\ Current = Len(docs) /\ DOMAIN docs = 1 .. Current
         /\ \A i \in 1 .. Current : docs[i] \in Revision
<1>1. OthersTyped /\ Sound(prov) /\ run \in [Keys -> Run]
  BY DEF RowInv, FileTypeOK, OthersTyped
<1> QED
  BY <1>1 DEF OthersTyped, Current

\* What a step that moves one run has to show.
LEMMA OneRunStep ==
  ASSUME RowInv, Grows, NEW k \in Keys, NEW r, RunOK(r)', run' = [run EXCEPT ![k] = r],
         Sound(prov)', OthersTyped'
  PROVE  RowInv'
<1>1. /\ (\A j \in Keys : RunOK(run[j]))'
      /\ (run \in [Keys -> Run])' /\ (\A j \in Keys : run[j].rev \in 0 .. Current)'
  BY OneGoesOn
<1>2. (prov # NoProv => prov.rev \in DOMAIN docs)'
  BY DEF Sound
<1>3. FileTypeOK'
  BY <1>1, <1>2 DEF FileTypeOK, OthersTyped
<1> QED
  BY <1>1, <1>3 DEF RowInv

LEMMA AllStay ==
  ASSUME RowInv, Grows, run' = run, Sound(prov)', OthersTyped'
  PROVE  RowInv'
<1>1. ASSUME NEW j \in Keys PROVE RunOK(run[j])'
  <2>1. PICK u : u = run[j]
    OBVIOUS
  <2>2. RunOK(u)'
    BY <2>1, StaysOK DEF RowInv
  <2> QED
    BY <2>1, <2>2 DEF RunOK, Sound, Readable, Pulls, Pulled, Pushes, Copies, Pushed, Live
<1>2. (run \in [Keys -> Run])' /\ (\A j \in Keys : run[j].rev \in 0 .. Current)'
  BY <1>1 DEF RunOK, Current, RowInv, FileTypeOK
<1>3. (prov # NoProv => prov.rev \in DOMAIN docs)'
  BY DEF Sound
<1>4. FileTypeOK'
  BY <1>2, <1>3 DEF FileTypeOK, OthersTyped
<1> QED
  BY <1>1, <1>4 DEF RowInv

\* A run that is over knows nothing.
LEMMA IdleOK == ASSUME docs \in Seq(Revision) PROVE RunOK(Idle)
<1>1. Idle \in Run /\ Idle.rev \in 0 .. Len(docs)
  BY DEF Idle, Run, Steps
<1>2. Sound(Idle.seen)
  BY DEF Idle, Sound
<1> QED
  BY <1>1, <1>2 DEF RunOK, Idle, Readable, Pulls, Pulled, Pushes, Copies, Pushed, Live

LEMMA LosesType ==
  ASSUME lost \subseteq Contents, NEW k, NEW c, Loses(k, c)
  PROVE  lost' \subseteq Contents
BY DEF Loses

LEMMA HintsType ==
  ASSUME hint \in [Keys -> {"none", "owed", "stranded"}]
  PROVE  /\ LocalHint \in [Keys -> {"none", "owed", "stranded"}]
         /\ RemoteHint \in [Keys -> {"none", "owed", "stranded"}]
BY DEF LocalHint, RemoteHint

\* A row that is not written stays true.
LEMMA RowStays ==
  ASSUME Grows, Sound(prov), prov' = prov
  PROVE  Sound(prov)'
<1>1. PICK p : p = prov
  OBVIOUS
<1>2. Sound(p)'
  BY <1>1, StaysSound
<1> QED
  BY <1>1, <1>2 DEF Sound

LEMMA FileInit_Inv == FileInit => RowInv
<1> SUFFICES ASSUME FileInit PROVE RowInv
  OBVIOUS
<1>1. docs = <<>> /\ Len(docs) = 0 /\ docs \in Seq(Revision) /\ DOMAIN docs = {}
  BY DEF FileInit
<1>2. \A k \in Keys : run[k] = Idle
  BY DEF FileInit
<1>3. \A k \in Keys : RunOK(run[k])
  BY <1>1, <1>2, IdleOK
<1>4. Sound(prov)
  BY DEF FileInit, Sound
<1>5. run \in [Keys -> Run] /\ \A k \in Keys : run[k].rev \in 0 .. Current
  BY <1>3 DEF RunOK, Current, FileInit
<1>6. FileTypeOK
  BY <1>1, <1>5, FileAssumption DEF FileTypeOK, FileInit
<1> QED
  BY <1>3, <1>4, <1>6 DEF RowInv

-----------------------------------------------------------------------------
(* The users and the other clients *)

LEMMA UserEdits_Inv ==
  ASSUME RowInv, NEW c \in Contents \cup {Absent}, UserEdits(c)
  PROVE  RowInv'
<1>1. OthersTyped /\ Sound(prov)
  BY RowFacts
<1>2. Grows
  BY <1>1, GrowsNot DEF UserEdits, OthersTyped, histVars
<1>3. OthersTyped'
  BY <1>1, FileAssumption DEF UserEdits, OthersTyped, LocalHint, histVars
<1>4. Sound(prov)'
  BY <1>1 DEF UserEdits, Sound, histVars, Stored
<1> QED
  BY <1>2, <1>3, <1>4, AllStay DEF UserEdits

LEMMA OtherWrites_Inv ==
  ASSUME RowInv, NEW v \in Revision, OtherWrites(v)
  PROVE  RowInv'
<1>1. OthersTyped /\ Sound(prov)
  BY RowFacts
<1>2. /\ docs' = Append(docs, v) /\ reflected' = reflected /\ prov' = prov /\ run' = run
      /\ hint' = RemoteHint
  BY DEF OtherWrites, histVars
<1>3. Grows /\ Len(docs') = Len(docs) + 1
  BY <1>1, <1>2, GrowsByOne DEF OthersTyped
<1>4. Sound(prov)'
  BY <1>1, <1>2, <1>3, RowStays
<1>5. reflected' \subseteq DOMAIN docs'
  BY <1>1, <1>2, <1>3 DEF OthersTyped, Grows
<1>6. hint' \in [Keys -> {"none", "owed", "stranded"}]
  BY <1>1, <1>2, HintsType DEF OthersTyped
<1>7. writes' \in 0 .. MaxWrites
  BY <1>1, FileAssumption DEF OtherWrites, OthersTyped
<1>8. docs' \in Seq(Revision)
  BY <1>3 DEF Grows
<1>9. OthersTyped'
  BY <1>1, <1>2, <1>5, <1>6, <1>7, <1>8 DEF OtherWrites, OthersTyped, histVars
<1> QED
  BY <1>2, <1>3, <1>4, <1>9, AllStay

-----------------------------------------------------------------------------
(* The steps of a run that only read *)

LEMMA Fetch_Inv ==
  ASSUME RowInv, NEW k \in Keys, Fetch(k)
  PROVE  RowInv'
<1>1. OthersTyped /\ Sound(prov) /\ Current \in Nat /\ Current = Len(docs)
  BY RowFacts
<1>2. UNCHANGED <<local, docs, prov, kept, histVars, countVars>>
  BY DEF Fetch
<1>3. Grows
  BY <1>1, <1>2, GrowsNot DEF OthersTyped, histVars
<1>4. Sound(prov)'
  BY <1>1, <1>2, <1>3, RowStays
<1>5. OthersTyped'
  BY <1>1, <1>2 DEF Fetch, OthersTyped, histVars, countVars
<1>6. RunOK(Idle)'
  BY <1>1, <1>3, IdleOK, StaysOK DEF OthersTyped
<1>7. PICK rev \in 0 .. Current :
        /\ rev # 0 => docs[rev].content # Garbled
        /\ \/ run' = [run EXCEPT ![k] = Idle]
           \/ run' = [run EXCEPT ![k] = [Idle EXCEPT !.step = "stat", !.rev = rev]]
  <2> DEFINE rev == IF Current = 0 \/ docs[Current].content = Garbled THEN 0 ELSE Current
  <2>1. rev \in 0 .. Current /\ (rev # 0 => docs[rev].content # Garbled)
    BY <1>1
  <2>2. \/ run' = [run EXCEPT ![k] = Idle]
        \/ run' = [run EXCEPT ![k] = [Idle EXCEPT !.step = "stat", !.rev = rev]]
    BY DEF Fetch
  <2> QED
    BY <2>1, <2>2
<1>8. PICK r : r = [Idle EXCEPT !.step = "stat", !.rev = rev]
  OBVIOUS
<1>9. RunOK(r)
  <2>1. rev \in Nat
    BY <1>1
  <2>2. r.step = "stat" /\ r.rev = rev /\ r.seen = NoProv
    BY <1>8 DEF Idle
  <2>3. r \in Run
    BY <1>8, <2>1 DEF Idle, Run, Steps
  <2> QED
    BY <1>1, <1>7, <2>2, <2>3 DEF RunOK, Sound, Readable, Pulls, Pulled, Pushes, Copies, Pushed
<1>10. RunOK(r)'
  BY <1>3, <1>9, StaysOK
<1> QED
  BY <1>3, <1>4, <1>5, <1>6, <1>7, <1>8, <1>10, OneRunStep

LEMMA Stat_Inv ==
  ASSUME RowInv, NEW k \in Keys, Stat(k)
  PROVE  RowInv'
<1>1. OthersTyped /\ Sound(prov) /\ run[k] \in Run /\ RunOK(run[k])
  BY RowFacts DEF RowInv
<1>2. UNCHANGED <<local, docs, prov, kept, hint, histVars, countVars>> /\ run[k].step = "stat"
  BY DEF Stat
<1>3. Grows
  BY <1>1, <1>2, GrowsNot DEF OthersTyped, histVars
<1>4. Sound(prov)'
  BY <1>1, <1>2, <1>3, RowStays
<1>5. OthersTyped'
  BY <1>1, <1>2 DEF OthersTyped, histVars, countVars
<1>6. PICK r : r = [run[k] EXCEPT !.step = "read", !.seen = prov, !.at = edits,
                                  !.bytes = IF local = Absent THEN Absent ELSE Vanished]
  OBVIOUS
<1>7. r.step = "read" /\ r.rev = run[k].rev /\ r.seen = prov /\ r \in Run
  <2>1. edits \in Nat /\ prov \in Provenance \cup {NoProv}
    BY <1>1, FileAssumption DEF OthersTyped
  <2>2. (IF local = Absent THEN Absent ELSE Vanished) \in Contents \cup {Absent, Vanished}
    OBVIOUS
  <2> QED
    BY <1>1, <1>6, <2>1, <2>2 DEF Run, Steps
<1>8. run' = [run EXCEPT ![k] = r]
  BY <1>1, <1>6 DEF Stat
<1>9. RunOK(r)
  BY <1>1, <1>2, <1>7 DEF RunOK, Readable, Pulls, Pulled, Pushes, Copies, Pushed
<1>10. RunOK(r)'
  BY <1>3, <1>9, StaysOK
<1> QED
  BY <1>3, <1>4, <1>5, <1>8, <1>10, OneRunStep

-----------------------------------------------------------------------------
(* How a run goes on and ends *)

\* r is the run under k with its step changed.
Advanced(k, step, r) ==
  /\ r \in Run /\ r.step = step
  /\ r.rev = run[k].rev /\ r.seen = run[k].seen /\ r.bytes = run[k].bytes /\ r.at = run[k].at

LEMMA GoesOn ==
  ASSUME RowInv, NEW k \in Keys, NEW step \in Steps, Goes(k, step)
  PROVE  \E r : Advanced(k, step, r) /\ run' = [run EXCEPT ![k] = r]
<1>1. run[k] \in Run
  BY RowFacts
<1>2. PICK r : r = [run[k] EXCEPT !.step = step]
  OBVIOUS
<1>3. Advanced(k, step, r)
  BY <1>1, <1>2 DEF Advanced, Run
<1>4. run' = [run EXCEPT ![k] = r]
  BY <1>2 DEF Goes
<1> QED
  BY <1>3, <1>4

LEMMA EndsStep ==
  ASSUME RowInv, Grows, NEW k \in Keys, Ends(k), Sound(prov)', OthersTyped'
  PROVE  RowInv'
<1>1. RunOK(Idle)'
  BY IdleOK, StaysOK, RowFacts DEF OthersTyped
<1> QED
  BY <1>1, OneRunStep DEF Ends

LEMMA ThrowsType ==
  ASSUME RowInv, NEW k \in Keys, Throws(k)
  PROVE  hint' \in [Keys -> {"none", "owed", "stranded"}]
<1>1. hint \in [Keys -> {"none", "owed", "stranded"}]
  BY RowFacts DEF OthersTyped
<1> QED
  BY <1>1 DEF Throws

\* A step that writes neither the note nor the row.
LEMMA NothingWritten ==
  ASSUME RowInv, UNCHANGED <<docs, prov>>, reflected \subseteq reflected'
  PROVE  Grows /\ Sound(prov)'
<1>1. OthersTyped /\ Sound(prov)
  BY RowFacts
<1>2. Grows
  BY <1>1, GrowsNot DEF OthersTyped
<1> QED
  BY <1>1, <1>2, RowStays

LEMMA ReadFails_Inv ==
  ASSUME RowInv, NEW k \in Keys, ReadFails(k)
  PROVE  RowInv'
<1>1. OthersTyped
  BY RowFacts
<1>2. /\ Ends(k) /\ faults' = faults + 1 /\ faults < MaxFaults
      /\ UNCHANGED <<local, docs, prov, kept, reflected, lost, edits, writes, ownWrites>>
  BY DEF ReadFails, Throws, histVars
<1>3. hint' \in [Keys -> {"none", "owed", "stranded"}]
  BY <1>1, ThrowsType DEF ReadFails, OthersTyped
<1>4. OthersTyped'
  BY <1>1, <1>2, <1>3, FileAssumption DEF OthersTyped
<1> QED
  BY <1>2, <1>4, NothingWritten, EndsStep

-----------------------------------------------------------------------------
(* Decide *)

LEMMA ReadBytesType ==
  ASSUME RowInv, NEW k \in Keys
  PROVE  /\ ReadBytes(k) \in Contents \cup {Absent, Vanished}
         /\ Absent \notin Contents /\ Vanished \notin Contents /\ Absent # Vanished
BY RowFacts, FileAssumption DEF ReadBytes, OthersTyped

\* Equal contents: the row is renewed.
LEMMA Renewed ==
  ASSUME RowInv, NEW k \in Keys, run[k].step = "read",
         Live(run[k].rev), docs[run[k].rev].content = ReadBytes(k),
         prov' = [rev |-> run[k].rev, content |-> ReadBytes(k)],
         reflected' = reflected \cup {run[k].rev},
         Ends(k), UNCHANGED <<local, docs, kept, hint, lost, countVars>>
  PROVE  RowInv'
<1>1. /\ OthersTyped /\ RunOK(run[k]) /\ run[k] \in Run
      /\ Current \in Nat /\ Current = Len(docs) /\ DOMAIN docs = 1 .. Current
      /\ \A i \in 1 .. Current : docs[i] \in Revision
  BY RowFacts DEF RowInv
<1>2. run[k].rev \in 1 .. Current /\ docs[run[k].rev].content # Garbled
  BY <1>1 DEF RunOK, Readable, Live
<1>3. docs[run[k].rev] \in Revision /\ docs[run[k].rev].content \in Contents
  BY <1>1, <1>2 DEF Revision
<1>4. prov' \in Provenance
  BY <1>1, <1>3 DEF Provenance, Run
<1>5. Grows
  BY <1>1, GrowsNot DEF OthersTyped
<1>6. Sound(prov)'
  <2>1. prov'.rev = run[k].rev /\ prov'.content = docs'[run[k].rev].content
    OBVIOUS
  <2>2. prov'.rev \in reflected' /\ prov'.rev \in DOMAIN docs' /\ ~docs'[prov'.rev].deleted
    BY <1>1, <1>2, <2>1 DEF Live
  <2> QED
    BY <2>1, <2>2 DEF Sound
<1>7. OthersTyped'
  BY <1>1, <1>2, <1>4 DEF OthersTyped, countVars
<1> QED
  BY <1>5, <1>6, <1>7, EndsStep

\* What a run knows after its decision, from the reads it decided by.
LEMMA DecisionOK ==
  ASSUME RowInv, NEW k \in Keys, run[k].step = "read",
         NEW r \in Run, r.rev = run[k].rev, r.seen = run[k].seen, r.bytes = ReadBytes(k),
         r.step = Decision(r.rev, r.seen, r.bytes),
         ~(Live(r.rev) /\ docs[r.rev].content = r.bytes)
  PROVE  RunOK(r)
<1>1. /\ RunOK(run[k]) /\ Current \in Nat /\ Current = Len(docs)
      /\ \A i \in 1 .. Current : docs[i] \in Revision
  BY RowFacts DEF RowInv
<1>2. r.rev \in 0 .. Len(docs) /\ Sound(r.seen) /\ (r.rev # 0 => docs[r.rev].content # Garbled)
  BY <1>1 DEF RunOK, Readable
<1>3. Live(r.rev) => docs[r.rev].content \in Contents
  BY <1>1, <1>2 DEF Live, Revision
<1>4. r.step \in {"put", "pull", "copy", "quarantine", "tombstone", "idle"}
  BY DEF Decision
<1>5. /\ r.step \in {"pull", "copy", "tombstone"} => Live(r.rev)
      /\ r.step = "put" => r.bytes # Absent
      /\ (r.step = "put" /\ Live(r.rev)) \/ r.step = "tombstone" =>
           r.seen # NoProv /\ r.seen.rev = r.rev
      /\ r.step = "copy" => r.bytes # Absent /\ r.bytes # Vanished
  BY DEF Decision
<1>6. r.step = "copy" => r.bytes \in Contents
  BY <1>5, ReadBytesType
<1> QED
  BY <1>2, <1>3, <1>4, <1>5, <1>6
  DEF RunOK, Readable, Pulls, Pulled, Pushes, Copies, Pushed

LEMMA Decide_Inv ==
  ASSUME RowInv, NEW k \in Keys, Decide(k)
  PROVE  RowInv'
<1>1. /\ OthersTyped /\ Sound(prov) /\ run[k] \in Run
      /\ run[k].step = "read" /\ UNCHANGED <<local, docs, kept, hint, lost, countVars>>
  BY RowFacts DEF Decide
<1> DEFINE rev == run[k].rev
           b == ReadBytes(k)
           next == Decision(rev, run[k].seen, b)
           read == [run[k] EXCEPT !.step = next, !.bytes = b, !.at = IF b = Absent THEN @ ELSE edits]
<1>2. CASE Live(rev) /\ docs[rev].content = b
  <2>1. prov' = [rev |-> rev, content |-> b] /\ reflected' = reflected \cup {rev} /\ Ends(k)
    BY <1>2 DEF Decide
  <2> QED
    BY <1>1, <1>2, <2>1, Renewed
<1>3. CASE ~(Live(rev) /\ docs[rev].content = b)
  <2>1. /\ prov' \in {prov, NoProv} /\ reflected' = reflected
        /\ Ends(k) \/ run' = [run EXCEPT ![k] = read]
    BY <1>3 DEF Decide
  <2>2. Grows
    BY <1>1, <2>1, GrowsNot DEF OthersTyped
  <2>3. Sound(prov)'
    <3>1. CASE prov' = prov
      BY <1>1, <2>2, <3>1, RowStays
    <3>2. CASE prov' = NoProv
      BY <3>2 DEF Sound
    <3> QED
      BY <2>1, <3>1, <3>2
  <2>4. OthersTyped'
    BY <1>1, <2>1 DEF OthersTyped, countVars
  <2>5. PICK r : r = read
    OBVIOUS
  <2>6. r \in Run /\ r.rev = rev /\ r.seen = run[k].seen /\ r.bytes = b /\ r.step = next
    <3>1. edits \in Nat
      BY <1>1, FileAssumption DEF OthersTyped
    <3>2. next \in Steps
      BY DEF Decision, Steps
    <3>3. b \in Contents \cup {Absent, Vanished}
      BY ReadBytesType
    <3> HIDE DEF b, next, rev
    <3>4. r = [run[k] EXCEPT !.step = next, !.bytes = b, !.at = IF b = Absent THEN run[k].at ELSE edits]
      BY <2>5
    <3>5. (IF b = Absent THEN run[k].at ELSE edits) \in Nat
      BY <1>1, <3>1 DEF Run
    <3>6. r.rev = run[k].rev
      BY <1>1, <3>4 DEF Run
    <3> QED
      BY <1>1, <3>2, <3>3, <3>4, <3>5, <3>6 DEF Run, rev
  <2>7. RunOK(r)
    BY <1>1, <1>3, <2>6, DecisionOK
  <2>8. RunOK(r)'
    BY <2>2, <2>7, StaysOK
  <2>9. CASE Ends(k)
    BY <2>2, <2>3, <2>4, <2>9, EndsStep
  <2>10. CASE run' = [run EXCEPT ![k] = r]
    BY <2>2, <2>3, <2>4, <2>8, <2>10, OneRunStep
  <2> QED
    BY <2>1, <2>5, <2>9, <2>10
<1> QED
  BY <1>2, <1>3

-----------------------------------------------------------------------------
(* executePull and handleConflict *)

\* The remote bytes come into the vault: the revision is reflected.
LEMMA Installed ==
  ASSUME RowInv, NEW k \in Keys, run[k].step \in {"pull", "overwrite"},
         local' = docs[run[k].rev].content, Loses(k, local'),
         reflected' = reflected \cup {run[k].rev}, hint' \in {hint, LocalHint},
         UNCHANGED <<docs, prov, kept, countVars>>
  PROVE  Grows /\ Sound(prov)' /\ OthersTyped'
<1>1. OthersTyped /\ RunOK(run[k]) /\ Current = Len(docs) /\ DOMAIN docs = 1 .. Current
  BY RowFacts DEF RowInv
<1>2. run[k].rev \in DOMAIN docs /\ docs[run[k].rev].content \in Contents
  BY <1>1 DEF RunOK, Pulls, Live
<1>3. Grows /\ Sound(prov)'
  BY NothingWritten
<1>4. lost' \subseteq Contents
  BY <1>1, LosesType DEF OthersTyped
<1>5. hint' \in [Keys -> {"none", "owed", "stranded"}]
  BY <1>1, HintsType DEF OthersTyped
<1>6. OthersTyped'
  BY <1>1, <1>2, <1>4, <1>5 DEF OthersTyped, countVars
<1> QED
  BY <1>3, <1>6

LEMMA Install_Inv ==
  ASSUME RowInv, NEW k \in Keys, Install(k)
  PROVE  RowInv'
<1>1. /\ run[k].step = "pull" /\ Goes(k, "pulled")
      /\ reflected' = reflected \cup {run[k].rev} /\ docs' = docs
      /\ Grows /\ Sound(prov)' /\ OthersTyped'
  BY Installed DEF Install
<1>2. PICK r : Advanced(k, "pulled", r) /\ run' = [run EXCEPT ![k] = r]
  BY <1>1, GoesOn DEF Steps
<1>3. RunOK(run[k])
  BY DEF RowInv
<1>4. Live(r.rev) /\ docs[r.rev].content \in Contents /\ Sound(r.seen)
  BY <1>1, <1>2, <1>3 DEF RunOK, Pulls, Advanced
<1>5. Sound(r.seen)' /\ Live(r.rev)' /\ docs'[r.rev].content \in Contents
  BY <1>1, <1>4, StaysSound DEF Live
<1>6. RunOK(r)'
  BY <1>1, <1>2, <1>3, <1>5
  DEF RunOK, Advanced, Readable, Pulls, Pulled, Pushes, Copies, Pushed
<1> QED
  BY <1>1, <1>2, <1>6, OneRunStep

LEMMA Overwrite_Inv ==
  ASSUME RowInv, NEW k \in Keys, Overwrite(k)
  PROVE  RowInv'
<1>1. Ends(k) /\ Grows /\ Sound(prov)' /\ OthersTyped'
  BY Installed DEF Overwrite
<1> QED
  BY <1>1, EndsStep

LEMMA RecordPull_Inv ==
  ASSUME RowInv, NEW k \in Keys, RecordPull(k)
  PROVE  RowInv'
<1>1. /\ OthersTyped /\ Sound(prov) /\ RunOK(run[k])
      /\ run[k].step = "pulled" /\ Ends(k)
      /\ UNCHANGED <<local, docs, kept, hint, histVars, countVars>>
  BY RowFacts DEF RecordPull, RowInv
<1>2. /\ run[k].rev \in reflected /\ run[k].rev \in DOMAIN docs /\ run[k].rev \in Nat
      /\ ~docs[run[k].rev].deleted /\ docs[run[k].rev].content \in Contents
  BY <1>1 DEF RunOK, Pulls, Pulled, Live, OthersTyped, Run
<1>3. Grows
  BY <1>1, GrowsNot DEF OthersTyped, histVars
<1>4. CASE prov' = prov
  <2>1. Sound(prov)'
    BY <1>1, <1>3, <1>4, RowStays
  <2>2. OthersTyped'
    BY <1>1, <1>4 DEF OthersTyped, histVars, countVars
  <2> QED
    BY <1>1, <1>3, <2>1, <2>2, EndsStep
<1>5. CASE local = docs[run[k].rev].content /\ prov' = [rev |-> run[k].rev, content |-> local]
  <2>1. prov' \in Provenance /\ prov'.rev = run[k].rev /\ prov'.content = docs[run[k].rev].content
    BY <1>2, <1>5 DEF Provenance
  <2>2. Sound(prov)'
    BY <1>1, <1>2, <2>1 DEF Sound, histVars
  <2>3. OthersTyped'
    BY <1>1, <2>1 DEF OthersTyped, histVars, countVars
  <2> QED
    BY <1>1, <1>3, <2>2, <2>3, EndsStep
<1> QED
  BY <1>4, <1>5 DEF RecordPull

LEMMA Copy_Inv ==
  ASSUME RowInv, NEW k \in Keys, Copy(k)
  PROVE  RowInv'
<1>1. /\ OthersTyped /\ RunOK(run[k]) /\ run[k].step = "copy"
      /\ kept' = kept \cup {run[k].bytes} /\ Goes(k, "overwrite")
      /\ UNCHANGED <<local, docs, prov, hint, reflected, lost, countVars>>
  BY RowFacts DEF Copy, RowInv, histVars
<1>2. Grows /\ Sound(prov)'
  BY <1>1, NothingWritten
<1>3. OthersTyped'
  BY <1>1 DEF OthersTyped, RunOK, Copies, countVars
<1>4. PICK r : Advanced(k, "overwrite", r) /\ run' = [run EXCEPT ![k] = r]
  BY <1>1, GoesOn DEF Steps
<1>5. RunOK(r)
  BY <1>1, <1>4 DEF RunOK, Advanced, Readable, Pulls, Pulled, Pushes, Copies, Pushed
<1>6. RunOK(r)'
  BY <1>2, <1>5, StaysOK
<1> QED
  BY <1>2, <1>3, <1>4, <1>6, OneRunStep

-----------------------------------------------------------------------------
(* executePullDelete *)

LEMMA Quarantine_Inv ==
  ASSUME RowInv, NEW k \in Keys, Quarantine(k)
  PROVE  RowInv'
<1>1. /\ OthersTyped /\ RunOK(run[k]) /\ run[k].step = "quarantine"
      /\ UNCHANGED <<local, docs, prov, hint, reflected, lost, countVars>>
      /\ \/ Ends(k) /\ kept' = kept
         \/ local # Absent /\ kept' = kept \cup {local} /\ Goes(k, "unlink")
  BY RowFacts DEF Quarantine, RowInv, histVars
<1>2. Grows /\ Sound(prov)'
  BY <1>1, NothingWritten
<1>3. OthersTyped'
  BY <1>1 DEF OthersTyped, countVars
<1>4. CASE Ends(k)
  BY <1>2, <1>3, <1>4, EndsStep
<1>5. CASE Goes(k, "unlink")
  <2>1. PICK r : Advanced(k, "unlink", r) /\ run' = [run EXCEPT ![k] = r]
    BY <1>5, GoesOn DEF Steps
  <2>2. RunOK(r)
    BY <1>1, <2>1 DEF RunOK, Advanced, Readable, Pulls, Pulled, Pushes, Copies, Pushed
  <2>3. RunOK(r)'
    BY <1>2, <2>2, StaysOK
  <2> QED
    BY <1>2, <1>3, <2>1, <2>3, OneRunStep
<1> QED
  BY <1>1, <1>4, <1>5

LEMMA Unlink_Inv ==
  ASSUME RowInv, NEW k \in Keys, Unlink(k)
  PROVE  RowInv'
<1>1. /\ OthersTyped /\ RunOK(run[k]) /\ run[k].step = "unlink"
      /\ local' = Absent /\ Loses(k, Absent) /\ hint' \in {hint, LocalHint}
      /\ UNCHANGED <<docs, prov, kept, reflected, countVars>>
      /\ Ends(k) \/ Goes(k, "forget")
  BY RowFacts DEF Unlink, RowInv
<1>2. Grows /\ Sound(prov)'
  BY <1>1, NothingWritten
<1>3. OthersTyped'
  <2>1. lost' \subseteq Contents
    BY <1>1, LosesType DEF OthersTyped
  <2>2. hint' \in [Keys -> {"none", "owed", "stranded"}]
    BY <1>1, HintsType DEF OthersTyped
  <2> QED
    BY <1>1, <2>1, <2>2 DEF OthersTyped, countVars
<1>4. CASE Ends(k)
  BY <1>2, <1>3, <1>4, EndsStep
<1>5. CASE Goes(k, "forget")
  <2>1. PICK r : Advanced(k, "forget", r) /\ run' = [run EXCEPT ![k] = r]
    BY <1>5, GoesOn DEF Steps
  <2>2. RunOK(r)
    BY <1>1, <2>1 DEF RunOK, Advanced, Readable, Pulls, Pulled, Pushes, Copies, Pushed
  <2>3. RunOK(r)'
    BY <1>2, <2>2, StaysOK
  <2> QED
    BY <1>2, <1>3, <2>1, <2>3, OneRunStep
<1> QED
  BY <1>1, <1>4, <1>5

LEMMA Forget_Inv ==
  ASSUME RowInv, NEW k \in Keys, Forget(k)
  PROVE  RowInv'
<1>1. /\ OthersTyped /\ prov' = NoProv /\ Ends(k)
      /\ UNCHANGED <<local, docs, kept, hint, histVars, countVars>>
  BY RowFacts DEF Forget
<1>2. Grows
  BY <1>1, GrowsNot DEF OthersTyped, histVars
<1>3. Sound(prov)' /\ OthersTyped'
  BY <1>1 DEF Sound, OthersTyped, histVars, countVars
<1> QED
  BY <1>1, <1>2, <1>3, EndsStep

-----------------------------------------------------------------------------
(* executePushCreate, executePushUpdate, executePushDelete *)

\* The note gets a revision on top of base: only one whose content was in the
\* vault is superseded.
Superseding(base) == Current > 0 => base = Current /\ Current \in reflected

LEMMA PutSupersedes ==
  ASSUME RowInv, NEW k \in Keys, run[k].step = "put",
         Extends(IF Live(run[k].rev) THEN run[k].seen.rev ELSE 0)
  PROVE  Current > 0 => Current \in reflected
<1> SUFFICES ASSUME Current > 0 PROVE Current \in reflected
  OBVIOUS
<1>1. RunOK(run[k]) /\ Current \in Nat
  BY RowFacts DEF RowInv
<1>2. Live(run[k].rev)
  BY <1>1 DEF Extends
<1>3. run[k].seen # NoProv /\ Sound(run[k].seen)
  BY <1>1, <1>2 DEF RunOK, Pushes
<1> QED
  BY <1>2, <1>3 DEF Extends, Sound

LEMMA TombstoneSupersedes ==
  ASSUME RowInv, NEW k \in Keys, run[k].step = "tombstone", Extends(run[k].seen.rev)
  PROVE  Current \in reflected
<1>1. RunOK(run[k])
  BY DEF RowInv
<1>2. run[k].seen # NoProv /\ Sound(run[k].seen)
  BY <1>1 DEF RunOK, Pushes
<1> QED
  BY <1>2 DEF Extends, Sound

\* A revision v is added and reflected.
LEMMA Added ==
  ASSUME RowInv, NEW v \in Revision, docs' = Append(docs, v),
         reflected' = reflected \cup {Current + 1}, ownWrites' = ownWrites + 1,
         hint' = RemoteHint, UNCHANGED <<local, prov, kept, lost, edits, writes, faults>>
  PROVE  /\ Grows /\ Sound(prov)' /\ OthersTyped'
         /\ Current + 1 \in 1 .. Len(docs') /\ docs'[Current + 1] = v
<1>1. OthersTyped /\ Sound(prov) /\ Current = Len(docs) /\ Current \in Nat
  BY RowFacts
<1>2. Grows /\ Len(docs') = Len(docs) + 1 /\ docs'[Len(docs) + 1] = v
  BY <1>1, GrowsByOne DEF OthersTyped
<1>3. Sound(prov)'
  BY <1>1, <1>2, RowStays
<1>4. docs' \in Seq(Revision) /\ reflected' \subseteq DOMAIN docs'
  BY <1>1, <1>2 DEF OthersTyped, Grows
<1>5. hint' \in [Keys -> {"none", "owed", "stranded"}]
  BY <1>1, HintsType DEF OthersTyped
<1>6. ownWrites' \in Nat
  BY <1>1 DEF OthersTyped
<1>7. OthersTyped'
  BY <1>1, <1>4, <1>5, <1>6 DEF OthersTyped
<1> QED
  BY <1>1, <1>2, <1>3, <1>7

LEMMA Put_Inv ==
  ASSUME RowInv, NEW k \in Keys, Put(k)
  PROVE  RowInv'
<1> DEFINE base == IF Live(run[k].rev) THEN run[k].seen.rev ELSE 0
           v == [content |-> Stored(run[k].bytes), deleted |-> FALSE]
<1>1. /\ OthersTyped /\ RunOK(run[k]) /\ run[k] \in Run /\ run[k].step = "put"
      /\ Current \in Nat /\ Current = Len(docs)
      /\ UNCHANGED <<local, prov, kept, lost, edits, writes, faults>>
  BY RowFacts DEF Put, RowInv
<1>2. CASE /\ (Ends(k) /\ hint' = hint) \/ Throws(k)
           /\ UNCHANGED <<docs, reflected, ownWrites>>
  <2>1. Grows /\ Sound(prov)'
    BY <1>1, <1>2, NothingWritten
  <2>2. hint' \in [Keys -> {"none", "owed", "stranded"}]
    BY <1>1, <1>2, ThrowsType DEF OthersTyped
  <2>3. OthersTyped' /\ Ends(k)
    BY <1>1, <1>2, <2>2 DEF OthersTyped, Throws
  <2> QED
    BY <2>1, <2>3, EndsStep
<1>3. CASE /\ run[k].bytes # Vanished /\ Extends(base)
           /\ docs' = Append(docs, v) /\ ownWrites' = ownWrites + 1
           /\ reflected' = reflected \cup {Current + 1}
           /\ run' = [run EXCEPT ![k].step = "record", ![k].rev = Current + 1]
           /\ hint' = RemoteHint
  <2>1. run[k].bytes \in Contents
    BY <1>1, <1>3 DEF RunOK, Pushes, Run
  <2>2. v \in Revision /\ v.content = Stored(run[k].bytes) /\ ~v.deleted
    BY <2>1 DEF Revision, Stored, Contents
  <2> HIDE DEF v
  <2>3. /\ Grows /\ Sound(prov)' /\ OthersTyped'
        /\ Current + 1 \in 1 .. Len(docs') /\ docs'[Current + 1] = v
    BY <1>1, <1>3, <2>2, Added
  <2>4. PICK r : r = [run[k] EXCEPT !.step = "record", !.rev = Current + 1]
    OBVIOUS
  <2>5. /\ r \in Run /\ r.step = "record" /\ r.rev = Current + 1
        /\ r.seen = run[k].seen /\ r.bytes = run[k].bytes
    <3>1. Current + 1 \in Nat
      BY <1>1
    <3> QED
      BY <1>1, <2>4, <3>1 DEF Run, Steps
  <2>6. Sound(r.seen)'
    <3>1. Sound(r.seen)
      BY <1>1, <2>5 DEF RunOK
    <3> QED
      BY <2>3, <3>1, StaysSound
  <2>7. Pushed(r)'
    <3>1. Live(r.rev)' /\ r.rev \in reflected'
      BY <1>1, <1>3, <2>2, <2>3, <2>5 DEF Live
    <3>2. docs'[r.rev].content = Stored(r.bytes)
      BY <2>2, <2>3, <2>5
    <3> QED
      BY <2>1, <2>5, <3>1, <3>2 DEF Pushed, Stored
  <2>8. RunOK(r)'
    BY <1>1, <2>3, <2>5, <2>6, <2>7 DEF RunOK, Readable, Pulls, Pulled, Pushes, Copies
  <2>9. run' = [run EXCEPT ![k] = r]
    BY <1>1, <1>3, <2>4
  <2> QED
    BY <2>3, <2>8, <2>9, OneRunStep
<1> QED
  BY <1>2, <1>3 DEF Put

LEMMA RecordPut_Inv ==
  ASSUME RowInv, NEW k \in Keys, RecordPut(k)
  PROVE  RowInv'
<1>1. /\ OthersTyped /\ RunOK(run[k]) /\ run[k] \in Run /\ run[k].step = "record"
      /\ prov' = [rev |-> run[k].rev, content |-> run[k].bytes] /\ Ends(k)
      /\ DOMAIN docs = 1 .. Len(docs)
      /\ UNCHANGED <<local, docs, kept, hint, histVars, countVars>>
  BY RowFacts DEF RecordPut, RowInv
<1>2. /\ run[k].rev \in reflected /\ Live(run[k].rev) /\ run[k].rev \in 0 .. Len(docs)
      /\ run[k].bytes \in Contents /\ docs[run[k].rev].content = Stored(run[k].bytes)
  BY <1>1 DEF RunOK, Pushed
<1>3. Grows
  BY <1>1, GrowsNot DEF OthersTyped, histVars
<1>4. prov' \in Provenance /\ prov'.rev = run[k].rev /\ prov'.content = run[k].bytes
  BY <1>1, <1>2 DEF Provenance, Run
<1>5. Sound(prov)'
  BY <1>1, <1>2, <1>4 DEF Sound, Live, histVars, Stored
<1>6. OthersTyped'
  BY <1>1, <1>4 DEF OthersTyped, histVars, countVars
<1> QED
  BY <1>1, <1>3, <1>5, <1>6, EndsStep

LEMMA PutTombstone_Inv ==
  ASSUME RowInv, NEW k \in Keys, PutTombstone(k)
  PROVE  RowInv'
<1> DEFINE v == [content |-> Empty, deleted |-> TRUE]
<1>1. /\ OthersTyped /\ RunOK(run[k]) /\ run[k].step = "tombstone"
      /\ UNCHANGED <<local, prov, kept, lost, edits, writes, faults>>
  BY RowFacts DEF PutTombstone, RowInv
<1>2. CASE Ends(k) /\ UNCHANGED <<docs, ownWrites, reflected, hint>>
  <2>1. Grows /\ Sound(prov)'
    BY <1>1, <1>2, NothingWritten
  <2>2. OthersTyped'
    BY <1>1, <1>2 DEF OthersTyped
  <2> QED
    BY <1>2, <2>1, <2>2, EndsStep
<1>3. CASE /\ docs' = Append(docs, v) /\ ownWrites' = ownWrites + 1
           /\ reflected' = reflected \cup {Current + 1}
           /\ Goes(k, "forget") /\ hint' = RemoteHint
  <2>1. v \in Revision
    BY FileAssumption DEF Revision, Contents
  <2>2. Grows /\ Sound(prov)' /\ OthersTyped'
    BY <1>1, <1>3, <2>1, Added
  <2>3. PICK r : Advanced(k, "forget", r) /\ run' = [run EXCEPT ![k] = r]
    BY <1>3, GoesOn DEF Steps
  <2>4. RunOK(r)
    BY <1>1, <2>3 DEF RunOK, Advanced, Readable, Pulls, Pulled, Pushes, Copies, Pushed
  <2>5. RunOK(r)'
    BY <2>2, <2>4, StaysOK
  <2> QED
    BY <2>2, <2>3, <2>5, OneRunStep
<1> QED
  BY <1>2, <1>3 DEF PutTombstone

-----------------------------------------------------------------------------
(* Faults *)

LEMMA Faults_Inv ==
  ASSUME RowInv, NEW k \in Keys, StepFails(k) \/ AnswerLost(k)
  PROVE  RowInv'
<1>1. /\ OthersTyped /\ Ends(k) /\ (hint' = hint \/ Throws(k))
      /\ faults' = faults + 1 /\ faults < MaxFaults
      /\ UNCHANGED <<local, docs, prov, kept, reflected, lost, edits, writes, ownWrites>>
  BY RowFacts DEF StepFails, AnswerLost, Throws, histVars
<1>2. hint' \in [Keys -> {"none", "owed", "stranded"}]
  BY <1>1, ThrowsType DEF OthersTyped
<1>3. OthersTyped'
  BY <1>1, <1>2, FileAssumption DEF OthersTyped
<1> QED
  BY <1>1, <1>3, NothingWritten, EndsStep

LEMMA Crash_Inv ==
  ASSUME RowInv, Crash
  PROVE  RowInv'
<1>1. /\ OthersTyped /\ Sound(prov) /\ run' = [k \in Keys |-> Idle]
      /\ hint' = [k \in Keys |-> "owed"] /\ faults' = faults + 1 /\ faults < MaxFaults
      /\ UNCHANGED <<local, docs, prov, kept, reflected, lost, edits, writes, ownWrites>>
  BY RowFacts DEF Crash, histVars
<1>2. Grows /\ Sound(prov)'
  BY <1>1, NothingWritten
<1>3. RunOK(Idle)'
  BY <1>1, <1>2, IdleOK, StaysOK DEF OthersTyped
<1>4. \A k \in Keys : RunOK(run[k])'
  BY <1>1, <1>3 DEF RunOK, Sound, Readable, Pulls, Pulled, Pushes, Copies, Pushed, Live
<1>5. (run \in [Keys -> Run])' /\ (\A k \in Keys : run[k].rev \in 0 .. Current)'
  BY <1>1, <1>4 DEF RunOK, Current
<1>6. OthersTyped'
  BY <1>1, FileAssumption DEF OthersTyped
<1>7. FileTypeOK'
  BY <1>2, <1>5, <1>6 DEF FileTypeOK, OthersTyped, Sound
<1> QED
  BY <1>2, <1>4, <1>7 DEF RowInv

LEMMA FileNext_Inv == RowInv /\ [FileNext]_fileVars => RowInv'
<1> SUFFICES ASSUME RowInv, [FileNext]_fileVars PROVE RowInv'
  OBVIOUS
<1>1. ASSUME NEW c \in Contents \cup {Absent}, UserEdits(c) PROVE RowInv'
  BY <1>1, UserEdits_Inv
<1>2. ASSUME NEW v \in Revision, OtherWrites(v) PROVE RowInv'
  BY <1>2, OtherWrites_Inv
<1>3. ASSUME NEW k \in Keys, RunNext(k) PROVE RowInv'
  BY <1>3, Fetch_Inv, Stat_Inv, Decide_Inv, Install_Inv, RecordPull_Inv, Quarantine_Inv,
     Unlink_Inv, Forget_Inv, Put_Inv, RecordPut_Inv, PutTombstone_Inv, Copy_Inv, Overwrite_Inv
  DEF RunNext
<1>4. ASSUME NEW k \in Keys, ReadFails(k) \/ StepFails(k) \/ AnswerLost(k) PROVE RowInv'
  BY <1>4, ReadFails_Inv, Faults_Inv
<1>5. CASE Crash
  BY <1>5, Crash_Inv
<1>6. CASE UNCHANGED fileVars
  <2>1. OthersTyped /\ UNCHANGED <<docs, prov, reflected>> /\ run' = run
    BY <1>6, RowFacts DEF fileVars, histVars
  <2>2. OthersTyped'
    BY <1>6, <2>1 DEF OthersTyped, fileVars, histVars, countVars
  <2> QED
    BY <2>1, <2>2, NothingWritten, AllStay
<1> QED
  BY <1>1, <1>2, <1>3, <1>4, <1>5, <1>6 DEF FileNext

-----------------------------------------------------------------------------
(* Nothing that was read is lost *)

\* The contents that the note's history holds.
InHistory == {docs[i].content : i \in DOMAIN docs}

\* The vault file is what the run read, unless the user edited it since.
Unchanged(r) == r.at = edits => local \in {Absent, r.bytes} \cup InHistory
\* What a run may destroy: it is absent, stored or, for a conflict, kept.
Safe(r) ==
  /\ r.at <= edits
  /\ r.step = "read" /\ r.bytes = Absent => Unchanged(r)
  /\ r.step \in {"pull", "quarantine", "unlink"} => Unchanged(r) /\ r.bytes \in {Absent} \cup InHistory
  /\ r.step \in {"copy", "overwrite"} => Unchanged(r)
  /\ r.step = "overwrite" => r.bytes \in kept

KeptInv == RowInv /\ lost = {} /\ \A k \in Keys : Safe(run[k])

\* What one step may do to the others: the history and the kept contents grow,
\* and the file becomes what is stored, is removed, or is edited by the user.
Gentle ==
  /\ InHistory \subseteq InHistory'
  /\ kept \subseteq kept'
  /\ edits \in Nat /\ edits' \in Nat /\ edits <= edits'
  /\ edits' = edits => local' \in {local, Absent} \cup InHistory

LEMMA StaysSafe ==
  ASSUME Gentle, NEW r \in Run, Safe(r)
  PROVE  Safe(r)'
<1>1. r.at \in Nat /\ edits \in Nat /\ edits' \in Nat /\ edits <= edits' /\ r.at <= edits
  BY DEF Gentle, Run, Safe
<1>2. ASSUME Unchanged(r) PROVE Unchanged(r)'
  <2> SUFFICES ASSUME r.at = edits' PROVE local' \in {Absent, r.bytes} \cup InHistory'
    BY DEF Unchanged
  <2>1. edits' = edits /\ r.at = edits
    BY <1>1
  <2>2. local \in {Absent, r.bytes} \cup InHistory
    BY <1>2, <2>1 DEF Unchanged
  <2>3. local' \in {local, Absent} \cup InHistory /\ InHistory \subseteq InHistory'
    BY <2>1 DEF Gentle
  <2> QED
    BY <2>2, <2>3
<1>3. r.at <= edits' /\ (r.bytes \in kept => r.bytes \in kept')
  BY <1>1 DEF Gentle
<1>4. r.bytes \in {Absent} \cup InHistory => r.bytes \in {Absent} \cup InHistory'
  BY DEF Gentle
<1> QED
  BY <1>2, <1>3, <1>4 DEF Safe

LEMMA HistoryKept ==
  ASSUME docs \in Seq(Revision), NEW v, docs' = docs \/ (v \in Revision /\ docs' = Append(docs, v))
  PROVE  InHistory \subseteq InHistory'
<1>1. CASE docs' = docs
  BY <1>1 DEF InHistory
<1>2. CASE v \in Revision /\ docs' = Append(docs, v)
  <2>1. \A i \in DOMAIN docs : i \in DOMAIN docs' /\ docs'[i] = docs[i]
    BY <1>2
  <2> QED
    BY <2>1 DEF InHistory
<1> QED
  BY <1>1, <1>2

LEMMA KeptFacts ==
  ASSUME KeptInv
  PROVE  /\ RowInv /\ lost = {} /\ docs \in Seq(Revision) /\ edits \in Nat /\ run \in [Keys -> Run]
         /\ \A k \in Keys : run[k] \in Run /\ Safe(run[k]) /\ RunOK(run[k])
<1>1. RowInv /\ lost = {} /\ OthersTyped /\ run \in [Keys -> Run]
  BY RowFacts DEF KeptInv
<1> QED
  BY <1>1, FileAssumption DEF KeptInv, OthersTyped, RowInv

\* What a step that moves one run has to show.
LEMMA SafeStep ==
  ASSUME KeptInv, RowInv', Gentle, lost' = {}, NEW k \in Keys,
         NEW r \in Run, Safe(r)', run' = [run EXCEPT ![k] = r]
  PROVE  KeptInv'
<1>1. run \in [Keys -> Run] /\ \A j \in Keys : run[j] \in Run /\ Safe(run[j])
  BY KeptFacts
<1>2. ASSUME NEW j \in Keys PROVE Safe(run[j])'
  <2>1. CASE j = k
    <3>1. run'[j] = r
      BY <1>1, <2>1
    <3> QED
      BY <3>1 DEF Safe, Unchanged, InHistory
  <2>2. CASE j # k
    <3>1. PICK u : u = run[j]
      OBVIOUS
    <3>2. Safe(u)'
      BY <1>1, <3>1, StaysSafe
    <3>3. run'[j] = u
      BY <1>1, <2>2, <3>1
    <3> QED
      BY <3>2, <3>3 DEF Safe, Unchanged, InHistory
  <2> QED
    BY <2>1, <2>2
<1> QED
  BY <1>2 DEF KeptInv

LEMMA IdleSafe == ASSUME edits' \in Nat PROVE Idle \in Run /\ Safe(Idle)'
BY DEF Idle, Run, Steps, Safe, Unchanged

LEMMA SafeEnds ==
  ASSUME KeptInv, RowInv', Gentle, lost' = {}, NEW k \in Keys, Ends(k)
  PROVE  KeptInv'
<1>1. Idle \in Run /\ Safe(Idle)'
  BY IdleSafe DEF Gentle
<1> QED
  BY <1>1, SafeStep DEF Ends

LEMMA SafeStays ==
  ASSUME KeptInv, RowInv', Gentle, lost' = {}, run' = run
  PROVE  KeptInv'
<1>1. ASSUME NEW j \in Keys PROVE Safe(run[j])'
  <2>1. PICK u : u = run[j]
    OBVIOUS
  <2>2. Safe(u)'
    BY <2>1, KeptFacts, StaysSafe
  <2> QED
    BY <2>1, <2>2 DEF Safe, Unchanged, InHistory
<1> QED
  BY <1>1 DEF KeptInv

\* A step that changes neither the file nor what the user did.
LEMMA GentleStep ==
  ASSUME KeptInv, UNCHANGED <<local, edits>>, kept \subseteq kept',
         NEW v, docs' = docs \/ (v \in Revision /\ docs' = Append(docs, v))
  PROVE  Gentle
BY KeptFacts, HistoryKept DEF Gentle

\* Runs destroy what is safe only.
LEMMA Spared ==
  ASSUME KeptInv, NEW k \in Keys, run[k].step \in {"pull", "unlink", "overwrite"},
         NEW c, Loses(k, c)
  PROVE  lost' = {}
<1>1. Safe(run[k]) /\ lost = {}
  BY KeptFacts
<1>2. edits = run[k].at => local \in {Absent} \cup InHistory \cup kept
  BY <1>1 DEF Safe, Unchanged
<1> DEFINE safe == kept \cup {c} \cup {docs[r].content : r \in DOMAIN docs}
<1>3. edits = run[k].at => {local} \cap (Contents \ safe) = {}
  BY <1>2, FileAssumption DEF InHistory
<1> QED
  BY <1>1, <1>3 DEF Loses

LEMMA World_Kept ==
  ASSUME KeptInv, RowInv',
         \/ \E c \in Contents \cup {Absent} : UserEdits(c)
         \/ \E v \in Revision : OtherWrites(v)
  PROVE  KeptInv'
<1>1. CASE \E c \in Contents \cup {Absent} : UserEdits(c)
  <2>1. edits' = edits + 1 /\ run' = run /\ UNCHANGED <<docs, kept, lost>>
    BY <1>1 DEF UserEdits, histVars
  <2>2. Gentle
    BY <2>1, KeptFacts DEF Gentle, InHistory
  <2> QED
    BY <2>1, <2>2, KeptFacts, SafeStays
<1>2. ASSUME NEW v \in Revision, OtherWrites(v) PROVE KeptInv'
  <2>1. docs' = Append(docs, v) /\ run' = run /\ UNCHANGED <<local, kept, lost, edits>>
    BY <1>2 DEF OtherWrites, histVars
  <2>2. Gentle
    BY <2>1, GentleStep
  <2> QED
    BY <2>1, <2>2, KeptFacts, SafeStays
<1> QED
  BY <1>1, <1>2

LEMMA Fetch_Kept ==
  ASSUME KeptInv, RowInv', NEW k \in Keys, Fetch(k)
  PROVE  KeptInv'
<1>1. UNCHANGED <<local, docs, kept, lost, edits>>
  BY DEF Fetch, histVars, countVars
<1>2. Gentle /\ lost' = {}
  BY <1>1, GentleStep, KeptFacts
<1>3. PICK r : /\ run' = [run EXCEPT ![k] = r]
               /\ r = Idle \/ \E rev : r = [Idle EXCEPT !.step = "stat", !.rev = rev]
  BY DEF Fetch
<1>4. r.at = 0 /\ r.step \in {"idle", "stat"}
  <2>1. CASE r = Idle
    BY <2>1 DEF Idle
  <2>2. ASSUME NEW rev, r = [Idle EXCEPT !.step = "stat", !.rev = rev]
        PROVE  r.at = 0 /\ r.step = "stat"
    BY <2>2 DEF Idle
  <2> QED
    BY <1>3, <2>1, <2>2
<1>5. Safe(r)'
  BY <1>1, <1>4, KeptFacts DEF Safe
<1>6. r \in Run
  BY <1>3, KeptFacts DEF RowInv, FileTypeOK
<1> QED
  BY <1>2, <1>3, <1>5, <1>6, SafeStep

LEMMA Stat_Kept ==
  ASSUME KeptInv, RowInv', NEW k \in Keys, Stat(k)
  PROVE  KeptInv'
<1>1. UNCHANGED <<local, docs, kept, lost, edits>>
  BY DEF Stat, histVars, countVars
<1>2. Gentle /\ lost' = {}
  BY <1>1, GentleStep, KeptFacts
<1>3. PICK r : r = [run[k] EXCEPT !.step = "read", !.seen = prov, !.at = edits,
                                  !.bytes = IF local = Absent THEN Absent ELSE Vanished]
  OBVIOUS
<1>4. run' = [run EXCEPT ![k] = r]
  BY <1>3 DEF Stat
<1>5. /\ r.step = "read" /\ r.at = edits
      /\ r.bytes = IF local = Absent THEN Absent ELSE Vanished
  BY <1>3, KeptFacts DEF Run
<1>6. Safe(r)'
  BY <1>1, <1>5, KeptFacts, FileAssumption DEF Safe, Unchanged
<1>7. r \in Run
  BY <1>4, KeptFacts DEF RowInv, FileTypeOK
<1> QED
  BY <1>2, <1>4, <1>6, <1>7, SafeStep

\* The bytes of a file that a pull replaces or moves away are stored: the row
\* says so, and text is stored as it is.
LEMMA MatchesStored ==
  ASSUME Binaries = {}, KeptInv, NEW k \in Keys, NEW b,
         Decision(run[k].rev, run[k].seen, b) \in {"pull", "quarantine"}
  PROVE  b \in {Absent} \cup InHistory
<1>1. Sound(run[k].seen) /\ run[k] \in Run
  BY KeptFacts DEF RunOK
<1>2. CASE b = Absent
  BY <1>2
<1>3. CASE b # Absent
  <2>1. run[k].seen # NoProv /\ run[k].seen.content = b
    BY <1>3 DEF Decision
  <2>2. b \in Texts
    BY <1>1, <2>1 DEF Run, Provenance, Contents
  <2>3. docs[run[k].seen.rev].content = b /\ run[k].seen.rev \in DOMAIN docs
    BY <1>1, <2>1, <2>2 DEF Sound, Stored
  <2> QED
    BY <2>3 DEF InHistory
<1> QED
  BY <1>2, <1>3

LEMMA Decide_Kept ==
  ASSUME Binaries = {}, KeptInv, RowInv', NEW k \in Keys, Decide(k)
  PROVE  KeptInv'
<1>1. UNCHANGED <<local, docs, kept, lost, edits>> /\ run[k].step = "read"
  BY DEF Decide, countVars
<1>2. Gentle /\ lost' = {}
  BY <1>1, GentleStep, KeptFacts
<1>3. CASE Ends(k)
  BY <1>2, <1>3, SafeEnds
<1>4. CASE ~Ends(k)
  <2> DEFINE b == ReadBytes(k)
             next == Decision(run[k].rev, run[k].seen, b)
  <2>1. PICK r : /\ run' = [run EXCEPT ![k] = r]
                 /\ r = [run[k] EXCEPT !.step = next, !.bytes = b,
                                       !.at = IF b = Absent THEN run[k].at ELSE edits]
    BY <1>4 DEF Decide
  <2>2. run[k] \in Run /\ Safe(run[k]) /\ r \in Run /\ edits \in Nat
    BY <2>1, KeptFacts DEF RowInv, FileTypeOK
  <2>3. /\ r.step = next /\ r.bytes = b
        /\ r.at = IF b = Absent THEN run[k].at ELSE edits
    <3> HIDE DEF next, b
    <3> QED
      BY <2>1, <2>2 DEF Run
  <2>4. Unchanged(r)
    <3>1. CASE b = Absent
      <4>1. run[k].bytes = Absent
        BY <3>1, FileAssumption DEF ReadBytes
      <4>2. Unchanged(run[k])
        BY <1>1, <2>2, <4>1 DEF Safe
      <4> QED
        BY <2>3, <3>1, <4>1, <4>2 DEF Unchanged
    <3>2. CASE b # Absent
      <4>1. local \in {Absent, b}
        BY <3>2 DEF ReadBytes
      <4> QED
        BY <2>3, <4>1 DEF Unchanged
    <3> QED
      BY <3>1, <3>2
  <2>5. r.step \in {"pull", "quarantine"} => r.bytes \in {Absent} \cup InHistory
    BY <2>3, MatchesStored
  <2>6. r.at <= edits
    BY <2>2, <2>3 DEF Safe
  <2>7. r.step \notin {"read", "unlink", "overwrite"}
    BY <2>3 DEF Decision
  <2>8. Safe(r)
    BY <2>4, <2>5, <2>6, <2>7 DEF Safe
  <2>9. Safe(r)'
    BY <1>2, <2>2, <2>8, StaysSafe
  <2> QED
    BY <1>2, <2>1, <2>2, <2>9, SafeStep
<1> QED
  BY <1>3, <1>4

\* The remote bytes come into the vault.
LEMMA InstallGentle ==
  ASSUME KeptInv, NEW k \in Keys, Install(k) \/ Overwrite(k)
  PROVE  Gentle /\ lost' = {}
<1>1. /\ run[k].step \in {"pull", "overwrite"} /\ Loses(k, local')
      /\ local' = docs[run[k].rev].content /\ UNCHANGED <<docs, kept, edits>>
  BY DEF Install, Overwrite, countVars
<1>2. run[k].rev \in DOMAIN docs
  BY <1>1, KeptFacts DEF RunOK, Pulls, Live
<1>3. Gentle
  BY <1>1, <1>2, KeptFacts DEF Gentle, InHistory
<1> QED
  BY <1>1, <1>3, Spared

LEMMA Goes_Kept ==
  ASSUME KeptInv, RowInv', Gentle, lost' = {}, NEW k \in Keys, NEW step \in Steps, Goes(k, step),
         step \in {"pulled", "forget"}
         \/ (step = "unlink" /\ run[k].step = "quarantine")
         \/ (step = "overwrite" /\ run[k].step = "copy" /\ run[k].bytes \in kept')
  PROVE  KeptInv'
<1>1. PICK r : Advanced(k, step, r) /\ run' = [run EXCEPT ![k] = r]
  BY KeptFacts, GoesOn
<1>2. PICK u : u = run[k]
  OBVIOUS
<1>3. u \in Run /\ Safe(u) /\ Safe(u)'
  BY <1>2, KeptFacts, StaysSafe
<1>4. r \in Run /\ r.step = step /\ r.at = u.at /\ r.bytes = u.bytes
  BY <1>1, <1>2 DEF Advanced
<1>5. Unchanged(u)' => Unchanged(r)'
  BY <1>4 DEF Unchanged
<1>6. Safe(r)'
  <2>1. CASE step \in {"pulled", "forget"}
    BY <1>3, <1>4, <2>1 DEF Safe
  <2>2. CASE step = "unlink" /\ u.step = "quarantine"
    BY <1>3, <1>4, <1>5, <2>2 DEF Safe
  <2>3. CASE step = "overwrite" /\ u.step = "copy" /\ u.bytes \in kept'
    BY <1>3, <1>4, <1>5, <2>3 DEF Safe
  <2> QED
    BY <1>2, <2>1, <2>2, <2>3
<1> QED
  BY <1>1, <1>4, <1>6, SafeStep

LEMMA Pull_Kept ==
  ASSUME KeptInv, RowInv', NEW k \in Keys,
         \/ Install(k) \/ Overwrite(k) \/ Copy(k) \/ Quarantine(k) \/ Unlink(k)
  PROVE  KeptInv'
<1>1. CASE Install(k)
  BY <1>1, InstallGentle, Goes_Kept DEF Install, Steps
<1>2. CASE Overwrite(k)
  BY <1>2, InstallGentle, SafeEnds DEF Overwrite
<1>3. CASE Copy(k)
  <2>1. /\ UNCHANGED <<local, docs, edits>> /\ kept' = kept \cup {run[k].bytes} /\ lost' = lost
        /\ run[k].step = "copy" /\ Goes(k, "overwrite")
    BY <1>3 DEF Copy, histVars, countVars
  <2>2. Gentle /\ lost' = {}
    BY <2>1, GentleStep, KeptFacts
  <2> QED
    BY <2>1, <2>2, Goes_Kept DEF Steps
<1>4. CASE Quarantine(k)
  <2>1. /\ UNCHANGED <<local, docs, edits>> /\ kept \subseteq kept' /\ lost' = lost
        /\ run[k].step = "quarantine" /\ (Ends(k) \/ Goes(k, "unlink"))
    BY <1>4 DEF Quarantine, histVars, countVars
  <2>2. Gentle /\ lost' = {}
    BY <2>1, GentleStep, KeptFacts
  <2> QED
    BY <2>1, <2>2, SafeEnds, Goes_Kept DEF Steps
<1>5. CASE Unlink(k)
  <2>1. /\ local' = Absent /\ UNCHANGED <<docs, kept, edits>> /\ Loses(k, Absent)
        /\ run[k].step = "unlink" /\ (Ends(k) \/ Goes(k, "forget"))
    BY <1>5 DEF Unlink, countVars
  <2>2. Gentle
    BY <2>1, KeptFacts DEF Gentle, InHistory
  <2>3. lost' = {}
    BY <2>1, Spared
  <2> QED
    BY <2>1, <2>2, <2>3, SafeEnds, Goes_Kept DEF Steps
<1> QED
  BY <1>1, <1>2, <1>3, <1>4, <1>5

LEMMA Push_Kept ==
  ASSUME KeptInv, RowInv', NEW k \in Keys, Put(k) \/ PutTombstone(k)
  PROVE  KeptInv'
<1>1. UNCHANGED <<local, kept, lost, edits>>
  BY DEF Put, PutTombstone
<1>2. \E v : docs' = docs \/ (v \in Revision /\ docs' = Append(docs, v))
  <2>1. docs' = docs \/ \E v : docs' = Append(docs, v)
    BY DEF Put, PutTombstone
  <2>2. ASSUME NEW v, docs' = Append(docs, v) PROVE v \in Revision
    <3>1. docs' \in Seq(Revision) /\ docs \in Seq(Revision)
      BY KeptFacts DEF RowInv, FileTypeOK
    <3>2. Len(docs) + 1 \in DOMAIN docs' /\ docs'[Len(docs) + 1] = v
      BY <2>2, <3>1
    <3> QED
      BY <3>1, <3>2
  <2> QED
    BY <2>1, <2>2
<1>3. Gentle /\ lost' = {}
  BY <1>1, <1>2, GentleStep, KeptFacts
<1>4. CASE Ends(k)
  BY <1>3, <1>4, SafeEnds
<1>5. CASE Goes(k, "forget")
  BY <1>3, <1>5, Goes_Kept DEF Steps
<1>6. CASE run' = [run EXCEPT ![k].step = "record", ![k].rev = Current + 1]
  <2>1. PICK r : r = [run[k] EXCEPT !.step = "record", !.rev = Current + 1]
    OBVIOUS
  <2>2. run' = [run EXCEPT ![k] = r]
    BY <1>6, <2>1
  <2>3. r \in Run
    BY <2>2, KeptFacts DEF RowInv, FileTypeOK
  <2>4. r.step = "record" /\ r.at = run[k].at
    BY <2>1, KeptFacts DEF Run
  <2>5. Safe(r)'
    BY <1>1, <2>4, KeptFacts DEF Safe
  <2> QED
    BY <1>3, <2>2, <2>3, <2>5, SafeStep
<1> QED
  BY <1>4, <1>5, <1>6 DEF Put, PutTombstone, Throws

LEMMA Ends_Kept ==
  ASSUME KeptInv, RowInv', NEW k \in Keys,
         \/ RecordPull(k) \/ Forget(k) \/ RecordPut(k)
         \/ ReadFails(k) \/ StepFails(k) \/ AnswerLost(k)
  PROVE  KeptInv'
<1>1. UNCHANGED <<local, docs, kept, lost, edits>> /\ Ends(k)
  BY DEF RecordPull, Forget, RecordPut, ReadFails, StepFails, AnswerLost, Throws, histVars, countVars
<1>2. Gentle /\ lost' = {}
  BY <1>1, GentleStep, KeptFacts
<1> QED
  BY <1>1, <1>2, SafeEnds

LEMMA FileNext_Kept ==
  ASSUME Binaries = {}, KeptInv, [FileNext]_fileVars
  PROVE  KeptInv'
<1>0. RowInv'
  BY KeptFacts, FileNext_Inv
<1>1. CASE \/ \E c \in Contents \cup {Absent} : UserEdits(c)
           \/ \E v \in Revision : OtherWrites(v)
  BY <1>0, <1>1, World_Kept
<1>2. ASSUME NEW k \in Keys, RunNext(k) \/ ReadFails(k) \/ StepFails(k) \/ AnswerLost(k)
      PROVE  KeptInv'
  BY <1>0, <1>2, Fetch_Kept, Stat_Kept, Decide_Kept, Pull_Kept, Push_Kept, Ends_Kept DEF RunNext
<1>3. CASE Crash
  <2>1. UNCHANGED <<local, docs, kept, lost, edits>> /\ run' = [k \in Keys |-> Idle]
    BY <1>3 DEF Crash, histVars
  <2>2. \A k \in Keys : Safe(run[k])'
    BY <2>1, KeptFacts, IdleSafe DEF Safe, Unchanged, InHistory
  <2> QED
    BY <1>0, <2>1, <2>2, KeptFacts DEF KeptInv
<1>4. CASE UNCHANGED fileVars
  <2>1. UNCHANGED <<local, docs, kept, lost, edits>> /\ run' = run
    BY <1>4 DEF fileVars, histVars, countVars
  <2>2. Gentle /\ lost' = {}
    BY <2>1, GentleStep, KeptFacts
  <2> QED
    BY <1>0, <2>1, <2>2, SafeStays
<1> QED
  BY <1>1, <1>2, <1>3, <1>4 DEF FileNext

-----------------------------------------------------------------------------

\* The strengthened invariant holds in every reachable state.
THEOREM RowInvariant == FileSpec => []RowInv
<1>1. FileInit => RowInv
  BY FileInit_Inv
<1>2. RowInv /\ [FileNext]_fileVars => RowInv'
  BY FileNext_Inv
<1> QED
  BY <1>1, <1>2, PTL DEF FileSpec

\* File, note, row, hints and runs hold values of their types, and the row names
\* a revision of the note (provenance-repo.ts:15-41).
THEOREM FileTypeCorrect == FileSpec => []FileTypeOK
<1>1. RowInv => FileTypeOK
  BY DEF RowInv
<1> QED
  BY <1>1, RowInvariant, PTL

\* The row pairs a live revision with what it stores, for any interleaving of
\* edits, other clients' writes, one or two runs, faults and crashes
\* (file-reconciler.ts:181, 362, 452, 505).
THEOREM ProvenanceIsSound == FileSpec => []ProvenanceSound
<1>1. RowInv => ProvenanceSound
  BY DEF RowInv, Sound, ProvenanceSound
<1> QED
  BY <1>1, RowInvariant, PTL

\* No revision is overwritten or deleted remotely before its content was in the
\* vault (file-reconciler.ts:196-198, 234-236).
THEOREM NothingIsSupersededUnseen == FileSpec => SupersedesReflected
<1>1. RowInv /\ [FileNext]_fileVars =>
        [ownWrites' > ownWrites /\ Current > 0 => Current \in reflected]_fileVars
  <2> SUFFICES ASSUME RowInv, FileNext, ownWrites' > ownWrites, Current > 0
               PROVE  Current \in reflected
    BY DEF FileNext
  <2>1. ownWrites \in Nat
    BY RowFacts DEF OthersTyped
  <2>2. ownWrites' # ownWrites
    BY <2>1
  <2>3. PICK k \in Keys : Put(k) \/ PutTombstone(k)
    BY <2>2
    DEF FileNext, RunNext, UserEdits, OtherWrites, Fetch, Stat, Decide, Install, RecordPull,
        Quarantine, Unlink, Forget, RecordPut, Copy, Overwrite, ReadFails, StepFails, AnswerLost,
        Crash, countVars
  <2>4. CASE Put(k)
    BY <2>2, <2>4, PutSupersedes DEF Put
  <2>5. CASE PutTombstone(k)
    BY <2>2, <2>5, TombstoneSupersedes DEF PutTombstone
  <2> QED
    BY <2>3, <2>4, <2>5
<1> QED
  BY <1>1, RowInvariant, PTL DEF FileSpec, SupersedesReflected

\* While all contents are text, no run destroys bytes that it has read and that
\* neither the note's history nor a copy nor the quarantine holds
\* (file-reconciler.ts:199-204, 215-220).
THEOREM NothingReadGetsLost ==
  ASSUME Binaries = {}
  PROVE  FileSpec => []NothingReadIsLost
<1>1. FileInit => KeptInv
  <2> SUFFICES ASSUME FileInit PROVE KeptInv
    OBVIOUS
  <2>1. RowInv /\ lost = {} /\ edits = 0
    BY FileInit_Inv DEF FileInit
  <2>2. \A k \in Keys : run[k] = Idle
    BY DEF FileInit
  <2>3. Safe(Idle)
    BY <2>1 DEF Safe, Idle
  <2> QED
    BY <2>1, <2>2, <2>3 DEF KeptInv
<1>2. KeptInv /\ [FileNext]_fileVars => KeptInv'
  BY FileNext_Kept
<1>3. KeptInv => NothingReadIsLost
  BY DEF KeptInv, NothingReadIsLost
<1> QED
  BY <1>1, <1>2, <1>3, PTL DEF FileSpec

-----------------------------------------------------------------------------
(* One run at a time: every revision answers an edit                       *)

\* The user has made an edit that no revision of the daemon answers yet.
Unanswered == ownWrites < edits

\* What a push of the run goes on top of.
Base(r) == IF Live(r.rev) THEN r.seen.rev ELSE 0

\* The row is the one the run has read, and it is not newer than the revision
\* the run has read; it is older if the run brings that revision to the vault.
Alone(r) ==
  /\ r.step \notin {"idle", "stat"} => r.seen = prov
  /\ r.step # "idle" => r.at <= edits
  /\ r.step # "idle" /\ r.rev # 0 /\ prov # NoProv => prov.rev <= r.rev
  /\ r.step \in {"pull", "copy", "overwrite", "quarantine", "unlink"} /\ prov # NoProv =>
       prov.rev < r.rev

\* A write that can still succeed has an edit to answer, and a file edited since
\* it was read has one more.
Answers(r) ==
  /\ r.step = "read" /\ r.bytes = Absent /\ r.seen # NoProv /\ r.seen.rev = Current => Unanswered
  /\ r.step = "put" /\ r.bytes # Vanished /\ Extends(Base(r)) =>
       IF edits = r.at THEN Unanswered /\ local = r.bytes ELSE ownWrites + 1 < edits
  /\ r.step = "tombstone" /\ Extends(r.seen.rev) => Unanswered
  /\ r.step = "record" /\ r.rev = Current /\ local # r.bytes => Unanswered

\* So has a file that differs from a current row, or from a note not yet there.
Differs ==
  /\ Current = 0 => ownWrites = 0 /\ (local # Absent => Unanswered)
  /\ prov # NoProv /\ prov.rev = Current /\ local # prov.content => Unanswered

Serial == NoDuplicateRevisions /\ Differs /\ \A k \in Keys : Alone(run[k]) /\ Answers(run[k])
SerialInv == RowInv /\ Serial

LEMMA SerialFacts ==
  ASSUME SerialInv, NEW k \in Keys
  PROVE  /\ edits \in Nat /\ ownWrites \in Nat /\ Current \in Nat /\ Current = Len(docs)
         /\ run[k] \in Run /\ run[k].rev \in 0 .. Current /\ run[k].at \in Nat
         /\ prov # NoProv => prov.rev \in 1 .. Current
         /\ run[k].seen # NoProv => run[k].seen.rev \in 1 .. Current
         /\ Alone(run[k]) /\ Answers(run[k]) /\ RunOK(run[k])
<1>1. OthersTyped /\ Sound(prov) /\ Current = Len(docs) /\ DOMAIN docs = 1 .. Current
  BY RowFacts DEF SerialInv
<1>2. RunOK(run[k]) /\ Alone(run[k]) /\ Answers(run[k])
  BY DEF SerialInv, Serial, RowInv
<1>3. edits \in Nat /\ ownWrites \in Nat /\ docs \in Seq(Revision)
  BY <1>1, FileAssumption DEF OthersTyped
<1>4. run[k] \in Run /\ run[k].rev \in 0 .. Current /\ Sound(run[k].seen)
  BY <1>1, <1>2 DEF RunOK
<1>5. run[k].at \in Nat
  BY <1>4 DEF Run
<1> QED
  BY <1>1, <1>2, <1>3, <1>4, <1>5 DEF Sound

\* A run that is over, or that has read nothing but a note, answers nothing.
LEMMA IdleSerial == Alone(Idle) /\ Answers(Idle)
BY DEF Alone, Answers, Idle

\* A step that ends the run, or leaves the run for the lemma that cites this.
LEMMA OnlyRun ==
  ASSUME Keys = {"path"}, NEW k \in Keys, NEW r, run' = [run EXCEPT ![k] = r], SerialInv,
         Alone(r)', Answers(r)', Differs', NoDuplicateRevisions'
  PROVE  Serial'
<1>1. run \in [Keys -> Run]
  BY RowFacts DEF SerialInv
<1>2. run'[k] = r /\ \A j \in Keys : j = k
  BY <1>1
<1>3. ASSUME NEW j \in Keys PROVE Alone(run[j])' /\ Answers(run[j])'
  BY <1>2, <1>3 DEF Alone, Answers, Unanswered, Extends, Base, Live, Current
<1> QED
  BY <1>3 DEF Serial

LEMMA EndsSerial ==
  ASSUME Keys = {"path"}, NEW k \in Keys, Ends(k), SerialInv, Differs', NoDuplicateRevisions'
  PROVE  Serial'
<1>1. Alone(Idle)' /\ Answers(Idle)'
  BY DEF Alone, Answers, Idle
<1> QED
  BY <1>1, OnlyRun DEF Ends

\* What does not touch the note, the file, the row and the counts.
LEMMA SameFile ==
  ASSUME SerialInv, UNCHANGED <<local, docs, prov, edits, ownWrites>>
  PROVE  Differs' /\ NoDuplicateRevisions'
BY DEF SerialInv, Serial, Differs, NoDuplicateRevisions, Unanswered, Current

-----------------------------------------------------------------------------

LEMMA UserEdits_Serial ==
  ASSUME SerialInv, NEW c \in Contents \cup {Absent}, UserEdits(c)
  PROVE  Serial'
<1>1. /\ edits' = edits + 1 /\ UNCHANGED <<docs, prov, run, ownWrites>>
  BY DEF UserEdits, histVars
<1>2. ASSUME NEW k \in Keys PROVE Alone(run[k])' /\ Answers(run[k])'
  <2>1. PICK r : r = run[k]
    OBVIOUS
  <2>2. /\ edits \in Nat /\ ownWrites \in Nat /\ r.at \in Nat /\ Alone(r) /\ Answers(r)
    BY <2>1, SerialFacts
  <2>3. ownWrites <= edits /\ ownWrites < edits + 1
    BY <2>2 DEF SerialInv, Serial, NoDuplicateRevisions
  <2>4. Alone(r)'
    BY <1>1, <2>2 DEF Alone
  <2>5. Unanswered' /\ (Extends(Base(r))' <=> Extends(Base(r)))
    BY <1>1, <2>2, <2>3 DEF Unanswered, Extends, Base, Live, Current
  <2>6. r.step = "put" /\ r.bytes # Vanished /\ Extends(Base(r)) =>
          edits' # r.at /\ ownWrites' + 1 < edits'
    <3> SUFFICES ASSUME r.step = "put", r.bytes # Vanished, Extends(Base(r))
                 PROVE  edits' # r.at /\ ownWrites' + 1 < edits'
      OBVIOUS
    <3>1. r.at <= edits
      BY <2>2 DEF Alone
    <3>2. ownWrites < edits
      BY <2>2 DEF Answers, Unanswered
    <3> QED
      BY <1>1, <2>2, <3>1, <3>2
  <2>7. Answers(r)'
    BY <2>5, <2>6 DEF Answers
  <2>8. run'[k] = r
    BY <1>1, <2>1
  <2> QED
    BY <2>4, <2>7, <2>8 DEF Alone, Answers, Unanswered, Extends, Base, Live, Current
<1>3. edits \in Nat /\ ownWrites \in Nat /\ Current \in Nat
  BY RowFacts, FileAssumption DEF SerialInv, OthersTyped
<1>4. Differs' /\ NoDuplicateRevisions'
  BY <1>1, <1>3 DEF SerialInv, Serial, NoDuplicateRevisions, Differs, Unanswered, Current
<1> QED
  BY <1>2, <1>4 DEF Serial

LEMMA OtherWrites_Serial ==
  ASSUME SerialInv, NEW v \in Revision, OtherWrites(v)
  PROVE  Serial'
<1>1. /\ docs' = Append(docs, v) /\ UNCHANGED <<local, prov, run, edits, ownWrites>>
  BY DEF OtherWrites, histVars
<1>2. docs \in Seq(Revision) /\ Current = Len(docs) /\ Current \in Nat /\ Sound(prov) /\ DOMAIN docs = 1 .. Current
  BY RowFacts DEF SerialInv, OthersTyped
<1>3. Current' = Current + 1 /\ \A i \in 1 .. Current : docs'[i] = docs[i]
  BY <1>1, <1>2 DEF Current
<1>4. ASSUME NEW k \in Keys PROVE Alone(run[k])' /\ Answers(run[k])'
  <2>1. PICK r : r = run[k]
    OBVIOUS
  <2>2. /\ r.rev \in 0 .. Current /\ Alone(r) /\ Answers(r)
        /\ r.seen # NoProv => r.seen.rev \in 1 .. Current
        /\ RunOK(r)
    BY <2>1, SerialFacts
  <2>3. Alone(r)'
    BY <1>1, <2>2 DEF Alone
  <2>4. (Live(r.rev)' <=> Live(r.rev)) /\ Base(r)' = Base(r)
    BY <1>3, <2>2 DEF Live, Base
  <2>5. r.step = "put" => ~Extends(Base(r))'
    <3>1. CASE r.step = "put" /\ Live(r.rev)
      <4>1. r.seen # NoProv /\ Base(r)' = r.seen.rev
        BY <2>2, <2>4, <3>1 DEF RunOK, Pushes, Base
      <4> QED
        BY <1>2, <1>3, <2>2, <4>1 DEF Extends
    <3>2. CASE ~Live(r.rev)
      BY <1>2, <1>3, <2>4, <3>2 DEF Extends, Base
    <3> QED
      BY <3>1, <3>2
  <2>6. r.step = "tombstone" => r.seen # NoProv
    BY <2>2 DEF RunOK, Pushes
  <2>7. Answers(r)'
    BY <1>2, <1>3, <2>2, <2>5, <2>6 DEF Answers, Extends
  <2>8. run'[k] = r
    BY <1>1, <2>1
  <2> QED
    BY <2>3, <2>7, <2>8 DEF Alone, Answers, Unanswered, Extends, Base, Live, Current
<1>5. prov # NoProv => prov.rev \in 1 .. Current
  BY <1>2 DEF Sound
<1>6. Differs' /\ NoDuplicateRevisions'
  BY <1>1, <1>2, <1>3, <1>5 DEF SerialInv, Serial, NoDuplicateRevisions, Differs
<1> QED
  BY <1>4, <1>6 DEF Serial
-----------------------------------------------------------------------------

LEMMA Fetch_Serial ==
  ASSUME SerialInv, Keys = {"path"}, NEW k \in Keys, Fetch(k)
  PROVE  Serial'
<1>1. UNCHANGED <<local, docs, prov, edits, ownWrites>>
  BY DEF Fetch, countVars
<1>2. Differs' /\ NoDuplicateRevisions'
  BY <1>1, SameFile
<1>3. /\ edits \in Nat /\ Current \in Nat
      /\ prov # NoProv => prov.rev \in 1 .. Current
  BY SerialFacts
<1>4. CASE Ends(k)
  BY <1>2, <1>4, EndsSerial
<1>5. CASE run' = [run EXCEPT ![k] = [Idle EXCEPT !.step = "stat", !.rev = Current]]
           \/ run' = [run EXCEPT ![k] = [Idle EXCEPT !.step = "stat", !.rev = 0]]
  <2>1. PICK n \in {0, Current} : run' = [run EXCEPT ![k] = [Idle EXCEPT !.step = "stat", !.rev = n]]
    BY <1>5
  <2>2. PICK r : r = [Idle EXCEPT !.step = "stat", !.rev = n]
    OBVIOUS
  <2>3. r.step = "stat" /\ r.rev = n /\ r.at = 0
    BY <2>2 DEF Idle
  <2>4. prov' = prov /\ (prov # NoProv /\ r.rev # 0 => prov.rev <= r.rev) /\ r.at <= edits'
    BY <1>1, <1>3, <2>3
  <2>5. Alone(r)' /\ Answers(r)'
    BY <2>3, <2>4 DEF Alone, Answers
  <2> QED
    BY <1>2, <2>1, <2>2, <2>5, OnlyRun
<1> QED
  BY <1>4, <1>5 DEF Fetch, Ends

LEMMA Stat_Serial ==
  ASSUME SerialInv, Keys = {"path"}, NEW k \in Keys, Stat(k)
  PROVE  Serial'
<1>1. UNCHANGED <<local, docs, prov, edits, ownWrites>> /\ run[k].step = "stat"
  BY DEF Stat, countVars
<1>2. Differs' /\ NoDuplicateRevisions'
  BY <1>1, SameFile
<1>3. run[k] \in Run /\ edits \in Nat /\ Alone(run[k])
  BY SerialFacts
<1>4. PICK b : b = IF local = Absent THEN Absent ELSE Vanished
  OBVIOUS
<1>5. PICK r : r = [run[k] EXCEPT !.step = "read", !.seen = prov, !.at = edits, !.bytes = b]
  OBVIOUS
<1>6. r.step = "read" /\ r.seen = prov /\ r.at = edits /\ r.bytes = b /\ r.rev = run[k].rev
  BY <1>3, <1>5 DEF Run
<1>7. Alone(r)'
  BY <1>1, <1>3, <1>6 DEF Alone
<1>8. Answers(r)'
  <2>1. r.bytes = Absent => local = Absent
    BY <1>4, <1>6, FileAssumption
  <2>2. prov # NoProv => prov.content # Absent
    BY RowFacts, FileAssumption DEF SerialInv, OthersTyped, Provenance
  <2>3. prov # NoProv /\ prov.rev = Current /\ local = Absent => Unanswered
    BY <2>2 DEF SerialInv, Serial, Differs
  <2> QED
    BY <1>1, <1>6, <2>1, <2>3 DEF Answers, Unanswered, Current
<1>9. run' = [run EXCEPT ![k] = r]
  BY <1>4, <1>5 DEF Stat
<1> QED
  BY <1>2, <1>7, <1>8, <1>9, OnlyRun

LEMMA Decide_Serial ==
  ASSUME SerialInv, Keys = {"path"}, NEW k \in Keys, Decide(k)
  PROVE  Serial'
<1>1. UNCHANGED <<local, docs, edits, ownWrites>> /\ run[k].step = "read"
  BY DEF Decide, countVars
<1>2. /\ run[k] \in Run /\ edits \in Nat /\ ownWrites \in Nat /\ Current \in Nat
      /\ run[k].rev \in 0 .. Current /\ run[k].seen = prov
      /\ prov # NoProv => prov.rev \in 1 .. Current
      /\ Alone(run[k]) /\ Answers(run[k]) /\ RunOK(run[k])
  BY <1>1, SerialFacts DEF Alone
<1>3. NoDuplicateRevisions' /\ Current' = Current
  BY <1>1 DEF SerialInv, Serial, NoDuplicateRevisions, Current
<1>4. Current = 0 => ownWrites = 0 /\ (local # Absent => Unanswered)
  BY DEF SerialInv, Serial, Differs
<1>5. PICK b : b = ReadBytes(k)
  OBVIOUS
<1>6. /\ b \in Contents \cup {Absent, Vanished}
      /\ b \in Contents => b = local
      /\ b \notin {Absent, Vanished} => b = local
      /\ b # Absent => local # Absent \/ b = Vanished
      /\ b = Absent /\ run[k].bytes # Absent => FALSE
  BY <1>5, ReadBytesType, RowFacts, FileAssumption DEF ReadBytes, SerialInv, OthersTyped
<1>7. CASE Live(run[k].rev) /\ docs[run[k].rev].content = b
  <2>1. prov' = [rev |-> run[k].rev, content |-> b] /\ Ends(k)
    BY <1>5, <1>7 DEF Decide
  <2>2. docs[run[k].rev] \in Revision /\ docs[run[k].rev].content # Garbled
    BY <1>1, <1>2, <1>7, RowFacts DEF RunOK, Readable, Live, SerialInv
  <2>3. b \in Contents
    BY <1>7, <2>2 DEF Revision
  <2>4. prov'.content = local'
    BY <1>1, <1>6, <2>1, <2>3
  <2>5. Differs'
    BY <1>1, <1>3, <1>4, <2>4 DEF Differs, Unanswered
  <2> QED
    BY <1>3, <2>1, <2>5, EndsSerial
<1>8. CASE ~(Live(run[k].rev) /\ docs[run[k].rev].content = b)
  <2> DEFINE next == Decision(run[k].rev, run[k].seen, b)
             read == [run[k] EXCEPT !.step = next, !.bytes = b, !.at = IF b = Absent THEN @ ELSE edits]
  <2>1. /\ prov' = IF b = Absent /\ ~Live(run[k].rev) THEN NoProv ELSE prov
        /\ IF next = "idle" \/ (ReadOnly /\ next \in {"put", "tombstone"})
           THEN Ends(k) ELSE run' = [run EXCEPT ![k] = read]
    BY <1>5, <1>8 DEF Decide
  <2>2. Differs'
    BY <1>1, <1>3, <2>1 DEF SerialInv, Serial, Differs, Unanswered
  <2>3. CASE Ends(k)
    BY <1>3, <2>2, <2>3, EndsSerial
  <2>4. CASE next # "idle" /\ run' = [run EXCEPT ![k] = read]
    <3>1. PICK at : at = IF b = Absent THEN run[k].at ELSE edits
      OBVIOUS
    <3>2. PICK step : step = next
      OBVIOUS
    <3>3. PICK r : r = [run[k] EXCEPT !.step = step, !.bytes = b, !.at = at]
      OBVIOUS
    <3>4. r.step = next /\ r.bytes = b /\ r.at = at /\ r.rev = run[k].rev /\ r.seen = prov
      BY <1>2, <3>2, <3>3 DEF Run
    <3>5. run' = [run EXCEPT ![k] = r]
      BY <2>4, <3>1, <3>2, <3>3
    <3>6. prov' = prov
      BY <2>1, <2>4 DEF Decision
    <3> HIDE DEF read
    <3>7. /\ step \in {"put", "pull", "copy", "quarantine", "tombstone"}
          /\ step \in {"pull", "copy", "tombstone"} => Live(r.rev)
          /\ step = "quarantine" => Tombstone(r.rev) /\ prov.content = b
      BY <1>2, <2>4, <3>2, <3>4 DEF Decision
    <3>8. step \in {"pull", "copy"} /\ prov # NoProv /\ prov.rev = r.rev => prov.content = b /\ step = "copy"
      BY <1>2, <3>2, <3>4 DEF Decision
    <3>9. step \in {"put", "tombstone"} /\ Live(r.rev) =>
            prov # NoProv /\ prov.rev = r.rev /\ (step = "put" => prov.content # b)
      BY <1>2, <3>2, <3>4 DEF Decision
    <3>10. (step = "put" => b # Absent) /\ (step = "tombstone" => b = Absent)
      BY <3>2 DEF Decision
    <3> HIDE DEF read, next
    <3>11. step \in {"pull", "copy", "quarantine"} /\ prov # NoProv => prov.rev # r.rev
      <4> SUFFICES ASSUME step \in {"pull", "copy", "quarantine"}, prov # NoProv, prov.rev = r.rev
                   PROVE  FALSE
        OBVIOUS
      <4>1. ~docs[r.rev].deleted /\ docs[r.rev].content \in {prov.content, Stored(prov.content)}
        BY DEF SerialInv, RowInv, Sound
      <4>2. Live(r.rev) /\ prov.content = b
        BY <3>7, <3>8, <4>1 DEF Tombstone
      <4>3. docs[r.rev].content # Garbled /\ docs[r.rev].content # b
        BY <1>1, <1>2, <1>8, <3>4, <4>2 DEF RunOK, Readable, Live
      <4> QED
        BY <4>1, <4>2, <4>3 DEF Stored
    <3>12. at <= edits
      BY <1>1, <1>2, <3>1 DEF Alone
    <3>13. Alone(r)'
      BY <1>1, <1>2, <3>2, <3>4, <3>6, <3>7, <3>11, <3>12 DEF Alone, Live, Tombstone
    <3>14. step = "put" /\ b # Vanished /\ Extends(Base(r)) =>
             r.at = edits /\ local = b /\ Unanswered
      <4> SUFFICES ASSUME step = "put", b # Vanished, Extends(Base(r))
                   PROVE  r.at = edits /\ local = b /\ Unanswered
        OBVIOUS
      <4>1. b = local /\ local # Absent /\ r.at = edits
        BY <1>6, <3>1, <3>4, <3>10
      <4>2. CASE Live(r.rev)
        <5>1. prov # NoProv /\ prov.rev = Current /\ local # prov.content
          BY <3>4, <3>9, <4>1, <4>2 DEF Extends, Base
        <5> QED
          BY <4>1, <5>1 DEF SerialInv, Serial, Differs
      <4>3. CASE ~Live(r.rev)
        BY <1>4, <4>1, <4>3 DEF Extends, Base
      <4> QED
        BY <4>1, <4>2, <4>3
    <3>15. step = "tombstone" /\ Extends(r.seen.rev) => Unanswered
      BY <1>1, <1>2, <1>6, <3>4, <3>7, <3>9, <3>10 DEF Answers, Extends
    <3>16. Unanswered' = Unanswered /\ (Extends(Base(r))' = Extends(Base(r))) /\ Extends(r.seen.rev)' = Extends(r.seen.rev)
      BY <1>1 DEF Unanswered, Extends, Base, Live, Current
    <3>17. Answers(r)'
      BY <1>1, <3>2, <3>4, <3>7, <3>14, <3>15, <3>16 DEF Answers
    <3> QED
      BY <1>3, <2>2, <3>5, <3>13, <3>17, OnlyRun
  <2> QED
    BY <2>1, <2>3, <2>4
<1> QED
  BY <1>7, <1>8

-----------------------------------------------------------------------------

\* A step that touches neither the note nor the counts, and leaves the file or
\* row such that a current row names the content of the file.
LEMMA FileOrRow ==
  ASSUME SerialInv, UNCHANGED <<docs, edits, ownWrites>>,
         prov' # NoProv /\ prov'.rev = Current => local' = prov'.content,
         Current # 0
  PROVE  Differs' /\ NoDuplicateRevisions'
<1>1. Current' = Current /\ NoDuplicateRevisions'
  BY DEF SerialInv, Serial, NoDuplicateRevisions, Current
<1> QED
  BY <1>1 DEF Differs

\* A run that goes on without having read or written anything more.
LEMMA GoesOnSerial ==
  ASSUME SerialInv, Keys = {"path"}, NEW k \in Keys, NEW step \in Steps, Goes(k, step),
         run[k].step \notin {"idle", "stat", "read"},
         step \notin {"idle", "stat", "read", "put", "record", "tombstone"},
         step \in {"pull", "copy", "overwrite", "quarantine", "unlink"} =>
           run[k].step \in {"pull", "copy", "overwrite", "quarantine", "unlink"},
         UNCHANGED <<prov, edits>>, Differs', NoDuplicateRevisions'
  PROVE  Serial'
<1>1. RowInv
  BY DEF SerialInv
<1>2. PICK r : Advanced(k, step, r) /\ run' = [run EXCEPT ![k] = r]
  BY <1>1, GoesOn
<1>3. Alone(run[k])
  BY SerialFacts
<1>4. Alone(r)' /\ Answers(r)'
  BY <1>2, <1>3 DEF Alone, Answers, Advanced
<1> QED
  BY <1>2, <1>4, OnlyRun

\* The remote bytes come into the vault over an older row.
LEMMA InstalledSerial ==
  ASSUME SerialInv, NEW k \in Keys, run[k].step \in {"pull", "overwrite"},
         UNCHANGED <<docs, prov, edits, ownWrites>>
  PROVE  Differs' /\ NoDuplicateRevisions'
<1>1. /\ run[k].rev \in 0 .. Current /\ Current \in Nat
      /\ prov # NoProv => prov.rev \in 1 .. Current
      /\ prov # NoProv => prov.rev < run[k].rev
      /\ Live(run[k].rev)
  BY SerialFacts DEF Alone, RunOK, Pulls
<1>2. Current # 0 /\ (prov # NoProv => prov.rev # Current)
  BY <1>1 DEF Live
<1> QED
  BY <1>2, FileOrRow

LEMMA Install_Serial ==
  ASSUME SerialInv, Keys = {"path"}, NEW k \in Keys, Install(k)
  PROVE  Serial'
<1>1. Differs' /\ NoDuplicateRevisions'
  BY InstalledSerial DEF Install, countVars
<1> QED
  BY <1>1, GoesOnSerial DEF Install, countVars, Steps

LEMMA Overwrite_Serial ==
  ASSUME SerialInv, Keys = {"path"}, NEW k \in Keys, Overwrite(k)
  PROVE  Serial'
<1>1. Differs' /\ NoDuplicateRevisions'
  BY InstalledSerial DEF Overwrite, countVars
<1> QED
  BY <1>1, EndsSerial DEF Overwrite

LEMMA RecordPull_Serial ==
  ASSUME SerialInv, Keys = {"path"}, NEW k \in Keys, RecordPull(k)
  PROVE  Serial'
<1>1. UNCHANGED <<local, docs, edits, ownWrites>> /\ Ends(k) /\ run[k].step = "pulled"
  BY DEF RecordPull, countVars
<1>2. CASE prov' = prov
  BY <1>1, <1>2, SameFile, EndsSerial
<1>3. CASE prov'.content = local
  <2>1. Live(run[k].rev) /\ run[k].rev \in 0 .. Current /\ Current \in Nat
    BY <1>1, SerialFacts DEF RunOK, Pulls
  <2>2. Current # 0
    BY <2>1 DEF Live
  <2> QED
    BY <1>1, <1>3, <2>2, FileOrRow, EndsSerial
<1>4. prov' = prov \/ prov' = [rev |-> run[k].rev, content |-> local]
  BY DEF RecordPull
<1> QED
  BY <1>2, <1>3, <1>4

LEMMA Quarantine_Serial ==
  ASSUME SerialInv, Keys = {"path"}, NEW k \in Keys, Quarantine(k)
  PROVE  Serial'
<1>1. UNCHANGED <<local, docs, prov, edits, ownWrites>> /\ run[k].step = "quarantine"
  BY DEF Quarantine, countVars
<1>2. Differs' /\ NoDuplicateRevisions'
  BY <1>1, SameFile
<1>3. CASE Ends(k)
  BY <1>2, <1>3, EndsSerial
<1>4. CASE Goes(k, "unlink")
  BY <1>1, <1>2, <1>4, GoesOnSerial DEF Steps
<1> QED
  BY <1>3, <1>4 DEF Quarantine

LEMMA Unlink_Serial ==
  ASSUME SerialInv, Keys = {"path"}, NEW k \in Keys, Unlink(k)
  PROVE  Serial'
<1>1. /\ UNCHANGED <<docs, prov, edits, ownWrites>> /\ run[k].step = "unlink"
      /\ local' = Absent
  BY DEF Unlink, countVars
<1>2. /\ run[k].rev \in 0 .. Current /\ Current \in Nat
      /\ prov # NoProv => prov.rev \in 1 .. Current
      /\ prov # NoProv => prov.rev < run[k].rev
  BY <1>1, SerialFacts DEF Alone
<1>3. prov # NoProv => prov.rev # Current
  BY <1>2
<1>4. NoDuplicateRevisions' /\ Current' = Current
  BY <1>1 DEF SerialInv, Serial, NoDuplicateRevisions, Current
<1>5. Differs'
  BY <1>1, <1>3, <1>4 DEF SerialInv, Serial, Differs
<1>6. CASE Ends(k)
  BY <1>4, <1>5, <1>6, EndsSerial
<1>7. CASE Goes(k, "forget")
  BY <1>1, <1>4, <1>5, <1>7, GoesOnSerial DEF Steps
<1> QED
  BY <1>6, <1>7 DEF Unlink

LEMMA Forget_Serial ==
  ASSUME SerialInv, Keys = {"path"}, NEW k \in Keys, Forget(k)
  PROVE  Serial'
<1>1. UNCHANGED <<local, docs, edits, ownWrites>> /\ prov' = NoProv /\ Ends(k)
  BY DEF Forget, countVars
<1>2. Differs' /\ NoDuplicateRevisions'
  BY <1>1 DEF SerialInv, Serial, Differs, NoDuplicateRevisions, Unanswered, Current
<1> QED
  BY <1>1, <1>2, EndsSerial

LEMMA Copy_Serial ==
  ASSUME SerialInv, Keys = {"path"}, NEW k \in Keys, Copy(k)
  PROVE  Serial'
<1>1. /\ UNCHANGED <<local, docs, prov, edits, ownWrites>> /\ run[k].step = "copy"
      /\ Goes(k, "overwrite")
  BY DEF Copy, countVars
<1> QED
  BY <1>1, SameFile, GoesOnSerial DEF Steps

\* A new revision of the daemon: no row is current any more.
LEMMA Adds ==
  ASSUME SerialInv, NEW v \in Revision, docs' = Append(docs, v), UNCHANGED <<local, prov, edits>>,
         ownWrites' = ownWrites + 1, Unanswered
  PROVE  Differs' /\ NoDuplicateRevisions' /\ Current' = Current + 1
<1>1. /\ docs \in Seq(Revision) /\ Current = Len(docs) /\ Current \in Nat /\ Sound(prov)
      /\ DOMAIN docs = 1 .. Current /\ edits \in Nat /\ ownWrites \in Nat
  BY RowFacts, FileAssumption DEF SerialInv, OthersTyped
<1>2. Current' = Current + 1
  BY <1>1 DEF Current
<1>3. prov # NoProv => prov.rev \in 1 .. Current
  BY <1>1 DEF Sound
<1>4. NoDuplicateRevisions'
  BY <1>1 DEF NoDuplicateRevisions, Unanswered
<1> QED
  BY <1>1, <1>2, <1>3, <1>4 DEF Differs

LEMMA Put_Serial ==
  ASSUME SerialInv, Keys = {"path"}, NEW k \in Keys, Put(k)
  PROVE  Serial'
<1>1. UNCHANGED <<local, prov, edits>> /\ run[k].step = "put"
  BY DEF Put
<1>2. CASE Ends(k) /\ UNCHANGED <<docs, ownWrites>>
  BY <1>1, <1>2, SameFile, EndsSerial
<1>3. CASE /\ run[k].bytes # Vanished /\ Extends(Base(run[k]))
           /\ docs' = Append(docs, [content |-> Stored(run[k].bytes), deleted |-> FALSE])
           /\ ownWrites' = ownWrites + 1
           /\ run' = [run EXCEPT ![k].step = "record", ![k].rev = Current + 1]
  <2>1. /\ edits \in Nat /\ ownWrites \in Nat /\ Current \in Nat /\ run[k] \in Run
        /\ prov # NoProv => prov.rev \in 1 .. Current
        /\ Alone(run[k]) /\ Answers(run[k]) /\ RunOK(run[k])
    BY SerialFacts
  <2>2. [content |-> Stored(run[k].bytes), deleted |-> FALSE] \in Revision
    <3>1. run[k].bytes \in Contents
      BY <1>1, <1>3, <2>1 DEF RunOK, Pushes, Run
    <3> QED
      BY <3>1 DEF Stored, Revision
  <2>3. IF edits = run[k].at THEN Unanswered /\ local = run[k].bytes ELSE ownWrites + 1 < edits
    BY <1>1, <1>3, <2>1 DEF Answers
  <2>4. Unanswered
    BY <2>1, <2>3 DEF Unanswered
  <2>5. Differs' /\ NoDuplicateRevisions' /\ Current' = Current + 1
    BY <1>1, <1>3, <2>2, <2>4, Adds
  <2>6. PICK r : r = [run[k] EXCEPT !.step = "record", !.rev = Current + 1]
    OBVIOUS
  <2>7. /\ r.step = "record" /\ r.rev = Current + 1 /\ r.seen = run[k].seen
        /\ r.bytes = run[k].bytes /\ r.at = run[k].at
    BY <2>1, <2>6 DEF Run
  <2>8. prov # NoProv => prov.rev <= r.rev
    BY <2>1, <2>7
  <2>9. Alone(r)'
    BY <1>1, <2>1, <2>7, <2>8 DEF Alone
  <2>10. local # r.bytes => ownWrites' < edits'
    BY <1>1, <1>3, <2>1, <2>3, <2>7
  <2>11. Answers(r)'
    BY <1>1, <2>7, <2>10 DEF Answers, Unanswered
  <2>12. run' = [run EXCEPT ![k] = r]
    BY <1>3, <2>6
  <2> QED
    BY <2>5, <2>9, <2>11, <2>12, OnlyRun
<1> QED
  BY <1>2, <1>3 DEF Put, Base, Throws

LEMMA RecordPut_Serial ==
  ASSUME SerialInv, Keys = {"path"}, NEW k \in Keys, RecordPut(k)
  PROVE  Serial'
<1>1. /\ UNCHANGED <<local, docs, edits, ownWrites>> /\ Ends(k) /\ run[k].step = "record"
      /\ prov' = [rev |-> run[k].rev, content |-> run[k].bytes]
  BY DEF RecordPut, countVars
<1>2. Answers(run[k])
  BY SerialFacts
<1>3. NoDuplicateRevisions' /\ Current' = Current
  BY <1>1 DEF SerialInv, Serial, NoDuplicateRevisions, Current
<1>4. Differs'
  BY <1>1, <1>2, <1>3 DEF SerialInv, Serial, Differs, Answers, Unanswered
<1> QED
  BY <1>1, <1>3, <1>4, EndsSerial

LEMMA PutTombstone_Serial ==
  ASSUME SerialInv, Keys = {"path"}, NEW k \in Keys, PutTombstone(k)
  PROVE  Serial'
<1>1. UNCHANGED <<local, prov, edits>> /\ run[k].step = "tombstone"
  BY DEF PutTombstone
<1>2. CASE Ends(k) /\ UNCHANGED <<docs, ownWrites>>
  BY <1>1, <1>2, SameFile, EndsSerial
<1>3. CASE /\ Extends(run[k].seen.rev) /\ Goes(k, "forget") /\ ownWrites' = ownWrites + 1
           /\ docs' = Append(docs, [content |-> Empty, deleted |-> TRUE])
  <2>1. Unanswered
    BY <1>1, <1>3, SerialFacts DEF Answers
  <2>2. [content |-> Empty, deleted |-> TRUE] \in Revision
    BY FileAssumption DEF Revision, Contents
  <2>3. Differs' /\ NoDuplicateRevisions'
    BY <1>1, <1>3, <2>1, <2>2, Adds
  <2> QED
    BY <1>1, <1>3, <2>3, GoesOnSerial DEF Steps
<1> QED
  BY <1>2, <1>3 DEF PutTombstone

\* Whatever fails leaves what was written.
LEMMA Faults_Serial ==
  ASSUME SerialInv, Keys = {"path"}, NEW k \in Keys, ReadFails(k) \/ StepFails(k) \/ AnswerLost(k)
  PROVE  Serial'
<1>1. Ends(k) /\ UNCHANGED <<local, docs, prov, edits, ownWrites>>
  BY DEF ReadFails, StepFails, AnswerLost, Throws
<1> QED
  BY <1>1, SameFile, EndsSerial

LEMMA Crash_Serial ==
  ASSUME SerialInv, Crash
  PROVE  Serial'
<1>1. UNCHANGED <<local, docs, prov, edits, ownWrites>> /\ run' = [k \in Keys |-> Idle]
  BY DEF Crash
<1>2. ASSUME NEW k \in Keys PROVE Alone(run[k])' /\ Answers(run[k])'
  BY <1>1 DEF Alone, Answers, Idle
<1> QED
  BY <1>1, <1>2, SameFile DEF Serial

LEMMA FileNext_Serial ==
  ASSUME SerialInv, Keys = {"path"}, [FileNext]_fileVars
  PROVE  SerialInv'
<1>1. RowInv'
  BY FileNext_Inv DEF SerialInv
<1>2. CASE UNCHANGED fileVars
  <2>1. UNCHANGED <<local, docs, prov, run, edits, ownWrites>>
    BY <1>2 DEF fileVars, countVars
  <2>2. ASSUME NEW k \in Keys PROVE Alone(run[k])' /\ Answers(run[k])'
    <3>1. Alone(run[k]) /\ Answers(run[k])
      BY DEF SerialInv, Serial
    <3> QED
      BY <2>1, <3>1 DEF Alone, Answers, Unanswered, Extends, Base, Live, Current
  <2> QED
    BY <1>1, <2>1, <2>2, SameFile DEF Serial, SerialInv
<1>3. ASSUME NEW c \in Contents \cup {Absent}, UserEdits(c) PROVE Serial'
  BY <1>3, UserEdits_Serial
<1>4. ASSUME NEW v \in Revision, OtherWrites(v) PROVE Serial'
  BY <1>4, OtherWrites_Serial
<1>5. ASSUME NEW k \in Keys, RunNext(k) PROVE Serial'
  BY <1>5, Fetch_Serial, Stat_Serial, Decide_Serial, Install_Serial, RecordPull_Serial,
     Quarantine_Serial, Unlink_Serial, Forget_Serial, Put_Serial, RecordPut_Serial,
     PutTombstone_Serial, Copy_Serial, Overwrite_Serial
  DEF RunNext
<1>6. ASSUME NEW k \in Keys, ReadFails(k) \/ StepFails(k) \/ AnswerLost(k) PROVE Serial'
  BY <1>6, Faults_Serial
<1> QED
  BY <1>1, <1>2, <1>3, <1>4, <1>5, <1>6, Crash_Serial DEF FileNext, SerialInv

LEMMA SerialInvariant ==
  ASSUME Keys = {"path"}
  PROVE  FileSpec => []SerialInv
<1>1. FileInit => SerialInv
  <2> SUFFICES ASSUME FileInit PROVE SerialInv
    OBVIOUS
  <2>1. \A k \in Keys : run[k] = Idle
    BY DEF FileInit
  <2>2. Alone(Idle) /\ Answers(Idle)
    BY IdleSerial
  <2>3. docs = <<>> /\ edits = 0 /\ ownWrites = 0 /\ local = Absent /\ prov = NoProv
    BY DEF FileInit
  <2>4. NoDuplicateRevisions /\ Differs
    BY <2>3 DEF NoDuplicateRevisions, Differs
  <2> QED
    BY <2>1, <2>2, <2>4, FileInit_Inv DEF SerialInv, Serial
<1>2. SerialInv /\ [FileNext]_fileVars => SerialInv'
  BY FileNext_Serial
<1> QED
  BY <1>1, <1>2, PTL DEF FileSpec

\* With the file's one key, every revision the daemon writes answers an edit of
\* the user: lost answers, retries and crashes duplicate none
\* (file-reconciler.ts:412-515).
THEOREM NothingIsDuplicated ==
  ASSUME Keys = {"path"}
  PROVE  FileSpec => []NoDuplicateRevisions
<1>1. SerialInv => NoDuplicateRevisions
  BY DEF SerialInv, Serial
<1> QED
  BY <1>1, SerialInvariant, PTL

\* With the file's one key, no run puts a revision into the vault that is older
\* than the one recorded there (file-reconciler.ts:193-206, 229-241).
THEOREM FilesGoForward ==
  ASSUME Keys = {"path"}
  PROVE  FileSpec => InstallsForward
<1>1. SerialInv /\ [FileNext]_fileVars =>
        [\A k \in Keys :
           run[k].step \in {"pull", "overwrite"} /\ run'[k].step # run[k].step /\ local' # local =>
             prov = NoProv \/ prov.rev <= run[k].rev]_fileVars
  <2> SUFFICES ASSUME SerialInv, NEW k \in Keys, run[k].step \in {"pull", "overwrite"}, prov # NoProv
               PROVE  prov.rev <= run[k].rev
    OBVIOUS
  <2>1. Live(run[k].rev) /\ Alone(run[k])
    BY SerialFacts DEF RunOK, Pulls
  <2> QED
    BY <2>1 DEF Alone, Live
<1> QED
  BY <1>1, SerialInvariant, PTL DEF FileSpec, InstallsForward
=============================================================================
