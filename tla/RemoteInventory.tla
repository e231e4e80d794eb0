-------------------------- MODULE RemoteInventory --------------------------
(***************************************************************************)
(* How a pull reads the remote database (src/src/livesync/inventory.ts and *)
(* decode-adapter.ts): page by page, while other clients go on writing.    *)
(* The full inventory walks _all_docs in the order of document ids, the    *)
(* incremental one walks _changes from a position; both collect the same   *)
(* items, fetch the losing revisions of a conflict one by one, and decode  *)
(* what they collected in a second sweep.                                  *)
(*                                                                         *)
(* A document id is a number, which gives the collation order of the       *)
(* server.  A revision is identified with the update sequence that created *)
(* it, and a body with its chunks, whose ids are content-addressed; chunks *)
(* are never removed here, so the chunk cache never differs from the store *)
(* and has no state of its own.  Notes at ignored paths are left out: they *)
(* are listed, and yield no action.                                        *)
(***************************************************************************)
EXTENDS Naturals, FiniteSets

CONSTANTS
  NoteIds, ChunkIds,  \* document ids, in the order of the server
  Bodies,             \* what a note can contain: the set of its chunks
  Unreadable,         \* the bodies that fail to decrypt or to match their size
  Tombstone,          \* the body of a logically deleted note ("deleted": true)
  Gone,               \* what _changes says of a note the server has deleted
  PageSize,           \* rows per page
  MaxEvents           \* bound: writes of other clients and of the user

Ids == NoteIds \union ChunkIds

ASSUME IdsAssumption ==
  /\ Ids \subseteq Nat \ {0} /\ NoteIds \intersect ChunkIds = {}
  /\ Bodies \subseteq SUBSET ChunkIds
  /\ Unreadable \subseteq Bodies
  /\ {Tombstone, Gone} \intersect Bodies = {} /\ Tombstone # Gone
  /\ PageSize \in Nat \ {0} /\ MaxEvents \in Nat

VARIABLES
  leaves,    \* the leaf revisions of each note
  changed,   \* the update sequence of the last change of each document, 0 if it never existed
  seq,       \* update_seq of the database
  events,    \* how many events of the environment have happened
  phase,     \* what the command is doing
  cursor,    \* id or sequence of the last row read, 0 before the first page
  pending,   \* losing revisions of the last page still to be fetched
  items,     \* what was collected and not decoded yet
  found,     \* the observations: items decoded, and tombstones
  blocked,   \* the notes that failed to decode
  position,  \* the sequence this reading stands for
  dropped    \* history: notes that skip=1 stepped over in this reading

remoteVars == <<leaves, changed, seq>>
readVars == <<cursor, pending, items, found, blocked, position, dropped>>

Leaf == [rev: Nat, body: Bodies \union {Tombstone}]
Item == [id: NoteIds, rev: Nat, body: Bodies \union {Tombstone, Gone}]
ItemOf(n, leaf) == [id |-> n, rev |-> leaf.rev, body |-> leaf.body]
\* i is the item of S that is taken next.
First(i, S) == \A j \in S : i.id < j.id \/ (i.id = j.id /\ i.rev >= j.rev)
\* The chunks a reader can get hold of, from its cache or with a request.
Stored == {c \in ChunkIds : changed[c] > 0}

\* The one revision CouchDB presents as the document, the same for every reader.
Winners(n) == {l \in leaves[n] : \A k \in leaves[n] : k.rev <= l.rev}

(***************************************************************************)
(* The other clients.                                                      *)
(***************************************************************************)
Happens == events < MaxEvents /\ events' = events + 1

Changes(id) == seq' = seq + 1 /\ changed' = [changed EXCEPT ![id] = seq + 1]

\* A new revision of a note, on one of its leaves or, when it was replicated
\* from a client that had not seen them, beside them.
OtherWrites(n, body) ==
  /\ Happens /\ Changes(n)
  /\ \E old \in {{}} \union {{l} : l \in leaves[n]} :
       leaves' = [leaves EXCEPT ![n] = (@ \ old) \union {[rev |-> seq + 1, body |-> body]}]

\* One leaf less: a conflict is resolved, or the note is deleted for good.
OtherRemoves(n) ==
  /\ Happens /\ Changes(n)
  /\ \E l \in leaves[n] : leaves' = [leaves EXCEPT ![n] = @ \ {l}]

\* The chunks of a note may be replicated after the note that lists them.
ChunkArrives(c) == c \notin Stored /\ Happens /\ Changes(c) /\ UNCHANGED leaves

Environment ==
  \/ \E n \in NoteIds, b \in Bodies \union {Tombstone} : OtherWrites(n, b)
  \/ \E n \in NoteIds : OtherRemoves(n)
  \/ \E c \in ChunkIds : ChunkArrives(c)

(***************************************************************************)
(* One page: the winner comes with its body, the other leaves are to be    *)
(* fetched.  A note without any leaf is not in _all_docs at all; in        *)
(* _changes it is a row that says deleted.                                 *)
(***************************************************************************)
ItemsOf(n, S) == {ItemOf(n, l) : l \in S}
Collect(page) ==
  LET notes == page \intersect NoteIds IN
  /\ items' = items \union {[id |-> n, rev |-> changed[n], body |-> Gone] :
                              n \in {k \in notes : leaves[k] = {}}}
                    \union UNION {ItemsOf(n, Winners(n)) : n \in notes}
  /\ pending' = UNION {ItemsOf(n, leaves[n] \ Winners(n)) : n \in notes}

\* A page is full, and holds the rows that come first by their key, or it is
\* short, and holds all of them.
Short(listed) == Cardinality(listed) < PageSize
FullPages(listed, key) ==
  {page \in SUBSET listed : /\ Cardinality(page) = PageSize
                            /\ \A i \in page, j \in listed \ page : key[i] < key[j]}
Ends(last, page, key) == \A i \in page : key[i] <= key[last]

\* The ids from the cursor on.  startkey names the last row of the page before,
\* and skip=1 is meant to leave out exactly that row.
ListedFrom(k) == {i \in Stored \union {n \in NoteIds : leaves[n] # {}} : i >= k}
SkippedFrom(k) == IF k = 0 THEN {} ELSE {i \in ListedFrom(k) : \A j \in ListedFrom(k) : i <= j}
ById == [i \in Ids |-> i]

AllDocsPage ==
  LET listed == ListedFrom(cursor) \ SkippedFrom(cursor) IN
  /\ phase = "listing" /\ pending = {}
  /\ \/ /\ Short(listed) /\ Collect(listed)
        /\ phase' = "fetching" /\ UNCHANGED cursor
     \/ /\ \E page \in FullPages(listed, ById) : \E last \in page :
             Collect(page) /\ Ends(last, page, ById) /\ cursor' = last
        /\ UNCHANGED phase
  /\ dropped' = dropped \union ((SkippedFrom(cursor) \ {cursor}) \intersect NoteIds)
  /\ UNCHANGED <<found, blocked, position>>

\* The documents changed after a position, listed in the order of their last change.
ChangedAfter(s) == {i \in Ids : changed[i] > s}

\* Mutant: last_seq is taken for the position of a full page.
PagingByLastSeq ==
  LET listed == ChangedAfter(cursor) IN
  /\ phase = "following" /\ pending = {}
  /\ \/ Short(listed) /\ Collect(listed) /\ phase' = "fetching"
     \/ (\E page \in FullPages(listed, changed) : Collect(page)) /\ UNCHANGED phase
  /\ position' = seq /\ cursor' = seq
  /\ UNCHANGED <<found, blocked, dropped>>

\* While pages are full the position is that of the last row read; on a short
\* page it is last_seq, the position of the database.
ChangesPage ==
  LET listed == ChangedAfter(cursor) IN
  /\ phase = "following" /\ pending = {}
  /\ \/ /\ Short(listed) /\ Collect(listed)
        /\ phase' = "fetching" /\ position' = seq /\ UNCHANGED cursor
     \/ /\ \E page \in FullPages(listed, changed) : \E last \in page :
             /\ Collect(page) /\ Ends(last, page, changed)
             /\ position' = changed[last] /\ cursor' = changed[last]
        /\ UNCHANGED phase
  /\ UNCHANGED <<found, blocked, dropped>>

\* GET ?rev=: a revision that is no longer a leaf is answered until the server
\* is compacted, and then it is left out.
FetchLeaf ==
  /\ \E p \in pending :
       /\ First(p, pending)
       /\ \/ items' = items \union {p}
          \/ (\A l \in leaves[p.id] : l.rev # p.rev) /\ UNCHANGED items
       /\ pending' = pending \ {p}
  /\ UNCHANGED <<phase, cursor, found, blocked, position, dropped>>

(***************************************************************************)
(* Decoding, item by item, deletions excepted.  The chunks of a body are   *)
(* asked for one after the other; as chunks only arrive, that succeeds     *)
(* exactly when it would succeed at the moment of the last answer.         *)
(***************************************************************************)
Readable(body) == body \notin Unreadable
Assembles(body) == body \subseteq Stored
Decodes(body) == Readable(body) /\ Assembles(body)

DecodeItem ==
  /\ phase = "fetching" /\ pending = {}
  /\ \E i \in items :
       /\ First(i, items) /\ items' = items \ {i}
       /\ IF i.body \in {Tombstone, Gone} \/ Decodes(i.body)
          THEN found' = found \union {i} /\ UNCHANGED blocked
          ELSE blocked' = blocked \union {i.id} /\ UNCHANGED found
  /\ UNCHANGED <<phase, cursor, pending, position, dropped>>

Read == AllDocsPage \/ ChangesPage \/ FetchLeaf \/ DecodeItem

ReadingDone == phase = "fetching" /\ pending = {} /\ items = {}

ForgetReading ==
  /\ cursor' = 0 /\ pending' = {} /\ items' = {} /\ found' = {}
  /\ blocked' = {} /\ position' = 0 /\ dropped' = {}
=============================================================================
