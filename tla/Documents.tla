------------------------------ MODULE Documents ------------------------------
(***************************************************************************)
(* The documents of one collection, as guests reach them through           *)
(* host.storage.* and hive_blob.*: hive-store/src/appdata.rs, docblobs.rs, *)
(* guestblobs.rs and the mirror tables of appschema.rs.                    *)
(*                                                                         *)
(* A body is what the properties tell apart: the blobs it names, the fields*)
(* that hold the searched word, and whether a containment filter matches.  *)
(* The collection belongs to the install of Home; another app reaches it   *)
(* only through an install grant.  A document's owner may do everything,   *)
(* somebody it was shared with may read and write it.  A lister pages      *)
(* through the collection while others insert, update and delete.          *)
(***************************************************************************)
EXTENDS Integers, FiniteSets

CONSTANTS
  None, Docs, Blobs,
  Bodies,          \* what may be written: records of blobs, has, match, and the trust
                   \* of the invocation that writes it
  Home, Guest,     \* the principal that owns the collection; one it shares with
  Plans,           \* builds that may be registered: the field each indexes
  Limit, Batch,    \* rows of a page; rows of one read (QUERY_BATCH)
  MaxWrites,       \* inserts, updates and deletes
  OneWriter        \* SQLite: a transaction excludes every other writer

Levels == {"trusted", "untrusted"}

\* A page and a read hold a row (query_inner turns any other limit into its
\* default); a document's id is no name of another kind of source, and None is
\* no document and no row.
ASSUME DocumentConstants ==
  /\ {Limit, Batch} \subseteq Nat \ {0}
  /\ None \notin Docs /\ "upload" \notin Docs
  /\ \A b \in Bodies : b.trust \in Levels /\ \A l \in Levels : [body |-> b, trust |-> l] # None

Parties == {Home, Guest}

VARIABLES
  doc,      \* the collection's rows with their entities, or None
  born,     \* created_at of each document: its place in the order of creation
  created,
  shared,   \* documents Home gave Guest a write grant on
  refs,     \* blob_refs: <<principal, blob, source>>; the source is a document or "upload"
  bytes,    \* blobs whose bytes are stored
  index,    \* the field the mirror's triggers copy, or None
  mirror,   \* the virtual table: documents it finds the word in
  tx,       \* each principal's update between reading the row and writing it
  writes,
  page      \* the lister: its cursor, the rows of this page, all it was given, and
            \* the documents that stayed listable since it began

docsVars == <<doc, born, created, shared, refs, bytes, index, mirror, tx, writes, page>>

Unlocked == \A p \in Parties : tx[p] = None
Stored == {d \in Docs : doc[d] # None}
Idle   == [state |-> "idle", search |-> FALSE, after |-> None, out |-> {}, got |-> {}, due |-> {}, cut |-> FALSE]

DocsInit ==
  /\ doc = [d \in Docs |-> None] /\ born = [d \in Docs |-> 0] /\ created = 0
  /\ shared = {}
  /\ refs = {} /\ bytes = {}
  /\ index = None /\ mirror = {}
  /\ tx = [p \in Parties |-> None] /\ writes = 0
  /\ page = Idle

-----------------------------------------------------------------------------
(* What the guard says of a row: owner, grant, or nothing.                 *)

RowReason(who, d) ==
  IF who = Home THEN "owner" ELSE IF d \in shared THEN "grant" ELSE None

\* write_trust
Weaker(a, b) == IF "untrusted" \in {a, b} THEN "untrusted" ELSE "trusted"

-----------------------------------------------------------------------------
(* Blob references.                                                        *)

HoldsRef(who, b)     == \E r \in refs : r[1] = who /\ r[2] = b
HeldBySource(who, d) == {b \in Blobs : <<who, b, d>> \in refs}

\* descriptors_in: the blobs a body names.
Named(body) == body.blobs

\* link_ref refuses a blob the principal holds no reference to.
CanLink(who, d, named) == \A b \in named \ HeldBySource(who, d) : HoldsRef(who, b)

\* Mutant: what the new body no longer names is released whatever its source.
RelinkedByBlob(who, d, named) ==
  (refs \cup {<<who, b, d>> : b \in named})
    \ {r \in refs : r[1] = who /\ r[2] \in HeldBySource(who, d) \ named}

\* relink_descriptors: link what the catalogue does not hold yet, release the rest.
Relinked(who, d, named) ==
  (refs \cup {<<who, b, d>> : b \in named}) \ {<<who, b, d>> : b \in Blobs \ named}

-----------------------------------------------------------------------------
(* The mirror: triggers on the collection's table.                         *)

InMirror(body) == index # None /\ index \in body.has

\* Mutant: an update only inserts.
MirrorUpdatedKeeping(d, body) == IF InMirror(body) THEN mirror \cup {d} ELSE mirror

\* _au: delete the old row, insert the new value if there is one.
MirrorUpdated(d, body) == (mirror \ {d}) \cup (IF InMirror(body) THEN {d} ELSE {})

-----------------------------------------------------------------------------
(* Listing and writing meet here: what stays listable throughout.          *)

StillDue(d, body) ==
  page' = [page EXCEPT
    !.due = IF body # None /\ body.match /\ (page.search => InMirror(body)) THEN @ ELSE @ \ {d},
    !.cut = @ \/ (page.state # "idle" /\ body = None /\ page.after = d)]

CanWrite == writes < MaxWrites /\ (OneWriter => Unlocked)

-----------------------------------------------------------------------------
(* The verbs.                                                              *)

\* insert_inner: a write on the collection, so its owner's; the row, its
\* entity, its references, its mirror row and its event commit together.
InsertDoc(d, body) ==
  /\ CanWrite /\ index # None /\ doc[d] = None /\ born[d] = 0
  /\ CanLink(Home, d, Named(body))
  /\ doc' = [doc EXCEPT ![d] = [body |-> body, trust |-> body.trust]]
  /\ created' = created + 1 /\ born' = [born EXCEPT ![d] = created + 1]
  /\ refs' = Relinked(Home, d, Named(body))
  /\ mirror' = MirrorUpdated(d, body)
  /\ writes' = writes + 1
  /\ UNCHANGED <<shared, bytes, index, tx, page>>

\* update_inner, up to the read of the row's trust.
UpdateReads(who, d, body) ==
  /\ CanWrite /\ tx[who] = None
  /\ doc[d] # None /\ RowReason(who, d) # None
  /\ tx' = [tx EXCEPT ![who] = [d |-> d, body |-> body, trust |-> Weaker(doc[d].trust, body.trust)]]
  /\ UNCHANGED <<doc, born, created, shared, refs, bytes, index, mirror, writes, page>>

\* The rest: the row (not_found if it went away), its references, its mirror row.
UpdateWrites(who) ==
  /\ tx[who] # None
  /\ LET d == tx[who].d
         body == tx[who].body
     IN  IF doc[d] = None \/ ~CanLink(who, d, Named(body))
         THEN UNCHANGED <<doc, refs, mirror, writes, page>>
         ELSE /\ doc' = [doc EXCEPT ![d] = [body |-> body, trust |-> tx[who].trust]]
              /\ refs' = Relinked(who, d, Named(body))
              /\ mirror' = MirrorUpdated(d, body)
              /\ writes' = writes + 1
              /\ StillDue(d, body)
  /\ tx' = [tx EXCEPT ![who] = None]
  /\ UNCHANGED <<born, created, shared, bytes, index>>

\* delete_inner: the owner's act; its references go by source.
DeleteDoc(d) ==
  /\ CanWrite /\ doc[d] # None
  /\ doc' = [doc EXCEPT ![d] = None]
  /\ refs' = refs \ {<<Home, b, d>> : b \in Blobs}
  /\ mirror' = mirror \ {d}
  /\ shared' = shared \ {d}
  /\ writes' = writes + 1
  /\ StillDue(d, None)
  /\ UNCHANGED <<born, created, bytes, index, tx>>

\* blob.append, and POST /blobs: bytes are sealed, then published under a
\* reference of the principal that sent them.
AppendBlob(who, b) ==
  /\ <<who, b, "upload">> \notin refs /\ (OneWriter => Unlocked)
  /\ refs' = refs \cup {<<who, b, "upload">>} /\ bytes' = bytes \cup {b}
  /\ UNCHANGED <<doc, born, created, shared, index, mirror, tx, writes, page>>

\* Catalog::release of what was uploaded, and the sweep of what nothing holds.
ReleaseUpload(who, b) ==
  /\ <<who, b, "upload">> \in refs /\ (OneWriter => Unlocked)
  /\ refs' = refs \ {<<who, b, "upload">>}
  /\ UNCHANGED <<doc, born, created, shared, bytes, index, mirror, tx, writes, page>>

Sweep(b) ==
  /\ b \in bytes /\ (OneWriter => Unlocked)
  /\ \A r \in refs : r[2] # b
  /\ bytes' = bytes \ {b}
  /\ UNCHANGED <<doc, born, created, shared, refs, index, mirror, tx, writes, page>>

Share(d) ==
  /\ doc[d] # None /\ d \notin shared /\ (OneWriter => Unlocked)
  /\ shared' = shared \cup {d}
  /\ UNCHANGED <<doc, born, created, refs, bytes, index, mirror, tx, writes, page>>

\* apply_schema_plan.  SQLite: the virtual table is created if it is not there,
\* its triggers are made anew, rows already stored are not copied.  Postgres: a
\* generated column, which a later plan leaves as it is.
Indexed(field) == IF OneWriter \/ index = None THEN field ELSE index

RegisterBuild(field) ==
  /\ index # field /\ (OneWriter => Unlocked)
  /\ index' = Indexed(field)
  /\ UNCHANGED <<doc, born, created, shared, refs, bytes, mirror, tx, writes, page>>

-----------------------------------------------------------------------------
(* query_inner: read a batch past the cursor, filter it, until the page is *)
(* full or a batch comes back short.  Nothing holds the rows between reads.*)

\* The rows past the cursor, newest first.  The cursor's place is looked up in
\* entities; once its document is gone nothing is past it.
PastCursor(after) ==
  IF after = None THEN Stored
  ELSE IF doc[after] = None THEN {}
  ELSE {d \in Stored : born[d] < born[after]}

\* The words of a search filter the same statement, through the mirror.
Searched(ds) == IF page.search THEN ds \cap mirror ELSE ds

\* ORDER BY created_at DESC LIMIT n, and the last row of it.
Newest(ds, n) == {d \in ds : Cardinality({e \in ds : born[e] > born[d]}) < n}
LastOf(ds)    == CHOOSE d \in ds : \A e \in ds : born[d] <= born[e]

Rows(after) == Newest(Searched(PastCursor(after)), Batch)

BeginListing(search) ==
  /\ page.state = "idle" /\ Stored # {}
  /\ page' = [Idle EXCEPT !.state = "reading", !.search = search,
                !.due = {d \in Stored : doc[d].body.match /\ (search => InMirror(doc[d].body))}]
  /\ UNCHANGED <<doc, born, created, shared, refs, bytes, index, mirror, tx, writes>>

Matching(rows) == {d \in rows : doc[d].body.match}

\* Mutant: the cursor handed back is the last row read.
ReadBatchSkipping ==
  /\ page.state = "reading"
  /\ LET rows  == Rows(page.after)
         hits  == Matching(rows)
         room  == Limit - Cardinality(page.out)
         full  == Cardinality(hits) >= room
         taken == Newest(hits, room)
         short == Cardinality(rows) < Batch
     IN  page' = [page EXCEPT
           !.state = IF short /\ ~full THEN "done" ELSE "reading",
           !.after = IF rows = {} THEN @ ELSE LastOf(rows),
           !.out   = IF full THEN {} ELSE @ \cup taken,
           !.got   = IF full \/ short THEN @ \cup page.out \cup taken ELSE @]
  /\ UNCHANGED <<doc, born, created, shared, refs, bytes, index, mirror, tx, writes>>

\* One read.  A full page ends the call with a cursor, which the lister asks
\* with next; a short batch ends it without one, and the listing with it.
ReadBatch ==
  /\ page.state = "reading"
  /\ LET rows  == Rows(page.after)
         hits  == Matching(rows)
         room  == Limit - Cardinality(page.out)
         full  == Cardinality(hits) >= room
         taken == Newest(hits, room)
         short == Cardinality(rows) < Batch
     IN  page' = [page EXCEPT
           !.state = IF short /\ ~full THEN "done" ELSE "reading",
           !.after = IF full THEN LastOf(taken) ELSE IF rows = {} THEN @ ELSE LastOf(rows),
           !.out   = IF full THEN {} ELSE @ \cup taken,
           !.got   = IF full \/ short THEN @ \cup page.out \cup taken ELSE @]
  /\ UNCHANGED <<doc, born, created, shared, refs, bytes, index, mirror, tx, writes>>

EndListing ==
  /\ page.state = "done" /\ page' = Idle
  /\ UNCHANGED <<doc, born, created, shared, refs, bytes, index, mirror, tx, writes>>

-----------------------------------------------------------------------------

DocsNext ==
  \/ \E d \in Docs, body \in Bodies :
       InsertDoc(d, body) \/ \E who \in Parties : UpdateReads(who, d, body)
  \/ \E who \in Parties : UpdateWrites(who)
  \/ \E d \in Docs : DeleteDoc(d) \/ Share(d)
  \/ \E who \in Parties, b \in Blobs : AppendBlob(who, b) \/ ReleaseUpload(who, b)
  \/ \E b \in Blobs : Sweep(b)
  \/ \E field \in Plans : RegisterBuild(field)
  \/ \E search \in BOOLEAN : BeginListing(search)
  \/ ReadBatch \/ EndListing

DocsSpec == DocsInit /\ [][DocsNext]_docsVars

-----------------------------------------------------------------------------
(* Properties.                                                             *)

\* Every blob a stored document names can still be read: whoever wrote the
\* document last holds each of them from the document itself, so releasing an
\* upload, another document's update or a delete never lets the sweep take the
\* bytes from under it.
NamedBytesStay == \A d \in Stored : Named(doc[d].body) \subseteq bytes

\* A search finds exactly the documents that hold the word where the index
\* looks: the triggers of `mirror_triggers` keep the virtual table in step
\* through every insert, update and delete.
SearchIsExact ==
  index # None => mirror = {d \in Stored : index \in doc[d].body.has}

\* A listing that ran to its end returned every document that was stored and
\* matched the whole time, however others wrote between its reads; only the
\* deletion of the document its cursor stands on may cut it short.
ListingIsComplete ==
  page.state = "done" /\ ~page.cut => page.due \subseteq page.got

\* Does not hold (README, "Divergences").  A short batch means the collection is
\* exhausted: the same, with no exception.
ShortBatchIsTheEnd == page.state = "done" => page.due \subseteq page.got

\* Does not hold (README, "Divergences").  A document that is gone holds no blob.
ReleasedWithTheDocument == \A r \in refs : r[3] \in Docs => doc[r[3]] # None
=============================================================================
