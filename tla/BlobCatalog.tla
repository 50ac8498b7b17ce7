---------------------------- MODULE BlobCatalog ----------------------------
(***************************************************************************)
(* Content-addressed blobs (hive-blob/src/catalog.rs over disk.rs): the    *)
(* bytes on a driver, the blobs row, and the references that own them.     *)
(*                                                                         *)
(* Producers seal bytes and publish them, or link bytes they already hold; *)
(* owners release references; a sweeper lists unreferenced blobs, trashes  *)
(* a row and then deletes its bytes.  Sealing and deleting touch the disk  *)
(* outside any transaction, and the process may die between any two steps. *)
(* Relocators (relocate.rs) move bytes from one driver to another beside   *)
(* them: they copy, repoint the row and then delete the source.            *)
(*                                                                         *)
(* A write transaction is two steps, what it reads and what it commits.    *)
(* On SQLite it holds the write lock throughout (OneWriter); on Postgres   *)
(* other transactions commit in between, and of what was read only the     *)
(* row that an UPDATE locks is looked at again.                            *)
(***************************************************************************)
EXTENDS Naturals

CONSTANTS
  Hashes,      \* content addresses
  Owners,      \* principals
  Sources,     \* what produced a reference: its kind and id
  Producers,   \* requests and guests that write
  Movers,      \* relocators, all from Src to Dst
  Src, Dst,    \* two drivers
  Casts,       \* who takes part, for which references, and the catalog's driver
  OneWriter,   \* SQLite's BEGIN IMMEDIATE, as against Postgres's BEGIN
  NoOne,       \* nobody holds the write lock
  Sweeper,     \* the sweeper, as a holder of the lock
  MaxCrashes   \* restarts of the daemon

Levels == {"trusted", "untrusted"}
Refs == [owner : Owners, hash : Hashes, source : Sources]

ASSUME BlobConstants ==
  /\ OneWriter \in BOOLEAN
  /\ NoOne \notin Producers /\ Sweeper \notin Producers /\ NoOne # Sweeper
  /\ MaxCrashes \in Nat /\ Src # Dst
  /\ Hashes # {} /\ Refs # {}
  /\ Casts \subseteq [producers : SUBSET Producers, movers : SUBSET Movers,
                      refs : SUBSET Refs, catalog : {Src, Dst}]

VARIABLES
  row,      \* blobs.state, or "none"
  driver,   \* blobs.driver
  bytes,    \* the drivers and addresses with bytes
  held,     \* references not released
  trust,    \* blob_refs.trust, kept on a released reference; "none" without a row
  lock,     \* who holds the write lock
  phase,     \* a producer: "idle", "sealed", "publish", "link"
  ref,      \* the reference it is writing
  level,    \* the level it will carry
  sweeper,    \* the sweeper: "idle", "listed", "trash", "delete"
  target,   \* the address it is at
  mover,    \* a relocator: "idle", "listed", "open", "copied", "moved"
  moving,   \* the address it is at
  cast,     \* who takes part in this behaviour
  vouched,  \* history: the owner and hash of every trusted publish
  crashes

files == <<row, driver, bytes, held, trust>>
moves == <<mover, moving, cast>>
catalogVars == <<files, lock, phase, ref, level, sweeper, target, vouched, crashes, moves>>

CatalogInit ==
  /\ row = [h \in Hashes |-> "none"]
  /\ bytes = {}
  /\ held = {}
  /\ trust = [k \in Refs |-> "none"]
  /\ lock = NoOne
  /\ phase = [p \in Producers |-> "idle"]
  /\ ref \in [Producers -> {CHOOSE k \in Refs : TRUE}]
  /\ level = [p \in Producers |-> "untrusted"]
  /\ sweeper = "idle"
  /\ target \in {CHOOSE h \in Hashes : TRUE}
  /\ vouched = {}
  /\ crashes = 0
  /\ mover = [m \in Movers |-> "idle"]
  /\ moving \in [Movers -> {CHOOSE h \in Hashes : TRUE}]
  /\ cast \in Casts
  /\ driver = [h \in Hashes |-> cast.catalog]

-----------------------------------------------------------------------------

Weaker(a, b) == IF a = "trusted" /\ b = "trusted" THEN "trusted" ELSE "untrusted"
Referenced(h) == \E k \in held : k.hash = h
Mine(o, h) == {k \in held : k.owner = o /\ k.hash = h}

\* resolve_with: the weakest of the caller's references to live bytes.
Resolves(o, h) == row[h] = "live" /\ Mine(o, h) # {}

HeldLevel(o, h) ==
  IF \A k \in Mine(o, h) : trust[k] = "trusted" THEN "trusted" ELSE "untrusted"

\* A statement that writes waits for the write lock of the file.
Writable == OneWriter => lock = NoOne

\* Db::begin, and the end of the transaction.
BeginTx(p) == Writable /\ lock' = IF OneWriter THEN p ELSE lock
EndTx(p) == lock' = IF lock = p THEN NoOne ELSE lock

\* insert_ref: write the reference or revive it, never upward.
InsertRef(k, l) ==
  /\ held' = held \cup {k}
  /\ trust' = [trust EXCEPT ![k] = IF @ = "none" THEN l ELSE Weaker(@, l)]

-----------------------------------------------------------------------------
(* Producers.                                                               *)

\* begin_upload, write and seal: afterwards the bytes are at their address,
\* put there now or found there.
Seal(p) ==
  /\ phase[p] = "idle"
  /\ \E k \in cast.refs, l \in Levels :
       /\ ref' = [ref EXCEPT ![p] = k]
       /\ level' = [level EXCEPT ![p] = l]
       /\ bytes' = bytes \cup {<<cast.catalog, k.hash>>}
  /\ phase' = [phase EXCEPT ![p] = "sealed"]
  /\ UNCHANGED <<driver, row, held, trust, lock, sweeper, target, vouched, crashes, moves>>

\* publish, what it reads: bytes trashed on purpose do not come back.
PublishReads(p) ==
  /\ phase[p] = "sealed"
  /\ Writable
  /\ IF row[ref[p].hash] = "trashed"
     THEN phase' = [phase EXCEPT ![p] = "idle"] /\ UNCHANGED lock
     ELSE phase' = [phase EXCEPT ![p] = "publish"] /\ BeginTx(p)
  /\ UNCHANGED <<files, ref, level, sweeper, target, vouched, crashes, moves>>

\* publish, what it commits: the reference, then the flip to live, which looks
\* at the state again.
PublishCommits(p) ==
  LET k == ref[p] IN
  /\ phase[p] = "publish"
  /\ IF row[k.hash] = "trashed"
     THEN UNCHANGED <<files, vouched>>
     ELSE /\ InsertRef(k, level[p])
          /\ row' = [row EXCEPT ![k.hash] = "live"]
          /\ vouched' = IF level[p] = "trusted" THEN vouched \cup {<<k.owner, k.hash>>} ELSE vouched
          /\ UNCHANGED bytes
  /\ EndTx(p)
  /\ phase' = [phase EXCEPT ![p] = "idle"]
  /\ UNCHANGED <<driver, ref, level, sweeper, target, crashes, moves>>

\* reserve: a pending row before the bytes exist; nothing on a conflict.
Reserve(h) ==
  /\ row[h] = "none"
  /\ Writable
  /\ row' = [row EXCEPT ![h] = "pending"]
  /\ UNCHANGED <<driver, bytes, held, trust, lock, phase, ref, level, sweeper, target, vouched, crashes, moves>>

\* Mutant: the link takes the level it was asked for.
LinkReadsAsked(p) ==
  /\ phase[p] = "idle"
  /\ \E k \in cast.refs, l \in Levels :
       /\ Resolves(k.owner, k.hash)
       /\ ref' = [ref EXCEPT ![p] = k]
       /\ level' = [level EXCEPT ![p] = l]
  /\ BeginTx(p)
  /\ phase' = [phase EXCEPT ![p] = "link"]
  /\ UNCHANGED <<files, sweeper, target, vouched, crashes, moves>>

\* link_ref, what it reads: the caller's own references, and the row's state.
LinkReads(p) ==
  /\ phase[p] = "idle"
  /\ \E k \in cast.refs, l \in Levels :
       /\ Resolves(k.owner, k.hash)
       /\ ref' = [ref EXCEPT ![p] = k]
       /\ level' = [level EXCEPT ![p] = Weaker(l, HeldLevel(k.owner, k.hash))]
  /\ BeginTx(p)
  /\ phase' = [phase EXCEPT ![p] = "link"]
  /\ UNCHANGED <<files, sweeper, target, vouched, crashes, moves>>

LinkCommits(p) ==
  /\ phase[p] = "link"
  /\ InsertRef(ref[p], level[p])
  /\ EndTx(p)
  /\ phase' = [phase EXCEPT ![p] = "idle"]
  /\ UNCHANGED <<driver, row, bytes, ref, level, sweeper, target, vouched, crashes, moves>>

\* release: one reference, one statement.
Release(k) ==
  /\ k \in held
  /\ Writable
  /\ held' = held \ {k}
  /\ UNCHANGED <<driver, row, bytes, trust, lock, phase, ref, level, sweeper, target, vouched, crashes, moves>>

\* release_by_source: every reference one producer of one owner holds.
ReleaseBySource(o, s) ==
  LET gone == {k \in held : k.owner = o /\ k.source = s} IN
  /\ gone # {}
  /\ Writable
  /\ held' = held \ gone
  /\ UNCHANGED <<driver, row, bytes, trust, lock, phase, ref, level, sweeper, target, vouched, crashes, moves>>

-----------------------------------------------------------------------------
(* The sweeper.                                                             *)

\* unreferenced: a candidate, which is not permission to delete.
Unreferenced ==
  /\ sweeper = "idle"
  /\ \E h \in Hashes :
       /\ row[h] = "live" /\ ~Referenced(h)
       /\ target' = h
  /\ sweeper' = "listed"
  /\ UNCHANGED <<files, lock, phase, ref, level, vouched, crashes, moves>>

\* Mutant: the candidate is believed.
TrashReadsNothing ==
  /\ sweeper = "listed"
  /\ BeginTx(Sweeper) /\ sweeper' = "trash"
  /\ UNCHANGED <<files, phase, ref, level, target, vouched, crashes, moves>>

\* Mutant: the bytes go before the row.
TrashReadsDeletesFirst ==
  /\ sweeper = "listed"
  /\ Writable
  /\ IF Referenced(target)
     THEN sweeper' = "idle" /\ UNCHANGED <<lock, bytes>>
     ELSE sweeper' = "trash" /\ BeginTx(Sweeper) /\ bytes' = bytes \ {<<cast.catalog, target>>}
  /\ UNCHANGED <<driver, row, held, trust, phase, ref, level, target, vouched, crashes, moves>>

\* trash, what it reads: is there a reference after all?
TrashReads ==
  /\ sweeper = "listed"
  /\ Writable
  /\ IF Referenced(target)
     THEN sweeper' = "idle" /\ UNCHANGED lock
     ELSE sweeper' = "trash" /\ BeginTx(Sweeper)
  /\ UNCHANGED <<files, phase, ref, level, target, vouched, crashes, moves>>

\* trash, what it commits; the UPDATE looks again at the state of its own row.
TrashCommits ==
  /\ sweeper = "trash"
  /\ IF row[target] = "live"
     THEN row' = [row EXCEPT ![target] = "trashed"] /\ sweeper' = "delete"
     ELSE UNCHANGED row /\ sweeper' = "idle"
  /\ EndTx(Sweeper)
  /\ UNCHANGED <<driver, bytes, held, trust, phase, ref, level, target, vouched, crashes, moves>>

\* delete_trashed_bytes.
DeleteTrashedBytes ==
  /\ sweeper = "delete"
  /\ row[target] = "trashed"
  /\ bytes' = bytes \ {<<cast.catalog, target>>}
  /\ sweeper' = "idle"
  /\ UNCHANGED <<driver, row, held, trust, lock, phase, ref, level, target, vouched, crashes, moves>>

-----------------------------------------------------------------------------
(* Relocators.                                                              *)

others == <<held, trust, lock, phase, ref, level, sweeper, target, vouched, crashes, cast>>

\* pending: a live blob the source holds.
Pending(m) ==
  /\ mover[m] = "idle"
  /\ \E h \in Hashes : row[h] = "live" /\ driver[h] = Src /\ moving' = [moving EXCEPT ![m] = h]
  /\ mover' = [mover EXCEPT ![m] = "listed"]
  /\ UNCHANGED <<row, driver, bytes>> /\ UNCHANGED others

\* one: stat and open the source, or fail.
OpenSource(m) ==
  /\ mover[m] = "listed"
  /\ mover' = [mover EXCEPT ![m] = IF <<Src, moving[m]>> \in bytes THEN "open" ELSE "idle"]
  /\ UNCHANGED <<row, driver, bytes, moving>> /\ UNCHANGED others

\* The copy is sealed on the destination, whatever became of the source's name;
\* or it fails and is aborted.
SealCopy(m) ==
  /\ mover[m] = "open"
  /\ \/ /\ mover' = [mover EXCEPT ![m] = "copied"]
        /\ bytes' = bytes \cup {<<Dst, moving[m]>>}
     \/ mover' = [mover EXCEPT ![m] = "idle"] /\ UNCHANGED bytes
  /\ UNCHANGED <<row, driver, moving>> /\ UNCHANGED others

\* "Guarded on driver so two relocators racing the same blob cannot both claim it".
Repoint(m) ==
  /\ mover[m] = "copied" /\ Writable
  /\ IF row[moving[m]] = "live" /\ driver[moving[m]] = Src
     THEN driver' = [driver EXCEPT ![moving[m]] = Dst] /\ mover' = [mover EXCEPT ![m] = "moved"]
     ELSE mover' = [mover EXCEPT ![m] = "idle"] /\ UNCHANGED driver
  /\ UNCHANGED <<row, bytes, moving>> /\ UNCHANGED others

\* "Only now": the source copy goes, or a failure leaves it.
DeleteSource(m) ==
  /\ mover[m] = "moved" /\ mover' = [mover EXCEPT ![m] = "idle"]
  /\ \/ bytes' = bytes \ {<<Src, moving[m]>>} \/ UNCHANGED bytes
  /\ UNCHANGED <<row, driver, moving>> /\ UNCHANGED others

-----------------------------------------------------------------------------

\* The daemon stops: open transactions roll back, Sealed values and the
\* sweeper's place are gone.
Crash ==
  /\ crashes < MaxCrashes
  /\ crashes' = crashes + 1
  /\ phase' = [p \in Producers |-> "idle"]
  /\ sweeper' = "idle"
  /\ mover' = [m \in Movers |-> "idle"]
  /\ lock' = NoOne
  /\ UNCHANGED <<files, ref, level, target, vouched, moving, cast>>

Sweep == Unreferenced \/ TrashReads \/ TrashCommits \/ DeleteTrashedBytes
Move(m) == Pending(m) \/ OpenSource(m) \/ SealCopy(m) \/ Repoint(m) \/ DeleteSource(m)
Produce(p) == Seal(p) \/ PublishReads(p) \/ PublishCommits(p) \/ LinkReads(p) \/ LinkCommits(p)

CatalogNext ==
  \/ \E p \in cast.producers : Produce(p)
  \/ \E m \in cast.movers : Move(m)
  \/ \E h \in Hashes : Reserve(h)
  \/ \E k \in Refs : Release(k)
  \/ \E o \in Owners, s \in Sources : ReleaseBySource(o, s)
  \/ Sweep \/ Crash

CatalogSpec == CatalogInit /\ [][CatalogNext]_catalogVars

\* The sweeper runs and transactions end.
SweepSpec ==
  /\ CatalogSpec
  /\ WF_catalogVars(Sweep)
  /\ \A p \in Producers : WF_catalogVars(PublishCommits(p) \/ LinkCommits(p))

-----------------------------------------------------------------------------
(* Properties.                                                              *)

\* What a reference promises its owner: whatever other owners release, whatever
\* the sweeper is in the middle of and wherever the daemon died, the row is live
\* and the bytes are at their address, on the driver the row names.
HeldIsReadable == \A k \in held : row[k.hash] = "live" /\ <<driver[k.hash], k.hash>> \in bytes

\* "a live row pointing at nothing ... reads as corruption": delete follows the
\* trashing of the row, a dedup hit in seal never outlives it, and relocators
\* that race leave a copy where the row points.
LiveHasBytes == \A h \in Hashes : row[h] = "live" => <<driver[h], h>> \in bytes

\* "Re-referencing must not launder untrusted bytes into trusted ones": a
\* trusted reference goes back to a trusted publish of those bytes by the same
\* owner, through any number of links, releases and revivals.
TrustIsVouchedFor ==
  \A k \in held : trust[k] = "trusted" => <<k.owner, k.hash>> \in vouched

\* Does not hold under SweepSpec (README, "Divergences").  trash: bytes left by
\* a crash after the row was trashed are what "the next sweep cleans up".
TrashedBytesCleared ==
  \A h \in Hashes : (row[h] = "trashed" /\ <<driver[h], h>> \in bytes) ~> (<<driver[h], h>> \notin bytes)
=============================================================================
