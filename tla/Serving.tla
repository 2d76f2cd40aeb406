------------------------------ MODULE Serving ------------------------------
(***************************************************************************)
(* The serving side of net/manager.py, which module Inventory leaves to    *)
(* the peers: what a node tells a connection it has, at the end of the     *)
(* handshake and object by object later, and what it answers to getdata    *)
(* when the object has left the memory for the database.  A connection's   *)
(* thread handles one packet at a time; our own objects are announced by   *)
(* threads of the client.  Critical sections and queries are single steps. *)
(* The database is not wiped and its writes do not fail (see Inventory).   *)
(***************************************************************************)
EXTENDS Naturals, FiniteSets, SequencesExt

CONSTANTS
  Peers,     \* connections, and the threads that read them
  Objs, Own, \* object hashes; the ones this node creates
  NoObj,
  Maint,     \* the maintenance thread
  RamMax,    \* INVENTORY_MAX, 50000
  BatchMax,  \* 500: objects that wait for the database at most
  RowsMax,   \* MAX_OBJECT_COUNT_LOCAL, 50000: rows of one inventory
  BlobsMax   \* GETDATA_BLOBS_MAX, 100

ServingAssumption ==
  /\ Own \subseteq Objs /\ NoObj \notin Objs
  /\ Own \intersect Peers = {} /\ Maint \notin Peers
  /\ RamMax \in Nat \ {0} /\ BatchMax \in Nat \ {0} /\ RowsMax \in Nat /\ BlobsMax \in Nat \ {0}

Announcers == Peers \union Own
Flushers == Peers \union {Maint}

VARIABLES
  known,    \* known_hashes
  ram,      \* inventory, in the order of inventory_received
  batch,    \* _db_batch
  flushing, \* flushing[t]: the copy of the batch thread t is writing
  db,       \* the objects table
  alive,    \* objects that have not expired
  up,       \* established: verack has arrived
  greeted,  \* got_version: version has arrived
  told,     \* told[p]: hashes this connection was sent
  has,      \* has[p]: what the peer sent or was sent
  rows,     \* rows[p]: hashes read from the database for an inventory
  wanted, found, \* the getdata in hand, and the blobs collected for it
  pc, obj, targets, \* announcers: position, object, connections still to tell
  denied    \* history: objects that a getdata got no answer for

vars == <<known, ram, batch, flushing, db, alive, up, greeted, told, has, rows, wanted, found,
          pc, obj, targets, denied>>
storeVars == <<known, ram, batch, flushing, db, alive>>
linkVars == <<up, greeted, told, has>>
askVars == <<rows, wanted, found, denied>>
workVars == <<obj, targets>>

\* After a start: the objects of an earlier run are in the database only.
Init ==
  /\ db \in SUBSET (Objs \ Own) /\ known = db
  /\ ram = <<>> /\ batch = {} /\ flushing = [t \in Flushers |-> {}]
  /\ alive = Objs
  /\ up = {} /\ greeted = {}
  /\ told = [p \in Peers |-> {}] /\ has = [p \in Peers |-> {}]
  /\ rows = [p \in Peers |-> {}]
  /\ wanted = [p \in Peers |-> {}] /\ found = [p \in Peers |-> {}]
  /\ pc = [t \in Announcers |-> "idle"]
  /\ obj = [t \in Announcers |-> IF t \in Own THEN t ELSE NoObj]
  /\ targets = [t \in Announcers |-> {}]
  /\ denied = {}

Goto(t, l) == pc' = [pc EXCEPT ![t] = l]
Cached == ToSet(ram)

-----------------------------------------------------------------------------
(* The handshake: version and verack in any order, then the inventory        *)

Version(p) ==
  /\ pc[p] = "idle" /\ p \notin greeted
  /\ greeted' = greeted \union {p}
  /\ Goto(p, IF p \in up THEN "rows" ELSE "idle")
  /\ UNCHANGED <<storeVars, up, told, has, askVars, workVars>>

Verack(p) ==
  /\ pc[p] = "idle" /\ p \notin up
  /\ up' = up \union {p}
  /\ Goto(p, IF p \in greeted THEN "rows" ELSE "idle")
  /\ UNCHANGED <<storeVars, greeted, told, has, askVars, workVars>>

\* send_inventory: up to RowsMax rows of the database, whichever they are ...
ReadRows(p) ==
  /\ pc[p] = "rows"
  /\ \E S \in SUBSET (db \intersect alive) :
       /\ S = db \intersect alive \/ Cardinality(S) = RowsMax
       /\ Cardinality(S) <= RowsMax
       /\ rows' = [rows EXCEPT ![p] = S]
  /\ Goto(p, "cache")
  /\ UNCHANGED <<storeVars, linkVars, wanted, found, denied, workVars>>

\* Mutant of Inventory: the objects in memory are left out.
InventoryOfRows(p) == rows[p]

\* ... and everything in memory.
Inventory(p) == rows[p] \union Cached

SendInventory(p) ==
  /\ pc[p] = "cache"
  /\ told' = [told EXCEPT ![p] = @ \union Inventory(p)]
  /\ rows' = [rows EXCEPT ![p] = {}]
  /\ Goto(p, "idle")
  /\ UNCHANGED <<storeVars, up, greeted, has, wanted, found, denied, workVars>>

\* The connection ends; the next one is to a peer that has nothing yet.
Lose(p) ==
  /\ p \in up \union greeted /\ pc[p] = "idle"
  /\ up' = up \ {p} /\ greeted' = greeted \ {p}
  /\ told' = [told EXCEPT ![p] = {}] /\ has' = [has EXCEPT ![p] = {}]
  /\ UNCHANGED <<storeVars, askVars, pc, workVars>>

-----------------------------------------------------------------------------
(* An object arrives: received_object                                        *)

Receive(p, h) ==
  /\ pc[p] = "idle" /\ p \in up /\ h \in alive \ Own
  /\ has' = [has EXCEPT ![p] = @ \union {h}]
  /\ IF h \in known \union Cached
     THEN UNCHANGED <<known, pc, obj>>
     ELSE /\ known' = known \union {h}
          /\ obj' = [obj EXCEPT ![p] = h]
          /\ Goto(p, "enqueue")
  /\ UNCHANGED <<ram, batch, flushing, db, alive, up, greeted, told, askVars, targets>>

\* A full batch is written by the thread that filled it, and a waiting one
\* after five seconds.
Enqueue(p) ==
  /\ pc[p] = "enqueue"
  /\ batch' = batch \union {obj[p]}
  /\ \/ Goto(p, "take")
     \/ Cardinality(batch') < BatchMax /\ Goto(p, "store")
  /\ UNCHANGED <<known, ram, flushing, db, alive, linkVars, askVars, workVars>>

\* _flush_db_batch
Take(t) ==
  /\ flushing' = [flushing EXCEPT ![t] = batch]
  /\ batch' = {}
  /\ UNCHANGED <<known, ram, db, alive, linkVars, askVars, workVars>>

Write(t) ==
  /\ db' = db \union flushing[t]
  /\ flushing' = [flushing EXCEPT ![t] = {}]
  /\ UNCHANGED <<known, ram, batch, alive, linkVars, askVars, workVars>>

ReaderTakes(p) == pc[p] = "take" /\ Take(p) /\ Goto(p, "write")
ReaderWrites(p) == pc[p] = "write" /\ Write(p) /\ Goto(p, "store")
MaintTakes == flushing[Maint] = {} /\ batch # {} /\ Take(Maint) /\ UNCHANGED pc
MaintWrites == flushing[Maint] # {} /\ Write(Maint) /\ UNCHANGED pc

\* store_object: an object that is there becomes the latest one, a new one
\* takes the place of the oldest.
Stored(h) ==
  IF h \in Cached THEN Append(RemoveAt(ram, CHOOSE i \in DOMAIN ram : ram[i] = h), h)
  ELSE Append(IF Len(ram) < RamMax THEN ram ELSE Tail(ram), h)

\* Bound: RamMax newer objects do not come while one waits to be written, nor
\* between the two reads of an inventory.
Unwritten == batch \union UNION {flushing[t] : t \in Flushers}
InTime(h) ==
  h \notin Cached /\ Len(ram) = RamMax
    => Head(ram) \notin Unwritten /\ \A p \in Peers : pc[p] # "cache"

Store(p) ==
  /\ pc[p] = "store" /\ InTime(obj[p])
  /\ ram' = Stored(obj[p])
  /\ Goto(p, "again")
  /\ UNCHANGED <<known, batch, flushing, db, alive, linkVars, askVars, workVars>>

-----------------------------------------------------------------------------
(* announce_object, for a received object and for one of ours                *)

\* _store_announce_blob: the object may have been evicted since.
Again(t) ==
  /\ pc[t] = (IF t \in Own THEN "idle" ELSE "again") /\ InTime(obj[t])
  /\ ram' = Stored(obj[t])
  /\ Goto(t, "targets")
  /\ UNCHANGED <<known, batch, flushing, db, alive, linkVars, askVars, workVars>>

\* Every established connection but the source.
Listeners(t) == up \ {t}

\* _remember_announce
Remember(t) ==
  /\ pc[t] = "targets"
  /\ known' = known \union {obj[t]}
  /\ targets' = [targets EXCEPT ![t] = Listeners(t)]
  /\ Goto(t, "tell")
  /\ UNCHANGED <<ram, batch, flushing, db, alive, linkVars, askVars, obj>>

\* _send_single_inv fails when the connection is gone.
Tell(t) ==
  /\ pc[t] = "tell"
  /\ \/ \E c \in targets[t] :
          /\ targets' = [targets EXCEPT ![t] = @ \ {c}]
          /\ told' = IF c \in up THEN [told EXCEPT ![c] = @ \union {obj[t]}] ELSE told
          /\ UNCHANGED <<pc, obj>>
     \/ /\ targets[t] = {}
        /\ Goto(t, IF t \in Own THEN "done" ELSE "idle")
        /\ obj' = IF t \in Own THEN obj ELSE [obj EXCEPT ![t] = NoObj]
        /\ UNCHANGED <<targets, told>>
  /\ UNCHANGED <<storeVars, up, greeted, has, askVars>>

-----------------------------------------------------------------------------
(* on_getdata                                                                *)

\* _split_cached_objects
GetData(p, S) ==
  /\ pc[p] = "idle" /\ p \in up
  /\ S # {} /\ S \subseteq told[p] \ has[p]
  /\ wanted' = [wanted EXCEPT ![p] = S]
  /\ found' = [found EXCEPT ![p] = S \intersect Cached]
  /\ Goto(p, IF S \subseteq Cached THEN "answer" ELSE "missing")
  /\ UNCHANGED <<storeVars, linkVars, rows, denied, workVars>>

\* _load_missing_objects
Loaded(S) == S \intersect db

LoadMissing(p) ==
  /\ pc[p] = "missing"
  /\ found' = [found EXCEPT ![p] = @ \union Loaded(wanted[p])]
  /\ Goto(p, "answer")
  /\ UNCHANGED <<storeVars, linkVars, rows, wanted, denied, workVars>>

\* _cap_blobs: a blob at least, BlobsMax at most, as many as their size allows.
Answer(p) ==
  /\ pc[p] = "answer"
  /\ \E served \in SUBSET found[p] :
       /\ Cardinality(served) <= BlobsMax
       /\ served = {} => found[p] = {}
       /\ has' = [has EXCEPT ![p] = @ \union served]
       /\ denied' = IF served = {} THEN denied \union (wanted[p] \intersect alive) ELSE denied
  /\ wanted' = [wanted EXCEPT ![p] = {}] /\ found' = [found EXCEPT ![p] = {}]
  /\ Goto(p, "idle")
  /\ UNCHANGED <<storeVars, up, greeted, told, rows, workVars>>

-----------------------------------------------------------------------------
\* The expiry of our own objects is never looked at: they are in no row.
Expire(h) ==
  /\ h \in alive \ Own
  /\ alive' = alive \ {h}
  /\ UNCHANGED <<known, ram, batch, flushing, db, linkVars, askVars, pc, workVars>>

\* Rows go a day after they expired; the memory keeps what it has.
Prune ==
  /\ \E S \in SUBSET (db \ alive) : S # {} /\ db' = db \ S
  /\ UNCHANGED <<known, ram, batch, flushing, alive, linkVars, askVars, pc, workVars>>

Next ==
  \/ \E p \in Peers :
       \/ Version(p) \/ Verack(p) \/ ReadRows(p) \/ SendInventory(p) \/ Lose(p)
       \/ \E h \in Objs : Receive(p, h)
       \/ Enqueue(p) \/ ReaderTakes(p) \/ ReaderWrites(p) \/ Store(p)
       \/ \E S \in SUBSET Objs : GetData(p, S)
       \/ LoadMissing(p) \/ Answer(p)
  \/ \E t \in Announcers : Again(t) \/ Remember(t) \/ Tell(t)
  \/ MaintTakes \/ MaintWrites \/ Prune
  \/ \E h \in Objs : Expire(h)

Spec == Init /\ [][Next]_vars

-----------------------------------------------------------------------------
(* Properties                                                                *)

PCs == {"idle", "rows", "cache", "enqueue", "take", "write", "store", "again", "targets", "tell",
        "missing", "answer", "done"}

TypeOK ==
  /\ known \subseteq Objs /\ ram \in BoundedSeq(Objs, RamMax) /\ IsInjective(ram)
  /\ batch \subseteq Objs \ Own /\ flushing \in [Flushers -> SUBSET Objs]
  /\ db \subseteq known /\ alive \subseteq Objs
  /\ up \subseteq Peers /\ greeted \subseteq Peers
  /\ told \in [Peers -> SUBSET Objs] /\ has \in [Peers -> SUBSET Objs]
  /\ rows \in [Peers -> SUBSET Objs]
  /\ \A p \in Peers : found[p] \subseteq wanted[p]
  /\ pc \in [Announcers -> PCs] /\ obj \in [Announcers -> Objs \union {NoObj}]
  /\ targets \in [Announcers -> SUBSET Peers]
  /\ denied \subseteq Objs

Holds(h) == h \in Cached \union db \union Unwritten

\* Not announced to everyone yet.
Announcing(h) ==
  \E t \in Announcers : obj[t] = h /\ pc[t] \notin {"done"} /\ (t \in Own => pc[t] # "idle")

\* A connection that has its inventory knows of every object this node holds,
\* whether it came before, during or after the two reads of the inventory, and
\* in whichever order version and verack arrived: otherwise the peer hears of
\* it from somebody else or never.
EveryoneTold ==
  \A p \in up \intersect greeted : pc[p] \notin {"rows", "cache"} =>
    \A h \in alive : Holds(h) /\ ~ Announcing(h) => h \in told[p] \union has[p]

\* What a peer was told of can be fetched until it expires, although the
\* memory evicts, the batch waits and the threads write in any order: a request
\* for objects of others is never answered with nothing.
Fetchable == denied \subseteq Own

\* Objects spread: they are announced to everyone and can then be fetched.
Spreads == EveryoneTold /\ Fetchable

-----------------------------------------------------------------------------
(* What does not hold (see README, divergences)                              *)

\* Nor is a request for one of ours: they are in memory only and may be evicted.
OwnFetchable == denied = {}
=============================================================================
