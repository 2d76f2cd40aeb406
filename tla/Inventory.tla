------------------------------ MODULE Inventory ------------------------------
(***************************************************************************)
(* The object store of net/manager.py: how hashes announced by peers       *)
(* become requests, how requests become stored objects, and what a wipe, a *)
(* restart or a failing database does in the middle.  One reader thread    *)
(* per connection, the maintenance thread, the threads that announce our   *)
(* own objects and the thread that wipes share five tables: known_hashes,  *)
(* inventory, pending_getdata, the database batch and the objects table.   *)
(* Each critical section under manager.lock or _db_batch_lock is one step. *)
(*                                                                         *)
(* A peer announces what it has after its handshake; it may ignore any     *)
(* request.  Rate limiting is a message that is dropped.                   *)
(***************************************************************************)
EXTENDS Naturals, FiniteSets

CONSTANTS
  Objs,        \* object hashes
  Own,         \* the objects this node creates and announces
  Readers,     \* connection threads
  Maint,       \* the maintenance thread
  NoObj,
  InvMax,      \* INVENTORY_MAX, 50000 in the code
  KnownMax,    \* 200000 in the code
  KnownKeep,   \* 150000 in the code
  MaxPending,  \* MAX_PENDING, 200000 in the code
  Lossy,       \* whether connections are lost and inv messages over the rate limit
  MaxAccepted, \* bound: objects accepted as new in a behaviour
  MaxWipes,    \* bound: wipes in a behaviour
  MaxCrashes,  \* bound: process crashes in a behaviour
  MaxDbErrors, \* bound: batch writes that fail in a behaviour
  MaxForgotten \* bound: passes that give requests up after PENDING_TTL

ASSUME OwnAssumption == Own \subseteq Objs /\ NoObj \notin Objs
ASSUME FiniteAssumption == IsFiniteSet(Objs)
ASSUME ThreadsAssumption == Maint \notin Readers
ASSUME CapsAssumption ==
  /\ InvMax \in Nat \ {0}
  /\ KnownMax \in Nat
  /\ KnownKeep \in Nat /\ KnownKeep <= KnownMax
  /\ MaxPending \in Nat
  /\ Lossy \in BOOLEAN
ASSUME BoundsAssumption ==
  /\ MaxAccepted \in Nat /\ MaxWipes \in Nat /\ MaxCrashes \in Nat
  /\ MaxDbErrors \in Nat /\ MaxForgotten \in Nat

Flushers == Readers \union {Maint}

ReaderPCs == {"idle", "remember", "ask", "enqueue", "flush", "write", "store",
              "settle", "announce", "remembered"}
WipePCs == {"idle", "batch", "delete", "drop"}

VARIABLES
  known,     \* known_hashes
  inv,       \* inventory: the objects in memory
  pending,   \* pending_getdata: hashes asked for and not received
  batch,     \* _db_batch
  flushing,  \* flushing[t]: the copy of the batch thread t is writing
  db,        \* the objects table
  up,        \* established connections
  due,       \* due[r]: what the peer of r is still to announce
  asked,     \* <<r, h>>: a getdata for h the peer of r has not reacted to
  delayed,   \* <<r, h>>: a getdata waiting in a net-getdata-delay thread
  pc,        \* pc[r]: where reader r is
  wanted,    \* wanted[r]: hashes of the inv that r is handling
  obj,       \* obj[r]: the object that r is handling
  own,       \* own[h]: progress of announce_object for our object h
  wipe,      \* where the wiping thread is
  accepted,  \* accepted[h]: times h was accepted as new and handed on
  resets,    \* times known_hashes was emptied or cut
  bounds     \* counters of the bounded events

vars == <<known, inv, pending, batch, flushing, db, up, due, asked, delayed, pc,
          wanted, obj, own, wipe, accepted, resets, bounds>>

tables == <<known, inv, pending>>
dbVars == <<batch, flushing, db>>
netVars == <<up, due, asked, delayed>>
history == <<accepted, resets, bounds>>

Events == {"accepted", "wipes", "crashes", "dbErrors", "forgotten"}
Limit == [e \in Events |->
  CASE e = "accepted" -> MaxAccepted [] e = "wipes" -> MaxWipes
    [] e = "crashes" -> MaxCrashes   [] e = "dbErrors" -> MaxDbErrors
    [] e = "forgotten" -> MaxForgotten]

Happens(e) == bounds[e] < Limit[e] /\ bounds' = [bounds EXCEPT ![e] = @ + 1]
Goto(r, l) == pc' = [pc EXCEPT ![r] = l]

-----------------------------------------------------------------------------
Init ==
  /\ known = {} /\ inv = {} /\ pending = {}
  /\ batch = {} /\ db = {}
  /\ flushing = [t \in Flushers |-> {}]
  /\ up = {} /\ asked = {} /\ delayed = {}
  /\ due = [r \in Readers |-> {}]
  /\ pc = [r \in Readers |-> "idle"]
  /\ wanted = [r \in Readers |-> {}]
  /\ obj = [r \in Readers |-> NoObj]
  /\ own = [h \in Own |-> "none"]
  /\ wipe = "idle"
  /\ accepted = [h \in Objs |-> 0]
  /\ resets = 0
  /\ bounds = [e \in Events |-> 0]

\* What exists on the network: everything but our objects not announced yet.
Public == {h \in Objs : h \in Own => own[h] = "done"}

Seen(h) == h \in known \/ h \in inv

-----------------------------------------------------------------------------
(* Connections                                                               *)

Connect(r) ==
  /\ r \notin up
  /\ pc[r] = "idle"
  /\ up' = up \union {r}
  /\ due' = [due EXCEPT ![r] = Public]
  /\ UNCHANGED <<tables, dbVars, asked, delayed, pc, wanted, obj, own, wipe, history>>

\* The connections in rs are closed: requests on them are void, and a delay
\* thread finds that its connection was replaced.
Hangup(rs) ==
  /\ up' = up \ rs
  /\ due' = [r \in Readers |-> IF r \in rs THEN {} ELSE due[r]]
  /\ asked' = {q \in asked : q[1] \notin rs}
  /\ delayed' = {q \in delayed : q[1] \notin rs}

Lose(r) ==
  /\ Lossy
  /\ r \in up
  /\ Hangup({r})
  /\ UNCHANGED <<tables, dbVars, pc, wanted, obj, own, wipe, history>>

-----------------------------------------------------------------------------
(* on_inv                                                                    *)

\* _collect_wanted: what the snapshot of the three tables lacks, cut to the
\* room left in pending_getdata.
Wanted(S) ==
  LET new == {h \in S : ~Seen(h) /\ h \notin pending}
      room == MaxPending - Cardinality(pending)
  IN {W \in SUBSET new : Cardinality(W) = IF Cardinality(new) <= room THEN Cardinality(new)
                                          ELSE room}

OnInv(r) ==
  /\ r \in up
  /\ pc[r] = "idle"
  /\ \E S \in SUBSET due[r] \ {{}} :
       /\ due' = [due EXCEPT ![r] = @ \ S]
       /\ \E W \in Wanted(S) :
            /\ wanted' = [wanted EXCEPT ![r] = W]
            /\ Goto(r, IF W = {} THEN "idle" ELSE "remember")
  /\ UNCHANGED <<tables, dbVars, up, asked, delayed, obj, own, wipe, history>>

\* The rate limits of on_inv: the whole message is ignored.
InvDropped(r) ==
  /\ r \in up
  /\ pc[r] = "idle"
  /\ Lossy
  /\ due[r] # {}
  /\ due' = [due EXCEPT ![r] = {}]
  /\ UNCHANGED <<tables, dbVars, up, asked, delayed, pc, wanted, obj, own, wipe, history>>

\* _remember_pending: recorded without another look at what arrived since;
\* over the cap, other entries are dropped.
RememberPending(r) ==
  /\ pc[r] = "remember"
  /\ LET all == pending \union wanted[r]
     IN pending' \in {P \in SUBSET all :
                        Cardinality(P) = IF Cardinality(all) <= MaxPending
                                         THEN Cardinality(all) ELSE MaxPending}
  /\ Goto(r, "ask")
  /\ UNCHANGED <<known, inv, dbVars, netVars, wanted, obj, own, wipe, history>>

\* getdata at once, or after a delay when the connection is young.  On a
\* connection lost meanwhile the send raises.
Ask(r) ==
  /\ pc[r] = "ask"
  /\ LET requests == IF r \in up THEN {r} \X wanted[r] ELSE {}
     IN \/ asked' = asked \union requests /\ UNCHANGED delayed
        \/ delayed' = delayed \union requests /\ UNCHANGED asked
  /\ wanted' = [wanted EXCEPT ![r] = {}]
  /\ Goto(r, "idle")
  /\ UNCHANGED <<tables, dbVars, up, due, obj, own, wipe, history>>

DelayEnds(r) ==
  LET mine == {q \in delayed : q[1] = r}
  IN /\ mine # {}
     /\ delayed' = delayed \ mine
     /\ asked' = asked \union {q \in mine : q[2] \in pending /\ ~Seen(q[2])}
     /\ UNCHANGED <<tables, dbVars, up, due, pc, wanted, obj, own, wipe, history>>

\* A peer has dropped a request, or its answer was over the store rate limit.
Ignore(r, h) ==
  /\ <<r, h>> \in asked
  /\ asked' = asked \ {<<r, h>>}
  /\ UNCHANGED <<tables, dbVars, up, due, delayed, pc, wanted, obj, own, wipe, history>>

-----------------------------------------------------------------------------
(* received_object                                                           *)

MarkKnown(h) == known' = known \union {h}

\* A valid object arrives, asked for or not: under the lock a duplicate only
\* clears its request, a new one is marked known.
Receive(r, h) ==
  /\ r \in up
  /\ pc[r] = "idle"
  /\ h \in Public
  /\ asked' = asked \ {<<r, h>>}
  /\ IF Seen(h)
     THEN /\ pending' = pending \ {h}
          /\ UNCHANGED <<known, pc, obj, accepted, bounds>>
     ELSE /\ Happens("accepted")
          /\ MarkKnown(h)
          /\ accepted' = [accepted EXCEPT ![h] = @ + 1]
          /\ obj' = [obj EXCEPT ![r] = h]
          /\ Goto(r, "enqueue")
          /\ UNCHANGED pending
  /\ UNCHANGED <<inv, dbVars, up, due, delayed, wanted, own, wipe, resets>>

\* _enqueue_db; the reader flushes when the batch is full or 5 s old.
Enqueue(r) ==
  /\ pc[r] = "enqueue"
  /\ batch' = batch \union {obj[r]}
  /\ \E l \in {"flush", "store"} : Goto(r, l)
  /\ UNCHANGED <<tables, flushing, db, netVars, wanted, obj, own, wipe, history>>

\* The first half of _flush_db_batch: copy and clear under the batch lock.
TakeBatch(t) ==
  /\ flushing' = [flushing EXCEPT ![t] = batch]
  /\ batch' = {}
  /\ UNCHANGED db

\* Mutant of Written: the copy is dropped.
WrittenNothing(t) == {}

Written(t) == flushing[t]

\* The second half: store_objects_batch.  It swallows a failing statement and
\* commits what went in, so that the caller never puts the batch back.
WriteBatch(t) ==
  /\ \/ db' = db \union Written(t) /\ UNCHANGED bounds
     \/ Happens("dbErrors") /\ \E S \in SUBSET flushing[t] : db' = db \union S
  /\ flushing' = [flushing EXCEPT ![t] = {}]
  /\ UNCHANGED batch

ReaderTakes(r) ==
  /\ pc[r] = "flush"
  /\ TakeBatch(r)
  /\ Goto(r, "write")
  /\ UNCHANGED <<tables, netVars, wanted, obj, own, wipe, history>>

ReaderWrites(r) ==
  /\ pc[r] = "write"
  /\ WriteBatch(r)
  /\ Goto(r, "store")
  /\ UNCHANGED <<tables, netVars, wanted, obj, own, wipe, accepted, resets>>

\* Mutant of MakesRoom: evicts only when the cap is exceeded.
MakesRoomLate(h) ==
  {I \in SUBSET inv : Cardinality(inv \ I) = IF Cardinality(inv) > InvMax
                                             THEN Cardinality(inv) - InvMax ELSE 0}

\* What memory may keep when h comes in: the oldest objects go until one
\* place is free.  Any order of ages is possible.
MakesRoom(h) ==
  {I \in SUBSET inv : Cardinality(inv \ I) = IF Cardinality(inv) >= InvMax
                                             THEN Cardinality(inv) - InvMax + 1 ELSE 0}

\* store_object, with _evict_inventory_locked and _trim_known_locked.
StoreObject(h) ==
  IF h \in inv
  THEN UNCHANGED <<known, inv, resets>>
  ELSE /\ \E I \in MakesRoom(h) : inv' = I \union {h}
       /\ IF Cardinality(known) > KnownMax
          THEN /\ known' \in {K \in SUBSET known : Cardinality(K) = KnownKeep}
               /\ resets' = resets + 1
          ELSE UNCHANGED <<known, resets>>

Store(r) ==
  /\ pc[r] = "store"
  /\ StoreObject(obj[r])
  /\ Goto(r, "settle")
  /\ UNCHANGED <<pending, dbVars, netVars, wanted, obj, own, wipe, accepted, bounds>>

Settle(r) ==
  /\ pc[r] = "settle"
  /\ pending' = pending \ {obj[r]}
  /\ Goto(r, "announce")
  /\ UNCHANGED <<known, inv, dbVars, netVars, wanted, obj, own, wipe, history>>

\* _deliver_object: the client is called, then announce_object stores the
\* object again ...
Announce(r) ==
  /\ pc[r] = "announce"
  /\ StoreObject(obj[r])
  /\ Goto(r, "remembered")
  /\ UNCHANGED <<pending, dbVars, netVars, wanted, obj, own, wipe, accepted, bounds>>

\* Mutant of RememberAnnounce: an announced object is not marked.
RememberNothing(h) == known' = known

\* _remember_announce
RememberAnnounce(h) == known' = known \union {h}

\* ... and marks it known again.
Remembered(r) ==
  /\ pc[r] = "remembered"
  /\ RememberAnnounce(obj[r])
  /\ obj' = [obj EXCEPT ![r] = NoObj]
  /\ Goto(r, "idle")
  /\ UNCHANGED <<inv, pending, dbVars, netVars, wanted, own, wipe, history>>

ReaderStep(r) ==
  \/ RememberPending(r) \/ Ask(r)
  \/ Enqueue(r) \/ ReaderTakes(r) \/ ReaderWrites(r)
  \/ Store(r) \/ Settle(r) \/ Announce(r) \/ Remembered(r)

-----------------------------------------------------------------------------
(* announce_object for an object of our own: it never enters the database    *)

OwnStore(h) ==
  /\ own[h] = "none"
  /\ StoreObject(h)
  /\ own' = [own EXCEPT ![h] = "stored"]
  /\ UNCHANGED <<pending, dbVars, netVars, pc, wanted, obj, wipe, accepted, bounds>>

OwnRemember(h) ==
  /\ own[h] = "stored"
  /\ RememberAnnounce(h)
  /\ own' = [own EXCEPT ![h] = "done"]
  /\ UNCHANGED <<inv, pending, dbVars, netVars, pc, wanted, obj, wipe, history>>

-----------------------------------------------------------------------------
(* The maintenance thread                                                    *)

\* Mutant of Stale: a request is sent only once.
StaleNever == {}

\* The requests that are repeated: unanswered, and the object not here.
Stale == {h \in pending : ~Seen(h)}

\* _retry_pending_getdata: settled and overaged requests are dropped, the
\* rest repeated.
RetryPending ==
  /\ pending # {}
  /\ \E old \in SUBSET Stale :
       /\ IF old = {} THEN UNCHANGED bounds ELSE Happens("forgotten")
       /\ pending' = {h \in pending : ~Seen(h)} \ old
       /\ IF up = {} THEN UNCHANGED asked
          ELSE \E r \in up : asked' = asked \union ({r} \X (Stale \ old))
  /\ UNCHANGED <<known, inv, dbVars, up, due, delayed, pc, wanted, obj, own, wipe,
                 accepted, resets>>

MaintTakes ==
  /\ flushing[Maint] = {}
  /\ batch # {}
  /\ TakeBatch(Maint)
  /\ UNCHANGED <<tables, netVars, pc, wanted, obj, own, wipe, history>>

MaintWrites ==
  /\ flushing[Maint] # {}
  /\ WriteBatch(Maint)
  /\ UNCHANGED <<tables, netVars, pc, wanted, obj, own, wipe, accepted, resets>>

-----------------------------------------------------------------------------
(* wipe_objects                                                              *)

WipeTables ==
  /\ wipe = "idle"
  /\ Happens("wipes")
  /\ known' = {} /\ inv' = {} /\ pending' = {}
  /\ resets' = resets + 1
  /\ wipe' = "batch"
  /\ UNCHANGED <<dbVars, netVars, pc, wanted, obj, own, accepted>>

WipeBatch ==
  /\ wipe = "batch"
  /\ batch' = {}
  /\ wipe' = "delete"
  /\ UNCHANGED <<tables, flushing, db, netVars, pc, wanted, obj, own, history>>

\* When the DELETE fails the wipe ends here, with the connections up.
WipeDelete ==
  /\ wipe = "delete"
  /\ \/ db' = {} /\ wipe' = "drop" /\ UNCHANGED bounds
     \/ Happens("dbErrors") /\ wipe' = "idle" /\ UNCHANGED db
  /\ UNCHANGED <<tables, batch, flushing, netVars, pc, wanted, obj, own, accepted, resets>>

\* Mutant of Dropped: the connections stay.
DroppedNone == {}

\* _drop_connections_for_resync
Dropped == up

\* Every connection is dropped, so that each new handshake brings the
\* announcements again.
WipeDrop ==
  /\ wipe = "drop"
  /\ Hangup(Dropped)
  /\ wipe' = "idle"
  /\ UNCHANGED <<tables, dbVars, pc, wanted, obj, own, history>>

-----------------------------------------------------------------------------
\* Mutant of LoadKnownHashes: the table is not read.
LoadNothing == {}

\* _load_known_hashes
LoadKnownHashes == db

\* The process dies and starts again.
Crash ==
  /\ Happens("crashes")
  /\ known' = LoadKnownHashes /\ inv' = {} /\ pending' = {}
  /\ batch' = {}
  /\ flushing' = [t \in Flushers |-> {}]
  /\ Hangup(up)
  /\ pc' = [r \in Readers |-> "idle"]
  /\ wanted' = [r \in Readers |-> {}]
  /\ obj' = [r \in Readers |-> NoObj]
  /\ wipe' = "idle"
  /\ resets' = resets + 1
  /\ UNCHANGED <<db, own, accepted>>

WipeStep == WipeBatch \/ WipeDelete \/ WipeDrop

Next ==
  \/ \E r \in Readers :
       \/ Connect(r) \/ Lose(r) \/ OnInv(r) \/ InvDropped(r) \/ DelayEnds(r)
       \/ ReaderStep(r)
       \/ \E h \in Objs : Ignore(r, h) \/ Receive(r, h)
  \/ \E h \in Own : OwnStore(h) \/ OwnRemember(h)
  \/ RetryPending \/ MaintTakes \/ MaintWrites
  \/ WipeTables \/ WipeStep
  \/ Crash

Spec == Init /\ [][Next]_vars

\* A request that is made again and again.
Answered(r, h) == <<r, h>> \in asked /\ Receive(r, h)

\* Threads are scheduled and the maintenance loop comes round; a closed
\* connection is replaced, a peer announces its inventory after the handshake
\* and does not ignore a request that is repeated for ever.
Fairness ==
  /\ \A r \in Readers : /\ WF_vars(ReaderStep(r)) /\ WF_vars(Connect(r))
                        /\ WF_vars(OnInv(r)) /\ WF_vars(DelayEnds(r))
                        /\ \A h \in Objs : SF_vars(Answered(r, h))
  /\ \A h \in Own : WF_vars(OwnStore(h) \/ OwnRemember(h))
  /\ WF_vars(RetryPending) /\ WF_vars(MaintTakes) /\ WF_vars(MaintWrites)
  /\ WF_vars(WipeStep)

FairSpec == Spec /\ Fairness

-----------------------------------------------------------------------------
(* Properties                                                                *)

Requests == Readers \X Objs

\* Types, and the capacities of the inventory and of pending_getdata.
TypeOK ==
  /\ known \subseteq Objs
  /\ inv \subseteq Objs /\ Cardinality(inv) <= InvMax
  /\ pending \subseteq Objs /\ Cardinality(pending) <= MaxPending
  /\ batch \subseteq Objs
  /\ flushing \in [Flushers -> SUBSET Objs]
  /\ db \subseteq Objs
  /\ up \subseteq Readers
  /\ due \in [Readers -> SUBSET Objs]
  /\ asked \subseteq Requests
  /\ delayed \subseteq Requests
  /\ pc \in [Readers -> ReaderPCs]
  /\ wanted \in [Readers -> SUBSET Objs]
  /\ obj \in [Readers -> Objs \union {NoObj}]
  /\ own \in [Own -> {"none", "stored", "done"}]
  /\ wipe \in WipePCs
  /\ accepted \in [Objs -> Nat]
  /\ resets \in Nat
  /\ bounds \in [Events -> Nat]

\* However many peers send it, an object is handed to the client once, and
\* our own objects never, per emptying of known_hashes (wipe, restart, cut):
\* the test and the insertion of received_object are one critical section.
HandledOnce ==
  \A h \in Objs : accepted[h] <= resets + (IF h \in Own THEN 0 ELSE 1)

Handling(r) == pc[r] \in {"enqueue", "flush", "write", "store", "settle",
                          "announce", "remembered"}

\* Where the bytes of a received object may be.
Held(h) ==
  \/ h \in inv \union batch \union db
  \/ \E t \in Flushers : h \in flushing[t]
  \/ \E r \in Readers : Handling(r) /\ obj[r] = h

\* A hash we refuse to download again is backed by its bytes somewhere, for
\* the objects of others, as long as no database write failed and nothing
\* was wiped: eviction from memory, flushes by any thread and crashes
\* included.  Otherwise the object would be lost to us and to our peers.
KnownIsHeld ==
  bounds["dbErrors"] = 0 /\ bounds["wipes"] = 0 =>
    \A h \in known \ Own : Held(h)

\* README.md:198-200: known hashes stay in the database and nothing stored is
\* downloaded again, in this run or after a restart.
\* Without a wipe and below the cap of known_hashes it is so.
StoredIsKnown ==
  bounds["wipes"] = 0 /\ Cardinality(Objs) <= KnownMax => db \subseteq known

\* A requested object is received, or recognised as received meanwhile,
\* although peers ignore requests and a wipe drops the connections.
PendingResolves == \A h \in Objs : (h \in pending) ~> (h \notin pending)

\* After a wipe or a restart every object the peers have comes back, because
\* the dropped connections bring the announcements again, unless the DELETE
\* failed, after which the wipe returns with the connections up.
FetchedAgain ==
  \A h \in Objs :
    (h \in Public) ~> (h \in known \/ bounds["dbErrors"] > 0)

-----------------------------------------------------------------------------
(* What the repository says and the code does not do                         *)

\* README.md:198-200 again, wipes included and once every thread is back in
\* its loop: a batch taken before the wipe is written after it, so that rows
\* are stored whose hashes are not known and which are downloaded again.
StoredIsAlwaysKnown ==
  /\ Cardinality(Objs) <= KnownMax
  /\ wipe = "idle" /\ \A r \in Readers : pc[r] = "idle"
  => db \subseteq known

\* manager.py:806: a batch whose write fails is queued again.
FailedBatchKept ==
  [][\A t \in Flushers :
       flushing'[t] = {} /\ bounds'["crashes"] = bounds["crashes"]
         => flushing[t] \subseteq db' \union batch']_vars
=============================================================================
