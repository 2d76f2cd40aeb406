--------------------------- MODULE InventoryProofs ---------------------------
(***************************************************************************)
(* Proofs about Inventory for any finite set of objects, any connections,  *)
(* limits and bounds: the tables keep their types and capacities, an       *)
(* object is handed on once per emptying of known_hashes, without a wipe   *)
(* everything stored is known, and what is known is held.                  *)
(***************************************************************************)
EXTENDS Inventory, FiniteSetTheorems, TLAPS

\* The part of TypeOK that the proofs use; no capacity is involved.
Typed ==
  /\ known \subseteq Objs
  /\ db \subseteq Objs
  /\ batch \subseteq Objs
  /\ flushing \in [Flushers -> SUBSET Objs]
  /\ pc \in [Readers -> ReaderPCs]
  /\ obj \in [Readers -> Objs \union {NoObj}]
  /\ \A r \in Readers : Handling(r) => obj[r] \in Objs
  /\ own \in [Own -> {"none", "stored", "done"}]
  /\ wipe \in WipePCs
  /\ accepted \in [Objs -> Nat]
  /\ resets \in Nat
  /\ bounds \in [Events -> Nat]

\* Where the objects of this node start: known before anybody can send them.
Credit(h) == IF h \in Own THEN 0 ELSE 1

\* A known object was accepted once per reset at most; one that is not known
\* may be accepted once more; ours cannot arrive before they were announced.
Once ==
  \A h \in Objs :
    /\ accepted[h] <= resets + Credit(h)
    /\ h \notin known /\ h \in Public => accepted[h] + 1 <= resets + Credit(h)
    /\ h \notin Public => accepted[h] = 0

OnceInv == Typed /\ Once

LEMMA InitOnce == Init => OnceInv
<1> SUFFICES ASSUME Init PROVE OnceInv
  OBVIOUS
<1> USE OwnAssumption DEF Init
<1>1. Typed
  BY DEF Typed, Handling, ReaderPCs, WipePCs, Events
<1>2. Once
  BY DEF Once, Credit, Public
<1> QED BY <1>1, <1>2 DEF OnceInv

\* What a step that stores an object does to the tables: nothing, an
\* eviction, or a cut of known_hashes.
LEMMA StoreEffect ==
  ASSUME NEW h, StoreObject(h), resets \in Nat
  PROVE  /\ known' \subseteq known
         /\ resets' \in Nat
         /\ \/ known' = known /\ resets' = resets
            \/ resets' = resets + 1
BY DEF StoreObject

\* The bookkeeping of accepted objects survives every step that changes
\* neither it nor the announcements, if known_hashes only grows or the step
\* counts as a reset.
LEMMA KeepsOnce ==
  ASSUME OnceInv, resets' \in Nat, UNCHANGED <<accepted, own>>,
         \/ known \subseteq known' /\ resets' = resets
         \/ resets' = resets + 1
  PROVE  Once'
<1> SUFFICES ASSUME NEW h \in Objs
             PROVE  /\ accepted'[h] <= resets' + Credit(h)
                    /\ h \notin known' /\ h \in Public' => accepted'[h] + 1 <= resets' + Credit(h)
                    /\ h \notin Public' => accepted'[h] = 0
  BY DEF Once, Credit
<1>1. Public' = Public
  BY DEF Public
<1>2. accepted[h] \in Nat /\ resets \in Nat /\ Credit(h) \in {0, 1}
  BY DEF OnceInv, Typed, Credit
<1>3. /\ accepted[h] <= resets + Credit(h)
      /\ h \notin known /\ h \in Public => accepted[h] + 1 <= resets + Credit(h)
      /\ h \notin Public => accepted[h] = 0
  BY DEF OnceInv, Once
<1> QED BY <1>1, <1>2, <1>3

\* Counting an event keeps the counters natural.
LEMMA HappensTyped ==
  ASSUME NEW e \in Events, bounds \in [Events -> Nat], Happens(e)
  PROVE  bounds' \in [Events -> Nat]
BY DEF Happens

LEMMA NextTyped == Typed /\ [Next]_vars => Typed'
<1> SUFFICES ASSUME Typed, [Next]_vars PROVE Typed'
  OBVIOUS
<1> USE DEF Typed
<1>1. CASE UNCHANGED vars
  BY <1>1 DEF vars, Handling
<1>2. ASSUME NEW r \in Readers, Connect(r) PROVE Typed'
  BY <1>2 DEF Connect, tables, dbVars, history, Handling
<1>3. ASSUME NEW r \in Readers, Lose(r) PROVE Typed'
  BY <1>3 DEF Lose, Hangup, tables, dbVars, history, Handling
<1>4. ASSUME NEW r \in Readers, OnInv(r) PROVE Typed'
  BY <1>4 DEF OnInv, Goto, tables, dbVars, history, Handling, ReaderPCs
<1>5. ASSUME NEW r \in Readers, InvDropped(r) PROVE Typed'
  BY <1>5 DEF InvDropped, tables, dbVars, history, Handling
<1>6. ASSUME NEW r \in Readers, DelayEnds(r) PROVE Typed'
  BY <1>6 DEF DelayEnds, tables, dbVars, history, Handling
<1>7. ASSUME NEW r \in Readers, ReaderStep(r) PROVE Typed'
  <2>1. CASE RememberPending(r)
    BY <2>1 DEF RememberPending, Goto, dbVars, history, Handling, ReaderPCs
  <2>2. CASE Ask(r)
    BY <2>2 DEF Ask, Goto, tables, dbVars, history, Handling, ReaderPCs
  <2>3. CASE Enqueue(r)
    BY <2>3 DEF Enqueue, Goto, tables, history, Handling, ReaderPCs
  <2>4. CASE ReaderTakes(r)
    BY <2>4 DEF ReaderTakes, TakeBatch, Goto, tables, history, Handling, ReaderPCs, Flushers
  <2>5. CASE ReaderWrites(r)
    BY <2>5, HappensTyped DEF ReaderWrites, WriteBatch, Written, Events, Goto, tables, Handling,
                ReaderPCs, Flushers
  <2>6. CASE Store(r)
    BY <2>6, StoreEffect DEF Store, Goto, dbVars, Handling, ReaderPCs
  <2>7. CASE Settle(r)
    BY <2>7 DEF Settle, Goto, dbVars, history, Handling, ReaderPCs
  <2>8. CASE Announce(r)
    BY <2>8, StoreEffect DEF Announce, Goto, dbVars, Handling, ReaderPCs
  <2>9. CASE Remembered(r)
    BY <2>9 DEF Remembered, RememberAnnounce, Goto, dbVars, history, Handling, ReaderPCs
  <2> QED BY <1>7, <2>1, <2>2, <2>3, <2>4, <2>5, <2>6, <2>7, <2>8, <2>9 DEF ReaderStep
<1>8. ASSUME NEW r \in Readers, NEW h \in Objs, Ignore(r, h) PROVE Typed'
  BY <1>8 DEF Ignore, tables, dbVars, history, Handling
<1>9. ASSUME NEW r \in Readers, NEW h \in Objs, Receive(r, h) PROVE Typed'
  BY <1>9, HappensTyped DEF Receive, MarkKnown, Events, Goto, dbVars, Handling, ReaderPCs
<1>10. ASSUME NEW h \in Own, OwnStore(h) PROVE Typed'
  BY <1>10, StoreEffect DEF OwnStore, dbVars, Handling
<1>11. ASSUME NEW h \in Own, OwnRemember(h) PROVE Typed'
  BY <1>11, OwnAssumption DEF OwnRemember, RememberAnnounce, dbVars, history, Handling
<1>12. CASE RetryPending
  BY <1>12, HappensTyped DEF RetryPending, Events, dbVars, Handling
<1>13. CASE MaintTakes
  BY <1>13 DEF MaintTakes, TakeBatch, tables, history, Handling, Flushers
<1>14. CASE MaintWrites
  BY <1>14, HappensTyped DEF MaintWrites, WriteBatch, Written, Events, tables, Handling, Flushers
<1>15. CASE WipeTables
  BY <1>15, HappensTyped DEF WipeTables, Events, dbVars, Handling, WipePCs
<1>16. CASE WipeStep
  BY <1>16, HappensTyped DEF Events, WipeStep, WipeBatch, WipeDelete, WipeDrop, tables, dbVars, history,
               Handling, WipePCs
<1>17. CASE Crash
  BY <1>17, HappensTyped DEF Crash, LoadKnownHashes, Events, Handling, ReaderPCs, WipePCs
<1> QED
  BY <1>1, <1>2, <1>3, <1>4, <1>5, <1>6, <1>7, <1>8, <1>9, <1>10, <1>11, <1>12,
     <1>13, <1>14, <1>15, <1>16, <1>17 DEF Next

\* Receive is the only step that accepts, and it marks what it accepts.
LEMMA ReceiveOnce ==
  ASSUME OnceInv, NEW r \in Readers, NEW h \in Objs, Receive(r, h)
  PROVE  Once'
<1> USE DEF OnceInv, Typed
<1>1. CASE Seen(h)
  <2>1. UNCHANGED <<known, accepted, own>> /\ resets' = resets
    BY <1>1 DEF Receive
  <2> QED BY <2>1, KeepsOnce
<1>2. CASE ~Seen(h)
  <2>1. /\ known' = known \union {h}
        /\ accepted' = [accepted EXCEPT ![h] = @ + 1]
        /\ own' = own /\ resets' = resets
        /\ h \notin known /\ h \in Public
    BY <1>2 DEF Receive, MarkKnown, Seen
  <2>2. Public' = Public
    BY <2>1 DEF Public
  <2> SUFFICES ASSUME NEW g \in Objs
               PROVE  /\ accepted'[g] <= resets' + Credit(g)
                      /\ g \notin known' /\ g \in Public' => accepted'[g] + 1 <= resets' + Credit(g)
                      /\ g \notin Public' => accepted'[g] = 0
    BY DEF Once, Credit
  <2>3. accepted[g] \in Nat /\ resets \in Nat /\ Credit(g) \in {0, 1}
    BY DEF Credit
  <2>4. CASE g = h
    <3>1. accepted[h] + 1 <= resets + Credit(h)
      BY <2>1 DEF Once
    <3>2. accepted'[h] = accepted[h] + 1 /\ h \in known' /\ h \in Public'
      BY <2>1, <2>2
    <3> QED BY <2>4, <2>1, <3>1, <3>2
  <2>5. CASE g # h
    <3>1. accepted'[g] = accepted[g] /\ (g \notin known' => g \notin known)
      BY <2>1, <2>5
    <3> QED BY <2>1, <2>2, <2>3, <3>1 DEF Once
  <2> QED BY <2>4, <2>5
<1> QED BY <1>1, <1>2

\* Announcing one of our objects makes it public and known in one step.
LEMMA OwnRememberOnce ==
  ASSUME OnceInv, NEW h \in Own, OwnRemember(h)
  PROVE  Once'
<1> USE DEF OnceInv, Typed
<1>1. /\ own[h] = "stored" /\ own' = [own EXCEPT ![h] = "done"]
      /\ known' = known \union {h}
      /\ accepted' = accepted /\ resets' = resets
  BY DEF OwnRemember, RememberAnnounce, history
<1>2. h \in Objs /\ h \notin Public /\ Public' = Public \union {h}
  BY <1>1, OwnAssumption DEF Public
<1> SUFFICES ASSUME NEW g \in Objs
             PROVE  /\ accepted'[g] <= resets' + Credit(g)
                    /\ g \notin known' /\ g \in Public' => accepted'[g] + 1 <= resets' + Credit(g)
                    /\ g \notin Public' => accepted'[g] = 0
  BY DEF Once, Credit
<1>3. /\ accepted[g] <= resets + Credit(g)
      /\ g \notin known /\ g \in Public => accepted[g] + 1 <= resets + Credit(g)
      /\ g \notin Public => accepted[g] = 0
  BY DEF Once
<1> QED BY <1>1, <1>2, <1>3

LEMMA NextOnce == OnceInv /\ [Next]_vars => Once'
<1> SUFFICES ASSUME OnceInv, [Next]_vars PROVE Once'
  OBVIOUS
<1>0. resets \in Nat
  BY DEF OnceInv, Typed
<1>1. CASE UNCHANGED vars
  BY <1>0, <1>1, KeepsOnce DEF vars
<1>2. ASSUME NEW r \in Readers,
             Connect(r) \/ Lose(r) \/ OnInv(r) \/ InvDropped(r) \/ DelayEnds(r)
      PROVE  Once'
  <2>1. UNCHANGED <<known, accepted, own, resets>>
    BY <1>2 DEF Connect, Lose, OnInv, InvDropped, DelayEnds, tables, history
  <2> QED BY <1>0, <2>1, KeepsOnce
<1>3. ASSUME NEW r \in Readers, ReaderStep(r) PROVE Once'
  <2>1. CASE RememberPending(r) \/ Ask(r) \/ Enqueue(r) \/ ReaderTakes(r)
             \/ ReaderWrites(r) \/ Settle(r)
    <3>1. UNCHANGED <<known, accepted, own, resets>>
      BY <2>1 DEF RememberPending, Ask, Enqueue, ReaderTakes, ReaderWrites, Settle,
                  tables, history
    <3> QED BY <1>0, <3>1, KeepsOnce
  <2>2. CASE Store(r) \/ Announce(r)
    BY <1>0, <2>2, StoreEffect, KeepsOnce DEF Store, Announce
  <2>3. CASE Remembered(r)
    BY <1>0, <2>3, KeepsOnce DEF Remembered, RememberAnnounce, history
  <2> QED BY <1>3, <2>1, <2>2, <2>3 DEF ReaderStep
<1>4. ASSUME NEW r \in Readers, NEW h \in Objs, Ignore(r, h) PROVE Once'
  BY <1>0, <1>4, KeepsOnce DEF Ignore, tables, history
<1>5. ASSUME NEW r \in Readers, NEW h \in Objs, Receive(r, h) PROVE Once'
  BY <1>5, ReceiveOnce
<1>6. ASSUME NEW h \in Own, OwnStore(h) PROVE Once'
  \* Storing makes the object neither public nor known.
  <2>1. /\ own[h] = "none" /\ own' = [own EXCEPT ![h] = "stored"]
        /\ accepted' = accepted
        /\ known' \subseteq known /\ resets' \in Nat
        /\ \/ known' = known /\ resets' = resets
           \/ resets' = resets + 1
    BY <1>0, <1>6, StoreEffect DEF OwnStore
  <2>2. Public' = Public
    BY <2>1 DEF Public, OnceInv, Typed
  <2> SUFFICES ASSUME NEW g \in Objs
               PROVE  /\ accepted'[g] <= resets' + Credit(g)
                      /\ g \notin known' /\ g \in Public' => accepted'[g] + 1 <= resets' + Credit(g)
                      /\ g \notin Public' => accepted'[g] = 0
    BY DEF Once, Credit
  <2>3. /\ accepted[g] <= resets + Credit(g)
        /\ g \notin known /\ g \in Public => accepted[g] + 1 <= resets + Credit(g)
        /\ g \notin Public => accepted[g] = 0
        /\ accepted[g] \in Nat /\ Credit(g) \in {0, 1}
    BY DEF OnceInv, Typed, Once, Credit
  <2> QED BY <1>0, <2>1, <2>2, <2>3
<1>7. ASSUME NEW h \in Own, OwnRemember(h) PROVE Once'
  BY <1>7, OwnRememberOnce
<1>8. CASE RetryPending \/ MaintTakes \/ MaintWrites
  <2>1. UNCHANGED <<known, accepted, own, resets>>
    BY <1>8 DEF RetryPending, MaintTakes, MaintWrites, tables, history
  <2> QED BY <1>0, <2>1, KeepsOnce
<1>9. CASE WipeTables \/ Crash
  <2>1. resets' = resets + 1 /\ UNCHANGED <<accepted, own>>
    BY <1>9 DEF WipeTables, Crash
  <2> QED BY <1>0, <2>1, KeepsOnce
<1>10. CASE WipeStep
  <2>1. UNCHANGED <<known, accepted, own, resets>>
    BY <1>10 DEF WipeStep, WipeBatch, WipeDelete, WipeDrop, tables, history
  <2> QED BY <1>0, <2>1, KeepsOnce
<1> QED
  BY <1>1, <1>2, <1>3, <1>4, <1>5, <1>6, <1>7, <1>8, <1>9, <1>10 DEF Next

\* Every object is handed to the client at most once per emptying of
\* known_hashes, and our own never before one: received_object tests and
\* marks in one critical section, and announce_object marks before the first
\* announcement leaves.
THEOREM HandledOncePerReset == Spec => []HandledOnce
<1>1. OnceInv => HandledOnce
  BY DEF OnceInv, Once, Credit, HandledOnce
<1>2. OnceInv /\ [Next]_vars => OnceInv'
  BY NextTyped, NextOnce DEF OnceInv
<1> QED BY <1>1, <1>2, InitOnce, PTL DEF Spec

-----------------------------------------------------------------------------
(* Without a wipe and below the cap of known_hashes, everything on its way   *)
(* to the database is known.                                                 *)

Unwiped == bounds["wipes"] = 0 /\ Cardinality(Objs) <= KnownMax

StoredInv ==
  /\ Typed
  /\ Unwiped =>
       /\ wipe = "idle"
       /\ db \union batch \subseteq known
       /\ \A t \in Flushers : flushing[t] \subseteq known
       /\ \A r \in Readers : Handling(r) => obj[r] \in known

\* known_hashes is cut only when it outgrew its cap.
LEMMA StoreKeepsKnown ==
  ASSUME NEW h, Typed, Cardinality(Objs) <= KnownMax, StoreObject(h)
  PROVE  known' = known
<1>1. known \subseteq Objs
  BY DEF Typed
<1>2. Cardinality(known) \in Nat /\ Cardinality(Objs) \in Nat
      /\ Cardinality(known) <= Cardinality(Objs)
  BY <1>1, FiniteAssumption, FS_Subset, FS_CardinalityType
<1>3. ~ (Cardinality(known) > KnownMax)
  BY <1>2, CapsAssumption
<1> QED BY <1>3 DEF StoreObject

LEMMA InitStored == Init => StoredInv
<1> SUFFICES ASSUME Init PROVE StoredInv
  OBVIOUS
<1>1. Typed
  BY InitOnce DEF OnceInv
<1> QED BY <1>1 DEF Init, StoredInv, Handling

LEMMA NextStored == StoredInv /\ [Next]_vars => StoredInv'
<1> SUFFICES ASSUME StoredInv, [Next]_vars, Unwiped'
             PROVE  /\ wipe' = "idle"
                    /\ db' \union batch' \subseteq known'
                    /\ \A t \in Flushers : flushing'[t] \subseteq known'
                    /\ \A r \in Readers : Handling(r)' => obj'[r] \in known'
  BY NextTyped DEF StoredInv
<1> DEFINE Goal == /\ wipe' = "idle"
                   /\ db' \union batch' \subseteq known'
                   /\ \A t \in Flushers : flushing'[t] \subseteq known'
                   /\ \A r \in Readers : Handling(r)' => obj'[r] \in known'
<1> SUFFICES Goal
  OBVIOUS
<1>t. Typed
  BY DEF StoredInv
<1> HIDE DEF Goal
<1>c. Cardinality(Objs) <= KnownMax
  BY DEF Unwiped
\* An event that is counted leaves the count of wipes alone or raises it.
<1>w. bounds' = bounds \/ (\E e \in Events : Happens(e)) => bounds["wipes"] = 0
  <2>1. CASE bounds' = bounds
    BY <2>1 DEF Unwiped
  <2>2. ASSUME NEW e \in Events, Happens(e) PROVE bounds["wipes"] = 0
    <3>1. bounds["wipes"] \in Nat
      BY <1>t DEF Typed, Events
    <3>2. bounds'["wipes"] = IF e = "wipes" THEN bounds["wipes"] + 1 ELSE bounds["wipes"]
      BY <2>2, <1>t DEF Happens, Typed, Events
    <3> QED BY <3>1, <3>2 DEF Unwiped
  <2> QED BY <2>1, <2>2
<1>s. bounds' = bounds \/ (\E e \in Events : Happens(e)) =>
         /\ wipe = "idle"
         /\ db \union batch \subseteq known
         /\ \A t \in Flushers : flushing[t] \subseteq known
         /\ \A r \in Readers : Handling(r) => obj[r] \in known
  BY <1>w, <1>c DEF StoredInv, Unwiped
<1>1. CASE UNCHANGED vars
  BY <1>1, <1>s DEF vars, Goal, Handling
<1>2. ASSUME NEW r \in Readers,
             Connect(r) \/ Lose(r) \/ OnInv(r) \/ InvDropped(r) \/ DelayEnds(r)
      PROVE  Goal
  <2>1. bounds' = bounds \/ (\E e \in Events : Happens(e))
    BY <1>2 DEF Connect, Lose, OnInv, InvDropped, DelayEnds, Events, history
  <2>2. UNCHANGED <<known, dbVars, obj, wipe>>
    BY <1>2 DEF Connect, Lose, OnInv, InvDropped, DelayEnds, tables, history
  <2>3. \A q \in Readers : Handling(q)' => Handling(q)
    BY <1>2, <1>t DEF Connect, Lose, OnInv, InvDropped, DelayEnds, Handling, Goto, Typed
  <2> QED BY <2>1, <2>2, <2>3, <1>s DEF Goal, dbVars
<1>3. ASSUME NEW r \in Readers, ReaderStep(r) PROVE Goal
  <2>0. Handling(r) => obj[r] \in Objs
    BY <1>t DEF Typed
  <2>1. CASE RememberPending(r) \/ Ask(r)
    <3>1. UNCHANGED <<known, dbVars, obj, wipe, bounds>>
      BY <2>1 DEF RememberPending, Ask, tables, history
    <3>2. \A q \in Readers : Handling(q)' => Handling(q)
      BY <2>1, <1>t DEF RememberPending, Ask, Handling, Goto, Typed
    <3> QED BY <3>1, <3>2, <1>s DEF Goal, dbVars
  <2>2. CASE Enqueue(r)
    <3>1. UNCHANGED <<known, flushing, db, obj, wipe, bounds>> /\ batch' = batch \union {obj[r]}
      BY <2>2 DEF Enqueue, tables, history
    <3>2. Handling(r) /\ \A q \in Readers : Handling(q)' => Handling(q)
      BY <2>2, <1>t DEF Enqueue, Handling, Goto, Typed
    <3> QED BY <3>1, <3>2, <1>s DEF Goal
  <2>3. CASE ReaderTakes(r)
    <3>1. UNCHANGED <<known, db, obj, wipe, bounds>> /\ batch' = {}
          /\ flushing' = [flushing EXCEPT ![r] = batch]
      BY <2>3 DEF ReaderTakes, TakeBatch, tables, history
    <3>2. \A q \in Readers : Handling(q)' => Handling(q)
      BY <2>3, <1>t DEF ReaderTakes, Handling, Goto, Typed
    <3>3. \A t \in Flushers : flushing'[t] \in {flushing[t], batch}
      BY <3>1, <1>t DEF Typed
    <3> QED BY <3>1, <3>2, <3>3, <1>s DEF Goal
  <2>4. CASE ReaderWrites(r)
    <3>1. /\ UNCHANGED <<known, batch, obj, wipe>>
          /\ bounds' = bounds \/ (\E e \in Events : Happens(e))
          /\ db' \subseteq db \union flushing[r]
          /\ flushing' = [flushing EXCEPT ![r] = {}]
      BY <2>4 DEF ReaderWrites, WriteBatch, Written, Events, tables
    <3>2. \A q \in Readers : Handling(q)' => Handling(q)
      BY <2>4, <1>t DEF ReaderWrites, Handling, Goto, Typed
    <3>3. \A t \in Flushers : flushing'[t] \in {flushing[t], {}}
      BY <3>1, <1>t DEF Typed
    <3> QED BY <3>1, <3>2, <3>3, <1>s DEF Goal, Flushers
  <2>5. CASE Store(r) \/ Announce(r)
    <3>1. UNCHANGED <<dbVars, obj, wipe, bounds>> /\ known' = known
      BY <2>5, <1>t, <1>c, StoreKeepsKnown DEF Store, Announce
    <3>2. \A q \in Readers : Handling(q)' => Handling(q)
      BY <2>5, <1>t DEF Store, Announce, Handling, Goto, Typed
    <3> QED BY <3>1, <3>2, <1>s DEF Goal, dbVars
  <2>6. CASE Settle(r)
    <3>1. UNCHANGED <<known, dbVars, obj, wipe, bounds>>
      BY <2>6 DEF Settle, history
    <3>2. \A q \in Readers : Handling(q)' => Handling(q)
      BY <2>6, <1>t DEF Settle, Handling, Goto, Typed
    <3> QED BY <3>1, <3>2, <1>s DEF Goal, dbVars
  <2>7. CASE Remembered(r)
    <3>1. /\ UNCHANGED <<dbVars, wipe, bounds>> /\ known \subseteq known'
          /\ obj' = [obj EXCEPT ![r] = NoObj] /\ pc' = [pc EXCEPT ![r] = "idle"]
      BY <2>7 DEF Remembered, RememberAnnounce, Goto, history
    <3>2. \A q \in Readers : Handling(q)' => Handling(q) /\ obj'[q] = obj[q]
      BY <3>1, <1>t DEF Handling, Typed
    <3> QED BY <3>1, <3>2, <1>s DEF Goal, dbVars
  <2> QED BY <1>3, <2>1, <2>2, <2>3, <2>4, <2>5, <2>6, <2>7 DEF ReaderStep
<1>4. ASSUME NEW r \in Readers, NEW h \in Objs, Ignore(r, h) PROVE Goal
  BY <1>4, <1>s DEF Ignore, tables, dbVars, history, Goal, Handling
<1>5. ASSUME NEW r \in Readers, NEW h \in Objs, Receive(r, h) PROVE Goal
  <2>1. /\ UNCHANGED <<dbVars, wipe>> /\ known \subseteq known'
        /\ bounds' = bounds \/ (\E e \in Events : Happens(e))
    BY <1>5 DEF Receive, MarkKnown, Events
  <2>2. \A q \in Readers : Handling(q)' => obj'[q] \in known'
    <3>1. CASE Seen(h)
      BY <1>5, <3>1, <2>1, <1>s DEF Receive, Handling
    <3>2. CASE ~Seen(h)
      <4>1. /\ known' = known \union {h} /\ obj' = [obj EXCEPT ![r] = h]
            /\ pc' = [pc EXCEPT ![r] = "enqueue"]
        BY <1>5, <3>2 DEF Receive, MarkKnown, Goto
      <4>2. \A q \in Readers : q # r /\ Handling(q)' => Handling(q) /\ obj'[q] = obj[q]
        BY <4>1, <1>t DEF Handling, Typed
      <4>3. obj'[r] = h
        BY <4>1, <1>t DEF Typed
      <4> QED BY <4>1, <4>2, <4>3, <2>1, <1>s
    <3> QED BY <3>1, <3>2
  <2> QED BY <2>1, <2>2, <1>s DEF Goal, dbVars
<1>6. ASSUME NEW h \in Own, OwnStore(h) \/ OwnRemember(h) PROVE Goal
  <2>1. UNCHANGED <<dbVars, pc, obj, wipe, bounds>> /\ known \subseteq known'
    BY <1>6, <1>t, <1>c, StoreKeepsKnown DEF OwnStore, OwnRemember, RememberAnnounce, history
  <2> QED BY <2>1, <1>s DEF Goal, dbVars, Handling
<1>7. CASE RetryPending
  <2>1. /\ UNCHANGED <<known, dbVars, obj, pc, wipe>>
        /\ bounds' = bounds \/ (\E e \in Events : Happens(e))
    BY <1>7 DEF RetryPending, Events
  <2> QED BY <2>1, <1>s DEF Goal, dbVars, Handling
<1>8. CASE MaintTakes
  <2>1. UNCHANGED <<known, db, obj, pc, wipe, bounds>> /\ batch' = {}
        /\ flushing' = [flushing EXCEPT ![Maint] = batch]
    BY <1>8 DEF MaintTakes, TakeBatch, tables, history
  <2>2. \A t \in Flushers : flushing'[t] \in {flushing[t], batch}
    BY <2>1, <1>t DEF Typed
  <2> QED BY <2>1, <2>2, <1>s DEF Goal, Handling
<1>9. CASE MaintWrites
  <2>1. /\ UNCHANGED <<known, batch, obj, pc, wipe>>
        /\ bounds' = bounds \/ (\E e \in Events : Happens(e))
        /\ db' \subseteq db \union flushing[Maint]
        /\ flushing' = [flushing EXCEPT ![Maint] = {}]
    BY <1>9 DEF MaintWrites, WriteBatch, Written, Events, tables
  <2>2. \A t \in Flushers : flushing'[t] \in {flushing[t], {}}
    BY <2>1, <1>t DEF Typed
  <2> QED BY <2>1, <2>2, <1>s DEF Goal, Flushers, Handling
<1>10. CASE WipeTables
  \* A wipe is counted, and none was.
  <2>1. bounds'["wipes"] = bounds["wipes"] + 1 /\ bounds["wipes"] \in Nat
    BY <1>10, <1>t DEF WipeTables, Happens, Typed, Events
  <2> QED BY <2>1 DEF Unwiped
<1>11. CASE WipeStep
  <2>1. (bounds' = bounds \/ (\E e \in Events : Happens(e))) /\ wipe # "idle"
    BY <1>11 DEF Events, WipeStep, WipeBatch, WipeDelete, WipeDrop, history
  <2> QED BY <2>1, <1>s
<1>12. CASE Crash
  <2>1. /\ known' = db /\ db' = db /\ batch' = {} /\ wipe' = "idle"
        /\ flushing' = [t \in Flushers |-> {}] /\ pc' = [r \in Readers |-> "idle"]
    BY <1>12 DEF Crash, LoadKnownHashes
  <2> QED BY <2>1 DEF Goal, Handling
<1> QED
  BY <1>1, <1>2, <1>3, <1>4, <1>5, <1>6, <1>7, <1>8, <1>9, <1>10, <1>11, <1>12 DEF Next

\* README.md:198-200, for every schedule of flushes, crashes and evictions:
\* as long as the user does not wipe, a stored object is never taken for new.
THEOREM StoredNotRefetched == Spec => []StoredIsKnown
<1>1. StoredInv => StoredIsKnown
  BY DEF StoredInv, Unwiped, StoredIsKnown
<1> QED BY <1>1, InitStored, NextStored, PTL DEF Spec

-----------------------------------------------------------------------------
(* Type correctness, with the capacities of the tables                       *)

Capped ==
  /\ inv \subseteq Objs /\ Cardinality(inv) <= InvMax
  /\ pending \subseteq Objs /\ Cardinality(pending) <= MaxPending

Linked ==
  /\ up \subseteq Readers
  /\ due \in [Readers -> SUBSET Objs]
  /\ asked \subseteq Requests
  /\ delayed \subseteq Requests
  /\ wanted \in [Readers -> SUBSET Objs]

LEMMA TypeParts == Typed /\ Capped /\ Linked => TypeOK
BY DEF Typed, Capped, Linked, TypeOK

\* A part of a finite set, and what is left when it is taken away.
LEMMA PartSize ==
  ASSUME NEW S \in SUBSET Objs, NEW T \in SUBSET S
  PROVE  /\ Cardinality(S) \in Nat /\ Cardinality(T) \in Nat
         /\ Cardinality(T) <= Cardinality(S)
         /\ Cardinality(S \ T) = Cardinality(S) - Cardinality(T)
<1>1. IsFiniteSet(S) /\ IsFiniteSet(T)
  BY FiniteAssumption, FS_Subset
<1>2. Cardinality(S \ T) = Cardinality(S) - Cardinality(S \intersect T)
  BY <1>1, FS_Difference
<1>3. S \intersect T = T
  OBVIOUS
<1> QED BY <1>1, <1>2, <1>3, FS_Subset, FS_CardinalityType

\* Storing one object evicts enough to stay within the cap.
LEMMA StoreCapped ==
  ASSUME Capped, NEW h \in Objs, StoreObject(h)
  PROVE  inv' \subseteq Objs /\ Cardinality(inv') <= InvMax
<1>1. CASE h \in inv
  BY <1>1 DEF StoreObject, Capped
<1>2. CASE h \notin inv
  <2>1. PICK I \in SUBSET inv :
          /\ inv' = I \union {h}
          /\ Cardinality(inv \ I) = IF Cardinality(inv) >= InvMax
                                    THEN Cardinality(inv) - InvMax + 1 ELSE 0
    BY <1>2 DEF StoreObject, MakesRoom
  <2>2. /\ Cardinality(inv) \in Nat /\ Cardinality(I) \in Nat
        /\ Cardinality(inv \ I) = Cardinality(inv) - Cardinality(I)
    BY PartSize DEF Capped
  <2>3. Cardinality(I \union {h}) <= Cardinality(I) + 1
    <3>1. IsFiniteSet(I)
      BY FiniteAssumption, FS_Subset DEF Capped
    <3> QED BY <2>2, <3>1, FS_AddElement
  <2>4. Cardinality(I) + 1 <= InvMax
    BY <2>1, <2>2, CapsAssumption DEF Capped
  <2>5. Cardinality(I \union {h}) \in Nat
    <3>1. I \union {h} \subseteq Objs
      BY DEF Capped
    <3> QED BY <3>1, PartSize
  <2> QED BY <2>1, <2>2, <2>3, <2>4, <2>5, CapsAssumption DEF Capped
<1> QED BY <1>1, <1>2

\* Requests that are dropped leave room.
LEMMA PendingShrinks ==
  ASSUME Capped, pending' \subseteq pending
  PROVE  pending' \subseteq Objs /\ Cardinality(pending') <= MaxPending
<1>1. pending \in SUBSET Objs /\ pending' \in SUBSET pending
  BY DEF Capped
<1>2. /\ Cardinality(pending) \in Nat /\ Cardinality(pending') \in Nat
      /\ Cardinality(pending') <= Cardinality(pending)
  BY <1>1, PartSize
<1> QED BY <1>1, <1>2, CapsAssumption DEF Capped

LEMMA NextCapped == Typed /\ Capped /\ Linked /\ [Next]_vars => Capped'
<1> SUFFICES ASSUME Typed, Capped, Linked, [Next]_vars PROVE Capped'
  OBVIOUS
<1>1. CASE UNCHANGED vars
  BY <1>1 DEF vars, Capped
<1>2. ASSUME UNCHANGED inv, pending' \subseteq pending PROVE Capped'
  BY <1>2, PendingShrinks DEF Capped
<1>3. ASSUME NEW h \in Objs, StoreObject(h), UNCHANGED pending PROVE Capped'
  BY <1>3, StoreCapped DEF Capped
<1>4. ASSUME NEW r \in Readers, RememberPending(r) PROVE Capped'
  <2> DEFINE all == pending \union wanted[r]
  <2>1. all \subseteq Objs
    BY DEF Capped, Linked
  <2>2. Cardinality(all) \in Nat
    BY <2>1, PartSize
  <2>3. /\ inv' = inv /\ pending' \subseteq all
        /\ Cardinality(pending') = IF Cardinality(all) <= MaxPending
                                   THEN Cardinality(all) ELSE MaxPending
    BY <1>4 DEF RememberPending
  <2> HIDE DEF all
  <2> QED BY <2>1, <2>2, <2>3, CapsAssumption DEF Capped
<1>5. ASSUME NEW r \in Readers, ReaderStep(r), ~RememberPending(r) PROVE Capped'
  <2>1. CASE Ask(r) \/ Enqueue(r) \/ ReaderTakes(r) \/ ReaderWrites(r) \/ Settle(r)
             \/ Remembered(r)
    BY <1>2, <2>1 DEF Ask, Enqueue, ReaderTakes, ReaderWrites, Settle, Remembered, tables
  <2>2. CASE Store(r) \/ Announce(r)
    <3>1. obj[r] \in Objs /\ StoreObject(obj[r]) /\ UNCHANGED pending
      BY <2>2 DEF Typed, Handling, Store, Announce
    <3> QED BY <1>3, <3>1
  <2> QED BY <1>5, <2>1, <2>2 DEF ReaderStep
<1>6. ASSUME NEW r \in Readers,
             \/ Connect(r) \/ Lose(r) \/ OnInv(r) \/ InvDropped(r) \/ DelayEnds(r)
             \/ \E h \in Objs : Ignore(r, h) \/ Receive(r, h)
      PROVE  Capped'
  BY <1>2, <1>6 DEF Connect, Lose, OnInv, InvDropped, DelayEnds, Ignore, Receive, tables
<1>7. ASSUME NEW h \in Own, OwnStore(h) \/ OwnRemember(h) PROVE Capped'
  BY <1>2, <1>3, <1>7, OwnAssumption DEF OwnStore, OwnRemember
<1>8. CASE RetryPending \/ MaintTakes \/ MaintWrites
  BY <1>2, <1>8 DEF RetryPending, MaintTakes, MaintWrites, tables
<1>9. CASE WipeTables \/ Crash
  BY <1>9, FS_EmptySet, CapsAssumption DEF WipeTables, Crash, Capped
<1>10. CASE WipeStep
  BY <1>2, <1>10 DEF WipeStep, WipeBatch, WipeDelete, WipeDrop, tables
<1> QED BY <1>1, <1>4, <1>5, <1>6, <1>7, <1>8, <1>9, <1>10 DEF Next

LEMMA NextLinked == Typed /\ Capped /\ Linked /\ [Next]_vars => Linked'
<1> SUFFICES ASSUME Typed, Capped, Linked, [Next]_vars PROVE Linked'
  OBVIOUS
<1> USE DEF Linked, netVars
<1>1. CASE UNCHANGED vars
  BY <1>1 DEF vars
<1>2. ASSUME UNCHANGED <<netVars, wanted>> PROVE Linked'
  BY <1>2
<1>3. ASSUME NEW rs \in SUBSET Readers, Hangup(rs), wanted' \in {wanted, [r \in Readers |-> {}]}
      PROVE  Linked'
  BY <1>3 DEF Hangup
<1>4. ASSUME NEW r \in Readers, Connect(r) \/ Lose(r) \/ InvDropped(r) PROVE Linked'
  BY <1>3, <1>4 DEF Connect, Lose, InvDropped, Public
<1>5. ASSUME NEW r \in Readers, OnInv(r) PROVE Linked'
  <2>1. PICK S \in SUBSET due[r] :
          /\ due' = [due EXCEPT ![r] = @ \ S]
          /\ \E W \in Wanted(S) : wanted' = [wanted EXCEPT ![r] = W]
    BY <1>5 DEF OnInv
  <2>2. \A W \in Wanted(S) : W \subseteq Objs
    BY DEF Wanted
  <2> QED BY <1>5, <2>1, <2>2 DEF OnInv
<1>6. ASSUME NEW r \in Readers, DelayEnds(r) PROVE Linked'
  BY <1>6 DEF DelayEnds
<1>7. ASSUME NEW r \in Readers, Ask(r) PROVE Linked'
  <2>1. \E R \in {{}, {r} \X wanted[r]} :
          /\ asked' \subseteq asked \union R /\ delayed' \subseteq delayed \union R
          /\ UNCHANGED <<up, due>> /\ wanted' = [wanted EXCEPT ![r] = {}]
    BY <1>7 DEF Ask
  <2>2. {r} \X wanted[r] \subseteq Requests
    BY DEF Requests
  <2> QED BY <2>1, <2>2
<1>8. ASSUME NEW r \in Readers, ReaderStep(r), ~Ask(r) PROVE Linked'
  BY <1>2, <1>8 DEF ReaderStep, RememberPending, Enqueue, ReaderTakes, ReaderWrites, Store,
                    Settle, Announce, Remembered
<1>9. ASSUME NEW r \in Readers, NEW h \in Objs, Ignore(r, h) \/ Receive(r, h) PROVE Linked'
  BY <1>9 DEF Ignore, Receive
<1>10. ASSUME NEW h \in Own, OwnStore(h) \/ OwnRemember(h) PROVE Linked'
  BY <1>2, <1>10 DEF OwnStore, OwnRemember
<1>11. CASE RetryPending
  <2>1. asked' = asked \/ \E r \in Readers : asked' \subseteq asked \union ({r} \X pending)
    <3>1. CASE up = {}
      BY <1>11, <3>1 DEF RetryPending
    <3>2. CASE up # {}
      BY <1>11, <3>2 DEF RetryPending, Stale
    <3> QED BY <3>1, <3>2
  <2>2. \A r \in Readers : {r} \X pending \subseteq Requests
    BY DEF Requests, Capped
  <2> QED BY <1>11, <2>1, <2>2 DEF RetryPending
<1>12. CASE MaintTakes \/ MaintWrites \/ WipeTables \/ WipeBatch \/ WipeDelete
  BY <1>2, <1>12 DEF MaintTakes, MaintWrites, WipeTables, WipeBatch, WipeDelete
<1>13. CASE WipeDrop \/ Crash
  BY <1>3, <1>13 DEF WipeDrop, Dropped, Crash
<1> QED BY <1>1, <1>4, <1>5, <1>6, <1>7, <1>8, <1>9, <1>10, <1>11, <1>12, <1>13
        DEF Next, WipeStep

TypeInv == Typed /\ Capped /\ Linked

LEMMA InitTypeInv == Init => TypeInv
<1> SUFFICES ASSUME Init PROVE TypeInv
  OBVIOUS
<1>1. Typed
  BY InitOnce DEF OnceInv
<1>2. Capped
  BY FS_EmptySet, CapsAssumption DEF Init, Capped
<1>3. Linked
  BY DEF Init, Linked
<1> QED BY <1>1, <1>2, <1>3 DEF TypeInv

\* Every table keeps its type, memory never holds more than INVENTORY_MAX
\* objects and no more than MAX_PENDING requests are remembered, for every
\* value of the caps.
THEOREM TypeCorrect == Spec => []TypeOK
<1>1. TypeInv /\ [Next]_vars => TypeInv'
  BY NextTyped, NextCapped, NextLinked DEF TypeInv
<1>2. TypeInv => TypeOK
  BY TypeParts DEF TypeInv
<1> QED BY <1>1, <1>2, InitTypeInv, PTL DEF Spec

-----------------------------------------------------------------------------
(* Without a wipe and a failing write, the bytes of a known object are on    *)
(* their way to the database or in it: memory may evict them at any time.    *)

\* On the way to the database: in the batch, in the copy a thread is writing,
\* stored, or in the hands of the reader that will put it in the batch.
Durable(h) ==
  \/ h \in batch \union db
  \/ \E t \in Flushers : h \in flushing[t]
  \/ \E r \in Readers : pc[r] = "enqueue" /\ obj[r] = h

Unharmed == bounds["dbErrors"] = 0 /\ bounds["wipes"] = 0

\* The objects of others that are known, in memory or being handled.
Foreign ==
  (known \union inv \union {obj[r] : r \in {q \in Readers : Handling(q)}}) \ Own

HeldInv ==
  /\ Typed
  /\ \A r \in Readers : pc[r] # "write" => flushing[r] = {}
  /\ Unharmed => wipe = "idle" /\ \A h \in Foreign : Durable(h)

LEMMA InitHeld == Init => HeldInv
<1> SUFFICES ASSUME Init PROVE HeldInv
  OBVIOUS
<1>1. Typed
  BY InitOnce DEF OnceInv
<1>2. \A r \in Readers : flushing[r] = {}
  BY DEF Init, Flushers
<1>3. Foreign = {}
  BY DEF Init, Foreign, Handling
<1> QED BY <1>1, <1>2, <1>3 DEF Init, HeldInv

\* A step that counts no failed write and no wipe had none before it.
LEMMA UnharmedBefore ==
  ASSUME Typed, Unharmed', bounds' = bounds \/ \E e \in Events : Happens(e)
  PROVE  Unharmed /\ ~Happens("dbErrors") /\ ~Happens("wipes")
<1>1. bounds["dbErrors"] \in Nat /\ bounds["wipes"] \in Nat
  BY DEF Typed, Events
<1>2. ASSUME NEW e \in Events, Happens(e)
      PROVE  bounds' = [bounds EXCEPT ![e] = bounds[e] + 1]
  BY <1>2 DEF Happens
<1>3. \A e \in Events : bounds'[e] = 0 => ~Happens(e)
  <2> SUFFICES ASSUME NEW e \in Events, Happens(e) PROVE bounds'[e] # 0
    OBVIOUS
  <2>1. bounds[e] \in Nat /\ bounds'[e] = bounds[e] + 1
    BY <1>2 DEF Typed
  <2> QED BY <2>1
<1>4. "dbErrors" \in Events /\ "wipes" \in Events
  BY DEF Events
<1>5. ~Happens("dbErrors") /\ ~Happens("wipes")
  BY <1>3, <1>4 DEF Unharmed
<1>6. bounds'["dbErrors"] = bounds["dbErrors"] /\ bounds'["wipes"] = bounds["wipes"]
  BY <1>2, <1>4, <1>5 DEF Typed
<1> QED BY <1>5, <1>6 DEF Unharmed

\* A step after which nothing new is known, in memory or being handled, and
\* nothing left its way to the database.
LEMMA HeldKept ==
  ASSUME HeldInv, Unharmed, \A h \in Foreign' : h \in Foreign \/ Durable(h)',
         \A h \in Foreign : Durable(h) => Durable(h)'
  PROVE  \A h \in Foreign' : Durable(h)'
BY DEF HeldInv

\* What a reader's step changes of it, when it moves from one place to another
\* with its object.
LEMMA ForeignKept ==
  ASSUME known' \subseteq known \union Own, inv' \subseteq inv \union Own,
         \A r \in Readers : Handling(r)' => Handling(r) /\ obj'[r] = obj[r]
  PROVE  Foreign' \subseteq Foreign
BY DEF Foreign

\* The path of the bytes is untouched.
LEMMA DurableKept ==
  ASSUME NEW h, Durable(h), batch \subseteq batch', db \subseteq db', flushing' = flushing,
         \A r \in Readers : pc[r] = "enqueue" => pc'[r] = "enqueue" /\ obj'[r] = obj[r]
  PROVE  Durable(h)'
BY DEF Durable

\* A thread takes the batch with empty hands, ...
LEMMA DurableTaken ==
  ASSUME NEW h, Durable(h), Typed, NEW t \in Flushers, flushing[t] = {}, TakeBatch(t),
         \A r \in Readers : pc[r] = "enqueue" => pc'[r] = "enqueue" /\ obj'[r] = obj[r]
  PROVE  Durable(h)'
<1>1. /\ db' = db /\ flushing'[t] = batch
      /\ \A u \in Flushers : u # t => flushing'[u] = flushing[u]
  BY DEF TakeBatch, Typed
<1>2. CASE h \in batch \union db
  BY <1>1, <1>2 DEF Durable
<1>3. CASE \E u \in Flushers : h \in flushing[u]
  BY <1>1, <1>3 DEF Durable
<1>4. CASE \E r \in Readers : pc[r] = "enqueue" /\ obj[r] = h
  BY <1>4 DEF Durable
<1> QED BY <1>2, <1>3, <1>4 DEF Durable

\* ... and writes all of it.
LEMMA DurableWritten ==
  ASSUME NEW h, Durable(h), Typed, NEW t \in Flushers, WriteBatch(t), ~Happens("dbErrors"),
         \A r \in Readers : pc[r] = "enqueue" => pc'[r] = "enqueue" /\ obj'[r] = obj[r]
  PROVE  Durable(h)'
<1>1. /\ db' = db \union flushing[t] /\ batch' = batch
      /\ \A u \in Flushers : u # t => flushing'[u] = flushing[u]
  BY DEF WriteBatch, Written, Typed
<1>2. CASE h \in batch \union db
  BY <1>1, <1>2 DEF Durable
<1>3. CASE \E u \in Flushers : h \in flushing[u]
  BY <1>1, <1>3 DEF Durable
<1>4. CASE \E r \in Readers : pc[r] = "enqueue" /\ obj[r] = h
  BY <1>4 DEF Durable
<1> QED BY <1>2, <1>3, <1>4 DEF Durable

\* Storing an object puts nothing but that object into memory.
LEMMA StoreAdds ==
  ASSUME NEW h, StoreObject(h)
  PROVE  known' \subseteq known /\ inv' \subseteq inv \union {h}
BY DEF StoreObject, MakesRoom

\* No reader holds a copy of the batch outside its write.
LEMMA NextHands ==
  HeldInv /\ [Next]_vars => \A r \in Readers : pc'[r] # "write" => flushing'[r] = {}
<1> SUFFICES ASSUME HeldInv, [Next]_vars
             PROVE  \A r \in Readers : pc'[r] # "write" => flushing'[r] = {}
  OBVIOUS
<1> USE DEF HeldInv, Typed, Flushers
<1>1. CASE UNCHANGED <<flushing, pc>>
  BY <1>1
<1>2. ASSUME NEW r \in Readers, NEW l \in ReaderPCs, pc' = [pc EXCEPT ![r] = l], pc[r] # "write",
             UNCHANGED flushing
      PROVE  \A q \in Readers : pc'[q] # "write" => flushing'[q] = {}
  BY <1>2
<1>3. ASSUME NEW r \in Readers, ReaderStep(r)
      PROVE  \A q \in Readers : pc'[q] # "write" => flushing'[q] = {}
  <2>1. CASE ReaderTakes(r)
    BY <2>1 DEF ReaderTakes, TakeBatch, Goto
  <2>2. CASE ReaderWrites(r)
    BY <2>2 DEF ReaderWrites, WriteBatch, Goto
  <2>3. CASE Enqueue(r)
    BY <1>2, <2>3 DEF Enqueue, Goto, ReaderPCs
  <2>4. CASE RememberPending(r) \/ Ask(r) \/ Store(r) \/ Settle(r) \/ Announce(r) \/ Remembered(r)
    BY <1>2, <2>4 DEF RememberPending, Ask, Store, Settle, Announce, Remembered, Goto, ReaderPCs,
                      dbVars
  <2> QED BY <1>3, <2>1, <2>2, <2>3, <2>4 DEF ReaderStep
<1>4. ASSUME NEW r \in Readers, NEW h \in Objs, Ignore(r, h) \/ Receive(r, h)
      PROVE  \A q \in Readers : pc'[q] # "write" => flushing'[q] = {}
  BY <1>1, <1>2, <1>4 DEF Ignore, Receive, Goto, ReaderPCs, dbVars
<1>5. ASSUME NEW r \in Readers, OnInv(r)
      PROVE  \A q \in Readers : pc'[q] # "write" => flushing'[q] = {}
  <2>1. \E l \in ReaderPCs : pc' = [pc EXCEPT ![r] = l]
    BY <1>5 DEF OnInv, Goto, ReaderPCs
  <2> QED BY <1>2, <1>5, <2>1 DEF OnInv, dbVars
<1>6. ASSUME NEW r \in Readers, Connect(r) \/ Lose(r) \/ InvDropped(r) \/ DelayEnds(r)
      PROVE  \A q \in Readers : pc'[q] # "write" => flushing'[q] = {}
  BY <1>1, <1>6 DEF Connect, Lose, InvDropped, DelayEnds, dbVars
<1>7. ASSUME NEW h \in Own, OwnStore(h) \/ OwnRemember(h)
      PROVE  \A q \in Readers : pc'[q] # "write" => flushing'[q] = {}
  BY <1>1, <1>7 DEF OwnStore, OwnRemember, dbVars
<1>8. CASE RetryPending \/ WipeTables \/ WipeStep
  BY <1>1, <1>8 DEF RetryPending, WipeTables, WipeStep, WipeBatch, WipeDelete, WipeDrop, dbVars
<1>9. CASE MaintTakes \/ MaintWrites
  BY <1>9, ThreadsAssumption DEF MaintTakes, MaintWrites, TakeBatch, WriteBatch
<1>10. CASE Crash
  BY <1>10 DEF Crash
<1> QED BY <1>1, <1>3, <1>4, <1>5, <1>6, <1>7, <1>8, <1>9, <1>10 DEF Next, vars

LEMMA NextHeld == HeldInv /\ [Next]_vars => HeldInv'
<1> SUFFICES ASSUME HeldInv, [Next]_vars, Unharmed'
             PROVE  wipe' = "idle" /\ \A h \in Foreign' : Durable(h)'
  BY NextTyped, NextHands DEF HeldInv
<1> DEFINE Goal == wipe' = "idle" /\ \A h \in Foreign' : Durable(h)'
<1> SUFFICES Goal
  OBVIOUS
<1> HIDE DEF Goal
<1>t. Typed
  BY DEF HeldInv
<1>u. bounds' = bounds \/ (\E e \in Events : Happens(e)) =>
         /\ Unharmed /\ wipe = "idle" /\ ~Happens("dbErrors") /\ ~Happens("wipes")
         /\ \A h \in Foreign : Durable(h)
  BY <1>t, UnharmedBefore DEF HeldInv
\* A step that leaves the tables, the batches and the readers' objects alone.
<1>k. ASSUME bounds' = bounds \/ (\E e \in Events : Happens(e)),
             UNCHANGED <<dbVars, wipe>>,
             known' \subseteq known \union Own, inv' \subseteq inv \union Own,
             \A r \in Readers : Handling(r)' => Handling(r) /\ obj'[r] = obj[r],
             \A r \in Readers : pc[r] = "enqueue" => pc'[r] = "enqueue" /\ obj'[r] = obj[r]
      PROVE  Goal
  BY <1>k, <1>u, HeldKept, ForeignKept, DurableKept DEF Goal, dbVars
<1>1. CASE UNCHANGED vars
  BY <1>1, <1>k DEF vars, dbVars, Handling
<1>2. ASSUME NEW r \in Readers,
             Connect(r) \/ Lose(r) \/ OnInv(r) \/ InvDropped(r) \/ DelayEnds(r)
      PROVE  Goal
  <2>1. UNCHANGED <<known, inv, dbVars, obj, wipe, bounds>>
    BY <1>2 DEF Connect, Lose, OnInv, InvDropped, DelayEnds, tables, history
  <2>2. \A q \in Readers : /\ Handling(q)' => Handling(q)
                           /\ pc[q] = "enqueue" => pc'[q] = "enqueue"
    BY <1>2, <1>t DEF Connect, Lose, OnInv, InvDropped, DelayEnds, Handling, Goto, Typed
  <2> QED BY <2>1, <2>2, <1>k
<1>3. ASSUME NEW r \in Readers, ReaderStep(r) PROVE Goal
  <2>0. Handling(r) => obj[r] \in (Foreign \union Own)
    BY DEF Foreign
  <2>1. CASE RememberPending(r) \/ Ask(r) \/ Settle(r)
    <3>1. UNCHANGED <<known, inv, dbVars, obj, wipe, bounds>>
      BY <2>1 DEF RememberPending, Ask, Settle, tables, history
    <3>2. \A q \in Readers : /\ Handling(q)' => Handling(q)
                             /\ pc[q] = "enqueue" => pc'[q] = "enqueue"
      BY <2>1, <1>t DEF RememberPending, Ask, Settle, Handling, Goto, Typed
    <3> QED BY <3>1, <3>2, <1>k
  <2>2. CASE Enqueue(r)
    <3>1. UNCHANGED <<known, inv, flushing, db, obj, wipe, bounds>>
          /\ batch' = batch \union {obj[r]}
      BY <2>2 DEF Enqueue, tables, history
    <3>2. /\ \A q \in Readers : Handling(q)' => Handling(q)
          /\ \A q \in Readers : q # r => pc'[q] = pc[q]
      BY <2>2, <1>t DEF Enqueue, Handling, Goto, Typed
    <3>3. Foreign' \subseteq Foreign
      BY <3>1, <3>2, ForeignKept
    <3>4. \A h : Durable(h) => Durable(h)'
      BY <3>1, <3>2 DEF Durable
    <3> QED BY <3>1, <3>3, <3>4, <1>u DEF Goal
  <2>3. CASE ReaderTakes(r) \/ ReaderWrites(r)
    <3>1. /\ UNCHANGED <<known, inv, obj, wipe>>
          /\ bounds' = bounds \/ (\E e \in Events : Happens(e))
      BY <2>3 DEF ReaderTakes, ReaderWrites, WriteBatch, Events, tables, history
    <3>2. \A q \in Readers : /\ Handling(q)' => Handling(q)
                             /\ pc[q] = "enqueue" => pc'[q] = "enqueue"
      BY <2>3, <1>t DEF ReaderTakes, ReaderWrites, Handling, Goto, Typed
    <3>3. Foreign' \subseteq Foreign
      BY <3>1, <3>2, ForeignKept
    <3>4. r \in Flushers /\ (pc[r] = "flush" => flushing[r] = {})
      BY DEF Flushers, HeldInv
    <3>5. \A h : Durable(h) => Durable(h)'
      BY <2>3, <3>1, <3>2, <3>4, <1>t, <1>u, DurableTaken, DurableWritten
         DEF ReaderTakes, ReaderWrites
    <3> QED BY <3>1, <3>3, <3>5, <1>u DEF Goal
  <2>4. CASE Store(r) \/ Announce(r)
    <3>1. UNCHANGED <<dbVars, obj, wipe, bounds>> /\ Handling(r)
          /\ known' \subseteq known /\ inv' \subseteq inv \union {obj[r]}
      BY <2>4, StoreAdds DEF Store, Announce, Handling
    <3>2. \A q \in Readers : /\ Handling(q)' => Handling(q)
                             /\ pc[q] = "enqueue" => pc'[q] = "enqueue"
      BY <2>4, <1>t DEF Store, Announce, Handling, Goto, Typed
    <3>3. Foreign' \subseteq Foreign
      BY <3>1, <3>2 DEF Foreign
    <3>4. \A h : Durable(h) => Durable(h)'
      BY <3>1, <3>2, DurableKept DEF dbVars
    <3> QED BY <3>1, <3>3, <3>4, <1>u DEF Goal
  <2>5. CASE Remembered(r)
    <3>1. /\ UNCHANGED <<inv, dbVars, wipe, bounds>> /\ known' = known \union {obj[r]}
          /\ obj' = [obj EXCEPT ![r] = NoObj] /\ pc' = [pc EXCEPT ![r] = "idle"]
          /\ Handling(r) /\ pc[r] # "enqueue"
      BY <2>5 DEF Remembered, RememberAnnounce, Goto, Handling, history
    <3>2. \A q \in Readers : /\ Handling(q)' => Handling(q) /\ obj'[q] = obj[q]
                             /\ pc[q] = "enqueue" => pc'[q] = "enqueue" /\ obj'[q] = obj[q]
      BY <3>1, <1>t DEF Handling, Typed
    <3>3. Foreign' \subseteq Foreign
      BY <3>1, <3>2 DEF Foreign
    <3>4. \A h : Durable(h) => Durable(h)'
      BY <3>1, <3>2, DurableKept DEF dbVars
    <3> QED BY <3>1, <3>3, <3>4, <1>u DEF Goal
  <2> QED BY <1>3, <2>1, <2>2, <2>3, <2>4, <2>5 DEF ReaderStep
<1>4. ASSUME NEW r \in Readers, NEW h \in Objs, Ignore(r, h) PROVE Goal
  <2>1. UNCHANGED <<known, inv, dbVars, obj, pc, wipe, bounds>>
    BY <1>4 DEF Ignore, tables, history
  <2> QED BY <2>1, <1>k DEF Handling
<1>5. ASSUME NEW r \in Readers, NEW h \in Objs, Receive(r, h) PROVE Goal
  <2>1. CASE Seen(h)
    <3>1. UNCHANGED <<known, inv, dbVars, obj, pc, wipe, bounds>>
      BY <1>5, <2>1 DEF Receive
    <3> QED BY <3>1, <1>k DEF Handling
  <2>2. CASE ~Seen(h)
    <3>1. /\ UNCHANGED <<inv, dbVars, wipe>> /\ Happens("accepted")
          /\ known' = known \union {h} /\ obj' = [obj EXCEPT ![r] = h]
          /\ pc[r] = "idle" /\ pc' = [pc EXCEPT ![r] = "enqueue"]
      BY <1>5, <2>2 DEF Receive, MarkKnown, Goto
    <3>2. "accepted" \in Events
      BY DEF Events
    <3>3. Durable(h)'
      BY <3>1, <1>t DEF Durable, Typed
    <3>4. \A q \in Readers : Handling(q)' => \/ obj'[q] = h
                                             \/ Handling(q) /\ obj'[q] = obj[q]
      BY <3>1, <1>t DEF Handling, Typed
    <3>5. \A g \in Foreign' : g \in Foreign \/ g = h
      BY <3>1, <3>4 DEF Foreign
    <3>6. \A q \in Readers : pc[q] = "enqueue" => pc'[q] = "enqueue" /\ obj'[q] = obj[q]
      BY <3>1, <1>t DEF Typed
    <3>7. \A g : Durable(g) => Durable(g)'
      BY <3>1, <3>6, DurableKept DEF dbVars
    <3> QED BY <3>1, <3>2, <3>3, <3>5, <3>7, <1>u DEF Goal
  <2> QED BY <2>1, <2>2
<1>6. ASSUME NEW h \in Own, OwnStore(h) \/ OwnRemember(h) PROVE Goal
  <2>1. UNCHANGED <<dbVars, pc, obj, wipe, bounds>>
    BY <1>6 DEF OwnStore, OwnRemember, history
  <2>2. known' \subseteq known \union {h} /\ inv' \subseteq inv \union {h}
    BY <1>6, StoreAdds DEF OwnStore, OwnRemember, RememberAnnounce
  <2> QED BY <2>1, <2>2, <1>k DEF Handling
<1>7. CASE RetryPending
  <2>1. /\ UNCHANGED <<known, inv, dbVars, obj, pc, wipe>>
        /\ bounds' = bounds \/ (\E e \in Events : Happens(e))
    BY <1>7 DEF RetryPending, Events
  <2> QED BY <2>1, <1>k DEF Handling
<1>8. CASE MaintTakes \/ MaintWrites
  <2>1. /\ UNCHANGED <<known, inv, obj, pc, wipe>>
        /\ bounds' = bounds \/ (\E e \in Events : Happens(e))
    BY <1>8 DEF MaintTakes, MaintWrites, WriteBatch, Events, tables, history
  <2>2. Foreign' \subseteq Foreign
    BY <2>1, ForeignKept DEF Handling
  <2>3. Maint \in Flushers
    BY DEF Flushers
  <2>4. \A h : Durable(h) => Durable(h)'
    BY <1>8, <2>1, <2>3, <1>t, <1>u, DurableTaken, DurableWritten DEF MaintTakes, MaintWrites
  <2> QED BY <2>1, <2>2, <2>4, <1>u DEF Goal
<1>9. CASE WipeTables
  <2>1. Happens("wipes") /\ "wipes" \in Events
    BY <1>9 DEF WipeTables, Events
  <2> QED BY <2>1, <1>u
<1>10. CASE WipeStep
  <2>1. (bounds' = bounds \/ (\E e \in Events : Happens(e))) /\ wipe # "idle"
    BY <1>10 DEF Events, WipeStep, WipeBatch, WipeDelete, WipeDrop, history
  <2> QED BY <2>1, <1>u
<1>11. CASE Crash
  <2>1. /\ known' = db /\ db' = db /\ inv' = {} /\ wipe' = "idle"
        /\ pc' = [r \in Readers |-> "idle"]
    BY <1>11 DEF Crash, LoadKnownHashes
  <2> QED BY <2>1 DEF Goal, Foreign, Handling, Durable
<1> QED
  BY <1>1, <1>2, <1>3, <1>4, <1>5, <1>6, <1>7, <1>8, <1>9, <1>10, <1>11 DEF Next

\* A hash that is refused as known is backed by its bytes, through every order
\* of flushes by the readers and the maintenance thread, evictions, cuts of
\* known_hashes and crashes.
THEOREM KnownBacked == Spec => []KnownIsHeld
<1>1. HeldInv => KnownIsHeld
  BY DEF HeldInv, Unharmed, Foreign, Durable, KnownIsHeld, Held, Handling
<1> QED BY <1>1, InitHeld, NextHeld, PTL DEF Spec
=============================================================================
