-------------------------- MODULE PublishingProofs --------------------------
(***************************************************************************)
(* Proofs about Publishing for any number of tasks, slots, processes and   *)
(* ranges of nonces, any set of scheduled rows and every bound.            *)
(***************************************************************************)
EXTENDS Publishing, FiniteSetTheorems, TLAPS

-----------------------------------------------------------------------------
(* The book-keeping of the tasks                                             *)

\* A thread holds a slot only between Enter and Leave, an ACK is searched for
\* direct messages only, and the table lists a task from its registration to
\* its outcome.
TaskInv ==
  /\ pc \in [Tasks -> PCs]
  /\ kind \in [Tasks -> AllKinds]
  /\ job \in [Tasks -> Sched \union {NoJob}]
  /\ stops \subseteq Tasks /\ stop \subseteq Tasks /\ acquired \subseteq Tasks
  /\ strategy \in Strategies
  /\ \A t \in Tasks :
       /\ pc[t] \in {"ackWait", "ackSearch"} => kind[t] = "dm"
       /\ pc[t] \in {"tracked", "announce", "store", "failing", "leaving"} => kind[t] # "plain"
       /\ t \in acquired => kind[t] # "plain" /\
            pc[t] \in {"globalWait", "search", "announce", "store", "failing", "leaving"}
       /\ kind[t] # "plain" /\ pc[t] \in {"tracked", "globalWait", "search"} => t \in stops
       /\ t \in stops => kind[t] # "plain" /\
            pc[t] \in {"tracked", "globalWait", "search", "failing"}

LEMMA InitTask == Init => TaskInv
BY DEF Init, TaskInv, PCs, AllKinds

LEMMA RegisterTask ==
  ASSUME TaskInv, NEW t \in Tasks, NEW k \in AllKinds, NEW j \in Sched \union {NoJob},
         Register(t, k, j), UNCHANGED <<acquired, strategy>>
  PROVE  TaskInv'
<1>1. FirstStep(k) \in {"ackWait", "globalWait", "tracked"}
      /\ (FirstStep(k) = "ackWait" => k = "dm")
      /\ (FirstStep(k) = "tracked" => k # "plain")
      /\ (FirstStep(k) = "globalWait" => k = "plain")
  BY DEF FirstStep
<1>2. /\ pc' = [pc EXCEPT ![t] = FirstStep(k)]
      /\ kind' = [kind EXCEPT ![t] = k]
      /\ job' = [job EXCEPT ![t] = j]
      /\ stops' = IF FirstStep(k) = "tracked" THEN stops \union {t} ELSE stops
      /\ stop' = stop \ {t}
      /\ pc[t] = "free"
  BY DEF Register, Goto
<1> QED BY <1>1, <1>2 DEF TaskInv, PCs

\* The ways out of a search that raises.
LEMMA RaisedSteps ==
  ASSUME TaskInv, NEW t \in Tasks
  PROVE  /\ kind[t] = "plain" \/ pc[t] \in {"ackWait", "ackSearch"} => Raised(t) = "free"
         /\ kind[t] # "plain" /\ pc[t] \notin {"ackWait", "ackSearch"} => Raised(t) = "failing"
BY DEF Raised

\* A thread goes on with what it is: the arguments change when it ends.
LEMMA GoOnTask ==
  ASSUME TaskInv, NEW t \in Tasks, NEW l \in PCs, GoOn(t, l), UNCHANGED strategy,
         acquired' \subseteq acquired, l \in {"free", "tracked"} => t \notin acquired',
         l # "free" /\ kind[t] = "plain" => l \in {"globalWait", "search"},
         l \notin {"ackWait", "ackSearch"},
         IF l \in {"tracked", "globalWait", "search"} /\ kind[t] # "plain"
         THEN stops' = stops \union {t}
         ELSE IF l = "failing" THEN stops' = stops
         ELSE stops' \ {t} = stops \ {t} /\ t \notin stops'
  PROVE  TaskInv'
<1>1. /\ pc' = [pc EXCEPT ![t] = l]
      /\ kind' = [kind EXCEPT ![t] = IF l = "free" THEN "plain" ELSE kind[t]]
      /\ job' = [job EXCEPT ![t] = IF l = "free" THEN NoJob ELSE job[t]]
      /\ stop' = IF l = "free" THEN stop \ {t} ELSE stop
  BY DEF GoOn, Goto
<1>2. /\ pc' \in [Tasks -> PCs] /\ kind' \in [Tasks -> AllKinds]
      /\ job' \in [Tasks -> Sched \union {NoJob}]
      /\ stops' \subseteq Tasks /\ stop' \subseteq Tasks /\ acquired' \subseteq Tasks
      /\ strategy' \in Strategies
  BY <1>1 DEF TaskInv, AllKinds
<1> SUFFICES ASSUME NEW u \in Tasks
             PROVE
       /\ pc'[u] \in {"ackWait", "ackSearch"} => kind'[u] = "dm"
       /\ pc'[u] \in {"tracked", "announce", "store", "failing", "leaving"} => kind'[u] # "plain"
       /\ u \in acquired' => kind'[u] # "plain" /\
            pc'[u] \in {"globalWait", "search", "announce", "store", "failing", "leaving"}
       /\ kind'[u] # "plain" /\ pc'[u] \in {"tracked", "globalWait", "search"} => u \in stops'
       /\ u \in stops' => kind'[u] # "plain" /\
            pc'[u] \in {"tracked", "globalWait", "search", "failing"}
  BY <1>2 DEF TaskInv
<1>3. CASE u # t
  BY <1>1, <1>3 DEF TaskInv
<1>4. CASE u = t
  BY <1>1, <1>4 DEF TaskInv, PCs
<1> QED BY <1>3, <1>4

\* A thread goes on with its arguments unchanged.
LEMMA GotoTask ==
  ASSUME TaskInv, NEW t \in Tasks, NEW l \in PCs \ {"free"}, Goto(t, l),
         UNCHANGED <<kind, job, stop, strategy>>,
         acquired' \subseteq acquired \union {t},
         t \in acquired' => kind[t] # "plain",
         l = "tracked" => t \notin acquired',
         kind[t] = "plain" => l \in {"globalWait", "search"},
         l \in {"ackWait", "ackSearch"} => kind[t] = "dm" /\ t \notin acquired',
         IF l \in {"tracked", "globalWait", "search"} /\ kind[t] # "plain"
         THEN stops' = stops \union {t}
         ELSE IF l = "failing" THEN stops' \subseteq stops \union {t} /\ stops \subseteq stops'
         ELSE stops' \subseteq stops /\ stops \ {t} \subseteq stops' /\ t \notin stops'
  PROVE  TaskInv'
<1>1. /\ pc' = [pc EXCEPT ![t] = l] /\ pc' \in [Tasks -> PCs]
      /\ stops' \subseteq Tasks /\ acquired' \subseteq Tasks
  BY DEF Goto, TaskInv
<1> SUFFICES ASSUME NEW u \in Tasks
             PROVE
       /\ pc'[u] \in {"ackWait", "ackSearch"} => kind[u] = "dm"
       /\ pc'[u] \in {"tracked", "announce", "store", "failing", "leaving"} => kind[u] # "plain"
       /\ u \in acquired' => kind[u] # "plain" /\
            pc'[u] \in {"globalWait", "search", "announce", "store", "failing", "leaving"}
       /\ kind[u] # "plain" /\ pc'[u] \in {"tracked", "globalWait", "search"} => u \in stops'
       /\ u \in stops' => kind[u] # "plain" /\
            pc'[u] \in {"tracked", "globalWait", "search", "failing"}
  BY <1>1 DEF TaskInv
<1>2. CASE u # t
  BY <1>1, <1>2 DEF TaskInv
<1>3. CASE u = t
  BY <1>1, <1>3 DEF TaskInv, PCs
<1> QED BY <1>2, <1>3

LEMMA FoundTask ==
  ASSUME TaskInv, NEW t \in Tasks, Found(t), pc[t] \in Searching, UNCHANGED <<acquired, strategy>>
  PROVE  TaskInv'
<1>1. PICK l \in {"free", "tracked", "announce"} :
        /\ l = CASE kind[t] = "plain" -> "free"
                 [] pc[t] = "ackSearch" -> "tracked"
                 [] OTHER -> "announce"
        /\ GoOn(t, l)
        /\ stops' = IF pc[t] = "ackSearch" THEN stops \union {t} ELSE stops \ {t}
  BY DEF Found
<1>2. pc[t] = "ackSearch" => kind[t] = "dm"
  BY DEF TaskInv
<1>3. /\ kind[t] = "plain" => l = "free"
      /\ pc[t] = "ackSearch" => l = "tracked"
      /\ kind[t] # "plain" /\ pc[t] # "ackSearch" => l = "announce"
  BY <1>1, <1>2
<1>4. l \in PCs
  BY DEF PCs
<1>5. l \in {"free", "tracked"} => t \notin acquired'
  BY <1>3 DEF TaskInv
<1> QED BY <1>1, <1>2, <1>3, <1>4, <1>5, GoOnTask

LEMMA RaisedTask ==
  ASSUME TaskInv, NEW t \in Tasks, pc[t] \in {"ackWait", "globalWait", "ackSearch", "search"},
         GoOn(t, Raised(t)), UNCHANGED <<stops, acquired, strategy>>
  PROVE  TaskInv'
<1>1. CASE kind[t] = "plain" \/ pc[t] \in {"ackWait", "ackSearch"}
  <2>1. GoOn(t, "free") /\ t \notin acquired /\ t \notin stops /\ "free" \in PCs
    BY <1>1, RaisedSteps DEF TaskInv, PCs
  <2> QED BY <2>1, GoOnTask
<1>2. CASE kind[t] # "plain" /\ pc[t] \notin {"ackWait", "ackSearch"}
  <2>1. GoOn(t, "failing") /\ "failing" \in PCs
    BY <1>2, RaisedSteps DEF PCs
  <2> QED BY <1>2, <2>1, GoOnTask
<1> QED BY <1>1, <1>2

LEMMA TaskStepTask ==
  ASSUME TaskInv, NEW t \in Tasks, TaskStep(t)
  PROVE  TaskInv'
<1> USE DEF envVars, Searching
<1>0. pc[t] = "tracked" => t \notin acquired /\ kind[t] # "plain" /\ t \in stops
  BY DEF TaskInv
<1>1. CASE Enter(t)
  BY <1>0, <1>1, GotoTask DEF Enter, Ensure, PCs
<1>2. CASE SlotTimeout(t)
  BY <1>0, <1>2, GotoTask DEF SlotTimeout, Ensure, PCs
<1>3. CASE SearchBegins(t)
  <2>1. CASE pc[t] = "ackWait"
    <3>1. kind[t] = "dm" /\ t \notin acquired /\ t \notin stops
      BY <2>1 DEF TaskInv
    <3> QED BY <1>3, <2>1, <3>1, GotoTask DEF SearchBegins, PCs
  <2>2. CASE pc[t] = "globalWait"
    <3>1. (t \in stops <=> kind[t] # "plain") /\ (t \in acquired => kind[t] # "plain")
      BY <2>2 DEF TaskInv
    <3> QED BY <1>3, <2>2, <3>1, GotoTask DEF SearchBegins, PCs
  <2> QED BY <1>3, <2>1, <2>2 DEF SearchBegins
<1>4. CASE GlobalTimeout(t) \/ MockGivesUp(t) \/ SearchStopped(t)
  BY <1>4, RaisedTask DEF GlobalTimeout, MockGivesUp, SearchStopped, StopSeen
<1>5. CASE MockFinds(t)
  BY <1>5, FoundTask DEF MockFinds
<1>6. CASE FailPow(t)
  <2>1. kind[t] # "plain"
    BY <1>6 DEF FailPow, TaskInv
  <2> QED BY <1>6, <2>1, GotoTask DEF FailPow, Untrack, PCs
<1>7. CASE Announce(t) \/ Store(t) \/ StoreRaises(t)
  <2>1. kind[t] # "plain" /\ t \notin stops
    BY <1>7 DEF Announce, Store, StoreRaises, TaskInv
  <2>2. \E l \in {"store", "leaving", "failing"} : Goto(t, l)
    BY <1>7 DEF Announce, Store, StoreRaises
  <2> QED BY <1>7, <2>1, <2>2, GotoTask DEF Announce, Store, StoreRaises, PCs
<1>8. CASE Leave(t)
  <2>1. t \notin stops
    BY <1>8 DEF Leave, TaskInv
  <2> QED BY <1>8, <2>1, GoOnTask DEF Leave, PCs
<1> QED BY <1>1, <1>2, <1>3, <1>4, <1>5, <1>6, <1>7, <1>8 DEF TaskStep

LEMMA NextTask == TaskInv /\ [Next]_vars => TaskInv'
<1> SUFFICES ASSUME TaskInv, [Next]_vars PROVE TaskInv'
  OBVIOUS
<1> USE DEF taskVars, envVars
<1>0. ASSUME UNCHANGED <<taskVars, strategy>> PROVE TaskInv'
  BY <1>0 DEF TaskInv
<1>1. CASE UNCHANGED vars
  BY <1>0, <1>1 DEF vars
<1>2. ASSUME NEW t \in Tasks, NEW k \in Kinds, Publish(t, k) PROVE TaskInv'
  BY <1>2, RegisterTask, KindsAssumption DEF Publish
<1>3. ASSUME NEW t \in Tasks, TaskStep(t) PROVE TaskInv'
  BY <1>3, TaskStepTask
<1>4. ASSUME NEW t \in Tasks, NEW w \in Procs, ProcStep(t, w) PROVE TaskInv'
  BY <1>0, <1>4, FoundTask DEF ProcStep, FutureFinds, FutureEnds
<1>5. ASSUME stop' \subseteq stop \union stops,
             UNCHANGED <<pc, kind, job, stops, acquired, strategy>>
      PROVE  TaskInv'
  BY <1>5 DEF TaskInv
<1>6. ASSUME NEW t \in Tasks, Cancel(t) PROVE TaskInv'
  BY <1>5, <1>6 DEF Cancel
<1>7. CASE CancelAll \/ Stop
  BY <1>5, <1>7 DEF CancelAll, Stop
<1>8. ASSUME NEW s \in Sched, Due(s) PROVE TaskInv'
  BY <1>0, <1>8 DEF Due
<1>9. ASSUME NEW s \in Sched, SendDue(s) PROVE TaskInv'
  BY <1>9, RegisterTask DEF SendDue, AllKinds
<1>10. ASSUME NEW s \in Sched, RefuseDue(s) \/ SkipDue(s) PROVE TaskInv'
  BY <1>0, <1>10 DEF RefuseDue, SkipDue
<1>11. CASE ReadDue \/ Mark \/ MarkRaises
  BY <1>0, <1>11 DEF ReadDue, Mark, MarkRaises
<1>12. CASE Crash
  BY <1>12 DEF Crash, TaskInv, PCs, AllKinds
<1> QED BY <1>1, <1>2, <1>3, <1>4, <1>6, <1>7, <1>8, <1>9, <1>10, <1>11, <1>12
        DEF Next, SenderStep, HandleDue

-----------------------------------------------------------------------------
(* The semaphores                                                            *)

\* The threads inside the search that is behind the global semaphore.
Inside == {t \in Tasks : pc[t] \in Searching /\ NeedsGlobal(t)}

LEMMA InsideFinite == IsFiniteSet(Inside)
BY TasksAssumption, FS_Subset DEF Inside

ClientSlots == free \in Nat /\ free = Slots - Cardinality(acquired)
GlobalSlots == gfree \in Nat /\ gfree = Slots - Cardinality(Inside)

LEMMA InitSlots == Init => ClientSlots /\ GlobalSlots
<1> SUFFICES ASSUME Init PROVE ClientSlots /\ GlobalSlots
  OBVIOUS
<1>1. acquired = {} /\ Inside = {} /\ free = Slots /\ gfree = Slots
  BY DEF Init, Inside, Searching
<1>2. Cardinality(acquired) = 0 /\ Cardinality(Inside) = 0 /\ Slots \in Nat
  BY <1>1, FS_EmptySet, BoundsAssumption
<1> QED BY <1>1, <1>2 DEF ClientSlots, GlobalSlots

\* The semaphore of the client: taken once by Enter, given back once by Leave.
LEMMA NextClientSlots == TaskInv /\ ClientSlots /\ [Next]_vars => ClientSlots'
<1> SUFFICES ASSUME TaskInv, ClientSlots, [Next]_vars PROVE ClientSlots'
  OBVIOUS
<1> USE DEF taskVars
<1>0. ASSUME UNCHANGED <<acquired, free>> PROVE ClientSlots'
  BY <1>0 DEF ClientSlots
<1>f. /\ IsFiniteSet(acquired) /\ Cardinality(acquired) \in Nat /\ Slots \in Nat
  BY TasksAssumption, BoundsAssumption, FS_Subset, FS_CardinalityType DEF TaskInv
<1>1. CASE UNCHANGED vars
  BY <1>0, <1>1 DEF vars
<1>2. ASSUME NEW t \in Tasks, Enter(t) PROVE ClientSlots'
  <2>1. /\ t \notin acquired /\ acquired' = acquired \union {t}
        /\ free > 0 /\ free' = free - 1
    BY <1>2 DEF Enter, TaskInv
  <2>2. Cardinality(acquired') = Cardinality(acquired) + 1
    BY <1>f, <2>1, FS_AddElement
  <2> QED BY <1>f, <2>1, <2>2 DEF ClientSlots
<1>3. ASSUME NEW t \in Tasks, Leave(t) PROVE ClientSlots'
  <2>1. /\ acquired' = acquired \ {t}
        /\ free' = IF t \in acquired THEN free + 1 ELSE free
    BY <1>3 DEF Leave, ReleaseSlot
  <2>2. Cardinality(acquired') = IF t \in acquired THEN Cardinality(acquired) - 1
                                 ELSE Cardinality(acquired)
    BY <1>f, <2>1, FS_RemoveElement
  <2> QED BY <1>f, <2>1, <2>2 DEF ClientSlots
<1>4. ASSUME NEW t \in Tasks, TaskStep(t), ~Enter(t), ~Leave(t) PROVE ClientSlots'
  BY <1>0, <1>4 DEF TaskStep, SlotTimeout, SearchBegins, GlobalTimeout, SearchStopped, MockFinds,
                    MockGivesUp, FailPow, Announce, Store, StoreRaises
<1>5. ASSUME NEW t \in Tasks,
             \/ \E k \in Kinds : Publish(t, k)
             \/ Cancel(t)
             \/ \E w \in Procs : ProcStep(t, w)
      PROVE  ClientSlots'
  BY <1>0, <1>5 DEF Publish, Cancel, ProcStep, FutureFinds, FutureEnds
<1>6. ASSUME NEW s \in Sched, Due(s) \/ SendDue(s) \/ RefuseDue(s) \/ SkipDue(s) PROVE ClientSlots'
  BY <1>0, <1>6 DEF Due, SendDue, RefuseDue, SkipDue
<1>7. CASE ReadDue \/ Mark \/ MarkRaises \/ CancelAll \/ Stop
  BY <1>0, <1>7 DEF ReadDue, Mark, MarkRaises, CancelAll, Stop
<1>8. CASE Crash
  <2>1. acquired' = {} /\ free' = Slots
    BY <1>8 DEF Crash
  <2> QED BY <1>f, <2>1, FS_EmptySet DEF ClientSlots
<1> QED BY <1>1, <1>2, <1>3, <1>4, <1>5, <1>6, <1>7, <1>8 DEF Next, SenderStep, HandleDue

\* A step after which the same threads are inside.
LEMMA InsideKept ==
  ASSUME GlobalSlots, gfree' = gfree, Inside' = Inside
  PROVE  GlobalSlots'
BY DEF GlobalSlots

LEMMA InsideEntered ==
  ASSUME GlobalSlots, NEW t \in Tasks, t \notin Inside, Inside' = Inside \union {t},
         gfree > 0, gfree' = gfree - 1
  PROVE  GlobalSlots'
<1>1. Cardinality(Inside \union {t}) = Cardinality(Inside) + 1
  BY InsideFinite, FS_AddElement
<1>2. Cardinality(Inside) \in Nat /\ Slots \in Nat
  BY InsideFinite, FS_CardinalityType, BoundsAssumption
<1>3. Cardinality(Inside') = Cardinality(Inside) + 1
  BY <1>1
<1> QED BY <1>2, <1>3 DEF GlobalSlots

LEMMA InsideLeft ==
  ASSUME GlobalSlots, NEW t \in Inside, Inside' = Inside \ {t}, gfree' = gfree + 1
  PROVE  GlobalSlots'
<1>1. Cardinality(Inside \ {t}) = Cardinality(Inside) - 1
  BY InsideFinite, FS_RemoveElement
<1>2. Cardinality(Inside) \in Nat /\ Slots \in Nat
  BY InsideFinite, FS_CardinalityType, BoundsAssumption
<1>3. Cardinality(Inside') = Cardinality(Inside) - 1
  BY <1>1
<1> QED BY <1>2, <1>3 DEF GlobalSlots

\* One thread moves between places outside the search.
LEMMA InsideOutside ==
  ASSUME TaskInv, NEW t \in Tasks, NEW l, pc' = [pc EXCEPT ![t] = l],
         pc[t] \notin Searching, l \notin Searching,
         strategy' = strategy, \A u \in Tasks : u # t => kind'[u] = kind[u]
  PROVE  Inside' = Inside
BY DEF TaskInv, Inside, NeedsGlobal

\* One thread ends its search, whichever way: EndSearch gives back what
\* Seed took.
LEMMA SearchEnded ==
  ASSUME TaskInv, GlobalSlots, NEW t \in Tasks, NEW l, GoOn(t, l), l \notin Searching,
         pc[t] \in Searching, EndSearch(t), strategy' = strategy
  PROVE  GlobalSlots'
<1>1. /\ pc' = [pc EXCEPT ![t] = l]
      /\ \A u \in Tasks : u # t => kind'[u] = kind[u]
  BY DEF GoOn, Goto, TaskInv
<1>2. Inside' = Inside \ {t}
  BY <1>1 DEF TaskInv, Inside, NeedsGlobal
<1>3. CASE NeedsGlobal(t)
  BY <1>2, <1>3, InsideLeft DEF EndSearch, Inside
<1>4. CASE ~NeedsGlobal(t)
  <2>1. Inside' = Inside /\ gfree' = gfree
    BY <1>2, <1>4 DEF EndSearch, Inside, searchVars
  <2> QED BY <2>1, InsideKept
<1> QED BY <1>3, <1>4

LEMMA FoundMoves ==
  ASSUME TaskInv, NEW t \in Tasks, Found(t)
  PROVE  \E l \in {"free", "tracked", "announce"} : GoOn(t, l)
<1>1. (CASE kind[t] = "plain" -> "free"
         [] pc[t] = "ackSearch" -> "tracked"
         [] OTHER -> "announce") \in {"free", "tracked", "announce"}
  OBVIOUS
<1> QED BY <1>1 DEF Found

LEMMA RaisedMoves ==
  ASSUME TaskInv, NEW t \in Tasks
  PROVE  Raised(t) \in {"free", "failing"}
BY RaisedSteps

LEMMA NextGlobalSlots == TaskInv /\ GlobalSlots /\ [Next]_vars => GlobalSlots'
<1> SUFFICES ASSUME TaskInv, GlobalSlots, [Next]_vars PROVE GlobalSlots'
  OBVIOUS
<1> USE DEF taskVars, searchVars, envVars
<1>0. ASSUME UNCHANGED <<pc, kind, strategy, gfree>> PROVE GlobalSlots'
  BY <1>0, InsideKept DEF Inside, NeedsGlobal
\* A thread that is not searching moves to a place where it does not search.
<1>m. ASSUME NEW t \in Tasks, NEW l, pc' = [pc EXCEPT ![t] = l], pc[t] \notin Searching,
             l \notin Searching, UNCHANGED <<strategy, gfree>>,
             \A u \in Tasks : u # t => kind'[u] = kind[u]
      PROVE  GlobalSlots'
  BY <1>m, InsideOutside, InsideKept
<1>r. ASSUME NEW t \in Tasks, NEW k, NEW j, Register(t, k, j), UNCHANGED <<strategy, gfree>>
      PROVE  GlobalSlots'
  <2>1. /\ pc[t] = "free" /\ pc' = [pc EXCEPT ![t] = FirstStep(k)]
        /\ \A u \in Tasks : u # t => kind'[u] = kind[u]
        /\ UNCHANGED <<strategy, gfree>>
    BY <1>r DEF Register, Goto, TaskInv
  <2>2. FirstStep(k) \in {"ackWait", "globalWait", "tracked"}
    BY DEF FirstStep
  <2> QED BY <2>1, <2>2, <1>m DEF Searching
<1>1. CASE UNCHANGED vars
  BY <1>0, <1>1 DEF vars
<1>2. ASSUME NEW t \in Tasks, NEW k \in Kinds, Publish(t, k) PROVE GlobalSlots'
  BY <1>2, <1>r DEF Publish
<1>3. ASSUME NEW t \in Tasks, TaskStep(t) PROVE GlobalSlots'
  <2>1. CASE SearchBegins(t)
    <3>1. PICK l \in Searching : pc' = [pc EXCEPT ![t] = l]
      BY <2>1 DEF SearchBegins, Goto, Searching
    <3>2. pc[t] \notin Searching /\ UNCHANGED <<kind, strategy>>
      BY <2>1 DEF SearchBegins, Searching
    <3>3. CASE NeedsGlobal(t)
      <4>1. gfree > 0 /\ gfree' = gfree - 1
        BY <2>1, <3>3 DEF SearchBegins, Seed
      <4>2. t \notin Inside /\ Inside' = Inside \union {t}
        BY <3>1, <3>2, <3>3 DEF Inside, NeedsGlobal, TaskInv
      <4> QED BY <4>1, <4>2, InsideEntered
    <3>4. CASE ~NeedsGlobal(t)
      <4>1. gfree' = gfree
        BY <2>1, <3>4 DEF SearchBegins
      <4>2. Inside' = Inside
        BY <3>1, <3>2, <3>4 DEF Inside, NeedsGlobal, TaskInv
      <4> QED BY <4>1, <4>2, InsideKept
    <3> QED BY <3>3, <3>4
  <2>2. CASE SearchStopped(t)
    <3>1. pc[t] \in Searching /\ GoOn(t, Raised(t)) /\ EndSearch(t) /\ UNCHANGED strategy
      BY <2>2 DEF SearchStopped, StopSeen, Searching
    <3> QED BY <3>1, RaisedMoves, SearchEnded DEF Searching
  <2>3. CASE MockFinds(t) \/ MockGivesUp(t)
    <3>1. pc[t] \in Searching /\ ~NeedsGlobal(t) /\ UNCHANGED <<searchVars, strategy>>
      BY <2>3 DEF MockFinds, MockGivesUp
    <3>2. \E l \in {"free", "tracked", "announce", "failing"} : GoOn(t, l)
      BY <2>3, FoundMoves, RaisedMoves DEF MockFinds, MockGivesUp
    <3>3. EndSearch(t)
      BY <3>1 DEF EndSearch
    <3> QED BY <3>1, <3>2, <3>3, SearchEnded DEF Searching
  <2>4. CASE GlobalTimeout(t)
    <3>1. /\ pc' = [pc EXCEPT ![t] = Raised(t)] /\ UNCHANGED <<strategy, gfree>>
          /\ pc[t] \notin Searching
          /\ \A u \in Tasks : u # t => kind'[u] = kind[u]
      BY <2>4 DEF GlobalTimeout, GoOn, Goto, Searching, TaskInv
    <3> QED BY <3>1, RaisedMoves, <1>m DEF Searching
  <2>5. CASE Leave(t)
    <3>1. /\ pc' = [pc EXCEPT ![t] = "free"] /\ UNCHANGED <<strategy, gfree>>
          /\ pc[t] = "leaving"
          /\ \A u \in Tasks : u # t => kind'[u] = kind[u]
      BY <2>5 DEF Leave, GoOn, Goto, TaskInv
    <3> QED BY <3>1, <1>m DEF Searching
  <2>6. CASE \/ Enter(t) \/ SlotTimeout(t) \/ FailPow(t) \/ Announce(t) \/ Store(t)
             \/ StoreRaises(t)
    <3>1. /\ UNCHANGED <<kind, strategy, gfree>>
          /\ pc[t] \in {"tracked", "failing", "announce", "store"}
          /\ \E l \in {"globalWait", "failing", "leaving", "store"} : pc' = [pc EXCEPT ![t] = l]
      BY <2>6 DEF Enter, SlotTimeout, FailPow, Announce, Store, StoreRaises, Goto
    <3> QED BY <3>1, <1>m DEF Searching
  <2> QED BY <1>3, <2>1, <2>2, <2>3, <2>4, <2>5, <2>6 DEF TaskStep
<1>4. ASSUME NEW t \in Tasks, NEW w \in Procs, ProcStep(t, w) PROVE GlobalSlots'
  <2>1. CASE FutureFinds(t, w)
    <3>1. pc[t] \in Searching /\ EndSearch(t) /\ UNCHANGED strategy
      BY <2>1 DEF FutureFinds
    <3>2. \E l \in {"free", "tracked", "announce"} : GoOn(t, l)
      BY <2>1, FoundMoves DEF FutureFinds
    <3> QED BY <3>1, <3>2, SearchEnded DEF Searching
  <2>2. CASE FutureEnds(t, w)
    BY <1>0, <2>2 DEF FutureEnds
  <2> QED BY <1>4, <2>1, <2>2 DEF ProcStep
<1>5. ASSUME NEW t \in Tasks, Cancel(t) PROVE GlobalSlots'
  BY <1>0, <1>5 DEF Cancel
<1>6. ASSUME NEW s \in Sched, SendDue(s) PROVE GlobalSlots'
  BY <1>6, <1>r DEF SendDue
<1>7. ASSUME NEW s \in Sched, Due(s) \/ RefuseDue(s) \/ SkipDue(s) PROVE GlobalSlots'
  BY <1>0, <1>7 DEF Due, RefuseDue, SkipDue
<1>8. CASE ReadDue \/ Mark \/ MarkRaises \/ CancelAll \/ Stop
  BY <1>0, <1>8 DEF ReadDue, Mark, MarkRaises, CancelAll, Stop
<1>9. CASE Crash
  <2>1. Inside' = {} /\ gfree' = Slots
    BY <1>9 DEF Crash, Inside, Searching
  <2>2. Cardinality(Inside') = 0 /\ Slots \in Nat
    BY <2>1, FS_EmptySet, BoundsAssumption
  <2> QED BY <2>1, <2>2 DEF GlobalSlots
<1> QED BY <1>1, <1>2, <1>3, <1>4, <1>5, <1>6, <1>7, <1>8, <1>9 DEF Next, SenderStep, HandleDue

-----------------------------------------------------------------------------
(* The ranges of nonces                                                      *)

\* The ranges from lo up to n, around the end of the nonces; none when lo = n.
Cycle(lo, n) == IF lo <= n THEN lo..(n - 1) ELSE (lo..(Ranges - 1)) \union (0..(n - 1))

\* What was given out since the last round began is one cycle that ends where
\* the next range begins: hence that range was not given yet.
GivenInv ==
  /\ ranges \in [Tasks -> [Procs -> Starts \union {NoRange}]]
  /\ next \in [Tasks -> Starts]
  /\ given \in [Tasks -> SUBSET Starts]
  /\ \A t \in Tasks : \E lo \in Starts : given[t] = Cycle(lo, next[t])

\* Arithmetic on the ring of the ranges.
LEMMA ModRange ==
  /\ \A i \in Int : i % Ranges \in Starts
  /\ \A i \in Starts : i % Ranges = i /\ (i + Ranges) % Ranges = i
BY BoundsAssumption DEF Starts

LEMMA AdvanceStep ==
  ASSUME NEW n \in Starts
  PROVE  Advance(n) = IF n + 1 < Ranges THEN n + 1 ELSE 0
<1>1. CASE n + 1 < Ranges
  <2>1. n + 1 \in Starts
    BY <1>1, BoundsAssumption DEF Starts
  <2> QED BY <1>1, <2>1, ModRange DEF Advance
<1>2. CASE ~(n + 1 < Ranges)
  <2>1. n + 1 = 0 + Ranges /\ 0 \in Starts
    BY <1>2, BoundsAssumption DEF Starts
  <2> QED BY <1>2, <2>1, ModRange DEF Advance
<1> QED BY <1>1, <1>2

\* The next range is new, and giving it out extends the cycle or starts a round.
LEMMA CycleGrows ==
  ASSUME NEW n \in Starts, NEW lo \in Starts
  PROVE  /\ n \notin Cycle(lo, n)
         /\ \E lo2 \in Starts : Given(Cycle(lo, n), {n}) = Cycle(lo2, Advance(n))
<1> USE BoundsAssumption DEF Starts
<1>1. n \notin Cycle(lo, n)
  BY DEF Cycle
<1>2. CASE lo <= n /\ n + 1 < Ranges
  <2>1. Cycle(lo, n) \union {n} = lo..n /\ Advance(n) = n + 1
    BY <1>2, AdvanceStep DEF Cycle
  <2>2. Cycle(lo, n + 1) = lo..n
    BY <1>2 DEF Cycle
  <2>3. n + 1 \in Starts /\ n + 1 \notin lo..n
    BY <1>2
  <2>4. Given(Cycle(lo, n), {n}) = lo..n
    BY <2>1, <2>3 DEF Given
  <2> QED BY <1>1, <2>1, <2>2, <2>4
<1>3. CASE lo <= n /\ ~(n + 1 < Ranges)
  <2>1. Cycle(lo, n) \union {n} = lo..(Ranges - 1) /\ Advance(n) = 0
    BY <1>3, AdvanceStep DEF Cycle
  <2>2. CASE lo = 0
    <3>1. Given(Cycle(lo, n), {n}) = {}
      BY <2>1, <2>2 DEF Given
    <3>2. Cycle(0, 0) = {} /\ 0 \in Starts
      BY DEF Cycle
    <3> QED BY <1>1, <2>1, <3>1, <3>2
  <2>3. CASE lo # 0
    <3>0. 0 \in Starts /\ 0 \notin lo..(Ranges - 1)
      BY <2>3
    <3>1. Given(Cycle(lo, n), {n}) = lo..(Ranges - 1)
      BY <2>1, <3>0 DEF Given
    <3>2. Cycle(lo, 0) = lo..(Ranges - 1)
      BY <2>3 DEF Cycle
    <3> QED BY <1>1, <2>1, <3>1, <3>2
  <2> QED BY <2>2, <2>3
<1>4. CASE n < lo
  <2>1. Cycle(lo, n) \union {n} = (lo..(Ranges - 1)) \union (0..n) /\ Advance(n) = n + 1
    BY <1>4, AdvanceStep DEF Cycle
  <2>2. CASE n + 1 = lo
    <3>1. Cycle(lo, n) \union {n} = Starts
      BY <1>4, <2>1, <2>2
    <3>2. Given(Cycle(lo, n), {n}) = {}
      BY <3>1 DEF Given
    <3>3. Cycle(lo, n + 1) = {}
      BY <2>2 DEF Cycle
    <3> QED BY <1>1, <2>1, <3>2, <3>3
  <2>3. CASE n + 1 < lo
    <3>1. n + 1 \in Starts /\ n + 1 \notin (lo..(Ranges - 1)) \union (0..n)
      BY <2>3
    <3>2. Given(Cycle(lo, n), {n}) = (lo..(Ranges - 1)) \union (0..n)
      BY <2>1, <3>1 DEF Given
    <3>3. Cycle(lo, n + 1) = (lo..(Ranges - 1)) \union (0..n)
      BY <2>3 DEF Cycle
    <3> QED BY <1>1, <2>1, <3>2, <3>3
  <2> QED BY <1>4, <2>2, <2>3
<1> QED BY <1>2, <1>3, <1>4

\* The ranges of the first futures form a cycle too, all of them included.
LEMMA CycleSeeded ==
  ASSUME NEW from \in Starts
  PROVE  LET first == {(from + w - 1) % Ranges : w \in Procs}
         IN  \E lo \in Starts : Given({}, first) = Cycle(lo, (from + Workers) % Ranges)
<1> USE BoundsAssumption DEF Starts
<1> DEFINE first == {(from + w - 1) % Ranges : w \in Procs}
           n == (from + Workers) % Ranges
<1>1. n \in Starts /\ first \subseteq Starts
  BY ModRange DEF Procs
<1>2. CASE Workers < Ranges
  <2>1. \A i \in 0..(2 * Ranges - 1) : i % Ranges = IF i < Ranges THEN i ELSE i - Ranges
    <3> SUFFICES ASSUME NEW i \in 0..(2 * Ranges - 1)
                 PROVE  i % Ranges = IF i < Ranges THEN i ELSE i - Ranges
      OBVIOUS
    <3>1. CASE i < Ranges
      BY <3>1, ModRange
    <3>2. CASE ~(i < Ranges)
      <4>1. i - Ranges \in Starts /\ i = (i - Ranges) + Ranges
        BY <3>2
      <4> QED BY <3>2, <4>1, ModRange
    <3> QED BY <3>1, <3>2
  <2>2. n = IF from + Workers < Ranges THEN from + Workers ELSE from + Workers - Ranges
    BY <1>2, <2>1
  <2>3. \A w \in Procs : (from + w - 1) % Ranges =
           IF from + w - 1 < Ranges THEN from + w - 1 ELSE from + w - 1 - Ranges
    BY <1>2, <2>1 DEF Procs
  <2>4. \A i \in first : i \in Cycle(from, n)
    BY <1>2, <2>2, <2>3 DEF Cycle, Procs
  <2>5. \A i \in Cycle(from, n) : i \in first
    <3> SUFFICES ASSUME NEW i \in Cycle(from, n) PROVE i \in first
      OBVIOUS
    <3>0. i \in Starts
      BY <1>1 DEF Cycle
    <3> DEFINE w == IF from <= i THEN i - from + 1 ELSE i + Ranges - from + 1
    <3>1. w \in Procs
      BY <1>2, <2>2, <3>0 DEF Cycle, Procs
    <3>2. (from + w - 1) % Ranges = i
      BY <2>3, <3>0, <3>1
    <3> QED BY <3>1, <3>2
  <2>6. first = Cycle(from, n)
    BY <2>4, <2>5
  <2>7. n \notin Cycle(from, n)
    BY <1>1, CycleGrows
  <2> HIDE DEF first, n
  <2>8. Given({}, first) = Cycle(from, n)
    BY <1>1, <2>6, <2>7 DEF Given
  <2> QED BY <2>8 DEF first, n
<1>3. CASE ~(Workers < Ranges)
  <2>1. \A i \in Starts : i \in first
    <3> SUFFICES ASSUME NEW i \in Starts PROVE i \in first
      OBVIOUS
    <3> DEFINE w == IF from <= i THEN i - from + 1 ELSE i + Ranges - from + 1
    <3>1. w \in Procs
      BY <1>3 DEF Procs
    <3>2. from + w - 1 = i \/ from + w - 1 = i + Ranges
      OBVIOUS
    <3>3. (from + w - 1) % Ranges = i
      BY <3>2, ModRange
    <3> QED BY <3>1, <3>3
  <2>2. first = Starts
    BY <1>1, <2>1
  <2>3. Cycle(n, n) = {}
    BY <1>1 DEF Cycle
  <2> HIDE DEF first, n
  <2>4. Given({}, first) = {}
    BY <2>2 DEF Given
  <2> QED BY <1>1, <2>3, <2>4 DEF first, n
<1> QED BY <1>2, <1>3

LEMMA InitGiven == Init => GivenInv
<1> SUFFICES ASSUME Init PROVE GivenInv
  OBVIOUS
<1>1. 0 \in Starts /\ Cycle(0, 0) = {}
  BY BoundsAssumption DEF Starts, Cycle
<1>2. /\ ranges = [t \in Tasks |-> [w \in Procs |-> NoRange]]
      /\ next = [t \in Tasks |-> 0]
      /\ given = [t \in Tasks |-> {}]
  BY DEF Init
<1> QED BY <1>1, <1>2 DEF GivenInv

\* The search of one task changes; the others keep their cycles.
LEMMA GivenMoves ==
  ASSUME GivenInv, NEW t \in Tasks,
         NEW r \in [Procs -> Starts \union {NoRange}], NEW n \in Starts,
         NEW g \in SUBSET Starts, \E lo \in Starts : g = Cycle(lo, n),
         ranges' = [ranges EXCEPT ![t] = r],
         next' = [next EXCEPT ![t] = n],
         given' = [given EXCEPT ![t] = g]
  PROVE  GivenInv'
<1>1. \A u \in Tasks : next'[u] = IF u = t THEN n ELSE next[u]
  BY DEF GivenInv
<1>2. \A u \in Tasks : given'[u] = IF u = t THEN g ELSE given[u]
  BY DEF GivenInv
<1>3. \A u \in Tasks : \E lo \in Starts : given'[u] = Cycle(lo, next'[u])
  BY <1>1, <1>2 DEF GivenInv
<1>4. ranges' \in [Tasks -> [Procs -> Starts \union {NoRange}]]
      /\ next' \in [Tasks -> Starts] /\ given' \in [Tasks -> SUBSET Starts]
  BY DEF GivenInv
<1> QED BY <1>3, <1>4 DEF GivenInv, Cycle

LEMMA GivenKept ==
  ASSUME GivenInv, UNCHANGED <<ranges, next, given>>
  PROVE  GivenInv'
BY DEF GivenInv, Cycle

LEMMA EndSearchGiven ==
  ASSUME GivenInv, NEW t \in Tasks, EndSearch(t)
  PROVE  GivenInv'
<1>1. CASE NeedsGlobal(t)
  <2>1. /\ ranges' = [ranges EXCEPT ![t] = [w \in Procs |-> NoRange]]
        /\ next' = [next EXCEPT ![t] = 0]
        /\ given' = [given EXCEPT ![t] = {}]
    BY <1>1 DEF EndSearch
  <2>2. 0 \in Starts /\ {} = Cycle(0, 0)
    BY BoundsAssumption DEF Starts, Cycle
  <2>3. \E lo \in Starts : {} = Cycle(lo, 0)
    BY <2>2
  <2>4. [w \in Procs |-> NoRange] \in [Procs -> Starts \union {NoRange}]
    OBVIOUS
  <2> HIDE DEF NoRange
  <2> QED BY <2>1, <2>2, <2>3, <2>4, GivenMoves
<1>2. CASE ~ NeedsGlobal(t)
  BY <1>2, GivenKept DEF EndSearch, searchVars
<1> QED BY <1>1, <1>2

LEMMA SeedGiven ==
  ASSUME GivenInv, NEW t \in Tasks, NEW from \in Starts, Seed(t, from)
  PROVE  GivenInv'
<1> DEFINE first == [w \in Procs |-> (from + w - 1) % Ranges]
           images == {(from + w - 1) % Ranges : w \in Procs}
           n == (from + Workers) % Ranges
<1>1. /\ ranges' = [ranges EXCEPT ![t] = first]
      /\ next' = [next EXCEPT ![t] = n]
      /\ given' = [given EXCEPT ![t] = Given({}, {first[w] : w \in Procs})]
  BY DEF Seed
<1>2. {first[w] : w \in Procs} = images
  OBVIOUS
<1>3. n \in Starts /\ (\A w \in Procs : (from + w - 1) % Ranges \in Starts)
  BY ModRange, BoundsAssumption DEF Procs, Starts
<1>4. first \in [Procs -> Starts \union {NoRange}] /\ images \subseteq Starts
  BY <1>3
<1>5. \E lo \in Starts : Given({}, images) = Cycle(lo, n)
  BY CycleSeeded
<1>6. Given({}, images) \in SUBSET Starts
  BY <1>4 DEF Given
<1> HIDE DEF first, images, n
<1> QED BY <1>1, <1>2, <1>3, <1>4, <1>5, <1>6, GivenMoves

LEMMA FutureEndsGiven ==
  ASSUME GivenInv, NEW t \in Tasks, NEW w \in Procs, FutureEnds(t, w)
  PROVE  GivenInv'
<1> DEFINE n == next[t]
           r == [ranges[t] EXCEPT ![w] = n]
           g == Given(given[t], {n})
<1>1. n \in Starts /\ given[t] \in SUBSET Starts
      /\ ranges[t] \in [Procs -> Starts \union {NoRange}]
  BY DEF GivenInv
<1>2. /\ ranges' = [ranges EXCEPT ![t][w] = n]
      /\ next' = [next EXCEPT ![t] = Advance(next[t])]
      /\ given' = [given EXCEPT ![t] = Given(given[t], {n})]
  BY DEF FutureEnds, NextStart, GivenInv
<1>3. ranges' = [ranges EXCEPT ![t] = r]
  BY <1>1, <1>2 DEF GivenInv
<1>4. PICK lo \in Starts : given[t] = Cycle(lo, n)
  BY DEF GivenInv
<1>5. \E lo2 \in Starts : g = Cycle(lo2, Advance(n))
  BY <1>1, <1>4, CycleGrows
<1>6. g \in SUBSET Starts
  BY <1>1 DEF Given
<1>7. Advance(n) \in Starts
  BY <1>1, ModRange DEF Advance, Starts
<1>8. r \in [Procs -> Starts \union {NoRange}]
  BY <1>1
<1> HIDE DEF n, r, g
<1>9. next' = [next EXCEPT ![t] = Advance(n)] /\ given' = [given EXCEPT ![t] = g]
  BY <1>2 DEF n, g
<1> QED BY <1>3, <1>5, <1>6, <1>7, <1>8, <1>9, GivenMoves

LEMMA NextGiven == GivenInv /\ [Next]_vars => GivenInv'
<1> SUFFICES ASSUME GivenInv, [Next]_vars PROVE GivenInv'
  OBVIOUS
<1>1. CASE UNCHANGED vars
  BY <1>1, GivenKept DEF vars
<1>2. ASSUME NEW t \in Tasks, NEW k \in Kinds, Publish(t, k) PROVE GivenInv'
  BY <1>2, GivenKept DEF Publish, searchVars
<1>3. ASSUME NEW t \in Tasks, TaskStep(t) PROVE GivenInv'
  <2>1. CASE SearchBegins(t)
    <3>1. CASE NeedsGlobal(t)
      <4>1. PICK from \in IF kind[t] = "plain" THEN Starts ELSE {0} : Seed(t, from)
        BY <2>1, <3>1 DEF SearchBegins
      <4>2. from \in Starts
        BY BoundsAssumption DEF Starts
      <4> QED BY <4>1, <4>2, SeedGiven
    <3>2. CASE ~ NeedsGlobal(t)
      BY <2>1, <3>2, GivenKept DEF SearchBegins, searchVars
    <3> QED BY <3>1, <3>2
  <2>2. CASE SearchStopped(t)
    BY <2>2, EndSearchGiven DEF SearchStopped
  <2>3. CASE GlobalTimeout(t) \/ MockFinds(t) \/ MockGivesUp(t)
    BY <2>3, GivenKept DEF GlobalTimeout, MockFinds, MockGivesUp, searchVars
  <2>4. CASE Enter(t) \/ SlotTimeout(t) \/ FailPow(t) \/ Leave(t)
    BY <2>4, GivenKept DEF Enter, SlotTimeout, FailPow, Leave, searchVars
  <2>5. CASE Announce(t) \/ Store(t) \/ StoreRaises(t)
    BY <2>5, GivenKept DEF Announce, Store, StoreRaises, searchVars
  <2> QED BY <1>3, <2>1, <2>2, <2>3, <2>4, <2>5 DEF TaskStep
<1>4. ASSUME NEW t \in Tasks, NEW w \in Procs, ProcStep(t, w) PROVE GivenInv'
  <2>1. CASE FutureFinds(t, w)
    BY <2>1, EndSearchGiven DEF FutureFinds
  <2> QED BY <1>4, <2>1, FutureEndsGiven DEF ProcStep
<1>5. ASSUME NEW t \in Tasks, Cancel(t) PROVE GivenInv'
  BY <1>5, GivenKept DEF Cancel, searchVars
<1>6. ASSUME NEW s \in Sched, Due(s) \/ SendDue(s) \/ RefuseDue(s) \/ SkipDue(s)
      PROVE  GivenInv'
  BY <1>6, GivenKept DEF Due, SendDue, RefuseDue, SkipDue, searchVars
<1>7. CASE ReadDue \/ Mark \/ MarkRaises \/ CancelAll \/ Stop
  BY <1>7, GivenKept DEF ReadDue, Mark, MarkRaises, CancelAll, Stop, searchVars
<1>8. CASE Crash
  <2>1. 0 \in Starts /\ Cycle(0, 0) = {}
    BY BoundsAssumption DEF Starts, Cycle
  <2>2. /\ ranges' = [t \in Tasks |-> [w \in Procs |-> NoRange]]
        /\ next' = [t \in Tasks |-> 0]
        /\ given' = [t \in Tasks |-> {}]
    BY <1>8 DEF Crash
  <2>3. \A t \in Tasks : \E lo \in Starts : given'[t] = Cycle(lo, next'[t])
    BY <2>1, <2>2
  <2> QED BY <2>1, <2>2, <2>3 DEF GivenInv, Cycle
<1> QED BY <1>1, <1>2, <1>3, <1>4, <1>5, <1>6, <1>7, <1>8 DEF Next, SenderStep, HandleDue

\* What a step may do to the ranges of a search that goes on.
FreshRange(t, w) ==
  pc[t] \in Searching /\ pc'[t] = pc[t] /\ ranges'[t] # ranges[t]
    => ranges'[t][w] \in {ranges[t][w]} \union (Starts \ given[t])

FreshRanges == \A t \in Tasks, w \in Procs : FreshRange(t, w)

LEMMA NextFresh == TaskInv /\ GivenInv /\ [Next]_vars => FreshRanges
<1> SUFFICES ASSUME TaskInv, GivenInv, [Next]_vars PROVE FreshRanges
  OBVIOUS
<1>k. ASSUME UNCHANGED ranges PROVE FreshRanges
  BY <1>k DEF FreshRanges, FreshRange
\* A search whose thread moves, or that has not begun, is not concerned.
<1>o. ASSUME NEW u \in Tasks, NEW r, ranges' = [ranges EXCEPT ![u] = r],
             pc[u] \notin Searching \/ pc'[u] # pc[u]
      PROVE  FreshRanges
  <2>1. \A t \in Tasks : t # u => ranges'[t] = ranges[t]
    BY <1>o DEF GivenInv
  <2> QED BY <1>o, <2>1 DEF FreshRanges, FreshRange
<1>e. ASSUME NEW u \in Tasks, EndSearch(u), pc'[u] # pc[u] PROVE FreshRanges
  <2>1. CASE NeedsGlobal(u)
    BY <1>e, <1>o, <2>1 DEF EndSearch
  <2>2. CASE ~ NeedsGlobal(u)
    BY <1>e, <1>k, <2>2 DEF EndSearch, searchVars
  <2> QED BY <2>1, <2>2
<1>1. CASE UNCHANGED vars
  BY <1>1, <1>k DEF vars
<1>2. ASSUME NEW u \in Tasks, NEW k \in Kinds, Publish(u, k) PROVE FreshRanges
  BY <1>2, <1>k DEF Publish, searchVars
<1>3. ASSUME NEW u \in Tasks, TaskStep(u) PROVE FreshRanges
  <2>1. CASE SearchBegins(u)
    <3>1. CASE NeedsGlobal(u)
      <4>1. PICK from \in IF kind[u] = "plain" THEN Starts ELSE {0} : Seed(u, from)
        BY <2>1, <3>1 DEF SearchBegins
      <4>2. PICK r : ranges' = [ranges EXCEPT ![u] = r]
        BY <4>1 DEF Seed
      <4>3. pc[u] \notin Searching
        BY <2>1 DEF SearchBegins, Searching
      <4> QED BY <1>o, <4>2, <4>3
    <3>2. CASE ~ NeedsGlobal(u)
      BY <1>k, <2>1, <3>2 DEF SearchBegins, searchVars
    <3> QED BY <3>1, <3>2
  <2>2. CASE SearchStopped(u)
    <3>1. pc' = [pc EXCEPT ![u] = Raised(u)] /\ EndSearch(u) /\ pc[u] = "search"
      BY <2>2 DEF SearchStopped, GoOn, Goto, StopSeen
    <3>2. Raised(u) \in {"free", "failing"}
      BY RaisedSteps
    <3>3. pc'[u] # pc[u]
      BY <3>1, <3>2 DEF TaskInv
    <3> QED BY <1>e, <3>1, <3>3
  <2>3. CASE GlobalTimeout(u) \/ MockFinds(u) \/ MockGivesUp(u)
    BY <1>k, <2>3 DEF GlobalTimeout, MockFinds, MockGivesUp, searchVars
  <2>4. CASE Enter(u) \/ SlotTimeout(u) \/ FailPow(u) \/ Leave(u)
    BY <1>k, <2>4 DEF Enter, SlotTimeout, FailPow, Leave, searchVars
  <2>5. CASE Announce(u) \/ Store(u) \/ StoreRaises(u)
    BY <1>k, <2>5 DEF Announce, Store, StoreRaises, searchVars
  <2> QED BY <1>3, <2>1, <2>2, <2>3, <2>4, <2>5 DEF TaskStep
<1>4. ASSUME NEW u \in Tasks, NEW v \in Procs, ProcStep(u, v) PROVE FreshRanges
  <2>1. CASE FutureFinds(u, v)
    <3>1. EndSearch(u) /\ pc[u] \in Searching
      BY <2>1 DEF FutureFinds
    <3>2. \E l \in {"free", "tracked", "announce"} : pc' = [pc EXCEPT ![u] = l]
      BY <2>1, FoundMoves DEF FutureFinds, GoOn, Goto
    <3>3. pc'[u] # pc[u]
      BY <3>1, <3>2 DEF TaskInv, Searching
    <3> QED BY <1>e, <3>1, <3>3
  <2>2. CASE FutureEnds(u, v)
    <3>1. ranges' = [ranges EXCEPT ![u][v] = next[u]]
      BY <2>2 DEF FutureEnds, NextStart
    <3>2. next[u] \in Starts \ given[u]
      <4>1. PICK lo \in Starts : given[u] = Cycle(lo, next[u])
        BY DEF GivenInv
      <4>2. next[u] \in Starts
        BY DEF GivenInv
      <4> QED BY <4>1, <4>2, CycleGrows
    <3>3. \A t \in Tasks, w \in Procs :
             ranges'[t][w] = IF t = u /\ w = v THEN next[u] ELSE ranges[t][w]
      BY <3>1 DEF GivenInv
    <3> QED BY <3>2, <3>3 DEF FreshRanges, FreshRange
  <2> QED BY <1>4, <2>1, <2>2 DEF ProcStep
<1>5. ASSUME NEW u \in Tasks, Cancel(u) PROVE FreshRanges
  BY <1>5, <1>k DEF Cancel, searchVars
<1>6. ASSUME NEW s \in Sched, Due(s) \/ SendDue(s) \/ RefuseDue(s) \/ SkipDue(s)
      PROVE  FreshRanges
  BY <1>6, <1>k DEF Due, SendDue, RefuseDue, SkipDue, searchVars
<1>7. CASE ReadDue \/ Mark \/ MarkRaises \/ CancelAll \/ Stop
  BY <1>7, <1>k DEF ReadDue, Mark, MarkRaises, CancelAll, Stop, searchVars
<1>8. CASE Crash
  <2>1. \A t \in Tasks : pc'[t] = "free"
    BY <1>8 DEF Crash
  <2> QED BY <2>1 DEF FreshRanges, FreshRange, Searching
<1> QED BY <1>1, <1>2, <1>3, <1>4, <1>5, <1>6, <1>7, <1>8 DEF Next, SenderStep, HandleDue

\* The processes of a search divide the nonces: a range that replaces one that
\* ended was not given to anybody since all of them were (_started).
THEOREM NoneTwice == Spec => NoRangeTwice
<1>1. Init => TaskInv /\ GivenInv
  BY InitTask, InitGiven
<1>2. TaskInv /\ GivenInv /\ [Next]_vars => (TaskInv /\ GivenInv)'
  BY NextTask, NextGiven
<1>3. TaskInv /\ GivenInv /\ [Next]_vars
        => [\A t \in Tasks, w \in Procs :
              pc[t] \in Searching /\ pc'[t] = pc[t] /\ ranges'[t] # ranges[t]
                => ranges'[t][w] \in {ranges[t][w]} \union (Starts \ given[t])]_vars
  BY NextFresh DEF FreshRanges, FreshRange
<1> QED BY <1>1, <1>2, <1>3, PTL DEF Spec, NoRangeTwice

-----------------------------------------------------------------------------
(* The scheduled rows                                                        *)

\* A row read and not handled yet was not sent since it was read, and what is
\* being marked was sent or refused: each repetition cost a crash or a write.
SchedInv ==
  /\ sched \in [Sched -> {"future", "due", "sent"}]
  /\ pending \subseteq Sched
  /\ marking \in Sched \union {NoJob}
  /\ announced \subseteq Sched /\ rows \subseteq Sched
  /\ posted \subseteq Sched /\ dropped \subseteq Sched
  /\ sends \in [Sched -> 0..MaxSends]
  /\ crashes \in 0..MaxCrashes /\ failures \in 0..MaxFailures
  /\ started \in BOOLEAN
  /\ \A s \in pending : sched[s] = "due" /\ s # marking
  /\ marking # NoJob => sched[marking] = "due" /\ marking \in rows \union posted \union dropped
  /\ \A s \in Sched :
       /\ sends[s] <= 1 + crashes + failures
       /\ sched[s] # "sent" /\ s # marking => sends[s] <= crashes + failures
       /\ sched[s] = "sent" => s \in rows \union posted \union dropped

LEMMA InitSched == Init => SchedInv
BY BoundsAssumption, NoJobAssumption DEF Init, SchedInv

\* Tasks and searches leave the schedule alone; an announced row stays.
LEMMA SchedKept ==
  ASSUME SchedInv, UNCHANGED <<schedVars, posted, crashes>>,
         started' \in BOOLEAN, rows \subseteq rows', rows' \subseteq Sched,
         announced' \subseteq Sched,
         failures' \in {failures, failures + 1}, failures' \in 0..MaxFailures
  PROVE  SchedInv'
<1>1. UNCHANGED <<sched, pending, marking, sends, dropped, posted, crashes>>
  BY DEF schedVars
<1>2. crashes \in Nat /\ failures \in Nat /\ failures' \in Nat /\ failures <= failures'
  BY BoundsAssumption DEF SchedInv
<1>3. \A s \in Sched : sends[s] \in Nat
  BY BoundsAssumption DEF SchedInv
<1>4. \A s \in Sched :
       /\ sends'[s] <= 1 + crashes' + failures'
       /\ sched'[s] # "sent" /\ s # marking' => sends'[s] <= crashes' + failures'
       /\ sched'[s] = "sent" => s \in rows' \union posted' \union dropped'
  BY <1>1, <1>2, <1>3 DEF SchedInv
<1> QED BY <1>1, <1>4 DEF SchedInv

LEMMA TaskSched ==
  ASSUME TaskInv, SchedInv, NEW t \in Tasks, TaskStep(t)
  PROVE  SchedInv'
<1>0. failures \in 0..MaxFailures /\ started \in BOOLEAN
      /\ rows \subseteq Sched /\ announced \subseteq Sched
      /\ {job[t]} \ {NoJob} \subseteq Sched
  BY DEF SchedInv, TaskInv
<1>1. UNCHANGED <<schedVars, posted, crashes, started>>
  BY DEF TaskStep, Enter, SlotTimeout, SearchBegins, GlobalTimeout, SearchStopped,
         MockFinds, MockGivesUp, FailPow, Announce, Store, StoreRaises, Leave,
         outVars, envVars
<1>2. CASE StoreRaises(t)
  <2>1. failures' = failures + 1 /\ failures < MaxFailures
        /\ UNCHANGED <<rows, announced>>
    BY <1>2 DEF StoreRaises, outVars
  <2>2. failures' \in 0..MaxFailures
    BY <1>0, <2>1, BoundsAssumption
  <2> QED BY <1>0, <1>1, <2>1, <2>2, SchedKept
<1>3. CASE Announce(t) \/ Store(t)
  <2>1. /\ UNCHANGED failures
        /\ announced' \in {announced, announced \union ({job[t]} \ {NoJob})}
        /\ rows' \in {rows, rows \union ({job[t]} \ {NoJob})}
    BY <1>3 DEF Announce, Store, envVars
  <2> QED BY <1>0, <1>1, <2>1, SchedKept
<1>4. CASE \/ Enter(t) \/ SlotTimeout(t) \/ SearchBegins(t) \/ GlobalTimeout(t)
           \/ SearchStopped(t) \/ MockFinds(t) \/ MockGivesUp(t) \/ FailPow(t) \/ Leave(t)
  <2>1. UNCHANGED <<rows, announced, failures>>
    BY <1>4 DEF Enter, SlotTimeout, SearchBegins, GlobalTimeout, SearchStopped,
                MockFinds, MockGivesUp, FailPow, Leave, outVars, envVars
  <2> QED BY <1>0, <1>1, <2>1, SchedKept
<1> QED BY <1>2, <1>3, <1>4 DEF TaskStep

LEMMA SendDueSched ==
  ASSUME SchedInv, NEW s \in Sched, SendDue(s)
  PROVE  SchedInv'
<1>1. PICK t \in Tasks, k \in {"chan", "dm", "getpubkey"} :
        /\ Register(t, k, s)
        /\ rows' = Inserted(s, k)
        /\ posted' = IF k = "chan" THEN posted \union {s} ELSE posted
  BY DEF SendDue
<1>2. /\ rows \subseteq rows' /\ rows' \subseteq Sched
      /\ posted \subseteq posted' /\ posted' \subseteq Sched
      /\ s \in rows' \union posted'
  BY <1>1 DEF Inserted, SchedInv
<1>3. /\ s \in pending /\ sends[s] < MaxSends /\ marking = NoJob
      /\ pending' = pending \ {s} /\ marking' = s
      /\ sends' = [sends EXCEPT ![s] = @ + 1]
      /\ UNCHANGED <<sched, dropped, announced, started, crashes, failures>>
  BY DEF SendDue, envVars
<1>4. crashes \in Nat /\ failures \in Nat /\ (\A r \in Sched : sends[r] \in Nat)
  BY BoundsAssumption DEF SchedInv
<1>5. sched[s] = "due" /\ s # NoJob
  BY <1>3, NoJobAssumption DEF SchedInv
<1>6. \A r \in Sched : sends'[r] = IF r = s THEN sends[r] + 1 ELSE sends[r]
  BY <1>3 DEF SchedInv
<1>7. sends[s] <= crashes + failures
  BY <1>3, <1>5, NoJobAssumption DEF SchedInv
<1>8. \A r \in Sched :
       /\ sends'[r] <= 1 + crashes' + failures'
       /\ sched'[r] # "sent" /\ r # marking' => sends'[r] <= crashes' + failures'
       /\ sched'[r] = "sent" => r \in rows' \union posted' \union dropped'
  BY <1>2, <1>3, <1>4, <1>6, <1>7, NoJobAssumption DEF SchedInv
<1>9. sends' \in [Sched -> 0..MaxSends]
  <2>1. sends[s] + 1 \in 0..MaxSends
    BY <1>3, <1>4, BoundsAssumption
  <2> QED BY <1>3, <2>1 DEF SchedInv
<1>10. \A r \in pending' : sched'[r] = "due" /\ r # marking'
  BY <1>3 DEF SchedInv
<1> QED BY <1>2, <1>3, <1>5, <1>8, <1>9, <1>10 DEF SchedInv

LEMMA NextSched == TaskInv /\ SchedInv /\ [Next]_vars => SchedInv'
<1> SUFFICES ASSUME TaskInv, SchedInv, [Next]_vars PROVE SchedInv'
  OBVIOUS
<1>0. /\ failures \in 0..MaxFailures /\ started \in BOOLEAN
      /\ rows \subseteq Sched /\ announced \subseteq Sched
      /\ crashes \in Nat /\ failures \in Nat /\ (\A s \in Sched : sends[s] \in Nat)
  BY BoundsAssumption DEF SchedInv
<1>k. ASSUME UNCHANGED <<schedVars, outVars, failures, crashes>>, started' \in BOOLEAN
      PROVE  SchedInv'
  BY <1>0, <1>k, SchedKept DEF outVars
<1>1. CASE UNCHANGED vars
  BY <1>0, <1>1, <1>k DEF vars, schedVars, outVars
<1>2. ASSUME NEW t \in Tasks, NEW k \in Kinds, Publish(t, k) PROVE SchedInv'
  BY <1>0, <1>2, <1>k DEF Publish, envVars
<1>3. ASSUME NEW t \in Tasks, NEW w \in Procs, ProcStep(t, w) PROVE SchedInv'
  BY <1>0, <1>3, <1>k DEF ProcStep, FutureFinds, FutureEnds, envVars
<1>4. ASSUME NEW t \in Tasks, Cancel(t) PROVE SchedInv'
  BY <1>0, <1>4, <1>k DEF Cancel, envVars
<1>5. CASE CancelAll \/ Stop
  BY <1>0, <1>5, <1>k DEF CancelAll, Stop, envVars
<1>6. CASE Crash
  <2>1. /\ crashes' = crashes + 1 /\ crashes < MaxCrashes /\ started' = TRUE
        /\ pending' = {} /\ marking' = NoJob
        /\ UNCHANGED <<sched, outVars, sends, dropped, failures>>
    BY <1>6 DEF Crash
  <2>2. crashes' \in 0..MaxCrashes /\ crashes' = crashes + 1
    BY <1>0, <2>1, BoundsAssumption
  <2>3. \A s \in Sched : sends'[s] <= crashes' + failures'
    BY <1>0, <2>1 DEF SchedInv
  <2> QED BY <1>0, <2>1, <2>2, <2>3 DEF SchedInv, outVars
<1>7. ASSUME NEW s \in Sched, Due(s) PROVE SchedInv'
  <2>1. /\ sched[s] = "future" /\ sched' = [sched EXCEPT ![s] = "due"]
        /\ UNCHANGED <<pending, marking, sends, dropped, outVars, started, crashes, failures>>
    BY <1>7 DEF Due, envVars
  <2>2. s \notin pending /\ s # marking
    BY <2>1, NoJobAssumption DEF SchedInv
  <2>3. \A r \in Sched : sched'[r] = IF r = s THEN "due" ELSE sched[r]
    BY <2>1 DEF SchedInv
  <2>4. \A r \in pending' : sched'[r] = "due" /\ r # marking'
    BY <2>1, <2>2, <2>3 DEF SchedInv
  <2> QED BY <2>1, <2>2, <2>3, <2>4 DEF SchedInv, outVars
<1>8. CASE ReadDue
  <2>1. /\ marking = NoJob /\ pending' = {s \in Sched : sched[s] = "due"}
        /\ UNCHANGED <<sched, marking, sends, dropped, outVars, started, crashes, failures>>
    BY <1>8 DEF ReadDue, DueRows, envVars
  <2> QED BY <2>1, NoJobAssumption DEF SchedInv, outVars
<1>9. ASSUME NEW s \in Sched, SendDue(s) PROVE SchedInv'
  BY <1>9, SendDueSched
<1>10. ASSUME NEW s \in Sched, RefuseDue(s) PROVE SchedInv'
  <2>1. /\ s \in pending /\ marking = NoJob
        /\ pending' = pending \ {s} /\ marking' = s /\ dropped' = dropped \union {s}
        /\ UNCHANGED <<sched, sends, outVars, started, crashes, failures>>
    BY <1>10 DEF RefuseDue, envVars
  <2>2. \A r \in Sched : r # NoJob
    BY NoJobAssumption
  <2> QED BY <2>1, <2>2 DEF SchedInv, outVars
<1>11. ASSUME NEW s \in Sched, SkipDue(s) PROVE SchedInv'
  <2>1. /\ pending' = pending \ {s} /\ failures' = failures + 1 /\ failures < MaxFailures
        /\ UNCHANGED <<sched, marking, sends, dropped, outVars, started, crashes>>
    BY <1>11 DEF SkipDue
  <2>2. failures' \in 0..MaxFailures
    BY <1>0, <2>1, BoundsAssumption
  <2> QED BY <1>0, <2>1, <2>2 DEF SchedInv, outVars
<1>12. CASE Mark
  <2>1. /\ marking # NoJob /\ sched' = [sched EXCEPT ![marking] = "sent"] /\ marking' = NoJob
        /\ UNCHANGED <<pending, sends, dropped, outVars, started, crashes, failures>>
    BY <1>12 DEF Mark, MarkDue, envVars
  <2>2. marking \in Sched /\ marking \in rows \union posted \union dropped
        /\ (\A s \in pending : s # marking)
    BY <2>1 DEF SchedInv
  <2>3. \A r \in Sched : sched'[r] = IF r = marking THEN "sent" ELSE sched[r]
    BY <2>1 DEF SchedInv
  <2> QED BY <2>1, <2>2, <2>3, NoJobAssumption DEF SchedInv, outVars
<1>13. CASE MarkRaises
  <2>1. /\ marking # NoJob /\ marking' = NoJob
        /\ failures' = failures + 1 /\ failures < MaxFailures
        /\ UNCHANGED <<sched, pending, sends, dropped, outVars, started, crashes>>
    BY <1>13 DEF MarkRaises
  <2>2. failures' \in 0..MaxFailures
    BY <1>0, <2>1, BoundsAssumption
  <2>3. \A s \in Sched : sends'[s] <= crashes' + failures'
    BY <1>0, <2>1 DEF SchedInv
  <2>4. \A s \in pending' : s # NoJob
    BY <2>1, NoJobAssumption DEF SchedInv
  <2> QED BY <1>0, <2>1, <2>2, <2>3, <2>4 DEF SchedInv, outVars
<1> QED BY <1>1, <1>2, TaskSched, <1>3, <1>4, <1>5, <1>6, <1>7, <1>8, <1>9, <1>10,
           <1>11, <1>12, <1>13 DEF Next, SenderStep, HandleDue

\* A scheduled row goes out once, and once more only for a crash or a failing
\* write, although it is sent before it is marked.
THEOREM SendsBounded == Spec => []SentOnce
<1>1. Init => TaskInv /\ SchedInv
  BY InitTask, InitSched
<1>2. TaskInv /\ SchedInv /\ [Next]_vars => (TaskInv /\ SchedInv)'
  BY NextTask, NextSched
<1>3. TaskInv /\ SchedInv => SentOnce
  BY DEF SchedInv, SentOnce
<1> QED BY <1>1, <1>2, <1>3, PTL DEF Spec

\* A marked row left a message, a channel post or a refusal behind.
THEOREM MarkedIsBacked == Spec => []MarkedHasRow
<1>1. Init => TaskInv /\ SchedInv
  BY InitTask, InitSched
<1>2. TaskInv /\ SchedInv /\ [Next]_vars => (TaskInv /\ SchedInv)'
  BY NextTask, NextSched
<1>3. TaskInv /\ SchedInv => MarkedHasRow
  BY DEF SchedInv, MarkedHasRow
<1> QED BY <1>1, <1>2, <1>3, PTL DEF Spec

-----------------------------------------------------------------------------
(* All of the book-keeping                                                   *)

LEMMA SlotsCounted ==
  ASSUME TaskInv, ClientSlots, GlobalSlots
  PROVE  SlotsExact /\ free \in 0..Slots /\ gfree \in 0..Slots
<1>1. IsFiniteSet(acquired) /\ IsFiniteSet(Inside)
  BY TasksAssumption, FS_Subset, InsideFinite DEF TaskInv
<1>2. Cardinality(acquired) \in Nat /\ Cardinality(Inside) \in Nat
  BY <1>1, FS_CardinalityType
<1>3. Slots \in Nat
  BY BoundsAssumption
<1> QED BY <1>2, <1>3 DEF ClientSlots, GlobalSlots, SlotsExact, Inside

LEMMA ListedAlive == TaskInv => ListedIsAlive
BY DEF TaskInv, ListedIsAlive

\* The table of stop events lists what can be cancelled, and both semaphores
\* count the threads inside, through every outcome, time-out and cancellation.
THEOREM BooksExact == Spec => []TasksExact
<1> DEFINE IInv == TaskInv /\ ClientSlots /\ GlobalSlots /\ GivenInv /\ SchedInv
<1>1. Init => IInv
  BY InitTask, InitSlots, InitGiven, InitSched
<1>2. IInv /\ [Next]_vars => IInv'
  BY NextTask, NextClientSlots, NextGlobalSlots, NextGiven, NextSched
<1>3. IInv => TasksExact
  BY SlotsCounted, ListedAlive DEF TaskInv, GivenInv, SchedInv, TypeOK, TasksExact
<1> QED BY <1>1, <1>2, <1>3, PTL DEF Spec
=============================================================================
