--------------------------- MODULE DeliveryProofs ---------------------------
(***************************************************************************)
(* Invariants of Delivery proved for every set of messages, any number of  *)
(* attempts, retries and crashes, and any set of callers and pruners.      *)
(***************************************************************************)
EXTENDS Delivery, TLAPS

-----------------------------------------------------------------------------
(* Type correctness                                                          *)

\* Writing a status keeps every row a row.
LEMMA SetStatusType ==
  ASSUME status \in [Msgs -> Statuses], NEW m, NEW s \in Rows, SetStatus(m, s)
  PROVE  status' \in [Msgs -> Statuses]
BY DEF SetStatus, Statuses

\* A new dictionary and its snapshot are sets of attempts.
LEMMA ChangeWatchType ==
  ASSUME TypeOK, NEW t \in Savers, NEW w \in SUBSET Attempts, ChangeWatch(t, w)
  PROVE  /\ watch' \subseteq Attempts
         /\ saving' \subseteq Savers
         /\ snap' \in [Savers -> SUBSET Attempts]
BY DEF TypeOK, ChangeWatch

LEMMA RowStatuses ==
  /\ "awaiting-pubkey" \in Rows /\ "sending" \in Rows /\ "sent" \in Rows
  /\ "ackreceived" \in Rows /\ "ack-failed" \in Rows
  /\ Rows \subseteq Statuses /\ "none" \in Statuses /\ "deleted" \in Statuses
BY DEF Rows, Pending, Statuses

\* The retry counters: spending a slot and resetting it.
LEMMA RetrySlots ==
  ASSUME retries \in [Msgs -> 0..MaxRetries], NEW m
  PROVE  /\ 0 \in 0..MaxRetries
         /\ [retries EXCEPT ![m] = 0] \in [Msgs -> 0..MaxRetries]
         /\ \A c \in Callers : SpendSlot(c, m) => retries' \in [Msgs -> 0..MaxRetries]
<1>1. 0 \in 0..MaxRetries
  BY BoundsAssumption
<1>2. [retries EXCEPT ![m] = 0] \in [Msgs -> 0..MaxRetries]
  BY <1>1
<1>3. \A c \in Callers : SpendSlot(c, m) => retries' \in [Msgs -> 0..MaxRetries]
  BY BoundsAssumption DEF SpendSlot, SlotLeft
<1> QED BY <1>1, <1>2, <1>3

LEMMA InitType == Init => TypeOK
BY RowStatuses, BoundsAssumption DEF Init, TypeOK, WorkerPCs

\* The callers.
LEMMA CallerType ==
  ASSUME TypeOK, NEW m \in Msgs
  PROVE  /\ Send(m) => TypeOK'
         /\ Resend(m) => TypeOK'
         /\ \A c \in Callers : HandleRow(c, m) => TypeOK'
<1> USE RowStatuses DEF TypeOK, rowVars, callVars, workVars, watchVars, ackVars, pruneVars
<1>1. Send(m) => TypeOK'
  BY DEF Send, AllCallers
<1>2. Resend(m) => TypeOK'
  BY DEF Resend, AllCallers
<1>4. ASSUME NEW c \in Callers, PublishRow(c, m) PROVE TypeOK'
  <2>1. retries' \in [Msgs -> 0..MaxRetries]
    BY <1>4, RetrySlots DEF PublishRow
  <2>2. /\ status' \in [Msgs -> Statuses]
        /\ inFlight' \subseteq Msgs
        /\ pc' \in [Attempts -> WorkerPCs]
        /\ msgOf' \in [Attempts -> Msgs \union {NoMsg}]
    <3>1. CASE m \in inFlight
      BY <1>4, <3>1 DEF PublishRow, ClaimAndStart, Claimed
    <3>2. CASE m \notin inFlight
      BY <1>4, <3>2, SetStatusType DEF PublishRow, ClaimAndStart, Claimed, WorkerPCs
    <3> QED BY <3>1, <3>2
  <2> QED BY <1>4, <2>1, <2>2 DEF PublishRow
<1>5. ASSUME NEW c \in Callers, AwaitKeyRow(c, m) PROVE TypeOK'
  <2>1. retries' \in [Msgs -> 0..MaxRetries]
    BY <1>5, RetrySlots DEF AwaitKeyRow
  <2>2. status' \in [Msgs -> Statuses]
    BY <1>5, SetStatusType DEF AwaitKeyRow
  <2> QED BY <1>5, <2>1, <2>2 DEF AwaitKeyRow
<1>6. ASSUME NEW c \in Callers, SkipRow(c, m) PROVE TypeOK'
  BY <1>6 DEF SkipRow
<1> QED BY <1>1, <1>2, <1>4, <1>5, <1>6 DEF HandleRow

LEMMA PubkeyType ==
  ASSUME TypeOK, NEW c \in Contacts, PubkeyArrives(c)
  PROVE  TypeOK'
BY DEF TypeOK, PubkeyArrives, QueuedRows, AllCallers, workVars, watchVars, ackVars,
       pruneVars

\* The workers.
LEMMA WorkerType ==
  ASSUME TypeOK, NEW a \in Attempts, WorkerStep(a)
  PROVE  TypeOK'
<1> USE RowStatuses DEF TypeOK, Release, rowVars, callVars, workVars, watchVars, ackVars,
                        pruneVars
<1>0. a \in Savers
  BY DEF Savers
<1>1. CASE AckPowFails(a)
  BY <1>1, SetStatusType DEF AckPowFails, WorkerPCs
<1>2. CASE RegisterWatch(a)
  BY <1>0, <1>2, ChangeWatchType DEF RegisterWatch, WorkerPCs
<1>3. CASE BuilderRaises(a)
  BY <1>3 DEF BuilderRaises, WorkerPCs
<1>4. CASE BodyUnencodable(a)
  BY <1>4 DEF BodyUnencodable, WorkerPCs
<1>5. CASE BodyOversize(a)
  <2>1. status' \in [Msgs -> Statuses]
    BY <1>5, SetStatusType DEF BodyOversize
  <2> QED BY <1>0, <1>5, <2>1, ChangeWatchType DEF BodyOversize, WorkerPCs
<1>6. CASE BodyReady(a)
  BY <1>6 DEF BodyReady, WorkerPCs
<1>7. CASE PowFails(a)
  BY <1>7 DEF PowFails, WorkerPCs
<1>8. CASE FailRead(a)
  BY <1>8 DEF FailRead, WorkerPCs
<1>9. CASE FailWrite(a)
  BY <1>9, SetStatusType DEF FailWrite, WorkerPCs
<1>10. CASE PowSolved(a)
  BY <1>10 DEF PowSolved, WorkerPCs
<1>11. CASE Announce(a)
  BY <1>11 DEF Announce, WorkerPCs
<1>12. CASE MarkSent(a)
  BY <1>12, SetStatusType DEF MarkSent, WorkerPCs
<1> QED BY <1>1, <1>2, <1>3, <1>4, <1>5, <1>6, <1>7, <1>8, <1>9, <1>10, <1>11,
           <1>12 DEF WorkerStep

\* Acknowledgements, expiry and pruning.
LEMMA WatchType ==
  ASSUME TypeOK
  PROVE  /\ \A t \in Savers : WriteSnapshot(t) => TypeOK'
         /\ \A a \in Attempts : AckArrives(a) \/ RecordAck(a) \/ Expire(a) => TypeOK'
         /\ \A p \in Pruners : PruneStep(p) => TypeOK'
<1> USE RowStatuses DEF TypeOK, rowVars, callVars, workVars, watchVars, ackVars, pruneVars
<1>1. ASSUME NEW t \in Savers, WriteSnapshot(t) PROVE TypeOK'
  BY <1>1 DEF WriteSnapshot
<1>2. ASSUME NEW a \in Attempts, AckArrives(a) PROVE TypeOK'
  BY <1>2, ChangeWatchType DEF AckArrives, Savers
<1>3. ASSUME NEW a \in Attempts, RecordAck(a) PROVE TypeOK'
  <2>1. retries' \in [Msgs -> 0..MaxRetries]
    BY <1>3, RetrySlots DEF RecordAck
  <2>2. status' \in [Msgs -> Statuses]
    BY <1>3, SetStatusType DEF RecordAck
  <2> QED BY <1>3, <2>1, <2>2 DEF RecordAck
<1>4. ASSUME NEW a \in Attempts, Expire(a) PROVE TypeOK'
  BY <1>4 DEF Expire
<1>5. ASSUME NEW p \in Pruners, Prune(p) PROVE TypeOK'
  BY <1>5, ChangeWatchType DEF Prune, Dead, Savers
<1>6. ASSUME NEW p \in Pruners, NEW a \in Attempts, PruneRead(p, a) PROVE TypeOK'
  BY <1>6 DEF PruneRead
<1>7. ASSUME NEW p \in Pruners, PruneWrite(p) PROVE TypeOK'
  BY <1>7, SetStatusType DEF PruneWrite
<1> QED BY <1>1, <1>2, <1>3, <1>4, <1>5, <1>6, <1>7 DEF PruneStep

\* The retry thread and the environment.
LEMMA RetryType == ASSUME TypeOK, RetryStep PROVE TypeOK'
<1> USE RowStatuses DEF TypeOK, rowVars, callVars, workVars, watchVars, ackVars, pruneVars
<1>1. CASE RetryStuck
  BY <1>1 DEF RetryStuck, Stuck
<1>2. CASE RetryFailed
  BY <1>2 DEF RetryFailed, AllCallers
<1>3. CASE RetryQueued
  BY <1>3 DEF RetryQueued, QueuedRows, AllCallers
<1> QED BY <1>1, <1>2, <1>3 DEF RetryStep

LEMMA EnvironmentType ==
  ASSUME TypeOK
  PROVE  /\ \A m \in Msgs : Delete(m) \/ Age(m) => TypeOK'
         /\ Crash => TypeOK'
<1> USE RowStatuses DEF TypeOK, rowVars, callVars, workVars, watchVars, ackVars, pruneVars
<1>1. \A m \in Msgs : Delete(m) \/ Age(m) => TypeOK'
  BY DEF Delete, Age
<1>2. ASSUME Crash PROVE TypeOK'
  <2>1. crashes' \in 0..MaxCrashes
    BY <1>2, BoundsAssumption DEF Crash
  <2>2. retries' \in [Msgs -> 0..MaxRetries]
    BY <1>2, RetrySlots DEF Crash
  <2>3. pc' \in [Attempts -> WorkerPCs]
    BY <1>2 DEF Crash, WorkerPCs
  <2>4. rows' \in [AllCallers -> SUBSET Msgs] /\ rpc' = "idle"
    BY <1>2 DEF Crash
  <2>5. snap' \in [Savers -> SUBSET Attempts] /\ saving' \subseteq Savers
    BY <1>2 DEF Crash
  <2>6. prows' \in [Pruners -> SUBSET Attempts] /\ pcur' \in [Pruners -> Msgs \union {NoMsg}]
    BY <1>2 DEF Crash
  <2> QED BY <1>2, <2>1, <2>2, <2>3, <2>4, <2>5, <2>6 DEF Crash
<1> QED BY <1>1, <1>2

LEMMA NextType == TypeOK /\ [Next]_vars => TypeOK'
<1> SUFFICES ASSUME TypeOK, [Next]_vars PROVE TypeOK'
  OBVIOUS
<1>1. CASE UNCHANGED vars
  BY <1>1 DEF TypeOK, vars
<1>2. ASSUME NEW m \in Msgs, Send(m) \/ Resend(m) PROVE TypeOK'
  BY <1>2, CallerType
<1>3. ASSUME NEW m \in Msgs, Delete(m) \/ Age(m) PROVE TypeOK'
  BY <1>3, EnvironmentType
<1>4. ASSUME NEW c \in Contacts, PubkeyArrives(c) PROVE TypeOK'
  BY <1>4, PubkeyType
<1>5. ASSUME NEW c \in Callers, NEW m \in Msgs, HandleRow(c, m) PROVE TypeOK'
  BY <1>5, CallerType
<1>6. ASSUME NEW a \in Attempts, WorkerStep(a) PROVE TypeOK'
  BY <1>6, WorkerType
<1>7. ASSUME NEW a \in Attempts, AckArrives(a) \/ RecordAck(a) \/ Expire(a) PROVE TypeOK'
  BY <1>7, WatchType
<1>8. ASSUME NEW t \in Savers, WriteSnapshot(t) PROVE TypeOK'
  BY <1>8, WatchType
<1>9. ASSUME NEW p \in Pruners, PruneStep(p) PROVE TypeOK'
  BY <1>9, WatchType
<1>10. CASE RetryStep
  BY <1>10, RetryType
<1>11. CASE Crash
  BY <1>11, EnvironmentType
<1> QED BY <1>1, <1>2, <1>3, <1>4, <1>5, <1>6, <1>7, <1>8, <1>9, <1>10, <1>11
        DEF Next

\* Every variable keeps its type in every behaviour.
THEOREM TypeCorrect == Spec => []TypeOK
BY InitType, NextType, PTL DEF Spec

-----------------------------------------------------------------------------
(* Claims: who holds a message in _msg_in_flight                             *)

\* An attempt that started has a message.
Started == \A a \in Attempts : pc[a] # "free" => msgOf[a] \in Msgs

\* Releasing the claim of one attempt must not release another's, hence the
\* two properties are inductive only together.
ClaimInv == Started /\ OneWorkerPerMessage /\ InFlightExact

ClaimPCs == {"ackpow", "body", "pow", "leaked"}

\* Nothing the claims depend on changes.
LEMMA ClaimsUntouched ==
  ASSUME ClaimInv, UNCHANGED <<inFlight, pc, msgOf>>
  PROVE  ClaimInv'
BY DEF ClaimInv, Started, OneWorkerPerMessage, InFlightExact, Claiming

\* A worker moves on and keeps what it holds.
LEMMA ClaimKept ==
  ASSUME TypeOK, ClaimInv, NEW a \in Attempts, NEW s,
         pc[a] # "free", pc[a] \in ClaimPCs <=> s \in ClaimPCs,
         pc' = [pc EXCEPT ![a] = s], UNCHANGED <<inFlight, msgOf>>
  PROVE  ClaimInv'
<1>1. \A b \in Attempts : Claiming(b)' <=> Claiming(b)
  BY DEF TypeOK, Claiming, ClaimPCs
<1>2. Started'
  BY DEF TypeOK, ClaimInv, Started
<1>3. OneWorkerPerMessage'
  BY <1>1 DEF ClaimInv, OneWorkerPerMessage
<1>4. InFlightExact'
  BY <1>1 DEF ClaimInv, InFlightExact
<1> QED BY <1>2, <1>3, <1>4 DEF ClaimInv

\* A worker gives up its claim.
LEMMA ClaimReleasedOnce ==
  ASSUME TypeOK, ClaimInv, NEW a \in Attempts, NEW s,
         Claiming(a), s \notin ClaimPCs,
         pc' = [pc EXCEPT ![a] = s], inFlight' = inFlight \ {msgOf[a]},
         UNCHANGED msgOf
  PROVE  ClaimInv'
<1>1. \A b \in Attempts : Claiming(b)' <=> Claiming(b) /\ b # a
  BY DEF TypeOK, Claiming, ClaimPCs
<1>2. Started'
  BY DEF TypeOK, ClaimInv, Started, Claiming
<1>3. OneWorkerPerMessage'
  BY <1>1 DEF ClaimInv, OneWorkerPerMessage
<1>4. \A m : m \in inFlight' <=> \E b \in Attempts : Claiming(b)' /\ msgOf[b] = m
  BY <1>1 DEF ClaimInv, InFlightExact, OneWorkerPerMessage
<1>5. InFlightExact'
  BY <1>4 DEF InFlightExact
<1> QED BY <1>2, <1>3, <1>5 DEF ClaimInv

\* A caller claims a message that nobody holds.
LEMMA ClaimTaken ==
  ASSUME TypeOK, ClaimInv, NEW m \in Msgs, ClaimAndStart(m)
  PROVE  ClaimInv'
<1>1. CASE m \in inFlight
  BY <1>1, ClaimsUntouched DEF ClaimAndStart, Claimed
<1>2. CASE m \notin inFlight
  <2>1. PICK a \in Attempts :
          /\ pc[a] = "free"
          /\ inFlight' = inFlight \union {m}
          /\ pc' = [pc EXCEPT ![a] = "ackpow"]
          /\ msgOf' = [msgOf EXCEPT ![a] = m]
    BY <1>2 DEF ClaimAndStart, Claimed
  <2>2. \A b \in Attempts : Claiming(b)' <=> Claiming(b) \/ b = a
    BY <2>1 DEF TypeOK, Claiming
  <2>3. \A b \in Attempts : msgOf'[b] = IF b = a THEN m ELSE msgOf[b]
    BY <2>1 DEF TypeOK
  <2>4. \A b \in Attempts : Claiming(b) => b # a /\ msgOf[b] # m
    BY <1>2, <2>1 DEF ClaimInv, InFlightExact, Claiming
  <2>5. Started'
    BY <2>1, <2>3 DEF TypeOK, ClaimInv, Started
  <2>6. OneWorkerPerMessage'
    BY <2>2, <2>3, <2>4 DEF ClaimInv, OneWorkerPerMessage
  <2>7. \A n : n \in inFlight' <=> \E b \in Attempts : Claiming(b)' /\ msgOf'[b] = n
    BY <2>1, <2>2, <2>3, <2>4 DEF ClaimInv, InFlightExact
  <2>8. InFlightExact'
    BY <2>7 DEF InFlightExact
  <2> QED BY <2>5, <2>6, <2>8 DEF ClaimInv
<1> QED BY <1>1, <1>2

LEMMA ClaimWorker ==
  ASSUME TypeOK, ClaimInv, NEW a \in Attempts, WorkerStep(a)
  PROVE  ClaimInv'
<1>1. CASE AckPowFails(a) \/ BodyUnencodable(a) \/ BodyOversize(a) \/ PowFails(a)
           \/ PowSolved(a)
  <2>1. /\ Claiming(a)
        /\ inFlight' = inFlight \ {msgOf[a]}
        /\ UNCHANGED msgOf
    BY <1>1 DEF Claiming, Release, AckPowFails, BodyUnencodable, BodyOversize, PowFails, PowSolved
  <2>2. \E s \in {"done", "failRead", "announce"} : pc' = [pc EXCEPT ![a] = s]
    BY <1>1 DEF AckPowFails, BodyUnencodable, BodyOversize, PowFails, PowSolved
  <2> QED BY <2>1, <2>2, ClaimReleasedOnce DEF ClaimPCs
<1>2. CASE RegisterWatch(a) \/ BuilderRaises(a) \/ BodyReady(a)
  <2>1. /\ pc[a] \in ClaimPCs
        /\ UNCHANGED <<inFlight, msgOf>>
        /\ \E s \in ClaimPCs : pc' = [pc EXCEPT ![a] = s]
    BY <1>2 DEF RegisterWatch, BuilderRaises, BodyReady, ClaimPCs, callVars
  <2>2. pc[a] # "free"
    BY <2>1 DEF ClaimPCs
  <2> QED BY <2>1, <2>2, ClaimKept
<1>3. CASE FailRead(a) \/ FailWrite(a) \/ Announce(a) \/ MarkSent(a)
  <2>1. /\ pc[a] \in {"failRead", "failWrite", "announce", "markSent"}
        /\ UNCHANGED <<inFlight, msgOf>>
        /\ \E s \in {"failWrite", "markSent", "done"} : pc' = [pc EXCEPT ![a] = s]
    BY <1>3 DEF FailRead, FailWrite, Announce, MarkSent, callVars
  <2> QED BY <2>1, ClaimKept DEF ClaimPCs
<1> QED BY <1>1, <1>2, <1>3 DEF WorkerStep

LEMMA ClaimNext == TypeOK /\ ClaimInv /\ [Next]_vars => ClaimInv'
<1> SUFFICES ASSUME TypeOK, ClaimInv, [Next]_vars PROVE ClaimInv'
  OBVIOUS
<1>1. CASE UNCHANGED vars
  BY <1>1, ClaimsUntouched DEF vars
<1>2. ASSUME NEW m \in Msgs, Send(m) \/ Resend(m) \/ Delete(m) \/ Age(m)
      PROVE  ClaimInv'
  BY <1>2, ClaimsUntouched DEF Send, Resend, Delete, Age, callVars, workVars
<1>3. ASSUME NEW c \in Contacts, PubkeyArrives(c) PROVE ClaimInv'
  BY <1>3, ClaimsUntouched DEF PubkeyArrives, workVars
<1>4. ASSUME NEW c \in Callers, NEW m \in Msgs, HandleRow(c, m) PROVE ClaimInv'
  <2>1. CASE PublishRow(c, m)
    BY <2>1, ClaimTaken DEF PublishRow
  <2>2. CASE AwaitKeyRow(c, m) \/ SkipRow(c, m)
    BY <2>2, ClaimsUntouched DEF AwaitKeyRow, SkipRow, workVars
  <2> QED BY <1>4, <2>1, <2>2 DEF HandleRow
<1>5. ASSUME NEW a \in Attempts, WorkerStep(a) PROVE ClaimInv'
  BY <1>5, ClaimWorker
<1>6. ASSUME NEW a \in Attempts, AckArrives(a) \/ RecordAck(a) \/ Expire(a)
      PROVE  ClaimInv'
  BY <1>6, ClaimsUntouched DEF AckArrives, RecordAck, Expire, callVars, workVars
<1>7. ASSUME NEW t \in Savers, WriteSnapshot(t) PROVE ClaimInv'
  BY <1>7, ClaimsUntouched DEF WriteSnapshot, callVars, workVars
<1>8. ASSUME NEW p \in Pruners, PruneStep(p) PROVE ClaimInv'
  BY <1>8, ClaimsUntouched DEF PruneStep, Prune, PruneRead, PruneWrite, callVars, workVars
<1>9. CASE RetryStep
  BY <1>9, ClaimsUntouched DEF RetryStep, RetryStuck, RetryFailed, RetryQueued, workVars
<1>10. CASE Crash
  <2>1. \A a \in Attempts : ~ Claiming(a)' /\ (pc'[a] # "free" => pc[a] # "free")
    BY <1>10 DEF Crash, Claiming
  <2>2. inFlight' = {} /\ msgOf' = msgOf
    BY <1>10 DEF Crash
  <2> QED BY <2>1, <2>2 DEF ClaimInv, Started, OneWorkerPerMessage, InFlightExact
<1> QED BY <1>1, <1>2, <1>3, <1>4, <1>5, <1>6, <1>7, <1>8, <1>9, <1>10 DEF Next

LEMMA ClaimInit == Init => ClaimInv
BY DEF Init, ClaimInv, Started, OneWorkerPerMessage, InFlightExact, Claiming

\* Two workers never work on one message, and _msg_in_flight names exactly
\* the messages being worked on.
THEOREM ClaimsCorrect == Spec => [](OneWorkerPerMessage /\ InFlightExact)
<1>1. ClaimInv => OneWorkerPerMessage /\ InFlightExact
  BY DEF ClaimInv
<1> QED BY <1>1, ClaimInit, ClaimNext, TypeCorrect, PTL DEF Spec

\* _msg_in_flight alone: no claim is lost and none outlives its worker but
\* that of a worker killed by a builder.
THEOREM InFlightCorrect == Spec => []InFlightExact
BY ClaimsCorrect, PTL

-----------------------------------------------------------------------------
(* Acknowledgements                                                          *)

\* Only an object on the network is acknowledged, and its worker is past the
\* announcement: what the steps before it may still do does not concern it.
AckOrder ==
  /\ popped \subseteq acked
  /\ acked \subseteq announced
  /\ \A a \in announced : pc[a] \in {"markSent", "done"}

\* AckNotLost from the registration on, not only from the announcement.
WatchKept ==
  crashes = 0 =>
    \A a \in Attempts :
      pc[a] \in {"body", "pow", "announce"} \/ a \in announced
        => a \in watch \union acked \union expired

AckInv == AckOrder /\ WatchKept /\ DeliveredWasAnnounced

\* No step but Crash and those of the named attempts moves a worker.
ackInvVars == <<status, pc, msgOf, watch, expired, announced, popped, acked, crashes>>

LEMMA AckUntouched == AckInv /\ UNCHANGED ackInvVars => AckInv'
BY DEF AckInv, AckOrder, WatchKept, DeliveredWasAnnounced, ackInvVars

\* Rows that change without becoming 'ackreceived' keep the third part.
LEMMA DeliveredKept ==
  ASSUME TypeOK, DeliveredWasAnnounced,
         \A m \in Msgs : status'[m] = "ackreceived" => status[m] = "ackreceived",
         announced \subseteq announced', acked \subseteq acked',
         \A a \in announced : msgOf'[a] = msgOf[a]
  PROVE  DeliveredWasAnnounced'
BY DEF DeliveredWasAnnounced

\* Writing any other status makes no row 'ackreceived'.
LEMMA OtherStatus ==
  ASSUME TypeOK, NEW m, NEW s, s # "ackreceived", SetStatus(m, s)
  PROVE  \A n \in Msgs : status'[n] = "ackreceived" => status[n] = "ackreceived"
BY DEF TypeOK, SetStatus

\* A step that keeps the watches, the ACKs and the workers and only writes rows.
LEMMA AckRowsOnly ==
  ASSUME TypeOK, AckInv,
         \A m \in Msgs : status'[m] = "ackreceived" => status[m] = "ackreceived",
         UNCHANGED <<pc, msgOf, watch, expired, announced, popped, acked, crashes>>
  PROVE  AckInv'
<1>1. AckOrder' /\ WatchKept'
  BY DEF AckInv, AckOrder, WatchKept
<1>2. DeliveredWasAnnounced'
  BY DeliveredKept DEF AckInv
<1> QED BY <1>1, <1>2 DEF AckInv

LEMMA AckCallers ==
  ASSUME TypeOK, AckInv, NEW m \in Msgs
  PROVE  /\ Send(m) \/ Resend(m) \/ Delete(m) \/ Age(m) => AckInv'
         /\ \A c \in Callers : HandleRow(c, m) => AckInv'
<1>1. ASSUME Send(m) \/ Delete(m) PROVE AckInv'
  BY <1>1, AckRowsOnly DEF TypeOK, Send, Delete, workVars, watchVars, ackVars
<1>2. ASSUME Resend(m) \/ Age(m) PROVE AckInv'
  BY <1>2, AckUntouched DEF Resend, Age, rowVars, workVars, watchVars, ackVars, ackInvVars
<1>3. ASSUME NEW c \in Callers, AwaitKeyRow(c, m) PROVE AckInv'
  <2>1. \A n \in Msgs : status'[n] = "ackreceived" => status[n] = "ackreceived"
    BY <1>3, OtherStatus DEF AwaitKeyRow
  <2> QED BY <1>3, <2>1, AckRowsOnly DEF AwaitKeyRow, workVars, watchVars, ackVars
<1>4. ASSUME NEW c \in Callers, SkipRow(c, m) PROVE AckInv'
  BY <1>4, AckUntouched DEF SkipRow, rowVars, workVars, watchVars, ackVars, ackInvVars
<1>5. ASSUME NEW c \in Callers, PublishRow(c, m) PROVE AckInv'
  <2>0. UNCHANGED <<watch, expired, announced, popped, acked, crashes>>
    BY <1>5 DEF PublishRow, watchVars, ackVars
  <2>1. CASE m \in inFlight
    <3>1. UNCHANGED <<status, pc, msgOf>>
      BY <1>5, <2>1 DEF PublishRow, ClaimAndStart, Claimed
    <3> QED BY <2>0, <3>1, AckUntouched DEF ackInvVars
  <2>2. CASE m \notin inFlight
    <3>1. PICK a \in Attempts :
            /\ pc[a] = "free"
            /\ SetStatus(m, "sending")
            /\ pc' = [pc EXCEPT ![a] = "ackpow"]
            /\ msgOf' = [msgOf EXCEPT ![a] = m]
      BY <1>5, <2>2 DEF PublishRow, ClaimAndStart, Claimed
    <3>2. a \notin announced
      BY <3>1 DEF AckInv, AckOrder
    <3>3. AckOrder' /\ WatchKept'
      BY <2>0, <3>1, <3>2 DEF TypeOK, AckInv, AckOrder, WatchKept
    <3>4. \A b \in announced : msgOf'[b] = msgOf[b]
      BY <3>1, <3>2 DEF TypeOK
    <3>5. \A n \in Msgs : status'[n] = "ackreceived" => status[n] = "ackreceived"
      BY <3>1, OtherStatus
    <3>6. DeliveredWasAnnounced'
      BY <2>0, <3>4, <3>5, DeliveredKept DEF AckInv
    <3> QED BY <3>3, <3>6 DEF AckInv
  <2> QED BY <2>1, <2>2
<1> QED BY <1>1, <1>2, <1>3, <1>4, <1>5 DEF HandleRow

\* A worker moves to s, keeps its rows from 'ackreceived', and keeps the
\* watches, or it is the one whose watch changes.
LEMMA AckWorkerMoves ==
  ASSUME TypeOK, AckInv, NEW a \in Attempts, NEW s,
         pc' = [pc EXCEPT ![a] = s], a \in announced => s \in {"markSent", "done"},
         s \in {"body", "pow", "announce"} /\ crashes = 0
            => a \in watch' \union acked \union expired,
         \A b \in watch : b = a \/ b \in watch',
         a \in announced => (a \in watch => a \in watch'),
         \A m \in Msgs : status'[m] = "ackreceived" => status[m] = "ackreceived",
         UNCHANGED <<msgOf, expired, announced, popped, acked, crashes>>
  PROVE  AckInv'
<1>1. AckOrder'
  BY DEF TypeOK, AckInv, AckOrder
<1>2. WatchKept'
  BY DEF TypeOK, AckInv, WatchKept
<1>3. DeliveredWasAnnounced'
  BY DeliveredKept DEF AckInv
<1> QED BY <1>1, <1>2, <1>3 DEF AckInv

LEMMA AckWorker ==
  ASSUME TypeOK, AckInv, NEW a \in Attempts, WorkerStep(a)
  PROVE  AckInv'
<1> USE DEF rowVars, callVars, workVars, watchVars, ackVars
<1>1. pc[a] \notin {"markSent", "done"} => a \notin announced
  BY DEF AckInv, AckOrder
<1>2. pc[a] \in {"body", "pow", "announce"} /\ crashes = 0
        => a \in watch \union acked \union expired
  BY DEF AckInv, WatchKept
<1>3. CASE AckPowFails(a)
  BY <1>1, <1>3, OtherStatus, AckWorkerMoves DEF AckPowFails
<1>4. CASE RegisterWatch(a)
  BY <1>1, <1>4, AckWorkerMoves DEF RegisterWatch, ChangeWatch
<1>5. CASE BuilderRaises(a)
  BY <1>1, <1>5, AckWorkerMoves DEF BuilderRaises
<1>6. CASE BodyUnencodable(a)
  BY <1>1, <1>6, AckWorkerMoves DEF BodyUnencodable
<1>7. CASE BodyOversize(a)
  BY <1>1, <1>7, OtherStatus, AckWorkerMoves DEF BodyOversize, ChangeWatch
<1>8. CASE BodyReady(a)
  BY <1>1, <1>2, <1>8, AckWorkerMoves DEF BodyReady
<1>9. CASE PowFails(a)
  BY <1>1, <1>9, AckWorkerMoves DEF PowFails
<1>10. CASE FailRead(a)
  <2>1. \E s \in {"failWrite", "done"} : pc' = [pc EXCEPT ![a] = s]
    BY <1>10 DEF FailRead
  <2> QED BY <1>1, <1>10, <2>1, AckWorkerMoves DEF FailRead
<1>11. CASE FailWrite(a)
  BY <1>1, <1>11, OtherStatus, AckWorkerMoves DEF FailWrite
<1>12. CASE PowSolved(a)
  <2>1. \E s \in {"announce", "done"} : pc' = [pc EXCEPT ![a] = s]
    BY <1>12 DEF PowSolved
  <2> QED BY <1>1, <1>2, <1>12, <2>1, AckWorkerMoves DEF PowSolved
<1>13. CASE Announce(a)
  <2>1. AckOrder'
    BY <1>13 DEF TypeOK, AckInv, AckOrder, Announce
  <2>2. WatchKept'
    BY <1>2, <1>13 DEF TypeOK, AckInv, WatchKept, Announce
  <2>3. DeliveredWasAnnounced'
    BY <1>13, DeliveredKept DEF AckInv, Announce
  <2> QED BY <2>1, <2>2, <2>3 DEF AckInv
<1>14. CASE MarkSent(a)
  BY <1>1, <1>14, OtherStatus, AckWorkerMoves DEF MarkSent
<1> QED BY <1>3, <1>4, <1>5, <1>6, <1>7, <1>8, <1>9, <1>10, <1>11, <1>12, <1>13,
           <1>14 DEF WorkerStep

LEMMA AckWatches ==
  ASSUME TypeOK, AckInv
  PROVE  /\ \A t \in Savers : WriteSnapshot(t) => AckInv'
         /\ \A a \in Attempts : AckArrives(a) \/ RecordAck(a) \/ Expire(a) => AckInv'
         /\ \A p \in Pruners : PruneStep(p) => AckInv'
<1> USE DEF rowVars, callVars, workVars, watchVars, ackVars, pruneVars
<1>1. ASSUME NEW t \in Savers, WriteSnapshot(t) PROVE AckInv'
  BY <1>1, AckUntouched DEF WriteSnapshot, ackInvVars
<1>2. ASSUME NEW a \in Attempts, AckArrives(a) PROVE AckInv'
  <2>1. AckOrder' /\ WatchKept'
    BY <1>2 DEF AckInv, AckOrder, WatchKept, AckArrives, ChangeWatch
  <2>2. DeliveredWasAnnounced'
    BY <1>2, DeliveredKept DEF AckInv, AckArrives
  <2> QED BY <2>1, <2>2 DEF AckInv
<1>3. ASSUME NEW a \in Attempts, RecordAck(a) PROVE AckInv'
  <2>1. AckOrder' /\ WatchKept'
    BY <1>3 DEF AckInv, AckOrder, WatchKept, RecordAck
  <2>2. a \in announced \intersect acked
    BY <1>3 DEF AckInv, AckOrder, RecordAck
  <2>3. \A m \in Msgs : status'[m] = "ackreceived" =>
                         status[m] = "ackreceived" \/ msgOf[a] = m
    BY <1>3 DEF TypeOK, RecordAck, SetStatus
  <2>4. UNCHANGED <<announced, acked, msgOf>>
    BY <1>3 DEF RecordAck
  <2>5. DeliveredWasAnnounced'
    BY <2>2, <2>3, <2>4 DEF AckInv, DeliveredWasAnnounced
  <2> QED BY <2>1, <2>5 DEF AckInv
<1>4. ASSUME NEW a \in Attempts, Expire(a) PROVE AckInv'
  <2>1. AckOrder' /\ WatchKept'
    BY <1>4 DEF AckInv, AckOrder, WatchKept, Expire
  <2>2. DeliveredWasAnnounced'
    BY <1>4, DeliveredKept DEF AckInv, Expire
  <2> QED BY <2>1, <2>2 DEF AckInv
<1>5. ASSUME NEW p \in Pruners, Prune(p) PROVE AckInv'
  <2>1. AckOrder' /\ WatchKept'
    BY <1>5 DEF AckInv, AckOrder, WatchKept, Prune, Dead, ChangeWatch
  <2>2. DeliveredWasAnnounced'
    BY <1>5, DeliveredKept DEF AckInv, Prune
  <2> QED BY <2>1, <2>2 DEF AckInv
<1>6. ASSUME NEW p \in Pruners, NEW a \in Attempts, PruneRead(p, a) PROVE AckInv'
  BY <1>6, AckUntouched DEF PruneRead, ackInvVars
<1>7. ASSUME NEW p \in Pruners, PruneWrite(p) PROVE AckInv'
  <2>1. \A m \in Msgs : status'[m] = "ackreceived" => status[m] = "ackreceived"
    BY <1>7, OtherStatus DEF PruneWrite
  <2> QED BY <1>7, <2>1, AckRowsOnly DEF PruneWrite
<1> QED BY <1>1, <1>2, <1>3, <1>4, <1>5, <1>6, <1>7 DEF PruneStep

LEMMA AckRetry == ASSUME TypeOK, AckInv, RetryStep PROVE AckInv'
<1> USE DEF rowVars, workVars, watchVars, ackVars
<1>1. CASE RetryStuck
  BY <1>1, AckRowsOnly DEF TypeOK, RetryStuck
<1>2. CASE RetryFailed \/ RetryQueued
  BY <1>2, AckUntouched DEF RetryFailed, RetryQueued, ackInvVars
<1> QED BY <1>1, <1>2 DEF RetryStep

LEMMA AckCrash == ASSUME TypeOK, AckInv, Crash PROVE AckInv'
<1>1. AckOrder'
  BY DEF TypeOK, AckInv, AckOrder, Crash
<1>2. WatchKept'
  BY BoundsAssumption DEF TypeOK, WatchKept, Crash
<1>3. DeliveredWasAnnounced'
  BY DeliveredKept DEF AckInv, Crash, rowVars
<1> QED BY <1>1, <1>2, <1>3 DEF AckInv

LEMMA AckNext == TypeOK /\ AckInv /\ [Next]_vars => AckInv'
<1> SUFFICES ASSUME TypeOK, AckInv, [Next]_vars PROVE AckInv'
  OBVIOUS
<1>1. CASE UNCHANGED vars
  BY <1>1, AckUntouched DEF vars, ackInvVars
<1>2. ASSUME NEW m \in Msgs, Send(m) \/ Resend(m) \/ Delete(m) \/ Age(m)
      PROVE  AckInv'
  BY <1>2, AckCallers
<1>3. ASSUME NEW c \in Contacts, PubkeyArrives(c) PROVE AckInv'
  BY <1>3, AckUntouched DEF PubkeyArrives, workVars, watchVars, ackVars, ackInvVars
<1>4. ASSUME NEW c \in Callers, NEW m \in Msgs, HandleRow(c, m) PROVE AckInv'
  BY <1>4, AckCallers
<1>5. ASSUME NEW a \in Attempts, WorkerStep(a) PROVE AckInv'
  BY <1>5, AckWorker
<1>6. ASSUME NEW a \in Attempts, AckArrives(a) \/ RecordAck(a) \/ Expire(a)
      PROVE  AckInv'
  BY <1>6, AckWatches
<1>7. ASSUME NEW t \in Savers, WriteSnapshot(t) PROVE AckInv'
  BY <1>7, AckWatches
<1>8. ASSUME NEW p \in Pruners, PruneStep(p) PROVE AckInv'
  BY <1>8, AckWatches
<1>9. CASE RetryStep
  BY <1>9, AckRetry
<1>10. CASE Crash
  BY <1>10, AckCrash
<1> QED BY <1>1, <1>2, <1>3, <1>4, <1>5, <1>6, <1>7, <1>8, <1>9, <1>10 DEF Next

LEMMA AckInit == Init => AckInv
BY DEF Init, AckInv, AckOrder, WatchKept, DeliveredWasAnnounced

\* A message shown as delivered was announced and acknowledged.
THEOREM DeliveryHonest == Spec => []DeliveredWasAnnounced
<1>1. AckInv => DeliveredWasAnnounced
  BY DEF AckInv
<1> QED BY <1>1, AckInit, AckNext, TypeCorrect, PTL DEF Spec

\* Without a crash the ACK of an announced object stays recognisable until
\* it comes or its deadline passes.
THEOREM AckKept == Spec => []AckNotLost
<1>1. TypeOK /\ AckInv => AckNotLost
  BY DEF TypeOK, AckInv, WatchKept, AckNotLost
<1> QED BY <1>1, AckInit, AckNext, TypeCorrect, PTL DEF Spec

-----------------------------------------------------------------------------
(* Refinement: every step is a step of the message life cycle, or a stutter  *)

\* What the evidence of a status rests on: a worker that will write 'sent'
\* has announced its object, and callers and workers only know inserted rows.
Evidenced ==
  /\ \A a \in Attempts : pc[a] = "markSent" => a \in announced
  /\ \A a \in Attempts : pc[a] # "free" => status[msgOf[a]] # "none"
  /\ \A c \in AllCallers : \A m \in rows[c] : status[m] # "none"

RefinementInv == Started /\ AckOrder /\ Evidenced

\* The refinement mapping of Life: the messages of these attempts.
Out == {msgOf[a] : a \in announced}
Confirmed == {msgOf[a] : a \in acked}

LEMMA EvidencedInit == Init => Evidenced
BY DEF Init, Evidenced

\* No row becomes "none" again.
LEMMA NeverUncreated ==
  ASSUME TypeOK, NEW m, NEW s \in Rows, SetStatus(m, s)
  PROVE  \A n \in Msgs : status[n] # "none" => status'[n] # "none"
BY DEF TypeOK, SetStatus, Rows, Pending

\* A step that starts no worker, announces nothing and reads no new row.
LEMMA EvidenceKept ==
  ASSUME TypeOK, Started, Evidenced,
         \A n \in Msgs : status[n] # "none" => status'[n] # "none",
         \A a \in Attempts : pc'[a] # "free" => pc[a] # "free",
         \A a \in Attempts : pc'[a] = "markSent" => pc[a] = "markSent",
         \A c \in AllCallers : rows'[c] \subseteq rows[c],
         announced \subseteq announced', UNCHANGED msgOf
  PROVE  Evidenced'
BY DEF TypeOK, Started, Evidenced

\* A step that reads rows, all of them inserted.
LEMMA EvidenceRead ==
  ASSUME TypeOK, Evidenced,
         \A c \in AllCallers : \A m \in rows'[c] : m \in rows[c] \/ status[m] # "none",
         UNCHANGED <<status, pc, msgOf, announced>>
  PROVE  Evidenced'
BY DEF TypeOK, Evidenced

LEMMA EvidenceCallers ==
  ASSUME TypeOK, RefinementInv, NEW m \in Msgs
  PROVE  /\ Send(m) \/ Resend(m) \/ Delete(m) \/ Age(m) => Evidenced'
         /\ \A c \in Callers : HandleRow(c, m) => Evidenced'
<1> USE DEF rowVars, callVars, workVars
<1>1. ASSUME Send(m) PROVE Evidenced'
  <2>1. \A n \in Msgs : status'[n] # "none" <=> status[n] # "none" \/ n = m
    BY <1>1 DEF TypeOK, Send
  <2>2. \A c \in AllCallers : rows'[c] \subseteq rows[c] \union {m}
    BY <1>1 DEF TypeOK, Send
  <2>3. UNCHANGED <<pc, msgOf, announced>>
    BY <1>1 DEF Send
  <2> QED BY <2>1, <2>2, <2>3 DEF TypeOK, RefinementInv, Started, Evidenced
<1>2. ASSUME Resend(m) PROVE Evidenced'
  <2>1. \A c \in AllCallers : rows'[c] \subseteq rows[c] \union {m}
    BY <1>2 DEF TypeOK, Resend
  <2>2. status[m] # "none"
    BY <1>2 DEF Resend, Pending
  <2> QED BY <1>2, <2>1, <2>2, EvidenceRead DEF RefinementInv, Resend
<1>3. ASSUME Delete(m) \/ Age(m) PROVE Evidenced'
  BY <1>3, EvidenceKept DEF TypeOK, RefinementInv, Delete, Age
<1>4. ASSUME NEW c \in Callers, AwaitKeyRow(c, m) \/ SkipRow(c, m) PROVE Evidenced'
  <2>1. \A n \in Msgs : status[n] # "none" => status'[n] # "none"
    BY <1>4, NeverUncreated, RowStatuses DEF AwaitKeyRow, SkipRow
  <2>2. \A d \in AllCallers : rows'[d] \subseteq rows[d]
    BY <1>4 DEF TypeOK, AwaitKeyRow, SkipRow
  <2> QED BY <1>4, <2>1, <2>2, EvidenceKept DEF RefinementInv, AwaitKeyRow, SkipRow
<1>5. ASSUME NEW c \in Callers, PublishRow(c, m) PROVE Evidenced'
  <2>1. \A d \in AllCallers : rows'[d] \subseteq rows[d]
    BY <1>5 DEF TypeOK, PublishRow
  <2>2. UNCHANGED announced
    BY <1>5 DEF PublishRow
  <2>3. CASE m \in inFlight
    <3>1. UNCHANGED <<status, pc, msgOf>>
      BY <1>5, <2>3 DEF PublishRow, ClaimAndStart, Claimed
    <3> QED BY <2>1, <2>2, <3>1, EvidenceKept DEF RefinementInv
  <2>4. CASE m \notin inFlight
    <3>1. PICK a \in Attempts :
            /\ SetStatus(m, "sending")
            /\ pc' = [pc EXCEPT ![a] = "ackpow"]
            /\ msgOf' = [msgOf EXCEPT ![a] = m]
      BY <1>5, <2>4 DEF PublishRow, ClaimAndStart, Claimed
    <3>2. status[m] # "none"
      BY <1>5, CallersAssumption DEF PublishRow, RefinementInv, Evidenced, AllCallers
    <3>3. \A n \in Msgs : status[n] # "none" => status'[n] # "none"
      BY <3>1, NeverUncreated, RowStatuses
    <3>4. \A b \in Attempts : pc'[b] = "markSent" => b \in announced'
      BY <2>2, <3>1 DEF TypeOK, RefinementInv, Evidenced
    <3>5. \A b \in Attempts : pc'[b] # "free" => status'[msgOf'[b]] # "none"
      BY <3>1, <3>2, <3>3 DEF TypeOK, RefinementInv, Started, Evidenced
    <3>6. \A d \in AllCallers : \A n \in rows'[d] : status'[n] # "none"
      BY <2>1, <3>3 DEF TypeOK, RefinementInv, Evidenced
    <3> QED BY <3>4, <3>5, <3>6 DEF Evidenced
  <2> QED BY <2>3, <2>4
<1> QED BY <1>1, <1>2, <1>3, <1>4, <1>5 DEF HandleRow

LEMMA EvidenceWorker ==
  ASSUME TypeOK, RefinementInv, NEW a \in Attempts, WorkerStep(a)
  PROVE  Evidenced'
<1> USE RowStatuses DEF rowVars, callVars, workVars
<1>1. CASE Announce(a)
  BY <1>1 DEF Announce, TypeOK, RefinementInv, Started, Evidenced
<1>2. CASE AckPowFails(a) \/ BodyOversize(a) \/ FailWrite(a) \/ MarkSent(a)
  <2>1. \A n \in Msgs : status[n] # "none" => status'[n] # "none"
    BY <1>2, NeverUncreated DEF AckPowFails, BodyOversize, FailWrite, MarkSent
  <2>2. /\ pc[a] # "free"
        /\ pc' = [pc EXCEPT ![a] = "done"]
        /\ UNCHANGED <<rows, msgOf, announced>>
    BY <1>2 DEF AckPowFails, BodyOversize, FailWrite, MarkSent
  <2> QED BY <2>1, <2>2, EvidenceKept DEF TypeOK, RefinementInv
<1>3. CASE \/ RegisterWatch(a) \/ BuilderRaises(a) \/ BodyUnencodable(a) \/ BodyReady(a)
           \/ PowFails(a) \/ FailRead(a) \/ PowSolved(a)
  <2>1. /\ pc[a] # "free"
        /\ \E s \in WorkerPCs \ {"markSent"} : pc' = [pc EXCEPT ![a] = s]
        /\ UNCHANGED <<status, rows, msgOf, announced>>
    BY <1>3 DEF RegisterWatch, BuilderRaises, BodyUnencodable, BodyReady, PowFails,
                FailRead, PowSolved, WorkerPCs
  <2> QED BY <2>1, EvidenceKept DEF TypeOK, RefinementInv
<1> QED BY <1>1, <1>2, <1>3 DEF WorkerStep

LEMMA EvidenceWatches ==
  ASSUME TypeOK, RefinementInv
  PROVE  /\ \A t \in Savers : WriteSnapshot(t) => Evidenced'
         /\ \A a \in Attempts : AckArrives(a) \/ RecordAck(a) \/ Expire(a) => Evidenced'
         /\ \A p \in Pruners : PruneStep(p) => Evidenced'
<1> USE RowStatuses DEF rowVars, callVars, workVars, RefinementInv
<1>1. ASSUME NEW t \in Savers, WriteSnapshot(t) PROVE Evidenced'
  BY <1>1, EvidenceKept DEF WriteSnapshot
<1>2. ASSUME NEW a \in Attempts, AckArrives(a) \/ Expire(a) PROVE Evidenced'
  BY <1>2, EvidenceKept DEF AckArrives, Expire
<1>3. ASSUME NEW a \in Attempts, RecordAck(a) PROVE Evidenced'
  BY <1>3, NeverUncreated, EvidenceKept DEF RecordAck
<1>4. ASSUME NEW p \in Pruners, PruneStep(p) PROVE Evidenced'
  <2>1. CASE PruneWrite(p)
    BY <2>1, NeverUncreated, EvidenceKept DEF PruneWrite
  <2>2. CASE Prune(p) \/ \E a \in Attempts : PruneRead(p, a)
    BY <2>2, EvidenceKept DEF Prune, PruneRead
  <2> QED BY <1>4, <2>1, <2>2 DEF PruneStep
<1> QED BY <1>1, <1>2, <1>3, <1>4

LEMMA EvidenceNext == TypeOK /\ RefinementInv /\ [Next]_vars => Evidenced'
<1> SUFFICES ASSUME TypeOK, RefinementInv, [Next]_vars PROVE Evidenced'
  OBVIOUS
<1> USE DEF rowVars, workVars
<1>1. CASE UNCHANGED vars
  BY <1>1, EvidenceKept DEF vars, RefinementInv
<1>2. ASSUME NEW m \in Msgs, Send(m) \/ Resend(m) \/ Delete(m) \/ Age(m)
      PROVE  Evidenced'
  BY <1>2, EvidenceCallers
<1>3. ASSUME NEW c \in Contacts, PubkeyArrives(c) PROVE Evidenced'
  <2>1. \A d \in AllCallers : \A n \in rows'[d] : n \in rows[d] \/ status[n] # "none"
    BY <1>3 DEF TypeOK, PubkeyArrives, QueuedRows
  <2> QED BY <1>3, <2>1, EvidenceRead DEF PubkeyArrives, RefinementInv
<1>4. ASSUME NEW c \in Callers, NEW m \in Msgs, HandleRow(c, m) PROVE Evidenced'
  BY <1>4, EvidenceCallers
<1>5. ASSUME NEW a \in Attempts, WorkerStep(a) PROVE Evidenced'
  BY <1>5, EvidenceWorker
<1>6. ASSUME NEW a \in Attempts, AckArrives(a) \/ RecordAck(a) \/ Expire(a)
      PROVE  Evidenced'
  BY <1>6, EvidenceWatches
<1>7. ASSUME NEW t \in Savers, WriteSnapshot(t) PROVE Evidenced'
  BY <1>7, EvidenceWatches
<1>8. ASSUME NEW p \in Pruners, PruneStep(p) PROVE Evidenced'
  BY <1>8, EvidenceWatches
<1>9. CASE RetryStuck
  BY <1>9, EvidenceKept DEF TypeOK, RetryStuck, RefinementInv
<1>10. CASE RetryFailed \/ RetryQueued
  <2>1. \A d \in AllCallers : \A n \in rows'[d] : n \in rows[d] \/ status[n] # "none"
    BY <1>10 DEF TypeOK, RetryFailed, RetryQueued, QueuedRows
  <2> QED BY <1>10, <2>1, EvidenceRead DEF RetryFailed, RetryQueued, RefinementInv
<1>11. CASE Crash
  <2>1. /\ \A d \in AllCallers : rows'[d] = {}
        /\ \A a \in Attempts : pc'[a] = IF pc[a] = "free" THEN "free" ELSE "done"
        /\ UNCHANGED <<status, msgOf, announced>>
    BY <1>11 DEF Crash
  <2> QED BY <2>1, EvidenceKept DEF RefinementInv
<1> QED BY <1>1, <1>2, <1>3, <1>4, <1>5, <1>6, <1>7, <1>8, <1>9, <1>10, <1>11
        DEF Next, RetryStep

\* The step of the life cycle, or the stutter, that a step maps to.
LifeStep == [Life!Next]_(Life!vars)

LEMMA LifeStutter ==
  ASSUME UNCHANGED <<status, Out, Confirmed>>
  PROVE  LifeStep
BY DEF LifeStep, Life!vars, Out, Confirmed

\* Writing a status that has its evidence.
LEMMA LifeMove ==
  ASSUME TypeOK, NEW m \in Msgs, NEW s \in Rows, SetStatus(m, s),
         s = "sent" => m \in Out, s = "ackreceived" => m \in Confirmed,
         UNCHANGED <<Out, Confirmed>>
  PROVE  LifeStep
<1>1. CASE status[m] \in Rows
  <2>1. status' = [status EXCEPT ![m] = s]
    BY <1>1 DEF SetStatus
  <2>2. Rows = Life!Rows
    BY DEF Rows, Pending, Life!Rows, Life!Waiting
  <2>3. Life!Move(m, s)
    BY <1>1, <2>1, <2>2 DEF Life!Move, Life!Evidence, Out, Confirmed
  <2> QED BY <2>2, <2>3 DEF LifeStep, Life!Next
<1>2. CASE status[m] \notin Rows
  <2>1. status' = status
    BY <1>2 DEF TypeOK, SetStatus
  <2> QED BY <2>1, LifeStutter
<1> QED BY <1>1, <1>2

\* The network variables of the mapping stand still while the attempts they
\* name do.
LEMMA MappingKept ==
  ASSUME UNCHANGED <<msgOf, announced, acked>>
  PROVE  UNCHANGED <<Out, Confirmed>>
BY DEF Out, Confirmed

LEMMA LifeRows ==
  ASSUME TypeOK, NEW m \in Msgs
  PROVE  /\ Send(m) => LifeStep
         /\ Delete(m) => LifeStep
         /\ Resend(m) \/ Age(m) => LifeStep
<1> USE DEF rowVars, callVars, workVars, ackVars
<1>1. ASSUME Send(m) PROVE LifeStep
  <2>1. Life!Create(m)
    BY <1>1, MappingKept DEF Send, Life!Create, Out, Confirmed
  <2> QED BY <2>1 DEF LifeStep, Life!Next
<1>2. ASSUME Delete(m) PROVE LifeStep
  <2>1. Rows = Life!Rows
    BY DEF Rows, Pending, Life!Rows, Life!Waiting
  <2>2. Life!Delete(m)
    BY <1>2, <2>1, MappingKept DEF Delete, Life!Delete, Out, Confirmed
  <2> QED BY <2>2 DEF LifeStep, Life!Next
<1>3. ASSUME Resend(m) \/ Age(m) PROVE LifeStep
  BY <1>3, MappingKept, LifeStutter DEF Resend, Age
<1> QED BY <1>1, <1>2, <1>3

LEMMA LifeCallers ==
  ASSUME TypeOK, RefinementInv, NEW m \in Msgs, NEW c \in Callers, HandleRow(c, m)
  PROVE  LifeStep
<1> USE RowStatuses DEF rowVars, workVars, ackVars
<1>1. CASE AwaitKeyRow(c, m)
  BY <1>1, LifeMove, MappingKept DEF AwaitKeyRow
<1>2. CASE SkipRow(c, m)
  BY <1>2, LifeStutter, MappingKept DEF SkipRow
<1>3. CASE PublishRow(c, m)
  <2>0. UNCHANGED <<announced, acked>>
    BY <1>3 DEF PublishRow
  <2>1. CASE m \in inFlight
    <3>1. UNCHANGED <<status, msgOf>>
      BY <1>3, <2>1 DEF PublishRow, ClaimAndStart, Claimed
    <3> QED BY <2>0, <3>1, LifeStutter, MappingKept
  <2>2. CASE m \notin inFlight
    <3>1. PICK a \in Attempts :
            /\ pc[a] = "free"
            /\ SetStatus(m, "sending")
            /\ msgOf' = [msgOf EXCEPT ![a] = m]
      BY <1>3, <2>2 DEF PublishRow, ClaimAndStart, Claimed
    <3>2. \A b \in announced \union acked : b \in Attempts /\ b # a
      BY <3>1 DEF TypeOK, RefinementInv, AckOrder
    <3>3. \A b \in announced \union acked : msgOf'[b] = msgOf[b]
      BY <3>1, <3>2 DEF TypeOK
    <3>4. UNCHANGED <<Out, Confirmed>>
      BY <2>0, <3>3 DEF Out, Confirmed
    <3> QED BY <3>1, <3>4, LifeMove
  <2> QED BY <2>1, <2>2
<1> QED BY <1>1, <1>2, <1>3 DEF HandleRow

LEMMA LifeWorker ==
  ASSUME TypeOK, RefinementInv, NEW a \in Attempts, WorkerStep(a)
  PROVE  LifeStep
<1> USE RowStatuses DEF rowVars, callVars, ackVars
<1>0. pc[a] # "free" => msgOf[a] \in Msgs /\ status[msgOf[a]] # "none"
  BY DEF RefinementInv, Started, Evidenced
<1>1. CASE AckPowFails(a) \/ BodyOversize(a) \/ FailWrite(a)
  <2>1. msgOf[a] \in Msgs /\ SetStatus(msgOf[a], "ack-failed")
    BY <1>0, <1>1 DEF AckPowFails, BodyOversize, FailWrite
  <2>2. UNCHANGED <<msgOf, announced, acked>>
    BY <1>1 DEF AckPowFails, BodyOversize, FailWrite
  <2> QED BY <2>1, <2>2, LifeMove, MappingKept
<1>2. CASE \/ RegisterWatch(a) \/ BuilderRaises(a) \/ BodyUnencodable(a) \/ BodyReady(a)
           \/ PowFails(a) \/ FailRead(a) \/ PowSolved(a)
  <2>1. UNCHANGED <<status, msgOf, announced, acked>>
    BY <1>2 DEF RegisterWatch, BuilderRaises, BodyUnencodable, BodyReady, PowFails,
                FailRead, PowSolved
  <2> QED BY <2>1, LifeStutter, MappingKept
<1>3. CASE Announce(a)
  <2>1. Out' = Out \union {msgOf[a]} /\ Confirmed' = Confirmed
    BY <1>3 DEF Announce, Out, Confirmed
  <2>2. \E m \in Msgs : Life!PublishObject(m)
    BY <1>0, <1>3, <2>1 DEF Announce, Life!PublishObject, Out, Confirmed
  <2> QED BY <2>2 DEF LifeStep, Life!Next
<1>4. CASE MarkSent(a)
  <2>1. msgOf[a] \in Out
    BY <1>4 DEF MarkSent, RefinementInv, Evidenced, Out
  <2> QED BY <1>0, <1>4, <2>1, LifeMove, MappingKept DEF MarkSent
<1> QED BY <1>1, <1>2, <1>3, <1>4 DEF WorkerStep

LEMMA LifeWatches ==
  ASSUME TypeOK, RefinementInv
  PROVE  /\ \A t \in Savers : WriteSnapshot(t) => LifeStep
         /\ \A a \in Attempts : AckArrives(a) \/ RecordAck(a) \/ Expire(a) => LifeStep
         /\ \A p \in Pruners : PruneStep(p) => LifeStep
<1> USE RowStatuses DEF rowVars, workVars, ackVars
<1>1. ASSUME NEW t \in Savers, WriteSnapshot(t) PROVE LifeStep
  BY <1>1, LifeStutter, MappingKept DEF WriteSnapshot
<1>2. ASSUME NEW a \in Attempts, Expire(a) PROVE LifeStep
  BY <1>2, LifeStutter, MappingKept DEF Expire
<1>3. ASSUME NEW a \in Attempts, AckArrives(a) PROVE LifeStep
  <2>1. msgOf[a] \in Msgs
    BY <1>3 DEF AckArrives, RefinementInv, Started, AckOrder
  <2>2. Confirmed' = Confirmed \union {msgOf[a]} /\ Out' = Out /\ msgOf[a] \in Out
    BY <1>3 DEF AckArrives, Out, Confirmed
  <2>3. \E m \in Msgs : Life!Confirm(m)
    BY <1>3, <2>1, <2>2 DEF AckArrives, Life!Confirm, Out, Confirmed
  <2> QED BY <2>3 DEF LifeStep, Life!Next
<1>4. ASSUME NEW a \in Attempts, RecordAck(a) PROVE LifeStep
  <2>1. msgOf[a] \in Msgs /\ msgOf[a] \in Confirmed
    BY <1>4 DEF RecordAck, RefinementInv, Started, AckOrder, Confirmed
  <2> QED BY <1>4, <2>1, LifeMove, MappingKept DEF RecordAck
<1>5. ASSUME NEW p \in Pruners, PruneStep(p) PROVE LifeStep
  <2>1. CASE PruneWrite(p)
    <3>1. pcur[p] \in Msgs
      BY <2>1 DEF TypeOK, PruneWrite
    <3> QED BY <2>1, <3>1, LifeMove, MappingKept DEF PruneWrite
  <2>2. CASE Prune(p) \/ \E a \in Attempts : PruneRead(p, a)
    BY <2>2, LifeStutter, MappingKept DEF Prune, PruneRead
  <2> QED BY <1>5, <2>1, <2>2 DEF PruneStep
<1> QED BY <1>1, <1>2, <1>3, <1>4, <1>5

LEMMA LifeRetry == ASSUME TypeOK, RetryStep PROVE LifeStep
<1> USE DEF rowVars, workVars, ackVars
<1>1. CASE RetryStuck
  <2> DEFINE S == {m \in Msgs : Stuck(m)}
  <2>1. Life!Requeue(S)
    BY <1>1, MappingKept DEF RetryStuck, Stuck, Life!Requeue, Out, Confirmed
  <2>2. S \in SUBSET Msgs
    OBVIOUS
  <2> HIDE DEF S
  <2> QED BY <2>1, <2>2 DEF LifeStep, Life!Next
<1>2. CASE RetryFailed \/ RetryQueued
  BY <1>2, LifeStutter, MappingKept DEF RetryFailed, RetryQueued
<1> QED BY <1>1, <1>2 DEF RetryStep

LEMMA LifeNext == TypeOK /\ RefinementInv /\ [Next]_vars => LifeStep
<1> SUFFICES ASSUME TypeOK, RefinementInv, [Next]_vars PROVE LifeStep
  OBVIOUS
<1>1. CASE UNCHANGED vars
  BY <1>1, LifeStutter, MappingKept DEF vars
<1>2. ASSUME NEW m \in Msgs, Send(m) \/ Resend(m) \/ Delete(m) \/ Age(m)
      PROVE  LifeStep
  BY <1>2, LifeRows
<1>3. ASSUME NEW c \in Contacts, PubkeyArrives(c) PROVE LifeStep
  BY <1>3, LifeStutter, MappingKept DEF PubkeyArrives, workVars, ackVars
<1>4. ASSUME NEW c \in Callers, NEW m \in Msgs, HandleRow(c, m) PROVE LifeStep
  BY <1>4, LifeCallers
<1>5. ASSUME NEW a \in Attempts, WorkerStep(a) PROVE LifeStep
  BY <1>5, LifeWorker
<1>6. ASSUME NEW a \in Attempts, AckArrives(a) \/ RecordAck(a) \/ Expire(a)
      PROVE  LifeStep
  BY <1>6, LifeWatches
<1>7. ASSUME NEW t \in Savers, WriteSnapshot(t) PROVE LifeStep
  BY <1>7, LifeWatches
<1>8. ASSUME NEW p \in Pruners, PruneStep(p) PROVE LifeStep
  BY <1>8, LifeWatches
<1>9. CASE RetryStep
  BY <1>9, LifeRetry
<1>10. CASE Crash
  BY <1>10, LifeStutter, MappingKept DEF Crash, rowVars
<1> QED BY <1>1, <1>2, <1>3, <1>4, <1>5, <1>6, <1>7, <1>8, <1>9, <1>10 DEF Next

\* The threads together implement the life cycle of a message: through every
\* interleaving, resend and crash a row claims only what happened on the
\* network, and a deleted row stays deleted.
THEOREM Implementation == Spec => LifeCycle
<1>1. Init => Life!Init
  BY DEF Init, Life!Init
<1>2. TypeOK /\ RefinementInv /\ [Next]_vars => [Life!Next]_(Life!vars)
  BY LifeNext DEF LifeStep
<1>3. Spec => []RefinementInv
  <2>1. ClaimInv /\ AckInv /\ Evidenced => RefinementInv
    BY DEF ClaimInv, AckInv, RefinementInv
  <2>2. TypeOK /\ ClaimInv /\ AckInv /\ Evidenced /\ [Next]_vars
          => ClaimInv' /\ AckInv' /\ Evidenced'
    BY <2>1, ClaimNext, AckNext, EvidenceNext
  <2>3. Init => ClaimInv /\ AckInv /\ Evidenced
    BY ClaimInit, AckInit, EvidencedInit
  <2> QED BY <2>1, <2>2, <2>3, TypeCorrect, PTL DEF Spec
<1> QED BY <1>1, <1>2, <1>3, TypeCorrect, PTL DEF Spec, LifeCycle, Life!Spec
=============================================================================
