------------------------------ MODULE Delivery ------------------------------
(***************************************************************************)
(* The life of an outbound direct message in core/client.py.  Several      *)
(* threads of one process work on the same message row: the callers that   *)
(* (re)start a delivery, one PoW worker thread per started attempt, the    *)
(* network threads that bring acknowledgements and keys, and the two       *)
(* threads that prune expired acknowledgement watches.  A crash keeps only *)
(* what SQLite holds: the rows, the public keys and the saved watches.     *)
(*                                                                         *)
(* An attempt is one run of _send_message_worker.  Its number stands for   *)
(* the worker thread and for the random 32-byte watch key it draws.  The   *)
(* number of attempts is the bound on thread starts in a behaviour.        *)
(* Self-addressed messages never reach the network and are left out.       *)
(***************************************************************************)
EXTENDS Integers, FiniteSets

CONSTANTS
  Msgs,         \* ids of the outbound rows (AUTOINCREMENT: never reused)
  Contacts,     \* destination addresses
  To,           \* To[m]: destination of message m
  Unbuildable,  \* messages whose ACK or msg object the builders reject by raising
  NoMsg,
  Callers,      \* the callers active in this instance
  Pruners,      \* the threads that run _prune_ack_watch: the sweep loop, the retry loop
  MaxAttempts,  \* bound: workers started in a behaviour
  MaxRetries,   \* 3 in the code
  MaxCrashes    \* bound: process crashes in a behaviour

ASSUME ToAssumption == To \in [Msgs -> Contacts]
ASSUME NoMsgAssumption == NoMsg \notin Msgs
ASSUME UnbuildableAssumption == Unbuildable \subseteq Msgs
ASSUME CallersAssumption ==
  Callers \subseteq {"send", "pubkey", "resend", "retry-failed", "retry-queued"}
ASSUME BoundsAssumption ==
  /\ MaxAttempts \in Nat
  /\ MaxRetries \in Nat
  /\ MaxCrashes \in Nat

Attempts == 1..MaxAttempts
ASSUME PrunersAssumption == Pruners \intersect Attempts = {}

\* Who calls _pow_and_publish_message, named by the rows it works through:
\* a first send, the queue of a contact whose key arrived, a manual resend,
\* and the two loops of the retry thread.
AllCallers == {"send", "pubkey", "resend", "retry-failed", "retry-queued"}
Counted == {"resend", "retry-failed"}   \* the callers that spend a retry slot

Savers == Attempts \union Pruners       \* attempt a also names the thread handling its ACK

Pending == {"sending", "awaiting-pubkey"}
Rows == Pending \union {"sent", "ackreceived", "ack-failed"}
Statuses == Rows \union {"none", "deleted"}

WorkerPCs == {"free", "ackpow", "body", "pow", "failRead", "failWrite",
              "announce", "markSent", "leaked", "done"}

VARIABLES
  status,     \* messages.status of each row
  aged,       \* rows created more than 600 s ago
  pubkeys,    \* contacts whose public key is stored
  inFlight,   \* Client._msg_in_flight
  retries,    \* Client._ack_retry_counts
  rows,       \* rows[c]: rows read by caller c and not handled yet
  rpc,        \* program counter of the retry thread
  pc,         \* pc[a]: program counter of the worker of attempt a
  msgOf,      \* msgOf[a]: message of attempt a
  watch,      \* Client._ack_watch: the attempts that have an entry
  expired,    \* attempts whose deadline is past
  saving,     \* threads inside _save_ack_watch, snapshot taken, not written
  snap,       \* snap[t]: that snapshot
  saved,      \* the "ack_watch" setting in the database
  announced,  \* attempts whose object was handed to the network
  popped,     \* attempts whose ACK handler took the entry, row not written yet
  acked,      \* attempts whose entry an ACK took, ever
  prows,      \* prows[p]: expired entries popped by p and not examined yet
  pcur,       \* pcur[p]: message p found 'sent' and will mark, or NoMsg
  crashes

vars == <<status, aged, pubkeys, inFlight, retries, rows, rpc, pc, msgOf, watch,
          expired, saving, snap, saved, announced, popped, acked, prows, pcur,
          crashes>>

rowVars == <<status, aged, pubkeys>>
callVars == <<inFlight, retries, rows, rpc>>
workVars == <<pc, msgOf, announced>>
watchVars == <<watch, expired, saving, snap, saved>>
ackVars == <<popped, acked>>
pruneVars == <<prows, pcur>>

-----------------------------------------------------------------------------
Init ==
  /\ status = [m \in Msgs |-> "none"]
  /\ aged = {}
  /\ pubkeys = {}
  /\ inFlight = {}
  /\ retries = [m \in Msgs |-> 0]
  /\ rows = [c \in AllCallers |-> {}]
  /\ rpc = "idle"
  /\ pc = [a \in Attempts |-> "free"]
  /\ msgOf = [a \in Attempts |-> NoMsg]
  /\ watch = {}
  /\ expired = {}
  /\ saving = {}
  /\ snap = [t \in Savers |-> {}]
  /\ saved = {}
  /\ announced = {}
  /\ popped = {}
  /\ acked = {}
  /\ prows = [p \in Pruners |-> {}]
  /\ pcur = [p \in Pruners |-> NoMsg]
  /\ crashes = 0

\* Mutant of SetStatus: the WHERE clause is missing.
SetStatusEverywhere(m, s) ==
  status' = [n \in Msgs |-> IF status[n] \in Rows THEN s ELSE status[n]]

\* Mutant of SetStatus: a write that recreates a deleted row.
SetStatusUpsert(m, s) == status' = [status EXCEPT ![m] = s]

\* UPDATE messages SET status=s WHERE id=m: unconditional, nothing when the row is gone.
SetStatus(m, s) ==
  status' = [status EXCEPT ![m] = IF @ \in Rows THEN s ELSE @]

\* The dictionary becomes w and thread t snapshots it for _save_ack_watch.
ChangeWatch(t, w) ==
  /\ watch' = w
  /\ saving' = saving \union {t}
  /\ snap' = [snap EXCEPT ![t] = w]

-----------------------------------------------------------------------------
(* Callers: rows are read first and handled later, by then possibly stale.  *)

\* send_message_with_id: the row is inserted; a known key starts delivery.
Send(m) ==
  /\ "send" \in Callers
  /\ status[m] = "none"
  /\ rows["send"] = {}
  /\ status' = [status EXCEPT ![m] = "awaiting-pubkey"]
  /\ rows' = [rows EXCEPT !["send"] = IF To[m] \in pubkeys THEN {m} ELSE {}]
  /\ UNCHANGED <<aged, pubkeys, inFlight, retries, rpc, workVars, watchVars,
                 ackVars, pruneVars, crashes>>

\* resend_message: the user asks again; only the row read here is checked.
Resend(m) ==
  /\ "resend" \in Callers
  /\ status[m] \in Pending \union {"ack-failed"}
  /\ rows["resend"] = {}
  /\ rows' = [rows EXCEPT !["resend"] = {m}]
  /\ UNCHANGED <<rowVars, inFlight, retries, rpc, workVars, watchVars,
                 ackVars, pruneVars, crashes>>

QueuedRows(cs) == {m \in Msgs : status[m] = "awaiting-pubkey" /\ To[m] \in cs}

\* _on_pubkey: the key is stored and _send_queued reads the waiting rows;
\* with no peer it gives up when more than one row waits.
PubkeyArrives(c) ==
  /\ rows["pubkey"] = {}
  /\ pubkeys' = pubkeys \union {c}
  /\ \E online \in BOOLEAN :
       rows' = [rows EXCEPT !["pubkey"] =
                  IF "pubkey" \in Callers /\ (online \/ Cardinality(QueuedRows({c})) <= 1)
                  THEN QueuedRows({c}) ELSE {}]
  /\ UNCHANGED <<status, aged, inFlight, retries, rpc, workVars, watchVars,
                 ackVars, pruneVars, crashes>>

\* Mutant of Claimed: the table of messages in flight is not consulted.
ClaimedUnchecked(m) == FALSE

Claimed(m) == m \in inFlight

\* The head of _pow_and_publish_message: under the lock a message already in
\* flight is dropped, else it is claimed; then 'sending' is written whatever
\* the row now holds, and the worker starts.
ClaimAndStart(m) ==
  IF Claimed(m)
  THEN UNCHANGED <<status, inFlight, pc, msgOf>>
  ELSE \E a \in Attempts :
         /\ pc[a] = "free"
         /\ \A b \in 1..(a - 1) : pc[b] # "free"
         /\ inFlight' = inFlight \union {m}
         /\ SetStatus(m, "sending")
         /\ pc' = [pc EXCEPT ![a] = "ackpow"]
         /\ msgOf' = [msgOf EXCEPT ![a] = m]

\* Mutant of SlotLeft: off by one.
SlotLeftPlusOne(m) == retries[m] <= MaxRetries

SlotLeft(m) == retries[m] < MaxRetries

\* The retry slot of _claim_resend_slot and _retry_one_ack_failed.
SpendSlot(c, m) ==
  IF c \in Counted
  THEN /\ SlotLeft(m)
       /\ retries' = [retries EXCEPT ![m] = @ + 1]
  ELSE UNCHANGED retries

PublishRow(c, m) ==
  /\ m \in rows[c]
  /\ To[m] \in pubkeys
  /\ SpendSlot(c, m)
  /\ ClaimAndStart(m)
  /\ rows' = [rows EXCEPT ![c] = @ \ {m}]
  /\ UNCHANGED <<aged, pubkeys, rpc, announced, watchVars, ackVars, pruneVars,
                 crashes>>

\* Without the key a counted caller puts the row back in the queue
\* (_resend_without_pubkey, end of _retry_one_ack_failed).
AwaitKeyRow(c, m) ==
  /\ m \in rows[c]
  /\ c \in Counted
  /\ To[m] \notin pubkeys
  /\ SpendSlot(c, m)
  /\ SetStatus(m, "awaiting-pubkey")
  /\ rows' = [rows EXCEPT ![c] = @ \ {m}]
  /\ UNCHANGED <<aged, pubkeys, inFlight, rpc, workVars, watchVars, ackVars,
                 pruneVars, crashes>>

\* Early returns: the sending identity is not loaded, the row is gone, or
\* the retry limit is reached.
SkipRow(c, m) ==
  /\ m \in rows[c]
  /\ rows' = [rows EXCEPT ![c] = @ \ {m}]
  /\ UNCHANGED <<rowVars, inFlight, retries, rpc, workVars, watchVars, ackVars,
                 pruneVars, crashes>>

HandleRow(c, m) == PublishRow(c, m) \/ AwaitKeyRow(c, m) \/ SkipRow(c, m)

-----------------------------------------------------------------------------
(* The worker: _send_message_worker, _run_pow_and_done, _finish_message_send *)

\* Mutant of Release: the error path forgets the discard.
ReleaseForgotten(a) == inFlight' = inFlight

\* _msg_in_flight.discard, on every way out of the worker but an exception
\* of a builder.
Release(a) == inFlight' = inFlight \ {msgOf[a]}

\* _build_ack_packet failed its small PoW: _fail_message_no_ack.
AckPowFails(a) ==
  /\ pc[a] = "ackpow"
  /\ SetStatus(msgOf[a], "ack-failed")
  /\ Release(a)
  /\ pc' = [pc EXCEPT ![a] = "done"]
  /\ UNCHANGED <<aged, pubkeys, retries, rows, rpc, msgOf, announced, watchVars,
                 ackVars, pruneVars, crashes>>

\* The watch is registered with the object's deadline, then saved.
RegisterWatch(a) ==
  /\ pc[a] = "ackpow"
  /\ msgOf[a] \notin Unbuildable
  /\ ChangeWatch(a, watch \union {a})
  /\ pc' = [pc EXCEPT ![a] = "body"]
  /\ UNCHANGED <<rowVars, callVars, msgOf, announced, expired, saved, ackVars,
                 pruneVars, crashes>>

\* create_ack or build_msg_unsigned raises: the thread dies and the claim
\* taken by ClaimAndStart stays.
BuilderRaises(a) ==
  /\ pc[a] = "ackpow"
  /\ msgOf[a] \in Unbuildable
  /\ pc' = [pc EXCEPT ![a] = "leaked"]
  /\ UNCHANGED <<rowVars, callVars, msgOf, announced, watchVars, ackVars,
                 pruneVars, crashes>>

\* The text does not encode: the worker returns, the row stays 'sending'.
BodyUnencodable(a) ==
  /\ pc[a] = "body" /\ a \notin saving
  /\ Release(a)
  /\ pc' = [pc EXCEPT ![a] = "done"]
  /\ UNCHANGED <<rowVars, retries, rows, rpc, msgOf, announced, watchVars,
                 ackVars, pruneVars, crashes>>

\* _drop_oversize_wire
BodyOversize(a) ==
  /\ pc[a] = "body" /\ a \notin saving
  /\ SetStatus(msgOf[a], "ack-failed")
  /\ Release(a)
  /\ ChangeWatch(a, watch \ {a})
  /\ pc' = [pc EXCEPT ![a] = "done"]
  /\ UNCHANGED <<aged, pubkeys, retries, rows, rpc, msgOf, announced, expired,
                 saved, ackVars, pruneVars, crashes>>

BodyReady(a) ==
  /\ pc[a] = "body" /\ a \notin saving
  /\ pc' = [pc EXCEPT ![a] = "pow"]
  /\ UNCHANGED <<rowVars, callVars, msgOf, announced, watchVars, ackVars,
                 pruneVars, crashes>>

\* No PoW slot within 10 s, the solver raised, or the user cancelled:
\* _fail_pow releases the claim, then reads the row, then marks it.
PowFails(a) ==
  /\ pc[a] = "pow"
  /\ Release(a)
  /\ pc' = [pc EXCEPT ![a] = "failRead"]
  /\ UNCHANGED <<rowVars, retries, rows, rpc, msgOf, announced, watchVars,
                 ackVars, pruneVars, crashes>>

FailRead(a) ==
  /\ pc[a] = "failRead"
  /\ pc' = [pc EXCEPT ![a] = IF status[msgOf[a]] \in Pending THEN "failWrite"
                             ELSE "done"]
  /\ UNCHANGED <<rowVars, callVars, msgOf, announced, watchVars, ackVars,
                 pruneVars, crashes>>

FailWrite(a) ==
  /\ pc[a] = "failWrite"
  /\ SetStatus(msgOf[a], "ack-failed")
  /\ pc' = [pc EXCEPT ![a] = "done"]
  /\ UNCHANGED <<aged, pubkeys, callVars, msgOf, announced, watchVars, ackVars,
                 pruneVars, crashes>>

\* The head of _finish_message_send: the row is read again and the claim released.
PowSolved(a) ==
  /\ pc[a] = "pow"
  /\ Release(a)
  /\ pc' = [pc EXCEPT ![a] = IF status[msgOf[a]] \in Pending THEN "announce"
                             ELSE "done"]
  /\ UNCHANGED <<rowVars, retries, rows, rpc, msgOf, announced, watchVars,
                 ackVars, pruneVars, crashes>>

Announce(a) ==
  /\ pc[a] = "announce"
  /\ announced' = announced \union {a}
  /\ pc' = [pc EXCEPT ![a] = "markSent"]
  /\ UNCHANGED <<rowVars, callVars, msgOf, watchVars, ackVars, pruneVars, crashes>>

MarkSent(a) ==
  /\ pc[a] = "markSent"
  /\ SetStatus(msgOf[a], "sent")
  /\ pc' = [pc EXCEPT ![a] = "done"]
  /\ UNCHANGED <<aged, pubkeys, callVars, msgOf, announced, watchVars, ackVars,
                 pruneVars, crashes>>

WorkerStep(a) ==
  \/ AckPowFails(a) \/ RegisterWatch(a) \/ BuilderRaises(a)
  \/ BodyUnencodable(a) \/ BodyOversize(a) \/ BodyReady(a)
  \/ PowFails(a) \/ FailRead(a) \/ FailWrite(a)
  \/ PowSolved(a) \/ Announce(a) \/ MarkSent(a)

-----------------------------------------------------------------------------
(* The watch table: its copy in the database, acknowledgements, expiry       *)

\* The write of _save_ack_watch, outside the lock the snapshot was taken under.
WriteSnapshot(t) ==
  /\ t \in saving
  /\ saved' = snap[t]
  /\ saving' = saving \ {t}
  /\ snap' = [snap EXCEPT ![t] = {}]
  /\ UNCHANGED <<rowVars, callVars, workVars, watch, expired, ackVars, pruneVars,
                 crashes>>

\* _maybe_mark_ack: the entry is popped; any network thread may run it.
AckArrives(a) ==
  /\ a \in announced
  /\ a \in watch
  /\ ChangeWatch(a, watch \ {a})
  /\ popped' = popped \union {a}
  /\ acked' = acked \union {a}
  /\ UNCHANGED <<rowVars, callVars, workVars, expired, saved, pruneVars, crashes>>

RecordAck(a) ==
  /\ a \in popped
  /\ a \notin saving
  /\ SetStatus(msgOf[a], "ackreceived")
  /\ retries' = [retries EXCEPT ![msgOf[a]] = 0]
  /\ popped' = popped \ {a}
  /\ UNCHANGED <<aged, pubkeys, inFlight, rows, rpc, workVars, watchVars, acked,
                 pruneVars, crashes>>

\* The deadline of a registered watch passes.  Attempts of one message reuse
\* the lifetime stored in its row, so the earlier one expires first.
Expire(a) ==
  /\ a \in watch
  /\ \A b \in watch : b < a /\ msgOf[b] = msgOf[a] => b \in expired
  /\ expired' = expired \union {a}
  /\ UNCHANGED <<rowVars, callVars, workVars, watch, saving, snap, saved, ackVars,
                 pruneVars, crashes>>

PruneIdle(p) == prows[p] = {} /\ pcur[p] = NoMsg /\ p \notin saving

\* Mutant of Dead: the deadline is not compared with the clock.
DeadOrAlive == watch

Dead == watch \intersect expired

\* First half of _prune_ack_watch: pop every expired entry, save if any.  The
\* sweep loop comes round every 30 s, the retry loop at each pass.
Prune(p) ==
  /\ PruneIdle(p)
  /\ Dead # {}
  /\ ChangeWatch(p, watch \ Dead)
  /\ prows' = [prows EXCEPT ![p] = Dead]
  /\ UNCHANGED <<rowVars, callVars, workVars, expired, saved, ackVars, pcur,
                 crashes>>

\* Mutant of Unanswered: looks for rows still being sent.
UnansweredSending(m) == status[m] = "sending"

Unanswered(m) == status[m] = "sent"

\* Second half of _prune_ack_watch, one popped entry: read the row ...
PruneRead(p, a) ==
  /\ p \notin saving
  /\ pcur[p] = NoMsg
  /\ a \in prows[p]
  /\ prows' = [prows EXCEPT ![p] = @ \ {a}]
  /\ pcur' = [pcur EXCEPT ![p] = IF Unanswered(msgOf[a]) THEN msgOf[a] ELSE NoMsg]
  /\ UNCHANGED <<rowVars, callVars, workVars, watchVars, ackVars, crashes>>

\* ... and mark it failed if it read 'sent'.
PruneWrite(p) ==
  /\ pcur[p] # NoMsg
  /\ SetStatus(pcur[p], "ack-failed")
  /\ pcur' = [pcur EXCEPT ![p] = NoMsg]
  /\ UNCHANGED <<aged, pubkeys, callVars, workVars, watchVars, ackVars, prows,
                 crashes>>

PruneStep(p) == Prune(p) \/ (\E a \in Attempts : PruneRead(p, a)) \/ PruneWrite(p)

-----------------------------------------------------------------------------
(* The retry thread: _retry_awaiting, every 600 s.  Its prunings are Prune.  *)

\* Mutant of Stuck: only rows that still have a worker.
StuckInFlight(m) == status[m] = "sending" /\ m \in aged /\ m \in inFlight

Stuck(m) == status[m] = "sending" /\ m \in aged

\* _retry_stuck_sending; with no peer connected the pass ends here.
RetryStuck ==
  /\ rpc = "idle" /\ rows["retry-queued"] = {}
  /\ status' = [m \in Msgs |-> IF Stuck(m) THEN "awaiting-pubkey" ELSE status[m]]
  /\ rpc' \in {"idle", "failed"}
  /\ UNCHANGED <<aged, pubkeys, inFlight, retries, rows, workVars, watchVars,
                 ackVars, pruneVars, crashes>>

\* _retry_ack_failed reads the failed rows (LIMIT 5).
RetryFailed ==
  /\ rpc = "failed"
  /\ rows' = [rows EXCEPT !["retry-failed"] =
                IF "retry-failed" \in Callers
                THEN {m \in Msgs : status[m] = "ack-failed"} ELSE {}]
  /\ rpc' = "queued"
  /\ UNCHANGED <<rowVars, inFlight, retries, workVars, watchVars, ackVars,
                 pruneVars, crashes>>

\* The waiting rows of the contacts whose key is known.
RetryQueued ==
  /\ rpc = "queued"
  /\ rows["retry-failed"] = {}
  /\ rows' = [rows EXCEPT !["retry-queued"] =
                IF "retry-queued" \in Callers THEN QueuedRows(pubkeys) ELSE {}]
  /\ rpc' = "idle"
  /\ UNCHANGED <<rowVars, inFlight, retries, workVars, watchVars, ackVars,
                 pruneVars, crashes>>

RetryStep == RetryStuck \/ RetryFailed \/ RetryQueued

-----------------------------------------------------------------------------
(* The rest of the environment                                               *)

\* A row, a conversation or a contact is deleted, or a send is undone.
Delete(m) ==
  /\ status[m] \in Rows
  /\ status' = [status EXCEPT ![m] = "deleted"]
  /\ UNCHANGED <<aged, pubkeys, callVars, workVars, watchVars, ackVars, pruneVars,
                 crashes>>

Age(m) ==
  /\ status[m] \in Rows
  /\ aged' = aged \union {m}
  /\ UNCHANGED <<status, pubkeys, callVars, workVars, watchVars, ackVars,
                 pruneVars, crashes>>

\* The process dies and starts again: threads and volatile tables are lost,
\* _load_ack_watch restores the saved entries.
Crash ==
  /\ crashes < MaxCrashes
  /\ crashes' = crashes + 1
  /\ inFlight' = {}
  /\ retries' = [m \in Msgs |-> 0]
  /\ rows' = [c \in AllCallers |-> {}]
  /\ rpc' = "idle"
  /\ pc' = [a \in Attempts |-> IF pc[a] = "free" THEN "free" ELSE "done"]
  /\ watch' = saved
  /\ saving' = {}
  /\ snap' = [t \in Savers |-> {}]
  /\ popped' = {}
  /\ prows' = [p \in Pruners |-> {}]
  /\ pcur' = [p \in Pruners |-> NoMsg]
  /\ UNCHANGED <<rowVars, msgOf, announced, expired, saved, acked>>

Next ==
  \/ \E m \in Msgs : Send(m) \/ Resend(m) \/ Delete(m) \/ Age(m)
  \/ \E c \in Contacts : PubkeyArrives(c)
  \/ \E c \in Callers, m \in Msgs : HandleRow(c, m)
  \/ \E a \in Attempts : WorkerStep(a) \/ AckArrives(a) \/ RecordAck(a) \/ Expire(a)
  \/ \E t \in Savers : WriteSnapshot(t)
  \/ \E p \in Pruners : PruneStep(p)
  \/ RetryStep
  \/ Crash

Spec == Init /\ [][Next]_vars

\* Threads are scheduled, clocks advance, and the loops come round again.
\* Nothing is assumed of the user, the peers, keys or acknowledgements.
Fairness ==
  /\ \A a \in Attempts : WF_vars(WorkerStep(a)) /\ WF_vars(RecordAck(a)) /\ WF_vars(Expire(a))
  /\ \A c \in Callers, m \in Msgs : WF_vars(HandleRow(c, m))
  /\ \A t \in Savers : WF_vars(WriteSnapshot(t))
  /\ \A p \in Pruners : WF_vars(PruneStep(p))
  /\ \A m \in Msgs : WF_vars(Age(m))
  /\ WF_vars(RetryStep)

FairSpec == Spec /\ Fairness

-----------------------------------------------------------------------------
(* Properties                                                                *)

TypeOK ==
  /\ status \in [Msgs -> Statuses]
  /\ aged \subseteq Msgs
  /\ pubkeys \subseteq Contacts
  /\ inFlight \subseteq Msgs
  /\ retries \in [Msgs -> 0..MaxRetries]
  /\ rows \in [AllCallers -> SUBSET Msgs]
  /\ rpc \in {"idle", "failed", "queued"}
  /\ pc \in [Attempts -> WorkerPCs]
  /\ msgOf \in [Attempts -> Msgs \union {NoMsg}]
  /\ watch \subseteq Attempts
  /\ expired \subseteq Attempts
  /\ saving \subseteq Savers
  /\ snap \in [Savers -> SUBSET Attempts]
  /\ saved \subseteq Attempts
  /\ announced \subseteq Attempts
  /\ popped \subseteq Attempts
  /\ acked \subseteq Attempts
  /\ prows \in [Pruners -> SUBSET Attempts]
  /\ pcur \in [Pruners -> Msgs \union {NoMsg}]
  /\ crashes \in 0..MaxCrashes

\* The attempts that hold the claim of their message.
Claiming(a) == pc[a] \in {"ackpow", "body", "pow", "leaked"}

\* However first sends, arriving keys, manual resends and the retry thread
\* interleave, two workers never burn PoW for one message at the same time
\* (_msg_in_flight, client.py:1899).
OneWorkerPerMessage ==
  \A a, b \in Attempts :
    Claiming(a) /\ Claiming(b) /\ msgOf[a] = msgOf[b] => a = b

\* _msg_in_flight holds exactly the messages of the workers that have not
\* released their claim: none is released twice for another's claim, and
\* only a worker killed by a builder leaves one behind.
InFlightExact == inFlight = {msgOf[a] : a \in {b \in Attempts : Claiming(b)}}

\* A row says 'ackreceived' only if an object of that very message went out
\* and an ACK took its watch, through races, resends and restarts.
DeliveredWasAnnounced ==
  \A m \in Msgs : status[m] = "ackreceived" =>
    \E a \in announced \intersect acked : msgOf[a] = m

\* Every step of the threads, races, restarts and deletions included, is a
\* step of the abstract life cycle: no row claims more than what happened on
\* the network and no deleted row comes back (update of a row by id only).
Life == INSTANCE MessageLife WITH
          state <- status,
          out <- {msgOf[a] : a \in announced},
          confirmed <- {msgOf[a] : a \in acked}

LifeCycle == Life!Spec

\* While the process lives, the ACK of an object on the network can be
\* recognised until its deadline: the entry is registered before the
\* announcement and only its ACK or its expiry removes it.
AckNotLost ==
  crashes = 0 => announced \subseteq watch \union acked \union expired

\* A row never stays 'sending': the worker, or after a crash or an aborted
\* worker the retry loop, moves it on (_retry_stuck_sending, _fail_pow).
SendingResolves ==
  \A m \in Msgs : (status[m] = "sending") ~> (status[m] # "sending")

\* Every claim of a message that can be built is released again, so that a
\* later resend is not refused for ever.
ClaimReleased ==
  \A m \in Msgs \ Unbuildable : (m \in inFlight) ~> (m \notin inFlight)

\* Once crashes have stopped, a sent message with a registered watch does not
\* wait for its ACK for ever: the ACK, or the pruning of the expired watch,
\* moves the row on.  A crash between the removal of an expired entry and the
\* write of the row loses the outcome.
WatchedSentResolves ==
  \A m \in Msgs :
    (crashes = MaxCrashes /\ status[m] = "sent" /\ \E a \in watch : msgOf[a] = m)
      ~> (status[m] # "sent")

-----------------------------------------------------------------------------
(* What the repository says and the code does not do (see README, findings)  *)

\* models/states.py: a delivered message may become read or received only.
\* _finish_message_send writes 'sent' after the announcement, whatever the
\* ACK handler wrote in between.
DeliveredNotUnsent ==
  [][\A m \in Msgs : status[m] = "ackreceived" => status'[m] # "sent"]_vars

\* client.py:1924: the ACK lives as long as its object. The watch of an
\* attempt whose PoW failed stays registered; its expiry fails a message
\* whose later object, still alive, has its own watch.
LiveObjectNotFailed ==
  [][\A p \in Pruners, m \in Msgs :
       pcur[p] = m /\ pcur'[p] = NoMsg /\ status[m] = "sent" /\ status'[m] = "ack-failed"
         => ~ \E a \in announced \intersect watch : msgOf[a] = m /\ a \notin expired]_vars

\* client.py:458: the watch table is persisted atomically, so with no save
\* under way the database and the memory agree.
SavedIsCurrent == saving = {} => saved = watch

\* client.py:2019: _fail_pow "atomically" marks a row that is still pending.
\* Between its read and its write a later attempt may have completed.
FailOnlyPending ==
  [][\A a \in Attempts : pc[a] = "failWrite" /\ pc'[a] = "done" /\ crashes' = crashes
       => status[msgOf[a]] \notin {"sent", "ackreceived"}]_vars
=============================================================================
