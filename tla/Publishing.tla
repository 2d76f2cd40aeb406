----------------------------- MODULE Publishing -----------------------------
(***************************************************************************)
(* Proof-of-work tasks and what is published through them: the client's    *)
(* task table and its semaphore (core/client.py), the parallel search      *)
(* (crypto/pow/standard.py) behind a semaphore of its own, cancellation by *)
(* token or of everything, and the thread that sends scheduled messages.   *)
(*                                                                         *)
(* A task stands for the thread that runs it and for its token; a finished *)
(* task is used again, since a token that left the table names nothing.    *)
(* What a solved message does to its row is in Delivery.                   *)
(***************************************************************************)
EXTENDS Integers, FiniteSets

CONSTANTS
  Tasks,        \* threads that may run a search
  Kinds,        \* subset of AllKinds: what users and peers ask to publish
  Sched,        \* rows of scheduled_messages
  NoJob,
  Strategies,   \* the strategies a client may be given: "standard", "mock"
  Slots,        \* 3 in the code, for both semaphores
  Ranges,       \* the 2^64 nonces, in ranges of 2^20
  Workers,      \* processes of one search
  Winning,      \* the ranges that hold a nonce below the target
  MaxCrashes,   \* bound: process crashes in a behaviour
  MaxFailures,  \* bound: database writes that raise in a behaviour
  MaxSends      \* bound: times one scheduled row is sent

AllKinds == {"chan", "pubkey", "getpubkey", "dm", "plain"}
ASSUME KindsAssumption == Kinds \subseteq AllKinds
ASSUME NoJobAssumption == NoJob \notin Sched
ASSUME StrategiesAssumption == Strategies \subseteq {"standard", "mock"}
ASSUME TasksAssumption == IsFiniteSet(Tasks)
ASSUME BoundsAssumption ==
  /\ Slots \in Nat /\ Ranges \in Nat \ {0} /\ Workers \in Nat
  /\ Winning \subseteq 0..(Ranges - 1)
  /\ MaxCrashes \in Nat /\ MaxFailures \in Nat /\ MaxSends \in Nat

Starts == 0..(Ranges - 1)
NoRange == Ranges                \* a worker process with no range
Procs == 1..Workers

VARIABLES
  strategy,   \* Client.pow_strategy
  started,    \* Client.started
  pc,         \* pc[t]: where the thread of task t is
  kind,       \* kind[t]: what it publishes
  job,        \* job[t]: the scheduled row it came from, or NoJob
  stops,      \* Client._pow_stops (and _pow_meta): the tasks it lists
  stop,       \* tasks whose stop event is set
  acquired,   \* tasks whose thread took a slot of _pow_semaphore
  free,       \* value of Client._pow_semaphore
  gfree,      \* value of _pow_global_sem
  ranges,     \* ranges[t][w]: start of the range process w searches
  next,       \* next[t]: StandardPoWStrategy._started
  given,      \* given[t]: ranges handed out since the nonces last wrapped
  sched,      \* state of each scheduled row
  pending,    \* rows read by the scheduled-sender thread and not handled yet
  marking,    \* row it sent and will mark, or NoJob
  announced,  \* scheduled rows whose object went to the network
  rows,       \* scheduled rows with a row in messages
  posted,     \* scheduled rows sent as a channel post
  sends,      \* sends[s]: times s was sent
  dropped,    \* rows marked without being sent: refused or without identity
  crashes,
  failures

vars == <<strategy, started, pc, kind, job, stops, stop, acquired, free, gfree,
          ranges, next, given, sched, pending, marking, announced, rows, posted,
          sends, dropped, crashes, failures>>
taskVars == <<pc, kind, job, stops, stop, acquired, free>>
searchVars == <<gfree, ranges, next, given>>
schedVars == <<sched, pending, marking, sends, dropped>>
outVars == <<announced, rows, posted>>
envVars == <<strategy, started, crashes, failures>>

PCs == {"free", "ackWait", "ackSearch", "tracked", "globalWait",
        "search", "announce", "store", "failing", "leaving"}
Searching == {"ackSearch", "search"}

Init ==
  /\ strategy \in Strategies
  /\ started = TRUE
  /\ pc = [t \in Tasks |-> "free"]
  /\ kind = [t \in Tasks |-> "plain"]
  /\ job = [t \in Tasks |-> NoJob]
  /\ stops = {} /\ stop = {} /\ acquired = {}
  /\ free = Slots /\ gfree = Slots
  /\ ranges = [t \in Tasks |-> [w \in Procs |-> NoRange]]
  /\ next = [t \in Tasks |-> 0]
  /\ given = [t \in Tasks |-> {}]
  /\ sched = [s \in Sched |-> "future"]
  /\ pending = {} /\ marking = NoJob
  /\ announced = {} /\ rows = {} /\ posted = {}
  /\ sends = [s \in Sched |-> 0]
  /\ dropped = {}
  /\ crashes = 0 /\ failures = 0

Goto(t, l) == pc' = [pc EXCEPT ![t] = l]

\* The thread goes on at l; when it ends, its arguments and its event go too.
GoOn(t, l) ==
  /\ Goto(t, l)
  /\ kind' = [kind EXCEPT ![t] = IF l = "free" THEN "plain" ELSE @]
  /\ job' = [job EXCEPT ![t] = IF l = "free" THEN NoJob ELSE @]
  /\ stop' = IF l = "free" THEN stop \ {t} ELSE stop

-----------------------------------------------------------------------------
(* A task: registered, run within the semaphore, always left through finally *)

\* _pow_and_publish lists the token, then starts the thread; a direct message
\* starts its worker, which searches the nonce of its ACK first; "plain" is a
\* bare call of the executor, without token or stop event.
FirstStep(k) ==
  CASE k = "dm" -> "ackWait" [] k = "plain" -> "globalWait" [] OTHER -> "tracked"

Register(t, k, j) ==
  /\ pc[t] = "free"
  /\ Goto(t, FirstStep(k))
  /\ kind' = [kind EXCEPT ![t] = k]
  /\ job' = [job EXCEPT ![t] = j]
  /\ stops' = IF FirstStep(k) = "tracked" THEN stops \union {t} ELSE stops
  /\ stop' = stop \ {t}

Publish(t, k) ==
  /\ k \in Kinds
  /\ Register(t, k, NoJob)
  /\ UNCHANGED <<acquired, free, searchVars, schedVars, outVars, envVars>>

\* Mutant of Ensure: the entry gets an event of its own.
EnsureNewEvent(t) == stops' = stops \union {t} /\ stop' = stop \ {t}

\* _ensure_pow_entry puts the thread's own event in the table again.
Ensure(t) == stops' = stops \union {t} /\ UNCHANGED stop

\* The thread registers itself, then has 10 s to get a slot.
Enter(t) ==
  /\ pc[t] = "tracked"
  /\ free > 0
  /\ Ensure(t)
  /\ free' = free - 1
  /\ acquired' = acquired \union {t}
  /\ Goto(t, "globalWait")
  /\ UNCHANGED <<kind, job, searchVars, schedVars, outVars, envVars>>

SlotTimeout(t) ==
  /\ pc[t] = "tracked"
  /\ free = 0
  /\ Ensure(t)
  /\ Goto(t, "failing")
  /\ UNCHANGED <<kind, job, acquired, free, searchVars, schedVars, outVars, envVars>>

Untrack(t) == stops' = stops \ {t}

\* _fail_pow: the row of a message is Delivery's; the token leaves the table.
FailPow(t) ==
  /\ pc[t] = "failing"
  /\ Untrack(t)
  /\ Goto(t, "leaving")
  /\ UNCHANGED <<kind, job, stop, acquired, free, searchVars, schedVars, outVars,
                 envVars>>

\* Mutant of ReleaseSlot: only the way out through a solved nonce releases.
ReleaseSolved(t) ==
  IF t \in acquired /\ job[t] \in announced THEN free + 1 ELSE free

\* The finally of _run_pow_and_done.
ReleaseSlot(t) == IF t \in acquired THEN free + 1 ELSE free

Leave(t) ==
  /\ pc[t] = "leaving"
  /\ free' = ReleaseSlot(t)
  /\ acquired' = acquired \ {t}
  /\ GoOn(t, "free")
  /\ UNCHANGED <<stops, searchVars, schedVars, outVars, envVars>>

-----------------------------------------------------------------------------
(* The search: StandardPoWStrategy.solve, and the mock strategy of the tests *)

NeedsGlobal(t) == strategy = "standard" \/ kind[t] = "plain"

\* What a search in "search" or "ackSearch" becomes when it raises.
Raised(t) ==
  CASE kind[t] = "plain" -> "free"
    [] pc[t] \in {"ackWait", "ackSearch"} -> "free"   \* _fail_message_no_ack, in Delivery
    [] OTHER -> "failing"

\* A nonce was found: the token is untracked, then done_cb runs.
Found(t) ==
  /\ GoOn(t, CASE kind[t] = "plain" -> "free"
               [] pc[t] = "ackSearch" -> "tracked"
               [] OTHER -> "announce")
  /\ stops' = IF pc[t] = "ackSearch" THEN stops \union {t} ELSE stops \ {t}

\* Ranges handed out: the first after all were given starts a new round.
Given(g, rs) == IF g \union rs = Starts THEN {} ELSE g \union rs

\* Semaphore taken, pool created, one range per process.
Seed(t, from) ==
  LET first == [w \in Procs |-> (from + w - 1) % Ranges] IN
  /\ gfree > 0
  /\ gfree' = gfree - 1
  /\ ranges' = [ranges EXCEPT ![t] = first]
  /\ next' = [next EXCEPT ![t] = (from + Workers) % Ranges]
  /\ given' = [given EXCEPT ![t] = Given({}, {first[w] : w \in Procs})]

SearchBegins(t) ==
  /\ pc[t] \in {"ackWait", "globalWait"}
  /\ Goto(t, IF pc[t] = "ackWait" THEN "ackSearch" ELSE "search")
  /\ IF NeedsGlobal(t)
     THEN \E from \in IF kind[t] = "plain" THEN Starts ELSE {0} : Seed(t, from)
     ELSE UNCHANGED searchVars
  /\ UNCHANGED <<kind, job, stops, stop, acquired, free, schedVars, outVars, envVars>>

\* No slot of the global semaphore within 30 s: solve raises.
GlobalTimeout(t) ==
  /\ pc[t] \in {"ackWait", "globalWait"}
  /\ NeedsGlobal(t)
  /\ gfree = 0
  /\ GoOn(t, Raised(t))
  /\ UNCHANGED <<stops, acquired, free, searchVars, schedVars,
                 outVars, envVars>>

\* The finally of solve.
EndSearch(t) ==
  IF NeedsGlobal(t)
  THEN /\ gfree' = gfree + 1
       /\ ranges' = [ranges EXCEPT ![t] = [w \in Procs |-> NoRange]]
       /\ next' = [next EXCEPT ![t] = 0]
       /\ given' = [given EXCEPT ![t] = {}]
  ELSE UNCHANGED searchVars

\* Only a call without stop event: an event goes into the arguments of
\* pool.submit and cannot be pickled, so its future raises at once.
Shippable(t) == kind[t] = "plain"

FutureFinds(t, w) ==
  /\ pc[t] \in Searching /\ NeedsGlobal(t)
  /\ Shippable(t)
  /\ ranges[t][w] \in Winning
  /\ Found(t)
  /\ EndSearch(t)
  /\ UNCHANGED <<acquired, free, schedVars, outVars, envVars>>

\* Mutant of NextStart: the range after the one that ended.
NextStartOwn(t, w) == (ranges[t][w] + 1) % Ranges

\* _started, the next range nobody was given.
NextStart(t, w) == next[t]

\* Mutant of Advance: the counter does not wrap at 2^64.
AdvanceClamped(n) == IF n + 1 < Ranges THEN n + 1 ELSE n

Advance(n) == (n + 1) % Ranges

\* A future that found nothing, or raised (nonce None), is replaced.
FutureEnds(t, w) ==
  /\ pc[t] \in Searching /\ NeedsGlobal(t)
  /\ ~ (Shippable(t) /\ ranges[t][w] \in Winning)
  /\ ranges' = [ranges EXCEPT ![t][w] = NextStart(t, w)]
  /\ next' = [next EXCEPT ![t] = Advance(@)]
  /\ given' = [given EXCEPT ![t] = Given(@, {NextStart(t, w)})]
  /\ UNCHANGED <<taskVars, gfree, schedVars, outVars, envVars>>

\* Mutant of StopSeen: only the solver of the tests looks at the event.
StopSeenMock(t) == t \in stop /\ pc[t] = "search" /\ strategy = "mock"

\* The event is looked at between two polls; the event of an ACK is never set.
StopSeen(t) == t \in stop /\ pc[t] = "search"

SearchStopped(t) ==
  /\ StopSeen(t)
  /\ GoOn(t, Raised(t))
  /\ EndSearch(t)
  /\ UNCHANGED <<stops, acquired, free, schedVars, outVars, envVars>>

\* MockPoWStrategy: a nonce, or RuntimeError after max_tries.
MockFinds(t) ==
  /\ pc[t] \in Searching /\ ~ NeedsGlobal(t)
  /\ t \notin stop
  /\ Found(t)
  /\ UNCHANGED <<acquired, free, searchVars, schedVars, outVars,
                 envVars>>

MockGivesUp(t) ==
  /\ pc[t] \in Searching /\ ~ NeedsGlobal(t)
  /\ GoOn(t, Raised(t))
  /\ UNCHANGED <<stops, acquired, free, searchVars, schedVars,
                 outVars, envVars>>

-----------------------------------------------------------------------------
(* done_cb                                                                   *)

Announce(t) ==
  /\ pc[t] = "announce"
  /\ announced' = announced \union ({job[t]} \ {NoJob})
  /\ Goto(t, IF kind[t] \in {"chan", "pubkey"} THEN "store" ELSE "leaving")
  /\ UNCHANGED <<kind, job, stops, stop, acquired, free, searchVars, schedVars, rows,
                 posted, envVars>>

\* The row of a channel post, or the object of our own key.
Store(t) ==
  /\ pc[t] = "store"
  /\ rows' = IF kind[t] = "chan" THEN rows \union ({job[t]} \ {NoJob}) ELSE rows
  /\ Goto(t, "leaving")
  /\ UNCHANGED <<kind, job, stops, stop, acquired, free, searchVars, schedVars,
                 announced, posted, envVars>>

\* add_message raises: the announced post is reported as cancelled.
StoreRaises(t) ==
  /\ pc[t] = "store" /\ kind[t] = "chan"
  /\ failures < MaxFailures
  /\ failures' = failures + 1
  /\ Goto(t, "failing")
  /\ UNCHANGED <<kind, job, stops, stop, acquired, free, searchVars, schedVars,
                 outVars, strategy, started, crashes>>

TaskStep(t) ==
  \/ Enter(t) \/ SlotTimeout(t) \/ SearchBegins(t)
  \/ GlobalTimeout(t) \/ SearchStopped(t) \/ MockFinds(t) \/ MockGivesUp(t)
  \/ FailPow(t) \/ Announce(t) \/ Store(t) \/ StoreRaises(t) \/ Leave(t)

ProcStep(t, w) == FutureFinds(t, w) \/ FutureEnds(t, w)

-----------------------------------------------------------------------------
(* Cancellation, stop, crash                                                 *)

\* cancel_pow, from the window that lists the tasks.
Cancel(t) ==
  /\ t \in stops
  /\ stop' = stop \union {t}
  /\ UNCHANGED <<pc, kind, job, stops, acquired, free, searchVars, schedVars, outVars,
                 envVars>>

\* cancel_all_pow: the button of that window.
CancelAll ==
  /\ stops # {}
  /\ stop' = stop \union stops
  /\ UNCHANGED <<pc, kind, job, stops, acquired, free, searchVars, schedVars, outVars,
                 envVars>>

\* Client.stop: the loops end, every listed task is cancelled.
Stop ==
  /\ started
  /\ started' = FALSE
  /\ stop' = stop \union stops
  /\ UNCHANGED <<pc, kind, job, stops, acquired, free, searchVars, schedVars, outVars,
                 strategy, crashes, failures>>

\* The process dies, at any point or after Stop, and is started again.
Crash ==
  /\ crashes < MaxCrashes
  /\ crashes' = crashes + 1
  /\ started' = TRUE
  /\ pc' = [t \in Tasks |-> "free"]
  /\ job' = [t \in Tasks |-> NoJob]
  /\ kind' = [t \in Tasks |-> "plain"]
  /\ stops' = {} /\ stop' = {} /\ acquired' = {}
  /\ free' = Slots /\ gfree' = Slots
  /\ ranges' = [t \in Tasks |-> [w \in Procs |-> NoRange]]
  /\ next' = [t \in Tasks |-> 0]
  /\ given' = [t \in Tasks |-> {}]
  /\ pending' = {} /\ marking' = NoJob
  /\ UNCHANGED <<strategy, sched, outVars, sends, dropped, failures>>

-----------------------------------------------------------------------------
(* Scheduled messages                                                        *)

Due(s) ==
  /\ sched[s] = "future"
  /\ sched' = [sched EXCEPT ![s] = "due"]
  /\ UNCHANGED <<taskVars, searchVars, pending, marking, sends, dropped, outVars,
                 envVars>>

\* Mutant of DueRows: rows that were sent before are not read again.
DueUnsent == {s \in Sched : sched[s] = "due" /\ sends[s] = 0}

\* get_pending_scheduled
DueRows == {s \in Sched : sched[s] = "due"}

\* _send_due_scheduled: the rows are read, then handled one by one.
ReadDue ==
  /\ started /\ pending = {} /\ marking = NoJob
  /\ DueRows # {}
  /\ pending' = DueRows
  /\ UNCHANGED <<taskVars, searchVars, sched, marking, sends, dropped, outVars, envVars>>

\* Mutant of Inserted: the worker of a letter inserts its row later.
InsertedLater(s, k) == IF k = "getpubkey" THEN rows \union {s} ELSE rows

Inserted(s, k) == IF k = "chan" THEN rows ELSE rows \union {s}

\* Whether the address is a subscribed channel is asked now.  broadcast_chan
\* answers "success" as soon as the task is registered; send_message once the
\* row is inserted, whatever its worker does.
SendDue(s) ==
  /\ started /\ marking = NoJob /\ s \in pending
  /\ sends[s] < MaxSends
  /\ \E t \in Tasks, k \in {"chan", "dm", "getpubkey"} :
       /\ Register(t, k, s)
       /\ rows' = Inserted(s, k)
       /\ posted' = IF k = "chan" THEN posted \union {s} ELSE posted
  /\ pending' = pending \ {s}
  /\ marking' = s
  /\ sends' = [sends EXCEPT ![s] = @ + 1]
  /\ UNCHANGED <<acquired, free, searchVars, sched, dropped, announced, envVars>>

\* Refused for good (too large, unsupported, no name) or its identity is gone.
RefuseDue(s) ==
  /\ started /\ marking = NoJob /\ s \in pending
  /\ pending' = pending \ {s}
  /\ marking' = s
  /\ dropped' = dropped \union {s}
  /\ UNCHANGED <<taskVars, searchVars, sched, sends, outVars, envVars>>

\* An exception: the row stays due for the next round, 30 s later.
SkipDue(s) ==
  /\ started /\ marking = NoJob /\ s \in pending
  /\ failures < MaxFailures
  /\ failures' = failures + 1
  /\ pending' = pending \ {s}
  /\ UNCHANGED <<taskVars, searchVars, sched, marking, sends, dropped, outVars,
                 strategy, started, crashes>>

\* Mutant of MarkDue: 'sent' is written for refusals only.
MarkRefused == IF marking \in dropped THEN [sched EXCEPT ![marking] = "sent"] ELSE sched

MarkDue == [sched EXCEPT ![marking] = "sent"]

\* _drop_scheduled
Mark ==
  /\ marking # NoJob
  /\ sched' = MarkDue
  /\ marking' = NoJob
  /\ UNCHANGED <<taskVars, searchVars, pending, sends, dropped, outVars, envVars>>

\* mark_scheduled_sent raises: swallowed, and the row is sent again.
MarkRaises ==
  /\ marking # NoJob
  /\ failures < MaxFailures
  /\ failures' = failures + 1
  /\ marking' = NoJob
  /\ UNCHANGED <<taskVars, searchVars, sched, pending, sends, dropped, outVars,
                 strategy, started, crashes>>

HandleDue == \E s \in Sched : SendDue(s) \/ RefuseDue(s) \/ SkipDue(s)
SenderStep == ReadDue \/ HandleDue \/ Mark \/ MarkRaises

Next ==
  \/ \E t \in Tasks :
       \/ \E k \in Kinds : Publish(t, k)
       \/ TaskStep(t) \/ Cancel(t)
       \/ \E w \in Procs : ProcStep(t, w)
  \/ \E s \in Sched : Due(s)
  \/ SenderStep
  \/ CancelAll \/ Stop \/ Crash

Spec == Init /\ [][Next]_vars

\* Threads are scheduled, acquire with a timeout returns, the loop of the sender
\* comes round.  Nothing is assumed of users.
Fairness ==
  /\ \A t \in Tasks : WF_vars(TaskStep(t))
  /\ \A s \in Sched : WF_vars(Due(s))
  /\ WF_vars(SenderStep)

\* The processes of a search run too.
Searched == \A t \in Tasks, w \in Procs : WF_vars(ProcStep(t, w))

FairSpec == Spec /\ Fairness
SearchSpec == FairSpec /\ Searched

-----------------------------------------------------------------------------
(* Properties                                                                *)

TypeOK ==
  /\ strategy \in Strategies
  /\ started \in BOOLEAN
  /\ pc \in [Tasks -> PCs]
  /\ kind \in [Tasks -> AllKinds]
  /\ job \in [Tasks -> Sched \union {NoJob}]
  /\ stops \subseteq Tasks /\ stop \subseteq Tasks /\ acquired \subseteq Tasks
  /\ free \in 0..Slots /\ gfree \in 0..Slots
  /\ ranges \in [Tasks -> [Procs -> Starts \union {NoRange}]]
  /\ next \in [Tasks -> Starts]
  /\ given \in [Tasks -> SUBSET Starts]
  /\ sched \in [Sched -> {"future", "due", "sent"}]
  /\ pending \subseteq Sched
  /\ marking \in Sched \union {NoJob}
  /\ announced \subseteq Sched /\ rows \subseteq Sched
  /\ posted \subseteq Sched /\ dropped \subseteq Sched
  /\ sends \in [Sched -> 0..MaxSends]
  /\ crashes \in 0..MaxCrashes /\ failures \in 0..MaxFailures

\* Both semaphores count exactly the threads inside: whatever raises, times
\* out or is cancelled, a slot comes back once (the two finally blocks).
SlotsExact ==
  /\ free = Slots - Cardinality(acquired)
  /\ gfree = Slots - Cardinality({t \in Tasks : pc[t] \in Searching /\ NeedsGlobal(t)})

\* What is running can be cancelled and what is listed is running: the table
\* lists exactly the threads between their registration and their outcome.
ListedIsAlive ==
  stops = {t \in Tasks : kind[t] # "plain" /\
             pc[t] \in {"tracked", "globalWait", "search"}}
          \union {t \in stops : pc[t] = "failing"}

\* The book-keeping of the tasks is exact: slots and the table of stop events,
\* in a state that is well typed.
TasksExact == TypeOK /\ SlotsExact /\ ListedIsAlive

\* The processes of a search divide the nonces: no range is searched twice
\* before all were given out, however the futures end (_started).
NoRangeTwice ==
  [][\A t \in Tasks, w \in Procs :
       pc[t] \in Searching /\ pc'[t] = pc[t] /\ ranges'[t] # ranges[t]
         => ranges'[t][w] \in {ranges[t][w]} \union (Starts \ given[t])]_vars

\* A scheduled message goes out once, and again only after a crash or a
\* failing write, although it is sent first and marked later.
SentOnce == \A s \in Sched : sends[s] <= 1 + crashes + failures

\* A scheduled direct message is not marked before its row exists, so that a
\* crash leaves it with the retry loop.
MarkedHasRow ==
  \A s \in Sched : sched[s] = "sent" => s \in rows \union posted \union dropped

\* A cancelled task ends and gives its slots back, wherever it is: waiting
\* for a slot, searching, or not even registered by its thread.
CancelEnds == \A t \in Tasks : (t \in stop /\ t \in stops) ~> (pc[t] = "free")

\* Beyond the listed runs (MCPublishingLive.cfg): a due row does not stay due,
\* unless the client was stopped.
DueResolves == \A s \in Sched : (sched[s] = "due") ~> (sched[s] = "sent" \/ ~ started)

-----------------------------------------------------------------------------
(* What the repository says and the code does not do (see README, findings)  *)

\* standard.py:55: _search_range supports cooperative cancellation through an
\* inheritable Event.  With an event no range is ever searched.
SearchEnds == \A t \in Tasks : (pc[t] = "search") ~> (pc[t] # "search")

\* README.md:411: what is pending when the program closes is sent when it is
\* opened again.  A channel post is marked before its nonce is found.
MarkedIsPublished ==
  \A s \in Sched : sched[s] = "sent" ~> s \in announced \union dropped
=============================================================================
