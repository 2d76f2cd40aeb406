------------------------------ MODULE UiQueue -------------------------------
(***************************************************************************)
(* How what the client's threads store reaches the window: the bounded     *)
(* ui_queue whose put coalesces and drops (Client.__init__), the emitter   *)
(* that calls the window's handlers in the thread that puts, and the       *)
(* window's poll, debounced refresh and event handlers (gui/app.py).       *)
(* A thread writes to the database first and puts its event afterwards.    *)
(* Two views show the data: the list of conversations and the open chat.   *)
(* Both are versions: a view is fresh when it shows the version stored.    *)
(***************************************************************************)
EXTENDS Integers, Sequences, SequencesExt, FiniteSets

CONSTANTS
  Threads,    \* the client's threads that put events; each one is its own PoW token
  Main,       \* the main thread, which puts events too (a contact added, a resend)
  Idle,
  Cap,        \* ui_queue's maxsize: 1000 in the code
  MaxWrites   \* bound: writes to the database

UiQueueAssumption == Main \notin Threads /\ Cap \in Nat \ {0} /\ MaxWrites \in Nat

Putters == Threads \union {Main}

\* Kinds of events, by what their handler does (_handle_event): "message"
\* (also broadcast, pubkey, status) schedules a refresh of both views,
\* "ack" (also broadcast-sent) reloads the chat, "contact" (also identities,
\* subscriptions) the list, "question" opens a dialog (update-available),
\* "progress" shows a rate.
Kinds == {"message", "ack", "contact", "question", "progress"}
Both == {"list", "chat"}
Touches(k) == CASE k = "message" -> Both [] k = "ack" -> {"chat"}
                [] k = "contact" -> {"list"} [] OTHER -> {}

Event(k, t) == [kind |-> k, by |-> IF k = "progress" THEN t ELSE Main]
Events == [kind : Kinds, by : Putters]

VARIABLES
  data,     \* data[v]: version of what view v shows, in the database
  shown,    \* shown[v]: version the window shows
  queue,    \* Client.ui_queue
  pc,       \* pc[t]: step of a thread's put: "idle", "coalesce", "put", "evict", "again", "emit"
  event,    \* event[t]: the event it puts
  pending,  \* _refresh_after is set
  redraw,   \* the views the running refresh has not reloaded yet
  polling,  \* the main thread is inside _drain_events
  dialog,   \* a dialog opened by an event is still open: polling waits, timers run
  closed,
  lost,     \* history: an event other than progress was dropped
  writes

vars == <<data, shown, queue, pc, event, pending, redraw, polling, dialog, closed, lost, writes>>
putVars == <<pc, event>>
winVars == <<pending, redraw, polling, dialog, closed>>

Init ==
  /\ data = [v \in Both |-> 0] /\ shown = [v \in Both |-> 0]
  /\ queue = <<>>
  /\ pc = [t \in Putters |-> "idle"]
  /\ event = [t \in Putters |-> Idle]
  /\ pending = FALSE /\ redraw = {} /\ polling = FALSE /\ dialog = FALSE /\ closed = FALSE
  /\ lost = FALSE /\ writes = 0

Goto(t, l) == pc' = [pc EXCEPT ![t] = l]

\* The main thread does one thing at a time; a dialog lets its timers run.
MainFree == pc[Main] = "idle" /\ redraw = {} /\ (polling => dialog)

-----------------------------------------------------------------------------
(* A put: _put_and_emit                                                      *)

\* The row is written, then the event is put.
Write(t, k) ==
  /\ pc[t] = "idle" /\ writes < MaxWrites
  /\ t = Main => MainFree /\ ~ closed /\ k \in {"message", "contact"}
  /\ writes' = writes + 1
  /\ data' = [v \in Both |-> IF v \in Touches(k) THEN writes + 1 ELSE data[v]]
  /\ event' = [event EXCEPT ![t] = Event(k, t)]
  /\ Goto(t, IF k = "progress" THEN "coalesce" ELSE "put")
  /\ UNCHANGED <<shown, queue, winVars, lost>>

\* Under the queue's mutex: the older progress of the same token goes, the
\* others keep their order.
Older(e) ==
  LET kept == {i \in DOMAIN queue : queue[i] # e} IN
  [k \in 1..Cardinality(kept) |->
     queue[CHOOSE i \in kept : Cardinality({j \in kept : j <= i}) = k]]

Coalesce(t) ==
  /\ pc[t] = "coalesce"
  /\ queue' = Older(event[t])
  /\ Goto(t, "put")
  /\ UNCHANGED <<data, shown, event, winVars, lost, writes>>

\* A progress (or a log) gives way when the queue is full.
Gives(e) == e.kind = "progress"

PutEvent(t) ==
  /\ pc[t] = "put"
  /\ IF Len(queue) < Cap
     THEN queue' = Append(queue, event[t]) /\ Goto(t, "emit")
     ELSE UNCHANGED queue /\ Goto(t, IF Gives(event[t]) THEN "emit" ELSE "evict")
  /\ UNCHANGED <<data, shown, event, winVars, lost, writes>>

\* The oldest event goes; the window may have emptied the queue meanwhile.
Evict(t) ==
  /\ pc[t] = "evict"
  /\ queue' = IF queue = <<>> THEN queue ELSE Tail(queue)
  /\ lost' = (lost \/ (queue # <<>> /\ Head(queue).kind # "progress"))
  /\ Goto(t, "again")
  /\ UNCHANGED <<data, shown, event, winVars, writes>>

\* Another thread may have taken the room: then this event is dropped too.
PutAgain(t) ==
  /\ pc[t] = "again"
  /\ IF Len(queue) < Cap
     THEN queue' = Append(queue, event[t]) /\ UNCHANGED lost
     ELSE UNCHANGED queue /\ lost' = TRUE
  /\ Goto(t, "emit")
  /\ UNCHANGED <<data, shown, event, winVars, writes>>

Refreshed(v) == shown' = [shown EXCEPT ![v] = data[v]]

\* Mutant of Handle: the chat is not refreshed with the list.
HandleListOnly(e) ==
  CASE e.kind = "message" -> Refreshed("list") /\ UNCHANGED <<pending, dialog>>
    [] e.kind = "ack" -> Refreshed("chat") /\ UNCHANGED <<pending, dialog>>
    [] OTHER -> UNCHANGED <<shown, pending, dialog>>

\* _handle_event
Handle(e) ==
  \/ e.kind = "message" /\ pending' = TRUE /\ UNCHANGED <<shown, dialog>>
  \/ e.kind = "ack" /\ Refreshed("chat") /\ UNCHANGED <<pending, dialog>>
  \/ e.kind = "contact" /\ Refreshed("list") /\ UNCHANGED <<pending, dialog>>
  \/ e.kind = "question" /\ dialog' = TRUE /\ UNCHANGED <<shown, pending>>
  \/ e.kind = "progress" /\ UNCHANGED <<shown, pending, dialog>>

\* The window's listeners act in the main thread only.
ListenerActs(t) == t = Main

\* The listeners are called in the putting thread: the main thread handles its
\* own events twice.
Emit(t) ==
  /\ pc[t] = "emit"
  /\ IF ListenerActs(t) THEN Handle(event[t]) ELSE UNCHANGED <<shown, pending, dialog>>
  /\ Goto(t, "idle")
  /\ event' = [event EXCEPT ![t] = Idle]
  /\ UNCHANGED <<data, queue, redraw, polling, closed, lost, writes>>

PutStep(t) == Coalesce(t) \/ PutEvent(t) \/ Evict(t) \/ PutAgain(t) \/ Emit(t)

-----------------------------------------------------------------------------
(* The window's main loop                                                    *)

\* _poll, every 250 ms
Poll ==
  /\ ~ closed /\ ~ polling /\ MainFree
  /\ polling' = TRUE
  /\ UNCHANGED <<data, shown, queue, putVars, pending, redraw, dialog, closed, lost, writes>>

Drain ==
  /\ polling /\ ~ dialog /\ redraw = {} /\ queue # <<>>
  /\ queue' = Tail(queue)
  /\ Handle(Head(queue))
  /\ UNCHANGED <<data, putVars, redraw, polling, closed, lost, writes>>

PollEnds ==
  /\ polling /\ ~ dialog /\ redraw = {} /\ queue = <<>>
  /\ polling' = FALSE
  /\ UNCHANGED <<data, shown, queue, putVars, pending, redraw, dialog, closed, lost, writes>>

\* The dialog closes and the poll that opened it goes on.
Answer ==
  /\ dialog /\ redraw = {} /\ pc[Main] = "idle"
  /\ dialog' = FALSE
  /\ UNCHANGED <<data, shown, queue, putVars, pending, redraw, polling, closed, lost, writes>>

\* _do_refresh, 200 ms after the last request: the list, then the chat.
Refresh ==
  /\ pending /\ ~ closed /\ MainFree
  /\ pending' = FALSE
  /\ redraw' = Both
  /\ UNCHANGED <<data, shown, queue, putVars, polling, dialog, closed, lost, writes>>

Redraw(v) ==
  /\ v \in redraw
  /\ v = "chat" => redraw = {"chat"}
  /\ Refreshed(v)
  /\ redraw' = redraw \ {v}
  /\ UNCHANGED <<data, queue, putVars, pending, polling, dialog, closed, lost, writes>>

\* _on_close: the timers are cancelled, nothing is polled any more.
Close ==
  /\ ~ closed /\ MainFree
  /\ closed' = TRUE /\ pending' = FALSE
  /\ UNCHANGED <<data, shown, queue, putVars, redraw, polling, dialog, lost, writes>>

Next ==
  \/ \E t \in Putters, k \in Kinds : Write(t, k)
  \/ \E t \in Putters : PutStep(t)
  \/ Poll \/ Drain \/ PollEnds \/ Answer \/ Refresh \/ (\E v \in Both : Redraw(v)) \/ Close

Spec == Init /\ [][Next]_vars

-----------------------------------------------------------------------------
(* Properties                                                                *)

TypeOK ==
  /\ data \in [Both -> 0..MaxWrites] /\ shown \in [Both -> 0..MaxWrites]
  /\ queue \in BoundedSeq(Events, Cap)
  /\ pc \in [Putters -> {"idle", "coalesce", "put", "evict", "again", "emit"}]
  /\ event \in [Putters -> Events \union {Idle}]
  /\ pending \in BOOLEAN /\ redraw \subseteq Both
  /\ polling \in BOOLEAN /\ dialog \in BOOLEAN /\ closed \in BOOLEAN /\ lost \in BOOLEAN
  /\ writes \in 0..MaxWrites

\* On its way: a thread has written and not put yet, the event waits, or the
\* refresh it asked for does.
UnderWay(v) ==
  \/ v \in redraw
  \/ pending
  \/ \E t \in Putters : pc[t] # "idle" /\ v \in Touches(event[t].kind)
  \/ \E i \in 1..Len(queue) : v \in Touches(queue[i].kind)

\* While the window is open a view that is out of date has its refresh under
\* way, whatever writes between the reads of a refresh or during a dialog;
\* only an event dropped by the full queue leaves it stale.
NoStaleView ==
  \A v \in Both : ~ closed /\ ~ lost /\ shown[v] # data[v] => UnderWay(v)

\* One progress per search waits in the queue, so that progress alone never
\* pushes messages out.
OneProgress ==
  \A t \in Threads :
    Cardinality({i \in 1..Len(queue) : queue[i] = Event("progress", t)}) <= 1

ViewFresh == NoStaleView /\ OneProgress
=============================================================================
