------------------------------ MODULE Updater -------------------------------
(***************************************************************************)
(* The self-update of update.py and gui/app.py: checks started by the      *)
(* start-up, a timer or the user, the three flags their threads share with *)
(* the window, the git commands, the results that travel through the UI    *)
(* queue, the restart 800 ms after a success and the draft carried across  *)
(* it.  Commits are numbers: the branch on the server only moves forward.  *)
(* Git and its repository are external; each command is one step.          *)
(***************************************************************************)
EXTENDS Integers, Sequences, SequencesExt

CONSTANTS
  Threads,    \* names for the update threads alive at one time (bound)
  Texts,      \* what the user may leave in the input field
  NoText,
  MaxCommit,  \* bound: commits published during a behaviour
  MaxLost,    \* bound: events the full UI queue drops
  Cap         \* bound: events of the updater waiting in the UI queue

UpdaterAssumption ==
  /\ MaxCommit \in Nat /\ MaxLost \in Nat /\ Cap \in Nat
  /\ NoText \notin Texts

Flags == {"checking", "applying", "auto"}
Events == {"offer", "nothing", "done", "failed"}   \* what a queued event asks of the window
Checking == {"autoFetch", "manualFetch"}
Applying == {"clean", "fetch", "merge", "tell"}
PCs == {"free", "autoCheck", "autoMark", "autoDecide", "autoSet"} \union Checking \union Applying

VARIABLES
  remote,     \* newest commit on the server
  fetched,    \* @{u}: newest commit known locally
  head,       \* commit checked out, without the user's own commits
  ahead,      \* the user has commits of his own
  dirty,      \* git status --porcelain is not empty
  running,    \* commit the running process was started from
  flags,      \* App._update_checking, _update_applying, _update_auto
  pc, result, \* update threads; result[t]: what perform_update returned
  queue,      \* update events in Client.ui_queue
  offered,    \* the modal question of _offer_update is open
  timer,      \* after(800, _restart_after_update) is pending
  phase,      \* "up", "closed", "boot" (before the draft is restored), "stranded"
  input,      \* text in the input field
  saved,      \* setting pending_draft
  carried,    \* history: the input at the last exec
  stale,      \* history: a restart failed after it saved the draft
  lost

gitVars == <<remote, fetched, head, ahead, dirty, running>>
workVars == <<flags, pc, result>>
uiVars == <<offered, timer, phase>>
draftVars == <<input, saved, carried, stale>>
vars == <<gitVars, workVars, queue, uiVars, draftVars, lost>>

Init ==
  /\ remote = 0 /\ fetched = 0 /\ head = 0 /\ running = 0
  /\ ahead = FALSE /\ dirty = FALSE
  /\ flags = {} /\ queue = <<>>
  /\ pc = [t \in Threads |-> "free"]
  /\ result = [t \in Threads |-> FALSE]
  /\ offered = FALSE /\ timer = FALSE /\ phase = "up"
  /\ input = NoText /\ saved = NoText /\ carried = NoText /\ stale = FALSE
  /\ lost = 0

Goto(t, l) == pc' = [pc EXCEPT ![t] = l]
Put(e) == Len(queue) < Cap /\ queue' = Append(queue, e)

\* _divergence_result: only a checkout that is behind and has no commits of
\* its own is offered an update.
Available(known) == known > head /\ ~ ahead

-----------------------------------------------------------------------------
(* The automatic check: start-up and timer                                   *)

\* _periodic_update_fire, _startup_step_live
StartAuto(t) ==
  /\ phase = "up" /\ pc[t] = "free"
  /\ Goto(t, "autoCheck")
  /\ UNCHANGED <<gitVars, flags, result, queue, uiVars, draftVars, lost>>

\* The flags are read first ...
AutoCheck(t) ==
  /\ pc[t] = "autoCheck"
  /\ Goto(t, IF phase = "closed" \/ flags \intersect {"checking", "applying"} # {}
             THEN "free" ELSE "autoMark")
  /\ UNCHANGED <<gitVars, flags, result, queue, uiVars, draftVars, lost>>

\* ... and set later: two checks may pass together.
AutoMark(t) ==
  /\ pc[t] = "autoMark"
  /\ flags' = flags \union {"checking"}
  /\ Goto(t, "autoFetch")
  /\ UNCHANGED <<gitVars, result, queue, uiVars, draftVars, lost>>

CheckEnds == flags' = flags \ {"checking"}

AutoFetch(t) ==
  /\ pc[t] = "autoFetch"
  /\ CheckEnds
  /\ fetched' \in {fetched, remote}
  /\ Goto(t, IF Available(fetched') /\ phase # "closed" THEN "autoDecide" ELSE "free")
  /\ UNCHANGED <<remote, head, ahead, dirty, running, result, queue, uiVars, draftVars, lost>>

\* _handle_auto_check_result; the setting auto_update is read here.
AutoOffer(t) ==
  /\ pc[t] = "autoDecide"
  /\ Put("offer")
  /\ Goto(t, "free")
  /\ UNCHANGED <<gitVars, flags, result, uiVars, draftVars, lost>>

AutoDecide(t) ==
  /\ pc[t] = "autoDecide"
  /\ Goto(t, IF dirty \/ phase = "closed" \/ "applying" \in flags THEN "free" ELSE "autoSet")
  /\ UNCHANGED <<gitVars, flags, result, queue, uiVars, draftVars, lost>>

AutoSet(t) ==
  /\ pc[t] = "autoSet"
  /\ flags' = flags \union {"applying", "auto"}
  /\ Goto(t, "clean")
  /\ UNCHANGED <<gitVars, result, queue, uiVars, draftVars, lost>>

-----------------------------------------------------------------------------
(* The check the user asks for                                               *)

ManualCheck(t) ==
  /\ phase = "up" /\ ~ offered /\ pc[t] = "free"
  /\ flags \intersect {"checking", "applying"} = {}
  /\ flags' = flags \union {"checking"}
  /\ Goto(t, "manualFetch")
  /\ UNCHANGED <<gitVars, result, queue, uiVars, draftVars, lost>>

ManualFetch(t) ==
  /\ pc[t] = "manualFetch"
  /\ CheckEnds
  /\ fetched' \in {fetched, remote}
  /\ \/ Put(IF Available(fetched') THEN "offer" ELSE "nothing")
     \/ Put("nothing")                     \* fetch failed, no upstream
  /\ Goto(t, "free")
  /\ UNCHANGED <<remote, head, ahead, dirty, running, result, uiVars, draftVars, lost>>

-----------------------------------------------------------------------------
(* perform_update                                                            *)

Ends(t, ok) == Goto(t, "tell") /\ result' = [result EXCEPT ![t] = ok]

Clean(t) ==
  /\ pc[t] = "clean"
  /\ IF dirty THEN Ends(t, FALSE) ELSE Goto(t, "fetch") /\ UNCHANGED result
  /\ UNCHANGED <<gitVars, flags, queue, uiVars, draftVars, lost>>

Fetch(t) ==
  /\ pc[t] = "fetch"
  /\ \/ fetched' = remote /\ Goto(t, "merge") /\ UNCHANGED result
     \/ UNCHANGED fetched /\ Ends(t, FALSE)
  /\ UNCHANGED <<remote, head, ahead, dirty, running, flags, queue, uiVars, draftVars, lost>>

\* git merge --ff-only refuses when both sides have commits; nothing to merge
\* counts as success.  Edits made since the clean check stay: git refuses
\* when they overlap.
Merge(t) ==
  /\ pc[t] = "merge"
  /\ \/ fetched <= head /\ UNCHANGED head /\ Ends(t, TRUE)
     \/ fetched > head /\ ~ ahead /\ head' = fetched /\ Ends(t, TRUE)
     \/ fetched > head /\ UNCHANGED head /\ Ends(t, FALSE)
  /\ UNCHANGED <<remote, fetched, ahead, dirty, running, flags, queue, uiVars, draftVars, lost>>

Tell(t) ==
  /\ pc[t] = "tell"
  /\ Put(IF result[t] THEN "done" ELSE "failed")
  /\ Goto(t, "free")
  /\ UNCHANGED <<gitVars, flags, result, uiVars, draftVars, lost>>

ThreadStep(t) ==
  \/ AutoCheck(t) \/ AutoMark(t) \/ AutoFetch(t) \/ AutoOffer(t) \/ AutoDecide(t) \/ AutoSet(t)
  \/ ManualFetch(t) \/ Clean(t) \/ Fetch(t) \/ Merge(t) \/ Tell(t)

-----------------------------------------------------------------------------
(* The window                                                                *)

\* Mutant of Finished: a failure leaves the flags as they are.
FinishedOnSuccess(e) == flags' = IF e = "done" THEN flags \ {"applying", "auto"} ELSE flags

\* _on_update_result clears both flags, whoever else is applying.
Finished(e) == e \in Events /\ flags' = flags \ {"applying", "auto"}

\* _drain_events, one event: an open question suspends the polling.
HandleEvent ==
  /\ phase = "up" /\ ~ offered /\ queue # <<>>
  /\ queue' = Tail(queue)
  /\ LET e == Head(queue) IN
       \/ e = "offer" /\ offered' = ("applying" \notin flags) /\ UNCHANGED <<flags, timer>>
       \/ e = "nothing" /\ UNCHANGED <<flags, offered, timer>>
       \/ /\ e \in {"done", "failed"}
          /\ Finished(e)
          /\ timer' = (timer \/ e = "done")
          /\ UNCHANGED offered
  /\ UNCHANGED <<gitVars, pc, result, phase, draftVars, lost>>

\* The answer to the question: the flag is set without a second look at it.
Answer ==
  /\ phase = "up" /\ offered
  /\ offered' = FALSE
  /\ \/ UNCHANGED <<flags, pc>>
     \/ \E t \in Threads : pc[t] = "free" /\ Goto(t, "clean") /\ flags' = flags \union {"applying"}
  /\ UNCHANGED <<gitVars, result, queue, timer, phase, draftVars, lost>>

\* A new process: run.py reads what is checked out.
Booted ==
  /\ running' = head
  /\ phase' = "boot"
  /\ pc' = [t \in Threads |-> "free"]
  /\ result' = [t \in Threads |-> FALSE]
  /\ flags' = {} /\ queue' = <<>> /\ offered' = FALSE /\ timer' = FALSE
  /\ input' = NoText
  /\ UNCHANGED <<remote, fetched, head, ahead, dirty, lost>>

\* _restart_after_update with run.py in place: the client stops, execv.
Restart ==
  /\ timer /\ phase = "up"
  /\ saved' = input
  /\ carried' = input
  /\ Booted
  /\ UNCHANGED stale

\* run.py is gone: the client is stopped already and the user is told.
RestartFails ==
  /\ timer /\ phase = "up"
  /\ saved' = input
  /\ stale' = TRUE
  /\ phase' = "stranded"
  /\ timer' = FALSE
  /\ UNCHANGED <<gitVars, workVars, queue, offered, input, carried, lost>>

Taken == saved' = NoText

\* _restore_pending_draft, once the list of conversations is there.
RestoreDraft ==
  /\ phase = "boot"
  /\ phase' = "up"
  /\ input' = saved
  /\ Taken
  /\ carried' = NoText /\ stale' = FALSE
  /\ UNCHANGED <<gitVars, workVars, queue, offered, timer, lost>>

Close ==
  /\ phase \in {"up", "stranded"}
  /\ phase' = "closed"
  /\ offered' = FALSE /\ timer' = FALSE
  /\ UNCHANGED <<gitVars, workVars, queue, draftVars, lost>>

\* The user starts the program; threads that outlived the window are gone.
Start ==
  /\ phase = "closed"
  /\ Booted
  /\ carried' = NoText
  /\ UNCHANGED <<saved, stale>>

-----------------------------------------------------------------------------
(* The environment: the user, the server, a full queue                       *)

Type ==
  /\ phase = "up"
  /\ input' \in Texts \union {NoText}
  /\ UNCHANGED <<gitVars, workVars, queue, uiVars, saved, carried, stale, lost>>

Edit ==
  /\ dirty' = ~ dirty
  /\ UNCHANGED <<remote, fetched, head, ahead, running, workVars, queue, uiVars, draftVars, lost>>

CommitOwn ==
  /\ dirty /\ ~ ahead
  /\ ahead' = TRUE /\ dirty' = FALSE
  /\ UNCHANGED <<remote, fetched, head, running, workVars, queue, uiVars, draftVars, lost>>

Publish ==
  /\ remote < MaxCommit
  /\ remote' = remote + 1
  /\ UNCHANGED <<fetched, head, ahead, dirty, running, workVars, queue, uiVars, draftVars, lost>>

\* Other events fill the queue and push one of these out.
Lose ==
  /\ lost < MaxLost /\ queue # <<>>
  /\ queue' = Tail(queue)
  /\ lost' = lost + 1
  /\ UNCHANGED <<gitVars, workVars, uiVars, draftVars>>

Next ==
  \/ \E t \in Threads : StartAuto(t) \/ ManualCheck(t) \/ ThreadStep(t)
  \/ HandleEvent \/ Answer \/ Restart \/ RestartFails \/ RestoreDraft
  \/ Close \/ Start \/ Type \/ Edit \/ CommitOwn \/ Publish \/ Lose

Spec == Init /\ [][Next]_vars

-----------------------------------------------------------------------------
(* Properties                                                                *)

TypeOK ==
  /\ remote \in 0..MaxCommit /\ fetched \in 0..remote /\ head \in 0..fetched
  /\ running \in 0..head
  /\ ahead \in BOOLEAN /\ dirty \in BOOLEAN
  /\ flags \subseteq Flags
  /\ pc \in [Threads -> PCs] /\ result \in [Threads -> BOOLEAN]
  /\ queue \in BoundedSeq(Events, Cap)
  /\ offered \in BOOLEAN /\ timer \in BOOLEAN
  /\ phase \in {"up", "closed", "boot", "stranded"}
  /\ {input, saved, carried} \subseteq Texts \union {NoText}
  /\ stale \in BOOLEAN
  /\ lost \in 0..MaxLost

\* No flag outlives the work it stands for, or every later check would find
\* an update under way until the program is restarted: checks that overlap,
\* answers that come late, failures and restarts included.  An update result
\* the full queue dropped is the exception.
FlagsEnd ==
  /\ "checking" \in flags => \E t \in Threads : pc[t] \in Checking
  /\ "applying" \in flags => \/ \E t \in Threads : pc[t] \in Applying
                             \/ Contains(queue, "done") \/ Contains(queue, "failed")
                             \/ lost > 0

\* The text in the input field survives the restart of an update, and a
\* start of any other kind restores nothing (pending_draft, used once).
DraftOnce == phase = "boot" /\ ~ stale => saved = carried

\* What the updater keeps right whatever overlaps with it.
UpdateSafe == FlagsEnd /\ DraftOnce
=============================================================================
