----------------------------- MODULE Connections -----------------------------
(***************************************************************************)
(* Outgoing connections: net/manager.py dials, watches, evicts and trims,  *)
(* net/peer.py runs one thread per connection, net/peers.py remembers how  *)
(* each address behaved.  The maintenance thread, the threads that         *)
(* reconnect after a wipe, the wiping thread, the thread that stops and    *)
(* restarts the network, and the connection threads share the table        *)
(* manager.connections and the peer store; each critical section is a step.*)
(*                                                                         *)
(* Connection objects are slots that are used again.  The rating of a peer *)
(* decides two things, the order of candidates and, when negative, whether *)
(* the backoff window applies: both are left open here.  Clocks are ages.  *)
(***************************************************************************)
EXTENDS Naturals, FiniteSets

CONSTANTS
  Peers,          \* addresses
  Answering,      \* peers that may send messages; the others never complete one
  Good,           \* answering peers that finish every handshake in time
  Gossip,         \* peers that seeds and addr messages name again
  Conns,          \* bound: connection objects in use at a time
  NoConn, NoPeer,
  Maints,         \* maintenance threads: one, and those a restart leaves or starts
  Kickers,        \* the net-resync threads of _kick_reconnect
  MaxConnections, \* 8 by default
  Extra,          \* BOOT_EXTRA_SLOTS, 6 in the code
  MaxFails,       \* MAX_CONSECUTIVE_FAILURES, 5 in the code
  MaxPeers,       \* 5000 in the code
  MaxWipes,       \* bound: wipes in a behaviour
  MaxStops,       \* bound: stops (and restarts) in a behaviour
  MaxUpsets,      \* bound: wipes and stops together
  MaxUnstarted    \* bound: threads that cannot be started in a behaviour

ASSUME PeersAssumption ==
  /\ Good \subseteq Answering /\ Answering \subseteq Peers /\ Gossip \subseteq Peers
  /\ NoPeer \notin Peers /\ IsFiniteSet(Peers)
ASSUME ConnsAssumption == NoConn \notin Conns /\ IsFiniteSet(Conns)
ASSUME ThreadsAssumption == Maints \intersect Kickers = {} /\ IsFiniteSet(Maints)
ASSUME BoundsAssumption ==
  /\ MaxConnections \in Nat \ {0} /\ Extra \in Nat
  /\ MaxFails \in Nat \ {0} /\ MaxPeers \in Nat \ {0}
  /\ MaxWipes \in Nat /\ MaxStops \in Nat /\ MaxUpsets \in Nat
  /\ MaxUnstarted \in Nat

Threads == Maints \union Kickers
Cap == MaxConnections + Extra

Phases == {"free", "created", "stillborn", "dialing", "handshake", "reading",
           "useful", "ending", "record"}
ThreadPCs == {"off", "top", "prefer", "best", "reap", "stalled", "evict", "trim"}

VARIABLES
  connections, \* manager.connections: [Peers -> the registered connection]
  phase,       \* phase[c]: where the thread of connection c is
  peerOf,      \* peerOf[c]: the address c was made for
  established,
  closing,     \* close() was called
  age,         \* 0; 1 past the handshake or trial limit; 2 past SILENT_TIMEOUT;
               \* of interest until the peer has sent something useful
  store,       \* addresses in PeerStore.entries
  fails,       \* fail_count
  cool,        \* addresses inside their backoff window
  dropped,     \* resync["dropped"] while the re-sync is active
  gone,        \* addresses dropped by the wipe that is under way
  pc,          \* pc[t]: where ensure / maintenance thread t is
  goal,        \* goal[t]: dials still to make in this pass
  current,     \* current[t]: its snapshot of the connected addresses
  cands,       \* cands[t]: candidates of the list it works through
  fresh,       \* fresh[t]: connection registered and not started yet
  todo,        \* todo[t]: connections of the pruning list not looked at yet
  victim,      \* victim[t]: stalled connection about to be evicted
  generation,  \* generation of the network; genOf[t]: the one t was started for
  genOf,
  running,
  wipe,        \* the wiping thread: "idle" or "mark"
  stop,        \* the stopping thread: "idle", "clear" or "start"
  lost,        \* history: lost[p]: failed connections to p since its count was reset
  counted,     \* history: connections counted in lost
  bounds       \* wipes, stops and unstarted threads so far

connVars == <<phase, peerOf, established, closing, age>>
storeVars == <<store, fails, cool, lost, counted>>
passVars == <<pc, goal, current, cands, fresh, todo, victim, genOf>>
netVars == <<dropped, gone, generation, running, wipe, stop, bounds>>
vars == <<connections, connVars, storeVars, passVars, netVars>>

-----------------------------------------------------------------------------
Init ==
  /\ connections = [p \in Peers |-> NoConn]
  /\ phase = [c \in Conns |-> "free"]
  /\ peerOf = [c \in Conns |-> NoPeer]
  /\ established = {} /\ closing = {}
  /\ age = [c \in Conns |-> 0]
  /\ store \in {S \in SUBSET Peers : Cardinality(S) <= MaxPeers}
  /\ fails = [p \in Peers |-> 0]
  /\ cool = {}
  /\ dropped = {} /\ gone = {}
  /\ \E m \in Maints : pc = [t \in Threads |-> IF t = m THEN "top" ELSE "off"]
  /\ goal = [t \in Threads |-> 0]
  /\ current = [t \in Threads |-> {}]
  /\ cands = [t \in Threads |-> {}]
  /\ fresh = [t \in Threads |-> NoConn]
  /\ todo = [t \in Threads |-> {}]
  /\ victim = [t \in Threads |-> NoConn]
  /\ generation = 0
  /\ genOf = [t \in Threads |-> 0]
  /\ running = TRUE
  /\ wipe = "idle" /\ stop = "idle"
  /\ lost = [p \in Peers |-> 0]
  /\ counted = {}
  /\ bounds = [wipes |-> 0, stops |-> 0, unstarted |-> 0]

Mapped == {connections[p] : p \in Peers} \ {NoConn}
Reading(c) == phase[c] \in {"reading", "useful"}
Running(c) == phase[c] \in {"dialing", "handshake"} \/ Reading(c)
Waits(c) == phase[c] = "handshake" \/ Reading(c)
Alive(c) == Running(c) \/ phase[c] \in {"ending", "record"}
Goto(t, l) == pc' = [pc EXCEPT ![t] = l]

-----------------------------------------------------------------------------
(* PeerStore                                                                 *)

\* Mutant of Touch: an address that was removed gets a new record.
TouchAnyway(p) == cool' = cool \union {p}

\* last_try is set.  Where the rating lets no window apply, CoolEnds is next.
Touch(p) == cool' = IF p \in store THEN cool \union {p} ELSE cool

\* record_attempt
RecordAttempt(p) ==
  /\ Touch(p)
  /\ UNCHANGED <<store, fails, lost, counted>>

\* A failed connection: the MaxFails-th failure in a row removes the address.
Failure(c) ==
  LET p == peerOf[c]
      last == fails[p] + 1 >= MaxFails
  IN IF p \notin store THEN UNCHANGED <<store, fails, cool, lost>>
     ELSE /\ fails' = [fails EXCEPT ![p] = IF last THEN 0 ELSE @ + 1]
          /\ store' = IF last THEN store \ {p} ELSE store
          /\ cool' = IF last THEN cool \ {p} ELSE cool \union {p}
          /\ lost' = [lost EXCEPT ![p] = IF c \in counted THEN @ ELSE @ + 1]

\* record_failure
RecordFailure(c) == Failure(c) /\ counted' = counted \union {c}

\* The failures of p do not count any longer.
Forgiven(ps) ==
  /\ lost' = [p \in Peers |-> IF p \in ps THEN 0 ELSE lost[p]]
  /\ counted' = {c \in counted : peerOf[c] \notin ps}

\* Mutant of SuccessClears: the count goes on across successes.
SuccessKeeps(p) == fails

SuccessClears(p) == [fails EXCEPT ![p] = 0]

\* record_success
RecordSuccess(p) ==
  IF p \notin store THEN UNCHANGED storeVars
  ELSE /\ fails' = SuccessClears(p)
       /\ Touch(p)
       /\ Forgiven({p})
       /\ UNCHANGED store

\* record_mute
RecordMute(p) ==
  /\ Touch(p)
  /\ UNCHANGED <<store, fails, lost, counted>>

\* add, for an address that a seed or a peer names or whose version arrives: a
\* known one keeps its record, and over MaxPeers the worst goes.
AddPeer(p) ==
  /\ p \notin store
  /\ p \in Gossip \/ \E c \in Conns : peerOf[c] = p /\ p \in Answering /\ Waits(c)
  /\ \E S \in {S \in SUBSET (store \union {p}) :
                 Cardinality(store \union {p}) - Cardinality(S) =
                   IF Cardinality(store \union {p}) > MaxPeers THEN 1 ELSE 0} :
       /\ store' = S
       /\ fails' = [q \in Peers |-> IF q \in S /\ q # p THEN fails[q] ELSE 0]
       /\ cool' = cool \intersect (S \ {p})
       /\ Forgiven({p} \union (store \ S))
  /\ UNCHANGED <<connections, connVars, passVars, netVars>>

\* A backoff window ends.
CoolEnds(p) ==
  /\ p \in cool
  /\ cool' = cool \ {p}
  /\ UNCHANGED <<connections, connVars, store, fails, lost, counted, passVars, netVars>>

-----------------------------------------------------------------------------
(* _ensure_connections, in the maintenance thread and the net-resync threads *)

\* Mutant of Goal: only the established connections are counted.
GoalUnbudgeted ==
  LET up == Cardinality(Mapped \intersect established)
  IN IF MaxConnections > up THEN MaxConnections - up ELSE 0

\* _connection_targets: as many as are missing, within the half-open budget.
Goal ==
  LET up == Cardinality(Mapped \intersect established)
      all == Cardinality(Mapped)
      need == IF MaxConnections > up THEN MaxConnections - up ELSE 0
      budget == IF Cap > all THEN Cap - all ELSE 0
  IN IF need <= budget THEN need ELSE budget

EnsureEnds(t) == IF t \in Maints THEN "reap" ELSE "off"

\* The pass starts with the addresses dropped by a wipe (_resync_candidates).
EnsureBegins(t) ==
  /\ pc[t] = "top"
  /\ running /\ (t \in Maints => genOf[t] = generation)
  /\ LET here == {p \in Peers : connections[p] # NoConn}
     IN /\ current' = [current EXCEPT ![t] = IF Goal = 0 THEN {} ELSE here]
        /\ cands' = [cands EXCEPT ![t] = IF Goal = 0 THEN {} ELSE (dropped \intersect store) \ here]
        /\ goal' = [goal EXCEPT ![t] = Goal]
        /\ todo' = [todo EXCEPT ![t] = IF Goal = 0 /\ t \in Maints THEN Mapped ELSE {}]
        /\ Goto(t, IF Goal = 0 THEN EnsureEnds(t) ELSE "prefer")
  /\ UNCHANGED <<connections, connVars, storeVars, fresh, victim, genOf, netVars>>

\* The loop of a stopped or superseded maintenance thread ends, and so does a
\* net-resync thread after stop.
PassEnds(t) ==
  /\ pc[t] = "top"
  /\ \/ ~running
     \/ t \in Maints /\ genOf[t] # generation
     \/ t \in Kickers /\ dropped = {}
  /\ Goto(t, "off")
  /\ UNCHANGED <<connections, connVars, storeVars, goal, current, cands, fresh,
                 todo, victim, genOf, netVars>>

\* A connection object nobody refers to.
Unused(c) ==
  /\ phase[c] = "free"
  /\ \A t \in Threads : c \notin todo[t] /\ c # victim[t]

\* _spawn_candidate and the first half of spawn: the address is registered
\* under the lock unless it is there already.
Spawn(t) ==
  /\ pc[t] \in {"prefer", "best"}
  /\ fresh[t] = NoConn
  /\ goal[t] > 0
  /\ \E p \in cands[t] :
       /\ RecordAttempt(p)
       /\ IF running /\ connections[p] = NoConn
          THEN \E c \in Conns :
                 /\ Unused(c)
                 /\ connections' = [connections EXCEPT ![p] = c]
                 /\ phase' = [phase EXCEPT ![c] = "created"]
                 /\ peerOf' = [peerOf EXCEPT ![c] = p]
                 /\ fresh' = [fresh EXCEPT ![t] = c]
          ELSE UNCHANGED <<connections, phase, peerOf, fresh>>
       /\ cands' = [cands EXCEPT ![t] = @ \ {p}]
       /\ current' = [current EXCEPT ![t] = @ \union {p}]
       /\ goal' = [goal EXCEPT ![t] = @ - 1]
  /\ UNCHANGED <<established, closing, age, pc, todo, victim, genOf, netVars>>

\* The second half, outside the lock: connection.start(), which may fail.
Start(t) ==
  /\ fresh[t] # NoConn
  /\ fresh' = [fresh EXCEPT ![t] = NoConn]
  /\ LET c == fresh[t] IN
       \/ /\ phase' = [phase EXCEPT ![c] = "dialing"]
          /\ UNCHANGED <<peerOf, closing, bounds>>
       \/ /\ bounds.unstarted < MaxUnstarted
          /\ bounds' = [bounds EXCEPT !.unstarted = @ + 1]
          /\ phase' = [phase EXCEPT ![c] = IF c \in Mapped THEN "stillborn" ELSE "free"]
          /\ peerOf' = [peerOf EXCEPT ![c] = IF c \in Mapped THEN @ ELSE NoPeer]
          /\ closing' = closing \ {c}
  /\ UNCHANGED <<connections, established, age, storeVars, pc, goal, current,
                 cands, todo, victim, genOf, dropped, gone, generation, running, wipe,
                 stop>>

\* From the dropped addresses to PeerStore.best: what is not in its backoff window.
PreferEnds(t) ==
  /\ pc[t] = "prefer"
  /\ fresh[t] = NoConn
  /\ goal[t] = 0 \/ cands[t] = {}
  /\ cands' = [cands EXCEPT ![t] = (store \ cool) \ current[t]]
  /\ Goto(t, "best")
  /\ UNCHANGED <<connections, connVars, storeVars, goal, current, fresh, todo,
                 victim, genOf, netVars>>

BestEnds(t) ==
  /\ pc[t] = "best"
  /\ fresh[t] = NoConn
  /\ goal[t] = 0 \/ cands[t] = {}
  /\ goal' = [goal EXCEPT ![t] = 0]
  /\ cands' = [cands EXCEPT ![t] = {}]
  /\ current' = [current EXCEPT ![t] = {}]
  /\ todo' = [todo EXCEPT ![t] = IF t \in Maints THEN Mapped ELSE {}]
  /\ Goto(t, EnsureEnds(t))
  /\ UNCHANGED <<connections, connVars, storeVars, fresh, victim, genOf, netVars>>

EnsureStep(t) ==
  \/ EnsureBegins(t) \/ PassEnds(t) \/ Spawn(t) \/ Start(t)
  \/ PreferEnds(t) \/ BestEnds(t)

-----------------------------------------------------------------------------
(* _prune_connections                                                        *)

\* Removes the entries that still hold a connection of cs.
Unmap(cs) == connections' =
  [p \in Peers |-> IF connections[p] \in cs THEN NoConn ELSE connections[p]]

Stillborn == {c \in Conns : phase[c] = "stillborn"}

\* An object whose thread never ran is nobody's once it is out of the table.
Discard(cs) ==
  /\ phase' = [c \in Conns |-> IF c \in cs \intersect Stillborn THEN "free" ELSE phase[c]]
  /\ peerOf' = [c \in Conns |-> IF c \in cs \intersect Stillborn THEN NoPeer ELSE peerOf[c]]

\* close() of each connection of cs; without a thread it has no effect.
Close(cs) == closing' = closing \union (cs \ Stillborn)

\* A connection that is not alive leaves the table.
Reap(t) ==
  /\ pc[t] = "reap"
  /\ \E c \in todo[t] :
       /\ todo' = [todo EXCEPT ![t] = @ \ {c}]
       /\ IF ~Alive(c) THEN Unmap({c}) /\ Discard({c})
          ELSE UNCHANGED <<connections, phase, peerOf>>
  /\ UNCHANGED <<established, closing, age, storeVars, pc, goal,
                 current, cands, fresh, victim, genOf, netVars>>

ReapEnds(t) ==
  /\ pc[t] = "reap"
  /\ todo[t] = {}
  /\ todo' = [todo EXCEPT ![t] = Mapped]
  /\ Goto(t, "stalled")
  /\ UNCHANGED <<connections, connVars, storeVars, goal, current, cands, fresh,
                 victim, genOf, netVars>>

\* Mutant of HandshakeStalled: no limit.
HandshakeNeverStalled(c) == FALSE

HandshakeStalled(c) == c \notin established /\ age[c] > 0
Silent(c) == c \in established /\ age[c] > 0
Mute(c) == Silent(c) /\ age[c] = 2

\* _evict_if_stalled: the verdict and the mark in the store ...
Judge(t) ==
  /\ pc[t] = "stalled"
  /\ \E c \in todo[t] :
       /\ todo' = [todo EXCEPT ![t] = @ \ {c}]
       /\ IF Alive(c) /\ (HandshakeStalled(c) \/ Silent(c))
          THEN /\ IF HandshakeStalled(c) THEN RecordFailure(c)
                  ELSE IF Mute(c) THEN RecordMute(peerOf[c])
                  ELSE UNCHANGED storeVars
               /\ victim' = [victim EXCEPT ![t] = c]
               /\ Goto(t, "evict")
          ELSE UNCHANGED <<storeVars, victim, pc>>
  /\ UNCHANGED <<connections, connVars, goal, current, cands, fresh, genOf, netVars>>

\* ... and _evict_connection, which closes it if the entry is still its own.
Evict(t) ==
  /\ pc[t] = "evict"
  /\ Close({victim[t]} \intersect Mapped)
  /\ Unmap({victim[t]})
  /\ victim' = [victim EXCEPT ![t] = NoConn]
  /\ Goto(t, "stalled")
  /\ UNCHANGED <<phase, peerOf, established, age, storeVars, goal, current,
                 cands, fresh, todo, genOf, netVars>>

JudgeEnds(t) ==
  /\ pc[t] = "stalled"
  /\ todo[t] = {}
  /\ Goto(t, "trim")
  /\ UNCHANGED <<connections, connVars, storeVars, goal, current, cands, fresh,
                 todo, victim, genOf, netVars>>

\* Mutant of Excess: the extra slots are forgotten in the wrong direction.
ExcessDoubled == IF Cardinality(Mapped) > 2 * Cap THEN Cardinality(Mapped) - 2 * Cap ELSE 0

Excess == IF Cardinality(Mapped) > Cap THEN Cardinality(Mapped) - Cap ELSE 0

\* _trim_over_cap: the oldest go, whatever their state.
Trim(t) ==
  /\ pc[t] = "trim"
  /\ \E cs \in SUBSET Mapped :
       /\ Cardinality(cs) = Excess
       /\ Unmap(cs)
       /\ Close(cs)
       /\ Discard(cs)
  /\ Goto(t, "top")
  /\ UNCHANGED <<established, age, storeVars, goal, current, cands,
                 fresh, todo, victim, genOf, netVars>>

PruneStep(t) ==
  Reap(t) \/ ReapEnds(t) \/ Judge(t) \/ Evict(t) \/ JudgeEnds(t) \/ Trim(t)

-----------------------------------------------------------------------------
(* PeerConnection.run                                                        *)

Moves(c, ph) == phase' = [phase EXCEPT ![c] = ph]

\* connect_socket returns; a close meanwhile makes the first send raise.
Connected(c) ==
  /\ phase[c] = "dialing"
  /\ Moves(c, IF c \in closing THEN "ending" ELSE "handshake")
  /\ UNCHANGED <<connections, peerOf, established, closing, age, storeVars,
                 passVars, netVars>>

\* The dial is refused or times out, the handshake ends without a verack, or
\* the read loop ends: the peer closes, three read timeouts, or our close().
Fails(c) ==
  /\ Running(c)
  /\ peerOf[c] \in Good => c \in closing \/ Reading(c)
  /\ Moves(c, "ending")
  /\ UNCHANGED <<connections, peerOf, established, closing, age, storeVars,
                 passVars, netVars>>

\* _on_version of a peer whose clock is off, that shares no stream, or that is
\* this node itself.
BadVersion(c) ==
  /\ Waits(c)
  /\ peerOf[c] \in Answering \ Good
  /\ \/ RecordMute(peerOf[c]) /\ closing' \in {closing, closing \union {c}}
     \/ closing' = closing \union {c} /\ UNCHANGED storeVars
  /\ UNCHANGED <<connections, phase, peerOf, established, age, passVars, netVars>>

\* _on_verack: the read loop accepts it again.
Verack(c) ==
  /\ Waits(c)
  /\ peerOf[c] \in Answering
  /\ established' = established \union {c}
  /\ IF phase[c] = "handshake"
     THEN age' = [age EXCEPT ![c] = 0] /\ Moves(c, "reading")
     ELSE UNCHANGED <<age, phase>>
  /\ RecordSuccess(peerOf[c])
  /\ UNCHANGED <<connections, peerOf, closing, passVars, netVars>>

\* addr, inv, object or getdata sets last_useful_at: never silent again.
Useful(c) ==
  /\ phase[c] = "reading"
  /\ peerOf[c] \in Answering
  /\ Moves(c, "useful")
  /\ age' = [age EXCEPT ![c] = 0]
  /\ UNCHANGED <<connections, peerOf, established, closing, storeVars, passVars, netVars>>

\* Mutant of OwnEntry: the entry of the address is removed, whosever it is.
AnyEntry(c) == {connections[peerOf[c]]} \ {NoConn}

OwnEntry(c) == {c}

\* The finally of run: close, leave the table if the entry is still ours ...
Unregister(c) ==
  /\ phase[c] = "ending"
  /\ closing' = closing \union {c}
  /\ Unmap(OwnEntry(c))
  /\ Moves(c, "record")
  /\ UNCHANGED <<peerOf, established, age, storeVars, passVars, netVars>>

\* ... and count a failure if the handshake never completed.
Finish(c) ==
  /\ phase[c] = "record"
  /\ IF c \in established THEN UNCHANGED <<store, fails, cool, lost>> ELSE Failure(c)
  /\ counted' = counted \ {c}
  /\ Moves(c, "free")
  /\ peerOf' = [peerOf EXCEPT ![c] = NoPeer]
  /\ established' = established \ {c}
  /\ closing' = closing \ {c}
  /\ age' = [age EXCEPT ![c] = 0]
  /\ UNCHANGED <<connections, passVars, netVars>>

\* Time passes for a connection; the good peers are within the limits until
\* their handshake is complete.
Tick(c) ==
  /\ phase[c] \in {"dialing", "handshake", "reading"}
  /\ age[c] < (IF c \in established THEN 2 ELSE 1)
  /\ peerOf[c] \in Good => c \in established
  /\ age' = [age EXCEPT ![c] = @ + 1]
  /\ UNCHANGED <<connections, phase, peerOf, established, closing, storeVars,
                 passVars, netVars>>

ConnStep(c) == Connected(c) \/ Fails(c) \/ Unregister(c) \/ Finish(c)

-----------------------------------------------------------------------------
(* wipe_objects: drop every connection, forget the failures, reconnect       *)

\* _drop_connections_for_resync
WipeDrops ==
  /\ wipe = "idle"
  /\ bounds.wipes < MaxWipes
  /\ bounds.wipes + bounds.stops < MaxUpsets
  /\ bounds' = [bounds EXCEPT !.wipes = @ + 1]
  /\ gone' = {p \in Peers : connections[p] # NoConn}
  /\ Unmap(Mapped)
  /\ Close(Mapped)
  /\ Discard(Mapped)
  /\ wipe' = "mark"
  /\ UNCHANGED <<established, age, storeVars, passVars, dropped,
                 generation, running, stop>>

\* invalidate_backoff, the re-sync state and _kick_reconnect.
WipeMarks ==
  /\ wipe = "mark"
  /\ cool' = cool \ gone
  /\ fails' = [p \in Peers |-> IF p \in gone THEN 0 ELSE fails[p]]
  /\ Forgiven(gone)
  /\ dropped' = gone
  /\ gone' = {}
  /\ pc' = [t \in Threads |-> IF running /\ t \in Kickers /\ pc[t] = "off" THEN "top"
                              ELSE pc[t]]
  /\ wipe' = "idle"
  /\ UNCHANGED <<connections, connVars, store, goal, current, cands, fresh, todo,
                 victim, genOf, generation, running, stop, bounds>>

\* The re-sync is complete or timed out.
ResyncEnds ==
  /\ dropped # {}
  /\ dropped' = {}
  /\ UNCHANGED <<connections, connVars, storeVars, passVars, gone, generation,
                 running, wipe, stop, bounds>>

-----------------------------------------------------------------------------
(* stop and start, when the proxy is changed                                 *)

StopCloses ==
  /\ stop = "idle"
  /\ bounds.stops < MaxStops
  /\ bounds.wipes + bounds.stops < MaxUpsets
  /\ bounds' = [bounds EXCEPT !.stops = @ + 1]
  /\ running' = FALSE
  /\ generation' = generation + 1
  /\ Close(Mapped)
  /\ stop' = "clear"
  /\ UNCHANGED <<connections, phase, peerOf, established, age, storeVars,
                 passVars, dropped, gone, wipe>>

\* The table is emptied without the lock, whatever entered it meanwhile.
StopClears ==
  /\ stop = "clear"
  /\ Unmap(Mapped)
  /\ Discard(Mapped)
  /\ stop' = "start"
  /\ UNCHANGED <<established, closing, age, storeVars, passVars,
                 dropped, gone, generation, running, wipe, bounds>>

\* The maintenance thread was joined, or the 5 s for it passed.
Restart ==
  /\ stop = "start"
  /\ running' = TRUE
  /\ generation' = generation + 1
  /\ \E t \in Maints :
       /\ pc[t] = "off"
       /\ Goto(t, "top")
       /\ genOf' = [genOf EXCEPT ![t] = generation']
  /\ stop' = "idle"
  /\ UNCHANGED <<connections, connVars, storeVars, goal, current, cands, fresh,
                 todo, victim, dropped, gone, wipe, bounds>>

Next ==
  \/ \E p \in Peers : AddPeer(p) \/ CoolEnds(p)
  \/ \E t \in Threads : EnsureStep(t) \/ PruneStep(t)
  \/ \E c \in Conns : ConnStep(c) \/ BadVersion(c) \/ Verack(c) \/ Useful(c) \/ Tick(c)
  \/ WipeDrops \/ WipeMarks \/ ResyncEnds
  \/ StopCloses \/ StopClears \/ Restart

Spec == Init /\ [][Next]_vars

\* Threads are scheduled, clocks advance, dials end, a closed connection ends,
\* and the good peers answer.  Nothing is assumed of the other peers: the
\* timeouts of the socket are for one recv each, and a peer that sends a byte
\* now and then keeps the thread waiting in the handshake or the read loop.
Fairness ==
  /\ \A t \in Threads : WF_vars(EnsureStep(t) \/ PruneStep(t))
  /\ \A c \in Conns :
       /\ WF_vars((c \in closing \/ ~Waits(c)) /\ ConnStep(c))
       /\ WF_vars(peerOf[c] \in Good /\ Verack(c))
       /\ WF_vars(Tick(c))
  /\ \A p \in Peers : WF_vars(CoolEnds(p))
  /\ WF_vars(WipeMarks) /\ WF_vars(StopClears \/ Restart)

FairSpec == Spec /\ Fairness

-----------------------------------------------------------------------------
(* Properties                                                                *)

TypeOK ==
  /\ connections \in [Peers -> Conns \union {NoConn}]
  /\ phase \in [Conns -> Phases]
  /\ peerOf \in [Conns -> Peers \union {NoPeer}]
  /\ established \subseteq Conns /\ closing \subseteq Conns
  /\ age \in [Conns -> 0..2]
  /\ store \subseteq Peers /\ Cardinality(store) <= MaxPeers
  /\ fails \in [Peers -> 0..(MaxFails - 1)]
  /\ cool \subseteq store
  /\ dropped \subseteq Peers /\ gone \subseteq Peers
  /\ pc \in [Threads -> ThreadPCs]
  /\ goal \in [Threads -> 0..MaxConnections]
  /\ current \in [Threads -> SUBSET Peers]
  /\ cands \in [Threads -> SUBSET Peers]
  /\ fresh \in [Threads -> Conns \union {NoConn}]
  /\ todo \in [Threads -> SUBSET Conns]
  /\ victim \in [Threads -> Conns \union {NoConn}]
  /\ generation \in 0..(2 * MaxStops) /\ genOf \in [Threads -> 0..(2 * MaxStops)]
  /\ running \in BOOLEAN
  /\ wipe \in {"idle", "mark"} /\ stop \in {"idle", "clear", "start"}
  /\ lost \in [Peers -> 0..MaxFails] /\ counted \subseteq Conns
  /\ bounds \in [wipes : 0..MaxWipes, stops : 0..MaxStops,
                unstarted : 0..MaxUnstarted]

\* The half-open budget bounds the table as long as one thread dials: the
\* maintenance thread never opens more than MaxConnections + BOOT_EXTRA_SLOTS.
WithinBudget ==
  bounds.wipes = 0 /\ bounds.stops = 0 => Cardinality(Mapped) <= Cap

\* peer.py:88-92: a connection thread removes its own entry only.  A running
\* connection leaves the table when it is closed, and otherwise only by the
\* clear() of stop.
NotAbandoned ==
  [][\A c \in Conns :
       c \in Mapped /\ c \notin Mapped' /\ Alive(c) => c \in closing' \/ stop = "clear"]_vars

\* A stalled connection is counted by the maintenance thread that evicts it
\* and by its own thread, and once more by each maintenance thread a restart
\* did not wait for, never more often: an address is removed only after
\* failures of that fraction of MaxFails connections since its last success.
RemovedAfterFailures ==
  [][\A p \in store \ store' :
       store' \subseteq store => (Cardinality(Maints) + 1) * lost'[p] >= MaxFails]_vars

\* A good peer in the store is reached, or its address is given up, or other
\* peers complete as many handshakes as there are slots: dead and stalled
\* peers do not hold the slots for ever.
GoodReached ==
  \A p \in Good :
    (p \in store)
      ~> \/ p \notin store
         \/ connections[p] \in established
         \/ Cardinality(established) >= MaxConnections

-----------------------------------------------------------------------------
(* What the repository says and the code does not do                         *)

\* peer.py:88-92 again: no running connection is missing from the table.
\* Between spawn's registration and start() another thread's pruning takes
\* the connection for a dead one.
NoOrphan ==
  \A c \in Conns : Running(c) /\ c \notin closing => c \in Mapped

\* peers.py:205-211: an address is removed at the MaxFails-th failure in a row.
RemovedAtMaxFails ==
  [][\A p \in store \ store' : store' \subseteq store => lost'[p] >= MaxFails]_vars
=============================================================================
