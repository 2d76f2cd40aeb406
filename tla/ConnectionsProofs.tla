-------------------------- MODULE ConnectionsProofs --------------------------
(***************************************************************************)
(* Proofs about Connections for any addresses, connection objects and      *)
(* threads, any limit of the code and every bound.                         *)
(***************************************************************************)
EXTENDS Connections, FiniteSetTheorems, TLAPS

-----------------------------------------------------------------------------
(* The table                                                                 *)

LEMMA MappedFinite ==
  ASSUME connections \in [Peers -> Conns \union {NoConn}]
  PROVE  Mapped \subseteq Conns /\ IsFiniteSet(Mapped) /\ Cardinality(Mapped) \in Nat
<1>1. Mapped \subseteq Conns
  BY DEF Mapped
<1> QED BY <1>1, ConnsAssumption, FS_Subset, FS_CardinalityType

LEMMA UnmapMapped ==
  ASSUME connections \in [Peers -> Conns \union {NoConn}], NEW cs, NoConn \notin cs, Unmap(cs)
  PROVE  /\ connections' \in [Peers -> Conns \union {NoConn}]
         /\ Mapped' = Mapped \ cs
<1>1. \A p \in Peers :
        connections'[p] = IF connections[p] \in cs THEN NoConn ELSE connections[p]
  BY DEF Unmap
<1>2. connections' \in [Peers -> Conns \union {NoConn}]
  BY DEF Unmap
<1>3. Mapped' = {connections'[p] : p \in Peers} \ {NoConn}
  BY DEF Mapped
<1>4. \A c : c \in Mapped' <=> c \in Mapped \ cs
  BY <1>1, <1>3 DEF Mapped
<1> QED BY <1>2, <1>4

-----------------------------------------------------------------------------
(* Connections: their threads, their addresses, and who starts them          *)

\* A connection in use has an address, and one that a thread registered and
\* did not start yet is that thread's alone.
ConnInv ==
  /\ connections \in [Peers -> Conns \union {NoConn}]
  /\ phase \in [Conns -> Phases]
  /\ peerOf \in [Conns -> Peers \union {NoPeer}]
  /\ established \subseteq Conns /\ closing \subseteq Conns
  /\ age \in [Conns -> 0..2]
  /\ fresh \in [Threads -> Conns \union {NoConn}]
  /\ \A c \in Conns : phase[c] # "free" => peerOf[c] \in Peers
  /\ \A t \in Threads : fresh[t] # NoConn => phase[fresh[t]] = "created"
  /\ \A t, u \in Threads : fresh[t] = fresh[u] /\ fresh[t] # NoConn => t = u

LEMMA InitConn == Init => ConnInv
BY DEF Init, ConnInv, Phases

LEMMA ConnKept ==
  ASSUME ConnInv, UNCHANGED <<connections, connVars, fresh>>
  PROVE  ConnInv'
BY DEF ConnInv, connVars, Threads

\* The thread of c goes on.
LEMMA ConnMoves ==
  ASSUME ConnInv, NEW c \in Conns, NEW ph \in Phases, phase' = [phase EXCEPT ![c] = ph],
         phase[c] \notin {"free", "created"},
         peerOf' = [peerOf EXCEPT ![c] = IF ph = "free" THEN NoPeer ELSE @],
         connections' \in [Peers -> Conns \union {NoConn}],
         established' \subseteq Conns, closing' \subseteq Conns, age' \in [Conns -> 0..2],
         UNCHANGED fresh
  PROVE  ConnInv'
<1>1. \A d \in Conns : phase'[d] = IF d = c THEN ph ELSE phase[d]
  BY DEF ConnInv
<1>2. \A d \in Conns : peerOf'[d] = IF d = c /\ ph = "free" THEN NoPeer ELSE peerOf[d]
  BY DEF ConnInv
<1>3. \A t \in Threads : fresh[t] # c
  BY ConnsAssumption DEF ConnInv
<1>4. phase' \in [Conns -> Phases] /\ peerOf' \in [Conns -> Peers \union {NoPeer}]
  BY DEF ConnInv
<1>5. \A d \in Conns : phase'[d] # "free" => peerOf'[d] \in Peers
  BY <1>1, <1>2 DEF ConnInv
<1>6. \A t \in Threads : fresh'[t] # NoConn => phase'[fresh'[t]] = "created"
  BY <1>1, <1>3 DEF ConnInv
<1> QED BY <1>4, <1>5, <1>6 DEF ConnInv, Threads

\* Connections leave the table, and those whose thread never ran are free again.
LEMMA ConnDiscarded ==
  ASSUME ConnInv, NEW cs, NEW ds, NoConn \notin ds, Unmap(ds), Discard(cs), closing' \subseteq Conns,
         UNCHANGED <<established, age, fresh>>
  PROVE  ConnInv'
<1>1. connections' \in [Peers -> Conns \union {NoConn}]
  BY UnmapMapped DEF ConnInv
<1>2. /\ phase' = [c \in Conns |-> IF c \in cs \intersect Stillborn THEN "free" ELSE phase[c]]
      /\ peerOf' = [c \in Conns |-> IF c \in cs \intersect Stillborn THEN NoPeer ELSE peerOf[c]]
  BY DEF Discard
<1>3. phase' \in [Conns -> Phases] /\ peerOf' \in [Conns -> Peers \union {NoPeer}]
  BY <1>2 DEF ConnInv, Phases
<1>4. \A c \in Conns : phase'[c] # "free" => phase'[c] = phase[c] /\ peerOf'[c] = peerOf[c]
  BY <1>2
<1>5. \A c \in Conns : phase[c] = "created" => phase'[c] = "created"
  BY <1>2 DEF Stillborn
<1>6. \A t \in Threads : fresh'[t] # NoConn => phase'[fresh'[t]] = "created"
  BY <1>5 DEF ConnInv
<1>7. \A c \in Conns : phase'[c] # "free" => peerOf'[c] \in Peers
  BY <1>4 DEF ConnInv
<1> QED BY <1>1, <1>3, <1>6, <1>7 DEF ConnInv, Threads

LEMMA SpawnConn ==
  ASSUME ConnInv, NEW t \in Threads, Spawn(t), NEW p \in cands[t], p \in Peers,
         connections[p] = NoConn, NEW c \in Conns, Unused(c),
         connections' = [connections EXCEPT ![p] = c],
         phase' = [phase EXCEPT ![c] = "created"],
         peerOf' = [peerOf EXCEPT ![c] = p],
         fresh' = [fresh EXCEPT ![t] = c]
  PROVE  ConnInv'
<1>0. UNCHANGED <<established, closing, age>> /\ phase[c] = "free"
  BY DEF Spawn, Unused
<1>1. \A d \in Conns : phase'[d] = IF d = c THEN "created" ELSE phase[d]
  BY DEF ConnInv
<1>2. \A d \in Conns : peerOf'[d] = IF d = c THEN p ELSE peerOf[d]
  BY DEF ConnInv
<1>3. \A u \in Threads : fresh[u] # c
  BY <1>0, ConnsAssumption DEF ConnInv
<1>4. \A u \in Threads : fresh'[u] = IF u = t THEN c ELSE fresh[u]
  BY DEF ConnInv
<1>5. /\ phase' \in [Conns -> Phases] /\ peerOf' \in [Conns -> Peers \union {NoPeer}]
      /\ connections' \in [Peers -> Conns \union {NoConn}]
      /\ fresh' \in [Threads -> Conns \union {NoConn}]
  BY DEF ConnInv, Phases
<1>6. \A d \in Conns : phase'[d] # "free" => peerOf'[d] \in Peers
  BY <1>1, <1>2 DEF ConnInv
<1>7. \A u \in Threads : fresh'[u] # NoConn => phase'[fresh'[u]] = "created"
  BY <1>1, <1>3, <1>4 DEF ConnInv
<1>8. \A u, v \in Threads : fresh'[u] = fresh'[v] /\ fresh'[u] # NoConn => u = v
  BY <1>3, <1>4 DEF ConnInv
<1> QED BY <1>0, <1>5, <1>6, <1>7, <1>8 DEF ConnInv, Threads

LEMMA StartConn ==
  ASSUME ConnInv, NEW t \in Threads, Start(t)
  PROVE  ConnInv'
<1> DEFINE c == fresh[t]
<1>1. c \in Conns /\ phase[c] = "created" /\ peerOf[c] \in Peers
  BY DEF Start, ConnInv
<1>2. PICK ph \in {"dialing", "stillborn", "free"} :
        /\ phase' = [phase EXCEPT ![c] = ph]
        /\ ph # "free" => peerOf' = peerOf
        /\ peerOf' = [peerOf EXCEPT ![c] = IF ph = "free" THEN NoPeer ELSE @]
  <2>0. peerOf = [peerOf EXCEPT ![c] = @]
    BY <1>1 DEF ConnInv
  <2>1. CASE phase' = [phase EXCEPT ![c] = "dialing"] /\ peerOf' = peerOf
    BY <2>0, <2>1
  <2>2. CASE /\ phase' = [phase EXCEPT ![c] = IF c \in Mapped THEN "stillborn" ELSE "free"]
             /\ peerOf' = [peerOf EXCEPT ![c] = IF c \in Mapped THEN @ ELSE NoPeer]
    <3>1. CASE c \in Mapped
      BY <2>0, <2>2, <3>1
    <3>2. CASE c \notin Mapped
      BY <2>2, <3>2
    <3> QED BY <3>1, <3>2
  <2> QED BY <2>1, <2>2 DEF Start
<1>3. /\ fresh' = [fresh EXCEPT ![t] = NoConn] /\ closing' \subseteq closing
      /\ UNCHANGED <<connections, established, age>>
  BY DEF Start
<1> HIDE DEF c
<1>4. \A d \in Conns : phase'[d] = IF d = c THEN ph ELSE phase[d]
  BY <1>2 DEF ConnInv
<1>5. \A d \in Conns : d # c => peerOf'[d] = peerOf[d]
  BY <1>2 DEF ConnInv
<1>6. \A u \in Threads : fresh'[u] = IF u = t THEN NoConn ELSE fresh[u]
  BY <1>3 DEF ConnInv
<1>7. \A u \in Threads : u # t /\ fresh[u] # NoConn => fresh[u] # c
  BY <1>1 DEF ConnInv, c
<1>8. /\ phase' \in [Conns -> Phases] /\ peerOf' \in [Conns -> Peers \union {NoPeer}]
      /\ fresh' \in [Threads -> Conns \union {NoConn}]
  BY <1>1, <1>2, <1>3 DEF ConnInv, Phases
<1>9. \A d \in Conns : phase'[d] # "free" => peerOf'[d] \in Peers
  BY <1>1, <1>2, <1>4, <1>5 DEF ConnInv
<1>10. \A u \in Threads : fresh'[u] # NoConn => phase'[fresh'[u]] = "created"
  BY <1>4, <1>6, <1>7 DEF ConnInv
<1>11. \A u, v \in Threads : fresh'[u] = fresh'[v] /\ fresh'[u] # NoConn => u = v
  BY <1>6 DEF ConnInv
<1> QED BY <1>3, <1>8, <1>9, <1>10, <1>11 DEF ConnInv, Threads

-----------------------------------------------------------------------------
(* The passes of the threads                                                 *)

\* Only maintenance threads prune, and a connection condemned is not looked at
\* again in that pass.
PassInv ==
  /\ pc \in [Threads -> ThreadPCs]
  /\ goal \in [Threads -> 0..MaxConnections]
  /\ current \in [Threads -> SUBSET Peers]
  /\ cands \in [Threads -> SUBSET Peers]
  /\ todo \in [Threads -> SUBSET Conns]
  /\ victim \in [Threads -> Conns \union {NoConn}]
  /\ dropped \subseteq Peers /\ gone \subseteq Peers
  /\ \A t \in Threads :
       /\ pc[t] \in {"reap", "stalled", "evict", "trim"} => t \in Maints
       /\ pc[t] = "evict" <=> victim[t] # NoConn
       /\ victim[t] \notin todo[t]

LEMMA NextConn == ConnInv /\ PassInv /\ [Next]_vars => ConnInv'
<1> SUFFICES ASSUME ConnInv, PassInv, [Next]_vars PROVE ConnInv'
  OBVIOUS
<1> USE DEF connVars
<1>1. CASE UNCHANGED vars
  BY <1>1, ConnKept DEF vars, passVars
<1>2. ASSUME NEW p \in Peers, AddPeer(p) \/ CoolEnds(p) PROVE ConnInv'
  BY <1>2, ConnKept DEF AddPeer, CoolEnds, passVars
<1>3. ASSUME NEW t \in Threads, EnsureStep(t) PROVE ConnInv'
  <2>1. CASE Spawn(t)
    <3>1. PICK p \in cands[t] :
            IF running /\ connections[p] = NoConn
            THEN \E c \in Conns :
                   /\ Unused(c)
                   /\ connections' = [connections EXCEPT ![p] = c]
                   /\ phase' = [phase EXCEPT ![c] = "created"]
                   /\ peerOf' = [peerOf EXCEPT ![c] = p]
                   /\ fresh' = [fresh EXCEPT ![t] = c]
            ELSE UNCHANGED <<connections, phase, peerOf, fresh>>
      BY <2>1 DEF Spawn
    <3>2. p \in Peers
      BY DEF PassInv
    <3>3. UNCHANGED <<established, closing, age>>
      BY <2>1 DEF Spawn
    <3>4. CASE running /\ connections[p] = NoConn
      BY <2>1, <3>1, <3>2, <3>4, SpawnConn
    <3>5. CASE ~(running /\ connections[p] = NoConn)
      BY <3>1, <3>3, <3>5, ConnKept
    <3> QED BY <3>4, <3>5
  <2>2. CASE EnsureBegins(t) \/ PassEnds(t) \/ PreferEnds(t) \/ BestEnds(t)
    BY <2>2, ConnKept DEF EnsureBegins, PassEnds, PreferEnds, BestEnds
  <2> QED BY <1>3, <2>1, <2>2, StartConn DEF EnsureStep
<1>4. ASSUME NEW t \in Threads, PruneStep(t) PROVE ConnInv'
  <2>1. CASE Reap(t)
    <3>1. PICK c \in todo[t] :
            IF ~Alive(c) THEN Unmap({c}) /\ Discard({c})
            ELSE UNCHANGED <<connections, phase, peerOf>>
      BY <2>1 DEF Reap
    <3>2. c \in Conns /\ NoConn \notin {c}
      BY ConnsAssumption DEF PassInv
    <3>3. UNCHANGED <<established, closing, age, fresh>>
      BY <2>1 DEF Reap
    <3>4. closing' \subseteq Conns
      BY <3>3 DEF ConnInv
    <3>5. CASE Alive(c)
      BY <3>1, <3>3, <3>5, ConnKept
    <3>6. CASE ~Alive(c)
      BY <3>1, <3>2, <3>3, <3>4, <3>6, ConnDiscarded
    <3> QED BY <3>5, <3>6
  <2>2. CASE Evict(t)
    <3>1. /\ Close({victim[t]} \intersect Mapped) /\ Unmap({victim[t]})
          /\ UNCHANGED <<phase, peerOf, established, age, fresh>>
      BY <2>2 DEF Evict
    <3>2. NoConn \notin {victim[t]}
      BY <2>2 DEF Evict, PassInv
    <3>3. connections' \in [Peers -> Conns \union {NoConn}]
      BY <3>1, <3>2, UnmapMapped DEF ConnInv
    <3>4. closing' \subseteq Conns
      BY <3>1, MappedFinite DEF Close, ConnInv
    <3> QED BY <3>1, <3>3, <3>4 DEF ConnInv, Threads
  <2>3. CASE Trim(t)
    <3>1. PICK cs \in SUBSET Mapped : Unmap(cs) /\ Close(cs) /\ Discard(cs)
      BY <2>3 DEF Trim
    <3>2. cs \subseteq Conns /\ NoConn \notin cs
      BY MappedFinite DEF Mapped, ConnInv
    <3>3. closing' \subseteq Conns
      BY <3>1, <3>2 DEF Close, ConnInv
    <3>4. UNCHANGED <<established, age, fresh>>
      BY <2>3 DEF Trim
    <3> QED BY <3>1, <3>2, <3>3, <3>4, ConnDiscarded
  <2>4. CASE ReapEnds(t) \/ Judge(t) \/ JudgeEnds(t)
    BY <2>4, ConnKept DEF ReapEnds, Judge, JudgeEnds
  <2> QED BY <1>4, <2>1, <2>2, <2>3, <2>4 DEF PruneStep
<1>5. ASSUME NEW c \in Conns, ConnStep(c) PROVE ConnInv'
  <2>0. peerOf = [peerOf EXCEPT ![c] = @] /\ NoConn \notin {c}
    BY ConnsAssumption DEF ConnInv
  <2>1. CASE Connected(c) \/ Fails(c)
    <3>1. PICK ph \in {"ending", "handshake"} : Moves(c, ph)
      BY <2>1 DEF Connected, Fails
    <3>2. phase[c] \notin {"free", "created"}
          /\ UNCHANGED <<connections, peerOf, established, closing, age, fresh>>
      BY <2>1 DEF Connected, Fails, Running, Reading, passVars
    <3>3. ph \in Phases /\ ph # "free"
      BY DEF Phases
    <3> QED BY <2>0, <3>1, <3>2, <3>3, ConnMoves DEF Moves, ConnInv
  <2>2. CASE Unregister(c)
    <3>1. /\ Unmap({c}) /\ closing' = closing \union {c}
          /\ phase' = [phase EXCEPT ![c] = "record"] /\ phase[c] = "ending"
          /\ UNCHANGED <<peerOf, established, age, fresh>>
      BY <2>2 DEF Unregister, OwnEntry, Moves, passVars
    <3>2. connections' \in [Peers -> Conns \union {NoConn}]
      BY <2>0, <3>1, UnmapMapped DEF ConnInv
    <3>3. "record" \in Phases /\ closing' \subseteq Conns
      BY <3>1 DEF Phases, ConnInv
    <3> QED BY <2>0, <3>1, <3>2, <3>3, ConnMoves DEF ConnInv
  <2>3. CASE Finish(c)
    <3>1. /\ phase' = [phase EXCEPT ![c] = "free"] /\ phase[c] = "record"
          /\ peerOf' = [peerOf EXCEPT ![c] = NoPeer]
          /\ established' \subseteq Conns /\ closing' \subseteq Conns
          /\ age' = [age EXCEPT ![c] = 0]
          /\ UNCHANGED <<connections, fresh>>
      BY <2>3 DEF Finish, Moves, passVars, ConnInv
    <3>2. "free" \in Phases /\ age' \in [Conns -> 0..2]
      BY <3>1 DEF Phases, ConnInv
    <3> QED BY <3>1, <3>2, ConnMoves DEF ConnInv
  <2> QED BY <1>5, <2>1, <2>2, <2>3 DEF ConnStep
<1>6. ASSUME NEW c \in Conns, Verack(c) \/ Useful(c) PROVE ConnInv'
  <2>0. peerOf = [peerOf EXCEPT ![c] = @]
    BY DEF ConnInv
  <2>1. PICK ph \in Phases : ph # "free" /\ phase' = [phase EXCEPT ![c] = ph]
    <3>1. phase = [phase EXCEPT ![c] = @]
      BY DEF ConnInv
    <3>2. phase[c] \in {"handshake", "reading", "useful"}
      BY <1>6 DEF Verack, Useful, Waits, Reading
    <3>3. \E ph \in {phase[c], "reading", "useful"} : phase' = [phase EXCEPT ![c] = ph]
      BY <1>6, <3>1 DEF Verack, Useful, Moves
    <3> QED BY <3>2, <3>3 DEF Phases
  <2>2. /\ phase[c] \notin {"free", "created"}
        /\ established' \subseteq Conns
        /\ age' \in {age, [age EXCEPT ![c] = 0]}
        /\ UNCHANGED <<connections, peerOf, closing, fresh>>
    BY <1>6 DEF Verack, Useful, Waits, Reading, passVars, ConnInv
  <2>3. age' \in [Conns -> 0..2]
    BY <2>2 DEF ConnInv
  <2> QED BY <2>0, <2>1, <2>2, <2>3, ConnMoves DEF ConnInv
<1>7. ASSUME NEW c \in Conns, BadVersion(c) PROVE ConnInv'
  <2>1. closing' \subseteq Conns /\ UNCHANGED <<connections, phase, peerOf, established, age, fresh>>
    BY <1>7 DEF BadVersion, passVars, ConnInv
  <2> QED BY <2>1 DEF ConnInv, Threads
<1>8. ASSUME NEW c \in Conns, Tick(c) PROVE ConnInv'
  <2>1. /\ age' = [age EXCEPT ![c] = age[c] + 1] /\ age[c] + 1 \in 0..2
        /\ UNCHANGED <<connections, phase, peerOf, established, closing, fresh>>
    BY <1>8 DEF Tick, passVars, ConnInv
  <2>2. age' \in [Conns -> 0..2]
    BY <2>1 DEF ConnInv
  <2> QED BY <2>1, <2>2 DEF ConnInv, Threads
<1>9. CASE WipeDrops \/ StopClears
  <2>1. /\ Unmap(Mapped) /\ Discard(Mapped) /\ UNCHANGED <<established, age, fresh>>
        /\ closing' \in {closing, closing \union (Mapped \ Stillborn)}
    BY <1>9 DEF WipeDrops, StopClears, Close, passVars
  <2>2. Mapped \subseteq Conns /\ NoConn \notin Mapped
    BY MappedFinite DEF Mapped, ConnInv
  <2>3. closing' \subseteq Conns
    BY <2>1, <2>2 DEF ConnInv
  <2> QED BY <2>1, <2>2, <2>3, ConnDiscarded
<1>10. CASE StopCloses
  <2>1. closing' \subseteq Conns
        /\ UNCHANGED <<connections, phase, peerOf, established, age, fresh>>
    BY <1>10, MappedFinite DEF StopCloses, Close, passVars, ConnInv
  <2> QED BY <2>1 DEF ConnInv, Threads
<1>11. CASE WipeMarks \/ ResyncEnds \/ Restart
  BY <1>11, ConnKept DEF WipeMarks, ResyncEnds, Restart, passVars
<1> QED BY <1>1, <1>2, <1>3, <1>4, <1>5, <1>6, <1>7, <1>8, <1>9, <1>10, <1>11 DEF Next

LEMMA InitPass == Init => PassInv
<1> SUFFICES ASSUME Init PROVE PassInv
  OBVIOUS
<1>1. PICK m \in Maints : pc = [t \in Threads |-> IF t = m THEN "top" ELSE "off"]
  BY DEF Init
<1>2. goal \in [Threads -> 0..MaxConnections]
  BY BoundsAssumption DEF Init
<1> QED BY <1>1, <1>2 DEF Init, PassInv, ThreadPCs

LEMMA GoalBounded ==
  ASSUME ConnInv
  PROVE  Goal \in 0..MaxConnections
<1>1. Cardinality(Mapped) \in Nat
  BY MappedFinite DEF ConnInv
<1>2. Cardinality(Mapped \intersect established) \in Nat
  BY MappedFinite, FS_Intersection, FS_CardinalityType DEF ConnInv
<1>3. Cap \in Nat /\ MaxConnections \in Nat
  BY BoundsAssumption DEF Cap
<1> QED BY <1>1, <1>2, <1>3 DEF Goal

LEMMA PassKept ==
  ASSUME PassInv, UNCHANGED <<pc, goal, current, cands, todo, victim>>,
         dropped' \subseteq Peers, gone' \subseteq Peers
  PROVE  PassInv'
BY DEF PassInv, Threads

\* The pass of one thread goes on.
LEMMA PassMoves ==
  ASSUME PassInv, NEW t \in Threads,
         pc' \in [Threads -> ThreadPCs],
         goal' \in [Threads -> 0..MaxConnections],
         current' \in [Threads -> SUBSET Peers],
         cands' \in [Threads -> SUBSET Peers],
         todo' \in [Threads -> SUBSET Conns],
         victim' \in [Threads -> Conns \union {NoConn}],
         \A u \in Threads \ {t} : pc'[u] = pc[u] /\ victim'[u] = victim[u] /\ todo'[u] = todo[u],
         pc'[t] \in {"reap", "stalled", "evict", "trim"} => t \in Maints,
         pc'[t] = "evict" <=> victim'[t] # NoConn,
         victim'[t] \notin todo'[t],
         UNCHANGED <<dropped, gone>>
  PROVE  PassInv'
BY DEF PassInv, Threads

LEMMA PassSame ==
  ASSUME PassInv, NEW t \in Threads
  PROVE  /\ goal[t] \in 0..MaxConnections
         /\ current[t] \in SUBSET Peers /\ cands[t] \in SUBSET Peers
         /\ todo[t] \in SUBSET Conns
         /\ pc[t] = "evict" <=> victim[t] # NoConn
         /\ victim[t] \notin todo[t]
         /\ NoConn \notin Conns
BY ConnsAssumption DEF PassInv

LEMMA EnsurePass ==
  ASSUME ConnInv, PassInv, store \subseteq Peers, NEW t \in Threads, EnsureStep(t)
  PROVE  PassInv'
<1> USE DEF netVars
<1>0. /\ 0 \in 0..MaxConnections /\ {} \subseteq Peers /\ {} \subseteq Conns
      /\ Mapped \subseteq Conns /\ EnsureEnds(t) \in ThreadPCs
      /\ EnsureEnds(t) \in {"reap", "off"} /\ (EnsureEnds(t) = "reap" => t \in Maints)
      /\ {"off", "prefer", "best"} \subseteq ThreadPCs
  BY BoundsAssumption, MappedFinite DEF EnsureEnds, ThreadPCs, ConnInv
<1>1. CASE EnsureBegins(t)
  <2> DEFINE here == {p \in Peers : connections[p] # NoConn}
             l == IF Goal = 0 THEN EnsureEnds(t) ELSE "prefer"
             cu == IF Goal = 0 THEN {} ELSE here
             ca == IF Goal = 0 THEN {} ELSE (dropped \intersect store) \ here
             td == IF Goal = 0 /\ t \in Maints THEN Mapped ELSE {}
  <2>1. /\ pc[t] = "top" /\ pc' = [pc EXCEPT ![t] = l]
        /\ current' = [current EXCEPT ![t] = cu] /\ cands' = [cands EXCEPT ![t] = ca]
        /\ goal' = [goal EXCEPT ![t] = Goal] /\ todo' = [todo EXCEPT ![t] = td]
        /\ UNCHANGED <<victim, dropped, gone>>
    BY <1>1 DEF EnsureBegins, Goto
  <2>2. l \in ThreadPCs /\ l # "evict"
        /\ (l \in {"reap", "stalled", "evict", "trim"} => t \in Maints)
    BY <1>0
  <2>3. cu \in SUBSET Peers /\ ca \in SUBSET Peers /\ td \in SUBSET Conns
    BY <1>0
  <2>4. victim[t] = NoConn /\ NoConn \notin Conns
    BY <2>1, PassSame
  <2> HIDE DEF l, cu, ca, td
  <2> QED BY <2>1, <2>2, <2>3, <2>4, ConnsAssumption, GoalBounded, PassMoves DEF PassInv
<1>2. CASE PassEnds(t)
  <2>1. /\ pc[t] = "top" /\ pc' = [pc EXCEPT ![t] = "off"]
        /\ UNCHANGED <<goal, current, cands, todo, victim, dropped, gone>>
    BY <1>2 DEF PassEnds, Goto
  <2> QED BY <1>0, <2>1, ConnsAssumption, PassMoves DEF PassInv
<1>3. CASE Spawn(t)
  <2>1. PICK p \in cands[t] :
          /\ cands' = [cands EXCEPT ![t] = @ \ {p}]
          /\ current' = [current EXCEPT ![t] = @ \union {p}]
          /\ goal' = [goal EXCEPT ![t] = @ - 1]
    BY <1>3 DEF Spawn
  <2>2. goal[t] - 1 \in 0..MaxConnections /\ UNCHANGED <<pc, todo, victim, dropped, gone>>
    BY <1>3, BoundsAssumption, PassSame DEF Spawn
  <2>3. cands[t] \ {p} \in SUBSET Peers /\ current[t] \union {p} \in SUBSET Peers
    BY PassSame
  <2> QED BY <2>1, <2>2, <2>3, ConnsAssumption, PassMoves DEF PassInv
<1>4. CASE Start(t)
  <2>1. UNCHANGED <<pc, goal, current, cands, todo, victim, dropped, gone>>
    BY <1>4 DEF Start
  <2> QED BY <2>1, PassKept DEF PassInv
<1>5. CASE PreferEnds(t)
  <2>1. /\ pc[t] = "prefer" /\ pc' = [pc EXCEPT ![t] = "best"]
        /\ cands' = [cands EXCEPT ![t] = (store \ cool) \ current[t]]
        /\ UNCHANGED <<goal, current, todo, victim, dropped, gone>>
    BY <1>5 DEF PreferEnds, Goto
  <2>2. (store \ cool) \ current[t] \in SUBSET Peers
    OBVIOUS
  <2> QED BY <1>0, <2>1, <2>2, ConnsAssumption, PassMoves DEF PassInv
<1>6. CASE BestEnds(t)
  <2> DEFINE td == IF t \in Maints THEN Mapped ELSE {}
             l == EnsureEnds(t)
  <2>1. /\ pc[t] = "best" /\ pc' = [pc EXCEPT ![t] = l]
        /\ goal' = [goal EXCEPT ![t] = 0] /\ cands' = [cands EXCEPT ![t] = {}]
        /\ current' = [current EXCEPT ![t] = {}] /\ todo' = [todo EXCEPT ![t] = td]
        /\ UNCHANGED <<victim, dropped, gone>>
    BY <1>6 DEF BestEnds, Goto
  <2>2. td \in SUBSET Conns /\ l \in ThreadPCs /\ l \in {"reap", "off"} /\ (l = "reap" => t \in Maints)
    BY <1>0
  <2>3. victim[t] = NoConn /\ NoConn \notin Conns
    BY <2>1, PassSame
  <2> HIDE DEF l, td
  <2> QED BY <1>0, <2>1, <2>2, <2>3, ConnsAssumption, PassMoves DEF PassInv
<1> QED BY <1>1, <1>2, <1>3, <1>4, <1>5, <1>6 DEF EnsureStep

LEMMA PrunePass ==
  ASSUME ConnInv, PassInv, NEW t \in Threads, PruneStep(t)
  PROVE  PassInv'
<1> USE DEF netVars
<1>0. Mapped \subseteq Conns /\ NoConn \notin Mapped /\ NoConn \notin Conns
      /\ {"top", "stalled", "evict", "trim"} \subseteq ThreadPCs
  BY MappedFinite, ConnsAssumption DEF ThreadPCs, ConnInv
<1>1. CASE Reap(t)
  <2>1. PICK c \in todo[t] : todo' = [todo EXCEPT ![t] = @ \ {c}]
    BY <1>1 DEF Reap
  <2>2. todo[t] \ {c} \in SUBSET Conns /\ UNCHANGED <<pc, goal, current, cands, victim, dropped, gone>>
    BY <1>1, PassSame DEF Reap
  <2>3. victim[t] \notin todo[t] \ {c}
    BY PassSame
  <2> QED BY <2>1, <2>2, <2>3, ConnsAssumption, PassMoves DEF PassInv
<1>2. CASE ReapEnds(t)
  <2>1. /\ pc[t] = "reap" /\ pc' = [pc EXCEPT ![t] = "stalled"]
        /\ todo' = [todo EXCEPT ![t] = Mapped]
        /\ UNCHANGED <<goal, current, cands, victim, dropped, gone>>
    BY <1>2 DEF ReapEnds, Goto
  <2>2. victim[t] = NoConn
    BY <2>1, PassSame
  <2> QED BY <1>0, <2>1, <2>2, ConnsAssumption, PassMoves DEF PassInv
<1>3. CASE Judge(t)
  <2>1. PICK c \in todo[t] :
          /\ todo' = [todo EXCEPT ![t] = @ \ {c}]
          /\ \/ victim' = [victim EXCEPT ![t] = c] /\ pc' = [pc EXCEPT ![t] = "evict"]
             \/ UNCHANGED <<victim, pc>>
    BY <1>3 DEF Judge, Goto
  <2>2. /\ todo[t] \ {c} \in SUBSET Conns /\ c \in Conns /\ pc[t] = "stalled"
        /\ UNCHANGED <<goal, current, cands, dropped, gone>>
    BY <1>3, PassSame DEF Judge
  <2>3. victim[t] \notin todo[t] \ {c} /\ c \notin todo[t] \ {c} /\ c # NoConn
    BY <1>0, <2>2, PassSame
  <2>4. CASE victim' = [victim EXCEPT ![t] = c] /\ pc' = [pc EXCEPT ![t] = "evict"]
    BY <1>0, <2>1, <2>2, <2>3, <2>4, ConnsAssumption, PassMoves DEF PassInv
  <2>5. CASE UNCHANGED <<victim, pc>>
    BY <1>0, <2>1, <2>2, <2>3, <2>5, ConnsAssumption, PassMoves DEF PassInv
  <2> QED BY <2>1, <2>4, <2>5
<1>4. CASE Evict(t)
  <2>1. /\ pc[t] = "evict" /\ pc' = [pc EXCEPT ![t] = "stalled"]
        /\ victim' = [victim EXCEPT ![t] = NoConn]
        /\ UNCHANGED <<goal, current, cands, todo, dropped, gone>>
    BY <1>4 DEF Evict, Goto
  <2>2. NoConn \notin todo[t]
    BY <1>0, PassSame
  <2> QED BY <1>0, <2>1, <2>2, ConnsAssumption, PassMoves DEF PassInv
<1>5. CASE JudgeEnds(t)
  <2>1. /\ pc[t] = "stalled" /\ pc' = [pc EXCEPT ![t] = "trim"]
        /\ UNCHANGED <<goal, current, cands, todo, victim, dropped, gone>>
    BY <1>5 DEF JudgeEnds, Goto
  <2> QED BY <1>0, <2>1, ConnsAssumption, PassMoves DEF PassInv
<1>6. CASE Trim(t)
  <2>1. /\ pc[t] = "trim" /\ pc' = [pc EXCEPT ![t] = "top"]
        /\ UNCHANGED <<goal, current, cands, todo, victim, dropped, gone>>
    BY <1>6 DEF Trim, Goto
  <2> QED BY <1>0, <2>1, ConnsAssumption, PassMoves DEF PassInv
<1> QED BY <1>1, <1>2, <1>3, <1>4, <1>5, <1>6 DEF PruneStep

LEMMA NextPass == ConnInv /\ PassInv /\ store \subseteq Peers /\ [Next]_vars => PassInv'
<1> SUFFICES ASSUME ConnInv, PassInv, store \subseteq Peers, [Next]_vars PROVE PassInv'
  OBVIOUS
<1> USE DEF passVars, netVars
<1>k. ASSUME UNCHANGED <<passVars, dropped, gone>> PROVE PassInv'
  BY <1>k, PassKept DEF PassInv
<1>1. CASE UNCHANGED vars
  BY <1>1, <1>k DEF vars
<1>2. ASSUME NEW p \in Peers, AddPeer(p) \/ CoolEnds(p) PROVE PassInv'
  BY <1>2, <1>k DEF AddPeer, CoolEnds
<1>3. ASSUME NEW c \in Conns, ConnStep(c) \/ BadVersion(c) \/ Verack(c) \/ Useful(c) \/ Tick(c)
      PROVE  PassInv'
  BY <1>3, <1>k DEF ConnStep, Connected, Fails, Unregister, Finish, BadVersion, Verack, Useful, Tick
<1>4. CASE WipeDrops
  <2>1. UNCHANGED <<passVars, dropped>> /\ gone' \subseteq Peers
    BY <1>4 DEF WipeDrops
  <2> QED BY <2>1, PassKept DEF PassInv
<1>5. CASE WipeMarks
  <2>1. pc' = [t \in Threads |-> IF running /\ t \in Kickers /\ pc[t] = "off" THEN "top" ELSE pc[t]]
        /\ dropped' = gone /\ gone' = {}
        /\ UNCHANGED <<goal, current, cands, todo, victim>>
    BY <1>5 DEF WipeMarks
  <2>2. pc' \in [Threads -> ThreadPCs]
    BY <2>1 DEF PassInv, ThreadPCs
  <2>3. \A t \in Threads : pc'[t] = pc[t] \/ (pc'[t] = "top" /\ pc[t] = "off")
    BY <2>1
  <2> QED BY <2>1, <2>2, <2>3 DEF PassInv, Threads
<1>6. CASE ResyncEnds
  BY <1>6, PassKept DEF ResyncEnds, PassInv
<1>7. CASE StopCloses \/ StopClears
  BY <1>7, <1>k DEF StopCloses, StopClears
<1>8. CASE Restart
  <2>1. PICK t \in Maints : pc[t] = "off" /\ pc' = [pc EXCEPT ![t] = "top"]
    BY <1>8 DEF Restart, Goto
  <2>2. UNCHANGED <<goal, current, cands, todo, victim, dropped, gone>>
    BY <1>8 DEF Restart
  <2>3. t \in Threads /\ "top" \in ThreadPCs
    BY DEF Threads, ThreadPCs
  <2> QED BY <2>1, <2>2, <2>3, ConnsAssumption, PassMoves DEF PassInv
<1> QED BY <1>1, <1>2, <1>3, <1>4, <1>5, <1>6, <1>7, <1>8, EnsurePass, PrunePass DEF Next

-----------------------------------------------------------------------------
(* The peer store                                                            *)

\* Connections that fail are counted at least as often in the record as once
\* each, and both counts begin together.
StoreInv ==
  /\ store \subseteq Peers /\ Cardinality(store) <= MaxPeers
  /\ fails \in [Peers -> 0..(MaxFails - 1)]
  /\ cool \subseteq store
  /\ lost \in [Peers -> 0..MaxFails] /\ counted \subseteq Conns
  /\ \A p \in store : lost[p] <= fails[p]

LEMMA InitStore == Init => StoreInv
<1> SUFFICES ASSUME Init PROVE StoreInv
  OBVIOUS
<1>1. 0 \in 0..(MaxFails - 1) /\ 0 \in 0..MaxFails
  BY BoundsAssumption
<1>2. fails \in [Peers -> 0..(MaxFails - 1)] /\ lost \in [Peers -> 0..MaxFails]
  BY <1>1 DEF Init
<1> QED BY <1>2 DEF Init, StoreInv

LEMMA StoreKept ==
  ASSUME StoreInv, cool' \subseteq store, UNCHANGED <<store, fails, lost, counted>>
  PROVE  StoreInv'
BY DEF StoreInv

LEMMA TouchStore ==
  ASSUME StoreInv, NEW p, Touch(p), UNCHANGED <<store, fails, lost, counted>>
  PROVE  StoreInv'
BY StoreKept DEF Touch, StoreInv

LEMMA StoreFinite ==
  ASSUME StoreInv
  PROVE  IsFiniteSet(store) /\ Cardinality(store) \in Nat
BY PeersAssumption, FS_Subset, FS_CardinalityType DEF StoreInv

LEMMA FailureStore ==
  ASSUME ConnInv, StoreInv, NEW c \in Conns, phase[c] # "free", Failure(c), counted' \subseteq Conns
  PROVE  StoreInv'
<1> DEFINE p == peerOf[c]
           last == fails[p] + 1 >= MaxFails
<1>1. CASE p \notin store
  <2>1. UNCHANGED <<store, fails, cool, lost>>
    BY <1>1 DEF Failure
  <2> QED BY <2>1 DEF StoreInv
<1>2. CASE p \in store
  <2>1. /\ fails' = [fails EXCEPT ![p] = IF last THEN 0 ELSE fails[p] + 1]
        /\ store' = IF last THEN store \ {p} ELSE store
        /\ cool' = IF last THEN cool \ {p} ELSE cool \union {p}
        /\ lost' = [lost EXCEPT ![p] = IF c \in counted THEN lost[p] ELSE lost[p] + 1]
    BY <1>2 DEF Failure
  <2>2. p \in Peers /\ lost[p] <= fails[p] /\ fails[p] \in 0..(MaxFails - 1) /\ lost[p] \in 0..MaxFails
    BY <1>2 DEF StoreInv
  <2> HIDE DEF p
  <2>3. fails' \in [Peers -> 0..(MaxFails - 1)]
    <3>1. (IF last THEN 0 ELSE fails[p] + 1) \in 0..(MaxFails - 1)
      BY <2>2, BoundsAssumption
    <3> QED BY <2>1, <3>1 DEF StoreInv
  <2>4. lost' \in [Peers -> 0..MaxFails]
    <3>1. (IF c \in counted THEN lost[p] ELSE lost[p] + 1) \in 0..MaxFails
      BY <2>2, BoundsAssumption
    <3> QED BY <2>1, <3>1 DEF StoreInv
  <2>5. store' \subseteq Peers /\ cool' \subseteq store'
    BY <1>2, <2>1 DEF StoreInv, p
  <2>6. Cardinality(store') <= MaxPeers
    <3>1. Cardinality(store') \in Nat /\ Cardinality(store') <= Cardinality(store)
      BY <2>1, StoreFinite, FS_Subset, FS_CardinalityType
    <3> QED BY <3>1, StoreFinite, BoundsAssumption DEF StoreInv
  <2>7. \A q \in store' : lost'[q] <= fails'[q]
    <3> SUFFICES ASSUME NEW q \in store' PROVE lost'[q] <= fails'[q]
      OBVIOUS
    <3>1. q \in store /\ q \in Peers
      BY <2>1 DEF StoreInv
    <3>2. CASE q = p
      <4>1. ~last
        BY <2>1, <3>2
      <4>2. fails'[q] = fails[p] + 1 /\ lost'[q] \in {lost[p], lost[p] + 1}
        BY <2>1, <2>2, <3>2, <4>1 DEF StoreInv
      <4> QED BY <2>2, <4>2
    <3>3. CASE q # p
      BY <2>1, <3>1, <3>3 DEF StoreInv
    <3> QED BY <3>2, <3>3
  <2> QED BY <2>3, <2>4, <2>5, <2>6, <2>7 DEF StoreInv
<1> QED BY <1>1, <1>2

LEMMA AddPeerStore ==
  ASSUME StoreInv, NEW p \in Peers, AddPeer(p)
  PROVE  StoreInv'
<1> DEFINE more == store \union {p}
<1>1. PICK S \in SUBSET more :
        /\ Cardinality(more) - Cardinality(S) = IF Cardinality(more) > MaxPeers THEN 1 ELSE 0
        /\ store' = S
        /\ fails' = [q \in Peers |-> IF q \in S /\ q # p THEN fails[q] ELSE 0]
        /\ cool' = cool \intersect (S \ {p})
        /\ Forgiven({p} \union (store \ S))
  BY DEF AddPeer
<1>2. p \notin store
  BY DEF AddPeer
<1>3. IsFiniteSet(more) /\ Cardinality(more) = Cardinality(store) + 1
  BY <1>2, StoreFinite, FS_AddElement
<1>4. Cardinality(S) \in Nat
  BY <1>3, FS_Subset, FS_CardinalityType
<1>5. Cardinality(S) <= MaxPeers
  BY <1>1, <1>3, <1>4, StoreFinite, BoundsAssumption DEF StoreInv
<1>6. 0 \in 0..(MaxFails - 1) /\ 0 \in 0..MaxFails
  BY BoundsAssumption
<1>7. fails' \in [Peers -> 0..(MaxFails - 1)]
  BY <1>1, <1>6 DEF StoreInv
<1>8. lost' = [q \in Peers |-> IF q \in {p} \union (store \ S) THEN 0 ELSE lost[q]]
      /\ counted' \subseteq counted
  BY <1>1 DEF Forgiven
<1>9. lost' \in [Peers -> 0..MaxFails]
  BY <1>6, <1>8 DEF StoreInv
<1>10. \A q \in store' : lost'[q] <= fails'[q]
  <2> SUFFICES ASSUME NEW q \in S PROVE lost'[q] <= fails'[q]
    BY <1>1
  <2>1. q \in Peers /\ (q = p \/ q \in store)
    BY DEF StoreInv
  <2>2. CASE q = p
    BY <1>1, <1>8, <2>1, <2>2
  <2>3. CASE q # p
    BY <1>1, <1>8, <2>1, <2>3 DEF StoreInv
  <2> QED BY <2>2, <2>3
<1>11. store' \subseteq Peers /\ cool' \subseteq store' /\ counted' \subseteq Conns
  BY <1>1, <1>8 DEF StoreInv
<1> QED BY <1>1, <1>5, <1>7, <1>9, <1>10, <1>11 DEF StoreInv

LEMMA SuccessStore ==
  ASSUME StoreInv, NEW p \in Peers, RecordSuccess(p)
  PROVE  StoreInv'
<1>1. CASE p \notin store
  BY <1>1, StoreKept DEF RecordSuccess, storeVars, StoreInv
<1>2. CASE p \in store
  <2>1. /\ fails' = [fails EXCEPT ![p] = 0]
        /\ lost' = [q \in Peers |-> IF q \in {p} THEN 0 ELSE lost[q]]
        /\ counted' \subseteq counted /\ cool' \subseteq store /\ store' = store
    BY <1>2 DEF RecordSuccess, SuccessClears, Touch, Forgiven, StoreInv
  <2>2. 0 \in 0..(MaxFails - 1) /\ 0 \in 0..MaxFails
    BY BoundsAssumption
  <2>3. fails' \in [Peers -> 0..(MaxFails - 1)] /\ lost' \in [Peers -> 0..MaxFails]
    BY <2>1, <2>2 DEF StoreInv
  <2>4. \A q \in store : lost'[q] <= fails'[q]
    BY <2>1 DEF StoreInv
  <2> QED BY <2>1, <2>3, <2>4 DEF StoreInv
<1> QED BY <1>1, <1>2

LEMMA NextStore == ConnInv /\ PassInv /\ StoreInv /\ [Next]_vars => StoreInv'
<1> SUFFICES ASSUME ConnInv, PassInv, StoreInv, [Next]_vars PROVE StoreInv'
  OBVIOUS
<1> USE DEF storeVars
<1>k. ASSUME UNCHANGED storeVars PROVE StoreInv'
  BY <1>k DEF StoreInv
<1>1. CASE UNCHANGED vars
  BY <1>1, <1>k DEF vars
<1>2. ASSUME NEW p \in Peers, CoolEnds(p) PROVE StoreInv'
  BY <1>2, StoreKept DEF CoolEnds, StoreInv
<1>3. ASSUME NEW t \in Threads, EnsureStep(t) PROVE StoreInv'
  <2>1. CASE Spawn(t)
    BY <2>1, TouchStore DEF Spawn, RecordAttempt
  <2>2. CASE EnsureBegins(t) \/ PassEnds(t) \/ Start(t) \/ PreferEnds(t) \/ BestEnds(t)
    BY <2>2, <1>k DEF EnsureBegins, PassEnds, Start, PreferEnds, BestEnds
  <2> QED BY <1>3, <2>1, <2>2 DEF EnsureStep
<1>4. ASSUME NEW t \in Threads, PruneStep(t) PROVE StoreInv'
  <2>1. CASE Judge(t)
    <3>1. PICK c \in todo[t] :
            IF Alive(c) /\ (HandshakeStalled(c) \/ Silent(c))
            THEN IF HandshakeStalled(c) THEN RecordFailure(c)
                 ELSE IF Mute(c) THEN RecordMute(peerOf[c])
                 ELSE UNCHANGED storeVars
            ELSE UNCHANGED storeVars
      BY <2>1 DEF Judge
    <3>2. c \in Conns
      BY DEF PassInv
    <3>3. CASE Alive(c) /\ RecordFailure(c)
      <4>1. phase[c] # "free" /\ counted' \subseteq Conns
        BY <3>2, <3>3 DEF Alive, Running, Reading, RecordFailure, StoreInv
      <4> QED BY <3>2, <3>3, <4>1, FailureStore DEF RecordFailure
    <3>4. CASE RecordMute(peerOf[c])
      BY <3>4, TouchStore DEF RecordMute
    <3> QED BY <3>1, <3>3, <3>4, <1>k
  <2>2. CASE Reap(t) \/ ReapEnds(t) \/ Evict(t) \/ JudgeEnds(t) \/ Trim(t)
    BY <2>2, <1>k DEF Reap, ReapEnds, Evict, JudgeEnds, Trim
  <2> QED BY <1>4, <2>1, <2>2 DEF PruneStep
<1>5. ASSUME NEW c \in Conns, ConnStep(c) PROVE StoreInv'
  <2>1. CASE Finish(c)
    <3>1. counted' \subseteq Conns /\ phase[c] # "free"
      BY <2>1 DEF Finish, StoreInv
    <3>2. CASE c \in established
      BY <2>1, <3>1, <3>2 DEF Finish, StoreInv
    <3>3. CASE c \notin established
      BY <2>1, <3>1, <3>3, FailureStore DEF Finish
    <3> QED BY <3>2, <3>3
  <2>2. CASE Connected(c) \/ Fails(c) \/ Unregister(c)
    BY <2>2, <1>k DEF Connected, Fails, Unregister
  <2> QED BY <1>5, <2>1, <2>2 DEF ConnStep
<1>6. ASSUME NEW c \in Conns, BadVersion(c) PROVE StoreInv'
  BY <1>6, <1>k, TouchStore DEF BadVersion, RecordMute
<1>7. ASSUME NEW c \in Conns, Verack(c) PROVE StoreInv'
  BY <1>7, SuccessStore, PeersAssumption DEF Verack
<1>8. ASSUME NEW c \in Conns, Useful(c) \/ Tick(c) PROVE StoreInv'
  BY <1>8, <1>k DEF Useful, Tick
<1>9. CASE WipeMarks
  <2>1. /\ cool' = cool \ gone /\ store' = store /\ counted' \subseteq counted
        /\ fails' = [p \in Peers |-> IF p \in gone THEN 0 ELSE fails[p]]
        /\ lost' = [p \in Peers |-> IF p \in gone THEN 0 ELSE lost[p]]
    BY <1>9 DEF WipeMarks, Forgiven
  <2>2. 0 \in 0..(MaxFails - 1) /\ 0 \in 0..MaxFails
    BY BoundsAssumption
  <2>3. fails' \in [Peers -> 0..(MaxFails - 1)] /\ lost' \in [Peers -> 0..MaxFails]
    BY <2>1, <2>2 DEF StoreInv
  <2>4. \A q \in store : lost'[q] <= fails'[q]
    BY <2>1 DEF StoreInv
  <2> QED BY <2>1, <2>3, <2>4 DEF StoreInv
<1>10. CASE WipeDrops \/ ResyncEnds \/ StopCloses \/ StopClears \/ Restart
  BY <1>10, <1>k DEF WipeDrops, ResyncEnds, StopCloses, StopClears, Restart
<1> QED BY <1>1, <1>2, AddPeerStore, <1>3, <1>4, <1>5, <1>6, <1>7, <1>8, <1>9, <1>10 DEF Next

-----------------------------------------------------------------------------
(* The generations of the network, and what the bounds count                 *)

NetInv ==
  /\ bounds \in [wipes : 0..MaxWipes, stops : 0..MaxStops, unstarted : 0..MaxUnstarted]
  /\ running \in BOOLEAN
  /\ wipe \in {"idle", "mark"} /\ stop \in {"idle", "clear", "start"}
  /\ wipe = "mark" => bounds.wipes > 0
  /\ stop # "idle" => bounds.stops > 0
  /\ generation = IF stop = "idle" THEN 2 * bounds.stops ELSE 2 * bounds.stops - 1
  /\ genOf \in [Threads -> 0..(2 * MaxStops)]

LEMMA InitNet == Init => NetInv
<1> SUFFICES ASSUME Init PROVE NetInv
  OBVIOUS
<1>1. 0 \in 0..MaxWipes /\ 0 \in 0..MaxStops /\ 0 \in 0..MaxUnstarted /\ 0 \in 0..(2 * MaxStops)
  BY BoundsAssumption
<1>2. genOf \in [Threads -> 0..(2 * MaxStops)]
  BY <1>1 DEF Init
<1> QED BY <1>1, <1>2 DEF Init, NetInv

LEMMA NetKept ==
  ASSUME NetInv, UNCHANGED <<genOf, generation, running, wipe, stop, bounds>>
  PROVE  NetInv'
BY DEF NetInv, Threads

LEMMA NextNet == NetInv /\ [Next]_vars => NetInv'
<1> SUFFICES ASSUME NetInv, [Next]_vars PROVE NetInv'
  OBVIOUS
<1> USE DEF netVars, passVars
<1>0. /\ bounds.wipes \in 0..MaxWipes /\ bounds.stops \in 0..MaxStops
      /\ bounds.unstarted \in 0..MaxUnstarted
      /\ bounds = [wipes |-> bounds.wipes, stops |-> bounds.stops, unstarted |-> bounds.unstarted]
  BY DEF NetInv
<1>1. CASE UNCHANGED vars
  BY <1>1, NetKept DEF vars
<1>2. ASSUME NEW p \in Peers, AddPeer(p) \/ CoolEnds(p) PROVE NetInv'
  BY <1>2, NetKept DEF AddPeer, CoolEnds
<1>3. ASSUME NEW t \in Threads, EnsureStep(t) PROVE NetInv'
  <2>1. CASE Start(t)
    <3>1. /\ UNCHANGED <<genOf, generation, running, wipe, stop>>
          /\ \/ UNCHANGED bounds
             \/ /\ bounds.unstarted < MaxUnstarted
                /\ bounds' = [bounds EXCEPT !.unstarted = @ + 1]
      BY <2>1 DEF Start
    <3>2. CASE UNCHANGED bounds
      BY <3>1, <3>2, NetKept
    <3>3. CASE bounds.unstarted < MaxUnstarted /\ bounds' = [bounds EXCEPT !.unstarted = @ + 1]
      <4>1. bounds.unstarted + 1 \in 0..MaxUnstarted
        BY <1>0, <3>3, BoundsAssumption
      <4>2. bounds'.wipes = bounds.wipes /\ bounds'.stops = bounds.stops
            /\ bounds' \in [wipes : 0..MaxWipes, stops : 0..MaxStops, unstarted : 0..MaxUnstarted]
        BY <3>3, <4>1 DEF NetInv
      <4> QED BY <3>1, <4>2 DEF NetInv, Threads
    <3> QED BY <3>1, <3>2, <3>3
  <2>2. CASE EnsureBegins(t) \/ PassEnds(t) \/ Spawn(t) \/ PreferEnds(t) \/ BestEnds(t)
    BY <2>2, NetKept DEF EnsureBegins, PassEnds, Spawn, PreferEnds, BestEnds
  <2> QED BY <1>3, <2>1, <2>2 DEF EnsureStep
<1>4. ASSUME NEW t \in Threads, PruneStep(t) PROVE NetInv'
  BY <1>4, NetKept DEF PruneStep, Reap, ReapEnds, Judge, Evict, JudgeEnds, Trim
<1>5. ASSUME NEW c \in Conns, ConnStep(c) \/ BadVersion(c) \/ Verack(c) \/ Useful(c) \/ Tick(c)
      PROVE  NetInv'
  BY <1>5, NetKept DEF ConnStep, Connected, Fails, Unregister, Finish, BadVersion, Verack, Useful, Tick
<1>6. CASE WipeDrops
  <2>1. /\ bounds.wipes < MaxWipes /\ bounds' = [bounds EXCEPT !.wipes = @ + 1] /\ wipe' = "mark"
        /\ UNCHANGED <<genOf, generation, running, stop>>
    BY <1>6 DEF WipeDrops
  <2>2. bounds.wipes + 1 \in 0..MaxWipes /\ bounds.wipes + 1 > 0
    BY <1>0, <2>1, BoundsAssumption
  <2>3. bounds'.wipes = bounds.wipes + 1 /\ bounds'.stops = bounds.stops
        /\ bounds' \in [wipes : 0..MaxWipes, stops : 0..MaxStops, unstarted : 0..MaxUnstarted]
    BY <2>1, <2>2 DEF NetInv
  <2> QED BY <2>1, <2>2, <2>3 DEF NetInv, Threads
<1>7. CASE WipeMarks \/ ResyncEnds
  <2>1. wipe' \in {wipe, "idle"} /\ UNCHANGED <<genOf, generation, running, stop, bounds>>
    BY <1>7 DEF WipeMarks, ResyncEnds
  <2> QED BY <2>1 DEF NetInv, Threads
<1>8. CASE StopCloses
  <2>1. /\ stop = "idle" /\ stop' = "clear" /\ running' = FALSE /\ generation' = generation + 1
        /\ bounds.stops < MaxStops /\ bounds' = [bounds EXCEPT !.stops = @ + 1]
        /\ UNCHANGED <<genOf, wipe>>
    BY <1>8 DEF StopCloses
  <2>2. bounds.stops + 1 \in 0..MaxStops /\ bounds.stops + 1 > 0
    BY <1>0, <2>1, BoundsAssumption
  <2>3. bounds'.stops = bounds.stops + 1 /\ bounds'.wipes = bounds.wipes
        /\ bounds' \in [wipes : 0..MaxWipes, stops : 0..MaxStops, unstarted : 0..MaxUnstarted]
    BY <2>1, <2>2 DEF NetInv
  <2>4. generation' = 2 * bounds'.stops - 1
    BY <1>0, <2>1, <2>3, BoundsAssumption DEF NetInv
  <2> QED BY <2>1, <2>2, <2>3, <2>4 DEF NetInv, Threads
<1>9. CASE StopClears
  <2>1. stop = "clear" /\ stop' = "start" /\ UNCHANGED <<genOf, generation, running, wipe, bounds>>
    BY <1>9 DEF StopClears
  <2> QED BY <2>1 DEF NetInv, Threads
<1>10. CASE Restart
  <2>1. /\ stop = "start" /\ stop' = "idle" /\ running' = TRUE /\ generation' = generation + 1
        /\ UNCHANGED <<wipe, bounds>>
    BY <1>10 DEF Restart
  <2>2. PICK t \in Maints : genOf' = [genOf EXCEPT ![t] = generation + 1]
    BY <1>10, <2>1 DEF Restart
  <2>3. generation + 1 = 2 * bounds.stops /\ 2 * bounds.stops \in 0..(2 * MaxStops)
    BY <1>0, <2>1, BoundsAssumption DEF NetInv
  <2>4. genOf' \in [Threads -> 0..(2 * MaxStops)]
    BY <2>2, <2>3 DEF NetInv
  <2> QED BY <2>1, <2>3, <2>4 DEF NetInv, Threads
<1> QED BY <1>1, <1>2, <1>3, <1>4, <1>5, <1>6, <1>7, <1>8, <1>9, <1>10 DEF Next

IInv == ConnInv /\ PassInv /\ StoreInv /\ NetInv

LEMMA InitInv == Init => IInv
BY InitConn, InitPass, InitStore, InitNet DEF IInv

LEMMA NextInv == IInv /\ [Next]_vars => IInv'
<1>1. StoreInv => store \subseteq Peers
  BY DEF StoreInv
<1> QED BY <1>1, NextConn, NextPass, NextStore, NextNet DEF IInv

\* Every variable of the connections, the passes, the store and the network
\* has its type; the store is within its limit.
THEOREM TypeCorrect == Spec => []TypeOK
<1>1. IInv => TypeOK
  <2> SUFFICES ASSUME IInv PROVE TypeOK
    OBVIOUS
  <2>1. generation \in 0..(2 * MaxStops)
    <3>1. bounds.stops \in 0..MaxStops /\ (stop # "idle" => bounds.stops > 0)
      BY DEF IInv, NetInv
    <3> QED BY <3>1, BoundsAssumption DEF IInv, NetInv
  <2> QED BY <2>1 DEF IInv, ConnInv, PassInv, StoreInv, NetInv, TypeOK
<1> QED BY <1>1, InitInv, NextInv, PTL DEF Spec

-----------------------------------------------------------------------------
(* Who leaves the table                                                      *)

LEMMA SpawnMapped ==
  ASSUME connections \in [Peers -> Conns \union {NoConn}],
         NEW p \in Peers, connections[p] = NoConn, NEW c \in Conns,
         connections' = [connections EXCEPT ![p] = c]
  PROVE  Mapped' = Mapped \union {c}
<1>1. \A q \in Peers : connections'[q] = IF q = p THEN c ELSE connections[q]
  OBVIOUS
<1>2. Mapped' = {connections'[q] : q \in Peers} \ {NoConn}
  BY DEF Mapped
<1>3. c # NoConn
  BY ConnsAssumption
<1>4. \A d : d \in Mapped' => d \in Mapped \union {c}
  BY <1>1, <1>2 DEF Mapped
<1>5. \A d : d \in Mapped => d \in Mapped'
  BY <1>1, <1>2 DEF Mapped
<1>6. c \in Mapped'
  BY <1>1, <1>2, <1>3
<1> QED BY <1>4, <1>5, <1>6

\* Every step but the dial of an address keeps the table or takes entries out
\* of it: those of dead connections, or of connections it closes, or all.
LEMMA Leaving ==
  ASSUME ConnInv, PassInv, [Next]_vars, NEW c \in Conns, c \in Mapped, c \notin Mapped', Alive(c)
  PROVE  c \in closing' \/ stop = "clear"
<1> USE DEF connVars, netVars
<1>0. connections \in [Peers -> Conns \union {NoConn}] /\ c \notin Stillborn /\ c # NoConn
  BY ConnsAssumption DEF ConnInv, Stillborn, Alive, Running, Reading
<1>k. ASSUME UNCHANGED connections PROVE FALSE
  BY <1>k DEF Mapped
<1>1. CASE UNCHANGED vars
  BY <1>1, <1>k DEF vars
<1>2. ASSUME NEW p \in Peers, AddPeer(p) \/ CoolEnds(p) PROVE FALSE
  BY <1>2, <1>k DEF AddPeer, CoolEnds
<1>3. ASSUME NEW t \in Threads, EnsureStep(t) PROVE FALSE
  <2>1. CASE Spawn(t)
    <3>1. PICK p \in cands[t] :
            IF running /\ connections[p] = NoConn
            THEN \E d \in Conns : connections' = [connections EXCEPT ![p] = d]
            ELSE UNCHANGED <<connections, phase, peerOf, fresh>>
      BY <2>1 DEF Spawn
    <3>2. p \in Peers
      BY DEF PassInv
    <3> QED BY <1>0, <1>k, <3>1, <3>2, SpawnMapped
  <2>2. CASE EnsureBegins(t) \/ PassEnds(t) \/ Start(t) \/ PreferEnds(t) \/ BestEnds(t)
    BY <2>2, <1>k DEF EnsureBegins, PassEnds, Start, PreferEnds, BestEnds
  <2> QED BY <1>3, <2>1, <2>2 DEF EnsureStep
<1>4. ASSUME NEW t \in Threads, PruneStep(t) PROVE c \in closing'
  <2>1. CASE Reap(t)
    <3>1. PICK d \in todo[t] :
            IF ~Alive(d) THEN Unmap({d}) ELSE UNCHANGED <<connections, phase, peerOf>>
      BY <2>1 DEF Reap
    <3>2. NoConn \notin {d}
      BY ConnsAssumption DEF PassInv
    <3>3. CASE ~Alive(d)
      BY <1>0, <3>1, <3>2, <3>3, UnmapMapped
    <3>4. CASE Alive(d)
      BY <3>1, <3>4, <1>k
    <3> QED BY <3>3, <3>4
  <2>2. CASE Evict(t)
    <3>1. Unmap({victim[t]}) /\ Close({victim[t]} \intersect Mapped) /\ NoConn \notin {victim[t]}
      BY <2>2 DEF Evict, PassInv
    <3>2. c = victim[t]
      BY <1>0, <3>1, UnmapMapped
    <3> QED BY <1>0, <3>1, <3>2 DEF Close
  <2>3. CASE Trim(t)
    <3>1. PICK cs \in SUBSET Mapped : Unmap(cs) /\ Close(cs)
      BY <2>3 DEF Trim
    <3>2. NoConn \notin cs
      BY DEF Mapped
    <3>3. c \in cs
      BY <1>0, <3>1, <3>2, UnmapMapped
    <3> QED BY <1>0, <3>1, <3>3 DEF Close
  <2>4. CASE ReapEnds(t) \/ Judge(t) \/ JudgeEnds(t)
    BY <2>4, <1>k DEF ReapEnds, Judge, JudgeEnds
  <2> QED BY <1>4, <2>1, <2>2, <2>3, <2>4 DEF PruneStep
<1>5. ASSUME NEW d \in Conns, ConnStep(d) PROVE c \in closing'
  <2>1. CASE Unregister(d)
    <3>1. Unmap({d}) /\ closing' = closing \union {d} /\ NoConn \notin {d}
      BY <2>1, ConnsAssumption DEF Unregister, OwnEntry
    <3> QED BY <1>0, <3>1, UnmapMapped
  <2>2. CASE Connected(d) \/ Fails(d) \/ Finish(d)
    BY <2>2, <1>k DEF Connected, Fails, Finish
  <2> QED BY <1>5, <2>1, <2>2 DEF ConnStep
<1>6. ASSUME NEW d \in Conns, BadVersion(d) \/ Verack(d) \/ Useful(d) \/ Tick(d) PROVE FALSE
  BY <1>6, <1>k DEF BadVersion, Verack, Useful, Tick
<1>7. CASE WipeDrops
  BY <1>0, <1>7 DEF WipeDrops, Close
<1>8. CASE StopClears
  BY <1>8 DEF StopClears
<1>9. CASE WipeMarks \/ ResyncEnds \/ StopCloses \/ Restart
  BY <1>9, <1>k DEF WipeMarks, ResyncEnds, StopCloses, Restart
<1> QED BY <1>1, <1>2, <1>3, <1>4, <1>5, <1>6, <1>7, <1>8, <1>9 DEF Next

\* peer.py:88-92: a running connection leaves the table when it is closed, and
\* otherwise only by the clear() of stop.
THEOREM NoneAbandoned == Spec => NotAbandoned
<1>1. IInv /\ [Next]_vars =>
        [\A c \in Conns :
           c \in Mapped /\ c \notin Mapped' /\ Alive(c) => c \in closing' \/ stop = "clear"]_vars
  BY Leaving DEF IInv
<1> QED BY <1>1, InitInv, NextInv, PTL DEF Spec, NotAbandoned

-----------------------------------------------------------------------------
(* The half-open budget                                                      *)

Calm == bounds.wipes = 0 /\ bounds.stops = 0

\* Until a wipe or a stop one thread dials, and what it may still dial in this
\* pass is within the budget.
BudgetInv ==
  Calm =>
    /\ Cardinality(Mapped) <= Cap
    /\ \E m \in Threads : \A t \in Threads : t # m => pc[t] = "off"
    /\ \A t \in Threads :
         pc[t] \in {"prefer", "best"} => Cardinality(Mapped) + goal[t] <= Cap

LEMMA CapIsNat == Cap \in Nat
BY BoundsAssumption DEF Cap

LEMMA InitBudget == Init => BudgetInv
<1> SUFFICES ASSUME Init PROVE BudgetInv
  OBVIOUS
<1>1. \A d : d \notin Mapped
  BY DEF Init, Mapped
<1>2. Mapped = {}
  BY <1>1
<1>3. Cardinality(Mapped) = 0
  BY <1>2, FS_EmptySet
<1>4. PICK m \in Maints : pc = [t \in Threads |-> IF t = m THEN "top" ELSE "off"]
  BY DEF Init
<1>5. m \in Threads /\ (\A t \in Threads : t # m => pc[t] = "off")
      /\ (\A t \in Threads : pc[t] \notin {"prefer", "best"})
  BY <1>4 DEF Threads
<1> QED BY <1>3, <1>5, CapIsNat DEF BudgetInv

\* No entry is added, no idle thread starts, and no thread starts to dial.
LEMMA BudgetKept ==
  ASSUME ConnInv, PassInv, BudgetInv, goal' \in [Threads -> 0..MaxConnections],
         Calm' => Calm, Mapped' \subseteq Mapped,
         \A t \in Threads : pc[t] = "off" => pc'[t] = "off",
         \A t \in Threads : pc'[t] \in {"prefer", "best"} =>
                              pc[t] \in {"prefer", "best"} /\ goal'[t] <= goal[t]
  PROVE  BudgetInv'
<1> SUFFICES ASSUME Calm' PROVE
      /\ Cardinality(Mapped') <= Cap
      /\ \E m \in Threads : \A t \in Threads : t # m => pc'[t] = "off"
      /\ \A t \in Threads :
           pc'[t] \in {"prefer", "best"} => Cardinality(Mapped') + goal'[t] <= Cap
  BY DEF BudgetInv, Threads, Cap
<1>1. IsFiniteSet(Mapped) /\ Cardinality(Mapped) \in Nat
  BY MappedFinite DEF ConnInv
<1>2. Cardinality(Mapped') \in Nat /\ Cardinality(Mapped') <= Cardinality(Mapped)
  BY <1>1, FS_Subset, FS_CardinalityType
<1>3. /\ Cardinality(Mapped) <= Cap
      /\ \E m \in Threads : \A t \in Threads : t # m => pc[t] = "off"
      /\ \A t \in Threads :
           pc[t] \in {"prefer", "best"} => Cardinality(Mapped) + goal[t] <= Cap
  BY DEF BudgetInv
<1>4. ASSUME NEW t \in Threads, pc'[t] \in {"prefer", "best"}
      PROVE  Cardinality(Mapped') + goal'[t] <= Cap
  <2>1. Cardinality(Mapped) + goal[t] <= Cap /\ goal'[t] <= goal[t]
    BY <1>3, <1>4
  <2>2. goal[t] \in Nat /\ goal'[t] \in Nat
    BY BoundsAssumption DEF PassInv
  <2> QED BY <1>1, <1>2, <2>1, <2>2, CapIsNat
<1>5. Cardinality(Mapped') <= Cap
  BY <1>1, <1>2, <1>3, CapIsNat
<1> QED BY <1>3, <1>4, <1>5

LEMMA SpawnBudget ==
  ASSUME ConnInv, PassInv, ConnInv', BudgetInv, NEW t \in Threads, Spawn(t)
  PROVE  BudgetInv'
<1> SUFFICES ASSUME Calm PROVE
      /\ Cardinality(Mapped') <= Cap
      /\ \E m \in Threads : \A u \in Threads : u # m => pc'[u] = "off"
      /\ \A u \in Threads :
           pc'[u] \in {"prefer", "best"} => Cardinality(Mapped') + goal'[u] <= Cap
  BY DEF BudgetInv, Threads, Cap, Spawn, netVars, Calm
<1>1. /\ pc[t] \in {"prefer", "best"} /\ goal[t] > 0 /\ pc' = pc
      /\ goal' = [goal EXCEPT ![t] = @ - 1]
  BY DEF Spawn
<1>2. PICK m \in Threads : \A u \in Threads : u # m => pc[u] = "off"
  BY DEF BudgetInv
<1>3. \A u \in Threads : pc[u] \in {"prefer", "best"} => u = t
  BY <1>1, <1>2
<1>4. goal[t] \in Nat /\ goal'[t] = goal[t] - 1
  BY <1>1, BoundsAssumption DEF PassInv
<1>5. Cardinality(Mapped) + goal[t] <= Cap
  BY <1>1 DEF BudgetInv
<1>6. Cardinality(Mapped) \in Nat /\ Cardinality(Mapped') \in Nat
      /\ Cardinality(Mapped') <= Cardinality(Mapped) + 1
  <2>1. IsFiniteSet(Mapped) /\ Cardinality(Mapped) \in Nat
    BY MappedFinite DEF ConnInv
  <2>2. PICK p \in cands[t] :
          IF running /\ connections[p] = NoConn
          THEN \E d \in Conns : connections' = [connections EXCEPT ![p] = d]
          ELSE UNCHANGED <<connections, phase, peerOf, fresh>>
    BY DEF Spawn
  <2>3. p \in Peers
    BY DEF PassInv
  <2>4. CASE running /\ connections[p] = NoConn
    <3>1. PICK d \in Conns : connections' = [connections EXCEPT ![p] = d]
      BY <2>2, <2>4
    <3>2. Mapped' = Mapped \union {d}
      BY <2>3, <2>4, <3>1, SpawnMapped DEF ConnInv
    <3>3. Cardinality(Mapped \union {d}) \in {Cardinality(Mapped), Cardinality(Mapped) + 1}
      BY <2>1, FS_AddElement
    <3> QED BY <2>1, <3>2, <3>3
  <2>5. CASE UNCHANGED connections
    <3>1. Mapped' = Mapped
      BY <2>5 DEF Mapped
    <3> QED BY <2>1, <3>1
  <2> QED BY <2>2, <2>4, <2>5
<1>7. Cardinality(Mapped') + goal'[t] <= Cap /\ Cardinality(Mapped') <= Cap
  BY <1>1, <1>4, <1>5, <1>6, CapIsNat
<1> QED BY <1>1, <1>2, <1>3, <1>7

LEMMA BeginBudget ==
  ASSUME ConnInv, PassInv, BudgetInv, NEW t \in Threads, EnsureBegins(t)
  PROVE  BudgetInv'
<1> SUFFICES ASSUME Calm PROVE
      /\ Cardinality(Mapped) <= Cap
      /\ \E m \in Threads : \A u \in Threads : u # m => pc'[u] = "off"
      /\ \A u \in Threads :
           pc'[u] \in {"prefer", "best"} => Cardinality(Mapped) + goal'[u] <= Cap
  BY DEF BudgetInv, Threads, Cap, EnsureBegins, netVars, Calm, Mapped
<1> DEFINE g == Goal
<1>1. /\ pc[t] = "top"
      /\ goal' = [goal EXCEPT ![t] = g]
      /\ pc' = [pc EXCEPT ![t] = IF g = 0 THEN EnsureEnds(t) ELSE "prefer"]
  BY DEF EnsureBegins, Goto
<1>2. PICK m \in Threads : \A u \in Threads : u # m => pc[u] = "off"
  BY DEF BudgetInv
<1>3. t = m
  BY <1>1, <1>2
<1>4. Cardinality(Mapped) \in Nat /\ Cardinality(Mapped) <= Cap
  BY MappedFinite DEF ConnInv, BudgetInv
<1>5. Cardinality(Mapped) + g <= Cap
  <2> DEFINE up == Cardinality(Mapped \intersect established)
             all == Cardinality(Mapped)
             need == IF MaxConnections > up THEN MaxConnections - up ELSE 0
             budget == IF Cap > all THEN Cap - all ELSE 0
  <2>1. g = IF need <= budget THEN need ELSE budget
    BY DEF Goal
  <2>2. budget \in Nat /\ all + budget <= Cap
    BY <1>4, CapIsNat
  <2>3. up \in Nat
    BY MappedFinite, FS_Subset, FS_CardinalityType DEF ConnInv
  <2>4. need \in Nat
    BY <2>3, BoundsAssumption
  <2> HIDE DEF need, budget, g
  <2> QED BY <1>4, <2>1, <2>2, <2>4, CapIsNat
<1> HIDE DEF g
<1>6. \A u \in Threads : u # t => pc'[u] = "off"
  BY <1>1, <1>2, <1>3 DEF PassInv
<1>7. goal'[t] = g
  BY <1>1 DEF PassInv
<1> QED BY <1>2, <1>3, <1>4, <1>5, <1>6, <1>7

LEMMA NextBudget ==
  ConnInv /\ PassInv /\ StoreInv /\ NetInv /\ BudgetInv /\ [Next]_vars => BudgetInv'
<1> SUFFICES ASSUME ConnInv, PassInv, StoreInv, NetInv, BudgetInv, [Next]_vars PROVE BudgetInv'
  OBVIOUS
<1> USE DEF netVars, passVars, connVars
<1>a. ConnInv' /\ PassInv'
  <2>1. store \subseteq Peers
    BY DEF StoreInv
  <2> QED BY <2>1, NextConn, NextPass
<1>b. goal' \in [Threads -> 0..MaxConnections]
  BY <1>a DEF PassInv, Threads
<1>c. connections \in [Peers -> Conns \union {NoConn}]
  BY DEF ConnInv
<1>k. ASSUME bounds' = bounds, Mapped' \subseteq Mapped, goal' = goal,
             \/ pc' = pc
             \/ \E t \in Threads :
                  /\ pc[t] # "off"
                  /\ \E l : l \notin {"prefer", "best"} /\ pc' = [pc EXCEPT ![t] = l]
      PROVE  BudgetInv'
  <2>0. \A t \in Threads : goal[t] <= goal[t]
    BY BoundsAssumption DEF PassInv
  <2>1. /\ \A t \in Threads : pc[t] = "off" => pc'[t] = "off"
        /\ \A t \in Threads : pc'[t] \in {"prefer", "best"} => pc[t] \in {"prefer", "best"}
    BY <1>k DEF PassInv
  <2>2. Calm' => Calm
    BY <1>k DEF Calm
  <2> QED BY <1>b, <1>k, <2>0, <2>1, <2>2, BudgetKept
<1>l. ASSUME UNCHANGED connections PROVE Mapped' \subseteq Mapped
  BY <1>l DEF Mapped
<1>m. ASSUME NEW cs, NoConn \notin cs, Unmap(cs) PROVE Mapped' \subseteq Mapped
  BY <1>c, <1>m, UnmapMapped
<1>1. CASE UNCHANGED vars
  BY <1>1, <1>k, <1>l DEF vars
<1>2. ASSUME NEW p \in Peers, AddPeer(p) \/ CoolEnds(p) PROVE BudgetInv'
  BY <1>2, <1>k, <1>l DEF AddPeer, CoolEnds
<1>3. ASSUME NEW t \in Threads, EnsureStep(t) PROVE BudgetInv'
  <2>1. CASE PassEnds(t)
    BY <2>1, <1>k, <1>l DEF PassEnds, Goto
  <2>2. CASE Start(t)
    <3>1. /\ bounds' \in {bounds, [bounds EXCEPT !.unstarted = @ + 1]}
          /\ UNCHANGED <<connections, pc, goal>>
      BY <2>2 DEF Start
    <3>2. bounds'.wipes = bounds.wipes /\ bounds'.stops = bounds.stops
      BY <3>1 DEF NetInv
    <3>3. Calm' => Calm
      BY <3>2 DEF Calm
    <3>4. \A u \in Threads : goal[u] <= goal[u]
      BY BoundsAssumption DEF PassInv
    <3> QED BY <1>b, <1>l, <3>1, <3>3, <3>4, BudgetKept
  <2>3. CASE PreferEnds(t)
    <3>1. /\ pc[t] = "prefer" /\ pc' = [pc EXCEPT ![t] = "best"]
          /\ UNCHANGED <<connections, goal, bounds>>
      BY <2>3 DEF PreferEnds, Goto
    <3>2. \A u \in Threads : pc'[u] = IF u = t THEN "best" ELSE pc[u]
      BY <3>1 DEF PassInv
    <3>3. Calm' => Calm
      BY <3>1 DEF Calm
    <3>4. \A u \in Threads : goal[u] <= goal[u]
      BY BoundsAssumption DEF PassInv
    <3> QED BY <1>b, <1>l, <3>1, <3>2, <3>3, <3>4, BudgetKept
  <2>4. CASE BestEnds(t)
    <3>1. /\ pc[t] = "best" /\ pc' = [pc EXCEPT ![t] = EnsureEnds(t)]
          /\ goal' = [goal EXCEPT ![t] = 0]
          /\ UNCHANGED <<connections, bounds>>
      BY <2>4 DEF BestEnds, Goto
    <3>2. \A u \in Threads : pc'[u] = IF u = t THEN EnsureEnds(t) ELSE pc[u]
      BY <3>1 DEF PassInv
    <3>3. EnsureEnds(t) \notin {"prefer", "best"}
      BY DEF EnsureEnds
    <3>4. Calm' => Calm
      BY <3>1 DEF Calm
    <3>5. \A u \in Threads : goal'[u] <= goal[u]
      BY <3>1, BoundsAssumption DEF PassInv
    <3> QED BY <1>b, <1>l, <3>1, <3>2, <3>3, <3>4, <3>5, BudgetKept
  <2> QED BY <1>3, <1>a, <2>1, <2>2, <2>3, <2>4, SpawnBudget, BeginBudget DEF EnsureStep
<1>4. ASSUME NEW t \in Threads, PruneStep(t) PROVE BudgetInv'
  <2>1. CASE Reap(t)
    <3>1. \E d \in todo[t] : Unmap({d}) \/ UNCHANGED connections
      BY <2>1 DEF Reap
    <3>2. \A d \in todo[t] : NoConn \notin {d}
      BY ConnsAssumption DEF PassInv
    <3>3. Mapped' \subseteq Mapped
      BY <3>1, <3>2, <1>l, <1>m
    <3> QED BY <2>1, <3>3, <1>k DEF Reap
  <2>2. CASE Evict(t)
    <3>1. Unmap({victim[t]}) /\ NoConn \notin {victim[t]}
      BY <2>2 DEF Evict, PassInv
    <3> QED BY <2>2, <3>1, <1>m, <1>k DEF Evict, Goto
  <2>3. CASE Trim(t)
    <3>1. PICK cs \in SUBSET Mapped : Unmap(cs)
      BY <2>3 DEF Trim
    <3>2. NoConn \notin cs
      BY DEF Mapped
    <3> QED BY <2>3, <3>1, <3>2, <1>m, <1>k DEF Trim, Goto
  <2>4. CASE ReapEnds(t) \/ JudgeEnds(t)
    BY <2>4, <1>k, <1>l DEF ReapEnds, JudgeEnds, Goto
  <2>5. CASE Judge(t)
    <3>1. /\ UNCHANGED <<connections, goal, bounds>> /\ pc[t] # "off"
          /\ pc' = pc \/ pc' = [pc EXCEPT ![t] = "evict"]
      BY <2>5 DEF Judge, Goto
    <3> QED BY <3>1, <1>k, <1>l
  <2> QED BY <1>4, <2>1, <2>2, <2>3, <2>4, <2>5 DEF PruneStep
<1>5. ASSUME NEW c \in Conns, ConnStep(c) PROVE BudgetInv'
  <2>1. CASE Unregister(c)
    <3>1. NoConn \notin {c} /\ Unmap({c})
      BY <2>1, ConnsAssumption DEF Unregister, OwnEntry
    <3> QED BY <2>1, <3>1, <1>m, <1>k DEF Unregister
  <2>2. CASE Connected(c) \/ Fails(c) \/ Finish(c)
    BY <2>2, <1>k, <1>l DEF Connected, Fails, Finish
  <2> QED BY <1>5, <2>1, <2>2 DEF ConnStep
<1>6. ASSUME NEW c \in Conns, BadVersion(c) \/ Verack(c) \/ Useful(c) \/ Tick(c) PROVE BudgetInv'
  BY <1>6, <1>k, <1>l DEF BadVersion, Verack, Useful, Tick
<1>7. CASE WipeDrops \/ StopCloses
  <2>1. ~Calm'
    <3>1. CASE WipeDrops
      <4>1. bounds'.wipes = bounds.wipes + 1 /\ bounds.wipes \in Nat
        BY <3>1, BoundsAssumption DEF WipeDrops, NetInv
      <4> QED BY <4>1 DEF Calm
    <3>2. CASE StopCloses
      <4>1. bounds'.stops = bounds.stops + 1 /\ bounds.stops \in Nat
        BY <3>2, BoundsAssumption DEF StopCloses, NetInv
      <4> QED BY <4>1 DEF Calm
    <3> QED BY <1>7, <3>1, <3>2
  <2> QED BY <2>1 DEF BudgetInv
<1>8. CASE WipeMarks \/ StopClears \/ Restart
  <2>1. bounds' = bounds /\ ~Calm
    BY <1>8, BoundsAssumption DEF WipeMarks, StopClears, Restart, NetInv, Calm
  <2> QED BY <2>1 DEF BudgetInv, Calm
<1>9. CASE ResyncEnds
  BY <1>9, <1>k, <1>l DEF ResyncEnds
<1> QED BY <1>1, <1>2, <1>3, <1>4, <1>5, <1>6, <1>7, <1>8, <1>9 DEF Next

\* As long as one thread dials, the table never holds more than MaxConnections
\* + BOOT_EXTRA_SLOTS connections.
THEOREM BudgetKeeps == Spec => []WithinBudget
<1>1. IInv /\ BudgetInv /\ [Next]_vars => IInv' /\ BudgetInv'
  BY NextInv, NextBudget DEF IInv
<1>2. BudgetInv => WithinBudget
  BY DEF BudgetInv, WithinBudget, Calm
<1> QED BY <1>1, <1>2, InitInv, InitBudget, PTL DEF Spec

-----------------------------------------------------------------------------
(* How often the failure of one connection is counted                        *)

\* Nobody but the dial of an address adds an entry, and for a new connection.
LEMMA NotMappedAgain ==
  ASSUME ConnInv, PassInv, [Next]_vars, NEW c \in Conns, c \notin Mapped, Alive(c)
  PROVE  c \notin Mapped'
<1> USE DEF connVars, netVars
<1>0. connections \in [Peers -> Conns \union {NoConn}] /\ phase[c] # "free"
  BY DEF ConnInv, Alive, Running, Reading
<1>k. ASSUME UNCHANGED connections PROVE c \notin Mapped'
  BY <1>k DEF Mapped
<1>m. ASSUME NEW cs, NoConn \notin cs, Unmap(cs) PROVE c \notin Mapped'
  BY <1>0, <1>m, UnmapMapped
<1>1. CASE UNCHANGED vars
  BY <1>1, <1>k DEF vars
<1>2. ASSUME NEW p \in Peers, AddPeer(p) \/ CoolEnds(p) PROVE c \notin Mapped'
  BY <1>2, <1>k DEF AddPeer, CoolEnds
<1>3. ASSUME NEW t \in Threads, EnsureStep(t) PROVE c \notin Mapped'
  <2>1. CASE Spawn(t)
    <3>1. PICK p \in cands[t] :
            IF running /\ connections[p] = NoConn
            THEN \E d \in Conns : Unused(d) /\ connections' = [connections EXCEPT ![p] = d]
            ELSE UNCHANGED <<connections, phase, peerOf, fresh>>
      BY <2>1 DEF Spawn
    <3>2. p \in Peers
      BY DEF PassInv
    <3>3. \A d : Unused(d) => d # c
      BY <1>0 DEF Unused
    <3> QED BY <1>0, <1>k, <3>1, <3>2, <3>3, SpawnMapped
  <2>2. CASE EnsureBegins(t) \/ PassEnds(t) \/ Start(t) \/ PreferEnds(t) \/ BestEnds(t)
    BY <2>2, <1>k DEF EnsureBegins, PassEnds, Start, PreferEnds, BestEnds
  <2> QED BY <1>3, <2>1, <2>2 DEF EnsureStep
<1>4. ASSUME NEW t \in Threads, PruneStep(t) PROVE c \notin Mapped'
  <2>1. CASE Reap(t)
    <3>1. \E d \in todo[t] : Unmap({d}) \/ UNCHANGED connections
      BY <2>1 DEF Reap
    <3>2. \A d \in todo[t] : NoConn \notin {d}
      BY ConnsAssumption DEF PassInv
    <3> QED BY <3>1, <3>2, <1>k, <1>m
  <2>2. CASE Evict(t)
    <3>1. Unmap({victim[t]}) /\ NoConn \notin {victim[t]}
      BY <2>2 DEF Evict, PassInv
    <3> QED BY <3>1, <1>m
  <2>3. CASE Trim(t)
    <3>1. PICK cs \in SUBSET Mapped : Unmap(cs)
      BY <2>3 DEF Trim
    <3>2. NoConn \notin cs
      BY DEF Mapped
    <3> QED BY <3>1, <3>2, <1>m
  <2>4. CASE ReapEnds(t) \/ Judge(t) \/ JudgeEnds(t)
    BY <2>4, <1>k DEF ReapEnds, Judge, JudgeEnds
  <2> QED BY <1>4, <2>1, <2>2, <2>3, <2>4 DEF PruneStep
<1>5. ASSUME NEW d \in Conns, ConnStep(d) PROVE c \notin Mapped'
  <2>1. CASE Unregister(d)
    <3>1. Unmap({d}) /\ NoConn \notin {d}
      BY <2>1, ConnsAssumption DEF Unregister, OwnEntry
    <3> QED BY <3>1, <1>m
  <2>2. CASE Connected(d) \/ Fails(d) \/ Finish(d)
    BY <2>2, <1>k DEF Connected, Fails, Finish
  <2> QED BY <1>5, <2>1, <2>2 DEF ConnStep
<1>6. ASSUME NEW d \in Conns, BadVersion(d) \/ Verack(d) \/ Useful(d) \/ Tick(d)
      PROVE  c \notin Mapped'
  BY <1>6, <1>k DEF BadVersion, Verack, Useful, Tick
<1>7. CASE WipeDrops \/ StopClears
  <2>1. Unmap(Mapped) /\ NoConn \notin Mapped
    BY <1>7 DEF WipeDrops, StopClears, Mapped
  <2> QED BY <2>1, <1>m
<1>8. CASE WipeMarks \/ ResyncEnds \/ StopCloses \/ Restart
  BY <1>8, <1>k DEF WipeMarks, ResyncEnds, StopCloses, Restart
<1> QED BY <1>1, <1>2, <1>3, <1>4, <1>5, <1>6, <1>7, <1>8 DEF Next

\* A running connection keeps its address until it is finished.
LEMMA AliveStays ==
  ASSUME ConnInv, PassInv, [Next]_vars, NEW c \in Conns, Alive(c), ~Finish(c)
  PROVE  Alive(c)' /\ peerOf'[c] = peerOf[c]
<1> USE DEF connVars, netVars
<1>0. /\ phase[c] \in {"dialing", "handshake", "reading", "useful", "ending", "record"}
      /\ c \notin Stillborn
  BY DEF Alive, Running, Reading, Stillborn
<1>k. ASSUME peerOf'[c] = peerOf[c],
             phase'[c] \in {phase[c], "handshake", "reading", "useful", "ending", "record"}
      PROVE  Alive(c)' /\ peerOf'[c] = peerOf[c]
  BY <1>0, <1>k DEF Alive, Running, Reading
<1>d. ASSUME NEW cs, Discard(cs) PROVE Alive(c)' /\ peerOf'[c] = peerOf[c]
  <2>1. phase'[c] = phase[c] /\ peerOf'[c] = peerOf[c]
    BY <1>0, <1>d DEF Discard
  <2> QED BY <2>1, <1>k
<1>1. CASE UNCHANGED vars
  BY <1>1, <1>k DEF vars
<1>2. ASSUME NEW p \in Peers, AddPeer(p) \/ CoolEnds(p) PROVE Alive(c)' /\ peerOf'[c] = peerOf[c]
  BY <1>2, <1>k DEF AddPeer, CoolEnds
<1>3. ASSUME NEW t \in Threads, EnsureStep(t) PROVE Alive(c)' /\ peerOf'[c] = peerOf[c]
  <2>1. CASE Spawn(t)
    <3>1. \/ UNCHANGED <<phase, peerOf>>
          \/ \E p : \E d \in Conns :
               /\ phase[d] = "free"
               /\ phase' = [phase EXCEPT ![d] = "created"] /\ peerOf' = [peerOf EXCEPT ![d] = p]
      BY <2>1 DEF Spawn, Unused
    <3>2. phase'[c] = phase[c] /\ peerOf'[c] = peerOf[c]
      BY <1>0, <3>1 DEF ConnInv
    <3> QED BY <3>2, <1>k
  <2>2. CASE Start(t)
    <3>1. fresh[t] # c
      BY <2>2, <1>0 DEF Start, ConnInv
    <3>2. phase'[c] = phase[c] /\ peerOf'[c] = peerOf[c]
      BY <2>2, <3>1 DEF Start, ConnInv
    <3> QED BY <3>2, <1>k
  <2>3. CASE EnsureBegins(t) \/ PassEnds(t) \/ PreferEnds(t) \/ BestEnds(t)
    BY <2>3, <1>k DEF EnsureBegins, PassEnds, PreferEnds, BestEnds
  <2> QED BY <1>3, <2>1, <2>2, <2>3 DEF EnsureStep
<1>4. ASSUME NEW t \in Threads, PruneStep(t) PROVE Alive(c)' /\ peerOf'[c] = peerOf[c]
  <2>1. CASE Reap(t)
    BY <2>1, <1>d, <1>k DEF Reap
  <2>2. CASE Trim(t)
    BY <2>2, <1>d DEF Trim
  <2>3. CASE ReapEnds(t) \/ Judge(t) \/ Evict(t) \/ JudgeEnds(t)
    BY <2>3, <1>k DEF ReapEnds, Judge, Evict, JudgeEnds
  <2> QED BY <1>4, <2>1, <2>2, <2>3 DEF PruneStep
<1>5. ASSUME NEW d \in Conns, ConnStep(d) PROVE Alive(c)' /\ peerOf'[c] = peerOf[c]
  <2>1. CASE Finish(d)
    <3>1. d # c
      BY <2>1
    <3>2. phase'[c] = phase[c] /\ peerOf'[c] = peerOf[c]
      BY <2>1, <3>1 DEF Finish, Moves, ConnInv
    <3> QED BY <3>2, <1>k
  <2>2. CASE Connected(d) \/ Fails(d) \/ Unregister(d)
    <3>1. peerOf' = peerOf /\ phase'[c] \in {phase[c], "ending", "handshake", "record"}
      BY <2>2 DEF Connected, Fails, Unregister, Moves, ConnInv
    <3> QED BY <3>1, <1>k
  <2> QED BY <1>5, <2>1, <2>2 DEF ConnStep
<1>6. ASSUME NEW d \in Conns, BadVersion(d) \/ Verack(d) \/ Useful(d) \/ Tick(d)
      PROVE  Alive(c)' /\ peerOf'[c] = peerOf[c]
  <2>1. peerOf' = peerOf /\ phase'[c] \in {phase[c], "reading", "useful"}
    BY <1>6 DEF BadVersion, Verack, Useful, Tick, Moves, ConnInv
  <2> QED BY <2>1, <1>k
<1>7. CASE WipeDrops \/ StopClears
  BY <1>7, <1>d DEF WipeDrops, StopClears
<1>8. CASE WipeMarks \/ ResyncEnds \/ StopCloses \/ Restart
  BY <1>8, <1>k DEF WipeMarks, ResyncEnds, StopCloses, Restart
<1> QED BY <1>1, <1>2, <1>3, <1>4, <1>5, <1>6, <1>7, <1>8 DEF Next

\* Thread t may still count a failure of the running connection c: it is on its
\* pruning list, or will be on the next one.
CanJudge(t, c) == c \in todo[t] \/ (c \in Mapped /\ victim[t] # c)

LEMMA JudgedStays ==
  ASSUME ConnInv, PassInv, [Next]_vars, NEW t \in Threads, NEW c \in Conns, Alive(c),
         ~CanJudge(t, c)
  PROVE  ~CanJudge(t, c)'
<1> USE DEF passVars
<1>0. /\ c \notin todo[t] /\ (c \in Mapped => victim[t] = c) /\ c # NoConn
      /\ (pc[t] = "evict" <=> victim[t] # NoConn)
  BY ConnsAssumption DEF CanJudge, PassInv
<1>a. c \notin Mapped => c \notin Mapped'
  BY NotMappedAgain
<1>k. ASSUME c \notin todo'[t], victim'[t] = victim[t] \/ c \notin Mapped'
      PROVE  ~CanJudge(t, c)'
  BY <1>0, <1>a, <1>k DEF CanJudge
<1>u. ASSUME UNCHANGED <<todo, victim>> PROVE ~CanJudge(t, c)'
  BY <1>0, <1>k, <1>u
<1>1. CASE UNCHANGED vars
  BY <1>1, <1>u DEF vars
<1>2. ASSUME NEW p \in Peers, AddPeer(p) \/ CoolEnds(p) PROVE ~CanJudge(t, c)'
  BY <1>2, <1>u DEF AddPeer, CoolEnds
<1>3. ASSUME NEW u \in Threads, EnsureStep(u) PROVE ~CanJudge(t, c)'
  <2>1. CASE EnsureBegins(u) \/ BestEnds(u)
    <3>1. /\ pc[u] # "evict" /\ victim' = victim
          /\ todo' \in {[todo EXCEPT ![u] = Mapped], [todo EXCEPT ![u] = {}]}
      BY <2>1 DEF EnsureBegins, BestEnds
    <3>2. u = t => c \notin Mapped
      BY <1>0, <3>1
    <3>3. c \notin todo'[t]
      BY <1>0, <3>1, <3>2 DEF PassInv
    <3> QED BY <3>1, <3>3, <1>k
  <2>2. CASE PassEnds(u) \/ Spawn(u) \/ Start(u) \/ PreferEnds(u)
    BY <2>2, <1>u DEF PassEnds, Spawn, Start, PreferEnds
  <2> QED BY <1>3, <2>1, <2>2 DEF EnsureStep
<1>4. ASSUME NEW u \in Threads, PruneStep(u) PROVE ~CanJudge(t, c)'
  <2>1. CASE Reap(u)
    <3>1. victim' = victim /\ \E d : todo' = [todo EXCEPT ![u] = @ \ {d}]
      BY <2>1 DEF Reap
    <3>2. c \notin todo'[t]
      BY <1>0, <3>1 DEF PassInv
    <3> QED BY <3>1, <3>2, <1>k
  <2>2. CASE ReapEnds(u)
    <3>1. pc[u] # "evict" /\ victim' = victim /\ todo' = [todo EXCEPT ![u] = Mapped]
      BY <2>2 DEF ReapEnds
    <3>2. u = t => c \notin Mapped
      BY <1>0, <3>1
    <3>3. c \notin todo'[t]
      BY <1>0, <3>1, <3>2 DEF PassInv
    <3> QED BY <3>1, <3>3, <1>k
  <2>3. CASE Judge(u)
    <3>1. /\ pc[u] # "evict"
          /\ \E d : /\ todo' = [todo EXCEPT ![u] = @ \ {d}]
                    /\ victim' = victim \/ victim' = [victim EXCEPT ![u] = d]
      BY <2>3 DEF Judge
    <3>2. u = t => c \notin Mapped
      BY <1>0, <3>1
    <3>3. c \notin todo'[t]
      BY <1>0, <3>1 DEF PassInv
    <3>4. victim'[t] = victim[t] \/ c \notin Mapped'
      BY <1>a, <3>1, <3>2 DEF PassInv
    <3> QED BY <3>3, <3>4, <1>k
  <2>4. CASE Evict(u)
    <3>1. /\ Unmap({victim[u]}) /\ NoConn \notin {victim[u]}
          /\ victim' = [victim EXCEPT ![u] = NoConn] /\ todo' = todo
      BY <2>4 DEF Evict, PassInv
    <3>2. Mapped' = Mapped \ {victim[u]}
      BY <3>1, UnmapMapped DEF ConnInv
    <3>3. u = t => c \notin Mapped'
      BY <1>0, <3>2
    <3>4. u # t => victim'[t] = victim[t]
      BY <3>1 DEF PassInv
    <3> QED BY <1>0, <3>1, <3>3, <3>4, <1>k
  <2>5. CASE JudgeEnds(u) \/ Trim(u)
    BY <2>5, <1>u DEF JudgeEnds, Trim
  <2> QED BY <1>4, <2>1, <2>2, <2>3, <2>4, <2>5 DEF PruneStep
<1>5. ASSUME NEW d \in Conns, ConnStep(d) \/ BadVersion(d) \/ Verack(d) \/ Useful(d) \/ Tick(d)
      PROVE  ~CanJudge(t, c)'
  BY <1>5, <1>u DEF ConnStep, Connected, Fails, Unregister, Finish, BadVersion, Verack, Useful, Tick
<1>6. CASE WipeDrops \/ WipeMarks \/ ResyncEnds \/ StopCloses \/ StopClears \/ Restart
  BY <1>6, <1>u DEF WipeDrops, WipeMarks, ResyncEnds, StopCloses, StopClears, Restart
<1> QED BY <1>1, <1>2, <1>3, <1>4, <1>5, <1>6 DEF Next

CountedOf(p) == {c \in counted : peerOf[c] = p}
Spent(p) == {w \in Maints \X CountedOf(p) : ~CanJudge(w[1], w[2])}
Extras == Cardinality(Maints) + 1

\* n failures: one for each pair of W, a thread and a connection of C that it
\* cannot judge again, and those of the connections that are finished, at most
\* one for each maintenance thread and one of their own.
Books(C, W, l, n) ==
  /\ Cardinality(C) <= l
  /\ n <= Cardinality(W) + Extras * (l - Cardinality(C))

LEMMA PairsFinite ==
  ASSUME NEW C \in SUBSET Conns, NEW W \in SUBSET (Maints \X C)
  PROVE  /\ IsFiniteSet(C) /\ IsFiniteSet(W)
         /\ Cardinality(C) \in Nat /\ Cardinality(W) \in Nat /\ Extras \in Nat
         /\ Cardinality(W) <= Cardinality(Maints) * Cardinality(C)
<1>1. IsFiniteSet(C) /\ IsFiniteSet(Maints)
  BY ConnsAssumption, ThreadsAssumption, FS_Subset
<1>2. /\ IsFiniteSet(Maints \X C)
      /\ Cardinality(Maints \X C) = Cardinality(Maints) * Cardinality(C)
  BY <1>1, FS_Product
<1>3. Cardinality(C) \in Nat /\ Cardinality(Maints) \in Nat
  BY <1>1, FS_CardinalityType
<1>4. IsFiniteSet(W) /\ Cardinality(W) <= Cardinality(Maints \X C)
  BY <1>2, FS_Subset
<1> QED BY <1>1, <1>2, <1>3, <1>4, FS_CardinalityType DEF Extras

\* What is owed for l connections.
LEMMA OwedBooks ==
  ASSUME NEW C \in SUBSET Conns, NEW W \in SUBSET (Maints \X C), NEW l \in Nat, NEW n \in Nat,
         Books(C, W, l, n)
  PROVE  n <= Extras * l
<1> DEFINE k == Cardinality(Maints)
           a == Cardinality(C)
           w == Cardinality(W)
<1>1. a \in Nat /\ w \in Nat /\ w <= k * a /\ k \in Nat /\ Extras = k + 1
  BY PairsFinite, ThreadsAssumption, FS_CardinalityType DEF Extras
<1>2. a <= l /\ n <= w + (k + 1) * (l - a)
  BY <1>1 DEF Books
<1> HIDE DEF k, a, w
<1>3. PICK d \in Nat : l = a + d
  <2>1. l - a \in Nat /\ l = a + (l - a)
    BY <1>1, <1>2
  <2> QED BY <2>1
<1>4. n <= k * a + (k + 1) * d
  BY <1>1, <1>2, <1>3
<1>5. (k + 1) * (a + d) = k * a + a + (k + 1) * d
  BY <1>1
<1>6. k * a \in Nat /\ (k + 1) * d \in Nat
  BY <1>1
<1> QED BY <1>1, <1>3, <1>4, <1>5, <1>6

LEMMA KeptBooks ==
  ASSUME NEW C \in SUBSET Conns, NEW W \in SUBSET (Maints \X C), NEW V \in SUBSET (Maints \X C),
         W \subseteq V, NEW l \in Nat, NEW n \in Nat, Books(C, W, l, n)
  PROVE  Books(C, V, l, n)
<1> DEFINE x == Extras * (l - Cardinality(C))
<1>1. Cardinality(C) \in Nat /\ Cardinality(W) \in Nat /\ Cardinality(V) \in Nat /\ Extras \in Nat
      /\ IsFiniteSet(V)
  BY PairsFinite
<1>2. Cardinality(C) <= l /\ n <= Cardinality(W) + x
  BY DEF Books
<1>3. x \in Int
  BY <1>1
<1>4. Cardinality(W) <= Cardinality(V)
  BY <1>1, FS_Subset
<1> HIDE DEF x
<1>5. n <= Cardinality(V) + x
  BY <1>1, <1>2, <1>3, <1>4
<1> QED BY <1>2, <1>5 DEF Books, x

\* A thread counts a failure of a connection that was not counted before.
LEMMA FirstBooks ==
  ASSUME NEW C \in SUBSET Conns, NEW W \in SUBSET (Maints \X C), NEW c \in Conns \ C,
         NEW V \in SUBSET (Maints \X (C \union {c})), W \subseteq V,
         NEW t \in Maints, <<t, c>> \in V, NEW l \in Nat, NEW n \in Nat, Books(C, W, l, n)
  PROVE  Books(C \union {c}, V, l + 1, n + 1)
<1> DEFINE x == Extras * (l - Cardinality(C))
           U == W \union {<<t, c>>}
<1>1. /\ Cardinality(C) \in Nat /\ Cardinality(W) \in Nat /\ Extras \in Nat
      /\ IsFiniteSet(C) /\ IsFiniteSet(W)
  BY PairsFinite
<1>2. IsFiniteSet(V) /\ Cardinality(V) \in Nat
  <2>1. C \union {c} \in SUBSET Conns
    OBVIOUS
  <2> HIDE DEF U
  <2> QED BY <2>1, PairsFinite
<1>3. Cardinality(C) <= l /\ n <= Cardinality(W) + x
  BY DEF Books
<1>4. x \in Int
  BY <1>1
<1>5. Cardinality(C \union {c}) = Cardinality(C) + 1
  BY <1>1, FS_AddElement
<1>6. <<t, c>> \notin W
  OBVIOUS
<1>7. Cardinality(U) = Cardinality(W) + 1
  BY <1>1, <1>6, FS_AddElement
<1>8. Cardinality(U) <= Cardinality(V)
  BY <1>2, FS_Subset
<1>9. (l + 1) - Cardinality(C \union {c}) = l - Cardinality(C)
  BY <1>1, <1>5
<1> HIDE DEF x, U
<1>10. n + 1 <= Cardinality(V) + x
  BY <1>1, <1>2, <1>3, <1>4, <1>7, <1>8
<1>11. Cardinality(C \union {c}) <= l + 1
  BY <1>1, <1>3, <1>5
<1>12. x = Extras * ((l + 1) - Cardinality(C \union {c}))
  BY <1>9 DEF x
<1> QED BY <1>10, <1>11, <1>12 DEF Books

\* Another thread counts a failure of the same connection.
LEMMA AgainBooks ==
  ASSUME NEW C \in SUBSET Conns, NEW W \in SUBSET (Maints \X C), NEW V \in SUBSET (Maints \X C),
         NEW w, w \notin W, w \in V, W \subseteq V,
         NEW l \in Nat, NEW n \in Nat, Books(C, W, l, n)
  PROVE  Books(C, V, l, n + 1)
<1> DEFINE x == Extras * (l - Cardinality(C))
           U == W \union {w}
<1>1. /\ Cardinality(C) \in Nat /\ Cardinality(W) \in Nat /\ Cardinality(V) \in Nat
      /\ Extras \in Nat /\ IsFiniteSet(V) /\ IsFiniteSet(W)
  BY PairsFinite
<1>2. Cardinality(C) <= l /\ n <= Cardinality(W) + x
  BY DEF Books
<1>3. x \in Int
  BY <1>1
<1>4. Cardinality(U) = Cardinality(W) + 1
  BY <1>1, FS_AddElement
<1>5. Cardinality(U) <= Cardinality(V)
  BY <1>1, FS_Subset
<1> HIDE DEF x, U
<1>6. n + 1 <= Cardinality(V) + x
  BY <1>1, <1>2, <1>3, <1>4, <1>5
<1> QED BY <1>2, <1>6 DEF Books, x

\* A connection that was not counted ends with a failure.
LEMMA OnceBooks ==
  ASSUME NEW C \in SUBSET Conns, NEW W \in SUBSET (Maints \X C), NEW V \in SUBSET (Maints \X C),
         W \subseteq V, NEW l \in Nat, NEW n \in Nat, Books(C, W, l, n)
  PROVE  Books(C, V, l + 1, n + 1)
<1> DEFINE k == Cardinality(Maints)
           a == Cardinality(C)
           v == Cardinality(V)
<1>1. Books(C, V, l, n)
  BY KeptBooks
<1>2. a \in Nat /\ v \in Nat /\ k \in Nat /\ Extras = k + 1
  BY PairsFinite, ThreadsAssumption, FS_CardinalityType DEF Extras
<1>3. a <= l /\ n <= v + (k + 1) * (l - a)
  BY <1>1, <1>2 DEF Books
<1> HIDE DEF k, a, v
<1>4. PICK d \in Nat : l - a = d
  BY <1>2, <1>3
<1>5. l + 1 - a = d + 1 /\ (k + 1) * (d + 1) = (k + 1) * d + k + 1 /\ (k + 1) * d \in Nat
  BY <1>2, <1>4
<1>6. a <= l + 1 /\ n + 1 <= v + (k + 1) * (l + 1 - a)
  BY <1>2, <1>3, <1>4, <1>5
<1> QED BY <1>2, <1>6 DEF Books, k, a, v

\* A counted connection ends, with one more failure.
LEMMA DoneBooks ==
  ASSUME NEW C \in SUBSET Conns, NEW W \in SUBSET (Maints \X C), NEW c \in C,
         NEW V \in SUBSET (Maints \X (C \ {c})), W \subseteq V \union (Maints \X {c}),
         NEW l \in Nat, NEW n \in Nat, Books(C, W, l, n)
  PROVE  Books(C \ {c}, V, l, n + 1)
<1> DEFINE k == Cardinality(Maints)
           a == Cardinality(C)
           v == Cardinality(V)
           w == Cardinality(W)
           M == Maints \X {c}
<1>1. a \in Nat /\ w \in Nat /\ IsFiniteSet(C) /\ k \in Nat /\ Extras = k + 1
  BY PairsFinite, ThreadsAssumption, FS_CardinalityType DEF Extras
<1>2. v \in Nat /\ IsFiniteSet(V)
  <2>1. C \ {c} \in SUBSET Conns
    OBVIOUS
  <2> HIDE DEF k, a, w, M
  <2> QED BY <2>1, PairsFinite
<1>3. IsFiniteSet(M) /\ Cardinality(M) = k
  <2>1. IsFiniteSet({c}) /\ Cardinality({c}) = 1
    BY FS_Singleton
  <2>2. IsFiniteSet(M) /\ Cardinality(M) = k * 1
    BY <2>1, ThreadsAssumption, FS_Product
  <2> QED BY <1>1, <2>2
<1>4. Cardinality(C \ {c}) = a - 1 /\ a - 1 \in Nat
  <2>1. IsFiniteSet(C \ {c}) /\ Cardinality(C \ {c}) = a - 1
    BY <1>1, FS_RemoveElement
  <2> QED BY <2>1, FS_CardinalityType
<1>5. w <= v + k
  <2>1. /\ IsFiniteSet(V \union M)
        /\ Cardinality(V \union M) = v + Cardinality(M) - Cardinality(V \intersect M)
    BY <1>2, <1>3, FS_Union
  <2>2. Cardinality(V \intersect M) \in Nat
    BY <1>2, FS_Intersection, FS_CardinalityType
  <2>3. w <= Cardinality(V \union M)
    BY <2>1, FS_Subset
  <2> HIDE DEF M, w, v, k
  <2> QED BY <1>1, <1>2, <1>3, <2>1, <2>2, <2>3
<1>6. a <= l /\ n <= w + (k + 1) * (l - a)
  BY <1>1 DEF Books
<1> HIDE DEF k, a, v, w
<1>7. PICK d \in Nat : l - a = d
  BY <1>1, <1>6
<1>8. l - (a - 1) = d + 1 /\ (k + 1) * (d + 1) = (k + 1) * d + k + 1 /\ (k + 1) * d \in Nat
  BY <1>1, <1>7
<1>9. a - 1 <= l /\ n + 1 <= v + (k + 1) * (l - (a - 1))
  BY <1>1, <1>2, <1>5, <1>6, <1>7, <1>8
<1> QED BY <1>1, <1>4, <1>9 DEF Books, k, v

\* A counted connection is running, and the failures of every address in the
\* store are accounted for.
CountInv ==
  /\ counted \subseteq Conns /\ \A c \in counted : Alive(c)
  /\ \A p \in store : Books(CountedOf(p), Spent(p), lost[p], fails[p])

LEMMA InitCount == Init => CountInv
<1> SUFFICES ASSUME Init, NEW p \in store PROVE Books(CountedOf(p), Spent(p), lost[p], fails[p])
  BY DEF Init, CountInv
<1>1. p \in Peers /\ lost[p] = 0 /\ fails[p] = 0 /\ CountedOf(p) = {}
  BY DEF Init, CountedOf
<1>2. Cardinality(CountedOf(p)) = 0
  BY <1>1, FS_EmptySet
<1>3. Spent(p) \in SUBSET (Maints \X {}) /\ {} \in SUBSET Conns
  BY <1>1 DEF Spent
<1>4. Cardinality(Spent(p)) \in Nat /\ Extras \in Nat
  BY <1>3, PairsFinite
<1> QED BY <1>1, <1>2, <1>4 DEF Books

\* What stays of the counted connections, and who cannot judge them again.
LEMMA CountedStay ==
  ASSUME ConnInv, PassInv, CountInv, [Next]_vars
  PROVE  /\ \A c \in counted \intersect counted' : Alive(c)' /\ peerOf'[c] = peerOf[c]
         /\ \A p : CountedOf(p) \subseteq counted
         /\ \A p : CountedOf(p)' = {c \in counted' : peerOf'[c] = p}
         /\ \A p : \A w \in Spent(p) : ~CanJudge(w[1], w[2])'
         /\ \A p : Spent(p) \in SUBSET (Maints \X CountedOf(p))
         /\ \A p : Spent(p)' \in SUBSET (Maints \X CountedOf(p)')
         /\ \A p : CountedOf(p) \in SUBSET Conns
<1>1. \A c \in counted : c \in Conns /\ Alive(c)
  BY DEF CountInv
<1>2. \A c \in Conns : Finish(c) => c \notin counted'
  BY DEF Finish
<1>3. \A c \in counted \intersect counted' : Alive(c)' /\ peerOf'[c] = peerOf[c]
  BY <1>1, <1>2, AliveStays
<1>4. \A p : \A w \in Spent(p) : ~CanJudge(w[1], w[2])'
  <2> SUFFICES ASSUME NEW p, NEW w \in Spent(p) PROVE ~CanJudge(w[1], w[2])'
    OBVIOUS
  <2>1. w[1] \in Threads /\ w[2] \in counted /\ ~CanJudge(w[1], w[2])
    BY DEF Spent, CountedOf, Threads
  <2>2. w[2] \in Conns /\ Alive(w[2])
    BY <1>1, <2>1
  <2> DEFINE t == w[1]
             c == w[2]
  <2>3. t \in Threads /\ c \in Conns /\ Alive(c) /\ ~CanJudge(t, c)
    BY <2>1, <2>2
  <2> HIDE DEF t, c
  <2>4. ~CanJudge(t, c)'
    BY <2>3, JudgedStays
  <2> QED BY <2>4 DEF t, c, CanJudge
<1> QED BY <1>1, <1>3, <1>4 DEF Spent, CountedOf

\* The pairs that remain spent.
LEMMA SpentStay ==
  ASSUME ConnInv, PassInv, CountInv, [Next]_vars, NEW p
  PROVE  \A w \in Spent(p) : w[2] \in CountedOf(p)' => w \in Spent(p)'
<1> SUFFICES ASSUME NEW w \in Spent(p), w[2] \in CountedOf(p)' PROVE w \in Spent(p)'
  OBVIOUS
<1>1. ~CanJudge(w[1], w[2])'
  BY CountedStay
<1>2. w \in Maints \X CountedOf(p)'
  BY DEF Spent
<1>3. \A v : v \in Maints \X CountedOf(p)' /\ ~CanJudge(v[1], v[2])' => v \in Spent(p)'
  BY DEF Spent
<1> QED BY <1>1, <1>2, <1>3

\* The books of an address are kept: nothing of it is counted ...
LEMMA BooksKept ==
  ASSUME ConnInv, PassInv, StoreInv, CountInv, [Next]_vars, NEW p \in store,
         CountedOf(p)' = CountedOf(p), lost'[p] = lost[p], fails'[p] = fails[p]
  PROVE  Books(CountedOf(p), Spent(p), lost[p], fails[p])'
<1>1. Spent(p) \subseteq Spent(p)'
  <2>1. \A w \in Spent(p) : w[2] \in CountedOf(p)
    BY DEF Spent
  <2> QED BY <2>1, SpentStay
<1>2. lost[p] \in Nat /\ fails[p] \in Nat
  BY BoundsAssumption DEF StoreInv
<1>3. Books(CountedOf(p), Spent(p), lost[p], fails[p])
  BY DEF CountInv
<1>4. /\ CountedOf(p) \in SUBSET Conns /\ Spent(p) \in SUBSET (Maints \X CountedOf(p))
      /\ Spent(p)' \in SUBSET (Maints \X CountedOf(p))
  BY CountedStay
<1>5. Books(CountedOf(p), Spent(p)', lost[p], fails[p])
  <2> DEFINE C == CountedOf(p)
             W == Spent(p)
             V == Spent(p)'
             l == lost[p]
             n == fails[p]
  <2>1. C \in SUBSET Conns /\ W \in SUBSET (Maints \X C) /\ V \in SUBSET (Maints \X C)
        /\ W \subseteq V /\ l \in Nat /\ n \in Nat /\ Books(C, W, l, n)
    BY <1>1, <1>2, <1>3, <1>4
  <2> HIDE DEF C, W, V, l, n
  <2>2. Books(C, V, l, n)
    BY <2>1, KeptBooks
  <2> QED BY <2>2 DEF C, V, l, n
<1> QED BY <1>5 DEF Books, Extras

\* ... or all of it is forgotten.
LEMMA BooksCleared ==
  ASSUME NEW p, CountedOf(p)' = {}, lost'[p] = 0, fails'[p] = 0
  PROVE  Books(CountedOf(p), Spent(p), lost[p], fails[p])'
<1>1. Cardinality(CountedOf(p)') = 0
  BY FS_EmptySet
<1>2. Spent(p)' \in SUBSET (Maints \X {}) /\ {} \in SUBSET Conns
  BY DEF Spent
<1>3. Cardinality(Spent(p)') \in Nat /\ Extras \in Nat
  BY <1>2, PairsFinite
<1>4. 0 <= Cardinality(Spent(p)') + Extras * (0 - 0)
  BY <1>3
<1> QED BY <1>1, <1>4 DEF Books, Extras

\* The maintenance thread t condemns the connection c of an address in the
\* store for its handshake.
LEMMA JudgeBooks ==
  ASSUME ConnInv, PassInv, StoreInv, CountInv, [Next]_vars,
         NEW t \in Maints, NEW c \in todo[t], todo' = [todo EXCEPT ![t] = @ \ {c}],
         victim' = [victim EXCEPT ![t] = c], RecordFailure(c), UNCHANGED peerOf,
         NEW p \in store, p = peerOf[c]
  PROVE  Books(CountedOf(p)', Spent(p)', lost'[p], fails[p] + 1)
<1> DEFINE C == CountedOf(p)
           W == Spent(p)
           V == Spent(p)'
           l == lost[p]
           n == fails[p]
<1>0. t \in Threads /\ c \in Conns /\ p \in Peers
  BY DEF Threads, PassInv, StoreInv
<1>1. C \in SUBSET Conns /\ W \in SUBSET (Maints \X C) /\ l \in Nat /\ n \in Nat /\ Books(C, W, l, n)
  BY CountedStay, BoundsAssumption DEF StoreInv, CountInv
<1>2. CountedOf(p)' = C \union {c}
  BY DEF RecordFailure, CountedOf
<1>3. V \in SUBSET (Maints \X (C \union {c}))
  BY <1>2, CountedStay
<1>4. W \subseteq V
  <2>1. \A w \in W : w[2] \in C
    BY DEF Spent
  <2> QED BY <1>2, <2>1, SpentStay
<1>5. <<t, c>> \in V
  <2>1. c \notin todo'[t] /\ victim'[t] = c
    BY <1>0 DEF PassInv
  <2>2. ~CanJudge(t, c)'
    BY <2>1 DEF CanJudge
  <2>3. <<t, c>> \in Maints \X CountedOf(p)'
    BY <1>2
  <2>4. \A v \in Maints \X CountedOf(p)' : ~CanJudge(v[1], v[2])' => v \in Spent(p)'
    BY DEF Spent
  <2>5. ~CanJudge(<<t, c>>[1], <<t, c>>[2])'
    BY <2>2
  <2> QED BY <2>3, <2>4, <2>5
<1>6. <<t, c>> \notin W
  <2>1. CanJudge(t, c)
    BY DEF CanJudge
  <2> QED BY <2>1 DEF Spent
<1>7. lost'[p] = IF c \in C THEN l ELSE l + 1
  BY <1>0 DEF RecordFailure, Failure, StoreInv, CountedOf
<1> HIDE DEF C, W, V, l, n
<1>8. CASE c \in C
  <2>1. C \union {c} = C
    BY <1>8
  <2>2. Books(C, V, l, n + 1)
    BY <1>1, <1>3, <1>4, <1>5, <1>6, <2>1, AgainBooks
  <2> QED BY <1>2, <1>7, <1>8, <2>1, <2>2 DEF V, n
<1>9. CASE c \notin C
  <2>1. Books(C \union {c}, V, l + 1, n + 1)
    BY <1>0, <1>1, <1>3, <1>4, <1>5, <1>9, FirstBooks
  <2> QED BY <1>2, <1>7, <1>9, <2>1 DEF V, n
<1> QED BY <1>8, <1>9

\* The thread of connection c ends.
LEMMA FinishBooks ==
  ASSUME ConnInv, PassInv, StoreInv, CountInv, [Next]_vars, NEW c \in Conns, Finish(c),
         NEW p \in store, p = peerOf[c]
  PROVE  Books(CountedOf(p)', Spent(p)', lost'[p],
               IF c \in established THEN fails[p] ELSE fails[p] + 1)
<1> DEFINE C == CountedOf(p)
           W == Spent(p)
           V == Spent(p)'
           l == lost[p]
           n == fails[p]
<1>0. p \in Peers /\ NoPeer # p
  BY PeersAssumption DEF StoreInv
<1>1. C \in SUBSET Conns /\ W \in SUBSET (Maints \X C) /\ l \in Nat /\ n \in Nat /\ Books(C, W, l, n)
  BY CountedStay, BoundsAssumption DEF StoreInv, CountInv
<1>2. CountedOf(p)' = C \ {c}
  <2>1. counted' = counted \ {c} /\ peerOf' = [peerOf EXCEPT ![c] = NoPeer]
    BY DEF Finish
  <2>2. \A d \in counted' : peerOf'[d] = peerOf[d]
    BY <2>1 DEF ConnInv, CountInv
  <2> QED BY <2>1, <2>2 DEF CountedOf
<1>3. V \in SUBSET (Maints \X (C \ {c}))
  BY <1>2, CountedStay
<1>4. \A w \in W : w[2] # c => w \in V
  <2>1. \A w \in W : w[2] \in C
    BY DEF Spent
  <2> QED BY <1>2, <2>1, SpentStay
<1>5. lost'[p] = IF c \in established \/ c \in C THEN l ELSE l + 1
  BY <1>0 DEF Finish, Failure, StoreInv, CountedOf
<1> HIDE DEF C, W, V, l, n
<1>6. CASE c \in C
  <2>1. W \subseteq V \union (Maints \X {c})
    BY <1>1, <1>4
  <2>2. Books(C \ {c}, V, l, n + 1)
    BY <1>1, <1>3, <1>6, <2>1, DoneBooks
  <2>3. Books(C \ {c}, V, l, n)
    <3>1. C \ {c} \in SUBSET Conns
      BY <1>1
    <3>2. Cardinality(C \ {c}) \in Nat /\ Cardinality(V) \in Nat /\ Extras \in Nat
      BY <1>3, <3>1, PairsFinite
    <3>3. n + 1 <= Cardinality(V) + Extras * (l - Cardinality(C \ {c})) /\ Cardinality(C \ {c}) <= l
      BY <2>2 DEF Books
    <3> DEFINE x == Extras * (l - Cardinality(C \ {c}))
    <3>4. x \in Int
      BY <1>1, <3>2
    <3> HIDE DEF x
    <3>5. n + 1 <= Cardinality(V) + x
      BY <3>3 DEF x
    <3>6. n <= Cardinality(V) + x
      BY <1>1, <3>2, <3>4, <3>5
    <3> QED BY <3>3, <3>6 DEF Books, x
  <2> QED BY <1>2, <1>5, <1>6, <2>2, <2>3 DEF V, l, n
<1>7. CASE c \notin C
  <2>1. C \ {c} = C
    BY <1>7
  <2>2. W \subseteq V
    <3>1. \A w \in W : w[2] # c
      BY <1>1, <1>7
    <3> QED BY <1>4, <3>1
  <2>3. V \in SUBSET (Maints \X C)
    BY <1>3, <2>1
  <2>4. Books(C, V, l, n) /\ Books(C, V, l + 1, n + 1)
    BY <1>1, <2>2, <2>3, KeptBooks, OnceBooks
  <2> QED BY <1>2, <1>5, <1>7, <2>1, <2>4 DEF V, l, n
<1> QED BY <1>6, <1>7

\* What Failure does to the addresses of the store.
LEMMA FailureOf ==
  ASSUME StoreInv, NEW c \in Conns, Failure(c)
  PROVE  /\ store' \subseteq store
         /\ \A q \in store' : q # peerOf[c] => lost'[q] = lost[q] /\ fails'[q] = fails[q]
         /\ \A q \in store' : q = peerOf[c] => fails'[q] = fails[q] + 1
         /\ \A q \in store \ store' : q = peerOf[c] /\ fails[q] + 1 >= MaxFails
<1> DEFINE p == peerOf[c]
<1>1. CASE p \notin store
  BY <1>1 DEF Failure
<1>2. CASE p \in store
  <2>0. p \in Peers
    BY <1>2 DEF StoreInv
  <2>1. PICK last \in BOOLEAN :
          /\ last <=> fails[p] + 1 >= MaxFails
          /\ fails' = [fails EXCEPT ![p] = IF last THEN 0 ELSE fails[p] + 1]
          /\ store' = IF last THEN store \ {p} ELSE store
          /\ \E l : lost' = [lost EXCEPT ![p] = l]
    BY <1>2 DEF Failure
  <2>2. \A q \in store : q \in Peers
    BY DEF StoreInv
  <2> HIDE DEF p
  <2>3. \A q \in Peers : q # p => lost'[q] = lost[q] /\ fails'[q] = fails[q]
    BY <2>1 DEF StoreInv
  <2>4. ~last => fails'[p] = fails[p] + 1
    BY <2>0, <2>1 DEF StoreInv
  <2> QED BY <2>1, <2>2, <2>3, <2>4 DEF p
<1> QED BY <1>1, <1>2

\* The steps that forget the failures of the addresses ps.
LEMMA ForgivenCount ==
  ASSUME ConnInv, PassInv, StoreInv, CountInv, [Next]_vars, NEW ps, Forgiven(ps),
         store' \subseteq Peers,
         \A q \in store' : q \in ps => fails'[q] = 0,
         \A q \in store' : q \notin ps => q \in store /\ fails'[q] = fails[q]
  PROVE  CountInv'
<1>1. /\ lost' = [p \in Peers |-> IF p \in ps THEN 0 ELSE lost[p]]
      /\ counted' = {c \in counted : peerOf[c] \notin ps}
  BY DEF Forgiven
<1>2. \A c \in counted' : c \in counted /\ Alive(c)' /\ peerOf'[c] = peerOf[c]
  BY <1>1, CountedStay
<1>3. counted' \subseteq Conns
  BY <1>2 DEF CountInv
<1>4. ASSUME NEW q \in store' PROVE Books(CountedOf(q), Spent(q), lost[q], fails[q])'
  <2>1. CASE q \in ps
    <3>1. CountedOf(q)' = {}
      BY <1>1, <1>2, <2>1 DEF CountedOf
    <3>2. lost'[q] = 0 /\ fails'[q] = 0
      BY <1>1, <1>4, <2>1
    <3> QED BY <3>1, <3>2, BooksCleared
  <2>2. CASE q \notin ps
    <3>1. CountedOf(q)' = CountedOf(q)
      BY <1>1, <1>2, <2>2 DEF CountedOf
    <3>2. lost'[q] = lost[q] /\ fails'[q] = fails[q] /\ q \in store
      BY <1>1, <1>4, <2>2
    <3> QED BY <3>1, <3>2, BooksKept
  <2> QED BY <2>1, <2>2
<1> QED BY <1>2, <1>3, <1>4 DEF CountInv

LEMMA NextCount == ConnInv /\ PassInv /\ StoreInv /\ CountInv /\ [Next]_vars => CountInv'
<1> SUFFICES ASSUME ConnInv, PassInv, StoreInv, CountInv, [Next]_vars PROVE CountInv'
  OBVIOUS
<1> USE DEF storeVars
<1>s. store \subseteq Peers /\ counted \subseteq Conns
  BY DEF StoreInv, CountInv
<1>k. ASSUME UNCHANGED <<store, fails, lost, counted>> PROVE CountInv'
  <2>1. \A c \in counted : Alive(c)' /\ peerOf'[c] = peerOf[c]
    BY <1>k, CountedStay
  <2>2. \A q \in store : CountedOf(q)' = CountedOf(q)
    BY <1>k, <2>1 DEF CountedOf
  <2>3. \A q \in store : lost'[q] = lost[q] /\ fails'[q] = fails[q]
    BY <1>k
  <2>4. \A q \in store : Books(CountedOf(q), Spent(q), lost[q], fails[q])'
    BY <2>2, <2>3, BooksKept
  <2> QED BY <1>k, <1>s, <2>1, <2>4 DEF CountInv
<1>1. CASE UNCHANGED vars
  BY <1>1, <1>k DEF vars
<1>2. ASSUME NEW p \in Peers, AddPeer(p) PROVE CountInv'
  <2>1. PICK S \in SUBSET (store \union {p}) :
          /\ store' = S
          /\ fails' = [q \in Peers |-> IF q \in S /\ q # p THEN fails[q] ELSE 0]
          /\ Forgiven({p} \union (store \ S))
    BY <1>2 DEF AddPeer
  <2>2. /\ store' \subseteq Peers
        /\ \A q \in store' : q \in {p} \union (store \ S) => fails'[q] = 0
        /\ \A q \in store' : q \notin {p} \union (store \ S) => q \in store /\ fails'[q] = fails[q]
    BY <1>s, <2>1
  <2> QED BY <2>1, <2>2, ForgivenCount
<1>3. ASSUME NEW p \in Peers, CoolEnds(p) PROVE CountInv'
  BY <1>3, <1>k DEF CoolEnds
<1>4. ASSUME NEW t \in Threads, EnsureStep(t) PROVE CountInv'
  BY <1>4, <1>k DEF EnsureStep, EnsureBegins, PassEnds, Spawn, RecordAttempt, Start, PreferEnds, BestEnds
<1>5. ASSUME NEW t \in Threads, PruneStep(t) PROVE CountInv'
  <2>1. CASE Judge(t)
    <3>1. PICK c \in todo[t] :
            /\ todo' = [todo EXCEPT ![t] = @ \ {c}]
            /\ IF Alive(c) /\ (HandshakeStalled(c) \/ Silent(c))
               THEN /\ IF HandshakeStalled(c) THEN RecordFailure(c)
                       ELSE IF Mute(c) THEN RecordMute(peerOf[c])
                       ELSE UNCHANGED storeVars
                    /\ victim' = [victim EXCEPT ![t] = c]
               ELSE UNCHANGED storeVars
      BY <2>1 DEF Judge
    <3>2. c \in Conns /\ t \in Maints
      BY <2>1 DEF Judge, PassInv
    <3>3. CASE Alive(c) /\ RecordFailure(c) /\ victim' = [victim EXCEPT ![t] = c]
      <4>1. UNCHANGED <<phase, peerOf>>
        BY <2>1 DEF Judge, connVars
      <4>2. counted' = counted \union {c} /\ Failure(c)
        BY <3>3 DEF RecordFailure
      <4>3. counted' \subseteq Conns /\ \A d \in counted' : Alive(d)'
        BY <1>s, <3>2, <3>3, <4>1, <4>2 DEF CountInv, Alive, Running, Reading
      <4>4. ASSUME NEW q \in store' PROVE Books(CountedOf(q), Spent(q), lost[q], fails[q])'
        <5>1. q \in store
          BY <3>2, <4>2, FailureOf
        <5>2. CASE q = peerOf[c]
          <6>1. Books(CountedOf(q)', Spent(q)', lost'[q], fails[q] + 1)
            BY <3>1, <3>2, <3>3, <4>1, <5>1, <5>2, JudgeBooks
          <6>2. fails'[q] = fails[q] + 1
            BY <3>2, <4>2, <4>4, <5>2, FailureOf
          <6> QED BY <6>1, <6>2 DEF Books, Extras
        <5>3. CASE q # peerOf[c]
          <6>1. CountedOf(q)' = CountedOf(q)
            BY <4>1, <4>2, <5>3 DEF CountedOf
          <6>2. lost'[q] = lost[q] /\ fails'[q] = fails[q]
            BY <3>2, <4>2, <4>4, <5>3, FailureOf
          <6> QED BY <5>1, <6>1, <6>2, BooksKept
        <5> QED BY <5>2, <5>3
      <4> QED BY <4>3, <4>4 DEF CountInv
    <3>4. CASE RecordMute(peerOf[c])
      BY <3>4, <1>k DEF RecordMute
    <3> QED BY <3>1, <3>3, <3>4, <1>k
  <2>2. CASE Reap(t) \/ ReapEnds(t) \/ Evict(t) \/ JudgeEnds(t) \/ Trim(t)
    BY <2>2, <1>k DEF Reap, ReapEnds, Evict, JudgeEnds, Trim
  <2> QED BY <1>5, <2>1, <2>2 DEF PruneStep
<1>6. ASSUME NEW c \in Conns, ConnStep(c) PROVE CountInv'
  <2>1. CASE Finish(c)
    <3>1. counted' = counted \ {c} /\ peerOf' = [peerOf EXCEPT ![c] = NoPeer]
      BY <2>1 DEF Finish
    <3>2. \A d \in counted' : d \in counted /\ Alive(d)' /\ peerOf'[d] = peerOf[d]
      BY <3>1, CountedStay
    <3>3. CASE c \in established
      <4>1. UNCHANGED <<store, fails, lost>>
        BY <2>1, <3>3 DEF Finish
      <4>2. ASSUME NEW q \in store PROVE Books(CountedOf(q), Spent(q), lost[q], fails[q])'
        <5>1. CASE q = peerOf[c]
          <6>1. Books(CountedOf(q)', Spent(q)', lost'[q], fails[q])
            BY <2>1, <3>3, <5>1, FinishBooks
          <6> QED BY <4>1, <6>1 DEF Books, Extras
        <5>2. CASE q # peerOf[c]
          <6>1. CountedOf(q)' = CountedOf(q)
            BY <3>1, <3>2, <5>2 DEF CountedOf
          <6> QED BY <4>1, <6>1, BooksKept
        <5> QED BY <5>1, <5>2
      <4> QED BY <1>s, <3>1, <3>2, <4>1, <4>2 DEF CountInv
    <3>4. CASE c \notin established
      <4>1. Failure(c)
        BY <2>1, <3>4 DEF Finish
      <4>2. ASSUME NEW q \in store' PROVE Books(CountedOf(q), Spent(q), lost[q], fails[q])'
        <5>1. q \in store
          BY <4>1, FailureOf
        <5>2. CASE q = peerOf[c]
          <6>1. Books(CountedOf(q)', Spent(q)', lost'[q], fails[q] + 1)
            BY <2>1, <3>4, <5>1, <5>2, FinishBooks
          <6>2. fails'[q] = fails[q] + 1
            BY <4>1, <4>2, <5>2, FailureOf
          <6> QED BY <6>1, <6>2 DEF Books, Extras
        <5>3. CASE q # peerOf[c]
          <6>1. CountedOf(q)' = CountedOf(q)
            BY <3>1, <3>2, <5>3 DEF CountedOf
          <6>2. lost'[q] = lost[q] /\ fails'[q] = fails[q]
            BY <4>1, <4>2, <5>3, FailureOf
          <6> QED BY <5>1, <6>1, <6>2, BooksKept
        <5> QED BY <5>2, <5>3
      <4> QED BY <1>s, <3>1, <3>2, <4>2 DEF CountInv
    <3> QED BY <3>3, <3>4
  <2>2. CASE Connected(c) \/ Fails(c) \/ Unregister(c)
    BY <2>2, <1>k DEF Connected, Fails, Unregister
  <2> QED BY <1>6, <2>1, <2>2 DEF ConnStep
<1>7. ASSUME NEW c \in Conns, Verack(c) PROVE CountInv'
  <2> DEFINE p == peerOf[c]
  <2>1. RecordSuccess(p)
    BY <1>7 DEF Verack
  <2>2. CASE p \notin store
    BY <2>1, <2>2, <1>k DEF RecordSuccess
  <2>3. CASE p \in store
    <3>1. fails' = [fails EXCEPT ![p] = 0] /\ Forgiven({p}) /\ store' = store
      BY <2>1, <2>3 DEF RecordSuccess, SuccessClears
    <3> HIDE DEF p
    <3>2. \A q \in Peers : fails'[q] = IF q = p THEN 0 ELSE fails[q]
      BY <3>1 DEF StoreInv
    <3> QED BY <1>s, <3>1, <3>2, ForgivenCount
  <2> QED BY <2>2, <2>3
<1>8. ASSUME NEW c \in Conns, BadVersion(c) \/ Useful(c) \/ Tick(c) PROVE CountInv'
  BY <1>8, <1>k DEF BadVersion, RecordMute, Useful, Tick
<1>9. CASE WipeMarks
  <2>1. /\ fails' = [p \in Peers |-> IF p \in gone THEN 0 ELSE fails[p]]
        /\ Forgiven(gone) /\ store' = store
    BY <1>9 DEF WipeMarks
  <2> QED BY <1>s, <2>1, ForgivenCount
<1>10. CASE WipeDrops \/ ResyncEnds \/ StopCloses \/ StopClears \/ Restart
  BY <1>10, <1>k DEF WipeDrops, ResyncEnds, StopCloses, StopClears, Restart
<1> QED BY <1>1, <1>2, <1>3, <1>4, <1>5, <1>6, <1>7, <1>8, <1>9, <1>10 DEF Next

\* The steps that take an address out of the store.
LEMMA Removing ==
  ASSUME ConnInv, PassInv, StoreInv, CountInv, [Next]_vars,
         NEW p \in store \ store', store' \subseteq store
  PROVE  Extras * lost'[p] >= MaxFails
<1> USE DEF storeVars
<1>s. p \in Peers /\ fails[p] \in Nat /\ MaxFails \in Nat /\ p \in store
  BY BoundsAssumption DEF StoreInv
<1>k. ASSUME store' = store PROVE FALSE
  BY <1>k
<1>o. ASSUME Books(CountedOf(p)', Spent(p)', lost'[p], fails[p] + 1), fails[p] + 1 >= MaxFails
      PROVE  Extras * lost'[p] >= MaxFails
  <2>1. StoreInv' /\ CountInv'
    BY NextStore, NextCount
  <2>2. lost'[p] \in Nat
    BY <1>s, <2>1, BoundsAssumption DEF StoreInv
  <2>3. CountedOf(p)' \in SUBSET Conns /\ Spent(p)' \in SUBSET (Maints \X CountedOf(p)')
    BY <2>1 DEF CountedOf, Spent, CountInv
  <2> DEFINE C == CountedOf(p)'
             W == Spent(p)'
             l == lost'[p]
             n == fails[p] + 1
  <2>4. C \in SUBSET Conns /\ W \in SUBSET (Maints \X C) /\ l \in Nat /\ n \in Nat /\ Books(C, W, l, n)
    BY <1>s, <1>o, <2>2, <2>3
  <2>5. n >= MaxFails
    BY <1>o
  <2> HIDE DEF C, W, l, n
  <2>6. n <= Extras * l
    BY <2>4, OwedBooks
  <2>7. Extras * l \in Nat
    <3>1. Extras \in Nat
      BY <2>4, PairsFinite
    <3> QED BY <2>4, <3>1
  <2>8. Extras * l >= MaxFails
    BY <1>s, <2>4, <2>5, <2>6, <2>7
  <2> QED BY <2>8 DEF l
<1>1. ASSUME NEW q \in Peers, AddPeer(q) PROVE FALSE
  <2>1. PICK S \in SUBSET (store \union {q}) :
          /\ Cardinality(store \union {q}) - Cardinality(S) =
               IF Cardinality(store \union {q}) > MaxPeers THEN 1 ELSE 0
          /\ store' = S
    BY <1>1 DEF AddPeer
  <2>2. q \notin store
    BY <1>1 DEF AddPeer
  <2>3. IsFiniteSet(store \union {q}) /\ Cardinality(store \union {q}) = Cardinality(store) + 1
    BY <2>2, StoreFinite, FS_AddElement
  <2>4. S \subseteq store /\ Cardinality(S) \in Nat
    BY <2>1, StoreFinite, FS_Subset, FS_CardinalityType
  <2>5. Cardinality(S) >= Cardinality(store)
    BY <2>1, <2>3, <2>4, StoreFinite, BoundsAssumption
  <2>6. Cardinality(S) <= Cardinality(store) /\ (Cardinality(S) = Cardinality(store) => S = store)
    BY <2>4, StoreFinite, FS_Subset
  <2>7. S = store
    BY <2>4, <2>5, <2>6, StoreFinite
  <2> QED BY <2>1, <2>7
<1>2. ASSUME NEW t \in Threads, Judge(t) PROVE Extras * lost'[p] >= MaxFails
  <2>1. PICK c \in todo[t] :
          /\ todo' = [todo EXCEPT ![t] = @ \ {c}]
          /\ IF Alive(c) /\ (HandshakeStalled(c) \/ Silent(c))
             THEN /\ IF HandshakeStalled(c) THEN RecordFailure(c)
                     ELSE IF Mute(c) THEN RecordMute(peerOf[c])
                     ELSE UNCHANGED storeVars
                  /\ victim' = [victim EXCEPT ![t] = c]
             ELSE UNCHANGED storeVars
    BY <1>2 DEF Judge
  <2>2. c \in Conns /\ t \in Maints /\ UNCHANGED peerOf
    BY <1>2 DEF Judge, PassInv, connVars
  <2>3. RecordFailure(c) /\ victim' = [victim EXCEPT ![t] = c]
    BY <1>k, <2>1 DEF RecordMute
  <2>4. p = peerOf[c] /\ fails[p] + 1 >= MaxFails
    BY <2>2, <2>3, FailureOf DEF RecordFailure
  <2>5. Books(CountedOf(p)', Spent(p)', lost'[p], fails[p] + 1)
    BY <1>s, <2>1, <2>2, <2>3, <2>4, JudgeBooks
  <2> QED BY <1>o, <2>4, <2>5
<1>3. ASSUME NEW c \in Conns, Finish(c) PROVE Extras * lost'[p] >= MaxFails
  <2>1. c \notin established /\ Failure(c)
    BY <1>3, <1>k DEF Finish
  <2>2. p = peerOf[c] /\ fails[p] + 1 >= MaxFails
    BY <2>1, FailureOf
  <2>3. Books(CountedOf(p)', Spent(p)', lost'[p], fails[p] + 1)
    BY <1>3, <1>s, <2>1, <2>2, FinishBooks
  <2> QED BY <1>o, <2>2, <2>3
<1>4. CASE UNCHANGED vars
  BY <1>4, <1>k DEF vars
<1>5. ASSUME NEW q \in Peers, CoolEnds(q) PROVE FALSE
  BY <1>5, <1>k DEF CoolEnds
<1>6. ASSUME NEW t \in Threads, EnsureStep(t) PROVE FALSE
  BY <1>6, <1>k DEF EnsureStep, EnsureBegins, PassEnds, Spawn, RecordAttempt, Start, PreferEnds, BestEnds
<1>7. ASSUME NEW t \in Threads, PruneStep(t), ~Judge(t) PROVE FALSE
  BY <1>7, <1>k DEF PruneStep, Reap, ReapEnds, Evict, JudgeEnds, Trim
<1>8. ASSUME NEW c \in Conns, ConnStep(c), ~Finish(c) PROVE FALSE
  BY <1>8, <1>k DEF ConnStep, Connected, Fails, Unregister
<1>9. ASSUME NEW c \in Conns, BadVersion(c) \/ Verack(c) \/ Useful(c) \/ Tick(c) PROVE FALSE
  BY <1>9, <1>k DEF BadVersion, RecordMute, Verack, RecordSuccess, Useful, Tick
<1>10. CASE WipeDrops \/ WipeMarks \/ ResyncEnds \/ StopCloses \/ StopClears \/ Restart
  BY <1>10, <1>k DEF WipeDrops, WipeMarks, ResyncEnds, StopCloses, StopClears, Restart
<1> QED BY <1>1, <1>2, <1>3, <1>4, <1>5, <1>6, <1>7, <1>8, <1>9, <1>10 DEF Next

\* An address is removed only when MaxFails failures are counted, at most one
\* of each maintenance thread and one of its own for each failed connection.
THEOREM RemovalEarned == Spec => RemovedAfterFailures
<1>1. IInv /\ CountInv /\ [Next]_vars => IInv' /\ CountInv'
  BY NextInv, NextCount DEF IInv
<1>2. IInv /\ CountInv /\ [Next]_vars =>
        [\A p \in store \ store' :
           store' \subseteq store => (Cardinality(Maints) + 1) * lost'[p] >= MaxFails]_vars
  BY Removing DEF IInv, Extras
<1> QED BY <1>1, <1>2, InitInv, InitCount, PTL DEF Spec, RemovedAfterFailures
=============================================================================
