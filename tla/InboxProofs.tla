----------------------------- MODULE InboxProofs -----------------------------
(***************************************************************************)
(* Proofs about Inbox for any messages, posts, requests, addresses and     *)
(* connections, any limit of the reparse and every bound.                  *)
(***************************************************************************)
EXTENDS Inbox, FiniteSetTheorems, SequenceTheorems, TLAPS

Stored == Objs \ Requests     \* what the table objects holds: messages and posts

-----------------------------------------------------------------------------
(* Sequences as the client uses them                                         *)

LEMMA SetToSeqIsEnumeration ==
  ASSUME NEW S, IsFiniteSet(S)
  PROVE  /\ SetToSeq(S) \in Seq(S)
         /\ Len(SetToSeq(S)) = Cardinality(S)
         /\ ToSet(SetToSeq(S)) = S
<1> DEFINE n == Cardinality(S)
           q == SetToSeq(S)
<1>1. n \in Nat /\ ExistsBijection(1..n, S)
  BY FS_CardinalityType
<1>2. PICK f \in [1..n -> S] : IsInjective(f)
  BY <1>1 DEF ExistsBijection, Bijection, Injection
<1>3. q \in [1..n -> S] /\ IsInjective(q)
  BY <1>2 DEF SetToSeq
<1> HIDE DEF n, q
<1>4. IsFiniteSet(1..n) /\ Cardinality(1..n) = n
  BY <1>1, FS_Interval
<1>5. q \in Injection(1..n, S)
  BY <1>3 DEF Injection
<1>6. q \in Surjection(1..n, S)
  <2>1. Cardinality(1..n) = Cardinality(S)
    BY <1>4 DEF n
  <2> QED BY <1>5, <2>1, FS_Injection
<1>7. \A x \in S : \E i \in 1..n : q[i] = x
  BY <1>6 DEF Surjection
<1>8. q \in Seq(S) /\ Len(q) = n /\ DOMAIN q = 1..n
  BY <1>1, <1>3
<1>9. ToSet(q) = S
  BY <1>3, <1>7, <1>8 DEF ToSet
<1> QED BY <1>8, <1>9 DEF n, q

LEMMA ToSetOfConcat ==
  ASSUME NEW S, NEW s \in Seq(S), NEW q \in Seq(S)
  PROVE  ToSet(s \o q) = ToSet(s) \union ToSet(q)
<1> DEFINE c == s \o q
<1>1. /\ c \in Seq(S) /\ Len(c) = Len(s) + Len(q)
      /\ \A i \in 1..(Len(s) + Len(q)) : c[i] = IF i <= Len(s) THEN s[i] ELSE q[i - Len(s)]
  BY ConcatProperties
<1>2. Len(s) \in Nat /\ Len(q) \in Nat
      /\ DOMAIN s = 1..Len(s) /\ DOMAIN q = 1..Len(q) /\ DOMAIN c = 1..(Len(s) + Len(q))
  BY <1>1, LenProperties
<1> HIDE DEF c
<1>3. \A i \in DOMAIN c : c[i] \in ToSet(s) \union ToSet(q)
  <2> SUFFICES ASSUME NEW i \in DOMAIN c PROVE c[i] \in ToSet(s) \union ToSet(q)
    OBVIOUS
  <2>1. CASE i <= Len(s)
    <3>1. i \in DOMAIN s /\ c[i] = s[i]
      BY <1>1, <1>2, <2>1
    <3> QED BY <3>1 DEF ToSet
  <2>2. CASE ~(i <= Len(s))
    <3>1. i - Len(s) \in DOMAIN q /\ c[i] = q[i - Len(s)]
      BY <1>1, <1>2, <2>2
    <3> QED BY <3>1 DEF ToSet
  <2> QED BY <2>1, <2>2
<1>4. \A i \in DOMAIN s : s[i] \in ToSet(c)
  <2> SUFFICES ASSUME NEW i \in DOMAIN s PROVE \E j \in DOMAIN c : c[j] = s[i]
    BY DEF ToSet
  <2>1. i \in DOMAIN c /\ c[i] = s[i]
    BY <1>1, <1>2
  <2> QED BY <2>1
<1>5. \A i \in DOMAIN q : q[i] \in ToSet(c)
  <2> SUFFICES ASSUME NEW i \in DOMAIN q PROVE \E j \in DOMAIN c : c[j] = q[i]
    BY DEF ToSet
  <2>1. Len(s) + i \in DOMAIN c /\ c[Len(s) + i] = q[i]
    BY <1>1, <1>2
  <2> QED BY <2>1
<1>6. ToSet(c) \subseteq ToSet(s) \union ToSet(q)
  BY <1>3 DEF ToSet
<1>7. ToSet(s) \subseteq ToSet(c) /\ ToSet(q) \subseteq ToSet(c)
  BY <1>4, <1>5 DEF ToSet
<1> QED BY <1>6, <1>7 DEF c

LEMMA ToSetOfTail ==
  ASSUME NEW S, NEW s \in Seq(S), s # <<>>
  PROVE  /\ Head(s) \in S /\ Tail(s) \in Seq(S)
         /\ ToSet(s) = {Head(s)} \union ToSet(Tail(s))
<1>1. /\ Head(s) \in S /\ Tail(s) \in Seq(S) /\ Len(Tail(s)) = Len(s) - 1
      /\ \A i \in 1..Len(Tail(s)) : Tail(s)[i] = s[i + 1]
  BY HeadTailProperties
<1>2. Len(s) \in Nat \ {0} /\ DOMAIN s = 1..Len(s) /\ DOMAIN Tail(s) = 1..(Len(s) - 1)
  BY <1>1, LenProperties, EmptySeq
<1>3. Head(s) = s[1]
  OBVIOUS
<1>4. \A i \in DOMAIN s : s[i] \in {Head(s)} \union ToSet(Tail(s))
  <2> SUFFICES ASSUME NEW i \in DOMAIN s, i # 1 PROVE \E j \in DOMAIN Tail(s) : Tail(s)[j] = s[i]
    BY <1>3 DEF ToSet
  <2>1. i - 1 \in DOMAIN Tail(s) /\ Tail(s)[i - 1] = s[i]
    BY <1>1, <1>2
  <2> QED BY <2>1
<1>5. \A j \in DOMAIN Tail(s) : Tail(s)[j] \in ToSet(s)
  <2> SUFFICES ASSUME NEW j \in DOMAIN Tail(s) PROVE \E i \in DOMAIN s : s[i] = Tail(s)[j]
    BY DEF ToSet
  <2>1. j + 1 \in DOMAIN s /\ s[j + 1] = Tail(s)[j]
    BY <1>1, <1>2
  <2> QED BY <2>1
<1>6. s[1] \in ToSet(s)
  BY <1>2 DEF ToSet
<1>7. ToSet(s) \subseteq {Head(s)} \union ToSet(Tail(s))
  BY <1>4 DEF ToSet
<1>8. {Head(s)} \union ToSet(Tail(s)) \subseteq ToSet(s)
  BY <1>3, <1>5, <1>6 DEF ToSet
<1> QED BY <1>1, <1>7, <1>8

LEMMA EmptyToSet == ToSet(<<>>) = {}
BY DEF ToSet

\* What the reparse reads is in the table, at most ReparseLimit of it.
LEMMA NewestRead ==
  ASSUME NEW S, objects \in Seq(S)
  PROVE  /\ Newest \in Seq(S) /\ ToSet(Newest) \subseteq ToSet(objects)
         /\ Len(Newest) <= ReparseLimit
<1> DEFINE n == IF Len(objects) < ReparseLimit THEN Len(objects) ELSE ReparseLimit
           from == Len(objects) - n + 1
           last == SubSeq(objects, from, Len(objects))
<1>1. Len(objects) \in Nat /\ DOMAIN objects = 1..Len(objects)
      /\ (\A i \in 1..Len(objects) : objects[i] \in S)
  BY LenProperties
<1>2. n \in Nat /\ n <= Len(objects) /\ n <= ReparseLimit
  BY <1>1, InboxBoundsAssumption
<1>3. from \in Int /\ from >= 1 /\ Len(objects) - from + 1 = n
  BY <1>1, <1>2
<1> HIDE DEF n, from
<1>4. \A i \in from..Len(objects) : objects[i] \in S /\ i \in DOMAIN objects
  BY <1>1, <1>3
<1>5. /\ last \in Seq(S)
      /\ Len(last) = IF from <= Len(objects) THEN Len(objects) - from + 1 ELSE 0
      /\ \A i \in 1..(Len(objects) - from + 1) : last[i] = objects[from + i - 1]
  BY <1>1, <1>3, <1>4, SubSeqProperties
<1>6. Len(last) = n
  BY <1>1, <1>2, <1>3, <1>5
<1>7. \A i \in 1..n : last[i] \in S /\ last[i] \in ToSet(objects)
  <2> SUFFICES ASSUME NEW i \in 1..n PROVE last[i] \in S /\ last[i] \in ToSet(objects)
    OBVIOUS
  <2>1. from + i - 1 \in from..Len(objects) /\ last[i] = objects[from + i - 1]
    BY <1>1, <1>2, <1>3, <1>5
  <2> QED BY <1>4, <2>1 DEF ToSet
<1> HIDE DEF last
<1>8. Newest = [i \in 1..n |-> last[(n - i) + 1]]
  BY <1>6 DEF Newest, Reverse, last, from, n
<1>9. \A i \in 1..n : (n - i) + 1 \in 1..n
  BY <1>2
<1>10. Newest \in [1..n -> S] /\ (\A i \in 1..n : Newest[i] \in ToSet(objects))
  BY <1>7, <1>8, <1>9
<1>11. Newest \in Seq(S) /\ Len(Newest) = n /\ DOMAIN Newest = 1..n
  BY <1>2, <1>10
<1> QED BY <1>2, <1>10, <1>11 DEF ToSet

-----------------------------------------------------------------------------
(* The table of objects                                                      *)

\* What waits to be written and what is written are apart, since the network
\* hands on neither again: the table has no object twice.
TableInv ==
  /\ known \subseteq Objs
  /\ batch \subseteq known \ Requests /\ IsFiniteSet(batch)
  /\ objects \in Seq(Stored)
  /\ ToSet(objects) \subseteq known /\ IsFiniteSet(ToSet(objects))
  /\ Len(objects) = Cardinality(ToSet(objects))
  /\ batch \intersect ToSet(objects) = {}

LEMMA InitTable == Init => TableInv
<1>1. /\ IsFiniteSet({}) /\ Cardinality({}) = 0
      /\ <<>> \in Seq(Stored) /\ Len(<<>>) = 0
  BY FS_EmptySet, EmptySeq
<1> QED BY <1>1, EmptyToSet DEF Init, TableInv

LEMMA TableKept ==
  ASSUME TableInv, UNCHANGED <<known, batch, objects>>
  PROVE  TableInv'
BY DEF TableInv, Stored, Objs

LEMMA FlushTable ==
  ASSUME TableInv, Flush
  PROVE  TableInv'
<1> DEFINE q == SetToSeq(batch)
<1>1. q \in Seq(batch) /\ Len(q) = Cardinality(batch) /\ ToSet(q) = batch
  BY SetToSeqIsEnumeration DEF TableInv
<1>2. batch \subseteq Stored
  BY DEF TableInv, Stored
<1>3. q \in Seq(Stored) /\ objects \in Seq(Stored)
  BY <1>1, <1>2, SeqMonotonic DEF TableInv
<1>4. objects' = objects \o q /\ batch' = {} /\ known' = known
  BY DEF Flush
<1> HIDE DEF q
<1>5. /\ objects' \in Seq(Stored) /\ Len(objects') = Len(objects) + Len(q)
      /\ ToSet(objects') = ToSet(objects) \union batch
  <2>1. objects \o q \in Seq(Stored) /\ Len(objects \o q) = Len(objects) + Len(q)
    BY <1>3, ConcatProperties
  <2>2. ToSet(objects \o q) = ToSet(objects) \union ToSet(q)
    BY <1>3, ToSetOfConcat
  <2> QED BY <1>1, <1>4, <2>1, <2>2
<1>6. /\ IsFiniteSet(ToSet(objects) \union batch)
      /\ Cardinality(ToSet(objects) \union batch)
           = Cardinality(ToSet(objects)) + Cardinality(batch) - Cardinality({})
  <2>1. ToSet(objects) \intersect batch = {}
    BY DEF TableInv
  <2> QED BY <2>1, FS_Union DEF TableInv
<1>7. Len(objects') = Cardinality(ToSet(objects'))
  <2>1. Cardinality(ToSet(objects)) \in Nat /\ Cardinality(batch) \in Nat /\ Cardinality({}) = 0
    BY FS_CardinalityType, FS_EmptySet DEF TableInv
  <2> QED BY <1>1, <1>5, <1>6, <2>1 DEF TableInv
<1>8. IsFiniteSet(batch') /\ batch' \subseteq known' \ Requests
  BY <1>4, FS_EmptySet
<1>9. ToSet(objects') \subseteq known' /\ IsFiniteSet(ToSet(objects'))
  BY <1>4, <1>5, <1>6 DEF TableInv
<1> QED BY <1>4, <1>5, <1>7, <1>8, <1>9 DEF TableInv, Stored, Objs

LEMMA NextTable == TableInv /\ [Next]_vars => TableInv'
<1> SUFFICES ASSUME TableInv, [Next]_vars PROVE TableInv'
  OBVIOUS
<1>1. CASE UNCHANGED vars
  BY <1>1, TableKept DEF vars
<1>2. ASSUME NEW t \in Threads, Handler(t) PROVE TableInv'
  BY <1>2, TableKept DEF Handler, Match, PublishKey, Exists, Add, AddRefused, RelayAck,
                         dbVars, netVars
<1>3. ASSUME NEW t \in Threads, NEW o \in Objs, Receive(t, o) PROVE TableInv'
  <2>1. /\ o \notin known /\ known' = known \union {o}
        /\ batch' = batch \union ({o} \ Requests) /\ UNCHANGED objects
    BY <1>3 DEF Receive, dbVars
  <2>2. IsFiniteSet(batch')
    <3>1. CASE o \in Requests
      BY <2>1, <3>1 DEF TableInv
    <3>2. CASE o \notin Requests
      <4>1. batch' = batch \union {o}
        BY <2>1, <3>2
      <4> QED BY <4>1, FS_AddElement DEF TableInv
    <3> QED BY <3>1, <3>2
  <2>3. batch' \subseteq known' \ Requests /\ known' \subseteq Objs
    BY <2>1 DEF TableInv
  <2>4. o \notin ToSet(objects) /\ ToSet(objects) \subseteq known'
    BY <2>1 DEF TableInv
  <2>5. batch' \intersect ToSet(objects) = {}
    BY <2>1, <2>4 DEF TableInv
  <2> QED BY <2>1, <2>2, <2>3, <2>4, <2>5 DEF TableInv, Stored, Objs
<1>4. CASE Flush
  BY <1>4, FlushTable
<1>5. CASE GuiGoesOn
  BY <1>5, TableKept DEF GuiGoesOn, Load, ReadOrphans, Reparse, ReparseEnds, Clear, Fill, Pop,
                         Purge, dbVars, netVars
<1>6. CASE Crash
  <2>1. known' = ToSet(objects) /\ batch' = {} /\ UNCHANGED objects
    BY <1>6 DEF Crash, Remembered, dbVars
  <2>2. IsFiniteSet(batch')
    BY <2>1, FS_EmptySet
  <2> QED BY <2>1, <2>2 DEF TableInv, Stored, Objs
<1>7. ASSUME NEW o \in Objs, Relay(o) \/ Forget(o) \/ DeleteMessage(o) PROVE TableInv'
  BY <1>7, TableKept DEF Relay, Forget, DeleteMessage, dbVars, netVars
<1>8. ASSUME NEW a \in Addrs, NEW value \in {"on", "off"},
             \/ AddIdentity(a) \/ DeleteIdentity(a) \/ SetEnabled(a, value)
             \/ Subscribe(a) \/ Unsubscribe(a)
      PROVE  TableInv'
  BY <1>8, TableKept DEF AddIdentity, DeleteIdentity, SetEnabled, Subscribe, Unsubscribe, netVars
<1> QED BY <1>1, <1>2, <1>3, <1>4, <1>5, <1>6, <1>7, <1>8 DEF Next

-----------------------------------------------------------------------------
(* The identities                                                            *)

\* What the table of keys lacks or has too much of is what the operation on
\* its way is about.
KeysInv ==
  /\ identities \in [Addrs -> {"absent", "on", "off"}]
  /\ loaded \subseteq Addrs /\ subs \subseteq Addrs /\ fill \subseteq Addrs
  /\ target \in Addrs \union {NoAddr}
  /\ gpc \in {"idle", "load", "read", "reparse", "clear", "fill", "pop", "purge"}
  /\ ops \in 0..MaxOps
  /\ On # {}
  /\ gpc \in {"load", "read", "reparse"} => target \in On
  /\ gpc \in {"idle", "read", "reparse", "purge"} => loaded = On
  /\ gpc = "load" => loaded \union {target} = On
  /\ gpc = "fill" => loaded \union fill = On
  /\ gpc = "pop" => loaded \ {target} = On

LEMMA InitKeys == Init => KeysInv
<1> SUFFICES ASSUME Init PROVE KeysInv
  OBVIOUS
<1>1. On = First
  BY AddrsAssumption DEF Init, On
<1>2. 0 \in 0..MaxOps
  BY InboxBoundsAssumption
<1> QED BY <1>1, <1>2, AddrsAssumption DEF Init, KeysInv

LEMMA KeysKept ==
  ASSUME KeysInv, UNCHANGED <<identities, loaded, subs, fill, target, gpc, ops>>
  PROVE  KeysInv'
BY DEF KeysInv, On

LEMMA BeginKeys ==
  ASSUME KeysInv, NEW l, NEW a, Begin(l, a)
  PROVE  /\ gpc = "idle" /\ loaded = On /\ gpc' = l /\ target' = a
         /\ ops' \in 0..MaxOps /\ UNCHANGED fill
<1>1. ops < MaxOps /\ ops' = ops + 1 /\ ops \in 0..MaxOps
  BY DEF Begin, KeysInv
<1>2. ops' \in 0..MaxOps
  BY <1>1, InboxBoundsAssumption
<1> QED BY <1>2 DEF Begin, KeysInv

\* An identity that is not the last active one leaves another one.
LEMMA SpareLeavesOne ==
  ASSUME KeysInv, NEW a \in Addrs, Spare(a)
  PROVE  On \ {a} # {}
<1>1. CASE On = {a}
  <2>1. Cardinality(On) = 1
    BY <1>1, FS_Singleton
  <2> QED BY <1>1, <2>1 DEF Spare
<1>2. CASE On # {a}
  BY <1>2 DEF KeysInv
<1> QED BY <1>1, <1>2

LEMMA NextKeys == KeysInv /\ [Next]_vars => KeysInv'
<1> SUFFICES ASSUME KeysInv, [Next]_vars PROVE KeysInv'
  OBVIOUS
<1>1. CASE UNCHANGED vars
  BY <1>1, KeysKept DEF vars
<1>2. ASSUME NEW t \in Threads, Handler(t) PROVE KeysInv'
  BY <1>2, KeysKept DEF Handler, Match, PublishKey, Exists, Add, AddRefused, RelayAck,
                        dbVars, guiVars, envVars
<1>3. ASSUME NEW t \in Threads, NEW o \in Objs, Receive(t, o) PROVE KeysInv'
  BY <1>3, KeysKept DEF Receive, dbVars, guiVars, envVars
<1>4. CASE Flush
  BY <1>4, KeysKept DEF Flush, guiVars, envVars
<1>5. CASE GuiGoesOn
  <2>1. UNCHANGED <<identities, subs, ops>> /\ On' = On
    BY <1>5 DEF GuiGoesOn, Load, ReadOrphans, Reparse, ReparseEnds, Clear, Fill, Pop,
                Purge, dbVars, envVars, On
  <2>2. CASE Load
    <3>1. On \subseteq Addrs
      BY DEF On
    <3> QED BY <2>1, <2>2, <3>1 DEF Load, LoadedWith, KeysInv
  <2>3. CASE ReadOrphans \/ Reparse \/ ReparseEnds \/ Purge
    BY <2>1, <2>3 DEF ReadOrphans, Reparse, ReparseEnds, Purge, KeysInv
  <2>4. CASE Clear
    BY <2>1, <2>4 DEF Clear, KeysInv, On
  <2>5. CASE Fill
    BY <2>1, <2>5 DEF Fill, KeysInv
  <2>6. CASE Pop
    BY <2>1, <2>6 DEF Pop, KeysInv
  <2> QED BY <1>5, <2>2, <2>3, <2>4, <2>5, <2>6 DEF GuiGoesOn
<1>6. CASE Crash
  <2>1. UNCHANGED <<identities, subs, ops>> /\ On' = On
    BY <1>6 DEF Crash, dbVars, On
  <2> QED BY <1>6, <2>1 DEF Crash, KeysInv, On
<1>7. ASSUME NEW o \in Objs, Relay(o) \/ Forget(o) \/ DeleteMessage(o) PROVE KeysInv'
  BY <1>7, KeysKept DEF Relay, Forget, DeleteMessage, dbVars, guiVars, envVars
<1>8. ASSUME NEW a \in Addrs, AddIdentity(a) PROVE KeysInv'
  <2>1. /\ Begin("load", a) /\ identities' = [identities EXCEPT ![a] = "on"]
        /\ UNCHANGED <<subs, loaded>>
    BY <1>8 DEF AddIdentity
  <2>2. On' = On \union {a}
    BY <2>1 DEF On, KeysInv
  <2> QED BY <2>1, <2>2, BeginKeys DEF KeysInv
<1>9. ASSUME NEW a \in Addrs, DeleteIdentity(a) PROVE KeysInv'
  <2>1. /\ Begin("pop", a) /\ identities' = [identities EXCEPT ![a] = "absent"]
        /\ UNCHANGED <<subs, loaded>> /\ Spare(a)
    BY <1>9 DEF DeleteIdentity
  <2>2. On' = On \ {a}
    BY <2>1 DEF On, KeysInv
  <2> QED BY <2>1, <2>2, BeginKeys, SpareLeavesOne DEF KeysInv
<1>10. ASSUME NEW a \in Addrs, NEW value \in {"on", "off"}, SetEnabled(a, value) PROVE KeysInv'
  <2>1. /\ Begin("clear", a) /\ identities' = [identities EXCEPT ![a] = value]
        /\ UNCHANGED <<subs, loaded>> /\ (value = "on" \/ Spare(a))
    BY <1>10 DEF SetEnabled
  <2>2. On' = IF value = "on" THEN On \union {a} ELSE On \ {a}
    BY <2>1 DEF On, KeysInv
  <2>3. On' # {}
    BY <2>1, <2>2, SpareLeavesOne DEF KeysInv
  <2> QED BY <2>1, <2>3, BeginKeys DEF KeysInv
<1>11. ASSUME NEW a \in Addrs, Subscribe(a) \/ Unsubscribe(a) PROVE KeysInv'
  <2>1. /\ Begin("idle", NoAddr) \/ Begin("purge", a)
        /\ UNCHANGED <<identities, loaded>> /\ subs' \subseteq Addrs
    BY <1>11 DEF Subscribe, Unsubscribe, KeysInv
  <2>2. On' = On
    BY <2>1 DEF On
  <2> QED BY <2>1, <2>2, BeginKeys DEF KeysInv
<1> QED BY <1>1, <1>2, <1>3, <1>4, <1>5, <1>6, <1>7, <1>8, <1>9, <1>10, <1>11 DEF Next

\* Some identity stays active, and between two operations exactly the keys of
\* the enabled identities are loaded.
THEOREM KeysMatch == Spec => []IdentitiesKept
<1>1. KeysInv => IdentitiesKept
  BY DEF KeysInv, IdentitiesKept
<1> QED BY InitKeys, NextKeys, <1>1, PTL DEF Spec

-----------------------------------------------------------------------------
(* Rows and acknowledgements                                                 *)

\* A handler that is to insert or has inserted knows its object, a row has its
\* object among those that ever had one, an acknowledgement too.
RowInv ==
  /\ inbox \in [Objs -> 0..1]
  /\ stored \subseteq Objs /\ deleted \subseteq stored
  /\ \A o \in Objs : inbox[o] > 0 => o \in stored
  /\ pc \in [Threads -> {"idle", "match", "publish", "exists", "add", "ack"}]
  /\ obj \in [Threads -> Objs \union {NoObj}]
  /\ \A t \in Threads :
       /\ pc[t] = "idle" <=> obj[t] = NoObj
       /\ pc[t] = "ack" => obj[t] \in stored
  /\ seen \subseteq stored /\ pool \subseteq stored
  /\ todo \in Seq(Stored)
  /\ recent \subseteq Addrs
  /\ deletes \in 0..MaxDeletes

LEMMA InitRow == Init => RowInv
<1> SUFFICES ASSUME Init PROVE RowInv
  OBVIOUS
<1>1. <<>> \in Seq(Stored) /\ 0 \in 0..MaxDeletes
  BY EmptySeq, InboxBoundsAssumption
<1> QED BY <1>1 DEF Init, RowInv

LEMMA RowKept ==
  ASSUME RowInv, UNCHANGED <<inbox, stored, deleted, pc, obj, seen, pool, todo, recent, deletes>>
  PROVE  RowInv'
BY DEF RowInv, Stored, Objs, Threads

\* A handler goes on from l0, nothing else moving but the rows.
LEMMA GotoRow ==
  ASSUME RowInv, NEW t \in Threads, pc[t] # "idle",
         NEW l \in {"idle", "publish", "exists", "add", "ack"}, Goto(t, l)
  PROVE  /\ pc' \in [Threads -> {"idle", "match", "publish", "exists", "add", "ack"}]
         /\ obj' \in [Threads -> Objs \union {NoObj}]
         /\ \A u \in Threads :
              /\ pc'[u] = "idle" <=> obj'[u] = NoObj
              /\ pc'[u] = "ack" => \/ pc[u] = "ack" /\ obj'[u] = obj[u]
                                   \/ u = t /\ l = "ack" /\ obj'[u] = obj[t]
<1>1. pc' = [pc EXCEPT ![t] = l] /\ obj' = [obj EXCEPT ![t] = IF l = "idle" THEN NoObj ELSE @]
  BY DEF Goto
<1>2. obj[t] \in Objs /\ obj[t] # NoObj
  BY DEF RowInv
<1> QED BY <1>1, <1>2 DEF RowInv

LEMMA HandlerRow ==
  ASSUME RowInv, NEW t \in Threads, Handler(t)
  PROVE  RowInv'
<1>1. UNCHANGED <<todo, deletes>>
  BY DEF Handler, Match, PublishKey, Exists, Add, AddRefused, RelayAck, guiVars, envVars
<1>2. pc[t] # "idle" /\ obj[t] \in Objs
  BY DEF Handler, Match, PublishKey, Exists, Add, AddRefused, RelayAck, RowInv
<1>3. CASE Match(t) \/ Exists(t) \/ AddRefused(t)
  <2>1. PICK l \in {"idle", "publish", "exists", "add"} : Goto(t, l)
    BY <1>3 DEF Match, Exists, AddRefused
  <2>2. UNCHANGED <<inbox, stored, deleted, seen, pool, recent>>
    BY <1>3 DEF Match, Exists, AddRefused, rowVars, ackVars
  <2> QED BY <1>1, <1>2, <2>1, <2>2, GotoRow DEF RowInv, Stored, Objs, Threads
<1>4. CASE PublishKey(t)
  <2>1. Goto(t, "idle") /\ recent' = recent \union {For[obj[t]]}
        /\ UNCHANGED <<inbox, stored, deleted, seen, pool>>
    BY <1>4 DEF PublishKey, rowVars, ackVars
  <2>2. For[obj[t]] \in Addrs
    BY <1>2, ObjsAssumption
  <2> QED BY <1>1, <1>2, <2>1, <2>2, GotoRow DEF RowInv, Stored, Objs, Threads
<1>5. CASE Add(t)
  <2>1. PICK l \in {"idle", "ack"} : Goto(t, l)
    BY <1>5 DEF Add
  <2>2. /\ inbox[obj[t]] = 0
        /\ inbox' = [inbox EXCEPT ![obj[t]] = inbox[obj[t]] + 1]
        /\ stored' = stored \union {obj[t]}
        /\ UNCHANGED <<deleted, seen, pool, recent>>
    BY <1>5 DEF Add, Insertable, ackVars
  <2>3. \A o \in Objs : inbox'[o] = IF o = obj[t] THEN 1 ELSE inbox[o]
    BY <1>2, <2>2 DEF RowInv
  <2>4. inbox' \in [Objs -> 0..1]
    <3>1. inbox' = [inbox EXCEPT ![obj[t]] = 1] /\ 1 \in 0..1
      BY <2>2
    <3> QED BY <3>1 DEF RowInv
  <2>5. \A u \in Threads : pc'[u] = "ack" => obj'[u] \in stored'
    BY <1>2, <2>1, <2>2, GotoRow DEF RowInv
  <2> QED BY <1>1, <1>2, <2>1, <2>2, <2>3, <2>4, <2>5, GotoRow DEF RowInv, Stored, Objs, Threads
<1>6. CASE RelayAck(t)
  <2>1. /\ Goto(t, "idle") /\ obj[t] \in stored
        /\ seen' = seen \union {obj[t]}
        /\ pool' \in {pool, pool \union {obj[t]}}
        /\ UNCHANGED <<inbox, stored, deleted, recent>>
    BY <1>6 DEF RelayAck, rowVars, RowInv
  <2> QED BY <1>1, <1>2, <2>1, GotoRow DEF RowInv, Stored, Objs, Threads
<1> QED BY <1>3, <1>4, <1>5, <1>6 DEF Handler

LEMMA NextRow == TableInv /\ RowInv /\ [Next]_vars => RowInv'
<1> SUFFICES ASSUME TableInv, RowInv, [Next]_vars PROVE RowInv'
  OBVIOUS
<1> USE DEF Stored, Objs, Threads
<1>1. CASE UNCHANGED vars
  BY <1>1, RowKept DEF vars
<1>2. ASSUME NEW t \in Threads, Handler(t) PROVE RowInv'
  BY <1>2, HandlerRow
<1>3. ASSUME NEW t \in Threads, NEW o \in Objs, Receive(t, o) PROVE RowInv'
  <2>1. /\ pc' = [pc EXCEPT ![t] = "match"] /\ obj' = [obj EXCEPT ![t] = o]
        /\ UNCHANGED <<inbox, stored, deleted, seen, pool, todo, recent, deletes>>
    BY <1>3 DEF Receive, rowVars, ackVars, guiVars, envVars
  <2>2. o # NoObj
    BY ObjsAssumption
  <2> QED BY <2>1, <2>2 DEF RowInv
<1>4. CASE Flush
  BY <1>4, RowKept DEF Flush, rowVars, ackVars, guiVars, envVars
<1>5. CASE GuiGoesOn
  <2>1. CASE Load \/ ReparseEnds \/ Clear \/ Fill \/ Pop
    BY <2>1, RowKept DEF Load, ReparseEnds, Clear, Fill, Pop, rowVars, ackVars, envVars
  <2>2. CASE ReadOrphans
    <3>1. todo' = Newest
          /\ UNCHANGED <<inbox, stored, deleted, pc, obj, seen, pool, recent, deletes>>
      BY <2>2 DEF ReadOrphans, rowVars, ackVars, envVars
    <3>2. Newest \in Seq(Stored)
      BY NewestRead DEF TableInv
    <3> QED BY <3>1, <3>2 DEF RowInv
  <2>3. CASE Reparse
    <3>1. /\ todo # <<>> /\ todo' = Tail(todo)
          /\ pc' = [pc EXCEPT ![Gui] = "match"] /\ obj' = [obj EXCEPT ![Gui] = Head(todo)]
          /\ UNCHANGED <<inbox, stored, deleted, seen, pool, recent, deletes>>
      BY <2>3 DEF Reparse, rowVars, ackVars, envVars
    <3>2. Head(todo) \in Stored /\ Tail(todo) \in Seq(Stored)
      BY <3>1, ToSetOfTail DEF RowInv
    <3>3. Head(todo) \in Objs /\ Head(todo) # NoObj
      BY <3>2, ObjsAssumption
    <3> QED BY <3>1, <3>2, <3>3 DEF RowInv
  <2>4. CASE Purge
    <3>1. /\ inbox' = [o \in Objs |-> IF Purged(o) THEN 0 ELSE inbox[o]]
          /\ deleted' = deleted \union {o \in Objs : Purged(o) /\ inbox[o] > 0}
          /\ UNCHANGED <<stored, pc, obj, seen, pool, todo, recent, deletes>>
      BY <2>4 DEF Purge, ackVars, envVars
    <3> HIDE DEF Objs
    <3>2. \A o \in Objs : inbox'[o] \in {0, inbox[o]}
      BY <3>1
    <3>3. inbox' \in [Objs -> 0..1] /\ (\A o \in Objs : inbox'[o] > 0 => o \in stored')
      <4>1. \A o \in Objs : inbox'[o] \in 0..1 /\ (inbox'[o] > 0 => o \in stored')
        BY <3>1, <3>2 DEF RowInv
      <4> QED BY <3>1, <4>1
    <3>4. deleted' \subseteq stored'
      BY <3>1 DEF RowInv
    <3> QED BY <3>1, <3>3, <3>4 DEF RowInv
  <2> QED BY <1>5, <2>1, <2>2, <2>3, <2>4 DEF GuiGoesOn
<1>6. CASE Crash
  <2>1. /\ pc' = [t \in Threads |-> "idle"] /\ obj' = [t \in Threads |-> NoObj]
        /\ seen' = {} /\ pool' = {} /\ recent' = {} /\ todo' = <<>>
        /\ UNCHANGED <<inbox, stored, deleted, deletes>>
    BY <1>6 DEF Crash, rowVars
  <2>2. <<>> \in Seq(Stored)
    BY EmptySeq
  <2> QED BY <2>1, <2>2 DEF RowInv
<1>7. ASSUME NEW o \in Objs, Relay(o) \/ Forget(o) PROVE RowInv'
  <2>1. /\ seen' \subseteq seen /\ pool' \subseteq pool
        /\ UNCHANGED <<inbox, stored, deleted, pc, obj, todo, recent, deletes>>
    BY <1>7 DEF Relay, Forget, rowVars, guiVars, envVars
  <2> QED BY <2>1 DEF RowInv
<1>8. ASSUME NEW o \in Objs, DeleteMessage(o) PROVE RowInv'
  <2>1. /\ inbox' = [inbox EXCEPT ![o] = 0] /\ inbox[o] > 0 /\ deleted' = deleted \union {o}
        /\ deletes' = deletes + 1 /\ deletes < MaxDeletes
        /\ UNCHANGED <<stored, pc, obj, seen, pool, todo, recent>>
    BY <1>8 DEF DeleteMessage, ackVars, guiVars
  <2>2. deletes' \in 0..MaxDeletes
    BY <2>1, InboxBoundsAssumption DEF RowInv
  <2> QED BY <2>1, <2>2 DEF RowInv
<1>9. ASSUME NEW a \in Addrs, NEW value \in {"on", "off"},
             \/ AddIdentity(a) \/ DeleteIdentity(a) \/ SetEnabled(a, value)
             \/ Subscribe(a) \/ Unsubscribe(a)
      PROVE  RowInv'
  BY <1>9, RowKept DEF AddIdentity, DeleteIdentity, SetEnabled, Subscribe, Unsubscribe,
                       Begin, rowVars, ackVars
<1> QED BY <1>1, <1>2, <1>3, <1>4, <1>5, <1>6, <1>7, <1>8, <1>9 DEF Next

\* A message has one row, whoever inserts it after whoever looked.
THEOREM RowUnique == Spec => []OneRowPerObject
<1>1. Init => TableInv /\ RowInv
  BY InitTable, InitRow
<1>2. TableInv /\ RowInv /\ [Next]_vars => (TableInv /\ RowInv)'
  BY NextTable, NextRow
<1>3. RowInv => OneRowPerObject
  BY DEF RowInv, OneRowPerObject
<1> QED BY <1>1, <1>2, <1>3, PTL DEF Spec

\* An announced or submitted acknowledgement is remembered, or a crash or the
\* cap of _ack_seen accounts for the next one.
Owed(o) == IF o \in pool THEN 1 ELSE 0
Noted(o) == IF o \in seen THEN 1 ELSE 0

AckInv ==
  /\ acks \in [Objs -> Nat]
  /\ crashes \in Nat /\ forgets \in Nat /\ crashes + forgets <= MaxUpsets
  /\ \A o \in Objs :
       /\ acks[o] > 0 => o \in stored
       /\ acks[o] + Owed(o) <= crashes + forgets + Noted(o)

LEMMA InitAck == Init => AckInv
BY InboxBoundsAssumption DEF Init, AckInv, Owed, Noted

LEMMA AckKept ==
  ASSUME AckInv, UNCHANGED <<acks, crashes, forgets, pool, seen>>, stored \subseteq stored'
  PROVE  AckInv'
BY DEF AckInv, Owed, Noted, Objs

LEMMA NextAck == RowInv /\ AckInv /\ [Next]_vars => AckInv'
<1> SUFFICES ASSUME RowInv, AckInv, [Next]_vars PROVE AckInv'
  OBVIOUS
<1>0. \A o \in Objs : acks[o] \in Nat /\ Owed(o) \in 0..1 /\ Noted(o) \in 0..1
  BY DEF AckInv, Owed, Noted
<1>1. CASE UNCHANGED vars
  BY <1>1, AckKept DEF vars
<1>2. ASSUME NEW t \in Threads, Handler(t) PROVE AckInv'
  <2>1. CASE RelayAck(t)
    <3>1. /\ seen' = seen \union {obj[t]}
          /\ pool' = IF obj[t] \in seen THEN pool ELSE pool \union {obj[t]}
          /\ UNCHANGED <<acks, crashes, forgets, stored>>
      BY <2>1 DEF RelayAck, SeenBefore, rowVars, envVars
    <3>2. \A o \in Objs : acks[o] + Owed(o)' <= crashes + forgets + Noted(o)'
      BY <1>0, <3>1 DEF AckInv, Owed, Noted
    <3> QED BY <3>1, <3>2 DEF AckInv, Owed, Noted, Objs
  <2>2. CASE Match(t) \/ PublishKey(t) \/ Exists(t) \/ AddRefused(t) \/ Add(t)
    BY <2>2, AckKept DEF Match, PublishKey, Exists, AddRefused, Add, rowVars, ackVars, envVars
  <2> QED BY <1>2, <2>1, <2>2 DEF Handler
<1>3. ASSUME NEW t \in Threads, NEW o \in Objs, Receive(t, o) PROVE AckInv'
  BY <1>3, AckKept DEF Receive, rowVars, ackVars, envVars
<1>4. CASE Flush \/ GuiGoesOn
  BY <1>4, AckKept DEF Flush, GuiGoesOn, Load, ReadOrphans, Reparse, ReparseEnds, Clear, Fill,
                       Pop, Purge, rowVars, ackVars, envVars
<1>5. CASE Crash
  <2>1. /\ crashes' = crashes + 1 /\ crashes + forgets < MaxUpsets
        /\ pool' = {} /\ UNCHANGED <<acks, forgets, stored>>
    BY <1>5 DEF Crash, rowVars
  <2>2. \A o \in Objs : Owed(o)' = 0 /\ Noted(o)' \in 0..1
    BY <2>1 DEF Owed, Noted
  <2>3. \A o \in Objs : acks'[o] + Owed(o)' <= crashes' + forgets' + Noted(o)'
    BY <1>0, <2>1, <2>2 DEF AckInv
  <2> QED BY <2>1, <2>3, InboxBoundsAssumption DEF AckInv, Owed, Noted, Objs
<1>6. ASSUME NEW o \in Objs, Relay(o) PROVE AckInv'
  <2>1. /\ o \in pool /\ pool' = pool \ {o}
        /\ acks' \in {acks, [acks EXCEPT ![o] = acks[o] + 1]}
        /\ UNCHANGED <<crashes, forgets, seen, stored>>
    BY <1>6 DEF Relay, rowVars, envVars
  <2>2. o \in stored
    BY <2>1 DEF RowInv
  <2>3. acks' \in [Objs -> Nat]
        /\ \A m \in Objs : acks'[m] = acks[m] \/ (m = o /\ acks'[m] = acks[m] + 1)
    BY <1>0, <2>1 DEF AckInv
  <2>4. \A m \in Objs : acks'[m] + Owed(m)' <= crashes' + forgets' + Noted(m)'
    BY <1>0, <2>1, <2>3 DEF AckInv, Owed, Noted
  <2>5. \A m \in Objs : acks'[m] > 0 => m \in stored'
    BY <1>0, <2>1, <2>2, <2>3 DEF AckInv
  <2> QED BY <2>1, <2>3, <2>4, <2>5 DEF AckInv, Owed, Noted, Objs
<1>7. ASSUME NEW o \in Objs, Forget(o) PROVE AckInv'
  <2>1. /\ o \in seen /\ seen' = seen \ {o}
        /\ forgets' = forgets + 1 /\ crashes + forgets < MaxUpsets
        /\ UNCHANGED <<acks, crashes, pool, stored>>
    BY <1>7 DEF Forget, rowVars, envVars
  <2>2. \A m \in Objs : acks'[m] + Owed(m)' <= crashes' + forgets' + Noted(m)'
    BY <1>0, <2>1 DEF AckInv, Owed, Noted
  <2> QED BY <2>1, <2>2, InboxBoundsAssumption DEF AckInv, Owed, Noted, Objs
<1>8. ASSUME NEW o \in Objs, DeleteMessage(o) PROVE AckInv'
  BY <1>8, AckKept DEF DeleteMessage, ackVars
<1>9. ASSUME NEW a \in Addrs, NEW value \in {"on", "off"},
             \/ AddIdentity(a) \/ DeleteIdentity(a) \/ SetEnabled(a, value)
             \/ Subscribe(a) \/ Unsubscribe(a)
      PROVE  AckInv'
  BY <1>9, AckKept DEF AddIdentity, DeleteIdentity, SetEnabled, Subscribe, Unsubscribe,
                       Begin, rowVars, ackVars
<1> QED BY <1>1, <1>2, <1>3, <1>4, <1>5, <1>6, <1>7, <1>8, <1>9 DEF Next

\* An acknowledgement is announced for what was stored, and once, but for each
\* crash and each packet that _ack_seen forgot.
THEOREM AckedOnce == Spec => []AckOnce
<1>1. Init => TableInv /\ RowInv /\ AckInv
  BY InitTable, InitRow, InitAck
<1>2. TableInv /\ RowInv /\ AckInv /\ [Next]_vars => (TableInv /\ RowInv /\ AckInv)'
  BY NextTable, NextRow, NextAck
<1>3. AckInv => AckOnce
  BY DEF AckInv, AckOnce, Owed, Noted
<1> QED BY <1>1, <1>2, <1>3, PTL DEF Spec

\* Every variable has its type, and the table of objects holds none twice.
THEOREM TypeCorrect == Spec => []TypeOK
<1>1. Init => TableInv /\ KeysInv /\ RowInv /\ AckInv
  BY InitTable, InitKeys, InitRow, InitAck
<1>2. TableInv /\ KeysInv /\ RowInv /\ AckInv /\ [Next]_vars
        => (TableInv /\ KeysInv /\ RowInv /\ AckInv)'
  BY NextTable, NextKeys, NextRow, NextAck
<1>3. TableInv /\ KeysInv /\ RowInv /\ AckInv => TypeOK
  <2> SUFFICES ASSUME TableInv, KeysInv, RowInv, AckInv PROVE TypeOK
    OBVIOUS
  <2>1. inbox \in [Objs -> Nat]
    BY DEF RowInv
  <2>2. crashes + forgets \in 0..MaxUpsets
    BY InboxBoundsAssumption DEF AckInv
  <2>3. batch \subseteq known
    BY DEF TableInv
  <2> QED BY <2>1, <2>2, <2>3 DEF TableInv, KeysInv, RowInv, TypeOK
<1> QED BY <1>1, <1>2, <1>3, PTL DEF Spec

-----------------------------------------------------------------------------
(* The reparse                                                               *)

\* The GUI thread will look at the row of o, or insert it.
Awaited(o) ==
  o \in ToSet(todo) \/ (obj[Gui] = o /\ pc[Gui] \in {"match", "exists", "add"})

\* While the objects are read again, one for the new identity has its row or
\* is still to be handled: nothing takes rows away meanwhile, and the new keys
\* are loaded.
ReparseInv ==
  /\ orphans \subseteq Stored
  /\ gpc = "reparse" => \A o \in orphans : For[o] = target => inbox[o] = 1 \/ Awaited(o)

LEMMA InitReparse == Init => ReparseInv
BY DEF Init, ReparseInv

\* Other threads add rows at most.
LEMMA ReparseKept ==
  ASSUME ReparseInv, UNCHANGED <<todo, orphans, target, gpc>>,
         gpc = "reparse" => \A o \in orphans :
           /\ inbox[o] = 1 => inbox'[o] = 1
           /\ For[o] = target /\ Awaited(o) => inbox'[o] = 1 \/ Awaited(o)'
  PROVE  ReparseInv'
BY DEF ReparseInv, Stored, Objs

LEMMA OthersReparse ==
  ASSUME RowInv, ReparseInv, UNCHANGED <<todo, orphans, target, gpc, inbox>>,
         pc'[Gui] = pc[Gui], obj'[Gui] = obj[Gui]
  PROVE  ReparseInv'
BY DEF ReparseInv, Awaited, Stored, Objs

LEMMA HandlerReparse ==
  ASSUME KeysInv, RowInv, ReparseInv, NEW t \in Threads, Handler(t)
  PROVE  ReparseInv'
<1>0. UNCHANGED <<todo, orphans, target, gpc>>
  BY DEF Handler, Match, PublishKey, Exists, Add, AddRefused, RelayAck, guiVars
<1>1. \A o \in orphans : inbox[o] = 1 => inbox'[o] = 1
  <2>1. CASE Add(t)
    <3>1. inbox' = [inbox EXCEPT ![obj[t]] = @ + 1] /\ inbox[obj[t]] = 0
      BY <2>1 DEF Add, Insertable
    <3> QED BY <3>1 DEF RowInv, ReparseInv, Stored
  <2>2. CASE ~ Add(t)
    BY <2>2 DEF Handler, Match, PublishKey, Exists, AddRefused, RelayAck, rowVars
  <2> QED BY <2>1, <2>2
<1>2. ASSUME gpc = "reparse", NEW o \in orphans, For[o] = target, Awaited(o)
      PROVE  inbox'[o] = 1 \/ Awaited(o)'
  <2>0. o \in Stored /\ o \in Objs /\ inbox[o] \in 0..1 /\ Gui \in Threads
    BY DEF ReparseInv, RowInv, Stored, Threads
  <2>1. CASE o \in ToSet(todo)
    BY <1>0, <2>1 DEF Awaited
  <2>2. CASE obj[Gui] = o /\ pc[Gui] \in {"match", "exists", "add"}
    <3>1. CASE t # Gui
      <4>1. pc'[Gui] = pc[Gui] /\ obj'[Gui] = obj[Gui]
        BY <2>0, <3>1 DEF Handler, Match, PublishKey, Exists, Add, AddRefused, RelayAck, Goto, RowInv
      <4> QED BY <2>2, <4>1 DEF Awaited
    <3>2. ASSUME NEW l \in {"exists", "add"}, Goto(Gui, l) PROVE Awaited(o)'
      <4>1. pc'[Gui] = l /\ obj'[Gui] = o
        BY <2>0, <2>2, <3>2 DEF Goto, RowInv
      <4> QED BY <4>1 DEF Awaited
    <3>3. CASE t = Gui /\ Match(t)
      <4>1. Readable(o)
        BY <1>2, <2>0 DEF Readable, KeysInv, Stored, Objs
      <4>2. o \notin Requests
        BY <2>0 DEF Stored
      <4>3. Goto(Gui, "exists")
        BY <2>2, <3>3, <4>1, <4>2 DEF Match
      <4> QED BY <3>2, <4>3
    <3>4. CASE t = Gui /\ Exists(t)
      <4>1. CASE inbox[o] > 0
        <5>1. inbox' = inbox
          BY <3>4 DEF Exists, rowVars
        <5> QED BY <2>0, <4>1, <5>1
      <4>2. CASE ~(inbox[o] > 0)
        BY <2>2, <3>2, <3>4, <4>2 DEF Exists
      <4> QED BY <4>1, <4>2
    <3>5. CASE t = Gui /\ Add(t)
      <4>1. inbox' = [inbox EXCEPT ![o] = @ + 1] /\ inbox[o] = 0
        BY <2>2, <3>5 DEF Add, Insertable
      <4> QED BY <2>0, <4>1 DEF RowInv
    <3>6. CASE t = Gui /\ AddRefused(t)
      <4>1. inbox' = inbox /\ inbox[o] # 0
        BY <2>2, <3>6 DEF AddRefused, Insertable, rowVars
      <4> QED BY <2>0, <4>1
    <3>7. CASE t = Gui /\ (PublishKey(t) \/ RelayAck(t))
      BY <2>2, <3>7 DEF PublishKey, RelayAck
    <3> QED BY <3>1, <3>3, <3>4, <3>5, <3>6, <3>7 DEF Handler
  <2> QED BY <1>2, <2>1, <2>2 DEF Awaited
<1> QED BY <1>0, <1>1, <1>2, ReparseKept

LEMMA NextReparse == TableInv /\ KeysInv /\ RowInv /\ ReparseInv /\ [Next]_vars => ReparseInv'
<1> SUFFICES ASSUME TableInv, KeysInv, RowInv, ReparseInv, [Next]_vars PROVE ReparseInv'
  OBVIOUS
<1>n. ASSUME gpc' # "reparse", orphans' \subseteq orphans PROVE ReparseInv'
  BY <1>n DEF ReparseInv, Stored, Objs
<1>1. CASE UNCHANGED vars
  BY <1>1, OthersReparse DEF vars
<1>2. ASSUME NEW t \in Threads, Handler(t) PROVE ReparseInv'
  BY <1>2, HandlerReparse
<1>3. ASSUME NEW t \in Threads, NEW o \in Objs, Receive(t, o) PROVE ReparseInv'
  <2>1. /\ t # Gui /\ pc' = [pc EXCEPT ![t] = "match"] /\ obj' = [obj EXCEPT ![t] = o]
        /\ UNCHANGED <<todo, orphans, target, gpc, inbox>>
    BY <1>3, ThreadsAssumption DEF Receive, rowVars, guiVars
  <2>2. pc'[Gui] = pc[Gui] /\ obj'[Gui] = obj[Gui]
    BY <2>1 DEF RowInv
  <2> QED BY <2>1, <2>2, OthersReparse
<1>4. CASE Flush
  BY <1>4, OthersReparse DEF Flush, rowVars, guiVars
<1>5. CASE GuiGoesOn
  <2>1. CASE Load \/ ReparseEnds \/ Clear \/ Fill \/ Pop \/ Purge
    BY <1>n, <2>1 DEF Load, ReparseEnds, Clear, Fill, Pop, Purge
  <2>2. CASE ReadOrphans
    <3>1. todo' = Newest /\ orphans' = ToSet(Newest)
      BY <2>2 DEF ReadOrphans
    <3>2. ToSet(Newest) \subseteq Stored
      <4>1. Newest \in Seq(Stored)
        BY NewestRead DEF TableInv
      <4> QED BY <4>1, LenProperties DEF ToSet
    <3>3. \A o \in orphans' : Awaited(o)'
      BY <3>1 DEF Awaited
    <3> QED BY <3>1, <3>2, <3>3 DEF ReparseInv, Stored, Objs
  <2>3. CASE Reparse
    <3>1. /\ todo # <<>> /\ todo' = Tail(todo) /\ pc[Gui] = "idle"
          /\ pc' = [pc EXCEPT ![Gui] = "match"] /\ obj' = [obj EXCEPT ![Gui] = Head(todo)]
          /\ UNCHANGED <<inbox, gpc, target, orphans>>
      BY <2>3 DEF Reparse, rowVars
    <3>2. ToSet(todo) = {Head(todo)} \union ToSet(Tail(todo))
      BY <3>1, ToSetOfTail DEF RowInv
    <3>3. pc'[Gui] = "match" /\ obj'[Gui] = Head(todo)
      BY <3>1 DEF RowInv, Threads
    <3>4. \A o \in orphans : Awaited(o) => Awaited(o)'
      BY <3>1, <3>2, <3>3 DEF Awaited
    <3> QED BY <3>1, <3>4 DEF ReparseInv, Stored, Objs
  <2> QED BY <1>5, <2>1, <2>2, <2>3 DEF GuiGoesOn
<1>6. CASE Crash
  BY <1>n, <1>6 DEF Crash
<1>7. ASSUME NEW o \in Objs, Relay(o) \/ Forget(o) PROVE ReparseInv'
  BY <1>7, OthersReparse DEF Relay, Forget, rowVars, guiVars
<1>8. ASSUME NEW o \in Objs, DeleteMessage(o) PROVE ReparseInv'
  BY <1>8, <1>n DEF DeleteMessage, guiVars
<1>9. ASSUME NEW a \in Addrs, NEW value \in {"on", "off"},
             \/ AddIdentity(a) \/ DeleteIdentity(a) \/ SetEnabled(a, value)
             \/ Subscribe(a) \/ Unsubscribe(a)
      PROVE  ReparseInv'
  BY <1>9, <1>n DEF AddIdentity, DeleteIdentity, SetEnabled, Subscribe, Unsubscribe, Begin
<1> QED BY <1>1, <1>2, <1>3, <1>4, <1>5, <1>6, <1>7, <1>8, <1>9 DEF Next

\* A message that came before its identity is not lost: when the reparse ends,
\* what it read for the new identity has its row.
THEOREM OrphansRecovered == Spec => ReparseRecovers
<1> DEFINE IInv == TableInv /\ KeysInv /\ RowInv /\ ReparseInv
<1>1. Init => IInv
  BY InitTable, InitKeys, InitRow, InitReparse
<1>2. IInv /\ [Next]_vars => IInv'
  BY NextTable, NextKeys, NextRow, NextReparse
<1>3. IInv /\ ReparseEnds => \A o \in orphans : For[o] = target => inbox[o] = 1
  BY EmptyToSet DEF ReparseEnds, ReparseInv, Awaited
<1>4. IInv /\ [Next]_vars
        => [ReparseEnds => \A o \in orphans : For[o] = target => inbox[o] = 1]_vars
  BY <1>3
<1> QED BY <1>1, <1>2, <1>4, PTL DEF Spec, ReparseRecovers
=============================================================================
