------------------------------- MODULE Inbox -------------------------------
(***************************************************************************)
(* Objects from the network on their way to rows (core/client.py): the     *)
(* handlers of messages, channel posts and key requests run on the         *)
(* connection threads, while the GUI thread creates, imports, disables and *)
(* deletes identities, subscribes, deletes messages, and handles stored    *)
(* objects again after an identity was added (_reparse_orphans).           *)
(*                                                                         *)
(* That a connection hands an object on once is Inventory's; what an       *)
(* acknowledgement or a public key does to our messages is Delivery's.     *)
(***************************************************************************)
EXTENDS Integers, FiniteSets, SequencesExt

CONSTANTS
  Addrs,         \* addresses of identities and channels
  Msgs,          \* message objects
  Posts,         \* broadcasts of channels
  Requests,      \* getpubkey objects
  For,           \* For[o]: the address o is for
  Acked,         \* the messages that carry an acknowledgement to relay
  Conns,         \* connection threads
  Gui,           \* the GUI thread
  NoObj, NoAddr,
  First,         \* the identities a database starts with
  ReparseLimit,  \* 100 in the code
  MaxOps,        \* bound: operations on identities and subscriptions
  MaxDeletes,    \* bound: messages the user deletes
  MaxUpsets      \* bound: crashes, and acknowledgements pushed out of _ack_seen

Objs == Msgs \union Posts \union Requests
Threads == Conns \union {Gui}

ASSUME ObjsAssumption ==
  /\ Msgs \intersect Posts = {} /\ (Msgs \union Posts) \intersect Requests = {}
  /\ For \in [Objs -> Addrs] /\ Acked \subseteq Msgs /\ NoObj \notin Objs
ASSUME AddrsAssumption ==
  First \subseteq Addrs /\ First # {} /\ NoAddr \notin Addrs /\ IsFiniteSet(Addrs)
ASSUME ThreadsAssumption == Gui \notin Conns
ASSUME InboxBoundsAssumption ==
  /\ ReparseLimit \in Nat /\ MaxUpsets \in Nat
  /\ MaxOps \in Nat /\ MaxDeletes \in Nat

VARIABLES
  identities,  \* table identities: "absent", "on" or "off" for each address
  loaded,      \* Client.identities
  subs,        \* table subscriptions
  known,       \* objects the network layer will not hand on again
  batch,       \* _db_batch: messages and posts to be written
  objects,     \* messages and posts in the table objects, oldest first
  inbox,       \* inbox[o]: rows of messages with o's hash
  stored,      \* objects that ever had a row
  deleted,     \* objects whose row the user deleted
  pc,          \* pc[t]: where the handler of thread t is
  obj,         \* obj[t]: the object it handles
  seen,        \* _ack_seen
  pool,        \* acknowledgements submitted to _ack_pool
  acks,        \* acks[o]: times o's acknowledgement was announced
  forgets,     \* times _ack_seen forgot one of these packets
  recent,      \* _getpubkey_last: addresses whose key was published on request
  gpc,         \* where the GUI thread's operation is
  target,      \* the address it is about
  fill,        \* identities _load_identities has read and not put back yet
  todo,        \* rows _reparse_orphans has read and not handled yet
  orphans,     \* what it read, for the property below
  crashes, ops, deletes

vars == <<identities, loaded, subs, known, batch, objects, inbox, stored, deleted,
          pc, obj, seen, pool, acks, forgets, recent, gpc, target, fill, todo,
          orphans, crashes, ops, deletes>>
dbVars == <<identities, subs, objects>>
netVars == <<known, batch>>
rowVars == <<inbox, stored, deleted>>
ackVars == <<seen, pool, acks, forgets>>
guiVars == <<gpc, target, fill, todo, orphans>>
envVars == <<crashes, ops, deletes>>

On == {a \in Addrs : identities[a] = "on"}

Init ==
  /\ identities = [a \in Addrs |-> IF a \in First THEN "on" ELSE "absent"]
  /\ loaded = First
  /\ subs = {}
  /\ known = {} /\ batch = {} /\ objects = <<>>
  /\ inbox = [o \in Objs |-> 0] /\ stored = {} /\ deleted = {}
  /\ pc = [t \in Threads |-> "idle"] /\ obj = [t \in Threads |-> NoObj]
  /\ seen = {} /\ pool = {} /\ acks = [o \in Objs |-> 0] /\ forgets = 0
  /\ recent = {}
  /\ gpc = "idle" /\ target = NoAddr /\ fill = {} /\ todo = <<>> /\ orphans = {}
  /\ crashes = 0 /\ ops = 0 /\ deletes = 0

-----------------------------------------------------------------------------
(* The network layer                                                         *)

\* received_object: queued for the table, then handed to _on_object.
Receive(t, o) ==
  /\ t \in Conns /\ pc[t] = "idle" /\ o \notin known
  /\ known' = known \union {o}
  /\ batch' = batch \union ({o} \ Requests)
  /\ pc' = [pc EXCEPT ![t] = "match"]
  /\ obj' = [obj EXCEPT ![t] = o]
  /\ UNCHANGED <<dbVars, loaded, rowVars, ackVars, recent, guiVars, envVars>>

Flush ==
  /\ batch # {}
  /\ objects' = objects \o SetToSeq(batch)
  /\ batch' = {}
  /\ UNCHANGED <<identities, subs, loaded, known, rowVars, pc, obj, ackVars, recent,
                 guiVars, envVars>>

-----------------------------------------------------------------------------
(* The handlers, on any thread t                                             *)

Goto(t, l) ==
  /\ pc' = [pc EXCEPT ![t] = l]
  /\ obj' = [obj EXCEPT ![t] = IF l = "idle" THEN NoObj ELSE @]

\* The keys a handler tries: a snapshot of the loaded identities for a message
\* or a request; for a post the subscriptions and the enabled channels, read
\* from the database.
Readable(o) ==
  IF o \in Posts THEN For[o] \in subs \union On ELSE For[o] \in loaded

\* A request within 300 s of the last publication is dropped; the clock is open.
Match(t) ==
  /\ pc[t] = "match"
  /\ LET o == obj[t] IN
     \/ ~ Readable(o) /\ Goto(t, "idle")
     \/ o \in Requests /\ For[o] \in recent /\ Goto(t, "idle")
     \/ o \in Requests /\ Readable(o) /\ Goto(t, "publish")
     \/ o \notin Requests /\ Readable(o) /\ Goto(t, "exists")
  /\ UNCHANGED <<dbVars, netVars, loaded, rowVars, ackVars, recent, guiVars, envVars>>

\* The time of the publication is noted after it was looked at, without a lock.
PublishKey(t) ==
  /\ pc[t] = "publish"
  /\ recent' = recent \union {For[obj[t]]}
  /\ Goto(t, "idle")
  /\ UNCHANGED <<dbVars, netVars, loaded, rowVars, ackVars, guiVars, envVars>>

\* message_exists
Exists(t) ==
  /\ pc[t] = "exists"
  /\ Goto(t, IF inbox[obj[t]] > 0 THEN "idle" ELSE "add")
  /\ UNCHANGED <<dbVars, netVars, loaded, rowVars, ackVars, recent, guiVars, envVars>>

\* Mutant of Insertable: obj_hash is not unique.
InsertableTwice(o) == o \in Objs

\* obj_hash is unique.
Insertable(o) == inbox[o] = 0

Add(t) ==
  /\ pc[t] = "add"
  /\ Insertable(obj[t])
  /\ inbox' = [inbox EXCEPT ![obj[t]] = @ + 1]
  /\ stored' = stored \union {obj[t]}
  /\ Goto(t, IF obj[t] \in Acked THEN "ack" ELSE "idle")
  /\ UNCHANGED <<dbVars, netVars, loaded, deleted, ackVars, recent, guiVars, envVars>>

\* IntegrityError, caught by _on_object: no event, no acknowledgement.
AddRefused(t) ==
  /\ pc[t] = "add"
  /\ ~ Insertable(obj[t])
  /\ Goto(t, "idle")
  /\ UNCHANGED <<dbVars, netVars, loaded, rowVars, ackVars, recent, guiVars, envVars>>

\* Mutant of SeenBefore: every acknowledgement is new.
SeenNever(o) == o \notin Objs

SeenBefore(o) == o \in seen

\* _ack_packet_seen looks it up and notes it under one lock.
RelayAck(t) ==
  /\ pc[t] = "ack"
  /\ seen' = seen \union {obj[t]}
  /\ pool' = IF SeenBefore(obj[t]) THEN pool ELSE pool \union {obj[t]}
  /\ Goto(t, "idle")
  /\ UNCHANGED <<dbVars, netVars, loaded, rowVars, acks, forgets, recent, guiVars, envVars>>

\* 512 later packets pushed it out of _ack_seen.
Forget(o) ==
  /\ o \in seen
  /\ crashes + forgets < MaxUpsets
  /\ forgets' = forgets + 1
  /\ seen' = seen \ {o}
  /\ UNCHANGED <<dbVars, netVars, loaded, rowVars, pc, obj, pool, acks, recent, guiVars,
                 envVars>>

\* _relay_ack_sync on a thread of the pool; a packet that is no object with a
\* sufficient proof of work is dropped.
Relay(o) ==
  /\ o \in pool
  /\ pool' = pool \ {o}
  /\ acks' \in {acks, [acks EXCEPT ![o] = @ + 1]}
  /\ UNCHANGED <<dbVars, netVars, loaded, rowVars, pc, obj, seen, forgets, recent,
                 guiVars, envVars>>

Handler(t) ==
  Match(t) \/ PublishKey(t) \/ Exists(t) \/ Add(t) \/ AddRefused(t) \/ RelayAck(t)

-----------------------------------------------------------------------------
(* The GUI thread                                                            *)

Begin(l, a) ==
  /\ gpc = "idle" /\ pc[Gui] = "idle"
  /\ ops < MaxOps
  /\ ops' = ops + 1
  /\ gpc' = l
  /\ target' = a
  /\ UNCHANGED <<fill, todo, orphans, crashes, deletes>>

\* create_identity, create_channel, import_identity, import_keys_dat. The imports
\* refuse a loaded address, create_channel does not; a row that is there is
\* enabled again.
AddIdentity(a) ==
  /\ Begin("load", a)
  /\ identities' = [identities EXCEPT ![a] = "on"]
  /\ UNCHANGED <<subs, objects, netVars, loaded, rowVars, pc, obj, ackVars, recent>>

\* Mutant of LoadedWith: the keys are put in place after the reparse only.
LoadedLater(a) == IF gpc = "load" THEN loaded ELSE loaded \union {a}

LoadedWith(a) == loaded \union {a}

Load ==
  /\ gpc = "load"
  /\ loaded' = LoadedWith(target)
  /\ gpc' = "read"
  /\ UNCHANGED <<dbVars, netVars, rowVars, pc, obj, ackVars, recent, target, fill, todo,
                 orphans, envVars>>

\* The newest messages and posts of the table.
Newest ==
  LET n == IF Len(objects) < ReparseLimit THEN Len(objects) ELSE ReparseLimit
  IN Reverse(SubSeq(objects, Len(objects) - n + 1, Len(objects)))

ReadOrphans ==
  /\ gpc = "read"
  /\ todo' = Newest
  /\ orphans' = ToSet(Newest)
  /\ gpc' = "reparse"
  /\ UNCHANGED <<dbVars, netVars, loaded, rowVars, pc, obj, ackVars, recent, target,
                 fill, envVars>>

Reparse ==
  /\ gpc = "reparse" /\ pc[Gui] = "idle" /\ todo # <<>>
  /\ pc' = [pc EXCEPT ![Gui] = "match"]
  /\ obj' = [obj EXCEPT ![Gui] = Head(todo)]
  /\ todo' = Tail(todo)
  /\ UNCHANGED <<dbVars, netVars, loaded, rowVars, ackVars, recent, gpc, target, fill,
                 orphans, envVars>>

ReparseEnds ==
  /\ gpc = "reparse" /\ pc[Gui] = "idle" /\ todo = <<>>
  /\ gpc' = "idle" /\ target' = NoAddr /\ orphans' = {}
  /\ UNCHANGED <<dbVars, netVars, loaded, rowVars, pc, obj, ackVars, recent, fill, todo,
                 envVars>>

\* Mutant of Spare: any identity may go.
SpareAny(a) == a \in Addrs

\* Not the last active one.
Spare(a) == ~ (Cardinality(On) <= 1 /\ a \in On)

SetEnabled(a, value) ==
  /\ identities[a] # "absent"
  /\ value = "on" \/ Spare(a)
  /\ Begin("clear", a)
  /\ identities' = [identities EXCEPT ![a] = value]
  /\ UNCHANGED <<subs, objects, netVars, loaded, rowVars, pc, obj, ackVars, recent>>

\* _load_identities: an empty table is put in place and filled row by row.
Clear ==
  /\ gpc = "clear"
  /\ loaded' = {}
  /\ fill' = On
  /\ gpc' = "fill"
  /\ UNCHANGED <<dbVars, netVars, rowVars, pc, obj, ackVars, recent, target, todo,
                 orphans, envVars>>

Fill ==
  /\ gpc = "fill"
  /\ IF fill = {}
     THEN gpc' = "idle" /\ target' = NoAddr /\ UNCHANGED <<loaded, fill>>
     ELSE \E a \in fill :
            loaded' = loaded \union {a} /\ fill' = fill \ {a} /\ UNCHANGED <<gpc, target>>
  /\ UNCHANGED <<dbVars, netVars, rowVars, pc, obj, ackVars, recent, todo, orphans,
                 envVars>>

DeleteIdentity(a) ==
  /\ identities[a] # "absent"
  /\ Spare(a)
  /\ Begin("pop", a)
  /\ identities' = [identities EXCEPT ![a] = "absent"]
  /\ UNCHANGED <<subs, objects, netVars, loaded, rowVars, pc, obj, ackVars, recent>>

Pop ==
  /\ gpc = "pop"
  /\ loaded' = loaded \ {target}
  /\ gpc' = "idle" /\ target' = NoAddr
  /\ UNCHANGED <<dbVars, netVars, rowVars, pc, obj, ackVars, recent, fill, todo, orphans,
                 envVars>>

Subscribe(a) ==
  /\ a \notin subs
  /\ Begin("idle", NoAddr)
  /\ subs' = subs \union {a}
  /\ UNCHANGED <<identities, objects, netVars, loaded, rowVars, pc, obj, ackVars, recent>>

Unsubscribe(a) ==
  /\ a \in subs
  /\ Begin("purge", a)
  /\ subs' = subs \ {a}
  /\ UNCHANGED <<identities, objects, netVars, loaded, rowVars, pc, obj, ackVars, recent>>

Purged(o) == o \in Msgs \union Posts /\ For[o] = target

\* delete_conversation, the second statement of unsubscribe
Purge ==
  /\ gpc = "purge"
  /\ inbox' = [o \in Objs |-> IF Purged(o) THEN 0 ELSE inbox[o]]
  /\ deleted' = deleted \union {o \in Objs : Purged(o) /\ inbox[o] > 0}
  /\ gpc' = "idle" /\ target' = NoAddr
  /\ UNCHANGED <<dbVars, netVars, loaded, stored, pc, obj, ackVars, recent, fill, todo,
                 orphans, envVars>>

DeleteMessage(o) ==
  /\ gpc = "idle" /\ pc[Gui] = "idle" /\ inbox[o] > 0
  /\ deletes < MaxDeletes
  /\ deletes' = deletes + 1
  /\ inbox' = [inbox EXCEPT ![o] = 0]
  /\ deleted' = deleted \union {o}
  /\ UNCHANGED <<dbVars, netVars, loaded, stored, pc, obj, ackVars, recent, guiVars,
                 crashes, ops>>

GuiGoesOn ==
  \/ Load \/ ReadOrphans \/ Reparse \/ ReparseEnds \/ Clear \/ Fill \/ Pop \/ Purge

-----------------------------------------------------------------------------

\* Mutant of Remembered: the hashes in the table are not read back.
RememberedNone == batch \ known

\* What is in the table objects is not fetched again.
Remembered == ToSet(objects)

\* Tables of the database survive; Client.start loads the identities before
\* the network starts.
Crash ==
  /\ crashes + forgets < MaxUpsets
  /\ crashes' = crashes + 1
  /\ loaded' = On
  /\ known' = Remembered /\ batch' = {}
  /\ pc' = [t \in Threads |-> "idle"] /\ obj' = [t \in Threads |-> NoObj]
  /\ seen' = {} /\ pool' = {} /\ recent' = {}
  /\ gpc' = "idle" /\ target' = NoAddr /\ fill' = {} /\ todo' = <<>> /\ orphans' = {}
  /\ UNCHANGED <<dbVars, rowVars, acks, forgets, ops, deletes>>

Next ==
  \/ \E t \in Threads : Handler(t) \/ \E o \in Objs : Receive(t, o)
  \/ Flush \/ GuiGoesOn \/ Crash
  \/ \E o \in Objs : Relay(o) \/ Forget(o) \/ DeleteMessage(o)
  \/ \E a \in Addrs :
       \/ AddIdentity(a) \/ DeleteIdentity(a)
       \/ \E value \in {"on", "off"} : SetEnabled(a, value)
       \/ Subscribe(a) \/ Unsubscribe(a)

Spec == Init /\ [][Next]_vars

-----------------------------------------------------------------------------
(* Properties                                                                *)

TypeOK ==
  /\ identities \in [Addrs -> {"absent", "on", "off"}]
  /\ loaded \subseteq Addrs /\ subs \subseteq Addrs /\ recent \subseteq Addrs
  /\ known \subseteq Objs /\ batch \subseteq known /\ ToSet(objects) \subseteq known
  /\ Len(objects) = Cardinality(ToSet(objects))
  /\ inbox \in [Objs -> Nat]
  /\ deleted \subseteq stored
  /\ pc \in [Threads -> {"idle", "match", "publish", "exists", "add", "ack"}]
  /\ obj \in [Threads -> Objs \union {NoObj}]
  /\ \A t \in Threads : pc[t] = "idle" <=> obj[t] = NoObj
  /\ seen \subseteq stored /\ pool \subseteq stored
  /\ gpc \in {"idle", "load", "read", "reparse", "clear", "fill", "pop", "purge"}
  /\ target \in Addrs \union {NoAddr}
  /\ fill \subseteq Addrs
  /\ crashes + forgets \in 0..MaxUpsets /\ ops \in 0..MaxOps /\ deletes \in 0..MaxDeletes

\* A message has one row although the connection thread that received it and
\* the GUI thread that reads it again both look first and insert later.
OneRowPerObject == \A o \in Objs : inbox[o] <= 1

\* An acknowledgement is announced for what has been stored, and once, unless
\* a crash or the cap of _ack_seen made the client forget it: also when the
\* user deletes the message and the reparse stores it again.
AckOnce ==
  \A o \in Objs :
    /\ acks[o] > 0 => o \in stored
    /\ acks[o] <= 1 + crashes + forgets

\* Some identity stays active, and between two operations the keys that open
\* messages are those of the enabled identities: none that was deleted or
\* disabled, none missing.
IdentitiesKept ==
  /\ On # {}
  /\ gpc = "idle" => loaded = On

\* What is in the table when an identity is added and is within the limit has
\* its row when the operation ends, unless the user deleted it before: nobody
\* else can delete it, so that the arrival of a message before its identity
\* loses nothing.
ReparseRecovers ==
  [][ReparseEnds => \A o \in orphans : For[o] = target => inbox[o] = 1]_vars

-----------------------------------------------------------------------------
(* What does not hold (see README, divergences)                              *)

\* A message for an enabled identity that no operation is about is read.
NoneMissed ==
  [][\A t \in Conns, o \in Msgs :
       (obj[t] = o /\ pc[t] = "match" /\ pc'[t] = "idle" /\ crashes' = crashes)
         => identities[For[o]] # "on" \/ target = For[o]]_vars

\* A message the user deleted does not come back.
DeletedStaysDeleted == \A o \in deleted : inbox[o] = 0
=============================================================================
