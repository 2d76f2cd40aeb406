------------------------------ MODULE MCParts -------------------------------
(* Eight components that share no state, explored side by side for TLC: a    *)
(* behaviour stays in the component `part` names, the others keep their      *)
(* initial values.  The reachable states are the union of those of the       *)
(* components, so that a property of one of them is checked as if it ran     *)
(* alone.  What theorems leave open is a constant; the samples and bases of  *)
(* the encodings are fixed here.  NetworkParts holds two of the components.  *)
EXTENDS Integers, Sequences, SequencesExt, NetworkParts

CONSTANTS
  Holders, StreamOf, Easiest, Hardest, LongestTTL,                     \* Objects
  WrittenVersions, Streams, Efforts, TTLs,
  Mine, Others, Chans, ChatLimit, MaxRows,                             \* Conversations
  QueueCap, MaxWrites,                      \* UiQueue
  Texts, MaxCommit, MaxLost, AnswersCap,    \* Updater
  Pages, MaxVersion, MaxCrashes             \* Backup

VARIABLES
  part,
  sample,                                                            \* Formats, Objects
  data, shown, queue, pc, event, pending, redraw, polling, dialog, closed, lost,
  writes,                                                            \* UiQueue
  remote, fetched, head, ahead, dirty, running, flags, upc, result, answers,
  offered, timer, uphase, input, saved, carried, stale, ulost,       \* Updater
  version, main, wal, flushed, client, bpc, image, backup, temp, bak, before,
  restored, crashes,                                                 \* Backup
  messages, nextId, contacts, subs, loaded, current, conversation    \* Conversations

queueVars == <<data, shown, queue, pc, event, pending, redraw, polling, dialog, closed, lost,
               writes>>
updateVars == <<remote, fetched, head, ahead, dirty, running, flags, upc, result, answers,
                offered, timer, uphase, input, saved, carried, stale, ulost>>
backupVars == <<version, main, wal, flushed, client, bpc, image, backup, temp, bak, before,
                restored, crashes>>
chatVars == <<messages, nextId, contacts, subs, loaded, current, conversation>>
vars == <<part, streamVars, sample, queueVars, updateVars, backupVars, chatVars, serveVars>>

-----------------------------------------------------------------------------
(* Instances                                                                 *)

Base == 8
BlobsTo(n) == UNION {[1..k -> 0..(Base - 1)] : k \in 1..n}
Nulls(n) == [i \in 1..n |-> 0]
Sum(blob) == <<(3 * FoldLeft(LAMBDA v, d : (v * Base + d) % 1009, 7, blob)) % Base>>
Inputs ==
  [kind : {"number"}, n : (0..600) \union {4095, 4096, 4097, 16777215}]
  \union [kind : {"blob"},
          blob : BlobsTo(3) \union {<<6, 0, 0, 7, 7>>, <<6, 0, 1, 0, 0>>, <<7>> \o Nulls(7),
                                    <<7, 0, 0, 0, 1, 0, 0, 0, 0>>, <<7, 0, 0, 0, 0, 7, 7, 7, 7>>}]
  \union [kind : {"address"}, version : 2..4, stream : {1, 4, 5, 7}, ripe : [1..3 -> 0..(Base - 1)]]
  \union [kind : {"text"}, text : UNION {[1..k -> 0..6] : k \in 1..3}
                                  \union UNION {[1..k -> 0..5] : k \in 4..5}]
  \union [kind : {"key"}, key : [1..2 -> 0..(Base - 1)]]
  \union [kind : {"peers"}, peers : BoundedSeq([host : {<<1>>, <<2>>, <<1, 2>>}, port : {1}], 4)]

\* Small bases and lengths instead of 256, 58, 20, 4, 32 and 16.
Coding == INSTANCE Formats WITH
  Byte <- Base, Chars <- 6, RipeLen <- 3, Checksum <- Sum, SumLen <- 1, KeyLen <- 2,
  Order <- 40, WifByte <- 4, MaxText <- 20, MaxDigits <- 12, HashLen <- 2, MaxCount <- 3,
  HostLen <- 1, Samples <- Inputs

Contents == INSTANCE Objects WITH People <- Holders, Versions <- WrittenVersions

Events == INSTANCE UiQueue WITH
  Idle <- None, Cap <- QueueCap

Updates == INSTANCE Updater WITH
  NoText <- None, Cap <- AnswersCap, pc <- upc, queue <- answers, phase <- uphase, lost <- ulost

Backups == INSTANCE Backup WITH pc <- bpc

Chats == INSTANCE Conversations WITH
  Own <- Mine, People <- Others, Channels <- Chans, Limit <- ChatLimit, open <- conversation

ASSUME PartsAssumption ==
  /\ Coding!FormatsAssumption /\ Contents!ObjectsAssumption /\ Events!UiQueueAssumption
  /\ Updates!UpdaterAssumption /\ Backups!BackupAssumption /\ Chats!ConversationsAssumption

\* For TLC: an empty packet and one whose payload holds bytes like those of a
\* header; everybody in one stream.
TwoPackets == {[command |-> "verack", payload |-> <<>>],
               [command |-> "object", payload |-> <<Magic, Data>>]}
OneStream == [p \in Holders |-> 1]

-----------------------------------------------------------------------------
Init ==
  /\ part \in {"stream", "formats", "objects", "events", "updates", "backups", "chats", "serving"}
  /\ Framing!Init /\ Coding!Init /\ Events!Init /\ Updates!Init /\ Backups!Init
  /\ Chats!Init /\ (part # "chats" => current = CHOOSE i \in Mine : TRUE)
  /\ Sharing!Init /\ (part # "serving" => db = {})

Next ==
  /\ UNCHANGED part
  /\ \/ /\ part = "stream" /\ Framing!Next
        /\ UNCHANGED <<sample, queueVars, updateVars, backupVars, chatVars, serveVars>>
     \/ /\ part = "formats" /\ Coding!Next
        /\ UNCHANGED <<streamVars, queueVars, updateVars, backupVars, chatVars, serveVars>>
     \/ /\ part = "objects" /\ Contents!Next
        /\ UNCHANGED <<streamVars, queueVars, updateVars, backupVars, chatVars, serveVars>>
     \/ /\ part = "events" /\ Events!Next
        /\ UNCHANGED <<streamVars, sample, updateVars, backupVars, chatVars, serveVars>>
     \/ /\ part = "updates" /\ Updates!Next
        /\ UNCHANGED <<streamVars, sample, queueVars, backupVars, chatVars, serveVars>>
     \/ /\ part = "backups" /\ Backups!Next
        /\ UNCHANGED <<streamVars, sample, queueVars, updateVars, chatVars, serveVars>>
     \/ /\ part = "chats" /\ Chats!Next
        /\ UNCHANGED <<streamVars, sample, queueVars, updateVars, backupVars, serveVars>>
     \/ /\ part = "serving" /\ Sharing!Next
        /\ UNCHANGED <<streamVars, sample, queueVars, updateVars, backupVars, chatVars>>

Spec == Init /\ [][Next]_vars

-----------------------------------------------------------------------------
(* The properties of the components, under their own names (see there)       *)

\* Framing of net/peer.py: what is handled was sent, in order, and nothing of
\* it is skipped without the connection being closed.
FramesKept == part = "stream" => Framing!TypeOK /\ Framing!FramesKept

\* The encodings of util and protocol/packets.py and their decoders.
FormatsExact == part = "formats" => Coding!FormatsExact

\* protocol/objects.py: what a decoded object says about its author.
ObjectsAuthentic == part = "objects" => Contents!ObjectsAuthentic

\* The UI queue and the window's refreshes: no view stays out of date.
ViewFresh == part = "events" => Events!TypeOK /\ Events!ViewFresh

\* update.py: flags end with their work, the draft crosses the restart once.
UpdateSafe == part = "updates" => Updates!TypeOK /\ Updates!UpdateSafe

\* Encrypted backups: nothing in use is lost, a restoration is exact.
BackupSafe == part = "backups" => Backups!TypeOK /\ Backups!BackupSafe

\* Conversations: chat, counter and preview agree, identities stay apart.
ConversationsSound == part = "chats" => Chats!TypeOK /\ Chats!ConversationsSound

\* net/manager.py towards its peers: objects are announced to everyone and
\* can then be fetched.
Spreads == part = "serving" => Sharing!TypeOK /\ Sharing!Spreads
=============================================================================
