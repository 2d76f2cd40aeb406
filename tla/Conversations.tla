---------------------------- MODULE Conversations ---------------------------
(***************************************************************************)
(* The conversations the window shows (gui/app.py) and the queries behind  *)
(* them (core/database.py): which messages belong to a conversation, for   *)
(* the chat, the counter and the preview, each selected by code of its own;*)
(* reading, deleting and removing a conversation while messages of several *)
(* identities of the user arrive.  Rows are ordered by their id.           *)
(***************************************************************************)
EXTENDS Integers, FiniteSets, FiniteSetsExt

CONSTANTS
  Own,       \* the user's identities
  People,    \* addresses of others
  Channels,  \* channel addresses: a post goes from the channel to itself
  None,
  Limit,     \* App._chat_limit: 200 and more in the code
  MaxRows    \* bound: messages

ConversationsAssumption ==
  /\ None \notin Own \union People \union Channels
  /\ Own \intersect People = {} /\ Channels \intersect (Own \union People) = {}
  /\ Limit \in Nat \ {0} /\ MaxRows \in Nat

Addresses == Own \union People \union Channels
Row(n, f, t, s) == [id |-> n, from |-> f, to |-> t, status |-> s]
Statuses == {"received", "read", "out"}
RowsOf(n) == [id : 1..n, from : Addresses, to : Addresses, status : Statuses]

VARIABLES
  messages,  \* the messages table
  nextId,    \* AUTOINCREMENT
  contacts, subs,
  loaded,    \* Client.identities
  current,   \* the identity the menu shows, or None
  open       \* App.current_kind, current_address: <<kind, address>>, or None

vars == <<messages, nextId, contacts, subs, loaded, current, open>>

Init ==
  /\ messages = {} /\ nextId = 1
  /\ contacts = {} /\ subs = {}
  /\ loaded = Own
  /\ current \in Own
  /\ open = None

-----------------------------------------------------------------------------
(* The list of conversations                                                 *)

\* Contacts, then subscriptions and own channels whose address is not listed.
Kind(a) == IF a \in contacts THEN "contact" ELSE "channel"
Listed == {<<Kind(a), a>> : a \in contacts \union subs}

\* The identity of direct conversations: the menu's, or the first loaded one.
\* _conversation_identity
Ident ==
  IF current \in loaded THEN current
  ELSE IF loaded = {} THEN None ELSE CHOOSE i \in loaded : TRUE

-----------------------------------------------------------------------------
(* Three selections of the same rows                                         *)

Between(a, i) == {m \in messages : <<m.from, m.to>> \in {<<a, i>>, <<i, a>>}}
Involving(a) == {m \in messages : a \in {m.from, m.to}}

\* ORDER BY timestamp DESC, id DESC LIMIT n
Newest(rows, n) == {m \in rows : Cardinality({o \in rows : o.id > m.id}) < n}

\* _chat_rows_for: the pair's rows, everything with the address if there are
\* none; a conversation with an own identity shows its notes to itself.
ChatRows(kind, a) ==
  IF kind = "contact" /\ a \in loaded THEN Newest(Between(a, a), Limit)
  ELSE IF kind = "contact" /\ Ident # None /\ Between(a, Ident) # {}
       THEN Newest(Between(a, Ident), Limit)
       ELSE Newest(Involving(a), Limit)

\* Mutant of Count: the fallback of the chat is missing.
CountPairOnly(kind, a) ==
  IF kind = "contact" /\ a \in loaded THEN Cardinality(Between(a, a))
  ELSE IF kind = "channel" \/ Ident = None THEN Cardinality(Involving(a))
       ELSE Cardinality(Between(a, Ident))

\* _count_for
Count(kind, a) ==
  IF kind = "contact" /\ a \in loaded THEN Cardinality(Between(a, a))
  ELSE LET pair == Cardinality(Between(a, Ident)) IN
       IF kind = "channel" \/ Ident = None \/ pair = 0
       THEN Cardinality(Involving(a)) ELSE pair

NewestOf(rows) == IF rows = {} THEN None ELSE CHOOSE m \in rows : m.id = Max({o.id : o \in rows})

\* _last_message_row: for an own identity without notes to itself it goes on
\* to the pair with the identity of the menu.
LastRow(kind, a) ==
  IF kind = "contact" /\ a \in loaded /\ Between(a, a) # {} THEN NewestOf(Between(a, a))
  ELSE IF kind = "contact" /\ Ident # None /\ Between(a, Ident) # {}
       THEN NewestOf(Between(a, Ident))
       ELSE NewestOf(Involving(a))

-----------------------------------------------------------------------------
(* What happens to the table and to the lists                                *)

Stored(f, t, s) ==
  /\ nextId <= MaxRows
  /\ messages' = messages \union {Row(nextId, f, t, s)}
  /\ nextId' = nextId + 1
  /\ UNCHANGED <<contacts, subs, loaded, current, open>>

\* A message to one of the identities, or a post.
Receive ==
  \/ \E f \in People \union Own, t \in loaded : Stored(f, t, "received")
  \/ \E c \in subs : Stored(c, c, "received")

\* The open conversation, or a diagnosis sent from elsewhere in the window.
Send == \E f \in loaded, t \in People \union Own : f # t /\ Stored(f, t, "out")

AddContact(a) ==
  /\ contacts' = contacts \union {a}
  /\ UNCHANGED <<messages, nextId, subs, loaded, current, open>>

Subscribe(c) ==
  /\ subs' = subs \union {c}
  /\ UNCHANGED <<messages, nextId, contacts, loaded, current, open>>

\* The menu, or the identity manager.
Select(i) ==
  /\ i \in loaded /\ i # current
  /\ current' = i
  /\ UNCHANGED <<messages, nextId, contacts, subs, loaded, open>>

\* One identity stays active (see module Inbox).
Toggle(i) ==
  /\ loaded' = IF i \in loaded THEN loaded \ {i} ELSE loaded \union {i}
  /\ loaded' # {}
  /\ UNCHANGED <<messages, nextId, contacts, subs, current, open>>

\* mark_dm_read, or every row with the address for a channel.
MarkedRead(kind, a) ==
  LET seen == IF kind = "contact" /\ Ident # None THEN Between(a, Ident) ELSE Involving(a)
      read == {m \in seen : m.status = "received"} IN
  (messages \ read) \union {[m EXCEPT !.status = "read"] : m \in read}

\* _open_conversation
Open(kind, a) ==
  /\ <<kind, a>> \in Listed
  /\ open' = <<kind, a>>
  /\ messages' = MarkedRead(kind, a)
  /\ UNCHANGED <<nextId, contacts, subs, loaded, current>>

\* delete_self_conversation, delete_dm_conversation, delete_conversation
Deleted(kind, a) ==
  IF kind = "contact" /\ Ident # None
  THEN IF a \in loaded THEN Between(a, a) ELSE Between(a, Ident)
  ELSE Involving(a)

Closed(a) == open' = IF open # None /\ open[2] = a THEN None ELSE open

\* _delete_conversation, after the question
DeleteConversation(kind, a) ==
  /\ <<kind, a>> \in Listed
  /\ messages' = messages \ Deleted(kind, a)
  /\ Closed(a)
  /\ UNCHANGED <<nextId, contacts, subs, loaded, current>>

\* _remove_entry: DeleteContactCommand and Client.remove_contact, or unsubscribe.
RemoveEntry(kind, a) ==
  /\ <<kind, a>> \in Listed
  /\ messages' = messages \ (IF a \in loaded THEN Between(a, a) ELSE Involving(a))
  /\ IF kind = "contact" THEN contacts' = contacts \ {a} /\ UNCHANGED subs
     ELSE subs' = subs \ {a} /\ UNCHANGED contacts
  /\ Closed(a)
  /\ UNCHANGED <<nextId, loaded, current>>

Next ==
  \/ Receive \/ Send
  \/ \E a \in Own \union People : AddContact(a)
  \/ \E c \in Channels : Subscribe(c)
  \/ \E i \in Own : Select(i) \/ Toggle(i)
  \/ \E a \in Addresses, k \in {"contact", "channel"} :
       Open(k, a) \/ DeleteConversation(k, a) \/ RemoveEntry(k, a)

Spec == Init /\ [][Next]_vars

-----------------------------------------------------------------------------
(* Properties                                                                *)

TypeOK ==
  /\ messages \subseteq RowsOf(MaxRows) /\ nextId \in 1..(MaxRows + 1)
  /\ contacts \subseteq Own \union People /\ subs \subseteq Channels
  /\ loaded \subseteq Own /\ current \in Own
  /\ open \in {None} \union ({"contact", "channel"} \X Addresses)

\* The chat, the counter that offers older messages and the preview, each
\* with its queries and fallbacks, speak of the same messages.  A contact that
\* is one of the user's own identities is the exception for the preview.
ViewsAgree ==
  \A c \in Listed :
    LET rows == ChatRows(c[1], c[2]) IN
    /\ Cardinality(rows) = Min({Limit, Count(c[1], c[2])})
    /\ (c[1] = "contact" /\ c[2] \in Own) \/ LastRow(c[1], c[2]) = NewestOf(rows)

\* A direct conversation that exists under the current identity shows nothing
\* of the other identities, and a note to oneself no letter to others.
Isolated ==
  \A a \in contacts :
    /\ a \in loaded => ChatRows("contact", a) \subseteq Between(a, a)
    /\ a \notin loaded /\ current \in loaded /\ Between(a, current) # {}
         => ChatRows("contact", a) \subseteq Between(a, current)

\* What the window shows belongs together and belongs there.
ConversationsSound == ViewsAgree /\ Isolated

-----------------------------------------------------------------------------
(* What the code does not do                                                 *)

\* database.py: only the rows of the pair are marked as read.  The rows that
\* are shown because the pair has none stay unread.
ShownIsRead ==
  open # None => \A m \in ChatRows(open[1], open[2]) : m.status # "received"
=============================================================================
