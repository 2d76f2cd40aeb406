------------------------------ MODULE Objects ------------------------------
(***************************************************************************)
(* What the objects of the network carry and when a client believes them   *)
(* (protocol/objects.py, protocol/factory.py, crypto/keys.py), field by    *)
(* field: a signature is [by, of], an encrypted part opens for one key, a  *)
(* ripe is the pair of public keys, and a tag and the key derived from an  *)
(* address are the address itself. Fields a receiver only copies are left  *)
(* out. A check steps through objects that this client or another one      *)
(* wrote, well or badly.                                                   *)
(***************************************************************************)
EXTENDS Naturals, Sequences

CONSTANTS
  People,       \* holders of a signing and an encryption key
  StreamOf,     \* the stream of each one's address
  None,
  Easiest, Hardest,  \* PUBKEY_NTPB_MIN and _MAX, PUBKEY_EB_MIN and _MAX
  LongestTTL,   \* 30 days, the farthest expiry the factory accepts
  Versions, Streams, Efforts,  \* bound: numbers that other clients write
  TTLs          \* bound: lifetimes asked of the factory

\* What the readers return, apart from None.
AllAddresses == [version : Nat, stream : Nat, ripe : People \X People]
Letters == [from : AllAddresses, to : People, message : {"text"}, ack : {"ack"}]
Posts == [from : AllAddresses, channel : AllAddresses, message : {"text"}]
Keys == [signing : People, encryption : People, ntpb : Nat, eb : Nat]

ObjectsAssumption ==
  /\ StreamOf \in [People -> Nat \ {0}]
  /\ None \notin People \union Letters \union Posts \union Keys
  /\ Easiest \in Nat /\ Hardest \in Nat /\ Easiest <= Hardest /\ LongestTTL \in Nat

VARIABLE sample

Ripe(signing, encryption) == <<signing, encryption>>
Address(version, stream, ripe) == [version |-> version, stream |-> stream, ripe |-> ripe]
Home(p) == Address(4, StreamOf[p], Ripe(p, p))

-----------------------------------------------------------------------------
(* Writing. `fields` is the plain part without the signature.                *)

Header(expires, type, version, stream, tag) ==
  [expires |-> expires, type |-> type, version |-> version, stream |-> stream, tag |-> tag]

Sign(by, header, fields) == [by |-> by, of |-> <<header, fields>>]

\* complete_object(assemble_object_unsigned(...), nonce): `key` opens the
\* encrypted part, `kept` says whether the whole of it arrived.
Object(header, key, fields, signature) ==
  [header |-> header, key |-> key, fields |-> fields, signature |-> signature, whole |-> TRUE]

OwnFields(p, stream) ==
  [version |-> 4, stream |-> stream, signing |-> p, encryption |-> p,
   ntpb |-> Easiest, eb |-> Easiest]

\* build_msg_unsigned: the stream of the object is written into the sender's too.
BuildMsg(p, stream, expires, to, message, ack) ==
  LET header == Header(expires, "msg", 1, stream, None)
      fields == [own |-> OwnFields(p, stream), ripe |-> to.ripe, encoding |-> 1,
                 message |-> message, ack |-> ack]
  IN Object(header, to.ripe[2], fields, Sign(p, header, fields))

BuildBroadcast(p, stream, expires, message) ==
  LET header == Header(expires, "broadcast", 5, stream, Address(4, stream, Ripe(p, p)))
      fields == [own |-> OwnFields(p, stream), encoding |-> 1, message |-> message]
  IN Object(header, header.tag, fields, Sign(p, header, fields))

BuildPubkey(p, stream, expires) ==
  LET header == Header(expires, "pubkey", 4, stream, Address(4, stream, Ripe(p, p)))
      fields == [own |-> OwnFields(p, stream)]
  IN Object(header, header.tag, fields, Sign(p, header, fields))

\* The factory's checks before an object is built for a ttl from now.
Creatable(ttl, stream, body, limit) == ttl \in 1..LongestTTL /\ stream >= 1 /\ body <= limit

-----------------------------------------------------------------------------
(* Reading                                                                   *)

\* What was cut off is read as zeros and empty, and an empty signature fits nothing.
Verifies(o, signing, header) == o.whole /\ o.signature = Sign(signing, header, o.fields)

InRange(own) == own.ntpb \in Easiest..Hardest /\ own.eb \in Easiest..Hardest

\* process_msg for one identity. Before version 3 no difficulty was announced;
\* encode_address raises for version 1, and the object is dropped.
ReadMsg(o, p) ==
  LET own == o.fields.own IN
  IF /\ o.header.type = "msg" /\ o.header.version = 1
     /\ o.key = p
     /\ own.version \in 2..4 /\ own.stream # 0
     /\ own.version >= 3 => InRange(own)
     /\ o.fields.ripe = Ripe(p, p)
     /\ Verifies(o, own.signing, [o.header EXCEPT !.version = 1, !.tag = None])
  THEN [from |-> Address(own.version, own.stream, Ripe(own.signing, own.encryption)),
        to |-> p, message |-> o.fields.message, ack |-> o.fields.ack]
  ELSE None

\* The first identity that can read it.
ProcessMsg(o, identities) ==
  IF \E p \in identities : ReadMsg(o, p) # None
  THEN ReadMsg(o, CHOOSE p \in identities : ReadMsg(o, p) # None)
  ELSE None

\* Mutant of PosterIs: the tag is not computed again from the keys.
PosterIsAny(own, tag) == own.version = 4

\* The tag of the keys that signed is the tag of the object.
PosterIs(own, tag) ==
  Address(own.version, own.stream, Ripe(own.signing, own.encryption)) = tag

\* process_broadcast: subscriptions are found by tag.
ProcessBroadcast(o, subscriptions) ==
  LET own == o.fields.own IN
  IF /\ o.header.type = "broadcast" /\ o.header.version = 5
     /\ o.header.tag \in subscriptions /\ o.key = o.header.tag
     /\ own.version = 4 /\ own.stream # 0
     /\ InRange(own)
     /\ o.fields.encoding # 0
     /\ Verifies(o, own.signing, [o.header EXCEPT !.version = 5])
     /\ PosterIs(own, o.header.tag)
  THEN [from |-> Address(own.version, own.stream, Ripe(own.signing, own.encryption)),
        channel |-> o.header.tag, message |-> o.fields.message]
  ELSE None

\* process_pubkey for a contact's address
ProcessPubkey(o, address) ==
  LET own == o.fields.own IN
  IF /\ o.header.type = "pubkey" /\ o.header.version = 4
     /\ o.header.tag = address /\ o.key = address
     /\ Verifies(o, own.signing, o.header)
     /\ Ripe(own.signing, own.encryption) = address.ripe
     /\ InRange(own)
  THEN [signing |-> own.signing, encryption |-> own.encryption, ntpb |-> own.ntpb, eb |-> own.eb]
  ELSE None

-----------------------------------------------------------------------------

Init == sample = [kind |-> "none"]

\* What any client may have written as its own part, and what the header may
\* have become by the time it is read.
Owns == [version : Versions, stream : Streams, signing : People, encryption : People,
         ntpb : Efforts, eb : Efforts]
Changes(h) == {h} \union {[h EXCEPT !.expires = @ + 1], [h EXCEPT !.stream = @ + 1],
                          [h EXCEPT !.version = @ + 1]}

\* An object signed by s over the header h, read under the header g.
Foreign(kind, h, g, key, fields, s) ==
  \E whole \in BOOLEAN :
    sample' = [kind |-> kind,
               object |-> [Object(g, key, fields, Sign(s, h, fields)) EXCEPT !.whole = whole]]

ForeignMsg ==
  \E s, p, q \in People, own \in Owns, stream \in Streams :
    LET h == Header(0, "msg", 1, stream, None)
        fields == [own |-> own, ripe |-> Ripe(q, q), encoding |-> 1, message |-> "text",
                   ack |-> "ack"]
    IN \E g \in Changes(h) : Foreign("msg", h, g, p, fields, s)

ForeignPost ==
  \E s, p \in People, own \in Owns, encoding \in 0..1 :
    LET h == Header(0, "broadcast", 5, StreamOf[p], Home(p))
        fields == [own |-> own, encoding |-> encoding, message |-> "text"]
    IN \E g \in Changes(h) : Foreign("broadcast", h, g, Home(p), fields, s)

ForeignKey ==
  \E s, p \in People, own \in Owns :
    LET h == Header(0, "pubkey", 4, StreamOf[p], Home(p))
    IN \E g \in Changes(h) : Foreign("pubkey", h, g, Home(p), [own |-> own], s)

OwnObject == \E p, q \in People, ttl \in TTLs :
  sample' = [kind |-> "own", by |-> p, to |-> q, ttl |-> ttl]

Next == sample.kind = "none" /\ (ForeignMsg \/ ForeignPost \/ ForeignKey \/ OwnObject)

Spec == Init /\ [][Next]_sample

-----------------------------------------------------------------------------
(* Properties                                                                *)

Addresses == {Home(p) : p \in People}

\* A message that is shown was signed, for this very header, by the holder of
\* the key of the sender that is shown, and was meant for the identity it is
\* shown to.
MessageAuthentic ==
  sample.kind = "msg" =>
    LET o == sample.object
        read == ProcessMsg(o, People)
    IN read # None =>
         /\ o.signature = Sign(read.from.ripe[1], o.header, o.fields)
         /\ o.whole /\ read.to = o.key /\ o.fields.ripe = Ripe(read.to, read.to)

\* A post is shown under the address that signed it, and that is the channel
\* or subscription it was found by.
PostAuthentic ==
  sample.kind = "broadcast" =>
    LET o == sample.object
        read == ProcessBroadcast(o, Addresses)
    IN read # None =>
         /\ read.from = read.channel
         /\ o.signature = Sign(read.from.ripe[1], o.header, o.fields)

\* The keys kept for a contact are the ones its address names, and the
\* difficulty its owner signed is one the client can work for.
KeyAuthentic ==
  sample.kind = "pubkey" =>
    \A a \in Addresses :
      LET o == sample.object
          read == ProcessPubkey(o, a)
      IN read # None =>
           /\ <<read.signing, read.encryption>> = a.ripe
           /\ o.signature = Sign(read.signing, o.header, o.fields)
           /\ read.ntpb \in Easiest..Hardest /\ read.eb \in Easiest..Hardest

\* What this client writes, this client reads: with the sender's address as
\* long as sender and recipient are of one stream.
OwnObjectsRead ==
  sample.kind = "own" =>
    LET p == sample.by
        q == sample.to
    IN Creatable(sample.ttl, StreamOf[q], 1, 1) =>
       /\ LET read == ProcessMsg(BuildMsg(p, StreamOf[q], sample.ttl, Home(q), "text", "ack"), People)
          IN /\ read # None /\ read.to = q /\ read.message = "text" /\ read.ack = "ack"
             /\ StreamOf[p] = StreamOf[q] => read.from = Home(p)
       /\ LET read == ProcessBroadcast(BuildBroadcast(p, StreamOf[p], sample.ttl, "text"), {Home(p)})
          IN read # None /\ read.from = Home(p) /\ read.message = "text"
       /\ ProcessPubkey(BuildPubkey(p, StreamOf[p], sample.ttl), Home(p)) # None
       /\ p # q => ProcessPubkey(BuildPubkey(p, StreamOf[p], sample.ttl), Home(q)) = None

\* An object is believed only as the owner of the address it names signed it.
ObjectsAuthentic == MessageAuthentic /\ PostAuthentic /\ KeyAuthentic /\ OwnObjectsRead

-----------------------------------------------------------------------------
(* What does not hold (see README, divergences)                              *)

\* The recipient sees the address of the sender.
SenderNamed ==
  sample.kind = "own" =>
    LET q == sample.to
    IN ProcessMsg(BuildMsg(sample.by, StreamOf[q], sample.ttl, Home(q), "text", "ack"),
                  People).from = Home(sample.by)
=============================================================================
