------------------------------ MODULE Formats ------------------------------
(***************************************************************************)
(* Numbers, addresses, exported keys and lists on the wire (util/varint.py,*)
(* util/base58.py, protocol/address.py, protocol/packets.py,               *)
(* crypto/keys.py), as functions on sequences of digits. The digits of a   *)
(* blob are 0..Byte-1 and those of a text 0..Chars-1; with Byte = 256 and  *)
(* Chars = 58 the definitions are the code's. A check instantiates them    *)
(* with small bases and steps through sample inputs, one per state.        *)
(***************************************************************************)
EXTENDS Naturals, SequencesExt

CONSTANTS
  Byte,       \* 256
  Chars,      \* 58
  RipeLen,    \* 20
  Checksum(_),\* the first bytes of a double hash
  SumLen,     \* 4
  KeyLen,     \* 32
  Order,      \* private keys are 1..Order-1
  WifByte,    \* 128
  MaxText,    \* 100
  MaxDigits,  \* bound: digits of the texts that are encoded
  HashLen,    \* 32
  MaxCount,   \* MAX_OBJECT_COUNT, MAX_ADDR_COUNT
  HostLen,    \* 16
  Samples     \* the inputs

FormatsAssumption ==
  /\ {Byte, Chars} \subseteq Nat /\ Byte > 4 /\ Chars > 1
  /\ {RipeLen, SumLen, KeyLen, HashLen, HostLen} \subseteq Nat \ {0}
  /\ MaxText \in Nat /\ MaxCount \in Nat

VARIABLE sample

Zeros(n) == [i \in 1..n |-> 0]

\* int.from_bytes(blob, "big") and its inverse in n digits
Value(blob, base) == FoldLeft(LAMBDA v, d : v * base + d, 0, blob)
Digits(v, base, n) == [i \in 1..n |-> (v \div base^(n - i)) % base]

\* the shortest sequence of digits, empty for 0
Shortest(v, base) ==
  Digits(v, base, CHOOSE n \in 0..MaxDigits : v < base^n /\ (n = 0 \/ base^(n - 1) <= v))

Leading(blob) == CHOOSE n \in 0..Len(blob) :
  (\A i \in 1..n : blob[i] = 0) /\ (n = Len(blob) \/ blob[n + 1] # 0)
Stripped(blob) == SubSeq(blob, Leading(blob) + 1, Len(blob))
Take(blob, n) == SubSeq(blob, 1, IF n < Len(blob) THEN n ELSE Len(blob))
Skip(blob, n) == SubSeq(blob, n + 1, Len(blob))

-----------------------------------------------------------------------------
(* Varint                                                                    *)

\* A prefix, the digits that follow it, and the least number it may announce.
Specs == {<<Byte - 3, 2, Byte - 3>>, <<Byte - 2, 4, Byte^2>>, <<Byte - 1, 8, Byte^4>>}

EncodeVarint(n) ==
  IF n < Byte - 3 THEN <<n>>
  ELSE LET s == CHOOSE s \in Specs : s[3] <= n /\ \A t \in Specs : t[3] <= n => t[3] <= s[3]
       IN <<s[1]>> \o Digits(n, Byte, s[2])

NoVarint == [ok |-> FALSE, value |-> 0, size |-> 0]

Minimal(v, s) == v >= s[3]

DecodeVarint(blob) ==
  IF blob = <<>> THEN NoVarint
  ELSE IF blob[1] < Byte - 3 THEN [ok |-> TRUE, value |-> blob[1], size |-> 1]
  ELSE LET s == CHOOSE s \in Specs : s[1] = blob[1]
           v == Value(SubSeq(blob, 2, 1 + s[2]), Byte)
       IN IF Len(blob) <= s[2] \/ ~ Minimal(v, s) THEN NoVarint
          ELSE [ok |-> TRUE, value |-> v, size |-> 1 + s[2]]

-----------------------------------------------------------------------------
(* Base 58                                                                   *)

EncodeBase58(blob) ==
  IF Value(blob, Byte) = 0 THEN Zeros(IF blob = <<>> THEN 1 ELSE Len(blob))
  ELSE Zeros(Leading(blob)) \o Shortest(Value(blob, Byte), Chars)

NoBlob == [ok |-> FALSE, blob |-> <<>>]

\* Each leading "1" stands for a zero byte, but a text of "1"s alone for one.
DecodeBase58(text) ==
  LET v == Value(text, Chars) IN
  IF Len(text) > MaxText \/ \E i \in DOMAIN text : text[i] >= Chars THEN NoBlob
  ELSE [ok |-> TRUE,
        blob |-> IF v = 0 THEN <<0>> ELSE Zeros(Leading(text)) \o Shortest(v, Byte)]

-----------------------------------------------------------------------------
(* Addresses                                                                 *)

\* Mutant of Body: version 4 keeps a zero byte, as the older versions may.
BodyUnstripped(version, ripe) ==
  IF version <= 4 /\ Leading(ripe) >= 2 THEN Skip(ripe, 2) ELSE ripe

Body(version, ripe) ==
  IF version = 4 THEN Stripped(ripe)
  ELSE Skip(ripe, IF Leading(ripe) >= 2 THEN 2 ELSE Leading(ripe))

Summed(data) == data \o Checksum(data)

EncodeAddress(version, stream, ripe) ==
  EncodeBase58(Summed(EncodeVarint(version) \o EncodeVarint(stream) \o Body(version, ripe)))

Refused(status) == [status |-> status, version |-> 0, stream |-> 0, ripe |-> <<>>]

PaddedRipe(version, stream, embedded) ==
  IF Len(embedded) > RipeLen THEN Refused("ripetoolong")
  ELSE IF embedded = <<>> THEN Refused("ripetooshort")
  ELSE IF version = 4 /\ embedded[1] = 0 THEN Refused("encodingproblem")
  ELSE [status |-> "success", version |-> version, stream |-> stream,
        ripe |-> Zeros(RipeLen - Len(embedded)) \o embedded]

AddressHeader(data) ==
  LET version == DecodeVarint(Take(data, 9))
      stream == DecodeVarint(Skip(data, version.size))
  IN IF ~ version.ok THEN Refused("varintmalformed")
     ELSE IF version.value \notin 2..4 THEN Refused("versiontoohigh")
     ELSE IF ~ stream.ok THEN Refused("varintmalformed")
     ELSE IF stream.value = 0 THEN Refused("versiontoohigh")
     ELSE PaddedRipe(version.value, stream.value, Skip(data, version.size + stream.size))

DecodeAddress(text) ==
  LET raw == DecodeBase58(text)
      data == Take(raw.blob, Len(raw.blob) - SumLen)
  IN IF ~ raw.ok THEN Refused("invalidcharacters")
     ELSE IF Len(raw.blob) < SumLen + 2 THEN Refused("tooshort")
     ELSE IF Summed(data) # raw.blob THEN Refused("checksumfailed")
     ELSE AddressHeader(data)

-----------------------------------------------------------------------------
(* Exported keys                                                             *)

EncodeWif(private) == EncodeBase58(Summed(<<WifByte>> \o private))

DecodeWif(text) ==
  LET raw == DecodeBase58(text).blob
      payload == Take(raw, Len(raw) - SumLen)
      private == Skip(payload, 1)
  IN IF /\ Len(raw) = 1 + KeyLen + SumLen /\ raw[1] = WifByte
        /\ Summed(payload) = raw
        /\ Value(private, Byte) \in 1..(Order - 1)
     THEN [ok |-> TRUE, blob |-> private] ELSE NoBlob

-----------------------------------------------------------------------------
(* Lists: inv, getdata and addr                                              *)

AssembleList(entries) == EncodeVarint(Len(entries)) \o FlattenSeq(entries)

\* Entries of `width` digits: as many as announced, as the cap allows and as
\* are there.
ParseList(blob, width) ==
  LET count == DecodeVarint(blob)
      present == (Len(blob) - count.size) \div width
      n == CHOOSE n \in {count.value, MaxCount, present} :
             \A k \in {count.value, MaxCount, present} : n <= k
  IN [i \in 1..n |-> SubSeq(blob, count.size + (i - 1) * width + 1, count.size + i * width)]

\* _send_initial_data: an onion host of version 3 does not fit a record of addr.
Sendable(peer) == Len(peer.host) = HostLen

PeerEntry(peer) == peer.host \o <<peer.port>>

AssembleAddr(peers) == AssembleList([i \in DOMAIN SelectSeq(peers, Sendable) |->
  PeerEntry(SelectSeq(peers, Sendable)[i])])

ParseAddr(blob) ==
  LET entries == ParseList(blob, HostLen + 1)
  IN [i \in DOMAIN entries |-> [host |-> Take(entries[i], HostLen), port |-> entries[i][HostLen + 1]]]

-----------------------------------------------------------------------------

Init == sample = [kind |-> "none"]

Next == sample.kind = "none" /\ sample' \in Samples

Spec == Init /\ [][Next]_sample

-----------------------------------------------------------------------------
(* Properties                                                                *)

\* Every number has one encoding: it is read back whatever follows, cut short
\* it is refused, and what is read is what the number is encoded as.
VarintExact ==
  /\ sample.kind = "number" =>
       LET blob == EncodeVarint(sample.n) IN
       /\ DecodeVarint(blob \o <<Byte - 1>>) = [ok |-> TRUE, value |-> sample.n, size |-> Len(blob)]
       /\ ~ DecodeVarint(Front(blob)).ok
  /\ sample.kind = "blob" =>
       LET read == DecodeVarint(sample.blob) IN
       read.ok => EncodeVarint(read.value) = Take(sample.blob, read.size)

\* A blob survives base 58 unless it is zeros alone, and a text that is read
\* is the one its blob is written as.
Base58Exact ==
  /\ sample.kind = "blob" =>
       (Value(sample.blob, Byte) # 0
          => DecodeBase58(EncodeBase58(sample.blob)) = [ok |-> TRUE, blob |-> sample.blob])
  /\ sample.kind = "text" =>
       LET read == DecodeBase58(sample.text) IN
       (read.ok /\ Value(sample.text, Chars) # 0) => EncodeBase58(read.blob) = sample.text

\* An address gives back what it was made of, whatever zeros its ripe begins
\* with, and an address of version 4 has one spelling: the client compares
\* addresses as texts.
AddressExact ==
  /\ (sample.kind = "address" /\ Stripped(sample.ripe) # <<>>) =>
       DecodeAddress(EncodeAddress(sample.version, sample.stream, sample.ripe))
         = [status |-> "success", version |-> sample.version, stream |-> sample.stream,
            ripe |-> sample.ripe]
  /\ sample.kind = "text" =>
       LET read == DecodeAddress(sample.text) IN
       (read.status = "success" /\ read.version = 4)
         => EncodeAddress(4, read.stream, read.ripe) = sample.text

\* An exported key is imported as it was, and nothing else is a key.
WifExact ==
  /\ (sample.kind = "key" /\ Value(sample.key, Byte) \in 1..(Order - 1)) =>
       DecodeWif(EncodeWif(sample.key)) = [ok |-> TRUE, blob |-> sample.key]
  /\ sample.kind = "text" =>
       LET read == DecodeWif(sample.text) IN read.ok => EncodeWif(read.blob) = sample.text

\* A list of peers loses the hosts that do not fit and what is over the cap,
\* and nothing else; cut short, it loses its end alone.
ListsExact ==
  sample.kind = "peers" =>
    LET kept == SelectSeq(sample.peers, LAMBDA p : Len(p.host) = HostLen)
        blob == AssembleAddr(sample.peers)
    IN /\ ParseAddr(blob) = Take(kept, IF Len(kept) < MaxCount THEN Len(kept) ELSE MaxCount)
       /\ \A n \in 1..Len(blob) : IsPrefix(ParseAddr(Take(blob, n)), kept)

\* What is written is read back, and has one spelling.
FormatsExact == VarintExact /\ Base58Exact /\ AddressExact /\ WifExact /\ ListsExact
=============================================================================
