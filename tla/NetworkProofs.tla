--------------------------- MODULE NetworkProofs ---------------------------
(***************************************************************************)
(* The inductive invariants of Stream and Serving, the components of       *)
(* NetworkParts, and what they imply: packets over a connection that       *)
(* threads share arrive whole, in order and without a gap, for any         *)
(* writers, packets and limits; and every peer is told of what the node    *)
(* holds and can fetch it, for any connections, objects and limits, as     *)
(* long as an inventory has room for all rows.  The theorems about the     *)
(* behaviours of MCParts, FramesWhole and EverythingSpreads, are in        *)
(* PartsProofs.                                                            *)
(***************************************************************************)
EXTENDS NetworkParts, FiniteSetTheorems, SequenceTheorems, WellFoundedInduction, TLAPS

-----------------------------------------------------------------------------
(* Numbers                                                                   *)

\* A set of numbers that is not empty has a least one.
LEMMA LeastNumber ==
  ASSUME NEW T, T \subseteq Nat, T # {}
  PROVE  \E n \in T : \A m \in T : n <= m
<1>1. \E n \in T : \A m \in T : ~ (<<m, n>> \in OpToRel(<, Nat))
  BY NatLessThanWellFounded, WFMin
<1>2. PICK n \in T : \A m \in T : ~ (<<m, n>> \in OpToRel(<, Nat))
  BY <1>1
<1>3. ASSUME NEW m \in T PROVE n <= m
  <2>1. m \in Nat /\ n \in Nat
    OBVIOUS
  <2>2. ~ (m < n)
    BY <1>2, <2>1 DEF OpToRel
  <2> QED BY <2>1, <2>2
<1> QED BY <1>3

\* What holds for 0 and goes from one number to the next holds up to n: P as a set.
LEMMA Upwards ==
  ASSUME NEW n \in Nat, NEW P, 0 \in P, \A k \in 0..(n-1) : k \in P => k + 1 \in P
  PROVE  n \in P
<1> SUFFICES ASSUME n \notin P PROVE FALSE
  OBVIOUS
<1> DEFINE T == {k \in 0..n : k \notin P}
<1>1. PICK m \in T : \A k \in T : m <= k
  <2>1. T \subseteq Nat /\ n \in T
    OBVIOUS
  <2> QED BY <2>1, LeastNumber
<1>2. m \in 1..n /\ m \notin P
  BY <1>1
<1>3. m - 1 \in 0..(n-1) /\ m - 1 \notin T
  BY <1>1, <1>2
<1>4. m - 1 \in P
  BY <1>3
<1>5. m \in P
  <2>1. (m - 1) + 1 = m
    BY <1>2
  <2> QED BY <1>3, <1>4, <2>1
<1> QED BY <1>2, <1>5

-----------------------------------------------------------------------------
(* Concatenations *)

\* f holds what the first k of the sequences s are together, for every k up to n.
Joins(f, s, n) ==
  f = [i \in 1..n |-> IF i = 1 THEN s[i] ELSE f[i-1] \o s[i]]

Agree(f, g, n) == \A i \in 1..n : f[i] = g[i]

LEMMA JoinsExist ==
  ASSUME NEW s, NEW n \in Nat
  PROVE  \E f : Joins(f, s, n)
<1> DEFINE P == {k \in Nat : \E f : Joins(f, s, k)}
<1>1. 0 \in P
  <2> DEFINE f == [i \in 1..0 |-> IF i = 1 THEN s[i] ELSE s[i] \o s[i]]
  <2>1. f = [i \in 1..0 |-> IF i = 1 THEN s[i] ELSE f[i-1] \o s[i]]
    <3>1. 1..0 = {}
      OBVIOUS
    <3> QED BY <3>1
  <2>2. Joins(f, s, 0)
    BY <2>1 DEF Joins
  <2> QED BY <2>2
<1>2. ASSUME NEW k \in 0..(n-1), k \in P PROVE k + 1 \in P
  <2>1. PICK f : Joins(f, s, k)
    BY <1>2
  <2> DEFINE g == [i \in 1..(k + 1) |->
                     IF i <= k THEN f[i] ELSE IF i = 1 THEN s[i] ELSE f[i-1] \o s[i]]
  <2>2. \A i \in 1..k : f[i] = IF i = 1 THEN s[i] ELSE f[i-1] \o s[i]
    BY <2>1 DEF Joins
  <2>3. \A i \in 1..(k + 1) : g[i] = IF i = 1 THEN s[i] ELSE g[i-1] \o s[i]
    <3> SUFFICES ASSUME NEW i \in 1..(k + 1)
                 PROVE  g[i] = IF i = 1 THEN s[i] ELSE g[i-1] \o s[i]
      OBVIOUS
    <3>1. i # 1 => i - 1 \in 1..k
      OBVIOUS
    <3>2. i # 1 => g[i - 1] = f[i - 1]
      BY <3>1
    <3>3. g[i] = IF i <= k THEN f[i] ELSE IF i = 1 THEN s[i] ELSE f[i-1] \o s[i]
      OBVIOUS
    <3> HIDE DEF g
    <3> QED BY <3>1, <3>2, <3>3, <2>2
  <2>4. g = [i \in 1..(k + 1) |-> g[i]]
    OBVIOUS
  <2> HIDE DEF g
  <2>5. g = [i \in 1..(k + 1) |-> IF i = 1 THEN s[i] ELSE g[i-1] \o s[i]]
    <3> DEFINE h == [i \in 1..(k + 1) |-> IF i = 1 THEN s[i] ELSE g[i-1] \o s[i]]
    <3>1. h = [i \in 1..(k + 1) |-> h[i]]
      OBVIOUS
    <3>2. \A i \in 1..(k + 1) : h[i] = g[i]
      BY <2>3
    <3> HIDE DEF h
    <3>3. h = g
      BY <3>1, <3>2, <2>4, Zenon
    <3> QED BY <3>3 DEF h
  <2>6. Joins(g, s, k + 1)
    BY <2>5 DEF Joins
  <2> QED BY <2>6
<1> HIDE DEF P
<1>3. n \in P
  BY <1>1, <1>2, Upwards
<1> QED BY <1>3 DEF P

\* Two of them agree as far as both go.
LEMMA JoinsAgree ==
  ASSUME NEW s, NEW t, NEW n \in Nat, NEW m \in Nat, NEW f, NEW g,
         n <= m, Agree(s, t, n), Joins(f, s, n), Joins(g, t, m)
  PROVE  Agree(f, g, n)
<1> DEFINE P == {k \in Nat : k \in 1..n => f[k] = g[k]}
<1>1. \A i \in 1..n : f[i] = IF i = 1 THEN s[i] ELSE f[i-1] \o s[i]
  BY DEF Joins
<1>2. \A i \in 1..n : g[i] = IF i = 1 THEN t[i] ELSE g[i-1] \o t[i]
  <2>1. \A i \in 1..m : g[i] = IF i = 1 THEN t[i] ELSE g[i-1] \o t[i]
    BY DEF Joins
  <2> QED BY <2>1
<1>3. ASSUME NEW k \in 1..n PROVE f[k] = g[k]
  <2>1. 0 \in P
    OBVIOUS
  <2>2. ASSUME NEW j \in 0..(k-1), j \in P PROVE j + 1 \in P
    <3>1. j + 1 \in 1..n /\ j \in Nat /\ (j + 1) - 1 = j /\ (j + 1 = 1 \/ j \in 1..n)
      OBVIOUS
    <3>0. s[j + 1] = t[j + 1]
      BY <3>1 DEF Agree
    <3>2. f[j + 1] = IF j + 1 = 1 THEN s[j + 1] ELSE f[j] \o s[j + 1]
      BY <1>1, <3>1
    <3>3. g[j + 1] = IF j + 1 = 1 THEN t[j + 1] ELSE g[j] \o t[j + 1]
      BY <1>2, <3>1
    <3>4. f[j + 1] = g[j + 1]
      BY <2>2, <3>0, <3>1, <3>2, <3>3
    <3> QED BY <3>1, <3>4
  <2>3. k \in Nat
    OBVIOUS
  <2> HIDE DEF P
  <2>4. k \in P
    BY <2>1, <2>2, <2>3, Upwards
  <2> QED BY <2>4 DEF P
<1> QED BY <1>3 DEF Agree

\* FlattenSeq of the community modules: nothing for nothing, and the last of
\* the sequences comes after the others.
LEMMA FlattenIsJoin ==
  ASSUME NEW s, Len(s) \in Nat, Len(s) # 0
  PROVE  \E f : Joins(f, s, Len(s)) /\ Framing!FlattenSeq(s) = f[Len(s)]
<1> DEFINE f == CHOOSE g : g = [i \in 1..Len(s) |-> IF i = 1 THEN s[i] ELSE g[i-1] \o s[i]]
<1>1. Framing!FlattenSeq(s) = f[Len(s)]
  BY DEF Framing!FlattenSeq
<1>2. Joins(f, s, Len(s))
  <2>1. \E g : g = [i \in 1..Len(s) |-> IF i = 1 THEN s[i] ELSE g[i-1] \o s[i]]
    <3>1. \E g : Joins(g, s, Len(s))
      BY JoinsExist
    <3> QED BY <3>1, Zenon DEF Joins
  <2> QED BY <2>1 DEF Joins
<1> QED BY <1>1, <1>2

LEMMA FlattenEmpty ==
  Framing!FlattenSeq(<<>>) = <<>>
BY DEF Framing!FlattenSeq

LEMMA FlattenAppend ==
  ASSUME NEW T, NEW s \in Seq(Seq(T)), NEW x \in Seq(T)
  PROVE  Framing!FlattenSeq(Append(s, x)) = Framing!FlattenSeq(s) \o x
<1> DEFINE t == Append(s, x)
           n == Len(s)
<1>1. t \in Seq(Seq(T)) /\ Len(t) = n + 1 /\ n \in Nat /\ t[n + 1] = x
      /\ \A i \in 1..n : s[i] = t[i]
  OBVIOUS
<1> HIDE DEF t
<1>2. PICK g : Joins(g, t, n + 1) /\ Framing!FlattenSeq(t) = g[n + 1]
  <2>1. Len(t) \in Nat /\ Len(t) # 0
    BY <1>1
  <2>2. \E g : Joins(g, t, Len(t)) /\ Framing!FlattenSeq(t) = g[Len(t)]
    BY <2>1, FlattenIsJoin
  <2> QED BY <1>1, <2>2
<1>3. g[n + 1] = IF n + 1 = 1 THEN t[n + 1] ELSE g[n] \o t[n + 1]
  <2>1. n + 1 \in 1..(n + 1) /\ (n + 1) - 1 = n
    BY <1>1
  <2> QED BY <1>2, <2>1 DEF Joins
<1>4. CASE n = 0
  <2>1. s = <<>>
    BY <1>4
  <2>2. <<>> \o x = x
    BY ConcatEmptySeq
  <2> QED BY <1>1, <1>2, <1>3, <1>4, <2>1, <2>2, FlattenEmpty DEF t
<1>5. CASE n # 0
  <2>1. PICK f : Joins(f, s, n) /\ Framing!FlattenSeq(s) = f[n]
    BY <1>5, FlattenIsJoin
  <2>2. f[n] = g[n]
    <3>1. Agree(f, g, n)
      <4>1. n + 1 \in Nat /\ n <= n + 1
        BY <1>1
      <4>2. Joins(f, s, n) /\ Joins(g, t, n + 1)
        BY <1>2, <2>1
      <4>3. n \in Nat /\ Agree(s, t, n)
        BY <1>1 DEF Agree
      <4> DEFINE m == n + 1
      <4>4. m \in Nat /\ n <= m /\ Joins(g, t, m)
        BY <4>1, <4>2
      <4> HIDE DEF n, m
      <4> QED BY <4>2, <4>3, <4>4, JoinsAgree
    <3> QED BY <1>1, <1>5, <3>1 DEF Agree
  <2> QED BY <1>1, <1>2, <1>3, <1>5, <2>1, <2>2 DEF t
<1> QED BY <1>4, <1>5

-----------------------------------------------------------------------------
(* Stream: the tokens of packets                                             *)

Headers == {Framing!HeaderOf(p) : p \in Packets}
Bytes == {Magic, Data} \union Headers

\* A header and its packet are the same information, and no byte of a payload
\* is a header.
LEMMA HeadersOfPackets ==
  ASSUME NEW p \in Packets
  PROVE  /\ Framing!HeaderOf(p) \in Headers /\ Framing!HeaderOf(p).command = p.command
         /\ Framing!HeaderOf(p).length = Len(p.payload) /\ Framing!HeaderOf(p).sum = p.payload
         /\ p = [command |-> p.command, payload |-> p.payload]
         /\ p.payload \in Seq({Magic, Data})
         /\ Len(p.payload) \in Nat /\ Len(p.payload) <= MaxLength
         /\ Framing!HeaderOf(p) \notin {Magic, Data, Torn}
<1>1. /\ p = [command |-> p.command, payload |-> p.payload]
      /\ p.payload \in Seq({Magic, Data}) /\ Len(p.payload) <= MaxLength
      /\ Framing!HeaderOf(p) \notin {Magic, Data, Torn}
  BY NetworkAssumption DEF NetworkAssumption, Framing!StreamAssumption
<1>2. Framing!HeaderOf(p) \in Headers
  BY DEF Headers
<1>3. /\ Framing!HeaderOf(p).command = p.command /\ Framing!HeaderOf(p).length = Len(p.payload)
      /\ Framing!HeaderOf(p).sum = p.payload
  BY DEF Framing!HeaderOf
<1>4. Len(p.payload) \in Nat
  BY <1>1
<1> QED BY <1>1, <1>2, <1>3, <1>4

LEMMA TokensShape ==
  ASSUME NEW p \in Packets
  PROVE  /\ Framing!Tokens(p) \in Seq(Bytes) /\ Len(Framing!Tokens(p)) = 2 + Len(p.payload)
         /\ Framing!Tokens(p)[1] = Magic /\ Framing!Tokens(p)[2] = Framing!HeaderOf(p)
         /\ \A i \in 1..Len(p.payload) : Framing!Tokens(p)[2 + i] = p.payload[i]
         /\ \A i \in 1..Len(p.payload) : p.payload[i] \in {Magic, Data}
<1> DEFINE h == Framing!HeaderOf(p)
           d == p.payload
<1>1. h \in Headers /\ d \in Seq({Magic, Data}) /\ Len(d) \in Nat
  BY HeadersOfPackets
<1> HIDE DEF h, d
<1>2. <<Magic, h>> \in Seq(Bytes) /\ Len(<<Magic, h>>) = 2
  BY <1>1 DEF Bytes
<1>3. d \in Seq(Bytes)
  <2>1. \A i \in 1..Len(d) : d[i] \in Bytes
    BY <1>1 DEF Bytes
  <2> QED BY <1>1, <2>1
<1>4. \A i \in 1..Len(d) : 2 + i \in 1..(2 + Len(d)) /\ ~ (2 + i <= 2) /\ (2 + i) - 2 = i
  BY <1>1
<1>5. \A i \in 1..Len(d) : (<<Magic, h>> \o d)[2 + i] = d[i]
  BY <1>1, <1>2, <1>4
<1>6. /\ <<Magic, h>> \o d \in Seq(Bytes) /\ Len(<<Magic, h>> \o d) = 2 + Len(d)
      /\ (<<Magic, h>> \o d)[1] = Magic /\ (<<Magic, h>> \o d)[2] = h
  BY <1>1, <1>2, <1>3
<1>7. \A i \in 1..Len(d) : d[i] \in {Magic, Data}
  BY <1>1
<1> QED BY <1>5, <1>6, <1>7 DEF Framing!Tokens, h, d

TokensOf(ps) == [i \in DOMAIN ps |-> Framing!Tokens(ps[i])]

LEMMA AllTokensAppend ==
  ASSUME NEW ps \in Seq(Packets), NEW p \in Packets
  PROVE  Framing!AllTokens(Append(ps, p)) = Framing!AllTokens(ps) \o Framing!Tokens(p)
<1>1. TokensOf(ps) \in Seq(Seq(Bytes)) /\ Framing!Tokens(p) \in Seq(Bytes)
  <2>1. \A i \in DOMAIN ps : Framing!Tokens(ps[i]) \in Seq(Bytes)
    BY TokensShape
  <2>2. DOMAIN ps = 1..Len(ps) /\ Len(ps) \in Nat
    OBVIOUS
  <2>3. TokensOf(ps) \in [1..Len(ps) -> Seq(Bytes)]
    BY <2>1, <2>2 DEF TokensOf
  <2>4. TokensOf(ps) \in Seq(Seq(Bytes))
    BY <2>2, <2>3
  <2> QED BY <2>4, TokensShape
<1>2. TokensOf(Append(ps, p)) = Append(TokensOf(ps), Framing!Tokens(p))
  BY TokensShape DEF TokensOf
<1>3. Framing!FlattenSeq(Append(TokensOf(ps), Framing!Tokens(p)))
        = Framing!FlattenSeq(TokensOf(ps)) \o Framing!Tokens(p)
  BY <1>1, FlattenAppend
<1> QED BY <1>2, <1>3 DEF Framing!AllTokens, TokensOf

LEMMA AllTokensEmpty ==
  Framing!AllTokens(<<>>) = <<>>
<1>1. TokensOf(<<>>) = <<>>
  BY DEF TokensOf
<1> QED BY <1>1, FlattenEmpty DEF Framing!AllTokens, TokensOf

\* Packets one after the other: their tokens one after the other.
LEMMA AllTokensConcat ==
  ASSUME NEW ps \in Seq(Packets), NEW qs \in Seq(Packets)
  PROVE  /\ Framing!AllTokens(ps) \in Seq(Bytes)
         /\ Framing!AllTokens(ps \o qs) = Framing!AllTokens(ps) \o Framing!AllTokens(qs)
<1>1. ASSUME NEW s \in Seq(Packets) PROVE Framing!AllTokens(s) \in Seq(Bytes)
  <2> DEFINE P == {k \in Nat : k <= Len(s) => Framing!AllTokens(SubSeq(s, 1, k)) \in Seq(Bytes)}
  <2>1. 0 \in P
    <3>1. SubSeq(s, 1, 0) = <<>>
      OBVIOUS
    <3>2. Framing!AllTokens(SubSeq(s, 1, 0)) = <<>>
      BY <3>1, AllTokensEmpty
    <3>3. <<>> \in Seq(Bytes) /\ 0 \in Nat
      OBVIOUS
    <3> QED BY <3>2, <3>3
  <2>2. ASSUME NEW k \in 0..(Len(s)-1), k \in P PROVE k + 1 \in P
    <3>1. SubSeq(s, 1, k + 1) = Append(SubSeq(s, 1, k), s[k + 1]) /\ k + 1 \in Nat
      OBVIOUS
    <3>2. SubSeq(s, 1, k) \in Seq(Packets) /\ s[k + 1] \in Packets
      OBVIOUS
    <3>3. Framing!AllTokens(SubSeq(s, 1, k + 1))
            = Framing!AllTokens(SubSeq(s, 1, k)) \o Framing!Tokens(s[k + 1])
      BY <3>1, <3>2, AllTokensAppend
    <3>4. Framing!AllTokens(SubSeq(s, 1, k)) \in Seq(Bytes)
      BY <2>2
    <3>5. Framing!Tokens(s[k + 1]) \in Seq(Bytes)
      BY <3>2, TokensShape
    <3>6. Framing!AllTokens(SubSeq(s, 1, k + 1)) \in Seq(Bytes)
      BY <3>3, <3>4, <3>5, ConcatProperties
    <3> QED BY <3>1, <3>6
  <2>3. Len(s) \in Nat /\ SubSeq(s, 1, Len(s)) = s
    OBVIOUS
  <2> HIDE DEF P
  <2>4. Len(s) \in P
    BY <2>1, <2>2, <2>3, Upwards
  <2>5. Len(s) <= Len(s)
    BY <2>3
  <2>6. Framing!AllTokens(SubSeq(s, 1, Len(s))) \in Seq(Bytes)
    BY <2>4, <2>5, Zenon DEF P
  <2>7. SubSeq(s, 1, Len(s)) = s
    BY <2>3
  <2> QED BY <2>6, <2>7, Zenon
<1>2. Framing!AllTokens(ps \o qs) = Framing!AllTokens(ps) \o Framing!AllTokens(qs)
  <2> DEFINE P == {k \in Nat : k <= Len(qs) =>
                      Framing!AllTokens(ps \o SubSeq(qs, 1, k))
                        = Framing!AllTokens(ps) \o Framing!AllTokens(SubSeq(qs, 1, k))}
  <2>1. 0 \in P
    <3>1. SubSeq(qs, 1, 0) = <<>> /\ ps \o <<>> = ps
      OBVIOUS
    <3>2. Framing!AllTokens(<<>>) = <<>> /\ Framing!AllTokens(ps) \in Seq(Bytes)
      BY <1>1, AllTokensEmpty
    <3>3. Framing!AllTokens(ps) \o <<>> = Framing!AllTokens(ps)
      BY <3>2
    <3> QED BY <3>1, <3>2, <3>3
  <2>2. ASSUME NEW k \in 0..(Len(qs)-1), k \in P PROVE k + 1 \in P
    <3> DEFINE s == SubSeq(qs, 1, k)
               q == qs[k + 1]
               r == SubSeq(qs, 1, k + 1)
    <3>1. r = Append(s, q) /\ k + 1 \in Nat /\ s \in Seq(Packets) /\ q \in Packets
      OBVIOUS
    <3>0. Framing!AllTokens(ps \o s) = Framing!AllTokens(ps) \o Framing!AllTokens(s)
      BY <2>2
    <3> HIDE DEF s, q, r
    <3>2. ps \o r = Append(ps \o s, q) /\ ps \o s \in Seq(Packets)
      BY <3>1
    <3>3. /\ Framing!AllTokens(r) = Framing!AllTokens(s) \o Framing!Tokens(q)
          /\ Framing!AllTokens(ps \o r) = Framing!AllTokens(ps \o s) \o Framing!Tokens(q)
      BY <3>1, <3>2, AllTokensAppend
    <3>4. /\ Framing!AllTokens(ps) \in Seq(Bytes) /\ Framing!AllTokens(s) \in Seq(Bytes)
          /\ Framing!Tokens(q) \in Seq(Bytes)
      BY <1>1, <3>1, TokensShape
    <3>5. (Framing!AllTokens(ps) \o Framing!AllTokens(s)) \o Framing!Tokens(q)
            = Framing!AllTokens(ps) \o (Framing!AllTokens(s) \o Framing!Tokens(q))
      BY <3>4, ConcatAssociative
    <3>6. Framing!AllTokens(ps \o r) = Framing!AllTokens(ps) \o Framing!AllTokens(r)
      BY <3>0, <3>3, <3>5
    <3> QED BY <3>1, <3>6 DEF r
  <2>3. Len(qs) \in Nat /\ SubSeq(qs, 1, Len(qs)) = qs
    OBVIOUS
  <2> HIDE DEF P
  <2>4. Len(qs) \in P
    BY <2>1, <2>2, <2>3, Upwards
  <2>5. Len(qs) <= Len(qs)
    BY <2>3
  <2>6. Framing!AllTokens(ps \o SubSeq(qs, 1, Len(qs)))
          = Framing!AllTokens(ps) \o Framing!AllTokens(SubSeq(qs, 1, Len(qs)))
    BY <2>4, <2>5, Zenon DEF P
  <2>7. SubSeq(qs, 1, Len(qs)) = qs
    BY <2>3
  <2> QED BY <2>6, <2>7, Zenon
<1> QED BY <1>1, <1>2

LEMMA AllTokensOne ==
  ASSUME NEW p \in Packets
  PROVE  Framing!AllTokens(<<p>>) = Framing!Tokens(p)
<1>1. <<p>> = Append(<<>>, p) /\ <<>> \in Seq(Packets)
  OBVIOUS
<1>2. <<>> \o Framing!Tokens(p) = Framing!Tokens(p)
  BY TokensShape
<1> QED BY <1>1, <1>2, AllTokensAppend, AllTokensEmpty

LEMMA AllTokensFirst ==
  ASSUME NEW ps \in Seq(Packets), ps # <<>>
  PROVE  /\ Head(ps) \in Packets /\ Tail(ps) \in Seq(Packets)
         /\ Framing!AllTokens(ps) = Framing!Tokens(Head(ps)) \o Framing!AllTokens(Tail(ps))
<1>1. /\ Head(ps) \in Packets /\ Tail(ps) \in Seq(Packets)
      /\ ps = <<Head(ps)>> \o Tail(ps) /\ <<Head(ps)>> \in Seq(Packets)
  OBVIOUS
<1> QED BY <1>1, AllTokensConcat, AllTokensOne

\* Concatenation, under a name that the provers do not expand.
Cat(a, b) == a \o b

LEMMA Cats ==
  ASSUME NEW S, NEW a \in Seq(S), NEW b \in Seq(S), NEW c \in Seq(S)
  PROVE  /\ Cat(a, b) \in Seq(S) /\ Cat(b, c) \in Seq(S) /\ Cat(a, Cat(b, c)) \in Seq(S)
         /\ Cat(a, Cat(b, c)) = Cat(Cat(a, b), c)
BY DEF Cat

LEMMA CatEmpty ==
  ASSUME NEW S, NEW a \in Seq(S)
  PROVE  /\ Cat(a, <<>>) = a /\ Cat(<<>>, a) = a /\ <<>> \in Seq(S)
BY DEF Cat

LEMMA Shifted ==
  ASSUME NEW S, NEW a \in Seq(S), NEW b \in Seq(S), b # <<>>
  PROVE  /\ Cat(Append(a, Head(b)), Tail(b)) = Cat(a, b)
         /\ Append(a, Head(b)) \in Seq(S) /\ Tail(b) \in Seq(S)
BY DEF Cat

LEMMA CatAppend ==
  ASSUME NEW S, NEW a \in Seq(S), NEW b \in Seq(S), NEW x \in S
  PROVE  Append(Cat(a, b), x) = Cat(a, Append(b, x)) /\ Append(b, x) \in Seq(S)
BY DEF Cat

LEMMA CatTokens ==
  ASSUME NEW ps \in Seq(Packets), NEW qs \in Seq(Packets), NEW p \in Packets
  PROVE  /\ Framing!AllTokens(ps) \in Seq(Bytes) /\ Framing!Tokens(p) \in Seq(Bytes)
         /\ Framing!AllTokens(Cat(ps, qs)) = Cat(Framing!AllTokens(ps), Framing!AllTokens(qs))
         /\ Framing!AllTokens(Append(ps, p)) = Cat(Framing!AllTokens(ps), Framing!Tokens(p))
BY AllTokensConcat, AllTokensAppend, TokensShape DEF Cat

-----------------------------------------------------------------------------
(* Stream: the order of the headers                                          *)

\* The headers of a log are those of packets of `sent`, in their order.
Placed(log, sent, g) ==
  /\ g \in [DOMAIN log -> Int]
  /\ \A i \in DOMAIN log : log[i] \in Headers =>
       g[i] \in DOMAIN sent /\ log[i] = Framing!HeaderOf(sent[g[i]])
  /\ \A i, j \in DOMAIN log : (i < j /\ log[i] \in Headers /\ log[j] \in Headers) => g[i] < g[j]
Ordered(log, sent) == \E g : Placed(log, sent, g)

\* A log without some of its bytes.
LEMMA OrderedCut ==
  ASSUME NEW a \in Seq(Bytes), NEW b \in Seq(Bytes), NEW c \in Seq(Bytes), NEW sent,
         Ordered(Cat(Cat(a, b), c), sent)
  PROVE  Ordered(Cat(a, c), sent)
<1> DEFINE m == Len(a)
           k == Len(b)
           n == Len(c)
           l == a \o b \o c
           r == a \o c
           to(i) == IF i <= m THEN i ELSE i + k
<1>1. /\ m \in Nat /\ k \in Nat /\ n \in Nat
      /\ DOMAIN l = 1..(m + k + n) /\ DOMAIN r = 1..(m + n)
  OBVIOUS
<1>2. \A i \in 1..(m + n) : to(i) \in 1..(m + k + n) /\ r[i] = l[to(i)]
  <2> SUFFICES ASSUME NEW i \in 1..(m + n) PROVE to(i) \in 1..(m + k + n) /\ r[i] = l[to(i)]
    OBVIOUS
  <2>1. CASE i <= m
    BY <2>1, <1>1
  <2>2. CASE i > m
    <3>1. i + k \in 1..(m + k + n) /\ ~ (i + k <= m + k) /\ ~ (i <= m) /\ (i + k) - (m + k) = i - m
      BY <2>2, <1>1
    <3>2. a \o b \in Seq(Bytes) /\ Len(a \o b) = m + k
      OBVIOUS
    <3>3. l[i + k] = c[i - m]
      BY <3>1, <3>2, <1>1
    <3>4. r[i] = c[i - m]
      BY <3>1, <1>1
    <3> QED BY <3>1, <3>3, <3>4
  <2> QED BY <1>1, <2>1, <2>2
<1>3. \A i, j \in 1..(m + n) : i < j => to(i) < to(j)
  BY <1>1
<1> HIDE DEF l, r, to, m, n, k
<1>4. PICK g : Placed(l, sent, g)
  BY DEF Ordered, l, Cat
<1> DEFINE f == [i \in 1..(m + n) |-> g[to(i)]]
<1>5. f \in [DOMAIN r -> Int]
  BY <1>1, <1>2, <1>4 DEF Placed
<1>6. ASSUME NEW i \in DOMAIN r, r[i] \in Headers
      PROVE  f[i] \in DOMAIN sent /\ r[i] = Framing!HeaderOf(sent[f[i]])
  BY <1>1, <1>2, <1>4, <1>6 DEF Placed
<1>7. ASSUME NEW i \in DOMAIN r, NEW j \in DOMAIN r, i < j, r[i] \in Headers, r[j] \in Headers
      PROVE  f[i] < f[j]
  BY <1>1, <1>2, <1>3, <1>4, <1>7 DEF Placed
<1> HIDE DEF f
<1>8. Placed(r, sent, f)
  BY <1>5, <1>6, <1>7 DEF Placed
<1> QED BY <1>8 DEF Ordered, r, Cat

\* A log with one more packet.
LEMMA OrderedMore ==
  ASSUME NEW a \in Seq(Bytes), NEW sent \in Seq(Packets), NEW p \in Packets, Ordered(a, sent)
  PROVE  Ordered(Cat(a, Framing!Tokens(p)), Append(sent, p))
<1> DEFINE b == Framing!Tokens(p)
           m == Len(a)
           n == Len(b)
           r == a \o b
           more == Append(sent, p)
           s == Len(sent)
<1>1. /\ b \in Seq(Bytes) /\ n \in Nat /\ m \in Nat /\ s \in Nat
      /\ b[2] = Framing!HeaderOf(p) /\ \A i \in 1..n : b[i] \in Headers => i = 2
  <2>1. /\ b \in Seq(Bytes) /\ n = 2 + Len(p.payload) /\ Len(p.payload) \in Nat
        /\ b[1] = Magic /\ b[2] = Framing!HeaderOf(p)
        /\ \A i \in 1..Len(p.payload) : b[2 + i] \in {Magic, Data}
    BY TokensShape, HeadersOfPackets
  <2>2. Magic \notin Headers /\ Data \notin Headers
    BY HeadersOfPackets DEF Headers
  <2> HIDE DEF b, n
  <2>3. ASSUME NEW i \in 1..n, b[i] \in Headers PROVE i = 2
    <3>1. i # 1
      BY <2>1, <2>2, <2>3
    <3>2. ASSUME i > 2 PROVE FALSE
      <4>1. i - 2 \in 1..Len(p.payload) /\ 2 + (i - 2) = i
        BY <2>1, <3>2
      <4>2. b[i] \in {Magic, Data}
        BY <2>1, <4>1
      <4> QED BY <2>2, <2>3, <4>2
    <3> QED BY <2>1, <3>1, <3>2
  <2> QED BY <2>1, <2>3 DEF n
<1> HIDE DEF b
<1>2. /\ DOMAIN r = 1..(m + n) /\ DOMAIN a = 1..m
      /\ \A i \in 1..(m + n) : r[i] = IF i <= m THEN a[i] ELSE b[i - m]
  BY <1>1
<1>3. /\ DOMAIN sent = 1..s /\ DOMAIN more = 1..(s + 1) /\ more[s + 1] = p
      /\ \A i \in 1..s : more[i] = sent[i]
  BY <1>1
<1> HIDE DEF m, n, r, more, s
<1>4. PICK g : Placed(a, sent, g)
  BY DEF Ordered
<1> DEFINE f == [i \in 1..(m + n) |-> IF i <= m THEN g[i] ELSE s + 1]
<1>0. \A i \in 1..(m + n) : /\ i <= m => i \in 1..m /\ r[i] = a[i] /\ f[i] = g[i]
                            /\ ~ (i <= m) => i - m \in 1..n /\ r[i] = b[i - m] /\ f[i] = s + 1
  BY <1>1, <1>2
<1>5. f \in [DOMAIN r -> Int]
  BY <1>1, <1>2, <1>4 DEF Placed
<1> HIDE DEF f
<1>6. ASSUME NEW i \in 1..(m + n), r[i] \in Headers
      PROVE  /\ f[i] \in 1..(s + 1) /\ r[i] = Framing!HeaderOf(more[f[i]])
             /\ i <= m => f[i] \in 1..s
             /\ ~ (i <= m) => i - m = 2 /\ f[i] = s + 1
  <2>1. CASE i <= m
    <3>1. i \in DOMAIN a /\ a[i] \in Headers /\ f[i] = g[i] /\ r[i] = a[i]
      BY <1>0, <1>2, <1>6, <2>1
    <3>2. g[i] \in 1..s /\ a[i] = Framing!HeaderOf(sent[g[i]])
      BY <1>3, <1>4, <3>1 DEF Placed
    <3> QED BY <1>1, <1>3, <2>1, <3>1, <3>2
  <2>2. CASE ~ (i <= m)
    <3>1. i - m = 2 /\ f[i] = s + 1 /\ r[i] = b[i - m]
      BY <1>0, <1>1, <1>6, <2>2
    <3>2. r[i] = Framing!HeaderOf(p)
      BY <1>1, <3>1
    <3> QED BY <1>1, <1>3, <2>2, <3>1, <3>2
  <2> QED BY <2>1, <2>2
<1>7. ASSUME NEW i \in 1..(m + n), NEW j \in 1..(m + n), i < j, r[i] \in Headers, r[j] \in Headers
      PROVE  f[i] < f[j]
  <2>1. CASE j <= m
    <3>1. i \in DOMAIN a /\ j \in DOMAIN a /\ a[i] \in Headers /\ a[j] \in Headers
      BY <1>0, <1>1, <1>2, <1>7, <2>1
    <3>2. g[i] < g[j]
      BY <1>4, <1>7, <3>1 DEF Placed
    <3> QED BY <1>0, <1>1, <1>7, <2>1, <3>2
  <2>2. CASE ~ (j <= m) /\ i <= m
    <3>1. f[i] \in 1..s /\ f[j] = s + 1
      BY <1>6, <1>7, <2>2
    <3> QED BY <1>1, <3>1
  <2>3. CASE ~ (j <= m) /\ ~ (i <= m)
    <3>1. i - m = 2 /\ j - m = 2
      BY <1>6, <1>7, <2>3
    <3> QED BY <1>1, <1>7, <3>1
  <2> QED BY <2>1, <2>2, <2>3
<1>8. Placed(r, more, f)
  BY <1>2, <1>3, <1>5, <1>6, <1>7 DEF Placed
<1> QED BY <1>8 DEF Ordered, r, more, b, Cat

\* A log with more packets.
LEMMA OrderedMany ==
  ASSUME NEW a \in Seq(Bytes), NEW sent \in Seq(Packets), NEW ps \in Seq(Packets),
         Ordered(a, sent)
  PROVE  Ordered(Cat(a, Framing!AllTokens(ps)), Cat(sent, ps))
<1> DEFINE first(k) == SubSeq(ps, 1, k)
           P == {k \in Nat : k <= Len(ps) =>
                   Ordered(Cat(a, Framing!AllTokens(first(k))), Cat(sent, first(k)))}
<1>1. 0 \in P
  <2>1. first(0) = <<>>
    OBVIOUS
  <2> QED BY <2>1, AllTokensEmpty, CatEmpty
<1>2. ASSUME NEW k \in 0..(Len(ps)-1), k \in P PROVE k + 1 \in P
  <2> DEFINE s == first(k)
             q == ps[k + 1]
             r == first(k + 1)
             all == Framing!AllTokens(s)
             t == Framing!Tokens(q)
  <2>1. /\ r = Append(s, q) /\ k + 1 \in Nat /\ s \in Seq(Packets) /\ q \in Packets
    OBVIOUS
  <2>2. Ordered(Cat(a, all), Cat(sent, s))
    BY <1>2
  <2> HIDE DEF s, q, r, all, t
  <2>3. all \in Seq(Bytes) /\ t \in Seq(Bytes) /\ Framing!AllTokens(r) = Cat(all, t)
    BY <2>1, CatTokens DEF all, t
  <2>4. Cat(a, all) \in Seq(Bytes) /\ Cat(sent, s) \in Seq(Packets)
    BY <2>1, <2>3, Cats
  <2>5. Ordered(Cat(Cat(a, all), t), Append(Cat(sent, s), q))
    BY <2>1, <2>2, <2>4, OrderedMore DEF t
  <2>6. Cat(Cat(a, all), t) = Cat(a, Cat(all, t))
    BY <2>3, Cats
  <2>8. Append(Cat(sent, s), q) = Cat(sent, r)
    <3>1. s \in Seq(Packets) /\ q \in Packets
      BY <2>1
    <3>2. Append(Cat(sent, s), q) = Cat(sent, Append(s, q))
      BY <3>1, CatAppend
    <3> QED BY <2>1, <3>2
  <2>7. Ordered(Cat(a, Framing!AllTokens(r)), Cat(sent, r))
    BY <2>3, <2>5, <2>6, <2>8
  <2> QED BY <2>1, <2>7 DEF r
<1>3. Len(ps) \in Nat /\ first(Len(ps)) = ps
  OBVIOUS
<1> HIDE DEF P
<1>4. Len(ps) \in P
  BY <1>1, <1>2, <1>3, Upwards
<1> HIDE DEF first
<1>5. Len(ps) <= Len(ps)
  BY <1>3
<1>6. Ordered(Cat(a, Framing!AllTokens(first(Len(ps)))), Cat(sent, first(Len(ps))))
  BY <1>4, <1>5, Zenon DEF P
<1> QED BY <1>3, <1>6, Zenon

-----------------------------------------------------------------------------
(* Stream: the invariant                                                     *)

Pending == IF holder = None THEN <<>> ELSE rest[holder]
HeaderLog == [i \in DOMAIN handled |-> Framing!HeaderOf(handled[i])]
Parsing == IF phase = "payload" /\ header \in Headers THEN <<header>> ELSE <<>>
Prefix == IF phase = "payload" THEN <<Magic, header>> ELSE <<>>
Ahead == Cat(buffer, Cat(wire, Pending))
Log == Cat(Cat(HeaderLog, Parsing), Ahead)

\* What no write and no timeout has cut: the reader is in step with the writers.
Unhandled(ps) ==
  /\ ps \in Seq(Packets) /\ begun = Cat(handled, ps)
  /\ Cat(Prefix, Ahead) = Framing!AllTokens(ps)

StreamTypes ==
  /\ holder \in Threads \union {None}
  /\ rest \in [Threads -> Seq(Bytes)] /\ wire \in Seq(Bytes) /\ buffer \in Seq(Bytes)
  /\ begun \in Seq(Packets) /\ handled \in Seq(Packets) /\ Len(begun) <= MaxSent
  /\ phase \in {"header", "payload", "ended"} /\ open \in BOOLEAN
  /\ silent \in 0..Patience /\ (phase # "ended" => silent < Patience)
  /\ failures \in 0..MaxTimeouts /\ dropped \in Nat
  /\ phase = "header" => Len(buffer) <= 2
  /\ phase = "payload" => header.length \in Nat /\ Len(buffer) <= header.length
  /\ phase = "payload" => header.sum = <<Torn>> \/ header \in Headers
  /\ \A w \in Threads : w # holder => rest[w] = <<>>

StreamInv ==
  /\ StreamTypes
  /\ Ordered(Log, begun)
  /\ (failures = 0 /\ dropped = 0 /\ phase # "ended" /\ open) => \E ps : Unhandled(ps)

LEMMA LogTypes ==
  ASSUME StreamTypes
  PROVE  /\ Pending \in Seq(Bytes) /\ HeaderLog \in Seq(Bytes) /\ Parsing \in Seq(Bytes)
         /\ buffer \in Seq(Bytes) /\ wire \in Seq(Bytes)
         /\ Cat(HeaderLog, Parsing) \in Seq(Bytes) /\ Cat(wire, Pending) \in Seq(Bytes)
         /\ Ahead \in Seq(Bytes)
         /\ begun \in Seq(Packets) /\ handled \in Seq(Packets)
<1>1. Pending \in Seq(Bytes)
  BY DEF StreamTypes, Pending
<1>2. HeaderLog \in Seq(Bytes)
  <2>1. \A i \in DOMAIN handled : Framing!HeaderOf(handled[i]) \in Bytes
    BY HeadersOfPackets DEF StreamTypes, Bytes
  <2>2. DOMAIN handled = 1..Len(handled) /\ Len(handled) \in Nat
    BY DEF StreamTypes
  <2> QED BY <2>1, <2>2 DEF HeaderLog
<1>3. Parsing \in Seq(Bytes)
  <2>1. header \in Headers => <<header>> \in Seq(Bytes)
    BY DEF Bytes
  <2>2. <<>> \in Seq(Bytes)
    OBVIOUS
  <2> QED BY <2>1, <2>2 DEF Parsing
<1>4. /\ buffer \in Seq(Bytes) /\ wire \in Seq(Bytes)
      /\ begun \in Seq(Packets) /\ handled \in Seq(Packets)
  BY DEF StreamTypes
<1>5. /\ Cat(wire, Pending) \in Seq(Bytes) /\ Cat(HeaderLog, Parsing) \in Seq(Bytes)
      /\ Cat(buffer, Cat(wire, Pending)) \in Seq(Bytes)
  BY <1>1, <1>2, <1>3, <1>4, Cats
<1> QED BY <1>1, <1>2, <1>3, <1>4, <1>5 DEF Ahead

\* The same with a header that was made up: its bytes are then not those of a
\* packet.
LEMMA PrefixTypes ==
  ASSUME StreamTypes
  PROVE  \E S : /\ Prefix \in Seq(S) /\ buffer \in Seq(S) /\ wire \in Seq(S)
                /\ Pending \in Seq(S) /\ Ahead \in Seq(S) /\ Seq(Bytes) \subseteq Seq(S)
<1> DEFINE S == Bytes \union {header}
<1>1. Seq(Bytes) \subseteq Seq(S)
  OBVIOUS
<1>2. Prefix \in Seq(S)
  <2>1. Magic \in S /\ header \in S
    BY DEF Bytes
  <2> HIDE DEF S
  <2>2. <<Magic, header>> \in Seq(S) /\ <<>> \in Seq(S)
    BY <2>1
  <2> QED BY <2>2 DEF Prefix
<1> HIDE DEF S
<1> QED BY <1>1, <1>2, LogTypes

\* A read that forgets what it has read.
LEMMA Forgotten ==
  ASSUME StreamInv, HeaderLog' = HeaderLog, Parsing' = <<>>, buffer' = <<>>,
         wire' = wire, Pending' = Pending, begun' = begun
  PROVE  Ordered(Log', begun')
<1> DEFINE W == Cat(wire, Pending)
<1>1. /\ HeaderLog \in Seq(Bytes) /\ Parsing \in Seq(Bytes) /\ buffer \in Seq(Bytes)
      /\ W \in Seq(Bytes)
  BY LogTypes DEF StreamInv
<1>2. /\ Log = Cat(Cat(HeaderLog, Parsing), Cat(buffer, W))
      /\ Log' = Cat(Cat(HeaderLog, <<>>), Cat(<<>>, W))
  BY DEF Log, Ahead
<1> HIDE DEF W
<1>3. Log' = Cat(HeaderLog, W)
  BY <1>1, <1>2, CatEmpty
<1>4. Log = Cat(Cat(HeaderLog, Cat(Parsing, buffer)), W)
  <2>1. Cat(Cat(HeaderLog, Parsing), Cat(buffer, W)) = Cat(Cat(Cat(HeaderLog, Parsing), buffer), W)
    BY <1>1, Cats
  <2>2. Cat(Cat(HeaderLog, Parsing), buffer) = Cat(HeaderLog, Cat(Parsing, buffer))
    BY <1>1, Cats
  <2> QED BY <1>2, <2>1, <2>2
<1>5. Cat(Parsing, buffer) \in Seq(Bytes)
  BY <1>1, Cats
<1> QED BY <1>1, <1>3, <1>4, <1>5, OrderedCut DEF StreamInv

LEMMA StreamStart ==
  ASSUME Framing!Init PROVE StreamInv
<1>0. Framing!StreamAssumption
  BY NetworkAssumption DEF NetworkAssumption
<1>1. /\ holder = None /\ rest = [w \in Threads |-> <<>>] /\ wire = <<>> /\ open = TRUE
      /\ phase = "header" /\ buffer = <<>> /\ silent = 0 /\ begun = <<>> /\ failures = 0
      /\ dropped = 0 /\ handled = <<>>
  BY DEF Framing!Init
<1>2. StreamTypes
  BY <1>0, <1>1 DEF StreamTypes, Framing!StreamAssumption
<1>3. Log = <<>>
  <2>1. Pending = <<>> /\ HeaderLog = <<>> /\ Parsing = <<>>
    BY <1>1 DEF Pending, HeaderLog, Parsing
  <2>2. Cat(<<>>, <<>>) = <<>>
    BY DEF Cat
  <2> QED BY <1>1, <2>1, <2>2 DEF Log, Ahead
<1>4. Ordered(Log, begun)
  <2> DEFINE g == [i \in {} |-> 0]
  <2>1. DOMAIN Log = {} /\ g \in [{} -> Int]
    BY <1>3
  <2>2. Placed(Log, begun, g)
    BY <2>1 DEF Placed
  <2> QED BY <2>2 DEF Ordered
<1>5. Unhandled(<<>>)
  <2>1. Prefix = <<>> /\ Pending = <<>> /\ Cat(<<>>, <<>>) = <<>>
    BY <1>1 DEF Prefix, Pending, Cat
  <2>2. Cat(Prefix, Ahead) = <<>>
    BY <1>1, <2>1 DEF Ahead
  <2>3. <<>> \in Seq(Packets) /\ begun = Cat(handled, <<>>)
    BY <1>1, <2>1
  <2> QED BY <2>2, <2>3, AllTokensEmpty DEF Unhandled
<1> QED BY <1>2, <1>4, <1>5 DEF StreamInv

LEMMA StreamBegins ==
  ASSUME StreamInv, NEW w \in Threads, NEW ps \in Seq(Packets), ps # <<>>,
         Framing!Begin(w, ps)
  PROVE  StreamInv'
<1>1. /\ open /\ holder = None /\ Len(begun) + Len(ps) <= MaxSent /\ holder' = w
      /\ rest' = [rest EXCEPT ![w] = Framing!AllTokens(ps)] /\ begun' = begun \o ps
      /\ UNCHANGED <<wire, open, failures, phase, buffer, header, silent, established, dropped,
                     handled>>
  BY DEF Framing!Begin, Framing!LockFree, Framing!readerVars
<1>2. None \notin Threads
  BY NetworkAssumption DEF NetworkAssumption, Framing!StreamAssumption
<1>3. Framing!AllTokens(ps) \in Seq(Bytes)
  BY AllTokensConcat
<1>4. rest'[w] = Framing!AllTokens(ps) /\ \A u \in Threads \ {w} : rest'[u] = <<>>
  BY <1>1, <1>2 DEF StreamInv, StreamTypes
<1>5. Pending = <<>> /\ Pending' = Framing!AllTokens(ps)
  BY <1>1, <1>2, <1>4 DEF Pending
<1>6. StreamTypes'
  <2>1. begun' \in Seq(Packets) /\ Len(begun') <= MaxSent
    BY <1>1 DEF StreamInv, StreamTypes
  <2>2. rest' \in [Threads -> Seq(Bytes)]
    BY <1>1, <1>3 DEF StreamInv, StreamTypes
  <2> QED BY <1>1, <1>4, <2>1, <2>2 DEF StreamInv, StreamTypes
<1>7. Ahead' = Cat(Ahead, Framing!AllTokens(ps))
  <2>1. Ahead = Cat(buffer, wire)
    <3>1. Cat(wire, <<>>) = wire
      BY LogTypes, CatEmpty DEF StreamInv
    <3> QED BY <1>5, <3>1 DEF Ahead
  <2>2. Ahead' = Cat(buffer, Cat(wire, Framing!AllTokens(ps)))
    BY <1>1, <1>5 DEF Ahead
  <2>3. buffer \in Seq(Bytes) /\ wire \in Seq(Bytes)
    BY LogTypes DEF StreamInv
  <2> QED BY <1>3, <2>1, <2>2, <2>3, Cats
<1>8. Ordered(Log', begun')
  <2> DEFINE a == Cat(HeaderLog, Parsing)
             t == Framing!AllTokens(ps)
  <2>1. a \in Seq(Bytes) /\ Ahead \in Seq(Bytes) /\ t \in Seq(Bytes) /\ begun \in Seq(Packets)
    BY <1>3, LogTypes DEF StreamInv
  <2>2. Log = Cat(a, Ahead) /\ Log' = Cat(a, Cat(Ahead, t))
    BY <1>1, <1>7 DEF Log, HeaderLog, Parsing
  <2> HIDE DEF a
  <2>3. Log \in Seq(Bytes) /\ Log' = Cat(Log, t)
    BY <2>1, <2>2, Cats
  <2>4. Ordered(Log, begun)
    BY DEF StreamInv
  <2>5. begun' = Cat(begun, ps)
    BY <1>1 DEF Cat
  <2> QED BY <2>1, <2>3, <2>4, <2>5, OrderedMany
<1>9. ASSUME (failures = 0 /\ dropped = 0 /\ phase # "ended" /\ open)'
      PROVE  \E qs : Unhandled(qs)'
  <2>1. PICK qs : Unhandled(qs)
    BY <1>1, <1>9 DEF StreamInv
  <2>2. qs \in Seq(Packets) /\ begun = Cat(handled, qs) /\ handled \in Seq(Packets)
    BY <2>1, LogTypes DEF Unhandled, StreamInv
  <2>3. Cat(qs, ps) \in Seq(Packets) /\ begun' = Cat(handled, Cat(qs, ps))
    <3>1. begun' = Cat(begun, ps)
      BY <1>1 DEF Cat
    <3> QED BY <2>2, <3>1, Cats
  <2>4. Cat(Prefix, Cat(Ahead, Framing!AllTokens(ps)))
          = Cat(Cat(Prefix, Ahead), Framing!AllTokens(ps))
    <3>1. PICK S : Prefix \in Seq(S) /\ Ahead \in Seq(S) /\ Seq(Bytes) \subseteq Seq(S)
      BY PrefixTypes DEF StreamInv
    <3>2. Framing!AllTokens(ps) \in Seq(S)
      BY <1>3, <3>1
    <3> QED BY <3>1, <3>2, Cats
  <2>5. Framing!AllTokens(Cat(qs, ps)) = Cat(Framing!AllTokens(qs), Framing!AllTokens(ps))
    BY <2>2, CatTokens, AllTokensConcat DEF Cat
  <2>6. Prefix' = Prefix
    BY <1>1 DEF Prefix
  <2>7. Cat(Prefix, Ahead)' = Framing!AllTokens(Cat(qs, ps))
    BY <1>7, <2>1, <2>4, <2>5, <2>6 DEF Unhandled
  <2>8. Unhandled(Cat(qs, ps))'
    BY <1>1, <2>3, <2>7 DEF Unhandled
  <2> QED BY <2>8
<1> QED BY <1>6, <1>8, <1>9 DEF StreamInv

LEMMA StreamWrites ==
  ASSUME StreamInv, NEW w \in Threads, Framing!Write(w)
  PROVE  StreamInv'
<1>1. /\ rest[w] # <<>> /\ wire' = Append(wire, Head(rest[w]))
      /\ rest' = [rest EXCEPT ![w] = Tail(@)]
      /\ holder' = IF rest'[w] = <<>> THEN None ELSE holder
      /\ UNCHANGED <<open, begun, failures, phase, buffer, header, silent, established, dropped,
                     handled>>
  BY DEF Framing!Write, Framing!readerVars
<1>2. None \notin Threads
  BY NetworkAssumption DEF NetworkAssumption, Framing!StreamAssumption
<1>3. w = holder /\ rest[w] \in Seq(Bytes) /\ wire \in Seq(Bytes) /\ Pending = rest[w]
  BY <1>1, <1>2 DEF StreamInv, StreamTypes, Pending
<1>4. /\ Cat(wire', Tail(rest[w])) = Cat(wire, rest[w])
      /\ wire' \in Seq(Bytes) /\ Tail(rest[w]) \in Seq(Bytes)
  BY <1>1, <1>3, Shifted
<1>5. rest'[w] = Tail(rest[w]) /\ \A u \in Threads \ {w} : rest'[u] = <<>>
  BY <1>1, <1>3 DEF StreamInv, StreamTypes
<1>6. Pending' = Tail(rest[w])
  BY <1>1, <1>2, <1>3, <1>5 DEF Pending
<1>7. Ahead' = Ahead
  BY <1>1, <1>3, <1>4, <1>6 DEF Ahead
<1>8. StreamTypes'
  <2>1. rest' \in [Threads -> Seq(Bytes)]
    BY <1>1, <1>4 DEF StreamInv, StreamTypes
  <2>2. \A u \in Threads : u # holder' => rest'[u] = <<>>
    BY <1>1, <1>3, <1>5
  <2>3. holder' \in Threads \union {None}
    BY <1>1, <1>3
  <2> QED BY <1>1, <1>4, <2>1, <2>2, <2>3 DEF StreamInv, StreamTypes
<1>9. Log' = Log
  BY <1>1, <1>7 DEF Log, HeaderLog, Parsing
<1>10. \A ps : Unhandled(ps) => Unhandled(ps)'
  <2>1. Prefix' = Prefix
    BY <1>1 DEF Prefix
  <2> QED BY <1>1, <1>7, <2>1 DEF Unhandled
<1> QED BY <1>1, <1>8, <1>9, <1>10 DEF StreamInv

LEMMA StreamWriteFails ==
  ASSUME StreamInv, NEW w \in Threads, Framing!WriteFails(w)
  PROVE  StreamInv'
<1>1. /\ rest[w] # <<>> /\ rest' = [rest EXCEPT ![w] = <<>>] /\ holder' = None
      /\ \/ failures < MaxTimeouts /\ failures' = failures + 1
         \/ (~ open \/ phase = "ended") /\ failures' = failures
      /\ UNCHANGED <<wire, open, begun, phase, buffer, header, silent, established, dropped,
                     handled>>
  BY DEF Framing!WriteFails, Framing!readerVars
<1>2. None \notin Threads /\ MaxTimeouts \in Nat
  BY NetworkAssumption DEF NetworkAssumption, Framing!StreamAssumption
<1>3. w = holder /\ Pending = rest[w]
  BY <1>1, <1>2 DEF StreamInv, StreamTypes, Pending
<1>4. \A u \in Threads : rest'[u] = <<>>
  BY <1>1, <1>3 DEF StreamInv, StreamTypes
<1>5. Pending' = <<>>
  BY <1>1 DEF Pending
<1>6. StreamTypes'
  <2>1. failures' \in 0..MaxTimeouts
    BY <1>1, <1>2 DEF StreamInv, StreamTypes
  <2>2. rest' \in [Threads -> Seq(Bytes)]
    BY <1>1 DEF StreamInv, StreamTypes
  <2> QED BY <1>1, <1>4, <2>1, <2>2 DEF StreamInv, StreamTypes
<1>7. Ordered(Log', begun')
  <2> DEFINE h == Cat(HeaderLog, Parsing)
  <2>1. /\ h \in Seq(Bytes) /\ buffer \in Seq(Bytes) /\ wire \in Seq(Bytes)
        /\ Pending \in Seq(Bytes) /\ Cat(buffer, wire) \in Seq(Bytes)
    BY LogTypes, Cats DEF StreamInv
  <2>2. /\ Log = Cat(h, Cat(buffer, Cat(wire, Pending)))
        /\ Log' = Cat(h, Cat(buffer, Cat(wire, <<>>)))
    BY <1>1, <1>5 DEF Log, Ahead, HeaderLog, Parsing
  <2> HIDE DEF h
  <2>3. Log' = Cat(h, Cat(buffer, wire))
    BY <2>1, <2>2, CatEmpty
  <2>4. Log = Cat(Cat(h, Cat(buffer, wire)), Pending)
    <3>1. Cat(buffer, Cat(wire, Pending)) = Cat(Cat(buffer, wire), Pending)
      BY <2>1, Cats
    <3>2. Cat(h, Cat(Cat(buffer, wire), Pending)) = Cat(Cat(h, Cat(buffer, wire)), Pending)
      BY <2>1, Cats
    <3> QED BY <2>2, <3>1, <3>2
  <2>5. Log' \in Seq(Bytes)
    BY <2>1, <2>3, Cats
  <2>6. /\ <<>> \in Seq(Bytes) /\ Cat(Log', <<>>) = Log'
        /\ Cat(Cat(Log', Pending), <<>>) = Cat(Log', Pending)
    BY <2>1, <2>5, CatEmpty, Cats
  <2>7. Ordered(Cat(Cat(Log', Pending), <<>>), begun)
    BY <2>3, <2>4, <2>6 DEF StreamInv
  <2> QED BY <1>1, <2>1, <2>5, <2>6, <2>7, OrderedCut
<1>8. ~ (failures = 0 /\ dropped = 0 /\ phase # "ended" /\ open)'
  BY <1>1 DEF StreamInv, StreamTypes
<1> QED BY <1>6, <1>7, <1>8 DEF StreamInv

LEMMA CatElements ==
  ASSUME NEW S, NEW a \in Seq(S), NEW b \in Seq(S)
  PROVE  Len(Cat(a, b)) = Len(a) + Len(b) /\ \A i \in 1..Len(a) : Cat(a, b)[i] = a[i]
BY DEF Cat

LEMMA PairOf ==
  ASSUME NEW S, NEW a \in Seq(S), Len(a) = 2
  PROVE  a[1] \in S /\ a[2] \in S /\ a = <<a[1], a[2]>>
<1>1. a[1] \in S /\ a[2] \in S /\ DOMAIN a = 1..2
  OBVIOUS
<1> DEFINE b == <<a[1], a[2]>>
<1>2. b \in Seq(S) /\ Len(b) = 2 /\ b[1] = a[1] /\ b[2] = a[2]
  BY <1>1
<1> HIDE DEF b
<1>3. \A i \in 1..2 : a[i] = b[i]
  BY <1>2
<1>4. a = b
  BY <1>2, <1>3
<1> QED BY <1>1, <1>4 DEF b

\* Equal concatenations of which the first parts are equally long.
LEMMA CatSplit ==
  ASSUME NEW S, NEW a \in Seq(S), NEW b \in Seq(S), NEW c \in Seq(S), NEW d \in Seq(S),
         Cat(a, b) = Cat(c, d), Len(a) = Len(c)
  PROVE  a = c /\ b = d
<1>1. Len(a) + Len(b) = Len(c) + Len(d) /\ Len(b) = Len(d)
  <2>1. Len(Cat(a, b)) = Len(a) + Len(b) /\ Len(Cat(c, d)) = Len(c) + Len(d)
    BY CatElements
  <2> QED BY <2>1
<1>2. a = c
  <2>1. \A i \in 1..Len(a) : a[i] = c[i]
    BY CatElements
  <2> QED BY <2>1
<1>3. \A i \in 1..Len(b) : b[i] = d[i]
  <2> SUFFICES ASSUME NEW i \in 1..Len(b) PROVE b[i] = d[i]
    OBVIOUS
  <2>1. Cat(a, b)[Len(a) + i] = b[i]
    BY DEF Cat
  <2>2. Cat(c, d)[Len(c) + i] = d[i]
    <3>1. i \in 1..Len(d)
      BY <1>1
    <3> QED BY <3>1 DEF Cat
  <2> QED BY <2>1, <2>2
<1>4. b = d
  BY <1>1, <1>3
<1> QED BY <1>2, <1>4

\* The first packet of those the reader has not handled.
LEMMA FirstUnhandled ==
  ASSUME NEW ps \in Seq(Packets), NEW S, NEW x \in Seq(S), NEW y \in Seq(S), Len(x) = 2,
         Cat(x, y) = Framing!AllTokens(ps)
  PROVE  /\ ps # <<>> /\ Head(ps) \in Packets /\ Tail(ps) \in Seq(Packets)
         /\ Framing!AllTokens(ps) = Cat(Framing!Tokens(Head(ps)), Framing!AllTokens(Tail(ps)))
         /\ x[2] = Framing!HeaderOf(Head(ps))
<1>1. Cat(x, y)[2] = x[2] /\ Cat(x, y) # <<>>
  <2>1. /\ Len(Cat(x, y)) = 2 + Len(y)
        /\ \A i \in 1..Len(x) : Cat(x, y)[i] = x[i]
    <3>1. /\ Len(Cat(x, y)) = Len(x) + Len(y)
          /\ \A i \in 1..Len(x) : Cat(x, y)[i] = x[i]
      BY CatElements
    <3> QED BY <3>1
  <2>2. Len(y) \in Nat
    OBVIOUS
  <2> QED BY <2>1, <2>2
<1>2. ps # <<>>
  BY <1>1, AllTokensEmpty
<1>3. /\ Head(ps) \in Packets /\ Tail(ps) \in Seq(Packets)
      /\ Framing!AllTokens(ps) = Cat(Framing!Tokens(Head(ps)), Framing!AllTokens(Tail(ps)))
  BY <1>2, AllTokensFirst DEF Cat
<1> DEFINE t == Framing!Tokens(Head(ps))
           r == Framing!AllTokens(Tail(ps))
<1>4. t \in Seq(Bytes) /\ r \in Seq(Bytes) /\ Len(t) >= 2 /\ t[2] = Framing!HeaderOf(Head(ps))
  <2>1. r \in Seq(Bytes)
    BY <1>3, AllTokensConcat
  <2>2. /\ t \in Seq(Bytes) /\ Len(t) = 2 + Len(Head(ps).payload)
        /\ t[2] = Framing!HeaderOf(Head(ps))
    BY <1>3, TokensShape
  <2>3. Len(Head(ps).payload) \in Nat
    BY <1>3, HeadersOfPackets
  <2> QED BY <2>1, <2>2, <2>3
<1> HIDE DEF t, r
<1>5. Cat(t, r)[2] = t[2]
  <2>1. \A i \in 1..Len(t) : Cat(t, r)[i] = t[i]
    BY <1>4, CatElements
  <2>2. 2 \in 1..Len(t)
    BY <1>4
  <2> QED BY <2>1, <2>2
<1> QED BY <1>1, <1>2, <1>3, <1>4, <1>5 DEF t, r

LEMMA StreamReceives ==
  ASSUME StreamInv, Framing!Receive PROVE StreamInv'
<1>1. /\ phase # "ended" /\ Len(buffer) < Framing!Wanted /\ wire # <<>>
      /\ buffer' = Append(buffer, Head(wire)) /\ wire' = Tail(wire)
      /\ UNCHANGED <<phase, header, silent, established, dropped, handled, holder, rest, open,
                     begun, failures>>
  BY DEF Framing!Receive, Framing!Reading, Framing!writerVars
<1>2. /\ buffer \in Seq(Bytes) /\ wire \in Seq(Bytes) /\ Pending \in Seq(Bytes)
  BY LogTypes DEF StreamInv
<1>3. buffer' \in Seq(Bytes) /\ wire' \in Seq(Bytes) /\ Cat(buffer', wire') = Cat(buffer, wire)
  BY <1>1, <1>2, Shifted
<1>4. Ahead' = Ahead
  <2>1. Pending' = Pending
    BY <1>1 DEF Pending
  <2>2. /\ Cat(buffer', Cat(wire', Pending)) = Cat(Cat(buffer', wire'), Pending)
        /\ Cat(buffer, Cat(wire, Pending)) = Cat(Cat(buffer, wire), Pending)
    BY <1>2, <1>3, Cats
  <2> QED BY <1>3, <2>1, <2>2 DEF Ahead
<1>5. StreamTypes'
  <2>1. Len(buffer') = Len(buffer) + 1 /\ Len(buffer) \in Nat
    BY <1>1, <1>2
  <2>2. phase = "header" => Len(buffer') <= 2
    BY <1>1, <2>1 DEF Framing!Wanted
  <2>3. phase = "payload" => Len(buffer') <= header.length
    BY <1>1, <2>1 DEF Framing!Wanted, StreamInv, StreamTypes
  <2> QED BY <1>1, <1>3, <2>2, <2>3 DEF StreamInv, StreamTypes
<1>6. Log' = Log
  BY <1>1, <1>4 DEF Log, HeaderLog, Parsing
<1>7. \A ps : Unhandled(ps) => Unhandled(ps)'
  <2>1. Prefix' = Prefix
    BY <1>1 DEF Prefix
  <2> QED BY <1>1, <1>4, <2>1 DEF Unhandled
<1> QED BY <1>1, <1>5, <1>6, <1>7 DEF StreamInv

\* What ends the reading leaves nothing to be checked but the order.
LEMMA StreamEnds ==
  ASSUME StreamInv, Framing!End, silent' \in 0..Patience, dropped' \in Nat,
         UNCHANGED <<wire, header, established, handled, holder, rest, open, begun, failures>>
  PROVE  StreamInv'
<1>1. phase' = "ended" /\ buffer' = <<>>
  BY DEF Framing!End
<1>2. StreamTypes'
  BY <1>1 DEF StreamInv, StreamTypes
<1>3. Ordered(Log', begun')
  <2>1. HeaderLog' = HeaderLog /\ Parsing' = <<>> /\ Pending' = Pending
    BY <1>1 DEF HeaderLog, Parsing, Pending
  <2> QED BY <1>1, <2>1, Forgotten
<1> QED BY <1>1, <1>2, <1>3 DEF StreamInv

LEMMA StreamHeader ==
  ASSUME StreamInv, Framing!ReadHeader PROVE StreamInv'
<1>1. /\ phase = "header" /\ Len(buffer) = 2
      /\ UNCHANGED <<wire, established, dropped, handled, holder, rest, open, begun, failures>>
  BY DEF Framing!ReadHeader, Framing!Wanted, Framing!writerVars
<1>2. \/ Framing!End /\ UNCHANGED <<header, silent>>
      \/ \E h \in Framing!Parsed(buffer[2]) :
           /\ buffer[1] = Magic /\ ~ (h.length > MaxLength)
           /\ header' = h /\ phase' = "payload" /\ buffer' = <<>> /\ silent' = 0
  BY DEF Framing!ReadHeader
<1>3. CASE Framing!End /\ UNCHANGED <<header, silent>>
  <2>1. silent' \in 0..Patience /\ dropped' \in Nat
    BY <1>1, <1>3 DEF StreamInv, StreamTypes
  <2> QED BY <1>1, <1>3, <2>1, StreamEnds
<1>4. ASSUME NEW h \in Framing!Parsed(buffer[2]), buffer[1] = Magic,
             header' = h, phase' = "payload", buffer' = <<>>, silent' = 0
      PROVE  StreamInv'
  <2>1. /\ buffer \in Seq(Bytes) /\ buffer = <<buffer[1], buffer[2]>> /\ buffer[2] \in Bytes
        /\ wire \in Seq(Bytes) /\ Pending \in Seq(Bytes) /\ Cat(wire, Pending) \in Seq(Bytes)
    <3>1. buffer \in Seq(Bytes)
      BY LogTypes DEF StreamInv
    <3>2. buffer = <<buffer[1], buffer[2]>> /\ buffer[2] \in Bytes
      BY <1>1, <3>1, PairOf
    <3> QED BY <3>1, <3>2, LogTypes DEF StreamInv
  <2>2. \/ buffer[2] \in {Magic, Data} /\ h.sum = <<Torn>> /\ h.length \in Nat /\ h \notin Headers
        \/ buffer[2] \in Headers /\ h = buffer[2] /\ h.length \in Nat
    <3>1. CASE buffer[2] \in {Magic, Data}
      <4>1. h \in [command : {"none"}, length : 0..(MaxLength + 1), sum : {<<Torn>>}]
        BY <3>1 DEF Framing!Parsed
      <4>2. h.sum = <<Torn>> /\ h.length \in Nat
        BY <4>1
      <4>3. ASSUME NEW p \in Packets PROVE h # Framing!HeaderOf(p)
        <5>1. Framing!HeaderOf(p).sum \in Seq({Magic, Data})
          BY HeadersOfPackets
        <5>2. Torn \notin {Magic, Data}
          BY NetworkAssumption DEF NetworkAssumption, Framing!StreamAssumption
        <5>3. <<Torn>> \notin Seq({Magic, Data})
          BY <5>2
        <5> QED BY <4>2, <5>1, <5>3
      <4> QED BY <3>1, <4>2, <4>3 DEF Headers
    <3>2. CASE buffer[2] \notin {Magic, Data}
      <4>1. h = buffer[2]
        BY <3>2 DEF Framing!Parsed
      <4>2. buffer[2] \in Headers
        BY <2>1, <3>2 DEF Bytes
      <4>3. PICK p \in Packets : h = Framing!HeaderOf(p)
        BY <4>1, <4>2 DEF Headers
      <4>4. h.length \in Nat
        BY <4>3, HeadersOfPackets
      <4> QED BY <4>1, <4>2, <4>4
    <3> QED BY <3>1, <3>2
  <2>3. StreamTypes'
    <3>1. <<>> \in Seq(Bytes) /\ Len(<<>>) = 0
      OBVIOUS
    <3>2. 0 \in 0..Patience /\ 0 < Patience
      BY NetworkAssumption DEF NetworkAssumption, Framing!StreamAssumption
    <3> QED BY <1>1, <1>4, <2>2, <3>1, <3>2 DEF StreamInv, StreamTypes
  <2>4. HeaderLog' = HeaderLog /\ Pending' = Pending /\ Parsing = <<>> /\ Prefix = <<>>
    BY <1>1 DEF HeaderLog, Pending, Parsing, Prefix
  <2>5. Ordered(Log', begun')
    <3>1. CASE h \notin Headers
      <4>1. Parsing' = <<>>
        BY <1>4, <3>1 DEF Parsing
      <4> QED BY <1>1, <1>4, <2>4, <4>1, Forgotten
    <3>2. CASE h \in Headers
      <4> DEFINE W == Cat(wire, Pending)
                 m == <<buffer[1]>>
                 t == <<h>>
      <4>1. h = buffer[2] /\ Parsing' = <<h>>
        <5>1. h = buffer[2]
          BY <2>2, <3>2
        <5> QED BY <1>4, <3>2, <5>1 DEF Parsing
      <4>2. buffer = Cat(m, t)
        BY <2>1, <4>1 DEF Cat
      <4>3. /\ m \in Seq(Bytes) /\ t \in Seq(Bytes) /\ W \in Seq(Bytes) /\ HeaderLog \in Seq(Bytes)
        <5>1. buffer[1] \in Bytes /\ h \in Bytes
          BY <1>4, <3>2 DEF Bytes
        <5> QED BY <2>1, <5>1, LogTypes DEF StreamInv
      <4>4. /\ Log = Cat(Cat(HeaderLog, <<>>), Cat(Cat(m, t), W))
            /\ Log' = Cat(Cat(HeaderLog, t), Cat(<<>>, W))
        BY <1>1, <1>4, <2>4, <4>1, <4>2 DEF Log, Ahead
      <4> HIDE DEF W, m, t
      <4>5. Log = Cat(HeaderLog, Cat(Cat(m, t), W)) /\ Log' = Cat(Cat(HeaderLog, t), W)
        BY <4>3, <4>4, CatEmpty
      <4>6. Log' = Cat(HeaderLog, Cat(t, W))
        BY <4>3, <4>5, Cats
      <4>7. Log = Cat(Cat(HeaderLog, m), Cat(t, W))
        <5>1. Cat(Cat(m, t), W) = Cat(m, Cat(t, W)) /\ Cat(t, W) \in Seq(Bytes)
          BY <4>3, Cats
        <5> QED BY <4>3, <4>5, <5>1, Cats
      <4>8. Cat(t, W) \in Seq(Bytes)
        BY <4>3, Cats
      <4>9. Ordered(Cat(HeaderLog, Cat(t, W)), begun)
        BY <4>3, <4>7, <4>8, OrderedCut DEF StreamInv
      <4> QED BY <1>1, <4>6, <4>9
    <3> QED BY <3>1, <3>2
  <2>6. ASSUME NEW ps, Unhandled(ps) PROVE Unhandled(ps)'
    <3> DEFINE W == Cat(wire, Pending)
    <3>1. ps \in Seq(Packets) /\ Cat(buffer, W) = Framing!AllTokens(ps)
      <4>1. Ahead = Cat(buffer, W) /\ Ahead \in Seq(Bytes)
        BY LogTypes DEF Ahead, StreamInv
      <4>2. Cat(Prefix, Ahead) = Ahead
        BY <2>4, <4>1, CatEmpty
      <4> QED BY <2>6, <4>1, <4>2 DEF Unhandled
    <3> HIDE DEF W
    <3>2. W \in Seq(Bytes)
      BY <2>1 DEF W
    <3>5. Head(ps) \in Packets /\ buffer[2] = Framing!HeaderOf(Head(ps))
      BY <1>1, <2>1, <3>1, <3>2, FirstUnhandled
    <3>7. h = buffer[2]
      BY <2>2, <3>5, HeadersOfPackets
    <3>8. Prefix' = buffer
      BY <1>4, <2>1, <3>7 DEF Prefix
    <3>9. Ahead' = W
      <4>1. Cat(<<>>, W) = W
        BY <3>2, CatEmpty
      <4> QED BY <1>1, <1>4, <2>4, <4>1 DEF Ahead, W
    <3> QED BY <1>1, <2>6, <3>1, <3>8, <3>9 DEF Unhandled
  <2>7. (failures = 0 /\ dropped = 0 /\ phase # "ended" /\ open)' => \E ps : Unhandled(ps)'
    BY <1>1, <2>6 DEF StreamInv
  <2> QED BY <2>3, <2>5, <2>7 DEF StreamInv
<1> QED BY <1>2, <1>3, <1>4

\* A packet is its header and its payload.
LEMMA TokensCut ==
  ASSUME NEW p \in Packets
  PROVE  /\ Framing!Tokens(p) = Cat(<<Magic, Framing!HeaderOf(p)>>, p.payload)
         /\ <<Magic, Framing!HeaderOf(p)>> \in Seq(Bytes) /\ p.payload \in Seq(Bytes)
         /\ Len(<<Magic, Framing!HeaderOf(p)>>) = 2
<1>1. Framing!HeaderOf(p) \in Bytes /\ Magic \in Bytes
  BY HeadersOfPackets DEF Bytes
<1>2. <<Magic, Framing!HeaderOf(p)>> \in Seq(Bytes) /\ Len(<<Magic, Framing!HeaderOf(p)>>) = 2
  BY <1>1
<1>3. p.payload \in Seq(Bytes)
  <2> DEFINE d == p.payload
  <2>1. d \in Seq({Magic, Data}) /\ {Magic, Data} \subseteq Bytes
    BY HeadersOfPackets DEF Bytes
  <2> HIDE DEF d
  <2>2. d \in Seq(Bytes)
    BY <2>1
  <2> QED BY <2>2 DEF d
<1> QED BY <1>2, <1>3 DEF Framing!Tokens, Cat

\* Only a packet's payload fits the checksum.
LEMMA SumFitsPacket ==
  ASSUME StreamTypes, phase = "payload", Framing!SumFits
  PROVE  \E p \in Packets : /\ header = Framing!HeaderOf(p)
                            /\ [command |-> header.command, payload |-> buffer] = p
<1>1. Torn \notin Bytes
  BY HeadersOfPackets, NetworkAssumption
     DEF Bytes, Headers, NetworkAssumption, Framing!StreamAssumption
<1>2. buffer # <<Torn>>
  <2>1. buffer \in Seq(Bytes)
    BY DEF StreamTypes
  <2>2. <<Torn>> \notin Seq(Bytes)
    BY <1>1
  <2> QED BY <2>1, <2>2
<1>3. header \in Headers
  BY <1>2 DEF StreamTypes, Framing!SumFits
<1>4. PICK p \in Packets : header = Framing!HeaderOf(p)
  BY <1>3 DEF Headers
<1>5. /\ header.command = p.command /\ header.sum = p.payload
      /\ p = [command |-> p.command, payload |-> p.payload]
  BY <1>4, HeadersOfPackets
<1> QED BY <1>4, <1>5 DEF Framing!SumFits

LEMMA StreamPayload ==
  ASSUME StreamInv, Framing!ReadPayload PROVE StreamInv'
<1> DEFINE W == Cat(wire, Pending)
           record == [command |-> header.command, payload |-> buffer]
<1>1. /\ phase = "payload" /\ Len(buffer) = header.length
      /\ handled' = IF Framing!SumFits THEN Append(handled, record) ELSE handled
      /\ phase' = "header" /\ buffer' = <<>>
      /\ UNCHANGED <<wire, silent, dropped, holder, rest, open, begun, failures>>
  BY DEF Framing!ReadPayload, Framing!Wanted, Framing!writerVars
<1>2. /\ buffer \in Seq(Bytes) /\ W \in Seq(Bytes) /\ HeaderLog \in Seq(Bytes)
      /\ handled \in Seq(Packets) /\ begun \in Seq(Packets) /\ <<>> \in Seq(Bytes)
  BY LogTypes DEF StreamInv
<1>3. Parsing' = <<>> /\ Pending' = Pending /\ Prefix' = <<>>
  BY <1>1 DEF Parsing, Pending, Prefix
<1>4. W' = W /\ Ahead = Cat(buffer, W) /\ Ahead' = W
  <2>1. Ahead = Cat(buffer, W) /\ Ahead' = Cat(<<>>, W) /\ W' = W
    BY <1>1, <1>3 DEF Ahead
  <2>2. Cat(<<>>, W) = W
    BY <1>2, CatEmpty
  <2> QED BY <2>1, <2>2
<1> HIDE DEF W
<1>5. handled' \in Seq(Packets)
  <2>1. CASE Framing!SumFits
    <3>1. record \in Packets
      BY <1>1, <2>1, SumFitsPacket DEF StreamInv
    <3> HIDE DEF record
    <3> QED BY <1>1, <1>2, <2>1, <3>1
  <2>2. CASE ~ Framing!SumFits
    BY <1>1, <1>2, <2>2
  <2> QED BY <2>1, <2>2
<1>6. StreamTypes'
  <2>1. <<>> \in Seq(Bytes) /\ Len(<<>>) = 0
    OBVIOUS
  <2> QED BY <1>1, <1>5, <2>1 DEF StreamInv, StreamTypes
<1>7. Ordered(Log', begun')
  <2>1. CASE Framing!SumFits
    <3>1. PICK p \in Packets : header = Framing!HeaderOf(p) /\ record = p
      BY <1>1, <2>1, SumFitsPacket DEF StreamInv
    <3>2. handled' = Append(handled, p)
      BY <1>1, <2>1, <3>1
    <3>3. header \in Headers /\ <<header>> \in Seq(Bytes)
      <4>1. header \in Headers /\ header \in Bytes
        BY <3>1, HeadersOfPackets DEF Bytes
      <4> QED BY <4>1
    <3>4. Parsing = <<header>>
      BY <1>1, <3>3 DEF Parsing
    <3>5. HeaderLog' = Cat(HeaderLog, <<header>>)
      <4>1. HeaderLog' = Append(HeaderLog, header)
        BY <1>2, <3>1, <3>2 DEF HeaderLog
      <4> QED BY <1>2, <3>3, <4>1 DEF Cat
    <3> DEFINE a == Cat(HeaderLog, <<header>>)
    <3>6. /\ Log = Cat(a, Cat(buffer, W)) /\ Log' = Cat(Cat(a, <<>>), W)
      BY <1>3, <1>4, <3>4, <3>5 DEF Log
    <3>7. a \in Seq(Bytes)
      BY <1>2, <3>3, Cats
    <3> HIDE DEF a
    <3>8. Log' = Cat(a, W) /\ Log = Cat(Cat(a, buffer), W)
      BY <1>2, <3>6, <3>7, CatEmpty, Cats
    <3> QED BY <1>1, <1>2, <3>7, <3>8, OrderedCut DEF StreamInv
  <2>2. CASE ~ Framing!SumFits
    <3>1. handled' = handled
      BY <1>1, <2>2
    <3>2. HeaderLog' = HeaderLog
      BY <3>1 DEF HeaderLog
    <3> QED BY <1>1, <1>3, <3>2, Forgotten
  <2> QED BY <2>1, <2>2
<1>8. ASSUME NEW ps, Unhandled(ps) PROVE Unhandled(Tail(ps))'
  <2> DEFINE q == Head(ps)
             qs == Tail(ps)
  <2>1. /\ ps \in Seq(Packets) /\ begun = Cat(handled, ps)
        /\ Cat(<<Magic, header>>, Cat(buffer, W)) = Framing!AllTokens(ps)
    BY <1>1, <1>4, <1>8 DEF Unhandled, Prefix
  <2>2. PICK S : <<Magic, header>> \in Seq(S) /\ Seq(Bytes) \subseteq Seq(S)
    BY <1>1, PrefixTypes DEF StreamInv, Prefix
  <2>3. /\ buffer \in Seq(S) /\ W \in Seq(S) /\ Cat(buffer, W) \in Seq(S)
    <3>1. buffer \in Seq(S) /\ W \in Seq(S)
      BY <1>2, <2>2
    <3> QED BY <3>1, Cats
  <2>4. Len(<<Magic, header>>) = 2 /\ <<Magic, header>>[2] = header
    OBVIOUS
  <2>5. /\ ps # <<>> /\ q \in Packets /\ qs \in Seq(Packets)
        /\ Framing!AllTokens(ps) = Cat(Framing!Tokens(q), Framing!AllTokens(qs))
        /\ <<Magic, header>>[2] = Framing!HeaderOf(q)
    <3> DEFINE x == <<Magic, header>>
               y == Cat(buffer, W)
    <3>1. x \in Seq(S) /\ y \in Seq(S) /\ Len(x) = 2 /\ Cat(x, y) = Framing!AllTokens(ps)
      BY <2>1, <2>2, <2>3, <2>4
    <3> HIDE DEF x, y
    <3>2. /\ ps # <<>> /\ q \in Packets /\ qs \in Seq(Packets)
          /\ Framing!AllTokens(ps) = Cat(Framing!Tokens(q), Framing!AllTokens(qs))
          /\ x[2] = Framing!HeaderOf(q)
      BY <2>1, <3>1, FirstUnhandled
    <3> QED BY <3>2 DEF x
  <2>6. begun = Cat(Append(handled, q), qs)
    BY <1>2, <2>1, <2>5, Shifted
  <2> HIDE DEF q, qs
  <2>7. header = Framing!HeaderOf(q)
    BY <2>4, <2>5
  <2>8. buffer = q.payload /\ W = Framing!AllTokens(qs)
    <3> DEFINE x == <<Magic, header>>
               d == q.payload
               r == Framing!AllTokens(qs)
    <3>1. /\ x \in Seq(Bytes) /\ d \in Seq(Bytes) /\ Framing!Tokens(q) = Cat(x, d)
      BY <2>5, <2>7, TokensCut
    <3>2. Len(d) = Len(buffer)
      BY <1>1, <2>5, <2>7, HeadersOfPackets
    <3>3. r \in Seq(Bytes)
      BY <2>5, AllTokensConcat
    <3>4. Cat(x, Cat(buffer, W)) = Cat(Cat(x, d), r)
      BY <2>1, <2>5, <3>1
    <3> HIDE DEF x, d, r
    <3>5. Cat(x, Cat(buffer, W)) = Cat(Cat(x, buffer), W) /\ Cat(x, buffer) \in Seq(Bytes)
      BY <1>2, <3>1, Cats
    <3>6. Cat(x, d) \in Seq(Bytes)
      BY <3>1, Cats
    <3>7. Len(Cat(x, buffer)) = Len(Cat(x, d))
      <4>1. Len(Cat(x, buffer)) = Len(x) + Len(buffer)
        BY <1>2, <3>1, CatElements
      <4>2. Len(Cat(x, d)) = Len(x) + Len(d)
        BY <3>1, CatElements
      <4> QED BY <3>2, <4>1, <4>2
    <3>8. Cat(x, buffer) = Cat(x, d) /\ W = r
      <4>1. Cat(Cat(x, buffer), W) = Cat(Cat(x, d), r)
        BY <3>4, <3>5
      <4> QED BY <1>2, <3>3, <3>5, <3>6, <3>7, <4>1, CatSplit
    <3>9. buffer = d
      <4>1. Len(x) = Len(x)
        OBVIOUS
      <4> QED BY <1>2, <3>1, <3>8, <4>1, CatSplit
    <3> QED BY <3>8, <3>9 DEF d, r
  <2>9. Framing!SumFits /\ record = q
    BY <2>5, <2>7, <2>8, HeadersOfPackets DEF Framing!SumFits
  <2>10. handled' = Append(handled, q)
    BY <1>1, <2>9
  <2>11. Cat(Prefix', Ahead') = Framing!AllTokens(qs)
    BY <1>2, <1>3, <1>4, <2>8, CatEmpty
  <2> QED BY <1>1, <2>5, <2>6, <2>10, <2>11 DEF Unhandled, qs
<1>9. (failures = 0 /\ dropped = 0 /\ phase # "ended" /\ open)' => \E ps : Unhandled(ps)'
  BY <1>1, <1>8 DEF StreamInv
<1> QED BY <1>6, <1>7, <1>9 DEF StreamInv

LEMMA StreamTimesOut ==
  ASSUME StreamInv, Framing!TimesOut PROVE StreamInv'
<1>1. /\ phase # "ended" /\ silent \in 0..Patience /\ silent < Patience /\ dropped \in Nat
      /\ buffer \in Seq(Bytes) /\ Len(buffer) \in Nat /\ Patience \in Nat
      /\ UNCHANGED <<wire, header, established, handled, holder, rest, open, begun, failures>>
  <2>1. phase # "ended" /\ buffer \in Seq(Bytes)
    BY DEF Framing!TimesOut, Framing!Reading, StreamInv, StreamTypes
  <2>2. Len(buffer) \in Nat
    BY <2>1
  <2>3. Patience \in Nat
    BY NetworkAssumption DEF NetworkAssumption, Framing!StreamAssumption
  <2> QED BY <2>1, <2>2, <2>3
         DEF Framing!TimesOut, Framing!writerVars, StreamInv, StreamTypes
<1>2. \/ /\ Framing!End
         /\ silent' \in {silent, silent + 1} /\ dropped' \in {dropped, dropped + Len(buffer)}
      \/ /\ phase = "header" /\ silent' = silent + 1 /\ ~ (silent' >= Patience)
         /\ dropped' = dropped + Len(buffer) /\ buffer' = <<>> /\ phase' = phase
  BY DEF Framing!TimesOut
<1>3. silent' \in 0..Patience /\ dropped' \in Nat
  BY <1>1, <1>2
<1>4. CASE Framing!End
  BY <1>1, <1>3, <1>4, StreamEnds
<1>5. CASE /\ phase = "header" /\ silent' = silent + 1 /\ ~ (silent' >= Patience)
           /\ dropped' = dropped + Len(buffer) /\ buffer' = <<>> /\ phase' = phase
  <2>1. <<>> \in Seq(Bytes) /\ Len(<<>>) = 0
    OBVIOUS
  <2>2. silent' < Patience
    BY <1>1, <1>3, <1>5
  <2>3. StreamTypes'
    BY <1>1, <1>3, <1>5, <2>1, <2>2 DEF StreamInv, StreamTypes
  <2>4. /\ HeaderLog' = HeaderLog /\ Parsing' = <<>> /\ Pending' = Pending /\ Prefix' = Prefix
    BY <1>1, <1>5 DEF HeaderLog, Parsing, Pending, Prefix
  <2>5. Ordered(Log', begun')
    BY <1>1, <1>5, <2>4, Forgotten
  <2>6. ASSUME (failures = 0 /\ dropped = 0 /\ phase # "ended" /\ open)'
        PROVE  \E ps : Unhandled(ps)'
    <3>1. dropped = 0 /\ Len(buffer) = 0
      BY <1>1, <1>5, <2>6
    <3>2. buffer' = buffer
      BY <1>1, <1>5, <3>1
    <3>3. PICK ps : Unhandled(ps)
      BY <1>1, <1>5, <2>6, <3>1 DEF StreamInv
    <3>4. Ahead' = Ahead
      BY <1>1, <2>4, <3>2 DEF Ahead
    <3> QED BY <1>1, <2>4, <3>3, <3>4 DEF Unhandled
  <2> QED BY <2>3, <2>5, <2>6 DEF StreamInv
<1> QED BY <1>2, <1>4, <1>5

LEMMA StreamCloses ==
  ASSUME StreamInv, Framing!Close \/ Framing!HandshakeEnds \/ Framing!Closed
  PROVE  StreamInv'
<1>1. CASE Framing!Close
  <2>1. /\ open' = FALSE
        /\ UNCHANGED <<holder, rest, wire, begun, failures, phase, buffer, header, silent,
                       established, dropped, handled>>
    BY <1>1 DEF Framing!Close, Framing!readerVars
  <2>2. StreamTypes'
    BY <2>1 DEF StreamInv, StreamTypes
  <2>3. Log' = Log
    BY <2>1 DEF Log, HeaderLog, Parsing, Ahead, Pending
  <2> QED BY <2>1, <2>2, <2>3 DEF StreamInv
<1>2. CASE Framing!HandshakeEnds \/ Framing!Closed
  <2>1. /\ Framing!End
        /\ UNCHANGED <<wire, header, silent, established, dropped, handled, holder, rest, open,
                       begun, failures>>
    BY <1>2 DEF Framing!HandshakeEnds, Framing!Closed, Framing!writerVars
  <2>2. silent' \in 0..Patience /\ dropped' \in Nat
    BY <2>1 DEF StreamInv, StreamTypes
  <2> QED BY <2>1, <2>2, StreamEnds
<1> QED BY <1>1, <1>2

LEMMA StreamSteps ==
  ASSUME StreamInv, Framing!Next PROVE StreamInv'
<1>1. ASSUME NEW w \in Threads, NEW p \in Packets, Framing!Begin(w, <<p>>) PROVE StreamInv'
  <2>1. <<p>> \in Seq(Packets) /\ <<p>> # <<>>
    OBVIOUS
  <2> QED BY <1>1, <2>1, StreamBegins
<1>2. ASSUME NEW w \in Threads, NEW p \in Packets, NEW q \in Packets, Framing!Begin(w, <<p, q>>)
      PROVE  StreamInv'
  <2>1. <<p, q>> \in Seq(Packets) /\ <<p, q>> # <<>>
    OBVIOUS
  <2> QED BY <1>2, <2>1, StreamBegins
<1>3. ASSUME NEW w \in Threads, Framing!Write(w) \/ Framing!WriteFails(w) PROVE StreamInv'
  BY <1>3, StreamWrites, StreamWriteFails
<1>4. CASE Framing!Receive
  BY <1>4, StreamReceives
<1>5. CASE Framing!ReadHeader
  BY <1>5, StreamHeader
<1>6. CASE Framing!ReadPayload
  BY <1>6, StreamPayload
<1>7. CASE Framing!TimesOut
  BY <1>7, StreamTimesOut
<1>8. CASE Framing!Close \/ Framing!HandshakeEnds \/ Framing!Closed
  BY <1>8, StreamCloses
<1> QED BY <1>1, <1>2, <1>3, <1>4, <1>5, <1>6, <1>7, <1>8 DEF Framing!Next

LEMMA StreamUnchanged ==
  ASSUME StreamInv, UNCHANGED Framing!vars PROVE StreamInv'
<1>1. UNCHANGED <<holder, rest, wire, open, phase, buffer, header, silent, established, begun,
                  failures, dropped, handled>>
  BY DEF Framing!vars
<1>2. StreamTypes'
  BY <1>1 DEF StreamInv, StreamTypes
<1>3. Log' = Log /\ Ahead' = Ahead /\ Prefix' = Prefix
  BY <1>1 DEF Log, HeaderLog, Parsing, Ahead, Pending, Prefix
<1>4. \A ps : Unhandled(ps) => Unhandled(ps)'
  BY <1>1, <1>3 DEF Unhandled
<1> QED BY <1>1, <1>2, <1>3, <1>4 DEF StreamInv

-----------------------------------------------------------------------------
(* What the invariant says of the packets                                    *)

\* Two packets of one header are one.
LEMMA HeaderTells ==
  ASSUME NEW p \in Packets, NEW q \in Packets, Framing!HeaderOf(p) = Framing!HeaderOf(q)
  PROVE  p = q
BY HeadersOfPackets

LEMMA StreamOrder ==
  ASSUME StreamInv PROVE Framing!OnlySentHandled
<1> DEFINE n == Len(handled)
           log == Cat(HeaderLog, Cat(Parsing, Ahead))
<1>1. PICK g : Placed(Log, begun, g)
  BY DEF StreamInv, Ordered
<1>2. /\ HeaderLog \in Seq(Bytes) /\ Parsing \in Seq(Bytes) /\ Ahead \in Seq(Bytes)
      /\ begun \in Seq(Packets) /\ handled \in Seq(Packets)
  BY LogTypes DEF StreamInv
<1>3. n \in Nat /\ DOMAIN handled = 1..n /\ Len(HeaderLog) = n
  BY <1>2 DEF HeaderLog
<1> HIDE DEF n
<1>4. \A i \in 1..n : i \in DOMAIN Log /\ Log[i] = Framing!HeaderOf(handled[i])
  <2> DEFINE r == Cat(Parsing, Ahead)
  <2>1. r \in Seq(Bytes) /\ Log = Cat(HeaderLog, r) /\ Log \in Seq(Bytes)
    BY <1>2, Cats DEF Log
  <2> HIDE DEF r
  <2>2. Len(Log) = n + Len(r) /\ \A i \in 1..n : Log[i] = HeaderLog[i]
    BY <1>2, <1>3, <2>1, CatElements
  <2>3. DOMAIN Log = 1..Len(Log) /\ Len(r) \in Nat
    BY <2>1
  <2>4. \A i \in 1..n : HeaderLog[i] = Framing!HeaderOf(handled[i])
    BY <1>3 DEF HeaderLog
  <2> QED BY <1>3, <2>2, <2>3, <2>4
<1>5. \A i \in 1..n : handled[i] \in Packets /\ Log[i] \in Headers
  BY <1>2, <1>3, <1>4 DEF Headers
<1>6. ASSUME NEW i \in 1..n PROVE g[i] \in DOMAIN begun /\ handled[i] = begun[g[i]]
  <2>1. g[i] \in DOMAIN begun /\ Framing!HeaderOf(handled[i]) = Framing!HeaderOf(begun[g[i]])
    BY <1>1, <1>4, <1>5 DEF Placed
  <2>2. begun[g[i]] \in Packets
    BY <1>2, <2>1
  <2> QED BY <1>5, <2>1, <2>2, HeaderTells
<1>7. \A i, j \in 1..n : i < j => g[i] < g[j]
  BY <1>1, <1>4, <1>5 DEF Placed
<1> DEFINE at == [i \in 1..n |-> g[i]]
<1>8. at \in [DOMAIN handled -> DOMAIN begun]
  BY <1>3, <1>6
<1>9. \A i \in DOMAIN handled : handled[i] = begun[at[i]]
  BY <1>3, <1>6
<1>10. \A i, j \in DOMAIN handled : i < j => at[i] < at[j]
  BY <1>3, <1>7
<1> HIDE DEF at
<1> QED BY <1>8, <1>9, <1>10 DEF Framing!OnlySentHandled

LEMMA StreamWhole ==
  ASSUME StreamInv PROVE Framing!NothingSkipped
<1> SUFFICES ASSUME failures = 0, dropped = 0, phase # "ended", open
             PROVE  Framing!AllTokens(handled) \o Framing!Consumed \o wire
                      \o (IF holder = None THEN <<>> ELSE rest[holder]) = Framing!AllTokens(begun)
  BY DEF Framing!NothingSkipped
<1>1. PICK ps : Unhandled(ps)
  BY DEF StreamInv
<1>2. /\ ps \in Seq(Packets) /\ begun = Cat(handled, ps) /\ handled \in Seq(Packets)
      /\ Cat(Prefix, Ahead) = Framing!AllTokens(ps)
  BY <1>1, LogTypes DEF Unhandled, StreamInv
<1>3. PICK S : /\ Prefix \in Seq(S) /\ buffer \in Seq(S) /\ wire \in Seq(S)
               /\ Pending \in Seq(S) /\ Ahead \in Seq(S) /\ Seq(Bytes) \subseteq Seq(S)
  BY PrefixTypes DEF StreamInv
<1> DEFINE t == Framing!AllTokens(handled)
           c == Framing!Consumed
<1>4. Framing!AllTokens(begun) = Cat(t, Cat(Prefix, Ahead)) /\ t \in Seq(Bytes)
  BY <1>2, AllTokensConcat DEF Cat
<1>5. t \in Seq(S)
  BY <1>3, <1>4
<1>6. c = Cat(Prefix, buffer)
  BY DEF Framing!Consumed, Prefix, Cat
<1> HIDE DEF t, c
<1>7. c \in Seq(S) /\ Cat(wire, Pending) \in Seq(S)
  BY <1>3, <1>6, Cats
<1>8. Cat(Prefix, Ahead) = Cat(c, Cat(wire, Pending))
  <2>1. Cat(Prefix, Cat(buffer, Cat(wire, Pending))) = Cat(Cat(Prefix, buffer), Cat(wire, Pending))
    BY <1>3, <1>7, Cats
  <2> QED BY <1>6, <2>1 DEF Ahead
<1>9. /\ Cat(t, Cat(c, Cat(wire, Pending))) = Cat(Cat(t, c), Cat(wire, Pending))
      /\ Cat(t, c) \in Seq(S)
  BY <1>5, <1>7, Cats
<1>10. Cat(Cat(t, c), Cat(wire, Pending)) = Cat(Cat(Cat(t, c), wire), Pending)
  BY <1>3, <1>9, Cats
<1>11. Framing!AllTokens(begun) = Cat(Cat(Cat(t, c), wire), Pending)
  BY <1>4, <1>8, <1>9, <1>10
<1> QED BY <1>11 DEF Cat, Pending, t, c

LEMMA StreamImplies ==
  ASSUME StreamInv PROVE Framing!TypeOK /\ Framing!FramesKept
<1>1. Framing!TypeOK
  BY DEF StreamInv, StreamTypes, Framing!TypeOK, Framing!Wanted
<1> QED BY <1>1, StreamOrder, StreamWhole DEF Framing!FramesKept

-----------------------------------------------------------------------------
(* Serving: sequences                                                        *)

LEMMA BoundedRam ==
  ASSUME NEW S, NEW n \in Nat, NEW s
  PROVE  s \in Sharing!BoundedSeq(S, n) <=> s \in Seq(S) /\ Len(s) <= n
<1>1. ASSUME s \in Sharing!BoundedSeq(S, n) PROVE s \in Seq(S) /\ Len(s) <= n
  <2>1. PICK m \in 0..n : s \in [1..m -> S]
    BY <1>1 DEF Sharing!BoundedSeq, Sharing!SeqOf
  <2> QED BY <2>1
<1>2. ASSUME s \in Seq(S), Len(s) <= n PROVE s \in Sharing!BoundedSeq(S, n)
  <2>1. Len(s) \in 0..n /\ s \in [1..Len(s) -> S]
    BY <1>2
  <2> QED BY <2>1 DEF Sharing!BoundedSeq, Sharing!SeqOf
<1> QED BY <1>1, <1>2

LEMMA Concatenated ==
  ASSUME NEW S, NEW a \in Seq(S), NEW b \in Seq(S)
  PROVE  /\ a \o b \in Seq(S) /\ Len(a \o b) = Len(a) + Len(b)
         /\ \A k \in 1..(Len(a) + Len(b)) :
              (a \o b)[k] = IF k <= Len(a) THEN a[k] ELSE b[k - Len(a)]
OBVIOUS

LEMMA Removed ==
  ASSUME NEW S, NEW s \in Seq(S), NEW i \in 1..Len(s)
  PROVE  LET r == Sharing!RemoveAt(s, i) IN
         /\ r \in Seq(S) /\ Len(r) = Len(s) - 1
         /\ \A k \in 1..(Len(s) - 1) : r[k] = IF k < i THEN s[k] ELSE s[k + 1]
<1> DEFINE a == SubSeq(s, 1, i - 1)
           b == SubSeq(s, i + 1, Len(s))
<1>1. a \in Seq(S) /\ Len(a) = i - 1 /\ \A k \in 1..(i - 1) : a[k] = s[k]
  OBVIOUS
<1>2. b \in Seq(S) /\ Len(b) = Len(s) - i /\ \A k \in 1..(Len(s) - i) : b[k] = s[i + k]
  OBVIOUS
<1>3. Sharing!RemoveAt(s, i) = a \o b
  BY DEF Sharing!RemoveAt
<1> HIDE DEF a, b
<1>4. a \o b \in Seq(S) /\ Len(a \o b) = Len(a) + Len(b)
  BY <1>1, <1>2, Concatenated
<1>5. \A k \in 1..(Len(a) + Len(b)) : (a \o b)[k] = IF k <= Len(a) THEN a[k] ELSE b[k - Len(a)]
  BY <1>1, <1>2, Concatenated
<1>6. Len(a) + Len(b) = Len(s) - 1 /\ i \in Nat /\ Len(s) \in Nat
  BY <1>1, <1>2
<1>7. ASSUME NEW k \in 1..(Len(s) - 1)
      PROVE  (a \o b)[k] = IF k < i THEN s[k] ELSE s[k + 1]
  <2>1. CASE k < i
    <3>1. k \in 1..(i - 1) /\ k <= Len(a)
      BY <1>1, <1>6, <2>1
    <3> QED BY <1>1, <1>5, <1>6, <2>1, <3>1
  <2>2. CASE ~ (k < i)
    <3>1. /\ k - Len(a) \in 1..(Len(s) - i) /\ ~ (k <= Len(a))
          /\ i + (k - Len(a)) = k + 1
      BY <1>1, <1>6, <2>2
    <3> QED BY <1>2, <1>5, <1>6, <2>2, <3>1
  <2> QED BY <2>1, <2>2
<1> DEFINE r == a \o b
<1>8. r \in Seq(S) /\ Len(r) = Len(s) - 1
  BY <1>4, <1>6
<1>9. \A k \in 1..(Len(s) - 1) : r[k] = IF k < i THEN s[k] ELSE s[k + 1]
  BY <1>7
<1>10. Sharing!RemoveAt(s, i) = r
  BY <1>3
<1> HIDE DEF r
<1> QED BY <1>8, <1>9, <1>10

LEMMA Appended ==
  ASSUME NEW S, NEW s \in Seq(S), NEW e \in S
  PROVE  /\ Append(s, e) \in Seq(S) /\ Len(Append(s, e)) = Len(s) + 1
         /\ Append(s, e)[Len(s) + 1] = e
         /\ \A i \in 1..Len(s) : Append(s, e)[i] = s[i]
OBVIOUS

LEMMA TailOf ==
  ASSUME NEW S, NEW s \in Seq(S), Len(s) > 0
  PROVE  /\ Tail(s) \in Seq(S) /\ Len(Tail(s)) = Len(s) - 1
         /\ Head(s) = s[1]
         /\ \A i \in 1..(Len(s) - 1) : Tail(s)[i] = s[i + 1]
OBVIOUS

-----------------------------------------------------------------------------
(* The memory of objects                                                     *)

Distinct(s) == \A i, j \in 1..Len(s) : s[i] = s[j] => i = j
Memory == ram \in Seq(Objs) /\ Len(ram) <= RamMax /\ Distinct(ram)

LEMMA CachedIs ==
  ASSUME Memory
  PROVE  Sharing!Cached = {ram[i] : i \in 1..Len(ram)} /\ Sharing!Cached \subseteq Objs
BY DEF Memory, Sharing!Cached, Sharing!ToSet

\* An object that is put at the end of a sequence without it, and what is
\* there afterwards.
LEMMA PutLast ==
  ASSUME NEW s \in Seq(Objs), Distinct(s), NEW h \in Objs, \A i \in 1..Len(s) : s[i] # h
  PROVE  LET q == Append(s, h) IN
         /\ q \in Seq(Objs) /\ Len(q) = Len(s) + 1 /\ Distinct(q)
         /\ {q[i] : i \in 1..Len(q)} = {s[i] : i \in 1..Len(s)} \union {h}
<1> DEFINE q == Append(s, h)
<1>1. /\ q \in Seq(Objs) /\ Len(q) = Len(s) + 1 /\ q[Len(s) + 1] = h
      /\ \A i \in 1..Len(s) : q[i] = s[i]
  BY Appended
<1> HIDE DEF q
<1>2. Len(s) \in Nat
  OBVIOUS
<1>3. Distinct(q)
  BY <1>1, <1>2 DEF Distinct
<1>4. {q[i] : i \in 1..Len(q)} = {s[i] : i \in 1..Len(s)} \union {h}
  <2>1. ASSUME NEW i \in 1..Len(q) PROVE q[i] \in {s[j] : j \in 1..Len(s)} \union {h}
    BY <1>1, <1>2
  <2>2. \A i \in 1..Len(s) : i \in 1..Len(q) /\ q[i] = s[i]
    BY <1>1, <1>2
  <2>3. Len(s) + 1 \in 1..Len(q)
    BY <1>1, <1>2
  <2> QED BY <1>1, <2>1, <2>2, <2>3
<1> QED BY <1>1, <1>3, <1>4 DEF q

\* store_object and _store_announce_blob keep the memory within its limit; a
\* new object displaces the oldest one only.
LEMMA StoredIs ==
  ASSUME Memory, RamMax \in Nat \ {0}, NEW h \in Objs, ram' = Sharing!Stored(h)
  PROVE  /\ Memory'
         /\ Sharing!Cached' =
              (IF h \notin Sharing!Cached /\ Len(ram) = RamMax
               THEN Sharing!Cached \ {Head(ram)} ELSE Sharing!Cached) \union {h}
<1> DEFINE C == {ram[i] : i \in 1..Len(ram)}
<1>1. /\ ram \in Seq(Objs) /\ Len(ram) \in Nat /\ Len(ram) <= RamMax
      /\ \A i, j \in 1..Len(ram) : ram[i] = ram[j] => i = j
  BY DEF Memory, Distinct
<1>2. Sharing!Cached = C /\ DOMAIN ram = 1..Len(ram)
  BY CachedIs, <1>1
<1>3. Memory' => Sharing!Cached' = {ram'[i] : i \in 1..Len(ram')}
  BY DEF Memory, Sharing!Cached, Sharing!ToSet
<1>4. CASE h \in C
  <2> DEFINE k == CHOOSE i \in DOMAIN ram : ram[i] = h
             r == Sharing!RemoveAt(ram, k)
  <2>1. k \in 1..Len(ram) /\ ram[k] = h
    BY <1>2, <1>4
  <2>2. ram' = Append(r, h)
    BY <1>2, <1>4 DEF Sharing!Stored
  <2> HIDE DEF k
  <2>3. /\ r \in Seq(Objs) /\ Len(r) = Len(ram) - 1
        /\ \A i \in 1..(Len(ram) - 1) : r[i] = IF i < k THEN ram[i] ELSE ram[i + 1]
    BY <2>1, <1>1, Removed
  <2> HIDE DEF r
  <2>4. Distinct(r) /\ \A i \in 1..Len(r) : r[i] # h
    <3> DEFINE at == [i \in 1..Len(r) |-> IF i < k THEN i ELSE i + 1]
    <3>1. \A i \in 1..Len(r) : at[i] \in 1..Len(ram) /\ at[i] # k /\ r[i] = ram[at[i]]
      BY <1>1, <2>1, <2>3
    <3>2. \A i, j \in 1..Len(r) : at[i] = at[j] => i = j
      BY <1>1, <2>1, <2>3
    <3> HIDE DEF at
    <3>3. ASSUME NEW i \in 1..Len(r), NEW j \in 1..Len(r), r[i] = r[j] PROVE i = j
      <4>1. ram[at[i]] = ram[at[j]]
        BY <3>1, <3>3
      <4>2. at[i] = at[j]
        BY <1>1, <3>1, <4>1
      <4> QED BY <3>2, <4>2
    <3>4. \A i \in 1..Len(r) : r[i] # h
      BY <1>1, <2>1, <3>1
    <3> QED BY <3>3, <3>4 DEF Distinct
  <2>5. {r[i] : i \in 1..Len(r)} \union {h} = C
    <3>1. \A i \in 1..Len(r) : r[i] \in C
      BY <1>1, <2>1, <2>3
    <3>2. ASSUME NEW i \in 1..Len(ram) PROVE ram[i] = h \/ \E j \in 1..Len(r) : r[j] = ram[i]
      <4>1. CASE i = k
        BY <2>1, <4>1
      <4>2. CASE i < k
        <5>1. i \in 1..Len(r) /\ r[i] = ram[i]
          BY <1>1, <2>1, <2>3, <4>2
        <5> QED BY <5>1
      <4>3. CASE i > k
        <5>1. i - 1 \in 1..Len(r) /\ r[i - 1] = ram[i]
          BY <1>1, <2>1, <2>3, <4>3
        <5> QED BY <5>1
      <4> QED BY <2>1, <4>1, <4>2, <4>3
    <3> QED BY <3>1, <3>2, <1>4
  <2>6. /\ ram' \in Seq(Objs) /\ Len(ram') = Len(ram) /\ Distinct(ram')
        /\ {ram'[i] : i \in 1..Len(ram')} = C
    <3>1. /\ ram' \in Seq(Objs) /\ Len(ram') = Len(r) + 1 /\ Distinct(ram')
          /\ {ram'[i] : i \in 1..Len(ram')} = {r[i] : i \in 1..Len(r)} \union {h}
      BY <2>2, <2>3, <2>4, PutLast
    <3>2. {ram'[i] : i \in 1..Len(ram')} = C
      BY <2>5, <3>1
    <3>3. Len(ram') = Len(ram)
      BY <1>1, <2>3, <3>1
    <3> QED BY <3>1, <3>2, <3>3
  <2>7. Memory'
    BY <1>1, <2>6 DEF Memory, Distinct
  <2> QED BY <1>2, <1>3, <1>4, <2>6, <2>7
<1>5. CASE h \notin C /\ Len(ram) < RamMax
  <2>1. ram' = Append(ram, h)
    BY <1>2, <1>5 DEF Sharing!Stored
  <2>2. Distinct(ram) /\ \A i \in 1..Len(ram) : ram[i] # h
    BY <1>5 DEF Memory
  <2>3. /\ ram' \in Seq(Objs) /\ Len(ram') = Len(ram) + 1 /\ Distinct(ram')
        /\ {ram'[i] : i \in 1..Len(ram')} = C \union {h}
    BY <1>1, <2>1, <2>2, PutLast
  <2>4. Memory'
    BY <1>1, <1>5, <2>3 DEF Memory, Distinct
  <2>5. Len(ram) # RamMax
    BY <1>1, <1>5
  <2> QED BY <1>2, <1>3, <2>3, <2>4, <2>5
<1>6. CASE h \notin C /\ Len(ram) = RamMax
  <2> DEFINE r == Tail(ram)
  <2>1. ram' = Append(r, h)
    BY <1>2, <1>6 DEF Sharing!Stored
  <2>2. /\ r \in Seq(Objs) /\ Len(r) = Len(ram) - 1 /\ Head(ram) = ram[1]
        /\ \A i \in 1..(Len(ram) - 1) : r[i] = ram[i + 1]
    BY <1>1, <1>6, TailOf
  <2> HIDE DEF r
  <2>3. Distinct(r) /\ \A i \in 1..Len(r) : r[i] # h
    <3>1. \A i \in 1..Len(r) : i + 1 \in 1..Len(ram) /\ r[i] = ram[i + 1]
      BY <1>1, <2>2
    <3> QED BY <1>1, <1>6, <3>1 DEF Distinct
  <2>4. {r[i] : i \in 1..Len(r)} = C \ {Head(ram)}
    <3>1. ASSUME NEW i \in 1..Len(r) PROVE r[i] \in C \ {Head(ram)}
      <4>1. i + 1 \in 1..Len(ram) /\ r[i] = ram[i + 1] /\ 1 \in 1..Len(ram) /\ i + 1 # 1
        BY <1>1, <2>2
      <4> QED BY <1>1, <2>2, <4>1
    <3>2. ASSUME NEW i \in 1..Len(ram), ram[i] # Head(ram) PROVE \E j \in 1..Len(r) : r[j] = ram[i]
      <4>1. i - 1 \in 1..Len(r) /\ r[i - 1] = ram[i]
        BY <1>1, <2>2, <3>2
      <4> QED BY <4>1
    <3> QED BY <3>1, <3>2
  <2>5. /\ ram' \in Seq(Objs) /\ Len(ram') = Len(ram) /\ Distinct(ram')
        /\ {ram'[i] : i \in 1..Len(ram')} = (C \ {Head(ram)}) \union {h}
    <3>1. /\ ram' \in Seq(Objs) /\ Len(ram') = Len(r) + 1 /\ Distinct(ram')
          /\ {ram'[i] : i \in 1..Len(ram')} = {r[i] : i \in 1..Len(r)} \union {h}
      BY <2>1, <2>2, <2>3, PutLast
    <3>2. {ram'[i] : i \in 1..Len(ram')} = (C \ {Head(ram)}) \union {h}
      BY <2>4, <3>1
    <3>3. Len(ram') = Len(ram)
      BY <1>1, <2>2, <3>1
    <3> QED BY <3>1, <3>2, <3>3
  <2>6. Memory'
    BY <1>1, <2>5 DEF Memory, Distinct
  <2> QED BY <1>2, <1>3, <1>6, <2>5, <2>6
<1> QED BY <1>1, <1>4, <1>5, <1>6

-----------------------------------------------------------------------------
(* The invariant                                                             *)

\* Where an announcer has an object in hand, and where it still has to decide
\* whom to tell of it.
Deciding == {"enqueue", "take", "write", "store", "again", "targets"}
Busy == Deciding \union {"tell"}
Waiting == {"idle", "rows", "cache", "missing", "answer"}

Stores ==
  /\ known \subseteq Objs /\ alive \subseteq Objs
  /\ batch \subseteq Objs \ Own
  /\ flushing \in [Sharing!Flushers -> SUBSET (Objs \ Own)]
  /\ db \subseteq known /\ Sharing!Unwritten \subseteq known

Links ==
  /\ up \subseteq Peers /\ greeted \subseteq Peers
  /\ told \in [Peers -> SUBSET Objs] /\ has \in [Peers -> SUBSET Objs]
  /\ rows \in [Peers -> SUBSET Objs]

Asks ==
  /\ wanted \in [Peers -> SUBSET Objs] /\ found \in [Peers -> SUBSET Objs]
  /\ \A p \in Peers : found[p] \subseteq wanted[p]

Workers ==
  /\ spc \in [Sharing!Announcers -> Sharing!PCs]
  /\ obj \in [Sharing!Announcers -> Objs \union {None}]
  /\ targets \in [Sharing!Announcers -> SUBSET Peers]

\* A connection thread has an object of others in hand, which is known and
\* which its peer has; the other announcers have one of ours each.
Hands ==
  /\ \A t \in Peers :
       IF spc[t] \in Busy THEN obj[t] \in (known \intersect has[t]) \ Own
       ELSE spc[t] \in Waiting /\ obj[t] = None
  /\ \A t \in Own : obj[t] = t /\ spc[t] \in {"idle", "targets", "tell", "done"}

Typed == Stores /\ Memory /\ Links /\ Asks /\ Workers /\ Hands

\* Copies of the batch are with the threads that write them.
Copies == \A p \in Peers : flushing[p] # {} => spc[p] = "write"

\* What is not written yet is in memory, or its thread is about to put it there.
Queued ==
  \A h \in Sharing!Unwritten :
    h \in Sharing!Cached \/ \E t \in Peers : obj[t] = h /\ spc[t] \in {"take", "write", "store"}

\* The objects of others that have not expired and will not be lost by an
\* eviction, and those that a request finds.
Safe == db \union Sharing!Unwritten
Reach == Sharing!Cached \union db

Kept ==
  /\ \A h \in (Sharing!Cached \intersect alive) \ Own : h \in Safe
  /\ \A t \in Peers :
       spc[t] \in Busy \ {"enqueue"} /\ obj[t] \in alive => obj[t] \in Safe

\* Nobody is told of an object that a request would not find.
Offered ==
  /\ \A t \in Peers : spc[t] \in {"targets", "tell"} /\ obj[t] \in alive => obj[t] \in Reach
  /\ \A p \in Peers : (told[p] \intersect alive) \ Own \subseteq Reach
  /\ \A p \in Peers : rows[p] \intersect alive \subseteq db

Answered ==
  /\ \A p \in Peers :
       /\ spc[p] = "missing" => (wanted[p] \intersect alive) \ Own \subseteq found[p] \union db
       /\ spc[p] = "answer" => (wanted[p] \intersect alive) \ Own \subseteq found[p]
  /\ denied \subseteq Own

\* An announcer that has h in hand and tells p of it, now or later.
WillTell(h, p) ==
  \E t \in Sharing!Announcers \ {p} :
    /\ obj[t] = h
    /\ spc[t] \in Deciding \/ (spc[t] = "tell" /\ p \in targets[t])

Greeted == up \intersect greeted
Listening == {p \in Greeted : spc[p] \notin {"rows", "cache"}}

\* A peer that has its inventory was told of every object held, or will be;
\* one that is being sent it, when it has the rows and what is in memory.
Informed ==
  /\ \A p \in Listening, h \in alive :
       Sharing!Holds(h) => h \in told[p] \union has[p] \/ WillTell(h, p)
  /\ \A p \in Greeted, h \in alive :
       spc[p] = "cache" /\ Sharing!Holds(h) =>
         h \in rows[p] \union Sharing!Cached \union told[p] \union has[p] \/ WillTell(h, p)

-----------------------------------------------------------------------------
(* Initially                                                                 *)

LEMMA ServingStarts ==
  ASSUME Sharing!ServingAssumption, Sharing!Init
  PROVE  Typed /\ Copies /\ Queued /\ Kept /\ Offered /\ Answered /\ Informed
<1> USE DEF Sharing!Init, Sharing!ServingAssumption
<1>1. ram = <<>> /\ Memory /\ Sharing!Cached = {}
  <2>1. ram = <<>>
    OBVIOUS
  <2> QED BY ONLY <2>1, Sharing!ServingAssumption
          DEF Memory, Distinct, Sharing!Cached, Sharing!ToSet, Sharing!ServingAssumption
<1>2. Sharing!Unwritten = {}
  BY DEF Sharing!Unwritten
<1>3. Stores /\ Links /\ Asks
  BY <1>2 DEF Stores, Links, Asks
<1>4. Workers /\ Hands /\ Own \subseteq Objs
  BY DEF Workers, Hands, Sharing!Announcers, Sharing!PCs, Busy, Deciding, Waiting
<1>5. Copies /\ Queued
  BY <1>2 DEF Copies, Queued, Sharing!Flushers
<1>6. \A t \in Sharing!Announcers : spc[t] = "idle"
  OBVIOUS
<1>7. Kept /\ Offered /\ Answered
  BY <1>1, <1>6 DEF Kept, Offered, Answered, Busy, Deciding, Sharing!Announcers
<1>8. Informed
  BY <1>6 DEF Informed, Listening, Greeted
<1> QED BY <1>1, <1>3, <1>4, <1>5, <1>7, <1>8 DEF Typed

-----------------------------------------------------------------------------
(* What a step does to the objects                                           *)

\* Objects that had not expired stay safe; an object enters the batch and the
\* memory from the hands of an announcer, and leaves the memory only when it is
\* not waiting to be written and no inventory is being sent.
StoreStep ==
  /\ alive' \subseteq alive
  /\ db \intersect alive' \subseteq db' /\ db' \subseteq Safe
  /\ Safe \intersect alive' \subseteq Safe'
  /\ \A h \in Sharing!Unwritten' :
       \/ h \in Sharing!Unwritten
       \/ \E t \in Peers : /\ obj[t] = h /\ obj'[t] = h
                           /\ spc[t] = "enqueue" /\ spc'[t] \in {"take", "store"}
  /\ \A h \in Sharing!Cached' :
       \/ h \in Sharing!Cached
       \/ \E t \in Sharing!Announcers :
            /\ obj[t] = h /\ obj'[t] = h
            /\ t \in Peers => spc[t] \in {"store", "again"}
            /\ spc'[t] \in {"again", "targets"}
  /\ \A h \in Sharing!Cached \ Sharing!Cached' :
       h \notin Sharing!Unwritten /\ \A p \in Peers : spc[p] # "cache"

\* A step that leaves the objects and the announcers' work alone.
Quiet == UNCHANGED <<known, ram, batch, flushing, db, alive, obj, targets>>

LEMMA QuietStores ==
  ASSUME UNCHANGED <<known, ram, batch, flushing, db, alive>>
  PROVE  /\ Sharing!Cached' = Sharing!Cached /\ Sharing!Unwritten' = Sharing!Unwritten
         /\ Safe' = Safe /\ Reach' = Reach
         /\ StoreStep
         /\ Stores => Stores'
         /\ Memory => Memory'
<1>1. Sharing!Cached' = Sharing!Cached /\ Sharing!Unwritten' = Sharing!Unwritten
  BY DEF Sharing!Cached, Sharing!Unwritten
<1>2. Safe' = Safe /\ Reach' = Reach
  BY <1>1 DEF Safe, Reach
<1> QED BY <1>1, <1>2 DEF StoreStep, Safe, Stores, Memory, Distinct

LEMMA UnwrittenHas ==
  ASSUME NEW h
  PROVE  h \in Sharing!Unwritten <=> h \in batch \/ \E t \in Sharing!Flushers : h \in flushing[t]
BY DEF Sharing!Unwritten

LEMMA EnqueueStores ==
  ASSUME Typed, NEW p \in Peers, Sharing!Enqueue(p)
  PROVE  StoreStep /\ Sharing!Unwritten' = Sharing!Unwritten \union {obj[p]}
         /\ Stores' /\ Sharing!Cached' = Sharing!Cached
<1> USE DEF Sharing!Enqueue, Sharing!Goto
<1>1. Sharing!Cached' = Sharing!Cached
  BY DEF Sharing!Cached
<1>2. Sharing!Unwritten' = Sharing!Unwritten \union {obj[p]}
  BY DEF Sharing!Unwritten
<1>3. obj[p] \in known \ Own /\ known \subseteq Objs
  BY DEF Typed, Hands, Busy, Deciding, Stores
<1>4. Stores'
  BY <1>2, <1>3 DEF Typed, Stores
<1>5. obj'[p] = obj[p] /\ spc[p] = "enqueue" /\ spc'[p] \in {"take", "store"}
  BY DEF Typed, Workers, Sharing!Announcers, Sharing!workVars
<1> QED BY <1>1, <1>2, <1>4, <1>5 DEF StoreStep, Safe

LEMMA TakeStores ==
  ASSUME Typed, NEW t \in Sharing!Flushers, flushing[t] = {}, Sharing!Take(t)
  PROVE  StoreStep /\ Sharing!Unwritten' = Sharing!Unwritten
         /\ Stores' /\ Sharing!Cached' = Sharing!Cached
         /\ \A u \in Sharing!Flushers \ {t} : flushing'[u] = flushing[u]
<1> USE DEF Sharing!Take
<1>1. Sharing!Cached' = Sharing!Cached
  BY DEF Sharing!Cached
<1>2. \A u \in Sharing!Flushers : flushing'[u] = IF u = t THEN batch ELSE flushing[u]
  BY DEF Typed, Stores
<1>3. Sharing!Unwritten' = Sharing!Unwritten
  BY <1>2 DEF Sharing!Unwritten
<1>4. Stores'
  BY <1>3 DEF Typed, Stores
<1> QED BY <1>1, <1>2, <1>3, <1>4 DEF StoreStep, Safe

LEMMA WriteStores ==
  ASSUME Typed, NEW t \in Sharing!Flushers, Sharing!Write(t)
  PROVE  StoreStep /\ Sharing!Unwritten' \subseteq Sharing!Unwritten
         /\ Stores' /\ Sharing!Cached' = Sharing!Cached
         /\ \A u \in Sharing!Flushers : flushing'[u] = IF u = t THEN {} ELSE flushing[u]
<1> USE DEF Sharing!Write
<1>1. Sharing!Cached' = Sharing!Cached
  BY DEF Sharing!Cached
<1>2. \A u \in Sharing!Flushers : flushing'[u] = IF u = t THEN {} ELSE flushing[u]
  BY DEF Typed, Stores
<1>3. Sharing!Unwritten' \subseteq Sharing!Unwritten
  BY <1>2 DEF Sharing!Unwritten
<1>4. Safe \subseteq Safe' /\ db' \subseteq Safe
  BY <1>2 DEF Safe, Sharing!Unwritten
<1>5. Stores'
  <2>1. flushing[t] \subseteq Sharing!Unwritten
    BY DEF Sharing!Unwritten
  <2> QED BY <1>3, <2>1 DEF Typed, Stores
<1> QED BY <1>1, <1>2, <1>3, <1>4, <1>5 DEF StoreStep

LEMMA PruneStores ==
  ASSUME Typed, Sharing!Prune
  PROVE  StoreStep /\ Sharing!Unwritten' = Sharing!Unwritten
         /\ Stores' /\ Sharing!Cached' = Sharing!Cached
<1> USE DEF Sharing!Prune
<1>1. Sharing!Cached' = Sharing!Cached /\ Sharing!Unwritten' = Sharing!Unwritten
  BY DEF Sharing!Cached, Sharing!Unwritten
<1>2. Stores'
  BY <1>1 DEF Typed, Stores
<1> QED BY <1>1, <1>2 DEF StoreStep, Safe

LEMMA ExpireStores ==
  ASSUME Typed, NEW h \in Objs, Sharing!Expire(h)
  PROVE  StoreStep /\ Sharing!Unwritten' = Sharing!Unwritten
         /\ Stores' /\ Sharing!Cached' = Sharing!Cached
<1> USE DEF Sharing!Expire
<1>1. Sharing!Cached' = Sharing!Cached /\ Sharing!Unwritten' = Sharing!Unwritten
  BY DEF Sharing!Cached, Sharing!Unwritten
<1>2. Stores'
  BY <1>1 DEF Typed, Stores
<1> QED BY <1>1, <1>2 DEF StoreStep, Safe

\* A new object is known, and one in hand stays so.
LEMMA KnownStores ==
  ASSUME Typed, NEW h \in Objs, known' = known \union {h},
         UNCHANGED <<ram, batch, flushing, db, alive>>
  PROVE  StoreStep /\ Sharing!Unwritten' = Sharing!Unwritten
         /\ Stores' /\ Sharing!Cached' = Sharing!Cached
<1>1. Sharing!Cached' = Sharing!Cached /\ Sharing!Unwritten' = Sharing!Unwritten
  BY DEF Sharing!Cached, Sharing!Unwritten
<1>2. Stores'
  BY <1>1 DEF Typed, Stores
<1> QED BY <1>1, <1>2 DEF StoreStep, Safe

\* Both places that put an object in memory displace nothing that is still
\* waiting, and nothing while an inventory is being sent (InTime).
LEMMA PutStores ==
  ASSUME Typed, Sharing!ServingAssumption, NEW t \in Sharing!Announcers, obj[t] \in Objs,
         Sharing!InTime(obj[t]), ram' = Sharing!Stored(obj[t]),
         UNCHANGED <<known, batch, flushing, db, alive>>,
         obj'[t] = obj[t], t \in Peers => spc[t] \in {"store", "again"},
         spc'[t] \in {"again", "targets"}
  PROVE  StoreStep /\ Sharing!Unwritten' = Sharing!Unwritten
         /\ Stores' /\ Memory' /\ obj[t] \in Sharing!Cached'
<1> DEFINE full == obj[t] \notin Sharing!Cached /\ Len(ram) = RamMax
<1>1. Memory /\ RamMax \in Nat \ {0}
  BY DEF Typed, Sharing!ServingAssumption
<1>2. /\ Memory'
      /\ Sharing!Cached' =
           (IF full THEN Sharing!Cached \ {Head(ram)} ELSE Sharing!Cached) \union {obj[t]}
  BY <1>1, StoredIs
<1>3. Sharing!Unwritten' = Sharing!Unwritten
  BY DEF Sharing!Unwritten
<1>4. full => Head(ram) \notin Sharing!Unwritten /\ \A p \in Peers : spc[p] # "cache"
  BY DEF Sharing!InTime
<1>5. Stores'
  BY <1>3 DEF Typed, Stores
<1>6. \A h \in Sharing!Cached \ Sharing!Cached' : full /\ h = Head(ram)
  BY <1>2
<1>7. \A h \in Sharing!Cached' : h \in Sharing!Cached \/ h = obj[t]
  BY <1>2
<1>8. obj[t] \in Sharing!Cached'
  BY <1>2
<1>9. /\ \A h \in Sharing!Cached \ Sharing!Cached' :
           h \notin Sharing!Unwritten /\ \A p \in Peers : spc[p] # "cache"
      /\ \A h \in Sharing!Cached' :
           \/ h \in Sharing!Cached
           \/ \E u \in Sharing!Announcers :
                /\ obj[u] = h /\ obj'[u] = h
                /\ u \in Peers => spc[u] \in {"store", "again"}
                /\ spc'[u] \in {"again", "targets"}
  <2> HIDE DEF full
  <2>1. \A h \in Sharing!Cached \ Sharing!Cached' :
           h \notin Sharing!Unwritten /\ \A p \in Peers : spc[p] # "cache"
    BY <1>4, <1>6
  <2> QED BY <1>7, <2>1
<1>10. alive' = alive /\ db' = db
  OBVIOUS
<1> HIDE DEF full
<1> QED BY <1>2, <1>3, <1>5, <1>8, <1>9, <1>10 DEF StoreStep, Safe

-----------------------------------------------------------------------------
(* What a step does to the announcers                                        *)

\* Where an announcer goes, with what it leaves behind.
Rests(t) ==
  /\ obj'[t] = obj[t] /\ targets'[t] = targets[t]
  /\ spc'[t] = spc[t] \/ (t \in Peers /\ {spc[t], spc'[t]} \subseteq Waiting)
Accepts(t) ==
  /\ t \in Peers /\ spc[t] = "idle" /\ spc'[t] = "enqueue"
  /\ obj'[t] \in (known' \intersect has'[t]) \ Own
Queues(t) ==
  /\ t \in Peers /\ spc[t] = "enqueue" /\ spc'[t] \in {"take", "store"}
  /\ obj'[t] = obj[t] /\ obj[t] \in Sharing!Unwritten'
Flushes(t) ==
  /\ t \in Peers /\ <<spc[t], spc'[t]>> \in {<<"take", "write">>, <<"write", "store">>}
  /\ obj'[t] = obj[t]
Caches(t) ==
  /\ t \in Peers /\ spc[t] = "store" /\ spc'[t] = "again"
  /\ obj'[t] = obj[t] /\ obj[t] \in Sharing!Cached'
Reputs(t) ==
  /\ spc[t] = (IF t \in Own THEN "idle" ELSE "again") /\ spc'[t] = "targets"
  /\ obj'[t] = obj[t] /\ obj[t] \in Sharing!Cached'
Chooses(t) ==
  /\ spc[t] = "targets" /\ spc'[t] = "tell" /\ obj'[t] = obj[t]
  /\ targets'[t] = up \ {t}
Tells(t) ==
  /\ spc[t] = "tell" /\ spc'[t] = "tell" /\ obj'[t] = obj[t]
  /\ \E c \in targets[t] : /\ targets'[t] = targets[t] \ {c}
                           /\ c \in up => obj[t] \in told'[c]
Ends(t) ==
  /\ spc[t] = "tell" /\ targets[t] = {}
  /\ IF t \in Own THEN spc'[t] = "done" /\ obj'[t] = obj[t]
     ELSE spc'[t] = "idle" /\ obj'[t] = None

Works(t) ==
  \/ Rests(t) \/ Accepts(t) \/ Queues(t) \/ Flushes(t) \/ Caches(t) \/ Reputs(t)
  \/ Chooses(t) \/ Tells(t) \/ Ends(t)
ThreadStep == \A t \in Sharing!Announcers : Works(t)

\* A peer hears of what is in its inventory or what an announcer tells it of;
\* its inventory is the rows of one moment and the memory of a later one.
Alone(p) == Quiet /\ \A u \in Sharing!Announcers \ {p} : spc'[u] = spc[u]
Hears(p) ==
  /\ p \in up /\ p \in up' => told[p] \subseteq told'[p] /\ has[p] \subseteq has'[p]
  /\ spc[p] # "idle" => (p \in up' <=> p \in up) /\ has[p] \subseteq has'[p]
  /\ p \in Greeted' => p \in Greeted \/ spc'[p] = "rows"
  /\ spc[p] = "rows" => spc'[p] \in {"rows", "cache"}
  /\ spc'[p] = "cache" =>
       \/ spc[p] = "cache" /\ rows'[p] = rows[p]
       \/ /\ spc[p] = "rows" /\ Alone(p)
          /\ IsFiniteSet(Objs) /\ Cardinality(Objs) <= RowsMax => rows'[p] = db \intersect alive
  /\ spc[p] = "cache" /\ spc'[p] # "cache" =>
       Alone(p) /\ told'[p] = told[p] \union rows[p] \union Sharing!Cached
  /\ \A h \in told'[p] : \/ h \in told[p] \union rows[p] \union Sharing!Cached
                         \/ \E t \in Sharing!Announcers : spc[t] = "tell" /\ obj[t] = h
  /\ rows'[p] \subseteq rows[p] \/ (rows'[p] \subseteq db \intersect alive /\ db' = db)

\* A getdata asks for what its peer was told of, and finds what is in memory
\* and then what is in the database.
Fetches(p) ==
  /\ spc'[p] = "missing" =>
       \/ spc[p] = "missing" /\ wanted'[p] = wanted[p] /\ found'[p] = found[p]
       \/ wanted'[p] \subseteq told[p] /\ found'[p] = wanted'[p] \intersect Sharing!Cached /\ Quiet
  /\ spc'[p] = "answer" =>
       \/ spc[p] = "answer" /\ wanted'[p] = wanted[p] /\ found'[p] = found[p]
       \/ wanted'[p] \subseteq found'[p]
       \/ /\ spc[p] = "missing" /\ wanted'[p] = wanted[p] /\ alive' = alive
          /\ found'[p] = found[p] \union (wanted[p] \intersect db)

LinkStep == \A p \in Peers : Hears(p) /\ Fetches(p)

\* A request for objects of others is denied only when none was found.
DeniedStep ==
  \/ denied' \subseteq denied
  \/ \E p \in Peers : /\ spc[p] = "answer" /\ found[p] = {}
                      /\ denied' = denied \union (wanted[p] \intersect alive)

-----------------------------------------------------------------------------
(* The actions of a connection that leave the objects alone                  *)

\* Between two packets or in the middle of an inventory or an answer, the
\* announcers go on as they were.
LEMMA QuietSteps ==
  ASSUME Typed, Sharing!ServingAssumption, Quiet, NEW p \in Peers,
         {spc[p], spc'[p]} \subseteq Waiting,
         spc' \in [Sharing!Announcers -> Sharing!PCs],
         \A u \in Sharing!Announcers \ {p} : spc'[u] = spc[u],
         \A u \in Peers : spc[u] # "idle" => has[u] \subseteq has'[u],
         has' \in [Peers -> SUBSET Objs]
  PROVE  StoreStep /\ ThreadStep /\ Stores' /\ Memory' /\ Workers' /\ Hands'
<1>1. StoreStep /\ Stores' /\ Memory' /\ Sharing!Unwritten' = Sharing!Unwritten
  BY QuietStores DEF Quiet, Typed
<1>2. \A t \in Sharing!Announcers : Rests(t)
  BY DEF Quiet, Rests
<1>3. Workers'
  BY DEF Workers, Typed, Quiet
<1>4. Hands'
  <2>1. \A u \in Own : u \in Sharing!Announcers \ {p} \/ u = p
    BY DEF Sharing!Announcers
  <2>2. \A u \in Peers : u \in Sharing!Announcers
    BY DEF Sharing!Announcers
  <2>3. ASSUME NEW u \in Own PROVE obj'[u] = u /\ spc'[u] \in {"idle", "targets", "tell", "done"}
    <3>1. obj[u] = u /\ spc[u] \in {"idle", "targets", "tell", "done"}
      BY DEF Typed, Hands
    <3>2. u # p
      BY DEF Sharing!ServingAssumption
    <3> QED BY <2>1, <3>1, <3>2 DEF Quiet
  <2>4. ASSUME NEW u \in Peers
        PROVE IF spc'[u] \in Busy THEN obj'[u] \in (known' \intersect has'[u]) \ Own
              ELSE spc'[u] \in Waiting /\ obj'[u] = None
    <3>1. IF spc[u] \in Busy THEN obj[u] \in (known \intersect has[u]) \ Own
          ELSE spc[u] \in Waiting /\ obj[u] = None
      BY DEF Typed, Hands
    <3>2. \A s \in Waiting : s \notin Busy
      BY DEF Waiting, Busy, Deciding
    <3>3. u # p => spc'[u] = spc[u]
      BY <2>2
    <3>4. spc[u] \in Busy => has[u] \subseteq has'[u]
      BY <3>2 DEF Waiting, Busy, Deciding
    <3> QED BY <3>1, <3>2, <3>3, <3>4 DEF Quiet
  <2> QED BY <2>3, <2>4 DEF Hands
<1> QED BY <1>1, <1>2, <1>3, <1>4 DEF ThreadStep, Works

\* A connection whose links are not concerned by a step.
Inventorying == {"rows", "cache", "missing", "answer"}

LEMMA LinkRests ==
  ASSUME NEW p \in Peers, spc'[p] = spc[p] \/ {spc[p], spc'[p]} \intersect Inventorying = {},
         p \in up' <=> p \in up, p \in greeted' <=> p \in greeted,
         told[p] \subseteq told'[p], has[p] \subseteq has'[p], rows'[p] = rows[p],
         wanted'[p] = wanted[p], found'[p] = found[p],
         \A h \in told'[p] \ told[p] : \E t \in Sharing!Announcers : spc[t] = "tell" /\ obj[t] = h
  PROVE  Hears(p) /\ Fetches(p)
<1>1. p \in Greeted' <=> p \in Greeted
  BY DEF Greeted
<1>2. Hears(p)
  BY <1>1 DEF Hears, Inventorying
<1>3. Fetches(p)
  BY DEF Fetches, Inventorying
<1> QED BY <1>2, <1>3

\* The handshake and a getdata concern one connection, and nothing else.
Only(p) ==
  /\ Quiet
  /\ \A u \in Sharing!Announcers \ {p} : spc'[u] = spc[u]
  /\ \A u \in Peers \ {p} :
       /\ (u \in up' <=> u \in up) /\ (u \in greeted' <=> u \in greeted)
       /\ told'[u] = told[u] /\ has'[u] = has[u] /\ rows'[u] = rows[u]
       /\ wanted'[u] = wanted[u] /\ found'[u] = found[u]

LEMMA OnlySteps ==
  ASSUME Typed, Sharing!ServingAssumption, NEW p \in Peers, Only(p), Links', Asks',
         spc' \in [Sharing!Announcers -> Sharing!PCs], {spc[p], spc'[p]} \subseteq Waiting,
         spc[p] # "idle" => has[p] \subseteq has'[p],
         Hears(p), Fetches(p)
  PROVE  StoreStep /\ ThreadStep /\ LinkStep /\ Typed'
<1>1. \A u \in Sharing!Announcers \ {p} : spc'[u] = spc[u]
  BY DEF Only
<1>2. \A u \in Peers : spc[u] # "idle" => has[u] \subseteq has'[u]
  BY DEF Only
<1>3. StoreStep /\ ThreadStep /\ Stores' /\ Memory' /\ Workers' /\ Hands'
  BY <1>1, <1>2, QuietSteps DEF Only, Links
<1>4. ASSUME NEW u \in Peers, u # p PROVE Hears(u) /\ Fetches(u)
  <2>1. u \in Sharing!Announcers
    BY DEF Sharing!Announcers
  <2>2. spc'[u] = spc[u]
    BY <1>1, <1>4, <2>1
  <2>3. /\ (u \in up' <=> u \in up) /\ (u \in greeted' <=> u \in greeted)
        /\ told'[u] = told[u] /\ has'[u] = has[u] /\ rows'[u] = rows[u]
        /\ wanted'[u] = wanted[u] /\ found'[u] = found[u]
    BY <1>4 DEF Only
  <2> QED BY <2>2, <2>3, LinkRests
<1>5. LinkStep
  BY <1>4 DEF LinkStep
<1> QED BY <1>3, <1>5 DEF Typed

Handshake(p) ==
  \/ Sharing!Version(p) \/ Sharing!Verack(p) \/ Sharing!ReadRows(p) \/ Sharing!SendInventory(p)
  \/ Sharing!Lose(p)
Request(p) ==
  (\E S \in SUBSET Objs : Sharing!GetData(p, S)) \/ Sharing!LoadMissing(p) \/ Sharing!Answer(p)

LEMMA HandshakeSteps ==
  ASSUME Typed, Sharing!ServingAssumption, NEW p \in Peers, Handshake(p)
  PROVE  StoreStep /\ ThreadStep /\ LinkStep /\ DeniedStep /\ Typed'
<1> USE DEF Sharing!Goto, Sharing!storeVars, Sharing!workVars, Sharing!askVars, Sharing!linkVars
<1>w. /\ spc \in [Sharing!Announcers -> Sharing!PCs] /\ p \in Sharing!Announcers
      /\ \A u \in Peers : u \in Sharing!Announcers
  BY DEF Typed, Workers, Sharing!Announcers
<1>l. /\ up \subseteq Peers /\ greeted \subseteq Peers
      /\ told \in [Peers -> SUBSET Objs] /\ has \in [Peers -> SUBSET Objs]
      /\ rows \in [Peers -> SUBSET Objs]
      /\ db \subseteq Objs /\ Sharing!Cached \subseteq Objs
  BY CachedIs DEF Typed, Links, Stores
<1>1. Quiet /\ UNCHANGED <<wanted, found, denied>>
  BY DEF Handshake, Sharing!Version, Sharing!Verack, Sharing!ReadRows, Sharing!SendInventory,
         Sharing!Lose, Quiet
<1>2. DeniedStep /\ Asks'
  BY <1>1 DEF DeniedStep, Typed, Asks
<1>3. CASE Sharing!Version(p) \/ Sharing!Verack(p)
  <2>1. /\ spc[p] = "idle" /\ \A u \in Sharing!Announcers \ {p} : spc'[u] = spc[u]
        /\ spc' \in [Sharing!Announcers -> Sharing!PCs] /\ spc'[p] \in {"rows", "idle"}
        /\ UNCHANGED <<told, has, rows>>
    BY <1>3, <1>w DEF Sharing!Version, Sharing!Verack, Sharing!PCs
  <2>2. /\ up' \subseteq up \union {p} /\ up \subseteq up'
        /\ greeted' \subseteq greeted \union {p} /\ greeted \subseteq greeted'
        /\ p \in up' \intersect greeted' => spc'[p] = "rows"
    BY <1>3, <1>w DEF Sharing!Version, Sharing!Verack
  <2>3. Links' /\ Only(p)
    BY <1>1, <1>l, <2>1, <2>2 DEF Links, Only
  <2>4. Hears(p) /\ Fetches(p)
    BY <1>1, <2>1, <2>2 DEF Hears, Fetches, Greeted
  <2> QED BY <1>2, <2>1, <2>3, <2>4, OnlySteps DEF Waiting
<1>4. CASE Sharing!ReadRows(p)
  <2>1. /\ spc[p] = "rows" /\ \A u \in Sharing!Announcers \ {p} : spc'[u] = spc[u]
        /\ spc' \in [Sharing!Announcers -> Sharing!PCs] /\ spc'[p] = "cache"
        /\ UNCHANGED <<up, greeted, told, has>>
    BY <1>4, <1>w DEF Sharing!ReadRows, Sharing!PCs
  <2>2. PICK S \in SUBSET (db \intersect alive) :
          /\ S = db \intersect alive \/ Cardinality(S) = RowsMax
          /\ rows' = [rows EXCEPT ![p] = S]
    BY <1>4 DEF Sharing!ReadRows, Sharing!Cardinality, Cardinality
  <2>3. Links' /\ Only(p)
    BY <1>1, <1>l, <2>1, <2>2 DEF Links, Only
  <2>4. rows'[p] = S
    BY <1>l, <2>2
  <2>5. IsFiniteSet(Objs) /\ Cardinality(Objs) <= RowsMax => rows'[p] = db \intersect alive
    <3> SUFFICES ASSUME IsFiniteSet(Objs), Cardinality(Objs) <= RowsMax, Cardinality(S) = RowsMax
                 PROVE  S = db \intersect alive
      BY <2>2, <2>4
    <3>1. S \subseteq Objs
      BY <1>l
    <3>2. Cardinality(S) \in Nat /\ Cardinality(Objs) \in Nat /\ Cardinality(S) <= Cardinality(Objs)
      BY <3>1, FS_Subset, FS_CardinalityType
    <3>3. Cardinality(S) = Cardinality(Objs)
      BY <3>2 DEF Sharing!ServingAssumption
    <3>4. S = Objs
      BY <3>1, <3>3, FS_Subset
    <3> QED BY <3>4, <1>l
  <2>6. Hears(p) /\ Fetches(p)
    <3>1. Alone(p) /\ db' = db
      BY <1>1, <2>1 DEF Alone, Quiet
    <3>2. p \in Greeted' <=> p \in Greeted
      BY <2>1 DEF Greeted
    <3> QED BY <2>1, <2>2, <2>4, <2>5, <3>1, <3>2 DEF Hears, Fetches
  <2> QED BY <1>2, <2>1, <2>3, <2>6, OnlySteps DEF Waiting
<1>5. CASE Sharing!SendInventory(p)
  <2>1. /\ spc[p] = "cache" /\ \A u \in Sharing!Announcers \ {p} : spc'[u] = spc[u]
        /\ spc' \in [Sharing!Announcers -> Sharing!PCs] /\ spc'[p] = "idle"
        /\ UNCHANGED <<up, greeted, has>>
    BY <1>5, <1>w DEF Sharing!SendInventory, Sharing!PCs
  <2>2. /\ told' = [told EXCEPT ![p] = @ \union (rows[p] \union Sharing!Cached)]
        /\ rows' = [rows EXCEPT ![p] = {}]
    BY <1>5 DEF Sharing!SendInventory, Sharing!Inventory
  <2>3. Links' /\ Only(p)
    BY <1>1, <1>l, <2>1, <2>2 DEF Links, Only
  <2>4. told'[p] = told[p] \union rows[p] \union Sharing!Cached /\ rows'[p] = {}
    BY <1>l, <2>2
  <2>5. Hears(p) /\ Fetches(p)
    <3>1. Alone(p)
      BY <1>1, <2>1 DEF Alone
    <3>2. p \in Greeted' <=> p \in Greeted
      BY <2>1 DEF Greeted
    <3> QED BY <2>1, <2>4, <3>1, <3>2 DEF Hears, Fetches
  <2> QED BY <1>2, <2>1, <2>3, <2>5, OnlySteps DEF Waiting
<1>6. CASE Sharing!Lose(p)
  <2>1. spc[p] = "idle" /\ spc' = spc /\ UNCHANGED rows
    BY <1>6 DEF Sharing!Lose
  <2>2. /\ up' = up \ {p} /\ greeted' = greeted \ {p}
        /\ told' = [told EXCEPT ![p] = {}] /\ has' = [has EXCEPT ![p] = {}]
    BY <1>6 DEF Sharing!Lose
  <2>3. Links' /\ Only(p)
    BY <1>1, <1>l, <2>1, <2>2 DEF Links, Only
  <2>4. p \notin up' /\ p \notin Greeted' /\ told'[p] = {}
    BY <1>l, <2>2 DEF Greeted
  <2>5. Hears(p) /\ Fetches(p)
    BY <1>1, <2>1, <2>4 DEF Hears, Fetches
  <2> QED BY <1>2, <1>w, <2>1, <2>3, <2>5, OnlySteps DEF Waiting
<1> QED BY <1>3, <1>4, <1>5, <1>6 DEF Handshake

LEMMA RequestSteps ==
  ASSUME Typed, Sharing!ServingAssumption, NEW p \in Peers, Request(p)
  PROVE  StoreStep /\ ThreadStep /\ LinkStep /\ DeniedStep /\ Typed'
<1> USE DEF Sharing!Goto, Sharing!storeVars, Sharing!workVars, Sharing!askVars, Sharing!linkVars
<1>w. spc \in [Sharing!Announcers -> Sharing!PCs] /\ p \in Sharing!Announcers
  BY DEF Typed, Workers, Sharing!Announcers
<1>l. /\ told \in [Peers -> SUBSET Objs] /\ has \in [Peers -> SUBSET Objs]
      /\ wanted \in [Peers -> SUBSET Objs] /\ found \in [Peers -> SUBSET Objs]
      /\ \A u \in Peers : found[u] \subseteq wanted[u]
  BY DEF Typed, Links, Asks
<1>1. Quiet /\ UNCHANGED <<up, greeted, told, rows>>
  BY DEF Request, Sharing!GetData, Sharing!LoadMissing, Sharing!Answer, Quiet
<1>2. p \in Greeted' <=> p \in Greeted
  BY <1>1 DEF Greeted
<1>3. ASSUME NEW S \in SUBSET Objs, Sharing!GetData(p, S)
      PROVE  StoreStep /\ ThreadStep /\ LinkStep /\ DeniedStep /\ Typed'
  <2>1. /\ spc[p] = "idle" /\ \A u \in Sharing!Announcers \ {p} : spc'[u] = spc[u]
        /\ spc' \in [Sharing!Announcers -> Sharing!PCs] /\ spc'[p] \in {"answer", "missing"}
        /\ spc'[p] = "answer" => S \subseteq Sharing!Cached
        /\ UNCHANGED <<has, denied>>
    BY <1>3, <1>w DEF Sharing!GetData, Sharing!PCs
  <2>2. /\ wanted' = [wanted EXCEPT ![p] = S] /\ S \subseteq told[p]
        /\ found' = [found EXCEPT ![p] = S \intersect Sharing!Cached]
    BY <1>3 DEF Sharing!GetData
  <2>3. Links' /\ Asks' /\ Only(p)
    BY <1>1, <1>l, <2>1, <2>2 DEF Links, Asks, Only, Typed
  <2>4. wanted'[p] = S /\ found'[p] = S \intersect Sharing!Cached
    BY <1>l, <2>2
  <2>5. Hears(p) /\ Fetches(p)
    <3>1. spc'[p] = "answer" => wanted'[p] \subseteq found'[p]
      BY <2>1, <2>4
    <3> QED BY <1>1, <1>2, <2>1, <2>2, <2>4, <3>1 DEF Hears, Fetches
  <2>6. DeniedStep
    BY <2>1 DEF DeniedStep
  <2> QED BY <2>1, <2>3, <2>5, <2>6, OnlySteps DEF Waiting
<1>4. CASE Sharing!LoadMissing(p)
  <2>1. /\ spc[p] = "missing" /\ \A u \in Sharing!Announcers \ {p} : spc'[u] = spc[u]
        /\ spc' \in [Sharing!Announcers -> Sharing!PCs] /\ spc'[p] = "answer"
        /\ UNCHANGED <<has, denied, wanted>>
    BY <1>4, <1>w DEF Sharing!LoadMissing, Sharing!PCs
  <2>2. found' = [found EXCEPT ![p] = @ \union (wanted[p] \intersect db)]
    BY <1>4 DEF Sharing!LoadMissing, Sharing!Loaded
  <2>3. Links' /\ Asks' /\ Only(p)
    BY <1>1, <1>l, <2>1, <2>2 DEF Links, Asks, Only, Typed
  <2>4. found'[p] = found[p] \union (wanted[p] \intersect db)
    BY <1>l, <2>2
  <2>5. Hears(p) /\ Fetches(p)
    <3>1. alive' = alive
      BY <1>1 DEF Quiet
    <3> QED BY <1>1, <1>2, <2>1, <2>4, <3>1 DEF Hears, Fetches
  <2>6. DeniedStep
    BY <2>1 DEF DeniedStep
  <2> QED BY <2>1, <2>3, <2>5, <2>6, OnlySteps DEF Waiting
<1>5. CASE Sharing!Answer(p)
  <2>1. /\ spc[p] = "answer" /\ \A u \in Sharing!Announcers \ {p} : spc'[u] = spc[u]
        /\ spc' \in [Sharing!Announcers -> Sharing!PCs] /\ spc'[p] = "idle"
    BY <1>5, <1>w DEF Sharing!Answer, Sharing!PCs
  <2>2. PICK served \in SUBSET found[p] :
          /\ served = {} => found[p] = {}
          /\ has' = [has EXCEPT ![p] = @ \union served]
          /\ denied' = IF served = {} THEN denied \union (wanted[p] \intersect alive) ELSE denied
    BY <1>5 DEF Sharing!Answer
  <2>3. wanted' = [wanted EXCEPT ![p] = {}] /\ found' = [found EXCEPT ![p] = {}]
    BY <1>5 DEF Sharing!Answer
  <2>4. Links' /\ Asks' /\ Only(p)
    BY <1>1, <1>l, <2>1, <2>2, <2>3 DEF Links, Asks, Only, Typed
  <2>5. has[p] \subseteq has'[p]
    BY <1>l, <2>2
  <2>6. Hears(p) /\ Fetches(p)
    BY <1>1, <1>2, <2>1, <2>5 DEF Hears, Fetches
  <2>7. DeniedStep
    BY <2>1, <2>2 DEF DeniedStep
  <2> QED BY <2>1, <2>4, <2>5, <2>6, <2>7, OnlySteps DEF Waiting
<1> QED BY <1>3, <1>4, <1>5 DEF Request

-----------------------------------------------------------------------------
(* The actions of the announcers and of the maintenance thread               *)

HandOf(t) ==
  IF t \in Own THEN obj[t] = t /\ spc[t] \in {"idle", "targets", "tell", "done"}
  ELSE IF spc[t] \in Busy THEN obj[t] \in (known \intersect has[t]) \ Own
  ELSE spc[t] \in Waiting /\ obj[t] = None

LEMMA HandsAre ==
  ASSUME Sharing!ServingAssumption
  PROVE  Hands <=> \A t \in Sharing!Announcers : HandOf(t)
<1>1. \A t \in Peers : t \notin Own
  BY DEF Sharing!ServingAssumption
<1>2. ASSUME Hands, NEW t \in Sharing!Announcers PROVE HandOf(t)
  BY <1>1, <1>2 DEF Hands, HandOf, Sharing!Announcers
<1>3. ASSUME \A t \in Sharing!Announcers : HandOf(t) PROVE Hands
  BY <1>1, <1>3 DEF Hands, HandOf, Sharing!Announcers
<1> QED BY <1>2, <1>3

\* One announcer moves on: it does what Works allows, and the links and the
\* other announcers are as they were, but for what they were told.
Changes(t) ==
  /\ UNCHANGED <<up, greeted, rows, wanted, found, denied>>
  /\ \A u \in Sharing!Announcers \ {t} :
       spc'[u] = spc[u] /\ obj'[u] = obj[u] /\ targets'[u] = targets[u]
  /\ known \subseteq known'
  /\ told' \in [Peers -> SUBSET Objs] /\ has' \in [Peers -> SUBSET Objs]
  /\ \A p \in Peers : told[p] \subseteq told'[p] /\ has[p] \subseteq has'[p]
  /\ \A p \in Peers : \A h \in told'[p] \ told[p] :
       \E u \in Sharing!Announcers : spc[u] = "tell" /\ obj[u] = h
  /\ {spc[t], spc'[t]} \intersect Inventorying = {}

LEMMA ChangeSteps ==
  ASSUME Typed, Sharing!ServingAssumption, NEW t \in Sharing!Announcers, Changes(t),
         StoreStep, Stores', Memory', Workers', Works(t), HandOf(t)'
  PROVE  StoreStep /\ ThreadStep /\ LinkStep /\ DeniedStep /\ Typed'
<1>1. \A u \in Sharing!Announcers \ {t} :
        spc'[u] = spc[u] /\ obj'[u] = obj[u] /\ targets'[u] = targets[u]
  BY DEF Changes
<1>2. ThreadStep
  BY <1>1 DEF ThreadStep, Works, Rests
<1>3. Hands'
  <2>1. ASSUME NEW u \in Sharing!Announcers, u # t PROVE HandOf(u)'
    <3>1. HandOf(u)
      BY HandsAre DEF Typed
    <3>2. u \in Own \/ (u \in Peers /\ has[u] \subseteq has'[u] /\ known \subseteq known')
      BY DEF Changes, Sharing!Announcers
    <3> QED BY <1>1, <2>1, <3>1, <3>2 DEF HandOf
  <2>2. \A u \in Sharing!Announcers : HandOf(u)'
    BY <2>1
  <2>3. Sharing!Announcers' = Sharing!Announcers
    BY DEF Sharing!Announcers
  <2>4. \A u \in Peers : u \notin Own
    BY DEF Sharing!ServingAssumption
  <2> QED BY <2>2, <2>4 DEF Hands, HandOf, Sharing!Announcers
<1>4. LinkStep
  <2>1. ASSUME NEW p \in Peers PROVE Hears(p) /\ Fetches(p)
    <3>1. p \in Sharing!Announcers
      BY DEF Sharing!Announcers
    <3>2. spc'[p] = spc[p] \/ {spc[p], spc'[p]} \intersect Inventorying = {}
      BY <1>1, <3>1 DEF Changes
    <3>3. /\ p \in up' <=> p \in up
          /\ p \in greeted' <=> p \in greeted
          /\ told[p] \subseteq told'[p] /\ has[p] \subseteq has'[p] /\ rows'[p] = rows[p]
          /\ wanted'[p] = wanted[p] /\ found'[p] = found[p]
          /\ \A h \in told'[p] \ told[p] :
               \E u \in Sharing!Announcers : spc[u] = "tell" /\ obj[u] = h
      BY DEF Changes
    <3> QED BY <3>2, <3>3, LinkRests
  <2> QED BY <2>1 DEF LinkStep
<1>5. DeniedStep /\ Links' /\ Asks'
  BY DEF DeniedStep, Changes, Typed, Links, Asks
<1> QED BY <1>2, <1>3, <1>4, <1>5 DEF Typed

LEMMA ReceiveSteps ==
  ASSUME Typed, Sharing!ServingAssumption, NEW p \in Peers, NEW h \in Objs, Sharing!Receive(p, h)
  PROVE  StoreStep /\ ThreadStep /\ LinkStep /\ DeniedStep /\ Typed'
<1> USE DEF Sharing!Receive, Sharing!Goto, Sharing!askVars
<1>w. /\ spc \in [Sharing!Announcers -> Sharing!PCs] /\ p \in Sharing!Announcers
      /\ obj \in [Sharing!Announcers -> Objs \union {None}]
      /\ told \in [Peers -> SUBSET Objs] /\ has \in [Peers -> SUBSET Objs]
      /\ p \notin Own /\ Memory
  BY DEF Typed, Workers, Links, Sharing!Announcers, Sharing!ServingAssumption
<1>1. /\ spc[p] = "idle" /\ h \notin Own /\ h \in has'[p]
      /\ UNCHANGED <<ram, batch, flushing, db, alive, up, greeted, told, rows, wanted, found,
                     denied, targets>>
      /\ has' \in [Peers -> SUBSET Objs] /\ \A q \in Peers : has[q] \subseteq has'[q]
  BY <1>w
<1>2. CASE h \in known \union Sharing!Cached
  <2>1. UNCHANGED <<known, spc, obj>>
    BY <1>2
  <2>2. StoreStep /\ Stores' /\ Memory'
    BY <1>1, <2>1, QuietStores DEF Typed
  <2>3. Workers' /\ Works(p) /\ HandOf(p)
    BY <1>1, <1>w, <2>1, HandsAre DEF Typed, Workers, Works, Rests
  <2>4. HandOf(p)'
    BY <1>1, <1>w, <2>1, <2>3 DEF HandOf, Busy, Deciding
  <2>5. Changes(p)
    BY <1>1, <1>w, <2>1 DEF Changes, Inventorying
  <2> QED BY <1>w, <2>2, <2>3, <2>4, <2>5, ChangeSteps
<1>3. CASE h \notin known \union Sharing!Cached
  <2>1. /\ known' = known \union {h} /\ obj' = [obj EXCEPT ![p] = h]
        /\ spc' = [spc EXCEPT ![p] = "enqueue"]
    BY <1>3
  <2>2. StoreStep /\ Stores' /\ Memory'
    <3>1. StoreStep /\ Stores'
      BY <1>1, <2>1, KnownStores
    <3> QED BY <3>1, <1>1, <1>w DEF Memory, Distinct
  <2>3. obj'[p] = h /\ spc'[p] = "enqueue"
    BY <1>w, <2>1
  <2>4. Workers' /\ Works(p)
    <3>1. Workers'
      BY <1>1, <1>w, <2>1 DEF Typed, Workers, Sharing!PCs
    <3>2. Accepts(p)
      BY <1>1, <2>1, <2>3 DEF Accepts
    <3> QED BY <3>1, <3>2 DEF Works
  <2>5. HandOf(p)'
    BY <1>1, <1>w, <2>1, <2>3 DEF HandOf, Busy, Deciding
  <2>6. Changes(p)
    <3>1. \A u \in Sharing!Announcers \ {p} : spc'[u] = spc[u] /\ obj'[u] = obj[u]
      BY <1>w, <2>1
    <3> QED BY <1>1, <1>w, <2>1, <2>3, <3>1 DEF Changes, Inventorying
  <2> QED BY <1>w, <2>2, <2>4, <2>5, <2>6, ChangeSteps
<1> QED BY <1>2, <1>3

\* A thread goes from one place to the next with the object it has in hand.
Advances(t) ==
  /\ UNCHANGED <<known, up, greeted, told, has, rows, wanted, found, denied, obj, targets>>
  /\ \E l \in Sharing!PCs : spc' = [spc EXCEPT ![t] = l]
  /\ spc[t] \in Busy \union {"idle"}
  /\ spc'[t] \in IF t \in Own THEN {"targets"} ELSE Busy
  /\ t \in Peers => spc[t] \in Busy

LEMMA AdvanceSteps ==
  ASSUME Typed, Sharing!ServingAssumption, NEW t \in Sharing!Announcers, Advances(t),
         StoreStep, Stores', Memory', Works(t)
  PROVE  StoreStep /\ ThreadStep /\ LinkStep /\ DeniedStep /\ Typed'
<1>1. /\ UNCHANGED <<known, up, greeted, told, has, rows, wanted, found, denied, obj, targets>>
      /\ spc \in [Sharing!Announcers -> Sharing!PCs] /\ spc' \in [Sharing!Announcers -> Sharing!PCs]
      /\ \A u \in Sharing!Announcers \ {t} : spc'[u] = spc[u]
  BY DEF Advances, Typed, Workers
<1>2. Workers'
  BY <1>1 DEF Typed, Workers
<1>3. HandOf(t)'
  <2>1. HandOf(t)
    BY HandsAre DEF Typed
  <2>2. CASE t \in Own
    BY <1>1, <2>1, <2>2 DEF HandOf, Advances
  <2>3. CASE t \notin Own
    <3>1. spc[t] \in Busy /\ spc'[t] \in Busy
      BY <2>3 DEF Advances, Sharing!Announcers
    <3> QED BY <1>1, <2>1, <2>3, <3>1 DEF HandOf
  <2> QED BY <2>2, <2>3
<1>4. {spc[t], spc'[t]} \intersect Inventorying = {}
  <2>1. spc'[t] \in Busy
    BY DEF Advances, Busy, Deciding
  <2> QED BY <2>1 DEF Advances, Inventorying, Busy, Deciding
<1>5. Changes(t)
  BY <1>1, <1>4 DEF Changes, Typed, Links
<1> QED BY <1>2, <1>3, <1>5, ChangeSteps

StoreAction(p) ==
  \/ Sharing!Enqueue(p) \/ Sharing!ReaderTakes(p) \/ Sharing!ReaderWrites(p) \/ Sharing!Store(p)

LEMMA StoreActionSteps ==
  ASSUME Typed, Copies, Sharing!ServingAssumption, NEW p \in Peers, StoreAction(p)
  PROVE  StoreStep /\ ThreadStep /\ LinkStep /\ DeniedStep /\ Typed'
<1> USE DEF Sharing!Goto, Sharing!linkVars, Sharing!askVars, Sharing!workVars
<1>w. /\ spc \in [Sharing!Announcers -> Sharing!PCs] /\ p \in Sharing!Announcers
      /\ p \in Sharing!Flushers /\ p \notin Own /\ Memory
  BY DEF Typed, Workers, Sharing!Announcers, Sharing!Flushers, Sharing!ServingAssumption
<1>1. /\ UNCHANGED <<known, up, greeted, told, has, rows, wanted, found, denied, obj, targets>>
      /\ \E l \in Busy : spc' = [spc EXCEPT ![p] = l]
      /\ <<spc[p], spc'[p]>> \in
           {<<"enqueue", "take">>, <<"enqueue", "store">>, <<"take", "write">>,
            <<"write", "store">>, <<"store", "again">>}
  BY <1>w DEF StoreAction, Sharing!Enqueue, Sharing!ReaderTakes, Sharing!ReaderWrites,
              Sharing!Store, Sharing!Take, Sharing!Write, Busy, Deciding
<1>2. Busy \subseteq Sharing!PCs
  BY DEF Busy, Deciding, Sharing!PCs
<1>3. Advances(p) /\ spc[p] \in Busy
  <2>1. spc[p] \in Busy /\ spc'[p] \in Busy
    BY <1>1 DEF Busy, Deciding
  <2> QED BY <1>1, <1>2, <1>w, <2>1 DEF Advances
<1>4. obj[p] \in Objs /\ obj'[p] = obj[p] /\ targets'[p] = targets[p]
  BY <1>1, <1>3 DEF Typed, Hands, Stores
<1>5. CASE Sharing!Enqueue(p)
  <2>1. /\ StoreStep /\ Stores' /\ Sharing!Unwritten' = Sharing!Unwritten \union {obj[p]}
        /\ spc[p] = "enqueue" /\ ram' = ram
    BY <1>5, EnqueueStores DEF Sharing!Enqueue
  <2>2. Memory'
    BY <1>w, <2>1 DEF Memory, Distinct
  <2>3. Queues(p)
    BY <1>1, <1>4, <2>1 DEF Queues
  <2> QED BY <1>3, <1>w, <2>1, <2>2, <2>3, AdvanceSteps DEF Works
<1>6. CASE Sharing!ReaderTakes(p)
  <2>1. spc[p] = "take" /\ Sharing!Take(p) /\ flushing[p] = {} /\ ram' = ram
    BY <1>6 DEF Sharing!ReaderTakes, Sharing!Take, Copies
  <2>2. StoreStep /\ Stores'
    BY <1>w, <2>1, TakeStores
  <2>3. Memory'
    BY <1>w, <2>1 DEF Memory, Distinct
  <2>4. Flushes(p)
    BY <1>1, <1>4, <2>1 DEF Flushes
  <2> QED BY <1>3, <1>w, <2>2, <2>3, <2>4, AdvanceSteps DEF Works
<1>7. CASE Sharing!ReaderWrites(p)
  <2>1. spc[p] = "write" /\ Sharing!Write(p) /\ ram' = ram
    BY <1>7 DEF Sharing!ReaderWrites, Sharing!Write
  <2>2. StoreStep /\ Stores'
    BY <1>w, <2>1, WriteStores
  <2>3. Memory'
    BY <1>w, <2>1 DEF Memory, Distinct
  <2>4. Flushes(p)
    BY <1>1, <1>4, <2>1 DEF Flushes
  <2> QED BY <1>3, <1>w, <2>2, <2>3, <2>4, AdvanceSteps DEF Works
<1>8. CASE Sharing!Store(p)
  <2>1. /\ spc[p] = "store" /\ Sharing!InTime(obj[p]) /\ ram' = Sharing!Stored(obj[p])
        /\ UNCHANGED <<known, batch, flushing, db, alive>> /\ spc'[p] = "again"
    BY <1>8, <1>1 DEF Sharing!Store
  <2>2. StoreStep /\ Stores' /\ Memory' /\ obj[p] \in Sharing!Cached'
    BY <1>4, <1>w, <2>1, PutStores
  <2>3. Caches(p)
    BY <1>4, <2>1, <2>2 DEF Caches
  <2> QED BY <1>3, <1>w, <2>2, <2>3, AdvanceSteps DEF Works
<1> QED BY <1>5, <1>6, <1>7, <1>8 DEF StoreAction

LEMMA AnnounceSteps ==
  ASSUME Typed, Sharing!ServingAssumption, NEW t \in Sharing!Announcers,
         Sharing!Again(t) \/ Sharing!Remember(t) \/ Sharing!Tell(t)
  PROVE  StoreStep /\ ThreadStep /\ LinkStep /\ DeniedStep /\ Typed'
<1> USE DEF Sharing!Goto, Sharing!linkVars, Sharing!askVars, Sharing!storeVars
<1>w. /\ spc \in [Sharing!Announcers -> Sharing!PCs] /\ Memory
      /\ obj \in [Sharing!Announcers -> Objs \union {None}]
      /\ targets \in [Sharing!Announcers -> SUBSET Peers] /\ up \subseteq Peers
      /\ told \in [Peers -> SUBSET Objs] /\ has \in [Peers -> SUBSET Objs]
      /\ HandOf(t)
  BY HandsAre DEF Typed, Workers, Links
<1>o. Own \subseteq Objs /\ known \subseteq Objs /\ (t \notin Own => t \in Peers)
      /\ (t \in Own => t \notin Peers)
  BY DEF Sharing!ServingAssumption, Typed, Stores, Sharing!Announcers
<1>1. CASE Sharing!Again(t)
  <2> USE DEF Sharing!workVars
  <2>1. /\ spc[t] = (IF t \in Own THEN "idle" ELSE "again") /\ spc' = [spc EXCEPT ![t] = "targets"]
        /\ Sharing!InTime(obj[t]) /\ ram' = Sharing!Stored(obj[t])
        /\ UNCHANGED <<known, batch, flushing, db, alive, up, greeted, told, has, rows, wanted,
                       found, denied, obj, targets>>
    BY <1>1 DEF Sharing!Again
  <2>2. obj[t] \in Objs
    BY <1>w, <1>o, <2>1 DEF HandOf, Busy, Deciding
  <2>3. spc'[t] = "targets" /\ obj'[t] = obj[t]
    BY <1>w, <2>1
  <2>4. StoreStep /\ Stores' /\ Memory' /\ obj[t] \in Sharing!Cached'
    <3>1. t \in Peers => spc[t] \in {"store", "again"}
      BY <1>o, <2>1
    <3> QED BY <2>1, <2>2, <2>3, <3>1, PutStores
  <2>5. Reputs(t)
    BY <2>1, <2>3, <2>4 DEF Reputs
  <2>6. Advances(t)
    BY <1>o, <2>1, <2>3 DEF Advances, Busy, Deciding, Sharing!PCs
  <2> QED BY <2>4, <2>5, <2>6, AdvanceSteps DEF Works
<1>2. CASE Sharing!Remember(t)
  <2>1. /\ spc[t] = "targets" /\ spc' = [spc EXCEPT ![t] = "tell"]
        /\ known' = known \union {obj[t]} /\ targets' = [targets EXCEPT ![t] = up \ {t}]
        /\ UNCHANGED <<ram, batch, flushing, db, alive, up, greeted, told, has, rows, wanted,
                       found, denied, obj>>
    BY <1>2 DEF Sharing!Remember, Sharing!Listeners
  <2>2. obj[t] \in Objs
    BY <1>w, <1>o, <2>1 DEF HandOf, Busy, Deciding
  <2>3. spc'[t] = "tell" /\ obj'[t] = obj[t] /\ targets'[t] = up \ {t}
    BY <1>w, <2>1
  <2>4. StoreStep /\ Stores'
    BY <2>1, <2>2, KnownStores
  <2>5. Memory'
    BY <1>w, <2>1 DEF Memory, Distinct
  <2>6. Chooses(t) /\ Workers'
    BY <1>w, <2>1, <2>3 DEF Chooses, Workers, Sharing!PCs
  <2>7. HandOf(t)'
    BY <1>w, <1>o, <2>1, <2>3 DEF HandOf, Busy, Deciding
  <2>8. Changes(t)
    BY <1>w, <2>1, <2>3 DEF Changes, Inventorying
  <2> QED BY <2>4, <2>5, <2>6, <2>7, <2>8, ChangeSteps DEF Works
<1>3. CASE Sharing!Tell(t)
  <2>1. /\ spc[t] = "tell"
        /\ UNCHANGED <<known, ram, batch, flushing, db, alive, up, greeted, has, rows, wanted, found, denied>>
    BY <1>3 DEF Sharing!Tell
  <2>2. StoreStep /\ Stores' /\ Memory'
    BY <1>w, <2>1, QuietStores DEF Typed
  <2>3. CASE targets[t] = {} /\ UNCHANGED <<targets, told>>
             /\ spc' = [spc EXCEPT ![t] = IF t \in Own THEN "done" ELSE "idle"]
             /\ obj' = IF t \in Own THEN obj ELSE [obj EXCEPT ![t] = None]
    <3>1. /\ spc'[t] = (IF t \in Own THEN "done" ELSE "idle")
          /\ obj'[t] = (IF t \in Own THEN obj[t] ELSE None)
      BY <1>w, <2>3
    <3>2. Workers' /\ Ends(t)
      BY <1>w, <2>1, <2>3, <3>1 DEF Workers, Sharing!PCs, Ends
    <3>3. HandOf(t)'
      BY <1>w, <3>1 DEF HandOf, Busy, Deciding, Waiting
    <3>4. Changes(t)
      <4>1. \A u \in Sharing!Announcers \ {t} : spc'[u] = spc[u] /\ obj'[u] = obj[u]
        BY <1>w, <2>3
      <4> QED BY <1>w, <2>1, <2>3, <3>1, <4>1 DEF Changes, Inventorying
    <3> QED BY <2>2, <3>2, <3>3, <3>4, ChangeSteps DEF Works
  <2>4. ASSUME NEW c \in targets[t], targets' = [targets EXCEPT ![t] = @ \ {c}],
               told' = (IF c \in up THEN [told EXCEPT ![c] = @ \union {obj[t]}] ELSE told),
               UNCHANGED <<spc, obj>>
        PROVE  StoreStep /\ ThreadStep /\ LinkStep /\ DeniedStep /\ Typed'
    <3>1. c \in Peers /\ obj[t] \in Objs
      BY <1>w, <1>o, <2>1 DEF HandOf, Busy
    <3>2. /\ told' \in [Peers -> SUBSET Objs]
          /\ c \in up => obj[t] \in told'[c]
          /\ \A p \in Peers : told[p] \subseteq told'[p] /\ told'[p] \subseteq told[p] \union {obj[t]}
      BY <1>w, <2>4, <3>1
    <3>3. targets'[t] = targets[t] \ {c}
      BY <1>w, <2>4
    <3>4. Workers' /\ Tells(t)
      BY <1>w, <2>1, <2>4, <3>2, <3>3 DEF Workers, Tells
    <3>5. HandOf(t)'
      BY <1>w, <2>1, <2>4 DEF HandOf
    <3>6. Changes(t)
      BY <1>w, <2>1, <2>4, <3>2 DEF Changes, Inventorying
    <3> QED BY <2>2, <3>4, <3>5, <3>6, ChangeSteps DEF Works
  <2> QED BY <1>3, <2>3, <2>4 DEF Sharing!Tell
<1> QED BY <1>1, <1>2, <1>3

Background ==
  \/ Sharing!MaintTakes \/ Sharing!MaintWrites \/ Sharing!Prune
  \/ \E h \in Objs : Sharing!Expire(h)

LEMMA BackgroundSteps ==
  ASSUME Typed, Sharing!ServingAssumption, Background
  PROVE  StoreStep /\ ThreadStep /\ LinkStep /\ DeniedStep /\ Typed'
<1> USE DEF Sharing!linkVars, Sharing!askVars, Sharing!workVars
<1>1. /\ UNCHANGED <<ram, up, greeted, told, has, rows, wanted, found, denied, spc, obj, targets>>
      /\ known' = known
  BY DEF Background, Sharing!MaintTakes, Sharing!MaintWrites, Sharing!Take, Sharing!Write,
         Sharing!Prune, Sharing!Expire
<1>2. StoreStep /\ Stores'
  <2>1. Main \in Sharing!Flushers
    BY DEF Sharing!Flushers
  <2>2. CASE Sharing!MaintTakes
    BY <2>1, <2>2, TakeStores DEF Sharing!MaintTakes
  <2>3. CASE Sharing!MaintWrites
    BY <2>1, <2>3, WriteStores DEF Sharing!MaintWrites
  <2> QED BY <2>2, <2>3, PruneStores, ExpireStores DEF Background
<1>3. Memory' /\ Links' /\ Asks' /\ Workers' /\ Hands'
  BY <1>1 DEF Typed, Memory, Distinct, Links, Asks, Workers, Hands
<1>4. ThreadStep /\ DeniedStep
  BY <1>1 DEF ThreadStep, Works, Rests, DeniedStep
<1>5. LinkStep
  <2>1. ASSUME NEW p \in Peers PROVE Hears(p) /\ Fetches(p)
    BY <1>1, LinkRests
  <2> QED BY <2>1 DEF LinkStep
<1> QED BY <1>2, <1>3, <1>4, <1>5 DEF Typed

LEMMA Steps ==
  ASSUME Typed, Copies, Sharing!ServingAssumption, Sharing!Next
  PROVE  StoreStep /\ ThreadStep /\ LinkStep /\ DeniedStep /\ Typed'
<1>1. ASSUME NEW p \in Peers, NEW h \in Objs, Sharing!Receive(p, h)
      PROVE  StoreStep /\ ThreadStep /\ LinkStep /\ DeniedStep /\ Typed'
  BY <1>1, ReceiveSteps
<1>2. ASSUME NEW p \in Peers, Handshake(p) \/ Request(p) \/ StoreAction(p)
      PROVE  StoreStep /\ ThreadStep /\ LinkStep /\ DeniedStep /\ Typed'
  BY <1>2, HandshakeSteps, RequestSteps, StoreActionSteps
<1>3. ASSUME NEW t \in Sharing!Announcers, Sharing!Again(t) \/ Sharing!Remember(t) \/ Sharing!Tell(t)
      PROVE  StoreStep /\ ThreadStep /\ LinkStep /\ DeniedStep /\ Typed'
  BY <1>3, AnnounceSteps
<1>4. \/ \E p \in Peers, h \in Objs : Sharing!Receive(p, h)
      \/ \E p \in Peers : Handshake(p) \/ Request(p) \/ StoreAction(p)
      \/ \E t \in Sharing!Announcers : Sharing!Again(t) \/ Sharing!Remember(t) \/ Sharing!Tell(t)
      \/ Background
  BY DEF Sharing!Next, Handshake, Request, StoreAction, Background
<1> QED BY <1>1, <1>2, <1>3, <1>4, BackgroundSteps

-----------------------------------------------------------------------------
(* The invariant is kept                                                     *)

LEMMA CopiesKept ==
  ASSUME Typed, Copies, Sharing!ServingAssumption, Sharing!Next
  PROVE  Copies'
<1> USE DEF Sharing!Goto, Sharing!linkVars, Sharing!askVars, Sharing!storeVars, Sharing!workVars
<1>w. /\ spc \in [Sharing!Announcers -> Sharing!PCs]
      /\ flushing \in [Sharing!Flushers -> SUBSET (Objs \ Own)]
      /\ Peers \subseteq Sharing!Announcers /\ Peers \subseteq Sharing!Flushers
      /\ Main \notin Peers /\ \A p \in Peers : flushing[p] # {} => spc[p] = "write"
      /\ \A p \in Peers : p \notin Own
  BY DEF Typed, Workers, Stores, Sharing!Announcers, Sharing!Flushers, Sharing!ServingAssumption, Copies
<1>1. ASSUME NEW p \in Peers, Sharing!ReaderTakes(p) PROVE Copies'
  <2>1. /\ \A u \in Peers \ {p} : flushing'[u] = flushing[u] /\ spc'[u] = spc[u]
        /\ spc'[p] = "write"
    BY <1>w, <1>1 DEF Sharing!ReaderTakes, Sharing!Take
  <2> QED BY <1>w, <2>1 DEF Copies
<1>2. ASSUME NEW p \in Peers, Sharing!ReaderWrites(p) PROVE Copies'
  <2>1. /\ \A u \in Peers \ {p} : flushing'[u] = flushing[u] /\ spc'[u] = spc[u]
        /\ flushing'[p] = {}
    BY <1>w, <1>2 DEF Sharing!ReaderWrites, Sharing!Write
  <2> QED BY <1>w, <2>1 DEF Copies
<1>3. CASE Sharing!MaintTakes \/ Sharing!MaintWrites
  <2>1. \A u \in Peers : flushing'[u] = flushing[u] /\ spc'[u] = spc[u]
    BY <1>w, <1>3 DEF Sharing!MaintTakes, Sharing!MaintWrites, Sharing!Take, Sharing!Write
  <2> QED BY <1>w, <2>1 DEF Copies
<1>4. ASSUME flushing' = flushing, NEW t \in Sharing!Announcers, spc[t] # "write" \/ spc'[t] = "write",
             \A u \in Sharing!Announcers \ {t} : spc'[u] = spc[u]
      PROVE  Copies'
  BY <1>w, <1>4 DEF Copies
<1>5. ASSUME NEW p \in Peers,
             \/ Handshake(p) \/ Request(p) \/ Sharing!Enqueue(p) \/ Sharing!Store(p)
             \/ \E h \in Objs : Sharing!Receive(p, h)
      PROVE  Copies'
  <2>1. flushing' = flushing /\ spc[p] # "write" /\ \A u \in Sharing!Announcers \ {p} : spc'[u] = spc[u]
    <3>1. CASE Handshake(p)
      BY <1>w, <3>1 DEF Handshake, Sharing!Version, Sharing!Verack, Sharing!ReadRows,
                        Sharing!SendInventory, Sharing!Lose
    <3>2. CASE Request(p)
      BY <1>w, <3>2 DEF Request, Sharing!GetData, Sharing!LoadMissing, Sharing!Answer
    <3>3. CASE Sharing!Enqueue(p) \/ Sharing!Store(p)
      BY <1>w, <3>3 DEF Sharing!Enqueue, Sharing!Store
    <3>4. CASE \E h \in Objs : Sharing!Receive(p, h)
      BY <1>w, <3>4 DEF Sharing!Receive
    <3> QED BY <1>5, <3>1, <3>2, <3>3, <3>4
  <2> QED BY <1>4, <1>w, <2>1
<1>6. ASSUME NEW t \in Sharing!Announcers, Sharing!Again(t) \/ Sharing!Remember(t) \/ Sharing!Tell(t)
      PROVE  Copies'
  <2>1. flushing' = flushing /\ spc[t] # "write" /\ \A u \in Sharing!Announcers \ {t} : spc'[u] = spc[u]
    BY <1>w, <1>6 DEF Sharing!Again, Sharing!Remember, Sharing!Tell
  <2> QED BY <1>4, <2>1
<1>7. CASE Sharing!Prune \/ \E h \in Objs : Sharing!Expire(h)
  BY <1>w, <1>7 DEF Sharing!Prune, Sharing!Expire, Copies
<1>8. \/ \E p \in Peers : Sharing!ReaderTakes(p) \/ Sharing!ReaderWrites(p)
      \/ \E p \in Peers : \/ Handshake(p) \/ Request(p) \/ Sharing!Enqueue(p) \/ Sharing!Store(p)
                          \/ \E h \in Objs : Sharing!Receive(p, h)
      \/ \E t \in Sharing!Announcers : Sharing!Again(t) \/ Sharing!Remember(t) \/ Sharing!Tell(t)
      \/ Sharing!MaintTakes \/ Sharing!MaintWrites \/ Sharing!Prune
      \/ \E h \in Objs : Sharing!Expire(h)
  BY DEF Sharing!Next, Handshake, Request
<1> QED BY <1>1, <1>2, <1>3, <1>5, <1>6, <1>7, <1>8

LEMMA QueuedKept ==
  ASSUME Queued, StoreStep, ThreadStep PROVE Queued'
<1> SUFFICES ASSUME NEW h \in Sharing!Unwritten'
             PROVE  h \in Sharing!Cached' \/ \E t \in Peers : obj'[t] = h /\ spc'[t] \in {"take", "write", "store"}
  BY DEF Queued
<1>1. \/ h \in Sharing!Unwritten
      \/ \E t \in Peers : obj'[t] = h /\ spc'[t] \in {"take", "store"}
  BY DEF StoreStep
<1>2. CASE h \in Sharing!Unwritten /\ h \in Sharing!Cached
  BY <1>2 DEF StoreStep
<1>3. ASSUME NEW t \in Peers, obj[t] = h, spc[t] \in {"take", "write", "store"}
      PROVE  h \in Sharing!Cached' \/ (obj'[t] = h /\ spc'[t] \in {"take", "write", "store"})
  <2>1. Works(t)
    BY DEF ThreadStep, Sharing!Announcers
  <2>2. spc[t] \notin Waiting /\ spc[t] \notin {"idle", "enqueue", "again", "targets", "tell"}
    BY <1>3 DEF Waiting
  <2>3. Rests(t) \/ Flushes(t) \/ Caches(t)
    BY <2>1, <2>2 DEF Works, Accepts, Queues, Reputs, Chooses, Tells, Ends
  <2> QED BY <1>3, <2>2, <2>3 DEF Rests, Flushes, Caches
<1> QED BY <1>1, <1>2, <1>3 DEF Queued

\* An announcer of others' objects is a connection thread.
LEMMA OthersHand ==
  ASSUME Typed, NEW t \in Sharing!Announcers, obj[t] \notin Own
  PROVE  t \in Peers /\ t \notin Own
BY DEF Typed, Hands, Sharing!Announcers

LEMMA KeptKept ==
  ASSUME Typed, Kept, Sharing!ServingAssumption, StoreStep, ThreadStep PROVE Kept'
<1>1. ASSUME NEW h \in (Sharing!Cached' \intersect alive') \ Own PROVE h \in Safe'
  <2>1. h \in alive /\ (h \in Safe => h \in Safe')
    BY DEF StoreStep
  <2>2. CASE h \in Sharing!Cached
    BY <2>1, <2>2 DEF Kept
  <2>3. ASSUME NEW t \in Sharing!Announcers, obj[t] = h, t \in Peers => spc[t] \in {"store", "again"}
        PROVE  h \in Safe'
    <3>1. t \in Peers /\ spc[t] \in {"store", "again"}
      BY <2>3, OthersHand
    <3>2. spc[t] \in Busy \ {"enqueue"}
      BY <3>1 DEF Busy, Deciding
    <3> QED BY <2>1, <2>3, <3>1, <3>2 DEF Kept
  <2> QED BY <2>2, <2>3 DEF StoreStep
<1>2. ASSUME NEW t \in Peers, spc'[t] \in Busy \ {"enqueue"}, obj'[t] \in alive'
      PROVE  obj'[t] \in Safe'
  <2>1. Works(t) /\ t \in Sharing!Announcers
    BY DEF ThreadStep, Sharing!Announcers
  <2>2. obj'[t] \in alive /\ (obj'[t] \in Safe => obj'[t] \in Safe')
    BY <1>2 DEF StoreStep
  <2>3. CASE Queues(t)
    BY <2>3 DEF Queues, Safe
  <2>4. ~ Accepts(t) /\ ~ Ends(t)
    BY <1>2 DEF Accepts, Ends, Busy, Deciding, Sharing!ServingAssumption
  <2>5. CASE Rests(t) \/ Flushes(t) \/ Caches(t) \/ Reputs(t) \/ Chooses(t) \/ Tells(t)
    <3>1. obj'[t] = obj[t]
      BY <2>5 DEF Rests, Flushes, Caches, Reputs, Chooses, Tells
    <3>2. spc[t] \in Busy \ {"enqueue"}
      <4>1. Rests(t) => spc[t] \in Busy \ {"enqueue"}
        BY <1>2 DEF Rests, Busy, Deciding, Waiting
      <4>2. Flushes(t) \/ Caches(t) \/ Chooses(t) \/ Tells(t) => spc[t] \in Busy \ {"enqueue"}
        BY DEF Flushes, Caches, Chooses, Tells, Busy, Deciding
      <4>3. Reputs(t) => spc[t] \in Busy \ {"enqueue"}
        BY DEF Reputs, Busy, Deciding, Sharing!ServingAssumption
      <4> QED BY <2>5, <4>1, <4>2, <4>3
    <3> QED BY <2>2, <3>1, <3>2 DEF Kept
  <2> QED BY <2>1, <2>3, <2>4, <2>5 DEF Works
<1> QED BY <1>1, <1>2 DEF Kept

\* What a request would find it still finds after a step, if it has not expired.
LEMMA ReachKept ==
  ASSUME Kept, StoreStep, NEW h \in (Reach \intersect alive') \ Own
  PROVE  h \in Reach'
<1>1. h \in alive
  BY DEF StoreStep
<1>2. CASE h \in db
  BY <1>2 DEF StoreStep, Reach
<1>3. CASE h \in Sharing!Cached \ Sharing!Cached'
  <2>1. h \notin Sharing!Unwritten /\ h \in Safe
    BY <1>1, <1>3 DEF StoreStep, Kept
  <2> QED BY <1>2, <2>1 DEF Safe
<1> QED BY <1>2, <1>3 DEF Reach

LEMMA OfferedKept ==
  ASSUME Typed, Kept, Offered, Sharing!ServingAssumption, StoreStep, ThreadStep, LinkStep
  PROVE  Offered'
<1>1. ASSUME NEW t \in Peers, spc'[t] \in {"targets", "tell"}, obj'[t] \in alive'
      PROVE  obj'[t] \in Reach'
  <2>1. Works(t) /\ t \notin Own
    BY DEF ThreadStep, Sharing!Announcers, Sharing!ServingAssumption
  <2>2. Reputs(t) => obj'[t] \in Reach'
    BY DEF Reputs, Reach
  <2>3. CASE Rests(t) \/ Chooses(t) \/ Tells(t)
    <3>1. obj'[t] = obj[t] /\ spc[t] \in {"targets", "tell"}
      BY <1>1, <2>3 DEF Rests, Chooses, Tells, Waiting
    <3>2. obj[t] \in alive /\ obj[t] \notin Own
      BY <1>1, <3>1 DEF StoreStep, Typed, Hands, Busy, Deciding
    <3> QED BY <1>1, <3>1, <3>2, ReachKept DEF Offered
  <2> QED BY <1>1, <2>1, <2>2, <2>3 DEF Works, Accepts, Queues, Flushes, Caches, Ends
<1>2. ASSUME NEW p \in Peers, NEW h \in (told'[p] \intersect alive') \ Own PROVE h \in Reach'
  <2>1. h \in alive
    BY DEF StoreStep
  <2>2. Hears(p)
    BY DEF LinkStep
  <2>3. h \in told[p] \union rows[p] \union Sharing!Cached => h \in Reach
    BY <2>1 DEF Offered, Reach
  <2>4. ASSUME NEW t \in Sharing!Announcers, spc[t] = "tell", obj[t] = h PROVE h \in Reach
    BY <2>1, <2>4, OthersHand DEF Offered
  <2>5. h \in Reach
    BY <2>2, <2>3, <2>4 DEF Hears
  <2> QED BY <2>5, ReachKept
<1>3. ASSUME NEW p \in Peers PROVE rows'[p] \intersect alive' \subseteq db'
  <2>1. rows'[p] \subseteq rows[p] \/ (rows'[p] \subseteq db \intersect alive /\ db' = db)
    BY DEF LinkStep, Hears
  <2> QED BY <2>1 DEF Offered, StoreStep
<1> QED BY <1>1, <1>2, <1>3 DEF Offered

LEMMA AnsweredKept ==
  ASSUME Offered, Answered, StoreStep, LinkStep, DeniedStep
  PROVE  Answered'
<1>1. ASSUME NEW p \in Peers, spc'[p] = "missing", NEW h \in (wanted'[p] \intersect alive') \ Own
      PROVE  h \in found'[p] \union db'
  <2>1. Fetches(p) /\ h \in alive /\ (h \in db => h \in db')
    BY DEF LinkStep, StoreStep
  <2>2. CASE spc[p] = "missing" /\ wanted'[p] = wanted[p] /\ found'[p] = found[p]
    BY <2>1, <2>2 DEF Answered
  <2>3. CASE wanted'[p] \subseteq told[p] /\ found'[p] = wanted'[p] \intersect Sharing!Cached
    <3>1. h \in Reach
      BY <2>1, <2>3 DEF Offered
    <3> QED BY <2>1, <2>3, <3>1 DEF Reach
  <2> QED BY <1>1, <2>1, <2>2, <2>3 DEF Fetches
<1>2. ASSUME NEW p \in Peers, spc'[p] = "answer", NEW h \in (wanted'[p] \intersect alive') \ Own
      PROVE  h \in found'[p]
  <2>1. Fetches(p) /\ h \in alive
    BY DEF LinkStep, StoreStep
  <2> QED BY <1>2, <2>1 DEF Fetches, Answered
<1>3. denied' \subseteq Own
  BY DEF DeniedStep, Answered
<1> QED BY <1>1, <1>2, <1>3 DEF Answered

\* Who will tell an established connection does so, whatever happens first.
LEMMA WillTellKept ==
  ASSUME Typed, Sharing!ServingAssumption, ThreadStep, NEW p \in up, p \in up', NEW h \in Objs,
         WillTell(h, p)
  PROVE  WillTell(h, p)' \/ h \in told'[p]
<1>1. PICK t \in Sharing!Announcers \ {p} :
        obj[t] = h /\ (spc[t] \in Deciding \/ (spc[t] = "tell" /\ p \in targets[t]))
  BY DEF WillTell
<1>2. Works(t) /\ spc[t] # "idle" /\ spc[t] \in Busy
  BY <1>1 DEF ThreadStep, Deciding, Busy
<1>3. ASSUME obj'[t] = h, spc'[t] \in Deciding \/ (spc'[t] = "tell" /\ p \in targets'[t])
      PROVE  WillTell(h, p)'
  BY <1>1, <1>3 DEF WillTell, Sharing!Announcers
<1>4. ~ Accepts(t) /\ ~ Ends(t)
  BY <1>1, <1>2 DEF Accepts, Ends, Deciding
<1>5. CASE Rests(t)
  BY <1>1, <1>2, <1>3, <1>5 DEF Rests, Waiting, Busy, Deciding
<1>6. CASE Queues(t) \/ Flushes(t) \/ Caches(t) \/ Reputs(t)
  BY <1>1, <1>3, <1>6 DEF Queues, Flushes, Caches, Reputs, Deciding
<1>7. CASE Chooses(t)
  BY <1>1, <1>3, <1>7 DEF Chooses
<1>8. CASE Tells(t)
  BY <1>1, <1>3, <1>8 DEF Tells, Deciding
<1> QED BY <1>2, <1>4, <1>5, <1>6, <1>7, <1>8 DEF Works

\* An object that was not held before is in the hands of an announcer: of the
\* connection whose peer sent it, or of one that will tell the peer.
LEMMA NewlyHeld ==
  ASSUME Typed, Sharing!ServingAssumption, StoreStep, LinkStep, NEW p \in Peers,
         NEW h, Sharing!Holds(h)', ~ Sharing!Holds(h)
  PROVE  WillTell(h, p)' \/ h \in has'[p]
<1>1. /\ h \in Sharing!Cached' \/ h \in db' \/ h \in Sharing!Unwritten'
      /\ h \notin Sharing!Cached /\ h \notin Safe /\ h \notin Sharing!Unwritten
  BY DEF Sharing!Holds, Safe
<1>2. PICK t \in Sharing!Announcers :
        /\ obj[t] = h /\ obj'[t] = h /\ spc'[t] \in Deciding
        /\ t \in Peers => spc[t] \in {"enqueue", "store", "again"}
  <2>1. CASE h \in Sharing!Unwritten'
    BY <1>1, <2>1 DEF StoreStep, Sharing!Announcers, Deciding
  <2>2. CASE h \in Sharing!Cached'
    BY <1>1, <2>2 DEF StoreStep, Deciding
  <2> QED BY <1>1, <2>1, <2>2 DEF StoreStep
<1>3. CASE t = p
  <2>1. spc[p] \in Busy /\ spc[p] # "idle"
    BY <1>2, <1>3 DEF Busy, Deciding
  <2>2. obj[p] \in has[p] /\ has[p] \subseteq has'[p]
    BY <2>1 DEF Typed, Hands, LinkStep, Hears
  <2> QED BY <1>2, <1>3, <2>2
<1>4. CASE t # p
  BY <1>2, <1>4 DEF WillTell, Sharing!Announcers
<1> QED BY <1>3, <1>4

LEMMA InformedKept ==
  ASSUME Typed, Queued, Informed, Sharing!ServingAssumption, IsFiniteSet(Objs),
         Cardinality(Objs) <= RowsMax, StoreStep, ThreadStep, LinkStep, Links'
  PROVE  Informed'
<1>u. alive \subseteq Objs
  BY DEF Typed, Links, Stores, Greeted
<1>1. ASSUME NEW p \in Peers, p \in Greeted', spc'[p] # "rows", NEW h \in alive'
      PROVE  /\ p \in Greeted /\ h \in alive /\ h \in Objs
             /\ told[p] \subseteq told'[p] /\ has[p] \subseteq has'[p]
             /\ WillTell(h, p) => WillTell(h, p)' \/ h \in told'[p]
  <2>1. Hears(p)
    BY DEF LinkStep
  <2>2. p \in Greeted /\ p \in up /\ p \in up'
    BY <1>1, <2>1 DEF Hears, Greeted
  <2>3. h \in alive /\ h \in Objs
    BY <1>u DEF StoreStep
  <2>4. told[p] \subseteq told'[p] /\ has[p] \subseteq has'[p]
    BY <2>1, <2>2 DEF Hears
  <2> QED BY <2>2, <2>3, <2>4, WillTellKept
<1>2. ASSUME NEW p \in Peers, Alone(p), NEW h
      PROVE  (Sharing!Holds(h)' <=> Sharing!Holds(h)) /\ Sharing!Cached' = Sharing!Cached
  <2>1. Sharing!Cached' = Sharing!Cached /\ Sharing!Unwritten' = Sharing!Unwritten /\ db' = db
    BY <1>2, QuietStores DEF Alone, Quiet
  <2> QED BY <2>1 DEF Sharing!Holds
<1>3. ASSUME NEW p \in Peers, p \in Greeted', spc'[p] \notin {"rows", "cache"},
             NEW h \in alive', Sharing!Holds(h)'
      PROVE  h \in told'[p] \union has'[p] \/ WillTell(h, p)'
  <2>1. /\ p \in Greeted /\ h \in alive
        /\ told[p] \subseteq told'[p] /\ has[p] \subseteq has'[p]
        /\ WillTell(h, p) => WillTell(h, p)' \/ h \in told'[p]
    BY <1>1, <1>3
  <2>2. Hears(p)
    BY DEF LinkStep
  <2>3. spc[p] # "rows"
    BY <1>3, <2>2 DEF Hears
  <2>4. CASE ~ Sharing!Holds(h)
    BY <1>3, <2>4, NewlyHeld
  <2>5. CASE spc[p] = "cache"
    <3>1. Alone(p) /\ told'[p] = told[p] \union rows[p] \union Sharing!Cached
      BY <1>3, <2>2, <2>5 DEF Hears
    <3>2. Sharing!Holds(h)
      BY <1>2, <1>3, <3>1
    <3>3. h \in rows[p] \union Sharing!Cached \union told[p] \union has[p] \/ WillTell(h, p)
      BY <2>1, <2>5, <3>2 DEF Informed
    <3> QED BY <2>1, <3>1, <3>3
  <2>6. CASE Sharing!Holds(h) /\ spc[p] # "cache"
    <3>1. h \in told[p] \union has[p] \/ WillTell(h, p)
      BY <2>1, <2>3, <2>6 DEF Informed, Listening
    <3> QED BY <2>1, <3>1
  <2> QED BY <2>4, <2>5, <2>6
<1>4. ASSUME NEW p \in Peers, p \in Greeted', spc'[p] = "cache", NEW h \in alive', Sharing!Holds(h)'
      PROVE  h \in rows'[p] \union Sharing!Cached' \union told'[p] \union has'[p] \/ WillTell(h, p)'
  <2>1. /\ p \in Greeted /\ h \in alive
        /\ told[p] \subseteq told'[p] /\ has[p] \subseteq has'[p]
        /\ WillTell(h, p) => WillTell(h, p)' \/ h \in told'[p]
    BY <1>1, <1>4
  <2>2. Hears(p)
    BY DEF LinkStep
  <2>3. CASE ~ Sharing!Holds(h)
    BY <1>4, <2>3, NewlyHeld
  <2>4. CASE spc[p] = "cache" /\ rows'[p] = rows[p] /\ Sharing!Holds(h)
    <3>1. h \in rows[p] \union Sharing!Cached \union told[p] \union has[p] \/ WillTell(h, p)
      BY <2>1, <2>4 DEF Informed
    <3>2. h \in Sharing!Cached => h \in Sharing!Cached'
      BY <2>4 DEF StoreStep
    <3> QED BY <2>1, <2>4, <3>1, <3>2
  <2>5. CASE spc[p] = "rows" /\ Alone(p) /\ rows'[p] = db \intersect alive
    <3>1. Sharing!Holds(h) /\ Sharing!Cached' = Sharing!Cached
      BY <1>2, <1>4, <2>5
    <3>2. CASE h \in Sharing!Cached \union db
      BY <2>1, <2>5, <3>1, <3>2
    <3>3. ASSUME NEW t \in Peers, obj[t] = h, spc[t] \in {"take", "write", "store"}
          PROVE  WillTell(h, p)'
      <4>1. t \in Sharing!Announcers \ {p}
        BY <2>5, <3>3 DEF Sharing!Announcers
      <4>2. obj'[t] = h /\ spc'[t] \in Deciding
        BY <2>5, <3>3, <4>1 DEF Alone, Quiet, Deciding
      <4> QED BY <4>1, <4>2 DEF WillTell, Sharing!Announcers
    <3> QED BY <3>1, <3>2, <3>3 DEF Sharing!Holds, Queued
  <2> QED BY <1>4, <2>2, <2>3, <2>4, <2>5 DEF Hears
<1>5. Greeted' \subseteq Peers
  BY DEF Greeted, Links
<1> QED BY <1>3, <1>4, <1>5 DEF Informed, Listening

-----------------------------------------------------------------------------
(* The theorem                                                               *)

ServingInv == Typed /\ Copies /\ Queued /\ Kept /\ Offered /\ Answered /\ Informed

LEMMA ServingSteps ==
  ASSUME Sharing!ServingAssumption, IsFiniteSet(Objs), Cardinality(Objs) <= RowsMax,
         ServingInv, Sharing!Next
  PROVE  ServingInv'
<1>1. Typed /\ Copies /\ Queued /\ Kept /\ Offered /\ Answered /\ Informed
  BY DEF ServingInv
<1>2. StoreStep /\ ThreadStep /\ LinkStep /\ DeniedStep /\ Typed'
  BY <1>1, Steps
<1>3. Links'
  BY <1>2 DEF Typed
<1>4. Copies' /\ Queued' /\ Kept' /\ Offered' /\ Answered' /\ Informed'
  BY <1>1, <1>2, <1>3, CopiesKept, QueuedKept, KeptKept, OfferedKept, AnsweredKept, InformedKept
<1> QED BY <1>2, <1>4 DEF ServingInv

\* What has nothing to do with Serving keeps its invariant.
LEMMA ServingRests ==
  ASSUME ServingInv, UNCHANGED serveVars PROVE ServingInv'
<1> USE DEF serveVars
<1>1. /\ Sharing!Cached' = Sharing!Cached /\ Sharing!Unwritten' = Sharing!Unwritten
      /\ Safe' = Safe /\ Reach' = Reach /\ Stores' /\ Memory'
  BY QuietStores DEF ServingInv, Typed
<1>2. Typed' /\ Copies'
  BY <1>1 DEF ServingInv, Typed, Links, Asks, Workers, Hands, Copies
<1>3. Queued' /\ Kept' /\ Offered' /\ Answered'
  BY <1>1 DEF ServingInv, Queued, Kept, Offered, Answered
<1>4. Informed'
  <2>1. \A h : Sharing!Holds(h)' <=> Sharing!Holds(h)
    BY <1>1 DEF Sharing!Holds
  <2>2. \A h, p : WillTell(h, p)' <=> WillTell(h, p)
    BY DEF WillTell
  <2>3. Listening' = Listening /\ Greeted' = Greeted
    BY DEF Listening, Greeted
  <2> QED BY <1>1, <2>1, <2>2, <2>3 DEF ServingInv, Informed
<1> QED BY <1>2, <1>3, <1>4 DEF ServingInv

LEMMA ServingImplies ==
  ASSUME Sharing!ServingAssumption, ServingInv
  PROVE  Sharing!TypeOK /\ Sharing!Spreads
<1>1. Typed /\ Offered /\ Answered /\ Informed
  BY DEF ServingInv
<1>2. ram \in Sharing!BoundedSeq(Objs, RamMax) /\ Sharing!IsInjective(ram)
  <2>1. ram \in Seq(Objs) /\ Len(ram) <= RamMax /\ Distinct(ram) /\ RamMax \in Nat
    BY <1>1 DEF Typed, Memory, Sharing!ServingAssumption
  <2> QED BY <2>1, BoundedRam DEF Distinct, Sharing!IsInjective
<1>3. flushing \in [Sharing!Flushers -> SUBSET Objs]
  BY <1>1 DEF Typed, Stores
<1>4. Sharing!TypeOK
  BY <1>1, <1>2, <1>3 DEF Typed, Stores, Links, Asks, Workers, Answered, Sharing!TypeOK,
                         Sharing!ServingAssumption
<1>5. Sharing!Fetchable
  BY <1>1 DEF Answered, Sharing!Fetchable
<1>6. Sharing!EveryoneTold
  <2> SUFFICES ASSUME NEW p \in up \intersect greeted, spc[p] \notin {"rows", "cache"},
                      NEW h \in alive, Sharing!Holds(h), ~ Sharing!Announcing(h)
               PROVE  h \in told[p] \union has[p]
    BY DEF Sharing!EveryoneTold
  <2>1. h \in told[p] \union has[p] \/ WillTell(h, p)
    BY <1>1 DEF Informed, Listening, Greeted
  <2>2. ~ WillTell(h, p)
    <3>1. ASSUME NEW t \in Sharing!Announcers, obj[t] = h, spc[t] \in Busy PROVE FALSE
      BY <3>1 DEF Sharing!Announcing, Busy, Deciding
    <3> QED BY <3>1 DEF WillTell, Busy
  <2> QED BY <2>1, <2>2
<1> QED BY <1>4, <1>5, <1>6 DEF Sharing!Spreads
=============================================================================
