----------------------------- MODULE PartsProofs -----------------------------
(* Theorems about components of MCParts, for any values of the constants     *)
(* their assumptions allow.  A component's invariant is stated for the       *)
(* behaviours of that component; the others leave its variables alone.       *)
EXTENDS MCParts, NetworkProofs, FiniteSetTheorems, TLAPS

-----------------------------------------------------------------------------
(* Finite sets of integers in their order                                    *)

Rank(S, i) == Cardinality({j \in S : j <= i})

\* The elements of a finite set of integers, counted from the smallest: every
\* rank up to the size of the set is taken, by one element.
LEMMA RankOrder ==
  ASSUME NEW S, S \subseteq Int, IsFiniteSet(S), NEW i \in S, NEW j \in S, i < j
  PROVE  Rank(S, i) < Rank(S, j)
<1> DEFINE A == {k \in S : k <= i}
           B == {k \in S : k <= j}
<1>1. IsFiniteSet(B) /\ A \subseteq B /\ j \in B /\ j \notin A
  <2>1. IsFiniteSet(B)
    BY FS_Subset
  <2>0. i \in Int /\ j \in Int /\ \A k \in S : k \in Int
    OBVIOUS
  <2>2. ASSUME NEW k \in A PROVE k \in B
    BY <2>0
  <2>3. j \in B
    BY <2>0
  <2>4. j \notin A
    BY <2>0
  <2> QED BY <2>1, <2>2, <2>3, <2>4
<1>2. Cardinality(A) <= Cardinality(B) /\ (Cardinality(B) = Cardinality(A) => B = A)
  BY <1>1, FS_Subset
<1>3. IsFiniteSet(A) /\ Cardinality(A) \in Nat /\ Cardinality(B) \in Nat
  BY <1>1, FS_Subset, FS_CardinalityType
<1> HIDE DEF A, B
<1>4. Cardinality(A) < Cardinality(B)
  BY <1>1, <1>2, <1>3
<1> QED BY <1>4 DEF Rank, A, B

LEMMA Ranks ==
  ASSUME NEW S, S \subseteq Int, IsFiniteSet(S)
  PROVE  /\ Cardinality(S) \in Nat
         /\ \A i \in S : Rank(S, i) \in 1..Cardinality(S)
         /\ \A i, j \in S : Rank(S, i) = Rank(S, j) => i = j
         /\ \A k \in 1..Cardinality(S) : \E i \in S : Rank(S, i) = k
<1> DEFINE n == Cardinality(S)
           f == [i \in S |-> Rank(S, i)]
<1>1. n \in Nat
  BY FS_CardinalityType
<1>2. ASSUME NEW i \in S PROVE Rank(S, i) \in 1..n
  <2> DEFINE A == {k \in S : k <= i}
  <2>1. IsFiniteSet(A) /\ Cardinality(A) <= n
    BY FS_Subset
  <2>2. i \in A
    OBVIOUS
  <2>3. Cardinality(A) \in Nat /\ Cardinality(A) # 0
    BY <2>1, <2>2, FS_CardinalityType, FS_EmptySet
  <2> HIDE DEF A
  <2>4. Cardinality(A) \in 1..n
    BY <2>1, <2>3, <1>1
  <2> QED BY <2>4 DEF Rank, A
<1>3. ASSUME NEW i \in S, NEW j \in S, Rank(S, i) = Rank(S, j) PROVE i = j
  <2>1. Rank(S, i) \in Int
    BY <1>2
  <2>2. i \in Int /\ j \in Int
    OBVIOUS
  <2>3. ASSUME i < j PROVE FALSE
    <3>1. Rank(S, i) < Rank(S, j)
      BY <2>3, RankOrder
    <3> QED BY <1>3, <2>1, <3>1
  <2>4. ASSUME j < i PROVE FALSE
    <3>1. Rank(S, j) < Rank(S, i)
      BY <2>4, RankOrder
    <3> QED BY <1>3, <2>1, <3>1
  <2> QED BY <2>2, <2>3, <2>4
<1>4. f \in Injection(S, 1..n)
  BY <1>2, <1>3 DEF Injection, IsInjective
<1>5. IsFiniteSet(1..n) /\ Cardinality(1..n) = n
  BY <1>1, FS_Interval
<1>6. f \in Surjection(S, 1..n)
  <2>1. Cardinality(S) = Cardinality(1..n)
    BY <1>5
  <2> HIDE DEF f, n
  <2> QED BY <1>4, <1>5, <2>1, FS_Injection
<1>7. ASSUME NEW k \in 1..n PROVE \E i \in S : Rank(S, i) = k
  BY <1>6 DEF Surjection
<1> QED BY <1>1, <1>2, <1>3, <1>7

-----------------------------------------------------------------------------
(* Backup                                                                    *)

\* What each point of the dialogs knows: a restoration works on a stopped
\* client without a log, from a temporary file that is the backup, and with
\* what was in use still in place or in .bak.
Dialogs ==
  /\ bpc \in {"export", "decrypted"} => client = "up"
  /\ bpc \in {"stopped", "copied", "swapped", "failed"}
       => client = "closed" /\ wal = None /\ flushed = {}
  /\ bpc \in {"decrypted", "stopped", "copied"} => temp = backup /\ backup # None
  /\ bpc \in {"stopped", "copied"} => before = main
  /\ bpc \in {"copied", "swapped"} => bak \in {before, Torn}
  /\ bpc = "swapped" => main = backup

\* An export has read some of the pages.
Reading == \E S \in SUBSET Pages : image \in [S -> Backups!Versions]

\* The pages a checkpoint has written are those of the log.
Flushing ==
  /\ wal = None => flushed = {}
  /\ \A p \in flushed : main[p] = wal

\* NothingLost page by page.
Newest == ~ restored => \A p \in Pages : version = IF wal = None THEN main[p] ELSE wal

BackupInv == Backups!TypeOK /\ Reading /\ Dialogs /\ Flushing /\ Newest

LEMMA BackupStart ==
  ASSUME PartsAssumption, Backups!Init PROVE BackupInv
<1> USE DEF PartsAssumption, Backups!BackupAssumption, Backups!Versions, Backups!Images,
            Backups!Init
<1>1. Reading /\ DOMAIN image = {}
  <2>1. image \in [{} -> 0..MaxVersion]
    OBVIOUS
  <2> QED BY <2>1 DEF Reading
<1>2. Backups!TypeOK
  <2>1. main \in [Pages -> 0..MaxVersion]
    OBVIOUS
  <2>2. /\ version \in 0..MaxVersion /\ wal \in 0..MaxVersion \union {None} /\ flushed \subseteq Pages
        /\ crashes \in 0..MaxCrashes
    OBVIOUS
  <2>6. restored \in BOOLEAN
    OBVIOUS
  <2>3. /\ client \in {"up", "closed", "down"}
        /\ bpc \in {"idle", "export", "decrypted", "stopped", "copied", "swapped", "failed"}
    OBVIOUS
  <2>4. /\ backup \in Backups!Images \union {None} /\ temp \in Backups!Images \union {None}
        /\ before \in Backups!Images \union {None} /\ bak \in Backups!Images \union {None, Torn}
    OBVIOUS
  <2>5. DOMAIN image \subseteq Pages /\ \A p \in DOMAIN image : image[p] \in 0..MaxVersion
    BY <1>1
  <2> HIDE DEF Backups!Init
  <2> QED BY <2>1, <2>2, <2>3, <2>4, <2>5, <2>6 DEF Backups!TypeOK
<1>3. Dialogs /\ Flushing /\ Newest
  BY DEF Dialogs, Flushing, Newest
<1> QED BY <1>1, <1>2, <1>3 DEF BackupInv

LEMMA BackupSteps ==
  ASSUME PartsAssumption, BackupInv, Backups!Next PROVE BackupInv'
<1> USE DEF PartsAssumption, Backups!BackupAssumption, Backups!Versions, Backups!Images,
            BackupInv, Backups!TypeOK, Reading, Dialogs, Flushing, Newest, Backups!files
<1>1. CASE Backups!Commit
  <2>1. wal' \in 0..MaxVersion /\ wal' # None /\ wal' = version' /\ flushed' = {}
    BY <1>1 DEF Backups!Commit
  <2>2. bpc \notin {"stopped", "copied", "swapped", "failed"}
    BY <1>1 DEF Backups!Commit
  <2> QED BY <1>1, <2>1, <2>2 DEF Backups!Commit
<1>2. CASE Backups!Export
  BY <1>2 DEF Backups!Export
<1>3. CASE Backups!WriteBackup
  <2>1. image \in [Pages -> 0..MaxVersion] /\ image' \in [{} -> 0..MaxVersion] /\ DOMAIN image' = {}
    BY <1>3 DEF Backups!WriteBackup
  <2>2. Reading'
    BY <2>1
  <2> QED BY <1>3, <2>1, <2>2 DEF Backups!WriteBackup
<1>4. ASSUME NEW p \in Pages, Backups!Checkpoint(p) PROVE BackupInv'
  <2> USE <1>4 DEF Backups!Checkpoint
  <2>1. /\ main' \in [Pages -> 0..MaxVersion] /\ wal \in 0..MaxVersion
        /\ \A q \in Pages : main'[q] = IF q = p THEN wal ELSE main[q]
    OBVIOUS
  <2>2. bpc \notin {"stopped", "copied", "swapped", "failed"}
    OBVIOUS
  <2>3. CASE flushed \union {p} = Pages
    <3>1. flushed' = {} /\ wal' = None /\ \A q \in Pages : main'[q] = wal
      BY <2>1, <2>3
    <3> QED BY <2>1, <2>2, <3>1
  <2>4. CASE flushed \union {p} # Pages
    <3>1. flushed' = flushed \union {p} /\ wal' = wal
      BY <2>4
    <3> QED BY <2>1, <2>2, <3>1
  <2> QED BY <2>3, <2>4
<1>5. ASSUME NEW p \in Pages, Backups!ReadPage(p) PROVE BackupInv'
  BY <1>5 DEF Backups!ReadPage
<1>6. CASE Backups!Decrypt
  BY <1>6 DEF Backups!Decrypt
<1>7. CASE Backups!StopClient
  BY <1>7 DEF Backups!StopClient, Backups!ClosesDb, Backups!Shown
<1>8. CASE Backups!CopyOld
  BY <1>8 DEF Backups!CopyOld
<1>9. CASE Backups!Swap
  BY <1>9 DEF Backups!Swap
<1>10. CASE Backups!StartRaises
  BY <1>10 DEF Backups!StartRaises
<1>11. CASE Backups!Quit
  BY <1>11 DEF Backups!Quit, Backups!ClosesDb, Backups!Shown
<1>12. CASE Backups!Crash
  <2>1. image' \in [{} -> 0..MaxVersion] /\ DOMAIN image' = {}
    BY <1>12 DEF Backups!Crash
  <2>2. Reading'
    BY <2>1
  <2>3. bak' \in Backups!Images \union {None, Torn}
    BY <1>12 DEF Backups!Crash
  <2>4. crashes' \in 0..MaxCrashes
    BY <1>12 DEF Backups!Crash
  <2> HIDE DEF Reading
  <2> QED BY <1>12, <2>1, <2>2, <2>3, <2>4 DEF Backups!Crash
<1>13. CASE Backups!Open
  BY <1>13 DEF Backups!Open
<1> QED
  BY <1>1, <1>2, <1>3, <1>4, <1>5, <1>6, <1>7, <1>8, <1>9, <1>10, <1>11, <1>12, <1>13
     DEF Backups!Next

LEMMA BackupImplies ==
  ASSUME PartsAssumption, BackupInv PROVE Backups!TypeOK /\ Backups!BackupSafe
BY DEF PartsAssumption, Backups!BackupAssumption, Backups!Versions, Backups!Images, BackupInv,
       Backups!TypeOK, Reading, Dialogs, Flushing, Newest, Backups!Shown, Backups!BackupSafe,
       Backups!NothingLost, Backups!RestoredExactly

\* Nothing committed is lost before a backup replaces it, and a restoration
\* shows exactly what was sealed, wherever the program stops (gui/app.py,
\* crypto/encrypted_db.py): for any pages, commits and crashes.
THEOREM BackupsSafe == Spec => []BackupSafe
<1> DEFINE Inv == part = "backups" => BackupInv
<1>1. Init => Inv
  BY PartsAssumption, BackupStart DEF Init
<1>2. Inv /\ [Next]_vars => Inv'
  <2> SUFFICES ASSUME Inv, [Next]_vars, part' = "backups" PROVE BackupInv'
    OBVIOUS
  <2>1. part = "backups" /\ BackupInv
    BY DEF Next, vars
  <2>2. CASE Backups!Next
    BY <2>1, <2>2, PartsAssumption, BackupSteps
  <2>3. CASE UNCHANGED vars
    BY <2>1, <2>3 DEF vars, backupVars, BackupInv, Backups!TypeOK, Reading, Dialogs, Flushing, Newest
  <2> QED BY <2>1, <2>2, <2>3 DEF Next
<1>3. Inv => BackupSafe
  BY PartsAssumption, BackupImplies DEF BackupSafe
<1> QED BY <1>1, <1>2, <1>3, PTL DEF Spec

-----------------------------------------------------------------------------
(* Updater                                                                   *)

\* A bounded sequence of the community module is a sequence of that length.
LEMMA BoundedAnswers ==
  ASSUME NEW S, NEW n \in Nat, NEW s
  PROVE  s \in Updates!BoundedSeq(S, n) <=> s \in Seq(S) /\ Len(s) <= n
<1>1. ASSUME s \in Updates!BoundedSeq(S, n) PROVE s \in Seq(S) /\ Len(s) <= n
  <2>1. PICK m \in 0..n : s \in [1..m -> S]
    BY <1>1 DEF Updates!BoundedSeq, Updates!SeqOf
  <2> QED BY <2>1
<1>2. ASSUME s \in Seq(S), Len(s) <= n PROVE s \in Updates!BoundedSeq(S, n)
  <2>1. Len(s) \in 0..n /\ s \in [1..Len(s) -> S]
    BY <1>2
  <2> QED BY <2>1 DEF Updates!BoundedSeq, Updates!SeqOf
<1> QED BY <1>1, <1>2

\* What is in a sequence after an element is put at its end or taken from its
\* front.
LEMMA BoundedEvents ==
  ASSUME NEW S, NEW n \in Nat, NEW s
  PROVE  s \in Events!BoundedSeq(S, n) <=> s \in Seq(S) /\ Len(s) <= n
BY BoundedAnswers DEF Events!BoundedSeq, Events!SeqOf, Updates!BoundedSeq, Updates!SeqOf

LEMMA AppendHolds ==
  ASSUME NEW S, NEW s \in Seq(S), NEW e \in S
  PROVE  /\ Append(s, e) \in Seq(S) /\ Len(Append(s, e)) = Len(s) + 1
         /\ Append(s, e)[Len(s) + 1] = e
         /\ \A i \in 1..Len(s) : Append(s, e)[i] = s[i]
OBVIOUS

LEMMA TailHolds ==
  ASSUME NEW S, NEW s \in Seq(S), s # <<>>
  PROVE  /\ Tail(s) \in Seq(S) /\ Len(s) \in Nat \ {0} /\ Len(Tail(s)) = Len(s) - 1
         /\ Head(s) = s[1] /\ s[1] \in S
         /\ \A i \in 1..(Len(s) - 1) : Tail(s)[i] = s[i + 1]
OBVIOUS

\* Results of an update that wait in the UI queue.
ResultWaits == \E i \in 1..Len(answers) : answers[i] \in {"done", "failed"}

UpdateTypes ==
  /\ remote \in 0..MaxCommit /\ fetched \in 0..remote /\ head \in 0..fetched
  /\ running \in 0..head
  /\ ahead \in BOOLEAN /\ dirty \in BOOLEAN
  /\ flags \subseteq Updates!Flags
  /\ upc \in [Threads -> Updates!PCs] /\ result \in [Threads -> BOOLEAN]
  /\ answers \in Seq(Updates!Events) /\ Len(answers) <= AnswersCap
  /\ offered \in BOOLEAN /\ timer \in BOOLEAN
  /\ uphase \in {"up", "closed", "boot", "stranded"}
  /\ {input, saved, carried} \subseteq Texts \union {None}
  /\ stale \in BOOLEAN
  /\ ulost \in 0..MaxLost

CheckingInv == "checking" \in flags => \E t \in Threads : upc[t] \in Updates!Checking

ApplyingInv ==
  "applying" \in flags => \/ \E t \in Threads : upc[t] \in Updates!Applying
                          \/ ResultWaits \/ ulost > 0

\* A draft is saved only by a restart, which leads to "boot", or by one that
\* failed: then the window stays stranded until the user closes it.
DraftInv ==
  /\ uphase = "boot" /\ ~ stale => saved = carried
  /\ uphase \in {"up", "closed"} /\ ~ stale => saved = None
  /\ uphase = "stranded" => stale

UpdateInv == UpdateTypes /\ CheckingInv /\ ApplyingInv /\ DraftInv

LEMMA UpdateConstants ==
  ASSUME PartsAssumption
  PROVE  MaxCommit \in Nat /\ MaxLost \in Nat /\ AnswersCap \in Nat /\ None \notin Texts
BY DEF PartsAssumption, Updates!UpdaterAssumption

LEMMA UpdateStart ==
  ASSUME PartsAssumption, Updates!Init PROVE UpdateInv
<1> USE UpdateConstants DEF Updates!Init
<1>1. UpdateTypes
  <2>1. upc \in [Threads -> Updates!PCs] /\ result \in [Threads -> BOOLEAN]
    BY DEF Updates!PCs
  <2>2. /\ ahead \in BOOLEAN /\ dirty \in BOOLEAN /\ offered \in BOOLEAN /\ timer \in BOOLEAN
        /\ stale \in BOOLEAN
    OBVIOUS
  <2>3. answers \in Seq(Updates!Events) /\ Len(answers) <= AnswersCap
    OBVIOUS
  <2>4. /\ remote \in 0..MaxCommit /\ fetched \in 0..remote /\ head \in 0..fetched
        /\ running \in 0..head /\ ulost \in 0..MaxLost
    OBVIOUS
  <2> QED BY <2>1, <2>2, <2>3, <2>4 DEF UpdateTypes
<1> QED BY <1>1 DEF UpdateInv, CheckingInv, ApplyingInv, DraftInv

LEMMA PutAnswer ==
  ASSUME PartsAssumption, UpdateTypes, NEW e \in Updates!Events, Updates!Put(e)
  PROVE  /\ answers' \in Seq(Updates!Events) /\ Len(answers') <= AnswersCap
         /\ e \in {"done", "failed"} \/ ResultWaits => ResultWaits'
<1>1. /\ Append(answers, e) \in Seq(Updates!Events) /\ Len(Append(answers, e)) = Len(answers) + 1
      /\ Append(answers, e)[Len(answers) + 1] = e
      /\ \A i \in 1..Len(answers) : Append(answers, e)[i] = answers[i]
  BY AppendHolds DEF UpdateTypes
<1>2. answers' = Append(answers, e) /\ Len(answers) < AnswersCap /\ Len(answers) \in Nat
  BY DEF Updates!Put, UpdateTypes
<1>3. answers' \in Seq(Updates!Events) /\ Len(answers') <= AnswersCap
  BY <1>1, <1>2, UpdateConstants
<1>4. ASSUME e \in {"done", "failed"} PROVE ResultWaits'
  <2>1. Len(answers) + 1 \in 1..Len(answers') /\ answers'[Len(answers) + 1] = e
    BY <1>1, <1>2
  <2> QED BY <2>1, <1>4 DEF ResultWaits
<1>5. ASSUME ResultWaits PROVE ResultWaits'
  <2>1. PICK i \in 1..Len(answers) : answers[i] \in {"done", "failed"}
    BY <1>5 DEF ResultWaits
  <2>2. i \in 1..Len(answers') /\ answers'[i] = answers[i]
    BY <1>1, <1>2
  <2> QED BY <2>1, <2>2 DEF ResultWaits
<1> QED BY <1>3, <1>4, <1>5

LEMMA TakeAnswer ==
  ASSUME UpdateTypes, answers # <<>>, answers' = Tail(answers), PartsAssumption
  PROVE  /\ answers' \in Seq(Updates!Events) /\ Len(answers') <= AnswersCap
         /\ Head(answers) \in Updates!Events
         /\ Head(answers) \notin {"done", "failed"} /\ ResultWaits => ResultWaits'
<1>1. /\ Tail(answers) \in Seq(Updates!Events) /\ Len(answers) \in Nat \ {0}
      /\ Len(Tail(answers)) = Len(answers) - 1
      /\ Head(answers) = answers[1] /\ answers[1] \in Updates!Events
      /\ \A i \in 1..(Len(answers) - 1) : Tail(answers)[i] = answers[i + 1]
  BY TailHolds DEF UpdateTypes
<1>2. answers' \in Seq(Updates!Events) /\ Len(answers') <= AnswersCap
  BY <1>1, UpdateConstants DEF UpdateTypes
<1>3. ASSUME Head(answers) \notin {"done", "failed"}, ResultWaits PROVE ResultWaits'
  <2>1. PICK i \in 1..Len(answers) : answers[i] \in {"done", "failed"}
    BY <1>3 DEF ResultWaits
  <2>2. i # 1
    BY <1>1, <1>3, <2>1
  <2>3. i - 1 \in 1..(Len(answers) - 1) /\ (i - 1) + 1 = i
    BY <2>1, <2>2, <1>1
  <2>4. i - 1 \in 1..Len(answers') /\ answers'[i - 1] = answers[i]
    BY <2>3, <1>1
  <2> QED BY <2>1, <2>4 DEF ResultWaits
<1> QED BY <1>1, <1>2, <1>3

\* The threads of the updater have names of their own for every flag they set.
LEMMA UpdateTypeSteps ==
  ASSUME PartsAssumption, UpdateTypes, Updates!Next PROVE UpdateTypes'
<1> USE UpdateConstants
<1> USE DEF UpdateTypes, Updates!Goto, Updates!gitVars, Updates!workVars, Updates!uiVars,
            Updates!draftVars, Updates!PCs, Updates!Checking, Updates!Applying, Updates!Flags
<1>1. ASSUME NEW t \in Threads,
             \/ Updates!StartAuto(t) \/ Updates!AutoCheck(t) \/ Updates!AutoMark(t)
             \/ Updates!AutoDecide(t) \/ Updates!AutoSet(t) \/ Updates!ManualCheck(t)
      PROVE  UpdateTypes'
  <2>1. CASE Updates!StartAuto(t) \/ Updates!AutoCheck(t)
    BY <2>1 DEF Updates!StartAuto, Updates!AutoCheck
  <2>2. CASE Updates!AutoMark(t) \/ Updates!AutoDecide(t)
    BY <2>2 DEF Updates!AutoMark, Updates!AutoDecide
  <2>3. CASE Updates!AutoSet(t) \/ Updates!ManualCheck(t)
    BY <2>3 DEF Updates!AutoSet, Updates!ManualCheck
  <2> QED BY <1>1, <2>1, <2>2, <2>3
<1>2. ASSUME NEW t \in Threads, Updates!AutoFetch(t) PROVE UpdateTypes'
  BY <1>2 DEF Updates!AutoFetch, Updates!CheckEnds
<1>3. ASSUME NEW t \in Threads, Updates!AutoOffer(t) PROVE UpdateTypes'
  <2>1. "offer" \in Updates!Events
    BY DEF Updates!Events
  <2>2. answers' \in Seq(Updates!Events) /\ Len(answers') <= AnswersCap
    BY <1>3, <2>1, PutAnswer DEF Updates!AutoOffer
  <2> QED BY <1>3, <2>2 DEF Updates!AutoOffer
<1>4. ASSUME NEW t \in Threads, Updates!ManualFetch(t) PROVE UpdateTypes'
  <2>1. PICK e \in {"offer", "nothing"} : Updates!Put(e)
    BY <1>4 DEF Updates!ManualFetch
  <2>2. e \in Updates!Events
    BY <2>1 DEF Updates!Events
  <2>3. answers' \in Seq(Updates!Events) /\ Len(answers') <= AnswersCap
    BY <2>1, <2>2, PutAnswer
  <2> QED BY <1>4, <2>3 DEF Updates!ManualFetch, Updates!CheckEnds
<1>e. ASSUME NEW t \in Threads, NEW ok \in BOOLEAN, Updates!Ends(t, ok)
      PROVE  upc' \in [Threads -> Updates!PCs] /\ result' \in [Threads -> BOOLEAN]
  BY <1>e DEF Updates!Ends
<1>5. ASSUME NEW t \in Threads, Updates!Clean(t) \/ Updates!Fetch(t) PROVE UpdateTypes'
  <2>1. upc' \in [Threads -> Updates!PCs] /\ result' \in [Threads -> BOOLEAN]
    <3>1. CASE Updates!Ends(t, FALSE)
      BY <1>e, <3>1
    <3>2. CASE Updates!Goto(t, "fetch") /\ UNCHANGED result
      BY <3>2
    <3>3. CASE Updates!Goto(t, "merge") /\ UNCHANGED result
      BY <3>3
    <3> QED BY <1>5, <3>1, <3>2, <3>3 DEF Updates!Clean, Updates!Fetch
  <2>2. fetched' \in {fetched, remote}
    BY <1>5 DEF Updates!Clean, Updates!Fetch
  <2>3. fetched' \in 0..remote /\ head \in 0..fetched'
    BY <2>2
  <2> QED BY <1>5, <2>1, <2>3 DEF Updates!Clean, Updates!Fetch
<1>6. ASSUME NEW t \in Threads, Updates!Merge(t) PROVE UpdateTypes'
  <2>1. upc' \in [Threads -> Updates!PCs] /\ result' \in [Threads -> BOOLEAN]
    <3>1. Updates!Ends(t, TRUE) \/ Updates!Ends(t, FALSE)
      BY <1>6 DEF Updates!Merge
    <3> QED BY <1>e, <3>1
  <2>2. head' = head \/ (fetched > head /\ head' = fetched)
    <3> HIDE DEF UpdateTypes
    <3> QED BY <1>6, Zenon DEF Updates!Merge
  <2>3. head' \in 0..fetched /\ running \in 0..head'
    BY <2>2
  <2> QED BY <1>6, <2>1, <2>3 DEF Updates!Merge
<1>7. ASSUME NEW t \in Threads, Updates!Tell(t) PROVE UpdateTypes'
  <2>1. PICK e \in {"done", "failed"} : Updates!Put(e)
    BY <1>7 DEF Updates!Tell
  <2>2. e \in Updates!Events
    BY <2>1 DEF Updates!Events
  <2>3. answers' \in Seq(Updates!Events) /\ Len(answers') <= AnswersCap
    BY <2>1, <2>2, PutAnswer
  <2> QED BY <1>7, <2>3 DEF Updates!Tell
<1>8. CASE Updates!HandleEvent
  <2>1. answers' \in Seq(Updates!Events) /\ Len(answers') <= AnswersCap
    BY <1>8, TakeAnswer DEF Updates!HandleEvent
  <2>2. offered' \in BOOLEAN /\ timer' \in BOOLEAN
    BY <1>8 DEF Updates!HandleEvent
  <2>3. flags' \subseteq Updates!Flags
    BY <1>8 DEF Updates!HandleEvent, Updates!Finished
  <2> QED BY <1>8, <2>1, <2>2, <2>3 DEF Updates!HandleEvent
<1>9. CASE Updates!Answer
  BY <1>9 DEF Updates!Answer
<1>10. CASE Updates!Booted /\ saved' \in {input, saved} /\ carried' \in {input, None}
            /\ stale' = stale
  <2>1. upc' \in [Threads -> Updates!PCs] /\ result' \in [Threads -> BOOLEAN]
    BY <1>10 DEF Updates!Booted
  <2>2. offered' \in BOOLEAN /\ timer' \in BOOLEAN
    BY <1>10 DEF Updates!Booted
  <2>3. answers' \in Seq(Updates!Events) /\ Len(answers') <= AnswersCap
    BY <1>10 DEF Updates!Booted
  <2>4. flags' \subseteq Updates!Flags /\ uphase' \in {"up", "closed", "boot", "stranded"}
    BY <1>10 DEF Updates!Booted
  <2>5. {input', saved', carried'} \subseteq Texts \union {None}
    BY <1>10 DEF Updates!Booted
  <2>6. running' \in 0..head
    BY <1>10 DEF Updates!Booted
  <2> QED BY <1>10, <2>1, <2>2, <2>3, <2>4, <2>5, <2>6 DEF Updates!Booted
<1>11. CASE Updates!RestartFails \/ Updates!RestoreDraft \/ Updates!Close
  BY <1>11 DEF Updates!RestartFails, Updates!RestoreDraft, Updates!Close, Updates!Taken
<1>12. CASE Updates!Type \/ Updates!Edit \/ Updates!CommitOwn \/ Updates!Publish
  <2>1. dirty' \in BOOLEAN /\ ahead' \in BOOLEAN
    BY <1>12 DEF Updates!Type, Updates!Edit, Updates!CommitOwn, Updates!Publish
  <2>2. remote' \in 0..MaxCommit /\ fetched \in 0..remote'
    BY <1>12 DEF Updates!Type, Updates!Edit, Updates!CommitOwn, Updates!Publish
  <2>3. input' \in Texts \union {None}
    BY <1>12 DEF Updates!Type, Updates!Edit, Updates!CommitOwn, Updates!Publish
  <2> QED BY <1>12, <2>1, <2>2, <2>3
          DEF Updates!Type, Updates!Edit, Updates!CommitOwn, Updates!Publish
<1>13. CASE Updates!Lose
  <2>1. answers' \in Seq(Updates!Events) /\ Len(answers') <= AnswersCap
    BY <1>13, TakeAnswer DEF Updates!Lose
  <2> QED BY <1>13, <2>1 DEF Updates!Lose
<1> HIDE DEF UpdateTypes
<1>14. CASE Updates!Restart \/ Updates!Start
  BY <1>10, <1>14 DEF Updates!Restart, Updates!Start, Updates!draftVars
<1> QED
  BY <1>1, <1>2, <1>3, <1>4, <1>5, <1>6, <1>7, <1>8, <1>9, <1>11, <1>12, <1>13, <1>14
     DEF Updates!Next, Updates!ThreadStep

\* A thread whose step ends its check clears the flag; the others' checks
\* leave it set only together with their own point in the code.
LEMMA CheckingSteps ==
  ASSUME UpdateTypes, CheckingInv, Updates!Next PROVE CheckingInv'
<1>1. upc \in [Threads -> Updates!PCs]
  BY DEF UpdateTypes
<1> USE DEF CheckingInv, Updates!Goto, Updates!workVars, Updates!Checking
<1>2. ASSUME NEW t \in Threads, Updates!AutoMark(t) \/ Updates!ManualCheck(t) PROVE CheckingInv'
  BY <1>1, <1>2 DEF Updates!AutoMark, Updates!ManualCheck
<1>3. ASSUME NEW t \in Threads, Updates!AutoFetch(t) \/ Updates!ManualFetch(t)
      PROVE  CheckingInv'
  BY <1>3 DEF Updates!AutoFetch, Updates!ManualFetch, Updates!CheckEnds
<1>4. ASSUME NEW t \in Threads, NEW l, upc[t] \notin Updates!Checking, Updates!Goto(t, l),
             "checking" \in flags' => "checking" \in flags
      PROVE  CheckingInv'
  <2>1. \A u \in Threads : upc[u] \in Updates!Checking => upc'[u] = upc[u]
    BY <1>1, <1>4
  <2> QED BY <1>4, <2>1
<1>5. ASSUME upc' = upc, "checking" \in flags' => "checking" \in flags PROVE CheckingInv'
  BY <1>5
<1>6. ASSUME NEW t \in Threads,
             \/ Updates!StartAuto(t) \/ Updates!AutoCheck(t) \/ Updates!AutoOffer(t)
             \/ Updates!AutoDecide(t) \/ Updates!AutoSet(t)
      PROVE  CheckingInv'
  <2>1. \E l : Updates!Goto(t, l)
    BY <1>6 DEF Updates!StartAuto, Updates!AutoCheck, Updates!AutoOffer,
                Updates!AutoDecide, Updates!AutoSet
  <2>2. upc[t] \notin Updates!Checking /\ ("checking" \in flags' => "checking" \in flags)
    BY <1>6 DEF Updates!StartAuto, Updates!AutoCheck, Updates!AutoOffer,
                Updates!AutoDecide, Updates!AutoSet
  <2> QED BY <1>4, <2>1, <2>2
<1>7. ASSUME NEW t \in Threads,
             Updates!Clean(t) \/ Updates!Fetch(t) \/ Updates!Merge(t) \/ Updates!Tell(t)
      PROVE  CheckingInv'
  <2>1. \E l : Updates!Goto(t, l)
    BY <1>7 DEF Updates!Clean, Updates!Fetch, Updates!Merge, Updates!Tell, Updates!Ends
  <2>2. upc[t] \notin Updates!Checking /\ flags' = flags
    BY <1>7 DEF Updates!Clean, Updates!Fetch, Updates!Merge, Updates!Tell
  <2> QED BY <1>4, <2>1, <2>2
<1>8. CASE Updates!HandleEvent
  <2>1. upc' = upc
    BY <1>8 DEF Updates!HandleEvent
  <2>2. flags' \subseteq flags
    BY <1>8 DEF Updates!HandleEvent, Updates!Finished
  <2> QED BY <1>5, <2>1, <2>2
<1>9. CASE Updates!Answer
  <2>1. CASE UNCHANGED <<flags, upc>>
    BY <2>1, <1>5
  <2>2. CASE \E t \in Threads : /\ upc[t] = "free" /\ Updates!Goto(t, "clean")
                                /\ flags' = flags \union {"applying"}
    BY <2>2, <1>4
  <2> QED BY <1>9, <2>1, <2>2 DEF Updates!Answer
<1>10. CASE Updates!Restart \/ Updates!Start
  BY <1>10 DEF Updates!Restart, Updates!Start, Updates!Booted
<1>11. CASE \/ Updates!RestartFails \/ Updates!RestoreDraft \/ Updates!Close \/ Updates!Type
            \/ Updates!Edit \/ Updates!CommitOwn \/ Updates!Publish \/ Updates!Lose
  <2>1. upc' = upc /\ flags' = flags
    BY <1>11 DEF Updates!RestartFails, Updates!RestoreDraft, Updates!Close, Updates!Type,
                 Updates!Edit, Updates!CommitOwn, Updates!Publish, Updates!Lose
  <2> QED BY <1>5, <2>1
<1> QED
  BY <1>2, <1>3, <1>6, <1>7, <1>8, <1>9, <1>10, <1>11 DEF Updates!Next, Updates!ThreadStep

\* An update that ends puts its result; the window clears the flag with it,
\* unless the full queue loses it.
LEMMA ApplyingSteps ==
  ASSUME PartsAssumption, UpdateTypes, ApplyingInv, Updates!Next PROVE ApplyingInv'
<1>1. upc \in [Threads -> Updates!PCs] /\ ulost \in Nat
  BY DEF UpdateTypes
<1> USE DEF ApplyingInv, Updates!Goto, Updates!workVars, Updates!Applying
\* A step keeps what justifies the flag, or is itself an application.
<1>2. ASSUME NEW t \in Threads, NEW l, Updates!Goto(t, l),
             upc[t] \in Updates!Applying => l \in Updates!Applying,
             "applying" \in flags' => "applying" \in flags,
             ResultWaits => ResultWaits', ulost' = ulost
      PROVE  ApplyingInv'
  <2>1. \A u \in Threads : upc[u] \in Updates!Applying => upc'[u] \in Updates!Applying
    BY <1>1, <1>2
  <2> QED BY <1>2, <2>1
<1>3. ASSUME NEW t \in Threads, NEW l \in Updates!Applying, Updates!Goto(t, l)
      PROVE  ApplyingInv'
  BY <1>1, <1>3
<1>4. ASSUME upc' = upc, "applying" \in flags' => "applying" \in flags,
             ResultWaits => ResultWaits', ulost' = ulost
      PROVE  ApplyingInv'
  BY <1>4
<1>5. answers' = answers => (ResultWaits => ResultWaits')
  BY DEF ResultWaits
<1>6. ASSUME NEW t \in Threads,
             \/ Updates!StartAuto(t) \/ Updates!AutoCheck(t) \/ Updates!AutoMark(t)
             \/ Updates!AutoFetch(t) \/ Updates!ManualCheck(t)
      PROVE  ApplyingInv'
  <2>1. PICK l : Updates!Goto(t, l)
    BY <1>6 DEF Updates!StartAuto, Updates!AutoCheck, Updates!AutoMark, Updates!AutoFetch,
                Updates!ManualCheck
  <2>2. /\ upc[t] \notin Updates!Applying /\ flags' \subseteq flags \union {"checking"}
        /\ answers' = answers /\ ulost' = ulost
    BY <1>6 DEF Updates!StartAuto, Updates!AutoCheck, Updates!AutoMark, Updates!AutoFetch,
                Updates!ManualCheck, Updates!CheckEnds
  <2> QED BY <1>2, <1>5, <2>1, <2>2
<1>7. ASSUME NEW t \in Threads, Updates!AutoOffer(t) \/ Updates!ManualFetch(t)
      PROVE  ApplyingInv'
  <2>1. PICK e \in {"offer", "nothing"} : Updates!Put(e)
    BY <1>7 DEF Updates!AutoOffer, Updates!ManualFetch
  <2>2. e \in Updates!Events
    BY <2>1 DEF Updates!Events
  <2>3. ResultWaits => ResultWaits'
    BY <2>1, <2>2, PutAnswer
  <2>4. /\ upc[t] \notin Updates!Applying /\ flags' \subseteq flags /\ ulost' = ulost
        /\ Updates!Goto(t, "free")
    BY <1>7 DEF Updates!AutoOffer, Updates!ManualFetch, Updates!CheckEnds
  <2> QED BY <1>2, <2>3, <2>4
<1>8. ASSUME NEW t \in Threads, Updates!AutoDecide(t) PROVE ApplyingInv'
  <2>1. PICK l : Updates!Goto(t, l)
    BY <1>8 DEF Updates!AutoDecide
  <2>2. upc[t] \notin Updates!Applying /\ flags' = flags /\ answers' = answers /\ ulost' = ulost
    BY <1>8 DEF Updates!AutoDecide
  <2> QED BY <1>2, <1>5, <2>1, <2>2
<1>9. ASSUME NEW t \in Threads,
             Updates!AutoSet(t) \/ Updates!Clean(t) \/ Updates!Fetch(t) \/ Updates!Merge(t)
      PROVE  ApplyingInv'
  BY <1>3, <1>9 DEF Updates!AutoSet, Updates!Clean, Updates!Fetch, Updates!Merge, Updates!Ends
<1>10. ASSUME NEW t \in Threads, Updates!Tell(t) PROVE ApplyingInv'
  <2>1. PICK e \in {"done", "failed"} : Updates!Put(e)
    BY <1>10 DEF Updates!Tell
  <2>2. e \in Updates!Events
    BY <2>1 DEF Updates!Events
  <2> QED BY <2>1, <2>2, PutAnswer
<1>11. CASE Updates!HandleEvent
  <2>1. /\ answers # <<>> /\ answers' = Tail(answers) /\ upc' = upc /\ ulost' = ulost
        /\ Head(answers) \in {"done", "failed"} => "applying" \notin flags'
        /\ Head(answers) \notin {"done", "failed"} => flags' = flags
    BY <1>11 DEF Updates!HandleEvent, Updates!Finished
  <2>2. Head(answers) \notin {"done", "failed"} /\ ResultWaits => ResultWaits'
    BY <2>1, TakeAnswer
  <2> QED BY <2>1, <2>2
<1>12. CASE Updates!Answer
  <2>1. answers' = answers /\ ulost' = ulost
    BY <1>12 DEF Updates!Answer
  <2>2. CASE UNCHANGED <<flags, upc>>
    BY <2>1, <2>2, <1>4, <1>5
  <2>3. CASE \E t \in Threads : upc[t] = "free" /\ Updates!Goto(t, "clean")
    BY <2>3, <1>3
  <2> QED BY <1>12, <2>2, <2>3 DEF Updates!Answer
<1>13. CASE Updates!Restart \/ Updates!Start
  BY <1>13 DEF Updates!Restart, Updates!Start, Updates!Booted
<1>14. CASE \/ Updates!RestartFails \/ Updates!RestoreDraft \/ Updates!Close \/ Updates!Type
            \/ Updates!Edit \/ Updates!CommitOwn \/ Updates!Publish
  <2>1. upc' = upc /\ flags' = flags /\ answers' = answers /\ ulost' = ulost
    BY <1>14 DEF Updates!RestartFails, Updates!RestoreDraft, Updates!Close, Updates!Type,
                 Updates!Edit, Updates!CommitOwn, Updates!Publish
  <2> QED BY <1>4, <1>5, <2>1
<1>15. CASE Updates!Lose
  <2>1. ulost' = ulost + 1
    BY <1>15 DEF Updates!Lose
  <2>2. ulost' > 0
    BY <1>1, <2>1
  <2> QED BY <2>2
<1> QED
  BY <1>6, <1>7, <1>8, <1>9, <1>10, <1>11, <1>12, <1>13, <1>14, <1>15
     DEF Updates!Next, Updates!ThreadStep

LEMMA DraftSteps ==
  ASSUME DraftInv, Updates!Next PROVE DraftInv'
<1> USE DEF DraftInv, Updates!uiVars, Updates!draftVars
<1>1. ASSUME NEW t \in Threads,
             Updates!StartAuto(t) \/ Updates!ManualCheck(t) \/ Updates!ThreadStep(t)
      PROVE  uphase' = uphase /\ saved' = saved /\ carried' = carried /\ stale' = stale
  BY <1>1 DEF Updates!StartAuto, Updates!ManualCheck, Updates!ThreadStep, Updates!AutoCheck,
       Updates!AutoMark, Updates!AutoFetch, Updates!AutoOffer, Updates!AutoDecide,
       Updates!AutoSet, Updates!ManualFetch, Updates!Clean, Updates!Fetch, Updates!Merge,
       Updates!Tell
<1>2. CASE \/ Updates!HandleEvent \/ Updates!Answer \/ Updates!Type \/ Updates!Edit
           \/ Updates!CommitOwn \/ Updates!Publish \/ Updates!Lose
  BY <1>2 DEF Updates!HandleEvent, Updates!Answer, Updates!Type, Updates!Edit,
              Updates!CommitOwn, Updates!Publish, Updates!Lose
<1>3. CASE Updates!Restart \/ Updates!Start
  BY <1>3 DEF Updates!Restart, Updates!Start, Updates!Booted
<1>4. CASE Updates!RestartFails \/ Updates!RestoreDraft \/ Updates!Close
  BY <1>4 DEF Updates!RestartFails, Updates!RestoreDraft, Updates!Close, Updates!Taken
<1> QED BY <1>1, <1>2, <1>3, <1>4 DEF Updates!Next

LEMMA UpdateImplies ==
  ASSUME PartsAssumption, UpdateInv PROVE Updates!TypeOK /\ Updates!UpdateSafe
<1>1. answers \in Updates!BoundedSeq(Updates!Events, AnswersCap)
  BY UpdateConstants, BoundedAnswers DEF UpdateInv, UpdateTypes
<1>2. Updates!TypeOK
  BY <1>1 DEF UpdateInv, UpdateTypes, Updates!TypeOK
<1>3. ResultWaits => Updates!Contains(answers, "done") \/ Updates!Contains(answers, "failed")
  BY DEF ResultWaits, Updates!Contains
<1>4. Updates!FlagsEnd
  BY <1>3 DEF UpdateInv, CheckingInv, ApplyingInv, Updates!FlagsEnd
<1>5. Updates!DraftOnce
  BY DEF UpdateInv, DraftInv, Updates!DraftOnce
<1> QED BY <1>2, <1>4, <1>5 DEF Updates!UpdateSafe

\* No flag of the updater outlives the work it stands for, and the draft
\* crosses the restart once (update.py, gui/app.py): for any number of threads,
\* commits, texts and lost events.
THEOREM UpdatesSafe == Spec => []UpdateSafe
<1> DEFINE Inv == part = "updates" => UpdateInv
<1>1. Init => Inv
  BY PartsAssumption, UpdateStart DEF Init
<1>2. Inv /\ [Next]_vars => Inv'
  <2> SUFFICES ASSUME Inv, [Next]_vars, part' = "updates" PROVE UpdateInv'
    OBVIOUS
  <2>1. part = "updates" /\ UpdateInv
    BY DEF Next, vars
  <2>2. CASE Updates!Next
    BY <2>1, <2>2, PartsAssumption, UpdateTypeSteps, CheckingSteps, ApplyingSteps, DraftSteps
       DEF UpdateInv
  <2>3. CASE UNCHANGED vars
    BY <2>1, <2>3 DEF vars, updateVars, UpdateInv, UpdateTypes, CheckingInv, ApplyingInv,
                      ResultWaits, DraftInv
  <2> QED BY <2>1, <2>2, <2>3 DEF Next
<1>3. Inv => UpdateSafe
  BY PartsAssumption, UpdateImplies DEF UpdateSafe
<1> QED BY <1>1, <1>2, <1>3, PTL DEF Spec

-----------------------------------------------------------------------------
(* UiQueue                                                                   *)

Progress(t) == Events!Event("progress", t)

QueueTypes ==
  /\ data \in [Events!Both -> 0..MaxWrites] /\ shown \in [Events!Both -> 0..MaxWrites]
  /\ queue \in Seq(Events!Events) /\ Len(queue) <= QueueCap
  /\ pc \in [Events!Putters -> {"idle", "coalesce", "put", "evict", "again", "emit"}]
  /\ event \in [Events!Putters -> Events!Events \union {None}]
  /\ pending \in BOOLEAN /\ redraw \subseteq Events!Both
  /\ polling \in BOOLEAN /\ dialog \in BOOLEAN /\ closed \in BOOLEAN /\ lost \in BOOLEAN
  /\ writes \in 0..MaxWrites

\* A thread that puts an event has made it; only progress is coalesced, and
\* it gives way before the eviction.  The main thread puts no progress.
PuttingInv ==
  \A t \in Events!Putters : pc[t] # "idle" =>
    /\ \E k \in Events!Kinds : event[t] = Events!Event(k, t) /\ (t = Main => k # "progress")
    /\ pc[t] = "coalesce" => event[t].kind = "progress"
    /\ pc[t] \in {"evict", "again"} => event[t].kind # "progress"

\* A thread whose event waits in the queue, or was dropped, keeps no view
\* fresh by itself any more: UnderWay without the threads about to emit.
Coming(v) ==
  \/ v \in redraw
  \/ pending
  \/ \E t \in Events!Putters : /\ pc[t] \in {"coalesce", "put", "evict", "again"}
                               /\ v \in Events!Touches(event[t].kind)
  \/ \E i \in 1..Len(queue) : v \in Events!Touches(queue[i].kind)

ComingInv == \A v \in Events!Both : closed \/ lost \/ shown[v] = data[v] \/ Coming(v)

\* One progress of a thread waits, and none while it is about to put the next.
ProgressInv ==
  \A t \in Threads :
    /\ \A i, j \in 1..Len(queue) : queue[i] = Progress(t) /\ queue[j] = Progress(t) => i = j
    /\ pc[t] = "put" /\ event[t] = Progress(t) => \A i \in 1..Len(queue) : queue[i] # Progress(t)

QueueInv == QueueTypes /\ PuttingInv /\ ComingInv /\ ProgressInv

LEMMA QueueConstants ==
  ASSUME PartsAssumption
  PROVE  QueueCap \in Nat /\ QueueCap # 0 /\ MaxWrites \in Nat /\ Main \notin Threads
BY DEF PartsAssumption, Events!UiQueueAssumption

\* What the handlers of the five kinds refresh.
LEMMA TouchesIs ==
  /\ Events!Touches("message") = Events!Both
  /\ Events!Touches("ack") = {"chat"}
  /\ Events!Touches("contact") = {"list"}
  /\ Events!Touches("question") = {} /\ Events!Touches("progress") = {}
  /\ \A k \in Events!Kinds : Events!Touches(k) \subseteq Events!Both
BY DEF Events!Touches, Events!Both, Events!Kinds

\* Events have a kind, and a progress the thread it is about.
LEMMA EventIs ==
  ASSUME NEW k \in Events!Kinds, NEW t \in Events!Putters
  PROVE  /\ Events!Event(k, t) \in Events!Events /\ Events!Event(k, t).kind = k
         /\ \A u \in Events!Putters : Events!Event(k, t) = Progress(u) => k = "progress" /\ t = u
BY DEF Events!Event, Events!Events, Events!Putters, Progress

\* The instance has the operator of FiniteSets under its own name.
LEMMA QueueCardinality == \A S : Events!Cardinality(S) = Cardinality(S)
BY DEF Events!Cardinality, Cardinality

LEMMA IntervalSize ==
  ASSUME NEW k \in Nat PROVE IsFiniteSet(1..k) /\ Cardinality(1..k) = k
BY FS_Interval

\* The queue without one event: what remains is what was there, every other
\* event remains, and no event is there twice that was there once.
LEMMA OlderIs ==
  ASSUME NEW e, queue \in Seq(Events!Events)
  PROVE  /\ Events!Older(e) \in Seq(Events!Events) /\ Len(Events!Older(e)) <= Len(queue)
         /\ \A k \in 1..Len(Events!Older(e)) :
              /\ Events!Older(e)[k] # e
              /\ \E i \in 1..Len(queue) : Events!Older(e)[k] = queue[i]
         /\ \A i \in 1..Len(queue) : queue[i] # e =>
              \E k \in 1..Len(Events!Older(e)) : Events!Older(e)[k] = queue[i]
         /\ \A x : (\A i, j \in 1..Len(queue) : queue[i] = x /\ queue[j] = x => i = j)
              => \A k, l \in 1..Len(Events!Older(e)) :
                   Events!Older(e)[k] = x /\ Events!Older(e)[l] = x => k = l
<1> DEFINE kept == {i \in DOMAIN queue : queue[i] # e}
           n == Events!Cardinality(kept)
           rank(i) == Events!Cardinality({j \in kept : j <= i})
           place(k) == CHOOSE i \in kept : rank(i) = k
           q == [k \in 1..n |-> queue[place(k)]]
<1>1. Events!Older(e) = q
  BY DEF Events!Older
<1>2. kept \subseteq 1..Len(queue) /\ Len(queue) \in Nat
  OBVIOUS
<1>3. kept \subseteq Int /\ IsFiniteSet(kept) /\ n <= Len(queue)
  <2>1. IsFiniteSet(1..Len(queue)) /\ Cardinality(1..Len(queue)) = Len(queue)
    BY <1>2, IntervalSize
  <2> HIDE DEF kept
  <2>2. IsFiniteSet(kept) /\ Cardinality(kept) <= Cardinality(1..Len(queue))
    BY <1>2, <2>1, FS_Subset
  <2> QED BY <1>2, <2>1, <2>2, QueueCardinality
<1>r. n = Cardinality(kept) /\ \A i : rank(i) = Rank(kept, i)
  BY QueueCardinality DEF Rank
<1> HIDE DEF kept, rank, n
<1>4. /\ n \in Nat
      /\ \A i \in kept : Rank(kept, i) \in 1..n
      /\ \A i, j \in kept : Rank(kept, i) = Rank(kept, j) => i = j
      /\ \A k \in 1..n : \E i \in kept : Rank(kept, i) = k
  BY <1>3, <1>r, Ranks
<1>5. \A k \in 1..n : place(k) \in kept /\ Rank(kept, place(k)) = k
  BY <1>4, <1>r
<1>6. \A i \in kept : place(Rank(kept, i)) = i
  BY <1>4, <1>5
<1> HIDE DEF place
<1>7. \A i \in kept : i \in 1..Len(queue) /\ queue[i] # e /\ queue[i] \in Events!Events
  BY DEF kept
<1>8. q \in Seq(Events!Events) /\ Len(q) = n /\ \A k \in 1..n : q[k] = queue[place(k)]
  BY <1>4, <1>5, <1>7
<1> HIDE DEF q
<1>9. \A k \in 1..n : q[k] # e /\ \E i \in 1..Len(queue) : q[k] = queue[i]
  BY <1>5, <1>7, <1>8
<1>10. ASSUME NEW i \in 1..Len(queue), queue[i] # e PROVE \E k \in 1..n : q[k] = queue[i]
  <2>1. i \in kept
    BY <1>10, <1>2 DEF kept
  <2> QED BY <2>1, <1>4, <1>6, <1>8
<1>11. ASSUME NEW x, \A i, j \in 1..Len(queue) : queue[i] = x /\ queue[j] = x => i = j,
              NEW k \in 1..n, NEW l \in 1..n, q[k] = x, q[l] = x
       PROVE  k = l
  <2>1. place(k) = place(l)
    BY <1>5, <1>7, <1>8, <1>11
  <2> QED BY <2>1, <1>5
<1>12. q \in Seq(Events!Events) /\ Len(q) = n /\ Len(q) <= Len(queue)
  BY <1>3, <1>8
<1>13. \A k \in 1..Len(q) : q[k] # e /\ \E i \in 1..Len(queue) : q[k] = queue[i]
  BY <1>9, <1>12
<1>14. \A i \in 1..Len(queue) : queue[i] # e => \E k \in 1..Len(q) : q[k] = queue[i]
  BY <1>10, <1>12
<1>15. \A x : (\A i, j \in 1..Len(queue) : queue[i] = x /\ queue[j] = x => i = j)
         => \A k, l \in 1..Len(q) : q[k] = x /\ q[l] = x => k = l
  BY <1>11, <1>12
<1>16. Events!Older(e) \in Seq(Events!Events) /\ Len(Events!Older(e)) <= Len(queue)
  BY <1>1, <1>12
<1>17. \A k \in 1..Len(Events!Older(e)) :
         /\ Events!Older(e)[k] # e
         /\ \E i \in 1..Len(queue) : Events!Older(e)[k] = queue[i]
  BY <1>1, <1>13
<1>18. \A i \in 1..Len(queue) : queue[i] # e =>
         \E k \in 1..Len(Events!Older(e)) : Events!Older(e)[k] = queue[i]
  BY <1>1, <1>14
<1>19. \A x : (\A i, j \in 1..Len(queue) : queue[i] = x /\ queue[j] = x => i = j)
         => \A k, l \in 1..Len(Events!Older(e)) :
              Events!Older(e)[k] = x /\ Events!Older(e)[l] = x => k = l
  BY <1>1, <1>15
<1> QED BY <1>16, <1>17, <1>18, <1>19

LEMMA QueueStart ==
  ASSUME PartsAssumption, Events!Init PROVE QueueInv
<1> USE QueueConstants DEF Events!Init
<1>1. QueueTypes
  <2>1. /\ data \in [Events!Both -> 0..MaxWrites] /\ shown \in [Events!Both -> 0..MaxWrites]
        /\ writes \in 0..MaxWrites
    OBVIOUS
  <2>2. queue \in Seq(Events!Events) /\ Len(queue) = 0
    OBVIOUS
  <2>3. /\ pending \in BOOLEAN /\ polling \in BOOLEAN /\ dialog \in BOOLEAN /\ closed \in BOOLEAN
        /\ lost \in BOOLEAN
    OBVIOUS
  <2>4. /\ pc \in [Events!Putters -> {"idle", "coalesce", "put", "evict", "again", "emit"}]
        /\ event \in [Events!Putters -> Events!Events \union {None}] /\ redraw = {}
    OBVIOUS
  <2> QED BY <2>1, <2>2, <2>3, <2>4 DEF QueueTypes
<1>2. \A t \in Threads : pc[t] = "idle"
  BY DEF Events!Putters
<1>3. \A t \in Events!Putters : pc[t] = "idle"
  OBVIOUS
<1>4. \A v \in Events!Both : shown[v] = data[v]
  OBVIOUS
<1>5. ProgressInv
  <2>1. \A i : i \notin 1..Len(queue)
    OBVIOUS
  <2> QED BY <1>2, <2>1 DEF ProgressInv
<1> QED BY <1>1, <1>3, <1>4, <1>5 DEF QueueInv, PuttingInv, ComingInv

\* What a handler leaves: a view it refreshed, or a refresh asked for.
LEMMA HandleIs ==
  ASSUME QueueTypes, NEW e \in Events!Events, Events!Handle(e)
  PROVE  /\ shown' \in [Events!Both -> 0..MaxWrites]
         /\ pending' \in BOOLEAN /\ dialog' \in BOOLEAN
         /\ pending => pending'
         /\ \A v \in Events!Both : shown'[v] = shown[v] \/ shown'[v] = data[v]
         /\ \A v \in Events!Touches(e.kind) : shown'[v] = data[v] \/ pending'
<1> USE DEF Events!Handle, Events!Refreshed, QueueTypes
<1>1. \A v \in Events!Both : data[v] \in 0..MaxWrites
  OBVIOUS
<1>2. "chat" \in Events!Both /\ "list" \in Events!Both
  BY DEF Events!Both
<1>3. CASE e.kind = "message" /\ pending' = TRUE /\ UNCHANGED <<shown, dialog>>
  BY <1>3
<1>4. CASE e.kind = "ack" /\ Events!Refreshed("chat") /\ UNCHANGED <<pending, dialog>>
  <2>1. \A v \in Events!Both : shown'[v] = IF v = "chat" THEN data[v] ELSE shown[v]
    BY <1>2, <1>4
  <2>2. shown' \in [Events!Both -> 0..MaxWrites]
    BY <1>1, <1>2, <1>4
  <2> QED BY <1>2, <1>4, <2>1, <2>2, TouchesIs
<1>5. CASE e.kind = "contact" /\ Events!Refreshed("list") /\ UNCHANGED <<pending, dialog>>
  <2>1. \A v \in Events!Both : shown'[v] = IF v = "list" THEN data[v] ELSE shown[v]
    BY <1>2, <1>5
  <2>2. shown' \in [Events!Both -> 0..MaxWrites]
    BY <1>1, <1>2, <1>5
  <2> QED BY <1>2, <1>5, <2>1, <2>2, TouchesIs
<1>6. CASE e.kind = "question" /\ dialog' = TRUE /\ UNCHANGED <<shown, pending>>
  BY <1>6, TouchesIs
<1>7. CASE e.kind = "progress" /\ UNCHANGED <<shown, pending, dialog>>
  BY <1>7, TouchesIs
<1> QED BY <1>3, <1>4, <1>5, <1>6, <1>7

\* The queue after an event is appended or its oldest one taken.
LEMMA QueueAppend ==
  ASSUME QueueTypes, NEW e \in Events!Events, Len(queue) < QueueCap, queue' = Append(queue, e),
         PartsAssumption
  PROVE  /\ queue' \in Seq(Events!Events) /\ Len(queue') <= QueueCap
         /\ Len(queue) \in Nat /\ Len(queue') = Len(queue) + 1 /\ queue'[Len(queue) + 1] = e
         /\ \A i \in 1..Len(queue) : queue'[i] = queue[i]
<1>1. /\ Append(queue, e) \in Seq(Events!Events) /\ Len(Append(queue, e)) = Len(queue) + 1
      /\ Append(queue, e)[Len(queue) + 1] = e
      /\ \A i \in 1..Len(queue) : Append(queue, e)[i] = queue[i]
  BY AppendHolds DEF QueueTypes
<1>2. Len(queue) \in Nat
  BY DEF QueueTypes
<1> QED BY <1>1, <1>2, QueueConstants

LEMMA QueueTail ==
  ASSUME QueueTypes, queue # <<>>, queue' = Tail(queue), PartsAssumption
  PROVE  /\ queue' \in Seq(Events!Events) /\ Len(queue') <= QueueCap
         /\ Len(queue) \in Nat \ {0} /\ Len(queue') = Len(queue) - 1
         /\ Head(queue) = queue[1] /\ Head(queue) \in Events!Events
         /\ \A i \in 1..Len(queue') : queue'[i] = queue[i + 1] /\ i + 1 \in 1..Len(queue)
         /\ \A i \in 1..Len(queue) : i # 1 => i - 1 \in 1..Len(queue') /\ queue'[i - 1] = queue[i]
<1>1. /\ Tail(queue) \in Seq(Events!Events) /\ Len(queue) \in Nat \ {0}
      /\ Len(Tail(queue)) = Len(queue) - 1
      /\ Head(queue) = queue[1] /\ queue[1] \in Events!Events
      /\ \A i \in 1..(Len(queue) - 1) : Tail(queue)[i] = queue[i + 1]
  BY TailHolds DEF QueueTypes
<1>2. Len(queue') = Len(queue) - 1 /\ Len(queue') <= QueueCap /\ QueueCap \in Nat
  BY <1>1, QueueConstants DEF QueueTypes
<1>3. ASSUME NEW i \in 1..Len(queue') PROVE queue'[i] = queue[i + 1] /\ i + 1 \in 1..Len(queue)
  BY <1>1, <1>2
<1>4. ASSUME NEW i \in 1..Len(queue), i # 1
      PROVE  i - 1 \in 1..Len(queue') /\ queue'[i - 1] = queue[i]
  <2>1. i - 1 \in 1..(Len(queue) - 1) /\ (i - 1) + 1 = i
    BY <1>1, <1>4
  <2> QED BY <2>1, <1>1, <1>2
<1> QED BY <1>1, <1>2, <1>3, <1>4

LEMMA PutterEvent ==
  ASSUME PuttingInv, NEW t \in Events!Putters, pc[t] # "idle"
  PROVE  event[t] \in Events!Events
BY EventIs DEF PuttingInv

LEMMA QueueTypeSteps ==
  ASSUME PartsAssumption, QueueTypes, PuttingInv, Events!Next PROVE QueueTypes'
<1> USE QueueConstants
<1> USE DEF QueueTypes, Events!Goto, Events!winVars, Events!putVars
<1>1. ASSUME NEW t \in Events!Putters, NEW k \in Events!Kinds, Events!Write(t, k)
      PROVE  QueueTypes'
  <2>1. Events!Event(k, t) \in Events!Events
    BY EventIs
  <2>2. writes' \in 0..MaxWrites /\ writes + 1 \in 0..MaxWrites
    BY <1>1 DEF Events!Write
  <2>3. data' \in [Events!Both -> 0..MaxWrites]
    BY <1>1, <2>2 DEF Events!Write
  <2>4. event' \in [Events!Putters -> Events!Events \union {None}]
    BY <1>1, <2>1 DEF Events!Write
  <2>5. pc' \in [Events!Putters -> {"idle", "coalesce", "put", "evict", "again", "emit"}]
    BY <1>1 DEF Events!Write
  <2> QED BY <1>1, <2>2, <2>3, <2>4, <2>5 DEF Events!Write
<1>2. ASSUME NEW t \in Events!Putters, Events!Coalesce(t) PROVE QueueTypes'
  <2>1. queue' \in Seq(Events!Events) /\ Len(queue') <= Len(queue) /\ Len(queue') \in Nat
    BY <1>2, OlderIs DEF Events!Coalesce
  <2>2. Len(queue') <= QueueCap
    BY <2>1
  <2> QED BY <1>2, <2>1, <2>2 DEF Events!Coalesce
<1>3. ASSUME NEW t \in Events!Putters, pc[t] # "idle",
             UNCHANGED queue \/ (Len(queue) < QueueCap /\ queue' = Append(queue, event[t]))
      PROVE  queue' \in Seq(Events!Events) /\ Len(queue') <= QueueCap
  BY <1>3, PutterEvent, QueueAppend
<1>4. ASSUME NEW t \in Events!Putters, Events!PutEvent(t) PROVE QueueTypes'
  <2>1. queue' \in Seq(Events!Events) /\ Len(queue') <= QueueCap
    BY <1>3, <1>4 DEF Events!PutEvent
  <2>2. pc' \in [Events!Putters -> {"idle", "coalesce", "put", "evict", "again", "emit"}]
    BY <1>4 DEF Events!PutEvent
  <2> QED BY <1>4, <2>1, <2>2 DEF Events!PutEvent
<1>5. ASSUME NEW t \in Events!Putters, Events!Evict(t) PROVE QueueTypes'
  <2>1. queue' \in Seq(Events!Events) /\ Len(queue') <= QueueCap
    BY <1>5, QueueTail DEF Events!Evict
  <2>2. pc' \in [Events!Putters -> {"idle", "coalesce", "put", "evict", "again", "emit"}]
    BY <1>5 DEF Events!Evict
  <2>3. lost' \in BOOLEAN
    BY <1>5 DEF Events!Evict
  <2> QED BY <1>5, <2>1, <2>2, <2>3 DEF Events!Evict
<1>6. ASSUME NEW t \in Events!Putters, Events!PutAgain(t) PROVE QueueTypes'
  <2>1. queue' \in Seq(Events!Events) /\ Len(queue') <= QueueCap
    BY <1>3, <1>6 DEF Events!PutAgain
  <2>2. pc' \in [Events!Putters -> {"idle", "coalesce", "put", "evict", "again", "emit"}]
    BY <1>6 DEF Events!PutAgain
  <2>3. lost' \in BOOLEAN
    BY <1>6 DEF Events!PutAgain
  <2> QED BY <1>6, <2>1, <2>2, <2>3 DEF Events!PutAgain
<1>7. ASSUME NEW t \in Events!Putters, Events!Emit(t) PROVE QueueTypes'
  <2>1. event[t] \in Events!Events
    BY <1>7, PutterEvent DEF Events!Emit
  <2>2. shown' \in [Events!Both -> 0..MaxWrites] /\ pending' \in BOOLEAN /\ dialog' \in BOOLEAN
    <3>1. CASE Events!Handle(event[t])
      BY <2>1, <3>1, HandleIs
    <3>2. CASE UNCHANGED <<shown, pending, dialog>>
      BY <3>2
    <3> QED BY <1>7, <3>1, <3>2 DEF Events!Emit
  <2>3. pc' \in [Events!Putters -> {"idle", "coalesce", "put", "evict", "again", "emit"}]
    BY <1>7 DEF Events!Emit
  <2>4. event' \in [Events!Putters -> Events!Events \union {None}]
    BY <1>7 DEF Events!Emit
  <2> QED BY <1>7, <2>2, <2>3, <2>4 DEF Events!Emit
<1>8. CASE Events!Drain
  <2>1. queue' \in Seq(Events!Events) /\ Len(queue') <= QueueCap /\ Head(queue) \in Events!Events
    BY <1>8, QueueTail DEF Events!Drain
  <2>2. shown' \in [Events!Both -> 0..MaxWrites] /\ pending' \in BOOLEAN /\ dialog' \in BOOLEAN
    BY <1>8, <2>1, HandleIs DEF Events!Drain
  <2> QED BY <1>8, <2>1, <2>2 DEF Events!Drain
<1>9. CASE Events!Poll \/ Events!PollEnds \/ Events!Answer \/ Events!Refresh \/ Events!Close
  <2>1. /\ polling' \in BOOLEAN /\ dialog' \in BOOLEAN /\ closed' \in BOOLEAN
        /\ pending' \in BOOLEAN
    BY <1>9 DEF Events!Poll, Events!PollEnds, Events!Answer, Events!Refresh, Events!Close
  <2>2. redraw' \subseteq Events!Both
    BY <1>9 DEF Events!Poll, Events!PollEnds, Events!Answer, Events!Refresh, Events!Close
  <2> QED BY <1>9, <2>1, <2>2
          DEF Events!Poll, Events!PollEnds, Events!Answer, Events!Refresh, Events!Close
<1>10. ASSUME NEW v \in Events!Both, Events!Redraw(v) PROVE QueueTypes'
  <2>1. shown' \in [Events!Both -> 0..MaxWrites]
    BY <1>10 DEF Events!Redraw, Events!Refreshed
  <2> QED BY <1>10, <2>1 DEF Events!Redraw
<1> QED
  BY <1>1, <1>2, <1>4, <1>5, <1>6, <1>7, <1>8, <1>9, <1>10 DEF Events!Next, Events!PutStep

LEMMA PuttingSteps ==
  ASSUME PartsAssumption, QueueTypes, PuttingInv, Events!Next PROVE PuttingInv'
<1> USE DEF Events!Goto, Events!putVars
<1>1. /\ pc \in [Events!Putters -> {"idle", "coalesce", "put", "evict", "again", "emit"}]
      /\ DOMAIN event = Events!Putters
  BY DEF QueueTypes
\* Putter t goes on with its event; the others stand still.
<1>2. ASSUME NEW t \in Events!Putters, NEW l, Events!Goto(t, l), UNCHANGED event, pc[t] # "idle",
             l # "coalesce", l \in {"evict", "again"} => event[t].kind # "progress"
      PROVE  PuttingInv'
  <2>1. \A u \in Events!Putters : pc'[u] = IF u = t THEN l ELSE pc[u]
    BY <1>1, <1>2
  <2> QED BY <1>2, <2>1 DEF PuttingInv
<1>3. ASSUME UNCHANGED <<pc, event>> PROVE PuttingInv'
  BY <1>3 DEF PuttingInv
<1>4. ASSUME NEW t \in Events!Putters, NEW k \in Events!Kinds, Events!Write(t, k)
      PROVE  PuttingInv'
  <2>1. \A u \in Events!Putters :
          /\ pc'[u] = IF u = t THEN (IF k = "progress" THEN "coalesce" ELSE "put") ELSE pc[u]
          /\ event'[u] = IF u = t THEN Events!Event(k, t) ELSE event[u]
    BY <1>1, <1>4 DEF Events!Write
  <2>2. t = Main => k # "progress"
    BY <1>4 DEF Events!Write
  <2>3. Events!Event(k, t).kind = k
    BY EventIs
  <2> QED BY <2>1, <2>2, <2>3 DEF PuttingInv
<1>5. ASSUME NEW t \in Events!Putters, Events!Coalesce(t) \/ Events!PutEvent(t) PROVE PuttingInv'
  <2>1. CASE Events!Coalesce(t)
    BY <1>2, <2>1 DEF Events!Coalesce
  <2>2. CASE Events!PutEvent(t)
    <3>1. PICK l \in {"emit", "evict"} : /\ Events!Goto(t, l)
                                         /\ l = "evict" => ~ Events!Gives(event[t])
      BY <2>2 DEF Events!PutEvent
    <3> QED BY <1>2, <2>2, <3>1 DEF Events!PutEvent, Events!Gives
  <2> QED BY <1>5, <2>1, <2>2
<1>6. ASSUME NEW t \in Events!Putters, Events!Evict(t) \/ Events!PutAgain(t) PROVE PuttingInv'
  <2>1. pc[t] \in {"evict", "again"} /\ event[t].kind # "progress" /\ UNCHANGED event
    BY <1>6 DEF Events!Evict, Events!PutAgain, PuttingInv
  <2>2. Events!Goto(t, "again") \/ Events!Goto(t, "emit")
    BY <1>6 DEF Events!Evict, Events!PutAgain
  <2> QED BY <1>2, <2>1, <2>2
<1>7. ASSUME NEW t \in Events!Putters, Events!Emit(t) PROVE PuttingInv'
  <2>1. \A u \in Events!Putters : u # t => pc'[u] = pc[u] /\ event'[u] = event[u]
    BY <1>1, <1>7 DEF Events!Emit
  <2>2. pc'[t] = "idle"
    BY <1>1, <1>7 DEF Events!Emit
  <2> QED BY <2>1, <2>2 DEF PuttingInv
<1>8. CASE \/ Events!Poll \/ Events!Drain \/ Events!PollEnds \/ Events!Answer \/ Events!Refresh
           \/ Events!Close \/ \E v \in Events!Both : Events!Redraw(v)
  BY <1>3, <1>8 DEF Events!Poll, Events!Drain, Events!PollEnds, Events!Answer, Events!Refresh,
                    Events!Close, Events!Redraw
<1> QED BY <1>4, <1>5, <1>6, <1>7, <1>8 DEF Events!Next, Events!PutStep

\* A view that is out of date stays under way: what carries its refresh is
\* only given up when the next carrier is there, or an event is lost.
LEMMA ComingSteps ==
  ASSUME PartsAssumption, QueueTypes, PuttingInv, ComingInv, Events!Next PROVE ComingInv'
<1> USE DEF Events!Goto, Events!putVars, Events!winVars
<1>1. /\ pc \in [Events!Putters -> {"idle", "coalesce", "put", "evict", "again", "emit"}]
      /\ event \in [Events!Putters -> Events!Events \union {None}]
      /\ queue \in Seq(Events!Events) /\ Len(queue) \in Nat
  BY DEF QueueTypes
<1> DEFINE Puts(v) == \E t \in Events!Putters : /\ pc[t] \in {"coalesce", "put", "evict", "again"}
                                                /\ v \in Events!Touches(event[t].kind)
           Waits(v) == \E i \in 1..Len(queue) : v \in Events!Touches(queue[i].kind)
<1>2. \A v : Coming(v) = (v \in redraw \/ pending \/ Puts(v) \/ Waits(v))
  BY DEF Coming
\* Putter t goes on and its event is still on its way, or touches nothing.
<1>3. ASSUME NEW v, NEW t \in Events!Putters, NEW l, Events!Goto(t, l), UNCHANGED event,
             \/ l \in {"coalesce", "put", "evict", "again"}
             \/ v \notin Events!Touches(event[t].kind)
      PROVE  Puts(v) => Puts(v)'
  <2>1. \A u \in Events!Putters : pc'[u] = IF u = t THEN l ELSE pc[u]
    BY <1>1, <1>3
  <2> QED BY <1>3, <2>1
<1>4. UNCHANGED <<pc, event>> => \A v : Puts(v) => Puts(v)'
  OBVIOUS
<1>5. UNCHANGED queue => \A v : Waits(v) => Waits(v)'
  OBVIOUS
<1>6. ASSUME NEW e \in Events!Events, Len(queue) < QueueCap, queue' = Append(queue, e)
      PROVE  \A v : Waits(v) \/ v \in Events!Touches(e.kind) => Waits(v)'
  <2>1. /\ Len(queue') = Len(queue) + 1 /\ queue'[Len(queue) + 1] = e
        /\ \A i \in 1..Len(queue) : queue'[i] = queue[i]
    BY <1>6, QueueAppend
  <2>2. Len(queue) + 1 \in 1..Len(queue') /\ \A i \in 1..Len(queue) : i \in 1..Len(queue')
    BY <1>1, <2>1
  <2> QED BY <2>1, <2>2
<1>7. ASSUME queue # <<>>, queue' = Tail(queue)
      PROVE  /\ Head(queue) \in Events!Events
             /\ \A v : Waits(v) => Waits(v)' \/ v \in Events!Touches(Head(queue).kind)
  <2>1. /\ Head(queue) = queue[1] /\ Head(queue) \in Events!Events
        /\ \A i \in 1..Len(queue) : i # 1 => i - 1 \in 1..Len(queue') /\ queue'[i - 1] = queue[i]
    BY <1>7, QueueTail
  <2> QED BY <2>1
<1> HIDE DEF Puts, Waits
<1>8. ASSUME NEW t \in Events!Putters, NEW k \in Events!Kinds, Events!Write(t, k)
      PROVE  ComingInv'
  <2>1. /\ UNCHANGED <<shown, queue, pending, redraw, closed, lost>> /\ pc[t] = "idle"
        /\ \A u \in Events!Putters :
             /\ pc'[u] = IF u = t THEN (IF k = "progress" THEN "coalesce" ELSE "put") ELSE pc[u]
             /\ event'[u] = IF u = t THEN Events!Event(k, t) ELSE event[u]
        /\ \A v \in Events!Both : v \notin Events!Touches(k) => data'[v] = data[v]
    BY <1>1, <1>8 DEF Events!Write
  <2>2. \A v : Puts(v) \/ v \in Events!Touches(k) => Puts(v)'
    BY <2>1, EventIs DEF Puts
  <2> QED BY <1>2, <1>5, <2>1, <2>2 DEF ComingInv, Coming, Puts, Waits
<1>9. ASSUME NEW t \in Events!Putters, Events!Coalesce(t) PROVE ComingInv'
  <2>1. /\ UNCHANGED <<data, shown, pending, redraw, closed, lost, event>>
        /\ Events!Goto(t, "put") /\ queue' = Events!Older(event[t])
    BY <1>9 DEF Events!Coalesce
  <2>2. \A i \in 1..Len(queue) : queue[i] # event[t] =>
          \E k \in 1..Len(queue') : queue'[k] = queue[i]
    BY <1>1, <2>1, OlderIs
  <2>3. Events!Touches(event[t].kind) = {}
    BY <1>9, TouchesIs DEF Events!Coalesce, PuttingInv
  <2>4. \A v : Waits(v) => Waits(v)'
    BY <2>2, <2>3 DEF Waits
  <2>5. \A v : Puts(v) => Puts(v)'
    BY <1>3, <2>1
  <2> QED BY <2>1, <2>4, <2>5 DEF ComingInv, Coming, Puts, Waits
<1>10. ASSUME NEW t \in Events!Putters, Events!PutEvent(t) PROVE ComingInv'
  <2>1. UNCHANGED <<data, shown, pending, redraw, closed, lost, event>> /\ event[t] \in Events!Events
    BY <1>10, PutterEvent DEF Events!PutEvent
  <2>2. CASE Len(queue) < QueueCap
    <3>1. queue' = Append(queue, event[t]) /\ Events!Goto(t, "emit")
      BY <1>10, <2>2 DEF Events!PutEvent
    <3>2. \A v : Waits(v) \/ v \in Events!Touches(event[t].kind) => Waits(v)'
      BY <1>6, <2>1, <2>2, <3>1
    <3>3. \A v : v \notin Events!Touches(event[t].kind) => (Puts(v) => Puts(v)')
      BY <1>3, <2>1, <3>1
    <3> QED BY <2>1, <3>2, <3>3 DEF ComingInv, Coming, Puts, Waits
  <2>3. CASE ~ Len(queue) < QueueCap
    <3>1. /\ UNCHANGED queue
          /\ Events!Goto(t, IF Events!Gives(event[t]) THEN "emit" ELSE "evict")
      BY <1>10, <2>3 DEF Events!PutEvent
    <3>2. Events!Gives(event[t]) => Events!Touches(event[t].kind) = {}
      BY TouchesIs DEF Events!Gives
    <3>3. \A v : Puts(v) => Puts(v)'
      BY <1>3, <2>1, <3>1, <3>2
    <3> QED BY <1>5, <2>1, <3>1, <3>3 DEF ComingInv, Coming, Puts, Waits
  <2> QED BY <2>2, <2>3
<1>11. ASSUME NEW t \in Events!Putters, Events!Evict(t) PROVE ComingInv'
  <2>1. /\ UNCHANGED <<data, shown, pending, redraw, closed, event>> /\ Events!Goto(t, "again")
        /\ lost => lost'
    BY <1>11 DEF Events!Evict
  <2>2. \A v : Puts(v) => Puts(v)'
    BY <1>3, <2>1
  <2>3. lost' \/ \A v : Waits(v) => Waits(v)'
    <3>1. CASE queue = <<>>
      BY <1>5, <1>11, <3>1 DEF Events!Evict
    <3>2. CASE queue # <<>> /\ ~ lost'
      <4>1. queue' = Tail(queue) /\ Head(queue).kind = "progress"
        BY <1>11, <3>2 DEF Events!Evict
      <4> QED BY <1>7, <3>2, <4>1, TouchesIs
    <3> QED BY <3>1, <3>2
  <2> QED BY <2>1, <2>2, <2>3 DEF ComingInv, Coming, Puts, Waits
<1>12. ASSUME NEW t \in Events!Putters, Events!PutAgain(t) PROVE ComingInv'
  <2>1. /\ UNCHANGED <<data, shown, pending, redraw, closed, event>> /\ Events!Goto(t, "emit")
        /\ event[t] \in Events!Events
    BY <1>12, PutterEvent DEF Events!PutAgain
  <2>2. CASE Len(queue) < QueueCap
    <3>1. queue' = Append(queue, event[t]) /\ UNCHANGED lost
      BY <1>12, <2>2 DEF Events!PutAgain
    <3>2. \A v : Waits(v) \/ v \in Events!Touches(event[t].kind) => Waits(v)'
      BY <1>6, <2>1, <2>2, <3>1
    <3>3. \A v : v \notin Events!Touches(event[t].kind) => (Puts(v) => Puts(v)')
      BY <1>3, <2>1
    <3> QED BY <2>1, <3>1, <3>2, <3>3 DEF ComingInv, Coming, Puts, Waits
  <2>3. CASE ~ Len(queue) < QueueCap
    BY <1>12, <2>3 DEF Events!PutAgain, ComingInv
  <2> QED BY <2>2, <2>3
<1>13. ASSUME NEW t \in Events!Putters, Events!Emit(t) PROVE ComingInv'
  <2>1. /\ UNCHANGED <<data, queue, redraw, closed, lost>> /\ pc[t] = "emit"
        /\ event[t] \in Events!Events
        /\ \A u \in Events!Putters : u # t => pc'[u] = pc[u] /\ event'[u] = event[u]
    BY <1>1, <1>13, PutterEvent DEF Events!Emit
  <2>2. \A v : Puts(v) => Puts(v)'
    BY <2>1 DEF Puts
  <2>3. /\ pending => pending'
        /\ \A v \in Events!Both : shown'[v] = shown[v] \/ shown'[v] = data[v]
    <3>1. CASE Events!Handle(event[t])
      BY <2>1, <3>1, HandleIs
    <3>2. CASE UNCHANGED <<shown, pending, dialog>>
      BY <3>2
    <3> QED BY <1>13, <3>1, <3>2 DEF Events!Emit
  <2> QED BY <1>5, <2>1, <2>2, <2>3 DEF ComingInv, Coming, Puts, Waits
<1>14. CASE Events!Drain
  <2>1. /\ UNCHANGED <<data, pc, event, redraw, closed, lost>>
        /\ queue # <<>> /\ queue' = Tail(queue) /\ Events!Handle(Head(queue))
    BY <1>14 DEF Events!Drain
  <2>2. /\ Head(queue) \in Events!Events
        /\ \A v : Waits(v) => Waits(v)' \/ v \in Events!Touches(Head(queue).kind)
    BY <1>7, <2>1
  <2>3. /\ pending => pending'
        /\ \A v \in Events!Both : shown'[v] = shown[v] \/ shown'[v] = data[v]
        /\ \A v \in Events!Touches(Head(queue).kind) : shown'[v] = data[v] \/ pending'
    BY <2>1, <2>2, HandleIs
  <2> QED BY <1>4, <2>1, <2>2, <2>3 DEF ComingInv, Coming, Puts, Waits
<1>15. CASE Events!Poll \/ Events!PollEnds \/ Events!Answer
  BY <1>15 DEF Events!Poll, Events!PollEnds, Events!Answer, ComingInv, Coming
<1>16. CASE Events!Refresh
  BY <1>16 DEF Events!Refresh, ComingInv, Coming
<1>17. ASSUME NEW v \in Events!Both, Events!Redraw(v) PROVE ComingInv'
  <2>1. /\ UNCHANGED <<data, queue, pc, event, pending, closed, lost>> /\ redraw' = redraw \ {v}
        /\ \A u \in Events!Both : shown'[u] = IF u = v THEN data[u] ELSE shown[u]
    BY <1>17 DEF Events!Redraw, Events!Refreshed, QueueTypes
  <2> QED BY <2>1 DEF ComingInv, Coming
<1>18. CASE Events!Close
  BY <1>18 DEF Events!Close, ComingInv
<1> QED
  BY <1>8, <1>9, <1>10, <1>11, <1>12, <1>13, <1>14, <1>15, <1>16, <1>17, <1>18
     DEF Events!Next, Events!PutStep

\* A thread removes its waiting progress before it puts the next one, and no
\* other putter makes one of its name.
LEMMA ProgressSteps ==
  ASSUME PartsAssumption, QueueTypes, PuttingInv, ProgressInv, Events!Next PROVE ProgressInv'
<1> USE DEF Events!Goto, Events!putVars, Events!winVars
<1>1. /\ pc \in [Events!Putters -> {"idle", "coalesce", "put", "evict", "again", "emit"}]
      /\ event \in [Events!Putters -> Events!Events \union {None}]
      /\ queue \in Seq(Events!Events) /\ Len(queue) \in Nat /\ Threads \subseteq Events!Putters
  BY DEF QueueTypes, Events!Putters
<1> DEFINE Once(u) == \A i, j \in 1..Len(queue) :
                        queue[i] = Progress(u) /\ queue[j] = Progress(u) => i = j
           Absent(u) == \A i \in 1..Len(queue) : queue[i] # Progress(u)
           About(u) == pc[u] = "put" /\ event[u] = Progress(u)
<1>2. ProgressInv = \A u \in Threads : Once(u) /\ (About(u) => Absent(u))
  BY DEF ProgressInv
<1>p. (\A u \in Threads : Once(u)' /\ (About(u)' => Absent(u)')) => ProgressInv'
  BY DEF ProgressInv
<1>3. ASSUME UNCHANGED queue PROVE \A u : Once(u)' = Once(u) /\ Absent(u)' = Absent(u)
  BY <1>3
<1>4. ASSUME queue # <<>>, queue' = Tail(queue)
      PROVE  \A u : (Once(u) => Once(u)') /\ (Absent(u) => Absent(u)')
  <2>1. Len(queue) \in Nat /\ Len(queue') \in Nat /\
        \A i \in 1..Len(queue') : queue'[i] = queue[i + 1] /\ i + 1 \in 1..Len(queue)
    BY <1>4, QueueTail
  <2>2. \A i, j \in 1..Len(queue') : i + 1 = j + 1 => i = j
    OBVIOUS
  <2> QED BY <2>1, <2>2
<1>5. ASSUME NEW e \in Events!Events, Len(queue) < QueueCap, queue' = Append(queue, e), NEW u
      PROVE  /\ Once(u) /\ (e = Progress(u) => Absent(u)) => Once(u)'
             /\ Absent(u) /\ e # Progress(u) => Absent(u)'
  <2>1. /\ Len(queue') = Len(queue) + 1 /\ queue'[Len(queue) + 1] = e
        /\ \A i \in 1..Len(queue) : queue'[i] = queue[i]
    BY <1>5, QueueAppend
  <2>2. \A i \in 1..Len(queue') : i \in 1..Len(queue) \/ i = Len(queue) + 1
    BY <1>1, <2>1
  <2>3. ASSUME Once(u), e = Progress(u) => Absent(u),
               NEW i \in 1..Len(queue'), NEW j \in 1..Len(queue'),
               queue'[i] = Progress(u), queue'[j] = Progress(u)
        PROVE  i = j
    <3>1. CASE i \in 1..Len(queue) /\ j \in 1..Len(queue)
      BY <2>1, <2>3, <3>1
    <3>2. CASE i = Len(queue) + 1 /\ j \in 1..Len(queue)
      BY <2>1, <2>3, <3>2
    <3>3. CASE i \in 1..Len(queue) /\ j = Len(queue) + 1
      BY <2>1, <2>3, <3>3
    <3> QED BY <2>2, <3>1, <3>2, <3>3
  <2>4. ASSUME Absent(u), e # Progress(u), NEW i \in 1..Len(queue') PROVE queue'[i] # Progress(u)
    BY <2>1, <2>2, <2>4
  <2> QED BY <2>3, <2>4
<1>6. \A t \in Events!Putters, u \in Threads :
        pc[t] # "idle" /\ event[t] = Progress(u) => t = u
  BY <1>1, EventIs DEF PuttingInv
<1> HIDE DEF Once, Absent
\* A step of one putter that does not come to its put.
<1>7. ASSUME NEW t \in Events!Putters, NEW l, Events!Goto(t, l), UNCHANGED event, l # "put"
      PROVE  \A u \in Threads : About(u)' => About(u)
  <2>1. \A u \in Threads : pc'[u] = IF u = t THEN l ELSE pc[u]
    BY <1>1, <1>7
  <2> QED BY <1>7, <2>1
<1>8. ASSUME NEW t \in Events!Putters, NEW k \in Events!Kinds, Events!Write(t, k)
      PROVE  ProgressInv'
  <2>1. \A u \in Threads :
          /\ pc'[u] = IF u = t THEN (IF k = "progress" THEN "coalesce" ELSE "put") ELSE pc[u]
          /\ event'[u] = IF u = t THEN Events!Event(k, t) ELSE event[u]
    BY <1>1, <1>8 DEF Events!Write
  <2>2. \A u \in Threads : About(u)' => About(u)
    BY <1>1, <2>1, EventIs
  <2> QED BY <1>p, <1>2, <1>3, <1>8, <2>2 DEF Events!Write
<1>9. ASSUME NEW t \in Events!Putters, Events!Coalesce(t) PROVE ProgressInv'
  <2>1. UNCHANGED event /\ Events!Goto(t, "put") /\ queue' = Events!Older(event[t])
    BY <1>9 DEF Events!Coalesce
  <2>2. /\ \A k \in 1..Len(queue') : queue'[k] # event[t]
        /\ \A x : (\A i, j \in 1..Len(queue) : queue[i] = x /\ queue[j] = x => i = j)
             => \A k, l \in 1..Len(queue') : queue'[k] = x /\ queue'[l] = x => k = l
    <3> DEFINE q == Events!Older(event[t])
    <3>1. /\ \A k \in 1..Len(q) : q[k] # event[t]
          /\ \A x : (\A i, j \in 1..Len(queue) : queue[i] = x /\ queue[j] = x => i = j)
               => \A k, l \in 1..Len(q) : q[k] = x /\ q[l] = x => k = l
      BY <1>1, OlderIs
    <3> HIDE DEF q
    <3>2. queue' = q
      BY <2>1 DEF q
    <3> QED BY <3>1, <3>2
  <2>3. \A u : Once(u) => Once(u)'
    BY <2>2 DEF Once
  <2>4. \A u \in Threads : u # t => pc'[u] = pc[u]
    BY <1>1, <2>1
  <2>5. ASSUME NEW u \in Threads, u # t, Absent(u) PROVE Absent(u)'
    <3>1. queue \in Seq(Events!Events) /\ \A k \in 1..Len(queue') : \E i \in 1..Len(queue) :
            queue'[k] = queue[i]
      BY <1>1, <2>1, OlderIs
    <3> QED BY <2>5, <3>1 DEF Absent
  <2>6. event[t] = Progress(t) => Absent(t)'
    BY <2>2 DEF Absent
  <2> QED BY <1>p, <1>2, <2>1, <2>3, <2>4, <2>5, <2>6
<1>10. ASSUME NEW t \in Events!Putters, pc[t] = "put", event[t] \in Events!Events,
              Len(queue) < QueueCap, queue' = Append(queue, event[t]),
              Events!Goto(t, "emit"), UNCHANGED event
       PROVE  ProgressInv'
  <2>1. ASSUME NEW u \in Threads PROVE Once(u)' /\ (About(u)' => Absent(u)')
    <3>1. event[t] = Progress(u) => t = u /\ Absent(u)
      BY <1>2, <1>6, <1>10, <2>1
    <3>2. Once(u)'
      BY <1>2, <1>5, <1>10, <2>1, <3>1
    <3>3. pc'[t] = "emit" /\ (u # t => pc'[u] = pc[u])
      BY <1>1, <1>10, <2>1
    <3>4. About(u)' => u # t /\ About(u)
      BY <1>10, <3>3
    <3>5. About(u)' => Absent(u)'
      BY <1>2, <1>5, <1>10, <2>1, <3>1, <3>4
    <3> QED BY <3>2, <3>5
  <2> QED BY <1>p, <1>2, <2>1
<1>11. ASSUME NEW t \in Events!Putters, Events!PutEvent(t) PROVE ProgressInv'
  <2>1. pc[t] = "put" /\ UNCHANGED event /\ event[t] \in Events!Events
    BY <1>11, PutterEvent DEF Events!PutEvent
  <2>2. CASE Len(queue) < QueueCap
    BY <1>10, <1>11, <2>1, <2>2 DEF Events!PutEvent
  <2>3. CASE ~ Len(queue) < QueueCap
    <3>1. /\ UNCHANGED queue
          /\ Events!Goto(t, IF Events!Gives(event[t]) THEN "emit" ELSE "evict")
      BY <1>11, <2>3 DEF Events!PutEvent
    <3>2. \A u \in Threads : About(u)' => About(u)
      BY <1>7, <2>1, <3>1
    <3> QED BY <1>p, <1>2, <1>3, <3>1, <3>2
  <2> QED BY <2>2, <2>3
<1>12. ASSUME NEW t \in Events!Putters, Events!Evict(t) PROVE ProgressInv'
  <2>1. UNCHANGED event /\ Events!Goto(t, "again")
    BY <1>12 DEF Events!Evict
  <2>2. \A u \in Threads : About(u)' => About(u)
    BY <1>7, <2>1
  <2>3. \A u : (Once(u) => Once(u)') /\ (Absent(u) => Absent(u)')
    BY <1>3, <1>4, <1>12 DEF Events!Evict
  <2> QED BY <1>p, <1>2, <2>2, <2>3
<1>13. ASSUME NEW t \in Events!Putters, Events!PutAgain(t) PROVE ProgressInv'
  <2>1. /\ UNCHANGED event /\ Events!Goto(t, "emit") /\ event[t] \in Events!Events
        /\ event[t].kind # "progress"
    BY <1>13, PutterEvent DEF Events!PutAgain, PuttingInv
  <2>2. \A u \in Threads : About(u)' => About(u)
    BY <1>7, <2>1
  <2>3. \A u \in Threads : event[t] # Progress(u)
    BY <2>1, <1>1, EventIs DEF Progress, Events!Kinds
  <2>4. \A u \in Threads : (Once(u) => Once(u)') /\ (Absent(u) => Absent(u)')
    BY <1>3, <1>5, <1>13, <2>1, <2>3 DEF Events!PutAgain
  <2> QED BY <1>p, <1>2, <2>2, <2>4
<1>14. ASSUME NEW t \in Events!Putters, Events!Emit(t) PROVE ProgressInv'
  <2>1. \A u \in Threads : pc'[u] = (IF u = t THEN "idle" ELSE pc[u])
                           /\ (u # t => event'[u] = event[u])
    BY <1>1, <1>14 DEF Events!Emit
  <2>2. \A u \in Threads : About(u)' => About(u)
    BY <2>1
  <2> QED BY <1>p, <1>2, <1>3, <1>14, <2>2 DEF Events!Emit
<1>15. CASE Events!Drain
  <2>1. UNCHANGED <<pc, event>> /\ queue # <<>> /\ queue' = Tail(queue)
    BY <1>15 DEF Events!Drain
  <2> QED BY <1>p, <1>2, <1>4, <2>1
<1>16. CASE \/ Events!Poll \/ Events!PollEnds \/ Events!Answer \/ Events!Refresh \/ Events!Close
            \/ \E v \in Events!Both : Events!Redraw(v)
  <2>1. UNCHANGED <<pc, event, queue>>
    BY <1>16 DEF Events!Poll, Events!PollEnds, Events!Answer, Events!Refresh, Events!Close,
                 Events!Redraw
  <2> QED BY <1>p, <1>2, <1>3, <2>1
<1> QED
  BY <1>8, <1>9, <1>11, <1>12, <1>13, <1>14, <1>15, <1>16 DEF Events!Next, Events!PutStep

LEMMA QueueImplies ==
  ASSUME PartsAssumption, QueueInv PROVE Events!TypeOK /\ Events!ViewFresh
<1>1. queue \in Events!BoundedSeq(Events!Events, QueueCap)
  BY QueueConstants, BoundedEvents DEF QueueInv, QueueTypes
<1>2. Events!TypeOK
  BY <1>1 DEF QueueInv, QueueTypes, Events!TypeOK
<1>3. Events!NoStaleView
  BY DEF QueueInv, ComingInv, Coming, Events!NoStaleView, Events!UnderWay
<1>4. ASSUME NEW t \in Threads
      PROVE  Events!Cardinality({i \in 1..Len(queue) : queue[i] = Events!Event("progress", t)}) <= 1
  <2> DEFINE S == {i \in 1..Len(queue) : queue[i] = Progress(t)}
  <2>1. \A i, j \in S : i = j
    BY DEF QueueInv, ProgressInv
  <2>2. S = {} \/ \E i : S = {i}
    BY <2>1
  <2>3. Cardinality(S) = 0 \/ Cardinality(S) = 1
    <3> HIDE DEF S
    <3> QED BY <2>2, FS_EmptySet, FS_Singleton
  <2> QED BY <2>3, QueueCardinality DEF Progress
<1>5. Events!OneProgress
  BY <1>4 DEF Events!OneProgress
<1> QED BY <1>2, <1>3, <1>5 DEF Events!ViewFresh

\* No view of the open window stays out of date without its refresh under way,
\* unless the full queue dropped an event, and one progress per search waits
\* (core/client.py, gui/app.py): for any threads, queue length and writes.
THEOREM ViewsFresh == Spec => []ViewFresh
<1> DEFINE Inv == part = "events" => QueueInv
<1>1. Init => Inv
  BY PartsAssumption, QueueStart DEF Init
<1>2. Inv /\ [Next]_vars => Inv'
  <2> SUFFICES ASSUME Inv, [Next]_vars, part' = "events" PROVE QueueInv'
    OBVIOUS
  <2>1. part = "events" /\ QueueInv
    BY DEF Next, vars
  <2>2. CASE Events!Next
    BY <2>1, <2>2, PartsAssumption, QueueTypeSteps, PuttingSteps, ComingSteps, ProgressSteps
       DEF QueueInv
  <2>3. CASE UNCHANGED vars
    BY <2>1, <2>3 DEF vars, queueVars, QueueInv, QueueTypes, PuttingInv, ComingInv, Coming,
                      ProgressInv
  <2> QED BY <2>1, <2>2, <2>3 DEF Next
<1>3. Inv => ViewFresh
  BY PartsAssumption, QueueImplies DEF ViewFresh
<1> QED BY <1>1, <1>2, <1>3, PTL DEF Spec

-----------------------------------------------------------------------------
(* Conversations                                                             *)

LEMMA ChatCardinality == \A S : Chats!Cardinality(S) = Cardinality(S)
BY DEF Chats!Cardinality, Cardinality

\* Rows as a query returns them: no two have one id.
Numbered(R) ==
  /\ IsFiniteSet(R) /\ \A m \in R : m.id \in Int
  /\ \A m, o \in R : m.id = o.id => m = o

Ids(R) == {m.id : m \in R}

LEMMA NumberedPart ==
  ASSUME NEW R, Numbered(R), NEW T \in SUBSET R
  PROVE  Numbered(T)
BY FS_Subset DEF Numbered

LEMMA IdsCount ==
  ASSUME NEW R, Numbered(R)
  PROVE  /\ Ids(R) \subseteq Int /\ IsFiniteSet(Ids(R))
         /\ Cardinality(R) \in Nat /\ Cardinality(Ids(R)) = Cardinality(R)
<1> DEFINE f == [m \in R |-> m.id]
<1>1. f \in Injection(R, Ids(R)) /\ f \in Surjection(R, Ids(R))
  BY DEF Numbered, Ids, Injection, IsInjective, Surjection
<1>2. ExistsBijection(R, Ids(R))
  BY <1>1 DEF Bijection, ExistsBijection
<1>3. Ids(R) \subseteq Int
  BY DEF Numbered, Ids
<1> QED BY <1>2, <1>3, FS_Bijection, FS_CardinalityType DEF Numbered

\* The rows after one of them are those its rank leaves.
LEMMA LaterRows ==
  ASSUME NEW R, Numbered(R), NEW m \in R
  PROVE  Cardinality({o \in R : o.id > m.id}) = Cardinality(R) - Rank(Ids(R), m.id)
<1> DEFINE below == {o \in R : o.id <= m.id}
           later == {o \in R : o.id > m.id}
<1>1. m.id \in Int /\ \A o \in R : o.id \in Int
  BY DEF Numbered
<1>2. later = R \ below
  BY <1>1
<1>3. Ids(below) = {j \in Ids(R) : j <= m.id}
  BY <1>1 DEF Ids
<1>4. Cardinality(below) = Rank(Ids(R), m.id) /\ IsFiniteSet(below) /\ Cardinality(below) \in Nat
  BY <1>3, NumberedPart, IdsCount DEF Rank, Numbered
<1>5. IsFiniteSet(R) /\ Cardinality(R) \in Nat
  BY IdsCount DEF Numbered
<1>6. R \intersect below = below
  OBVIOUS
<1>7. Cardinality(R \ below) = Cardinality(R) - Cardinality(R \intersect below)
  BY <1>5, FS_Difference
<1> QED BY <1>2, <1>4, <1>6, <1>7

\* LIMIT n returns n rows, or all if there are not so many.
LEMMA NewestSize ==
  ASSUME NEW R, Numbered(R), NEW n \in Nat
  PROVE  Cardinality(Chats!Newest(R, n)) = IF Cardinality(R) <= n THEN Cardinality(R) ELSE n
<1> DEFINE N == Cardinality(R)
           rank == [m \in R |-> Rank(Ids(R), m.id)]
           new == Chats!Newest(R, n)
<1>1. N \in Nat /\ Cardinality(Ids(R)) = N /\ IsFiniteSet(R)
  BY IdsCount DEF Numbered
<1>2. \A m \in R : rank[m] \in 1..N
  BY <1>1, IdsCount, Ranks DEF Ids
<1>3. new = {m \in R : N - rank[m] < n}
  <2>1. \A m \in R : Cardinality({o \in R : o.id > m.id}) = N - rank[m]
    BY LaterRows
  <2> HIDE DEF N, rank
  <2> QED BY <2>1, ChatCardinality DEF Chats!Newest
<1>4. \A m, o \in R : rank[m] = rank[o] => m = o
  BY IdsCount, Ranks DEF Ids, Numbered
<1>5. \A k \in 1..N : \E m \in R : rank[m] = k
  <2> SUFFICES ASSUME NEW k \in 1..N PROVE \E m \in R : rank[m] = k
    OBVIOUS
  <2>1. PICK i \in Ids(R) : Rank(Ids(R), i) = k
    BY <1>1, IdsCount, Ranks
  <2> QED BY <2>1 DEF Ids
<1> HIDE DEF N, rank, new
<1>6. CASE N <= n
  <2>1. new = R
    BY <1>1, <1>2, <1>3, <1>6
  <2> QED BY <1>6, <2>1 DEF N, new
<1>7. CASE ~(N <= n)
  <2> DEFINE last == (N - n + 1)..N
             f == [m \in new |-> rank[m]]
  <2>1. \A m \in new : rank[m] \in last
    BY <1>1, <1>2, <1>3
  <2>2. \A k \in last : k \in 1..N /\ N - k < n
    BY <1>1, <1>7
  <2>3. \A k \in last : \E m \in new : rank[m] = k
    BY <1>3, <1>5, <2>2
  <2>4. f \in Injection(new, last) /\ f \in Surjection(new, last)
    BY <1>3, <1>4, <2>1, <2>3 DEF Injection, IsInjective, Surjection
  <2>5. ExistsBijection(new, last)
    BY <2>4 DEF Bijection, ExistsBijection
  <2>6. IsFiniteSet(new)
    BY <1>1, <1>3, FS_Subset
  <2>7. Cardinality(last) = Cardinality(new)
    BY <2>5, <2>6, FS_Bijection
  <2>8. Cardinality(last) = n
    <3>1. N - n + 1 \in Int /\ N \in Int /\ N - n + 1 <= N + 1
      BY <1>1
    <3>2. Cardinality(last) = IF N - n + 1 > N THEN 0 ELSE N - (N - n + 1) + 1
      BY <3>1, FS_Interval
    <3> QED BY <1>1, <3>2
  <2> QED BY <1>7, <2>7, <2>8 DEF N, new
<1> QED BY <1>6, <1>7

\* The row a query for one row returns.
LEMMA LatestRow ==
  ASSUME NEW R, Numbered(R), NEW m \in R, \A o \in R : o.id <= m.id
  PROVE  Chats!NewestOf(R) = m
<1>1. Chats!Max(Ids(R)) = m.id
  <2>1. m.id \in Ids(R) /\ \A j \in Ids(R) : j \in Int /\ m.id >= j
    BY DEF Ids, Numbered
  <2>2. \A x \in Ids(R) : (\A j \in Ids(R) : x >= j) => x = m.id
    BY <2>1
  <2> QED BY <2>1, <2>2 DEF Chats!Max
<1>2. \A o \in R : o.id = m.id <=> o = m
  BY DEF Numbered
<1> QED BY <1>1, <1>2 DEF Chats!NewestOf, Ids

LEMMA HasLatest ==
  ASSUME NEW R, Numbered(R), R # {}
  PROVE  \E m \in R : \A o \in R : o.id <= m.id
<1> DEFINE N == Cardinality(R)
<1>1. N \in Nat /\ N # 0 /\ Cardinality(Ids(R)) = N
  BY IdsCount, FS_EmptySet DEF Numbered
<1>2. Ids(R) \subseteq Int /\ IsFiniteSet(Ids(R))
  BY IdsCount
<1>3. PICK i \in Ids(R) : Rank(Ids(R), i) = N
  BY <1>1, <1>2, Ranks
<1>4. PICK m \in R : i = m.id
  BY DEF Ids
<1>5. ASSUME NEW o \in R, ~(o.id <= m.id) PROVE FALSE
  <2>1. o.id \in Ids(R) /\ o.id \in Int /\ i \in Int /\ i < o.id
    BY <1>2, <1>4, <1>5 DEF Ids, Numbered
  <2>2. Rank(Ids(R), i) < Rank(Ids(R), o.id)
    BY <1>2, <2>1, RankOrder
  <2>3. Rank(Ids(R), o.id) \in 1..N
    BY <1>1, <1>2, <2>1, Ranks
  <2> HIDE DEF N
  <2> QED BY <1>1, <1>3, <2>2, <2>3
<1> QED BY <1>5

\* The latest row is the latest of the newest rows, if there are any.
LEMMA LatestIsNewest ==
  ASSUME NEW R, Numbered(R), NEW n \in Nat \ {0}
  PROVE  Chats!NewestOf(Chats!Newest(R, n)) = Chats!NewestOf(R)
<1> DEFINE new == Chats!Newest(R, n)
<1>1. new \in SUBSET R
  BY DEF Chats!Newest
<1>2. CASE R = {}
  <2>1. new = R
    BY <1>1, <1>2
  <2> QED BY <2>1
<1>3. CASE R # {}
  <2>1. PICK m \in R : \A o \in R : o.id <= m.id
    BY <1>3, HasLatest
  <2>2. {o \in R : o.id > m.id} = {}
    BY <2>1 DEF Numbered
  <2>3. m \in new
    <3>1. Cardinality({o \in R : o.id > m.id}) < n
      BY <2>2, FS_EmptySet, ChatCardinality
    <3> QED BY <3>1, ChatCardinality DEF Chats!Newest
  <2>4. Numbered(new) /\ \A o \in new : o.id <= m.id
    BY <1>1, <2>1, NumberedPart
  <2> HIDE DEF new
  <2> QED BY <2>1, <2>3, <2>4, LatestRow DEF new
<1> QED BY <1>2, <1>3

\* The tables and the window; ids are those of AUTOINCREMENT.
ChatInv ==
  /\ messages \subseteq Chats!RowsOf(MaxRows) /\ Numbered(messages)
  /\ nextId \in 1..(MaxRows + 1) /\ \A m \in messages : m.id < nextId
  /\ contacts \subseteq Mine \union Others /\ subs \subseteq Chans
  /\ loaded \subseteq Mine /\ current \in Mine
  /\ conversation \in {None} \union ({"contact", "channel"} \X Chats!Addresses)

LEMMA ChatStart ==
  ASSUME Chats!ConversationsAssumption, Chats!Init PROVE ChatInv
BY FS_EmptySet DEF Chats!ConversationsAssumption, Chats!Init, ChatInv, Numbered

LEMMA RowAdded ==
  ASSUME Chats!ConversationsAssumption, ChatInv,
         NEW f \in Chats!Addresses, NEW t \in Chats!Addresses, NEW s \in Chats!Statuses,
         Chats!Stored(f, t, s)
  PROVE  ChatInv'
<1> DEFINE r == Chats!Row(nextId, f, t, s)
<1>1. MaxRows \in Nat /\ nextId \in 1..MaxRows
  BY DEF Chats!ConversationsAssumption, ChatInv, Chats!Stored
<1>2. r.id = nextId /\ r \in Chats!RowsOf(MaxRows)
  BY <1>1 DEF Chats!Row, Chats!RowsOf
<1>3. messages' = messages \union {r} /\ nextId' = nextId + 1
  BY DEF Chats!Stored
<1> HIDE DEF r
<1>4. Numbered(messages')
  <2>1. IsFiniteSet(messages')
    BY <1>3, FS_AddElement DEF ChatInv, Numbered
  <2>2. \A m \in messages' : m.id \in Int
    BY <1>1, <1>2, <1>3 DEF ChatInv, Numbered
  <2>3. \A m \in messages : m.id # r.id
    BY <1>1, <1>2 DEF ChatInv, Numbered
  <2>4. \A m, o \in messages' : m.id = o.id => m = o
    BY <1>3, <2>3 DEF ChatInv, Numbered
  <2> QED BY <2>1, <2>2, <2>4 DEF Numbered
<1>5. nextId' \in 1..(MaxRows + 1) /\ \A m \in messages' : m.id < nextId'
  BY <1>1, <1>2, <1>3 DEF ChatInv, Numbered
<1>6. messages' \subseteq Chats!RowsOf(MaxRows)
  BY <1>2, <1>3 DEF ChatInv
<1> QED BY <1>4, <1>5, <1>6 DEF ChatInv, Chats!Stored

LEMMA RowsRemoved ==
  ASSUME ChatInv, messages' \subseteq messages, UNCHANGED <<nextId, loaded, current>>,
         contacts' \subseteq contacts, subs' \subseteq subs, conversation' \in {None, conversation}
  PROVE  ChatInv'
BY NumberedPart DEF ChatInv

LEMMA RowsRead ==
  ASSUME ChatInv, NEW kind, NEW a, messages' = Chats!MarkedRead(kind, a)
  PROVE  /\ messages' \subseteq Chats!RowsOf(MaxRows) /\ Numbered(messages')
         /\ nextId \in Nat => \A m \in messages' : m.id < nextId
<1> DEFINE marked(m) == [m EXCEPT !.status = "read"]
<1>1. PICK read \in SUBSET messages :
        messages' = (messages \ read) \union {marked(m) : m \in read}
  <2> DEFINE seen == IF kind = "contact" /\ Chats!Ident # None THEN Chats!Between(a, Chats!Ident)
                     ELSE Chats!Involving(a)
             read == {m \in seen : m.status = "received"}
  <2>1. read \in SUBSET messages
    BY DEF Chats!Between, Chats!Involving
  <2>2. messages' = (messages \ read) \union {marked(m) : m \in read}
    BY DEF Chats!MarkedRead
  <2> QED BY <2>1, <2>2
<1>2. \A m \in messages : /\ marked(m) \in Chats!RowsOf(MaxRows)
                          /\ marked(m).id = m.id /\ m.id \in Int
  BY DEF ChatInv, Chats!RowsOf, Chats!Statuses
<1>3. IsFiniteSet(messages')
  <2>1. IsFiniteSet({marked(m) : m \in read}) /\ IsFiniteSet(messages \ read)
    <3>1. IsFiniteSet(read) /\ IsFiniteSet(messages \ read)
      BY <1>1, FS_Subset DEF ChatInv, Numbered
    <3>2. IsFiniteSet({[m EXCEPT !.status = "read"] : m \in read})
      <4> DEFINE f == [m \in read |-> marked(m)]
                 changed == {marked(m) : m \in read}
      <4>1. f \in Surjection(read, changed)
        BY DEF Surjection
      <4> QED BY <3>1, <4>1, FS_Surjection
    <3> QED BY <3>1, <3>2
  <2> HIDE DEF marked
  <2> QED BY <1>1, <2>1, FS_Union
<1> HIDE DEF marked
<1>4. \A m \in messages' : \E o \in messages :
        m.id = o.id /\ (IF o \in read THEN m = marked(o) ELSE m = o)
  BY <1>1, <1>2
<1>5. \A m, o \in messages' : m.id = o.id => m = o
  <2> SUFFICES ASSUME NEW m \in messages', NEW o \in messages', m.id = o.id PROVE m = o
    OBVIOUS
  <2>1. PICK m0 \in messages : m.id = m0.id /\ (IF m0 \in read THEN m = marked(m0) ELSE m = m0)
    BY <1>4
  <2>2. PICK o0 \in messages : o.id = o0.id /\ (IF o0 \in read THEN o = marked(o0) ELSE o = o0)
    BY <1>4
  <2>3. m0 = o0
    BY <2>1, <2>2 DEF ChatInv, Numbered
  <2> QED BY <2>1, <2>2, <2>3
<1>6. Numbered(messages')
  BY <1>2, <1>3, <1>4, <1>5 DEF Numbered
<1>7. messages' \subseteq Chats!RowsOf(MaxRows)
  BY <1>1, <1>2 DEF ChatInv
<1>8. nextId \in Nat => \A m \in messages' : m.id < nextId
  BY <1>2, <1>4 DEF ChatInv
<1> QED BY <1>6, <1>7, <1>8

LEMMA ChatSteps ==
  ASSUME Chats!ConversationsAssumption, ChatInv, Chats!Next PROVE ChatInv'
<1>1. CASE Chats!Receive
  <2>1. PICK f \in Chats!Addresses, t \in Chats!Addresses : Chats!Stored(f, t, "received")
    BY <1>1 DEF Chats!Receive, Chats!Addresses, ChatInv
  <2> QED BY <2>1, RowAdded DEF Chats!Statuses
<1>2. CASE Chats!Send
  <2>1. PICK f \in Chats!Addresses, t \in Chats!Addresses : Chats!Stored(f, t, "out")
    BY <1>2 DEF Chats!Send, Chats!Addresses, ChatInv
  <2> QED BY <2>1, RowAdded DEF Chats!Statuses
<1>3. ASSUME NEW a \in Mine \union Others, Chats!AddContact(a) PROVE ChatInv'
  BY <1>3 DEF Chats!AddContact, ChatInv
<1>4. ASSUME NEW c \in Chans, Chats!Subscribe(c) PROVE ChatInv'
  BY <1>4 DEF Chats!Subscribe, ChatInv
<1>5. ASSUME NEW i \in Mine, Chats!Select(i) PROVE ChatInv'
  BY <1>5 DEF Chats!Select, ChatInv
<1>6. ASSUME NEW i \in Mine, Chats!Toggle(i) PROVE ChatInv'
  BY <1>6 DEF Chats!Toggle, ChatInv
<1> SUFFICES ASSUME NEW a \in Chats!Addresses, NEW k \in {"contact", "channel"},
                    \/ Chats!Open(k, a) \/ Chats!DeleteConversation(k, a)
                    \/ Chats!RemoveEntry(k, a)
             PROVE  ChatInv'
  BY <1>1, <1>2, <1>3, <1>4, <1>5, <1>6 DEF Chats!Next
<1>7. CASE Chats!Open(k, a)
  <2>1. /\ messages' \subseteq Chats!RowsOf(MaxRows) /\ Numbered(messages')
        /\ \A m \in messages' : m.id < nextId
    BY <1>7, RowsRead DEF Chats!Open, ChatInv
  <2>2. UNCHANGED <<nextId, contacts, subs, loaded, current>> /\ conversation' = <<k, a>>
    BY <1>7 DEF Chats!Open
  <2>3. <<k, a>> \in {"contact", "channel"} \X Chats!Addresses
    OBVIOUS
  <2> QED BY <2>1, <2>2, <2>3 DEF ChatInv
<1>8. CASE Chats!DeleteConversation(k, a)
  BY <1>8, RowsRemoved DEF Chats!DeleteConversation, Chats!Closed
<1>9. CASE Chats!RemoveEntry(k, a)
  BY <1>9, RowsRemoved DEF Chats!RemoveEntry, Chats!Closed
<1> QED BY <1>7, <1>8, <1>9

\* What the chat shows are the newest of the rows that are counted, and the
\* preview is the latest of them.
LEMMA RowsShown ==
  ASSUME Chats!ConversationsAssumption, ChatInv,
         NEW kind \in {"contact", "channel"}, NEW a
  PROVE  \E counted \in SUBSET messages :
           /\ Chats!ChatRows(kind, a) = Chats!Newest(counted, ChatLimit)
           /\ Chats!Count(kind, a) = Cardinality(counted)
           /\ (kind = "contact" /\ a \in Mine) \/ Chats!LastRow(kind, a) = Chats!NewestOf(counted)
<1> DEFINE own == Chats!Between(a, a)
           pair == Chats!Between(a, Chats!Ident)
           all == Chats!Involving(a)
<1>0. own \in SUBSET messages /\ pair \in SUBSET messages /\ all \in SUBSET messages
  BY DEF Chats!Between, Chats!Involving
<1>1. CASE kind = "contact" /\ a \in loaded
  BY <1>0, <1>1, ChatCardinality DEF Chats!ChatRows, Chats!Count, ChatInv
<1>2. pair = {} <=> Cardinality(pair) = 0
  BY <1>0, NumberedPart, FS_EmptySet DEF ChatInv, Numbered
<1>3. CASE /\ ~(kind = "contact" /\ a \in loaded)
           /\ kind = "contact" /\ Chats!Ident # None /\ pair # {}
  <2>1. Chats!ChatRows(kind, a) = Chats!Newest(pair, ChatLimit)
    BY <1>3 DEF Chats!ChatRows
  <2>2. Chats!Count(kind, a) = Cardinality(pair)
    BY <1>2, <1>3, ChatCardinality DEF Chats!Count
  <2>3. Chats!LastRow(kind, a) = Chats!NewestOf(pair)
    BY <1>3 DEF Chats!LastRow
  <2> QED BY <1>0, <2>1, <2>2, <2>3
<1>4. CASE /\ ~(kind = "contact" /\ a \in loaded)
           /\ ~(kind = "contact" /\ Chats!Ident # None /\ pair # {})
  <2>1. Chats!ChatRows(kind, a) = Chats!Newest(all, ChatLimit)
    BY <1>4 DEF Chats!ChatRows
  <2>2. Chats!Count(kind, a) = Cardinality(all)
    BY <1>2, <1>4, ChatCardinality DEF Chats!Count
  <2>3. Chats!LastRow(kind, a) = Chats!NewestOf(all)
    BY <1>4 DEF Chats!LastRow
  <2> QED BY <1>0, <2>1, <2>2, <2>3
<1> QED BY <1>1, <1>3, <1>4

LEMMA ChatImplies ==
  ASSUME Chats!ConversationsAssumption, ChatInv
  PROVE  Chats!TypeOK /\ Chats!ConversationsSound
<1>1. Chats!TypeOK
  BY DEF ChatInv, Chats!TypeOK
<1>2. ASSUME NEW c \in Chats!Listed
      PROVE  LET counted == Chats!ChatRows(c[1], c[2]) IN
             /\ Chats!Cardinality(counted) = Chats!Min({ChatLimit, Chats!Count(c[1], c[2])})
             /\ \/ c[1] = "contact" /\ c[2] \in Mine
                \/ Chats!LastRow(c[1], c[2]) = Chats!NewestOf(counted)
  <2>1. c[1] \in {"contact", "channel"}
    BY <1>2 DEF Chats!Listed, Chats!Kind
  <2>2. PICK counted \in SUBSET messages :
          /\ Chats!ChatRows(c[1], c[2]) = Chats!Newest(counted, ChatLimit)
          /\ Chats!Count(c[1], c[2]) = Cardinality(counted)
          /\ \/ c[1] = "contact" /\ c[2] \in Mine
             \/ Chats!LastRow(c[1], c[2]) = Chats!NewestOf(counted)
    BY <2>1, RowsShown
  <2>3. Numbered(counted) /\ ChatLimit \in Nat \ {0}
    BY <2>2, NumberedPart DEF ChatInv, Chats!ConversationsAssumption
  <2>4. Cardinality(counted) \in Nat
    BY <2>3, IdsCount
  <2>5. Cardinality(Chats!Newest(counted, ChatLimit)) =
          IF Cardinality(counted) <= ChatLimit THEN Cardinality(counted) ELSE ChatLimit
    BY <2>3, NewestSize
  <2>6. \A x, y \in Nat : Chats!Min({x, y}) = IF y <= x THEN y ELSE x
    BY DEF Chats!Min
  <2>7. Chats!NewestOf(Chats!Newest(counted, ChatLimit)) = Chats!NewestOf(counted)
    BY <2>3, LatestIsNewest
  <2>8. Chats!Cardinality(Chats!ChatRows(c[1], c[2]))
          = Chats!Min({ChatLimit, Chats!Count(c[1], c[2])})
    BY <2>2, <2>3, <2>4, <2>5, <2>6, ChatCardinality
  <2> QED BY <2>2, <2>7, <2>8
<1>3. Chats!ViewsAgree
  BY <1>2 DEF Chats!ViewsAgree
<1>4. \A counted : Chats!Newest(counted, ChatLimit) \subseteq counted
  BY DEF Chats!Newest
<1>5. current # None /\ (current \in loaded => Chats!Ident = current)
  BY DEF ChatInv, Chats!ConversationsAssumption, Chats!Ident
<1>6. Chats!Isolated
  BY <1>4, <1>5 DEF Chats!Isolated, Chats!ChatRows
<1> QED BY <1>1, <1>3, <1>6 DEF Chats!ConversationsSound

\* The chat, its counter and its preview speak of the same rows, and no
\* identity sees the letters of another (gui/app.py), for any identities,
\* contacts, channels and limit of a chat.
THEOREM ChatsSound == Spec => []ConversationsSound
<1> DEFINE Inv == part = "chats" => ChatInv
<1>1. Init => Inv
  BY PartsAssumption, ChatStart DEF Init, PartsAssumption
<1>2. Inv /\ [Next]_vars => Inv'
  <2> SUFFICES ASSUME Inv, [Next]_vars, part' = "chats" PROVE ChatInv'
    OBVIOUS
  <2>1. part = "chats" /\ ChatInv
    BY DEF Next, vars
  <2>2. CASE Chats!Next
    BY <2>1, <2>2, PartsAssumption, ChatSteps DEF PartsAssumption
  <2>3. CASE UNCHANGED vars
    BY <2>1, <2>3 DEF vars, chatVars, ChatInv, Numbered
  <2> QED BY <2>1, <2>2, <2>3 DEF Next
<1>3. Inv => ConversationsSound
  BY PartsAssumption, ChatImplies DEF PartsAssumption, ConversationsSound
<1> QED BY <1>1, <1>2, <1>3, PTL DEF Spec

-----------------------------------------------------------------------------
(* Objects                                                                   *)

\* The objects of a direct message carry no tag, and every header has the
\* fields of a header.
SampleInv ==
  \/ sample.kind = "none"
  \/ /\ sample.kind \in {"msg", "broadcast", "pubkey"}
     /\ \E expires, type, ver, stream, tag :
          /\ sample.object.header = Contents!Header(expires, type, ver, stream, tag)
          /\ sample.kind = "msg" => tag = None
  \/ \E p, q \in Holders, ttl \in TTLs : sample = [kind |-> "own", by |-> p, to |-> q, ttl |-> ttl]

LEMMA ChangedHeader ==
  ASSUME NEW e, NEW t, NEW v, NEW s, NEW g, NEW tag,
         g \in Contents!Changes(Contents!Header(e, t, v, s, tag))
  PROVE  \E e2, v2, s2 : g = Contents!Header(e2, t, v2, s2, tag)
<1> DEFINE h == Contents!Header(e, t, v, s, tag)
<1>1. g = h \/ g = [h EXCEPT !.expires = @ + 1] \/ g = [h EXCEPT !.stream = @ + 1]
        \/ g = [h EXCEPT !.version = @ + 1]
  BY DEF Contents!Changes
<1>2. CASE g = h
  BY <1>2
<1>3. CASE g = [h EXCEPT !.expires = @ + 1]
  <2>1. g = Contents!Header(e + 1, t, v, s, tag)
    BY <1>3 DEF Contents!Header
  <2> QED BY <2>1
<1>4. CASE g = [h EXCEPT !.stream = @ + 1]
  <2>1. g = Contents!Header(e, t, v, s + 1, tag)
    BY <1>4 DEF Contents!Header
  <2> QED BY <2>1
<1>5. CASE g = [h EXCEPT !.version = @ + 1]
  <2>1. g = Contents!Header(e, t, v + 1, s, tag)
    BY <1>5 DEF Contents!Header
  <2> QED BY <2>1
<1> QED BY <1>1, <1>2, <1>3, <1>4, <1>5

\* Whoever signed it, the object arrives under the header g.
LEMMA ForeignHeader ==
  ASSUME NEW kind, NEW h, NEW g, NEW key, NEW fields, NEW s,
         Contents!Foreign(kind, h, g, key, fields, s)
  PROVE  sample'.kind = kind /\ sample'.object.header = g
<1>1. PICK whole \in BOOLEAN :
        sample' = [kind |-> kind,
                   object |-> [Contents!Object(g, key, fields, Contents!Sign(s, h, fields))
                                 EXCEPT !.whole = whole]]
  BY DEF Contents!Foreign
<1> QED BY <1>1 DEF Contents!Object

LEMMA SampleSteps ==
  ASSUME Contents!Next PROVE SampleInv'
<1>1. CASE Contents!ForeignMsg
  <2>1. PICK s, p, q \in Holders, own \in Contents!Owns, stream \in Streams :
          \E g \in Contents!Changes(Contents!Header(0, "msg", 1, stream, None)) :
            Contents!Foreign("msg", Contents!Header(0, "msg", 1, stream, None), g, p,
              [own |-> own, ripe |-> Contents!Ripe(q, q), encoding |-> 1, message |-> "text",
               ack |-> "ack"], s)
    BY <1>1 DEF Contents!ForeignMsg
  <2>2. PICK g \in Contents!Changes(Contents!Header(0, "msg", 1, stream, None)) :
          sample'.kind = "msg" /\ sample'.object.header = g
    BY <2>1, ForeignHeader
  <2>3. \E e2, v2, s2 : g = Contents!Header(e2, "msg", v2, s2, None)
    BY ChangedHeader
  <2> QED BY <2>2, <2>3 DEF SampleInv
<1>2. CASE Contents!ForeignPost
  <2>1. PICK s, p \in Holders, own \in Contents!Owns, encoding \in 0..1 :
          LET h == Contents!Header(0, "broadcast", 5, StreamOf[p], Contents!Home(p)) IN
          \E g \in Contents!Changes(h) :
            Contents!Foreign("broadcast", h, g, Contents!Home(p),
              [own |-> own, encoding |-> encoding, message |-> "text"], s)
    BY <1>2 DEF Contents!ForeignPost
  <2>2. PICK g \in Contents!Changes(
                   Contents!Header(0, "broadcast", 5, StreamOf[p], Contents!Home(p))) :
          sample'.kind = "broadcast" /\ sample'.object.header = g
    BY <2>1, ForeignHeader
  <2>3. \E e2, v2, s2 : g = Contents!Header(e2, "broadcast", v2, s2, Contents!Home(p))
    BY ChangedHeader
  <2> QED BY <2>2, <2>3 DEF SampleInv
<1>3. CASE Contents!ForeignKey
  <2>1. PICK s, p \in Holders, own \in Contents!Owns :
          LET h == Contents!Header(0, "pubkey", 4, StreamOf[p], Contents!Home(p)) IN
          \E g \in Contents!Changes(h) :
            Contents!Foreign("pubkey", h, g, Contents!Home(p), [own |-> own], s)
    BY <1>3 DEF Contents!ForeignKey
  <2>2. PICK g \in Contents!Changes(
                   Contents!Header(0, "pubkey", 4, StreamOf[p], Contents!Home(p))) :
          sample'.kind = "pubkey" /\ sample'.object.header = g
    BY <2>1, ForeignHeader
  <2>3. \E e2, v2, s2 : g = Contents!Header(e2, "pubkey", v2, s2, Contents!Home(p))
    BY ChangedHeader
  <2> QED BY <2>2, <2>3 DEF SampleInv
<1>4. CASE Contents!OwnObject
  BY <1>4 DEF Contents!OwnObject, SampleInv
<1> QED BY <1>1, <1>2, <1>3, <1>4 DEF Contents!Next

\* What the reader fills in is what the header says.
MsgHeader(h) == [h EXCEPT !.version = 1, !.tag = None]
PostHeader(h) == [h EXCEPT !.version = 5]

LEMMA HeadersAlike ==
  ASSUME NEW e, NEW t, NEW v, NEW s, NEW tag
  PROVE  /\ Contents!Header(e, t, v, s, tag).version = v
         /\ MsgHeader(Contents!Header(e, t, 1, s, None)) = Contents!Header(e, t, 1, s, None)
         /\ PostHeader(Contents!Header(e, t, 5, s, tag)) = Contents!Header(e, t, 5, s, tag)
<1>1. Contents!Header(e, t, v, s, tag).version = v
  BY DEF Contents!Header
<1>2. MsgHeader(Contents!Header(e, t, 1, s, None)) = Contents!Header(e, t, 1, s, None)
  <2> DEFINE h == Contents!Header(e, t, 1, s, None)
  <2>1. [h EXCEPT !.version = 1] = h
    BY DEF Contents!Header
  <2>2. [h EXCEPT !.tag = None] = h
    BY DEF Contents!Header
  <2>3. MsgHeader(h) = [[h EXCEPT !.version = 1] EXCEPT !.tag = None]
    BY DEF Contents!Header, MsgHeader
  <2> HIDE DEF h
  <2>4. MsgHeader(h) = h
    BY <2>1, <2>2, <2>3
  <2> QED BY <2>4 DEF h
<1>3. PostHeader(Contents!Header(e, t, 5, s, tag)) = Contents!Header(e, t, 5, s, tag)
  BY DEF Contents!Header, PostHeader
<1> QED BY <1>1, <1>2, <1>3

\* What the reader checked of a message.
LEMMA MsgChecked ==
  ASSUME NEW o, NEW p, Contents!ReadMsg(o, p) # None
  PROVE  LET own == o.fields.own IN
         /\ o.header.version = 1 /\ o.key = p /\ o.fields.ripe = Contents!Ripe(p, p)
         /\ Contents!Verifies(o, own.signing, MsgHeader(o.header))
         /\ Contents!ReadMsg(o, p).to = p
         /\ Contents!ReadMsg(o, p).from.ripe[1] = own.signing
BY DEF Contents!ReadMsg, Contents!Address, Contents!Ripe, MsgHeader

LEMMA MessagesAuthentic ==
  ASSUME SampleInv PROVE Contents!MessageAuthentic
<1> SUFFICES ASSUME sample.kind = "msg", Contents!ProcessMsg(sample.object, Holders) # None
             PROVE  LET o == sample.object
                        read == Contents!ProcessMsg(o, Holders)
                    IN  /\ o.signature = Contents!Sign(read.from.ripe[1], o.header, o.fields)
                        /\ o.whole /\ read.to = o.key
                        /\ o.fields.ripe = Contents!Ripe(read.to, read.to)
  BY DEF Contents!MessageAuthentic
<1> DEFINE o == sample.object
           read == Contents!ProcessMsg(o, Holders)
<1>1. PICK p \in Holders : read = Contents!ReadMsg(o, p) /\ Contents!ReadMsg(o, p) # None
  BY DEF Contents!ProcessMsg
<1>2. PICK e, t, v, s : o.header = Contents!Header(e, t, v, s, None)
  BY DEF SampleInv
<1> HIDE DEF o, read
<1>3. o.header.version = 1
  BY <1>1, MsgChecked
<1>4. MsgHeader(o.header) = o.header
  BY <1>2, <1>3, HeadersAlike
<1>5. /\ o.key = p /\ o.fields.ripe = Contents!Ripe(p, p)
      /\ Contents!Verifies(o, o.fields.own.signing, o.header)
      /\ read.to = p /\ read.from.ripe[1] = o.fields.own.signing
  BY <1>1, <1>4, MsgChecked
<1> QED BY <1>5 DEF Contents!Verifies, o, read

LEMMA PostChecked ==
  ASSUME NEW o, NEW subscriptions, Contents!ProcessBroadcast(o, subscriptions) # None
  PROVE  LET own == o.fields.own
             read == Contents!ProcessBroadcast(o, subscriptions) IN
         /\ o.header.version = 5
         /\ Contents!Verifies(o, own.signing, PostHeader(o.header))
         /\ read.from = read.channel /\ read.from.ripe[1] = own.signing
BY DEF Contents!ProcessBroadcast, Contents!PosterIs, Contents!Address, Contents!Ripe, PostHeader

LEMMA PostsAuthentic ==
  ASSUME SampleInv PROVE Contents!PostAuthentic
<1> SUFFICES ASSUME sample.kind = "broadcast",
                    Contents!ProcessBroadcast(sample.object, Contents!Addresses) # None
             PROVE  LET o == sample.object
                        read == Contents!ProcessBroadcast(o, Contents!Addresses)
                    IN  /\ read.from = read.channel
                        /\ o.signature = Contents!Sign(read.from.ripe[1], o.header, o.fields)
  BY DEF Contents!PostAuthentic
<1> DEFINE o == sample.object
           read == Contents!ProcessBroadcast(o, Contents!Addresses)
<1>1. PICK e, t, v, s, tag : o.header = Contents!Header(e, t, v, s, tag)
  BY DEF SampleInv
<1>2. read # None
  OBVIOUS
<1> HIDE DEF o
<1>3. o.header.version = 5
  BY <1>2, PostChecked
<1>4. PostHeader(o.header) = o.header
  BY <1>1, <1>3, HeadersAlike
<1>5. Contents!Verifies(o, o.fields.own.signing, o.header)
  BY <1>2, <1>4, PostChecked
<1>6. read.from = read.channel /\ read.from.ripe[1] = o.fields.own.signing
  BY <1>2, PostChecked
<1> QED BY <1>5, <1>6 DEF Contents!Verifies, o

LEMMA KeysAuthentic == Contents!KeyAuthentic
BY DEF Contents!KeyAuthentic, Contents!ProcessPubkey, Contents!Verifies, Contents!InRange,
       Contents!Addresses, Contents!Home, Contents!Address, Contents!Ripe

\* What this client writes.
LEMMA HomeAddress ==
  ASSUME Contents!ObjectsAssumption, NEW p \in Holders
  PROVE  /\ Contents!Home(p) \in Contents!AllAddresses
         /\ Contents!Home(p).ripe = <<p, p>> /\ StreamOf[p] \in Nat \ {0}
BY DEF Contents!ObjectsAssumption, Contents!Home, Contents!Address, Contents!Ripe,
       Contents!AllAddresses

LEMMA OwnMessageRead ==
  ASSUME Contents!ObjectsAssumption, NEW p \in Holders, NEW q \in Holders, NEW ttl
  PROVE  LET o == Contents!BuildMsg(p, StreamOf[q], ttl, Contents!Home(q), "text", "ack")
             read == Contents!ProcessMsg(o, Holders)
         IN  /\ read # None /\ read.to = q /\ read.message = "text" /\ read.ack = "ack"
             /\ StreamOf[p] = StreamOf[q] => read.from = Contents!Home(p)
<1> DEFINE hdr == Contents!Header(ttl, "msg", 1, StreamOf[q], None)
           own == Contents!OwnFields(p, StreamOf[q])
           fields == [own |-> own, ripe |-> Contents!Home(q).ripe, encoding |-> 1,
                      message |-> "text", ack |-> "ack"]
           o == Contents!BuildMsg(p, StreamOf[q], ttl, Contents!Home(q), "text", "ack")
           letter == [from |-> Contents!Address(4, StreamOf[q], Contents!Ripe(p, p)), to |-> q,
                      message |-> "text", ack |-> "ack"]
<1>1. /\ o.header = hdr /\ o.key = q /\ o.fields = fields /\ o.whole = TRUE
      /\ o.signature = Contents!Sign(p, hdr, fields)
  BY HomeAddress DEF Contents!BuildMsg, Contents!Object
<1>2. /\ own.version = 4 /\ own.stream = StreamOf[q] /\ own.signing = p /\ own.encryption = p
      /\ own.ntpb = Easiest /\ own.eb = Easiest
  BY DEF Contents!OwnFields
<1>3. hdr.type = "msg" /\ hdr.version = 1 /\ MsgHeader(hdr) = hdr
  <2>1. MsgHeader(hdr) = hdr
    BY HeadersAlike
  <2>2. hdr.type = "msg" /\ hdr.version = 1
    BY DEF Contents!Header
  <2> QED BY <2>1, <2>2
<1>4. /\ fields.own = own /\ fields.ripe = Contents!Ripe(q, q)
      /\ fields.message = "text" /\ fields.ack = "ack"
  BY HomeAddress DEF Contents!Ripe
<1>5. letter \in Contents!Letters /\ letter # None
  BY HomeAddress DEF Contents!Letters, Contents!AllAddresses, Contents!Address, Contents!Ripe,
                     Contents!ObjectsAssumption
<1> HIDE DEF o, hdr, own, fields, letter
<1>6. Contents!InRange(own) /\ own.stream # 0 /\ own.version \in 2..4
  BY <1>2, HomeAddress DEF Contents!InRange, Contents!ObjectsAssumption
<1>7. Contents!ReadMsg(o, q) = letter
  BY <1>1, <1>2, <1>3, <1>4, <1>6 DEF Contents!ReadMsg, Contents!Verifies, MsgHeader, letter
<1>8. \A x \in Holders : Contents!ReadMsg(o, x) # None => x = q
  BY <1>1 DEF Contents!ReadMsg
<1>9. Contents!ProcessMsg(o, Holders) = letter
  BY <1>5, <1>7, <1>8 DEF Contents!ProcessMsg
<1>10. /\ letter.to = q /\ letter.message = "text" /\ letter.ack = "ack"
       /\ StreamOf[p] = StreamOf[q] => letter.from = Contents!Home(p)
  BY DEF letter, Contents!Home
<1> QED BY <1>5, <1>9, <1>10 DEF o

LEMMA OwnPostRead ==
  ASSUME Contents!ObjectsAssumption, NEW p \in Holders, NEW ttl
  PROVE  LET read == Contents!ProcessBroadcast(
                       Contents!BuildBroadcast(p, StreamOf[p], ttl, "text"), {Contents!Home(p)})
         IN  read # None /\ read.from = Contents!Home(p) /\ read.message = "text"
<1> DEFINE hdr == Contents!Header(ttl, "broadcast", 5, StreamOf[p], Contents!Home(p))
           own == Contents!OwnFields(p, StreamOf[p])
           fields == [own |-> own, encoding |-> 1, message |-> "text"]
           o == Contents!BuildBroadcast(p, StreamOf[p], ttl, "text")
           post == [from |-> Contents!Home(p), channel |-> Contents!Home(p), message |-> "text"]
<1>1. /\ o.header = hdr /\ o.key = Contents!Home(p) /\ o.fields = fields /\ o.whole = TRUE
      /\ o.signature = Contents!Sign(p, hdr, fields)
  BY DEF Contents!BuildBroadcast, Contents!Object, Contents!Home, Contents!Header
<1>2. /\ own.version = 4 /\ own.stream = StreamOf[p] /\ own.signing = p /\ own.encryption = p
      /\ own.ntpb = Easiest /\ own.eb = Easiest
  BY DEF Contents!OwnFields
<1>3. /\ hdr.type = "broadcast" /\ hdr.version = 5 /\ hdr.tag = Contents!Home(p)
      /\ [hdr EXCEPT !.version = 5] = hdr
  BY DEF Contents!Header
<1>4. fields.own = own /\ fields.encoding = 1 /\ fields.message = "text"
  OBVIOUS
<1>5. post \in Contents!Posts /\ post # None
  BY HomeAddress DEF Contents!Posts, Contents!ObjectsAssumption
<1>6. Contents!Address(4, StreamOf[p], Contents!Ripe(p, p)) = Contents!Home(p)
  BY DEF Contents!Home
<1> HIDE DEF o, hdr, own, fields
<1>7. Contents!InRange(own) /\ own.stream # 0
  BY <1>2, HomeAddress DEF Contents!InRange, Contents!ObjectsAssumption
<1>8. Contents!ProcessBroadcast(o, {Contents!Home(p)}) = post
  BY <1>1, <1>2, <1>3, <1>4, <1>6, <1>7
     DEF Contents!ProcessBroadcast, Contents!Verifies, Contents!PosterIs
<1> QED BY <1>5, <1>8 DEF o

LEMMA OwnKeyRead ==
  ASSUME Contents!ObjectsAssumption, NEW p \in Holders, NEW ttl
  PROVE  LET o == Contents!BuildPubkey(p, StreamOf[p], ttl) IN
         /\ Contents!ProcessPubkey(o, Contents!Home(p)) # None
         /\ \A q \in Holders \ {p} : Contents!ProcessPubkey(o, Contents!Home(q)) = None
<1> DEFINE hdr == Contents!Header(ttl, "pubkey", 4, StreamOf[p], Contents!Home(p))
           own == Contents!OwnFields(p, StreamOf[p])
           o == Contents!BuildPubkey(p, StreamOf[p], ttl)
           keys == [signing |-> p, encryption |-> p, ntpb |-> Easiest, eb |-> Easiest]
<1>1. /\ o.header = hdr /\ o.key = Contents!Home(p) /\ o.fields = [own |-> own] /\ o.whole = TRUE
      /\ o.signature = Contents!Sign(p, hdr, [own |-> own])
  BY DEF Contents!BuildPubkey, Contents!Object, Contents!Home, Contents!Header
<1>2. /\ own.signing = p /\ own.encryption = p /\ own.ntpb = Easiest /\ own.eb = Easiest
  BY DEF Contents!OwnFields
<1>3. hdr.type = "pubkey" /\ hdr.version = 4 /\ hdr.tag = Contents!Home(p)
  BY DEF Contents!Header
<1>4. keys \in Contents!Keys /\ keys # None
  BY DEF Contents!Keys, Contents!ObjectsAssumption
<1>5. Contents!Ripe(p, p) = Contents!Home(p).ripe
  BY HomeAddress DEF Contents!Ripe
<1>6. \A q \in Holders \ {p} : Contents!Home(q) # Contents!Home(p)
  BY HomeAddress
<1> HIDE DEF o, hdr, own
<1>7. Contents!InRange(own)
  BY <1>2 DEF Contents!InRange, Contents!ObjectsAssumption
<1>8. Contents!ProcessPubkey(o, Contents!Home(p)) = keys
  BY <1>1, <1>2, <1>3, <1>5, <1>7 DEF Contents!ProcessPubkey, Contents!Verifies
<1>9. \A q \in Holders \ {p} : Contents!ProcessPubkey(o, Contents!Home(q)) = None
  BY <1>1, <1>3, <1>6 DEF Contents!ProcessPubkey
<1> QED BY <1>4, <1>8, <1>9 DEF o

LEMMA OwnRead ==
  ASSUME Contents!ObjectsAssumption, SampleInv PROVE Contents!OwnObjectsRead
<1> SUFFICES ASSUME sample.kind = "own" PROVE Contents!OwnObjectsRead
  BY DEF Contents!OwnObjectsRead
<1>1. PICK p, q \in Holders, ttl \in TTLs :
        sample = [kind |-> "own", by |-> p, to |-> q, ttl |-> ttl]
  BY DEF SampleInv
<1>2. sample.by = p /\ sample.to = q /\ sample.ttl = ttl
  BY <1>1
<1> QED BY <1>2, OwnMessageRead, OwnPostRead, OwnKeyRead DEF Contents!OwnObjectsRead

\* An object is believed only as the owner of the address it names signed it,
\* and what the client writes it can read (protocol/objects.py), for any
\* people, streams, difficulties and foreign headers and fields.
THEOREM ObjectsBelieved == Spec => []ObjectsAuthentic
<1> DEFINE Inv == part = "objects" => SampleInv
<1>1. Init => Inv
  BY DEF Init, Coding!Init, SampleInv
<1>2. Inv /\ [Next]_vars => Inv'
  <2> SUFFICES ASSUME Inv, [Next]_vars, part' = "objects" PROVE SampleInv'
    OBVIOUS
  <2>1. part = "objects" /\ SampleInv
    BY DEF Next, vars
  <2>2. CASE Contents!Next
    BY <2>2, SampleSteps
  <2>3. CASE UNCHANGED vars
    BY <2>1, <2>3 DEF vars, SampleInv
  <2> QED BY <2>1, <2>2, <2>3 DEF Next
<1>3. Inv => ObjectsAuthentic
  BY PartsAssumption, MessagesAuthentic, PostsAuthentic, KeysAuthentic, OwnRead
     DEF PartsAssumption, ObjectsAuthentic, Contents!ObjectsAuthentic
<1> QED BY <1>1, <1>2, <1>3, PTL DEF Spec

-----------------------------------------------------------------------------
(* Stream and Serving (the lemmas are in NetworkProofs)                      *)

\* net/peer.py: whatever threads write under write_lock, in whichever pieces it
\* is read, and wherever writes fail or time out, a packet that is handled was
\* written, in the order of its writing, and until the first failed write or cut
\* header every packet is handled, on its way or still being written.
THEOREM FramesWhole == Spec => []FramesKept
<1> DEFINE Inv == part = "stream" => StreamInv
<1>1. Init => Inv
  BY StreamStart DEF Init
<1>2. Inv /\ [Next]_vars => Inv'
  <2> SUFFICES ASSUME Inv, [Next]_vars, part' = "stream" PROVE StreamInv'
    OBVIOUS
  <2>1. part = "stream" /\ StreamInv
    BY DEF Next, vars
  <2>2. CASE Framing!Next
    BY <2>1, <2>2, StreamSteps
  <2>3. CASE UNCHANGED vars
    BY <2>1, <2>3, StreamUnchanged DEF vars, streamVars, Framing!vars
  <2> QED BY <2>1, <2>2, <2>3 DEF Next
<1>3. Inv => FramesKept
  BY StreamImplies DEF FramesKept
<1> QED BY <1>1, <1>2, <1>3, PTL DEF Spec

\* net/manager.py: a connection that has its inventory was told of every object
\* held here or is about to be, in whichever order the handshake, the arrival
\* of objects, the flushes and the evictions come, and a request for objects of
\* others that have not expired is not answered with nothing.  An inventory has
\* room for all rows (MAX_OBJECT_COUNT_LOCAL); past it the code leaves some out.
THEOREM EverythingSpreads ==
  ASSUME IsFiniteSet(Objs), Cardinality(Objs) <= RowsMax
  PROVE  Spec => []Spreads
<1> DEFINE Inv == part = "serving" => ServingInv
<1>1. Init => Inv
  <2> SUFFICES ASSUME Init, part = "serving" PROVE ServingInv
    OBVIOUS
  <2>1. Sharing!Init /\ Sharing!ServingAssumption
    BY NetworkAssumption DEF Init
  <2> QED BY <2>1, ServingStarts DEF ServingInv
<1>2. Inv /\ [Next]_vars => Inv'
  <2> SUFFICES ASSUME Inv, [Next]_vars, part' = "serving" PROVE ServingInv'
    OBVIOUS
  <2>1. part = "serving" /\ ServingInv
    BY DEF Next, vars
  <2>2. CASE Sharing!Next
    BY <2>1, <2>2, NetworkAssumption, ServingSteps
  <2>3. CASE UNCHANGED vars
    BY <2>1, <2>3, ServingRests DEF vars
  <2> QED BY <2>1, <2>2, <2>3 DEF Next
<1>3. Inv => Spreads
  BY NetworkAssumption, ServingImplies DEF Spreads
<1> QED BY <1>1, <1>2, <1>3, PTL DEF Spec
=============================================================================
