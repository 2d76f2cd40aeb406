------------------------- MODULE InstanceLockProofs -------------------------
(***************************************************************************)
(* Proofs about InstanceLock for any set of processes: at most one owner   *)
(* without overlapping starts, and never all of them refused.              *)
(***************************************************************************)
EXTENDS InstanceLock, TLAPS

Claimant == {"openTmp", "writeTmp", "replace", "reread"}

\* What a lone process inside _write_own_lock and the owner may rely on: the
\* owner's id is in the lock file, so whoever reads it refuses; and once a
\* process got past that reading there is no owner left to displace.
Alone ==
  /\ \A p, q \in Procs : pc[p] \in Acquiring /\ pc[q] \in Acquiring => p = q
  /\ \A p \in owned : lock # NoFile /\ content[lock] = p /\ pc[p] \in {"running", "unlink"}
  /\ \A p \in Procs : pc[p] = "unlink" => p \in owned
  /\ \A p \in Procs : pc[p] = "fresh" => lock = <<p, "lock">> /\ owned = {}
  /\ \A p \in Procs : pc[p] \in Claimant => owned = {}
  /\ \A p \in Procs : pc[p] \in {"writeTmp", "replace"} => tmp = fd[p] /\ tmp # NoFile
  /\ \A p \in Procs : pc[p] = "replace" => content[tmp] = p
  /\ \A p \in Procs : pc[p] = "reread" => lock # NoFile /\ content[lock] = p

IInv == TypeOK /\ (~overlap => Alone)

LEMMA InitInv == Init => IInv
<1> SUFFICES ASSUME Init PROVE TypeOK /\ Alone
  BY DEF IInv
<1>1. OldLock \in Files
  BY DEF Files
<1>2. content \in [Files -> Contents]
  BY DEF Init, Contents
<1>3. TypeOK
  BY <1>1, <1>2 DEF Init, TypeOK, PCs
<1>4. owned = {} /\ \A p \in Procs : pc[p] = "new"
  BY DEF Init
<1>5. Alone
  BY <1>4 DEF Alone, Acquiring, Claimant
<1> QED BY <1>3, <1>5

LEMMA StepType == TypeOK /\ Next => TypeOK'
<1> SUFFICES ASSUME TypeOK, NEW p \in Procs,
                    \/ Create(p) \/ WriteFresh(p) \/ Read(p) \/ OpenTmp(p) \/ WriteTmp(p)
                    \/ Replace(p) \/ Reread(p) \/ Stop(p) \/ Unlink(p) \/ Crash(p)
             PROVE  TypeOK'
  BY DEF Next
<1> USE DEF TypeOK, Goto, PCs, Acquiring
<1>1. CASE Create(p)
  BY <1>1 DEF Create, Files
<1>2. CASE WriteFresh(p)
  BY <1>2 DEF WriteFresh, Contents
<1>3. CASE Read(p)
  BY <1>3 DEF Read
<1>4. CASE OpenTmp(p)
  <2>1. <<p, "tmp">> \in Files
    BY DEF Files
  <2> QED BY <1>4, <2>1 DEF OpenTmp, Contents
<1>5. CASE WriteTmp(p)
  BY <1>5 DEF WriteTmp, Contents
<1>6. CASE Replace(p)
  BY <1>6 DEF Replace, AfterLostTmp
<1>7. CASE Reread(p)
  BY <1>7 DEF Reread
<1>8. CASE Stop(p)
  BY <1>8 DEF Stop
<1>9. CASE Unlink(p)
  BY <1>9 DEF Unlink
<1>10. CASE Crash(p)
  BY <1>10 DEF Crash
<1> QED BY <1>1, <1>2, <1>3, <1>4, <1>5, <1>6, <1>7, <1>8, <1>9, <1>10

LEMMA StepAlone ==
  ASSUME TypeOK, TypeOK', Alone, Next, ~overlap'
  PROVE  Alone'
<1> SUFFICES ASSUME NEW p \in Procs,
                    \/ Create(p) \/ WriteFresh(p) \/ Read(p) \/ OpenTmp(p) \/ WriteTmp(p)
                    \/ Replace(p) \/ Reread(p) \/ Stop(p) \/ Unlink(p) \/ Crash(p)
             PROVE  Alone'
  BY DEF Next
<1> USE DEF TypeOK, Goto, Acquiring, Claimant, Alone
<1>1. CASE Create(p)
  <2>1. \A q \in Procs : pc[q] \notin Acquiring
    BY <1>1 DEF Create
  <2>2. CASE lock = NoFile
    <3>1. owned = {} /\ lock' = <<p, "lock">> /\ pc' = [pc EXCEPT ![p] = "fresh"]
      BY <1>1, <2>2 DEF Create
    <3>2. UNCHANGED <<tmp, content, fd, owned>>
      BY <1>1 DEF Create
    <3> QED BY <2>1, <3>1, <3>2
  <2>3. CASE lock # NoFile
    <3>1. lock' = lock /\ pc[p] = "new" /\ pc' = [pc EXCEPT ![p] = "read"]
      BY <1>1, <2>3 DEF Create
    <3>2. UNCHANGED <<tmp, content, fd, owned>>
      BY <1>1 DEF Create
    <3> QED BY <2>1, <3>1, <3>2
  <2> QED BY <2>2, <2>3
<1>2. CASE WriteFresh(p)
  <2>1. lock = <<p, "lock">> /\ owned = {} /\ <<p, "lock">> \in Files
    BY <1>2 DEF WriteFresh, Files
  <2>2. lock' # NoFile /\ content'[lock'] = p /\ owned' = {p}
    BY <1>2, <2>1, FilesAssumption DEF WriteFresh
  <2>3. \A q \in Procs : pc'[q] \notin Acquiring /\ pc'[q] = (IF q = p THEN "running" ELSE pc[q])
    BY <1>2 DEF WriteFresh
  <2> QED BY <2>1, <2>2, <2>3
<1>3. CASE Read(p)
  <2>1. CASE OwnerAlive(p)
    BY <1>3, <2>1 DEF Read
  <2>2. CASE ~OwnerAlive(p)
    <3>1. owned = {}
      BY <1>3, <2>2 DEF Read, OwnerAlive, Owner, Alive
    <3> QED BY <1>3, <2>2, <3>1 DEF Read
  <2> QED BY <2>1, <2>2
<1>4. CASE OpenTmp(p)
  <2>1. owned = {} /\ \A q \in Procs \ {p} : pc[q] \notin Acquiring
    BY <1>4 DEF OpenTmp
  <2>2. tmp' = fd'[p] /\ tmp' # NoFile /\ owned' = {}
    BY <1>4, <2>1, FilesAssumption DEF OpenTmp, Files
  <2>3. pc' = [pc EXCEPT ![p] = "writeTmp"]
    BY <1>4 DEF OpenTmp
  <2> QED BY <2>1, <2>2, <2>3
<1>5. CASE WriteTmp(p)
  <2>1. owned = {} /\ tmp = fd[p] /\ tmp \in Files
    BY <1>5 DEF WriteTmp
  <2>2. content'[tmp'] = p /\ tmp' = fd'[p] /\ tmp' # NoFile /\ owned' = {}
    BY <1>5, <2>1 DEF WriteTmp
  <2> QED BY <1>5, <2>1, <2>2 DEF WriteTmp
<1>6. CASE Replace(p)
  BY <1>6 DEF Replace
<1>7. CASE Reread(p)
  <2>1. owned = {} /\ StillMine(p) /\ lock # NoFile /\ content[lock] = p
    BY <1>7 DEF Reread, StillMine
  <2> QED BY <1>7, <2>1 DEF Reread
<1>8. CASE Stop(p)
  BY <1>8 DEF Stop
<1>9. CASE Unlink(p)
  <2>1. owned = {p}
    BY <1>9 DEF Unlink
  <2>2. \A q \in Procs : pc[q] # "fresh" /\ pc[q] \notin Claimant
    BY <2>1
  <2> QED BY <1>9, <2>1, <2>2 DEF Unlink
<1>10. CASE Crash(p)
  BY <1>10 DEF Crash
<1> QED BY <1>1, <1>2, <1>3, <1>4, <1>5, <1>6, <1>7, <1>8, <1>9, <1>10

LEMMA NextInv == IInv /\ [Next]_vars => IInv'
<1> SUFFICES ASSUME IInv, [Next]_vars PROVE IInv'
  OBVIOUS
<1>1. CASE UNCHANGED vars
  BY <1>1 DEF IInv, TypeOK, Alone, vars
<1>2. CASE Next
  <2>1. TypeOK'
    BY <1>2, StepType DEF IInv
  <2>2. ~overlap' => ~overlap
    BY <1>2 DEF Next, Create, WriteFresh, Read, OpenTmp, WriteTmp, Replace, Reread,
                Stop, Unlink, Crash
  <2>3. ~overlap' => Alone'
    BY <1>2, <2>1, <2>2, StepAlone DEF IInv
  <2> QED BY <2>1, <2>3 DEF IInv
<1> QED BY <1>1, <1>2

\* Processes that do not start at the same moment exclude each other,
\* whatever crashes and stops happen in between.
THEOREM OwnerUnique == Spec => []OneOwnerWithoutOverlap
<1>1. IInv => OneOwnerWithoutOverlap
  BY DEF IInv, Alone, OneOwnerWithoutOverlap, OneOwner
<1> QED BY <1>1, InitInv, NextInv, PTL DEF Spec

-----------------------------------------------------------------------------
(* Overlapping starts included, somebody goes on                             *)

Tmps == Procs \X {"tmp"}

\* The temporary file, as long as it has its name, is in the hands of its last
\* writer, who has not renamed it yet, or of a claimant who is going to write
\* it or died: a renamed file never comes back under the temporary name.
TmpHeld ==
  /\ tmp \in Tmps \union {NoFile}
  /\ \A p \in Procs : fd[p] \in Tmps \union {NoFile}
  /\ tmp # NoFile => \E q \in Procs :
       fd[q] = tmp /\ \/ pc[q] \in {"writeTmp", "dead"}
                      \/ pc[q] = "replace" /\ content[tmp] = q

\* When all that is left is refusals and claimants that will re-read the file,
\* the file names one of those claimants.
SomebodyNamed ==
  (\A p \in Procs : pc[p] \in {"reread", "refused"}) =>
     lock # NoFile /\ \E q \in Procs : content[lock] = q /\ pc[q] = "reread"

RefusalInv == TypeOK /\ TmpHeld /\ SomebodyNamed

LEMMA InitRefusal == Init => RefusalInv
<1> SUFFICES ASSUME Init PROVE RefusalInv
  OBVIOUS
<1>1. TypeOK
  BY InitInv DEF IInv
<1>2. TmpHeld
  BY DEF Init, TmpHeld
<1>3. SomebodyNamed
  BY SomeProcAssumption DEF Init, SomebodyNamed
<1> QED BY <1>1, <1>2, <1>3 DEF RefusalInv

LEMMA StepTmp == TypeOK /\ TmpHeld /\ Next => TmpHeld'
<1> SUFFICES ASSUME TypeOK, TmpHeld, NEW p \in Procs,
                    \/ Create(p) \/ WriteFresh(p) \/ Read(p) \/ OpenTmp(p) \/ WriteTmp(p)
                    \/ Replace(p) \/ Reread(p) \/ Stop(p) \/ Unlink(p) \/ Crash(p)
             PROVE  TmpHeld'
  BY DEF Next
<1> USE DEF TypeOK, TmpHeld, Goto
<1>1. CASE Create(p) \/ Read(p) \/ Reread(p) \/ Stop(p) \/ Unlink(p)
  <2>1. UNCHANGED <<tmp, content, fd>> /\ pc[p] \notin {"writeTmp", "replace", "dead"}
    BY <1>1 DEF Create, Read, Reread, Stop, Unlink
  <2>2. \A q \in Procs : q # p => pc'[q] = pc[q]
    BY <1>1 DEF Create, Read, Reread, Stop, Unlink
  <2> QED BY <2>1, <2>2
<1>2. CASE WriteFresh(p)
  <2>1. tmp # NoFile => content'[tmp] = content[tmp]
    BY <1>2 DEF WriteFresh, Tmps
  <2> QED BY <1>2, <2>1 DEF WriteFresh
<1>3. CASE OpenTmp(p)
  <2>1. <<p, "tmp">> \in Tmps
    BY DEF Tmps
  <2>2. tmp' \in Tmps /\ fd' = [fd EXCEPT ![p] = tmp'] /\ pc' = [pc EXCEPT ![p] = "writeTmp"]
    BY <1>3, <2>1 DEF OpenTmp
  <2> QED BY <2>2
<1>4. CASE WriteTmp(p)
  <2>1. /\ pc' = [pc EXCEPT ![p] = "replace"]
        /\ content' = [content EXCEPT ![fd[p]] = p]
        /\ UNCHANGED <<tmp, fd>>
    BY <1>4 DEF WriteTmp
  <2>2. CASE fd[p] = tmp
    BY <2>1, <2>2
  <2>3. CASE fd[p] # tmp
    <3>1. tmp # NoFile => content'[tmp] = content[tmp]
      BY <2>1, <2>3
    <3> QED BY <2>1, <2>3, <3>1
  <2> QED BY <2>2, <2>3
<1>5. CASE Replace(p)
  BY <1>5 DEF Replace
<1>6. CASE Crash(p)
  BY <1>6 DEF Crash
<1> QED BY <1>1, <1>2, <1>3, <1>4, <1>5, <1>6

LEMMA StepNamed == RefusalInv /\ Next => SomebodyNamed'
<1> SUFFICES ASSUME RefusalInv, NEW p \in Procs,
                    \/ Create(p) \/ WriteFresh(p) \/ Read(p) \/ OpenTmp(p) \/ WriteTmp(p)
                    \/ Replace(p) \/ Reread(p) \/ Stop(p) \/ Unlink(p) \/ Crash(p),
                    \A q \in Procs : pc'[q] \in {"reread", "refused"}
             PROVE  lock' # NoFile /\ \E q \in Procs : content'[lock'] = q /\ pc'[q] = "reread"
  BY DEF Next, SomebodyNamed
<1> USE DEF RefusalInv, TypeOK, Goto
<1>1. pc'[p] \in {"reread", "refused"}
  OBVIOUS
\* Only these steps lead there: a refusal by a living owner ...
<1>2. CASE Read(p)
  <2>1. OwnerAlive(p) /\ UNCHANGED <<lock, content>> /\ pc' = [pc EXCEPT ![p] = "refused"]
    BY <1>1, <1>2 DEF Read
  <2>2. lock # NoFile /\ content[lock] = Owner /\ Owner \in Procs /\ Owner # p
        /\ pc[Owner] # "refused"
    BY <2>1, ProcsAssumption DEF OwnerAlive, Owner, Alive
  <2> QED BY <2>1, <2>2
\* ... the rename of a file written by the renaming process ...
<1>3. CASE Replace(p)
  <2>1. tmp # NoFile /\ lock' = tmp /\ UNCHANGED content /\ pc[p] = "replace"
        /\ pc' = [pc EXCEPT ![p] = "reread"]
    BY <1>1, <1>3 DEF Replace, AfterLostTmp
  <2>2. \A q \in Procs : q # p => pc[q] \in {"reread", "refused"}
    BY <2>1
  <2>3. content[tmp] = p
    BY <2>1, <2>2 DEF TmpHeld
  <2> QED BY <2>1, <2>3
\* ... and the refusal of a claimant that finds another's id.
<1>4. CASE Reread(p)
  <2>1. ~StillMine(p) /\ UNCHANGED <<lock, content>> /\ pc[p] = "reread"
        /\ pc' = [pc EXCEPT ![p] = "refused"]
    BY <1>1, <1>4 DEF Reread
  <2>2. \A q \in Procs : pc[q] \in {"reread", "refused"}
    BY <2>1
  <2> QED BY <2>1, <2>2 DEF StillMine, SomebodyNamed
<1>5. CASE Create(p) \/ WriteFresh(p) \/ OpenTmp(p) \/ WriteTmp(p) \/ Stop(p)
           \/ Unlink(p) \/ Crash(p)
  BY <1>1, <1>5 DEF Create, WriteFresh, OpenTmp, WriteTmp, Stop, Unlink, Crash
<1> QED BY <1>2, <1>3, <1>4, <1>5

\* Whatever processes start together, crash and stop, they never all refuse:
\* a refusal leaves an owner, or a claimant whose id is in the file.
THEOREM SomebodyStarts == Spec => []NotAllRefused
<1>1. RefusalInv => NotAllRefused
  BY DEF RefusalInv, SomebodyNamed, NotAllRefused
<1>2. RefusalInv /\ [Next]_vars => RefusalInv'
  <2> SUFFICES ASSUME RefusalInv, [Next]_vars PROVE RefusalInv'
    OBVIOUS
  <2>1. CASE UNCHANGED vars
    BY <2>1 DEF vars, RefusalInv, TypeOK, TmpHeld, SomebodyNamed
  <2>2. CASE Next
    BY <2>2, StepType, StepTmp, StepNamed DEF RefusalInv
  <2> QED BY <2>1, <2>2
<1> QED BY <1>1, <1>2, InitRefusal, PTL DEF Spec
=============================================================================
