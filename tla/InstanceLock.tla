---------------------------- MODULE InstanceLock ----------------------------
(***************************************************************************)
(* The single-instance lock file of a data directory (core/client.py,      *)
(* _write_own_lock and _remove_lock_file): several processes start, crash  *)
(* and stop, each system call being one step.  A path names a file; a      *)
(* descriptor keeps naming its file after the path was renamed away.       *)
(* Process ids are not reused and have the same number of digits.          *)
(***************************************************************************)
EXTENDS Naturals, FiniteSets

CONSTANTS
  Procs,   \* process ids of this user
  Stale,   \* the id of a process that died before
  NoFile,
  Blank    \* the content of an empty file

ASSUME ProcsAssumption == Stale \notin Procs /\ Blank \notin Procs /\ Stale # Blank
ASSUME SomeProcAssumption == Procs # {}
\* Each process creates at most one file under each path.
OldLock == <<Stale, "lock">>
Files == {OldLock} \union (Procs \X {"lock", "tmp"})
ASSUME FilesAssumption == NoFile \notin Files

Acquiring == {"fresh", "read", "openTmp", "writeTmp", "replace", "reread"}
PCs == Acquiring \union {"new", "running", "unlink", "refused", "exited", "dead"}

VARIABLES
  lock,     \* the file at bmchat.lock, or NoFile
  tmp,      \* the file at bmchat.lock.tmp, or NoFile
  content,  \* content of each file: a process id or Blank
  fd,       \* fd[p]: the temporary file p has opened
  pc,
  owned,    \* processes whose _lock_owned is True
  overlap   \* whether two processes ever were in _write_own_lock together

vars == <<lock, tmp, content, fd, pc, owned, overlap>>

Init ==
  /\ lock \in {NoFile, OldLock}
  /\ tmp = NoFile
  /\ content = [f \in Files |-> IF f = OldLock THEN Stale ELSE Blank]
  /\ fd = [p \in Procs |-> NoFile]
  /\ pc = [p \in Procs |-> "new"]
  /\ owned = {}
  /\ overlap = FALSE

Goto(p, l) == pc' = [pc EXCEPT ![p] = l]

\* The process exists and kill(pid, 0) finds it.
Alive(p) == p \in Procs /\ pc[p] \notin {"new", "refused", "exited", "dead"}

\* What _read_lock_owner returns.
Owner == IF lock = NoFile THEN Blank ELSE content[lock]

-----------------------------------------------------------------------------
\* _try_fresh_lock: open with O_CREAT|O_EXCL ...
Create(p) ==
  /\ pc[p] = "new"
  /\ overlap' = (overlap \/ \E q \in Procs : pc[q] \in Acquiring)
  /\ IF lock = NoFile
     THEN lock' = <<p, "lock">> /\ Goto(p, "fresh")
     ELSE UNCHANGED lock /\ Goto(p, "read")
  /\ UNCHANGED <<tmp, content, fd, owned>>

\* ... then a write of its own.
WriteFresh(p) ==
  /\ pc[p] = "fresh"
  /\ content' = [content EXCEPT ![<<p, "lock">>] = p]
  /\ owned' = owned \union {p}
  /\ Goto(p, "running")
  /\ UNCHANGED <<lock, tmp, fd, overlap>>

\* Mutant of OwnerAlive: a running owner is taken for a dead one.
OwnerIgnored(p) == FALSE

\* _lock_owner_alive
OwnerAlive(p) == Owner # p /\ Alive(Owner)

Read(p) ==
  /\ pc[p] = "read"
  /\ Goto(p, IF OwnerAlive(p) THEN "refused" ELSE "openTmp")
  /\ UNCHANGED <<lock, tmp, content, fd, owned, overlap>>

\* _claim_stale_lock: the temporary path is shared by all claimants; opening
\* it truncates the file another claimant may have open.
OpenTmp(p) ==
  /\ pc[p] = "openTmp"
  /\ LET f == IF tmp = NoFile THEN <<p, "tmp">> ELSE tmp
     IN /\ tmp' = f
        /\ fd' = [fd EXCEPT ![p] = f]
        /\ content' = [content EXCEPT ![f] = Blank]
  /\ Goto(p, "writeTmp")
  /\ UNCHANGED <<lock, owned, overlap>>

WriteTmp(p) ==
  /\ pc[p] = "writeTmp"
  /\ content' = [content EXCEPT ![fd[p]] = p]
  /\ Goto(p, "replace")
  /\ UNCHANGED <<lock, tmp, fd, owned, overlap>>

\* Mutant of AfterLostTmp: the missing file is taken for a lost contention.
AfterLostTmpRefuse == "refused"

\* _write_own_lock swallows every error but RuntimeError.
AfterLostTmp == "running"

\* os.replace; when another claimant renamed the file first it raises
\* FileNotFoundError and the process goes on without a lock.
Replace(p) ==
  /\ pc[p] = "replace"
  /\ IF tmp = NoFile
     THEN UNCHANGED <<lock, tmp>> /\ Goto(p, AfterLostTmp)
     ELSE lock' = tmp /\ tmp' = NoFile /\ Goto(p, "reread")
  /\ UNCHANGED <<content, fd, owned, overlap>>

\* A lock file that cannot be read counts as one's own.
StillMine(p) == lock = NoFile \/ content[lock] = p

Reread(p) ==
  /\ pc[p] = "reread"
  /\ IF StillMine(p)
     THEN owned' = owned \union {p} /\ Goto(p, "running")
     ELSE UNCHANGED owned /\ Goto(p, "refused")
  /\ UNCHANGED <<lock, tmp, content, fd, overlap>>

\* stop: _own_lock_current reads the file ...
Stop(p) ==
  /\ pc[p] = "running"
  /\ IF p \in owned /\ (lock = NoFile \/ content[lock] \in {p, Blank})
     THEN Goto(p, "unlink")
     ELSE Goto(p, "exited")
  /\ owned' = IF pc'[p] = "exited" THEN owned \ {p} ELSE owned
  /\ UNCHANGED <<lock, tmp, content, fd, overlap>>

\* ... and _remove_lock_file unlinks the path.
Unlink(p) ==
  /\ pc[p] = "unlink"
  /\ lock' = NoFile
  /\ owned' = owned \ {p}
  /\ Goto(p, "exited")
  /\ UNCHANGED <<tmp, content, fd, overlap>>

Crash(p) ==
  /\ Alive(p)
  /\ owned' = owned \ {p}
  /\ Goto(p, "dead")
  /\ UNCHANGED <<lock, tmp, content, fd, overlap>>

Next ==
  \E p \in Procs :
    \/ Create(p) \/ WriteFresh(p) \/ Read(p) \/ OpenTmp(p) \/ WriteTmp(p)
    \/ Replace(p) \/ Reread(p) \/ Stop(p) \/ Unlink(p) \/ Crash(p)

Spec == Init /\ [][Next]_vars

-----------------------------------------------------------------------------
(* Properties                                                                *)

Contents == Procs \union {Stale, Blank}

TypeOK ==
  /\ lock \in Files \union {NoFile}
  /\ tmp \in Files \union {NoFile}
  /\ content \in [Files -> Contents]
  /\ fd \in [Procs -> Files \union {NoFile}]
  /\ pc \in [Procs -> PCs]
  /\ owned \subseteq Procs
  /\ overlap \in BOOLEAN

\* client.py:221: claimants re-read the file and only one takes it.  Two
\* claimants that replace and re-read one after the other both own it, and so
\* do a creator and the claimant that read its file before the id was in it.
OneOwner == \A p, q \in owned : p = q

\* As long as no two processes were inside _write_own_lock together, crashes
\* and stops at any point included, at most one process owns the lock.
OneOwnerWithoutOverlap == ~overlap => OneOwner

\* Processes that start together never all refuse because of each other: the
\* last one to touch the file finds its own id, or goes on without a lock.
NotAllRefused == ~ \A p \in Procs : pc[p] = "refused"

\* client.py:360: stop removes its own lock, never another instance's.
\* The file may be replaced between the check and the unlink.
OnlyOwnLockRemoved ==
  [][\A p \in Procs : pc[p] = "unlink" /\ pc'[p] = "exited"
       => Owner \in {p, Blank, Stale}]_vars
=============================================================================
