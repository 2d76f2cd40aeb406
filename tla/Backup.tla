------------------------------- MODULE Backup -------------------------------
(***************************************************************************)
(* Encrypted backups and their restoration: crypto/encrypted_db.py and the *)
(* two dialogs of gui/app.py.  The database is a main file of pages and a  *)
(* write-ahead log; the log is moved into the pages one page at a time by  *)
(* whichever thread commits, and entirely when the connection is closed.   *)
(* An export reads the pages of the main file only.  Sealing and opening   *)
(* are exact (AES-GCM is external); an image is the version of each page.  *)
(***************************************************************************)
EXTENDS Integers

CONSTANTS
  Pages,       \* the pages of the main file
  None, Torn,
  MaxVersion,  \* bound: commits
  MaxCrashes   \* bound: crashes

Versions == 0..MaxVersion
Images == [Pages -> Versions]

BackupAssumption ==
  /\ MaxVersion \in Nat /\ MaxCrashes \in Nat
  /\ None \notin Versions \union Images

VARIABLES
  version,    \* history: newest version committed
  main,       \* pages of bmchat.db
  wal,        \* version in bmchat.db-wal, or None
  flushed,    \* pages the running checkpoint has written
  client,     \* "up", "closed" (stopped, connection closed), "down" (no process)
  pc,         \* the dialog: "idle", "export", "decrypted", "stopped", "copied", "swapped", "failed"
  image,      \* pages the export has read
  backup,     \* the .enc file: an image, or None
  temp,       \* decrypted copy beside the database, or None
  bak,        \* bmchat.db.bak: an image, Torn, or None
  before,     \* history: what was in use when the restoration stopped the client, or None
  restored,   \* history: the database was replaced by a backup not written to since
  crashes

files == <<main, wal, flushed, backup, temp, bak>>
vars == <<version, files, client, pc, image, before, restored, crashes>>

Init ==
  /\ version = 0
  /\ main = [p \in Pages |-> 0] /\ wal = None /\ flushed = {}
  /\ client = "up" /\ pc = "idle" /\ image = [p \in {} |-> 0]
  /\ backup = None /\ temp = None /\ bak = None
  /\ before = None /\ restored = FALSE
  /\ crashes = 0

\* What SQLite shows: the log, when there is one, hides the pages.
Shown(m, w) == [p \in Pages |-> IF w = None THEN m[p] ELSE w]

-----------------------------------------------------------------------------
(* The client's threads (under Database.lock, which the dialogs do not take) *)

Commit ==
  /\ client = "up" /\ flushed = {}
  /\ version < MaxVersion
  /\ version' = version + 1
  /\ wal' = version + 1
  /\ restored' = FALSE
  /\ UNCHANGED <<main, flushed, backup, temp, bak, client, pc, image, before, crashes>>

Checkpoint(p) ==
  /\ client = "up" /\ wal # None
  /\ p \in Pages \ flushed
  /\ main' = [main EXCEPT ![p] = wal]
  /\ IF flushed \union {p} = Pages
     THEN flushed' = {} /\ wal' = None
     ELSE flushed' = flushed \union {p} /\ UNCHANGED wal
  /\ UNCHANGED <<version, backup, temp, bak, client, pc, image, before, restored, crashes>>

-----------------------------------------------------------------------------
(* _encrypted_backup                                                         *)

\* A path and a password of eight characters or more were given.
Export ==
  /\ client = "up" /\ pc = "idle"
  /\ pc' = "export"
  /\ UNCHANGED <<version, files, client, image, before, restored, crashes>>

ReadPage(p) ==
  /\ pc = "export"
  /\ p \notin DOMAIN image
  /\ image' = [q \in DOMAIN image \union {p} |-> IF q = p THEN main[p] ELSE image[q]]
  /\ UNCHANGED <<version, files, client, pc, before, restored, crashes>>

\* _secret_write_bytes: a temporary file, fsync, os.replace.
WriteBackup ==
  /\ pc = "export" /\ DOMAIN image = Pages
  /\ backup' = image
  /\ pc' = "idle" /\ image' = [p \in {} |-> 0]
  /\ UNCHANGED <<version, main, wal, flushed, temp, bak, client, before, restored, crashes>>

-----------------------------------------------------------------------------
(* _restore_encrypted_backup                                                 *)

\* The wrong password or a damaged file raises before anything is touched.
Decrypt ==
  /\ client = "up" /\ pc = "idle" /\ backup # None
  /\ \/ temp' = backup /\ pc' = "decrypted"
     \/ UNCHANGED <<temp, pc>>
  /\ UNCHANGED <<version, main, wal, flushed, backup, bak, client, image, before, restored, crashes>>

\* Mutant of ClosesDb: the log is left beside the database.
ClosesDbLater == UNCHANGED <<main, wal, flushed>>

\* Client.stop closes the connection: the whole log goes into the pages.
ClosesDb == main' = Shown(main, wal) /\ wal' = None /\ flushed' = {}

StopClient ==
  /\ pc = "decrypted" /\ flushed = {}
  /\ ClosesDb
  /\ before' = Shown(main, wal)
  /\ client' = "closed" /\ pc' = "stopped"
  /\ UNCHANGED <<version, backup, temp, bak, image, restored, crashes>>

\* shutil.copy2 to .bak: not atomic, and a failure is swallowed.
CopyOld ==
  /\ pc = "stopped"
  /\ bak' \in {main, Torn}
  /\ pc' = "copied"
  /\ UNCHANGED <<version, main, wal, flushed, backup, temp, client, image, before, restored, crashes>>

Swap ==
  /\ pc = "copied"
  /\ main' = temp /\ temp' = None
  /\ restored' = TRUE
  /\ pc' = "swapped"
  /\ UNCHANGED <<version, wal, flushed, backup, bak, client, image, before, crashes>>

\* Client.start reads the identities over the closed connection and raises:
\* the user is told that the restoration failed, and the client stays stopped.
StartRaises ==
  /\ pc = "swapped"
  /\ pc' = "failed"
  /\ UNCHANGED <<version, files, client, image, before, restored, crashes>>

-----------------------------------------------------------------------------
\* The user quits; the main file is what the last connection leaves.
Quit ==
  /\ client # "down" /\ pc \in {"idle", "failed"} /\ flushed = {}
  /\ client' = "down" /\ pc' = "idle"
  /\ ClosesDb
  /\ UNCHANGED <<version, backup, temp, bak, image, before, restored, crashes>>

\* The log survives a crash; a temporary file stays behind.
Crash ==
  /\ client # "down" /\ crashes < MaxCrashes
  /\ crashes' = crashes + 1
  /\ client' = "down" /\ pc' = "idle" /\ flushed' = {} /\ image' = [p \in {} |-> 0]
  /\ bak' = IF pc = "stopped" THEN Torn ELSE bak
  /\ UNCHANGED <<version, main, wal, backup, temp, before, restored>>

\* The program opens the database again.
Open ==
  /\ client = "down"
  /\ client' = "up"
  /\ UNCHANGED <<version, files, pc, image, before, restored, crashes>>

Next ==
  \/ Commit \/ Export \/ WriteBackup
  \/ \E p \in Pages : Checkpoint(p) \/ ReadPage(p)
  \/ Decrypt \/ StopClient \/ CopyOld \/ Swap \/ StartRaises
  \/ Quit \/ Crash \/ Open

Spec == Init /\ [][Next]_vars

-----------------------------------------------------------------------------
(* Properties                                                                *)

TypeOK ==
  /\ version \in Versions
  /\ main \in Images /\ wal \in Versions \union {None} /\ flushed \subseteq Pages
  /\ client \in {"up", "closed", "down"}
  /\ pc \in {"idle", "export", "decrypted", "stopped", "copied", "swapped", "failed"}
  /\ DOMAIN image \subseteq Pages /\ \A p \in DOMAIN image : image[p] \in Versions
  /\ backup \in Images \union {None} /\ temp \in Images \union {None}
  /\ before \in Images \union {None} /\ bak \in Images \union {None, Torn}
  /\ restored \in BOOLEAN /\ crashes \in 0..MaxCrashes

\* Until a backup replaces it, the database shows the last commit: exports,
\* wrong passwords, crashes and restorations given up half-way lose nothing.
NothingLost ==
  ~ restored => Shown(main, wal) = [p \in Pages |-> version]

\* A restoration gives exactly the sealed image, whenever the program stops
\* afterwards: no left-over of the old log shows through.  The data it
\* replaced is in .bak, unless the copy failed.
RestoredExactly ==
  pc = "swapped" => /\ Shown(main, wal) = backup
                    /\ bak \in {before, Torn}

BackupSafe == NothingLost /\ RestoredExactly

-----------------------------------------------------------------------------
(* What the code does not do                                                 *)

\* A finished backup holds one whole state of the database, the one in use
\* when it was written.
BackupWhole == [][backup' # backup => backup' = Shown(main, wal)]_vars
=============================================================================
