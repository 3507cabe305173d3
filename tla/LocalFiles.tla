----------------------------- MODULE LocalFiles -----------------------------
(***************************************************************************)
(* The database file of one SQLite Local graph and the commands that work  *)
(* on it under the graph's publisher lock: sqlite-init                     *)
(* (storage/sqlite_local/connection.py), sqlite-restore (restore.py),      *)
(* sqlite-upgrade (upgrade.py) and sqlite-cleanup (orphans.py,             *)
(* ops/local_cleanup.py).                                                  *)
(*                                                                         *)
(* A command builds a temporary file beside the final name, links it to    *)
(* the final name and unlinks the temporary one; names survive a power     *)
(* loss once their directory is synced, bytes once the file is.  A file is *)
(* its state and the pair of schema version and generation it holds.       *)
(* Publications are one atomic step here (LocalRefresh has their steps),   *)
(* completed backups a set (LocalBackup has the writing of one).  SQLite   *)
(* sidecars are left out: which partial files carry one is a choice.  The  *)
(* variables begin with f, beside those of LocalRefresh and LocalBackup.   *)
(***************************************************************************)
EXTENDS Naturals, FiniteSets

CONSTANTS
    Runners,    \* processes that run the commands
    NoRunner,   \* nobody holds the publisher lock
    Tokens,     \* temporary files: each attempt draws a fresh name
    Old,        \* the file of a database that is there from the start
    NoFile,     \* the name is absent
    MaxGen,     \* bound on publications: a database from the start has one
    FileFaults  \* what may go wrong

ASSUME FilesAssumption ==
    /\ NoRunner \notin Runners
    /\ Old \notin Tokens /\ NoFile \notin Tokens \cup {Old}
    /\ MaxGen \in Nat \ {0}
    /\ FileFaults \subseteq {"crash", "power", "sync", "io", "commit", "move"}

VARIABLES
    fStore,    \* the graph store directory: absent, volatile or durable
    fLock,     \* holder of the publisher lock
    fPc,       \* where each process is
    fTmp,      \* the temporary file it owns
    fMem,      \* the database state it read or means to install
    fInv,      \* orphans its cleanup is about to remove
    fLinked,   \* temporary names in the store
    fUnsynced, \* temporary names whose presence is not durable
    fFinal,    \* the file under the final name
    fDfinal,   \* the files a power loss may leave under it
    fBytes,    \* how much of a file is there
    fDb,       \* what it holds
    fBackups,  \* states of the completed backups
    fReported  \* a command succeeded on the database in place

fileVars == <<fStore, fLock, fPc, fTmp, fMem, fInv, fLinked, fUnsynced, fFinal,
              fDfinal, fBytes, fDb, fBackups, fReported>>

Files == Tokens \cup {Old}
HeadVersion == 2
States == [version : 1 .. HeadVersion, gen : 0 .. MaxGen]
Unread == [version |-> 1, gen |-> 0]
Fresh == {t \in Tokens : fBytes[t] = "none"}

FilePhases == {"idle", "init", "building", "built", "sealed", "install",
               "installed", "discard", "fail", "restore_wait", "restore",
               "copy", "copying", "upgrade", "backed_up", "confirm",
               "no_store", "sweep", "remove"}

LocalFilesInit ==
    /\ \/ fStore = "absent" /\ fFinal = NoFile
       \/ fStore = "durable" /\ fFinal = Old
    /\ fLock = NoRunner
    /\ fPc = [p \in Runners |-> "idle"]
    /\ fTmp = [p \in Runners |-> NoFile]
    /\ fMem = [p \in Runners |-> Unread]
    /\ fInv = [p \in Runners |-> {}]
    /\ fLinked = {} /\ fUnsynced = {}
    /\ fDfinal = {fFinal}
    /\ fBytes = [f \in Files |-> IF f = Old THEN "synced" ELSE "none"]
    /\ fDb = [f \in Files |-> [version |-> 1, gen |-> IF f = Old THEN 1 ELSE 0]]
    /\ fBackups \in SUBSET {[version |-> 1, gen |-> 1]}
    /\ fReported = (fFinal = Old)

FileGoto(p, phase) == fPc' = [fPc EXCEPT ![p] = phase]

\* The command returns or raises; the context manager releases the lock.
FileLeave(p) ==
    /\ FileGoto(p, "idle")
    /\ fLock' = IF fLock = p THEN NoRunner ELSE fLock
    /\ fTmp' = [fTmp EXCEPT ![p] = NoFile]
    /\ fInv' = [fInv EXCEPT ![p] = {}]
    /\ fMem' = [fMem EXCEPT ![p] = Unread]

Keep == UNCHANGED <<fLock, fTmp, fInv, fMem>>

\* publisher_lock: private_store_directory, then the lock or a refusal.
Lock(p) ==
    /\ fLock = NoRunner
    /\ fLock' = p
    /\ fStore' = IF fStore = "absent" THEN "volatile" ELSE fStore

\* fsync of the store directory: its names are durable.
SyncNames ==
    /\ fDfinal' = {fFinal}
    /\ fUnsynced' = {}

-----------------------------------------------------------------------------
(* sqlite-init and sqlite-restore *)

InitEnter(p) ==
    /\ fPc[p] = "idle"
    /\ Fresh # {}
    /\ Lock(p)
    /\ FileGoto(p, "init")
    /\ UNCHANGED <<fTmp, fMem, fInv, fLinked, fUnsynced, fFinal, fDfinal,
                   fBytes, fDb, fBackups, fReported>>

\* already-current, or the refusal of another schema: nothing is written and
\* nothing is synced, so the answer does not make the name durable.
Existing(p) ==
    /\ fPc[p] \in {"init", "restore"}
    /\ fFinal # NoFile
    /\ FileLeave(p)
    /\ UNCHANGED <<fStore, fLinked, fUnsynced, fFinal, fDfinal, fBytes, fDb,
                   fBackups, fReported>>

\* O_EXCL creation of the temporary file.
Create(p, phase) ==
    \E t \in Fresh :
        /\ fTmp' = [fTmp EXCEPT ![p] = t]
        /\ fBytes' = [fBytes EXCEPT ![t] = "partial"]
        /\ fLinked' = fLinked \cup {t}
        /\ fUnsynced' = fUnsynced \cup {t}
        /\ FileGoto(p, phase)
        /\ UNCHANGED <<fStore, fLock, fMem, fInv, fFinal, fDfinal, fDb,
                       fBackups, fReported>>

InitCreate(p) == fPc[p] = "init" /\ fFinal = NoFile /\ Create(p, "building")

\* _build_complete_database up to seal_database_file.
Build(p) ==
    /\ fPc[p] = "building"
    /\ fBytes' = [fBytes EXCEPT ![fTmp[p]] = "whole"]
    /\ fDb' = [fDb EXCEPT ![fTmp[p]] = [version |-> HeadVersion, gen |-> 0]]
    /\ FileGoto(p, "built")
    /\ Keep
    /\ UNCHANGED <<fStore, fLinked, fUnsynced, fFinal, fDfinal, fBackups,
                   fReported>>

\* Mutant: the file is linked before its bytes are synced.
SealUnsynced(p) ==
    /\ fPc[p] = "built"
    /\ FileGoto(p, "sealed")
    /\ Keep
    /\ UNCHANGED <<fStore, fLinked, fUnsynced, fFinal, fDfinal, fBytes, fDb,
                   fBackups, fReported>>

\* seal_database_file.
Seal(p) ==
    /\ fPc[p] = "built"
    /\ fBytes' = [fBytes EXCEPT ![fTmp[p]] = "synced"]
    /\ FileGoto(p, "sealed")
    /\ Keep
    /\ UNCHANGED <<fStore, fLinked, fUnsynced, fFinal, fDfinal, fDb, fBackups,
                   fReported>>

\* fsync_directory_chain over the store and its ancestors: before the install
\* of an init, before the copy of a restore.
ChainSync(p) ==
    /\ \/ fPc[p] = "sealed" /\ FileGoto(p, "install")
       \/ fPc[p] = "restore" /\ fFinal = NoFile /\ FileGoto(p, "copy")
    /\ fStore' = "durable"
    /\ SyncNames
    /\ Keep
    /\ UNCHANGED <<fLinked, fFinal, fBytes, fDb, fBackups, fReported>>

\* verify_backup and require_absent_target, before the lock is taken.
RestoreChecks(p) ==
    /\ fPc[p] = "idle"
    /\ fFinal = NoFile
    /\ Fresh # {}
    /\ \E b \in fBackups : fMem' = [fMem EXCEPT ![p] = b]
    /\ FileGoto(p, "restore_wait")
    /\ UNCHANGED <<fStore, fLock, fTmp, fInv, fLinked, fUnsynced, fFinal,
                   fDfinal, fBytes, fDb, fBackups, fReported>>

\* The lock, or graph-publication-in-progress.
RestoreEnter(p) ==
    /\ fPc[p] = "restore_wait"
    /\ \/ /\ Lock(p)
          /\ FileGoto(p, "restore")
          /\ UNCHANGED <<fTmp, fMem, fInv>>
       \/ /\ fLock # NoRunner
          /\ FileLeave(p)
          /\ UNCHANGED fStore
    /\ UNCHANGED <<fLinked, fUnsynced, fFinal, fDfinal, fBytes, fDb, fBackups,
                   fReported>>

RestoreCreate(p) == fPc[p] = "copy" /\ Create(p, "copying")

\* _copy with its fsync, then the comparison with the manifest.
Copy(p) ==
    /\ fPc[p] = "copying"
    /\ fBytes' = [fBytes EXCEPT ![fTmp[p]] = "synced"]
    /\ fDb' = [fDb EXCEPT ![fTmp[p]] = fMem[p]]
    /\ FileGoto(p, "install")
    /\ Keep
    /\ UNCHANGED <<fStore, fLinked, fUnsynced, fFinal, fDfinal, fBackups,
                   fReported>>

\* os.link, which fails when the name exists.
Install(p) ==
    /\ fPc[p] = "install"
    /\ IF fFinal = NoFile
       THEN /\ fFinal' = fTmp[p]
            /\ fDfinal' = fDfinal \cup {fTmp[p]}
            /\ FileGoto(p, "installed")
       ELSE /\ UNCHANGED <<fFinal, fDfinal>>
            /\ FileGoto(p, "fail")
    /\ Keep
    /\ UNCHANGED <<fStore, fLinked, fUnsynced, fBytes, fDb, fBackups,
                   fReported>>

\* Mutant: success without the sync of the directory.
InstalledUnsynced(p) ==
    /\ fPc[p] = "installed"
    /\ FileGoto(p, "discard")
    /\ Keep
    /\ UNCHANGED <<fStore, fLinked, fUnsynced, fFinal, fDfinal, fBytes, fDb,
                   fBackups, fReported>>

\* fsync_directory after the link.
InstalledSync(p) ==
    /\ fPc[p] = "installed"
    /\ SyncNames
    /\ FileGoto(p, "discard")
    /\ Keep
    /\ UNCHANGED <<fStore, fLinked, fFinal, fBytes, fDb, fBackups, fReported>>

\* A call fails: no space, a refused sync, a database that does not check.
Fail(p) ==
    /\ \/ "io" \in FileFaults /\ fPc[p] \in {"building", "built", "copying", "install"}
       \/ "sync" \in FileFaults /\ fPc[p] \in {"built", "sealed", "copying", "installed"}
    /\ FileGoto(p, "fail")
    /\ Keep
    /\ UNCHANGED <<fStore, fLinked, fUnsynced, fFinal, fDfinal, fBytes, fDb,
                   fBackups, fReported>>

\* The finally block: only the own temporary name, as far as that works; the
\* sync behind it is best effort.
DiscardTemporary(p) ==
    /\ fPc[p] \in {"discard", "fail"}
    /\ \/ /\ fLinked' = fLinked \ {fTmp[p]}
          /\ fUnsynced' = fUnsynced \cup {fTmp[p]}
       \/ "io" \in FileFaults /\ UNCHANGED <<fLinked, fUnsynced>>
    /\ fReported' = (fReported \/ fPc[p] = "discard")
    /\ FileLeave(p)
    /\ UNCHANGED <<fStore, fFinal, fDfinal, fBytes, fDb, fBackups>>

\* Nothing to clean up yet.
FailEarly(p) ==
    /\ \/ "sync" \in FileFaults /\ fPc[p] = "restore"
       \/ "io" \in FileFaults /\ fPc[p] \in {"init", "copy", "upgrade", "backed_up", "sweep"}
    /\ FileLeave(p)
    /\ UNCHANGED <<fStore, fLinked, fUnsynced, fFinal, fDfinal, fBytes, fDb,
                   fBackups, fReported>>

-----------------------------------------------------------------------------
(* sqlite-upgrade and publication *)

UpgradeEnter(p) ==
    /\ fPc[p] = "idle"
    /\ fFinal # NoFile
    /\ Lock(p)
    /\ FileGoto(p, "upgrade")
    /\ UNCHANGED <<fTmp, fMem, fInv, fLinked, fUnsynced, fFinal, fDfinal,
                   fBytes, fDb, fBackups, fReported>>

\* Mutant: the backup is written after the state was read, and not compared.
BackupOfAnother(p) ==
    /\ fPc[p] = "upgrade"
    /\ fDb[fFinal].version < HeadVersion
    /\ fMem' = [fMem EXCEPT ![p] = fDb[fFinal]]
    /\ FileGoto(p, "backed_up")
    /\ UNCHANGED <<fStore, fLock, fTmp, fInv, fLinked, fUnsynced, fFinal,
                   fDfinal, fBytes, fDb, fBackups, fReported>>

\* read_transaction, write_backup and _require_verified.
UpgradeBackup(p) ==
    /\ fPc[p] = "upgrade"
    /\ fDb[fFinal].version < HeadVersion
    /\ fMem' = [fMem EXCEPT ![p] = fDb[fFinal]]
    /\ fBackups' = fBackups \cup {fDb[fFinal]}
    /\ FileGoto(p, "backed_up")
    /\ UNCHANGED <<fStore, fLock, fTmp, fInv, fLinked, fUnsynced, fFinal,
                   fDfinal, fBytes, fDb, fReported>>

AlreadyCurrent(p) ==
    /\ fPc[p] = "upgrade"
    /\ fDb[fFinal].version = HeadVersion
    /\ FileLeave(p)
    /\ UNCHANGED <<fStore, fLinked, fUnsynced, fFinal, fDfinal, fBytes, fDb,
                   fBackups, fReported>>

\* SQLite's commit: the bytes are durable, and the first sync of the WAL also
\* syncs the directory.
CommitInPlace(state) ==
    /\ fDb' = [fDb EXCEPT ![fFinal] = state]
    /\ SyncNames

\* Every pending migration, and the publication as it was.
Upgraded(before) == [before EXCEPT !.version = HeadVersion]

\* _apply: one transaction behind the comparison with what was backed up. A
\* difference is raised before the commit; every writer holds the lock, so it
\* is a second guard, and LocalProofs shows that none is found.
Apply(p) ==
    /\ fPc[p] = "backed_up"
    /\ \/ /\ fDb[fFinal] = fMem[p]
          /\ \/ CommitInPlace(Upgraded(fMem[p]))
             \/ "commit" \in FileFaults /\ UNCHANGED <<fDb, fDfinal, fUnsynced>>
          /\ FileGoto(p, "confirm")
          /\ Keep
       \/ /\ fDb[fFinal] # fMem[p]
          /\ FileLeave(p)
          /\ UNCHANGED <<fDb, fDfinal, fUnsynced>>
    /\ UNCHANGED <<fStore, fLinked, fFinal, fBytes, fBackups, fReported>>

\* _confirm: upgraded only after a readback that shows it.
Confirm(p) ==
    /\ fPc[p] = "confirm"
    /\ fReported' = (fReported \/ fDb[fFinal] = Upgraded(fMem[p]))
    /\ FileLeave(p)
    /\ UNCHANGED <<fStore, fLinked, fUnsynced, fFinal, fDfinal, fBytes, fDb,
                   fBackups>>

\* refresh-graph on a current database, under the lock.
Publish(p) ==
    /\ fPc[p] = "idle"
    /\ fLock = NoRunner
    /\ fFinal # NoFile
    /\ fDb[fFinal].version = HeadVersion
    /\ fDb[fFinal].gen < MaxGen
    /\ CommitInPlace([fDb[fFinal] EXCEPT !.gen = @ + 1])
    /\ fReported' = TRUE
    /\ UNCHANGED <<fStore, fLock, fPc, fTmp, fMem, fInv, fLinked, fFinal,
                   fBytes, fBackups>>

\* sqlite-backup, completed.
BackupDone(p) ==
    /\ fPc[p] = "idle"
    /\ fLock = NoRunner
    /\ fFinal # NoFile
    /\ fBackups' = fBackups \cup {fDb[fFinal]}
    /\ fBackups' # fBackups
    /\ UNCHANGED <<fStore, fLock, fPc, fTmp, fMem, fInv, fLinked, fUnsynced,
                   fFinal, fDfinal, fBytes, fDb, fReported>>

-----------------------------------------------------------------------------
(* sqlite-cleanup --yes *)

\* _graph_lock: without a store there is nothing to lock.
CleanupEnter(p) ==
    /\ fPc[p] = "idle"
    /\ \/ /\ fStore = "absent"
          /\ FileGoto(p, "no_store")
          /\ UNCHANGED <<fStore, fLock>>
       \/ /\ fStore # "absent"
          /\ Lock(p)
          /\ FileGoto(p, "sweep")
    /\ UNCHANGED <<fTmp, fMem, fInv, fLinked, fUnsynced, fFinal, fDfinal,
                   fBytes, fDb, fBackups, fReported>>

\* Mutant: a store that appeared in the meantime is swept as well.
InspectsAppeared(p) == fPc[p] = "sweep" \/ (fPc[p] = "no_store" /\ fStore # "absent")

\* Only a store that was there when the lock was decided is inspected.
Inspects(p) == fPc[p] = "sweep"

\* Mutant: whatever lies beside an absent database is removable.
RemovableAll == fLinked

\* Beside a database every orphan is stale; beside none only a partial one is
\* removable, and a complete one is kept as recoverable.
Removable == IF fFinal # NoFile THEN fLinked
             ELSE {t \in fLinked : fBytes[t] = "partial"}

\* inventory_orphans; a partial orphan with a journal is kept.
Inventory(p) ==
    /\ Inspects(p)
    /\ \E kept \in SUBSET {t \in fLinked : fFinal = NoFile /\ fBytes[t] = "partial"} :
          fInv' = [fInv EXCEPT ![p] = Removable \ kept]
    /\ FileGoto(p, "remove")
    /\ UNCHANGED <<fStore, fLock, fTmp, fMem, fLinked, fUnsynced, fFinal,
                   fDfinal, fBytes, fDb, fBackups, fReported>>

NotInspected(p) ==
    /\ fPc[p] = "no_store"
    /\ FileLeave(p)
    /\ UNCHANGED <<fStore, fLinked, fUnsynced, fFinal, fDfinal, fBytes, fDb,
                   fBackups, fReported>>

\* remove_orphan, one name at a time; a failure goes on to the next.
Remove(p) ==
    /\ fPc[p] = "remove"
    /\ \E t \in fInv[p] :
          /\ fInv' = [fInv EXCEPT ![p] = @ \ {t}]
          /\ \/ /\ fLinked' = fLinked \ {t}
                /\ fUnsynced' = fUnsynced \cup {t}
             \/ "io" \in FileFaults /\ UNCHANGED <<fLinked, fUnsynced>>
    /\ UNCHANGED <<fStore, fLock, fPc, fTmp, fMem, fFinal, fDfinal, fBytes,
                   fDb, fBackups, fReported>>

\* _establish_durability syncs state/ and the home, not the store.
CleanupDone(p) ==
    /\ fPc[p] = "remove"
    /\ fInv[p] = {}
    /\ FileLeave(p)
    /\ UNCHANGED <<fStore, fLinked, fUnsynced, fFinal, fDfinal, fBytes, fDb,
                   fBackups, fReported>>

-----------------------------------------------------------------------------
(* The environment *)

FileCrash(p) ==
    /\ "crash" \in FileFaults
    /\ fPc[p] # "idle"
    /\ FileLeave(p)
    /\ UNCHANGED <<fStore, fLinked, fUnsynced, fFinal, fDfinal, fBytes, fDb,
                   fBackups, fReported>>

\* Names not synced and bytes not synced may be gone.
FilePowerLoss ==
    /\ "power" \in FileFaults
    /\ \/ /\ fStore = "volatile"
          /\ fStore' = "absent" /\ fFinal' = NoFile /\ fLinked' = {}
       \/ /\ fStore' = IF fStore = "volatile" THEN "durable" ELSE fStore
          /\ fFinal' \in fDfinal
          /\ \E back \in SUBSET (fUnsynced \cap Tokens) :
                fLinked' = (fLinked \ fUnsynced) \cup back
    /\ fDfinal' = {fFinal'} /\ fUnsynced' = {}
    /\ \E torn \in SUBSET {f \in Files : fBytes[f] = "whole"} :
          fBytes' = [f \in Files |-> IF f \in torn THEN "partial" ELSE fBytes[f]]
    /\ fLock' = NoRunner
    /\ fPc' = [p \in Runners |-> "idle"]
    /\ fTmp' = [p \in Runners |-> NoFile]
    /\ fMem' = [p \in Runners |-> Unread]
    /\ fInv' = [p \in Runners |-> {}]
    /\ UNCHANGED <<fDb, fBackups, fReported>>
    /\ fileVars' # fileVars

\* The operator moves the database away, with no command running.
MoveAway ==
    /\ "move" \in FileFaults
    /\ fLock = NoRunner
    /\ fFinal # NoFile
    /\ fFinal' = NoFile
    /\ fDfinal' = {NoFile}
    /\ fReported' = FALSE
    /\ UNCHANGED <<fStore, fLock, fPc, fTmp, fMem, fInv, fLinked, fUnsynced,
                   fBytes, fDb, fBackups>>

LocalFilesNext ==
    \/ \E p \in Runners :
          \/ InitEnter(p) \/ Existing(p) \/ InitCreate(p) \/ Build(p) \/ Seal(p)
          \/ ChainSync(p) \/ RestoreChecks(p) \/ RestoreEnter(p)
          \/ RestoreCreate(p) \/ Copy(p) \/ Install(p) \/ InstalledSync(p)
          \/ Fail(p) \/ DiscardTemporary(p) \/ FailEarly(p)
          \/ UpgradeEnter(p) \/ UpgradeBackup(p) \/ AlreadyCurrent(p)
          \/ Apply(p) \/ Confirm(p) \/ Publish(p) \/ BackupDone(p)
          \/ CleanupEnter(p) \/ Inventory(p) \/ NotInspected(p) \/ Remove(p)
          \/ CleanupDone(p) \/ FileCrash(p)
    \/ FilePowerLoss
    \/ MoveAway

LocalFilesSpec == LocalFilesInit /\ [][LocalFilesNext]_fileVars

-----------------------------------------------------------------------------
(* Properties *)

LocalFilesTypeOK ==
    /\ fStore \in {"absent", "volatile", "durable"}
    /\ fLock \in Runners \cup {NoRunner}
    /\ fPc \in [Runners -> FilePhases]
    /\ fTmp \in [Runners -> Tokens \cup {NoFile}]
    /\ fMem \in [Runners -> States]
    /\ fInv \in [Runners -> SUBSET Tokens]
    /\ fLinked \in SUBSET Tokens /\ fUnsynced \in SUBSET Tokens
    /\ fFinal \in Files \cup {NoFile}
    /\ fDfinal \in SUBSET (Files \cup {NoFile})
    /\ fBytes \in [Files -> {"none", "partial", "whole", "synced"}]
    /\ fDb \in [Files -> States]
    /\ fBackups \in SUBSET States
    /\ fReported \in BOOLEAN

\* The final name never shows, and no power loss uncovers under it, a file
\* whose bytes are not complete and durable (initialize_graph_database,
\* install_backup: build, sync, then link).
FinalIsComplete ==
    \A f \in (fDfinal \cup {fFinal}) \ {NoFile} : fBytes[f] = "synced"

\* A database some command reported as initialized, restored, upgraded or
\* published stays under its name with all its publications, through crashes,
\* power loss, reruns, restores and cleanups, until an operator moves it. The
\* answer already-current is no such report: it may be given of a name that an
\* attempt whose directory sync failed has linked and a power loss takes back.
ReportedDatabaseIsKept ==
    [][fReported /\ fReported' =>
          /\ fFinal # NoFile /\ fFinal' = fFinal
          /\ fDb'[fFinal].gen >= fDb[fFinal].gen
          /\ fDb'[fFinal].version >= fDb[fFinal].version]_fileVars

\* A temporary file of an attempt that is still going on is unlinked by that
\* attempt alone, whatever cleanups run beside it (_graph_lock, store_present).
LiveTemporariesSpared ==
    [][\A p \in Runners :
          fTmp[p] # NoFile /\ fTmp[p] \in fLinked /\ fTmp[p] \notin fLinked' =>
              fPc'[p] = "idle"]_fileVars

\* A cleanup never unlinks a complete orphan while there is no database: it
\* may be the only copy (_classify keeps what is recoverable).
OnlyCopyIsKept ==
    [][\A p \in Runners : \A t \in (fInv[p] \ fInv'[p]) \cap (fLinked \ fLinked') :
          fPc'[p] = "remove" /\ fBytes[t] # "partial" => fFinal # NoFile]_fileVars

\* The schema of the database in place only changes behind a completed backup
\* of exactly the state it had (upgrade_graph_database).
UpgradedBehindBackup ==
    [][\A f \in Files :
          f = fFinal /\ fFinal' = fFinal /\ fDb'[f].version # fDb[f].version =>
              fDb[f] \in fBackups /\ fDb'[f].gen = fDb[f].gen]_fileVars

\* A reported database (initialized, restored, upgraded or published, not just
\* found already current) is kept, and its schema only changes behind a completed
\* backup of exactly the state it had (upgrade_graph_database).
DatabaseIsKept == ReportedDatabaseIsKept /\ UpgradedBehindBackup

\* Cleanups spare the temporary files of attempts that are still going on, and
\* a complete orphan beside no database (_graph_lock, store_present, _classify).
CleanupSpares == LiveTemporariesSpared /\ OnlyCopyIsKept
=============================================================================
