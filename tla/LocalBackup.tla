---------------------------- MODULE LocalBackup ----------------------------
(***************************************************************************)
(* Writing one backup of a SQLite Local graph into an output directory     *)
(* (storage/sqlite_local/backup.py).  The publisher lock is one per graph, *)
(* so the attempts here back up different graphs and nothing but the file  *)
(* system keeps them apart: all of them were given the same output.        *)
(*                                                                         *)
(* The directory holds a database under its final name, a manifest under   *)
(* its final name, and the temporary names of the attempts.  A file is the *)
(* attempt that wrote it.  A name is durable once its directory is synced, *)
(* bytes once the file is.  A directory made again after a removal starts  *)
(* afresh.  The variables begin with b.                                    *)
(***************************************************************************)
EXTENDS Naturals, FiniteSets

CONSTANTS
    Writers,    \* calls of write_backup
    NoOne,      \* a final name that is absent
    FaultSets   \* what may go wrong in one history, as alternatives

ASSUME BackupAssumption ==
    /\ NoOne \notin Writers
    /\ \A F \in FaultSets :
          F \subseteq {"crash", "power", "io", "unlink", "interrupt"}

VARIABLES
    bPc,       \* where each attempt is
    bCreated,  \* attempts that made the directory
    bRecorded, \* the final names an attempt recorded in `linked'
    bDir,      \* the output directory exists
    bDdir,     \* what a power loss may leave of it
    bDb,       \* the attempt whose database has the final name
    bDdb,      \* what a power loss may leave there
    bMan,      \* the attempt whose manifest has the final name
    bDman,     \* what a power loss may leave there
    bTemps,    \* temporary names present
    bLoose,    \* temporary names whose presence a power loss may change
    bSealed,   \* attempts whose database bytes are durable
    bFaults    \* what may go wrong in this history

outputVars == <<bPc, bCreated, bRecorded, bDir, bDdir, bDb, bDdb, bMan, bDman,
                bTemps, bLoose, bSealed, bFaults>>

Kinds == {"database", "manifest"}
Temps == Kinds \X Writers
Owners == Writers \cup {NoOne}

BackupPhases ==
    {"start", "checked", "mkdir", "made", "open", "snapshot", "seal", "link",
     "record", "unlink", "sync", "list", "write", "publish", "record_manifest",
     "unlink_manifest", "sync_manifest", "done", "discard", "discard_database",
     "discard_temps", "discard_dir", "failed", "dead"}

Returned == {"done", "failed", "dead"}

BackupInit ==
    /\ bPc = [a \in Writers |-> "start"]
    /\ bCreated = {}
    /\ bRecorded = [a \in Writers |-> {}]
    /\ bDir \in BOOLEAN /\ bDdir = {bDir}
    /\ bDb = NoOne /\ bDdb = {NoOne}
    /\ bMan = NoOne /\ bDman = {NoOne}
    /\ bTemps = {} /\ bLoose = {} /\ bSealed = {}
    /\ bFaults \in FaultSets

BackupGoto(a, phase) == bPc' = [bPc EXCEPT ![a] = phase]

Empty == bDb = NoOne /\ bMan = NoOne /\ bTemps = {}

\* fsync_directory(output)
SyncOutput ==
    /\ bDdb' = {bDb} /\ bDman' = {bMan} /\ bLoose' = {}

LinkDatabase(a) == bDb' = a /\ bDdb' = bDdb \cup {a}
LinkManifest(a) == bMan' = a /\ bDman' = bDman \cup {a}
AddTemp(t) == bTemps' = bTemps \cup {t} /\ bLoose' = bLoose \cup {t}
DropTemps(ts) == bTemps' = bTemps \ ts /\ bLoose' = bLoose \cup (bTemps \cap ts)

Names == <<bDb, bDdb, bMan, bDman, bTemps, bLoose>>
Place == <<bDir, bDdir>>

\* check_backup_output, before the publisher lock is taken: the output is
\* absent or an empty directory.
Check(a) ==
    /\ bPc[a] = "start"
    /\ BackupGoto(a, IF bDir /\ ~Empty THEN "failed" ELSE "checked")
    /\ UNCHANGED <<bCreated, bRecorded, Place, Names, bSealed>>

\* The durability probe and the lexists test.
EnterOutput(a) ==
    /\ bPc[a] = "checked"
    /\ BackupGoto(a, IF bDir THEN "open" ELSE "mkdir")
    /\ bDdir' = {bDir}
    /\ UNCHANGED <<bCreated, bRecorded, bDir, Names, bSealed>>

\* os.mkdir, which another attempt may have won; the failure is outside the try.
MakeDirectory(a) ==
    /\ bPc[a] = "mkdir"
    /\ IF bDir
       THEN BackupGoto(a, "failed") /\ UNCHANGED <<bCreated, Place, Names>>
       ELSE /\ BackupGoto(a, "made")
            /\ bCreated' = bCreated \cup {a}
            /\ bDir' = TRUE /\ bDdir' = {TRUE, FALSE}
            /\ bDdb' = {NoOne} /\ bDman' = {NoOne} /\ bLoose' = {}
            /\ UNCHANGED <<bDb, bMan, bTemps>>
    /\ UNCHANGED <<bRecorded, bSealed>>

SyncParent(a) ==
    /\ bPc[a] = "made"
    /\ BackupGoto(a, "open")
    /\ bDdir' = {bDir}
    /\ UNCHANGED <<bCreated, bRecorded, bDir, Names, bSealed>>

\* The temporary database, O_EXCL under a fresh name; the directory may be gone.
OpenTemporary(a) ==
    /\ bPc[a] = "open"
    /\ IF bDir
       THEN BackupGoto(a, "snapshot") /\ AddTemp(<<"database", a>>)
       ELSE BackupGoto(a, "discard") /\ UNCHANGED <<bTemps, bLoose>>
    /\ UNCHANGED <<bCreated, bRecorded, Place, bDb, bDdb, bMan, bDman,
                   bSealed>>

\* _snapshot: SQLite's online backup into the temporary file.
Snapshot(a) ==
    /\ bPc[a] = "snapshot"
    /\ BackupGoto(a, "seal")
    /\ UNCHANGED <<bCreated, bRecorded, Place, Names, bSealed>>

\* seal_database_file, inspect_sealed_database and file_digest.
SealBackup(a) ==
    /\ bPc[a] = "seal"
    /\ BackupGoto(a, "link")
    /\ bSealed' = bSealed \cup {a}
    /\ UNCHANGED <<bCreated, bRecorded, Place, Names>>

\* os.link to the final database name, which never replaces a name.
InstallDatabase(a) ==
    /\ bPc[a] = "link"
    /\ IF bDb = NoOne
       THEN BackupGoto(a, "record") /\ LinkDatabase(a)
       ELSE BackupGoto(a, "discard") /\ UNCHANGED <<bDb, bDdb>>
    /\ UNCHANGED <<bCreated, bRecorded, Place, bMan, bDman, bTemps, bLoose,
                   bSealed>>

\* linked[final] = _link(..): the identity of the linked file is remembered
\* after the link was made.
Record(a, kind, from, to) ==
    /\ bPc[a] = from
    /\ BackupGoto(a, to)
    /\ bRecorded' = [bRecorded EXCEPT ![a] = @ \cup {kind}]
    /\ UNCHANGED <<bCreated, Place, Names, bSealed>>

RecordDatabase(a) == Record(a, "database", "record", "unlink")
RecordManifest(a) == Record(a, "manifest", "record_manifest", "unlink_manifest")

UnlinkTemporary(a) ==
    /\ bPc[a] = "unlink"
    /\ BackupGoto(a, "sync")
    /\ DropTemps({<<"database", a>>})
    /\ UNCHANGED <<bCreated, bRecorded, Place, bDb, bDdb, bMan, bDman,
                   bSealed>>

SyncDatabase(a) ==
    /\ bPc[a] = "sync"
    /\ BackupGoto(a, "list")
    /\ SyncOutput
    /\ UNCHANGED <<bCreated, bRecorded, Place, bDb, bMan, bTemps, bSealed>>

\* The directory holds the database and nothing else.
ListOutput(a) ==
    /\ bPc[a] = "list"
    /\ BackupGoto(a, IF bDb # NoOne /\ bMan = NoOne /\ bTemps = {} THEN "write" ELSE "discard")
    /\ UNCHANGED <<bCreated, bRecorded, Place, Names, bSealed>>

\* _write_new of the manifest's temporary file, synced.
WriteManifest(a) ==
    /\ bPc[a] = "write"
    /\ BackupGoto(a, "publish")
    /\ AddTemp(<<"manifest", a>>)
    /\ UNCHANGED <<bCreated, bRecorded, Place, bDb, bDdb, bMan, bDman,
                   bSealed>>

InstallManifest(a) ==
    /\ bPc[a] = "publish"
    /\ IF bMan = NoOne
       THEN BackupGoto(a, "record_manifest") /\ LinkManifest(a)
       ELSE BackupGoto(a, "discard") /\ UNCHANGED <<bMan, bDman>>
    /\ UNCHANGED <<bCreated, bRecorded, Place, bDb, bDdb, bTemps, bLoose,
                   bSealed>>

UnlinkManifestTemporary(a) ==
    /\ bPc[a] = "unlink_manifest"
    /\ BackupGoto(a, "sync_manifest")
    /\ DropTemps({<<"manifest", a>>})
    /\ UNCHANGED <<bCreated, bRecorded, Place, bDb, bDdb, bMan, bDman,
                   bSealed>>

\* The last sync; write_backup returns the manifest.
SyncManifest(a) ==
    /\ bPc[a] = "sync_manifest"
    /\ BackupGoto(a, "done")
    /\ SyncOutput
    /\ UNCHANGED <<bCreated, bRecorded, Place, bDb, bMan, bTemps, bSealed>>

Write(a) ==
    \/ Check(a) \/ EnterOutput(a) \/ MakeDirectory(a) \/ SyncParent(a)
    \/ OpenTemporary(a) \/ Snapshot(a) \/ SealBackup(a)
    \/ InstallDatabase(a) \/ RecordDatabase(a) \/ UnlinkTemporary(a)
    \/ SyncDatabase(a) \/ ListOutput(a) \/ WriteManifest(a)
    \/ InstallManifest(a) \/ RecordManifest(a)
    \/ UnlinkManifestTemporary(a) \/ SyncManifest(a)
-----------------------------------------------------------------------------
(* Failures *)

Raise(a) ==
    /\ BackupGoto(a, IF bPc[a] \in {"start", "checked", "mkdir"} THEN "failed" ELSE "discard")
    /\ UNCHANGED <<bCreated, bRecorded, Place, Names, bSealed>>

Working(a) == bPc[a] \notin Returned /\ bPc[a] \notin
    {"discard", "discard_database", "discard_temps", "discard_dir"}

\* A call of the file system or of SQLite fails before it changed anything.
BackupCallFails(a) ==
    /\ "io" \in bFaults
    /\ Working(a) /\ bPc[a] \notin {"record", "record_manifest"}
    /\ Raise(a)

\* A catchable interrupt, or a failing lstat, between the link and the record.
Interrupted(a) ==
    /\ "interrupt" \in bFaults
    /\ Working(a)
    /\ Raise(a)

\* Mutant: whatever has the final name is removed, whoever linked it.
OwnsUnrecorded(a, kind) == IF kind = "database" THEN bDb # NoOne ELSE bMan # NoOne

\* _discard_attempt: a recorded final name goes if it is still this attempt's file.
Owns(a, kind) ==
    /\ kind \in bRecorded[a]
    /\ IF kind = "database" THEN bDb = a ELSE bMan = a

UnlinkFails == "unlink" \in bFaults

\* The manifest goes first.
DiscardManifest(a) ==
    /\ bPc[a] = "discard"
    /\ BackupGoto(a, "discard_database")
    /\ \/ /\ Owns(a, "manifest")
          /\ bMan' = NoOne /\ bDman' = bDman \cup {NoOne}
       \/ /\ Owns(a, "manifest") => UnlinkFails
          /\ UNCHANGED <<bMan, bDman>>
    /\ UNCHANGED <<bCreated, bRecorded, Place, bDb, bDdb, bTemps, bLoose,
                   bSealed>>

DiscardDatabase(a) ==
    /\ bPc[a] = "discard_database"
    /\ BackupGoto(a, "discard_temps")
    /\ \/ /\ Owns(a, "database")
          /\ bDb' = NoOne /\ bDdb' = bDdb \cup {NoOne}
       \/ /\ Owns(a, "database") => UnlinkFails
          /\ UNCHANGED <<bDb, bDdb>>
    /\ UNCHANGED <<bCreated, bRecorded, Place, bMan, bDman, bTemps, bLoose,
                   bSealed>>

DiscardTemps(a) ==
    /\ bPc[a] = "discard_temps"
    /\ BackupGoto(a, "discard_dir")
    /\ \E kept \in SUBSET (bTemps \cap (Kinds \X {a})) :
          /\ kept # {} => UnlinkFails
          /\ DropTemps((Kinds \X {a}) \ kept)
    /\ UNCHANGED <<bCreated, bRecorded, Place, bDb, bDdb, bMan, bDman,
                   bSealed>>

\* A directory this attempt created is removed if it is empty.
DiscardDirectory(a) ==
    /\ bPc[a] = "discard_dir"
    /\ BackupGoto(a, "failed")
    /\ \/ /\ a \in bCreated /\ bDir /\ Empty
          /\ bDir' = FALSE /\ bDdir' = {FALSE}
          /\ bDdb' = {NoOne} /\ bDman' = {NoOne} /\ bLoose' = {}
       \/ /\ a \in bCreated /\ (bDir /\ Empty => UnlinkFails)
          /\ UNCHANGED <<Place, bDdb, bDman, bLoose>>
       \/ /\ a \notin bCreated /\ bDir /\ SyncOutput /\ UNCHANGED Place
       \/ /\ a \notin bCreated /\ (bDir => UnlinkFails)
          /\ UNCHANGED <<Place, bDdb, bDman, bLoose>>
    /\ UNCHANGED <<bCreated, bRecorded, bDb, bMan, bTemps, bSealed>>

Discard(a) ==
    DiscardManifest(a) \/ DiscardDatabase(a) \/ DiscardTemps(a) \/ DiscardDirectory(a)

\* The process dies; its files stay.
BackupCrash(a) ==
    /\ "crash" \in bFaults
    /\ bPc[a] \notin Returned
    /\ BackupGoto(a, "dead")
    /\ UNCHANGED <<bCreated, bRecorded, Place, Names, bSealed>>

\* Power loss: every process dies, and what was not synced may be gone or back.
BackupPowerLoss ==
    /\ "power" \in bFaults
    /\ bPc' = [a \in Writers |-> IF bPc[a] \in {"done", "failed"} THEN bPc[a] ELSE "dead"]
    /\ bPc' # bPc
    /\ bDir' \in bDdir
    /\ bDdir' = {bDir'}
    /\ IF bDir'
       THEN /\ bDb' \in bDdb /\ bMan' \in bDman
            /\ \E x \in SUBSET bLoose : bTemps' = (bTemps \ bLoose) \cup x
       ELSE bDb' = NoOne /\ bMan' = NoOne /\ bTemps' = {}
    /\ bDdb' = {bDb'} /\ bDman' = {bMan'} /\ bLoose' = {}
    /\ UNCHANGED <<bCreated, bRecorded, bSealed>>

\* Every attempt has returned or died.
AllReturned == (\A a \in Writers : bPc[a] \in Returned) /\ UNCHANGED outputVars

BackupStep ==
    \/ \E a \in Writers :
          Write(a) \/ BackupCallFails(a) \/ Interrupted(a) \/ Discard(a) \/ BackupCrash(a)
    \/ BackupPowerLoss

BackupNext == (BackupStep /\ UNCHANGED bFaults) \/ AllReturned

BackupSpec == BackupInit /\ [][BackupNext]_outputVars
-----------------------------------------------------------------------------
BackupTypeOK ==
    /\ bPc \in [Writers -> BackupPhases]
    /\ bCreated \subseteq Writers /\ bSealed \subseteq Writers
    /\ bRecorded \in [Writers -> SUBSET Kinds]
    /\ bDir \in BOOLEAN /\ bDir \in bDdir /\ bDdir \subseteq BOOLEAN
    /\ bDb \in Owners /\ bDb \in bDdb /\ bDdb \subseteq Owners
    /\ bMan \in Owners /\ bMan \in bDman /\ bDman \subseteq Owners
    /\ bTemps \subseteq Temps /\ bLoose \subseteq Temps
    /\ ~bDir => Empty

\* A backup that was reported stays: its database and its manifest have the
\* final names and keep them, durably, whatever the other attempts at the same
\* output do or fail to do (write_backup returns only after the last sync;
\* _discard_attempt compares the identity of a final name before removing it).
\* Where the power may go it is claimed while the directory was made once: made
\* again by an attempt that has yet to sync the parent, it is not durable for
\* one that found the first.
ReportedBackupIsKept ==
    ("power" \in bFaults => \A a, b \in bCreated : a = b) =>
        \A a \in Writers : bPc[a] = "done" =>
            /\ bDir
            /\ bDb = a /\ bDdb = {a} /\ a \in bSealed
            /\ bMan = a /\ bDman = {a}

\* The attempt raised, and its cleanup is past the final names.
GaveUp(a) == bPc[a] \in {"discard_temps", "discard_dir", "failed", "dead"}

\* A manifest is seen beside the finished database of its own attempt: it is
\* linked after the database's name was synced, and a failing attempt removes
\* it before the database (write_backup, _discard_attempt).  A manifest without
\* that database is a leftover.  Its attempt raised and does not report it, and
\* its cleanup could not remove it: the unlink failed, which is suppressed, or
\* a power loss undid it, or the interrupt came between the link and its record.
ManifestBehindDatabase ==
    bMan # NoOne =>
        \/ bDb = bMan /\ bMan \in bSealed
        \/ /\ GaveUp(bMan)
           /\ \/ "interrupt" \in bFaults
              \/ "io" \in bFaults /\ bFaults \cap {"unlink", "power"} # {}

\* A reported backup stays, durably, whatever other attempts at the same output
\* do or fail to do, and a manifest is beside the finished database of its own
\* attempt or a leftover of one that failed and could not remove it
\* (write_backup, _discard_attempt).
BackupIsWhole == ReportedBackupIsKept /\ ManifestBehindDatabase
=============================================================================
