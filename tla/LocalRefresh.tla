---------------------------- MODULE LocalRefresh ----------------------------
(***************************************************************************)
(* ops refresh-graph on a SQLite Local graph (ops/local_refresh.py): the   *)
(* publisher lock, the retained attempt records under                      *)
(* state/portable-publication (ops/_portable_retention.py), the one-       *)
(* transaction publisher (storage/sqlite_local/publisher.py), and the      *)
(* reconciliation of an attempt whose outcome its own process never told.  *)
(*                                                                         *)
(* A record is replaced by a rename and made durable by a later fsync of   *)
(* its directory: rec is what processes see, durable what a power loss may *)
(* leave.  COMMIT runs with synchronous = FULL, so the database keeps what *)
(* it committed.  Only the accepted lineage of the database is modelled:   *)
(* the rows of a generation, the sources and the bundle are not.           *)
(***************************************************************************)
EXTENDS Naturals, Sequences

CONSTANTS
    Procs,     \* processes that run refresh-graph or sqlite-cleanup
    NoProc,    \* nobody holds the graph's publisher lock
    Attempts,  \* attempt directories: each capture draws a fresh token
    NoAttempt, \* the process has no attempt in hand
    Faults     \* what may go wrong

ASSUME NoProcAssumption == NoProc \notin Procs
ASSUME NoAttemptAssumption == NoAttempt \notin Attempts
ASSUME LocalFaultsAssumption ==
    Faults \subseteq {"crash", "power", "sync", "io", "commit", "restore"}

VARIABLES
    lock,    \* holder of <graph>.sqlite3.lock
    pc,      \* where each process is in refresh_local_graph
    job,     \* the attempt it works on
    hist,    \* attempts accepted by the database, oldest first
    rec,     \* portable-result.json of each attempt, as processes see it
    durable, \* the versions of it that a power loss may leave
    exp,     \* expected_generation of the attempt
    fresh,   \* tokens not drawn yet
    backups  \* lineages of the completed backups

localVars == <<lock, pc, job, hist, rec, durable, exp, fresh, backups>>

-----------------------------------------------------------------------------
(* Records and generations *)

\* "none": no record; "unarmed" and "armed": retained for reconciliation,
\* without and with the sqlite_local_publication block; the others terminal.
Terminal == {"accepted", "failed"}
Classes == {"none", "unarmed", "armed"} \cup Terminal

Phases == {"idle", "reconcile", "sync_accepted", "sync_failed", "capture",
           "captured", "arming", "armed", "commit_error", "committed",
           "abandon", "settling"}

Generation == Len(hist)

\* read_accepted_generation at the start of an attempt.
Expected == Generation

\* The accepted marker names the attempt as its expected next generation.
IsAccepted(a) == Generation = exp[a] + 1 /\ hist[Generation] = a

Armed == {a \in Attempts : rec[a] = "armed"}
Unarmed == {a \in Attempts : rec[a] = "unarmed"}
Expired == {a \in Attempts : rec[a] \in Terminal}

LocalInit ==
    /\ lock = NoProc
    /\ pc = [p \in Procs |-> "idle"]
    /\ job = [p \in Procs |-> NoAttempt]
    /\ hist = <<>>
    /\ rec = [a \in Attempts |-> "none"]
    /\ durable = [a \in Attempts |-> {"none"}]
    /\ exp = [a \in Attempts |-> 0]
    /\ fresh = Attempts
    /\ backups = {}

\* _replace_retention_payload up to os.replace: either version may survive.
Replace(a, class) ==
    /\ rec' = [rec EXCEPT ![a] = class]
    /\ durable' = [durable EXCEPT ![a] = @ \cup {class}]

\* fsync_directory_chain: the version in sight is the only one left.
Sync(a) == durable' = [durable EXCEPT ![a] = {rec[a]}]

\* _settle_unarmed: each record on its own, failures suppressed, so any part
\* of it may be done, and any part of that be durable.
SettleUnarmed(records, marks) ==
    \E done \in SUBSET Unarmed :
        /\ rec' = [a \in Attempts |->
                     IF a \in done THEN "failed" ELSE records[a]]
        /\ durable' = [a \in Attempts |->
                         IF a \in done THEN marks[a] \cup {"failed"}
                         ELSE marks[a]]

Goto(p, phase) == pc' = [pc EXCEPT ![p] = phase]

\* refresh_local_graph returns or raises: the lock is released.
Leave(p) ==
    /\ lock' = NoProc
    /\ Goto(p, "idle")
    /\ job' = [job EXCEPT ![p] = NoAttempt]

-----------------------------------------------------------------------------
(* Reconciliation *)

Enter(p) ==
    /\ pc[p] = "idle"
    /\ lock = NoProc
    /\ fresh # {}
    /\ lock' = p
    /\ Goto(p, "reconcile")
    /\ UNCHANGED <<job, hist, rec, durable, exp, fresh, backups>>

\* Mutant: the refresh goes on over an armed record.
ArmedIgnored(p) ==
    /\ pc[p] = "reconcile"
    /\ SettleUnarmed(rec, durable)
    /\ Goto(p, "capture")
    /\ UNCHANGED <<lock, job, hist, exp, fresh, backups>>

NothingArmed(p) ==
    /\ pc[p] = "reconcile"
    /\ Armed = {}
    /\ SettleUnarmed(rec, durable)
    /\ Goto(p, "capture")
    /\ UNCHANGED <<lock, job, hist, exp, fresh, backups>>

\* Several armed records, an unreadable database or record, an identity
\* conflict or another generation: refuse and change nothing.
ReconciliationRequired(p) ==
    /\ pc[p] = "reconcile"
    /\ \/ "io" \in Faults
       \/ \E a, b \in Armed : a # b
       \/ \E a \in Armed : ~IsAccepted(a) /\ Generation # exp[a]
    /\ Leave(p)
    /\ UNCHANGED <<hist, rec, durable, exp, fresh, backups>>

\* Mutant: the generation alone decides, whoever published it.
VerdictByGeneration(a) ==
    IF Generation = exp[a] THEN "failed"
    ELSE IF Generation > exp[a] THEN "accepted" ELSE "none"

\* Mutant: an attempt that did not publish the last generation has failed.
VerdictByTip(a) == IF IsAccepted(a) THEN "accepted" ELSE "failed"

\* What the accepted marker says about an armed attempt.
Verdict(a) ==
    IF IsAccepted(a) THEN "accepted"
    ELSE IF Generation = exp[a] THEN "failed" ELSE "none"

\* _settle_record, up to os.replace.
SettleArmed(p) ==
    /\ pc[p] = "reconcile"
    /\ \E a \in Attempts :
          /\ Armed = {a}
          /\ Verdict(a) # "none"
          /\ Replace(a, Verdict(a))
          /\ job' = [job EXCEPT ![p] = a]
          /\ Goto(p, IF Verdict(a) = "accepted" THEN "sync_accepted"
                     ELSE "sync_failed")
    /\ UNCHANGED <<lock, hist, exp, fresh, backups>>

\* The accepted outcome is replayed, or the refresh goes on.
SettledArmed(p) ==
    /\ pc[p] \in {"sync_accepted", "sync_failed"}
    /\ SettleUnarmed(rec, [durable EXCEPT ![job[p]] = {rec[job[p]]}])
    /\ \/ pc[p] = "sync_accepted" /\ Leave(p)
       \/ /\ pc[p] = "sync_failed"
          /\ Goto(p, "capture")
          /\ job' = [job EXCEPT ![p] = NoAttempt]
          /\ UNCHANGED lock
    /\ UNCHANGED <<hist, exp, fresh, backups>>

\* attempt-record-unwritable: the rename is done and not known to be durable.
SettleNotSynced(p) ==
    /\ pc[p] \in {"sync_accepted", "sync_failed"}
    /\ "sync" \in Faults
    /\ Leave(p)
    /\ UNCHANGED <<hist, rec, durable, exp, fresh, backups>>

-----------------------------------------------------------------------------
(* Capture, validation and arming *)

\* _prune_expired_terminal_attempts: whatever is older than a day.
Prune(gone, records, marks) ==
    /\ rec' = [a \in Attempts |-> IF a \in gone THEN "none" ELSE records[a]]
    /\ durable' = [a \in Attempts |->
                     IF a \in gone THEN marks[a] \cup {"none"} ELSE marks[a]]

\* No sources, no readable generation, or a worker that failed: the attempt
\* directory is removed again.
CaptureFails(p) ==
    /\ pc[p] = "capture"
    /\ \E gone \in SUBSET Expired : Prune(gone, rec, durable)
    /\ Leave(p)
    /\ UNCHANGED <<hist, exp, fresh, backups>>

\* The record file is fsynced, its directory entry is not.
Capture(p) ==
    /\ pc[p] = "capture"
    /\ \E a \in fresh, gone \in SUBSET Expired :
          /\ Prune(gone, [rec EXCEPT ![a] = "unarmed"],
                   [durable EXCEPT ![a] = {"none", "unarmed"}])
          /\ exp' = [exp EXCEPT ![a] = Expected]
          /\ job' = [job EXCEPT ![p] = a]
          /\ fresh' = fresh \ {a}
    /\ Goto(p, "captured")
    /\ UNCHANGED <<lock, hist, backups>>

\* validate_portable_capture retires the attempt without a directory sync;
\* a record it cannot write stays as it is.
Invalid(p) ==
    /\ pc[p] = "captured"
    /\ \/ Replace(job[p], "failed")
       \/ "io" \in Faults /\ UNCHANGED <<rec, durable>>
    /\ Leave(p)
    /\ UNCHANGED <<hist, exp, fresh, backups>>

\* capture.annotate, up to os.replace.
Arm(p) ==
    /\ pc[p] = "captured"
    /\ Replace(job[p], "armed")
    /\ Goto(p, "arming")
    /\ UNCHANGED <<lock, job, hist, exp, fresh, backups>>

\* Mutant: the publisher is entered without waiting for the sync.
ArmedUnsynced(p) ==
    /\ pc[p] = "arming"
    /\ Goto(p, "armed")
    /\ UNCHANGED <<lock, job, hist, rec, durable, exp, fresh, backups>>

ArmSynced(p) ==
    /\ pc[p] = "arming"
    /\ Sync(job[p])
    /\ Goto(p, "armed")
    /\ UNCHANGED <<lock, job, hist, rec, exp, fresh, backups>>

\* The publisher was never entered.
ArmFails(p) ==
    /\ \/ pc[p] = "captured" /\ "io" \in Faults
       \/ pc[p] = "arming" /\ "sync" \in Faults
    /\ Goto(p, "abandon")
    /\ UNCHANGED <<lock, job, hist, rec, durable, exp, fresh, backups>>

-----------------------------------------------------------------------------
(* publish_generation and the settling of the own attempt *)

\* An error before COMMIT, tagged NOT_COMMITTED; the transaction rolls back.
NotCommitted(p) ==
    /\ pc[p] = "armed"
    /\ Goto(p, "abandon")
    /\ UNCHANGED <<lock, job, hist, rec, durable, exp, fresh, backups>>

\* One BEGIN IMMEDIATE transaction behind the generation fence.
Commit(p) ==
    /\ pc[p] = "armed"
    /\ Generation = exp[job[p]]
    /\ hist' = Append(hist, job[p])
    /\ Goto(p, "committed")
    /\ UNCHANGED <<lock, job, rec, durable, exp, fresh, backups>>

\* COMMIT raised, and may have happened.
CommitRaises(p) ==
    /\ pc[p] = "armed"
    /\ "commit" \in Faults
    /\ Generation = exp[job[p]]
    /\ hist' \in {hist, Append(hist, job[p])}
    /\ Goto(p, "commit_error")
    /\ UNCHANGED <<lock, job, rec, durable, exp, fresh, backups>>

\* _confirmed: success needs the attempt's own identity in the marker.
Confirmed(p) ==
    /\ pc[p] = "commit_error"
    /\ IsAccepted(job[p])
    /\ Goto(p, "committed")
    /\ UNCHANGED <<lock, job, hist, rec, durable, exp, fresh, backups>>

\* The outcome is unknown, or its readback failed: the attempt stays armed.
CommitUnknown(p) ==
    /\ pc[p] = "commit_error"
    /\ Leave(p)
    /\ UNCHANGED <<hist, rec, durable, exp, fresh, backups>>

\* _settle of the own attempt, up to os.replace.
SettleOwn(p) ==
    /\ pc[p] \in {"committed", "abandon"}
    /\ Replace(job[p], IF pc[p] = "committed" THEN "accepted" ELSE "failed")
    /\ Goto(p, "settling")
    /\ UNCHANGED <<lock, job, hist, exp, fresh, backups>>

\* Failures are suppressed: the next refresh reconciles.
SettleOwnFails(p) ==
    /\ \/ pc[p] \in {"committed", "abandon"} /\ "io" \in Faults
       \/ pc[p] = "settling" /\ "sync" \in Faults
    /\ Leave(p)
    /\ UNCHANGED <<hist, rec, durable, exp, fresh, backups>>

SettledOwn(p) ==
    /\ pc[p] = "settling"
    /\ Sync(job[p])
    /\ Leave(p)
    /\ UNCHANGED <<hist, rec, exp, fresh, backups>>

-----------------------------------------------------------------------------
(* Cleanup, backup and restore, crashes, power loss *)

\* sqlite-cleanup --yes under the publisher lock: expired terminal attempts.
CleanupAttempts(p) ==
    /\ pc[p] = "idle"
    /\ lock = NoProc
    /\ \E gone \in SUBSET Expired : gone # {} /\ Prune(gone, rec, durable)
    /\ UNCHANGED <<lock, pc, job, hist, exp, fresh, backups>>

\* sqlite-backup: a completed backup holds the lineage of the database.
Backup(p) ==
    /\ pc[p] = "idle"
    /\ lock = NoProc
    /\ "restore" \in Faults
    /\ backups' = backups \cup {hist}
    /\ UNCHANGED <<lock, pc, job, hist, rec, durable, exp, fresh>>

\* The operator moves the database away and sqlite-restore installs a backup;
\* retained attempts are not touched.
Restore(p) ==
    /\ pc[p] = "idle"
    /\ lock = NoProc
    /\ "restore" \in Faults
    /\ hist' \in backups
    /\ UNCHANGED <<lock, pc, job, rec, durable, exp, fresh, backups>>

\* The operating system releases the lock, SQLite rolls back.
Crash(p) ==
    /\ "crash" \in Faults
    /\ pc[p] # "idle"
    /\ Leave(p)
    /\ UNCHANGED <<hist, rec, durable, exp, fresh, backups>>

\* Every process ends, and each record is one of its durable versions.
PowerLoss ==
    /\ "power" \in Faults
    /\ \E p \in Procs : pc[p] # "idle"
       \/ \E a \in Attempts : durable[a] # {rec[a]}
    /\ rec' \in {r \in [Attempts -> Classes] :
                    \A a \in Attempts : r[a] \in durable[a]}
    /\ durable' = [a \in Attempts |-> {rec'[a]}]
    /\ lock' = NoProc
    /\ pc' = [p \in Procs |-> "idle"]
    /\ job' = [p \in Procs |-> NoAttempt]
    /\ UNCHANGED <<hist, exp, fresh, backups>>

LocalNext ==
    \/ \E p \in Procs :
          \/ Enter(p) \/ NothingArmed(p) \/ ReconciliationRequired(p)
          \/ SettleArmed(p) \/ SettledArmed(p) \/ SettleNotSynced(p)
          \/ CaptureFails(p) \/ Capture(p) \/ Invalid(p)
          \/ Arm(p) \/ ArmSynced(p) \/ ArmFails(p)
          \/ NotCommitted(p) \/ Commit(p) \/ CommitRaises(p)
          \/ Confirmed(p) \/ CommitUnknown(p)
          \/ SettleOwn(p) \/ SettleOwnFails(p) \/ SettledOwn(p)
          \/ CleanupAttempts(p) \/ Backup(p) \/ Restore(p) \/ Crash(p)
    \/ PowerLoss

LocalSpec == LocalInit /\ [][LocalNext]_localVars

-----------------------------------------------------------------------------
(* Properties *)

LocalTypeOK ==
    /\ lock \in Procs \cup {NoProc}
    /\ pc \in [Procs -> Phases]
    /\ job \in [Procs -> Attempts \cup {NoAttempt}]
    /\ hist \in Seq(Attempts)
    /\ rec \in [Attempts -> Classes]
    /\ durable \in [Attempts -> SUBSET Classes]
    /\ exp \in [Attempts -> Nat]
    /\ fresh \in SUBSET Attempts
    /\ backups \in SUBSET Seq(Attempts)

\* As long as there is no backup to put back: a record settled
\* terminal-accepted names an attempt the database accepted, one settled
\* terminal-failed an attempt it did not and never will, in every version a
\* power loss may bring back (_settle, _settle_record).
SettledIsTrue ==
    backups = {} =>
        \A a \in Attempts :
            /\ "accepted" \in durable[a] \cup {rec[a]} =>
                  \E i \in DOMAIN hist : hist[i] = a
            /\ "failed" \in durable[a] \cup {rec[a]} =>
                  \A i \in DOMAIN hist : hist[i] # a

\* _reconcile never meets what it cannot decide: at most one record is armed,
\* and the database is at its expected generation or at the next one with its
\* identity.
ArmedIsDecidable ==
    /\ \A a, b \in Armed : a = b
    /\ \A a \in Armed : Generation = exp[a] \/ IsAccepted(a)

\* Whatever the database was restored to, reconciliation settles an armed
\* record accepted only when the lineage in place holds its publication, and
\* failed only when it does not (_reconcile compares the whole identity).
SettlesTruly ==
    [][\A a \in Attempts :
          rec[a] = "armed" /\ rec'[a] \in Terminal =>
              (rec'[a] = "accepted" <=> \E i \in DOMAIN hist : hist[i] = a)
      ]_localVars

\* A generation is committed only by the holder of the lock, as the next one,
\* and when its own armed record is what a power loss would leave
\* (capture.annotate with sync_directory before publish_generation).
CommitsBehindDurableRecord ==
    [][hist' # hist /\ hist' \notin backups =>
          \E p \in Procs :
              /\ lock = p
              /\ hist' = Append(hist, job[p])
              /\ durable[job[p]] = {"armed"}]_localVars

-----------------------------------------------------------------------------
(* With a history variable: a power loss armed a settled or pruned record   *)
(* again.                                                                   *)

VARIABLE cameBack

refreshVars == <<localVars, cameBack>>

RefreshInit == LocalInit /\ cameBack = FALSE

RefreshNext ==
    /\ LocalNext
    /\ cameBack' = \/ cameBack
                   \/ \E a \in Attempts : /\ rec'[a] = "armed"
                                         /\ rec[a] \notin {"unarmed", "armed"}

RefreshSpec == RefreshInit /\ [][RefreshNext]_refreshVars

\* _reconcile never meets what it cannot decide: at most one record is armed,
\* and the database is at its expected generation or at the next one with its
\* identity, until a power loss brings a settled or pruned record back as armed
\* or there is a backup to put back.
DecidableUntilReturn == ~cameBack /\ backups = {} => ArmedIsDecidable
=============================================================================
