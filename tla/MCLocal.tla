------------------------------ MODULE MCLocal ------------------------------
(***************************************************************************)
(* The SQLite Local store for TLC: refreshes and their retained records    *)
(* (LocalRefresh), the commands that make, restore, upgrade and clean the  *)
(* database (LocalFiles), and backups into one output (LocalBackup).       *)
(*                                                                         *)
(* The three share no state, so their behaviours are checked side by side  *)
(* and not interleaved: one moves while the other two are untouched.       *)
(***************************************************************************)
EXTENDS LocalRefresh, LocalFiles, LocalBackup, TLC

FilesUntouched == fStore = "absent" /\ fBackups = {} /\ LocalFilesInit
BackupUntouched == ~bDir /\ bFaults = {"unlink"} /\ BackupInit

Init ==
    /\ RefreshInit /\ LocalFilesInit /\ BackupInit
    /\ FilesUntouched \/ BackupUntouched

Next ==
    \/ /\ FilesUntouched /\ BackupUntouched
       /\ RefreshNext /\ UNCHANGED <<fileVars, outputVars>>
    \/ /\ RefreshInit /\ BackupUntouched
       /\ LocalFilesNext /\ UNCHANGED <<refreshVars, outputVars>>
    \/ /\ RefreshInit /\ FilesUntouched
       /\ BackupNext /\ UNCHANGED <<refreshVars, fileVars>>

Spec == Init /\ [][Next]_<<refreshVars, fileVars, outputVars>>

\* The same processes run refreshes and commands, and attempt and output names
\* are drawn alike.
Symmetry == Permutations(Procs) \cup Permutations(Attempts)

\* Bound: the operator keeps one backup of the lineage of LocalRefresh, and two
\* of those that upgrades and restores of LocalFiles meet. Where an attempt at
\* an output is interrupted between a link and its record, or its calls and
\* its cleanup both fail, two of them begin.
FewBackups ==
    /\ Cardinality(backups) <= 1 /\ Cardinality(fBackups) <= 2
    /\ bFaults \in {{"interrupt"}, {"io", "unlink"}} =>
          \E a \in Writers : bPc[a] = "start"
=============================================================================
