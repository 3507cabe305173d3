------------------------------ MODULE MCUpkeep ------------------------------
(***************************************************************************)
(* What an operator does to the databases, for TLC: the maintenance window *)
(* (Maintenance), what the upgrade command does inside it (SchemaUpgrade)  *)
(* and restores of two databases with extensions (ExtensionRestore).  A    *)
(* history is one of the three.                                            *)
(***************************************************************************)
EXTENDS MCMaintenance, SchemaUpgrade, ExtensionRestore

VARIABLE part

windows == vars

\* Two invocations: the first meets every fault, the second fails or is killed.
MCOrder == <<"graph", "control">>
MCRestoreFaults ==
    [first |-> {"fail", "unsettled", "kill", "interrupt", "session", "disk"},
     second |-> {"fail", "kill"}]

\* Fences that only the singleton epoch, or only the lease epoch, tells apart.
MCFences == {<<0, 0>>, <<1, 1>>, <<1, 2>>, <<2, 1>>}

\* The rows to begin with have one run, that of their authority.
OneRun == \A r \in DOMAIN db.rows : db.rows[r].runs = {db.rows[r].fence} \ {NoFence}

\* The state of the part that is not looked at: any one will do.
AtRest ==
    /\ db = [managed |-> TRUE, ledger |-> <<0>>, ddl |-> 1, rows |-> <<>>]
    /\ configured = FALSE /\ run = IdleRun
    /\ reference = {} /\ result = "none" /\ late = {} /\ mishaps = 0

UpkeepInit ==
    /\ Init /\ RestoreInit
    /\ \/ part = "window" /\ AtRest
       \/ part = "upgrade" /\ cast = {load, dropControl} /\ UpgradeInit /\ OneRun
       \/ part = "restore" /\ cast = {load, dropControl} /\ AtRest

Upgrading(A) == part = "upgrade" /\ A /\ UNCHANGED <<part, windows, restoring>>

Restored == pending = {} /\ \A i \in DOMAIN inv : inv[i].at \in Ended

UpkeepNext ==
    \/ part = "window" /\ Next /\ UNCHANGED <<part, upgrading, restoring>>
    \/ Upgrading(UpgradeNext)
    \/ part = "restore" /\ RestoreNext /\ UNCHANGED <<part, windows, upgrading>>
    \/ part = "restore" /\ Restored /\ UNCHANGED <<part, windows, upgrading, restoring>>

\* The operator runs the upgrade again until it says the schema is current.
UpkeepSpec ==
    /\ UpkeepInit /\ [][UpkeepNext]_<<part, windows, upgrading, restoring>>
    /\ WF_upgrading(Upgrading(Command))
-----------------------------------------------------------------------------
\* Run again after failures and kills, the upgrade command leaves the ledger
\* exact-current and a configured database with one stable identity.
UpgradesConverge == part = "upgrade" => UpgradeConverges
=============================================================================
