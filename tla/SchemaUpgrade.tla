--------------------------- MODULE SchemaUpgrade ---------------------------
(***************************************************************************)
(* upgrade_graph_schema (runtime/schema_upgrade.py): one graph database is *)
(* classified by its migration ledger, backed up, and then either          *)
(* reconciled to a stable repository identity, taken forward through its   *)
(* missing migrations, or adopted from before the ledger existed.  Each    *)
(* container call is a step; a call may fail and the command may be killed *)
(* in any of them.  The psql in the container does not die with the        *)
(* command that started it: the transaction it was sent may still commit,  *)
(* while the command is run again.                                         *)
(*                                                                         *)
(* The command holds the maintenance window of Maintenance.tla throughout, *)
(* so a refresh runs only between two commands.  Of what a repositories    *)
(* row owns the model keeps the publications and their authority; its      *)
(* other content, which moves with it, is left out.                        *)
(***************************************************************************)
EXTENDS Integers, Sequences, FiniteSets

CONSTANTS Newest,      \* number of discovered migrations
          Identity,    \* ordinal of the migration that adds repository_identity
          Removal,     \* ordinal of the migration that drops the legacy tables
          Roots,       \* source locations a repositories row may name
          Here,        \* the configured location
          Fences,      \* publication fences: singleton epoch, lease epoch
          MaxEpoch,    \* bound on the epochs
          MaxMishaps   \* bound on failures, kills and refreshes together

ASSUME OrdinalsAssumption ==
    /\ Identity \in Nat \ {0} /\ Removal \in Nat /\ Newest \in Nat
    /\ Identity < Removal /\ Removal <= Newest
    /\ Here \in Roots

\* The fence of a repository without a publication authority.
NoFence == <<0, 0>>

ASSUME FencesAssumption ==
    /\ MaxEpoch \in Nat
    /\ Fences \subseteq (0 .. MaxEpoch) \X (0 .. MaxEpoch) /\ NoFence \in Fences

VARIABLES
    db,          \* the graph database: ledger, applied DDL, repositories
    configured,  \* the ops configuration names this database once
    run,         \* the upgrade command
    reference,   \* reference databases that exist: "this" run's, an "old" one
    result,      \* outcome of the last command
    late,        \* transactions of ended commands that may still commit
    mishaps      \* failures, kills and refreshes so far

upgrading == <<db, configured, run, reference, result, late, mishaps>>

Identities == {"none", "expected", "other"}
Row == [identity : Identities,
        fence : Fences,          \* its row of graph_publication_authority
        runs : SUBSET Fences]    \* the fences its runs were published at
Tables == UNION {[R -> Row] : R \in SUBSET Roots}

\* One ledger row per migration, in order; 0 stands for a row that no
\* discovered migration has.
Expected == [i \in 1 .. Newest |-> i]
Prefix(n) == SubSeq(Expected, 1, n)
Ledgers == {Prefix(n) : n \in 0 .. Newest} \cup {<<0>>}

Database == [managed : BOOLEAN, ledger : Ledgers, ddl : 0 .. Newest, rows : Tables]

IdleRun == [pc |-> "idle", managed |-> FALSE, applied |-> 0, needed |-> FALSE,
            before |-> {}, backup |-> {}]

-----------------------------------------------------------------------------
(* The repositories table.                                                 *)

WithIdentity(rows, i) == {r \in DOMAIN rows : rows[r].identity = i}

\* RepositoryIdentityState, read by repository_identity_state_sql: one row, at
\* the configured location, with the expected identity.
Stable(rows) ==
    /\ DOMAIN rows = {Here}
    /\ WithIdentity(rows, "expected") = {Here}
    /\ WithIdentity(rows, "other") = {}

Reconcilable(rows) ==
    /\ DOMAIN rows # {}
    /\ Cardinality(WithIdentity(rows, "expected")) <= 1
    /\ WithIdentity(rows, "other") = {}

Settled(rows) == Stable(rows) \/ DOMAIN rows = {}

\* The order of publication fences: by the singleton epoch, and at equal ones
\* by the lease epoch.
Ahead(f, g) == f[1] > g[1] \/ (f[1] = g[1] /\ f[2] > g[2])

\* The authority of the merged repository, by the lease epoch first.
WinnerByLease(rows) ==
    CHOOSE f \in {NoFence} \cup {rows[r].fence : r \in DOMAIN rows} :
        \A r \in DOMAIN rows : ~Ahead(<<rows[r].fence[2], rows[r].fence[1]>>, <<f[2], f[1]>>)

\* repomap_authority_winner: the first of graph_publication_authority by
\* descending epochs.
Winner(rows) ==
    CHOOSE f \in {NoFence} \cup {rows[r].fence : r \in DOMAIN rows} :
        \A r \in DOMAIN rows : ~Ahead(rows[r].fence, f)

\* repository_identity_reconciliation_sql: what every row owns moves to one
\* survivor, the winning authority too, and the survivor takes the configured
\* location and identity.
Reconciled(rows) ==
    [r \in {Here} |-> [identity |-> "expected", fence |-> Winner(rows),
                       runs |-> UNION {rows[q].runs : q \in DOMAIN rows}]]

\* No run of the repository was published ahead of its authority.
AuthorityCovers(row) == \A f \in row.runs : ~Ahead(f, row.fence)

-----------------------------------------------------------------------------
(* The transactions that psql is sent.                                     *)

Merge == [does |-> "merge", from |-> 0, to |-> 0]
Adopt == [does |-> "adopt", from |-> 0, to |-> 0]
Advance(m, n) == [does |-> "advance", from |-> m, to |-> n]

Transactions == [does : {"merge", "adopt", "advance"}, from : 0 .. Newest, to : 0 .. Newest]

\* What the database itself refuses: a row of another identity, a ledger that
\* is there already, an ordinal that the ledger has.
Accepts(t) ==
    CASE t.does = "merge" -> WithIdentity(db.rows, "other") = {}
      [] t.does = "adopt" -> ~db.managed
      [] t.does = "advance" -> db.managed /\ Len(db.ledger) = t.from

\* The reconciliation, the ledger of an exact schema, or the missing DDL and
\* its ledger rows.
Commit(t) ==
    db' = CASE t.does = "merge" -> [db EXCEPT !.rows = Reconciled(db.rows)]
            [] t.does = "adopt" -> [db EXCEPT !.managed = TRUE, !.ledger = Expected]
            [] t.does = "advance" ->
                 [db EXCEPT !.ledger = db.ledger \o SubSeq(Expected, t.from + 1, t.to),
                            !.ddl = t.to]

-----------------------------------------------------------------------------
(* Initial states: a database of any age, as older releases leave it.      *)

\* Before the identity migration no row has an identity; the partial unique
\* index keeps an identity to one row.
RowsAt(ddl) ==
    {rows \in Tables :
        /\ \A r \in DOMAIN rows : AuthorityCovers(rows[r])
        /\ ddl < Identity => \A r \in DOMAIN rows : rows[r].identity = "none"
        /\ \A i \in Identities \ {"none"} : \A r, s \in WithIdentity(rows, i) : r = s}

UpgradeInit ==
    /\ \E ddl \in 1 .. Newest :
         \E rows \in RowsAt(ddl) :
           db \in {[managed |-> TRUE, ledger |-> Prefix(ddl), ddl |-> ddl, rows |-> rows],
                   [managed |-> TRUE, ledger |-> <<0>>, ddl |-> ddl, rows |-> rows],
                   [managed |-> FALSE, ledger |-> <<>>, ddl |-> ddl, rows |-> rows]}
    /\ configured \in BOOLEAN
    /\ run = IdleRun
    /\ reference = {}
    /\ result = "none"
    /\ late = {}
    /\ mishaps = 0

-----------------------------------------------------------------------------
(* The command.                                                            *)

Ends(outcome) ==
    /\ run' = IdleRun
    /\ result' = outcome

At(pc) == run' = [run EXCEPT !.pc = pc]

\* A reference database named without the time of the command.
BeginReusingName ==
    /\ run.pc = "idle"
    /\ run' = [IdleRun EXCEPT !.pc = "classify", !.before = {db}]
    /\ UNCHANGED <<db, configured, reference, result, late, mishaps>>

Begin ==
    /\ run.pc = "idle"
    /\ run' = [IdleRun EXCEPT !.pc = "classify", !.before = {db}]
    /\ reference' = IF reference = {} THEN {} ELSE {"old"}
    /\ UNCHANGED <<db, configured, result, late, mishaps>>

\* A second command in the same second would give its reference database the
\* name of the one left behind.
BeginInSameSecond ==
    /\ run.pc = "idle" /\ "this" \in reference /\ mishaps < MaxMishaps
    /\ run' = [IdleRun EXCEPT !.pc = "classify", !.before = {db}]
    /\ mishaps' = mishaps + 1
    /\ UNCHANGED <<db, configured, reference, result, late>>

IsProperPrefix(ledger) ==
    /\ ledger # <<>>
    /\ Len(ledger) < Newest
    /\ ledger = Prefix(Len(ledger))

\* Classification by the ledger, and at the current one by the identity.
Classify ==
    /\ run.pc = "classify"
    /\ \/ /\ db.managed /\ db.ledger = Expected
          /\ \/ /\ ~configured \/ Settled(db.rows)
                /\ Ends("current")
             \/ /\ configured /\ ~Settled(db.rows) /\ ~Reconcilable(db.rows)
                /\ Ends("diverged")
             \/ /\ configured /\ ~Settled(db.rows) /\ Reconcilable(db.rows)
                /\ run' = [run EXCEPT !.pc = "backup", !.managed = TRUE, !.needed = TRUE,
                                      !.applied = Newest]
                /\ UNCHANGED result
       \/ /\ db.managed /\ db.ledger # Expected
          /\ IF IsProperPrefix(db.ledger)
             THEN /\ run' = [run EXCEPT !.pc = "backup", !.managed = TRUE,
                                        !.applied = Len(db.ledger)]
                  /\ UNCHANGED result
             ELSE Ends("diverged")
       \/ /\ ~db.managed
          /\ IF "this" \in reference
             THEN Ends("failed")
             ELSE At("backup") /\ UNCHANGED result
    /\ UNCHANGED <<db, configured, reference, late, mishaps>>

\* The legacy tables removed with the path-keyed rows still there.
RouteStraight ==
    IF run.needed THEN "reconcile"
    ELSE IF ~run.managed THEN "create"
    ELSE "forward"

Route ==
    IF run.needed THEN "reconcile"
    ELSE IF ~run.managed THEN "create"
    ELSE IF configured /\ run.applied < Identity THEN "forward_identity"
    ELSE IF configured /\ run.applied < Removal THEN "reconcile_before"
    ELSE "forward"

\* The backup taken only where the ledger moves.
BackupUnlessCurrent ==
    /\ run.pc = "backup"
    /\ run' = [run EXCEPT !.pc = Route, !.backup = IF run.needed THEN {} ELSE {db}]
    /\ UNCHANGED <<db, configured, reference, result, late, mishaps>>

\* dump_database and inspect_backup; an unverified backup is a failed call.
Backup ==
    /\ run.pc = "backup"
    /\ run' = [run EXCEPT !.pc = Route, !.backup = {db}]
    /\ UNCHANGED <<db, configured, reference, result, late, mishaps>>

\* The reconciliation transaction refuses another identity's row.
Reconcile ==
    /\ run.pc = "reconcile"
    /\ Accepts(Merge) /\ Commit(Merge)
    /\ At("verify_identity")
    /\ UNCHANGED <<configured, reference, result, late, mishaps>>

VerifyIdentity ==
    /\ run.pc = "verify_identity"
    /\ IF Stable(db.rows) THEN At("roles") /\ UNCHANGED result ELSE Ends("failed")
    /\ UNCHANGED <<db, configured, reference, late, mishaps>>

\* apply_forward_schema: one transaction, which fails when a late one of an
\* earlier command has already brought the migrations.
ForwardIdentity ==
    /\ run.pc = "forward_identity"
    /\ LET t == Advance(run.applied, Identity)
       IN \/ /\ Accepts(t) /\ Commit(t)
             /\ run' = [run EXCEPT !.pc = "verify_prefix", !.applied = Identity]
             /\ UNCHANGED result
          \/ ~Accepts(t) /\ Ends("failed") /\ UNCHANGED db
    /\ UNCHANGED <<configured, reference, late, mishaps>>

VerifyPrefix ==
    /\ run.pc = "verify_prefix"
    /\ IF db.ledger = Prefix(Identity) THEN At("reconcile_before") /\ UNCHANGED result
                                       ELSE Ends("failed")
    /\ UNCHANGED <<db, configured, reference, late, mishaps>>

\* reconcile_repository_identity_before_removal.
ReconcileBefore ==
    /\ run.pc = "reconcile_before"
    /\ \/ /\ ~Settled(db.rows) /\ ~Reconcilable(db.rows)
          /\ Ends("diverged")
          /\ UNCHANGED db
       \/ /\ Settled(db.rows)
          /\ At("forward")
          /\ UNCHANGED <<db, result>>
       \/ /\ ~Settled(db.rows) /\ Reconcilable(db.rows)
          /\ Commit(Merge)
          /\ At("verify_before")
          /\ UNCHANGED result
    /\ UNCHANGED <<configured, reference, late, mishaps>>

VerifyBefore ==
    /\ run.pc = "verify_before"
    /\ IF Stable(db.rows) THEN At("forward") /\ UNCHANGED result ELSE Ends("failed")
    /\ UNCHANGED <<db, configured, reference, late, mishaps>>

Forward ==
    /\ run.pc = "forward"
    /\ LET t == Advance(run.applied, Newest)
       IN \/ Accepts(t) /\ Commit(t) /\ At("verify_ledger") /\ UNCHANGED result
          \/ ~Accepts(t) /\ Ends("failed") /\ UNCHANGED db
    /\ UNCHANGED <<configured, reference, late, mishaps>>

VerifyLedger ==
    /\ run.pc = "verify_ledger"
    /\ IF db.ledger = Expected THEN At("roles") /\ UNCHANGED result ELSE Ends("failed")
    /\ UNCHANGED <<db, configured, reference, late, mishaps>>

Roles ==
    /\ run.pc = "roles"
    /\ Ends("success")
    /\ UNCHANGED <<db, configured, reference, late, mishaps>>

-----------------------------------------------------------------------------
(* Adoption of a database from before the ledger.                          *)

\* create_database and apply_source_schema.
CreateReference ==
    /\ run.pc = "create"
    /\ reference' = reference \cup {"this"}
    /\ At("compare")
    /\ UNCHANGED <<db, configured, result, late, mishaps>>

\* Adoption of whatever is there.
CompareNothing ==
    /\ run.pc = "compare"
    /\ At("bootstrap")
    /\ UNCHANGED <<db, configured, reference, result, late, mishaps>>

\* The reference holds the whole source schema: the manifests are equal only
\* when the target has all of it.
Compare ==
    /\ run.pc = "compare"
    /\ IF db.ddl = Newest THEN At("bootstrap") ELSE At("drop_failed")
    /\ UNCHANGED <<db, configured, reference, result, late, mishaps>>

Bootstrap ==
    /\ run.pc = "bootstrap"
    /\ \/ Accepts(Adopt) /\ Commit(Adopt) /\ At("verify_adopted")
       \/ ~Accepts(Adopt) /\ At("drop_failed") /\ UNCHANGED db
    /\ UNCHANGED <<configured, reference, result, late, mishaps>>

VerifyAdopted ==
    /\ run.pc = "verify_adopted"
    /\ IF db.ledger = Expected THEN At("drop") ELSE At("drop_failed")
    /\ UNCHANGED <<db, configured, reference, result, late, mishaps>>

\* The finally block; its own failure leaves the reference.
DropReference ==
    /\ run.pc \in {"drop", "drop_failed"}
    /\ reference' = reference \ {"this"}
    /\ IF run.pc = "drop" THEN At("roles") /\ UNCHANGED result ELSE Ends("failed")
    /\ UNCHANGED <<db, configured, late, mishaps>>

-----------------------------------------------------------------------------
(* Faults, and work between commands.                                      *)

\* The transaction that the call of this step sends.
Sent ==
    CASE run.pc = "reconcile" -> {Merge}
      [] run.pc = "reconcile_before" /\ ~Settled(db.rows) /\ Reconcilable(db.rows) -> {Merge}
      [] run.pc = "forward_identity" -> {Advance(run.applied, Identity)}
      [] run.pc = "forward" -> {Advance(run.applied, Newest)}
      [] run.pc = "bootstrap" -> {Adopt}
      [] OTHER -> {}

\* Nothing was sent, or the psql in the container goes on by itself
\* (run_container_command only starts and waits for its client).
LeavesBehind ==
    \/ UNCHANGED late
    \/ Sent # {} /\ late' = late \cup Sent

\* A container call fails: the reference database is still dropped.
UpgradeCallFails ==
    /\ run.pc # "idle" /\ mishaps < MaxMishaps
    /\ IF "this" \in reference /\ run.pc \in {"compare", "bootstrap", "verify_adopted"}
       THEN At("drop_failed") /\ UNCHANGED result
       ELSE Ends("failed")
    /\ LeavesBehind
    /\ mishaps' = mishaps + 1
    /\ UNCHANGED <<db, configured, reference>>

Killed ==
    /\ run.pc # "idle" /\ mishaps < MaxMishaps
    /\ Ends("killed")
    /\ LeavesBehind
    /\ mishaps' = mishaps + 1
    /\ UNCHANGED <<db, configured, reference>>

\* A transaction left behind commits, or the database refuses it.  A command
\* that has changed nothing so far begins from what it leaves.
LateCommits ==
    \E t \in late :
       /\ late' = late \ {t}
       /\ IF Accepts(t) THEN Commit(t) ELSE UNCHANGED db
       /\ run' = [run EXCEPT !.before = IF run.pc \in {"classify", "backup"} THEN {db'} ELSE @]
       /\ UNCHANGED <<configured, reference, result, mishaps>>

\* _ensure_repository and a publication: with an identity the row is found by
\* the identity and takes the configured location, without one it is found by
\* the location.  A taken location is a unique violation.  A direct refresh has
\* no fence; a coordinated one publishes unless the authority is ahead of it
\* (build_authority_check_sql) and becomes the authority.
RefreshRow(was) ==
    LET id == IF configured THEN "expected" ELSE was.identity
    IN {[was EXCEPT !.identity = id]} \cup
       {[identity |-> id, fence |-> f, runs |-> was.runs \cup {f}] :
           f \in {g \in Fences \ {NoFence} : ~Ahead(was.fence, g)}}

NewRow == [identity |-> "none", fence |-> NoFence, runs |-> {}]

Refresh ==
    /\ run.pc = "idle" /\ mishaps < MaxMishaps
    /\ db.ddl >= Identity
    /\ LET mine == IF configured THEN WithIdentity(db.rows, "expected")
                   ELSE {Here} \cap DOMAIN db.rows
           was == IF mine = {} THEN NewRow ELSE db.rows[CHOOSE r \in mine : TRUE]
           kept == DOMAIN db.rows \ mine
       IN /\ Here \notin kept
          /\ \E row \in RefreshRow(was) :
               db' = [db EXCEPT !.rows = [r \in kept \cup {Here} |->
                                            IF r = Here THEN row ELSE db.rows[r]]]
    /\ mishaps' = mishaps + 1
    /\ UNCHANGED <<configured, run, reference, result, late>>

Command ==
    \/ Begin \/ Classify \/ Backup \/ Reconcile \/ VerifyIdentity
    \/ ForwardIdentity \/ VerifyPrefix \/ ReconcileBefore \/ VerifyBefore
    \/ Forward \/ VerifyLedger \/ Roles
    \/ CreateReference \/ Compare \/ Bootstrap \/ VerifyAdopted \/ DropReference

UpgradeNext ==
    Command \/ BeginInSameSecond \/ UpgradeCallFails \/ Killed \/ LateCommits \/ Refresh

UpgradeSpec == UpgradeInit /\ [][UpgradeNext]_upgrading

\* The operator runs the command again until it says the schema is current.
UpgradeFairSpec == UpgradeSpec /\ WF_upgrading(Command)

-----------------------------------------------------------------------------
(* Properties.                                                             *)

UpgradeTypeOK ==
    /\ db \in Database
    /\ configured \in BOOLEAN
    /\ run.before \subseteq Database /\ run.backup \subseteq Database
    /\ run.applied \in 0 .. Newest
    /\ reference \subseteq {"this", "old"}
    /\ result \in {"none", "current", "diverged", "failed", "killed", "success"}
    /\ late \subseteq Transactions
    /\ mishaps \in 0 .. MaxMishaps

\* The ledger says exactly which DDL the database has, after adoption, after a
\* failed command and after a killed one, whose last transaction may commit at
\* any later point of another.
LedgerTellsSchema ==
    db.managed /\ db.ledger # <<0>> => db.ledger = Prefix(db.ddl)

\* Whatever the command has changed so far, the verified backup it took holds
\* the database as it was before: rollback_available is true of a command that
\* failed or was killed half way as well.  And the migration
\* that drops the legacy tables is only ever applied to a configured database
\* whose repository rows are one stable identity, or none: after it the
\* path-keyed rows could no longer be merged with their content.
ChangesAreGuarded ==
    [][/\ run'.pc # "idle" /\ {db'} # run'.before => run'.backup = run'.before
       /\ configured /\ db.ddl < Removal /\ db'.ddl >= Removal =>
             Settled(db'.rows)]_upgrading

\* No repository has a run published ahead of its authority, after any merge
\* of rows with authorities and runs of their own: an attempt that one of the
\* runs has fenced off is fenced off from the merged repository too, whichever
\* row survives.  Neither the removal of the legacy tables nor a late
\* transaction touches what the fence is read from.
NoRunAheadOfAuthority == \A r \in DOMAIN db.rows : AuthorityCovers(db.rows[r])

\* A recognised database gets there: run again after failures and kills, the
\* command leaves the ledger exact-current and a configured database with one
\* stable identity.
Recognised ==
    /\ IF db.managed THEN db.ledger # <<0>> ELSE db.ddl = Newest
    /\ WithIdentity(db.rows, "other") = {}

UpgradeConverges ==
    Recognised ~> [](db.ledger = Expected /\ (configured => Settled(db.rows)))

=============================================================================
