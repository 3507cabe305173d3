-------------------------- MODULE GraphPublication --------------------------
(***************************************************************************)
(* The publication of one graph: refresh workers that stage and publish it *)
(* (coordinator/refresh_worker.py, storage/staged_ingestion.py), the gate  *)
(* files that decide between a worker and whoever wants to close its       *)
(* attempt (coordinator/_publication_phase.py), and the storage fence      *)
(* (storage/publication_fencing.py, coordinator/_configured_fencing.py).   *)
(*                                                                         *)
(* A claim is one attempt of one job.  Its worker may outlive the          *)
(* coordinator that launched it, its last transaction may outlive the      *)
(* worker, and a later coordinator knows of neither.  The coordinator's    *)
(* part is left open here: it may close, dispose of or retire an attempt   *)
(* whenever its own evidence allows it.                                    *)
(***************************************************************************)
EXTENDS Naturals

CONSTANTS
    Claims,  \* the attempts of the jobs of the graph
    NoClaim, \* the graph has no graph_publication_authority row
    FencingEpochs, \* singleton fencing epochs
    Leases,  \* graph lease fencing epochs
    Faults   \* what may go wrong after the commit was requested

ASSUME EpochsAssumption ==
    FencingEpochs \subseteq Nat \ {0} /\ Leases \subseteq Nat \ {0}
ASSUME NoClaimAssumption == NoClaim \notin Claims
ASSUME FaultsAssumption == Faults \subseteq {"readback", "post_commit"}

VARIABLES
    claim,     \* the fencing epochs each attempt was claimed with
    initial,   \* publication-<attempt>.initial.json exists
    decision,  \* content of publication-<attempt>.decision.json
    worker,    \* where the attempt's worker is
    backend,   \* the server side of its final transaction
    run,       \* status of its row in runs
    authority, \* the graph_publication_authority row
    outcome    \* what the coordinator made of the attempt

pubVars == <<claim, initial, decision, worker, backend, run, authority,
             outcome>>

-----------------------------------------------------------------------------
(* States *)

\* The worker's message, or its end without one ("killed": the exit of the
\* process; "never": the coordinator gave up before the launch).
Ended == {"never", "killed", "said_committed", "said_not_started",
          "said_unknown", "said_cancelled"}

\* From the first write to the graph's database to the gate.
BeforeGate == {"working", "staging", "validated", "admitted"}

\* From the gate to the end.
BehindGate == {"gated", "final", "commit_sent", "readback", "committed"}

WorkerStates == {"none", "ready"} \cup BeforeGate \cup BehindGate \cup Ended

\* "torn": created, but its writer died before the content was complete.
Decisions == {"none", "not_started", "transaction_started", "torn"}

ClaimKeys == [epoch : FencingEpochs \cup {0}, lease : Leases \cup {0}]

AuthorityRows == [epoch : FencingEpochs \cup {0}, lease : Leases \cup {0},
                  claim : Claims \cup {NoClaim},
                  last : {"none", "fence", "claim", "run"}]

PubInit ==
    /\ claim = [c \in Claims |-> [epoch |-> 0, lease |-> 0]]
    /\ initial = [c \in Claims |-> FALSE]
    /\ decision = [c \in Claims |-> "none"]
    /\ worker = [c \in Claims |-> "none"]
    /\ backend = [c \in Claims |-> "none"]
    /\ run = [c \in Claims |-> "none"]
    /\ authority = [epoch |-> 0, lease |-> 0, claim |-> NoClaim,
                    last |-> "none"]
    /\ outcome = [c \in Claims |-> "open"]

Issued(c) == claim[c].epoch # 0

-----------------------------------------------------------------------------
(* The authority row: storage/_publication_fencing_sql.py *)

Less(a, b) == a.epoch < b.epoch \/ (a.epoch = b.epoch /\ a.lease < b.lease)

SameKey(a, b) == a.epoch = b.epoch /\ a.lease = b.lease

\* The INSERT ... ON CONFLICT of build_authority_upsert_sql updates the row.
\* "fence" and "claim" have no run; the finalize statement alone may take the
\* row over from a fence of the same epochs.
UpsertAccepts(c, key, last) ==
    \/ authority.last = "none"
    \/ Less(authority, key)
    \/ /\ SameKey(authority, key)
       /\ authority.claim = c
       /\ \/ last = "run"
          \/ authority.last = last

AuthorityOf(c, key, last) ==
    [epoch |-> key.epoch, lease |-> key.lease, claim |-> c, last |-> last]

\* The final transaction locks the row from its first statement to its end.
RowLocked == \E c \in Claims : backend[c] # "none"

\* build_authority_check_sql raises in a stale owner's transaction.
Stale(c) == Less(claim[c], authority)

-----------------------------------------------------------------------------
(* Before the launch: coordinator/refresh_adapter.py *)

\* claim_once of the control store: the epoch of the claiming coordinator and
\* the id of the claiming transaction, later than those before it.
issue_claim(c) ==
    /\ ~Issued(c)
    /\ \E e \in FencingEpochs, l \in Leases :
          /\ \A d \in Claims : claim[d].lease < l
          /\ claim' = [claim EXCEPT ![c] = [epoch |-> e, lease |-> l]]
    /\ UNCHANGED <<initial, decision, worker, backend, run, authority, outcome>>

\* A writer that dies here leaves a file that reads like no file.
initialize(c) ==
    /\ Issued(c)
    /\ worker[c] = "none"
    /\ initial' = [initial EXCEPT ![c] = TRUE]
    /\ worker' = [worker EXCEPT ![c] = "ready"]
    /\ UNCHANGED <<claim, decision, backend, run, authority, outcome>>

launch(c) ==
    /\ worker[c] = "ready"
    /\ worker' = [worker EXCEPT ![c] = "working"]
    /\ UNCHANGED <<claim, initial, decision, backend, run, authority, outcome>>

never_launched(c) ==
    /\ Issued(c)
    /\ worker[c] \in {"none", "ready"}
    /\ worker' = [worker EXCEPT ![c] = "never"]
    /\ UNCHANGED <<claim, initial, decision, backend, run, authority, outcome>>

-----------------------------------------------------------------------------
(* The worker: coordinator/refresh_worker.py, storage/staged_ingestion.py *)

\* mark_failed_before_publication, and the terminal message it leads to.
FailsWith(c, message) ==
    /\ run' = [run EXCEPT ![c] = IF @ = "running" THEN "failed" ELSE @]
    /\ worker' = [worker EXCEPT ![c] = message]

\* The first transaction: run, stage and the claim of the authority row.
register_graph_claim(c) ==
    /\ worker[c] = "working"
    /\ ~RowLocked
    /\ IF UpsertAccepts(c, claim[c], "claim")
       THEN /\ authority' = AuthorityOf(c, claim[c], "claim")
            /\ run' = [run EXCEPT ![c] = "running"]
            /\ worker' = [worker EXCEPT ![c] = "staging"]
       ELSE /\ FailsWith(c, "said_not_started")
            /\ UNCHANGED authority
    /\ UNCHANGED <<claim, initial, decision, backend, outcome>>

\* The second and the third transaction: rows copied, stage validated.
prepare_stage(c) ==
    /\ worker[c] = "staging"
    /\ worker' = [worker EXCEPT ![c] = "validated"]
    /\ UNCHANGED <<claim, initial, decision, backend, run, authority, outcome>>

fail_before_publication(c) ==
    /\ worker[c] \in BeforeGate \cup {"gated"}
    /\ FailsWith(c, "said_not_started")
    /\ UNCHANGED <<claim, initial, decision, backend, authority, outcome>>

\* consume_cancellation at a safe point, or after a failure before the gate.
worker_cancelled(c) ==
    /\ worker[c] \in BeforeGate
    /\ FailsWith(c, "said_cancelled")
    /\ UNCHANGED <<claim, initial, decision, backend, authority, outcome>>

\* before_publication, first half: the initial file must be there.
read_initial(c) ==
    /\ worker[c] = "validated"
    /\ IF initial[c]
       THEN worker' = [worker EXCEPT ![c] = "admitted"] /\ UNCHANGED run
       ELSE FailsWith(c, "said_not_started")
    /\ UNCHANGED <<claim, initial, decision, backend, authority, outcome>>

\* before_publication, second half: O_EXCL lets one writer decide.
write_decision(c) ==
    /\ worker[c] = "admitted"
    /\ IF decision[c] = "none"
       THEN /\ decision' = [decision EXCEPT ![c] = "transaction_started"]
            /\ worker' = [worker EXCEPT ![c] = "gated"]
            /\ UNCHANGED run
       ELSE /\ FailsWith(c, "said_not_started")
            /\ UNCHANGED decision
    /\ UNCHANGED <<claim, initial, backend, authority, outcome>>

\* Mutant: the final transaction trusts the gate and skips the fence.
UnfencedFinalTransaction(c) ==
    /\ worker[c] = "gated"
    /\ ~RowLocked
    /\ backend' = [backend EXCEPT ![c] = "open"]
    /\ worker' = [worker EXCEPT ![c] = "final"]
    /\ UNCHANGED <<claim, initial, decision, run, authority, outcome>>

\* The guards of the final transaction pass; its locks are held from now on.
execute_final_transaction(c) ==
    /\ worker[c] = "gated"
    /\ ~RowLocked
    /\ ~Stale(c)
    /\ UpsertAccepts(c, claim[c], "run")
    /\ backend' = [backend EXCEPT ![c] = "open"]
    /\ worker' = [worker EXCEPT ![c] = "final"]
    /\ UNCHANGED <<claim, initial, decision, run, authority, outcome>>

\* A statement fails: rollback, or a connection whose server side is still to
\* notice that it is gone.
final_transaction_fails(c) ==
    /\ worker[c] = "final"
    /\ \E left \in {"none", "open"} :
          backend' = [backend EXCEPT ![c] = left]
    /\ FailsWith(c, "said_not_started")
    /\ UNCHANGED <<claim, initial, decision, authority, outcome>>

request_commit(c) ==
    /\ worker[c] = "final"
    /\ backend' = [backend EXCEPT ![c] = "committing"]
    /\ worker' = [worker EXCEPT ![c] = "commit_sent"]
    /\ UNCHANGED <<claim, initial, decision, run, authority, outcome>>

commit_acknowledged(c) ==
    /\ worker[c] = "commit_sent"
    /\ run[c] = "complete"
    /\ worker' = [worker EXCEPT ![c] = "committed"]
    /\ UNCHANGED <<claim, initial, decision, backend, run, authority, outcome>>

\* connection.commit() raises; the server may have committed, may yet commit
\* or may have rolled back.
commit_error(c) ==
    /\ worker[c] = "commit_sent"
    /\ worker' = [worker EXCEPT ![c] = "readback"]
    /\ UNCHANGED <<claim, initial, decision, backend, run, authority, outcome>>

\* A second connection reads the receipt.  When it cannot be opened, the
\* exception is no StorageCommitUnknownError and refresh_graph reports
\* "not_started".
reconcile_commit_unknown(c) ==
    /\ worker[c] = "readback"
    /\ \/ /\ run[c] = "complete"
          /\ worker' = [worker EXCEPT ![c] = "committed"]
       \/ /\ run[c] # "complete"
          /\ worker' = [worker EXCEPT ![c] = "said_unknown"]
       \/ /\ "readback" \in Faults
          /\ worker' = [worker EXCEPT ![c] = "said_not_started"]
    /\ UNCHANGED <<claim, initial, decision, backend, run, authority, outcome>>

\* The result after the commit.  A heartbeat that failed meanwhile turns it
\* into "unknown"; an OSError of the capture's mark_terminal into
\* "not_started".
report_committed(c) ==
    /\ worker[c] = "committed"
    /\ \/ worker' = [worker EXCEPT ![c] = "said_committed"]
       \/ worker' = [worker EXCEPT ![c] = "said_unknown"]
       \/ /\ "post_commit" \in Faults
          /\ worker' = [worker EXCEPT ![c] = "said_not_started"]
    /\ UNCHANGED <<claim, initial, decision, backend, run, authority, outcome>>

\* The process dies: its supervisor kills it, or it crashes.  In the middle of
\* the gate it may leave an unreadable decision.
kill(c) ==
    /\ worker[c] \in BeforeGate \cup BehindGate
    /\ worker' = [worker EXCEPT ![c] = "killed"]
    /\ \/ UNCHANGED decision
       \/ /\ worker[c] = "admitted" /\ decision[c] = "none"
          /\ decision' = [decision EXCEPT ![c] = "torn"]
    /\ UNCHANGED <<claim, initial, backend, run, authority, outcome>>

-----------------------------------------------------------------------------
(* The server's side of the final transaction *)

\* build_finalize_sql takes effect: receipt and authority row together.
server_commits(c) ==
    /\ backend[c] = "committing"
    /\ backend' = [backend EXCEPT ![c] = "none"]
    /\ run' = [run EXCEPT ![c] = "complete"]
    /\ authority' = AuthorityOf(c, claim[c], "run")
    /\ UNCHANGED <<claim, initial, decision, worker, outcome>>

server_aborts(c) ==
    /\ \/ backend[c] = "committing"
       \/ backend[c] = "open" /\ worker[c] # "final"
    /\ backend' = [backend EXCEPT ![c] = "none"]
    /\ UNCHANGED <<claim, initial, decision, worker, run, authority, outcome>>

-----------------------------------------------------------------------------
(* Closing an attempt: coordinator/_configured_fencing.py,                  *)
(* coordinator/_publication_phase.py                                        *)

\* A later coordinator e takes the row over for the old attempt.  A locked row
\* makes it time out.
install_graph_publication_fence(c, e) ==
    LET key == [epoch |-> e, lease |-> claim[c].lease] IN
    /\ Issued(c)
    /\ e > claim[c].epoch
    /\ ~RowLocked
    /\ UpsertAccepts(c, key, "fence")
    /\ authority' = AuthorityOf(c, key, "fence")
    /\ UNCHANGED <<claim, initial, decision, worker, backend, run, outcome>>

\* O_EXCL again; a closer that dies while writing leaves an unreadable file.
WriteNotStarted(c) ==
    IF decision[c] = "none"
    THEN \E written \in {"not_started", "torn"} :
            decision' = [decision EXCEPT ![c] = written]
    ELSE UNCHANGED decision

\* close_unpublished with the proof of a fence (restart) or of the end of the
\* worker's processes (the launching coordinator).
close_unpublished(c) ==
    /\ outcome[c] = "open"
    /\ Issued(c)
    /\ initial[c]
    /\ Stale(c) \/ worker[c] \in Ended
    /\ WriteNotStarted(c)
    /\ UNCHANGED <<claim, initial, worker, backend, run, authority, outcome>>

\* Mutant: a fence alone is taken for a proof.
UnpublishedOnceFenced(c) ==
    \/ Stale(c)
    \/ worker[c] \in Ended
          /\ \/ decision[c] = "not_started"
             \/ worker[c] \in {"never", "said_not_started"}

\* The evidence on which an attempt is disposed of as not published.
UnpublishedProved(c) ==
    \/ Stale(c) /\ decision[c] = "not_started"
    \/ worker[c] \in Ended
          /\ \/ decision[c] = "not_started"
             \/ worker[c] \in {"never", "said_not_started"}

dispose_unpublished(c) ==
    /\ outcome[c] = "open"
    /\ Issued(c)
    /\ UnpublishedProved(c)
    /\ outcome' = [outcome EXCEPT ![c] = "unpublished"]
    /\ UNCHANGED <<claim, initial, decision, worker, backend, run, authority>>

\* The receipt of the attempt was read, from the graph or from the worker.
dispose_published(c) ==
    /\ outcome[c] = "open"
    /\ run[c] = "complete"
    /\ outcome' = [outcome EXCEPT ![c] = "published"]
    /\ UNCHANGED <<claim, initial, decision, worker, backend, run, authority>>

\* retire_evidence unlinks both files, the initial one first, or none when the
\* decision is unreadable.
retire_evidence(c) ==
    /\ outcome[c] # "open"
    /\ decision[c] # "torn"
    /\ initial' = [initial EXCEPT ![c] = FALSE]
    /\ \E left \in {"none", decision[c]} :
          decision' = [decision EXCEPT ![c] = left]
    /\ UNCHANGED <<claim, worker, backend, run, authority, outcome>>

-----------------------------------------------------------------------------

WorkerNext(c) ==
    \/ register_graph_claim(c) \/ prepare_stage(c)
    \/ fail_before_publication(c) \/ worker_cancelled(c)
    \/ read_initial(c) \/ write_decision(c)
    \/ execute_final_transaction(c) \/ final_transaction_fails(c)
    \/ request_commit(c) \/ commit_acknowledged(c) \/ commit_error(c)
    \/ reconcile_commit_unknown(c) \/ report_committed(c)

ServerNext(c) == server_commits(c) \/ server_aborts(c)

CoordinatorNext(c) ==
    \/ issue_claim(c) \/ initialize(c) \/ launch(c) \/ never_launched(c)
    \/ \E e \in FencingEpochs : install_graph_publication_fence(c, e)
    \/ close_unpublished(c)
    \/ dispose_unpublished(c) \/ dispose_published(c)
    \/ retire_evidence(c)

PubNext == \E c \in Claims : \/ WorkerNext(c)
                             \/ kill(c)
                             \/ ServerNext(c)
                             \/ CoordinatorNext(c)

PubSpec == PubInit /\ [][PubNext]_pubVars

-----------------------------------------------------------------------------
(* Properties *)

\* Every variable keeps its type.
PubTypeOK ==
    /\ claim \in [Claims -> ClaimKeys]
    /\ initial \in [Claims -> BOOLEAN]
    /\ decision \in [Claims -> Decisions]
    /\ worker \in [Claims -> WorkerStates]
    /\ backend \in [Claims -> {"none", "open", "committing"}]
    /\ run \in [Claims -> {"none", "running", "complete", "failed"}]
    /\ authority \in AuthorityRows
    /\ outcome \in [Claims -> {"open", "unpublished", "published"}]

\* An attempt that the coordinator disposed of as not published has not been
\* published and never will be, although its worker may still run, may already
\* have read the initial file and may find the gate files removed
\* (_publication_phase.before_publication, retire_evidence).
UnpublishedStaysUnpublished ==
    \A c \in Claims : outcome[c] = "unpublished" => run[c] # "complete"

\* At most one final transaction is open on the graph, dead workers' ones
\* included (execute_final_transaction).
OneFinalTransaction ==
    \A c, d \in Claims : backend[c] # "none" /\ backend[d] # "none" => c = d

\* The authority row never goes back to an older owner, and a receipt is
\* committed only while no later owner has the row
\* (build_authority_upsert_sql, build_authority_check_sql).
FenceIsRespected ==
    [][/\ ~Less(authority', authority)
       /\ \A c \in Claims : run[c] # "complete" /\ run'[c] = "complete" =>
             ~Stale(c)]_pubVars

\* Once a closer's decision is in the gate file, it is not revised and no
\* transaction of the attempt starts, until the evidence is retired.
DecisionIsFinal ==
    [][\A c \in Claims : decision[c] = "not_started" =>
          /\ decision'[c] \in {"not_started", "none"}
          /\ decision'[c] = "none" => outcome[c] # "open"
          /\ backend'[c] = "none"]_pubVars
=============================================================================
