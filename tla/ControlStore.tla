---------------------------- MODULE ControlStore ----------------------------
(***************************************************************************)
(* The durable control store of the RepoMap coordinator: the PostgreSQL    *)
(* tables jobs, job_attempts, graph_leases, coordinator_instances,         *)
(* coalescing_state and synthetic_publication_markers, and one action for  *)
(* every transaction that changes them (coordinator/_control_*.py,         *)
(* _restart_fencing.py, _supervisor_registration.py).                      *)
(*                                                                         *)
(* A coordinator process is identified by its fencing epoch: every         *)
(* acquisition of the singleton increments the epoch, so an epoch belongs  *)
(* to one instance.  A caller's JobClaim <<j, n>> names attempt n of job j *)
(* and carries the epoch that claimed it, which the attempt row never      *)
(* changes.  Time is abstracted to the two facts the store tests: whether  *)
(* the singleton and a graph lease are unexpired ("live").                 *)
(***************************************************************************)
EXTENDS Naturals, FiniteSets

CONSTANTS
    Jobs,               \* job identities (each stands for one future row)
    Graphs,             \* graph identities
    Generations,        \* desired generation tuples
    Keys,               \* idempotency digests
    Request,            \* [Jobs -> [graph, automatic, generation, key]]
    NoJob,              \* SQL NULL in a column that refers to jobs
    NoGeneration,       \* the graph has no coalescing_state row
    MaxAttempts,        \* limits.max_retry_attempts
    MaxNonterminalJobs, \* limits.max_nonterminal_jobs
    MaxQueuedManual,    \* limits.max_queued_manual_jobs_per_graph
    MaxEpoch            \* bound of the model: singleton acquisitions

ASSUME LimitsAssumption ==
    /\ MaxAttempts \in Nat \ {0}
    /\ MaxNonterminalJobs \in Nat
    /\ MaxQueuedManual \in Nat
    /\ MaxEpoch \in Nat

ASSUME NullAssumption == NoJob \notin Jobs /\ NoGeneration \notin Generations

ASSUME RequestAssumption ==
    Request \in [Jobs -> [graph : Graphs, automatic : BOOLEAN,
                          generation : Generations, key : Keys]]

VARIABLES
    owner,      \* the coordinator_instances row; epoch 0 when there is none
    stragglers, \* expired epochs with a transaction past its owner check
    jobs,       \* the jobs table
    attempts,   \* the job_attempts table
    leases,     \* the graph_leases table
    markers,    \* the synthetic_publication_markers table
    intents,    \* the coalescing_state table
    xact        \* last transaction id used as a graph lease fencing epoch

storeVars == <<owner, stragglers, jobs, attempts, leases, markers, intents,
               xact>>

-----------------------------------------------------------------------------
(* Rows *)

TerminalStates == {"succeeded", "failed", "cancelled", "superseded",
                   "quarantined"}

\* States whose current attempt may have a worker of another coordinator.
AbandonedStates == {"claimed", "starting", "running", "cancel_requested",
                    "cancelling"}

ActiveStates == AbandonedStates \cup {"reconciliation_required"}

\* "absent": no row yet.  "deleted": the row was removed by cleanup.
JobStates == {"absent", "queued", "deleted"} \cup ActiveStates
                 \cup TerminalStates

NonterminalStates == {"queued"} \cup ActiveStates

PublicationStates == {"not_started", "prepared", "transaction_started",
                      "committed", "rolled_back", "commit_unknown"}

SafeUnpublished == {"not_started", "prepared", "rolled_back"}

\* The store tells the category "protocol" apart from every other one.
Categories == {"none", "protocol", "other"}

Epochs == 1 .. MaxEpoch
AttemptNumbers == 1 .. MaxAttempts

JobRows == [state : JobStates, pub : PublicationStates,
            attempt : 0 .. MaxAttempts, cancel : BOOLEAN,
            category : Categories, replacement : Jobs \cup {NoJob}]

AttemptRows == [epoch : 0 .. MaxEpoch, lease : Nat, current : BOOLEAN,
                finished : BOOLEAN, pub : PublicationStates,
                digest : BOOLEAN, consumed : BOOLEAN]

LeaseRows == [job : Jobs \cup {NoJob}, attempt : 0 .. MaxAttempts,
              epoch : 0 .. MaxEpoch, lease : Nat, live : BOOLEAN]

IntentRows == [desired : Generations \cup {NoGeneration}, dirty : BOOLEAN,
               paused : BOOLEAN, queued : Jobs \cup {NoJob},
               running : Jobs \cup {NoJob}]

OwnerRows == [epoch : 0 .. MaxEpoch, active : BOOLEAN, live : BOOLEAN]

AbsentJob == [state |-> "absent", pub |-> "not_started", attempt |-> 0,
              cancel |-> FALSE, category |-> "none", replacement |-> NoJob]

NoAttempt == [epoch |-> 0, lease |-> 0, current |-> FALSE,
              finished |-> FALSE, pub |-> "not_started", digest |-> FALSE,
              consumed |-> FALSE]

NoLease == [job |-> NoJob, attempt |-> 0, epoch |-> 0, lease |-> 0,
            live |-> FALSE]

NoIntent == [desired |-> NoGeneration, dirty |-> FALSE, paused |-> FALSE,
             queued |-> NoJob, running |-> NoJob]

GraphOf(j) == Request[j].graph

Init ==
    /\ owner = [epoch |-> 0, active |-> FALSE, live |-> FALSE]
    /\ stragglers = {}
    /\ jobs = [j \in Jobs |-> AbsentJob]
    /\ attempts = [j \in Jobs |-> [n \in AttemptNumbers |-> NoAttempt]]
    /\ leases = [g \in Graphs |-> NoLease]
    /\ markers = [j \in Jobs |-> [n \in AttemptNumbers |-> "absent"]]
    /\ intents = [g \in Graphs |-> NoIntent]
    /\ xact = 0

-----------------------------------------------------------------------------
(* Ownership: coordinator/_control_ownership.py *)

\* The condition every owner test makes of the singleton row.
OwnerLive(e) == owner.epoch = e /\ owner.active /\ owner.live

\* require_live_owner is a plain SELECT at the start of a READ COMMITTED
\* transaction: the statements after it run although the ownership may have
\* passed on meanwhile.  A live owner's transaction is as good as atomic; an
\* epoch whose ownership expired between its SELECT and its writes is a
\* straggler, for one transaction.
Authorised(e) == OwnerLive(e) \/ e \in stragglers

TransactionOf(e) ==
    /\ Authorised(e)
    /\ stragglers' = stragglers \ {e}

acquire_singleton ==
    /\ ~(owner.active /\ owner.live)
    /\ owner.epoch < MaxEpoch
    /\ owner' = [epoch |-> owner.epoch + 1, active |-> TRUE, live |-> TRUE]
    /\ UNCHANGED <<stragglers, jobs, attempts, leases, markers, intents, xact>>

stop_singleton(e) ==
    /\ owner.epoch = e /\ owner.active
    /\ owner' = [owner EXCEPT !.active = FALSE, !.live = FALSE]
    /\ UNCHANGED <<stragglers, jobs, attempts, leases, markers, intents, xact>>

\* expires_at passes without a heartbeat_singleton; one transaction of the
\* owner may be between its owner check and its writes.
singleton_expires ==
    /\ owner.live
    /\ owner' = [owner EXCEPT !.live = FALSE]
    /\ \E open \in SUBSET {owner.epoch} : stragglers' = stragglers \cup open
    /\ UNCHANGED <<jobs, attempts, leases, markers, intents, xact>>

lease_expires(g) ==
    /\ leases[g].live
    /\ leases' = [leases EXCEPT ![g].live = FALSE]
    /\ UNCHANGED <<owner, stragglers, jobs, attempts, markers, intents, xact>>

\* The lease row is the one that attempt n of job j inserted.
HoldsLease(j, n) ==
    /\ leases[GraphOf(j)].job = j
    /\ leases[GraphOf(j)].attempt = n
    /\ leases[GraphOf(j)].epoch = attempts[j][n].epoch

IsCurrent(j, n) == jobs[j].attempt = n /\ attempts[j][n].current

ClaimIntent(j) ==
    LET g == GraphOf(j) IN
    IF Request[j].automatic /\ intents[g].queued = j
    THEN [intents EXCEPT ![g] = [@ EXCEPT !.queued = NoJob, !.running = j,
                                          !.dirty = FALSE]]
    ELSE intents

ClearRunning(j) ==
    LET g == GraphOf(j) IN
    IF intents[g].running = j
    THEN [intents EXCEPT ![g].running = NoJob]
    ELSE intents

\* Which queued job the ORDER BY picks and when a retry becomes eligible are
\* left open: any job that passes the WHERE clause may be the one.
Claimable(j) ==
    /\ jobs[j].state = "queued"
    /\ jobs[j].attempt < MaxAttempts
    /\ Request[j].automatic => ~intents[GraphOf(j)].paused
    /\ leases[GraphOf(j)] = NoLease

claim_once(e, j) ==
    LET n == jobs[j].attempt + 1
        g == GraphOf(j)
    IN  /\ TransactionOf(e)
        /\ Claimable(j)
        /\ xact' = xact + 1
        /\ jobs' = [jobs EXCEPT ![j] =
              [@ EXCEPT !.state = "claimed", !.attempt = n]]
        /\ attempts' = [attempts EXCEPT ![j][n] =
              [NoAttempt EXCEPT !.epoch = e, !.lease = xact + 1,
                                !.current = TRUE]]
        /\ leases' = [leases EXCEPT ![g] =
              [job |-> j, attempt |-> n, epoch |-> e, lease |-> xact + 1,
               live |-> TRUE]]
        /\ intents' = ClaimIntent(j)
        /\ UNCHANGED <<owner, markers>>

\* Mutant: the publication state alone decides.
ReleasableUnpublished(j) == jobs[j].pub \in SafeUnpublished \cup {"committed"}

ReleasableJob(j) ==
    \/ jobs[j].state = "succeeded" /\ jobs[j].pub = "committed"
    \/ /\ jobs[j].state \in TerminalStates \ {"succeeded"}
       /\ jobs[j].pub \in SafeUnpublished

release_graph_lease(e, j, n) ==
    /\ OwnerLive(e)
    /\ HoldsLease(j, n)
    /\ ReleasableJob(j)
    /\ leases' = [leases EXCEPT ![GraphOf(j)] = NoLease]
    /\ intents' = ClearRunning(j)
    /\ UNCHANGED <<owner, stragglers, jobs, attempts, markers, xact>>

-----------------------------------------------------------------------------
(* Admission: coordinator/_control_submission.py, _control_coalescing.py *)

HasRow(j) == jobs[j].state \notin {"absent", "deleted"}

\* The UNIQUE (requester, job_kind, graph_id, idempotency_digest) constraint.
DuplicateOf(j) == {k \in Jobs : /\ HasRow(k)
                               /\ GraphOf(k) = GraphOf(j)
                               /\ Request[k].key = Request[j].key}

\* The rows the admission counts see; a superseded job has just left them.
Admits(j, superseded) ==
    /\ Cardinality({k \in Jobs \ superseded :
                       jobs[k].state \in NonterminalStates})
          < MaxNonterminalJobs
    /\ Request[j].automatic
       \/ Cardinality({k \in Jobs : /\ GraphOf(k) = GraphOf(j)
                                    /\ ~Request[k].automatic
                                    /\ jobs[k].state = "queued"})
             < MaxQueuedManual

submit(j) ==
    /\ ~Request[j].automatic
    /\ jobs[j].state = "absent"
    /\ DuplicateOf(j) = {}
    /\ Admits(j, {})
    /\ jobs' = [jobs EXCEPT ![j].state = "queued"]
    /\ UNCHANGED <<owner, stragglers, attempts, leases, markers, intents, xact>>

\* The desired state of j's graph is already queued or running.
AlreadyDesired(j) ==
    LET i == intents[GraphOf(j)]
        existing == IF i.queued # NoJob THEN i.queued ELSE i.running
    IN  /\ i.desired = Request[j].generation
        /\ existing # NoJob
        /\ jobs[existing].state \in NonterminalStates

\* The queued automatic job that the new intent replaces.
Superseded(j) == {k \in Jobs : /\ intents[GraphOf(j)].queued = k
                               /\ jobs[k].state = "queued"
                               /\ Request[k].automatic}

coalesce_automatic(j) ==
    LET g == GraphOf(j) IN
    /\ Request[j].automatic
    /\ jobs[j].state = "absent"
    /\ ~intents[g].paused
    /\ ~AlreadyDesired(j)
    /\ Admits(j, Superseded(j))
    /\ DuplicateOf(j) = {}
    /\ jobs' = [k \in Jobs |->
          IF k = j THEN [jobs[j] EXCEPT !.state = "queued"]
          ELSE IF k = intents[g].queued
               THEN [jobs[k] EXCEPT
                        !.state = IF k \in Superseded(j) THEN "superseded"
                                  ELSE @,
                        !.replacement = j]
               ELSE jobs[k]]
    /\ intents' = [intents EXCEPT ![g] =
          [@ EXCEPT !.desired = Request[j].generation, !.dirty = TRUE,
                    !.queued = j]]
    /\ UNCHANGED <<owner, stragglers, attempts, leases, markers, xact>>

-----------------------------------------------------------------------------
(* State changes: coordinator/_control_state.py *)

\* COALESCE(parameter, column), "null" standing for an absent parameter.
CoalesceValue(value, stored) == IF value = "null" THEN stored ELSE value

\* The state changes the coordinator asks for (core._transition and
\* ControlStore.mark_reconciliation_required), as arguments of the CAS.
CoordinatorTransitions ==
    [expected : {"claimed"}, new : {"starting"}, pub : {"null"},
     category : {"none"}]
    \cup
    [expected : {"starting"}, new : {"running"}, pub : {"null"},
     category : {"none"}]
    \cup
    [expected : {"cancel_requested"}, new : {"cancelling"}, pub : {"null"},
     category : {"none"}]
    \cup
    [expected : {"cancelling"}, new : {"cancelled"}, pub : SafeUnpublished,
     category : {"other"}]
    \cup
    [expected : {"running", "cancelling"}, new : {"failed"},
     pub : {"not_started", "rolled_back"}, category : {"other"}]
    \cup
    [expected : {"starting", "running", "cancel_requested"},
     new : {"reconciliation_required"}, pub : {"not_started", "commit_unknown"},
     category : {"protocol", "other"}]

TransitionedJob(row, t) ==
    [row EXCEPT !.state = t.new, !.pub = CoalesceValue(t.pub, @),
                !.category = t.category]

\* A terminal state closes the attempt in the same transaction.
TransitionedAttempt(row, t) ==
    [row EXCEPT !.pub = CoalesceValue(t.pub, @),
                !.current = @ /\ t.new \notin TerminalStates,
                !.finished = @ \/ t.new \in TerminalStates]

\* Mutant: no test of the singleton.
UnfencedCompareAndSet(j, n, t) ==
    /\ jobs[j].state = t.expected
    /\ IsCurrent(j, n)
    /\ jobs' = [jobs EXCEPT ![j] = TransitionedJob(@, t)]
    /\ attempts' = [attempts EXCEPT ![j][n] = TransitionedAttempt(@, t)]
    /\ UNCHANGED <<owner, stragglers, leases, markers, intents, xact>>

compare_and_set_state(j, n, t) ==
    /\ jobs[j].state = t.expected
    /\ IsCurrent(j, n)
    /\ OwnerLive(attempts[j][n].epoch)
    /\ jobs' = [jobs EXCEPT ![j] = TransitionedJob(@, t)]
    /\ attempts' = [attempts EXCEPT ![j][n] = TransitionedAttempt(@, t)]
    /\ UNCHANGED <<owner, stragglers, leases, markers, intents, xact>>

heartbeat_attempt(j, n) ==
    /\ TransactionOf(attempts[j][n].epoch)
    /\ HoldsLease(j, n)
    /\ leases' = [leases EXCEPT ![GraphOf(j)].live = TRUE]
    /\ UNCHANGED <<owner, jobs, attempts, markers, intents, xact>>

\* A job that no worker has seen is cancelled at once.
CancelledJob(row) ==
    [row EXCEPT !.state = IF @ = "queued" THEN "cancelled"
                          ELSE "cancel_requested",
                !.cancel = TRUE]

\* Mutant: a terminal job is cancelled, too.
CancelAnyJob(j) ==
    /\ jobs[j].state \in {"queued", "claimed", "starting", "running"}
                            \cup TerminalStates
    /\ jobs' = [jobs EXCEPT ![j] = CancelledJob(@)]
    /\ UNCHANGED <<owner, stragglers, attempts, leases, markers, intents, xact>>

\* Issued for a client, without any test of the singleton.
request_cancellation(j) ==
    /\ jobs[j].state \in {"queued", "claimed", "starting", "running"}
    /\ jobs' = [jobs EXCEPT ![j] = CancelledJob(@)]
    /\ UNCHANGED <<owner, stragglers, attempts, leases, markers, intents, xact>>

mark_attempt_terminated(e, j, n) ==
    /\ TransactionOf(e)
    /\ jobs[j].state = "reconciliation_required"
    /\ IsCurrent(j, n)
    /\ attempts' = [attempts EXCEPT ![j][n].finished = TRUE]
    /\ UNCHANGED <<owner, jobs, leases, markers, intents, xact>>

schedule_retry(j, n) ==
    /\ TransactionOf(attempts[j][n].epoch)
    /\ jobs[j].state = "running"
    /\ IsCurrent(j, n)
    /\ jobs[j].pub \in SafeUnpublished
    /\ n < MaxAttempts
    /\ jobs' = [jobs EXCEPT ![j] =
          [@ EXCEPT !.state = "queued", !.pub = "not_started",
                    !.category = "other"]]
    /\ attempts' = [attempts EXCEPT ![j][n] =
          [@ EXCEPT !.current = FALSE, !.finished = TRUE]]
    /\ leases' = IF HoldsLease(j, n)
                 THEN [leases EXCEPT ![GraphOf(j)] = NoLease]
                 ELSE leases
    /\ UNCHANGED <<owner, markers, intents, xact>>

-----------------------------------------------------------------------------
(* Reconciliation: coordinator/_control_reconciliation.py *)

\* record_publication_marker: the first marker of an attempt stays.
record_publication_marker(j, n, outcome) ==
    /\ attempts[j][n].epoch # 0
    /\ markers[j][n] = "absent"
    /\ markers' = [markers EXCEPT ![j][n] = outcome]
    /\ UNCHANGED <<owner, stragglers, jobs, attempts, leases, intents, xact>>

ProvedRollback(j, n) ==
    LET both == {jobs[j].pub, attempts[j][n].pub} IN
    both \subseteq {"not_started", "rolled_back"} /\ "rolled_back" \in both

\* Mutant: an absent marker is taken for an unpublished attempt.
VerdictOnAbsentMarker(j, n, unpublishedProved) ==
    IF ~attempts[j][n].finished THEN "reconciliation_required"
    ELSE IF markers[j][n] = "committed" THEN "succeeded"
    ELSE IF markers[j][n] = "conflicting" \/ jobs[j].category = "protocol"
         THEN "quarantined"
    ELSE IF jobs[j].cancel THEN "cancelled"
    ELSE IF n >= MaxAttempts THEN "failed" ELSE "queued"

\* What reconcile_publication decides of the locked rows; its tests in order.
Verdict(j, n, unpublishedProved) ==
    LET both == {jobs[j].pub, attempts[j][n].pub} IN
    IF ~attempts[j][n].finished THEN "reconciliation_required"
    ELSE IF markers[j][n] = "committed" THEN "succeeded"
    ELSE IF markers[j][n] = "conflicting" \/ jobs[j].category = "protocol"
         THEN "quarantined"
    ELSE IF unpublishedProved /\ both # {"not_started"}
         THEN "reconciliation_required"
    ELSE IF "commit_unknown" \in both THEN "reconciliation_required"
    ELSE IF jobs[j].cancel
         THEN IF unpublishedProved \/ ProvedRollback(j, n)
              THEN "cancelled" ELSE "reconciliation_required"
    ELSE IF n >= MaxAttempts THEN "failed" ELSE "queued"

ClosedJobPublication(j, verdict) ==
    CASE verdict = "succeeded" -> "committed"
      [] verdict = "quarantined" -> jobs[j].pub
      [] verdict = "queued" -> "not_started"
      [] OTHER -> "rolled_back"

ClosedAttemptPublication(j, verdict) ==
    IF verdict = "queued" /\ jobs[j].pub # "not_started" THEN "rolled_back"
    ELSE ClosedJobPublication(j, verdict)

ClosedCategory(j, n, verdict) ==
    CASE verdict = "succeeded" -> "none"
      [] verdict = "quarantined" /\ markers[j][n] # "conflicting" -> "protocol"
      [] OTHER -> "other"

\* _pause_graph_intent followed by the running_job_id update of _delete_lease.
PausedIntent(j) ==
    LET g == GraphOf(j)
        i == intents[g]
    IN  [intents EXCEPT ![g] =
            [desired |-> IF i.desired = NoGeneration
                         THEN Request[j].generation ELSE i.desired,
             dirty |-> TRUE, paused |-> TRUE, queued |-> NoJob,
             running |-> IF i.running = j THEN NoJob ELSE i.running]]

reconcile_publication(e, j, n, unpublishedProved) ==
    LET verdict == Verdict(j, n, unpublishedProved) IN
    /\ TransactionOf(e)
    /\ jobs[j].state = "reconciliation_required"
    /\ IsCurrent(j, n)
    /\ verdict # "reconciliation_required"
    /\ HoldsLease(j, n)
    /\ jobs' = [jobs EXCEPT ![j] =
          [@ EXCEPT !.state = verdict, !.pub = ClosedJobPublication(j, verdict),
                    !.category = ClosedCategory(j, n, verdict)]]
    /\ attempts' = [attempts EXCEPT ![j][n] =
          [@ EXCEPT !.current = FALSE, !.digest = FALSE,
                    !.pub = ClosedAttemptPublication(j, verdict)]]
    /\ leases' = [leases EXCEPT ![GraphOf(j)] = NoLease]
    /\ intents' = IF verdict = "quarantined" THEN PausedIntent(j)
                  ELSE ClearRunning(j)
    /\ UNCHANGED <<owner, markers, xact>>

-----------------------------------------------------------------------------
(* Restart: coordinator/_control_startup.py, _supervisor_registration.py,   *)
(* _restart_fencing.py.  These lock the singleton row, so the owner test    *)
(* holds until they commit.                                                 *)

Abandoned(e) == {j \in Jobs : /\ jobs[j].state \in AbandonedStates
                             /\ IsCurrent(j, jobs[j].attempt)
                             /\ attempts[j][jobs[j].attempt].epoch # e}

recover_abandoned_attempts(e) ==
    /\ OwnerLive(e)
    /\ jobs' = [j \in Jobs |->
          IF j \in Abandoned(e)
          THEN [jobs[j] EXCEPT !.state = "reconciliation_required",
                               !.pub = "commit_unknown", !.category = "other"]
          ELSE jobs[j]]
    /\ attempts' = [j \in Jobs |-> [n \in AttemptNumbers |->
          IF j \in Abandoned(e) /\ n = jobs[j].attempt
          THEN [attempts[j][n] EXCEPT !.finished = TRUE, !.digest = FALSE,
                                      !.consumed = TRUE,
                                      !.pub = "commit_unknown"]
          ELSE attempts[j][n]]]
    /\ UNCHANGED <<owner, stragglers, leases, markers, intents, xact>>

\* lock_and_validate_current_durable(restart=False): the claiming coordinator
\* still owns the singleton, the attempt and an unexpired lease.
InProcessCurrency(j, n) ==
    /\ OwnerLive(attempts[j][n].epoch)
    /\ IsCurrent(j, n)
    /\ jobs[j].state \in AbandonedStates \ {"claimed"}
    /\ HoldsLease(j, n)
    /\ leases[GraphOf(j)].live

\* lock_and_validate_current_durable(restart=True): a later coordinator owns
\* the singleton and the lease of the uncertain attempt has expired.
RestartCurrency(e, j, n) ==
    /\ OwnerLive(e)
    /\ IsCurrent(j, n)
    /\ jobs[j].state = "reconciliation_required"
    /\ e > attempts[j][n].epoch
    /\ HoldsLease(j, n)
    /\ ~leases[GraphOf(j)].live

persist_supervisor_registration(j, n) ==
    /\ InProcessCurrency(j, n)
    /\ ~attempts[j][n].digest
    /\ ~attempts[j][n].consumed
    /\ attempts' = [attempts EXCEPT ![j][n].digest = TRUE]
    /\ UNCHANGED <<owner, stragglers, jobs, leases, markers, intents, xact>>

\* in_process_currency_context: the registration is spent by the decision it
\* authorises, whatever that decision turns out to be.
consume_supervisor_registration(j, n) ==
    /\ InProcessCurrency(j, n)
    /\ attempts[j][n].digest
    /\ ~attempts[j][n].consumed
    /\ attempts' = [attempts EXCEPT ![j][n].consumed = TRUE]
    /\ UNCHANGED <<owner, stragglers, jobs, leases, markers, intents, xact>>

\* execute_durable_closure, committed after the graph fence and the gate file
\* closed the attempt.
execute_durable_closure(e, j, n) ==
    /\ RestartCurrency(e, j, n)
    /\ jobs' = [jobs EXCEPT ![j].pub = "not_started"]
    /\ attempts' = [attempts EXCEPT ![j][n] =
          [@ EXCEPT !.pub = "not_started", !.digest = FALSE]]
    /\ UNCHANGED <<owner, stragglers, leases, markers, intents, xact>>

-----------------------------------------------------------------------------
(* Retention: coordinator/_control_maintenance.py *)

\* Mutant: a job that replaced another one is removed.
CandidatesWithoutReferences ==
    {j \in Jobs : /\ jobs[j].state \in TerminalStates
                  /\ jobs[j].pub # "commit_unknown"
                  /\ \A g \in Graphs : leases[g].job # j}

CleanupCandidates ==
    {j \in Jobs : /\ jobs[j].state \in TerminalStates
                  /\ jobs[j].pub # "commit_unknown"
                  /\ \A g \in Graphs : leases[g].job # j
                  /\ \A k \in Jobs : jobs[k].replacement # j}

\* The foreign keys of coalescing_state refuse the whole DELETE.
ReferredByIntent == {intents[g].queued : g \in Graphs}
                        \cup {intents[g].running : g \in Graphs}

\* D: the candidates old enough; one of them referred to aborts them all.
cleanup_terminal(D) ==
    /\ D # {}
    /\ D \cap ReferredByIntent = {}
    /\ jobs' = [j \in Jobs |->
          IF j \in D THEN [AbsentJob EXCEPT !.state = "deleted"] ELSE jobs[j]]
    /\ attempts' = [j \in Jobs |->
          IF j \in D THEN [n \in AttemptNumbers |-> NoAttempt] ELSE attempts[j]]
    /\ markers' = [j \in Jobs |->
          IF j \in D THEN [n \in AttemptNumbers |-> "absent"] ELSE markers[j]]
    /\ UNCHANGED <<owner, stragglers, leases, intents, xact>>

-----------------------------------------------------------------------------
(* The store under every caller: any coordinator that ever owned the        *)
(* singleton, any claim it ever obtained, any client.                       *)

OwnerNext == \/ acquire_singleton
             \/ singleton_expires
             \/ \E e \in Epochs : stop_singleton(e)
             \/ \E g \in Graphs : lease_expires(g)

ClientNext == \E j \in Jobs : \/ submit(j)
                              \/ coalesce_automatic(j)
                              \/ request_cancellation(j)

AttemptNext(j, n) ==
    \/ \E t \in CoordinatorTransitions : compare_and_set_state(j, n, t)
    \/ heartbeat_attempt(j, n)
    \/ schedule_retry(j, n)
    \/ persist_supervisor_registration(j, n)
    \/ consume_supervisor_registration(j, n)
    \/ \E outcome \in {"committed", "conflicting"} :
          record_publication_marker(j, n, outcome)

ReconcilerNext(e, j, n) ==
    \/ mark_attempt_terminated(e, j, n)
    \/ \E proved \in BOOLEAN : reconcile_publication(e, j, n, proved)
    \/ execute_durable_closure(e, j, n)
    \/ release_graph_lease(e, j, n)

Next ==
    \/ OwnerNext
    \/ ClientNext
    \/ \E e \in Epochs, j \in Jobs : claim_once(e, j)
    \/ \E j \in Jobs, n \in AttemptNumbers : AttemptNext(j, n)
    \/ \E e \in Epochs, j \in Jobs, n \in AttemptNumbers :
          ReconcilerNext(e, j, n)
    \/ \E e \in Epochs : recover_abandoned_attempts(e)
    \/ \E D \in SUBSET CleanupCandidates : cleanup_terminal(D)

Spec == Init /\ [][Next]_storeVars

-----------------------------------------------------------------------------
(* Properties *)

\* Every row of every table has the columns and the column values that the
\* control schema (coordinator-rdbms/2026/07/13-001) gives it.
TypeOK ==
    /\ owner \in OwnerRows
    /\ stragglers \subseteq 0 .. MaxEpoch
    /\ jobs \in [Jobs -> JobRows]
    /\ attempts \in [Jobs -> [AttemptNumbers -> AttemptRows]]
    /\ leases \in [Graphs -> LeaseRows]
    /\ markers \in [Jobs -> [AttemptNumbers ->
                               {"absent", "committed", "conflicting"}]]
    /\ intents \in [Graphs -> IntentRows]
    /\ xact \in Nat

\* Every job between its claim and its final disposition has a current
\* attempt, and that attempt still holds the lease of the job's graph,
\* whatever stale coordinators, stragglers and clients did in between.
ActiveJobHoldsLease ==
    \A j \in Jobs : jobs[j].state \in ActiveStates =>
        /\ jobs[j].attempt \in AttemptNumbers
        /\ attempts[j][jobs[j].attempt].current
        /\ HoldsLease(j, jobs[j].attempt)

\* Contract I1: at most one attempt is active on a graph.
OneActiveJobPerGraph ==
    \A j, k \in Jobs :
        /\ jobs[j].state \in ActiveStates
        /\ jobs[k].state \in ActiveStates
        /\ GraphOf(j) = GraphOf(k)
        => j = k

\* Only the latest attempt of a job that is still active is current: a late
\* compare-and-set of an older attempt finds nothing to change.
CurrentAttemptIsLatest ==
    \A j \in Jobs, n \in AttemptNumbers : attempts[j][n].current =>
        n = jobs[j].attempt /\ jobs[j].state \in ActiveStates

\* A lease row belongs to the latest attempt of a job of its graph which is
\* active or has just become terminal.
LeaseNamesItsJob ==
    \A g \in Graphs : leases[g] # NoLease =>
        /\ leases[g].job \in Jobs
        /\ GraphOf(leases[g].job) = g
        /\ leases[g].attempt \in AttemptNumbers
        /\ leases[g].attempt = jobs[leases[g].job].attempt
        /\ leases[g].epoch =
              attempts[leases[g].job][leases[g].attempt].epoch
        /\ jobs[leases[g].job].state \in ActiveStates \cup TerminalStates

\* The state and the publication state of a job never contradict each other
\* in the ways the CHECK constraints of the jobs table forbid, so no
\* transaction is refused by them: success has a matching marker, a safe
\* disposition is safely unpublished, a queued job starts afresh, and an
\* uncertain publication is only ever under reconciliation or quarantined.
StateAgreesWithPublication ==
    \A j \in Jobs :
        /\ jobs[j].state = "succeeded" =>
              /\ jobs[j].pub = "committed"
              /\ jobs[j].attempt \in AttemptNumbers
              /\ markers[j][jobs[j].attempt] = "committed"
        /\ jobs[j].state \in {"failed", "cancelled", "superseded"} =>
              jobs[j].pub \in SafeUnpublished
        /\ jobs[j].state \in {"absent", "queued"} =>
              jobs[j].pub = "not_started"
        /\ jobs[j].pub = "commit_unknown" =>
              jobs[j].state \in {"reconciliation_required", "quarantined"}

\* Contract I28, "linked" records: the job that replaced a superseded one is
\* never removed before it, whatever became of it and in whatever order the
\* two grow old enough for cleanup.
ReplacementIsRetained ==
    \A j \in Jobs : jobs[j].state = "superseded" =>
        /\ jobs[j].replacement \in Jobs \ {j}
        /\ HasRow(jobs[j].replacement)
        /\ GraphOf(jobs[j].replacement) = GraphOf(j)

\* Contract I4 at the store: an uncertain publication stops being uncertain
\* only by a marker that proves it committed, or by the durable closure of a
\* later coordinator after the lease of the attempt expired; every other
\* transaction leaves it uncertain.
UncertaintyNeedsEvidence ==
    [][\A j \in Jobs :
          LET n == jobs[j].attempt IN
          jobs[j].pub = "commit_unknown" /\ jobs'[j].pub # "commit_unknown" =>
              \/ markers[j][n] = "committed" /\ jobs'[j].state = "succeeded"
              \/ /\ jobs'[j].state = "reconciliation_required"
                 /\ owner.epoch > attempts[j][n].epoch
                 /\ ~leases[GraphOf(j)].live]_storeVars

\* A coordinator that lost the singleton cannot move its job on: once the
\* ownership has passed and its last open transaction is over, its claimed
\* job can only be cancelled by a client or taken over by recovery.
StaleOwnerCannotAdvance ==
    [][\A j \in Jobs :
          LET n == jobs[j].attempt IN
          /\ jobs[j].state \in AbandonedStates
          /\ ~Authorised(attempts[j][n].epoch)
          => jobs'[j].state \in {jobs[j].state, "cancel_requested",
                                 "reconciliation_required"}]_storeVars

\* A disposition is final: a terminal job changes no more, up to the removal
\* of its row, and its attempts stay closed.
DispositionIsFinal ==
    [][\A j \in Jobs : jobs[j].state \in TerminalStates =>
          /\ jobs'[j].state \in {jobs[j].state, "deleted"}
          /\ \A n \in AttemptNumbers : ~attempts'[j][n].current]_storeVars

-----------------------------------------------------------------------------
(* What the proofs rest on *)

\* The inductive invariant.  No part is inductive alone: a claim keeps the
\* lease of an active job because a lease row means an active or terminal
\* job, which needs the release and the retry to find the lease they delete
\* in the name of their own attempt, which needs the attempt to be current.
StoreInv ==
    /\ TypeOK
    /\ ActiveJobHoldsLease
    /\ CurrentAttemptIsLatest
    /\ LeaseNamesItsJob
    /\ StateAgreesWithPublication
=============================================================================
