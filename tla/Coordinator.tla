----------------------------- MODULE Coordinator -----------------------------
(***************************************************************************)
(* The coordinator at work on one graph: coordinator processes with their  *)
(* claim threads (coordinator/core.py, _core_disposition.py,               *)
(* refresh_adapter.py) and their recovery passes (startup_recovery.py),    *)
(* over the transactions of ControlStore and the workers, gate files and   *)
(* database of GraphPublication.  A thread makes one transaction, file     *)
(* operation or launch per step, so processes may die, lose the singleton  *)
(* or be overtaken by a successor between any two of them.                 *)
(***************************************************************************)
EXTENDS ControlStore

CONSTANTS
    Disturbances, \* the environments: sets of failures that occur together
    NoClaim,      \* no attempt
    Faults        \* the misreports of GraphPublication

ASSUME OneGraphAssumption == Cardinality(Graphs) = 1

ASSUME JobsAssumption == IsFiniteSet(Jobs) /\ NoClaim \notin Jobs \X AttemptNumbers

ASSUME MisreportsAssumption == Faults \subseteq {"readback", "post_commit"}

ASSUME DisturbancesAssumption ==
    \A D \in Disturbances :
        D \subseteq {"crash", "singleton_expiry", "lease_expiry",
                    "control_error", "cancel", "unproved"}

VARIABLES
    proc,     \* each epoch's coordinator process
    thread,   \* the claim thread of each attempt: its step and what it saw
    recovery, \* each process's recovery pass
    disturbances, \* the failures of the environment, drawn at the start
    initial, decision, worker, backend, run, authority

fileVars == <<initial, decision, worker, backend, run, authority>>
coreVars == <<proc, thread, recovery>>
vars == <<storeVars, fileVars, coreVars, disturbances>>

Claims == Jobs \X AttemptNumbers

EpochOf(c) == attempts[c[1]][c[2]].epoch

\* The control store's verdict on an attempt, as GraphPublication knows it.
Outcome(c) ==
    LET j == c[1]
        a == attempts[j][c[2]]
    IN  IF a.epoch = 0 THEN "open"
        ELSE CASE ~a.current /\ a.pub = "committed" -> "published"
               [] ~a.current /\ a.pub \in SafeUnpublished -> "unpublished"
               [] /\ a.current /\ jobs[j].state = "reconciliation_required"
                  /\ a.pub = "not_started" /\ jobs[j].pub = "not_started"
                     -> "unpublished"
               [] OTHER -> "open"

\* What GraphPublication sees of the control store: as many lease numbers as
\* there can be claims, the epochs of every attempt and the verdict on it.
LeaseNumbers == 1 .. Cardinality(Claims)
ClaimTable == [c \in Claims |-> [epoch |-> EpochOf(c),
                                lease |-> attempts[c[1]][c[2]].lease]]
OutcomeTable == [c \in Claims |-> Outcome(c)]

Publication == INSTANCE GraphPublication WITH
    FencingEpochs <- Epochs, Leases <- LeaseNumbers,
    claim <- ClaimTable, outcome <- OutcomeTable

-----------------------------------------------------------------------------
(* Processes and threads *)

ProcessStates == {"none", "starting", "recovering", "serving", "dead"}

\* The steps of a claim thread, named for what comes next; those in Disposing
\* are taken under the lock of the process.
Disposing == {"record", "mark", "terminate", "reread", "reconcile", "settle",
              "cancelling", "cancel", "release", "retire"}

ThreadSteps == {"none", "start", "begin", "prestart", "prestart_cancel",
                "uncertain_start", "resolve", "register", "launch",
                "supervise", "reap", "raised", "dispose", "done"}
                   \cup Disposing

\* What the runner hands to _dispose_terminal; before that, the state that a
\* thread failed to leave.
Terminals == {"none", "claimed", "starting", "succeeded", "failed",
              "cancelled", "unknown", "unproved", "succeeded_unproved"}

RecoverySteps == {"idle", "next", "read", "close", "fenced", "filed",
                  "unproved", "proved", "retire"}

NoThread == [at |-> "none", saw |-> "none", cancel |-> FALSE]
NoRecovery == [at |-> "idle", claim |-> NoClaim, todo |-> {}, pending |-> FALSE]

CoordinatorInit ==
    /\ Init
    /\ disturbances \in Disturbances
    /\ proc = [e \in Epochs |-> "none"]
    /\ thread = [c \in Claims |-> NoThread]
    /\ recovery = [e \in Epochs |-> NoRecovery]
    /\ initial = [c \in Claims |-> FALSE]
    /\ decision = [c \in Claims |-> "none"]
    /\ worker = [c \in Claims |-> "none"]
    /\ backend = [c \in Claims |-> "none"]
    /\ run = [c \in Claims |-> "none"]
    /\ authority = [epoch |-> 0, lease |-> 0, claim |-> NoClaim,
                    last |-> "none"]

Goto(c, step) == thread' = [thread EXCEPT ![c].at = step]

GotoSeeing(c, step, saw) ==
    thread' = [thread EXCEPT ![c] = [@ EXCEPT !.at = step, !.saw = saw]]

\* The thread of c is at the step and its process is up.
At(c, step) == thread[c].at = step /\ proc[EpochOf(c)] = "serving"

\* Mutant: a write without a comparison.
ChangesBlindly(c, expected, new, pub, category) ==
    LET t == [expected |-> expected, new |-> new, pub |-> pub,
              category |-> category]
    IN  /\ jobs' = [jobs EXCEPT ![c[1]] = TransitionedJob(@, t)]
        /\ attempts' = [attempts EXCEPT ![c[1]][c[2]] =
              TransitionedAttempt(@, t)]
        /\ UNCHANGED <<owner, stragglers, leases, markers, intents, xact>>

\* compare_and_set_state returns True.
Changes(c, expected, new, pub, category) ==
    compare_and_set_state(c[1], c[2],
        [expected |-> expected, new |-> new, pub |-> pub,
         category |-> category])

\* compare_and_set_state returns False.
Refused(c, expected) ==
    /\ ~(/\ jobs[c[1]].state = expected
         /\ IsCurrent(c[1], c[2])
         /\ OwnerLive(EpochOf(c)))
    /\ UNCHANGED storeVars

\* compare_and_set_state with the step that follows either answer.
Transition(c, expected, new, pub, category, yes, no) ==
    \/ Changes(c, expected, new, pub, category) /\ Goto(c, yes)
    \/ Refused(c, expected) /\ Goto(c, no)

\* The restart closure holds the rows of the singleton, the job, the attempt
\* and the lease from its currency test to its commit.
Closing == \E e \in Epochs : recovery[e].at \in {"fenced", "filed"}

-----------------------------------------------------------------------------
(* Start, stop and death of a process *)

startup ==
    /\ ~Closing
    /\ acquire_singleton
    /\ proc' = [proc EXCEPT ![owner.epoch + 1] = "starting"]
    /\ UNCHANGED <<fileVars, thread, recovery>>

recover_abandoned(e) ==
    /\ proc[e] = "starting"
    /\ \/ /\ recover_abandoned_attempts(e)
          /\ proc' = [proc EXCEPT ![e] = "recovering"]
       \/ /\ ~OwnerLive(e)
          /\ IF owner.epoch = e /\ owner.active
             THEN stop_singleton(e) ELSE UNCHANGED storeVars
          /\ proc' = [proc EXCEPT ![e] = "dead"]
    /\ UNCHANGED <<fileVars, thread, recovery>>

\* shutdown waits for the threads.
shutdown(e) ==
    /\ proc[e] = "serving"
    /\ \A c \in Claims : EpochOf(c) = e => thread[c].at = "done"
    /\ recovery[e].at = "idle"
    /\ "crash" \in disturbances
    /\ IF owner.epoch = e /\ owner.active
       THEN stop_singleton(e) ELSE UNCHANGED storeVars
    /\ proc' = [proc EXCEPT ![e] = "dead"]
    /\ UNCHANGED <<fileVars, thread, recovery>>

\* Its threads end with it, its workers do not.
crash(e) ==
    /\ "crash" \in disturbances
    /\ proc[e] \in {"starting", "recovering", "serving"}
    /\ proc' = [proc EXCEPT ![e] = "dead"]
    /\ thread' = [c \in Claims |->
          IF EpochOf(c) = e THEN [NoThread EXCEPT !.at = "done"]
          ELSE thread[c]]
    /\ recovery' = [recovery EXCEPT ![e] = NoRecovery]
    /\ UNCHANGED <<storeVars, fileVars>>

\* A dead process renews nothing; one that is up may be too slow for its
\* heartbeat, and graph leases are never renewed.  A process that died has no
\* transaction open.  Nobody can tell an expiry during a closure from one
\* after it.
expiry ==
    /\ ~Closing
    /\ \/ /\ owner.live
          /\ "singleton_expiry" \in disturbances \/ proc[owner.epoch] = "dead"
          /\ singleton_expires
          /\ proc[owner.epoch] = "dead" => stragglers' = stragglers
       \/ \E g \in Graphs :
             /\ leases[g].live
             /\ "lease_expiry" \in disturbances \/ proc[leases[g].epoch] = "dead"
             /\ lease_expires(g)
    /\ UNCHANGED <<fileVars, coreVars>>

-----------------------------------------------------------------------------
(* Clients *)

client_submit(j) ==
    /\ \E e \in Epochs : proc[e] = "serving"
    /\ submit(j)
    /\ UNCHANGED <<fileVars, coreVars>>

\* request_cancel takes the lock that a disposition holds.
request_cancel(j) ==
    /\ "cancel" \in disturbances
    /\ \E e \in Epochs :
          /\ proc[e] = "serving"
          /\ \A c \in Claims : EpochOf(c) = e => thread[c].at \notin Disposing
    /\ request_cancellation(j)
    /\ UNCHANGED <<fileVars, coreVars>>

-----------------------------------------------------------------------------
(* A claim thread up to the worker: core.run_once, refresh_adapter *)

run_once(e) ==
    /\ proc[e] = "serving"
    /\ \E j \in Jobs :
          /\ claim_once(e, j)
          /\ thread' = [thread EXCEPT ![<<j, jobs[j].attempt + 1>>] =
                           [NoThread EXCEPT !.at = "start"]]
    /\ UNCHANGED <<fileVars, proc, recovery>>

start(c) ==
    /\ At(c, "start")
    /\ \/ /\ Changes(c, "claimed", "starting", "null", "none")
          /\ Goto(c, "begin")
          /\ UNCHANGED fileVars
       \/ /\ Refused(c, "claimed")
          /\ GotoSeeing(c, "prestart", "claimed")
          /\ Publication!never_launched(c)
    /\ UNCHANGED <<proc, recovery>>

begin(c) ==
    /\ At(c, "begin")
    /\ \/ /\ Changes(c, "starting", "running", "null", "none")
          /\ Goto(c, "resolve")
          /\ UNCHANGED fileVars
       \/ /\ Refused(c, "starting")
          /\ GotoSeeing(c, "prestart", "starting")
          /\ Publication!never_launched(c)
    /\ UNCHANGED <<proc, recovery>>

\* Where _finish_prestart_cancel returns "ownership_lost".
OwnershipLost(c) == IF thread[c].saw = "starting" THEN "uncertain_start"
                    ELSE "done"

\* Mutant: a job cancelled before its start is left as it is.
ForgetPrestartCancel(c) ==
    /\ At(c, "prestart")
    /\ Goto(c, "done")
    /\ UNCHANGED <<storeVars, fileVars, proc, recovery>>

finish_prestart_cancel(c) ==
    /\ \/ /\ At(c, "prestart")
          /\ Transition(c, "cancel_requested", "cancelling", "null", "none",
                        "prestart_cancel", OwnershipLost(c))
       \/ /\ At(c, "prestart_cancel")
          /\ Transition(c, "cancelling", "cancelled", "not_started", "other",
                        "release", OwnershipLost(c))
    /\ UNCHANGED <<fileVars, proc, recovery>>

uncertain_start(c) ==
    /\ At(c, "uncertain_start")
    /\ Transition(c, "starting", "reconciliation_required", "commit_unknown",
                  "other", "done", "done")
    /\ UNCHANGED <<fileVars, proc, recovery>>

\* The configuration is read again; without a worker the runner answers
\* "failed" (generation changed) or raises.
resolve(c) ==
    /\ At(c, "resolve")
    /\ UNCHANGED storeVars
    /\ \/ Publication!initialize(c) /\ Goto(c, "register")
       \/ /\ Publication!never_launched(c)
          /\ \/ GotoSeeing(c, "dispose", "failed")
             \/ Goto(c, "raised")
    /\ UNCHANGED <<proc, recovery>>

register_supervisor_launch(c) ==
    /\ At(c, "register")
    /\ \/ /\ persist_supervisor_registration(c[1], c[2])
          /\ UNCHANGED fileVars
          /\ Goto(c, "launch")
       \/ /\ ~InProcessCurrency(c[1], c[2]) \/ "control_error" \in disturbances
          /\ UNCHANGED storeVars
          /\ Publication!never_launched(c)
          /\ Goto(c, "raised")
    /\ UNCHANGED <<proc, recovery>>

launch_worker(c) ==
    /\ At(c, "launch")
    /\ UNCHANGED storeVars
    /\ \/ Publication!launch(c) /\ Goto(c, "supervise")
       \/ Publication!never_launched(c) /\ GotoSeeing(c, "dispose", "failed")
    /\ UNCHANGED <<proc, recovery>>

\* The supervisor waits for the end of the process group, or gives up on it.
supervise(c) ==
    /\ At(c, "supervise")
    /\ \/ worker[c] \in Publication!Ended /\ Goto(c, "reap")
       \/ /\ "unproved" \in disturbances
          /\ GotoSeeing(c, "dispose", IF worker[c] = "said_committed"
                                      THEN "succeeded_unproved" ELSE "unproved")
    /\ UNCHANGED <<storeVars, fileVars, proc, recovery>>

\* Mutant: a worker without a message is taken to have published nothing.
TerminalIgnoringGate(c, decided, abnormal) ==
    IF worker[c] = "said_committed" THEN "succeeded" ELSE "failed"

\* The worker's message, corrected by the gate file.  A worker that sent none
\* or overran a deadline ended abnormally.
TerminalOf(c, decided, abnormal) ==
    LET cancelled == \/ worker[c] = "said_cancelled"
                     \/ abnormal /\ jobs[c[1]].cancel
    IN  CASE (abnormal \/ cancelled) /\ decided # "not_started" -> "unknown"
          [] cancelled /\ decided = "not_started" -> "cancelled"
          [] worker[c] = "said_committed" /\ ~abnormal -> "succeeded"
          [] worker[c] = "said_unknown" /\ decided # "not_started" -> "unknown"
          [] OTHER -> "failed"

\* The registration is spent on closing the gate; an attempt whose currency
\* is gone is left to the evidence there is; an error of the control database
\* ends the runner.
reap(c) ==
    /\ At(c, "reap")
    /\ \/ \E abnormal \in BOOLEAN :
             /\ worker[c] = "killed" => abnormal
             /\ \/ /\ consume_supervisor_registration(c[1], c[2])
                   /\ Publication!close_unpublished(c)
                \/ /\ ~InProcessCurrency(c[1], c[2])
                   /\ UNCHANGED <<storeVars, fileVars>>
             /\ GotoSeeing(c, "dispose",
                           TerminalOf(c, decision'[c], abnormal))
       \/ /\ "control_error" \in disturbances
          /\ UNCHANGED <<storeVars, fileVars>>
          /\ Goto(c, "raised")
    /\ UNCHANGED <<proc, recovery>>

-----------------------------------------------------------------------------
(* Disposition: coordinator/_core_disposition.py *)

LockFree(e) == \A c \in Claims : EpochOf(c) = e => thread[c].at \notin Disposing

\* _active_expected_state.
Expected(c) == IF thread[c].cancel THEN "cancel_requested" ELSE "running"

\* The branch of _dispose_terminal, and the status read before it.
dispose_terminal(c) ==
    LET saw == thread[c].saw
        cancel == jobs[c[1]].cancel
    IN  /\ At(c, "dispose")
        /\ LockFree(EpochOf(c))
        /\ thread' = [thread EXCEPT ![c] =
              [saw |-> saw, cancel |-> cancel,
               at |-> CASE saw \in {"succeeded", "succeeded_unproved"} -> "record"
                        [] saw \in {"unknown", "unproved"} -> "mark"
                        [] saw = "failed" /\ ~cancel -> "settle"
                        [] saw = "cancelled" /\ ~cancel -> "mark"
                        [] OTHER -> "cancelling"]]
        /\ UNCHANGED <<storeVars, fileVars, proc, recovery>>

\* record_publication_marker, which leaves an existing marker alone.
MarkerRecorded(c) ==
    \/ record_publication_marker(c[1], c[2], "committed")
    \/ markers[c[1]][c[2]] # "absent" /\ UNCHANGED storeVars

record_marker_if_available(c) ==
    /\ At(c, "record")
    /\ MarkerRecorded(c)
    /\ Goto(c, "mark")
    /\ UNCHANGED <<fileVars, proc, recovery>>

\* The supervisor's category is "protocol" when the worker broke it.
mark_reconciliation_required(c) ==
    /\ At(c, "mark")
    /\ \E category \in {"other", "protocol"} :
          /\ category = "protocol" => thread[c].saw = "unknown"
          /\ Transition(c, Expected(c), "reconciliation_required",
                IF thread[c].saw = "cancelled" THEN "not_started"
                ELSE "commit_unknown", category,
                CASE thread[c].saw = "unproved" -> "done"
                  [] thread[c].saw = "succeeded_unproved" -> "reread"
                  [] OTHER -> "terminate",
                "done")
    /\ UNCHANGED <<fileVars, proc, recovery>>

terminate(c) ==
    /\ At(c, "terminate")
    /\ \/ mark_attempt_terminated(EpochOf(c), c[1], c[2]) /\ Goto(c, "reread")
       \/ ~OwnerLive(EpochOf(c)) /\ UNCHANGED storeVars /\ Goto(c, "done")
    /\ UNCHANGED <<fileVars, proc, recovery>>

\* The receipt is read, if the graph's database answers, and recorded.
reread(c) ==
    /\ At(c, "reread")
    /\ \/ run[c] = "complete" /\ MarkerRecorded(c)
       \/ UNCHANGED storeVars
    /\ Goto(c, "reconcile")
    /\ UNCHANGED <<fileVars, proc, recovery>>

\* reconcile_publication answers "reconciliation_required" or
\* "ownership_lost", or raises for want of ownership.
Unresolved(e, c, proved) ==
    /\ \/ ~OwnerLive(e)
       \/ jobs[c[1]].state # "reconciliation_required"
       \/ ~IsCurrent(c[1], c[2])
       \/ Verdict(c[1], c[2], proved) = "reconciliation_required"
    /\ UNCHANGED storeVars

Retires(c, proved) == Verdict(c[1], c[2], proved) # "quarantined"

reconcile_current(c) ==
    /\ At(c, "reconcile")
    /\ \/ /\ reconcile_publication(EpochOf(c), c[1], c[2], FALSE)
          /\ Goto(c, IF Retires(c, FALSE) THEN "retire" ELSE "done")
       \/ Unresolved(EpochOf(c), c, FALSE) /\ Goto(c, "done")
    /\ UNCHANGED <<fileVars, proc, recovery>>

\* A failure before the publication: whether the category may be retried is
\* left open.
settle(c) ==
    /\ At(c, "settle")
    /\ \/ schedule_retry(c[1], c[2]) /\ Goto(c, "retire")
       \/ Transition(c, "running", "failed", "not_started", "other",
                     "release", "done")
    /\ UNCHANGED <<fileVars, proc, recovery>>

settle_cancelled(c) ==
    /\ \/ /\ At(c, "cancelling")
          /\ Transition(c, "cancel_requested", "cancelling", "null", "none",
                        "cancel", "done")
       \/ /\ At(c, "cancel")
          /\ Transition(c, "cancelling", thread[c].saw, "not_started", "other",
                        "release", "done")
    /\ UNCHANGED <<fileVars, proc, recovery>>

release_terminal_lease(c) ==
    /\ At(c, "release")
    /\ \/ release_graph_lease(EpochOf(c), c[1], c[2]) /\ Goto(c, "retire")
       \/ ~OwnerLive(EpochOf(c)) /\ UNCHANGED storeVars /\ Goto(c, "done")
    /\ UNCHANGED <<fileVars, proc, recovery>>

EvidenceRetired(c) ==
    \/ Publication!retire_evidence(c)
    \/ decision[c] = "torn" /\ UNCHANGED fileVars

retire(c) ==
    /\ At(c, "retire")
    /\ UNCHANGED storeVars
    /\ EvidenceRetired(c)
    /\ Goto(c, "done")
    /\ UNCHANGED <<proc, recovery>>

\* The runner raised; the attempt is not marked terminated.
raised(c) ==
    /\ At(c, "raised")
    /\ LockFree(EpochOf(c))
    /\ Transition(c,
          IF jobs[c[1]].cancel THEN "cancel_requested" ELSE "running",
          "reconciliation_required", "commit_unknown", "other", "done", "done")
    /\ UNCHANGED <<fileVars, proc, recovery>>

-----------------------------------------------------------------------------
(* Recovery: coordinator/startup_recovery.py *)

Uncertain == {c \in Claims : /\ jobs[c[1]].state = "reconciliation_required"
                             /\ IsCurrent(c[1], c[2])}

In(e, step) == /\ recovery[e].at = step
               /\ proc[e] \in {"recovering", "serving"}

Proceed(e, step) == recovery' = [recovery EXCEPT ![e].at = step]

\* At startup, and with a heartbeat as long as the last pass left claims
\* pending.
begin_recovery(e) ==
    /\ In(e, "idle")
    /\ proc[e] = "serving" => recovery[e].pending /\ OwnerLive(e)
    /\ recovery' = [recovery EXCEPT ![e] =
          [NoRecovery EXCEPT !.at = "next", !.todo = Uncertain]]
    /\ UNCHANGED <<storeVars, fileVars, proc, thread>>

next_claim(e) ==
    /\ In(e, "next")
    /\ OwnerLive(e)
    /\ \E c \in recovery[e].todo :
          recovery' = [recovery EXCEPT ![e] =
             [@ EXCEPT !.at = "read", !.claim = c,
                       !.todo = recovery[e].todo \ {c}]]
    /\ UNCHANGED <<storeVars, fileVars, proc, thread>>

end_recovery(e) ==
    /\ In(e, "next")
    /\ recovery[e].todo # {} => ~OwnerLive(e)
    /\ recovery' = [recovery EXCEPT ![e] =
          [NoRecovery EXCEPT
              !.pending = recovery[e].pending \/ recovery[e].todo # {}]]
    /\ proc' = [proc EXCEPT ![e] = "serving"]
    /\ UNCHANGED <<storeVars, fileVars, thread>>

\* A receipt is recorded at once; without one, or without an answer, the
\* attempt is to be closed.
read_publication(e) ==
    LET c == recovery[e].claim IN
    /\ In(e, "read")
    /\ \/ run[c] = "complete" /\ MarkerRecorded(c) /\ Proceed(e, "unproved")
       \/ UNCHANGED storeVars /\ Proceed(e, "close")
    /\ UNCHANGED <<fileVars, proc, thread>>

\* Mutant: the rows are closed once the fence is installed.
CloseWithFenceOnly(e) ==
    LET c == recovery[e].claim IN
    /\ In(e, "close")
    /\ UNCHANGED storeVars
    /\ \/ /\ RestartCurrency(e, c[1], c[2])
          /\ Publication!install_graph_publication_fence(c, e)
          /\ Proceed(e, "filed")
       \/ UNCHANGED fileVars /\ Proceed(e, "unproved")
    /\ UNCHANGED <<proc, thread>>

\* The closure: the fence, ...
close_with_fence(e) ==
    LET c == recovery[e].claim IN
    /\ In(e, "close")
    /\ UNCHANGED storeVars
    /\ \/ /\ RestartCurrency(e, c[1], c[2])
          /\ Publication!install_graph_publication_fence(c, e)
          /\ Proceed(e, "fenced")
       \/ UNCHANGED fileVars /\ Proceed(e, "unproved")
    /\ UNCHANGED <<proc, thread>>

\* Mutant: whose decision is in the gate file is not looked at.
CloseGateUnread(e) ==
    LET c == recovery[e].claim IN
    /\ In(e, "fenced")
    /\ UNCHANGED storeVars
    /\ \/ Publication!close_unpublished(c) /\ Proceed(e, "filed")
       \/ ~initial[c] /\ UNCHANGED fileVars /\ Proceed(e, "unproved")
    /\ UNCHANGED <<proc, thread>>

\* ... the gate file ...
close_gate(e) ==
    LET c == recovery[e].claim IN
    /\ In(e, "fenced")
    /\ UNCHANGED storeVars
    /\ \/ /\ Publication!close_unpublished(c)
          /\ Proceed(e, IF decision'[c] = "not_started" THEN "filed"
                        ELSE "unproved")
       \/ /\ ~initial[c]
          /\ UNCHANGED fileVars
          /\ Proceed(e, "unproved")
       \/ /\ Outcome(c) # "open"
          /\ UNCHANGED fileVars
          /\ Proceed(e, "filed")
    /\ UNCHANGED <<proc, thread>>

\* ... and the rows of the control store.
close_rows(e) ==
    LET c == recovery[e].claim IN
    /\ In(e, "filed")
    /\ \/ execute_durable_closure(e, c[1], c[2]) /\ Proceed(e, "proved")
       \/ /\ "control_error" \in disturbances
          /\ UNCHANGED storeVars
          /\ Proceed(e, "unproved")
    /\ UNCHANGED <<fileVars, proc, thread>>

\* reconcile_publication raises for want of ownership: startup fails, a later
\* pass is over and leaves an empty report.
RecoveryRaises(e) ==
    /\ ~OwnerLive(e)
    /\ recovery' = [recovery EXCEPT ![e] = NoRecovery]
    /\ IF proc[e] = "recovering"
       THEN /\ proc' = [proc EXCEPT ![e] = "dead"]
            /\ IF owner.epoch = e /\ owner.active THEN stop_singleton(e)
               ELSE UNCHANGED storeVars
       ELSE UNCHANGED <<storeVars, proc>>

reconcile_uncertain(e) ==
    LET c == recovery[e].claim
        proved == recovery[e].at = "proved"
    IN  /\ In(e, "proved") \/ In(e, "unproved")
        /\ \/ /\ reconcile_publication(e, c[1], c[2], proved)
              /\ Proceed(e, IF Retires(c, proved) THEN "retire" ELSE "next")
              /\ UNCHANGED proc
           \/ /\ OwnerLive(e)
              /\ Unresolved(e, c, proved)
              /\ recovery' = [recovery EXCEPT ![e] =
                    [@ EXCEPT !.at = "next", !.pending = TRUE]]
              /\ UNCHANGED proc
           \/ RecoveryRaises(e)
        /\ UNCHANGED <<fileVars, thread>>

retire_recovered(e) ==
    /\ In(e, "retire")
    /\ UNCHANGED storeVars
    /\ EvidenceRetired(recovery[e].claim)
    /\ Proceed(e, "next")
    /\ UNCHANGED <<proc, thread>>

-----------------------------------------------------------------------------
(* Workers and the database go on whatever the coordinators do *)

\* A cancellation reaches the worker of the current attempt.
worker_step(c) ==
    /\ UNCHANGED <<storeVars, coreVars>>
    /\ \/ /\ Publication!WorkerNext(c)
          /\ worker'[c] = "said_cancelled" =>
                jobs[c[1]].cancel /\ IsCurrent(c[1], c[2])
       \/ Publication!kill(c)

server_step(c) ==
    /\ UNCHANGED <<storeVars, coreVars>>
    /\ Publication!ServerNext(c)

ThreadNext(c) ==
    \/ start(c) \/ begin(c) \/ finish_prestart_cancel(c) \/ uncertain_start(c)
    \/ resolve(c) \/ register_supervisor_launch(c) \/ launch_worker(c)
    \/ supervise(c) \/ reap(c) \/ raised(c)
    \/ dispose_terminal(c) \/ record_marker_if_available(c)
    \/ mark_reconciliation_required(c) \/ terminate(c) \/ reread(c)
    \/ reconcile_current(c) \/ settle(c) \/ settle_cancelled(c)
    \/ release_terminal_lease(c) \/ retire(c)

RecoveryNext(e) ==
    \/ recover_abandoned(e) \/ begin_recovery(e) \/ next_claim(e)
    \/ end_recovery(e) \/ read_publication(e) \/ close_with_fence(e)
    \/ close_gate(e) \/ close_rows(e) \/ reconcile_uncertain(e)
    \/ retire_recovered(e)

CoordinatorNext ==
    /\ \/ startup \/ expiry
       \/ \E e \in Epochs : RecoveryNext(e) \/ run_once(e) \/ shutdown(e) \/ crash(e)
       \/ \E j \in Jobs : client_submit(j) \/ request_cancel(j)
       \/ \E c \in Claims : ThreadNext(c) \/ worker_step(c) \/ server_step(c)
    /\ UNCHANGED disturbances

CoordinatorSpec == CoordinatorInit /\ [][CoordinatorNext]_vars

\* Threads, the startup and the claim loop of a process that is up run on; a
\* worker ends at the latest when its deadline expires and its supervisor
\* kills it; the server ends every transaction.  Crashes, expiries and clients
\* are not owed.
Fairness ==
    LET Same == UNCHANGED disturbances
    IN  /\ WF_vars(startup /\ Same)
        /\ \A e \in Epochs : /\ WF_vars(RecoveryNext(e) /\ Same)
                             /\ WF_vars(run_once(e) /\ Same)
        /\ \A c \in Claims : /\ WF_vars(ThreadNext(c) /\ Same)
                             /\ WF_vars(worker_step(c) /\ Same)
                             /\ WF_vars(server_step(c) /\ Same)

FairCoordinatorSpec == CoordinatorSpec /\ Fairness

-----------------------------------------------------------------------------
(* Properties *)

\* Every variable of the processes keeps its type.
CoordinatorTypeOK ==
    /\ proc \in [Epochs -> ProcessStates]
    /\ thread \in [Claims -> [at : ThreadSteps, saw : Terminals,
                              cancel : BOOLEAN]]
    /\ recovery \in [Epochs -> [at : RecoverySteps,
                                claim : Claims \cup {NoClaim},
                                todo : SUBSET Claims, pending : BOOLEAN]]

\* Contract I4: however attempts are retried and coordinators replaced, a job
\* is published at most once, although workers and commits outlive the
\* coordinator that started them.
PublishedAtMostOnce ==
    \A c, d \in Claims :
        c[1] = d[1] /\ run[c] = "complete" /\ run[d] = "complete" => c = d

\* Contract I2, I3: a job reported as succeeded has its receipt in the graph's
\* database; one that is failed, cancelled or queued again has published
\* nothing by any of its attempts (_dispose_terminal, reconcile_publication,
\* recover_startup).
ReportsAreTrue ==
    \A j \in Jobs :
        /\ jobs[j].state = "succeeded" => run[<<j, jobs[j].attempt>>] = "complete"
        /\ jobs[j].state \in {"failed", "cancelled", "queued"} =>
              \A n \in AttemptNumbers : run[<<j, n>>] # "complete"

\* Processes, threads and recovery passes implement ControlStore: they change
\* the control database only by its transactions.
StoreSpec == Spec

\* They implement GraphPublication: a gate is closed only with a proof, an
\* attempt is disposed of as unpublished only on the evidence that
\* GraphPublication demands, and evidence is retired only afterwards.
PublicationSpec == Publication!PubSpec

\* Without failures of the coordinator, every accepted job is eventually
\* disposed of or declared uncertain, and is never left claimed, starting,
\* running or cancelling (core.run_once).
JobsAreDecided ==
    \A j \in Jobs : jobs[j].state \in {"queued"} \cup AbandonedStates ~>
        jobs[j].state \in TerminalStates \cup {"reconciliation_required"}

\* Without failures of the coordinator, a job that is over gives its graph
\* back (_release_terminal_lease, reconcile_publication).
LeasesAreReturned ==
    \A j \in Jobs : jobs[j].state \in TerminalStates ~>
        leases[GraphOf(j)].job # j

-----------------------------------------------------------------------------
(* What the contract claims and the code does not keep *)

\* The coordinator e owns the singleton and has been through its recovery.
Recovered(e) == /\ OwnerLive(e)
                /\ proc[e] = "serving"
                /\ recovery[e].at = "idle"

\* Contract, "failed" and "cancelled": "No lease remains."  At the latest the
\* recovery of a later coordinator would have to see to it.
NoLeaseRemains ==
    \A e \in Epochs, j \in Jobs :
        /\ Recovered(e)
        /\ jobs[j].state \in {"failed", "cancelled"}
        /\ EpochOf(<<j, jobs[j].attempt>>) # e
        => leases[GraphOf(j)].job # j

\* Contract, Expiry And Crash Recovery: "a matching committed publication
\* completes the job as succeeded".
CommittedIsRecovered ==
    \A e \in Epochs, c \in Claims :
        /\ Recovered(e)
        /\ EpochOf(c) \in Epochs /\ EpochOf(c) < e
        /\ markers[c[1]][c[2]] = "committed"
        => jobs[c[1]].state # "reconciliation_required"
=============================================================================
