---------------------------- MODULE DesiredState ----------------------------
(***************************************************************************)
(* Desired-state reconciliation of one graph: what the polls of            *)
(* coordinator/desired_state.py, the coalescing of automatic intent        *)
(* (_control_coalescing.py, _control_polling.py) and the refreshes it      *)
(* queues bring about together while the source moves.                     *)
(*                                                                         *)
(* The four generations a poll compares are one value here.  A job row is  *)
(* the generation it asks for: the idempotency key of a polling request is *)
(* a digest of the generations, and the table admits one row per key.      *)
(* Claims, leases and attempts are ControlStore's subject; here the graph  *)
(* lease lets one refresh work at a time.                                  *)
(***************************************************************************)
EXTENDS Naturals

CONSTANTS
    Generations, \* generations of the source
    None,        \* no publication, or no job
    SourceMoves  \* the changes of the source: pairs <<from, to>>

DesiredAssumption ==
    /\ None \notin Generations
    /\ SourceMoves \subseteq Generations \X Generations

VARIABLES
    source,  \* generation of the configured source
    pub,     \* generation of the latest complete publication receipt
    poll,    \* the poll of this graph: its phase and what it has read
    jobs,    \* state of the polling job of each generation
    intent   \* the row of coalescing_state

desiredVars == <<source, pub, poll, jobs, intent>>

Nonterminal == {"queued", "running", "publishing"}
Terminal == {"succeeded", "failed", "superseded"}
Idle == [phase |-> "idle", seen |-> None, actual |-> None]

DesiredInit ==
    /\ source \in Generations
    /\ pub = None
    /\ poll = Idle
    /\ jobs = [g \in Generations |-> "absent"]
    /\ intent = [exists |-> FALSE, desired |-> None, dirty |-> FALSE,
                 queued |-> None, running |-> None]

\* Somebody edits, switches branches, or reverts.
SourceChanges ==
    /\ \E g \in Generations : <<source, g>> \in SourceMoves /\ source' = g
    /\ UNCHANGED <<pub, poll, jobs, intent>>

\* polling_snapshot: one bounded scan.
Scan ==
    /\ poll.phase = "idle"
    /\ poll' = [poll EXCEPT !.phase = "scanned", !.seen = source]
    /\ UNCHANGED <<source, pub, jobs, intent>>

\* The scan is unstable, unavailable or timed out: only a condition is recorded.
ScanFails ==
    /\ poll.phase = "scanned"
    /\ poll' = Idle
    /\ UNCHANGED <<source, pub, jobs, intent>>

\* latest_publication, some time after the scan.
ReadPublication ==
    /\ poll.phase = "scanned"
    /\ poll' = [poll EXCEPT !.phase = "read", !.actual = pub]
    /\ UNCHANGED <<source, pub, jobs, intent>>

\* Mutant: the comparison never finds them equal.
IsCurrentNever == FALSE

\* Mutant: any publication counts as current.
IsCurrentOnce == poll.actual # None

\* The publication has the desired generations.
IsCurrent == poll.actual = poll.seen

\* _record_current
RecordCurrent ==
    /\ poll.phase = "read" /\ IsCurrent
    /\ poll' = Idle
    /\ intent' = IF intent.exists
                 THEN [intent EXCEPT !.desired = poll.seen, !.dirty = FALSE]
                 ELSE intent
    /\ UNCHANGED <<source, pub, jobs>>

Existing == IF intent.queued # None THEN intent.queued ELSE intent.running

\* The desired state is queued or running already.
AlreadyWanted ==
    /\ intent.exists /\ intent.desired = poll.seen
    /\ Existing # None /\ jobs[Existing] \in Nonterminal

\* coalesce_automatic: replayed, refused by the unique key, or queued in place
\* of what was queued before.
Coalesced ==
    /\ poll.phase = "read" /\ ~IsCurrent
    /\ AlreadyWanted
    /\ poll' = Idle
    /\ UNCHANGED <<source, pub, jobs, intent>>

\* The INSERT violates the unique key; the poll fails and changes nothing.
KeyTaken ==
    /\ poll.phase = "read" /\ ~IsCurrent
    /\ ~AlreadyWanted /\ jobs[poll.seen] # "absent"
    /\ poll' = Idle
    /\ UNCHANGED <<source, pub, jobs, intent>>

\* The queued automatic job that the new intent supersedes.
Replaced(g) == g = intent.queued /\ jobs[g] = "queued"

\* _upsert_intent
Upserted == [intent EXCEPT !.exists = TRUE, !.desired = poll.seen,
                           !.dirty = TRUE, !.queued = poll.seen]

Requested ==
    /\ poll.phase = "read" /\ ~IsCurrent
    /\ ~AlreadyWanted /\ jobs[poll.seen] = "absent"
    /\ poll' = Idle
    /\ jobs' = [g \in Generations |->
                   IF g = poll.seen THEN "queued"
                   ELSE IF Replaced(g) THEN "superseded"
                   ELSE jobs[g]]
    /\ intent' = Upserted
    /\ UNCHANGED <<source, pub>>

LeaseFree == \A g \in Generations : jobs[g] \notin {"running", "publishing"}

\* The claim of a queued job (claim_next) takes the graph's lease.
Claim(g) ==
    /\ jobs[g] = "queued" /\ LeaseFree
    /\ jobs' = [jobs EXCEPT ![g] = "running"]
    /\ intent' = IF intent.queued = g
                 THEN [intent EXCEPT !.queued = None, !.running = g, !.dirty = FALSE]
                 ELSE intent
    /\ UNCHANGED <<source, pub, poll>>

Settle(g, state) ==
    /\ jobs' = [jobs EXCEPT ![g] = state]
    /\ intent' = IF intent.running = g THEN [intent EXCEPT !.running = None] ELSE intent

\* The generations of the claim against the configured ones, by the runner
\* before the launch and by the worker before the discovery.
Matches(g) == source = g

Preflight(g) ==
    /\ jobs[g] = "running"
    /\ IF Matches(g)
       THEN jobs' = [jobs EXCEPT ![g] = "publishing"] /\ UNCHANGED intent
       ELSE Settle(g, "failed")
    /\ UNCHANGED <<source, pub, poll>>

\* The refresh commits its publication and the job succeeds.
Publish(g) ==
    /\ jobs[g] = "publishing"
    /\ pub' = g
    /\ Settle(g, "succeeded")
    /\ UNCHANGED <<source, poll>>

\* A manual refresh of the current source, under the same lease.
ManualPublish ==
    /\ LeaseFree
    /\ pub' = source
    /\ UNCHANGED <<source, poll, jobs, intent>>

\* cleanup_terminal deletes an old row, if the intent does not refer to it.
Delete(g) ==
    /\ jobs[g] \in Terminal
    /\ g \notin {intent.queued, intent.running}
    /\ jobs' = [jobs EXCEPT ![g] = "absent"]
    /\ UNCHANGED <<source, pub, poll, intent>>

PollStep == Scan \/ ReadPublication \/ RecordCurrent \/ Coalesced \/ KeyTaken \/ Requested

JobStep(g) == Claim(g) \/ Preflight(g) \/ Publish(g)

DesiredNext ==
    \/ SourceChanges \/ PollStep \/ ScanFails \/ ManualPublish
    \/ \E g \in Generations : JobStep(g) \/ Delete(g)

\* The scheduler polls again and again (Polling!PolledAgain), a scan of a
\* source that rests succeeds in the end, and the coordinator runs what is
\* queued.  Nobody has to edit, publish by hand or clean up.
DesiredSpec ==
    /\ DesiredInit /\ [][DesiredNext]_desiredVars
    /\ WF_desiredVars(PollStep) /\ SF_desiredVars(ReadPublication)
    /\ \A g \in Generations : WF_desiredVars(JobStep(g))
-----------------------------------------------------------------------------
DesiredTypeOK ==
    /\ source \in Generations /\ pub \in Generations \cup {None}
    /\ poll \in [phase : {"idle", "scanned", "read"},
                 seen : Generations \cup {None}, actual : Generations \cup {None}]
    /\ jobs \in [Generations -> {"absent"} \cup Nonterminal \cup Terminal]
    /\ intent \in [exists : BOOLEAN, dirty : BOOLEAN,
                   desired : Generations \cup {None},
                   queued : Generations \cup {None},
                   running : Generations \cup {None}]
    /\ intent.exists <=> intent.desired # None

\* Once the source rests, the graph is published at its generation and stays
\* there ("reconciliation converge[s] without event ordering assumptions").
Converges ==
    \A g \in Generations : <>[](source = g) => <>[](pub = g)

\* Once the source rests, refreshing ends: polling does not go on asking for
\* refreshes nobody needs (the comparison of reconcile_graph).
Rests ==
    (\E g \in Generations : <>[](source = g))
        => <>[](\A g \in Generations : jobs[g] \notin Nonterminal)
=============================================================================
