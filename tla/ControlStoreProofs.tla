------------------------- MODULE ControlStoreProofs -------------------------
(***************************************************************************)
(* Theorems about the control store, for every set of jobs and graphs,     *)
(* every request table and every value of the limits.                      *)
(***************************************************************************)
EXTENDS ControlStore, TLAPS

-----------------------------------------------------------------------------
(* Rows: what an UPDATE of some columns makes of a well-formed row. *)

\* A job row stays well formed when a transaction sets its state, its
\* publication state and its error category.
LEMMA JobRowUpdate ==
    ASSUME NEW r \in JobRows, NEW s \in JobStates, NEW p \in PublicationStates,
           NEW c \in Categories
    PROVE  /\ [r EXCEPT !.state = s] \in JobRows
           /\ [r EXCEPT !.pub = p] \in JobRows
           /\ [r EXCEPT !.state = s, !.cancel = TRUE] \in JobRows
           /\ [r EXCEPT !.state = s, !.pub = p, !.category = c] \in JobRows
  BY Zenon DEF JobRows

\* An attempt row stays well formed under the column updates of the
\* transactions that change it.
LEMMA AttemptRowUpdate ==
    ASSUME NEW r \in AttemptRows, NEW p \in PublicationStates,
           NEW b \in BOOLEAN, NEW f \in BOOLEAN
    PROVE  /\ [r EXCEPT !.finished = TRUE] \in AttemptRows
           /\ [r EXCEPT !.digest = TRUE] \in AttemptRows
           /\ [r EXCEPT !.consumed = TRUE] \in AttemptRows
           /\ [r EXCEPT !.current = FALSE, !.finished = TRUE] \in AttemptRows
           /\ [r EXCEPT !.pub = p, !.digest = FALSE] \in AttemptRows
           /\ [r EXCEPT !.pub = p, !.current = b, !.finished = f]
                 \in AttemptRows
           /\ [r EXCEPT !.current = FALSE, !.digest = FALSE, !.pub = p]
                 \in AttemptRows
           /\ [r EXCEPT !.finished = TRUE, !.digest = FALSE,
                        !.consumed = TRUE, !.pub = p] \in AttemptRows
  BY ZenonT(30) DEF AttemptRows

\* Each row of the attempts table is well formed.
LEMMA AttemptRow ==
    ASSUME TypeOK, NEW j \in Jobs, NEW n \in AttemptNumbers
    PROVE  attempts[j][n] \in AttemptRows
  BY DEF TypeOK

\* Replacing one attempt row by a well-formed one keeps the table well formed.
LEMMA AttemptTableUpdate ==
    ASSUME TypeOK, NEW j \in Jobs, NEW n \in AttemptNumbers,
           NEW r \in AttemptRows
    PROVE  [attempts EXCEPT ![j][n] = r]
              \in [Jobs -> [AttemptNumbers -> AttemptRows]]
  BY DEF TypeOK

\* The rows that stand for "no row" are well formed.
LEMMA EmptyRows ==
    /\ AbsentJob \in JobRows
    /\ [AbsentJob EXCEPT !.state = "deleted"] \in JobRows
    /\ NoAttempt \in AttemptRows
    /\ NoLease \in LeaseRows
    /\ NoIntent \in IntentRows
<1>1. AbsentJob \in JobRows
  BY LimitsAssumption
     DEF AbsentJob, JobRows, JobStates, PublicationStates, Categories
<1>2. [AbsentJob EXCEPT !.state = "deleted"] \in JobRows
  BY Zenon, <1>1, JobRowUpdate DEF JobStates, PublicationStates, Categories
<1>3. NoAttempt \in AttemptRows
  BY LimitsAssumption DEF NoAttempt, AttemptRows, PublicationStates
<1>4. NoLease \in LeaseRows
  BY LimitsAssumption DEF NoLease, LeaseRows
<1>5. NoIntent \in IntentRows
  BY DEF NoIntent, IntentRows
<1> QED
  BY <1>1, <1>2, <1>3, <1>4, <1>5

\* The graph of a job is a graph, its generation a generation.
LEMMA RequestTypes ==
    ASSUME NEW j \in Jobs
    PROVE  /\ GraphOf(j) \in Graphs
           /\ Request[j].generation \in Generations
           /\ Request[j].automatic \in BOOLEAN
  BY RequestAssumption DEF GraphOf

\* The intent of a graph stays well formed when a job of the graph is
\* claimed, released or quarantined.
LEMMA IntentUpdate ==
    ASSUME TypeOK, NEW j \in Jobs
    PROVE  /\ ClaimIntent(j) \in [Graphs -> IntentRows]
           /\ ClearRunning(j) \in [Graphs -> IntentRows]
           /\ PausedIntent(j) \in [Graphs -> IntentRows]
<1>0. intents[GraphOf(j)] \in IntentRows
  BY RequestTypes DEF TypeOK
<1>1. ClaimIntent(j) \in [Graphs -> IntentRows]
  <2>1. [intents[GraphOf(j)] EXCEPT !.queued = NoJob, !.running = j,
                                    !.dirty = FALSE] \in IntentRows
    BY Zenon, <1>0 DEF IntentRows
  <2> QED
    BY Zenon, <2>1 DEF TypeOK, ClaimIntent
<1>2. ClearRunning(j) \in [Graphs -> IntentRows]
  BY ZenonT(30), RequestTypes DEF TypeOK, ClearRunning, IntentRows
<1>3. PausedIntent(j) \in [Graphs -> IntentRows]
  BY RequestTypes DEF TypeOK, PausedIntent, IntentRows
<1> QED
  BY <1>1, <1>2, <1>3

\* What a coordinator asks a compare-and-set to do, and what a
\* reconciliation decides, are values the rows may have.
LEMMA TransitionTypes ==
    ASSUME NEW t \in CoordinatorTransitions
    PROVE  /\ t.expected \in AbandonedStates
           /\ t.new \in JobStates
           /\ t.pub = "null" \/ t.pub \in PublicationStates
           /\ t.category \in Categories
  BY DEF CoordinatorTransitions, AbandonedStates, JobStates, ActiveStates,
         TerminalStates, PublicationStates, SafeUnpublished, Categories

\* The rows a compare-and-set writes are well formed.
LEMMA TransitionedRows ==
    ASSUME NEW t \in CoordinatorTransitions
    PROVE  /\ \A r \in JobRows : TransitionedJob(r, t) \in JobRows
           /\ \A r \in AttemptRows : TransitionedAttempt(r, t) \in AttemptRows
<1>1. ASSUME NEW r \in JobRows
      PROVE  TransitionedJob(r, t) \in JobRows
  <2>1. CoalesceValue(t.pub, r.pub) \in PublicationStates
    BY TransitionTypes DEF CoalesceValue, JobRows
  <2> QED
    BY Zenon, <2>1, TransitionTypes, JobRowUpdate DEF TransitionedJob
<1>2. ASSUME NEW r \in AttemptRows
      PROVE  TransitionedAttempt(r, t) \in AttemptRows
  <2> DEFINE p == CoalesceValue(t.pub, r.pub)
             c == r.current /\ t.new \notin TerminalStates
             f == r.finished \/ t.new \in TerminalStates
  <2>1. p \in PublicationStates
    BY TransitionTypes DEF CoalesceValue, AttemptRows
  <2>2. c \in BOOLEAN /\ f \in BOOLEAN
    OBVIOUS
  <2>3. TransitionedAttempt(r, t) =
           [r EXCEPT !.pub = p, !.current = c, !.finished = f]
    BY DEF TransitionedAttempt
  <2> HIDE DEF p, c, f
  <2>4. [r EXCEPT !.pub = p, !.current = c, !.finished = f] \in AttemptRows
    BY <2>1, <2>2, AttemptRowUpdate
  <2> QED
    BY <2>3, <2>4
<1> QED
  BY <1>1, <1>2

\* The verdicts of reconcile_publication.
LEMMA VerdictTypes ==
    ASSUME NEW j \in Jobs, NEW n \in AttemptNumbers, NEW proved \in BOOLEAN
    PROVE  Verdict(j, n, proved) \in
              {"reconciliation_required", "succeeded", "quarantined",
               "cancelled", "failed", "queued"}
  BY DEF Verdict

-----------------------------------------------------------------------------
(* Type correctness *)

\* Every transaction of the store leaves well-formed rows.
LEMMA TypeStep == TypeOK /\ [Next]_storeVars => TypeOK'
<1> SUFFICES ASSUME TypeOK, [Next]_storeVars PROVE TypeOK'
  OBVIOUS
<1>1. CASE acquire_singleton
  BY <1>1, LimitsAssumption DEF acquire_singleton, TypeOK, OwnerRows
<1>2. CASE singleton_expires
  BY Zenon, <1>2 DEF singleton_expires, TypeOK, OwnerRows
<1>3. ASSUME NEW e \in Epochs, stop_singleton(e)
      PROVE  TypeOK'
  BY Zenon, <1>3 DEF stop_singleton, TypeOK, OwnerRows
<1>4. ASSUME NEW g \in Graphs, lease_expires(g)
      PROVE  TypeOK'
  BY ZenonT(30), <1>4 DEF lease_expires, TypeOK, LeaseRows
<1>5. ASSUME NEW j \in Jobs, submit(j)
      PROVE  TypeOK'
  BY ZenonT(30), <1>5 DEF submit, TypeOK, JobRows, JobStates
<1>6. ASSUME NEW j \in Jobs, coalesce_automatic(j)
      PROVE  TypeOK'
  <2>1. \A k \in Jobs : jobs'[k] \in JobRows
    <3> SUFFICES ASSUME NEW k \in Jobs PROVE jobs'[k] \in JobRows
      OBVIOUS
    <3>1. jobs[k] \in JobRows /\ "superseded" \in JobStates
             /\ "queued" \in JobStates
      BY DEF TypeOK, JobStates, TerminalStates
    <3>2. \A s \in JobStates :
             /\ [jobs[k] EXCEPT !.state = s] \in JobRows
             /\ [jobs[k] EXCEPT !.state = s, !.replacement = j] \in JobRows
      BY Zenon, <3>1 DEF JobRows
    <3>3. jobs[k].state \in JobStates
      BY <3>1 DEF JobRows
    <3> QED
      BY <1>6, <3>1, <3>2, <3>3 DEF coalesce_automatic
  <2>2. [intents[GraphOf(j)] EXCEPT !.desired = Request[j].generation,
                                    !.dirty = TRUE, !.queued = j]
           \in IntentRows
    BY ZenonT(30), RequestTypes DEF TypeOK, IntentRows
  <2>3. intents' \in [Graphs -> IntentRows]
    BY <1>6, <2>2, RequestTypes DEF coalesce_automatic, TypeOK
  <2>4. jobs' \in [Jobs -> JobRows]
    BY <1>6, <2>1 DEF coalesce_automatic
  <2> QED
    BY <1>6, <2>3, <2>4 DEF coalesce_automatic, TypeOK
<1>7. ASSUME NEW j \in Jobs, request_cancellation(j)
      PROVE  TypeOK'
  <2>1. jobs[j] \in JobRows
    BY DEF TypeOK
  <2>2. CancelledJob(jobs[j]) \in JobRows
    BY Zenon, <2>1 DEF CancelledJob, JobRows, JobStates, TerminalStates,
       ActiveStates, AbandonedStates
  <2>3. jobs' \in [Jobs -> JobRows]
    BY <1>7, <2>2 DEF request_cancellation, TypeOK
  <2> QED
    BY <1>7, <2>3 DEF request_cancellation, TypeOK
<1>8. ASSUME NEW e \in Epochs, NEW j \in Jobs, claim_once(e, j)
      PROVE  TypeOK'
  <2>1. jobs[j] \in JobRows /\ jobs[j].attempt + 1 \in AttemptNumbers
    BY <1>8, LimitsAssumption
       DEF TypeOK, JobRows, claim_once, Claimable, AttemptNumbers
  <2>2. jobs' \in [Jobs -> JobRows]
    <3>1. [jobs[j] EXCEPT !.state = "claimed",
                          !.attempt = jobs[j].attempt + 1] \in JobRows
      <4> DEFINE a == jobs[j].attempt + 1
      <4>1. a \in 0 .. MaxAttempts
        BY <2>1 DEF AttemptNumbers
      <4> HIDE DEF a
      <4>2. [jobs[j] EXCEPT !.state = "claimed", !.attempt = a] \in JobRows
        BY ZenonT(30), <2>1, <4>1
           DEF JobRows, JobStates, ActiveStates, AbandonedStates
      <4> QED
        BY <4>2 DEF a
    <3> QED
      BY <1>8, <3>1 DEF claim_once, TypeOK
  <2>3. [NoAttempt EXCEPT !.epoch = e, !.lease = xact + 1, !.current = TRUE]
           \in AttemptRows
    <3>1. \A r \in AttemptRows :
             [r EXCEPT !.epoch = e, !.lease = xact + 1, !.current = TRUE]
                \in AttemptRows
      <4> DEFINE x == xact + 1
      <4>1. x \in Nat /\ e \in 0 .. MaxEpoch
        BY LimitsAssumption DEF TypeOK, Epochs
      <4> HIDE DEF x
      <4>2. \A r \in AttemptRows :
               [r EXCEPT !.epoch = e, !.lease = x, !.current = TRUE]
                  \in AttemptRows
        BY Zenon, <4>1 DEF AttemptRows
      <4> QED
        BY <4>2 DEF x
    <3> QED
      BY <3>1, EmptyRows
  <2>4. attempts' \in [Jobs -> [AttemptNumbers -> AttemptRows]]
    BY <1>8, <2>1, <2>3, AttemptTableUpdate DEF claim_once
  <2>5. leases' \in [Graphs -> LeaseRows]
    <3>1. [job |-> j, attempt |-> jobs[j].attempt + 1, epoch |-> e,
           lease |-> xact + 1, live |-> TRUE] \in LeaseRows
      BY <2>1 DEF TypeOK, LeaseRows, AttemptNumbers, Epochs
    <3> QED
      BY Zenon, <1>8, <3>1 DEF claim_once, TypeOK
  <2> QED
    BY <1>8, <2>2, <2>4, <2>5, IntentUpdate
       DEF claim_once, TransactionOf, TypeOK
<1>9. ASSUME NEW j \in Jobs, NEW n \in AttemptNumbers,
             NEW t \in CoordinatorTransitions, compare_and_set_state(j, n, t)
      PROVE  TypeOK'
  <2>1. jobs' \in [Jobs -> JobRows]
    BY <1>9, TransitionedRows DEF compare_and_set_state, TypeOK
  <2>2. attempts' \in [Jobs -> [AttemptNumbers -> AttemptRows]]
    BY <1>9, TransitionedRows, AttemptRow, AttemptTableUpdate
       DEF compare_and_set_state
  <2> QED
    BY <1>9, <2>1, <2>2 DEF compare_and_set_state, TypeOK
<1>10. ASSUME NEW j \in Jobs, NEW n \in AttemptNumbers, heartbeat_attempt(j, n)
       PROVE  TypeOK'
  BY ZenonT(30), <1>10 DEF heartbeat_attempt, TransactionOf, TypeOK, LeaseRows
<1>11. ASSUME NEW j \in Jobs, NEW n \in AttemptNumbers, schedule_retry(j, n)
       PROVE  TypeOK'
  <2>1. jobs[j] \in JobRows /\ attempts[j][n] \in AttemptRows
    BY AttemptRow DEF TypeOK
  <2>2. jobs' \in [Jobs -> JobRows]
    BY <1>11, <2>1, JobRowUpdate DEF schedule_retry, TypeOK, JobStates,
       PublicationStates, Categories
  <2>3. attempts' \in [Jobs -> [AttemptNumbers -> AttemptRows]]
    BY <1>11, <2>1, AttemptRowUpdate, AttemptTableUpdate
       DEF schedule_retry, PublicationStates
  <2>4. leases' \in [Graphs -> LeaseRows]
    BY <1>11, EmptyRows, RequestTypes DEF schedule_retry, TypeOK
  <2> QED
    BY <1>11, <2>2, <2>3, <2>4 DEF schedule_retry, TransactionOf, TypeOK
<1>12. ASSUME NEW j \in Jobs, NEW n \in AttemptNumbers,
              persist_supervisor_registration(j, n)
       PROVE  TypeOK'
  <2>1. attempts' \in [Jobs -> [AttemptNumbers -> AttemptRows]]
    <3>1. [attempts[j][n] EXCEPT !.digest = TRUE] \in AttemptRows
      BY AttemptRow, AttemptRowUpdate DEF PublicationStates
    <3> QED
      BY <1>12, <3>1, AttemptTableUpdate DEF persist_supervisor_registration
  <2> QED
    BY <1>12, <2>1 DEF persist_supervisor_registration, TypeOK
<1>13. ASSUME NEW j \in Jobs, NEW n \in AttemptNumbers,
              consume_supervisor_registration(j, n)
       PROVE  TypeOK'
  <2>1. attempts' \in [Jobs -> [AttemptNumbers -> AttemptRows]]
    <3>1. [attempts[j][n] EXCEPT !.consumed = TRUE] \in AttemptRows
      BY AttemptRow, AttemptRowUpdate DEF PublicationStates
    <3> QED
      BY <1>13, <3>1, AttemptTableUpdate DEF consume_supervisor_registration
  <2> QED
    BY <1>13, <2>1 DEF consume_supervisor_registration, TypeOK
<1>14. ASSUME NEW j \in Jobs, NEW n \in AttemptNumbers,
              NEW outcome \in {"committed", "conflicting"},
              record_publication_marker(j, n, outcome)
       PROVE  TypeOK'
  BY <1>14 DEF record_publication_marker, TypeOK
<1>15. ASSUME NEW e \in Epochs, NEW j \in Jobs, NEW n \in AttemptNumbers,
              mark_attempt_terminated(e, j, n)
       PROVE  TypeOK'
  <2>1. attempts' \in [Jobs -> [AttemptNumbers -> AttemptRows]]
    <3>1. [attempts[j][n] EXCEPT !.finished = TRUE] \in AttemptRows
      BY AttemptRow, AttemptRowUpdate DEF PublicationStates
    <3> QED
      BY <1>15, <3>1, AttemptTableUpdate DEF mark_attempt_terminated
  <2> QED
    BY <1>15, <2>1 DEF mark_attempt_terminated, TransactionOf, TypeOK
<1>16. ASSUME NEW e \in Epochs, NEW j \in Jobs, NEW n \in AttemptNumbers,
              NEW proved \in BOOLEAN, reconcile_publication(e, j, n, proved)
       PROVE  TypeOK'
  <2> DEFINE v == Verdict(j, n, proved)
  <2>1. jobs[j] \in JobRows /\ attempts[j][n] \in AttemptRows
    BY AttemptRow DEF TypeOK
  <2>2. v \in JobStates
    BY VerdictTypes DEF JobStates, TerminalStates, ActiveStates
  <2>3. /\ ClosedJobPublication(j, v) \in PublicationStates
        /\ ClosedAttemptPublication(j, v) \in PublicationStates
        /\ ClosedCategory(j, n, v) \in Categories
    BY <2>1 DEF ClosedJobPublication, ClosedAttemptPublication,
       ClosedCategory, JobRows, PublicationStates, Categories
  <2>4. jobs' \in [Jobs -> JobRows]
    <3> HIDE DEF v
    <3> QED
      BY <1>16, <2>1, <2>2, <2>3, JobRowUpdate
         DEF reconcile_publication, TypeOK, v
  <2>5. attempts' \in [Jobs -> [AttemptNumbers -> AttemptRows]]
    BY <1>16, <2>1, <2>3, AttemptRowUpdate, AttemptTableUpdate
       DEF reconcile_publication
  <2>6. leases' \in [Graphs -> LeaseRows]
    BY ZenonT(30), <1>16, EmptyRows DEF reconcile_publication, TypeOK
  <2>7. intents' \in [Graphs -> IntentRows]
    BY <1>16, IntentUpdate DEF reconcile_publication
  <2> QED
    BY <1>16, <2>4, <2>5, <2>6, <2>7
       DEF reconcile_publication, TransactionOf, TypeOK
<1>17. ASSUME NEW e \in Epochs, NEW j \in Jobs, NEW n \in AttemptNumbers,
              execute_durable_closure(e, j, n)
       PROVE  TypeOK'
  <2>1. jobs[j] \in JobRows /\ attempts[j][n] \in AttemptRows
    BY AttemptRow DEF TypeOK
  <2>2. jobs' \in [Jobs -> JobRows]
    BY <1>17, <2>1, JobRowUpdate DEF execute_durable_closure, TypeOK,
       JobStates, PublicationStates, Categories
  <2>3. attempts' \in [Jobs -> [AttemptNumbers -> AttemptRows]]
    BY <1>17, <2>1, AttemptRowUpdate, AttemptTableUpdate
       DEF execute_durable_closure, PublicationStates
  <2> QED
    BY <1>17, <2>2, <2>3 DEF execute_durable_closure, TypeOK
<1>18. ASSUME NEW e \in Epochs, NEW j \in Jobs, NEW n \in AttemptNumbers,
              release_graph_lease(e, j, n)
       PROVE  TypeOK'
  BY ZenonT(30), <1>18, EmptyRows, IntentUpdate DEF release_graph_lease, TypeOK
<1>19. ASSUME NEW e \in Epochs, recover_abandoned_attempts(e)
       PROVE  TypeOK'
  <2>1. jobs' \in [Jobs -> JobRows]
    BY <1>19, JobRowUpdate DEF recover_abandoned_attempts, TypeOK, JobStates,
       ActiveStates, PublicationStates, Categories
  <2>2. attempts' \in [Jobs -> [AttemptNumbers -> AttemptRows]]
    <3>1. \A j \in Jobs, n \in AttemptNumbers :
             [attempts[j][n] EXCEPT !.finished = TRUE, !.digest = FALSE,
                 !.consumed = TRUE, !.pub = "commit_unknown"] \in AttemptRows
      BY AttemptRow, AttemptRowUpdate DEF PublicationStates
    <3> QED
      BY <1>19, <3>1 DEF recover_abandoned_attempts, TypeOK
  <2> QED
    BY <1>19, <2>1, <2>2 DEF recover_abandoned_attempts, TypeOK
<1>20. ASSUME NEW D \in SUBSET CleanupCandidates, cleanup_terminal(D)
       PROVE  TypeOK'
  BY <1>20, EmptyRows DEF cleanup_terminal, TypeOK
<1>21. CASE UNCHANGED storeVars
  BY <1>21 DEF storeVars, TypeOK
<1> QED
  BY <1>1, <1>2, <1>3, <1>4, <1>5, <1>6, <1>7, <1>8, <1>9, <1>10, <1>11,
     <1>12, <1>13, <1>14, <1>15, <1>16, <1>17, <1>18, <1>19, <1>20, <1>21
     DEF Next, OwnerNext, ClientNext, AttemptNext, ReconcilerNext

\* The empty control schema is well formed.
LEMMA TypeInit == Init => TypeOK
  BY EmptyRows, LimitsAssumption DEF Init, TypeOK, OwnerRows

\* The rows of the control store are well formed in every reachable state.
THEOREM TypeCorrect == Spec => []TypeOK
  BY TypeInit, TypeStep, PTL DEF Spec

-----------------------------------------------------------------------------
(* Leases and attempts *)

\* What a transaction that neither inserts nor deletes a lease or an attempt
\* does to one job: nothing, an active job moves on or is closed unpublished,
\* a job no worker ever saw is queued, cancelled or superseded.
JobMove(j) ==
    /\ jobs'[j].attempt = jobs[j].attempt
    /\ \A n \in AttemptNumbers : attempts'[j][n].epoch = attempts[j][n].epoch
    /\ \/ /\ jobs'[j].state = jobs[j].state
          /\ jobs'[j].pub = jobs[j].pub
          /\ \A n \in AttemptNumbers :
                attempts'[j][n].current = attempts[j][n].current
       \/ /\ jobs[j].state \in ActiveStates
          /\ jobs'[j].state \in ActiveStates
          /\ jobs'[j].pub = "commit_unknown" =>
                jobs'[j].state = "reconciliation_required"
          /\ \A n \in AttemptNumbers :
                attempts'[j][n].current = attempts[j][n].current
       \/ /\ jobs[j].state \in ActiveStates
          /\ jobs'[j].state \in {"failed", "cancelled"}
          /\ jobs'[j].pub \in SafeUnpublished
          /\ \A n \in AttemptNumbers : ~attempts'[j][n].current
       \/ /\ jobs[j].state \in {"absent", "queued"}
          /\ jobs'[j].state \in {"queued", "cancelled", "superseded"}
          /\ jobs'[j].pub = jobs[j].pub
          /\ \A n \in AttemptNumbers :
                attempts'[j][n].current = attempts[j][n].current

\* No lease row changes hands and no marker disappears.
SameLeases ==
    /\ \A g \in Graphs : /\ leases'[g] = NoLease <=> leases[g] = NoLease
                         /\ leases'[g].job = leases[g].job
                         /\ leases'[g].attempt = leases[g].attempt
                         /\ leases'[g].epoch = leases[g].epoch
    /\ \A j \in Jobs, n \in AttemptNumbers :
          markers[j][n] = "committed" => markers'[j][n] = "committed"

\* Transactions made of such moves keep the invariant.
LEMMA MovesKeepInv ==
    ASSUME StoreInv, TypeOK', SameLeases, \A j \in Jobs : JobMove(j)
    PROVE  StoreInv'
<1> USE DEF StoreInv
<1>1. ActiveJobHoldsLease'
  <2> SUFFICES ASSUME NEW j \in Jobs, jobs'[j].state \in ActiveStates
               PROVE  /\ jobs'[j].attempt \in AttemptNumbers
                      /\ attempts'[j][jobs'[j].attempt].current
                      /\ HoldsLease(j, jobs[j].attempt)'
    BY DEF ActiveJobHoldsLease
  <2>1. jobs[j].state \in ActiveStates
    BY DEF JobMove, ActiveStates, AbandonedStates
  <2>2. /\ jobs'[j].attempt = jobs[j].attempt
        /\ jobs[j].attempt \in AttemptNumbers
        /\ attempts[j][jobs[j].attempt].current
        /\ HoldsLease(j, jobs[j].attempt)
    BY <2>1 DEF ActiveJobHoldsLease, JobMove
  <2>3. attempts'[j][jobs'[j].attempt].current
    BY <2>1, <2>2 DEF JobMove, ActiveStates, AbandonedStates
  <2> QED
    BY <2>2, <2>3, RequestTypes DEF HoldsLease, SameLeases, JobMove
<1>2. CurrentAttemptIsLatest'
  <2> SUFFICES ASSUME NEW j \in Jobs, NEW n \in AttemptNumbers,
                      attempts'[j][n].current
               PROVE  n = jobs'[j].attempt /\ jobs'[j].state \in ActiveStates
    BY DEF CurrentAttemptIsLatest
  <2>1. attempts[j][n].current
    BY DEF JobMove
  <2>2. n = jobs[j].attempt /\ jobs[j].state \in ActiveStates
    BY <2>1 DEF CurrentAttemptIsLatest
  <2> QED
    BY <2>2 DEF JobMove, ActiveStates, AbandonedStates
<1>3. LeaseNamesItsJob'
  <2> SUFFICES ASSUME NEW g \in Graphs, leases'[g] # NoLease
               PROVE  /\ leases'[g].job \in Jobs
                      /\ GraphOf(leases'[g].job) = g
                      /\ leases'[g].attempt \in AttemptNumbers
                      /\ leases'[g].attempt = jobs'[leases'[g].job].attempt
                      /\ leases'[g].epoch =
                            attempts'[leases'[g].job][leases'[g].attempt].epoch
                      /\ jobs'[leases'[g].job].state
                            \in ActiveStates \cup TerminalStates
    BY DEF LeaseNamesItsJob
  <2>1. /\ leases[g] # NoLease
        /\ leases'[g].job = leases[g].job
        /\ leases'[g].attempt = leases[g].attempt
        /\ leases'[g].epoch = leases[g].epoch
    BY DEF SameLeases
  <2> DEFINE j == leases[g].job
  <2>2. /\ j \in Jobs /\ GraphOf(j) = g
        /\ leases[g].attempt \in AttemptNumbers
        /\ leases[g].attempt = jobs[j].attempt
        /\ leases[g].epoch = attempts[j][leases[g].attempt].epoch
        /\ jobs[j].state \in ActiveStates \cup TerminalStates
    BY <2>1 DEF LeaseNamesItsJob
  <2>3. JobMove(j)
    BY <2>2
  <2>4. jobs'[j].state \in ActiveStates \cup TerminalStates
    BY Zenon, <2>2, <2>3 DEF JobMove, ActiveStates, AbandonedStates, TerminalStates
  <2> HIDE DEF j
  <2>5. /\ jobs'[j].attempt = jobs[j].attempt
        /\ attempts'[j][leases[g].attempt].epoch
              = attempts[j][leases[g].attempt].epoch
    BY <2>2, <2>3 DEF JobMove
  <2> QED
    BY <2>1, <2>2, <2>4, <2>5 DEF j
<1>4. StateAgreesWithPublication'
  <2> SUFFICES ASSUME NEW j \in Jobs
               PROVE
        /\ jobs'[j].state = "succeeded" =>
              /\ jobs'[j].pub = "committed"
              /\ jobs'[j].attempt \in AttemptNumbers
              /\ markers'[j][jobs'[j].attempt] = "committed"
        /\ jobs'[j].state \in {"failed", "cancelled", "superseded"} =>
              jobs'[j].pub \in SafeUnpublished
        /\ jobs'[j].state \in {"absent", "queued"} =>
              jobs'[j].pub = "not_started"
        /\ jobs'[j].pub = "commit_unknown" =>
              jobs'[j].state \in {"reconciliation_required", "quarantined"}
    BY DEF StateAgreesWithPublication
  <2> QED
    BY DEF StateAgreesWithPublication, JobMove, SameLeases, ActiveStates,
       AbandonedStates, SafeUnpublished
<1> QED
  BY <1>1, <1>2, <1>3, <1>4

\* Leaving the tables alone is a move of every job.
LEMMA NoMove ==
    ASSUME UNCHANGED <<jobs, attempts>>
    PROVE  \A j \in Jobs : JobMove(j)
  BY DEF JobMove

\* So is leaving the leases and the markers alone.
LEMMA NoLeaseChange ==
    ASSUME UNCHANGED <<leases, markers>>
    PROVE  SameLeases
  BY DEF SameLeases

\* A lease row that expires or is renewed stays in the same hands.
LEMMA RenewedLease ==
    ASSUME TypeOK, NEW g \in Graphs, leases[g].job \in Jobs,
           NEW live \in BOOLEAN, leases' = [leases EXCEPT ![g].live = live],
           markers' = markers
    PROVE  SameLeases
<1>1. /\ leases'[g].job = leases[g].job
      /\ leases'[g].attempt = leases[g].attempt
      /\ leases'[g].epoch = leases[g].epoch
      /\ \A h \in Graphs \ {g} : leases'[h] = leases[h]
  BY DEF TypeOK, LeaseRows
<1>2. leases[g] # NoLease /\ leases'[g] # NoLease
  BY <1>1, NullAssumption DEF NoLease
<1> QED
  BY <1>1, <1>2 DEF SameLeases

\* An update of one attempt row that touches neither its epoch nor whether it
\* is current is a move of every job.
LEMMA AttemptUpdateMoves ==
    ASSUME TypeOK, NEW j \in Jobs, NEW n \in AttemptNumbers, NEW r,
           r.epoch = attempts[j][n].epoch,
           r.current = attempts[j][n].current,
           jobs' = jobs,
           attempts' = [attempts EXCEPT ![j][n] = r]
    PROVE  \A k \in Jobs : JobMove(k)
<1>1. \A k \in Jobs, m \in AttemptNumbers :
         /\ attempts'[k][m].epoch = attempts[k][m].epoch
         /\ attempts'[k][m].current = attempts[k][m].current
  BY DEF TypeOK
<1> QED
  BY <1>1 DEF JobMove

\* The transitions the coordinator asks for: a job in progress moves on, may
\* become uncertain only under reconciliation, or is closed unpublished.
LEMMA TransitionShape ==
    ASSUME NEW t \in CoordinatorTransitions
    PROVE  /\ t.expected \in AbandonedStates
           /\ \/ /\ t.new \in ActiveStates
                 /\ t.new \notin TerminalStates
                 /\ t.pub = "commit_unknown" =>
                       t.new = "reconciliation_required"
              \/ /\ t.new \in {"failed", "cancelled"}
                 /\ t.pub \in SafeUnpublished
  BY DEF CoordinatorTransitions, AbandonedStates, ActiveStates,
         TerminalStates, SafeUnpublished

\* The columns a compare-and-set writes.
LEMMA TransitionedFields ==
    ASSUME NEW t \in CoordinatorTransitions,
           NEW r \in JobRows, NEW a \in AttemptRows
    PROVE  /\ TransitionedJob(r, t).state = t.new
           /\ TransitionedJob(r, t).attempt = r.attempt
           /\ TransitionedJob(r, t).pub = CoalesceValue(t.pub, r.pub)
           /\ TransitionedAttempt(a, t).epoch = a.epoch
           /\ TransitionedAttempt(a, t).current
                 = (a.current /\ t.new \notin TerminalStates)
  BY DEF TransitionedJob, TransitionedAttempt, JobRows, AttemptRows

\* A compare-and-set is a move of every job.
LEMMA TransitionMoves ==
    ASSUME StoreInv, NEW j \in Jobs, NEW n \in AttemptNumbers,
           NEW t \in CoordinatorTransitions, compare_and_set_state(j, n, t)
    PROVE  \A k \in Jobs : JobMove(k)
<1> USE DEF StoreInv
<1>1. /\ jobs[j] \in JobRows /\ attempts[j][n] \in AttemptRows
      /\ jobs[j].state = t.expected
      /\ jobs[j].attempt = n
      /\ jobs[j].state \in ActiveStates
      /\ jobs[j].pub # "commit_unknown"
  BY AttemptRow, TransitionShape
     DEF compare_and_set_state, IsCurrent, TypeOK, ActiveStates,
         StateAgreesWithPublication, AbandonedStates
<1>2. /\ jobs'[j] = TransitionedJob(jobs[j], t)
      /\ attempts'[j][n] = TransitionedAttempt(attempts[j][n], t)
      /\ \A m \in AttemptNumbers \ {n} : attempts'[j][m] = attempts[j][m]
      /\ \A k \in Jobs \ {j} : jobs'[k] = jobs[k]
                               /\ attempts'[k] = attempts[k]
  BY DEF compare_and_set_state, TypeOK
<1>3. ASSUME NEW k \in Jobs \ {j} PROVE JobMove(k)
  BY <1>2 DEF JobMove
<1>4. /\ jobs'[j].state = t.new
      /\ jobs'[j].attempt = jobs[j].attempt
      /\ jobs'[j].pub = CoalesceValue(t.pub, jobs[j].pub)
      /\ \A m \in AttemptNumbers : attempts'[j][m].epoch = attempts[j][m].epoch
      /\ attempts'[j][n].current
            = (attempts[j][n].current /\ t.new \notin TerminalStates)
  BY <1>1, <1>2, TransitionedFields
<1>5. JobMove(j)
  <2>1. CASE t.new \in ActiveStates
    <3>1. jobs'[j].pub = "commit_unknown" =>
             jobs'[j].state = "reconciliation_required"
      BY <1>1, <1>4, <2>1, TransitionShape
         DEF CoalesceValue, ActiveStates, AbandonedStates
    <3>2. t.new \notin TerminalStates
      BY <2>1 DEF ActiveStates, AbandonedStates, TerminalStates
    <3>3. attempts'[j][n].current = attempts[j][n].current
      BY <1>1, <1>4, <3>2 DEF AttemptRows
    <3> QED
      BY <1>1, <1>2, <1>4, <2>1, <3>1, <3>3 DEF JobMove
  <2>2. CASE t.new \in {"failed", "cancelled"} /\ t.pub \in SafeUnpublished
    <3>1. t.new \in TerminalStates /\ t.pub # "null"
      BY <2>2 DEF TerminalStates, SafeUnpublished
    <3>2. jobs'[j].pub \in SafeUnpublished /\ ~attempts'[j][n].current
      BY Zenon, <1>4, <2>2, <3>1 DEF CoalesceValue
    <3>3. \A m \in AttemptNumbers : ~attempts'[j][m].current
      BY <1>1, <1>2, <3>2 DEF CurrentAttemptIsLatest
    <3> QED
      BY <1>1, <1>4, <2>2, <3>2, <3>3 DEF JobMove
  <2> QED
    BY <2>1, <2>2, TransitionShape
<1> QED
  BY <1>3, <1>5

\* Admission adds a queued job and moves no other.
LEMMA SubmitMoves ==
    ASSUME StoreInv, NEW j \in Jobs, submit(j)
    PROVE  \A k \in Jobs : JobMove(k)
<1> SUFFICES ASSUME NEW k \in Jobs PROVE JobMove(k)
  OBVIOUS
<1>1. /\ jobs'[k].attempt = jobs[k].attempt /\ jobs'[k].pub = jobs[k].pub
      /\ k = j => jobs[k].state = "absent" /\ jobs'[k].state = "queued"
      /\ k # j => jobs'[k].state = jobs[k].state
  BY DEF submit, StoreInv, TypeOK, JobRows
<1> QED
  BY <1>1 DEF submit, JobMove

\* An automatic request that coalesces changes queued rows only.
LEMMA CoalesceMoves ==
    ASSUME StoreInv, NEW j \in Jobs, coalesce_automatic(j)
    PROVE  \A k \in Jobs : JobMove(k)
<1> SUFFICES ASSUME NEW k \in Jobs PROVE JobMove(k)
  OBVIOUS
<1>1. /\ jobs'[k].attempt = jobs[k].attempt /\ jobs'[k].pub = jobs[k].pub
      /\ \/ jobs'[k].state = jobs[k].state
         \/ jobs[k].state = "absent" /\ jobs'[k].state = "queued"
         \/ jobs[k].state = "queued" /\ jobs'[k].state = "superseded"
  <2>1. jobs[k] \in JobRows
    BY DEF StoreInv, TypeOK
  <2>2. CASE k = j
    BY <2>1, <2>2 DEF coalesce_automatic, JobRows
  <2>3. CASE k # j /\ k = intents[GraphOf(j)].queued
    <3>1. jobs'[k] = [jobs[k] EXCEPT
                         !.state = IF k \in Superseded(j) THEN "superseded"
                                   ELSE @,
                         !.replacement = j]
      BY <2>3 DEF coalesce_automatic
    <3>2. k \in Superseded(j) => jobs[k].state = "queued"
      BY DEF Superseded
    <3> QED
      BY <2>1, <3>1, <3>2 DEF JobRows
  <2>4. CASE k # j /\ k # intents[GraphOf(j)].queued
    BY <2>4 DEF coalesce_automatic
  <2> QED
    BY <2>2, <2>3, <2>4
<1> QED
  BY <1>1 DEF coalesce_automatic, JobMove

\* A cancellation of a queued job closes it, one of a job in progress moves it
\* on.
LEMMA CancellationMoves ==
    ASSUME StoreInv, NEW j \in Jobs, request_cancellation(j)
    PROVE  \A k \in Jobs : JobMove(k)
<1> SUFFICES ASSUME NEW k \in Jobs PROVE JobMove(k)
  OBVIOUS
<1>1. /\ jobs'[k].attempt = jobs[k].attempt /\ jobs'[k].pub = jobs[k].pub
      /\ \/ jobs'[k].state = jobs[k].state
         \/ jobs[k].state = "queued" /\ jobs'[k].state = "cancelled"
         \/ /\ jobs[k].state \in {"claimed", "starting", "running"}
            /\ jobs'[k].state = "cancel_requested"
  <2>1. jobs[k] \in JobRows
    BY DEF StoreInv, TypeOK
  <2>2. CASE k # j
    BY <2>2 DEF request_cancellation, StoreInv, TypeOK
  <2>3. CASE k = j
    <3>1. jobs'[j] = CancelledJob(jobs[j])
      BY DEF request_cancellation, StoreInv, TypeOK
    <3>2. /\ CancelledJob(jobs[j]).attempt = jobs[j].attempt
          /\ CancelledJob(jobs[j]).pub = jobs[j].pub
          /\ CancelledJob(jobs[j]).state
                = IF jobs[j].state = "queued" THEN "cancelled"
                  ELSE "cancel_requested"
      BY <2>1 DEF JobRows, CancelledJob
    <3> QED
      BY <2>3, <3>1, <3>2 DEF request_cancellation
  <2> QED
    BY <2>2, <2>3
<1>2. jobs[k].pub = "commit_unknown" =>
         jobs[k].state \in {"reconciliation_required", "quarantined"}
  BY DEF StoreInv, StateAgreesWithPublication
<1> QED
  BY <1>1, <1>2 DEF request_cancellation, JobMove, ActiveStates,
     AbandonedStates

\* recover_abandoned makes the jobs of an older epoch uncertain.
LEMMA RecoveryMoves ==
    ASSUME StoreInv, NEW e \in Epochs, recover_abandoned_attempts(e)
    PROVE  \A k \in Jobs : JobMove(k)
<1> SUFFICES ASSUME NEW k \in Jobs PROVE JobMove(k)
  OBVIOUS
<1>1. \A m \in AttemptNumbers :
         /\ attempts'[k][m].epoch = attempts[k][m].epoch
         /\ attempts'[k][m].current = attempts[k][m].current
  <2> SUFFICES ASSUME NEW m \in AttemptNumbers
               PROVE  /\ attempts'[k][m].epoch = attempts[k][m].epoch
                      /\ attempts'[k][m].current = attempts[k][m].current
    OBVIOUS
  <2>1. \A r \in AttemptRows :
           LET q == [r EXCEPT !.finished = TRUE, !.digest = FALSE,
                              !.consumed = TRUE, !.pub = "commit_unknown"]
           IN  q.epoch = r.epoch /\ q.current = r.current
    BY DEF AttemptRows
  <2>2. \/ attempts'[k][m] = attempts[k][m]
        \/ attempts'[k][m] =
              [attempts[k][m] EXCEPT !.finished = TRUE, !.digest = FALSE,
                  !.consumed = TRUE, !.pub = "commit_unknown"]
    BY DEF recover_abandoned_attempts
  <2> QED
    BY ZenonT(30), <2>1, <2>2, AttemptRow DEF StoreInv
<1>2. /\ jobs'[k].attempt = jobs[k].attempt
      /\ \/ jobs'[k].pub = jobs[k].pub /\ jobs'[k].state = jobs[k].state
         \/ /\ jobs[k].state \in AbandonedStates
            /\ jobs'[k].state = "reconciliation_required"
  BY DEF recover_abandoned_attempts, Abandoned, StoreInv, TypeOK, JobRows
<1> QED
  BY <1>1, <1>2 DEF JobMove, ActiveStates

\* The closure of an uncertain attempt records that nothing was published.
LEMMA ClosureMoves ==
    ASSUME StoreInv, NEW e \in Epochs, NEW j \in Jobs, NEW n \in AttemptNumbers,
           execute_durable_closure(e, j, n)
    PROVE  \A k \in Jobs : JobMove(k)
<1> SUFFICES ASSUME NEW k \in Jobs PROVE JobMove(k)
  OBVIOUS
<1>1. \A m \in AttemptNumbers :
         /\ attempts'[k][m].epoch = attempts[k][m].epoch
         /\ attempts'[k][m].current = attempts[k][m].current
  BY DEF execute_durable_closure, StoreInv, TypeOK, AttemptRows
<1>2. /\ jobs'[k].attempt = jobs[k].attempt
      /\ jobs'[k].state = jobs[k].state
      /\ \/ jobs'[k].pub = jobs[k].pub
         \/ /\ jobs[k].state = "reconciliation_required"
            /\ jobs'[k].pub = "not_started"
  BY DEF execute_durable_closure, RestartCurrency, StoreInv, TypeOK, JobRows
<1> QED
  BY <1>1, <1>2 DEF JobMove, ActiveStates

\* A client's cancellation, a coordinator's start or stop, the passing of
\* time, a registration or a marker takes no lease and closes no attempt.
LEMMA MovingStep ==
    ASSUME StoreInv, TypeOK',
           \/ OwnerNext \/ ClientNext
           \/ \E j \in Jobs, n \in AttemptNumbers :
                 \/ \E t \in CoordinatorTransitions :
                       compare_and_set_state(j, n, t)
                 \/ heartbeat_attempt(j, n)
                 \/ persist_supervisor_registration(j, n)
                 \/ consume_supervisor_registration(j, n)
                 \/ \E outcome \in {"committed", "conflicting"} :
                       record_publication_marker(j, n, outcome)
                 \/ \E e \in Epochs : mark_attempt_terminated(e, j, n)
                 \/ \E e \in Epochs : execute_durable_closure(e, j, n)
           \/ \E e \in Epochs : recover_abandoned_attempts(e)
    PROVE  SameLeases /\ \A k \in Jobs : JobMove(k)
<1>1. CASE OwnerNext
  <2>1. UNCHANGED <<jobs, attempts, markers>>
    BY <1>1 DEF OwnerNext, acquire_singleton, singleton_expires,
       stop_singleton, lease_expires
  <2>2. ASSUME NEW g \in Graphs, lease_expires(g)
        PROVE  SameLeases
    <3>1. leases[g] # NoLease
      BY <2>2 DEF lease_expires, NoLease
    <3>2. leases[g].job \in Jobs
      BY <3>1 DEF StoreInv, LeaseNamesItsJob
    <3> QED
      BY Zenon, <2>2, <3>2, RenewedLease DEF lease_expires, StoreInv
  <2>3. leases' = leases => SameLeases
    BY <2>1 DEF SameLeases
  <2>4. SameLeases
    BY <1>1, <2>2, <2>3 DEF OwnerNext, acquire_singleton,
       singleton_expires, stop_singleton
  <2> QED
    BY <2>1, <2>4, NoMove
<1>2. CASE ClientNext
  <2>1. UNCHANGED <<leases, markers>>
    BY <1>2 DEF ClientNext, submit, coalesce_automatic, request_cancellation
  <2> QED
    BY <1>2, <2>1, NoLeaseChange, SubmitMoves, CoalesceMoves,
       CancellationMoves DEF ClientNext
<1>3. ASSUME NEW j \in Jobs, NEW n \in AttemptNumbers,
             NEW t \in CoordinatorTransitions, compare_and_set_state(j, n, t)
      PROVE  SameLeases /\ \A k \in Jobs : JobMove(k)
  BY Zenon, <1>3, TransitionMoves, NoLeaseChange DEF compare_and_set_state
<1>4. ASSUME NEW j \in Jobs, NEW n \in AttemptNumbers, heartbeat_attempt(j, n)
      PROVE  SameLeases /\ \A k \in Jobs : JobMove(k)
  <2>1. SameLeases
    BY Zenon, <1>4, RequestTypes, RenewedLease
       DEF heartbeat_attempt, HoldsLease, StoreInv
  <2> QED
    BY <1>4, <2>1, NoMove DEF heartbeat_attempt
<1>5. ASSUME NEW j \in Jobs, NEW n \in AttemptNumbers,
             persist_supervisor_registration(j, n)
      PROVE  SameLeases /\ \A k \in Jobs : JobMove(k)
  <2> DEFINE r == [attempts[j][n] EXCEPT !.digest = TRUE]
  <2>1. r.epoch = attempts[j][n].epoch /\ r.current = attempts[j][n].current
    BY AttemptRow DEF StoreInv, AttemptRows
  <2>2. attempts' = [attempts EXCEPT ![j][n] = r]
    BY <1>5 DEF persist_supervisor_registration
  <2> QED
    BY Zenon, <1>5, <2>1, <2>2, AttemptUpdateMoves, NoLeaseChange
       DEF persist_supervisor_registration, StoreInv
<1>6. ASSUME NEW j \in Jobs, NEW n \in AttemptNumbers,
             consume_supervisor_registration(j, n)
      PROVE  SameLeases /\ \A k \in Jobs : JobMove(k)
  <2> DEFINE r == [attempts[j][n] EXCEPT !.consumed = TRUE]
  <2>1. r.epoch = attempts[j][n].epoch /\ r.current = attempts[j][n].current
    BY AttemptRow DEF StoreInv, AttemptRows
  <2>2. attempts' = [attempts EXCEPT ![j][n] = r]
    BY <1>6 DEF consume_supervisor_registration
  <2> QED
    BY ZenonT(30), <1>6, <2>1, <2>2, AttemptUpdateMoves, NoLeaseChange
       DEF consume_supervisor_registration, StoreInv
<1>7. ASSUME NEW e \in Epochs, NEW j \in Jobs, NEW n \in AttemptNumbers,
             mark_attempt_terminated(e, j, n)
      PROVE  SameLeases /\ \A k \in Jobs : JobMove(k)
  <2> DEFINE r == [attempts[j][n] EXCEPT !.finished = TRUE]
  <2>1. r.epoch = attempts[j][n].epoch /\ r.current = attempts[j][n].current
    BY AttemptRow DEF StoreInv, AttemptRows
  <2>2. attempts' = [attempts EXCEPT ![j][n] = r]
    BY <1>7 DEF mark_attempt_terminated
  <2> QED
    BY Zenon, <1>7, <2>1, <2>2, AttemptUpdateMoves, NoLeaseChange
       DEF mark_attempt_terminated, StoreInv
<1>8. ASSUME NEW j \in Jobs, NEW n \in AttemptNumbers,
             NEW outcome \in {"committed", "conflicting"},
             record_publication_marker(j, n, outcome)
      PROVE  SameLeases /\ \A k \in Jobs : JobMove(k)
  <2>1. SameLeases
    BY <1>8 DEF record_publication_marker, SameLeases, StoreInv, TypeOK
  <2> QED
    BY <1>8, <2>1, NoMove DEF record_publication_marker
<1>9. ASSUME NEW e \in Epochs, NEW j \in Jobs, NEW n \in AttemptNumbers,
             execute_durable_closure(e, j, n)
      PROVE  SameLeases /\ \A k \in Jobs : JobMove(k)
  BY <1>9, ClosureMoves, NoLeaseChange DEF execute_durable_closure
<1>10. ASSUME NEW e \in Epochs, recover_abandoned_attempts(e)
       PROVE  SameLeases /\ \A k \in Jobs : JobMove(k)
  BY <1>10, RecoveryMoves, NoLeaseChange DEF recover_abandoned_attempts
<1> QED
  BY <1>1, <1>2, <1>3, <1>4, <1>5, <1>6, <1>7, <1>8, <1>9, <1>10

\* The invariant in terms of single rows, as the remaining steps use it.
LEMMA ActiveUnique ==
    ASSUME StoreInv, NEW j \in Jobs, NEW k \in Jobs, GraphOf(j) = GraphOf(k),
           jobs[k].state \in ActiveStates,
           leases[GraphOf(j)] = NoLease \/ leases[GraphOf(j)].job = j
    PROVE  j = k
  BY NullAssumption DEF StoreInv, ActiveJobHoldsLease, HoldsLease, NoLease

\* claim_once takes the lease of a graph that nobody holds.
LEMMA ClaimStep ==
    ASSUME StoreInv, TypeOK', NEW e \in Epochs, NEW j \in Jobs,
           claim_once(e, j)
    PROVE  StoreInv'
<1> DEFINE n == jobs[j].attempt + 1
           g == GraphOf(j)
<1> USE DEF StoreInv
<1>1. /\ jobs[j].state = "queued" /\ leases[g] = NoLease
      /\ n \in AttemptNumbers /\ g \in Graphs /\ jobs[j] \in JobRows
      /\ jobs[j].pub = "not_started"
  <2>1. jobs[j] \in JobRows /\ g \in Graphs
    BY RequestTypes DEF TypeOK
  <2>2. jobs[j].attempt \in 0 .. MaxAttempts /\ jobs[j].attempt < MaxAttempts
    BY <2>1 DEF JobRows, claim_once, Claimable
  <2>3. n \in AttemptNumbers
    BY <2>2, LimitsAssumption DEF AttemptNumbers
  <2> QED
    BY <2>1, <2>3 DEF claim_once, Claimable, StateAgreesWithPublication
<1>2. /\ jobs'[j].state = "claimed" /\ jobs'[j].attempt = n
      /\ jobs'[j].pub = jobs[j].pub
      /\ \A k \in Jobs \ {j} : jobs'[k] = jobs[k]
  BY <1>1 DEF claim_once, TypeOK, JobRows
<1>3. /\ attempts'[j][n].epoch = e /\ attempts'[j][n].current
      /\ \A m \in AttemptNumbers \ {n} : attempts'[j][m] = attempts[j][m]
      /\ \A k \in Jobs \ {j} : attempts'[k] = attempts[k]
  BY <1>1 DEF claim_once, TypeOK, NoAttempt
<1>4. /\ leases'[g].job = j /\ leases'[g].attempt = n /\ leases'[g].epoch = e
      /\ \A h \in Graphs \ {g} : leases'[h] = leases[h]
      /\ markers' = markers
  BY <1>1 DEF claim_once, TypeOK
<1> HIDE DEF n, g
<1>5. ActiveJobHoldsLease'
  <2> SUFFICES ASSUME NEW k \in Jobs, jobs'[k].state \in ActiveStates
               PROVE  /\ jobs'[k].attempt \in AttemptNumbers
                      /\ attempts'[k][jobs'[k].attempt].current
                      /\ HoldsLease(k, jobs[k].attempt)'
    BY DEF ActiveJobHoldsLease
  <2>1. CASE k = j
    BY <1>1, <1>2, <1>3, <1>4, <2>1 DEF HoldsLease, g
  <2>2. CASE k # j
    <3>1. GraphOf(k) # g /\ GraphOf(k) \in Graphs
      BY <1>1, <1>2, <2>2, ActiveUnique, RequestTypes DEF g
    <3> QED
      BY <1>2, <1>3, <1>4, <2>2, <3>1 DEF ActiveJobHoldsLease, HoldsLease
  <2> QED
    BY <2>1, <2>2
<1>6. CurrentAttemptIsLatest'
  <2>1. \A m \in AttemptNumbers : ~attempts[j][m].current
    BY <1>1 DEF CurrentAttemptIsLatest, ActiveStates, AbandonedStates
  <2> QED
    BY <1>2, <1>3, <2>1 DEF CurrentAttemptIsLatest, ActiveStates,
       AbandonedStates
<1>7. LeaseNamesItsJob'
  <2> SUFFICES ASSUME NEW h \in Graphs, leases'[h] # NoLease
               PROVE  /\ leases'[h].job \in Jobs
                      /\ GraphOf(leases'[h].job) = h
                      /\ leases'[h].attempt \in AttemptNumbers
                      /\ leases'[h].attempt = jobs'[leases'[h].job].attempt
                      /\ leases'[h].epoch =
                            attempts'[leases'[h].job][leases'[h].attempt].epoch
                      /\ jobs'[leases'[h].job].state
                            \in ActiveStates \cup TerminalStates
    BY DEF LeaseNamesItsJob
  <2>1. CASE h = g
    BY <1>1, <1>2, <1>3, <1>4, <2>1 DEF g, ActiveStates, AbandonedStates
  <2>2. CASE h # g
    BY <1>1, <1>2, <1>3, <1>4, <2>2 DEF g, LeaseNamesItsJob
  <2> QED
    BY <2>1, <2>2
<1>8. StateAgreesWithPublication'
  BY <1>1, <1>2, <1>4 DEF StateAgreesWithPublication
<1> QED
  BY <1>5, <1>6, <1>7, <1>8

\* A transaction that closes the current attempt of one job and deletes the
\* lease of its graph, or one that deletes the lease of a terminal job, keeps
\* the invariant when it leaves that job queued or terminal.
LEMMA LeaseDeleted ==
    ASSUME StoreInv, TypeOK', NEW j \in Jobs,
           leases[GraphOf(j)].job = j,
           leases' = [leases EXCEPT ![GraphOf(j)] = NoLease],
           markers' = markers,
           \A k \in Jobs \ {j} : jobs'[k] = jobs[k]
                                 /\ attempts'[k] = attempts[k],
           jobs'[j].attempt = jobs[j].attempt,
           \A m \in AttemptNumbers :
              attempts'[j][m].epoch = attempts[j][m].epoch
              /\ ~attempts'[j][m].current,
           jobs'[j].state \in {"queued"} \cup TerminalStates,
           jobs'[j].state = "queued" => jobs'[j].pub = "not_started",
           jobs'[j].state \in {"failed", "cancelled", "superseded"} =>
              jobs'[j].pub \in SafeUnpublished,
           jobs'[j].state = "succeeded" =>
              /\ jobs'[j].pub = "committed"
              /\ jobs[j].attempt \in AttemptNumbers
              /\ markers[j][jobs[j].attempt] = "committed"
    PROVE  StoreInv'
<1> DEFINE g == GraphOf(j)
<1> USE DEF StoreInv
<1>1. /\ g \in Graphs /\ leases'[g] = NoLease
      /\ \A h \in Graphs \ {g} : leases'[h] = leases[h]
  BY RequestTypes DEF TypeOK
<1>2. jobs'[j].state \notin ActiveStates
  BY DEF ActiveStates, AbandonedStates, TerminalStates
<1> HIDE DEF g
<1>3. ActiveJobHoldsLease'
  <2> SUFFICES ASSUME NEW k \in Jobs, jobs'[k].state \in ActiveStates
               PROVE  /\ jobs'[k].attempt \in AttemptNumbers
                      /\ attempts'[k][jobs'[k].attempt].current
                      /\ HoldsLease(k, jobs[k].attempt)'
    BY DEF ActiveJobHoldsLease
  <2>1. k # j
    BY <1>2
  <2>2. GraphOf(k) # g /\ GraphOf(k) \in Graphs
    BY <2>1, ActiveUnique, RequestTypes DEF g
  <2> QED
    BY <1>1, <2>1, <2>2 DEF ActiveJobHoldsLease, HoldsLease
<1>4. CurrentAttemptIsLatest'
  BY DEF CurrentAttemptIsLatest
<1>5. LeaseNamesItsJob'
  <2> SUFFICES ASSUME NEW h \in Graphs, leases'[h] # NoLease
               PROVE  /\ leases'[h].job \in Jobs
                      /\ GraphOf(leases'[h].job) = h
                      /\ leases'[h].attempt \in AttemptNumbers
                      /\ leases'[h].attempt = jobs'[leases'[h].job].attempt
                      /\ leases'[h].epoch =
                            attempts'[leases'[h].job][leases'[h].attempt].epoch
                      /\ jobs'[leases'[h].job].state
                            \in ActiveStates \cup TerminalStates
    BY DEF LeaseNamesItsJob
  <2>1. h # g /\ leases'[h] = leases[h]
    BY <1>1
  <2>2. leases[h].job # j
    BY <2>1 DEF LeaseNamesItsJob, g
  <2> QED
    BY <2>1, <2>2 DEF LeaseNamesItsJob
<1>6. StateAgreesWithPublication'
  <2> SUFFICES ASSUME NEW k \in Jobs
               PROVE
        /\ jobs'[k].state = "succeeded" =>
              /\ jobs'[k].pub = "committed"
              /\ jobs'[k].attempt \in AttemptNumbers
              /\ markers'[k][jobs'[k].attempt] = "committed"
        /\ jobs'[k].state \in {"failed", "cancelled", "superseded"} =>
              jobs'[k].pub \in SafeUnpublished
        /\ jobs'[k].state \in {"absent", "queued"} =>
              jobs'[k].pub = "not_started"
        /\ jobs'[k].pub = "commit_unknown" =>
              jobs'[k].state \in {"reconciliation_required", "quarantined"}
    BY DEF StateAgreesWithPublication
  <2>1. CASE k = j
    BY <2>1 DEF TerminalStates, SafeUnpublished
  <2>2. CASE k # j
    BY <2>2 DEF StateAgreesWithPublication
  <2> QED
    BY <2>1, <2>2
<1> QED
  BY <1>3, <1>4, <1>5, <1>6

\* release_graph_lease deletes the lease of a terminal job.
LEMMA ReleaseStep ==
    ASSUME StoreInv, TypeOK', NEW e \in Epochs, NEW j \in Jobs,
           NEW n \in AttemptNumbers, release_graph_lease(e, j, n)
    PROVE  StoreInv'
<1>1. jobs[j].state \in TerminalStates /\ leases[GraphOf(j)].job = j
  BY DEF release_graph_lease, ReleasableJob, HoldsLease, TerminalStates
<1>2. \A m \in AttemptNumbers : ~attempts[j][m].current
  BY <1>1 DEF StoreInv, CurrentAttemptIsLatest, ActiveStates,
     AbandonedStates, TerminalStates
<1>3. StateAgreesWithPublication
  BY DEF StoreInv
<1> QED
  BY Zenon, <1>1, <1>2, <1>3, LeaseDeleted
     DEF release_graph_lease, StateAgreesWithPublication, TerminalStates

\* A current attempt of a job is its latest one and holds its graph's lease.
LEMMA CurrentHolds ==
    ASSUME StoreInv, NEW j \in Jobs, NEW n \in AttemptNumbers,
           IsCurrent(j, n)
    PROVE  /\ jobs[j].attempt = n /\ jobs[j].state \in ActiveStates
           /\ HoldsLease(j, n)
           /\ \A m \in AttemptNumbers \ {n} : ~attempts[j][m].current
  BY DEF StoreInv, IsCurrent, CurrentAttemptIsLatest, ActiveJobHoldsLease

\* schedule_retry queues the job again and gives its lease back.
LEMMA RetryStep ==
    ASSUME StoreInv, TypeOK', NEW j \in Jobs, NEW n \in AttemptNumbers,
           schedule_retry(j, n)
    PROVE  StoreInv'
<1>1. /\ jobs[j].attempt = n /\ HoldsLease(j, n)
      /\ \A m \in AttemptNumbers \ {n} : ~attempts[j][m].current
      /\ jobs[j] \in JobRows /\ attempts[j][n] \in AttemptRows
  BY CurrentHolds, AttemptRow DEF schedule_retry, StoreInv, TypeOK
<1>2. /\ jobs'[j].state = "queued" /\ jobs'[j].pub = "not_started"
      /\ jobs'[j].attempt = jobs[j].attempt
      /\ \A k \in Jobs \ {j} : jobs'[k] = jobs[k]
  BY <1>1 DEF schedule_retry, StoreInv, TypeOK, JobRows
<1>3. /\ attempts'[j][n] =
            [attempts[j][n] EXCEPT !.current = FALSE, !.finished = TRUE]
      /\ \A m \in AttemptNumbers \ {n} : attempts'[j][m] = attempts[j][m]
      /\ \A k \in Jobs \ {j} : attempts'[k] = attempts[k]
  BY DEF schedule_retry, StoreInv, TypeOK
<1>4. attempts'[j][n].epoch = attempts[j][n].epoch /\ ~attempts'[j][n].current
  BY <1>1, <1>3 DEF AttemptRows
<1>5. \A m \in AttemptNumbers : attempts'[j][m].epoch = attempts[j][m].epoch
                                /\ ~attempts'[j][m].current
  BY Zenon, <1>1, <1>3, <1>4
<1>6. /\ leases' = [leases EXCEPT ![GraphOf(j)] = NoLease]
      /\ leases[GraphOf(j)].job = j
      /\ markers' = markers
  BY <1>1 DEF schedule_retry, HoldsLease
<1> QED
  BY ZenonT(30), <1>2, <1>3, <1>5, <1>6, LeaseDeleted

\* What each verdict of a reconciliation leaves in the job row.
LEMMA VerdictShape ==
    ASSUME NEW j \in Jobs, NEW n \in AttemptNumbers, NEW proved \in BOOLEAN,
           NEW v, v = Verdict(j, n, proved), v # "reconciliation_required"
    PROVE  /\ v \in {"queued"} \cup TerminalStates
           /\ v = "queued" => ClosedJobPublication(j, v) = "not_started"
           /\ v \in {"failed", "cancelled", "superseded"} =>
                 ClosedJobPublication(j, v) \in SafeUnpublished
           /\ v = "succeeded" =>
                 /\ ClosedJobPublication(j, v) = "committed"
                 /\ markers[j][n] = "committed"
<1>1. v \in {"succeeded", "quarantined", "cancelled", "failed", "queued"}
  BY VerdictTypes
<1>2. v = "succeeded" => markers[j][n] = "committed"
  BY DEF Verdict
<1> QED
  BY <1>1, <1>2 DEF ClosedJobPublication, TerminalStates, SafeUnpublished

\* reconcile_publication closes the uncertain attempt and gives its lease
\* back.
LEMMA ReconcileStep ==
    ASSUME StoreInv, TypeOK', NEW e \in Epochs, NEW j \in Jobs,
           NEW n \in AttemptNumbers, NEW proved \in BOOLEAN,
           reconcile_publication(e, j, n, proved)
    PROVE  StoreInv'
<1> DEFINE v == Verdict(j, n, proved)
           p == ClosedJobPublication(j, v)
           c == ClosedCategory(j, n, v)
           q == ClosedAttemptPublication(j, v)
<1>1. /\ jobs[j].attempt = n /\ HoldsLease(j, n)
      /\ \A m \in AttemptNumbers \ {n} : ~attempts[j][m].current
      /\ jobs[j] \in JobRows /\ attempts[j][n] \in AttemptRows
  BY CurrentHolds, AttemptRow DEF reconcile_publication, StoreInv, TypeOK
<1>2. /\ v # "reconciliation_required"
      /\ jobs' = [jobs EXCEPT ![j] =
            [jobs[j] EXCEPT !.state = v, !.pub = p, !.category = c]]
      /\ attempts' = [attempts EXCEPT ![j][n] =
            [attempts[j][n] EXCEPT !.current = FALSE, !.digest = FALSE,
                                   !.pub = q]]
      /\ leases' = [leases EXCEPT ![GraphOf(j)] = NoLease]
      /\ markers' = markers
  BY DEF reconcile_publication
<1>3. /\ v \in {"queued"} \cup TerminalStates
      /\ v = "queued" => p = "not_started"
      /\ v \in {"failed", "cancelled", "superseded"} => p \in SafeUnpublished
      /\ v = "succeeded" => p = "committed" /\ markers[j][n] = "committed"
  BY <1>2, VerdictShape
<1> HIDE DEF v, p, c, q
<1>4. /\ jobs'[j].state = v /\ jobs'[j].pub = p
      /\ jobs'[j].attempt = jobs[j].attempt
      /\ \A k \in Jobs \ {j} : jobs'[k] = jobs[k]
  BY <1>1, <1>2 DEF StoreInv, TypeOK, JobRows
<1>5. /\ attempts'[j][n] =
            [attempts[j][n] EXCEPT !.current = FALSE, !.digest = FALSE,
                                   !.pub = q]
      /\ \A m \in AttemptNumbers \ {n} : attempts'[j][m] = attempts[j][m]
      /\ \A k \in Jobs \ {j} : attempts'[k] = attempts[k]
  BY <1>2 DEF StoreInv, TypeOK
<1>6. attempts'[j][n].epoch = attempts[j][n].epoch /\ ~attempts'[j][n].current
  BY <1>1, <1>5 DEF AttemptRows
<1>7. \A m \in AttemptNumbers : attempts'[j][m].epoch = attempts[j][m].epoch
                                /\ ~attempts'[j][m].current
  BY ZenonT(30), <1>1, <1>5, <1>6
<1>8. leases[GraphOf(j)].job = j
  BY <1>1 DEF HoldsLease
<1>9. /\ jobs'[j].state \in {"queued"} \cup TerminalStates
      /\ jobs'[j].state = "queued" => jobs'[j].pub = "not_started"
      /\ jobs'[j].state \in {"failed", "cancelled", "superseded"} =>
            jobs'[j].pub \in SafeUnpublished
      /\ jobs'[j].state = "succeeded" =>
            /\ jobs'[j].pub = "committed"
            /\ jobs[j].attempt \in AttemptNumbers
            /\ markers[j][jobs[j].attempt] = "committed"
  BY <1>1, <1>3, <1>4
<1> QED
  BY ZenonT(30), <1>2, <1>4, <1>5, <1>7, <1>8, <1>9, LeaseDeleted

\* cleanup_terminal removes terminal jobs that no lease names.
LEMMA CleanupStep ==
    ASSUME StoreInv, TypeOK', NEW D \in SUBSET CleanupCandidates,
           cleanup_terminal(D)
    PROVE  StoreInv'
<1> USE DEF StoreInv
<1>1. \A k \in D : /\ k \in Jobs /\ jobs[k].state \in TerminalStates
                   /\ \A g \in Graphs : leases[g].job # k
  BY DEF CleanupCandidates
<1>2. \A k \in D : /\ jobs'[k].state = "deleted"
                   /\ jobs'[k].pub = "not_started"
                   /\ \A n \in AttemptNumbers : ~attempts'[k][n].current
  BY <1>1 DEF cleanup_terminal, AbsentJob, NoAttempt
<1>3. /\ \A k \in Jobs \ D : /\ jobs'[k] = jobs[k]
                             /\ attempts'[k] = attempts[k]
                             /\ markers'[k] = markers[k]
      /\ leases' = leases
  BY DEF cleanup_terminal
<1>4. ActiveJobHoldsLease'
  <2> SUFFICES ASSUME NEW k \in Jobs, jobs'[k].state \in ActiveStates
               PROVE  /\ jobs'[k].attempt \in AttemptNumbers
                      /\ attempts'[k][jobs'[k].attempt].current
                      /\ HoldsLease(k, jobs[k].attempt)'
    BY DEF ActiveJobHoldsLease
  <2>1. k \notin D
    BY <1>2 DEF ActiveStates, AbandonedStates
  <2> QED
    BY <1>3, <2>1 DEF ActiveJobHoldsLease, HoldsLease
<1>5. CurrentAttemptIsLatest'
  BY <1>2, <1>3 DEF CurrentAttemptIsLatest
<1>6. LeaseNamesItsJob'
  BY <1>1, <1>3 DEF LeaseNamesItsJob
<1>7. StateAgreesWithPublication'
  BY <1>2, <1>3 DEF StateAgreesWithPublication
<1> QED
  BY <1>4, <1>5, <1>6, <1>7

\* Every transaction of the store keeps the invariant.
LEMMA StoreInvStep == StoreInv /\ [Next]_storeVars => StoreInv'
<1> SUFFICES ASSUME StoreInv, [Next]_storeVars PROVE StoreInv'
  OBVIOUS
<1>1. TypeOK'
  BY TypeStep DEF StoreInv
<1>2. CASE UNCHANGED storeVars
  <2>1. /\ jobs' = jobs /\ attempts' = attempts
        /\ leases' = leases /\ markers' = markers
    BY <1>2 DEF storeVars
  <2>2. ActiveJobHoldsLease'
    BY <2>1 DEF StoreInv, ActiveJobHoldsLease, HoldsLease
  <2>3. CurrentAttemptIsLatest'
    BY <2>1 DEF StoreInv, CurrentAttemptIsLatest
  <2>4. LeaseNamesItsJob'
    BY <2>1 DEF StoreInv, LeaseNamesItsJob
  <2>5. StateAgreesWithPublication'
    BY <2>1 DEF StoreInv, StateAgreesWithPublication
  <2> QED
    BY <1>1, <2>2, <2>3, <2>4, <2>5 DEF StoreInv
<1>3. CASE Next
  BY <1>1, <1>3, MovingStep, MovesKeepInv, ClaimStep, ReleaseStep, RetryStep,
     ReconcileStep, CleanupStep DEF Next, AttemptNext, ReconcilerNext
<1> QED
  BY <1>2, <1>3

\* The empty control schema satisfies the invariant.
LEMMA StoreInvInit == Init => StoreInv
  BY TypeInit DEF Init, StoreInv, ActiveJobHoldsLease, CurrentAttemptIsLatest,
     LeaseNamesItsJob, StateAgreesWithPublication, AbsentJob, NoAttempt,
     ActiveStates, AbandonedStates

\* The invariant holds in every reachable state of the store: rows keep their
\* types, an active job holds its graph's lease through its latest attempt,
\* and job states and publication states never contradict each other.
THEOREM StoreInvariant == Spec => []StoreInv
  BY StoreInvInit, StoreInvStep, PTL DEF Spec

-----------------------------------------------------------------------------
(* Safety *)

\* Between its claim and its disposition a job has a current attempt that
\* holds the lease of the job's graph.
THEOREM ActiveJobsHoldTheirLease == Spec => []ActiveJobHoldsLease
<1>1. StoreInv => ActiveJobHoldsLease
  BY DEF StoreInv
<1> QED
  BY <1>1, StoreInvariant, PTL

\* Contract I1: at most one job is active on a graph.
THEOREM GraphsHaveOneActiveJob == Spec => []OneActiveJobPerGraph
<1>1. StoreInv => OneActiveJobPerGraph
  BY DEF StoreInv, OneActiveJobPerGraph, ActiveJobHoldsLease, HoldsLease
<1> QED
  BY <1>1, StoreInvariant, PTL

\* The state of a job and its publication state agree.
THEOREM StatesAgreeWithPublication == Spec => []StateAgreesWithPublication
<1>1. StoreInv => StateAgreesWithPublication
  BY DEF StoreInv
<1> QED
  BY <1>1, StoreInvariant, PTL

-----------------------------------------------------------------------------
(* What one transaction may do to a job *)

\* The epoch of the coordinator that claimed the job's latest attempt.
ClaimEpoch(k) == attempts[k][jobs[k].attempt].epoch

\* A job's state and publication stay, it has not been claimed, a client
\* cancels it, recovery sets it aside, its own coordinator moves it on, a
\* later coordinator closes it, a verdict is reached, or its row is removed.
JobChange(k) ==
    \/ jobs'[k].state = jobs[k].state /\ jobs'[k].pub = jobs[k].pub
    \/ jobs[k].state \in {"absent", "queued"}
    \/ /\ jobs[k].state \in AbandonedStates
       /\ jobs'[k].state = "cancel_requested"
    \/ /\ jobs[k].state \in AbandonedStates
       /\ jobs'[k].state = "reconciliation_required"
    \/ /\ jobs[k].state \in AbandonedStates
       /\ Authorised(ClaimEpoch(k))
    \/ /\ jobs[k].state = "reconciliation_required"
       /\ jobs'[k].state = "reconciliation_required"
       /\ owner.epoch > ClaimEpoch(k)
       /\ ~leases[GraphOf(k)].live
    \/ /\ jobs[k].state = "reconciliation_required"
       /\ \/ /\ jobs'[k].state = "succeeded"
             /\ markers[k][jobs[k].attempt] = "committed"
          \/ jobs'[k].pub = jobs[k].pub
          \/ jobs[k].pub # "commit_unknown"
    \/ /\ jobs[k].state \in TerminalStates
       /\ jobs[k].pub # "commit_unknown"
       /\ jobs'[k].state = "deleted"

\* Clients reach jobs before their claim, or ask for a cancellation.
LEMMA ClientChanges ==
    ASSUME StoreInv, NEW j \in Jobs, NEW k \in Jobs,
           submit(j) \/ coalesce_automatic(j) \/ request_cancellation(j)
    PROVE  JobChange(k)
<1>1. jobs[k] \in JobRows
  BY DEF StoreInv, TypeOK
<1>2. CASE submit(j)
  BY <1>2 DEF submit, JobChange, StoreInv, TypeOK
<1>3. CASE coalesce_automatic(j)
  <2>1. CASE k = j
    BY <1>3, <2>1 DEF coalesce_automatic, JobChange
  <2>2. CASE k # j /\ k = intents[GraphOf(j)].queued
    <3>1. jobs'[k] = [jobs[k] EXCEPT
                         !.state = IF k \in Superseded(j) THEN "superseded"
                                   ELSE @,
                         !.replacement = j]
      BY <1>3, <2>2 DEF coalesce_automatic
    <3>2. k \in Superseded(j) => jobs[k].state = "queued"
      BY DEF Superseded
    <3> QED
      BY <1>1, <3>1, <3>2 DEF JobRows, JobChange
  <2>3. CASE k # j /\ k # intents[GraphOf(j)].queued
    BY <1>3, <2>3 DEF coalesce_automatic, JobChange
  <2> QED
    BY <2>1, <2>2, <2>3
<1>4. CASE request_cancellation(j)
  <2>1. CASE k # j
    BY <1>4, <2>1 DEF request_cancellation, JobChange, StoreInv, TypeOK
  <2>2. CASE k = j
    <3>1. jobs'[j] = CancelledJob(jobs[j])
      BY <1>4 DEF request_cancellation, StoreInv, TypeOK
    <3>2. jobs[j].state # "queued" => jobs'[j].state = "cancel_requested"
      BY <1>1, <2>2, <3>1 DEF JobRows, CancelledJob
    <3> QED
      BY <1>4, <2>2, <3>2
         DEF request_cancellation, JobChange, AbandonedStates
  <2> QED
    BY <2>1, <2>2
<1> QED
  BY <1>2, <1>3, <1>4

\* The coordinator of an attempt changes its own job only, while authorised.
LEMMA OwnChanges ==
    ASSUME StoreInv, NEW j \in Jobs, NEW n \in AttemptNumbers, NEW k \in Jobs,
           schedule_retry(j, n) \/ \E t \in CoordinatorTransitions :
                                      compare_and_set_state(j, n, t)
    PROVE  JobChange(k)
<1>1. CASE k # j
  BY <1>1 DEF schedule_retry, compare_and_set_state, JobChange, StoreInv,
     TypeOK
<1>2. CASE k = j
  <2>1. IsCurrent(j, n) /\ Authorised(attempts[j][n].epoch)
    BY DEF schedule_retry, compare_and_set_state, TransactionOf, Authorised
  <2>2. jobs[j].state \in AbandonedStates
    BY TransitionShape
       DEF schedule_retry, compare_and_set_state, AbandonedStates
  <2> QED
    BY <1>2, <2>1, <2>2 DEF JobChange, IsCurrent, ClaimEpoch
<1> QED
  BY <1>1, <1>2

\* A verdict on an uncertain attempt needs its marker.
LEMMA VerdictChanges ==
    ASSUME StoreInv, NEW e \in Epochs, NEW j \in Jobs, NEW n \in AttemptNumbers,
           NEW proved \in BOOLEAN, reconcile_publication(e, j, n, proved),
           NEW k \in Jobs
    PROVE  JobChange(k)
<1> DEFINE v == Verdict(j, n, proved)
           p == ClosedJobPublication(j, v)
           c == ClosedCategory(j, n, v)
<1>1. /\ v # "reconciliation_required"
      /\ jobs[j].state = "reconciliation_required" /\ jobs[j].attempt = n
      /\ jobs' = [jobs EXCEPT ![j] =
            [jobs[j] EXCEPT !.state = v, !.pub = p, !.category = c]]
  BY DEF reconcile_publication, IsCurrent
<1>2. \/ v = "succeeded" /\ markers[j][n] = "committed"
      \/ v = "quarantined" /\ p = jobs[j].pub
      \/ jobs[j].pub # "commit_unknown"
  BY <1>1 DEF Verdict, ClosedJobPublication
<1> HIDE DEF v, p, c
<1>3. /\ jobs'[j].state = v /\ jobs'[j].pub = p
      /\ \A i \in Jobs \ {j} : jobs'[i] = jobs[i]
  BY <1>1 DEF StoreInv, TypeOK, JobRows
<1> QED
  BY <1>1, <1>2, <1>3 DEF JobChange

\* A later coordinator sets jobs aside, and closes one whose lease is over.
LEMMA RestartChanges ==
    ASSUME StoreInv, NEW e \in Epochs, NEW k \in Jobs,
           \/ recover_abandoned_attempts(e)
           \/ \E j \in Jobs, n \in AttemptNumbers :
                 execute_durable_closure(e, j, n)
    PROVE  JobChange(k)
<1>1. jobs[k] \in JobRows
  BY DEF StoreInv, TypeOK
<1>2. CASE recover_abandoned_attempts(e)
  BY <1>1, <1>2
     DEF recover_abandoned_attempts, Abandoned, JobChange, JobRows
<1>3. ASSUME NEW j \in Jobs, NEW n \in AttemptNumbers,
             execute_durable_closure(e, j, n)
      PROVE  JobChange(k)
  <2>1. CASE k # j
    BY <1>3, <2>1 DEF execute_durable_closure, JobChange, StoreInv, TypeOK
  <2>2. CASE k = j
    BY <1>1, <1>3, <2>2
       DEF execute_durable_closure, RestartCurrency, OwnerLive, IsCurrent,
           JobChange, ClaimEpoch, StoreInv, TypeOK, JobRows
  <2> QED
    BY <2>1, <2>2
<1> QED
  BY <1>2, <1>3

\* Every transaction of the store, and every passing of time.
LEMMA EveryChange ==
    ASSUME StoreInv, Next, NEW k \in Jobs
    PROVE  JobChange(k)
<1>1. jobs' = jobs => JobChange(k)
  BY DEF JobChange
<1>2. CASE OwnerNext
  BY <1>1, <1>2 DEF OwnerNext, acquire_singleton, singleton_expires,
     stop_singleton, lease_expires
<1>3. CASE ClientNext
  BY <1>3, ClientChanges DEF ClientNext
<1>4. ASSUME NEW e \in Epochs, NEW j \in Jobs, claim_once(e, j)
      PROVE  JobChange(k)
  BY <1>4 DEF claim_once, Claimable, JobChange, StoreInv, TypeOK
<1>5. ASSUME NEW j \in Jobs, NEW n \in AttemptNumbers, AttemptNext(j, n)
      PROVE  JobChange(k)
  BY <1>1, <1>5, OwnChanges DEF AttemptNext, heartbeat_attempt,
     persist_supervisor_registration, consume_supervisor_registration,
     record_publication_marker
<1>6. ASSUME NEW e \in Epochs, NEW j \in Jobs, NEW n \in AttemptNumbers,
             ReconcilerNext(e, j, n)
      PROVE  JobChange(k)
  BY <1>1, <1>6, VerdictChanges, RestartChanges DEF ReconcilerNext,
     mark_attempt_terminated, release_graph_lease
<1>7. ASSUME NEW D \in SUBSET CleanupCandidates, cleanup_terminal(D)
      PROVE  JobChange(k)
  BY <1>7 DEF cleanup_terminal, CleanupCandidates, AbsentJob, JobChange
<1> QED
  BY <1>2, <1>3, <1>4, <1>5, <1>6, <1>7, RestartChanges DEF Next

-----------------------------------------------------------------------------
(* What follows for the history of a job *)

\* A terminal job changes no more, up to the removal of its row, and its
\* attempts stay closed, whatever late transactions arrive.
THEOREM DispositionsAreFinal == Spec => DispositionIsFinal
<1> DEFINE Final ==
      \A j \in Jobs : jobs[j].state \in TerminalStates =>
          /\ jobs'[j].state \in {jobs[j].state, "deleted"}
          /\ \A n \in AttemptNumbers : ~attempts'[j][n].current
<1>1. ASSUME StoreInv, StoreInv', Next PROVE Final
  <2> SUFFICES ASSUME NEW j \in Jobs, jobs[j].state \in TerminalStates
               PROVE  /\ jobs'[j].state \in {jobs[j].state, "deleted"}
                      /\ \A n \in AttemptNumbers : ~attempts'[j][n].current
    OBVIOUS
  <2>1. jobs'[j].state \in {jobs[j].state, "deleted"}
    BY <1>1, EveryChange DEF JobChange, TerminalStates, AbandonedStates
  <2>2. jobs'[j].state \notin ActiveStates
    BY <2>1 DEF TerminalStates, ActiveStates, AbandonedStates
  <2> QED
    BY <1>1, <2>1, <2>2 DEF StoreInv, CurrentAttemptIsLatest
<1>2. StoreInv /\ StoreInv' /\ [Next]_storeVars => [Final]_storeVars
  BY <1>1
<1> QED
  BY <1>2, StoreInvariant, PTL DEF Spec, DispositionIsFinal

\* A coordinator that lost the singleton, with no transaction left open, moves
\* none of its jobs on: they are cancelled by a client or taken over.
THEOREM StaleOwnersStop == Spec => StaleOwnerCannotAdvance
<1> DEFINE Stays ==
      \A j \in Jobs :
          LET n == jobs[j].attempt IN
          /\ jobs[j].state \in AbandonedStates
          /\ ~Authorised(attempts[j][n].epoch)
          => jobs'[j].state \in {jobs[j].state, "cancel_requested",
                                 "reconciliation_required"}
<1>1. ASSUME StoreInv, Next PROVE Stays
  <2> SUFFICES ASSUME NEW j \in Jobs, jobs[j].state \in AbandonedStates,
                      ~Authorised(ClaimEpoch(j))
               PROVE  jobs'[j].state \in {jobs[j].state, "cancel_requested",
                                          "reconciliation_required"}
    BY DEF ClaimEpoch
  <2> QED
    BY <1>1, EveryChange DEF JobChange, TerminalStates, AbandonedStates
<1>2. StoreInv /\ [Next]_storeVars => [Stays]_storeVars
  BY <1>1
<1> QED
  BY <1>2, StoreInvariant, PTL DEF Spec, StaleOwnerCannotAdvance

\* An uncertain publication is decided only by a committed marker, or by the
\* closure of a later coordinator after the attempt's lease expired.
THEOREM UncertaintyIsDecidedByEvidence == Spec => UncertaintyNeedsEvidence
<1> DEFINE Evidence ==
      \A j \in Jobs :
          LET n == jobs[j].attempt IN
          jobs[j].pub = "commit_unknown" /\ jobs'[j].pub # "commit_unknown" =>
              \/ markers[j][n] = "committed" /\ jobs'[j].state = "succeeded"
              \/ /\ jobs'[j].state = "reconciliation_required"
                 /\ owner.epoch > attempts[j][n].epoch
                 /\ ~leases[GraphOf(j)].live
<1>1. ASSUME StoreInv, Next PROVE Evidence
  <2> SUFFICES ASSUME NEW j \in Jobs, jobs[j].pub = "commit_unknown",
                      jobs'[j].pub # "commit_unknown"
               PROVE  \/ /\ markers[j][jobs[j].attempt] = "committed"
                         /\ jobs'[j].state = "succeeded"
                      \/ /\ jobs'[j].state = "reconciliation_required"
                         /\ owner.epoch > ClaimEpoch(j)
                         /\ ~leases[GraphOf(j)].live
    BY DEF ClaimEpoch
  <2>1. jobs[j].state \in {"reconciliation_required", "quarantined"}
    BY <1>1 DEF StoreInv, StateAgreesWithPublication
  <2> QED
    BY <1>1, <2>1, EveryChange DEF JobChange, AbandonedStates
<1>2. StoreInv /\ [Next]_storeVars => [Evidence]_storeVars
  BY <1>1
<1> QED
  BY <1>2, StoreInvariant, PTL DEF Spec, UncertaintyNeedsEvidence

-----------------------------------------------------------------------------
(* Replacements are retained *)

\* The queued job of an intent belongs to the intent's graph.
IntentsNameTheirGraph ==
    \A g \in Graphs : intents[g].queued # NoJob =>
        GraphOf(intents[g].queued) = g

\* A transaction that links, removes and supersedes nothing.
Unlinked ==
    \A k \in Jobs :
        /\ jobs'[k].replacement = jobs[k].replacement
        /\ HasRow(k) => jobs'[k].state \notin {"absent", "deleted"}
        /\ jobs'[k].state = "superseded" => jobs[k].state = "superseded"

\* A transaction that links, removes and supersedes nothing keeps every
\* replacement (all but coalescing and cleanup_terminal).
LEMMA UnlinkedRetains ==
    ASSUME ReplacementIsRetained, Unlinked
    PROVE  ReplacementIsRetained'
  BY DEF ReplacementIsRetained, Unlinked, HasRow

\* All transactions but a coalescing request and a cleanup are of this kind.
LEMMA UnlinkedStep ==
    ASSUME TypeOK, TypeOK',
           \/ OwnerNext
           \/ \E j \in Jobs : submit(j) \/ request_cancellation(j)
           \/ \E e \in Epochs, j \in Jobs : claim_once(e, j)
           \/ \E j \in Jobs, n \in AttemptNumbers : AttemptNext(j, n)
           \/ \E e \in Epochs, j \in Jobs, n \in AttemptNumbers :
                 ReconcilerNext(e, j, n)
           \/ \E e \in Epochs : recover_abandoned_attempts(e)
    PROVE  Unlinked
<1> DEFINE Row(q, r) == /\ q.replacement = r.replacement
                        /\ q.state \notin {"absent", "deleted", "superseded"}
<1>1. ASSUME NEW j \in Jobs, Row(jobs'[j], jobs[j]),
             \A k \in Jobs \ {j} : jobs'[k] = jobs[k]
      PROVE  Unlinked
  BY <1>1 DEF Unlinked, HasRow
<1>2. jobs' = jobs => Unlinked
  BY DEF Unlinked, HasRow
<1>3. CASE OwnerNext
  BY <1>2, <1>3 DEF OwnerNext, acquire_singleton, singleton_expires,
     stop_singleton, lease_expires
<1>4. ASSUME NEW j \in Jobs, submit(j) \/ request_cancellation(j)
      PROVE  Unlinked
  <2>1. jobs[j] \in JobRows
    BY DEF TypeOK
  <2>2. jobs'[j] = [jobs[j] EXCEPT !.state = "queued"]
           \/ jobs'[j] = CancelledJob(jobs[j])
    BY <1>4 DEF submit, request_cancellation, TypeOK
  <2>3. /\ CancelledJob(jobs[j]).replacement = jobs[j].replacement
        /\ CancelledJob(jobs[j]).state \in {"cancelled", "cancel_requested"}
    BY <2>1 DEF CancelledJob, JobRows
  <2>4. Row(jobs'[j], jobs[j])
    BY <2>1, <2>2, <2>3 DEF JobRows
  <2> QED
    BY <1>1, <1>4, <2>4 DEF submit, request_cancellation, TypeOK
<1>5. ASSUME NEW e \in Epochs, NEW j \in Jobs, claim_once(e, j)
      PROVE  Unlinked
  <2>1. jobs'[j] = [jobs[j] EXCEPT !.state = "claimed",
                                   !.attempt = jobs[j].attempt + 1]
    BY <1>5 DEF claim_once, TypeOK
  <2>2. Row(jobs'[j], jobs[j])
    BY <2>1 DEF TypeOK, JobRows
  <2> QED
    BY <1>1, <1>5, <2>2 DEF claim_once, TypeOK
<1>6. ASSUME NEW j \in Jobs, NEW n \in AttemptNumbers,
             NEW t \in CoordinatorTransitions, compare_and_set_state(j, n, t)
      PROVE  Unlinked
  <2>1. t.new \in ActiveStates \cup {"failed", "cancelled"}
    BY TransitionShape
  <2>2. Row(jobs'[j], jobs[j])
    BY <1>6, <2>1 DEF compare_and_set_state, TransitionedJob, TypeOK, JobRows,
       ActiveStates, AbandonedStates
  <2> QED
    BY <1>1, <1>6, <2>2 DEF compare_and_set_state, TypeOK
<1>7. ASSUME NEW j \in Jobs, NEW n \in AttemptNumbers, schedule_retry(j, n)
      PROVE  Unlinked
  <2>1. Row(jobs'[j], jobs[j])
    BY <1>7 DEF schedule_retry, TypeOK, JobRows
  <2> QED
    BY <1>1, <1>7, <2>1 DEF schedule_retry, TypeOK
<1>8. ASSUME NEW j \in Jobs, NEW n \in AttemptNumbers, AttemptNext(j, n)
      PROVE  Unlinked
  BY <1>2, <1>6, <1>7, <1>8 DEF AttemptNext, heartbeat_attempt,
     persist_supervisor_registration, consume_supervisor_registration,
     record_publication_marker
<1>9. ASSUME NEW e \in Epochs, NEW j \in Jobs, NEW n \in AttemptNumbers,
             NEW proved \in BOOLEAN, reconcile_publication(e, j, n, proved)
      PROVE  Unlinked
  <2> DEFINE v == Verdict(j, n, proved)
  <2>1. v \in {"succeeded", "quarantined", "cancelled", "failed", "queued"}
    BY <1>9, VerdictTypes DEF reconcile_publication
  <2> HIDE DEF v
  <2>2. jobs'[j].replacement = jobs[j].replacement /\ jobs'[j].state = v
    BY <1>9 DEF reconcile_publication, TypeOK, JobRows, v
  <2> QED
    BY <1>1, <1>9, <2>1, <2>2 DEF reconcile_publication, TypeOK
<1>10. ASSUME NEW e \in Epochs, NEW j \in Jobs, NEW n \in AttemptNumbers,
              execute_durable_closure(e, j, n)
       PROVE  Unlinked
  <2>1. Row(jobs'[j], jobs[j])
    BY <1>10 DEF execute_durable_closure, RestartCurrency, TypeOK, JobRows
  <2> QED
    BY <1>1, <1>10, <2>1 DEF execute_durable_closure, TypeOK
<1>11. ASSUME NEW e \in Epochs, NEW j \in Jobs, NEW n \in AttemptNumbers,
              ReconcilerNext(e, j, n)
       PROVE  Unlinked
  BY <1>2, <1>9, <1>10, <1>11 DEF ReconcilerNext, mark_attempt_terminated,
     release_graph_lease
<1>12. ASSUME NEW e \in Epochs, recover_abandoned_attempts(e)
       PROVE  Unlinked
  <2>1. ASSUME NEW k \in Jobs
        PROVE  jobs'[k] = jobs[k] \/ Row(jobs'[k], jobs[k])
    <3>1. jobs[k] \in JobRows
      BY DEF TypeOK
    <3>2. \/ jobs'[k] = jobs[k]
          \/ jobs'[k] = [jobs[k] EXCEPT !.state = "reconciliation_required",
                            !.pub = "commit_unknown", !.category = "other"]
      BY <1>12 DEF recover_abandoned_attempts
    <3> QED
      BY Zenon, <3>1, <3>2 DEF JobRows
  <2> QED
    BY <2>1 DEF Unlinked, HasRow
<1> QED
  BY <1>3, <1>4, <1>5, <1>8, <1>11, <1>12

\* coalesce_automatic links the job it supersedes to the new one, which has a
\* row from then on.
LEMMA CoalesceRetains ==
    ASSUME TypeOK, ReplacementIsRetained, IntentsNameTheirGraph,
           NEW j \in Jobs, coalesce_automatic(j)
    PROVE  ReplacementIsRetained'
<1> DEFINE q == intents[GraphOf(j)].queued
<1>1. /\ jobs[j].state = "absent" /\ jobs'[j].state = "queued"
      /\ GraphOf(j) \in Graphs
  BY RequestTypes DEF coalesce_automatic, TypeOK, JobRows
<1>2. \A k \in Jobs \ {j, q} : jobs'[k] = jobs[k]
  BY DEF coalesce_automatic
<1>3. q \in Jobs \ {j} =>
         /\ jobs'[q].replacement = j
         /\ jobs'[q].state \in {jobs[q].state, "superseded"}
         /\ jobs[q].state = "absent" => jobs'[q].state = "absent"
         /\ jobs[q].state = "deleted" => jobs'[q].state = "deleted"
         /\ GraphOf(q) = GraphOf(j)
  <2> SUFFICES ASSUME q \in Jobs \ {j}
               PROVE  /\ jobs'[q].replacement = j
                      /\ jobs'[q].state \in {jobs[q].state, "superseded"}
                      /\ jobs[q].state = "absent" => jobs'[q].state = "absent"
                      /\ jobs[q].state = "deleted" => jobs'[q].state = "deleted"
                      /\ GraphOf(q) = GraphOf(j)
    OBVIOUS
  <2>1. jobs'[q] = [jobs[q] EXCEPT
                       !.state = IF q \in Superseded(j) THEN "superseded"
                                 ELSE @,
                       !.replacement = j]
    BY DEF coalesce_automatic
  <2>2. q \in Superseded(j) => jobs[q].state = "queued"
    BY DEF Superseded
  <2>3. GraphOf(q) = GraphOf(j)
    BY <1>1, NullAssumption DEF IntentsNameTheirGraph
  <2> QED
    BY <2>1, <2>2, <2>3 DEF TypeOK, JobRows
<1> HIDE DEF q
<1>4. \A k \in Jobs : HasRow(k) => jobs'[k].state \notin {"absent", "deleted"}
  BY <1>1, <1>2, <1>3 DEF HasRow
<1> QED
  BY <1>1, <1>2, <1>3, <1>4 DEF ReplacementIsRetained, HasRow

\* cleanup_terminal leaves the rows that another one is linked to.
LEMMA CleanupRetains ==
    ASSUME TypeOK, ReplacementIsRetained, NEW D \in SUBSET CleanupCandidates,
           cleanup_terminal(D)
    PROVE  ReplacementIsRetained'
<1>1. \A k \in D : jobs'[k].state = "deleted"
  BY DEF cleanup_terminal, CleanupCandidates, AbsentJob
<1>2. \A k \in Jobs \ D : jobs'[k] = jobs[k] /\ jobs[k].replacement \notin D
  BY DEF cleanup_terminal, CleanupCandidates
<1> QED
  BY <1>1, <1>2 DEF ReplacementIsRetained, HasRow

\* Intents take their queued job from a request for their own graph.
LEMMA IntentsStep ==
    ASSUME TypeOK, IntentsNameTheirGraph, Next
    PROVE  IntentsNameTheirGraph'
<1>1. intents' = intents => IntentsNameTheirGraph'
  BY DEF IntentsNameTheirGraph
<1>2. ASSUME NEW j \in Jobs,
             \A g \in Graphs \ {GraphOf(j)} : intents'[g] = intents[g],
             intents'[GraphOf(j)].queued
                \in {intents[GraphOf(j)].queued, NoJob, j}
      PROVE  IntentsNameTheirGraph'
  BY <1>2 DEF IntentsNameTheirGraph
<1>3. ASSUME NEW j \in Jobs
      PROVE  /\ GraphOf(j) \in Graphs
             /\ intents[GraphOf(j)] \in IntentRows
  BY RequestTypes DEF TypeOK
<1>4. ASSUME NEW e \in Epochs, NEW j \in Jobs, claim_once(e, j)
      PROVE  IntentsNameTheirGraph'
  <2>1. CASE intents' = intents
    BY <1>1, <2>1
  <2>2. CASE intents' = [intents EXCEPT ![GraphOf(j)] =
                  [intents[GraphOf(j)] EXCEPT !.queued = NoJob, !.running = j,
                                              !.dirty = FALSE]]
    BY <1>2, <1>3, <2>2 DEF TypeOK, IntentRows
  <2> QED
    BY <1>4, <2>1, <2>2 DEF claim_once, ClaimIntent
<1>5. ASSUME NEW j \in Jobs, coalesce_automatic(j)
      PROVE  IntentsNameTheirGraph'
  BY <1>2, <1>3, <1>5 DEF coalesce_automatic, TypeOK, IntentRows
<1>6. ASSUME NEW j \in Jobs,
             intents' = ClearRunning(j) \/ intents' = PausedIntent(j)
      PROVE  IntentsNameTheirGraph'
  <2>1. CASE intents' = intents
    BY <1>1, <2>1
  <2>2. CASE intents' = [intents EXCEPT ![GraphOf(j)].running = NoJob]
    BY <1>2, <1>3, <2>2 DEF TypeOK, IntentRows
  <2>3. CASE intents' = PausedIntent(j)
    BY <1>2, <1>3, <2>3 DEF PausedIntent, TypeOK
  <2> QED
    BY <1>6, <2>1, <2>2, <2>3 DEF ClearRunning
<1>7. ASSUME NEW e \in Epochs, NEW j \in Jobs, NEW n \in AttemptNumbers,
             ReconcilerNext(e, j, n)
      PROVE  IntentsNameTheirGraph'
  BY <1>1, <1>6, <1>7 DEF ReconcilerNext, mark_attempt_terminated,
     reconcile_publication, execute_durable_closure, release_graph_lease
<1>8. CASE OwnerNext
  BY <1>1, <1>8 DEF OwnerNext, acquire_singleton, singleton_expires,
     stop_singleton, lease_expires
<1>9. CASE ClientNext
  BY <1>1, <1>5, <1>9 DEF ClientNext, submit, request_cancellation
<1>10. ASSUME NEW j \in Jobs, NEW n \in AttemptNumbers, AttemptNext(j, n)
       PROVE  IntentsNameTheirGraph'
  BY <1>1, <1>10 DEF AttemptNext, compare_and_set_state, heartbeat_attempt,
     schedule_retry, persist_supervisor_registration,
     consume_supervisor_registration, record_publication_marker
<1> QED
  BY <1>1, <1>4, <1>7, <1>8, <1>9, <1>10
     DEF Next, recover_abandoned_attempts, cleanup_terminal

\* Contract I28: a superseded job stays linked to a row of its graph, in
\* whatever order requests, dispositions and cleanups come.
THEOREM ReplacementsAreRetained == Spec => []ReplacementIsRetained
<1> DEFINE Inv == ReplacementIsRetained /\ IntentsNameTheirGraph
<1>1. Init => Inv
  BY DEF Init, ReplacementIsRetained, IntentsNameTheirGraph, AbsentJob,
     NoIntent
<1>2. TypeOK /\ TypeOK' /\ Inv /\ [Next]_storeVars => Inv'
  <2> SUFFICES ASSUME TypeOK, TypeOK', Inv, [Next]_storeVars PROVE Inv'
    OBVIOUS
  <2>1. CASE UNCHANGED storeVars
    BY <2>1 DEF storeVars, ReplacementIsRetained, IntentsNameTheirGraph,
       HasRow
  <2>2. CASE Next
    BY <2>2, UnlinkedStep, UnlinkedRetains, CoalesceRetains, CleanupRetains,
       IntentsStep DEF Next, ClientNext
  <2> QED
    BY <2>1, <2>2
<1> HIDE DEF Inv
<1>3. Inv => ReplacementIsRetained
  BY DEF Inv
<1> QED
  BY <1>1, <1>2, <1>3, TypeCorrect, PTL DEF Spec
=============================================================================
