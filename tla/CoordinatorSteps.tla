-------------------------- MODULE CoordinatorSteps ---------------------------
(***************************************************************************)
(* What the transactions, the threads and the recovery passes of the       *)
(* coordinators do, for any number of jobs, attempts and coordinators:     *)
(* which transactions issue, close or leave alone an attempt as            *)
(* GraphPublication sees it; every step is made of one transaction of      *)
(* ControlStore and one step of GraphPublication, and leads to a place     *)
(* that fits what the thread saw.                                          *)
(***************************************************************************)
EXTENDS Coordinator, TLAPS

\* The latest attempt of a job: unpublished when the job is over or queued
\* again without success, untouched while its coordinator is at work, and as
\* uncertain as the job itself under reconciliation.
LatestAgrees(j) ==
    LET job == jobs[j]
        row == attempts[j][job.attempt]
    IN  /\ job.state = "absent" => job.attempt = 0
        /\ job.attempt # 0 =>
              /\ job.state \in {"queued", "failed", "cancelled"} =>
                    row.pub \in SafeUnpublished
              /\ job.state \in AbandonedStates =>
                    row.pub = "not_started" /\ job.pub = "not_started"
              /\ job.state = "reconciliation_required" =>
                    /\ row.pub \in {"not_started", "commit_unknown"}
                    /\ job.pub = row.pub

\* Attempts are numbered as they are claimed, with growing lease numbers; the
\* earlier ones are unpublished; a marker is never conflicting.
RowsAgree(j) ==
    /\ LatestAgrees(j)
    /\ \A n \in AttemptNumbers :
          /\ attempts[j][n].epoch # 0 <=> n <= jobs[j].attempt
          /\ attempts[j][n].lease <= xact
          /\ n < jobs[j].attempt => attempts[j][n].pub \in SafeUnpublished
          /\ markers[j][n] # "conflicting"

IssuedClaims == {c \in Claims : EpochOf(c) # 0}

RowsInv ==
    /\ \A j \in Jobs : RowsAgree(j)
    /\ xact = Cardinality(IssuedClaims)

\* The step changes nothing of the attempt that GraphPublication knows.
SameKeys(c) ==
    /\ EpochOf(c)' = EpochOf(c)
    /\ attempts'[c[1]][c[2]].lease = attempts[c[1]][c[2]].lease

Quiet(c) == SameKeys(c) /\ Outcome(c)' = Outcome(c)

\* A step that changes of job j only the row of its latest attempt.
LatestOnly(j) ==
    /\ jobs'[j].attempt = jobs[j].attempt
    /\ \A n \in AttemptNumbers :
          /\ attempts'[j][n].epoch = attempts[j][n].epoch
          /\ attempts'[j][n].lease = attempts[j][n].lease
          /\ n # jobs[j].attempt => attempts'[j][n] = attempts[j][n]
          /\ markers'[j][n] \in {markers[j][n], "committed"}

Untouched(j) ==
    jobs'[j] = jobs[j] /\ attempts'[j] = attempts[j] /\ markers'[j] = markers[j]

\* What a transaction does to the attempts: nothing that GraphPublication
\* knows of, or it decides one of them, or (claim_once) it issues one.
StoreQuiet == \A c \in Claims : Quiet(c)

StoreDecides(c, verdict) ==
    /\ SameKeys(c)
    /\ \A d \in Claims \ {c} : Quiet(d)
    /\ Outcome(c) = "open" /\ Outcome(c)' = verdict

StoreIssues(c) ==
    /\ EpochOf(c) = 0 /\ EpochOf(c)' \in Epochs
    /\ attempts'[c[1]][c[2]].lease \in LeaseNumbers
    /\ \A d \in Claims : attempts[d[1]][d[2]].lease < attempts'[c[1]][c[2]].lease
    /\ \A d \in Claims \ {c} : SameKeys(d)
    /\ \A d \in Claims : Outcome(d)' = Outcome(d)

-----------------------------------------------------------------------------
(* Rows that a step leaves alone *)

\* The verdict on an attempt that is no longer current is in its own row.
LEMMA OldAttempt ==
    ASSUME NEW j \in Jobs, NEW n \in AttemptNumbers,
           attempts'[j][n] = attempts[j][n], ~attempts[j][n].current
    PROVE  Quiet(<<j, n>>)
<1>1. Outcome(<<j, n>>)' = Outcome(<<j, n>>)
  BY DEF Outcome
<1>2. SameKeys(<<j, n>>)
  BY DEF SameKeys, EpochOf
<1> QED
  BY <1>1, <1>2 DEF Quiet

\* A change of the latest attempt concerns no other one.
LEMMA JobStep ==
    ASSUME TypeOK, CurrentAttemptIsLatest, NEW j \in Jobs,
           RowsAgree(j), LatestOnly(j), LatestAgrees(j)', xact' = xact
    PROVE  /\ RowsAgree(j)'
           /\ \A n \in AttemptNumbers : n # jobs[j].attempt => Quiet(<<j, n>>)
<1>1. jobs[j].attempt \in Nat /\ AttemptNumbers \subseteq Nat
  BY LimitsAssumption DEF TypeOK, JobRows, AttemptNumbers
<1>2. ASSUME NEW n \in AttemptNumbers, n # jobs[j].attempt
      PROVE  Quiet(<<j, n>>)
  <2>1. ~attempts[j][n].current
    BY <1>2 DEF CurrentAttemptIsLatest
  <2> QED
    BY <1>2, <2>1, OldAttempt DEF LatestOnly
<1>3. ASSUME NEW n \in AttemptNumbers
      PROVE  /\ (attempts[j][n].epoch # 0)' <=> n <= jobs'[j].attempt
             /\ attempts'[j][n].lease <= xact'
             /\ n < jobs'[j].attempt => attempts'[j][n].pub \in SafeUnpublished
             /\ markers'[j][n] # "conflicting"
  BY <1>1 DEF RowsAgree, LatestOnly
<1> QED
  BY <1>2, <1>3 DEF RowsAgree

\* The number of attempts is kept with their epochs.
LEMMA CountKept ==
    ASSUME RowsInv, xact' = xact, \A c \in Claims : EpochOf(c)' = EpochOf(c),
           \A j \in Jobs : RowsAgree(j)'
    PROVE  RowsInv'
<1>1. IssuedClaims' = IssuedClaims
  BY DEF IssuedClaims, Claims
<1> QED
  BY <1>1 DEF RowsInv

\* A claim is a job and a number.
LEMMA ClaimParts ==
    ASSUME NEW c \in Claims
    PROVE  c[1] \in Jobs /\ c[2] \in AttemptNumbers /\ c = <<c[1], c[2]>>
  BY DEF Claims

\* A job that a transaction does not touch keeps its rows and its verdicts.
LEMMA UntouchedJob ==
    ASSUME NEW j \in Jobs, Untouched(j), RowsAgree(j)
    PROVE  /\ LatestOnly(j) /\ LatestAgrees(j)'
           /\ \A n \in AttemptNumbers : Quiet(<<j, n>>)
<1>1. LatestOnly(j)
  BY DEF Untouched, LatestOnly
<1>2. LatestAgrees(j)'
  BY Zenon DEF Untouched, RowsAgree, LatestAgrees
<1>3. \A n \in AttemptNumbers : Quiet(<<j, n>>)
  BY DEF Untouched, Quiet, SameKeys, EpochOf, Outcome
<1> QED
  BY <1>1, <1>2, <1>3

\* A step that changes the latest attempts only keeps the invariant of the
\* rows when their new rows agree with their jobs.
LEMMA RowsStep ==
    ASSUME StoreInv, RowsInv, xact' = xact,
           \A j \in Jobs : LatestOnly(j) /\ LatestAgrees(j)'
    PROVE  /\ RowsInv'
           /\ \A c \in Claims : SameKeys(c)
           /\ \A c \in Claims : c[2] # jobs[c[1]].attempt => Quiet(c)
<1>1. ASSUME NEW j \in Jobs
      PROVE  /\ RowsAgree(j)'
             /\ \A n \in AttemptNumbers : n # jobs[j].attempt => Quiet(<<j, n>>)
  BY JobStep DEF StoreInv, RowsInv
<1>2. ASSUME NEW c \in Claims PROVE SameKeys(c)
  BY ClaimParts DEF LatestOnly, SameKeys, EpochOf
<1>3. RowsInv'
  BY <1>1, <1>2, CountKept DEF SameKeys
<1>4. ASSUME NEW c \in Claims, c[2] # jobs[c[1]].attempt PROVE Quiet(c)
  BY <1>1, <1>4, ClaimParts
<1> QED
  BY <1>2, <1>3, <1>4

\* A transaction on one job keeps the rows of all jobs in order when it keeps
\* those of this job, and changes the verdict on its latest attempt only.
LEMMA OneJobStep ==
    ASSUME StoreInv, RowsInv, xact' = xact, NEW j \in Jobs,
           \A k \in Jobs \ {j} : Untouched(k), LatestOnly(j), LatestAgrees(j)'
    PROVE  /\ RowsInv'
           /\ \A c \in Claims : SameKeys(c)
           /\ \A c \in Claims : c # <<j, jobs[j].attempt>> => Quiet(c)
<1>1. \A k \in Jobs : RowsAgree(k)
  BY DEF RowsInv
<1>2. \A k \in Jobs : LatestOnly(k) /\ LatestAgrees(k)'
  BY <1>1, UntouchedJob
<1>3. ASSUME NEW c \in Claims, c # <<j, jobs[j].attempt>> PROVE Quiet(c)
  <2>1. CASE c[1] = j
    BY <1>2, <1>3, <2>1, RowsStep, ClaimParts
  <2>2. CASE c[1] # j
    BY <1>1, <2>2, UntouchedJob, ClaimParts
  <2> QED
    BY <2>1, <2>2
<1> QED
  BY <1>2, <1>3, RowsStep

-----------------------------------------------------------------------------
(* Transactions that decide nothing *)

\* Ownership and leases.
LEMMA RowsUntouched ==
    ASSUME StoreInv, RowsInv, UNCHANGED <<jobs, attempts, markers, xact>>
    PROVE  RowsInv' /\ StoreQuiet
<1>1. \A j \in Jobs : Untouched(j)
  BY DEF Untouched
<1>2. \A j \in Jobs : RowsAgree(j)
  BY DEF RowsInv
<1>3. \A j \in Jobs : LatestOnly(j) /\ LatestAgrees(j)'
  BY <1>1, <1>2, UntouchedJob
<1>4. RowsInv'
  BY <1>3, RowsStep
<1>5. \A c \in Claims : Quiet(c)
  BY <1>1, <1>2, UntouchedJob, ClaimParts
<1> QED
  BY <1>4, <1>5 DEF StoreQuiet

\* A change of the latest attempt that leaves its verdict alone.
LEMMA QuietStep ==
    ASSUME StoreInv, RowsInv, xact' = xact, NEW j \in Jobs,
           \A k \in Jobs \ {j} : Untouched(k), LatestOnly(j), LatestAgrees(j)',
           \A n \in AttemptNumbers : n = jobs[j].attempt =>
              Outcome(<<j, n>>)' = Outcome(<<j, n>>)
    PROVE  RowsInv' /\ StoreQuiet
<1>1. ASSUME NEW c \in Claims, c = <<j, jobs[j].attempt>> PROVE Quiet(c)
  <2>1. c[1] = j /\ c[2] \in AttemptNumbers /\ c = <<j, c[2]>>
    BY <1>1, ClaimParts
  <2>2. Outcome(<<j, c[2]>>)' = Outcome(<<j, c[2]>>)
    BY <1>1, <2>1
  <2> QED
    BY <2>1, <2>2, OneJobStep DEF Quiet
<1> QED
  BY <1>1, OneJobStep DEF StoreQuiet

\* record_publication_marker changes no verdict.
LEMMA MarkerQuiet ==
    ASSUME StoreInv, RowsInv, NEW j \in Jobs, NEW n \in AttemptNumbers,
           record_publication_marker(j, n, "committed")
    PROVE  RowsInv' /\ StoreQuiet
<1>1. markers \in [Jobs -> [AttemptNumbers -> {"absent", "committed", "conflicting"}]]
  BY DEF StoreInv, TypeOK
<1>2. /\ \A k \in Jobs \ {j} : Untouched(k)
      /\ LatestOnly(j)
      /\ xact' = xact
  BY <1>1 DEF record_publication_marker, Untouched, LatestOnly
<1>3. LatestAgrees(j)'
  BY DEF record_publication_marker, RowsInv, RowsAgree, LatestAgrees
<1>4. \A m \in AttemptNumbers : Outcome(<<j, m>>)' = Outcome(<<j, m>>)
  BY DEF record_publication_marker, Outcome
<1> QED
  BY <1>2, <1>3, <1>4, QuietStep

\* New rows for a job and its latest attempt.
LEMMA RowUpdate ==
    ASSUME TypeOK, NEW j \in Jobs, NEW n \in AttemptNumbers, NEW job, NEW row,
           jobs' = [jobs EXCEPT ![j] = job],
           attempts' = [attempts EXCEPT ![j][n] = row], markers' = markers,
           jobs[j].attempt = n, job.attempt = n,
           row.epoch = attempts[j][n].epoch, row.lease = attempts[j][n].lease
    PROVE  /\ jobs'[j] = job /\ attempts'[j][n] = row
           /\ \A k \in Jobs \ {j} : Untouched(k)
           /\ LatestOnly(j)
  BY DEF TypeOK, Untouched, LatestOnly

\* Changes of a row that the verdict on its attempt does not depend on.
LEMMA MinorUpdate ==
    ASSUME StoreInv, RowsInv, NEW j \in Jobs, NEW n \in AttemptNumbers,
           jobs[j].attempt = n, UNCHANGED <<jobs, markers, xact>>,
           NEW row, attempts' = [attempts EXCEPT ![j][n] = row],
           row.epoch = attempts[j][n].epoch, row.lease = attempts[j][n].lease,
           row.current = attempts[j][n].current, row.pub = attempts[j][n].pub
    PROVE  RowsInv' /\ StoreQuiet
<1>1. TypeOK
  BY DEF StoreInv
<1>2. /\ jobs'[j] = jobs[j] /\ attempts'[j][n] = row
      /\ \A k \in Jobs \ {j} : Untouched(k)
      /\ LatestOnly(j)
  BY <1>1 DEF TypeOK, Untouched, LatestOnly
<1>3. LatestAgrees(j)'
  BY <1>2 DEF RowsInv, RowsAgree, LatestAgrees
<1>4. \A m \in AttemptNumbers : m = jobs[j].attempt =>
         Outcome(<<j, m>>)' = Outcome(<<j, m>>)
  BY <1>2 DEF Outcome
<1> QED
  BY <1>2, <1>3, <1>4, QuietStep

\* The supervisor's registration and the end of the worker's processes.
LEMMA RegistrationQuiet ==
    ASSUME StoreInv, RowsInv, NEW j \in Jobs, NEW n \in AttemptNumbers,
           \/ persist_supervisor_registration(j, n)
           \/ consume_supervisor_registration(j, n)
           \/ \E e \in Epochs : mark_attempt_terminated(e, j, n)
    PROVE  RowsInv' /\ StoreQuiet
<1>1. jobs[j].attempt = n /\ UNCHANGED <<jobs, markers, xact>>
  BY DEF persist_supervisor_registration, consume_supervisor_registration,
     mark_attempt_terminated, InProcessCurrency, IsCurrent
<1>2. attempts[j][n] \in AttemptRows
  BY DEF StoreInv, TypeOK
<1>3. CASE persist_supervisor_registration(j, n)
  <2> DEFINE row == [attempts[j][n] EXCEPT !.digest = TRUE]
  <2>1. attempts' = [attempts EXCEPT ![j][n] = row]
    BY <1>3 DEF persist_supervisor_registration
  <2>2. /\ row.epoch = attempts[j][n].epoch /\ row.lease = attempts[j][n].lease
        /\ row.current = attempts[j][n].current /\ row.pub = attempts[j][n].pub
    BY <1>2 DEF AttemptRows
  <2> HIDE DEF row
  <2> QED
    BY Zenon, <1>1, <2>1, <2>2, MinorUpdate
<1>4. CASE consume_supervisor_registration(j, n)
  <2> DEFINE row == [attempts[j][n] EXCEPT !.consumed = TRUE]
  <2>1. attempts' = [attempts EXCEPT ![j][n] = row]
    BY <1>4 DEF consume_supervisor_registration
  <2>2. /\ row.epoch = attempts[j][n].epoch /\ row.lease = attempts[j][n].lease
        /\ row.current = attempts[j][n].current /\ row.pub = attempts[j][n].pub
    BY <1>2 DEF AttemptRows
  <2> HIDE DEF row
  <2> QED
    BY Zenon, <1>1, <2>1, <2>2, MinorUpdate
<1>5. CASE \E e \in Epochs : mark_attempt_terminated(e, j, n)
  <2> DEFINE row == [attempts[j][n] EXCEPT !.finished = TRUE]
  <2>1. attempts' = [attempts EXCEPT ![j][n] = row]
    BY <1>5 DEF mark_attempt_terminated
  <2>2. /\ row.epoch = attempts[j][n].epoch /\ row.lease = attempts[j][n].lease
        /\ row.current = attempts[j][n].current /\ row.pub = attempts[j][n].pub
    BY <1>2 DEF AttemptRows
  <2> HIDE DEF row
  <2> QED
    BY <1>1, <2>1, <2>2, MinorUpdate
<1> QED
  BY <1>3, <1>4, <1>5

\* Submissions: a new job has no attempts.
LEMMA SubmitQuiet ==
    ASSUME StoreInv, RowsInv, NEW j \in Jobs, submit(j)
    PROVE  RowsInv' /\ StoreQuiet
<1>1. jobs[j].attempt = 0
  BY DEF submit, RowsInv, RowsAgree, LatestAgrees
<1>2. /\ jobs \in [Jobs -> JobRows]
      /\ jobs[j] \in JobRows
      /\ jobs' = [jobs EXCEPT ![j].state = "queued"]
      /\ UNCHANGED <<attempts, markers, xact>>
  BY DEF submit, StoreInv, TypeOK
<1>3. jobs'[j].attempt = 0
  BY <1>1, <1>2 DEF JobRows
<1>4. /\ \A k \in Jobs \ {j} : Untouched(k)
      /\ LatestOnly(j)
      /\ LatestAgrees(j)'
  BY <1>1, <1>2, <1>3 DEF Untouched, LatestOnly, LatestAgrees
<1>5. \A n \in AttemptNumbers : n # jobs[j].attempt
  BY <1>1, LimitsAssumption DEF AttemptNumbers
<1> QED
  BY <1>2, <1>4, <1>5, QuietStep

\* Cancellations: an attempt at work stays open, a queued job has none.
LEMMA CancellationQuiet ==
    ASSUME StoreInv, RowsInv, NEW j \in Jobs, request_cancellation(j)
    PROVE  RowsInv' /\ StoreQuiet
<1>1. /\ jobs \in [Jobs -> JobRows]
      /\ jobs[j] \in JobRows
      /\ jobs' = [jobs EXCEPT ![j] = CancelledJob(jobs[j])]
      /\ jobs[j].state \in {"queued", "claimed", "starting", "running"}
      /\ UNCHANGED <<attempts, markers, xact>>
  BY DEF request_cancellation, StoreInv, TypeOK
<1>2. /\ jobs'[j].attempt = jobs[j].attempt /\ jobs'[j].pub = jobs[j].pub
      /\ jobs[j].state = "queued" => jobs'[j].state = "cancelled"
      /\ jobs[j].state # "queued" => jobs'[j].state = "cancel_requested"
  BY <1>1 DEF JobRows, CancelledJob
<1>3. (\A k \in Jobs \ {j} : Untouched(k)) /\ LatestOnly(j)
  BY <1>1, <1>2 DEF Untouched, LatestOnly
<1>4. LatestAgrees(j)'
  BY <1>1, <1>2 DEF RowsInv, RowsAgree, LatestAgrees, AbandonedStates
<1>5. \A n \in AttemptNumbers : Outcome(<<j, n>>)' = Outcome(<<j, n>>)
  BY <1>1, <1>2 DEF Outcome
<1> QED
  BY <1>1, <1>3, <1>4, <1>5, QuietStep

-----------------------------------------------------------------------------
(* Transactions on an uncertain or a finished attempt *)

\* compare_and_set_state: the new rows.
LEMMA ChangedRows ==
    ASSUME StoreInv, RowsInv, NEW c \in Claims, NEW t,
           compare_and_set_state(c[1], c[2], t), t.expected \in AbandonedStates,
           t.pub \in {"null", "not_started", "commit_unknown"}
    PROVE  /\ jobs[c[1]].attempt = c[2] /\ attempts[c[1]][c[2]].current
           /\ jobs[c[1]].state = t.expected
           /\ Outcome(c) = "open" /\ EpochOf(c) # 0
           /\ jobs'[c[1]].state = t.new
           /\ jobs'[c[1]].attempt = c[2]
           /\ attempts'[c[1]][c[2]].current = (t.new \notin TerminalStates)
           /\ t.pub = "null" => /\ jobs'[c[1]].pub = "not_started"
                                /\ attempts'[c[1]][c[2]].pub = "not_started"
           /\ t.pub # "null" => /\ jobs'[c[1]].pub = t.pub
                                /\ attempts'[c[1]][c[2]].pub = t.pub
           /\ \A k \in Jobs \ {c[1]} : Untouched(k)
           /\ LatestOnly(c[1])
           /\ xact' = xact
<1> DEFINE j == c[1]
           n == c[2]
           job == TransitionedJob(jobs[j], t)
           row == TransitionedAttempt(attempts[j][n], t)
<1>1. j \in Jobs /\ n \in AttemptNumbers /\ c = <<j, n>> /\ n # 0
  BY ClaimParts, LimitsAssumption DEF AttemptNumbers
<1>2. TypeOK /\ jobs[j] \in JobRows /\ attempts[j][n] \in AttemptRows
  BY <1>1 DEF StoreInv, TypeOK
<1>3. /\ jobs[j].attempt = n /\ attempts[j][n].current
      /\ jobs[j].state = t.expected /\ jobs[j].state # "reconciliation_required"
  BY DEF compare_and_set_state, IsCurrent, AbandonedStates
<1>4. jobs[j].pub = "not_started" /\ attempts[j][n].pub = "not_started"
  BY <1>1, <1>3 DEF RowsInv, RowsAgree, LatestAgrees
<1>5. attempts[j][n].epoch # 0
  BY <1>1, <1>2, <1>3, LimitsAssumption DEF RowsInv, RowsAgree, AttemptNumbers
<1>6. Outcome(c) = "open" /\ EpochOf(c) # 0
  BY <1>1, <1>3, <1>5 DEF Outcome, EpochOf
<1>7. /\ job.state = t.new /\ job.attempt = n
      /\ t.pub = "null" => job.pub = "not_started"
      /\ t.pub # "null" => job.pub = t.pub
  BY <1>2, <1>3, <1>4 DEF TransitionedJob, JobRows, CoalesceValue
<1>8. /\ row.epoch = attempts[j][n].epoch /\ row.lease = attempts[j][n].lease
      /\ row.current = (t.new \notin TerminalStates)
      /\ t.pub = "null" => row.pub = "not_started"
      /\ t.pub # "null" => row.pub = t.pub
  BY <1>2, <1>3, <1>4 DEF TransitionedAttempt, AttemptRows, CoalesceValue
<1>9. /\ jobs' = [jobs EXCEPT ![j] = job]
      /\ attempts' = [attempts EXCEPT ![j][n] = row]
      /\ markers' = markers /\ xact' = xact
  BY DEF compare_and_set_state
<1> HIDE DEF job, row
<1>10. /\ jobs'[j] = job /\ attempts'[j][n] = row
       /\ \A k \in Jobs \ {j} : Untouched(k)
       /\ LatestOnly(j)
  BY ZenonT(30), <1>1, <1>2, <1>3, <1>7, <1>8, <1>9, RowUpdate
<1> QED
  BY <1>3, <1>6, <1>7, <1>8, <1>9, <1>10

\* A change within the states of a coordinator at work, or to an uncertain
\* publication, leaves the attempt open.
LEMMA ChangeQuiet ==
    ASSUME StoreInv, RowsInv, NEW c \in Claims, NEW t,
           compare_and_set_state(c[1], c[2], t), t.expected \in AbandonedStates,
           \/ t.new \in AbandonedStates /\ t.pub = "null"
           \/ t.new = "reconciliation_required" /\ t.pub = "commit_unknown"
    PROVE  RowsInv' /\ StoreQuiet
<1>1. /\ jobs[c[1]].attempt = c[2] /\ Outcome(c) = "open" /\ EpochOf(c) # 0
      /\ jobs'[c[1]].state = t.new /\ jobs'[c[1]].attempt = c[2]
      /\ attempts'[c[1]][c[2]].current = (t.new \notin TerminalStates)
      /\ t.pub = "null" => /\ jobs'[c[1]].pub = "not_started"
                           /\ attempts'[c[1]][c[2]].pub = "not_started"
      /\ t.pub # "null" => /\ jobs'[c[1]].pub = t.pub
                           /\ attempts'[c[1]][c[2]].pub = t.pub
      /\ \A k \in Jobs \ {c[1]} : Untouched(k)
      /\ LatestOnly(c[1])
      /\ xact' = xact
  BY ChangedRows
<1>2. LatestAgrees(c[1])'
  BY <1>1 DEF LatestAgrees, AbandonedStates
<1>3. attempts'[c[1]][c[2]].current
  BY Zenon, <1>1 DEF AbandonedStates, TerminalStates
<1>4. Outcome(c)' = "open"
  BY <1>1, <1>3 DEF Outcome, AbandonedStates
<1>5. \A n \in AttemptNumbers : n = jobs[c[1]].attempt =>
         Outcome(<<c[1], n>>)' = Outcome(<<c[1], n>>)
  <2>1. c = <<c[1], c[2]>>
    BY ClaimParts
  <2> QED
    BY <1>1, <1>4, <2>1
<1> QED
  BY <1>1, <1>2, <1>5, ClaimParts, QuietStep

\* The verdict of a transaction on the latest attempt of one job.
LEMMA DecidingStep ==
    ASSUME StoreInv, RowsInv, xact' = xact, NEW c \in Claims, NEW verdict,
           jobs[c[1]].attempt = c[2],
           \A k \in Jobs \ {c[1]} : Untouched(k),
           LatestOnly(c[1]), LatestAgrees(c[1])',
           Outcome(c) = "open", Outcome(c)' = verdict
    PROVE  RowsInv' /\ StoreDecides(c, verdict)
<1>1. c = <<c[1], jobs[c[1]].attempt>> /\ c[1] \in Jobs
  BY ClaimParts
<1> QED
  BY <1>1, OneJobStep DEF StoreDecides

\* A change to a safe disposition, or to reconciliation with a proof, decides
\* the attempt as unpublished.
LEMMA ChangeDecides ==
    ASSUME StoreInv, RowsInv, NEW c \in Claims, NEW t,
           compare_and_set_state(c[1], c[2], t), t.expected \in AbandonedStates,
           t.new \in {"failed", "cancelled", "reconciliation_required"},
           t.pub = "not_started"
    PROVE  RowsInv' /\ StoreDecides(c, "unpublished") /\ EpochOf(c) # 0
<1>1. /\ jobs[c[1]].attempt = c[2] /\ Outcome(c) = "open" /\ EpochOf(c) # 0
      /\ jobs'[c[1]].state = t.new /\ jobs'[c[1]].attempt = c[2]
      /\ attempts'[c[1]][c[2]].current = (t.new \notin TerminalStates)
      /\ jobs'[c[1]].pub = t.pub /\ attempts'[c[1]][c[2]].pub = t.pub
      /\ \A k \in Jobs \ {c[1]} : Untouched(k)
      /\ LatestOnly(c[1])
      /\ xact' = xact
  BY ChangedRows
<1>2. LatestAgrees(c[1])'
  BY <1>1 DEF LatestAgrees, AbandonedStates, SafeUnpublished
<1>3. attempts'[c[1]][c[2]].epoch # 0
  BY <1>1, ClaimParts DEF LatestOnly, EpochOf
<1>4. Outcome(c)' = "unpublished"
  BY Zenon, <1>1, <1>3 DEF Outcome, TerminalStates, SafeUnpublished
<1> QED
  BY <1>1, <1>2, <1>4, DecidingStep

\* A retry decides the failed attempt as unpublished.
LEMMA RetryDecides ==
    ASSUME StoreInv, RowsInv, NEW c \in Claims, schedule_retry(c[1], c[2])
    PROVE  RowsInv' /\ StoreDecides(c, "unpublished") /\ EpochOf(c) # 0
<1> DEFINE j == c[1]
           n == c[2]
           job == [jobs[j] EXCEPT !.state = "queued", !.pub = "not_started",
                                  !.category = "other"]
           row == [attempts[j][n] EXCEPT !.current = FALSE, !.finished = TRUE]
<1>1. j \in Jobs /\ n \in AttemptNumbers /\ c = <<j, n>> /\ n # 0
  BY ClaimParts, LimitsAssumption DEF AttemptNumbers
<1>2. TypeOK /\ jobs[j] \in JobRows /\ attempts[j][n] \in AttemptRows
  BY <1>1 DEF StoreInv, TypeOK
<1>3. /\ jobs[j].attempt = n /\ attempts[j][n].current
      /\ jobs[j].state = "running"
      /\ jobs' = [jobs EXCEPT ![j] = job]
      /\ attempts' = [attempts EXCEPT ![j][n] = row]
      /\ markers' = markers /\ xact' = xact
  BY DEF schedule_retry, IsCurrent
<1>4. attempts[j][n].pub = "not_started"
  BY <1>1, <1>3 DEF RowsInv, RowsAgree, LatestAgrees, AbandonedStates
<1>5. attempts[j][n].epoch # 0
  BY <1>1, <1>2, <1>3, LimitsAssumption DEF RowsInv, RowsAgree, AttemptNumbers
<1>6. Outcome(c) = "open" /\ EpochOf(c) # 0
  BY <1>1, <1>3, <1>5 DEF Outcome, EpochOf
<1>7. /\ job.state = "queued" /\ job.attempt = n
      /\ row.epoch = attempts[j][n].epoch /\ row.lease = attempts[j][n].lease
      /\ row.current = FALSE /\ row.pub = "not_started"
  BY <1>2, <1>3, <1>4 DEF JobRows, AttemptRows
<1> HIDE DEF job, row
<1>8. /\ jobs'[j] = job /\ attempts'[j][n] = row
      /\ \A k \in Jobs \ {j} : Untouched(k)
      /\ LatestOnly(j)
  BY Zenon, <1>1, <1>2, <1>3, <1>7, RowUpdate
<1>9. LatestAgrees(j)'
  BY <1>7, <1>8 DEF LatestAgrees, AbandonedStates, SafeUnpublished
<1>10. Outcome(c)' = "unpublished"
  BY <1>1, <1>5, <1>7, <1>8 DEF Outcome, SafeUnpublished
<1> QED
  BY <1>3, <1>6, <1>8, <1>9, <1>10, DecidingStep

\* The recovery of abandoned attempts leaves them open.
LEMMA RecoveryQuiet ==
    ASSUME StoreInv, RowsInv, NEW e \in Epochs, recover_abandoned_attempts(e)
    PROVE  RowsInv' /\ StoreQuiet
<1>1. TypeOK /\ CurrentAttemptIsLatest /\ UNCHANGED <<markers, xact>>
  BY DEF StoreInv, recover_abandoned_attempts
<1>2. ASSUME NEW j \in Jobs, j \notin Abandoned(e) PROVE Untouched(j)
  <2>1. jobs'[j] = jobs[j] /\ markers' = markers
    BY <1>2 DEF recover_abandoned_attempts
  <2>2. attempts'[j] = [n \in AttemptNumbers |-> attempts[j][n]]
    BY <1>2 DEF recover_abandoned_attempts
  <2>3. attempts'[j] = attempts[j]
    BY <1>1, <2>2 DEF TypeOK
  <2> QED
    BY <2>1, <2>3 DEF Untouched
<1>3. ASSUME NEW j \in Jobs, j \in Abandoned(e)
      PROVE  /\ LatestOnly(j) /\ LatestAgrees(j)'
             /\ \A n \in AttemptNumbers : Outcome(<<j, n>>)' = Outcome(<<j, n>>)
  <2> DEFINE latest == jobs[j].attempt
  <2>1. /\ jobs[j].state # "reconciliation_required"
        /\ attempts[j][latest].current
    BY <1>3 DEF Abandoned, IsCurrent, AbandonedStates
  <2>2. jobs[j] \in JobRows /\ \A n \in AttemptNumbers : attempts[j][n] \in AttemptRows
    BY <1>1 DEF TypeOK
  <2>3. /\ jobs'[j].state = "reconciliation_required"
        /\ jobs'[j].pub = "commit_unknown" /\ jobs'[j].attempt = latest
    BY <1>3, <2>2 DEF recover_abandoned_attempts, JobRows
  <2>4. ASSUME NEW n \in AttemptNumbers
        PROVE  /\ n # latest => attempts'[j][n] = attempts[j][n]
               /\ n = latest =>
                     /\ attempts'[j][n].epoch = attempts[j][n].epoch
                     /\ attempts'[j][n].lease = attempts[j][n].lease
                     /\ attempts'[j][n].current = attempts[j][n].current
                     /\ attempts'[j][n].pub = "commit_unknown"
    <3>1. attempts'[j][n] =
             IF n = latest
             THEN [attempts[j][n] EXCEPT !.finished = TRUE, !.digest = FALSE,
                                         !.consumed = TRUE,
                                         !.pub = "commit_unknown"]
             ELSE attempts[j][n]
      BY <1>3 DEF recover_abandoned_attempts
    <3> QED
      BY <2>2, <3>1 DEF AttemptRows
  <2>5. LatestOnly(j)
    BY <1>1, <2>3, <2>4 DEF LatestOnly
  <2>6. LatestAgrees(j)'
    <3>1. latest # 0 => latest \in AttemptNumbers
      BY <2>2, LimitsAssumption DEF JobRows, AttemptNumbers
    <3> QED
      BY <2>3, <2>4, <3>1 DEF LatestAgrees, AbandonedStates
  <2>7. ASSUME NEW n \in AttemptNumbers
        PROVE  Outcome(<<j, n>>)' = Outcome(<<j, n>>)
    <3>1. CASE n = latest
      <4>1. Outcome(<<j, n>>) = "open"
        BY <2>1, <3>1 DEF Outcome
      <4>2. Outcome(<<j, n>>)' = "open"
        BY <2>1, <2>3, <2>4, <3>1 DEF Outcome
      <4> QED
        BY <4>1, <4>2
    <3>2. CASE n # latest
      BY <1>1, <2>4, <3>2, OldAttempt DEF CurrentAttemptIsLatest, Quiet
    <3> QED
      BY <3>1, <3>2
  <2> QED
    BY <2>5, <2>6, <2>7
<1>4. \A j \in Jobs : LatestOnly(j) /\ LatestAgrees(j)'
  BY <1>2, <1>3, UntouchedJob DEF RowsInv
<1>5. ASSUME NEW c \in Claims PROVE Outcome(c)' = Outcome(c)
  <2>1. c[1] \in Jobs /\ c[2] \in AttemptNumbers /\ c = <<c[1], c[2]>>
    BY ClaimParts
  <2>2. Outcome(<<c[1], c[2]>>)' = Outcome(<<c[1], c[2]>>)
    BY <1>2, <1>3, <2>1, UntouchedJob DEF RowsInv, Quiet
  <2> QED
    BY <2>1, <2>2
<1> QED
  BY <1>1, <1>4, <1>5, RowsStep DEF StoreQuiet, Quiet

\* The rows of an attempt under reconciliation.
LEMMA UncertainRows ==
    ASSUME StoreInv, RowsInv, NEW c \in Claims, IsCurrent(c[1], c[2]),
           jobs[c[1]].state = "reconciliation_required"
    PROVE  LET job == jobs[c[1]]
               row == attempts[c[1]][c[2]]
           IN  /\ job \in JobRows /\ row \in AttemptRows
               /\ job.attempt = c[2] /\ row.current /\ row.epoch # 0
               /\ job.pub = row.pub
               /\ \/ row.pub = "not_started" /\ Outcome(c) = "unpublished"
                  \/ row.pub = "commit_unknown" /\ Outcome(c) = "open"
<1>1. c[1] \in Jobs /\ c[2] \in AttemptNumbers /\ c[2] # 0
  BY ClaimParts, LimitsAssumption DEF AttemptNumbers
<1>2. jobs[c[1]] \in JobRows /\ attempts[c[1]][c[2]] \in AttemptRows
  BY <1>1 DEF StoreInv, TypeOK
<1>3. jobs[c[1]].attempt = c[2] /\ attempts[c[1]][c[2]].current
  BY DEF IsCurrent
<1>4. attempts[c[1]][c[2]].epoch # 0
  BY <1>1, <1>3, LimitsAssumption DEF RowsInv, RowsAgree, AttemptNumbers
<1>5. /\ attempts[c[1]][c[2]].pub \in {"not_started", "commit_unknown"}
      /\ jobs[c[1]].pub = attempts[c[1]][c[2]].pub
  BY <1>1, <1>3 DEF RowsInv, RowsAgree, LatestAgrees
<1> QED
  BY <1>2, <1>3, <1>4, <1>5 DEF Outcome, SafeUnpublished

\* The durable closure decides an open attempt as unpublished.
LEMMA ClosureDecides ==
    ASSUME StoreInv, RowsInv, NEW c \in Claims, NEW e \in Epochs,
           execute_durable_closure(e, c[1], c[2])
    PROVE  /\ RowsInv' /\ EpochOf(c) # 0
           /\ Outcome(c) = "open" => StoreDecides(c, "unpublished")
           /\ Outcome(c) # "open" => StoreQuiet
<1> DEFINE j == c[1]
           n == c[2]
           job == [jobs[j] EXCEPT !.pub = "not_started"]
           row == [attempts[j][n] EXCEPT !.pub = "not_started", !.digest = FALSE]
<1>1. j \in Jobs /\ n \in AttemptNumbers /\ c = <<j, n>>
  BY ClaimParts
<1>2. jobs[j].state = "reconciliation_required" /\ IsCurrent(j, n)
  BY DEF execute_durable_closure, RestartCurrency
<1>3. /\ jobs[j] \in JobRows /\ attempts[j][n] \in AttemptRows
      /\ jobs[j].attempt = n /\ attempts[j][n].current
      /\ attempts[j][n].epoch # 0
      /\ Outcome(c) \in {"open", "unpublished"}
  BY <1>2, UncertainRows
<1>4. /\ jobs' = [jobs EXCEPT ![j] = job]
      /\ attempts' = [attempts EXCEPT ![j][n] = row]
      /\ markers' = markers /\ xact' = xact
  BY DEF execute_durable_closure
<1>5. /\ job.state = "reconciliation_required" /\ job.attempt = n
      /\ job.pub = "not_started"
      /\ row.epoch = attempts[j][n].epoch /\ row.lease = attempts[j][n].lease
      /\ row.current /\ row.pub = "not_started"
  BY <1>2, <1>3 DEF JobRows, AttemptRows
<1> HIDE DEF job, row
<1>6. /\ jobs'[j] = job /\ attempts'[j][n] = row
      /\ \A k \in Jobs \ {j} : Untouched(k)
      /\ LatestOnly(j)
  BY Zenon, <1>1, <1>3, <1>4, <1>5, RowUpdate DEF StoreInv
<1>7. LatestAgrees(j)'
  BY <1>5, <1>6 DEF LatestAgrees, AbandonedStates
<1>8. Outcome(c)' = "unpublished"
  BY <1>1, <1>3, <1>5, <1>6 DEF Outcome
<1>9. EpochOf(c) # 0
  BY <1>3 DEF EpochOf
<1>10. CASE Outcome(c) = "open"
  BY <1>3, <1>4, <1>6, <1>7, <1>8, <1>9, <1>10, DecidingStep
<1>11. CASE Outcome(c) # "open"
  <2>1. \A m \in AttemptNumbers : m = jobs[j].attempt =>
           Outcome(<<j, m>>)' = Outcome(<<j, m>>)
    BY <1>1, <1>3, <1>8, <1>11
  <2> QED
    BY <1>1, <1>4, <1>6, <1>7, <1>9, <1>11, <2>1, QuietStep
<1> QED
  BY <1>10, <1>11

\* A verdict without success is given on an attempt that is known to be
\* unpublished, or leaves it open in quarantine.
LEMMA VerdictEvidence ==
    ASSUME NEW j \in Jobs, NEW n \in AttemptNumbers, NEW proved \in BOOLEAN,
           jobs[j].pub = attempts[j][n].pub,
           Verdict(j, n, proved) # "reconciliation_required"
    PROVE  \/ Verdict(j, n, proved) = "succeeded" /\ markers[j][n] = "committed"
           \/ Verdict(j, n, proved) = "quarantined"
           \/ /\ Verdict(j, n, proved) \in {"queued", "failed", "cancelled"}
              /\ attempts[j][n].pub # "commit_unknown"
  BY DEF Verdict

\* So reconciliation changes the verdict of the store only with a marker.
LEMMA ReconciliationDecides ==
    ASSUME StoreInv, RowsInv, NEW c \in Claims, NEW e, NEW proved \in BOOLEAN,
           reconcile_publication(e, c[1], c[2], proved)
    PROVE  /\ RowsInv'
           /\ \A d \in Claims : SameKeys(d)
           /\ \/ StoreQuiet
              \/ /\ markers[c[1]][c[2]] = "committed"
                 /\ Outcome(c) # "published"
                 /\ Outcome(c) = "open" => StoreDecides(c, "published")
<1> DEFINE j == c[1]
           n == c[2]
           verdict == Verdict(j, n, proved)
           job == [jobs[j] EXCEPT !.state = verdict,
                                  !.pub = ClosedJobPublication(j, verdict),
                                  !.category = ClosedCategory(j, n, verdict)]
           row == [attempts[j][n] EXCEPT
                      !.current = FALSE, !.digest = FALSE,
                      !.pub = ClosedAttemptPublication(j, verdict)]
<1>1. j \in Jobs /\ n \in AttemptNumbers /\ c = <<j, n>> /\ n # 0
  BY ClaimParts, LimitsAssumption DEF AttemptNumbers
<1>2. /\ jobs[j].state = "reconciliation_required" /\ IsCurrent(j, n)
      /\ verdict # "reconciliation_required"
  BY DEF reconcile_publication
<1>3. /\ jobs[j] \in JobRows /\ attempts[j][n] \in AttemptRows
      /\ jobs[j].attempt = n /\ attempts[j][n].epoch # 0
      /\ jobs[j].pub = attempts[j][n].pub
      /\ \/ attempts[j][n].pub = "not_started" /\ Outcome(c) = "unpublished"
         \/ attempts[j][n].pub = "commit_unknown" /\ Outcome(c) = "open"
  BY <1>2, UncertainRows
<1>4. /\ jobs' = [jobs EXCEPT ![j] = job]
      /\ attempts' = [attempts EXCEPT ![j][n] = row]
      /\ markers' = markers /\ xact' = xact
  BY DEF reconcile_publication
<1>5. /\ job.state = verdict /\ job.attempt = n
      /\ row.epoch = attempts[j][n].epoch /\ row.lease = attempts[j][n].lease
      /\ row.current = FALSE /\ row.pub = ClosedAttemptPublication(j, verdict)
  BY <1>3 DEF JobRows, AttemptRows
<1>6. \/ /\ verdict = "succeeded" /\ markers[j][n] = "committed"
         /\ row.pub = "committed"
      \/ verdict = "quarantined" /\ row.pub = jobs[j].pub
      \/ /\ verdict \in {"queued", "failed", "cancelled"}
         /\ row.pub \in SafeUnpublished
         /\ Outcome(c) = "unpublished"
  <2>1. \/ verdict = "succeeded" /\ markers[j][n] = "committed"
        \/ verdict = "quarantined"
        \/ /\ verdict \in {"queued", "failed", "cancelled"}
           /\ attempts[j][n].pub # "commit_unknown"
    BY <1>1, <1>2, <1>3, VerdictEvidence
  <2> HIDE DEF verdict, row
  <2> QED
    BY <1>3, <1>5, <2>1
       DEF ClosedAttemptPublication, ClosedJobPublication, SafeUnpublished
<1> HIDE DEF job, row, verdict
<1>7. /\ jobs'[j] = job /\ attempts'[j][n] = row
      /\ \A k \in Jobs \ {j} : Untouched(k)
      /\ LatestOnly(j)
  <2>1. /\ job.attempt = n /\ row.epoch = attempts[j][n].epoch
        /\ row.lease = attempts[j][n].lease
    BY <1>5
  <2>2. TypeOK /\ jobs[j].attempt = n
    BY <1>3 DEF StoreInv
  <2> HIDE DEF j, n
  <2> QED
    BY <1>1, <1>4, <2>1, <2>2, RowUpdate
<1>8. LatestAgrees(j)'
  BY <1>1, <1>5, <1>6, <1>7 DEF LatestAgrees, AbandonedStates
<1>9. \A d \in Claims : SameKeys(d)
  BY <1>1, <1>4, <1>7, <1>8, OneJobStep
<1>10. CASE verdict = "succeeded"
  <2>1. markers[j][n] = "committed" /\ row.pub = "committed"
    BY <1>6, <1>10
  <2>2. Outcome(c)' = "published"
    <3>1. /\ attempts'[j][n].epoch # 0 /\ attempts'[j][n].current = FALSE
          /\ attempts'[j][n].pub = "committed"
      BY <1>3, <1>5, <1>7, <2>1
    <3> QED
      BY <3>1 DEF Outcome, SafeUnpublished
  <2>3. CASE Outcome(c) = "open"
    BY <1>3, <1>4, <1>7, <1>8, <1>9, <2>1, <2>2, <2>3, DecidingStep
  <2>4. CASE Outcome(c) # "open"
    BY <1>1, <1>3, <1>4, <1>7, <1>8, <1>9, <2>1, <2>4, OneJobStep
  <2> QED
    BY <2>3, <2>4
<1>11. CASE verdict # "succeeded"
  <2>1. Outcome(c)' = Outcome(c)
    BY <1>1, <1>3, <1>5, <1>6, <1>7, <1>11 DEF Outcome, SafeUnpublished
  <2>2. \A m \in AttemptNumbers : m = jobs[j].attempt =>
           Outcome(<<j, m>>)' = Outcome(<<j, m>>)
    BY <1>1, <1>3, <2>1
  <2> QED
    BY <1>1, <1>4, <1>7, <1>8, <1>9, <2>2, QuietStep
<1> QED
  BY <1>10, <1>11

-----------------------------------------------------------------------------
(* The claim *)

\* Attempts can be counted: there are finitely many.
ClaimsAreCounted ==
    \A S \in SUBSET Claims : \A c \in Claims \ S :
        /\ Cardinality(S) \in Nat /\ Cardinality(Claims) \in Nat
        /\ Cardinality(S \cup {c}) = Cardinality(S) + 1
        /\ Cardinality(S \cup {c}) <= Cardinality(Claims)

\* There is a lease number left for an attempt that has not been claimed.
LEMMA LeaseLeft ==
    ASSUME RowsInv, ClaimsAreCounted, NEW c \in Claims, EpochOf(c) = 0
    PROVE  /\ xact \in Nat /\ xact + 1 \in LeaseNumbers
           /\ Cardinality(IssuedClaims \cup {c}) = xact + 1
<1>1. IssuedClaims \in SUBSET Claims /\ c \in Claims \ IssuedClaims
  BY DEF IssuedClaims
<1>2. /\ Cardinality(IssuedClaims) \in Nat /\ Cardinality(Claims) \in Nat
      /\ Cardinality(IssuedClaims \cup {c}) = Cardinality(IssuedClaims) + 1
      /\ Cardinality(IssuedClaims \cup {c}) <= Cardinality(Claims)
  BY <1>1 DEF ClaimsAreCounted
<1> QED
  BY <1>2 DEF RowsInv, LeaseNumbers

\* A claim issues the next attempt of a queued job.
LEMMA ClaimIssues ==
    ASSUME StoreInv, RowsInv, ClaimsAreCounted, NEW e \in Epochs,
           NEW j \in Jobs, claim_once(e, j)
    PROVE  \E c \in Claims :
              /\ c = <<j, jobs[j].attempt + 1>>
              /\ StoreIssues(c) /\ RowsInv' /\ EpochOf(c)' = e
<1> DEFINE n == jobs[j].attempt + 1
           job == [jobs[j] EXCEPT !.state = "claimed", !.attempt = n]
           row == [NoAttempt EXCEPT !.epoch = e, !.lease = xact + 1,
                                    !.current = TRUE]
<1>1. /\ jobs[j].state = "queued" /\ jobs[j].attempt < MaxAttempts
      /\ jobs' = [jobs EXCEPT ![j] = job]
      /\ attempts' = [attempts EXCEPT ![j][n] = row]
      /\ markers' = markers /\ xact' = xact + 1
  BY DEF claim_once, Claimable
<1>2. TypeOK /\ jobs[j] \in JobRows /\ jobs[j].attempt \in 0 .. MaxAttempts
  BY DEF StoreInv, TypeOK, JobRows
<1>3. n \in AttemptNumbers /\ n # 0 /\ <<j, n>> \in Claims /\ n = jobs[j].attempt + 1
  BY <1>1, <1>2, LimitsAssumption DEF AttemptNumbers, Claims
<1>4. /\ job.state = "claimed" /\ job.attempt = n /\ job.pub = jobs[j].pub
      /\ row.epoch = e /\ row.lease = xact + 1 /\ row.current
      /\ row.pub = "not_started"
  BY <1>2 DEF JobRows, NoAttempt
<1>5. jobs[j].pub = "not_started"
  BY <1>1 DEF StoreInv, StateAgreesWithPublication
<1> HIDE DEF n, job, row
<1>6. /\ jobs'[j] = job /\ attempts'[j][n] = row
      /\ \A m \in AttemptNumbers : m # n => attempts'[j][m] = attempts[j][m]
      /\ \A k \in Jobs \ {j} : Untouched(k)
  BY <1>1, <1>2, <1>3 DEF TypeOK, Untouched
<1>7. attempts[j][n].epoch = 0
  <2>1. RowsAgree(j)
    BY DEF RowsInv
  <2>2. attempts[j][n].epoch # 0 <=> n <= jobs[j].attempt
    BY <1>3, <2>1 DEF RowsAgree
  <2>3. jobs[j].attempt \in Nat
    BY <1>2, LimitsAssumption
  <2> QED
    BY <1>3, <2>2, <2>3
<1>8. PICK c \in Claims : c = <<j, n>>
  BY <1>3
<1>9. c[1] = j /\ c[2] = n /\ EpochOf(c) = 0
  BY <1>7, <1>8 DEF EpochOf
<1>10. /\ xact \in Nat /\ xact + 1 \in LeaseNumbers
       /\ Cardinality(IssuedClaims \cup {c}) = xact + 1
  BY <1>9, LeaseLeft
<1>11. EpochOf(c)' = e /\ attempts'[c[1]][c[2]].lease = xact + 1 /\ e # 0
  BY <1>4, <1>6, <1>9, LimitsAssumption DEF EpochOf, Epochs
<1>12. ASSUME NEW d \in Claims, d # c PROVE Quiet(d)
  <2>1. d[1] \in Jobs /\ d[2] \in AttemptNumbers /\ d = <<d[1], d[2]>>
    BY ClaimParts
  <2>2. CASE d[1] # j
    BY <1>6, <2>1, <2>2, UntouchedJob DEF RowsInv
  <2>3. CASE d[1] = j
    <3>1. d[2] # n
      BY <1>8, <1>12, <2>1, <2>3
    <3>2. ~attempts[j][d[2]].current
      BY <1>1, <2>1 DEF StoreInv, CurrentAttemptIsLatest, ActiveStates,
         AbandonedStates
    <3> QED
      BY <1>6, <2>1, <2>3, <3>1, <3>2, OldAttempt
  <2> QED
    BY <2>2, <2>3
<1>13. Outcome(c) = "open" /\ Outcome(c)' = "open"
  <2>1. jobs'[j].state = "claimed" /\ attempts'[j][n].current
    BY <1>4, <1>6
  <2>2. Outcome(c) = "open"
    BY <1>7, <1>9 DEF Outcome
  <2>3. Outcome(c)' = "open"
    BY <1>9, <2>1 DEF Outcome
  <2> QED
    BY <2>2, <2>3
<1>14. \A d \in Claims : attempts[d[1]][d[2]].lease < xact + 1
  <2>1. ASSUME NEW d \in Claims PROVE attempts[d[1]][d[2]].lease < xact + 1
    <3>1. d[1] \in Jobs /\ d[2] \in AttemptNumbers
      BY ClaimParts
    <3>2. attempts[d[1]][d[2]].lease \in Nat
      BY <1>2, <3>1 DEF TypeOK, AttemptRows
    <3>3. attempts[d[1]][d[2]].lease <= xact
      BY <3>1 DEF RowsInv, RowsAgree
    <3> QED
      BY <1>10, <3>2, <3>3
  <2> QED
    BY <2>1
<1>15. StoreIssues(c)
  BY <1>9, <1>10, <1>11, <1>12, <1>13, <1>14 DEF StoreIssues, Quiet
<1>16. RowsAgree(j)'
  <2>1. LatestAgrees(j)'
    BY <1>4, <1>5, <1>6 DEF LatestAgrees, AbandonedStates
  <2>2. ASSUME NEW m \in AttemptNumbers
        PROVE  /\ attempts'[j][m].epoch # 0 <=> m <= jobs'[j].attempt
               /\ attempts'[j][m].lease <= xact'
               /\ m < jobs'[j].attempt =>
                     attempts'[j][m].pub \in SafeUnpublished
               /\ markers'[j][m] # "conflicting"
    <3>0. RowsAgree(j)
      BY DEF RowsInv
    <3>1. /\ m \in Nat /\ n \in Nat /\ jobs[j].attempt \in Nat
          /\ jobs'[j].attempt = n
      <4>1. AttemptNumbers \subseteq Nat
        BY LimitsAssumption DEF AttemptNumbers
      <4>2. jobs[j].attempt \in Nat
        BY <1>2, LimitsAssumption
      <4>3. jobs'[j].attempt = n
        BY <1>4, <1>6
      <4> QED
        BY <1>3, <4>1, <4>2, <4>3
    <3>2. /\ attempts[j][m].epoch # 0 <=> m <= jobs[j].attempt
          /\ attempts[j][m].lease <= xact
          /\ m < jobs[j].attempt => attempts[j][m].pub \in SafeUnpublished
          /\ markers'[j][m] # "conflicting"
      BY <1>1, <3>0 DEF RowsAgree
    <3>3. attempts[j][m].lease \in Nat
      BY <1>2 DEF TypeOK, AttemptRows
    <3>4. m = jobs[j].attempt => attempts[j][m].pub \in SafeUnpublished
      <4>1. m # 0
        BY LimitsAssumption DEF AttemptNumbers
      <4> QED
        BY <1>1, <3>0, <4>1 DEF RowsAgree, LatestAgrees
    <3>5. CASE m = n
      <4>1. attempts'[j][m].epoch # 0 /\ attempts'[j][m].lease = xact + 1
        BY <1>4, <1>6, <1>11, <3>5
      <4>2. xact' = xact + 1 /\ xact \in Nat
        BY <1>1, <1>10
      <4>3. attempts'[j][m].lease <= xact'
        BY <4>1, <4>2
      <4>4. m <= jobs'[j].attempt /\ ~(m < jobs'[j].attempt)
        BY <3>1, <3>5
      <4> QED
        BY <3>2, <4>1, <4>3, <4>4
    <3>6. CASE m # n
      BY <1>1, <1>3, <1>6, <1>10, <3>1, <3>2, <3>3, <3>4, <3>6
    <3> QED
      BY <3>5, <3>6
  <2> QED
    BY <2>1, <2>2 DEF RowsAgree
<1>17. ASSUME NEW k \in Jobs, k # j PROVE RowsAgree(k)'
  <2>1. RowsAgree(k) /\ Untouched(k)
    BY <1>6, <1>17 DEF RowsInv
  <2>2. LatestAgrees(k)'
    BY <2>1, UntouchedJob
  <2>3. \A m \in AttemptNumbers : attempts[k][m].lease \in Nat
    BY <1>2 DEF TypeOK, AttemptRows
  <2>4. xact \in Nat /\ xact' = xact + 1
    BY <1>1, <1>10
  <2>5. ASSUME NEW m \in AttemptNumbers
        PROVE  /\ attempts'[k][m].epoch # 0 <=> m <= jobs'[k].attempt
               /\ attempts'[k][m].lease <= xact'
               /\ m < jobs'[k].attempt =>
                     attempts'[k][m].pub \in SafeUnpublished
               /\ markers'[k][m] # "conflicting"
    <3>1. /\ attempts'[k] = attempts[k] /\ jobs'[k] = jobs[k]
          /\ markers'[k] = markers[k]
      BY <2>1 DEF Untouched
    <3>2. attempts[k][m].lease <= xact
      BY <2>1 DEF RowsAgree
    <3>3. attempts'[k][m].lease <= xact'
      BY <2>3, <2>4, <3>1, <3>2
    <3> QED
      BY <2>1, <3>1, <3>3 DEF RowsAgree
  <2> QED
    BY <2>2, <2>5 DEF RowsAgree
<1>18. IssuedClaims' = IssuedClaims \cup {c}
  BY <1>11, <1>12 DEF IssuedClaims, Quiet, SameKeys, Claims
<1>19. RowsInv'
  BY <1>1, <1>10, <1>16, <1>17, <1>18 DEF RowsInv
<1> QED
  BY <1>3, <1>8, <1>11, <1>15, <1>19

\* What _dispose_terminal may find.
Reports == {"succeeded", "succeeded_unproved", "failed", "cancelled",
            "unknown", "unproved"}

Successes == {"succeeded", "succeeded_unproved"}

ThreadRecords == [at : ThreadSteps, saw : Terminals, cancel : BOOLEAN]

\* A thread takes a branch of the disposition only with the report it is for.
ShapeOf(r) ==
    /\ r.at = "dispose" => r.saw \in Reports
    /\ r.at = "record" => r.saw \in Successes
    /\ r.at = "settle" => r.saw = "failed"
    /\ r.at \in {"cancelling", "cancel"} => r.saw \in {"failed", "cancelled"}

\* Threads belong to attempts that were claimed, and a recovery pass is at
\* one of the claims it listed.
ThreadShape(c) ==
    ShapeOf(thread[c]) /\ (thread[c].at # "none" => EpochOf(c) # 0)

RecoveryShape(e) ==
    recovery[e].at \notin {"idle", "next"} => recovery[e].claim \in Claims

BaseInv ==
    /\ StoreInv
    /\ RowsInv
    /\ CoordinatorTypeOK
    /\ \A c \in Claims : ThreadShape(c)
    /\ \A e \in Epochs : RecoveryShape(e)

\* A step of the thread of one attempt.
ThreadGoes(c) ==
    \E r \in ThreadRecords :
        ShapeOf(r) /\ r.at # "none" /\ thread' = [thread EXCEPT ![c] = r]

-----------------------------------------------------------------------------
(* Threads *)

\* A thread that goes on without a new report.
LEMMA GotoGoes ==
    ASSUME CoordinatorTypeOK, NEW c \in Claims, NEW step \in ThreadSteps,
           Goto(c, step), step # "none",
           ShapeOf([thread[c] EXCEPT !.at = step])
    PROVE  ThreadGoes(c)
<1>1. thread[c] \in ThreadRecords
  BY DEF CoordinatorTypeOK, ThreadRecords
<1>2. [thread[c] EXCEPT !.at = step] \in ThreadRecords
  BY <1>1 DEF ThreadRecords
<1>3. [thread[c] EXCEPT !.at = step].at = step
  BY <1>1 DEF ThreadRecords
<1> QED
  BY Zenon, <1>2, <1>3 DEF ThreadGoes, Goto

\* Most steps lead to a place that any report may be brought to.
PlainSteps == ThreadSteps \ {"none", "dispose", "record", "settle",
                             "cancelling", "cancel"}

\* Such a place may be reached with any report.
LEMMA PlainGoes ==
    ASSUME CoordinatorTypeOK, NEW c \in Claims,
           \E step \in PlainSteps : Goto(c, step)
    PROVE  ThreadGoes(c)
<1> PICK step \in PlainSteps : Goto(c, step)
  OBVIOUS
<1>1. thread[c] \in ThreadRecords
  BY DEF CoordinatorTypeOK, ThreadRecords
<1>2. ShapeOf([thread[c] EXCEPT !.at = step])
  BY <1>1 DEF ThreadRecords, ShapeOf, PlainSteps
<1> QED
  BY <1>2, GotoGoes DEF PlainSteps

\* A thread that goes on with a report.
LEMMA SeeingGoes ==
    ASSUME CoordinatorTypeOK, NEW c \in Claims, NEW step \in ThreadSteps,
           NEW saw \in Terminals, GotoSeeing(c, step, saw), step # "none",
           ShapeOf([at |-> step, saw |-> saw, cancel |-> FALSE])
    PROVE  ThreadGoes(c)
<1> DEFINE r == [thread[c] EXCEPT !.at = step, !.saw = saw]
<1>1. thread[c] \in ThreadRecords
  BY DEF CoordinatorTypeOK, ThreadRecords
<1>2. r \in ThreadRecords /\ r.at = step /\ r.saw = saw
  BY Zenon, <1>1 DEF ThreadRecords
<1>3. ShapeOf(r)
  BY <1>2 DEF ShapeOf
<1>4. thread' = [thread EXCEPT ![c] = r]
  BY DEF GotoSeeing
<1> QED
  BY Zenon, <1>2, <1>3, <1>4 DEF ThreadGoes

\* The branch of the disposition fits the report.
LEMMA DisposeGoes ==
    ASSUME TypeOK, CoordinatorTypeOK, NEW c \in Claims, ShapeOf(thread[c]),
           dispose_terminal(c)
    PROVE  ThreadGoes(c)
<1> DEFINE saw == thread[c].saw
           cancel == jobs[c[1]].cancel
           step == CASE saw \in {"succeeded", "succeeded_unproved"} -> "record"
                     [] saw \in {"unknown", "unproved"} -> "mark"
                     [] saw = "failed" /\ ~cancel -> "settle"
                     [] saw = "cancelled" /\ ~cancel -> "mark"
                     [] OTHER -> "cancelling"
           r == [saw |-> saw, cancel |-> cancel, at |-> step]
<1>1. thread' = [thread EXCEPT ![c] = r]
  BY DEF dispose_terminal
<1>2. saw \in Terminals /\ cancel \in BOOLEAN
  BY ClaimParts DEF CoordinatorTypeOK, TypeOK, JobRows
<1>3. saw \in Reports
  BY DEF dispose_terminal, At, ShapeOf
<1>4. step \in {"record", "mark", "settle", "cancelling"}
  BY <1>3 DEF Reports
<1>5. /\ step = "record" => saw \in Successes
      /\ step = "settle" => saw = "failed"
      /\ step = "cancelling" => saw \in {"failed", "cancelled"}
  BY <1>3 DEF Reports, Successes
<1> HIDE DEF saw, cancel, step
<1>6. r \in ThreadRecords
  BY <1>2, <1>4 DEF ThreadRecords, ThreadSteps, Disposing
<1>7. ShapeOf(r) /\ r.at # "none"
  BY <1>4, <1>5 DEF ShapeOf
<1> QED
  BY Zenon, <1>1, <1>6, <1>7 DEF ThreadGoes

\* Every step of a thread leads to a place that fits what it saw.
LEMMA ThreadActionGoes ==
    ASSUME TypeOK, CoordinatorTypeOK, NEW c \in Claims, ShapeOf(thread[c]),
           ThreadNext(c)
    PROVE  ThreadGoes(c) /\ thread[c].at # "none"
<1>1. thread[c].at # "none"
  BY Zenon DEF ThreadNext, start, begin, finish_prestart_cancel, uncertain_start,
     resolve, register_supervisor_launch, launch_worker, supervise, reap,
     raised, dispose_terminal, record_marker_if_available,
     mark_reconciliation_required, terminate, reread, reconcile_current,
     settle, settle_cancelled, release_terminal_lease, retire, At
<1>2. ASSUME \E saw \in {"claimed", "starting"} : GotoSeeing(c, "prestart", saw)
      PROVE  ThreadGoes(c)
  <2>1. PICK saw \in {"claimed", "starting"} : GotoSeeing(c, "prestart", saw)
    BY <1>2
  <2>2. ShapeOf([at |-> "prestart", saw |-> saw, cancel |-> FALSE])
    BY DEF ShapeOf
  <2> QED
    BY Zenon, <2>1, <2>2, SeeingGoes DEF ThreadSteps, Terminals
<1>3. ASSUME \E saw \in Reports : GotoSeeing(c, "dispose", saw)
      PROVE  ThreadGoes(c)
  <2>1. PICK saw \in Reports : GotoSeeing(c, "dispose", saw)
    BY <1>3
  <2>2. ShapeOf([at |-> "dispose", saw |-> saw, cancel |-> FALSE])
    BY DEF ShapeOf
  <2> QED
    BY Zenon, <2>1, <2>2, SeeingGoes DEF ThreadSteps, Terminals, Reports
<1>4. \/ \E step \in PlainSteps : Goto(c, step)
      \/ \E saw \in {"claimed", "starting"} : GotoSeeing(c, "prestart", saw)
      \/ \E saw \in Reports : GotoSeeing(c, "dispose", saw)
      \/ dispose_terminal(c)
      \/ At(c, "cancelling") /\ Goto(c, "cancel")
  <2> USE DEF PlainSteps, ThreadSteps, Disposing
  <2>1. CASE start(c) \/ begin(c)
    BY <2>1 DEF start, begin
  <2>2. CASE finish_prestart_cancel(c)
    BY <2>2 DEF finish_prestart_cancel, Transition, OwnershipLost
  <2>3. CASE uncertain_start(c) \/ raised(c)
    BY <2>3 DEF uncertain_start, raised, Transition
  <2>4. CASE resolve(c) \/ launch_worker(c)
    BY <2>4 DEF resolve, launch_worker, Reports
  <2>5. CASE register_supervisor_launch(c)
    BY <2>5 DEF register_supervisor_launch
  <2>6. CASE supervise(c)
    BY <2>6 DEF supervise, Reports
  <2>7. CASE reap(c)
    <3>1. \A abnormal \in BOOLEAN :
             TerminalOf(c, decision'[c], abnormal) \in Reports
      BY DEF TerminalOf, Reports
    <3> QED
      BY <2>7, <3>1 DEF reap
  <2>8. CASE record_marker_if_available(c) \/ terminate(c) \/ reread(c)
    BY <2>8 DEF record_marker_if_available, terminate, reread
  <2>9. CASE mark_reconciliation_required(c)
    BY <2>9 DEF mark_reconciliation_required, Transition
  <2>10. CASE reconcile_current(c)
    BY ZenonT(30), <2>10 DEF reconcile_current
  <2>11. CASE settle(c) \/ release_terminal_lease(c) \/ retire(c)
    BY <2>11 DEF settle, release_terminal_lease, retire, Transition
  <2>12. CASE settle_cancelled(c)
    BY <2>12 DEF settle_cancelled, Transition
  <2> QED
    BY <2>1, <2>2, <2>3, <2>4, <2>5, <2>6, <2>7, <2>8, <2>9, <2>10, <2>11,
       <2>12 DEF ThreadNext
<1>5. ASSUME At(c, "cancelling"), Goto(c, "cancel") PROVE ThreadGoes(c)
  <2>1. thread[c] \in ThreadRecords /\ thread[c].at = "cancelling"
    BY <1>5 DEF At, CoordinatorTypeOK, ThreadRecords
  <2>2. ShapeOf([thread[c] EXCEPT !.at = "cancel"])
    BY <2>1 DEF ShapeOf, ThreadRecords
  <2> QED
    BY <1>5, <2>2, GotoGoes DEF ThreadSteps, Disposing
<1> QED
  BY <1>1, <1>2, <1>3, <1>4, <1>5, PlainGoes, DisposeGoes

-----------------------------------------------------------------------------
(* Transactions *)

EpochsStay == \A c \in Claims : EpochOf(c) # 0 => EpochOf(c)' = EpochOf(c)

\* A transaction of ControlStore that keeps the rows in order.
StoreMove == [Next]_storeVars /\ RowsInv' /\ EpochsStay

\* A transaction that decides nothing keeps the epochs.
LEMMA QuietKeeps == ASSUME StoreQuiet PROVE EpochsStay
  BY DEF StoreQuiet, Quiet, SameKeys, EpochsStay

\* So does one that decides an attempt.
LEMMA DecidesKeeps ==
    ASSUME NEW c \in Claims, NEW verdict, StoreDecides(c, verdict)
    PROVE  EpochsStay
  BY DEF StoreDecides, Quiet, SameKeys, EpochsStay

\* A step without a transaction.
LEMMA NoTransaction ==
    ASSUME StoreInv, RowsInv, UNCHANGED storeVars
    PROVE  StoreMove /\ StoreQuiet
<1>1. UNCHANGED <<jobs, attempts, markers, xact>>
  BY DEF storeVars
<1> QED
  BY <1>1, RowsUntouched, QuietKeeps DEF StoreMove

\* The state changes of the coordinator, by what they mean for the attempt.
LEMMA TransitionKinds ==
    ASSUME NEW t \in CoordinatorTransitions,
           t.pub \in {"null", "not_started", "commit_unknown"}
    PROVE  /\ t.expected \in AbandonedStates
           /\ \/ t.new \in AbandonedStates /\ t.pub = "null"
              \/ t.new = "reconciliation_required" /\ t.pub = "commit_unknown"
              \/ /\ t.new \in {"failed", "cancelled", "reconciliation_required"}
                 /\ t.pub = "not_started"
  BY DEF CoordinatorTransitions, AbandonedStates, SafeUnpublished

\* A state change of an attempt by its own coordinator is a transaction of
\* ControlStore; it decides the attempt only where it reports not_started.
LEMMA ChangeMoves ==
    ASSUME StoreInv, RowsInv, NEW c \in Claims, NEW t \in CoordinatorTransitions,
           t.pub \in {"null", "not_started", "commit_unknown"},
           compare_and_set_state(c[1], c[2], t)
    PROVE  /\ StoreMove
           /\ t.pub # "not_started" => StoreQuiet
           /\ t.pub = "not_started" =>
                 StoreDecides(c, "unpublished") /\ EpochOf(c) # 0
<1>1. [Next]_storeVars
  BY ClaimParts DEF Next, AttemptNext
<1>2. CASE t.pub = "not_started"
  <2>1. /\ t.expected \in AbandonedStates
        /\ t.new \in {"failed", "cancelled", "reconciliation_required"}
    BY <1>2, TransitionKinds
  <2>2. RowsInv' /\ StoreDecides(c, "unpublished") /\ EpochOf(c) # 0
    BY <1>2, <2>1, ChangeDecides
  <2> QED
    BY <1>1, <1>2, <2>2, DecidesKeeps DEF StoreMove
<1>3. CASE t.pub # "not_started"
  <2>1. /\ t.expected \in AbandonedStates
        /\ \/ t.new \in AbandonedStates /\ t.pub = "null"
           \/ t.new = "reconciliation_required" /\ t.pub = "commit_unknown"
    BY <1>3, TransitionKinds
  <2>2. RowsInv' /\ StoreQuiet
    BY <2>1, ChangeQuiet
  <2> QED
    BY <1>1, <1>3, <2>2, QuietKeeps DEF StoreMove
<1> QED
  BY <1>2, <1>3

-----------------------------------------------------------------------------
(* What a thread does to the store and to the files *)

\* Where a thread closes its attempt as unpublished.
Giving(c) == \/ thread[c].at \in {"prestart_cancel", "settle", "cancel"}
             \/ thread[c].at = "mark" /\ thread[c].saw = "cancelled"

\* The transaction and the file operations of a step for attempt c, which may
\* close it as unpublished under the condition given.
EffectOn(c, given) ==
    \/ StoreQuiet /\ UNCHANGED fileVars
    \/ Publication!CoordinatorNext(c)
    \/ /\ given /\ EpochOf(c) # 0
       /\ StoreDecides(c, "unpublished") /\ UNCHANGED fileVars
    \/ /\ markers[c[1]][c[2]] = "committed"
       /\ Outcome(c) # "published"
       /\ Outcome(c) = "open" => StoreDecides(c, "published")
       /\ \A d \in Claims : SameKeys(d)
       /\ UNCHANGED fileVars

\* A marker is recorded for c only, and with a receipt.
MarkersGrow(c, received) ==
    \A d \in Claims :
        \/ markers'[d[1]][d[2]] = markers[d[1]][d[2]]
        \/ d = c /\ received

ThreadEffect(c) ==
    /\ StoreMove
    /\ EffectOn(c, Giving(c))
    /\ MarkersGrow(c, thread[c].at = "record" \/ run[c] = "complete")

\* A step of a thread without a transaction.
LEMMA NoEffect ==
    ASSUME StoreInv, RowsInv, NEW c \in Claims, UNCHANGED storeVars,
           UNCHANGED fileVars \/ Publication!CoordinatorNext(c)
    PROVE  ThreadEffect(c)
<1>1. MarkersGrow(c, thread[c].at = "record" \/ run[c] = "complete")
  BY DEF MarkersGrow, storeVars
<1> QED
  BY <1>1, NoTransaction DEF ThreadEffect, EffectOn

\* A state change that compare_and_set_state makes or refuses.
LEMMA AnsweredEffect ==
    ASSUME StoreInv, RowsInv, NEW c \in Claims, NEW expected, NEW new, NEW pub,
           NEW category, NEW yes, NEW no,
           Transition(c, expected, new, pub, category, yes, no),
           [expected |-> expected, new |-> new, pub |-> pub,
            category |-> category] \in CoordinatorTransitions,
           pub \in {"null", "not_started", "commit_unknown"},
           pub = "not_started" => Giving(c),
           UNCHANGED fileVars
    PROVE  ThreadEffect(c)
<1> DEFINE t == [expected |-> expected, new |-> new, pub |-> pub,
                 category |-> category]
<1>1. t \in CoordinatorTransitions /\ t.pub = pub
  OBVIOUS
<1>2. compare_and_set_state(c[1], c[2], t) \/ UNCHANGED storeVars
  BY DEF Transition, Changes, Refused
<1> HIDE DEF t
<1>3. CASE compare_and_set_state(c[1], c[2], t)
  <2>1. markers' = markers
    BY <1>3 DEF compare_and_set_state
  <2>2. MarkersGrow(c, thread[c].at = "record" \/ run[c] = "complete")
    BY <2>1 DEF MarkersGrow
  <2> QED
    BY <1>1, <1>3, <2>2, ChangeMoves DEF ThreadEffect, EffectOn
<1>4. CASE UNCHANGED storeVars
  BY <1>4, NoEffect
<1> QED
  BY <1>2, <1>3, <1>4

\* A change within the states of a coordinator at work.
LEMMA ChangesEffect ==
    ASSUME StoreInv, RowsInv, NEW c \in Claims, NEW expected, NEW new,
           Changes(c, expected, new, "null", "none"),
           [expected |-> expected, new |-> new, pub |-> "null",
            category |-> "none"] \in CoordinatorTransitions,
           UNCHANGED fileVars
    PROVE  ThreadEffect(c)
<1> DEFINE t == [expected |-> expected, new |-> new, pub |-> "null",
                 category |-> "none"]
<1>1. t \in CoordinatorTransitions /\ t.pub = "null"
  OBVIOUS
<1>2. compare_and_set_state(c[1], c[2], t)
  BY DEF Changes
<1> HIDE DEF t
<1>3. markers' = markers
  BY <1>2 DEF compare_and_set_state
<1>4. MarkersGrow(c, thread[c].at = "record" \/ run[c] = "complete")
  BY <1>3 DEF MarkersGrow
<1> QED
  BY <1>1, <1>2, <1>4, ChangeMoves DEF ThreadEffect, EffectOn

\* record_publication_marker
LEMMA MarkerEffect ==
    ASSUME StoreInv, RowsInv, NEW c \in Claims, MarkerRecorded(c)
    PROVE  StoreMove /\ StoreQuiet /\ MarkersGrow(c, TRUE)
<1>1. c[1] \in Jobs /\ c[2] \in AttemptNumbers /\ c = <<c[1], c[2]>>
  BY ClaimParts
<1>2. CASE record_publication_marker(c[1], c[2], "committed")
  <2>1. RowsInv' /\ StoreQuiet
    BY <1>1, <1>2, MarkerQuiet
  <2>2. [Next]_storeVars
    BY <1>1, <1>2 DEF Next, AttemptNext
  <2>3. ASSUME NEW d \in Claims, d # c
        PROVE  markers'[d[1]][d[2]] = markers[d[1]][d[2]]
    <3>1. d[1] \in Jobs /\ d[2] \in AttemptNumbers /\ d = <<d[1], d[2]>>
      BY ClaimParts
    <3>2. markers \in [Jobs -> [AttemptNumbers ->
                                 {"absent", "committed", "conflicting"}]]
      BY DEF StoreInv, TypeOK
    <3>3. markers' = [markers EXCEPT ![c[1]][c[2]] = "committed"]
      BY <1>2 DEF record_publication_marker
    <3> QED
      BY <1>1, <2>3, <3>1, <3>2, <3>3
  <2> QED
    BY <2>1, <2>2, <2>3, QuietKeeps DEF StoreMove, MarkersGrow
<1>3. CASE UNCHANGED storeVars
  BY <1>3, NoTransaction DEF MarkersGrow, storeVars
<1> QED
  BY Zenon, <1>2, <1>3 DEF MarkerRecorded

\* The steps up to the launch of the worker.
LEMMA StartEffect ==
    ASSUME BaseInv, NEW c \in Claims,
           start(c) \/ begin(c) \/ resolve(c) \/ launch_worker(c)
    PROVE  ThreadEffect(c)
<1>1. StoreInv /\ RowsInv
  BY DEF BaseInv
<1>2. Publication!initialize(c) \/ Publication!never_launched(c)
         \/ Publication!launch(c) => Publication!CoordinatorNext(c)
  BY DEF Publication!CoordinatorNext
<1>3. CASE start(c)
  <2>1. [expected |-> "claimed", new |-> "starting", pub |-> "null",
         category |-> "none"] \in CoordinatorTransitions
    BY DEF CoordinatorTransitions
  <2> QED
    BY <1>1, <1>2, <1>3, <2>1, ChangesEffect, NoEffect DEF start, Refused
<1>4. CASE begin(c)
  <2>1. [expected |-> "starting", new |-> "running", pub |-> "null",
         category |-> "none"] \in CoordinatorTransitions
    BY DEF CoordinatorTransitions
  <2> QED
    BY <1>1, <1>2, <1>4, <2>1, ChangesEffect, NoEffect DEF begin, Refused
<1>5. CASE resolve(c) \/ launch_worker(c)
  BY <1>1, <1>2, <1>5, NoEffect DEF resolve, launch_worker
<1> QED
  BY <1>3, <1>4, <1>5

\* The supervisor's registration and its use.
LEMMA SupervisionEffect ==
    ASSUME BaseInv, NEW c \in Claims,
           register_supervisor_launch(c) \/ supervise(c) \/ reap(c)
    PROVE  ThreadEffect(c)
<1>1. StoreInv /\ RowsInv
  BY DEF BaseInv
<1>2. c[1] \in Jobs /\ c[2] \in AttemptNumbers
  BY ClaimParts
<1>3. ASSUME \/ persist_supervisor_registration(c[1], c[2])
             \/ consume_supervisor_registration(c[1], c[2]),
             UNCHANGED fileVars \/ Publication!CoordinatorNext(c)
      PROVE  ThreadEffect(c)
  <2>1. RowsInv' /\ StoreQuiet
    BY <1>1, <1>2, <1>3, RegistrationQuiet
  <2>2. [Next]_storeVars
    BY <1>2, <1>3 DEF Next, AttemptNext
  <2>3. markers' = markers
    BY <1>3 DEF persist_supervisor_registration, consume_supervisor_registration
  <2>4. MarkersGrow(c, thread[c].at = "record" \/ run[c] = "complete")
    BY <2>3 DEF MarkersGrow
  <2> QED
    BY <1>3, <2>1, <2>2, <2>4, QuietKeeps DEF ThreadEffect, StoreMove, EffectOn
<1>4. Publication!close_unpublished(c) \/ Publication!never_launched(c) =>
         Publication!CoordinatorNext(c)
  BY DEF Publication!CoordinatorNext
<1>5. CASE register_supervisor_launch(c)
  BY <1>1, <1>3, <1>4, <1>5, NoEffect DEF register_supervisor_launch
<1>6. CASE supervise(c)
  BY <1>1, <1>6, NoEffect DEF supervise
<1>7. CASE reap(c)
  BY <1>1, <1>3, <1>4, <1>7, NoEffect DEF reap
<1> QED
  BY <1>5, <1>6, <1>7

\* Compare-and-set operations of a thread.
LEMMA AnswerEffect ==
    ASSUME BaseInv, NEW c \in Claims,
           \/ finish_prestart_cancel(c) \/ uncertain_start(c) \/ raised(c)
           \/ mark_reconciliation_required(c) \/ settle_cancelled(c)
    PROVE  ThreadEffect(c)
<1>1. StoreInv /\ RowsInv /\ UNCHANGED fileVars /\ ShapeOf(thread[c])
  BY DEF BaseInv, ThreadShape, finish_prestart_cancel, uncertain_start, raised,
     mark_reconciliation_required, settle_cancelled
<1> USE DEF CoordinatorTransitions, SafeUnpublished
<1>2. CASE finish_prestart_cancel(c)
  <2>1. [expected |-> "cancel_requested", new |-> "cancelling", pub |-> "null",
         category |-> "none"] \in CoordinatorTransitions
    OBVIOUS
  <2>2. [expected |-> "cancelling", new |-> "cancelled", pub |-> "not_started",
         category |-> "other"] \in CoordinatorTransitions
    OBVIOUS
  <2> HIDE DEF CoordinatorTransitions, SafeUnpublished
  <2>3. At(c, "prestart_cancel") => Giving(c)
    BY DEF At, Giving
  <2> QED
    BY <1>1, <1>2, <2>1, <2>2, <2>3, AnsweredEffect DEF finish_prestart_cancel
<1>3. CASE uncertain_start(c)
  <2>1. [expected |-> "starting", new |-> "reconciliation_required",
         pub |-> "commit_unknown", category |-> "other"]
           \in CoordinatorTransitions
    OBVIOUS
  <2> HIDE DEF CoordinatorTransitions, SafeUnpublished
  <2> QED
    BY <1>1, <1>3, <2>1, AnsweredEffect DEF uncertain_start
<1>4. CASE raised(c)
  <2>1. \A expected \in {"cancel_requested", "running"} :
           [expected |-> expected, new |-> "reconciliation_required",
            pub |-> "commit_unknown", category |-> "other"]
              \in CoordinatorTransitions
    OBVIOUS
  <2> HIDE DEF CoordinatorTransitions, SafeUnpublished
  <2>2. PICK expected \in {"cancel_requested", "running"} :
           Transition(c, expected, "reconciliation_required", "commit_unknown", "other",
                      "done", "done")
    BY <1>4 DEF raised
  <2>3. [expected |-> expected, new |-> "reconciliation_required",
         pub |-> "commit_unknown", category |-> "other"] \in CoordinatorTransitions
    BY <2>1
  <2> QED
    BY <1>1, <2>2, <2>3, AnsweredEffect
<1>5. CASE mark_reconciliation_required(c)
  <2>1. \A expected \in {"cancel_requested", "running"},
           pub \in {"not_started", "commit_unknown"},
           category \in {"other", "protocol"} :
           [expected |-> expected, new |-> "reconciliation_required",
            pub |-> pub, category |-> category] \in CoordinatorTransitions
    OBVIOUS
  <2> HIDE DEF CoordinatorTransitions, SafeUnpublished
  <2>2. PICK category \in {"other", "protocol"} :
           Transition(c, Expected(c), "reconciliation_required",
                IF thread[c].saw = "cancelled" THEN "not_started"
                ELSE "commit_unknown", category,
                CASE thread[c].saw = "unproved" -> "done"
                  [] thread[c].saw = "succeeded_unproved" -> "reread"
                  [] OTHER -> "terminate",
                "done")
    BY <1>5 DEF mark_reconciliation_required
  <2>3. Expected(c) \in {"cancel_requested", "running"}
    BY DEF Expected
  <2>4. thread[c].saw = "cancelled" => Giving(c)
    BY <1>5 DEF mark_reconciliation_required, At, Giving
  <2> QED
    BY <1>1, <2>1, <2>2, <2>3, <2>4, AnsweredEffect
<1>6. CASE settle_cancelled(c)
  <2>1. [expected |-> "cancel_requested", new |-> "cancelling", pub |-> "null",
         category |-> "none"] \in CoordinatorTransitions
    OBVIOUS
  <2>2. \A new \in {"failed", "cancelled"} :
           [expected |-> "cancelling", new |-> new, pub |-> "not_started",
            category |-> "other"] \in CoordinatorTransitions
    OBVIOUS
  <2> HIDE DEF CoordinatorTransitions, SafeUnpublished
  <2>3. At(c, "cancel") => Giving(c) /\ thread[c].saw \in {"failed", "cancelled"}
    BY <1>1 DEF At, Giving, ShapeOf
  <2> QED
    BY <1>1, <1>6, <2>1, <2>2, <2>3, AnsweredEffect DEF settle_cancelled
<1> QED
  BY <1>2, <1>3, <1>4, <1>5, <1>6

\* The epoch of a claimed attempt is that of a coordinator.
LEMMA ClaimedEpoch ==
    ASSUME StoreInv, NEW c \in Claims, EpochOf(c) # 0
    PROVE  EpochOf(c) \in Epochs
<1>1. EpochOf(c) \in 0 .. MaxEpoch
  BY ClaimParts DEF StoreInv, TypeOK, AttemptRows, EpochOf
<1> QED
  BY <1>1, LimitsAssumption DEF Epochs

\* reconcile_publication, by whichever coordinator.
LEMMA ReconcileEffect ==
    ASSUME StoreInv, RowsInv, NEW c \in Claims, NEW e \in Epochs,
           NEW proved \in BOOLEAN, reconcile_publication(e, c[1], c[2], proved),
           UNCHANGED fileVars
    PROVE  /\ StoreMove
           /\ \A given \in BOOLEAN : EffectOn(c, given)
           /\ MarkersGrow(c, FALSE)
<1>1. c[1] \in Jobs /\ c[2] \in AttemptNumbers
  BY ClaimParts
<1>2. [Next]_storeVars
  BY <1>1 DEF Next, ReconcilerNext
<1>3. /\ RowsInv'
      /\ \A d \in Claims : SameKeys(d)
      /\ \/ StoreQuiet
         \/ /\ markers[c[1]][c[2]] = "committed"
            /\ Outcome(c) # "published"
            /\ Outcome(c) = "open" => StoreDecides(c, "published")
  BY ReconciliationDecides
<1>4. EpochsStay
  BY <1>3 DEF EpochsStay, SameKeys
<1>5. MarkersGrow(c, FALSE)
  BY DEF reconcile_publication, MarkersGrow
<1> QED
  BY ZenonT(30), <1>2, <1>3, <1>4, <1>5 DEF StoreMove, EffectOn

\* The disposition after the state change.
LEMMA DispositionEffect ==
    ASSUME BaseInv, NEW c \in Claims,
           \/ dispose_terminal(c) \/ record_marker_if_available(c)
           \/ terminate(c) \/ reread(c) \/ reconcile_current(c)
           \/ settle(c) \/ release_terminal_lease(c) \/ retire(c)
    PROVE  ThreadEffect(c)
<1>1. StoreInv /\ RowsInv
  BY DEF BaseInv
<1>2. c[1] \in Jobs /\ c[2] \in AttemptNumbers
  BY ClaimParts
<1>3. EpochOf(c) \in Epochs
  <2>1. thread[c].at # "none"
    BY Zenon DEF dispose_terminal, record_marker_if_available, terminate, reread,
       reconcile_current, settle, release_terminal_lease, retire, At
  <2> QED
    BY <1>1, <2>1, ClaimedEpoch DEF BaseInv, ThreadShape
<1> DEFINE received == thread[c].at = "record" \/ run[c] = "complete"
<1>4. received \in BOOLEAN /\ Giving(c) \in BOOLEAN
  BY DEF Giving
<1>5. ASSUME MarkersGrow(c, FALSE) \/ markers' = markers
             \/ (received /\ MarkersGrow(c, TRUE))
      PROVE  MarkersGrow(c, received)
  BY <1>5 DEF MarkersGrow
<1>6. CASE dispose_terminal(c)
  BY <1>1, <1>6, NoEffect DEF dispose_terminal
<1>7. ASSUME received, MarkerRecorded(c), UNCHANGED fileVars PROVE ThreadEffect(c)
  <2>1. StoreMove /\ StoreQuiet /\ MarkersGrow(c, TRUE)
    BY Zenon, <1>1, <1>7, MarkerEffect
  <2>2. MarkersGrow(c, received)
    BY ZenonT(30), <1>5, <1>7, <2>1
  <2> QED
    BY <1>7, <2>1, <2>2 DEF ThreadEffect, EffectOn
<1>8. CASE record_marker_if_available(c)
  BY <1>7, <1>8 DEF record_marker_if_available, At
<1>9. CASE reread(c)
  BY <1>1, <1>7, <1>9, NoEffect DEF reread
<1>10. CASE terminate(c)
  <2>1. CASE mark_attempt_terminated(EpochOf(c), c[1], c[2])
    <3>1. RowsInv' /\ StoreQuiet
      BY <1>1, <1>2, <1>3, <2>1, RegistrationQuiet
    <3>2. [Next]_storeVars
      BY <1>2, <1>3, <2>1 DEF Next, ReconcilerNext
    <3>3. markers' = markers
      BY <2>1 DEF mark_attempt_terminated
    <3>4. MarkersGrow(c, received)
      BY <1>5, <3>3
    <3> QED
      BY <1>10, <3>1, <3>2, <3>4, QuietKeeps
         DEF ThreadEffect, StoreMove, EffectOn, terminate
  <2>2. CASE UNCHANGED storeVars
    BY <1>1, <1>10, <2>2, NoEffect DEF terminate
  <2> QED
    BY <1>10, <2>1, <2>2 DEF terminate
<1>11. CASE reconcile_current(c)
  <2>1. CASE reconcile_publication(EpochOf(c), c[1], c[2], FALSE)
    <3>1. UNCHANGED fileVars
      BY <1>11 DEF reconcile_current
    <3>2. /\ StoreMove /\ MarkersGrow(c, FALSE)
          /\ \A given \in BOOLEAN : EffectOn(c, given)
      BY ZenonT(30), <1>1, <1>3, <2>1, <3>1, ReconcileEffect
    <3>3. EffectOn(c, Giving(c))
      BY <1>4, <3>2
    <3> QED
      BY <1>5, <3>2, <3>3 DEF ThreadEffect
  <2>2. CASE UNCHANGED storeVars
    BY <1>1, <1>11, <2>2, NoEffect DEF reconcile_current
  <2> QED
    BY Zenon, <1>11, <2>1, <2>2 DEF reconcile_current, Unresolved
<1>12. CASE settle(c)
  <2>1. UNCHANGED fileVars /\ Giving(c)
    BY <1>12 DEF settle, At, Giving
  <2>2. CASE schedule_retry(c[1], c[2])
    <3>1. RowsInv' /\ StoreDecides(c, "unpublished") /\ EpochOf(c) # 0
      BY <1>1, <2>2, RetryDecides
    <3>2. [Next]_storeVars
      BY <1>2, <2>2 DEF Next, AttemptNext
    <3>3. markers' = markers
      BY <2>2 DEF schedule_retry
    <3>4. MarkersGrow(c, received)
      BY <1>5, <3>3
    <3> QED
      BY <2>1, <3>1, <3>2, <3>4, DecidesKeeps
         DEF ThreadEffect, StoreMove, EffectOn
  <2>3. CASE Transition(c, "running", "failed", "not_started", "other",
                        "release", "done")
    <3>1. [expected |-> "running", new |-> "failed", pub |-> "not_started",
           category |-> "other"] \in CoordinatorTransitions
      BY DEF CoordinatorTransitions
    <3> QED
      BY <1>1, <2>1, <2>3, <3>1, AnsweredEffect
  <2> QED
    BY <1>12, <2>2, <2>3 DEF settle
<1>13. CASE release_terminal_lease(c)
  <2>1. CASE release_graph_lease(EpochOf(c), c[1], c[2])
    <3>1. UNCHANGED <<jobs, attempts, markers, xact>>
      BY <2>1 DEF release_graph_lease
    <3>2. RowsInv' /\ StoreQuiet
      BY <1>1, <3>1, RowsUntouched
    <3>3. [Next]_storeVars
      BY <1>2, <1>3, <2>1 DEF Next, ReconcilerNext
    <3>4. MarkersGrow(c, received)
      BY <1>5, <3>1
    <3> QED
      BY <1>13, <3>2, <3>3, <3>4, QuietKeeps
         DEF ThreadEffect, StoreMove, EffectOn, release_terminal_lease
  <2>2. CASE UNCHANGED storeVars
    BY <1>1, <1>13, <2>2, NoEffect DEF release_terminal_lease
  <2> QED
    BY <1>13, <2>1, <2>2 DEF release_terminal_lease
<1>14. CASE retire(c)
  BY <1>1, <1>14, NoEffect
     DEF retire, EvidenceRetired, Publication!CoordinatorNext
<1> QED
  BY <1>6, <1>8, <1>9, <1>10, <1>11, <1>12, <1>13, <1>14

\* Every step of a thread is one transaction of the control store and one file
\* operation, and closes its attempt as unpublished only where Giving says.
LEMMA ThreadActionEffect ==
    ASSUME BaseInv, NEW c \in Claims, ThreadNext(c)
    PROVE  ThreadEffect(c)
  BY StartEffect, SupervisionEffect, AnswerEffect, DispositionEffect
     DEF ThreadNext

-----------------------------------------------------------------------------
(* Recovery passes *)

\* The step of a recovery pass: it closes an attempt as unpublished only with
\* the fence and the gate file behind it.
RecoveryEffect(e) ==
    /\ StoreMove
    /\ \/ StoreQuiet /\ UNCHANGED fileVars /\ markers' = markers
       \/ \E c \in Claims :
             /\ c = recovery[e].claim
             /\ EffectOn(c, recovery[e].at = "filed")
             /\ MarkersGrow(c, run[c] = "complete")

\* The end of a process that has lost the singleton.
LEMMA StopMoves ==
    ASSUME StoreInv, RowsInv, NEW e \in Epochs,
           stop_singleton(e) \/ UNCHANGED storeVars
    PROVE  StoreMove /\ StoreQuiet /\ markers' = markers
<1>1. UNCHANGED <<jobs, attempts, markers, xact>>
  BY DEF stop_singleton, storeVars
<1>2. [Next]_storeVars
  BY DEF Next, OwnerNext
<1> QED
  BY <1>1, <1>2, RowsUntouched, QuietKeeps DEF StoreMove

\* Every step of a recovery pass is one transaction or file operation for the
\* claim it is at, and closes it as unpublished only once the gate is closed.
LEMMA RecoveryActionEffect ==
    ASSUME BaseInv, NEW e \in Epochs, RecoveryNext(e)
    PROVE  RecoveryEffect(e)
<1>1. StoreInv /\ RowsInv
  BY DEF BaseInv
<1>2. ASSUME stop_singleton(e) \/ UNCHANGED storeVars, UNCHANGED fileVars
      PROVE  RecoveryEffect(e)
  BY <1>1, <1>2, StopMoves DEF RecoveryEffect
<1>3. CASE recover_abandoned(e)
  <2>1. CASE recover_abandoned_attempts(e)
    <3>1. RowsInv' /\ StoreQuiet
      BY <1>1, <2>1, RecoveryQuiet
    <3>2. [Next]_storeVars
      BY <2>1 DEF Next
    <3>3. markers' = markers
      BY <2>1 DEF recover_abandoned_attempts
    <3> QED
      BY <1>3, <3>1, <3>2, <3>3, QuietKeeps
         DEF RecoveryEffect, StoreMove, recover_abandoned
  <2>2. CASE ~recover_abandoned_attempts(e)
    BY <1>2, <1>3, <2>2 DEF recover_abandoned
  <2> QED
    BY <2>1, <2>2
<1>4. CASE begin_recovery(e) \/ next_claim(e) \/ end_recovery(e)
  BY <1>2, <1>4 DEF begin_recovery, next_claim, end_recovery
<1>5. ASSUME recovery[e].at \notin {"idle", "next"}
      PROVE  \E c \in Claims : c = recovery[e].claim
  BY <1>5 DEF BaseInv, RecoveryShape
<1>6. CASE read_publication(e)
  <2>1. PICK c \in Claims : c = recovery[e].claim
    BY <1>5, <1>6 DEF read_publication, In
  <2>2. UNCHANGED fileVars
    BY <1>6 DEF read_publication
  <2>3. CASE run[c] = "complete" /\ MarkerRecorded(c)
    <3>1. StoreMove /\ StoreQuiet /\ MarkersGrow(c, TRUE)
      BY ZenonT(30), <1>1, <2>3, MarkerEffect
    <3>2. MarkersGrow(c, run[c] = "complete")
      BY <2>3, <3>1 DEF MarkersGrow
    <3> QED
      BY <2>1, <2>2, <3>1, <3>2 DEF RecoveryEffect, EffectOn
  <2>4. CASE UNCHANGED storeVars
    BY <1>2, <2>2, <2>4
  <2> QED
    BY <1>6, <2>1, <2>3, <2>4 DEF read_publication
<1>7. CASE close_with_fence(e) \/ close_gate(e) \/ retire_recovered(e)
  <2>1. PICK c \in Claims : c = recovery[e].claim
    BY <1>5, <1>7 DEF close_with_fence, close_gate, retire_recovered, In
  <2>2. UNCHANGED storeVars
    BY <1>7 DEF close_with_fence, close_gate, retire_recovered
  <2>3. Publication!CoordinatorNext(c) \/ UNCHANGED fileVars
    BY <1>7, <2>1 DEF close_with_fence, close_gate, retire_recovered,
       EvidenceRetired, Publication!CoordinatorNext
  <2>4. CASE UNCHANGED fileVars
    BY <1>2, <2>2, <2>4
  <2>5. CASE Publication!CoordinatorNext(c)
    <3>1. StoreMove
      BY <1>1, <2>2, NoTransaction
    <3>2. MarkersGrow(c, run[c] = "complete")
      BY <2>2 DEF MarkersGrow, storeVars
    <3> QED
      BY <2>1, <2>5, <3>1, <3>2 DEF RecoveryEffect, EffectOn
  <2> QED
    BY <2>3, <2>4, <2>5
<1>8. CASE close_rows(e)
  <2>1. PICK c \in Claims : c = recovery[e].claim
    BY <1>5, <1>8 DEF close_rows, In
  <2>2. UNCHANGED fileVars /\ recovery[e].at = "filed"
    BY <1>8 DEF close_rows, In
  <2>3. CASE execute_durable_closure(e, c[1], c[2])
    <3>1. /\ RowsInv' /\ EpochOf(c) # 0
          /\ Outcome(c) = "open" => StoreDecides(c, "unpublished")
          /\ Outcome(c) # "open" => StoreQuiet
      BY <1>1, <2>3, ClosureDecides
    <3>2. EpochsStay
      BY <3>1, QuietKeeps, DecidesKeeps
    <3>3. [Next]_storeVars
      BY <2>3, ClaimParts DEF Next, ReconcilerNext
    <3>4. MarkersGrow(c, run[c] = "complete")
      BY <2>3 DEF MarkersGrow, execute_durable_closure
    <3> QED
      BY <2>1, <2>2, <3>1, <3>2, <3>3, <3>4
         DEF RecoveryEffect, StoreMove, EffectOn
  <2>4. CASE UNCHANGED storeVars
    BY <1>2, <2>2, <2>4
  <2> QED
    BY <1>8, <2>1, <2>3, <2>4 DEF close_rows
<1>9. CASE reconcile_uncertain(e)
  <2>1. PICK c \in Claims : c = recovery[e].claim
    BY <1>5, <1>9 DEF reconcile_uncertain, In
  <2> DEFINE proved == recovery[e].at = "proved"
             filed == recovery[e].at = "filed"
  <2>2. UNCHANGED fileVars /\ proved \in BOOLEAN /\ filed \in BOOLEAN
    BY <1>9 DEF reconcile_uncertain
  <2>3. \/ reconcile_publication(e, c[1], c[2], proved)
        \/ stop_singleton(e) \/ UNCHANGED storeVars
    BY <1>9, <2>1 DEF reconcile_uncertain, Unresolved, RecoveryRaises
  <2>4. CASE reconcile_publication(e, c[1], c[2], proved)
    <3> HIDE DEF proved
    <3>1. /\ StoreMove /\ MarkersGrow(c, FALSE)
          /\ \A given \in BOOLEAN : EffectOn(c, given)
      BY Zenon, <1>1, <2>2, <2>4, ReconcileEffect
    <3>2. EffectOn(c, filed)
      BY Zenon, <2>2, <3>1
    <3>3. MarkersGrow(c, run[c] = "complete")
      BY <3>1 DEF MarkersGrow
    <3> QED
      BY <2>1, <3>1, <3>2, <3>3 DEF RecoveryEffect
  <2>5. CASE stop_singleton(e) \/ UNCHANGED storeVars
    BY <1>2, <2>2, <2>5
  <2> QED
    BY <2>3, <2>4, <2>5
<1> QED
  BY <1>3, <1>4, <1>6, <1>7, <1>8, <1>9 DEF RecoveryNext

RecoveryRecords == [at : RecoverySteps, claim : Claims \cup {NoClaim},
                    todo : SUBSET Claims, pending : BOOLEAN]

\* The step of a recovery pass keeps to the claims that it listed.
RecoveryGoes(e) ==
    \E r \in RecoveryRecords :
        /\ r.at \notin {"idle", "next"} => r.claim \in Claims
        /\ recovery' = [recovery EXCEPT ![e] = r]

ProcessGoes(e) == \E p \in ProcessStates : proc' = [proc EXCEPT ![e] = p]

\* A pass that goes on with its claim.
LEMMA ProceedGoes ==
    ASSUME BaseInv, NEW e \in Epochs, NEW step \in RecoverySteps,
           Proceed(e, step), recovery[e].at \notin {"idle", "next"}
    PROVE  RecoveryGoes(e)
<1> DEFINE r == [recovery[e] EXCEPT !.at = step]
<1>1. recovery[e] \in RecoveryRecords /\ recovery[e].claim \in Claims
  BY DEF BaseInv, CoordinatorTypeOK, RecoveryRecords, RecoveryShape
<1>2. r \in RecoveryRecords /\ r.claim \in Claims
  BY <1>1 DEF RecoveryRecords
<1>3. recovery' = [recovery EXCEPT ![e] = r]
  BY DEF Proceed
<1> QED
  BY ZenonT(30), <1>2, <1>3 DEF RecoveryGoes

\* A pass that is over.
LEMMA EmptyPass ==
    /\ NoRecovery \in RecoveryRecords
    /\ NoRecovery.at = "idle"
  BY DEF NoRecovery, RecoveryRecords, RecoverySteps

\* A pass begins, goes on to a claim and ends.
LEMMA PassGoes ==
    ASSUME BaseInv, NEW e \in Epochs,
           begin_recovery(e) \/ next_claim(e) \/ end_recovery(e)
    PROVE  RecoveryGoes(e)
<1>1. recovery[e] \in RecoveryRecords
  BY DEF BaseInv, CoordinatorTypeOK, RecoveryRecords
<1>2. CASE begin_recovery(e)
  <2> DEFINE r == [NoRecovery EXCEPT !.at = "next", !.todo = Uncertain]
  <2>1. Uncertain \in SUBSET Claims
    BY DEF Uncertain
  <2>2. r \in RecoveryRecords /\ r.at = "next"
    BY Zenon, <2>1 DEF NoRecovery, RecoveryRecords, RecoverySteps
  <2>3. recovery' = [recovery EXCEPT ![e] = r]
    BY <1>2 DEF begin_recovery
  <2> QED
    BY Zenon, <2>2, <2>3 DEF RecoveryGoes
<1>3. CASE next_claim(e)
  <2>1. PICK c \in recovery[e].todo :
           recovery' = [recovery EXCEPT ![e] =
              [recovery[e] EXCEPT !.at = "read", !.claim = c,
                                  !.todo = recovery[e].todo \ {c}]]
    BY <1>3 DEF next_claim
  <2> DEFINE r == [recovery[e] EXCEPT !.at = "read", !.claim = c,
                                      !.todo = recovery[e].todo \ {c}]
  <2>2. c \in Claims /\ recovery[e].todo \ {c} \in SUBSET Claims
    BY <1>1, <2>1 DEF RecoveryRecords
  <2>3. r \in RecoveryRecords /\ r.claim \in Claims
    BY Zenon, <1>1, <2>2 DEF RecoveryRecords, RecoverySteps
  <2> QED
    BY Zenon, <2>1, <2>3 DEF RecoveryGoes
<1>4. CASE end_recovery(e)
  <2> DEFINE pending == recovery[e].pending \/ recovery[e].todo # {}
             r == [NoRecovery EXCEPT !.pending = pending]
  <2>1. pending \in BOOLEAN
    BY <1>1 DEF RecoveryRecords
  <2>2. r \in RecoveryRecords /\ r.at = "idle"
    BY ZenonT(30), <2>1 DEF NoRecovery, RecoveryRecords, RecoverySteps
  <2>3. recovery' = [recovery EXCEPT ![e] = r]
    BY <1>4 DEF end_recovery
  <2> QED
    BY ZenonT(30), <2>2, <2>3 DEF RecoveryGoes
<1> QED
  BY <1>2, <1>3, <1>4

\* A step of a pass concerns this pass and its process, and no thread.
LEMMA RecoveryActionGoes ==
    ASSUME BaseInv, NEW e \in Epochs, RecoveryNext(e)
    PROVE  /\ thread' = thread
           /\ UNCHANGED recovery \/ RecoveryGoes(e)
           /\ UNCHANGED proc \/ ProcessGoes(e)
<1>1. CASE recover_abandoned(e)
  BY <1>1 DEF recover_abandoned, ProcessGoes, ProcessStates
<1>2. CASE begin_recovery(e) \/ next_claim(e)
  BY <1>2, PassGoes DEF begin_recovery, next_claim
<1>3. CASE end_recovery(e)
  <2>1. thread' = thread /\ ProcessGoes(e)
    BY <1>3 DEF end_recovery, ProcessGoes, ProcessStates
  <2> QED
    BY <1>3, <2>1, PassGoes
<1>4. CASE read_publication(e) \/ close_with_fence(e)
  <2>1. UNCHANGED <<proc, thread>>
    BY <1>4 DEF read_publication, close_with_fence
  <2>2. /\ \E step \in {"unproved", "close", "fenced"} : Proceed(e, step)
        /\ recovery[e].at \notin {"idle", "next"}
    BY <1>4 DEF read_publication, close_with_fence, In
  <2> QED
    BY <2>1, <2>2, ProceedGoes DEF RecoverySteps
<1>5. CASE close_gate(e) \/ close_rows(e)
  <2>1. UNCHANGED <<proc, thread>>
    BY <1>5 DEF close_gate, close_rows
  <2>2. /\ \E step \in {"unproved", "filed", "proved"} : Proceed(e, step)
        /\ recovery[e].at \notin {"idle", "next"}
    BY <1>5 DEF close_gate, close_rows, In
  <2> QED
    BY <2>1, <2>2, ProceedGoes DEF RecoverySteps
<1>6. CASE reconcile_uncertain(e)
  <2>1. thread' = thread /\ recovery[e].at \notin {"idle", "next"}
    BY <1>6 DEF reconcile_uncertain, In
  <2>2. \/ /\ \E step \in {"retire", "next"} : Proceed(e, step)
           /\ UNCHANGED proc
        \/ /\ recovery' = [recovery EXCEPT ![e] =
                 [recovery[e] EXCEPT !.at = "next", !.pending = TRUE]]
           /\ UNCHANGED proc
        \/ RecoveryRaises(e)
    BY <1>6 DEF reconcile_uncertain
  <2>3. CASE \E step \in {"retire", "next"} : Proceed(e, step) /\ UNCHANGED proc
    BY <2>1, <2>3, ProceedGoes DEF RecoverySteps
  <2>4. CASE /\ recovery' = [recovery EXCEPT ![e] =
                   [recovery[e] EXCEPT !.at = "next", !.pending = TRUE]]
             /\ UNCHANGED proc
    <3>1. recovery[e] \in RecoveryRecords
      BY DEF BaseInv, CoordinatorTypeOK, RecoveryRecords
    <3> DEFINE r == [recovery[e] EXCEPT !.at = "next", !.pending = TRUE]
    <3>2. r \in RecoveryRecords /\ r.at = "next"
      BY Zenon, <3>1 DEF RecoveryRecords, RecoverySteps
    <3> QED
      BY Zenon, <2>1, <2>4, <3>2 DEF RecoveryGoes
  <2>5. CASE RecoveryRaises(e)
    <3>1. RecoveryGoes(e)
      BY ZenonT(30), <2>5, EmptyPass DEF RecoveryRaises, RecoveryGoes
    <3>2. UNCHANGED proc \/ ProcessGoes(e)
      BY <2>5 DEF RecoveryRaises, ProcessGoes, ProcessStates
    <3> QED
      BY <2>1, <3>1, <3>2
  <2> QED
    BY <2>2, <2>3, <2>4, <2>5
<1>7. CASE retire_recovered(e)
  <2>1. /\ UNCHANGED <<proc, thread>> /\ Proceed(e, "next")
        /\ recovery[e].at \notin {"idle", "next"}
    BY <1>7 DEF retire_recovered, In
  <2> QED
    BY <2>1, ProceedGoes DEF RecoverySteps
<1> QED
  BY <1>1, <1>2, <1>3, <1>4, <1>5, <1>6, <1>7 DEF RecoveryNext

-----------------------------------------------------------------------------
(* Processes, clients, workers *)

\* What neither a thread nor a pass nor the claim loop does.
ProcessStep ==
    \/ startup \/ expiry
    \/ \E e \in Epochs : shutdown(e) \/ crash(e)
    \/ \E j \in Jobs : client_submit(j) \/ request_cancel(j)

\* Processes that come and go and clients decide nothing about an attempt.
LEMMA ProcessEffect ==
    ASSUME StoreInv, RowsInv, ProcessStep
    PROVE  StoreMove /\ StoreQuiet /\ UNCHANGED fileVars /\ markers' = markers
<1>1. CASE startup \/ expiry
  <2>1. UNCHANGED <<jobs, attempts, markers, xact>> /\ UNCHANGED fileVars
    BY <1>1 DEF startup, expiry, acquire_singleton, singleton_expires,
       lease_expires
  <2>2. [Next]_storeVars
    BY <1>1 DEF startup, expiry, Next, OwnerNext
  <2> QED
    BY <2>1, <2>2, RowsUntouched, QuietKeeps DEF StoreMove
<1>2. CASE \E e \in Epochs : shutdown(e) \/ crash(e)
  <2>1. PICK e \in Epochs : shutdown(e) \/ crash(e)
    BY <1>2
  <2>2. UNCHANGED fileVars /\ (stop_singleton(e) \/ UNCHANGED storeVars)
    BY <2>1 DEF shutdown, crash
  <2> QED
    BY <2>2, StopMoves
<1>3. ASSUME NEW j \in Jobs, client_submit(j)
      PROVE  StoreMove /\ StoreQuiet /\ UNCHANGED fileVars /\ markers' = markers
  <2>1. submit(j) /\ UNCHANGED fileVars
    BY <1>3 DEF client_submit
  <2>2. [Next]_storeVars
    BY <2>1 DEF Next, ClientNext
  <2>3. markers' = markers
    BY <2>1 DEF submit
  <2> QED
    BY <2>1, <2>2, <2>3, SubmitQuiet, QuietKeeps DEF StoreMove
<1>4. ASSUME NEW j \in Jobs, request_cancel(j)
      PROVE  StoreMove /\ StoreQuiet /\ UNCHANGED fileVars /\ markers' = markers
  <2>1. request_cancellation(j) /\ UNCHANGED fileVars
    BY <1>4 DEF request_cancel
  <2>2. [Next]_storeVars
    BY <2>1 DEF Next, ClientNext
  <2>3. markers' = markers
    BY <2>1 DEF request_cancellation
  <2> QED
    BY <2>1, <2>2, <2>3, CancellationQuiet, QuietKeeps DEF StoreMove
<1> QED
  BY <1>1, <1>2, <1>3, <1>4 DEF ProcessStep

\* A claim starts the thread of the attempt it issues.
LEMMA ClaimEffect ==
    ASSUME StoreInv, RowsInv, ClaimsAreCounted, NEW e \in Epochs, run_once(e)
    PROVE  \E c \in Claims :
              /\ StoreMove /\ StoreIssues(c) /\ EpochOf(c)' # 0
              /\ UNCHANGED fileVars /\ UNCHANGED <<proc, recovery>>
              /\ markers' = markers
              /\ thread' = [thread EXCEPT ![c] = [NoThread EXCEPT !.at = "start"]]
<1>1. PICK j \in Jobs :
         /\ claim_once(e, j)
         /\ thread' = [thread EXCEPT ![<<j, jobs[j].attempt + 1>>] =
                          [NoThread EXCEPT !.at = "start"]]
  BY Zenon DEF run_once
<1>2. PICK c \in Claims :
         /\ c = <<j, jobs[j].attempt + 1>>
         /\ StoreIssues(c) /\ RowsInv' /\ EpochOf(c)' = e
  BY <1>1, ClaimIssues
<1>3. EpochsStay
  BY <1>2 DEF StoreIssues, SameKeys, EpochsStay
<1>4. [Next]_storeVars
  BY <1>1 DEF Next
<1>5. e # 0
  BY LimitsAssumption DEF Epochs
<1>6. markers' = markers /\ UNCHANGED fileVars /\ UNCHANGED <<proc, recovery>>
  BY <1>1 DEF claim_once, run_once
<1> QED
  BY Zenon, <1>1, <1>2, <1>3, <1>4, <1>5, <1>6 DEF StoreMove

-----------------------------------------------------------------------------
(* The invariant of threads and passes *)

\* Threads that a step leaves alone keep their shape with their epochs.
LEMMA ThreadsKeepShape ==
    ASSUME BaseInv, EpochsStay, NEW c \in Claims, thread'[c] = thread[c]
    PROVE  ThreadShape(c)'
  BY DEF BaseInv, EpochsStay, ThreadShape, ShapeOf

\* Steps that leave the threads or the passes alone keep their shape.
LEMMA SameCore ==
    ASSUME BaseInv, EpochsStay
    PROVE  /\ thread' = thread => \A c \in Claims : ThreadShape(c)'
           /\ recovery' = recovery => \A e \in Epochs : RecoveryShape(e)'
<1>1. thread' = thread => \A c \in Claims : ThreadShape(c)'
  BY ThreadsKeepShape
<1>2. recovery' = recovery => \A e \in Epochs : RecoveryShape(e)'
  BY DEF BaseInv, RecoveryShape
<1> QED
  BY <1>1, <1>2

\* What a step is to keep.
CoreInvNext ==
    /\ StoreMove
    /\ CoordinatorTypeOK'
    /\ \A c \in Claims : ThreadShape(c)'
    /\ \A e \in Epochs : RecoveryShape(e)'

\* The steps of threads keep the places of threads and passes.
LEMMA ThreadCore ==
    ASSUME BaseInv, NEW c \in Claims, ThreadNext(c)
    PROVE  CoreInvNext
<1>1. TypeOK /\ CoordinatorTypeOK /\ ThreadShape(c)
  BY DEF BaseInv, StoreInv
<1>2. StoreMove /\ EpochsStay
  BY ThreadActionEffect DEF ThreadEffect, StoreMove
<1>3. ThreadGoes(c) /\ EpochOf(c) # 0
  BY <1>1, ThreadActionGoes DEF ThreadShape
<1>4. UNCHANGED <<proc, recovery>>
  BY Zenon DEF ThreadNext, start, begin, finish_prestart_cancel, uncertain_start,
     resolve, register_supervisor_launch, launch_worker, supervise, reap,
     raised, dispose_terminal, record_marker_if_available,
     mark_reconciliation_required, terminate, reread, reconcile_current,
     settle, settle_cancelled, release_terminal_lease, retire
<1>5. PICK r \in ThreadRecords :
         ShapeOf(r) /\ r.at # "none" /\ thread' = [thread EXCEPT ![c] = r]
  BY ZenonT(30), <1>3 DEF ThreadGoes
<1>6. CoordinatorTypeOK'
  BY <1>1, <1>4, <1>5 DEF CoordinatorTypeOK, ThreadRecords
<1>7. ASSUME NEW d \in Claims PROVE ThreadShape(d)'
  <2>1. CASE d = c
    <3>1. thread'[d] = r
      BY <1>1, <1>5, <2>1 DEF CoordinatorTypeOK
    <3>2. EpochOf(d)' # 0
      BY <1>2, <1>3, <2>1 DEF EpochsStay
    <3> QED
      BY <1>5, <3>1, <3>2 DEF ThreadShape, ShapeOf
  <2>2. CASE d # c
    <3>1. thread'[d] = thread[d]
      BY <1>1, <1>5, <2>2 DEF CoordinatorTypeOK
    <3> QED
      BY <1>2, <3>1, ThreadsKeepShape
  <2> QED
    BY <2>1, <2>2
<1> QED
  BY <1>2, <1>4, <1>6, <1>7, SameCore DEF CoreInvNext

\* So do those of the passes, ...
LEMMA RecoveryCore ==
    ASSUME BaseInv, NEW e \in Epochs, RecoveryNext(e)
    PROVE  CoreInvNext
<1>1. CoordinatorTypeOK /\ \A f \in Epochs : RecoveryShape(f)
  BY DEF BaseInv
<1>2. StoreMove /\ EpochsStay
  BY RecoveryActionEffect DEF RecoveryEffect, StoreMove
<1>3. /\ thread' = thread
      /\ UNCHANGED recovery \/ RecoveryGoes(e)
      /\ UNCHANGED proc \/ ProcessGoes(e)
  BY RecoveryActionGoes
<1>4. proc' \in [Epochs -> ProcessStates]
  BY <1>1, <1>3 DEF CoordinatorTypeOK, ProcessGoes
<1>5. /\ recovery' \in [Epochs -> RecoveryRecords]
      /\ \A f \in Epochs : RecoveryShape(f)'
  <2>1. recovery \in [Epochs -> RecoveryRecords]
    BY <1>1 DEF CoordinatorTypeOK, RecoveryRecords
  <2>2. CASE UNCHANGED recovery
    BY <1>2, <2>1, <2>2, SameCore
  <2>3. CASE RecoveryGoes(e)
    <3>1. PICK r \in RecoveryRecords :
             /\ r.at \notin {"idle", "next"} => r.claim \in Claims
             /\ recovery' = [recovery EXCEPT ![e] = r]
      BY ZenonT(30), <2>3 DEF RecoveryGoes
    <3>2. \A f \in Epochs : recovery'[f] = IF f = e THEN r ELSE recovery[f]
      BY <2>1, <3>1
    <3>3. recovery' \in [Epochs -> RecoveryRecords]
      BY <2>1, <3>1
    <3> QED
      BY <1>1, <3>1, <3>2, <3>3 DEF RecoveryShape, Claims
  <2> QED
    BY <1>3, <2>2, <2>3
<1>6. CoordinatorTypeOK'
  BY <1>1, <1>3, <1>4, <1>5 DEF CoordinatorTypeOK, RecoveryRecords
<1> QED
  BY <1>2, <1>3, <1>5, <1>6, SameCore DEF CoreInvNext

\* ... of the processes and the clients, ...
LEMMA ProcessCore ==
    ASSUME BaseInv, ProcessStep
    PROVE  CoreInvNext
<1>1. /\ CoordinatorTypeOK /\ TypeOK
      /\ \A c \in Claims : ThreadShape(c)
      /\ \A e \in Epochs : RecoveryShape(e)
  BY DEF BaseInv, StoreInv
<1>2. StoreMove /\ EpochsStay
  BY ProcessEffect DEF BaseInv, StoreMove
<1>3. CASE startup \/ (\E e \in Epochs : shutdown(e))
  <2>1. \E e : \E state \in {"starting", "dead"} :
           proc' = [proc EXCEPT ![e] = state] /\ UNCHANGED <<thread, recovery>>
    BY <1>3 DEF startup, shutdown
  <2>2. CoordinatorTypeOK'
    BY ZenonT(30), <1>1, <2>1 DEF CoordinatorTypeOK, ProcessStates
  <2> QED
    BY <1>2, <2>1, <2>2, SameCore DEF CoreInvNext
<1>4. CASE expiry \/ (\E j \in Jobs : client_submit(j) \/ request_cancel(j))
  <2>1. UNCHANGED coreVars
    BY <1>4 DEF expiry, client_submit, request_cancel
  <2>2. CoordinatorTypeOK'
    BY <1>1, <2>1 DEF CoordinatorTypeOK, coreVars
  <2> QED
    BY <1>2, <2>1, <2>2, SameCore DEF CoreInvNext, coreVars
<1>5. ASSUME NEW e \in Epochs, crash(e) PROVE CoreInvNext
  <2> DEFINE ended == [NoThread EXCEPT !.at = "done"]
  <2>1. /\ proc' = [proc EXCEPT ![e] = "dead"]
        /\ thread' = [c \in Claims |-> IF EpochOf(c) = e THEN ended ELSE thread[c]]
        /\ recovery' = [recovery EXCEPT ![e] = NoRecovery]
    BY <1>5 DEF crash
  <2>2. ended \in ThreadRecords /\ ShapeOf(ended)
    BY ZenonT(30) DEF NoThread, ThreadRecords, ThreadSteps, Terminals, ShapeOf
  <2>3. NoRecovery \in RecoveryRecords /\ NoRecovery.at = "idle"
    BY DEF NoRecovery, RecoveryRecords, RecoverySteps
  <2> HIDE DEF ended
  <2>4. CoordinatorTypeOK'
    BY <1>1, <2>1, <2>2, <2>3 DEF CoordinatorTypeOK, ThreadRecords,
       RecoveryRecords, ProcessStates
  <2>5. ASSUME NEW c \in Claims PROVE ThreadShape(c)'
    <3>1. CASE EpochOf(c) = e
      <4>1. e # 0
        BY LimitsAssumption DEF Epochs
      <4>2. thread'[c] = ended /\ EpochOf(c)' # 0
        BY <1>2, <2>1, <3>1, <4>1 DEF EpochsStay
      <4> QED
        BY <2>2, <4>2 DEF ThreadShape, ShapeOf
    <3>2. CASE EpochOf(c) # e
      BY <1>2, <2>1, <3>2, ThreadsKeepShape
    <3> QED
      BY <3>1, <3>2
  <2>6. ASSUME NEW f \in Epochs PROVE RecoveryShape(f)'
    BY <1>1, <2>1, <2>3 DEF RecoveryShape, CoordinatorTypeOK
  <2> QED
    BY <1>2, <2>4, <2>5, <2>6 DEF CoreInvNext
<1> QED
  BY <1>3, <1>4, <1>5 DEF ProcessStep

\* ... and the claim of a job.
LEMMA ClaimCore ==
    ASSUME BaseInv, ClaimsAreCounted, NEW e \in Epochs, run_once(e)
    PROVE  CoreInvNext
<1> DEFINE started == [NoThread EXCEPT !.at = "start"]
<1>1. PICK c \in Claims :
         /\ StoreMove /\ EpochOf(c)' # 0
         /\ UNCHANGED <<proc, recovery>>
         /\ thread' = [thread EXCEPT ![c] = started]
  BY ClaimEffect DEF BaseInv
<1>2. started \in ThreadRecords /\ ShapeOf(started)
  BY Zenon DEF NoThread, ThreadRecords, ThreadSteps, Terminals, ShapeOf
<1> HIDE DEF started
<1>3. CoordinatorTypeOK
  BY DEF BaseInv
<1>4. CoordinatorTypeOK'
  BY <1>1, <1>2, <1>3 DEF CoordinatorTypeOK, ThreadRecords
<1>5. ASSUME NEW d \in Claims PROVE ThreadShape(d)'
  <2>1. CASE d = c
    <3>1. thread'[d] = started
      BY <1>1, <1>3, <2>1 DEF CoordinatorTypeOK
    <3> QED
      BY <1>1, <1>2, <2>1, <3>1 DEF ThreadShape, ShapeOf
  <2>2. CASE d # c
    <3>1. thread'[d] = thread[d]
      BY <1>1, <1>3, <2>2 DEF CoordinatorTypeOK
    <3> QED
      BY <1>1, <3>1, ThreadsKeepShape DEF StoreMove
  <2> QED
    BY <2>1, <2>2
<1> QED
  BY <1>1, <1>4, <1>5, SameCore DEF CoreInvNext, StoreMove

\* Nothing of the coordinators changes.
LEMMA SameStore ==
    ASSUME BaseInv, UNCHANGED <<storeVars, coreVars>>
    PROVE  CoreInvNext /\ StoreQuiet /\ markers' = markers
<1>1. StoreMove /\ StoreQuiet /\ markers' = markers
  <2>1. UNCHANGED <<jobs, attempts, markers, xact>>
    BY DEF storeVars
  <2> QED
    BY <2>1, RowsUntouched, QuietKeeps DEF StoreMove, BaseInv
<1>2. CoordinatorTypeOK'
  BY DEF BaseInv, CoordinatorTypeOK, coreVars
<1> QED
  BY <1>1, <1>2, SameCore DEF CoreInvNext, StoreMove, coreVars

\* Every step of the coordinators is a transaction of the control store or
\* leaves it alone, and keeps the places of the threads and the passes.
LEMMA CoreStep ==
    ASSUME BaseInv, ClaimsAreCounted, [CoordinatorNext]_vars
    PROVE  CoreInvNext
<1>1. CASE UNCHANGED vars
  BY <1>1, SameStore DEF vars
<1>2. ASSUME \E c \in Claims : worker_step(c) \/ server_step(c)
      PROVE  CoreInvNext
  BY <1>2, SameStore DEF worker_step, server_step
<1> QED
  BY <1>1, <1>2, ThreadCore, RecoveryCore, ProcessCore, ClaimCore
     DEF CoordinatorNext, ProcessStep

\* There is no thread and no pass at first.
LEMMA CoreInit ==
    ASSUME CoordinatorInit
    PROVE  /\ CoordinatorTypeOK
           /\ \A c \in Claims : ThreadShape(c)
           /\ \A e \in Epochs : RecoveryShape(e)
<1>1. NoThread \in ThreadRecords /\ ShapeOf(NoThread) /\ NoThread.at = "none"
  BY DEF NoThread, ThreadRecords, ThreadSteps, Terminals, ShapeOf
<1>2. NoRecovery \in RecoveryRecords /\ NoRecovery.at = "idle"
  BY DEF NoRecovery, RecoveryRecords, RecoverySteps
<1>3. CoordinatorTypeOK
  BY <1>1, <1>2 DEF CoordinatorInit, CoordinatorTypeOK, ThreadRecords,
     RecoveryRecords, ProcessStates
<1> QED
  BY <1>1, <1>2, <1>3 DEF CoordinatorInit, ThreadShape, RecoveryShape
=============================================================================
