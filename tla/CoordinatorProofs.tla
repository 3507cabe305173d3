------------------------- MODULE CoordinatorProofs --------------------------
(***************************************************************************)
(* Theorems about the coordinators at work, for any number of jobs,        *)
(* attempts and coordinator processes and whatever fails: they implement   *)
(* the control store and, when workers do not misreport, the publication   *)
(* protocol; so a job is published at most once and reported truthfully.   *)
(***************************************************************************)
EXTENDS CoordinatorSteps, ControlStoreProofs, FiniteSetTheorems


-----------------------------------------------------------------------------
(* The tables that GraphPublication sees *)

\* What the table shows of an attempt.
LEMMA TableRow ==
    ASSUME NEW c \in Claims
    PROVE  /\ ClaimTable[c].epoch = EpochOf(c)
           /\ ClaimTable[c].lease = attempts[c[1]][c[2]].lease
           /\ OutcomeTable[c] = Outcome(c)
           /\ Publication!Issued(c) <=> EpochOf(c) # 0
  BY DEF ClaimTable, OutcomeTable, Publication!Issued

\* Nothing that GraphPublication knows of changes.
LEMMA QuietIsStutter ==
    ASSUME StoreQuiet, UNCHANGED fileVars
    PROVE  UNCHANGED Publication!pubVars
<1>1. ClaimTable' = ClaimTable
  BY DEF ClaimTable, StoreQuiet, Quiet, SameKeys
<1>2. OutcomeTable' = OutcomeTable
  BY DEF OutcomeTable, StoreQuiet, Quiet
<1> QED
  BY <1>1, <1>2 DEF Publication!pubVars, fileVars

\* The control store's verdict on an attempt is a disposition of
\* GraphPublication.
LEMMA VerdictInTables ==
    ASSUME NEW c \in Claims, NEW verdict, StoreDecides(c, verdict)
    PROVE  /\ ClaimTable' = ClaimTable
           /\ OutcomeTable' = [OutcomeTable EXCEPT ![c] = verdict]
           /\ OutcomeTable[c] = "open"
<1>1. \A d \in Claims : SameKeys(d)
  BY DEF StoreDecides, Quiet
<1>2. ClaimTable' = ClaimTable
  BY <1>1 DEF ClaimTable, SameKeys
<1>3. \A d \in Claims : Outcome(d)' = IF d = c THEN verdict ELSE Outcome(d)
  BY DEF StoreDecides, Quiet
<1>4. OutcomeTable' = [OutcomeTable EXCEPT ![c] = verdict]
  BY Zenon, <1>3 DEF OutcomeTable
<1> QED
  BY <1>2, <1>4 DEF OutcomeTable, StoreDecides

\* A verdict with the proof is dispose_unpublished.
LEMMA UnpublishedIsDisposed ==
    ASSUME NEW c \in Claims, StoreDecides(c, "unpublished"),
           EpochOf(c) # 0, Publication!UnpublishedProved(c), UNCHANGED fileVars
    PROVE  Publication!PubNext
<1>1. Publication!dispose_unpublished(c)
  BY VerdictInTables, TableRow DEF Publication!dispose_unpublished, fileVars
<1> QED
  BY <1>1 DEF Publication!PubNext, Publication!CoordinatorNext

\* A verdict with the receipt is dispose_published.
LEMMA PublishedIsDisposed ==
    ASSUME NEW c \in Claims, StoreDecides(c, "published"),
           run[c] = "complete", UNCHANGED fileVars
    PROVE  Publication!PubNext
<1>1. Publication!dispose_published(c)
  BY VerdictInTables DEF Publication!dispose_published, fileVars
<1> QED
  BY <1>1 DEF Publication!PubNext, Publication!CoordinatorNext

\* A claim is issued with the epoch of its coordinator and a later number than
\* those before it.
LEMMA ClaimIsIssued ==
    ASSUME NEW c \in Claims, StoreIssues(c), UNCHANGED fileVars
    PROVE  Publication!PubNext
<1> DEFINE e == EpochOf(c)'
           l == attempts'[c[1]][c[2]].lease
           key == [epoch |-> e, lease |-> l]
<1>1. e \in Epochs /\ l \in LeaseNumbers /\ EpochOf(c) = 0
  BY DEF StoreIssues
<1>2. \A d \in Claims : ClaimTable[d].lease < l
  BY TableRow DEF StoreIssues
<1>3. ClaimTable' = [ClaimTable EXCEPT ![c] = key]
  <2>1. \A d \in Claims \ {c} : SameKeys(d)
    BY DEF StoreIssues
  <2> QED
    BY Zenon, <2>1 DEF ClaimTable, SameKeys
<1>4. OutcomeTable' = OutcomeTable
  BY DEF StoreIssues, OutcomeTable
<1>5. ~Publication!Issued(c)
  BY <1>1, TableRow
<1> HIDE DEF e, l
<1>6. Publication!issue_claim(c)
  BY Zenon, <1>1, <1>2, <1>3, <1>4, <1>5 DEF Publication!issue_claim, fileVars
<1> QED
  BY <1>6 DEF Publication!PubNext, Publication!CoordinatorNext

-----------------------------------------------------------------------------
(* What threads and passes know of the files and the worker *)

\* The worker is over and published nothing.
Over(c) ==
    Outcome(c) = "open" =>
        /\ worker[c] \in Publication!Ended
        /\ decision[c] = "not_started" \/ worker[c] \in {"never", "said_not_started"}

\* The worker is over and the gate was closed before it.
GateShut(c) ==
    Outcome(c) = "open" =>
        worker[c] \in Publication!Ended /\ decision[c] = "not_started"

\* A thread at r has the evidence that its branch of the disposition rests on.
EvidenceAt(c, r) ==
    /\ r.at \in {"prestart", "prestart_cancel"} => worker[c] = "never"
    /\ r.at = "reap" => worker[c] \in Publication!Ended
    /\ r.at \in {"dispose", "settle", "cancelling", "cancel"}
          /\ r.saw \in {"failed", "cancelled"} => Over(c)
    /\ r.at \in {"dispose", "mark"} /\ r.saw = "cancelled" => GateShut(c)
    /\ r.at \in {"dispose", "record"} /\ r.saw \in Successes =>
          run[c] = "complete"

ThreadEvidence(c) == EvidenceAt(c, thread[c])

\* A later owner has the authority row.
Overtaken(c) ==
    \/ EpochOf(c) < authority.epoch
    \/ /\ EpochOf(c) = authority.epoch
       /\ attempts[c[1]][c[2]].lease < authority.lease

\* A pass closes the rows of an attempt that its fence has shut out and whose
\* gate is closed.
RecoveryEvidence(e) ==
    LET c == recovery[e].claim IN
    /\ recovery[e].at \in {"fenced", "filed"} => EpochOf(c) # 0 /\ Overtaken(c)
    /\ recovery[e].at = "filed" /\ Outcome(c) = "open" =>
          decision[c] = "not_started"

\* A marker is recorded with a receipt only.
MarkersAreReceipts ==
    \A c \in Claims : markers[c[1]][c[2]] = "committed" => run[c] = "complete"

\* What GraphPublication has to say about an attempt: the receipt is behind the
\* worker's report, was claimed and is not taken for unpublished.
FilesAgree(c) ==
    /\ worker[c] \in {"committed", "said_committed"} => run[c] = "complete"
    /\ run[c] = "complete" => EpochOf(c) # 0 /\ Outcome(c) # "unpublished"

FilesInOrder ==
    /\ worker \in [Claims -> Publication!WorkerStates]
    /\ \A c \in Claims : FilesAgree(c)

\* What the coordinators rely on.
EvidenceInv ==
    /\ BaseInv
    /\ FilesInOrder
    /\ \A c \in Claims : ThreadEvidence(c)
    /\ \A e \in Epochs : RecoveryEvidence(e)
    /\ MarkersAreReceipts

\* To be overtaken is to be stale for GraphPublication.
LEMMA TableStale ==
    ASSUME NEW c \in Claims
    PROVE  Publication!Stale(c) <=> Overtaken(c)
  BY TableRow DEF Publication!Stale, Publication!Less, Overtaken

\* What is known of an attempt stays true while others take their steps.
Lasts(c) ==
    /\ worker[c] \in Publication!Ended => worker'[c] = worker[c]
    /\ run[c] = "complete" => run'[c] = "complete"
    /\ Outcome(c)' = "open" => Outcome(c) = "open"
    /\ Outcome(c)' = "open" /\ decision[c] = "not_started" =>
          decision'[c] = "not_started"
    /\ EpochOf(c) # 0 /\ Overtaken(c) => Overtaken(c)'

\* Evidence that lasts lasts.
LEMMA SameRecord ==
    ASSUME NEW c \in Claims, NEW r \in ThreadRecords, EvidenceAt(c, r), Lasts(c)
    PROVE  EvidenceAt(c, r)'
<1>1. Over(c) => Over(c)'
  BY DEF Over, Lasts
<1>2. GateShut(c) => GateShut(c)'
  BY DEF GateShut, Lasts
<1>3. worker[c] = "never" => worker'[c] = "never"
  BY DEF Lasts, Publication!Ended
<1>4. worker[c] \in Publication!Ended => worker'[c] \in Publication!Ended
  BY DEF Lasts
<1>5. run[c] = "complete" => run'[c] = "complete"
  BY DEF Lasts
<1> QED
  BY <1>1, <1>2, <1>3, <1>4, <1>5 DEF EvidenceAt

\* Where a thread goes and what it has seen.
LEMMA ThreadAfter ==
    ASSUME CoordinatorTypeOK, NEW c \in Claims
    PROVE  /\ \A step : Goto(c, step) =>
                 thread'[c].at = step /\ thread'[c].saw = thread[c].saw
           /\ \A step, saw : GotoSeeing(c, step, saw) =>
                 thread'[c].at = step /\ thread'[c].saw = saw
<1>1. thread \in [Claims -> ThreadRecords]
  BY DEF CoordinatorTypeOK, ThreadRecords
<1>2. ASSUME NEW step, Goto(c, step)
      PROVE  thread'[c].at = step /\ thread'[c].saw = thread[c].saw
  <2>1. thread'[c] = [thread[c] EXCEPT !.at = step]
    BY <1>1, <1>2 DEF Goto
  <2> QED
    BY <1>1, <2>1 DEF ThreadRecords
<1>3. ASSUME NEW step, NEW saw, GotoSeeing(c, step, saw)
      PROVE  thread'[c].at = step /\ thread'[c].saw = saw
  <2>1. thread'[c] = [thread[c] EXCEPT !.at = step, !.saw = saw]
    BY <1>1, <1>3 DEF GotoSeeing
  <2> QED
    BY <1>1, <2>1 DEF ThreadRecords
<1> QED
  BY <1>2, <1>3

\* The steps of a thread that need no evidence.
FreeSteps == ThreadSteps \ {"prestart", "prestart_cancel", "reap", "dispose",
                            "settle", "cancelling", "cancel", "mark", "record"}

\* A thread that goes to such a step knows enough.
LEMMA FreeEvidence ==
    ASSUME CoordinatorTypeOK, NEW c \in Claims,
           \E step \in FreeSteps : Goto(c, step)
    PROVE  ThreadEvidence(c)'
<1>1. thread'[c].at \in FreeSteps
  BY ThreadAfter
<1> QED
  BY <1>1 DEF ThreadEvidence, EvidenceAt, FreeSteps

\* A worker that is never launched publishes nothing.
LEMMA NeverEvidence ==
    ASSUME EvidenceInv, NEW c \in Claims, Publication!never_launched(c)
    PROVE  worker'[c] = "never" /\ Over(c)'
<1>1. worker' = [worker EXCEPT ![c] = "never"]
  BY DEF Publication!never_launched
<1>2. worker'[c] = "never"
  BY <1>1 DEF EvidenceInv, FilesInOrder
<1> QED
  BY <1>2 DEF Over, Publication!Ended

\* What the runner hands to the disposition is backed by the message and the
\* gate file.
LEMMA ReapEvidence ==
    ASSUME EvidenceInv, NEW c \in Claims, reap(c), Lasts(c)
    PROVE  ThreadEvidence(c)'
<1>1. CoordinatorTypeOK /\ ThreadEvidence(c) /\ FilesAgree(c)
  BY DEF EvidenceInv, FilesInOrder, BaseInv
<1>2. CASE Goto(c, "raised")
  BY <1>1, <1>2, FreeEvidence DEF FreeSteps, ThreadSteps
<1>3. ASSUME NEW abnormal \in BOOLEAN, worker[c] = "killed" => abnormal,
             GotoSeeing(c, "dispose", TerminalOf(c, decision'[c], abnormal))
      PROVE  ThreadEvidence(c)'
  <2> DEFINE saw == TerminalOf(c, decision'[c], abnormal)
  <2>1. worker[c] \in Publication!Ended /\ worker'[c] = worker[c]
    BY <1>1 DEF reap, At, ThreadEvidence, EvidenceAt, Lasts
  <2>2. saw = "cancelled" => decision'[c] = "not_started"
    BY DEF TerminalOf
  <2>3. saw = "failed" =>
           \/ decision'[c] = "not_started"
           \/ worker[c] \in {"never", "said_not_started"}
    BY <1>3, <2>1 DEF TerminalOf, Publication!Ended
  <2>4. saw # "succeeded_unproved" /\ (saw = "succeeded" => worker[c] = "said_committed")
    BY DEF TerminalOf
  <2>5. thread'[c].at = "dispose" /\ thread'[c].saw = saw
    BY <1>1, <1>3, ThreadAfter
  <2> HIDE DEF saw
  <2>6. saw \in Successes => run'[c] = "complete"
    BY <1>1, <2>4 DEF FilesAgree, Lasts, Successes
  <2>7. saw \in {"failed", "cancelled"} => Over(c)'
    BY <2>1, <2>2, <2>3 DEF Over
  <2>8. saw = "cancelled" => GateShut(c)'
    BY <2>1, <2>2 DEF GateShut
  <2> QED
    BY <2>5, <2>6, <2>7, <2>8 DEF ThreadEvidence, EvidenceAt
<1> QED
  BY <1>2, <1>3 DEF reap

\* The branch of the disposition inherits the evidence.
LEMMA DisposeEvidence ==
    ASSUME EvidenceInv, NEW c \in Claims, dispose_terminal(c), Lasts(c)
    PROVE  ThreadEvidence(c)'
<1> DEFINE saw == thread[c].saw
<1>1. /\ CoordinatorTypeOK /\ ThreadEvidence(c) /\ saw \in Reports
      /\ thread[c].at = "dispose"
  BY DEF EvidenceInv, BaseInv, ThreadShape, ShapeOf, dispose_terminal, At
<1>2. thread'[c].saw = saw
  BY <1>1 DEF dispose_terminal, CoordinatorTypeOK
<1>3. thread'[c].at \in {"record", "mark", "settle", "cancelling"}
  BY <1>1 DEF dispose_terminal, CoordinatorTypeOK
<1>4. /\ saw \in {"failed", "cancelled"} => Over(c)
      /\ saw = "cancelled" => GateShut(c)
      /\ saw \in Successes => run[c] = "complete"
  BY <1>1 DEF ThreadEvidence, EvidenceAt
<1> HIDE DEF saw
<1>5. /\ saw \in {"failed", "cancelled"} => Over(c)'
      /\ saw = "cancelled" => GateShut(c)'
      /\ saw \in Successes => run'[c] = "complete"
  BY <1>4 DEF Over, GateShut, Lasts
<1> QED
  BY <1>2, <1>3, <1>5 DEF ThreadEvidence, EvidenceAt

\* Every step of a thread finds the evidence that its next step needs.
LEMMA ThreadEvidenceStep ==
    ASSUME EvidenceInv, NEW c \in Claims, ThreadNext(c), Lasts(c)
    PROVE  ThreadEvidence(c)'
<1>1. /\ CoordinatorTypeOK /\ ThreadEvidence(c) /\ ShapeOf(thread[c])
      /\ FilesAgree(c)
  BY DEF EvidenceInv, FilesInOrder, BaseInv, ThreadShape
<1>2. ASSUME NEW saw \in {"claimed", "starting"},
             GotoSeeing(c, "prestart", saw), Publication!never_launched(c)
      PROVE  ThreadEvidence(c)'
  BY <1>1, <1>2, ThreadAfter, NeverEvidence DEF ThreadEvidence, EvidenceAt
<1>3. ASSUME GotoSeeing(c, "dispose", "failed"), Publication!never_launched(c)
      PROVE  ThreadEvidence(c)'
  BY <1>1, <1>3, ThreadAfter, NeverEvidence
     DEF ThreadEvidence, EvidenceAt, Successes
<1>4. CASE start(c) \/ begin(c)
  BY <1>1, <1>2, <1>4, FreeEvidence DEF start, begin, FreeSteps, ThreadSteps
<1>5. CASE resolve(c) \/ launch_worker(c)
  BY <1>1, <1>3, <1>5, FreeEvidence
     DEF resolve, launch_worker, FreeSteps, ThreadSteps
<1>6. CASE finish_prestart_cancel(c)
  <2>1. \/ \E step \in FreeSteps : Goto(c, step)
        \/ At(c, "prestart") /\ Goto(c, "prestart_cancel")
    BY <1>6 DEF finish_prestart_cancel, Transition, OwnershipLost, FreeSteps,
       ThreadSteps, Disposing
  <2>2. ASSUME At(c, "prestart"), Goto(c, "prestart_cancel")
        PROVE  ThreadEvidence(c)'
    <3>1. worker'[c] = "never"
      BY <1>1, <2>2 DEF At, ThreadEvidence, EvidenceAt, Lasts, Publication!Ended
    <3> QED
      BY <1>1, <2>2, <3>1, ThreadAfter DEF ThreadEvidence, EvidenceAt
  <2> QED
    BY <1>1, <2>1, <2>2, FreeEvidence
<1>7. CASE supervise(c)
  <2>1. CASE worker[c] \in Publication!Ended /\ Goto(c, "reap")
    <3>1. worker'[c] \in Publication!Ended
      BY <2>1 DEF Lasts
    <3> QED
      BY <1>1, <2>1, <3>1, ThreadAfter DEF ThreadEvidence, EvidenceAt
  <2>2. CASE GotoSeeing(c, "dispose", IF worker[c] = "said_committed"
                                      THEN "succeeded_unproved" ELSE "unproved")
    <3>1. worker[c] = "said_committed" => run'[c] = "complete"
      BY <1>1 DEF FilesAgree, Lasts
    <3>2. /\ thread'[c].at = "dispose"
          /\ \/ thread'[c].saw = "unproved"
             \/ /\ worker[c] = "said_committed"
                /\ thread'[c].saw = "succeeded_unproved"
      BY <1>1, <2>2, ThreadAfter
    <3> QED
      BY <3>1, <3>2 DEF ThreadEvidence, EvidenceAt, Successes
  <2> QED
    BY <1>7, <2>1, <2>2 DEF supervise
<1>8. CASE record_marker_if_available(c)
  <2>1. thread[c].at = "record" /\ Goto(c, "mark")
    BY <1>8 DEF record_marker_if_available, At
  <2>2. thread[c].saw # "cancelled"
    BY <1>1, <2>1 DEF ShapeOf, Successes
  <2>3. thread'[c].at = "mark" /\ thread'[c].saw # "cancelled"
    BY <1>1, <2>1, <2>2, ThreadAfter
  <2> QED
    BY <2>3 DEF ThreadEvidence, EvidenceAt
<1>9. CASE settle_cancelled(c)
  <2>1. \/ \E step \in FreeSteps : Goto(c, step)
        \/ At(c, "cancelling") /\ Goto(c, "cancel")
    BY <1>9 DEF settle_cancelled, Transition, FreeSteps, ThreadSteps, Disposing
  <2>2. ASSUME At(c, "cancelling"), Goto(c, "cancel")
        PROVE  ThreadEvidence(c)'
    <3>1. Over(c)
      BY <1>1, <2>2 DEF At, ThreadEvidence, EvidenceAt, ShapeOf
    <3>2. Over(c)'
      BY <3>1 DEF Over, Lasts
    <3>3. thread'[c].at = "cancel"
      BY <1>1, <2>2, ThreadAfter
    <3> QED
      BY <3>2, <3>3 DEF ThreadEvidence, EvidenceAt
  <2> QED
    BY <1>1, <2>1, <2>2, FreeEvidence
<1>10. ASSUME \/ uncertain_start(c) \/ register_supervisor_launch(c) \/ raised(c)
              \/ mark_reconciliation_required(c) \/ terminate(c) \/ reread(c)
              \/ reconcile_current(c) \/ settle(c) \/ release_terminal_lease(c)
              \/ retire(c)
       PROVE  ThreadEvidence(c)'
  <2>1. \E step \in FreeSteps : Goto(c, step)
    <3> USE DEF FreeSteps, ThreadSteps, Disposing
    <3>1. CASE uncertain_start(c) \/ raised(c) \/ settle(c)
      BY <3>1 DEF uncertain_start, raised, settle, Transition
    <3>2. CASE register_supervisor_launch(c) \/ terminate(c) \/ reread(c)
      BY <3>2 DEF register_supervisor_launch, terminate, reread
    <3>3. CASE mark_reconciliation_required(c)
      BY <3>3 DEF mark_reconciliation_required, Transition
    <3>4. CASE reconcile_current(c) \/ release_terminal_lease(c) \/ retire(c)
      BY ZenonT(30), <3>4 DEF reconcile_current, release_terminal_lease, retire
    <3> QED
      BY <1>10, <3>1, <3>2, <3>3, <3>4
  <2> QED
    BY <1>1, <2>1, FreeEvidence
<1> QED
  BY <1>4, <1>5, <1>6, <1>7, <1>8, <1>9, <1>10, ReapEvidence, DisposeEvidence
     DEF ThreadNext

\* A pass that a step leaves alone keeps its evidence.
LEMMA SamePass ==
    ASSUME EvidenceInv, NEW e \in Epochs, recovery'[e] = recovery[e],
           EpochsStay, \A c \in Claims : Lasts(c)
    PROVE  RecoveryEvidence(e)'
<1>1. RecoveryEvidence(e) /\ RecoveryShape(e)
  BY DEF EvidenceInv, BaseInv
<1>2. CASE recovery[e].at \in {"fenced", "filed"}
  <2>1. PICK c \in Claims : c = recovery[e].claim
    BY <1>1, <1>2 DEF RecoveryShape
  <2>2. EpochOf(c) # 0 /\ Overtaken(c)
    BY <1>1, <1>2, <2>1 DEF RecoveryEvidence
  <2>3. EpochOf(c)' # 0 /\ Overtaken(c)'
    BY <2>2 DEF EpochsStay, Lasts
  <2>4. recovery[e].at = "filed" /\ Outcome(c)' = "open" =>
           decision'[c] = "not_started"
    BY <1>1, <2>1 DEF RecoveryEvidence, Lasts
  <2>5. recovery'[e].claim = c /\ recovery'[e].at = recovery[e].at
    BY <2>1
  <2> QED
    BY <2>3, <2>4, <2>5 DEF RecoveryEvidence
<1>3. CASE recovery[e].at \notin {"fenced", "filed"}
  BY <1>3 DEF RecoveryEvidence
<1> QED
  BY <1>2, <1>3

\* A closure goes on only from an installed fence and a closed gate.
LEMMA ClosureEvidence ==
    ASSUME EvidenceInv, NEW e \in Epochs, close_with_fence(e) \/ close_gate(e),
           EpochsStay, \A c \in Claims : Lasts(c)
    PROVE  RecoveryEvidence(e)'
<1>1. /\ CoordinatorTypeOK /\ TypeOK /\ RecoveryEvidence(e) /\ RecoveryShape(e)
      /\ RowsInv
  BY DEF EvidenceInv, BaseInv, StoreInv
<1>2. PICK c \in Claims : c = recovery[e].claim
  BY <1>1 DEF RecoveryShape, close_with_fence, close_gate, In
<1>3. ASSUME NEW step, Proceed(e, step)
      PROVE  recovery'[e].at = step /\ recovery'[e].claim = c
  BY <1>1, <1>2, <1>3 DEF Proceed, CoordinatorTypeOK
<1>4. CASE Proceed(e, "unproved")
  BY <1>3, <1>4 DEF RecoveryEvidence
<1>5. ASSUME Publication!install_graph_publication_fence(c, e),
             Proceed(e, "fenced"), UNCHANGED storeVars
      PROVE  RecoveryEvidence(e)'
  <2>1. /\ ClaimTable[c].epoch # 0 /\ e > ClaimTable[c].epoch
        /\ authority'.epoch = e
    BY <1>5 DEF Publication!install_graph_publication_fence,
       Publication!Issued, Publication!AuthorityOf
  <2>2. EpochOf(c)' = EpochOf(c)
    BY <1>5 DEF storeVars, EpochOf
  <2>3. EpochOf(c) # 0 /\ EpochOf(c) < e /\ EpochOf(c) \in Nat
    <3>1. EpochOf(c) # 0 /\ e > EpochOf(c)
      BY <2>1, TableRow
    <3>2. EpochOf(c) \in Nat /\ e \in Nat
      BY <1>1, ClaimParts, LimitsAssumption
         DEF EpochOf, TypeOK, AttemptRows, Epochs
    <3> QED
      BY <3>1, <3>2
  <2>4. EpochOf(c)' # 0 /\ Overtaken(c)'
    BY <2>1, <2>2, <2>3 DEF Overtaken
  <2> QED
    BY <1>3, <1>5, <2>4 DEF RecoveryEvidence
<1>6. ASSUME recovery[e].at = "fenced", Proceed(e, "filed"),
             decision'[c] = "not_started" \/ Outcome(c) # "open"
      PROVE  RecoveryEvidence(e)'
  <2>1. EpochOf(c)' # 0 /\ Overtaken(c)'
    BY <1>1, <1>2, <1>6 DEF RecoveryEvidence, EpochsStay, Lasts
  <2>2. Outcome(c)' = "open" => decision'[c] = "not_started"
    BY <1>6 DEF Lasts
  <2> QED
    BY <1>3, <1>6, <2>1, <2>2 DEF RecoveryEvidence
<1>7. CASE close_with_fence(e)
  BY <1>2, <1>4, <1>5, <1>7 DEF close_with_fence
<1>8. CASE close_gate(e)
  BY <1>2, <1>4, <1>6, <1>8 DEF close_gate, In
<1> QED
  BY <1>7, <1>8

\* Every other step of a pass leaves the closure.
LEMMA RecoveryEvidenceStep ==
    ASSUME EvidenceInv, NEW e \in Epochs, RecoveryNext(e),
           EpochsStay, \A c \in Claims : Lasts(c)
    PROVE  \A f \in Epochs : RecoveryEvidence(f)'
<1>1. CoordinatorTypeOK /\ BaseInv
  BY DEF EvidenceInv, BaseInv
<1>2. recovery' = recovery \/ RecoveryGoes(e)
  BY <1>1, RecoveryActionGoes
<1>3. ASSUME NEW f \in Epochs \ {e} PROVE RecoveryEvidence(f)'
  <2>1. recovery'[f] = recovery[f]
    BY <1>1, <1>2 DEF RecoveryGoes, CoordinatorTypeOK
  <2> QED
    BY <2>1, SamePass
<1>4. ASSUME recovery' = recovery \/ recovery'[e].at \notin {"fenced", "filed"}
      PROVE  RecoveryEvidence(e)'
  BY <1>4, SamePass DEF RecoveryEvidence
<1>5. ASSUME NEW step \in RecoverySteps \ {"fenced", "filed"}, Proceed(e, step)
      PROVE  RecoveryEvidence(e)'
  <2>1. recovery'[e].at = step
    BY <1>1, <1>5 DEF Proceed, CoordinatorTypeOK
  <2> QED
    BY <1>4, <2>1
<1>6. RecoveryEvidence(e)'
  <2>1. CASE recover_abandoned(e)
    BY <1>4, <2>1 DEF recover_abandoned
  <2>2. CASE begin_recovery(e) \/ end_recovery(e)
    <3>1. /\ \A todo : [NoRecovery EXCEPT !.at = "next", !.todo = todo].at = "next"
          /\ \A pending : [NoRecovery EXCEPT !.pending = pending].at = "idle"
      BY DEF NoRecovery
    <3>2. begin_recovery(e) => recovery'[e].at = "next"
      BY <1>1, <3>1 DEF begin_recovery, CoordinatorTypeOK
    <3>3. end_recovery(e) => recovery'[e].at = "idle"
      BY <1>1, <3>1 DEF end_recovery, CoordinatorTypeOK
    <3> QED
      BY <1>4, <2>2, <3>2, <3>3
  <2>3. CASE next_claim(e)
    <3>1. recovery'[e].at = "read"
      BY <1>1, <2>3 DEF next_claim, CoordinatorTypeOK
    <3> QED
      BY <1>4, <3>1
  <2>4. CASE read_publication(e) \/ close_rows(e) \/ retire_recovered(e)
    BY <1>5, <2>4
       DEF read_publication, close_rows, retire_recovered, RecoverySteps
  <2>5. CASE reconcile_uncertain(e)
    <3>1. CASE RecoveryRaises(e)
      <4>1. recovery'[e].at = "idle"
        BY <1>1, <3>1 DEF RecoveryRaises, NoRecovery, CoordinatorTypeOK
      <4> QED
        BY <1>4, <4>1
    <3>2. CASE recovery' = [recovery EXCEPT ![e] =
                               [@ EXCEPT !.at = "next", !.pending = TRUE]]
      <4>1. recovery'[e].at = "next"
        BY <1>1, <3>2 DEF CoordinatorTypeOK
      <4> QED
        BY <1>4, <4>1
    <3> QED
      BY <1>5, <2>5, <3>1, <3>2 DEF reconcile_uncertain, RecoverySteps
  <2> QED
    BY <2>1, <2>2, <2>3, <2>4, <2>5, ClosureEvidence DEF RecoveryNext
<1> QED
  BY <1>3, <1>6

-----------------------------------------------------------------------------
(* Every step is a step of GraphPublication *)

PublicationStep == [Publication!PubNext]_Publication!pubVars

\* Where an attempt is closed as unpublished, the proof is at hand.
LEMMA GivingIsProved ==
    ASSUME EvidenceInv, NEW c \in Claims, Giving(c), Outcome(c) = "open"
    PROVE  Publication!UnpublishedProved(c)
<1>1. ThreadEvidence(c) /\ ShapeOf(thread[c])
  BY DEF EvidenceInv, BaseInv, ThreadShape
<1>2. worker[c] = "never" \/ Over(c) \/ GateShut(c)
  BY <1>1 DEF Giving, ThreadEvidence, EvidenceAt, ShapeOf
<1> QED
  BY <1>2 DEF Over, GateShut, Publication!UnpublishedProved, Publication!Ended

\* The restart closure has the fence and the gate file for its proof.
LEMMA FiledIsProved ==
    ASSUME EvidenceInv, NEW e \in Epochs, NEW c \in Claims,
           c = recovery[e].claim, recovery[e].at = "filed", Outcome(c) = "open"
    PROVE  Publication!UnpublishedProved(c)
<1>1. Overtaken(c) /\ decision[c] = "not_started"
  BY DEF EvidenceInv, RecoveryEvidence
<1> QED
  BY <1>1, TableStale DEF Publication!UnpublishedProved

\* The verdicts of the store.
LEMMA OutcomeKinds ==
    ASSUME NEW c
    PROVE  Outcome(c) \in {"open", "unpublished", "published"}
  BY DEF Outcome

\* A transaction and the file operations with it.
LEMMA EffectPublishes ==
    ASSUME EvidenceInv, NEW c \in Claims, NEW given, EffectOn(c, given),
           given /\ Outcome(c) = "open" => Publication!UnpublishedProved(c)
    PROVE  PublicationStep
<1>1. CASE StoreQuiet /\ UNCHANGED fileVars
  BY <1>1, QuietIsStutter DEF PublicationStep
<1>2. CASE Publication!CoordinatorNext(c)
  BY <1>2 DEF PublicationStep, Publication!PubNext
<1>3. CASE /\ given /\ EpochOf(c) # 0
           /\ StoreDecides(c, "unpublished") /\ UNCHANGED fileVars
  BY <1>3, UnpublishedIsDisposed DEF StoreDecides, PublicationStep
<1>4. CASE /\ markers[c[1]][c[2]] = "committed" /\ Outcome(c) # "published"
           /\ Outcome(c) = "open" => StoreDecides(c, "published")
           /\ UNCHANGED fileVars
  <2>1. run[c] = "complete"
    BY <1>4 DEF EvidenceInv, MarkersAreReceipts
  <2>2. Outcome(c) # "unpublished"
    BY <2>1 DEF EvidenceInv, FilesInOrder, FilesAgree
  <2>3. Outcome(c) = "open"
    BY <1>4, <2>2, OutcomeKinds
  <2> QED
    BY <1>4, <2>1, <2>3, PublishedIsDisposed DEF PublicationStep
<1> QED
  BY <1>1, <1>2, <1>3, <1>4 DEF EffectOn

\* Workers and the server take the steps of GraphPublication.
LEMMA OutsidePublishes ==
    ASSUME NEW c \in Claims, worker_step(c) \/ server_step(c)
    PROVE  Publication!PubNext
  BY DEF worker_step, server_step, Publication!PubNext

\* So does everybody else, or GraphPublication sees nothing of it.
LEMMA StepPublishes ==
    ASSUME EvidenceInv, ClaimsAreCounted, [CoordinatorNext]_vars
    PROVE  PublicationStep
<1>1. BaseInv
  BY DEF EvidenceInv
<1>2. ASSUME NEW c \in Claims, ThreadNext(c) PROVE PublicationStep
  <2>1. EffectOn(c, Giving(c))
    BY <1>1, <1>2, ThreadActionEffect DEF ThreadEffect
  <2> QED
    BY <2>1, GivingIsProved, EffectPublishes
<1>3. ASSUME NEW e \in Epochs, RecoveryNext(e) PROVE PublicationStep
  <2>1. \/ StoreQuiet /\ UNCHANGED fileVars
        \/ \E c \in Claims : /\ c = recovery[e].claim
                             /\ EffectOn(c, recovery[e].at = "filed")
    BY <1>1, <1>3, RecoveryActionEffect DEF RecoveryEffect
  <2> QED
    BY Zenon, <2>1, QuietIsStutter, FiledIsProved, EffectPublishes DEF PublicationStep
<1>4. ASSUME ProcessStep PROVE PublicationStep
  BY <1>1, <1>4, ProcessEffect, QuietIsStutter DEF BaseInv, PublicationStep
<1>5. ASSUME NEW e \in Epochs, run_once(e) PROVE PublicationStep
  BY <1>1, <1>5, ClaimEffect, ClaimIsIssued DEF BaseInv, PublicationStep
<1>6. ASSUME UNCHANGED vars PROVE PublicationStep
  BY <1>1, <1>6, SameStore, QuietIsStutter DEF vars, PublicationStep
<1> QED
  BY <1>2, <1>3, <1>4, <1>5, <1>6, OutsidePublishes
     DEF CoordinatorNext, ProcessStep, PublicationStep

-----------------------------------------------------------------------------
(* The evidence is kept *)

-----------------------------------------------------------------------------
(* The evidence is kept *)

\* Markers are recorded with a receipt only: by the thread that was told of it
\* or by whoever read it (record_marker_if_available, reread,
\* read_publication).
LEMMA MarkersStep ==
    ASSUME EvidenceInv, ClaimsAreCounted, [CoordinatorNext]_vars,
           \A c \in Claims : Lasts(c)
    PROVE  MarkersAreReceipts'
<1>1. BaseInv
  BY DEF EvidenceInv
<1>2. ASSUME markers' = markers PROVE MarkersAreReceipts'
  BY <1>2 DEF EvidenceInv, MarkersAreReceipts, Lasts
<1>3. ASSUME NEW c \in Claims, NEW received, MarkersGrow(c, received),
             received => run[c] = "complete"
      PROVE  MarkersAreReceipts'
  BY <1>3 DEF EvidenceInv, MarkersAreReceipts, MarkersGrow, Lasts
<1>4. ASSUME NEW c \in Claims, ThreadNext(c) PROVE MarkersAreReceipts'
  <2>1. MarkersGrow(c, thread[c].at = "record" \/ run[c] = "complete")
    BY <1>1, <1>4, ThreadActionEffect DEF ThreadEffect
  <2>2. thread[c].at = "record" => run[c] = "complete"
    BY <1>1 DEF EvidenceInv, BaseInv, ThreadShape, ShapeOf, ThreadEvidence,
       EvidenceAt
  <2> QED
    BY ZenonT(30), <1>3, <2>1, <2>2
<1>5. ASSUME NEW e \in Epochs, RecoveryNext(e) PROVE MarkersAreReceipts'
  BY Zenon, <1>1, <1>2, <1>3, <1>5, RecoveryActionEffect DEF RecoveryEffect
<1>6. ASSUME \/ ProcessStep \/ UNCHANGED vars
             \/ \E e \in Epochs : run_once(e)
             \/ \E c \in Claims : worker_step(c) \/ server_step(c)
      PROVE  MarkersAreReceipts'
  <2>1. ProcessStep => markers' = markers
    BY <1>1, ProcessEffect DEF BaseInv
  <2>2. \A e \in Epochs : run_once(e) => markers' = markers
    BY <1>1, ClaimEffect DEF BaseInv
  <2>3. ASSUME NEW c \in Claims, worker_step(c) \/ server_step(c)
        PROVE  markers' = markers
    BY <2>3 DEF worker_step, server_step, storeVars
  <2>4. UNCHANGED vars => markers' = markers
    BY DEF vars, storeVars
  <2> QED
    BY <1>2, <1>6, <2>1, <2>2, <2>3, <2>4
<1> QED
  BY <1>4, <1>5, <1>6 DEF CoordinatorNext, ProcessStep

\* A thread that a step leaves alone keeps its evidence.
LEMMA SameThread ==
    ASSUME EvidenceInv, NEW c \in Claims, thread'[c] = thread[c], Lasts(c)
    PROVE  ThreadEvidence(c)'
<1>1. EvidenceAt(c, thread[c])
  BY DEF EvidenceInv, ThreadEvidence
<1>2. PICK r \in ThreadRecords : r = thread[c]
  BY DEF EvidenceInv, BaseInv, CoordinatorTypeOK, ThreadRecords
<1>3. EvidenceAt(c, r)'
  BY <1>1, <1>2, SameRecord
<1> QED
  BY <1>2, <1>3 DEF ThreadEvidence

\* Whoever takes a step, every thread keeps or finds its evidence.
LEMMA ThreadsStep ==
    ASSUME EvidenceInv, ClaimsAreCounted, [CoordinatorNext]_vars,
           \A c \in Claims : Lasts(c)
    PROVE  \A c \in Claims : ThreadEvidence(c)'
<1>1. BaseInv /\ CoordinatorTypeOK
  BY DEF EvidenceInv, BaseInv
<1>2. ASSUME thread' = thread PROVE \A c \in Claims : ThreadEvidence(c)'
  BY <1>2, SameThread
<1>3. ASSUME NEW c \in Claims, ThreadNext(c), NEW d \in Claims
      PROVE  ThreadEvidence(d)'
  <2>1. ThreadGoes(c)
    BY <1>1, <1>3, ThreadActionGoes DEF BaseInv, StoreInv, ThreadShape
  <2>2. d # c => thread'[d] = thread[d]
    BY <1>1, <2>1 DEF ThreadGoes, CoordinatorTypeOK
  <2> QED
    BY <1>3, <2>2, SameThread, ThreadEvidenceStep
<1>4. ASSUME NEW e \in Epochs, RecoveryNext(e) PROVE thread' = thread
  BY <1>1, <1>4, RecoveryActionGoes
<1>5. ASSUME NEW e \in Epochs, run_once(e), NEW d \in Claims
      PROVE  ThreadEvidence(d)'
  <2> DEFINE started == [NoThread EXCEPT !.at = "start"]
  <2>1. \E c \in Claims : thread' = [thread EXCEPT ![c] = started]
    BY <1>1, <1>5, ClaimEffect DEF BaseInv
  <2>2. thread'[d] = thread[d] \/ thread'[d] = started
    BY <1>1, <2>1 DEF CoordinatorTypeOK
  <2>3. started.at = "start"
    BY DEF NoThread
  <2> HIDE DEF started
  <2>4. thread'[d] = started => ThreadEvidence(d)'
    BY <2>3 DEF ThreadEvidence, EvidenceAt
  <2> QED
    BY <2>2, <2>4, SameThread
<1>6. ASSUME NEW e \in Epochs, crash(e), NEW d \in Claims
      PROVE  ThreadEvidence(d)'
  <2> DEFINE ended == [NoThread EXCEPT !.at = "done"]
  <2>1. thread'[d] = thread[d] \/ thread'[d] = ended
    BY <1>6 DEF crash
  <2>2. ended.at = "done"
    BY DEF NoThread
  <2> HIDE DEF ended
  <2>3. thread'[d] = ended => ThreadEvidence(d)'
    BY <2>2 DEF ThreadEvidence, EvidenceAt
  <2> QED
    BY <2>1, <2>3, SameThread
<1>7. ASSUME \/ startup \/ expiry \/ (\E e \in Epochs : shutdown(e))
             \/ \E j \in Jobs : client_submit(j) \/ request_cancel(j)
             \/ \E c \in Claims : worker_step(c) \/ server_step(c)
             \/ UNCHANGED vars
      PROVE  thread' = thread
  BY <1>7 DEF startup, expiry, shutdown, client_submit, request_cancel,
     worker_step, server_step, vars, coreVars
<1> QED
  BY <1>2, <1>3, <1>4, <1>5, <1>6, <1>7 DEF CoordinatorNext

\* So does every recovery pass.
LEMMA PassesStep ==
    ASSUME EvidenceInv, ClaimsAreCounted, [CoordinatorNext]_vars,
           \A c \in Claims : Lasts(c)
    PROVE  \A e \in Epochs : RecoveryEvidence(e)'
<1>1. BaseInv /\ CoordinatorTypeOK /\ EpochsStay
  BY CoreStep DEF EvidenceInv, BaseInv, CoreInvNext, StoreMove
<1>2. ASSUME recovery' = recovery PROVE \A e \in Epochs : RecoveryEvidence(e)'
  BY <1>1, <1>2, SamePass
<1>3. ASSUME NEW e \in Epochs, crash(e), NEW f \in Epochs
      PROVE  RecoveryEvidence(f)'
  <2>1. recovery'[f] = recovery[f] \/ recovery'[f] = NoRecovery
    BY <1>1, <1>3 DEF crash, CoordinatorTypeOK
  <2>2. recovery'[f] = NoRecovery => RecoveryEvidence(f)'
    BY DEF RecoveryEvidence, NoRecovery
  <2> QED
    BY <1>1, <2>1, <2>2, SamePass
<1>4. ASSUME \/ startup \/ expiry \/ (\E e \in Epochs : run_once(e) \/ shutdown(e))
             \/ \E j \in Jobs : client_submit(j) \/ request_cancel(j)
             \/ \E c \in Claims : worker_step(c) \/ server_step(c)
             \/ UNCHANGED vars
      PROVE  recovery' = recovery
  BY <1>4 DEF startup, expiry, run_once, shutdown, client_submit,
     request_cancel, worker_step, server_step, vars, coreVars
<1>5. ASSUME NEW c \in Claims, ThreadNext(c) PROVE recovery' = recovery
  BY ZenonT(30), <1>5 DEF ThreadNext, start, begin, finish_prestart_cancel,
     uncertain_start, resolve, register_supervisor_launch, launch_worker,
     supervise, reap, raised, dispose_terminal, record_marker_if_available,
     mark_reconciliation_required, terminate, reread, reconcile_current,
     settle, settle_cancelled, release_terminal_lease, retire
<1> QED
  BY <1>1, <1>2, <1>3, <1>4, <1>5, RecoveryEvidenceStep DEF CoordinatorNext

\* At first GraphPublication finds no claim and nothing decided.
LEMMA TablesInit == CoordinatorInit => Publication!PubInit
<1> SUFFICES ASSUME CoordinatorInit PROVE Publication!PubInit
  OBVIOUS
<1>1. \A c \in Claims : attempts[c[1]][c[2]] = NoAttempt
  BY ClaimParts DEF CoordinatorInit, Init
<1>2. \A c \in Claims : EpochOf(c) = 0 /\ attempts[c[1]][c[2]].lease = 0
  BY <1>1 DEF EpochOf, NoAttempt
<1>3. \A c \in Claims : Outcome(c) = "open"
  BY <1>2 DEF Outcome, EpochOf
<1>4. ClaimTable = [c \in Claims |-> [epoch |-> 0, lease |-> 0]]
  BY <1>2 DEF ClaimTable
<1>5. OutcomeTable = [c \in Claims |-> "open"]
  BY <1>3 DEF OutcomeTable
<1> QED
  BY <1>4, <1>5 DEF CoordinatorInit, Publication!PubInit

\* An attempt that was given up has no receipt.
LEMMA GivenUpIsUnpublished ==
    ASSUME EvidenceInv, NEW j \in Jobs, NEW n \in AttemptNumbers,
           \/ n < jobs[j].attempt
           \/ jobs[j].state \in {"failed", "cancelled", "queued"}
    PROVE  run[<<j, n>>] # "complete"
<1> SUFFICES ASSUME run[<<j, n>>] = "complete" PROVE FALSE
  OBVIOUS
<1>1. <<j, n>> \in Claims
  BY DEF Claims
<1>2. EpochOf(<<j, n>>) # 0 /\ Outcome(<<j, n>>) # "unpublished"
  BY <1>1 DEF EvidenceInv, FilesInOrder, FilesAgree
<1>3. TypeOK /\ CurrentAttemptIsLatest /\ RowsAgree(j)
  BY DEF EvidenceInv, BaseInv, StoreInv, RowsInv
<1>4. /\ n \in Nat /\ n # 0 /\ jobs[j].attempt \in Nat
      /\ attempts[j][n].epoch # 0 /\ n <= jobs[j].attempt
  BY <1>2, <1>3, LimitsAssumption
     DEF AttemptNumbers, TypeOK, JobRows, RowsAgree, EpochOf
<1>5. attempts[j][n].pub \in SafeUnpublished
  <2>1. CASE n < jobs[j].attempt
    BY <1>3, <2>1 DEF RowsAgree
  <2>2. CASE n = jobs[j].attempt
    BY <1>3, <1>4, <2>2 DEF RowsAgree, LatestAgrees
  <2> QED
    BY <1>4, <2>1, <2>2
<1>6. ~attempts[j][n].current
  <2>1. attempts[j][n].current =>
           n = jobs[j].attempt /\ jobs[j].state \in ActiveStates
    BY <1>3 DEF CurrentAttemptIsLatest
  <2>2. jobs[j].state \notin {"failed", "cancelled", "queued"} =>
           n < jobs[j].attempt
    OBVIOUS
  <2> QED
    BY <1>4, <2>1, <2>2 DEF ActiveStates, AbandonedStates
<1>7. Outcome(<<j, n>>) = "unpublished"
  BY <1>4, <1>5, <1>6 DEF Outcome, SafeUnpublished
<1> QED
  BY <1>2, <1>7

-----------------------------------------------------------------------------
(* The control store *)

\* There are finitely many attempts: the limits bound them (LIMITS).
LEMMA ClaimsFinite == IsFiniteSet(Claims)
<1>1. IsFiniteSet(AttemptNumbers)
  BY FS_Interval, LimitsAssumption DEF AttemptNumbers
<1> QED
  BY <1>1, JobsAssumption, FS_Product DEF Claims

\* So they can be counted.
LEMMA ClaimsCounted == ClaimsAreCounted
<1> SUFFICES ASSUME NEW S \in SUBSET Claims, NEW c \in Claims \ S
    PROVE  /\ Cardinality(S) \in Nat /\ Cardinality(Claims) \in Nat
           /\ Cardinality(S \cup {c}) = Cardinality(S) + 1
           /\ Cardinality(S \cup {c}) <= Cardinality(Claims)
  BY DEF ClaimsAreCounted
<1>1. IsFiniteSet(S) /\ S \cup {c} \subseteq Claims
  BY ClaimsFinite, FS_Subset
<1>2. Cardinality(S) \in Nat /\ Cardinality(Claims) \in Nat
  BY <1>1, ClaimsFinite, FS_CardinalityType
<1>3. Cardinality(S \cup {c}) = Cardinality(S) + 1
  BY <1>1, FS_AddElement
<1>4. Cardinality(S \cup {c}) <= Cardinality(Claims)
  BY <1>1, ClaimsFinite, FS_Subset
<1> QED
  BY <1>2, <1>3, <1>4

\* At first there are no rows.
LEMMA RowsInit == Init => RowsInv
<1>1. ASSUME Init PROVE \A j \in Jobs : RowsAgree(j)
  BY <1>1, LimitsAssumption
     DEF Init, RowsAgree, LatestAgrees, AbsentJob, NoAttempt, AttemptNumbers,
         AbandonedStates
<1>2. ASSUME Init PROVE IssuedClaims = {}
  BY <1>2 DEF Init, IssuedClaims, EpochOf, Claims, NoAttempt
<1> QED
  BY Zenon, <1>1, <1>2, FS_EmptySet DEF RowsInv, Init

\* The invariant of the rows, the threads and the passes holds at first.
LEMMA BaseInit == CoordinatorInit => BaseInv
<1> SUFFICES ASSUME CoordinatorInit PROVE BaseInv
  OBVIOUS
<1>1. StoreInv /\ RowsInv
  BY StoreInvInit, RowsInit DEF CoordinatorInit
<1> QED
  BY <1>1, CoreInit DEF BaseInv

\* Every step of a process, a thread, a pass, a client, a worker or the
\* server keeps it.
LEMMA BaseStep == BaseInv /\ [CoordinatorNext]_vars => BaseInv'
<1> SUFFICES ASSUME BaseInv, [CoordinatorNext]_vars PROVE BaseInv'
  OBVIOUS
<1>1. CoreInvNext
  BY CoreStep, ClaimsCounted
<1>2. StoreInv'
  BY <1>1, StoreInvStep DEF BaseInv, CoreInvNext, StoreMove
<1> QED
  BY <1>1, <1>2 DEF BaseInv, CoreInvNext, StoreMove

\* Rows, threads and passes are in order in every reachable state.
LEMMA BaseInvariant == CoordinatorSpec => []BaseInv
  BY BaseInit, BaseStep, PTL DEF CoordinatorSpec

\* Processes, threads and passes keep to their places, whatever dies, expires
\* or is overtaken (core.run_once, _dispose_terminal, recover_startup).
THEOREM CoordinatorTypes == CoordinatorSpec => []CoordinatorTypeOK
<1>1. BaseInv => CoordinatorTypeOK
  BY DEF BaseInv
<1> QED
  BY <1>1, BaseInvariant, PTL

\* Whatever the processes do and wherever they die, the control database sees
\* one of its transactions or none per step: what is proved of ControlStore
\* holds of the coordinators at work.
THEOREM CoordinatorsImplementStore == CoordinatorSpec => StoreSpec
<1>1. CoordinatorInit => Init
  BY DEF CoordinatorInit
<1>2. BaseInv /\ [CoordinatorNext]_vars => [Next]_storeVars
  BY CoreStep, ClaimsCounted DEF CoreInvNext, StoreMove
<1> QED
  BY <1>1, <1>2, BaseInvariant, PTL DEF CoordinatorSpec, StoreSpec, Spec

-----------------------------------------------------------------------------
(* The publication protocol *)

P == INSTANCE GraphPublicationProofs WITH
    FencingEpochs <- Epochs, Leases <- LeaseNumbers,
    claim <- ClaimTable, outcome <- OutcomeTable

\* The assumptions of GraphPublication hold of the control store's numbers.
LEMMA ProtocolAssumptions ==
    P!EpochsAssumption /\ P!NoClaimAssumption /\ P!FaultsAssumption
<1>1. Epochs \subseteq Nat \ {0}
  BY LimitsAssumption DEF Epochs
<1>2. LeaseNumbers \subseteq Nat \ {0}
  BY ClaimsFinite, FS_CardinalityType DEF LeaseNumbers
<1>3. NoClaim \notin Claims
  BY JobsAssumption DEF Claims
<1> QED
  BY <1>1, <1>2, <1>3, MisreportsAssumption
     DEF P!EpochsAssumption, P!NoClaimAssumption, P!FaultsAssumption

\* GraphPublication and its instance with the proofs see the same variables, ...
LEMMA SameStutter == UNCHANGED Publication!pubVars => UNCHANGED P!pubVars
  BY DEF Publication!pubVars, P!pubVars

\* ... start in the same states ...
LEMMA SameInit == Publication!PubInit => P!PubInit
  BY DEF Publication!PubInit, P!PubInit

\* ... and take the same steps.
LEMMA SameNext == Publication!PubNext => P!PubNext
  BY Zenon DEF
      Publication!Ended, P!Ended, Publication!BeforeGate, P!BeforeGate,
      Publication!BehindGate, P!BehindGate, Publication!Issued, P!Issued,
      Publication!Less, P!Less, Publication!SameKey, P!SameKey,
      Publication!UpsertAccepts, P!UpsertAccepts, Publication!AuthorityOf,
      P!AuthorityOf, Publication!RowLocked, P!RowLocked, Publication!Stale,
      P!Stale, Publication!issue_claim, P!issue_claim,
      Publication!initialize, P!initialize, Publication!launch, P!launch,
      Publication!never_launched, P!never_launched, Publication!FailsWith,
      P!FailsWith, Publication!register_graph_claim, P!register_graph_claim,
      Publication!prepare_stage, P!prepare_stage,
      Publication!fail_before_publication, P!fail_before_publication,
      Publication!worker_cancelled, P!worker_cancelled,
      Publication!read_initial, P!read_initial, Publication!write_decision,
      P!write_decision, Publication!execute_final_transaction,
      P!execute_final_transaction, Publication!final_transaction_fails,
      P!final_transaction_fails, Publication!request_commit,
      P!request_commit, Publication!commit_acknowledged,
      P!commit_acknowledged, Publication!commit_error, P!commit_error,
      Publication!reconcile_commit_unknown, P!reconcile_commit_unknown,
      Publication!report_committed, P!report_committed, Publication!kill,
      P!kill, Publication!server_commits, P!server_commits,
      Publication!server_aborts, P!server_aborts,
      Publication!install_graph_publication_fence,
      P!install_graph_publication_fence, Publication!WriteNotStarted,
      P!WriteNotStarted, Publication!close_unpublished, P!close_unpublished,
      Publication!UnpublishedProved, P!UnpublishedProved,
      Publication!dispose_unpublished, P!dispose_unpublished,
      Publication!dispose_published, P!dispose_published,
      Publication!retire_evidence, P!retire_evidence, Publication!WorkerNext,
      P!WorkerNext, Publication!ServerNext, P!ServerNext,
      Publication!CoordinatorNext, P!CoordinatorNext, Publication!PubNext,
      P!PubNext

\* Every report has its receipt.
ReceiptsBehindReports == \A c \in Claims : P!ReceiptBehindReport(c)

\* What GraphPublication keeps in order is what the coordinators rely on.
LEMMA PublicationInOrder == P!PubInv /\ ReceiptsBehindReports => FilesInOrder
<1> SUFFICES ASSUME P!PubInv, ReceiptsBehindReports PROVE FilesInOrder
  OBVIOUS
<1>1. worker \in [Claims -> P!WorkerStates]
  BY DEF P!PubInv, P!PubTypeOK
<1>2. worker \in [Claims -> Publication!WorkerStates]
  BY <1>1 DEF P!WorkerStates, Publication!WorkerStates, P!Ended,
     Publication!Ended, P!BeforeGate, Publication!BeforeGate, P!BehindGate,
     Publication!BehindGate
<1>3. ASSUME NEW c \in Claims PROVE FilesAgree(c)
  <2>1. P!ProgressAgrees(c) /\ P!ShutOut(c)
    BY DEF P!PubInv, P!AttemptInv
  <2>2. run[c] = "complete" => P!Issued(c)
    BY <2>1 DEF P!ProgressAgrees, P!Unsent
  <2>3. run[c] = "complete" => OutcomeTable[c] # "unpublished"
    BY <2>1 DEF P!ShutOut
  <2>4. P!Issued(c) => EpochOf(c) # 0
    BY TableRow DEF P!Issued
  <2> QED
    BY <2>2, <2>3, <2>4, TableRow
       DEF FilesAgree, ReceiptsBehindReports, P!ReceiptBehindReport
<1> QED
  BY <1>2, <1>3 DEF FilesInOrder

\* The same after a step.
LEMMA PublicationInOrderNext ==
    P!PubInv' /\ ReceiptsBehindReports' => FilesInOrder'
  BY PublicationInOrder, PTL

\* The inductive invariant: what the coordinators know and what GraphPublication
\* keeps in order.
CoordinatorInv == EvidenceInv /\ P!PubInv

\* What is known of an attempt lasts over every step of GraphPublication.
LEMMA EvidenceLasts ==
    ASSUME CoordinatorInv, Faults = {}, [P!PubNext]_P!pubVars
    PROVE  (\A c \in Claims : Lasts(c)) /\ ReceiptsBehindReports'
<1>1. ReceiptsBehindReports
  BY DEF CoordinatorInv, EvidenceInv, FilesInOrder, FilesAgree,
     ReceiptsBehindReports, P!ReceiptBehindReport
<1>2. \A c \in Claims : P!Keeps(c) /\ P!ReceiptBehindReport(c)'
  BY <1>1, ProtocolAssumptions, P!EvidenceStays
     DEF CoordinatorInv, ReceiptsBehindReports
<1>3. ASSUME NEW c \in Claims PROVE Lasts(c)
  <2>1. /\ OutcomeTable[c] = Outcome(c) /\ OutcomeTable'[c] = Outcome(c)'
        /\ EpochOf(c) # 0 => P!Issued(c)
        /\ P!Ended = Publication!Ended
    BY TableRow DEF OutcomeTable, ClaimTable, P!Issued, P!Ended,
       Publication!Ended
  <2>2. (Overtaken(c) => P!Stale(c)) /\ (P!Stale(c)' => Overtaken(c)')
    BY DEF P!Stale, P!Less, Overtaken, ClaimTable
  <2>3. EpochOf(c) # 0 /\ Overtaken(c) => Overtaken(c)'
    BY <1>2, <2>1, <2>2 DEF P!Keeps
  <2> QED
    BY <1>2, <2>1, <2>3 DEF P!Keeps, Lasts
<1> QED
  BY <1>2, <1>3 DEF ReceiptsBehindReports

\* No step of anybody takes the evidence from a thread or a pass.
LEMMA EvidenceStep ==
    ASSUME Faults = {}
    PROVE  CoordinatorInv /\ [CoordinatorNext]_vars => CoordinatorInv'
<1> SUFFICES ASSUME CoordinatorInv, [CoordinatorNext]_vars
             PROVE  CoordinatorInv'
  OBVIOUS
<1>1. EvidenceInv /\ P!PubInv /\ BaseInv
  BY DEF CoordinatorInv, EvidenceInv
<1>2. [P!PubNext]_P!pubVars
  BY <1>1, StepPublishes, ClaimsCounted, SameNext, SameStutter DEF PublicationStep
<1>3. BaseInv'
  BY <1>1, BaseStep
<1>4. P!PubInv'
  BY <1>1, <1>2, ProtocolAssumptions, P!PubInvStep
<1>5. (\A c \in Claims : Lasts(c)) /\ ReceiptsBehindReports'
  BY <1>2, EvidenceLasts
<1>6. FilesInOrder'
  BY <1>4, <1>5, PublicationInOrderNext
<1>7. /\ \A c \in Claims : ThreadEvidence(c)'
      /\ \A e \in Epochs : RecoveryEvidence(e)'
      /\ MarkersAreReceipts'
  BY <1>1, <1>5, MarkersStep, ThreadsStep, PassesStep, ClaimsCounted
<1> QED
  BY <1>3, <1>4, <1>6, <1>7 DEF EvidenceInv, CoordinatorInv

\* There is no attempt at first, so nothing to have evidence of.
LEMMA EvidenceInit == CoordinatorInit => CoordinatorInv
<1> SUFFICES ASSUME CoordinatorInit PROVE CoordinatorInv
  OBVIOUS
<1>1. BaseInv
  BY BaseInit
<1>2. P!PubInv
  BY TablesInit, SameInit, ProtocolAssumptions, P!PubInvInit
<1>3. ReceiptsBehindReports
  BY DEF CoordinatorInit, ReceiptsBehindReports, P!ReceiptBehindReport
<1>4. FilesInOrder
  BY <1>2, <1>3, PublicationInOrder
<1>5. \A c \in Claims : ThreadEvidence(c)
  BY DEF CoordinatorInit, ThreadEvidence, EvidenceAt, NoThread
<1>6. \A e \in Epochs : RecoveryEvidence(e)
  BY DEF CoordinatorInit, RecoveryEvidence, NoRecovery
<1>7. MarkersAreReceipts
  BY ClaimParts DEF CoordinatorInit, Init, MarkersAreReceipts
<1> QED
  BY <1>1, <1>2, <1>4, <1>5, <1>6, <1>7 DEF EvidenceInv, CoordinatorInv

\* In every reachable state the evidence is at hand.
LEMMA EvidenceInvariant ==
    ASSUME Faults = {}
    PROVE  CoordinatorSpec => []CoordinatorInv
  BY EvidenceInit, EvidenceStep, PTL DEF CoordinatorSpec

-----------------------------------------------------------------------------
(* What the coordinators promise *)

\* Coordinators that crash, expire, are overtaken or lose their database at
\* any step implement the publication protocol, when workers do not misreport:
\* they close a gate, dispose of an attempt and retire its evidence only with
\* the proof that GraphPublication demands (close_unpublished,
\* _dispose_terminal, recover_startup).
THEOREM CoordinatorsImplementPublication ==
    ASSUME Faults = {}
    PROVE  CoordinatorSpec => PublicationSpec
<1>1. CoordinatorInit => Publication!PubInit
  BY TablesInit
<1>2. CoordinatorInv /\ [CoordinatorNext]_vars =>
         [Publication!PubNext]_Publication!pubVars
  BY StepPublishes, ClaimsCounted DEF CoordinatorInv, PublicationStep
<1> QED
  BY <1>1, <1>2, EvidenceInvariant, PTL
     DEF CoordinatorSpec, PublicationSpec, Publication!PubSpec

\* Contract I4 for any number of attempts and coordinators: a job is published
\* at most once, although workers and commits outlive the coordinators that
\* started them and nobody waits for them (execute_durable_closure,
\* reconcile_publication, before_publication).
THEOREM JobsArePublishedOnce ==
    ASSUME Faults = {}
    PROVE  CoordinatorSpec => []PublishedAtMostOnce
<1>1. EvidenceInv => PublishedAtMostOnce
  <2> SUFFICES ASSUME EvidenceInv, NEW c \in Claims, NEW d \in Claims,
                      c[1] = d[1], run[c] = "complete", run[d] = "complete"
               PROVE  c = d
    BY DEF PublishedAtMostOnce
  <2>1. /\ c[1] \in Jobs /\ c = <<c[1], c[2]>> /\ d = <<c[1], d[2]>>
        /\ c[2] \in AttemptNumbers /\ d[2] \in AttemptNumbers
    BY ClaimParts
  <2>2. AttemptNumbers \subseteq Nat /\ jobs[c[1]].attempt \in Nat
    BY <2>1, LimitsAssumption
       DEF EvidenceInv, BaseInv, StoreInv, TypeOK, JobRows, AttemptNumbers
  <2>3. c[2] <= jobs[c[1]].attempt /\ d[2] <= jobs[c[1]].attempt
    BY <2>1 DEF EvidenceInv, FilesInOrder, FilesAgree, BaseInv, RowsInv,
       RowsAgree, EpochOf
  <2>4. ~(c[2] < jobs[c[1]].attempt) /\ ~(d[2] < jobs[c[1]].attempt)
    BY <2>1, GivenUpIsUnpublished
  <2>5. c[2] = d[2]
    BY <2>1, <2>2, <2>3, <2>4
  <2> QED
    BY <2>1, <2>5
<1>2. CoordinatorInv => EvidenceInv
  BY DEF CoordinatorInv
<1> QED
  BY <1>1, <1>2, EvidenceInvariant, PTL

\* Contract I2 and I3 for any number of attempts and coordinators: what a job
\* is reported as is what happened to its graph (_dispose_terminal,
\* reconcile_publication, schedule_retry).
THEOREM ReportsAreTruthful ==
    ASSUME Faults = {}
    PROVE  CoordinatorSpec => []ReportsAreTrue
<1>1. EvidenceInv => ReportsAreTrue
  <2> SUFFICES ASSUME EvidenceInv, NEW j \in Jobs
               PROVE  /\ jobs[j].state = "succeeded" =>
                            run[<<j, jobs[j].attempt>>] = "complete"
                      /\ jobs[j].state \in {"failed", "cancelled", "queued"} =>
                            \A n \in AttemptNumbers : run[<<j, n>>] # "complete"
    BY DEF ReportsAreTrue
  <2>1. ASSUME jobs[j].state = "succeeded"
        PROVE  run[<<j, jobs[j].attempt>>] = "complete"
    <3>1. /\ jobs[j].attempt \in AttemptNumbers
          /\ markers[j][jobs[j].attempt] = "committed"
      BY <2>1 DEF EvidenceInv, BaseInv, StoreInv, StateAgreesWithPublication
    <3>2. PICK c \in Claims : c = <<j, jobs[j].attempt>>
      BY Zenon, <3>1 DEF Claims
    <3> QED
      BY <3>1, <3>2 DEF EvidenceInv, MarkersAreReceipts
  <2> QED
    BY <2>1, GivenUpIsUnpublished
<1>2. CoordinatorInv => EvidenceInv
  BY DEF CoordinatorInv
<1> QED
  BY <1>1, <1>2, EvidenceInvariant, PTL
=============================================================================
