----------------------- MODULE GraphPublicationProofs -----------------------
(***************************************************************************)
(* For any number of attempts and any fencing epochs: an attempt disposed  *)
(* of as not published stays unpublished, and the storage fence is never   *)
(* passed by an older owner.  The argument is the inductive invariant      *)
(* PubInv, kept for each attempt by each action.                           *)
(***************************************************************************)
EXTENDS GraphPublication, TLAPS

\* The worker has not asked for a commit.
Unsent == {"none", "ready", "gated", "final", "never", "said_not_started",
           "said_cancelled"} \cup BeforeGate

\* It has not opened the final transaction either, and may still do so.
Pending == {"none", "ready", "gated"} \cup BeforeGate

\* The gate was passed before anything is at stake: the decision is the
\* worker's, or it was retired with the attempt's disposition.
GateComesFirst(c) ==
    \/ worker[c] \in BehindGate \cup {"said_committed", "said_unknown"}
    \/ backend[c] # "none"
    \/ run[c] = "complete"
    => \/ decision[c] = "transaction_started"
       \/ decision[c] = "none" /\ outcome[c] # "open"

\* What the worker's progress says about its transaction.
ProgressAgrees(c) ==
    /\ worker[c] \in Unsent => run[c] # "complete" /\ backend[c] # "committing"
    /\ worker[c] \in Pending \cup {"never", "said_cancelled"} =>
          backend[c] = "none"
    /\ worker[c] = "final" => backend[c] = "open"
    /\ ~Issued(c) => worker[c] = "none" /\ outcome[c] = "open"

\* An attempt disposed of as unpublished has nothing under way, and its worker
\* is over or shut out by the fence.
ShutOut(c) ==
    outcome[c] = "unpublished" =>
        /\ run[c] # "complete"
        /\ backend[c] # "committing"
        /\ worker[c] \in Ended \/ (Stale(c) /\ worker[c] \in Pending)

\* The owner of an open final transaction is not stale: the row is locked.
LockedIsFresh(c) == backend[c] # "none" => ~Stale(c)

AttemptInv(c) ==
    GateComesFirst(c) /\ ProgressAgrees(c) /\ ShutOut(c) /\ LockedIsFresh(c)

\* The graph has no authority row before the first claim or fence.
NoRowAtFirst ==
    authority.last = "none" => authority.epoch = 0 /\ authority.lease = 0

PubInv ==
    /\ PubTypeOK
    /\ NoRowAtFirst
    /\ OneFinalTransaction
    /\ \A c \in Claims : AttemptInv(c)

-----------------------------------------------------------------------------
(* Types *)

\* A worker that fails leaves typed rows.
LEMMA FailureTyped ==
    ASSUME PubTypeOK, NEW c \in Claims, NEW message \in Ended,
           FailsWith(c, message)
    PROVE  /\ run' \in [Claims -> {"none", "running", "complete", "failed"}]
           /\ worker' \in [Claims -> WorkerStates]
  BY DEF PubTypeOK, FailsWith, WorkerStates

\* What an upsert writes is a row of the authority table.
LEMMA AuthorityTyped ==
    ASSUME NEW c \in Claims, NEW key \in ClaimKeys,
           NEW last \in {"fence", "claim", "run"}
    PROVE  AuthorityOf(c, key, last) \in AuthorityRows
  BY DEF ClaimKeys, AuthorityOf, AuthorityRows

\* Every variable of the publication keeps its type under every action.
LEMMA PubTypeStep == PubTypeOK /\ [PubNext]_pubVars => PubTypeOK'
<1> SUFFICES ASSUME PubTypeOK, [PubNext]_pubVars PROVE PubTypeOK'
  OBVIOUS
<1> USE DEF PubTypeOK
<1>0. /\ {"none", "ready"} \subseteq WorkerStates
      /\ BeforeGate \subseteq WorkerStates
      /\ BehindGate \subseteq WorkerStates
      /\ Ended \subseteq WorkerStates
  BY DEF WorkerStates
<1>1. CASE UNCHANGED pubVars
  BY <1>1 DEF pubVars
<1>2. ASSUME NEW c \in Claims, WorkerNext(c) PROVE PubTypeOK'
  <2>1. CASE register_graph_claim(c)
    <3>1. CASE UpsertAccepts(c, claim[c], "claim")
      BY <1>0, <2>1, <3>1, AuthorityTyped DEF register_graph_claim, BeforeGate
    <3>2. CASE ~UpsertAccepts(c, claim[c], "claim")
      BY <2>1, <3>2, FailureTyped DEF register_graph_claim, Ended
    <3> QED
      BY <3>1, <3>2
  <2>2. CASE prepare_stage(c)
    BY <1>0, <2>2 DEF prepare_stage, BeforeGate
  <2>3. CASE fail_before_publication(c)
    BY <2>3, FailureTyped DEF fail_before_publication, Ended
  <2>4. CASE worker_cancelled(c)
    BY <2>4, FailureTyped DEF worker_cancelled, Ended
  <2>5. CASE read_initial(c)
    <3>1. CASE initial[c]
      BY <1>0, <2>5, <3>1 DEF read_initial, BeforeGate
    <3>2. CASE ~initial[c]
      BY <2>5, <3>2, FailureTyped DEF read_initial, Ended
    <3> QED
      BY <3>1, <3>2
  <2>6. CASE write_decision(c)
    <3>1. CASE decision[c] = "none"
      BY <1>0, <2>6, <3>1 DEF write_decision, BehindGate, Decisions
    <3>2. CASE decision[c] # "none"
      BY <2>6, <3>2, FailureTyped DEF write_decision, Ended
    <3> QED
      BY <3>1, <3>2
  <2>7. CASE execute_final_transaction(c)
    BY <1>0, <2>7 DEF execute_final_transaction, BehindGate
  <2>8. CASE final_transaction_fails(c)
    BY <2>8, FailureTyped DEF final_transaction_fails, Ended
  <2>9. CASE request_commit(c)
    BY <1>0, <2>9 DEF request_commit, BehindGate
  <2>10. CASE commit_acknowledged(c)
    BY <1>0, <2>10 DEF commit_acknowledged, BehindGate
  <2>11. CASE commit_error(c)
    BY <1>0, <2>11 DEF commit_error, BehindGate
  <2>12. CASE reconcile_commit_unknown(c)
    BY <1>0, <2>12 DEF reconcile_commit_unknown, BehindGate, Ended
  <2>13. CASE report_committed(c)
    BY <1>0, <2>13 DEF report_committed, Ended
  <2> QED
    BY <1>2, <2>1, <2>2, <2>3, <2>4, <2>5, <2>6, <2>7, <2>8, <2>9, <2>10,
       <2>11, <2>12, <2>13 DEF WorkerNext
<1>3. ASSUME NEW c \in Claims, kill(c) \/ ServerNext(c) PROVE PubTypeOK'
  <2>1. CASE kill(c)
    BY <1>0, <2>1 DEF kill, Ended, Decisions
  <2>2. CASE server_commits(c)
    BY <2>2, AuthorityTyped DEF server_commits
  <2>3. CASE server_aborts(c)
    BY <2>3 DEF server_aborts
  <2> QED
    BY <1>3, <2>1, <2>2, <2>3 DEF ServerNext
<1>4. ASSUME NEW c \in Claims, CoordinatorNext(c) PROVE PubTypeOK'
  <2>1. CASE issue_claim(c)
    BY <2>1 DEF issue_claim, ClaimKeys
  <2>2. CASE initialize(c)
    BY <1>0, <2>2 DEF initialize
  <2>3. CASE launch(c)
    BY <1>0, <2>3 DEF launch, BeforeGate
  <2>4. CASE never_launched(c)
    BY <1>0, <2>4 DEF never_launched, Ended
  <2>5. CASE \E e \in FencingEpochs : install_graph_publication_fence(c, e)
    <3>1. PICK e \in FencingEpochs : install_graph_publication_fence(c, e)
      BY <2>5
    <3>2. [epoch |-> e, lease |-> claim[c].lease] \in ClaimKeys
      BY DEF ClaimKeys
    <3> QED
      BY <3>1, <3>2, AuthorityTyped DEF install_graph_publication_fence
  <2>6. CASE close_unpublished(c)
    BY <2>6 DEF close_unpublished, WriteNotStarted, Decisions
  <2>7. CASE dispose_unpublished(c)
    BY <2>7 DEF dispose_unpublished
  <2>8. CASE dispose_published(c)
    BY <2>8 DEF dispose_published
  <2>9. CASE retire_evidence(c)
    BY <2>9 DEF retire_evidence, Decisions
  <2> QED
    BY <1>4, <2>1, <2>2, <2>3, <2>4, <2>5, <2>6, <2>7, <2>8, <2>9
       DEF CoordinatorNext
<1> QED
  BY <1>1, <1>2, <1>3, <1>4 DEF PubNext

-----------------------------------------------------------------------------
(* The invariant *)

\* A step of attempt c leaves the rows and files of the others alone, moves
\* the authority row forward and only while no other attempt has it locked.
StepOf(c) ==
    /\ \A d \in Claims \ {c} :
          /\ claim'[d] = claim[d] /\ decision'[d] = decision[d]
          /\ worker'[d] = worker[d] /\ backend'[d] = backend[d]
          /\ run'[d] = run[d] /\ outcome'[d] = outcome[d]
    /\ ~Less(authority', authority)
    /\ \/ authority' = authority
       \/ /\ authority'.last # "none"
          /\ \A d \in Claims \ {c} : backend[d] = "none"
    /\ \/ backend'[c] = "none" \/ backend[c] # "none"
       \/ \A d \in Claims : backend[d] = "none"

\* The epochs of the claims and of the authority row are numbers.
LEMMA KeysAreNumbers ==
    ASSUME PubTypeOK
    PROVE  /\ authority.epoch \in Nat /\ authority.lease \in Nat
           /\ \A c \in Claims : claim[c].epoch \in Nat /\ claim[c].lease \in Nat
<1>1. FencingEpochs \cup {0} \subseteq Nat /\ Leases \cup {0} \subseteq Nat
  BY EpochsAssumption
<1> QED
  BY <1>1 DEF PubTypeOK, ClaimKeys, AuthorityRows

\* A stale owner remains stale.
LEMMA StaleForGood ==
    ASSUME PubTypeOK, PubTypeOK', NEW d \in Claims, Stale(d),
           claim'[d] = claim[d], ~Less(authority', authority)
    PROVE  Stale(d)'
<1>1. authority'.epoch \in Nat /\ authority'.lease \in Nat
  <2>1. FencingEpochs \cup {0} \subseteq Nat /\ Leases \cup {0} \subseteq Nat
    BY EpochsAssumption
  <2> QED
    BY <2>1 DEF PubTypeOK, AuthorityRows
<1> QED
  BY <1>1, KeysAreNumbers DEF Stale, Less

\* The invariant of an attempt survives a step of another one.
LEMMA OthersKeepInv ==
    ASSUME PubInv, PubTypeOK', NEW c \in Claims, StepOf(c),
           NEW d \in Claims \ {c}
    PROVE  AttemptInv(d)'
<1>1. AttemptInv(d) /\ PubTypeOK
  BY DEF PubInv
<1>2. /\ claim'[d] = claim[d] /\ decision'[d] = decision[d]
      /\ worker'[d] = worker[d] /\ backend'[d] = backend[d]
      /\ run'[d] = run[d] /\ outcome'[d] = outcome[d]
  BY DEF StepOf
<1>3. Stale(d) => Stale(d)'
  BY <1>1, <1>2, StaleForGood DEF StepOf
<1>4. backend[d] # "none" => authority' = authority
  BY DEF StepOf
<1>5. GateComesFirst(d)' /\ ProgressAgrees(d)'
  BY <1>1, <1>2 DEF AttemptInv, GateComesFirst, ProgressAgrees, Issued
<1>6. ShutOut(d)'
  BY <1>1, <1>2, <1>3 DEF AttemptInv, ShutOut
<1>7. LockedIsFresh(d)'
  BY <1>1, <1>2, <1>4 DEF AttemptInv, LockedIsFresh, Stale
<1> QED
  BY <1>5, <1>6, <1>7 DEF AttemptInv

\* So a step of c keeps the whole invariant when it keeps that of c.
LEMMA StepKeepsInv ==
    ASSUME PubInv, PubTypeOK', NEW c \in Claims, StepOf(c), AttemptInv(c)'
    PROVE  PubInv'
<1>1. \A d \in Claims : AttemptInv(d)'
  BY OthersKeepInv
<1>2. OneFinalTransaction'
  BY DEF PubInv, OneFinalTransaction, StepOf
<1>3. NoRowAtFirst'
  BY DEF PubInv, NoRowAtFirst, StepOf
<1> QED
  BY <1>1, <1>2, <1>3 DEF PubInv

\* An accepted upsert moves the authority row forward.
LEMMA UpsertAdvances ==
    ASSUME PubTypeOK, PubTypeOK', NEW c \in Claims, NEW key, NEW last,
           key.epoch \in Nat, key.lease \in Nat,
           NoRowAtFirst, UpsertAccepts(c, key, last), authority' = AuthorityOf(c, key, last)
    PROVE  ~Less(authority', authority)
  BY KeysAreNumbers DEF UpsertAccepts, AuthorityOf, Less, SameKey, NoRowAtFirst

\* The steps of a worker after its claim of the authority row.
LEMMA WorkerStep ==
    ASSUME PubInv, PubTypeOK', NEW c \in Claims,
           Faults = {}, WorkerNext(c), ~register_graph_claim(c)
    PROVE  StepOf(c) /\ AttemptInv(c)'
<1> USE DEF StepOf, AttemptInv, GateComesFirst, ProgressAgrees, ShutOut,
        LockedIsFresh, Stale, Issued, Unsent, Pending, BeforeGate, BehindGate,
        Ended
<1>1. PubTypeOK /\ AttemptInv(c) /\ OneFinalTransaction
  BY DEF PubInv
<1>2. ~Less(authority, authority)
  BY <1>1, KeysAreNumbers DEF Less
<1>3. CASE prepare_stage(c)
  BY <1>1, <1>2, <1>3 DEF prepare_stage, PubTypeOK
<1>4. CASE fail_before_publication(c)
  BY <1>1, <1>2, <1>4 DEF fail_before_publication, FailsWith, PubTypeOK
<1>5. CASE worker_cancelled(c)
  BY <1>1, <1>2, <1>5 DEF worker_cancelled, FailsWith, PubTypeOK
<1>6. CASE read_initial(c)
  BY <1>1, <1>2, <1>6 DEF read_initial, FailsWith, PubTypeOK
<1>7. CASE write_decision(c)
  BY <1>1, <1>2, <1>7 DEF write_decision, FailsWith, PubTypeOK
<1>8. CASE execute_final_transaction(c)
  BY <1>1, <1>2, <1>8 DEF execute_final_transaction, RowLocked, PubTypeOK
<1>9. CASE final_transaction_fails(c)
  BY <1>1, <1>2, <1>9 DEF final_transaction_fails, FailsWith, PubTypeOK
<1>10. CASE request_commit(c)
  BY <1>1, <1>2, <1>10 DEF request_commit, PubTypeOK
<1>11. CASE commit_acknowledged(c)
  BY <1>1, <1>2, <1>11 DEF commit_acknowledged, PubTypeOK
<1>12. CASE commit_error(c)
  BY <1>1, <1>2, <1>12 DEF commit_error, PubTypeOK
<1>13. CASE reconcile_commit_unknown(c)
  BY <1>1, <1>2, <1>13 DEF reconcile_commit_unknown, PubTypeOK
<1>14. CASE report_committed(c)
  BY <1>1, <1>2, <1>14 DEF report_committed, PubTypeOK
<1> QED
  BY <1>3, <1>4, <1>5, <1>6, <1>7, <1>8, <1>9, <1>10, <1>11, <1>12, <1>13, <1>14 DEF WorkerNext

\* The end of a worker, and what the server does with its transaction.
LEMMA EndStep ==
    ASSUME PubInv, PubTypeOK', NEW c \in Claims,
           Faults = {}, kill(c) \/ server_aborts(c)
    PROVE  StepOf(c) /\ AttemptInv(c)'
<1> USE DEF StepOf, AttemptInv, GateComesFirst, ProgressAgrees, ShutOut,
        LockedIsFresh, Stale, Issued, Unsent, Pending, BeforeGate, BehindGate,
        Ended
<1>1. PubTypeOK /\ AttemptInv(c) /\ OneFinalTransaction
  BY DEF PubInv
<1>2. ~Less(authority, authority)
  BY <1>1, KeysAreNumbers DEF Less
<1>3. CASE kill(c)
  BY <1>1, <1>2, <1>3 DEF kill, PubTypeOK
<1>4. CASE server_aborts(c)
  BY <1>1, <1>2, <1>4 DEF server_aborts, PubTypeOK
<1> QED
  BY <1>3, <1>4

\* What the launching coordinator does with the attempt.
LEMMA LaunchStep ==
    ASSUME PubInv, PubTypeOK', NEW c \in Claims,
           Faults = {}, initialize(c) \/ launch(c) \/ never_launched(c)
    PROVE  StepOf(c) /\ AttemptInv(c)'
<1> USE DEF StepOf, AttemptInv, GateComesFirst, ProgressAgrees, ShutOut,
        LockedIsFresh, Stale, Issued, Unsent, Pending, BeforeGate, BehindGate,
        Ended
<1>1. PubTypeOK /\ AttemptInv(c) /\ OneFinalTransaction
  BY DEF PubInv
<1>2. ~Less(authority, authority)
  BY <1>1, KeysAreNumbers DEF Less
<1>3. CASE initialize(c)
  BY <1>1, <1>2, <1>3 DEF initialize, PubTypeOK
<1>4. CASE launch(c)
  BY <1>1, <1>2, <1>4 DEF launch, PubTypeOK
<1>5. CASE never_launched(c)
  BY <1>1, <1>2, <1>5 DEF never_launched, PubTypeOK
<1> QED
  BY <1>3, <1>4, <1>5

\* Closing, disposing of and retiring an attempt.
LEMMA CloseStep ==
    ASSUME PubInv, PubTypeOK', NEW c \in Claims,
           Faults = {}, 
           \/ close_unpublished(c) \/ dispose_unpublished(c)
           \/ dispose_published(c) \/ retire_evidence(c)
    PROVE  StepOf(c) /\ AttemptInv(c)'
<1> USE DEF StepOf, AttemptInv, GateComesFirst, ProgressAgrees, ShutOut,
        LockedIsFresh, Stale, Issued, Unsent, Pending, BeforeGate, BehindGate,
        Ended
<1>1. PubTypeOK /\ AttemptInv(c) /\ OneFinalTransaction
  BY DEF PubInv
<1>2. ~Less(authority, authority)
  BY <1>1, KeysAreNumbers DEF Less
<1>3. CASE close_unpublished(c)
  BY <1>1, <1>2, <1>3 DEF close_unpublished, WriteNotStarted, PubTypeOK
<1>4. CASE dispose_unpublished(c)
  BY <1>1, <1>2, <1>4 DEF dispose_unpublished, UnpublishedProved, WorkerStates, PubTypeOK
<1>5. CASE dispose_published(c)
  BY <1>1, <1>2, <1>5 DEF dispose_published, PubTypeOK
<1>6. CASE retire_evidence(c)
  BY <1>1, <1>2, <1>6 DEF retire_evidence, PubTypeOK
<1> QED
  BY <1>3, <1>4, <1>5, <1>6

\* A new claim has no worker yet.
LEMMA IssueStep ==
    ASSUME PubInv, PubTypeOK', NEW c \in Claims,
           Faults = {}, issue_claim(c)
    PROVE  StepOf(c) /\ AttemptInv(c)'
<1> USE DEF StepOf, AttemptInv, GateComesFirst, ProgressAgrees, ShutOut,
        LockedIsFresh, Stale, Issued, Unsent, Pending, BeforeGate, BehindGate,
        Ended
<1>1. PubTypeOK /\ AttemptInv(c) /\ OneFinalTransaction
  BY DEF PubInv
<1>2. ~Less(authority, authority)
  BY <1>1, KeysAreNumbers DEF Less
<1>3. CASE issue_claim(c)
  BY <1>1, <1>2, <1>3 DEF issue_claim, PubTypeOK
<1> QED
  BY <1>3

\* The claim of the authority row: accepted, it moves the row forward and the
\* worker is fresh; rejected, the worker fails.
LEMMA RegisterStep ==
    ASSUME PubInv, PubTypeOK', NEW c \in Claims, register_graph_claim(c)
    PROVE  StepOf(c) /\ AttemptInv(c)'
<1>1. PubTypeOK /\ AttemptInv(c) /\ NoRowAtFirst
  BY DEF PubInv
<1>2. claim[c].epoch \in Nat /\ claim[c].lease \in Nat
  BY <1>1, KeysAreNumbers
<1>3. ~Less(authority', authority)
  <2>1. CASE UpsertAccepts(c, claim[c], "claim")
    BY <1>1, <1>2, <2>1, UpsertAdvances DEF register_graph_claim
  <2>2. CASE ~UpsertAccepts(c, claim[c], "claim")
    BY <1>1, <2>2, KeysAreNumbers DEF register_graph_claim, Less
  <2> QED
    BY <2>1, <2>2
<1>4. /\ backend' = backend /\ \A d \in Claims : backend[d] = "none"
      /\ authority' = authority \/ authority'.last # "none"
      /\ run'[c] # "complete"
      /\ worker'[c] \in {"staging", "said_not_started"}
      /\ claim' = claim /\ decision' = decision /\ outcome' = outcome
  BY <1>1 DEF register_graph_claim, RowLocked, FailsWith, AuthorityOf,
     AttemptInv, ProgressAgrees, Unsent, BeforeGate, PubTypeOK
<1>5. StepOf(c)
  BY <1>3, <1>4 DEF StepOf, register_graph_claim, FailsWith, PubTypeOK
<1>6. Stale(c) => Stale(c)'
  BY <1>1, <1>3, <1>4, StaleForGood
<1>7. AttemptInv(c)'
  BY <1>1, <1>4, <1>6 DEF AttemptInv, GateComesFirst, ProgressAgrees, ShutOut,
     LockedIsFresh, Issued, Unsent, Pending, BeforeGate, BehindGate, Ended,
     register_graph_claim
<1> QED
  BY <1>5, <1>7

\* A later coordinator's fence moves the row forward, past the attempt.
LEMMA FenceStep ==
    ASSUME PubInv, PubTypeOK', NEW c \in Claims, NEW e \in FencingEpochs,
           install_graph_publication_fence(c, e)
    PROVE  StepOf(c) /\ AttemptInv(c)'
<1> DEFINE key == [epoch |-> e, lease |-> claim[c].lease]
<1>1. PubTypeOK /\ AttemptInv(c) /\ NoRowAtFirst
  BY DEF PubInv
<1>2. key.epoch \in Nat /\ key.lease \in Nat
  BY <1>1, KeysAreNumbers, EpochsAssumption
<1>3. /\ UpsertAccepts(c, key, "fence")
      /\ authority' = AuthorityOf(c, key, "fence")
      /\ \A d \in Claims : backend[d] = "none"
  BY DEF install_graph_publication_fence, RowLocked
<1> HIDE DEF key
<1>4. ~Less(authority', authority)
  BY <1>1, <1>2, <1>3, UpsertAdvances
<1>5. UNCHANGED <<claim, decision, worker, backend, run, outcome>>
  BY DEF install_graph_publication_fence
<1>6. StepOf(c)
  BY <1>3, <1>4, <1>5 DEF StepOf, AuthorityOf
<1>7. Stale(c) => Stale(c)'
  BY <1>1, <1>4, <1>5, StaleForGood
<1>8. AttemptInv(c)'
  BY <1>1, <1>3, <1>5, <1>7 DEF AttemptInv, GateComesFirst, ProgressAgrees,
     ShutOut, LockedIsFresh, Issued
<1> QED
  BY <1>6, <1>8

\* The commit of a final transaction: its owner is fresh and alone.
LEMMA CommitStep ==
    ASSUME PubInv, PubTypeOK', NEW c \in Claims, server_commits(c)
    PROVE  StepOf(c) /\ AttemptInv(c)'
<1>1. PubTypeOK /\ AttemptInv(c) /\ OneFinalTransaction
  BY DEF PubInv
<1>2. \A d \in Claims \ {c} : backend[d] = "none"
  BY <1>1 DEF OneFinalTransaction, server_commits
<1>3. ~Stale(c)
  BY <1>1 DEF AttemptInv, LockedIsFresh, server_commits
<1>4. ~Less(authority', authority)
  BY <1>3 DEF Stale, server_commits, AuthorityOf, Less
<1>5. /\ backend'[c] = "none" /\ run'[c] = "complete"
      /\ authority'.last # "none"
      /\ claim' = claim /\ decision' = decision /\ outcome' = outcome
      /\ worker' = worker
  BY <1>1 DEF server_commits, AuthorityOf, PubTypeOK
<1>6. StepOf(c)
  BY <1>1, <1>2, <1>4, <1>5 DEF StepOf, server_commits, PubTypeOK
<1>7. AttemptInv(c)'
  BY <1>1, <1>5 DEF AttemptInv, GateComesFirst, ProgressAgrees, ShutOut,
     LockedIsFresh, Issued, Unsent, Pending, BeforeGate, server_commits
<1> QED
  BY <1>6, <1>7

\* Every step is a step of one attempt that keeps its invariant.
LEMMA StepShape ==
    ASSUME PubInv, PubTypeOK', Faults = {}, PubNext
    PROVE  \E c \in Claims : StepOf(c) /\ AttemptInv(c)'
  BY WorkerStep, RegisterStep, EndStep, CommitStep, LaunchStep, IssueStep,
     FenceStep, CloseStep DEF PubNext, WorkerNext, ServerNext, CoordinatorNext

\* The invariant is inductive.
LEMMA PubInvStep ==
    ASSUME Faults = {}
    PROVE  PubInv /\ [PubNext]_pubVars => PubInv'
<1> SUFFICES ASSUME PubInv, [PubNext]_pubVars PROVE PubInv'
  OBVIOUS
<1>1. PubTypeOK'
  BY PubTypeStep DEF PubInv
<1>2. CASE PubNext
  BY <1>1, <1>2, StepShape, StepKeepsInv
<1>3. CASE UNCHANGED pubVars
  BY <1>3 DEF pubVars, PubInv, PubTypeOK, NoRowAtFirst, OneFinalTransaction,
     AttemptInv, GateComesFirst, ProgressAgrees, ShutOut, LockedIsFresh, Stale,
     Issued
<1> QED
  BY <1>2, <1>3

\* A graph that nobody has published yet satisfies the invariant.
LEMMA PubInvInit == PubInit => PubInv
<1> SUFFICES ASSUME PubInit PROVE PubInv
  OBVIOUS
<1>1. PubTypeOK
  BY DEF PubInit, PubTypeOK, ClaimKeys, AuthorityRows, Decisions, WorkerStates
<1>2. \A c \in Claims : AttemptInv(c)
  BY DEF PubInit, AttemptInv, GateComesFirst, ProgressAgrees, ShutOut,
     LockedIsFresh, Issued, BehindGate
<1> QED
  BY <1>1, <1>2 DEF PubInit, PubInv, NoRowAtFirst, OneFinalTransaction

\* So the invariant holds in every reachable state.
LEMMA PubInvariant == ASSUME Faults = {} PROVE PubSpec => []PubInv
  BY PubInvInit, PubInvStep, PTL DEF PubSpec

-----------------------------------------------------------------------------
(* What follows from it *)

\* Every variable of the publication keeps its type (PubTypeOK).
THEOREM PublicationTypes == PubSpec => []PubTypeOK
<1>1. PubInit => PubTypeOK
  BY PubInvInit DEF PubInv
<1> QED
  BY <1>1, PubTypeStep, PTL DEF PubSpec

\* An attempt disposed of as unpublished is never published, whatever its
\* worker and the server still do, as long as workers report honestly: a
\* commit that may have happened is not reported as "not_started".
THEOREM UnpublishedForGood ==
    ASSUME Faults = {} PROVE PubSpec => []UnpublishedStaysUnpublished
<1>1. PubInv => UnpublishedStaysUnpublished
  BY DEF PubInv, AttemptInv, ShutOut, UnpublishedStaysUnpublished
<1> QED
  BY <1>1, PubInvariant, PTL

\* Final transactions on a graph exclude each other
\* (execute_final_transaction).
THEOREM FinalTransactionsExclude ==
    ASSUME Faults = {} PROVE PubSpec => []OneFinalTransaction
<1>1. PubInv => OneFinalTransaction
  BY DEF PubInv
<1> QED
  BY <1>1, PubInvariant, PTL

\* Only the server's commit completes a run.
LEMMA CompletedByCommit ==
    ASSUME PubTypeOK, NEW c \in Claims, NEW d \in Claims,
           WorkerNext(c) \/ kill(c) \/ server_aborts(c) \/ CoordinatorNext(c),
           run'[d] = "complete"
    PROVE  run[d] = "complete"
<1>1. CASE WorkerNext(c)
  BY <1>1 DEF WorkerNext, register_graph_claim, FailsWith, prepare_stage,
     fail_before_publication, worker_cancelled, read_initial, write_decision,
     execute_final_transaction, final_transaction_fails, request_commit,
     commit_acknowledged, commit_error, reconcile_commit_unknown,
     report_committed, PubTypeOK
<1>2. CASE kill(c) \/ server_aborts(c)
  BY <1>2 DEF kill, server_aborts
<1>3. CASE CoordinatorNext(c)
  BY <1>3 DEF CoordinatorNext, issue_claim, initialize, launch, never_launched,
     install_graph_publication_fence, close_unpublished, dispose_unpublished,
     dispose_published, retire_evidence
<1> QED
  BY <1>1, <1>2, <1>3

\* The authority row only moves forward, and nobody publishes behind a later
\* owner's back (build_authority_upsert_sql, build_authority_check_sql).
THEOREM FenceHolds ==
    ASSUME Faults = {} PROVE PubSpec => FenceIsRespected
<1> DEFINE A == /\ ~Less(authority', authority)
                /\ \A c \in Claims :
                      run[c] # "complete" /\ run'[c] = "complete" => ~Stale(c)
<1>1. ASSUME PubInv, PubNext PROVE A
  <2>1. PubTypeOK /\ PubTypeOK'
    BY <1>1, PubTypeStep DEF PubInv
  <2>2. ~Less(authority', authority)
    BY <1>1, <2>1, StepShape DEF StepOf
  <2>3. ASSUME NEW d \in Claims, run[d] # "complete", run'[d] = "complete"
        PROVE  ~Stale(d)
    <3>1. PICK c \in Claims : server_commits(c)
      BY <1>1, <2>1, <2>3, CompletedByCommit DEF PubNext, ServerNext
    <3>2. c = d
      BY <2>1, <2>3, <3>1 DEF server_commits, PubTypeOK
    <3> QED
      BY <1>1, <3>1, <3>2 DEF server_commits, PubInv, AttemptInv, LockedIsFresh
  <2> QED
    BY <2>2, <2>3
<1>2. PubInv /\ [PubNext]_pubVars => [A]_pubVars
  BY <1>1
<1> QED
  BY <1>2, PubInvariant, PTL DEF PubSpec, FenceIsRespected

\* A closer's decision in the gate file is not revised, and no transaction of
\* the attempt starts, until retire_evidence removes the files.
THEOREM DecisionsAreFinal ==
    ASSUME Faults = {} PROVE PubSpec => DecisionIsFinal
<1> DEFINE Final ==
      \A c \in Claims : decision[c] = "not_started" =>
          /\ decision'[c] \in {"not_started", "none"}
          /\ decision'[c] = "none" => outcome[c] # "open"
          /\ backend'[c] = "none"
<1>1. ASSUME PubInv, PubNext PROVE Final
  <2> SUFFICES ASSUME NEW d \in Claims, decision[d] = "not_started"
               PROVE  /\ decision'[d] \in {"not_started", "none"}
                      /\ decision'[d] = "none" => outcome[d] # "open"
                      /\ backend'[d] = "none"
    OBVIOUS
  <2>1. /\ PubTypeOK /\ backend[d] = "none"
        /\ worker[d] \notin BehindGate
    BY <1>1 DEF PubInv, AttemptInv, GateComesFirst
  <2>2. PICK c \in Claims : \/ WorkerNext(c) \/ kill(c)
                            \/ ServerNext(c) \/ CoordinatorNext(c)
    BY <1>1 DEF PubNext
  <2>3. CASE WorkerNext(c)
    <3>1. decision'[d] = decision[d]
      BY <2>1, <2>3 DEF WorkerNext, register_graph_claim, prepare_stage,
         fail_before_publication, worker_cancelled, read_initial,
         write_decision, execute_final_transaction, final_transaction_fails,
         request_commit, commit_acknowledged, commit_error,
         reconcile_commit_unknown, report_committed, PubTypeOK
    <3>2. backend'[d] = backend[d]
      BY <2>1, <2>3 DEF WorkerNext, register_graph_claim, prepare_stage,
         fail_before_publication, worker_cancelled, read_initial,
         write_decision, execute_final_transaction, final_transaction_fails,
         request_commit, commit_acknowledged, commit_error,
         reconcile_commit_unknown, report_committed, PubTypeOK, BehindGate
    <3> QED
      BY <2>1, <3>1, <3>2
  <2>4. CASE kill(c)
    BY <2>1, <2>4 DEF kill, PubTypeOK
  <2>5. CASE ServerNext(c)
    BY <2>1, <2>5 DEF ServerNext, server_commits, server_aborts, PubTypeOK
  <2>6. CASE CoordinatorNext(c)
    BY <2>1, <2>6 DEF CoordinatorNext, issue_claim, initialize, launch,
       never_launched, install_graph_publication_fence, close_unpublished,
       WriteNotStarted, dispose_unpublished, dispose_published,
       retire_evidence, PubTypeOK
  <2> QED
    BY <2>2, <2>3, <2>4, <2>5, <2>6
<1>2. PubInv /\ [PubNext]_pubVars => [Final]_pubVars
  BY <1>1
<1> QED
  BY <1>2, PubInvariant, PTL DEF PubSpec, DecisionIsFinal

-----------------------------------------------------------------------------
(* What a coordinator may rely on between two of its steps *)

\* A worker that says or knows that it committed has its receipt.
ReceiptBehindReport(c) ==
    worker[c] \in {"committed", "said_committed"} => run[c] = "complete"

\* What an attempt never loses: its epochs, the end of its worker, its receipt,
\* its disposition, the decision of a closer until it is disposed of, and its
\* being stale.
Keeps(c) ==
    /\ Issued(c) => claim'[c] = claim[c]
    /\ worker[c] \in Ended => worker'[c] = worker[c]
    /\ run[c] = "complete" => run'[c] = "complete"
    /\ outcome[c] # "open" => outcome'[c] = outcome[c]
    /\ outcome'[c] = "open" /\ decision[c] = "not_started" =>
          decision'[c] = "not_started"
    /\ Issued(c) /\ Stale(c) => Stale(c)'

\* The action of another attempt touches nothing of this one but the row.
LEMMA OthersKeep ==
    ASSUME PubTypeOK, PubTypeOK', NEW c \in Claims, StepOf(c),
           NEW d \in Claims \ {c}
    PROVE  /\ Keeps(d)
           /\ ReceiptBehindReport(d) => ReceiptBehindReport(d)'
<1>1. /\ claim'[d] = claim[d] /\ decision'[d] = decision[d]
      /\ worker'[d] = worker[d]
      /\ run'[d] = run[d] /\ outcome'[d] = outcome[d]
      /\ ~Less(authority', authority)
  BY DEF StepOf
<1>2. Stale(d) => Stale(d)'
  BY <1>1, StaleForGood
<1> QED
  BY <1>1, <1>2 DEF Keeps, ReceiptBehindReport

\* What the worker, its end and the server leave alone.
LEMMA WorkersKeep ==
    ASSUME PubInv, NEW c \in Claims,
           WorkerNext(c) \/ kill(c) \/ ServerNext(c),
           Faults = {}, ReceiptBehindReport(c)
    PROVE  /\ claim' = claim /\ outcome' = outcome
           /\ worker[c] \in Ended => worker'[c] = worker[c]
           /\ run[c] = "complete" => run'[c] = "complete"
           /\ decision[c] = "not_started" => decision'[c] = "not_started"
           /\ ReceiptBehindReport(c)'
<1>1. PubTypeOK /\ ProgressAgrees(c)
  BY DEF PubInv, AttemptInv
<1> USE <1>1 DEF ReceiptBehindReport, PubTypeOK, ProgressAgrees, FailsWith,
        Ended, BeforeGate, BehindGate, Unsent
<1>2. CASE register_graph_claim(c) \/ prepare_stage(c) \/ read_initial(c)
  BY <1>2 DEF register_graph_claim, prepare_stage, read_initial
<1>3. CASE fail_before_publication(c) \/ worker_cancelled(c)
  BY <1>3 DEF fail_before_publication, worker_cancelled
<1>4. CASE write_decision(c) \/ execute_final_transaction(c)
  BY <1>4 DEF write_decision, execute_final_transaction
<1>5. CASE final_transaction_fails(c) \/ request_commit(c)
  BY <1>5 DEF final_transaction_fails, request_commit
<1>6. CASE commit_acknowledged(c) \/ commit_error(c)
  BY <1>6 DEF commit_acknowledged, commit_error
<1>7. CASE reconcile_commit_unknown(c) \/ report_committed(c)
  BY <1>7 DEF reconcile_commit_unknown, report_committed
<1>8. CASE kill(c) \/ ServerNext(c)
  BY <1>8 DEF kill, ServerNext, server_commits, server_aborts
<1> QED
  BY <1>2, <1>3, <1>4, <1>5, <1>6, <1>7, <1>8 DEF WorkerNext

\* What the coordinators leave alone.
LEMMA CoordinatorsKeep ==
    ASSUME PubInv, NEW c \in Claims, CoordinatorNext(c), ReceiptBehindReport(c)
    PROVE  /\ Issued(c) => claim' = claim
           /\ worker[c] \in Ended => worker'[c] = worker[c]
           /\ run' = run
           /\ outcome[c] # "open" => outcome'[c] = outcome[c]
           /\ outcome'[c] = "open" /\ decision[c] = "not_started" =>
                 decision'[c] = "not_started"
           /\ ReceiptBehindReport(c)'
<1>1. PubTypeOK
  BY DEF PubInv
<1> USE <1>1 DEF ReceiptBehindReport, PubTypeOK, Ended
<1>2. CASE issue_claim(c) \/ initialize(c) \/ launch(c) \/ never_launched(c)
  BY <1>2 DEF issue_claim, initialize, launch, never_launched
<1>3. CASE \E e \in FencingEpochs : install_graph_publication_fence(c, e)
  BY <1>3 DEF install_graph_publication_fence
<1>4. CASE close_unpublished(c) \/ retire_evidence(c)
  BY <1>4 DEF close_unpublished, WriteNotStarted, retire_evidence
<1>5. CASE dispose_unpublished(c) \/ dispose_published(c)
  BY <1>5 DEF dispose_unpublished, dispose_published
<1> QED
  BY <1>2, <1>3, <1>4, <1>5 DEF CoordinatorNext

\* No step of anybody takes from an attempt what it keeps.
LEMMA EvidenceStays ==
    ASSUME PubInv, Faults = {}, [PubNext]_pubVars,
           \A c \in Claims : ReceiptBehindReport(c)
    PROVE  \A c \in Claims : Keeps(c) /\ ReceiptBehindReport(c)'
<1>1. PubTypeOK /\ PubTypeOK'
  BY PubTypeStep DEF PubInv
<1>2. CASE UNCHANGED pubVars
  BY <1>1, <1>2 DEF pubVars, Keeps, ReceiptBehindReport, Stale
<1>3. ASSUME NEW c \in Claims,
             WorkerNext(c) \/ kill(c) \/ ServerNext(c) \/ CoordinatorNext(c),
             NEW d \in Claims
      PROVE  Keeps(d) /\ ReceiptBehindReport(d)'
  <2>1. StepOf(c)
    BY <1>1, <1>3, WorkerStep, RegisterStep, EndStep, CommitStep, LaunchStep,
       IssueStep, FenceStep, CloseStep
       DEF WorkerNext, ServerNext, CoordinatorNext
  <2>2. CASE d # c
    BY <1>1, <2>1, <2>2, OthersKeep
  <2>3. CASE d = c
    <3>1. /\ Issued(c) => claim'[c] = claim[c]
          /\ worker[c] \in Ended => worker'[c] = worker[c]
          /\ run[c] = "complete" => run'[c] = "complete"
          /\ outcome[c] # "open" => outcome'[c] = outcome[c]
          /\ outcome'[c] = "open" /\ decision[c] = "not_started" =>
                decision'[c] = "not_started"
          /\ ReceiptBehindReport(c)'
      BY <1>3, WorkersKeep, CoordinatorsKeep
    <3>2. Issued(c) /\ Stale(c) => Stale(c)'
      BY <1>1, <2>1, <3>1, StaleForGood DEF StepOf
    <3> QED
      BY <2>3, <3>1, <3>2 DEF Keeps
  <2> QED
    BY <2>2, <2>3
<1> QED
  BY <1>2, <1>3 DEF PubNext
=============================================================================
