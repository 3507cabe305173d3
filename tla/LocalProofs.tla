----------------------------- MODULE LocalProofs -----------------------------
(***************************************************************************)
(* Theorems about the SQLite Local store, for any number of processes,     *)
(* temporary files and attempts and whatever fails.                        *)
(***************************************************************************)
EXTENDS LocalRefresh, LocalFiles, LocalBackup, TLAPS

\* Most leaves are first-order and go to Zenon; those with arithmetic cite SMT.
USE Zenon

-----------------------------------------------------------------------------
(* Refreshes and their retained records *)

\* Phases in which the process has an attempt in hand.
InHand == Phases \ {"idle", "reconcile", "capture"}

\* Only the holder of the lock is at work.
HolderWorks == \A p \in Procs : pc[p] # "idle" => lock = p

\* What a phase says about the record in hand and the generation.
PhaseInv(p) ==
    /\ pc[p] \in InHand => job[p] \in Attempts /\ job[p] \notin fresh
    /\ pc[p] = "captured" => rec[job[p]] = "unarmed"
    /\ pc[p] \in {"arming", "armed", "commit_error", "committed"} =>
          rec[job[p]] = "armed"
    /\ pc[p] \in {"armed", "commit_error", "committed"} =>
          durable[job[p]] = {"armed"}
    /\ pc[p] = "abandon" => rec[job[p]] \in {"unarmed", "armed"}
    /\ pc[p] \in {"captured", "arming", "armed", "abandon"} =>
          Generation = exp[job[p]]
    /\ pc[p] = "commit_error" =>
          Generation = exp[job[p]] \/ IsAccepted(job[p])
    /\ pc[p] = "committed" => IsAccepted(job[p])
    /\ pc[p] = "settling" => rec[job[p]] \in Terminal
    /\ pc[p] = "sync_accepted" => rec[job[p]] = "accepted"
    /\ pc[p] = "sync_failed" => rec[job[p]] = "failed"

\* A record goes from unarmed to armed to terminal, and what a power loss may
\* leave is never ahead of it.
RecordInv(a) ==
    /\ rec[a] \in durable[a]
    /\ rec[a] = "unarmed" => durable[a] \subseteq {"none", "unarmed"}
    /\ rec[a] = "armed" => durable[a] \subseteq {"none", "unarmed", "armed"}
    /\ a \in fresh => durable[a] = {"none"}

\* An attempt has one place in every lineage: the one it expected.
PlaceInv ==
    \A b \in backups \cup {hist} : \A i \in DOMAIN b :
        exp[b[i]] + 1 = i /\ b[i] \notin fresh

LocalInv ==
    /\ LocalTypeOK
    /\ HolderWorks
    /\ \A p \in Procs : PhaseInv(p)
    /\ \A a \in Attempts : RecordInv(a)
    /\ PlaceInv

\* Records that are armed or, where records come back, that a power loss could
\* arm again.
Potential(back) ==
    {a \in Attempts : \/ rec[a] = "armed"
                      \/ back /\ "armed" \in durable[a]}

Closing == {"sync_accepted", "sync_failed", "settling"}

DecidableInv(back) ==
    /\ \A a, b \in Potential(back) : a = b
    /\ \A a \in Potential(back) : Generation = exp[a] \/ IsAccepted(a)
    /\ \A a \in Potential(back) \ Armed :
          \E p \in Procs : pc[p] \in Closing /\ job[p] = a
    /\ \A p \in Procs : pc[p] \in {"capture", "captured"} => Potential(back) = {}
    /\ \A p \in Procs : pc[p] \in InHand => Potential(back) \subseteq {job[p]}

-----------------------------------------------------------------------------
(* Facts the steps share *)

\* The phases and the record classes, spelled out.
LEMMA PhaseNames ==
    /\ InHand = {"sync_accepted", "sync_failed", "captured", "arming", "armed",
                 "commit_error", "committed", "abandon", "settling"}
    /\ InHand \subseteq Phases
    /\ Classes = {"none", "unarmed", "armed", "accepted", "failed"}
    /\ Terminal = {"accepted", "failed"}
BY DEF InHand, Phases, Classes, Terminal

\* A process at work is the only one at work.
LEMMA AloneAtWork ==
    ASSUME LocalInv, NEW p \in Procs, pc[p] # "idle"
    PROVE  \A q \in Procs : q # p => pc[q] = "idle"
BY DEF LocalInv, HolderWorks

\* The phase invariant says nothing about an idle process.
LEMMA IdlePhase ==
    ASSUME NEW p, pc[p] = "idle"
    PROVE  PhaseInv(p)
BY PhaseNames DEF PhaseInv

\* A process that is idle after a step asks nothing of the records.
LEMMA IdlePhaseNext ==
    ASSUME NEW p, pc'[p] = "idle"
    PROVE  PhaseInv(p)'
BY PhaseNames DEF PhaseInv

\* A process that leaves is idle, and so is every other one.
LEMMA LeavePhases ==
    ASSUME LocalInv, NEW p \in Procs, pc[p] # "idle", Leave(p)
    PROVE  /\ \A q \in Procs : pc'[q] = "idle"
           /\ HolderWorks'
           /\ \A q \in Procs : PhaseInv(q)'
           /\ lock' \in Procs \cup {NoProc}
           /\ pc' \in [Procs -> Phases]
           /\ job' \in [Procs -> Attempts \cup {NoAttempt}]
<1>1. \A q \in Procs : pc'[q] = "idle"
  BY AloneAtWork DEF Leave, Goto, LocalInv, LocalTypeOK
<1>2. \A q \in Procs : PhaseInv(q)'
  BY <1>1, IdlePhaseNext
<1>3. QED
  BY <1>1, <1>2 DEF HolderWorks, Leave, Goto, LocalInv, LocalTypeOK, Phases

\* A process that goes on keeps the lock, and the others stay idle.
LEMMA GotoPhases ==
    ASSUME LocalInv, NEW p \in Procs, pc[p] # "idle", UNCHANGED lock,
           NEW phase \in Phases, Goto(p, phase), PhaseInv(p)'
    PROVE  /\ HolderWorks'
           /\ \A q \in Procs : PhaseInv(q)'
           /\ lock' \in Procs \cup {NoProc}
           /\ pc' \in [Procs -> Phases]
<1>1. \A q \in Procs : q # p => pc'[q] = "idle"
  BY AloneAtWork DEF Goto, LocalInv, LocalTypeOK
<1>2. \A q \in Procs : PhaseInv(q)'
  BY <1>1, IdlePhaseNext
<1>3. QED
  BY <1>1, <1>2 DEF HolderWorks, Goto, LocalInv, LocalTypeOK

\* Nothing but phases and records changes: the places stay.
LEMMA PlacesKept ==
    ASSUME LocalInv, UNCHANGED <<hist, exp, fresh, backups>>
    PROVE  /\ PlaceInv'
           /\ hist' \in Seq(Attempts)
           /\ exp' \in [Attempts -> Nat]
           /\ fresh' \in SUBSET Attempts
           /\ backups' \in SUBSET Seq(Attempts)
BY DEF LocalInv, PlaceInv, LocalTypeOK

\* An attempt at its expected generation has not been accepted.
LEMMA ExpectedNotAccepted ==
    ASSUME LocalInv, NEW a \in Attempts, Generation = exp[a]
    PROVE  \A i \in DOMAIN hist : hist[i] # a
<1>1. \A i \in DOMAIN hist : i \in Nat /\ i <= Len(hist)
  BY SMT DEF LocalInv, LocalTypeOK
<1>2. \A i \in DOMAIN hist : exp[hist[i]] + 1 = i
  BY DEF LocalInv, PlaceInv
<1>3. QED
  BY SMT, <1>1, <1>2 DEF Generation, LocalInv, LocalTypeOK

\* An attempt whose marker is accepted stands in the lineage.
LEMMA AcceptedIsInLineage ==
    ASSUME LocalInv, NEW a \in Attempts, IsAccepted(a)
    PROVE  \E i \in DOMAIN hist : hist[i] = a
BY SMT DEF IsAccepted, Generation, LocalInv, LocalTypeOK

-----------------------------------------------------------------------------
(* Changes of records *)

RecordsOK ==
    /\ rec \in [Attempts -> Classes]
    /\ durable \in [Attempts -> SUBSET Classes]
    /\ \A a \in Attempts : RecordInv(a)

\* _replace_record: a new class for one attempt keeps the records in order.
LEMMA ReplaceRecords ==
    ASSUME LocalInv, NEW a \in Attempts, a \notin fresh,
           NEW class \in Classes, Replace(a, class), UNCHANGED fresh,
           \/ class = "armed" /\ rec[a] = "unarmed"
           \/ class \in Terminal
    PROVE  RecordsOK'
<1>1. rec' \in [Attempts -> Classes] /\ durable' \in [Attempts -> SUBSET Classes]
  BY DEF Replace, LocalInv, LocalTypeOK
<1>2. RecordInv(a)'
  BY PhaseNames DEF Replace, RecordInv, LocalInv, LocalTypeOK
<1>3. ASSUME NEW b \in Attempts, b # a
      PROVE  RecordInv(b)'
  BY <1>3 DEF Replace, RecordInv, LocalInv, LocalTypeOK
<1>4. QED
  BY <1>1, <1>2, <1>3 DEF RecordsOK

\* A synced record has one version left, the current one.
LEMMA SyncRecords ==
    ASSUME LocalInv, NEW a \in Attempts, a \notin fresh,
           Sync(a), UNCHANGED <<rec, fresh>>
    PROVE  RecordsOK'
<1>1. durable' \in [Attempts -> SUBSET Classes]
  BY DEF Sync, LocalInv, LocalTypeOK
<1>2. RecordInv(a)'
  BY PhaseNames DEF Sync, RecordInv, LocalInv, LocalTypeOK
<1>3. ASSUME NEW b \in Attempts, b # a
      PROVE  RecordInv(b)'
  BY <1>3 DEF Sync, RecordInv, LocalInv, LocalTypeOK
<1>4. QED
  BY <1>1, <1>2, <1>3 DEF RecordsOK, LocalInv, LocalTypeOK

\* marks is durable, or durable with one record synced.
Marks(marks) ==
    /\ marks \in [Attempts -> SUBSET Classes]
    /\ \A a \in Attempts : marks[a] = durable[a] \/ marks[a] = {rec[a]}

\* Settling the unarmed records turns some of them to failed and leaves the rest.
LEMMA SettleUnarmedRecords ==
    ASSUME LocalInv, NEW marks, Marks(marks),
           SettleUnarmed(rec, marks), UNCHANGED fresh
    PROVE  /\ RecordsOK'
           /\ \A a \in Attempts :
                 \/ rec'[a] = rec[a] /\ durable'[a] = marks[a]
                 \/ /\ rec[a] = "unarmed" /\ rec'[a] = "failed"
                    /\ durable'[a] = marks[a] \cup {"failed"}
<1>1. PICK done \in SUBSET Unarmed :
        /\ rec' = [a \in Attempts |->
                     IF a \in done THEN "failed" ELSE rec[a]]
        /\ durable' = [a \in Attempts |->
                         IF a \in done THEN marks[a] \cup {"failed"}
                         ELSE marks[a]]
  BY DEF SettleUnarmed
<1>2. rec' \in [Attempts -> Classes] /\ durable' \in [Attempts -> SUBSET Classes]
  BY <1>1, PhaseNames DEF Marks, LocalInv, LocalTypeOK
<1>3. ASSUME NEW a \in Attempts
      PROVE  /\ RecordInv(a)'
             /\ \/ rec'[a] = rec[a] /\ durable'[a] = marks[a]
                \/ /\ rec[a] = "unarmed" /\ rec'[a] = "failed"
                   /\ durable'[a] = marks[a] \cup {"failed"}
  <2>1. a \in done => rec[a] = "unarmed"
    BY <1>1 DEF Unarmed
  <2>2. a \in done => rec'[a] = "failed" /\ durable'[a] = marks[a] \cup {"failed"}
    BY <1>1
  <2>3. a \notin done => rec'[a] = rec[a] /\ durable'[a] = marks[a]
    BY <1>1
  <2>4. RecordInv(a) /\ (marks[a] = durable[a] \/ marks[a] = {rec[a]})
    BY DEF LocalInv, Marks
  <2>5. rec[a] = "unarmed" => a \notin fresh
    BY <2>4 DEF RecordInv
  <2>6. RecordInv(a)'
    BY <2>1, <2>2, <2>3, <2>4, <2>5 DEF RecordInv
  <2>7. QED
    BY <2>1, <2>2, <2>3, <2>6
<1>4. QED
  BY <1>2, <1>3 DEF RecordsOK

\* Records pruned are terminal, and one fresh attempt may be captured.
LEMMA PruneRecords ==
    ASSUME LocalInv, NEW gone \in SUBSET Expired,
           Prune(gone, rec, durable), UNCHANGED fresh
    PROVE  /\ RecordsOK'
           /\ \A a \in Attempts :
                 \/ rec'[a] = rec[a] /\ durable'[a] = durable[a]
                 \/ /\ rec[a] \in Terminal /\ rec'[a] = "none"
                    /\ durable'[a] = durable[a] \cup {"none"}
<1>1. rec' \in [Attempts -> Classes] /\ durable' \in [Attempts -> SUBSET Classes]
  BY PhaseNames DEF Prune, LocalInv, LocalTypeOK
<1>2. ASSUME NEW a \in Attempts
      PROVE  /\ RecordInv(a)'
             /\ \/ rec'[a] = rec[a] /\ durable'[a] = durable[a]
                \/ /\ rec[a] \in Terminal /\ rec'[a] = "none"
                   /\ durable'[a] = durable[a] \cup {"none"}
  <2>1. RecordInv(a)
    BY DEF LocalInv
  <2>2. a \in gone => /\ rec[a] \in Terminal /\ rec'[a] = "none"
                      /\ durable'[a] = durable[a] \cup {"none"}
    BY DEF Prune, Expired
  <2>3. a \notin gone => rec'[a] = rec[a] /\ durable'[a] = durable[a]
    BY DEF Prune
  <2>4. QED
    BY <2>1, <2>2, <2>3, PhaseNames DEF RecordInv
<1>3. QED
  BY <1>1, <1>2 DEF RecordsOK

\* capture: the new attempt is unarmed, expired terminal records go.
LEMMA CaptureRecords ==
    ASSUME LocalInv, NEW gone \in SUBSET Expired, NEW c \in fresh,
           Prune(gone, [rec EXCEPT ![c] = "unarmed"],
                 [durable EXCEPT ![c] = {"none", "unarmed"}]),
           fresh' = fresh \ {c}
    PROVE  /\ RecordsOK'
           /\ rec'[c] = "unarmed"
           /\ durable'[c] = {"none", "unarmed"}
           /\ \A a \in Attempts : a # c =>
                 \/ rec'[a] = rec[a] /\ durable'[a] = durable[a]
                 \/ /\ rec[a] \in Terminal /\ rec'[a] = "none"
                    /\ durable'[a] = durable[a] \cup {"none"}
<1>0. c \in Attempts /\ c \notin gone
  <2>1. c \in Attempts /\ RecordInv(c)
    BY DEF LocalInv, LocalTypeOK
  <2>2. rec[c] = "none"
    BY <2>1 DEF RecordInv
  <2>3. QED
    BY <2>1, <2>2, PhaseNames DEF Expired
<1>1. rec' \in [Attempts -> Classes] /\ durable' \in [Attempts -> SUBSET Classes]
  BY PhaseNames DEF Prune, LocalInv, LocalTypeOK
<1>2. rec'[c] = "unarmed" /\ durable'[c] = {"none", "unarmed"}
  BY <1>0 DEF Prune, LocalInv, LocalTypeOK
<1>3. ASSUME NEW a \in Attempts, a # c
      PROVE  /\ RecordInv(a)'
             /\ \/ rec'[a] = rec[a] /\ durable'[a] = durable[a]
                \/ /\ rec[a] \in Terminal /\ rec'[a] = "none"
                   /\ durable'[a] = durable[a] \cup {"none"}
  <2>1. RecordInv(a)
    BY DEF LocalInv
  <2>2. a \in gone => /\ rec[a] \in Terminal /\ rec'[a] = "none"
                      /\ durable'[a] = durable[a] \cup {"none"}
    BY <1>3 DEF Prune, Expired, LocalInv, LocalTypeOK
  <2>3. a \notin gone => rec'[a] = rec[a] /\ durable'[a] = durable[a]
    BY <1>3 DEF Prune, LocalInv, LocalTypeOK
  <2>4. QED
    BY <1>3, <2>1, <2>2, <2>3, PhaseNames DEF RecordInv
<1>4. RecordInv(c)'
  BY <1>2 DEF RecordInv
<1>5. QED
  BY <1>1, <1>2, <1>3, <1>4 DEF RecordsOK

\* A power loss leaves each record one of its durable versions.
LEMMA PowerLossRecords ==
    ASSUME LocalInv, PowerLoss
    PROVE  /\ RecordsOK'
           /\ \A a \in Attempts :
                 rec'[a] \in durable[a] /\ durable'[a] = {rec'[a]}
<1>1. /\ rec' \in [Attempts -> Classes]
      /\ \A a \in Attempts : rec'[a] \in durable[a]
      /\ durable' = [a \in Attempts |-> {rec'[a]}]
      /\ fresh' = fresh
  BY DEF PowerLoss
<1>2. ASSUME NEW a \in Attempts
      PROVE  RecordInv(a)'
  <2>1. RecordInv(a)
    BY DEF LocalInv
  <2>2. QED
    BY <1>1, <2>1 DEF RecordInv
<1>3. QED
  BY <1>1, <1>2 DEF RecordsOK

\* Records that stay as they are.
LEMMA RecordsKept ==
    ASSUME LocalInv, UNCHANGED <<rec, durable, fresh>>
    PROVE  RecordsOK'
<1>1. \A a \in Attempts : RecordInv(a)'
  BY DEF LocalInv, RecordInv
<1>2. QED
  BY <1>1 DEF RecordsOK, LocalInv, LocalTypeOK

-----------------------------------------------------------------------------
(* Every step keeps the invariant *)

\* What a step leaves of the processes.
Kept ==
    /\ HolderWorks' /\ \A p \in Procs : PhaseInv(p)'
    /\ lock' \in Procs \cup {NoProc} /\ pc' \in [Procs -> Phases]
    /\ job' \in [Procs -> Attempts \cup {NoAttempt}]

\* What a step has to re-establish for the invariant to hold after it.
LEMMA LocalInvNext ==
    ASSUME Kept, RecordsOK', PlaceInv',
           hist' \in Seq(Attempts), exp' \in [Attempts -> Nat],
           fresh' \in SUBSET Attempts, backups' \in SUBSET Seq(Attempts)
    PROVE  LocalInv'
BY DEF Kept, LocalInv, LocalTypeOK, RecordsOK

\* A process that leaves, whatever it did to the records.
LEMMA LeaveStep ==
    ASSUME LocalInv, NEW p \in Procs, pc[p] # "idle", Leave(p), RecordsOK',
           UNCHANGED <<hist, exp, fresh, backups>>
    PROVE  LocalInv'
<1>1. Kept
  BY LeavePhases DEF Kept
<1>2. QED
  BY <1>1, PlacesKept, LocalInvNext

\* A process that goes on with the attempt it has.
LEMMA GotoStep ==
    ASSUME LocalInv, NEW p \in Procs, pc[p] # "idle",
           NEW phase \in Phases, Goto(p, phase), PhaseInv(p)', RecordsOK',
           job' \in [Procs -> Attempts \cup {NoAttempt}],
           UNCHANGED <<lock, hist, exp, fresh, backups>>
    PROVE  LocalInv'
<1>1. Kept
  BY GotoPhases DEF Kept
<1>2. QED
  BY <1>1, PlacesKept, LocalInvNext

\* Refusals, failures without a trace and crashes.
LEMMA QuitSteps ==
    ASSUME LocalInv, NEW p \in Procs, pc[p] # "idle", Leave(p),
           UNCHANGED <<hist, rec, durable, exp, fresh, backups>>
    PROVE  LocalInv'
BY RecordsKept, LeaveStep

\* Taking the publisher lock keeps the invariant.
LEMMA EnterStep ==
    ASSUME LocalInv, NEW p \in Procs, Enter(p)
    PROVE  LocalInv'
<1>1. \A q \in Procs : pc[q] = "idle"
  BY NoProcAssumption DEF Enter, LocalInv, HolderWorks
<1>2. \A q \in Procs : pc'[q] = IF q = p THEN "reconcile" ELSE "idle"
  BY <1>1 DEF Enter, Goto, LocalInv, LocalTypeOK
<1>3. \A q \in Procs : PhaseInv(q)'
  BY <1>2, PhaseNames DEF PhaseInv
<1>4. Kept
  BY <1>2, <1>3 DEF Kept, HolderWorks, Enter, Goto, LocalInv, LocalTypeOK, Phases
<1>5. QED
  BY <1>4, RecordsKept, PlacesKept, LocalInvNext DEF Enter

\* The reconciliation of earlier attempts keeps the invariant.
LEMMA ReconcileSteps ==
    ASSUME LocalInv, NEW p \in Procs,
           NothingArmed(p) \/ SettleArmed(p) \/ SettledArmed(p)
    PROVE  LocalInv'
<1>1. CASE NothingArmed(p)
  <2>1. Marks(durable)
    BY DEF Marks, LocalInv, LocalTypeOK
  <2>2. RecordsOK'
    BY <1>1, <2>1, SettleUnarmedRecords DEF NothingArmed
  <2>3. pc'[p] = "capture"
    BY <1>1 DEF NothingArmed, Goto, LocalInv, LocalTypeOK
  <2>4. PhaseInv(p)'
    BY <2>3, PhaseNames DEF PhaseInv
  <2>5. QED
    BY Zenon, <1>1, <2>2, <2>4, GotoStep DEF NothingArmed, Phases, LocalInv, LocalTypeOK
<1>2. CASE SettleArmed(p)
  <2>1. PICK a \in Attempts :
          /\ Armed = {a}
          /\ Verdict(a) # "none"
          /\ Replace(a, Verdict(a))
          /\ job' = [job EXCEPT ![p] = a]
          /\ Goto(p, IF Verdict(a) = "accepted" THEN "sync_accepted"
                     ELSE "sync_failed")
    BY Zenon, <1>2 DEF SettleArmed
  <2>2. /\ pc[p] = "reconcile"
        /\ UNCHANGED <<lock, hist, exp, fresh, backups>>
    BY <1>2 DEF SettleArmed
  <2>3. rec[a] = "armed" /\ a \notin fresh
    BY <2>1, PhaseNames DEF Armed, LocalInv, RecordInv
  <2>4. Verdict(a) \in Terminal
    BY <2>1 DEF Verdict, Terminal
  <2>5. RecordsOK'
    BY <2>1, <2>2, <2>3, <2>4, PhaseNames, ReplaceRecords
  <2>6. job'[p] = a /\ rec'[a] = Verdict(a)
    BY <2>1 DEF Replace, LocalInv, LocalTypeOK
  <2>7. pc'[p] = IF Verdict(a) = "accepted" THEN "sync_accepted" ELSE "sync_failed"
    BY <2>1 DEF Goto, LocalInv, LocalTypeOK
  <2>8. PhaseInv(p)'
    BY <2>2, <2>3, <2>4, <2>6, <2>7, PhaseNames DEF PhaseInv
  <2>9. job' \in [Procs -> Attempts \cup {NoAttempt}]
    BY <2>1 DEF LocalInv, LocalTypeOK
  <2>10. QED
    BY <2>1, <2>2, <2>5, <2>8, <2>9, GotoStep DEF Phases
<1>3. CASE SettledArmed(p)
  <2> DEFINE marks == [durable EXCEPT ![job[p]] = {rec[job[p]]}]
  <2>0. job[p] \in Attempts
    BY <1>3, PhaseNames DEF SettledArmed, LocalInv, PhaseInv
  <2>1. Marks(marks)
    <3>1. /\ durable \in [Attempts -> SUBSET Classes]
          /\ {rec[job[p]]} \in SUBSET Classes
      BY <2>0 DEF LocalInv, LocalTypeOK
    <3>2. QED
      BY <2>0, <3>1 DEF Marks
  <2>2. /\ pc[p] \in {"sync_accepted", "sync_failed"}
        /\ UNCHANGED <<hist, exp, fresh, backups>>
        /\ SettleUnarmed(rec, marks)
    BY <1>3 DEF SettledArmed
  <2> HIDE DEF marks
  <2>3. RecordsOK'
    BY <2>1, <2>2, SettleUnarmedRecords
  <2>4. CASE Leave(p)
    BY <2>2, <2>3, <2>4, LeaveStep
  <2>5. CASE Goto(p, "capture") /\ job' = [job EXCEPT ![p] = NoAttempt] /\ UNCHANGED lock
    <3>1. pc'[p] = "capture"
      BY <2>5 DEF Goto, LocalInv, LocalTypeOK
    <3>2. PhaseInv(p)'
      BY <3>1, PhaseNames DEF PhaseInv
    <3>3. job' \in [Procs -> Attempts \cup {NoAttempt}]
      BY <2>5 DEF LocalInv, LocalTypeOK
    <3>4. QED
      BY <2>2, <2>3, <2>5, <3>2, <3>3, GotoStep DEF Phases
  <2>6. QED
    BY <1>3, <2>4, <2>5 DEF SettledArmed
<1>4. QED
  BY <1>1, <1>2, <1>3

\* Capturing an attempt keeps the invariant.
LEMMA CaptureStep ==
    ASSUME LocalInv, NEW p \in Procs, Capture(p)
    PROVE  LocalInv'
<1>1. PICK c \in fresh, gone \in SUBSET Expired :
        /\ Prune(gone, [rec EXCEPT ![c] = "unarmed"],
                 [durable EXCEPT ![c] = {"none", "unarmed"}])
        /\ exp' = [exp EXCEPT ![c] = Expected]
        /\ job' = [job EXCEPT ![p] = c]
        /\ fresh' = fresh \ {c}
  BY Zenon DEF Capture
<1>2. /\ pc[p] = "capture"
      /\ Goto(p, "captured")
      /\ UNCHANGED <<lock, hist, backups>>
  BY DEF Capture
<1>3. RecordsOK' /\ rec'[c] = "unarmed"
  BY <1>1, CaptureRecords
<1>4. c \in Attempts /\ c \notin fresh' /\ fresh' \in SUBSET Attempts
  BY <1>1 DEF LocalInv, LocalTypeOK
<1>5. Generation \in Nat /\ exp'[c] = Generation /\ exp' \in [Attempts -> Nat]
  BY SMT, <1>1, <1>4 DEF Generation, Expected, LocalInv, LocalTypeOK
<1>6. job'[p] = c /\ pc'[p] = "captured" /\ Generation' = Generation
  BY <1>1, <1>2 DEF Goto, Generation, LocalInv, LocalTypeOK
<1>7. PhaseInv(p)'
  BY <1>3, <1>4, <1>5, <1>6, PhaseNames DEF PhaseInv
<1>8. job' \in [Procs -> Attempts \cup {NoAttempt}]
  BY <1>1, <1>4 DEF LocalInv, LocalTypeOK
<1>9. PlaceInv'
  <2>0. \A b \in backups \cup {hist} : \A i \in DOMAIN b : b[i] \notin fresh
    BY DEF LocalInv, PlaceInv
  <2>1. \A b \in backups \cup {hist} : \A i \in DOMAIN b :
           b[i] # c /\ b[i] \in Attempts /\ b[i] \notin fresh'
    <3>1. ASSUME NEW b \in backups \cup {hist}, NEW i \in DOMAIN b
          PROVE  b[i] \in Attempts
      <4>1. b \in Seq(Attempts)
        BY DEF LocalInv, LocalTypeOK
      <4>2. QED
        BY SMT, <4>1
    <3>2. QED
      BY <1>1, <2>0, <3>1
  <2>2. \A b \in backups \cup {hist} : \A i \in DOMAIN b :
           exp'[b[i]] = exp[b[i]]
    BY <1>1, <2>1 DEF LocalInv, LocalTypeOK
  <2>3. QED
    BY ZenonT(40), <1>2, <2>1, <2>2 DEF LocalInv, PlaceInv
<1>10. Kept
  BY <1>2, <1>7, <1>8, GotoPhases DEF Kept, Phases
<1>11. QED
  BY <1>2, <1>3, <1>4, <1>5, <1>9, <1>10, LocalInvNext DEF LocalInv, LocalTypeOK

\* Arming an attempt, or failing to, keeps the invariant.
LEMMA ArmingSteps ==
    ASSUME LocalInv, NEW p \in Procs,
           \/ CaptureFails(p) \/ Invalid(p)
           \/ Arm(p) \/ ArmSynced(p) \/ ArmFails(p)
    PROVE  LocalInv'
<1>0. PhaseInv(p) /\ RecordsOK
  BY DEF LocalInv, RecordsOK, LocalTypeOK
<1>1. CASE CaptureFails(p)
  BY <1>1, PruneRecords, LeaveStep DEF CaptureFails
<1>2. CASE Invalid(p)
  <2>1. job[p] \in Attempts /\ job[p] \notin fresh
    BY <1>0, <1>2, PhaseNames DEF PhaseInv, Invalid
  <2>2. RecordsOK'
    BY <1>2, <2>1, RecordsKept, ReplaceRecords, PhaseNames DEF Invalid
  <2>3. QED
    BY <1>2, <2>2, LeaveStep DEF Invalid
<1>3. CASE Arm(p)
  <2>1. job[p] \in Attempts /\ job[p] \notin fresh /\ rec[job[p]] = "unarmed"
    BY <1>0, <1>3, PhaseNames DEF PhaseInv, Arm
  <2>2. RecordsOK'
    BY <1>3, <2>1, ReplaceRecords, PhaseNames DEF Arm
  <2>3. pc'[p] = "arming" /\ rec'[job[p]] = "armed"
    BY <1>3, <2>1 DEF Arm, Replace, Goto, LocalInv, LocalTypeOK
  <2>4. PhaseInv(p)'
    BY <1>0, <1>3, <2>1, <2>3, PhaseNames DEF PhaseInv, Arm, Generation
  <2>5. QED
    BY <1>3, <2>2, <2>4, GotoStep DEF Arm, Phases, LocalInv, LocalTypeOK
<1>4. CASE ArmSynced(p)
  <2>1. job[p] \in Attempts /\ job[p] \notin fresh /\ rec[job[p]] = "armed"
    BY <1>0, <1>4, PhaseNames DEF PhaseInv, ArmSynced
  <2>2. RecordsOK'
    BY <1>4, <2>1, SyncRecords DEF ArmSynced
  <2>3. pc'[p] = "armed" /\ durable'[job[p]] = {"armed"}
    BY <1>4, <2>1 DEF ArmSynced, Sync, Goto, LocalInv, LocalTypeOK
  <2>4. PhaseInv(p)'
    BY <1>0, <1>4, <2>1, <2>3, PhaseNames DEF PhaseInv, ArmSynced, Generation
  <2>5. QED
    BY <1>4, <2>2, <2>4, GotoStep DEF ArmSynced, Phases, LocalInv, LocalTypeOK
<1>5. CASE ArmFails(p)
  <2>1. pc'[p] = "abandon"
    BY <1>5 DEF ArmFails, Goto, LocalInv, LocalTypeOK
  <2>2. PhaseInv(p)'
    BY <1>0, <1>5, <2>1, PhaseNames DEF PhaseInv, ArmFails, Generation
  <2>3. QED
    BY <1>5, <2>2, RecordsKept, GotoStep DEF ArmFails, Phases, LocalInv, LocalTypeOK
<1>6. QED
  BY <1>1, <1>2, <1>3, <1>4, <1>5

\* The lineage with one more attempt at its end.
LEMMA AppendFacts ==
    ASSUME LocalInv, NEW a \in Attempts
    PROVE  /\ Append(hist, a) \in Seq(Attempts)
           /\ Len(Append(hist, a)) = Generation + 1
           /\ Append(hist, a)[Generation + 1] = a
           /\ \A i \in DOMAIN hist : /\ i \in DOMAIN Append(hist, a)
                                     /\ Append(hist, a)[i] = hist[i]
           /\ \A i \in DOMAIN Append(hist, a) :
                 i \in DOMAIN hist \/ i = Generation + 1
           /\ Generation \in Nat
<1>1. hist \in Seq(Attempts) /\ Generation = Len(hist)
  BY DEF Generation, LocalInv, LocalTypeOK
<1>2. Generation \in Nat /\ DOMAIN hist = 1 .. Generation
  BY SMT, <1>1
<1>3. Append(hist, a) \in Seq(Attempts) /\ Len(Append(hist, a)) = Generation + 1
  BY SMT, <1>1
<1>4. DOMAIN Append(hist, a) = 1 .. Generation + 1
  BY SMT, <1>3
<1>5. \A i \in 1 .. Generation : Append(hist, a)[i] = hist[i]
  BY SMT, <1>1
<1>6. Append(hist, a)[Generation + 1] = a
  BY SMT, <1>1
<1> DEFINE new == Append(hist, a)
<1>7. /\ new \in Seq(Attempts) /\ Len(new) = Generation + 1 /\ new[Generation + 1] = a
      /\ DOMAIN new = 1 .. Generation + 1 /\ \A i \in 1 .. Generation : new[i] = hist[i]
  BY <1>3, <1>4, <1>5, <1>6
<1> HIDE DEF new
<1>8. /\ \A i \in 1 .. Generation : i \in 1 .. Generation + 1
      /\ \A i \in 1 .. Generation + 1 : i \in 1 .. Generation \/ i = Generation + 1
  BY SMT, <1>2
<1>9. /\ \A i \in DOMAIN hist : i \in DOMAIN new /\ new[i] = hist[i]
      /\ \A i \in DOMAIN new : i \in DOMAIN hist \/ i = Generation + 1
  BY <1>2, <1>7, <1>8
<1> QED
  BY <1>2, <1>7, <1>9 DEF new

\* A publication takes the place its attempt expected.
LEMMA AppendPlaces ==
    ASSUME LocalInv, NEW a \in Attempts, a \notin fresh,
           Generation = exp[a], hist' = Append(hist, a),
           UNCHANGED <<exp, fresh, backups>>
    PROVE  /\ PlaceInv'
           /\ hist' \in Seq(Attempts)
           /\ IsAccepted(a)'
<1>1. \A i \in DOMAIN hist' : exp[hist'[i]] + 1 = i /\ hist'[i] \notin fresh
  BY SMT, AppendFacts DEF LocalInv, PlaceInv
<1>2. PlaceInv'
  BY <1>1 DEF LocalInv, PlaceInv
<1>3. QED
  BY <1>2, AppendFacts DEF IsAccepted, Generation

\* The commit of a publication and what follows it keep the invariant.
LEMMA PublishSteps ==
    ASSUME LocalInv, NEW p \in Procs,
           \/ NotCommitted(p) \/ Commit(p) \/ CommitRaises(p)
           \/ Confirmed(p)
    PROVE  LocalInv'
<1>0. PhaseInv(p) /\ job \in [Procs -> Attempts \cup {NoAttempt}]
  BY DEF LocalInv, LocalTypeOK
<1>1. CASE NotCommitted(p)
  <2>1. pc'[p] = "abandon"
    BY <1>1 DEF NotCommitted, Goto, LocalInv, LocalTypeOK
  <2>2. PhaseInv(p)'
    BY <1>0, <1>1, <2>1, PhaseNames DEF PhaseInv, NotCommitted, Generation
  <2>3. QED
    BY <1>0, <1>1, <2>2, RecordsKept, GotoStep DEF NotCommitted, Phases
<1>2. CASE Confirmed(p)
  <2>1. pc'[p] = "committed"
    BY <1>2 DEF Confirmed, Goto, LocalInv, LocalTypeOK
  <2>2. IsAccepted(job[p])' /\ job' = job
    BY <1>2 DEF Confirmed, IsAccepted, Generation
  <2>3. PhaseInv(p)'
    BY <1>0, <1>2, <2>1, <2>2, PhaseNames DEF PhaseInv, Confirmed
  <2>4. QED
    BY <1>0, <1>2, <2>3, RecordsKept, GotoStep DEF Confirmed, Phases
<1>3. CASE /\ pc[p] = "armed"
           /\ Generation = exp[job[p]]
           /\ \/ hist' = Append(hist, job[p]) /\ pc'[p] = "committed"
              \/ hist' \in {hist, Append(hist, job[p])} /\ pc'[p] = "commit_error"
           /\ Goto(p, pc'[p])
           /\ UNCHANGED <<lock, job, rec, durable, exp, fresh, backups>>
  <2>1. job[p] \in Attempts /\ job[p] \notin fresh
    BY <1>0, <1>3, PhaseNames DEF PhaseInv
  <2>2. /\ PlaceInv' /\ hist' \in Seq(Attempts)
        /\ \/ IsAccepted(job[p])'
           \/ hist' = hist /\ pc'[p] = "commit_error"
    <3>1. CASE hist' = Append(hist, job[p])
      BY <1>3, <2>1, <3>1, AppendPlaces
    <3>2. CASE hist' = hist /\ pc'[p] = "commit_error"
      BY <1>3, <3>2, PlacesKept
    <3>3. QED
      BY <1>3, <3>1, <3>2
  <2>3. pc'[p] \in {"committed", "commit_error"}
    BY <1>3
  <2>4. hist' = hist => (Generation = exp[job[p]])'
    BY <1>3 DEF Generation
  <2>5. PhaseInv(p)'
    BY <1>0, <1>3, <2>1, <2>2, <2>3, <2>4, PhaseNames DEF PhaseInv
  <2>6. Kept
    <3>1. pc'[p] \in Phases
      BY <2>3 DEF Phases
    <3>2. QED
      BY <1>0, <1>3, <2>5, <3>1, GotoPhases DEF Kept
  <2>7. QED
    BY <1>3, <2>2, <2>6, RecordsKept, LocalInvNext DEF LocalInv, LocalTypeOK
<1>4. CASE Commit(p)
  <2>1. pc'[p] = "committed"
    BY <1>4 DEF Commit, Goto, LocalInv, LocalTypeOK
  <2>2. QED
    BY <1>3, <1>4, <2>1 DEF Commit
<1>5. CASE CommitRaises(p)
  <2>1. pc'[p] = "commit_error"
    BY <1>5 DEF CommitRaises, Goto, LocalInv, LocalTypeOK
  <2>2. QED
    BY <1>3, <1>5, <2>1 DEF CommitRaises
<1>6. QED
  BY <1>1, <1>2, <1>4, <1>5

\* The owner settling its own attempt keeps the invariant.
LEMMA SettleSteps ==
    ASSUME LocalInv, NEW p \in Procs, SettleOwn(p) \/ SettledOwn(p)
    PROVE  LocalInv'
<1>0. PhaseInv(p) /\ job \in [Procs -> Attempts \cup {NoAttempt}]
  BY DEF LocalInv, LocalTypeOK
<1>1. CASE SettleOwn(p)
  <2>1. job[p] \in Attempts /\ job[p] \notin fresh
    BY <1>0, <1>1, PhaseNames DEF PhaseInv, SettleOwn
  <2>2. PICK class \in Terminal : Replace(job[p], class)
    BY <1>1 DEF SettleOwn, Terminal
  <2>3. RecordsOK'
    BY <1>1, <2>1, <2>2, ReplaceRecords, PhaseNames DEF SettleOwn
  <2>4. pc'[p] = "settling" /\ rec'[job[p]] = class
    BY <1>1, <2>1, <2>2 DEF SettleOwn, Replace, Goto, LocalInv, LocalTypeOK
  <2>5. PhaseInv(p)'
    BY <1>1, <2>1, <2>2, <2>4, PhaseNames DEF PhaseInv, SettleOwn
  <2>6. QED
    BY <1>0, <1>1, <2>3, <2>5, GotoStep DEF SettleOwn, Phases
<1>2. CASE SettledOwn(p)
  <2>1. job[p] \in Attempts /\ job[p] \notin fresh
    BY <1>0, <1>2, PhaseNames DEF PhaseInv, SettledOwn
  <2>2. QED
    BY <1>2, <2>1, SyncRecords, LeaveStep DEF SettledOwn
<1>3. QED
  BY <1>1, <1>2

\* Operators and the environment, between refreshes.
LEMMA OutsideSteps ==
    ASSUME LocalInv,
           \/ \E p \in Procs : CleanupAttempts(p) \/ Backup(p) \/ Restore(p)
           \/ PowerLoss
    PROVE  LocalInv'
<1>1. ASSUME NEW p \in Procs, CleanupAttempts(p)
      PROVE  LocalInv'
  <2>1. \A q \in Procs : pc'[q] = "idle"
    BY <1>1, NoProcAssumption DEF CleanupAttempts, LocalInv, HolderWorks
  <2>2. Kept
    BY <1>1, <2>1, IdlePhaseNext DEF Kept, CleanupAttempts, HolderWorks, LocalInv, LocalTypeOK
  <2>3. QED
    BY <1>1, <2>2, PruneRecords, PlacesKept, LocalInvNext DEF CleanupAttempts
<1>2. ASSUME NEW p \in Procs, Backup(p) \/ Restore(p)
      PROVE  LocalInv'
  <2>1. \A q \in Procs : pc'[q] = "idle"
    BY <1>2, NoProcAssumption DEF Backup, Restore, LocalInv, HolderWorks
  <2>2. Kept
    BY <1>2, <2>1, IdlePhaseNext DEF Kept, Backup, Restore, HolderWorks, LocalInv, LocalTypeOK
  <2>3. RecordsOK'
    BY <1>2, RecordsKept DEF Backup, Restore
  <2>4. /\ backups' \cup {hist'} \subseteq backups \cup {hist}
        /\ UNCHANGED <<exp, fresh>>
    BY <1>2 DEF Backup, Restore
  <2>5. PlaceInv'
    BY <2>4 DEF LocalInv, PlaceInv
  <2>6. QED
    BY <2>2, <2>3, <2>4, <2>5, LocalInvNext DEF LocalInv, LocalTypeOK
<1>3. CASE PowerLoss
  <2>1. \A q \in Procs : pc'[q] = "idle"
    BY <1>3 DEF PowerLoss
  <2>2. Kept
    BY <1>3, <2>1, IdlePhaseNext DEF Kept, PowerLoss, HolderWorks, Phases
  <2>3. QED
    BY <1>3, <2>2, PowerLossRecords, PlacesKept, LocalInvNext DEF PowerLoss
<1>4. QED
  BY <1>1, <1>2, <1>3

\* The invariant of the refresh protocol holds of every behaviour.
LEMMA LocalInvHolds == LocalSpec => []LocalInv
<1>1. LocalInit => LocalInv
  <2> SUFFICES ASSUME LocalInit PROVE LocalInv
    OBVIOUS
  <2>1. LocalTypeOK
    BY SMT DEF LocalInit, LocalTypeOK, Phases, Classes
  <2>2. HolderWorks /\ \A p \in Procs : PhaseInv(p)
    BY IdlePhase DEF LocalInit, HolderWorks
  <2>3. \A a \in Attempts : RecordInv(a)
    BY DEF LocalInit, RecordInv
  <2>4. PlaceInv
    BY SMT DEF LocalInit, PlaceInv
  <2>5. QED
    BY <2>1, <2>2, <2>3, <2>4 DEF LocalInv
<1>2. LocalInv /\ [LocalNext]_localVars => LocalInv'
  <2> SUFFICES ASSUME LocalInv, [LocalNext]_localVars PROVE LocalInv'
    OBVIOUS
  <2>1. CASE UNCHANGED localVars
    <3>1. \A p \in Procs : PhaseInv(p)'
      BY <2>1 DEF localVars, LocalInv, PhaseInv, Generation, IsAccepted
    <3>2. QED
      BY <2>1, <3>1, RecordsKept, PlacesKept, LocalInvNext
         DEF localVars, LocalInv, Kept, HolderWorks, LocalTypeOK
  <2>2. ASSUME NEW p \in Procs,
               \/ ReconciliationRequired(p) \/ SettleNotSynced(p)
               \/ CommitUnknown(p) \/ SettleOwnFails(p) \/ Crash(p)
        PROVE  LocalInv'
    <3>1. /\ pc[p] # "idle" /\ Leave(p)
          /\ UNCHANGED <<hist, rec, durable, exp, fresh, backups>>
      BY <2>2 DEF ReconciliationRequired, SettleNotSynced, CommitUnknown,
                  SettleOwnFails, Crash
    <3>2. QED
      BY <3>1, QuitSteps
  <2>3. QED
    BY <2>1, <2>2, EnterStep, ReconcileSteps, CaptureStep, ArmingSteps,
       PublishSteps, SettleSteps, OutsideSteps DEF LocalNext
<1>3. QED
  BY <1>1, <1>2, PTL DEF LocalSpec

-----------------------------------------------------------------------------
(* The theorems *)

\* The variables of refresh_local_graph keep their types.
THEOREM LocalTypeCorrect == LocalSpec => []LocalTypeOK
<1>1. LocalInv => LocalTypeOK
  BY DEF LocalInv
<1>2. QED
  BY <1>1, LocalInvHolds, PTL

\* Reconciliation settles an armed record by what the lineage in place holds,
\* in every mix of crashes, power loss, failed calls and restored backups.
THEOREM LocalSettlesTruly == LocalSpec => SettlesTruly
<1> DEFINE Truly ==
      \A a \in Attempts :
          rec[a] = "armed" /\ rec'[a] \in Terminal =>
              (rec'[a] = "accepted" <=> \E i \in DOMAIN hist : hist[i] = a)
<1>1. LocalInv /\ [LocalNext]_localVars => [Truly]_localVars
  <2> SUFFICES ASSUME LocalInv, [LocalNext]_localVars,
                      NEW a \in Attempts, rec[a] = "armed", rec'[a] \in Terminal
               PROVE  rec'[a] = "accepted" <=> \E i \in DOMAIN hist : hist[i] = a
    OBVIOUS
  <2>0. rec'[a] # rec[a]
    BY PhaseNames
  <2>1. ASSUME NEW p \in Procs, SettleArmed(p)
        PROVE  rec'[a] = "accepted" <=> \E i \in DOMAIN hist : hist[i] = a
    <3>1. PICK b \in Attempts :
            Armed = {b} /\ Verdict(b) # "none" /\ Replace(b, Verdict(b))
      BY <2>1 DEF SettleArmed
    <3>2. a = b /\ rec'[a] = Verdict(a)
      BY <3>1 DEF Armed, Replace, LocalInv, LocalTypeOK
    <3>3. CASE IsAccepted(a)
      BY <3>2, <3>3, AcceptedIsInLineage DEF Verdict
    <3>4. CASE ~IsAccepted(a) /\ Generation = exp[a]
      BY <3>2, <3>4, ExpectedNotAccepted DEF Verdict
    <3>5. QED
      BY <3>1, <3>2, <3>3, <3>4 DEF Verdict
  <2>2. ASSUME NEW p \in Procs, SettleOwn(p)
        PROVE  rec'[a] = "accepted" <=> \E i \in DOMAIN hist : hist[i] = a
    <3>1. PhaseInv(p) /\ job[p] = a
      BY <2>0, <2>2 DEF SettleOwn, Replace, LocalInv, LocalTypeOK
    <3>2. rec'[a] = IF pc[p] = "committed" THEN "accepted" ELSE "failed"
      BY <2>2, <3>1 DEF SettleOwn, Replace, LocalInv, LocalTypeOK
    <3>3. CASE pc[p] = "committed"
      BY <3>1, <3>2, <3>3, AcceptedIsInLineage DEF PhaseInv
    <3>4. CASE pc[p] = "abandon"
      BY <3>1, <3>2, <3>4, ExpectedNotAccepted DEF PhaseInv
    <3>5. QED
      BY <2>2, <3>3, <3>4 DEF SettleOwn
  <2>3. ASSUME NEW p \in Procs, NothingArmed(p)
        PROVE  FALSE
    <3>1. Marks(durable)
      BY DEF Marks, LocalInv, LocalTypeOK
    <3>2. QED
      BY <2>0, <2>3, <3>1, SettleUnarmedRecords DEF NothingArmed
  <2>4. ASSUME NEW p \in Procs, SettledArmed(p)
        PROVE  FALSE
    <3>1. PICK done \in SUBSET Unarmed :
            rec' = [b \in Attempts |-> IF b \in done THEN "failed" ELSE rec[b]]
      BY <2>4 DEF SettledArmed, SettleUnarmed
    <3>2. QED
      BY <2>0, <3>1 DEF Unarmed
  <2>5. ASSUME NEW p \in Procs, Capture(p)
        PROVE  FALSE
    <3>1. PICK c \in fresh, gone \in SUBSET Expired :
            /\ Prune(gone, [rec EXCEPT ![c] = "unarmed"],
                     [durable EXCEPT ![c] = {"none", "unarmed"}])
            /\ fresh' = fresh \ {c}
      BY Zenon, <2>5 DEF Capture
    <3>2. a # c => \/ rec'[a] = rec[a]
                   \/ rec[a] \in Terminal /\ rec'[a] = "none"
      BY <3>1, CaptureRecords
    <3>3. rec'[c] = "unarmed"
      BY <3>1, CaptureRecords
    <3>4. QED
      BY <2>0, <3>2, <3>3, PhaseNames
  <2>6. ASSUME NEW p \in Procs, CaptureFails(p) \/ CleanupAttempts(p)
        PROVE  FALSE
    <3>1. PICK gone \in SUBSET Expired :
            Prune(gone, rec, durable) /\ UNCHANGED fresh
      BY <2>6 DEF CaptureFails, CleanupAttempts
    <3>2. QED
      BY <2>0, <3>1, PruneRecords, PhaseNames
  <2>7. ASSUME NEW p \in Procs, Invalid(p) \/ Arm(p)
        PROVE  FALSE
    <3>1. PhaseInv(p) /\ rec[job[p]] = "unarmed"
      BY <2>7 DEF Invalid, Arm, LocalInv, PhaseInv
    <3>2. a # job[p]
      BY <3>1
    <3>3. QED
      BY <2>0, <2>7, <3>2 DEF Invalid, Arm, Replace, LocalInv, LocalTypeOK
  <2>8. ASSUME PowerLoss
        PROVE  FALSE
    <3>1. rec'[a] \in durable[a] /\ RecordInv(a)
      BY <2>8, PowerLossRecords DEF LocalInv
    <3>2. QED
      BY <3>1, PhaseNames DEF RecordInv
  <2>9. ASSUME NEW p \in Procs,
               \/ Enter(p) \/ ReconciliationRequired(p) \/ SettleNotSynced(p)
               \/ ArmSynced(p) \/ ArmFails(p) \/ NotCommitted(p)
               \/ Commit(p) \/ CommitRaises(p) \/ Confirmed(p)
               \/ CommitUnknown(p) \/ SettleOwnFails(p) \/ SettledOwn(p)
               \/ Backup(p) \/ Restore(p) \/ Crash(p)
        PROVE  FALSE
    BY <2>0, <2>9
       DEF Enter, ReconciliationRequired, SettleNotSynced, ArmSynced, ArmFails,
           NotCommitted, Commit, CommitRaises, Confirmed, CommitUnknown,
           SettleOwnFails, SettledOwn, Backup, Restore, Crash
  <2>10. CASE UNCHANGED localVars
    BY <2>0, <2>10 DEF localVars
  <2>11. QED
    BY <2>1, <2>2, <2>3, <2>4, <2>5, <2>6, <2>7, <2>8, <2>9, <2>10 DEF LocalNext
<1>2. QED
  BY <1>1, LocalInvHolds, PTL DEF LocalSpec, SettlesTruly

\* The database moves only behind a durable armed record, by the holder of the
\* lock and to the next generation.
THEOREM LocalCommitsBehindDurableRecord ==
    LocalSpec => CommitsBehindDurableRecord
<1> DEFINE Behind ==
      hist' # hist /\ hist' \notin backups =>
          \E p \in Procs :
              /\ lock = p
              /\ hist' = Append(hist, job[p])
              /\ durable[job[p]] = {"armed"}
<1>1. LocalInv /\ [LocalNext]_localVars => [Behind]_localVars
  <2> SUFFICES ASSUME LocalInv, [LocalNext]_localVars,
                      hist' # hist, hist' \notin backups
               PROVE  \E p \in Procs :
                        /\ lock = p
                        /\ hist' = Append(hist, job[p])
                        /\ durable[job[p]] = {"armed"}
    OBVIOUS
  <2>1. ASSUME NEW p \in Procs, Commit(p) \/ CommitRaises(p)
        PROVE  lock = p /\ hist' = Append(hist, job[p]) /\ durable[job[p]] = {"armed"}
    <3>1. pc[p] = "armed" /\ hist' = Append(hist, job[p])
      BY <2>1 DEF Commit, CommitRaises
    <3>2. QED
      BY <3>1 DEF LocalInv, HolderWorks, PhaseInv
  <2>2. \E p \in Procs : Commit(p) \/ CommitRaises(p)
    BY ZenonT(30) DEF LocalNext, localVars, Enter, NothingArmed, ReconciliationRequired,
           SettleArmed, SettledArmed, SettleNotSynced, CaptureFails, Capture,
           Invalid, Arm, ArmSynced, ArmFails, NotCommitted, Confirmed,
           CommitUnknown, SettleOwn, SettleOwnFails, SettledOwn,
           CleanupAttempts, Backup, Restore, Crash, PowerLoss
  <2>3. QED
    BY <2>1, <2>2
<1>2. QED
  BY <1>1, LocalInvHolds, PTL DEF LocalSpec, CommitsBehindDurableRecord

-----------------------------------------------------------------------------
(* Settled records are true, as long as no backup is put back *)

InLineage(a) == \E i \in DOMAIN hist : hist[i] = a

\* An attempt is accepted only once armed, so an unarmed record is not.
TrueInv ==
    \A a \in Attempts :
        /\ "accepted" \in durable[a] => InLineage(a)
        /\ "failed" \in durable[a] \/ "unarmed" \in durable[a] => ~InLineage(a)

\* What a step may add to the versions of a record.
AddsTruth ==
    \A a \in Attempts : \A c \in durable'[a] :
        \/ c \in durable[a]
        \/ c \in {"none", "armed"}
        \/ c \in {"failed", "unarmed"} /\ ~InLineage(a)
        \/ c = "accepted" /\ InLineage(a)

\* True versions added to true versions are true, while the lineage stands.
LEMMA TruthKept ==
    ASSUME TrueInv, AddsTruth, UNCHANGED hist
    PROVE  TrueInv'
BY DEF TrueInv, AddsTruth, InLineage

\* A commit finds its attempt armed only, so no version of it becomes false.
LEMMA PublishKeepsTruth ==
    ASSUME LocalInv, TrueInv, NEW p \in Procs, Commit(p) \/ CommitRaises(p)
    PROVE  TrueInv'
<1>1. /\ pc[p] = "armed" /\ durable' = durable
      /\ hist' \in {hist, Append(hist, job[p])}
  BY DEF Commit, CommitRaises
<1>2. durable[job[p]] = {"armed"} /\ job[p] \in Attempts
  BY <1>1, PhaseNames DEF LocalInv, PhaseInv
<1>3. CASE hist' = hist
  BY <1>1, <1>3 DEF TrueInv, InLineage
<1>4. CASE hist' = Append(hist, job[p])
  <2>1. ASSUME NEW a \in Attempts
        PROVE  (InLineage(a))' <=> InLineage(a) \/ a = job[p]
    <3>1. InLineage(a) => (InLineage(a))'
      BY <1>2, <1>4, AppendFacts DEF InLineage
    <3>2. a = job[p] => (InLineage(a))'
      <4>1. Generation + 1 \in DOMAIN Append(hist, job[p])
        BY SMT, <1>2, AppendFacts
      <4>2. QED
        BY <1>2, <1>4, <4>1, AppendFacts DEF InLineage
    <3>3. (InLineage(a))' => InLineage(a) \/ a = job[p]
      BY <1>2, <1>4, AppendFacts DEF InLineage
    <3>4. QED
      BY <3>1, <3>2, <3>3
  <2>2. QED
    BY SMT, <1>1, <1>2, <2>1 DEF TrueInv
<1>5. QED
  BY <1>1, <1>3, <1>4

\* Settling an attempt writes what the lineage says of it.
LEMMA SettlingAddsTruth ==
    ASSUME LocalInv, TrueInv, NEW p \in Procs,
           \/ NothingArmed(p) \/ SettledArmed(p) \/ SettleArmed(p)
           \/ SettleOwn(p) \/ Invalid(p)
    PROVE  AddsTruth
<1>1. CASE NothingArmed(p)
  <2>1. Marks(durable)
    BY DEF Marks, LocalInv, LocalTypeOK
  <2>2. \A a \in Attempts :
          \/ durable'[a] = durable[a]
          \/ rec[a] = "unarmed" /\ durable'[a] = durable[a] \cup {"failed"}
    BY <1>1, <2>1, SettleUnarmedRecords DEF NothingArmed
  <2>3. \A a \in Attempts : rec[a] \in durable[a]
    BY DEF LocalInv, RecordInv
  <2>4. ASSUME NEW a \in Attempts, NEW c \in durable'[a], c \notin durable[a]
        PROVE  c = "failed" /\ "unarmed" \in durable[a]
    BY <2>2, <2>3, <2>4
  <2>5. \A a \in Attempts : "unarmed" \in durable[a] => ~InLineage(a)
    BY DEF TrueInv
  <2>6. QED
    BY <2>4, <2>5 DEF AddsTruth
<1>2. CASE SettledArmed(p)
  <2> DEFINE marks == [durable EXCEPT ![job[p]] = {rec[job[p]]}]
  <2>1. job[p] \in Attempts
    BY <1>2, PhaseNames DEF SettledArmed, LocalInv, PhaseInv
  <2>2. PICK done \in SUBSET Unarmed :
          durable' = [a \in Attempts |->
                        IF a \in done THEN marks[a] \cup {"failed"} ELSE marks[a]]
    BY <1>2 DEF SettledArmed, SettleUnarmed
  <2>3. ASSUME NEW a \in Attempts
        PROVE  marks[a] \subseteq durable[a]
    <3>1. RecordInv(a) /\ durable \in [Attempts -> SUBSET Classes]
      BY DEF LocalInv, LocalTypeOK
    <3>2. rec[a] \in durable[a]
      BY <3>1 DEF RecordInv
    <3>3. marks[a] = IF a = job[p] THEN {rec[a]} ELSE durable[a]
      BY <2>1, <3>1
    <3>4. QED
      BY SMT, <3>2, <3>3
  <2> HIDE DEF marks
  <2>4. \A a \in done : "unarmed" \in durable[a]
    BY SMT DEF Unarmed, LocalInv, RecordInv
  <2>5. ASSUME NEW a \in Attempts
        PROVE  durable'[a] \subseteq
                 durable[a] \cup (IF a \in done THEN {"failed"} ELSE {})
    BY <2>2, <2>3
  <2>6. QED
    BY <2>4, <2>5 DEF AddsTruth, TrueInv
<1>3. ASSUME NEW a \in Attempts, NEW class \in Classes, Replace(a, class),
             \/ class = "accepted" /\ InLineage(a)
             \/ class = "failed" /\ ~InLineage(a)
      PROVE  AddsTruth
  <2>1. \A b \in Attempts :
          durable'[b] = IF b = a THEN durable[b] \cup {class} ELSE durable[b]
    BY Zenon, <1>3 DEF Replace, LocalInv, LocalTypeOK
  <2>2. QED
    BY Zenon, <1>3, <2>1 DEF AddsTruth
<1>4. CASE SettleArmed(p)
  <2>1. PICK a \in Attempts : Verdict(a) # "none" /\ Replace(a, Verdict(a))
    BY <1>4 DEF SettleArmed
  <2>2. CASE IsAccepted(a)
    BY <1>3, <2>1, <2>2, AcceptedIsInLineage, PhaseNames DEF Verdict, InLineage
  <2>3. CASE ~IsAccepted(a) /\ Generation = exp[a]
    BY <1>3, <2>1, <2>3, ExpectedNotAccepted, PhaseNames DEF Verdict, InLineage
  <2>4. QED
    BY <2>1, <2>2, <2>3 DEF Verdict
<1>5. CASE SettleOwn(p)
  <2>1. PhaseInv(p) /\ job[p] \in Attempts
    BY <1>5, PhaseNames DEF SettleOwn, LocalInv, PhaseInv
  <2>2. CASE pc[p] = "committed"
    BY <1>3, <1>5, <2>1, <2>2, AcceptedIsInLineage, PhaseNames
       DEF SettleOwn, PhaseInv, InLineage
  <2>3. CASE pc[p] = "abandon"
    BY <1>3, <1>5, <2>1, <2>3, ExpectedNotAccepted, PhaseNames
       DEF SettleOwn, PhaseInv, InLineage
  <2>4. QED
    BY <1>5, <2>2, <2>3 DEF SettleOwn
<1>6. CASE Invalid(p)
  <2>1. job[p] \in Attempts /\ Generation = exp[job[p]]
    BY <1>6, PhaseNames DEF Invalid, LocalInv, PhaseInv
  <2>2. CASE UNCHANGED durable
    BY <2>2 DEF AddsTruth
  <2>3. CASE Replace(job[p], "failed")
    BY <1>3, <2>1, <2>3, ExpectedNotAccepted, PhaseNames DEF InLineage
  <2>4. QED
    BY <1>6, <2>2, <2>3 DEF Invalid
<1>7. QED
  BY <1>1, <1>2, <1>4, <1>5, <1>6

\* Capturing, arming and pruning write no verdict.
LEMMA OtherStepsAddTruth ==
    ASSUME LocalInv, NEW p \in Procs,
           \/ Capture(p) \/ CaptureFails(p) \/ CleanupAttempts(p) \/ Arm(p)
           \/ ArmSynced(p) \/ SettledOwn(p)
    PROVE  AddsTruth
<1>1. CASE Capture(p)
  <2>1. PICK c \in fresh, gone \in SUBSET Expired :
          /\ Prune(gone, [rec EXCEPT ![c] = "unarmed"],
                   [durable EXCEPT ![c] = {"none", "unarmed"}])
          /\ fresh' = fresh \ {c}
    BY ZenonT(30), <1>1 DEF Capture
  <2>2. ~InLineage(c)
    BY DEF InLineage, LocalInv, PlaceInv
  <2>3. durable'[c] = {"none", "unarmed"}
    BY <2>1, CaptureRecords
  <2>4. \A a \in Attempts : a # c => durable'[a] \subseteq durable[a] \cup {"none"}
    BY Zenon, <2>1, CaptureRecords
  <2>5. QED
    BY <2>2, <2>3, <2>4 DEF AddsTruth
<1>2. CASE CaptureFails(p) \/ CleanupAttempts(p)
  <2>1. PICK gone \in SUBSET Expired : Prune(gone, rec, durable) /\ UNCHANGED fresh
    BY <1>2 DEF CaptureFails, CleanupAttempts
  <2>2. \A a \in Attempts : durable'[a] \subseteq durable[a] \cup {"none"}
    BY <2>1, PruneRecords
  <2>3. QED
    BY <2>2 DEF AddsTruth
<1>3. CASE Arm(p)
  <2>1. \A a \in Attempts : durable'[a] \subseteq durable[a] \cup {"armed"}
    BY <1>3 DEF Arm, Replace, LocalInv, LocalTypeOK
  <2>2. QED
    BY <2>1 DEF AddsTruth
<1>4. CASE ArmSynced(p) \/ SettledOwn(p)
  <2>1. Sync(job[p])
    BY <1>4 DEF ArmSynced, SettledOwn
  <2>2. ASSUME NEW a \in Attempts
        PROVE  durable'[a] \subseteq durable[a]
    <3>1. RecordInv(a) /\ durable \in [Attempts -> SUBSET Classes]
      BY DEF LocalInv, LocalTypeOK
    <3>2. durable'[a] = IF a = job[p] THEN {rec[a]} ELSE durable[a]
      BY <2>1, <3>1 DEF Sync
    <3>3. QED
      BY <3>1, <3>2 DEF RecordInv
  <2>3. QED
    BY <2>2 DEF AddsTruth
<1>5. QED
  BY <1>1, <1>2, <1>3, <1>4

\* Without a backup to put back, every step keeps the versions true.
LEMMA TrueInvStep ==
    ASSUME backups = {}, LocalInv, TrueInv, [LocalNext]_localVars
    PROVE  TrueInv'
<1>1. ASSUME NEW p \in Procs, Commit(p) \/ CommitRaises(p)
      PROVE  TrueInv'
  BY <1>1, PublishKeepsTruth
<1>2. ASSUME NEW p \in Procs,
             \/ NothingArmed(p) \/ SettledArmed(p) \/ SettleArmed(p)
             \/ SettleOwn(p) \/ Invalid(p)
      PROVE  TrueInv'
  BY <1>2, SettlingAddsTruth, TruthKept
     DEF NothingArmed, SettledArmed, SettleArmed, SettleOwn, Invalid
<1>3. ASSUME NEW p \in Procs,
             \/ Capture(p) \/ CaptureFails(p) \/ CleanupAttempts(p) \/ Arm(p)
             \/ ArmSynced(p) \/ SettledOwn(p)
      PROVE  TrueInv'
  BY Zenon, <1>3, OtherStepsAddTruth, TruthKept
     DEF Capture, CaptureFails, CleanupAttempts, Arm, ArmSynced, SettledOwn
<1>4. CASE PowerLoss
  <2>1. \A a \in Attempts : durable'[a] \subseteq durable[a]
    BY <1>4, PowerLossRecords
  <2>2. AddsTruth /\ UNCHANGED hist
    BY <1>4, <2>1 DEF AddsTruth, PowerLoss
  <2>3. QED
    BY <2>2, TruthKept
<1>5. ASSUME UNCHANGED <<hist, durable>>
      PROVE  TrueInv'
  BY <1>5 DEF TrueInv, InLineage
<1>6. ASSUME NEW p \in Procs,
             \/ Enter(p) \/ ReconciliationRequired(p) \/ SettleNotSynced(p)
             \/ ArmFails(p) \/ NotCommitted(p) \/ Confirmed(p)
             \/ CommitUnknown(p) \/ SettleOwnFails(p)
             \/ Backup(p) \/ Restore(p) \/ Crash(p)
      PROVE  TrueInv'
  BY <1>5, <1>6
     DEF Enter, ReconciliationRequired, SettleNotSynced, ArmFails, NotCommitted,
         Confirmed, CommitUnknown, SettleOwnFails, Backup, Restore, Crash
<1>7. CASE UNCHANGED localVars
  BY <1>5, <1>7 DEF localVars
<1>8. QED
  BY <1>1, <1>2, <1>3, <1>4, <1>6, <1>7 DEF LocalNext

\* A completed backup stays.
LEMMA BackupsStay ==
    ASSUME [LocalNext]_localVars
    PROVE  backups \subseteq backups'
<1>1. ASSUME NEW p \in Procs,
             \/ Enter(p) \/ NothingArmed(p) \/ ReconciliationRequired(p)
             \/ SettleArmed(p) \/ SettledArmed(p) \/ SettleNotSynced(p)
             \/ CaptureFails(p) \/ Capture(p) \/ Invalid(p)
             \/ Arm(p) \/ ArmSynced(p) \/ ArmFails(p)
      PROVE  UNCHANGED backups
  BY <1>1 DEF Enter, NothingArmed, ReconciliationRequired, SettleArmed,
              SettledArmed, SettleNotSynced, CaptureFails, Capture, Invalid,
              Arm, ArmSynced, ArmFails
<1>2. ASSUME NEW p \in Procs,
             \/ NotCommitted(p) \/ Commit(p) \/ CommitRaises(p)
             \/ Confirmed(p) \/ CommitUnknown(p)
             \/ SettleOwn(p) \/ SettleOwnFails(p) \/ SettledOwn(p)
             \/ CleanupAttempts(p) \/ Restore(p) \/ Crash(p)
      PROVE  UNCHANGED backups
  BY <1>2 DEF NotCommitted, Commit, CommitRaises, Confirmed, CommitUnknown,
              SettleOwn, SettleOwnFails, SettledOwn, CleanupAttempts, Restore,
              Crash
<1>3. ASSUME NEW p \in Procs, Backup(p)
      PROVE  backups \subseteq backups'
  BY <1>3 DEF Backup
<1>4. CASE PowerLoss \/ UNCHANGED localVars
  BY <1>4 DEF PowerLoss, localVars
<1>5. QED
  BY <1>1, <1>2, <1>3, <1>4 DEF LocalNext

\* A settled record tells the truth about the lineage in every version that a
\* crash or a power loss can bring back, while no backup could be put back.
THEOREM LocalSettledIsTrue == LocalSpec => []SettledIsTrue
<1> DEFINE TrueUntilBackup == backups = {} => TrueInv
<1>1. LocalInit => TrueUntilBackup
  BY SMT DEF LocalInit, TrueInv
<1>2. LocalInv /\ TrueUntilBackup /\ [LocalNext]_localVars => TrueUntilBackup'
  <2> SUFFICES ASSUME LocalInv, TrueUntilBackup, [LocalNext]_localVars,
                      backups' = {}
               PROVE  TrueInv'
    OBVIOUS
  <2>1. backups = {}
    BY BackupsStay
  <2>2. QED
    BY <2>1, TrueInvStep
<1>3. LocalInv /\ TrueUntilBackup => SettledIsTrue
  BY SMT DEF LocalInv, TrueInv, SettledIsTrue, RecordInv, InLineage
<1> HIDE DEF TrueUntilBackup
<1>4. QED
  BY <1>1, <1>2, <1>3, LocalInvHolds, PTL DEF LocalSpec

-----------------------------------------------------------------------------
(* Armed records are decidable, as long as no replaced record can come back *)

\* A record whose sync was cut short does not meet a power loss.
NothingComesBack ==
    /\ "restore" \notin Faults
    /\ "power" \in Faults => "crash" \notin Faults /\ "sync" \notin Faults

\* A settled or pruned record is armed again.
Rearmed ==
    \E a \in Attempts : rec'[a] = "armed" /\ rec[a] \notin {"unarmed", "armed"}

\* A step after which nobody is at work.
LEMMA DecidableAtRest ==
    ASSUME NEW back \in BOOLEAN, DecidableInv(back),
           UNCHANGED <<hist, exp>>, Potential(back)' \subseteq Potential(back),
           Potential(back)' = Armed', \A q \in Procs : pc'[q] = "idle"
    PROVE  DecidableInv(back)'
<1>1. \A a \in Attempts : /\ Generation' = Generation
                          /\ (IsAccepted(a))' <=> IsAccepted(a)
  BY DEF Generation, IsAccepted
<1>2. (\A a, b \in Potential(back) : a = b)'
  BY DEF DecidableInv
<1>3. (\A a \in Potential(back) : Generation = exp[a] \/ IsAccepted(a))'
  BY <1>1 DEF DecidableInv, Potential
<1>4. QED
  BY <1>2, <1>3, PhaseNames DEF DecidableInv

\* A step after which p is at work.
LEMMA DecidableAtWork ==
    ASSUME NEW back \in BOOLEAN, LocalInv, DecidableInv(back), UNCHANGED <<hist, exp>>,
           Potential(back)' \subseteq Potential(back),
           NEW p \in Procs, NEW phase \in Phases, Goto(p, phase),
           \A q \in Procs : q # p => pc[q] = "idle",
           Potential(back)' = Armed' \/ phase \in Closing,
           phase \in {"capture", "captured"} => Potential(back)' = {},
           phase \in InHand => Potential(back)' \subseteq {job'[p]}
    PROVE  DecidableInv(back)'
<1>1. \A a \in Attempts : /\ Generation' = Generation
                          /\ (IsAccepted(a))' <=> IsAccepted(a)
  BY DEF Generation, IsAccepted
<1>2. (\A a, b \in Potential(back) : a = b)'
  BY DEF DecidableInv
<1>3. (\A a \in Potential(back) : Generation = exp[a] \/ IsAccepted(a))'
  BY <1>1 DEF DecidableInv, Potential
<1>4. pc'[p] = phase /\ \A q \in Procs : q # p => pc'[q] = "idle"
  BY DEF Goto, LocalInv, LocalTypeOK
<1>5. Closing \subseteq InHand
  BY PhaseNames DEF Closing
<1>6. \A a \in Potential(back)' \ Armed' :
         \E q \in Procs : pc'[q] \in Closing /\ job'[q] = a
  BY <1>4, <1>5
<1>7. \A q \in Procs : pc'[q] \in {"capture", "captured"} => Potential(back)' = {}
  BY <1>4
<1>8. \A q \in Procs : pc'[q] \in InHand => Potential(back)' \subseteq {job'[q]}
  BY <1>4, PhaseNames
<1>9. QED
  BY <1>2, <1>3, <1>6, <1>7, <1>8 DEF DecidableInv

\* Outside the closing phases a record is armed or will not be again.
LEMMA ArmedOrNever ==
    ASSUME NEW back \in BOOLEAN, LocalInv, DecidableInv(back),
           \/ \A q \in Procs : pc[q] \notin Closing
           \/ ~back
    PROVE  Potential(back) = Armed
<1>1. Armed \subseteq Potential(back)
  BY DEF Armed, Potential
<1>2. ~back => Potential(back) = Armed
  BY DEF Armed, Potential
<1>3. (\A q \in Procs : pc[q] \notin Closing) => Potential(back) \ Armed = {}
  BY DEF DecidableInv
<1>4. QED
  BY <1>1, <1>2, <1>3

\* Unchanged records leave the same attempts armed.
LEMMA RecordsSame ==
    ASSUME NEW back \in BOOLEAN, UNCHANGED <<rec, durable>>
    PROVE  Potential(back)' = Potential(back) /\ Armed' = Armed
BY DEF Potential, Armed

\* One version of a record settled, the others as they were.
LEMMA PotentialShrinks ==
    ASSUME NEW back \in BOOLEAN,
           \A a \in Attempts :
              /\ rec'[a] = "armed" => rec[a] = "armed"
              /\ "armed" \in durable'[a] => "armed" \in durable[a]
    PROVE  Potential(back)' \subseteq Potential(back)
BY DEF Potential

\* A command that raises or dies leaves what it had decidable.
LEMMA DecidableQuits ==
    ASSUME NEW back \in BOOLEAN, back => NothingComesBack /\ "power" \in Faults,
           LocalInv, DecidableInv(back), NEW p \in Procs,
           \/ ReconciliationRequired(p) \/ SettleNotSynced(p)
           \/ CommitUnknown(p) \/ SettleOwnFails(p) \/ Crash(p)
    PROVE  DecidableInv(back)'
<1>1. /\ pc[p] # "idle" /\ Leave(p)
      /\ UNCHANGED <<hist, rec, durable, exp>>
      /\ pc[p] \notin Closing \/ ~back
  BY DEF ReconciliationRequired, SettleNotSynced, CommitUnknown,
         SettleOwnFails, Crash, Closing, NothingComesBack
<1>2. \A q \in Procs : q # p => pc[q] \notin Closing
  BY <1>1, AloneAtWork DEF Closing
<1>3. Potential(back) = Armed
  BY <1>1, <1>2, ArmedOrNever
<1>4. \A q \in Procs : pc'[q] = "idle"
  BY <1>1, LeavePhases
<1>5. QED
  BY <1>1, <1>3, <1>4, RecordsSame, DecidableAtRest

\* Reconciling keeps the one armed attempt decidable.
LEMMA DecidableReconcile ==
    ASSUME NEW back \in BOOLEAN, LocalInv, DecidableInv(back), NEW p \in Procs,
           NothingArmed(p) \/ SettleArmed(p) \/ SettledArmed(p)
    PROVE  DecidableInv(back)'
<1>0. \A q \in Procs : q # p => pc[q] = "idle"
  BY AloneAtWork DEF NothingArmed, SettleArmed, SettledArmed
<1>1. CASE NothingArmed(p)
  <2>1. Potential(back) = {}
    BY <1>0, <1>1, ArmedOrNever DEF NothingArmed, Closing
  <2>2. Marks(durable)
    BY DEF Marks, LocalInv, LocalTypeOK
  <2>3. \A a \in Attempts :
          /\ rec'[a] = "armed" => rec[a] = "armed"
          /\ "armed" \in durable'[a] => "armed" \in durable[a]
    BY SMT, <1>1, <2>2, SettleUnarmedRecords DEF NothingArmed
  <2>4. Potential(back)' = {} /\ Armed' = {}
    BY <2>1, <2>3, PotentialShrinks DEF Potential, Armed
  <2>5. QED
    BY <1>0, <1>1, <2>4, DecidableAtWork, PhaseNames DEF NothingArmed, Phases
<1>2. CASE SettleArmed(p)
  <2>1. PICK a \in Attempts :
          /\ Armed = {a}
          /\ Verdict(a) # "none"
          /\ Replace(a, Verdict(a))
          /\ job' = [job EXCEPT ![p] = a]
          /\ Goto(p, IF Verdict(a) = "accepted" THEN "sync_accepted"
                     ELSE "sync_failed")
    BY Zenon, <1>2 DEF SettleArmed
  <2>2. Potential(back) = {a}
    BY <1>0, <1>2, <2>1, ArmedOrNever DEF SettleArmed, Closing
  <2>3. Verdict(a) \in Terminal
    BY <2>1 DEF Verdict, Terminal
  <2>4. \A b \in Attempts :
          /\ rec'[b] = "armed" => rec[b] = "armed"
          /\ "armed" \in durable'[b] => "armed" \in durable[b]
    BY <2>1, <2>3 DEF Replace, LocalInv, LocalTypeOK, Terminal
  <2>5. Potential(back)' \subseteq {a}
    BY <2>2, <2>4, PotentialShrinks
  <2>6. job'[p] = a
    BY <2>1 DEF LocalInv, LocalTypeOK
  <2>7. PICK phase \in {"sync_accepted", "sync_failed"} : Goto(p, phase)
    BY <2>1
  <2>8. phase \in Phases /\ phase \in Closing
    BY <2>7 DEF Phases, Closing
  <2>9. phase \notin {"capture", "captured"}
    BY <2>7
  <2>10. Potential(back)' \subseteq Potential(back) /\ UNCHANGED <<hist, exp>>
    BY <1>2, <2>2, <2>5 DEF SettleArmed
  <2>11. QED
    BY <1>0, <2>5, <2>6, <2>7, <2>8, <2>9, <2>10, DecidableAtWork
<1>3. CASE SettledArmed(p)
  <2> DEFINE marks == [durable EXCEPT ![job[p]] = {rec[job[p]]}]
  <2>1. job[p] \in Attempts /\ rec[job[p]] \in {"accepted", "failed"}
    BY <1>3, PhaseNames DEF SettledArmed, LocalInv, PhaseInv
  <2>2. PICK done \in SUBSET Unarmed :
          /\ rec' = [a \in Attempts |-> IF a \in done THEN "failed" ELSE rec[a]]
          /\ durable' = [a \in Attempts |->
                           IF a \in done THEN marks[a] \cup {"failed"} ELSE marks[a]]
    BY <1>3 DEF SettledArmed, SettleUnarmed
  <2>3. \A a \in Attempts :
          marks[a] = IF a = job[p] THEN {rec[job[p]]} ELSE durable[a]
    BY <2>1 DEF LocalInv, LocalTypeOK
  <2> HIDE DEF marks
  <2>4. Potential(back) \subseteq {job[p]}
    BY <1>3, PhaseNames DEF SettledArmed, DecidableInv
  <2>5. ASSUME NEW a \in Attempts
        PROVE  rec'[a] # "armed" /\ ~(back /\ "armed" \in durable'[a])
    <3>1. a # job[p] => rec[a] # "armed" /\ ~(back /\ "armed" \in durable[a])
      BY SMT, <2>4 DEF Potential
    <3>2. rec'[a] = rec[a] \/ rec'[a] = "failed"
      BY <2>2
    <3>3. durable'[a] \subseteq marks[a] \cup {"failed"}
      BY <2>2
    <3>4. QED
      BY <2>1, <2>3, <3>1, <3>2, <3>3
  <2>6. Potential(back)' = {} /\ Armed' = {}
    BY <2>5 DEF Potential, Armed
  <2>7. UNCHANGED <<hist, exp>> /\ pc[p] # "idle"
    BY <1>3 DEF SettledArmed
  <2>8. CASE Leave(p)
    BY <2>6, <2>7, <2>8, LeavePhases, DecidableAtRest
  <2>9. CASE Goto(p, "capture")
    BY <1>0, <2>6, <2>7, <2>9, DecidableAtWork, PhaseNames DEF Phases
  <2>10. QED
    BY <1>3, <2>8, <2>9 DEF SettledArmed
<1>4. QED
  BY <1>1, <1>2, <1>3

\* Pruning and capturing arm nothing.
LEMMA DecidableCapture ==
    ASSUME NEW back \in BOOLEAN, LocalInv, DecidableInv(back), NEW p \in Procs,
           \/ Enter(p) \/ CleanupAttempts(p) \/ CaptureFails(p) \/ Capture(p)
           \/ Invalid(p)
    PROVE  DecidableInv(back)'
<1>1. CASE Enter(p)
  <2>1. \A q \in Procs : pc[q] = "idle"
    BY <1>1, NoProcAssumption DEF Enter, LocalInv, HolderWorks
  <2>2. Potential(back) = Armed
    BY <2>1, ArmedOrNever DEF Closing
  <2>3. Potential(back)' = Potential(back) /\ Armed' = Armed /\ UNCHANGED <<hist, exp>>
    BY <1>1, RecordsSame DEF Enter
  <2>4. QED
    BY <1>1, <2>1, <2>2, <2>3, DecidableAtWork, PhaseNames DEF Enter, Phases
<1>2. ASSUME \A a \in Attempts :
               \/ rec'[a] = rec[a] /\ durable'[a] = durable[a]
               \/ /\ rec'[a] # "armed"
                  /\ "armed" \in durable'[a] => "armed" \in durable[a]
      PROVE  Potential(back)' \subseteq Potential(back)
  BY <1>2, PotentialShrinks
<1>3. CASE CleanupAttempts(p)
  <2>1. \A q \in Procs : pc[q] = "idle" /\ pc'[q] = "idle"
    BY <1>3, NoProcAssumption DEF CleanupAttempts, LocalInv, HolderWorks
  <2>2. Potential(back) = Armed
    BY <2>1, ArmedOrNever DEF Closing
  <2>3. PICK gone \in SUBSET Expired : Prune(gone, rec, durable)
    BY <1>3 DEF CleanupAttempts
  <2>4. \A a \in Attempts :
          \/ rec'[a] = rec[a] /\ durable'[a] = durable[a]
          \/ /\ rec[a] \in Terminal /\ rec'[a] = "none"
             /\ durable'[a] = durable[a] \cup {"none"}
    BY <1>3, <2>3, PruneRecords DEF CleanupAttempts
  <2>5. Potential(back)' \subseteq Potential(back)
    <3>1. ASSUME NEW a \in Attempts
          PROVE  \/ rec'[a] = rec[a] /\ durable'[a] = durable[a]
                 \/ /\ rec'[a] # "armed"
                    /\ "armed" \in durable'[a] => "armed" \in durable[a]
      <4>1. CASE rec'[a] = rec[a] /\ durable'[a] = durable[a]
        BY <4>1
      <4>2. CASE rec'[a] = "none" /\ durable'[a] = durable[a] \cup {"none"}
        BY <4>2
      <4> QED
        BY <2>4, <4>1, <4>2
    <3>2. QED
      BY <1>2, <3>1
  <2>6. Armed' = Armed
    BY <2>4, PhaseNames DEF Armed
  <2>7. Potential(back)' = Armed'
    BY <2>2, <2>5, <2>6 DEF Potential, Armed
  <2>8. QED
    BY <1>3, <2>1, <2>5, <2>7, DecidableAtRest DEF CleanupAttempts
<1>4. CASE CaptureFails(p)
  <2>1. PICK gone \in SUBSET Expired : Prune(gone, rec, durable)
    BY <1>4 DEF CaptureFails
  <2>2. Potential(back) = {}
    BY <1>4 DEF CaptureFails, DecidableInv
  <2>3. Potential(back)' \subseteq Potential(back)
    <3>1. UNCHANGED fresh
      BY <1>4 DEF CaptureFails
    <3>2. \A a \in Attempts :
            \/ rec'[a] = rec[a] /\ durable'[a] = durable[a]
            \/ /\ rec[a] \in Terminal /\ rec'[a] = "none"
               /\ durable'[a] = durable[a] \cup {"none"}
      BY <2>1, <3>1, PruneRecords
    <3>3. ASSUME NEW a \in Attempts
          PROVE  \/ rec'[a] = rec[a] /\ durable'[a] = durable[a]
                 \/ /\ rec'[a] # "armed"
                    /\ "armed" \in durable'[a] => "armed" \in durable[a]
      BY SMT, <3>2
    <3>4. QED
      BY <1>2, <3>3
  <2>4. Potential(back)' = {} /\ Armed' = {}
    BY <2>2, <2>3 DEF Potential, Armed
  <2>5. QED
    BY <1>4, <2>3, <2>4, LeavePhases, DecidableAtRest DEF CaptureFails
<1>5. CASE Capture(p)
  <2>1. PICK c \in fresh, gone \in SUBSET Expired :
          /\ Prune(gone, [rec EXCEPT ![c] = "unarmed"],
                   [durable EXCEPT ![c] = {"none", "unarmed"}])
          /\ exp' = [exp EXCEPT ![c] = Expected]
          /\ fresh' = fresh \ {c}
    BY Zenon, <1>5 DEF Capture
  <2>2. Potential(back) = {}
    BY <1>5 DEF Capture, DecidableInv
  <2>3. rec'[c] = "unarmed" /\ durable'[c] = {"none", "unarmed"}
    BY <2>1, CaptureRecords
  <2>4. \A a \in Attempts : a # c =>
          \/ rec'[a] = rec[a] /\ durable'[a] = durable[a]
          \/ rec'[a] = "none" /\ durable'[a] = durable[a] \cup {"none"}
    BY ZenonT(30), <2>1, CaptureRecords
  <2>5. Potential(back)' = {}
    <3>1. Potential(back)' \subseteq Potential(back)
      <4>1. ASSUME NEW a \in Attempts
            PROVE  \/ rec'[a] = rec[a] /\ durable'[a] = durable[a]
                   \/ /\ rec'[a] # "armed"
                      /\ "armed" \in durable'[a] => "armed" \in durable[a]
        BY <2>3, <2>4
      <4>2. QED
        BY <1>2, <4>1
    <3>2. QED
      BY <2>2, <3>1
  <2>6. \A q \in Procs : q # p => pc'[q] = "idle"
    BY <1>5, AloneAtWork DEF Capture, Goto, LocalInv, LocalTypeOK
  <2>7. QED
    BY <2>5 DEF DecidableInv
<1>6. CASE Invalid(p)
  <2>1. Potential(back) = {} /\ job[p] \in Attempts
    BY <1>6, PhaseNames DEF Invalid, DecidableInv, LocalInv, PhaseInv
  <2>2. \A a \in Attempts :
          \/ rec'[a] = rec[a] /\ durable'[a] = durable[a]
          \/ rec'[a] = "failed" /\ durable'[a] = durable[a] \cup {"failed"}
    BY <1>6, <2>1 DEF Invalid, Replace, LocalInv, LocalTypeOK
  <2>3. Potential(back)' \subseteq Potential(back)
    <3>1. ASSUME NEW a \in Attempts
          PROVE  \/ rec'[a] = rec[a] /\ durable'[a] = durable[a]
                 \/ /\ rec'[a] # "armed"
                    /\ "armed" \in durable'[a] => "armed" \in durable[a]
      <4>1. CASE rec'[a] = "failed" /\ durable'[a] = durable[a] \cup {"failed"}
        BY <4>1
      <4>2. QED
        BY <2>2, <4>1
    <3>2. QED
      BY <1>2, <3>1
  <2>4. Potential(back)' = {} /\ Armed' = {}
    BY <2>1, <2>3 DEF Potential, Armed
  <2>5. QED
    BY <1>6, <2>3, <2>4, LeavePhases, DecidableAtRest DEF Invalid
<1>7. QED
  BY <1>1, <1>3, <1>4, <1>5, <1>6

\* With its own record in hand the process may arm, publish and settle it.
LEMMA DecidableOwn ==
    ASSUME NEW back \in BOOLEAN, LocalInv, DecidableInv(back),
           NEW p \in Procs, pc[p] \in InHand,
           NEW phase \in InHand \ {"captured"}, Goto(p, phase),
           UNCHANGED <<job, exp>>, Potential(back)' \subseteq {job[p]},
           Potential(back)' = Armed' \/ phase \in Closing,
           job[p] \in Potential(back)' =>
              (Generation = exp[job[p]] \/ IsAccepted(job[p]))'
    PROVE  DecidableInv(back)'
<1>1. pc'[p] = phase /\ \A q \in Procs : q # p => pc'[q] = "idle"
  BY AloneAtWork, PhaseNames DEF Goto, LocalInv, LocalTypeOK
<1>2. \A a \in Potential(back)' \ Armed' :
         \E q \in Procs : pc'[q] \in Closing /\ job'[q] = a
  BY <1>1
<1>3. \A q \in Procs : pc'[q] \in {"capture", "captured"} => Potential(back)' = {}
  BY <1>1, PhaseNames
<1>4. \A q \in Procs : pc'[q] \in InHand => Potential(back)' \subseteq {job'[q]}
  BY <1>1, PhaseNames
<1>5. (\A a, b \in Potential(back) : a = b)'
  OBVIOUS
<1>6. (\A a \in Potential(back) : Generation = exp[a] \/ IsAccepted(a))'
  OBVIOUS
<1>7. QED
  BY <1>2, <1>3, <1>4, <1>5, <1>6 DEF DecidableInv

\* Arming, committing and settling keep the one armed attempt decidable.
LEMMA DecidablePublish ==
    ASSUME NEW back \in BOOLEAN, LocalInv, DecidableInv(back), NEW p \in Procs,
           \/ Arm(p) \/ ArmSynced(p) \/ ArmFails(p) \/ NotCommitted(p)
           \/ Commit(p) \/ CommitRaises(p) \/ Confirmed(p) \/ SettleOwn(p)
    PROVE  DecidableInv(back)'
<1>1. /\ pc[p] \in {"captured", "arming", "armed", "commit_error",
                    "committed", "abandon"}
      /\ UNCHANGED <<job, exp>>
  BY DEF Arm, ArmSynced, ArmFails, NotCommitted, Commit, CommitRaises,
         Confirmed, SettleOwn
<1>2. /\ pc[p] \in InHand
      /\ job[p] \in Attempts /\ job[p] \notin fresh
      /\ Generation = exp[job[p]] \/ IsAccepted(job[p])
      /\ Potential(back) \subseteq {job[p]}
  BY <1>1, PhaseNames DEF LocalInv, PhaseInv, DecidableInv
<1>3. Potential(back) = Armed
  <2>1. \A q \in Procs : pc[q] \notin Closing
    BY <1>1, AloneAtWork DEF Closing
  <2>2. QED
    BY <2>1, ArmedOrNever
<1>4. ASSUME UNCHANGED hist
      PROVE  (Generation = exp[job[p]] \/ IsAccepted(job[p]))'
  BY <1>1, <1>2, <1>4 DEF Generation, IsAccepted
<1>5. CASE Arm(p)
  <2>1. \A a \in Attempts : a # job[p] => rec'[a] = rec[a] /\ durable'[a] = durable[a]
    BY <1>5 DEF Arm, Replace, LocalInv, LocalTypeOK
  <2>2. Potential(back)' \subseteq {job[p]}
    BY <1>2, <2>1 DEF Potential
  <2>3. rec'[job[p]] = "armed"
    BY <1>2, <1>5 DEF Arm, Replace, LocalInv, LocalTypeOK
  <2>4. Potential(back)' = Armed'
    BY <1>2, <2>2, <2>3 DEF Potential, Armed
  <2>5. QED
    BY <1>1, <1>2, <1>4, <1>5, <2>2, <2>4, DecidableOwn, PhaseNames DEF Arm
<1>6. CASE ArmSynced(p)
  <2>1. \A a \in Attempts : a # job[p] => durable'[a] = durable[a]
    BY <1>6 DEF ArmSynced, Sync, LocalInv, LocalTypeOK
  <2>2. Potential(back)' \subseteq {job[p]}
    BY <1>2, <1>6, <2>1 DEF Potential, ArmSynced
  <2>3. rec[job[p]] = "armed" /\ rec' = rec
    BY <1>6 DEF ArmSynced, LocalInv, PhaseInv
  <2>4. Potential(back)' = Armed'
    BY <1>2, <2>2, <2>3 DEF Potential, Armed
  <2>5. QED
    BY <1>1, <1>2, <1>4, <1>6, <2>2, <2>4, DecidableOwn, PhaseNames DEF ArmSynced
<1>7. CASE ArmFails(p) \/ NotCommitted(p) \/ Confirmed(p)
  <2>1. UNCHANGED <<hist, rec, durable>>
    BY <1>7 DEF ArmFails, NotCommitted, Confirmed
  <2>2. PICK phase \in {"abandon", "committed"} : Goto(p, phase)
    BY <1>7 DEF ArmFails, NotCommitted, Confirmed
  <2>3. phase \in InHand \ {"captured"}
    BY <2>2, PhaseNames
  <2>4. QED
    BY <1>1, <1>2, <1>3, <1>4, <2>1, <2>2, <2>3, RecordsSame, DecidableOwn
<1>8. CASE Commit(p) \/ CommitRaises(p)
  <2>1. /\ UNCHANGED <<rec, durable, fresh, backups>>
        /\ Generation = exp[job[p]]
        /\ hist' \in {hist, Append(hist, job[p])}
    BY <1>8 DEF Commit, CommitRaises
  <2>2. (Generation = exp[job[p]] \/ IsAccepted(job[p]))'
    BY <1>1, <1>2, <1>4, <2>1, AppendPlaces
  <2>3. PICK phase \in {"committed", "commit_error"} : Goto(p, phase)
    BY <1>8 DEF Commit, CommitRaises
  <2>4. phase \in InHand \ {"captured"}
    BY <2>3, PhaseNames
  <2>5. QED
    BY <1>1, <1>2, <1>3, <2>1, <2>2, <2>3, <2>4, RecordsSame, DecidableOwn
<1>9. CASE SettleOwn(p)
  <2>1. PICK class \in Terminal : Replace(job[p], class)
    BY <1>9 DEF SettleOwn, Terminal
  <2>2. \A b \in Attempts :
          /\ rec'[b] = "armed" => rec[b] = "armed"
          /\ "armed" \in durable'[b] => "armed" \in durable[b]
    BY <2>1 DEF Replace, LocalInv, LocalTypeOK, Terminal
  <2>3. Potential(back)' \subseteq {job[p]}
    BY <1>2, <2>2, PotentialShrinks
  <2>4. "settling" \in Closing /\ "settling" \in InHand \ {"captured"}
    BY PhaseNames DEF Closing
  <2>5. Goto(p, "settling") /\ UNCHANGED hist
    BY <1>9 DEF SettleOwn
  <2>6. QED
    BY <1>1, <1>2, <1>4, <2>3, <2>4, <2>5, DecidableOwn
<1>10. QED
  BY <1>5, <1>6, <1>7, <1>8, <1>9

\* A power loss, and the end of a refresh, keep the armed attempt decidable.
LEMMA DecidableEnds ==
    ASSUME NEW back \in BOOLEAN, LocalInv, DecidableInv(back),
           \/ PowerLoss /\ (back \/ ~Rearmed)
           \/ \E p \in Procs : SettledOwn(p)
    PROVE  DecidableInv(back)'
<1>1. CASE PowerLoss /\ (back \/ ~Rearmed)
  <2>1. \A a \in Attempts : rec'[a] \in durable[a] /\ durable'[a] = {rec'[a]}
    BY <1>1, PowerLossRecords
  <2>2. "power" \in Faults /\ UNCHANGED <<hist, exp>> /\ \A q \in Procs : pc'[q] = "idle"
    BY <1>1 DEF PowerLoss
  <2>3. ASSUME NEW a \in Attempts, rec'[a] = "armed"
        PROVE  rec[a] = "armed" \/ back
    <3>1. rec[a] # "unarmed"
      BY <2>1, <2>3 DEF LocalInv, RecordInv
    <3>2. QED
      BY <1>1, <2>3, <3>1 DEF Rearmed
  <2>4. Potential(back)' \subseteq Potential(back) /\ Potential(back)' = Armed'
    BY <2>1, <2>3 DEF Potential, Armed
  <2>5. QED
    BY <2>2, <2>4, DecidableAtRest
<1>2. ASSUME NEW p \in Procs, SettledOwn(p)
      PROVE  DecidableInv(back)'
  <2>1. /\ pc[p] = "settling" /\ Leave(p) /\ UNCHANGED <<hist, exp, rec>>
        /\ Sync(job[p])
    BY <1>2 DEF SettledOwn
  <2>2. /\ job[p] \in Attempts /\ rec[job[p]] \in Terminal
        /\ Potential(back) \subseteq {job[p]}
    BY <2>1, PhaseNames DEF LocalInv, PhaseInv, DecidableInv
  <2>3. \A a \in Attempts :
          durable'[a] = IF a = job[p] THEN {rec[a]} ELSE durable[a]
    BY Zenon, <2>1 DEF Sync, LocalInv, LocalTypeOK
  <2>4. Potential(back)' = {} /\ Armed' = {}
    <3>1. ASSUME NEW a \in Attempts
          PROVE  rec'[a] # "armed" /\ ~(back /\ "armed" \in durable'[a])
      <4>1. a # job[p] => rec[a] # "armed" /\ ~(back /\ "armed" \in durable[a])
        BY SMT, <2>2 DEF Potential
      <4>2. rec[job[p]] # "armed" /\ rec'[a] = rec[a]
        BY <2>1, <2>2, PhaseNames
      <4>3. QED
        BY Zenon, <2>3, <4>1, <4>2
    <3>2. QED
      BY <3>1 DEF Armed, Potential
  <2>5. QED
    BY <2>1, <2>4, LeavePhases, DecidableAtRest
<1>3. QED
  BY <1>1, <1>2

\* A step without a backup to put back, after which no settled record is armed.
LEMMA DecidableStep ==
    ASSUME NEW back \in BOOLEAN, back => NothingComesBack /\ "power" \in Faults,
           LocalInv, DecidableInv(back), [LocalNext]_localVars,
           "restore" \notin Faults \/ backups' = {}, PowerLoss => back \/ ~Rearmed
    PROVE  DecidableInv(back)'
<1>1. CASE UNCHANGED localVars
  <2>1. Potential(back)' = Potential(back) /\ Armed' = Armed
    BY <1>1, RecordsSame DEF localVars
  <2>2. \A a \in Attempts : (Generation = exp[a] \/ IsAccepted(a))' <=>
                             Generation = exp[a] \/ IsAccepted(a)
    BY <1>1 DEF localVars, Generation, IsAccepted
  <2>3. (\A a \in Potential(back) : Generation = exp[a] \/ IsAccepted(a))'
    BY <2>1, <2>2 DEF DecidableInv, Potential
  <2>4. QED
    BY <1>1, <2>1, <2>3 DEF localVars, DecidableInv
<1>2. ASSUME NEW p \in Procs, Backup(p) \/ Restore(p)
      PROVE  FALSE
  BY <1>2 DEF Backup, Restore
<1>3. QED
  BY <1>1, <1>2, DecidableQuits, DecidableReconcile, DecidableCapture,
     DecidablePublish, DecidableEnds DEF LocalNext

\* Nothing is armed at the start.
LEMMA DecidableInit ==
    ASSUME NEW back \in BOOLEAN, LocalInit
    PROVE  DecidableInv(back)
<1>1. Potential(back) = {}
  BY DEF LocalInit, Potential
<1>2. QED
  BY <1>1 DEF DecidableInv

\* What the proofs carry gives the property the run checks.
LEMMA DecidableArmed ==
    ASSUME NEW back \in BOOLEAN, DecidableInv(back)
    PROVE  ArmedIsDecidable
BY DEF DecidableInv, ArmedIsDecidable, Potential, Armed

\* Every armed record a refresh meets can be decided from the accepted marker,
\* provided no backup is put back and no replaced but unsynced record survives
\* its process into a power loss.
THEOREM LocalArmedIsDecidable ==
    ASSUME NothingComesBack
    PROVE  LocalSpec => []ArmedIsDecidable
<1> PICK back \in BOOLEAN : back <=> "power" \in Faults
  OBVIOUS
<1>1. LocalInit => DecidableInv(back)
  BY DecidableInit
<1>2. LocalInv /\ DecidableInv(back) /\ [LocalNext]_localVars => DecidableInv(back)'
  <2> SUFFICES ASSUME LocalInv, DecidableInv(back), [LocalNext]_localVars
               PROVE  DecidableInv(back)'
    OBVIOUS
  <2>1. CASE back
    BY <2>1, DecidableStep DEF NothingComesBack
  <2>2. CASE ~back
    BY <2>2, DecidableStep DEF NothingComesBack, PowerLoss
  <2>3. QED
    BY <2>1, <2>2
<1>3. DecidableInv(back) => ArmedIsDecidable
  BY DecidableArmed
<1>4. QED
  BY <1>1, <1>2, <1>3, LocalInvHolds, PTL DEF LocalSpec

\* Whatever fails, every armed record a refresh meets can be decided until a
\* power loss arms a settled or pruned record again, or there is a backup to
\* put back (_reconcile, _settle_record, cleanup_attempts).
THEOREM DecidableUntilRearmed == RefreshSpec => []DecidableUntilReturn
<1> PICK back \in BOOLEAN : ~back
  OBVIOUS
<1> DEFINE Known == ~cameBack /\ backups = {} => DecidableInv(back)
<1>1. RefreshInit => LocalInit /\ Known
  BY DecidableInit DEF RefreshInit
<1>2. [RefreshNext]_refreshVars => [LocalNext]_localVars
  BY DEF RefreshNext, refreshVars
<1>3. LocalInv /\ Known /\ [RefreshNext]_refreshVars => Known'
  <2> SUFFICES ASSUME LocalInv, Known, [RefreshNext]_refreshVars,
                      ~cameBack', backups' = {}
               PROVE  DecidableInv(back)'
    OBVIOUS
  <2>1. backups = {}
    BY <1>2, BackupsStay
  <2>2. ~cameBack /\ (RefreshNext => ~Rearmed)
    <3>1. RefreshNext => cameBack' = (cameBack \/ Rearmed)
      BY DEF RefreshNext, Rearmed
    <3>2. RefreshNext => ~cameBack /\ ~Rearmed
      BY Zenon, <3>1
    <3>3. cameBack' = cameBack \/ RefreshNext
      BY DEF RefreshNext, refreshVars
    <3>4. QED
      BY SMT, <3>2, <3>3
  <2>3. ~PowerLoss \/ ~Rearmed
    BY <2>2 DEF RefreshNext, refreshVars, localVars, PowerLoss, Rearmed
  <2>4. QED
    BY <1>2, <2>1, <2>2, <2>3, DecidableStep
<1>4. Known => DecidableUntilReturn
  BY DecidableArmed DEF DecidableUntilReturn
<1> HIDE DEF Known
<1>5. QED
  BY <1>1, <1>2, <1>3, <1>4, LocalInvHolds, PTL DEF RefreshSpec, LocalSpec

-----------------------------------------------------------------------------
(* The commands on the database file *)

\* Phases in which a process does not hold the publisher lock.
Outside == {"idle", "restore_wait", "no_store"}

\* Phases in which it owns a temporary file.
Owning == {"building", "built", "sealed", "copying", "install", "installed",
           "discard", "fail"}

\* What a phase says of the process and of the files it works on.
FilePhase(p) ==
    /\ fPc[p] \notin Outside => fLock = p
    /\ fPc[p] \notin Owning => fTmp[p] = NoFile
    /\ fPc[p] \in Owning => fTmp[p] \in Tokens
    /\ fPc[p] \in {"building", "copying"} => fBytes[fTmp[p]] = "partial"
    /\ fPc[p] = "built" => fBytes[fTmp[p]] = "whole"
    /\ fPc[p] \in {"sealed", "install", "installed"} =>
          fBytes[fTmp[p]] = "synced"
    /\ fPc[p] \in {"copy", "copying", "install", "installed"} =>
          fStore = "durable"
    /\ fPc[p] = "installed" => fFinal = fTmp[p]
    /\ fPc[p] = "discard" => fFinal # NoFile /\ fDfinal = {fFinal}
    /\ fPc[p] \in {"upgrade", "backed_up", "confirm"} => fFinal # NoFile
    /\ fPc[p] = "backed_up" => fMem[p] = fDb[fFinal] /\ fMem[p] \in fBackups
    /\ fPc[p] \in {"backed_up", "confirm"} => fMem[p].version < HeadVersion
    /\ fPc[p] = "confirm" /\ fDb[fFinal] = Upgraded(fMem[p]) =>
          fDfinal = {fFinal}
    /\ fPc[p] # "remove" => fInv[p] = {}
    /\ fPc[p] = "remove" =>
          \A t \in fInv[p] : fBytes[t] = "partial" \/ fFinal # NoFile

\* What holds of the names in the store at any moment.
NamesInv ==
    /\ FinalIsComplete
    /\ \A f \in fDfinal \cup {fFinal} : f # NoFile => fStore = "durable"
    /\ fReported => fFinal # NoFile /\ fDfinal = {fFinal}

FilesInv ==
    /\ LocalFilesTypeOK
    /\ \A p \in Runners : FilePhase(p)
    /\ NamesInv

\* A reported database stays, with all it holds.
KeepsReported ==
    fReported /\ fReported' =>
        /\ fFinal # NoFile /\ fFinal' = fFinal
        /\ fDb'[fFinal].gen >= fDb[fFinal].gen
        /\ fDb'[fFinal].version >= fDb[fFinal].version

\* The schema in place changes behind a backup of what was there.
UpgradesBacked ==
    \A f \in Files :
        f = fFinal /\ fFinal' = fFinal /\ fDb'[f].version # fDb[f].version =>
            fDb[f] \in fBackups /\ fDb'[f].gen = fDb[f].gen

\* A temporary file in use is unlinked by its owner.
SparesLive ==
    \A p \in Runners :
        fTmp[p] # NoFile /\ fTmp[p] \in fLinked /\ fTmp[p] \notin fLinked' =>
            fPc'[p] = "idle"

\* Beside no database a cleanup unlinks partial orphans only.
SparesCopies ==
    \A p \in Runners : \A t \in (fInv[p] \ fInv'[p]) \cap (fLinked \ fLinked') :
        fPc'[p] = "remove" /\ fBytes[t] # "partial" => fFinal # NoFile

\* What a step on the files must show.
FilesStep ==
    FilesInv' /\ KeepsReported /\ UpgradesBacked /\ SparesLive /\ SparesCopies

\* The process that moves changes its own row only.
FileMoves(p) ==
    \A q \in Runners \ {p} : /\ fPc'[q] = fPc[q] /\ fTmp'[q] = fTmp[q]
                           /\ fInv'[q] = fInv[q] /\ fMem'[q] = fMem[q]

\* A reported catalog whose database a step does not write keeps its generation and its version.
LEMMA ReportedStays ==
    ASSUME LocalFilesTypeOK, NamesInv,
           fReported /\ fReported' => fFinal' = fFinal /\ fDb'[fFinal] = fDb[fFinal]
    PROVE  KeepsReported
<1> SUFFICES ASSUME fReported, fReported'
             PROVE  /\ fFinal # NoFile /\ fFinal' = fFinal
                    /\ fDb'[fFinal].gen >= fDb[fFinal].gen
                    /\ fDb'[fFinal].version >= fDb[fFinal].version
  BY DEF KeepsReported
<1>1. fFinal # NoFile /\ fFinal \in Files
  BY DEF NamesInv, LocalFilesTypeOK
<1>2. fDb[fFinal] \in States
  BY <1>1 DEF LocalFilesTypeOK
<1>3. ASSUME NEW s \in States
      PROVE  s.gen >= s.gen /\ s.version >= s.version
  BY SMT, <1>3 DEF States, HeadVersion
<1>4. /\ fDb[fFinal].gen >= fDb[fFinal].gen
      /\ fDb[fFinal].version >= fDb[fFinal].version
  BY <1>2, <1>3
<1> QED
  BY <1>1, <1>4

\* Whoever does not hold the lock is in a phase that depends on no file.
LEMMA WaitersKeep ==
    ASSUME FilesInv, NEW p \in Runners, FileMoves(p), fLock \in {p, NoRunner}
    PROVE  \A q \in Runners \ {p} :
              FilePhase(q)' /\ fTmp[q] = NoFile /\ fInv[q] = {} /\ fPc[q] \in Outside
<1> TAKE q \in Runners \ {p}
<1>0. FilePhase(q) /\ fLock # q
  BY FilesAssumption DEF FilesInv
<1>1. fPc[q] \in Outside /\ fTmp[q] = NoFile /\ fInv[q] = {}
  BY <1>0 DEF FilePhase, Outside, Owning
<1>2. fPc'[q] \in Outside /\ fTmp'[q] = NoFile /\ fInv'[q] = {}
  BY <1>1 DEF FileMoves
<1> QED
  BY <1>1, <1>2 DEF FilePhase, Outside, Owning

\* A step that leaves the database and the linked names alone disturbs nobody's
\* copy.
LEMMA QuietFiles ==
    ASSUME FilesInv, UNCHANGED <<fFinal, fDb, fLinked>>
    PROVE  KeepsReported /\ UpgradesBacked /\ SparesLive /\ SparesCopies
<1>1. UpgradesBacked /\ SparesLive /\ SparesCopies
  BY DEF UpgradesBacked, SparesLive, SparesCopies
<1>2. LocalFilesTypeOK /\ NamesInv
  BY DEF FilesInv
<1>3. KeepsReported
  BY <1>2, ReportedStays
<1> QED
  BY <1>1, <1>3

\* A command that returns, raises or dies leaves the files as they are, but for
\* a temporary name of its own.
LEMMA CommandLeaveStep ==
    ASSUME FilesInv, NEW p \in Runners, FileLeave(p),
           UNCHANGED <<fStore, fFinal, fDfinal, fBytes, fDb, fBackups>>,
           fLinked' \in SUBSET Tokens, fUnsynced' \in SUBSET Tokens,
           fLinked \ fLinked' \subseteq {fTmp[p]}, fReported' \in BOOLEAN,
           fReported' => fReported \/ (fFinal # NoFile /\ fDfinal = {fFinal})
    PROVE  FilesStep
<1>1. /\ fPc' = [fPc EXCEPT ![p] = "idle"] /\ fTmp' = [fTmp EXCEPT ![p] = NoFile]
      /\ fInv' = [fInv EXCEPT ![p] = {}] /\ fMem' = [fMem EXCEPT ![p] = Unread]
      /\ fLock' = IF fLock = p THEN NoRunner ELSE fLock
  BY DEF FileLeave, FileGoto
<1>2. LocalFilesTypeOK
  BY DEF FilesInv
<1>3. /\ FileMoves(p) /\ fPc'[p] = "idle" /\ fTmp'[p] = NoFile /\ fInv'[p] = {}
  BY <1>1, <1>2 DEF LocalFilesTypeOK, FileMoves
<1>4. LocalFilesTypeOK'
  <2>1. Unread \in States /\ "idle" \in FilePhases
    BY SMT, FilesAssumption DEF Unread, States, HeadVersion, FilePhases
  <2> QED
    BY <1>1, <1>2, <2>1 DEF LocalFilesTypeOK
<1>5. FilePhase(p)'
  BY <1>3 DEF FilePhase, Outside, Owning
<1>6. \A q \in Runners \ {p} : FilePhase(q)'
  <2>1. CASE fLock = p
    BY <1>3, <2>1, WaitersKeep
  <2>2. CASE fLock # p
    BY SMT, <1>1, <1>3, <2>2 DEF FilesInv, FilePhase, FileMoves, Upgraded
  <2> QED
    BY <2>1, <2>2
<1>7. NamesInv'
  BY DEF FilesInv, NamesInv, FinalIsComplete
<1>8. SparesLive
  <2>1. ASSUME NEW q \in Runners, fTmp[q] # NoFile, fTmp[q] \in fLinked,
               fTmp[q] \notin fLinked', q # p
        PROVE  FALSE
    <3>1. fTmp[q] = fTmp[p]
      BY <2>1
    <3>2. fPc[q] \in Owning /\ fPc[p] \in Owning
      BY <2>1, <3>1 DEF FilesInv, FilePhase
    <3> QED
      BY ZenonT(40), <2>1, <3>2 DEF FilesInv, FilePhase, Owning, Outside
  <2> QED
    BY <1>3, <2>1 DEF SparesLive
<1>9. SparesCopies
  BY <1>3 DEF SparesCopies, FileMoves
<1>10. KeepsReported /\ UpgradesBacked
  <2>1. UpgradesBacked
    BY DEF UpgradesBacked
  <2>2. LocalFilesTypeOK /\ NamesInv
    BY <1>2 DEF FilesInv
  <2>3. KeepsReported
    BY <2>2, ReportedStays
  <2> QED
    BY <2>1, <2>3
<1> QED
  BY <1>4, <1>5, <1>6, <1>7, <1>8, <1>9, <1>10 DEF FilesStep, FilesInv

\* publisher_lock is taken by a process that was outside.
LEMMA CommandEnterStep ==
    ASSUME FilesInv, NEW p \in Runners, NEW phase \in {"init", "restore", "upgrade", "sweep"},
           fPc[p] \in Outside, Lock(p), FileGoto(p, phase),
           phase = "upgrade" => fFinal # NoFile,
           UNCHANGED <<fTmp, fMem, fInv, fLinked, fUnsynced, fFinal, fDfinal, fBytes,
                       fDb, fBackups, fReported>>
    PROVE  FilesStep
<1>1. /\ fPc' = [fPc EXCEPT ![p] = phase] /\ fLock = NoRunner /\ fLock' = p
      /\ fStore' = IF fStore = "absent" THEN "volatile" ELSE fStore
  BY DEF Lock, FileGoto
<1>2. LocalFilesTypeOK /\ FilePhase(p)
  BY DEF FilesInv
<1>3. FileMoves(p) /\ fPc'[p] = phase
  BY <1>1, <1>2 DEF LocalFilesTypeOK, FileMoves
<1>4. LocalFilesTypeOK'
  BY <1>1, <1>2 DEF LocalFilesTypeOK, FilePhases
<1>5. FilePhase(p)'
  <2>1. fTmp'[p] = NoFile /\ fInv'[p] = {}
    BY <1>2 DEF FilePhase, Outside, Owning
  <2> QED
    BY <1>1, <1>3, <2>1 DEF FilePhase, Outside, Owning
<1>6. \A q \in Runners \ {p} : FilePhase(q)'
  BY <1>1, <1>3, WaitersKeep
<1>7. NamesInv'
  BY <1>1 DEF FilesInv, NamesInv, FinalIsComplete
<1> QED
  BY <1>4, <1>5, <1>6, <1>7, QuietFiles DEF FilesStep, FilesInv

\* What is done without the lock touches no file.
LEMMA OutsideStep ==
    ASSUME FilesInv, NEW p \in Runners, NEW phase \in Outside, fPc[p] = "idle",
           FileGoto(p, phase), NEW m \in States, fMem' = [fMem EXCEPT ![p] = m],
           UNCHANGED <<fStore, fLock, fTmp, fInv, fLinked, fUnsynced, fFinal, fDfinal,
                       fBytes, fDb, fBackups, fReported>>
    PROVE  FilesStep
<1>1. LocalFilesTypeOK /\ FilePhase(p)
  BY DEF FilesInv
<1>2. FileMoves(p) /\ fPc'[p] = phase
  BY <1>1 DEF LocalFilesTypeOK, FileGoto, FileMoves
<1>3. LocalFilesTypeOK'
  BY <1>1 DEF LocalFilesTypeOK, FileGoto, FilePhases, Outside
<1>4. FilePhase(p)'
  <2>1. fTmp'[p] = NoFile /\ fInv'[p] = {}
    BY <1>1 DEF FilePhase, Outside, Owning
  <2> QED
    BY <1>2, <2>1 DEF FilePhase, Outside, Owning
<1>5. \A q \in Runners \ {p} : FilePhase(q)'
  BY SMT, <1>2 DEF FilesInv, FilePhase, FileMoves, Upgraded
<1>6. NamesInv'
  BY DEF FilesInv, NamesInv, FinalIsComplete
<1> QED
  BY <1>3, <1>4, <1>5, <1>6, QuietFiles DEF FilesStep, FilesInv

\* What the holder of the lock does concerns its own phase and the names only.
LEMMA HolderStep ==
    ASSUME FilesInv, NEW p \in Runners, fPc[p] \notin Outside, FileMoves(p),
           LocalFilesTypeOK', FilePhase(p)', NamesInv'
    PROVE  FilesInv'
<1>1. fLock = p
  BY DEF FilesInv, FilePhase
<1>2. \A q \in Runners \ {p} : FilePhase(q)'
  BY <1>1, WaitersKeep
<1> QED
  BY <1>2 DEF FilesInv

\* os.open with O_EXCL makes a file nobody has seen.
LEMMA CreateStep ==
    ASSUME FilesInv, NEW p \in Runners, InitCreate(p) \/ RestoreCreate(p)
    PROVE  FilesStep
<1>1. PICK phase \in {"building", "copying"} :
         /\ Create(p, phase)
         /\ fPc[p] = IF phase = "building" THEN "init" ELSE "copy"
  BY DEF InitCreate, RestoreCreate
<1>2. PICK t \in Fresh :
         /\ fTmp' = [fTmp EXCEPT ![p] = t] /\ fBytes' = [fBytes EXCEPT ![t] = "partial"]
         /\ fLinked' = fLinked \cup {t} /\ fUnsynced' = fUnsynced \cup {t}
         /\ fPc' = [fPc EXCEPT ![p] = phase]
         /\ UNCHANGED <<fStore, fLock, fMem, fInv, fFinal, fDfinal, fDb, fBackups, fReported>>
  BY <1>1 DEF Create, FileGoto
<1>3. t \in Tokens /\ fBytes[t] = "none"
  BY DEF Fresh
<1>4. LocalFilesTypeOK /\ FilePhase(p) /\ NamesInv
  BY DEF FilesInv
<1>5. /\ FileMoves(p) /\ fPc'[p] = phase /\ fTmp'[p] = t /\ fBytes'[t] = "partial"
      /\ \A f \in Files \ {t} : fBytes'[f] = fBytes[f]
      /\ t \notin fDfinal \cup {fFinal}
  <2>1. t # NoFile
    BY <1>3, FilesAssumption
  <2> QED
    BY ZenonT(40), <1>2, <1>3, <1>4, <2>1
       DEF LocalFilesTypeOK, FileMoves, Files, NamesInv, FinalIsComplete
<1>6. LocalFilesTypeOK'
  BY <1>2, <1>3, <1>4 DEF LocalFilesTypeOK, FilePhases
<1>7. FilePhase(p)'
  <2>1. fLock' = p /\ fInv'[p] = {} /\ (phase = "copying" => fStore' = "durable")
    BY <1>1, <1>2, <1>4 DEF FilePhase, Outside
  <2> QED
    BY <1>3, <1>5, <2>1 DEF FilePhase, Outside, Owning
<1>8. NamesInv'
  <2>1. \A f \in (fDfinal \cup {fFinal}) \ {NoFile} : f \in Files
    BY <1>4 DEF LocalFilesTypeOK
  <2> QED
    BY <1>2, <1>4, <1>5, <2>1 DEF NamesInv, FinalIsComplete
<1>9. FilesInv'
  BY <1>1, <1>5, <1>6, <1>7, <1>8, HolderStep DEF Outside
<1>10. KeepsReported /\ UpgradesBacked /\ SparesLive /\ SparesCopies
  <2>1. UpgradesBacked /\ SparesLive /\ SparesCopies
    BY <1>2 DEF UpgradesBacked, SparesLive, SparesCopies
  <2>3. KeepsReported
    BY <1>2, <1>4, ReportedStays
  <2> QED
    BY <2>1, <2>3
<1> QED
  BY <1>9, <1>10 DEF FilesStep

\* The content of a file that is not in place yet is nobody's database.
LEMMA OwnFileStep ==
    ASSUME FilesInv, NEW p \in Runners, NEW phase \in {"built", "sealed", "install"},
           fPc[p] \in {"building", "built", "copying"}, FileGoto(p, phase),
           NEW b \in {"whole", "synced"}, fBytes' = [fBytes EXCEPT ![fTmp[p]] = b],
           b = (IF phase = "built" THEN "whole" ELSE "synced"),
           phase = "install" => fPc[p] = "copying",
           NEW s \in States, fDb' = [fDb EXCEPT ![fTmp[p]] = s],
           UNCHANGED <<fStore, fLock, fTmp, fMem, fInv, fLinked, fUnsynced, fFinal,
                       fDfinal, fBackups, fReported>>
    PROVE  FilesStep
<1> DEFINE t == fTmp[p]
<1>1. LocalFilesTypeOK /\ FilePhase(p) /\ NamesInv
  BY DEF FilesInv
<1>2. t \in Tokens /\ fBytes[t] # "synced" /\ fLock = p
  BY <1>1 DEF FilePhase, Owning, Outside
<1>3. t \in Files /\ t # NoFile /\ t \notin fDfinal \cup {fFinal}
  BY <1>1, <1>2, FilesAssumption
     DEF Files, NamesInv, FinalIsComplete
<1>4. /\ FileMoves(p) /\ fPc'[p] = phase /\ fBytes'[t] = b
      /\ \A f \in Files \ {t} : fBytes'[f] = fBytes[f] /\ fDb'[f] = fDb[f]
  BY <1>1, <1>3 DEF LocalFilesTypeOK, FileGoto, FileMoves
<1>5. LocalFilesTypeOK'
  BY <1>1, <1>3 DEF LocalFilesTypeOK, FileGoto, FilePhases
<1>6. FilePhase(p)'
  <2>1. fInv'[p] = {} /\ (phase = "install" => fStore' = "durable")
    BY <1>1 DEF FilePhase
  <2> QED
    BY <1>2, <1>4, <2>1 DEF FilePhase, Outside, Owning
<1>7. \A f \in (fDfinal \cup {fFinal}) \ {NoFile} : f \in Files
  BY <1>1 DEF LocalFilesTypeOK
<1>8. NamesInv'
  BY <1>1, <1>3, <1>4, <1>7 DEF NamesInv, FinalIsComplete
<1>9. FilesInv'
  BY <1>4, <1>5, <1>6, <1>8, HolderStep DEF Outside
<1>10. UpgradesBacked /\ SparesLive /\ SparesCopies
  BY <1>3, <1>4 DEF UpgradesBacked, SparesLive, SparesCopies
<1>11. KeepsReported
  <2>1. fReported => fFinal \in Files \ {t}
    BY <1>1, <1>3 DEF NamesInv, LocalFilesTypeOK
  <2>2. fReported => fDb'[fFinal] = fDb[fFinal]
    BY <1>4, <2>1
  <2> QED
    BY <1>1, <2>2, ReportedStays
<1> QED
  BY <1>9, <1>10, <1>11 DEF FilesStep

\* A step of the lock holder that changes no bytes and nothing in the database:
\* its phase and what is known of the names.
LEMMA HolderMoves ==
    ASSUME FilesInv, NEW p \in Runners, NEW phase \in FilePhases, FileGoto(p, phase),
           fPc[p] \notin Outside, FilePhase(p)', NamesInv',
           fStore' \in {"absent", "volatile", "durable"}, fUnsynced' \in SUBSET Tokens,
           fFinal' \in Files \cup {NoFile}, fDfinal' \in SUBSET (Files \cup {NoFile}),
           UNCHANGED <<fLock, fTmp, fMem, fInv, fLinked, fBytes, fDb, fBackups, fReported>>,
           fFinal' # fFinal => fFinal = NoFile
    PROVE  FilesStep
<1>1. LocalFilesTypeOK /\ NamesInv
  BY DEF FilesInv
<1>2. FileMoves(p)
  BY <1>1 DEF LocalFilesTypeOK, FileGoto, FileMoves
<1>3. LocalFilesTypeOK'
  BY <1>1 DEF LocalFilesTypeOK, FileGoto
<1>4. FilesInv'
  BY <1>2, <1>3, HolderStep
<1>5. UpgradesBacked /\ SparesLive /\ SparesCopies
  BY DEF UpgradesBacked, SparesLive, SparesCopies
<1>6. KeepsReported
  <2>1. fReported => fFinal' = fFinal /\ fDb'[fFinal] = fDb[fFinal]
    BY <1>1 DEF NamesInv
  <2> QED
    BY <1>1, <2>1, ReportedStays
<1> QED
  BY <1>4, <1>5, <1>6 DEF FilesStep

\* fsync_directory_chain, os.link, fsync_directory and whatever of them fails.
LEMMA InstallStep ==
    ASSUME FilesInv, NEW p \in Runners,
           ChainSync(p) \/ Install(p) \/ InstalledSync(p) \/ Fail(p)
    PROVE  FilesStep
<1>1. LocalFilesTypeOK /\ FilePhase(p) /\ NamesInv
  BY DEF FilesInv
<1>2. CASE ChainSync(p)
  <2>1. PICK phase \in {"install", "copy"} :
           /\ FileGoto(p, phase)
           /\ IF phase = "install" THEN fPc[p] = "sealed" ELSE fPc[p] = "restore"
    BY <1>2 DEF ChainSync
  <2>2. /\ fStore' = "durable" /\ fDfinal' = {fFinal} /\ fUnsynced' = {}
        /\ UNCHANGED <<fLock, fTmp, fMem, fInv, fLinked, fFinal, fBytes, fDb, fBackups, fReported>>
    BY <1>2 DEF ChainSync, SyncNames, Keep
  <2>3. fPc'[p] = phase /\ fPc[p] \notin Outside /\ phase \in FilePhases
    BY <1>1, <2>1 DEF FileGoto, LocalFilesTypeOK, Outside, FilePhases
  <2>4. FilePhase(p)'
    BY <1>1, <2>1, <2>2, <2>3 DEF FilePhase, Outside, Owning
  <2>5. NamesInv'
    BY <1>1, <2>2 DEF NamesInv, FinalIsComplete
  <2> QED
    BY <1>1, <2>1, <2>2, <2>3, <2>4, <2>5, HolderMoves DEF LocalFilesTypeOK
<1>3. CASE Install(p) /\ fFinal = NoFile
  <2>1. /\ fPc[p] = "install" /\ FileGoto(p, "installed")
        /\ fFinal' = fTmp[p] /\ fDfinal' = fDfinal \cup {fTmp[p]}
        /\ UNCHANGED <<fStore, fUnsynced, fLock, fTmp, fMem, fInv, fLinked, fBytes, fDb,
                       fBackups, fReported>>
    BY <1>3 DEF Install, Keep
  <2>2. /\ fTmp[p] \in Tokens /\ fBytes[fTmp[p]] = "synced" /\ fStore = "durable"
        /\ fLock = p /\ fInv[p] = {}
    BY <1>1, <2>1 DEF FilePhase, Outside, Owning
  <2>3. fPc'[p] = "installed" /\ fPc[p] \notin Outside /\ "installed" \in FilePhases
    BY <1>1, <2>1 DEF FileGoto, LocalFilesTypeOK, Outside, FilePhases
  <2>4. FilePhase(p)'
    BY <2>1, <2>2, <2>3 DEF FilePhase, Outside, Owning
  <2>5. NamesInv'
    BY <1>1, <1>3, <2>1, <2>2 DEF NamesInv, FinalIsComplete
  <2> QED
    BY <1>1, <1>3, <2>1, <2>2, <2>3, <2>4, <2>5, HolderMoves DEF LocalFilesTypeOK, Files
<1>4. CASE InstalledSync(p)
  <2>1. /\ fPc[p] = "installed" /\ FileGoto(p, "discard") /\ fDfinal' = {fFinal} /\ fUnsynced' = {}
        /\ UNCHANGED <<fStore, fFinal, fLock, fTmp, fMem, fInv, fLinked, fBytes, fDb, fBackups,
                       fReported>>
    BY <1>4 DEF InstalledSync, SyncNames, Keep
  <2>2. fTmp[p] \in Tokens /\ fFinal = fTmp[p] /\ fLock = p /\ fInv[p] = {} /\ fFinal # NoFile
    BY <1>1, <2>1, FilesAssumption DEF FilePhase, Outside, Owning
  <2>3. fPc'[p] = "discard" /\ fPc[p] \notin Outside /\ "discard" \in FilePhases
    BY <1>1, <2>1 DEF FileGoto, LocalFilesTypeOK, Outside, FilePhases
  <2>4. FilePhase(p)'
    BY <2>1, <2>2, <2>3 DEF FilePhase, Outside, Owning
  <2>5. NamesInv'
    BY <1>1, <2>1 DEF NamesInv, FinalIsComplete
  <2> QED
    BY <1>1, <2>1, <2>3, <2>4, <2>5, HolderMoves DEF LocalFilesTypeOK
<1>5. CASE Fail(p) \/ (Install(p) /\ fFinal # NoFile)
  <2>1. /\ fPc[p] \in {"building", "built", "sealed", "copying", "install", "installed"}
        /\ FileGoto(p, "fail")
        /\ UNCHANGED <<fStore, fFinal, fDfinal, fUnsynced, fLock, fTmp, fMem, fInv, fLinked,
                       fBytes, fDb, fBackups, fReported>>
    BY <1>5 DEF Fail, Install, Keep
  <2>2. fTmp[p] \in Tokens /\ fLock = p /\ fInv[p] = {}
    BY <1>1, <2>1 DEF FilePhase, Outside, Owning
  <2>3. fPc'[p] = "fail" /\ fPc[p] \notin Outside /\ "fail" \in FilePhases
    BY <1>1, <2>1 DEF FileGoto, LocalFilesTypeOK, Outside, FilePhases
  <2>4. FilePhase(p)'
    BY <2>1, <2>2, <2>3 DEF FilePhase, Outside, Owning
  <2>5. NamesInv'
    BY <1>1, <2>1 DEF NamesInv, FinalIsComplete
  <2> QED
    BY <1>1, <2>1, <2>3, <2>4, <2>5, HolderMoves DEF LocalFilesTypeOK
<1> QED
  BY <1>2, <1>3, <1>4, <1>5

\* upgrade_graph_database backs up what it read, and _apply commits only on top
\* of exactly that.
LEMMA UpgradeStep ==
    ASSUME FilesInv, NEW p \in Runners, UpgradeBackup(p) \/ Apply(p)
    PROVE  FilesStep
<1>1. LocalFilesTypeOK /\ FilePhase(p) /\ NamesInv
  BY DEF FilesInv
<1>2. fPc[p] \in {"upgrade", "backed_up"} /\ fPc[p] \notin Outside
  BY DEF UpgradeBackup, Apply, Outside
<1>3. /\ fLock = p /\ fTmp[p] = NoFile /\ fInv[p] = {} /\ fFinal \in Files /\ fFinal # NoFile
      /\ fDb[fFinal] \in States /\ fMem[p] \in States
  BY <1>1, <1>2 DEF FilePhase, Outside, Owning, LocalFilesTypeOK
<1>4. CASE UpgradeBackup(p)
  <2>1. /\ fDb[fFinal].version < HeadVersion /\ fMem' = [fMem EXCEPT ![p] = fDb[fFinal]]
        /\ fBackups' = fBackups \cup {fDb[fFinal]} /\ fPc' = [fPc EXCEPT ![p] = "backed_up"]
        /\ UNCHANGED <<fStore, fLock, fTmp, fInv, fLinked, fUnsynced, fFinal, fDfinal, fBytes,
                       fDb, fReported>>
    BY <1>4 DEF UpgradeBackup, FileGoto
  <2>2. FileMoves(p) /\ fPc'[p] = "backed_up" /\ fMem'[p] = fDb[fFinal]
    BY <1>1, <2>1 DEF LocalFilesTypeOK, FileMoves
  <2>3. LocalFilesTypeOK'
    BY <1>1, <1>3, <2>1 DEF LocalFilesTypeOK, FilePhases
  <2>4. FilePhase(p)'
    <3>1. /\ fLock' = p /\ fTmp'[p] = NoFile /\ fInv'[p] = {} /\ fFinal' # NoFile
          /\ fMem'[p] = fDb'[fFinal'] /\ fMem'[p] \in fBackups'
          /\ fMem'[p].version < HeadVersion
      BY SMT, <1>3, <2>1, <2>2
    <3> QED
      BY <2>2, <3>1 DEF FilePhase, Outside, Owning
  <2>5. NamesInv'
    BY <1>1, <2>1 DEF NamesInv, FinalIsComplete
  <2> QED
    BY <1>2, <2>1, <2>2, <2>3, <2>4, <2>5, HolderStep, QuietFiles DEF FilesStep
<1>5. CASE Apply(p)
  <2>1. /\ fPc[p] = "backed_up" /\ fPc' = [fPc EXCEPT ![p] = "confirm"]
        /\ CommitInPlace(Upgraded(fMem[p])) \/ UNCHANGED <<fDb, fDfinal, fUnsynced>>
        /\ UNCHANGED <<fStore, fLock, fTmp, fMem, fInv, fLinked, fFinal, fBytes, fBackups,
                       fReported>>
    <3>1. fPc[p] = "backed_up" /\ fMem[p] = fDb[fFinal]
      BY <1>1, <1>5 DEF Apply, FilePhase
    <3> QED
      BY <1>5, <3>1 DEF Apply, FileGoto, Keep
  <2>2. FileMoves(p) /\ fPc'[p] = "confirm"
    BY <1>1, <2>1 DEF LocalFilesTypeOK, FileMoves
  <2>3. /\ fMem[p] = fDb[fFinal] /\ fMem[p] \in fBackups /\ fMem[p].version < HeadVersion
    BY <1>1, <2>1 DEF FilePhase
  <2>4. CASE CommitInPlace(Upgraded(fMem[p]))
    <3>1. /\ fDb' = [fDb EXCEPT ![fFinal] = Upgraded(fMem[p])]
          /\ fDfinal' = {fFinal} /\ fUnsynced' = {}
      BY <2>4 DEF CommitInPlace, SyncNames
    <3>2. /\ Upgraded(fMem[p]) \in States /\ Upgraded(fMem[p]).version = HeadVersion
          /\ Upgraded(fMem[p]).gen = fMem[p].gen
      BY SMT, <1>3 DEF Upgraded, States, HeadVersion
    <3>3. /\ fDb'[fFinal] = Upgraded(fMem[p])
          /\ \A f \in Files \ {fFinal} : fDb'[f] = fDb[f]
      BY <1>1, <1>3, <3>1 DEF LocalFilesTypeOK
    <3>4. LocalFilesTypeOK'
      BY <1>1, <1>3, <2>1, <3>1, <3>2 DEF LocalFilesTypeOK, FilePhases
    <3>5. FilePhase(p)'
      BY <1>3, <2>1, <2>2, <2>3, <3>1 DEF FilePhase, Outside, Owning, HeadVersion
    <3>6. NamesInv'
      BY <1>1, <1>3, <2>1, <3>1 DEF NamesInv, FinalIsComplete
    <3>7. UpgradesBacked
      BY <2>3, <3>2, <3>3 DEF UpgradesBacked
    <3>8. SparesLive /\ SparesCopies
      BY <2>1 DEF SparesLive, SparesCopies
    <3>9. KeepsReported
      <4>1. fMem[p].gen \in Nat /\ fMem[p].version <= HeadVersion
        BY SMT, <1>3 DEF States, HeadVersion
      <4>2. fDb'[fFinal].gen = fDb[fFinal].gen /\ fDb[fFinal].gen \in Nat
        BY <2>3, <3>2, <3>3, <4>1
      <4>3. fDb'[fFinal].gen >= fDb[fFinal].gen
        BY SMT, <4>2
      <4>4. fDb[fFinal].version \in Nat /\ fDb'[fFinal].version = HeadVersion
        BY SMT, <1>3, <3>2, <3>3 DEF States, HeadVersion
      <4>5. fDb'[fFinal].version >= fDb[fFinal].version
        BY <2>3, <4>1, <4>4 DEF HeadVersion
      <4> QED
        BY <1>3, <2>1, <4>3, <4>5 DEF KeepsReported
    <3> QED
      BY <1>2, <2>2, <3>4, <3>5, <3>6, <3>7, <3>8, <3>9, HolderStep DEF FilesStep
  <2>5. CASE UNCHANGED <<fDb, fDfinal, fUnsynced>>
    <3>1. LocalFilesTypeOK'
      BY <1>1, <2>1, <2>5 DEF LocalFilesTypeOK, FilePhases
    <3>2. fDb[fFinal] # Upgraded(fMem[p])
      BY SMT, <1>3, <2>3 DEF Upgraded, States, HeadVersion
    <3>3. FilePhase(p)'
      BY <1>3, <2>1, <2>2, <2>3, <2>5, <3>2 DEF FilePhase, Outside, Owning, HeadVersion, Upgraded
    <3>4. NamesInv'
      BY <1>1, <2>1, <2>5 DEF NamesInv, FinalIsComplete
    <3> QED
      BY <1>2, <2>1, <2>2, <2>5, <3>1, <3>3, <3>4, HolderStep, QuietFiles DEF FilesStep
  <2> QED
    BY <2>1, <2>4, <2>5
<1> QED
  BY <1>4, <1>5

\* inventory_orphans and remove_orphan: only names without an owner, and beside
\* no database only partial files.
LEMMA SweepStep ==
    ASSUME FilesInv, NEW p \in Runners, Inventory(p) \/ Remove(p)
    PROVE  FilesStep
<1>1. LocalFilesTypeOK /\ FilePhase(p) /\ NamesInv
  BY DEF FilesInv
<1>2. /\ fPc[p] \in {"sweep", "remove"} /\ fPc[p] \notin Outside /\ fTmp[p] = NoFile
      /\ fLock = p
  BY <1>1 DEF Inventory, Inspects, Remove, Outside, FilePhase, Owning
<1>3. CASE Inventory(p)
  <2>1. PICK kept \in SUBSET {t \in fLinked : fFinal = NoFile /\ fBytes[t] = "partial"} :
           fInv' = [fInv EXCEPT ![p] = Removable \ kept]
    BY <1>3 DEF Inventory
  <2>2. /\ fPc' = [fPc EXCEPT ![p] = "remove"]
        /\ UNCHANGED <<fStore, fLock, fTmp, fMem, fLinked, fUnsynced, fFinal, fDfinal, fBytes,
                       fDb, fBackups, fReported>>
    BY <1>3 DEF Inventory, FileGoto
  <2>3. /\ Removable \in SUBSET Tokens
        /\ \A t \in Removable : fBytes[t] = "partial" \/ fFinal # NoFile
    BY <1>1 DEF Removable, LocalFilesTypeOK
  <2>4. FileMoves(p) /\ fPc'[p] = "remove" /\ fInv'[p] = Removable \ kept
    BY <1>1, <2>1, <2>2 DEF LocalFilesTypeOK, FileMoves
  <2>5. LocalFilesTypeOK'
    BY <1>1, <2>1, <2>2, <2>3 DEF LocalFilesTypeOK, FilePhases
  <2>6. FilePhase(p)'
    BY <1>2, <2>2, <2>3, <2>4 DEF FilePhase, Outside, Owning
  <2>7. NamesInv'
    BY <1>1, <2>2 DEF NamesInv, FinalIsComplete
  <2> QED
    BY <1>2, <2>2, <2>4, <2>5, <2>6, <2>7, HolderStep, QuietFiles DEF FilesStep
<1>4. CASE Remove(p)
  <2>1. PICK t \in fInv[p] :
           /\ fInv' = [fInv EXCEPT ![p] = fInv[p] \ {t}]
           /\ \/ fLinked' = fLinked \ {t} /\ fUnsynced' = fUnsynced \cup {t}
              \/ UNCHANGED <<fLinked, fUnsynced>>
    BY <1>4 DEF Remove
  <2>2. /\ fPc[p] = "remove"
        /\ UNCHANGED <<fStore, fLock, fPc, fTmp, fMem, fFinal, fDfinal, fBytes, fDb, fBackups,
                       fReported>>
    BY <1>4 DEF Remove
  <2>3. FileMoves(p) /\ fInv'[p] = fInv[p] \ {t}
    BY <1>1, <2>1, <2>2 DEF LocalFilesTypeOK, FileMoves
  <2>4. LocalFilesTypeOK'
    BY SMT, <1>1, <2>1, <2>2 DEF LocalFilesTypeOK
  <2>5. FilePhase(p)'
    BY <1>1, <2>2, <2>3 DEF FilePhase, Outside, Owning
  <2>6. NamesInv'
    BY <1>1, <2>2 DEF NamesInv, FinalIsComplete
  <2>7. FilesInv'
    BY <1>2, <2>3, <2>4, <2>5, <2>6, HolderStep
  <2>8. \A q \in Runners \ {p} : fTmp[q] = NoFile /\ fInv[q] = {}
    BY <1>2, <2>3, WaitersKeep
  <2>9. SparesLive
    BY <1>2, <2>8 DEF SparesLive
  <2>10. SparesCopies
    BY <1>1, <2>2, <2>8 DEF SparesCopies, FilePhase
  <2>11. KeepsReported /\ UpgradesBacked
    <3>1. KeepsReported
      BY <1>1, <2>2, ReportedStays
    <3>2. UpgradesBacked
      BY <2>2 DEF UpgradesBacked
    <3> QED
      BY <3>1, <3>2
  <2> QED
    BY <2>7, <2>9, <2>10, <2>11 DEF FilesStep
<1> QED
  BY <1>3, <1>4

\* A publication and a completed backup find the lock free: no command is in a
\* phase that depends on the database.
LEMMA FreeStep ==
    ASSUME FilesInv, NEW p \in Runners, Publish(p) \/ BackupDone(p)
    PROVE  FilesStep
<1>1. LocalFilesTypeOK /\ NamesInv
  BY DEF FilesInv
<1>2. /\ fLock = NoRunner /\ fFinal # NoFile /\ fFinal \in Files /\ fDb[fFinal] \in States
      /\ UNCHANGED <<fStore, fLock, fPc, fTmp, fMem, fInv, fLinked, fFinal, fBytes>>
  BY <1>1 DEF Publish, BackupDone, LocalFilesTypeOK
<1>3. \A q \in Runners : FilePhase(q)'
  <2> TAKE q \in Runners
  <2>1. fPc'[q] \in Outside /\ fTmp'[q] = NoFile /\ fInv'[q] = {}
    BY ZenonT(40), <1>2, FilesAssumption DEF FilesInv, FilePhase, Outside, Owning
  <2> QED
    BY <2>1 DEF FilePhase, Outside, Owning
<1>4. SparesLive /\ SparesCopies
  BY <1>2 DEF SparesLive, SparesCopies
<1>5. CASE Publish(p)
  <2> DEFINE after == [fDb[fFinal] EXCEPT !.gen = fDb[fFinal].gen + 1]
  <2>1. /\ fDb' = [fDb EXCEPT ![fFinal] = after] /\ fDfinal' = {fFinal} /\ fUnsynced' = {}
        /\ fReported' = TRUE /\ fDb[fFinal].gen < MaxGen /\ UNCHANGED fBackups
    BY <1>5 DEF Publish, CommitInPlace, SyncNames
  <2>2. /\ after \in States /\ after.version = fDb[fFinal].version
        /\ after.gen = fDb[fFinal].gen + 1 /\ fDb[fFinal].gen \in Nat
        /\ fDb[fFinal].version \in Nat
    BY SMT, <1>2, <2>1, FilesAssumption DEF States, HeadVersion
  <2> HIDE DEF after
  <2>3. fDb'[fFinal] = after
    BY <1>1, <1>2, <2>1 DEF LocalFilesTypeOK
  <2>4. LocalFilesTypeOK'
    BY <1>1, <1>2, <2>1, <2>2 DEF LocalFilesTypeOK
  <2>5. NamesInv'
    BY <1>1, <1>2, <2>1 DEF NamesInv, FinalIsComplete
  <2>6. KeepsReported /\ UpgradesBacked
    <3>1. /\ fDb'[fFinal].gen >= fDb[fFinal].gen
          /\ fDb'[fFinal].version >= fDb[fFinal].version
      BY SMT, <2>2, <2>3
    <3>2. KeepsReported
      BY <1>2, <3>1 DEF KeepsReported
    <3>3. UpgradesBacked
      BY <2>2, <2>3 DEF UpgradesBacked
    <3> QED
      BY <3>2, <3>3
  <2> QED
    BY <1>3, <1>4, <2>4, <2>5, <2>6 DEF FilesStep, FilesInv
<1>6. CASE BackupDone(p)
  <2>1. fBackups' = fBackups \cup {fDb[fFinal]} /\ UNCHANGED <<fUnsynced, fDfinal, fDb, fReported>>
    BY <1>6 DEF BackupDone
  <2>2. LocalFilesTypeOK'
    BY <1>1, <1>2, <2>1 DEF LocalFilesTypeOK
  <2>3. NamesInv'
    BY <1>1, <1>2, <2>1 DEF NamesInv, FinalIsComplete
  <2> QED
    BY <1>2, <1>3, <2>1, <2>2, <2>3, QuietFiles DEF FilesStep, FilesInv
<1> QED
  BY <1>5, <1>6

\* A power loss takes names and bytes that were not synced; the operator moves
\* the database away with no command running.
LEMMA WorldStep ==
    ASSUME FilesInv, FilePowerLoss \/ MoveAway
    PROVE  FilesStep
<1>1. LocalFilesTypeOK /\ NamesInv
  BY DEF FilesInv
<1>2. CASE FilePowerLoss
  <2>1. /\ fDfinal' = {fFinal'} /\ fUnsynced' = {} /\ fLock' = NoRunner
        /\ fPc' = [p \in Runners |-> "idle"] /\ fTmp' = [p \in Runners |-> NoFile]
        /\ fMem' = [p \in Runners |-> Unread] /\ fInv' = [p \in Runners |-> {}]
        /\ UNCHANGED <<fDb, fBackups, fReported>>
    BY <1>2 DEF FilePowerLoss
  <2>2. /\ fBytes' \in [Files -> {"none", "partial", "whole", "synced"}]
        /\ \A f \in Files : fBytes[f] = "synced" => fBytes'[f] = "synced"
    <3>1. PICK torn \in SUBSET {f \in Files : fBytes[f] = "whole"} :
             fBytes' = [f \in Files |-> IF f \in torn THEN "partial" ELSE fBytes[f]]
      BY <1>2 DEF FilePowerLoss
    <3> QED
      BY <1>1, <3>1 DEF LocalFilesTypeOK
  <2>3. /\ fStore' \in {"absent", "volatile", "durable"}
        /\ fFinal' \in Files \cup {NoFile} /\ fLinked' \in SUBSET Tokens
        /\ fFinal' # NoFile => fFinal' \in fDfinal /\ fStore' = "durable"
        /\ fReported => fFinal' = fFinal /\ fFinal # NoFile
    <3>1. CASE fStore = "volatile" /\ fStore' = "absent" /\ fFinal' = NoFile /\ fLinked' = {}
      BY <1>1, <3>1 DEF NamesInv
    <3>2. CASE /\ fStore' = IF fStore = "volatile" THEN "durable" ELSE fStore
               /\ fFinal' \in fDfinal
               /\ \E back \in SUBSET (fUnsynced \cap Tokens) :
                     fLinked' = (fLinked \ fUnsynced) \cup back
      BY <1>1, <3>2 DEF NamesInv, LocalFilesTypeOK
    <3> QED
      BY <1>2, <3>1, <3>2 DEF FilePowerLoss
  <2>4. LocalFilesTypeOK'
    <3>1. Unread \in States /\ "idle" \in FilePhases
      BY SMT, FilesAssumption DEF Unread, States, HeadVersion, FilePhases
    <3> QED
      BY <1>1, <2>1, <2>2, <2>3, <3>1 DEF LocalFilesTypeOK
  <2>5. \A p \in Runners : FilePhase(p)' /\ fPc'[p] = "idle"
    <3>1. \A p \in Runners : fPc'[p] = "idle" /\ fTmp'[p] = NoFile /\ fInv'[p] = {}
      BY <2>1
    <3> QED
      BY <3>1 DEF FilePhase, Outside, Owning
  <2>6. NamesInv'
    BY <1>1, <2>1, <2>2, <2>3 DEF NamesInv, FinalIsComplete, LocalFilesTypeOK
  <2>7. SparesLive /\ SparesCopies
    BY <2>5 DEF SparesLive, SparesCopies
  <2>8. KeepsReported
    BY <1>1, <2>1, <2>3, ReportedStays
  <2>9. KeepsReported /\ UpgradesBacked
    BY <2>1, <2>8 DEF UpgradesBacked
  <2> QED
    BY <2>4, <2>5, <2>6, <2>7, <2>9 DEF FilesStep, FilesInv
<1>3. CASE MoveAway
  <2>1. /\ fLock = NoRunner /\ fFinal' = NoFile /\ fDfinal' = {NoFile} /\ fReported' = FALSE
        /\ UNCHANGED <<fStore, fLock, fPc, fTmp, fMem, fInv, fLinked, fUnsynced, fBytes, fDb,
                       fBackups>>
    BY <1>3 DEF MoveAway
  <2>2. LocalFilesTypeOK'
    BY <1>1, <2>1 DEF LocalFilesTypeOK
  <2>3. ASSUME NEW q \in Runners PROVE FilePhase(q)'
    <3>1. fPc'[q] \in Outside /\ fTmp'[q] = NoFile /\ fInv'[q] = {}
      BY ZenonT(40), <2>1, FilesAssumption DEF FilesInv, FilePhase, Outside, Owning
    <3> QED
      BY <3>1 DEF FilePhase, Outside, Owning
  <2>4. NamesInv'
    BY <1>1, <2>1 DEF NamesInv, FinalIsComplete
  <2>5. KeepsReported /\ UpgradesBacked /\ SparesLive /\ SparesCopies
    BY <2>1 DEF KeepsReported, UpgradesBacked, SparesLive, SparesCopies
  <2> QED
    BY <2>2, <2>3, <2>4, <2>5 DEF FilesStep, FilesInv
<1> QED
  BY <1>2, <1>3

\* Every command keeps the files in order, whatever runs beside it and wherever
\* it dies.
LEMMA CommandStep ==
    ASSUME FilesInv, NEW p \in Runners,
           \/ InitEnter(p) \/ Existing(p) \/ InitCreate(p) \/ Build(p) \/ Seal(p)
           \/ ChainSync(p) \/ RestoreChecks(p) \/ RestoreEnter(p)
           \/ RestoreCreate(p) \/ Copy(p) \/ Install(p) \/ InstalledSync(p)
           \/ Fail(p) \/ DiscardTemporary(p) \/ FailEarly(p)
           \/ UpgradeEnter(p) \/ UpgradeBackup(p) \/ AlreadyCurrent(p)
           \/ Apply(p) \/ Confirm(p) \/ Publish(p) \/ BackupDone(p)
           \/ CleanupEnter(p) \/ Inventory(p) \/ NotInspected(p) \/ Remove(p)
           \/ CleanupDone(p) \/ FileCrash(p)
    PROVE  FilesStep
<1>1. LocalFilesTypeOK /\ FilePhase(p) /\ NamesInv
  BY DEF FilesInv
<1>2. CASE InitEnter(p) \/ UpgradeEnter(p)
  BY <1>2, CommandEnterStep DEF InitEnter, UpgradeEnter, Outside
<1>3. CASE \/ Existing(p) \/ FailEarly(p) \/ AlreadyCurrent(p) \/ NotInspected(p)
           \/ CleanupDone(p) \/ FileCrash(p)
  <2>1. /\ FileLeave(p)
        /\ UNCHANGED <<fStore, fFinal, fDfinal, fBytes, fDb, fBackups, fLinked, fUnsynced,
                       fReported>>
    BY <1>3 DEF Existing, FailEarly, AlreadyCurrent, NotInspected, CleanupDone, FileCrash
  <2> QED
    BY <1>1, <2>1, CommandLeaveStep DEF LocalFilesTypeOK
<1>4. CASE DiscardTemporary(p)
  <2>1. /\ FileLeave(p) /\ UNCHANGED <<fStore, fFinal, fDfinal, fBytes, fDb, fBackups>>
        /\ \/ fLinked' = fLinked \ {fTmp[p]} /\ fUnsynced' = fUnsynced \cup {fTmp[p]}
           \/ UNCHANGED <<fLinked, fUnsynced>>
        /\ fReported' = (fReported \/ fPc[p] = "discard") /\ fPc[p] \in {"discard", "fail"}
    BY <1>4 DEF DiscardTemporary
  <2>2. fTmp[p] \in Tokens /\ (fPc[p] = "discard" => fFinal # NoFile /\ fDfinal = {fFinal})
    BY <1>1, <2>1 DEF FilePhase, Owning
  <2>3. /\ fLinked' \in SUBSET Tokens /\ fUnsynced' \in SUBSET Tokens
        /\ fLinked \ fLinked' \subseteq {fTmp[p]} /\ fReported' \in BOOLEAN
    BY <1>1, <2>1, <2>2 DEF LocalFilesTypeOK
  <2> QED
    BY <2>1, <2>2, <2>3, CommandLeaveStep
<1>5. CASE Confirm(p)
  <2>1. /\ FileLeave(p)
        /\ UNCHANGED <<fStore, fFinal, fDfinal, fBytes, fDb, fBackups, fLinked, fUnsynced>>
        /\ fReported' = (fReported \/ fDb[fFinal] = Upgraded(fMem[p])) /\ fPc[p] = "confirm"
    BY <1>5 DEF Confirm
  <2>2. /\ fReported' \in BOOLEAN
        /\ fReported' => fReported \/ (fFinal # NoFile /\ fDfinal = {fFinal})
    BY <1>1, <2>1 DEF FilePhase, LocalFilesTypeOK
  <2> QED
    BY <1>1, <2>1, <2>2, CommandLeaveStep DEF LocalFilesTypeOK
<1>6. CASE RestoreEnter(p)
  <2>1. CASE Lock(p) /\ FileGoto(p, "restore") /\ UNCHANGED <<fTmp, fMem, fInv>>
    BY <1>6, <2>1, CommandEnterStep DEF RestoreEnter, Outside
  <2>2. CASE FileLeave(p) /\ UNCHANGED fStore
    <3>1. UNCHANGED <<fFinal, fDfinal, fBytes, fDb, fBackups, fLinked, fUnsynced, fReported>>
      BY <1>6 DEF RestoreEnter
    <3> QED
      BY <1>1, <2>2, <3>1, CommandLeaveStep DEF LocalFilesTypeOK
  <2> QED
    BY <1>6, <2>1, <2>2 DEF RestoreEnter
<1>7. CASE RestoreChecks(p)
  <2>1. PICK b \in fBackups : fMem' = [fMem EXCEPT ![p] = b]
    BY <1>7 DEF RestoreChecks
  <2>2. b \in States
    BY <1>1 DEF LocalFilesTypeOK
  <2> QED
    BY <1>7, <2>1, <2>2, OutsideStep DEF RestoreChecks, Outside
<1>8. CASE CleanupEnter(p)
  <2>1. fMem' = [fMem EXCEPT ![p] = fMem[p]] /\ fMem[p] \in States
    BY <1>1, <1>8 DEF CleanupEnter, LocalFilesTypeOK
  <2>2. CASE FileGoto(p, "no_store") /\ UNCHANGED <<fStore, fLock>>
    BY <1>8, <2>1, <2>2, OutsideStep DEF CleanupEnter, Outside
  <2>3. CASE Lock(p) /\ FileGoto(p, "sweep")
    BY <1>8, <2>3, CommandEnterStep DEF CleanupEnter, Outside
  <2> QED
    BY <1>8, <2>2, <2>3 DEF CleanupEnter
<1>9. CASE Build(p)
  <2>1. [version |-> HeadVersion, gen |-> 0] \in States
    BY SMT, FilesAssumption DEF States, HeadVersion
  <2> QED
    BY <1>9, <2>1, OwnFileStep DEF Build, Keep
<1>10. CASE Seal(p)
  <2>1. fTmp[p] \in Files
    BY <1>1, <1>10 DEF Seal, FilePhase, Owning, Files
  <2>2. fDb' = [fDb EXCEPT ![fTmp[p]] = fDb[fTmp[p]]] /\ fDb[fTmp[p]] \in States
    BY <1>1, <1>10, <2>1 DEF Seal, LocalFilesTypeOK
  <2> QED
    BY <1>10, <2>2, OwnFileStep DEF Seal, Keep
<1>11. CASE Copy(p)
  <2>1. fMem[p] \in States
    BY <1>1 DEF LocalFilesTypeOK
  <2> QED
    BY <1>11, <2>1, OwnFileStep DEF Copy, Keep
<1>12. CASE InitCreate(p) \/ RestoreCreate(p)
  BY <1>12, CreateStep
<1>13. CASE ChainSync(p) \/ Install(p) \/ InstalledSync(p) \/ Fail(p)
  BY <1>13, InstallStep
<1>14. CASE UpgradeBackup(p) \/ Apply(p)
  BY <1>14, UpgradeStep
<1>15. CASE Inventory(p) \/ Remove(p)
  BY <1>15, SweepStep
<1>16. CASE Publish(p) \/ BackupDone(p)
  BY <1>16, FreeStep
<1> QED
  BY Zenon, <1>2, <1>3, <1>4, <1>5, <1>6, <1>7, <1>8, <1>9, <1>10, <1>11, <1>12, <1>13,
     <1>14, <1>15, <1>16

\* The files are in order at first: there is no store, or a database in one.
LEMMA FilesInitially == LocalFilesInit => FilesInv
<1> SUFFICES ASSUME LocalFilesInit PROVE FilesInv
  OBVIOUS
<1>1. LocalFilesTypeOK
  <2>1. MaxGen \in Nat \ {0}
    BY FilesAssumption
  <2>2. Unread \in States
    BY SMT, <2>1 DEF Unread, States, HeadVersion
  <2>3. \A g \in {0, 1} : [version |-> 1, gen |-> g] \in States
    BY SMT, <2>1 DEF States, HeadVersion
  <2> QED
    BY <2>2, <2>3 DEF LocalFilesInit, LocalFilesTypeOK, Files, FilePhases
<1>2. \A p \in Runners : FilePhase(p)
  BY DEF LocalFilesInit, FilePhase, Outside, Owning
<1>3. NamesInv
  BY FilesAssumption
     DEF LocalFilesInit, NamesInv, FinalIsComplete, Files
<1> QED
  BY <1>1, <1>2, <1>3 DEF FilesInv

\* Every step keeps them in order.
LEMMA FilesKept == FilesInv /\ LocalFilesNext => FilesStep
  BY CommandStep, WorldStep DEF LocalFilesNext

\* So does every step of the store.
LEMMA FilesNext == FilesInv /\ [LocalFilesNext]_fileVars =>
                      \/ FilesStep
                      \/ FilesInv' /\ UNCHANGED fileVars
<1> SUFFICES ASSUME FilesInv, [LocalFilesNext]_fileVars
             PROVE  FilesStep \/ (FilesInv' /\ UNCHANGED fileVars)
  OBVIOUS
<1>1. CASE LocalFilesNext
  BY <1>1, FilesKept
<1>2. CASE UNCHANGED fileVars
  <2>1. LocalFilesTypeOK'
    BY <1>2 DEF FilesInv, fileVars, LocalFilesTypeOK
  <2>2. \A p \in Runners : FilePhase(p)'
    BY <1>2 DEF FilesInv, fileVars, FilePhase, Upgraded
  <2>3. NamesInv'
    BY <1>2 DEF FilesInv, fileVars, NamesInv, FinalIsComplete
  <2> QED
    BY <1>2, <2>1, <2>2, <2>3 DEF FilesInv
<1> QED
  BY <1>1, <1>2 DEF LocalFilesNext

\* The files are in order in every reachable state.
LEMMA FilesInvariant == LocalFilesSpec => []FilesInv
<1>1. LocalFilesInit => FilesInv
  BY FilesInitially DEF LocalFilesInit
<1>2. FilesInv /\ [LocalFilesNext]_fileVars => FilesInv'
  BY FilesNext DEF FilesStep
<1> QED
  BY <1>1, <1>2, PTL DEF LocalFilesSpec

\* What is under the final name, or may be found there after a power loss, is
\* complete and durable (initialize_graph_database, install_backup).
THEOREM FinalStaysComplete == LocalFilesSpec => []FinalIsComplete
<1>1. FilesInv => FinalIsComplete
  BY DEF FilesInv, NamesInv, FinalIsComplete
<1> QED
  BY <1>1, FilesInvariant, PTL

\* A reported database stays under its name with all its publications until an
\* operator moves it, and its schema changes behind a backup of exactly what
\* it held (upgrade_graph_database, install_backup).
THEOREM DatabaseStays == LocalFilesSpec => DatabaseIsKept
<1>1. FilesInv /\ [LocalFilesNext]_fileVars =>
         [KeepsReported /\ UpgradesBacked]_fileVars
  BY FilesNext DEF FilesStep
<1>2. LocalFilesSpec => [][KeepsReported /\ UpgradesBacked]_fileVars
  BY <1>1, FilesInvariant, PTL DEF LocalFilesSpec
<1> QED
  BY <1>2, PTL DEF DatabaseIsKept, ReportedDatabaseIsKept, UpgradedBehindBackup, KeepsReported, UpgradesBacked, fileVars

\* Cleanups spare the temporary files of attempts that are still going on and
\* complete orphans beside no database (_graph_lock, store_present, _classify).
THEOREM CleanupsSpare == LocalFilesSpec => CleanupSpares
<1>1. FilesInv /\ [LocalFilesNext]_fileVars =>
         [SparesLive /\ SparesCopies]_fileVars
  BY FilesNext DEF FilesStep
<1>2. LocalFilesSpec => [][SparesLive /\ SparesCopies]_fileVars
  BY <1>1, FilesInvariant, PTL DEF LocalFilesSpec
<1> QED
  BY <1>2, PTL DEF CleanupSpares, LiveTemporariesSpared, OnlyCopyIsKept, SparesLive, SparesCopies, fileVars

-----------------------------------------------------------------------------
(* Backups into one output *)

\* Phases in which the attempt has a temporary database, ...
Snapshotting == {"snapshot", "seal", "link", "record", "unlink"}

\* ... its database has the final name, ...
Linked == {"record", "unlink", "sync", "list", "write", "publish",
           "record_manifest", "unlink_manifest", "sync_manifest"}

\* ... durably, ...
Synced == Linked \ {"record", "unlink", "sync"}

\* ... and its manifest has.
Published == {"record_manifest", "unlink_manifest", "sync_manifest"}

\* Phases of an attempt that found or made the directory and goes on in it.
Inside == {"open", "snapshot", "seal", "link", "done"} \cup Linked

\* At most one attempt made the directory.
MadeOnce == \A a, b \in bCreated : a = b

\* What a phase says of the attempt and of the names in the output.
BackupPhase(a) ==
    /\ bPc[a] \in Snapshotting => <<"database", a>> \in bTemps
    /\ bPc[a] \in Linked \cup {"link", "done"} => a \in bSealed
    /\ bPc[a] \in Linked => bDb = a
    /\ bPc[a] \in Synced => bDdb = {a}
    /\ bPc[a] \in Published => bMan = a
    /\ bPc[a] = "done" /\ ("power" \in bFaults => MadeOnce) =>
          bDb = a /\ bDdb = {a} /\ bMan = a /\ bDman = {a}
    /\ a \in bCreated => bPc[a] \notin {"start", "checked", "mkdir"}
    /\ bPc[a] = "made" => a \in bCreated

\* A directory made only once is durable when somebody works in it.
DirectoryInv ==
    /\ MadeOnce /\ bDir /\ FALSE \in bDdir => \A a \in Writers : bPc[a] \notin Inside
    /\ bCreated = {} =>
          bDdir = {bDir} /\ (~bDir => \A a \in Writers : bPc[a] \notin Inside)

\* Without an interrupt between a link and its record, and unless a call fails
\* where an unlink or the power may fail too, a manifest has its database.
Orderly ==
    /\ "interrupt" \notin bFaults
    /\ "io" \in bFaults => "power" \notin bFaults /\ "unlink" \notin bFaults

ManifestInv ==
    Orderly =>
        /\ bMan # NoOne =>
              /\ bDb = bMan /\ bMan \in bSealed
              /\ bPc[bMan] \in Published \cup {"done", "discard", "dead"}
              /\ bPc[bMan] \in {"unlink_manifest", "sync_manifest", "discard"} =>
                    "manifest" \in bRecorded[bMan]
              /\ bPc[bMan] = "discard" => "io" \in bFaults
        /\ "power" \in bFaults =>
              \A m \in bDman \ {NoOne} :
                  /\ bDdb = {m} /\ m \in bSealed
                  /\ bPc[m] \in Published \cup {"done", "dead"}

BackupInv ==
    /\ BackupTypeOK /\ bFaults \in FaultSets
    /\ \A a \in Writers : BackupPhase(a)
    /\ DirectoryInv /\ ManifestInv


\* An attempt leaves the names of another as they are: it removes its own
\* temporary names, and a final name only while that is its own file.
Respects(a) ==
    \A b \in Writers \ {a} :
        /\ bPc'[b] = bPc[b] /\ bRecorded'[b] = bRecorded[b]
        /\ <<"database", b>> \in bTemps => <<"database", b>> \in bTemps'
        /\ bDb = b => bDb' = b
        /\ bDb = b /\ bDdb = {b} => bDdb' = {b}
        /\ bMan = b => bMan' = b
        /\ bMan = b /\ bDman = {b} => bDman' = {b}

\* So the phase of the other says what it said.
LEMMA OthersKeep ==
    ASSUME BackupInv, NEW a \in Writers, Respects(a), UNCHANGED bFaults,
           bSealed \subseteq bSealed', bCreated \subseteq bCreated',
           bCreated' \subseteq bCreated \cup {a}
    PROVE  \A b \in Writers \ {a} : BackupPhase(b)'
<1> TAKE b \in Writers \ {a}
<1>1. BackupPhase(b)
  BY DEF BackupInv
<1>2. MadeOnce' => MadeOnce
  BY DEF MadeOnce
<1>3. /\ bPc'[b] = bPc[b]
      /\ <<"database", b>> \in bTemps => <<"database", b>> \in bTemps'
      /\ bDb = b => bDb' = b
      /\ bDb = b /\ bDdb = {b} => bDdb' = {b}
      /\ bMan = b => bMan' = b
      /\ bMan = b /\ bDman = {b} => bDman' = {b}
  BY DEF Respects
<1>4. b \in bCreated' => b \in bCreated
  OBVIOUS
<1> QED
  BY <1>1, <1>2, <1>3, <1>4 DEF BackupPhase, Synced, Linked

\* What the phase that attempt a moves to says of its manifest.
ManifestMove(a, phase) ==
    Orderly =>
        /\ bMan = a =>
              /\ phase \in Published \cup {"done", "discard", "dead"}
              /\ phase \in {"unlink_manifest", "sync_manifest", "discard"} =>
                    "manifest" \in bRecorded'[a]
              /\ phase = "discard" => "io" \in bFaults
        /\ "power" \in bFaults /\ a \in bDman' => phase \in Published \cup {"done", "dead"}

\* A step that leaves the directory and the final names, but may sync them.
LEMMA PhaseStep ==
    ASSUME BackupInv, NEW a \in Writers, NEW phase \in BackupPhases, BackupGoto(a, phase),
           UNCHANGED <<bCreated, bDir, bDdir, bDb, bMan, bFaults>>,
           bSealed' \in SUBSET Writers, bSealed \subseteq bSealed',
           bRecorded' \in [Writers -> SUBSET Kinds],
           bRecorded[a] \subseteq bRecorded'[a],
           \A b \in Writers \ {a} : bRecorded'[b] = bRecorded[b],
           bTemps' \in SUBSET Temps, bLoose' \in SUBSET Temps,
           \A b \in Writers \ {a} : <<"database", b>> \in bTemps => <<"database", b>> \in bTemps',
           ~bDir => bTemps' = {},
           \/ bDdb' = bDdb /\ bDman' = bDman
           \/ bDdb' = {bDb} /\ bDman' = {bMan},
           BackupPhase(a)', ManifestMove(a, phase), phase \in Inside => bPc[a] \in Inside
    PROVE  BackupInv'
<1>1. /\ BackupTypeOK /\ DirectoryInv /\ ManifestInv /\ bFaults \in FaultSets
  BY DEF BackupInv
<1>2. bPc'[a] = phase /\ \A b \in Writers \ {a} : bPc'[b] = bPc[b]
  BY <1>1 DEF BackupTypeOK, BackupGoto
<1>3. BackupTypeOK'
  BY <1>1 DEF BackupTypeOK, BackupGoto, Empty
<1>4. Respects(a)
  BY <1>2 DEF Respects
<1>5. \A b \in Writers : BackupPhase(b)'
  BY <1>4, OthersKeep
<1>6. DirectoryInv'
  BY <1>1, <1>2 DEF DirectoryInv, MadeOnce
<1>7. ManifestInv'
  <2> SUFFICES ASSUME Orderly PROVE ManifestInv'
    BY DEF ManifestInv, Orderly
  <2>1. ASSUME bMan # NoOne
        PROVE  /\ bDb = bMan /\ bMan \in bSealed'
               /\ bPc'[bMan] \in Published \cup {"done", "discard", "dead"}
               /\ bPc'[bMan] \in {"unlink_manifest", "sync_manifest", "discard"} =>
                     "manifest" \in bRecorded'[bMan]
               /\ bPc'[bMan] = "discard" => "io" \in bFaults
    <3>1. bMan \in Writers /\ bDb = bMan /\ bMan \in bSealed
      BY <1>1, <2>1 DEF ManifestInv, BackupTypeOK, Owners
    <3>2. CASE bMan = a
      BY <1>2, <3>1, <3>2 DEF ManifestMove
    <3>3. CASE bMan # a
      BY <1>1, <1>2, <2>1, <3>1, <3>3 DEF ManifestInv
    <3> QED
      BY <3>2, <3>3
  <2>2. ASSUME "power" \in bFaults, NEW m \in bDman' \ {NoOne}
        PROVE  bDdb' = {m} /\ m \in bSealed' /\ bPc'[m] \in Published \cup {"done", "dead"}
    <3>1. m \in bDman /\ m \in Writers /\ bDb \in bDdb
      BY SMT, <1>1, <2>2 DEF BackupTypeOK, Owners
    <3>2. bDdb = {m} /\ m \in bSealed /\ bPc[m] \in Published \cup {"done", "dead"}
      BY <1>1, <2>2, <3>1 DEF ManifestInv
    <3>3. bDdb' = {m}
      BY <3>1, <3>2
    <3> QED
      BY <1>2, <2>2, <3>1, <3>2, <3>3 DEF ManifestMove
  <2> QED
    BY <2>1, <2>2 DEF ManifestInv, Orderly
<1> QED
  BY <1>1, <1>3, <1>5, <1>6, <1>7 DEF BackupInv

\* Before its manifest is linked there is none of attempt a.
LEMMA EarlyMove ==
    ASSUME BackupInv, NEW a \in Writers, NEW phase,
           bPc[a] \notin Published \cup {"done", "discard", "dead"},
           bDman' = bDman \/ bDman' = {bMan}
    PROVE  ManifestMove(a, phase)
<1>1. a # NoOne
  BY BackupAssumption
<1> QED
  BY SMT, <1>1 DEF BackupInv, ManifestInv, ManifestMove

\* A step that only moves attempt a on.
LEMMA MoveStep ==
    ASSUME BackupInv, NEW a \in Writers, NEW phase \in BackupPhases, BackupGoto(a, phase),
           UNCHANGED <<bCreated, bRecorded, bDir, bDdir, bDb, bDdb, bMan, bDman, bTemps,
                       bLoose, bSealed, bFaults>>,
           phase \notin {"link", "record_manifest", "mkdir"} \/ bPc[a] = "checked",
           phase \in Snapshotting => bPc[a] \in Snapshotting,
           phase \in Linked => bPc[a] \in Linked,
           phase \in Synced => bPc[a] \in Synced,
           phase \in Published => bPc[a] \in Published,
           phase \in Inside => bPc[a] \in Inside, phase \notin {"made", "done"},
           a \in bCreated => phase \notin {"start", "checked", "mkdir"},
           ManifestMove(a, phase)
    PROVE  BackupInv'
<1>1. BackupTypeOK /\ BackupPhase(a)
  BY DEF BackupInv
<1>2. bPc'[a] = phase
  BY <1>1 DEF BackupTypeOK, BackupGoto
<1>3. BackupPhase(a)'
  BY <1>1, <1>2 DEF BackupPhase, Linked, Inside, Synced
<1>4. /\ bSealed' \in SUBSET Writers /\ bRecorded' \in [Writers -> SUBSET Kinds]
      /\ bTemps' \in SUBSET Temps /\ bLoose' \in SUBSET Temps /\ (~bDir => bTemps' = {})
  BY <1>1 DEF BackupTypeOK, Empty
<1> QED
  BY <1>3, <1>4, PhaseStep

\* What fails, dies or finds the output in use goes on to the discard or to its
\* end; _discard_attempt may find nothing of its own.
LEMMA GivesUpStep ==
    ASSUME BackupInv, NEW a \in Writers,
           NEW phase \in {"failed", "dead", "discard", "discard_database", "discard_temps"},
           BackupGoto(a, phase),
           UNCHANGED <<bCreated, bRecorded, bDir, bDdir, bDb, bDdb, bMan, bDman, bTemps,
                       bLoose, bSealed, bFaults>>,
           ManifestMove(a, phase)
    PROVE  BackupInv'
<1>1. phase \in BackupPhases
  BY DEF BackupPhases
<1> QED
  BY <1>1, MoveStep DEF Snapshotting, Linked, Synced, Published, Inside

\* CallFails, Interrupted and Crash: where they may happen, and what is left of
\* the manifest.
LEMMA RaiseStep ==
    ASSUME BackupInv, NEW a \in Writers, UNCHANGED bFaults,
           BackupCallFails(a) \/ Interrupted(a) \/ BackupCrash(a)
    PROVE  BackupInv'
<1>1. UNCHANGED <<bCreated, bRecorded, bDir, bDdir, bDb, bDdb, bMan, bDman, bTemps, bLoose,
                  bSealed>>
  BY DEF BackupCallFails, Interrupted, BackupCrash, Raise, Place, Names
<1>2. CASE BackupCrash(a)
  <2>1. ManifestMove(a, "dead")
    BY DEF ManifestMove
  <2> QED
    BY <1>1, <1>2, <2>1, GivesUpStep DEF BackupCrash
<1>3. CASE BackupCallFails(a) \/ Interrupted(a)
  <2>1. PICK phase \in {"failed", "discard"} :
           /\ BackupGoto(a, phase)
           /\ phase = "failed" <=> bPc[a] \in {"start", "checked", "mkdir"}
    BY <1>3 DEF BackupCallFails, Interrupted, Raise
  <2>2. bPc[a] \notin {"done", "discard", "dead"}
    BY <1>3 DEF BackupCallFails, Interrupted, Working, Returned
  <2>3. CASE bPc[a] \notin Published
    BY <1>1, <2>1, <2>2, <2>3, EarlyMove, GivesUpStep
  <2>4. CASE bPc[a] \in Published
    <3>1. phase = "discard"
      BY <2>1, <2>4 DEF Published
    <3>2. Orderly => "io" \in bFaults /\ bPc[a] \in {"unlink_manifest", "sync_manifest"}
      BY <1>3, <2>4 DEF Orderly, BackupCallFails, Interrupted, Published
    <3>3. bMan = a
      BY <2>4 DEF BackupInv, BackupPhase
    <3>4. a # NoOne
      BY BackupAssumption
    <3>5. ManifestMove(a, "discard")
      BY <1>1, <3>2, <3>3, <3>4 DEF ManifestMove, BackupInv, ManifestInv, Orderly
    <3> QED
      BY <1>1, <2>1, <3>1, <3>5, GivesUpStep
  <2> QED
    BY <2>3, <2>4
<1> QED
  BY <1>2, <1>3

\* The steps of write_backup that leave the final names as they are: checks,
\* temporary files, records and syncs.
LEMMA WritingStep ==
    ASSUME BackupInv, NEW a \in Writers, UNCHANGED bFaults,
           \/ Check(a) \/ Snapshot(a) \/ SealBackup(a) \/ RecordDatabase(a)
           \/ OpenTemporary(a) \/ UnlinkTemporary(a) \/ SyncDatabase(a)
           \/ ListOutput(a) \/ WriteManifest(a)
    PROVE  BackupInv'
<1>1. /\ BackupTypeOK /\ BackupPhase(a) /\ DirectoryInv /\ ManifestInv
      /\ (~bDir => bTemps = {} /\ bDb = NoOne) /\ a # NoOne
  BY BackupAssumption DEF BackupInv, BackupTypeOK, Empty
<1>2. CASE Check(a)
  <2>1. PICK phase \in {"failed", "checked"} : BackupGoto(a, phase)
    BY <1>2 DEF Check
  <2>2. /\ bPc[a] = "start" /\ phase \in BackupPhases
        /\ UNCHANGED <<bCreated, bRecorded, bDir, bDdir, bDb, bDdb, bMan, bDman, bTemps, bLoose,
                       bSealed>>
    BY <1>2 DEF Check, BackupPhases, Place, Names
  <2>3. ManifestMove(a, phase) /\ a \notin bCreated
    BY <1>1, <2>2, EarlyMove DEF Published, BackupPhase
  <2> QED
    BY <2>1, <2>2, <2>3, MoveStep DEF Snapshotting, Linked, Synced, Published, Inside
<1>3. CASE Snapshot(a) \/ ListOutput(a)
  <2>1. PICK phase \in {"seal", "write", "discard"} :
           /\ BackupGoto(a, phase)
           /\ phase = "seal" => bPc[a] = "snapshot"
           /\ phase # "seal" => bPc[a] = "list"
    BY <1>3 DEF Snapshot, ListOutput
  <2>2. /\ bPc[a] \in {"snapshot", "list"} /\ phase \in BackupPhases
        /\ UNCHANGED <<bCreated, bRecorded, bDir, bDdir, bDb, bDdb, bMan, bDman, bTemps, bLoose,
                       bSealed>>
    BY <1>3 DEF Snapshot, ListOutput, BackupPhases, Place, Names
  <2>3. ManifestMove(a, phase)
    BY <2>2, EarlyMove DEF Published
  <2> QED
    BY <2>1, <2>2, <2>3, MoveStep DEF Snapshotting, Linked, Synced, Published, Inside
<1>4. CASE SealBackup(a) \/ RecordDatabase(a)
  <2>1. PICK phase \in {"link", "unlink"} :
           /\ BackupGoto(a, phase)
           /\ phase = "link" => bPc[a] = "seal" /\ bSealed' = bSealed \cup {a} /\ UNCHANGED bRecorded
           /\ phase = "unlink" => /\ bPc[a] = "record" /\ UNCHANGED bSealed
                                  /\ bRecorded' = [bRecorded EXCEPT ![a] = bRecorded[a] \cup {"database"}]
    BY <1>4 DEF SealBackup, RecordDatabase, Record
  <2>2. /\ bPc[a] \in {"seal", "record"} /\ phase \in BackupPhases
        /\ UNCHANGED <<bCreated, bDir, bDdir, bDb, bDdb, bMan, bDman, bTemps, bLoose>>
    BY <1>4 DEF SealBackup, RecordDatabase, Record, BackupPhases, Place, Names
  <2>3. /\ bSealed' \in SUBSET Writers /\ bSealed \subseteq bSealed'
        /\ bRecorded' \in [Writers -> SUBSET Kinds] /\ bRecorded[a] \subseteq bRecorded'[a]
        /\ \A b \in Writers \ {a} : bRecorded'[b] = bRecorded[b]
    BY <1>1, <2>1 DEF BackupTypeOK, Kinds
  <2>4. bPc'[a] = phase
    BY <1>1, <2>1 DEF BackupGoto, BackupTypeOK
  <2>5. BackupPhase(a)'
    BY <1>1, <2>1, <2>2, <2>4 DEF BackupPhase, Snapshotting, Linked, Synced, Published
  <2>6. ManifestMove(a, phase) /\ (phase \in Inside => bPc[a] \in Inside)
    BY <2>2, EarlyMove DEF Published, Inside, Linked
  <2>7. bTemps' \in SUBSET Temps /\ bLoose' \in SUBSET Temps
    BY <1>1, <2>2 DEF BackupTypeOK
  <2> QED
    BY <1>1, <2>1, <2>2, <2>3, <2>5, <2>6, <2>7, PhaseStep
<1>5. CASE OpenTemporary(a) /\ ~bDir
  <2>1. /\ bPc[a] = "open" /\ BackupGoto(a, "discard")
        /\ UNCHANGED <<bCreated, bRecorded, bDir, bDdir, bDb, bDdb, bMan, bDman, bTemps, bLoose,
                       bSealed>>
    BY <1>5 DEF OpenTemporary, Place
  <2> QED
    BY <2>1, EarlyMove, GivesUpStep DEF Published
<1>6. CASE \/ OpenTemporary(a) /\ bDir
           \/ UnlinkTemporary(a) \/ WriteManifest(a) \/ SyncDatabase(a)
  <2>1. PICK phase \in {"snapshot", "sync", "publish", "list"} :
           /\ BackupGoto(a, phase)
           /\ bPc[a] = CASE phase = "snapshot" -> "open" [] phase = "sync" -> "unlink"
                         [] phase = "publish" -> "write" [] OTHER -> "sync"
           /\ phase = "snapshot" => bDir /\ <<"database", a>> \in bTemps'
           /\ phase = "list" => bDdb' = {bDb} /\ bDman' = {bMan}
           /\ phase # "list" => bDdb' = bDdb /\ bDman' = bDman
    BY <1>6 DEF OpenTemporary, UnlinkTemporary, WriteManifest, SyncDatabase, AddTemp,
       SyncOutput
  <2>2. /\ bTemps' \in SUBSET Temps /\ bLoose' \in SUBSET Temps
        /\ \A b \in Writers \ {a} : <<"database", b>> \in bTemps => <<"database", b>> \in bTemps'
    <3>1. /\ bTemps \in SUBSET Temps /\ bLoose \in SUBSET Temps
          /\ <<"database", a>> \in Temps /\ <<"manifest", a>> \in Temps
      BY <1>1 DEF BackupTypeOK, Temps, Kinds
    <3>2. CASE \/ bTemps' = bTemps \cup {<<"database", a>>} /\ bLoose' = bLoose \cup {<<"database", a>>}
               \/ bTemps' = bTemps \cup {<<"manifest", a>>} /\ bLoose' = bLoose \cup {<<"manifest", a>>}
      BY <3>1, <3>2
    <3>3. CASE /\ bTemps' = bTemps \ {<<"database", a>>}
               /\ bLoose' = bLoose \cup (bTemps \cap {<<"database", a>>})
      BY <3>1, <3>3
    <3>4. CASE bTemps' = bTemps /\ bLoose' = {}
      BY <3>1, <3>4
    <3> QED
      BY <1>6, <3>2, <3>3, <3>4 DEF OpenTemporary, UnlinkTemporary, WriteManifest,
         SyncDatabase, AddTemp, DropTemps, SyncOutput
  <2>3. UNCHANGED <<bCreated, bRecorded, bDir, bDdir, bDb, bMan, bSealed>> /\ phase \in BackupPhases
    BY <1>6 DEF OpenTemporary, UnlinkTemporary, WriteManifest, SyncDatabase, Place,
       BackupPhases
  <2>4. bPc[a] \in {"open", "unlink", "write", "sync"} /\ bPc'[a] = phase
    BY <1>1, <2>1 DEF BackupGoto, BackupTypeOK
  <2>5. BackupPhase(a)'
    BY <1>1, <2>1, <2>3, <2>4 DEF BackupPhase, Snapshotting, Linked, Synced, Published
  <2>6. ManifestMove(a, phase) /\ (phase \in Inside => bPc[a] \in Inside)
    BY <2>1, <2>4, EarlyMove DEF Published, Inside, Linked
  <2>7. ~bDir => bTemps' = {}
    BY <1>1, <2>1, <2>4 DEF BackupPhase, Linked
  <2>8. bSealed' \in SUBSET Writers /\ bRecorded' \in [Writers -> SUBSET Kinds]
    BY <1>1, <2>3 DEF BackupTypeOK
  <2> QED
    BY <2>1, <2>2, <2>3, <2>5, <2>6, <2>7, <2>8, PhaseStep
<1> QED
  BY <1>2, <1>3, <1>4, <1>5, <1>6

\* The manifest is recorded, its temporary name unlinked and the output synced
\* for the last time.
LEMMA ClosingStep ==
    ASSUME BackupInv, NEW a \in Writers, UNCHANGED bFaults,
           RecordManifest(a) \/ UnlinkManifestTemporary(a) \/ SyncManifest(a)
    PROVE  BackupInv'
<1>1. /\ BackupTypeOK /\ BackupPhase(a) /\ ManifestInv /\ a # NoOne
      /\ (~bDir => bDb = NoOne)
  BY BackupAssumption DEF BackupInv, BackupTypeOK, Empty
<1>2. PICK phase \in {"unlink_manifest", "sync_manifest", "done"} :
         /\ BackupGoto(a, phase)
         /\ bPc[a] = CASE phase = "unlink_manifest" -> "record_manifest"
                       [] phase = "sync_manifest" -> "unlink_manifest"
                       [] OTHER -> "sync_manifest"
         /\ IF phase = "unlink_manifest"
            THEN bRecorded' = [bRecorded EXCEPT ![a] = bRecorded[a] \cup {"manifest"}]
            ELSE UNCHANGED bRecorded
         /\ IF phase = "done" THEN bDdb' = {bDb} /\ bDman' = {bMan}
                              ELSE bDdb' = bDdb /\ bDman' = bDman
  BY DEF RecordManifest, Record, UnlinkManifestTemporary, SyncManifest, SyncOutput,
     Names
<1>3. /\ UNCHANGED <<bCreated, bDir, bDdir, bDb, bMan, bSealed>> /\ phase \in BackupPhases
  BY DEF RecordManifest, Record, UnlinkManifestTemporary, SyncManifest, Names, Place,
     BackupPhases
<1>4. /\ bTemps' \in SUBSET Temps /\ bLoose' \in SUBSET Temps
      /\ \A b \in Writers \ {a} : <<"database", b>> \in bTemps => <<"database", b>> \in bTemps'
  BY <1>1 DEF RecordManifest, Record, UnlinkManifestTemporary, SyncManifest, Names,
     DropTemps, SyncOutput, BackupTypeOK, Temps, Kinds
<1>5. bPc[a] \in Published /\ bPc[a] \in Linked /\ bPc[a] \in Inside /\ bPc[a] \in Synced
      /\ bPc'[a] = phase
  BY <1>1, <1>2 DEF BackupGoto, BackupTypeOK, Published, Linked, Inside, Synced
<1>6. bMan = a /\ bDb = a /\ bDdb = {a} /\ a \in bSealed /\ bDir
  BY <1>1, <1>5 DEF BackupPhase
<1>7. /\ bSealed' \in SUBSET Writers
      /\ bRecorded' \in [Writers -> SUBSET Kinds] /\ bRecorded[a] \subseteq bRecorded'[a]
      /\ \A b \in Writers \ {a} : bRecorded'[b] = bRecorded[b]
      /\ phase = "unlink_manifest" => "manifest" \in bRecorded'[a]
  BY SMT, <1>1, <1>2, <1>3 DEF BackupTypeOK, Kinds
<1>8. BackupPhase(a)'
  BY <1>1, <1>2, <1>3, <1>5, <1>6 DEF BackupPhase, Snapshotting, Linked, Synced, Published
<1>9. ManifestMove(a, phase)
  <2>1. phase \in Published \cup {"done"} /\ phase # "discard"
    BY DEF Published
  <2>2. Orderly /\ phase = "sync_manifest" => "manifest" \in bRecorded'[a]
    BY <1>1, <1>2, <1>6 DEF ManifestInv
  <2> QED
    BY <1>7, <2>1, <2>2 DEF ManifestMove
<1> QED
  BY <1>2, <1>3, <1>4, <1>5, <1>6, <1>7, <1>8, <1>9, PhaseStep

\* While an attempt is discarding, a manifest of its own is only there at the
\* first step, where the record tells it which file to remove.
LEMMA DiscardingHasNone ==
    ASSUME BackupInv, NEW a \in Writers, Orderly
    PROVE  /\ bPc[a] \in {"discard_database", "discard_temps", "discard_dir"} => bMan # a
           /\ bPc[a] = "discard" /\ bMan = a => Owns(a, "manifest") /\ ~UnlinkFails
           /\ /\ bPc[a] \in {"discard", "discard_database", "discard_temps", "discard_dir"}
              /\ "power" \in bFaults
              => a \notin bDman
<1>1. a # NoOne
  BY BackupAssumption
<1> QED
  BY <1>1 DEF BackupInv, ManifestInv, Published, Orderly, Owns, UnlinkFails

\* _discard_attempt where nothing of a final name is removed: temporary names
\* go, and the output or nothing is synced.
LEMMA DiscardingStep ==
    ASSUME BackupInv, NEW a \in Writers, UNCHANGED bFaults,
           \/ DiscardTemps(a)
           \/ DiscardManifest(a) /\ UNCHANGED <<bMan, bDman>>
           \/ DiscardDatabase(a) /\ UNCHANGED <<bDb, bDdb>>
           \/ DiscardDirectory(a) /\ UNCHANGED <<bDir, bDdir>>
                /\ \/ UNCHANGED <<bDdb, bDman, bLoose>>
                   \/ SyncOutput
    PROVE  BackupInv'
<1>1. BackupTypeOK /\ BackupPhase(a) /\ a # NoOne /\ (~bDir => bTemps = {})
  BY BackupAssumption DEF BackupInv, BackupTypeOK, Empty
<1>2. PICK phase \in {"discard_database", "discard_temps", "discard_dir", "failed"} :
         /\ BackupGoto(a, phase)
         /\ bPc[a] = CASE phase = "discard_database" -> "discard"
                       [] phase = "discard_temps" -> "discard_database"
                       [] phase = "discard_dir" -> "discard_temps"
                       [] OTHER -> "discard_dir"
  BY DEF DiscardTemps, DiscardManifest, DiscardDatabase, DiscardDirectory
<1>3. UNCHANGED <<bCreated, bRecorded, bDir, bDdir, bDb, bMan, bSealed>> /\ phase \in BackupPhases
  BY DEF DiscardTemps, DiscardManifest, DiscardDatabase, DiscardDirectory, Place, BackupPhases
<1>4. /\ bTemps' \in SUBSET Temps /\ bLoose' \in SUBSET Temps /\ bTemps' \subseteq bTemps
      /\ \A b \in Writers \ {a} : <<"database", b>> \in bTemps => <<"database", b>> \in bTemps'
  <2>1. CASE DiscardTemps(a)
    <3>1. PICK kept : /\ bTemps' = bTemps \ ((Kinds \X {a}) \ kept)
                      /\ bLoose' = bLoose \cup (bTemps \cap ((Kinds \X {a}) \ kept))
      BY <2>1 DEF DiscardTemps, DropTemps
    <3> QED
      BY <1>1, <3>1 DEF BackupTypeOK
  <2>2. CASE ~DiscardTemps(a)
    BY <1>1, <2>2 DEF DiscardManifest, DiscardDatabase, DiscardDirectory, SyncOutput,
       BackupTypeOK
  <2> QED
    BY <2>1, <2>2
<1>5. (bDdb' = bDdb /\ bDman' = bDman) \/ (bDdb' = {bDb} /\ bDman' = {bMan})
  BY DEF DiscardTemps, DiscardManifest, DiscardDatabase, DiscardDirectory, SyncOutput
<1>6. bPc'[a] = phase
  BY <1>1, <1>2 DEF BackupGoto, BackupTypeOK
<1>7. BackupPhase(a)'
  BY <1>6 DEF BackupPhase, Snapshotting, Linked, Synced, Published
<1>8. ManifestMove(a, phase)
  <2>1. bPc[a] \in {"discard", "discard_database", "discard_temps", "discard_dir"}
    BY <1>2
  <2>2. bPc[a] = "discard" => DiscardManifest(a) /\ UNCHANGED <<bMan, bDman>>
    BY DEF DiscardTemps, DiscardManifest, DiscardDatabase, DiscardDirectory
  <2>3. Orderly /\ bPc[a] = "discard" => bMan # a
    BY <1>1, <2>2, DiscardingHasNone DEF DiscardManifest
  <2>4. Orderly => bMan # a /\ ("power" \in bFaults => a \notin bDman)
    BY <2>1, <2>3, DiscardingHasNone
  <2>5. Orderly /\ "power" \in bFaults => a \notin bDman'
    BY <1>5, <2>4
  <2> QED
    BY <2>4, <2>5 DEF ManifestMove
<1>9. phase \notin Inside
  BY DEF Inside, Linked
<1>10. bSealed' \in SUBSET Writers /\ bRecorded' \in [Writers -> SUBSET Kinds]
  BY <1>1, <1>3 DEF BackupTypeOK
<1> QED
  BY <1>1, <1>2, <1>3, <1>4, <1>5, <1>7, <1>8, <1>9, <1>10, PhaseStep

\* A step of attempt a that respects the others concerns its own phase, the
\* directory and the manifest.
LEMMA OutputStep ==
    ASSUME BackupInv, NEW a \in Writers, Respects(a), UNCHANGED bFaults,
           bSealed \subseteq bSealed', bCreated \subseteq bCreated',
           bCreated' \subseteq bCreated \cup {a},
           BackupTypeOK', BackupPhase(a)', DirectoryInv', ManifestInv'
    PROVE  BackupInv'
<1>1. \A b \in Writers \ {a} : BackupPhase(b)'
  BY OthersKeep
<1> QED
  BY <1>1 DEF BackupInv

\* os.link of the database and of the manifest: into a free name, so nobody
\* has one of the other's.
LEMMA LinkStep ==
    ASSUME BackupInv, NEW a \in Writers, UNCHANGED bFaults,
           InstallDatabase(a) \/ InstallManifest(a)
    PROVE  BackupInv'
<1>1. /\ BackupTypeOK /\ BackupPhase(a) /\ DirectoryInv /\ ManifestInv /\ NoOne \notin Writers
      /\ (~bDir => bTemps = {} /\ bDb = NoOne)
  BY BackupAssumption DEF BackupInv, BackupTypeOK, Empty
<1>2. CASE /\ InstallDatabase(a) \/ InstallManifest(a)
           /\ BackupGoto(a, "discard") /\ UNCHANGED <<bDb, bDdb, bMan, bDman>>
  <2>1. /\ bPc[a] \in {"link", "publish"}
        /\ UNCHANGED <<bCreated, bRecorded, bDir, bDdir, bTemps, bLoose, bSealed>>
    BY <1>2 DEF InstallDatabase, InstallManifest, Place
  <2> QED
    BY <1>2, <2>1, EarlyMove, GivesUpStep DEF Published
<1>3. CASE InstallDatabase(a) /\ bDb = NoOne
  <2>1. /\ bPc[a] = "link" /\ bPc' = [bPc EXCEPT ![a] = "record"] /\ bDb' = a
        /\ bDdb' = bDdb \cup {a}
        /\ UNCHANGED <<bCreated, bRecorded, bDir, bDdir, bMan, bDman, bTemps, bLoose, bSealed>>
    BY <1>3 DEF InstallDatabase, LinkDatabase, BackupGoto, Place
  <2>2. bPc'[a] = "record" /\ \A b \in Writers \ {a} : bPc'[b] = bPc[b]
    BY <1>1, <2>1 DEF BackupTypeOK
  <2>3. bDir /\ a \in bSealed /\ <<"database", a>> \in bTemps
    BY <1>1, <2>1 DEF BackupPhase, Snapshotting
  <2>4. Respects(a)
    BY <1>1, <1>3, <2>1, <2>2 DEF Respects
  <2>5. BackupTypeOK'
    BY <1>1, <2>1, <2>3 DEF BackupTypeOK, BackupPhases, Owners, Empty
  <2>6. BackupPhase(a)'
    BY <1>1, <2>1, <2>2, <2>3 DEF BackupPhase, Snapshotting, Linked, Synced, Published
  <2>7. DirectoryInv'
    BY <1>1, <2>1, <2>2 DEF DirectoryInv, MadeOnce, Inside, Linked
  <2>8. ManifestInv'
    <3>1. Orderly => bMan = NoOne
      BY <1>1, <1>3 DEF ManifestInv
    <3>2. Orderly /\ "power" \in bFaults => \A m \in bDman : m = NoOne
      BY <1>1, <1>3 DEF ManifestInv, BackupTypeOK
    <3> QED
      BY <2>1, <3>1, <3>2 DEF ManifestInv, Orderly
  <2> QED
    BY <2>1, <2>4, <2>5, <2>6, <2>7, <2>8, OutputStep
<1>4. CASE InstallManifest(a) /\ bMan = NoOne
  <2>1. /\ bPc[a] = "publish" /\ bPc' = [bPc EXCEPT ![a] = "record_manifest"] /\ bMan' = a
        /\ bDman' = bDman \cup {a}
        /\ UNCHANGED <<bCreated, bRecorded, bDir, bDdir, bDb, bDdb, bTemps, bLoose, bSealed>>
    BY <1>4 DEF InstallManifest, LinkManifest, BackupGoto, Place
  <2>2. bPc'[a] = "record_manifest" /\ \A b \in Writers \ {a} : bPc'[b] = bPc[b]
    BY <1>1, <2>1 DEF BackupTypeOK
  <2>3. bDb = a /\ bDdb = {a} /\ a \in bSealed /\ bDir
    BY <1>1, <2>1 DEF BackupPhase, Linked, Synced
  <2>4. Respects(a)
    BY <1>1, <1>4, <2>1, <2>2 DEF Respects
  <2>5. BackupTypeOK'
    BY <1>1, <2>1, <2>3 DEF BackupTypeOK, BackupPhases, Owners, Empty
  <2>6. BackupPhase(a)'
    BY <1>1, <2>1, <2>2, <2>3 DEF BackupPhase, Snapshotting, Linked, Synced, Published
  <2>7. DirectoryInv'
    BY <1>1, <2>1, <2>2 DEF DirectoryInv, MadeOnce, Inside, Linked
  <2>8. ManifestInv'
    <3>1. Orderly /\ "power" \in bFaults => \A m \in bDman' : m \in {a, NoOne}
      BY <1>1, <2>1, <2>3 DEF ManifestInv
    <3> QED
      BY <2>1, <2>2, <2>3, <3>1 DEF ManifestInv, Orderly, Published
  <2> QED
    BY <2>1, <2>4, <2>5, <2>6, <2>7, <2>8, OutputStep
<1> QED
  BY <1>2, <1>3, <1>4 DEF InstallDatabase, InstallManifest

\* _discard_attempt removes a final name only while it is its own file, the
\* manifest before the database.
LEMMA RemovalStep ==
    ASSUME BackupInv, NEW a \in Writers, UNCHANGED bFaults,
           DiscardManifest(a) \/ DiscardDatabase(a)
    PROVE  BackupInv'
<1>1. /\ BackupTypeOK /\ BackupPhase(a) /\ DirectoryInv /\ ManifestInv /\ NoOne \notin Writers
  BY BackupAssumption DEF BackupInv
<1>2. CASE DiscardManifest(a) /\ Owns(a, "manifest") /\ bMan' = NoOne
  <2>1. /\ bPc[a] = "discard" /\ bPc' = [bPc EXCEPT ![a] = "discard_database"] /\ bMan = a
        /\ bDman' = bDman \cup {NoOne}
        /\ UNCHANGED <<bCreated, bRecorded, bDir, bDdir, bDb, bDdb, bTemps, bLoose, bSealed>>
    BY <1>1, <1>2 DEF DiscardManifest, Owns, BackupGoto, Place
  <2>2. bPc'[a] = "discard_database" /\ \A b \in Writers \ {a} : bPc'[b] = bPc[b]
    BY <1>1, <2>1 DEF BackupTypeOK
  <2>3. Respects(a)
    BY <1>1, <2>1, <2>2 DEF Respects
  <2>4. BackupTypeOK'
    BY <1>1, <1>2, <2>1 DEF BackupTypeOK, BackupPhases, Owners, Empty
  <2>5. BackupPhase(a)'
    BY <2>2 DEF BackupPhase, Snapshotting, Linked, Synced, Published
  <2>6. DirectoryInv'
    BY <1>1, <2>1, <2>2 DEF DirectoryInv, MadeOnce, Inside, Linked
  <2>7. ManifestInv'
    <3>1. Orderly /\ "power" \in bFaults => a \notin bDman
      BY <2>1, DiscardingHasNone
    <3>2. ASSUME Orderly, "power" \in bFaults, NEW m \in bDman' \ {NoOne}
          PROVE  bDdb = {m} /\ m \in bSealed /\ bPc'[m] \in Published \cup {"done", "dead"}
      <4>1. m \in bDman \ {NoOne} /\ m # a /\ m \in Writers
        BY <1>1, <2>1, <3>1, <3>2 DEF BackupTypeOK, Owners
      <4> QED
        BY <1>1, <2>2, <3>2, <4>1 DEF ManifestInv
    <3> QED
      BY <1>2, <2>1, <3>2 DEF ManifestInv, Orderly
  <2> QED
    BY <2>1, <2>3, <2>4, <2>5, <2>6, <2>7, OutputStep
<1>3. CASE DiscardDatabase(a) /\ Owns(a, "database") /\ bDb' = NoOne
  <2>1. /\ bPc[a] = "discard_database" /\ bPc' = [bPc EXCEPT ![a] = "discard_temps"] /\ bDb = a
        /\ bDdb' = bDdb \cup {NoOne}
        /\ UNCHANGED <<bCreated, bRecorded, bDir, bDdir, bMan, bDman, bTemps, bLoose, bSealed>>
    BY <1>1, <1>3 DEF DiscardDatabase, Owns, BackupGoto, Place
  <2>2. bPc'[a] = "discard_temps" /\ \A b \in Writers \ {a} : bPc'[b] = bPc[b]
    BY <1>1, <2>1 DEF BackupTypeOK
  <2>3. Respects(a)
    BY <1>1, <2>1, <2>2 DEF Respects
  <2>4. BackupTypeOK'
    BY <1>1, <1>3, <2>1 DEF BackupTypeOK, BackupPhases, Owners, Empty
  <2>5. BackupPhase(a)'
    BY <2>2 DEF BackupPhase, Snapshotting, Linked, Synced, Published
  <2>6. DirectoryInv'
    BY <1>1, <2>1, <2>2 DEF DirectoryInv, MadeOnce, Inside, Linked
  <2>7. ManifestInv'
    <3>1. Orderly => bMan # a /\ ("power" \in bFaults => a \notin bDman)
      BY <2>1, DiscardingHasNone
    <3>2. Orderly => bMan = NoOne
      BY <1>1, <2>1, <3>1 DEF ManifestInv
    <3>3. Orderly /\ "power" \in bFaults => \A m \in bDman : m = NoOne
      BY <1>1, <2>1, <3>1 DEF ManifestInv, BackupTypeOK
    <3> QED
      BY <2>1, <3>2, <3>3 DEF ManifestInv, Orderly
  <2> QED
    BY <2>1, <2>3, <2>4, <2>5, <2>6, <2>7, OutputStep
<1> QED
  BY <1>2, <1>3, DiscardingStep DEF DiscardManifest, DiscardDatabase

\* The output directory is found, made, synced into its parent and removed by
\* the attempt that made it, while nobody has anything in it.
LEMMA DirectoryStep ==
    ASSUME BackupInv, NEW a \in Writers, UNCHANGED bFaults,
           \/ EnterOutput(a) \/ SyncParent(a) \/ MakeDirectory(a) \/ DiscardDirectory(a)
    PROVE  BackupInv'
<1>1. /\ BackupTypeOK /\ BackupPhase(a) /\ DirectoryInv /\ ManifestInv /\ NoOne \notin Writers
      /\ (~bDir => bTemps = {} /\ bDb = NoOne /\ bMan = NoOne)
  BY BackupAssumption DEF BackupInv, BackupTypeOK, Empty
<1>2. CASE EnterOutput(a) \/ SyncParent(a)
  <2>1. PICK phase \in {"open", "mkdir"} :
           /\ bPc' = [bPc EXCEPT ![a] = phase]
           /\ bPc[a] = "made" \/ (bPc[a] = "checked" /\ (phase = "mkdir" <=> ~bDir))
           /\ phase = "mkdir" => bPc[a] = "checked"
    BY <1>2 DEF EnterOutput, SyncParent, BackupGoto
  <2>2. /\ bDdir' = {bDir}
        /\ UNCHANGED <<bCreated, bRecorded, bDir, bDb, bDdb, bMan, bDman, bTemps, bLoose, bSealed>>
    BY <1>2 DEF EnterOutput, SyncParent, Names
  <2>3. bPc'[a] = phase /\ \A b \in Writers \ {a} : bPc'[b] = bPc[b]
    BY <1>1, <2>1 DEF BackupTypeOK
  <2>4. Respects(a)
    BY <2>2, <2>3 DEF Respects
  <2>5. BackupTypeOK'
    BY <1>1, <2>1, <2>2 DEF BackupTypeOK, BackupPhases, Empty
  <2>6. BackupPhase(a)'
    BY <1>1, <2>1, <2>2, <2>3 DEF BackupPhase, Snapshotting, Linked, Synced, Published
  <2>7. DirectoryInv'
    <3>1. bCreated = {} /\ ~bDir => phase = "mkdir"
      BY <1>1, <2>1 DEF BackupPhase
    <3> QED
      BY <1>1, <2>2, <2>3, <3>1 DEF DirectoryInv, Inside, Linked
  <2>8. ManifestInv'
    <3>1. Orderly => bMan # a /\ ("power" \in bFaults => a \notin bDman)
      BY <1>1, <2>1 DEF ManifestInv, Published
    <3>2. \A m \in {bMan} \cup bDman : m # NoOne => m \in Writers
      BY <1>1 DEF BackupTypeOK, Owners
    <3> QED
      BY <1>1, <2>2, <2>3, <3>1, <3>2 DEF ManifestInv, Orderly
  <2> QED
    BY <2>2, <2>4, <2>5, <2>6, <2>7, <2>8, OutputStep
<1>3. CASE MakeDirectory(a) /\ bDir
  <2>1. /\ bPc[a] = "mkdir" /\ BackupGoto(a, "failed")
        /\ UNCHANGED <<bCreated, bRecorded, bDir, bDdir, bDb, bDdb, bMan, bDman, bTemps, bLoose,
                       bSealed>>
    BY <1>3 DEF MakeDirectory, Place, Names
  <2> QED
    BY <2>1, EarlyMove, GivesUpStep DEF Published
<1>4. CASE MakeDirectory(a) /\ ~bDir
  <2>1. /\ bPc[a] = "mkdir" /\ bPc' = [bPc EXCEPT ![a] = "made"] /\ bCreated' = bCreated \cup {a}
        /\ bDir' = TRUE /\ bDdir' = {TRUE, FALSE} /\ bDdb' = {NoOne} /\ bDman' = {NoOne}
        /\ bLoose' = {} /\ UNCHANGED <<bDb, bMan, bTemps, bRecorded, bSealed>>
    BY <1>4 DEF MakeDirectory, BackupGoto
  <2>2. bPc'[a] = "made" /\ \A b \in Writers \ {a} : bPc'[b] = bPc[b]
    BY <1>1, <2>1 DEF BackupTypeOK
  <2>3. Respects(a)
    BY <1>1, <1>4, <2>1, <2>2 DEF Respects
  <2>4. BackupTypeOK'
    BY <1>1, <1>4, <2>1 DEF BackupTypeOK, BackupPhases, Owners
  <2>5. BackupPhase(a)'
    BY <2>1, <2>2 DEF BackupPhase, Snapshotting, Linked, Synced, Published
  <2>6. DirectoryInv'
    <3>1. a \notin bCreated
      BY <1>1, <2>1 DEF BackupPhase
    <3>2. MadeOnce' => bCreated = {}
      BY <2>1, <3>1 DEF MadeOnce
    <3> QED
      BY <1>1, <1>4, <2>1, <2>2, <3>2 DEF DirectoryInv, Inside, Linked
  <2>7. ManifestInv'
    BY <1>1, <1>4, <2>1 DEF ManifestInv
  <2> QED
    BY <2>1, <2>3, <2>4, <2>5, <2>6, <2>7, OutputStep
<1>5. CASE DiscardDirectory(a) /\ bDir' = FALSE /\ bDir
  <2>1. /\ bPc[a] = "discard_dir" /\ bPc' = [bPc EXCEPT ![a] = "failed"] /\ a \in bCreated
        /\ bDdir' = {FALSE} /\ bDdb' = {NoOne} /\ bDman' = {NoOne} /\ bLoose' = {}
        /\ bDb = NoOne /\ bMan = NoOne /\ bTemps = {}
        /\ UNCHANGED <<bCreated, bDb, bMan, bTemps, bRecorded, bSealed>>
    BY <1>5 DEF DiscardDirectory, BackupGoto, Empty, Place
  <2>2. bPc'[a] = "failed" /\ \A b \in Writers \ {a} : bPc'[b] = bPc[b]
    BY <1>1, <2>1 DEF BackupTypeOK
  <2>3. Respects(a)
    BY <1>1, <2>1, <2>2 DEF Respects
  <2>4. BackupTypeOK'
    BY <1>1, <1>5, <2>1 DEF BackupTypeOK, BackupPhases, Owners, Empty
  <2>5. BackupPhase(a)'
    BY <2>2 DEF BackupPhase, Snapshotting, Linked, Synced, Published
  <2>6. DirectoryInv' /\ ManifestInv'
    BY <1>5, <2>1 DEF DirectoryInv, ManifestInv
  <2> QED
    BY <2>1, <2>3, <2>4, <2>5, <2>6, OutputStep
<1>6. CASE DiscardDirectory(a) /\ ~(bDir' = FALSE /\ bDir)
  <2>1. UNCHANGED <<bDir, bDdir>> /\ (UNCHANGED <<bDdb, bDman, bLoose>> \/ SyncOutput)
    BY <1>6 DEF DiscardDirectory, Place
  <2> QED
    BY <1>6, <2>1, DiscardingStep
<1> QED
  BY <1>2, <1>3, <1>4, <1>5, <1>6

\* A power loss ends every attempt and takes or brings back what was not synced.
LEMMA OutageStep ==
    ASSUME BackupInv, BackupPowerLoss, UNCHANGED bFaults
    PROVE  BackupInv'
<1>1. /\ BackupTypeOK /\ DirectoryInv /\ ManifestInv /\ NoOne \notin Writers
      /\ bFaults \in FaultSets
      /\ (~bDir => bDb = NoOne /\ bMan = NoOne)
  BY BackupAssumption DEF BackupInv, BackupTypeOK, Empty
<1>2. /\ "power" \in bFaults /\ bDir' \in bDdir /\ bDdir' = {bDir'}
      /\ bPc' = [a \in Writers |-> IF bPc[a] \in {"done", "failed"} THEN bPc[a] ELSE "dead"]
      /\ bDdb' = {bDb'} /\ bDman' = {bMan'} /\ bLoose' = {}
      /\ UNCHANGED <<bCreated, bRecorded, bSealed>>
      /\ bDir' => bDb' \in bDdb /\ bMan' \in bDman
      /\ ~bDir' => bDb' = NoOne /\ bMan' = NoOne /\ bTemps' = {}
  BY DEF BackupPowerLoss
<1>3. bTemps' \in SUBSET Temps
  <2>1. CASE bDir'
    <3>1. PICK x \in SUBSET bLoose : bTemps' = (bTemps \ bLoose) \cup x
      BY <2>1 DEF BackupPowerLoss
    <3> QED
      BY <1>1, <3>1 DEF BackupTypeOK
  <2> QED
    BY <1>2, <2>1
<1>4. \A a \in Writers : bPc'[a] = IF bPc[a] \in {"done", "failed"} THEN bPc[a] ELSE "dead"
  BY <1>2
<1>5. BackupTypeOK'
  <2>1. bPc' \in [Writers -> BackupPhases]
    BY <1>1, <1>2 DEF BackupTypeOK, BackupPhases
  <2>2. bDir' \in BOOLEAN /\ bDb' \in Owners /\ bMan' \in Owners
    BY <1>1, <1>2 DEF BackupTypeOK, Owners
  <2> QED
    BY <1>1, <1>2, <1>3, <2>1, <2>2 DEF BackupTypeOK, Empty
<1>6. ASSUME NEW a \in Writers PROVE BackupPhase(a)'
  <2>1. BackupPhase(a)
    BY DEF BackupInv
  <2>2. CASE bPc'[a] \in {"dead", "failed"}
    BY <2>2 DEF BackupPhase, Snapshotting, Linked, Synced, Published
  <2>3. CASE bPc'[a] = "done"
    <3>1. bPc[a] = "done" /\ a \in bSealed /\ a # NoOne
      BY <1>1, <1>4, <2>1, <2>3 DEF BackupPhase
    <3>2. ASSUME MadeOnce'
          PROVE  bDb' = a /\ bDdb' = {a} /\ bMan' = a /\ bDman' = {a}
      <4>1. MadeOnce
        BY <1>2, <3>2 DEF MadeOnce
      <4>2. bDb = a /\ bDdb = {a} /\ bMan = a /\ bDman = {a}
        BY <2>1, <3>1, <4>1 DEF BackupPhase
      <4>3. FALSE \notin bDdir
        BY <1>1, <3>1, <4>1, <4>2 DEF DirectoryInv, Inside
      <4>4. bDir'
        BY <1>1, <1>2, <4>3 DEF BackupTypeOK
      <4> QED
        BY <1>2, <4>2, <4>4
    <3> QED
      BY <1>2, <2>3, <3>1, <3>2 DEF BackupPhase, Snapshotting, Linked, Synced, Published
  <2> QED
    BY <1>4, <2>2, <2>3
<1>7. DirectoryInv'
  <2>1. \A a \in Writers : bPc'[a] \in Inside => bPc[a] \in Inside
    BY <1>4 DEF Inside, Linked
  <2>2. ~(bDir' /\ FALSE \in bDdir')
    BY <1>2
  <2>3. ASSUME bCreated = {} PROVE bDir' = bDir
    BY <1>1, <1>2, <2>3 DEF DirectoryInv
  <2>4. ASSUME bCreated = {}, ~bDir' PROVE \A a \in Writers : bPc'[a] \notin Inside
    BY <1>1, <2>1, <2>3, <2>4 DEF DirectoryInv
  <2>5. bCreated' = bCreated /\ bDdir' = {bDir'}
    BY <1>2
  <2> QED
    BY <2>2, <2>4, <2>5 DEF DirectoryInv
<1>8. ManifestInv'
  <2>1. ASSUME Orderly, bMan' # NoOne
        PROVE  /\ bDb' = bMan' /\ bMan' \in bSealed /\ bPc'[bMan'] \in {"done", "dead"}
    <3>1. bDir' /\ bMan' \in bDman /\ bMan' \in Writers
      BY <1>1, <1>2, <2>1 DEF BackupTypeOK, Owners
    <3>2. bDdb = {bMan'} /\ bMan' \in bSealed /\ bPc[bMan'] \in Published \cup {"done", "dead"}
      BY <1>1, <1>2, <2>1, <3>1 DEF ManifestInv
    <3> QED
      BY <1>2, <1>4, <3>1, <3>2 DEF Published
  <2> QED
    BY <1>2, <2>1 DEF ManifestInv, Orderly, Published
<1> QED
  BY <1>1, <1>5, <1>6, <1>7, <1>8 DEF BackupInv

\* At first the output is absent or empty.
LEMMA BackupInitially == BackupInit => BackupInv
<1> SUFFICES ASSUME BackupInit PROVE BackupInv
  OBVIOUS
<1>1. BackupTypeOK /\ bFaults \in FaultSets
  BY DEF BackupInit, BackupTypeOK, BackupPhases, Owners, Empty
<1>2. \A a \in Writers : bPc[a] = "start" /\ a \notin bCreated
  BY DEF BackupInit
<1>3. \A a \in Writers : BackupPhase(a)
  BY <1>2 DEF BackupPhase, Snapshotting, Linked, Synced, Published
<1>4. DirectoryInv
  BY <1>2 DEF BackupInit, DirectoryInv, Inside, Linked
<1>5. ManifestInv
  BY DEF BackupInit, ManifestInv
<1> QED
  BY <1>1, <1>3, <1>4, <1>5 DEF BackupInv

\* Where nothing happens to the output it stays in order.
LEMMA OutputIdle == BackupInv /\ UNCHANGED outputVars => BackupInv'
<1> SUFFICES ASSUME BackupInv, UNCHANGED outputVars PROVE BackupInv'
  OBVIOUS
<1>1. BackupTypeOK' /\ bFaults' \in FaultSets
  BY DEF BackupInv, outputVars, BackupTypeOK, Empty
<1>2. \A a \in Writers : BackupPhase(a)'
  BY DEF BackupInv, outputVars, BackupPhase, MadeOnce
<1>3. DirectoryInv'
  BY DEF BackupInv, outputVars, DirectoryInv, MadeOnce
<1>4. ManifestInv'
  BY DEF BackupInv, outputVars, ManifestInv, Orderly
<1> QED
  BY <1>1, <1>2, <1>3, <1>4 DEF BackupInv

\* Every step of every attempt keeps the output in order.
LEMMA OutputKept == BackupInv /\ BackupNext => BackupInv'
<1> SUFFICES ASSUME BackupInv, BackupNext PROVE BackupInv'
  OBVIOUS
<1>1. CASE UNCHANGED outputVars
  <2>1. UNCHANGED outputVars
    BY <1>1 DEF outputVars
  <2> QED
    BY <2>1, OutputIdle
<1>2. ASSUME NEW a \in Writers, Write(a), UNCHANGED bFaults PROVE BackupInv'
  <2>1. CASE \/ Check(a) \/ Snapshot(a) \/ SealBackup(a) \/ RecordDatabase(a)
             \/ OpenTemporary(a) \/ UnlinkTemporary(a) \/ SyncDatabase(a)
             \/ ListOutput(a) \/ WriteManifest(a)
    BY <1>2, <2>1, WritingStep
  <2>2. CASE RecordManifest(a) \/ UnlinkManifestTemporary(a) \/ SyncManifest(a)
    BY <1>2, <2>2, ClosingStep
  <2>3. CASE InstallDatabase(a) \/ InstallManifest(a)
    BY <1>2, <2>3, LinkStep
  <2>4. CASE EnterOutput(a) \/ SyncParent(a) \/ MakeDirectory(a)
    BY <1>2, <2>4, DirectoryStep
  <2> QED
    BY Zenon, <1>2, <2>1, <2>2, <2>3, <2>4 DEF Write
<1>3. ASSUME NEW a \in Writers, Discard(a), UNCHANGED bFaults PROVE BackupInv'
  BY <1>3, RemovalStep, DiscardingStep, DirectoryStep DEF Discard
<1>4. ASSUME NEW a \in Writers, BackupCallFails(a) \/ Interrupted(a) \/ BackupCrash(a),
             UNCHANGED bFaults
      PROVE  BackupInv'
  BY <1>4, RaiseStep
<1> QED
  BY <1>1, <1>2, <1>3, <1>4, OutageStep DEF BackupNext, BackupStep, AllReturned

-----------------------------------------------------------------------------
(* Leftovers *)

\* Phases of an attempt whose manifest may be there, beside its database, ...
Holding == Published \cup {"done", "discard", "discard_database"}

\* ... and those of one that leaves it without.
Gone == {"discard_temps", "discard_dir", "failed", "dead"}

\* Whatever goes wrong, a manifest has its database until its attempt gave up.
LeftoverInv ==
    \A m \in bDman \ {NoOne} :
        bPc[m] \in Gone \/ (bPc[m] \in Holding /\ bDdb = {m} /\ m \in bSealed)

\* A step of attempt a after which no other manifest may be there.
LEMMA LeftoverMove ==
    ASSUME BackupInv, LeftoverInv, NEW a \in Writers, NEW phase, BackupGoto(a, phase),
           bDman' \subseteq bDman \cup {NoOne}, bSealed \subseteq bSealed',
           \A m \in Writers : bDdb = {m} => bDdb' = {m} \/ (m = a /\ phase \in Gone),
           bPc[a] \in Holding => phase \in Holding \cup Gone,
           bPc[a] \in Gone => phase \in Gone
    PROVE  LeftoverInv'
<1> SUFFICES ASSUME NEW m \in bDman' \ {NoOne}
    PROVE  bPc'[m] \in Gone \/ (bPc'[m] \in Holding /\ bDdb' = {m} /\ m \in bSealed')
  BY DEF LeftoverInv
<1>1. m \in bDman \ {NoOne} /\ m \in Writers
  BY DEF BackupInv, BackupTypeOK, Owners
<1>2. bPc[m] \in Gone \/ (bPc[m] \in Holding /\ bDdb = {m} /\ m \in bSealed)
  BY <1>1 DEF LeftoverInv
<1>3. bPc'[a] = phase /\ (m # a => bPc'[m] = bPc[m])
  BY <1>1 DEF BackupInv, BackupTypeOK, BackupGoto
<1> QED
  BY <1>1, <1>2, <1>3

\* Writing, up to the last sync.
LEMMA LeftoverWriting ==
    ASSUME BackupInv, LeftoverInv, NEW a \in Writers, Write(a)
    PROVE  LeftoverInv'
<1>1. BackupTypeOK /\ BackupPhase(a) /\ NoOne \notin Writers
  BY BackupAssumption DEF BackupInv
<1>2. bDb \in bDdb /\ bMan \in bDman
  BY <1>1 DEF BackupTypeOK
<1>3. CASE \/ Check(a) \/ EnterOutput(a) \/ SyncParent(a) \/ OpenTemporary(a)
           \/ Snapshot(a) \/ SealBackup(a) \/ RecordDatabase(a) \/ UnlinkTemporary(a)
           \/ ListOutput(a) \/ WriteManifest(a)
  <2>1. UNCHANGED <<bDdb, bDman>> /\ bSealed \subseteq bSealed'
    BY <1>3
       DEF Check, EnterOutput, SyncParent, OpenTemporary, Snapshot, SealBackup, RecordDatabase,
           Record, UnlinkTemporary, ListOutput, WriteManifest, Names
  <2>2. PICK phase : BackupGoto(a, phase)
    BY <1>3
       DEF Check, EnterOutput, SyncParent, OpenTemporary, Snapshot, SealBackup, RecordDatabase,
           Record, UnlinkTemporary, ListOutput, WriteManifest
  <2>3. bPc[a] \notin Holding \cup Gone
    BY <1>3
       DEF Check, EnterOutput, SyncParent, OpenTemporary, Snapshot, SealBackup, RecordDatabase,
           Record, UnlinkTemporary, ListOutput, WriteManifest, Holding, Gone, Published
  <2> QED
    BY <2>1, <2>2, <2>3, LeftoverMove
<1>4. CASE SyncDatabase(a) \/ SyncManifest(a)
  <2>1. bDdb' = {bDb} /\ bDman' = {bMan} /\ UNCHANGED bSealed
    BY <1>4 DEF SyncDatabase, SyncManifest, SyncOutput
  <2>2. PICK phase \in {"list", "done"} :
           BackupGoto(a, phase) /\ bPc[a] = IF phase = "list" THEN "sync" ELSE "sync_manifest"
    BY <1>4 DEF SyncDatabase, SyncManifest
  <2>3. \A m : bDdb = {m} => bDdb' = {m}
    BY <1>2, <2>1
  <2>4. /\ bPc[a] \in Holding => phase \in Holding
        /\ bPc[a] \notin Gone
    BY <2>2 DEF Holding, Gone, Published
  <2> QED
    BY <1>2, <2>1, <2>2, <2>3, <2>4, LeftoverMove
<1>5. CASE RecordManifest(a) \/ UnlinkManifestTemporary(a)
  <2>1. UNCHANGED <<bDdb, bDman, bSealed>>
    BY <1>5 DEF RecordManifest, Record, UnlinkManifestTemporary, Names
  <2>2. PICK phase \in {"unlink_manifest", "sync_manifest"} : BackupGoto(a, phase)
    BY <1>5 DEF RecordManifest, Record, UnlinkManifestTemporary
  <2>3. phase \in Holding /\ bPc[a] \notin Gone
    BY <1>5 DEF RecordManifest, Record, UnlinkManifestTemporary, Holding, Gone, Published
  <2> QED
    BY <2>1, <2>2, <2>3, LeftoverMove
<1>6. CASE MakeDirectory(a)
  <2>1. PICK phase : BackupGoto(a, phase)
    BY <1>6 DEF MakeDirectory
  <2>2. bPc[a] \notin Holding \cup Gone /\ UNCHANGED bSealed
    BY <1>6 DEF MakeDirectory, Holding, Gone, Published
  <2>3. CASE bDir
    <3>1. UNCHANGED <<bDdb, bDman>>
      BY <1>6, <2>3 DEF MakeDirectory, Names
    <3> QED
      BY <2>1, <2>2, <3>1, LeftoverMove
  <2>4. CASE ~bDir
    BY <1>6, <2>4 DEF MakeDirectory, LeftoverInv
  <2> QED
    BY <2>3, <2>4
<1>7. CASE InstallDatabase(a)
  <2>1. PICK phase : BackupGoto(a, phase)
    BY <1>7 DEF InstallDatabase
  <2>2. bPc[a] \notin Holding \cup Gone /\ UNCHANGED <<bSealed, bDman>>
    BY <1>7 DEF InstallDatabase, Holding, Gone, Published
  <2>3. \A m \in Writers : bDdb = {m} => bDdb' = {m}
    BY <1>1, <1>2, <1>7 DEF InstallDatabase
  <2> QED
    BY <2>1, <2>2, <2>3, LeftoverMove
<1>8. CASE InstallManifest(a) /\ bMan # NoOne
  <2>1. /\ BackupGoto(a, "discard") /\ UNCHANGED <<bDdb, bDman, bSealed>>
        /\ bPc[a] = "publish"
    BY <1>8 DEF InstallManifest
  <2>2. "discard" \in Holding /\ bPc[a] \notin Gone
    BY <2>1 DEF Holding, Gone
  <2> QED
    BY <2>1, <2>2, LeftoverMove
<1>9. CASE InstallManifest(a) /\ bMan = NoOne
  <2>1. /\ bPc[a] = "publish" /\ bPc' = [bPc EXCEPT ![a] = "record_manifest"]
        /\ bDman' = bDman \cup {a} /\ UNCHANGED <<bDdb, bSealed>>
    BY <1>9 DEF InstallManifest, LinkManifest, BackupGoto
  <2>2. bDdb = {a} /\ a \in bSealed
    BY <1>1, <2>1 DEF BackupPhase, Synced, Linked
  <2>3. bPc'[a] \in Holding /\ \A m \in Writers \ {a} : bPc'[m] = bPc[m]
    BY <1>1, <2>1 DEF BackupTypeOK, Holding, Published
  <2>4. \A m \in bDman \ {NoOne} : m \in Writers
    BY <1>1 DEF BackupTypeOK, Owners
  <2> QED
    BY <2>1, <2>2, <2>3, <2>4 DEF LeftoverInv
<1> QED
  BY <1>3, <1>4, <1>5, <1>6, <1>7, <1>8, <1>9 DEF Write

\* Failures, the discard and the end of the process.
LEMMA LeftoverEnding ==
    ASSUME BackupInv, LeftoverInv, NEW a \in Writers,
           BackupCallFails(a) \/ Interrupted(a) \/ Discard(a) \/ BackupCrash(a)
    PROVE  LeftoverInv'
<1>1. BackupTypeOK /\ NoOne \notin Writers /\ bDb \in bDdb /\ bMan \in bDman
  BY BackupAssumption DEF BackupInv, BackupTypeOK
<1>2. CASE BackupCallFails(a) \/ Interrupted(a) \/ BackupCrash(a)
  <2>1. UNCHANGED <<bDdb, bDman, bSealed>>
    BY <1>2 DEF BackupCallFails, Interrupted, BackupCrash, Raise, Names
  <2>2. PICK phase \in {"failed", "discard", "dead"} :
           BackupGoto(a, phase) /\ (phase = "discard" => bPc[a] \notin Gone)
    BY <1>2 DEF BackupCallFails, Interrupted, BackupCrash, Raise, Working, Returned, Gone
  <2>3. phase \in Holding \cup Gone /\ (phase # "discard" => phase \in Gone)
    BY DEF Holding, Gone
  <2> QED
    BY <2>1, <2>2, <2>3, LeftoverMove
<1>3. CASE DiscardManifest(a)
  <2>1. /\ BackupGoto(a, "discard_database") /\ bPc[a] = "discard"
        /\ UNCHANGED <<bDdb, bSealed>> /\ bDman' \subseteq bDman \cup {NoOne}
    BY <1>3 DEF DiscardManifest
  <2>2. "discard_database" \in Holding /\ bPc[a] \notin Gone
    BY <2>1 DEF Holding, Gone
  <2> QED
    BY <2>1, <2>2, LeftoverMove
<1>4. CASE DiscardDatabase(a)
  <2>1. /\ BackupGoto(a, "discard_temps") /\ "discard_temps" \in Gone
        /\ UNCHANGED <<bDman, bSealed>>
    BY <1>4 DEF DiscardDatabase, Gone
  <2>2. \A m \in Writers : bDdb = {m} => bDdb' = {m} \/ m = a
    BY <1>1, <1>4 DEF DiscardDatabase, Owns
  <2> QED
    BY <2>1, <2>2, LeftoverMove
<1>5. CASE DiscardTemps(a)
  <2>1. /\ BackupGoto(a, "discard_dir") /\ "discard_dir" \in Gone
        /\ UNCHANGED <<bDdb, bDman, bSealed>>
    BY <1>5 DEF DiscardTemps, Gone
  <2> QED
    BY <2>1, LeftoverMove
<1>6. CASE DiscardDirectory(a)
  <2>1. BackupGoto(a, "failed") /\ "failed" \in Gone /\ UNCHANGED bSealed
    BY <1>6 DEF DiscardDirectory, Gone
  <2>2. CASE bDman' = {NoOne}
    BY <2>2 DEF LeftoverInv
  <2>3. CASE UNCHANGED <<bDdb, bDman>> \/ SyncOutput
    <3>1. bDman' \subseteq bDman \cup {NoOne} /\ \A m : bDdb = {m} => bDdb' = {m}
      BY <1>1, <2>3 DEF SyncOutput
    <3> QED
      BY <2>1, <3>1, LeftoverMove
  <2> QED
    BY <1>6, <2>2, <2>3 DEF DiscardDirectory
<1> QED
  BY <1>2, <1>3, <1>4, <1>5, <1>6 DEF Discard

\* A power loss brings back only a manifest whose database comes back too, or
\* one of an attempt that gave up or dies now.
LEMMA LeftoverOutage ==
    ASSUME BackupInv, LeftoverInv, BackupPowerLoss
    PROVE  LeftoverInv'
<1>1. /\ bPc' = [a \in Writers |-> IF bPc[a] \in {"done", "failed"} THEN bPc[a] ELSE "dead"]
      /\ bDdb' = {bDb'} /\ bDman' = {bMan'} /\ UNCHANGED bSealed
      /\ bDir' => bDb' \in bDdb /\ bMan' \in bDman
      /\ ~bDir' => bMan' = NoOne
  BY DEF BackupPowerLoss
<1>2. CASE bMan' = NoOne
  BY <1>1, <1>2 DEF LeftoverInv
<1>3. CASE bMan' # NoOne
  <2>1. bMan' \in bDman \ {NoOne} /\ bMan' \in Writers /\ bDb' \in bDdb
    BY <1>1, <1>3 DEF BackupInv, BackupTypeOK, Owners
  <2>2. \/ bPc[bMan'] \in Gone
        \/ bPc[bMan'] \in Holding /\ bDdb = {bMan'} /\ bMan' \in bSealed
    BY <2>1 DEF LeftoverInv
  <2>3. bPc'[bMan'] = IF bPc[bMan'] \in {"done", "failed"} THEN bPc[bMan'] ELSE "dead"
    BY <1>1, <2>1
  <2> QED
    BY <1>1, <2>1, <2>2, <2>3 DEF LeftoverInv, Gone, Holding
<1> QED
  BY <1>2, <1>3

\* Every step of every attempt.
LEMMA LeftoverKept == BackupInv /\ LeftoverInv /\ [BackupNext]_outputVars => LeftoverInv'
<1> SUFFICES ASSUME BackupInv, LeftoverInv, [BackupNext]_outputVars PROVE LeftoverInv'
  OBVIOUS
<1>1. CASE UNCHANGED outputVars
  BY <1>1 DEF outputVars, LeftoverInv
<1>2. CASE BackupStep
  BY <1>2, LeftoverWriting, LeftoverEnding, LeftoverOutage DEF BackupStep
<1> QED
  BY <1>1, <1>2 DEF BackupNext, AllReturned

\* A reported backup stays as it was reported, and a manifest has its database
\* or is the leftover of an attempt that gave up and could not remove it, for
\* any number of attempts at one output and any faults together (write_backup,
\* _discard_attempt).
THEOREM BackupStaysWhole == BackupSpec => []BackupIsWhole
<1>1. BackupInit => BackupInv /\ LeftoverInv
  BY BackupInitially DEF BackupInit, LeftoverInv
<1>2. BackupInv /\ LeftoverInv /\ [BackupNext]_outputVars => BackupInv' /\ LeftoverInv'
  BY OutputKept, OutputIdle, LeftoverKept DEF BackupNext
<1>3. BackupInv /\ LeftoverInv => BackupIsWhole
  <2> SUFFICES ASSUME BackupInv, LeftoverInv PROVE BackupIsWhole
    OBVIOUS
  <2>1. /\ \A a \in Writers : BackupPhase(a) /\ a # NoOne
        /\ ManifestInv /\ (~bDir => bDb = NoOne)
    BY BackupAssumption DEF BackupInv, BackupTypeOK, Empty
  <2>2. ReportedBackupIsKept
    BY <2>1 DEF ReportedBackupIsKept, BackupPhase, MadeOnce
  <2>3. ManifestBehindDatabase
    <3> SUFFICES ASSUME bMan # NoOne, ~(bDb = bMan /\ bMan \in bSealed)
        PROVE  GaveUp(bMan) /\ ~Orderly
      BY DEF ManifestBehindDatabase, Orderly
    <3>1. ~Orderly
      BY <2>1 DEF ManifestInv
    <3>2. bMan \in bDman \ {NoOne} /\ bDb \in bDdb
      BY DEF BackupInv, BackupTypeOK
    <3>3. bPc[bMan] \in Gone
      BY <3>2 DEF LeftoverInv
    <3> QED
      BY <3>1, <3>3 DEF GaveUp, Gone
  <2> QED
    BY <2>2, <2>3 DEF BackupIsWhole
<1> QED
  BY <1>1, <1>2, <1>3, PTL DEF BackupSpec
=============================================================================
