---------------------------- MODULE UpkeepProofs ----------------------------
(***************************************************************************)
(* Theorems about what an operator does to the databases, for any number   *)
(* of databases, invocations and migrations and whatever fails: restores   *)
(* touch only what they created and account for what they leave, and an    *)
(* upgrade keeps the ledger true, its backup and the repositories' content.*)
(***************************************************************************)
EXTENDS ExtensionRestore, SchemaUpgrade, TLAPS

\* Most leaves are first-order and go to Zenon; those with arithmetic cite SMT.
USE Zenon

-----------------------------------------------------------------------------
(* Restores of sets of databases with extensions *)

\* Where an invocation has not begun to change anything, is filling its
\* targets, and still has targets of its own to account for.
Before == {"new", "preflight", "admitted", "waiting"}
Filling == {"next", "create", "hold", "install", "replay", "verify"}
Undoing == {"compensate", "drop"}
Working == Filling \cup Undoing

IntentStates == {"not_created", "outcome_unknown", "created_unheld", "created",
                 "completed", "cleaned"}
Actors == Invocations \cup {"none", "other"}

Restorable == [owner : Actors, stamp : Actors, whole : BOOLEAN, was : Actors, by : Actors]
Steps == Before \cup Working \cup {"finish"} \cup Ended
Places == [at : Steps, k : Nat, diags : BOOLEAN, unknown : BOOLEAN, interrupted : BOOLEAN]
Intents == [Targets -> [state : IntentStates, oid : BOOLEAN]]
Ledger == [Targets -> IntentStates \cup {"none"}]
Late == [by : Invocations, does : {"create", "spoil", "drop"}, on : Targets]

RestoreTypeOK ==
    /\ dbs \in [Targets -> Restorable]
    /\ inv \in [Invocations -> Places]
    /\ intents \in [Invocations -> Intents]
    /\ ledger \in [Invocations -> Ledger]
    /\ pending \subseteq Late

\* Who created a database changed it last, and only its owner stamps it.
DatabaseInv(t) ==
    /\ dbs[t].by = dbs[t].was
    /\ dbs[t].owner # "none" => dbs[t].owner = dbs[t].was
    /\ dbs[t].stamp # "none" => dbs[t].owner = dbs[t].stamp

\* An invocation leaves at most one command behind, on a database of its own
\* or one that it may still create, and does nothing to a database after that.
PendingInv ==
    /\ \A c \in pending :
          /\ c.does # "create" => dbs[c.on].owner = c.by
          /\ inv[c.by].unknown \/ inv[c.by].at = "killed"
    /\ \A c, d \in pending : c.by = d.by => c = d

\* What an invocation has to answer for.
Left(i, t) ==
    dbs[t].owner = i \/ \E c \in pending : c.by = i /\ c.on = t

Indices == 1 .. Len(Order)

\* Where an invocation is in the order.
CountInv(i) ==
    LET at == inv[i].at
        k == inv[i].k
    IN  /\ at \in Before => k = 1
        /\ at \in Working \ {"next", "compensate"} => k \in Indices
        /\ at = "next" => k \in 1 .. Len(Order) + 1
        /\ at = "compensate" => k \in 0 .. Len(Order)
        /\ inv[i].unknown => at \in {"compensate", "failed", "killed"}

\* Which targets are its own, and which of them are whole.
TargetInv(i) ==
    LET at == inv[i].at
        k == inv[i].k
    IN  /\ at \in Before => \A t \in Targets : dbs[t].owner # i
        /\ at \in {"hold", "install", "replay", "verify", "drop"} =>
              dbs[Order[k]].owner = i
        /\ at = "verify" => dbs[Order[k]].whole
        /\ at \in Filling =>
              \A n \in Indices : n < k =>
                 dbs[Order[n]].owner = i /\ dbs[Order[n]].whole
        /\ at \in {"finish", "success"} =>
              \A t \in Targets :
                 dbs[t].owner = i /\ dbs[t].whole /\ dbs[t].stamp = "none"

\* Which targets its intents and its ledger name.
AccountInv(i) ==
    LET at == inv[i].at
        k == inv[i].k
    IN  /\ at = "create" =>
              /\ intents[i][Order[k]].state = "outcome_unknown"
              /\ ledger[i][Order[k]] = "outcome_unknown"
        /\ at \in Working =>
              \A t \in Targets : Left(i, t) =>
                 intents[i][t].state \notin Terminal /\ Named(i, t)
        /\ at \in Undoing =>
              \A n \in Indices : n > k /\ Left(i, Order[n]) =>
                 inv[i].diags \/ inv[i].unknown
        /\ at \in Ended =>
              /\ \A t \in Targets :
                    dbs[t].owner = i /\ Unfinished(t) => Named(i, t)
              /\ \A c \in pending : c.by = i => Named(i, c.on)

RestorePhase(i) == CountInv(i) /\ TargetInv(i) /\ AccountInv(i)

RestoreInv ==
    /\ RestoreTypeOK
    /\ \A t \in Targets : DatabaseInv(t)
    /\ PendingInv
    /\ \A i \in Invocations : RestorePhase(i)

\* The targets are the places of the restore order, each once.
LEMMA OrderFacts ==
    /\ Len(Order) \in Nat /\ Len(Order) > 0
    /\ \A n \in Indices : Order[n] \in Targets
    /\ \A t \in Targets : \E n \in Indices : t = Order[n]
    /\ \A m, n \in Indices : Order[m] = Order[n] => m = n
  BY SMT, RestoreAssumption DEF Targets, Indices

\* Neither nobody nor the other actor is an invocation.
LEMMA ActorFacts == "none" \notin Invocations /\ "other" \notin Invocations
  BY RestoreAssumption

-----------------------------------------------------------------------------
(* Steps of one invocation *)

\* It touches what is its own or not there.
OwnStep(i) ==
    /\ \A j \in Invocations : j # i =>
          inv'[j] = inv[j] /\ intents'[j] = intents[j] /\ ledger'[j] = ledger[j]
    /\ \A t \in Targets :
          \/ dbs'[t] = dbs[t]
          \/ /\ dbs[t].owner \in {i, "none"} /\ dbs'[t].owner \in {i, "none"}
             /\ DatabaseInv(t)'
    /\ \A c \in pending' : c \in pending \/ c.by = i

\* What it leaves behind when it has nothing under way.
LEMMA NothingPending ==
    ASSUME RestoreInv, NEW i \in Invocations, ~inv[i].unknown, inv[i].at # "killed"
    PROVE  \A c \in pending : c.by # i
  BY DEF RestoreInv, PendingInv

\* The place of another invocation says the same of its targets.
LEMMA OthersPhase ==
    ASSUME RestoreTypeOK, NEW j \in Invocations, RestorePhase(j),
           inv'[j] = inv[j], intents'[j] = intents[j], ledger'[j] = ledger[j],
           \A c \in pending' : c.by = j => c \in pending,
           \A t \in Targets :
              \/ dbs'[t] = dbs[t]
              \/ dbs[t].owner # j /\ dbs'[t].owner # j
    PROVE  RestorePhase(j)'
<1>1. \A t \in Targets : Left(j, t)' => Left(j, t)
  BY DEF Left
<1>2. \A t \in Targets : Named(j, t)' <=> Named(j, t)
  BY DEF Named
<1>3. \A t \in Targets : dbs[t].owner = j \/ dbs'[t].owner = j => dbs'[t] = dbs[t]
  OBVIOUS
<1>4. \A t \in Targets : dbs'[t].owner = j /\ Unfinished(t)' =>
         dbs[t].owner = j /\ Unfinished(t)
  BY <1>3 DEF Unfinished
<1>5. CountInv(j)'
  BY DEF RestorePhase, CountInv
<1>6. TargetInv(j)'
  <2>1. inv[j].at \in {"hold", "install", "replay", "verify", "drop"} => inv[j].k \in Indices
    BY DEF RestorePhase, CountInv, Working, Filling, Undoing
  <2> QED
    BY SMT, <1>3, <2>1, OrderFacts DEF RestorePhase, TargetInv
<1>7. AccountInv(j)'
  <2>1. \A c \in pending' : c.by = j => c.on \in Targets
    BY DEF RestoreTypeOK, Late
  <2> QED
    BY <1>1, <1>2, <1>4, <2>1, OrderFacts DEF RestorePhase, AccountInv
<1> QED
  BY <1>5, <1>6, <1>7 DEF RestorePhase

\* A step of one invocation keeps what the others rely on.
LEMMA RestoreKept ==
    ASSUME RestoreInv, RestoreTypeOK', NEW i \in Invocations, OwnStep(i),
           \A c \in pending' : c.by = i =>
              /\ c.does # "create" => dbs'[c.on].owner = i
              /\ inv'[i].unknown \/ inv'[i].at = "killed",
           \A c, d \in pending' : c.by = i /\ d.by = i => c = d,
           RestorePhase(i)'
    PROVE  RestoreInv'
<1>1. \A t \in Targets : DatabaseInv(t)'
  BY SMT DEF OwnStep, RestoreInv, DatabaseInv
<1>2. \A c \in pending' : c.by # i =>
         /\ c \in pending /\ inv'[c.by] = inv[c.by]
         /\ c.does # "create" => dbs'[c.on].owner = c.by
  <2> SUFFICES ASSUME NEW c \in pending', c.by # i
      PROVE  /\ c \in pending /\ inv'[c.by] = inv[c.by]
             /\ c.does # "create" => dbs'[c.on].owner = c.by
    OBVIOUS
  <2>1. c \in pending /\ c.by \in Invocations /\ c.on \in Targets
    BY DEF OwnStep, RestoreInv, RestoreTypeOK, Late
  <2>2. c.does # "create" => dbs[c.on].owner = c.by
    BY <2>1 DEF RestoreInv, PendingInv
  <2> QED
    BY <2>1, <2>2, ActorFacts DEF OwnStep
<1>3. PendingInv'
  BY <1>2 DEF PendingInv, RestoreInv
<1>4. \A j \in Invocations : RestorePhase(j)'
  <2> SUFFICES ASSUME NEW j \in Invocations, j # i PROVE RestorePhase(j)'
    OBVIOUS
  <2>1. \A t \in Targets : \/ dbs'[t] = dbs[t]
                           \/ dbs[t].owner # j /\ dbs'[t].owner # j
    BY ActorFacts DEF OwnStep
  <2> QED
    BY <2>1, OthersPhase DEF OwnStep, RestoreInv
<1> QED
  BY <1>1, <1>3, <1>4 DEF RestoreInv

-----------------------------------------------------------------------------
(* What a command does to its database *)

\* A database is created only where there is none.
LEMMA CreateEffect ==
    ASSUME RestoreTypeOK, NEW i \in Invocations, NEW t \in Targets,
           \A u \in Targets : DatabaseInv(u), Apply("create", t, i)
    PROVE  /\ dbs' \in [Targets -> Restorable]
           /\ \A u \in Targets : u # t => dbs'[u] = dbs[u]
           /\ dbs[t].owner # "none" => dbs'[t] = dbs[t]
           /\ dbs[t].owner = "none" => dbs'[t].owner = i /\ DatabaseInv(t)'
<1>1. dbs' = [dbs EXCEPT ![t] = Effect("create", t, i)]
  BY DEF Apply
<1>2. Effect("create", t, i) = IF dbs[t].owner # "none" THEN dbs[t] ELSE Made(i)
  BY DEF Effect, Exists, None
<1>3. /\ Made(i) \in Restorable
      /\ Made(i).owner = i /\ Made(i).was = i /\ Made(i).by = i /\ Made(i).stamp = "none"
  BY DEF Made, None, Other, Actors, Restorable
<1> HIDE DEF Made
<1> QED
  BY <1>1, <1>2, <1>3 DEF RestoreTypeOK, DatabaseInv

\* Filling a database of one's own changes what is in it.
LEMMA FillEffect ==
    ASSUME RestoreTypeOK, NEW i \in Invocations, NEW t \in Targets,
           \A u \in Targets : DatabaseInv(u), dbs[t].owner = i,
           NEW does \in {"fill", "spoil", "keep"}, Apply(does, t, i)
    PROVE  /\ dbs' \in [Targets -> Restorable]
           /\ \A u \in Targets : u # t => dbs'[u] = dbs[u]
           /\ dbs'[t].owner = i /\ DatabaseInv(t)'
           /\ does = "fill" => dbs'[t].whole
           /\ does = "keep" => dbs'[t].whole = dbs[t].whole
<1>1. dbs' = [dbs EXCEPT ![t] = Effect(does, t, i)]
  BY DEF Apply
<1>2. Effect(does, t, i) =
        CASE does = "fill" -> [dbs[t] EXCEPT !.whole = TRUE, !.by = i]
          [] does = "spoil" -> [dbs[t] EXCEPT !.whole = FALSE, !.by = i]
          [] does = "keep" -> [dbs[t] EXCEPT !.by = i]
  BY ActorFacts DEF Effect, Exists, None
<1>3. i \in Actors /\ dbs[t].was = i
  BY ActorFacts DEF Actors, DatabaseInv
<1>4. /\ Effect(does, t, i) \in Restorable
      /\ Effect(does, t, i).owner = i /\ Effect(does, t, i).was = i
      /\ Effect(does, t, i).by = i /\ Effect(does, t, i).stamp = dbs[t].stamp
      /\ does = "fill" => Effect(does, t, i).whole
      /\ does = "keep" => Effect(does, t, i).whole = dbs[t].whole
  <2>1. dbs[t] \in Restorable
    BY DEF RestoreTypeOK
  <2> QED
    BY <1>2, <1>3, <2>1 DEF Restorable
<1>5. dbs'[t] = Effect(does, t, i)
  BY <1>1 DEF RestoreTypeOK
<1>6. DatabaseInv(t)'
  BY <1>4, <1>5 DEF DatabaseInv
<1> QED
  BY <1>1, <1>4, <1>5, <1>6 DEF RestoreTypeOK

\* Dropping a database of one's own leaves none.
LEMMA DropEffect ==
    ASSUME RestoreTypeOK, NEW i \in Invocations, NEW t \in Targets,
           \A u \in Targets : DatabaseInv(u), dbs[t].owner = i,
           Apply("drop", t, i)
    PROVE  /\ dbs' \in [Targets -> Restorable]
           /\ \A u \in Targets : u # t => dbs'[u] = dbs[u]
           /\ dbs'[t].owner = "none" /\ DatabaseInv(t)'
<1>1. dbs' = [dbs EXCEPT ![t] = Effect("drop", t, i)]
  BY DEF Apply
<1>2. Effect("drop", t, i) = [dbs[t] EXCEPT !.owner = "none", !.stamp = "none", !.by = i]
  BY ActorFacts DEF Effect, Exists, None
<1>3. i \in Actors /\ "none" \in Actors /\ dbs[t].was = i
  BY ActorFacts DEF Actors, DatabaseInv
<1>4. /\ Effect("drop", t, i) \in Restorable
      /\ Effect("drop", t, i).owner = "none" /\ Effect("drop", t, i).was = i
      /\ Effect("drop", t, i).by = i /\ Effect("drop", t, i).stamp = "none"
  <2>1. dbs[t] \in Restorable
    BY DEF RestoreTypeOK
  <2> QED
    BY <1>2, <1>3, <2>1 DEF Restorable
<1>5. dbs'[t] = Effect("drop", t, i)
  BY <1>1 DEF RestoreTypeOK
<1>6. DatabaseInv(t)'
  BY <1>4, <1>5 DEF DatabaseInv
<1> QED
  BY <1>1, <1>4, <1>5, <1>6 DEF RestoreTypeOK

-----------------------------------------------------------------------------
(* Moves of one invocation *)

\* It goes to another step.
LEMMA GoMoves ==
    ASSUME inv \in [Invocations -> Places], NEW i \in Invocations, NEW step \in Steps,
           Go(i, step)
    PROVE  /\ inv' \in [Invocations -> Places]
           /\ \A j \in Invocations : j # i => inv'[j] = inv[j]
           /\ inv'[i].at = step /\ inv'[i].k = inv[i].k
           /\ inv'[i].unknown = inv[i].unknown /\ inv'[i].diags = inv[i].diags
  BY DEF Go, Places

\* It begins to undo what it did.
LEMMA UndoMoves ==
    ASSUME inv \in [Invocations -> Places], NEW i \in Invocations,
           Compensate(i) \/ CompensateUnknown(i)
    PROVE  /\ inv' \in [Invocations -> Places]
           /\ \A j \in Invocations : j # i => inv'[j] = inv[j]
           /\ inv'[i].at = "compensate" /\ inv'[i].k = Len(Order)
           /\ CompensateUnknown(i) => inv'[i].unknown
<1>1. inv[i] \in Places /\ Len(Order) \in Nat /\ "compensate" \in Steps
  BY OrderFacts DEF Steps, Working, Undoing
<1>2. /\ Compensating(i) \in Places
      /\ Compensating(i).at = "compensate" /\ Compensating(i).k = Len(Order)
      /\ [Compensating(i) EXCEPT !.unknown = TRUE] \in Places
      /\ [Compensating(i) EXCEPT !.unknown = TRUE].at = "compensate"
      /\ [Compensating(i) EXCEPT !.unknown = TRUE].k = Len(Order)
      /\ [Compensating(i) EXCEPT !.unknown = TRUE].unknown = TRUE
  BY <1>1 DEF Compensating, Places
<1> HIDE DEF Compensating
<1>3. CASE CompensateUnknown(i)
  BY <1>2, <1>3 DEF CompensateUnknown
<1>4. CASE Compensate(i) /\ ~CompensateUnknown(i)
  BY <1>2, <1>4 DEF Compensate
<1> QED
  BY <1>3, <1>4

\* A restore that gives up answers for what it leaves: its intents and its
\* ledger name every database that is its own and the command that may still
\* take effect (the except clause of execute_extension_v2_restore_set).
LEMMA GivesUp ==
    ASSUME RestoreInv, NEW i \in Invocations, inv[i].at \in Filling,
           Compensate(i) \/ CompensateUnknown(i),
           dbs' \in [Targets -> Restorable], intents' \in [Invocations -> Intents],
           ledger' \in [Invocations -> Ledger],
           \A j \in Invocations : j # i => intents'[j] = intents[j] /\ ledger'[j] = ledger[j],
           \A t \in Targets :
              \/ dbs'[t] = dbs[t]
              \/ /\ dbs[t].owner \in {i, "none"} /\ dbs'[t].owner \in {i, "none"}
                 /\ DatabaseInv(t)',
           \/ pending' = pending
           \/ /\ CompensateUnknown(i)
              /\ \E c \in Late : /\ c.by = i /\ pending' = pending \cup {c}
                                 /\ c.does # "create" => dbs'[c.on].owner = i,
           \A t \in Targets : Left(i, t)' =>
              intents'[i][t].state \notin Terminal /\ Named(i, t)'
    PROVE  RestoreInv'
<1>1. ~inv[i].unknown /\ inv[i].at # "killed"
  BY DEF RestoreInv, RestorePhase, CountInv, Filling
<1>2. \A c \in pending : c.by # i
  BY <1>1, NothingPending
<1>3. /\ inv' \in [Invocations -> Places]
      /\ \A j \in Invocations : j # i => inv'[j] = inv[j]
      /\ inv'[i].at = "compensate" /\ inv'[i].k = Len(Order)
      /\ CompensateUnknown(i) => inv'[i].unknown
  BY UndoMoves DEF RestoreInv, RestoreTypeOK
<1>4. RestoreTypeOK'
  BY <1>3 DEF RestoreInv, RestoreTypeOK
<1>5. OwnStep(i)
  BY <1>3 DEF OwnStep
<1>6. RestorePhase(i)'
  <2>1. CountInv(i)'
    BY SMT, <1>3, OrderFacts DEF CountInv, Before, Working, Filling, Undoing
  <2>2. TargetInv(i)'
    BY <1>3 DEF TargetInv, Before, Filling
  <2>3. AccountInv(i)'
    <3>1. \A n \in Indices : ~(n > Len(Order))
      BY SMT, OrderFacts DEF Indices
    <3> QED
      BY <1>3, <3>1 DEF AccountInv, Ended
  <2> QED
    BY <2>1, <2>2, <2>3 DEF RestorePhase
<1>7. \A c \in pending' : c.by = i =>
         /\ c.does # "create" => dbs'[c.on].owner = i
         /\ inv'[i].unknown
  BY ZenonT(40), <1>2, <1>3
<1>8. \A c, d \in pending' : c.by = i /\ d.by = i => c = d
  BY <1>2
<1> QED
  BY <1>4, <1>5, <1>6, <1>7, <1>8, RestoreKept

\* It gives up before anything changes.
LEMMA GivesUpAtOnce ==
    ASSUME RestoreInv, NEW i \in Invocations, inv[i].at \in Filling,
           Compensate(i) \/ CompensateUnknown(i),
           UNCHANGED <<dbs, intents, ledger, pending>>
    PROVE  RestoreInv'
<1>1. \A t \in Targets : Left(i, t)' =>
         intents'[i][t].state \notin Terminal /\ Named(i, t)'
  BY DEF RestoreInv, RestorePhase, AccountInv, Left, Named, Working
<1> QED
  BY <1>1, GivesUp DEF RestoreInv, RestoreTypeOK

\* persist_intent_ledger writes the states of the intents.
LEMMA LedgerWritten ==
    ASSUME ledger \in [Invocations -> Ledger], NEW i \in Invocations, NEW its \in Intents,
           ledger' = Written(i, its)
    PROVE  /\ ledger' \in [Invocations -> Ledger]
           /\ \A j \in Invocations : j # i => ledger'[j] = ledger[j]
           /\ \A t \in Targets : ledger'[i][t] = its[t].state
<1>1. States(its) \in Ledger /\ \A t \in Targets : States(its)[t] = its[t].state
  BY DEF States, Ledger, Intents, Targets
<1> HIDE DEF States
<1> QED
  BY <1>1 DEF Written

-----------------------------------------------------------------------------
(* Preflight and entry *)

\* Before it has created anything an invocation has nothing to answer for.
LEMMA EntryMove ==
    ASSUME RestoreInv, NEW i \in Invocations, inv[i].at \in Before,
           NEW step \in Before \cup {"next", "refused", "failed"}, Go(i, step),
           UNCHANGED <<dbs, intents, pending>>,
           ledger' \in [Invocations -> Ledger],
           \A j \in Invocations : j # i => ledger'[j] = ledger[j]
    PROVE  RestoreInv'
<1>1. ~inv[i].unknown /\ inv[i].at # "killed" /\ inv[i].k = 1
  BY DEF RestoreInv, RestorePhase, CountInv, Before
<1>2. \A c \in pending : c.by # i
  BY <1>1, NothingPending
<1>3. \A t \in Targets : dbs[t].owner # i /\ ~Left(i, t)'
  BY ZenonT(40), <1>2 DEF RestoreInv, RestorePhase, TargetInv, Left
<1>4. /\ inv' \in [Invocations -> Places]
      /\ \A j \in Invocations : j # i => inv'[j] = inv[j]
      /\ inv'[i].at = step /\ inv'[i].k = 1 /\ ~inv'[i].unknown
  <2>1. step \in Steps
    BY DEF Steps, Working, Filling, Ended
  <2> QED
    BY <1>1, <2>1, GoMoves DEF RestoreInv, RestoreTypeOK
<1>5. RestoreTypeOK' /\ OwnStep(i)
  BY <1>4 DEF RestoreInv, RestoreTypeOK, OwnStep
<1>6. RestorePhase(i)'
  <2>1. CountInv(i)'
    BY SMT, <1>4, OrderFacts DEF CountInv, Before, Working, Filling, Undoing
  <2>2. TargetInv(i)'
    BY SMT, <1>3, <1>4 DEF TargetInv, Before, Filling, Indices
  <2>3. AccountInv(i)'
    BY <1>2, <1>3, <1>4, OrderFacts DEF AccountInv, Before
  <2> QED
    BY <2>1, <2>2, <2>3 DEF RestorePhase
<1> QED
  BY <1>2, <1>5, <1>6, RestoreKept

\* refuse_outstanding_restore_state, the preflight and the restore window.
LEMMA EntryStep ==
    ASSUME RestoreInv, NEW i \in Invocations,
           \/ refuse_outstanding(i) \/ preflight(i)
           \/ enter(i) \/ lock_timeout(i)
    PROVE  RestoreInv'
<1>1. CASE refuse_outstanding(i) \/ preflight(i) \/ lock_timeout(i)
  <2>1. /\ inv[i].at \in Before
        /\ \E step \in Before \cup {"next", "refused", "failed"} : Go(i, step)
        /\ UNCHANGED <<dbs, intents, ledger, pending>>
    BY <1>1 DEF refuse_outstanding, preflight, lock_timeout, IsAt, Before
  <2> QED
    BY <2>1, EntryMove DEF RestoreInv, RestoreTypeOK
<1>2. CASE enter(i)
  <2>1. /\ inv[i].at \in Before
        /\ \E step \in Before \cup {"next", "refused", "failed"} : Go(i, step)
        /\ UNCHANGED <<dbs, intents, pending>>
        /\ ledger' = ledger \/ ledger' = Written(i, intents[i])
    BY <1>2 DEF enter, IsAt, Before
  <2>2. /\ ledger' \in [Invocations -> Ledger]
        /\ \A j \in Invocations : j # i => ledger'[j] = ledger[j]
    BY <2>1, LedgerWritten DEF RestoreInv, RestoreTypeOK
  <2> QED
    BY <2>1, <2>2, EntryMove
<1> QED
  BY <1>1, <1>2

-----------------------------------------------------------------------------
(* Filling a target *)

\* An intent changes.
LEMMA IntentChanges ==
    ASSUME intents \in [Invocations -> Intents], NEW i \in Invocations, NEW t \in Targets,
           NEW state \in IntentStates
    PROVE  /\ With(i, t, state) \in Intents
           /\ \A u \in Targets : With(i, t, state)[u].state =
                 IF u = t THEN state ELSE intents[i][u].state
<1>1. intents[i] \in [Targets -> [state : IntentStates, oid : BOOLEAN]]
  BY DEF Intents
<1> QED
  BY <1>1 DEF With, Intents

\* The write of a changed intent: it is in the ledger and the restore goes on,
\* or it may be in the ledger and the restore gives up.
LEMMA PersistMoves ==
    ASSUME RestoreTypeOK, NEW i \in Invocations, NEW its \in Intents,
           NEW step \in Filling, Persist(i, its, step)
    PROVE  /\ ledger' \in [Invocations -> Ledger]
           /\ \A j \in Invocations : j # i => ledger'[j] = ledger[j]
           /\ \A t \in Targets : ledger'[i][t] \in {ledger[i][t], its[t].state}
           /\ \/ Compensate(i)
              \/ Go(i, step) /\ \A t \in Targets : ledger'[i][t] = its[t].state
<1>1. CASE ledger' = Written(i, its)
  BY <1>1, LedgerWritten DEF RestoreTypeOK, Persist
<1>2. CASE ledger' = ledger /\ Compensate(i)
  BY <1>2 DEF RestoreTypeOK
<1> QED
  BY <1>1, <1>2 DEF Persist

\* A restore that goes on has its targets up to here, and its ledger names them.
LEMMA GoesOn ==
    ASSUME RestoreInv, NEW i \in Invocations, inv[i].at \in Filling,
           inv' \in [Invocations -> Places],
           \A j \in Invocations : j # i => inv'[j] = inv[j],
           inv'[i].at \in Filling, ~inv'[i].unknown, inv'[i].k \in 1 .. Len(Order) + 1,
           inv'[i].at # "next" => inv'[i].k \in Indices,
           dbs' \in [Targets -> Restorable], intents' \in [Invocations -> Intents],
           ledger' \in [Invocations -> Ledger], pending' = pending,
           \A j \in Invocations : j # i => intents'[j] = intents[j] /\ ledger'[j] = ledger[j],
           \A t \in Targets :
              \/ dbs'[t] = dbs[t]
              \/ /\ dbs[t].owner \in {i, "none"} /\ dbs'[t].owner \in {i, "none"}
                 /\ DatabaseInv(t)',
           TargetInv(i)',
           inv'[i].at = "create" =>
              /\ intents'[i][Order[inv'[i].k]].state = "outcome_unknown"
              /\ ledger'[i][Order[inv'[i].k]] = "outcome_unknown",
           \A t \in Targets : dbs'[t].owner = i =>
              intents'[i][t].state \notin Terminal /\ Named(i, t)'
    PROVE  RestoreInv'
<1>1. ~inv[i].unknown /\ inv[i].at # "killed"
  BY DEF RestoreInv, RestorePhase, CountInv, Filling
<1>2. \A c \in pending : c.by # i
  BY <1>1, NothingPending
<1>3. RestoreTypeOK' /\ OwnStep(i)
  BY DEF RestoreInv, RestoreTypeOK, OwnStep
<1>4. CountInv(i)'
  BY DEF CountInv, Before, Working, Filling, Undoing, Indices
<1>5. AccountInv(i)'
  BY <1>2 DEF AccountInv, Left, Filling, Undoing, Ended
<1>6. RestorePhase(i)'
  BY <1>4, <1>5 DEF RestorePhase
<1> QED
  BY <1>2, <1>3, <1>6, RestoreKept

\* The database that an invocation is at.
LEMMA CurrentTarget ==
    ASSUME RestoreInv, NEW i \in Invocations,
           inv[i].at \in Working \ {"next", "compensate"} \/ inv[i].k \in Indices
    PROVE  /\ Current(i) \in Targets /\ Current(i) = Order[inv[i].k]
           /\ inv[i].k \in Indices /\ inv[i].k \in Nat
<1>1. inv[i].k \in Indices
  BY DEF RestoreInv, RestorePhase, CountInv
<1> QED
  BY SMT, <1>1, OrderFacts DEF Current, Indices

\* The intent is written before the database is created.
LEMMA BeginStep ==
    ASSUME RestoreInv, NEW i \in Invocations, begin(i)
    PROVE  RestoreInv'
<1>1. /\ inv[i].at = "next" /\ inv[i].at \in Filling
      /\ inv[i].k \in Indices
      /\ UNCHANGED <<dbs, pending>>
  BY SMT, OrderFacts DEF begin, IsAt, Filling, Indices, RestoreInv, RestorePhase, CountInv
<1>2. CASE (Compensate(i) \/ CompensateUnknown(i)) /\ UNCHANGED <<intents, ledger>>
  BY <1>1, <1>2, GivesUpAtOnce
<1>3. CASE /\ ~Exists(Current(i))
           /\ intents' = [intents EXCEPT ![i] = With(i, Current(i), "outcome_unknown")]
           /\ Persist(i, intents'[i], "create")
  <2> DEFINE t == Current(i)
             its == With(i, t, "outcome_unknown")
  <2>1. t \in Targets /\ t = Order[inv[i].k]
    BY <1>1, CurrentTarget
  <2>2. /\ its \in Intents
        /\ \A u \in Targets : its[u].state =
              IF u = t THEN "outcome_unknown" ELSE intents[i][u].state
    BY ZenonT(40), <2>1, IntentChanges DEF RestoreInv, RestoreTypeOK, IntentStates
  <2> HIDE DEF its
  <2>3. /\ intents' \in [Invocations -> Intents] /\ intents'[i] = its
        /\ \A j \in Invocations : j # i => intents'[j] = intents[j]
    BY <1>3, <2>2 DEF its, RestoreInv, RestoreTypeOK
  <2>4. /\ ledger' \in [Invocations -> Ledger]
        /\ \A j \in Invocations : j # i => ledger'[j] = ledger[j]
        /\ \A u \in Targets : ledger'[i][u] \in {ledger[i][u], its[u].state}
        /\ \/ Compensate(i)
           \/ Go(i, "create") /\ \A u \in Targets : ledger'[i][u] = its[u].state
    BY <1>3, <2>2, <2>3, PersistMoves DEF RestoreInv, Filling
  <2>5. \A u \in Targets : Left(i, u)' =>
           intents'[i][u].state \notin Terminal /\ Named(i, u)'
    <3> SUFFICES ASSUME NEW u \in Targets, Left(i, u)'
        PROVE  intents'[i][u].state \notin Terminal /\ Named(i, u)'
      OBVIOUS
    <3>1. /\ intents[i][u].state \notin Terminal /\ Named(i, u)
          /\ intents[i][u].state \in IntentStates
      BY <1>1 DEF RestoreInv, RestorePhase, AccountInv, Left, Working, RestoreTypeOK, Intents
    <3>2. its[u].state \notin Terminal \cup {"none"}
      BY <2>2, <3>1 DEF Terminal, IntentStates
    <3> QED
      BY <2>3, <2>4, <3>1, <3>2 DEF Named, None
  <2>6. CASE Compensate(i)
    BY <1>1, <2>3, <2>4, <2>5, <2>6, GivesUp DEF RestoreInv, RestoreTypeOK
  <2>7. CASE Go(i, "create") /\ \A u \in Targets : ledger'[i][u] = its[u].state
    <3>1. /\ inv' \in [Invocations -> Places]
          /\ \A j \in Invocations : j # i => inv'[j] = inv[j]
          /\ inv'[i].at = "create" /\ inv'[i].k = inv[i].k
          /\ inv'[i].unknown = inv[i].unknown
      BY <2>7, GoMoves DEF RestoreInv, RestoreTypeOK, Steps, Working, Filling
    <3>2. ~inv[i].unknown
      BY <1>1 DEF RestoreInv, RestorePhase, CountInv
    <3>3. TargetInv(i)'
      BY <1>1, <3>1 DEF TargetInv, RestoreInv, RestorePhase, Before, Filling
    <3>4. \A u \in Targets : dbs'[u].owner = i =>
             intents'[i][u].state \notin Terminal /\ Named(i, u)'
      BY <2>5 DEF Left
    <3>5. inv'[i].at \in Filling /\ inv'[i].k \in 1 .. Len(Order) + 1
      BY SMT, <1>1, <3>1, OrderFacts DEF Filling, Indices
    <3> QED
      BY SMT, <1>1, <2>1, <2>2, <2>3, <2>4, <2>7, <3>1, <3>2, <3>3, <3>4, <3>5, GoesOn
         DEF RestoreInv, RestoreTypeOK
  <2> QED
    BY <2>4, <2>6, <2>7
<1> QED
  BY <1>2, <1>3 DEF begin

\* What create_database may leave, and that only its own target.
LEMMA CreateOutcome ==
    ASSUME RestoreInv, NEW i \in Invocations, inv[i].at = "create",
           Apply("create", Current(i), i) \/ UNCHANGED dbs
    PROVE  /\ dbs' \in [Targets -> Restorable]
           /\ \A u \in Targets : u # Current(i) => dbs'[u] = dbs[u]
           /\ \A u \in Targets :
                 \/ dbs'[u] = dbs[u]
                 \/ /\ dbs[u].owner \in {i, "none"} /\ dbs'[u].owner \in {i, "none"}
                    /\ DatabaseInv(u)'
           /\ /\ ~Exists(Current(i)) /\ Apply("create", Current(i), i)
              => dbs'[Current(i)].owner = i
<1>1. Current(i) \in Targets
  BY CurrentTarget DEF Working, Filling
<1>2. CASE UNCHANGED dbs /\ ~Apply("create", Current(i), i)
  BY <1>2 DEF RestoreInv, RestoreTypeOK
<1>3. CASE Apply("create", Current(i), i)
  BY ZenonT(40), <1>1, <1>3, CreateEffect DEF RestoreInv, Exists, None
<1> QED
  BY <1>2, <1>3

\* create_database and the reconciliation of a failed one.
LEMMA CreateStep ==
    ASSUME RestoreInv, NEW i \in Invocations, create(i)
    PROVE  RestoreInv'
<1> DEFINE t == Current(i)
           its == With(i, t, "created_unheld")
<1>1. /\ inv[i].at = "create" /\ inv[i].at \in Filling
      /\ t \in Targets /\ t = Order[inv[i].k] /\ inv[i].k \in Indices
      /\ intents[i][t].state = "outcome_unknown" /\ ledger[i][t] = "outcome_unknown"
  <2>1. inv[i].at = "create"
    BY DEF create, IsAt
  <2> QED
    BY <2>1, CurrentTarget DEF Working, Filling, RestoreInv, RestorePhase, AccountInv
<1>2. \A u \in Targets : dbs[u].owner = i =>
         /\ intents[i][u].state \in IntentStates \ Terminal
         /\ Named(i, u)
  BY <1>1 DEF RestoreInv, RestorePhase, AccountInv, Left, Working, RestoreTypeOK, Intents
<1>3. (\A c \in pending : c.by # i) /\ ~inv[i].unknown
  <2>1. ~inv[i].unknown /\ inv[i].at # "killed"
    BY <1>1 DEF RestoreInv, RestorePhase, CountInv
  <2> QED
    BY <2>1, NothingPending
<1> HIDE DEF t
<1>4. CASE /\ ~Exists(t) /\ Apply("create", t, i) /\ UNCHANGED pending
           /\ intents' = [intents EXCEPT ![i] = its]
           /\ Persist(i, intents'[i], "hold")
  <2>1. /\ its \in Intents
        /\ \A u \in Targets : its[u].state =
              IF u = t THEN "created_unheld" ELSE intents[i][u].state
    BY SMT, <1>1, IntentChanges DEF RestoreInv, RestoreTypeOK, IntentStates
  <2> HIDE DEF its
  <2>2. /\ intents' \in [Invocations -> Intents] /\ intents'[i] = its
        /\ \A j \in Invocations : j # i => intents'[j] = intents[j]
    BY <1>4, <2>1 DEF RestoreInv, RestoreTypeOK
  <2>3. /\ ledger' \in [Invocations -> Ledger]
        /\ \A j \in Invocations : j # i => ledger'[j] = ledger[j]
        /\ \A u \in Targets : ledger'[i][u] \in {ledger[i][u], its[u].state}
        /\ Compensate(i) \/ Go(i, "hold")
    BY <1>4, <2>1, <2>2, PersistMoves DEF RestoreInv, Filling
  <2>4. /\ dbs' \in [Targets -> Restorable]
        /\ \A u \in Targets : u # t => dbs'[u] = dbs[u]
        /\ \A u \in Targets :
              \/ dbs'[u] = dbs[u]
              \/ /\ dbs[u].owner \in {i, "none"} /\ dbs'[u].owner \in {i, "none"}
                 /\ DatabaseInv(u)'
        /\ dbs'[t].owner = i
    BY <1>1, <1>4, CreateOutcome DEF t
  <2>5. \A u \in Targets : dbs'[u].owner = i =>
           intents'[i][u].state \notin Terminal /\ Named(i, u)'
    <3> SUFFICES ASSUME NEW u \in Targets, dbs'[u].owner = i
        PROVE  intents'[i][u].state \notin Terminal /\ Named(i, u)'
      OBVIOUS
    <3>1. CASE u = t
      BY ZenonT(40), <1>1, <2>1, <2>2, <2>3, <3>1 DEF Named, None, Terminal
    <3>2. CASE u # t
      <4>1. Named(i, u) /\ its[u].state \in IntentStates \ Terminal
        BY <1>2, <2>1, <2>4, <3>2
      <4>2. its[u].state # "none"
        BY <4>1 DEF IntentStates
      <4> QED
        BY <2>2, <2>3, <4>1, <4>2 DEF Named, None
    <3> QED
      BY <3>1, <3>2
  <2>6. CASE Compensate(i)
    <3>1. \A u \in Targets : Left(i, u)' =>
             intents'[i][u].state \notin Terminal /\ Named(i, u)'
      BY <1>3, <1>4, <2>5 DEF Left
    <3> QED
      BY <1>1, <1>4, <2>2, <2>3, <2>4, <2>6, <3>1, GivesUp
  <2>7. CASE Go(i, "hold")
    <3>1. /\ inv' \in [Invocations -> Places]
          /\ \A j \in Invocations : j # i => inv'[j] = inv[j]
          /\ inv'[i].at = "hold" /\ inv'[i].k = inv[i].k
          /\ ~inv'[i].unknown
      BY <1>3, <2>7, GoMoves DEF RestoreInv, RestoreTypeOK, Steps, Working, Filling
    <3>2. \A n \in Indices : n < inv[i].k =>
             dbs[Order[n]].owner = i /\ dbs[Order[n]].whole /\ Order[n] # t
      BY SMT, <1>1, OrderFacts DEF TargetInv, RestoreInv, RestorePhase, Indices
    <3>3. TargetInv(i)'
      BY SMT, <1>1, <2>4, <3>1, <3>2, OrderFacts DEF TargetInv, Before, Filling
    <3>4. inv'[i].at \in Filling /\ inv'[i].k \in 1 .. Len(Order) + 1
      BY SMT, <1>1, <3>1, OrderFacts DEF Filling, Indices
    <3> QED
      BY <1>1, <1>4, <2>2, <2>3, <2>4, <2>5, <3>1, <3>3, <3>4, GoesOn
  <2> QED
    BY <2>3, <2>6, <2>7
<1>5. CASE /\ Apply("create", t, i) \/ UNCHANGED dbs
           /\ UNCHANGED pending
           /\ intents' = [intents EXCEPT ![i] = ReconciledIntents(i, t, dbs')]
           /\ Compensate(i) /\ UNCHANGED ledger
  <2>1. /\ dbs' \in [Targets -> Restorable]
        /\ \A u \in Targets : u # t => dbs'[u] = dbs[u]
        /\ \A u \in Targets :
              \/ dbs'[u] = dbs[u]
              \/ /\ dbs[u].owner \in {i, "none"} /\ dbs'[u].owner \in {i, "none"}
                 /\ DatabaseInv(u)'
    BY <1>1, <1>5, CreateOutcome DEF t
  <2>2. /\ ReconciledIntents(i, t, dbs') \in Intents
        /\ \A u \in Targets :
              \/ ReconciledIntents(i, t, dbs')[u].state = intents[i][u].state
              \/ u = t /\ dbs'[t].owner = "none"
    <3>1. /\ With(i, t, "not_created") \in Intents
          /\ \A u \in Targets : With(i, t, "not_created")[u].state =
                IF u = t THEN "not_created" ELSE intents[i][u].state
      BY SMT, <1>1, IntentChanges DEF RestoreInv, RestoreTypeOK, IntentStates
    <3> QED
      BY <3>1 DEF ReconciledIntents, None, RestoreInv, RestoreTypeOK
  <2>3. /\ intents' \in [Invocations -> Intents]
        /\ intents'[i] = ReconciledIntents(i, t, dbs')
        /\ \A j \in Invocations : j # i => intents'[j] = intents[j]
    BY <1>5, <2>2 DEF RestoreInv, RestoreTypeOK
  <2>4. \A u \in Targets : Left(i, u)' =>
           intents'[i][u].state \notin Terminal /\ Named(i, u)'
    <3> SUFFICES ASSUME NEW u \in Targets, dbs'[u].owner = i
        PROVE  intents'[i][u].state \notin Terminal /\ Named(i, u)'
      BY <1>3, <1>5 DEF Left
    <3>1. intents'[i][u].state = intents[i][u].state
      BY <2>2, <2>3, ActorFacts
    <3>2. CASE u = t
      BY <1>1, <1>5, <3>1, <3>2 DEF Named, None, Terminal
    <3>3. CASE u # t
      BY <1>2, <1>5, <2>1, <3>1, <3>3 DEF Named
    <3> QED
      BY <3>2, <3>3
  <2> QED
    BY <1>1, <1>5, <2>1, <2>3, <2>4, GivesUp DEF RestoreInv, RestoreTypeOK
<1>6. CASE /\ Unsettled(i, "create", t) /\ CompensateUnknown(i)
           /\ UNCHANGED <<intents, ledger>>
  <2>1. /\ Apply("create", t, i) \/ UNCHANGED dbs
        /\ \/ pending' = pending
           \/ pending' = pending \cup {[by |-> i, does |-> "create", on |-> t]}
    BY <1>6 DEF Unsettled
  <2>2. /\ dbs' \in [Targets -> Restorable]
        /\ \A u \in Targets : u # t => dbs'[u] = dbs[u]
        /\ \A u \in Targets :
              \/ dbs'[u] = dbs[u]
              \/ /\ dbs[u].owner \in {i, "none"} /\ dbs'[u].owner \in {i, "none"}
                 /\ DatabaseInv(u)'
    BY <1>1, <2>1, CreateOutcome DEF t
  <2>3. [by |-> i, does |-> "create", on |-> t] \in Late
    BY <1>1 DEF Late
  <2>4. \A u \in Targets : Left(i, u)' =>
           intents'[i][u].state \notin Terminal /\ Named(i, u)'
    <3> SUFFICES ASSUME NEW u \in Targets, Left(i, u)'
        PROVE  intents[i][u].state \notin Terminal /\ Named(i, u)
      BY <1>6 DEF Named
    <3>1. u = t \/ dbs[u].owner = i
      BY SMT, <1>3, <2>1, <2>2 DEF Left
    <3>2. CASE u = t
      BY <1>1, <3>2 DEF Named, None, Terminal
    <3> QED
      BY <1>2, <3>1, <3>2
  <2> QED
    BY <1>1, <1>6, <2>1, <2>2, <2>3, <2>4, GivesUp DEF RestoreInv, RestoreTypeOK
<1> QED
  BY <1>4, <1>5, <1>6 DEF create, Finishes, t

\* The targets before the one at hand are not touched.
LEMMA EarlierTargets ==
    ASSUME RestoreInv, NEW i \in Invocations, inv[i].at \in Filling, inv[i].k \in Indices,
           \A u \in Targets : u # Order[inv[i].k] => dbs'[u] = dbs[u]
    PROVE  \A n \in Indices : n < inv[i].k =>
              dbs'[Order[n]].owner = i /\ dbs'[Order[n]].whole
<1>1. \A n \in Indices : n < inv[i].k => Order[n] # Order[inv[i].k] /\ Order[n] \in Targets
  BY SMT, OrderFacts DEF Indices
<1> QED
  BY SMT, <1>1 DEF RestoreInv, RestorePhase, TargetInv

\* The stamp of the owner.
LEMMA StampEffect ==
    ASSUME RestoreTypeOK, NEW i \in Invocations, NEW t \in Targets, dbs[t].owner = i,
           DatabaseInv(t), dbs' = [dbs EXCEPT ![t].stamp = i]
    PROVE  /\ dbs' \in [Targets -> Restorable]
           /\ \A u \in Targets : u # t => dbs'[u] = dbs[u]
           /\ dbs'[t].owner = i /\ DatabaseInv(t)'
<1>1. dbs[t] \in Restorable /\ i \in Actors
  BY DEF RestoreTypeOK, Actors
<1>2. dbs'[t] = [dbs[t] EXCEPT !.stamp = i]
  BY DEF RestoreTypeOK
<1>3. /\ dbs'[t] \in Restorable /\ dbs'[t].owner = i /\ dbs'[t].stamp = i
      /\ dbs'[t].was = dbs[t].was /\ dbs'[t].by = dbs[t].by
  BY SMT, <1>1, <1>2 DEF Restorable
<1>4. DatabaseInv(t)'
  BY <1>3 DEF DatabaseInv
<1> QED
  BY <1>3, <1>4 DEF RestoreTypeOK

\* hold_target: the invocation stamps the database it created.
LEMMA HoldStep ==
    ASSUME RestoreInv, NEW i \in Invocations, hold_target(i)
    PROVE  RestoreInv'
<1> DEFINE t == Current(i)
<1>1. /\ inv[i].at = "hold" /\ inv[i].at \in Filling
      /\ t \in Targets /\ t = Order[inv[i].k] /\ inv[i].k \in Indices
      /\ dbs[t].owner = i
  <2>1. inv[i].at = "hold"
    BY DEF hold_target, IsAt
  <2> QED
    BY <2>1, CurrentTarget DEF Working, Filling, RestoreInv, RestorePhase, TargetInv
<1>2. \A u \in Targets : dbs[u].owner = i =>
         /\ intents[i][u].state \in IntentStates \ Terminal
         /\ Named(i, u)
  BY <1>1 DEF RestoreInv, RestorePhase, AccountInv, Left, Working, RestoreTypeOK, Intents
<1>3. (\A c \in pending : c.by # i) /\ ~inv[i].unknown
  <2>1. ~inv[i].unknown /\ inv[i].at # "killed"
    BY <1>1 DEF RestoreInv, RestorePhase, CountInv
  <2> QED
    BY <2>1, NothingPending
<1> HIDE DEF t
<1>4. CASE Compensate(i) /\ UNCHANGED <<dbs, intents, ledger, pending>>
  BY <1>1, <1>4, GivesUpAtOnce
<1>5. ASSUME dbs' = [dbs EXCEPT ![t].stamp = i]
      PROVE  /\ dbs' \in [Targets -> Restorable]
             /\ \A u \in Targets : u # t => dbs'[u] = dbs[u]
             /\ \A u \in Targets :
                   \/ dbs'[u] = dbs[u]
                   \/ /\ dbs[u].owner \in {i, "none"} /\ dbs'[u].owner \in {i, "none"}
                      /\ DatabaseInv(u)'
             /\ dbs'[t].owner = i
  BY ZenonT(40), <1>1, <1>5, StampEffect DEF RestoreInv
<1>6. CASE /\ dbs' = [dbs EXCEPT ![t].stamp = i]
           /\ Compensate(i) /\ UNCHANGED <<intents, ledger, pending>>
  <2>1. \A u \in Targets : Left(i, u)' =>
           intents'[i][u].state \notin Terminal /\ Named(i, u)'
    BY <1>1, <1>2, <1>3, <1>5, <1>6 DEF Left, Named
  <2> QED
    BY <1>1, <1>5, <1>6, <2>1, GivesUp DEF RestoreInv, RestoreTypeOK
<1>7. CASE /\ dbs' = [dbs EXCEPT ![t].stamp = i]
           /\ intents' = [intents EXCEPT ![i][t] = [state |-> "created", oid |-> TRUE]]
           /\ Persist(i, intents'[i], "install")
           /\ UNCHANGED pending
  <2>1. /\ intents' \in [Invocations -> Intents]
        /\ \A j \in Invocations : j # i => intents'[j] = intents[j]
        /\ \A u \in Targets : intents'[i][u].state =
              IF u = t THEN "created" ELSE intents[i][u].state
    <3>1. intents[i] \in [Targets -> [state : IntentStates, oid : BOOLEAN]]
      BY DEF RestoreInv, RestoreTypeOK, Intents
    <3>2. intents' = [intents EXCEPT ![i] =
                         [intents[i] EXCEPT ![t] = [state |-> "created", oid |-> TRUE]]]
      BY <1>1, <1>7
    <3>3. [intents[i] EXCEPT ![t] = [state |-> "created", oid |-> TRUE]] \in Intents
      BY <1>1, <3>1 DEF Intents, IntentStates
    <3>4. intents'[i] = [intents[i] EXCEPT ![t] = [state |-> "created", oid |-> TRUE]]
      BY <3>2 DEF RestoreInv, RestoreTypeOK
    <3>5. \A u \in Targets : intents'[i][u].state =
              IF u = t THEN "created" ELSE intents[i][u].state
      BY SMT, <1>1, <3>1, <3>4
    <3> QED
      BY <3>2, <3>3, <3>5 DEF RestoreInv, RestoreTypeOK
  <2>2. /\ ledger' \in [Invocations -> Ledger]
        /\ \A j \in Invocations : j # i => ledger'[j] = ledger[j]
        /\ \A u \in Targets : ledger'[i][u] \in {ledger[i][u], intents'[i][u].state}
        /\ Compensate(i) \/ Go(i, "install")
    BY <1>7, <2>1, PersistMoves DEF RestoreInv, Filling
  <2>3. \A u \in Targets : dbs'[u].owner = i =>
           intents'[i][u].state \notin Terminal /\ Named(i, u)'
    <3> SUFFICES ASSUME NEW u \in Targets, dbs'[u].owner = i
        PROVE  intents'[i][u].state \notin Terminal /\ Named(i, u)'
      OBVIOUS
    <3>1. dbs[u].owner = i
      BY <1>1, <1>5, <1>7
    <3>2. intents'[i][u].state \notin Terminal \cup {"none"}
      BY <1>2, <2>1, <3>1 DEF IntentStates, Terminal
    <3> QED
      BY <1>2, <2>2, <3>1, <3>2 DEF Named, None
  <2>4. CASE Compensate(i)
    <3>1. \A u \in Targets : Left(i, u)' =>
             intents'[i][u].state \notin Terminal /\ Named(i, u)'
      BY <1>3, <1>7, <2>3 DEF Left
    <3> QED
      BY <1>1, <1>5, <1>7, <2>1, <2>2, <2>4, <3>1, GivesUp
  <2>5. CASE Go(i, "install")
    <3>1. /\ inv' \in [Invocations -> Places]
          /\ \A j \in Invocations : j # i => inv'[j] = inv[j]
          /\ inv'[i].at = "install" /\ inv'[i].k = inv[i].k
          /\ ~inv'[i].unknown
      BY <1>3, <2>5, GoMoves DEF RestoreInv, RestoreTypeOK, Steps, Working, Filling
    <3>2. TargetInv(i)'
      <4>1. \A n \in Indices : n < inv[i].k =>
               dbs'[Order[n]].owner = i /\ dbs'[Order[n]].whole
        BY <1>1, <1>5, <1>7, EarlierTargets
      <4> QED
        BY <1>1, <1>5, <1>7, <3>1, <4>1 DEF TargetInv, Before, Filling
    <3>3. inv'[i].at \in Filling /\ inv'[i].k \in 1 .. Len(Order) + 1
      BY SMT, <1>1, <3>1, OrderFacts DEF Filling, Indices
    <3> QED
      BY <1>1, <1>5, <1>7, <2>1, <2>2, <2>3, <3>1, <3>2, <3>3, GoesOn
  <2> QED
    BY <2>2, <2>4, <2>5
<1> QED
  BY <1>4, <1>6, <1>7 DEF hold_target, t

\* A command that fills a held target, and what an unsettled one may spoil.
LEMMA FillMoves ==
    ASSUME RestoreInv, NEW i \in Invocations, NEW step \in {"install", "replay", "verify"},
           NEW does \in {"fill", "spoil", "keep"}, NEW next,
           NEW t \in Targets, t = Current(i), Fills(i, step, does, next)
    PROVE  \/ RestoreInv'
           \/ /\ dbs' \in [Targets -> Restorable]
              /\ \A u \in Targets : u # t => dbs'[u] = dbs[u]
              /\ dbs'[t].owner = i /\ DatabaseInv(t)'
              /\ does = "fill" => dbs'[t].whole
              /\ does = "keep" => dbs'[t].whole = dbs[t].whole
              /\ inv' = [inv EXCEPT ![i] = next]
              /\ UNCHANGED <<intents, ledger, pending>>
<1>1. /\ inv[i].at = step /\ inv[i].at \in Filling
      /\ t \in Targets /\ t = Order[inv[i].k] /\ inv[i].k \in Indices
      /\ dbs[t].owner = i
  <2>1. inv[i].at = step
    BY DEF Fills, IsAt
  <2>2. step \in Filling /\ step \in Working \ {"next", "compensate"}
    BY DEF Working, Filling
  <2> QED
    BY SMT, <2>1, <2>2, CurrentTarget DEF RestoreInv, RestorePhase, TargetInv
<1>2. \A u \in Targets : dbs[u].owner = i =>
         intents[i][u].state \notin Terminal /\ Named(i, u)
  BY <1>1 DEF RestoreInv, RestorePhase, AccountInv, Left, Working
<1>3. \A c \in pending : c.by # i
  <2>1. ~inv[i].unknown /\ inv[i].at # "killed"
    BY <1>1 DEF RestoreInv, RestorePhase, CountInv
  <2> QED
    BY <2>1, NothingPending
<1>4. CASE Apply(does, t, i) /\ UNCHANGED pending /\ inv' = [inv EXCEPT ![i] = next]
  BY SMT, <1>1, <1>4, FillEffect DEF RestoreInv, Fills
<1>5. CASE Compensate(i) /\ UNCHANGED <<dbs, pending>>
  BY <1>1, <1>5, GivesUpAtOnce DEF Fills
<1>6. CASE Unsettled(i, "spoil", t) /\ CompensateUnknown(i)
  <2>1. UNCHANGED <<intents, ledger>>
    BY DEF Fills
  <2>2. CASE Apply("spoil", t, i) /\ UNCHANGED pending
    <3>1. /\ dbs' \in [Targets -> Restorable]
          /\ \A u \in Targets : u # t => dbs'[u] = dbs[u]
          /\ dbs'[t].owner = i /\ DatabaseInv(t)'
      BY ZenonT(40), <1>1, <2>2, FillEffect DEF RestoreInv
    <3>2. \A u \in Targets : Left(i, u)' =>
             intents'[i][u].state \notin Terminal /\ Named(i, u)'
      BY <1>1, <1>2, <1>3, <2>1, <2>2, <3>1 DEF Left, Named
    <3>3. \A u \in Targets :
             \/ dbs'[u] = dbs[u]
             \/ /\ dbs[u].owner \in {i, "none"} /\ dbs'[u].owner \in {i, "none"}
                /\ DatabaseInv(u)'
      BY <1>1, <3>1
    <3> QED
      BY <1>1, <1>6, <2>1, <2>2, <3>1, <3>2, <3>3, GivesUp DEF RestoreInv, RestoreTypeOK
  <2>3. CASE /\ UNCHANGED dbs
             /\ pending' = pending \cup {[by |-> i, does |-> "spoil", on |-> t]}
    <3>1. [by |-> i, does |-> "spoil", on |-> t] \in Late
      BY <1>1 DEF Late
    <3>2. \A u \in Targets : Left(i, u)' =>
             intents'[i][u].state \notin Terminal /\ Named(i, u)'
      BY SMT, <1>1, <1>2, <1>3, <2>1, <2>3 DEF Left, Named
    <3> QED
      BY <1>1, <1>6, <2>1, <2>3, <3>1, <3>2, GivesUp DEF RestoreInv, RestoreTypeOK
  <2> QED
    BY <1>6, <2>2, <2>3 DEF Unsettled
<1> QED
  BY <1>4, <1>5, <1>6 DEF Fills, Finishes

\* install_extensions, the replay of the archive and the checks of the result.
LEMMA FillStep ==
    ASSUME RestoreInv, NEW i \in Invocations,
           \/ install_extensions(i) \/ replay_archive(i)
           \/ verify_restored_database(i)
    PROVE  RestoreInv'
<1>0. PICK t \in Targets : t = Current(i)
  <2>1. inv[i].at \in {"install", "replay", "verify"}
    BY DEF install_extensions, replay_archive, verify_restored_database, Fills, IsAt
  <2> QED
    BY <2>1, CurrentTarget DEF Working, Filling
<1>1. /\ inv[i].at \in {"install", "replay", "verify"} /\ inv[i].at \in Filling
      /\ t \in Targets /\ t = Order[inv[i].k] /\ inv[i].k \in Indices
      /\ inv[i] \in Places
      /\ inv[i].at = "verify" => dbs[t].whole
  <2>1. inv[i].at \in {"install", "replay", "verify"}
    BY DEF install_extensions, replay_archive, verify_restored_database, Fills, IsAt
  <2> QED
    BY SMT, <1>0, <2>1, CurrentTarget DEF Working, Filling, RestoreInv, RestoreTypeOK, RestorePhase, TargetInv
<1>2. \A u \in Targets : dbs[u].owner = i =>
         intents[i][u].state \notin Terminal /\ Named(i, u)
  BY <1>1 DEF RestoreInv, RestorePhase, AccountInv, Left, Working
<1>3. ~inv[i].unknown /\ dbs[t].owner = i
  BY <1>1 DEF RestoreInv, RestorePhase, CountInv, TargetInv
<1>4. CASE RestoreInv'
  BY <1>4
<1>5. ASSUME NEW next \in Places, next.at \in Filling, ~next.unknown,
             \/ next.at = "replay" /\ next.k = inv[i].k
             \/ next.at = "verify" /\ next.k = inv[i].k /\ dbs'[t].whole
             \/ next.at = "next" /\ next.k = inv[i].k + 1 /\ dbs'[t].whole,
             dbs' \in [Targets -> Restorable],
             \A u \in Targets : u # t => dbs'[u] = dbs[u],
             dbs'[t].owner = i, DatabaseInv(t)',
             inv' = [inv EXCEPT ![i] = next],
             UNCHANGED <<intents, ledger, pending>>
      PROVE  RestoreInv'
  <2>1. /\ inv' \in [Invocations -> Places] /\ inv'[i] = next
        /\ \A j \in Invocations : j # i => inv'[j] = inv[j]
    BY <1>5 DEF RestoreInv, RestoreTypeOK
  <2>2. \A n \in Indices : n < inv[i].k =>
           dbs'[Order[n]].owner = i /\ dbs'[Order[n]].whole
    BY <1>1, <1>5, EarlierTargets
  <2>3. \A n \in Indices : n < inv[i].k + 1 => n < inv[i].k \/ n = inv[i].k
    BY SMT, <1>1, OrderFacts DEF Indices
  <2>4. TargetInv(i)'
    BY <1>1, <1>5, <2>1, <2>2, <2>3 DEF TargetInv, Before, Filling
  <2>5. /\ inv'[i].k \in 1 .. Len(Order) + 1
        /\ inv'[i].at # "next" => inv'[i].k \in Indices
    BY SMT, <1>1, <1>5, <2>1, OrderFacts DEF Indices
  <2>6. \A u \in Targets :
           \/ dbs'[u] = dbs[u]
           \/ /\ dbs[u].owner \in {i, "none"} /\ dbs'[u].owner \in {i, "none"}
              /\ DatabaseInv(u)'
    BY <1>3, <1>5
  <2>7. \A u \in Targets : dbs'[u].owner = i =>
           intents'[i][u].state \notin Terminal /\ Named(i, u)'
    BY <1>2, <1>3, <1>5 DEF Named
  <2>8. inv'[i].at \in Filling /\ ~inv'[i].unknown /\ inv'[i].at # "create"
    BY <1>5, <2>1
  <2> QED
    BY <1>1, <1>5, <2>1, <2>4, <2>5, <2>6, <2>7, <2>8, GoesOn DEF RestoreInv, RestoreTypeOK
<1>6. CASE install_extensions(i)
  <2>1. PICK next : /\ Fills(i, "install", "spoil", next)
                    /\ next = [inv[i] EXCEPT !.at = "replay"]
    BY <1>6 DEF install_extensions
  <2>2. /\ next \in Places /\ next.at = "replay" /\ next.k = inv[i].k
        /\ ~next.unknown /\ "replay" \in Filling /\ inv[i].at = "install"
    BY <1>1, <1>3, <2>1 DEF Places, Steps, Working, Filling, Fills, IsAt
  <2>3. \/ RestoreInv'
        \/ /\ dbs' \in [Targets -> Restorable]
           /\ \A u \in Targets : u # t => dbs'[u] = dbs[u]
           /\ dbs'[t].owner = i /\ DatabaseInv(t)'
           /\ "spoil" = "fill" => dbs'[t].whole
           /\ "spoil" = "keep" => dbs'[t].whole = dbs[t].whole
           /\ inv' = [inv EXCEPT ![i] = next]
           /\ UNCHANGED <<intents, ledger, pending>>
    BY SMT, <1>0, <2>1, FillMoves
  <2> QED
    BY <1>1, <1>5, <2>2, <2>3
<1>7. CASE replay_archive(i)
  <2>1. PICK next : /\ Fills(i, "replay", "fill", next)
                    /\ next = [inv[i] EXCEPT !.at = "verify"]
    BY <1>7 DEF replay_archive
  <2>2. /\ next \in Places /\ next.at = "verify" /\ next.k = inv[i].k
        /\ ~next.unknown /\ "verify" \in Filling /\ inv[i].at = "replay"
    BY <1>1, <1>3, <2>1 DEF Places, Steps, Working, Filling, Fills, IsAt
  <2>3. \/ RestoreInv'
        \/ /\ dbs' \in [Targets -> Restorable]
           /\ \A u \in Targets : u # t => dbs'[u] = dbs[u]
           /\ dbs'[t].owner = i /\ DatabaseInv(t)'
           /\ "fill" = "fill" => dbs'[t].whole
           /\ "fill" = "keep" => dbs'[t].whole = dbs[t].whole
           /\ inv' = [inv EXCEPT ![i] = next]
           /\ UNCHANGED <<intents, ledger, pending>>
    BY SMT, <1>0, <2>1, FillMoves
  <2> QED
    BY <1>1, <1>5, <2>2, <2>3
<1>8. CASE verify_restored_database(i)
  <2>1. PICK next : /\ Fills(i, "verify", "keep", next)
                    /\ next = [inv[i] EXCEPT !.at = "next", !.k = inv[i].k + 1]
    BY <1>8 DEF verify_restored_database
  <2>2. /\ next \in Places /\ next.at = "next" /\ next.k = inv[i].k + 1
        /\ ~next.unknown /\ "next" \in Filling /\ inv[i].at = "verify"
    <3>1. inv[i].at = "verify"
      BY <2>1 DEF Fills, IsAt
    <3>2. "next" \in Steps /\ "next" \in Filling /\ inv[i].k + 1 \in Nat
      BY SMT, <1>1 DEF Places, Steps, Working, Filling
    <3>3. next = [inv[i] EXCEPT !.at = "next", !.k = inv[i].k + 1]
      BY <2>1
    <3> QED
      BY <1>1, <1>3, <3>1, <3>2, <3>3 DEF Places
  <2>3. \/ RestoreInv'
        \/ /\ dbs' \in [Targets -> Restorable]
           /\ \A u \in Targets : u # t => dbs'[u] = dbs[u]
           /\ dbs'[t].owner = i /\ DatabaseInv(t)'
           /\ "keep" = "fill" => dbs'[t].whole
           /\ "keep" = "keep" => dbs'[t].whole = dbs[t].whole
           /\ inv' = [inv EXCEPT ![i] = next]
           /\ UNCHANGED <<intents, ledger, pending>>
    BY SMT, <1>0, <2>1, FillMoves
  <2> QED
    BY <1>1, <1>5, <2>2, <2>3
<1> QED
  BY <1>6, <1>7, <1>8

-----------------------------------------------------------------------------
(* The end of a restore *)

\* An invocation that ends answers for what it leaves.
LEMMA EndsStep ==
    ASSUME RestoreInv, NEW i \in Invocations, NEW step \in Ended, Go(i, step),
           UNCHANGED <<dbs, intents>>,
           ledger' \in [Invocations -> Ledger],
           \A j \in Invocations : j # i => ledger'[j] = ledger[j],
           pending' \subseteq Late, \A c \in pending' : c \in pending \/ c.by = i,
           inv[i].unknown => step \in {"failed", "killed"},
           \A c \in pending' : c.by = i =>
              /\ c.does # "create" => dbs[c.on].owner = i
              /\ inv[i].unknown \/ step = "killed"
              /\ Named(i, c.on)',
           \A c, d \in pending' : c.by = i /\ d.by = i => c = d,
           \A t \in Targets : dbs[t].owner = i /\ Unfinished(t) => Named(i, t)',
           step = "success" =>
              \A t \in Targets :
                 dbs[t].owner = i /\ dbs[t].whole /\ dbs[t].stamp = "none"
    PROVE  RestoreInv'
<1>1. /\ inv' \in [Invocations -> Places]
      /\ \A j \in Invocations : j # i => inv'[j] = inv[j]
      /\ inv'[i].at = step /\ inv'[i].k = inv[i].k /\ inv'[i].unknown = inv[i].unknown
  <2>1. step \in Steps
    BY DEF Steps
  <2> QED
    BY <2>1, GoMoves DEF RestoreInv, RestoreTypeOK
<1>2. RestoreTypeOK' /\ OwnStep(i)
  BY <1>1 DEF RestoreInv, RestoreTypeOK, OwnStep
<1>3. step \notin Before /\ step \notin Working /\ step \notin Filling /\ step \notin Undoing
      /\ step \notin {"create", "next", "compensate", "hold", "install", "replay", "verify",
                      "drop", "finish"}
  BY DEF Ended, Before, Working, Filling, Undoing
<1>4. CountInv(i)'
  BY <1>1, <1>3 DEF CountInv
<1>5. TargetInv(i)'
  BY <1>1, <1>3 DEF TargetInv
<1>6. \A t \in Targets : Unfinished(t)' <=> Unfinished(t)
  BY DEF Unfinished
<1>7. AccountInv(i)'
  BY <1>1, <1>3, <1>6 DEF AccountInv
<1> QED
  BY <1>1, <1>2, <1>4, <1>5, <1>7, RestoreKept DEF RestorePhase

\* The stamps are cleared in one transaction.
LEMMA ClearEffect ==
    ASSUME RestoreInv, NEW i \in Invocations, dbs' = Cleared,
           \A t \in Targets : dbs[t].owner = i /\ dbs[t].whole
    PROVE  /\ dbs' \in [Targets -> Restorable]
           /\ \A t \in Targets :
                 /\ dbs'[t].owner = i /\ dbs'[t].whole
                 /\ dbs'[t].stamp = "none" /\ DatabaseInv(t)'
<1>1. \A t \in Targets : dbs'[t] = [dbs[t] EXCEPT !.stamp = "none"]
  BY DEF Cleared, None, Targets
<1>2. \A t \in Targets :
         /\ dbs'[t] \in Restorable /\ dbs'[t].owner = dbs[t].owner
         /\ dbs'[t].whole = dbs[t].whole /\ dbs'[t].stamp = "none"
         /\ dbs'[t].was = dbs[t].was /\ dbs'[t].by = dbs[t].by
  <2> TAKE t \in Targets
  <2>1. dbs[t] \in Restorable /\ "none" \in Actors
    BY DEF RestoreInv, RestoreTypeOK, Actors
  <2>2. PICK r \in Restorable : r = dbs[t]
    BY <2>1
  <2>3. PICK s : s = [r EXCEPT !.stamp = "none"]
    OBVIOUS
  <2>4. /\ s \in Restorable /\ s.owner = r.owner /\ s.whole = r.whole
        /\ s.stamp = "none" /\ s.was = r.was /\ s.by = r.by
    BY SMT, <2>1, <2>3 DEF Restorable
  <2> QED
    BY <1>1, <2>2, <2>3, <2>4
<1>3. dbs' \in [Targets -> Restorable]
  <2>1. dbs' = [t \in Targets |-> dbs'[t]]
    BY DEF Cleared, Targets
  <2> QED
    BY <1>2, <2>1
<1> QED
  BY ZenonT(40), <1>2, <1>3 DEF DatabaseInv, RestoreInv

\* finalize, with all targets filled.
LEMMA FinalizeStep ==
    ASSUME RestoreInv, NEW i \in Invocations, finalize(i)
    PROVE  RestoreInv'
<1>1. /\ inv[i].at = "next" /\ inv[i].at \in Filling
      /\ \A t \in Targets : dbs[t].owner = i /\ dbs[t].whole
  <2>1. inv[i].at = "next" /\ inv[i].k > Len(Order) /\ inv[i].at \in Filling
    BY DEF finalize, IsAt, Filling
  <2>2. inv[i].k \in 1 .. Len(Order) + 1
    BY <2>1 DEF RestoreInv, RestorePhase, CountInv
  <2>3. \A n \in Indices : n < inv[i].k
    BY SMT, <2>1, <2>2, OrderFacts DEF Indices
  <2>4. \A n \in Indices : dbs[Order[n]].owner = i /\ dbs[Order[n]].whole
    BY <2>1, <2>3 DEF RestoreInv, RestorePhase, TargetInv
  <2> QED
    BY SMT, <2>1, <2>4, OrderFacts
<1>2. \A c \in pending : c.by # i
  <2>1. ~inv[i].unknown /\ inv[i].at # "killed"
    BY <1>1 DEF RestoreInv, RestorePhase, CountInv
  <2> QED
    BY <2>1, NothingPending
<1>3. CASE /\ dbs' = Cleared /\ Go(i, "finish") /\ UNCHANGED <<ledger, pending>>
           /\ intents' = [intents EXCEPT ![i] =
                 [t \in Targets |-> [intents[i][t] EXCEPT !.state = "completed"]]]
  <2>1. /\ dbs' \in [Targets -> Restorable]
        /\ \A t \in Targets :
              /\ dbs'[t].owner = i /\ dbs'[t].whole
              /\ dbs'[t].stamp = "none" /\ DatabaseInv(t)'
    BY <1>1, <1>3, ClearEffect
  <2>2. /\ intents' \in [Invocations -> Intents]
        /\ \A j \in Invocations : j # i => intents'[j] = intents[j]
    <3>1. "completed" \in IntentStates /\ intents[i] \in Intents
      BY DEF IntentStates, RestoreInv, RestoreTypeOK
    <3>2. [t \in Targets |-> [intents[i][t] EXCEPT !.state = "completed"]] \in Intents
      BY <3>1 DEF Intents
    <3> QED
      BY <1>3, <3>2 DEF RestoreInv, RestoreTypeOK
  <2>3. /\ inv' \in [Invocations -> Places]
        /\ \A j \in Invocations : j # i => inv'[j] = inv[j]
        /\ inv'[i].at = "finish" /\ inv'[i].unknown = inv[i].unknown
    <3>1. "finish" \in Steps
      BY DEF Steps
    <3> QED
      BY <1>3, <3>1, GoMoves DEF RestoreInv, RestoreTypeOK
  <2>4. RestoreTypeOK' /\ OwnStep(i)
    BY <1>1, <1>3, <2>1, <2>2, <2>3 DEF RestoreInv, RestoreTypeOK, OwnStep
  <2>5. ~inv'[i].unknown
    BY <1>1, <2>3 DEF RestoreInv, RestorePhase, CountInv
  <2>6. RestorePhase(i)'
    BY <2>1, <2>3, <2>5
       DEF RestorePhase, CountInv, TargetInv, AccountInv, Before, Working, Filling, Undoing,
           Ended
  <2> QED
    BY <1>2, <1>3, <2>4, <2>6, RestoreKept
<1>4. CASE /\ dbs' = Cleared /\ Compensate(i) /\ UNCHANGED <<intents, ledger, pending>>
  <2>1. /\ dbs' \in [Targets -> Restorable]
        /\ \A t \in Targets : dbs'[t].owner = i /\ DatabaseInv(t)'
    BY <1>1, <1>4, ClearEffect
  <2>2. \A t \in Targets : Left(i, t)' =>
           intents'[i][t].state \notin Terminal /\ Named(i, t)'
    BY <1>1, <1>4 DEF RestoreInv, RestorePhase, AccountInv, Left, Named, Working
  <2> QED
    BY <1>1, <1>4, <2>1, <2>2, GivesUp DEF RestoreInv, RestoreTypeOK
<1>5. CASE /\ Compensate(i) \/ CompensateUnknown(i)
           /\ UNCHANGED <<dbs, intents, ledger, pending>>
  BY <1>1, <1>5, GivesUpAtOnce
<1> QED
  BY <1>3, <1>4, <1>5 DEF finalize, Targets

\* finish: the ledger is removed and success is reported.
LEMMA FinishStep ==
    ASSUME RestoreInv, NEW i \in Invocations, finish(i)
    PROVE  RestoreInv'
<1>1. inv[i].at = "finish" /\ ~inv[i].unknown /\ UNCHANGED <<dbs, intents, pending>>
  BY DEF finish, IsAt, RestoreInv, RestorePhase, CountInv
<1>2. \A t \in Targets :
         /\ dbs[t].owner = i /\ dbs[t].whole /\ dbs[t].stamp = "none"
         /\ ~Unfinished(t)
  BY ZenonT(40), <1>1 DEF RestoreInv, RestorePhase, TargetInv, Unfinished, None
<1>3. \A c \in pending : c.by # i
  BY <1>1, NothingPending
<1>4. /\ ledger' \in [Invocations -> Ledger]
      /\ \A j \in Invocations : j # i => ledger'[j] = ledger[j]
  <2>1. NoLedger \in Ledger
    BY DEF NoLedger, None, Ledger, Targets
  <2> QED
    BY <2>1 DEF finish, RestoreInv, RestoreTypeOK
<1>5. \E step \in {"success", "failed"} : Go(i, step) /\ step \in Ended
  BY DEF finish, Ended
<1>6. pending' \subseteq Late
  BY <1>1 DEF RestoreInv, RestoreTypeOK
<1> QED
  BY <1>1, <1>2, <1>3, <1>4, <1>5, <1>6, EndsStep

-----------------------------------------------------------------------------
(* Undoing *)

\* cleanup_extension_restore_intents goes on to the intent before: what it
\* leaves at this one is in its diagnostics.
LEMMA UndoesOn ==
    ASSUME RestoreInv, NEW i \in Invocations, inv[i].at \in Undoing, inv[i].k \in Indices,
           NEW t \in Targets, t = Order[inv[i].k],
           inv' \in [Invocations -> Places],
           \A j \in Invocations : j # i => inv'[j] = inv[j],
           inv'[i].at = "compensate", inv'[i].k = inv[i].k - 1,
           inv[i].diags => inv'[i].diags, inv[i].unknown => inv'[i].unknown,
           dbs' \in [Targets -> Restorable], intents' \in [Invocations -> Intents],
           ledger' = ledger, \A j \in Invocations : j # i => intents'[j] = intents[j],
           \A u \in Targets :
              \/ dbs'[u] = dbs[u]
              \/ /\ dbs[u].owner \in {i, "none"} /\ dbs'[u].owner \in {i, "none"}
                 /\ DatabaseInv(u)',
           pending' \subseteq Late, \A c \in pending' : c \in pending \/ c.by = i,
           \A c \in pending' : c.by = i =>
              inv'[i].unknown /\ (c.does # "create" => dbs'[c.on].owner = i),
           \A c, d \in pending' : c.by = i /\ d.by = i => c = d,
           \A u \in Targets : Left(i, u)' => Left(i, u) /\ intents'[i][u].state \notin Terminal,
           Left(i, t)' => inv'[i].diags \/ inv'[i].unknown
    PROVE  RestoreInv'
<1>1. RestoreTypeOK' /\ OwnStep(i)
  BY DEF RestoreInv, RestoreTypeOK, OwnStep
<1>2. inv'[i].k \in 0 .. Len(Order)
  BY SMT, OrderFacts DEF Indices
<1>3. CountInv(i)'
  BY <1>2 DEF CountInv, Before, Working, Filling, Undoing
<1>4. TargetInv(i)'
  BY DEF TargetInv, Before, Filling
<1>5. \A u \in Targets : Left(i, u)' => Named(i, u)'
  BY DEF RestoreInv, RestorePhase, AccountInv, Working, Named
<1>6. \A n \in Indices : n > inv'[i].k /\ Left(i, Order[n])' => inv'[i].diags \/ inv'[i].unknown
  <2> SUFFICES ASSUME NEW n \in Indices, n > inv'[i].k, Left(i, Order[n])'
      PROVE  inv'[i].diags \/ inv'[i].unknown
    OBVIOUS
  <2>1. n = inv[i].k \/ n > inv[i].k
    BY SMT, OrderFacts DEF Indices
  <2>2. CASE n = inv[i].k
    BY <2>2
  <2>3. CASE n > inv[i].k
    <3>1. Left(i, Order[n])
      BY OrderFacts
    <3> QED
      BY <2>3, <3>1 DEF RestoreInv, RestorePhase, AccountInv
  <2> QED
    BY <2>1, <2>2, <2>3
<1>7. AccountInv(i)'
  BY <1>5, <1>6 DEF AccountInv, Ended
<1> QED
  BY <1>1, <1>3, <1>4, <1>7, RestoreKept DEF RestorePhase

\* The look at one intent: nothing is changed yet.
LEMMA CompensateStep ==
    ASSUME RestoreInv, NEW i \in Invocations, compensate(i)
    PROVE  RestoreInv'
<1>1. /\ inv[i].at = "compensate" /\ inv[i].at \in Undoing /\ inv[i].at \in Working
      /\ inv[i].k \in Indices /\ inv[i] \in Places
      /\ UNCHANGED <<dbs, intents, ledger, pending>>
  <2>1. inv[i].at = "compensate" /\ inv[i].k > 0 /\ UNCHANGED <<dbs, intents, ledger, pending>>
    BY DEF compensate, IsAt
  <2>2. inv[i].k \in 0 .. Len(Order)
    BY <2>1 DEF RestoreInv, RestorePhase, CountInv
  <2> QED
    BY SMT, <2>1, <2>2, OrderFacts DEF Indices, Undoing, Working, RestoreInv, RestoreTypeOK
<1>2. PICK t \in Targets : t = Current(i) /\ t = Order[inv[i].k]
  BY <1>1, CurrentTarget
<1>3. \A u \in Targets : Left(i, u)' => Left(i, u) /\ intents'[i][u].state \notin Terminal
  BY <1>1 DEF RestoreInv, RestorePhase, AccountInv, Left
<1>4. \A c \in pending : c.by = i =>
         inv[i].unknown /\ (c.does # "create" => dbs[c.on].owner = i)
  BY <1>1 DEF RestoreInv, PendingInv
<1>5. \A c, d \in pending : c.by = i /\ d.by = i => c = d
  BY DEF RestoreInv, PendingInv
<1>6. ASSUME NEW next \in Places, inv' = [inv EXCEPT ![i] = next],
             next.at = "compensate", next.k = inv[i].k - 1,
             inv[i].diags => next.diags, next.unknown = inv[i].unknown,
             intents[i][t].state \in Terminal \/ next.diags
      PROVE  RestoreInv'
  <2>1. /\ inv' \in [Invocations -> Places] /\ inv'[i] = next
        /\ \A j \in Invocations : j # i => inv'[j] = inv[j]
    BY <1>6 DEF RestoreInv, RestoreTypeOK
  <2>2. Left(i, t)' => next.diags
    BY <1>1, <1>3, <1>6
  <2> QED
    BY ZenonT(40), <1>1, <1>2, <1>3, <1>4, <1>5, <1>6, <2>1, <2>2, UndoesOn DEF RestoreInv, RestoreTypeOK
<1>7. inv[i].k - 1 \in Nat
  BY SMT, <1>1, OrderFacts DEF Indices
<1>8. CASE intents[i][t].state \in Terminal /\ Skip(i, FALSE)
  <2>1. PICK next : next = [inv[i] EXCEPT !.k = inv[i].k - 1, !.diags = inv[i].diags \/ FALSE]
    OBVIOUS
  <2>2. inv' = [inv EXCEPT ![i] = next]
    BY <1>1, <1>8, <2>1 DEF Skip, RestoreInv, RestoreTypeOK
  <2>3. /\ next \in Places /\ next.at = "compensate" /\ next.k = inv[i].k - 1
        /\ (inv[i].diags => next.diags) /\ next.unknown = inv[i].unknown
    BY <1>1, <1>7, <2>1 DEF Places
  <2> QED
    BY <1>6, <1>8, <2>2, <2>3
<1>9. CASE Skip(i, TRUE)
  <2>1. PICK next : next = [inv[i] EXCEPT !.k = inv[i].k - 1, !.diags = inv[i].diags \/ TRUE]
    OBVIOUS
  <2>2. inv' = [inv EXCEPT ![i] = next]
    BY <1>1, <1>9, <2>1 DEF Skip, RestoreInv, RestoreTypeOK
  <2>3. /\ next \in Places /\ next.at = "compensate" /\ next.k = inv[i].k - 1
        /\ next.diags /\ next.unknown = inv[i].unknown
    BY <1>1, <1>7, <2>1 DEF Places
  <2> QED
    BY <1>6, <2>2, <2>3
<1>10. CASE inv' = [inv EXCEPT ![i].k = @ - 1, ![i].diags = TRUE, ![i].interrupted = TRUE]
  <2>1. PICK next : next = [inv[i] EXCEPT !.k = inv[i].k - 1, !.diags = TRUE, !.interrupted = TRUE]
    OBVIOUS
  <2>2. inv' = [inv EXCEPT ![i] = next]
    BY <1>1, <1>10, <2>1 DEF RestoreInv, RestoreTypeOK
  <2>3. /\ next \in Places /\ next.at = "compensate" /\ next.k = inv[i].k - 1
        /\ next.diags /\ next.unknown = inv[i].unknown
    BY <1>1, <1>7, <2>1 DEF Places
  <2> QED
    BY <1>6, <2>2, <2>3
<1>11. CASE Droppable(i, t) /\ Verified(i, t) /\ Go(i, "drop")
  <2>1. /\ inv' \in [Invocations -> Places]
        /\ \A j \in Invocations : j # i => inv'[j] = inv[j]
        /\ inv'[i].at = "drop" /\ inv'[i].k = inv[i].k
        /\ inv'[i].unknown = inv[i].unknown /\ inv'[i].diags = inv[i].diags
    <3>1. "drop" \in Steps
      BY DEF Steps, Working, Undoing
    <3> QED
      BY <1>11, <3>1, GoMoves DEF RestoreInv, RestoreTypeOK
  <2>2. ~inv[i].unknown /\ dbs[t].owner = i
    BY <1>11, ActorFacts DEF Droppable, Verified, RestoreInv, DatabaseInv
  <2>3. RestoreTypeOK' /\ OwnStep(i)
    BY <1>1, <2>1 DEF RestoreInv, RestoreTypeOK, OwnStep
  <2>4. CountInv(i)'
    BY <1>1, <2>1, <2>2 DEF CountInv, Before, Working, Filling, Undoing
  <2>5. TargetInv(i)'
    BY <1>1, <1>2, <2>1, <2>2 DEF TargetInv, Before, Filling
  <2>6. \A u \in Targets : Left(i, u)' => Named(i, u)'
    BY <1>1, <1>3 DEF RestoreInv, RestorePhase, AccountInv, Named
  <2>7. \A n \in Indices : n > inv[i].k /\ Left(i, Order[n])' => inv[i].diags \/ inv[i].unknown
    BY <1>1, <1>3, OrderFacts DEF RestoreInv, RestorePhase, AccountInv
  <2>8. AccountInv(i)'
    BY <1>3, <2>1, <2>6, <2>7 DEF AccountInv, Ended
  <2> QED
    BY <1>1, <1>4, <1>5, <2>1, <2>2, <2>3, <2>4, <2>5, <2>8, RestoreKept DEF RestorePhase
<1> QED
  BY <1>2, <1>8, <1>9, <1>10, <1>11 DEF compensate

\* The guarded drop: what it drops is its own, and a drop whose outcome is
\* unknown stays named and stops the compensation.
LEMMA DropStep ==
    ASSUME RestoreInv, NEW i \in Invocations, drop_target(i)
    PROVE  RestoreInv'
<1>1. /\ inv[i].at = "drop" /\ inv[i].at \in Undoing /\ inv[i].at \in Working
      /\ inv[i].at \in Working \ {"next", "compensate"}
      /\ ~inv[i].unknown /\ inv[i] \in Places /\ UNCHANGED ledger
  BY DEF drop_target, IsAt, Undoing, Working, RestoreInv, RestorePhase, CountInv, RestoreTypeOK
<1>2. PICK t \in Targets : t = Current(i) /\ t = Order[inv[i].k]
  BY <1>1, CurrentTarget
<1>3. /\ inv[i].k \in Indices /\ inv[i].k - 1 \in Nat /\ dbs[t].owner = i
  <2>1. inv[i].k \in Indices
    BY <1>1, CurrentTarget
  <2> QED
    BY SMT, <1>1, <1>2, <2>1, OrderFacts DEF Indices, RestoreInv, RestorePhase, TargetInv
<1>4. \A c \in pending : c.by # i
  BY <1>1, NothingPending
<1>5. \A u \in Targets : Left(i, u) => intents[i][u].state \notin Terminal
  BY <1>1 DEF RestoreInv, RestorePhase, AccountInv
<1>6. ASSUME Apply("drop", t, i) \/ UNCHANGED dbs
      PROVE  /\ dbs' \in [Targets -> Restorable]
             /\ \A u \in Targets : u # t => dbs'[u] = dbs[u]
             /\ \/ dbs'[t] = dbs[t]
                \/ dbs'[t].owner = "none" /\ DatabaseInv(t)'
  <2>1. CASE Apply("drop", t, i)
    BY <1>3, <2>1, DropEffect DEF RestoreInv
  <2>2. CASE UNCHANGED dbs
    BY ZenonT(40), <2>2 DEF RestoreInv, RestoreTypeOK
  <2> QED
    BY <1>6, <2>1, <2>2
<1>7. ASSUME NEW next \in Places, inv' = [inv EXCEPT ![i] = next],
             next.at = "compensate", next.k = inv[i].k - 1,
             inv[i].diags => next.diags,
             \/ Apply("drop", t, i) /\ UNCHANGED pending
             \/ UNCHANGED <<dbs, pending>>
             \/ /\ UNCHANGED dbs /\ next.unknown
                /\ pending' = pending \cup {[by |-> i, does |-> "drop", on |-> t]},
             intents' \in [Invocations -> Intents],
             \A j \in Invocations : j # i => intents'[j] = intents[j],
             \A u \in Targets : u # t => intents'[i][u] = intents[i][u],
             \/ UNCHANGED intents /\ (next.diags \/ next.unknown)
             \/ Apply("drop", t, i) /\ UNCHANGED pending
      PROVE  RestoreInv'
  <2>1. /\ inv' \in [Invocations -> Places] /\ inv'[i] = next
        /\ \A j \in Invocations : j # i => inv'[j] = inv[j]
    BY <1>7 DEF RestoreInv, RestoreTypeOK
  <2>2. /\ dbs' \in [Targets -> Restorable]
        /\ \A u \in Targets : u # t => dbs'[u] = dbs[u]
        /\ \/ dbs'[t] = dbs[t]
           \/ dbs'[t].owner = "none" /\ DatabaseInv(t)'
    BY <1>6, <1>7
  <2>3. Apply("drop", t, i) => dbs'[t].owner = "none"
    BY <1>3, DropEffect DEF RestoreInv
  <2>4. /\ pending' \subseteq Late
        /\ \A c \in pending' : c \in pending \/ (c.by = i /\ c.on = t /\ UNCHANGED dbs)
        /\ \A c \in pending' : c.by = i => next.unknown /\ dbs'[c.on].owner = i
        /\ \A c, d \in pending' : c.by = i /\ d.by = i => c = d
    <3>1. [by |-> i, does |-> "drop", on |-> t] \in Late
      BY DEF Late
    <3> QED
      BY SMT, <1>3, <1>4, <1>7, <3>1 DEF RestoreInv, RestoreTypeOK
  <2>5. \A u \in Targets : Left(i, u)' => dbs[u].owner = i /\ (u = t => UNCHANGED intents)
    <3>1. CASE Apply("drop", t, i) /\ UNCHANGED pending
      BY <1>4, <2>2, <2>3, <3>1, ActorFacts DEF Left
    <3>2. CASE UNCHANGED intents /\ ~Apply("drop", t, i)
      BY SMT, <1>3, <1>4, <1>7, <2>2, <3>2 DEF Left
    <3>3. CASE UNCHANGED intents /\ Apply("drop", t, i)
      BY <1>3, <1>4, <2>2, <2>3, <2>4, <3>3, ActorFacts DEF Left
    <3> QED
      BY <1>7, <3>1, <3>2, <3>3
  <2>6. \A u \in Targets : Left(i, u)' => Left(i, u) /\ intents'[i][u].state \notin Terminal
    BY <1>5, <1>7, <2>5 DEF Left
  <2>7. Left(i, t)' => inv'[i].diags \/ inv'[i].unknown
    <3>1. CASE UNCHANGED intents /\ (next.diags \/ next.unknown)
      BY <2>1, <3>1
    <3>2. CASE Apply("drop", t, i) /\ UNCHANGED pending
      BY <1>4, <2>3, <3>2, ActorFacts DEF Left
    <3> QED
      BY <1>7, <3>1, <3>2
  <2>8. \A u \in Targets :
           \/ dbs'[u] = dbs[u]
           \/ /\ dbs[u].owner \in {i, "none"} /\ dbs'[u].owner \in {i, "none"}
              /\ DatabaseInv(u)'
    BY <1>3, <2>2
  <2>9. /\ inv'[i].at = "compensate" /\ inv'[i].k = inv[i].k - 1
        /\ (inv[i].diags => inv'[i].diags) /\ (inv[i].unknown => inv'[i].unknown)
    BY <1>1, <1>7, <2>1
  <2> QED
    BY SMT, <1>1, <1>2, <1>3, <1>7, <2>1, <2>2, <2>4, <2>6, <2>7, <2>8, <2>9, UndoesOn
<1>8. CASE /\ Finishes(i, "drop", t, TRUE)
           /\ intents' = [intents EXCEPT ![i][t].state = "cleaned"]
           /\ inv' = [inv EXCEPT ![i].at = "compensate", ![i].k = @ - 1]
  <2>1. PICK next : next = [inv[i] EXCEPT !.at = "compensate", !.k = inv[i].k - 1]
    OBVIOUS
  <2>2. inv' = [inv EXCEPT ![i] = next]
    BY <1>1, <1>8, <2>1 DEF RestoreInv, RestoreTypeOK
  <2>3. /\ next \in Places /\ next.at = "compensate" /\ next.k = inv[i].k - 1
        /\ next.diags = inv[i].diags
    BY <1>1, <1>3, <2>1 DEF Places, Steps, Working, Undoing
  <2>4. Apply("drop", t, i) /\ UNCHANGED pending
    BY <1>8 DEF Finishes
  <2>5. /\ intents' \in [Invocations -> Intents]
        /\ \A j \in Invocations : j # i => intents'[j] = intents[j]
        /\ \A u \in Targets : u # t => intents'[i][u] = intents[i][u]
    <3>1. intents[i] \in [Targets -> [state : IntentStates, oid : BOOLEAN]]
      BY DEF RestoreInv, RestoreTypeOK, Intents
    <3>2. [intents[i] EXCEPT ![t].state = "cleaned"] \in Intents
      BY <3>1 DEF Intents, IntentStates
    <3> QED
      BY <1>8, <3>1, <3>2 DEF RestoreInv, RestoreTypeOK
  <2> QED
    BY <1>7, <2>2, <2>3, <2>4, <2>5
<1>9. ASSUME NEW next \in Places, inv' = [inv EXCEPT ![i] = next],
             next.at = "compensate", next.k = inv[i].k - 1, next.diags,
             UNCHANGED intents,
             \/ Apply("drop", t, i) /\ UNCHANGED pending
             \/ UNCHANGED <<dbs, pending>>
             \/ /\ UNCHANGED dbs /\ next.unknown
                /\ pending' = pending \cup {[by |-> i, does |-> "drop", on |-> t]}
      PROVE  RestoreInv'
  BY <1>7, <1>9 DEF RestoreInv, RestoreTypeOK
<1>10. CASE /\ Finishes(i, "drop", t, TRUE) /\ UNCHANGED intents
            /\ inv' = [inv EXCEPT ![i].at = "compensate", ![i].k = @ - 1, ![i].diags = TRUE]
  <2>1. PICK next : next = [inv[i] EXCEPT !.at = "compensate", !.k = inv[i].k - 1, !.diags = TRUE]
    OBVIOUS
  <2>2. inv' = [inv EXCEPT ![i] = next]
    BY <1>1, <1>10, <2>1 DEF RestoreInv, RestoreTypeOK
  <2>3. /\ next \in Places /\ next.at = "compensate" /\ next.k = inv[i].k - 1 /\ next.diags
    BY <1>1, <1>3, <2>1 DEF Places, Steps, Working, Undoing
  <2> QED
    BY <1>9, <1>10, <2>2, <2>3 DEF Finishes
<1>11. CASE /\ Finishes(i, "drop", t, FALSE) /\ UNCHANGED intents
            /\ \E stop \in {FALSE} \cup {May(i, "interrupt")} :
                  inv' = [inv EXCEPT ![i].at = "compensate", ![i].k = @ - 1,
                             ![i].diags = TRUE, ![i].interrupted = @ \/ stop]
  <2>1. PICK stop \in {FALSE} \cup {May(i, "interrupt")} :
                  inv' = [inv EXCEPT ![i].at = "compensate", ![i].k = @ - 1,
                             ![i].diags = TRUE, ![i].interrupted = @ \/ stop]
    BY <1>11
  <2>2. PICK next : next = [inv[i] EXCEPT !.at = "compensate", !.k = inv[i].k - 1, !.diags = TRUE,
                                          !.interrupted = inv[i].interrupted \/ stop]
    OBVIOUS
  <2>3. inv' = [inv EXCEPT ![i] = next]
    BY <1>1, <2>1, <2>2 DEF RestoreInv, RestoreTypeOK
  <2>4. /\ next \in Places /\ next.at = "compensate" /\ next.k = inv[i].k - 1 /\ next.diags
    BY <1>1, <1>3, <2>2 DEF Places, Steps, Working, Undoing
  <2> QED
    BY <1>9, <1>11, <2>3, <2>4 DEF Finishes
<1>12. CASE /\ Unsettled(i, "drop", t) /\ UNCHANGED intents
            /\ inv' = [inv EXCEPT ![i].at = "compensate", ![i].k = @ - 1,
                          ![i].diags = TRUE, ![i].unknown = TRUE]
  <2>1. PICK next : next = [inv[i] EXCEPT !.at = "compensate", !.k = inv[i].k - 1, !.diags = TRUE,
                                          !.unknown = TRUE]
    OBVIOUS
  <2>2. inv' = [inv EXCEPT ![i] = next]
    BY <1>1, <1>12, <2>1 DEF RestoreInv, RestoreTypeOK
  <2>3. /\ next \in Places /\ next.at = "compensate" /\ next.k = inv[i].k - 1 /\ next.diags
        /\ next.unknown
    BY <1>1, <1>3, <2>1 DEF Places, Steps, Working, Undoing
  <2> QED
    BY <1>9, <1>12, <2>2, <2>3 DEF Unsettled
<1> QED
  BY <1>2, <1>8, <1>10, <1>11, <1>12 DEF drop_target

\* The ledger at the end of the compensation: kept when anything is left.
LEMMA SettleStep ==
    ASSUME RestoreInv, NEW i \in Invocations, settle_ledger(i)
    PROVE  RestoreInv'
<1>1. /\ inv[i].at = "compensate" /\ inv[i].k = 0 /\ inv[i].at \in Undoing /\ inv[i].at \in Working
      /\ Go(i, "failed") /\ "failed" \in Ended
      /\ UNCHANGED <<dbs, intents, pending>>
  BY DEF settle_ledger, IsAt, Undoing, Working, Ended
<1>2. \A t \in Targets : Left(i, t) =>
         /\ intents[i][t].state \notin Terminal \cup {"none"} /\ Named(i, t)
         /\ inv[i].diags \/ inv[i].unknown
  <2>1. \A t \in Targets : Left(i, t) => intents[i][t].state \notin Terminal /\ Named(i, t)
    BY <1>1 DEF RestoreInv, RestorePhase, AccountInv
  <2>2. \A t \in Targets : Left(i, t) => inv[i].diags \/ inv[i].unknown
    <3>1. \A n \in Indices : n > inv[i].k
      BY SMT, <1>1 DEF Indices
    <3>2. \A n \in Indices : Left(i, Order[n]) => inv[i].diags \/ inv[i].unknown
      BY <1>1, <3>1 DEF RestoreInv, RestorePhase, AccountInv
    <3> QED
      BY <3>2, OrderFacts
  <2>3. \A t \in Targets : intents[i][t].state # "none"
    BY DEF RestoreInv, RestoreTypeOK, Intents, IntentStates
  <2> QED
    BY <2>1, <2>2, <2>3
<1>3. /\ ledger' \in [Invocations -> Ledger]
      /\ \A j \in Invocations : j # i => ledger'[j] = ledger[j]
      /\ \A t \in Targets : Left(i, t) => Named(i, t)'
  <2>1. CASE ledger' = Written(i, intents[i])
    <3>1. /\ ledger' \in [Invocations -> Ledger]
          /\ \A j \in Invocations : j # i => ledger'[j] = ledger[j]
          /\ \A t \in Targets : ledger'[i][t] = intents[i][t].state
      BY <2>1, LedgerWritten DEF RestoreInv, RestoreTypeOK
    <3> QED
      BY <1>2, <3>1 DEF Named, None
  <2>2. CASE ledger' = ledger
    BY <1>2, <2>2 DEF Named, RestoreInv, RestoreTypeOK
  <2>3. CASE ledger' = [ledger EXCEPT ![i] = NoLedger] /\ ~(inv[i].diags \/ inv[i].unknown)
    <3>1. NoLedger \in Ledger
      BY DEF NoLedger, None, Ledger, Targets
    <3> QED
      BY <1>2, <2>3, <3>1 DEF RestoreInv, RestoreTypeOK
  <2> QED
    BY <2>1, <2>2, <2>3 DEF settle_ledger, Written
<1>4. \A c \in pending : c.by = i =>
         /\ c.does # "create" => dbs[c.on].owner = i
         /\ inv[i].unknown /\ Named(i, c.on)'
  <2> SUFFICES ASSUME NEW c \in pending, c.by = i
      PROVE  /\ c.does # "create" => dbs[c.on].owner = i
             /\ inv[i].unknown /\ Named(i, c.on)'
    OBVIOUS
  <2>1. c.on \in Targets /\ Left(i, c.on)
    BY DEF RestoreInv, RestoreTypeOK, Late, Left
  <2> QED
    BY <1>1, <1>3, <2>1 DEF RestoreInv, PendingInv
<1>5. \A c, d \in pending : c.by = i /\ d.by = i => c = d
  BY DEF RestoreInv, PendingInv
<1>6. \A t \in Targets : dbs[t].owner = i => Named(i, t)'
  BY <1>3 DEF Left
<1>7. pending' \subseteq Late
  BY <1>1 DEF RestoreInv, RestoreTypeOK
<1> QED
  BY <1>1, <1>3, <1>4, <1>5, <1>6, <1>7, EndsStep

-----------------------------------------------------------------------------
(* Kills, late commands and the other actor *)

\* A killed invocation leaves at most the command that it was running, on a
\* target that its ledger names.
LEMMA KillStep ==
    ASSUME RestoreInv, NEW i \in Invocations, sigkill(i)
    PROVE  RestoreInv'
<1>1. /\ inv[i].at \in Before \cup Working \cup {"finish"}
      /\ Go(i, "killed") /\ "killed" \in Ended
      /\ UNCHANGED <<dbs, intents, ledger>>
  <2>1. inv[i].at \in Steps
    BY DEF RestoreInv, RestoreTypeOK, Places
  <2> QED
    BY <2>1 DEF sigkill, Steps, Ended
<1>2. PICK started \in SUBSET Running(i) : pending' = pending \cup started
  BY DEF sigkill
<1>3. \A t \in Targets : Named(i, t)' <=> Named(i, t)
  BY <1>1 DEF Named
<1>4. \A c \in pending : c.by = i =>
         /\ inv[i].unknown /\ inv[i].at = "compensate" /\ c.on \in Targets
         /\ (c.does # "create" => dbs[c.on].owner = i) /\ Named(i, c.on)'
  <2> SUFFICES ASSUME NEW c \in pending, c.by = i
      PROVE  /\ inv[i].unknown /\ inv[i].at = "compensate" /\ c.on \in Targets
             /\ (c.does # "create" => dbs[c.on].owner = i) /\ Named(i, c.on)'
    OBVIOUS
  <2>1. c.on \in Targets /\ Left(i, c.on)
    BY DEF RestoreInv, RestoreTypeOK, Late, Left
  <2>2. inv[i].unknown /\ (c.does # "create" => dbs[c.on].owner = i)
    BY <1>1 DEF RestoreInv, PendingInv, Before, Working, Filling, Undoing
  <2>3. inv[i].at = "compensate"
    BY <1>1, <2>2
       DEF RestoreInv, RestorePhase, CountInv, Before, Working, Filling, Undoing
  <2>4. Named(i, c.on)
    BY <2>1, <2>3 DEF RestoreInv, RestorePhase, AccountInv, Working, Undoing
  <2> QED
    BY <1>3, <2>1, <2>2, <2>3, <2>4
<1>5. /\ started \subseteq Late
      /\ \A c \in started :
            /\ c.by = i /\ (c.does # "create" => dbs[c.on].owner = i)
            /\ Named(i, c.on)' /\ inv[i].at # "compensate"
      /\ \A c, d \in started : c = d
  <2>1. CASE inv[i].at \in Working \ {"next", "compensate"}
    <3>1. PICK t \in Targets : t = Current(i) /\ t = Order[inv[i].k]
      BY <2>1, CurrentTarget
    <3>2. \A does \in {"create", "spoil", "drop"} :
             /\ [by |-> i, does |-> does, on |-> t] \in Late
             /\ [by |-> i, does |-> does, on |-> t].on = t
             /\ [by |-> i, does |-> does, on |-> t].by = i
             /\ [by |-> i, does |-> does, on |-> t].does = does
      BY DEF Late
    <3>3. CASE inv[i].at = "create"
      <4>1. Running(i) = {[by |-> i, does |-> "create", on |-> t]}
        BY <3>1, <3>3 DEF Running, IsAt
      <4>2. Named(i, t)
        BY <3>1, <3>3 DEF RestoreInv, RestorePhase, AccountInv, Named, Terminal, None
      <4> QED
        BY <1>3, <3>2, <3>3, <4>1, <4>2
    <3>4. CASE inv[i].at # "create"
      <4>1. CASE inv[i].at = "hold"
        <5>1. Running(i) = {}
          BY <4>1 DEF Running, IsAt
        <5> QED
          BY <5>1
      <4>2. CASE inv[i].at \in {"install", "replay", "verify", "drop"}
        <5>1. dbs[t].owner = i /\ Named(i, t)
          BY SMT, <3>1, <4>2
             DEF RestoreInv, RestorePhase, TargetInv, AccountInv, Left, Working, Filling, Undoing
        <5>2. \E does \in {"spoil", "drop"} :
                 Running(i) \subseteq {[by |-> i, does |-> does, on |-> t]}
          BY <3>1, <4>2 DEF Running, IsAt
        <5>3. PICK does \in {"spoil", "drop"} :
                 Running(i) \subseteq {[by |-> i, does |-> does, on |-> t]}
          BY <5>2
        <5> QED
          BY <1>3, <3>2, <4>2, <5>1, <5>3
      <4> QED
        BY <2>1, <3>4, <4>1, <4>2 DEF Working, Filling, Undoing
    <3> QED
      BY <3>3, <3>4
  <2>2. CASE inv[i].at \in Before \cup {"finish", "next", "compensate"}
    <3>1. Running(i) = {}
      BY <2>2 DEF Running, IsAt, Before
    <3> QED
      BY <3>1
  <2> QED
    BY <1>1, <2>1, <2>2
<1>6. \A t \in Targets : dbs[t].owner = i /\ Unfinished(t) => Named(i, t)'
  <2>1. CASE inv[i].at \in Before
    BY ZenonT(40), <2>1 DEF RestoreInv, RestorePhase, TargetInv
  <2>2. CASE inv[i].at \in Working
    BY <1>3, <2>2 DEF RestoreInv, RestorePhase, AccountInv, Left
  <2>3. CASE inv[i].at = "finish"
    BY <2>3 DEF RestoreInv, RestorePhase, TargetInv, Unfinished, None
  <2> QED
    BY <1>1, <2>1, <2>2, <2>3
<1>7. \A c, d \in pending' : c.by = i /\ d.by = i => c = d
  <2>1. \A c, d \in pending : c.by = i /\ d.by = i => c = d
    BY DEF RestoreInv, PendingInv
  <2> QED
    BY <1>2, <1>4, <1>5, <2>1
<1>8. /\ pending' \subseteq Late /\ \A c \in pending' : c \in pending \/ c.by = i
      /\ \A c \in pending' : c.by = i =>
            (c.does # "create" => dbs[c.on].owner = i) /\ Named(i, c.on)'
  BY <1>2, <1>4, <1>5 DEF RestoreInv, RestoreTypeOK
<1> QED
  BY <1>1, <1>6, <1>7, <1>8, EndsStep DEF RestoreInv, RestoreTypeOK

\* A late command changes a database of its own invocation or creates one
\* that the ledger of that invocation names.
LEMMA LateStep ==
    ASSUME RestoreInv, NEW c \in pending, take_effect(c)
    PROVE  RestoreInv'
<1>1. PICK i \in Invocations, t \in Targets : c.by = i /\ c.on = t
  BY DEF RestoreInv, RestoreTypeOK, Late
<1>2. /\ Apply(c.does, t, i) /\ pending' = pending \ {c} /\ c.does \in {"create", "spoil", "drop"}
      /\ UNCHANGED <<inv, intents, ledger>>
      /\ c.does # "create" => dbs[t].owner = i
      /\ inv[i].at \in {"compensate", "failed", "killed"}
  <2>1. inv[i].unknown \/ inv[i].at = "killed"
    BY <1>1 DEF RestoreInv, PendingInv
  <2>2. inv[i].at \in {"compensate", "failed", "killed"}
    BY <2>1 DEF RestoreInv, RestorePhase, CountInv
  <2> QED
    BY <1>1, <2>2 DEF take_effect, RestoreInv, RestoreTypeOK, Late, PendingInv
<1>3. /\ dbs' \in [Targets -> Restorable]
      /\ \A u \in Targets : u # t => dbs'[u] = dbs[u]
      /\ \/ dbs'[t] = dbs[t]
         \/ /\ dbs[t].owner \in {i, "none"} /\ dbs'[t].owner \in {i, "none"}
            /\ DatabaseInv(t)'
  <2>1. CASE c.does = "create"
    BY <1>2, <2>1, CreateEffect DEF RestoreInv
  <2>2. CASE c.does = "spoil"
    BY <1>2, <2>2, FillEffect DEF RestoreInv
  <2>3. CASE c.does = "drop"
    BY <1>2, <2>3, DropEffect DEF RestoreInv
  <2> QED
    BY <1>2, <2>1, <2>2, <2>3
<1>4. RestoreTypeOK' /\ OwnStep(i)
  BY <1>2, <1>3 DEF RestoreInv, RestoreTypeOK, OwnStep
<1>5. \A d \in pending' : d.by # i
  BY <1>1, <1>2 DEF RestoreInv, PendingInv
<1>6. Left(i, t) /\ \A u \in Targets : Left(i, u)' => Left(i, u)
  BY <1>1, <1>3, <1>5 DEF Left
<1>7. \A u \in Targets : Named(i, u)' <=> Named(i, u)
  BY <1>2 DEF Named
<1>8. CountInv(i)'
  BY <1>2 DEF CountInv, RestoreInv, RestorePhase
<1>9. TargetInv(i)'
  BY <1>2 DEF TargetInv, Before, Filling
<1>10. AccountInv(i)'
  <2>1. CASE inv[i].at = "compensate"
    <3>1. \A u \in Targets : Left(i, u)' =>
             intents[i][u].state \notin Terminal /\ Named(i, u)
      BY <1>6, <2>1 DEF RestoreInv, RestorePhase, AccountInv, Working, Undoing
    <3>2. \A n \in Indices : n > inv[i].k /\ Left(i, Order[n])' => inv[i].diags \/ inv[i].unknown
      BY <1>6, <2>1, OrderFacts DEF RestoreInv, RestorePhase, AccountInv, Undoing
    <3> QED
      BY <1>2, <1>7, <2>1, <3>1, <3>2 DEF AccountInv, Ended
  <2>2. CASE inv[i].at \in {"failed", "killed"}
    <3>1. inv[i].at \in Ended
      BY <2>2 DEF Ended
    <3>2. \A u \in Targets : u # t /\ dbs'[u].owner = i /\ Unfinished(u)' => Named(i, u)
      BY <1>3, <3>1 DEF RestoreInv, RestorePhase, AccountInv, Unfinished
    <3>3. Named(i, t)
      BY <1>1, <3>1 DEF RestoreInv, RestorePhase, AccountInv
    <3> QED
      BY <1>2, <1>5, <1>7, <2>2, <3>2, <3>3 DEF AccountInv, Working, Filling, Undoing
  <2> QED
    BY <1>2, <2>1, <2>2
<1> QED
  BY <1>4, <1>5, <1>8, <1>9, <1>10, RestoreKept DEF RestorePhase

\* The other actor makes and drops databases of its own.
LEMMA OtherActorStep ==
    ASSUME RestoreInv, NEW t \in Targets, other_actor(t)
    PROVE  RestoreInv'
<1>1. /\ dbs[t].owner \in {"none", "other"}
      /\ dbs' = [dbs EXCEPT ![t] = Made("other")]
         \/ dbs' = [dbs EXCEPT ![t] = [Absent EXCEPT !.was = "other", !.by = "other"]]
      /\ UNCHANGED <<inv, intents, ledger, pending>>
  BY DEF other_actor, Exists, None, Other
<1>2. /\ Made("other") \in Restorable
      /\ Made("other").owner = "other" /\ Made("other").stamp = "none"
      /\ Made("other").was = "other" /\ Made("other").by = "other"
  BY DEF Made, None, Other, Restorable, Actors
<1>3. /\ [Absent EXCEPT !.was = "other", !.by = "other"] \in Restorable
      /\ [Absent EXCEPT !.was = "other", !.by = "other"].owner = "none"
      /\ [Absent EXCEPT !.was = "other", !.by = "other"].stamp = "none"
      /\ [Absent EXCEPT !.was = "other", !.by = "other"].was = "other"
      /\ [Absent EXCEPT !.was = "other", !.by = "other"].by = "other"
  BY DEF Absent, None, Restorable, Actors
<1>4. /\ dbs' \in [Targets -> Restorable]
      /\ \A u \in Targets : u # t => dbs'[u] = dbs[u]
      /\ dbs'[t].owner \in {"none", "other"} /\ dbs'[t].stamp = "none"
      /\ dbs'[t].was = "other" /\ dbs'[t].by = "other"
  BY <1>1, <1>2, <1>3 DEF RestoreInv, RestoreTypeOK
<1>5. \A u \in Targets : DatabaseInv(u)'
  BY <1>4 DEF RestoreInv, DatabaseInv
<1>6. RestoreTypeOK'
  BY <1>1, <1>4 DEF RestoreInv, RestoreTypeOK
<1>7. PendingInv'
  <2>1. \A c \in pending : c.on \in Targets /\ c.by \in Invocations
    BY DEF RestoreInv, RestoreTypeOK, Late
  <2>2. \A c \in pending : c.does # "create" => c.on # t
    BY SMT, <1>1, <2>1, ActorFacts DEF RestoreInv, PendingInv
  <2> QED
    BY <1>1, <1>4, <2>1, <2>2 DEF RestoreInv, PendingInv
<1>8. \A j \in Invocations : RestorePhase(j)'
  <2> TAKE j \in Invocations
  <2>1. \A u \in Targets : \/ dbs'[u] = dbs[u]
                           \/ dbs[u].owner # j /\ dbs'[u].owner # j
    BY <1>1, <1>4, ActorFacts
  <2> QED
    BY <1>1, <2>1, OthersPhase DEF RestoreInv
<1> QED
  BY <1>5, <1>6, <1>7, <1>8 DEF RestoreInv

\* Steps that leave the databases and the accounts alone.
LEMMA RestoreStutter ==
    ASSUME RestoreInv, UNCHANGED <<dbs, inv, intents, ledger, pending>>
    PROVE  RestoreInv'
<1>1. RestoreTypeOK' /\ PendingInv' /\ \A t \in Targets : DatabaseInv(t)'
  BY DEF RestoreInv, RestoreTypeOK, PendingInv, DatabaseInv
<1>2. \A j \in Invocations : RestorePhase(j)'
  BY OthersPhase DEF RestoreInv
<1> QED
  BY <1>1, <1>2 DEF RestoreInv

\* Before the first restore there is no target and no ledger.
LEMMA RestoreInitially ==
    ASSUME RestoreInit PROVE RestoreInv
<1>1. /\ dbs = [t \in Targets |-> Absent] /\ pending = {}
      /\ inv = [i \in Invocations |-> [at |-> "new", k |-> 1, diags |-> FALSE,
                                       unknown |-> FALSE, interrupted |-> FALSE]]
      /\ intents = [i \in Invocations |->
                       [t \in Targets |-> [state |-> "not_created", oid |-> FALSE]]]
      /\ ledger = [i \in Invocations |-> NoLedger]
  BY DEF RestoreInit, Targets
<1>2. /\ Absent \in Restorable /\ Absent.owner = "none" /\ Absent.stamp = "none"
      /\ Absent.was = "none" /\ Absent.by = "none"
  BY DEF Absent, None, Restorable, Actors
<1>3. RestoreTypeOK
  <2>1. /\ [at |-> "new", k |-> 1, diags |-> FALSE, unknown |-> FALSE, interrupted |-> FALSE]
              \in Places
        /\ [t \in Targets |-> [state |-> "not_created", oid |-> FALSE]] \in Intents
        /\ NoLedger \in Ledger
    BY DEF Places, Steps, Before, Intents, IntentStates, NoLedger, None, Ledger, Targets
  <2> QED
    BY <1>1, <1>2, <2>1 DEF RestoreTypeOK
<1>4. (\A t \in Targets : DatabaseInv(t)) /\ PendingInv
  BY <1>1, <1>2 DEF DatabaseInv, PendingInv
<1>5. \A i \in Invocations : RestorePhase(i)
  <2> TAKE i \in Invocations
  <2>1. inv[i].at = "new" /\ inv[i].k = 1 /\ ~inv[i].unknown
    BY <1>1
  <2>2. \A t \in Targets : dbs[t].owner # i
    BY <1>1, <1>2, ActorFacts
  <2> QED
    BY <2>1, <2>2
       DEF RestorePhase, CountInv, TargetInv, AccountInv, Before, Working, Filling, Undoing,
           Ended
<1> QED
  BY <1>3, <1>4, <1>5 DEF RestoreInv

\* Every step of a restore, of a late command and of the other actor.
LEMMA RestoreStep ==
    ASSUME RestoreInv, RestoreNext PROVE RestoreInv'
<1>1. ASSUME NEW i \in Invocations, Step(i) PROVE RestoreInv'
  <2>1. CASE lose_session(i)
    BY <2>1, RestoreStutter DEF lose_session
  <2>2. CASE refuse_outstanding(i) \/ preflight(i) \/ enter(i) \/ lock_timeout(i)
    BY <2>2, EntryStep
  <2>3. CASE begin(i) \/ create(i) \/ hold_target(i)
    BY <2>3, BeginStep, CreateStep, HoldStep
  <2>4. CASE install_extensions(i) \/ replay_archive(i) \/ verify_restored_database(i)
    BY <2>4, FillStep
  <2>5. CASE finalize(i) \/ finish(i)
    BY <2>5, FinalizeStep, FinishStep
  <2>6. CASE compensate(i) \/ drop_target(i) \/ settle_ledger(i)
    BY <2>6, CompensateStep, DropStep, SettleStep
  <2>7. CASE sigkill(i)
    BY <2>7, KillStep
  <2> QED
    BY <1>1, <2>1, <2>2, <2>3, <2>4, <2>5, <2>6, <2>7 DEF Step
<1>2. ASSUME NEW c \in pending, take_effect(c) PROVE RestoreInv'
  BY <1>2, LateStep
<1>3. ASSUME NEW t \in Targets, other_actor(t) PROVE RestoreInv'
  BY <1>3, OtherActorStep
<1> QED
  BY <1>1, <1>2, <1>3 DEF RestoreNext, Targets

\* The restores keep their account, whatever the operator does.
THEOREM RestoreAccounts == RestoreSpec => []RestoreInv
<1>1. RestoreInv /\ [RestoreNext]_restoring => RestoreInv'
  BY RestoreStep, RestoreStutter DEF restoring
<1> QED
  BY <1>1, RestoreInitially, PTL DEF RestoreSpec

\* Whatever an ended restore leaves behind is named by its ledger
\* (persist_intent_ledger before each creation, the retained states of
\* cleanup_extension_restore_intents), for any set of databases, any number of
\* restores, failures and kills.
THEOREM LeftoversStayNamed == RestoreSpec => []LeftoversAreNamed
<1>1. RestoreInv => LeftoversAreNamed
  BY DEF RestoreInv, RestorePhase, AccountInv, LeftoversAreNamed, Targets
<1> QED
  BY <1>1, RestoreAccounts, PTL

\* Restore commands, the late ones included, change and drop only databases
\* that their own invocation created (hold_target, verify, the guarded drop).
THEOREM RestoresTouchTheirOwn == RestoreSpec => []OnlyItsOwn
<1>1. RestoreInv => OnlyItsOwn
  BY DEF RestoreInv, DatabaseInv, OnlyItsOwn, Targets
<1> QED
  BY <1>1, RestoreAccounts, PTL

\* A restore that reports success leaves every target whole, its own and
\* without a stamp, and nothing of it can still act (finalize,
\* _require_custody).
THEOREM SuccessStaysWhole == RestoreSpec => []SuccessIsWhole
<1>1. ASSUME RestoreInv, NEW i \in Invocations, inv[i].at = "success"
      PROVE  /\ \A t \in Targets : dbs[t].owner = i /\ ~Unfinished(t)
             /\ \A c \in pending : c.by # i
  <2>1. ~inv[i].unknown
    BY <1>1 DEF RestoreInv, RestorePhase, CountInv
  <2> QED
    BY SMT, <1>1, <2>1, NothingPending
       DEF RestoreInv, RestorePhase, TargetInv, Unfinished, None
<1>2. RestoreInv => SuccessIsWhole
  BY <1>1 DEF SuccessIsWhole, Targets
<1> QED
  BY <1>2, RestoreAccounts, PTL

-----------------------------------------------------------------------------
(* Schema upgrades *)

ST == INSTANCE SequenceTheorems
WF == INSTANCE WellFoundedInduction

Migrations == 0 .. Newest

\* The ordinals of the migrations.
LEMMA Ordinals ==
    /\ Newest \in Nat /\ Identity \in Nat \ {0} /\ Removal \in Nat
    /\ Identity < Removal /\ Removal <= Newest /\ Here \in Roots
  BY OrdinalsAssumption

\* A ledger that lists the first n migrations.
LEMMA PrefixFacts ==
    ASSUME NEW n \in Migrations
    PROVE  /\ Prefix(n) \in Seq(Nat) /\ Len(Prefix(n)) = n
           /\ \A i \in 1 .. n : Prefix(n)[i] = i
  BY SMT, Ordinals DEF Prefix, Expected, Migrations

\* It is never the row that no migration has.
LEMMA PrefixIsKnown ==
    ASSUME NEW n \in Migrations PROVE Prefix(n) # <<0>>
<1>1. CASE n = 0
  BY SMT, <1>1, PrefixFacts
<1>2. CASE n # 0
  <2>1. Prefix(n)[1] = 1
    BY SMT, <1>2, PrefixFacts, Ordinals DEF Migrations
  <2>2. <<0>>[1] = 0
    OBVIOUS
  <2> QED
    BY SMT, <2>1, <2>2
<1> QED
  BY <1>1, <1>2

\* The whole ledger.
LEMMA WholeLedger == Prefix(Newest) = Expected
<1>1. Prefix(Newest) = [i \in 1 .. Newest |-> i]
  BY SMT, Ordinals DEF Prefix, Expected
<1> QED
  BY <1>1 DEF Expected

\* The rows that apply_forward_schema appends are the ones that are missing.
LEMMA ForwardLedger ==
    ASSUME NEW m \in Migrations, NEW n \in Migrations, m <= n
    PROVE  Prefix(m) \o SubSeq(Expected, m + 1, n) = Prefix(n)
<1>1. /\ SubSeq(Expected, m + 1, n) \in Seq(Nat)
      /\ Len(SubSeq(Expected, m + 1, n)) = n - m
      /\ \A i \in 1 .. n - m : SubSeq(Expected, m + 1, n)[i] = m + i
  BY SMT, Ordinals DEF Expected, Migrations
<1>2. PICK p \in Seq(Nat), s \in Seq(Nat) :
         /\ p = Prefix(m) /\ s = SubSeq(Expected, m + 1, n)
         /\ Len(p) = m /\ \A i \in 1 .. m : p[i] = i
         /\ Len(s) = n - m /\ \A i \in 1 .. n - m : s[i] = m + i
  BY ZenonT(40), <1>1, PrefixFacts
<1>3. /\ p \o s \in Seq(Nat) /\ Len(p \o s) = Len(p) + Len(s)
      /\ \A i \in 1 .. Len(p) + Len(s) :
            (p \o s)[i] = IF i <= Len(p) THEN p[i] ELSE s[i - Len(p)]
  BY ST!ConcatProperties
<1>4. PICK q \in Seq(Nat) :
         /\ q = p \o s /\ Len(q) = Len(p) + Len(s)
         /\ \A i \in 1 .. Len(p) + Len(s) : q[i] = IF i <= Len(p) THEN p[i] ELSE s[i - Len(p)]
  BY <1>3
<1>5. m \in Nat /\ n \in Nat
  BY SMT, Ordinals DEF Migrations
<1>6. Len(q) = n /\ \A i \in 1 .. n : q[i] = i
  <2>1. Len(p) = m /\ Len(s) = n - m
    BY <1>2
  <2>2. Len(q) = n
    BY SMT, <1>4, <1>5, <2>1
  <2> SUFFICES ASSUME NEW i \in 1 .. n PROVE q[i] = i
    BY <2>2
  <2>3. q[i] = IF i <= m THEN p[i] ELSE s[i - m]
    BY SMT, <1>4, <1>5, <2>1
  <2>4. CASE i <= m
    BY SMT, <1>2, <1>5, <2>3, <2>4
  <2>5. CASE ~(i <= m)
    <3>1. i - m \in 1 .. n - m
      BY SMT, <1>5, <2>5
    <3>2. s[i - m] = m + (i - m)
      BY <1>2, <3>1
    <3> QED
      BY SMT, <1>5, <2>3, <2>5, <3>2
  <2> QED
    BY <2>4, <2>5
<1>7. q = Prefix(n)
  <2>1. /\ Prefix(n) \in Seq(Nat) /\ Len(Prefix(n)) = n
        /\ \A i \in 1 .. n : Prefix(n)[i] = i
    BY PrefixFacts
  <2> QED
    BY <1>6, <2>1, ST!SeqEqual
<1> QED
  BY <1>2, <1>4, <1>7

-----------------------------------------------------------------------------
(* The repositories table *)

\* Of some numbers up to a bound one is the greatest.
LEMMA HasGreatest ==
    ASSUME NEW b \in Nat, NEW S \in SUBSET (0 .. b), S # {}
    PROVE  \E n \in S : \A m \in S : m <= n
<1> DEFINE Below == {b - m : m \in S}
<1>1. Below \subseteq Nat /\ Below # {}
  <2>1. \A m \in S : b - m \in Nat
    <3> TAKE m \in S
    <3>1. m \in 0 .. b
      OBVIOUS
    <3> QED
      BY SMT, <3>1
  <2> QED
    BY <2>1
<1>2. \E x \in Below : \A y \in Below : ~(y < x)
  <2>1. \A R1, X, T : WF!IsWellFoundedOn(R1, X) /\ T \subseteq X /\ T # {} =>
           \E x \in T : \A y \in T : ~(<<y, x>> \in R1)
    BY WF!WFMin, Zenon
  <2>2. WF!IsWellFoundedOn(WF!OpToRel(<, Nat), Nat)
    BY WF!NatLessThanWellFounded
  <2>3. \E x \in Below : \A y \in Below : ~(<<y, x>> \in WF!OpToRel(<, Nat))
    BY <1>1, <2>1, <2>2
  <2>4. \A x, y \in Nat : y < x => <<y, x>> \in WF!OpToRel(<, Nat)
    BY DEF WF!OpToRel
  <2> QED
    BY <1>1, <2>3, <2>4
<1>3. PICK n \in S : \A m \in S : ~(b - m < b - n)
  BY <1>2
<1>4. \A m \in S : m <= n
  <2> TAKE m \in S
  <2>1. m \in 0 .. b /\ n \in 0 .. b
    OBVIOUS
  <2> QED
    BY SMT, <1>3, <2>1
<1> QED
  BY <1>4

\* A fence is a pair of epochs.
LEMMA FenceFacts ==
    ASSUME NEW f \in Fences
    PROVE  f[1] \in 0 .. MaxEpoch /\ f[2] \in 0 .. MaxEpoch /\ f[1] \in Nat /\ f[2] \in Nat
<1>1. f \in (0 .. MaxEpoch) \X (0 .. MaxEpoch) /\ MaxEpoch \in Nat
  BY FencesAssumption
<1>2. f[1] \in 0 .. MaxEpoch /\ f[2] \in 0 .. MaxEpoch
  BY SMT, <1>1
<1> QED
  BY SMT, <1>1, <1>2

\* The order of fences is total.
LEMMA AheadFacts ==
    ASSUME NEW f \in Fences, NEW g \in Fences, NEW h \in Fences
    PROVE  ~Ahead(f, f) /\ (~Ahead(f, g) /\ ~Ahead(g, h) => ~Ahead(f, h))
<1>1. /\ f[1] \in Nat /\ f[2] \in Nat /\ g[1] \in Nat /\ g[2] \in Nat
      /\ h[1] \in Nat /\ h[2] \in Nat
  BY FenceFacts
<1>2. PICK f1 \in Nat, f2 \in Nat, g1 \in Nat, g2 \in Nat, h1 \in Nat, h2 \in Nat :
         f1 = f[1] /\ f2 = f[2] /\ g1 = g[1] /\ g2 = g[2] /\ h1 = h[1] /\ h2 = h[2]
  BY <1>1
<1> QED
  BY SMT, <1>2 DEF Ahead

\* Of some fences one has no other ahead of it: the greatest singleton epoch,
\* and with it the greatest lease epoch.
LEMMA HasWinner ==
    ASSUME NEW S \in SUBSET Fences, S # {}
    PROVE  \E f \in S : \A g \in S : ~Ahead(g, f)
<1> DEFINE singletons == {g[1] : g \in S}
<1>1. PICK n \in singletons : \A m \in singletons : m <= n
  <2>1. singletons \in SUBSET (0 .. MaxEpoch) /\ singletons # {} /\ MaxEpoch \in Nat
    BY FenceFacts, FencesAssumption
  <2> QED
    BY <2>1, HasGreatest
<1> DEFINE leases == {g[2] : g \in {x \in S : x[1] = n}}
<1>2. PICK k \in leases : \A m \in leases : m <= k
  <2>1. leases \in SUBSET (0 .. MaxEpoch) /\ leases # {} /\ MaxEpoch \in Nat
    BY FenceFacts, FencesAssumption
  <2> QED
    BY <2>1, HasGreatest
<1>3. PICK f \in S : f[1] = n /\ f[2] = k
  BY <1>2
<1>4. ASSUME NEW g \in S PROVE ~Ahead(g, f)
  <2>1. g[1] <= n /\ (g[1] = n => g[2] <= k)
    BY <1>1, <1>2
  <2>2. PICK g1 \in Nat, g2 \in Nat, f1 \in Nat, f2 \in Nat :
           g1 = g[1] /\ g2 = g[2] /\ f1 = f[1] /\ f2 = f[2]
    BY FenceFacts
  <2> QED
    BY SMT, <1>3, <2>1, <2>2 DEF Ahead
<1> QED
  BY <1>3, <1>4

\* What a table holds.
LEMMA TableFacts ==
    ASSUME NEW rows \in Tables
    PROVE  /\ rows \in [DOMAIN rows -> Row] /\ DOMAIN rows \subseteq Roots
           /\ \A r \in DOMAIN rows :
                 /\ rows[r].identity \in Identities
                 /\ rows[r].fence \in Fences /\ rows[r].runs \subseteq Fences
<1>1. PICK D \in SUBSET Roots : rows \in [D -> Row]
  BY DEF Tables
<1> QED
  BY <1>1 DEF Row

\* The authority that wins is ahead of or equal to every other.
LEMMA WinnerFacts ==
    ASSUME NEW rows \in Tables
    PROVE  Winner(rows) \in Fences /\ \A r \in DOMAIN rows : ~Ahead(rows[r].fence, Winner(rows))
<1> DEFINE S == {NoFence} \cup {rows[r].fence : r \in DOMAIN rows}
<1>1. S \in SUBSET Fences /\ S # {}
  BY TableFacts, FencesAssumption
<1>2. \E f \in S : \A g \in S : ~Ahead(g, f)
  BY <1>1, HasWinner
<1>3. \E f \in S : \A r \in DOMAIN rows : ~Ahead(rows[r].fence, f)
  BY <1>2
<1>4. Winner(rows) \in S /\ \A r \in DOMAIN rows : ~Ahead(rows[r].fence, Winner(rows))
  BY <1>3 DEF Winner
<1> QED
  BY <1>1, <1>4

\* The partial unique index on the identity.
OneExpected(rows) == \A r, s \in WithIdentity(rows, "expected") : r = s

\* The configured location alone, with the identity, is stable.
LEMMA OneRowIsStable ==
    ASSUME NEW table, DOMAIN table = {Here}, table[Here].identity = "expected"
    PROVE  Settled(table) /\ OneExpected(table)
<1>1. WithIdentity(table, "expected") = {Here} /\ WithIdentity(table, "other") = {}
  BY DEF WithIdentity
<1> QED
  BY <1>1 DEF Settled, Stable, OneExpected

\* What repository_identity_reconciliation_sql makes of a table.
LEMMA ReconciledFacts ==
    ASSUME NEW rows \in Tables, \A r \in DOMAIN rows : AuthorityCovers(rows[r])
    PROVE  /\ Reconciled(rows) \in Tables
           /\ Settled(Reconciled(rows)) /\ OneExpected(Reconciled(rows))
           /\ \A r \in DOMAIN Reconciled(rows) : AuthorityCovers(Reconciled(rows)[r])
<1> DEFINE all == UNION {rows[q].runs : q \in DOMAIN rows}
<1>1. all \subseteq Fences
  BY TableFacts
<1>2. PICK row : row = [identity |-> "expected", fence |-> Winner(rows), runs |-> all]
  OBVIOUS
<1>3. /\ row \in Row /\ row.identity = "expected" /\ row.fence = Winner(rows)
      /\ row.runs = all
  BY <1>1, <1>2, WinnerFacts DEF Row, Identities
<1>4. AuthorityCovers(row)
  <2> SUFFICES ASSUME NEW f \in all PROVE ~Ahead(f, Winner(rows))
    BY <1>3 DEF AuthorityCovers
  <2>1. PICK q \in DOMAIN rows : f \in rows[q].runs
    OBVIOUS
  <2>2. ~Ahead(f, rows[q].fence) /\ ~Ahead(rows[q].fence, Winner(rows))
    BY <2>1, WinnerFacts DEF AuthorityCovers
  <2>3. f \in Fences /\ rows[q].fence \in Fences /\ Winner(rows) \in Fences
    BY <1>1, TableFacts, WinnerFacts
  <2> QED
    BY <2>2, <2>3, AheadFacts
<1> HIDE DEF all
<1>5. PICK table : table = [r \in {Here} |-> row]
  OBVIOUS
<1>6. Reconciled(rows) = table
  BY <1>2, <1>5 DEF Reconciled, all
<1>7. table \in [{Here} -> Row] /\ DOMAIN table = {Here} /\ table[Here] = row
  BY <1>3, <1>5
<1>8. table \in Tables
  BY <1>7, Ordinals DEF Tables
<1> QED
  BY <1>3, <1>4, <1>6, <1>7, <1>8, OneRowIsStable

-----------------------------------------------------------------------------
(* The invariant of the upgrade *)

UpgradeSteps ==
    {"idle", "classify", "backup", "reconcile", "verify_identity", "forward_identity",
     "verify_prefix", "reconcile_before", "verify_before", "forward", "verify_ledger",
     "create", "compare", "bootstrap", "verify_adopted", "drop", "drop_failed", "roles"}
MovingForward ==
    {"forward_identity", "verify_prefix", "reconcile_before", "verify_before", "forward"}
Runs == [pc : UpgradeSteps, managed : BOOLEAN, applied : Migrations, needed : BOOLEAN,
         before : SUBSET Database, backup : SUBSET Database]

UpgradeTypes == db \in Database /\ configured \in BOOLEAN /\ run \in Runs

\* What the command knows of the ledger is true, or a late transaction has
\* taken the ledger further.
OnPrefix ==
    db.managed /\ run.applied <= db.ddl /\ db.ledger = Prefix(db.ddl)

\* The command has looked at the database as it is, or has a backup of how it
\* was, and comes to the removal of the legacy tables with settled rows.
RunInv ==
    /\ run.pc \in {"classify", "backup"} => run.before = {db}
    /\ run.pc \notin {"idle", "classify", "backup"} => run.backup = run.before
    /\ run.pc = "classify" => ~run.managed /\ ~run.needed
    /\ run.pc = "backup" /\ run.managed /\ ~run.needed => OnPrefix
    /\ run.pc \in MovingForward => OnPrefix
    /\ run.pc = "forward_identity" => run.applied < Identity
    /\ run.pc = "forward" /\ configured /\ db.ddl < Removal => Settled(db.rows)
    /\ run.pc = "bootstrap" => db.ddl = Newest

\* What is so while a transaction may be committed: an adoption was sent to an
\* exact schema, and missing migrations to a ledger that tells the schema, the
\* removal of the legacy tables with settled rows.
Sound(t) ==
    /\ t.does \in {"merge", "adopt", "advance"}
    /\ t.does = "adopt" => db.ddl = Newest
    /\ t.does = "advance" =>
          /\ t.from \in Migrations /\ t.to \in Migrations /\ t.from <= t.to
          /\ db.managed /\ db.ledger = Prefix(db.ddl)
          /\ configured /\ db.ddl < Removal /\ Removal <= t.to => Settled(db.rows)
LateInv == \A t \in late : Sound(t)

UpgradeInv ==
    /\ UpgradeTypes /\ LedgerTellsSchema /\ OneExpected(db.rows)
    /\ NoRunAheadOfAuthority /\ RunInv /\ LateInv

\* What one step may do to the database.
Guarded ==
    /\ run'.pc # "idle" /\ {db'} # run'.before => run'.backup = run'.before
    /\ configured /\ db.ddl < Removal /\ db'.ddl >= Removal => Settled(db'.rows)
UpgradeKeeps == UpgradeInv' /\ Guarded

\* The invariant says that the backup is there.
LEMMA BackupIsThere ==
    ASSUME UpgradeInv
    PROVE  run.pc # "idle" /\ {db} # run.before => run.backup = run.before
  BY DEF UpgradeInv, RunInv

\* A step that leaves the database alone.
LEMMA DatabaseAlone ==
    ASSUME UpgradeInv, UNCHANGED <<db, configured>>, run' \in Runs, RunInv', LateInv'
    PROVE  UpgradeKeeps
<1>1. UpgradeInv'
  BY DEF UpgradeInv, UpgradeTypes, LedgerTellsSchema, NoRunAheadOfAuthority
<1>2. Guarded
  <2>1. db.ddl \in 0 .. Newest
    BY DEF UpgradeInv, UpgradeTypes, Database
  <2> QED
    BY SMT, <1>1, <2>1, Ordinals DEF Guarded, UpgradeInv, RunInv
<1> QED
  BY <1>1, <1>2 DEF UpgradeKeeps

\* Nothing new is left behind, and the database is the same.
LEMMA LateAlone ==
    ASSUME UpgradeInv, UNCHANGED <<db, configured, late>>
    PROVE  LateInv'
  BY DEF UpgradeInv, LateInv, Sound, Prefix, Expected

\* What the command sends is sound, and what it leaves behind.
LEMMA SentIsSound ==
    ASSUME UpgradeInv, NEW t \in Sent PROVE Sound(t)
<1>1. run.applied \in Migrations /\ Identity \in Migrations /\ Newest \in Migrations
  BY SMT, Ordinals DEF UpgradeInv, UpgradeTypes, Runs, Migrations
<1>2. CASE t = Merge
  BY <1>2 DEF Merge, Sound
<1>3. CASE run.pc = "bootstrap" /\ t = Adopt
  BY <1>3 DEF Adopt, Sound, UpgradeInv, RunInv
<1>4. CASE run.pc = "forward_identity" /\ t = Advance(run.applied, Identity)
  <2>1. t.does = "advance" /\ t.from = run.applied /\ t.to = Identity
    BY <1>4 DEF Advance
  <2>2. OnPrefix /\ run.applied < Identity
    BY <1>4 DEF UpgradeInv, RunInv, MovingForward
  <2>3. run.applied <= Identity /\ ~(Removal <= Identity)
    BY SMT, <1>1, <2>2, Ordinals DEF Migrations
  <2> QED
    BY <1>1, <2>1, <2>2, <2>3 DEF Sound, OnPrefix
<1>5. CASE run.pc = "forward" /\ t = Advance(run.applied, Newest)
  <2>1. t.does = "advance" /\ t.from = run.applied /\ t.to = Newest
    BY <1>5 DEF Advance
  <2>2. OnPrefix /\ (configured /\ db.ddl < Removal => Settled(db.rows))
    BY <1>5 DEF UpgradeInv, RunInv, MovingForward
  <2>3. run.applied <= Newest
    BY SMT, <1>1, Ordinals DEF Migrations
  <2> QED
    BY <1>1, <2>1, <2>2, <2>3 DEF Sound, OnPrefix
<1> QED
  BY <1>2, <1>3, <1>4, <1>5 DEF Sent

LEMMA BehindIsSound ==
    ASSUME UpgradeInv, UNCHANGED <<db, configured>>, LeavesBehind
    PROVE  LateInv'
<1>1. \A t \in late' : Sound(t)
  BY SentIsSound DEF LeavesBehind, UpgradeInv, LateInv
<1> QED
  BY <1>1 DEF LateInv, Sound, Prefix, Expected

\* The command ends.
LEMMA UpgradeEnds ==
    ASSUME UpgradeInv, UNCHANGED <<db, configured>>, LateInv', NEW outcome, Ends(outcome)
    PROVE  UpgradeKeeps
<1>1. run' \in Runs /\ run'.pc = "idle"
  BY SMT, Ordinals DEF Ends, IdleRun, Runs, UpgradeSteps, Migrations
<1>2. RunInv'
  BY <1>1 DEF RunInv, MovingForward
<1> QED
  BY <1>1, <1>2, DatabaseAlone

\* The command goes to another step.
LEMMA AtMoves ==
    ASSUME run \in Runs, NEW pc \in UpgradeSteps, At(pc)
    PROVE  /\ run' \in Runs /\ run'.pc = pc
           /\ run'.managed = run.managed /\ run'.applied = run.applied
           /\ run'.needed = run.needed /\ run'.before = run.before
           /\ run'.backup = run.backup
  BY DEF At, Runs

\* The command starts, looks at the database and goes on from its backup.
LEMMA LookStep ==
    ASSUME UpgradeInv, Begin \/ BeginInSameSecond \/ Classify \/ Backup
    PROVE  UpgradeKeeps
<1>1. run \in Runs /\ db \in Database /\ UNCHANGED <<db, configured>> /\ LateInv'
  <2>1. UNCHANGED <<db, configured, late>>
    BY DEF Begin, BeginInSameSecond, Classify, Backup
  <2> QED
    BY <2>1, LateAlone DEF UpgradeInv, UpgradeTypes
<1>2. CASE Begin \/ BeginInSameSecond
  <2>1. run' = [IdleRun EXCEPT !.pc = "classify", !.before = {db}]
    BY <1>2 DEF Begin, BeginInSameSecond
  <2>2. /\ run' \in Runs /\ run'.pc = "classify" /\ run'.before = {db}
        /\ ~run'.managed /\ ~run'.needed
    <3>1. "classify" \in UpgradeSteps /\ 0 \in Migrations /\ {db} \subseteq Database
      BY SMT, <1>1, Ordinals DEF UpgradeSteps, Migrations
    <3>2. run' = [pc |-> "classify", managed |-> FALSE, applied |-> 0, needed |-> FALSE,
                  before |-> {db}, backup |-> {}]
      BY <2>1 DEF IdleRun
    <3> QED
      BY <3>1, <3>2 DEF Runs
  <2>3. RunInv'
    BY <1>1, <2>2 DEF RunInv, MovingForward
  <2> QED
    BY <1>1, <2>2, <2>3, DatabaseAlone
<1>3. CASE Classify
  <2>1. run.pc = "classify" /\ run.before = {db} /\ ~run.managed /\ ~run.needed
    BY <1>3 DEF Classify, UpgradeInv, RunInv
  <2>2. CASE \E outcome : Ends(outcome)
    BY <1>1, <2>2, UpgradeEnds
  <2>3. CASE run' = [run EXCEPT !.pc = "backup", !.managed = TRUE, !.needed = TRUE,
                                !.applied = Newest]
    <3>1. run' \in Runs /\ run'.pc = "backup" /\ run'.before = {db} /\ run'.needed
      <4>1. "backup" \in UpgradeSteps /\ Newest \in Migrations
        BY SMT, Ordinals DEF UpgradeSteps, Migrations
      <4> QED
        BY <1>1, <2>1, <2>3, <4>1 DEF Runs
    <3>2. RunInv'
      BY <1>1, <3>1 DEF RunInv, MovingForward
    <3> QED
      BY <1>1, <3>1, <3>2, DatabaseAlone
  <2>4. CASE /\ db.managed /\ IsProperPrefix(db.ledger)
             /\ run' = [run EXCEPT !.pc = "backup", !.managed = TRUE,
                                   !.applied = Len(db.ledger)]
    <3>1. db.ddl \in Migrations
      BY <1>1 DEF Database, Migrations
    <3>2. db.ledger # <<0>>
      <4>1. CASE db.ledger = <<0>>
        <5>1. Len(db.ledger) = 1 /\ 1 \in Migrations
          BY SMT, <4>1, Ordinals DEF Migrations
        <5>2. db.ledger = Prefix(1)
          BY <2>4, <5>1 DEF IsProperPrefix
        <5> QED
          BY <4>1, <5>1, <5>2, PrefixIsKnown
      <4> QED
        BY <4>1
    <3>3. db.ledger = Prefix(db.ddl)
      BY <2>4, <3>2 DEF UpgradeInv, LedgerTellsSchema
    <3>4. Len(db.ledger) = db.ddl
      BY <3>1, <3>3, PrefixFacts
    <3>5. /\ run' \in Runs /\ run'.pc = "backup" /\ run'.before = {db}
          /\ run'.managed /\ run'.applied = db.ddl
      <4>1. run' = [run EXCEPT !.pc = "backup", !.managed = TRUE, !.applied = db.ddl]
        BY <2>4, <3>4
      <4> QED
        BY <1>1, <2>1, <3>1, <4>1 DEF Runs, UpgradeSteps
    <3>6. db.ddl <= db.ddl
      BY SMT, <3>1, Ordinals DEF Migrations
    <3>7. RunInv'
      BY <1>1, <2>4, <3>3, <3>5, <3>6 DEF RunInv, MovingForward, OnPrefix
    <3> QED
      BY <1>1, <3>5, <3>7, DatabaseAlone
  <2>5. CASE At("backup")
    <3>1. /\ run' \in Runs /\ run'.pc = "backup" /\ run'.before = {db}
          /\ ~run'.managed
      BY <1>1, <2>1, <2>5, AtMoves DEF UpgradeSteps
    <3>2. RunInv'
      BY <1>1, <3>1 DEF RunInv, MovingForward
    <3> QED
      BY <1>1, <3>1, <3>2, DatabaseAlone
  <2> QED
    BY <1>3, <2>2, <2>3, <2>4, <2>5 DEF Classify
<1>4. CASE Backup
  <2>1. run.pc = "backup" /\ run.before = {db} /\ run' = [run EXCEPT !.pc = Route, !.backup = {db}]
    BY <1>4 DEF Backup, UpgradeInv, RunInv
  <2>2. Route \in {"reconcile", "create", "forward_identity", "reconcile_before", "forward"}
    BY DEF Route
  <2>3. /\ Route \in MovingForward => OnPrefix
        /\ Route = "forward_identity" => run.applied < Identity
        /\ Route = "forward" /\ configured => ~(db.ddl < Removal)
    <3>1. /\ Route \in MovingForward => OnPrefix
          /\ Route = "forward_identity" => run.applied < Identity
          /\ Route = "forward" /\ configured => ~(run.applied < Removal)
      BY <2>1 DEF Route, UpgradeInv, RunInv, MovingForward
    <3>2. run.applied \in Nat /\ db.ddl \in Nat
      BY SMT, <1>1, Ordinals DEF Runs, Database, Migrations
    <3>3. run.applied <= db.ddl /\ ~(run.applied < Removal) => ~(db.ddl < Removal)
      BY SMT, <3>2, Ordinals
    <3> QED
      BY <3>1, <3>3 DEF OnPrefix, MovingForward
  <2>4. PICK pc : pc = Route
    OBVIOUS
  <2>5. /\ run' \in Runs /\ run'.pc = pc /\ run'.applied = run.applied
        /\ run'.backup = run'.before
    BY <1>1, <2>1, <2>2, <2>4 DEF Runs, UpgradeSteps
  <2>6. RunInv'
    BY <1>1, <2>2, <2>3, <2>4, <2>5 DEF RunInv, MovingForward, OnPrefix
  <2> QED
    BY <1>1, <2>5, <2>6, DatabaseAlone
<1> QED
  BY <1>2, <1>3, <1>4

\* The looks at what a transaction left, the reference database and the end.
LEMMA VerifyStep ==
    ASSUME UpgradeInv,
           \/ VerifyIdentity \/ VerifyPrefix \/ VerifyBefore \/ VerifyLedger
           \/ Roles \/ CreateReference \/ Compare \/ VerifyAdopted
           \/ DropReference \/ UpgradeCallFails \/ Killed
    PROVE  UpgradeKeeps
<1>1. run \in Runs /\ UNCHANGED <<db, configured>> /\ LateInv'
  <2>1. UNCHANGED <<db, configured>> /\ (UNCHANGED late \/ LeavesBehind)
    BY DEF VerifyIdentity, VerifyPrefix, VerifyBefore, VerifyLedger, Roles, CreateReference,
           Compare, VerifyAdopted, DropReference, UpgradeCallFails, Killed
  <2> QED
    BY <2>1, LateAlone, BehindIsSound DEF UpgradeInv, UpgradeTypes
<1>2. CASE \E outcome : Ends(outcome)
  BY <1>1, <1>2, UpgradeEnds
<1>3. ASSUME NEW pc \in {"roles", "compare", "drop", "drop_failed"}, At(pc),
             run.pc \notin {"idle", "classify", "backup"}
      PROVE  UpgradeKeeps
  <2>1. run' \in Runs /\ run'.pc = pc /\ run'.before = run.before /\ run'.backup = run.backup
    BY <1>1, <1>3, AtMoves DEF UpgradeSteps
  <2>2. RunInv'
    BY <1>3, <2>1 DEF UpgradeInv, RunInv, MovingForward
  <2> QED
    BY <1>1, <2>1, <2>2, DatabaseAlone
<1>4. CASE run.pc = "compare" /\ db.ddl = Newest /\ At("bootstrap")
  <2>1. /\ run' \in Runs /\ run'.pc = "bootstrap" /\ run'.before = run.before
        /\ run'.backup = run.backup
    BY <1>1, <1>4, AtMoves DEF UpgradeSteps
  <2>2. RunInv'
    BY <1>1, <1>4, <2>1 DEF UpgradeInv, RunInv, MovingForward
  <2> QED
    BY <1>1, <2>1, <2>2, DatabaseAlone
<1>5. CASE run.pc = "verify_prefix" /\ At("reconcile_before")
  <2>1. /\ run' \in Runs /\ run'.pc = "reconcile_before" /\ run'.before = run.before
        /\ run'.backup = run.backup /\ run'.applied = run.applied
    BY <1>1, <1>5, AtMoves DEF UpgradeSteps
  <2>2. RunInv'
    BY <1>1, <1>5, <2>1 DEF UpgradeInv, RunInv, MovingForward, OnPrefix
  <2> QED
    BY <1>1, <2>1, <2>2, DatabaseAlone
<1>6. CASE run.pc = "verify_before" /\ Stable(db.rows) /\ At("forward")
  <2>1. /\ run' \in Runs /\ run'.pc = "forward" /\ run'.before = run.before
        /\ run'.backup = run.backup /\ run'.applied = run.applied
    BY <1>1, <1>6, AtMoves DEF UpgradeSteps
  <2>2. Settled(db.rows)
    BY <1>6 DEF Settled
  <2>3. RunInv'
    BY <1>1, <1>6, <2>1, <2>2 DEF UpgradeInv, RunInv, MovingForward, OnPrefix
  <2> QED
    BY <1>1, <2>1, <2>3, DatabaseAlone
<1>7. CASE VerifyIdentity \/ VerifyLedger \/ Roles \/ CreateReference
           \/ VerifyAdopted \/ DropReference
  BY <1>2, <1>3, <1>7
     DEF VerifyIdentity, VerifyLedger, Roles, CreateReference, VerifyAdopted,
         DropReference
<1>8. CASE VerifyPrefix \/ VerifyBefore \/ Compare
  BY <1>2, <1>3, <1>4, <1>5, <1>6, <1>8 DEF VerifyPrefix, VerifyBefore, Compare
<1>9. CASE UpgradeCallFails \/ Killed
  BY <1>2, <1>3, <1>9 DEF UpgradeCallFails, Killed
<1> QED
  BY <1>7, <1>8, <1>9

\* A transaction on the repositories table.
LEMMA RowsChange ==
    ASSUME UpgradeInv, NEW table \in Tables, db' = [db EXCEPT !.rows = table],
           UNCHANGED configured, late' \subseteq late, run' \in Runs, RunInv', OneExpected(table),
           \A r \in DOMAIN table : AuthorityCovers(table[r]),
           configured /\ Settled(db.rows) => Settled(table)
    PROVE  UpgradeKeeps
<1>1. db \in Database
  BY DEF UpgradeInv, UpgradeTypes
<1>2. /\ db' \in Database /\ db'.rows = table /\ db'.ddl = db.ddl
      /\ db'.managed = db.managed /\ db'.ledger = db.ledger
  BY <1>1 DEF Database
<1>3. LedgerTellsSchema' /\ NoRunAheadOfAuthority'
  BY <1>2 DEF UpgradeInv, LedgerTellsSchema, NoRunAheadOfAuthority, Prefix, Expected
<1>4. LateInv'
  BY <1>2 DEF UpgradeInv, LateInv, Sound, Prefix, Expected
<1>5. UpgradeInv'
  BY <1>2, <1>3, <1>4 DEF UpgradeInv, UpgradeTypes
<1>6. Guarded
  <2>1. db.ddl \in 0 .. Newest
    BY <1>1 DEF Database
  <2> QED
    BY SMT, <1>2, <1>5, <2>1, Ordinals DEF Guarded, UpgradeInv, RunInv
<1> QED
  BY <1>5, <1>6 DEF UpgradeKeeps

\* A transaction on the schema: the ledger tells the schema that is there now.
LEMMA SchemaChange ==
    ASSUME UpgradeInv, NEW n \in Migrations, db.ddl <= n, db' \in Database, db'.managed,
           db'.ddl = n, db'.rows = db.rows, db'.ledger = Prefix(n),
           UNCHANGED configured, late' \subseteq late, run' \in Runs, RunInv',
           configured /\ db.ddl < Removal /\ Removal <= n => Settled(db.rows)
    PROVE  UpgradeKeeps
<1>1. db.ddl \in Migrations
  BY DEF UpgradeInv, UpgradeTypes, Database, Migrations
<1>2. LedgerTellsSchema' /\ NoRunAheadOfAuthority'
  BY DEF UpgradeInv, LedgerTellsSchema, NoRunAheadOfAuthority, Prefix, Expected
<1>3. LateInv'
  <2>1. (n < Removal => db.ddl < Removal) /\ (db.ddl = Newest => n = Newest)
    BY SMT, <1>1, Ordinals DEF Migrations
  <2> QED
    BY <2>1 DEF UpgradeInv, LateInv, Sound, Prefix, Expected
<1>4. UpgradeInv'
  BY <1>2, <1>3 DEF UpgradeInv, UpgradeTypes
<1>5. Guarded
  <2>1. n >= Removal => Removal <= n
    BY SMT, Ordinals DEF Migrations
  <2> QED
    BY <1>4, <2>1 DEF Guarded, UpgradeInv, RunInv
<1> QED
  BY <1>4, <1>5 DEF UpgradeKeeps

\* What a sound transaction on the schema commits: the ledger has the rows of
\* the migrations that the database has.
LEMMA SchemaEffect ==
    ASSUME UpgradeInv, NEW t, Sound(t), t.does # "merge", Accepts(t), Commit(t)
    PROVE  \E n \in Migrations :
              /\ db.ddl <= n /\ db' \in Database /\ db'.managed /\ db'.ddl = n
              /\ db'.rows = db.rows /\ db'.ledger = Prefix(n)
              /\ configured /\ db.ddl < Removal /\ Removal <= n => Settled(db.rows)
              /\ t.does = "advance" => n = t.to
<1>1. db \in Database /\ db.ddl \in Migrations
  BY DEF UpgradeInv, UpgradeTypes, Database, Migrations
<1>2. \A n \in Migrations : Prefix(n) \in Ledgers
  BY DEF Ledgers, Migrations
<1>3. CASE t.does = "adopt"
  <2>1. /\ db.ddl = Newest /\ Newest \in Migrations /\ db.ddl <= Newest
        /\ ~(db.ddl < Removal)
    BY SMT, <1>1, <1>3, Ordinals DEF Sound, Migrations
  <2>2. db' = [db EXCEPT !.managed = TRUE, !.ledger = Prefix(Newest)]
    BY <1>3, WholeLedger DEF Commit
  <2>3. /\ db' \in Database /\ db'.managed /\ db'.ddl = Newest /\ db'.rows = db.rows
        /\ db'.ledger = Prefix(Newest)
    BY <1>1, <1>2, <2>1, <2>2 DEF Database
  <2> QED
    BY <1>3, <2>1, <2>3
<1>4. CASE t.does = "advance"
  <2>1. /\ t.from \in Migrations /\ t.to \in Migrations /\ t.from <= t.to
        /\ db.managed /\ db.ledger = Prefix(db.ddl) /\ Len(db.ledger) = t.from
        /\ configured /\ db.ddl < Removal /\ Removal <= t.to => Settled(db.rows)
    BY <1>4 DEF Sound, Accepts
  <2>2. db.ddl = t.from
    BY <1>1, <2>1, PrefixFacts
  <2>3. PICK entries : entries = db.ledger \o SubSeq(Expected, t.from + 1, t.to)
    OBVIOUS
  <2>4. entries = Prefix(t.to)
    <3>1. PICK m \in Migrations, n \in Migrations : m = t.from /\ n = t.to /\ m <= n
      BY <2>1
    <3>2. Prefix(m) \o SubSeq(Expected, m + 1, n) = Prefix(n)
      BY <3>1, ForwardLedger
    <3>3. db.ledger = Prefix(m)
      BY <2>1, <2>2, <3>1
    <3> QED
      BY <2>3, <3>1, <3>2, <3>3
  <2>5. db' = [db EXCEPT !.ledger = entries, !.ddl = t.to]
    BY <1>4, <2>3 DEF Commit
  <2>6. t.to \in 0 .. Newest /\ Prefix(t.to) \in Ledgers
    BY <1>2, <2>1 DEF Migrations
  <2>7. /\ db' \in Database /\ db'.managed /\ db'.ddl = t.to /\ db'.rows = db.rows
        /\ db'.ledger = Prefix(t.to)
    BY <1>1, <2>1, <2>4, <2>5, <2>6 DEF Database
  <2> QED
    BY <2>1, <2>2, <2>7
<1> QED
  BY <1>3, <1>4 DEF Sound

\* The reconciliation to one stable identity, before and after the removal.
LEMMA ReconcileStep ==
    ASSUME UpgradeInv, Reconcile \/ ReconcileBefore
    PROVE  UpgradeKeeps
<1>1. /\ run \in Runs /\ db \in Database /\ db.rows \in Tables
      /\ UNCHANGED <<configured, late>>
  BY DEF UpgradeInv, UpgradeTypes, Database, Reconcile, ReconcileBefore
<1>2. PICK table \in Tables :
         /\ table = Reconciled(db.rows) /\ OneExpected(table) /\ Settled(table)
         /\ \A r \in DOMAIN table : AuthorityCovers(table[r])
  BY <1>1, ReconciledFacts DEF UpgradeInv, NoRunAheadOfAuthority
<1>3. Commit(Merge) => db' = [db EXCEPT !.rows = table]
  BY <1>2 DEF Commit, Merge
<1>4. ASSUME NEW pc \in {"verify_identity", "verify_before"},
             db' = [db EXCEPT !.rows = table], At(pc),
             run.pc = IF pc = "verify_before" THEN "reconcile_before" ELSE "reconcile"
      PROVE  UpgradeKeeps
  <2>1. /\ run' \in Runs /\ run'.pc = pc /\ run'.before = run.before
        /\ run'.backup = run.backup /\ run'.applied = run.applied
    BY <1>1, <1>4, AtMoves DEF UpgradeSteps
  <2>2. db'.managed = db.managed /\ db'.ddl = db.ddl /\ db'.ledger = db.ledger
    BY <1>1, <1>4 DEF Database
  <2>3. pc = "verify_before" => OnPrefix'
    BY <1>4, <2>1, <2>2 DEF UpgradeInv, RunInv, OnPrefix, MovingForward, Prefix, Expected
  <2>4. RunInv'
    BY <1>4, <2>1, <2>3 DEF UpgradeInv, RunInv, MovingForward
  <2> QED
    BY <1>1, <1>2, <1>4, <2>1, <2>4, RowsChange
<1>5. CASE Reconcile
  BY <1>3, <1>4, <1>5 DEF Reconcile
<1>6. CASE ReconcileBefore
  <2>1. CASE Ends("diverged") /\ UNCHANGED db
    BY <1>1, <2>1, LateAlone, UpgradeEnds
  <2>2. CASE Settled(db.rows) /\ At("forward") /\ UNCHANGED db
    <3>1. /\ run' \in Runs /\ run'.pc = "forward" /\ run'.before = run.before
          /\ run'.backup = run.backup /\ run'.applied = run.applied
      BY <1>1, <2>2, AtMoves DEF UpgradeSteps
    <3>2. RunInv'
      BY <1>1, <1>6, <2>2, <3>1
         DEF ReconcileBefore, UpgradeInv, RunInv, MovingForward, OnPrefix
    <3> QED
      BY <1>1, <2>2, <3>1, <3>2, LateAlone, DatabaseAlone
  <2>3. CASE Commit(Merge) /\ At("verify_before")
    BY <1>3, <1>4, <1>6, <2>3 DEF ReconcileBefore
  <2> QED
    BY <1>6, <2>1, <2>2, <2>3 DEF ReconcileBefore
<1> QED
  BY <1>5, <1>6

\* apply_forward_schema, and the adoption of a database that has it all.
LEMMA ForwardStep ==
    ASSUME UpgradeInv, ForwardIdentity \/ Forward \/ Bootstrap
    PROVE  UpgradeKeeps
<1>1. run \in Runs /\ UNCHANGED <<configured, late>>
  BY DEF UpgradeInv, UpgradeTypes, ForwardIdentity, Forward, Bootstrap
<1>2. CASE UNCHANGED db /\ Ends("failed")
  BY <1>1, <1>2, LateAlone, UpgradeEnds
<1>3. CASE ForwardIdentity /\ ~(UNCHANGED db /\ Ends("failed"))
  <2> DEFINE t == Advance(run.applied, Identity)
  <2>1. /\ run.pc = "forward_identity" /\ Accepts(t) /\ Commit(t)
        /\ run' = [run EXCEPT !.pc = "verify_prefix", !.applied = Identity]
    BY <1>3 DEF ForwardIdentity
  <2>2. t \in Sent /\ t.does = "advance" /\ t.to = Identity
    BY <2>1 DEF Sent, Advance
  <2>3. PICK n \in Migrations :
           /\ db.ddl <= n /\ db' \in Database /\ db'.managed /\ db'.ddl = n
           /\ db'.rows = db.rows /\ db'.ledger = Prefix(n)
           /\ configured /\ db.ddl < Removal /\ Removal <= n => Settled(db.rows)
           /\ n = Identity
    <3>1. Sound(t)
      BY <2>2, SentIsSound
    <3> HIDE DEF t
    <3> QED
      BY <2>1, <2>2, <3>1, SchemaEffect
  <2>4. /\ run' \in Runs /\ run'.pc = "verify_prefix" /\ run'.applied = Identity
        /\ run'.before = run.before /\ run'.backup = run.backup
    BY <1>1, <2>1, <2>3 DEF Runs, UpgradeSteps
  <2>5. OnPrefix'
    <3>1. Identity <= Identity
      BY SMT, Ordinals
    <3> QED
      BY <2>3, <2>4, <3>1 DEF OnPrefix, Prefix, Expected
  <2>6. RunInv'
    BY <2>1, <2>4, <2>5 DEF UpgradeInv, RunInv, MovingForward
  <2> HIDE DEF t
  <2> QED
    BY <1>1, <2>3, <2>4, <2>6, SchemaChange
<1>4. CASE Forward /\ ~(UNCHANGED db /\ Ends("failed"))
  <2> DEFINE t == Advance(run.applied, Newest)
  <2>1. run.pc = "forward" /\ Accepts(t) /\ Commit(t) /\ At("verify_ledger")
    BY <1>4 DEF Forward
  <2>2. t \in Sent /\ t.does = "advance" /\ t.to = Newest
    BY <2>1 DEF Sent, Advance
  <2>3. PICK n \in Migrations :
           /\ db.ddl <= n /\ db' \in Database /\ db'.managed /\ db'.ddl = n
           /\ db'.rows = db.rows /\ db'.ledger = Prefix(n)
           /\ configured /\ db.ddl < Removal /\ Removal <= n => Settled(db.rows)
    <3>1. Sound(t)
      BY <2>2, SentIsSound
    <3> HIDE DEF t
    <3> QED
      BY <2>1, <2>2, <3>1, SchemaEffect
  <2>4. /\ run' \in Runs /\ run'.pc = "verify_ledger"
        /\ run'.before = run.before /\ run'.backup = run.backup
    BY <1>1, <2>1, AtMoves DEF UpgradeSteps
  <2>5. RunInv'
    BY <2>1, <2>4 DEF UpgradeInv, RunInv, MovingForward
  <2> HIDE DEF t
  <2> QED
    BY <1>1, <2>3, <2>4, <2>5, SchemaChange
<1>5. CASE Bootstrap
  <2>1. run.pc = "bootstrap"
    BY <1>5 DEF Bootstrap
  <2>2. CASE UNCHANGED db /\ At("drop_failed")
    <3>1. /\ run' \in Runs /\ run'.pc = "drop_failed"
          /\ run'.before = run.before /\ run'.backup = run.backup
      BY <1>1, <2>2, AtMoves DEF UpgradeSteps
    <3>2. RunInv'
      BY <2>1, <3>1 DEF UpgradeInv, RunInv, MovingForward
    <3> QED
      BY <1>1, <2>2, <3>1, <3>2, LateAlone, DatabaseAlone
  <2>3. CASE Accepts(Adopt) /\ Commit(Adopt) /\ At("verify_adopted")
    <3>1. Adopt \in Sent /\ Adopt.does = "adopt"
      BY <2>1 DEF Sent, Adopt
    <3>2. PICK n \in Migrations :
             /\ db.ddl <= n /\ db' \in Database /\ db'.managed /\ db'.ddl = n
             /\ db'.rows = db.rows /\ db'.ledger = Prefix(n)
             /\ configured /\ db.ddl < Removal /\ Removal <= n => Settled(db.rows)
      BY <2>3, <3>1, SentIsSound, SchemaEffect
    <3>3. /\ run' \in Runs /\ run'.pc = "verify_adopted"
          /\ run'.before = run.before /\ run'.backup = run.backup
      BY <1>1, <2>3, AtMoves DEF UpgradeSteps
    <3>4. RunInv'
      BY <2>1, <3>3 DEF UpgradeInv, RunInv, MovingForward
    <3> QED
      BY <1>1, <3>2, <3>3, <3>4, SchemaChange
  <2> QED
    BY <1>5, <2>2, <2>3 DEF Bootstrap
<1> QED
  BY <1>2, <1>3, <1>4, <1>5

\* A transaction that was left behind commits, or is refused.
LEMMA LeftBehindStep ==
    ASSUME UpgradeInv, LateCommits PROVE UpgradeKeeps
<1>1. run \in Runs /\ db \in Database /\ db.rows \in Tables /\ UNCHANGED configured
  BY DEF UpgradeInv, UpgradeTypes, Database, LateCommits
<1>2. PICK t \in late :
         /\ late' = late \ {t}
         /\ IF Accepts(t) THEN Commit(t) ELSE UNCHANGED db
         /\ run' = [run EXCEPT !.before = IF run.pc \in {"classify", "backup"} THEN {db'}
                                                                           ELSE run.before]
  BY DEF LateCommits
<1>3. Sound(t) /\ late' \subseteq late
  BY <1>2 DEF UpgradeInv, LateInv
<1>4. ASSUME db' \in Database
      PROVE  /\ run' \in Runs /\ run'.pc = run.pc /\ run'.managed = run.managed
             /\ run'.applied = run.applied /\ run'.needed = run.needed
             /\ run'.backup = run.backup
             /\ run.pc \in {"classify", "backup"} => run'.before = {db'}
             /\ run.pc \notin {"classify", "backup"} => run'.before = run.before
  <2>1. PICK before \in SUBSET Database :
           /\ run' = [run EXCEPT !.before = before]
           /\ run.pc \in {"classify", "backup"} => before = {db'}
           /\ run.pc \notin {"classify", "backup"} => before = run.before
    <3>1. run.before \in SUBSET Database
      BY <1>1 DEF Runs
    <3>2. CASE run.pc \in {"classify", "backup"}
      BY <1>2, <1>4, <3>2
    <3>3. CASE run.pc \notin {"classify", "backup"}
      BY <1>2, <3>1, <3>3
    <3> QED
      BY <3>2, <3>3
  <2> QED
    BY <1>1, <2>1 DEF Runs
<1>5. CASE UNCHANGED db
  <2>1. RunInv'
    BY <1>1, <1>4, <1>5 DEF UpgradeInv, RunInv, MovingForward, OnPrefix
  <2>2. LateInv'
    BY <1>1, <1>3, <1>5 DEF UpgradeInv, LateInv, Sound, Prefix, Expected
  <2> QED
    BY <1>1, <1>4, <1>5, <2>1, <2>2, DatabaseAlone
<1>6. CASE t.does = "merge" /\ Commit(t)
  <2>1. PICK table \in Tables :
           /\ table = Reconciled(db.rows) /\ OneExpected(table) /\ Settled(table)
           /\ \A r \in DOMAIN table : AuthorityCovers(table[r])
    BY <1>1, ReconciledFacts DEF UpgradeInv, NoRunAheadOfAuthority
  <2>2. db' = [db EXCEPT !.rows = table]
    BY <1>6, <2>1 DEF Commit
  <2>3. /\ db' \in Database /\ db'.rows = table /\ db'.ddl = db.ddl
        /\ db'.managed = db.managed /\ db'.ledger = db.ledger
    BY <1>1, <2>2 DEF Database
  <2>4. OnPrefix => OnPrefix'
    BY <1>4, <2>3 DEF OnPrefix, Prefix, Expected
  <2>5. RunInv'
    BY <1>1, <1>4, <2>1, <2>3, <2>4 DEF UpgradeInv, RunInv
  <2> QED
    BY <1>1, <1>3, <1>4, <2>1, <2>2, <2>3, <2>5, RowsChange
<1>7. CASE t.does # "merge" /\ Accepts(t) /\ Commit(t)
  <2>1. PICK n \in Migrations :
           /\ db.ddl <= n /\ db' \in Database /\ db'.managed /\ db'.ddl = n
           /\ db'.rows = db.rows /\ db'.ledger = Prefix(n)
           /\ configured /\ db.ddl < Removal /\ Removal <= n => Settled(db.rows)
    BY <1>3, <1>7, SchemaEffect
  <2>2. /\ run.applied <= db.ddl => run.applied <= n
        /\ n < Removal => db.ddl < Removal
        /\ db.ddl = Newest => n = Newest
    BY SMTT(20), <1>1, <2>1, Ordinals DEF Runs, Database, Migrations
  <2>3. OnPrefix => OnPrefix'
    BY <1>4, <2>1, <2>2 DEF OnPrefix, Prefix, Expected
  <2>4. RunInv'
    BY <1>1, <1>4, <2>1, <2>2, <2>3 DEF UpgradeInv, RunInv
  <2> QED
    BY <1>1, <1>3, <1>4, <2>1, <2>4, SchemaChange
<1> QED
  BY <1>2, <1>5, <1>6, <1>7

\* A refresh between two commands: the row it finds takes the configured
\* location, and the others stay.
LEMMA RefreshStep ==
    ASSUME UpgradeInv, Refresh
    PROVE  UpgradeKeeps
<1> DEFINE rows == db.rows
           mine == IF configured THEN WithIdentity(rows, "expected")
                   ELSE {Here} \cap DOMAIN rows
           was == IF mine = {} THEN NewRow ELSE rows[CHOOSE r \in mine : TRUE]
           stays == DOMAIN rows \ mine
           table(row) == [r \in stays \cup {Here} |-> IF r = Here THEN row ELSE rows[r]]
<1>1. /\ run \in Runs /\ run.pc = "idle" /\ rows \in Tables /\ OneExpected(rows)
      /\ configured \in BOOLEAN /\ UNCHANGED <<configured, run, late>> /\ Here \notin stays
      /\ \E row \in RefreshRow(was) : db' = [db EXCEPT !.rows = table(row)]
  BY DEF Refresh, UpgradeInv, UpgradeTypes, Database
<1>2. PICK row \in RefreshRow(was) : db' = [db EXCEPT !.rows = table(row)]
  BY <1>1
<1>3. mine \subseteq DOMAIN rows /\ \A r, s \in mine : r = s
  BY <1>1 DEF OneExpected, WithIdentity
<1>4. /\ was \in Row /\ AuthorityCovers(was)
      /\ \A r \in mine : was = rows[r]
      /\ mine = {} => was.identity = "none"
  <2>1. CASE mine = {}
    BY <2>1, FencesAssumption DEF NewRow, Row, Identities, AuthorityCovers
  <2>2. CASE mine # {}
    <3>1. PICK r \in mine : TRUE
      BY <2>2
    <3>2. (CHOOSE x \in mine : TRUE) = r
      BY <1>3, <3>1
    <3>3. was = rows[r] /\ rows[r] \in Row
      BY ZenonT(40), <1>1, <1>3, <2>2, <3>2, TableFacts
    <3>4. AuthorityCovers(rows[r])
      BY <1>3, <3>1 DEF UpgradeInv, NoRunAheadOfAuthority
    <3> QED
      BY <1>3, <2>2, <3>3, <3>4
  <2> QED
    BY <2>1, <2>2
<1> HIDE DEF was
<1>5. /\ row \in Row /\ AuthorityCovers(row)
      /\ row.identity = IF configured THEN "expected" ELSE was.identity
  <2>1. PICK id \in Identities : id = IF configured THEN "expected" ELSE was.identity
    BY <1>4 DEF Row, Identities
  <2>2. was.fence \in Fences /\ was.runs \subseteq Fences
    BY <1>4 DEF Row
  <2>3. CASE row = [was EXCEPT !.identity = id]
    BY <1>4, <2>1, <2>3 DEF Row, AuthorityCovers
  <2>4. ASSUME NEW f \in Fences, ~Ahead(was.fence, f),
               row = [identity |-> id, fence |-> f, runs |-> was.runs \cup {f}]
        PROVE  /\ row \in Row /\ AuthorityCovers(row) /\ row.identity = id
    <3>1. row \in Row /\ row.identity = id /\ row.fence = f /\ row.runs = was.runs \cup {f}
      BY <2>2, <2>4 DEF Row
    <3>2. \A g \in was.runs \cup {f} : ~Ahead(g, f)
      BY <1>4, <2>2, <2>4, AheadFacts DEF AuthorityCovers
    <3> QED
      BY <3>1, <3>2 DEF AuthorityCovers
  <2> QED
    BY <2>1, <2>3, <2>4 DEF RefreshRow
<1> HIDE DEF mine
<1>6. PICK after : after = table(row)
  OBVIOUS
<1>7. /\ DOMAIN after = stays \cup {Here} /\ after[Here] = row
      /\ \A r \in stays : r # Here /\ after[r] = rows[r]
  BY <1>1, <1>6
<1>8. after \in Tables
  <2>1. \A r \in stays \cup {Here} : after[r] \in Row
    BY <1>1, <1>5, <1>7, TableFacts
  <2>2. stays \cup {Here} \in SUBSET Roots
    BY <1>1, Ordinals, TableFacts
  <2>3. after \in [stays \cup {Here} -> Row]
    BY <1>6, <1>7, <2>1
  <2> QED
    BY <2>2, <2>3 DEF Tables
<1>9. OneExpected(after)
  <2>1. CASE configured
    <3>1. \A r \in stays : rows[r].identity # "expected"
      BY <2>1 DEF mine, WithIdentity
    <3> QED
      BY <1>7, <3>1 DEF OneExpected, WithIdentity
  <2>2. CASE ~configured
    <3>1. row.identity = "expected" =>
             Here \in DOMAIN rows /\ rows[Here].identity = "expected"
      BY <1>4, <1>5, <2>2 DEF mine
    <3> QED
      BY <1>1, <1>7, <3>1 DEF OneExpected, WithIdentity
  <2> QED
    BY <2>1, <2>2
<1>10. \A r \in DOMAIN after : AuthorityCovers(after[r])
  BY <1>5, <1>7 DEF UpgradeInv, NoRunAheadOfAuthority
<1>11. ASSUME configured, Settled(rows) PROVE Settled(after)
  <2>1. stays = {}
    <3>1. CASE DOMAIN rows = {}
      BY <3>1
    <3>2. CASE Stable(rows)
      BY <1>11, <3>2 DEF mine, Stable
    <3> QED
      BY <1>11, <3>1, <3>2 DEF Settled
  <2>2. DOMAIN after = {Here} /\ after[Here].identity = "expected"
    BY <1>5, <1>7, <1>11, <2>1
  <2> QED
    BY <2>2, OneRowIsStable
<1>12. RunInv'
  BY <1>1 DEF RunInv, MovingForward
<1> QED
  BY <1>1, <1>2, <1>6, <1>8, <1>9, <1>10, <1>11, <1>12, RowsChange

\* A database of any age, as older releases leave it, and no command.
LEMMA UpgradeInitially ==
    ASSUME UpgradeInit PROVE UpgradeInv
<1>1. run = IdleRun /\ configured \in BOOLEAN /\ late = {}
  BY DEF UpgradeInit
<1>2. run \in Runs /\ run.pc = "idle"
  BY SMT, <1>1, Ordinals DEF IdleRun, Runs, UpgradeSteps, Migrations
<1>3. RunInv
  BY <1>2 DEF RunInv, MovingForward
<1>4. PICK ddl \in 1 .. Newest : \E rows \in RowsAt(ddl) :
         db \in {[managed |-> TRUE, ledger |-> Prefix(ddl), ddl |-> ddl, rows |-> rows],
                 [managed |-> TRUE, ledger |-> <<0>>, ddl |-> ddl, rows |-> rows],
                 [managed |-> FALSE, ledger |-> <<>>, ddl |-> ddl, rows |-> rows]}
  BY DEF UpgradeInit
<1>5. PICK rows \in RowsAt(ddl) :
         db \in {[managed |-> TRUE, ledger |-> Prefix(ddl), ddl |-> ddl, rows |-> rows],
                 [managed |-> TRUE, ledger |-> <<0>>, ddl |-> ddl, rows |-> rows],
                 [managed |-> FALSE, ledger |-> <<>>, ddl |-> ddl, rows |-> rows]}
  BY <1>4
<1>6. /\ rows \in Tables /\ OneExpected(rows)
      /\ \A r \in DOMAIN rows : AuthorityCovers(rows[r])
  BY DEF RowsAt, OneExpected, Identities
<1>7. /\ ddl \in 0 .. Newest /\ Prefix(ddl) \in Ledgers /\ <<0>> \in Ledgers
      /\ <<>> \in Ledgers
  <2>1. ddl \in Migrations /\ 0 \in Migrations
    BY SMT, Ordinals DEF Migrations
  <2>2. Prefix(0) = <<>>
    BY SMT, <2>1, PrefixFacts
  <2>3. Prefix(ddl) \in Ledgers /\ Prefix(0) \in Ledgers /\ <<0>> \in Ledgers
    BY <2>1 DEF Ledgers, Migrations
  <2> QED
    BY <2>1, <2>2, <2>3 DEF Migrations
<1>8. /\ db \in Database /\ db.rows = rows /\ db.ddl = ddl
      /\ db.managed => db.ledger \in {Prefix(ddl), <<0>>}
  <2>1. PICK managed \in BOOLEAN, entries \in Ledgers :
           /\ db = [managed |-> managed, ledger |-> entries, ddl |-> ddl, rows |-> rows]
           /\ managed => entries \in {Prefix(ddl), <<0>>}
    <3>1. CASE db = [managed |-> TRUE, ledger |-> Prefix(ddl), ddl |-> ddl, rows |-> rows]
      BY <1>7, <3>1
    <3>2. CASE db = [managed |-> TRUE, ledger |-> <<0>>, ddl |-> ddl, rows |-> rows]
      BY <1>7, <3>2
    <3>3. CASE db = [managed |-> FALSE, ledger |-> <<>>, ddl |-> ddl, rows |-> rows]
      BY <1>7, <3>3
    <3> QED
      BY <1>5, <3>1, <3>2, <3>3
  <2> QED
    BY <1>6, <1>7, <2>1 DEF Database
<1> QED
  BY <1>1, <1>2, <1>3, <1>6, <1>8
     DEF UpgradeInv, UpgradeTypes, LedgerTellsSchema, NoRunAheadOfAuthority, LateInv

\* Every step of the command, every fault and every refresh.
LEMMA UpgradeStep ==
    ASSUME UpgradeInv, UpgradeNext PROVE UpgradeKeeps
<1>1. CASE Begin \/ BeginInSameSecond \/ Classify \/ Backup
  BY <1>1, LookStep
<1>2. CASE \/ VerifyIdentity \/ VerifyPrefix \/ VerifyBefore \/ VerifyLedger
           \/ Roles \/ CreateReference \/ Compare \/ VerifyAdopted
           \/ DropReference \/ UpgradeCallFails \/ Killed
  BY <1>2, VerifyStep
<1>3. CASE Reconcile \/ ReconcileBefore
  BY <1>3, ReconcileStep
<1>4. CASE ForwardIdentity \/ Forward \/ Bootstrap
  BY <1>4, ForwardStep
<1>5. CASE Refresh
  BY <1>5, RefreshStep
<1>6. CASE LateCommits
  BY <1>6, LeftBehindStep
<1> QED
  BY <1>1, <1>2, <1>3, <1>4, <1>5, <1>6 DEF UpgradeNext, Command

\* The upgrade keeps its invariant.
THEOREM UpgradeInvariant == UpgradeSpec => []UpgradeInv
<1>1. UpgradeInv /\ [UpgradeNext]_upgrading => UpgradeInv'
  <2> SUFFICES ASSUME UpgradeInv, [UpgradeNext]_upgrading
      PROVE  UpgradeInv'
    OBVIOUS
  <2>1. CASE UNCHANGED upgrading
    BY ZenonT(40), <2>1
       DEF upgrading, UpgradeInv, UpgradeTypes, LedgerTellsSchema, Prefix, Expected,
           OneExpected, RunInv, OnPrefix, NoRunAheadOfAuthority, LateInv, Sound
  <2> QED
    BY <2>1, UpgradeStep DEF UpgradeKeeps
<1> QED
  BY <1>1, UpgradeInitially, PTL DEF UpgradeSpec

\* The ledger says exactly which DDL the database has, after adoption, after a
\* failed command and after a killed one, for any number of migrations and
\* wherever the identity and the removal migrations are among them.
THEOREM LedgerStaysTrue == UpgradeSpec => []LedgerTellsSchema
<1>1. UpgradeInv => LedgerTellsSchema
  BY DEF UpgradeInv, LedgerTellsSchema
<1> QED
  BY <1>1, UpgradeInvariant, PTL

\* Whatever the upgrade has changed, its backup holds the database as it was
\* when the command began, and the legacy tables of a configured database are
\* only ever removed with settled rows (rollback_available,
\* reconcile_repository_identity_before_removal).
THEOREM ChangesStayGuarded == UpgradeSpec => ChangesAreGuarded
<1>1. UpgradeInv /\ [UpgradeNext]_upgrading => [Guarded]_upgrading
  BY UpgradeStep DEF UpgradeKeeps
<1>2. UpgradeSpec => [][Guarded]_upgrading
  BY <1>1, UpgradeInvariant, PTL DEF UpgradeSpec
<1>3. ChangesAreGuarded <=> [][Guarded]_upgrading
  BY DEF ChangesAreGuarded, Guarded, upgrading
<1> QED
  BY <1>2, <1>3, PTL

\* The publication authority of a repository is never behind the fence of a run
\* that was published under it: rows whose epochs are in any order merge to the
\* greatest pair, singleton epoch first, whatever the epochs are, and a refresh
\* publishes no older fence (repository_identity_reconciliation_sql,
\* publication_authority_locks_sql).
THEOREM AuthorityStaysAhead == UpgradeSpec => []NoRunAheadOfAuthority
<1>1. UpgradeInv => NoRunAheadOfAuthority
  BY DEF UpgradeInv
<1> QED
  BY <1>1, UpgradeInvariant, PTL
=============================================================================
