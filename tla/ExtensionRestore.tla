--------------------------- MODULE ExtensionRestore ---------------------------
(***************************************************************************)
(* Restores of a set of databases with extensions:                         *)
(* preflight_extension_v2_restore_set, execute_extension_v2_restore_set    *)
(* and their compensation (runtime/_extension_restore_preflight.py,        *)
(* _extension_restore_lifecycle.py, _extension_restore_compensation.py,    *)
(* _extension_restore_custody.py).  Each invocation creates its targets in *)
(* order, holds and stamps each, fills it, and clears all stamps at the    *)
(* end; on a failure it drops in reverse order what it can prove to be its *)
(* own and keeps an intent ledger for the rest.  A container command ends  *)
(* settled (what it did is done) or unsettled: then it is refused to go on *)
(* and the command may still take effect later (see ContainerExec).        *)
(*                                                                         *)
(* Data: a database is known by who created it; its content is whole or    *)
(* not.  The other actor creates and drops databases of its own: the       *)
(* contract makes no promise against one that drops a target between its   *)
(* creation and the lock on it and puts another in its place.  Commands    *)
(* that only observe are in the failures of the step they belong to.       *)
(***************************************************************************)
EXTENDS Naturals, Sequences

CONSTANTS
    Invocations,    \* runs of the restore command
    Order,          \* restore_order, a sequence of databases
    RestoreFaults   \* what each may meet: "fail", "unsettled", "kill",
                    \* "interrupt", "session", "disk"

\* The names of a set are distinct, and no other actor is an invocation.
ASSUME RestoreAssumption ==
    /\ Order \in Seq({Order[n] : n \in DOMAIN Order}) /\ Order # <<>>
    /\ \A m, n \in DOMAIN Order : Order[m] = Order[n] => m = n
    /\ {Order[n] : n \in DOMAIN Order} \cap {"window"} = {}
    /\ Invocations \cap {"none", "other"} = {}

VARIABLES
    dbs,        \* database -> [owner, stamp, whole, was, by]
    inv,        \* invocation -> [at, k, diags, unknown, interrupted]
    intents,    \* invocation -> database -> the intent's state and oid
    custody,    \* invocation -> "window" and databases -> "no", "held", "lost"
    ledger,     \* invocation -> database -> its state in intents.json, or NoLedger
    record,     \* invocations that left an execution record
    pending     \* commands that may still take effect: [by, does, on]

restoring == <<dbs, inv, intents, custody, ledger, record, pending>>

Targets == {Order[n] : n \in DOMAIN Order}
None == "none"
Other == "other"
Absent == [owner |-> None, stamp |-> None, whole |-> FALSE, was |-> None, by |-> None]
Made(who) == [owner |-> who, stamp |-> None, whole |-> who = Other, was |-> who, by |-> who]

Terminal == {"not_created", "completed", "cleaned"}
NoLedger == [t \in Targets |-> None]
Retained == {"outcome_unknown", "created_unheld"}
Ended == {"refused", "failed", "success", "killed"}

RestoreInit ==
    /\ dbs = [t \in Targets |-> Absent]
    /\ inv = [i \in Invocations |-> [at |-> "new", k |-> 1, diags |-> FALSE,
                                     unknown |-> FALSE, interrupted |-> FALSE]]
    /\ intents = [i \in Invocations |->
                     [t \in Targets |-> [state |-> "not_created", oid |-> FALSE]]]
    /\ custody = [i \in Invocations |-> [x \in Targets \cup {"window"} |-> "no"]]
    /\ ledger = [i \in Invocations |-> NoLedger]
    /\ record = {} /\ pending = {}

-----------------------------------------------------------------------------
May(i, fault) == fault \in RestoreFaults[i]
Exists(t) == dbs[t].owner # None
IsAt(i, step) == inv[i].at = step
Go(i, step) == inv' = [inv EXCEPT ![i].at = step]
Current(i) == Order[inv[i].k]
Free(x) == \A j \in Invocations : custody[j][x] # "held"

\* What a command does to its database.
Effect(does, on, who) ==
    CASE does = "create" -> IF Exists(on) THEN dbs[on] ELSE Made(who)
      [] does = "fill" -> IF Exists(on) THEN [dbs[on] EXCEPT !.whole = TRUE, !.by = who]
                          ELSE dbs[on]
      [] does = "spoil" -> IF Exists(on) THEN [dbs[on] EXCEPT !.whole = FALSE, !.by = who]
                           ELSE dbs[on]
      [] does = "keep" -> IF Exists(on) THEN [dbs[on] EXCEPT !.by = who] ELSE dbs[on]
      [] does = "drop" -> IF Exists(on)
                          THEN [dbs[on] EXCEPT !.owner = None, !.stamp = None, !.by = who]
                          ELSE dbs[on]

Apply(does, on, who) == dbs' = [dbs EXCEPT ![on] = Effect(does, on, who)]

\* Everything an invocation holds is released when it ends.
Released(i) == custody' = [custody EXCEPT ![i] = [x \in DOMAIN custody[i] |-> "no"]]

\* The outcomes of a command that changes a database: result and database.
Finishes(i, does, on, ok) ==
    \/ ok /\ Apply(does, on, i) /\ UNCHANGED pending
    \/ /\ ~ok /\ May(i, "fail")
       /\ Apply(does, on, i) \/ UNCHANGED dbs
       /\ UNCHANGED pending

Unsettled(i, does, on) ==
    /\ May(i, "unsettled")
    /\ \/ Apply(does, on, i) /\ UNCHANGED pending
       \/ UNCHANGED dbs /\ pending' = pending \cup {[by |-> i, does |-> does, on |-> on]}

\* cleanup_extension_restore_intents starts with the last intent.
Compensating(i) == [inv[i] EXCEPT !.at = "compensate", !.k = Len(Order)]
Compensate(i) == inv' = [inv EXCEPT ![i] = Compensating(i)]
CompensateUnknown(i) == inv' = [inv EXCEPT ![i] = [Compensating(i) EXCEPT !.unknown = TRUE]]

States(its) == [t \in Targets |-> its[t].state]

\* persist_intent_ledger of the new states, or its failure before or after the
\* file was replaced.
Written(i, its) == [ledger EXCEPT ![i] = States(its)]
Persist(i, its, step) ==
    \/ ledger' = Written(i, its) /\ Go(i, step)
    \/ May(i, "disk") /\ Compensate(i) /\ ledger' \in {ledger, Written(i, its)}

-----------------------------------------------------------------------------
(* Preflight and entry *)

\* refuse_outstanding_restore_state
Outstanding(i) == ledger[i] # NoLedger \/ i \in record
Refused == \E j \in Invocations : Outstanding(j)

refuse_outstanding(i) ==
    /\ inv[i].at \in {"new", "admitted"}
    /\ Go(i, CASE Refused -> "refused"
               [] inv[i].at = "new" -> "preflight"
               [] OTHER -> "waiting")
    /\ UNCHANGED <<dbs, intents, custody, ledger, record, pending>>

preflight(i) ==
    /\ IsAt(i, "preflight")
    /\ \/ Go(i, IF \E t \in Targets : Exists(t) THEN "failed" ELSE "admitted")
          /\ UNCHANGED record
       \/ May(i, "fail") /\ Go(i, "failed") /\ UNCHANGED record
       \/ May(i, "unsettled") /\ Go(i, "failed") /\ record' = record \cup {i}
    /\ UNCHANGED <<dbs, intents, custody, ledger, pending>>

\* canonical_restore_authority waits for the lock, then the ledger is written.
enter(i) ==
    /\ IsAt(i, "waiting") /\ Free("window")
    /\ \/ /\ custody' = [custody EXCEPT ![i]["window"] = "held"]
          /\ ledger' = Written(i, intents[i]) /\ Go(i, "next")
       \/ /\ May(i, "disk") /\ Go(i, "failed") /\ UNCHANGED custody
          /\ ledger' \in {ledger, Written(i, intents[i])}
    /\ UNCHANGED <<dbs, intents, record, pending>>

lock_timeout(i) ==
    /\ IsAt(i, "waiting") /\ ~Free("window")
    /\ Go(i, "failed")
    /\ UNCHANGED <<dbs, intents, custody, ledger, record, pending>>

-----------------------------------------------------------------------------
(* _restore_one *)

With(i, t, state) == [intents[i] EXCEPT ![t].state = state]

\* The environment and the absence of the target are observed, then the
\* intent is written.
begin(i) ==
    /\ IsAt(i, "next") /\ inv[i].k <= Len(Order)
    /\ \/ /\ custody[i]["window"] = "held" /\ ~Exists(Current(i))
          /\ intents' = [intents EXCEPT ![i] = With(i, Current(i), "outcome_unknown")]
          /\ Persist(i, intents'[i], "create")
       \/ /\ May(i, "fail") \/ custody[i]["window"] # "held" \/ Exists(Current(i))
          /\ Compensate(i) /\ UNCHANGED <<intents, ledger>>
       \/ May(i, "unsettled") /\ CompensateUnknown(i) /\ UNCHANGED <<intents, ledger>>
    /\ UNCHANGED <<dbs, custody, record, pending>>

\* _reconcile_failed_create, after a settled failure.
ReconciledIntents(i, t, after) ==
    IF custody[i]["window"] = "held" /\ after[t].owner = None
    THEN With(i, t, "not_created") ELSE intents[i]

\* Mutant: a target that exists already is taken for the created one.
CreateIfNotExists(i) ==
    LET t == Current(i) IN
    /\ IsAt(i, "create")
    /\ Finishes(i, "create", t, TRUE)
    /\ intents' = [intents EXCEPT ![i] = With(i, t, "created_unheld")]
    /\ Persist(i, intents'[i], "hold")
    /\ UNCHANGED <<custody, record>>

create(i) ==
    LET t == Current(i) IN
    /\ IsAt(i, "create")
    /\ \/ /\ ~Exists(t) /\ Finishes(i, "create", t, TRUE)
          /\ intents' = [intents EXCEPT ![i] = With(i, t, "created_unheld")]
          /\ Persist(i, intents'[i], "hold")
       \/ /\ Finishes(i, "create", t, FALSE) \/ (Exists(t) /\ UNCHANGED <<dbs, pending>>)
          /\ intents' = [intents EXCEPT ![i] = ReconciledIntents(i, t, dbs')]
          /\ Compensate(i) /\ UNCHANGED ledger
       \/ /\ Unsettled(i, "create", t) /\ CompensateUnknown(i)
          /\ UNCHANGED <<intents, ledger>>
    /\ UNCHANGED <<custody, record>>

\* hold_target: lock, look at the identity, stamp; each part may fail.
hold_target(i) ==
    LET t == Current(i) IN
    /\ IsAt(i, "hold")
    /\ \/ /\ May(i, "session") \/ ~Free(t)
          /\ Compensate(i) /\ UNCHANGED <<dbs, intents, custody, ledger>>
       \/ /\ Free(t)
          /\ May(i, "session") \/ dbs[t].stamp # None
          /\ custody' = [custody EXCEPT ![i][t] = "held"]
          /\ \/ UNCHANGED dbs
             \/ dbs[t].stamp = None /\ dbs' = [dbs EXCEPT ![t].stamp = i]
          /\ Compensate(i) /\ UNCHANGED <<intents, ledger>>
       \/ /\ Free(t) /\ dbs[t].stamp = None
          /\ custody' = [custody EXCEPT ![i][t] = "held"]
          /\ dbs' = [dbs EXCEPT ![t].stamp = i]
          /\ intents' = [intents EXCEPT ![i][t] = [state |-> "created", oid |-> TRUE]]
          /\ Persist(i, intents'[i], "install")
    /\ UNCHANGED <<record, pending>>

\* authority.verify: the held connection, its lock, the OID and the stamp.
Verified(i, t) ==
    custody[i][t] = "held" /\ intents[i][t].oid /\ Exists(t) /\ dbs[t].stamp = i

\* A part of filling a target: commands behind require_custody.  Once one is
\* unsettled the next is refused.
\* Mutant: the restore goes on after a command whose outcome is unknown.
FillsOn(i, step, does, next) ==
    LET t == Current(i) IN
    /\ IsAt(i, step)
    /\ Verified(i, t) /\ (Finishes(i, does, t, TRUE) \/ Unsettled(i, "spoil", t))
    /\ inv' = [inv EXCEPT ![i] = next]
    /\ UNCHANGED <<intents, custody, ledger, record>>

Fills(i, step, does, next) ==
    LET t == Current(i) IN
    /\ IsAt(i, step)
    /\ \/ /\ Verified(i, t) /\ Finishes(i, does, t, TRUE)
          /\ inv' = [inv EXCEPT ![i] = next]
       \/ /\ ~Verified(i, t) \/ May(i, "fail")
          /\ Compensate(i) /\ UNCHANGED <<dbs, pending>>
       \/ Verified(i, t) /\ Unsettled(i, "spoil", t) /\ CompensateUnknown(i)
    /\ UNCHANGED <<intents, custody, ledger, record>>

install_extensions(i) ==
    Fills(i, "install", "spoil", [inv[i] EXCEPT !.at = "replay"])

\* pg_restore of the archive and the digest of the archive file.
replay_archive(i) ==
    Fills(i, "replay", "fill", [inv[i] EXCEPT !.at = "verify"])

\* Roles, optional grants and the checks of the result.
verify_restored_database(i) ==
    Fills(i, "verify", "keep", [inv[i] EXCEPT !.at = "next", !.k = inv[i].k + 1])

\* finalize: every target is verified, then one transaction clears the stamps;
\* its answer may be lost.
Cleared == [t \in Targets |-> [dbs[t] EXCEPT !.stamp = None]]

finalize(i) ==
    /\ IsAt(i, "next") /\ inv[i].k > Len(Order)
    /\ \/ /\ \A t \in Targets : Verified(i, t)
          /\ custody[i]["window"] = "held"
          /\ dbs' = Cleared /\ Go(i, "finish")
          /\ intents' = [intents EXCEPT ![i] =
                [t \in Targets |-> [intents[i][t] EXCEPT !.state = "completed"]]]
       \/ /\ \A t \in Targets : Verified(i, t)
          /\ custody[i]["window"] = "held" /\ May(i, "session")
          /\ dbs' = Cleared /\ Compensate(i) /\ UNCHANGED intents
       \/ /\ \/ May(i, "fail") \/ custody[i]["window"] # "held"
             \/ \E t \in Targets : ~Verified(i, t)
          /\ Compensate(i) /\ UNCHANGED <<dbs, intents>>
       \/ May(i, "unsettled") /\ CompensateUnknown(i) /\ UNCHANGED <<dbs, intents>>
    /\ UNCHANGED <<custody, ledger, record, pending>>

finish(i) ==
    /\ IsAt(i, "finish")
    /\ \/ ledger' = [ledger EXCEPT ![i] = NoLedger] /\ Go(i, "success")
       \/ May(i, "disk") /\ Go(i, "failed") /\ UNCHANGED ledger
    /\ Released(i)
    /\ UNCHANGED <<dbs, intents, record, pending>>

-----------------------------------------------------------------------------
(* cleanup_extension_restore_intents *)

\* Whether this intent's target may be dropped, up to its verification.
Droppable(i, t) ==
    /\ ~inv[i].unknown /\ ~inv[i].interrupted
    /\ intents[i][t].state \notin Retained
    /\ custody[i][t] # "no" /\ intents[i][t].oid

Skip(i, diag) ==
    inv' = [inv EXCEPT ![i].k = @ - 1, ![i].diags = @ \/ diag]

compensate(i) ==
    LET t == Current(i) IN
    /\ IsAt(i, "compensate") /\ inv[i].k > 0
    /\ \/ intents[i][t].state \in Terminal /\ Skip(i, FALSE)
       \/ /\ intents[i][t].state \notin Terminal
          /\ ~Droppable(i, t) \/ ~Verified(i, t)
          /\ Skip(i, TRUE)
       \/ /\ intents[i][t].state \notin Terminal
          /\ Droppable(i, t) /\ Verified(i, t) /\ Go(i, "drop")
       \/ /\ intents[i][t].state \notin Terminal
          /\ Droppable(i, t) /\ May(i, "interrupt")
          /\ inv' = [inv EXCEPT ![i].k = @ - 1, ![i].diags = TRUE, ![i].interrupted = TRUE]
    /\ UNCHANGED <<dbs, intents, custody, ledger, record, pending>>

\* DROP DATABASE ... WITH (FORCE), which ends the held session too, and the
\* look whether the OID is gone.
drop_target(i) ==
    LET t == Current(i) IN
    /\ IsAt(i, "drop")
    /\ \/ /\ Finishes(i, "drop", t, TRUE)
          /\ IF custody[i]["window"] = "held"
             THEN /\ intents' = [intents EXCEPT ![i][t].state = "cleaned"]
                  /\ inv' = [inv EXCEPT ![i].at = "compensate", ![i].k = @ - 1]
             ELSE /\ UNCHANGED intents
                  /\ inv' = [inv EXCEPT ![i].at = "compensate", ![i].k = @ - 1,
                                        ![i].diags = TRUE]
       \/ /\ Finishes(i, "drop", t, FALSE) /\ UNCHANGED intents
          /\ \E stop \in {FALSE} \cup {May(i, "interrupt")} :
                inv' = [inv EXCEPT ![i].at = "compensate", ![i].k = @ - 1,
                           ![i].diags = TRUE, ![i].interrupted = @ \/ stop]
       \/ /\ Unsettled(i, "drop", t) /\ UNCHANGED intents
          /\ inv' = [inv EXCEPT ![i].at = "compensate", ![i].k = @ - 1,
                        ![i].diags = TRUE, ![i].unknown = TRUE]
    /\ custody' = [custody EXCEPT ![i][t] = IF dbs' # dbs THEN "lost" ELSE @]
    /\ UNCHANGED <<ledger, record>>

\* Mutant: an unsettled command without a retained target keeps no ledger.
SettleLedgerByTargets(i) ==
    /\ IsAt(i, "compensate") /\ inv[i].k = 0
    /\ Go(i, "failed")
    /\ ledger' = [ledger EXCEPT ![i] = IF inv[i].diags /\ ~inv[i].unknown
                                       THEN States(intents[i]) ELSE NoLedger]
    /\ Released(i)
    /\ UNCHANGED <<dbs, intents, record, pending>>

settle_ledger(i) ==
    /\ IsAt(i, "compensate") /\ inv[i].k = 0
    /\ Go(i, "failed")
    /\ \/ ledger' = [ledger EXCEPT ![i] = IF inv[i].diags \/ inv[i].unknown
                                          THEN States(intents[i]) ELSE NoLedger]
       \/ May(i, "disk") /\ ledger' \in {ledger, Written(i, intents[i])}
    /\ Released(i)
    /\ UNCHANGED <<dbs, intents, record, pending>>

-----------------------------------------------------------------------------
(* Faults, late commands and the other actor *)

\* The command that an invocation is running when it is killed goes on.
Running(i) ==
    CASE IsAt(i, "create") -> {[by |-> i, does |-> "create", on |-> Current(i)]}
      [] inv[i].at \in {"install", "replay", "verify"} /\ Verified(i, Current(i)) ->
            {[by |-> i, does |-> "spoil", on |-> Current(i)]}
      [] IsAt(i, "drop") -> {[by |-> i, does |-> "drop", on |-> Current(i)]}
      [] OTHER -> {}

sigkill(i) ==
    /\ May(i, "kill") /\ inv[i].at \notin Ended
    /\ Go(i, "killed")
    /\ \E started \in SUBSET Running(i) : pending' = pending \cup started
    /\ Released(i)
    /\ UNCHANGED <<dbs, intents, ledger, record>>

lose_session(i) ==
    /\ May(i, "session")
    /\ \E x \in DOMAIN custody[i] :
          custody[i][x] = "held" /\ custody' = [custody EXCEPT ![i][x] = "lost"]
    /\ UNCHANGED <<dbs, inv, intents, ledger, record, pending>>

take_effect(c) ==
    /\ Apply(c.does, c.on, c.by)
    /\ pending' = pending \ {c}
    /\ custody' = [i \in Invocations |-> [x \in DOMAIN custody[i] |->
          IF c.does = "drop" /\ x = c.on /\ custody[i][x] = "held" THEN "lost"
          ELSE custody[i][x]]]
    /\ UNCHANGED <<inv, intents, ledger, record>>

other_actor(t) ==
    /\ \/ ~Exists(t) /\ dbs' = [dbs EXCEPT ![t] = Made(Other)]
       \/ /\ dbs[t].owner = Other /\ Free(t)
          /\ dbs' = [dbs EXCEPT ![t] = [Absent EXCEPT !.was = Other, !.by = Other]]
    /\ UNCHANGED <<inv, intents, custody, ledger, record, pending>>

Step(i) ==
    refuse_outstanding(i) \/ preflight(i) \/ enter(i) \/ lock_timeout(i)
    \/ begin(i) \/ create(i) \/ hold_target(i) \/ install_extensions(i)
    \/ replay_archive(i) \/ verify_restored_database(i) \/ finalize(i) \/ finish(i)
    \/ compensate(i) \/ drop_target(i) \/ settle_ledger(i) \/ sigkill(i) \/ lose_session(i)

RestoreNext ==
    \/ \E i \in Invocations : Step(i)
    \/ \E c \in pending : take_effect(c)
    \/ \E t \in Targets : other_actor(t)

RestoreSpec == RestoreInit /\ [][RestoreNext]_restoring

-----------------------------------------------------------------------------
\* A database that a restore made and did not bring to its end.
Unfinished(t) == dbs[t].owner \in Invocations /\ ~(dbs[t].whole /\ dbs[t].stamp = None)

\* The ledger an invocation left names the database as one to look at.
Named(i, t) == ledger[i][t] \notin Terminal \cup {None}

\* Whatever an ended restore leaves behind, a database that is not finished
\* or a command that may still take effect on one, is named as unfinished by
\* the ledger of that restore (persist_intent_ledger before each creation, the
\* retained states of cleanup_extension_restore_intents).
LeftoversAreNamed ==
    \A i \in Invocations : inv[i].at \in Ended =>
       /\ \A t \in Targets : dbs[t].owner = i /\ Unfinished(t) => Named(i, t)
       /\ \A c \in pending : c.by = i => Named(i, c.on)

\* Restore commands, the late ones included, change and drop only databases
\* that their own invocation created (hold_target, verify, the guarded drop).
OnlyItsOwn == \A t \in Targets : dbs[t].by = dbs[t].was

\* A restore that reports success leaves every target whole, its own, without
\* a stamp, and nothing of it can still act (finalize, _require_custody).
SuccessIsWhole ==
    \A i \in Invocations : inv[i].at = "success" =>
       /\ \A t \in Targets : dbs[t].owner = i /\ ~Unfinished(t)
       /\ \A c \in pending : c.by # i
=============================================================================
