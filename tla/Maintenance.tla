---------------------------- MODULE Maintenance ----------------------------
(***************************************************************************)
(* The maintenance lock (runtime/maintenance.py) between ordinary work and *)
(* the lifecycle commands: dump, dump-all, upgrade-schema and drop.        *)
(*                                                                         *)
(* Every database has one advisory lock.  Ordinary work takes it shared    *)
(* and never waits; a command takes it exclusive on control first and then *)
(* on its graph databases in order, waiting for the work inside to drain.  *)
(* Each lock lives as long as the connection that took it.                 *)
(***************************************************************************)
EXTENDS Integers, Sequences, FiniteSets, Functions

CONSTANTS Control,      \* the control database
          GraphOrder,   \* the owned graph databases, sorted by name
          Ops,          \* ordinary operations
          OpKind,       \* [Ops -> "attempt", "direct", "load", "submit"]
          OpGraph,      \* the graph database an operation writes
          Commands,     \* lifecycle commands
          CommandKind,  \* [Commands -> "dump", "dump_all", "upgrade", "drop"]
          Target,       \* the database a command is about
          Casts,        \* the operations and commands of one history, as alternatives
          MaxFaults     \* bound on kills and failing calls

ASSUME MaintenanceAssumption ==
    /\ GraphOrder \in Seq(Range(GraphOrder)) /\ Control \notin Range(GraphOrder)
    /\ OpKind \in [Ops -> {"attempt", "direct", "load", "submit"}]
    /\ OpGraph \in [Ops -> Range(GraphOrder)]
    /\ CommandKind \in [Commands -> {"dump", "dump_all", "upgrade", "drop"}]
    /\ Target \in [Commands -> Range(GraphOrder) \cup {Control}]
    /\ Casts \subseteq SUBSET (Ops \cup Commands) /\ MaxFaults \in Nat

VARIABLES
    alive,     \* databases that exist
    content,   \* what is committed in each database
    shared,    \* operations holding the lock of a database shared
    excl,      \* commands holding it exclusive: at most one
    queue,     \* commands waiting for it, in order
    op,        \* where each operation is
    cmd,       \* [pc, need, held, backup] of each command
    kept,      \* the coordinated backup set published last
    unbacked,  \* content changed or destroyed behind a backup without it
    killed,    \* operations that were killed while inside
    faults,    \* kills and failing calls so far
    cast       \* the operations and commands of this history

locks == <<shared, excl, queue>>
vars == <<alive, content, shared, excl, queue, op, cmd, kept, unbacked, killed,
          faults, cast>>

GraphDatabases == Range(GraphOrder)
Databases == {Control} \cup GraphDatabases
Idle == [pc |-> "idle", need |-> <<>>, held |-> <<>>,
         backup |-> [d \in {} |-> {}]]

Init ==
    /\ alive = Databases
    /\ content = [d \in Databases |-> {}]
    /\ shared = [d \in Databases |-> {}]
    /\ excl = [d \in Databases |-> {}]
    /\ queue = [d \in Databases |-> <<>>]
    /\ op = [o \in Ops |-> "idle"]
    /\ cmd = [c \in Commands |-> Idle]
    /\ kept = {}
    /\ unbacked = {}
    /\ killed = {}
    /\ faults = 0
    /\ cast \in Casts

-----------------------------------------------------------------------------
(* The advisory lock.                                                      *)

\* A try that looks only at the holders.
AdmittedByHolders(d) == d \in alive /\ excl[d] = {}

\* pg_try_advisory_lock_shared is refused by a holder and by a waiter.
Admitted(d) == d \in alive /\ excl[d] = {} /\ queue[d] = <<>>

TakesShared(o, d) == shared' = [shared EXCEPT ![d] = @ \cup {o}]
LeavesShared(o, d) == shared' = [shared EXCEPT ![d] = @ \ {o}]

-----------------------------------------------------------------------------
(* Ordinary work.                                                          *)

Goes(o, pc) == op' = [op EXCEPT ![o] = pc]
Writes(d, item) == content' = [content EXCEPT ![d] = @ \cup {item}]

ByControl(o) == OpKind[o] \in {"attempt", "direct"}

\* run_once, and a direct refresh with a home, hold control throughout.
EnterControl(o) ==
    /\ op[o] = "idle" /\ ByControl(o)
    /\ Admitted(Control)
    /\ TakesShared(o, Control)
    /\ Goes(o, IF OpKind[o] = "attempt" THEN "claiming" ELSE "entering")
    /\ UNCHANGED <<alive, content, excl, queue, cmd, kept, unbacked, killed, faults>>

\* claim_next asks for admission again in its own transaction.
Claim(o) ==
    /\ op[o] = "claiming"
    /\ IF Admitted(Control)
       THEN Writes(Control, <<o, "claimed">>) /\ Goes(o, "entering")
       ELSE UNCHANGED content /\ Goes(o, "leaving")
    /\ UNCHANGED <<alive, shared, excl, queue, cmd, kept, unbacked, killed, faults>>

\* Staged ingestion takes the graph's lock on a connection of its own.
EnterGraph(o) ==
    /\ \/ op[o] = "entering"
       \/ op[o] = "idle" /\ OpKind[o] = "load"
    /\ IF Admitted(OpGraph[o])
       THEN TakesShared(o, OpGraph[o]) /\ Goes(o, "publishing")
       ELSE /\ op[o] = "entering"
            /\ Goes(o, IF OpKind[o] = "attempt" THEN "settling" ELSE "leaving")
            /\ UNCHANGED shared
    /\ UNCHANGED <<alive, content, excl, queue, cmd, kept, unbacked, killed, faults>>

Publish(o) ==
    /\ op[o] = "publishing"
    /\ Writes(OpGraph[o], o)
    /\ Goes(o, "published")
    /\ UNCHANGED <<alive, shared, excl, queue, cmd, kept, unbacked, killed, faults>>

LeaveGraph(o) ==
    /\ op[o] = "published"
    /\ LeavesShared(o, OpGraph[o])
    /\ Goes(o, CASE OpKind[o] = "attempt" -> "settling_published"
                 [] OpKind[o] = "direct" -> "leaving"
                 [] OTHER -> "idle")
    /\ UNCHANGED <<alive, content, excl, queue, cmd, kept, unbacked, killed, faults>>

\* The attempt's control ownership let go before the outcome is written.
SettleUnheld(o) ==
    /\ op[o] \in {"settling", "settling_published"}
    /\ IF o \in shared[Control]
       THEN LeavesShared(o, Control) /\ UNCHANGED <<op, content>>
       ELSE /\ Writes(Control, <<o, IF op[o] = "settling" THEN "failed" ELSE "published">>)
            /\ Goes(o, "leaving")
            /\ UNCHANGED shared
    /\ UNCHANGED <<alive, excl, queue, cmd, kept, unbacked, killed, faults>>

\* The disposition of the attempt is written without asking for admission.
Settle(o) ==
    /\ op[o] \in {"settling", "settling_published"}
    /\ Writes(Control, <<o, IF op[o] = "settling" THEN "failed" ELSE "published">>)
    /\ Goes(o, "leaving")
    /\ UNCHANGED <<alive, shared, excl, queue, cmd, kept, unbacked, killed, faults>>

LeaveControl(o) ==
    /\ op[o] = "leaving"
    /\ LeavesShared(o, Control)
    /\ Goes(o, "idle")
    /\ UNCHANGED <<alive, content, excl, queue, cmd, kept, unbacked, killed, faults>>

\* A submission: one transaction that holds the lock until it commits.
BeginSubmit(o) ==
    /\ op[o] = "idle" /\ OpKind[o] = "submit"
    /\ Admitted(Control)
    /\ TakesShared(o, Control)
    /\ Goes(o, "submitting")
    /\ UNCHANGED <<alive, content, excl, queue, cmd, kept, unbacked, killed, faults>>

CommitSubmit(o) ==
    /\ op[o] = "submitting"
    /\ Writes(Control, <<o, "submitted">>)
    /\ LeavesShared(o, Control)
    /\ Goes(o, "idle")
    /\ UNCHANGED <<alive, excl, queue, cmd, kept, unbacked, killed, faults>>

\* The process dies: its connections close and its transaction is gone.
OpKilled(o) ==
    /\ op[o] # "idle" /\ faults < MaxFaults
    /\ shared' = [d \in Databases |-> shared[d] \ {o}]
    /\ Goes(o, "idle")
    /\ killed' = killed \cup {o}
    /\ faults' = faults + 1
    /\ UNCHANGED <<alive, content, excl, queue, cmd, kept, unbacked>>

-----------------------------------------------------------------------------
(* The window of a command.                                                *)

\* The windows of local_lifecycle.py: control, then the sorted targets.
LockOrder(c) ==
    IF CommandKind[c] = "dump_all" \/ Target[c] = Control
    THEN <<Control>> \o GraphOrder
    ELSE <<Control, Target[c]>>

IsOpen(c) == cmd[c].pc \in {"dumping", "migrating", "verifying", "terminating"}

BeginCommand(c) ==
    /\ cmd[c].pc = "idle"
    /\ cmd' = [cmd EXCEPT ![c] = [Idle EXCEPT !.pc = "acquiring", !.need = LockOrder(c)]]
    /\ UNCHANGED <<alive, content, locks, op, kept, unbacked, killed, faults>>

\* A connection of its own, on which the command waits for the lock.
RequestLock(c) ==
    /\ cmd[c].pc = "acquiring"
    /\ LET d == Head(cmd[c].need)
       IN IF d \in alive
          THEN /\ queue' = [queue EXCEPT ![d] = Append(@, c)]
               /\ cmd' = [cmd EXCEPT ![c].pc = "waiting"]
          ELSE /\ cmd' = [cmd EXCEPT ![c].pc = "closing"]
               /\ UNCHANGED queue
    /\ UNCHANGED <<alive, content, shared, excl, op, kept, unbacked, killed, faults>>

\* A lock that does not wait for the work inside.
GrantedOverWork(c) ==
    /\ cmd[c].pc = "waiting"
    /\ LET d == Head(cmd[c].need)
           rest == Tail(cmd[c].need)
       IN /\ c = Head(queue[d]) /\ excl[d] = {}
          /\ queue' = [queue EXCEPT ![d] = Tail(@)]
          /\ excl' = [excl EXCEPT ![d] = {c}]
          /\ cmd' = [cmd EXCEPT ![c] = [@ EXCEPT !.need = rest,
                        !.held = Append(cmd[c].held, d),
                        !.pc = IF rest = <<>> THEN "dumping" ELSE "acquiring"]]
    /\ UNCHANGED <<alive, content, shared, op, kept, unbacked, killed, faults>>

\* pg_advisory_lock: granted when no other session holds the lock.
Granted(c) ==
    /\ cmd[c].pc = "waiting"
    /\ LET d == Head(cmd[c].need)
           rest == Tail(cmd[c].need)
       IN /\ c = Head(queue[d]) /\ shared[d] = {} /\ excl[d] = {}
          /\ queue' = [queue EXCEPT ![d] = Tail(@)]
          /\ excl' = [excl EXCEPT ![d] = {c}]
          /\ cmd' = [cmd EXCEPT ![c] = [@ EXCEPT !.need = rest,
                        !.held = Append(cmd[c].held, d),
                        !.pc = IF rest = <<>> THEN "dumping" ELSE "acquiring"]]
    /\ UNCHANGED <<alive, content, shared, op, kept, unbacked, killed, faults>>

LockTimeout(c) ==
    /\ cmd[c].pc = "waiting"
    /\ LET d == Head(cmd[c].need)
       IN queue' = [queue EXCEPT ![d] = SelectSeq(@, LAMBDA w : w # c)]
    /\ cmd' = [cmd EXCEPT ![c].pc = "closing"]
    /\ UNCHANGED <<alive, content, shared, excl, op, kept, unbacked, killed, faults>>

\* The exit stack closes the connections, the last one first.
Close(c) ==
    /\ cmd[c].pc = "closing" /\ cmd[c].held # <<>>
    /\ LET last == Len(cmd[c].held)
           d == cmd[c].held[last]
       IN /\ excl' = [excl EXCEPT ![d] = @ \ {c}]
          /\ cmd' = [cmd EXCEPT ![c].held = SubSeq(@, 1, last - 1)]
    /\ UNCHANGED <<alive, content, shared, queue, op, kept, unbacked, killed, faults>>

Closed(c) ==
    /\ cmd[c].pc = "closing" /\ cmd[c].held = <<>>
    /\ cmd' = [cmd EXCEPT ![c] = Idle]
    /\ UNCHANGED <<alive, content, locks, op, kept, unbacked, killed, faults>>

CommandKilled(c) ==
    /\ cmd[c].pc # "idle" /\ faults < MaxFaults
    /\ excl' = [d \in Databases |-> excl[d] \ {c}]
    /\ queue' = [d \in Databases |-> SelectSeq(queue[d], LAMBDA w : w # c)]
    /\ cmd' = [cmd EXCEPT ![c] = Idle]
    /\ faults' = faults + 1
    /\ UNCHANGED <<alive, content, shared, op, kept, unbacked, killed>>

-----------------------------------------------------------------------------
(* What a command does inside its window.                                  *)

\* bind_maintenance_custody: what the running window is known to hold.
Custody(c) == Range(cmd[c].held)

\* The backup inside asks for control and its own databases, and goes ahead
\* without locks of its own when held_maintenance_custody_for covers them;
\* otherwise it would wait for its own window.
ToDump(c) == IF CommandKind[c] = "dump_all" THEN Databases ELSE {Target[c]}
Covered(c) == {Control} \cup ToDump(c) \subseteq Custody(c)

AfterDump(c) ==
    CASE CommandKind[c] \in {"dump", "dump_all"} -> "closing"
      [] CommandKind[c] = "upgrade" -> "migrating"
      [] CommandKind[c] = "drop" -> "verifying"

\* One pg_dump; after the last one the set is published in one rename.
Dump(c) ==
    /\ cmd[c].pc = "dumping" /\ Covered(c)
    /\ \E d \in ToDump(c) \ DOMAIN cmd[c].backup :
         LET set == [x \in DOMAIN cmd[c].backup \cup {d} |->
                        IF x = d THEN content[d] ELSE cmd[c].backup[x]]
             whole == DOMAIN set = ToDump(c)
         IN /\ cmd' = [cmd EXCEPT ![c] = [@ EXCEPT !.backup = set,
                                             !.pc = IF whole THEN AfterDump(c) ELSE "dumping"]]
            /\ kept' = IF whole /\ CommandKind[c] = "dump_all" THEN {set} ELSE kept
    /\ UNCHANGED <<alive, content, locks, op, unbacked, killed, faults>>

Unbacked(c) == content[Target[c]] \ cmd[c].backup[Target[c]]

\* The schema change of upgrade_graph_schema, behind its backup.
Migrate(c) ==
    /\ cmd[c].pc = "migrating"
    /\ unbacked' = unbacked \cup Unbacked(c)
    /\ cmd' = [cmd EXCEPT ![c].pc = "closing"]
    /\ UNCHANGED <<alive, content, locks, op, kept, killed, faults>>

VerifyDropBackup(c) ==
    /\ cmd[c].pc = "verifying"
    /\ cmd' = [cmd EXCEPT ![c].pc = "terminating"]
    /\ UNCHANGED <<alive, content, locks, op, kept, unbacked, killed, faults>>

\* pg_terminate_backend for every session of the database: the command's own
\* ownership connection is one of them, and so is that of a waiting command.
Terminate(c) ==
    /\ cmd[c].pc = "terminating"
    /\ LET d == Target[c]
       IN /\ excl' = [excl EXCEPT ![d] = {}]
          /\ queue' = [queue EXCEPT ![d] = <<>>]
          /\ shared' = [shared EXCEPT ![d] = {}]
          /\ cmd' = [w \in Commands |->
                       IF w = c THEN [cmd[w] EXCEPT !.pc = "dropping"]
                       ELSE IF \E i \in DOMAIN queue[d] : queue[d][i] = w
                            THEN [cmd[w] EXCEPT !.pc = "closing"] ELSE cmd[w]]
    /\ UNCHANGED <<alive, content, op, kept, unbacked, killed, faults>>

Sessions(d) == shared[d] \cup excl[d] \cup Range(queue[d])

\* DROP DATABASE waits a while for other sessions to end, and then refuses.
Drop(c) ==
    /\ cmd[c].pc = "dropping"
    /\ IF Sessions(Target[c]) = {}
       THEN /\ alive' = alive \ {Target[c]}
            /\ unbacked' = unbacked \cup Unbacked(c)
       ELSE UNCHANGED <<alive, unbacked>>
    /\ cmd' = [cmd EXCEPT ![c].pc = "closing"]
    /\ UNCHANGED <<content, locks, op, kept, killed, faults>>

CallFails(c) ==
    /\ IsOpen(c) /\ faults < MaxFaults
    /\ cmd' = [cmd EXCEPT ![c].pc = "closing"]
    /\ faults' = faults + 1
    /\ UNCHANGED <<alive, content, locks, op, kept, unbacked, killed>>

-----------------------------------------------------------------------------

\* Steps of work that is under way.
OpStep(o) ==
    \/ Claim(o) \/ (op[o] = "entering" /\ EnterGraph(o)) \/ Publish(o) \/ LeaveGraph(o)
    \/ Settle(o) \/ LeaveControl(o) \/ CommitSubmit(o)

OpStart(o) == EnterControl(o) \/ (op[o] = "idle" /\ EnterGraph(o)) \/ BeginSubmit(o)

CommandStep(c) ==
    \/ RequestLock(c) \/ Granted(c) \/ Close(c) \/ Closed(c) \/ Dump(c) \/ Migrate(c)
    \/ VerifyDropBackup(c) \/ Terminate(c) \/ Drop(c)

Next ==
    /\ \/ \E o \in Ops \cap cast : OpStart(o) \/ OpStep(o) \/ OpKilled(o)
       \/ \E c \in Commands \cap cast :
             \/ BeginCommand(c) \/ CommandStep(c) \/ LockTimeout(c)
             \/ CommandKilled(c) \/ CallFails(c)
    /\ UNCHANGED cast

Spec == Init /\ [][Next]_vars

\* Work and commands under way go on; nobody has to start any.
FairSpec ==
    /\ Spec
    /\ \A o \in Ops : WF_vars(OpStep(o) /\ UNCHANGED cast)
    /\ \A c \in Commands : WF_vars(CommandStep(c) /\ UNCHANGED cast)

-----------------------------------------------------------------------------
(* Properties.                                                             *)

\* The lock of pg_advisory_lock and pg_try_advisory_lock_shared: at most one
\* command holds a database, and then no operation does.
MaintenanceTypeOK ==
    /\ alive \subseteq Databases
    /\ \A d \in Databases :
         /\ shared[d] \subseteq Ops
         /\ excl[d] \subseteq Commands /\ Cardinality(excl[d]) <= 1
         /\ Range(queue[d]) \subseteq Commands
         /\ excl[d] # {} => shared[d] = {}
    /\ \A c \in Commands : Range(cmd[c].held) \subseteq Databases
    /\ faults \in 0 .. MaxFaults

\* A coordinated backup set shows every attempt that was not killed either
\* not begun or ended, with the graph's publication and the control record in
\* agreement: "recovery_point": "stable" of the manifest is true.
BackupSetIsStable ==
    \A set \in kept : \A o \in Ops \ killed :
        OpKind[o] = "attempt" =>
            /\ o \in set[OpGraph[o]] <=> <<o, "published">> \in set[Control]
            /\ <<o, "claimed">> \in set[Control] =>
                 \E e \in {"published", "failed"} : <<o, e>> \in set[Control]

\* A schema is only changed, and a database only dropped, with everything
\* committed in it inside the verified backup taken by the same command.
NothingUnbacked == unbacked = {}

\* A command that has begun ends: the work inside drains, work that arrives
\* while it waits is refused, its own backup does not wait for its window, and
\* no two commands wait for each other.
CommandEnds == \A c \in Commands : cmd[c].pc # "idle" ~> cmd[c].pc = "idle"

=============================================================================
