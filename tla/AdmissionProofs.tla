-------------------------- MODULE AdmissionProofs --------------------------
(***************************************************************************)
(* Theorems about who is let in: the maintenance lock between ordinary     *)
(* work and the lifecycle commands (Maintenance), and the bounded pool of  *)
(* the polling scheduler (Polling).                                        *)
(***************************************************************************)
EXTENDS Polling, Maintenance, TLAPS

\* Most leaves are first-order and go to Zenon; those with arithmetic cite SMT.
USE Zenon

OpStates == {"idle", "claiming", "entering", "publishing", "published", "settling",
             "settling_published", "leaving", "submitting"}
CommandStates == {"idle", "acquiring", "waiting", "dumping", "migrating", "verifying",
                  "terminating", "dropping", "closing"}
Items == Ops \cup (Ops \X {"claimed", "published", "failed", "submitted"})
Row(c) == [pc |-> cmd[c].pc, need |-> cmd[c].need, held |-> cmd[c].held,
           backup |-> cmd[c].backup]
RowShape == cmd = [c \in Commands |-> Row(c)]

WindowTypes ==
    /\ content \in [Databases -> SUBSET Items]
    /\ shared \in [Databases -> SUBSET Ops]
    /\ excl \in [Databases -> SUBSET Commands]
    /\ op \in [Ops -> OpStates]
    /\ RowShape
    /\ \A c \in Commands : /\ cmd[c].pc \in CommandStates
                          /\ cmd[c].need \in Seq(Databases)
                          /\ cmd[c].held \in Seq(Databases)
    /\ cast \in Casts

\* A command holds a database alone.
LocksExclude == \A d \in Databases : excl[d] # {} => shared[d] = {}

\* Work that is under way holds control, unless it is a load, and the graph
\* while it publishes.
WorkHolds(o) ==
    /\ op[o] # "idle" => o \in cast
    /\ op[o] # "idle" /\ OpKind[o] # "load" => o \in shared[Control]
    /\ op[o] \in {"publishing", "published"} => o \in shared[OpGraph[o]]
    /\ OpKind[o] = "load" => op[o] \in {"idle", "publishing", "published"}

\* A command holds what it has acquired so far, control first; in its window
\* it holds everything of its lock order; after it terminated the sessions of
\* a graph database it still holds control.
CommandHolds(c) ==
    /\ cmd[c].pc \notin {"idle", "closing"} => c \in cast
    /\ cmd[c].pc \in {"acquiring", "waiting"} =>
         /\ cmd[c].need # <<>> /\ DOMAIN cmd[c].backup = {}
         /\ Range(cmd[c].held) \cup Range(cmd[c].need) = Range(LockOrder(c))
         /\ IF cmd[c].held = <<>> THEN Head(cmd[c].need) = Control
                                  ELSE Control \in Range(cmd[c].held)
         /\ \A d \in Range(cmd[c].held) : excl[d] = {c}
    /\ IsOpen(c) => \A d \in Range(LockOrder(c)) : excl[d] = {c}
    /\ cmd[c].pc = "dropping" /\ Target[c] # Control => excl[Control] = {c}

\* What a command has dumped is what the databases hold, until its window is
\* over; the schema change and the drop come after the dump of their database.
BackupHolds(c) ==
    /\ IsOpen(c) =>
         /\ DOMAIN cmd[c].backup \subseteq ToDump(c)
         /\ \A d \in DOMAIN cmd[c].backup : cmd[c].backup[d] = content[d]
    /\ cmd[c].pc \in {"migrating", "verifying", "terminating"} =>
         Target[c] \in DOMAIN cmd[c].backup
    /\ cmd[c].pc \in {"verifying", "terminating", "dropping"} => CommandKind[c] = "drop"

\* An attempt that was never killed: control and graph agree about it, except
\* between its publication and the record of it, and an attempt that is not
\* running has no claim without an end.
AttemptAgrees(o) ==
    /\ op[o] \notin {"published", "settling_published"} =>
         (o \in content[OpGraph[o]] <=> <<o, "published">> \in content[Control])
    /\ op[o] \in {"published", "settling_published"} => o \in content[OpGraph[o]]
    /\ op[o] \in {"idle", "claiming", "leaving", "submitting"} =>
         (<<o, "claimed">> \in content[Control] =>
             \E e \in {"published", "failed"} : <<o, e>> \in content[Control])

WindowInv ==
    /\ WindowTypes /\ LocksExclude
    /\ \A o \in Ops : WorkHolds(o)
    /\ \A c \in Commands : CommandHolds(c) /\ BackupHolds(c)

StableInv ==
    /\ \A o \in Ops \ killed : OpKind[o] = "attempt" => AttemptAgrees(o)
    /\ BackupSetIsStable

\* Casts without work that the lock does not hold back between the end of a
\* database's sessions and its DROP: a load of the graph that is dropped, and
\* for control anything but a load.
GapIsQuiet ==
    \A D \in Casts : \A c \in D \cap Commands, o \in D \cap Ops :
        CommandKind[c] = "drop" =>
            IF Target[c] = Control THEN OpKind[o] = "load"
            ELSE OpKind[o] = "load" => OpGraph[o] # Target[c]

BackedInv ==
    /\ \A c \in Commands : cmd[c].pc = "dropping" =>
         /\ Target[c] \in DOMAIN cmd[c].backup
         /\ cmd[c].backup[Target[c]] = content[Target[c]]
    /\ NothingUnbacked
-----------------------------------------------------------------------------
(* Locks and sequences of locks.                                           *)

\* Every command asks for control first, and for what it dumps.
LEMMA LockOrderFacts ==
    ASSUME NEW c \in Commands
    PROVE  /\ LockOrder(c) \in Seq(Databases) /\ LockOrder(c) # <<>>
           /\ Head(LockOrder(c)) = Control
           /\ {Control} \cup ToDump(c) \subseteq Range(LockOrder(c))
           /\ Range(LockOrder(c)) \subseteq Databases
<1>1. /\ GraphOrder \in Seq(GraphDatabases)
      /\ Target[c] \in Databases
  BY MaintenanceAssumption DEF Databases, GraphDatabases
<1>2. CASE CommandKind[c] = "dump_all" \/ Target[c] = Control
  <2> DEFINE s == <<Control>> \o GraphOrder
  <2>1. s \in Seq(Databases) /\ s # <<>> /\ Len(s) = 1 + Len(GraphOrder) /\ s[1] = Control
    <3>1. <<Control>> \in Seq(Databases) /\ GraphOrder \in Seq(Databases)
      BY SMT, <1>1 DEF Databases
    <3>2. s \in Seq(Databases)
      BY SMT, <3>1
    <3>3. Len(s) = 1 + Len(GraphOrder) /\ s[1] = Control
      BY SMT, <3>1
    <3>4. s # <<>>
      BY SMT, <3>1, <3>2, <3>3
    <3> QED
      BY <3>2, <3>3, <3>4
  <2>2. \A i \in 1 .. Len(GraphOrder) : s[i + 1] = GraphOrder[i] /\ i + 1 \in DOMAIN s
    BY SMT, <1>1, <2>1
  <2>3. Databases \subseteq Range(s)
    <3>1. Control \in Range(s)
      BY SMT, <2>1 DEF Range
    <3>2. ASSUME NEW d \in GraphDatabases PROVE d \in Range(s)
      <4>1. PICK i \in DOMAIN GraphOrder : d = GraphOrder[i]
        BY DEF GraphDatabases, Range
      <4>2. i \in 1 .. Len(GraphOrder)
        BY SMT, <1>1, <4>1
      <4> QED
        BY <2>2, <4>1, <4>2 DEF Range
    <3> QED
      BY <3>1, <3>2 DEF Databases
  <2>4. LockOrder(c) = s
    BY <1>2 DEF LockOrder
  <2>5. Range(s) \subseteq Databases
    BY SMT, <2>1 DEF Range
  <2> QED
    BY SMT, <1>1, <2>1, <2>3, <2>4, <2>5 DEF ToDump, Databases
<1>3. CASE ~(CommandKind[c] = "dump_all" \/ Target[c] = Control)
  <2>1. LockOrder(c) = <<Control, Target[c]>> /\ ToDump(c) = {Target[c]}
    BY <1>3 DEF LockOrder, ToDump
  <2> QED
    BY SMT, <1>1, <2>1 DEF Range, Databases
<1> QED
  BY <1>2, <1>3

\* What a command holds and what it still needs, after one more grant.
LEMMA GrantMoves ==
    ASSUME NEW S, NEW h \in Seq(S), NEW n \in Seq(S), n # <<>>
    PROVE  /\ Append(h, Head(n)) \in Seq(S) /\ Tail(n) \in Seq(S) /\ Head(n) \in S
           /\ Append(h, Head(n)) # <<>>
           /\ Range(Append(h, Head(n))) = Range(h) \cup {Head(n)}
           /\ Range(n) = {Head(n)} \cup Range(Tail(n))
<1>1. /\ Append(h, Head(n)) \in Seq(S) /\ Tail(n) \in Seq(S) /\ Head(n) \in S
      /\ Append(h, Head(n)) # <<>>
  BY SMT
<1>2. Range(Append(h, Head(n))) = Range(h) \cup {Head(n)}
  <2>1. DOMAIN Append(h, Head(n)) = DOMAIN h \cup {Len(h) + 1}
    BY SMT
  <2>2. \A i \in DOMAIN h : Append(h, Head(n))[i] = h[i]
    BY SMT
  <2>3. Append(h, Head(n))[Len(h) + 1] = Head(n)
    BY SMT
  <2> QED
    BY <2>1, <2>2, <2>3 DEF Range
<1>3. Range(n) = {Head(n)} \cup Range(Tail(n))
  <2>1. \A i \in DOMAIN Tail(n) : Tail(n)[i] = n[i + 1] /\ i + 1 \in DOMAIN n
    BY SMT
  <2>2. ASSUME NEW i \in DOMAIN n, i # 1
        PROVE  i - 1 \in DOMAIN Tail(n) /\ Tail(n)[i - 1] = n[i]
    <3>1. i \in 1 .. Len(n) /\ i - 1 \in 1 .. (Len(n) - 1) /\ Len(Tail(n)) = Len(n) - 1
      BY SMT, <2>2
    <3>2. Tail(n)[i - 1] = n[(i - 1) + 1]
      BY SMT, <3>1
    <3> QED
      BY SMT, <3>1, <3>2
  <2>3. 1 \in DOMAIN n /\ n[1] = Head(n)
    BY SMT
  <2>4. \A x \in Range(n) : x = Head(n) \/ x \in Range(Tail(n))
    BY ZenonT(40), <2>2, <2>3 DEF Range
  <2>5. \A x \in Range(Tail(n)) : x \in Range(n)
    BY <2>1 DEF Range
  <2>6. Head(n) \in Range(n)
    BY <2>3 DEF Range
  <2> QED
    BY <2>4, <2>5, <2>6
<1> QED
  BY <1>1, <1>2, <1>3

-----------------------------------------------------------------------------
(* Ordinary work and the window.                                           *)

\* What a step of one operation may do: it enters only databases that no
\* command holds, and writes only where it is inside.
OpEffect(o) ==
    /\ UNCHANGED <<excl, cmd, kept, unbacked, cast>>
    /\ op' \in [Ops -> OpStates] /\ shared' \in [Databases -> SUBSET Ops]
    /\ content' \in [Databases -> SUBSET Items]
    /\ \A p \in Ops \ {o} : op'[p] = op[p]
    /\ \A d \in Databases, p \in Ops \ {o} : p \in shared'[d] <=> p \in shared[d]
    /\ \A d \in Databases : excl[d] # {} => shared'[d] \subseteq shared[d]
    /\ \A d \in Databases :
         \/ content'[d] = content[d]
         \/ /\ op[o] # "idle" /\ o \in shared[d]
            /\ IF d = Control THEN OpKind[o] # "load" ELSE d = OpGraph[o]
    /\ WorkHolds(o)'

\* run_once and a direct refresh ask for admission to control.
LEMMA EnterControlEffect ==
    ASSUME WindowInv, NEW o \in Ops \cap cast, EnterControl(o), UNCHANGED cast
    PROVE  OpEffect(o)
<1>1. Control \in Databases /\ OpGraph[o] \in Databases
  BY MaintenanceAssumption DEF Databases, GraphDatabases
<1>2. op'[o] \in {"claiming", "entering"} /\ o \in shared'[Control]
  BY <1>1 DEF WindowInv, WindowTypes, EnterControl, TakesShared, Goes
<1>3. OpKind[o] # "load"
  BY DEF EnterControl, ByControl
<1>4. WorkHolds(o)'
  BY <1>2, <1>3 DEF WorkHolds
<1> QED
  BY <1>1, <1>4 DEF WindowInv, WindowTypes, EnterControl, TakesShared, Goes, Admitted, OpEffect,
     OpStates

\* claim_next writes the claim only when control still admits it.
LEMMA ClaimEffect ==
    ASSUME WindowInv, NEW o \in Ops \cap cast, Claim(o), UNCHANGED cast
    PROVE  OpEffect(o)
<1>1. Control \in Databases /\ OpGraph[o] \in Databases /\ WorkHolds(o)
  BY MaintenanceAssumption DEF Databases, GraphDatabases, WindowInv
<1>2. OpKind[o] # "load" /\ o \in shared[Control] /\ op[o] # "idle"
  BY <1>1 DEF WorkHolds, Claim
<1>3. op'[o] \in {"entering", "leaving"} /\ UNCHANGED shared
  BY DEF WindowInv, WindowTypes, Claim, Goes
<1>4. WorkHolds(o)'
  BY <1>2, <1>3 DEF WorkHolds
<1>5. <<o, "claimed">> \in Items
  BY DEF Items
<1>6. /\ content' \in [Databases -> SUBSET Items]
      /\ \A d \in Databases : content'[d] = content[d] \/ d = Control
  <2>1. CASE UNCHANGED content
    BY <2>1 DEF WindowInv, WindowTypes
  <2>2. CASE Writes(Control, <<o, "claimed">>)
    <3> DEFINE item == <<o, "claimed">>
    <3> HIDE DEF item
    <3> QED
      BY <1>1, <1>5, <2>2 DEF WindowInv, WindowTypes, Writes
  <2> QED
    BY <2>1, <2>2 DEF Claim
<1> QED
  BY <1>1, <1>2, <1>3, <1>4, <1>6 DEF WindowInv, WindowTypes, Claim, Goes, OpEffect, OpStates

\* Staged ingestion asks for admission to the graph's database.
LEMMA EnterGraphEffect ==
    ASSUME WindowInv, NEW o \in Ops \cap cast, EnterGraph(o), UNCHANGED cast
    PROVE  OpEffect(o)
<1>1. /\ Control \in Databases /\ OpGraph[o] \in Databases /\ OpGraph[o] # Control
      /\ WorkHolds(o)
  BY MaintenanceAssumption DEF Databases, GraphDatabases, WindowInv
<1>2. \/ OpKind[o] = "load"
      \/ o \in shared[Control]
  BY <1>1 DEF WorkHolds, EnterGraph
<1>3. CASE Admitted(OpGraph[o])
  <2>1. op'[o] = "publishing" /\ o \in shared'[OpGraph[o]] /\ shared'[Control] = shared[Control]
    BY SMT, <1>1, <1>3 DEF WindowInv, WindowTypes, EnterGraph, TakesShared, Goes
  <2>2. WorkHolds(o)'
    BY <1>2, <2>1 DEF WorkHolds
  <2> QED
    BY SMT, <1>1, <1>3, <2>2 DEF WindowInv, WindowTypes, EnterGraph, TakesShared, Goes, Admitted,
       OpEffect, OpStates
<1>4. CASE ~Admitted(OpGraph[o])
  <2>1. op'[o] \in {"settling", "leaving"} /\ op[o] = "entering" /\ UNCHANGED shared
    BY <1>4 DEF WindowInv, WindowTypes, EnterGraph, Goes
  <2>2. WorkHolds(o)'
    BY <1>1, <2>1 DEF WorkHolds
  <2> QED
    BY <1>1, <1>4, <2>1, <2>2 DEF WindowInv, WindowTypes, EnterGraph, Goes, OpEffect, OpStates
<1> QED
  BY <1>3, <1>4

\* A publication is written inside the graph's database.
LEMMA PublishEffect ==
    ASSUME WindowInv, NEW o \in Ops \cap cast, Publish(o), UNCHANGED cast
    PROVE  OpEffect(o)
<1>1. /\ Control \in Databases /\ OpGraph[o] \in Databases /\ OpGraph[o] # Control
      /\ WorkHolds(o)
  BY MaintenanceAssumption DEF Databases, GraphDatabases, WindowInv
<1>2. o \in shared[OpGraph[o]] /\ (OpKind[o] = "load" \/ o \in shared[Control])
  BY <1>1 DEF WorkHolds, Publish
<1>3. op'[o] = "published" /\ op[o] # "idle" /\ UNCHANGED shared
  BY DEF WindowInv, WindowTypes, Publish, Goes
<1>4. WorkHolds(o)'
  BY <1>2, <1>3 DEF WorkHolds
<1>5. o \in Items
  BY DEF Items
<1>6. /\ content' \in [Databases -> SUBSET Items]
      /\ \A d \in Databases : content'[d] = content[d] \/ d = OpGraph[o]
  BY <1>1, <1>5 DEF WindowInv, WindowTypes, Publish, Writes
<1> QED
  BY <1>1, <1>2, <1>3, <1>4, <1>6 DEF WindowInv, WindowTypes, Publish, Goes, OpEffect, OpStates

\* The ingestion's connection closes.
LEMMA LeaveGraphEffect ==
    ASSUME WindowInv, NEW o \in Ops \cap cast, LeaveGraph(o), UNCHANGED cast
    PROVE  OpEffect(o)
<1>1. /\ Control \in Databases /\ OpGraph[o] \in Databases /\ OpGraph[o] # Control
      /\ WorkHolds(o)
  BY MaintenanceAssumption DEF Databases, GraphDatabases, WindowInv
<1>2. op'[o] \in {"settling_published", "leaving", "idle"}
      /\ (OpKind[o] = "load" => op'[o] = "idle")
  BY DEF WindowInv, WindowTypes, LeaveGraph, Goes
<1>3. shared'[Control] = shared[Control] /\ shared' \in [Databases -> SUBSET Ops]
  BY <1>1 DEF WindowInv, WindowTypes, LeaveGraph, LeavesShared
<1>4. WorkHolds(o)'
  BY <1>1, <1>2, <1>3 DEF WorkHolds, LeaveGraph
<1>5. \A d \in Databases, p \in Ops \ {o} : p \in shared'[d] <=> p \in shared[d]
  BY <1>1 DEF WindowInv, WindowTypes, LeaveGraph, LeavesShared
<1>6. \A d \in Databases : shared'[d] \subseteq shared[d]
  BY <1>1 DEF WindowInv, WindowTypes, LeaveGraph, LeavesShared
<1> QED
  BY <1>1, <1>2, <1>3, <1>4, <1>5, <1>6 DEF WindowInv, WindowTypes, LeaveGraph, Goes, OpEffect,
     OpStates

\* The disposition of an attempt is written while it still holds control.
LEMMA SettleEffect ==
    ASSUME WindowInv, NEW o \in Ops \cap cast, Settle(o), UNCHANGED cast
    PROVE  OpEffect(o)
<1>1. Control \in Databases /\ OpGraph[o] \in Databases /\ WorkHolds(o)
  BY MaintenanceAssumption DEF Databases, GraphDatabases, WindowInv
<1>2. OpKind[o] # "load" /\ o \in shared[Control] /\ op[o] # "idle"
  BY <1>1 DEF WorkHolds, Settle
<1>3. op'[o] = "leaving" /\ UNCHANGED shared
  BY DEF WindowInv, WindowTypes, Settle, Goes
<1>4. WorkHolds(o)'
  BY <1>2, <1>3 DEF WorkHolds
<1> DEFINE item == <<o, IF op[o] = "settling" THEN "failed" ELSE "published">>
<1>5. item \in Items
  BY DEF Items
<1>6. Writes(Control, item)
  BY DEF Settle
<1> HIDE DEF item
<1>7. /\ content' \in [Databases -> SUBSET Items]
      /\ \A d \in Databases : content'[d] = content[d] \/ d = Control
  BY <1>1, <1>5, <1>6 DEF WindowInv, WindowTypes, Writes
<1> QED
  BY <1>1, <1>2, <1>3, <1>4, <1>7 DEF WindowInv, WindowTypes, Settle, Goes, OpEffect, OpStates

\* The operation lets go of control.
LEMMA LeaveControlEffect ==
    ASSUME WindowInv, NEW o \in Ops \cap cast, LeaveControl(o), UNCHANGED cast
    PROVE  OpEffect(o)
<1>1. Control \in Databases
  BY DEF Databases
<1>2. op'[o] = "idle"
  BY DEF WindowInv, WindowTypes, LeaveControl, Goes
<1>3. WorkHolds(o)'
  BY <1>2 DEF WorkHolds
<1>4. /\ shared' \in [Databases -> SUBSET Ops]
      /\ \A d \in Databases, p \in Ops \ {o} : p \in shared'[d] <=> p \in shared[d]
      /\ \A d \in Databases : shared'[d] \subseteq shared[d]
  BY <1>1 DEF WindowInv, WindowTypes, LeaveControl, LeavesShared
<1> QED
  BY <1>2, <1>3, <1>4 DEF WindowInv, WindowTypes, LeaveControl, Goes, OpEffect, OpStates

\* A submission opens its transaction.
LEMMA BeginSubmitEffect ==
    ASSUME WindowInv, NEW o \in Ops \cap cast, BeginSubmit(o), UNCHANGED cast
    PROVE  OpEffect(o)
<1>1. Control \in Databases
  BY DEF Databases
<1>2. op'[o] = "submitting" /\ o \in shared'[Control] /\ OpKind[o] # "load"
  BY <1>1 DEF WindowInv, WindowTypes, BeginSubmit, TakesShared, Goes
<1>3. WorkHolds(o)'
  BY <1>2 DEF WorkHolds
<1> QED
  BY <1>1, <1>3 DEF WindowInv, WindowTypes, BeginSubmit, TakesShared, Goes, Admitted, OpEffect,
     OpStates

\* It commits, and the lock goes with the transaction.
LEMMA CommitSubmitEffect ==
    ASSUME WindowInv, NEW o \in Ops \cap cast, CommitSubmit(o), UNCHANGED cast
    PROVE  OpEffect(o)
<1>1. Control \in Databases /\ WorkHolds(o)
  BY DEF Databases, WindowInv
<1>2. OpKind[o] # "load" /\ o \in shared[Control] /\ op[o] # "idle"
  BY <1>1 DEF WorkHolds, CommitSubmit
<1>3. op'[o] = "idle"
  BY DEF WindowInv, WindowTypes, CommitSubmit, Goes
<1>4. WorkHolds(o)'
  BY <1>3 DEF WorkHolds
<1>5. /\ shared' \in [Databases -> SUBSET Ops]
      /\ \A d \in Databases, p \in Ops \ {o} : p \in shared'[d] <=> p \in shared[d]
      /\ \A d \in Databases : shared'[d] \subseteq shared[d]
  BY <1>1 DEF WindowInv, WindowTypes, CommitSubmit, LeavesShared
<1> DEFINE item == <<o, "submitted">>
<1>6. item \in Items
  BY DEF Items
<1>7. Writes(Control, item)
  BY DEF CommitSubmit
<1> HIDE DEF item
<1>8. /\ content' \in [Databases -> SUBSET Items]
      /\ \A d \in Databases : content'[d] = content[d] \/ d = Control
  BY <1>1, <1>6, <1>7 DEF WindowInv, WindowTypes, Writes
<1> QED
  BY <1>1, <1>2, <1>3, <1>4, <1>5, <1>8 DEF WindowInv, WindowTypes, CommitSubmit, Goes, OpEffect,
     OpStates

\* The process dies and its connections close.
LEMMA OpKilledEffect ==
    ASSUME WindowInv, NEW o \in Ops \cap cast, OpKilled(o), UNCHANGED cast
    PROVE  OpEffect(o)
<1>1. op'[o] = "idle"
  BY DEF WindowInv, WindowTypes, OpKilled, Goes
<1>2. WorkHolds(o)'
  BY <1>1 DEF WorkHolds
<1> QED
  BY <1>1, <1>2 DEF WindowInv, WindowTypes, OpKilled, Goes, OpEffect, OpStates

\* Every step of an operation has the effect.
LEMMA OpEffects ==
    ASSUME WindowInv, NEW o \in Ops \cap cast, UNCHANGED cast,
           OpStart(o) \/ OpStep(o) \/ OpKilled(o)
    PROVE  OpEffect(o)
BY EnterControlEffect, ClaimEffect, EnterGraphEffect, PublishEffect, LeaveGraphEffect,
   SettleEffect, LeaveControlEffect, BeginSubmitEffect, CommitSubmitEffect, OpKilledEffect
   DEF OpStart, OpStep

\* Inside a window nobody writes what the command locked.
LEMMA WindowIsQuiet ==
    ASSUME WindowInv, NEW c \in Commands, IsOpen(c), NEW o, OpEffect(o),
           NEW d \in Range(LockOrder(c))
    PROVE  d \in Databases /\ content'[d] = content[d]
<1>1. d \in Databases
  BY LockOrderFacts
<1>2. excl[d] = {c}
  BY DEF WindowInv, CommandHolds
<1>3. shared[d] = {}
  BY <1>1, <1>2 DEF WindowInv, LocksExclude
<1> QED
  BY <1>1, <1>3 DEF OpEffect

\* The window survives every step of ordinary work.
LEMMA OpKeepsWindow ==
    ASSUME WindowInv, NEW o \in Ops \cap cast, OpEffect(o)
    PROVE  WindowInv'
<1>1. WindowTypes'
  BY DEF WindowInv, WindowTypes, OpEffect, RowShape, Row
<1>2. LocksExclude'
  BY DEF WindowInv, LocksExclude, OpEffect
<1>3. ASSUME NEW p \in Ops PROVE WorkHolds(p)'
  <2>1. CASE p = o
    BY <2>1 DEF OpEffect
  <2>2. CASE p # o
    <3>1. Control \in Databases /\ OpGraph[p] \in Databases
      BY MaintenanceAssumption DEF Databases, GraphDatabases
    <3>2. /\ op'[p] = op[p] /\ cast' = cast
          /\ p \in shared'[Control] <=> p \in shared[Control]
          /\ p \in shared'[OpGraph[p]] <=> p \in shared[OpGraph[p]]
      BY <2>2, <3>1 DEF OpEffect
    <3>3. WorkHolds(p)
      BY DEF WindowInv
    <3> QED
      BY <3>2, <3>3 DEF WorkHolds
  <2> QED
    BY <2>1, <2>2
<1>4. ASSUME NEW c \in Commands PROVE CommandHolds(c)' /\ BackupHolds(c)'
  <2>1. CommandHolds(c) /\ BackupHolds(c) /\ cmd' = cmd /\ excl' = excl /\ cast' = cast
    BY DEF WindowInv, OpEffect
  <2>2. CommandHolds(c)'
    BY <2>1 DEF CommandHolds, IsOpen
  <2>3. ASSUME IsOpen(c), NEW d \in DOMAIN cmd[c].backup
        PROVE  cmd[c].backup[d] = content'[d]
    <3>1. d \in Range(LockOrder(c)) /\ cmd[c].backup[d] = content[d]
      BY <2>1, <2>3, LockOrderFacts DEF BackupHolds
    <3> QED
      BY <2>3, <3>1, WindowIsQuiet
  <2>4. BackupHolds(c)'
    BY <2>1, <2>3 DEF BackupHolds, IsOpen
  <2> QED
    BY <2>2, <2>4
<1> QED
  BY <1>1, <1>2, <1>3, <1>4 DEF WindowInv

\* Where the gap of a drop is quiet, its backup stays complete in the gap.
LEMMA OpKeepsBacked ==
    ASSUME GapIsQuiet, WindowInv, BackedInv, NEW o \in Ops \cap cast, OpEffect(o)
    PROVE  BackedInv'
<1>1. ASSUME NEW c \in Commands, cmd[c].pc = "dropping"
      PROVE  content'[Target[c]] = content[Target[c]]
  <2>1. /\ CommandHolds(c) /\ CommandKind[c] = "drop" /\ Target[c] \in Databases
        /\ Control \in Databases /\ WorkHolds(o)
    BY <1>1, MaintenanceAssumption DEF WindowInv, BackupHolds, Databases, GraphDatabases
  <2>2. c \in cast /\ cast \in Casts
    BY <1>1, <2>1 DEF CommandHolds, WindowInv, WindowTypes
  <2>3. CASE Target[c] = Control
    <3>1. OpKind[o] = "load"
      BY <2>1, <2>2, <2>3 DEF GapIsQuiet
    <3> QED
      BY <2>1, <2>3, <3>1 DEF OpEffect
  <2>4. CASE Target[c] # Control
    <3>1. OpKind[o] = "load" => OpGraph[o] # Target[c]
      BY <2>1, <2>2, <2>4 DEF GapIsQuiet
    <3>2. shared[Control] = {}
      BY <1>1, <2>1, <2>4 DEF CommandHolds, WindowInv, LocksExclude
    <3>3. OpKind[o] = "load" \/ op[o] = "idle"
      BY <2>1, <3>2 DEF WorkHolds
    <3> QED
      BY <2>1, <2>4, <3>1, <3>3 DEF OpEffect
  <2> QED
    BY <2>3, <2>4
<1> QED
  BY <1>1 DEF BackedInv, NothingUnbacked, OpEffect

-----------------------------------------------------------------------------
(* Attempts and what a coordinated backup set shows of them.               *)

Ends == {"claimed", "published", "failed"}

\* What a step of one operation says about attempts: only its own, and that
\* one agrees again unless it was killed.
TellsOf(o) ==
    /\ killed \subseteq killed'
    /\ \A p \in Ops \ {o} :
         /\ p \in content'[OpGraph[p]] <=> p \in content[OpGraph[p]]
         /\ \A e \in Ends : <<p, e>> \in content'[Control] <=> <<p, e>> \in content[Control]
    /\ OpKind[o] = "attempt" /\ o \notin killed' /\ AttemptAgrees(o) => AttemptAgrees(o)'

\* A record of an operation in control is no other operation's.
LEMMA ControlWrites ==
    ASSUME WindowInv, NEW o \in Ops, NEW e, Writes(Control, <<o, e>>)
    PROVE  /\ \A d \in Databases \ {Control} : content'[d] = content[d]
           /\ content'[Control] = content[Control] \cup {<<o, e>>}
           /\ \A p \in Ops \ {o} :
                /\ p \in content'[OpGraph[p]] <=> p \in content[OpGraph[p]]
                /\ \A x \in Ends : <<p, x>> \in content'[Control] <=> <<p, x>> \in content[Control]
<1> DEFINE item == <<o, e>>
<1>1. \A p \in Ops \ {o}, x \in Ends : <<p, x>> # item
  OBVIOUS
<1>2. Writes(Control, item) /\ Control \in Databases
  BY DEF Databases
<1> HIDE DEF item
<1>3. /\ \A d \in Databases \ {Control} : content'[d] = content[d]
      /\ content'[Control] = content[Control] \cup {item}
  BY <1>2 DEF Writes, WindowInv, WindowTypes
<1>4. \A p \in Ops : OpGraph[p] \in Databases \ {Control}
  BY MaintenanceAssumption DEF Databases, GraphDatabases
<1>5. \A p \in Ops \ {o} :
         /\ p \in content'[OpGraph[p]] <=> p \in content[OpGraph[p]]
         /\ \A x \in Ends : <<p, x>> \in content'[Control] <=> <<p, x>> \in content[Control]
  BY <1>1, <1>3, <1>4
<1> QED
  BY <1>3, <1>5 DEF item

\* Every step of an operation tells of that operation alone.
LEMMA OpTells ==
    ASSUME WindowInv, NEW o \in Ops \cap cast, OpStart(o) \/ OpStep(o) \/ OpKilled(o)
    PROVE  TellsOf(o)
<1>1. /\ Control \in Databases /\ OpGraph[o] \in Databases /\ OpGraph[o] # Control
      /\ op \in [Ops -> OpStates] /\ content \in [Databases -> SUBSET Items]
  BY SMT, MaintenanceAssumption DEF Databases, GraphDatabases, WindowInv, WindowTypes
<1>2. CASE EnterControl(o)
  <2>1. OpKind[o] = "attempt" => op[o] = "idle" /\ op'[o] = "claiming"
    BY <1>1, <1>2 DEF EnterControl, Goes
  <2> QED
    BY <1>2, <2>1 DEF EnterControl, TellsOf, AttemptAgrees
<1>3. CASE Claim(o)
  <2>1. CASE Admitted(Control)
    <3>1. Writes(Control, <<o, "claimed">>) /\ op'[o] = "entering" /\ op[o] = "claiming"
      BY <1>1, <1>3, <2>1 DEF Claim, Goes
    <3>2. /\ content'[OpGraph[o]] = content[OpGraph[o]]
          /\ content'[Control] = content[Control] \cup {<<o, "claimed">>}
      BY <1>1, <3>1, ControlWrites
    <3>3. <<o, "published">> \in content'[Control] <=> <<o, "published">> \in content[Control]
      BY <3>2
    <3>4. AttemptAgrees(o) => AttemptAgrees(o)'
      BY <3>1, <3>2, <3>3 DEF AttemptAgrees
    <3> QED
      BY <1>3, <3>1, <3>4, ControlWrites DEF TellsOf, Claim
  <2>2. CASE ~Admitted(Control)
    <3>1. op'[o] = "leaving" /\ op[o] = "claiming" /\ UNCHANGED <<content, killed>>
      BY <1>1, <1>3, <2>2 DEF Claim, Goes
    <3> QED
      BY <3>1 DEF TellsOf, AttemptAgrees
  <2> QED
    BY <2>1, <2>2
<1>4. CASE EnterGraph(o)
  <2>1. UNCHANGED <<content, killed>>
    BY <1>4 DEF EnterGraph
  <2>2. OpKind[o] = "attempt" => op[o] = "entering" /\ op'[o] \in {"publishing", "settling"}
    BY <1>1, <1>4 DEF EnterGraph, Goes
  <2> QED
    BY <2>1, <2>2 DEF TellsOf, AttemptAgrees
<1>5. CASE Publish(o)
  <2>1. /\ op'[o] = "published" /\ UNCHANGED killed
        /\ content'[OpGraph[o]] = content[OpGraph[o]] \cup {o}
        /\ \A d \in Databases \ {OpGraph[o]} : content'[d] = content[d]
    BY <1>1, <1>5 DEF Publish, Goes, Writes
  <2>2. AttemptAgrees(o)'
    BY <2>1 DEF AttemptAgrees
  <2>3. \A p \in Ops : OpGraph[p] \in Databases
    BY MaintenanceAssumption DEF Databases, GraphDatabases
  <2> QED
    BY <1>1, <2>1, <2>2, <2>3 DEF TellsOf
<1>6. CASE LeaveGraph(o)
  <2>1. /\ UNCHANGED <<content, killed>> /\ op[o] = "published"
        /\ OpKind[o] = "attempt" => op'[o] = "settling_published"
    BY <1>1, <1>6 DEF LeaveGraph, Goes
  <2> QED
    BY <2>1 DEF TellsOf, AttemptAgrees
<1>7. CASE Settle(o)
  <2>1. op'[o] = "leaving" /\ UNCHANGED killed
    BY <1>1, <1>7 DEF Settle, Goes
  <2>2. CASE op[o] = "settling"
    <3>1. Writes(Control, <<o, "failed">>)
      BY <1>7, <2>2 DEF Settle
    <3>2. /\ content'[OpGraph[o]] = content[OpGraph[o]]
          /\ content'[Control] = content[Control] \cup {<<o, "failed">>}
      BY <1>1, <3>1, ControlWrites
    <3>3. /\ <<o, "published">> \in content'[Control] <=> <<o, "published">> \in content[Control]
          /\ <<o, "failed">> \in content'[Control]
      BY <3>2
    <3> QED
      BY <2>1, <2>2, <3>1, <3>2, <3>3, ControlWrites DEF TellsOf, AttemptAgrees
  <2>3. CASE op[o] = "settling_published"
    <3>1. Writes(Control, <<o, "published">>)
      BY <1>7, <2>3 DEF Settle
    <3>2. /\ content'[OpGraph[o]] = content[OpGraph[o]]
          /\ content'[Control] = content[Control] \cup {<<o, "published">>}
      BY <1>1, <3>1, ControlWrites
    <3>3. <<o, "published">> \in content'[Control]
      BY <3>2
    <3> QED
      BY <2>1, <2>3, <3>1, <3>2, <3>3, ControlWrites DEF TellsOf, AttemptAgrees
  <2> QED
    BY <1>7, <2>2, <2>3 DEF Settle
<1>8. CASE LeaveControl(o)
  <2>1. op'[o] = "idle" /\ op[o] = "leaving" /\ UNCHANGED <<content, killed>>
    BY <1>1, <1>8 DEF LeaveControl, Goes
  <2> QED
    BY <2>1 DEF TellsOf, AttemptAgrees
<1>9. CASE BeginSubmit(o)
  <2>1. OpKind[o] # "attempt" /\ UNCHANGED <<content, killed>>
    BY <1>9 DEF BeginSubmit
  <2> QED
    BY <2>1 DEF TellsOf
<1>10. CASE CommitSubmit(o)
  <2>1. op'[o] = "idle" /\ op[o] = "submitting" /\ UNCHANGED killed
    BY <1>1, <1>10 DEF CommitSubmit, Goes
  <2>2. Writes(Control, <<o, "submitted">>)
    BY <1>10 DEF CommitSubmit
  <2>3. /\ content'[OpGraph[o]] = content[OpGraph[o]]
        /\ \A e \in Ends : <<o, e>> \in content'[Control] <=> <<o, e>> \in content[Control]
    BY SMT, <1>1, <2>2, ControlWrites DEF Ends
  <2>4. AttemptAgrees(o) => AttemptAgrees(o)'
    BY <2>1, <2>3 DEF AttemptAgrees, Ends
  <2> QED
    BY <2>1, <2>2, <2>4, ControlWrites DEF TellsOf
<1>11. CASE OpKilled(o)
  BY <1>11 DEF OpKilled, TellsOf
<1> QED
  BY <1>2, <1>3, <1>4, <1>5, <1>6, <1>7, <1>8, <1>9, <1>10, <1>11 DEF OpStart, OpStep

\* The agreement survives every step of ordinary work.
LEMMA OpKeepsStable ==
    ASSUME WindowInv, StableInv, NEW o \in Ops \cap cast, OpEffect(o), TellsOf(o)
    PROVE  StableInv'
<1>1. ASSUME NEW p \in Ops \ killed', OpKind[p] = "attempt" PROVE AttemptAgrees(p)'
  <2>1. p \notin killed /\ AttemptAgrees(p)
    BY <1>1 DEF TellsOf, StableInv
  <2>2. CASE p = o
    BY <1>1, <2>1, <2>2 DEF TellsOf
  <2>3. CASE p # o
    <3>1. /\ op'[p] = op[p]
          /\ p \in content'[OpGraph[p]] <=> p \in content[OpGraph[p]]
          /\ \A e \in Ends : <<p, e>> \in content'[Control] <=> <<p, e>> \in content[Control]
      BY <2>3 DEF OpEffect, TellsOf
    <3> QED
      BY <2>1, <3>1 DEF AttemptAgrees, Ends
  <2> QED
    BY <2>2, <2>3
<1>2. BackupSetIsStable'
  BY DEF BackupSetIsStable, StableInv, TellsOf, OpEffect
<1> QED
  BY <1>1, <1>2 DEF StableInv

-----------------------------------------------------------------------------
(* Commands and the window.                                                *)

\* Only the row of one command changes.
RowMoves(c) ==
    /\ RowShape'
    /\ \A w \in Commands \ {c} : cmd'[w] = cmd[w]
    /\ cmd'[c].pc \in CommandStates
    /\ cmd'[c].need \in Seq(Databases) /\ cmd'[c].held \in Seq(Databases)

\* What a step of one command, other than the end of a database's sessions,
\* may do: it takes no lock from anyone else and only a lock nobody has.
CommandEffect(c) ==
    /\ UNCHANGED <<content, shared, op, killed, cast>>
    /\ RowMoves(c) /\ cmd'[c].pc # "dropping"
    /\ excl' \in [Databases -> SUBSET Commands]
    /\ \A d \in Databases, w \in Commands \ {c} : excl[d] = {w} => excl'[d] = {w}
    /\ \A d \in Databases : excl'[d] # {} => shared[d] = {}
    /\ CommandHolds(c)' /\ BackupHolds(c)'

\* A step from one place of a command to another.
LEMMA PcMoves ==
    ASSUME WindowInv, NEW c \in Commands, NEW x \in CommandStates,
           cmd' = [cmd EXCEPT ![c].pc = x]
    PROVE  /\ RowMoves(c) /\ cmd'[c].pc = x /\ cmd'[c].need = cmd[c].need
           /\ cmd'[c].held = cmd[c].held /\ cmd'[c].backup = cmd[c].backup
<1>1. cmd = [w \in Commands |-> Row(w)]
  BY DEF WindowInv, WindowTypes, RowShape
<1>2. cmd[c] = Row(c)
  BY <1>1
<1>3. cmd'[c] = [pc |-> x, need |-> cmd[c].need, held |-> cmd[c].held, backup |-> cmd[c].backup]
  BY <1>1, <1>2 DEF Row
<1>4. \A w \in Commands \ {c} : cmd'[w] = cmd[w]
  BY <1>1
<1>5. \A w \in Commands : cmd'[w] = Row(w)'
  BY <1>1, <1>3, <1>4 DEF Row
<1>6. cmd' = [w \in Commands |-> cmd'[w]]
  BY <1>1
<1>7. RowShape'
  BY <1>5, <1>6 DEF RowShape
<1>8. cmd[c].need \in Seq(Databases) /\ cmd[c].held \in Seq(Databases)
  BY DEF WindowInv, WindowTypes
<1> QED
  BY SMT, <1>3, <1>4, <1>7, <1>8 DEF RowMoves

\* A command that gives up, or is done, only has its connections to close.
LEMMA ClosingEffect ==
    ASSUME WindowInv, NEW c \in Commands \cap cast, cmd' = [cmd EXCEPT ![c].pc = "closing"],
           UNCHANGED <<content, shared, excl, op, killed, cast>>
    PROVE  CommandEffect(c)
<1>1. RowMoves(c) /\ cmd'[c].pc = "closing"
  BY PcMoves DEF CommandStates
<1>2. CommandHolds(c)' /\ BackupHolds(c)'
  BY <1>1 DEF CommandHolds, BackupHolds, IsOpen
<1> QED
  BY <1>1, <1>2 DEF CommandEffect, WindowInv, WindowTypes, LocksExclude

\* The row of a command that holds nothing.
LEMMA IdleRow ==
    ASSUME WindowInv, NEW c \in Commands, cmd' = [cmd EXCEPT ![c] = Idle]
    PROVE  RowMoves(c) /\ cmd'[c].pc = "idle"
<1>1. cmd = [w \in Commands |-> Row(w)]
  BY DEF WindowInv, WindowTypes, RowShape
<1>2. cmd'[c] = Idle /\ \A w \in Commands \ {c} : cmd'[w] = cmd[w]
  BY <1>1
<1>3. cmd'[c] = Row(c)' /\ cmd'[c].pc = "idle" /\ cmd'[c].need = <<>> /\ cmd'[c].held = <<>>
  BY SMT, <1>2 DEF Row, Idle
<1>4. \A w \in Commands : cmd'[w] = Row(w)'
  BY <1>1, <1>2, <1>3 DEF Row
<1>5. cmd' = [w \in Commands |-> cmd'[w]]
  BY <1>1
<1>6. RowShape'
  BY <1>4, <1>5 DEF RowShape
<1>7. <<>> \in Seq(Databases) /\ "idle" \in CommandStates
  BY SMT DEF CommandStates
<1> QED
  BY <1>2, <1>3, <1>6, <1>7 DEF RowMoves

\* The command line process starts.
LEMMA BeginCommandEffect ==
    ASSUME WindowInv, NEW c \in Commands \cap cast, BeginCommand(c), UNCHANGED cast
    PROVE  CommandEffect(c)
<1>1. cmd = [w \in Commands |-> Row(w)]
  BY DEF WindowInv, WindowTypes, RowShape
<1> DEFINE row == [pc |-> "acquiring", need |-> LockOrder(c), held |-> <<>>,
                   backup |-> [d \in {} |-> {}]]
<1>2. cmd'[c] = row /\ \A w \in Commands \ {c} : cmd'[w] = cmd[w]
  BY <1>1 DEF BeginCommand, Idle
<1>3. /\ cmd'[c] = Row(c)' /\ cmd'[c].pc = "acquiring" /\ cmd'[c].need = LockOrder(c)
      /\ cmd'[c].held = <<>> /\ DOMAIN cmd'[c].backup = {}
  BY SMT, <1>2 DEF Row
<1>4. \A w \in Commands : cmd'[w] = Row(w)'
  BY <1>1, <1>2, <1>3 DEF Row
<1>5. cmd' = [w \in Commands |-> cmd'[w]]
  BY <1>1 DEF BeginCommand
<1>6. RowShape'
  BY <1>4, <1>5 DEF RowShape
<1>7. RowMoves(c)
  BY SMT, <1>2, <1>3, <1>6, LockOrderFacts DEF RowMoves, CommandStates
<1>8. Range(cmd'[c].held) = {}
  BY SMT, <1>3 DEF Range
<1>9. CommandHolds(c)' /\ BackupHolds(c)'
  BY <1>3, <1>8, LockOrderFacts DEF CommandHolds, BackupHolds, IsOpen
<1> QED
  BY <1>3, <1>7, <1>9 DEF CommandEffect, BeginCommand, locks, WindowInv, WindowTypes, LocksExclude

\* A command waits for a lock, or finds the database gone.
LEMMA RequestLockEffect ==
    ASSUME WindowInv, NEW c \in Commands \cap cast, RequestLock(c), UNCHANGED cast
    PROVE  CommandEffect(c)
<1>1. CASE cmd' = [cmd EXCEPT ![c].pc = "closing"]
  BY <1>1, ClosingEffect DEF RequestLock
<1>2. CASE cmd' = [cmd EXCEPT ![c].pc = "waiting"]
  <2>1. /\ RowMoves(c) /\ cmd'[c].pc = "waiting" /\ cmd'[c].need = cmd[c].need
        /\ cmd'[c].held = cmd[c].held /\ cmd'[c].backup = cmd[c].backup
    BY <1>2, PcMoves DEF CommandStates
  <2>2. CommandHolds(c) /\ cmd[c].pc = "acquiring" /\ UNCHANGED excl
    BY DEF WindowInv, RequestLock
  <2>3. CommandHolds(c)' /\ BackupHolds(c)'
    BY <2>1, <2>2 DEF CommandHolds, BackupHolds, IsOpen
  <2> QED
    BY <2>1, <2>3 DEF CommandEffect, RequestLock, WindowInv, WindowTypes, LocksExclude
<1> QED
  BY <1>1, <1>2 DEF RequestLock

\* The lock is granted when nobody else has it; with the last one the window
\* is open.
LEMMA GrantedEffect ==
    ASSUME WindowInv, NEW c \in Commands \cap cast, Granted(c), UNCHANGED cast
    PROVE  CommandEffect(c)
<1> DEFINE d == Head(cmd[c].need)
           rest == Tail(cmd[c].need)
           pc == IF rest = <<>> THEN "dumping" ELSE "acquiring"
<1>1. /\ cmd = [w \in Commands |-> Row(w)] /\ cmd[c].pc = "waiting" /\ CommandHolds(c)
      /\ cmd[c].need \in Seq(Databases) /\ cmd[c].held \in Seq(Databases)
      /\ excl \in [Databases -> SUBSET Commands]
  BY DEF WindowInv, WindowTypes, RowShape, Granted
<1>2. /\ cmd[c].need # <<>> /\ DOMAIN cmd[c].backup = {}
      /\ Range(cmd[c].held) \cup Range(cmd[c].need) = Range(LockOrder(c))
      /\ IF cmd[c].held = <<>> THEN d = Control ELSE Control \in Range(cmd[c].held)
      /\ \A x \in Range(cmd[c].held) : excl[x] = {c}
  BY <1>1 DEF CommandHolds
<1>3. /\ Append(cmd[c].held, d) \in Seq(Databases) /\ rest \in Seq(Databases)
      /\ d \in Databases /\ Append(cmd[c].held, d) # <<>>
      /\ Range(Append(cmd[c].held, d)) = Range(cmd[c].held) \cup {d}
      /\ Range(cmd[c].need) = {d} \cup Range(rest)
  <2>1. \A h, n \in Seq(Databases) : n # <<>> =>
          /\ Append(h, Head(n)) \in Seq(Databases) /\ Tail(n) \in Seq(Databases)
          /\ Head(n) \in Databases /\ Append(h, Head(n)) # <<>>
          /\ Range(Append(h, Head(n))) = Range(h) \cup {Head(n)}
          /\ Range(n) = {Head(n)} \cup Range(Tail(n))
    BY SMT, GrantMoves
  <2> QED
    BY Zenon, <1>1, <1>2, <2>1
<1>4. /\ excl[d] = {} /\ shared[d] = {} /\ excl' = [excl EXCEPT ![d] = {c}]
      /\ cmd' = [cmd EXCEPT ![c] = [@ EXCEPT !.need = rest, !.held = Append(cmd[c].held, d),
                                       !.pc = pc]]
      /\ UNCHANGED <<content, shared, op, killed, cast>>
  BY DEF Granted
<1> HIDE DEF d, rest, pc
<1>5. cmd[c] = Row(c)
  BY <1>1
<1>6. cmd'[c] = [pc |-> pc, need |-> rest, held |-> Append(cmd[c].held, d),
                 backup |-> cmd[c].backup]
  BY <1>1, <1>4, <1>5 DEF Row
<1>7. /\ cmd'[c].pc = pc /\ cmd'[c].need = rest /\ cmd'[c].held = Append(cmd[c].held, d)
      /\ cmd'[c].backup = cmd[c].backup /\ cmd'[c] = Row(c)'
  BY SMT, <1>6 DEF Row
<1>8. \A w \in Commands \ {c} : cmd'[w] = cmd[w]
  BY <1>1, <1>4
<1>9. RowShape'
  <2>1. \A w \in Commands : cmd'[w] = Row(w)'
    BY <1>1, <1>7, <1>8 DEF Row
  <2>2. cmd' = [w \in Commands |-> cmd'[w]]
    BY <1>1, <1>4
  <2> QED
    BY <2>1, <2>2 DEF RowShape
<1>10. RowMoves(c)
  BY <1>3, <1>7, <1>8, <1>9 DEF RowMoves, CommandStates, pc
<1>11. /\ excl' \in [Databases -> SUBSET Commands] /\ excl'[d] = {c}
       /\ \A x \in Databases \ {d} : excl'[x] = excl[x]
  BY <1>1, <1>3, <1>4
<1>12. \A x \in Range(cmd'[c].held) : excl'[x] = {c}
  <2>1. Range(cmd[c].held) \subseteq Databases
    BY SMT, <1>1 DEF Range
  <2> QED
    BY <1>2, <1>3, <1>7, <1>11, <2>1
<1>13. CASE rest = <<>>
  <2>1. pc = "dumping" /\ Range(rest) = {}
    BY SMT, <1>13 DEF pc, Range
  <2>2. Range(cmd'[c].held) = Range(LockOrder(c))
    BY <1>2, <1>3, <1>7, <2>1
  <2>3. CommandHolds(c)' /\ BackupHolds(c)'
    BY <1>2, <1>4, <1>7, <1>12, <2>1, <2>2 DEF CommandHolds, BackupHolds, IsOpen
  <2> QED
    BY <1>1, <1>4, <1>7, <1>10, <1>11, <2>1, <2>3 DEF CommandEffect, WindowInv, LocksExclude
<1>14. CASE rest # <<>>
  <2>1. pc = "acquiring"
    BY <1>14 DEF pc
  <2>2. Range(cmd'[c].held) \cup Range(cmd'[c].need) = Range(LockOrder(c))
    BY <1>2, <1>3, <1>7
  <2>3. Control \in Range(cmd'[c].held) /\ cmd'[c].held # <<>>
    BY <1>2, <1>3, <1>7
  <2>4. CommandHolds(c)' /\ BackupHolds(c)'
    BY <1>2, <1>4, <1>7, <1>12, <1>14, <2>1, <2>2, <2>3 DEF CommandHolds, BackupHolds, IsOpen
  <2> QED
    BY <1>1, <1>4, <1>7, <1>10, <1>11, <2>1, <2>4 DEF CommandEffect, WindowInv, LocksExclude
<1> QED
  BY <1>13, <1>14

\* A connection closes; the lock it held goes with it.
LEMMA CloseEffect ==
    ASSUME WindowInv, NEW c \in Commands \cap cast, Close(c), UNCHANGED cast
    PROVE  CommandEffect(c)
<1> DEFINE d == cmd[c].held[Len(cmd[c].held)]
           rest == SubSeq(cmd[c].held, 1, Len(cmd[c].held) - 1)
<1>1. /\ cmd = [w \in Commands |-> Row(w)] /\ cmd[c].pc = "closing"
      /\ cmd[c].need \in Seq(Databases) /\ cmd[c].held \in Seq(Databases)
      /\ cmd[c].held # <<>> /\ excl \in [Databases -> SUBSET Commands]
  BY DEF WindowInv, WindowTypes, RowShape, Close
<1>2. d \in Databases /\ rest \in Seq(Databases)
  <2>1. Len(cmd[c].held) \in 1 .. Len(cmd[c].held) /\ Len(cmd[c].held) - 1 \in Nat
    BY SMT, <1>1
  <2>2. \A i \in 1 .. Len(cmd[c].held) - 1 : cmd[c].held[i] \in Databases
    BY SMT, <1>1
  <2>3. rest \in Seq(Databases)
    BY SMT, <1>1, <2>1, <2>2
  <2> QED
    BY SMT, <1>1, <2>1, <2>3
<1>3. /\ excl' = [excl EXCEPT ![d] = excl[d] \ {c}]
      /\ cmd' = [cmd EXCEPT ![c] = [cmd[c] EXCEPT !.held = rest]]
      /\ UNCHANGED <<content, shared, op, killed, cast>>
  BY <1>2 DEF Close
<1> HIDE DEF d, rest
<1>4. cmd[c] = Row(c)
  BY <1>1
<1>5. cmd'[c] = [pc |-> "closing", need |-> cmd[c].need, held |-> rest,
                 backup |-> cmd[c].backup]
  BY <1>1, <1>3, <1>4 DEF Row
<1>6. /\ cmd'[c].pc = "closing" /\ cmd'[c].need = cmd[c].need /\ cmd'[c].held = rest
      /\ cmd'[c] = Row(c)'
  BY SMT, <1>5 DEF Row
<1>7. \A w \in Commands \ {c} : cmd'[w] = cmd[w]
  BY <1>1, <1>3
<1>8. RowShape'
  <2>1. \A w \in Commands : cmd'[w] = Row(w)'
    BY <1>1, <1>6, <1>7 DEF Row
  <2>2. cmd' = [w \in Commands |-> cmd'[w]]
    BY <1>1, <1>3
  <2> QED
    BY <2>1, <2>2 DEF RowShape
<1>9. RowMoves(c)
  BY <1>1, <1>2, <1>6, <1>7, <1>8 DEF RowMoves, CommandStates
<1>10. /\ excl' \in [Databases -> SUBSET Commands] /\ excl'[d] = excl[d] \ {c}
       /\ \A x \in Databases \ {d} : excl'[x] = excl[x]
  BY <1>1, <1>2, <1>3
<1>11. CommandHolds(c)' /\ BackupHolds(c)'
  BY <1>3, <1>6 DEF CommandHolds, BackupHolds, IsOpen
<1> QED
  BY <1>3, <1>6, <1>9, <1>10, <1>11 DEF CommandEffect, WindowInv, LocksExclude

\* The last connection is closed.
LEMMA ClosedEffect ==
    ASSUME WindowInv, NEW c \in Commands \cap cast, Closed(c), UNCHANGED cast
    PROVE  CommandEffect(c)
<1>1. RowMoves(c) /\ cmd'[c].pc = "idle"
  BY IdleRow DEF Closed
<1>2. CommandHolds(c)' /\ BackupHolds(c)'
  BY <1>1 DEF CommandHolds, BackupHolds, IsOpen
<1> QED
  BY <1>1, <1>2 DEF CommandEffect, Closed, locks, WindowInv, WindowTypes, LocksExclude

\* The command's process dies and all its connections close.
LEMMA CommandKilledEffect ==
    ASSUME WindowInv, NEW c \in Commands \cap cast, CommandKilled(c), UNCHANGED cast
    PROVE  CommandEffect(c)
<1>1. RowMoves(c) /\ cmd'[c].pc = "idle"
  BY IdleRow DEF CommandKilled
<1>2. CommandHolds(c)' /\ BackupHolds(c)'
  BY <1>1 DEF CommandHolds, BackupHolds, IsOpen
<1> QED
  BY <1>1, <1>2 DEF CommandEffect, CommandKilled, WindowInv, WindowTypes, LocksExclude

\* The drop verifies its backup again.
LEMMA VerifyEffect ==
    ASSUME WindowInv, NEW c \in Commands \cap cast, VerifyDropBackup(c), UNCHANGED cast
    PROVE  CommandEffect(c)
<1>1. /\ RowMoves(c) /\ cmd'[c].pc = "terminating" /\ cmd'[c].backup = cmd[c].backup
      /\ cmd[c].pc = "verifying"
  BY PcMoves DEF CommandStates, VerifyDropBackup
<1>2. UNCHANGED <<content, shared, excl, op, killed, cast>>
  BY DEF VerifyDropBackup, locks
<1>3. CommandHolds(c) /\ BackupHolds(c)
  BY DEF WindowInv
<1>4. CommandHolds(c)' /\ BackupHolds(c)'
  BY <1>1, <1>2, <1>3 DEF CommandHolds, BackupHolds, IsOpen
<1> QED
  BY <1>1, <1>2, <1>4 DEF CommandEffect, WindowInv, WindowTypes, LocksExclude

\* A dump adds the database as it is now; a coordinated set is published when
\* it holds every database.
LEMMA DumpEffect ==
    ASSUME WindowInv, NEW c \in Commands \cap cast, Dump(c), UNCHANGED cast
    PROVE  /\ CommandEffect(c)
           /\ \A set \in kept' : \/ set \in kept
                                 \/ /\ CommandKind[c] = "dump_all" /\ IsOpen(c)
                                    /\ \A d \in Databases : set[d] = content[d]
<1>1. /\ cmd = [w \in Commands |-> Row(w)] /\ cmd[c].pc = "dumping" /\ IsOpen(c)
      /\ CommandHolds(c) /\ BackupHolds(c)
      /\ cmd[c].need \in Seq(Databases) /\ cmd[c].held \in Seq(Databases)
      /\ UNCHANGED <<content, shared, excl, op, killed, cast>>
  BY DEF WindowInv, WindowTypes, RowShape, Dump, IsOpen, locks
<1>2. PICK d \in ToDump(c) \ DOMAIN cmd[c].backup :
         LET set == [x \in DOMAIN cmd[c].backup \cup {d} |->
                        IF x = d THEN content[d] ELSE cmd[c].backup[x]]
             whole == DOMAIN set = ToDump(c)
         IN /\ cmd' = [cmd EXCEPT ![c] = [@ EXCEPT !.backup = set,
                                             !.pc = IF whole THEN AfterDump(c) ELSE "dumping"]]
            /\ kept' = IF whole /\ CommandKind[c] = "dump_all" THEN {set} ELSE kept
  BY DEF Dump
<1> DEFINE set == [x \in DOMAIN cmd[c].backup \cup {d} |->
                      IF x = d THEN content[d] ELSE cmd[c].backup[x]]
           whole == DOMAIN set = ToDump(c)
           pc == IF whole THEN AfterDump(c) ELSE "dumping"
<1>3. /\ cmd' = [cmd EXCEPT ![c] = [@ EXCEPT !.backup = set, !.pc = pc]]
      /\ kept' = IF whole /\ CommandKind[c] = "dump_all" THEN {set} ELSE kept
  BY <1>2
<1>4. DOMAIN set \subseteq ToDump(c) /\ \A x \in DOMAIN set : set[x] = content[x]
  BY <1>1 DEF BackupHolds
<1>5. /\ pc \in {"dumping", "closing", "migrating", "verifying"}
      /\ pc \in {"migrating", "verifying"} =>
           Target[c] \in DOMAIN set /\ (pc = "verifying" => CommandKind[c] = "drop")
  BY MaintenanceAssumption DEF AfterDump, ToDump
<1>6. whole /\ CommandKind[c] = "dump_all" => DOMAIN set = Databases
  BY DEF ToDump
<1> HIDE DEF set, pc
<1>7. cmd'[c] = [pc |-> pc, need |-> cmd[c].need, held |-> cmd[c].held, backup |-> set]
  <2>1. cmd[c] = Row(c)
    BY <1>1
  <2> QED
    BY <1>1, <1>3, <2>1 DEF Row
<1>8. /\ cmd'[c].pc = pc /\ cmd'[c].need = cmd[c].need /\ cmd'[c].held = cmd[c].held
      /\ cmd'[c].backup = set /\ cmd'[c] = Row(c)'
  BY SMT, <1>7 DEF Row
<1>9. \A w \in Commands \ {c} : cmd'[w] = cmd[w]
  BY <1>1, <1>3
<1>10. RowShape'
  <2>1. \A w \in Commands : cmd'[w] = Row(w)'
    BY <1>1, <1>8, <1>9 DEF Row
  <2>2. cmd' = [w \in Commands |-> cmd'[w]]
    BY <1>1, <1>3
  <2> QED
    BY <2>1, <2>2 DEF RowShape
<1>11. RowMoves(c)
  BY <1>1, <1>5, <1>8, <1>9, <1>10 DEF RowMoves, CommandStates
<1>12. CommandHolds(c)'
  BY <1>1, <1>5, <1>8 DEF CommandHolds, IsOpen
<1>13. BackupHolds(c)'
  BY <1>1, <1>4, <1>5, <1>8 DEF BackupHolds, IsOpen
<1>14. CommandEffect(c)
  BY <1>1, <1>5, <1>8, <1>11, <1>12, <1>13 DEF CommandEffect, WindowInv, WindowTypes,
     LocksExclude
<1> QED
  BY <1>1, <1>3, <1>4, <1>6, <1>14

\* Every step of a command but the end of a database's sessions.
LEMMA CommandEffects ==
    ASSUME WindowInv, NEW c \in Commands \cap cast, UNCHANGED cast,
           \/ BeginCommand(c) \/ CommandStep(c) \/ LockTimeout(c)
           \/ CommandKilled(c) \/ CallFails(c),
           ~Terminate(c)
    PROVE  CommandEffect(c)
<1>1. CASE LockTimeout(c) \/ CallFails(c) \/ Migrate(c) \/ Drop(c)
  <2>1. /\ cmd' = [cmd EXCEPT ![c].pc = "closing"]
        /\ UNCHANGED <<content, shared, excl, op, killed, cast>>
    BY <1>1 DEF LockTimeout, CallFails, Migrate, Drop, locks
  <2> QED
    BY <2>1, ClosingEffect
<1> QED
  BY <1>1, BeginCommandEffect, RequestLockEffect, GrantedEffect, CloseEffect, ClosedEffect,
     DumpEffect, VerifyEffect, CommandKilledEffect DEF CommandStep

\* The windows of the other commands survive it.
LEMMA CommandKeepsWindow ==
    ASSUME WindowInv, NEW c \in Commands, CommandEffect(c)
    PROVE  WindowInv'
<1>1. WindowTypes'
  BY DEF WindowInv, WindowTypes, CommandEffect, RowMoves
<1>2. LocksExclude' /\ \A o \in Ops : WorkHolds(o)'
  BY DEF WindowInv, LocksExclude, WorkHolds, CommandEffect
<1>3. ASSUME NEW w \in Commands PROVE CommandHolds(w)' /\ BackupHolds(w)'
  <2>1. CASE w = c
    BY <2>1 DEF CommandEffect
  <2>2. CASE w # c
    <3>1. /\ cmd'[w] = cmd[w] /\ content' = content /\ cast' = cast
          /\ CommandHolds(w) /\ BackupHolds(w) /\ cmd[w].held \in Seq(Databases)
          /\ \A d \in Databases : excl[d] = {w} => excl'[d] = {w}
      BY <2>2 DEF CommandEffect, RowMoves, WindowInv, WindowTypes
    <3>2. /\ Range(cmd[w].held) \subseteq Databases /\ Range(LockOrder(w)) \subseteq Databases
          /\ Control \in Databases
      <4>1. Range(cmd[w].held) \subseteq Databases
        BY SMT, <3>1 DEF Range
      <4>2. LockOrder(w) \in Seq(Databases)
        BY LockOrderFacts
      <4>3. Range(LockOrder(w)) \subseteq Databases
        BY SMT, <4>2 DEF Range
      <4>4. Control \in Databases
        BY DEF Databases
      <4> QED
        BY <4>1, <4>3, <4>4
    <3>3. CommandHolds(w)'
      BY <3>1, <3>2 DEF CommandHolds, IsOpen
    <3>4. BackupHolds(w)'
      BY <3>1 DEF BackupHolds, IsOpen
    <3> QED
      BY <3>3, <3>4
  <2> QED
    BY <2>1, <2>2
<1> QED
  BY <1>1, <1>2, <1>3 DEF WindowInv

\* pg_terminate_backend ends the command's own session on the database and
\* those that wait for it; control, held by the same command, keeps every other
\* window shut.
LEMMA TerminateKeepsWindow ==
    ASSUME WindowInv, NEW c \in Commands \cap cast, Terminate(c), UNCHANGED cast
    PROVE  /\ WindowInv' /\ UNCHANGED <<content, op, killed, kept, unbacked>>
           /\ \A w \in Commands : cmd'[w].backup = cmd[w].backup
           /\ \A w \in Commands \ {c} : cmd'[w].pc \in {cmd[w].pc, "closing"}
<1> DEFINE d == Target[c]
<1>1. /\ cmd = [w \in Commands |-> Row(w)] /\ cmd[c].pc = "terminating" /\ IsOpen(c)
      /\ \A w \in Commands : CommandHolds(w) /\ BackupHolds(w)
      /\ UNCHANGED <<content, op, killed, kept, unbacked, cast>>
  BY DEF WindowInv, WindowTypes, RowShape, Terminate, IsOpen
<1>2. d \in Databases /\ Control \in Databases
  BY MaintenanceAssumption DEF Databases, GraphDatabases
<1>3. /\ \A x \in Range(LockOrder(c)) : excl[x] = {c}
      /\ Control \in Range(LockOrder(c)) /\ d \in Range(LockOrder(c))
  <2>1. d \in ToDump(c)
    BY <1>2 DEF ToDump
  <2>2. {Control} \cup ToDump(c) \subseteq Range(LockOrder(c))
    BY LockOrderFacts
  <2> QED
    BY <1>1, <2>1, <2>2 DEF CommandHolds
<1>4. shared[d] = {} /\ excl[Control] = {c}
  BY <1>2, <1>3 DEF WindowInv, LocksExclude
<1>5. /\ excl' = [excl EXCEPT ![d] = {}] /\ shared' = [shared EXCEPT ![d] = {}]
      /\ excl \in [Databases -> SUBSET Commands] /\ shared \in [Databases -> SUBSET Ops]
  BY DEF Terminate, WindowInv, WindowTypes
<1>6. shared' = shared
  BY <1>2, <1>4, <1>5
<1>7. /\ \A x \in Databases \ {d} : excl'[x] = excl[x]
      /\ excl'[d] = {} /\ excl' \in [Databases -> SUBSET Commands]
  BY <1>2, <1>5
<1>8. /\ cmd'[c] = [cmd[c] EXCEPT !.pc = "dropping"]
      /\ \A w \in Commands \ {c} :
           cmd'[w] = cmd[w] \/ cmd'[w] = [cmd[w] EXCEPT !.pc = "closing"]
      /\ cmd' = [w \in Commands |-> cmd'[w]]
  <2> DEFINE waits(w) == \E i \in DOMAIN queue[d] : queue[d][i] = w
             row(w) == IF w = c THEN [cmd[w] EXCEPT !.pc = "dropping"]
                       ELSE IF waits(w) THEN [cmd[w] EXCEPT !.pc = "closing"] ELSE cmd[w]
  <2>1. cmd' = [w \in Commands |-> row(w)]
    BY DEF Terminate
  <2>2. \A w \in Commands : cmd'[w] = row(w)
    BY <2>1
  <2>3. /\ row(c) = [cmd[c] EXCEPT !.pc = "dropping"]
        /\ \A w \in Commands \ {c} :
             row(w) = cmd[w] \/ row(w) = [cmd[w] EXCEPT !.pc = "closing"]
    OBVIOUS
  <2> HIDE DEF row
  <2>4. cmd' = [w \in Commands |-> cmd'[w]]
    BY <2>1
  <2> QED
    BY <2>2, <2>3, <2>4
<1>9. ASSUME NEW w \in Commands
      PROVE  /\ cmd'[w] = Row(w)' /\ cmd'[w].backup = cmd[w].backup
             /\ cmd'[w].need = cmd[w].need /\ cmd'[w].held = cmd[w].held
             /\ IF w = c THEN cmd'[w].pc = "dropping" ELSE cmd'[w].pc \in {cmd[w].pc, "closing"}
  <2>1. cmd[w] = Row(w)
    BY <1>1
  <2>2. CASE w = c
    BY <1>8, <2>1, <2>2 DEF Row
  <2>3. CASE w # c
    <3>1. CASE cmd'[w] = cmd[w]
      BY <2>1, <2>3, <3>1 DEF Row
    <3>2. CASE cmd'[w] = [cmd[w] EXCEPT !.pc = "closing"]
      BY <2>1, <2>3, <3>2 DEF Row
    <3> QED
      BY <1>8, <2>3, <3>1, <3>2
  <2> QED
    BY <2>2, <2>3
<1>10. WindowTypes'
  <2>1. RowShape'
    BY <1>8, <1>9 DEF RowShape
  <2>2. \A w \in Commands : /\ cmd[w].pc \in CommandStates /\ cmd[w].need \in Seq(Databases)
                            /\ cmd[w].held \in Seq(Databases)
    BY DEF WindowInv, WindowTypes
  <2>3. \A w \in Commands : /\ cmd'[w].pc \in CommandStates /\ cmd'[w].need \in Seq(Databases)
                            /\ cmd'[w].held \in Seq(Databases)
    BY <1>9, <2>2 DEF CommandStates
  <2> QED
    BY <1>1, <1>6, <1>7, <2>1, <2>3 DEF WindowInv, WindowTypes
<1>11. LocksExclude' /\ \A o \in Ops : WorkHolds(o)'
  BY <1>1, <1>6, <1>7 DEF WindowInv, LocksExclude, WorkHolds
<1>12. CommandHolds(c)' /\ BackupHolds(c)'
  <2>1. Target[c] # Control => excl'[Control] = {c}
    BY <1>2, <1>4, <1>7
  <2> QED
    BY <1>1, <1>9, <2>1 DEF CommandHolds, BackupHolds, IsOpen
<1>13. ASSUME NEW w \in Commands \ {c} PROVE CommandHolds(w)' /\ BackupHolds(w)'
  <2>1. CASE cmd'[w].pc = "closing"
    BY <2>1 DEF CommandHolds, BackupHolds, IsOpen
  <2>2. CASE cmd'[w].pc = cmd[w].pc
    <3>1. excl[Control] # {w}
      BY <1>4
    <3>2. ~IsOpen(w) /\ ~(cmd[w].pc = "dropping" /\ Target[w] # Control)
      BY <1>1, <3>1, LockOrderFacts DEF CommandHolds
    <3>3. cmd[w].pc \in {"acquiring", "waiting"} => Range(cmd[w].held) = {}
      <4>1. cmd[w].pc \in {"acquiring", "waiting"} => cmd[w].held = <<>>
        BY <1>1, <3>1 DEF CommandHolds
      <4> QED
        BY SMT, <4>1 DEF Range
    <3>4. CommandHolds(w)'
      <4>1. CommandHolds(w)
        BY <1>1
      <4>2. /\ cmd'[w].need = cmd[w].need /\ cmd'[w].held = cmd[w].held
            /\ cmd'[w].backup = cmd[w].backup /\ cast' = cast
        BY <1>1, <1>9
      <4> QED
        BY <2>2, <3>2, <3>3, <4>1, <4>2 DEF CommandHolds, IsOpen
    <3>5. BackupHolds(w)'
      BY <1>1, <1>9, <2>2, <3>2 DEF BackupHolds, IsOpen
    <3> QED
      BY <3>4, <3>5
  <2> QED
    BY <1>9, <2>1, <2>2
<1>14. WindowInv'
  BY <1>10, <1>11, <1>12, <1>13 DEF WindowInv
<1> QED
  BY <1>1, <1>9, <1>14

-----------------------------------------------------------------------------
(* The invariants.                                                         *)

\* At first no lock is held and no command is at work.
LEMMA WindowInit == Init => WindowInv /\ StableInv /\ BackedInv
<1> SUFFICES ASSUME Init PROVE WindowInv /\ StableInv /\ BackedInv
  OBVIOUS
<1>1. \A c \in Commands : cmd[c] = Row(c) /\ cmd[c].pc = "idle" /\ cmd[c].need = <<>>
                          /\ cmd[c].held = <<>>
  BY DEF Init, Idle, Row
<1>2. RowShape
  <2>1. cmd = [c \in Commands |-> cmd[c]]
    BY DEF Init
  <2> QED
    BY <1>1, <2>1 DEF RowShape
<1>3. <<>> \in Seq(Databases)
  BY SMT
<1>4. WindowTypes
  BY <1>1, <1>2, <1>3 DEF Init, WindowTypes, OpStates, CommandStates
<1>5. LocksExclude /\ \A o \in Ops : WorkHolds(o)
  BY DEF Init, LocksExclude, WorkHolds
<1>6. \A c \in Commands : CommandHolds(c) /\ BackupHolds(c)
  BY <1>1 DEF CommandHolds, BackupHolds, IsOpen
<1>7. StableInv
  <2>1. \A o \in Ops : OpGraph[o] \in Databases /\ Control \in Databases
    BY MaintenanceAssumption DEF Databases, GraphDatabases
  <2> QED
    BY <2>1 DEF Init, StableInv, AttemptAgrees, BackupSetIsStable
<1>8. BackedInv
  BY <1>1 DEF Init, BackedInv, NothingUnbacked
<1> QED
  BY <1>4, <1>5, <1>6, <1>7, <1>8 DEF WindowInv

\* Windows stay shut in every step.
LEMMA WindowStep == WindowInv /\ [Next]_vars => WindowInv'
<1> SUFFICES ASSUME WindowInv, [Next]_vars PROVE WindowInv'
  OBVIOUS
<1>1. ASSUME NEW o \in Ops \cap cast, OpStart(o) \/ OpStep(o) \/ OpKilled(o), UNCHANGED cast
      PROVE  WindowInv'
  BY <1>1, OpEffects, OpKeepsWindow
<1>2. ASSUME NEW c \in Commands \cap cast, UNCHANGED cast,
             \/ BeginCommand(c) \/ CommandStep(c) \/ LockTimeout(c)
             \/ CommandKilled(c) \/ CallFails(c)
      PROVE  WindowInv'
  BY <1>2, CommandEffects, CommandKeepsWindow, TerminateKeepsWindow
<1>3. CASE UNCHANGED vars
  <2>1. UNCHANGED <<content, shared, excl, op, cmd, cast>>
    BY <1>3 DEF vars
  <2>2. WindowTypes' /\ LocksExclude' /\ \A o \in Ops : WorkHolds(o)'
    <3>1. RowShape'
      BY <2>1 DEF WindowInv, WindowTypes, RowShape, Row
    <3>2. WindowTypes'
      BY <2>1, <3>1 DEF WindowInv, WindowTypes
    <3>3. LocksExclude' /\ \A o \in Ops : WorkHolds(o)'
      BY <2>1 DEF WindowInv, LocksExclude, WorkHolds
    <3> QED
      BY <3>2, <3>3
  <2>3. \A c \in Commands : CommandHolds(c)'
    BY <2>1 DEF WindowInv, CommandHolds, IsOpen
  <2>4. \A c \in Commands : BackupHolds(c)'
    BY <2>1 DEF WindowInv, BackupHolds, IsOpen
  <2> QED
    BY <2>2, <2>3, <2>4 DEF WindowInv
<1> QED
  BY <1>1, <1>2, <1>3 DEF Next

\* Backup sets stay stable in every step.
LEMMA StableStep == WindowInv /\ StableInv /\ [Next]_vars => StableInv'
<1> SUFFICES ASSUME WindowInv, StableInv, [Next]_vars PROVE StableInv'
  OBVIOUS
<1>1. ASSUME NEW o \in Ops \cap cast, OpStart(o) \/ OpStep(o) \/ OpKilled(o), UNCHANGED cast
      PROVE  StableInv'
  BY <1>1, OpEffects, OpTells, OpKeepsStable
<1>2. ASSUME NEW c \in Commands \cap cast, UNCHANGED cast, Dump(c)
      PROVE  StableInv'
  <2>1. CommandEffect(c)
    BY <1>2, DumpEffect
  <2>2. \A o \in Ops \ killed' : OpKind[o] = "attempt" => AttemptAgrees(o)'
    BY <2>1 DEF StableInv, AttemptAgrees, CommandEffect
  <2>3. ASSUME NEW set \in kept', NEW o \in Ops \ killed', OpKind[o] = "attempt"
        PROVE  /\ o \in set[OpGraph[o]] <=> <<o, "published">> \in set[Control]
               /\ <<o, "claimed">> \in set[Control] =>
                    \E e \in {"published", "failed"} : <<o, e>> \in set[Control]
    <3>1. CASE set \in kept
      BY <2>1, <2>3, <3>1 DEF StableInv, BackupSetIsStable, CommandEffect
    <3>2. CASE IsOpen(c) /\ \A d \in Databases : set[d] = content[d]
      <4>1. Control \in Databases /\ OpGraph[o] \in Databases
        BY MaintenanceAssumption DEF Databases, GraphDatabases
      <4>2. excl[Control] = {c}
        BY <3>2, LockOrderFacts DEF WindowInv, CommandHolds
      <4>3. op[o] = "idle"
        BY <2>3, <4>1, <4>2 DEF WindowInv, LocksExclude, WorkHolds
      <4>4. AttemptAgrees(o)
        BY <2>1, <2>3 DEF StableInv, CommandEffect
      <4> QED
        BY <3>2, <4>1, <4>3, <4>4 DEF AttemptAgrees
    <3> QED
      BY <1>2, <2>3, <3>1, <3>2, DumpEffect
  <2>4. BackupSetIsStable'
    BY <2>3 DEF BackupSetIsStable
  <2> QED
    BY <2>2, <2>4 DEF StableInv
<1>3. ASSUME NEW c \in Commands \cap cast,
             \/ BeginCommand(c) \/ CommandStep(c) \/ LockTimeout(c)
             \/ CommandKilled(c) \/ CallFails(c),
             ~Dump(c)
      PROVE  StableInv'
  <2>1. UNCHANGED <<content, op, killed, kept>>
    BY <1>3 DEF BeginCommand, CommandStep, RequestLock, Granted, Close, Closed, Migrate,
       VerifyDropBackup, Terminate, Drop, LockTimeout, CommandKilled, CallFails
  <2> QED
    BY <2>1 DEF StableInv, AttemptAgrees, BackupSetIsStable
<1>4. CASE UNCHANGED vars
  BY <1>4 DEF vars, StableInv, AttemptAgrees, BackupSetIsStable
<1> QED
  BY <1>1, <1>2, <1>3, <1>4 DEF Next

\* Where the gap is quiet, nothing unbacked is changed or dropped in any step.
LEMMA BackedStep ==
    ASSUME GapIsQuiet
    PROVE  WindowInv /\ BackedInv /\ [Next]_vars => BackedInv'
<1> SUFFICES ASSUME WindowInv, BackedInv, [Next]_vars PROVE BackedInv'
  OBVIOUS
<1>1. ASSUME NEW o \in Ops \cap cast, OpStart(o) \/ OpStep(o) \/ OpKilled(o), UNCHANGED cast
      PROVE  BackedInv'
  BY <1>1, OpEffects, OpKeepsBacked
<1>2. ASSUME NEW c \in Commands \cap cast, UNCHANGED cast, Terminate(c)
      PROVE  BackedInv'
  <2>1. /\ UNCHANGED <<content, unbacked>>
        /\ \A w \in Commands : cmd'[w].backup = cmd[w].backup
        /\ \A w \in Commands \ {c} : cmd'[w].pc \in {cmd[w].pc, "closing"}
    BY <1>2, TerminateKeepsWindow
  <2>2. Target[c] \in DOMAIN cmd[c].backup /\ cmd[c].backup[Target[c]] = content[Target[c]]
    BY <1>2 DEF WindowInv, BackupHolds, IsOpen, Terminate
  <2> QED
    BY <2>1, <2>2 DEF BackedInv, NothingUnbacked
<1>3. ASSUME NEW c \in Commands \cap cast, UNCHANGED cast,
             \/ BeginCommand(c) \/ CommandStep(c) \/ LockTimeout(c)
             \/ CommandKilled(c) \/ CallFails(c),
             ~Terminate(c)
      PROVE  BackedInv'
  <2>1. /\ content' = content /\ \A w \in Commands \ {c} : cmd'[w] = cmd[w]
        /\ cmd'[c].pc # "dropping"
    BY <1>3, CommandEffects DEF CommandEffect, RowMoves
  <2>2. unbacked' = unbacked
    <3>1. CASE Migrate(c)
      <4>1. Unbacked(c) = {}
        BY <3>1 DEF WindowInv, BackupHolds, IsOpen, Migrate, Unbacked
      <4> QED
        BY <3>1, <4>1 DEF Migrate
    <3>2. CASE Drop(c)
      <4>1. Unbacked(c) = {}
        BY <3>2 DEF BackedInv, Drop, Unbacked
      <4> QED
        BY <3>2, <4>1 DEF Drop
    <3> QED
      BY <1>3, <3>1, <3>2 DEF BeginCommand, CommandStep, RequestLock, Granted, Close, Closed,
         Dump, VerifyDropBackup, LockTimeout, CommandKilled, CallFails
  <2> QED
    BY <2>1, <2>2 DEF BackedInv, NothingUnbacked
<1>4. CASE UNCHANGED vars
  BY <1>4 DEF vars, BackedInv, NothingUnbacked
<1> QED
  BY <1>1, <1>2, <1>3, <1>4 DEF Next

\* No command's window overlaps work or another window on a database it
\* locked, whatever is killed, times out or is terminated in between.
THEOREM WindowInvariant == Spec => []WindowInv
<1> QED
  BY WindowInit, WindowStep, PTL DEF Spec

\* A coordinated backup set shows no attempt half way: "recovery_point":
\* "stable" of the manifest is true for any number of graphs and commands.
THEOREM BackupSetsAreStable == Spec => []BackupSetIsStable
<1>1. StableInv => BackupSetIsStable
  BY DEF StableInv
<1> QED
  BY <1>1, WindowInit, StableStep, WindowInvariant, PTL DEF Spec

\* A schema change and a drop find everything that is committed in the backup
\* of their command, as long as no load runs beside the drop of its graph and
\* nothing but loads beside the drop of control (see the run of the drop gap).
THEOREM ChangesAreBacked ==
    ASSUME GapIsQuiet
    PROVE  Spec => []NothingUnbacked
<1>1. BackedInv => NothingUnbacked
  BY DEF BackedInv
<1> QED
  BY <1>1, WindowInit, BackedStep, WindowInvariant, PTL DEF Spec
-----------------------------------------------------------------------------
(* The polling pool.                                                       *)

FST == INSTANCE FiniteSetTheorems

\* Finite sets are those of the library's theorems ...
LEMMA SameFinite == \A S : FST!IsFiniteSet(S) <=> IsFiniteSet(S)
  BY Zenon DEF FST!IsFiniteSet, IsFiniteSet

\* ... and have as many elements there.
LEMMA SameCardinality == \A S : FST!Cardinality(S) = Cardinality(S)
  BY Zenon DEF FST!Cardinality, Cardinality

\* No graph is no graph at all.
LEMMA NoneIsZero == Cardinality({}) = 0
  BY SameCardinality, FST!FS_EmptySet

\* Some of the graphs, and fewer of them, can be counted.
LEMMA GraphsAreCounted ==
    ASSUME NEW S \in SUBSET Graphs, NEW T \in SUBSET S
    PROVE  /\ IsFiniteSet(S) /\ IsFiniteSet(T)
           /\ Cardinality(S) \in Nat /\ Cardinality(T) \in Nat
           /\ Cardinality(T) <= Cardinality(S)
<1>1. FST!IsFiniteSet(S) /\ FST!IsFiniteSet(T)
  BY SameFinite, PollingAssumption, FST!FS_Subset
<1>2. /\ FST!Cardinality(S) \in Nat /\ FST!Cardinality(T) \in Nat
      /\ FST!Cardinality(T) <= FST!Cardinality(S)
  BY <1>1, FST!FS_Subset, FST!FS_CardinalityType
<1> QED
  BY <1>1, <1>2, SameFinite, SameCardinality

\* Graphs of two kinds count together.
LEMMA DisjointGraphs ==
    ASSUME NEW S \in SUBSET Graphs, NEW T \in SUBSET Graphs, S \cap T = {}
    PROVE  Cardinality(S \cup T) = Cardinality(S) + Cardinality(T)
<1>1. FST!IsFiniteSet(S) /\ FST!IsFiniteSet(T)
  BY SameFinite, GraphsAreCounted
<1>2. FST!Cardinality(S \cup T)
        = FST!Cardinality(S) + FST!Cardinality(T) - FST!Cardinality(S \cap T)
  BY <1>1, FST!FS_Union
<1>3. FST!Cardinality(S \cap T) = 0
  BY FST!FS_EmptySet
<1>4. Cardinality(S) \in Nat /\ Cardinality(T) \in Nat
  BY GraphsAreCounted
<1> QED
  BY SMT, <1>2, <1>3, <1>4, SameCardinality

\* A graph is in _running exactly while its future is there, collected or not,
\* and a thread of the pool runs its poll exactly while the future is open;
\* what the scheduler admits never exceeds the pool.
PoolInv ==
    /\ config \in Configs /\ tracked \subseteq Graphs /\ running \subseteq Graphs
    /\ future \in [Graphs -> Outcomes \cup {"none", "unfinished"}]
    /\ active \in [Graphs -> {0, 1}]
    /\ \A g \in Graphs : /\ active[g] = 1 <=> future[g] = "unfinished"
                         /\ g \in running <=> future[g] # "none"
    /\ Cardinality(running) <= MaxConcurrent

\* _sync_targets only takes graphs from a configuration that could be read.
LEMMA TargetsAreGraphs ==
    ASSUME config \in Configs, config # Malformed
    PROVE  TargetIds \subseteq Graphs
BY PollingAssumption DEF TargetIds

\* _admit_due submits no more polls than the pool has room for.
LEMMA AdmitIsBounded ==
    ASSUME PoolInv, NEW selected \in SUBSET (tracked \ running),
           Cardinality(selected) <= MaxConcurrent - Cardinality(running)
    PROVE  Cardinality(running \cup selected) <= MaxConcurrent
<1>1. running \subseteq Graphs /\ selected \subseteq Graphs /\ running \cap selected = {}
  BY DEF PoolInv
<1>2. Cardinality(running) \in Nat /\ Cardinality(selected) \in Nat
  BY <1>1, GraphsAreCounted
<1>3. Cardinality(running \cup selected) = Cardinality(running) + Cardinality(selected)
  BY <1>1, DisjointGraphs
<1> QED
  BY SMT, <1>2, <1>3, PollingAssumption

\* At first no poll runs and none is remembered.
LEMMA PoolInit == PollingInit => PoolInv
  BY SMT, NoneIsZero, PollingAssumption DEF PollingInit, PoolInv

\* The bound survives every step of the scheduler, the pool and stop().
LEMMA PoolStep == PoolInv /\ [PollingNext]_pollingVars => PoolInv'
<1> SUFFICES ASSUME PoolInv, [PollingNext]_pollingVars PROVE PoolInv'
  OBVIOUS
<1>1. ASSUME UNCHANGED <<tracked, running, future, active>>, config' \in Configs
      PROVE  PoolInv'
  BY <1>1 DEF PoolInv
<1>2. CASE Start \/ Stopping \/ SchedulerFails \/ Wake \/ StopRequest \/ StopReturns
           \/ StopTimesOut \/ Tick \/ Reconfigure \/ UNCHANGED pollingVars
  <2>1. UNCHANGED <<tracked, running, future, active>> /\ config' \in Configs
    BY <1>2 DEF Start, Stopping, SchedulerFails, Wake, StopRequest, StopReturns, StopTimesOut,
       Tick, Reconfigure, schedule, pollingVars, PoolInv
  <2> QED
    BY <1>1, <2>1
<1>3. CASE SyncTargets
  <2>1. TargetIds \subseteq Graphs
    BY <1>3, TargetsAreGraphs DEF PoolInv, SyncTargets
  <2>2. tracked' = TargetIds /\ UNCHANGED <<config, running, future, active>>
    BY <1>3 DEF SyncTargets, StillRunning
  <2> QED
    BY <2>1, <2>2 DEF PoolInv
<1>4. CASE CollectCompleted
  <2> DEFINE completed == {g \in Graphs : future[g] \in Outcomes}
  <2>1. /\ future' = [g \in Graphs |-> IF g \in completed THEN "none" ELSE future[g]]
        /\ running' = running \ completed /\ UNCHANGED <<config, tracked, active>>
    BY <1>4 DEF CollectCompleted
  <2>2. Cardinality(running') <= MaxConcurrent
    <3>1. running \subseteq Graphs /\ running' \subseteq running
      BY <2>1 DEF PoolInv
    <3>2. /\ Cardinality(running') <= Cardinality(running)
          /\ Cardinality(running) \in Nat /\ Cardinality(running') \in Nat
      BY <3>1, GraphsAreCounted
    <3> QED
      BY SMT, <3>2, PollingAssumption DEF PoolInv
  <2>3. \A g \in Graphs : /\ active'[g] = 1 <=> future'[g] = "unfinished"
                          /\ g \in running' <=> future'[g] # "none"
    BY <2>1 DEF PoolInv, Outcomes
  <2> QED
    BY <2>1, <2>2, <2>3 DEF PoolInv
<1>5. CASE AdmitDue
  <2> DEFINE dueNow == {g \in tracked \ running : due[g] <= 0}
             room == Least(Capacity, Cardinality(dueNow))
  <2>1. PICK selected \in SUBSET dueNow :
           /\ Cardinality(selected) = IF room < 0 THEN 0 ELSE room
           /\ running' = running \cup selected
           /\ future' = [g \in Graphs |-> IF g \in selected THEN "unfinished" ELSE future[g]]
           /\ active' = [g \in Graphs |-> IF g \in selected THEN active[g] + 1 ELSE active[g]]
    BY <1>5 DEF AdmitDue
  <2>2. UNCHANGED <<config, tracked>>
    BY <1>5 DEF AdmitDue, schedule
  <2>3. /\ Cardinality(running) \in Nat /\ Cardinality(dueNow) \in Nat
        /\ Cardinality(running) <= MaxConcurrent
    <3>1. running \subseteq Graphs /\ dueNow \subseteq Graphs
      BY DEF PoolInv
    <3> QED
      BY <3>1, GraphsAreCounted DEF PoolInv
  <2>4. Capacity <= MaxConcurrent - Cardinality(running) /\ Capacity \in Int
    BY SMT, <2>3, PollingAssumption DEF Capacity, Least
  <2>5. Cardinality(selected) <= MaxConcurrent - Cardinality(running)
    <3> HIDE DEF dueNow
    <3>1. room <= MaxConcurrent - Cardinality(running) /\ room \in Int
      BY SMT, <2>3, <2>4, PollingAssumption DEF Least
    <3> HIDE DEF room
    <3> QED
      BY SMT, <2>1, <2>3, <3>1, PollingAssumption
  <2>6. Cardinality(running') <= MaxConcurrent
    BY <2>1, <2>5, AdmitIsBounded
  <2>7. selected \subseteq Graphs /\ selected \cap running = {}
    BY <2>1 DEF PoolInv
  <2>8. \A g \in Graphs : /\ active'[g] \in {0, 1}
                          /\ active'[g] = 1 <=> future'[g] = "unfinished"
                          /\ g \in running' <=> future'[g] # "none"
    BY SMT, <2>1, <2>7 DEF PoolInv
  <2> QED
    BY <2>1, <2>2, <2>6, <2>7, <2>8 DEF PoolInv
<1>6. CASE Drained
  <2>1. /\ running' = {} /\ future' = [g \in Graphs |-> "none"] /\ PoolIsIdle
        /\ UNCHANGED <<config, tracked, active>>
    BY <1>6 DEF Drained
  <2>2. Cardinality(running') <= MaxConcurrent
    BY SMT, <2>1, NoneIsZero, PollingAssumption
  <2> QED
    BY SMT, <2>1, <2>2 DEF PoolInv, PoolIsIdle
<1>7. ASSUME NEW g \in Graphs, NEW outcome \in Outcomes, PollReturns(g, outcome)
      PROVE  PoolInv'
  <2>1. /\ active[g] = 1 /\ future[g] = "unfinished"
        /\ UNCHANGED <<config, tracked, running>>
    BY SMT, <1>7 DEF PoolInv, PollReturns, schedule
  <2>2. /\ active' = [active EXCEPT ![g] = 0]
        /\ future' = [future EXCEPT ![g] = outcome]
    BY SMT, <1>7, <2>1 DEF PoolInv, PollReturns
  <2> QED
    BY SMT, <2>1, <2>2 DEF PoolInv, Outcomes
<1> QED
  BY <1>2, <1>3, <1>4, <1>5, <1>6, <1>7 DEF PollingNext, Scheduler, Poll

\* There is never more than one poll of a graph, nor more polls than the pool
\* has room for, for any number of graphs and any sequence of configurations.
THEOREM PollsStayBounded == PollingSpec => []PollsAreBounded
<1>1. PoolInv => PollsAreBounded
  <2> SUFFICES ASSUME PoolInv PROVE PollsAreBounded
    OBVIOUS
  <2>1. {g \in Graphs : active[g] > 0} \subseteq running /\ \A g \in Graphs : active[g] <= 1
    BY SMT DEF PoolInv
  <2>2. /\ Cardinality({g \in Graphs : active[g] > 0}) <= Cardinality(running)
        /\ Cardinality({g \in Graphs : active[g] > 0}) \in Nat /\ Cardinality(running) \in Nat
    <3>1. running \subseteq Graphs
      BY DEF PoolInv
    <3> QED
      BY <2>1, <3>1, GraphsAreCounted
  <2> QED
    BY SMT, <2>1, <2>2, PollingAssumption DEF PoolInv, PollsAreBounded
<1> QED
  BY <1>1, PoolInit, PoolStep, PTL DEF PollingSpec
=============================================================================
