----------------------------- MODULE MCProgress -----------------------------
(***************************************************************************)
(* What must happen in the end, for TLC: a coordinator that stays up works *)
(* off its jobs (Coordinator), the polls and refreshes of one graph bring  *)
(* it to the generation of its source (DesiredState, which takes the       *)
(* former for granted), and a maintenance command gets its window and lets *)
(* it go (Maintenance).  A history is one of the three: what they share is *)
(* abstracted differently in each.                                         *)
(***************************************************************************)
EXTENDS MCCoordinator

CONSTANTS SourceGenerations, None

VARIABLES part,
          source, pub, poll, refreshes, intent,           \* of DesiredState
          alive, content, shared, excl, queue, op, cmd,   \* of Maintenance
          kept, unbacked, killed, calls, cast

desired == <<source, pub, poll, refreshes, intent>>
windows == <<alive, content, shared, excl, queue, op, cmd, kept, unbacked, killed,
             calls, cast>>

\* The source moves forward only; desired_revert lets it move back.
D == INSTANCE DesiredState WITH
        Generations <- SourceGenerations, jobs <- refreshes,
        SourceMoves <- {<<m, n>> \in SourceGenerations \X SourceGenerations : m < n}

\* Two operations and two commands that want the same databases, none killed.
Operations == {"attempt", "direct"}
Maintainers == {"dump_all", "upgrade"}
M == INSTANCE Maintenance WITH
        Control <- "control", GraphOrder <- <<"g1", "g2">>,
        Ops <- Operations, OpKind <- [o \in Operations |-> o],
        OpGraph <- [o \in Operations |-> IF o = "direct" THEN "g2" ELSE "g1"],
        Commands <- Maintainers, CommandKind <- [c \in Maintainers |-> c],
        Target <- [c \in Maintainers |-> IF c = "dump_all" THEN "control" ELSE "g1"],
        Casts <- {Operations \cup Maintainers}, MaxFaults <- 0, faults <- calls

ASSUME ProgressAssumption == D!DesiredAssumption

ProgressInit ==
    /\ part \in {"coordinator", "graph", "window"}
    /\ CoordinatorInit /\ D!DesiredInit /\ M!Init
    /\ part # "graph" => source = 1

Coordinating(A) == part = "coordinator" /\ A /\ UNCHANGED <<disturbances, part, desired, windows>>
Reconciling(A) == part = "graph" /\ A /\ UNCHANGED <<part, vars, windows>>
Maintaining(A) == part = "window" /\ A /\ UNCHANGED <<part, vars, desired, cast>>

ProgressNext ==
    Coordinating(CoordinatorNext) \/ Reconciling(D!DesiredNext) \/ Maintaining(M!Next)

\* The fairness of Coordinator, DesiredState and Maintenance, each in its
\* histories.
ProgressFairness ==
    /\ WF_vars(Coordinating(startup))
    /\ \A e \in Epochs : /\ WF_vars(Coordinating(RecoveryNext(e)))
                         /\ WF_vars(Coordinating(run_once(e)))
    /\ \A c \in Claims : /\ WF_vars(Coordinating(ThreadNext(c)))
                         /\ WF_vars(Coordinating(worker_step(c)))
                         /\ WF_vars(Coordinating(server_step(c)))
    /\ WF_desired(Reconciling(D!PollStep))
    /\ SF_desired(Reconciling(D!ReadPublication))
    /\ \A g \in SourceGenerations : WF_desired(Reconciling(D!JobStep(g)))
    /\ \A o \in Operations : WF_windows(Maintaining(M!OpStep(o)))
    /\ \A c \in Maintainers : WF_windows(Maintaining(M!CommandStep(c)))

ProgressSpec ==
    ProgressInit /\ [][ProgressNext]_<<vars, part, desired, windows>> /\ ProgressFairness
-----------------------------------------------------------------------------
\* Every job of a coordinator that stays up is decided or set aside, and its
\* lease is returned (run_once, _dispose_terminal, _release_terminal_lease).
JobsEnd == JobsAreDecided /\ LeasesAreReturned

\* Once the source rests, the graph is published at its generation and stays
\* there ("reconciliation converge[s] without event ordering assumptions"), and
\* refreshing ends: polling does not go on asking for refreshes nobody needs
\* (the comparison of reconcile_graph).
ConvergesAndRests == part = "graph" => D!Converges /\ D!Rests

\* A maintenance command that has begun ends: the work inside drains, work
\* that arrives while it waits is refused, its own backup does not wait for
\* its window, and no two commands wait for each other.
CommandEnds == part = "window" => M!CommandEnds
=============================================================================
