------------------------------ MODULE MCWorker ------------------------------
(***************************************************************************)
(* Supervised processes for TLC: a worker of one of the kinds of Workers,  *)
(* or a command in the database container.                                 *)
(***************************************************************************)
EXTENDS Workers

VARIABLES runner, failed, outcome, leader, child, dbSession, effect, control, script, hit

Container == INSTANCE ContainerExec WITH
                Faults <- {"retire", "settle", "io"}, session <- dbSession

containerPart == <<runner, failed, outcome, leader, child, dbSession, effect,
                   control, script, hit>>

MCInit ==
    /\ kind \in Kinds \cup {"container"}
    /\ Init /\ PortableInit /\ Container!Init
    /\ kind # "container" => leader.parent = 0

MCNext ==
    \/ WorkersNext /\ UNCHANGED containerPart
    \/ /\ kind = "container" /\ Container!Next
       /\ UNCHANGED workersVars

\* The supervising thread is scheduled and time passes; nothing is assumed of
\* the worker.
MCFairness ==
    /\ WF_vars(/\ kind \in {"quiet", "noisy"} /\ SuperviseAlone
               /\ UNCHANGED <<kind, portablePart, containerPart>>)
    /\ WF_supVars(/\ kind = "portable" /\ PortableSupervise
                  /\ UNCHANGED <<kind, refreshPart, containerPart>>)

MCSpec == MCInit /\ [][MCNext]_<<workersVars, containerPart>> /\ MCFairness
-----------------------------------------------------------------------------
\* Supervision of either worker ends, whatever the worker does or fails to do
\* (_run_protocol_worker is bounded by its deadlines).
WorkersEnd == kind # "container" => SupervisionEnds

\* A container command that counts as settled is over: neither its process,
\* started late or not, nor a child, nor its database session can act any more
\* (_settle, SETTLE_PROCESS_SH).
SettledIsOver == Container!SettledIsOver

\* Settling a container command never makes a process end in a way that the
\* postmaster reaps as a crash, which would end every session of the server
\* (retire, _settle).
PostmasterIsSpared == Container!PostmasterIsSpared
=============================================================================
