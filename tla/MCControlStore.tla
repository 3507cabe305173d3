--------------------------- MODULE MCControlStore ---------------------------
(***************************************************************************)
(* Instances of the control store and of the publications of a graph for   *)
(* TLC.  One graph; jobs a1 and a2 are automatic (their idempotency key is *)
(* derived from the generation they were polled for,                       *)
(* desired_state._automatic_request), m1 is manual; c1 and c2 are attempts *)
(* of two jobs.  The two components do not interact here: part says which  *)
(* one moves, the other rests in its initial state.                        *)
(***************************************************************************)
EXTENDS ControlStore, GraphPublication

CONSTANTS a1, a2, m1, g1, genX, genY, c1, c2

VARIABLE part

MCRequest == [j \in Jobs |->
    CASE j = a1 -> [graph |-> g1, automatic |-> TRUE, generation |-> genX,
                    key |-> genX]
      [] j = a2 -> [graph |-> g1, automatic |-> TRUE, generation |-> genY,
                    key |-> genY]
      [] OTHER -> [graph |-> g1, automatic |-> FALSE, generation |-> genX,
                   key |-> m1]]

\* Either a manual job with retries under two coordinators, whose first attempt
\* alone may leave conflicting evidence, or automatic jobs with one attempt each
\* under one.
ManualOrAutomatic ==
    \/ /\ \A j \in Jobs : Request[j].automatic => jobs[j] = AbsentJob
       /\ \A j \in Jobs : markers[j][MaxAttempts] # "conflicting"
    \/ /\ \A j \in Jobs : ~Request[j].automatic => jobs[j] = AbsentJob
       /\ \A j \in Jobs : jobs[j].attempt > 0 => jobs[j].state # "queued"
       /\ \A j \in Jobs : markers[j][1] # "conflicting"
       /\ owner.epoch <= 1 /\ stragglers = {}

BothInit == Init /\ PubInit /\ part \in {"store", "publication"}

BothNext ==
    \/ part = "store" /\ Next /\ UNCHANGED <<pubVars, part>>
    \/ part = "publication" /\ PubNext /\ UNCHANGED <<storeVars, part>>

StoreAndPublication == BothInit /\ [][BothNext]_<<storeVars, pubVars, part>>
=============================================================================
