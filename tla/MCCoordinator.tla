---------------------------- MODULE MCCoordinator ----------------------------
(* Small instances of Coordinator: manual jobs of one graph. *)
EXTENDS Coordinator

CONSTANTS g1, s1, m1, k1

OneJob == [j \in {m1} |->
    [graph |-> g1, automatic |-> FALSE, key |-> k1, generation |-> s1]]

\* A second attempt is followed only where coordinators do nothing but crash.
SecondAttemptAfterCrash ==
    \A c \in Claims : c[2] = 2 /\ EpochOf(c) # 0 => disturbances = {"crash"}
=============================================================================
