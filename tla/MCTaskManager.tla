---------------------------- MODULE MCTaskManager ----------------------------
(* Instances of TaskManager for TLC.                                       *)
EXTENDS TaskManager

CONSTANTS u1, u2, p1

\* Bound: once a task was lost, one executor at a time.
MCNext ==
    /\ Next
    /\ lost' => Cardinality({e \in Executors : execs'[e] # Free}) <= 1

MCSpec == Init /\ [][MCNext]_vars /\ Fairness
=============================================================================
