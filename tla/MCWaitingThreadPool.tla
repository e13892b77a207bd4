------------------------ MODULE MCWaitingThreadPool ------------------------
(* Three calls; two of them are made for the same task.                    *)
EXTENDS WaitingThreadPool

CONSTANTS k1, k2, k3, j1, j2

MCCalls  == {k1, k2, k3}
MCTasks  == {j1, j2}
MCTaskOf == [k \in MCCalls |-> IF k = k3 THEN j2 ELSE j1]
=============================================================================
