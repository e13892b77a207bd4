-------------------------- MODULE MCSerialTaskQueue --------------------------
(* A queue, to its destruction, with two clients and tasks of two          *)
(* task_groups; the destructor's task has a third.                         *)
EXTENDS SerialTaskQueueDestruction, TLC

CONSTANTS c1, c2, t1, t2, t3, last

MCClients == {c1, c2}
MCTasks   == {t1, t2, t3, last}
MCGroup   == (t1 :> "g" @@ t2 :> "g" @@ t3 :> "h" @@ last :> "last")
=============================================================================
