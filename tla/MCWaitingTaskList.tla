-------------------------- MODULE MCWaitingTaskList --------------------------
(* WaitingTaskList with three tasks, one of them added by holder.          *)
EXTENDS WaitingTaskList, TLC

CONSTANTS t1, t2, t3, e1

MCTasks       == {t1, t2, t3}
MCHolderTasks == {t1}
MCExceptions  == {e1}
=============================================================================
