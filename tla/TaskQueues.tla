----------------------------- MODULE TaskQueues -----------------------------
(***************************************************************************)
(* Several SerialTaskQueues as their users see them.  A call of            *)
(* pickNextTask() takes two steps here: the check of m_pauseCount, which   *)
(* is made without a lock, and the rest, which m_pickingNextTask and       *)
(* m_taskChosen make atomic: QueueImplementsTaskQueue, a theorem of        *)
(* SerialTaskQueueProofs.  The module has the operations only;             *)
(* SerialTaskQueueChain and LimitedTaskQueue use them.                     *)
(***************************************************************************)
EXTENDS Naturals, Sequences

CONSTANTS Queues,       \* the queues
          Actors,       \* whatever pushes, pauses or resumes; tasks do so too
          NoTask        \* nullptr

VARIABLES queue,        \* m_tasks of each queue
          pauseCount,   \* m_pauseCount of each queue
          chosen,       \* the task each queue has handed out, if any
          pick          \* the call of pickNextTask() each actor is in

NoPick == [stage |-> "none"]
PickOf(q, s) == [stage |-> s, queue |-> q]
NotPicking(a) == pick[a] = NoPick

QueuesTypeOK(Tasks) ==
  /\ queue \in [Queues -> Seq(Tasks)]
  /\ pauseCount \in [Queues -> Nat]
  /\ chosen \in [Queues -> Tasks \cup {NoTask}]
  /\ pick \in [Actors -> {NoPick} \cup [stage : {"check", "commit"}, queue : Queues]]

QueuesInit ==
  /\ queue = [q \in Queues |-> <<>>]
  /\ pauseCount = [q \in Queues |-> 0]
  /\ chosen = [q \in Queues |-> NoTask]
  /\ pick = [a \in Actors |-> NoPick]

(* Mutant: the task jumps the queue.                                       *)
EnqueueFirst(a, q, t) ==
  /\ queue' = [queue EXCEPT ![q] = <<t>> \o @]
  /\ pick' = [pick EXCEPT ![a] = PickOf(q, "check")]
  /\ UNCHANGED <<pauseCount, chosen>>

Enqueue(a, q, t) ==
  /\ queue' = [queue EXCEPT ![q] = Append(@, t)]
  /\ pick' = [pick EXCEPT ![a] = PickOf(q, "check")]
  /\ UNCHANGED <<pauseCount, chosen>>

PauseQueue(q) ==
  /\ pauseCount' = [pauseCount EXCEPT ![q] = @ + 1]
  /\ UNCHANGED <<queue, chosen, pick>>

(* Mutant: nobody looks at the queue that is no longer paused.             *)
ResumeQueueSilently(a, q) ==
  /\ pauseCount' = [pauseCount EXCEPT ![q] = @ - 1]
  /\ UNCHANGED <<queue, chosen, pick>>

ResumeQueue(a, q) ==
  /\ pauseCount' = [pauseCount EXCEPT ![q] = @ - 1]
  /\ pick' = [pick EXCEPT ![a] = IF pauseCount[q] = 1 THEN PickOf(q, "check") ELSE @]
  /\ UNCHANGED <<queue, chosen>>

FinishTask(a, q) ==
  /\ chosen' = [chosen EXCEPT ![q] = NoTask]
  /\ pick' = [pick EXCEPT ![a] = PickOf(q, "check")]
  /\ UNCHANGED <<queue, pauseCount>>

(* if (0 != m_pauseCount) return nullptr;                                  *)
PickCheck(a) ==
  /\ pick[a].stage = "check"
  /\ pick' = [pick EXCEPT ![a] = IF pauseCount[pick[a].queue] # 0 THEN NoPick
                                 ELSE PickOf(pick[a].queue, "commit")]
  /\ UNCHANGED <<queue, pauseCount, chosen>>

(* What the rest of pickNextTask() hands out, NoTask if it is nothing.     *)
Picked(a) == LET q == pick[a].queue
             IN  IF chosen[q] = NoTask /\ queue[q] # <<>> THEN Head(queue[q]) ELSE NoTask

PickCommit(a) ==
  /\ pick[a].stage = "commit"
  /\ LET q == pick[a].queue
     IN  IF Picked(a) = NoTask
           THEN UNCHANGED <<queue, chosen>>
           ELSE /\ chosen' = [chosen EXCEPT ![q] = Picked(a)]
                /\ queue' = [queue EXCEPT ![q] = Tail(@)]
  /\ pick' = [pick EXCEPT ![a] = NoPick]
  /\ UNCHANGED pauseCount

(* A task waits in an unpaused queue that nobody is going to look at.      *)
Stuck(q) == /\ queue[q] # <<>>
            /\ pauseCount[q] = 0
            /\ chosen[q] = NoTask
            /\ \A a \in Actors : pick[a] = NoPick \/ pick[a].queue # q
=============================================================================
