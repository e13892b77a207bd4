--------------------- MODULE SerialTaskQueueDestruction ---------------------
(***************************************************************************)
(* edm::SerialTaskQueue to the end of its life.  The destructor finds out  *)
(* in two reads whether a task is waiting or running, and if so pushes a   *)
(* last task and waits for the task_group it is in.                        *)
(*                                                                         *)
(* The queue is destroyed by the client that owns it, when no client is in *)
(* a call; from then on nobody but the destructor calls it, as C++ demands *)
(* of an object being destroyed.                                           *)
(***************************************************************************)
EXTENDS SerialTaskQueue

CONSTANTS Owner,   \* the client that destroys the queue
          Last     \* the task the destructor pushes, in a task_group of its own

ASSUME OwnerAssumption == /\ Owner \in Clients /\ Last \in Tasks
                          /\ \A t \in Tasks : Group[t] = Group[Last] => t = Last

VARIABLES dtor,      \* where the destructor is
          isEmpty    \* its local variable

dtorVars == <<dtor, isEmpty>>
allVars  == <<vars, dtorVars>>

DestructionInit == Init /\ dtor = "not begun" /\ isEmpty = FALSE

DestructionTypeOK == /\ dtor \in {"not begun", "chosen", "push", "wait", "gone"}
                     /\ isEmpty \in BOOLEAN

(* The destructor begins and reads m_tasks.empty().                        *)
ReadEmpty ==
  /\ dtor = "not begun"
  /\ \A c \in Clients : pc[c] = "idle"
  /\ isEmpty' = (tasks = <<>>)
  /\ dtor' = "chosen"
  /\ UNCHANGED vars

(* Mutant: a task that is waiting is overlooked.                           *)
ReadChosenOnly ==
  /\ dtor = "chosen"
  /\ dtor' = IF taskChosen THEN "push" ELSE "gone"
  /\ UNCHANGED <<vars, isEmpty>>

(* It reads m_taskChosen.  The pause count does not change any more.       *)
ReadChosen ==
  /\ dtor = "chosen"
  /\ dtor' = IF (~isEmpty /\ pauseCount = 0) \/ taskChosen THEN "push" ELSE "gone"
  /\ UNCHANGED <<vars, isEmpty>>

PushLast ==
  /\ dtor = "push"
  /\ Push(Owner, Last)
  /\ dtor' = "wait"
  /\ UNCHANGED isEmpty

(* g.wait(): the last task has run, and so has the TBB task it ran in.     *)
Waited ==
  /\ dtor = "wait"
  /\ pc[Owner] = "idle" /\ Last \in done /\ pc[Last] = "idle"
  /\ dtor' = "gone"
  /\ UNCHANGED <<vars, isEmpty>>

(* Before, everybody may call the queue.                                   *)
UserCall(a) ==
  /\ dtor = "not begun"
  /\ (\E t \in Tasks \ {Last} : Push(a, t)) \/ Pause(a) \/ Resume(a)
  /\ UNCHANGED dtorVars

(* The queue is gone, or its destructor waits for a task that a pause      *)
(* holds back for ever.                                                    *)
Over == /\ dtor = "gone" \/ (dtor = "wait" /\ pauseCount > 0)
        /\ \A a \in Actors : pc[a] = "idle"
        /\ UNCHANGED allVars

Destructor == ReadEmpty \/ ReadChosen \/ PushLast \/ Waited

DestructionNext == \/ \E a \in Actors : (Step(a) /\ UNCHANGED dtorVars) \/ UserCall(a)
                   \/ Destructor
                   \/ Over

DestructionSpec == DestructionInit /\ [][DestructionNext]_allVars

(* As FairSpec, and a destructor that has begun goes on.                   *)
DestructionProgress ==
  \/ \E a \in Actors : Step(a) /\ UNCHANGED dtorVars
  \/ \E c \in Clients : dtor = "not begun" /\ Resume(c) /\ UNCHANGED dtorVars
  \/ ReadChosen \/ PushLast \/ Waited

FairDestructionSpec == DestructionSpec /\ WF_allVars(DestructionProgress)

-----------------------------------------------------------------------------
(* Properties.                                                             *)

NobodyHolds == \A a \in Actors : picked[a] = NoTask /\ cur[a] = NoTask

(* "be certain all tasks have completed" (SerialTaskQueue.cc:29): when the *)
(* destructor of a queue that is not paused returns, every task pushed has *)
(* run, although the two reads are apart and threads pick tasks meanwhile. *)
GoneAfterTasks ==
  dtor = "gone" /\ pauseCount = 0 =>
    tasks = <<>> /\ pushed = done /\ NobodyHolds

(* The inductive invariant behind it: no task gets lost on its way, the    *)
(* last task stays behind all others, and a queue found empty stays so.    *)
AllAccounted ==
  \A t \in pushed : \/ t \in done \cup HandedOut
                    \/ \E i \in 1..Len(tasks) : tasks[i] = t

LastIsLast ==
  /\ Last \in pushed => dtor \in {"wait", "gone"}
  /\ \A i \in 1..Len(tasks) : tasks[i] = Last => i = Len(tasks)
  /\ Last \in HandedOut => tasks = <<>>
  /\ Last \in done => tasks = <<>> /\ NobodyHolds

StaysEmpty ==
  /\ dtor = "chosen" /\ isEmpty => tasks = <<>>
  /\ dtor = "gone" /\ pauseCount = 0 => tasks = <<>> /\ NobodyHolds

DestructionInv == IInv /\ DestructionTypeOK /\ AllAccounted /\ LastIsLast /\ StaysEmpty

(* Every pushed task is run, the destructor's too, which then returns,     *)
(* unless the queue is destroyed while it is paused.                       *)
TasksRunAndDestructorEnds ==
  /\ \A t \in Tasks : t \in pushed ~> t \in done \/ (dtor # "not begun" /\ pauseCount > 0)
  /\ dtor # "not begun" ~> dtor = "gone" \/ pauseCount > 0
=============================================================================
