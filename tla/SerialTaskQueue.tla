--------------------------- MODULE SerialTaskQueue ---------------------------
(***************************************************************************)
(* edm::SerialTaskQueue, one action per atomic access to its shared state. *)
(*                                                                         *)
(* The actors are the client threads and the TBB tasks that the queue      *)
(* itself spawns.  A spawned TBB task is identified by the first queued    *)
(* task it executes; it may go on to execute further tasks of the same     *)
(* task_group.  Queued tasks may themselves push, pause and resume.        *)
(***************************************************************************)
EXTENDS Naturals, Sequences

CONSTANTS Clients,      \* threads that use the queue from outside
          Tasks,        \* the tasks that may be pushed, each at most once
          Group,        \* the tbb::task_group each task is to run in
          NoTask,       \* nullptr
          MaxPauses     \* bound: number of calls to pause()

ASSUME ActorAssumption == /\ Clients \cap Tasks = {}
                          /\ NoTask \notin Tasks
ASSUME PauseAssumption == MaxPauses \in Nat

VARIABLES tasks,              \* m_tasks
          pauseCount,         \* m_pauseCount
          taskChosen,         \* m_taskChosen
          pickingNextTask,    \* m_pickingNextTask
          pc,                 \* where each actor is
          caller,             \* the member function whose pickNextTask() is running
          picked,             \* the task pickNextTask() took from m_tasks
          cur,                \* the task a spawned TBB task is to execute
          pushed, done,       \* the tasks pushed, and those whose action has returned
          pausesLeft          \* calls to pause() the bound still allows

queueVars == <<tasks, pauseCount, taskChosen, pickingNextTask>>
history   == <<pushed, done, pausesLeft>>
vars      == <<queueVars, pc, caller, picked, cur, history>>

Actors == Clients \cup Tasks

(* "idle" is a client between calls, and a TBB task not spawned or ended.  *)
PickSteps == {"check", "lock", "choose", "pop", "unchoose", "unlock", "return"}
Labels    == {"idle", "spawned", "body"} \cup PickSteps

TypeOK ==
  /\ tasks \in Seq(Tasks)
  /\ pauseCount \in Nat
  /\ taskChosen \in BOOLEAN
  /\ pickingNextTask \in BOOLEAN
  /\ pc \in [Actors -> Labels]
  /\ caller \in [Actors -> {"push", "resume", "finish"}]
  /\ picked \in [Actors -> Tasks \cup {NoTask}]
  /\ cur \in [Actors -> Tasks \cup {NoTask}]
  /\ pushed \subseteq Tasks
  /\ done \subseteq Tasks
  /\ pausesLeft \in Nat

Init ==
  /\ tasks = <<>>
  /\ pauseCount = 0
  /\ taskChosen = FALSE
  /\ pickingNextTask = FALSE
  /\ pc = [a \in Actors |-> "idle"]
  /\ caller = [a \in Actors |-> "push"]
  /\ picked = [a \in Actors |-> NoTask]
  /\ cur = [a \in Actors |-> NoTask]
  /\ pushed = {}
  /\ done = {}
  /\ pausesLeft = MaxPauses

-----------------------------------------------------------------------------
(* Calls from outside, or from the action of the task being executed.      *)

CanCall(a) == pc[a] = IF a \in Clients THEN "idle" ELSE "body"

StartPick(a, f) == /\ pc' = [pc EXCEPT ![a] = "check"]
                   /\ caller' = [caller EXCEPT ![a] = f]

Push(a, t) ==
  /\ CanCall(a)
  /\ t \notin pushed
  /\ tasks' = Append(tasks, t)
  /\ pushed' = pushed \cup {t}
  /\ StartPick(a, "push")
  /\ UNCHANGED <<pauseCount, taskChosen, pickingNextTask, picked, cur, done,
                 pausesLeft>>

Pause(a) ==
  /\ CanCall(a)
  /\ pausesLeft > 0
  /\ pauseCount' = pauseCount + 1
  /\ pausesLeft' = pausesLeft - 1
  /\ UNCHANGED <<tasks, taskChosen, pickingNextTask, pc, caller, picked, cur,
                 pushed, done>>

(* Mutant: resume() does not look for the next task.                       *)
ResumeSilently(a) ==
  /\ CanCall(a)
  /\ pauseCount > 0
  /\ pauseCount' = pauseCount - 1
  /\ UNCHANGED <<tasks, taskChosen, pickingNextTask, pc, caller, picked, cur, pushed,
                 done, pausesLeft>>

(* Each resume() balances an earlier pause(), by whichever actor.          *)
Resume(a) ==
  /\ CanCall(a)
  /\ pauseCount > 0
  /\ pauseCount' = pauseCount - 1
  /\ IF pauseCount = 1
       THEN StartPick(a, "resume")
       ELSE UNCHANGED <<pc, caller>>
  /\ UNCHANGED <<tasks, taskChosen, pickingNextTask, picked, cur, pushed, done,
                 pausesLeft>>

-----------------------------------------------------------------------------
(* pickNextTask(), and what its caller does with the task it returns.      *)

AfterCall(a) == IF caller[a] = "finish" \/ a \in Clients THEN "idle" ELSE "body"

(* Mutant: the pause count is not looked at.                               *)
PickUnpaused(a) ==
  /\ pc[a] = "check"
  /\ pc' = [pc EXCEPT ![a] = "lock"]
  /\ UNCHANGED <<queueVars, caller, picked, cur, history>>

PickCheck(a) ==
  /\ pc[a] = "check"
  /\ pc' = [pc EXCEPT ![a] = IF pauseCount # 0 THEN "return" ELSE "lock"]
  /\ UNCHANGED <<queueVars, caller, picked, cur, history>>

(* Mutant: choosing and popping are not made atomic.                       *)
PickNoLock(a) ==
  /\ pc[a] = "lock"
  /\ pickingNextTask' = TRUE
  /\ pc' = [pc EXCEPT ![a] = "choose"]
  /\ UNCHANGED <<tasks, pauseCount, taskChosen, caller, picked, cur, history>>

PickLock(a) ==
  /\ pc[a] = "lock"
  /\ ~pickingNextTask
  /\ pickingNextTask' = TRUE
  /\ pc' = [pc EXCEPT ![a] = "choose"]
  /\ UNCHANGED <<tasks, pauseCount, taskChosen, caller, picked, cur, history>>

(* Mutant: m_taskChosen is stored, not exchanged.                          *)
PickStore(a) ==
  /\ pc[a] = "choose"
  /\ taskChosen' = TRUE
  /\ pc' = [pc EXCEPT ![a] = "pop"]
  /\ UNCHANGED <<tasks, pauseCount, pickingNextTask, caller, picked, cur, history>>

PickChoose(a) ==
  /\ pc[a] = "choose"
  /\ taskChosen' = TRUE
  /\ pc' = [pc EXCEPT ![a] = IF taskChosen THEN "unlock" ELSE "pop"]
  /\ UNCHANGED <<tasks, pauseCount, pickingNextTask, caller, picked, cur, history>>

(* Mutant: the youngest task is popped.                                    *)
PickYoungest(a) ==
  /\ pc[a] = "pop"
  /\ IF tasks = <<>>
       THEN /\ pc' = [pc EXCEPT ![a] = "unchoose"]
            /\ UNCHANGED <<tasks, picked>>
       ELSE /\ tasks' = SubSeq(tasks, 1, Len(tasks) - 1)
            /\ picked' = [picked EXCEPT ![a] = tasks[Len(tasks)]]
            /\ pc' = [pc EXCEPT ![a] = "unlock"]
  /\ UNCHANGED <<pauseCount, taskChosen, pickingNextTask, caller, cur, history>>

PickPop(a) ==
  /\ pc[a] = "pop"
  /\ IF tasks = <<>>
       THEN /\ pc' = [pc EXCEPT ![a] = "unchoose"]
            /\ UNCHANGED <<tasks, picked>>
       ELSE /\ tasks' = Tail(tasks)
            /\ picked' = [picked EXCEPT ![a] = Head(tasks)]
            /\ pc' = [pc EXCEPT ![a] = "unlock"]
  /\ UNCHANGED <<pauseCount, taskChosen, pickingNextTask, caller, cur, history>>

PickUnchoose(a) ==
  /\ pc[a] = "unchoose"
  /\ taskChosen' = FALSE
  /\ pc' = [pc EXCEPT ![a] = "unlock"]
  /\ UNCHANGED <<tasks, pauseCount, pickingNextTask, caller, picked, cur, history>>

PickUnlock(a) ==
  /\ pc[a] = "unlock"
  /\ pickingNextTask' = FALSE
  /\ pc' = [pc EXCEPT ![a] = "return"]
  /\ UNCHANGED <<tasks, pauseCount, taskChosen, caller, picked, cur, history>>

ReturnEmpty(a) ==
  /\ pc[a] = "return"
  /\ picked[a] = NoTask
  /\ pc' = [pc EXCEPT ![a] = AfterCall(a)]
  /\ UNCHANGED <<queueVars, caller, picked, cur, history>>

(* The loop of spawn() executes the next task itself when it belongs to    *)
(* the task_group this TBB task was run in.                                *)
KeepsRunning(a) == caller[a] = "finish" /\ Group[picked[a]] = Group[a]

ReturnContinue(a) ==
  /\ pc[a] = "return"
  /\ picked[a] # NoTask
  /\ KeepsRunning(a)
  /\ cur' = [cur EXCEPT ![a] = picked[a]]
  /\ picked' = [picked EXCEPT ![a] = NoTask]
  /\ pc' = [pc EXCEPT ![a] = "body"]
  /\ UNCHANGED <<queueVars, caller, history>>

ReturnSpawn(a) ==
  /\ pc[a] = "return"
  /\ picked[a] # NoTask
  /\ ~KeepsRunning(a)
  /\ cur' = [cur EXCEPT ![picked[a]] = picked[a]]
  /\ pc' = [pc EXCEPT ![a] = AfterCall(a), ![picked[a]] = "spawned"]
  /\ picked' = [picked EXCEPT ![a] = NoTask]
  /\ UNCHANGED <<queueVars, caller, history>>

-----------------------------------------------------------------------------
(* The TBB task: TBB may start it at any time after it was spawned.        *)

Begin(a) ==
  /\ pc[a] = "spawned"
  /\ pc' = [pc EXCEPT ![a] = "body"]
  /\ UNCHANGED <<queueVars, caller, picked, cur, history>>

(* execute() has returned (an exception is swallowed), then finishedTask() *)
Finish(a) ==
  /\ a \in Tasks
  /\ pc[a] = "body"
  /\ taskChosen' = FALSE
  /\ done' = done \cup {cur[a]}
  /\ cur' = [cur EXCEPT ![a] = NoTask]
  /\ StartPick(a, "finish")
  /\ UNCHANGED <<tasks, pauseCount, pickingNextTask, picked, pushed, pausesLeft>>

-----------------------------------------------------------------------------
Step(a) == \/ PickCheck(a) \/ PickLock(a) \/ PickChoose(a) \/ PickPop(a)
           \/ PickUnchoose(a) \/ PickUnlock(a)
           \/ ReturnEmpty(a) \/ ReturnContinue(a) \/ ReturnSpawn(a)
           \/ Begin(a) \/ Finish(a)

Call(a) == (\E t \in Tasks : Push(a, t)) \/ Pause(a) \/ Resume(a)

(* Everything was pushed, run and resumed: the queue is at rest.           *)
AtRest == /\ pushed = Tasks
          /\ pauseCount = 0
          /\ \A a \in Actors : pc[a] = "idle"
          /\ UNCHANGED vars

Next == (\E a \in Actors : Step(a) \/ Call(a)) \/ AtRest

Spec == Init /\ [][Next]_vars

(* A started call or TBB task goes on, and whoever paused resumes: some    *)
(* thread goes on while one can, no thread is promised its turn.           *)
Progress == \/ \E a \in Actors : Step(a)
            \/ \E a \in Clients : Resume(a)

FairSpec == Spec /\ WF_vars(Progress)

-----------------------------------------------------------------------------
(* Correctness.                                                            *)

(* Actor a is responsible for m_taskChosen being set.                      *)
Owns(a) == \/ pc[a] \in {"pop", "unchoose"}
           \/ picked[a] # NoTask
           \/ cur[a] # NoTask

(* Actor a is between taking and releasing m_pickingNextTask.              *)
InPick(a) == pc[a] \in {"choose", "pop", "unchoose", "unlock"}

Executing(a) == cur[a] # NoTask /\ pc[a] # "spawned"

(* "run one and only one task at a time" (SerialTaskQueue.h:15): no two    *)
(* TBB tasks are ever inside execute() of queued tasks together.           *)
MutualExclusion ==
  \A a, b \in Actors : Executing(a) /\ Executing(b) => a = b

(* A task waiting in an unpaused queue is always going to be noticed:      *)
(* someone is executing a task and will call finishedTask(), or is on the  *)
(* way to try_pop().  This is the lost task of the comment at lines 93-95. *)
NoLostTask ==
  tasks # <<>> /\ pauseCount = 0 =>
    \E a \in Actors : \/ pc[a] \in {"check", "lock", "choose", "pop"}
                      \/ picked[a] # NoTask
                      \/ cur[a] # NoTask

(* The inductive invariant behind the two: what each actor holds at each   *)
(* place, and m_pickingNextTask and m_taskChosen seen as two locks.        *)
Roles ==
  \A a \in Actors :
    /\ picked[a] # NoTask => pc[a] \in {"unlock", "return"}
    /\ cur[a] # NoTask => /\ a \in Tasks
                          /\ picked[a] = NoTask
                          /\ pc[a] \notin {"idle", "pop", "unchoose"}
    /\ pc[a] \in {"spawned", "body"} => cur[a] # NoTask
    /\ a \in Tasks /\ pc[a] \in PickSteps =>
         (cur[a] = NoTask <=> caller[a] = "finish")
    /\ caller[a] = "finish" => a \in Tasks

(* m_pickingNextTask is a lock.                                            *)
PickLocked ==
  /\ \A a \in Actors : InPick(a) => pickingNextTask
  /\ \A a, b \in Actors : InPick(a) /\ InPick(b) => a = b

(* m_taskChosen is a lock too, handed from the picker to the TBB task.     *)
ChosenOwned ==
  /\ taskChosen <=> \E a \in Actors : Owns(a)
  /\ \A a, b \in Actors : Owns(a) /\ Owns(b) => a = b

(* Only pushed tasks are in the queue, held by an actor, or done.          *)
OnlyPushed ==
  /\ \A i \in 1..Len(tasks) : tasks[i] \in pushed
  /\ \A a \in Actors : {picked[a], cur[a]} \subseteq pushed \cup {NoTask}
  /\ done \subseteq pushed

IInv == TypeOK /\ OnlyPushed /\ Roles /\ PickLocked /\ ChosenOwned /\ NoLostTask

(* A queue that is paused with no task handed out and nobody past the      *)
(* check of line 90 hands out no task until it is resumed.  Without the    *)
(* last condition SerialTaskQueue.h:93-94, "once that running task finishes *)
(* no further tasks will be started", is not true of the code: see         *)
(* OnlyOneUser of SerialTaskQueueChain.                                    *)
PausedQuiet == /\ pauseCount > 0
               /\ \A a \in Actors : ~Owns(a) /\ ~InPick(a) /\ pc[a] # "lock"

PauseIsStable == [][PausedQuiet /\ pauseCount' > 0 => PausedQuiet']_vars

(* Every pushed task is run, whatever the pushes and pauses around it.     *)
EveryTaskRuns == \A t \in Tasks : t \in pushed ~> t \in done

-----------------------------------------------------------------------------
(* The queue implements the serial queue of its documentation: the task    *)
(* handed out is the one a picker or a TBB task holds.                     *)
HandedOut == {picked[a] : a \in Actors} \cup {cur[a] : a \in Actors}

Abstract == INSTANCE SerialQueueSpec
              WITH waiting <- tasks, active <- HandedOut \ {NoTask}, finished <- done

(* Tasks are begun in push order, one at a time, each exactly once.        *)
ImplementsSerialQueue == Abstract!Spec
=============================================================================
