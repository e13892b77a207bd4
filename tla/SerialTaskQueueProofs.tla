------------------------ MODULE SerialTaskQueueProofs ------------------------
(***************************************************************************)
(* Proofs about SerialTaskQueue, and at the end about its destruction, for *)
(* any clients, tasks, task_groups and bound on the pauses.                *)
(***************************************************************************)
EXTENDS SerialTaskQueueDestruction, TLAPS

-----------------------------------------------------------------------------
(* The inductive invariant holds when the queue is constructed             *)
(* (SerialTaskQueue.h:69).                                                 *)
LEMMA InitIInv == Init => IInv
<1> SUFFICES ASSUME Init PROVE IInv
  OBVIOUS
<1> USE DEF Init, Actors
<1>1. TypeOK
  <2>1. tasks \in Seq(Tasks)
    OBVIOUS
  <2>2. pc \in [Actors -> Labels]
    BY DEF Labels
  <2>3. /\ caller \in [Actors -> {"push", "resume", "finish"}]
        /\ picked \in [Actors -> Tasks \cup {NoTask}]
        /\ cur \in [Actors -> Tasks \cup {NoTask}]
    OBVIOUS
  <2> QED
    BY <2>1, <2>2, <2>3, PauseAssumption DEF TypeOK
<1>2. \A a \in Actors : pc[a] = "idle" /\ picked[a] = NoTask /\ cur[a] = NoTask
  OBVIOUS
<1>3. Roles
  BY <1>2 DEF Roles, PickSteps
<1>4. PickLocked /\ ChosenOwned
  BY <1>2 DEF PickLocked, ChosenOwned, InPick, Owns
<1>5. NoLostTask
  BY DEF NoLostTask
<1>6. OnlyPushed
  BY <1>2 DEF OnlyPushed
<1> QED
  BY <1>1, <1>3, <1>4, <1>5, <1>6 DEF IInv

(* Every step of the queue keeps its state well typed: m_pauseCount is     *)
(* only decremented by a resume() that balances a pause().                 *)
LEMMA TypeStep == IInv /\ [Next]_vars => TypeOK'
<1> SUFFICES ASSUME IInv, [Next]_vars PROVE TypeOK'
  OBVIOUS
<1> USE ActorAssumption DEF IInv, TypeOK, Actors, Labels, PickSteps, vars, queueVars, history
<1>1. ASSUME NEW a \in Actors, NEW t \in Tasks, Push(a, t) PROVE TypeOK'
  BY <1>1 DEF Push, StartPick
<1>2. ASSUME NEW a \in Actors, Pause(a) PROVE TypeOK'
  BY <1>2 DEF Pause
<1>3. ASSUME NEW a \in Actors, Resume(a) PROVE TypeOK'
  <2>1. pauseCount' \in Nat
    BY <1>3 DEF Resume
  <2> QED
    BY <1>3, <2>1 DEF Resume, StartPick
<1>4. ASSUME NEW a \in Actors, PickCheck(a) PROVE TypeOK'
  BY <1>4 DEF PickCheck
<1>5. ASSUME NEW a \in Actors, PickLock(a) PROVE TypeOK'
  BY <1>5 DEF PickLock
<1>6. ASSUME NEW a \in Actors, PickChoose(a) PROVE TypeOK'
  BY <1>6 DEF PickChoose
<1>7. ASSUME NEW a \in Actors, PickPop(a) PROVE TypeOK'
  <2>1. CASE tasks = <<>>
    BY <1>7, <2>1 DEF PickPop
  <2>2. CASE tasks # <<>>
    <3>1. Head(tasks) \in Tasks /\ Tail(tasks) \in Seq(Tasks)
      BY <2>2
    <3>2. /\ tasks' = Tail(tasks)
          /\ picked' = [picked EXCEPT ![a] = Head(tasks)]
          /\ pc' = [pc EXCEPT ![a] = "unlock"]
          /\ UNCHANGED <<pauseCount, taskChosen, pickingNextTask, caller, cur, history>>
      BY <1>7, <2>2 DEF PickPop
    <3>3. tasks' \in Seq(Tasks) /\ picked' \in [Actors -> Tasks \cup {NoTask}]
      BY <3>1, <3>2
    <3> QED
      BY <3>2, <3>3
  <2> QED
    BY <2>1, <2>2
<1>8. ASSUME NEW a \in Actors, PickUnchoose(a) PROVE TypeOK'
  BY <1>8 DEF PickUnchoose
<1>9. ASSUME NEW a \in Actors, PickUnlock(a) PROVE TypeOK'
  BY <1>9 DEF PickUnlock
<1>10. ASSUME NEW a \in Actors, ReturnEmpty(a) PROVE TypeOK'
  BY <1>10 DEF ReturnEmpty, AfterCall
<1>11. ASSUME NEW a \in Actors, ReturnContinue(a) PROVE TypeOK'
  BY <1>11 DEF ReturnContinue
<1>12. ASSUME NEW a \in Actors, ReturnSpawn(a) PROVE TypeOK'
  BY <1>12 DEF ReturnSpawn, AfterCall
<1>13. ASSUME NEW a \in Actors, Begin(a) PROVE TypeOK'
  BY <1>13 DEF Begin
<1>14. ASSUME NEW a \in Actors, Finish(a) PROVE TypeOK'
  <2>1. cur[a] \in Tasks
    BY <1>14 DEF Finish, Roles
  <2>2. /\ done' \subseteq Tasks
        /\ cur' \in [Actors -> Tasks \cup {NoTask}]
        /\ taskChosen' \in BOOLEAN
    BY <1>14, <2>1 DEF Finish
  <2>3. /\ pc' \in [Actors -> Labels]
        /\ caller' \in [Actors -> {"push", "resume", "finish"}]
    BY <1>14 DEF Finish, StartPick
  <2> QED
    BY <1>14, <2>2, <2>3 DEF Finish
<1>15. CASE UNCHANGED vars
  BY <1>15
<1> QED
  BY <1>1, <1>2, <1>3, <1>4, <1>5, <1>6, <1>7, <1>8, <1>9, <1>10, <1>11, <1>12,
     <1>13, <1>14, <1>15 DEF Next, Step, Call, AtRest

(* No step puts a task that was not pushed into the queue or into the      *)
(* hands of an actor.                                                      *)
LEMMA OnlyPushedStep == IInv /\ [Next]_vars => OnlyPushed'
<1> SUFFICES ASSUME IInv, [Next]_vars PROVE OnlyPushed'
  OBVIOUS
<1> USE ActorAssumption DEF IInv, TypeOK, Actors, Labels, PickSteps, vars, queueVars, history,
       OnlyPushed
<1>1. ASSUME NEW a \in Actors, NEW t \in Tasks, Push(a, t) PROVE OnlyPushed'
  BY <1>1 DEF Push, StartPick, CanCall
<1>2. ASSUME NEW a \in Actors, Pause(a) PROVE OnlyPushed'
  BY <1>2 DEF Pause, CanCall
<1>3. ASSUME NEW a \in Actors, Resume(a) PROVE OnlyPushed'
  BY <1>3 DEF Resume, StartPick, CanCall
<1>4. ASSUME NEW a \in Actors, PickCheck(a) PROVE OnlyPushed'
  BY <1>4 DEF PickCheck
<1>5. ASSUME NEW a \in Actors, PickLock(a) PROVE OnlyPushed'
  BY <1>5 DEF PickLock
<1>6. ASSUME NEW a \in Actors, PickChoose(a) PROVE OnlyPushed'
  BY <1>6 DEF PickChoose
<1>7. ASSUME NEW a \in Actors, PickPop(a) PROVE OnlyPushed'
  <2>1. CASE tasks = <<>>
    BY <1>7, <2>1 DEF PickPop
  <2>2. CASE tasks # <<>>
    <3>1. Head(tasks) \in pushed /\ \A i \in 1..Len(Tail(tasks)) : Tail(tasks)[i] \in pushed
      BY <2>2
    <3> QED
      BY <1>7, <2>2, <3>1 DEF PickPop
  <2> QED
    BY <2>1, <2>2
<1>8. ASSUME NEW a \in Actors, PickUnchoose(a) PROVE OnlyPushed'
  BY <1>8 DEF PickUnchoose
<1>9. ASSUME NEW a \in Actors, PickUnlock(a) PROVE OnlyPushed'
  BY <1>9 DEF PickUnlock
<1>10. ASSUME NEW a \in Actors, ReturnEmpty(a) PROVE OnlyPushed'
  BY <1>10 DEF ReturnEmpty, AfterCall
<1>11. ASSUME NEW a \in Actors, ReturnContinue(a) PROVE OnlyPushed'
  BY <1>11 DEF ReturnContinue, KeepsRunning
<1>12. ASSUME NEW a \in Actors, ReturnSpawn(a) PROVE OnlyPushed'
  BY <1>12 DEF ReturnSpawn, AfterCall
<1>13. ASSUME NEW a \in Actors, Begin(a) PROVE OnlyPushed'
  BY <1>13 DEF Begin
<1>14. ASSUME NEW a \in Actors, Finish(a) PROVE OnlyPushed'
  BY <1>14 DEF Finish, StartPick, Roles
<1>15. CASE UNCHANGED vars
  BY <1>15
<1> QED
  BY <1>1, <1>2, <1>3, <1>4, <1>5, <1>6, <1>7, <1>8, <1>9, <1>10, <1>11, <1>12,
     <1>13, <1>14, <1>15 DEF Next, Step, Call, AtRest

(* No step breaks what an actor holds at each place of push(), resume(),   *)
(* pickNextTask() and of the TBB task spawn() starts.                      *)
LEMMA RolesStep == IInv /\ [Next]_vars => Roles'
<1> SUFFICES ASSUME IInv, [Next]_vars PROVE Roles'
  OBVIOUS
<1> USE ActorAssumption DEF IInv, TypeOK, Actors, Labels, PickSteps, vars, queueVars, history,
       Roles, PickLocked, ChosenOwned, Owns, InPick
<1>1. ASSUME NEW a \in Actors, NEW t \in Tasks, Push(a, t) PROVE Roles'
  BY <1>1 DEF Push, StartPick, CanCall
<1>2. ASSUME NEW a \in Actors, Pause(a) PROVE Roles'
  BY <1>2 DEF Pause, CanCall
<1>3. ASSUME NEW a \in Actors, Resume(a) PROVE Roles'
  BY <1>3 DEF Resume, StartPick, CanCall
<1>4. ASSUME NEW a \in Actors, PickCheck(a) PROVE Roles'
  BY <1>4 DEF PickCheck
<1>5. ASSUME NEW a \in Actors, PickLock(a) PROVE Roles'
  BY <1>5 DEF PickLock
<1>6. ASSUME NEW a \in Actors, PickChoose(a) PROVE Roles'
  BY <1>6 DEF PickChoose
<1>7. ASSUME NEW a \in Actors, PickPop(a) PROVE Roles'
  BY <1>7 DEF PickPop
<1>8. ASSUME NEW a \in Actors, PickUnchoose(a) PROVE Roles'
  BY <1>8 DEF PickUnchoose
<1>9. ASSUME NEW a \in Actors, PickUnlock(a) PROVE Roles'
  BY <1>9 DEF PickUnlock
<1>10. ASSUME NEW a \in Actors, ReturnEmpty(a) PROVE Roles'
  BY <1>10 DEF ReturnEmpty, AfterCall
<1>11. ASSUME NEW a \in Actors, ReturnContinue(a) PROVE Roles'
  BY <1>11 DEF ReturnContinue, KeepsRunning
<1>12. ASSUME NEW a \in Actors, ReturnSpawn(a) PROVE Roles'
  BY <1>12 DEF ReturnSpawn, AfterCall
<1>13. ASSUME NEW a \in Actors, Begin(a) PROVE Roles'
  BY <1>13 DEF Begin
<1>14. ASSUME NEW a \in Actors, Finish(a) PROVE Roles'
  BY <1>14 DEF Finish, StartPick
<1>15. CASE UNCHANGED vars
  BY <1>15
<1> QED
  BY <1>1, <1>2, <1>3, <1>4, <1>5, <1>6, <1>7, <1>8, <1>9, <1>10, <1>11, <1>12,
     <1>13, <1>14, <1>15 DEF Next, Step, Call, AtRest

(* m_pickingNextTask is a lock: at most one actor is between the           *)
(* compare_exchange of line 97 and the store of the sentry (line 99).      *)
LEMMA PickLockedStep == IInv /\ [Next]_vars => PickLocked'
<1> SUFFICES ASSUME IInv, [Next]_vars PROVE PickLocked'
  OBVIOUS
<1> USE ActorAssumption DEF IInv, TypeOK, Actors, Labels, PickSteps, vars, queueVars, history,
       PickLocked, InPick
<1>1. ASSUME NEW a \in Actors, NEW t \in Tasks, Push(a, t) PROVE PickLocked'
  BY <1>1 DEF Push, StartPick, CanCall
<1>2. ASSUME NEW a \in Actors, Pause(a) PROVE PickLocked'
  BY <1>2 DEF Pause, CanCall
<1>3. ASSUME NEW a \in Actors, Resume(a) PROVE PickLocked'
  BY <1>3 DEF Resume, StartPick, CanCall
<1>4. ASSUME NEW a \in Actors, PickCheck(a) PROVE PickLocked'
  BY <1>4 DEF PickCheck
<1>5. ASSUME NEW a \in Actors, PickLock(a) PROVE PickLocked'
  BY <1>5 DEF PickLock
<1>6. ASSUME NEW a \in Actors, PickChoose(a) PROVE PickLocked'
  BY <1>6 DEF PickChoose
<1>7. ASSUME NEW a \in Actors, PickPop(a) PROVE PickLocked'
  BY <1>7 DEF PickPop
<1>8. ASSUME NEW a \in Actors, PickUnchoose(a) PROVE PickLocked'
  BY <1>8 DEF PickUnchoose
<1>9. ASSUME NEW a \in Actors, PickUnlock(a) PROVE PickLocked'
  BY <1>9 DEF PickUnlock
<1>10. ASSUME NEW a \in Actors, ReturnEmpty(a) PROVE PickLocked'
  BY <1>10 DEF ReturnEmpty, AfterCall
<1>11. ASSUME NEW a \in Actors, ReturnContinue(a) PROVE PickLocked'
  BY <1>11 DEF ReturnContinue, KeepsRunning
<1>12. ASSUME NEW a \in Actors, ReturnSpawn(a) PROVE PickLocked'
  BY <1>12 DEF ReturnSpawn, AfterCall
<1>13. ASSUME NEW a \in Actors, Begin(a) PROVE PickLocked'
  BY <1>13 DEF Begin
<1>14. ASSUME NEW a \in Actors, Finish(a) PROVE PickLocked'
  BY <1>14 DEF Finish, StartPick
<1>15. CASE UNCHANGED vars
  BY <1>15
<1> QED
  BY <1>1, <1>2, <1>3, <1>4, <1>5, <1>6, <1>7, <1>8, <1>9, <1>10, <1>11, <1>12,
     <1>13, <1>14, <1>15 DEF Next, Step, Call, AtRest

(* m_taskChosen is set exactly while one actor answers for the task it     *)
(* stands for: the exchange of line 101 and the stores of 86 and 107.      *)
LEMMA ChosenOwnedStep == IInv /\ [Next]_vars => ChosenOwned'
<1> SUFFICES ASSUME IInv, [Next]_vars PROVE ChosenOwned'
  OBVIOUS
<1> USE ActorAssumption DEF IInv, TypeOK, Actors, Labels, PickSteps, vars, queueVars, history,
       Roles, PickLocked, ChosenOwned, Owns, InPick
<1>1. ASSUME NEW a \in Actors, NEW t \in Tasks, Push(a, t) PROVE ChosenOwned'
  BY <1>1 DEF Push, StartPick, CanCall
<1>2. ASSUME NEW a \in Actors, Pause(a) PROVE ChosenOwned'
  BY <1>2 DEF Pause, CanCall
<1>3. ASSUME NEW a \in Actors, Resume(a) PROVE ChosenOwned'
  BY <1>3 DEF Resume, StartPick, CanCall
<1>4. ASSUME NEW a \in Actors, PickCheck(a) PROVE ChosenOwned'
  BY <1>4 DEF PickCheck
<1>5. ASSUME NEW a \in Actors, PickLock(a) PROVE ChosenOwned'
  BY <1>5 DEF PickLock
<1>6. ASSUME NEW a \in Actors, PickChoose(a) PROVE ChosenOwned'
  BY <1>6 DEF PickChoose
<1>7. ASSUME NEW a \in Actors, PickPop(a) PROVE ChosenOwned'
  BY <1>7 DEF PickPop
<1>8. ASSUME NEW a \in Actors, PickUnchoose(a) PROVE ChosenOwned'
  BY <1>8 DEF PickUnchoose
<1>9. ASSUME NEW a \in Actors, PickUnlock(a) PROVE ChosenOwned'
  BY <1>9 DEF PickUnlock
<1>10. ASSUME NEW a \in Actors, ReturnEmpty(a) PROVE ChosenOwned'
  BY <1>10 DEF ReturnEmpty, AfterCall
<1>11. ASSUME NEW a \in Actors, ReturnContinue(a) PROVE ChosenOwned'
  BY <1>11 DEF ReturnContinue, KeepsRunning
<1>12. ASSUME NEW a \in Actors, ReturnSpawn(a) PROVE ChosenOwned'
  BY <1>12 DEF ReturnSpawn, AfterCall
<1>13. ASSUME NEW a \in Actors, Begin(a) PROVE ChosenOwned'
  BY <1>13 DEF Begin
<1>14. ASSUME NEW a \in Actors, Finish(a) PROVE ChosenOwned'
  BY <1>14 DEF Finish, StartPick
<1>15. CASE UNCHANGED vars
  BY <1>15
<1> QED
  BY <1>1, <1>2, <1>3, <1>4, <1>5, <1>6, <1>7, <1>8, <1>9, <1>10, <1>11, <1>12,
     <1>13, <1>14, <1>15 DEF Next, Step, Call, AtRest

(* No step leaves a task in an unpaused queue that nobody is on the way    *)
(* to pick: the lost task of the comment at SerialTaskQueue.cc:93-95.      *)
LEMMA NoLostTaskStep == IInv /\ [Next]_vars => NoLostTask'
<1> SUFFICES ASSUME IInv, [Next]_vars PROVE NoLostTask'
  OBVIOUS
<1> USE ActorAssumption DEF IInv, TypeOK, Actors, Labels, PickSteps, vars, queueVars, history,
       Roles, PickLocked, ChosenOwned, Owns, InPick, NoLostTask
<1>1. ASSUME NEW a \in Actors, NEW t \in Tasks, Push(a, t) PROVE NoLostTask'
  BY <1>1 DEF Push, StartPick, CanCall
<1>2. ASSUME NEW a \in Actors, Pause(a) PROVE NoLostTask'
  BY <1>2 DEF Pause, CanCall
<1>3. ASSUME NEW a \in Actors, Resume(a) PROVE NoLostTask'
  BY <1>3 DEF Resume, StartPick, CanCall
<1>4. ASSUME NEW a \in Actors, PickCheck(a) PROVE NoLostTask'
  BY <1>4 DEF PickCheck
<1>5. ASSUME NEW a \in Actors, PickLock(a) PROVE NoLostTask'
  BY <1>5 DEF PickLock
<1>6. ASSUME NEW a \in Actors, PickChoose(a) PROVE NoLostTask'
  BY <1>6 DEF PickChoose
<1>7. ASSUME NEW a \in Actors, PickPop(a) PROVE NoLostTask'
  BY <1>7 DEF PickPop
<1>8. ASSUME NEW a \in Actors, PickUnchoose(a) PROVE NoLostTask'
  BY <1>8 DEF PickUnchoose
<1>9. ASSUME NEW a \in Actors, PickUnlock(a) PROVE NoLostTask'
  BY <1>9 DEF PickUnlock
<1>10. ASSUME NEW a \in Actors, ReturnEmpty(a) PROVE NoLostTask'
  BY <1>10 DEF ReturnEmpty, AfterCall
<1>11. ASSUME NEW a \in Actors, ReturnContinue(a) PROVE NoLostTask'
  BY <1>11 DEF ReturnContinue, KeepsRunning
<1>12. ASSUME NEW a \in Actors, ReturnSpawn(a) PROVE NoLostTask'
  BY <1>12 DEF ReturnSpawn, AfterCall
<1>13. ASSUME NEW a \in Actors, Begin(a) PROVE NoLostTask'
  BY <1>13 DEF Begin
<1>14. ASSUME NEW a \in Actors, Finish(a) PROVE NoLostTask'
  BY <1>14 DEF Finish, StartPick
<1>15. CASE UNCHANGED vars
  BY <1>15
<1> QED
  BY <1>1, <1>2, <1>3, <1>4, <1>5, <1>6, <1>7, <1>8, <1>9, <1>10, <1>11, <1>12,
     <1>13, <1>14, <1>15 DEF Next, Step, Call, AtRest

-----------------------------------------------------------------------------
(* The inductive invariant is preserved by every step of the queue.        *)
LEMMA Invariance == IInv /\ [Next]_vars => IInv'
BY TypeStep, OnlyPushedStep, RolesStep, PickLockedStep, ChosenOwnedStep, NoLostTaskStep
DEF IInv

(* The inductive invariant holds of every behaviour of the queue.          *)
THEOREM InductiveInvariant == Spec => []IInv
BY InitIInv, Invariance, PTL DEF Spec

(* The shared state of the queue stays well typed.                         *)
THEOREM TypeCorrect == Spec => []TypeOK
<1>1. IInv => TypeOK
  BY DEF IInv
<1> QED
  BY <1>1, InductiveInvariant, PTL

(* At most one queued task executes at a time, for any number of threads   *)
(* and task_groups (SerialTaskQueue.h:15).                                 *)
THEOREM OneAtATime == Spec => []MutualExclusion
<1>1. IInv => MutualExclusion
  BY DEF IInv, ChosenOwned, Owns, MutualExclusion, Executing
<1> QED
  BY <1>1, InductiveInvariant, PTL

(* A task waiting in an unpaused queue is never forgotten                  *)
(* (SerialTaskQueue.cc:93-95).                                             *)
THEOREM NoTaskIsLost == Spec => []NoLostTask
<1>1. IInv => NoLostTask
  BY DEF IInv
<1> QED
  BY <1>1, InductiveInvariant, PTL

(* Once nobody is past the check of pickNextTask(), pause() does hold the  *)
(* queue until it is resumed.                                              *)
THEOREM PauseHolds == Spec => PauseIsStable
<1>1. ASSUME IInv, PausedQuiet, pauseCount' > 0, [Next]_vars
      PROVE  PausedQuiet'
  <2> USE <1>1, ActorAssumption
      DEF IInv, TypeOK, PausedQuiet, Owns, InPick, Roles, Actors, PickSteps, vars,
          queueVars, history
  <2>1. ASSUME NEW a \in Actors, NEW t \in Tasks, Push(a, t) PROVE PausedQuiet'
    BY <2>1 DEF Push, StartPick
  <2>2. ASSUME NEW a \in Actors, Pause(a) PROVE PausedQuiet'
    BY <2>2 DEF Pause
  <2>3. ASSUME NEW a \in Actors, Resume(a) PROVE PausedQuiet'
    BY <2>3 DEF Resume, StartPick
  <2>4. ASSUME NEW a \in Actors, PickCheck(a) PROVE PausedQuiet'
    BY <2>4 DEF PickCheck
  <2>5. ASSUME NEW a \in Actors, ReturnEmpty(a) PROVE PausedQuiet'
    BY <2>5 DEF ReturnEmpty, AfterCall
  <2>6. ASSUME NEW a \in Actors
        PROVE  ~ \/ PickLock(a) \/ PickChoose(a) \/ PickPop(a) \/ PickUnchoose(a)
                 \/ PickUnlock(a) \/ ReturnContinue(a) \/ ReturnSpawn(a)
                 \/ Begin(a) \/ Finish(a)
    BY DEF PickLock, PickChoose, PickPop, PickUnchoose, PickUnlock, ReturnContinue,
           ReturnSpawn, Begin, Finish
  <2>7. CASE UNCHANGED vars
    BY <2>7
  <2> QED
    BY <2>1, <2>2, <2>3, <2>4, <2>5, <2>6, <2>7 DEF Next, Step, Call, AtRest
<1> QED
  BY <1>1, InductiveInvariant, PTL DEF Spec, PauseIsStable

-----------------------------------------------------------------------------
(* The handed out task moves from the picker to the TBB task and is only   *)
(* dropped when it is finished.                                            *)
LEMMA HandedOutStep ==
  ASSUME IInv, [Next]_vars,
         ~ \E a \in Actors : PickPop(a) \/ Finish(a)
  PROVE  (HandedOut \ {NoTask})' = HandedOut \ {NoTask}
<1> USE ActorAssumption DEF IInv, TypeOK, Roles, Actors, HandedOut, vars, queueVars, history
<1>1. ASSUME NEW a \in Actors, ReturnContinue(a)
      PROVE  (HandedOut \ {NoTask})' = HandedOut \ {NoTask}
  <2>1. a \in Tasks /\ cur[a] = NoTask
    BY <1>1 DEF ReturnContinue, KeepsRunning, PickSteps
  <2>2. /\ cur' = [cur EXCEPT ![a] = picked[a]]
        /\ picked' = [picked EXCEPT ![a] = NoTask]
    BY <1>1 DEF ReturnContinue
  <2> QED
    BY <2>1, <2>2
<1>2. ASSUME NEW a \in Actors, ReturnSpawn(a)
      PROVE  (HandedOut \ {NoTask})' = HandedOut \ {NoTask}
  <2> DEFINE t == picked[a]
  <2>1. /\ t \in Tasks
        /\ cur' = [cur EXCEPT ![t] = t]
        /\ picked' = [picked EXCEPT ![a] = NoTask]
    BY <1>2 DEF ReturnSpawn
  <2>2. \A b \in Actors : cur[b] = NoTask
    BY <1>2 DEF ReturnSpawn, ChosenOwned, Owns
  <2> QED
    BY <2>1, <2>2
<1>3. ASSUME UNCHANGED <<picked, cur>>
      PROVE  (HandedOut \ {NoTask})' = HandedOut \ {NoTask}
  BY <1>3
<1> QED
  BY <1>1, <1>2, <1>3 DEF Next, Step, Call, AtRest, Push, Pause, Resume, PickCheck, PickLock,
     PickChoose, PickUnchoose, PickUnlock, ReturnEmpty, Begin

(* Each step of the queue is a step of the abstract queue, or invisible.   *)
LEMMA StepSimulation == IInv /\ [Next]_vars => [Abstract!Next]_(Abstract!vars)
<1> SUFFICES ASSUME IInv, [Next]_vars PROVE [Abstract!Next]_(Abstract!vars)
  OBVIOUS
<1> USE ActorAssumption DEF IInv, TypeOK
<1>1. ASSUME NEW a \in Actors, NEW t \in Tasks, Push(a, t)
      PROVE  Abstract!Accept(t)
  <2>1. UNCHANGED HandedOut
    BY <1>1 DEF Push, HandedOut
  <2>2. t \notin Abstract!Elements(tasks) \cup HandedOut \cup done
    BY <1>1 DEF Push, OnlyPushed, HandedOut, Abstract!Elements
  <2> QED
    BY <1>1, <2>1, <2>2 DEF Push, Abstract!Accept
<1>2. ASSUME NEW a \in Actors, PickPop(a)
      PROVE  Abstract!Begin \/ UNCHANGED Abstract!vars
  <2>1. CASE tasks = <<>>
    BY <1>2, <2>1 DEF PickPop, Abstract!vars, HandedOut, history
  <2>2. CASE tasks # <<>>
    <3>1. \A b \in Actors : picked[b] = NoTask /\ cur[b] = NoTask
      BY <1>2 DEF PickPop, ChosenOwned, Owns, Roles
    <3>2. /\ tasks' = Tail(tasks)
          /\ picked' = [picked EXCEPT ![a] = Head(tasks)]
          /\ UNCHANGED <<cur, done>>
      BY <1>2, <2>2 DEF PickPop, history
    <3>3. HandedOut \ {NoTask} = {}
      BY <3>1 DEF HandedOut
    <3>4. Head(tasks) \in Tasks
      BY <2>2
    <3>5. (HandedOut \ {NoTask})' = {Head(tasks)}
      BY <3>1, <3>2, <3>4 DEF HandedOut
    <3> QED
      BY <2>2, <3>2, <3>3, <3>5 DEF Abstract!Begin
  <2> QED
    BY <2>1, <2>2
<1>3. ASSUME NEW a \in Actors, Finish(a)
      PROVE  Abstract!End(cur[a])
  <2>1. cur[a] \in Tasks
    BY <1>3 DEF Finish, Roles
  <2>2. /\ \A b \in Actors : picked[b] = NoTask
        /\ \A b \in Actors \ {a} : cur[b] = NoTask
    BY <2>1 DEF ChosenOwned, Owns, Roles
  <2>3. HandedOut \ {NoTask} = {cur[a]}
    BY <2>1, <2>2 DEF HandedOut
  <2>4. (HandedOut \ {NoTask})' = {}
    BY <1>3, <2>2 DEF Finish, HandedOut
  <2> QED
    BY <1>3, <2>1, <2>3, <2>4 DEF Finish, Abstract!End
<1>4. CASE UNCHANGED <<tasks, done>> /\ ~ \E a \in Actors : PickPop(a) \/ Finish(a)
  BY <1>4, HandedOutStep DEF Abstract!vars
<1>5. \/ \E a \in Actors : PickPop(a) \/ Finish(a) \/ \E t \in Tasks : Push(a, t)
      \/ UNCHANGED <<tasks, done>>
  BY DEF Next, Step, Call, AtRest, Pause, Resume, PickCheck, PickLock, PickChoose,
     PickUnchoose, PickUnlock, ReturnEmpty, ReturnContinue, ReturnSpawn, Begin,
     vars, queueVars, history
<1>6. ASSUME NEW a \in Actors, Finish(a) PROVE cur[a] \in Tasks
  BY <1>6 DEF Finish, Roles
<1> QED
  BY <1>1, <1>2, <1>3, <1>4, <1>5, <1>6 DEF Abstract!Next

(* The queue implements the serial queue of its documentation.             *)
THEOREM QueueImplementsSerialQueue == Spec => ImplementsSerialQueue
<1>1. Init => Abstract!Init
  BY DEF Init, Abstract!Init, HandedOut
<1> QED
  BY <1>1, StepSimulation, InductiveInvariant, PTL
  DEF Spec, ImplementsSerialQueue, Abstract!Spec

-----------------------------------------------------------------------------
(* The users of queues see two steps of pickNextTask(), as in TaskQueues:  *)
(* the check of m_pauseCount, and the rest, which takes effect at          *)
(* try_pop(), or at the exchange of m_taskChosen if that was set.          *)
Queue == "queue"
Alone(x) == [q \in {Queue} |-> x]

HeldOf(S) == CHOOSE t \in Tasks \cup {NoTask} : S = {t} \ {NoTask}
Held == HeldOf(HandedOut \ {NoTask})

PickAt(label) == IF label = "check" THEN [stage |-> "check", queue |-> Queue]
                 ELSE IF label \in {"lock", "choose", "pop"} THEN [stage |-> "commit", queue |-> Queue]
                 ELSE [stage |-> "none"]
Picks == [a \in Actors |-> PickAt(pc[a])]

TwoSteps == INSTANCE TaskQueues
              WITH Queues <- {Queue}, queue <- Alone(tasks), pauseCount <- Alone(pauseCount),
                   chosen <- Alone(Held), pick <- Picks

UserVars == <<Alone(tasks), Alone(pauseCount), Alone(Held), Picks>>

(* What the users of a queue do with it: an actor that is in no call makes *)
(* one, resumes what is paused, finishes what was handed out.              *)
UserCalls(a) == /\ TwoSteps!NotPicking(a)
                /\ \/ \E t \in Tasks : TwoSteps!Enqueue(a, Queue, t)
                   \/ TwoSteps!PauseQueue(Queue)
                   \/ pauseCount > 0 /\ TwoSteps!ResumeQueue(a, Queue)
                   \/ Held # NoTask /\ TwoSteps!FinishTask(a, Queue)

UserNext == \E a \in Actors : UserCalls(a) \/ TwoSteps!PickCheck(a) \/ TwoSteps!PickCommit(a)

ImplementsTaskQueue == TwoSteps!QueuesInit /\ [][UserNext]_UserVars

LEMMA AloneIs == \A x, y : /\ Alone(x)[Queue] = x
                           /\ [Alone(x) EXCEPT ![Queue] = y] = Alone(y)
BY DEF Alone

LEMMA HeldIs ==
  ASSUME NEW S, NEW t \in Tasks \cup {NoTask}, S = {t} \ {NoTask}
  PROVE  HeldOf(S) = t
<1>1. \A u \in Tasks \cup {NoTask} : S = {u} \ {NoTask} => u = t
  OBVIOUS
<1> DEFINE P(u) == S = {u} \ {NoTask}
<1>2. HeldOf(S) \in Tasks \cup {NoTask} /\ P(HeldOf(S))
  <2>1. \E u \in Tasks \cup {NoTask} : P(u)
    OBVIOUS
  <2> HIDE DEF P
  <2>2. LET h == CHOOSE u \in Tasks \cup {NoTask} : P(u) IN h \in Tasks \cup {NoTask} /\ P(h)
    BY <2>1
  <2> QED
    BY <2>2 DEF HeldOf, P
<1> QED
  BY <1>1, <1>2

(* Somebody holds a task while m_taskChosen is set, but for its taker.     *)
LEMMA HeldByOne ==
  ASSUME IInv, NEW a \in Actors, picked[a] # NoTask \/ cur[a] # NoTask
  PROVE  Held = (IF picked[a] # NoTask THEN picked[a] ELSE cur[a]) /\ Held # NoTask
<1> USE DEF IInv, TypeOK
<1> DEFINE t == IF picked[a] # NoTask THEN picked[a] ELSE cur[a]
<1>1. /\ \A b \in Actors \ {a} : picked[b] = NoTask /\ cur[b] = NoTask
      /\ picked[a] = NoTask \/ cur[a] = NoTask
  BY DEF ChosenOwned, Owns, Roles
<1>2. t \in Tasks /\ t # NoTask
  BY ActorAssumption
<1>3. HandedOut \ {NoTask} = {t} \ {NoTask}
  BY <1>1, <1>2 DEF HandedOut
<1> QED
  BY <1>2, <1>3, HeldIs DEF Held

LEMMA HeldByNobody ==
  ASSUME \A a \in Actors : picked[a] = NoTask /\ cur[a] = NoTask
  PROVE  Held = NoTask
<1>1. HandedOut \ {NoTask} = {NoTask} \ {NoTask}
  BY DEF HandedOut
<1> QED
  BY <1>1, HeldIs DEF Held

(* An actor moves on; what the others do is as before.                     *)
LEMMA OneMoves ==
  ASSUME pc \in [Actors -> Labels], NEW a \in Actors, NEW l, pc' = [pc EXCEPT ![a] = l]
  PROVE  Picks' = [Picks EXCEPT ![a] = PickAt(l)]
BY DEF Picks

LEMMA NobodyPicks ==
  ASSUME NEW a \in Actors, pc[a] \in {"idle", "body"}
  PROVE  TwoSteps!NotPicking(a)
BY DEF TwoSteps!NotPicking, TwoSteps!NoPick, Picks, PickAt

(* The calls of the users, and the check.                                  *)
LEMMA CallsAreUsers ==
  ASSUME IInv, NEW a \in Actors, Call(a)
  PROVE  UserNext
<1> USE DEF IInv, TypeOK, TwoSteps!PickOf
<1>1. pc[a] \in {"idle", "body"}
  BY DEF Call, CanCall, Push, Pause, Resume
<1>2. TwoSteps!NotPicking(a)
  BY <1>1, NobodyPicks
<1>3. UNCHANGED <<picked, cur>>
  BY DEF Call, Push, Pause, Resume
<1>5. Held' = Held
  BY <1>3 DEF Held, HandedOut
<1>6. ASSUME NEW t \in Tasks, Push(a, t) PROVE TwoSteps!Enqueue(a, Queue, t)
  <2>1. Picks' = [Picks EXCEPT ![a] = PickAt("check")]
    BY <1>6, OneMoves DEF Push, StartPick
  <2>2. tasks' = Append(tasks, t) /\ pauseCount' = pauseCount
    BY <1>6 DEF Push
  <2> QED
    BY <1>5, <2>1, <2>2, AloneIs DEF TwoSteps!Enqueue, PickAt
<1>7. CASE Pause(a)
  <2>1. UNCHANGED <<tasks, pc>> /\ pauseCount' = pauseCount + 1
    BY <1>7 DEF Pause
  <2>2. TwoSteps!PauseQueue(Queue)
    BY <1>5, <2>1, AloneIs DEF TwoSteps!PauseQueue, Picks
  <2> QED
    BY <1>2, <2>2 DEF UserCalls, UserNext
<1>8. CASE Resume(a)
  <2>1. tasks' = tasks /\ pauseCount' = pauseCount - 1 /\ pauseCount > 0
    BY <1>8 DEF Resume
  <2>2. Picks' = [Picks EXCEPT ![a] = IF pauseCount = 1 THEN PickAt("check") ELSE @]
    <3>1. CASE pauseCount = 1
      BY <1>8, <3>1, OneMoves DEF Resume, StartPick
    <3>2. CASE pauseCount # 1
      <4>1. UNCHANGED pc
        BY <1>8, <3>2 DEF Resume
      <4> QED
        BY <3>2, <4>1 DEF Picks
    <3> QED
      BY <3>1, <3>2
  <2>3. TwoSteps!ResumeQueue(a, Queue)
    BY <1>5, <2>1, <2>2, AloneIs DEF TwoSteps!ResumeQueue, PickAt
  <2> QED
    BY <1>2, <2>1, <2>3 DEF UserCalls, UserNext
<1> QED
  BY <1>2, <1>6, <1>7, <1>8 DEF Call, UserCalls, UserNext

(* The rest of pickNextTask() takes effect in one step.                    *)
LEMMA PicksAreUsers ==
  ASSUME IInv, NEW a \in Actors, PickCheck(a) \/ PickChoose(a) \/ PickPop(a)
  PROVE  UserNext \/ UNCHANGED UserVars
<1> USE DEF IInv, TypeOK, TwoSteps!PickOf, TwoSteps!NoPick
<1>3. CASE PickCheck(a)
  <2>1. /\ UNCHANGED <<tasks, pauseCount, picked, cur>> /\ pc[a] = "check"
        /\ pc' = [pc EXCEPT ![a] = IF pauseCount # 0 THEN "return" ELSE "lock"]
    BY <1>3 DEF PickCheck, queueVars
  <2>2. Held' = Held
    BY <2>1 DEF Held, HandedOut
  <2>3. Picks' = [Picks EXCEPT ![a] = IF pauseCount # 0 THEN PickAt("return") ELSE PickAt("lock")]
    BY <2>1, OneMoves
  <2>4. Picks[a] = PickAt("check")
    BY <2>1 DEF Picks
  <2>5. /\ Picks[a].stage = "check" /\ Picks[a].queue = Queue
        /\ PickAt("return") = TwoSteps!NoPick /\ PickAt("lock") = TwoSteps!PickOf(Queue, "commit")
    BY <2>4 DEF PickAt
  <2>6. Alone(pauseCount)[Picks[a].queue] = pauseCount
    BY <2>5, AloneIs
  <2> HIDE DEF TwoSteps!PickOf, TwoSteps!NoPick
  <2>7. TwoSteps!PickCheck(a)
    BY <2>1, <2>2, <2>3, <2>5, <2>6 DEF TwoSteps!PickCheck
  <2> QED
    BY <2>7 DEF UserNext
<1>4. CASE PickChoose(a)
  <2>1. /\ UNCHANGED <<tasks, pauseCount, picked, cur>> /\ pc[a] = "choose"
        /\ pc' = [pc EXCEPT ![a] = IF taskChosen THEN "unlock" ELSE "pop"]
    BY <1>4 DEF PickChoose
  <2>2. Held' = Held
    BY <2>1 DEF Held, HandedOut
  <2>3. Picks' = [Picks EXCEPT ![a] = IF taskChosen THEN PickAt("unlock") ELSE PickAt("pop")]
    BY <2>1, OneMoves
  <2>4. Picks[a] = PickAt("choose")
    BY <2>1 DEF Picks
  <2>5. CASE taskChosen
    <3>1. PICK b \in Actors : picked[b] # NoTask \/ cur[b] # NoTask
      BY <2>1, <2>5 DEF ChosenOwned, Owns, PickLocked, InPick
    <3>2. Held # NoTask
      BY <3>1, HeldByOne
    <3>3. TwoSteps!PickCommit(a)
      BY <2>1, <2>2, <2>3, <2>4, <2>5, <3>2, AloneIs
      DEF TwoSteps!PickCommit, TwoSteps!Picked, PickAt
    <3> QED
      BY <3>3 DEF UserNext
  <2>6. CASE ~taskChosen
    <3>1. Picks' = Picks
      BY <2>3, <2>4, <2>6 DEF PickAt, Picks
    <3> QED
      BY <2>1, <2>2, <3>1 DEF UserVars
  <2> QED
    BY <2>5, <2>6
<1>5. CASE PickPop(a)
  <2>1. pc[a] = "pop" /\ pauseCount' = pauseCount /\ cur' = cur
    BY <1>5 DEF PickPop
  <2>2. \A b \in Actors : picked[b] = NoTask /\ cur[b] = NoTask
    BY <2>1 DEF ChosenOwned, Owns, Roles
  <2>3. Held = NoTask
    BY <2>2, HeldByNobody
  <2>4. Picks[a] = PickAt("pop")
    BY <2>1 DEF Picks
  <2>5. CASE tasks = <<>>
    <3>1. UNCHANGED <<tasks, picked>> /\ pc' = [pc EXCEPT ![a] = "unchoose"]
      BY <1>5, <2>5 DEF PickPop
    <3>2. Held' = Held
      BY <2>1, <3>1 DEF Held, HandedOut
    <3>3. Picks' = [Picks EXCEPT ![a] = PickAt("unchoose")]
      BY <3>1, OneMoves
    <3>4. TwoSteps!PickCommit(a)
      BY <2>1, <2>4, <2>5, <3>1, <3>2, <3>3, AloneIs
      DEF TwoSteps!PickCommit, TwoSteps!Picked, PickAt
    <3> QED
      BY <3>4 DEF UserNext
  <2>6. CASE tasks # <<>>
    <3>1. /\ tasks' = Tail(tasks) /\ picked' = [picked EXCEPT ![a] = Head(tasks)]
          /\ pc' = [pc EXCEPT ![a] = "unlock"]
      BY <1>5, <2>6 DEF PickPop
    <3>2. Head(tasks) \in Tasks /\ Head(tasks) # NoTask
      BY <2>6, ActorAssumption
    <3>3. (HandedOut \ {NoTask})' = {Head(tasks)} \ {NoTask}
      BY <2>1, <2>2, <3>1, <3>2 DEF HandedOut
    <3>4. Held' = Head(tasks)
      BY <3>2, <3>3, HeldIs DEF Held
    <3>5. Picks' = [Picks EXCEPT ![a] = PickAt("unlock")]
      BY <3>1, OneMoves
    <3>6. /\ Picks[a].stage = "commit" /\ Picks[a].queue = Queue
          /\ PickAt("unlock") = TwoSteps!NoPick
      BY <2>4 DEF PickAt
    <3>7. /\ Alone(Held)[Queue] = NoTask /\ Alone(tasks)[Queue] = tasks
          /\ Alone(Head(tasks)) = [Alone(Held) EXCEPT ![Queue] = Head(tasks)]
          /\ Alone(Tail(tasks)) = [Alone(tasks) EXCEPT ![Queue] = Tail(tasks)]
      BY <2>3, AloneIs
    <3>8. TwoSteps!Picked(a) = Head(tasks)
      BY <2>6, <3>6, <3>7 DEF TwoSteps!Picked
    <3> HIDE DEF TwoSteps!NoPick
    <3>9. TwoSteps!PickCommit(a)
      <4>1. Alone(Held)' = [Alone(Held) EXCEPT ![Queue] = TwoSteps!Picked(a)]
        BY <3>4, <3>7, <3>8
      <4>2. Alone(tasks)' = [Alone(tasks) EXCEPT ![Queue] = Tail(@)]
        BY <3>1, <3>7
      <4> QED
        BY <2>1, <3>2, <3>5, <3>6, <3>8, <4>1, <4>2 DEF TwoSteps!PickCommit
    <3> QED
      BY <3>9 DEF UserNext
  <2> QED
    BY <2>5, <2>6
<1> QED
  BY <1>3, <1>4, <1>5

LEMMA FinishIsUsers ==
  ASSUME IInv, NEW a \in Actors, Finish(a)
  PROVE  UserNext
<1> USE DEF IInv, TypeOK, TwoSteps!PickOf
<1>1. /\ a \in Tasks /\ pc[a] = "body" /\ UNCHANGED <<tasks, pauseCount, picked>>
      /\ cur' = [cur EXCEPT ![a] = NoTask] /\ pc' = [pc EXCEPT ![a] = "check"]
  BY DEF Finish, StartPick
<1>2. cur[a] # NoTask
  BY <1>1 DEF Roles
<1>3. Held # NoTask
  BY <1>2, HeldByOne
<1>4. /\ \A b \in Actors : picked[b] = NoTask
      /\ \A b \in Actors \ {a} : cur[b] = NoTask
  BY <1>2 DEF ChosenOwned, Owns, Roles
<1>5. (HandedOut \ {NoTask})' = {NoTask} \ {NoTask}
  BY <1>1, <1>4 DEF HandedOut
<1>6. Held' = NoTask
  BY <1>5, HeldIs DEF Held
<1>7. TwoSteps!NotPicking(a)
  BY <1>1, NobodyPicks
<1>8. Picks' = [Picks EXCEPT ![a] = PickAt("check")]
  BY <1>1, OneMoves
<1>9. TwoSteps!FinishTask(a, Queue)
  BY <1>1, <1>6, <1>8, AloneIs DEF TwoSteps!FinishTask, PickAt
<1> QED
  BY <1>3, <1>7, <1>9 DEF UserCalls, UserNext

(* A TBB task is spawned once, for a task that was not executed before:    *)
(* until then it is idle.                                                  *)
InQueue(t) == \E i \in 1..Len(tasks) : tasks[i] = t

Fresh ==
  /\ \A i, j \in 1..Len(tasks) : tasks[i] = tasks[j] => i = j
  /\ \A t \in Tasks :
       /\ t \notin pushed \/ InQueue(t) \/ (\E a \in Actors : picked[a] = t) => pc[t] = "idle"
       /\ InQueue(t) => \A a \in Actors : picked[a] # t

LEMMA FreshStep == IInv /\ Fresh /\ [Next]_vars => Fresh'
<1> SUFFICES ASSUME IInv, Fresh, [Next]_vars PROVE Fresh'
  OBVIOUS
<1> USE ActorAssumption DEF IInv, TypeOK, Actors
<1>0. \A a \in Actors : CanCall(a) => a \notin Tasks \/ pc[a] # "idle"
  BY DEF CanCall
<1>1. ASSUME NEW a \in Actors, NEW u \in Tasks, Push(a, u) PROVE Fresh'
  <2>1. /\ tasks' = Append(tasks, u) /\ pushed' = pushed \cup {u} /\ u \notin pushed
        /\ picked' = picked /\ pc' = [pc EXCEPT ![a] = "check"] /\ CanCall(a)
    BY <1>1 DEF Push, StartPick
  <2>2. /\ Len(tasks') = Len(tasks) + 1 /\ Len(tasks) \in Nat /\ tasks'[Len(tasks) + 1] = u
        /\ \A i \in 1..Len(tasks) : tasks'[i] = tasks[i]
    BY <2>1
  <2>3. \A i \in 1..Len(tasks') : i \in 1..Len(tasks) \/ i = Len(tasks) + 1
    BY <2>2
  <2>4. ~InQueue(u) /\ (\A b \in Actors : picked[b] # u)
    BY <2>1 DEF OnlyPushed, InQueue
  <2>5. \A t : InQueue(t)' => InQueue(t) \/ t = u
    BY <2>2, <2>3 DEF InQueue
  <2>6. \A i, j \in 1..Len(tasks') : tasks'[i] = tasks'[j] => i = j
    BY <2>2, <2>3, <2>4 DEF Fresh, InQueue
  <2>7. \A t \in Tasks : pc[t] = "idle" => pc'[t] = "idle"
    BY <1>0, <2>1
  <2> QED
    BY <2>1, <2>4, <2>5, <2>6, <2>7 DEF Fresh
<1>2. ASSUME NEW a \in Actors, PickPop(a), tasks # <<>> PROVE Fresh'
  <2>0. PICK u \in Tasks : u = Head(tasks)
    BY <1>2
  <2>1. /\ tasks' = Tail(tasks) /\ picked' = [picked EXCEPT ![a] = Head(tasks)]
        /\ pc' = [pc EXCEPT ![a] = "unlock"] /\ pc[a] = "pop" /\ pushed' = pushed
    BY <1>2 DEF PickPop, history
  <2>2. /\ Head(tasks) = tasks[1] /\ Len(tasks) \in Nat /\ Len(tasks) > 0
        /\ Len(tasks') = Len(tasks) - 1
        /\ \A i \in 1..Len(tasks') : tasks'[i] = tasks[i + 1]
    BY <1>2, <2>1
  <2>3. \A i \in 1..Len(tasks') : i + 1 \in 1..Len(tasks) /\ i + 1 # 1
    BY <2>2
  <2>4. 1 \in 1..Len(tasks)
    BY <2>2
  <2>5. InQueue(u) /\ ~InQueue(u)'
    <3>1. \A i \in 1..Len(tasks') : tasks'[i] # u
      BY <2>0, <2>2, <2>3, <2>4 DEF Fresh
    <3>2. InQueue(u)
      BY <2>0, <2>2, <2>4 DEF InQueue
    <3> QED
      BY <3>1, <3>2 DEF InQueue
  <2>6. \A t : InQueue(t)' => InQueue(t)
    BY <2>2, <2>3 DEF InQueue
  <2>7. \A i, j \in 1..Len(tasks') : tasks'[i] = tasks'[j] => i = j
    <3>1. \A i, j \in 1..Len(tasks') : tasks'[i] = tasks'[j] => i + 1 = j + 1
      BY <2>2, <2>3 DEF Fresh
    <3> QED
      BY <3>1
  <2>8. \A t \in Tasks : pc[t] = "idle" => pc'[t] = "idle"
    BY <2>1
  <2>9. \A t, b : b \in Actors /\ picked'[b] = t => t = u \/ picked[b] = t
    BY <2>0, <2>1
  <2> QED
    BY <2>1, <2>5, <2>6, <2>7, <2>8, <2>9 DEF Fresh
<1>3. ASSUME NEW a \in Actors, ReturnSpawn(a) PROVE Fresh'
  <2> DEFINE u == picked[a]
  <2>1. /\ UNCHANGED <<tasks, pushed>> /\ pc[a] = "return" /\ u \in Tasks /\ u # NoTask
        /\ picked' = [picked EXCEPT ![a] = NoTask]
        /\ pc' = [pc EXCEPT ![a] = AfterCall(a), ![u] = "spawned"]
    BY <1>3 DEF ReturnSpawn, queueVars, history
  <2>2. ~InQueue(u) /\ u \in pushed
    BY <2>1 DEF Fresh, OnlyPushed
  <2>3. \A b \in Actors : picked'[b] # u
    BY <2>1 DEF ChosenOwned, Owns
  <2>4. \A t \in Tasks \ {u} : pc[t] = "idle" => pc'[t] = "idle"
    BY <2>1
  <2>5. \A t \in Tasks, b \in Actors : picked'[b] = t => picked[b] = t
    BY <2>1
  <2>6. \A t : InQueue(t)' = InQueue(t)
    BY <2>1 DEF InQueue
  <2> HIDE DEF u
  <2> QED
    BY <2>1, <2>2, <2>3, <2>4, <2>5, <2>6 DEF Fresh
<1>4. ASSUME UNCHANGED <<tasks, pushed>>, \A t \in Tasks : pc[t] = "idle" => pc'[t] = "idle",
             \A t \in Tasks, b \in Actors : picked'[b] = t => picked[b] = t
      PROVE  Fresh'
  <2>1. \A t : InQueue(t)' = InQueue(t)
    BY <1>4 DEF InQueue
  <2> QED
    BY <1>4, <2>1 DEF Fresh
<1>5. ASSUME NEW a \in Actors, Pause(a) \/ Resume(a) PROVE Fresh'
  <2>1. UNCHANGED <<tasks, pushed, picked>> /\ CanCall(a)
    BY <1>5 DEF Pause, Resume
  <2>2. pc' = pc \/ pc' = [pc EXCEPT ![a] = "check"]
    BY <1>5 DEF Pause, Resume, StartPick
  <2> QED
    BY <1>0, <1>4, <2>1, <2>2
<1>6. ASSUME NEW a \in Actors, \/ PickCheck(a) \/ PickLock(a) \/ PickChoose(a) \/ PickUnchoose(a)
                              \/ PickUnlock(a) \/ ReturnEmpty(a) \/ Begin(a) \/ Finish(a)
                              \/ (PickPop(a) /\ tasks = <<>>)
      PROVE  Fresh'
  <2>1. UNCHANGED <<tasks, pushed, picked>> /\ pc[a] # "idle"
    BY <1>6 DEF PickCheck, PickLock, PickChoose, PickPop, PickUnchoose, PickUnlock, ReturnEmpty,
       Begin, Finish, StartPick, queueVars, history
  <2>2. \E l : pc' = [pc EXCEPT ![a] = l]
    BY <1>6 DEF PickCheck, PickLock, PickChoose, PickPop, PickUnchoose, PickUnlock, ReturnEmpty,
       Begin, Finish, StartPick
  <2>3. \A t \in Tasks : pc[t] = "idle" => pc'[t] = "idle"
    BY <2>1, <2>2
  <2> QED
    BY <1>4, <2>1, <2>3
<1>7. ASSUME NEW a \in Actors, ReturnContinue(a) PROVE Fresh'
  <2>1. /\ UNCHANGED <<tasks, pushed>> /\ pc[a] = "return"
        /\ picked' = [picked EXCEPT ![a] = NoTask] /\ pc' = [pc EXCEPT ![a] = "body"]
    BY <1>7 DEF ReturnContinue, queueVars, history
  <2> QED
    BY <1>4, <2>1
<1>8. CASE UNCHANGED vars
  BY <1>4, <1>8 DEF vars, queueVars, history
<1> QED
  BY <1>1, <1>2, <1>3, <1>5, <1>6, <1>7, <1>8 DEF Next, Step, Call, AtRest

(* What is left of the steps, nobody sees.                                 *)
LEMMA OthersAreHidden ==
  ASSUME IInv, Fresh, NEW a \in Actors, ~ \E b \in Actors : PickPop(b) \/ Finish(b),
         \/ PickLock(a) \/ PickUnchoose(a) \/ PickUnlock(a)
         \/ ReturnEmpty(a) \/ ReturnContinue(a) \/ ReturnSpawn(a) \/ Begin(a)
  PROVE  UNCHANGED UserVars
<1> USE ActorAssumption DEF IInv, TypeOK
<1>1. UNCHANGED <<tasks, pauseCount>>
  BY DEF PickLock, PickUnchoose, PickUnlock, ReturnEmpty, ReturnContinue, ReturnSpawn, Begin,
     queueVars
<1>2. Next
  BY DEF Next, Step
<1>3. Held' = Held
  BY <1>2, HandedOutStep DEF Held
<1>4. ASSUME NEW b \in Actors PROVE PickAt(pc'[b]) = PickAt(pc[b])
  <2>1. CASE ReturnSpawn(a)
    <3>1. /\ pc[a] = "return" /\ picked[a] \in Tasks
          /\ pc' = [pc EXCEPT ![a] = AfterCall(a), ![picked[a]] = "spawned"]
      BY <2>1 DEF ReturnSpawn
    <3>2. pc[picked[a]] = "idle"
      BY <3>1 DEF Fresh
    <3> QED
      BY <3>1, <3>2 DEF PickAt, AfterCall, Actors
  <2>2. CASE ~ReturnSpawn(a)
    BY <2>2 DEF PickLock, PickUnchoose, PickUnlock, ReturnEmpty, ReturnContinue, Begin, PickAt,
       AfterCall
  <2> QED
    BY <2>1, <2>2
<1>5. Picks' = Picks
  BY <1>4 DEF Picks
<1> QED
  BY <1>1, <1>3, <1>5 DEF UserVars

LEMMA UserSimulation == IInv /\ Fresh /\ [Next]_vars => [UserNext]_UserVars
<1> SUFFICES ASSUME IInv, Fresh, [Next]_vars PROVE [UserNext]_UserVars
  OBVIOUS
<1>1. ASSUME NEW a \in Actors, Call(a) \/ Finish(a) PROVE UserNext
  BY <1>1, CallsAreUsers, FinishIsUsers
<1>2. ASSUME NEW a \in Actors, PickCheck(a) \/ PickChoose(a) \/ PickPop(a)
      PROVE  UserNext \/ UNCHANGED UserVars
  BY <1>2, PicksAreUsers
<1>3. ASSUME NEW a \in Actors, ~ \E b \in Actors : PickPop(b) \/ Finish(b),
             \/ PickLock(a) \/ PickUnchoose(a) \/ PickUnlock(a)
             \/ ReturnEmpty(a) \/ ReturnContinue(a) \/ ReturnSpawn(a) \/ Begin(a)
      PROVE  UNCHANGED UserVars
  BY <1>3, OthersAreHidden
<1>4. UNCHANGED vars => UNCHANGED UserVars
  BY DEF vars, queueVars, UserVars, Held, HandedOut, Picks
<1> QED
  BY <1>1, <1>2, <1>3, <1>4 DEF Next, Step, AtRest

(* The users of SerialTaskQueues may rely on what TaskQueues says of each: *)
(* that all of pickNextTask() after its first check is one step, whatever  *)
(* the interleaving of its accesses, also when the task it hands out is    *)
(* continued with or spawned later.                                        *)
THEOREM QueueImplementsTaskQueue == Spec => ImplementsTaskQueue
<1>1. Init => TwoSteps!QueuesInit
  <2> SUFFICES ASSUME Init PROVE TwoSteps!QueuesInit
    OBVIOUS
  <2>1. Held = NoTask
    BY HeldByNobody DEF Init
  <2>2. Picks = [a \in Actors |-> [stage |-> "none"]]
    BY DEF Init, Picks, PickAt
  <2> QED
    BY <2>1, <2>2 DEF Init, TwoSteps!QueuesInit, TwoSteps!NoPick, Alone
<1>2. Init => Fresh
  BY ActorAssumption DEF Init, Fresh, InQueue, Actors
<1> QED
  BY <1>1, <1>2, FreshStep, UserSimulation, InductiveInvariant, PTL DEF Spec, ImplementsTaskQueue

-----------------------------------------------------------------------------
(* The destructor does to the queue what a client may do: it reads, and    *)
(* pushes a task (SerialTaskQueue.cc:28-38).                               *)
LEMMA DestructionStep == [DestructionNext]_allVars => [Next]_vars
<1>1. Owner \in Actors /\ Last \in Tasks
  BY OwnerAssumption DEF Actors
<1>2. PushLast => Next
  BY <1>1 DEF PushLast, Next, Call
<1>3. ASSUME NEW a \in Actors, UserCall(a) PROVE Next
  BY <1>3 DEF UserCall, Next, Call
<1>4. ReadEmpty \/ ReadChosen \/ Waited \/ Over \/ UNCHANGED allVars => UNCHANGED vars
  BY DEF ReadEmpty, ReadChosen, Waited, Over, allVars
<1>5. ASSUME NEW a \in Actors, Step(a) PROVE Next
  BY <1>5 DEF Next
<1> QED
  BY <1>2, <1>3, <1>4, <1>5 DEF DestructionNext, Destructor

(* A queue that is destroyed behaves as the queue does until then, so that *)
(* whatever is proved of Spec holds of it.                                 *)
THEOREM DestructionIsSafe == DestructionSpec => Spec
<1>1. DestructionInit => Init
  BY DEF DestructionInit
<1> QED
  BY <1>1, DestructionStep, PTL DEF DestructionSpec, Spec

-----------------------------------------------------------------------------
(* When one actor holds a task, no other does.                             *)
LEMMA OneHolder ==
  ASSUME IInv, NEW a \in Actors, picked[a] # NoTask \/ cur[a] # NoTask
  PROVE  /\ \A b \in Actors \ {a} : picked[b] = NoTask /\ cur[b] = NoTask
         /\ picked[a] = NoTask \/ cur[a] = NoTask
BY DEF IInv, ChosenOwned, Owns, Roles

(* Nobody holds a task while m_taskChosen is clear, or at try_pop().       *)
LEMMA NobodyElse ==
  ASSUME IInv, ~taskChosen \/ \E a \in Actors : pc[a] = "pop"
  PROVE  NobodyHolds
BY DEF IInv, ChosenOwned, Owns, Roles, NobodyHolds

(* The initial state                                                       *)
LEMMA DestructionInitInv == DestructionInit => DestructionInv
<1> SUFFICES ASSUME DestructionInit PROVE DestructionInv
  OBVIOUS
<1>1. IInv
  BY InitIInv DEF DestructionInit
<1>2. /\ tasks = <<>> /\ pushed = {} /\ done = {} /\ dtor = "not begun" /\ isEmpty = FALSE
      /\ HandedOut \subseteq {NoTask}
  BY DEF DestructionInit, Init, HandedOut
<1>3. Last # NoTask
  BY OwnerAssumption, ActorAssumption
<1>4. DestructionTypeOK /\ AllAccounted /\ StaysEmpty
  BY <1>2 DEF DestructionTypeOK, AllAccounted, StaysEmpty
<1>5. LastIsLast
  <2>1. Len(tasks) = 0
    BY <1>2
  <2>2. 1..Len(tasks) = {}
    BY <2>1
  <2> QED
    BY <1>2, <1>3, <2>2, Zenon DEF LastIsLast
<1> QED
  BY <1>1, <1>4, <1>5 DEF DestructionInv

-----------------------------------------------------------------------------
(* A pushed task goes from the queue to the picker, from there to the TBB  *)
(* task, and is then done: nothing on this way drops it.                   *)
LEMMA AllAccountedStep == IInv /\ AllAccounted /\ [Next]_vars => AllAccounted'
<1> SUFFICES ASSUME IInv, AllAccounted, [Next]_vars, NEW t \in pushed'
             PROVE  \/ t \in done' \cup HandedOut'
                    \/ \E i \in 1..Len(tasks') : tasks'[i] = t
  BY DEF AllAccounted
<1>0. tasks \in Seq(Tasks) /\ pushed \subseteq Tasks
  BY DEF IInv, TypeOK
<1>1. ASSUME NEW a \in Actors, NEW u \in Tasks, Push(a, u)
      PROVE  \/ t \in done' \cup HandedOut'
             \/ \E i \in 1..Len(tasks') : tasks'[i] = t
  <2>1. /\ tasks' = Append(tasks, u) /\ pushed' = pushed \cup {u}
        /\ done' = done /\ HandedOut' = HandedOut
    BY <1>1 DEF Push, HandedOut
  <2>2. Len(tasks') = Len(tasks) + 1 /\ Len(tasks) \in Nat
    BY <1>0, <2>1
  <2>3. tasks'[Len(tasks')] = u /\ \A i \in 1..Len(tasks) : tasks'[i] = tasks[i]
    BY <1>0, <2>1
  <2>4. CASE t = u
    BY <2>2, <2>3, <2>4
  <2>5. CASE t \in done \cup HandedOut
    BY <2>1, <2>5
  <2>6. CASE \E i \in 1..Len(tasks) : tasks[i] = t
    BY <2>2, <2>3, <2>6
  <2> QED
    BY <2>1, <2>4, <2>5, <2>6 DEF AllAccounted
<1>2. ASSUME NEW a \in Actors, PickPop(a)
      PROVE  \/ t \in done' \cup HandedOut'
             \/ \E i \in 1..Len(tasks') : tasks'[i] = t
  <2>1. pushed' = pushed /\ done' = done /\ cur' = cur
    BY <1>2 DEF PickPop, history
  <2>2. NobodyHolds
    BY <1>2, NobodyElse DEF PickPop
  <2>3. t \notin HandedOut
    BY <1>0, <2>1, <2>2, ActorAssumption DEF HandedOut, NobodyHolds
  <2>4. CASE tasks = <<>>
    <3>1. ~ \E i \in 1..Len(tasks) : tasks[i] = t
      <4>1. Len(tasks) = 0
        BY <2>4
      <4> QED
        BY <4>1
    <3> QED
      BY <2>1, <2>3, <3>1 DEF AllAccounted
  <2>5. CASE tasks # <<>>
    <3>1. /\ tasks' = Tail(tasks)
          /\ picked' = [picked EXCEPT ![a] = Head(tasks)]
      BY <1>2, <2>5 DEF PickPop
    <3>2. picked \in [Actors -> Tasks \cup {NoTask}]
      BY DEF IInv, TypeOK
    <3>3. Head(tasks) \in HandedOut'
      BY <3>1, <3>2 DEF HandedOut
    <3>4. /\ Head(tasks) = tasks[1] /\ Len(tasks) \in Nat /\ Len(tasks) > 0
          /\ Len(tasks') = Len(tasks) - 1
          /\ \A i \in 1..Len(tasks') : tasks'[i] = tasks[i + 1]
      BY <1>0, <2>5, <3>1
    <3>5. ASSUME NEW i \in 1..Len(tasks), tasks[i] = t, i # 1
          PROVE  \E j \in 1..Len(tasks') : tasks'[j] = t
      <4>1. i - 1 \in 1..Len(tasks') /\ tasks'[i - 1] = tasks[i]
        BY <3>4, <3>5
      <4> QED
        BY <3>5, <4>1
    <3> QED
      BY <2>1, <2>3, <3>3, <3>4, <3>5 DEF AllAccounted
  <2> QED
    BY <2>4, <2>5
<1>3. ASSUME NEW a \in Actors, Finish(a)
      PROVE  \/ t \in done' \cup HandedOut'
             \/ \E i \in 1..Len(tasks') : tasks'[i] = t
  <2>1. /\ pushed' = pushed /\ tasks' = tasks
        /\ done' = done \cup {cur[a]}
    BY <1>3 DEF Finish
  <2>2. cur[a] # NoTask
    BY <1>3 DEF Finish, IInv, Roles
  <2>3. t \in HandedOut => t = cur[a]
    BY <1>0, <2>1, <2>2, OneHolder, ActorAssumption DEF HandedOut
  <2> QED
    BY <2>1, <2>3 DEF AllAccounted
<1>4. CASE /\ UNCHANGED <<tasks, done, pushed>>
           /\ ~ \E a \in Actors : PickPop(a) \/ Finish(a)
  <2>1. (HandedOut \ {NoTask})' = HandedOut \ {NoTask}
    BY <1>4, HandedOutStep
  <2>2. t # NoTask
    BY <1>0, <1>4, ActorAssumption
  <2> QED
    BY <1>4, <2>1, <2>2 DEF AllAccounted
<1>5. \/ \E a \in Actors : PickPop(a) \/ Finish(a) \/ \E u \in Tasks : Push(a, u)
      \/ UNCHANGED <<tasks, done, pushed>>
  BY DEF Next, Step, Call, AtRest, Pause, Resume, PickCheck, PickLock, PickChoose,
     PickUnchoose, PickUnlock, ReturnEmpty, ReturnContinue, ReturnSpawn, Begin,
     vars, queueVars, history
<1> QED
  BY <1>1, <1>2, <1>3, <1>4, <1>5

(* The last task is pushed when nobody else pushes any more, so that it    *)
(* stays behind all other tasks, and no other is left when it is picked.   *)
LEMMA LastIsLastStep == DestructionInv /\ [DestructionNext]_allVars => LastIsLast'
<1> SUFFICES ASSUME DestructionInv, [DestructionNext]_allVars PROVE LastIsLast'
  OBVIOUS
<1>0. /\ IInv /\ LastIsLast /\ [Next]_vars
      /\ tasks \in Seq(Tasks) /\ pushed \subseteq Tasks
      /\ Last \in Tasks /\ Last # NoTask
  BY DestructionStep, OwnerAssumption, ActorAssumption DEF DestructionInv, IInv, TypeOK
<1>1. NobodyHolds <=> HandedOut \ {NoTask} = {}
  BY DEF NobodyHolds, HandedOut
<1>2. NobodyHolds' <=> (HandedOut \ {NoTask})' = {}
  BY DEF NobodyHolds, HandedOut
<1>3. ASSUME Last \notin pushed
      PROVE  /\ Last \notin HandedOut /\ Last \notin done
             /\ \A i \in 1..Len(tasks) : tasks[i] # Last
  BY <1>0, <1>3 DEF IInv, OnlyPushed, HandedOut
<1>4. ASSUME PushLast PROVE LastIsLast'
  <2>1. /\ tasks' = Append(tasks, Last) /\ pushed' = pushed \cup {Last} /\ Last \notin pushed
        /\ done' = done /\ HandedOut' = HandedOut /\ dtor' = "wait"
    BY <1>4 DEF PushLast, Push, HandedOut
  <2>2. /\ Len(tasks') = Len(tasks) + 1 /\ Len(tasks) \in Nat
        /\ \A i \in 1..Len(tasks) : tasks'[i] = tasks[i]
    BY <1>0, <2>1
  <2>3. \A i \in 1..Len(tasks') : tasks'[i] = Last => i = Len(tasks')
    BY <1>3, <2>1, <2>2
  <2> QED
    BY <1>3, <2>1, <2>3 DEF LastIsLast
<1>5. ASSUME NEW a \in Actors, NEW t \in Tasks \ {Last}, Push(a, t), dtor = "not begun"
      PROVE  LastIsLast'
  <2>1. Last \notin pushed
    BY <1>0, <1>5 DEF LastIsLast
  <2>2. /\ tasks' = Append(tasks, t) /\ pushed' = pushed \cup {t}
        /\ done' = done /\ HandedOut' = HandedOut
    BY <1>5 DEF Push, HandedOut
  <2>3. /\ Len(tasks') = Len(tasks) + 1 /\ Len(tasks) \in Nat /\ tasks'[Len(tasks) + 1] = t
        /\ \A i \in 1..Len(tasks) : tasks'[i] = tasks[i]
    BY <1>0, <2>2
  <2>4. \A i \in 1..Len(tasks') : tasks'[i] # Last
    <3>1. \A i \in 1..Len(tasks) : tasks[i] # Last
      BY <1>3, <2>1
    <3>2. \A i \in 1..Len(tasks') : i \in 1..Len(tasks) \/ i = Len(tasks) + 1
      BY <2>3
    <3>3. t # Last
      OBVIOUS
    <3> QED
      BY <2>3, <3>1, <3>2, <3>3
  <2> QED
    BY <1>3, <1>5, <2>1, <2>2, <2>4 DEF LastIsLast
<1>6. ASSUME NEW a \in Actors, PickPop(a), UNCHANGED dtorVars PROVE LastIsLast'
  <2>1. UNCHANGED <<pushed, done, cur, dtor>>
    BY <1>6 DEF PickPop, history, dtorVars
  <2>2. NobodyHolds
    BY <1>0, <1>6, NobodyElse DEF PickPop
  <2>3. CASE tasks = <<>>
    <3>1. UNCHANGED <<tasks, picked>>
      BY <1>6, <2>3 DEF PickPop
    <3> QED
      BY <1>0, <2>1, <3>1 DEF LastIsLast, NobodyHolds, HandedOut
  <2>4. CASE tasks # <<>>
    <3>1. /\ tasks' = Tail(tasks)
          /\ picked' = [picked EXCEPT ![a] = Head(tasks)]
      BY <1>6, <2>4 DEF PickPop
    <3>2. /\ Head(tasks) = tasks[1] /\ Len(tasks) \in Nat /\ Len(tasks) > 0
          /\ Len(tasks') = Len(tasks) - 1
          /\ \A i \in 1..Len(tasks') : tasks'[i] = tasks[i + 1]
      BY <1>0, <2>4, <3>1
    <3>3. \A i \in 1..Len(tasks') : tasks'[i] = Last => i = Len(tasks')
      <4>1. \A i \in 1..Len(tasks') : i + 1 \in 1..Len(tasks)
        BY <3>2
      <4> QED
        BY <1>0, <3>2, <4>1 DEF LastIsLast
    <3>4. HandedOut' \subseteq {NoTask, Head(tasks)}
      BY <2>1, <2>2, <3>1 DEF HandedOut, NobodyHolds
    <3>5. Last \in HandedOut' => tasks' = <<>>
      <4>1. ASSUME Last \in HandedOut' PROVE Len(tasks') = 0
        BY <1>0, <3>2, <3>4, <4>1 DEF LastIsLast
      <4>2. tasks' \in Seq(Tasks)
        BY <1>0, <2>4, <3>1
      <4> QED
        BY <4>1, <4>2
    <3> QED
      BY <1>0, <2>1, <2>4, <3>3, <3>5 DEF LastIsLast
  <2> QED
    BY <2>3, <2>4
<1>7. ASSUME NEW a \in Actors, Finish(a), UNCHANGED dtorVars PROVE LastIsLast'
  <2>1. /\ UNCHANGED <<pushed, tasks, dtor, picked>>
        /\ done' = done \cup {cur[a]} /\ cur' = [cur EXCEPT ![a] = NoTask]
    BY <1>7 DEF Finish, dtorVars
  <2>2. cur[a] # NoTask
    BY <1>0, <1>7 DEF Finish, IInv, Roles
  <2>3. NobodyHolds'
    BY <1>0, <2>1, <2>2, OneHolder DEF NobodyHolds, IInv, TypeOK
  <2>4. cur[a] \in HandedOut
    BY DEF HandedOut
  <2> QED
    BY <1>0, <1>2, <2>1, <2>3, <2>4 DEF LastIsLast
<1>8. CASE /\ UNCHANGED <<tasks, done, pushed>>
           /\ ~ \E a \in Actors : PickPop(a) \/ Finish(a)
           /\ dtor \in {"wait", "gone"} => dtor' \in {"wait", "gone"}
  <2>1. (HandedOut \ {NoTask})' = HandedOut \ {NoTask}
    BY <1>0, <1>8, HandedOutStep
  <2> QED
    BY <1>0, <1>1, <1>2, <1>8, <2>1 DEF LastIsLast
<1>9. \/ PushLast
      \/ \E a \in Actors : \/ \E t \in Tasks \ {Last} : Push(a, t) /\ dtor = "not begun"
                           \/ (PickPop(a) \/ Finish(a)) /\ UNCHANGED dtorVars
      \/ /\ UNCHANGED <<tasks, done, pushed>>
         /\ dtor \in {"wait", "gone"} => dtor' \in {"wait", "gone"}
  BY DEF DestructionNext, Destructor, UserCall, Over, ReadEmpty, ReadChosen, Waited, allVars,
     dtorVars, Step, Pause, Resume, PickCheck, PickLock, PickChoose, PickUnchoose, PickUnlock,
     ReturnEmpty, ReturnContinue, ReturnSpawn, Begin, vars, queueVars, history
<1>10. ASSUME NEW a \in Actors, PickPop(a) \/ Finish(a), ~PushLast
       PROVE  UNCHANGED dtorVars
  <2>1. ~ UNCHANGED vars
    BY <1>0, <1>10 DEF PickPop, Finish, StartPick, vars, IInv, TypeOK
  <2>2. UNCHANGED vars \/ UNCHANGED dtorVars
    BY <1>10 DEF DestructionNext, Destructor, UserCall, Over, ReadEmpty, ReadChosen, Waited,
       allVars
  <2> QED
    BY <2>1, <2>2
<1> QED
  BY <1>4, <1>5, <1>6, <1>7, <1>8, <1>9, <1>10

(* A queue in which nobody pushes stays empty, and nobody gets a task.     *)
LEMMA EmptyStep ==
  ASSUME IInv, tasks = <<>>, NEW a \in Actors, Step(a)
  PROVE  tasks' = <<>> /\ pauseCount' = pauseCount /\ (NobodyHolds => NobodyHolds')
<1> USE DEF IInv, TypeOK, NobodyHolds, queueVars, history
<1>1. CASE PickCheck(a) \/ PickLock(a) \/ PickChoose(a) \/ PickUnchoose(a) \/ PickUnlock(a)
           \/ ReturnEmpty(a) \/ Begin(a)
  BY <1>1 DEF PickCheck, PickLock, PickChoose, PickUnchoose, PickUnlock, ReturnEmpty, Begin
<1>2. CASE PickPop(a)
  BY <1>2 DEF PickPop
<1>3. CASE ReturnContinue(a)
  BY <1>3 DEF ReturnContinue
<1>4. CASE ReturnSpawn(a)
  BY <1>4 DEF ReturnSpawn
<1>5. CASE Finish(a)
  BY <1>5 DEF Finish, StartPick
<1> QED
  BY <1>1, <1>2, <1>3, <1>4, <1>5 DEF Step

(* What the destructor has found out stays true: it reads m_tasks.empty()  *)
(* before m_taskChosen, and a task is chosen before it is popped.          *)
LEMMA StaysEmptyStep == DestructionInv /\ [DestructionNext]_allVars => StaysEmpty'
<1> SUFFICES ASSUME DestructionInv, [DestructionNext]_allVars PROVE StaysEmpty'
  OBVIOUS
<1>0. IInv /\ StaysEmpty /\ LastIsLast
  BY DEF DestructionInv
<1>1. CASE ReadEmpty
  BY <1>1 DEF ReadEmpty, StaysEmpty, vars, queueVars
<1>2. CASE ReadChosen
  <2>1. UNCHANGED <<tasks, pauseCount, picked, cur>>
    BY <1>2 DEF ReadChosen, vars, queueVars
  <2>2. ASSUME dtor' = "gone", pauseCount' = 0 PROVE isEmpty /\ ~taskChosen
    BY <1>2, <2>1, <2>2 DEF ReadChosen
  <2>3. dtor = "chosen" /\ dtor' # "chosen"
    BY <1>2 DEF ReadChosen
  <2>4. ~taskChosen => NobodyHolds
    BY <1>0, NobodyElse
  <2> QED
    BY <1>0, <2>1, <2>2, <2>3, <2>4 DEF StaysEmpty, NobodyHolds
<1>3. CASE PushLast
  BY <1>3 DEF PushLast, StaysEmpty
<1>4. CASE Waited
  BY <1>0, <1>4 DEF Waited, StaysEmpty, LastIsLast, NobodyHolds, vars, queueVars
<1>5. CASE \E a \in Actors : UserCall(a)
  BY <1>5 DEF UserCall, StaysEmpty, dtorVars
<1>6. ASSUME NEW a \in Actors, Step(a), UNCHANGED dtorVars PROVE StaysEmpty'
  <2>1. CASE tasks = <<>>
    <3>1. tasks' = <<>> /\ pauseCount' = pauseCount /\ (NobodyHolds => NobodyHolds')
      BY <1>0, <1>6, <2>1, EmptyStep
    <3> QED
      BY <1>0, <1>6, <3>1 DEF StaysEmpty, dtorVars
  <2>2. CASE tasks # <<>>
    <3>1. pauseCount' = pauseCount
      BY <1>6 DEF Step, PickCheck, PickLock, PickChoose, PickPop, PickUnchoose, PickUnlock,
         ReturnEmpty, ReturnContinue, ReturnSpawn, Begin, Finish, queueVars
    <3> QED
      BY <1>0, <1>6, <2>2, <3>1 DEF StaysEmpty, dtorVars
  <2> QED
    BY <2>1, <2>2
<1>7. CASE Over \/ UNCHANGED allVars
  BY <1>0, <1>7 DEF Over, StaysEmpty, NobodyHolds, allVars, vars, queueVars, dtorVars
<1> QED
  BY <1>1, <1>2, <1>3, <1>4, <1>5, <1>6, <1>7 DEF DestructionNext, Destructor

-----------------------------------------------------------------------------
LEMMA DestructionInvariance == DestructionInv /\ [DestructionNext]_allVars => DestructionInv'
<1> SUFFICES ASSUME DestructionInv, [DestructionNext]_allVars PROVE DestructionInv'
  OBVIOUS
<1>1. IInv'
  BY DestructionStep, Invariance DEF DestructionInv
<1>2. AllAccounted'
  BY DestructionStep, AllAccountedStep DEF DestructionInv
<1>3. DestructionTypeOK'
  BY DEF DestructionInv, DestructionTypeOK, DestructionNext, Destructor, ReadEmpty, ReadChosen,
     PushLast, Waited, UserCall, Over, allVars, dtorVars
<1> QED
  BY <1>1, <1>2, <1>3, LastIsLastStep, StaysEmptyStep DEF DestructionInv

(* The inductive invariant of a queue that is destroyed                    *)
THEOREM DestructionInvariant == DestructionSpec => []DestructionInv
BY DestructionInitInv, DestructionInvariance, PTL DEF DestructionSpec

(* When the destructor of a queue that is not paused returns, every task   *)
(* pushed has run (SerialTaskQueue.cc:28-38), for any number of threads,   *)
(* tasks and task_groups.                                                  *)
THEOREM DestroyedAfterTasks == DestructionSpec => []GoneAfterTasks
<1>1. ASSUME DestructionInv PROVE GoneAfterTasks
  <2> SUFFICES ASSUME dtor = "gone", pauseCount = 0
               PROVE  tasks = <<>> /\ pushed = done /\ NobodyHolds
    BY DEF GoneAfterTasks
  <2>1. tasks = <<>> /\ NobodyHolds
    BY <1>1 DEF DestructionInv, StaysEmpty
  <2>2. ~ \E i \in 1..Len(tasks) : TRUE
    <3>1. Len(tasks) = 0
      BY <2>1
    <3> QED
      BY <3>1
  <2>3. HandedOut \subseteq {NoTask} /\ NoTask \notin pushed /\ done \subseteq pushed
    BY <1>1, <2>1, ActorAssumption
    DEF NobodyHolds, HandedOut, DestructionInv, IInv, TypeOK, OnlyPushed
  <2>4. pushed \subseteq done
    BY <1>1, <2>2, <2>3 DEF DestructionInv, AllAccounted
  <2> QED
    BY <2>1, <2>3, <2>4
<1> QED
  BY <1>1, DestructionInvariant, PTL
=============================================================================
