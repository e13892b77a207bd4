-------------------------- MODULE LimitedTaskQueue --------------------------
(***************************************************************************)
(* edm::LimitedTaskQueue: an action is wrapped into one task for each of   *)
(* its iLimit SerialTaskQueues; the first of these tasks to be run does    *)
(* the action, the others do nothing.  pushAndPause() also pauses the      *)
(* queue the action runs in, until the last copy of the Resumer it was     *)
(* given is gone.  The EventProcessor limits the number of open runs and   *)
(* luminosity blocks this way.                                             *)
(*                                                                         *)
(* The task an action x has in queue k is <<x, k>>; <<x, 0>> is the thread *)
(* that pushes x.                                                          *)
(***************************************************************************)
EXTENDS Naturals, Sequences, FiniteSets

CONSTANTS Limit,        \* iLimit
          Actions,      \* the actions pushed, each once
          Pausing,      \* those given to pushAndPause()
          Copies,       \* further Resumer objects the actions may copy theirs to
          MaxCopies,    \* bound: how many copies are made
          NoTask

ASSUME LimitAssumption ==
  /\ Limit \in Nat \ {0} /\ MaxCopies \in Nat
  /\ Pausing \subseteq Actions /\ Pausing \cap Copies = {}
  /\ IsFiniteSet(Actions) /\ IsFiniteSet(Copies)

Queues   == 1..Limit
Tasks    == Actions \X (0..Limit)
Items    == Actions \X Queues
Resumers == Pausing \cup Copies

ASSUME NoTaskAssumption == NoTask \notin Items

VARIABLES queue, pauseCount, chosen, pick,
          pc,           \* where each item is
          pushedTo,     \* the queues push() has given each action to: 1..pushedTo[x]
          setToRun,     \* *set_to_run of each action
          resumer,      \* m_queue of each Resumer, 0 if null
          copiesLeft,   \* bound
          ranIn,        \* history: the queues in which each action was done
          stale         \* history: items handed out by a paused queue

TQ == INSTANCE TaskQueues WITH Actors <- Tasks \cup Resumers

queueVars == <<queue, pauseCount, chosen, pick>>
history == <<ranIn, stale>>
vars == <<queueVars, pc, pushedTo, setToRun, resumer, copiesLeft, history>>

(* The actions before these are over, but for copies of their Resumers.    *)
Init ==
  /\ resumer \in [Resumers -> 0..Limit] /\ \A x \in Pausing : resumer[x] = 0
  /\ pauseCount = [k \in Queues |-> Cardinality({r \in Resumers : resumer[r] = k})]
  /\ queue = [k \in Queues |-> <<>>] /\ chosen = [k \in Queues |-> NoTask]
  /\ pick = [a \in Tasks \cup Resumers |-> TQ!NoPick]
  /\ pc = [t \in Items |-> "none"]
  /\ pushedTo = [x \in Actions |-> 0]
  /\ setToRun = [x \in Actions |-> FALSE]
  /\ copiesLeft = MaxCopies
  /\ ranIn = [x \in Actions |-> {}]
  /\ stale = {}

TypeOK ==
  /\ TQ!QueuesTypeOK(Items)
  /\ pc \in [Items -> {"none", "queued", "start", "action", "finish", "ended"}]
  /\ pushedTo \in [Actions -> 0..Limit]
  /\ setToRun \in [Actions -> BOOLEAN]
  /\ resumer \in [Resumers -> 0..Limit]
  /\ copiesLeft \in 0..MaxCopies
  /\ ranIn \in [Actions -> SUBSET Queues]
  /\ stale \subseteq Items

Goto(t, label) == pc' = [pc EXCEPT ![t] = label]
At(t, label) == pc[t] = label /\ TQ!NotPicking(t)

-----------------------------------------------------------------------------
(* push() and pushAndPause(): one turn of their loop over the queues       *)
Push(x) ==
  LET k == pushedTo[x] + 1 IN
  /\ pushedTo[x] < Limit /\ TQ!NotPicking(<<x, 0>>)
  /\ TQ!Enqueue(<<x, 0>>, k, <<x, k>>)
  /\ pushedTo' = [pushedTo EXCEPT ![x] = k]
  /\ Goto(<<x, k>>, "queued")
  /\ UNCHANGED <<setToRun, resumer, copiesLeft, history>>

(* pickNextTask(), on behalf of whichever call a is in                     *)
PickCheck(a) ==
  /\ TQ!PickCheck(a)
  /\ UNCHANGED <<pc, pushedTo, setToRun, resumer, copiesLeft, history>>

PickCommit(a) ==
  /\ TQ!PickCommit(a)
  /\ LET p == TQ!Picked(a)
     IN  IF p = NoTask
           THEN UNCHANGED <<pc, stale>>
           ELSE /\ Goto(p, "start")
                /\ stale' = IF pauseCount[p[2]] # 0 THEN stale \cup {p} ELSE stale
  /\ UNCHANGED <<pushedTo, setToRun, resumer, copiesLeft, ranIn>>

(* Mutant: a compare_exchange_weak, which may fail for no reason.          *)
SkipSpuriously(t) ==
  /\ At(t, "start")
  /\ Goto(t, "finish")
  /\ UNCHANGED <<queueVars, pushedTo, setToRun, resumer, copiesLeft, history>>

(* The item loses the compare_exchange: somebody else does the action.     *)
Skip(t) ==
  /\ At(t, "start")
  /\ setToRun[t[1]]
  /\ Goto(t, "finish")
  /\ UNCHANGED <<queueVars, pushedTo, setToRun, resumer, copiesLeft, history>>

(* Mutant: the flag is not set.                                            *)
BeginUnset(t) ==
  LET x == t[1] IN
  /\ At(t, "start")
  /\ ~setToRun[x]
  /\ Goto(t, "action")
  /\ ranIn' = [ranIn EXCEPT ![x] = @ \cup {t[2]}]
  /\ IF x \in Pausing
       THEN TQ!PauseQueue(t[2]) /\ resumer' = [resumer EXCEPT ![x] = t[2]]
       ELSE UNCHANGED <<queueVars, resumer>>
  /\ UNCHANGED <<pushedTo, setToRun, copiesLeft, stale>>

(* Mutant: the Resumer is made without pausing the queue.                  *)
BeginUnpaused(t) ==
  LET x == t[1] IN
  /\ At(t, "start")
  /\ ~setToRun[x]
  /\ setToRun' = [setToRun EXCEPT ![x] = TRUE]
  /\ Goto(t, "action")
  /\ ranIn' = [ranIn EXCEPT ![x] = @ \cup {t[2]}]
  /\ resumer' = IF x \in Pausing THEN [resumer EXCEPT ![x] = t[2]] ELSE resumer
  /\ UNCHANGED <<queueVars, pushedTo, copiesLeft, stale>>

(* It wins: the action begins, after q.pause() and with Resumer(&q) if it  *)
(* came by pushAndPause().                                                 *)
Begin(t) ==
  LET x == t[1] IN
  /\ At(t, "start")
  /\ ~setToRun[x]
  /\ setToRun' = [setToRun EXCEPT ![x] = TRUE]
  /\ Goto(t, "action")
  /\ ranIn' = [ranIn EXCEPT ![x] = @ \cup {t[2]}]
  /\ IF x \in Pausing
       THEN TQ!PauseQueue(t[2]) /\ resumer' = [resumer EXCEPT ![x] = t[2]]
       ELSE UNCHANGED <<queueVars, resumer>>
  /\ UNCHANGED <<pushedTo, copiesLeft, stale>>

End(t) ==
  /\ At(t, "action")
  /\ Goto(t, "finish")
  /\ UNCHANGED <<queueVars, pushedTo, setToRun, resumer, copiesLeft, history>>

(* The task's execute() has returned: finishedTask()                       *)
Finish(t) ==
  /\ At(t, "finish")
  /\ TQ!FinishTask(t, t[2])
  /\ Goto(t, "ended")
  /\ UNCHANGED <<pushedTo, setToRun, resumer, copiesLeft, history>>

-----------------------------------------------------------------------------
(* Resumer: a live one may be used by any thread, during the action and    *)
(* after it.  Copy assignment is Copy followed by MoveAssign.              *)

Free(r) == TQ!NotPicking(r)
Live(r) == resumer[r] # 0 /\ Free(r)

(* Mutant: the compiler's copy constructor, which does not pause.          *)
CopyUnpaused(r, s) ==
  /\ Live(r) /\ resumer[s] = 0 /\ Free(s)
  /\ copiesLeft > 0
  /\ copiesLeft' = copiesLeft - 1
  /\ resumer' = [resumer EXCEPT ![s] = resumer[r]]
  /\ UNCHANGED <<queueVars, pc, pushedTo, setToRun, history>>

Copy(r, s) ==
  /\ Live(r) /\ resumer[s] = 0 /\ Free(s)
  /\ copiesLeft > 0
  /\ copiesLeft' = copiesLeft - 1
  /\ TQ!PauseQueue(resumer[r])
  /\ resumer' = [resumer EXCEPT ![s] = resumer[r]]
  /\ UNCHANGED <<pc, pushedTo, setToRun, history>>

MoveAssign(r, s) ==
  /\ Live(r) /\ Live(s) /\ r # s
  /\ TQ!ResumeQueue(s, resumer[s])
  /\ resumer' = [resumer EXCEPT ![s] = resumer[r], ![r] = 0]
  /\ UNCHANGED <<pc, pushedTo, setToRun, copiesLeft, history>>

(* resume() or the destructor                                              *)
Drop(r) ==
  /\ Live(r)
  /\ TQ!ResumeQueue(r, resumer[r])
  /\ resumer' = [resumer EXCEPT ![r] = 0]
  /\ UNCHANGED <<pc, pushedTo, setToRun, copiesLeft, history>>

-----------------------------------------------------------------------------
Pick(a) == PickCheck(a) \/ PickCommit(a)
Step(t) == Skip(t) \/ Begin(t) \/ End(t) \/ Finish(t)

Next == \/ \E x \in Actions : Push(x)
        \/ \E a \in Tasks \cup Resumers : Pick(a)
        \/ \E t \in Items : Step(t)
        \/ \E r \in Resumers, s \in Copies : Copy(r, s) \/ MoveAssign(r, s)
        \/ \E r \in Resumers : Drop(r)

Spec == Init /\ [][Next]_vars

(* TBB runs what it was given, a push() under way goes on, an action ends  *)
(* and no Resumer is kept for ever: something happens while one of these   *)
(* can.                                                                    *)
Progress == \/ \E x \in Actions : pushedTo[x] > 0 /\ Push(x)
            \/ \E a \in Tasks \cup Resumers : Pick(a)
            \/ \E t \in Items : Step(t)
            \/ \E r \in Resumers : Drop(r)

FairSpec == Spec /\ WF_vars(Progress)

-----------------------------------------------------------------------------
(* Correctness.                                                            *)

RunningIn(x, k) == pc[<<x, k>>] = "action"

(* Although every queue is given the action, it is done in one queue only, *)
(* and it has been done when all its tasks are over: those that gave up    *)
(* their turn did not do so in vain.  No two actions are ever done in the  *)
(* same queue at once, so that at most Limit are done together.            *)
DoneOnceOnePerQueue ==
  /\ \A x \in Actions :
       /\ Cardinality(ranIn[x]) <= 1
       /\ (\A k \in Queues : pc[<<x, k>>] = "ended") => ranIn[x] # {}
  /\ \A k \in Queues : Cardinality({x \in Actions : RunningIn(x, k)}) <= 1

(* While a Resumer of a queue is alive no later action begins in that      *)
(* queue, unless the queue handed it out before it noticed the pause.      *)
PauseExcludesUnlessStale ==
  \A t \in Items :
    pc[t] = "start" /\ ~setToRun[t[1]] /\ t \notin stale =>
      \A r \in Resumers : resumer[r] # t[2]

(* A queue is paused once for each live Resumer that points to it, however *)
(* Resumers are copied, assigned and dropped.                              *)
Pausers(k) == {r \in Resumers : resumer[r] = k}

PausesBalanced == \A k \in Queues : pauseCount[k] = Cardinality(Pausers(k))

(* An action waits only for want of a free queue: each queue has a task    *)
(* handed out, or is paused, or somebody is about to look at it.           *)
NoQueueStuck == \A k \in Queues : ~TQ!Stuck(k)

(* Each action has been given to the queues that push() has come to, and   *)
(* until one of these begins it, it is waiting in all of them.             *)
DoneOnce(x) ==
  /\ \A k \in Queues : pc[<<x, k>>] = "none" <=> k > pushedTo[x]
  /\ ~setToRun[x] => /\ ranIn[x] = {}
                     /\ x \in Pausing => resumer[x] = 0
                     /\ \A k \in Queues : pc[<<x, k>>] \in {"none", "queued", "start"}
  /\ setToRun[x] => \E k \in Queues : ranIn[x] = {k}

(* A queue holds the tasks waiting in it, each once, and has handed out    *)
(* the one task that is between start and finishedTask().                  *)
HandedOut(t) == pc[t] \in {"start", "action", "finish"}

QueueHolds(k) ==
  /\ \A i \in 1..Len(queue[k]) : queue[k][i][2] = k /\ pc[queue[k][i]] = "queued"
  /\ \A i, j \in 1..Len(queue[k]) : queue[k][i] = queue[k][j] => i = j
  /\ chosen[k] # NoTask => chosen[k][2] = k /\ HandedOut(chosen[k])

QueuesHold == \A k \in Queues : QueueHolds(k)

TasksHeld ==
  \A t \in Items : /\ HandedOut(t) => chosen[t[2]] = t
                   /\ pc[t] = "queued" => \E i \in 1..Len(queue[t[2]]) : queue[t[2]][i] = t

(* Between any two steps the pauses are those of the live Resumers, no     *)
(* queue waits in vain, and each task is where its action says; the        *)
(* invariant that the others follow from.                                  *)
QueuesConsistent ==
  /\ TypeOK /\ PausesBalanced /\ NoQueueStuck /\ \A x \in Actions : DoneOnce(x)
  /\ QueuesHold /\ TasksHeld

(* Every action pushed is done, also when every queue is paused by then: a *)
(* Resumer that goes makes its queue look for it.  The tasks left for it   *)
(* in the other queues, with their copies of the action, come to an end.   *)
EveryActionDone ==
  \A x \in Actions :
    pushedTo[x] > 0 ~> ranIn[x] # {} /\ \A k \in Queues : At(<<x, k>>, "ended")
=============================================================================
