------------------------ MODULE SerialTaskQueueChain ------------------------
(***************************************************************************)
(* edm::SerialTaskQueueChain: an action is passed down the queues of a     *)
(* chain, pausing each queue it leaves, runs in the last one, and resumes  *)
(* the others.  SharedResourcesRegistry gives one queue to each shared     *)
(* resource and one chain to each module that uses some of them; the       *)
(* queues of all chains are sorted the same way.                           *)
(*                                                                         *)
(* The task an action x has in the i-th queue of its chain is <<x, i>>;    *)
(* <<x, 0>> is the thread that pushes x.                                   *)
(***************************************************************************)
EXTENDS Naturals, Sequences, FiniteSets

CONSTANTS Queues,       \* one per shared resource, the numbers giving the order
          Actions,      \* the actions pushed, each once
          Chain,        \* the sequence of queues of each action's chain
          NoTask

ASSUME ChainAssumption ==
  /\ Queues \subseteq Nat /\ IsFiniteSet(Actions)
  /\ \A x \in Actions :
       /\ Chain[x] \in Seq(Queues) /\ Chain[x] # <<>>
       /\ \A i, j \in 1..Len(Chain[x]) : i < j => Chain[x][i] < Chain[x][j]

Tasks == UNION {{x} \X (0..Len(Chain[x])) : x \in Actions}

ASSUME NoTaskAssumption == NoTask \notin Tasks

VARIABLES queue, pauseCount, chosen, pick,
          pc,           \* where each task is
          toResume,     \* how many queues the action has still to resume
          outstanding,  \* m_outstandingTasks of each chain
          pushOrder,    \* history: the actions in the order they entered their first queue
          startOrder,   \* history: the actions in the order they began
          stale         \* history: tasks handed out by a paused queue

TQ == INSTANCE TaskQueues WITH Actors <- Tasks

queueVars == <<queue, pauseCount, chosen, pick>>
history == <<pushOrder, startOrder, stale>>
vars == <<queueVars, pc, toResume, outstanding, history>>

Last(x) == Len(Chain[x])
QueueOf(t) == Chain[t[1]][t[2]]
Chains == {Chain[x] : x \in Actions}

Init ==
  /\ TQ!QueuesInit
  /\ pc = [t \in Tasks |-> IF t[2] = 0 THEN "push" ELSE "none"]
  /\ toResume = [x \in Actions |-> 0]
  /\ outstanding = [c \in Chains |-> 0]
  /\ pushOrder = <<>>
  /\ startOrder = <<>>
  /\ stale = {}

Labels == {"none", "push", "queued", "start", "passDown", "action", "resume", "finish", "ended"}

TypeOK ==
  /\ TQ!QueuesTypeOK(Tasks)
  /\ pc \in [Tasks -> Labels]
  /\ toResume \in [Actions -> Nat] /\ \A x \in Actions : toResume[x] < Last(x)
  /\ outstanding \in [Chains -> 0..Cardinality(Actions)]
  /\ pushOrder \in Seq(Actions) /\ startOrder \in Seq(Actions)

Goto(t, label) == pc' = [pc EXCEPT ![t] = label]
At(t, label) == pc[t] = label /\ TQ!NotPicking(t)

-----------------------------------------------------------------------------
(* push(): counts the action, then puts its first task on the first queue  *)
Push(x) ==
  /\ At(<<x, 0>>, "push")
  /\ outstanding' = [outstanding EXCEPT ![Chain[x]] = @ + 1]
  /\ TQ!Enqueue(<<x, 0>>, Chain[x][1], <<x, 1>>)
  /\ pc' = [pc EXCEPT ![<<x, 0>>] = "ended", ![<<x, 1>>] = "queued"]
  /\ pushOrder' = Append(pushOrder, x)
  /\ UNCHANGED <<toResume, startOrder, stale>>

(* pickNextTask(), on behalf of whichever call the task t is in            *)
PickCheck(t) ==
  /\ TQ!PickCheck(t)
  /\ UNCHANGED <<pc, toResume, outstanding, history>>

PickCommit(t) ==
  /\ TQ!PickCommit(t)
  /\ LET p == TQ!Picked(t)
     IN  IF p = NoTask
           THEN UNCHANGED <<pc, stale>>
           ELSE /\ Goto(p, "start")
                /\ stale' = IF pauseCount[QueueOf(p)] # 0 THEN stale \cup {p} ELSE stale
  /\ UNCHANGED <<toResume, outstanding, pushOrder, startOrder>>

(* Mutant: the queue is left without being paused.                         *)
PassUnpaused(t) ==
  /\ At(t, "start") /\ t[2] < Last(t[1])
  /\ Goto(t, "passDown")
  /\ UNCHANGED <<queueVars, toResume, outstanding, history>>

(* passDownChain(): pauses the queue it runs in, ...                       *)
PausePrevious(t) ==
  /\ At(t, "start") /\ t[2] < Last(t[1])
  /\ TQ!PauseQueue(QueueOf(t))
  /\ Goto(t, "passDown")
  /\ UNCHANGED <<toResume, outstanding, history>>

(* ... pushes the next task and returns.                                   *)
PassDown(t) ==
  LET n == <<t[1], t[2] + 1>> IN
  /\ At(t, "passDown")
  /\ TQ!Enqueue(t, QueueOf(n), n)
  /\ pc' = [pc EXCEPT ![t] = "finish", ![n] = "queued"]
  /\ UNCHANGED <<toResume, outstanding, history>>

(* actionToRun(): the action, ...                                          *)
BeginAction(t) ==
  /\ At(t, "start") /\ t[2] = Last(t[1])
  /\ Goto(t, "action")
  /\ startOrder' = Append(startOrder, t[1])
  /\ UNCHANGED <<queueVars, toResume, outstanding, pushOrder, stale>>

(* Mutant: the sentry begins one queue too far down, at rbegin() + 2.      *)
EndActionLate(t) ==
  /\ At(t, "action")
  /\ Goto(t, "resume")
  /\ toResume' = [toResume EXCEPT ![t[1]] = IF Last(t[1]) > 1 THEN Last(t[1]) - 2 ELSE 0]
  /\ UNCHANGED <<queueVars, outstanding, history>>

(* Mutant: the action leaves without its sentry, as by an exception.       *)
EndActionUnguarded(t) ==
  /\ At(t, "action")
  /\ Goto(t, "resume")
  /\ UNCHANGED <<queueVars, toResume, outstanding, history>>

EndAction(t) ==
  /\ At(t, "action")
  /\ Goto(t, "resume")
  /\ toResume' = [toResume EXCEPT ![t[1]] = Last(t[1]) - 1]
  /\ UNCHANGED <<queueVars, outstanding, history>>

(* ... then its sentry: the other queues, the last one first, ...          *)
ResumeNext(t) ==
  LET x == t[1] IN
  /\ At(t, "resume") /\ toResume[x] > 0
  /\ TQ!ResumeQueue(t, Chain[x][toResume[x]])
  /\ toResume' = [toResume EXCEPT ![x] = @ - 1]
  /\ UNCHANGED <<pc, outstanding, history>>

(* ... and the count.                                                      *)
Uncount(t) ==
  LET x == t[1] IN
  /\ At(t, "resume") /\ toResume[x] = 0
  /\ outstanding' = [outstanding EXCEPT ![Chain[x]] = @ - 1]
  /\ Goto(t, "finish")
  /\ UNCHANGED <<queueVars, toResume, history>>

(* The task's execute() has returned: finishedTask()                       *)
Finish(t) ==
  /\ At(t, "finish")
  /\ TQ!FinishTask(t, QueueOf(t))
  /\ Goto(t, "ended")
  /\ UNCHANGED <<toResume, outstanding, history>>

Step(t) == \/ PickCheck(t) \/ PickCommit(t) \/ PausePrevious(t) \/ PassDown(t)
           \/ BeginAction(t) \/ EndAction(t) \/ ResumeNext(t) \/ Uncount(t) \/ Finish(t)

Ended == \A t \in Tasks : At(t, "ended")

AtRest == Ended /\ UNCHANGED vars

Next == \/ \E x \in Actions : Push(x)
        \/ \E t \in Tasks : Step(t)
        \/ AtRest

Spec == Init /\ [][Next]_vars

(* TBB runs what it was given, an action ends: some task goes on while one *)
(* can.                                                                    *)
FairSpec == Spec /\ WF_vars(\E t \in Tasks : Step(t))

-----------------------------------------------------------------------------
(* Correctness.                                                            *)

Running(x) == pc[<<x, Last(x)>>] = "action"
Shares(x, y) == \E i \in 1..Last(x), j \in 1..Last(y) : Chain[x][i] = Chain[y][j]

(* SharedResourcesRegistry.cc:54-56: "only it can use those resources      *)
(* while it runs": no two actions that share a queue run together.         *)
OnlyOneUser == \A x, y \in Actions : Running(x) /\ Running(y) /\ x # y => ~Shares(x, y)

(* Exclusion is only ever lost to a task that a queue handed out although  *)
(* it had been paused; actions with the same last queue never overlap.     *)
ExclusiveUnlessStale ==
  \A x, y \in Actions : Running(x) /\ Running(y) /\ x # y =>
    /\ Chain[x][Last(x)] # Chain[y][Last(y)]
    /\ Shares(x, y) => \E t \in stale : t[1] \in {x, y}

(* A queue is paused once for every action that left it and has not yet    *)
(* resumed it: no pause() is lost and none is undone twice.                *)
Holds(x, i) ==
  /\ i < Last(x)
  /\ pc[<<x, i>>] \in {"passDown", "finish", "ended"}
  /\ LET l == pc[<<x, Last(x)>>]
     IN  \/ l \in {"none", "queued", "start", "action"}
         \/ l = "resume" /\ toResume[x] >= i

Holders(q) == {x \in Actions : \E i \in 1..Last(x) : Chain[x][i] = q /\ Holds(x, i)}

PausesBalanced == \A q \in Queues : pauseCount[q] = Cardinality(Holders(q))

(* outstandingTasks() is the number of actions not yet through.            *)
Outstanding(c) == {x \in Actions : /\ Chain[x] = c /\ pc[<<x, 0>>] = "ended"
                                   /\ pc[<<x, Last(x)>>] \notin {"finish", "ended"}}

CountsOutstanding == \A c \in Chains : outstanding[c] = Cardinality(Outstanding(c))

(* Actions of one chain begin in the order in which they were pushed, none *)
(* of them overtaking another in any of the queues.                        *)
PushedBefore(x, y) ==
  \E i, j \in 1..Len(pushOrder) : i < j /\ pushOrder[i] = x /\ pushOrder[j] = y

ChainOrder ==
  \A x, y \in Actions : Chain[x] = Chain[y] /\ PushedBefore(x, y) =>
    \A j \in 1..Len(startOrder) : startOrder[j] = y =>
      \E i \in 1..(j - 1) : startOrder[i] = x

(* No queue is left with a task, unpaused and idle, and nobody to look.    *)
NoQueueStuck == \A q \in Queues : ~TQ!Stuck(q)

(* How far an action has come: the tasks before one that exists have been  *)
(* through their queues, and one that has been through passed it on.       *)
Passed(t) == pc[t] \in {"finish", "ended"}

InStage(x, i) ==
  IF i = 0 THEN pc[<<x, i>>] \in {"push", "ended"}
  ELSE /\ pc[<<x, i>>] \in {"none", "queued", "start", "finish", "ended"} \cup
            (IF i < Last(x) THEN {"passDown"} ELSE {"action", "resume"})
       /\ Passed(<<x, i - 1>>) <=> pc[<<x, i>>] # "none"
       /\ pc[<<x, i>>] # "none" => \A j \in 0..(i - 1) : Passed(<<x, j>>)

InStages == \A x \in Actions : \A i \in 0..Last(x) : InStage(x, i)

(* A queue holds the tasks waiting in it, each once, and has handed out    *)
(* the one task that is between start and finishedTask().                  *)
HandedOut(t) == pc[t] \notin {"push", "none", "queued", "ended"}

QueueHolds(q) ==
  /\ \A i \in 1..Len(queue[q]) :
       LET t == queue[q][i]
       IN  t[2] # 0 /\ QueueOf(t) = q /\ pc[t] = "queued"
  /\ \A i, j \in 1..Len(queue[q]) : queue[q][i] = queue[q][j] => i = j
  /\ chosen[q] # NoTask =>
       chosen[q][2] # 0 /\ QueueOf(chosen[q]) = q /\ HandedOut(chosen[q])

QueuesHold == \A q \in Queues : QueueHolds(q)

ChosenHandedOut ==
  \A t \in Tasks : t[2] # 0 /\ HandedOut(t) => chosen[QueueOf(t)] = t

(* A task that was pushed waits in its queue until it is handed out.       *)
NoneLost ==
  \A t \in Tasks : pc[t] = "queued" => \E i \in 1..Len(queue[QueueOf(t)]) : queue[QueueOf(t)][i] = t

(* Of two actions that share a queue, one having paused it, the other was  *)
(* handed out nevertheless.                                                *)
StaleIfBoth ==
  \A t, u \in Tasks :
    /\ t[1] # u[1] /\ t[2] # 0 /\ u[2] # 0 /\ QueueOf(t) = QueueOf(u)
    /\ Holds(t[1], t[2])
    /\ Holds(u[1], u[2]) \/ pc[u] \in {"start", "action"}
    => t \in stale \/ u \in stale

(* An action goes through each queue after those pushed before it.         *)
Follows(x, y, i) ==
  /\ pc[<<y, i>>] # "none" => pc[<<x, i>>] # "none"
  /\ pc[<<y, i>>] \notin {"none", "queued"} => pc[<<x, i>>] # "queued"
  /\ LET w == queue[Chain[x][i]]
     IN  \A m, n \in 1..Len(w) : w[m] = <<x, i>> /\ w[n] = <<y, i>> => m < n

InPushOrder ==
  /\ \A x \in Actions : pc[<<x, 0>>] = "ended" <=>
       \E i \in 1..Len(pushOrder) : pushOrder[i] = x
  /\ \A x \in Actions : pc[<<x, Last(x)>>] \in {"action", "resume", "finish", "ended"} <=>
       \E i \in 1..Len(startOrder) : startOrder[i] = x
  /\ \A i, j \in 1..Len(pushOrder) : pushOrder[i] = pushOrder[j] => i = j
  /\ \A i, j \in 1..Len(startOrder) : startOrder[i] = startOrder[j] => i = j
  /\ \A x, y \in Actions : Chain[x] = Chain[y] /\ PushedBefore(x, y) =>
       \A i \in 1..Last(x) : Follows(x, y, i)

(* Between any two steps the counts say what is going on, no queue waits   *)
(* in vain, and every action is at one place in its chain; the invariant   *)
(* that the others follow from.                                            *)
ChainConsistent ==
  /\ TypeOK /\ CountsOutstanding /\ PausesBalanced /\ NoQueueStuck
  /\ InStages /\ QueuesHold /\ NoneLost /\ ChosenHandedOut /\ StaleIfBoth
  /\ ChainOrder /\ InPushOrder

(* Every action pushed runs: chains sorted the same way do not deadlock.   *)
EveryActionRuns ==
  \A x \in Actions : pc[<<x, 0>>] = "ended" ~> pc[<<x, Last(x)>>] = "ended"
=============================================================================
