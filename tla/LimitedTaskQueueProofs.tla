----------------------- MODULE LimitedTaskQueueProofs -----------------------
(***************************************************************************)
(* Proofs about LimitedTaskQueue, for any limit, any finite set of actions *)
(* and any number of Resumers.                                             *)
(***************************************************************************)
EXTENDS LimitedTaskQueue, FiniteSetTheorems, TLAPS

Labels == {"none", "queued", "start", "action", "finish", "ended"}
Picks  == {TQ!NoPick} \cup [stage : {"check", "commit"}, queue : Queues]
Actors == Tasks \cup Resumers

-----------------------------------------------------------------------------
(* Lemmas about the operators of the model.                                *)

LEMMA QueueFacts ==
  /\ Limit \in Nat \ {0} /\ Queues = 1..Limit /\ 1 \in Queues /\ 0 \notin Queues
  /\ \A x \in Actions : \A k \in Queues : <<x, k>> \in Items
  /\ \A t \in Items : t[1] \in Actions /\ t[2] \in Queues /\ t = <<t[1], t[2]>>
  /\ \A x \in Actions : <<x, 0>> \in Tasks
  /\ Items \subseteq Tasks
BY LimitAssumption DEF Queues, Items, Tasks

LEMMA PausersFacts ==
  ASSUME NEW k \in Queues
  PROVE  Pausers(k) \subseteq Resumers /\ IsFiniteSet(Pausers(k)) /\ Cardinality(Pausers(k)) \in Nat
<1>1. IsFiniteSet(Resumers)
  BY LimitAssumption, FS_Subset, FS_Union DEF Resumers
<1>2. Pausers(k) \in SUBSET Resumers
  BY DEF Pausers
<1> QED
  BY <1>1, <1>2, FS_Subset, FS_CardinalityType

(* The parts of the invariant that most steps need.                        *)
LEMMA Parts ==
  ASSUME QueuesConsistent
  PROVE  /\ queue \in [Queues -> Seq(Items)] /\ pauseCount \in [Queues -> Nat]
         /\ chosen \in [Queues -> Items \cup {NoTask}] /\ pick \in [Actors -> Picks]
         /\ pc \in [Items -> Labels] /\ pushedTo \in [Actions -> 0..Limit]
         /\ setToRun \in [Actions -> BOOLEAN] /\ resumer \in [Resumers -> 0..Limit]
         /\ copiesLeft \in 0..MaxCopies /\ ranIn \in [Actions -> SUBSET Queues] /\ stale \subseteq Items
         /\ PausesBalanced /\ NoQueueStuck /\ \A x \in Actions : DoneOnce(x)
         /\ QueuesHold /\ TasksHeld
BY DEF QueuesConsistent, TypeOK, TQ!QueuesTypeOK, Labels, Picks, Actors

LEMMA PickFacts ==
  /\ \A k \in Queues : \A s \in {"check", "commit"} :
       /\ TQ!PickOf(k, s) \in Picks /\ TQ!PickOf(k, s).queue = k /\ TQ!PickOf(k, s) # TQ!NoPick
  /\ \A p \in Picks : p.stage \in {"check", "commit"} => p # TQ!NoPick /\ p.queue \in Queues
BY DEF TQ!PickOf, TQ!NoPick, Picks

(* What a queue holds are items, each with the queue it is in.             *)
LEMMA HeldFacts ==
  ASSUME QueuesConsistent, NEW k \in Queues
  PROVE  /\ queue[k] \in Seq(Items) /\ Len(queue[k]) \in Nat
         /\ \A i \in 1..Len(queue[k]) : /\ queue[k][i] \in Items /\ queue[k][i][2] = k
                                        /\ pc[queue[k][i]] = "queued"
         /\ \A i, j \in 1..Len(queue[k]) : queue[k][i] = queue[k][j] => i = j
         /\ chosen[k] # NoTask => /\ chosen[k] \in Items /\ chosen[k][2] = k
                                  /\ HandedOut(chosen[k])
<1>1. queue[k] \in Seq(Items) /\ chosen[k] \in Items \cup {NoTask} /\ QueueHolds(k)
  BY Parts DEF QueuesHold
<1> QED
  BY <1>1 DEF QueueHolds

-----------------------------------------------------------------------------
(* What each step does to the queues.                                      *)

(* push() appends the action's next task to the next queue.                *)
LEMMA PushForm ==
  ASSUME QueuesConsistent, NEW x \in Actions, Push(x)
  PROVE  \E k \in Queues :
           /\ k = pushedTo[x] + 1 /\ pushedTo' = [pushedTo EXCEPT ![x] = k]
           /\ <<x, k>> \in Items /\ pc[<<x, k>>] = "none" /\ pc' = [pc EXCEPT ![<<x, k>>] = "queued"]
           /\ queue' = [queue EXCEPT ![k] = Append(queue[k], <<x, k>>)]
           /\ <<x, 0>> \in Actors /\ pick[<<x, 0>>] = TQ!NoPick
           /\ pick' = [pick EXCEPT ![<<x, 0>>] = TQ!PickOf(k, "check")]
           /\ UNCHANGED <<pauseCount, chosen, setToRun, resumer, copiesLeft, ranIn, stale>>
<1> DEFINE k == pushedTo[x] + 1
<1>1. /\ pushedTo[x] < Limit /\ pick[<<x, 0>>] = TQ!NoPick
      /\ pushedTo' = [pushedTo EXCEPT ![x] = k] /\ pc' = [pc EXCEPT ![<<x, k>>] = "queued"]
      /\ queue' = [queue EXCEPT ![k] = Append(queue[k], <<x, k>>)]
      /\ pick' = [pick EXCEPT ![<<x, 0>>] = TQ!PickOf(k, "check")]
      /\ UNCHANGED <<pauseCount, chosen, setToRun, resumer, copiesLeft, ranIn, stale>>
  BY DEF Push, TQ!Enqueue, TQ!NotPicking, Goto, history
<1>2. k \in Queues /\ k > pushedTo[x]
  BY <1>1, Parts, QueueFacts
<1>3. <<x, k>> \in Items /\ <<x, 0>> \in Actors
  BY <1>2, QueueFacts DEF Actors
<1>4. pc[<<x, k>>] = "none"
  BY <1>2, Parts DEF DoneOnce
<1> HIDE DEF k
<1>5. k = pushedTo[x] + 1
  BY DEF k
<1> QED
  BY <1>1, <1>2, <1>3, <1>4, <1>5

(* A part of pickNextTask() after the check either hands out the first     *)
(* task of the queue or changes nothing.                                   *)
LEMMA PickCommitForm ==
  ASSUME QueuesConsistent, NEW a \in Actors, PickCommit(a)
  PROVE  \E k \in Queues :
           /\ pick[a] # TQ!NoPick /\ pick[a].queue = k /\ pick' = [pick EXCEPT ![a] = TQ!NoPick]
           /\ UNCHANGED <<pauseCount, pushedTo, setToRun, resumer, copiesLeft, ranIn>>
           /\ \/ /\ chosen[k] # NoTask \/ queue[k] = <<>>
                 /\ UNCHANGED <<queue, chosen, pc, stale>>
              \/ \E p \in Items :
                   /\ chosen[k] = NoTask /\ queue[k] # <<>> /\ p = queue[k][1]
                   /\ p[2] = k /\ pc[p] = "queued"
                   /\ queue' = [queue EXCEPT ![k] = Tail(queue[k])]
                   /\ chosen' = [chosen EXCEPT ![k] = p]
                   /\ pc' = [pc EXCEPT ![p] = "start"]
                   /\ stale' = IF pauseCount[k] # 0 THEN stale \cup {p} ELSE stale
<1> DEFINE k == pick[a].queue
<1>1. pick[a] \in Picks /\ pick[a].stage = "commit"
  BY Parts DEF PickCommit, TQ!PickCommit
<1>2. k \in Queues /\ pick[a] # TQ!NoPick
  BY <1>1, PickFacts
<1>3. /\ pick' = [pick EXCEPT ![a] = TQ!NoPick]
      /\ UNCHANGED <<pauseCount, pushedTo, setToRun, resumer, copiesLeft, ranIn>>
  BY DEF PickCommit, TQ!PickCommit
<1>4. CASE chosen[k] = NoTask /\ queue[k] # <<>>
  <2> DEFINE p == queue[k][1]
  <2>1. 1 \in 1..Len(queue[k]) /\ p = Head(queue[k])
    BY <1>2, <1>4, HeldFacts
  <2>2. p \in Items /\ p[2] = k /\ pc[p] = "queued" /\ p # NoTask
    BY <1>2, <2>1, HeldFacts, NoTaskAssumption
  <2>3. TQ!Picked(a) = p
    BY <1>4, <2>1 DEF TQ!Picked
  <2>4. /\ queue' = [queue EXCEPT ![k] = Tail(queue[k])]
        /\ chosen' = [chosen EXCEPT ![k] = p]
        /\ pc' = [pc EXCEPT ![p] = "start"]
        /\ stale' = IF pauseCount[k] # 0 THEN stale \cup {p} ELSE stale
    BY <2>2, <2>3 DEF PickCommit, TQ!PickCommit, Goto
  <2> QED
    BY <1>2, <1>3, <1>4, <2>2, <2>4
<1>5. CASE ~(chosen[k] = NoTask /\ queue[k] # <<>>)
  <2>1. TQ!Picked(a) = NoTask
    BY <1>5 DEF TQ!Picked
  <2> QED
    BY <1>2, <1>3, <1>5, <2>1 DEF PickCommit, TQ!PickCommit
<1> QED
  BY <1>4, <1>5

(* finishedTask() of a task takes back what its queue has handed out.      *)
LEMMA FinishForm ==
  ASSUME QueuesConsistent, NEW t \in Items, Finish(t)
  PROVE  /\ pc[t] = "finish" /\ t[2] \in Queues /\ chosen[t[2]] = t
         /\ t \in Actors /\ pick[t] = TQ!NoPick
         /\ pc' = [pc EXCEPT ![t] = "ended"]
         /\ chosen' = [chosen EXCEPT ![t[2]] = NoTask]
         /\ pick' = [pick EXCEPT ![t] = TQ!PickOf(t[2], "check")]
         /\ UNCHANGED <<queue, pauseCount, pushedTo, setToRun, resumer, copiesLeft, ranIn, stale>>
<1>1. /\ pc[t] = "finish" /\ pick[t] = TQ!NoPick
      /\ pc' = [pc EXCEPT ![t] = "ended"]
      /\ chosen' = [chosen EXCEPT ![t[2]] = NoTask]
      /\ pick' = [pick EXCEPT ![t] = TQ!PickOf(t[2], "check")]
      /\ UNCHANGED <<queue, pauseCount, pushedTo, setToRun, resumer, copiesLeft, ranIn, stale>>
  BY DEF Finish, At, Goto, TQ!FinishTask, TQ!NotPicking, history
<1>2. chosen[t[2]] = t
  BY <1>1, Parts DEF TasksHeld, HandedOut
<1> QED
  BY <1>1, <1>2, QueueFacts DEF Actors

(* An item that skips, begins or ends its action keeps its queue.          *)
LEMMA StepForm ==
  ASSUME QueuesConsistent, NEW t \in Items, Skip(t) \/ Begin(t) \/ End(t)
  PROVE  /\ UNCHANGED <<queue, chosen, pick, pushedTo, copiesLeft, stale>>
         /\ \E to \in {"action", "finish"} :
              /\ pc' = [pc EXCEPT ![t] = to]
              /\ IF Begin(t) THEN pc[t] = "start" /\ to = "action" ELSE HandedOut(t) /\ to = "finish"
         /\ pc[t] \in {"start", "action"}
         /\ ~Begin(t) => UNCHANGED <<pauseCount, setToRun, resumer, ranIn>>
<1>1. CASE Begin(t)
  <2>1. /\ pc[t] = "start" /\ pc' = [pc EXCEPT ![t] = "action"]
        /\ UNCHANGED <<queue, chosen, pick, pushedTo, copiesLeft, stale>>
    BY <1>1 DEF Begin, At, Goto, queueVars, TQ!PauseQueue
  <2> QED
    BY <1>1, <2>1
<1>2. CASE ~Begin(t)
  <2>1. /\ pc[t] \in {"start", "action"} /\ pc' = [pc EXCEPT ![t] = "finish"]
        /\ UNCHANGED <<queue, chosen, pick, pushedTo, copiesLeft, stale, pauseCount, setToRun,
                       resumer, ranIn>>
    BY <1>2 DEF Skip, End, At, Goto, queueVars, history
  <2> QED
    BY <1>2, <2>1 DEF HandedOut
<1> QED
  BY <1>1, <1>2

(* The first item that begins an action begins it.                         *)
LEMMA BeginForm ==
  ASSUME QueuesConsistent, NEW t \in Items, Begin(t)
  PROVE  /\ t[1] \in Actions /\ t[2] \in Queues /\ setToRun[t[1]] = FALSE
         /\ setToRun' = [setToRun EXCEPT ![t[1]] = TRUE]
         /\ ranIn' = [ranIn EXCEPT ![t[1]] = ranIn[t[1]] \cup {t[2]}]
         /\ ranIn[t[1]] = {}
         /\ IF t[1] \in Pausing
              THEN /\ pauseCount' = [pauseCount EXCEPT ![t[2]] = pauseCount[t[2]] + 1]
                   /\ t[1] \in Resumers /\ resumer[t[1]] = 0
                   /\ resumer' = [resumer EXCEPT ![t[1]] = t[2]]
              ELSE UNCHANGED <<pauseCount, resumer>>
<1>1. t[1] \in Actions /\ t[2] \in Queues /\ setToRun[t[1]] \in BOOLEAN
  BY QueueFacts, Parts
<1>2. ~setToRun[t[1]]
  BY DEF Begin
<1>3. ranIn[t[1]] = {} /\ (t[1] \in Pausing => resumer[t[1]] = 0)
  BY <1>1, <1>2, Parts DEF DoneOnce
<1>4. /\ setToRun' = [setToRun EXCEPT ![t[1]] = TRUE]
      /\ ranIn' = [ranIn EXCEPT ![t[1]] = ranIn[t[1]] \cup {t[2]}]
      /\ IF t[1] \in Pausing
           THEN /\ pauseCount' = [pauseCount EXCEPT ![t[2]] = pauseCount[t[2]] + 1]
                /\ resumer' = [resumer EXCEPT ![t[1]] = t[2]]
           ELSE UNCHANGED <<pauseCount, resumer>>
  BY DEF Begin, TQ!PauseQueue, queueVars
<1> QED
  BY <1>1, <1>2, <1>3, <1>4 DEF Resumers

(* A Resumer gets a queue with a new pause, or that of another one, or     *)
(* loses its own with its pause.                                           *)
LEMMA ResumerForm ==
  ASSUME QueuesConsistent, NEW r \in Resumers, NEW s,
         (s \in Copies /\ (Copy(r, s) \/ MoveAssign(r, s))) \/ Drop(r)
  PROVE  /\ UNCHANGED <<queue, chosen, pc, pushedTo, setToRun, ranIn, stale>>
         /\ copiesLeft' \in 0..MaxCopies
         /\ resumer[r] \in Queues /\ pick[r] = TQ!NoPick
         /\ \/ /\ s \in Resumers \ Pausing /\ resumer[s] = 0 /\ UNCHANGED pick
               /\ pauseCount' = [pauseCount EXCEPT ![resumer[r]] = pauseCount[resumer[r]] + 1]
               /\ resumer' = [resumer EXCEPT ![s] = resumer[r]]
            \/ \E u \in Resumers :
                 /\ resumer[u] \in Queues /\ pick[u] = TQ!NoPick
                 /\ pauseCount' = [pauseCount EXCEPT ![resumer[u]] = pauseCount[resumer[u]] - 1]
                 /\ pick' = [pick EXCEPT ![u] = IF pauseCount[resumer[u]] = 1
                                                  THEN TQ!PickOf(resumer[u], "check") ELSE pick[u]]
                 /\ \/ u = s /\ s \notin Pausing /\ r # s /\ resumer' = [resumer EXCEPT ![s] = resumer[r], ![r] = 0]
                    \/ u = r /\ resumer' = [resumer EXCEPT ![r] = 0]
<1>1. /\ resumer \in [Resumers -> 0..Limit] /\ copiesLeft \in 0..MaxCopies
      /\ s \in Copies => s \in Resumers \ Pausing
      /\ \A u \in Resumers : resumer[u] # 0 => resumer[u] \in Queues
  BY Parts, LimitAssumption, QueueFacts DEF Resumers
<1>2. resumer[r] \in Queues /\ pick[r] = TQ!NoPick
  BY <1>1 DEF Copy, MoveAssign, Drop, Live, Free, TQ!NotPicking
<1>3. UNCHANGED <<queue, chosen, pc, pushedTo, setToRun, ranIn, stale>>
  BY DEF Copy, MoveAssign, Drop, TQ!PauseQueue, TQ!ResumeQueue, history
<1>4. copiesLeft' \in 0..MaxCopies
  BY <1>1, LimitAssumption DEF Copy, MoveAssign, Drop
<1>5. CASE s \in Copies /\ Copy(r, s)
  <2>1. /\ resumer[s] = 0 /\ UNCHANGED pick
        /\ pauseCount' = [pauseCount EXCEPT ![resumer[r]] = pauseCount[resumer[r]] + 1]
        /\ resumer' = [resumer EXCEPT ![s] = resumer[r]]
    BY <1>5 DEF Copy, TQ!PauseQueue
  <2> QED
    BY <1>1, <1>2, <1>3, <1>4, <1>5, <2>1
<1>6. CASE s \in Copies /\ MoveAssign(r, s)
  <2>1. /\ resumer[s] \in Queues /\ pick[s] = TQ!NoPick /\ r # s
        /\ pauseCount' = [pauseCount EXCEPT ![resumer[s]] = pauseCount[resumer[s]] - 1]
        /\ pick' = [pick EXCEPT ![s] = IF pauseCount[resumer[s]] = 1
                                         THEN TQ!PickOf(resumer[s], "check") ELSE pick[s]]
        /\ resumer' = [resumer EXCEPT ![s] = resumer[r], ![r] = 0]
    BY <1>1, <1>6 DEF MoveAssign, Live, Free, TQ!NotPicking, TQ!ResumeQueue
  <2> QED
    BY <1>1, <1>2, <1>3, <1>4, <1>6, <2>1
<1>7. CASE Drop(r)
  <2>1. /\ pauseCount' = [pauseCount EXCEPT ![resumer[r]] = pauseCount[resumer[r]] - 1]
        /\ pick' = [pick EXCEPT ![r] = IF pauseCount[resumer[r]] = 1
                                         THEN TQ!PickOf(resumer[r], "check") ELSE pick[r]]
        /\ resumer' = [resumer EXCEPT ![r] = 0]
    BY <1>7 DEF Drop, TQ!ResumeQueue
  <2> QED
    BY <1>1, <1>2, <1>3, <1>4, <2>1
<1> QED
  BY <1>5, <1>6, <1>7

(* The check of m_pauseCount changes nothing but the call it is part of.   *)
LEMMA PickCheckForm ==
  ASSUME QueuesConsistent, NEW a \in Actors, PickCheck(a)
  PROVE  /\ pick[a] # TQ!NoPick /\ pick[a].queue \in Queues
         /\ pick' = [pick EXCEPT ![a] = IF pauseCount[pick[a].queue] # 0 THEN TQ!NoPick
                                        ELSE TQ!PickOf(pick[a].queue, "commit")]
         /\ UNCHANGED <<queue, pauseCount, chosen, pc, pushedTo, setToRun, resumer, copiesLeft,
                        ranIn, stale>>
<1>1. pick[a] \in Picks /\ pick[a].stage = "check"
  BY Parts DEF PickCheck, TQ!PickCheck
<1>2. pick[a] # TQ!NoPick /\ pick[a].queue \in Queues
  BY <1>1, PickFacts
<1> QED
  BY <1>2 DEF PickCheck, TQ!PickCheck, history

LEMMA StepCases ==
  ASSUME [Next]_vars
  PROVE  \/ \E x \in Actions : Push(x)
         \/ \E a \in Actors : PickCheck(a)
         \/ \E a \in Actors : PickCommit(a)
         \/ \E t \in Items : Skip(t) \/ Begin(t) \/ End(t)
         \/ \E t \in Items : Finish(t)
         \/ \E r \in Resumers : \E s : (s \in Copies /\ (Copy(r, s) \/ MoveAssign(r, s))) \/ Drop(r)
         \/ UNCHANGED vars
BY Zenon DEF Next, Pick, Step, Actors

-----------------------------------------------------------------------------
(* Every step keeps every part of the invariant.                           *)

(* An action is begun by the first of its items that comes to it, once.    *)
LEMMA DoneOnceStep ==
  ASSUME QueuesConsistent, [Next]_vars, NEW x \in Actions
  PROVE  DoneOnce(x)'
<1>0. /\ pc \in [Items -> Labels] /\ pushedTo \in [Actions -> 0..Limit]
      /\ setToRun \in [Actions -> BOOLEAN] /\ ranIn \in [Actions -> SUBSET Queues]
      /\ resumer \in [Resumers -> 0..Limit] /\ DoneOnce(x)
  BY Parts
<1>1. /\ \A k \in Queues : <<x, k>> \in Items /\ k \in Nat
      /\ \A k \in Queues : pc[<<x, k>>] = "none" <=> k > pushedTo[x]
      /\ ~setToRun[x] => /\ ranIn[x] = {}
                         /\ x \in Pausing => resumer[x] = 0
                         /\ \A k \in Queues : pc[<<x, k>>] \in {"none", "queued", "start"}
      /\ setToRun[x] => \E k \in Queues : ranIn[x] = {k}
  BY <1>0, QueueFacts DEF DoneOnce
<1>2. ASSUME UNCHANGED <<setToRun, ranIn>>, ~setToRun[x] /\ x \in Pausing => resumer'[x] = 0,
             \A k \in Queues : /\ pc'[<<x, k>>] = "none" <=> k > pushedTo'[x]
                               /\ ~setToRun[x] => pc'[<<x, k>>] \in {"none", "queued", "start"}
      PROVE  DoneOnce(x)'
  BY <1>1, <1>2 DEF DoneOnce
<1>3. ASSUME NEW y \in Actions, Push(y) PROVE DoneOnce(x)'
  <2>1. PICK k \in Queues :
           /\ k = pushedTo[y] + 1 /\ pushedTo' = [pushedTo EXCEPT ![y] = k]
           /\ <<y, k>> \in Items /\ pc' = [pc EXCEPT ![<<y, k>>] = "queued"]
           /\ UNCHANGED <<setToRun, resumer, ranIn>>
    BY <1>3, PushForm
  <2>2. \A j \in Queues : pc'[<<x, j>>] = IF x = y /\ j = k THEN "queued" ELSE pc[<<x, j>>]
    BY <1>0, <1>1, <2>1
  <2>3. pushedTo'[x] = IF x = y THEN pushedTo[x] + 1 ELSE pushedTo[x]
    BY <1>0, <2>1
  <2>4. pushedTo[x] \in Nat
    BY <1>0, QueueFacts
  <2> QED
    BY <1>1, <1>2, <2>1, <2>2, <2>3, <2>4
<1>4. ASSUME NEW t \in Items, NEW to \in {"start", "finish", "ended"}, pc[t] # "none",
             pc' = [pc EXCEPT ![t] = to], to = "start" \/ pc[t] \notin {"queued", "start"} \/ setToRun[t[1]],
             UNCHANGED <<pushedTo, setToRun, resumer, ranIn>>
      PROVE  DoneOnce(x)'
  <2>1. \A j \in Queues : pc'[<<x, j>>] = IF <<x, j>> = t THEN to ELSE pc[<<x, j>>]
    BY <1>0, <1>1, <1>4
  <2>2. \A j \in Queues : <<x, j>> = t => t[1] = x
    OBVIOUS
  <2> QED
    BY <1>1, <1>2, <1>4, <2>1, <2>2
<1>5. ASSUME NEW a \in Actors, PickCommit(a) PROVE DoneOnce(x)'
  <2>1. /\ UNCHANGED <<pushedTo, setToRun, resumer, ranIn>>
        /\ \/ UNCHANGED pc
           \/ \E p \in Items : pc[p] = "queued" /\ pc' = [pc EXCEPT ![p] = "start"]
    BY <1>5, PickCommitForm
  <2>2. CASE UNCHANGED pc
    BY <1>1, <1>2, <2>1, <2>2
  <2> QED
    BY <1>4, <2>1, <2>2
<1>6. ASSUME NEW t \in Items, Finish(t) PROVE DoneOnce(x)'
  BY <1>4, <1>6, FinishForm
<1>7. ASSUME NEW t \in Items, Skip(t) \/ End(t) PROVE DoneOnce(x)'
  <2>1. /\ pc[t] \in {"start", "action"} /\ pc' = [pc EXCEPT ![t] = "finish"]
        /\ pc[t] = "action" \/ setToRun[t[1]]
        /\ UNCHANGED <<pushedTo, setToRun, resumer, ranIn>>
    BY <1>7 DEF Skip, End, At, Goto, history
  <2> QED
    BY <1>4, <2>1
<1>8. ASSUME NEW t \in Items, Begin(t) PROVE DoneOnce(x)'
  <2>1. /\ pc[t] = "start" /\ pc' = [pc EXCEPT ![t] = "action"] /\ pushedTo' = pushedTo
    BY <1>8, StepForm
  <2>2. /\ t[1] \in Actions /\ t[2] \in Queues /\ t = <<t[1], t[2]>>
        /\ setToRun' = [setToRun EXCEPT ![t[1]] = TRUE]
        /\ ranIn' = [ranIn EXCEPT ![t[1]] = ranIn[t[1]] \cup {t[2]}]
        /\ ranIn[t[1]] = {}
        /\ t[1] # x /\ x \in Pausing => resumer'[x] = resumer[x]
    BY <1>0, <1>8, BeginForm, QueueFacts DEF Resumers
  <2>3. \A j \in Queues : pc'[<<x, j>>] = IF <<x, j>> = t THEN "action" ELSE pc[<<x, j>>]
    BY <1>0, <1>1, <2>1
  <2>4. CASE x = t[1]
    <3>1. setToRun'[x] = TRUE /\ ranIn'[x] = {t[2]}
      BY <1>0, <2>2, <2>4
    <3>2. \A j \in Queues : pc'[<<x, j>>] = "none" <=> j > pushedTo'[x]
      BY <1>1, <2>1, <2>3
    <3> QED
      BY <2>2, <3>1, <3>2 DEF DoneOnce
  <2>5. CASE x # t[1]
    <3>1. setToRun'[x] = setToRun[x] /\ ranIn'[x] = ranIn[x]
      BY <1>0, <2>2, <2>5
    <3>2. \A j \in Queues : pc'[<<x, j>>] = pc[<<x, j>>]
      BY <2>3, <2>5
    <3> QED
      BY <1>1, <2>1, <2>2, <2>5, <3>1, <3>2 DEF DoneOnce
  <2> QED
    BY <2>4, <2>5
<1>9. ASSUME NEW r \in Resumers, NEW s, (s \in Copies /\ (Copy(r, s) \/ MoveAssign(r, s))) \/ Drop(r)
      PROVE  DoneOnce(x)'
  <2>1. UNCHANGED <<pc, pushedTo, setToRun, ranIn>>
    BY <1>9, ResumerForm
  <2>2. ~setToRun[x] /\ x \in Pausing => resumer'[x] = 0
    <3> SUFFICES ASSUME ~setToRun[x], x \in Pausing PROVE resumer'[x] = 0
      OBVIOUS
    <3>1. resumer[x] = 0 /\ x \in Resumers
      BY <1>1 DEF Resumers
    <3>2. /\ resumer[r] \in Queues
          /\ \/ s \notin Pausing /\ resumer' = [resumer EXCEPT ![s] = resumer[r]]
             \/ s \notin Pausing /\ resumer' = [resumer EXCEPT ![s] = resumer[r], ![r] = 0]
             \/ resumer' = [resumer EXCEPT ![r] = 0]
      BY <1>9, ResumerForm
    <3> QED
      BY <1>0, <3>1, <3>2
  <2> QED
    BY <1>1, <1>2, <2>1, <2>2
<1>10. ASSUME NEW a \in Actors, PickCheck(a) PROVE DoneOnce(x)'
  <2>1. UNCHANGED <<pc, pushedTo, setToRun, ranIn, resumer>>
    BY <1>10, PickCheckForm
  <2> QED
    BY <1>1, <1>2, <2>1
<1>11. CASE UNCHANGED vars
  BY <1>1, <1>2, <1>11 DEF vars, history
<1> QED
  BY <1>3, <1>5, <1>6, <1>7, <1>8, <1>9, <1>10, <1>11, StepCases

(* Every live Resumer is matched by one pause of its queue.                *)
LEMMA PauserAdded ==
  ASSUME QueuesConsistent, NEW r \in Resumers, NEW k \in Queues, resumer[r] = 0,
         resumer' = [resumer EXCEPT ![r] = k], pauseCount' = [pauseCount EXCEPT ![k] = pauseCount[k] + 1]
  PROVE  PausesBalanced'
<1>0. /\ resumer \in [Resumers -> 0..Limit] /\ pauseCount \in [Queues -> Nat]
      /\ \A q \in Queues : pauseCount[q] = Cardinality(Pausers(q)) /\ q # 0
  BY Parts, QueueFacts DEF PausesBalanced
<1>1. Pausers(k)' = Pausers(k) \cup {r} /\ r \notin Pausers(k)
  BY <1>0 DEF Pausers
<1>2. \A q \in Queues : q # k => Pausers(q)' = Pausers(q)
  BY <1>0 DEF Pausers
<1>3. Cardinality(Pausers(k)') = Cardinality(Pausers(k)) + 1
  BY <1>1, PausersFacts, FS_AddElement
<1> QED
  BY <1>0, <1>2, <1>3 DEF PausesBalanced

LEMMA PauserRemoved ==
  ASSUME QueuesConsistent, NEW r \in Resumers, NEW k \in Queues, resumer[r] = k,
         resumer' = [resumer EXCEPT ![r] = 0], pauseCount' = [pauseCount EXCEPT ![k] = pauseCount[k] - 1]
  PROVE  PausesBalanced'
<1>0. /\ resumer \in [Resumers -> 0..Limit] /\ pauseCount \in [Queues -> Nat]
      /\ \A q \in Queues : pauseCount[q] = Cardinality(Pausers(q)) /\ q # 0
  BY Parts, QueueFacts DEF PausesBalanced
<1>1. Pausers(k)' = Pausers(k) \ {r} /\ r \in Pausers(k)
  BY <1>0 DEF Pausers
<1>2. \A q \in Queues : q # k => Pausers(q)' = Pausers(q)
  BY <1>0 DEF Pausers
<1>3. Cardinality(Pausers(k)') = Cardinality(Pausers(k)) - 1
  BY <1>1, PausersFacts, FS_RemoveElement
<1> QED
  BY <1>0, <1>2, <1>3 DEF PausesBalanced

(* Move assignment resumes the target's queue and takes over the source's. *)
LEMMA PauserMoved ==
  ASSUME QueuesConsistent, NEW r \in Resumers, NEW s \in Resumers, r # s,
         resumer[r] \in Queues, resumer[s] \in Queues,
         resumer' = [resumer EXCEPT ![s] = resumer[r], ![r] = 0],
         pauseCount' = [pauseCount EXCEPT ![resumer[s]] = pauseCount[resumer[s]] - 1]
  PROVE  PausesBalanced'
<1>0. /\ resumer \in [Resumers -> 0..Limit] /\ pauseCount \in [Queues -> Nat]
      /\ \A q \in Queues : pauseCount[q] = Cardinality(Pausers(q)) /\ q # 0
  BY Parts, QueueFacts DEF PausesBalanced
<1>k. PICK k \in Queues : k = resumer[r]
  OBVIOUS
<1>h. PICK h \in Queues : h = resumer[s]
  OBVIOUS
<1>p. \A q \in Queues : pauseCount'[q] = IF q = h THEN pauseCount[h] - 1 ELSE pauseCount[q]
  BY <1>0, <1>h
<1>1. \A u \in Resumers : resumer'[u] = IF u = r THEN 0 ELSE IF u = s THEN k ELSE resumer[u]
  BY <1>0, <1>k
<1>2. ASSUME NEW q \in Queues, q # k, q # h PROVE Pausers(q)' = Pausers(q)
  BY <1>0, <1>1, <1>2, <1>k, <1>h DEF Pausers
<1>3. CASE k = h
  <2>1. Pausers(h)' = Pausers(h) \ {r} /\ r \in Pausers(h)
    BY <1>0, <1>1, <1>3, <1>k, <1>h DEF Pausers
  <2>2. Cardinality(Pausers(h)') = Cardinality(Pausers(h)) - 1
    BY <2>1, PausersFacts, FS_RemoveElement
  <2> QED
    BY <1>0, <1>2, <1>3, <1>p, <2>2 DEF PausesBalanced
<1>4. CASE k # h
  <2>1. Pausers(h)' = Pausers(h) \ {s} /\ s \in Pausers(h)
    <3>1. \A u \in Resumers : resumer'[u] = h <=> resumer[u] = h /\ u # s
      BY <1>0, <1>1, <1>4, <1>k, <1>h
    <3> QED
      BY <1>h, <3>1 DEF Pausers
  <2>2. Cardinality(Pausers(h)') = Cardinality(Pausers(h)) - 1
    BY <2>1, PausersFacts, FS_RemoveElement
  <2>3. /\ Pausers(k)' = (Pausers(k) \ {r}) \cup {s} /\ r \in Pausers(k) /\ s \notin Pausers(k) \ {r}
    BY <1>0, <1>1, <1>4, <1>k, <1>h DEF Pausers
  <2>4. IsFiniteSet(Pausers(k)) /\ Cardinality(Pausers(k)) \in Nat
    BY PausersFacts
  <2>5. IsFiniteSet(Pausers(k) \ {r}) /\ Cardinality(Pausers(k) \ {r}) = Cardinality(Pausers(k)) - 1
    BY <2>3, <2>4, FS_RemoveElement
  <2>6. Cardinality(Pausers(k)') = Cardinality(Pausers(k) \ {r}) + 1
    BY <2>3, <2>5, FS_AddElement
  <2>7. Cardinality(Pausers(k)') = Cardinality(Pausers(k))
    BY <2>4, <2>5, <2>6
  <2> QED
    BY <1>0, <1>2, <1>4, <1>p, <2>2, <2>7 DEF PausesBalanced
<1> QED
  BY <1>3, <1>4

LEMMA PausesStep == ASSUME QueuesConsistent, [Next]_vars PROVE PausesBalanced'
<1>1. CASE UNCHANGED <<resumer, pauseCount>>
  BY <1>1, Parts DEF PausesBalanced, Pausers
<1>2. ASSUME NEW t \in Items, Skip(t) \/ Begin(t) \/ End(t) PROVE PausesBalanced'
  <2>1. CASE Begin(t) /\ t[1] \in Pausing
    BY <2>1, BeginForm, PauserAdded
  <2>2. CASE Begin(t) /\ t[1] \notin Pausing
    BY <1>1, <2>2, BeginForm
  <2>3. CASE ~Begin(t)
    BY <1>1, <1>2, <2>3, StepForm
  <2> QED
    BY <2>1, <2>2, <2>3
<1>3. ASSUME NEW r \in Resumers, NEW s, (s \in Copies /\ (Copy(r, s) \/ MoveAssign(r, s))) \/ Drop(r)
      PROVE  PausesBalanced'
  <2>1. resumer[r] \in Queues
    BY <1>3, ResumerForm
  <2>2. CASE /\ s \in Resumers /\ resumer[s] = 0
             /\ pauseCount' = [pauseCount EXCEPT ![resumer[r]] = pauseCount[resumer[r]] + 1]
             /\ resumer' = [resumer EXCEPT ![s] = resumer[r]]
    BY <2>1, <2>2, PauserAdded
  <2>3. ASSUME NEW u \in Resumers, resumer[u] \in Queues,
               pauseCount' = [pauseCount EXCEPT ![resumer[u]] = pauseCount[resumer[u]] - 1],
               \/ u = s /\ r # s /\ resumer' = [resumer EXCEPT ![s] = resumer[r], ![r] = 0]
               \/ u = r /\ resumer' = [resumer EXCEPT ![r] = 0]
        PROVE  PausesBalanced'
    <3>1. CASE u = s /\ r # s /\ resumer' = [resumer EXCEPT ![s] = resumer[r], ![r] = 0]
      BY <2>1, <2>3, <3>1, PauserMoved
    <3>2. CASE u = r /\ resumer' = [resumer EXCEPT ![r] = 0]
      BY <2>1, <2>3, <3>2, PauserRemoved
    <3> QED
      BY <2>3, <3>1, <3>2
  <2> QED
    BY <1>3, <2>2, <2>3, ResumerForm
<1>4. ASSUME NEW x \in Actions, Push(x) PROVE UNCHANGED <<resumer, pauseCount>>
  BY <1>4, PushForm
<1>5. ASSUME NEW a \in Actors, PickCommit(a) \/ PickCheck(a) PROVE UNCHANGED <<resumer, pauseCount>>
  BY <1>5, PickCommitForm, PickCheckForm
<1>6. ASSUME NEW t \in Items, Finish(t) PROVE UNCHANGED <<resumer, pauseCount>>
  BY <1>6, FinishForm
<1>7. CASE UNCHANGED vars
  BY <1>1, <1>7 DEF vars, queueVars
<1> QED
  BY <1>1, <1>2, <1>3, <1>4, <1>5, <1>6, <1>7, StepCases

(* Whoever leaves a queue with a task to run, unpaused and idle, is about  *)
(* to look at it.                                                          *)
LEMMA StuckStep == ASSUME QueuesConsistent, [Next]_vars PROVE NoQueueStuck'
<1> SUFFICES ASSUME NEW q \in Queues PROVE ~TQ!Stuck(q)'
  BY DEF NoQueueStuck
<1>0. /\ queue \in [Queues -> Seq(Items)] /\ pauseCount \in [Queues -> Nat]
      /\ chosen \in [Queues -> Items \cup {NoTask}] /\ pick \in [Actors -> Picks]
      /\ ~TQ!Stuck(q)
  BY Parts DEF NoQueueStuck
<1>1. ~TQ!Stuck(q) <=> \/ queue[q] = <<>> \/ pauseCount[q] # 0 \/ chosen[q] # NoTask
                       \/ \E a \in Actors : pick[a] # TQ!NoPick /\ pick[a].queue = q
  BY DEF TQ!Stuck, Actors
<1>2. ~TQ!Stuck(q)' <=> \/ queue'[q] = <<>> \/ pauseCount'[q] # 0 \/ chosen'[q] # NoTask
                        \/ \E a \in Actors : pick'[a] # TQ!NoPick /\ pick'[a].queue = q
  BY DEF TQ!Stuck, Actors
<1>3. ASSUME queue'[q] = queue[q], pauseCount'[q] = pauseCount[q], chosen'[q] = chosen[q],
             \A a \in Actors : pick[a] # TQ!NoPick /\ pick[a].queue = q
                                 => pick'[a] # TQ!NoPick /\ pick'[a].queue = q
      PROVE  ~TQ!Stuck(q)'
  BY <1>0, <1>1, <1>2, <1>3
<1>4. ASSUME NEW a \in Actors, NEW h \in Queues, pick[a] = TQ!NoPick,
             pick' = [pick EXCEPT ![a] = TQ!PickOf(h, "check")],
             q # h => queue'[q] = queue[q] /\ pauseCount'[q] = pauseCount[q] /\ chosen'[q] = chosen[q]
      PROVE  ~TQ!Stuck(q)'
  <2>1. \A b \in Actors : pick'[b] = IF b = a THEN TQ!PickOf(h, "check") ELSE pick[b]
    BY <1>0, <1>4
  <2>2. CASE q = h
    <3>1. pick'[a] # TQ!NoPick /\ pick'[a].queue = q
      BY <2>1, <2>2, PickFacts
    <3> QED
      BY <1>2, <3>1
  <2>3. CASE q # h
    BY <1>3, <1>4, <2>1, <2>3
  <2> QED
    BY <2>2, <2>3
<1>5. ASSUME NEW x \in Actions, Push(x) PROVE ~TQ!Stuck(q)'
  <2>1. PICK k \in Queues :
           /\ queue' = [queue EXCEPT ![k] = Append(queue[k], <<x, k>>)]
           /\ <<x, 0>> \in Actors /\ pick[<<x, 0>>] = TQ!NoPick
           /\ pick' = [pick EXCEPT ![<<x, 0>>] = TQ!PickOf(k, "check")]
           /\ UNCHANGED <<pauseCount, chosen>>
    BY <1>5, PushForm
  <2>2. q # k => queue'[q] = queue[q]
    BY <1>0, <2>1
  <2> QED
    BY <1>4, <2>1, <2>2
<1>6. ASSUME NEW a \in Actors, PickCheck(a) PROVE ~TQ!Stuck(q)'
  <2>1. /\ pick[a] # TQ!NoPick /\ pick[a].queue \in Queues
        /\ \A b \in Actors : pick'[b] = IF b # a THEN pick[b]
                                        ELSE IF pauseCount[pick[a].queue] # 0 THEN TQ!NoPick
                                        ELSE TQ!PickOf(pick[a].queue, "commit")
        /\ UNCHANGED <<queue, pauseCount, chosen>>
    BY <1>0, <1>6, PickCheckForm
  <2>2. CASE q = pick[a].queue /\ pauseCount[q] # 0
    BY <1>2, <2>1, <2>2
  <2>3. CASE q # pick[a].queue
    BY <1>3, <2>1, <2>3
  <2>4. CASE q = pick[a].queue /\ pauseCount[q] = 0
    <3>1. pick'[a] # TQ!NoPick /\ pick'[a].queue = q
      BY <2>1, <2>4, PickFacts
    <3> QED
      BY <1>2, <3>1
  <2> QED
    BY <2>2, <2>3, <2>4
<1>7. ASSUME NEW a \in Actors, PickCommit(a) PROVE ~TQ!Stuck(q)'
  <2>1. PICK h \in Queues :
           /\ pick[a] # TQ!NoPick /\ pick[a].queue = h /\ pick' = [pick EXCEPT ![a] = TQ!NoPick]
           /\ UNCHANGED pauseCount
           /\ \/ /\ chosen[h] # NoTask \/ queue[h] = <<>>
                 /\ UNCHANGED <<queue, chosen>>
              \/ \E p \in Items : /\ queue' = [queue EXCEPT ![h] = Tail(queue[h])]
                                  /\ chosen' = [chosen EXCEPT ![h] = p]
    BY <1>7, PickCommitForm
  <2>2. CASE q = h
    BY <1>0, <1>2, <2>1, <2>2, NoTaskAssumption
  <2>3. CASE q # h
    BY <1>0, <1>3, <2>1, <2>3
  <2> QED
    BY <2>2, <2>3
<1>8. ASSUME NEW t \in Items, Skip(t) \/ Begin(t) \/ End(t) PROVE ~TQ!Stuck(q)'
  <2>1. UNCHANGED <<queue, chosen, pick>>
    BY <1>8, StepForm
  <2>2. pauseCount'[q] = pauseCount[q] \/ pauseCount'[q] # 0
    <3>1. CASE Begin(t)
      <4>1. t[2] \in Queues /\ pauseCount[t[2]] \in Nat
        BY <1>0, QueueFacts
      <4>2. \/ UNCHANGED pauseCount
            \/ pauseCount' = [pauseCount EXCEPT ![t[2]] = pauseCount[t[2]] + 1]
        BY <3>1, BeginForm
      <4> QED
        BY <1>0, <4>1, <4>2
    <3>2. CASE ~Begin(t)
      BY <1>8, <3>2, StepForm
    <3> QED
      BY <3>1, <3>2
  <2> QED
    BY <1>2, <1>3, <2>1, <2>2
<1>9. ASSUME NEW t \in Items, Finish(t) PROVE ~TQ!Stuck(q)'
  <2>1. /\ t[2] \in Queues /\ t \in Actors /\ pick[t] = TQ!NoPick
        /\ chosen' = [chosen EXCEPT ![t[2]] = NoTask]
        /\ pick' = [pick EXCEPT ![t] = TQ!PickOf(t[2], "check")]
        /\ UNCHANGED <<queue, pauseCount>>
    BY <1>9, FinishForm
  <2>2. q # t[2] => chosen'[q] = chosen[q]
    BY <1>0, <2>1
  <2> QED
    BY <1>4, <2>1, <2>2
<1>10. ASSUME NEW r \in Resumers, NEW s, (s \in Copies /\ (Copy(r, s) \/ MoveAssign(r, s))) \/ Drop(r)
       PROVE  ~TQ!Stuck(q)'
  <2>1. UNCHANGED <<queue, chosen>> /\ resumer[r] \in Queues
    BY <1>10, ResumerForm
  <2>2. CASE UNCHANGED pick /\ pauseCount' = [pauseCount EXCEPT ![resumer[r]] = pauseCount[resumer[r]] + 1]
    <3>1. pauseCount'[q] = pauseCount[q] \/ pauseCount'[q] # 0
      BY <1>0, <2>1, <2>2
    <3> QED
      BY <1>2, <1>3, <2>1, <2>2, <3>1
  <2>3. ASSUME NEW u \in Resumers, NEW h \in Queues, h = resumer[u], pick[u] = TQ!NoPick,
               pauseCount' = [pauseCount EXCEPT ![h] = pauseCount[h] - 1],
               pick' = [pick EXCEPT ![u] = IF pauseCount[h] = 1 THEN TQ!PickOf(h, "check") ELSE pick[u]]
        PROVE  ~TQ!Stuck(q)'
    <3>1. u \in Actors
      BY DEF Actors
    <3>2. CASE pauseCount[h] = 1
      <4>1. pick' = [pick EXCEPT ![u] = TQ!PickOf(h, "check")]
        BY <2>3, <3>2
      <4>2. q # h => pauseCount'[q] = pauseCount[q]
        BY <1>0, <2>3
      <4> QED
        BY <1>4, <2>1, <2>3, <3>1, <4>1, <4>2
    <3>3. CASE pauseCount[h] # 1
      <4>1. pick' = pick
        BY <1>0, <2>3, <3>1, <3>3
      <4>2. pauseCount'[q] = pauseCount[q] \/ pauseCount'[q] # 0
        BY <1>0, <2>3, <3>3
      <4> QED
        BY <1>2, <1>3, <2>1, <4>1, <4>2
    <3> QED
      BY <3>2, <3>3
  <2> QED
    BY <1>10, <2>2, <2>3, ResumerForm
<1>11. CASE UNCHANGED vars
  BY <1>3, <1>11 DEF vars, queueVars
<1> QED
  BY <1>5, <1>6, <1>7, <1>8, <1>9, <1>10, <1>11, StepCases

(* A queue hands out the first task waiting in it, once, and loses none.   *)
Held == QueuesHold /\ TasksHeld

LEMMA HeldEnter ==
  ASSUME QueuesConsistent, NEW k \in Queues, NEW n \in Items, n[2] = k, pc[n] = "none",
         queue' = [queue EXCEPT ![k] = Append(queue[k], n)], pc' = [pc EXCEPT ![n] = "queued"],
         chosen' = chosen
  PROVE  Held'
<1>0. /\ queue \in [Queues -> Seq(Items)] /\ chosen \in [Queues -> Items \cup {NoTask}]
      /\ pc \in [Items -> Labels] /\ TasksHeld
  BY Parts
<1>1. \A u \in Items : pc'[u] = IF u = n THEN "queued" ELSE pc[u]
  BY <1>0
<1>2. /\ Len(queue[k]) \in Nat /\ Len(queue'[k]) = Len(queue[k]) + 1
      /\ queue'[k][Len(queue[k]) + 1] = n
      /\ \A i \in 1..Len(queue[k]) : queue'[k][i] = queue[k][i]
      /\ \A q \in Queues : q # k => queue'[q] = queue[q]
  BY <1>0
<1>3. ASSUME NEW q \in Queues
      PROVE  \A i \in 1..Len(queue[q]) : i \in 1..Len(queue'[q]) /\ queue'[q][i] = queue[q][i]
  BY <1>2
<1>4. ASSUME NEW q \in Queues, NEW i \in 1..Len(queue'[q])
      PROVE  \/ q = k /\ i = Len(queue[k]) + 1 /\ queue'[q][i] = n
             \/ i \in 1..Len(queue[q]) /\ queue'[q][i] = queue[q][i]
  BY <1>2
<1>5. \A q \in Queues : \A i \in 1..Len(queue[q]) :
        queue[q][i] \in Items /\ queue[q][i] # n /\ queue[q][i][2] = q /\ pc'[queue[q][i]] = "queued"
  BY <1>1, HeldFacts
<1>6. QueuesHold'
  <2> SUFFICES ASSUME NEW q \in Queues PROVE QueueHolds(q)'
    BY DEF QueuesHold
  <2>1. \A i \in 1..Len(queue'[q]) : queue'[q][i][2] = q /\ pc'[queue'[q][i]] = "queued"
    BY <1>1, <1>4, <1>5
  <2>2. ASSUME NEW i \in 1..Len(queue'[q]), NEW j \in 1..Len(queue'[q]), queue'[q][i] = queue'[q][j]
        PROVE  i = j
    BY <1>4, <1>5, <2>2, HeldFacts
  <2>3. chosen'[q] # NoTask => chosen'[q][2] = q /\ HandedOut(chosen[q])'
    <3> SUFFICES ASSUME chosen[q] # NoTask PROVE chosen[q][2] = q /\ pc'[chosen[q]] \in {"start", "action", "finish"}
      BY DEF HandedOut
    <3> QED
      BY <1>1, HeldFacts DEF HandedOut
  <2> QED
    BY <2>1, <2>2, <2>3 DEF QueueHolds, HandedOut
<1>7. TasksHeld'
  <2> SUFFICES ASSUME NEW u \in Items
               PROVE  /\ HandedOut(u)' => chosen'[u[2]] = u
                      /\ pc'[u] = "queued" => \E i \in 1..Len(queue'[u[2]]) : queue'[u[2]][i] = u
    BY DEF TasksHeld
  <2>1. u[2] \in Queues
    BY QueueFacts
  <2>2. HandedOut(u)' => chosen'[u[2]] = u
    BY <1>0, <1>1 DEF TasksHeld, HandedOut
  <2>3. CASE u = n
    <3>1. Len(queue[k]) + 1 \in 1..Len(queue'[k])
      BY <1>2
    <3> QED
      BY <1>2, <2>2, <2>3, <3>1
  <2>4. CASE u # n
    BY <1>0, <1>1, <1>3, <2>1, <2>2, <2>4 DEF TasksHeld
  <2> QED
    BY <2>3, <2>4
<1> QED
  BY <1>6, <1>7 DEF Held

LEMMA HeldHandOut ==
  ASSUME QueuesConsistent, NEW k \in Queues, NEW p \in Items, chosen[k] = NoTask, queue[k] # <<>>,
         p = queue[k][1], p[2] = k, pc[p] = "queued",
         queue' = [queue EXCEPT ![k] = Tail(queue[k])], chosen' = [chosen EXCEPT ![k] = p],
         pc' = [pc EXCEPT ![p] = "start"]
  PROVE  Held'
<1>0. /\ queue \in [Queues -> Seq(Items)] /\ chosen \in [Queues -> Items \cup {NoTask}]
      /\ pc \in [Items -> Labels] /\ TasksHeld
  BY Parts
<1>1. \A u \in Items : pc'[u] = IF u = p THEN "start" ELSE pc[u]
  BY <1>0
<1>2. \A q \in Queues : chosen'[q] = IF q = k THEN p ELSE chosen[q]
  BY <1>0
<1>3. /\ Len(queue[k]) \in Nat \ {0} /\ Len(queue'[k]) = Len(queue[k]) - 1
      /\ \A i \in 1..Len(queue'[k]) : queue'[k][i] = queue[k][i + 1]
      /\ \A q \in Queues : q # k => queue'[q] = queue[q]
  <2>1. queue[k] \in Seq(Items) /\ queue'[k] = Tail(queue[k])
    BY <1>0
  <2> QED
    BY <1>0, <2>1
<1>4. ASSUME NEW q \in Queues, NEW i \in 1..Len(queue'[q])
      PROVE  \/ q = k /\ i + 1 \in 1..Len(queue[q]) /\ queue'[q][i] = queue[q][i + 1]
             \/ q # k /\ i \in 1..Len(queue[q]) /\ queue'[q][i] = queue[q][i]
  BY <1>3
<1>5. ASSUME NEW q \in Queues, NEW i \in 1..Len(queue'[q])
      PROVE  /\ queue'[q][i] \in Items /\ queue'[q][i] # p /\ queue'[q][i][2] = q
             /\ pc[queue'[q][i]] = "queued"
  <2>1. CASE q = k
    <3>1. i + 1 \in 1..Len(queue[k]) /\ queue'[q][i] = queue[k][i + 1] /\ i + 1 # 1 /\ 1 \in 1..Len(queue[k])
      BY <1>3, <1>4, <2>1
    <3> QED
      BY <2>1, <3>1, HeldFacts
  <2>2. CASE q # k
    BY <1>4, <2>2, HeldFacts
  <2> QED
    BY <2>1, <2>2
<1>6. QueuesHold'
  <2> SUFFICES ASSUME NEW q \in Queues PROVE QueueHolds(q)'
    BY DEF QueuesHold
  <2>1. \A i \in 1..Len(queue'[q]) : queue'[q][i][2] = q /\ pc'[queue'[q][i]] = "queued"
    <3> SUFFICES ASSUME NEW i \in 1..Len(queue'[q])
                 PROVE  queue'[q][i][2] = q /\ pc'[queue'[q][i]] = "queued"
      OBVIOUS
    <3>1. /\ queue'[q][i] \in Items /\ queue'[q][i] # p /\ queue'[q][i][2] = q
          /\ pc[queue'[q][i]] = "queued"
      BY <1>5
    <3>2. pc'[queue'[q][i]] = pc[queue'[q][i]]
      BY <1>1, <3>1
    <3> QED
      BY <3>1, <3>2
  <2>2. ASSUME NEW i \in 1..Len(queue'[q]), NEW j \in 1..Len(queue'[q]), queue'[q][i] = queue'[q][j]
        PROVE  i = j
    <3>1. CASE q = k
      <4>1. i + 1 \in 1..Len(queue[q]) /\ j + 1 \in 1..Len(queue[q]) /\ queue[q][i + 1] = queue[q][j + 1]
        BY <1>4, <2>2, <3>1
      <4>2. i + 1 = j + 1
        BY <4>1, HeldFacts
      <4> QED
        BY <4>2
    <3>2. CASE q # k
      BY <1>4, <2>2, <3>2, HeldFacts
    <3> QED
      BY <3>1, <3>2
  <2>3. chosen'[q] # NoTask => chosen'[q][2] = q /\ pc'[chosen'[q]] \in {"start", "action", "finish"}
    <3>1. CASE q = k
      BY <1>1, <1>2, <3>1
    <3>2. CASE q # k
      BY <1>1, <1>2, <3>2, HeldFacts DEF HandedOut
    <3> QED
      BY <3>1, <3>2
  <2> QED
    BY <2>1, <2>2, <2>3 DEF QueueHolds, HandedOut
<1>7. TasksHeld'
  <2> SUFFICES ASSUME NEW u \in Items
               PROVE  /\ HandedOut(u)' => chosen'[u[2]] = u
                      /\ pc'[u] = "queued" => \E i \in 1..Len(queue'[u[2]]) : queue'[u[2]][i] = u
    BY DEF TasksHeld
  <2>1. u[2] \in Queues
    BY QueueFacts
  <2>2. HandedOut(u)' => chosen'[u[2]] = u
    <3>1. CASE u = p
      BY <1>2, <3>1
    <3>2. CASE u # p
      <4> SUFFICES ASSUME HandedOut(u) PROVE chosen'[u[2]] = u
        BY <1>1, <3>2 DEF HandedOut
      <4>1. chosen[u[2]] = u /\ u # NoTask
        BY <1>0, NoTaskAssumption DEF TasksHeld
      <4> QED
        BY <1>2, <2>1, <4>1
    <3> QED
      BY <3>1, <3>2
  <2>3. ASSUME pc'[u] = "queued" PROVE \E i \in 1..Len(queue'[u[2]]) : queue'[u[2]][i] = u
    <3>1. u # p /\ pc[u] = "queued"
      BY <1>1, <2>3
    <3>2. PICK i \in 1..Len(queue[u[2]]) : queue[u[2]][i] = u
      BY <1>0, <3>1 DEF TasksHeld
    <3>3. CASE u[2] = k
      <4>1. i # 1
        BY <3>1, <3>2, <3>3
      <4>2. i - 1 \in 1..Len(queue'[k]) /\ queue'[k][i - 1] = queue[k][(i - 1) + 1] /\ (i - 1) + 1 = i
        BY <1>3, <3>2, <3>3, <4>1
      <4> QED
        BY <3>2, <3>3, <4>2
    <3>4. CASE u[2] # k
      BY <1>3, <2>1, <3>2, <3>4
    <3> QED
      BY <3>3, <3>4
  <2> QED
    BY <2>2, <2>3
<1> QED
  BY <1>6, <1>7 DEF Held

LEMMA HeldFinish ==
  ASSUME QueuesConsistent, NEW t \in Items, pc[t] = "finish", chosen[t[2]] = t,
         queue' = queue, chosen' = [chosen EXCEPT ![t[2]] = NoTask], pc' = [pc EXCEPT ![t] = "ended"]
  PROVE  Held'
<1>0. /\ chosen \in [Queues -> Items \cup {NoTask}] /\ pc \in [Items -> Labels] /\ TasksHeld
      /\ t[2] \in Queues
  BY Parts, QueueFacts
<1>1. \A u \in Items : pc'[u] = IF u = t THEN "ended" ELSE pc[u]
  BY <1>0
<1>2. \A q \in Queues : chosen'[q] = IF q = t[2] THEN NoTask ELSE chosen[q]
  BY <1>0
<1>3. QueuesHold'
  <2> SUFFICES ASSUME NEW q \in Queues PROVE QueueHolds(q)'
    BY DEF QueuesHold
  <2>1. \A i \in 1..Len(queue[q]) : queue[q][i][2] = q /\ pc'[queue[q][i]] = "queued"
    BY <1>1, HeldFacts
  <2>2. chosen'[q] # NoTask => chosen'[q][2] = q /\ pc'[chosen'[q]] \in {"start", "action", "finish"}
    <3> SUFFICES ASSUME chosen'[q] # NoTask
                 PROVE  chosen'[q][2] = q /\ pc'[chosen'[q]] \in {"start", "action", "finish"}
      OBVIOUS
    <3>1. q # t[2] /\ chosen'[q] = chosen[q]
      BY <1>2
    <3>2. chosen[q] \in Items /\ chosen[q][2] = q /\ HandedOut(chosen[q])
      BY <3>1, HeldFacts
    <3> QED
      BY <1>1, <3>1, <3>2 DEF HandedOut
  <2>3. \A i, j \in 1..Len(queue[q]) : queue[q][i] = queue[q][j] => i = j
    BY HeldFacts
  <2> QED
    BY <2>1, <2>2, <2>3 DEF QueueHolds, HandedOut
<1>4. TasksHeld'
  <2> SUFFICES ASSUME NEW u \in Items
               PROVE  /\ HandedOut(u)' => chosen'[u[2]] = u
                      /\ pc'[u] = "queued" => \E i \in 1..Len(queue'[u[2]]) : queue'[u[2]][i] = u
    BY DEF TasksHeld
  <2>1. u[2] \in Queues /\ (HandedOut(u) => chosen[u[2]] = u)
    BY <1>0, QueueFacts DEF TasksHeld
  <2>2. HandedOut(u)' => chosen'[u[2]] = u
    BY <1>1, <1>2, <2>1 DEF HandedOut
  <2>3. pc'[u] = "queued" => pc[u] = "queued"
    BY <1>1
  <2> QED
    BY <1>0, <2>2, <2>3 DEF TasksHeld
<1> QED
  BY <1>3, <1>4 DEF Held

LEMMA HeldSame ==
  ASSUME QueuesConsistent, UNCHANGED <<queue, chosen>>,
         \A u \in Items : /\ pc'[u] = "queued" <=> pc[u] = "queued"
                          /\ HandedOut(u)' <=> HandedOut(u)
  PROVE  Held'
<1>0. TasksHeld
  BY Parts
<1>1. QueuesHold'
  <2> SUFFICES ASSUME NEW q \in Queues PROVE QueueHolds(q)'
    BY DEF QueuesHold
  <2>1. \A i \in 1..Len(queue[q]) : queue[q][i][2] = q /\ pc'[queue[q][i]] = "queued"
    BY HeldFacts
  <2>2. chosen[q] # NoTask => chosen[q][2] = q /\ pc'[chosen[q]] \in {"start", "action", "finish"}
    BY HeldFacts DEF HandedOut
  <2>3. \A i, j \in 1..Len(queue[q]) : queue[q][i] = queue[q][j] => i = j
    BY HeldFacts
  <2> QED
    BY <2>1, <2>2, <2>3 DEF QueueHolds, HandedOut
<1>2. TasksHeld'
  BY <1>0 DEF TasksHeld
<1> QED
  BY <1>1, <1>2 DEF Held

LEMMA HeldStep == ASSUME QueuesConsistent, [Next]_vars PROVE Held'
<1>0. pc \in [Items -> Labels]
  BY Parts
<1>1. CASE UNCHANGED <<queue, chosen, pc>>
  BY <1>1, HeldSame DEF HandedOut
<1>2. ASSUME NEW x \in Actions, Push(x) PROVE Held'
  <2>1. PICK k \in Queues :
           /\ <<x, k>> \in Items /\ pc[<<x, k>>] = "none" /\ pc' = [pc EXCEPT ![<<x, k>>] = "queued"]
           /\ queue' = [queue EXCEPT ![k] = Append(queue[k], <<x, k>>)] /\ UNCHANGED chosen
    BY <1>2, PushForm
  <2>2. <<x, k>>[2] = k
    OBVIOUS
  <2> QED
    BY <2>1, <2>2, HeldEnter
<1>3. ASSUME NEW a \in Actors, PickCommit(a) PROVE Held'
  <2>1. PICK k \in Queues :
           \/ UNCHANGED <<queue, chosen, pc>>
           \/ \E p \in Items :
                /\ chosen[k] = NoTask /\ queue[k] # <<>> /\ p = queue[k][1]
                /\ p[2] = k /\ pc[p] = "queued"
                /\ queue' = [queue EXCEPT ![k] = Tail(queue[k])]
                /\ chosen' = [chosen EXCEPT ![k] = p]
                /\ pc' = [pc EXCEPT ![p] = "start"]
    BY <1>3, PickCommitForm
  <2> QED
    BY <1>1, <2>1, HeldHandOut
<1>4. ASSUME NEW t \in Items, Finish(t) PROVE Held'
  BY <1>4, FinishForm, HeldFinish
<1>5. ASSUME NEW t \in Items, Skip(t) \/ Begin(t) \/ End(t) PROVE Held'
  <2>1. /\ UNCHANGED <<queue, chosen>> /\ pc[t] \in {"start", "action"}
        /\ \E to \in {"action", "finish"} : pc' = [pc EXCEPT ![t] = to]
    BY <1>5, StepForm
  <2>2. \A u \in Items : /\ u # t => pc'[u] = pc[u]
                         /\ pc'[t] \in {"action", "finish"}
    BY <1>0, <2>1
  <2> QED
    BY <2>1, <2>2, HeldSame DEF HandedOut
<1>6. ASSUME NEW r \in Resumers, NEW s, (s \in Copies /\ (Copy(r, s) \/ MoveAssign(r, s))) \/ Drop(r)
      PROVE  UNCHANGED <<queue, chosen, pc>>
  BY <1>6, ResumerForm
<1>7. ASSUME NEW a \in Actors, PickCheck(a) PROVE UNCHANGED <<queue, chosen, pc>>
  BY <1>7, PickCheckForm
<1>8. CASE UNCHANGED vars
  BY <1>1, <1>8 DEF vars, queueVars
<1> QED
  BY <1>1, <1>2, <1>3, <1>4, <1>5, <1>6, <1>7, <1>8, StepCases

(* The types follow from the rest.                                         *)
LEMMA TypeStep == ASSUME QueuesConsistent, [Next]_vars PROVE TypeOK'
<1> DEFINE QT == /\ queue' \in [Queues -> Seq(Items)]
                 /\ chosen' \in [Queues -> Items \cup {NoTask}] /\ pick' \in [Actors -> Picks]
           PT == /\ pc' \in [Items -> Labels] /\ pushedTo' \in [Actions -> 0..Limit]
                 /\ setToRun' \in [Actions -> BOOLEAN] /\ resumer' \in [Resumers -> 0..Limit]
                 /\ copiesLeft' \in 0..MaxCopies /\ ranIn' \in [Actions -> SUBSET Queues]
                 /\ stale' \subseteq Items
<1>0. /\ queue \in [Queues -> Seq(Items)] /\ pauseCount \in [Queues -> Nat]
      /\ chosen \in [Queues -> Items \cup {NoTask}] /\ pick \in [Actors -> Picks]
      /\ pc \in [Items -> Labels] /\ pushedTo \in [Actions -> 0..Limit]
      /\ setToRun \in [Actions -> BOOLEAN] /\ resumer \in [Resumers -> 0..Limit]
      /\ copiesLeft \in 0..MaxCopies /\ ranIn \in [Actions -> SUBSET Queues] /\ stale \subseteq Items
  BY Parts
<1>1. pauseCount' \in [Queues -> Nat]
  <2>1. \A k \in Queues : Cardinality(Pausers(k)') \in Nat
    <3> SUFFICES ASSUME NEW k \in Queues PROVE Cardinality(Pausers(k)') \in Nat
      OBVIOUS
    <3>1. IsFiniteSet(Resumers)
      BY LimitAssumption, FS_Subset, FS_Union DEF Resumers
    <3>2. Pausers(k)' \in SUBSET Resumers
      BY DEF Pausers
    <3> QED
      BY <3>1, <3>2, FS_Subset, FS_CardinalityType
  <2>2. \A k \in Queues : pauseCount'[k] \in Nat
    BY <2>1, PausesStep DEF PausesBalanced
  <2>3. pauseCount' = [k \in Queues |-> pauseCount'[k]]
    BY <1>0, StepCases DEF vars, queueVars, Push, PickCheck, PickCommit, Skip, Begin, End, Finish,
       Copy, MoveAssign, Drop, TQ!Enqueue, TQ!PickCheck, TQ!PickCommit, TQ!PauseQueue,
       TQ!ResumeQueue, TQ!FinishTask
  <2> QED
    BY <2>2, <2>3
<1>2. ASSUME NEW x \in Actions, Push(x) PROVE QT /\ PT
  <2>1. PICK k \in Queues :
           /\ pushedTo' = [pushedTo EXCEPT ![x] = k]
           /\ <<x, k>> \in Items /\ pc' = [pc EXCEPT ![<<x, k>>] = "queued"]
           /\ queue' = [queue EXCEPT ![k] = Append(queue[k], <<x, k>>)]
           /\ pick' = [pick EXCEPT ![<<x, 0>>] = TQ!PickOf(k, "check")]
           /\ UNCHANGED <<chosen, setToRun, resumer, copiesLeft, ranIn, stale>>
    BY <1>2, PushForm
  <2>2. Append(queue[k], <<x, k>>) \in Seq(Items) /\ TQ!PickOf(k, "check") \in Picks /\ k \in 0..Limit
    BY <1>0, <2>1, PickFacts, QueueFacts
  <2> QED
    BY <1>0, <2>1, <2>2 DEF Labels
<1>3. ASSUME NEW a \in Actors, PickCheck(a) PROVE QT /\ PT
  <2>1. /\ pick[a].queue \in Queues
        /\ pick' = [pick EXCEPT ![a] = IF pauseCount[pick[a].queue] # 0 THEN TQ!NoPick
                                       ELSE TQ!PickOf(pick[a].queue, "commit")]
        /\ UNCHANGED <<queue, chosen, pc, pushedTo, setToRun, resumer, copiesLeft, ranIn, stale>>
    BY <1>3, PickCheckForm
  <2>2. TQ!PickOf(pick[a].queue, "commit") \in Picks /\ TQ!NoPick \in Picks
    BY <2>1, PickFacts DEF Picks
  <2> QED
    BY <1>0, <2>1, <2>2
<1>4. ASSUME NEW a \in Actors, PickCommit(a) PROVE QT /\ PT
  <2>1. PICK k \in Queues :
           /\ pick' = [pick EXCEPT ![a] = TQ!NoPick]
           /\ UNCHANGED <<pushedTo, setToRun, resumer, copiesLeft, ranIn>>
           /\ \/ UNCHANGED <<queue, chosen, pc, stale>>
              \/ \E p \in Items :
                   /\ queue[k] # <<>>
                   /\ queue' = [queue EXCEPT ![k] = Tail(queue[k])]
                   /\ chosen' = [chosen EXCEPT ![k] = p]
                   /\ pc' = [pc EXCEPT ![p] = "start"]
                   /\ stale' = IF pauseCount[k] # 0 THEN stale \cup {p} ELSE stale
    BY <1>4, PickCommitForm
  <2>2. TQ!NoPick \in Picks /\ (queue[k] # <<>> => Tail(queue[k]) \in Seq(Items))
    BY <1>0 DEF Picks
  <2>3. pick' \in [Actors -> Picks]
    BY <1>0, <2>1, <2>2
  <2>4. CASE UNCHANGED <<queue, chosen, pc, stale>>
    BY <1>0, <2>1, <2>3, <2>4
  <2>5. ASSUME NEW p \in Items, queue[k] # <<>>,
               queue' = [queue EXCEPT ![k] = Tail(queue[k])],
               chosen' = [chosen EXCEPT ![k] = p],
               pc' = [pc EXCEPT ![p] = "start"],
               stale' = IF pauseCount[k] # 0 THEN stale \cup {p} ELSE stale
        PROVE  QT /\ PT
    <3>1. queue' \in [Queues -> Seq(Items)] /\ chosen' \in [Queues -> Items \cup {NoTask}]
      BY <1>0, <2>2, <2>5
    <3>2. pc' \in [Items -> Labels] /\ stale' \subseteq Items
      BY <1>0, <2>5 DEF Labels
    <3> QED
      BY <1>0, <2>1, <2>3, <3>1, <3>2
  <2> QED
    BY <2>1, <2>4, <2>5
<1>5. ASSUME NEW t \in Items, Skip(t) \/ Begin(t) \/ End(t) PROVE QT /\ PT
  <2>1. /\ UNCHANGED <<queue, chosen, pick, pushedTo, copiesLeft, stale>>
        /\ \E to \in {"action", "finish"} : pc' = [pc EXCEPT ![t] = to]
    BY <1>5, StepForm
  <2>2. pc' \in [Items -> Labels]
    BY <1>0, <2>1 DEF Labels
  <2>3. /\ setToRun' \in [Actions -> BOOLEAN] /\ resumer' \in [Resumers -> 0..Limit]
        /\ ranIn' \in [Actions -> SUBSET Queues]
    <3>1. CASE Begin(t)
      <4>1. t[1] \in Actions /\ t[2] \in Queues /\ t[2] \in 0..Limit
        BY QueueFacts
      <4>2. /\ setToRun' = [setToRun EXCEPT ![t[1]] = TRUE]
            /\ ranIn' = [ranIn EXCEPT ![t[1]] = ranIn[t[1]] \cup {t[2]}]
            /\ \/ resumer' = [resumer EXCEPT ![t[1]] = t[2]]
               \/ UNCHANGED resumer
        BY <3>1, BeginForm
      <4> QED
        BY <1>0, <4>1, <4>2
    <3>2. CASE ~Begin(t)
      BY <1>0, <1>5, <3>2, StepForm
    <3> QED
      BY <3>1, <3>2
  <2> QED
    BY <1>0, <2>1, <2>2, <2>3
<1>6. ASSUME NEW t \in Items, Finish(t) PROVE QT /\ PT
  <2>1. /\ t[2] \in Queues
        /\ pc' = [pc EXCEPT ![t] = "ended"]
        /\ chosen' = [chosen EXCEPT ![t[2]] = NoTask]
        /\ pick' = [pick EXCEPT ![t] = TQ!PickOf(t[2], "check")]
        /\ UNCHANGED <<queue, pauseCount, pushedTo, setToRun, resumer, copiesLeft, ranIn, stale>>
    BY <1>6, FinishForm
  <2>2. TQ!PickOf(t[2], "check") \in Picks
    BY <2>1, PickFacts
  <2> QED
    BY <1>0, <2>1, <2>2 DEF Labels
<1>7. ASSUME NEW r \in Resumers, NEW s, (s \in Copies /\ (Copy(r, s) \/ MoveAssign(r, s))) \/ Drop(r)
      PROVE  QT /\ PT
  <2>1. /\ UNCHANGED <<queue, chosen, pc, pushedTo, setToRun, ranIn, stale>>
        /\ copiesLeft' \in 0..MaxCopies /\ resumer[r] \in Queues
    BY <1>7, ResumerForm
  <2>2. \/ UNCHANGED pick
        \/ \E u \in Resumers : /\ resumer[u] \in Queues
                               /\ \E p \in {TQ!PickOf(resumer[u], "check"), pick[u]} :
                                    pick' = [pick EXCEPT ![u] = p]
    BY <1>7, ResumerForm
  <2>3. pick' \in [Actors -> Picks]
    <3>1. \A u \in Resumers : u \in Actors /\ (resumer[u] \in Queues => TQ!PickOf(resumer[u], "check") \in Picks)
      BY PickFacts DEF Actors
    <3> QED
      BY <1>0, <2>2, <3>1
  <2>4. \/ resumer' = [resumer EXCEPT ![s] = resumer[r]]
        \/ resumer' = [resumer EXCEPT ![s] = resumer[r], ![r] = 0]
        \/ resumer' = [resumer EXCEPT ![r] = 0]
    BY <1>7, ResumerForm
  <2>5. resumer' \in [Resumers -> 0..Limit]
    <3>1. resumer[r] \in 0..Limit /\ 0 \in 0..Limit
      BY <1>0, QueueFacts
    <3> QED
      BY <1>0, <2>4, <3>1
  <2> QED
    BY <1>0, <2>1, <2>3, <2>5
<1>8. ASSUME UNCHANGED vars PROVE QT /\ PT
  <2>1. UNCHANGED <<queue, pauseCount, chosen, pick, pc, pushedTo, setToRun,
                    resumer, copiesLeft, ranIn, stale>>
    BY <1>8 DEF vars, queueVars, history
  <2> QED
    BY <1>0, <2>1
<1>9. QT /\ PT
  <2> HIDE DEF QT, PT
  <2> QED
    BY <1>2, <1>3, <1>4, <1>5, <1>6, <1>7, <1>8, StepCases
<1> QED
  BY <1>1, <1>9 DEF TypeOK, TQ!QueuesTypeOK, Labels, Picks, Actors

(* No action begins in a queue that a Resumer pauses, but for what had     *)
(* been handed out in spite of it.                                         *)
LEMMA PauseExcludesStep ==
  ASSUME QueuesConsistent, PauseExcludesUnlessStale, [Next]_vars
  PROVE  PauseExcludesUnlessStale'
<1> SUFFICES ASSUME NEW t \in Items, pc'[t] = "start", ~setToRun'[t[1]], t \notin stale',
                    NEW u \in Resumers
             PROVE  resumer'[u] # t[2]
  BY DEF PauseExcludesUnlessStale
<1>0. /\ pc \in [Items -> Labels] /\ resumer \in [Resumers -> 0..Limit]
      /\ setToRun \in [Actions -> BOOLEAN] /\ t[1] \in Actions /\ t[2] \in Queues /\ t[2] # 0
      /\ PausesBalanced
  BY Parts, QueueFacts
<1>1. ASSUME pc[t] = "start", ~setToRun[t[1]], t \notin stale
      PROVE  /\ \A r \in Resumers : resumer[r] # t[2]
             /\ chosen[t[2]] = t
  BY <1>1, Parts DEF PauseExcludesUnlessStale, TasksHeld, HandedOut
<1>2. ASSUME UNCHANGED <<setToRun, resumer, stale>>, pc[t] = "start" PROVE resumer'[u] # t[2]
  BY <1>1, <1>2
<1>3. ASSUME NEW x \in Actions, Push(x) PROVE resumer'[u] # t[2]
  <2>1. PICK k \in Queues : /\ pc' = [pc EXCEPT ![<<x, k>>] = "queued"]
                            /\ UNCHANGED <<setToRun, resumer, stale>>
    BY <1>3, PushForm
  <2>2. pc[t] = "start"
    BY <1>0, <2>1
  <2> QED
    BY <1>2, <2>1, <2>2
<1>4. ASSUME NEW a \in Actors, PickCommit(a) PROVE resumer'[u] # t[2]
  <2>1. PICK k \in Queues :
           /\ UNCHANGED <<setToRun, resumer>>
           /\ \/ UNCHANGED <<pc, stale>>
              \/ \E p \in Items : /\ p[2] = k /\ pc' = [pc EXCEPT ![p] = "start"]
                                  /\ stale' = IF pauseCount[k] # 0 THEN stale \cup {p} ELSE stale
    BY <1>4, PickCommitForm
  <2>2. CASE UNCHANGED <<pc, stale>>
    BY <1>2, <2>1, <2>2
  <2>3. ASSUME NEW p \in Items, p[2] = k, pc' = [pc EXCEPT ![p] = "start"],
               stale' = IF pauseCount[k] # 0 THEN stale \cup {p} ELSE stale
        PROVE  resumer'[u] # t[2]
    <3>1. CASE p = t
      <4>1. pauseCount[t[2]] = 0
        BY <2>3, <3>1
      <4>2. Pausers(t[2]) = {}
        BY <1>0, <4>1, PausersFacts, FS_EmptySet DEF PausesBalanced
      <4> QED
        BY <2>1, <4>2 DEF Pausers
    <3>2. CASE p # t
      <4>1. pc[t] = "start" /\ t \notin stale
        BY <1>0, <2>3, <3>2
      <4> QED
        BY <1>1, <2>1, <4>1
    <3> QED
      BY <3>1, <3>2
  <2> QED
    BY <2>1, <2>2, <2>3
<1>5. ASSUME NEW v \in Items, Skip(v) \/ Begin(v) \/ End(v) PROVE resumer'[u] # t[2]
  <2>1. /\ UNCHANGED stale /\ pc[v] \in {"start", "action"}
        /\ \E to \in {"action", "finish"} : pc' = [pc EXCEPT ![v] = to]
    BY <1>5, StepForm
  <2>2. v # t /\ pc[t] = "start"
    BY <1>0, <2>1
  <2>3. CASE ~Begin(v)
    BY <1>2, <1>5, <2>1, <2>2, <2>3, StepForm
  <2>4. CASE Begin(v)
    <3>1. /\ v[1] \in Actions /\ v[2] \in Queues
          /\ setToRun' = [setToRun EXCEPT ![v[1]] = TRUE]
          /\ \/ v[1] \in Resumers /\ resumer' = [resumer EXCEPT ![v[1]] = v[2]]
             \/ UNCHANGED resumer
      BY <2>4, BeginForm
    <3>2. ~setToRun[t[1]]
      BY <1>0, <3>1
    <3>3. chosen[t[2]] = t /\ resumer[u] # t[2]
      BY <1>1, <2>1, <2>2, <3>2
    <3>4. chosen[v[2]] = v
      BY <2>1, Parts DEF TasksHeld, HandedOut
    <3>5. v[2] # t[2]
      BY <2>2, <3>3, <3>4
    <3> QED
      BY <1>0, <3>1, <3>3, <3>5
  <2> QED
    BY <2>3, <2>4
<1>6. ASSUME NEW v \in Items, Finish(v) PROVE resumer'[u] # t[2]
  <2>1. pc' = [pc EXCEPT ![v] = "ended"] /\ UNCHANGED <<setToRun, resumer, stale>>
    BY <1>6, FinishForm
  <2>2. pc[t] = "start"
    BY <1>0, <2>1
  <2> QED
    BY <1>2, <2>1, <2>2
<1>7. ASSUME NEW r \in Resumers, NEW s, (s \in Copies /\ (Copy(r, s) \/ MoveAssign(r, s))) \/ Drop(r)
      PROVE  resumer'[u] # t[2]
  <2>1. /\ UNCHANGED <<pc, setToRun, stale>>
        /\ \/ resumer' = [resumer EXCEPT ![s] = resumer[r]]
           \/ resumer' = [resumer EXCEPT ![s] = resumer[r], ![r] = 0]
           \/ resumer' = [resumer EXCEPT ![r] = 0]
    BY <1>7, ResumerForm
  <2>2. resumer[r] # t[2] /\ resumer[u] # t[2]
    BY <1>1, <2>1
  <2> QED
    BY <1>0, <2>1, <2>2
<1>8. ASSUME NEW a \in Actors, PickCheck(a) PROVE resumer'[u] # t[2]
  <2>1. UNCHANGED <<pc, setToRun, resumer, stale>>
    BY <1>8, PickCheckForm
  <2> QED
    BY <1>2, <2>1
<1>9. CASE UNCHANGED vars
  <2>1. UNCHANGED <<pc, setToRun, resumer, stale>>
    BY <1>9 DEF vars, history
  <2> QED
    BY <1>2, <2>1
<1> QED
  BY <1>3, <1>4, <1>5, <1>6, <1>7, <1>8, <1>9, StepCases

-----------------------------------------------------------------------------
(* The invariant holds before anything is pushed, and always.              *)
LEMMA InitInvariant == Init => QueuesConsistent /\ PauseExcludesUnlessStale
<1> SUFFICES ASSUME Init PROVE QueuesConsistent /\ PauseExcludesUnlessStale
  OBVIOUS
<1>0. /\ queue = [q \in Queues |-> <<>>] /\ pauseCount = [q \in Queues |-> Cardinality(Pausers(q))]
      /\ chosen = [q \in Queues |-> NoTask] /\ pick = [a \in Actors |-> TQ!NoPick]
      /\ pc = [t \in Items |-> "none"] /\ pushedTo = [x \in Actions |-> 0]
      /\ setToRun = [x \in Actions |-> FALSE]
      /\ resumer \in [Resumers -> 0..Limit] /\ \A x \in Pausing : resumer[x] = 0
      /\ copiesLeft = MaxCopies /\ ranIn = [x \in Actions |-> {}] /\ stale = {}
  BY DEF Init, Actors, Pausers
<1>1. TypeOK
  <2>1. \A k \in Queues : Cardinality(Pausers(k)) \in Nat
    BY PausersFacts
  <2>2. TQ!QueuesTypeOK(Items)
    BY <1>0, <2>1 DEF TQ!QueuesTypeOK, Actors
  <2> QED
    BY <1>0, <2>2, LimitAssumption DEF TypeOK
<1>2. PausesBalanced
  BY <1>0 DEF PausesBalanced
<1>3. NoQueueStuck
  BY <1>0 DEF NoQueueStuck, TQ!Stuck
<1>4. ASSUME NEW x \in Actions PROVE DoneOnce(x)
  BY <1>0, QueueFacts DEF DoneOnce, Resumers
<1>5. QueuesHold
  BY <1>0 DEF QueuesHold, QueueHolds
<1>6. TasksHeld /\ PauseExcludesUnlessStale
  BY <1>0 DEF TasksHeld, HandedOut, PauseExcludesUnlessStale
<1> QED
  BY <1>1, <1>2, <1>3, <1>4, <1>5, <1>6 DEF QueuesConsistent

LEMMA NextInvariant ==
  QueuesConsistent /\ PauseExcludesUnlessStale /\ [Next]_vars
    => (QueuesConsistent /\ PauseExcludesUnlessStale)'
<1> SUFFICES ASSUME QueuesConsistent, PauseExcludesUnlessStale, [Next]_vars
             PROVE  (QueuesConsistent /\ PauseExcludesUnlessStale)'
  OBVIOUS
<1>1. TypeOK' /\ PausesBalanced' /\ NoQueueStuck' /\ PauseExcludesUnlessStale'
  BY TypeStep, PausesStep, StuckStep, PauseExcludesStep
<1>2. QueuesHold' /\ TasksHeld'
  BY HeldStep DEF Held
<1>3. \A x \in Actions : DoneOnce(x)'
  BY DoneOnceStep
<1> QED
  BY <1>1, <1>2, <1>3 DEF QueuesConsistent

LEMMA InvariantAlways == Spec => [](QueuesConsistent /\ PauseExcludesUnlessStale)
BY InitInvariant, NextInvariant, PTL DEF Spec

(* A queue is paused once for each live Resumer that points to it, it      *)
(* never waits in vain, and each item is where its action says.            *)
THEOREM QueuesInvariant == Spec => []QueuesConsistent
BY InvariantAlways, PTL

(* While a Resumer of a queue is alive no later action begins in that      *)
(* queue, unless the queue handed it out before it noticed the pause.      *)
THEOREM PauseInvariant == Spec => []PauseExcludesUnlessStale
BY InvariantAlways, PTL

(* An action is done in one queue only, and it has been done when all its  *)
(* tasks are over; no two are ever done in the same queue at once.         *)
THEOREM DoneOnceInvariant == Spec => []DoneOnceOnePerQueue
<1>1. QueuesConsistent => DoneOnceOnePerQueue
  <2> SUFFICES ASSUME QueuesConsistent PROVE DoneOnceOnePerQueue
    OBVIOUS
  <2>1. ASSUME NEW x \in Actions
        PROVE  /\ Cardinality(ranIn[x]) <= 1
               /\ (\A k \in Queues : pc[<<x, k>>] = "ended") => ranIn[x] # {}
    <3>1. DoneOnce(x) /\ setToRun[x] \in BOOLEAN
      BY Parts
    <3>2. ranIn[x] = {} \/ \E k \in Queues : ranIn[x] = {k}
      BY <3>1 DEF DoneOnce
    <3>3. Cardinality(ranIn[x]) \in {0, 1}
      BY <3>2, FS_EmptySet, FS_Singleton
    <3>4. (\A k \in Queues : pc[<<x, k>>] = "ended") => setToRun[x]
      BY <3>1, QueueFacts DEF DoneOnce
    <3> QED
      BY <3>1, <3>3, <3>4 DEF DoneOnce
  <2>2. ASSUME NEW k \in Queues PROVE Cardinality({x \in Actions : RunningIn(x, k)}) <= 1
    <3> DEFINE S == {x \in Actions : RunningIn(x, k)}
    <3>1. ASSUME NEW x \in S, NEW y \in S PROVE x = y
      <4>1. <<x, k>> \in Items /\ <<y, k>> \in Items
        BY QueueFacts
      <4>2. chosen[k] = <<x, k>> /\ chosen[k] = <<y, k>>
        BY <4>1, Parts DEF TasksHeld, HandedOut, RunningIn
      <4> QED
        BY <4>2
    <3>2. S = {} \/ \E x \in S : S = {x}
      BY <3>1
    <3>3. Cardinality(S) \in {0, 1}
      BY <3>2, FS_EmptySet, FS_Singleton
    <3> QED
      BY <3>3
  <2> QED
    BY <2>1, <2>2 DEF DoneOnceOnePerQueue
<1> QED
  BY <1>1, InvariantAlways, PTL
=============================================================================
