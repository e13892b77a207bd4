--------------------- MODULE SerialTaskQueueChainProofs ---------------------
(***************************************************************************)
(* Proofs about SerialTaskQueueChain, for any finite set of actions, any   *)
(* queues and any chains that are sorted the same way.                     *)
(***************************************************************************)
EXTENDS SerialTaskQueueChain, FiniteSetTheorems, TLAPS

-----------------------------------------------------------------------------
(* Lemmas about the operators of the model.                                *)

(* A chain is not empty and has each of its queues once.                   *)
LEMMA ChainFacts ==
  ASSUME NEW x \in Actions
  PROVE  /\ Last(x) \in Nat \ {0}
         /\ \A i \in 1..Last(x) : Chain[x][i] \in Queues
         /\ \A i, j \in 1..Last(x) : Chain[x][i] = Chain[x][j] => i = j
<1>1. Chain[x] \in Seq(Queues) /\ Chain[x] # <<>>
  BY ChainAssumption
<1>2. Last(x) \in Nat \ {0} /\ \A i \in 1..Last(x) : Chain[x][i] \in Queues
  BY <1>1 DEF Last
<1>3. ASSUME NEW i \in 1..Last(x), NEW j \in 1..Last(x), Chain[x][i] = Chain[x][j]
      PROVE  i = j
  <2>1. Chain[x][i] \in Nat
    BY <1>2, ChainAssumption
  <2>2. (i < j => Chain[x][i] < Chain[x][j]) /\ (j < i => Chain[x][j] < Chain[x][i])
    BY ChainAssumption DEF Last
  <2> QED
    BY <1>2, <1>3, <2>1, <2>2
<1> QED
  BY <1>2, <1>3

(* The tasks are the pairs of an action and a place in its chain.          *)
LEMMA TaskPairs ==
  /\ \A x \in Actions : \A i \in 0..Last(x) : <<x, i>> \in Tasks
  /\ \A t \in Tasks : /\ t[1] \in Actions /\ t[2] \in 0..Last(t[1])
                      /\ t = <<t[1], t[2]>>
                      /\ t[2] # 0 => QueueOf(t) \in Queues
<1>1. ASSUME NEW x \in Actions, NEW i \in 0..Last(x) PROVE <<x, i>> \in Tasks
  BY DEF Tasks, Last
<1>2. ASSUME NEW t \in Tasks
      PROVE  t[1] \in Actions /\ t[2] \in 0..Last(t[1]) /\ t = <<t[1], t[2]>>
  <2>1. PICK x \in Actions : t \in {x} \X (0..Len(Chain[x]))
    BY DEF Tasks
  <2> QED
    BY <2>1 DEF Last
<1>3. ASSUME NEW t \in Tasks, t[2] # 0 PROVE QueueOf(t) \in Queues
  <2>1. t[1] \in Actions /\ t[2] \in 1..Last(t[1])
    BY <1>2, <1>3, ChainFacts
  <2> QED
    BY <2>1, ChainFacts DEF QueueOf
<1> QED
  BY <1>1, <1>2, <1>3

(* A part of pickNextTask() after the check either hands out the first     *)
(* task of the queue or changes nothing.                                   *)
LEMMA PickCommitForm ==
  ASSUME TypeOK, QueuesHold, NEW t \in Tasks, PickCommit(t)
  PROVE  \E q \in Queues :
           /\ pick[t].stage = "commit" /\ pick[t].queue = q
           /\ pick' = [pick EXCEPT ![t] = TQ!NoPick]
           /\ UNCHANGED <<pauseCount, toResume, outstanding, pushOrder, startOrder>>
           /\ \/ /\ chosen[q] # NoTask \/ queue[q] = <<>>
                 /\ UNCHANGED <<queue, chosen, pc, stale>>
              \/ \E p \in Tasks :
                   /\ chosen[q] = NoTask /\ queue[q] # <<>> /\ p = queue[q][1]
                   /\ p[2] # 0 /\ QueueOf(p) = q /\ pc[p] = "queued"
                   /\ queue' = [queue EXCEPT ![q] = Tail(queue[q])]
                   /\ chosen' = [chosen EXCEPT ![q] = p]
                   /\ pc' = [pc EXCEPT ![p] = "start"]
                   /\ stale' = IF pauseCount[q] # 0 THEN stale \cup {p} ELSE stale
<1> DEFINE q == pick[t].queue
<1>1. q \in Queues /\ queue[q] \in Seq(Tasks) /\ pick[t].stage = "commit"
  BY DEF TypeOK, TQ!QueuesTypeOK, PickCommit, TQ!PickCommit, TQ!NoPick
<1>2. /\ pick' = [pick EXCEPT ![t] = TQ!NoPick]
      /\ UNCHANGED <<pauseCount, toResume, outstanding, pushOrder, startOrder>>
  BY DEF PickCommit, TQ!PickCommit
<1>3. CASE chosen[q] = NoTask /\ queue[q] # <<>>
  <2> DEFINE p == Head(queue[q])
  <2>1. p \in Tasks /\ p = queue[q][1] /\ 1 \in 1..Len(queue[q])
    BY <1>1, <1>3
  <2>2. p # NoTask
    BY <2>1, NoTaskAssumption
  <2>3. p[2] # 0 /\ QueueOf(p) = q /\ pc[p] = "queued"
    BY <1>1, <2>1 DEF QueuesHold, QueueHolds
  <2>4. TQ!Picked(t) = p
    BY <1>3 DEF TQ!Picked
  <2>5. /\ queue' = [queue EXCEPT ![q] = Tail(queue[q])]
        /\ chosen' = [chosen EXCEPT ![q] = p]
        /\ pc' = [pc EXCEPT ![p] = "start"]
        /\ stale' = IF pauseCount[q] # 0 THEN stale \cup {p} ELSE stale
    BY <2>2, <2>3, <2>4 DEF PickCommit, TQ!PickCommit, Goto
  <2> QED
    BY <1>1, <1>2, <1>3, <2>1, <2>3, <2>5
<1>4. CASE ~(chosen[q] = NoTask /\ queue[q] # <<>>)
  <2>1. TQ!Picked(t) = NoTask
    BY <1>4 DEF TQ!Picked
  <2> QED
    BY <1>1, <1>2, <1>4, <2>1 DEF PickCommit, TQ!PickCommit
<1> QED
  BY <1>3, <1>4

-----------------------------------------------------------------------------
(* The invariant holds before anything is pushed.                          *)
LEMMA InitConsistent == Init => ChainConsistent
<1> SUFFICES ASSUME Init PROVE ChainConsistent
  OBVIOUS
<1>0. /\ queue = [q \in Queues |-> <<>>] /\ pauseCount = [q \in Queues |-> 0]
      /\ chosen = [q \in Queues |-> NoTask] /\ pick = [t \in Tasks |-> TQ!NoPick]
      /\ pc = [t \in Tasks |-> IF t[2] = 0 THEN "push" ELSE "none"]
      /\ toResume = [x \in Actions |-> 0] /\ outstanding = [c \in Chains |-> 0]
      /\ pushOrder = <<>> /\ startOrder = <<>> /\ stale = {}
  BY DEF Init, TQ!QueuesInit
<1>1. \A t \in Tasks : pc[t] = IF t[2] = 0 THEN "push" ELSE "none"
  BY <1>0
<1>2. \A x \in Actions : /\ pc[<<x, 0>>] = "push"
                         /\ \A i \in 1..Last(x) : pc[<<x, i>>] = "none"
  BY <1>1, TaskPairs, ChainFacts
<1>3. CountsOutstanding
  <2>1. \A c \in Chains : Outstanding(c) = {}
    BY <1>2 DEF Outstanding
  <2> QED
    BY <1>0, <2>1, FS_EmptySet DEF CountsOutstanding
<1>4. PausesBalanced
  <2>1. \A q \in Queues : Holders(q) = {}
    BY <1>2 DEF Holders, Holds
  <2> QED
    BY <1>0, <2>1, FS_EmptySet DEF PausesBalanced
<1>5. TypeOK
  <2>1. TQ!QueuesTypeOK(Tasks)
    BY <1>0 DEF TQ!QueuesTypeOK
  <2>2. Cardinality(Actions) \in Nat
    BY ChainAssumption, FS_CardinalityType
  <2>3. \A x \in Actions : toResume[x] < Last(x)
    BY <1>0, ChainFacts
  <2> QED
    BY <1>0, <2>1, <2>2, <2>3 DEF TypeOK, Labels
<1>6. InStages
  <2> SUFFICES ASSUME NEW x \in Actions, NEW i \in 0..Last(x) PROVE InStage(x, i)
    BY DEF InStages
  <2>1. CASE i = 0
    BY <1>2, <2>1 DEF InStage
  <2>2. CASE i # 0
    <3>1. i \in 1..Last(x) /\ (i - 1 = 0 \/ i - 1 \in 1..Last(x))
      BY <2>2, ChainFacts
    <3>2. pc[<<x, i>>] = "none" /\ ~Passed(<<x, i - 1>>)
      BY <1>2, <3>1 DEF Passed
    <3> QED
      BY <2>2, <3>2 DEF InStage
  <2> QED
    BY <2>1, <2>2
<1>7. NoQueueStuck /\ QueuesHold /\ NoneLost
  <2>1. NoQueueStuck /\ QueuesHold
    BY <1>0 DEF NoQueueStuck, TQ!Stuck, QueuesHold, QueueHolds
  <2> QED
    BY <1>1, <2>1 DEF NoneLost
<1>8. ChosenHandedOut /\ StaleIfBoth
  <2>1. \A t \in Tasks : t[2] # 0 => pc[t] = "none" /\ ~Holds(t[1], t[2])
    BY <1>1, <1>2, TaskPairs, ChainFacts DEF Holds
  <2> QED
    BY <1>0, <2>1 DEF ChosenHandedOut, StaleIfBoth, HandedOut
<1>9. ChainOrder
  BY <1>0 DEF ChainOrder, PushedBefore
<1>10. InPushOrder
  <2>1. \A x \in Actions : pc[<<x, Last(x)>>] = "none"
    <3> SUFFICES ASSUME NEW x \in Actions PROVE pc[<<x, Last(x)>>] = "none"
      OBVIOUS
    <3>1. Last(x) \in 1..Last(x)
      BY ChainFacts
    <3> QED
      BY <1>2, <3>1
  <2> QED
    BY <1>0, <1>2, <2>1 DEF InPushOrder, PushedBefore
<1> QED
  BY <1>3, <1>4, <1>5, <1>6, <1>7, <1>8, <1>9, <1>10 DEF ChainConsistent

-----------------------------------------------------------------------------
(* Every step keeps every part of the invariant.                           *)

(* A task that is queued or handed out is at a place of its chain.         *)
Place(t) == /\ t[1] \in Actions /\ t[2] \in 1..Last(t[1]) /\ t = <<t[1], t[2]>>
            /\ pc[t] \in {"action", "resume"} => t[2] = Last(t[1])
            /\ pc[t] = "passDown" => t[2] < Last(t[1])

LEMMA PlaceOf ==
  ASSUME ChainConsistent, NEW t \in Tasks, pc[t] \notin {"push", "ended", "none"}
  PROVE  Place(t)
<1>1. t[1] \in Actions /\ t[2] \in 0..Last(t[1]) /\ t = <<t[1], t[2]>>
  BY TaskPairs
<1>2. Last(t[1]) \in Nat \ {0}
  BY <1>1, ChainFacts
<1>3. t[2] # 0
  <2>1. InStage(t[1], t[2])
    BY <1>1 DEF ChainConsistent, InStages
  <2> QED
    BY <1>1, <2>1 DEF InStage
<1>4. t[2] \in 1..Last(t[1])
  BY <1>1, <1>2, <1>3
<1>5. pc[<<t[1], t[2]>>] = pc[t]
  BY <1>1
<1>6. pc[t] \in {"none", "queued", "start", "finish", "ended"} \cup
                  (IF t[2] < Last(t[1]) THEN {"passDown"} ELSE {"action", "resume"})
  <2>1. InStage(t[1], t[2])
    BY <1>1 DEF ChainConsistent, InStages
  <2> QED
    BY <1>3, <1>5, <2>1 DEF InStage
<1> QED
  BY <1>1, <1>2, <1>4, <1>6 DEF Place

(* What a task does next, once it is in its queue.                         *)
Moves(x, i, from, to) ==
  \/ from = "queued" /\ to = "start"
  \/ from = "start"  /\ to = IF i < Last(x) THEN "passDown" ELSE "action"
  \/ from = "action" /\ to = "resume" /\ i = Last(x)
  \/ from = "resume" /\ to = "finish" /\ i = Last(x) /\ toResume[x] = 0
  \/ from = "finish" /\ to = "ended"

(* A step moves one task on, or enters an action into its next queue.      *)
LEMMA StepMoves ==
  ASSUME ChainConsistent, [Next]_vars
  PROVE  \/ pc' = pc
         \/ \E x \in Actions : \E i \in 1..Last(x) : \E to \in Labels :
              /\ Moves(x, i, pc[<<x, i>>], to)
              /\ pc' = [pc EXCEPT ![<<x, i>>] = to]
         \/ \E x \in Actions : \E i \in 0..(Last(x) - 1) :
              /\ IF i = 0 THEN pc[<<x, i>>] = "push" ELSE pc[<<x, i>>] = "passDown"
              /\ pc' = [pc EXCEPT ![<<x, i>>] = IF i = 0 THEN "ended" ELSE "finish",
                                  ![<<x, i + 1>>] = "queued"]
<1> USE DEF ChainConsistent, TypeOK, At, Goto
<1> DEFINE Moved == \E x \in Actions : \E i \in 1..Last(x) : \E to \in Labels :
                      /\ Moves(x, i, pc[<<x, i>>], to)
                      /\ pc' = [pc EXCEPT ![<<x, i>>] = to]
<1>0. ASSUME NEW t \in Tasks, pc[t] \notin {"push", "ended", "none"}
      PROVE  Place(t)
  BY <1>0, PlaceOf
<1>1. ASSUME NEW t \in Tasks, NEW to \in Labels, pc' = [pc EXCEPT ![t] = to],
             pc[t] \notin {"push", "ended", "none"}, Moves(t[1], t[2], pc[t], to)
      PROVE  Moved
  BY <1>0, <1>1 DEF Place
<1> HIDE DEF Moved
<1>2. ASSUME NEW x \in Actions, Push(x)
      PROVE  /\ pc[<<x, 0>>] = "push" /\ 0 \in 0..(Last(x) - 1)
             /\ pc' = [pc EXCEPT ![<<x, 0>>] = "ended", ![<<x, 0 + 1>>] = "queued"]
  BY <1>2, ChainFacts DEF Push
<1>3. ASSUME NEW t \in Tasks, PickCommit(t) PROVE pc' = pc \/ Moved
  <2>1. \/ pc' = pc
        \/ \E p \in Tasks : pc[p] = "queued" /\ pc' = [pc EXCEPT ![p] = "start"]
    BY <1>3, PickCommitForm
  <2> QED
    BY <1>1, <2>1 DEF Moves, Labels, Place
<1>4. ASSUME NEW t \in Tasks, PausePrevious(t) PROVE Moved
  <2>1. pc[t] = "start" /\ t[2] < Last(t[1]) /\ pc' = [pc EXCEPT ![t] = "passDown"]
    BY <1>4 DEF PausePrevious
  <2> QED
    BY <1>1, <2>1 DEF Moves, Labels, Place
<1>5. ASSUME NEW t \in Tasks, PassDown(t)
      PROVE  \E x \in Actions : \E i \in 1..(Last(x) - 1) :
               /\ pc[<<x, i>>] = "passDown"
               /\ pc' = [pc EXCEPT ![<<x, i>>] = "finish", ![<<x, i + 1>>] = "queued"]
  <2>1. pc[t] = "passDown" /\ pc' = [pc EXCEPT ![t] = "finish", ![<<t[1], t[2] + 1>>] = "queued"]
    BY <1>5 DEF PassDown
  <2>2. /\ t[1] \in Actions /\ t[2] \in 1..Last(t[1]) /\ t = <<t[1], t[2]>>
        /\ t[2] < Last(t[1])
    BY <1>0, <2>1 DEF Place
  <2>3. t[2] \in 1..(Last(t[1]) - 1)
    BY <2>2, ChainFacts
  <2> QED
    BY <2>1, <2>2, <2>3
<1>6. ASSUME NEW t \in Tasks, BeginAction(t) PROVE Moved
  <2>1. pc[t] = "start" /\ t[2] = Last(t[1]) /\ pc' = [pc EXCEPT ![t] = "action"]
    BY <1>6 DEF BeginAction
  <2>2. ~(t[2] < Last(t[1]))
    BY <2>1, TaskPairs, ChainFacts
  <2>3. Moves(t[1], t[2], pc[t], "action")
    BY <2>1, <2>2 DEF Moves
  <2> QED
    BY <1>1, <2>1, <2>3 DEF Labels
<1>7. ASSUME NEW t \in Tasks, EndAction(t) PROVE Moved
  <2>1. pc[t] = "action" /\ pc' = [pc EXCEPT ![t] = "resume"]
    BY <1>7 DEF EndAction
  <2> QED
    BY <1>0, <1>1, <2>1 DEF Moves, Labels, Place
<1>8. ASSUME NEW t \in Tasks, Uncount(t) PROVE Moved
  <2>1. pc[t] = "resume" /\ toResume[t[1]] = 0 /\ pc' = [pc EXCEPT ![t] = "finish"]
    BY <1>8 DEF Uncount
  <2> QED
    BY <1>0, <1>1, <2>1 DEF Moves, Labels, Place
<1>9. ASSUME NEW t \in Tasks, Finish(t) PROVE Moved
  <2>1. pc[t] = "finish" /\ pc' = [pc EXCEPT ![t] = "ended"]
    BY <1>9 DEF Finish
  <2> QED
    BY <1>1, <2>1 DEF Moves, Labels, Place
<1>10. ASSUME NEW t \in Tasks, PickCheck(t) \/ ResumeNext(t) PROVE pc' = pc
  BY <1>10 DEF PickCheck, ResumeNext
<1>11. ASSUME UNCHANGED vars PROVE pc' = pc
  BY <1>11 DEF vars
<1>12. ASSUME NEW x \in Actions, NEW i \in 1..(Last(x) - 1)
       PROVE  i \in 0..(Last(x) - 1) /\ i # 0
  BY <1>12, ChainFacts
<1> QED
  <2>1. CASE \E x \in Actions : Push(x)
    BY <1>2, <2>1
  <2>2. CASE \E t \in Tasks : PassDown(t)
    BY <1>5, <1>12, <2>2
  <2>3. CASE \E t \in Tasks : Step(t) /\ ~PassDown(t)
    BY <1>3, <1>4, <1>6, <1>7, <1>8, <1>9, <1>10, <2>3 DEF Step, Moved
  <2> QED
    BY <1>11, <2>1, <2>2, <2>3 DEF Next, AtRest

(* An action stays at one place of its chain.                              *)
LEMMA StagesStep == ChainConsistent /\ [Next]_vars => InStages'
<1> SUFFICES ASSUME ChainConsistent, [Next]_vars, NEW y \in Actions, NEW j \in 0..Last(y)
             PROVE  InStage(y, j)'
  BY DEF InStages
<1>1. /\ Last(y) \in Nat \ {0}
      /\ pc \in [Tasks -> Labels]
      /\ \A x \in Actions : \A k \in 0..Last(x) : <<x, k>> \in Tasks
  BY ChainFacts, TaskPairs DEF ChainConsistent, TypeOK
<1>2. InStage(y, j)
  BY DEF ChainConsistent, InStages
<1>3. CASE pc' = pc
  BY <1>2, <1>3 DEF Passed, InStage
<1>4. ASSUME NEW x \in Actions, NEW i \in 1..Last(x), NEW to \in Labels,
             Moves(x, i, pc[<<x, i>>], to), pc' = [pc EXCEPT ![<<x, i>>] = to]
      PROVE  InStage(y, j)'
  <2>1. \A k \in 0..Last(y) : pc'[<<y, k>>] = IF y = x /\ k = i THEN to ELSE pc[<<y, k>>]
    BY <1>1, <1>4
  <2>2. \A k \in 0..Last(y) : Passed(<<y, k>>) => Passed(<<y, k>>)'
    BY <2>1, <1>4 DEF Passed, Moves
  <2>3. \A k \in 0..Last(y) : k < Last(y) /\ Passed(<<y, k>>)' => Passed(<<y, k>>)
    BY <1>1, <2>1, <1>4 DEF Passed, Moves
  <2>4. pc'[<<y, j>>] = "none" <=> pc[<<y, j>>] = "none"
    BY <2>1, <1>4 DEF Moves
  <2>5. j = 0 => pc'[<<y, j>>] \in {"push", "ended"}
    BY <1>1, <1>2, <2>1 DEF InStage
  <2>6. j # 0 => pc'[<<y, j>>] \in {"none", "queued", "start", "finish", "ended"} \cup
                       (IF j < Last(y) THEN {"passDown"} ELSE {"action", "resume"})
    BY <1>1, <1>2, <2>1, <1>4 DEF Moves, InStage
  <2>7. j # 0 => j - 1 \in 0..Last(y) /\ j - 1 < Last(y) /\ \A k \in 0..(j - 1) : k \in 0..Last(y)
    BY <1>1
  <2> QED
    BY <1>2, <2>2, <2>3, <2>4, <2>5, <2>6, <2>7 DEF InStage
<1>5. ASSUME NEW x \in Actions, NEW i \in 0..(Last(x) - 1),
             IF i = 0 THEN pc[<<x, i>>] = "push" ELSE pc[<<x, i>>] = "passDown",
             pc' = [pc EXCEPT ![<<x, i>>] = IF i = 0 THEN "ended" ELSE "finish",
                              ![<<x, i + 1>>] = "queued"]
      PROVE  InStage(y, j)'
  <2>1. i \in 0..Last(x) /\ i + 1 \in 1..Last(x) /\ i + 1 \in 0..Last(x) /\ (i + 1) - 1 = i
    BY <1>1, ChainFacts
  <2>2. \A k \in 0..Last(y) :
          pc'[<<y, k>>] = IF y = x /\ k = i + 1 THEN "queued"
                          ELSE IF y = x /\ k = i THEN IF i = 0 THEN "ended" ELSE "finish"
                          ELSE pc[<<y, k>>]
    BY <1>1, <1>5, <2>1
  <2>3. ~Passed(<<x, i>>) /\ pc[<<x, i>>] # "none"
    BY <1>5 DEF Passed
  <2>4. pc[<<x, i + 1>>] = "none"
    <3>1. InStage(x, i + 1) /\ i + 1 # 0
      BY <2>1 DEF ChainConsistent, InStages
    <3> QED
      BY <2>1, <2>3, <3>1 DEF InStage
  <2>5. \A k \in 0..Last(y) :
          Passed(<<y, k>>)' <=> Passed(<<y, k>>) \/ (y = x /\ k = i)
    BY <2>1, <2>2, <2>4 DEF Passed
  <2>6. i # 0 => i \in 1..Last(x) /\ \A k \in 0..(i - 1) : Passed(<<x, k>>)
    <3>1. InStage(x, i)
      BY <2>1 DEF ChainConsistent, InStages
    <3> QED
      BY <2>1, <2>3, <3>1 DEF InStage
  <2>7. j = 0 => pc'[<<y, j>>] \in {"push", "ended"}
    BY <1>2, <2>1, <2>2 DEF InStage
  <2>8. j # 0 => pc'[<<y, j>>] \in {"none", "queued", "start", "finish", "ended"} \cup
                       (IF j < Last(y) THEN {"passDown"} ELSE {"action", "resume"})
    BY <1>1, <1>2, <2>1, <2>2 DEF InStage
  <2>9. j # 0 => j - 1 \in 0..Last(y) /\ \A k \in 0..(j - 1) : k \in 0..Last(y)
    BY <1>1
  <2>10. CASE y = x /\ j = i + 1
    BY <2>1, <2>2, <2>5, <2>6, <2>7, <2>8, <2>9, <2>10 DEF InStage
  <2>11. CASE ~(y = x /\ j = i + 1)
    <3>1. j # 0 => ~(y = x /\ j - 1 = i)
      BY <2>1, <2>11
    <3>2. pc'[<<y, j>>] = "none" <=> pc[<<y, j>>] = "none"
      BY <2>2, <2>3, <2>11
    <3> QED
      BY <1>2, <2>5, <2>7, <2>8, <2>9, <3>1, <3>2 DEF InStage
  <2> QED
    BY <2>10, <2>11
<1> QED
  BY <1>3, <1>4, <1>5, StepMoves

(* The count of a chain changes with the actions it counts: push() adds    *)
(* one, the end of the action takes it away.                               *)
LEMMA CountsStep == ChainConsistent /\ [Next]_vars => CountsOutstanding'
<1> SUFFICES ASSUME ChainConsistent, [Next]_vars PROVE CountsOutstanding'
  OBVIOUS
<1> USE DEF At, Goto
<1>0. /\ pc \in [Tasks -> Labels] /\ outstanding \in [Chains -> 0..Cardinality(Actions)]
      /\ Cardinality(Actions) \in Nat
      /\ CountsOutstanding /\ InStages
  BY ChainAssumption, FS_CardinalityType DEF ChainConsistent, TypeOK
<1>1. /\ IsFiniteSet(Actions) /\ \A c \in Chains : IsFiniteSet(Outstanding(c))
      /\ \A c \in Chains : outstanding[c] = Cardinality(Outstanding(c))
      /\ \A x \in Actions : Chain[x] \in Chains
  <2>1. \A c \in Chains : Outstanding(c) \in SUBSET Actions
    BY DEF Outstanding
  <2> QED
    BY <1>0, <2>1, ChainAssumption, FS_Subset DEF CountsOutstanding, Chains
<1>2. \A x \in Actions : <<x, 0>> \in Tasks /\ <<x, Last(x)>> \in Tasks /\ Last(x) \in Nat \ {0}
  <2> SUFFICES ASSUME NEW x \in Actions
               PROVE  <<x, 0>> \in Tasks /\ <<x, Last(x)>> \in Tasks /\ Last(x) \in Nat \ {0}
    OBVIOUS
  <2>1. Last(x) \in Nat \ {0}
    BY ChainFacts
  <2>2. 0 \in 0..Last(x) /\ Last(x) \in 0..Last(x)
    BY <2>1
  <2> QED
    BY <2>1, <2>2, TaskPairs
<1>3. ASSUME UNCHANGED outstanding,
             \A x \in Actions : (pc'[<<x, 0>>] = "ended" /\ ~Passed(<<x, Last(x)>>)')
                                  <=> (pc[<<x, 0>>] = "ended" /\ ~Passed(<<x, Last(x)>>))
      PROVE  CountsOutstanding'
  <2>1. \A c \in Chains : Outstanding(c)' = Outstanding(c)
    BY <1>3 DEF Outstanding, Passed
  <2> QED
    BY <1>1, <1>3, <2>1 DEF CountsOutstanding
<1>4. ASSUME NEW t \in Tasks, NEW to, pc[t] \notin {"push", "ended", "none"},
             pc' = [pc EXCEPT ![t] = to],
             pc[t] \in {"finish", "ended"} <=> to \in {"finish", "ended"}
      PROVE  \A x \in Actions : (pc'[<<x, 0>>] = "ended" /\ ~Passed(<<x, Last(x)>>)')
                                  <=> (pc[<<x, 0>>] = "ended" /\ ~Passed(<<x, Last(x)>>))
  <2>1. Place(t)
    BY <1>4, PlaceOf
  <2>2. \A x \in Actions : <<x, 0>> # t
    BY <1>2, <2>1 DEF Place
  <2> QED
    BY <1>0, <1>2, <1>4, <2>2 DEF Passed
<1>5. ASSUME NEW x \in Actions, Push(x) PROVE CountsOutstanding'
  <2>1. /\ pc[<<x, 0>>] = "push" /\ <<x, 1>> \in Tasks
        /\ pc' = [pc EXCEPT ![<<x, 0>>] = "ended", ![<<x, 1>>] = "queued"]
        /\ outstanding' = [outstanding EXCEPT ![Chain[x]] = outstanding[Chain[x]] + 1]
    <3>1. 1 \in 0..Last(x)
      BY ChainFacts
    <3> QED
      BY <1>5, <3>1, TaskPairs DEF Push
  <2>2. \A y \in Actions : pc'[<<y, 0>>] = IF y = x THEN "ended" ELSE pc[<<y, 0>>]
    <3> SUFFICES ASSUME NEW y \in Actions
                 PROVE  pc'[<<y, 0>>] = IF y = x THEN "ended" ELSE pc[<<y, 0>>]
      OBVIOUS
    <3>1. <<y, 0>> \in Tasks /\ <<x, 0>> \in Tasks
      BY <1>2
    <3>2. <<y, 0>> # <<x, 1>>
      OBVIOUS
    <3> QED
      BY <1>0, <2>1, <3>1, <3>2
  <2>3. \A y \in Actions : y # x => pc'[<<y, Last(y)>>] = pc[<<y, Last(y)>>]
    BY <1>0, <1>2, <2>1
  <2>4. ~Passed(<<x, Last(x)>>)'
    <3>1. CASE Last(x) = 1
      BY <1>0, <1>2, <2>1, <3>1 DEF Passed
    <3>2. CASE Last(x) # 1
      <4>1. 1 \in 0..Last(x) /\ Last(x) \in 0..Last(x) /\ 0 \in 0..(Last(x) - 1)
        BY ChainFacts
      <4>2. InStage(x, Last(x))
        BY <1>0, <4>1 DEF InStages
      <4>3. pc[<<x, Last(x)>>] = "none"
        BY <1>2, <2>1, <4>1, <4>2 DEF InStage, Passed
      <4> QED
        BY <1>0, <1>2, <2>1, <3>2, <4>3 DEF Passed
    <3> QED
      BY <3>1, <3>2
  <2>5. Outstanding(Chain[x])' = Outstanding(Chain[x]) \cup {x} /\ x \notin Outstanding(Chain[x])
    BY <2>1, <2>2, <2>3, <2>4 DEF Outstanding, Passed
  <2>6. \A c \in Chains : c # Chain[x] => Outstanding(c)' = Outstanding(c)
    BY <2>2, <2>3 DEF Outstanding
  <2>7. Cardinality(Outstanding(Chain[x])') = Cardinality(Outstanding(Chain[x])) + 1
    BY <1>1, <2>5, FS_AddElement
  <2> QED
    BY <1>0, <1>1, <2>1, <2>6, <2>7 DEF CountsOutstanding
<1>6. ASSUME NEW t \in Tasks, Uncount(t) PROVE CountsOutstanding'
  <2> DEFINE x == t[1]
  <2>1. /\ pc[t] = "resume" /\ pc' = [pc EXCEPT ![t] = "finish"]
        /\ outstanding' = [outstanding EXCEPT ![Chain[x]] = outstanding[Chain[x]] - 1]
    BY <1>6 DEF Uncount
  <2>2. x \in Actions /\ t = <<x, Last(x)>>
    BY <2>1, PlaceOf DEF Place
  <2>3. pc[<<x, 0>>] = "ended"
    <3>0. Last(x) \in 0..Last(x) /\ 0 \in 0..Last(x) /\ 0 \in 0..(Last(x) - 1) /\ Last(x) # 0
      BY <2>2, ChainFacts
    <3>1. InStage(x, Last(x)) /\ InStage(x, 0)
      BY <1>0, <2>2, <3>0 DEF InStages
    <3>2. Passed(<<x, 0>>)
      BY <2>1, <2>2, <3>0, <3>1 DEF InStage
    <3> QED
      BY <3>1, <3>2 DEF InStage, Passed
  <2>4. /\ \A y \in Actions : pc'[<<y, 0>>] = pc[<<y, 0>>]
        /\ \A y \in Actions : y # x => pc'[<<y, Last(y)>>] = pc[<<y, Last(y)>>]
        /\ pc'[<<x, Last(x)>>] = "finish"
    BY <1>0, <1>2, <2>1, <2>2
  <2>5. Outstanding(Chain[x])' = Outstanding(Chain[x]) \ {x} /\ x \in Outstanding(Chain[x])
    BY <2>1, <2>2, <2>3, <2>4 DEF Outstanding
  <2>6. \A c \in Chains : c # Chain[x] => Outstanding(c)' = Outstanding(c)
    BY <2>4 DEF Outstanding
  <2>7. Cardinality(Outstanding(Chain[x])') = Cardinality(Outstanding(Chain[x])) - 1
    BY <1>1, <2>2, <2>5, FS_RemoveElement
  <2> QED
    BY <1>0, <1>1, <2>1, <2>2, <2>6, <2>7 DEF CountsOutstanding
<1>7. ASSUME NEW t \in Tasks, PassDown(t) PROVE CountsOutstanding'
  <2> DEFINE n == <<t[1], t[2] + 1>>
  <2>1. /\ pc[t] = "passDown" /\ UNCHANGED outstanding
        /\ pc' = [pc EXCEPT ![t] = "finish", ![n] = "queued"]
    BY <1>7 DEF PassDown
  <2>2. Place(t) /\ t[2] < Last(t[1])
    BY <2>1, PlaceOf DEF Place
  <2>3. n \in Tasks /\ InStage(t[1], t[2] + 1) /\ t[2] + 1 \in 1..Last(t[1])
    <3>1. t[2] + 1 \in 1..Last(t[1]) /\ t[2] + 1 \in 0..Last(t[1])
      BY <2>2, ChainFacts DEF Place
    <3> QED
      BY <1>0, <2>2, <3>1, TaskPairs DEF Place, InStages
  <2>4. pc[n] = "none"
    BY <2>1, <2>2, <2>3 DEF InStage, Passed, Place
  <2>5. ASSUME NEW y \in Actions
        PROVE  pc'[<<y, 0>>] = pc[<<y, 0>>] /\ <<y, Last(y)>> # t
    <3>0. t[2] # 0 /\ n[2] # 0 /\ <<y, 0>>[2] = 0
      BY <2>2 DEF Place
    <3>1. <<y, 0>> \in Tasks /\ <<y, 0>> # t /\ <<y, 0>> # n
      BY <1>2, <3>0
    <3>2. <<y, Last(y)>> # t
      BY <2>2, ChainFacts DEF Place
    <3> QED
      BY <1>0, <2>1, <3>1, <3>2
  <2>6. \A y \in Actions : Passed(<<y, Last(y)>>)' <=> Passed(<<y, Last(y)>>)
    BY <1>0, <1>2, <2>1, <2>3, <2>4, <2>5 DEF Passed
  <2> QED
    BY <1>3, <2>1, <2>5, <2>6
<1>8. ASSUME NEW t \in Tasks, PickCommit(t) PROVE CountsOutstanding'
  <2>1. /\ UNCHANGED outstanding
        /\ \/ pc' = pc
           \/ \E p \in Tasks : pc[p] = "queued" /\ pc' = [pc EXCEPT ![p] = "start"]
    BY <1>8, PickCommitForm DEF ChainConsistent
  <2> QED
    BY <1>3, <1>4, <2>1 DEF Passed
<1>9. ASSUME NEW t \in Tasks, PausePrevious(t) \/ BeginAction(t) \/ EndAction(t) \/ Finish(t)
      PROVE  CountsOutstanding'
  <2>1. \E to \in {"passDown", "action", "resume", "ended"} :
          /\ pc' = [pc EXCEPT ![t] = to] /\ UNCHANGED outstanding
          /\ pc[t] \notin {"push", "ended", "none"}
          /\ pc[t] \in {"finish", "ended"} <=> to \in {"finish", "ended"}
    BY <1>9 DEF PausePrevious, BeginAction, EndAction, Finish
  <2> QED
    BY <1>3, <1>4, <2>1
<1>10. ASSUME NEW t \in Tasks, PickCheck(t) \/ ResumeNext(t) PROVE CountsOutstanding'
  BY <1>3, <1>10 DEF PickCheck, ResumeNext, Passed
<1>11. CASE UNCHANGED vars
  BY <1>3, <1>11 DEF vars, Passed
<1> QED
  BY <1>5, <1>6, <1>7, <1>8, <1>9, <1>10, <1>11 DEF Next, Step, AtRest

(* Only pause() and the resume() of the sentry change what actions hold.   *)
LEMMA HoldsStep ==
  ASSUME ChainConsistent, [Next]_vars, NEW x \in Actions, NEW i \in 1..Last(x),
         \A t \in Tasks : ~PausePrevious(t) /\ ~ResumeNext(t)
  PROVE  Holds(x, i)' <=> Holds(x, i)
<1> USE DEF At, Goto
<1>0. pc \in [Tasks -> Labels] /\ toResume \in [Actions -> Nat] /\ toResume[x] < Last(x)
  BY DEF ChainConsistent, TypeOK
<1>1. /\ Last(x) \in 1..Last(x) /\ Last(x) \in Nat \ {0}
      /\ <<x, i>> \in Tasks /\ <<x, Last(x)>> \in Tasks
  <2>1. Last(x) \in Nat \ {0}
    BY ChainFacts
  <2>2. i \in 0..Last(x) /\ Last(x) \in 0..Last(x)
    BY <2>1
  <2> QED
    BY <2>1, <2>2, TaskPairs
<1>2. ASSUME NEW t \in Tasks, NEW to, pc[t] \notin {"push", "ended", "none"},
             pc' = [pc EXCEPT ![t] = to], UNCHANGED toResume,
             pc[t] \in {"passDown", "finish", "ended"} <=> to \in {"passDown", "finish", "ended"},
             \/ pc[t] \in {"queued", "start"} /\ to \in {"start", "action"}
             \/ pc[t] \in {"passDown", "finish"}
      PROVE  Holds(x, i)' <=> Holds(x, i)
  <2>1. /\ pc'[<<x, i>>] = IF <<x, i>> = t THEN to ELSE pc[<<x, i>>]
        /\ pc'[<<x, Last(x)>>] = IF <<x, Last(x)>> = t THEN to ELSE pc[<<x, Last(x)>>]
    BY <1>0, <1>1, <1>2
  <2>2. pc[t] = "passDown" => <<x, Last(x)>> # t
    BY <1>1, <1>2, PlaceOf DEF Place
  <2> QED
    BY <1>0, <1>1, <1>2, <2>1, <2>2 DEF Holds, Labels
<1>3. CASE \E y \in Actions : Push(y)
  <2> PICK y \in Actions : Push(y)
    BY <1>3
  <2>1. pc' = [pc EXCEPT ![<<y, 0>>] = "ended", ![<<y, 1>>] = "queued"] /\ UNCHANGED toResume
    BY DEF Push
  <2>2. pc[<<y, 1>>] = "none"
    <3>1. 1 \in 0..Last(y)
      BY ChainFacts
    <3>2. InStage(y, 1) /\ pc[<<y, 0>>] = "push"
      BY <3>1 DEF ChainConsistent, InStages, Push
    <3> QED
      BY <3>2 DEF InStage, Passed
  <2>3. \A j \in {i, Last(x)} :
          pc'[<<x, j>>] = IF <<x, j>> = <<y, 1>> THEN "queued" ELSE pc[<<x, j>>]
    BY <1>0, <1>1, <2>1
  <2> QED
    BY <1>1, <2>1, <2>2, <2>3 DEF Holds
<1>4. CASE \E t \in Tasks : PassDown(t)
  <2> PICK t \in Tasks : PassDown(t)
    BY <1>4
  <2> DEFINE n == <<t[1], t[2] + 1>>
  <2>1. /\ pc[t] = "passDown" /\ UNCHANGED toResume
        /\ pc' = [pc EXCEPT ![t] = "finish", ![n] = "queued"]
    BY DEF PassDown
  <2>2. Place(t) /\ t[2] < Last(t[1])
    BY <2>1, PlaceOf DEF Place
  <2>3. t[2] + 1 \in 0..Last(t[1]) /\ t[2] + 1 # 0 /\ (t[2] + 1) - 1 = t[2] /\ n # t
    BY <2>2, ChainFacts DEF Place
  <2>4. InStage(t[1], t[2] + 1)
    BY <2>2, <2>3 DEF ChainConsistent, InStages, Place
  <2>5. pc[n] = "none"
    BY <2>1, <2>2, <2>3, <2>4 DEF InStage, Passed, Place
  <2>6. <<x, Last(x)>> # t
    BY <1>1, <2>2 DEF Place
  <2>7. \A j \in {i, Last(x)} :
          pc'[<<x, j>>] = IF <<x, j>> = n THEN "queued"
                          ELSE IF <<x, j>> = t THEN "finish" ELSE pc[<<x, j>>]
    BY <1>0, <1>1, <2>1
  <2> QED
    BY <1>1, <2>1, <2>5, <2>6, <2>7 DEF Holds
<1>5. CASE \E t \in Tasks : PickCommit(t)
  <2>1. /\ UNCHANGED toResume
        /\ \/ pc' = pc
           \/ \E p \in Tasks : pc[p] = "queued" /\ pc' = [pc EXCEPT ![p] = "start"]
    BY <1>5, PickCommitForm DEF ChainConsistent
  <2> QED
    BY <1>2, <2>1 DEF Holds
<1>6. CASE \E t \in Tasks : BeginAction(t)
  BY <1>2, <1>6 DEF BeginAction
<1>7. CASE \E t \in Tasks : Finish(t)
  BY <1>2, <1>7 DEF Finish
<1>8. CASE \E t \in Tasks : EndAction(t)
  <2> PICK t \in Tasks : EndAction(t)
    BY <1>8
  <2>1. /\ pc[t] = "action" /\ pc' = [pc EXCEPT ![t] = "resume"]
        /\ toResume' = [toResume EXCEPT ![t[1]] = Last(t[1]) - 1]
    BY DEF EndAction
  <2>2. t = <<t[1], Last(t[1])>> /\ t[1] \in Actions
    BY <2>1, PlaceOf DEF Place
  <2>3. /\ pc'[<<x, Last(x)>>] = IF x = t[1] THEN "resume" ELSE pc[<<x, Last(x)>>]
        /\ i < Last(x) => pc'[<<x, i>>] = pc[<<x, i>>]
        /\ toResume'[x] = IF x = t[1] THEN Last(x) - 1 ELSE toResume[x]
    BY <1>0, <1>1, <2>1, <2>2
  <2> QED
    BY <1>0, <1>1, <2>1, <2>2, <2>3 DEF Holds
<1>9. CASE \E t \in Tasks : Uncount(t)
  <2> PICK t \in Tasks : Uncount(t)
    BY <1>9
  <2>1. /\ pc[t] = "resume" /\ pc' = [pc EXCEPT ![t] = "finish"]
        /\ toResume[t[1]] = 0 /\ UNCHANGED toResume
    BY DEF Uncount
  <2>2. t = <<t[1], Last(t[1])>> /\ t[1] \in Actions
    BY <2>1, PlaceOf DEF Place
  <2>3. /\ pc'[<<x, Last(x)>>] = IF x = t[1] THEN "finish" ELSE pc[<<x, Last(x)>>]
        /\ i < Last(x) => pc'[<<x, i>>] = pc[<<x, i>>]
    BY <1>0, <1>1, <2>1, <2>2
  <2> QED
    BY <1>0, <1>1, <2>1, <2>2, <2>3 DEF Holds
<1>10. CASE \E t \in Tasks : PickCheck(t)
  BY <1>10 DEF PickCheck, Holds
<1>11. CASE UNCHANGED vars
  BY <1>11 DEF vars, Holds
<1> QED
  BY <1>3, <1>4, <1>5, <1>6, <1>7, <1>8, <1>9, <1>10, <1>11 DEF Next, Step, AtRest

(* passDownChain() makes the action hold the queue it leaves, ...          *)
LEMMA HoldsMore ==
  ASSUME ChainConsistent, NEW t \in Tasks, PausePrevious(t),
         NEW x \in Actions, NEW i \in 1..Last(x)
  PROVE  /\ Holds(x, i)' <=> Holds(x, i) \/ <<x, i>> = t
         /\ Place(t) /\ t[2] < Last(t[1]) /\ ~Holds(t[1], t[2])
<1>0. pc \in [Tasks -> Labels] /\ InStages
  BY DEF ChainConsistent, TypeOK
<1>1. /\ Last(x) \in Nat \ {0} /\ <<x, i>> \in Tasks /\ <<x, Last(x)>> \in Tasks
  <2>1. Last(x) \in Nat \ {0}
    BY ChainFacts
  <2>2. i \in 0..Last(x) /\ Last(x) \in 0..Last(x)
    BY <2>1
  <2> QED
    BY <2>1, <2>2, TaskPairs
<1>2. /\ pc[t] = "start" /\ t[2] < Last(t[1]) /\ UNCHANGED toResume
      /\ pc' = [pc EXCEPT ![t] = "passDown"]
  BY DEF PausePrevious, At, Goto
<1>3. Place(t)
  BY <1>2, PlaceOf
<1>4. pc[<<t[1], Last(t[1])>>] = "none"
  <2>1. Last(t[1]) \in 0..Last(t[1]) /\ Last(t[1]) # 0 /\ t[2] \in 0..(Last(t[1]) - 1)
    BY <1>2, <1>3, ChainFacts DEF Place
  <2>2. InStage(t[1], Last(t[1]))
    BY <1>0, <1>3, <2>1 DEF InStages, Place
  <2>3. ~Passed(<<t[1], t[2]>>)
    BY <1>2, <1>3 DEF Passed, Place
  <2> QED
    BY <2>1, <2>2, <2>3 DEF InStage
<1>5. /\ pc'[<<x, i>>] = IF <<x, i>> = t THEN "passDown" ELSE pc[<<x, i>>]
      /\ pc'[<<x, Last(x)>>] = pc[<<x, Last(x)>>]
  BY <1>0, <1>1, <1>2, <1>3 DEF Place
<1> QED
  BY <1>1, <1>2, <1>3, <1>4, <1>5 DEF Holds, Place

(* ... and each resume() of the sentry lets go of one.                     *)
LEMMA HoldsLess ==
  ASSUME ChainConsistent, NEW t \in Tasks, ResumeNext(t),
         NEW x \in Actions, NEW i \in 1..Last(x)
  PROVE  /\ Holds(x, i)' <=> Holds(x, i) /\ ~(x = t[1] /\ i = toResume[t[1]])
         /\ t[1] \in Actions /\ toResume[t[1]] \in 1..Last(t[1])
         /\ Holds(t[1], toResume[t[1]])
<1>0. /\ pc \in [Tasks -> Labels] /\ InStages /\ toResume \in [Actions -> Nat]
      /\ \A y \in Actions : toResume[y] < Last(y)
  BY DEF ChainConsistent, TypeOK
<1> DEFINE k == toResume[t[1]]
<1>1. /\ pc[t] = "resume" /\ k > 0 /\ UNCHANGED pc
      /\ toResume' = [toResume EXCEPT ![t[1]] = k - 1]
  BY DEF ResumeNext, At, Goto
<1>2. t[1] \in Actions /\ t = <<t[1], Last(t[1])>> /\ Last(t[1]) \in Nat \ {0}
  BY <1>1, PlaceOf, ChainFacts DEF Place
<1>3. k \in 1..Last(t[1]) /\ k < Last(t[1]) /\ k \in Nat
  BY <1>0, <1>1, <1>2
<1>4. Passed(<<t[1], k>>)
  <2>1. Last(t[1]) \in 0..Last(t[1]) /\ Last(t[1]) # 0 /\ k \in 0..(Last(t[1]) - 1)
    BY <1>2, <1>3
  <2>2. InStage(t[1], Last(t[1]))
    BY <1>0, <1>2, <2>1 DEF InStages
  <2> QED
    BY <1>1, <1>2, <2>1, <2>2 DEF InStage
<1>5. Holds(t[1], k)
  BY <1>1, <1>2, <1>3, <1>4 DEF Holds, Passed
<1>6. toResume'[x] = IF x = t[1] THEN k - 1 ELSE toResume[x]
  BY <1>0, <1>1
<1>7. Holds(x, i)' <=> Holds(x, i) /\ ~(x = t[1] /\ i = k)
  <2>1. CASE x # t[1]
    BY <1>1, <1>6, <2>1 DEF Holds
  <2>2. CASE x = t[1]
    BY <1>1, <1>2, <1>3, <1>6, <2>2 DEF Holds
  <2> QED
    BY <2>1, <2>2
<1> QED
  BY <1>2, <1>3, <1>5, <1>7

(* No pause() is lost, none is undone twice.                               *)
LEMMA PausesStep == ChainConsistent /\ [Next]_vars => PausesBalanced'
<1> SUFFICES ASSUME ChainConsistent, [Next]_vars PROVE PausesBalanced'
  OBVIOUS
<1>0. /\ pauseCount \in [Queues -> Nat]
      /\ \A q \in Queues : pauseCount[q] = Cardinality(Holders(q))
  BY DEF ChainConsistent, TypeOK, TQ!QueuesTypeOK, PausesBalanced
<1>1. \A q \in Queues : IsFiniteSet(Holders(q))
  <2>1. \A q \in Queues : Holders(q) \in SUBSET Actions
    BY DEF Holders
  <2> QED
    BY <2>1, ChainAssumption, FS_Subset
<1>2. CASE \A t \in Tasks : ~PausePrevious(t) /\ ~ResumeNext(t)
  <2>1. \A q \in Queues : Holders(q)' = Holders(q)
    BY <1>2, HoldsStep DEF Holders
  <2>2. UNCHANGED pauseCount
    BY <1>2 DEF Next, Step, AtRest, vars, queueVars, Push, PassDown, BeginAction, EndAction,
         Uncount, Finish, PickCheck, PickCommit, TQ!Enqueue, TQ!FinishTask, TQ!PickCheck,
         TQ!PickCommit
  <2> QED
    BY <1>0, <2>1, <2>2 DEF PausesBalanced
<1>3. ASSUME NEW t \in Tasks, PausePrevious(t) PROVE PausesBalanced'
  <2> DEFINE h == QueueOf(t)
  <2>1. pauseCount' = [pauseCount EXCEPT ![h] = pauseCount[h] + 1]
    BY <1>3 DEF PausePrevious, TQ!PauseQueue
  <2>2. Place(t) /\ ~Holds(t[1], t[2])
    <3>1. pc[t] = "start"
      BY <1>3 DEF PausePrevious, At
    <3>2. Place(t)
      BY <3>1, PlaceOf
    <3> QED
      BY <1>3, <3>2, HoldsMore DEF Place
  <2>3. h \in Queues /\ h = Chain[t[1]][t[2]]
    BY <2>2, ChainFacts DEF Place, QueueOf
  <2>4. \A x \in Actions : \A i \in 1..Last(x) : Holds(x, i)' <=> Holds(x, i) \/ <<x, i>> = t
    BY <1>3, HoldsMore
  <2>5. Holders(h)' = Holders(h) \cup {t[1]}
    <3>1. t[1] \in Holders(h)'
      BY <2>2, <2>3, <2>4 DEF Holders, Place
    <3>2. \A x \in Actions : x # t[1] => (x \in Holders(h)' <=> x \in Holders(h))
      BY <2>2, <2>4 DEF Holders, Place
    <3> QED
      BY <2>2, <3>1, <3>2 DEF Holders, Place
  <2>6. t[1] \notin Holders(h)
    BY <2>2, <2>3, ChainFacts DEF Holders, Place
  <2>7. \A q \in Queues : q # h => Holders(q)' = Holders(q)
    BY <2>2, <2>3, <2>4 DEF Holders, Place
  <2>8. Cardinality(Holders(h)') = Cardinality(Holders(h)) + 1
    BY <1>1, <2>3, <2>5, <2>6, FS_AddElement
  <2> QED
    BY <1>0, <2>1, <2>3, <2>7, <2>8 DEF PausesBalanced
<1>4. ASSUME NEW x \in Actions, NEW k \in 1..Last(x), Holds(x, k), NEW h \in Queues, h = Chain[x][k],
             \A y \in Actions : \A i \in 1..Last(y) :
               Holds(y, i)' <=> Holds(y, i) /\ ~(y = x /\ i = k),
             pauseCount' = [pauseCount EXCEPT ![h] = pauseCount[h] - 1]
      PROVE  PausesBalanced'
  <2>1. x \in Holders(h)
    BY <1>4 DEF Holders
  <2>2. x \notin Holders(h)'
    <3>1. ASSUME NEW i \in 1..Last(x), Chain[x][i] = h PROVE ~Holds(x, i)'
      <4>1. i = k
        BY <1>4, <3>1, ChainFacts
      <4> QED
        BY <1>4, <4>1
    <3>2. ~\E i \in 1..Last(x) : Chain[x][i] = h /\ Holds(x, i)'
      BY <3>1
    <3> QED
      BY <3>2 DEF Holders
  <2>3. ASSUME NEW y \in Actions, NEW q \in Queues, y # x \/ q # h
        PROVE  y \in Holders(q)' <=> y \in Holders(q)
    <3>1. \A i \in 1..Last(y) : Chain[y][i] = q => (Holds(y, i)' <=> Holds(y, i))
      BY <1>4, <2>3
    <3>2. (\E i \in 1..Last(y) : Chain[y][i] = q /\ Holds(y, i)')
            <=> \E i \in 1..Last(y) : Chain[y][i] = q /\ Holds(y, i)
      BY <3>1
    <3> QED
      BY <3>2 DEF Holders
  <2>4. \A q \in Queues : Holders(q) \subseteq Actions /\ Holders(q)' \subseteq Actions
    BY DEF Holders
  <2>5. Holders(h)' = Holders(h) \ {x} /\ \A q \in Queues : q # h => Holders(q)' = Holders(q)
    BY <2>1, <2>2, <2>3, <2>4
  <2>6. Cardinality(Holders(h)') = Cardinality(Holders(h)) - 1
    BY <1>1, <2>1, <2>5, FS_RemoveElement
  <2>7. \A q \in Queues : pauseCount'[q] = Cardinality(Holders(q)')
    BY <1>0, <1>4, <2>5, <2>6
  <2> QED
    BY <2>7 DEF PausesBalanced
<1>5. ASSUME NEW t \in Tasks, ResumeNext(t) PROVE PausesBalanced'
  <2>1. pc[t] = "resume"
    BY <1>5 DEF ResumeNext, At
  <2>2. Place(t)
    BY <2>1, PlaceOf
  <2>3. /\ t[1] \in Actions /\ toResume[t[1]] \in 1..Last(t[1]) /\ Holds(t[1], toResume[t[1]])
        /\ \A y \in Actions : \A i \in 1..Last(y) :
             Holds(y, i)' <=> Holds(y, i) /\ ~(y = t[1] /\ i = toResume[t[1]])
    BY <1>5, <2>2, HoldsLess DEF Place
  <2>4. Chain[t[1]][toResume[t[1]]] \in Queues
    BY <2>3, ChainFacts
  <2>5. pauseCount' = [pauseCount EXCEPT ![Chain[t[1]][toResume[t[1]]]] = @ - 1]
    BY <1>5 DEF ResumeNext, TQ!ResumeQueue
  <2> QED
    BY <1>4, <2>3, <2>4, <2>5
<1> QED
  BY <1>2, <1>3, <1>5

(* The types follow from the counts.                                       *)
LEMMA TypeStep ==
  ChainConsistent /\ [Next]_vars /\ CountsOutstanding' /\ PausesBalanced' => TypeOK'
<1> SUFFICES ASSUME ChainConsistent, [Next]_vars, CountsOutstanding', PausesBalanced'
             PROVE  TypeOK'
  OBVIOUS
<1>0. /\ queue \in [Queues -> Seq(Tasks)] /\ pauseCount \in [Queues -> Nat]
      /\ chosen \in [Queues -> Tasks \cup {NoTask}]
      /\ pick \in [Tasks -> {TQ!NoPick} \cup [stage : {"check", "commit"}, queue : Queues]]
      /\ pc \in [Tasks -> Labels]
      /\ toResume \in [Actions -> Nat] /\ \A x \in Actions : toResume[x] < Last(x)
      /\ outstanding \in [Chains -> 0..Cardinality(Actions)]
      /\ pushOrder \in Seq(Actions) /\ startOrder \in Seq(Actions)
  BY DEF ChainConsistent, TypeOK, TQ!QueuesTypeOK
<1>1. /\ \A x \in Actions : <<x, 0>> \in Tasks /\ <<x, 1>> \in Tasks /\ Chain[x][1] \in Queues
      /\ \A q \in Queues : TQ!PickOf(q, "check") \in [stage : {"check", "commit"}, queue : Queues]
  <2> SUFFICES ASSUME NEW x \in Actions
               PROVE  <<x, 0>> \in Tasks /\ <<x, 1>> \in Tasks /\ Chain[x][1] \in Queues
    BY DEF TQ!PickOf
  <2>1. 0 \in 0..Last(x) /\ 1 \in 0..Last(x) /\ 1 \in 1..Last(x)
    BY ChainFacts
  <2> QED
    BY <2>1, TaskPairs, ChainFacts
<1>2. \A t \in Tasks : pc[t] \notin {"push", "ended", "none"} => Place(t) /\ QueueOf(t) \in Queues
  BY PlaceOf, ChainFacts DEF Place, QueueOf
<1>3. outstanding' \in [Chains -> 0..Cardinality(Actions)]
  <2>1. outstanding' \in [Chains -> Nat]
    <3>1. \A c \in Chains : Cardinality(Outstanding(c)') \in Nat
      <4>1. \A c \in Chains : Outstanding(c)' \in SUBSET Actions
        BY DEF Outstanding
      <4> QED
        BY <4>1, ChainAssumption, FS_Subset, FS_CardinalityType
    <3>2. outstanding' = [c \in Chains |-> outstanding'[c]]
      BY <1>0 DEF Next, Step, AtRest, vars, Push, PassDown, BeginAction, EndAction, ResumeNext,
           PausePrevious, Uncount, Finish, PickCheck, PickCommit
    <3> QED
      BY <3>1, <3>2 DEF CountsOutstanding
  <2>2. \A c \in Chains : Cardinality(Outstanding(c)') <= Cardinality(Actions)
    <3>1. \A c \in Chains : Outstanding(c)' \in SUBSET Actions
      BY DEF Outstanding
    <3> QED
      BY <3>1, ChainAssumption, FS_Subset
  <2>3. Cardinality(Actions) \in Nat
    BY ChainAssumption, FS_CardinalityType
  <2>4. \A c \in Chains : outstanding'[c] \in 0..Cardinality(Actions)
    BY <2>1, <2>2, <2>3 DEF CountsOutstanding
  <2> QED
    BY <2>1, <2>4
<1>4. pauseCount' \in [Queues -> Nat]
  <2>1. \A q \in Queues : Cardinality(Holders(q)') \in Nat
    <3>1. \A q \in Queues : Holders(q)' \in SUBSET Actions
      BY DEF Holders
    <3> QED
      BY <3>1, ChainAssumption, FS_Subset, FS_CardinalityType
  <2>2. pauseCount' = [q \in Queues |-> pauseCount'[q]]
    BY <1>0 DEF Next, Step, AtRest, vars, queueVars, Push, PassDown, BeginAction, EndAction,
         ResumeNext, PausePrevious, Uncount, Finish, PickCheck, PickCommit, TQ!Enqueue,
         TQ!FinishTask, TQ!PickCheck, TQ!PickCommit, TQ!PauseQueue, TQ!ResumeQueue
  <2> QED
    BY <2>1, <2>2 DEF PausesBalanced
<1>5. pc' \in [Tasks -> Labels]
  BY <1>0, StepMoves DEF Labels
<1>6. pushOrder' \in Seq(Actions) /\ startOrder' \in Seq(Actions)
  <2>1. ASSUME NEW t \in Tasks, BeginAction(t)
        PROVE  pushOrder' = pushOrder /\ startOrder' \in Seq(Actions)
    <3>1. t[1] \in Actions
      BY TaskPairs
    <3> QED
      BY <1>0, <2>1, <3>1 DEF BeginAction
  <2>2. ASSUME NEW x \in Actions, Push(x)
        PROVE  pushOrder' \in Seq(Actions) /\ startOrder' = startOrder
    BY <1>0, <2>2 DEF Push
  <2>3. CASE /\ \A t \in Tasks : ~BeginAction(t)
             /\ \A x \in Actions : ~Push(x)
    <3>1. pushOrder' = pushOrder /\ startOrder' = startOrder
      BY <2>3 DEF Next, Step, AtRest, vars, history, PassDown, EndAction, ResumeNext,
         PausePrevious, Uncount, Finish, PickCheck, PickCommit
    <3> QED
      BY <1>0, <3>1
  <2> QED
    BY <1>0, <2>1, <2>2, <2>3
<1>7. toResume' \in [Actions -> Nat] /\ \A x \in Actions : toResume'[x] < Last(x)
  <2>1. ASSUME NEW t \in Tasks, EndAction(t)
        PROVE  toResume' \in [Actions -> Nat] /\ \A x \in Actions : toResume'[x] < Last(x)
    <3>1. t[1] \in Actions /\ Last(t[1]) \in Nat \ {0}
      BY TaskPairs, ChainFacts
    <3> QED
      BY <1>0, <2>1, <3>1 DEF EndAction
  <2>2. ASSUME NEW t \in Tasks, ResumeNext(t)
        PROVE  toResume' \in [Actions -> Nat] /\ \A x \in Actions : toResume'[x] < Last(x)
    <3>1. t[1] \in Actions /\ \A x \in Actions : Last(x) \in Nat \ {0}
      BY TaskPairs, ChainFacts
    <3> QED
      BY <1>0, <2>2, <3>1 DEF ResumeNext
  <2> QED
    BY <1>0, <2>1, <2>2 DEF Next, Step, AtRest, vars, Push, PassDown, BeginAction,
         PausePrevious, Uncount, Finish, PickCheck, PickCommit
<1>8. /\ queue' \in [Queues -> Seq(Tasks)] /\ chosen' \in [Queues -> Tasks \cup {NoTask}]
      /\ pick' \in [Tasks -> {TQ!NoPick} \cup [stage : {"check", "commit"}, queue : Queues]]
  <2> DEFINE Goal == /\ queue' \in [Queues -> Seq(Tasks)]
                     /\ chosen' \in [Queues -> Tasks \cup {NoTask}]
                     /\ pick' \in [Tasks -> {TQ!NoPick} \cup
                                            [stage : {"check", "commit"}, queue : Queues]]
  <2>1. ASSUME NEW x \in Actions, Push(x) PROVE Goal
    BY <1>0, <1>1, <2>1 DEF Push, TQ!Enqueue
  <2>2. ASSUME NEW t \in Tasks, PassDown(t) PROVE Goal
    <3> DEFINE n == <<t[1], t[2] + 1>>
    <3>1. pc[t] = "passDown"
      BY <2>2 DEF PassDown, At
    <3>2. t[1] \in Actions /\ t[2] + 1 \in 0..Last(t[1]) /\ t[2] + 1 \in 1..Last(t[1])
      BY <1>2, <3>1, ChainFacts DEF Place
    <3>3. n \in Tasks /\ QueueOf(n) \in Queues
      BY <3>2, TaskPairs, ChainFacts DEF QueueOf
    <3> HIDE DEF n
    <3>4. TQ!Enqueue(t, QueueOf(n), n)
      BY <2>2 DEF PassDown, n
    <3> QED
      BY <1>0, <1>1, <3>3, <3>4 DEF TQ!Enqueue
  <2>3. ASSUME NEW t \in Tasks, PickCommit(t) PROVE Goal
    <3>1. PICK q \in Queues :
             /\ pick' = [pick EXCEPT ![t] = TQ!NoPick]
             /\ \/ UNCHANGED <<queue, chosen>>
                \/ \E p \in Tasks : /\ queue[q] # <<>>
                                    /\ queue' = [queue EXCEPT ![q] = Tail(queue[q])]
                                    /\ chosen' = [chosen EXCEPT ![q] = p]
      BY <2>3, PickCommitForm DEF ChainConsistent
    <3>2. pick' \in [Tasks -> {TQ!NoPick} \cup [stage : {"check", "commit"}, queue : Queues]]
      BY <1>0, <3>1
    <3>3. queue[q] # <<>> => Tail(queue[q]) \in Seq(Tasks)
      BY <1>0
    <3>4. /\ queue' \in [Queues -> Seq(Tasks)]
          /\ chosen' \in [Queues -> Tasks \cup {NoTask}]
      BY <1>0, <3>1, <3>3
    <3> QED
      BY <3>2, <3>4
  <2>4. ASSUME NEW t \in Tasks, PickCheck(t) PROVE Goal
    <3>1. pick[t].stage = "check" /\ pick[t].queue \in Queues
      BY <1>0, <2>4 DEF PickCheck, TQ!PickCheck, TQ!NoPick
    <3>2. TQ!PickOf(pick[t].queue, "commit") \in [stage : {"check", "commit"}, queue : Queues]
      BY <3>1 DEF TQ!PickOf
    <3> QED
      BY <1>0, <2>4, <3>2 DEF PickCheck, TQ!PickCheck
  <2>5. ASSUME NEW t \in Tasks, ResumeNext(t) PROVE Goal
    <3> DEFINE h == Chain[t[1]][toResume[t[1]]]
    <3>1. pc[t] = "resume"
      BY <2>5 DEF ResumeNext, At
    <3>2. h \in Queues
      <4>1. t[1] \in Actions /\ toResume[t[1]] > 0
        BY <1>2, <2>5, <3>1 DEF ResumeNext, Place
      <4>2. toResume[t[1]] \in 1..Last(t[1])
        BY <1>0, <4>1, ChainFacts
      <4> QED
        BY <4>1, <4>2, ChainFacts
    <3> HIDE DEF h
    <3>3. TQ!ResumeQueue(t, h)
      BY <2>5 DEF ResumeNext, h
    <3> QED
      BY <1>0, <1>1, <3>2, <3>3 DEF TQ!ResumeQueue
  <2>6. ASSUME NEW t \in Tasks, Finish(t) PROVE Goal
    <3>1. pc[t] = "finish"
      BY <2>6 DEF Finish, At
    <3> QED
      BY <1>0, <1>1, <1>2, <2>6, <3>1 DEF Finish, TQ!FinishTask
  <2>7. ASSUME NEW t \in Tasks,
               PausePrevious(t) \/ BeginAction(t) \/ EndAction(t) \/ Uncount(t)
        PROVE  Goal
    BY <1>0, <2>7 DEF PausePrevious, BeginAction, EndAction, Uncount, TQ!PauseQueue, queueVars
  <2>8. CASE UNCHANGED vars
    BY <1>0, <2>8 DEF vars, queueVars
  <2> QED
    BY <2>1, <2>2, <2>3, <2>4, <2>5, <2>6, <2>7, <2>8 DEF Next, Step, AtRest
<1> QED
  BY <1>3, <1>4, <1>5, <1>6, <1>7, <1>8 DEF TypeOK, TQ!QueuesTypeOK

(* push() and passDownChain() enter an action into its next queue.         *)
LEMMA EnterForm ==
  ASSUME ChainConsistent, NEW x \in Actions, NEW i \in 0..Last(x),
         (i = 0 /\ Push(x)) \/ PassDown(<<x, i>>)
  PROVE  /\ i < Last(x) /\ i + 1 \in 1..Last(x) /\ <<x, i>> \in Tasks /\ <<x, i + 1>> \in Tasks
         /\ pc[<<x, i>>] = IF i = 0 THEN "push" ELSE "passDown"
         /\ pick[<<x, i>>] = TQ!NoPick
         /\ pc[<<x, i + 1>>] = "none" /\ Chain[x][i + 1] \in Queues
         /\ queue' = [queue EXCEPT ![Chain[x][i + 1]] = Append(queue[Chain[x][i + 1]], <<x, i + 1>>)]
         /\ pick' = [pick EXCEPT ![<<x, i>>] = TQ!PickOf(Chain[x][i + 1], "check")]
         /\ \A u \in Tasks : pc'[u] = IF u = <<x, i + 1>> THEN "queued"
                                      ELSE IF u # <<x, i>> THEN pc[u]
                                      ELSE IF i = 0 THEN "ended" ELSE "finish"
         /\ UNCHANGED <<chosen, pauseCount, stale, startOrder, toResume>>
         /\ pushOrder' = IF i = 0 THEN Append(pushOrder, x) ELSE pushOrder
<1>1. Last(x) \in Nat \ {0} /\ i \in Nat /\ InStages /\ pc \in [Tasks -> Labels]
  BY ChainFacts DEF ChainConsistent, TypeOK
<1>2. CASE i = 0 /\ Push(x)
  <2>1. 1 \in 1..Last(x) /\ 1 \in 0..Last(x) /\ Chain[x][1] \in Queues
    BY <1>1, ChainFacts
  <2>2. <<x, 0>> \in Tasks /\ <<x, 1>> \in Tasks
    BY <1>2, <2>1, TaskPairs
  <2>3. /\ pc[<<x, 0>>] = "push"
        /\ pc' = [pc EXCEPT ![<<x, 0>>] = "ended", ![<<x, 1>>] = "queued"]
        /\ queue' = [queue EXCEPT ![Chain[x][1]] = Append(queue[Chain[x][1]], <<x, 1>>)]
        /\ pick' = [pick EXCEPT ![<<x, 0>>] = TQ!PickOf(Chain[x][1], "check")]
        /\ UNCHANGED <<chosen, pauseCount, stale, startOrder, toResume>>
        /\ pushOrder' = Append(pushOrder, x)
        /\ pick[<<x, 0>>] = TQ!NoPick
    BY <1>2 DEF Push, At, TQ!Enqueue, TQ!NotPicking
  <2>4. pc[<<x, 1>>] = "none"
    <3>1. InStage(x, 1)
      BY <1>1, <2>1 DEF InStages
    <3> QED
      BY <2>3, <3>1 DEF InStage, Passed
  <2>5. i + 1 = 1 /\ i = 0 /\ i < Last(x) /\ i + 1 \in 1..Last(x)
    BY <1>1, <1>2
  <2> QED
    BY <1>1, <2>1, <2>2, <2>3, <2>4, <2>5
<1>3. CASE PassDown(<<x, i>>)
  <2>1. pc[<<x, i>>] = "passDown" /\ pick[<<x, i>>] = TQ!NoPick
    BY <1>3 DEF PassDown, At, TQ!NotPicking
  <2>2. <<x, i>> \in Tasks
    BY TaskPairs
  <2>3. i # 0 /\ i < Last(x)
    BY <2>1, <2>2, PlaceOf DEF Place
  <2>4. i + 1 \in 1..Last(x) /\ i + 1 \in 0..Last(x) /\ i + 1 # 0 /\ (i + 1) - 1 = i
    BY <1>1, <2>3
  <2>5. <<x, i + 1>> \in Tasks /\ Chain[x][i + 1] \in Queues
    BY <2>4, TaskPairs, ChainFacts
  <2>6. pc[<<x, i + 1>>] = "none"
    <3>1. InStage(x, i + 1)
      BY <1>1, <2>4 DEF InStages
    <3> QED
      BY <2>1, <2>4, <3>1 DEF InStage, Passed
  <2>7. /\ pc' = [pc EXCEPT ![<<x, i>>] = "finish", ![<<x, i + 1>>] = "queued"]
        /\ queue' = [queue EXCEPT ![Chain[x][i + 1]] = Append(queue[Chain[x][i + 1]], <<x, i + 1>>)]
        /\ pick' = [pick EXCEPT ![<<x, i>>] = TQ!PickOf(Chain[x][i + 1], "check")]
        /\ UNCHANGED <<chosen, pauseCount, stale, startOrder, toResume, pushOrder>>
    BY <1>3 DEF PassDown, TQ!Enqueue, QueueOf, history
  <2> QED
    BY <1>1, <2>1, <2>2, <2>3, <2>4, <2>5, <2>6, <2>7
<1> QED
  BY <1>2, <1>3

(* The steps that concern neither what waits nor what is handed out.       *)
LEMMA OtherForm ==
  ASSUME ChainConsistent, NEW t \in Tasks,
         \/ PickCheck(t) \/ PausePrevious(t) \/ BeginAction(t) \/ EndAction(t)
         \/ ResumeNext(t) \/ Uncount(t)
  PROVE  /\ UNCHANGED <<queue, chosen, stale, pushOrder>>
         /\ \A u \in Tasks : u # t => pc'[u] = pc[u]
         /\ pc'[t] # pc[t] => /\ pc[t] \in {"start", "action", "resume"}
                              /\ pc'[t] \in {"passDown", "action", "resume", "finish"}
<1>1. pc \in [Tasks -> Labels]
  BY DEF ChainConsistent, TypeOK
<1>2. UNCHANGED <<queue, chosen, stale, pushOrder>>
  BY DEF PickCheck, PausePrevious, BeginAction, EndAction, ResumeNext, Uncount, history,
     queueVars, TQ!PickCheck, TQ!PauseQueue, TQ!ResumeQueue
<1>3. \/ pc' = pc
      \/ \E to \in {"passDown", "action", "resume", "finish"} :
           pc[t] \in {"start", "action", "resume"} /\ pc' = [pc EXCEPT ![t] = to]
  BY DEF PickCheck, PausePrevious, BeginAction, EndAction, ResumeNext, Uncount, At, Goto
<1> QED
  BY <1>1, <1>2, <1>3

(* finishedTask() of a task takes back what its queue has handed out.      *)
LEMMA FinishForm ==
  ASSUME ChainConsistent, NEW t \in Tasks, Finish(t)
  PROVE  /\ pc[t] = "finish" /\ Place(t) /\ QueueOf(t) \in Queues /\ chosen[QueueOf(t)] = t
         /\ pick[t] = TQ!NoPick
         /\ pc' = [pc EXCEPT ![t] = "ended"]
         /\ chosen' = [chosen EXCEPT ![QueueOf(t)] = NoTask]
         /\ pick' = [pick EXCEPT ![t] = TQ!PickOf(QueueOf(t), "check")]
         /\ UNCHANGED <<queue, pauseCount, stale, pushOrder, startOrder, toResume>>
<1>1. /\ pc[t] = "finish" /\ pc' = [pc EXCEPT ![t] = "ended"] /\ pick[t] = TQ!NoPick
      /\ chosen' = [chosen EXCEPT ![QueueOf(t)] = NoTask]
      /\ pick' = [pick EXCEPT ![t] = TQ!PickOf(QueueOf(t), "check")]
      /\ UNCHANGED <<queue, pauseCount, stale, pushOrder, startOrder, toResume>>
  BY DEF Finish, At, Goto, TQ!FinishTask, TQ!NotPicking, history
<1>2. Place(t)
  BY <1>1, PlaceOf
<1>3. QueueOf(t) \in Queues /\ t[2] # 0
  BY <1>2, ChainFacts DEF Place, QueueOf
<1>4. chosen[QueueOf(t)] = t
  BY <1>1, <1>3 DEF ChainConsistent, ChosenHandedOut, HandedOut
<1> QED
  BY <1>1, <1>2, <1>3, <1>4

(* A queue hands out the first task waiting in it, once.                   *)
LEMMA QueuesHoldStep == ChainConsistent /\ [Next]_vars => QueuesHold' /\ ChosenHandedOut'
<1> SUFFICES ASSUME ChainConsistent, [Next]_vars PROVE QueuesHold' /\ ChosenHandedOut'
  OBVIOUS
<1>0. /\ queue \in [Queues -> Seq(Tasks)] /\ chosen \in [Queues -> Tasks \cup {NoTask}]
      /\ pc \in [Tasks -> Labels] /\ QueuesHold /\ ChosenHandedOut /\ TypeOK
  BY DEF ChainConsistent, TypeOK, TQ!QueuesTypeOK
<1>1. \A q \in Queues :
        /\ \A m \in 1..Len(queue[q]) : /\ queue[q][m] \in Tasks
                                       /\ queue[q][m][2] # 0 /\ QueueOf(queue[q][m]) = q
                                       /\ pc[queue[q][m]] = "queued"
        /\ \A m, k \in 1..Len(queue[q]) : queue[q][m] = queue[q][k] => m = k
        /\ chosen[q] # NoTask => /\ chosen[q] \in Tasks /\ chosen[q][2] # 0
                                 /\ QueueOf(chosen[q]) = q /\ HandedOut(chosen[q])
  <2> SUFFICES ASSUME NEW q \in Queues
               PROVE  /\ \A m \in 1..Len(queue[q]) : queue[q][m] \in Tasks
                      /\ chosen[q] # NoTask => chosen[q] \in Tasks
    BY <1>0 DEF QueuesHold, QueueHolds
  <2>1. queue[q] \in Seq(Tasks) /\ chosen[q] \in Tasks \cup {NoTask}
    BY <1>0
  <2> QED
    BY <2>1
<1>10. ASSUME NEW q \in Queues,
              \A m \in 1..Len(queue'[q]) : /\ queue'[q][m][2] # 0 /\ QueueOf(queue'[q][m]) = q
                                           /\ pc'[queue'[q][m]] = "queued",
              \A m, k \in 1..Len(queue'[q]) : queue'[q][m] = queue'[q][k] => m = k,
              chosen'[q] # NoTask => /\ chosen'[q][2] # 0 /\ QueueOf(chosen'[q]) = q
                                     /\ HandedOut(chosen[q])'
       PROVE  QueueHolds(q)'
  BY <1>10 DEF QueueHolds, HandedOut
<1>2. ASSUME UNCHANGED <<queue, chosen>>,
             \A u \in Tasks : /\ pc[u] = "queued" => pc'[u] = "queued"
                              /\ HandedOut(u)' <=> HandedOut(u)
      PROVE  QueuesHold' /\ ChosenHandedOut'
  <2>1. QueuesHold'
    <3> SUFFICES ASSUME NEW q \in Queues PROVE QueueHolds(q)'
      BY DEF QueuesHold
    <3> QED
      BY <1>1, <1>2, <1>10
  <2> QED
    BY <1>0, <1>2, <2>1 DEF ChosenHandedOut
<1>3. ASSUME NEW x \in Actions, NEW i \in 0..Last(x), (i = 0 /\ Push(x)) \/ PassDown(<<x, i>>)
      PROVE  QueuesHold' /\ ChosenHandedOut'
  <2> DEFINE n == <<x, i + 1>>
             h == Chain[x][i + 1]
  <2>1. /\ n \in Tasks /\ pc[n] = "none" /\ h \in Queues /\ n[2] # 0 /\ QueueOf(n) = h
        /\ queue' = [queue EXCEPT ![h] = Append(queue[h], n)] /\ chosen' = chosen
        /\ pc'[n] = "queued"
        /\ \A u \in Tasks : u # n => /\ pc[u] = "queued" => pc'[u] = "queued"
                                     /\ u[2] # 0 => (HandedOut(u)' <=> HandedOut(u))
    <3>1. <<x, i + 1>>[2] = i + 1 /\ <<x, i + 1>>[1] = x /\ <<x, i>>[2] = i
      OBVIOUS
    <3>2. /\ n \in Tasks /\ pc[n] = "none" /\ h \in Queues /\ i + 1 \in 1..Last(x)
          /\ queue' = [queue EXCEPT ![h] = Append(queue[h], n)] /\ chosen' = chosen
          /\ \A u \in Tasks : pc'[u] = IF u = n THEN "queued"
                                       ELSE IF u # <<x, i>> THEN pc[u]
                                       ELSE IF i = 0 THEN "ended" ELSE "finish"
          /\ pc[<<x, i>>] = IF i = 0 THEN "push" ELSE "passDown"
      BY <1>3, EnterForm
    <3>3. n[2] # 0 /\ QueueOf(n) = h
      BY <3>1, <3>2 DEF QueueOf
    <3>4. ASSUME NEW u \in Tasks, u # n
          PROVE  /\ pc[u] = "queued" => pc'[u] = "queued"
                 /\ u[2] # 0 => (HandedOut(u)' <=> HandedOut(u))
      <4>1. CASE u = <<x, i>>
        BY <3>1, <3>2, <3>4, <4>1 DEF HandedOut
      <4>2. CASE u # <<x, i>>
        BY <3>2, <3>4, <4>2 DEF HandedOut
      <4> QED
        BY <4>1, <4>2
    <3> QED
      BY <3>2, <3>3, <3>4
  <2> HIDE DEF n, h
  <2>2. \A q \in Queues : \A m \in 1..Len(queue[q]) :
          /\ queue[q][m] # n
          /\ queue[q][m][2] # 0 /\ QueueOf(queue[q][m]) = q /\ pc'[queue[q][m]] = "queued"
    BY <1>1, <2>1
  <2>3. /\ Len(queue'[h]) = Len(queue[h]) + 1 /\ queue'[h][Len(queue[h]) + 1] = n
        /\ \A m \in 1..Len(queue[h]) : queue'[h][m] = queue[h][m]
        /\ \A q \in Queues : q # h => queue'[q] = queue[q]
        /\ Len(queue[h]) \in Nat
    BY <1>0, <2>1
  <2>4. \A q \in Queues : \A m \in 1..Len(queue'[q]) :
          queue'[q][m][2] # 0 /\ QueueOf(queue'[q][m]) = q /\ pc'[queue'[q][m]] = "queued"
    <3> SUFFICES ASSUME NEW q \in Queues, NEW m \in 1..Len(queue'[q])
                 PROVE  /\ queue'[q][m][2] # 0 /\ QueueOf(queue'[q][m]) = q
                        /\ pc'[queue'[q][m]] = "queued"
      OBVIOUS
    <3>1. CASE q = h /\ m = Len(queue[h]) + 1
      BY <2>1, <2>3, <3>1
    <3>2. CASE ~(q = h /\ m = Len(queue[h]) + 1)
      <4>1. m \in 1..Len(queue[q]) /\ queue'[q][m] = queue[q][m]
        BY <2>3, <3>2
      <4> QED
        BY <2>2, <4>1
    <3> QED
      BY <3>1, <3>2
  <2>5. ASSUME NEW q \in Queues, NEW m \in 1..Len(queue'[q]), NEW k \in 1..Len(queue'[q]),
               queue'[q][m] = queue'[q][k]
        PROVE  m = k
    <3>1. \A l \in 1..Len(queue'[q]) :
            \/ q = h /\ l = Len(queue[h]) + 1
            \/ l \in 1..Len(queue[q]) /\ queue'[q][l] = queue[q][l]
      BY <2>3
    <3> QED
      <4>1. CASE m \in 1..Len(queue[q]) /\ k \in 1..Len(queue[q])
        BY <1>1, <2>5, <3>1, <4>1, <2>3
      <4>2. CASE q = h /\ m = Len(queue[h]) + 1
        BY <2>2, <2>3, <2>5, <3>1, <4>2
      <4>3. CASE q = h /\ k = Len(queue[h]) + 1
        BY <2>2, <2>3, <2>5, <3>1, <4>3
      <4> QED
        BY <3>1, <4>1, <4>2, <4>3
  <2>6. \A q \in Queues : chosen'[q] # NoTask =>
          chosen'[q][2] # 0 /\ QueueOf(chosen'[q]) = q /\ HandedOut(chosen[q])'
    <3> SUFFICES ASSUME NEW q \in Queues, chosen[q] # NoTask
                 PROVE  chosen[q][2] # 0 /\ QueueOf(chosen[q]) = q /\ HandedOut(chosen[q])'
      <4>1. chosen' = chosen
        BY <2>1
      <4> QED
        BY <4>1
    <3>1. chosen[q] \in Tasks /\ chosen[q][2] # 0 /\ QueueOf(chosen[q]) = q /\ HandedOut(chosen[q])
      BY <1>1
    <3>2. chosen[q] # n
      BY <2>1, <3>1 DEF HandedOut
    <3> QED
      BY <2>1, <3>1, <3>2
  <2>7. ChosenHandedOut'
    <3> SUFFICES ASSUME NEW u \in Tasks, u[2] # 0, HandedOut(u)'
                 PROVE  chosen'[QueueOf(u)] = u
      BY DEF ChosenHandedOut
    <3>1. u # n
      BY <2>1 DEF HandedOut
    <3>2. HandedOut(u)
      BY <2>1, <3>1
    <3> QED
      BY <1>0, <2>1, <3>2 DEF ChosenHandedOut
  <2> QED
    BY <1>10, <2>4, <2>5, <2>6, <2>7 DEF QueuesHold
<1>4. ASSUME NEW t \in Tasks, PickCommit(t) PROVE QueuesHold' /\ ChosenHandedOut'
  <2>1. PICK q \in Queues :
           \/ UNCHANGED <<queue, chosen, pc>>
           \/ \E p \in Tasks :
                /\ chosen[q] = NoTask /\ queue[q] # <<>> /\ p = queue[q][1]
                /\ p[2] # 0 /\ QueueOf(p) = q /\ pc[p] = "queued"
                /\ queue' = [queue EXCEPT ![q] = Tail(queue[q])]
                /\ chosen' = [chosen EXCEPT ![q] = p]
                /\ pc' = [pc EXCEPT ![p] = "start"]
    BY <1>0, <1>4, PickCommitForm
  <2>2. CASE UNCHANGED <<queue, chosen, pc>>
    BY <1>2, <2>2 DEF HandedOut
  <2>3. ASSUME NEW p \in Tasks,
               chosen[q] = NoTask, queue[q] # <<>>, p = queue[q][1],
               p[2] # 0, QueueOf(p) = q, pc[p] = "queued",
               queue' = [queue EXCEPT ![q] = Tail(queue[q])],
               chosen' = [chosen EXCEPT ![q] = p],
               pc' = [pc EXCEPT ![p] = "start"]
        PROVE  QueuesHold' /\ ChosenHandedOut'
    <3>1. /\ Len(queue[q]) \in Nat \ {0} /\ Len(queue'[q]) = Len(queue[q]) - 1
          /\ \A m \in 1..Len(queue'[q]) : queue'[q][m] = queue[q][m + 1] /\ m + 1 \in 1..Len(queue[q])
          /\ \A r \in Queues : r # q => queue'[r] = queue[r] /\ chosen'[r] = chosen[r]
          /\ chosen'[q] = p
          /\ \A u \in Tasks : pc'[u] = IF u = p THEN "start" ELSE pc[u]
          /\ 1 \in 1..Len(queue[q])
      <4>1. queue[q] \in Seq(Tasks) /\ queue[q] # <<>>
        BY <1>0, <2>3
      <4>2. /\ Len(queue[q]) \in Nat \ {0} /\ Len(Tail(queue[q])) = Len(queue[q]) - 1
            /\ \A m \in 1..(Len(queue[q]) - 1) : Tail(queue[q])[m] = queue[q][m + 1]
        BY <4>1
      <4>3. queue'[q] = Tail(queue[q])
        BY <1>0, <2>3
      <4> QED
        BY <1>0, <2>3, <4>2, <4>3
    <3>2. \A r \in Queues : \A m \in 1..Len(queue'[r]) :
            \E k \in 1..Len(queue[r]) : queue'[r][m] = queue[r][k] /\ (r = q => k = m + 1)
                                        /\ (r # q => k = m)
      BY <3>1
    <3>3. ASSUME NEW r \in Queues, NEW m \in 1..Len(queue'[r])
          PROVE  queue'[r][m][2] # 0 /\ QueueOf(queue'[r][m]) = r /\ pc'[queue'[r][m]] = "queued"
      <4>1. PICK k \in 1..Len(queue[r]) : /\ queue'[r][m] = queue[r][k]
                                          /\ r = q => k = m + 1
        BY <3>2
      <4>2. /\ queue[r][k] \in Tasks /\ queue[r][k][2] # 0 /\ QueueOf(queue[r][k]) = r
            /\ pc[queue[r][k]] = "queued"
        BY <1>1
      <4>3. queue[r][k] # p
        <5>1. CASE r = q
          <6>1. k # 1 /\ 1 \in 1..Len(queue[q])
            BY <3>1, <4>1, <5>1
          <6> QED
            BY <1>1, <2>3, <5>1, <6>1
        <5>2. CASE r # q
          BY <2>3, <4>2, <5>2
        <5> QED
          BY <5>1, <5>2
      <4> QED
        BY <3>1, <4>1, <4>2, <4>3
    <3>4. ASSUME NEW r \in Queues, NEW m \in 1..Len(queue'[r]), NEW k \in 1..Len(queue'[r]),
                 queue'[r][m] = queue'[r][k]
          PROVE  m = k
      <4>1. CASE r = q
        <5>1. queue[q][m + 1] = queue[q][k + 1] /\ m + 1 \in 1..Len(queue[q]) /\ k + 1 \in 1..Len(queue[q])
          BY <3>1, <3>4, <4>1
        <5>2. m + 1 = k + 1
          BY <1>1, <5>1
        <5> QED
          BY <5>2
      <4>2. CASE r # q
        BY <1>1, <3>1, <3>4, <4>2
      <4> QED
        BY <4>1, <4>2
    <3>5. ASSUME NEW r \in Queues, chosen'[r] # NoTask
          PROVE  chosen'[r][2] # 0 /\ QueueOf(chosen'[r]) = r /\ HandedOut(chosen[r])'
      BY <1>1, <2>3, <3>1, <3>5 DEF HandedOut
    <3>6. ASSUME NEW u \in Tasks, u[2] # 0, HandedOut(u)' PROVE chosen'[QueueOf(u)] = u
      <4>1. CASE u = p
        BY <2>3, <3>1, <4>1
      <4>2. CASE u # p
        <5>1. HandedOut(u) /\ chosen[QueueOf(u)] = u /\ QueueOf(u) \in Queues
          BY <1>0, <3>1, <3>6, <4>2, TaskPairs DEF HandedOut, ChosenHandedOut
        <5>2. QueueOf(u) # q
          BY <2>3, <5>1, NoTaskAssumption
        <5> QED
          BY <3>1, <5>1, <5>2
      <4> QED
        BY <4>1, <4>2
    <3> QED
      BY <1>10, <3>3, <3>4, <3>5, <3>6 DEF QueuesHold, ChosenHandedOut
  <2> QED
    BY <2>1, <2>2, <2>3
<1>5. ASSUME NEW t \in Tasks, Finish(t) PROVE QueuesHold' /\ ChosenHandedOut'
  <2>1. /\ pc[t] = "finish" /\ QueueOf(t) \in Queues /\ chosen[QueueOf(t)] = t /\ t[2] # 0
        /\ queue' = queue
        /\ \A q \in Queues : chosen'[q] = IF q = QueueOf(t) THEN NoTask ELSE chosen[q]
        /\ \A u \in Tasks : pc'[u] = IF u = t THEN "ended" ELSE pc[u]
    BY <1>0, <1>5, FinishForm DEF Place
  <2>2. QueuesHold'
    <3>1. \A q \in Queues : \A m \in 1..Len(queue[q]) :
            queue[q][m][2] # 0 /\ QueueOf(queue[q][m]) = q /\ pc'[queue[q][m]] = "queued"
      BY <1>1, <2>1
    <3>2. ASSUME NEW q \in Queues, chosen'[q] # NoTask
          PROVE  chosen'[q][2] # 0 /\ QueueOf(chosen'[q]) = q /\ HandedOut(chosen[q])'
      <4>1. chosen'[q] = chosen[q] /\ q # QueueOf(t)
        BY <2>1, <3>2
      <4>2. chosen[q] # t
        BY <1>1, <3>2, <4>1
      <4> QED
        BY <1>1, <2>1, <3>2, <4>1, <4>2 DEF HandedOut
    <3> QED
      BY <1>1, <1>10, <2>1, <3>1, <3>2 DEF QueuesHold
  <2>3. ChosenHandedOut'
    <3> SUFFICES ASSUME NEW u \in Tasks, u[2] # 0, HandedOut(u)'
                 PROVE  chosen'[QueueOf(u)] = u
      BY DEF ChosenHandedOut
    <3>1. u # t /\ HandedOut(u) /\ QueueOf(u) \in Queues
      BY <2>1, TaskPairs DEF HandedOut
    <3>2. chosen[QueueOf(u)] = u
      BY <1>0, <3>1 DEF ChosenHandedOut
    <3> QED
      BY <2>1, <3>1, <3>2
  <2> QED
    BY <2>2, <2>3
<1>6. ASSUME NEW t \in Tasks,
             \/ PickCheck(t) \/ PausePrevious(t) \/ BeginAction(t) \/ EndAction(t)
             \/ ResumeNext(t) \/ Uncount(t)
      PROVE  QueuesHold' /\ ChosenHandedOut'
  <2>1. /\ UNCHANGED <<queue, chosen>>
        /\ \A u \in Tasks : /\ pc[u] = "queued" => pc'[u] = "queued"
                            /\ HandedOut(u)' <=> HandedOut(u)
    BY <1>6, OtherForm DEF HandedOut
  <2> QED
    BY <1>2, <2>1
<1>7. CASE UNCHANGED vars
  BY <1>2, <1>7 DEF vars, queueVars, HandedOut
<1>8. ASSUME NEW x \in Actions, Push(x) PROVE QueuesHold' /\ ChosenHandedOut'
  <2>1. 0 \in 0..Last(x)
    BY ChainFacts
  <2> QED
    BY <1>3, <1>8, <2>1
<1>9. ASSUME NEW t \in Tasks, PassDown(t) PROVE QueuesHold' /\ ChosenHandedOut'
  BY <1>3, <1>9, TaskPairs
<1> QED
  BY <1>4, <1>5, <1>6, <1>7, <1>8, <1>9 DEF Next, Step, AtRest

(* Whoever leaves a queue with a task to run, unpaused and idle, is about  *)
(* to look at it.                                                          *)
LEMMA StuckStep == ChainConsistent /\ [Next]_vars => NoQueueStuck'
<1> SUFFICES ASSUME ChainConsistent, [Next]_vars, NEW q \in Queues PROVE ~TQ!Stuck(q)'
  BY DEF NoQueueStuck
<1>0. /\ ~TQ!Stuck(q) /\ TypeOK /\ QueuesHold
      /\ pauseCount \in [Queues -> Nat] /\ chosen \in [Queues -> Tasks \cup {NoTask}]
      /\ queue \in [Queues -> Seq(Tasks)]
      /\ pick \in [Tasks -> {TQ!NoPick} \cup [stage : {"check", "commit"}, queue : Queues]]
  BY DEF ChainConsistent, TypeOK, TQ!QueuesTypeOK, NoQueueStuck
<1>1. \A h, s : TQ!PickOf(h, s).queue = h /\ (s # "none" => TQ!PickOf(h, s) # TQ!NoPick)
  BY DEF TQ!PickOf, TQ!NoPick
<1>2. ASSUME queue'[q] = queue[q], pauseCount'[q] = pauseCount[q], chosen'[q] = chosen[q],
             \A a \in Tasks : pick[a] # TQ!NoPick /\ pick[a].queue = q
                                => pick'[a] # TQ!NoPick /\ pick'[a].queue = q
      PROVE  ~TQ!Stuck(q)'
  BY <1>0, <1>2 DEF TQ!Stuck
<1>3. ASSUME NEW a \in Tasks, NEW h \in Queues, pick[a] = TQ!NoPick,
             pick' = [pick EXCEPT ![a] = TQ!PickOf(h, "check")],
             q # h => queue'[q] = queue[q] /\ pauseCount'[q] = pauseCount[q] /\ chosen'[q] = chosen[q]
      PROVE  ~TQ!Stuck(q)'
  <2>1. CASE q = h
    <3>1. pick'[a] # TQ!NoPick /\ pick'[a].queue = q
      BY <1>0, <1>1, <1>3, <2>1
    <3> QED
      BY <3>1 DEF TQ!Stuck
  <2>2. CASE q # h
    BY <1>0, <1>2, <1>3, <2>2
  <2> QED
    BY <2>1, <2>2
<1>4. ASSUME NEW x \in Actions, NEW i \in 0..Last(x), (i = 0 /\ Push(x)) \/ PassDown(<<x, i>>)
      PROVE  ~TQ!Stuck(q)'
  <2>1. /\ <<x, i>> \in Tasks /\ Chain[x][i + 1] \in Queues /\ pick[<<x, i>>] = TQ!NoPick
        /\ queue' = [queue EXCEPT ![Chain[x][i + 1]] = Append(queue[Chain[x][i + 1]], <<x, i + 1>>)]
        /\ pick' = [pick EXCEPT ![<<x, i>>] = TQ!PickOf(Chain[x][i + 1], "check")]
        /\ UNCHANGED <<chosen, pauseCount>>
    BY <1>4, EnterForm
  <2>2. q # Chain[x][i + 1] => queue'[q] = queue[q]
    BY <1>0, <2>1
  <2> QED
    BY <1>3, <2>1, <2>2
<1>5. ASSUME NEW t \in Tasks, PickCheck(t) PROVE ~TQ!Stuck(q)'
  <2>1. /\ pick[t] # TQ!NoPick /\ pick[t].queue \in Queues
        /\ pick' = [pick EXCEPT ![t] = IF pauseCount[pick[t].queue] # 0 THEN TQ!NoPick
                                       ELSE TQ!PickOf(pick[t].queue, "commit")]
        /\ UNCHANGED <<queue, pauseCount, chosen>>
    BY <1>0, <1>5 DEF PickCheck, TQ!PickCheck, TQ!NoPick
  <2>2. CASE q = pick[t].queue /\ pauseCount[q] # 0
    BY <2>1, <2>2 DEF TQ!Stuck
  <2>3. CASE q # pick[t].queue
    BY <1>0, <1>2, <2>1, <2>3
  <2>4. CASE q = pick[t].queue /\ pauseCount[q] = 0
    <3>1. pick'[t] # TQ!NoPick /\ pick'[t].queue = q
      BY <1>0, <1>1, <2>1, <2>4
    <3> QED
      BY <3>1 DEF TQ!Stuck
  <2> QED
    BY <2>2, <2>3, <2>4
<1>6. ASSUME NEW t \in Tasks, PickCommit(t) PROVE ~TQ!Stuck(q)'
  <2>1. PICK h \in Queues :
           /\ pick[t].stage = "commit" /\ pick[t].queue = h
           /\ pick' = [pick EXCEPT ![t] = TQ!NoPick]
           /\ UNCHANGED <<pauseCount, toResume, outstanding, pushOrder, startOrder>>
           /\ \/ /\ chosen[h] # NoTask \/ queue[h] = <<>>
                 /\ UNCHANGED <<queue, chosen, pc, stale>>
              \/ \E p \in Tasks :
                   /\ chosen[h] = NoTask /\ queue[h] # <<>> /\ p = queue[h][1]
                   /\ p[2] # 0 /\ QueueOf(p) = h /\ pc[p] = "queued"
                   /\ queue' = [queue EXCEPT ![h] = Tail(queue[h])]
                   /\ chosen' = [chosen EXCEPT ![h] = p]
                   /\ pc' = [pc EXCEPT ![p] = "start"]
                   /\ stale' = IF pauseCount[h] # 0 THEN stale \cup {p} ELSE stale
    BY <1>0, <1>6, PickCommitForm, Zenon
  <2>2. CASE q = h
    BY <1>0, <2>1, <2>2, NoTaskAssumption DEF TQ!Stuck
  <2>3. CASE q # h
    BY <1>0, <1>2, <2>1, <2>3
  <2> QED
    BY <2>2, <2>3
<1>7. ASSUME NEW t \in Tasks, PausePrevious(t) PROVE ~TQ!Stuck(q)'
  <2>1. pauseCount' = [pauseCount EXCEPT ![QueueOf(t)] = @ + 1] /\ UNCHANGED <<queue, chosen, pick>>
    BY <1>7 DEF PausePrevious, TQ!PauseQueue
  <2>2. CASE q = QueueOf(t)
    <3>1. pauseCount'[q] # 0
      BY <1>0, <2>1, <2>2
    <3> QED
      BY <3>1 DEF TQ!Stuck
  <2>3. CASE q # QueueOf(t)
    BY <1>0, <1>2, <2>1, <2>3
  <2> QED
    BY <2>2, <2>3
<1>8. ASSUME NEW t \in Tasks, ResumeNext(t) PROVE ~TQ!Stuck(q)'
  <2>1. PICK h : /\ pauseCount' = [pauseCount EXCEPT ![h] = @ - 1]
                 /\ pick' = [pick EXCEPT ![t] = IF pauseCount[h] = 1 THEN TQ!PickOf(h, "check") ELSE @]
                 /\ UNCHANGED <<queue, chosen>> /\ pick[t] = TQ!NoPick
    BY <1>8 DEF ResumeNext, TQ!ResumeQueue, At, TQ!NotPicking
  <2>2. CASE q = h /\ pauseCount[h] = 1
    BY <1>0, <1>3, <2>1, <2>2
  <2>3. CASE q = h /\ pauseCount[h] # 1
    <3>1. pauseCount'[q] # 0
      BY <1>0, <2>1, <2>3
    <3> QED
      BY <3>1 DEF TQ!Stuck
  <2>4. CASE q # h
    BY <1>0, <1>2, <2>1, <2>4
  <2> QED
    BY <2>2, <2>3, <2>4
<1>9. ASSUME NEW t \in Tasks, Finish(t) PROVE ~TQ!Stuck(q)'
  <2>1. /\ QueueOf(t) \in Queues /\ pick[t] = TQ!NoPick
        /\ chosen' = [chosen EXCEPT ![QueueOf(t)] = NoTask]
        /\ pick' = [pick EXCEPT ![t] = TQ!PickOf(QueueOf(t), "check")]
        /\ UNCHANGED <<queue, pauseCount>>
    BY <1>9, FinishForm
  <2>2. q # QueueOf(t) => chosen'[q] = chosen[q]
    BY <1>0, <2>1
  <2> QED
    BY <1>3, <2>1, <2>2
<1>10. CASE UNCHANGED queueVars
  BY <1>2, <1>10 DEF queueVars
<1>11. ASSUME NEW x \in Actions, Push(x) PROVE ~TQ!Stuck(q)'
  <2>1. 0 \in 0..Last(x)
    BY ChainFacts
  <2> QED
    BY <1>4, <1>11, <2>1
<1>12. ASSUME NEW t \in Tasks, PassDown(t) PROVE ~TQ!Stuck(q)'
  BY <1>4, <1>12, TaskPairs
<1>13. ASSUME NEW t \in Tasks, BeginAction(t) \/ EndAction(t) \/ Uncount(t) PROVE UNCHANGED queueVars
  BY <1>13 DEF BeginAction, EndAction, Uncount
<1> QED
  BY <1>5, <1>6, <1>7, <1>8, <1>9, <1>10, <1>11, <1>12, <1>13 DEF Next, Step, AtRest, vars

(* A queue that an action holds hands out a task only if its pause was not *)
(* seen: the task is then stale.                                           *)
LEMMA StaleStep == ChainConsistent /\ [Next]_vars => StaleIfBoth'
<1> SUFFICES ASSUME ChainConsistent, [Next]_vars,
                    NEW t \in Tasks, NEW u \in Tasks,
                    t[1] # u[1], t[2] # 0, u[2] # 0, QueueOf(t) = QueueOf(u),
                    Holds(t[1], t[2])',
                    Holds(u[1], u[2])' \/ pc'[u] \in {"start", "action"}
             PROVE  t \in stale' \/ u \in stale'
  BY DEF StaleIfBoth
<1>0. /\ pc \in [Tasks -> Labels] /\ TypeOK /\ QueuesHold /\ ChosenHandedOut
      /\ pauseCount \in [Queues -> Nat]
  BY DEF ChainConsistent, TypeOK, TQ!QueuesTypeOK
<1>1. \A v, w \in Tasks :
        /\ v[1] # w[1] /\ v[2] # 0 /\ w[2] # 0 /\ QueueOf(v) = QueueOf(w)
        /\ Holds(v[1], v[2])
        /\ Holds(w[1], w[2]) \/ pc[w] \in {"start", "action"}
        => v \in stale \/ w \in stale
  BY DEF ChainConsistent, StaleIfBoth
<1>2. /\ t[1] \in Actions /\ t[2] \in 1..Last(t[1]) /\ t = <<t[1], t[2]>> /\ QueueOf(t) \in Queues
      /\ u[1] \in Actions /\ u[2] \in 1..Last(u[1]) /\ u = <<u[1], u[2]>> /\ t # u
  <2>1. \A v \in Tasks : v[2] # 0 => v[1] \in Actions /\ v[2] \in 1..Last(v[1])
    BY TaskPairs, ChainFacts
  <2> QED
    BY <2>1, TaskPairs
<1>3. stale \subseteq stale'
  <2>1. ASSUME NEW v \in Tasks, PickCommit(v) PROVE stale \subseteq stale'
    BY <1>0, <2>1, PickCommitForm
  <2> QED
    BY <2>1 DEF Next, Step, AtRest, vars, history, Push, PassDown, BeginAction, EndAction,
       ResumeNext, PausePrevious, Uncount, Finish, PickCheck
<1>4. CASE \E v \in Tasks : PausePrevious(v)
  <2> PICK v \in Tasks : PausePrevious(v)
    BY <1>4
  <2>1. pc[v] = "start" /\ pc' = [pc EXCEPT ![v] = "passDown"]
    BY DEF PausePrevious, At, Goto
  <2>2. /\ Holds(t[1], t[2])' <=> Holds(t[1], t[2]) \/ t = v
        /\ Holds(u[1], u[2])' <=> Holds(u[1], u[2]) \/ u = v
    BY <1>2, HoldsMore
  <2>3. CASE t = v
    <3>1. Holds(u[1], u[2]) \/ pc[u] \in {"start", "action"}
      BY <1>0, <1>2, <2>1, <2>2, <2>3
    <3>2. ~(pc[u] \in {"start", "action"})
      <4>1. chosen[QueueOf(t)] = t
        BY <1>0, <2>1, <2>3 DEF ChosenHandedOut, HandedOut
      <4>2. pc[u] \in {"start", "action"} => chosen[QueueOf(u)] = u
        BY <1>0 DEF ChosenHandedOut, HandedOut
      <4> QED
        BY <1>2, <4>1, <4>2
    <3> QED
      BY <1>1, <1>3, <2>1, <2>3, <3>1, <3>2
  <2>4. CASE t # v
    <3>1. Holds(u[1], u[2]) \/ pc[u] \in {"start", "action"}
      BY <1>0, <1>2, <2>1, <2>2
    <3> QED
      BY <1>1, <1>3, <2>2, <2>4, <3>1
  <2> QED
    BY <2>3, <2>4
<1>5. CASE \A v \in Tasks : ~PausePrevious(v)
  <2>1. /\ Holds(t[1], t[2])' => Holds(t[1], t[2])
        /\ Holds(u[1], u[2])' => Holds(u[1], u[2])
    <3>1. CASE \E v \in Tasks : ResumeNext(v)
      BY <1>2, <3>1, HoldsLess
    <3>2. CASE \A v \in Tasks : ~ResumeNext(v)
      BY <1>2, <1>5, <3>2, HoldsStep
    <3> QED
      BY <3>1, <3>2
  <2>2. CASE \E v \in Tasks : PickCommit(v)
    <3> PICK v \in Tasks : PickCommit(v)
      BY <2>2
    <3>1. PICK q \in Queues :
             \/ pc' = pc
             \/ \E p \in Tasks : /\ QueueOf(p) = q /\ pc' = [pc EXCEPT ![p] = "start"]
                                 /\ stale' = IF pauseCount[q] # 0 THEN stale \cup {p} ELSE stale
      BY <1>0, PickCommitForm
    <3>2. CASE pc'[u] = pc[u]
      BY <1>1, <1>3, <2>1, <3>2
    <3>3. CASE pc'[u] # pc[u]
      <4>1. /\ QueueOf(u) = q
            /\ stale' = IF pauseCount[q] # 0 THEN stale \cup {u} ELSE stale
        BY <1>0, <3>1, <3>3
      <4>2. pauseCount[q] # 0
        <5>1. t[1] \in Holders(q)
          BY <1>2, <2>1, <4>1 DEF Holders, QueueOf
        <5>2. IsFiniteSet(Holders(q))
          <6>1. Holders(q) \in SUBSET Actions
            BY DEF Holders
          <6> QED
            BY <6>1, ChainAssumption, FS_Subset
        <5>3. Cardinality(Holders(q)) # 0
          BY <5>1, <5>2, FS_EmptySet
        <5> QED
          BY <5>3 DEF ChainConsistent, PausesBalanced
      <4> QED
        BY <4>1, <4>2
    <3> QED
      BY <3>2, <3>3
  <2>3. CASE \A v \in Tasks : ~PickCommit(v)
    <3>1. pc'[u] \in {"start", "action"} => pc[u] \in {"start", "action"}
      <4>1. ASSUME NEW x \in Actions, NEW i \in 0..Last(x), (i = 0 /\ Push(x)) \/ PassDown(<<x, i>>)
            PROVE  pc'[u] \in {"start", "action"} => pc[u] \in {"start", "action"}
        BY <4>1, EnterForm
      <4>2. ASSUME NEW x \in Actions, Push(x)
            PROVE  pc'[u] \in {"start", "action"} => pc[u] \in {"start", "action"}
        <5>1. 0 \in 0..Last(x)
          BY ChainFacts
        <5> QED
          BY <4>1, <4>2, <5>1
      <4>3. ASSUME NEW v \in Tasks, PassDown(v)
            PROVE  pc'[u] \in {"start", "action"} => pc[u] \in {"start", "action"}
        BY <4>1, <4>3, TaskPairs
      <4>4. ASSUME NEW v \in Tasks, Finish(v)
            PROVE  pc'[u] \in {"start", "action"} => pc[u] \in {"start", "action"}
        BY <1>0, <4>4, FinishForm
      <4>5. ASSUME NEW v \in Tasks,
                   PickCheck(v) \/ BeginAction(v) \/ EndAction(v) \/ ResumeNext(v) \/ Uncount(v)
            PROVE  pc'[u] \in {"start", "action"} => pc[u] \in {"start", "action"}
        BY <1>0, <4>5 DEF PickCheck, BeginAction, EndAction, ResumeNext, Uncount, At, Goto
      <4>6. CASE UNCHANGED vars
        BY <4>6 DEF vars
      <4> QED
        BY <1>5, <2>3, <4>2, <4>3, <4>4, <4>5, <4>6 DEF Next, Step, AtRest
    <3> QED
      BY <1>1, <1>3, <2>1, <3>1
  <2> QED
    BY <2>2, <2>3
<1> QED
  BY <1>4, <1>5

(* Nothing leaves a queue but what it hands out.                           *)
LEMMA NoneLostStep == ChainConsistent /\ [Next]_vars => NoneLost'
<1> SUFFICES ASSUME ChainConsistent, [Next]_vars, NEW u \in Tasks, pc'[u] = "queued"
             PROVE  \E m \in 1..Len(queue'[QueueOf(u)]) : queue'[QueueOf(u)][m] = u
  BY DEF NoneLost
<1>0. /\ queue \in [Queues -> Seq(Tasks)] /\ pc \in [Tasks -> Labels] /\ TypeOK /\ QueuesHold
      /\ u[2] # 0 => QueueOf(u) \in Queues
  BY TaskPairs DEF ChainConsistent, TypeOK, TQ!QueuesTypeOK
<1>1. pc[u] = "queued" =>
        /\ QueueOf(u) \in Queues
        /\ \E m \in 1..Len(queue[QueueOf(u)]) : queue[QueueOf(u)][m] = u
  <2>1. pc[u] = "queued" => QueueOf(u) \in Queues
    BY PlaceOf, ChainFacts DEF Place, QueueOf
  <2> QED
    BY <2>1 DEF ChainConsistent, NoneLost
<1>2. ASSUME NEW x \in Actions, NEW i \in 0..Last(x), (i = 0 /\ Push(x)) \/ PassDown(<<x, i>>)
      PROVE  \E m \in 1..Len(queue'[QueueOf(u)]) : queue'[QueueOf(u)][m] = u
  <2> DEFINE h == Chain[x][i + 1]
  <2>1. /\ h \in Queues
        /\ queue' = [queue EXCEPT ![h] = Append(queue[h], <<x, i + 1>>)]
        /\ u # <<x, i + 1>> => pc[u] = "queued"
    BY <1>2, EnterForm
  <2>2. QueueOf(<<x, i + 1>>) = h
    BY DEF QueueOf
  <2> HIDE DEF h
  <2>3. CASE u = <<x, i + 1>>
    <3>1. /\ Len(queue'[h]) = Len(queue[h]) + 1 /\ queue'[h][Len(queue[h]) + 1] = u
          /\ Len(queue[h]) \in Nat
      BY <1>0, <2>1, <2>3
    <3>2. Len(queue[h]) + 1 \in 1..Len(queue'[h])
      BY <3>1
    <3> QED
      BY <2>2, <2>3, <3>1, <3>2
  <2>4. CASE u # <<x, i + 1>>
    <3>1. PICK m \in 1..Len(queue[QueueOf(u)]) : queue[QueueOf(u)][m] = u
      BY <1>1, <2>1, <2>4
    <3>2. QueueOf(u) \in Queues
      BY <1>1, <2>1, <2>4
    <3>3. m \in 1..Len(queue'[QueueOf(u)]) /\ queue'[QueueOf(u)][m] = u
      BY <1>0, <2>1, <3>1, <3>2
    <3> QED
      BY <3>3
  <2> QED
    BY <2>3, <2>4
<1>3. ASSUME NEW t \in Tasks, PickCommit(t)
      PROVE  \E m \in 1..Len(queue'[QueueOf(u)]) : queue'[QueueOf(u)][m] = u
  <2>1. PICK q \in Queues :
           \/ UNCHANGED <<queue, pc>>
           \/ \E p \in Tasks :
                /\ queue[q] # <<>> /\ p = queue[q][1]
                /\ queue' = [queue EXCEPT ![q] = Tail(queue[q])]
                /\ pc' = [pc EXCEPT ![p] = "start"]
    BY <1>0, <1>3, PickCommitForm
  <2>2. CASE UNCHANGED <<queue, pc>>
    BY <1>1, <2>2
  <2>3. ASSUME queue[q] # <<>>, queue[q][1] # u, pc[u] = "queued",
               queue' = [queue EXCEPT ![q] = Tail(queue[q])]
        PROVE  \E m \in 1..Len(queue'[QueueOf(u)]) : queue'[QueueOf(u)][m] = u
    <3>1. PICK m \in 1..Len(queue[QueueOf(u)]) : queue[QueueOf(u)][m] = u
      BY <1>1, <2>3
    <3>2. CASE q = QueueOf(u)
      <4>1. queue[q] \in Seq(Tasks) /\ m # 1 /\ m \in 1..Len(queue[q])
        BY <1>0, <2>3, <3>1, <3>2
      <4>2. m - 1 \in 1..Len(Tail(queue[q])) /\ Tail(queue[q])[m - 1] = queue[q][m]
        BY <2>3, <4>1
      <4>3. queue'[q] = Tail(queue[q])
        BY <1>0, <2>3
      <4> QED
        BY <3>1, <3>2, <4>2, <4>3
    <3>3. CASE q # QueueOf(u)
      BY <1>0, <1>1, <2>3, <3>1, <3>3
    <3> QED
      BY <3>2, <3>3
  <2> QED
    BY <1>0, <2>1, <2>2, <2>3
<1>4. CASE UNCHANGED queue /\ pc[u] = "queued"
  BY <1>1, <1>4
<1>5. ASSUME NEW t \in Tasks, Finish(t) PROVE UNCHANGED queue /\ pc[u] = "queued"
  BY <1>0, <1>5, FinishForm
<1>6. ASSUME NEW t \in Tasks,
             \/ PickCheck(t) \/ PausePrevious(t) \/ BeginAction(t) \/ EndAction(t)
             \/ ResumeNext(t) \/ Uncount(t)
      PROVE  UNCHANGED queue /\ pc[u] = "queued"
  BY <1>6, OtherForm
<1>7. CASE UNCHANGED vars
  BY <1>4, <1>7 DEF vars, queueVars
<1>8. ASSUME NEW x \in Actions, Push(x)
      PROVE  \E m \in 1..Len(queue'[QueueOf(u)]) : queue'[QueueOf(u)][m] = u
  <2>1. 0 \in 0..Last(x)
    BY ChainFacts
  <2> QED
    BY <1>2, <1>8, <2>1
<1>9. ASSUME NEW t \in Tasks, PassDown(t)
      PROVE  \E m \in 1..Len(queue'[QueueOf(u)]) : queue'[QueueOf(u)][m] = u
  BY <1>2, <1>9, TaskPairs
<1> QED
  BY <1>3, <1>4, <1>5, <1>6, <1>7, <1>8, <1>9 DEF Next, Step, AtRest

(* push() is what enters an action into the first queue of its chain.      *)
LEMMA PushForm ==
  ASSUME ChainConsistent, NEW x \in Actions, Push(x)
  PROVE  /\ pc[<<x, 0>>] = "push" /\ Chain[x][1] \in Queues
         /\ <<x, 0>> \in Tasks /\ <<x, 1>> \in Tasks
         /\ \A i \in 1..Last(x) : pc[<<x, i>>] = "none"
         /\ queue' = [queue EXCEPT ![Chain[x][1]] = Append(queue[Chain[x][1]], <<x, 1>>)]
         /\ \A u \in Tasks : pc'[u] = IF u = <<x, 1>> THEN "queued"
                                      ELSE IF u # <<x, 0>> THEN pc[u] ELSE "ended"
         /\ startOrder' = startOrder /\ pushOrder' = Append(pushOrder, x)
<1>1. Last(x) \in Nat \ {0} /\ InStages /\ pc \in [Tasks -> Labels]
  BY ChainFacts DEF ChainConsistent, TypeOK
<1>2. /\ 0 \in 0..Last(x) /\ 1 \in 0..Last(x) /\ 1 \in 1..Last(x)
      /\ \A i \in 1..Last(x) : i \in 0..Last(x) /\ i # 0 /\ 0 \in 0..(i - 1)
  BY <1>1
<1>3. Chain[x][1] \in Queues /\ <<x, 0>> \in Tasks /\ <<x, 1>> \in Tasks
  BY <1>2, TaskPairs, ChainFacts
<1>4. /\ pc[<<x, 0>>] = "push"
      /\ queue' = [queue EXCEPT ![Chain[x][1]] = Append(queue[Chain[x][1]], <<x, 1>>)]
      /\ pc' = [pc EXCEPT ![<<x, 0>>] = "ended", ![<<x, 1>>] = "queued"]
      /\ startOrder' = startOrder /\ pushOrder' = Append(pushOrder, x)
  BY DEF Push, At, TQ!Enqueue
<1>5. ASSUME NEW i \in 1..Last(x) PROVE pc[<<x, i>>] = "none"
  <2>1. InStage(x, i)
    BY <1>1, <1>2 DEF InStages
  <2> QED
    BY <1>2, <1>4, <2>1 DEF InStage, Passed
<1> QED
  BY <1>1, <1>3, <1>4, <1>5

(* What is appended to a sequence comes last.                              *)
LEMMA AppendIndex ==
  ASSUME NEW S, NEW w \in Seq(S), NEW e \in S
  PROVE  /\ Len(w) \in Nat /\ Len(Append(w, e)) = Len(w) + 1
         /\ \A m \in 1..Len(Append(w, e)) :
              \/ m \in 1..Len(w) /\ Append(w, e)[m] = w[m]
              \/ m = Len(w) + 1 /\ Append(w, e)[m] = e
OBVIOUS

(* Who was pushed first stays ahead in every queue of the chain.           *)
LEMMA FollowsStep ==
  ASSUME ChainConsistent, [Next]_vars, NEW x \in Actions, NEW y \in Actions,
         x # y, Chain[x] = Chain[y], NEW i \in 1..Last(x),
         \/ PushedBefore(x, y)
         \/ Push(y) /\ pc[<<x, 0>>] = "ended"
  PROVE  Follows(x, y, i)'
<1>0. /\ queue \in [Queues -> Seq(Tasks)] /\ pc \in [Tasks -> Labels] /\ TypeOK /\ QueuesHold
      /\ InStages /\ ChosenHandedOut /\ NoneLost /\ QueueHolds(Chain[x][i])
  <2>1. Chain[x][i] \in Queues
    BY ChainFacts
  <2> QED
    BY <2>1 DEF ChainConsistent, TypeOK, TQ!QueuesTypeOK, QueuesHold
<1>1. /\ Last(x) = Last(y) /\ Last(x) \in Nat \ {0} /\ Chain[x][i] = Chain[y][i]
      /\ Chain[x][i] \in Queues
      /\ <<x, i>> \in Tasks /\ <<y, i>> \in Tasks /\ <<x, 0>> \in Tasks /\ <<y, 0>> \in Tasks
      /\ QueueOf(<<x, i>>) = Chain[x][i] /\ QueueOf(<<y, i>>) = Chain[x][i]
      /\ <<x, i>> # <<y, i>>
      /\ i # 0 /\ i \in 0..Last(x)
  <2>1. Last(x) = Last(y) /\ Last(x) \in Nat \ {0} /\ Chain[x][i] \in Queues
    BY ChainFacts DEF Last
  <2>2. i \in 0..Last(x) /\ i \in 0..Last(y) /\ 0 \in 0..Last(x) /\ 0 \in 0..Last(y) /\ i # 0
    BY <2>1
  <2> QED
    BY <2>1, <2>2, TaskPairs DEF QueueOf
<1>2. PushedBefore(x, y) => Follows(x, y, i)
  BY DEF ChainConsistent, InPushOrder
<1>3. ASSUME PushedBefore(x, y), UNCHANGED queue,
             pc'[<<x, i>>] = "none" <=> pc[<<x, i>>] = "none",
             pc'[<<y, i>>] = "none" <=> pc[<<y, i>>] = "none",
             pc'[<<x, i>>] = "queued" <=> pc[<<x, i>>] = "queued",
             pc'[<<y, i>>] = "queued" <=> pc[<<y, i>>] = "queued"
      PROVE  Follows(x, y, i)'
  BY <1>2, <1>3 DEF Follows
<1>4. CASE Push(y) /\ pc[<<x, 0>>] = "ended"
  <2>1. /\ pc[<<y, 0>>] = "push" /\ Chain[y][1] \in Queues /\ <<y, 1>> \in Tasks
        /\ queue' = [queue EXCEPT ![Chain[y][1]] = Append(queue[Chain[y][1]], <<y, 1>>)]
        /\ \A u \in Tasks : pc'[u] = IF u = <<y, 1>> THEN "queued"
                                     ELSE IF u # <<y, 0>> THEN pc[u] ELSE "ended"
    BY <1>4, PushForm
  <2>2. pc[<<y, i>>] = "none"
    <3>1. InStage(y, i) /\ 0 \in 0..(i - 1)
      BY <1>0, <1>1 DEF InStages
    <3> QED
      BY <1>1, <2>1, <3>1 DEF InStage, Passed
  <2>3. CASE i = 1
    <3>1. pc[<<x, 1>>] # "none"
      <4>1. InStage(x, 1) /\ 1 - 1 = 0
        BY <1>0, <1>1, <2>3 DEF InStages
      <4> QED
        BY <1>4, <4>1 DEF InStage, Passed
    <3>2. pc'[<<y, 1>>] = "queued" /\ pc'[<<x, 1>>] = pc[<<x, 1>>]
      BY <1>1, <2>1, <2>3
    <3>3. /\ queue'[Chain[x][1]] = Append(queue[Chain[x][1]], <<y, 1>>)
          /\ queue[Chain[x][1]] \in Seq(Tasks)
      BY <1>0, <1>1, <2>1, <2>3
    <3>4. \A m \in 1..Len(queue[Chain[x][1]]) : queue[Chain[x][1]][m] # <<y, 1>>
      <4>1. \A m \in 1..Len(queue[Chain[x][1]]) : pc[queue[Chain[x][1]][m]] = "queued"
        BY <1>0, <2>3 DEF QueueHolds
      <4> QED
        BY <2>2, <2>3, <4>1
    <3>5. \A m, n \in 1..Len(queue'[Chain[x][1]]) :
            queue'[Chain[x][1]][m] = <<x, 1>> /\ queue'[Chain[x][1]][n] = <<y, 1>> => m < n
      BY <1>1, <2>3, <3>3, <3>4
    <3> QED
      BY <2>3, <3>1, <3>2, <3>5 DEF Follows
  <2>4. CASE i # 1
    <3>1. pc'[<<y, i>>] = "none"
      BY <1>1, <2>1, <2>2, <2>4
    <3>2. Chain[x][i] # Chain[y][1]
      <4>1. 1 \in 1..Last(x)
        BY <1>1
      <4> QED
        BY <1>1, <2>4, <4>1, ChainFacts
    <3>3. queue'[Chain[x][i]] = queue[Chain[x][i]]
      BY <1>0, <1>1, <2>1, <3>2
    <3>4. \A n \in 1..Len(queue[Chain[x][i]]) : queue[Chain[x][i]][n] # <<y, i>>
      BY <1>0, <2>2 DEF QueueHolds
    <3> QED
      BY <3>1, <3>3, <3>4 DEF Follows
  <2> QED
    BY <2>3, <2>4
<1>5. ASSUME PushedBefore(x, y), NEW z \in Actions, Push(z) PROVE Follows(x, y, i)'
  <2>1. z # x /\ z # y
    <3>1. pc[<<x, 0>>] = "ended" /\ pc[<<y, 0>>] = "ended"
      BY <1>5 DEF ChainConsistent, InPushOrder, PushedBefore
    <3>2. pc[<<z, 0>>] = "push"
      BY <1>5 DEF Push, At
    <3> QED
      BY <3>1, <3>2
  <2>2. /\ Chain[z][1] \in Queues /\ <<z, 1>> \in Tasks
        /\ queue' = [queue EXCEPT ![Chain[z][1]] = Append(queue[Chain[z][1]], <<z, 1>>)]
        /\ \A u \in Tasks : pc'[u] = IF u = <<z, 1>> THEN "queued"
                                     ELSE IF u # <<z, 0>> THEN pc[u] ELSE "ended"
    BY <1>5, PushForm
  <2>3. pc'[<<x, i>>] = pc[<<x, i>>] /\ pc'[<<y, i>>] = pc[<<y, i>>]
    BY <1>1, <2>1, <2>2
  <2>4. CASE Chain[z][1] = Chain[x][i]
    <3>1. /\ queue'[Chain[x][i]] = Append(queue[Chain[x][i]], <<z, 1>>)
          /\ queue[Chain[x][i]] \in Seq(Tasks) /\ <<z, 1>> # <<x, i>> /\ <<z, 1>> # <<y, i>>
      BY <1>0, <1>1, <2>1, <2>2, <2>4
    <3>2. \A m, n \in 1..Len(queue[Chain[x][i]]) :
            queue[Chain[x][i]][m] = <<x, i>> /\ queue[Chain[x][i]][n] = <<y, i>> => m < n
      BY <1>2, <1>5 DEF Follows
    <3>3. \A m, n \in 1..Len(queue'[Chain[x][i]]) :
            queue'[Chain[x][i]][m] = <<x, i>> /\ queue'[Chain[x][i]][n] = <<y, i>> => m < n
      <4>1. \A m \in 1..Len(queue'[Chain[x][i]]) :
              queue'[Chain[x][i]][m] \in {<<x, i>>, <<y, i>>} =>
                m \in 1..Len(queue[Chain[x][i]]) /\ queue'[Chain[x][i]][m] = queue[Chain[x][i]][m]
        BY <2>2, <3>1, AppendIndex
      <4> QED
        BY <3>2, <4>1
    <3> QED
      BY <1>2, <1>5, <2>3, <3>3 DEF Follows
  <2>5. CASE Chain[z][1] # Chain[x][i]
    <3>1. queue'[Chain[x][i]] = queue[Chain[x][i]]
      BY <1>0, <1>1, <2>2, <2>5
    <3> QED
      BY <1>2, <1>5, <2>3, <3>1 DEF Follows
  <2> QED
    BY <2>4, <2>5
<1>6. ASSUME PushedBefore(x, y), NEW z \in Actions, NEW k \in 0..Last(z), PassDown(<<z, k>>)
      PROVE  Follows(x, y, i)'
  <2>1. /\ Chain[z][k + 1] \in Queues /\ k < Last(z) /\ k + 1 \in 1..Last(z)
        /\ <<z, k>> \in Tasks /\ <<z, k + 1>> \in Tasks
        /\ pc[<<z, k>>] \in {"push", "passDown"} /\ pc[<<z, k + 1>>] = "none"
        /\ queue' = [queue EXCEPT ![Chain[z][k + 1]] = Append(queue[Chain[z][k + 1]], <<z, k + 1>>)]
        /\ \A u \in Tasks : pc'[u] = IF u = <<z, k + 1>> THEN "queued"
                                     ELSE IF u # <<z, k>> THEN pc[u]
                                     ELSE IF k = 0 THEN "ended" ELSE "finish"
    BY <1>6, EnterForm
  <2>2. pc[<<z, k>>] = "passDown" /\ k # 0
    <3>1. pc[<<z, k>>] = "passDown"
      BY <1>6 DEF PassDown, At
    <3> QED
      BY <2>1, <3>1, PlaceOf DEF Place
  <2>3. CASE z = y /\ i = k + 1
    <3>1. pc[<<x, i>>] # "none"
      <4>1. k \in 1..Last(x) /\ k \in 0..Last(x) /\ <<x, k>> \in Tasks /\ <<y, k>> \in Tasks
        <5>1. k \in 1..Last(x) /\ k \in 0..Last(x) /\ k \in 0..Last(y)
          BY <1>1, <2>1, <2>2, <2>3
        <5> QED
          BY <5>1, TaskPairs
      <4>2. pc[<<x, k>>] # "none" /\ pc[<<x, k>>] # "queued"
        <5>1. Follows(x, y, k)
          BY <1>6, <4>1 DEF ChainConsistent, InPushOrder
        <5> QED
          BY <2>2, <2>3, <5>1 DEF Follows
      <4>3. ~HandedOut(<<x, k>>)
        <5>1. QueueOf(<<x, k>>) = QueueOf(<<y, k>>) /\ <<x, k>> # <<y, k>>
          BY DEF QueueOf
        <5>2. chosen[QueueOf(<<y, k>>)] = <<y, k>>
          BY <1>0, <2>2, <2>3, <4>1 DEF ChosenHandedOut, HandedOut
        <5>3. HandedOut(<<x, k>>) => chosen[QueueOf(<<x, k>>)] = <<x, k>>
          BY <1>0, <2>2, <4>1 DEF ChosenHandedOut
        <5> QED
          BY <5>1, <5>2, <5>3
      <4>4. pc[<<x, k>>] = "ended"
        <5>1. InStage(x, k)
          BY <1>0, <4>1 DEF InStages
        <5> QED
          BY <2>2, <4>2, <4>3, <5>1 DEF InStage, HandedOut
      <4>5. InStage(x, i) /\ i - 1 = k
        BY <1>0, <1>1, <2>1, <2>3 DEF InStages
      <4> QED
        BY <1>1, <4>4, <4>5 DEF InStage, Passed
    <3>2. pc'[<<y, i>>] = "queued" /\ pc'[<<x, i>>] = pc[<<x, i>>]
      BY <1>1, <2>1, <2>3
    <3>3. /\ queue'[Chain[x][i]] = Append(queue[Chain[x][i]], <<y, i>>)
          /\ queue[Chain[x][i]] \in Seq(Tasks)
      BY <1>0, <1>1, <2>1, <2>3
    <3>4. \A m \in 1..Len(queue[Chain[x][i]]) : queue[Chain[x][i]][m] # <<y, i>>
      BY <1>0, <2>1, <2>3 DEF QueueHolds
    <3>5. \A m, n \in 1..Len(queue'[Chain[x][i]]) :
            queue'[Chain[x][i]][m] = <<x, i>> /\ queue'[Chain[x][i]][n] = <<y, i>> => m < n
      BY <1>1, <3>3, <3>4
    <3> QED
      BY <3>1, <3>2, <3>5 DEF Follows
  <2>4. CASE z = x /\ i = k + 1
    <3>1. pc[<<y, i>>] = "none" /\ pc'[<<y, i>>] = "none"
      BY <1>1, <1>2, <1>6, <2>1, <2>4 DEF Follows
    <3>2. /\ queue'[Chain[x][i]] = Append(queue[Chain[x][i]], <<x, i>>)
          /\ queue[Chain[x][i]] \in Seq(Tasks)
      BY <1>0, <1>1, <2>1, <2>4
    <3>3. \A n \in 1..Len(queue[Chain[x][i]]) : queue[Chain[x][i]][n] # <<y, i>>
      BY <1>0, <3>1 DEF QueueHolds
    <3>4. \A n \in 1..Len(queue'[Chain[x][i]]) : queue'[Chain[x][i]][n] # <<y, i>>
      BY <1>1, <3>2, <3>3
    <3> QED
      BY <3>1, <3>4 DEF Follows
  <2>5. CASE i # k + 1 \/ z \notin {x, y}
    <3>1. <<x, i>> # <<z, k + 1>> /\ <<y, i>> # <<z, k + 1>>
      BY <2>5
    <3>2. /\ pc'[<<x, i>>] = "none" <=> pc[<<x, i>>] = "none"
          /\ pc'[<<y, i>>] = "none" <=> pc[<<y, i>>] = "none"
          /\ pc'[<<x, i>>] = "queued" <=> pc[<<x, i>>] = "queued"
          /\ pc'[<<y, i>>] = "queued" <=> pc[<<y, i>>] = "queued"
      BY <1>1, <2>1, <2>2, <3>1
    <3>3. CASE Chain[z][k + 1] = Chain[x][i]
      <4>1. /\ queue'[Chain[x][i]] = Append(queue[Chain[x][i]], <<z, k + 1>>)
            /\ queue[Chain[x][i]] \in Seq(Tasks)
        BY <1>0, <1>1, <2>1, <3>3
      <4>2. \A m, n \in 1..Len(queue[Chain[x][i]]) :
              queue[Chain[x][i]][m] = <<x, i>> /\ queue[Chain[x][i]][n] = <<y, i>> => m < n
        BY <1>2, <1>6 DEF Follows
      <4>3. \A m, n \in 1..Len(queue'[Chain[x][i]]) :
              queue'[Chain[x][i]][m] = <<x, i>> /\ queue'[Chain[x][i]][n] = <<y, i>> => m < n
        <5>1. \A m \in 1..Len(queue'[Chain[x][i]]) :
                queue'[Chain[x][i]][m] \in {<<x, i>>, <<y, i>>} =>
                  /\ m \in 1..Len(queue[Chain[x][i]])
                  /\ queue'[Chain[x][i]][m] = queue[Chain[x][i]][m]
          BY <2>1, <3>1, <4>1, AppendIndex
        <5> QED
          BY <4>2, <5>1
      <4> QED
        BY <1>2, <1>6, <3>2, <4>3 DEF Follows
    <3>4. CASE Chain[z][k + 1] # Chain[x][i]
      <4>1. queue'[Chain[x][i]] = queue[Chain[x][i]]
        BY <1>0, <1>1, <2>1, <3>4
      <4> QED
        BY <1>2, <1>6, <3>2, <4>1 DEF Follows
    <3> QED
      BY <3>3, <3>4
  <2> QED
    BY <2>3, <2>4, <2>5
<1>7. ASSUME PushedBefore(x, y), NEW t \in Tasks, PickCommit(t) PROVE Follows(x, y, i)'
  <2>1. \E q \in Queues :
           \/ UNCHANGED <<queue, pc>>
           \/ \E p \in Tasks :
                /\ queue[q] # <<>> /\ p = queue[q][1] /\ QueueOf(p) = q /\ pc[p] = "queued"
                /\ queue' = [queue EXCEPT ![q] = Tail(queue[q])]
                /\ pc' = [pc EXCEPT ![p] = "start"]
    BY <1>0, <1>7, PickCommitForm
  <2>2. CASE UNCHANGED <<queue, pc>>
    BY <1>3, <1>7, <2>2
  <2>3. ASSUME NEW q \in Queues, NEW p \in Tasks,
               queue[q] # <<>>, p = queue[q][1], QueueOf(p) = q, pc[p] = "queued",
               queue' = [queue EXCEPT ![q] = Tail(queue[q])],
               pc' = [pc EXCEPT ![p] = "start"]
        PROVE  Follows(x, y, i)'
    <3> DEFINE w == queue[Chain[x][i]]
    <3>0. w \in Seq(Tasks) /\ \A u \in Tasks : pc'[u] = IF u = p THEN "start" ELSE pc[u]
      BY <1>0, <1>1, <2>3
    <3>1. \A m, n \in 1..Len(w) : w[m] = <<x, i>> /\ w[n] = <<y, i>> => m < n
      BY <1>2, <1>7 DEF Follows
    <3>2. p = <<y, i>> => pc[<<x, i>>] # "queued"
      <4> SUFFICES ASSUME p = <<y, i>>, pc[<<x, i>>] = "queued" PROVE FALSE
        OBVIOUS
      <4>1. PICK m \in 1..Len(w) : w[m] = <<x, i>>
        BY <1>0, <1>1 DEF NoneLost
      <4>2. q = Chain[x][i]
        BY <1>1, <2>3
      <4>3. w # <<>> /\ w[1] = <<y, i>>
        BY <2>3, <4>2
      <4>4. 1 \in 1..Len(w)
        BY <3>0, <4>3
      <4> HIDE DEF w
      <4>5. m < 1
        BY <3>1, <4>1, <4>3, <4>4
      <4> QED
        BY <4>1, <4>5
    <3>3. /\ pc'[<<y, i>>] # "none" => pc'[<<x, i>>] # "none"
          /\ pc'[<<y, i>>] \notin {"none", "queued"} => pc'[<<x, i>>] # "queued"
      <4>1. /\ pc[<<y, i>>] # "none" => pc[<<x, i>>] # "none"
            /\ pc[<<y, i>>] \notin {"none", "queued"} => pc[<<x, i>>] # "queued"
        BY <1>2, <1>7 DEF Follows
      <4>2. /\ pc'[<<x, i>>] = IF <<x, i>> = p THEN "start" ELSE pc[<<x, i>>]
            /\ pc'[<<y, i>>] = IF <<y, i>> = p THEN "start" ELSE pc[<<y, i>>]
        BY <1>1, <3>0
      <4>3. CASE p = <<x, i>>
        BY <1>1, <2>3, <4>1, <4>2, <4>3
      <4>4. CASE p = <<y, i>>
        BY <1>1, <2>3, <3>2, <4>1, <4>2, <4>4
      <4>5. CASE p # <<x, i>> /\ p # <<y, i>>
        BY <4>1, <4>2, <4>5
      <4> QED
        BY <4>3, <4>4, <4>5
    <3>4. CASE q = Chain[x][i]
      <4>1. queue'[Chain[x][i]] = Tail(w) /\ w # <<>>
        BY <1>0, <2>3, <3>4
      <4>2. \A m \in 1..Len(Tail(w)) : m + 1 \in 1..Len(w) /\ Tail(w)[m] = w[m + 1]
        BY <3>0, <4>1
      <4>3. \A m, n \in 1..Len(Tail(w)) : Tail(w)[m] = <<x, i>> /\ Tail(w)[n] = <<y, i>> => m < n
        <5> SUFFICES ASSUME NEW m \in 1..Len(Tail(w)), NEW n \in 1..Len(Tail(w)),
                            Tail(w)[m] = <<x, i>>, Tail(w)[n] = <<y, i>>
                     PROVE  m < n
          OBVIOUS
        <5>1. m + 1 < n + 1
          BY <3>1, <4>2
        <5> QED
          BY <5>1
      <4> QED
        BY <3>3, <4>1, <4>3 DEF Follows
    <3>5. CASE q # Chain[x][i]
      <4>1. queue'[Chain[x][i]] = w
        BY <1>0, <1>1, <2>3, <3>5
      <4> QED
        BY <3>1, <3>3, <4>1 DEF Follows
    <3> QED
      BY <3>4, <3>5
  <2> QED
    BY <2>1, <2>2, <2>3
<1>8. ASSUME PushedBefore(x, y), NEW t \in Tasks, Finish(t) PROVE Follows(x, y, i)'
  <2>1. /\ UNCHANGED queue /\ pc[t] = "finish"
        /\ \A u \in Tasks : pc'[u] = IF u = t THEN "ended" ELSE pc[u]
    BY <1>0, <1>8, FinishForm
  <2> QED
    BY <1>1, <1>3, <1>8, <2>1
<1>9. ASSUME PushedBefore(x, y), NEW t \in Tasks,
             \/ PickCheck(t) \/ PausePrevious(t) \/ BeginAction(t) \/ EndAction(t)
             \/ ResumeNext(t) \/ Uncount(t)
      PROVE  Follows(x, y, i)'
  <2>1. /\ UNCHANGED queue
        /\ \A u \in Tasks : u # t => pc'[u] = pc[u]
        /\ pc'[t] # pc[t] => /\ pc[t] \in {"start", "action", "resume"}
                             /\ pc'[t] \in {"passDown", "action", "resume", "finish"}
    BY <1>9, OtherForm
  <2> QED
    BY <1>1, <1>3, <1>9, <2>1
<1>10. CASE PushedBefore(x, y) /\ UNCHANGED vars
  BY <1>3, <1>10 DEF vars, queueVars
<1>11. ASSUME PushedBefore(x, y), NEW t \in Tasks, PassDown(t) PROVE Follows(x, y, i)'
  BY <1>6, <1>11, TaskPairs
<1> QED
  BY <1>4, <1>5, <1>7, <1>8, <1>9, <1>10, <1>11 DEF Next, Step, AtRest

(* Actions of one chain begin in the order in which they were pushed.      *)
LEMMA OrderStep ==
  ChainConsistent /\ [Next]_vars /\ InStages' => ChainOrder' /\ InPushOrder'
<1> SUFFICES ASSUME ChainConsistent, [Next]_vars, InStages' PROVE ChainOrder' /\ InPushOrder'
  OBVIOUS
<1>0. /\ pc \in [Tasks -> Labels] /\ TypeOK /\ InPushOrder /\ ChainOrder /\ ChosenHandedOut /\ InStages
      /\ pushOrder \in Seq(Actions) /\ startOrder \in Seq(Actions)
  BY DEF ChainConsistent, TypeOK
<1>1. \A x \in Actions : /\ <<x, 0>> \in Tasks /\ <<x, Last(x)>> \in Tasks
                         /\ Last(x) \in Nat \ {0} /\ Last(x) \in 1..Last(x) /\ Last(x) \in 0..Last(x)
                         /\ <<x, 0>> # <<x, Last(x)>>
  <2> SUFFICES ASSUME NEW x \in Actions
               PROVE  /\ <<x, 0>> \in Tasks /\ <<x, Last(x)>> \in Tasks
                      /\ Last(x) \in Nat \ {0} /\ Last(x) \in 1..Last(x) /\ Last(x) \in 0..Last(x)
                      /\ <<x, 0>> # <<x, Last(x)>>
    OBVIOUS
  <2>1. Last(x) \in Nat \ {0}
    BY ChainFacts
  <2>2. 0 \in 0..Last(x) /\ Last(x) \in 0..Last(x) /\ Last(x) \in 1..Last(x)
    BY <2>1
  <2> QED
    BY <2>1, <2>2, TaskPairs
<1> DEFINE Begun(l) == l \in {"action", "resume", "finish", "ended"}
<1>2. /\ \A x \in Actions : pc[<<x, 0>>] = "ended" <=> \E i \in 1..Len(pushOrder) : pushOrder[i] = x
      /\ \A x \in Actions : Begun(pc[<<x, Last(x)>>]) <=> \E i \in 1..Len(startOrder) : startOrder[i] = x
      /\ \A i, j \in 1..Len(pushOrder) : pushOrder[i] = pushOrder[j] => i = j
      /\ \A i, j \in 1..Len(startOrder) : startOrder[i] = startOrder[j] => i = j
  BY <1>0 DEF InPushOrder
<1>13. \A x, y \in Actions : Chain[x] = Chain[y] /\ PushedBefore(x, y) =>
         \A i \in 1..Last(x) : Follows(x, y, i)
  <2>1. ASSUME NEW x \in Actions, NEW y \in Actions, NEW i \in 1..Last(x),
               Chain[x] = Chain[y], PushedBefore(x, y)
        PROVE  Follows(x, y, i)
    <3>1. InPushOrder
      BY <1>0
    <3> QED
      BY <2>1, <3>1 DEF InPushOrder
  <2> QED
    BY <2>1
<1>3. \A x, y \in Actions : PushedBefore(x, y) => x # y
  BY <1>2 DEF PushedBefore
<1>4. ASSUME \A x \in Actions : pc'[<<x, 0>>] = "ended" <=>
                                  \E i \in 1..Len(pushOrder') : pushOrder'[i] = x,
             \A x \in Actions : Begun(pc'[<<x, Last(x)>>]) <=>
                                  \E i \in 1..Len(startOrder') : startOrder'[i] = x,
             \A i, j \in 1..Len(pushOrder') : pushOrder'[i] = pushOrder'[j] => i = j,
             \A i, j \in 1..Len(startOrder') : startOrder'[i] = startOrder'[j] => i = j,
             \A x, y \in Actions : Chain[x] = Chain[y] /\ PushedBefore(x, y)' =>
               /\ x # y
               /\ \/ PushedBefore(x, y)
                  \/ Push(y) /\ pc[<<x, 0>>] = "ended"
      PROVE  InPushOrder'
  <2>1. \A x, y \in Actions : Chain[x] = Chain[y] /\ PushedBefore(x, y)' =>
          \A i \in 1..Last(x) : Follows(x, y, i)'
    BY <1>4, FollowsStep
  <2> QED
    BY <1>4, <2>1 DEF InPushOrder
<1>5. CASE UNCHANGED <<pushOrder, startOrder>>
           /\ \A x \in Actions : /\ pc'[<<x, 0>>] = pc[<<x, 0>>]
                                 /\ Begun(pc'[<<x, Last(x)>>]) <=> Begun(pc[<<x, Last(x)>>])
  <2>1. \A x, y \in Actions : PushedBefore(x, y)' <=> PushedBefore(x, y)
    BY <1>5 DEF PushedBefore
  <2>2. InPushOrder'
    BY <1>2, <1>3, <1>4, <1>5, <2>1
  <2>3. ChainOrder'
    BY <1>0, <1>5, <2>1 DEF ChainOrder
  <2> QED
    BY <2>2, <2>3
<1>6. ASSUME NEW z \in Actions, Push(z) PROVE ChainOrder' /\ InPushOrder'
  <2>1. /\ pc[<<z, 0>>] = "push" /\ <<z, 0>> \in Tasks /\ <<z, 1>> \in Tasks
        /\ \A i \in 1..Last(z) : pc[<<z, i>>] = "none"
        /\ \A u \in Tasks : pc'[u] = IF u = <<z, 1>> THEN "queued"
                                     ELSE IF u # <<z, 0>> THEN pc[u] ELSE "ended"
        /\ startOrder' = startOrder /\ pushOrder' = Append(pushOrder, z)
    BY <1>6, PushForm
  <2>2. /\ Len(pushOrder) \in Nat /\ Len(pushOrder') = Len(pushOrder) + 1
        /\ pushOrder'[Len(pushOrder) + 1] = z
        /\ \A m \in 1..Len(pushOrder) : pushOrder'[m] = pushOrder[m]
        /\ \A m \in 1..Len(pushOrder') : m \in 1..Len(pushOrder) \/ m = Len(pushOrder) + 1
        /\ \A m \in 1..Len(pushOrder) : pushOrder[m] # z
    BY <1>0, <1>2, <2>1
  <2>3. ASSUME NEW x \in Actions
        PROVE  /\ pc'[<<x, 0>>] = IF x = z THEN "ended" ELSE pc[<<x, 0>>]
               /\ Begun(pc'[<<x, Last(x)>>]) <=> Begun(pc[<<x, Last(x)>>])
    <3>1. <<x, 0>> # <<z, 1>>
      OBVIOUS
    <3>2. <<x, Last(x)>> # <<z, 0>>
      BY <1>1
    <3>3. Last(z) \in 1..Last(z)
      BY <1>1
    <3> QED
      BY <1>1, <2>1, <3>1, <3>2, <3>3
  <2>4. \A x \in Actions : pc'[<<x, 0>>] = "ended" <=>
                             \E i \in 1..Len(pushOrder') : pushOrder'[i] = x
    <3> SUFFICES ASSUME NEW x \in Actions
                 PROVE  pc'[<<x, 0>>] = "ended" <=>
                             \E i \in 1..Len(pushOrder') : pushOrder'[i] = x
      OBVIOUS
    <3>1. CASE x = z
      <4>1. Len(pushOrder) + 1 \in 1..Len(pushOrder')
        BY <2>2
      <4> QED
        BY <2>2, <2>3, <3>1, <4>1
    <3>2. CASE x # z
      <4>1. (\E i \in 1..Len(pushOrder') : pushOrder'[i] = x)
              <=> \E i \in 1..Len(pushOrder) : pushOrder[i] = x
        BY <2>2, <3>2
      <4> QED
        BY <1>2, <2>3, <3>2, <4>1
    <3> QED
      BY <3>1, <3>2
  <2>5. \A i, j \in 1..Len(pushOrder') : pushOrder'[i] = pushOrder'[j] => i = j
    BY <1>2, <2>2
  <2>6. ASSUME NEW x \in Actions, NEW y \in Actions, PushedBefore(x, y)'
        PROVE  x # y /\ (PushedBefore(x, y) \/ (y = z /\ pc[<<x, 0>>] = "ended"))
    <3>1. PICK i, j \in 1..Len(pushOrder') : i < j /\ pushOrder'[i] = x /\ pushOrder'[j] = y
      BY <2>6 DEF PushedBefore
    <3>2. i \in 1..Len(pushOrder) /\ pushOrder[i] = x
      BY <2>2, <3>1
    <3>3. pc[<<x, 0>>] = "ended" /\ x # z
      BY <1>2, <2>2, <3>2
    <3>4. CASE j \in 1..Len(pushOrder)
      <4>1. PushedBefore(x, y)
        BY <2>2, <3>1, <3>2, <3>4 DEF PushedBefore
      <4>2. x # y
        BY <1>3, <4>1, Zenon
      <4> QED
        BY <4>1, <4>2, Zenon
    <3>5. CASE j = Len(pushOrder) + 1
      BY <2>2, <3>1, <3>3, <3>5
    <3> QED
      BY <2>2, <3>4, <3>5
  <2>7. InPushOrder'
    <3>1. \A x \in Actions : Begun(pc'[<<x, Last(x)>>]) <=>
                                  \E i \in 1..Len(startOrder') : startOrder'[i] = x
      BY <1>2, <2>1, <2>3
    <3> HIDE DEF Begun
    <3> QED
      BY <1>2, <1>4, <1>6, <2>1, <2>4, <2>5, <2>6, <3>1
  <2>8. ChainOrder'
    <3> SUFFICES ASSUME NEW x \in Actions, NEW y \in Actions, Chain[x] = Chain[y],
                        PushedBefore(x, y)', NEW j \in 1..Len(startOrder), startOrder[j] = y
                 PROVE  \E i \in 1..(j - 1) : startOrder[i] = x
      BY <2>1 DEF ChainOrder
    <3>1. y # z
      <4>1. Last(z) \in 1..Last(z) /\ Begun(pc[<<y, Last(y)>>])
        BY <1>1, <1>2
      <4> QED
        BY <2>1, <4>1
    <3>2. PushedBefore(x, y)
      BY <2>6, <3>1
    <3> QED
      BY <1>0, <3>2 DEF ChainOrder
  <2> QED
    BY <2>7, <2>8
<1>7. ASSUME NEW t \in Tasks, BeginAction(t) PROVE ChainOrder' /\ InPushOrder'
  <2> DEFINE z == t[1]
  <2>1. /\ pc[t] = "start" /\ pc' = [pc EXCEPT ![t] = "action"]
        /\ pushOrder' = pushOrder /\ startOrder' = Append(startOrder, t[1])
        /\ t[2] = Last(t[1])
    BY <1>7 DEF BeginAction, At, Goto
  <2>2. z \in Actions /\ t = <<z, Last(z)>>
    BY <2>1, PlaceOf DEF Place
  <2> HIDE DEF z
  <2>3. startOrder' = Append(startOrder, z)
    BY <2>1 DEF z
  <2>4. /\ Len(startOrder) \in Nat /\ Len(startOrder') = Len(startOrder) + 1
        /\ startOrder'[Len(startOrder) + 1] = z
        /\ \A m \in 1..Len(startOrder) : startOrder'[m] = startOrder[m]
        /\ \A m \in 1..Len(startOrder') : m \in 1..Len(startOrder) \/ m = Len(startOrder) + 1
        /\ \A m \in 1..Len(startOrder) : startOrder[m] # z
    <3>1. \A m \in 1..Len(startOrder) : startOrder[m] # z
      <4>1. ~Begun(pc[<<z, Last(z)>>])
        BY <2>1, <2>2
      <4> QED
        BY <1>2, <2>2, <4>1
    <3> QED
      BY <1>0, <2>2, <2>3, <3>1
  <2>5. ASSUME NEW x \in Actions
        PROVE  /\ pc'[<<x, 0>>] = pc[<<x, 0>>]
               /\ pc'[<<x, Last(x)>>] = IF x = z THEN "action" ELSE pc[<<x, Last(x)>>]
    <3>1. <<x, 0>> # <<z, Last(z)>>
      BY <1>1, <2>2
    <3> QED
      BY <1>0, <1>1, <2>1, <2>2, <3>1
  <2>6. \A x \in Actions : Begun(pc'[<<x, Last(x)>>]) <=>
                             \E i \in 1..Len(startOrder') : startOrder'[i] = x
    <3> SUFFICES ASSUME NEW x \in Actions
                 PROVE  Begun(pc'[<<x, Last(x)>>]) <=>
                             \E i \in 1..Len(startOrder') : startOrder'[i] = x
      OBVIOUS
    <3>1. CASE x = z
      <4>1. Len(startOrder) + 1 \in 1..Len(startOrder')
        BY <2>4
      <4> QED
        BY <2>4, <2>5, <3>1, <4>1
    <3>2. CASE x # z
      <4>1. (\E i \in 1..Len(startOrder') : startOrder'[i] = x)
              <=> \E i \in 1..Len(startOrder) : startOrder[i] = x
        BY <2>4, <3>2
      <4> QED
        BY <1>2, <2>5, <3>2, <4>1
    <3> QED
      BY <3>1, <3>2
  <2>7. \A i, j \in 1..Len(startOrder') : startOrder'[i] = startOrder'[j] => i = j
    BY <1>2, <2>4
  <2>8. \A x, y \in Actions : PushedBefore(x, y)' <=> PushedBefore(x, y)
    BY <2>1 DEF PushedBefore
  <2>9. InPushOrder'
    <3>1. \A x \in Actions : pc'[<<x, 0>>] = "ended" <=>
                               \E i \in 1..Len(pushOrder') : pushOrder'[i] = x
      <4> SUFFICES ASSUME NEW x \in Actions
                   PROVE  pc'[<<x, 0>>] = "ended" <=>
                            \E i \in 1..Len(pushOrder') : pushOrder'[i] = x
        OBVIOUS
      <4>1. pc'[<<x, 0>>] = pc[<<x, 0>>] /\ pushOrder' = pushOrder
        BY <2>1, <2>5
      <4> QED
        BY <1>2, <4>1
    <3> HIDE DEF Begun
    <3> QED
      BY <1>2, <1>3, <1>4, <2>1, <2>6, <2>7, <2>8, <3>1
  <2>10. ASSUME NEW x \in Actions, NEW y \in Actions, Chain[x] = Chain[y], PushedBefore(x, y),
                NEW j \in 1..Len(startOrder'), startOrder'[j] = y
         PROVE  \E i \in 1..(j - 1) : startOrder'[i] = x
    <3>1. CASE j \in 1..Len(startOrder)
      <4>1. PICK i \in 1..(j - 1) : startOrder[i] = x
        BY <1>0, <2>4, <2>10, <3>1 DEF ChainOrder
      <4>2. i \in 1..Len(startOrder)
        BY <2>4, <3>1
      <4> QED
        BY <2>4, <4>1, <4>2
    <3>2. CASE j = Len(startOrder) + 1
      <4>1. y = z /\ Last(x) = Last(y) /\ pc[<<y, Last(y)>>] = "start"
        BY <2>1, <2>2, <2>4, <2>10, <3>2 DEF Last
      <4>2. pc[<<x, Last(x)>>] \notin {"none", "queued"}
        <5>0. \A i \in 1..Last(x) : Follows(x, y, i)
          BY <1>13, <2>10, Zenon
        <5>1. Follows(x, y, Last(x))
          BY <1>1, <5>0
        <5> QED
          BY <4>1, <5>1 DEF Follows
      <4>3. ~(pc[<<x, Last(x)>>] \in {"start", "passDown"})
        <5>1. /\ QueueOf(<<x, Last(x)>>) = QueueOf(<<y, Last(y)>>)
              /\ <<x, Last(x)>> # <<y, Last(y)>>
              /\ <<x, Last(x)>>[2] # 0 /\ <<y, Last(y)>>[2] # 0
          BY <1>1, <1>3, <2>10, <4>1 DEF QueueOf
        <5>2. chosen[QueueOf(<<y, Last(y)>>)] = <<y, Last(y)>>
          BY <1>0, <1>1, <4>1, <5>1 DEF ChosenHandedOut, HandedOut
        <5>3. pc[<<x, Last(x)>>] \in {"start", "passDown"} =>
                chosen[QueueOf(<<x, Last(x)>>)] = <<x, Last(x)>>
          BY <1>0, <1>1, <5>1 DEF ChosenHandedOut, HandedOut
        <5> QED
          BY <5>1, <5>2, <5>3
      <4>4. pc[<<x, Last(x)>>] # "push"
        <5>1. InStage(x, Last(x)) /\ Last(x) # 0
          BY <1>0, <1>1 DEF InStages
        <5> QED
          BY <5>1 DEF InStage
      <4>5. Begun(pc[<<x, Last(x)>>])
        BY <1>0, <1>1, <4>2, <4>3, <4>4 DEF Labels
      <4>6. PICK i \in 1..Len(startOrder) : startOrder[i] = x
        BY <1>2, <4>5
      <4> QED
        BY <2>4, <3>2, <4>6
    <3> QED
      BY <2>4, <3>1, <3>2
  <2>11. ChainOrder'
    BY <2>8, <2>10 DEF ChainOrder
  <2> QED
    BY <2>9, <2>11
<1>8. ASSUME NEW t \in Tasks, PickCommit(t) PROVE ChainOrder' /\ InPushOrder'
  <2>1. /\ UNCHANGED <<pushOrder, startOrder>>
        /\ \/ pc' = pc
           \/ \E p \in Tasks : p[2] # 0 /\ pc[p] = "queued" /\ pc' = [pc EXCEPT ![p] = "start"]
    BY <1>0, <1>8, PickCommitForm DEF ChainConsistent
  <2>2. ASSUME NEW x \in Actions
        PROVE  /\ pc'[<<x, 0>>] = pc[<<x, 0>>]
               /\ Begun(pc'[<<x, Last(x)>>]) <=> Begun(pc[<<x, Last(x)>>])
    BY <1>0, <1>1, <2>1
  <2> QED
    BY <1>5, <2>1, <2>2
<1>9. ASSUME NEW t \in Tasks, PassDown(t) PROVE ChainOrder' /\ InPushOrder'
  <2> DEFINE n == <<t[1], t[2] + 1>>
  <2>1. /\ pc[t] = "passDown" /\ pc' = [pc EXCEPT ![t] = "finish", ![n] = "queued"]
        /\ UNCHANGED <<pushOrder, startOrder>>
    BY <1>9 DEF PassDown, At, history
  <2>2. Place(t) /\ t[2] < Last(t[1])
    BY <2>1, PlaceOf DEF Place
  <2>3. n \in Tasks /\ n[2] # 0 /\ t[2] # 0 /\ pc[n] = "none"
    <3>1. t[2] \in 0..Last(t[1]) /\ t[1] \in Actions /\ t[2] + 1 # 0 /\ t[2] # 0 /\ t = <<t[1], t[2]>>
      BY <2>2, ChainFacts DEF Place
    <3>2. PassDown(<<t[1], t[2]>>)
      BY <1>9, <3>1
    <3> QED
      BY <3>1, <3>2, EnterForm
  <2>4. ASSUME NEW x \in Actions
        PROVE  /\ pc'[<<x, 0>>] = pc[<<x, 0>>]
               /\ Begun(pc'[<<x, Last(x)>>]) <=> Begun(pc[<<x, Last(x)>>])
    <3>1. <<x, 0>> # n /\ <<x, 0>> # t
      BY <2>3
    <3>2. <<x, Last(x)>> # t
      BY <1>1, <2>2 DEF Place
    <3> QED
      BY <1>0, <1>1, <2>1, <2>3, <3>1, <3>2
  <2> QED
    BY <1>5, <2>1, <2>4
<1>10. ASSUME NEW t \in Tasks,
              Finish(t) \/ PausePrevious(t) \/ EndAction(t) \/ Uncount(t)
       PROVE  ChainOrder' /\ InPushOrder'
  <2>1. PICK to \in Labels :
           /\ UNCHANGED <<pushOrder, startOrder>> /\ pc' = [pc EXCEPT ![t] = to]
           /\ pc[t] \notin {"push", "none", "ended"}
           /\ \/ pc[t] = "start" /\ to = "passDown" /\ t[2] < Last(t[1])
              \/ Begun(pc[t]) /\ Begun(to)
    BY <1>10 DEF Finish, PausePrevious, EndAction, Uncount, At, Goto, history, Labels
  <2>2. Place(t)
    BY <2>1, PlaceOf
  <2>3. ASSUME NEW x \in Actions
        PROVE  /\ pc'[<<x, 0>>] = pc[<<x, 0>>]
               /\ Begun(pc'[<<x, Last(x)>>]) <=> Begun(pc[<<x, Last(x)>>])
    <3>1. <<x, 0>> # t
      BY <2>2 DEF Place
    <3>2. t[2] < Last(t[1]) => <<x, Last(x)>> # t
      BY <1>1, <2>2 DEF Place
    <3> QED
      BY <1>0, <1>1, <2>1, <3>1, <3>2
  <2> QED
    BY <1>5, <2>1, <2>3
<1>11. ASSUME NEW t \in Tasks, PickCheck(t) \/ ResumeNext(t) PROVE ChainOrder' /\ InPushOrder'
  <2>1. UNCHANGED <<pushOrder, startOrder, pc>>
    BY <1>11 DEF PickCheck, ResumeNext, history
  <2> QED
    BY <1>5, <2>1
<1>12. CASE UNCHANGED vars
  BY <1>5, <1>12 DEF vars, history
<1> QED
  BY <1>6, <1>7, <1>8, <1>9, <1>10, <1>11, <1>12 DEF Next, Step, AtRest

-----------------------------------------------------------------------------
(* The counts always say what is going on, no queue waits in vain, and     *)
(* every action is at one place of its chain.                              *)
THEOREM ChainInvariant == Spec => []ChainConsistent
<1>1. Init => ChainConsistent
  BY InitConsistent
<1>2. ChainConsistent /\ [Next]_vars => ChainConsistent'
  <2> SUFFICES ASSUME ChainConsistent, [Next]_vars PROVE ChainConsistent'
    OBVIOUS
  <2>1. CountsOutstanding' /\ PausesBalanced' /\ InStages' /\ NoQueueStuck'
    BY CountsStep, PausesStep, StagesStep, StuckStep
  <2>2. TypeOK'
    BY <2>1, TypeStep
  <2>3. QueuesHold' /\ ChosenHandedOut' /\ NoneLost' /\ StaleIfBoth'
    BY QueuesHoldStep, NoneLostStep, StaleStep
  <2>4. ChainOrder' /\ InPushOrder'
    BY <2>1, OrderStep
  <2> QED
    BY <2>1, <2>2, <2>3, <2>4 DEF ChainConsistent
<1> QED
  BY <1>1, <1>2, PTL DEF Spec

(* Two actions that share a queue run together only when a queue handed    *)
(* one of them out although it had been paused; never when they share the  *)
(* last one.                                                               *)
THEOREM ExclusionInvariant == Spec => []ExclusiveUnlessStale
<1>1. ChainConsistent => ExclusiveUnlessStale
  <2> SUFFICES ASSUME ChainConsistent, NEW x \in Actions, NEW y \in Actions,
                      Running(x), Running(y), x # y
               PROVE  /\ Chain[x][Last(x)] # Chain[y][Last(y)]
                      /\ Shares(x, y) => \E t \in stale : t[1] \in {x, y}
    BY DEF ExclusiveUnlessStale
  <2>0. /\ InStages /\ ChosenHandedOut /\ StaleIfBoth
        /\ pc[<<x, Last(x)>>] = "action" /\ pc[<<y, Last(y)>>] = "action"
    BY DEF ChainConsistent, Running
  <2>1. \A z \in {x, y} : /\ Last(z) \in 1..Last(z) /\ Last(z) \in 0..Last(z) /\ Last(z) # 0
                          /\ \A i \in 1..Last(z) : i \in 0..Last(z)
    BY ChainFacts
  <2>2. \A z \in {x, y} : \A i \in 1..Last(z) : <<z, i>> \in Tasks /\ <<z, i>>[2] # 0
    <3> SUFFICES ASSUME NEW z \in {x, y}, NEW i \in 1..Last(z)
                 PROVE  <<z, i>> \in Tasks /\ <<z, i>>[2] # 0
      OBVIOUS
    <3>1. i \in 0..Last(z) /\ i # 0 /\ z \in Actions
      BY <2>1
    <3> QED
      BY <3>1, TaskPairs
  <2>3. \A z \in {x, y} : \A i \in 1..Last(z) : i < Last(z) => Holds(z, i)
    <3> SUFFICES ASSUME NEW z \in {x, y}, NEW i \in 1..Last(z), i < Last(z) PROVE Holds(z, i)
      OBVIOUS
    <3>1. InStage(z, Last(z)) /\ i \in 0..(Last(z) - 1)
      BY <2>0, <2>1 DEF InStages
    <3>2. Passed(<<z, i>>)
      BY <2>0, <2>1, <3>1 DEF InStage
    <3> QED
      BY <2>0, <3>2 DEF Holds, Passed
  <2>4. Chain[x][Last(x)] # Chain[y][Last(y)]
    <3>1. /\ chosen[Chain[x][Last(x)]] = <<x, Last(x)>>
          /\ chosen[Chain[y][Last(y)]] = <<y, Last(y)>>
      BY <2>0, <2>1, <2>2 DEF ChosenHandedOut, HandedOut, QueueOf
    <3> QED
      BY <3>1
  <2>5. ASSUME NEW i \in 1..Last(x), NEW j \in 1..Last(y), Chain[x][i] = Chain[y][j]
        PROVE  <<x, i>> \in stale \/ <<y, j>> \in stale
    <3>1. i < Last(x) \/ j < Last(y)
      BY <2>1, <2>4, <2>5
    <3>2. /\ Holds(x, i) \/ pc[<<x, i>>] \in {"start", "action"}
          /\ Holds(y, j) \/ pc[<<y, j>>] \in {"start", "action"}
      BY <2>0, <2>1, <2>3
    <3>3. /\ <<x, i>> \in Tasks /\ <<y, j>> \in Tasks /\ QueueOf(<<x, i>>) = QueueOf(<<y, j>>)
          /\ <<x, i>>[2] # 0 /\ <<y, j>>[2] # 0
      BY <2>2, <2>5 DEF QueueOf
    <3>4. Holds(x, i) \/ Holds(y, j)
      BY <2>3, <3>1
    <3> QED
      BY <2>0, <3>2, <3>3, <3>4 DEF StaleIfBoth
  <2>6. Shares(x, y) => \E t \in stale : t[1] \in {x, y}
    BY <2>5 DEF Shares
  <2> QED
    BY <2>4, <2>6
<1> QED
  BY <1>1, ChainInvariant, PTL

(* Actions of one chain begin in the order in which they were pushed.      *)
THEOREM OrderInvariant == Spec => []ChainOrder
<1>1. ChainConsistent => ChainOrder
  BY DEF ChainConsistent
<1> QED
  BY <1>1, ChainInvariant, PTL
=============================================================================
