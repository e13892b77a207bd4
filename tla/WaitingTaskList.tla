--------------------------- MODULE WaitingTaskList ---------------------------
(***************************************************************************)
(* edm::WaitingTaskList: the lock-free list of tasks waiting for a         *)
(* resource, one action per atomic access.  Nodes come from a cache or     *)
(* from the heap; whoever announces a heap node deletes it.                *)
(*                                                                         *)
(* The actors are the threads calling add(), one per task, and the owner   *)
(* of the resource, who calls presetTaskAsFailed(), doneWaiting(), reset().*)
(***************************************************************************)
EXTENDS Naturals, FiniteSets

CONSTANTS Tasks,            \* the tasks added, each by a thread of its own
          HolderTasks,      \* those added with add(WaitingTaskHolder)
          Owner,            \* the owner of the resource
          Exceptions,       \* what may go wrong with the resource
          None,             \* nullptr
          InitialSize,      \* the constructor's iInitialSize
          MaxResets         \* bound: number of calls to reset()

ASSUME ActorAssumption == /\ HolderTasks \subseteq Tasks
                          /\ Owner \notin Tasks
                          /\ None \notin Tasks \cup Exceptions
                          /\ IsFiniteSet(Tasks)
ASSUME SizeAssumption  == InitialSize \in Nat /\ MaxResets \in Nat

(* A node is a place in the cache or, for the heap, named by its task.     *)
ASSUME NodeAssumption  == Tasks \cap Nat = {} /\ None \notin Nat

VARIABLES head, nodeCacheSize, lastAssignedCacheIndex, waiting, exceptionPtr,
          next, nodeTask,   \* m_next and m_task of each node
          freed,            \* heap nodes that were deleted
          failure,          \* m_ptr of each task
          refCount,         \* m_refCount of each task
          ran,              \* how often each task was given to its task_group
          pc,               \* where each actor is
          node,             \* the node an adder made, or a traversal is at
          old,              \* oldHead of add(), next of announce()
          result,           \* the exception the owner's calls are given
          added,            \* history: tasks for which add() was called
          presetSeen,       \* history: tasks in the list presetTaskAsFailed() walked
          resets            \* number of calls to reset()

listVars == <<head, nodeCacheSize, lastAssignedCacheIndex, waiting, exceptionPtr>>
nodeVars == <<next, nodeTask, freed>>
taskVars == <<failure, refCount, ran>>
history  == <<added, presetSeen, resets>>
vars     == <<listVars, nodeVars, taskVars, pc, node, old, result, history>>

Actors    == Tasks \cup {Owner}
HeapNode(t) == t                        \* the node `new WaitNode' returns for t
CacheNodes == 0..(InitialSize + Cardinality(Tasks))
Nodes     == CacheNodes \cup {HeapNode(t) : t \in Tasks}

AddSteps      == {"create", "exchange", "link", "relink", "recheck", "immediate",
                  "release"}
AnnounceSteps == {"announce", "follow", "consume", "drop"}
PresetSteps   == {"presetFollow", "presetFail"}
Labels        == {"idle", "ended", "doneWaiting", "clearWaiting"} \cup AddSteps \cup AnnounceSteps \cup PresetSteps

TypeOK ==
  /\ head \in Nodes \cup {None}
  /\ nodeCacheSize \in 0..(InitialSize + Cardinality(Tasks))
  /\ lastAssignedCacheIndex \in 0..Cardinality(Tasks)
  /\ waiting \in BOOLEAN
  /\ exceptionPtr \in Exceptions \cup {None}
  /\ next \in [Nodes -> Nodes \cup {None}]
  /\ nodeTask \in [Nodes -> Tasks \cup {None}]
  /\ freed \subseteq Tasks
  /\ failure \in [Tasks -> Exceptions \cup {None}]
  /\ refCount \in [Tasks -> 0..1]
  /\ ran \in [Tasks -> 0..1]
  /\ pc \in [Actors -> Labels]
  /\ node \in [Actors -> Nodes \cup {None}]
  /\ old \in [Actors -> Nodes \cup {None}]
  /\ result \in Exceptions \cup {None}
  /\ added \subseteq Tasks
  /\ presetSeen \subseteq Tasks
  /\ resets \in 0..MaxResets

Init ==
  /\ head = None
  /\ nodeCacheSize = InitialSize
  /\ lastAssignedCacheIndex = 0
  /\ waiting = TRUE
  /\ exceptionPtr = None
  /\ next = [n \in Nodes |-> None]
  /\ nodeTask = [n \in Nodes |-> None]
  /\ freed = {}
  /\ failure = [t \in Tasks |-> None]
  /\ refCount = [t \in Tasks |-> 0]
  /\ ran = [t \in Tasks |-> 0]
  /\ pc = [a \in Actors |-> "idle"]
  /\ node = [a \in Actors |-> None]
  /\ old = [a \in Actors |-> None]
  /\ result = None
  /\ added = {}
  /\ presetSeen = {}
  /\ resets = 0

Goto(a, label) == pc' = [pc EXCEPT ![a] = label]

-----------------------------------------------------------------------------
(* The waiting task.                                                       *)

(* WaitingTask::dependentTaskFailed(): the first exception is kept.        *)
DependentTaskFailed(f, t, e) ==
  IF e # None /\ f[t] = None THEN [f EXCEPT ![t] = e] ELSE f

(* decrement_ref_count(), and task_group::run() when it reached zero       *)
DropReference(t) ==
  /\ refCount' = [refCount EXCEPT ![t] = @ - 1]
  /\ ran' = [ran EXCEPT ![t] = IF refCount[t] = 1 THEN @ + 1 ELSE @]

-----------------------------------------------------------------------------
(* add(): a holder counts for its task already, the other overload         *)
(* increments the count first; both look at m_waiting next.                *)

(* Mutant: add() takes no reference to the task.                           *)
AddUncounted(t) ==
  /\ pc[t] = "idle"
  /\ t \notin added
  /\ added' = added \cup {t}
  /\ Goto(t, IF waiting THEN "create" ELSE "immediate")
  /\ UNCHANGED <<listVars, nodeVars, taskVars, node, old, result, presetSeen, resets>>

Add(t) ==
  /\ pc[t] = "idle"
  /\ t \notin added
  /\ added' = added \cup {t}
  /\ refCount' = [refCount EXCEPT ![t] = @ + 1]
  /\ Goto(t, IF waiting THEN "create" ELSE "immediate")
  /\ UNCHANGED <<listVars, nodeVars, failure, ran, node, old, result, presetSeen, resets>>

AddImmediate(t) ==
  /\ pc[t] = "immediate"
  /\ failure' = DependentTaskFailed(failure, t, exceptionPtr)
  /\ Goto(t, "release")
  /\ UNCHANGED <<listVars, nodeVars, refCount, ran, node, old, result, history>>

AddRelease(t) ==
  /\ pc[t] = "release"
  /\ DropReference(t)
  /\ Goto(t, "ended")
  /\ UNCHANGED <<listVars, nodeVars, failure, node, old, result, history>>

AddCreateNode(t) ==
  /\ pc[t] = "create"
  /\ lastAssignedCacheIndex' = lastAssignedCacheIndex + 1
  /\ LET n == IF lastAssignedCacheIndex < nodeCacheSize
                THEN lastAssignedCacheIndex ELSE HeapNode(t)
     IN  /\ node' = [node EXCEPT ![t] = n]
         /\ nodeTask' = [nodeTask EXCEPT ![n] = t]
         /\ next' = [next EXCEPT ![n] = n]
  /\ Goto(t, "exchange")
  /\ UNCHANGED <<head, nodeCacheSize, waiting, exceptionPtr, freed, taskVars, old,
                 result, history>>

AddExchange(t) ==
  /\ pc[t] = "exchange"
  /\ old' = [old EXCEPT ![t] = head]
  /\ head' = node[t]
  /\ Goto(t, "link")
  /\ UNCHANGED <<nodeCacheSize, lastAssignedCacheIndex, waiting, exceptionPtr,
                 nodeVars, taskVars, node, result, history>>

AddLink(t) ==
  /\ pc[t] = "link"
  /\ next' = [next EXCEPT ![node[t]] = old[t]]
  /\ Goto(t, IF old[t] # None THEN "ended"
             ELSE IF t \in HolderTasks THEN "relink" ELSE "recheck")
  /\ UNCHANGED <<listVars, nodeTask, freed, taskVars, node, old, result, history>>

(* Only add(WaitingTaskHolder) stores the null link a second time.         *)
AddRelink(t) ==
  /\ pc[t] = "relink"
  /\ next' = [next EXCEPT ![node[t]] = None]
  /\ Goto(t, "recheck")
  /\ UNCHANGED <<listVars, nodeTask, freed, taskVars, node, old, result, history>>

(* Mutant: the flag is not read again after the exchange.                  *)
AddNoRecheck(t) ==
  /\ pc[t] = "recheck"
  /\ Goto(t, "ended")
  /\ UNCHANGED <<listVars, nodeVars, taskVars, node, old, result, history>>

AddRecheck(t) ==
  /\ pc[t] = "recheck"
  /\ Goto(t, IF waiting THEN "ended" ELSE "announce")
  /\ UNCHANGED <<listVars, nodeVars, taskVars, node, old, result, history>>

-----------------------------------------------------------------------------
(* announce(), by the owner or by an adder that met an empty list.         *)

(* Mutant: the list is read and not taken.                                 *)
AnnounceRead(a) ==
  /\ pc[a] = "announce"
  /\ node' = [node EXCEPT ![a] = head]
  /\ Goto(a, IF head = None THEN "ended" ELSE "follow")
  /\ UNCHANGED <<listVars, nodeVars, taskVars, old, result, history>>

AnnounceTake(a) ==
  /\ pc[a] = "announce"
  /\ node' = [node EXCEPT ![a] = head]
  /\ head' = None
  /\ Goto(a, IF head = None THEN "ended" ELSE "follow")
  /\ UNCHANGED <<nodeCacheSize, lastAssignedCacheIndex, waiting, exceptionPtr,
                 nodeVars, taskVars, old, result, history>>

(* Spins while the node is not yet linked to the rest of the list.         *)
AnnounceFollow(a) ==
  /\ pc[a] = "follow"
  /\ next[node[a]] # node[a]
  /\ old' = [old EXCEPT ![a] = next[node[a]]]
  /\ Goto(a, "consume")
  /\ UNCHANGED <<listVars, nodeVars, taskVars, node, result, history>>

(* Mutant: announce() forgets to tell the task of the exception.           *)
AnnounceSilently(a) ==
  /\ pc[a] = "consume"
  /\ freed' = freed \cup ({node[a]} \cap Tasks)
  /\ Goto(a, "drop")
  /\ UNCHANGED <<listVars, next, nodeTask, taskVars, node, old, result, history>>

AnnounceConsume(a) ==
  /\ pc[a] = "consume"
  /\ failure' = DependentTaskFailed(failure, nodeTask[node[a]], exceptionPtr)
  /\ freed' = freed \cup ({node[a]} \cap Tasks)
  /\ Goto(a, "drop")
  /\ UNCHANGED <<listVars, next, nodeTask, refCount, ran, node, old, result, history>>

AnnounceDrop(a) ==
  /\ pc[a] = "drop"
  /\ DropReference(nodeTask[node[a]])
  /\ node' = [node EXCEPT ![a] = old[a]]
  /\ Goto(a, IF old[a] = None THEN "ended" ELSE "follow")
  /\ UNCHANGED <<listVars, nodeVars, failure, old, result, history>>

-----------------------------------------------------------------------------
(* The owner of the resource.                                              *)

(* presetTaskAsFailed(e), which doneWaiting(e) must follow                 *)
InList == {t \in added : pc[t] \in {"link", "relink", "recheck", "ended"} /\ ran[t] = 0}

Preset(e) ==
  /\ pc[Owner] = "idle"
  /\ result' = e
  /\ node' = [node EXCEPT ![Owner] = head]
  /\ presetSeen' = presetSeen \cup InList
  /\ Goto(Owner, IF head = None THEN "doneWaiting" ELSE "presetFollow")
  /\ UNCHANGED <<listVars, nodeVars, taskVars, old, added, resets>>

PresetFollow ==
  /\ pc[Owner] = "presetFollow"
  /\ next[node[Owner]] # node[Owner]
  /\ old' = [old EXCEPT ![Owner] = next[node[Owner]]]
  /\ Goto(Owner, "presetFail")
  /\ UNCHANGED <<listVars, nodeVars, taskVars, result, node, history>>

(* Mutant: only the first task of the list is told.                        *)
PresetFirst ==
  /\ pc[Owner] = "presetFail"
  /\ failure' = DependentTaskFailed(failure, nodeTask[node[Owner]], result)
  /\ node' = [node EXCEPT ![Owner] = None]
  /\ Goto(Owner, "doneWaiting")
  /\ UNCHANGED <<listVars, nodeVars, refCount, ran, result, old, history>>

PresetFail ==
  /\ pc[Owner] = "presetFail"
  /\ failure' = DependentTaskFailed(failure, nodeTask[node[Owner]], result)
  /\ node' = [node EXCEPT ![Owner] = old[Owner]]
  /\ Goto(Owner, IF old[Owner] = None THEN "doneWaiting" ELSE "presetFollow")
  /\ UNCHANGED <<listVars, nodeVars, refCount, ran, result, old, history>>

(* doneWaiting(e): the exception, then the flag, then announce()           *)
DoneWaiting(e) ==
  /\ \/ pc[Owner] = "idle"
     \/ pc[Owner] = "doneWaiting" /\ e = result
  /\ exceptionPtr' = e
  /\ Goto(Owner, "clearWaiting")
  /\ UNCHANGED <<head, nodeCacheSize, lastAssignedCacheIndex, waiting, nodeVars,
                 taskVars, result, node, old, history>>

ClearWaiting ==
  /\ pc[Owner] = "clearWaiting"
  /\ waiting' = FALSE
  /\ Goto(Owner, "announce")
  /\ UNCHANGED <<head, nodeCacheSize, lastAssignedCacheIndex, exceptionPtr, nodeVars,
                 taskVars, result, node, old, history>>

(* "neither add() nor doneWaiting() can be called concurrently with        *)
(* reset()": the caller sees to it that every call has returned.           *)
NobodyInside == \A a \in Actors : pc[a] \in {"idle", "ended"}

Reset ==
  /\ pc[Owner] = "ended"
  /\ NobodyInside
  /\ resets < MaxResets
  /\ resets' = resets + 1
  /\ exceptionPtr' = None
  /\ lastAssignedCacheIndex' = 0
  /\ nodeCacheSize' = IF lastAssignedCacheIndex > nodeCacheSize
                        THEN lastAssignedCacheIndex ELSE nodeCacheSize
  /\ waiting' = TRUE
  /\ Goto(Owner, "idle")
  /\ UNCHANGED <<head, nodeVars, taskVars, result, node, old, added, presetSeen>>

-----------------------------------------------------------------------------
AdderStep(t) == \/ AddImmediate(t) \/ AddRelease(t) \/ AddCreateNode(t) \/ AddExchange(t)
                \/ AddLink(t) \/ AddRelink(t) \/ AddRecheck(t)

AnnounceStep(a) == AnnounceTake(a) \/ AnnounceFollow(a) \/ AnnounceConsume(a)
                   \/ AnnounceDrop(a)

OwnerStep == PresetFollow \/ PresetFail \/ ClearWaiting

OwnerDone == \E e \in Exceptions \cup {None} : DoneWaiting(e)

(* Every task was added, the resource is done, no call is left.            *)
AtRest == /\ added = Tasks /\ NobodyInside
          /\ pc[Owner] = "ended" /\ resets = MaxResets
          /\ UNCHANGED vars

Next == \/ \E t \in Tasks : Add(t) \/ AdderStep(t)
        \/ \E a \in Actors : AnnounceStep(a)
        \/ \E e \in Exceptions : Preset(e)
        \/ OwnerDone \/ OwnerStep \/ Reset
        \/ AtRest

Spec == Init /\ [][Next]_vars

(* Calls that were begun go on, and the owner's work ends at some time:    *)
(* something happens while one of these can.                               *)
Progress == \/ \E t \in Tasks : AdderStep(t)
            \/ \E a \in Actors : AnnounceStep(a)
            \/ OwnerStep \/ OwnerDone

FairSpec == Spec /\ WF_vars(Progress)

-----------------------------------------------------------------------------
(* Correctness.                                                            *)

(* The node an actor is about to read or write.                            *)
Touches(a) == IF pc[a] \in {"link", "follow", "consume"} \cup PresetSteps
                THEN {node[a]} ELSE {}

(* Nobody uses a heap node that an announce() has deleted already, and a   *)
(* node is announced by one thread only.                                   *)
NodesAlive ==
  /\ \A a \in Actors : Touches(a) \cap freed = {}
  /\ \A a, b \in Actors : pc[a] \in {"follow", "consume", "drop"} /\ a # b =>
        node[a] \notin (IF pc[b] \in AnnounceSteps \ {"announce"} THEN {node[b]} ELSE {})

(* "Calls to add() and doneWaiting() can safely be done concurrently"      *)
(* (WaitingTaskList.h:123): when add(WaitingTaskHolder) stores the link of *)
(* its node a second time, the node must not have been deleted meanwhile.  *)
RelinkAlive == \A t \in Tasks : pc[t] = "relink" => node[t] \notin freed

(* When the resource is done and no call is in progress the list is empty  *)
(* (the assert of reset()) and every task added was given to its group.    *)
NobodyForgotten ==
  NobodyInside /\ ~waiting => head = None /\ \A t \in added : ran[t] = 1

(* Where the calls are.  While the resource is not done nobody announces;  *)
(* the owner is on its way to set the flag, or has.                        *)
CallsInOrder ==
  /\ \A t \in Tasks : /\ pc[t] \in {"idle", "ended"} \cup AddSteps \cup AnnounceSteps
                      /\ pc[t] = "idle" <=> t \notin added
                      /\ pc[t] \in {"relink", "recheck"} => old[t] = None
  /\ pc[Owner] \in IF waiting THEN {"idle", "doneWaiting", "clearWaiting"} \cup PresetSteps
                   ELSE {"ended"} \cup AnnounceSteps
  /\ waiting => \A t \in Tasks : pc[t] \notin AnnounceSteps \cup {"immediate", "release"}
  /\ pc[Owner] \in PresetSteps => result # None

(* Each task waits until it has run: it has one node, or none yet, or is   *)
(* not to get one.                                                         *)
TasksCounted ==
  \A t \in Tasks :
    /\ refCount[t] = IF t \in added /\ ran[t] = 0 THEN 1 ELSE 0
    /\ pc[t] \in {"idle", "create", "exchange", "immediate", "release"} => ran[t] = 0
    /\ t \in added /\ ran[t] = 0 =>
         pc[t] \in {"create", "immediate", "release"} \/ \E n \in Nodes : nodeTask[n] = t
    /\ \A m, n \in Nodes : nodeTask[m] = t /\ nodeTask[n] = t => m = n

(* A node of the cache that waits for its task is below the index.         *)
Assigned(n) == n \in Tasks \/ n < lastAssignedCacheIndex

NodesOwned ==
  /\ \A n \in Nodes : nodeTask[n] # None =>
       /\ pc[nodeTask[n]] \notin {"idle", "create", "immediate", "release"}
       /\ n \in Tasks => n = nodeTask[n]
       /\ ran[nodeTask[n]] = 0 => Assigned(n)
  /\ \A t \in Tasks : pc[t] \in {"exchange", "link", "relink"} =>
       /\ node[t] \in Nodes /\ nodeTask[node[t]] = t /\ Assigned(node[t])
       /\ next[node[t]] = IF pc[t] = "relink" THEN None ELSE node[t]
  /\ \A n \in freed : nodeTask[n] = n /\ pc[n] # "exchange"
  /\ lastAssignedCacheIndex <= Cardinality({t \in added : pc[t] # "create"})

(* The nodes in the list, or in a list that somebody has taken; what comes *)
(* after each; and the node a thread that announces will take next.        *)
Linked    == {n \in Nodes : /\ nodeTask[n] # None
                            /\ pc[nodeTask[n]] # "exchange" /\ ran[nodeTask[n]] = 0}
Chain     == {n \in Linked : \A a \in Actors : pc[a] = "drop" => node[a] # n}
Succ(n)   == IF next[n] = n THEN old[nodeTask[n]] ELSE next[n]
Cursor(a) == IF pc[a] \in {"follow", "consume"} THEN node[a]
             ELSE IF pc[a] = "drop" THEN old[a] ELSE None

(* Each of them is pointed to from one place: the head, the cursor of one  *)
(* thread, or the node before it; there are no cycles.                     *)
PointedToOnce ==
  /\ head # None => head \in Chain
  /\ \A a \in Actors : Cursor(a) # None =>
       /\ Cursor(a) \in Chain /\ Cursor(a) # head
       /\ \A b \in Actors : Cursor(b) = Cursor(a) => a = b
  /\ \A m \in Chain : Succ(m) # None =>
       /\ Succ(m) \in Chain /\ Succ(m) # head
       /\ \A a \in Actors : Cursor(a) # Succ(m)
       /\ \A n \in Chain : Succ(n) = Succ(m) => m = n
  /\ \A n \in Chain : \/ n = head \/ \E a \in Actors : n = Cursor(a)
                      \/ \E m \in Chain : n = Succ(m)
NoCycle == \A S \in SUBSET Chain : S # {} => \E n \in S : \A m \in S : Succ(m) # n

(* What a step of add(), announce() or presetTaskAsFailed() relies on.     *)
StepsSound ==
  /\ \A n \in Chain : next[n] = n => pc[nodeTask[n]] = "link"
  /\ \A t \in Tasks : pc[t] = "link" => node[t] \in Chain
  /\ freed \cap Chain = {}
  /\ \A a \in Actors :
       /\ pc[a] \in {"follow", "consume"} \cup PresetSteps => node[a] \in Chain
       /\ pc[a] \in {"consume", "presetFail"} => old[a] = next[node[a]] /\ old[a] # node[a]
       /\ pc[a] = "drop" => /\ node[a] \in Linked
                            /\ exceptionPtr # None => failure[nodeTask[node[a]]] # None
                            /\ \A b \in Actors : pc[b] = "drop" /\ node[b] = node[a] => a = b
  /\ \A t \in Tasks : pc[t] = "release" /\ exceptionPtr # None => failure[t] # None

(* Once the resource is done, somebody will take a list that is not empty. *)
SomebodyAnnounces ==
  head # None /\ ~waiting =>
    \/ \E a \in Actors : pc[a] = "announce"
    \/ \E t \in Tasks : pc[t] \in {"link", "relink", "recheck"} /\ old[t] = None

(* The list itself: it is walked safely and loses nobody.                  *)
ListIntact == /\ NodesAlive /\ NobodyForgotten /\ CallsInOrder /\ TasksCounted /\ NodesOwned
              /\ PointedToOnce /\ NoCycle /\ StepsSound /\ SomebodyAnnounces

(* A task the owner preset as failed keeps that failure.  Those not told   *)
(* yet are ahead of presetTaskAsFailed() in the list.                      *)
Untold == {n \in Chain : nodeTask[n] \in presetSeen /\ failure[nodeTask[n]] = None}

PresetTold ==
  /\ \A t \in Tasks : failure[t] # None => /\ t \in added
                                           /\ pc[Owner] = "idle" => ran[t] = 1
  /\ \A t \in presetSeen : failure[t] = None =>
       /\ pc[Owner] \in PresetSteps
       /\ \E n \in Untold : nodeTask[n] = t /\ (n = node[Owner] \/ \E m \in Untold : Succ(m) = n)

(* Every task added runs, once the owner is done.                          *)
EveryTaskRuns == \A t \in Tasks : t \in added ~> ran[t] = 1

-----------------------------------------------------------------------------
Released == {t \in Tasks : ran[t] > 0}

Latch == INSTANCE ResourceLatch
           WITH exception <- IF waiting THEN None ELSE exceptionPtr,
                released <- Released

(* Tasks are released exactly once, never before the resource is done, and *)
(* with the exception it ended with.                                       *)
ImplementsLatch == Latch!Spec
=============================================================================
