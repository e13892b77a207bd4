------------------------ MODULE WaitingTaskListProofs ------------------------
(***************************************************************************)
(* Proofs about WaitingTaskList, for any finite set of tasks, any initial  *)
(* size of the cache and any number of resets: the list loses nobody and   *)
(* touches no node that was deleted, and it implements ResourceLatch.      *)
(***************************************************************************)
EXTENDS WaitingTaskList, FiniteSetTheorems, TLAPS

Invariant == TypeOK /\ ListIntact /\ PresetTold

-----------------------------------------------------------------------------
(* Lemmas about the operators of the model.                                *)

LEMMA NodeFacts ==
  /\ Cardinality(Tasks) \in Nat /\ InitialSize \in Nat /\ MaxResets \in Nat
  /\ CacheNodes \subseteq Nat /\ CacheNodes = 0..(InitialSize + Cardinality(Tasks))
  /\ CacheNodes \cap Tasks = {} /\ Nodes = CacheNodes \cup Tasks
  /\ None \notin Nodes /\ None \notin Tasks /\ None \notin Exceptions
  /\ Owner \notin Tasks /\ Actors = Tasks \cup {Owner}
<1>1. Cardinality(Tasks) \in Nat
  BY ActorAssumption, FS_CardinalityType
<1>2. CacheNodes \subseteq Nat
  BY <1>1, SizeAssumption DEF CacheNodes
<1> QED
  BY <1>1, <1>2, ActorAssumption, SizeAssumption, NodeAssumption
     DEF CacheNodes, Nodes, HeapNode, Actors

LEMMA Types ==
  ASSUME TypeOK
  PROVE  /\ head \in Nodes \cup {None} /\ waiting \in BOOLEAN
         /\ nodeCacheSize \in 0..(InitialSize + Cardinality(Tasks))
         /\ lastAssignedCacheIndex \in 0..Cardinality(Tasks)
         /\ exceptionPtr \in Exceptions \cup {None} /\ result \in Exceptions \cup {None}
         /\ next \in [Nodes -> Nodes \cup {None}] /\ nodeTask \in [Nodes -> Tasks \cup {None}]
         /\ freed \subseteq Tasks /\ failure \in [Tasks -> Exceptions \cup {None}]
         /\ refCount \in [Tasks -> 0..1] /\ ran \in [Tasks -> 0..1]
         /\ pc \in [Actors -> Labels] /\ node \in [Actors -> Nodes \cup {None}]
         /\ old \in [Actors -> Nodes \cup {None}] /\ added \subseteq Tasks
         /\ presetSeen \subseteq Tasks /\ resets \in 0..MaxResets
         /\ Nodes = CacheNodes \cup Tasks /\ CacheNodes \cap Tasks = {} /\ None \notin Nodes
         /\ None \notin Tasks /\ None \notin Exceptions /\ Owner \notin Tasks
         /\ Tasks \subseteq Actors /\ Owner \in Actors /\ Actors = Tasks \cup {Owner}
BY NodeFacts DEF TypeOK

LEMMA Parts ==
  ASSUME Invariant
  PROVE  /\ TypeOK /\ CallsInOrder /\ TasksCounted /\ NodesOwned /\ PointedToOnce /\ NoCycle
         /\ StepsSound /\ SomebodyAnnounces /\ NobodyForgotten /\ PresetTold /\ NodesAlive
BY DEF Invariant, ListIntact

(* The node that createNode() gives a task is nobody's.                    *)
NewNode(t) == IF lastAssignedCacheIndex < nodeCacheSize THEN lastAssignedCacheIndex ELSE HeapNode(t)

LEMMA FreshNode ==
  ASSUME Invariant, NEW t \in Tasks, pc[t] = "create"
  PROVE  /\ NewNode(t) \in Nodes /\ (NewNode(t) \in Tasks => NewNode(t) = t)
         /\ NewNode(t) \notin Tasks => NewNode(t) = lastAssignedCacheIndex
         /\ NewNode(t) \notin Linked /\ NewNode(t) \notin freed
         /\ nodeTask[NewNode(t)] # None => ran[nodeTask[NewNode(t)]] = 1
         /\ \A u \in Tasks : pc[u] \in {"exchange", "link", "relink"} => node[u] # NewNode(t)
         /\ \A n \in Nodes : nodeTask[n] # t
<1> DEFINE n == NewNode(t)
<1>0. TypeOK /\ NodesOwned /\ TasksCounted
  BY Parts
<1>1. n \in Nodes /\ (n \in Tasks => n = t) /\ (n \notin Tasks => n = lastAssignedCacheIndex)
  BY <1>0, Types, NodeFacts DEF NewNode, HeapNode
<1>2. \A m \in Nodes : nodeTask[m] # t
  BY <1>0, Types DEF NodesOwned
<1>3. ~(n \notin Tasks /\ Assigned(n))
  BY <1>0, <1>1, Types, NodeFacts DEF Assigned
<1>4. nodeTask[n] # None => ran[nodeTask[n]] = 1
  <2> SUFFICES ASSUME nodeTask[n] # None, ran[nodeTask[n]] # 1 PROVE FALSE
    OBVIOUS
  <2>1. nodeTask[n] \in Tasks /\ ran[nodeTask[n]] = 0
    BY <1>0, <1>1, Types
  <2>2. Assigned(n) /\ (n \in Tasks => n = nodeTask[n])
    BY <1>0, <1>1, <2>1 DEF NodesOwned
  <2> QED
    BY <1>1, <1>2, <1>3, <2>2
<1>5. \A u \in Tasks : pc[u] \in {"exchange", "link", "relink"} => node[u] # n
  <2> SUFFICES ASSUME NEW u \in Tasks, pc[u] \in {"exchange", "link", "relink"}, node[u] = n
               PROVE  FALSE
    OBVIOUS
  <2>1. Assigned(n) /\ nodeTask[n] = u
    BY <1>0 DEF NodesOwned
  <2>2. n \in Tasks => n = u
    BY <1>0, <1>1, <2>1, Types DEF NodesOwned
  <2> QED
    BY <1>1, <1>3, <2>1, <2>2
<1>6. n \notin freed
  BY <1>0, <1>1, <1>2, Types DEF NodesOwned
<1>7. n \notin Linked
  BY <1>4 DEF Linked
<1> QED
  BY <1>1, <1>2, <1>4, <1>5, <1>6, <1>7

LEMMA StepCases ==
  ASSUME [Next]_vars
  PROVE  \/ \E t \in Tasks : \/ Add(t) \/ AddImmediate(t) \/ AddRelease(t) \/ AddCreateNode(t)
                             \/ AddExchange(t) \/ AddLink(t) \/ AddRelink(t) \/ AddRecheck(t)
         \/ \E a \in Actors : \/ AnnounceTake(a) \/ AnnounceFollow(a) \/ AnnounceConsume(a)
                              \/ AnnounceDrop(a)
         \/ \E e \in Exceptions : Preset(e)
         \/ \E e \in Exceptions \cup {None} : DoneWaiting(e)
         \/ PresetFollow \/ PresetFail \/ ClearWaiting \/ Reset
         \/ UNCHANGED vars
BY Zenon DEF Next, AdderStep, AnnounceStep, OwnerStep, OwnerDone, AtRest

(* When nobody is inside and the resource is done, everybody has run.      *)
LEMMA NothingLinked ==
  ASSUME Invariant, NobodyInside, ~waiting
  PROVE  /\ head = None /\ Linked = {} /\ Chain = {}
         /\ \A t \in Tasks : t \in added <=> ran[t] = 1
<1>0. TypeOK /\ NobodyForgotten /\ CallsInOrder /\ TasksCounted
  BY Parts
<1>1. head = None /\ \A t \in added : ran[t] = 1
  BY <1>0 DEF NobodyForgotten
<1>2. \A t \in Tasks : t \notin added => ran[t] = 0 /\ pc[t] = "idle"
  BY <1>0 DEF CallsInOrder, TasksCounted
<1>3. \A n \in Nodes : nodeTask[n] # None => ran[nodeTask[n]] = 1
  BY <1>0, <1>1, <1>2, Parts, Types DEF NodesOwned
<1>4. Linked = {}
  BY <1>3 DEF Linked
<1> QED
  BY <1>1, <1>2, <1>4 DEF Chain

-----------------------------------------------------------------------------
(* What a step does to the list.                                           *)

SameList == /\ head' = head /\ Chain' = Chain
            /\ \A n \in Chain : Succ(n)' = Succ(n)
            /\ \A a \in Actors : Cursor(a)' = Cursor(a)

Pushed(n) == /\ n \in Nodes \ Chain /\ head' = n /\ Chain' = Chain \cup {n}
             /\ Succ(n)' = head
             /\ \A m \in Chain : Succ(m)' = Succ(m)
             /\ \A a \in Actors : Cursor(a)' = Cursor(a)

Taken(a) == /\ head' = None /\ Chain' = Chain
            /\ \A n \in Chain : Succ(n)' = Succ(n)
            /\ Cursor(a) = None /\ Cursor(a)' = head
            /\ \A b \in Actors : b # a => Cursor(b)' = Cursor(b)

Consumed(a) == /\ Cursor(a) \in Chain /\ head' = head /\ Chain' = Chain \ {Cursor(a)}
               /\ \A n \in Chain' : Succ(n)' = Succ(n)
               /\ Cursor(a)' = Succ(Cursor(a))
               /\ \A b \in Actors : b # a => Cursor(b)' = Cursor(b)

LEMMA InChain ==
  ASSUME TypeOK, NEW n
  PROVE  n \in Chain <=> /\ n \in Nodes /\ nodeTask[n] \in Tasks /\ pc[nodeTask[n]] # "exchange"
                         /\ ran[nodeTask[n]] = 0 /\ \A a \in Actors : pc[a] = "drop" => node[a] # n
BY Types DEF Chain, Linked

(* Nothing that is in the list changes its place when these take a step.   *)
LEMMA AddSameList ==
  ASSUME Invariant, NEW t \in Tasks,
         Add(t) \/ AddImmediate(t) \/ AddRelease(t) \/ AddCreateNode(t) \/ AddLink(t)
         \/ AddRelink(t) \/ AddRecheck(t)
  PROVE  SameList
<1>0. TypeOK /\ CallsInOrder /\ TasksCounted /\ NodesOwned /\ StepsSound /\ NoCycle
  BY Parts
<1>1. CASE Add(t) \/ AddImmediate(t) \/ AddRelease(t)
  <2>1. /\ UNCHANGED <<head, next, nodeTask, node, old>> /\ pc[t] \in {"idle", "immediate", "release"}
        /\ \E to \in {"create", "immediate", "release", "ended"} : pc' = [pc EXCEPT ![t] = to]
        /\ \A u \in Tasks : u # t => ran'[u] = ran[u]
    BY <1>1, Types, <1>0
       DEF Add, AddImmediate, AddRelease, DropReference, Goto, nodeVars, listVars, taskVars
  <2>2. \A n \in Nodes : nodeTask[n] # t
    BY <1>0, <2>1, Types DEF NodesOwned
  <2>3. \A a \in Actors : pc'[a] = "drop" <=> pc[a] = "drop"
    BY <1>0, <2>1, Types
  <2>4. \A n \in Linked' : n \in Linked
    BY <1>0, <2>1, <2>2, Types DEF Linked
  <2>5. \A n \in Linked : n \in Linked'
    BY <1>0, <2>1, <2>2, Types DEF Linked
  <2>6. Linked' = Linked
    BY <2>4, <2>5 DEF Linked
  <2>7. Chain' = Chain
    BY <2>1, <2>3, <2>6 DEF Chain
  <2> QED
    BY <1>0, <2>1, <2>7, Types DEF SameList, Succ, Cursor
<1>2. CASE AddCreateNode(t)
  <2>1. PICK n \in Nodes :
           /\ n \notin Linked /\ n \notin Linked'
           /\ nodeTask' = [nodeTask EXCEPT ![n] = t] /\ next' = [next EXCEPT ![n] = n]
           /\ node' = [node EXCEPT ![t] = n] /\ pc' = [pc EXCEPT ![t] = "exchange"]
           /\ pc[t] = "create" /\ UNCHANGED <<head, old, ran>>
           /\ \A m \in Nodes : nodeTask[m] # t
    <3>1. /\ nodeTask' = [nodeTask EXCEPT ![NewNode(t)] = t]
          /\ next' = [next EXCEPT ![NewNode(t)] = NewNode(t)]
          /\ node' = [node EXCEPT ![t] = NewNode(t)] /\ pc' = [pc EXCEPT ![t] = "exchange"]
          /\ pc[t] = "create" /\ UNCHANGED <<head, old, ran>>
      BY <1>2 DEF AddCreateNode, NewNode, Goto, taskVars
    <3>2. NewNode(t) \notin Linked'
      BY <1>0, <3>1, FreshNode, Types DEF Linked
    <3> QED
      BY <3>1, <3>2, FreshNode
  <2>2. \A m : m \in Linked' <=> m \in Linked
    BY <1>0, <2>1, Types DEF Linked
  <2>3. \A a \in Actors : /\ pc'[a] = "drop" <=> pc[a] = "drop"
                          /\ pc[a] = "drop" => node'[a] = node[a]
    BY <1>0, <2>1, Types
  <2>4. Linked' = Linked
    BY <2>2 DEF Linked
  <2>5. Chain' = Chain
    BY <2>3, <2>4 DEF Chain
  <2>6. \A m \in Chain : m \in Nodes /\ m # n
    BY <2>1 DEF Chain, Linked
  <2> QED
    BY <1>0, <2>1, <2>5, <2>6, Types DEF SameList, Succ, Cursor
<1>3. CASE AddLink(t)
  <2>1. PICK n \in Nodes : n = node[t] /\ nodeTask[n] = t /\ next[n] = n /\ n \in Chain
    BY <1>0, <1>3 DEF AddLink, NodesOwned, StepsSound
  <2>2. /\ next' = [next EXCEPT ![n] = old[t]] /\ pc[t] = "link"
        /\ \E to \in {"ended", "relink", "recheck"} : pc' = [pc EXCEPT ![t] = to]
        /\ UNCHANGED <<head, nodeTask, node, old, ran>>
    BY <1>3, <2>1 DEF AddLink, Goto, listVars, taskVars
  <2>3. old[t] # n
    <3>1. Succ(n) = old[t]
      BY <2>1 DEF Succ
    <3>2. {n} \in SUBSET Chain /\ {n} # {}
      BY <2>1
    <3>3. \E m \in {n} : \A k \in {n} : Succ(k) # m
      BY <1>0, <3>2 DEF NoCycle
    <3> QED
      BY <3>1, <3>3
  <2>4. Chain' = Chain
    <3>1. \A m : m \in Chain' <=> m \in Chain
      BY <1>0, <2>1, <2>2, Types DEF Chain, Linked
    <3> QED
      BY <3>1 DEF Chain, Linked
  <2>5. \A m \in Chain : Succ(m)' = Succ(m)
    BY <1>0, <2>1, <2>2, <2>3, Types DEF Succ, Chain, Linked
  <2>6. \A a \in Actors : Cursor(a)' = Cursor(a)
    BY <1>0, <2>1, <2>2, Types DEF Cursor
  <2> QED
    BY <2>2, <2>4, <2>5, <2>6 DEF SameList
<1>4. CASE AddRelink(t) \/ AddRecheck(t)
  <2>1. /\ \E to \in {"recheck", "ended", "announce"} : pc' = [pc EXCEPT ![t] = to]
        /\ pc[t] \in {"relink", "recheck"} /\ UNCHANGED <<head, nodeTask, node, old, ran>>
    BY <1>4 DEF AddRelink, AddRecheck, Goto, listVars, nodeVars, taskVars
  <2>2. next' = next
    <3>1. CASE AddRelink(t)
      <4>1. node[t] \in Nodes /\ next[node[t]] = None
        BY <1>0, <3>1 DEF AddRelink, NodesOwned
      <4> QED
        BY <1>0, <3>1, <4>1, Types DEF AddRelink
    <3>2. CASE AddRecheck(t)
      BY <3>2 DEF AddRecheck, nodeVars
    <3> QED
      BY <1>4, <3>1, <3>2
  <2>3. Chain' = Chain
    <3>1. \A m : m \in Chain' <=> m \in Chain
      BY <1>0, <2>1, Types DEF Chain, Linked
    <3> QED
      BY <3>1 DEF Chain, Linked
  <2> QED
    BY <1>0, <2>1, <2>2, <2>3, Types DEF SameList, Succ, Cursor
<1> QED
  BY <1>1, <1>2, <1>3, <1>4

LEMMA OwnerSameList ==
  ASSUME Invariant,
         (\E e \in Exceptions : Preset(e)) \/ (\E e \in Exceptions \cup {None} : DoneWaiting(e))
         \/ PresetFollow \/ PresetFail \/ ClearWaiting \/ Reset \/ UNCHANGED vars
  PROVE  SameList
<1>0. TypeOK /\ CallsInOrder /\ StepsSound
  BY Parts
<1>1. CASE UNCHANGED vars
  BY <1>1 DEF vars, listVars, nodeVars, taskVars, SameList, Chain, Linked, Succ, Cursor
<1>2. CASE ~UNCHANGED vars
  <2>1. /\ UNCHANGED <<head, next, nodeTask, ran>>
        /\ \A a \in Tasks : pc'[a] = pc[a] /\ node'[a] = node[a] /\ old'[a] = old[a]
        /\ pc[Owner] \in {"idle", "doneWaiting", "clearWaiting", "ended"} \cup PresetSteps
        /\ pc'[Owner] \in {"idle", "doneWaiting", "clearWaiting", "announce"} \cup PresetSteps
    <3>1. /\ UNCHANGED <<head, next, nodeTask, ran>>
          /\ UNCHANGED node \/ \E n : node' = [node EXCEPT ![Owner] = n]
          /\ UNCHANGED old \/ \E n : old' = [old EXCEPT ![Owner] = n]
          /\ \E to \in {"idle", "doneWaiting", "clearWaiting", "announce"} \cup PresetSteps :
               pc' = [pc EXCEPT ![Owner] = to]
          /\ pc[Owner] \in {"idle", "doneWaiting", "clearWaiting", "ended"} \cup PresetSteps
      BY <1>2 DEF Preset, DoneWaiting, PresetFollow, PresetFail, ClearWaiting, Reset, PresetSteps,
                  Goto, vars, listVars, nodeVars, taskVars
    <3> QED
      BY <1>0, <3>1, Types
  <2>2. \A a \in Actors : /\ pc'[a] = "drop" <=> pc[a] = "drop"
                          /\ pc[a] = "drop" => node'[a] = node[a]
    BY <1>0, <2>1, Types DEF PresetSteps
  <2>3. Linked' = Linked
    <3>1. \A m : m \in Linked' <=> m \in Linked
      BY <1>0, <2>1, Types DEF Linked
    <3> QED
      BY <3>1 DEF Linked
  <2>4. Chain' = Chain
    BY <2>2, <2>3 DEF Chain
  <2>5. \A m \in Chain : Succ(m)' = Succ(m)
    BY <1>0, <2>1, Types DEF Succ, Chain, Linked
  <2>6. \A a \in Actors : Cursor(a)' = Cursor(a)
    BY <1>0, <2>1, Types DEF Cursor, PresetSteps
  <2> QED
    BY <2>1, <2>4, <2>5, <2>6 DEF SameList
<1> QED
  BY <1>1, <1>2

LEMMA ExchangePushes ==
  ASSUME Invariant, NEW t \in Tasks, AddExchange(t)
  PROVE  Pushed(node[t]) /\ node[t] \in Nodes /\ nodeTask[node[t]] = t
<1>0. TypeOK /\ CallsInOrder /\ TasksCounted /\ NodesOwned /\ StepsSound
  BY Parts
<1>1. PICK n \in Nodes : n = node[t] /\ nodeTask[n] = t /\ next[n] = n
  BY <1>0 DEF AddExchange, NodesOwned
<1>2. /\ pc[t] = "exchange" /\ pc' = [pc EXCEPT ![t] = "link"] /\ head' = n
      /\ old' = [old EXCEPT ![t] = head] /\ UNCHANGED <<next, nodeTask, node, ran>>
  BY <1>1 DEF AddExchange, Goto, nodeVars, taskVars
<1>3. ran[t] = 0 /\ \A m \in Nodes : nodeTask[m] = t => m = n
  BY <1>0, <1>1, <1>2 DEF TasksCounted
<1>4. \A a \in Actors : pc[a] = "drop" => node[a] # n
  <2> SUFFICES ASSUME NEW a \in Actors, pc[a] = "drop", node[a] = n PROVE FALSE
    OBVIOUS
  <2> QED
    BY <1>0, <1>1, <1>2 DEF StepsSound, Linked
<1>5. n \notin Chain
  BY <1>1, <1>2 DEF Chain, Linked
<1>6. Chain' = Chain \cup {n}
  <2>1. \A m : m \in Chain' => m \in Chain \cup {n}
    BY <1>0, <1>1, <1>2, <1>3, Types DEF Chain, Linked
  <2>2. \A m \in Chain : m \in Chain'
    BY <1>0, <1>2, Types DEF Chain, Linked
  <2>3. n \in Chain'
    BY <1>0, <1>1, <1>2, <1>3, <1>4, Types DEF Chain, Linked
  <2> QED
    BY <2>1, <2>2, <2>3
<1>7. Succ(n)' = head
  BY <1>0, <1>1, <1>2, Types DEF Succ
<1>8. \A m \in Chain : Succ(m)' = Succ(m)
  BY <1>0, <1>1, <1>2, <1>3, Types DEF Succ, Chain, Linked
<1>9. \A a \in Actors : Cursor(a)' = Cursor(a)
  BY <1>0, <1>2, Types DEF Cursor
<1> QED
  BY <1>1, <1>2, <1>5, <1>6, <1>7, <1>8, <1>9 DEF Pushed

LEMMA AnnounceForm ==
  ASSUME Invariant, NEW a \in Actors
  PROVE  /\ AnnounceTake(a) => Taken(a)
         /\ AnnounceFollow(a) => SameList
         /\ AnnounceConsume(a) => Consumed(a) /\ Cursor(a) = node[a]
         /\ AnnounceDrop(a) => SameList
<1>0. TypeOK /\ CallsInOrder /\ TasksCounted /\ NodesOwned /\ StepsSound
  BY Parts
<1>1. ASSUME AnnounceTake(a) PROVE Taken(a)
  <2>1. /\ pc[a] = "announce" /\ UNCHANGED <<next, nodeTask, ran, old>> /\ head' = None
        /\ node' = [node EXCEPT ![a] = head]
        /\ pc' = [pc EXCEPT ![a] = IF head = None THEN "ended" ELSE "follow"]
    BY <1>1 DEF AnnounceTake, Goto, nodeVars, taskVars
  <2>2. Chain' = Chain
    <3>1. \A m : m \in Chain' <=> m \in Chain
      BY <1>0, <2>1, Types DEF Chain, Linked
    <3> QED
      BY <3>1 DEF Chain, Linked
  <2>3. \A m \in Chain : Succ(m)' = Succ(m)
    BY <2>1 DEF Succ
  <2>4. Cursor(a) = None /\ Cursor(a)' = head
    BY <1>0, <2>1, Types DEF Cursor
  <2>5. \A b \in Actors : b # a => Cursor(b)' = Cursor(b)
    BY <1>0, <2>1, Types DEF Cursor
  <2> QED
    BY <2>1, <2>2, <2>3, <2>4, <2>5 DEF Taken
<1>2. ASSUME AnnounceFollow(a) PROVE SameList
  <2>1. /\ pc[a] = "follow" /\ UNCHANGED <<head, next, nodeTask, ran, node>>
        /\ old' = [old EXCEPT ![a] = next[node[a]]] /\ pc' = [pc EXCEPT ![a] = "consume"]
    BY <1>2 DEF AnnounceFollow, Goto, nodeVars, taskVars, listVars
  <2>2. Chain' = Chain
    <3>1. \A m : m \in Chain' <=> m \in Chain
      BY <1>0, <2>1, Types DEF Chain, Linked
    <3> QED
      BY <3>1 DEF Chain, Linked
  <2>3. \A m \in Chain : Succ(m)' = Succ(m)
    <3>1. \A m \in Chain : next[m] = m => nodeTask[m] # a
      BY <1>0, <2>1 DEF StepsSound
    <3> QED
      BY <1>0, <2>1, <3>1, Types DEF Succ, Chain, Linked
  <2>4. \A b \in Actors : Cursor(b)' = Cursor(b)
    BY <1>0, <2>1, Types DEF Cursor
  <2> QED
    BY <2>1, <2>2, <2>3, <2>4 DEF SameList
<1>3. ASSUME AnnounceConsume(a) PROVE Consumed(a) /\ Cursor(a) = node[a]
  <2>1. /\ pc[a] = "consume" /\ UNCHANGED <<head, next, nodeTask, ran, node, old>>
        /\ pc' = [pc EXCEPT ![a] = "drop"]
    BY <1>3 DEF AnnounceConsume, Goto, listVars
  <2>2. PICK n \in Chain : n = node[a] /\ old[a] = next[n] /\ next[n] # n
    BY <1>0, <2>1 DEF StepsSound
  <2>3. Cursor(a) = n /\ Cursor(a)' = Succ(n)
    BY <1>0, <2>1, <2>2, Types DEF Cursor, Succ
  <2>4. Chain' = Chain \ {n}
    <3>1. \A m : m \in Chain' <=> m \in Chain /\ m # n
      BY <1>0, <2>1, <2>2, Types DEF Chain, Linked
    <3> QED
      BY <3>1
  <2>5. \A m \in Chain' : Succ(m)' = Succ(m)
    BY <2>1 DEF Succ
  <2>6. \A b \in Actors : b # a => Cursor(b)' = Cursor(b)
    BY <1>0, <2>1, Types DEF Cursor
  <2> QED
    BY <2>1, <2>2, <2>3, <2>4, <2>5, <2>6 DEF Consumed
<1>4. ASSUME AnnounceDrop(a) PROVE SameList
  <2>1. PICK n \in Linked : n = node[a]
    BY <1>0, <1>4 DEF AnnounceDrop, StepsSound
  <2>2. PICK t \in Tasks : t = nodeTask[n]
    BY <1>0, <2>1, Types DEF Linked
  <2>3. /\ pc[a] = "drop" /\ UNCHANGED <<head, next, nodeTask, old>>
        /\ node' = [node EXCEPT ![a] = old[a]]
        /\ pc' = [pc EXCEPT ![a] = IF old[a] = None THEN "ended" ELSE "follow"]
        /\ refCount[t] = 1
    BY <1>0, <1>4, <2>1, <2>2, Types
       DEF AnnounceDrop, Goto, nodeVars, listVars, TasksCounted, NodesOwned, Linked, CallsInOrder
  <2>4. ran' = [ran EXCEPT ![t] = ran[t] + 1] /\ ran[t] = 0
    BY <1>4, <2>1, <2>2, <2>3 DEF AnnounceDrop, DropReference, Linked
  <2>5. \A m \in Nodes : nodeTask[m] = t => m = n
    BY <1>0, <2>1, <2>2 DEF TasksCounted, Linked
  <2>6. \A b \in Actors : pc[b] = "drop" /\ node[b] = n => a = b
    BY <1>0, <2>1, <2>3 DEF StepsSound
  <2>7. Chain' = Chain
    <3>1. \A m \in Chain : m \in Chain'
      <4> SUFFICES ASSUME NEW m \in Chain PROVE m \in Chain'
        OBVIOUS
      <4>1. m # n /\ m \in Nodes /\ nodeTask[m] # t
        BY <2>1, <2>3, <2>5 DEF Chain, Linked
      <4>2. m \in Linked'
        BY <1>0, <2>3, <2>4, <4>1, Types DEF Chain, Linked
      <4> QED
        BY <1>0, <2>3, <4>1, <4>2, Types DEF Chain
    <3>2. \A m \in Chain' : m \in Chain
      <4> SUFFICES ASSUME NEW m \in Chain' PROVE m \in Chain
        OBVIOUS
      <4>1. m \in Nodes /\ nodeTask[m] \in Tasks /\ ran'[nodeTask[m]] = 0 /\ pc'[nodeTask[m]] # "exchange"
        BY <1>0, <2>3, Types DEF Chain, Linked
      <4>2. nodeTask[m] # t /\ m # n
        BY <1>0, <2>2, <2>4, <4>1, Types
      <4>3. m \in Linked
        BY <1>0, <2>3, <2>4, <4>1, <4>2, Types DEF Linked
      <4>4. \A b \in Actors : pc[b] = "drop" => node[b] # m
        BY <1>0, <2>1, <2>3, <4>2, Types DEF Chain
      <4> QED
        BY <4>3, <4>4 DEF Chain
    <3> QED
      BY <3>1, <3>2
  <2>8. \A m \in Chain : Succ(m)' = Succ(m)
    BY <2>3 DEF Succ
  <2>9. \A b \in Actors : Cursor(b)' = Cursor(b)
    BY <1>0, <2>3, Types DEF Cursor
  <2> QED
    BY <2>3, <2>7, <2>8, <2>9 DEF SameList
<1> QED
  BY <1>1, <1>2, <1>3, <1>4

(* A step does one of four things to the list, ...                         *)
LEMMA ListSteps ==
  ASSUME Invariant, [Next]_vars
  PROVE  \/ SameList
         \/ \E t \in Tasks : AddExchange(t) /\ Pushed(node[t])
         \/ \E a \in Actors : AnnounceTake(a) /\ Taken(a)
         \/ \E a \in Actors : AnnounceConsume(a) /\ Consumed(a)
BY StepCases, AddSameList, OwnerSameList, ExchangePushes, AnnounceForm

(* ... each of which leaves every node with one pointer to it, ...         *)
LEMMA PointersKept ==
  ASSUME Invariant, [Next]_vars
  PROVE  PointedToOnce'
<1>0. PointedToOnce /\ None \notin Nodes /\ Chain \subseteq Nodes
  BY Parts, Types DEF Chain, Linked
<1>1. CASE SameList
  BY <1>0, <1>1 DEF SameList, PointedToOnce
<1>2. ASSUME NEW n, Pushed(n) PROVE PointedToOnce'
  <2>1. /\ n \in Nodes \ Chain /\ head' = n /\ Chain' = Chain \cup {n} /\ Succ(n)' = head
        /\ \A m \in Chain : Succ(m)' = Succ(m)
        /\ \A a \in Actors : Cursor(a)' = Cursor(a)
    BY <1>2 DEF Pushed
  <2>2. \A a \in Actors : Cursor(a)' # None =>
          /\ Cursor(a)' \in Chain' /\ Cursor(a)' # head'
          /\ \A b \in Actors : Cursor(b)' = Cursor(a)' => a = b
    BY <1>0, <2>1 DEF PointedToOnce
  <2>3. \A m \in Chain' : Succ(m)' # None =>
          /\ Succ(m)' \in Chain' /\ Succ(m)' # head'
          /\ \A a \in Actors : Cursor(a)' # Succ(m)'
          /\ \A k \in Chain' : Succ(k)' = Succ(m)' => m = k
    BY <1>0, <2>1 DEF PointedToOnce
  <2>4. \A k \in Chain' : \/ k = head' \/ \E a \in Actors : k = Cursor(a)'
                          \/ \E m \in Chain' : k = Succ(m)'
    BY <1>0, <2>1 DEF PointedToOnce
  <2> QED
    BY <2>1, <2>2, <2>3, <2>4 DEF PointedToOnce
<1>3. ASSUME NEW a \in Actors, Taken(a) PROVE PointedToOnce'
  BY <1>0, <1>3 DEF Taken, PointedToOnce
<1>4. ASSUME NEW a \in Actors, Consumed(a) PROVE PointedToOnce'
  <2>1. PICK c \in Chain : c = Cursor(a)
    BY <1>4 DEF Consumed
  <2>2. /\ head' = head /\ Chain' = Chain \ {c} /\ Cursor(a)' = Succ(c)
        /\ \A m \in Chain \ {c} : Succ(m)' = Succ(m)
        /\ \A b \in Actors : b # a => Cursor(b)' = Cursor(b)
    BY <1>4, <2>1 DEF Consumed
  <2>3. \A m \in Chain : Succ(m) # c /\ Succ(m) # None => Succ(m) \in Chain'
    BY <1>0, <2>2 DEF PointedToOnce
  <2>4. \A m \in Chain : Succ(m) # c
    BY <1>0, <2>1 DEF PointedToOnce
  <2>5. \A b \in Actors : b # a => Cursor(b) # c
    BY <1>0, <2>1 DEF PointedToOnce
  <2>6. head # c
    BY <1>0, <2>1 DEF PointedToOnce
  <2>7. \A b \in Actors : Cursor(b)' # None =>
          /\ Cursor(b)' \in Chain' /\ Cursor(b)' # head'
          /\ \A d \in Actors : Cursor(d)' = Cursor(b)' => b = d
    BY <1>0, <2>2, <2>3, <2>4, <2>5 DEF PointedToOnce
  <2>8. \A m \in Chain' : Succ(m)' # None =>
          /\ Succ(m)' \in Chain' /\ Succ(m)' # head'
          /\ \A b \in Actors : Cursor(b)' # Succ(m)'
          /\ \A k \in Chain' : Succ(k)' = Succ(m)' => m = k
    BY <1>0, <2>2, <2>3, <2>4 DEF PointedToOnce
  <2>9. \A k \in Chain' : \/ k = head' \/ \E b \in Actors : k = Cursor(b)'
                          \/ \E m \in Chain' : k = Succ(m)'
    BY <1>0, <2>1, <2>2 DEF PointedToOnce
  <2> QED
    BY <1>0, <2>2, <2>6, <2>7, <2>8, <2>9 DEF PointedToOnce
<1> QED
  BY <1>1, <1>2, <1>3, <1>4, ListSteps

(* ... and no cycle.                                                       *)
LEMMA NoCycleKept ==
  ASSUME Invariant, [Next]_vars
  PROVE  NoCycle'
<1>0. PointedToOnce /\ NoCycle /\ None \notin Nodes /\ Chain \subseteq Nodes
  BY Parts, Types DEF Chain, Linked
<1>1. ASSUME Chain' \subseteq Chain, \A m \in Chain' : Succ(m)' = Succ(m) PROVE NoCycle'
  <2> SUFFICES ASSUME NEW S \in SUBSET Chain', S # {}
               PROVE  \E n \in S : \A m \in S : Succ(m)' # n
    BY DEF NoCycle
  <2>1. S \in SUBSET Chain
    BY <1>1
  <2>2. PICK n \in S : \A m \in S : Succ(m) # n
    BY <1>0, <2>1 DEF NoCycle
  <2> QED
    BY <1>1, <2>2
<1>2. ASSUME NEW n, Pushed(n) PROVE NoCycle'
  <2>1. /\ n \in Nodes \ Chain /\ Chain' = Chain \cup {n} /\ Succ(n)' = head
        /\ \A m \in Chain : Succ(m)' = Succ(m)
    BY <1>2 DEF Pushed
  <2> SUFFICES ASSUME NEW S \in SUBSET Chain', S # {}
               PROVE  \E k \in S : \A m \in S : Succ(m)' # k
    BY DEF NoCycle
  <2>2. CASE n \in S
    <3>1. \A m \in Chain' : Succ(m)' # n
      BY <1>0, <2>1 DEF PointedToOnce
    <3> QED
      BY <2>2, <3>1
  <2>3. CASE n \notin S
    <3>1. S \in SUBSET Chain
      BY <2>1, <2>3
    <3>2. PICK k \in S : \A m \in S : Succ(m) # k
      BY <1>0, <3>1 DEF NoCycle
    <3> QED
      BY <2>1, <3>1, <3>2
  <2> QED
    BY <2>2, <2>3
<1>3. SameList => NoCycle'
  BY <1>1 DEF SameList
<1>4. ASSUME NEW a \in Actors, Taken(a) \/ Consumed(a) PROVE NoCycle'
  <2>1. Chain' \subseteq Chain /\ \A m \in Chain' : Succ(m)' = Succ(m)
    BY <1>4 DEF Taken, Consumed
  <2> QED
    BY <1>1, <2>1
<1> QED
  BY <1>2, <1>3, <1>4, ListSteps

-----------------------------------------------------------------------------
(* The other parts.                                                        *)

LEMMA CallsStep ==
  ASSUME Invariant, [Next]_vars
  PROVE  CallsInOrder'
<1>0. CallsInOrder /\ TypeOK /\ \A e \in Exceptions : e # None
  BY Parts, NodeFacts
<1>1. ASSUME NEW t \in Tasks, Add(t) PROVE CallsInOrder'
  <2>1. /\ added' = added \cup {t} /\ UNCHANGED <<waiting, result, old>>
        /\ pc' = [pc EXCEPT ![t] = IF waiting THEN "create" ELSE "immediate"]
    BY <1>1 DEF Add, Goto, listVars
  <2> QED
    BY <1>0, <2>1, Types DEF CallsInOrder, AddSteps, AnnounceSteps, PresetSteps
<1>2. ASSUME NEW t \in Tasks, AddImmediate(t) \/ AddRelease(t) \/ AddCreateNode(t)
      PROVE CallsInOrder'
  <2>1. /\ UNCHANGED <<waiting, result, old, added>> /\ pc[t] \in {"immediate", "release", "create"}
        /\ \E to \in {"release", "ended", "exchange"} :
             /\ pc' = [pc EXCEPT ![t] = to]
             /\ to = "release" => pc[t] = "immediate"
    BY <1>2 DEF AddImmediate, AddRelease, AddCreateNode, Goto, listVars, history
  <2> QED
    BY <1>0, <2>1, Types DEF CallsInOrder, AddSteps, AnnounceSteps, PresetSteps
<1>3. ASSUME NEW t \in Tasks, AddExchange(t) PROVE CallsInOrder'
  <2>1. /\ UNCHANGED <<waiting, result, added>> /\ pc[t] = "exchange"
        /\ pc' = [pc EXCEPT ![t] = "link"] /\ old' = [old EXCEPT ![t] = head]
    BY <1>3 DEF AddExchange, Goto, history
  <2> QED
    BY <1>0, <2>1, Types DEF CallsInOrder, AddSteps, AnnounceSteps, PresetSteps
<1>4. ASSUME NEW t \in Tasks, AddLink(t) \/ AddRelink(t) \/ AddRecheck(t) PROVE CallsInOrder'
  <2>1. /\ UNCHANGED <<waiting, result, added, old>> /\ pc[t] \in {"link", "relink", "recheck"}
        /\ \E to \in {"ended", "relink", "recheck", "announce"} :
             /\ pc' = [pc EXCEPT ![t] = to]
             /\ to \in {"relink", "recheck"} => old[t] = None
             /\ to = "announce" => ~waiting
    BY <1>0, <1>4 DEF AddLink, AddRelink, AddRecheck, Goto, listVars, history, CallsInOrder
  <2> QED
    BY <1>0, <2>1, Types DEF CallsInOrder, AddSteps, AnnounceSteps, PresetSteps
<1>5. ASSUME NEW a \in Actors,
             AnnounceTake(a) \/ AnnounceFollow(a) \/ AnnounceConsume(a) \/ AnnounceDrop(a)
      PROVE  CallsInOrder'
  <2>1. /\ UNCHANGED <<waiting, result, added>> /\ pc[a] \in AnnounceSteps
        /\ \E to \in {"ended", "follow", "consume", "drop"} : pc' = [pc EXCEPT ![a] = to]
        /\ \A b \in Actors : b # a => old'[b] = old[b]
    BY <1>5, <1>0, Types DEF AnnounceTake, AnnounceFollow, AnnounceConsume, AnnounceDrop, Goto, listVars,
                 history, AnnounceSteps
  <2>2. ~waiting
    BY <1>0, <2>1, Types DEF CallsInOrder, AnnounceSteps, PresetSteps
  <2> QED
    BY <1>0, <2>1, <2>2, Types DEF CallsInOrder, AddSteps, AnnounceSteps, PresetSteps
<1>6. ASSUME (\E e \in Exceptions : Preset(e)) \/ (\E e \in Exceptions \cup {None} : DoneWaiting(e))
             \/ PresetFollow \/ PresetFail
      PROVE  CallsInOrder'
  <2>1. /\ UNCHANGED <<waiting, added>> /\ \A t \in Tasks : old'[t] = old[t]
        /\ pc[Owner] \in {"idle", "doneWaiting"} \cup PresetSteps
        /\ \E to \in {"doneWaiting", "clearWaiting"} \cup PresetSteps :
             /\ pc' = [pc EXCEPT ![Owner] = to]
             /\ to \in PresetSteps => result' # None
    BY <1>0, <1>6, Types DEF Preset, DoneWaiting, PresetFollow, PresetFail, Goto, listVars, history,
                             PresetSteps, CallsInOrder
  <2>2. waiting
    BY <1>0, <2>1 DEF CallsInOrder, PresetSteps, AnnounceSteps
  <2> QED
    BY <1>0, <2>1, <2>2, Types DEF CallsInOrder, AddSteps, AnnounceSteps, PresetSteps
<1>7. ASSUME ClearWaiting PROVE CallsInOrder'
  <2>1. /\ UNCHANGED <<added, result, old>> /\ pc' = [pc EXCEPT ![Owner] = "announce"]
        /\ waiting' = FALSE
    BY <1>7 DEF ClearWaiting, Goto, history
  <2> QED
    BY <1>0, <2>1, Types DEF CallsInOrder, AddSteps, AnnounceSteps, PresetSteps
<1>8. ASSUME Reset PROVE CallsInOrder'
  <2>1. /\ UNCHANGED <<added, result, old>> /\ pc' = [pc EXCEPT ![Owner] = "idle"]
        /\ waiting' = TRUE /\ \A t \in Tasks : pc[t] \in {"idle", "ended"}
    BY <1>8, Types, <1>0 DEF Reset, Goto, NobodyInside
  <2> QED
    BY <1>0, <2>1, Types DEF CallsInOrder, AddSteps, AnnounceSteps, PresetSteps
<1>9. CASE UNCHANGED vars
  BY <1>0, <1>9 DEF vars, listVars, history, CallsInOrder
<1> QED
  BY <1>1, <1>2, <1>3, <1>4, <1>5, <1>6, <1>7, <1>8, <1>9, StepCases

(* A task that has not run has one reference and at most one node.         *)
LEMMA CountStep ==
  ASSUME Invariant, [Next]_vars
  PROVE  TasksCounted'
<1>0. TypeOK /\ CallsInOrder /\ TasksCounted /\ NodesOwned /\ StepsSound
  BY Parts
<1>1. ASSUME NEW t \in Tasks, Add(t) PROVE TasksCounted'
  <2>1. /\ added' = added \cup {t} /\ UNCHANGED <<nodeTask, ran>> /\ pc[t] = "idle" /\ t \notin added
        /\ pc' = [pc EXCEPT ![t] = IF waiting THEN "create" ELSE "immediate"]
        /\ refCount' = [refCount EXCEPT ![t] = refCount[t] + 1]
    BY <1>1 DEF Add, Goto, nodeVars
  <2> QED
    BY <1>0, <2>1, Types DEF TasksCounted
<1>2. ASSUME NEW t \in Tasks, AddImmediate(t) \/ AddExchange(t) \/ AddLink(t) \/ AddRelink(t)
                              \/ AddRecheck(t)
      PROVE  TasksCounted'
  <2>1. /\ UNCHANGED <<nodeTask, ran, added, refCount>>
        /\ \E to \in {"release", "link", "relink", "recheck", "ended", "announce"} :
             /\ pc' = [pc EXCEPT ![t] = to]
             /\ to = "release" <=> pc[t] = "immediate"
        /\ pc[t] \notin {"create", "release"}
    BY <1>2 DEF AddImmediate, AddExchange, AddLink, AddRelink, AddRecheck, Goto, nodeVars, taskVars,
                history
  <2> QED
    BY <1>0, <2>1, Types DEF TasksCounted
<1>3. ASSUME NEW t \in Tasks, AddRelease(t) PROVE TasksCounted'
  <2>1. /\ UNCHANGED <<nodeTask, added>> /\ pc' = [pc EXCEPT ![t] = "ended"] /\ pc[t] = "release"
        /\ refCount' = [refCount EXCEPT ![t] = refCount[t] - 1]
        /\ ran' = [ran EXCEPT ![t] = IF refCount[t] = 1 THEN ran[t] + 1 ELSE ran[t]]
    BY <1>3 DEF AddRelease, DropReference, Goto, nodeVars, history
  <2>2. refCount[t] = 1 /\ ran[t] = 0
    BY <1>0, <2>1 DEF TasksCounted, CallsInOrder
  <2> QED
    BY <1>0, <2>1, <2>2, Types DEF TasksCounted
<1>4. ASSUME NEW t \in Tasks, AddCreateNode(t) PROVE TasksCounted'
  <2>1. PICK n \in Nodes : n = NewNode(t)
    BY <1>4, FreshNode DEF AddCreateNode
  <2>2. /\ nodeTask' = [nodeTask EXCEPT ![n] = t] /\ pc' = [pc EXCEPT ![t] = "exchange"]
        /\ UNCHANGED <<ran, added, refCount>>
    BY <1>4, <2>1 DEF AddCreateNode, NewNode, Goto, taskVars, history
  <2>3. /\ nodeTask[n] # None => ran[nodeTask[n]] = 1
        /\ \A m \in Nodes : nodeTask[m] # t
        /\ pc[t] = "create"
    BY <1>4, <2>1, FreshNode DEF AddCreateNode
  <2> SUFFICES ASSUME NEW u \in Tasks
               PROVE  /\ refCount'[u] = IF u \in added' /\ ran'[u] = 0 THEN 1 ELSE 0
                      /\ pc'[u] \in {"idle", "create", "exchange", "immediate", "release"} => ran'[u] = 0
                      /\ u \in added' /\ ran'[u] = 0 =>
                           \/ pc'[u] \in {"create", "immediate", "release"}
                           \/ \E m \in Nodes : nodeTask'[m] = u
                      /\ \A m, k \in Nodes : nodeTask'[m] = u /\ nodeTask'[k] = u => m = k
    BY DEF TasksCounted
  <2>4. /\ refCount'[u] = IF u \in added' /\ ran'[u] = 0 THEN 1 ELSE 0
        /\ pc'[u] \in {"idle", "create", "exchange", "immediate", "release"} => ran'[u] = 0
    BY <1>0, <2>2, <2>3, Types DEF TasksCounted
  <2>5. \A m, k \in Nodes : nodeTask'[m] = u /\ nodeTask'[k] = u => m = k
    BY <1>0, <2>2, <2>3, Types DEF TasksCounted
  <2>6. ASSUME u \in added', ran'[u] = 0, pc'[u] \notin {"create", "immediate", "release"}
        PROVE  \E m \in Nodes : nodeTask'[m] = u
    <3>1. CASE u = t
      BY <1>0, <2>2, <3>1, Types
    <3>2. CASE u # t
      <4>1. PICK m \in Nodes : nodeTask[m] = u
        BY <1>0, <2>2, <2>6, <3>2, Types DEF TasksCounted
      <4>2. m # n
        BY <2>2, <2>3, <2>6, <4>1, Types, <1>0
      <4> QED
        BY <1>0, <2>2, <4>1, <4>2, Types
    <3> QED
      BY <3>1, <3>2
  <2> QED
    BY <2>4, <2>5, <2>6
<1>5. ASSUME NEW a \in Actors, AnnounceTake(a) \/ AnnounceFollow(a) \/ AnnounceConsume(a)
      PROVE  TasksCounted'
  <2>1. /\ UNCHANGED <<nodeTask, ran, added, refCount>>
        /\ \E to \in {"ended", "follow", "consume", "drop"} : pc' = [pc EXCEPT ![a] = to]
        /\ pc[a] \in AnnounceSteps
    BY <1>5 DEF AnnounceTake, AnnounceFollow, AnnounceConsume, Goto, nodeVars, taskVars, history,
                AnnounceSteps
  <2> QED
    BY <1>0, <2>1, Types DEF TasksCounted, AnnounceSteps
<1>6. ASSUME NEW a \in Actors, AnnounceDrop(a) PROVE TasksCounted'
  <2>1. PICK n \in Nodes : n = node[a] /\ nodeTask[n] \in Tasks /\ ran[nodeTask[n]] = 0
                           /\ pc[nodeTask[n]] # "exchange"
    BY <1>0, <1>6, Types DEF AnnounceDrop, StepsSound, Linked
  <2>2. PICK t \in Tasks : t = nodeTask[n]
    BY <2>1
  <2>3. /\ UNCHANGED <<nodeTask, added>> /\ pc[a] = "drop"
        /\ \E to \in {"ended", "follow"} : pc' = [pc EXCEPT ![a] = to]
        /\ refCount' = [refCount EXCEPT ![t] = refCount[t] - 1]
        /\ ran' = [ran EXCEPT ![t] = IF refCount[t] = 1 THEN ran[t] + 1 ELSE ran[t]]
    BY <1>6, <2>1, <2>2 DEF AnnounceDrop, DropReference, Goto, nodeVars, history
  <2>4. t \in added /\ pc[t] \notin {"idle", "create", "exchange", "immediate", "release"}
    BY <1>0, <2>1, <2>2, Types DEF NodesOwned, CallsInOrder
  <2>5. refCount[t] = 1
    BY <1>0, <2>1, <2>2, <2>4 DEF TasksCounted
  <2> SUFFICES ASSUME NEW u \in Tasks
               PROVE  /\ refCount'[u] = IF u \in added' /\ ran'[u] = 0 THEN 1 ELSE 0
                      /\ pc'[u] \in {"idle", "create", "exchange", "immediate", "release"} => ran'[u] = 0
                      /\ u \in added' /\ ran'[u] = 0 =>
                           \/ pc'[u] \in {"create", "immediate", "release"}
                           \/ \E m \in Nodes : nodeTask'[m] = u
                      /\ \A m, k \in Nodes : nodeTask'[m] = u /\ nodeTask'[k] = u => m = k
    BY DEF TasksCounted
  <2> QED
    BY <1>0, <2>1, <2>2, <2>3, <2>4, <2>5, Types DEF TasksCounted
<1>7. ASSUME (\E e \in Exceptions : Preset(e)) \/ (\E e \in Exceptions \cup {None} : DoneWaiting(e))
             \/ PresetFollow \/ PresetFail \/ ClearWaiting \/ Reset \/ UNCHANGED vars
      PROVE  TasksCounted'
  <2>1. /\ UNCHANGED <<nodeTask, ran, added, refCount>>
        /\ UNCHANGED pc \/ \E to : pc' = [pc EXCEPT ![Owner] = to]
    BY <1>7 DEF Preset, DoneWaiting, PresetFollow, PresetFail, ClearWaiting, Reset, Goto, vars,
                nodeVars, taskVars, history
  <2>2. \A t \in Tasks : pc'[t] = pc[t]
    BY <1>0, <2>1, Types
  <2> QED
    BY <1>0, <2>1, <2>2 DEF TasksCounted
<1> QED
  BY <1>1, <1>2, <1>3, <1>4, <1>5, <1>6, <1>7, StepCases

(* No more nodes were asked for than there are tasks.                      *)
LEMMA IndexStep ==
  ASSUME Invariant, [Next]_vars
  PROVE  /\ lastAssignedCacheIndex' \in Nat
         /\ lastAssignedCacheIndex' <= Cardinality({t \in added : pc[t] # "create"}')
         /\ Cardinality({t \in added : pc[t] # "create"}') <= Cardinality(Tasks)
         /\ Cardinality({t \in added : pc[t] # "create"}') \in Nat
<1> DEFINE Before == {t \in added : pc[t] # "create"}
           After  == {t \in added' : pc'[t] # "create"}
<1>0. TypeOK /\ CallsInOrder /\ lastAssignedCacheIndex <= Cardinality(Before)
      /\ lastAssignedCacheIndex \in Nat
  BY Parts, Types, NodeFacts DEF NodesOwned
<1>1. TypeOK => After \in SUBSET Tasks
  BY <1>0, StepCases, Types
     DEF Add, AddImmediate, AddRelease, AddCreateNode, AddExchange, AddLink, AddRelink, AddRecheck,
         AnnounceTake, AnnounceFollow, AnnounceConsume, AnnounceDrop, Preset, DoneWaiting,
         PresetFollow, PresetFail, ClearWaiting, Reset, vars, history
<1>2. IsFiniteSet(After) /\ Cardinality(After) <= Cardinality(Tasks) /\ Cardinality(After) \in Nat
  BY <1>0, <1>1, ActorAssumption, FS_Subset, FS_CardinalityType
<1>3. CASE \E t \in Tasks : AddCreateNode(t)
  <2>1. PICK t \in Tasks : AddCreateNode(t)
    BY <1>3
  <2>2. /\ pc[t] = "create" /\ added' = added /\ pc' = [pc EXCEPT ![t] = "exchange"]
        /\ lastAssignedCacheIndex' = lastAssignedCacheIndex + 1
    BY <2>1 DEF AddCreateNode, Goto, history
  <2>3. t \in added /\ Tasks \subseteq Actors /\ added \subseteq Tasks
    BY <1>0, <2>2, Types DEF CallsInOrder
  <2>4. After = Before \cup {t} /\ t \notin Before
    BY <1>0, <2>2, <2>3, Types
  <2>5. IsFiniteSet(Before) /\ Cardinality(Before) \in Nat
    BY <2>3, ActorAssumption, FS_Subset, FS_CardinalityType
  <2>6. Cardinality(After) = Cardinality(Before) + 1
    BY <2>4, <2>5, FS_AddElement
  <2> HIDE DEF Before, After
  <2>7. /\ lastAssignedCacheIndex' \in Nat /\ lastAssignedCacheIndex' <= Cardinality(After)
    BY <1>0, <2>2, <2>5, <2>6
  <2> QED
    BY <1>2, <2>7 DEF After
<1>4. CASE ~\E t \in Tasks : AddCreateNode(t)
  <2>1. lastAssignedCacheIndex' \in {0, lastAssignedCacheIndex}
    BY <1>4, StepCases
     DEF Add, AddImmediate, AddRelease, AddExchange, AddLink, AddRelink, AddRecheck,
         AnnounceTake, AnnounceFollow, AnnounceConsume, AnnounceDrop, Preset, DoneWaiting,
         PresetFollow, PresetFail, ClearWaiting, Reset, vars, listVars
  <2>2. \A t \in Tasks : t \in Before => t \in After
    <3>1. CASE \E t \in Tasks : Add(t)
      BY <1>0, <3>1, Types DEF Add, Goto, CallsInOrder
    <3>2. CASE ~\E t \in Tasks : Add(t)
      <4>1. added' = added
        BY <1>4, <3>2, StepCases
         DEF AddImmediate, AddRelease, AddExchange, AddLink, AddRelink, AddRecheck,
             AnnounceTake, AnnounceFollow, AnnounceConsume, AnnounceDrop, Preset, DoneWaiting,
             PresetFollow, PresetFail, ClearWaiting, Reset, vars, history
      <4>2. UNCHANGED pc \/ \E a \in Actors : \E to \in Labels \ {"create"} : pc' = [pc EXCEPT ![a] = to]
        BY <1>4, <3>2, StepCases, NodeFacts
         DEF AddImmediate, AddRelease, AddExchange, AddLink, AddRelink, AddRecheck,
             AnnounceTake, AnnounceFollow, AnnounceConsume, AnnounceDrop, Preset, DoneWaiting,
             PresetFollow, PresetFail, ClearWaiting, Reset, vars, Goto, Labels, AddSteps,
             AnnounceSteps, PresetSteps
      <4> QED
        BY <1>0, <4>1, <4>2, Types
    <3> QED
      BY <3>1, <3>2
  <2>3. Before \in SUBSET After
    BY <2>2, <1>0, Types
  <2>4. Cardinality(Before) <= Cardinality(After) /\ Cardinality(Before) \in Nat
    BY <1>2, <2>3, FS_Subset, FS_CardinalityType
  <2> HIDE DEF Before, After
  <2>5. lastAssignedCacheIndex' \in Nat /\ lastAssignedCacheIndex' <= Cardinality(After)
    BY <1>0, <1>2, <2>1, <2>4
  <2> QED
    BY <1>2, <2>5 DEF After
<1> QED
  BY <1>3, <1>4

(* Every node in use belongs to one task.                                  *)
LEMMA OwnedStep ==
  ASSUME Invariant, [Next]_vars
  PROVE  NodesOwned'
<1> DEFINE A == \A n \in Nodes : nodeTask[n] # None =>
                  /\ pc[nodeTask[n]] \notin {"idle", "create", "immediate", "release"}
                  /\ n \in Tasks => n = nodeTask[n]
                  /\ ran[nodeTask[n]] = 0 => Assigned(n)
           B == \A t \in Tasks : pc[t] \in {"exchange", "link", "relink"} =>
                  /\ node[t] \in Nodes /\ nodeTask[node[t]] = t /\ Assigned(node[t])
                  /\ next[node[t]] = IF pc[t] = "relink" THEN None ELSE node[t]
           C == \A n \in freed : nodeTask[n] = n /\ pc[n] # "exchange"
<1>0. /\ TypeOK /\ CallsInOrder /\ TasksCounted /\ NodesOwned /\ StepsSound /\ A /\ B /\ C
      /\ Nodes \ Tasks \subseteq Nat /\ lastAssignedCacheIndex \in Nat
  BY Parts, Types, NodeFacts DEF NodesOwned
<1>1. ASSUME NEW t \in Tasks, \/ Add(t) \/ AddImmediate(t) \/ AddRelease(t)
      PROVE  A' /\ B' /\ C'
  <2>1. /\ UNCHANGED <<node, nodeTask, next, freed, lastAssignedCacheIndex>>
        /\ pc[t] \in {"idle", "immediate", "release"}
        /\ \E to \in {"create", "immediate", "release", "ended"} : pc' = [pc EXCEPT ![t] = to]
        /\ \A u \in Tasks : u # t => ran'[u] = ran[u]
    BY <1>0, <1>1, Types DEF Add, AddImmediate, AddRelease, DropReference, Goto, nodeVars, listVars,
                             taskVars
  <2>2. \A n \in Nodes : nodeTask[n] # t
    BY <1>0, <2>1, Types
  <2> QED
    BY <1>0, <2>1, <2>2, Types DEF Assigned
<1>2. ASSUME NEW t \in Tasks, AddCreateNode(t) PROVE A' /\ B' /\ C'
  <2>1. PICK n \in Nodes : n = NewNode(t)
    BY <1>2, FreshNode DEF AddCreateNode
  <2>2. /\ nodeTask' = [nodeTask EXCEPT ![n] = t] /\ pc' = [pc EXCEPT ![t] = "exchange"]
        /\ next' = [next EXCEPT ![n] = n] /\ node' = [node EXCEPT ![t] = n]
        /\ lastAssignedCacheIndex' = lastAssignedCacheIndex + 1 /\ UNCHANGED <<freed, ran>>
        /\ pc[t] = "create"
    BY <1>2, <2>1 DEF AddCreateNode, NewNode, Goto, taskVars
  <2>3. /\ n \in Tasks => n = t
        /\ n \notin Tasks => n = lastAssignedCacheIndex
        /\ n \notin freed /\ \A m \in Nodes : nodeTask[m] # t
        /\ \A u \in Tasks : pc[u] \in {"exchange", "link", "relink"} => node[u] # n
    BY <1>2, <2>1, <2>2, FreshNode
  <2>4. Assigned(n)' /\ \A m \in Nodes : Assigned(m) => Assigned(m)'
    BY <1>0, <2>2, <2>3 DEF Assigned
  <2>5. A'
    BY <1>0, <2>2, <2>3, <2>4, Types
  <2>6. B'
    BY <1>0, <2>2, <2>3, <2>4, Types
  <2>7. C'
    BY <1>0, <2>2, <2>3, Types DEF Nodes, HeapNode
  <2> QED
    BY <2>5, <2>6, <2>7
<1>3. ASSUME NEW t \in Tasks, AddExchange(t) \/ AddRecheck(t) PROVE A' /\ B' /\ C'
  <2>1. /\ UNCHANGED <<node, nodeTask, next, freed, lastAssignedCacheIndex, ran>>
        /\ \E to \in {"link", "ended", "announce"} : /\ pc' = [pc EXCEPT ![t] = to]
                                                     /\ to = "link" => pc[t] = "exchange"
    BY <1>3 DEF AddExchange, AddRecheck, Goto, nodeVars, listVars, taskVars
  <2> QED
    BY <1>0, <2>1, Types DEF Assigned
<1>4. ASSUME NEW t \in Tasks, AddLink(t) \/ AddRelink(t) PROVE A' /\ B' /\ C'
  <2>1. PICK n \in Nodes : n = node[t] /\ nodeTask[n] = t
    BY <1>0, <1>4 DEF AddLink, AddRelink
  <2>2. /\ UNCHANGED <<node, nodeTask, freed, lastAssignedCacheIndex, ran>>
        /\ \E to \in {"relink", "recheck", "ended"} : \E m \in {None, old[t]} :
             /\ pc' = [pc EXCEPT ![t] = to] /\ next' = [next EXCEPT ![n] = m]
             /\ to = "relink" => m = None
        /\ pc[t] \in {"link", "relink"}
    BY <1>4, <2>1 DEF AddLink, AddRelink, Goto, listVars, taskVars
  <2>3. A' /\ C'
    BY <1>0, <2>1, <2>2, Types DEF Assigned
  <2>4. B'
    <3> SUFFICES ASSUME NEW u \in Tasks, pc'[u] \in {"exchange", "link", "relink"}
                 PROVE  /\ node[u] \in Nodes /\ nodeTask[node[u]] = u /\ Assigned(node[u])
                        /\ next'[node[u]] = IF pc'[u] = "relink" THEN None ELSE node[u]
      BY <2>2 DEF Assigned
    <3>1. CASE u = t
      BY <1>0, <2>1, <2>2, <3>1, Types
    <3>2. CASE u # t
      <4>1. pc'[u] = pc[u] /\ node[u] # n /\ node[u] \in Nodes
        BY <1>0, <2>1, <2>2, <3>2, Types
      <4>2. next'[node[u]] = next[node[u]]
        BY <1>0, <2>2, <4>1, Types
      <4> QED
        BY <1>0, <4>1, <4>2
    <3> QED
      BY <3>1, <3>2
  <2> QED
    BY <2>3, <2>4
<1>5. ASSUME NEW a \in Actors, AnnounceTake(a) \/ AnnounceFollow(a) \/ AnnounceDrop(a)
      PROVE  A' /\ B' /\ C'
  <2>1. /\ UNCHANGED <<nodeTask, next, freed, lastAssignedCacheIndex>>
        /\ pc[a] \in AnnounceSteps
        /\ \E to \in {"ended", "follow", "consume"} : pc' = [pc EXCEPT ![a] = to]
        /\ UNCHANGED node \/ \E m : node' = [node EXCEPT ![a] = m]
    BY <1>5 DEF AnnounceTake, AnnounceFollow, AnnounceDrop, Goto, nodeVars, listVars, AnnounceSteps
  <2>2. \A u \in Tasks : ran'[u] = 0 => ran[u] = 0
    BY <1>0, <1>5, Types DEF AnnounceTake, AnnounceFollow, AnnounceDrop, DropReference, taskVars
  <2> QED
    BY <1>0, <2>1, <2>2, Types DEF Assigned, AnnounceSteps
<1>6. ASSUME NEW a \in Actors, AnnounceConsume(a) PROVE A' /\ B' /\ C'
  <2>1. /\ UNCHANGED <<nodeTask, next, ran, lastAssignedCacheIndex, node>>
        /\ pc[a] = "consume" /\ pc' = [pc EXCEPT ![a] = "drop"]
        /\ freed' = freed \cup ({node[a]} \cap Tasks)
    BY <1>6 DEF AnnounceConsume, Goto, listVars
  <2>2. node[a] \in Tasks => nodeTask[node[a]] = node[a] /\ pc[node[a]] # "exchange"
    BY <1>0, <2>1, Types DEF StepsSound, Chain, Linked
  <2> QED
    BY <1>0, <2>1, <2>2, Types DEF Assigned
<1>7. ASSUME (\E e \in Exceptions : Preset(e)) \/ (\E e \in Exceptions \cup {None} : DoneWaiting(e))
             \/ PresetFollow \/ PresetFail \/ ClearWaiting \/ UNCHANGED vars
      PROVE  A' /\ B' /\ C'
  <2>1. /\ UNCHANGED <<nodeTask, next, freed, lastAssignedCacheIndex, ran>>
        /\ UNCHANGED pc \/ \E to : pc' = [pc EXCEPT ![Owner] = to]
        /\ UNCHANGED node \/ \E m : node' = [node EXCEPT ![Owner] = m]
    BY <1>7 DEF Preset, DoneWaiting, PresetFollow, PresetFail, ClearWaiting, Goto, vars, listVars,
                nodeVars, taskVars
  <2>2. \A t \in Tasks : pc'[t] = pc[t] /\ node'[t] = node[t]
    BY <1>0, <2>1, Types
  <2> QED
    BY <1>0, <2>1, <2>2, Types DEF Assigned
<1>8. ASSUME Reset PROVE A' /\ B' /\ C'
  <2>1. /\ UNCHANGED <<nodeTask, next, freed, ran, node>> /\ NobodyInside
        /\ \A t \in Tasks : pc'[t] = pc[t] /\ pc[t] \in {"idle", "ended"}
    BY <1>0, <1>8, Types DEF Reset, Goto, nodeVars, taskVars, NobodyInside
  <2>2. ~waiting
    BY <1>0, <1>8 DEF Reset, CallsInOrder, PresetSteps
  <2>3. \A n \in Nodes : nodeTask[n] # None => ran[nodeTask[n]] # 0
    BY <1>0, <2>1, <2>2, NothingLinked, Types DEF Linked
  <2> QED
    BY <1>0, <2>1, <2>3, Types
<1>9. A' /\ B' /\ C'
  <2> HIDE DEF A, B, C
  <2> QED
    BY <1>1, <1>2, <1>3, <1>4, <1>5, <1>6, <1>7, <1>8, StepCases
<1> QED
  BY <1>9, IndexStep DEF NodesOwned

(* What the steps rely on goes on being so.                                *)
LinksKnown == /\ \A n \in Chain : next[n] = n => pc[nodeTask[n]] = "link"
              /\ \A t \in Tasks : pc[t] = "link" => node[t] \in Chain
              /\ freed \cap Chain = {}
WalksKnown == \A a \in Actors :
                /\ pc[a] \in {"follow", "consume"} \cup PresetSteps => node[a] \in Chain
                /\ pc[a] \in {"consume", "presetFail"} => old[a] = next[node[a]] /\ old[a] # node[a]
DropsKnown == /\ \A a \in Actors : pc[a] = "drop" =>
                   /\ node[a] \in Linked
                   /\ exceptionPtr # None => failure[nodeTask[node[a]]] # None
                   /\ \A b \in Actors : pc[b] = "drop" /\ node[b] = node[a] => a = b
              /\ \A t \in Tasks : pc[t] = "release" /\ exceptionPtr # None => failure[t] # None

LEMMA SoundParts == StepsSound <=> LinksKnown /\ WalksKnown /\ DropsKnown
BY DEF StepsSound, LinksKnown, WalksKnown, DropsKnown

LEMMA AddLinks ==
  ASSUME Invariant, [Next]_vars, NEW t \in Tasks,
         Add(t) \/ AddImmediate(t) \/ AddRelease(t) \/ AddCreateNode(t) \/ AddLink(t)
         \/ AddRelink(t) \/ AddRecheck(t)
  PROVE  LinksKnown' /\ WalksKnown'
<1>0. /\ TypeOK /\ CallsInOrder /\ NodesOwned /\ LinksKnown /\ WalksKnown /\ Chain' = Chain
      /\ \A n \in Chain : n \in Nodes /\ nodeTask[n] \in Tasks
  BY Parts, AddSameList, SoundParts, Types DEF SameList, Chain, Linked
<1>1. CASE AddCreateNode(t)
  <2>1. PICK n \in Nodes : n = NewNode(t) /\ n \notin Chain /\ pc[t] = "create"
    BY <1>1, FreshNode DEF AddCreateNode, Chain
  <2>2. /\ nodeTask' = [nodeTask EXCEPT ![n] = t] /\ pc' = [pc EXCEPT ![t] = "exchange"]
        /\ next' = [next EXCEPT ![n] = n] /\ node' = [node EXCEPT ![t] = n]
        /\ UNCHANGED <<freed, old>>
    BY <1>1, <2>1 DEF AddCreateNode, NewNode, Goto
  <2>3. \A m \in Chain : nodeTask[m] # t
    BY <1>0, <2>1, FreshNode
  <2>4. LinksKnown'
    BY <1>0, <2>1, <2>2, <2>3, Types DEF LinksKnown
  <2>5. WalksKnown'
    BY <1>0, <2>1, <2>2, Types DEF WalksKnown, PresetSteps
  <2> QED
    BY <2>4, <2>5
<1>2. CASE AddLink(t)
  <2>1. PICK n \in Chain : n = node[t] /\ nodeTask[n] = t /\ next[n] = n /\ pc[t] = "link"
    BY <1>0, <1>2 DEF AddLink, NodesOwned, LinksKnown
  <2>2. /\ next' = [next EXCEPT ![n] = old[t]]
        /\ \E to \in {"ended", "relink", "recheck"} : pc' = [pc EXCEPT ![t] = to]
        /\ UNCHANGED <<nodeTask, node, old, freed>>
    BY <1>2, <2>1 DEF AddLink, Goto
  <2>3. old[t] # n
    <3>1. {n} \in SUBSET Chain /\ {n} # {}
      BY <2>1
    <3>2. \E m \in {n} : \A k \in {n} : Succ(k) # m
      BY <3>1, Parts DEF NoCycle
    <3> QED
      BY <2>1, <3>2 DEF Succ
  <2>4. \A m \in Chain : nodeTask[m] = t => m = n
    BY <1>0, <2>1, Parts DEF TasksCounted
  <2>5. LinksKnown'
    BY <1>0, <2>1, <2>2, <2>3, <2>4, Types DEF LinksKnown
  <2>6. WalksKnown'
    <3>1. \A a \in Actors : pc[a] \in {"consume", "presetFail"} => node[a] # n /\ node[a] \in Nodes
      BY <1>0, <2>1, Types DEF WalksKnown, PresetSteps
    <3>2. \A a \in Actors : pc'[a] \in {"follow", "consume"} \cup PresetSteps => pc'[a] = pc[a]
      BY <1>0, <2>2, Types DEF PresetSteps
    <3> QED
      BY <1>0, <2>2, <3>1, <3>2, Types DEF WalksKnown, PresetSteps
  <2> QED
    BY <2>5, <2>6
<1>3. CASE Add(t) \/ AddImmediate(t) \/ AddRelease(t) \/ AddRelink(t) \/ AddRecheck(t)
  <2>1. /\ \E to \in {"create", "immediate", "release", "ended", "recheck", "announce"} :
             pc' = [pc EXCEPT ![t] = to]
        /\ UNCHANGED <<nodeTask, node, old, freed>> /\ pc[t] # "link"
    BY <1>3 DEF Add, AddImmediate, AddRelease, AddRelink, AddRecheck, Goto, nodeVars
  <2>2. next' = next
    <3>1. CASE AddRelink(t)
      <4>1. node[t] \in Nodes /\ next[node[t]] = None
        BY <1>0, <3>1 DEF AddRelink, NodesOwned
      <4> QED
        BY <1>0, <3>1, <4>1, Types DEF AddRelink
    <3>2. CASE ~AddRelink(t)
      BY <1>3, <3>2 DEF Add, AddImmediate, AddRelease, AddRecheck, nodeVars
    <3> QED
      BY <3>1, <3>2
  <2>3. LinksKnown'
    BY <1>0, <2>1, <2>2, Types DEF LinksKnown
  <2>4. WalksKnown'
    BY <1>0, <2>1, <2>2, Types DEF WalksKnown, PresetSteps
  <2> QED
    BY <2>3, <2>4
<1> QED
  BY <1>1, <1>2, <1>3

LEMMA AddDrops ==
  ASSUME Invariant, [Next]_vars, NEW t \in Tasks,
         Add(t) \/ AddImmediate(t) \/ AddRelease(t) \/ AddCreateNode(t) \/ AddExchange(t) \/ AddLink(t)
         \/ AddRelink(t) \/ AddRecheck(t)
  PROVE  DropsKnown'
<1>0. /\ TypeOK /\ CallsInOrder /\ NodesOwned /\ DropsKnown /\ TasksCounted
      /\ \A n \in Linked : n \in Nodes /\ nodeTask[n] \in Tasks
  BY Parts, SoundParts, Types DEF Linked
<1>1. /\ exceptionPtr' = exceptionPtr /\ pc[t] # "drop"
      /\ \A a \in Actors : pc'[a] = "drop" => pc[a] = "drop" /\ node'[a] = node[a]
      /\ \A u \in Tasks : pc'[u] = "release" => pc[u] = "release" \/ (u = t /\ AddImmediate(t))
  BY <1>0, Types DEF Add, AddImmediate, AddRelease, AddCreateNode, AddExchange, AddLink, AddRelink,
                     AddRecheck, Goto, listVars
<1>2. \A u \in Tasks : failure[u] # None => failure'[u] = failure[u]
  BY <1>0, Types DEF Add, AddImmediate, AddRelease, AddCreateNode, AddExchange, AddLink, AddRelink,
                     AddRecheck, DependentTaskFailed, taskVars
<1>3. AddImmediate(t) /\ exceptionPtr # None => failure'[t] # None
  BY <1>0, Types DEF AddImmediate, DependentTaskFailed
<1>4. \A a \in Actors : pc[a] = "drop" =>
        node[a] \in Linked' /\ nodeTask'[node[a]] = nodeTask[node[a]]
  <2> SUFFICES ASSUME NEW a \in Actors, pc[a] = "drop"
               PROVE  node[a] \in Linked' /\ nodeTask'[node[a]] = nodeTask[node[a]]
    OBVIOUS
  <2>1. PICK n \in Linked : n = node[a]
    BY <1>0 DEF DropsKnown
  <2>2. PICK u \in Tasks : u = nodeTask[n] /\ ran[u] = 0 /\ pc[u] # "exchange" /\ n \in Nodes
    BY <1>0, <2>1, Types DEF Linked
  <2>3. pc'[u] # "exchange" /\ ran'[u] = 0
    <3>1. CASE u = t
      <4>1. pc[t] \notin {"idle", "create", "immediate", "release", "exchange"}
        <5>1. nodeTask[n] # None /\ nodeTask[n] = t
          BY <2>2, <3>1, NodeFacts
        <5>2. pc[nodeTask[n]] \notin {"idle", "create", "immediate", "release"}
          BY <1>0, <2>2, <5>1 DEF NodesOwned
        <5> QED
          BY <2>2, <3>1, <5>1, <5>2
      <4>2. AddLink(t) \/ AddRelink(t) \/ AddRecheck(t)
        BY <4>1 DEF Add, AddImmediate, AddRelease, AddCreateNode, AddExchange
      <4>3. ran' = ran /\ \E to : pc' = [pc EXCEPT ![t] = to] /\ to # "exchange"
        BY <4>2 DEF AddLink, AddRelink, AddRecheck, Goto, taskVars
      <4> QED
        BY <1>0, <2>2, <3>1, <4>3, Types
    <3>2. CASE u # t
      BY <1>0, <2>2, <3>2, Types
         DEF Add, AddImmediate, AddRelease, AddCreateNode, AddExchange, AddLink, AddRelink,
             AddRecheck, Goto, DropReference, taskVars
    <3> QED
      BY <3>1, <3>2
  <2>4. nodeTask'[n] = u
    <3>1. CASE AddCreateNode(t)
      <4>1. NewNode(t) # n
        BY <2>1, <3>1, FreshNode DEF AddCreateNode
      <4> QED
        BY <1>0, <2>2, <3>1, <4>1, Types DEF AddCreateNode, NewNode
    <3>2. CASE ~AddCreateNode(t)
      BY <2>2, <3>2 DEF Add, AddImmediate, AddRelease, AddExchange, AddLink, AddRelink, AddRecheck,
                        nodeVars
    <3> QED
      BY <3>1, <3>2
  <2> QED
    BY <2>1, <2>2, <2>3, <2>4, Types, <1>0 DEF Linked
<1>5. \A a \in Actors : pc'[a] = "drop" =>
        /\ node'[a] \in Linked'
        /\ exceptionPtr' # None => failure'[nodeTask'[node'[a]]] # None
        /\ \A b \in Actors : pc'[b] = "drop" /\ node'[b] = node'[a] => a = b
  BY <1>0, <1>1, <1>2, <1>4 DEF DropsKnown
<1>6. \A u \in Tasks : pc'[u] = "release" /\ exceptionPtr' # None => failure'[u] # None
  BY <1>0, <1>1, <1>2, <1>3 DEF DropsKnown
<1> QED
  BY <1>5, <1>6 DEF DropsKnown

LEMMA ExchangeLinks ==
  ASSUME Invariant, [Next]_vars, NEW t \in Tasks, AddExchange(t)
  PROVE  LinksKnown' /\ WalksKnown'
<1>0. /\ TypeOK /\ NodesOwned /\ TasksCounted /\ LinksKnown /\ WalksKnown
      /\ \A n \in Chain : n \in Nodes /\ nodeTask[n] \in Tasks
  BY Parts, SoundParts, Types DEF Chain, Linked
<1>1. PICK n \in Nodes : n = node[t] /\ nodeTask[n] = t /\ n \notin Chain /\ Chain' = Chain \cup {n}
  BY ExchangePushes DEF Pushed
<1>2. /\ pc[t] = "exchange" /\ pc' = [pc EXCEPT ![t] = "link"]
      /\ old' = [old EXCEPT ![t] = head] /\ UNCHANGED <<next, nodeTask, node, freed>>
  BY DEF AddExchange, Goto, nodeVars
<1>3. \A m \in Chain : nodeTask[m] # t
  BY <1>0, <1>1 DEF TasksCounted
<1>4. n \notin freed
  BY <1>0, <1>1, <1>2 DEF NodesOwned
<1>5. LinksKnown'
  BY <1>0, <1>1, <1>2, <1>3, <1>4, Types DEF LinksKnown
<1>6. WalksKnown'
  BY <1>0, <1>1, <1>2, Types DEF WalksKnown, PresetSteps
<1> QED
  BY <1>5, <1>6

LEMMA AnnounceSound ==
  ASSUME Invariant, [Next]_vars, NEW a \in Actors,
         AnnounceTake(a) \/ AnnounceFollow(a) \/ AnnounceConsume(a) \/ AnnounceDrop(a)
  PROVE  LinksKnown' /\ WalksKnown' /\ DropsKnown'
<1>0. /\ TypeOK /\ NodesOwned /\ TasksCounted /\ LinksKnown /\ WalksKnown /\ DropsKnown
      /\ PointedToOnce /\ CallsInOrder
      /\ \A n \in Linked : n \in Nodes /\ nodeTask[n] \in Tasks /\ ran[nodeTask[n]] = 0
      /\ Chain \subseteq Linked
  BY Parts, SoundParts, Types DEF Chain, Linked
<1>1. /\ pc[a] \in AnnounceSteps /\ UNCHANGED <<next, nodeTask, exceptionPtr>>
      /\ ~waiting /\ pc[Owner] \notin PresetSteps
  <2>1. pc[a] \in AnnounceSteps /\ UNCHANGED <<next, nodeTask, exceptionPtr>>
    BY DEF AnnounceTake, AnnounceFollow, AnnounceConsume, AnnounceDrop, listVars, nodeVars, AnnounceSteps
  <2>2. ~waiting
    BY <1>0, <2>1, Types DEF CallsInOrder, AnnounceSteps, PresetSteps
  <2> QED
    BY <1>0, <2>1, <2>2 DEF CallsInOrder, AnnounceSteps, PresetSteps
<1>2. ASSUME AnnounceTake(a) PROVE LinksKnown' /\ WalksKnown' /\ DropsKnown'
  <2>1. /\ UNCHANGED <<ran, old, freed, failure>> /\ pc[a] = "announce"
        /\ node' = [node EXCEPT ![a] = head]
        /\ pc' = [pc EXCEPT ![a] = IF head = None THEN "ended" ELSE "follow"]
    BY <1>2 DEF AnnounceTake, Goto, nodeVars, taskVars
  <2>2. Chain' = Chain /\ (head # None => head \in Chain)
    BY <1>0, <1>2, AnnounceForm DEF Taken, PointedToOnce
  <2>3. LinksKnown'
    BY <1>0, <1>1, <2>1, <2>2, Types DEF LinksKnown
  <2>4. WalksKnown'
    BY <1>0, <1>1, <2>1, <2>2, Types DEF WalksKnown, PresetSteps
  <2>5. Linked' = Linked
    <3>1. \A m : m \in Linked' <=> m \in Linked
      BY <1>0, <1>1, <2>1, Types DEF Linked
    <3> QED
      BY <3>1 DEF Linked
  <2>6. DropsKnown'
    BY <1>0, <1>1, <2>1, <2>5, Types DEF DropsKnown
  <2> QED
    BY <2>3, <2>4, <2>6
<1>3. ASSUME AnnounceFollow(a) PROVE LinksKnown' /\ WalksKnown' /\ DropsKnown'
  <2>1. /\ UNCHANGED <<ran, node, freed, failure>> /\ pc[a] = "follow"
        /\ next[node[a]] # node[a] /\ old' = [old EXCEPT ![a] = next[node[a]]]
        /\ pc' = [pc EXCEPT ![a] = "consume"]
    BY <1>3 DEF AnnounceFollow, Goto, nodeVars, taskVars
  <2>2. Chain' = Chain
    BY <1>3, AnnounceForm DEF SameList
  <2>3. LinksKnown'
    BY <1>0, <1>1, <2>1, <2>2, Types DEF LinksKnown
  <2>4. WalksKnown'
    BY <1>0, <1>1, <2>1, <2>2, Types DEF WalksKnown, PresetSteps
  <2>5. Linked' = Linked
    <3>1. \A m : m \in Linked' <=> m \in Linked
      BY <1>0, <1>1, <2>1, Types DEF Linked
    <3> QED
      BY <3>1 DEF Linked
  <2>6. DropsKnown'
    BY <1>0, <1>1, <2>1, <2>5, Types DEF DropsKnown
  <2> QED
    BY <2>3, <2>4, <2>6
<1>4. ASSUME AnnounceConsume(a) PROVE LinksKnown' /\ WalksKnown' /\ DropsKnown'
  <2>1. PICK n \in Chain : n = node[a] /\ n = Cursor(a) /\ Chain' = Chain \ {n}
    BY <1>4, AnnounceForm DEF Consumed
  <2>2. /\ UNCHANGED <<ran, node, old>> /\ pc[a] = "consume" /\ pc' = [pc EXCEPT ![a] = "drop"]
        /\ freed' = freed \cup ({n} \cap Tasks)
        /\ failure' = DependentTaskFailed(failure, nodeTask[n], exceptionPtr)
    BY <1>4, <2>1 DEF AnnounceConsume, Goto
  <2>3. next[n] # n
    BY <1>0, <2>1, <2>2 DEF WalksKnown
  <2>4. \A t \in Tasks : pc[t] = "link" => node[t] # n
    BY <1>0, <2>1, <2>3 DEF NodesOwned
  <2>5. LinksKnown'
    BY <1>0, <1>1, <2>1, <2>2, <2>4, Types DEF LinksKnown
  <2>6. \A b \in Actors : pc[b] \in {"follow", "consume"} /\ b # a => node[b] # n
    <3> SUFFICES ASSUME NEW b \in Actors, pc[b] \in {"follow", "consume"}, b # a, node[b] = n
                 PROVE  FALSE
      OBVIOUS
    <3>1. Cursor(b) = n /\ n # None
      BY <1>0, <2>1, Types DEF Cursor
    <3> QED
      BY <1>0, <2>1, <3>1 DEF PointedToOnce
  <2>7. WalksKnown'
    <3> SUFFICES ASSUME NEW b \in Actors
                 PROVE  /\ pc'[b] \in {"follow", "consume"} \cup PresetSteps => node[b] \in Chain'
                        /\ pc'[b] \in {"consume", "presetFail"} =>
                             old[b] = next[node[b]] /\ old[b] # node[b]
      BY <1>1, <2>2 DEF WalksKnown
    <3>1. pc[b] \notin PresetSteps
      BY <1>0, <1>1, Types DEF CallsInOrder, PresetSteps, AddSteps, AnnounceSteps
    <3> QED
      BY <1>0, <2>1, <2>2, <2>6, <3>1, Types DEF WalksKnown, PresetSteps
  <2>8. Linked' = Linked
    <3>1. \A m : m \in Linked' <=> m \in Linked
      BY <1>0, <1>1, <2>2, Types DEF Linked
    <3> QED
      BY <3>1 DEF Linked
  <2>9. \A t \in Tasks : failure[t] # None => failure'[t] = failure[t]
    BY <1>0, <2>2, Types DEF DependentTaskFailed
  <2>10. exceptionPtr # None => failure'[nodeTask[n]] # None
    BY <1>0, <2>1, <2>2, Types DEF DependentTaskFailed
  <2>11. \A b \in Actors : pc[b] = "drop" => node[b] # n
    BY <2>1 DEF Chain
  <2>12. \A b \in Actors : pc'[b] = "drop" <=> pc[b] = "drop" \/ b = a
    BY <1>0, <2>2, Types
  <2>13. \A b \in Actors : pc'[b] = "drop" =>
           /\ node[b] \in Linked'
           /\ exceptionPtr # None => failure'[nodeTask[node[b]]] # None
           /\ \A c \in Actors : pc'[c] = "drop" /\ node[c] = node[b] => b = c
    BY <1>0, <2>1, <2>8, <2>9, <2>10, <2>11, <2>12 DEF DropsKnown
  <2>14. \A t \in Tasks : pc'[t] = "release" /\ exceptionPtr # None => failure'[t] # None
    BY <1>0, <2>2, <2>9, Types DEF DropsKnown
  <2>15. DropsKnown'
    BY <1>1, <2>2, <2>13, <2>14 DEF DropsKnown
  <2> QED
    BY <2>5, <2>7, <2>15
<1>5. ASSUME AnnounceDrop(a) PROVE LinksKnown' /\ WalksKnown' /\ DropsKnown'
  <2>1. PICK n \in Linked : n = node[a]
    BY <1>0, <1>5 DEF AnnounceDrop, DropsKnown
  <2>2. /\ UNCHANGED <<old, freed, failure>> /\ pc[a] = "drop"
        /\ node' = [node EXCEPT ![a] = old[a]]
        /\ pc' = [pc EXCEPT ![a] = IF old[a] = None THEN "ended" ELSE "follow"]
        /\ \A t \in Tasks : t # nodeTask[n] => ran'[t] = ran[t]
    BY <1>0, <1>5, <2>1, Types DEF AnnounceDrop, DropReference, Goto, nodeVars
  <2>3. Chain' = Chain /\ (old[a] # None => old[a] \in Chain)
    <3>1. Cursor(a) = old[a]
      BY <2>2 DEF Cursor
    <3> QED
      BY <1>0, <1>5, <3>1, AnnounceForm DEF SameList, PointedToOnce
  <2>4. LinksKnown'
    BY <1>0, <1>1, <2>2, <2>3, Types DEF LinksKnown
  <2>5. WalksKnown'
    BY <1>0, <1>1, <2>2, <2>3, Types DEF WalksKnown, PresetSteps
  <2>6. \A b \in Actors : b # a /\ pc[b] = "drop" => node[b] \in Linked'
    <3> SUFFICES ASSUME NEW b \in Actors, b # a, pc[b] = "drop" PROVE node[b] \in Linked'
      OBVIOUS
    <3>1. node[b] # n /\ node[b] \in Linked
      BY <1>0, <2>1, <2>2 DEF DropsKnown
    <3>2. nodeTask[node[b]] # nodeTask[n]
      BY <1>0, <2>1, <3>1 DEF TasksCounted
    <3>3. /\ node[b] \in Nodes /\ nodeTask[node[b]] \in Tasks
          /\ pc'[nodeTask[node[b]]] # "exchange" /\ ran'[nodeTask[node[b]]] = 0
      BY <1>0, <2>2, <3>1, <3>2, Types DEF Linked
    <3> QED
      BY <1>1, <3>3, Types, <1>0 DEF Linked
  <2>7. \A b \in Actors : pc'[b] = "drop" => b # a /\ pc[b] = "drop" /\ node'[b] = node[b]
    BY <1>0, <2>2, Types
  <2>8. \A t \in Tasks : pc'[t] = "release" => pc[t] = "release"
    BY <1>0, <2>2, Types
  <2>9. DropsKnown'
    BY <1>0, <1>1, <2>2, <2>6, <2>7, <2>8 DEF DropsKnown
  <2> QED
    BY <2>4, <2>5, <2>9
<1> QED
  BY <1>2, <1>3, <1>4, <1>5

LEMMA OwnerSound ==
  ASSUME Invariant, [Next]_vars,
         (\E e \in Exceptions : Preset(e)) \/ (\E e \in Exceptions \cup {None} : DoneWaiting(e))
         \/ PresetFollow \/ PresetFail \/ ClearWaiting \/ Reset \/ UNCHANGED vars
  PROVE  LinksKnown' /\ WalksKnown' /\ DropsKnown'
<1>0. /\ TypeOK /\ LinksKnown /\ WalksKnown /\ DropsKnown /\ PointedToOnce /\ CallsInOrder
      /\ Chain' = Chain /\ \A n \in Linked : n \in Nodes /\ nodeTask[n] \in Tasks
      /\ \A n \in Chain : n \in Nodes /\ nodeTask[n] \in Tasks
  BY Parts, SoundParts, Types, OwnerSameList DEF Linked, Chain, SameList
<1>1. CASE UNCHANGED vars
  <2>1. UNCHANGED <<next, nodeTask, freed, pc, node, old, ran, failure, exceptionPtr>>
    BY <1>1 DEF vars, listVars, nodeVars, taskVars
  <2>2. Linked' = Linked
    BY <2>1 DEF Linked
  <2> QED
    BY <1>0, <2>1, <2>2 DEF LinksKnown, WalksKnown, DropsKnown
<1>2. CASE ~UNCHANGED vars
  <2>1. /\ UNCHANGED <<next, nodeTask, freed, ran>>
        /\ \E to \in {"idle", "doneWaiting", "clearWaiting", "announce"} \cup PresetSteps :
             pc' = [pc EXCEPT ![Owner] = to]
        /\ \/ UNCHANGED node
           \/ \E m : node' = [node EXCEPT ![Owner] = m]
        /\ \/ UNCHANGED old
           \/ \E m : old' = [old EXCEPT ![Owner] = m]
    BY <1>2 DEF Preset, DoneWaiting, PresetFollow, PresetFail, ClearWaiting, Reset, Goto, PresetSteps,
                nodeVars, taskVars
  <2>2. \A t \in Tasks : pc'[t] = pc[t] /\ node'[t] = node[t] /\ old'[t] = old[t]
    BY <1>0, <2>1, Types
  <2>3. pc'[Owner] \in {"idle", "doneWaiting", "clearWaiting", "announce"} \cup PresetSteps
    BY <1>0, <2>1, Types
  <2>4. LinksKnown'
    BY <1>0, <2>1, <2>2, Types DEF LinksKnown
  <2>5. pc'[Owner] \in PresetSteps => node'[Owner] \in Chain
    <3>1. CASE \E e \in Exceptions : Preset(e)
      BY <1>0, <3>1, Types DEF Preset, Goto, PresetSteps, PointedToOnce
    <3>2. CASE PresetFollow
      BY <1>0, <3>2, Types DEF PresetFollow, Goto, WalksKnown, PresetSteps
    <3>3. CASE PresetFail
      <4>1. node[Owner] \in Chain /\ old[Owner] = next[node[Owner]] /\ old[Owner] # node[Owner]
        BY <1>0, <3>3, Types DEF PresetFail, WalksKnown, PresetSteps
      <4>2. Succ(node[Owner]) = old[Owner]
        BY <4>1 DEF Succ
      <4>3. old[Owner] # None => old[Owner] \in Chain
        BY <1>0, <4>1, <4>2 DEF PointedToOnce
      <4> QED
        BY <1>0, <3>3, <4>3, Types DEF PresetFail, Goto, PresetSteps
    <3>4. CASE ~((\E e \in Exceptions : Preset(e)) \/ PresetFollow \/ PresetFail)
      BY <1>0, <1>2, <3>4, Types DEF DoneWaiting, ClearWaiting, Reset, Goto, PresetSteps
    <3> QED
      BY <3>1, <3>2, <3>3, <3>4
  <2>6. pc'[Owner] = "presetFail" => old'[Owner] = next'[node'[Owner]] /\ old'[Owner] # node'[Owner]
    BY <1>0, <1>2, Types DEF Preset, DoneWaiting, PresetFollow, PresetFail, ClearWaiting, Reset, Goto,
                             PresetSteps, nodeVars
  <2>7. WalksKnown'
    BY <1>0, <2>1, <2>2, <2>3, <2>5, <2>6, Types DEF WalksKnown, PresetSteps
  <2>8. Linked' = Linked
    <3>1. \A m : m \in Linked' <=> m \in Linked
      BY <1>0, <2>1, <2>2, Types DEF Linked
    <3> QED
      BY <3>1 DEF Linked
  <2>9. \A t \in Tasks : failure[t] # None => failure'[t] = failure[t]
    BY <1>0, <1>2, Types DEF Preset, DoneWaiting, PresetFollow, PresetFail, ClearWaiting, Reset,
                             DependentTaskFailed, taskVars
  <2>10. \/ exceptionPtr' = exceptionPtr
         \/ \A t \in Tasks : pc[t] \notin {"drop", "release"}
    <3>1. CASE (\E e \in Exceptions \cup {None} : DoneWaiting(e)) \/ Reset
      BY <1>0, <3>1, Types DEF DoneWaiting, Reset, NobodyInside, CallsInOrder, AnnounceSteps, PresetSteps
    <3>2. CASE ~((\E e \in Exceptions \cup {None} : DoneWaiting(e)) \/ Reset)
      BY <1>2, <3>2 DEF Preset, PresetFollow, PresetFail, ClearWaiting, listVars
    <3> QED
      BY <3>1, <3>2
  <2>11. \A a \in Actors : pc'[a] = "drop" => a \in Tasks /\ pc[a] = "drop" /\ node'[a] = node[a]
    BY <1>0, <2>2, <2>3, Types DEF PresetSteps
  <2>12. DropsKnown'
    BY <1>0, <2>1, <2>2, <2>8, <2>9, <2>10, <2>11 DEF DropsKnown
  <2> QED
    BY <2>4, <2>7, <2>12
<1> QED
  BY <1>1, <1>2

LEMMA SoundStep ==
  ASSUME Invariant, [Next]_vars
  PROVE  StepsSound'
<1>1. StepsSound' <=> LinksKnown' /\ WalksKnown' /\ DropsKnown'
  BY DEF StepsSound, LinksKnown, WalksKnown, DropsKnown
<1>2. LinksKnown' /\ WalksKnown' /\ DropsKnown'
  BY StepCases, AddLinks, AddDrops, ExchangeLinks, AnnounceSound, OwnerSound
<1> QED
  BY <1>1, <1>2

(* Whoever drops a reference drops the only one, and the task runs.        *)
LEMMA DropForm ==
  ASSUME Invariant
  PROVE  /\ \A t \in Tasks : AddRelease(t) =>
              /\ t \in added /\ ran[t] = 0
              /\ refCount' = [refCount EXCEPT ![t] = 0] /\ ran' = [ran EXCEPT ![t] = 1]
         /\ \A a \in Actors : AnnounceDrop(a) =>
              /\ node[a] \in Nodes /\ nodeTask[node[a]] \in added /\ ran[nodeTask[node[a]]] = 0
              /\ refCount' = [refCount EXCEPT ![nodeTask[node[a]]] = 0]
              /\ ran' = [ran EXCEPT ![nodeTask[node[a]]] = 1]
<1>0. TypeOK /\ CallsInOrder /\ TasksCounted /\ NodesOwned /\ StepsSound
  BY Parts
<1>1. ASSUME NEW t \in Tasks, t \in added, ran[t] = 0, DropReference(t)
      PROVE  refCount' = [refCount EXCEPT ![t] = 0] /\ ran' = [ran EXCEPT ![t] = 1]
  <2>1. refCount[t] = 1
    BY <1>0, <1>1 DEF TasksCounted
  <2> QED
    BY <1>1, <2>1 DEF DropReference
<1>2. ASSUME NEW t \in Tasks, AddRelease(t) PROVE t \in added /\ ran[t] = 0 /\ DropReference(t)
  BY <1>0, <1>2 DEF AddRelease, CallsInOrder, TasksCounted
<1>3. ASSUME NEW a \in Actors, AnnounceDrop(a)
      PROVE  /\ node[a] \in Nodes /\ nodeTask[node[a]] \in added /\ ran[nodeTask[node[a]]] = 0
             /\ DropReference(nodeTask[node[a]])
  <2>1. node[a] \in Linked /\ pc[a] = "drop" /\ DropReference(nodeTask[node[a]])
    BY <1>0, <1>3 DEF AnnounceDrop, StepsSound
  <2>2. /\ node[a] \in Nodes /\ nodeTask[node[a]] \in Tasks /\ ran[nodeTask[node[a]]] = 0
        /\ pc[nodeTask[node[a]]] # "idle"
    BY <1>0, <2>1, Types DEF Linked, NodesOwned
  <2> QED
    BY <1>0, <2>1, <2>2 DEF CallsInOrder
<1>4. \A t \in added : t \in Tasks
  BY <1>0, Types
<1> QED
  BY <1>1, <1>2, <1>3, <1>4

LEMMA TypeStep ==
  ASSUME Invariant, [Next]_vars
  PROVE  TypeOK'
<1>0. /\ TypeOK /\ CallsInOrder /\ TasksCounted /\ NodesOwned /\ StepsSound
      /\ Cardinality(Tasks) \in Nat /\ InitialSize \in Nat /\ MaxResets \in Nat
  BY Parts, NodeFacts
<1>1. head' \in Nodes \cup {None}
  <2>1. ASSUME NEW t \in Tasks, AddExchange(t) PROVE head' \in Nodes
    BY <2>1, ExchangePushes DEF Pushed
  <2>2. CASE ~\E t \in Tasks : AddExchange(t)
    <3>1. head' \in {head, None}
      BY <2>2, StepCases
       DEF Add, AddImmediate, AddRelease, AddCreateNode, AddLink, AddRelink, AddRecheck,
           AnnounceTake, AnnounceFollow, AnnounceConsume, AnnounceDrop, Preset, DoneWaiting,
           PresetFollow, PresetFail, ClearWaiting, Reset, vars, listVars
    <3> QED
      BY <1>0, <3>1, Types
  <2> QED
    BY <2>1, <2>2
<1>2. /\ waiting' \in BOOLEAN /\ exceptionPtr' \in Exceptions \cup {None}
      /\ result' \in Exceptions \cup {None}
  BY <1>0, StepCases, Types
   DEF Add, AddImmediate, AddRelease, AddCreateNode, AddExchange, AddLink, AddRelink, AddRecheck,
       AnnounceTake, AnnounceFollow, AnnounceConsume, AnnounceDrop, Preset, DoneWaiting,
       PresetFollow, PresetFail, ClearWaiting, Reset, vars, listVars
<1>3. nodeCacheSize' \in 0..(InitialSize + Cardinality(Tasks)) /\ resets' \in 0..MaxResets
  <2>1. nodeCacheSize' \in {nodeCacheSize, lastAssignedCacheIndex}
        /\ (resets' = resets \/ (resets < MaxResets /\ resets' = resets + 1))
    BY StepCases
     DEF Add, AddImmediate, AddRelease, AddCreateNode, AddExchange, AddLink, AddRelink, AddRecheck,
         AnnounceTake, AnnounceFollow, AnnounceConsume, AnnounceDrop, Preset, DoneWaiting,
         PresetFollow, PresetFail, ClearWaiting, Reset, vars, listVars, history
  <2> QED
    BY <1>0, <2>1, Types
<1>4. lastAssignedCacheIndex' \in 0..Cardinality(Tasks)
  <2>1. PICK k : k = Cardinality({t \in added : pc[t] # "create"}')
    OBVIOUS
  <2>2. /\ lastAssignedCacheIndex' \in Nat /\ lastAssignedCacheIndex' <= k
        /\ k <= Cardinality(Tasks) /\ k \in Nat
    BY <2>1, IndexStep
  <2> QED
    BY <1>0, <2>2
<1>5. /\ freed' \subseteq Tasks /\ added' \subseteq Tasks /\ presetSeen' \subseteq Tasks
  <2>1. freed' = freed \/ \E n : freed' = freed \cup ({n} \cap Tasks)
    BY StepCases
     DEF Add, AddImmediate, AddRelease, AddCreateNode, AddExchange, AddLink, AddRelink, AddRecheck,
         AnnounceTake, AnnounceFollow, AnnounceConsume, AnnounceDrop, Preset, DoneWaiting,
         PresetFollow, PresetFail, ClearWaiting, Reset, vars, nodeVars
  <2>2. added' = added \/ \E t \in Tasks : added' = added \cup {t}
    BY StepCases
     DEF Add, AddImmediate, AddRelease, AddCreateNode, AddExchange, AddLink, AddRelink, AddRecheck,
         AnnounceTake, AnnounceFollow, AnnounceConsume, AnnounceDrop, Preset, DoneWaiting,
         PresetFollow, PresetFail, ClearWaiting, Reset, vars, history
  <2>3. presetSeen' \in {presetSeen, presetSeen \cup InList}
    BY StepCases
     DEF Add, AddImmediate, AddRelease, AddCreateNode, AddExchange, AddLink, AddRelink, AddRecheck,
         AnnounceTake, AnnounceFollow, AnnounceConsume, AnnounceDrop, Preset, DoneWaiting,
         PresetFollow, PresetFail, ClearWaiting, Reset, vars, history
  <2>4. InList \subseteq added
    BY DEF InList
  <2> QED
    BY <1>0, <2>1, <2>2, <2>3, <2>4, Types
<1>6. refCount' \in [Tasks -> 0..1] /\ ran' \in [Tasks -> 0..1]
  <2>1. CASE \E t \in Tasks : Add(t)
    <3>1. PICK t \in Tasks : Add(t)
      BY <2>1
    <3>2. refCount[t] = 0 /\ refCount' = [refCount EXCEPT ![t] = refCount[t] + 1] /\ ran' = ran
      BY <1>0, <3>1 DEF Add, TasksCounted
    <3> QED
      BY <1>0, <3>2, Types
  <2>2. CASE (\E t \in Tasks : AddRelease(t)) \/ \E a \in Actors : AnnounceDrop(a)
    <3>1. \E t \in Tasks : refCount' = [refCount EXCEPT ![t] = 0] /\ ran' = [ran EXCEPT ![t] = 1]
      BY <1>0, <2>2, DropForm, Types
    <3> QED
      BY <1>0, <3>1, Types
  <2>3. CASE ~((\E t \in Tasks : Add(t) \/ AddRelease(t)) \/ \E a \in Actors : AnnounceDrop(a))
    <3>1. UNCHANGED <<refCount, ran>>
      BY <2>3, StepCases
       DEF AddImmediate, AddCreateNode, AddExchange, AddLink, AddRelink, AddRecheck,
           AnnounceTake, AnnounceFollow, AnnounceConsume, Preset, DoneWaiting,
           PresetFollow, PresetFail, ClearWaiting, Reset, vars, taskVars
    <3> QED
      BY <1>0, <3>1, Types
  <2> QED
    BY <2>1, <2>2, <2>3
<1>7. failure' \in [Tasks -> Exceptions \cup {None}]
  <2>1. \/ failure' = failure
        \/ \E t \in Tasks : \E e \in Exceptions : failure' = [failure EXCEPT ![t] = e]
    <3>1. CASE \E t \in Tasks : AddImmediate(t)
      BY <1>0, <3>1, Types DEF AddImmediate, DependentTaskFailed
    <3>2. CASE \E a \in Actors : AnnounceConsume(a)
      <4>1. PICK a \in Actors : AnnounceConsume(a)
        BY <3>2
      <4>2. nodeTask[node[a]] \in Tasks
        BY <1>0, <4>1, Types DEF AnnounceConsume, StepsSound, Chain, Linked
      <4> QED
        BY <1>0, <4>1, <4>2, Types DEF AnnounceConsume, DependentTaskFailed
    <3>3. CASE PresetFail
      <4>1. nodeTask[node[Owner]] \in Tasks
        BY <1>0, <3>3, Types DEF PresetFail, StepsSound, Chain, Linked, PresetSteps
      <4> QED
        BY <1>0, <3>3, <4>1, Types DEF PresetFail, DependentTaskFailed
    <3>4. CASE ~((\E t \in Tasks : AddImmediate(t)) \/ (\E a \in Actors : AnnounceConsume(a)) \/ PresetFail)
      BY <3>4, StepCases
       DEF Add, AddRelease, AddCreateNode, AddExchange, AddLink, AddRelink, AddRecheck,
           AnnounceTake, AnnounceFollow, AnnounceDrop, Preset, DoneWaiting,
           PresetFollow, ClearWaiting, Reset, vars, taskVars
    <3> QED
      BY <3>1, <3>2, <3>3, <3>4
  <2> QED
    BY <1>0, <2>1, Types
<1>8. next' \in [Nodes -> Nodes \cup {None}] /\ nodeTask' \in [Nodes -> Tasks \cup {None}]
  <2>1. CASE \E t \in Tasks : AddCreateNode(t)
    <3>1. PICK t \in Tasks : AddCreateNode(t)
      BY <2>1
    <3>2. /\ nodeTask' = [nodeTask EXCEPT ![NewNode(t)] = t]
          /\ next' = [next EXCEPT ![NewNode(t)] = NewNode(t)] /\ pc[t] = "create"
      BY <3>1 DEF AddCreateNode, NewNode
    <3>3. NewNode(t) \in Nodes
      BY <3>2, FreshNode
    <3> QED
      BY <1>0, <3>2, <3>3, Types
  <2>2. CASE ~\E t \in Tasks : AddCreateNode(t)
    <3>1. \/ UNCHANGED next
          \/ \E t \in Tasks : \E m \in {None, old[t]} : next' = [next EXCEPT ![node[t]] = m]
      BY <2>2, StepCases
       DEF Add, AddImmediate, AddRelease, AddExchange, AddLink, AddRelink, AddRecheck,
           AnnounceTake, AnnounceFollow, AnnounceConsume, AnnounceDrop, Preset, DoneWaiting,
           PresetFollow, PresetFail, ClearWaiting, Reset, vars, nodeVars
    <3>2. UNCHANGED nodeTask
      BY <2>2, StepCases
       DEF Add, AddImmediate, AddRelease, AddExchange, AddLink, AddRelink, AddRecheck,
           AnnounceTake, AnnounceFollow, AnnounceConsume, AnnounceDrop, Preset, DoneWaiting,
           PresetFollow, PresetFail, ClearWaiting, Reset, vars, nodeVars
    <3> QED
      BY <1>0, <3>1, <3>2, Types
  <2> QED
    BY <2>1, <2>2
<1>9. node' \in [Actors -> Nodes \cup {None}] /\ old' \in [Actors -> Nodes \cup {None}]
  <2>1. \/ UNCHANGED node
        \/ \E a \in Actors : \E n \in Nodes \cup {None} : node' = [node EXCEPT ![a] = n]
    <3>1. ASSUME NEW t \in Tasks, AddCreateNode(t)
          PROVE  \E n \in Nodes : node' = [node EXCEPT ![t] = n]
      <4>1. node' = [node EXCEPT ![t] = NewNode(t)] /\ pc[t] = "create"
        BY <3>1 DEF AddCreateNode, NewNode
      <4> QED
        BY <4>1, FreshNode
    <3>2. CASE \E t \in Tasks : AddCreateNode(t)
      BY <1>0, <3>1, <3>2, Types
    <3>3. CASE ~\E t \in Tasks : AddCreateNode(t)
      BY <1>0, <3>3, StepCases, Types
       DEF Add, AddImmediate, AddRelease, AddExchange, AddLink, AddRelink, AddRecheck,
           AnnounceTake, AnnounceFollow, AnnounceConsume, AnnounceDrop, Preset, DoneWaiting,
           PresetFollow, PresetFail, ClearWaiting, Reset, vars
    <3> QED
      BY <3>2, <3>3
  <2>2. \/ UNCHANGED old
        \/ \E a \in Actors : \E n \in Nodes \cup {None} : old' = [old EXCEPT ![a] = n]
    <3>1. \A a \in Actors : AnnounceFollow(a) => next[node[a]] \in Nodes \cup {None}
      BY <1>0, Types DEF AnnounceFollow, StepsSound, Chain, Linked
    <3>2. PresetFollow => next[node[Owner]] \in Nodes \cup {None}
      BY <1>0, Types DEF PresetFollow, StepsSound, Chain, Linked, PresetSteps
    <3> QED
      BY <1>0, <3>1, <3>2, StepCases, Types
       DEF Add, AddImmediate, AddRelease, AddCreateNode, AddExchange, AddLink, AddRelink, AddRecheck,
           AnnounceTake, AnnounceFollow, AnnounceConsume, AnnounceDrop, Preset, DoneWaiting,
           PresetFollow, PresetFail, ClearWaiting, Reset, vars
  <2> QED
    BY <1>0, <2>1, <2>2, Types
<1>10. pc' \in [Actors -> Labels]
  <2>1. UNCHANGED pc \/ \E a \in Actors : \E to \in Labels : pc' = [pc EXCEPT ![a] = to]
    BY StepCases, NodeFacts
     DEF Add, AddImmediate, AddRelease, AddCreateNode, AddExchange, AddLink, AddRelink, AddRecheck,
         AnnounceTake, AnnounceFollow, AnnounceConsume, AnnounceDrop, Preset, DoneWaiting,
         PresetFollow, PresetFail, ClearWaiting, Reset, vars, Goto, Labels, AddSteps,
         AnnounceSteps, PresetSteps
  <2> QED
    BY <1>0, <2>1, Types
<1> QED
  BY <1>1, <1>2, <1>3, <1>4, <1>5, <1>6, <1>7, <1>8, <1>9, <1>10 DEF TypeOK

(* A list that is not empty is somebody's to announce.                     *)
LEMMA SomebodyStep ==
  ASSUME Invariant, [Next]_vars
  PROVE  SomebodyAnnounces'
<1> DEFINE W(b) == \/ pc[b] = "announce"
                   \/ b \in Tasks /\ pc[b] \in {"link", "relink", "recheck"} /\ old[b] = None
<1>0. /\ TypeOK /\ CallsInOrder /\ (head # None /\ ~waiting => \E b \in Actors : W(b))
      /\ Tasks \subseteq Actors
  BY Parts, Types DEF SomebodyAnnounces
<1> SUFFICES ASSUME head' # None, ~waiting' PROVE \E b \in Actors : W(b)'
  BY DEF SomebodyAnnounces
<1>1. ASSUME NEW t \in Tasks,
             Add(t) \/ AddImmediate(t) \/ AddRelease(t) \/ AddCreateNode(t)
      PROVE  \E b \in Actors : W(b)'
  <2>1. /\ UNCHANGED <<head, waiting, old>> /\ pc[t] \in {"idle", "immediate", "release", "create"}
        /\ \E to : pc' = [pc EXCEPT ![t] = to]
    BY <1>1 DEF Add, AddImmediate, AddRelease, AddCreateNode, Goto, listVars
  <2>2. PICK b \in Actors : W(b)
    BY <1>0, <2>1
  <2>3. W(b)'
    BY <1>0, <2>1, <2>2, Types
  <2> QED
    BY <2>3
<1>2. ASSUME NEW t \in Tasks, AddExchange(t) PROVE \E b \in Actors : W(b)'
  <2>1. /\ UNCHANGED waiting /\ pc[t] = "exchange" /\ pc' = [pc EXCEPT ![t] = "link"]
        /\ old' = [old EXCEPT ![t] = head]
    BY <1>2 DEF AddExchange, Goto
  <2>2. CASE head = None
    BY <1>0, <2>1, <2>2, Types
  <2>3. CASE head # None
    <3>1. PICK b \in Actors : W(b)
      BY <1>0, <2>1, <2>3
    <3>2. W(b)'
      BY <1>0, <2>1, <3>1, Types
    <3> QED
      BY <3>2
  <2> QED
    BY <2>2, <2>3
<1>3. ASSUME NEW t \in Tasks, AddLink(t) \/ AddRelink(t) \/ AddRecheck(t)
      PROVE  \E b \in Actors : W(b)'
  <2>1. /\ UNCHANGED <<head, waiting, old>>
        /\ \E to : /\ pc' = [pc EXCEPT ![t] = to]
                   /\ old[t] = None => to \in {"relink", "recheck", "announce"}
    BY <1>3 DEF AddLink, AddRelink, AddRecheck, Goto, listVars
  <2>2. PICK b \in Actors : W(b)
    BY <1>0, <2>1
  <2>3. b = t => old[t] = None
    BY <1>3, <2>2 DEF AddLink, AddRelink, AddRecheck
  <2>4. W(b)'
    BY <1>0, <2>1, <2>2, <2>3, Types
  <2> QED
    BY <2>4
<1>4. ASSUME NEW a \in Actors, AnnounceFollow(a) \/ AnnounceConsume(a) \/ AnnounceDrop(a)
      PROVE  \E b \in Actors : W(b)'
  <2>1. /\ UNCHANGED <<head, waiting>> /\ pc[a] \in {"follow", "consume", "drop"}
        /\ \E to : pc' = [pc EXCEPT ![a] = to]
        /\ \A b \in Actors : b # a => old'[b] = old[b]
    BY <1>0, <1>4, Types DEF AnnounceFollow, AnnounceConsume, AnnounceDrop, Goto, listVars
  <2>2. PICK b \in Actors : W(b)
    BY <1>0, <2>1
  <2>3. W(b)'
    BY <1>0, <2>1, <2>2, Types
  <2> QED
    BY <2>3
<1>5. ASSUME (\E e \in Exceptions : Preset(e)) \/ (\E e \in Exceptions \cup {None} : DoneWaiting(e))
             \/ PresetFollow \/ PresetFail \/ Reset
      PROVE  FALSE
  <2>1. \/ pc[Owner] \in {"idle", "doneWaiting"} \cup PresetSteps /\ waiting' = waiting
        \/ waiting' = TRUE
    BY <1>5 DEF Preset, DoneWaiting, PresetFollow, PresetFail, Reset, PresetSteps, listVars
  <2>2. waiting'
    BY <1>0, <2>1 DEF CallsInOrder, PresetSteps, AnnounceSteps
  <2> QED
    BY <2>2
<1>6. CASE ClearWaiting
  BY <1>0, <1>6, Types DEF ClearWaiting, Goto
<1>7. CASE UNCHANGED vars
  BY <1>0, <1>7 DEF vars, listVars
<1>8. ASSUME NEW a \in Actors, AnnounceTake(a) PROVE FALSE
  BY <1>8 DEF AnnounceTake
<1> QED
  BY <1>1, <1>2, <1>3, <1>4, <1>5, <1>6, <1>7, <1>8, StepCases

(* When nobody is inside and the resource is done, everybody has run.      *)
LEMMA NobodyStep ==
  ASSUME Invariant, [Next]_vars
  PROVE  NobodyForgotten'
<1>0. /\ CallsInOrder' /\ TasksCounted' /\ NodesOwned' /\ PointedToOnce' /\ NoCycle'
      /\ StepsSound' /\ SomebodyAnnounces' /\ TypeOK
  BY CallsStep, CountStep, OwnedStep, PointersKept, NoCycleKept, SoundStep, SomebodyStep, Parts
<1> SUFFICES ASSUME NobodyInside', ~waiting'
             PROVE  head' = None /\ \A t \in added' : ran'[t] = 1
  BY DEF NobodyForgotten
<1>1. /\ \A a \in Actors : pc'[a] \in {"idle", "ended"}
      /\ Tasks \subseteq Actors
  BY <1>0, Types DEF NobodyInside
<1>2. head' = None
  BY <1>0, <1>1 DEF SomebodyAnnounces
<1>3. \A a \in Actors : Cursor(a)' = None
  BY <1>1 DEF Cursor
<1>4. Chain' = {}
  <2> SUFFICES ASSUME Chain' # {} PROVE FALSE
    OBVIOUS
  <2>1. PICK n \in Chain' : \A m \in Chain' : Succ(m)' # n
    BY <1>0 DEF NoCycle
  <2>2. n # None
    BY <1>0, Types DEF Chain, Linked
  <2>3. \A k \in Chain' : \/ k = head' \/ (\E a \in Actors : k = Cursor(a)')
                          \/ \E m \in Chain' : k = Succ(m)'
    BY <1>0 DEF PointedToOnce
  <2> QED
    BY <1>2, <1>3, <2>1, <2>2, <2>3
<1>5. Linked' = {}
  BY <1>1, <1>4 DEF Chain
<1>6. ASSUME NEW t \in added', ran'[t] # 1 PROVE FALSE
  <2>1. t \in Tasks /\ ran'[t] = 0 /\ pc'[t] \in {"idle", "ended"}
    <3>1. t \in Tasks /\ ran' \in [Tasks -> 0..1]
      BY <1>0, <1>6, TypeStep DEF TypeOK
    <3> QED
      BY <1>1, <1>6, <3>1
  <2>2. PICK n \in Nodes : nodeTask'[n] = t
    BY <1>0, <1>6, <2>1 DEF TasksCounted
  <2>3. n \in Linked'
    BY <1>0, <2>1, <2>2, Types DEF Linked
  <2> QED
    BY <1>5, <2>3
<1> QED
  BY <1>2, <1>6

(* Nobody touches a node that was deleted, or that another announces.      *)
LEMMA AliveStep ==
  ASSUME Invariant, [Next]_vars
  PROVE  NodesAlive'
<1>0. /\ CallsInOrder' /\ LinksKnown' /\ WalksKnown' /\ DropsKnown' /\ PointedToOnce'
      /\ None \notin Nodes /\ Actors = Tasks \cup {Owner} /\ Chain' \subseteq Nodes
  BY CallsStep, SoundStep, PointersKept, NodeFacts
     DEF StepsSound, LinksKnown, WalksKnown, DropsKnown, Chain, Linked
<1>1. ASSUME NEW a \in Actors, pc'[a] \in {"link", "follow", "consume"} \cup PresetSteps
      PROVE  node'[a] \notin freed'
  <2>1. node'[a] \in Chain'
    <3>1. CASE pc'[a] = "link"
      <4>1. a \in Tasks
        BY <1>0, <3>1 DEF CallsInOrder, PresetSteps, AnnounceSteps
      <4> QED
        BY <1>0, <3>1, <4>1 DEF LinksKnown
    <3>2. CASE pc'[a] # "link"
      BY <1>0, <1>1, <3>2 DEF WalksKnown
    <3> QED
      BY <3>1, <3>2
  <2> QED
    BY <1>0, <2>1 DEF LinksKnown
<1>2. ASSUME NEW a \in Actors, NEW b \in Actors, a # b,
             pc'[a] \in {"follow", "consume", "drop"}, pc'[b] \in {"follow", "consume", "drop"}
      PROVE  node'[a] # node'[b]
  <2>1. ASSUME NEW c \in Actors, pc'[c] \in {"follow", "consume"}
        PROVE  Cursor(c)' = node'[c] /\ node'[c] \in Chain'
    BY <1>0, <2>1 DEF Cursor, WalksKnown
  <2>2. CASE pc'[a] # "drop" /\ pc'[b] # "drop"
    <3>1. /\ Cursor(a)' = node'[a] /\ Cursor(b)' = node'[b] /\ Cursor(a)' # None
      BY <1>0, <1>2, <2>1, <2>2
    <3>2. Cursor(b)' # Cursor(a)'
      BY <1>0, <1>2, <3>1 DEF PointedToOnce
    <3> QED
      BY <3>1, <3>2
  <2>3. CASE pc'[a] = "drop" /\ pc'[b] # "drop"
    BY <1>2, <2>1, <2>3 DEF Chain
  <2>4. CASE pc'[a] # "drop" /\ pc'[b] = "drop"
    BY <1>2, <2>1, <2>4 DEF Chain
  <2>5. CASE pc'[a] = "drop" /\ pc'[b] = "drop"
    BY <1>0, <1>2, <2>5 DEF DropsKnown
  <2> QED
    BY <2>2, <2>3, <2>4, <2>5
<1>3. \A a \in Actors : Touches(a)' \cap freed' = {}
  BY <1>1 DEF Touches
<1>4. \A a, b \in Actors : pc'[a] \in {"follow", "consume", "drop"} /\ a # b =>
        node'[a] \notin (IF pc'[b] \in AnnounceSteps \ {"announce"} THEN {node'[b]} ELSE {})
  BY <1>2 DEF AnnounceSteps
<1> QED
  BY <1>3, <1>4 DEF NodesAlive

(* How tasks are told of a failure.                                        *)
LEMMA FailForm ==
  ASSUME Invariant, [Next]_vars
  PROVE  \/ failure' = failure
         \/ \E t \in added : \E e \in Exceptions :
              /\ failure[t] = None /\ ran[t] = 0
              /\ failure' = [failure EXCEPT ![t] = e]
              /\ UNCHANGED <<waiting, exceptionPtr, ran, added>>
<1>0. TypeOK /\ CallsInOrder /\ TasksCounted /\ NodesOwned /\ StepsSound
  BY Parts
<1>1. ASSUME NEW t \in Tasks, AddImmediate(t) PROVE t \in added /\ ran[t] = 0
  BY <1>0, <1>1 DEF AddImmediate, CallsInOrder, TasksCounted
<1>2. ASSUME NEW n \in Chain
      PROVE  nodeTask[n] \in Tasks /\ nodeTask[n] \in added /\ ran[nodeTask[n]] = 0
  <2>1. n \in Nodes /\ nodeTask[n] # None /\ nodeTask[n] \in Tasks /\ ran[nodeTask[n]] = 0
    BY <1>0, <1>2, Types DEF Chain, Linked
  <2>2. pc[nodeTask[n]] # "idle"
    BY <1>0, <2>1 DEF NodesOwned
  <2> QED
    BY <1>0, <2>1, <2>2 DEF CallsInOrder
<1>3. CASE \E t \in Tasks : AddImmediate(t)
  <2>1. PICK t \in Tasks : AddImmediate(t)
    BY <1>3
  <2>2. UNCHANGED <<waiting, exceptionPtr, ran, added>> /\ t \in added /\ ran[t] = 0
    BY <1>1, <2>1 DEF AddImmediate, listVars, history
  <2> QED
    BY <1>0, <2>1, <2>2, Types DEF AddImmediate, DependentTaskFailed
<1>4. CASE \E a \in Actors : AnnounceConsume(a)
  <2>1. PICK a \in Actors : AnnounceConsume(a)
    BY <1>4
  <2>2. node[a] \in Chain /\ UNCHANGED <<waiting, exceptionPtr, ran, added>>
    BY <1>0, <2>1 DEF AnnounceConsume, listVars, history, StepsSound
  <2>3. failure' = DependentTaskFailed(failure, nodeTask[node[a]], exceptionPtr)
    BY <2>1 DEF AnnounceConsume
  <2> QED
    BY <1>0, <1>2, <2>2, <2>3, Types DEF DependentTaskFailed
<1>5. CASE PresetFail
  <2>1. /\ node[Owner] \in Chain /\ UNCHANGED <<waiting, exceptionPtr, ran, added>>
        /\ failure' = DependentTaskFailed(failure, nodeTask[node[Owner]], result)
    BY <1>0, <1>5, Types DEF PresetFail, listVars, history, StepsSound, PresetSteps
  <2> QED
    BY <1>0, <1>2, <2>1, Types DEF DependentTaskFailed
<1>6. CASE ~((\E t \in Tasks : AddImmediate(t)) \/ (\E a \in Actors : AnnounceConsume(a)) \/ PresetFail)
  BY <1>6, StepCases
   DEF Add, AddRelease, AddCreateNode, AddExchange, AddLink, AddRelink, AddRecheck,
       AnnounceTake, AnnounceFollow, AnnounceDrop, Preset, DoneWaiting,
       PresetFollow, ClearWaiting, Reset, vars, taskVars
<1> QED
  BY <1>3, <1>4, <1>5, <1>6

(* A failure told is of a task that was added, and has run when the owner  *)
(* begins anew.                                                            *)
LEMMA FailedAdded ==
  ASSUME Invariant, [Next]_vars
  PROVE  \A t \in Tasks : failure'[t] # None => /\ t \in added'
                                                /\ pc'[Owner] = "idle" => ran'[t] = 1
<1>0. /\ TypeOK /\ CallsInOrder /\ TypeOK' /\ CallsInOrder' /\ \A t \in added : t \in Tasks
      /\ \A t \in Tasks : failure[t] # None => t \in added /\ (pc[Owner] = "idle" => ran[t] = 1)
  BY Parts, TypeStep, CallsStep, Types DEF PresetTold
<1>1. added \subseteq added'
  BY StepCases
   DEF Add, AddImmediate, AddRelease, AddCreateNode, AddExchange, AddLink, AddRelink, AddRecheck,
       AnnounceTake, AnnounceFollow, AnnounceConsume, AnnounceDrop, Preset, DoneWaiting,
       PresetFollow, PresetFail, ClearWaiting, Reset, vars, history
<1>2. \A t \in Tasks : failure'[t] # None => t \in added
  BY <1>0, FailForm, Types
<1>3. CASE Reset
  <2>1. /\ pc[Owner] = "ended" /\ NobodyInside /\ UNCHANGED <<ran, failure>>
    BY <1>3 DEF Reset, taskVars
  <2>2. ~waiting
    BY <1>0, <2>1 DEF CallsInOrder, PresetSteps
  <2>3. \A t \in Tasks : t \in added => ran[t] = 1
    BY <2>1, <2>2, NothingLinked
  <2> QED
    BY <1>0, <1>1, <2>1, <2>3
<1>4. CASE ~Reset /\ pc'[Owner] = "idle"
  <2>1. pc[Owner] = "idle"
    <3>1. UNCHANGED pc \/ \E a \in Actors : \E to \in Labels \ {"idle"} : pc' = [pc EXCEPT ![a] = to]
      BY <1>4, StepCases, NodeFacts
       DEF Add, AddImmediate, AddRelease, AddCreateNode, AddExchange, AddLink, AddRelink, AddRecheck,
           AnnounceTake, AnnounceFollow, AnnounceConsume, AnnounceDrop, Preset, DoneWaiting,
           PresetFollow, PresetFail, ClearWaiting, vars, Goto, Labels, AddSteps, AnnounceSteps,
           PresetSteps
    <3> QED
      BY <1>0, <1>4, <3>1, Types
  <2>2. waiting
    BY <1>0, <2>1 DEF CallsInOrder, PresetSteps, AnnounceSteps
  <2>3. UNCHANGED <<failure, ran>>
    BY <1>0, <1>4, <2>1, <2>2, StepCases, Types
     DEF CallsInOrder, AnnounceSteps, Add, AddImmediate, AddRelease, AddCreateNode, AddExchange,
         AddLink, AddRelink, AddRecheck, AnnounceTake, AnnounceFollow, AnnounceConsume, AnnounceDrop,
         Preset, DoneWaiting, PresetFollow, PresetFail, ClearWaiting, vars, taskVars
  <2> QED
    BY <1>0, <1>1, <2>1, <2>3
<1>5. CASE pc'[Owner] # "idle"
  BY <1>1, <1>2, <1>5
<1> QED
  BY <1>3, <1>4, <1>5

(* presetTaskAsFailed() tells everybody who is in the list.                *)
Ahead(t) == /\ pc[Owner] \in PresetSteps
            /\ \E n \in Untold : nodeTask[n] = t /\ (n = node[Owner] \/ \E m \in Untold : Succ(m) = n)

LEMMA PresetStarts ==
  ASSUME Invariant, [Next]_vars, NEW e \in Exceptions, Preset(e), NEW t \in presetSeen', failure'[t] = None
  PROVE  Ahead(t)'
<1>0. /\ TypeOK /\ CallsInOrder /\ TasksCounted /\ NodesOwned /\ PointedToOnce /\ NoCycle
      /\ \A u \in Tasks : failure[u] # None => ran[u] = 1
      /\ \A u \in presetSeen : failure[u] # None
      /\ pc[Owner] = "idle" /\ waiting /\ None \notin Nodes /\ Owner \notin Tasks
      /\ None \notin Tasks /\ Actors = Tasks \cup {Owner}
  <2>1. TypeOK /\ CallsInOrder /\ pc[Owner] = "idle"
    BY Parts DEF Preset
  <2>2. waiting
    BY <2>1 DEF CallsInOrder, PresetSteps, AnnounceSteps
  <2> QED
    BY <2>1, <2>2, Parts, NodeFacts DEF PresetTold, PresetSteps
<1>1. /\ UNCHANGED <<head, next, nodeTask, failure, ran, added, old>> /\ presetSeen' = presetSeen \cup InList
      /\ node' = [node EXCEPT ![Owner] = head]
      /\ pc' = [pc EXCEPT ![Owner] = IF head = None THEN "doneWaiting" ELSE "presetFollow"]
  BY DEF Preset, Goto, listVars, nodeVars, taskVars
<1>2. \A a \in Actors : pc[a] \notin AnnounceSteps
  BY <1>0 DEF CallsInOrder, AnnounceSteps, PresetSteps
<1>3. \A a \in Actors : Cursor(a) = None
  BY <1>2 DEF Cursor, AnnounceSteps
<1>4. Chain = Linked /\ Chain' = Chain /\ \A n \in Chain : Succ(n)' = Succ(n)
  <2>1. Chain = Linked
    BY <1>2 DEF Chain, AnnounceSteps
  <2> QED
    BY <2>1, OwnerSameList DEF SameList
<1>5. \A n \in Chain : n \in Untold'
  <2> SUFFICES ASSUME NEW n \in Chain PROVE n \in Untold'
    OBVIOUS
  <2>1. n \in Nodes /\ nodeTask[n] \in Tasks /\ ran[nodeTask[n]] = 0 /\ pc[nodeTask[n]] # "exchange"
    BY <1>0, Types DEF Chain, Linked
  <2>2. pc[nodeTask[n]] \notin {"idle", "create", "immediate", "release"}
    BY <1>0, <2>1 DEF NodesOwned
  <2>3. pc[nodeTask[n]] \in {"link", "relink", "recheck", "ended"} /\ nodeTask[n] \in added
    BY <1>0, <1>2, <2>1, <2>2 DEF CallsInOrder, AddSteps
  <2>4. nodeTask[n] \in InList
    BY <2>1, <2>3 DEF InList
  <2>5. failure[nodeTask[n]] = None
    BY <1>0, <2>1
  <2> QED
    BY <1>1, <1>4, <2>4, <2>5 DEF Untold
<1>6. PICK n \in Chain : nodeTask[n] = t
  <2>1. t \in InList
    BY <1>0, <1>1
  <2>2. /\ t \in added /\ t \in Tasks /\ ran[t] = 0
        /\ pc[t] \in {"link", "relink", "recheck", "ended"}
    BY <1>0, <2>1, Types DEF InList
  <2>3. PICK n \in Nodes : nodeTask[n] = t
    BY <1>0, <2>2 DEF TasksCounted
  <2>4. n \in Linked
    BY <1>0, <2>2, <2>3 DEF Linked
  <2> QED
    BY <1>4, <2>3, <2>4
<1>7. \A m \in Chain : m = head \/ \E k \in Chain : m = Succ(k)
  <2>1. \A m \in Chain : m # None
    BY <1>0 DEF Chain, Linked
  <2> QED
    BY <1>0, <1>3, <2>1 DEF PointedToOnce
<1>8. head # None
  <2>1. PICK m \in Chain : \A k \in Chain : Succ(k) # m
    BY <1>0, <1>6 DEF NoCycle
  <2>2. m # None
    BY <1>0 DEF Chain, Linked
  <2> QED
    BY <1>7, <2>1, <2>2
<1>9. pc'[Owner] \in PresetSteps /\ node'[Owner] = head
  BY <1>0, <1>1, <1>8, Types DEF PresetSteps
<1>10. n \in Untold' /\ nodeTask'[n] = t /\ (n = node'[Owner] \/ \E m \in Untold' : Succ(m)' = n)
  BY <1>1, <1>4, <1>5, <1>6, <1>7, <1>9
<1> QED
  BY <1>9, <1>10 DEF Ahead

LEMMA PresetGoesOn ==
  ASSUME Invariant, [Next]_vars, PresetFail, NEW t \in presetSeen', failure'[t] = None
  PROVE  Ahead(t)'
<1>0. /\ TypeOK /\ TypeOK' /\ CallsInOrder /\ TasksCounted /\ NoCycle
      /\ pc[Owner] = "presetFail" /\ node[Owner] \in Chain
      /\ old[Owner] = next[node[Owner]] /\ old[Owner] # node[Owner] /\ result # None
      /\ SameList /\ None \notin Nodes
      /\ \A u \in presetSeen : failure[u] = None => Ahead(u)
  BY Parts, TypeStep, OwnerSameList, NodeFacts
     DEF PresetFail, StepsSound, CallsInOrder, PresetTold, PresetSteps, Ahead
<1>1. PICK k \in Chain : k = node[Owner]
  BY <1>0
<1>2. Succ(k) = old[Owner]
  BY <1>0, <1>1 DEF Succ
<1>3. /\ UNCHANGED <<next, nodeTask, presetSeen, old>>
      /\ failure' = DependentTaskFailed(failure, nodeTask[k], result)
      /\ node' = [node EXCEPT ![Owner] = old[Owner]]
      /\ pc' = [pc EXCEPT ![Owner] = IF old[Owner] = None THEN "doneWaiting" ELSE "presetFollow"]
  BY <1>1 DEF PresetFail, Goto, listVars, nodeVars, history
<1>4. \A n \in Chain : n \in Nodes /\ nodeTask[n] \in Tasks
  BY <1>0, Types DEF Chain, Linked
<1>5. /\ failure'[nodeTask[k]] # None
      /\ \A u \in Tasks : u # nodeTask[k] => failure'[u] = failure[u]
  BY <1>0, <1>1, <1>3, <1>4, Types DEF DependentTaskFailed
<1>6. \A m, n \in Chain : nodeTask[m] = nodeTask[n] => m = n
  BY <1>0, <1>4 DEF TasksCounted
<1>7. Chain' = Chain /\ \A n \in Chain : Succ(n)' = Succ(n)
  BY <1>0 DEF SameList
<1>8. \A n : n \in Untold' <=> n \in Untold /\ n # k
  BY <1>1, <1>3, <1>4, <1>5, <1>6, <1>7 DEF Untold
<1>9. ASSUME NEW n \in Untold'
      PROVE  \E m \in Untold : Succ(m) = n
  <2>1. n \in Untold /\ n # k /\ n \in Chain
    BY <1>8, <1>9 DEF Untold
  <2>2. nodeTask[n] \in presetSeen /\ failure[nodeTask[n]] = None
    BY <2>1 DEF Untold
  <2>3. Ahead(nodeTask[n])
    BY <1>0, <2>2
  <2>4. PICK j \in Untold : /\ nodeTask[j] = nodeTask[n]
                            /\ j = node[Owner] \/ \E m \in Untold : Succ(m) = j
    BY <2>3 DEF Ahead
  <2>5. j = n
    BY <1>6, <2>1, <2>4 DEF Untold
  <2> QED
    BY <1>1, <2>1, <2>4, <2>5
<1>10. PICK n \in Untold' : nodeTask[n] = t
  <2>1. t \in presetSeen /\ t \in Tasks /\ failure[t] = None
    BY <1>0, <1>3, <1>5, Types
  <2>2. PICK n \in Untold : nodeTask[n] = t
    BY <1>0, <2>1 DEF Ahead
  <2>3. n # k
    BY <1>5, <2>2
  <2> QED
    BY <1>8, <2>2, <2>3
<1>11. old[Owner] # None
  <2> SUFFICES ASSUME old[Owner] = None PROVE FALSE
    OBVIOUS
  <2>1. PICK S : S = Untold'
    OBVIOUS
  <2>2. S \in SUBSET Chain /\ S # {}
    BY <1>7, <1>10, <2>1 DEF Untold
  <2>3. PICK j \in S : \A m \in S : Succ(m) # j
    BY <1>0, <2>2 DEF NoCycle
  <2>4. PICK m \in Untold : Succ(m) = j
    BY <1>9, <2>1, <2>3
  <2>5. m # k /\ j # None
    BY <1>0, <1>2, <1>4, <2>2, <2>3, <2>4
  <2> QED
    BY <1>8, <2>1, <2>3, <2>4, <2>5
<1>12. pc'[Owner] \in PresetSteps /\ node'[Owner] = old[Owner]
  BY <1>0, <1>3, <1>11, Types DEF PresetSteps
<1>13. n = node'[Owner] \/ \E m \in Untold' : Succ(m)' = n
  <2>1. PICK m \in Untold : Succ(m) = n
    BY <1>9, <1>10
  <2>2. CASE m = k
    BY <1>2, <1>12, <2>1, <2>2
  <2>3. CASE m # k
    <3>1. m \in Untold' /\ m \in Chain
      BY <1>8, <2>1, <2>3 DEF Untold
    <3>2. Succ(m)' = n
      BY <1>7, <2>1, <3>1
    <3> QED
      BY <3>1, <3>2
  <2> QED
    BY <2>2, <2>3
<1>14. n \in Untold' /\ nodeTask'[n] = t
  BY <1>3, <1>10
<1> QED
  BY <1>12, <1>13, <1>14 DEF Ahead

LEMMA PresetKept ==
  ASSUME Invariant, [Next]_vars, ~PresetFail, pc[Owner] \in PresetSteps,
         NEW t \in presetSeen', failure'[t] = None
  PROVE  Ahead(t)'
<1>0. /\ TypeOK /\ TypeOK' /\ CallsInOrder /\ waiting /\ Owner \notin Tasks /\ Owner \in Actors
      /\ pc[Owner] \notin {"idle", "doneWaiting", "clearWaiting", "ended"} \cup AnnounceSteps
      /\ \A u \in presetSeen : failure[u] = None => Ahead(u)
      /\ \A n \in Chain : n \in Nodes /\ n \in Linked
      /\ \A a \in Actors : pc[a] \notin AnnounceSteps
      /\ \A u \in Tasks : pc[u] \notin {"immediate", "release"}
  <2>1. TypeOK /\ TypeOK' /\ CallsInOrder /\ PresetTold
    BY Parts, TypeStep
  <2>2. waiting
    BY <2>1 DEF CallsInOrder, PresetSteps, AnnounceSteps
  <2>3. \A u \in presetSeen : failure[u] = None => Ahead(u)
    BY <2>1 DEF PresetTold, Ahead
  <2>4. pc[Owner] \notin {"idle", "doneWaiting", "clearWaiting", "ended"} \cup AnnounceSteps
    BY DEF PresetSteps, AnnounceSteps
  <2>5. \A a \in Actors : pc[a] \notin AnnounceSteps /\ (a \in Tasks => pc[a] \notin {"immediate", "release"})
    BY <2>1, <2>2, <2>4, NodeFacts DEF CallsInOrder
  <2> QED
    BY <2>1, <2>2, <2>3, <2>4, <2>5, NodeFacts DEF Chain, Linked
<1>1. /\ UNCHANGED <<failure, presetSeen>> /\ node'[Owner] = node[Owner]
      /\ pc'[Owner] \in PresetSteps
  <2>1. \/ \E u \in Tasks : \/ Add(u) \/ AddCreateNode(u) \/ AddExchange(u) \/ AddLink(u)
                            \/ AddRelink(u) \/ AddRecheck(u)
        \/ PresetFollow \/ UNCHANGED vars
    BY <1>0, StepCases
     DEF AnnounceSteps, AddImmediate, AddRelease,
         AnnounceTake, AnnounceFollow, AnnounceConsume, AnnounceDrop,
         Preset, DoneWaiting, ClearWaiting, Reset
  <2>2. UNCHANGED <<failure, presetSeen>>
    BY <2>1
     DEF Add, AddCreateNode, AddExchange, AddLink, AddRelink, AddRecheck, PresetFollow, vars,
         taskVars, history
  <2>3. UNCHANGED node \/ \E u \in Tasks : \E n : node' = [node EXCEPT ![u] = n]
    BY <2>1
     DEF Add, AddCreateNode, AddExchange, AddLink, AddRelink, AddRecheck, PresetFollow, vars
  <2>4. \/ UNCHANGED pc \/ \E u \in Tasks : \E to : pc' = [pc EXCEPT ![u] = to]
        \/ pc' = [pc EXCEPT ![Owner] = "presetFail"]
    BY <2>1
     DEF Add, AddCreateNode, AddExchange, AddLink, AddRelink, AddRecheck, PresetFollow, vars, Goto
  <2>5. node'[Owner] = node[Owner]
    BY <1>0, <2>3, Types
  <2>6. pc'[Owner] \in {pc[Owner], "presetFail"}
    BY <1>0, <2>4, Types
  <2> QED
    BY <2>2, <2>5, <2>6 DEF PresetSteps
<1>2. \A n \in Chain : n \in Chain' /\ Succ(n)' = Succ(n) /\ nodeTask'[n] = nodeTask[n]
  <2>1. \A n \in Chain : n \in Chain' /\ Succ(n)' = Succ(n)
    <3>1. SameList \/ \E u \in Tasks : Pushed(node[u])
      BY <1>0, ListSteps DEF AnnounceTake, AnnounceConsume, AnnounceSteps
    <3> QED
      BY <3>1 DEF SameList, Pushed
  <2>2. \A n \in Chain : nodeTask'[n] = nodeTask[n]
    <3>1. CASE \E u \in Tasks : AddCreateNode(u)
      <4>1. PICK u \in Tasks : AddCreateNode(u)
        BY <3>1
      <4>2. nodeTask' = [nodeTask EXCEPT ![NewNode(u)] = u] /\ pc[u] = "create"
        BY <4>1 DEF AddCreateNode, NewNode
      <4>3. NewNode(u) \notin Linked
        BY <4>2, FreshNode
      <4> QED
        BY <1>0, <4>2, <4>3, Types
    <3>2. CASE ~\E u \in Tasks : AddCreateNode(u)
      BY <3>2, StepCases
       DEF Add, AddImmediate, AddRelease, AddExchange, AddLink, AddRelink, AddRecheck,
           AnnounceTake, AnnounceFollow, AnnounceConsume, AnnounceDrop, Preset, DoneWaiting,
           PresetFollow, PresetFail, ClearWaiting, Reset, vars, nodeVars
    <3> QED
      BY <3>1, <3>2
  <2> QED
    BY <2>1, <2>2
<1>3. \A n \in Untold : n \in Untold' /\ n \in Chain
  BY <1>1, <1>2 DEF Untold
<1>4. PICK n \in Untold : nodeTask[n] = t /\ (n = node[Owner] \/ \E m \in Untold : Succ(m) = n)
  BY <1>0, <1>1 DEF Ahead
<1>5. n = node'[Owner] \/ \E m \in Untold' : Succ(m)' = n
  BY <1>1, <1>2, <1>3, <1>4
<1>6. n \in Untold' /\ nodeTask'[n] = t
  BY <1>2, <1>3, <1>4
<1> QED
  BY <1>1, <1>5, <1>6 DEF Ahead

LEMMA PresetStep ==
  ASSUME Invariant, [Next]_vars
  PROVE  PresetTold'
<1>0. /\ TypeOK /\ PresetTold /\ \A t \in presetSeen : t \in Tasks
  BY Parts, Types
<1>1. ASSUME NEW t \in presetSeen', failure'[t] = None PROVE Ahead(t)'
  <2>1. CASE \E e \in Exceptions : Preset(e)
    BY <1>1, <2>1, PresetStarts
  <2>2. CASE PresetFail
    BY <1>1, <2>2, PresetGoesOn
  <2>3. CASE ~PresetFail /\ pc[Owner] \in PresetSteps
    BY <1>1, <2>3, PresetKept
  <2>4. CASE pc[Owner] \notin PresetSteps /\ ~\E e \in Exceptions : Preset(e)
    <3>1. presetSeen' = presetSeen
      BY <2>4, StepCases
       DEF Add, AddImmediate, AddRelease, AddCreateNode, AddExchange, AddLink, AddRelink, AddRecheck,
           AnnounceTake, AnnounceFollow, AnnounceConsume, AnnounceDrop, DoneWaiting,
           PresetFollow, PresetFail, ClearWaiting, Reset, vars, history
    <3>2. t \in Tasks /\ failure[t] # None
      BY <1>0, <1>1, <2>4, <3>1 DEF PresetTold
    <3>3. failure'[t] # None
      BY <1>0, <3>2, FailForm, NodeFacts, Types
    <3> QED
      BY <1>1, <3>3
  <2> QED
    BY <2>1, <2>2, <2>3, <2>4
<1>2. \A t \in presetSeen' : failure'[t] = None => Ahead(t)'
  BY <1>1
<1> QED
  BY <1>2, FailedAdded DEF PresetTold, Ahead

-----------------------------------------------------------------------------
(* The theorems.                                                           *)

LEMMA InitInvariant == Init => Invariant
<1> SUFFICES ASSUME Init PROVE Invariant
  OBVIOUS
<1>0. /\ Cardinality(Tasks) \in Nat /\ InitialSize \in Nat /\ MaxResets \in Nat
      /\ Actors = Tasks \cup {Owner} /\ Owner \notin Tasks
  BY NodeFacts
<1>1. TypeOK
  <2>1. /\ nodeCacheSize \in 0..(InitialSize + Cardinality(Tasks))
        /\ lastAssignedCacheIndex \in 0..Cardinality(Tasks) /\ resets \in 0..MaxResets
    BY <1>0 DEF Init
  <2> QED
    BY <2>1 DEF Init, TypeOK, Labels
<1>2. Linked = {} /\ Chain = {} /\ Untold = {}
  BY DEF Init, Linked, Chain, Untold
<1>3. \A a \in Actors : pc[a] = "idle" /\ Cursor(a) = None
  BY DEF Init, Cursor
<1>4. CallsInOrder
  <2>1. /\ pc[Owner] = "idle" /\ waiting = TRUE /\ added = {}
        /\ \A t \in Tasks : pc[t] = "idle"
    BY <1>0, <1>3 DEF Init
  <2> QED
    BY <2>1 DEF CallsInOrder, AnnounceSteps, PresetSteps
<1>5. TasksCounted
  BY <1>0, <1>3, NodeFacts DEF Init, TasksCounted
<1>6. NodesOwned
  <2>1. {t \in added : pc[t] # "create"} = {}
    BY DEF Init
  <2>2. lastAssignedCacheIndex <= Cardinality({t \in added : pc[t] # "create"})
    BY <2>1, FS_EmptySet DEF Init
  <2> QED
    BY <1>0, <1>3, <2>2 DEF Init, NodesOwned
<1>7. PointedToOnce /\ NoCycle
  BY <1>2, <1>3 DEF Init, PointedToOnce, NoCycle
<1>8. StepsSound /\ SomebodyAnnounces
  BY <1>0, <1>2, <1>3 DEF Init, StepsSound, SomebodyAnnounces, PresetSteps
<1>9. NodesAlive /\ NobodyForgotten
  BY <1>3 DEF Init, NodesAlive, NobodyForgotten, Touches, PresetSteps
<1>10. PresetTold
  BY DEF Init, PresetTold
<1> QED
  BY <1>1, <1>4, <1>5, <1>6, <1>7, <1>8, <1>9, <1>10 DEF Invariant, ListIntact

LEMMA InvariantStep == Invariant /\ [Next]_vars => Invariant'
BY TypeStep, CallsStep, CountStep, OwnedStep, PointersKept, NoCycleKept, SoundStep, SomebodyStep,
   NobodyStep, AliveStep, PresetStep
   DEF Invariant, ListIntact

LEMMA InvariantHolds == Spec => []Invariant
BY InitInvariant, InvariantStep, PTL DEF Spec

(* The list, its nodes and its callers stay well typed; the cache never    *)
(* grows beyond the number of tasks (WaitingTaskList.cc, createNode).      *)
THEOREM TypeInvariant == Spec => []TypeOK
<1>1. Invariant => TypeOK
  BY DEF Invariant
<1> QED
  BY <1>1, InvariantHolds, PTL

(* The lock-free list forgets no task and touches no node that was         *)
(* deleted, whichever way calls to add(), doneWaiting() and                *)
(* presetTaskAsFailed() overlap (WaitingTaskList.h:105-133).               *)
THEOREM ListInvariant == Spec => []ListIntact
<1>1. Invariant => ListIntact
  BY DEF Invariant
<1> QED
  BY <1>1, InvariantHolds, PTL

(* Every task in the list when presetTaskAsFailed() walks it is told.      *)
THEOREM PresetInvariant == Spec => []PresetTold
<1>1. Invariant => PresetTold
  BY DEF Invariant
<1> QED
  BY <1>1, InvariantHolds, PTL

-----------------------------------------------------------------------------
(* The list implements the latch.                                          *)

Outcome == IF waiting THEN None ELSE exceptionPtr

LEMMA LatchStep ==
  ASSUME Invariant, [Next]_vars
  PROVE  [Latch!Next]_(Latch!vars)
<1>0. /\ TypeOK /\ CallsInOrder /\ TasksCounted /\ NodesOwned /\ StepsSound
      /\ \A t \in added : t \in Tasks
      /\ \A t \in Tasks : t \in Released <=> ran[t] = 1
  BY Parts, Types DEF Released
<1>1. ASSUME UNCHANGED <<waiting, added, failure>>, UNCHANGED ran,
             Outcome' = Outcome
      PROVE  UNCHANGED Latch!vars
  BY <1>1 DEF Latch!vars, Released, Outcome
<1>2. ASSUME NEW t \in Tasks, Add(t) PROVE Latch!Add(t)
  BY <1>2 DEF Add, Latch!Add, listVars, Released
<1>3. CASE failure' # failure
  <2>1. PICK t \in added, e \in Exceptions :
          /\ failure[t] = None /\ ran[t] = 0 /\ failure' = [failure EXCEPT ![t] = e]
          /\ UNCHANGED <<waiting, exceptionPtr, ran, added>>
    BY <1>3, FailForm
  <2>2. Latch!Fail(t, e) /\ t \in Tasks
    BY <1>0, <2>1 DEF Latch!Fail, Released
  <2> QED
    BY <2>2 DEF Latch!Next
<1>4. ASSUME NEW t \in added, ran[t] = 0, ran' = [ran EXCEPT ![t] = 1], ~waiting,
             exceptionPtr # None => failure[t] # None,
             UNCHANGED <<waiting, exceptionPtr, added, failure>>
      PROVE  Latch!Release(t)
  <2>1. t \notin Released /\ Released' = Released \cup {t}
    BY <1>0, <1>4, Types DEF Released
  <2> QED
    BY <1>0, <1>4, <2>1 DEF Latch!Release
<1>5. CASE (\E t \in Tasks : AddRelease(t)) \/ \E a \in Actors : AnnounceDrop(a)
  <2>1. CASE \E t \in Tasks : AddRelease(t)
    <3>1. PICK t \in Tasks : AddRelease(t)
      BY <2>1
    <3>2. /\ t \in added /\ ran[t] = 0 /\ ran' = [ran EXCEPT ![t] = 1] /\ ~waiting
          /\ exceptionPtr # None => failure[t] # None
          /\ UNCHANGED <<waiting, exceptionPtr, added, failure>>
      BY <1>0, <3>1, DropForm DEF AddRelease, CallsInOrder, StepsSound, listVars, history
    <3> QED
      BY <1>4, <3>2, <3>1 DEF Latch!Next
  <2>2. CASE \E a \in Actors : AnnounceDrop(a)
    <3>1. PICK a \in Actors : AnnounceDrop(a)
      BY <2>2
    <3>2. PICK t \in added : t = nodeTask[node[a]]
      BY <3>1, DropForm
    <3>3. /\ ran[t] = 0 /\ ran' = [ran EXCEPT ![t] = 1] /\ pc[a] = "drop"
          /\ exceptionPtr # None => failure[t] # None
          /\ UNCHANGED <<waiting, exceptionPtr, added, failure>>
      BY <1>0, <3>1, <3>2, DropForm DEF AnnounceDrop, StepsSound, listVars, history
    <3>4. ~waiting
      BY <1>0, <3>3, NodeFacts DEF CallsInOrder, AnnounceSteps, PresetSteps
    <3> QED
      BY <1>0, <1>4, <3>3, <3>4 DEF Latch!Next
  <2> QED
    BY <1>5, <2>1, <2>2
<1>6. CASE ClearWaiting
  <2>1. waiting /\ waiting' = FALSE /\ UNCHANGED <<exceptionPtr, added, failure, ran>>
    BY <1>0, <1>6 DEF ClearWaiting, CallsInOrder, AnnounceSteps, taskVars, history
  <2>2. Latch!Done(exceptionPtr) /\ exceptionPtr \in Exceptions \cup {None}
    BY <1>0, <2>1, Types DEF Latch!Done, Released
  <2> QED
    BY <2>2 DEF Latch!Next
<1>7. CASE Reset
  <2>1. /\ pc[Owner] = "ended" /\ NobodyInside /\ waiting' = TRUE
        /\ UNCHANGED <<added, failure, ran>>
    BY <1>7 DEF Reset, taskVars
  <2>2. ~waiting
    BY <1>0, <2>1 DEF CallsInOrder, PresetSteps
  <2>3. added = Released
    BY <1>0, <2>1, <2>2, NothingLinked DEF Released
  <2> QED
    BY <2>1, <2>2, <2>3 DEF Latch!Next, Latch!Reset, Released
<1>8. CASE /\ failure' = failure /\ ~ClearWaiting /\ ~Reset
           /\ ~\E t \in Tasks : Add(t) \/ AddRelease(t)
           /\ ~\E a \in Actors : AnnounceDrop(a)
  <2>1. UNCHANGED <<waiting, added, ran>>
    BY <1>8, StepCases
     DEF AddImmediate, AddCreateNode, AddExchange, AddLink, AddRelink, AddRecheck,
         AnnounceTake, AnnounceFollow, AnnounceConsume, Preset, DoneWaiting,
         PresetFollow, PresetFail, vars, listVars, taskVars, history
  <2>2. Outcome' = Outcome
    <3>1. CASE \E e \in Exceptions \cup {None} : DoneWaiting(e)
      <4>1. waiting
        BY <1>0, <3>1 DEF DoneWaiting, CallsInOrder, PresetSteps, AnnounceSteps
      <4> QED
        BY <2>1, <4>1 DEF Outcome
    <3>2. CASE ~\E e \in Exceptions \cup {None} : DoneWaiting(e)
      <4>1. UNCHANGED exceptionPtr
        BY <1>8, <3>2, StepCases
         DEF AddImmediate, AddCreateNode, AddExchange, AddLink, AddRelink, AddRecheck,
             AnnounceTake, AnnounceFollow, AnnounceConsume, Preset,
             PresetFollow, PresetFail, vars, listVars
      <4> QED
        BY <2>1, <4>1 DEF Outcome
    <3> QED
      BY <3>1, <3>2
  <2> QED
    BY <1>1, <1>8, <2>1, <2>2
<1> QED
  BY <1>2, <1>3, <1>5, <1>6, <1>7, <1>8 DEF Latch!Next

(* A WaitingTaskList is a latch: a task added is released once, not before *)
(* the resource is done, and with the exception it ended with              *)
(* (WaitingTaskList.h:12-19, 105-133).                                     *)
THEOREM LatchRefinement == Spec => ImplementsLatch
<1>1. Init => Latch!Init
  BY DEF Init, Latch!Init, Released
<1> QED
  BY <1>1, LatchStep, InvariantHolds, PTL DEF Spec, ImplementsLatch, Latch!Spec
=============================================================================
