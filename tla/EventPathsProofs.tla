--------------------------- MODULE EventPathsProofs ---------------------------
(***************************************************************************)
(* Proofs about EventPaths, for any paths, modules, filters and needs.     *)
(***************************************************************************)
EXTENDS EventPaths, FiniteSetTheorems, TLAPS

Labels == {"none", "called", "waiting", "fail", "leave", "count", "finish", "announce",
           "ended", "skipped"}
Quiet       == {"none", "ended", "skipped"}
Accounted   == {"finish", "announce", "ended", "skipped"}
PastWaiting == {"fail", "leave", "count", "finish", "announce", "ended"}
Settled     == PastWaiting \ {"fail"}
EndNames    == {"pathsDone", "allPathsDone"}

InEvent(p)  == \E i \in 1..launched : LaunchOrder[i] = p
PlacesOf(p) == {v \in Visits : v[1] = p}
Later(v)    == {u \in Visits : u[1] = v[1] /\ u[2] > v[2]}

-----------------------------------------------------------------------------
(* The inductive invariant.                                                *)

(* TypeOK without the bounds of the counters, which follow from what they  *)
(* count: PathsCounted, PathsLeftCounted and WorkersOnce.                  *)
Shape ==
  /\ launched \in 0..Len(LaunchOrder)
  /\ workStarted \in [Modules -> BOOLEAN]
  /\ workerState \in [Modules -> States]
  /\ cachedException \in [Modules -> MaybeException]
  /\ numberOfPathsLeftToRun \in [Modules -> Int]
  /\ running \in [Modules -> {"idle", "prefetch", "announce"}]
  /\ done \in [Producers -> BOOLEAN]
  /\ runs \in [Modules -> Nat]
  /\ pathState \in [Paths -> States]
  /\ failedModuleIndex \in [Paths -> Nat]
  /\ modulesToRun \in [Paths -> Int]
  /\ pathDone \in [Paths -> BOOLEAN]
  /\ pc \in [Visits -> Labels]
  /\ finalException \in [Visits -> MaybeException]
  /\ taskException \in [EndNames -> MaybeException]
  /\ pathError \in [run : BOOLEAN, exception : MaybeException]
  /\ stage \in {"idle", "open", "over"}
  /\ outcome \in MaybeException

(* A path only goes on after the place that ends a batch, and what is      *)
(* skipped is the rest of the path.                                        *)
Order ==
  \A v \in Visits :
    /\ StartsNext(v) /\ pc[v] \in {"none", "called", "waiting", "fail"} =>
         \A u \in Later(v) : pc[u] = "none"
    /\ pc[v] = "leave" => StartsNext(v)
    /\ pc[v] \in {"leave", "skipped"} => \A u \in Later(v) : pc[u] \in {"none", "skipped"}

(* modulesToRun_ counts the places that were not counted yet; the last one *)
(* to be counted, and no other, finishes the path.                         *)
Unaccounted(p) == {v \in PlacesOf(p) : pc[v] \notin Accounted}

PathsCounted ==
  /\ \A p \in Paths : modulesToRun[p] = Cardinality(Unaccounted(p))
  /\ \A v \in Visits : pc[v] \in {"finish", "announce"} =>
       /\ ~pathDone[v[1]]
       /\ \A u \in PlacesOf(v[1]) \ {v} : pc[u] \in {"ended", "skipped"}
  /\ \A v \in Visits : pathDone[v[1]] => pc[v] \in {"ended", "skipped"}

(* What a stage of the event says of its paths.                            *)
Stages ==
  /\ \A v \in Visits : ~InEvent(v[1]) => pc[v] \in Quiet /\ finalException[v] = None
  /\ stage = "idle" => launched = 0 /\ ~pathError.run
  /\ stage = "over" => pathError.run /\ \A p \in Paths : pathDone[p]
  /\ pathError.run => launched = Len(LaunchOrder) /\ \A p \in TrigPaths : pathDone[p]
  /\ stage # "over" => outcome = None

(* numberOfPathsLeftToRun_ counts the places that did not skip the worker. *)
Skipped(v) ==
  /\ InEvent(v[1])
  /\ \/ pc[v] = "skipped"
     \/ pc[v] \in PastWaiting /\ Thrown(v) # None /\ Thrown(v).kind = "continue"

Left(m) == {v \in VisitsOf(m) : ~Skipped(v)}

PathsLeftCounted ==
  \A m \in Modules :
    numberOfPathsLeftToRun[m] = IF stage = "idle" THEN 0 ELSE Cardinality(Left(m))

(* The worker's part of an event: not started, prefetching, or with the    *)
(* result of one run, that whoever is past waiting for it has seen.        *)
Untouched(m) == workerState[m] = "Ready" /\ cachedException[m] = None /\ runs[m] = 0
HasResult(m) == /\ workerState[m] # "Ready" /\ runs[m] \in 0..1
                /\ runs[m] = 1 \/ cachedException[m] # None

WorkersOnce ==
  /\ \A m \in Modules :
       /\ ~workStarted[m] => running[m] = "idle" /\ Untouched(m)
       /\ running[m] = "prefetch" => Untouched(m)
       /\ workStarted[m] /\ running[m] # "prefetch" => HasResult(m)
       /\ running[m] # "idle" => \E v \in VisitsOf(m) : pc[v] = "waiting"
       /\ done[m] => \/ \A v \in VisitsOf(m) : Skipped(v)
                     \/ workStarted[m] /\ running[m] = "idle"
  /\ \A v \in Visits : InEvent(v[1]) =>
       /\ pc[v] = "waiting" => workStarted[WorkerOf(v)]
       /\ pc[v] \in PastWaiting => workStarted[WorkerOf(v)] /\ running[WorkerOf(v)] = "idle"

(* The status of a path is that of the places that were looked at so far.  *)
Threw(v)    == pc[v] \in Settled /\ Thrown(v) # None
Rejected(v) == pc[v] \in Settled /\ ~Accepted(v)
FirstOf(v, S) == v \in S /\ \A u \in S : v[2] <= u[2]

StatusSoFar(p) ==
  LET threw  == {v \in PlacesOf(p) : Threw(v)}
      reject == {v \in PlacesOf(p) : Rejected(v)}
  IN  \/ /\ threw # {} /\ pathState[p] = "Exception"
         /\ \E v \in threw : FirstOf(v, threw) /\ failedModuleIndex[p] = v[2]
      \/ /\ threw = {} /\ reject # {} /\ pathState[p] = "Fail"
         /\ \E v \in reject : FirstOf(v, reject) /\ failedModuleIndex[p] = v[2]
      \/ /\ threw = {} /\ reject = {} /\ pathState[p] = "Pass"
         /\ failedModuleIndex[p] = Size(p)

StatusKept ==
  /\ \A p \in Paths : InEvent(p) => StatusSoFar(p)
  /\ \A p \in Paths : failedModuleIndex[p] \in 1..Size(p)
  /\ \A v \in Visits : pc[v] = "fail" => ~ShouldContinue(v)

(* An exception that ended a path is the worker's, and the tasks pathsDone *)
(* and allPathsDone know of one as soon as there is one.                   *)
Ended(trig) == \E v \in Visits : (v[1] \in TrigPaths) = trig /\ finalException[v] # None

FailuresKept ==
  \A v \in Visits : finalException[v] # None =>
    /\ InEvent(v[1]) /\ pc[v] \in PastWaiting
    /\ finalException[v] = Thrown(v) /\ Thrown(v).kind # "continue"

TasksTold ==
  /\ taskException["pathsDone"] # None =>
       taskException["pathsDone"].kind # "continue"
  /\ taskException["pathsDone"] # None <=> Ended(TRUE)
  /\ taskException["allPathsDone"] # None <=>
       Ended(FALSE) \/ (pathError.run /\ Ended(TRUE))
  /\ pathError.run => pathError.exception = taskException["pathsDone"]
  /\ ~pathError.run => pathError.exception = None
  /\ stage = "over" =>
       outcome = IF pathError.exception # None THEN pathError.exception
                 ELSE taskException["allPathsDone"]

ErrorsTold == FailuresKept /\ TasksTold

(* When a module was run, or failed, without the product of another one,   *)
(* every path that has that one skipped it.                                *)
SkippedFor(e) ==
  e # None => \A m \in Needs[e.by] \cap Modules : runs[m] = 0 =>
                \A v \in VisitsOf(m) : InEvent(v[1]) /\ pc[v] = "skipped"

CausesSkipped ==
  /\ \A x \in Modules : SkippedFor(cachedException[x])
  /\ SkippedFor(taskException["pathsDone"])
  /\ LET e == taskException["pathsDone"] IN
     e # None =>
       \A m \in Needs[e.by] \cap Modules : runs[m] = 0 =>
         ~\E v \in VisitsOf(m) : v[1] \in TrigPaths /\ pc[v] = "skipped" /\ LeftByException(v[1])

EventInv == /\ Shape /\ Order /\ PathsCounted /\ Stages /\ PathsLeftCounted
            /\ WorkersOnce /\ StatusKept /\ ErrorsTold /\ CausesSkipped

-----------------------------------------------------------------------------
(* Lemmas about the operators of the model.                                *)

LEMMA PlaceFacts ==
  /\ \A p \in Paths : /\ Size(p) \in Nat \ {0} /\ Module[p] \in Seq(Modules)
                      /\ \A i \in 1..Size(p) : <<p, i>> \in Visits
  /\ \A v \in Visits : /\ v[1] \in Paths /\ v[2] \in 1..Size(v[1]) /\ v[2] \in Nat \ {0}
                       /\ v = <<v[1], v[2]>> /\ WorkerOf(v) \in Modules
  /\ \A u, v \in Visits : u[1] = v[1] /\ u[2] = v[2] => u = v
  /\ \A u, v \in Visits : u[1] = v[1] /\ WorkerOf(u) = WorkerOf(v) => u = v
<1>1. ASSUME NEW p \in Paths
      PROVE  Size(p) \in Nat \ {0} /\ Module[p] \in Seq(Modules)
  <2>1. Module[p] \in Seq(Modules) /\ Module[p] # <<>>
    BY PathAssumption
  <2> QED
    BY <2>1 DEF Size
<1>2. \A v : v \in Visits <=> \E p \in Paths : v \in {p} \X (1..Size(p))
  BY DEF Visits
<1>3. \A p \in Paths : \A i \in 1..Size(p) : <<p, i>> \in Visits
  BY <1>2
<1>4. ASSUME NEW v \in Visits
      PROVE  /\ v[1] \in Paths /\ v[2] \in 1..Size(v[1]) /\ v[2] \in Nat \ {0}
             /\ v = <<v[1], v[2]>> /\ WorkerOf(v) \in Modules
  <2>1. PICK p \in Paths : v \in {p} \X (1..Size(p))
    BY <1>2
  <2>2. v = <<v[1], v[2]>> /\ v[1] = p /\ v[2] \in 1..Size(p)
    BY <2>1
  <2> QED
    BY <2>2, <1>1 DEF WorkerOf, Size
<1>5. ASSUME NEW u \in Visits, NEW v \in Visits, u[1] = v[1], WorkerOf(u) = WorkerOf(v)
      PROVE  u = v
  <2>1. u[2] = v[2]
    BY <1>4, <1>5, PathAssumption DEF WorkerOf
  <2> QED
    BY <2>1, <1>4, <1>5
<1> QED
  BY <1>1, <1>3, <1>4, <1>5

(* A batch goes on to the next place that does not run concurrently.       *)
LEMMA BatchFacts ==
  ASSUME NEW p \in Paths, NEW i \in Nat \ {0}
  PROVE  /\ Batch(p, i) \subseteq Visits
         /\ \A v \in Batch(p, i) : v[1] = p /\ v[2] >= i
         /\ \A v \in Batch(p, i) : StartsNext(v) => Later(v) \cap Batch(p, i) = {}
<1> DEFINE in(k) == k \in i..Size(p) /\ \A l \in i..(k - 1) : <<p, l>> \in Concurrent
<1>1. Size(p) \in Nat \ {0}
  BY PlaceFacts
<1>2. \A v : v \in Batch(p, i) <=> \E k \in i..Size(p) : in(k) /\ v = <<p, k>>
  BY DEF Batch
<1>3. ASSUME NEW v \in Batch(p, i)
      PROVE  v \in Visits /\ v[1] = p /\ v[2] >= i /\ in(v[2])
  <2>1. PICK k \in i..Size(p) : in(k) /\ v = <<p, k>>
    BY <1>2
  <2>2. k \in 1..Size(p) /\ k >= i
    BY <1>1
  <2> QED
    BY <2>1, <2>2, PlaceFacts
<1>4. ASSUME NEW v \in Batch(p, i), StartsNext(v), NEW u \in Later(v), u \in Batch(p, i)
      PROVE  FALSE
  <2>1. v = <<p, v[2]>> /\ u[2] > v[2] /\ v[2] \in Nat /\ u[2] \in Nat /\ v[2] >= i
    BY <1>3, <1>4, PlaceFacts DEF Later
  <2>2. v[2] \in i..(u[2] - 1)
    BY <2>1
  <2>3. <<p, v[2]>> \in Concurrent
    BY <2>2, <1>3, <1>4
  <2> QED
    BY <2>1, <2>3, <1>4 DEF StartsNext
<1> QED
  BY <1>3, <1>4

LEMMA PathsFinite == IsFiniteSet(Paths) /\ Cardinality(Paths) \in Nat
<1> DEFINE n == Len(LaunchOrder)
           f == [i \in 1..n |-> LaunchOrder[i]]
<1>0. LaunchOrder \in Seq(Paths)
  BY PathAssumption
<1>1. n \in Nat /\ \A i \in 1..n : LaunchOrder[i] \in Paths
  BY <1>0
<1>2. f \in Surjection(1..n, Paths)
  BY <1>1, PathAssumption DEF Surjection
<1>3. IsFiniteSet(1..n)
  BY <1>1, FS_Interval
<1> QED
  BY <1>2, <1>3, FS_Surjection, FS_CardinalityType

(* Every path is launched once.                                            *)
LEMMA LaunchOnce ==
  /\ Len(LaunchOrder) \in Nat
  /\ \A i \in 1..Len(LaunchOrder) : LaunchOrder[i] \in Paths
  /\ \A p \in Paths : \E i \in 1..Len(LaunchOrder) : LaunchOrder[i] = p
  /\ \A i, j \in 1..Len(LaunchOrder) : LaunchOrder[i] = LaunchOrder[j] => i = j
<1> DEFINE n == Len(LaunchOrder)
           f == [i \in 1..n |-> LaunchOrder[i]]
<1>0. LaunchOrder \in Seq(Paths)
  BY PathAssumption
<1>1. n \in Nat /\ \A i \in 1..n : LaunchOrder[i] \in Paths
  BY <1>0
<1>2. \A p \in Paths : \E i \in 1..n : LaunchOrder[i] = p
  BY PathAssumption
<1>3. f \in Surjection(1..n, Paths)
  BY <1>1, <1>2 DEF Surjection
<1>4. IsFiniteSet(1..n) /\ Cardinality(1..n) = n
  BY <1>1, FS_Interval
<1>5. Cardinality(Paths) = Cardinality(1..n)
  BY <1>4, PathAssumption
<1>6. f \in Injection(1..n, Paths)
  BY <1>3, <1>4, <1>5, FS_Surjection
<1>7. \A i, j \in 1..n : f[i] = f[j] => i = j
  BY <1>6 DEF Injection, IsInjective
<1> QED
  BY <1>1, <1>2, <1>7

LEMMA InEventFacts ==
  ASSUME launched \in 0..Len(LaunchOrder)
  PROVE  /\ launched = 0 => \A p : ~InEvent(p)
         /\ launched = Len(LaunchOrder) => \A p \in Paths : InEvent(p)
         /\ launched < Len(LaunchOrder) /\ launched' = launched + 1 =>
              /\ LaunchOrder[launched + 1] \in Paths
              /\ ~InEvent(LaunchOrder[launched + 1])
              /\ \A p : InEvent(p)' <=> InEvent(p) \/ p = LaunchOrder[launched + 1]
         /\ launched' = launched => \A p : InEvent(p)' <=> InEvent(p)
<1>1. launched = 0 => \A p : ~InEvent(p)
  BY DEF InEvent
<1>2. launched = Len(LaunchOrder) => \A p \in Paths : InEvent(p)
  BY LaunchOnce DEF InEvent
<1>3. launched' = launched => \A p : InEvent(p)' <=> InEvent(p)
  BY DEF InEvent
<1>4. ASSUME launched < Len(LaunchOrder), launched' = launched + 1
      PROVE  /\ LaunchOrder[launched + 1] \in Paths
             /\ ~InEvent(LaunchOrder[launched + 1])
             /\ \A p : InEvent(p)' <=> InEvent(p) \/ p = LaunchOrder[launched + 1]
  <2>1. launched + 1 \in 1..Len(LaunchOrder) /\ launched \in Nat
    BY <1>4, LaunchOnce
  <2>2. ~InEvent(LaunchOrder[launched + 1])
    BY <2>1, LaunchOnce DEF InEvent
  <2>3. 1..(launched + 1) = 1..launched \cup {launched + 1}
    BY <2>1
  <2> QED
    BY <1>4, <2>1, <2>2, <2>3, LaunchOnce DEF InEvent
<1> QED
  BY <1>1, <1>2, <1>3, <1>4

LEMMA PlacesFinite ==
  ASSUME NEW p \in Paths
  PROVE  IsFiniteSet(PlacesOf(p)) /\ Cardinality(PlacesOf(p)) = Size(p)
<1> DEFINE f == [v \in PlacesOf(p) |-> v[2]]
<1>1. Size(p) \in Nat /\ IsFiniteSet(1..Size(p)) /\ Cardinality(1..Size(p)) = Size(p)
  BY PlaceFacts, FS_Interval
<1>2. f \in [PlacesOf(p) -> 1..Size(p)]
  BY PlaceFacts DEF PlacesOf
<1>3. \A u, v \in PlacesOf(p) : f[u] = f[v] => u = v
  BY PlaceFacts DEF PlacesOf
<1>4. \A i \in 1..Size(p) : \E v \in PlacesOf(p) : f[v] = i
  <2> SUFFICES ASSUME NEW i \in 1..Size(p) PROVE \E v \in PlacesOf(p) : f[v] = i
    OBVIOUS
  <2>1. <<p, i>> \in PlacesOf(p)
    BY PlaceFacts DEF PlacesOf
  <2> QED
    BY <2>1
<1>5. f \in Injection(PlacesOf(p), 1..Size(p)) /\ f \in Surjection(PlacesOf(p), 1..Size(p))
  BY <1>2, <1>3, <1>4 DEF Injection, Surjection, IsInjective
<1> QED
  BY <1>1, <1>5, FS_Injection

(* A worker is at most once on a path.                                     *)
LEMMA VisitsFinite ==
  ASSUME NEW m \in Modules
  PROVE  IsFiniteSet(VisitsOf(m)) /\ Cardinality(VisitsOf(m)) <= Cardinality(Paths)
<1> DEFINE f == [v \in VisitsOf(m) |-> v[1]]
<1>1. f \in [VisitsOf(m) -> Paths]
  BY PlaceFacts DEF VisitsOf
<1>2. \A u, v \in VisitsOf(m) : f[u] = f[v] => u = v
  BY PlaceFacts DEF VisitsOf
<1>3. f \in Injection(VisitsOf(m), Paths)
  BY <1>1, <1>2 DEF Injection, IsInjective
<1> QED
  BY <1>3, PathsFinite, FS_Injection

(* A counted set that loses one of its elements.                           *)
LEMMA CountDown ==
  ASSUME NEW S, IsFiniteSet(S), NEW x \in S, NEW T, T = S \ {x}
  PROVE  Cardinality(S) \in Nat \ {0} /\ Cardinality(T) = Cardinality(S) - 1
<1>1. Cardinality(T) = Cardinality(S) - 1 /\ IsFiniteSet(T)
  BY FS_RemoveElement
<1>2. Cardinality(S) \in Nat /\ Cardinality(T) \in Nat
  BY <1>1, FS_CardinalityType
<1> QED
  BY <1>1, <1>2

-----------------------------------------------------------------------------
(* Every step keeps the shape of the state.                                *)

LEMMA ThrownFacts ==
  ASSUME Shape
  PROVE  /\ \A v \in Visits : Thrown(v) \in MaybeException
         /\ \A m \in Modules : NeedsFailed(m) \subseteq Exceptions
         /\ None \notin Exceptions
<1>1. None \notin Exceptions
  BY NamesAssumption
<1>2. \A v \in Visits : Thrown(v) \in MaybeException
  BY PlaceFacts DEF Shape, Thrown
<1>3. \A m \in Modules : NeedsFailed(m) \subseteq Exceptions
  BY DEF NeedsFailed, Shape, MaybeException
<1> QED
  BY <1>1, <1>2, <1>3

LEMMA ShapeOfEvent ==
  ASSUME Shape, BeginEvent \/ LaunchPath \/ FinishedPaths \/ EndEvent
  PROVE  Shape'
<1>1. CASE BeginEvent
  <2>1. \A m \in Modules : Cardinality(VisitsOf(m)) \in Nat
    BY VisitsFinite, FS_CardinalityType
  <2>2. NotRun \in [run : BOOLEAN, exception : MaybeException] /\ 0 \in 0..Len(LaunchOrder)
    BY LaunchOnce DEF NotRun, MaybeException
  <2> QED
    BY <1>1, <2>1, <2>2 DEF BeginEvent, Shape, pathVars, visitVars, States, MaybeException, EndNames
<1>2. CASE LaunchPath
  <2> DEFINE p == LaunchOrder[launched + 1]
  <2>1. launched' = launched + 1 /\ launched + 1 \in 0..Len(LaunchOrder)
    BY <1>2, LaunchOnce DEF LaunchPath, Shape
  <2>2. \A q \in Paths : Size(q) \in Nat
    BY PlaceFacts
  <2>3. /\ modulesToRun' \in [Paths -> Int] /\ pathState' \in [Paths -> States]
        /\ failedModuleIndex' \in [Paths -> Nat] /\ pathDone' \in [Paths -> BOOLEAN]
    <3>1. p \in Paths
      BY <1>2, LaunchOnce DEF LaunchPath, Shape
    <3> QED
      BY <1>2, <2>2, <3>1 DEF LaunchPath, Shape, States
  <2>4. pc' \in [Visits -> Labels] /\ finalException' \in [Visits -> MaybeException]
    BY <1>2 DEF LaunchPath, Shape, Labels, MaybeException
  <2> QED
    BY <1>2, <2>1, <2>3, <2>4 DEF LaunchPath, Shape, workerVars
<1>3. CASE FinishedPaths
  <2> DEFINE e == taskException["pathsDone"]
             kept == IF e # None /\ e.kind = "continue" THEN None ELSE e
  <2>1. e \in MaybeException /\ kept \in MaybeException
    BY DEF Shape, EndNames, MaybeException
  <2>2. /\ pathError' = [run |-> TRUE, exception |-> kept]
        /\ done' = [done EXCEPT ![Results] = TRUE]
        /\ \E x \in MaybeException : taskException' = [taskException EXCEPT !["allPathsDone"] = x]
    <3>1. taskException["allPathsDone"] \in MaybeException
      BY DEF Shape, EndNames
    <3> QED
      BY <1>3, <2>1, <3>1 DEF FinishedPaths
  <2>3. pathError' \in [run : BOOLEAN, exception : MaybeException]
    BY <2>1, <2>2
  <2>4. done' \in [Producers -> BOOLEAN] /\ taskException' \in [EndNames -> MaybeException]
    BY <2>2 DEF Shape
  <2>5. UNCHANGED <<workStarted, workerState, cachedException, numberOfPathsLeftToRun, running,
                    runs, pathVars, visitVars, launched, stage, outcome>>
    BY <1>3 DEF FinishedPaths
  <2> QED
    BY <2>3, <2>4, <2>5 DEF Shape, pathVars, visitVars
<1>4. CASE EndEvent
  <2>1. outcome' \in MaybeException /\ stage' = "over"
    BY <1>4 DEF EndEvent, Shape, EndNames
  <2> QED
    BY <1>4, <2>1 DEF EndEvent, Shape, workerVars, pathVars, visitVars
<1> QED
  BY <1>1, <1>2, <1>3, <1>4

LEMMA ShapeOfWorker ==
  ASSUME Shape, NEW m \in Modules, WorkerStep(m)
  PROVE  Shape'
<1>1. CASE PrefetchFailed(m)
  <2>1. PICK e \in NeedsFailed(m) : Result(m, "Exception", e)
    BY <1>1 DEF PrefetchFailed
  <2>2. e \in MaybeException /\ runs' = runs
    BY <1>1, <2>1, ThrownFacts DEF PrefetchFailed, MaybeException
  <2> QED
    BY <2>1, <2>2 DEF Result, Shape, pathVars, visitVars, eventVars, States
<1>2. CASE RunModule(m)
  <2>1. \A k \in Kinds : [by |-> m, kind |-> k] \in MaybeException
    BY DEF Exceptions, MaybeException
  <2>2. "notFound" \in Kinds /\ Throws[m] \subseteq Kinds
    BY NamesAssumption DEF Kinds
  <2>3. PICK s \in States, e \in MaybeException : Result(m, s, e)
    BY <1>2, <2>1, <2>2 DEF RunModule, States, MaybeException
  <2>4. runs' \in [Modules -> Nat]
    BY <1>2 DEF RunModule, Shape
  <2> QED
    BY <2>3, <2>4 DEF Result, Shape, pathVars, visitVars, eventVars
<1>3. CASE WorkerDone(m)
  BY <1>3 DEF WorkerDone, Shape, pathVars, visitVars, eventVars
<1> QED
  BY <1>1, <1>2, <1>3 DEF WorkerStep

LEMMA ShapeOfVisit ==
  ASSUME Shape, NEW v \in Visits, VisitStep(v)
  PROVE  Shape'
<1> DEFINE m == WorkerOf(v)
           p == v[1]
<1>1. m \in Modules /\ p \in Paths /\ v[2] \in Nat /\ Thrown(v) \in MaybeException
  BY PlaceFacts, ThrownFacts
<1> HIDE DEF m, p
<1>2. ASSUME NEW l \in Labels, Goto(v, l) PROVE pc' \in [Visits -> Labels]
  BY <1>2 DEF Goto, Shape
<1>3. ASSUME NEW e \in MaybeException, Tell(v[1], e)
      PROVE  taskException' \in [EndNames -> MaybeException]
  BY <1>3 DEF Tell, Shape, EndNames
<1>4. ASSUME NEW n \in Modules, SkipWorker(n)
      PROVE  /\ numberOfPathsLeftToRun' \in [Modules -> Int] /\ done' \in [Producers -> BOOLEAN]
             /\ UNCHANGED <<workStarted, workerState, cachedException, running, runs>>
  <2>1. n \in Producers /\ numberOfPathsLeftToRun[n] \in Int /\ done[n] \in BOOLEAN
    BY DEF Shape, Producers
  <2>2. numberOfPathsLeftToRun' \in [Modules -> Int]
    BY <1>4, <2>1 DEF SkipWorker, Shape
  <2>3. (done[n] \/ numberOfPathsLeftToRun[n] = 1) \in BOOLEAN
    OBVIOUS
  <2>4. done' \in [Producers -> BOOLEAN]
    BY <1>4, <2>1, <2>3 DEF SkipWorker, Shape
  <2> QED
    BY <1>4, <2>2, <2>4 DEF SkipWorker
<1>5. CASE DoWork(v)
  <2>1. pc' \in [Visits -> Labels]
    BY <1>5, <1>2 DEF DoWork, Labels
  <2> QED
    BY <1>1, <1>5, <2>1 DEF DoWork, Shape, pathVars, eventVars, m
<1>6. CASE Continue(v)
  <2>1. pc' \in [Visits -> Labels]
    BY <1>6 DEF Continue, Shape, Labels
  <2>2. modulesToRun' \in [Paths -> Int]
    BY <1>1, <1>6 DEF Continue, Shape, p
  <2> QED
    BY <1>6, <2>1, <2>2 DEF Continue, Shape, workerVars, eventVars
<1>7. CASE Complete(v) \/ Reject(v)
  <2>1. pc' \in [Visits -> Labels]
    BY <1>7, <1>2 DEF Complete, Reject, Labels
  <2> QED
    BY <1>7, <2>1 DEF Complete, Reject, Shape, workerVars, pathVars, eventVars
<1>8. CASE Tolerate(v)
  <2>1. pc' \in [Visits -> Labels] /\ SkipWorker(m)
    BY <1>8, <1>2 DEF Tolerate, Labels, m
  <2> QED
    BY <1>1, <1>4, <1>8, <2>1 DEF Tolerate, Shape, pathVars, eventVars
<1>9. CASE Rethrow(v)
  <2>1. pc' \in [Visits -> Labels] /\ taskException' \in [EndNames -> MaybeException]
    BY <1>1, <1>9, <1>2, <1>3 DEF Rethrow, Labels
  <2> QED
    BY <1>1, <1>9, <2>1 DEF Rethrow, Shape, workerVars, pathVars, eventVars
<1>10. CASE SetFailed(v)
  <2>1. pc' \in [Visits -> Labels]
    BY <1>10, <1>2 DEF SetFailed, Labels
  <2>2. pathState' \in [Paths -> States] /\ failedModuleIndex' \in [Paths -> Nat]
    <3> DEFINE lowest == IF v[2] < failedModuleIndex[v[1]] THEN v[2] ELSE failedModuleIndex[v[1]]
    <3>1. lowest \in Nat /\ v[1] \in Paths
      BY <1>1 DEF Shape, p
    <3> HIDE DEF lowest
    <3>2. \/ \E n \in Nat : /\ pathState' = [pathState EXCEPT ![v[1]] = "Exception"]
                            /\ failedModuleIndex' = [failedModuleIndex EXCEPT ![v[1]] = n]
          \/ \E n \in Nat : /\ pathState' = [pathState EXCEPT ![v[1]] = "Fail"]
                            /\ failedModuleIndex' = [failedModuleIndex EXCEPT ![v[1]] = n]
          \/ UNCHANGED <<pathState, failedModuleIndex>>
      <4>1. /\ Thrown(v) # None =>
                 /\ pathState' = [pathState EXCEPT ![v[1]] = "Exception"]
                 /\ failedModuleIndex' = [failedModuleIndex EXCEPT ![v[1]] =
                                            IF pathState[v[1]] = "Exception" THEN lowest ELSE v[2]]
            /\ Thrown(v) = None /\ pathState[v[1]] # "Exception" =>
                 /\ pathState' = [pathState EXCEPT ![v[1]] = "Fail"]
                 /\ failedModuleIndex' = [failedModuleIndex EXCEPT ![v[1]] = lowest]
            /\ Thrown(v) = None /\ pathState[v[1]] = "Exception" =>
                 UNCHANGED <<pathState, failedModuleIndex>>
        BY <1>10 DEF SetFailed, lowest
      <4>2. (IF pathState[v[1]] = "Exception" THEN lowest ELSE v[2]) \in Nat
        BY <1>1, <3>1
      <4> QED
        BY <3>1, <4>1, <4>2
    <3>3. pathState \in [Paths -> States] /\ failedModuleIndex \in [Paths -> Nat]
      BY DEF Shape
    <3>4. pathState' \in [Paths -> States]
      BY <3>1, <3>2, <3>3 DEF States
    <3>5. failedModuleIndex' \in [Paths -> Nat]
      BY <3>1, <3>2, <3>3
    <3> QED
      BY <3>4, <3>5
  <2> QED
    BY <1>10, <2>1, <2>2 DEF SetFailed, Shape, workerVars, eventVars
<1>11. CASE SkipNext(v)
  <2>1. PICK j \in (v[2] + 1)..Size(v[1]) :
          /\ modulesToRun' = [modulesToRun EXCEPT ![p] = @ - 1]
          /\ SkipWorker(Module[p][j])
          /\ pc' = [pc EXCEPT ![<<p, j>>] = "skipped", ![v] = IF j = Size(p) THEN "count" ELSE @]
    BY <1>11 DEF SkipNext, p
  <2>2. j \in 1..Size(p) /\ Module[p][j] \in Modules
    BY <1>1, PlaceFacts DEF p, Size
  <2>3. pc' \in [Visits -> Labels]
    BY <2>1 DEF Shape, Labels
  <2>4. modulesToRun' \in [Paths -> Int]
    BY <1>1, <2>1 DEF Shape
  <2>5. UNCHANGED <<pathState, failedModuleIndex, pathDone, finalException, taskException, eventVars>>
    BY <1>11 DEF SkipNext
  <2> QED
    BY <1>4, <2>1, <2>2, <2>3, <2>4, <2>5 DEF Shape, eventVars
<1>12. CASE Count(v)
  <2>1. pc' \in [Visits -> Labels]
    BY <1>12, <1>2 DEF Count, Labels
  <2>2. modulesToRun' \in [Paths -> Int]
    BY <1>1, <1>12 DEF Count, Shape, p
  <2> QED
    BY <1>12, <2>1, <2>2 DEF Count, Shape, workerVars, eventVars
<1>13. CASE Finish(v)
  <2>1. pc' \in [Visits -> Labels]
    BY <1>13, <1>2 DEF Finish, Labels
  <2>2. done' \in [Producers -> BOOLEAN]
    BY <1>13 DEF Finish, Shape
  <2> QED
    BY <1>13, <2>1, <2>2 DEF Finish, Shape, pathVars, eventVars
<1>14. CASE Announce(v)
  <2>1. finalException[v] \in MaybeException
    BY DEF Shape
  <2>2. pc' \in [Visits -> Labels] /\ taskException' \in [EndNames -> MaybeException]
    BY <1>14, <2>1, <1>2, <1>3 DEF Announce, Labels
  <2>3. pathDone' \in [Paths -> BOOLEAN]
    BY <1>14 DEF Announce, Shape
  <2> QED
    BY <1>14, <2>2, <2>3 DEF Announce, Shape, workerVars, eventVars
<1> QED
  BY <1>5, <1>6, <1>7, <1>8, <1>9, <1>10, <1>11, <1>12, <1>13, <1>14 DEF VisitStep

LEMMA ShapeStep ==
  ASSUME Shape, [Next]_vars
  PROVE  Shape'
<1>1. CASE UNCHANGED vars
  BY <1>1 DEF Shape, vars, workerVars, pathVars, visitVars, eventVars
<1> QED
  BY <1>1, ShapeOfEvent, ShapeOfWorker, ShapeOfVisit DEF Next, AtRest

-----------------------------------------------------------------------------
(* Order.                                                                  *)

(* A place that moves on, and is neither skipped nor starts a batch.       *)
LEMMA OrderMove ==
  ASSUME Shape, Order, NEW v \in Visits, NEW y \in Labels, pc' = [pc EXCEPT ![v] = y],
         pc[v] \notin {"none", "skipped"}, y # "skipped",
         StartsNext(v) /\ y \in {"none", "called", "waiting", "fail"} =>
           pc[v] \in {"called", "waiting", "fail"},
         y = "leave" => StartsNext(v) /\ pc[v] = "fail"
  PROVE  Order'
<1>1. \A u \in Visits : pc'[u] = IF u = v THEN y ELSE pc[u]
  BY DEF Shape
<1>2. \A w \in Visits : \A u \in Later(w) : u \in Visits /\ (w = v => u # v)
  BY PlaceFacts DEF Later
<1>3. SUFFICES ASSUME NEW w \in Visits
               PROVE  /\ StartsNext(w) /\ pc'[w] \in {"none", "called", "waiting", "fail"} =>
                           \A u \in Later(w) : pc'[u] = "none"
                      /\ pc'[w] = "leave" => StartsNext(w)
                      /\ pc'[w] \in {"leave", "skipped"} =>
                           \A u \in Later(w) : pc'[u] \in {"none", "skipped"}
  BY DEF Order
<1>4. CASE w = v
  BY <1>1, <1>2, <1>4 DEF Order
<1>5. CASE w # v
  BY <1>1, <1>2, <1>5 DEF Order
<1> QED
  BY <1>4, <1>5

LEMMA OrderOfVisit ==
  ASSUME Shape, Order, NEW v \in Visits, VisitStep(v)
  PROVE  Order'
<1>1. CASE DoWork(v)
  BY <1>1, OrderMove DEF DoWork, Goto, Labels
<1>2. CASE Complete(v)
  BY <1>2, OrderMove DEF Complete, Released, Goto, Labels
<1>3. CASE Reject(v) \/ Tolerate(v) \/ Rethrow(v)
  <2>1. pc[v] = "waiting" /\ pc' = [pc EXCEPT ![v] = "fail"]
    BY <1>3 DEF Reject, Tolerate, Rethrow, Released, Goto
  <2> QED
    BY <2>1, OrderMove DEF Labels
<1>4. CASE SetFailed(v)
  BY <1>4, OrderMove DEF SetFailed, Goto, Labels
<1>5. CASE Count(v)
  <2>1. PICK y \in {"finish", "ended"} : pc' = [pc EXCEPT ![v] = y]
    BY <1>5 DEF Count, Goto
  <2>2. pc[v] = "count"
    BY <1>5 DEF Count
  <2> QED
    BY <2>1, <2>2, OrderMove DEF Labels
<1>6. CASE Finish(v) \/ Announce(v)
  <2>1. PICK y \in {"announce", "ended"} : pc' = [pc EXCEPT ![v] = y]
    BY <1>6 DEF Finish, Announce, Goto
  <2>2. pc[v] \in {"finish", "announce"}
    BY <1>6 DEF Finish, Announce
  <2> QED
    BY <2>1, <2>2, OrderMove DEF Labels
<1>7. CASE Continue(v)
  <2> DEFINE B == Batch(v[1], v[2] + 1)
  <2>1. /\ B \subseteq Visits
        /\ \A u \in B : u[1] = v[1] /\ u[2] > v[2]
        /\ \A u \in B : StartsNext(u) => Later(u) \cap B = {}
    <3>1. v[1] \in Paths /\ v[2] \in Nat /\ v[2] + 1 \in Nat \ {0}
      BY PlaceFacts
    <3> QED
      BY <3>1, BatchFacts, PlaceFacts
  <2>2. \A u \in Visits : pc'[u] = IF u = v THEN "ended" ELSE IF u \in B THEN "called" ELSE pc[u]
    BY <1>7 DEF Continue
  <2> HIDE DEF B
  <2>3. pc[v] = "waiting" /\ StartsNext(v)
    BY <1>7 DEF Continue, Released
  <2>4. \A u \in Later(v) : pc[u] = "none"
    BY <2>3 DEF Order
  <2>5. \A u \in B : u \in Later(v)
    BY <2>1 DEF Later
  <2>6. SUFFICES ASSUME NEW w \in Visits
                 PROVE  /\ StartsNext(w) /\ pc'[w] \in {"none", "called", "waiting", "fail"} =>
                             \A u \in Later(w) : pc'[u] = "none"
                        /\ pc'[w] = "leave" => StartsNext(w)
                        /\ pc'[w] \in {"leave", "skipped"} =>
                             \A u \in Later(w) : pc'[u] \in {"none", "skipped"}
    BY DEF Order
  <2>7. CASE w = v
    BY <2>2, <2>7
  <2>8. CASE w \in Later(v)
    <3>1. \A u \in Later(w) : u \in Later(v) /\ u # v
      BY <2>8, PlaceFacts DEF Later
    <3>2. StartsNext(w) /\ w \in B => \A u \in Later(w) : u \notin B
      BY <2>1
    <3>3. w \notin B => \A u \in Later(w) : u \notin B \/ ~StartsNext(w)
      <4> SUFFICES ASSUME w \notin B, NEW u \in Later(w), u \in B, StartsNext(w) PROVE FALSE
        OBVIOUS
      <4>1. /\ v[1] \in Paths /\ v[2] \in Nat /\ w[2] \in Nat /\ u[2] \in Nat
            /\ w = <<w[1], w[2]>> /\ w[1] = v[1] /\ v[2] < w[2] /\ w[2] < u[2] /\ w[2] \in 1..Size(v[1])
        BY <2>1, <2>8, PlaceFacts DEF Later
      <4>2. PICK k \in (v[2] + 1)..Size(v[1]) :
              u = <<v[1], k>> /\ \A l \in (v[2] + 1)..(k - 1) : <<v[1], l>> \in Concurrent
        BY DEF B, Batch
      <4>3. u[2] = k /\ w[2] \in (v[2] + 1)..(k - 1)
        BY <4>1, <4>2, PlaceFacts
      <4>4. w \in Concurrent
        BY <4>1, <4>2, <4>3
      <4> QED
        BY <4>4 DEF StartsNext
    <3>4. pc'[w] \in {"none", "called"} /\ w \in Visits /\ w # v
      BY <2>2, <2>4, <2>8, PlaceFacts DEF Later
    <3>5. \A u \in Later(w) : u \in Visits /\ pc[u] = "none" /\ pc'[u] = IF u \in B THEN "called" ELSE "none"
      BY <2>2, <2>4, <3>1 DEF Later
    <3> QED
      BY <3>2, <3>3, <3>4, <3>5
  <2>9. CASE w # v /\ w \notin Later(v)
    <3>1. pc'[w] = pc[w]
      BY <2>2, <2>5, <2>9
    <3>2. CASE v \in Later(w)
      BY <2>3, <3>1, <3>2 DEF Order
    <3>3. CASE v \notin Later(w)
      <4>1. w[1] # v[1]
        BY <2>9, <3>3, PlaceFacts DEF Later
      <4>2. \A u \in Later(w) : u \in Visits /\ u # v /\ u \notin B
        BY <4>1, <2>1 DEF Later
      <4> QED
        BY <2>2, <3>1, <4>2 DEF Order
    <3> QED
      BY <3>2, <3>3
  <2> QED
    BY <2>7, <2>8, <2>9
<1>8. CASE SkipNext(v)
  <2>1. PICK j \in (v[2] + 1)..Size(v[1]) :
          /\ pc[<<v[1], j>>] # "skipped"
          /\ \A i \in (v[2] + 1)..(j - 1) : pc[<<v[1], i>>] = "skipped"
          /\ pc' = [pc EXCEPT ![<<v[1], j>>] = "skipped",
                              ![v] = IF j = Size(v[1]) THEN "count" ELSE @]
    BY <1>8 DEF SkipNext
  <2> DEFINE s == <<v[1], j>>
  <2>2. s \in Visits /\ s[1] = v[1] /\ s[2] = j /\ j > v[2] /\ s \in Later(v) /\ s # v /\ j \in Nat
    BY <2>1, PlaceFacts DEF Later
  <2>3. pc[v] = "leave"
    BY <1>8 DEF SkipNext
  <2>4. \A u \in Visits : pc'[u] = IF u = s THEN "skipped"
                                   ELSE IF u = v THEN (IF j = Size(v[1]) THEN "count" ELSE "leave")
                                   ELSE pc[u]
    BY <2>1, <2>2, <2>3 DEF Shape
  <2>5. \A u \in Visits : u[1] = v[1] /\ v[2] < u[2] /\ u[2] < j => pc[u] = "skipped"
    <3> SUFFICES ASSUME NEW u \in Visits, u[1] = v[1], v[2] < u[2], u[2] < j PROVE pc[u] = "skipped"
      OBVIOUS
    <3>1. u = <<v[1], u[2]>> /\ u[2] \in (v[2] + 1)..(j - 1)
      BY <2>2, PlaceFacts
    <3> QED
      BY <2>1, <3>1
  <2>6. \A u \in Later(v) : pc[u] \in {"none", "skipped"} /\ u # v
    BY <2>3, PlaceFacts DEF Order, Later
  <2> HIDE DEF s
  <2>7. SUFFICES ASSUME NEW w \in Visits
                 PROVE  /\ StartsNext(w) /\ pc'[w] \in {"none", "called", "waiting", "fail"} =>
                             \A u \in Later(w) : pc'[u] = "none"
                        /\ pc'[w] = "leave" => StartsNext(w)
                        /\ pc'[w] \in {"leave", "skipped"} =>
                             \A u \in Later(w) : pc'[u] \in {"none", "skipped"}
    BY DEF Order
  <2>8. \A u \in Later(w) : u \in Visits
    BY DEF Later
  <2>9. CASE w = v
    BY <2>2, <2>3, <2>4, <2>6, <2>8, <2>9 DEF Order
  <2>10. CASE w \in Later(v)
    <3>1. \A u \in Later(w) : u \in Later(v)
      BY <2>10, PlaceFacts DEF Later
    <3>2. pc'[w] \in {"none", "skipped"}
      BY <2>4, <2>6, <2>10
    <3>3. \A u \in Later(w) : pc'[u] \in {"none", "skipped"}
      BY <2>4, <2>6, <2>8, <3>1
    <3>4. ASSUME pc'[w] = "none", StartsNext(w), NEW u \in Later(w) PROVE pc'[u] = "none"
      <4>1. pc[w] = "none" /\ w # s
        BY <2>4, <2>6, <2>10, <3>4
      <4>2. u # s
        BY <2>2, <2>5, <2>10, <4>1, PlaceFacts DEF Later
      <4>3. pc[u] = "none"
        BY <3>4, <4>1 DEF Order
      <4> QED
        BY <2>4, <2>6, <2>8, <3>1, <4>2, <4>3
    <3> QED
      BY <3>2, <3>3, <3>4
  <2>11. CASE w # v /\ w \notin Later(v)
    <3>1. pc'[w] = pc[w]
      BY <2>2, <2>4, <2>11
    <3>2. CASE v \in Later(w)
      BY <2>3, <3>1, <3>2 DEF Order
    <3>3. CASE v \notin Later(w)
      <4>1. w[1] # v[1]
        BY <2>11, <3>3, PlaceFacts DEF Later
      <4>2. \A u \in Later(w) : u \in Visits /\ u # v /\ u # s
        BY <4>1, <2>2 DEF Later
      <4> QED
        BY <2>4, <3>1, <4>2 DEF Order
    <3> QED
      BY <3>2, <3>3
  <2> QED
    BY <2>9, <2>10, <2>11
<1> QED
  BY <1>1, <1>2, <1>3, <1>4, <1>5, <1>6, <1>7, <1>8 DEF VisitStep

LEMMA OrderStep ==
  ASSUME Shape, Order, [Next]_vars
  PROVE  Order'
<1>1. ASSUME pc' = pc PROVE Order'
  BY <1>1 DEF Order
<1>2. CASE LaunchPath
  <2> DEFINE p == LaunchOrder[launched + 1]
             B == Batch(p, 1)
  <2>1. p \in Paths
    BY <1>2, LaunchOnce DEF LaunchPath, Shape
  <2>2. \A v \in Visits : pc'[v] = IF v[1] # p THEN pc[v] ELSE IF v \in B THEN "called" ELSE "none"
    BY <1>2 DEF LaunchPath
  <2>3. /\ \A v \in B : StartsNext(v) => Later(v) \cap B = {}
        /\ \A v \in Visits : v[1] = p /\ v \notin B /\ StartsNext(v) => Later(v) \cap B = {}
    <3>1. \A v \in B : StartsNext(v) => Later(v) \cap B = {}
      BY <2>1, BatchFacts
    <3>2. ASSUME NEW v \in Visits, v[1] = p, v \notin B, StartsNext(v), NEW u \in Later(v), u \in B
          PROVE  FALSE
      <4>1. PICK k \in 1..Size(p) : u = <<p, k>> /\ \A l \in 1..(k - 1) : <<p, l>> \in Concurrent
        BY <3>2 DEF Batch
      <4>2. u[2] = k /\ v[2] \in 1..(k - 1) /\ v = <<p, v[2]>>
        BY <2>1, <3>2, <4>1, PlaceFacts DEF Later
      <4>3. v \in Concurrent
        BY <4>1, <4>2
      <4> QED
        BY <3>2, <4>3 DEF StartsNext
    <3> QED
      BY <3>1, <3>2
  <2> HIDE DEF B, p
  <2>4. SUFFICES ASSUME NEW w \in Visits
                 PROVE  /\ StartsNext(w) /\ pc'[w] \in {"none", "called", "waiting", "fail"} =>
                             \A u \in Later(w) : pc'[u] = "none"
                        /\ pc'[w] = "leave" => StartsNext(w)
                        /\ pc'[w] \in {"leave", "skipped"} =>
                             \A u \in Later(w) : pc'[u] \in {"none", "skipped"}
    BY DEF Order
  <2>5. \A u \in Later(w) : u \in Visits /\ u[1] = w[1]
    BY DEF Later
  <2>6. CASE w[1] = p
    BY <2>2, <2>3, <2>5, <2>6
  <2>7. CASE w[1] # p
    BY <2>2, <2>5, <2>7 DEF Order
  <2> QED
    BY <2>6, <2>7
<1>3. ASSUME NEW m \in Modules, WorkerStep(m) PROVE pc' = pc
  BY <1>3 DEF WorkerStep, PrefetchFailed, RunModule, WorkerDone, Result, visitVars
<1>4. CASE BeginEvent \/ FinishedPaths \/ EndEvent \/ AtRest \/ UNCHANGED vars
  <2>1. pc' = pc
    BY <1>4 DEF BeginEvent, FinishedPaths, EndEvent, AtRest, vars, visitVars
  <2> QED
    BY <1>1, <2>1
<1> QED
  BY <1>1, <1>2, <1>3, <1>4, OrderOfVisit DEF Next

-----------------------------------------------------------------------------
(* modulesToRun_.                                                          *)

(* What processEventUsingPathAsync() resets is of a path that was not yet  *)
(* launched for this event.                                                *)
LEMMA LaunchForm ==
  ASSUME Shape, LaunchPath
  PROVE  \E p \in Paths :
           /\ stage = "open" /\ launched < Len(LaunchOrder) /\ ~InEvent(p)
           /\ \A q : InEvent(q)' <=> InEvent(q) \/ q = p
           /\ \A v \in Visits : IF v[1] = p
                                  THEN pc'[v] \in {"none", "called"} /\ finalException'[v] = None
                                  ELSE pc'[v] = pc[v] /\ finalException'[v] = finalException[v]
           /\ \A q \in Paths : IF q = p
                                 THEN /\ modulesToRun'[q] = Size(q) /\ ~pathDone'[q]
                                      /\ pathState'[q] = "Pass" /\ failedModuleIndex'[q] = Size(q)
                                 ELSE /\ modulesToRun'[q] = modulesToRun[q]
                                      /\ pathDone'[q] = pathDone[q] /\ pathState'[q] = pathState[q]
                                      /\ failedModuleIndex'[q] = failedModuleIndex[q]
           /\ UNCHANGED <<workerVars, taskException, pathError, stage, outcome>>
<1>1. PICK p : p = LaunchOrder[launched + 1]
  OBVIOUS
<1>2. /\ p \in Paths /\ stage = "open" /\ launched < Len(LaunchOrder) /\ ~InEvent(p)
      /\ \A q : InEvent(q)' <=> InEvent(q) \/ q = p
  BY <1>1, InEventFacts DEF LaunchPath, Shape
<1>3. \A v \in Visits : IF v[1] = p
                          THEN pc'[v] \in {"none", "called"} /\ finalException'[v] = None
                          ELSE pc'[v] = pc[v] /\ finalException'[v] = finalException[v]
  BY <1>1 DEF LaunchPath
<1>4. \A q \in Paths : IF q = p
                         THEN /\ modulesToRun'[q] = Size(q) /\ ~pathDone'[q]
                              /\ pathState'[q] = "Pass" /\ failedModuleIndex'[q] = Size(q)
                         ELSE /\ modulesToRun'[q] = modulesToRun[q]
                              /\ pathDone'[q] = pathDone[q] /\ pathState'[q] = pathState[q]
                              /\ failedModuleIndex'[q] = failedModuleIndex[q]
  BY <1>1, <1>2 DEF LaunchPath, Shape
<1>5. UNCHANGED <<workerVars, taskException, pathError, stage, outcome>>
  BY DEF LaunchPath
<1> QED
  BY <1>2, <1>3, <1>4, <1>5

LEMMA UnaccountedFinite ==
  ASSUME NEW p \in Paths
  PROVE  /\ Unaccounted(p) \subseteq PlacesOf(p) /\ IsFiniteSet(Unaccounted(p))
         /\ Cardinality(Unaccounted(p)) \in 0..Size(p)
<1>1. Unaccounted(p) \in SUBSET PlacesOf(p)
  BY DEF Unaccounted
<1>2. IsFiniteSet(Unaccounted(p)) /\ Cardinality(Unaccounted(p)) <= Size(p)
  BY <1>1, PlacesFinite, FS_Subset
<1>3. Cardinality(Unaccounted(p)) \in Nat /\ Size(p) \in Nat
  BY <1>2, FS_CardinalityType, PlaceFacts
<1> QED
  BY <1>1, <1>2, <1>3

(* One place is counted, ...                                               *)
LEMMA CountOne ==
  ASSUME Shape, PathsCounted, NEW v \in Visits, pc[v] \notin Accounted, pc'[v] \in Accounted,
         \A u \in Visits : u # v => (pc'[u] \in Accounted <=> pc[u] \in Accounted),
         modulesToRun' = [modulesToRun EXCEPT ![v[1]] = @ - 1]
  PROVE  /\ \A p \in Paths : modulesToRun'[p] = Cardinality(Unaccounted(p)')
         /\ modulesToRun[v[1]] \in Nat \ {0}
<1>1. v[1] \in Paths /\ v \in Unaccounted(v[1])
  BY PlaceFacts DEF Unaccounted, PlacesOf
<1>2. Unaccounted(v[1])' = Unaccounted(v[1]) \ {v}
  BY DEF Unaccounted, PlacesOf
<1>3. /\ Cardinality(Unaccounted(v[1])) \in Nat \ {0}
      /\ Cardinality(Unaccounted(v[1])') = Cardinality(Unaccounted(v[1])) - 1
  BY <1>1, <1>2, UnaccountedFinite, CountDown
<1>4. \A p \in Paths \ {v[1]} : Unaccounted(p)' = Unaccounted(p)
  BY DEF Unaccounted, PlacesOf
<1>5. modulesToRun \in [Paths -> Int] /\ \A p \in Paths : modulesToRun[p] = Cardinality(Unaccounted(p))
  BY DEF Shape, PathsCounted
<1>6. \A p \in Paths : modulesToRun'[p] = IF p = v[1] THEN modulesToRun[p] - 1 ELSE modulesToRun[p]
  BY <1>5
<1> QED
  BY <1>1, <1>3, <1>4, <1>5, <1>6

(* ... or none is.                                                         *)
LEMMA CountNone ==
  ASSUME PathsCounted, \A u \in Visits : pc'[u] \in Accounted <=> pc[u] \in Accounted,
         modulesToRun' = modulesToRun
  PROVE  \A p \in Paths : modulesToRun'[p] = Cardinality(Unaccounted(p)')
<1>1. \A p \in Paths : Unaccounted(p)' = Unaccounted(p)
  BY DEF Unaccounted, PlacesOf
<1> QED
  BY <1>1 DEF PathsCounted

LEMMA CountedMove ==
  ASSUME Shape, PathsCounted, NEW v \in Visits, NEW y, pc' = [pc EXCEPT ![v] = y],
         pc[v] \notin Accounted, y \notin Accounted, UNCHANGED <<modulesToRun, pathDone>>
  PROVE  PathsCounted'
<1>1. \A u \in Visits : pc'[u] = IF u = v THEN y ELSE pc[u]
  BY DEF Shape
<1>2. \A p \in Paths : modulesToRun'[p] = Cardinality(Unaccounted(p)')
  BY <1>1, CountNone
<1>3. \A w \in Visits : pc'[w] \in {"finish", "announce"} =>
        ~pathDone[w[1]] /\ \A u \in PlacesOf(w[1]) \ {w} : pc'[u] \in {"ended", "skipped"}
  BY <1>1 DEF PathsCounted, Accounted, PlacesOf
<1>4. \A w \in Visits : pathDone[w[1]] => pc'[w] \in {"ended", "skipped"}
  BY <1>1 DEF PathsCounted, Accounted
<1> QED
  BY <1>2, <1>3, <1>4 DEF PathsCounted

LEMMA CountedOfVisit ==
  ASSUME Shape, Order, PathsCounted, NEW v \in Visits, VisitStep(v)
  PROVE  PathsCounted'
<1>p. v[1] \in Paths
  BY PlaceFacts
<1>1. CASE DoWork(v) \/ Complete(v) \/ Reject(v) \/ Tolerate(v) \/ Rethrow(v) \/ SetFailed(v)
  <2>1. PICK y \in {"waiting", "count", "fail", "leave"} : pc' = [pc EXCEPT ![v] = y]
    BY <1>1 DEF DoWork, Complete, Reject, Tolerate, Rethrow, SetFailed, Goto
  <2>2. pc[v] \in {"called", "waiting", "fail"} /\ UNCHANGED <<modulesToRun, pathDone>>
    BY <1>1 DEF DoWork, Complete, Reject, Tolerate, Rethrow, SetFailed, Released, pathVars
  <2> QED
    BY <2>1, <2>2, CountedMove DEF Accounted
<1>2. CASE Continue(v)
  <2>1. /\ Batch(v[1], v[2] + 1) \subseteq Later(v)
        /\ pc[v] = "waiting" /\ \A u \in Later(v) : pc[u] = "none"
    <3>1. v[2] \in Nat /\ v[2] + 1 \in Nat \ {0}
      BY PlaceFacts
    <3>2. Batch(v[1], v[2] + 1) \subseteq Later(v)
      BY <1>p, <3>1, BatchFacts, PlaceFacts DEF Later
    <3> QED
      BY <1>2, <3>2 DEF Continue, Released, Order
  <2>2. \A u \in Visits : pc'[u] = IF u = v THEN "ended" ELSE
                                   IF u \in Batch(v[1], v[2] + 1) THEN "called" ELSE pc[u]
    BY <1>2 DEF Continue
  <2>3. \A u \in Visits : u # v => \/ pc'[u] = pc[u]
                                   \/ pc[u] = "none" /\ pc'[u] = "called" /\ u[1] = v[1]
    BY <2>1, <2>2 DEF Later
  <2>4. modulesToRun' = [modulesToRun EXCEPT ![v[1]] = @ - 1] /\ pathDone' = pathDone
    BY <1>2 DEF Continue
  <2>5. \A p \in Paths : modulesToRun'[p] = Cardinality(Unaccounted(p)')
    BY <2>1, <2>2, <2>3, <2>4, CountOne DEF Accounted
  <2>6. ~pathDone[v[1]] /\ \A u \in PlacesOf(v[1]) : pc[u] \notin {"finish", "announce"}
    BY <2>1 DEF PathsCounted, PlacesOf
  <2>7. \A u \in Visits : u[1] # v[1] => pc'[u] = pc[u]
    BY <2>3
  <2>8. \A u \in PlacesOf(v[1]) : pc'[u] \notin {"finish", "announce"}
    BY <2>2, <2>3, <2>6 DEF PlacesOf
  <2> QED
    BY <2>4, <2>5, <2>6, <2>7, <2>8 DEF PathsCounted, PlacesOf
<1>3. CASE SkipNext(v)
  <2>1. PICK j \in (v[2] + 1)..Size(v[1]) :
          /\ pc[<<v[1], j>>] # "skipped"
          /\ modulesToRun' = [modulesToRun EXCEPT ![v[1]] = @ - 1]
          /\ pc' = [pc EXCEPT ![<<v[1], j>>] = "skipped",
                              ![v] = IF j = Size(v[1]) THEN "count" ELSE @]
    BY <1>3 DEF SkipNext
  <2> DEFINE s == <<v[1], j>>
  <2>2. s \in Visits /\ s[1] = v[1] /\ s # v /\ s \in Later(v)
    BY <2>1, PlaceFacts DEF Later
  <2>3. pc[v] = "leave" /\ pc[s] = "none" /\ pathDone' = pathDone
    BY <1>3, <2>1, <2>2 DEF SkipNext, Order
  <2>4. \A u \in Visits : pc'[u] = IF u = s THEN "skipped"
                                   ELSE IF u = v THEN (IF j = Size(v[1]) THEN "count" ELSE "leave")
                                   ELSE pc[u]
    BY <2>1, <2>2, <2>3 DEF Shape
  <2>5. modulesToRun' = [modulesToRun EXCEPT ![s[1]] = @ - 1]
    BY <2>1
  <2> HIDE DEF s
  <2>6. \A p \in Paths : modulesToRun'[p] = Cardinality(Unaccounted(p)')
    BY <2>2, <2>3, <2>4, <2>5, CountOne DEF Accounted
  <2>7. ~pathDone[v[1]] /\ \A u \in PlacesOf(v[1]) : pc'[u] \notin {"finish", "announce"}
    BY <2>3, <2>4 DEF PathsCounted, PlacesOf
  <2>8. \A u \in Visits : u[1] # v[1] => pc'[u] = pc[u]
    BY <2>2, <2>4
  <2> QED
    BY <2>3, <2>6, <2>7, <2>8 DEF PathsCounted, PlacesOf
<1>4. CASE Count(v)
  <2>1. /\ pc[v] = "count" /\ modulesToRun' = [modulesToRun EXCEPT ![v[1]] = @ - 1]
        /\ pathDone' = pathDone
        /\ pc' = [pc EXCEPT ![v] = IF modulesToRun[v[1]] = 1 THEN "finish" ELSE "ended"]
    BY <1>4 DEF Count, Goto
  <2>2. \A u \in Visits : pc'[u] = IF u # v THEN pc[u] ELSE
                                   IF modulesToRun[v[1]] = 1 THEN "finish" ELSE "ended"
    BY <2>1 DEF Shape
  <2>3. \A p \in Paths : modulesToRun'[p] = Cardinality(Unaccounted(p)')
    BY <2>1, <2>2, CountOne DEF Accounted
  <2>4. ~pathDone[v[1]] /\ \A u \in PlacesOf(v[1]) : pc[u] \notin {"finish", "announce"}
    BY <2>1 DEF PathsCounted, PlacesOf
  <2>5. ASSUME modulesToRun[v[1]] = 1, NEW u \in PlacesOf(v[1]), u # v
        PROVE  pc[u] \in {"ended", "skipped"}
    <3>1. v \in Unaccounted(v[1]) /\ Cardinality(Unaccounted(v[1])) = 1
      BY <1>p, <2>1, <2>5 DEF PathsCounted, Unaccounted, PlacesOf, Accounted
    <3>2. Unaccounted(v[1]) = {v}
      BY <1>p, <3>1, UnaccountedFinite, FS_Singleton
    <3>3. pc[u] \in Accounted
      BY <2>5, <3>2 DEF Unaccounted
    <3> QED
      BY <2>4, <2>5, <3>3 DEF Accounted
  <2>6. ASSUME NEW w \in Visits
        PROVE  /\ pc'[w] \in {"finish", "announce"} =>
                    ~pathDone[w[1]] /\ \A u \in PlacesOf(w[1]) \ {w} : pc'[u] \in {"ended", "skipped"}
               /\ pathDone[w[1]] => pc'[w] \in {"ended", "skipped"}
    <3>1. CASE w[1] = v[1]
      BY <2>2, <2>4, <2>5, <2>6, <3>1 DEF PlacesOf
    <3>2. CASE w[1] # v[1]
      BY <2>2, <3>2 DEF PathsCounted, PlacesOf
    <3> QED
      BY <3>1, <3>2
  <2> QED
    BY <2>1, <2>3, <2>6 DEF PathsCounted
<1>5. CASE Finish(v)
  <2>1. pc[v] = "finish" /\ pc' = [pc EXCEPT ![v] = "announce"] /\ UNCHANGED <<modulesToRun, pathDone>>
    BY <1>5 DEF Finish, Goto, pathVars
  <2>2. \A u \in Visits : pc'[u] = IF u = v THEN "announce" ELSE pc[u]
    BY <2>1 DEF Shape
  <2>3. \A p \in Paths : modulesToRun'[p] = Cardinality(Unaccounted(p)')
    BY <2>1, <2>2, CountNone DEF Accounted
  <2>4. ASSUME NEW w \in Visits
        PROVE  /\ pc'[w] \in {"finish", "announce"} =>
                    ~pathDone[w[1]] /\ \A u \in PlacesOf(w[1]) \ {w} : pc'[u] \in {"ended", "skipped"}
               /\ pathDone[w[1]] => pc'[w] \in {"ended", "skipped"}
    BY <2>1, <2>2 DEF PathsCounted, PlacesOf
  <2> QED
    BY <2>1, <2>3, <2>4 DEF PathsCounted
<1>6. CASE Announce(v)
  <2>1. /\ pc[v] = "announce" /\ pc' = [pc EXCEPT ![v] = "ended"] /\ modulesToRun' = modulesToRun
        /\ pathDone' = [pathDone EXCEPT ![v[1]] = TRUE]
    BY <1>6 DEF Announce, Goto
  <2>2. \A u \in Visits : pc'[u] = IF u = v THEN "ended" ELSE pc[u]
    BY <2>1 DEF Shape
  <2>3. \A p \in Paths : modulesToRun'[p] = Cardinality(Unaccounted(p)')
    BY <2>1, <2>2, CountNone DEF Accounted
  <2>4. \A u \in PlacesOf(v[1]) : pc'[u] \in {"ended", "skipped"}
    BY <2>1, <2>2 DEF PathsCounted
  <2>5. \A p \in Paths : pathDone'[p] = IF p = v[1] THEN TRUE ELSE pathDone[p]
    BY <2>1 DEF Shape
  <2>6. ASSUME NEW w \in Visits
        PROVE  /\ pc'[w] \in {"finish", "announce"} =>
                    ~pathDone'[w[1]] /\ \A u \in PlacesOf(w[1]) \ {w} : pc'[u] \in {"ended", "skipped"}
               /\ pathDone'[w[1]] => pc'[w] \in {"ended", "skipped"}
    <3>1. CASE w[1] = v[1]
      BY <2>4, <3>1 DEF PlacesOf
    <3>2. CASE w[1] # v[1]
      BY <2>2, <2>5, <3>2, PlaceFacts DEF PathsCounted, PlacesOf
    <3> QED
      BY <3>1, <3>2
  <2> QED
    BY <2>3, <2>6 DEF PathsCounted
<1> QED
  BY <1>1, <1>2, <1>3, <1>4, <1>5, <1>6 DEF VisitStep

LEMMA CountedStep ==
  ASSUME Shape, Order, PathsCounted, [Next]_vars
  PROVE  PathsCounted'
<1>1. ASSUME UNCHANGED <<pc, pathDone, modulesToRun>> PROVE PathsCounted'
  <2>1. \A p \in Paths : modulesToRun'[p] = Cardinality(Unaccounted(p)')
    BY <1>1, CountNone
  <2> QED
    BY <1>1, <2>1 DEF PathsCounted
<1>2. CASE LaunchPath
  <2>1. PICK p \in Paths :
          /\ \A v \in Visits : IF v[1] = p THEN pc'[v] \in {"none", "called"} ELSE pc'[v] = pc[v]
          /\ \A q \in Paths : IF q = p THEN modulesToRun'[q] = Size(q) /\ ~pathDone'[q]
                              ELSE modulesToRun'[q] = modulesToRun[q] /\ pathDone'[q] = pathDone[q]
    BY <1>2, LaunchForm
  <2>2. \A v \in Visits : IF v[1] = p THEN pc'[v] \in {"none", "called"} ELSE pc'[v] = pc[v]
    BY <2>1
  <2>3. \A q \in Paths : IF q = p THEN modulesToRun'[q] = Size(q) /\ ~pathDone'[q]
                         ELSE modulesToRun'[q] = modulesToRun[q] /\ pathDone'[q] = pathDone[q]
    BY <2>1
  <2>4. Unaccounted(p)' = PlacesOf(p)
    BY <2>2 DEF Unaccounted, PlacesOf, Accounted
  <2>5. \A q \in Paths \ {p} : Unaccounted(q)' = Unaccounted(q)
    BY <2>2 DEF Unaccounted, PlacesOf
  <2>6. \A q \in Paths : modulesToRun'[q] = Cardinality(Unaccounted(q)')
    BY <2>1, <2>3, <2>4, <2>5, PlacesFinite DEF PathsCounted
  <2>7. ASSUME NEW w \in Visits
        PROVE  /\ pc'[w] \in {"finish", "announce"} =>
                    ~pathDone'[w[1]] /\ \A u \in PlacesOf(w[1]) \ {w} : pc'[u] \in {"ended", "skipped"}
               /\ pathDone'[w[1]] => pc'[w] \in {"ended", "skipped"}
    <3>1. CASE w[1] = p
      BY <2>1, <2>2, <2>3, <3>1
    <3>2. CASE w[1] # p
      BY <2>2, <2>3, <3>2, PlaceFacts DEF PathsCounted, PlacesOf
    <3> QED
      BY <3>1, <3>2
  <2> QED
    BY <2>6, <2>7 DEF PathsCounted
<1>3. ASSUME NEW m \in Modules, WorkerStep(m) PROVE UNCHANGED <<pc, pathDone, modulesToRun>>
  BY <1>3 DEF WorkerStep, PrefetchFailed, RunModule, WorkerDone, Result, visitVars, pathVars
<1>4. CASE BeginEvent \/ FinishedPaths \/ EndEvent \/ AtRest \/ UNCHANGED vars
  <2>1. UNCHANGED <<pc, pathDone, modulesToRun>>
    BY <1>4 DEF BeginEvent, FinishedPaths, EndEvent, AtRest, vars, visitVars, pathVars
  <2> QED
    BY <1>1, <2>1
<1> QED
  BY <1>1, <1>2, <1>3, <1>4, CountedOfVisit DEF Next

-----------------------------------------------------------------------------
(* The stages of the event.                                                *)

(* The next places of a path are called from one that goes on, or skipped  *)
(* from one that leaves the path; a workerFinished() changes nothing else  *)
(* of the calls.                                                           *)
LEMMA VisitFrame ==
  ASSUME Shape, Order, NEW v \in Visits, VisitStep(v)
  PROVE  /\ pc[v] \notin Quiet /\ pc'[v] \notin {"none", "skipped", "called"}
         /\ \A u \in Visits : u # v =>
              /\ finalException'[u] = finalException[u]
              /\ \/ pc'[u] = pc[u]
                 \/ /\ pc[u] = "none" /\ pc'[u] = "called" /\ u[1] = v[1]
                    /\ pc[v] = "waiting" /\ pc'[v] = "ended" /\ ShouldContinue(v)
                 \/ /\ pc[u] = "none" /\ pc'[u] = "skipped" /\ u[1] = v[1]
                    /\ SkipNext(v) /\ SkipWorker(WorkerOf(u))
         /\ \A p \in Paths : pathDone[p] => pathDone'[p]
         /\ \A p : InEvent(p)' <=> InEvent(p)
         /\ UNCHANGED <<workerState, cachedException, runs, launched, pathError, stage, outcome>>
<1>1. UNCHANGED <<workerState, cachedException, runs, launched, pathError, stage, outcome>>
  BY DEF VisitStep, DoWork, Continue, Complete, Reject, Tolerate, Rethrow, SetFailed, SkipNext,
         Count, Finish, Announce, SkipWorker, workerVars, eventVars
<1>2. \A p : InEvent(p)' <=> InEvent(p)
  BY <1>1, InEventFacts DEF Shape
<1>3. \A p \in Paths : pathDone[p] => pathDone'[p]
  BY DEF Shape, VisitStep, DoWork, Continue, Complete, Reject, Tolerate, Rethrow, SetFailed, SkipNext,
         Count, Finish, Announce, pathVars
<1>4. \A u \in Visits : u # v => finalException'[u] = finalException[u]
  BY DEF Shape, VisitStep, DoWork, Continue, Complete, Reject, Tolerate, Rethrow, SetFailed, SkipNext,
         Count, Finish, Announce
<1>5. CASE Continue(v)
  <2>1. /\ Batch(v[1], v[2] + 1) \subseteq Later(v)
        /\ pc[v] = "waiting" /\ ShouldContinue(v) /\ \A u \in Later(v) : pc[u] = "none"
    <3>1. v[1] \in Paths /\ v[2] \in Nat /\ v[2] + 1 \in Nat \ {0}
      BY PlaceFacts
    <3>2. Batch(v[1], v[2] + 1) \subseteq Later(v)
      BY <3>1, BatchFacts, PlaceFacts DEF Later
    <3> QED
      BY <1>5, <3>2 DEF Continue, Released, Order
  <2>2. \A u \in Visits : pc'[u] = IF u = v THEN "ended" ELSE
                                   IF u \in Batch(v[1], v[2] + 1) THEN "called" ELSE pc[u]
    BY <1>5 DEF Continue
  <2>3. \A u \in Visits : u # v => \/ pc'[u] = pc[u]
                                   \/ pc[u] = "none" /\ pc'[u] = "called" /\ u[1] = v[1]
    BY <2>1, <2>2 DEF Later
  <2> QED
    BY <1>1, <1>2, <1>3, <1>4, <2>1, <2>2, <2>3 DEF Quiet
<1>6. CASE SkipNext(v)
  <2>1. PICK j \in (v[2] + 1)..Size(v[1]) :
          /\ pc[<<v[1], j>>] # "skipped"
          /\ SkipWorker(Module[v[1]][j])
          /\ pc' = [pc EXCEPT ![<<v[1], j>>] = "skipped",
                              ![v] = IF j = Size(v[1]) THEN "count" ELSE @]
    BY <1>6 DEF SkipNext
  <2>2. PICK s : s = <<v[1], j>>
    OBVIOUS
  <2>3. s \in Visits /\ s[1] = v[1] /\ s[2] = j /\ s # v /\ s \in Later(v)
    BY <2>1, <2>2, PlaceFacts DEF Later
  <2>4. pc[v] = "leave" /\ pc[s] = "none"
    BY <1>6, <2>1, <2>2, <2>3 DEF SkipNext, Order
  <2>5. \A u \in Visits : pc'[u] = IF u = s THEN "skipped"
                                   ELSE IF u = v THEN (IF j = Size(v[1]) THEN "count" ELSE "leave")
                                   ELSE pc[u]
    BY <2>1, <2>2, <2>3, <2>4 DEF Shape
  <2>6. SkipWorker(WorkerOf(s))
    BY <2>1, <2>3 DEF WorkerOf
  <2> QED
    BY <1>1, <1>2, <1>3, <1>4, <1>6, <2>3, <2>4, <2>5, <2>6 DEF Quiet
<1>7. CASE ~Continue(v) /\ ~SkipNext(v)
  <2>1. PICK y \in {"waiting", "count", "fail", "leave", "finish", "ended", "announce"} :
          pc' = [pc EXCEPT ![v] = y]
    BY <1>7 DEF VisitStep, DoWork, Complete, Reject, Tolerate, Rethrow, SetFailed, Count, Finish,
                Announce, Goto
  <2>2. pc[v] \in {"called", "waiting", "fail", "count", "finish", "announce"}
    BY <1>7 DEF VisitStep, DoWork, Complete, Reject, Tolerate, Rethrow, SetFailed, Count, Finish,
                Announce, Released
  <2>3. \A u \in Visits : pc'[u] = IF u = v THEN y ELSE pc[u]
    BY <2>1 DEF Shape
  <2> QED
    BY <1>1, <1>2, <1>3, <1>4, <2>2, <2>3 DEF Quiet
<1> QED
  BY <1>5, <1>6, <1>7

(* A call under way is of a path launched for an event that is open.       *)
LEMMA Active ==
  ASSUME Shape, PathsCounted, Stages, NEW v \in Visits, pc[v] \notin Quiet
  PROVE  stage = "open" /\ InEvent(v[1])
<1>1. InEvent(v[1])
  BY DEF Stages
<1>2. stage # "idle"
  BY <1>1, InEventFacts DEF Stages, Shape
<1>3. stage # "over"
  BY PlaceFacts DEF Stages, PathsCounted, Quiet
<1> QED
  BY <1>1, <1>2, <1>3 DEF Shape

(* No call is under way when an event begins, and none had an exception.   *)
LEMMA QuietAtBegin ==
  ASSUME Shape, PathsCounted, Stages, ErrorsTold, BeginEvent
  PROVE  \A v \in Visits : pc[v] \in Quiet /\ finalException[v] = None
<1>1. stage # "open" /\ outcome = None
  BY DEF BeginEvent
<1>2. CASE stage = "idle"
  BY <1>2, InEventFacts DEF Stages, Shape
<1>3. CASE stage = "over"
  <2>1. \A v \in Visits : pc[v] \in Quiet
    BY <1>3, PlaceFacts DEF Stages, PathsCounted, Quiet
  <2>2. pathError.run /\ pathError.exception = None /\ taskException["allPathsDone"] = None
    BY <1>1, <1>3 DEF Stages, ErrorsTold, TasksTold
  <2>3. ~Ended(FALSE) /\ ~Ended(TRUE)
    BY <2>2 DEF ErrorsTold, TasksTold
  <2> QED
    BY <2>1, <2>3 DEF Ended
<1> QED
  BY <1>1, <1>2, <1>3 DEF Shape

LEMMA StagesStep ==
  ASSUME Shape, Order, PathsCounted, Stages, ErrorsTold, [Next]_vars
  PROVE  Stages'
<1>1. CASE BeginEvent
  <2>1. /\ \A v \in Visits : pc'[v] \in Quiet /\ finalException'[v] = None
        /\ stage' = "open" /\ ~pathError'.run /\ outcome' = None
    BY <1>1, QuietAtBegin DEF BeginEvent, visitVars, NotRun
  <2> QED
    BY <2>1 DEF Stages
<1>2. CASE LaunchPath
  <2>1. PICK p \in Paths :
          /\ stage = "open" /\ launched < Len(LaunchOrder)
          /\ \A q : InEvent(q)' <=> InEvent(q) \/ q = p
          /\ \A v \in Visits : v[1] # p => pc'[v] = pc[v] /\ finalException'[v] = finalException[v]
          /\ UNCHANGED <<pathError, stage, outcome>>
    BY <1>2, LaunchForm
  <2>2. ~pathError.run
    BY <2>1, LaunchOnce DEF Stages, Shape
  <2> QED
    BY <2>1, <2>2 DEF Stages
<1>3. CASE FinishedPaths
  <2>1. /\ stage = "open" /\ launched = Len(LaunchOrder) /\ \A p \in TrigPaths : pathDone[p]
        /\ pathError'.run /\ UNCHANGED <<launched, pc, finalException, pathDone, stage, outcome>>
    <3>1. pathError'.run
      BY <1>3 DEF FinishedPaths
    <3> QED
      BY <1>3, <3>1 DEF FinishedPaths, AllLaunched, pathVars, visitVars
  <2>2. \A p : InEvent(p)' <=> InEvent(p)
    BY <2>1, InEventFacts DEF Shape
  <2>3. \A v \in Visits : ~InEvent(v[1])' => pc'[v] \in Quiet /\ finalException'[v] = None
    BY <2>1, <2>2 DEF Stages
  <2> QED
    BY <2>1, <2>3 DEF Stages
<1>4. CASE EndEvent
  <2>1. /\ pathError.run /\ stage' = "over" /\ \A p \in EndPaths : pathDone[p]
        /\ UNCHANGED <<launched, pc, finalException, pathDone, pathError>>
    BY <1>4 DEF EndEvent, pathVars, visitVars
  <2>2. \A p : InEvent(p)' <=> InEvent(p)
    BY <2>1, InEventFacts DEF Shape
  <2> QED
    BY <2>1, <2>2 DEF Stages, Paths
<1>5. ASSUME NEW v \in Visits, VisitStep(v) PROVE Stages'
  <2>1. InEvent(v[1])
    BY <1>5, VisitFrame, Active
  <2>2. \A u \in Visits : u[1] # v[1] => pc'[u] = pc[u] /\ finalException'[u] = finalException[u]
    BY <1>5, VisitFrame
  <2>3. /\ UNCHANGED <<launched, pathError, stage, outcome>> /\ \A p : InEvent(p)' <=> InEvent(p)
        /\ \A p \in Paths : pathDone[p] => pathDone'[p]
    BY <1>5, VisitFrame
  <2> QED
    BY <2>1, <2>2, <2>3 DEF Stages, Paths
<1>6. ASSUME UNCHANGED <<launched, pc, finalException, pathDone, pathError, stage, outcome>>
      PROVE  Stages'
  <2>1. \A p : InEvent(p)' <=> InEvent(p)
    BY <1>6, InEventFacts DEF Shape
  <2> QED
    BY <1>6, <2>1 DEF Stages
<1>7. ASSUME NEW m \in Modules, WorkerStep(m)
      PROVE  UNCHANGED <<launched, pc, finalException, pathDone, pathError, stage, outcome>>
  BY <1>7 DEF WorkerStep, PrefetchFailed, RunModule, WorkerDone, Result, visitVars, pathVars, eventVars
<1>8. CASE AtRest \/ UNCHANGED vars
  BY <1>6, <1>8 DEF AtRest, vars, visitVars, pathVars, eventVars
<1> QED
  BY <1>1, <1>2, <1>3, <1>4, <1>5, <1>6, <1>7, <1>8 DEF Next

-----------------------------------------------------------------------------
(* The workers, and numberOfPathsLeftToRun_.                               *)

(* Whoever is released from a worker's waiting list finds its result.      *)
LEMMA ReleasedByResult ==
  ASSUME Shape, WorkersOnce, NEW v \in Visits, Released(v)
  PROVE  /\ workStarted[WorkerOf(v)] /\ running[WorkerOf(v)] = "idle"
         /\ HasResult(WorkerOf(v)) /\ ~Skipped(v)
<1>1. WorkerOf(v) \in Modules /\ v \in VisitsOf(WorkerOf(v)) /\ done[WorkerOf(v)] /\ pc[v] = "waiting"
  BY PlaceFacts DEF VisitsOf, Released
<1>2. ~Skipped(v)
  BY <1>1 DEF Skipped, PastWaiting
<1> QED
  BY <1>1, <1>2 DEF WorkersOnce

(* While a worker prefetches nobody has looked at its result.              *)
LEMMA NobodyPast ==
  ASSUME Shape, WorkersOnce, NEW m \in Modules, running[m] = "prefetch"
  PROVE  /\ workStarted[m] /\ ~done[m] /\ Untouched(m)
         /\ \A v \in VisitsOf(m) : InEvent(v[1]) => pc[v] \notin PastWaiting
<1>1. workStarted[m] /\ Untouched(m)
  BY DEF WorkersOnce, Shape
<1>2. \A v \in VisitsOf(m) : InEvent(v[1]) => pc[v] \notin PastWaiting
  BY DEF WorkersOnce, VisitsOf
<1>3. PICK v \in VisitsOf(m) : pc[v] = "waiting"
  BY DEF WorkersOnce
<1>4. ~Skipped(v)
  BY <1>3 DEF Skipped, PastWaiting
<1>5. ~done[m]
  BY <1>3, <1>4 DEF WorkersOnce
<1> QED
  BY <1>1, <1>2, <1>5

(* A workerFinished() skips a worker on one path, or none.                 *)
Skips(v, s) ==
  /\ ~Skipped(s) /\ Skipped(s)' /\ SkipWorker(WorkerOf(s))
  /\ \A u \in Visits : u # s => (Skipped(u)' <=> Skipped(u))
  /\ \/ s = v /\ pc[v] = "waiting" /\ pc'[v] = "fail"
     \/ pc[v] = "leave" /\ pc'[s] = "skipped" /\ s[1] = v[1]

LEMMA VisitSkips ==
  ASSUME Shape, Order, PathsCounted, Stages, NEW v \in Visits, VisitStep(v)
  PROVE  \/ \E s \in Visits : Skips(v, s)
         \/ /\ \A u \in Visits : Skipped(u)' <=> Skipped(u)
            /\ numberOfPathsLeftToRun' = numberOfPathsLeftToRun
            /\ \A m \in Modules : done'[m] = done[m]
<1>1. /\ InEvent(v[1]) /\ \A p : InEvent(p)' <=> InEvent(p)
      /\ \A u \in Visits : Thrown(u)' = Thrown(u)
      /\ \A u \in Visits : u # v => \/ pc'[u] = pc[u]
                                    \/ pc[u] = "none" /\ pc'[u] = "called"
                                    \/ SkipNext(v)
  BY VisitFrame, Active DEF Thrown
<1>2. ASSUME NEW u \in Visits, u # v, ~SkipNext(v) PROVE Skipped(u)' <=> Skipped(u)
  BY <1>1, <1>2 DEF Skipped, PastWaiting
<1>3. CASE SkipNext(v)
  <2>1. PICK j \in (v[2] + 1)..Size(v[1]) :
          /\ pc[<<v[1], j>>] # "skipped"
          /\ SkipWorker(Module[v[1]][j])
          /\ pc' = [pc EXCEPT ![<<v[1], j>>] = "skipped",
                              ![v] = IF j = Size(v[1]) THEN "count" ELSE @]
    BY <1>3 DEF SkipNext
  <2>2. PICK s : s = <<v[1], j>>
    OBVIOUS
  <2>3. s \in Visits /\ s[1] = v[1] /\ s[2] = j /\ s # v /\ s \in Later(v)
    BY <2>1, <2>2, PlaceFacts DEF Later
  <2>4. pc[v] = "leave" /\ pc[s] = "none"
    BY <1>3, <2>1, <2>2, <2>3 DEF SkipNext, Order
  <2>5. \A u \in Visits : pc'[u] = IF u = s THEN "skipped"
                                   ELSE IF u = v THEN (IF j = Size(v[1]) THEN "count" ELSE "leave")
                                   ELSE pc[u]
    BY <2>1, <2>2, <2>3, <2>4 DEF Shape
  <2>6. SkipWorker(WorkerOf(s))
    BY <2>1, <2>3 DEF WorkerOf
  <2>7. \A u \in Visits : u # s => (Skipped(u)' <=> Skipped(u))
    BY <1>1, <2>4, <2>5 DEF Skipped, PastWaiting
  <2>8. ~Skipped(s) /\ Skipped(s)'
    BY <1>1, <2>3, <2>4, <2>5 DEF Skipped, PastWaiting
  <2> QED
    BY <2>3, <2>4, <2>5, <2>6, <2>7, <2>8 DEF Skips
<1>4. CASE Tolerate(v)
  <2>1. /\ SkipWorker(WorkerOf(v)) /\ pc[v] = "waiting" /\ pc'[v] = "fail"
        /\ Thrown(v) # None /\ Thrown(v).kind = "continue"
    BY <1>4 DEF Tolerate, Released, Goto, Shape
  <2>2. ~Skipped(v) /\ Skipped(v)' /\ ~SkipNext(v)
    BY <1>1, <2>1 DEF Skipped, PastWaiting, SkipNext
  <2> QED
    BY <1>2, <2>1, <2>2 DEF Skips
<1>5. CASE ~SkipNext(v) /\ ~Tolerate(v)
  <2>1. Skipped(v)' <=> Skipped(v)
    <3>1. CASE DoWork(v)
      BY <1>1, <3>1 DEF DoWork, Goto, Shape, Skipped, PastWaiting
    <3>2. CASE Continue(v) \/ Complete(v) \/ Reject(v)
      <4>1. Thrown(v) = None /\ pc[v] = "waiting" /\ pc'[v] # "skipped"
        BY <3>2 DEF Continue, Complete, Reject, ShouldContinue, Released, Goto, Shape
      <4> QED
        BY <1>1, <4>1 DEF Skipped, PastWaiting
    <3>3. CASE Rethrow(v)
      <4>1. Thrown(v).kind # "continue" /\ pc[v] = "waiting" /\ pc'[v] # "skipped"
        BY <3>3 DEF Rethrow, Released, Goto, Shape
      <4> QED
        BY <1>1, <4>1 DEF Skipped, PastWaiting
    <3>4. CASE SetFailed(v) \/ Count(v) \/ Finish(v) \/ Announce(v)
      <4>1. pc[v] \in PastWaiting /\ pc'[v] \in PastWaiting
        BY <3>4 DEF SetFailed, Count, Finish, Announce, Goto, Shape, PastWaiting
      <4>2. "skipped" \notin PastWaiting
        BY DEF PastWaiting
      <4> QED
        BY <1>1, <4>1, <4>2 DEF Skipped
    <3> QED
      BY <1>5, <3>1, <3>2, <3>3, <3>4 DEF VisitStep
  <2>2. numberOfPathsLeftToRun' = numberOfPathsLeftToRun
    BY <1>5 DEF VisitStep, DoWork, Continue, Complete, Reject, Rethrow, SetFailed, Count, Finish,
                Announce, workerVars
  <2>3. \A m \in Modules : done'[m] = done[m]
    <3>1. CASE Finish(v)
      <4> SUFFICES ASSUME NEW m \in Modules PROVE done'[m] = done[m]
        OBVIOUS
      <4>1. m \in Producers /\ m # v[1] /\ done[m] \in BOOLEAN
        BY PlaceFacts, NamesAssumption DEF Producers, Shape
      <4>2. done'[m] = (done[m] \/ m = v[1])
        BY <3>1, <4>1 DEF Finish
      <4> QED
        BY <4>1, <4>2
    <3> QED
      BY <1>5, <3>1 DEF VisitStep, DoWork, Continue, Complete, Reject, Rethrow, SetFailed, Count,
                        Announce, workerVars
  <2> QED
    BY <1>2, <1>5, <2>1, <2>2, <2>3
<1> QED
  BY <1>3, <1>4, <1>5

LEMMA LeftFinite ==
  ASSUME NEW m \in Modules
  PROVE  /\ Left(m) \subseteq VisitsOf(m) /\ IsFiniteSet(Left(m))
         /\ Cardinality(Left(m)) \in 0..Cardinality(Paths)
<1>1. Left(m) \in SUBSET VisitsOf(m)
  BY DEF Left
<1>2. IsFiniteSet(VisitsOf(m)) /\ Cardinality(VisitsOf(m)) <= Cardinality(Paths)
  BY VisitsFinite
<1>3. IsFiniteSet(Left(m)) /\ Cardinality(Left(m)) <= Cardinality(VisitsOf(m))
  BY <1>1, <1>2, FS_Subset
<1>4. /\ Cardinality(Left(m)) \in Nat /\ Cardinality(VisitsOf(m)) \in Nat
      /\ Cardinality(Paths) \in Nat
  BY <1>2, <1>3, FS_CardinalityType, PathsFinite
<1> QED
  BY <1>1, <1>2, <1>3, <1>4

(* The count goes down with each path that skips the worker, and the last  *)
(* of them finds it at 1.                                                  *)
LEMMA LeftOne ==
  ASSUME Shape, PathsLeftCounted, stage # "idle", NEW v \in Visits, NEW s \in Visits, Skips(v, s)
  PROVE  /\ \A m \in Modules : numberOfPathsLeftToRun'[m] = Cardinality(Left(m)')
         /\ \A m \in Modules : done'[m] => \/ done[m]
                                           \/ \A u \in VisitsOf(m) : Skipped(u)'
<1> DEFINE n == WorkerOf(s)
<1>1. n \in Modules /\ s \in VisitsOf(n)
  BY PlaceFacts DEF VisitsOf
<1>2. s \in Left(n) /\ Left(n)' = Left(n) \ {s}
  BY <1>1 DEF Skips, Left, VisitsOf
<1>3. \A m \in Modules \ {n} : Left(m)' = Left(m)
  BY DEF Skips, Left, VisitsOf
<1>4. Cardinality(Left(n)) \in Nat \ {0} /\ Cardinality(Left(n)') = Cardinality(Left(n)) - 1
  BY <1>1, <1>2, LeftFinite, CountDown
<1>5. /\ \A m \in Modules : numberOfPathsLeftToRun'[m] =
                              IF m = n THEN numberOfPathsLeftToRun[m] - 1 ELSE numberOfPathsLeftToRun[m]
      /\ \A m \in Modules : done'[m] <=> done[m] \/ (m = n /\ numberOfPathsLeftToRun[n] = 1)
  <2>1. n \in Producers /\ Modules \subseteq Producers
    BY <1>1 DEF Producers
  <2> QED
    BY <1>1, <2>1 DEF Skips, SkipWorker, Shape
<1>6. \A m \in Modules : numberOfPathsLeftToRun[m] = Cardinality(Left(m))
  BY DEF PathsLeftCounted
<1>7. \A m \in Modules : numberOfPathsLeftToRun'[m] = Cardinality(Left(m)')
  BY <1>1, <1>3, <1>4, <1>5, <1>6
<1>8. ASSUME numberOfPathsLeftToRun[n] = 1 PROVE \A u \in VisitsOf(n) : Skipped(u)'
  <2>1. Cardinality(Left(n)) = 1
    BY <1>1, <1>6, <1>8
  <2>2. Left(n) = {s}
    BY <1>1, <1>2, <2>1, LeftFinite, FS_Singleton
  <2>3. \A u \in VisitsOf(n) : u # s => Skipped(u)
    BY <2>2 DEF Left
  <2> QED
    BY <2>3 DEF Skips, VisitsOf
<1> QED
  BY <1>5, <1>7, <1>8

LEMMA LeftSame ==
  ASSUME PathsLeftCounted, stage # "idle", \A u \in Visits : Skipped(u)' <=> Skipped(u),
         numberOfPathsLeftToRun' = numberOfPathsLeftToRun
  PROVE  \A m \in Modules : numberOfPathsLeftToRun'[m] = Cardinality(Left(m)')
<1>1. \A m \in Modules : Left(m)' = Left(m)
  BY DEF Left, VisitsOf
<1> QED
  BY <1>1 DEF PathsLeftCounted

(* A result that comes in changes nothing for those who are past waiting.  *)
LEMMA SkippedOfWorker ==
  ASSUME Shape, WorkersOnce, NEW m \in Modules, WorkerStep(m)
  PROVE  \A u \in Visits : Skipped(u)' <=> Skipped(u)
<1>1. UNCHANGED <<pc, launched>>
  BY DEF WorkerStep, PrefetchFailed, RunModule, WorkerDone, Result, visitVars, eventVars
<1>2. \A p : InEvent(p)' <=> InEvent(p)
  BY <1>1, InEventFacts DEF Shape
<1>3. \A n \in Modules : n # m => cachedException'[n] = cachedException[n]
  BY DEF WorkerStep, PrefetchFailed, RunModule, WorkerDone, Result, Shape
<1>4. CASE WorkerDone(m)
  BY <1>1, <1>2, <1>4 DEF WorkerDone, Skipped, Thrown
<1>5. CASE running[m] = "prefetch"
  <2>1. \A u \in VisitsOf(m) : InEvent(u[1]) => pc[u] \notin PastWaiting
    BY <1>5, NobodyPast
  <2>2. ASSUME NEW u \in Visits PROVE Skipped(u)' <=> Skipped(u)
    <3>1. CASE WorkerOf(u) = m
      BY <1>1, <1>2, <2>1, <3>1 DEF Skipped, VisitsOf
    <3>2. CASE WorkerOf(u) # m
      <4>1. Thrown(u)' = Thrown(u)
        BY <1>3, <3>2, PlaceFacts DEF Thrown
      <4> QED
        BY <1>1, <1>2, <4>1 DEF Skipped
    <3> QED
      BY <3>1, <3>2
  <2> QED
    BY <2>2
<1> QED
  BY <1>4, <1>5 DEF WorkerStep, PrefetchFailed, RunModule, Prefetched

LEMMA LeftStep ==
  ASSUME Shape, Order, PathsCounted, Stages, ErrorsTold, WorkersOnce, PathsLeftCounted, [Next]_vars
  PROVE  PathsLeftCounted'
<1>1. CASE BeginEvent
  <2>1. launched' = 0 /\ launched' \in 0..Len(LaunchOrder)
    BY <1>1, LaunchOnce DEF BeginEvent
  <2>2. \A p : ~InEvent(p)'
    BY <2>1 DEF InEvent
  <2>3. \A m \in Modules : Left(m)' = VisitsOf(m)
    BY <2>2 DEF Left, Skipped, VisitsOf
  <2> QED
    BY <1>1, <2>3 DEF BeginEvent, PathsLeftCounted
<1>2. CASE LaunchPath
  <2>1. PICK p \in Paths :
          /\ stage = "open" /\ ~InEvent(p) /\ \A q : InEvent(q)' <=> InEvent(q) \/ q = p
          /\ \A v \in Visits : IF v[1] = p THEN pc'[v] \in {"none", "called"} ELSE pc'[v] = pc[v]
          /\ UNCHANGED <<workerVars, stage>>
    BY <1>2, LaunchForm
  <2>2. ASSUME NEW u \in Visits PROVE Skipped(u)' <=> Skipped(u)
    BY <2>1 DEF Skipped, Thrown, PastWaiting, workerVars
  <2> QED
    BY <2>1, <2>2, LeftSame DEF PathsLeftCounted, workerVars
<1>3. ASSUME UNCHANGED <<launched, pc, cachedException, numberOfPathsLeftToRun>>,
             stage' = "idle" <=> stage = "idle"
      PROVE  PathsLeftCounted'
  <2>1. \A p : InEvent(p)' <=> InEvent(p)
    BY <1>3, InEventFacts DEF Shape
  <2>2. \A u \in Visits : Skipped(u)' <=> Skipped(u)
    BY <1>3, <2>1 DEF Skipped, Thrown
  <2> QED
    BY <1>3, <2>2, LeftSame DEF PathsLeftCounted
<1>4. CASE FinishedPaths \/ EndEvent \/ AtRest \/ UNCHANGED vars
  <2>1. /\ UNCHANGED <<launched, pc, cachedException, numberOfPathsLeftToRun>>
        /\ stage' = "idle" <=> stage = "idle"
    BY <1>4 DEF FinishedPaths, EndEvent, AtRest, vars, workerVars, visitVars, eventVars
  <2> QED
    BY <1>3, <2>1
<1>5. ASSUME NEW m \in Modules, WorkerStep(m) PROVE PathsLeftCounted'
  <2>1. numberOfPathsLeftToRun' = numberOfPathsLeftToRun /\ stage' = stage
    BY <1>5 DEF WorkerStep, PrefetchFailed, RunModule, WorkerDone, Result, eventVars
  <2> QED
    BY <1>5, <2>1, SkippedOfWorker, LeftSame DEF PathsLeftCounted
<1>6. ASSUME NEW v \in Visits, VisitStep(v) PROVE PathsLeftCounted'
  <2>1. stage = "open" /\ stage' = "open"
    BY <1>6, VisitFrame, Active
  <2>2. CASE \E s \in Visits : Skips(v, s)
    BY <2>1, <2>2, LeftOne DEF PathsLeftCounted
  <2>3. CASE /\ \A u \in Visits : Skipped(u)' <=> Skipped(u)
             /\ numberOfPathsLeftToRun' = numberOfPathsLeftToRun
    BY <2>1, <2>3, LeftSame DEF PathsLeftCounted
  <2> QED
    BY <1>6, <2>2, <2>3, VisitSkips
<1> QED
  BY <1>1, <1>2, <1>4, <1>5, <1>6 DEF Next

LEMMA WorkersOfWorker ==
  ASSUME Shape, WorkersOnce, NEW m \in Modules, WorkerStep(m)
  PROVE  WorkersOnce'
<1>1. /\ UNCHANGED <<pc, launched, workStarted>>
      /\ \A p : InEvent(p)' <=> InEvent(p)
      /\ \A u \in Visits : Skipped(u)' <=> Skipped(u)
  <2>1. UNCHANGED <<pc, launched, workStarted>>
    BY DEF WorkerStep, PrefetchFailed, RunModule, WorkerDone, Result, visitVars, eventVars
  <2> QED
    BY <2>1, SkippedOfWorker, InEventFacts DEF Shape
<1>2. ASSUME NEW n \in Modules, n # m
      PROVE  /\ running'[n] = running[n] /\ done'[n] = done[n] /\ workerState'[n] = workerState[n]
             /\ cachedException'[n] = cachedException[n] /\ runs'[n] = runs[n]
  <2>1. n \in Producers
    BY DEF Producers
  <2> QED
    BY <1>2, <2>1 DEF WorkerStep, PrefetchFailed, RunModule, WorkerDone, Result, Shape
<1>3. ASSUME running[m] # "idle", workStarted[m], HasResult(m)' \/ (HasResult(m) /\ WorkerDone(m)),
             running'[m] \in {"announce", "idle"}, running'[m] = "idle" \/ ~done'[m],
             \A v \in Visits : InEvent(v[1]) /\ pc[v] \in PastWaiting => WorkerOf(v) # m
      PROVE  WorkersOnce'
  <2>1. HasResult(m)'
    BY <1>3 DEF HasResult, WorkerDone
  <2>2. ASSUME NEW n \in Modules
        PROVE  /\ ~workStarted'[n] => running'[n] = "idle" /\ Untouched(n)'
               /\ running'[n] = "prefetch" => Untouched(n)'
               /\ workStarted'[n] /\ running'[n] # "prefetch" => HasResult(n)'
               /\ running'[n] # "idle" => \E v \in VisitsOf(n) : pc'[v] = "waiting"
               /\ done'[n] => \/ \A v \in VisitsOf(n) : Skipped(v)'
                              \/ workStarted'[n] /\ running'[n] = "idle"
    <3>1. CASE n = m
      BY <1>1, <1>3, <2>1, <3>1 DEF WorkersOnce
    <3>2. CASE n # m
      <4>1. /\ (Untouched(n)' <=> Untouched(n)) /\ (HasResult(n)' <=> HasResult(n))
            /\ (\A v \in VisitsOf(n) : Skipped(v)') <=> (\A v \in VisitsOf(n) : Skipped(v))
        BY <1>1, <1>2, <3>2 DEF Untouched, HasResult, VisitsOf
      <4> QED
        BY <1>1, <1>2, <3>2, <4>1 DEF WorkersOnce
    <3> QED
      BY <3>1, <3>2
  <2>3. ASSUME NEW v \in Visits, InEvent(v[1])'
        PROVE  /\ pc'[v] = "waiting" => workStarted'[WorkerOf(v)]
               /\ pc'[v] \in PastWaiting => workStarted'[WorkerOf(v)] /\ running'[WorkerOf(v)] = "idle"
    BY <1>1, <1>2, <1>3, <2>3, PlaceFacts DEF WorkersOnce
  <2> QED
    BY <2>2, <2>3 DEF WorkersOnce, VisitsOf
<1>4. CASE WorkerDone(m)
  <2>1. /\ running[m] = "announce" /\ workStarted[m] /\ HasResult(m) /\ running'[m] = "idle"
    BY <1>4 DEF WorkerDone, WorkersOnce, Shape
  <2>2. \A v \in Visits : InEvent(v[1]) /\ pc[v] \in PastWaiting => WorkerOf(v) # m
    BY <2>1 DEF WorkersOnce
  <2> QED
    BY <1>3, <1>4, <2>1, <2>2
<1>5. CASE PrefetchFailed(m) \/ RunModule(m)
  <2>1. running[m] = "prefetch"
    BY <1>5 DEF PrefetchFailed, RunModule, Prefetched
  <2>2. workStarted[m] /\ ~done[m] /\ Untouched(m)
    BY <2>1, NobodyPast
  <2>3. running'[m] = "announce" /\ done' = done
    BY <1>5 DEF PrefetchFailed, RunModule, Result, Shape
  <2>4. HasResult(m)'
    <3>1. CASE PrefetchFailed(m)
      <4>1. PICK e \in NeedsFailed(m) : Result(m, "Exception", e)
        BY <3>1 DEF PrefetchFailed
      <4>2. workerState'[m] = "Exception" /\ cachedException'[m] = e /\ e # None
        BY <4>1 DEF Result, Shape, NeedsFailed
      <4> QED
        BY <2>2, <3>1, <4>2 DEF PrefetchFailed, HasResult, Untouched
    <3>2. CASE RunModule(m)
      <4>1. runs'[m] = 1
        BY <2>2, <3>2 DEF RunModule, Untouched, Shape
      <4>2. workerState'[m] # "Ready"
        BY <3>2 DEF RunModule, Result, Shape
      <4> QED
        BY <4>1, <4>2 DEF HasResult
    <3> QED
      BY <1>5, <3>1, <3>2
  <2>5. \A v \in Visits : InEvent(v[1]) /\ pc[v] \in PastWaiting => WorkerOf(v) # m
    BY <2>1, NobodyPast DEF VisitsOf
  <2> QED
    BY <1>3, <2>1, <2>2, <2>3, <2>4, <2>5
<1> QED
  BY <1>4, <1>5 DEF WorkerStep

LEMMA WorkersOfVisit ==
  ASSUME Shape, Order, PathsCounted, Stages, WorkersOnce, PathsLeftCounted,
         NEW v \in Visits, VisitStep(v)
  PROVE  WorkersOnce'
<1>0. WorkerOf(v) \in Modules /\ v \in VisitsOf(WorkerOf(v)) /\ Modules \subseteq Producers
  BY PlaceFacts DEF VisitsOf, Producers
<1>1. /\ pc[v] \notin Quiet /\ pc'[v] \notin {"none", "skipped", "called"}
      /\ \A u \in Visits : u # v => \/ pc'[u] = pc[u]
                                    \/ pc[u] = "none" /\ pc'[u] \in {"called", "skipped"}
      /\ \A p : InEvent(p)' <=> InEvent(p)
      /\ UNCHANGED <<workerState, cachedException, runs>>
      /\ stage = "open" /\ InEvent(v[1])
  BY VisitFrame, Active
<1>2. \A n \in Modules : (Untouched(n)' <=> Untouched(n)) /\ (HasResult(n)' <=> HasResult(n))
  BY <1>1 DEF Untouched, HasResult
<1>3. /\ \A u \in Visits : Skipped(u) => Skipped(u)'
      /\ \A n \in Modules : done'[n] => done[n] \/ \A u \in VisitsOf(n) : Skipped(u)'
  <2>1. CASE \E s \in Visits : Skips(v, s)
    BY <1>1, <2>1, LeftOne DEF Skips
  <2>2. CASE /\ \A u \in Visits : Skipped(u)' <=> Skipped(u)
             /\ \A m \in Modules : done'[m] = done[m]
    BY <2>2
  <2> QED
    BY <2>1, <2>2, VisitSkips
<1>4. CASE DoWork(v)
  <2> DEFINE m == WorkerOf(v)
  <2>1. /\ pc[v] = "called" /\ pc'[v] = "waiting" /\ workStarted' = [workStarted EXCEPT ![m] = TRUE]
        /\ running' = [running EXCEPT ![m] = IF workStarted[m] THEN @ ELSE "prefetch"]
        /\ done' = done /\ \A u \in Visits : u # v => pc'[u] = pc[u]
    BY <1>4 DEF DoWork, Goto, Shape
  <2>2. \A n \in Modules : /\ workStarted'[n] = IF n = m THEN TRUE ELSE workStarted[n]
                           /\ running'[n] = IF n = m /\ ~workStarted[m] THEN "prefetch" ELSE running[n]
    BY <1>0, <2>1 DEF Shape
  <2>3. ~workStarted[m] => ~done[m] /\ Untouched(m)
    <3>1. ~Skipped(v)
      BY <2>1 DEF Skipped, PastWaiting
    <3> QED
      BY <1>0, <3>1 DEF WorkersOnce
  <2> HIDE DEF m
  <2>4. ASSUME NEW n \in Modules
        PROVE  /\ ~workStarted'[n] => running'[n] = "idle" /\ Untouched(n)'
               /\ running'[n] = "prefetch" => Untouched(n)'
               /\ workStarted'[n] /\ running'[n] # "prefetch" => HasResult(n)'
               /\ running'[n] # "idle" => \E u \in VisitsOf(n) : pc'[u] = "waiting"
               /\ done'[n] => \/ \A u \in VisitsOf(n) : Skipped(u)'
                              \/ workStarted'[n] /\ running'[n] = "idle"
    <3>1. /\ ~workStarted[n] => running[n] = "idle" /\ Untouched(n)
          /\ running[n] = "prefetch" => Untouched(n)
          /\ workStarted[n] /\ running[n] # "prefetch" => HasResult(n)
          /\ running[n] # "idle" => \E u \in VisitsOf(n) : pc[u] = "waiting"
          /\ done[n] => \/ \A u \in VisitsOf(n) : Skipped(u)
                        \/ workStarted[n] /\ running[n] = "idle"
      BY DEF WorkersOnce
    <3>2. running'[n] # "idle" => \E u \in VisitsOf(n) : pc'[u] = "waiting"
      <4>1. CASE n = m
        BY <1>0, <2>1, <4>1 DEF m
      <4>2. CASE n # m
        <5>1. \A u \in VisitsOf(n) : u \in Visits
          BY DEF VisitsOf
        <5> QED
          BY <2>1, <2>2, <3>1, <4>2, <5>1
      <4> QED
        BY <4>1, <4>2
    <3>3. done'[n] => \/ \A u \in VisitsOf(n) : Skipped(u)'
                      \/ workStarted'[n] /\ running'[n] = "idle"
      BY <1>3, <2>1, <2>2, <2>3, <3>1 DEF VisitsOf
    <3> QED
      BY <1>2, <2>2, <2>3, <3>1, <3>2, <3>3
  <2>5. ASSUME NEW u \in Visits, InEvent(u[1])'
        PROVE  /\ pc'[u] = "waiting" => workStarted'[WorkerOf(u)]
               /\ pc'[u] \in PastWaiting => workStarted'[WorkerOf(u)] /\ running'[WorkerOf(u)] = "idle"
    <3>1. CASE u = v
      BY <1>0, <2>1, <2>2, <3>1 DEF PastWaiting, m
    <3>2. CASE u # v
      BY <1>1, <2>1, <2>2, <2>5, <3>2, PlaceFacts DEF WorkersOnce
    <3> QED
      BY <3>1, <3>2
  <2> QED
    BY <2>4, <2>5 DEF WorkersOnce, VisitsOf
<1>5. CASE ~DoWork(v)
  <2>1. UNCHANGED <<workStarted, running>>
    BY <1>5 DEF VisitStep, Continue, Complete, Reject, Tolerate, Rethrow, SetFailed, SkipNext, Count,
                Finish, Announce, SkipWorker, workerVars
  <2>2. \/ pc[v] = "waiting" /\ Released(v) /\ pc'[v] \in PastWaiting
        \/ pc[v] \in PastWaiting /\ pc'[v] \in PastWaiting
    <3>1. CASE Continue(v)
      BY <3>1 DEF Continue, Released, PastWaiting
    <3>2. CASE SkipNext(v)
      <4>1. pc[v] = "leave"
        BY <3>2 DEF SkipNext
      <4>2. pc'[v] \in Labels
        BY ShapeOfVisit DEF Shape
      <4>3. PICK j \in (v[2] + 1)..Size(v[1]) :
              pc' = [pc EXCEPT ![<<v[1], j>>] = "skipped",
                               ![v] = IF j = Size(v[1]) THEN "count" ELSE @]
        BY <3>2 DEF SkipNext
      <4>4. <<v[1], j>> # v /\ <<v[1], j>> \in Visits
        BY <4>3, PlaceFacts
      <4>5. pc'[v] \in {"count", "leave"}
        BY <4>1, <4>3, <4>4 DEF Shape
      <4> QED
        BY <4>1, <4>5 DEF PastWaiting
    <3> QED
      BY <1>5, <3>1, <3>2 DEF VisitStep, Complete, Reject, Tolerate, Rethrow, SetFailed, Count,
                              Finish, Announce, Goto, Released, Shape, PastWaiting
  <2>3. workStarted[WorkerOf(v)] /\ running[WorkerOf(v)] = "idle"
    BY <1>1, <2>2, ReleasedByResult DEF WorkersOnce
  <2>4. ASSUME NEW n \in Modules
        PROVE  /\ ~workStarted'[n] => running'[n] = "idle" /\ Untouched(n)'
               /\ running'[n] = "prefetch" => Untouched(n)'
               /\ workStarted'[n] /\ running'[n] # "prefetch" => HasResult(n)'
               /\ running'[n] # "idle" => \E u \in VisitsOf(n) : pc'[u] = "waiting"
               /\ done'[n] => \/ \A u \in VisitsOf(n) : Skipped(u)'
                              \/ workStarted'[n] /\ running'[n] = "idle"
    <3>1. /\ ~workStarted[n] => running[n] = "idle" /\ Untouched(n)
          /\ running[n] = "prefetch" => Untouched(n)
          /\ workStarted[n] /\ running[n] # "prefetch" => HasResult(n)
          /\ running[n] # "idle" => \E u \in VisitsOf(n) : pc[u] = "waiting"
          /\ done[n] => \/ \A u \in VisitsOf(n) : Skipped(u)
                        \/ workStarted[n] /\ running[n] = "idle"
      BY DEF WorkersOnce
    <3>2. running'[n] # "idle" => \E u \in VisitsOf(n) : pc'[u] = "waiting"
      <4> SUFFICES ASSUME running[n] # "idle" PROVE \E u \in VisitsOf(n) : pc'[u] = "waiting"
        BY <2>1
      <4>1. PICK u \in VisitsOf(n) : pc[u] = "waiting"
        BY <3>1
      <4>2. u \in Visits /\ u # v
        BY <2>3 DEF VisitsOf
      <4> QED
        BY <1>1, <4>1, <4>2
    <3>3. done'[n] => \/ \A u \in VisitsOf(n) : Skipped(u)'
                      \/ workStarted'[n] /\ running'[n] = "idle"
      BY <1>3, <2>1, <3>1 DEF VisitsOf
    <3> QED
      BY <1>2, <2>1, <3>1, <3>2, <3>3
  <2>5. ASSUME NEW u \in Visits, InEvent(u[1])'
        PROVE  /\ pc'[u] = "waiting" => workStarted'[WorkerOf(u)]
               /\ pc'[u] \in PastWaiting => workStarted'[WorkerOf(u)] /\ running'[WorkerOf(u)] = "idle"
    <3>1. CASE u = v
      BY <2>1, <2>3, <3>1
    <3>2. CASE u # v
      BY <1>1, <2>1, <2>5, <3>2 DEF WorkersOnce, PastWaiting
    <3> QED
      BY <3>1, <3>2
  <2> QED
    BY <2>4, <2>5 DEF WorkersOnce, VisitsOf
<1> QED
  BY <1>4, <1>5

LEMMA WorkersStep ==
  ASSUME Shape, Order, PathsCounted, Stages, ErrorsTold, WorkersOnce, PathsLeftCounted, [Next]_vars
  PROVE  WorkersOnce'
<1>0. Modules \subseteq Producers /\ Results \notin Modules
  BY NamesAssumption DEF Producers
<1>1. CASE BeginEvent
  <2>1. launched' = 0
    BY <1>1 DEF BeginEvent
  <2>2. \A p : ~InEvent(p)'
    BY <2>1 DEF InEvent
  <2>3. \A m \in Modules : running[m] = "idle"
    BY <1>1, QuietAtBegin DEF WorkersOnce, VisitsOf, Quiet
  <2>4. \A m \in Modules : /\ ~workStarted'[m] /\ running'[m] = "idle" /\ Untouched(m)' /\ ~done'[m]
    BY <1>0, <1>1, <2>3 DEF BeginEvent, Untouched
  <2> QED
    BY <2>2, <2>4 DEF WorkersOnce
<1>2. CASE LaunchPath
  <2>1. PICK p \in Paths :
          /\ ~InEvent(p) /\ \A q : InEvent(q)' <=> InEvent(q) \/ q = p
          /\ \A v \in Visits : IF v[1] = p THEN pc'[v] \in {"none", "called"} ELSE pc'[v] = pc[v]
          /\ UNCHANGED workerVars
    BY <1>2, LaunchForm
  <2>2. \A u \in Visits : (Skipped(u)' <=> Skipped(u)) /\ (pc[u] = "waiting" => pc'[u] = "waiting")
    BY <2>1 DEF Skipped, Thrown, PastWaiting, workerVars, Stages, Quiet
  <2>3. \A n \in Modules : (Untouched(n)' <=> Untouched(n)) /\ (HasResult(n)' <=> HasResult(n))
    BY <2>1 DEF Untouched, HasResult, workerVars
  <2>4. ASSUME NEW n \in Modules
        PROVE  /\ ~workStarted'[n] => running'[n] = "idle" /\ Untouched(n)'
               /\ running'[n] = "prefetch" => Untouched(n)'
               /\ workStarted'[n] /\ running'[n] # "prefetch" => HasResult(n)'
               /\ running'[n] # "idle" => \E u \in VisitsOf(n) : pc'[u] = "waiting"
               /\ done'[n] => \/ \A u \in VisitsOf(n) : Skipped(u)'
                              \/ workStarted'[n] /\ running'[n] = "idle"
    <3>1. \A u \in VisitsOf(n) : u \in Visits
      BY DEF VisitsOf
    <3> QED
      BY <2>1, <2>2, <2>3, <3>1 DEF WorkersOnce, workerVars
  <2>5. ASSUME NEW u \in Visits, InEvent(u[1])'
        PROVE  /\ pc'[u] = "waiting" => workStarted'[WorkerOf(u)]
               /\ pc'[u] \in PastWaiting => workStarted'[WorkerOf(u)] /\ running'[WorkerOf(u)] = "idle"
    <3>1. CASE u[1] = p
      BY <2>1, <3>1 DEF PastWaiting
    <3>2. CASE u[1] # p
      BY <2>1, <2>5, <3>2 DEF WorkersOnce, workerVars
    <3> QED
      BY <3>1, <3>2
  <2> QED
    BY <2>4, <2>5 DEF WorkersOnce, VisitsOf
<1>3. CASE FinishedPaths \/ EndEvent \/ AtRest \/ UNCHANGED vars
  <2>1. /\ UNCHANGED <<launched, pc, workStarted, workerState, cachedException, running, runs>>
        /\ \A n \in Modules : done'[n] = done[n]
    <3>1. CASE FinishedPaths
      BY <1>0, <3>1 DEF FinishedPaths, visitVars, Shape
    <3>2. CASE ~FinishedPaths
      BY <1>3, <3>2 DEF EndEvent, AtRest, vars, workerVars, visitVars, eventVars
    <3> QED
      BY <3>1, <3>2
  <2>2. \A p : InEvent(p)' <=> InEvent(p)
    BY <2>1, InEventFacts DEF Shape
  <2>3. \A u \in Visits : Skipped(u)' <=> Skipped(u)
    BY <2>1, <2>2 DEF Skipped, Thrown
  <2>4. \A n \in Modules : (Untouched(n)' <=> Untouched(n)) /\ (HasResult(n)' <=> HasResult(n))
    BY <2>1 DEF Untouched, HasResult
  <2>5. \A n \in Modules : (\A u \in VisitsOf(n) : Skipped(u)') <=> (\A u \in VisitsOf(n) : Skipped(u))
    BY <2>3 DEF VisitsOf
  <2> QED
    BY <2>1, <2>2, <2>4, <2>5 DEF WorkersOnce, VisitsOf
<1> QED
  BY <1>1, <1>2, <1>3, WorkersOfWorker, WorkersOfVisit DEF Next

-----------------------------------------------------------------------------
(* The status of a path.                                                   *)

LEMMA StatusSame ==
  ASSUME NEW p, StatusSoFar(p),
         \A v \in PlacesOf(p) : (Threw(v)' <=> Threw(v)) /\ (Rejected(v)' <=> Rejected(v)),
         pathState'[p] = pathState[p], failedModuleIndex'[p] = failedModuleIndex[p]
  PROVE  StatusSoFar(p)'
<1> DEFINE T == {v \in PlacesOf(p) : Threw(v)}
           R == {v \in PlacesOf(p) : Rejected(v)}
<1>1. {v \in PlacesOf(p) : Threw(v)'} = T /\ {v \in PlacesOf(p) : Rejected(v)'} = R
  OBVIOUS
<1> HIDE DEF T, R
<1>2. \/ /\ T # {} /\ pathState[p] = "Exception"
         /\ \E v \in T : FirstOf(v, T) /\ failedModuleIndex[p] = v[2]
      \/ /\ T = {} /\ R # {} /\ pathState[p] = "Fail"
         /\ \E v \in R : FirstOf(v, R) /\ failedModuleIndex[p] = v[2]
      \/ /\ T = {} /\ R = {} /\ pathState[p] = "Pass"
         /\ failedModuleIndex[p] = Size(p)
  BY DEF StatusSoFar, T, R
<1>3. PlacesOf(p)' = PlacesOf(p)
  BY DEF PlacesOf
<1> QED
  BY <1>1, <1>2, <1>3 DEF StatusSoFar

(* threadsafe_setFailedModuleInfo() keeps the lowest place of those that   *)
(* threw, or of those that rejected if none threw.                         *)
LEMMA StatusOfFailed ==
  ASSUME Shape, StatusKept, NEW v \in Visits, SetFailed(v), InEvent(v[1]),
         \A u \in PlacesOf(v[1]) : u # v => (Threw(u)' <=> Threw(u)) /\ (Rejected(u)' <=> Rejected(u)),
         Threw(v)' <=> Thrown(v) # None, Rejected(v)' <=> ~Accepted(v)
  PROVE  StatusSoFar(v[1])' /\ failedModuleIndex'[v[1]] \in 1..Size(v[1])
<1> DEFINE p == v[1]
           T == {u \in PlacesOf(p) : Threw(u)}
           R == {u \in PlacesOf(p) : Rejected(u)}
           TT == {u \in PlacesOf(p) : Threw(u)'}
           RR == {u \in PlacesOf(p) : Rejected(u)'}
           lowest == IF v[2] < failedModuleIndex[p] THEN v[2] ELSE failedModuleIndex[p]
<1>1. /\ p \in Paths /\ v \in PlacesOf(p) /\ v[2] \in 1..Size(p) /\ Size(p) \in Nat
      /\ \A u \in PlacesOf(p) : u[2] \in 1..Size(p)
      /\ failedModuleIndex[p] \in 1..Size(p) /\ pc[v] = "fail" /\ ~ShouldContinue(v)
  BY PlaceFacts DEF StatusKept, PlacesOf, SetFailed
<1>2. v \notin T /\ v \notin R
  BY <1>1 DEF Threw, Rejected, Settled
<1>3. TT = IF Thrown(v) # None THEN T \cup {v} ELSE T
  BY <1>1, <1>2 DEF Threw
<1>4. RR = IF ~Accepted(v) THEN R \cup {v} ELSE R
  BY <1>1, <1>2
<1>5. T \subseteq PlacesOf(p) /\ R \subseteq PlacesOf(p)
  OBVIOUS
<1>6. \/ /\ T # {} /\ pathState[p] = "Exception"
         /\ \E u \in T : FirstOf(u, T) /\ failedModuleIndex[p] = u[2]
      \/ /\ T = {} /\ R # {} /\ pathState[p] = "Fail"
         /\ \E u \in R : FirstOf(u, R) /\ failedModuleIndex[p] = u[2]
      \/ /\ T = {} /\ R = {} /\ pathState[p] = "Pass"
         /\ failedModuleIndex[p] = Size(p)
  BY <1>1 DEF StatusKept, StatusSoFar
<1>7. /\ Thrown(v) # None =>
           /\ pathState'[p] = "Exception"
           /\ failedModuleIndex'[p] = IF pathState[p] = "Exception" THEN lowest ELSE v[2]
      /\ Thrown(v) = None /\ pathState[p] # "Exception" =>
           pathState'[p] = "Fail" /\ failedModuleIndex'[p] = lowest
      /\ Thrown(v) = None /\ pathState[p] = "Exception" =>
           pathState'[p] = pathState[p] /\ failedModuleIndex'[p] = failedModuleIndex[p]
  BY <1>1 DEF SetFailed, Shape
<1> HIDE DEF T, R, TT, RR, p
<1>8. /\ \/ /\ TT # {} /\ pathState'[p] = "Exception"
            /\ \E u \in TT : FirstOf(u, TT) /\ failedModuleIndex'[p] = u[2]
         \/ /\ TT = {} /\ RR # {} /\ pathState'[p] = "Fail"
            /\ \E u \in RR : FirstOf(u, RR) /\ failedModuleIndex'[p] = u[2]
      /\ failedModuleIndex'[p] \in 1..Size(p)
  <2>1. CASE Thrown(v) # None /\ pathState[p] = "Exception"
    <3>1. PICK u \in T : FirstOf(u, T) /\ failedModuleIndex[p] = u[2]
      BY <1>6, <2>1
    <3>2. CASE v[2] < u[2]
      <4>1. FirstOf(v, TT) /\ failedModuleIndex'[p] = v[2]
        BY <1>1, <1>3, <1>5, <1>7, <2>1, <3>1, <3>2 DEF FirstOf
      <4> QED
        BY <1>1, <1>7, <2>1, <4>1 DEF FirstOf
    <3>3. CASE ~(v[2] < u[2])
      <4>1. FirstOf(u, TT) /\ failedModuleIndex'[p] = u[2]
        BY <1>1, <1>3, <1>5, <1>7, <2>1, <3>1, <3>3 DEF FirstOf
      <4> QED
        BY <1>1, <1>7, <2>1, <3>1, <4>1 DEF FirstOf
    <3> QED
      BY <3>2, <3>3
  <2>2. CASE Thrown(v) # None /\ pathState[p] # "Exception"
    <3>1. TT = {v} /\ failedModuleIndex'[p] = v[2] /\ pathState'[p] = "Exception"
      BY <1>3, <1>6, <1>7, <2>2
    <3> QED
      BY <1>1, <3>1 DEF FirstOf
  <2>3. CASE Thrown(v) = None /\ pathState[p] # "Exception"
    <3>1. TT = {} /\ RR = R \cup {v} /\ failedModuleIndex'[p] = lowest /\ pathState'[p] = "Fail"
      BY <1>1, <1>3, <1>4, <1>6, <1>7, <2>3 DEF ShouldContinue
    <3>2. CASE R = {}
      <4>1. failedModuleIndex'[p] = v[2] /\ FirstOf(v, RR)
        BY <1>1, <1>6, <2>3, <3>1, <3>2 DEF FirstOf
      <4> QED
        BY <1>1, <3>1, <4>1 DEF FirstOf
    <3>3. CASE R # {}
      <4>1. PICK u \in R : FirstOf(u, R) /\ failedModuleIndex[p] = u[2]
        BY <1>6, <2>3, <3>3
      <4>2. CASE v[2] < u[2]
        <5>1. FirstOf(v, RR) /\ failedModuleIndex'[p] = v[2]
          BY <1>1, <1>5, <3>1, <4>1, <4>2 DEF FirstOf
        <5> QED
          BY <1>1, <3>1, <5>1 DEF FirstOf
      <4>3. CASE ~(v[2] < u[2])
        <5>1. FirstOf(u, RR) /\ failedModuleIndex'[p] = u[2]
          BY <1>1, <1>5, <3>1, <4>1, <4>3 DEF FirstOf
        <5> QED
          BY <1>1, <3>1, <4>1, <5>1 DEF FirstOf
      <4> QED
        BY <4>2, <4>3
    <3> QED
      BY <3>2, <3>3
  <2>4. CASE Thrown(v) = None /\ pathState[p] = "Exception"
    BY <1>1, <1>3, <1>6, <1>7, <2>4
  <2> QED
    BY <2>1, <2>2, <2>3, <2>4
<1>9. PlacesOf(p)' = PlacesOf(p)
  BY DEF PlacesOf, p
<1> QED
  BY <1>8, <1>9 DEF StatusSoFar, TT, RR, p

LEMMA StatusOfVisit ==
  ASSUME Shape, Order, PathsCounted, Stages, StatusKept, NEW v \in Visits, VisitStep(v)
  PROVE  StatusKept'
<1>1. /\ \A u \in Visits : u # v => \/ pc'[u] = pc[u]
                                    \/ pc[u] = "none" /\ pc'[u] \in {"called", "skipped"}
      /\ \A p : InEvent(p)' <=> InEvent(p)
      /\ UNCHANGED <<workerState, cachedException, runs>>
      /\ stage = "open" /\ InEvent(v[1]) /\ v[1] \in Paths
  BY VisitFrame, Active, PlaceFacts
<1>2. /\ \A u \in Visits : (Thrown(u)' = Thrown(u)) /\ (Accepted(u)' <=> Accepted(u))
      /\ \A u \in Visits : ShouldContinue(u)' <=> ShouldContinue(u)
  BY <1>1 DEF Thrown, Accepted, ShouldContinue
<1>3. \A u \in Visits : u # v => (Threw(u)' <=> Threw(u)) /\ (Rejected(u)' <=> Rejected(u))
  BY <1>1, <1>2 DEF Threw, Rejected, Settled, PastWaiting
<1>4. CASE SetFailed(v)
  <2>1. pc'[v] \in Settled /\ \A u \in Visits : u # v => pc'[u] = pc[u]
    BY <1>4 DEF SetFailed, Goto, Shape, Settled, PastWaiting
  <2>2. (Threw(v)' <=> Thrown(v) # None) /\ (Rejected(v)' <=> ~Accepted(v))
    BY <1>2, <2>1 DEF Threw, Rejected
  <2>3. StatusSoFar(v[1])' /\ failedModuleIndex'[v[1]] \in 1..Size(v[1])
    BY <1>1, <1>3, <1>4, <2>2, StatusOfFailed DEF PlacesOf
  <2>4. \A p \in Paths \ {v[1]} : /\ pathState'[p] = pathState[p]
                                  /\ failedModuleIndex'[p] = failedModuleIndex[p]
    BY <1>4 DEF SetFailed, Shape
  <2>5. \A p \in Paths \ {v[1]} : \A u \in PlacesOf(p) :
          (Threw(u)' <=> Threw(u)) /\ (Rejected(u)' <=> Rejected(u))
    BY <1>3 DEF PlacesOf
  <2>6. \A p \in Paths : InEvent(p)' => StatusSoFar(p)'
    BY <1>1, <2>3, <2>4, <2>5, StatusSame DEF StatusKept
  <2>7. \A u \in Visits : pc'[u] = "fail" => ~ShouldContinue(u)'
    BY <1>2, <2>1 DEF StatusKept, Settled
  <2> QED
    BY <2>3, <2>4, <2>6, <2>7 DEF StatusKept
<1>5. CASE ~SetFailed(v)
  <2>1. UNCHANGED <<pathState, failedModuleIndex>>
    BY <1>5 DEF VisitStep, DoWork, Continue, Complete, Reject, Tolerate, Rethrow, SkipNext, Count,
                Finish, Announce, pathVars
  <2>2. (Threw(v)' <=> Threw(v)) /\ (Rejected(v)' <=> Rejected(v))
    <3>1. CASE Continue(v) \/ Complete(v)
      <4>1. ShouldContinue(v) /\ pc[v] = "waiting"
        BY <3>1 DEF Continue, Complete, Released
      <4> QED
        BY <1>2, <4>1 DEF Threw, Rejected, ShouldContinue, Settled, PastWaiting
    <3>2. CASE DoWork(v) \/ Reject(v) \/ Tolerate(v) \/ Rethrow(v)
      <4>1. pc[v] \notin Settled /\ pc'[v] \notin Settled
        BY <3>2 DEF DoWork, Reject, Tolerate, Rethrow, Released, Goto, Shape, Settled, PastWaiting
      <4> QED
        BY <4>1 DEF Threw, Rejected
    <3>3. CASE SkipNext(v)
      <4>1. PICK j \in (v[2] + 1)..Size(v[1]) :
              pc' = [pc EXCEPT ![<<v[1], j>>] = "skipped",
                               ![v] = IF j = Size(v[1]) THEN "count" ELSE @]
        BY <3>3 DEF SkipNext
      <4>2. <<v[1], j>> # v /\ <<v[1], j>> \in Visits /\ pc[v] = "leave"
        BY <3>3, <4>1, PlaceFacts DEF SkipNext
      <4>3. pc'[v] \in {"count", "leave"}
        BY <4>1, <4>2 DEF Shape
      <4> QED
        BY <1>2, <4>2, <4>3 DEF Threw, Rejected, Settled, PastWaiting
    <3>4. CASE Count(v) \/ Finish(v) \/ Announce(v)
      <4>1. pc[v] \in Settled /\ pc'[v] \in Settled
        BY <3>4 DEF Count, Finish, Announce, Goto, Shape, Settled, PastWaiting
      <4> QED
        BY <1>2, <4>1 DEF Threw, Rejected
    <3> QED
      BY <1>5, <3>1, <3>2, <3>3, <3>4 DEF VisitStep
  <2>3. \A p \in Paths : \A u \in PlacesOf(p) :
          (Threw(u)' <=> Threw(u)) /\ (Rejected(u)' <=> Rejected(u))
    BY <1>3, <2>2 DEF PlacesOf
  <2>4. \A p \in Paths : InEvent(p)' => StatusSoFar(p)'
    BY <1>1, <2>1, <2>3, StatusSame DEF StatusKept
  <2>5. pc'[v] = "fail" => ~ShouldContinue(v)
    <3>1. CASE Continue(v) \/ SkipNext(v)
      BY <3>1, <2>2, ShapeOfVisit DEF Continue, SkipNext, StatusKept, Shape
    <3>2. CASE Reject(v) \/ Tolerate(v) \/ Rethrow(v)
      BY <3>2 DEF Reject, Tolerate, Rethrow, ShouldContinue
    <3> QED
      BY <1>5, <3>1, <3>2 DEF VisitStep, DoWork, Complete, Count, Finish, Announce, Goto, Shape
  <2>6. \A u \in Visits : pc'[u] = "fail" => ~ShouldContinue(u)'
    BY <1>1, <1>2, <2>5 DEF StatusKept
  <2> QED
    BY <2>1, <2>4, <2>6 DEF StatusKept
<1> QED
  BY <1>4, <1>5

LEMMA StatusStep ==
  ASSUME Shape, Order, PathsCounted, Stages, ErrorsTold, WorkersOnce, StatusKept, [Next]_vars
  PROVE  StatusKept'
<1>1. CASE BeginEvent
  <2>1. launched' = 0 /\ UNCHANGED <<pc, failedModuleIndex>>
    BY <1>1 DEF BeginEvent, pathVars, visitVars
  <2>2. \A p : ~InEvent(p)'
    BY <2>1 DEF InEvent
  <2>3. \A v \in Visits : pc[v] # "fail"
    BY <1>1, QuietAtBegin DEF Quiet
  <2> QED
    BY <2>1, <2>2, <2>3 DEF StatusKept
<1>2. CASE LaunchPath
  <2>1. PICK p \in Paths :
          /\ \A q : InEvent(q)' <=> InEvent(q) \/ q = p
          /\ \A v \in Visits : IF v[1] = p THEN pc'[v] \in {"none", "called"} ELSE pc'[v] = pc[v]
          /\ \A q \in Paths : IF q = p THEN pathState'[q] = "Pass" /\ failedModuleIndex'[q] = Size(q)
                              ELSE /\ pathState'[q] = pathState[q]
                                   /\ failedModuleIndex'[q] = failedModuleIndex[q]
          /\ UNCHANGED workerVars
    BY <1>2, LaunchForm
  <2>2. \A u \in Visits : /\ Thrown(u)' = Thrown(u) /\ (Accepted(u)' <=> Accepted(u))
                          /\ ShouldContinue(u)' <=> ShouldContinue(u)
    BY <2>1 DEF Thrown, Accepted, ShouldContinue, workerVars
  <2>3. \A q \in Paths \ {p} : \A u \in PlacesOf(q) :
          (Threw(u)' <=> Threw(u)) /\ (Rejected(u)' <=> Rejected(u))
    BY <2>1, <2>2 DEF Threw, Rejected, PlacesOf
  <2>4. \A u \in PlacesOf(p) : ~Threw(u)' /\ ~Rejected(u)'
    BY <2>1 DEF Threw, Rejected, PlacesOf, Settled, PastWaiting
  <2>5. StatusSoFar(p)'
    <3>1. {u \in PlacesOf(p) : Threw(u)'} = {} /\ {u \in PlacesOf(p) : Rejected(u)'} = {}
      BY <2>4
    <3>2. PlacesOf(p)' = PlacesOf(p)
      BY DEF PlacesOf
    <3>3. pathState'[p] = "Pass" /\ failedModuleIndex'[p] = Size(p)
      BY <2>1
    <3> QED
      BY <3>1, <3>2, <3>3 DEF StatusSoFar
  <2>6. \A q \in Paths : InEvent(q)' => StatusSoFar(q)'
    BY <2>1, <2>3, <2>5, StatusSame DEF StatusKept
  <2>7. \A q \in Paths : failedModuleIndex'[q] \in 1..Size(q)
    BY <2>1, PlaceFacts DEF StatusKept
  <2>8. \A u \in Visits : pc'[u] = "fail" => ~ShouldContinue(u)'
    BY <2>1, <2>2 DEF StatusKept
  <2> QED
    BY <2>6, <2>7, <2>8 DEF StatusKept
<1>3. ASSUME UNCHANGED <<launched, pc, pathState, failedModuleIndex>>,
             \A u \in Visits : InEvent(u[1]) /\ pc[u] \in PastWaiting =>
               Thrown(u)' = Thrown(u) /\ (Accepted(u)' <=> Accepted(u))
      PROVE  StatusKept'
  <2>1. \A p : InEvent(p)' <=> InEvent(p)
    BY <1>3, InEventFacts DEF Shape
  <2>2. \A p \in Paths : InEvent(p) => \A u \in PlacesOf(p) :
          (Threw(u)' <=> Threw(u)) /\ (Rejected(u)' <=> Rejected(u))
    BY <1>3 DEF Threw, Rejected, PlacesOf, Settled
  <2>3. \A p \in Paths : InEvent(p)' => StatusSoFar(p)'
    BY <1>3, <2>1, <2>2, StatusSame DEF StatusKept
  <2>4. \A u \in Visits : pc'[u] = "fail" => ~ShouldContinue(u)'
    <3> SUFFICES ASSUME NEW u \in Visits, pc[u] = "fail" PROVE ~ShouldContinue(u)'
      BY <1>3
    <3>1. InEvent(u[1]) /\ pc[u] \in PastWaiting /\ ~ShouldContinue(u)
      BY Active DEF Quiet, PastWaiting, StatusKept
    <3> QED
      BY <1>3, <3>1 DEF ShouldContinue
  <2> QED
    BY <1>3, <2>3, <2>4 DEF StatusKept
<1>4. ASSUME NEW m \in Modules, WorkerStep(m) PROVE StatusKept'
  <2>1. UNCHANGED <<launched, pc, pathState, failedModuleIndex>>
    BY <1>4 DEF WorkerStep, PrefetchFailed, RunModule, WorkerDone, Result, visitVars, pathVars, eventVars
  <2>2. CASE WorkerDone(m)
    <3>1. \A u \in Visits : Thrown(u)' = Thrown(u) /\ (Accepted(u)' <=> Accepted(u))
      BY <2>2 DEF WorkerDone, Thrown, Accepted
    <3> QED
      BY <1>3, <2>1, <3>1
  <2>3. CASE running[m] = "prefetch"
    <3>1. \A u \in Visits : InEvent(u[1]) /\ pc[u] \in PastWaiting => WorkerOf(u) # m
      BY <2>3, NobodyPast DEF VisitsOf
    <3>2. \A n \in Modules : n # m => cachedException'[n] = cachedException[n] /\ workerState'[n] = workerState[n]
      BY <1>4 DEF WorkerStep, PrefetchFailed, RunModule, WorkerDone, Result, Shape
    <3>3. ASSUME NEW u \in Visits, WorkerOf(u) # m
          PROVE  Thrown(u)' = Thrown(u) /\ (Accepted(u)' <=> Accepted(u))
      BY <3>2, <3>3, PlaceFacts DEF Thrown, Accepted
    <3> QED
      BY <1>3, <2>1, <3>1, <3>3
  <2> QED
    BY <1>4, <2>2, <2>3 DEF WorkerStep, PrefetchFailed, RunModule, Prefetched
<1>5. CASE FinishedPaths \/ EndEvent \/ AtRest \/ UNCHANGED vars
  <2>1. UNCHANGED <<launched, pc, pathState, failedModuleIndex, cachedException, workerState>>
    BY <1>5 DEF FinishedPaths, EndEvent, AtRest, vars, workerVars, pathVars, visitVars, eventVars
  <2>2. \A u \in Visits : Thrown(u)' = Thrown(u) /\ (Accepted(u)' <=> Accepted(u))
    BY <2>1 DEF Thrown, Accepted
  <2> QED
    BY <1>3, <2>1, <2>2
<1> QED
  BY <1>1, <1>2, <1>4, <1>5, StatusOfVisit DEF Next

-----------------------------------------------------------------------------
(* The exceptions that the schedule is told of.                            *)

LEMMA TasksSame ==
  ASSUME TasksTold, UNCHANGED <<taskException, pathError, stage, outcome>>,
         \A v \in Visits : finalException'[v] = finalException[v]
  PROVE  TasksTold'
<1>1. (Ended(TRUE)' <=> Ended(TRUE)) /\ (Ended(FALSE)' <=> Ended(FALSE))
  BY DEF Ended
<1> QED
  BY <1>1 DEF TasksTold

(* presetTaskAsFailed() tells the task of this path's kind, ...            *)
LEMMA TasksOfRethrow ==
  ASSUME Shape, PathsCounted, Stages, TasksTold, NEW v \in Visits, Rethrow(v)
  PROVE  TasksTold'
<1>1. /\ pc[v] = "waiting" /\ Thrown(v) # None /\ Thrown(v).kind # "continue"
      /\ Tell(v[1], Thrown(v)) /\ UNCHANGED <<pathError, stage, outcome>>
      /\ finalException'[v] = Thrown(v) /\ finalException' = [finalException EXCEPT ![v] = Thrown(v)]
  BY DEF Rethrow, Released, Shape, eventVars
<1>2. stage = "open"
  BY <1>1, Active DEF Quiet
<1>3. \A u \in Visits : u # v => finalException'[u] = finalException[u]
  BY <1>1 DEF Shape
<1>4. CASE v[1] \in TrigPaths
  <2>1. ~pathError.run
    BY <1>1, <1>4 DEF Stages, PathsCounted
  <2>2. Ended(TRUE)'
    BY <1>1, <1>4 DEF Ended
  <2>3. Ended(FALSE)' <=> Ended(FALSE)
    BY <1>3, <1>4 DEF Ended
  <2>4. /\ taskException'["allPathsDone"] = taskException["allPathsDone"]
        /\ taskException'["pathsDone"] = IF taskException["pathsDone"] = None THEN Thrown(v)
                                         ELSE taskException["pathsDone"]
    BY <1>1, <1>4 DEF Tell, Shape, EndNames
  <2> QED
    BY <1>1, <1>2, <2>1, <2>2, <2>3, <2>4 DEF TasksTold
<1>5. CASE v[1] \notin TrigPaths
  <2>1. Ended(FALSE)'
    BY <1>1, <1>5 DEF Ended
  <2>2. Ended(TRUE)' <=> Ended(TRUE)
    BY <1>3, <1>5 DEF Ended
  <2>3. /\ taskException'["pathsDone"] = taskException["pathsDone"]
        /\ taskException'["allPathsDone"] # None
    BY <1>1, <1>5 DEF Tell, Shape, EndNames
  <2> QED
    BY <1>1, <1>2, <2>1, <2>2, <2>3 DEF TasksTold
<1> QED
  BY <1>4, <1>5

(* ... and what finished() tells it of is nothing new.                     *)
LEMMA TasksOfAnnounce ==
  ASSUME Shape, TasksTold, NEW v \in Visits, Announce(v)
  PROVE  taskException' = taskException
<1>1. Tell(v[1], finalException[v])
  BY DEF Announce
<1> DEFINE t == IF v[1] \in TrigPaths THEN "pathsDone" ELSE "allPathsDone"
<1>2. taskException' = [taskException EXCEPT ![t] = IF taskException[t] = None THEN finalException[v]
                                                  ELSE taskException[t]]
  BY <1>1 DEF Tell
<1>3. taskException[t] = None => finalException[v] = None
  <2>1. CASE v[1] \in TrigPaths
    BY <2>1 DEF TasksTold, Ended
  <2>2. CASE v[1] \notin TrigPaths
    BY <2>2 DEF TasksTold, Ended
  <2> QED
    BY <2>1, <2>2
<1>4. taskException \in [EndNames -> MaybeException] /\ t \in EndNames
  BY DEF Shape, EndNames
<1> HIDE DEF t
<1> QED
  BY <1>2, <1>3, <1>4

LEMMA ErrorsOfVisit ==
  ASSUME Shape, Order, PathsCounted, Stages, ErrorsTold, NEW v \in Visits, VisitStep(v)
  PROVE  ErrorsTold'
<1>1. /\ pc[v] \notin Quiet
      /\ \A u \in Visits : u # v => \/ pc'[u] = pc[u]
                                    \/ pc[u] = "none"
      /\ \A u \in Visits : u # v => finalException'[u] = finalException[u]
      /\ \A p : InEvent(p)' <=> InEvent(p)
      /\ UNCHANGED <<cachedException, pathError, stage, outcome>>
      /\ InEvent(v[1])
  BY VisitFrame, Active
<1>2. \A u \in Visits : Thrown(u)' = Thrown(u)
  BY <1>1 DEF Thrown
<1>3. FailuresKept /\ TasksTold
  BY DEF ErrorsTold
<1>4. ASSUME finalException'[v] # None =>
               pc'[v] \in PastWaiting /\ finalException'[v] = Thrown(v) /\ Thrown(v).kind # "continue"
      PROVE  FailuresKept'
  BY <1>1, <1>2, <1>3, <1>4 DEF FailuresKept, PastWaiting
<1>5. CASE Rethrow(v)
  <2>1. finalException'[v] = Thrown(v) /\ pc'[v] = "fail" /\ Thrown(v).kind # "continue"
    BY <1>5 DEF Rethrow, Goto, Shape
  <2>2. FailuresKept'
    BY <1>4, <2>1 DEF PastWaiting
  <2> QED
    BY <1>3, <1>5, <2>2, TasksOfRethrow DEF ErrorsTold
<1>6. CASE ~Rethrow(v)
  <2>1. finalException' = finalException
    BY <1>6 DEF VisitStep, DoWork, Continue, Complete, Reject, Tolerate, SetFailed, SkipNext,
                Count, Finish, Announce
  <2>2. taskException' = taskException
    BY <1>3, <1>6, TasksOfAnnounce DEF VisitStep, DoWork, Continue, Complete, Reject, Tolerate,
                SetFailed, SkipNext, Count, Finish
  <2>3. TasksTold'
    BY <1>1, <1>3, <2>1, <2>2, TasksSame
  <2>4. pc[v] \in PastWaiting => pc'[v] \in PastWaiting
    <3>1. CASE SkipNext(v)
      <4>1. PICK j \in (v[2] + 1)..Size(v[1]) :
              pc' = [pc EXCEPT ![<<v[1], j>>] = "skipped",
                               ![v] = IF j = Size(v[1]) THEN "count" ELSE @]
        BY <3>1 DEF SkipNext
      <4>2. <<v[1], j>> # v /\ <<v[1], j>> \in Visits /\ pc[v] = "leave"
        BY <3>1, <4>1, PlaceFacts DEF SkipNext
      <4>3. pc'[v] \in {"count", "leave"}
        BY <4>1, <4>2 DEF Shape
      <4> QED
        BY <4>3 DEF PastWaiting
    <3>2. CASE DoWork(v) \/ Continue(v) \/ Complete(v) \/ Reject(v) \/ Tolerate(v)
      BY <3>2 DEF DoWork, Continue, Complete, Reject, Tolerate, Released, PastWaiting
    <3>3. CASE SetFailed(v) \/ Count(v) \/ Finish(v) \/ Announce(v)
      BY <3>3 DEF SetFailed, Count, Finish, Announce, Goto, Shape, PastWaiting
    <3> QED
      BY <1>6, <3>1, <3>2, <3>3 DEF VisitStep
  <2>5. FailuresKept'
    BY <1>3, <1>4, <2>1, <2>4 DEF FailuresKept
  <2> QED
    BY <2>3, <2>5 DEF ErrorsTold
<1> QED
  BY <1>5, <1>6

LEMMA ErrorsStep ==
  ASSUME Shape, Order, PathsCounted, Stages, ErrorsTold, WorkersOnce, [Next]_vars
  PROVE  ErrorsTold'
<1>0. FailuresKept /\ TasksTold
  BY DEF ErrorsTold
<1>1. CASE BeginEvent
  <2>1. \A v \in Visits : finalException'[v] = None
    BY <1>1, QuietAtBegin DEF BeginEvent, visitVars
  <2>2. ~Ended(TRUE)' /\ ~Ended(FALSE)'
    BY <2>1 DEF Ended
  <2>3. /\ taskException'["pathsDone"] = None /\ taskException'["allPathsDone"] = None
        /\ ~pathError'.run /\ pathError'.exception = None /\ stage' = "open"
    BY <1>1 DEF BeginEvent, NotRun
  <2> QED
    BY <2>1, <2>2, <2>3 DEF ErrorsTold, FailuresKept, TasksTold
<1>2. CASE LaunchPath
  <2>1. PICK p \in Paths :
          /\ ~InEvent(p) /\ \A q : InEvent(q)' <=> InEvent(q) \/ q = p
          /\ \A v \in Visits : IF v[1] = p THEN finalException'[v] = None
                               ELSE pc'[v] = pc[v] /\ finalException'[v] = finalException[v]
          /\ UNCHANGED <<workerVars, taskException, pathError, stage, outcome>>
    BY <1>2, LaunchForm
  <2>2. \A v \in Visits : finalException'[v] = finalException[v]
    BY <2>1 DEF Stages
  <2>3. \A v \in Visits : Thrown(v)' = Thrown(v)
    BY <2>1 DEF Thrown, workerVars
  <2>4. FailuresKept'
    BY <1>0, <2>1, <2>2, <2>3 DEF FailuresKept
  <2> QED
    BY <1>0, <2>1, <2>2, <2>4, TasksSame DEF ErrorsTold
<1>3. ASSUME UNCHANGED <<launched, pc, finalException>>,
             \A u \in Visits : InEvent(u[1]) /\ pc[u] \in PastWaiting => Thrown(u)' = Thrown(u)
      PROVE  FailuresKept'
  <2>1. \A p : InEvent(p)' <=> InEvent(p)
    BY <1>3, InEventFacts DEF Shape
  <2> QED
    BY <1>0, <1>3, <2>1 DEF FailuresKept
<1>4. CASE FinishedPaths
  <2>1. /\ ~pathError.run /\ stage = "open"
        /\ UNCHANGED <<launched, pc, finalException, cachedException, stage, outcome>>
    BY <1>4 DEF FinishedPaths, visitVars
  <2>2. FailuresKept'
    BY <1>3, <2>1 DEF Thrown
  <2>3. (Ended(TRUE)' <=> Ended(TRUE)) /\ (Ended(FALSE)' <=> Ended(FALSE))
    BY <2>1 DEF Ended
  <2>4. /\ taskException'["pathsDone"] = taskException["pathsDone"]
        /\ taskException'["allPathsDone"] =
             IF taskException["allPathsDone"] = None THEN taskException["pathsDone"]
             ELSE taskException["allPathsDone"]
        /\ pathError' = [run |-> TRUE, exception |-> taskException["pathsDone"]]
    <3>1. ~(taskException["pathsDone"] # None /\ taskException["pathsDone"].kind = "continue")
      BY <1>0 DEF TasksTold
    <3> QED
      BY <1>4, <3>1 DEF FinishedPaths, Shape, EndNames
  <2>5. pathError'.run /\ pathError'.exception = taskException["pathsDone"]
    BY <2>4
  <2>6. TasksTold'
    BY <1>0, <2>1, <2>3, <2>4, <2>5 DEF TasksTold
  <2> QED
    BY <2>2, <2>6 DEF ErrorsTold
<1>5. CASE EndEvent
  <2>1. /\ UNCHANGED <<launched, pc, finalException, cachedException, taskException, pathError>>
        /\ outcome' = IF pathError.exception # None THEN pathError.exception
                      ELSE taskException["allPathsDone"]
    BY <1>5 DEF EndEvent, workerVars, visitVars
  <2>2. FailuresKept'
    BY <1>3, <2>1 DEF Thrown
  <2>3. (Ended(TRUE)' <=> Ended(TRUE)) /\ (Ended(FALSE)' <=> Ended(FALSE))
    BY <2>1 DEF Ended
  <2>4. TasksTold'
    BY <1>0, <2>1, <2>3 DEF TasksTold
  <2> QED
    BY <2>2, <2>4 DEF ErrorsTold
<1>6. CASE AtRest \/ UNCHANGED vars
  <2>1. UNCHANGED <<launched, pc, finalException, cachedException, taskException, pathError, stage, outcome>>
    BY <1>6 DEF AtRest, vars, workerVars, visitVars, eventVars
  <2>2. FailuresKept'
    BY <1>3, <2>1 DEF Thrown
  <2> QED
    BY <1>0, <2>1, <2>2, TasksSame DEF ErrorsTold
<1>7. ASSUME NEW m \in Modules, WorkerStep(m) PROVE ErrorsTold'
  <2>1. UNCHANGED <<launched, pc, finalException, taskException, pathError, stage, outcome>>
    BY <1>7 DEF WorkerStep, PrefetchFailed, RunModule, WorkerDone, Result, visitVars, eventVars
  <2>2. \A u \in Visits : InEvent(u[1]) /\ pc[u] \in PastWaiting => Thrown(u)' = Thrown(u)
    <3>1. CASE WorkerDone(m)
      BY <3>1 DEF WorkerDone, Thrown
    <3>2. CASE running[m] = "prefetch"
      <4>1. \A u \in Visits : InEvent(u[1]) /\ pc[u] \in PastWaiting => WorkerOf(u) # m
        BY <3>2, NobodyPast DEF VisitsOf
      <4>2. \A n \in Modules : n # m => cachedException'[n] = cachedException[n]
        BY <1>7 DEF WorkerStep, PrefetchFailed, RunModule, WorkerDone, Result, Shape
      <4> QED
        BY <4>1, <4>2, PlaceFacts DEF Thrown
    <3> QED
      BY <1>7, <3>1, <3>2 DEF WorkerStep, PrefetchFailed, RunModule, Prefetched
  <2>3. FailuresKept'
    BY <1>3, <2>1, <2>2
  <2> QED
    BY <1>0, <2>1, <2>3, TasksSame DEF ErrorsTold
<1> QED
  BY <1>1, <1>2, <1>4, <1>5, <1>6, <1>7, ErrorsOfVisit DEF Next

-----------------------------------------------------------------------------
(* Root causes.                                                            *)

LEMMA LeftFacts ==
  ASSUME NEW p \in Paths
  PROVE  /\ LeftByException(p) <=> \E w \in PlacesOf(p) : finalException[w] # None /\ StartsNext(w)
         /\ LeftByException(p)' <=> \E w \in PlacesOf(p) : finalException'[w] # None /\ StartsNext(w)
<1>1. \A i \in 1..Size(p) : <<p, i>> \in PlacesOf(p)
  BY PlaceFacts DEF PlacesOf
<1>2. \A w \in PlacesOf(p) : w[2] \in 1..Size(p) /\ w = <<p, w[2]>>
  BY PlaceFacts DEF PlacesOf
<1>3. ASSUME NEW f
      PROVE  (\E i \in 1..Size(p) : f[<<p, i>>] # None /\ StartsNext(<<p, i>>)) <=>
             (\E w \in PlacesOf(p) : f[w] # None /\ StartsNext(w))
  BY <1>1, <1>2
<1> QED
  BY <1>3 DEF LeftByException

(* What was not made stays so, and the paths that skipped it have.         *)
SkippedStays ==
  /\ \A m \in Modules : runs'[m] = 0 => runs[m] = 0
  /\ \A v \in Visits : InEvent(v[1]) /\ pc[v] = "skipped" => InEvent(v[1])' /\ pc'[v] = "skipped"

LEMMA SkippedForStays ==
  ASSUME SkippedStays, NEW e, SkippedFor(e)
  PROVE  e # None => \A m \in Needs[e.by] \cap Modules : runs'[m] = 0 =>
                       \A v \in VisitsOf(m) : InEvent(v[1])' /\ pc'[v] = "skipped"
BY DEF SkippedStays, SkippedFor, VisitsOf

(* An exception that is passed on, or kept, ...                            *)
LEMMA SkippedForOld ==
  ASSUME SkippedStays, CausesSkipped,
         \A x \in Modules : cachedException'[x] = None \/ \E y \in Modules : cachedException'[x] = cachedException[y],
         \/ taskException'["pathsDone"] \in {None, taskException["pathsDone"]}
         \/ \E y \in Modules : taskException'["pathsDone"] = cachedException[y]
  PROVE  /\ \A x \in Modules : SkippedFor(cachedException[x])'
         /\ SkippedFor(taskException["pathsDone"])'
<1>1. ASSUME NEW x \in Modules PROVE SkippedFor(cachedException[x])'
  <2>1. PICK e : e = cachedException'[x]
    OBVIOUS
  <2>2. e # None => SkippedFor(e)
    BY <2>1 DEF CausesSkipped
  <2>3. e # None => \A m \in Needs[e.by] \cap Modules : runs'[m] = 0 =>
                      \A v \in VisitsOf(m) : InEvent(v[1])' /\ pc'[v] = "skipped"
    BY <2>2, SkippedForStays
  <2> QED
    BY <2>1, <2>3 DEF SkippedFor, VisitsOf
<1>2. SkippedFor(taskException["pathsDone"])'
  <2>1. PICK e : e = taskException'["pathsDone"]
    OBVIOUS
  <2>2. e # None => SkippedFor(e)
    BY <2>1 DEF CausesSkipped
  <2>3. e # None => \A m \in Needs[e.by] \cap Modules : runs'[m] = 0 =>
                      \A v \in VisitsOf(m) : InEvent(v[1])' /\ pc'[v] = "skipped"
    BY <2>2, SkippedForStays
  <2> QED
    BY <2>1, <2>3 DEF SkippedFor, VisitsOf
<1> QED
  BY <1>1, <1>2

(* ... and one that a module throws: what it needed was done, without an   *)
(* exception.                                                              *)
LEMMA SkippedForThrown ==
  ASSUME Shape, WorkersOnce, NEW m \in Modules, Prefetched(m), NeedsFailed(m) = {},
         NEW x \in Needs[m] \cap Modules, runs[x] = 0
  PROVE  \A v \in VisitsOf(x) : InEvent(v[1]) /\ pc[v] = "skipped"
<1>1. done[x]
  BY DEF Prefetched
<1>2. cachedException[x] = None
  BY DEF NeedsFailed
<1>3. ~(workStarted[x] /\ running[x] = "idle")
  BY <1>2 DEF WorkersOnce, HasResult
<1>4. \A v \in VisitsOf(x) : Skipped(v)
  BY <1>1, <1>3 DEF WorkersOnce
<1> QED
  BY <1>2, <1>4 DEF Skipped, Thrown, VisitsOf

(* The third part of CausesSkipped.                                        *)
NotLeft ==
  LET e == taskException["pathsDone"] IN
  e # None =>
    \A m \in Needs[e.by] \cap Modules : runs[m] = 0 =>
      ~\E v \in VisitsOf(m) : v[1] \in TrigPaths /\ pc[v] = "skipped" /\ LeftByException(v[1])

LEMMA CausesOfWorker ==
  ASSUME Shape, WorkersOnce, CausesSkipped, NEW m \in Modules, WorkerStep(m)
  PROVE  CausesSkipped'
<1>1. /\ UNCHANGED <<launched, pc, finalException, taskException>>
      /\ \A n \in Modules : n # m => cachedException'[n] = cachedException[n]
  BY DEF WorkerStep, PrefetchFailed, RunModule, WorkerDone, Result, visitVars, eventVars, Shape
<1>2. \A p : InEvent(p)' <=> InEvent(p)
  BY <1>1, InEventFacts DEF Shape
<1>3. SkippedStays
  <2>1. \A n \in Modules : runs'[n] = 0 => runs[n] = 0
    BY DEF WorkerStep, PrefetchFailed, RunModule, WorkerDone, Shape
  <2> QED
    BY <1>1, <1>2, <2>1 DEF SkippedStays
<1>4. NotLeft'
  <2>1. \A v \in Visits : v[1] \in Paths /\ (LeftByException(v[1])' <=> LeftByException(v[1]))
    BY <1>1, PlaceFacts, LeftFacts
  <2> QED
    BY <1>1, <1>3, <2>1 DEF CausesSkipped, NotLeft, SkippedStays, VisitsOf
<1>5. CASE WorkerDone(m) \/ PrefetchFailed(m)
  <2>1. \A x \in Modules : \E y \in Modules : cachedException'[x] = cachedException[y]
    <3>1. CASE WorkerDone(m)
      BY <3>1 DEF WorkerDone
    <3>2. CASE PrefetchFailed(m)
      <4>1. PICK e \in NeedsFailed(m) : Result(m, "Exception", e)
        BY <3>2 DEF PrefetchFailed
      <4>2. cachedException'[m] = e /\ \E y \in Modules : e = cachedException[y]
        BY <4>1 DEF Result, Shape, NeedsFailed
      <4> QED
        BY <1>1, <4>2
    <3> QED
      BY <1>5, <3>1, <3>2
  <2>2. /\ \A x \in Modules : SkippedFor(cachedException[x])'
        /\ SkippedFor(taskException["pathsDone"])'
    BY <1>1, <1>3, <2>1, SkippedForOld
  <2> QED
    BY <1>4, <2>2 DEF CausesSkipped, NotLeft
<1>6. CASE RunModule(m)
  <2>1. PICK e : e = cachedException'[m] /\ (e = None \/ e.by = m)
    <3>1. PICK s, e : Result(m, s, e) /\ (e = None \/ e.by = m)
      <4>1. \A k : [by |-> m, kind |-> k].by = m
        OBVIOUS
      <4> QED
        BY <1>6, <4>1 DEF RunModule
    <3>2. cachedException'[m] = e
      BY <3>1 DEF Result, Shape
    <3> QED
      BY <3>1, <3>2
  <2>2. e # None => \A x \in Needs[e.by] \cap Modules : runs'[x] = 0 =>
                      \A v \in VisitsOf(x) : InEvent(v[1])' /\ pc'[v] = "skipped"
    <3>1. Prefetched(m) /\ NeedsFailed(m) = {}
      BY <1>6 DEF RunModule
    <3> QED
      BY <1>1, <1>2, <1>3, <2>1, <3>1, SkippedForThrown DEF SkippedStays
  <2>3. ASSUME NEW x \in Modules PROVE SkippedFor(cachedException[x])'
    <3>1. CASE x = m
      BY <2>1, <2>2, <3>1 DEF SkippedFor, VisitsOf
    <3>2. CASE x # m
      <4>1. PICK f : f = cachedException[x] /\ f = cachedException'[x]
        BY <1>1, <3>2
      <4>2. SkippedFor(f)
        BY <4>1 DEF CausesSkipped
      <4>3. f # None => \A n \in Needs[f.by] \cap Modules : runs'[n] = 0 =>
                          \A v \in VisitsOf(n) : InEvent(v[1])' /\ pc'[v] = "skipped"
        BY <1>3, <4>2, SkippedForStays
      <4> QED
        BY <4>1, <4>3 DEF SkippedFor, VisitsOf
    <3> QED
      BY <3>1, <3>2
  <2>4. SkippedFor(taskException["pathsDone"])'
    <3>1. PICK f : f = taskException["pathsDone"] /\ f = taskException'["pathsDone"]
      BY <1>1
    <3>2. SkippedFor(f)
      BY <3>1 DEF CausesSkipped
    <3>3. f # None => \A n \in Needs[f.by] \cap Modules : runs'[n] = 0 =>
                        \A v \in VisitsOf(n) : InEvent(v[1])' /\ pc'[v] = "skipped"
      BY <1>3, <3>2, SkippedForStays
    <3> QED
      BY <3>1, <3>3 DEF SkippedFor, VisitsOf
  <2> QED
    BY <1>4, <2>3, <2>4 DEF CausesSkipped, NotLeft
<1> QED
  BY <1>5, <1>6 DEF WorkerStep

(* A path that is left is not left by an exception afterwards: nobody is   *)
(* waiting on it for a place that ends a batch.                            *)
LEMMA LeftOnce ==
  ASSUME Shape, Order, NEW v \in Visits, VisitStep(v), NEW u \in Visits, pc[u] = "skipped",
         LeftByException(u[1])'
  PROVE  LeftByException(u[1])
<1>1. u[1] \in Paths
  BY PlaceFacts
<1>2. PICK w \in PlacesOf(u[1]) : finalException'[w] # None /\ StartsNext(w)
  BY <1>1, LeftFacts
<1>3. CASE finalException'[w] = finalException[w]
  BY <1>1, <1>2, <1>3, LeftFacts
<1>4. CASE finalException'[w] # finalException[w]
  <2>1. w = v /\ Rethrow(v)
    BY <1>2, <1>4 DEF PlacesOf, VisitStep, DoWork, Continue, Complete, Reject, Tolerate, Rethrow,
          SetFailed, SkipNext, Count, Finish, Announce, Shape
  <2>2. pc[v] = "waiting" /\ u[1] = v[1] /\ StartsNext(v)
    BY <1>2, <2>1 DEF Rethrow, Released, PlacesOf
  <2>3. u[2] # v[2]
    BY <2>2, PlaceFacts
  <2>4. u \in Later(v) \/ v \in Later(u)
    BY <2>2, <2>3, PlaceFacts DEF Later
  <2> QED
    BY <2>2, <2>4 DEF Order
<1> QED
  BY <1>3, <1>4

LEMMA CausesOfVisit ==
  ASSUME Shape, Order, PathsCounted, Stages, ErrorsTold, CausesSkipped, NEW v \in Visits, VisitStep(v)
  PROVE  CausesSkipped'
<1>1. /\ pc[v] \notin Quiet
      /\ \A u \in Visits : u # v => pc'[u] = pc[u] \/ pc[u] = "none"
      /\ \A p : InEvent(p)' <=> InEvent(p)
      /\ UNCHANGED <<cachedException, runs>>
  BY VisitFrame
<1>2. SkippedStays
  BY <1>1 DEF SkippedStays, Quiet
<1>3. \/ taskException'["pathsDone"] = taskException["pathsDone"]
      \/ /\ taskException["pathsDone"] = None
         /\ \E y \in Modules : taskException'["pathsDone"] = cachedException[y]
  <2>1. CASE Rethrow(v)
    <3>1. WorkerOf(v) \in Modules /\ Tell(v[1], cachedException[WorkerOf(v)])
      BY <2>1, PlaceFacts DEF Rethrow, Thrown
    <3> QED
      BY <3>1 DEF Tell, Shape, EndNames
  <2>2. CASE Announce(v)
    BY <2>2, TasksOfAnnounce DEF ErrorsTold
  <2> QED
    BY <2>1, <2>2 DEF VisitStep, DoWork, Continue, Complete, Reject, Tolerate, SetFailed, SkipNext,
                      Count, Finish
<1>4. /\ \A x \in Modules : SkippedFor(cachedException[x])'
      /\ SkippedFor(taskException["pathsDone"])'
  <2>1. \A x \in Modules : \E y \in Modules : cachedException'[x] = cachedException[y]
    BY <1>1
  <2> QED
    BY <1>2, <1>3, <2>1, SkippedForOld
<1>5. NotLeft'
  <2>1. PICK e : e = taskException'["pathsDone"]
    OBVIOUS
  <2>2. SUFFICES ASSUME e # None, NEW m \in Needs[e.by] \cap Modules, runs'[m] = 0,
                        NEW u \in VisitsOf(m), u[1] \in TrigPaths, LeftByException(u[1])'
                 PROVE  FALSE
    BY <2>1 DEF NotLeft, VisitsOf
  <2>3. SkippedFor(e)
    BY <1>3, <2>1 DEF CausesSkipped
  <2>4. u \in Visits /\ pc[u] = "skipped"
    BY <1>1, <2>2, <2>3 DEF SkippedFor, VisitsOf
  <2>5. LeftByException(u[1])
    BY <2>2, <2>4, LeftOnce
  <2>6. taskException["pathsDone"] # None
    <3>1. PICK w \in PlacesOf(u[1]) : finalException[w] # None
      BY <2>4, <2>5, LeftFacts, PlaceFacts
    <3>2. Ended(TRUE)
      BY <2>2, <3>1 DEF Ended, PlacesOf
    <3> QED
      BY <3>2 DEF ErrorsTold, TasksTold
  <2>7. taskException["pathsDone"] = e
    BY <1>3, <2>1, <2>6
  <2> QED
    BY <1>1, <2>2, <2>4, <2>5, <2>7 DEF CausesSkipped
<1> QED
  BY <1>4, <1>5 DEF CausesSkipped, NotLeft

LEMMA CausesStep ==
  ASSUME Shape, Order, PathsCounted, Stages, ErrorsTold, WorkersOnce, CausesSkipped, [Next]_vars
  PROVE  CausesSkipped'
<1>1. CASE BeginEvent
  <2>1. /\ \A x \in Modules : cachedException'[x] = None
        /\ taskException'["pathsDone"] = None
    BY <1>1 DEF BeginEvent
  <2> QED
    BY <2>1 DEF CausesSkipped, SkippedFor
<1>2. CASE LaunchPath
  <2>1. PICK p \in Paths :
          /\ ~InEvent(p) /\ \A q : InEvent(q)' <=> InEvent(q) \/ q = p
          /\ \A v \in Visits : IF v[1] = p THEN pc'[v] \in {"none", "called"} /\ finalException'[v] = None
                               ELSE pc'[v] = pc[v] /\ finalException'[v] = finalException[v]
          /\ UNCHANGED <<workerVars, taskException>>
    BY <1>2, LaunchForm
  <2>2. \A v \in Visits : finalException'[v] = finalException[v]
    BY <2>1 DEF Stages
  <2>3. SkippedStays
    BY <2>1 DEF SkippedStays, workerVars
  <2>4. /\ \A x \in Modules : SkippedFor(cachedException[x])'
        /\ SkippedFor(taskException["pathsDone"])'
    BY <2>1, <2>3, SkippedForOld DEF workerVars
  <2>5. \A v \in Visits : LeftByException(v[1])' <=> LeftByException(v[1])
    <3> SUFFICES ASSUME NEW v \in Visits PROVE LeftByException(v[1])' <=> LeftByException(v[1])
      OBVIOUS
    <3>1. v[1] \in Paths /\ \A w \in PlacesOf(v[1]) : w \in Visits
      BY PlaceFacts DEF PlacesOf
    <3> QED
      BY <2>2, <3>1, LeftFacts
  <2>6. \A v \in Visits : pc'[v] = "skipped" => pc[v] = "skipped"
    BY <2>1
  <2>7. NotLeft'
    BY <2>1, <2>5, <2>6 DEF CausesSkipped, NotLeft, workerVars, VisitsOf
  <2> QED
    BY <2>4, <2>7 DEF CausesSkipped, NotLeft
<1>3. CASE FinishedPaths \/ EndEvent \/ AtRest \/ UNCHANGED vars
  <2>1. /\ UNCHANGED <<launched, pc, finalException, cachedException, runs>>
        /\ taskException'["pathsDone"] = taskException["pathsDone"]
    BY <1>3 DEF FinishedPaths, EndEvent, AtRest, vars, workerVars, visitVars, eventVars, Shape, EndNames
  <2>2. \A p : InEvent(p)' <=> InEvent(p)
    BY <2>1, InEventFacts DEF Shape
  <2>3. SkippedStays
    BY <2>1, <2>2 DEF SkippedStays
  <2>4. /\ \A x \in Modules : SkippedFor(cachedException[x])'
        /\ SkippedFor(taskException["pathsDone"])'
    BY <2>1, <2>3, SkippedForOld
  <2>5. \A v \in Visits : LeftByException(v[1])' <=> LeftByException(v[1])
    BY <2>1, PlaceFacts, LeftFacts
  <2>6. NotLeft'
    BY <2>1, <2>5 DEF CausesSkipped, NotLeft, VisitsOf
  <2> QED
    BY <2>4, <2>6 DEF CausesSkipped, NotLeft
<1> QED
  BY <1>1, <1>2, <1>3, CausesOfWorker, CausesOfVisit DEF Next

-----------------------------------------------------------------------------
(* The theorems.                                                           *)

LEMMA EventInit == Init => EventInv
<1> SUFFICES ASSUME Init PROVE EventInv
  OBVIOUS
<1>1. Shape
  <2>1. 0 \in 0..Len(LaunchOrder) /\ \A p \in Paths : Size(p) \in Nat
    BY LaunchOnce, PlaceFacts
  <2>2. NotRun \in [run : BOOLEAN, exception : MaybeException]
    BY DEF NotRun, MaybeException
  <2> QED
    BY <2>1, <2>2 DEF Init, Shape, States, Labels, MaybeException, EndNames
<1>2. \A v \in Visits : pc[v] = "none" /\ finalException[v] = None
  BY DEF Init
<1>3. launched = 0 /\ \A p : ~InEvent(p)
  BY <1>1, InEventFacts DEF Init, Shape
<1>4. Order
  BY <1>2 DEF Order, Later
<1>5. PathsCounted
  <2>1. \A p \in Paths : Unaccounted(p) = PlacesOf(p)
    BY <1>2 DEF Unaccounted, PlacesOf, Accounted
  <2>2. \A p \in Paths : modulesToRun[p] = Size(p) /\ ~pathDone[p]
    BY DEF Init
  <2> QED
    BY <1>2, <2>1, <2>2, PlacesFinite, PlaceFacts DEF PathsCounted
<1>6. Stages
  BY <1>2, <1>3 DEF Stages, Quiet, Init, NotRun
<1>7. PathsLeftCounted
  BY DEF PathsLeftCounted, Init
<1>8. WorkersOnce
  <2>1. Modules \subseteq Producers
    BY DEF Producers
  <2>2. \A m \in Modules : ~workStarted[m] /\ running[m] = "idle" /\ Untouched(m) /\ ~done[m]
    BY <2>1 DEF Init, Untouched
  <2> QED
    BY <1>3, <2>2 DEF WorkersOnce
<1>9. StatusKept
  <2>1. \A p \in Paths : failedModuleIndex[p] \in 1..Size(p)
    BY PlaceFacts DEF Init
  <2> QED
    BY <1>2, <1>3, <2>1 DEF StatusKept
<1>10. ErrorsTold
  BY <1>2 DEF ErrorsTold, FailuresKept, TasksTold, Ended, Init, NotRun
<1>11. CausesSkipped
  BY DEF CausesSkipped, SkippedFor, Init
<1> QED
  BY <1>1, <1>4, <1>5, <1>6, <1>7, <1>8, <1>9, <1>10, <1>11 DEF EventInv

LEMMA EventStep == EventInv /\ [Next]_vars => EventInv'
BY ShapeStep, OrderStep, CountedStep, StagesStep, LeftStep, WorkersStep, StatusStep, ErrorsStep,
   CausesStep DEF EventInv

LEMMA EventInvariant == Spec => []EventInv
BY EventInit, EventStep, PTL DEF Spec

LEMMA EventTypeOK == EventInv => TypeOK
<1> SUFFICES ASSUME EventInv PROVE TypeOK
  OBVIOUS
<1>1. \A m \in Modules : numberOfPathsLeftToRun[m] \in 0..Cardinality(Paths)
  <2>1. 0 \in 0..Cardinality(Paths)
    BY PathsFinite
  <2> QED
    BY <2>1, LeftFinite DEF EventInv, PathsLeftCounted
<1>2. \A m \in Modules : runs[m] \in 0..1
  BY DEF EventInv, WorkersOnce, Untouched, HasResult
<1>3. \A p \in Paths : failedModuleIndex[p] \in 1..Size(p) /\ modulesToRun[p] \in 0..Size(p)
  BY UnaccountedFinite DEF EventInv, StatusKept, PathsCounted
<1>4. numberOfPathsLeftToRun \in [Modules -> 0..Cardinality(Paths)] /\ runs \in [Modules -> 0..1]
  BY <1>1, <1>2 DEF EventInv, Shape
<1> QED
  BY <1>3, <1>4 DEF EventInv, Shape, TypeOK, Labels, EndNames

(* Every counter of a path and of a worker stays within its bounds: no     *)
(* place of a path is counted twice, and no worker skipped twice on one.   *)
THEOREM TypeInvariant == Spec => []TypeOK
BY EventInvariant, EventTypeOK, PTL

(* A path is done only when all its workers have ended or were skipped,    *)
(* and whoever is released from a worker's list finds a result.            *)
THEOREM ResultsInvariant == Spec => []ResultsAwaited
<1>1. EventInv => ResultsAwaited
  <2> SUFFICES ASSUME EventInv PROVE ResultsAwaited
    OBVIOUS
  <2>1. PathWaitsForAll
    BY DEF EventInv, PathsCounted, PathWaitsForAll
  <2>2. ResultIsReady
    BY ReleasedByResult DEF EventInv, ResultIsReady, HasResult
  <2> QED
    BY <2>1, <2>2 DEF ResultsAwaited
<1> QED
  BY <1>1, EventInvariant, PTL

LEMMA WhenOver ==
  ASSUME EventInv, stage = "over"
  PROVE  /\ pathError.run /\ \A p \in Paths : pathDone[p] /\ InEvent(p)
         /\ \A v \in Visits : pc[v] \in {"ended", "skipped"}
<1>1. /\ pathError.run /\ launched = Len(LaunchOrder) /\ \A p \in Paths : pathDone[p]
  BY DEF EventInv, Stages
<1>2. \A p \in Paths : InEvent(p)
  BY <1>1, InEventFacts DEF EventInv, Shape
<1>3. \A v \in Visits : pc[v] \in {"ended", "skipped"}
  BY <1>1, PlaceFacts DEF EventInv, PathsCounted
<1> QED
  BY <1>1, <1>2, <1>3

(* When the event is over nothing of it is still under way.                *)
THEOREM QuietInvariant == Spec => []QuietWhenOver
<1>1. EventInv => QuietWhenOver
  <2> SUFFICES ASSUME EventInv, stage = "over" PROVE QuietWhenOver
    BY DEF QuietWhenOver
  <2>1. \A p \in Paths : modulesToRun[p] = 0
    <3> SUFFICES ASSUME NEW p \in Paths PROVE modulesToRun[p] = 0
      OBVIOUS
    <3>1. Unaccounted(p) = {}
      BY WhenOver DEF Unaccounted, PlacesOf, Accounted
    <3> QED
      BY <3>1, FS_EmptySet DEF EventInv, PathsCounted
  <2>2. ASSUME NEW m \in Modules
        PROVE  running[m] = "idle" /\ (runs[m] = 0 => ~workStarted[m] \/ cachedException[m] # None)
    <3>1. running[m] = "idle"
      BY WhenOver DEF EventInv, WorkersOnce, VisitsOf
    <3> QED
      BY <3>1 DEF EventInv, WorkersOnce, HasResult
  <2> QED
    BY <2>1, <2>2, WhenOver DEF QuietWhenOver
<1> QED
  BY <1>1, EventInvariant, PTL

(* The status of a path is the same for every order in which its workers   *)
(* finish.                                                                 *)
THEOREM StatusInvariant == Spec => []StatusIndependentOfOrder
<1>1. ASSUME EventInv, stage = "over", NEW p \in Paths
      PROVE  <<pathState[p], failedModuleIndex[p]>> = StatusOf(p)
  <2> DEFINE ran    == {i \in 1..Size(p) : pc[<<p, i>>] # "skipped"}
             threw  == {i \in ran : Thrown(<<p, i>>) # None}
             reject == {i \in ran : ~Accepted(<<p, i>>)}
             first(s) == CHOOSE i \in s : \A j \in s : i <= j
             T == {v \in PlacesOf(p) : Threw(v)}
             R == {v \in PlacesOf(p) : Rejected(v)}
  <2>1. \A v \in PlacesOf(p) : /\ v \in Visits /\ v[2] \in 1..Size(p) /\ v = <<p, v[2]>>
                               /\ pc[v] \in Settled <=> pc[v] # "skipped"
    BY <1>1, WhenOver, PlaceFacts DEF PlacesOf, Settled, PastWaiting
  <2>2. \A i \in 1..Size(p) : <<p, i>> \in PlacesOf(p) /\ <<p, i>>[2] = i
    BY PlaceFacts DEF PlacesOf
  <2>3. \A i : i \in threw <=> i \in 1..Size(p) /\ <<p, i>> \in T
    BY <2>1, <2>2 DEF Threw
  <2>4. \A i : i \in reject <=> i \in 1..Size(p) /\ <<p, i>> \in R
    BY <2>1, <2>2 DEF Rejected
  <2>5. StatusSoFar(p)
    BY <1>1, WhenOver DEF EventInv, StatusKept
  <2>6. ASSUME NEW s \in SUBSET (1..Size(p)), NEW V \in SUBSET PlacesOf(p),
               \A i : i \in s <=> i \in 1..Size(p) /\ <<p, i>> \in V,
               NEW v \in V, FirstOf(v, V)
        PROVE  s # {} /\ first(s) = v[2]
    <3>1. v \in V /\ v \in PlacesOf(p) /\ \A u \in V : v[2] <= u[2]
      BY <2>6 DEF FirstOf
    <3>2. v[2] \in s
      BY <2>1, <2>6, <3>1
    <3>3. ASSUME NEW j \in s PROVE v[2] <= j
      <4>1. <<p, j>> \in V /\ <<p, j>>[2] = j
        BY <2>6, <3>3
      <4>2. v[2] <= <<p, j>>[2]
        BY <3>1, <4>1
      <4> QED
        BY <4>1, <4>2
    <3>4. \A i, j \in 1..Size(p) : i <= j /\ j <= i => i = j
      BY PlaceFacts
    <3> QED
      BY <2>6, <3>2, <3>3, <3>4
  <2>7. T \subseteq PlacesOf(p) /\ R \subseteq PlacesOf(p)
    OBVIOUS
  <2>8. threw \subseteq 1..Size(p) /\ reject \subseteq 1..Size(p)
    OBVIOUS
  <2>9. T = {} => threw = {}
    BY <2>3
  <2>10. R = {} => reject = {}
    BY <2>4
  <2>11. \/ /\ T # {} /\ pathState[p] = "Exception"
            /\ \E v \in T : FirstOf(v, T) /\ failedModuleIndex[p] = v[2]
         \/ /\ T = {} /\ R # {} /\ pathState[p] = "Fail"
            /\ \E v \in R : FirstOf(v, R) /\ failedModuleIndex[p] = v[2]
         \/ /\ T = {} /\ R = {} /\ pathState[p] = "Pass"
            /\ failedModuleIndex[p] = Size(p)
    BY <2>5 DEF StatusSoFar
  <2>12. StatusOf(p) = IF threw # {} THEN <<"Exception", first(threw)>>
                       ELSE IF reject # {} THEN <<"Fail", first(reject)>>
                       ELSE <<"Pass", Size(p)>>
    BY DEF StatusOf
  <2> HIDE DEF threw, reject, first, T, R
  <2>13. CASE T # {}
    <3>1. PICK v \in T : FirstOf(v, T) /\ failedModuleIndex[p] = v[2]
      BY <2>11, <2>13
    <3>2. threw # {} /\ first(threw) = v[2]
      BY <2>3, <2>6, <2>7, <2>8, <3>1
    <3> QED
      BY <2>11, <2>12, <2>13, <3>1, <3>2
  <2>14. CASE T = {} /\ R # {}
    <3>1. PICK v \in R : FirstOf(v, R) /\ failedModuleIndex[p] = v[2]
      BY <2>11, <2>14
    <3>2. reject # {} /\ first(reject) = v[2]
      BY <2>4, <2>6, <2>7, <2>8, <3>1
    <3> QED
      BY <2>9, <2>11, <2>12, <2>14, <3>1, <3>2
  <2>15. CASE T = {} /\ R = {}
    BY <2>9, <2>10, <2>11, <2>12, <2>15
  <2> QED
    BY <2>13, <2>14, <2>15
<1>2. EventInv => StatusIndependentOfOrder
  BY <1>1 DEF StatusIndependentOfOrder
<1> QED
  BY <1>2, EventInvariant, PTL

(* The event fails exactly if an exception ended a path, and what it       *)
(* reports is not the consequence of an exception that left another path.  *)
THEOREM RootCauseInvariant == Spec => []RootCauseReported
<1>1. EventInv => RootCauseReported
  <2> SUFFICES ASSUME EventInv, stage = "over" PROVE RootCauseReported
    BY DEF RootCauseReported
  <2> DEFINE e == taskException["pathsDone"]
  <2>1. /\ e # None <=> Ended(TRUE)
        /\ taskException["allPathsDone"] # None <=> Ended(FALSE) \/ Ended(TRUE)
        /\ outcome = IF e # None THEN e ELSE taskException["allPathsDone"]
    BY WhenOver DEF EventInv, ErrorsTold, TasksTold
  <2>2. Ended(TRUE) \/ Ended(FALSE) <=> \E v \in Visits : finalException[v] # None
    BY DEF Ended
  <2>3. outcome # None <=> \E v \in Visits : finalException[v] # None
    BY <2>1, <2>2
  <2>4. ASSUME outcome # None, NEW m \in Needs[outcome.by] \cap Modules, runs[m] = 0,
               NEW v \in VisitsOf(m), v[1] \in TrigPaths, pc[v] = "skipped", LeftByException(v[1])
        PROVE  FALSE
    <3>1. PICK w \in PlacesOf(v[1]) : finalException[w] # None
      BY <2>4, LeftFacts, PlaceFacts DEF VisitsOf
    <3>2. Ended(TRUE)
      BY <2>4, <3>1 DEF Ended, PlacesOf
    <3>3. outcome = e /\ e # None
      BY <2>1, <3>2
    <3> QED
      BY <2>4, <3>3 DEF EventInv, CausesSkipped
  <2> QED
    BY <2>3, <2>4 DEF RootCauseReported
<1> QED
  BY <1>1, EventInvariant, PTL
=============================================================================
