------------------------------ MODULE EventPaths ------------------------------
(***************************************************************************)
(* One stream processing its events: StreamSchedule::processOneEventAsync  *)
(* starts the paths, a Path runs its workers batch by batch, and a Worker  *)
(* runs its module once per event, after what the module consumes.         *)
(*                                                                         *)
(* A WaitingTaskList is the latch that ResourceLatch specifies and that    *)
(* WaitingTaskList implements: the list of a worker is done, and whoever   *)
(* waits for it is told cached_exception_.  <<p, i>> is the i-th worker of *)
(* path p and names the call of workerFinished() made for it.              *)
(***************************************************************************)
EXTENDS Naturals, Sequences, FiniteSets

CONSTANTS Modules,      \* the workers that are on paths
          TrigPaths, EndPaths,
          LaunchOrder,  \* all the paths, in the order in which they are started
          Module,       \* Module[p]: the sequence of workers of path p
          Concurrent,   \* the places <<p, i>> with runConcurrently()
          Vetoes, Ignores, \* the places with these filter actions
          Filters,      \* modules whose result may be false
          Needs,        \* what each module consumes: products of modules, the
                        \* status of trigger paths, the TriggerResults
          Throws,       \* Throws[m]: the kinds of exception of module m
          Results,      \* the TriggerResults inserter
          None

Paths       == TrigPaths \cup EndPaths
Producers   == Modules \cup TrigPaths \cup {Results}   \* a path names its status inserter
Size(p)     == Len(Module[p])
Visits      == UNION {{p} \X (1..Size(p)) : p \in Paths}
WorkerOf(v) == Module[v[1]][v[2]]
VisitsOf(m) == {v \in Visits : WorkerOf(v) = m}

(* The action table: Rethrow for "own" and for "notFound", which is thrown *)
(* for want of a product; TryToContinue for "continue".                    *)
Kinds      == {"own", "continue", "notFound"}
Exceptions == [by : Modules, kind : Kinds]

(* As ScheduleBuilder makes the paths: filters do not run concurrently. A  *)
(* path without workers is not a Path: StreamSchedule lists it apart.      *)
ASSUME PathAssumption ==
  /\ LaunchOrder \in Seq(Paths) /\ Module \in [Paths -> Seq(Modules) \ {<<>>}]
  /\ Paths = {LaunchOrder[i] : i \in 1..Len(LaunchOrder)}
  /\ Len(LaunchOrder) = Cardinality(Paths)
  /\ Concurrent \cup Vetoes \cup Ignores \subseteq Visits
  /\ \A v \in Concurrent : WorkerOf(v) \in Filters => v \in Ignores
  /\ Vetoes \cap Ignores = {} /\ \A v \in Vetoes : WorkerOf(v) \in Filters
  /\ \A p \in Paths : \A i, j \in 1..Size(p) : Module[p][i] = Module[p][j] => i = j

(* A module is no path, and no exception is not an exception.              *)
ASSUME NamesAssumption ==
  /\ Needs \in [Modules -> SUBSET Producers] /\ Throws \in [Modules -> SUBSET Kinds]
  /\ Modules \cap (Paths \cup {Results}) = {} /\ None \notin Exceptions

VARIABLES launched,        \* how many paths of LaunchOrder were started
          workStarted, workerState, cachedException, numberOfPathsLeftToRun,
          running,         \* where each worker is in running its module
          done,            \* the waiting list of each worker was told doneWaiting()
          pathState, failedModuleIndex, modulesToRun,
          pathDone,        \* and that of each path
          pc,              \* where each workerFinished() is
          finalException,  \* of each workerFinished()
          taskException,   \* what pathsDone and allPathsDone were first told
          pathError,       \* pathsDone was run, and with what exception
          stage,           \* of the event: "idle", "open" or "over"
          outcome,         \* the exception the event ended with
          runs             \* history: how often each module ran for this event

workerVars == <<workStarted, workerState, cachedException, numberOfPathsLeftToRun,
                running, done, runs>>
pathVars   == <<pathState, failedModuleIndex, modulesToRun, pathDone>>
visitVars  == <<pc, finalException>>
eventVars  == <<launched, pathError, stage, outcome>>
vars       == <<workerVars, pathVars, visitVars, taskException, eventVars>>

States == {"Ready", "Pass", "Fail", "Exception"}
MaybeException == Exceptions \cup {None}

TypeOK ==
  /\ launched \in 0..Len(LaunchOrder)
  /\ workStarted \in [Modules -> BOOLEAN]
  /\ workerState \in [Modules -> States]
  /\ cachedException \in [Modules -> MaybeException]
  /\ numberOfPathsLeftToRun \in [Modules -> 0..Cardinality(Paths)]
  /\ running \in [Modules -> {"idle", "prefetch", "announce"}]
  /\ done \in [Producers -> BOOLEAN]
  /\ runs \in [Modules -> 0..1]
  /\ pathState \in [Paths -> States]
  /\ \A p \in Paths : failedModuleIndex[p] \in 1..Size(p) /\ modulesToRun[p] \in 0..Size(p)
  /\ pathDone \in [Paths -> BOOLEAN]
  /\ pc \in [Visits -> {"none", "called", "waiting", "fail", "leave", "count", "finish",
                        "announce", "ended", "skipped"}]
  /\ finalException \in [Visits -> MaybeException]
  /\ taskException \in [{"pathsDone", "allPathsDone"} -> MaybeException]
  /\ pathError \in [run : BOOLEAN, exception : MaybeException]
  /\ stage \in {"idle", "open", "over"}
  /\ outcome \in MaybeException

NotRun == [run |-> FALSE, exception |-> None]

Init ==
  /\ launched = 0
  /\ workStarted = [m \in Modules |-> FALSE]
  /\ workerState = [m \in Modules |-> "Ready"]
  /\ cachedException = [m \in Modules |-> None]
  /\ numberOfPathsLeftToRun = [m \in Modules |-> 0]
  /\ running = [m \in Modules |-> "idle"]
  /\ done = [x \in Producers |-> FALSE]
  /\ runs = [m \in Modules |-> 0]
  /\ pathState = [p \in Paths |-> "Ready"]
  /\ failedModuleIndex = [p \in Paths |-> Size(p)]
  /\ modulesToRun = [p \in Paths |-> Size(p)]
  /\ pathDone = [p \in Paths |-> FALSE]
  /\ pc = [v \in Visits |-> "none"]
  /\ finalException = [v \in Visits |-> None]
  /\ taskException = [t \in {"pathsDone", "allPathsDone"} |-> None]
  /\ pathError = NotRun
  /\ stage = "idle"
  /\ outcome = None

Goto(v, label) == pc' = [pc EXCEPT ![v] = label]

(* WaitingTask::dependentTaskFailed(): the first exception is kept.        *)
Tell(p, e) ==
  LET t == IF p \in TrigPaths THEN "pathsDone" ELSE "allPathsDone"
  IN  taskException' = [taskException EXCEPT ![t] = IF @ = None THEN e ELSE @]

-----------------------------------------------------------------------------
(* StreamSchedule: the event begins, with every worker reset ...           *)

BeginEvent ==
  /\ stage # "open" /\ outcome = None
  /\ stage' = "open"
  /\ workStarted' = [m \in Modules |-> FALSE]
  /\ workerState' = [m \in Modules |-> "Ready"]
  /\ cachedException' = [m \in Modules |-> None]
  /\ numberOfPathsLeftToRun' = [m \in Modules |-> Cardinality(VisitsOf(m))]
  /\ done' = [x \in Producers |-> FALSE]
  /\ runs' = [m \in Modules |-> 0]
  /\ taskException' = [t \in {"pathsDone", "allPathsDone"} |-> None]
  /\ pathError' = NotRun
  /\ launched' = 0
  /\ UNCHANGED <<running, pathVars, visitVars, outcome>>

(* Places that runNextWorkerAsync(i) starts: up to the first worker that   *)
(* does not run concurrently, and from the last one to the first.          *)
Batch(p, i) == {<<p, j>> : j \in {k \in i..Size(p) :
                                     \A l \in i..(k - 1) : <<p, l>> \in Concurrent}}

LoopsOver == \A i \in 1..launched : \A v \in Batch(LaunchOrder[i], 1) : pc[v] # "called"

(* ... and the paths are started in turn: processEventUsingPathAsync()     *)
LaunchPath ==
  LET p == LaunchOrder[launched + 1] IN
  /\ stage = "open" /\ launched < Len(LaunchOrder) /\ LoopsOver
  /\ launched' = launched + 1
  /\ modulesToRun' = [modulesToRun EXCEPT ![p] = Size(p)]
  /\ pathState' = [pathState EXCEPT ![p] = "Pass"]
  /\ failedModuleIndex' = [failedModuleIndex EXCEPT ![p] = Size(p)]
  /\ pathDone' = [pathDone EXCEPT ![p] = FALSE]
  /\ pc' = [v \in Visits |-> IF v[1] # p THEN pc[v]
                             ELSE IF v \in Batch(p, 1) THEN "called" ELSE "none"]
  /\ finalException' = [v \in Visits |-> IF v[1] = p THEN None ELSE finalException[v]]
  /\ UNCHANGED <<workerVars, taskException, pathError, stage, outcome>>

-----------------------------------------------------------------------------
(* Mutant: workStarted_ is set but not compared.                           *)
DoWorkAgain(v) ==
  LET m == WorkerOf(v) IN
  /\ pc[v] = "called"
  /\ \A u \in Batch(v[1], v[2]) \ {v} : pc[u] # "called"
  /\ workStarted' = [workStarted EXCEPT ![m] = TRUE]
  /\ running' = [running EXCEPT ![m] = "prefetch"]
  /\ Goto(v, "waiting")
  /\ UNCHANGED <<workerState, cachedException, numberOfPathsLeftToRun, done, runs,
                 pathVars, finalException, taskException, eventVars>>

(* Worker::doWorkAsync(): the first caller for this event starts the work; *)
(* every caller's task is added to waitingTasks_.                          *)
DoWork(v) ==
  LET m == WorkerOf(v) IN
  /\ pc[v] = "called"
  /\ \A u \in Batch(v[1], v[2]) \ {v} : pc[u] # "called"
  /\ workStarted' = [workStarted EXCEPT ![m] = TRUE]
  /\ running' = [running EXCEPT ![m] = IF workStarted[m] THEN @ ELSE "prefetch"]
  /\ Goto(v, "waiting")
  /\ UNCHANGED <<workerState, cachedException, numberOfPathsLeftToRun, done, runs,
                 pathVars, finalException, taskException, eventVars>>

Prefetched(m) == running[m] = "prefetch" /\ \A x \in Needs[m] : done[x]
NeedsFailed(m) == {cachedException[x] : x \in Needs[m] \cap Modules} \ {None}
NotProduced(m) == \E x \in Needs[m] \cap Modules : runs[x] = 0

Result(m, s, e) ==
  /\ workerState' = [workerState EXCEPT ![m] = s]
  /\ cachedException' = [cachedException EXCEPT ![m] = e]
  /\ running' = [running EXCEPT ![m] = "announce"]
  /\ UNCHANGED <<workStarted, numberOfPathsLeftToRun, done, pathVars, visitVars,
                 taskException, eventVars>>

(* runModuleAfterAsyncPrefetch(): what the module consumes failed, ...     *)
PrefetchFailed(m) ==
  /\ Prefetched(m)
  /\ \E e \in NeedsFailed(m) : Result(m, "Exception", e)
  /\ UNCHANGED runs

(* ... or the module is run, and may itself throw.                         *)
RunModule(m) ==
  /\ Prefetched(m) /\ NeedsFailed(m) = {}
  /\ \/ Result(m, "Pass", None)
     \/ m \in Filters /\ Result(m, "Fail", None)
     \/ \E k \in Throws[m] : Result(m, "Exception", [by |-> m, kind |-> k])
     \/ NotProduced(m) /\ Result(m, "Exception", [by |-> m, kind |-> "notFound"])
  /\ runs' = [runs EXCEPT ![m] = @ + 1]

(* waitingTasks_.doneWaiting()                                             *)
WorkerDone(m) ==
  /\ running[m] = "announce"
  /\ running' = [running EXCEPT ![m] = "idle"]
  /\ done' = [done EXCEPT ![m] = TRUE]
  /\ UNCHANGED <<workStarted, workerState, cachedException, numberOfPathsLeftToRun, runs,
                 pathVars, visitVars, taskException, eventVars>>

(* Mutant: the first path to skip the worker releases those who wait.      *)
SkipWorkerEarly(m) ==
  /\ numberOfPathsLeftToRun' = [numberOfPathsLeftToRun EXCEPT ![m] = @ - 1]
  /\ done' = [done EXCEPT ![m] = TRUE]
  /\ UNCHANGED <<workStarted, workerState, cachedException, running, runs>>

(* Worker::skipOnPath(): the last path to skip the worker releases those   *)
(* who wait for it.                                                        *)
SkipWorker(m) ==
  /\ numberOfPathsLeftToRun' = [numberOfPathsLeftToRun EXCEPT ![m] = @ - 1]
  /\ done' = [done EXCEPT ![m] = @ \/ numberOfPathsLeftToRun[m] = 1]
  /\ UNCHANGED <<workStarted, workerState, cachedException, running, runs>>

-----------------------------------------------------------------------------
(* Path::workerFinished()                                                  *)

Released(v) == pc[v] = "waiting" /\ done[WorkerOf(v)]
Thrown(v)   == cachedException[WorkerOf(v)]

(* checkResultsOfRunWorker(): a vetoed filter counts with its negation.    *)
Accepted(v) == v \in Ignores \/ ((workerState[WorkerOf(v)] = "Pass") <=> v \notin Vetoes)

ShouldContinue(v) == Thrown(v) = None /\ Accepted(v)
StartsNext(v) == v \notin Concurrent /\ v[2] < Size(v[1])

(* The path goes on with its next batch.                                   *)
Continue(v) ==
  LET p == v[1] IN
  /\ Released(v) /\ ShouldContinue(v) /\ StartsNext(v)
  /\ modulesToRun' = [modulesToRun EXCEPT ![p] = @ - 1]
  /\ pc' = [u \in Visits |-> IF u = v THEN "ended"
                             ELSE IF u \in Batch(p, v[2] + 1) THEN "called" ELSE pc[u]]
  /\ UNCHANGED <<workerVars, pathState, failedModuleIndex, pathDone, finalException,
                 taskException, eventVars>>

Complete(v) ==
  /\ Released(v) /\ ShouldContinue(v) /\ ~StartsNext(v)
  /\ Goto(v, "count")
  /\ UNCHANGED <<workerVars, pathVars, finalException, taskException, eventVars>>

Reject(v) ==
  /\ Released(v) /\ Thrown(v) = None /\ ~Accepted(v)
  /\ Goto(v, "fail")
  /\ UNCHANGED <<workerVars, pathVars, finalException, taskException, eventVars>>

(* handleWorkerFailure() did not rethrow: TryToContinue.                   *)
Tolerate(v) ==
  /\ Released(v) /\ Thrown(v) # None
  /\ Thrown(v).kind = "continue"
  /\ SkipWorker(WorkerOf(v))
  /\ Goto(v, "fail")
  /\ UNCHANGED <<pathVars, finalException, taskException, eventVars>>

(* Mutant: no presetTaskAsFailed(), the schedule is told by finished().    *)
RethrowLate(v) ==
  /\ Released(v) /\ Thrown(v) # None
  /\ Thrown(v).kind # "continue"
  /\ finalException' = [finalException EXCEPT ![v] = Thrown(v)]
  /\ Goto(v, "fail")
  /\ UNCHANGED <<workerVars, pathVars, taskException, eventVars>>

(* It did: presetTaskAsFailed() tells the schedule at once.                *)
Rethrow(v) ==
  /\ Released(v) /\ Thrown(v) # None
  /\ Thrown(v).kind # "continue"
  /\ finalException' = [finalException EXCEPT ![v] = Thrown(v)]
  /\ Tell(v[1], Thrown(v))
  /\ Goto(v, "fail")
  /\ UNCHANGED <<workerVars, pathVars, eventVars>>

(* Mutant: the last worker to fail decides.                                *)
SetFailedLast(v) ==
  /\ pc[v] = "fail"
  /\ pathState' = [pathState EXCEPT ![v[1]] = IF Thrown(v) # None THEN "Exception" ELSE "Fail"]
  /\ failedModuleIndex' = [failedModuleIndex EXCEPT ![v[1]] = v[2]]
  /\ Goto(v, IF StartsNext(v) THEN "leave" ELSE "count")
  /\ UNCHANGED <<workerVars, modulesToRun, pathDone, finalException, taskException, eventVars>>

(* threadsafe_setFailedModuleInfo()                                        *)
SetFailed(v) ==
  LET p == v[1]
      lowest == IF v[2] < failedModuleIndex[p] THEN v[2] ELSE failedModuleIndex[p]
  IN
  /\ pc[v] = "fail"
  /\ IF Thrown(v) # None
       THEN /\ pathState' = [pathState EXCEPT ![p] = "Exception"]
            /\ failedModuleIndex' = [failedModuleIndex EXCEPT ![p] =
                                       IF pathState[p] = "Exception" THEN lowest ELSE v[2]]
       ELSE IF pathState[p] # "Exception"
       THEN /\ pathState' = [pathState EXCEPT ![p] = "Fail"]
            /\ failedModuleIndex' = [failedModuleIndex EXCEPT ![p] = lowest]
       ELSE UNCHANGED <<pathState, failedModuleIndex>>
  /\ Goto(v, IF StartsNext(v) THEN "leave" ELSE "count")
  /\ UNCHANGED <<workerVars, modulesToRun, pathDone, finalException, taskException, eventVars>>

(* The path is left early: its other workers are skipped one by one.       *)
SkipNext(v) ==
  /\ pc[v] = "leave"
  /\ \E j \in (v[2] + 1)..Size(v[1]) :
       LET p == v[1] IN
       /\ pc[<<p, j>>] # "skipped"
       /\ \A i \in (v[2] + 1)..(j - 1) : pc[<<p, i>>] = "skipped"
       /\ modulesToRun' = [modulesToRun EXCEPT ![p] = @ - 1]
       /\ SkipWorker(Module[p][j])
       /\ pc' = [pc EXCEPT ![<<p, j>>] = "skipped", ![v] = IF j = Size(p) THEN "count" ELSE @]
  /\ UNCHANGED <<pathState, failedModuleIndex, pathDone, finalException, taskException, eventVars>>

Count(v) ==
  LET p == v[1] IN
  /\ pc[v] = "count"
  /\ modulesToRun' = [modulesToRun EXCEPT ![p] = @ - 1]
  /\ Goto(v, IF modulesToRun[p] = 1 THEN "finish" ELSE "ended")
  /\ UNCHANGED <<workerVars, pathState, failedModuleIndex, pathDone, finalException,
                 taskException, eventVars>>

(* finished(): the path's status is inserted, ...                          *)
Finish(v) ==
  /\ pc[v] = "finish"
  /\ done' = [x \in Producers |-> done[x] \/ x = v[1]]
  /\ Goto(v, "announce")
  /\ UNCHANGED <<workStarted, workerState, cachedException, numberOfPathsLeftToRun, running,
                 runs, pathVars, finalException, taskException, eventVars>>

(* ... and the schedule is told, with the exception of this worker.        *)
Announce(v) ==
  /\ pc[v] = "announce"
  /\ pathDone' = [pathDone EXCEPT ![v[1]] = TRUE]
  /\ Tell(v[1], finalException[v])
  /\ Goto(v, "ended")
  /\ UNCHANGED <<workerVars, pathState, failedModuleIndex, modulesToRun, finalException,
                 eventVars>>

-----------------------------------------------------------------------------
(* The tasks pathsDone and allPathsDone of processOneEventAsync().         *)

AllLaunched == launched = Len(LaunchOrder) /\ LoopsOver

(* Mutant: the TriggerResults are inserted only if no path failed.         *)
FinishedPathsNoResults ==
  LET e == taskException["pathsDone"]
      a == taskException["allPathsDone"]
  IN
  /\ stage = "open" /\ ~pathError.run /\ AllLaunched
  /\ \A p \in TrigPaths : pathDone[p]
  /\ pathError' = [run |-> TRUE, exception |-> e]
  /\ done' = [done EXCEPT ![Results] = (e = None)]
  /\ taskException' = [taskException EXCEPT !["allPathsDone"] = IF a = None THEN e ELSE a]
  /\ UNCHANGED <<workStarted, workerState, cachedException, numberOfPathsLeftToRun, running,
                 runs, pathVars, visitVars, launched, stage, outcome>>

(* pathsDone, with finishedPaths(): the TriggerResults are inserted, even  *)
(* after an exception, as modules of the end paths may be waiting for them *)
FinishedPaths ==
  LET e == taskException["pathsDone"]
      kept == IF e # None /\ e.kind = "continue" THEN None ELSE e
      a == taskException["allPathsDone"]
  IN
  /\ stage = "open" /\ ~pathError.run /\ AllLaunched
  /\ \A p \in TrigPaths : pathDone[p]
  /\ pathError' = [run |-> TRUE, exception |-> kept]
  /\ done' = [done EXCEPT ![Results] = TRUE]
  /\ taskException' = [taskException EXCEPT !["allPathsDone"] = IF a = None THEN kept ELSE a]
  /\ UNCHANGED <<workStarted, workerState, cachedException, numberOfPathsLeftToRun, running,
                 runs, pathVars, visitVars, launched, stage, outcome>>

(* Mutant: the event does not wait for the end paths.                      *)
EndEventEarly ==
  /\ stage = "open" /\ pathError.run /\ AllLaunched
  /\ stage' = "over"
  /\ outcome' = IF pathError.exception # None THEN pathError.exception
                ELSE taskException["allPathsDone"]
  /\ UNCHANGED <<workerVars, pathVars, visitVars, taskException, launched, pathError>>

(* allPathsDone: an error of a path has priority over one of an end path.  *)
EndEvent ==
  /\ stage = "open" /\ pathError.run /\ AllLaunched
  /\ \A p \in EndPaths : pathDone[p]
  /\ stage' = "over"
  /\ outcome' = IF pathError.exception # None THEN pathError.exception
                ELSE taskException["allPathsDone"]
  /\ UNCHANGED <<workerVars, pathVars, visitVars, taskException, launched, pathError>>

-----------------------------------------------------------------------------
WorkerStep(m) == PrefetchFailed(m) \/ RunModule(m) \/ WorkerDone(m)

VisitStep(v) == \/ DoWork(v) \/ Continue(v) \/ Complete(v) \/ Reject(v) \/ Tolerate(v)
                \/ Rethrow(v) \/ SetFailed(v) \/ SkipNext(v) \/ Count(v) \/ Finish(v)
                \/ Announce(v)

(* An exception ends the processing.                                       *)
AtRest == stage = "over" /\ outcome # None /\ UNCHANGED vars

Next == \/ BeginEvent \/ LaunchPath \/ FinishedPaths \/ EndEvent
        \/ \E m \in Modules : WorkerStep(m)
        \/ \E v \in Visits : VisitStep(v)
        \/ AtRest

Spec == Init /\ [][Next]_vars

(* TBB runs tasks while some are ready, and every module returns.          *)
Progress == \/ LaunchPath \/ FinishedPaths \/ EndEvent
            \/ \E m \in Modules : WorkerStep(m)
            \/ \E v \in Visits : VisitStep(v)

FairSpec == Spec /\ WF_vars(Progress)

-----------------------------------------------------------------------------
(* Correctness.                                                            *)

(* A path is done only when each of its workers was either skipped or has  *)
(* finished: nobody else will touch the path for this event.               *)
PathWaitsForAll ==
  \A v \in Visits : stage = "open" /\ pathDone[v[1]] /\ pc[v] # "none" =>
                      pc[v] \in {"ended", "skipped"}

(* The assert of checkResultsOfRunWorker(): whoever is released to look at *)
(* a worker's result finds one, although another path may skip the worker. *)
ResultIsReady == \A v \in Visits : Released(v) => workerState[WorkerOf(v)] # "Ready"

(* Paths are completed by their workers' results and by nothing else.      *)
ResultsAwaited == PathWaitsForAll /\ ResultIsReady

(* When the event is over no module is running and no workerFinished() is  *)
(* under way, so that the reset for the next event meets nobody.           *)
QuietWhenOver ==
  stage = "over" =>
    /\ \A v \in Visits : pc[v] \in {"ended", "skipped"}
    /\ \A p \in Paths : pathDone[p] /\ modulesToRun[p] = 0
    /\ \A m \in Modules : running[m] = "idle" /\ (runs[m] = 0 => ~workStarted[m]
                                                      \/ cachedException[m] # None)

(* The status of a path does not depend on the order in which its workers  *)
(* finish: the first place that threw, else the first that rejected.       *)
StatusOf(p) ==
  LET ran    == {i \in 1..Size(p) : pc[<<p, i>>] # "skipped"}
      threw  == {i \in ran : Thrown(<<p, i>>) # None}
      reject == {i \in ran : ~Accepted(<<p, i>>)}
      first(s) == CHOOSE i \in s : \A j \in s : i <= j
  IN  IF threw # {} THEN <<"Exception", first(threw)>>
      ELSE IF reject # {} THEN <<"Fail", first(reject)>>
      ELSE <<"Pass", Size(p)>>

StatusIndependentOfOrder ==
  \A p \in Paths : stage = "over" => <<pathState[p], failedModuleIndex[p]>> = StatusOf(p)

(* WaitingTaskList.h:157, m_exceptionPtr is guarded by m_waiting: the list *)
(* of a worker is told doneWaiting() once per event, either because its    *)
(* module ran or because the last of its paths skipped it.                 *)
DoneWaitingOnce ==
  stage = "open" => \A m \in Modules : numberOfPathsLeftToRun[m] = 0 => ~workStarted[m]

(* Path p was left at an exception, before its other modules.              *)
LeftByException(p) ==
  \E i \in 1..Size(p) : /\ finalException[<<p, i>>] # None
                        /\ StartsNext(<<p, i>>)

(* The event fails exactly if an exception ended one of its paths.  When   *)
(* a path is left by an exception, the failure of a module in another path *)
(* for want of a product that was not made is not what the event reports   *)
(* (Path.cc:267-270).                                                      *)
RootCauseReported ==
  stage = "over" =>
    /\ outcome # None <=> \E v \in Visits : finalException[v] # None
    /\ outcome # None /\ outcome.kind = "notFound" =>
         \A m \in Needs[outcome.by] \cap Modules :
           runs[m] = 0 => ~\E v \in VisitsOf(m) : /\ v[1] \in TrigPaths /\ pc[v] = "skipped"
                                                  /\ LeftByException(v[1])

(* Every event comes to its end, whatever its modules throw or reject.     *)
EventEnds == stage = "open" ~> stage = "over"
=============================================================================
