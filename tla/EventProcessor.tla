--------------------------- MODULE EventProcessor ---------------------------
(***************************************************************************)
(* edm::EventProcessor between two calls of its main thread: the tasks     *)
(* that begin and end runs and luminosity blocks, read the source and      *)
(* process events on several streams, and what each does when a module or  *)
(* the source throws.  TransitionProcessors is the main thread.            *)
(*                                                                         *)
(* One action is one task, or one continuation of an asynchronous          *)
(* transition.  The source is read by the tasks of one serial queue; a     *)
(* stream's queue is paused while the stream is in a transition or in a    *)
(* luminosity block.  streamQueuesInserter_ only fixes the order in which  *)
(* tasks reach the streams' queues: they are put there at once.            *)
(***************************************************************************)
EXTENDS Naturals, Sequences, FiniteSets

CONSTANTS Streams,
          Inputs,           \* what the source may hold: sequences of items
          ConcurrentRuns,   \* preallocations_.numberOfRuns()
          ConcurrentLumis,  \* preallocations_.numberOfLuminosityBlocks()
          MaxThrows         \* bound: exceptions in one job

ASSUME EventProcessorAssumption ==
  /\ IsFiniteSet(Streams) /\ Streams # {}
  /\ ConcurrentRuns \in Nat \ {0} /\ ConcurrentLumis \in Nat \ {0}
  /\ MaxThrows \in Nat

Kinds == {"File", "Run", "Lumi", "Event", "Stop"}

(* An item, with the run and luminosity block that the source is in then,  *)
(* 0 for none; last marks the last entry of its run or luminosity block.   *)
Items == [kind : Kinds, run : Nat, lumi : Nat, last : BOOLEAN]

(* nextItemType(): whatever the source has, after a file comes a run, and  *)
(* after a run no event; run() and luminosityBlock() change only with a    *)
(* run or a luminosity block.  IsSynchronize, which nextTransitionType()   *)
(* passes over, is not given right after a file or a run.                  *)
MayFollow(x, y) ==
  /\ x.kind = "File" => y.kind \in {"File", "Run", "Stop"}
  /\ x.kind = "Run" => y.kind # "Event"
  /\ y.kind \in {"Lumi", "Event"} => y.run = x.run
  /\ y.kind = "Event" => y.lumi = x.lumi

WellFormed(q) ==
  /\ q \in Seq(Items) /\ q # <<>> /\ q[1].kind \in {"File", "Stop"}
  /\ \A i \in DOMAIN q :
       /\ q[i].kind = "Stop" <=> i = Len(q)
       /\ q[i].kind \in {"File", "Stop"} => q[i].run = 0
       /\ q[i].kind \in {"File", "Run", "Stop"} => q[i].lumi = 0
       /\ i + 1 \in DOMAIN q => MayFollow(q[i], q[i + 1])

ASSUME InputsAssumption == \A q \in Inputs : WellFormed(q)

VARIABLES
  input,      \* the items of this job, ending in a "Stop"
  mustWait,   \* whether every sync waits for earlier IOVs (doWeNeedToWaitForIOVsToFinish)
  mayStop,    \* whether a signal or the output modules may stop the job
  src,        \* position in the input, lastSourceTransition_, needToCallNext_
  runs,       \* every RunProcessingStatus made, oldest first
  lumis,      \* every LuminosityBlockProcessingStatus made
  stream,     \* per stream: its run, luminosity block, activity, queue and pause count
  sourceQ,    \* the tasks waiting for the source
  iovPauses,  \* pauses of queueWhichWaitsForIOVsToFinish_
  failed,     \* the task the main thread waits for holds an exception
  throws,     \* history: how many exceptions were thrown
  log         \* history: the items handled, and where

inputVars == <<input, mustWait, mayStop>>
vars == <<inputVars, src, runs, lumis, stream, sourceQ, iovPauses, failed, throws, log>>

N == Cardinality(Streams)
Item == input[src.pos]

Init ==
  /\ input \in Inputs
  /\ mustWait \in BOOLEAN /\ mayStop \in BOOLEAN
  /\ src = [pos |-> 0, kind |-> "Stop", needNext |-> TRUE]
  /\ runs = <<>> /\ lumis = <<>> /\ sourceQ = <<>> /\ log = <<>>
  /\ stream = [s \in Streams |-> [run |-> 0, lumi |-> 0, doing |-> "nothing",
                                  queue |-> <<>>, pauses |-> 0]]
  /\ iovPauses = 0 /\ failed = FALSE /\ throws = 0

RunPhases  == {"sync", "queue", "read", "merge", "begin", "next", "open", "endSync", "ending",
               "closed", "dropped"}
LumiPhases == {"sync", "queue", "read", "merge", "begin", "open", "end", "closed", "dropped"}

TypeOK ==
  /\ src \in [pos : 0..Len(input), kind : Kinds, needNext : BOOLEAN]
  /\ \A r \in DOMAIN runs :
       runs[r] \in [num : Nat, phase : RunPhases, holds : BOOLEAN, ok : BOOLEAN, esOK : BOOLEAN,
                    toBegin : 0..N, toEnd : 0..N, enders : 0..(Len(lumis) + 1)]
  /\ \A l \in DOMAIN lumis :
       lumis[l] \in [run : DOMAIN runs, num : Nat, phase : LumiPhases, ok : BOOLEAN,
                     noMore : BOOLEAN, state : {"processing", "pause", "stop"},
                     started : BOOLEAN, joined : 0..N, toEnd : 0..N]
  /\ \A s \in Streams :
       /\ stream[s].run \in 0..Len(runs) /\ stream[s].lumi \in 0..Len(lumis)
       /\ stream[s].doing \in {"nothing", "beginRun", "beginLumi", "next", "event", "endLumi",
                               "endRun", "resume"}
       /\ stream[s].pauses \in 0..1
  /\ iovPauses \in 0..(2 * Len(runs) + Len(lumis))
  /\ failed \in BOOLEAN /\ throws \in 0..MaxThrows

-----------------------------------------------------------------------------
(* Something that may throw: x says whether it does.                       *)
Try(x) == /\ x => throws < MaxThrows
          /\ throws' = IF x THEN throws + 1 ELSE throws

(* ... and its exception goes to the task the main thread waits for.       *)
TryAndTell(x) == Try(x) /\ failed' = (failed \/ x)

(* nextTransitionType(): the next item, or a stop when a signal was seen   *)
NextItems ==
  {[pos |-> src.pos + 1, kind |-> k] :
     k \in {input[src.pos + 1].kind} \cup (IF mayStop THEN {"Stop"} ELSE {})}

(* The item at i is another entry of the run, or luminosity block, n.      *)
SameEntry(i, kind, n) ==
  /\ input[i].kind = kind
  /\ n = (IF kind = "Run" THEN input[i].run ELSE input[i].lumi)

(* Mutant: the item that ended the merging is asked for again.             *)
MergeOutcomesAgain(s, kind, n, continuing) ==
  LET p == IF continuing THEN s.pos - 1 ELSE s.pos
      k == CHOOSE j \in p..(Len(input) - 1) :
             /\ \A i \in (p + 1)..j : SameEntry(i, kind, n)
             /\ ~SameEntry(j + 1, kind, n)
  IN  {[entries |-> [i \in 1..(k - p) |-> p + i],
        src |-> [pos |-> k + 1, kind |-> input[k + 1].kind, needNext |-> TRUE]]}

(* Merging the entries of n, from the source state s: those that follow    *)
(* the item at hand, up to one marked as the last, or, when continuing     *)
(* after a file, the item at hand too and whatever it is marked.  Gives    *)
(* the entries merged and the source as it is then; a stop may cut it off. *)
MergeOutcomes(s, kind, n, continuing) ==
  LET p == IF continuing THEN s.pos - 1 ELSE s.pos
      k == CHOOSE j \in p..(Len(input) - 1) :
             /\ \A i \in (p + 1)..j : SameEntry(i, kind, n) /\ (i < j => continuing \/ ~input[i].last)
             /\ SameEntry(j + 1, kind, n) => ~continuing /\ j > p /\ input[j].last
      atLast == ~continuing /\ k > p /\ input[k].last
      Upto(j) == [i \in 1..(j - p) |-> p + i]
  IN  IF continuing /\ s.kind # kind
        THEN {[entries |-> <<>>, src |-> [s EXCEPT !.needNext = FALSE]]}
        ELSE {[entries |-> Upto(k),
               src |-> IF atLast THEN [pos |-> k, kind |-> kind, needNext |-> TRUE]
                       ELSE [pos |-> k + 1, kind |-> input[k + 1].kind, needNext |-> FALSE]]}
             \cup {[entries |-> Upto(j - 1),
                    src |-> [pos |-> j, kind |-> "Stop", needNext |-> FALSE]] :
                   j \in IF mayStop THEN (s.pos + 1)..(IF atLast THEN k ELSE k + 1) ELSE {}}

(* History: these items went to this run and luminosity block.             *)
Handled(items, run, lumi) ==
  log' = log \o [i \in DOMAIN items |-> <<items[i], run, lumi>>]

Pending == {"sync", "queue", "closed", "dropped"}

(* The task in runQueue_ or lumiQueue_ has begun, and its Resumer has not  *)
(* been used yet ...                                                       *)
StartedRuns  == {r \in DOMAIN runs : runs[r].phase \notin Pending}
StartedLumis == {l \in DOMAIN lumis : lumis[l].phase \notin Pending}

(* ... and the run, or luminosity block, has been given its principal.     *)
OpenRuns  == {r \in StartedRuns : runs[r].phase # "read"}
OpenLumis == {l \in StartedLumis : lumis[l].phase # "read"}

(* readRun() and readLuminosityBlock() take a principal from the pool of   *)
(* the PrincipalCache, before they read.  tryToGet() gives a null pointer  *)
(* when there is none, and that is used as if it were one.                 *)
RunPrincipalFree  == Cardinality(OpenRuns) < ConcurrentRuns
LumiPrincipalFree == Cardinality(OpenLumis) < ConcurrentLumis

AtSource(task) == sourceQ # <<>> /\ Head(sourceQ) = task

(* espController_->runOrQueueEventSetupForInstanceAsync: pauses the queue  *)
(* that waits for IOVs, from within that queue when it has to wait.        *)
SyncIOV == (mustWait => iovPauses = 0) /\ iovPauses' = iovPauses + 1

PushToStreams(task) ==
  stream' = [s \in Streams |-> [stream[s] EXCEPT !.queue = Append(@, task)]]

-----------------------------------------------------------------------------
(* Runs: rs is the list of runs as it is by now.                           *)

NewRun(n) == [num |-> n, phase |-> "sync", holds |-> TRUE, ok |-> FALSE, esOK |-> TRUE,
              toBegin |-> N, toEnd |-> N, enders |-> 1]

NewLumi(r, n) == [run |-> r, num |-> n, phase |-> "sync", ok |-> FALSE, noMore |-> FALSE,
                  state |-> "processing", started |-> FALSE, joined |-> 0, toEnd |-> 0]

(* beginRunAsync(): nothing once the job has failed                        *)
BeginRunAsync(rs, fail) == IF fail THEN rs ELSE Append(rs, NewRun(Item.run))

(* endRunAsync(), for a run nobody has asked to end yet                    *)
EndRunAsync(rs, r) ==
  [rs EXCEPT ![r].phase = IF @ \in {"begin", "next", "open"} THEN "endSync" ELSE "endedTwice"]

(* A run is given up before anything was committed to: its resources go    *)
(* back, and its status takes the holder with it.                          *)
DropRun(r) ==
  /\ runs' = [runs EXCEPT ![r].phase = "dropped", ![r].holds = FALSE]
  /\ iovPauses' = iovPauses - 1

(* handleNextItemAfterMergingRunEntries(): a file lets the main thread go  *)
(* on, a luminosity block is begun, anything else ends the run.            *)
AfterRunEntries(rs, r) ==
  \/ /\ src'.kind = "File"
     /\ runs' = [rs EXCEPT ![r].phase = "open", ![r].holds = FALSE]
     /\ UNCHANGED lumis
  \/ /\ src'.kind = "Lumi" /\ ~failed'
     /\ runs' = [rs EXCEPT ![r].phase = "open"]
     /\ lumis' = Append(lumis, NewLumi(r, input[src'.pos].lumi))
  \/ /\ src'.kind # "File" /\ (src'.kind = "Lumi" => failed')
     /\ runs' = EndRunAsync(rs, r)
     /\ UNCHANGED lumis

SyncRun(r) ==
  /\ runs[r].phase = "sync"
  /\ SyncIOV
  /\ \E x \in BOOLEAN : TryAndTell(x)
  /\ runs' = [runs EXCEPT ![r].phase = "queue"]
  /\ UNCHANGED <<inputVars, src, lumis, stream, sourceQ, log>>

(* The task given to runQueue_->pushAndPause, which may come late: when as *)
(* many runs as the queue should allow have started already.               *)
StartRun(r) ==
  /\ runs[r].phase = "queue"
  /\ \/ /\ failed
        /\ DropRun(r)
        /\ UNCHANGED sourceQ
     \/ /\ ~failed
        /\ runs' = [runs EXCEPT ![r].phase = "read"]
        /\ sourceQ' = Append(sourceQ, <<"readRun", r>>)
        /\ UNCHANGED iovPauses
  /\ UNCHANGED <<inputVars, src, lumis, stream, failed, throws, log>>

ReadRun(r) ==
  /\ AtSource(<<"readRun", r>>) /\ (failed \/ RunPrincipalFree)
  /\ \E x \in BOOLEAN : (failed => ~x) /\ TryAndTell(x)
  /\ \/ /\ failed'
        /\ DropRun(r)
        /\ sourceQ' = Tail(sourceQ)
        /\ UNCHANGED <<src, log>>
     \/ /\ ~failed' /\ Item.last
        /\ runs' = [runs EXCEPT ![r].phase = "begin"]
        /\ src' = [src EXCEPT !.needNext = TRUE]
        /\ sourceQ' = Tail(sourceQ)
        /\ Handled(<<src.pos>>, runs[r].num, 0)
        /\ UNCHANGED iovPauses
     \/ /\ ~failed' /\ ~Item.last
        /\ runs' = [runs EXCEPT ![r].phase = "merge"]
        /\ sourceQ' = Append(Tail(sourceQ), <<"mergeRun", r>>)
        /\ Handled(<<src.pos>>, runs[r].num, 0)
        /\ UNCHANGED <<src, iovPauses>>
  /\ UNCHANGED <<inputVars, lumis, stream>>

(* readAndMergeRunEntriesAsync(): an exception, or one met while merging,  *)
(* stops the run before it is processed.                                   *)
MergeRun(r) ==
  LET n == runs[r].num
      another == SameEntry(src.pos + 1, "Run", n)
  IN
  /\ AtSource(<<"mergeRun", r>>)
  /\ sourceQ' = Tail(sourceQ)
  /\ \/ /\ TryAndTell(TRUE)
        /\ DropRun(r)
        /\ UNCHANGED <<src, log>>
     \/ /\ TryAndTell(FALSE) /\ failed /\ another
        /\ DropRun(r)
        /\ src' = [pos |-> src.pos + 1, kind |-> "Run", needNext |-> FALSE]
        /\ UNCHANGED log
     \/ /\ TryAndTell(FALSE) /\ ~(failed /\ another)
        /\ \E o \in MergeOutcomes(src, "Run", n, FALSE) :
             src' = o.src /\ Handled(o.entries, n, 0)
        /\ runs' = [runs EXCEPT ![r].phase = "begin"]
        /\ UNCHANGED iovPauses
  /\ UNCHANGED <<inputVars, lumis, stream>>

(* The end of the global begin run, and what is done then                  *)
GlobalBeginRun(r) ==
  /\ runs[r].phase = "begin"
  /\ UNCHANGED <<inputVars, src, iovPauses, log>>
  /\ PushToStreams(<<"beginRun", r>>)
  /\ \E x \in BOOLEAN :
       /\ TryAndTell(x)
       /\ LET rs == [runs EXCEPT ![r].ok = ~x] IN
          \/ /\ src.needNext
             /\ runs' = [rs EXCEPT ![r].phase = "next"]
             /\ sourceQ' = Append(sourceQ, <<"nextItem", r>>)
             /\ UNCHANGED lumis
          \/ /\ ~src.needNext
             /\ AfterRunEntries(rs, r)
             /\ UNCHANGED sourceQ

(* nextTransitionTypeAsync()                                               *)
NextItem(r) ==
  /\ AtSource(<<"nextItem", r>>)
  /\ sourceQ' = Tail(sourceQ)
  /\ UNCHANGED <<inputVars, stream, iovPauses, log>>
  /\ \/ TryAndTell(TRUE) /\ UNCHANGED src
     \/ /\ TryAndTell(FALSE)
        /\ \E i \in NextItems : src' = [pos |-> i.pos, kind |-> i.kind, needNext |-> TRUE]
  /\ AfterRunEntries(runs, r)

(* endRunAsync(), once the EventSetup is ready: the next run may begin     *)
SyncEndRun(r) ==
  /\ runs[r].phase = "endSync"
  /\ SyncIOV
  /\ \E x \in BOOLEAN :
       /\ TryAndTell(x)
       /\ LET rs == [runs EXCEPT ![r].phase = "ending", ![r].esOK = ~x]
          IN  runs' = IF src.kind = "Run" THEN BeginRunAsync(rs, failed') ELSE rs
  /\ PushToStreams(<<"endRun", r>>)
  /\ UNCHANGED <<inputVars, src, lumis, sourceQ, log>>

(* globalEndRunTask: every stream and luminosity block has let go          *)
GlobalEndRun(r) ==
  /\ runs[r].phase = "ending" /\ runs[r].enders = 0
  /\ \E x \in BOOLEAN : (x => runs[r].esOK) /\ TryAndTell(x)
  /\ runs' = [runs EXCEPT ![r].phase = "closed", ![r].holds = FALSE]
  /\ iovPauses' = iovPauses - 1
  /\ UNCHANGED <<inputVars, src, lumis, stream, sourceQ, log>>

-----------------------------------------------------------------------------
(* Luminosity blocks.                                                      *)

(* Mutant: the queue that waits for IOVs is not resumed.                   *)
DropLumiPaused(l) ==
  /\ lumis' = [lumis EXCEPT ![l].phase = "dropped"]
  /\ runs' = EndRunAsync(runs, lumis[l].run)
  /\ UNCHANGED iovPauses

(* A luminosity block is given up before it begins: its run ends.          *)
DropLumi(l) ==
  /\ lumis' = [lumis EXCEPT ![l].phase = "dropped"]
  /\ runs' = EndRunAsync(runs, lumis[l].run)
  /\ iovPauses' = iovPauses - 1

(* It cannot be begun: it is ended all the same, and so is its run.        *)
EndUnbegunLumi(l) ==
  /\ lumis' = [lumis EXCEPT ![l].phase = "end"]
  /\ runs' = EndRunAsync([runs EXCEPT ![lumis[l].run].enders = @ + 1], lumis[l].run)

SyncLumi(l) ==
  /\ lumis[l].phase = "sync"
  /\ SyncIOV
  /\ \E x \in BOOLEAN : TryAndTell(x)
  /\ lumis' = [lumis EXCEPT ![l].phase = "queue"]
  /\ UNCHANGED <<inputVars, src, runs, stream, sourceQ, log>>

(* The task given to lumiQueue_->pushAndPause, which may come late too     *)
StartLumi(l) ==
  /\ lumis[l].phase = "queue"
  /\ \/ /\ failed
        /\ DropLumi(l)
        /\ UNCHANGED sourceQ
     \/ /\ ~failed
        /\ lumis' = [lumis EXCEPT ![l].phase = "read"]
        /\ sourceQ' = Append(sourceQ, <<"readLumi", l>>)
        /\ UNCHANGED <<runs, iovPauses>>
  /\ UNCHANGED <<inputVars, src, stream, failed, throws, log>>

ReadLumi(l) ==
  LET Here == Handled(<<src.pos>>, runs[lumis[l].run].num, lumis[l].num) IN
  /\ AtSource(<<"readLumi", l>>) /\ (failed \/ LumiPrincipalFree)
  /\ \E x \in BOOLEAN : (failed => ~x) /\ TryAndTell(x)
  /\ \/ /\ failed'
        /\ DropLumi(l)
        /\ sourceQ' = Tail(sourceQ)
        /\ UNCHANGED <<src, log>>
     \/ /\ ~failed' /\ Item.last
        /\ lumis' = [lumis EXCEPT ![l].phase = "begin"]
        /\ src' = [src EXCEPT !.needNext = TRUE]
        /\ sourceQ' = Tail(sourceQ)
        /\ Here
        /\ UNCHANGED <<runs, iovPauses>>
     \/ /\ ~failed' /\ ~Item.last
        /\ lumis' = [lumis EXCEPT ![l].phase = "merge"]
        /\ sourceQ' = Append(Tail(sourceQ), <<"mergeLumi", l>>)
        /\ Here
        /\ UNCHANGED <<src, runs, iovPauses>>
  /\ UNCHANGED <<inputVars, stream>>

(* readAndMergeLumiEntriesAsync()                                          *)
MergeLumi(l) ==
  /\ AtSource(<<"mergeLumi", l>>)
  /\ sourceQ' = Tail(sourceQ)
  /\ \/ /\ TryAndTell(TRUE)
        /\ EndUnbegunLumi(l)
        /\ UNCHANGED <<src, log>>
     \/ /\ TryAndTell(FALSE)
        /\ \E o \in MergeOutcomes(src, "Lumi", lumis[l].num, FALSE) :
             src' = o.src /\ Handled(o.entries, runs[lumis[l].run].num, lumis[l].num)
        /\ lumis' = [lumis EXCEPT ![l].phase = "begin"]
        /\ UNCHANGED runs
  /\ UNCHANGED <<inputVars, stream, iovPauses>>

(* The end of the global begin luminosity block                            *)
GlobalBeginLumi(l) ==
  /\ lumis[l].phase = "begin"
  /\ \/ /\ TryAndTell(TRUE)
        /\ EndUnbegunLumi(l)
        /\ UNCHANGED stream
     \/ /\ TryAndTell(FALSE)
        /\ lumis' = [lumis EXCEPT ![l].phase = "open", ![l].ok = TRUE]
        /\ runs' = [runs EXCEPT ![lumis[l].run].enders = @ + 1]
        /\ PushToStreams(<<"beginLumi", l>>)
  /\ UNCHANGED <<inputVars, src, sourceQ, iovPauses, log>>

GlobalEndLumi(l) ==
  /\ lumis[l].phase = "end"
  /\ \E x \in BOOLEAN : TryAndTell(x)
  /\ lumis' = [lumis EXCEPT ![l].phase = "closed"]
  /\ runs' = [runs EXCEPT ![lumis[l].run].enders = @ - 1]
  /\ iovPauses' = iovPauses - 1
  /\ UNCHANGED <<inputVars, src, stream, sourceQ, log>>

-----------------------------------------------------------------------------
(* Streams.                                                                *)

Leave(s, what) == stream' = [stream EXCEPT ![s].doing = what]

(* Mutant: a stream joins a luminosity block that has no more events.      *)
ShouldStartAlways(l) == TRUE

(* shouldStreamStartLumi()                                                 *)
ShouldStart(l) == ~lumis[l].noMore

(* The next task of the stream's queue: the queue is paused for as long as *)
(* the stream is in what it begins.  A luminosity block that has no more   *)
(* events is skipped.                                                      *)
StreamTake(s) ==
  LET task == Head(stream[s].queue)
      st == [stream[s] EXCEPT !.queue = Tail(@), !.pauses = @ + 1]
  IN
  /\ stream[s].queue # <<>> /\ stream[s].pauses = 0
  /\ \/ /\ task[1] = "beginRun"
        /\ stream' = [stream EXCEPT ![s] = [st EXCEPT !.run = task[2], !.doing = "beginRun"]]
        /\ UNCHANGED lumis
     \/ /\ task[1] = "endRun"
        /\ stream' = [stream EXCEPT ![s] = [st EXCEPT !.doing = "endRun"]]
        /\ UNCHANGED lumis
     \/ /\ task[1] = "beginLumi" /\ ShouldStart(task[2])
        /\ stream' = [stream EXCEPT ![s] = [st EXCEPT !.lumi = task[2], !.doing = "beginLumi"]]
        /\ lumis' = [lumis EXCEPT ![task[2]].joined = @ + 1]
     \/ /\ task[1] = "beginLumi" /\ ~ShouldStart(task[2])
        /\ stream' = [stream EXCEPT ![s].queue = Tail(@)]
        /\ UNCHANGED lumis
  /\ UNCHANGED <<inputVars, src, runs, sourceQ, iovPauses, failed, throws, log>>

(* handleNextEventForStreamAsync(): its first part                         *)
NextEventForStream(s) ==
  LET over == lumis[stream[s].lumi].started IN
  /\ Leave(s, IF over THEN "endLumi" ELSE "next")
  /\ sourceQ' = IF over THEN sourceQ ELSE Append(sourceQ, <<"event", s>>)

(* The end of the stream begin run, and releaseBeginRunResources()         *)
StreamBeginRun(s) ==
  LET r == stream[s].run
      last == runs[r].toBegin = 1
  IN
  /\ stream[s].doing = "beginRun"
  /\ \E x \in BOOLEAN : (x => runs[r].ok) /\ TryAndTell(x)
  /\ runs' = [runs EXCEPT ![r].toBegin = @ - 1]
  /\ iovPauses' = IF last THEN iovPauses - 1 ELSE iovPauses
  /\ stream' = [stream EXCEPT ![s].doing = "nothing", ![s].pauses = @ - 1]
  /\ UNCHANGED <<inputVars, src, lumis, sourceQ, log>>

(* The end of the stream begin luminosity block, or of an event            *)
StreamReady(s) ==
  /\ stream[s].doing \in {"beginLumi", "event"}
  /\ \E x \in BOOLEAN : TryAndTell(x)
  /\ NextEventForStream(s)
  /\ UNCHANGED <<inputVars, src, runs, lumis, iovPauses, log>>

(* The task that continueLumiAsync() makes for the stream after a file     *)
StreamResume(s) ==
  /\ stream[s].doing = "resume"
  /\ NextEventForStream(s)
  /\ UNCHANGED <<inputVars, src, runs, lumis, iovPauses, failed, throws, log>>

(* readNextEventForStream(): may the stream ask for the next item, and     *)
(* which is it then?                                                       *)
MayRead(s) == ~failed /\ lumis[stream[s].lumi].state = "processing"

NextForStream ==
  IF src.needNext THEN {[pos |-> i.pos, kind |-> i.kind, needNext |-> TRUE] : i \in NextItems}
                  ELSE {[src EXCEPT !.needNext = TRUE]}

EndsLumi(i, l) ==
  i.kind \in {"Stop", "Lumi"} \/ (i.kind = "Run" /\ input[i.pos].run # runs[lumis[l].run].num)

ReadEvent(s) ==
  LET l == stream[s].lumi IN
  /\ AtSource(<<"event", s>>) /\ MayRead(s)
  /\ src' \in {i \in NextForStream : i.kind = "Event"}
  /\ Handled(<<src'.pos>>, runs[lumis[l].run].num, lumis[l].num)
  /\ sourceQ' = Tail(sourceQ)
  /\ Leave(s, "event")
  /\ UNCHANGED <<inputVars, runs, lumis, iovPauses, failed, throws>>

(* Asking for the item, or reading the event, throws: the stream comes     *)
(* back and then finds that the job has failed.                            *)
SourceThrows(s) ==
  /\ AtSource(<<"event", s>>) /\ MayRead(s)
  /\ \/ UNCHANGED src
     \/ src' \in {i \in NextForStream : i.kind = "Event"}
  /\ TryAndTell(TRUE)
  /\ sourceQ' = Append(Tail(sourceQ), <<"event", s>>)
  /\ UNCHANGED <<inputVars, runs, lumis, stream, iovPauses, log>>

(* Mutant: every stream begins what comes next.                            *)
StopLumiAgain(s) ==
  LET l == stream[s].lumi IN
  /\ Leave(s, "endLumi")
  /\ lumis' = [lumis EXCEPT ![l].state = "stop", ![l].noMore = TRUE, ![l].toEnd = lumis[l].joined,
                            ![l].started = TRUE]
  /\ runs' = EndRunAsync(runs, lumis[l].run)

(* The stream leaves the luminosity block for good.  The first to do so    *)
(* lets no other join and begins what comes next.                          *)
StopLumi(s) ==
  LET l == stream[s].lumi
      r == lumis[l].run
      ls == [lumis EXCEPT ![l].state = "stop", ![l].noMore = TRUE, ![l].toEnd = lumis[l].joined,
                          ![l].started = TRUE]
      next == src'.kind = "Lumi" /\ ~failed
  IN
  /\ Leave(s, "endLumi")
  /\ \/ /\ lumis[l].started
        /\ UNCHANGED <<runs, lumis>>
     \/ /\ ~lumis[l].started /\ next
        /\ lumis' = Append(ls, NewLumi(r, input[src'.pos].lumi))
        /\ UNCHANGED runs
     \/ /\ ~lumis[l].started /\ ~next
        /\ lumis' = ls
        /\ runs' = EndRunAsync(runs, r)

(* The stream stays in the luminosity block until the next file is open.   *)
PauseLumi(s) ==
  LET l == stream[s].lumi IN
  /\ Leave(s, "nothing")
  /\ lumis' = [lumis EXCEPT ![l].state = "pause"]
  /\ runs' = [runs EXCEPT ![lumis[l].run].holds = FALSE]

(* Mutant: a failure ends the luminosity block even while streams pause.   *)
PausingUnlessFailed(l) == lumis[l].state = "pause" /\ ~failed

(* The streams are leaving the luminosity block for a file: so do all.     *)
Pausing(l) == lumis[l].state = "pause"

(* No event for the stream: the job has failed, another stream has found   *)
(* the end, the output modules have enough, or the item at hand is no      *)
(* event.  All streams stop, or all pause.                                 *)
NoEvent(s) ==
  LET l == stream[s].lumi IN
  /\ AtSource(<<"event", s>>)
  /\ sourceQ' = Tail(sourceQ)
  /\ UNCHANGED <<inputVars, iovPauses, failed, throws, log>>
  /\ \/ /\ ~MayRead(s) /\ UNCHANGED src
        /\ IF Pausing(l) THEN PauseLumi(s) ELSE StopLumi(s)
     \/ /\ MayRead(s) /\ mayStop
        /\ src' = [src EXCEPT !.kind = "Stop"]
        /\ StopLumi(s)
     \/ /\ MayRead(s) /\ src' \in {i \in NextForStream : i.kind # "Event"}
        /\ IF EndsLumi(src', l) THEN StopLumi(s) ELSE PauseLumi(s)

(* streamEndLumiAsync(): the last stream out ends the luminosity block     *)
StreamEndLumi(s) ==
  LET l == stream[s].lumi IN
  /\ stream[s].doing = "endLumi"
  /\ \E x \in BOOLEAN : TryAndTell(x)
  /\ stream' = [stream EXCEPT ![s].lumi = 0, ![s].doing = "nothing", ![s].pauses = @ - 1]
  /\ lumis' = [lumis EXCEPT ![l].toEnd = @ - 1,
                            ![l].phase = IF lumis[l].toEnd = 1 THEN "end" ELSE @]
  /\ UNCHANGED <<inputVars, src, runs, sourceQ, iovPauses, log>>

(* streamEndRunAsync()                                                     *)
StreamEndRun(s) ==
  LET r == stream[s].run IN
  /\ stream[s].doing = "endRun"
  /\ \E x \in BOOLEAN : (x => runs[r].ok /\ runs[r].esOK) /\ TryAndTell(x)
  /\ runs' = [runs EXCEPT ![r].toEnd = @ - 1,
                          ![r].enders = IF runs[r].toEnd = 1 THEN @ - 1 ELSE @]
  /\ stream' = [stream EXCEPT ![s].run = 0, ![s].doing = "nothing", ![s].pauses = @ - 1]
  /\ UNCHANGED <<inputVars, src, lumis, sourceQ, iovPauses, log>>

-----------------------------------------------------------------------------
RunStep(r)  == \/ SyncRun(r) \/ StartRun(r) \/ ReadRun(r) \/ MergeRun(r) \/ GlobalBeginRun(r)
               \/ NextItem(r) \/ SyncEndRun(r) \/ GlobalEndRun(r)
LumiStep(l) == \/ SyncLumi(l) \/ StartLumi(l) \/ ReadLumi(l) \/ MergeLumi(l)
               \/ GlobalBeginLumi(l) \/ GlobalEndLumi(l)
StreamStep(s) == \/ StreamTake(s) \/ StreamBeginRun(s) \/ StreamReady(s) \/ StreamResume(s)
                 \/ ReadEvent(s) \/ SourceThrows(s) \/ NoEvent(s)
                 \/ StreamEndLumi(s) \/ StreamEndRun(s)

TaskStep == \/ \E r \in DOMAIN runs : RunStep(r)
            \/ \E l \in DOMAIN lumis : LumiStep(l)
            \/ \E s \in Streams : StreamStep(s)

(* runQueue_ or lumiQueue_ hands out a task although every one of its      *)
(* queues is paused: LimitedTaskQueue says when it may.                    *)
LateStart ==
  \/ /\ Cardinality(StartedRuns) >= ConcurrentRuns
     /\ \E r \in DOMAIN runs : runs[r].phase = "queue" /\ runs'[r].phase # "queue"
  \/ /\ Cardinality(StartedLumis) >= ConcurrentLumis
     /\ \E l \in DOMAIN lumis : lumis[l].phase = "queue" /\ lumis'[l].phase # "queue"

(* Somebody still holds the task the main thread waits for.  The run's     *)
(* global end gets it from the run, which may have let go of it.           *)
Busy ==
  \/ \E r \in DOMAIN runs :
       \/ runs[r].holds \/ (runs[r].phase = "ending" /\ runs[r].enders = 0)
       \/ runs[r].phase \notin {"open", "ending", "closed", "dropped"}
  \/ \E l \in DOMAIN lumis : lumis[l].phase \notin {"open", "closed", "dropped"}
  \/ \E s \in Streams : stream[s].doing # "nothing" \/ stream[s].queue # <<>>
=============================================================================
