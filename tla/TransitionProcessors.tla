------------------------ MODULE TransitionProcessors ------------------------
(***************************************************************************)
(* The main thread of edm::EventProcessor: FilesProcessor with its         *)
(* FileResources and RunResources, whose destructors end and close what is *)
(* open, after an exception too.  It starts the tasks of EventProcessor    *)
(* and waits for them.                                                     *)
(*                                                                         *)
(* todo holds the calls the main thread has still to make.  Opening and    *)
(* closing do one thing or throw; output files are opened all or none.     *)
(***************************************************************************)
EXTENDS EventProcessor

VARIABLES
  doNotMerge, \* new output files with every input file
  todo,       \* the calls to be made, in order
  files,      \* FileResources: does it exist, its flags, and are the outputs open
  primary,    \* an exception has left processFiles()
  deferred,   \* deferredExceptionPtrIsSet_
  crashed     \* the process is gone

taskVars == vars
mainVars == <<doNotMerge, todo, files, primary, deferred, crashed>>
allVars  == <<taskVars, mainVars>>

Call(name) == todo # <<>> /\ Head(todo) = name

EndRuns   == <<"endLumis", "waitEnd", "endRun", "waitEnd">>
EndJob    == EndRuns \o <<"destroy">>
OpenFirst == <<"readFile", "respondOpen", "openOutputs", "beginPB", "inputPB", "next">>
OpenInput == <<"respondClose", "closeInput", "readFile", "respondOpen", "inputPB", "next">>

(* Mutant: the runs are not ended before the output files are closed.      *)
OpenBothInRun == <<"mark", "respondClose", "closeInput", "endPB", "closeOutputs">> \o OpenFirst

OpenBoth == EndRuns \o <<"mark", "respondClose", "closeInput", "endPB", "closeOutputs">> \o OpenFirst

Opening == {"readFile", "respondOpen", "openOutputs", "beginPB", "inputPB"}
Closing == {"respondClose", "closeInput", "endPB", "closeOutputs"}

MainInit ==
  /\ Init
  /\ doNotMerge \in BOOLEAN
  /\ todo = <<"next">>
  /\ files = [exist |-> FALSE, needClose |-> FALSE, closeFailed |-> FALSE, outs |-> FALSE,
              lost |-> FALSE]
  /\ primary = FALSE /\ deferred = FALSE /\ crashed = FALSE

MainTypeOK ==
  /\ TypeOK
  /\ todo \in Seq(Opening \cup Closing \cup {"next", "processRuns", "wait", "mark", "endLumis", "endRun",
                                             "waitEnd", "destroy"})
  /\ files \in [exist : BOOLEAN, needClose : BOOLEAN, closeFailed : BOOLEAN, outs : BOOLEAN,
                lost : BOOLEAN]
  /\ primary \in BOOLEAN /\ deferred \in BOOLEAN /\ crashed \in BOOLEAN

-----------------------------------------------------------------------------
(* What processFiles() does next, given the kind of the next item          *)
Dispatch(kind) ==
  CASE kind = "File" /\ ~files.exist -> OpenFirst
    [] kind = "File" /\ files.exist  -> IF doNotMerge THEN OpenBoth ELSE OpenInput
    [] kind = "Run"                  -> <<"processRuns", "wait">>
    [] OTHER                         -> EndJob

(* An exception leaves processFiles(): the destructors run.                *)
ThrowOut == primary' = TRUE /\ todo' = EndJob /\ UNCHANGED <<files, deferred>>

NextTransition ==
  /\ Call("next")
  /\ UNCHANGED <<inputVars, runs, lumis, stream, sourceQ, iovPauses, failed, log>>
  /\ \/ Try(TRUE) /\ ThrowOut /\ UNCHANGED src
     \/ /\ Try(FALSE)
        /\ \E i \in NextItems : src' = [src EXCEPT !.pos = i.pos, !.kind = i.kind]
        /\ todo' = Dispatch(src'.kind)
        /\ UNCHANGED <<files, primary, deferred>>

OpenFile ==
  /\ todo # <<>> /\ Head(todo) \in Opening
  /\ UNCHANGED <<inputVars, src, runs, lumis, stream, sourceQ, iovPauses, failed>>
  /\ \/ Try(TRUE) /\ ThrowOut /\ UNCHANGED log
     \/ /\ Try(FALSE)
        /\ todo' = Tail(todo)
        /\ IF Call("readFile") THEN Handled(<<src.pos>>, 0, 0) ELSE UNCHANGED log
        /\ files' = IF Call("openOutputs")
                      THEN [files EXCEPT !.exist = TRUE, !.needClose = TRUE, !.outs = TRUE]
                      ELSE files
        /\ UNCHANGED <<primary, deferred>>

(* Mutant: the exception of the destructor is not kept.                    *)
DeferredNever(x) == deferred

(* setDeferredException(), unless there is an earlier exception            *)
Deferred(x) == deferred \/ (x /\ ~primary)

(* In ~FileResources, when the unique_ptr is empty already, an exception   *)
(* skips the rest and is deferred unless there is an earlier one.          *)
CloseFile ==
  /\ todo # <<>> /\ Head(todo) \in Closing
  /\ UNCHANGED <<inputVars, src, runs, lumis, stream, sourceQ, iovPauses, failed, log>>
  /\ \/ /\ Try(TRUE) /\ files.exist
        /\ primary' = TRUE /\ todo' = EndJob
        /\ files' = [files EXCEPT !.lost = files.closeFailed]
        /\ UNCHANGED deferred
     \/ /\ Try(TRUE) /\ ~files.exist
        /\ todo' = <<>>
        /\ deferred' = Deferred(TRUE)
        /\ files' = [files EXCEPT !.lost = TRUE]
        /\ UNCHANGED primary
     \/ /\ Try(FALSE)
        /\ todo' = Tail(todo)
        /\ files' = IF Call("closeOutputs")
                      THEN [files EXCEPT !.needClose = FALSE, !.closeFailed = FALSE, !.outs = FALSE]
                      ELSE files
        /\ UNCHANGED <<primary, deferred>>

(* closingSequenceAlreadyFailed_ is set for as long as it is not known to  *)
(* have succeeded.                                                         *)
MarkClosing ==
  /\ Call("mark")
  /\ todo' = Tail(todo)
  /\ files' = [files EXCEPT !.closeFailed = TRUE]
  /\ UNCHANGED <<taskVars, primary, deferred>>

(* filesOpen_.reset()                                                      *)
Destroy ==
  /\ Call("destroy")
  /\ todo' = IF ~files.exist \/ files.closeFailed THEN <<>>
             ELSE <<"respondClose", "closeInput">>
                  \o (IF files.needClose THEN <<"endPB", "closeOutputs">> ELSE <<>>)
  /\ files' = [files EXCEPT !.exist = FALSE]
  /\ UNCHANGED <<taskVars, primary, deferred>>

-----------------------------------------------------------------------------
Active(where) == {stream[s][where] : s \in Streams} \ {0}

BeginRuns ==
  /\ Call("processRuns") /\ Active("run") = {}
  /\ todo' = Tail(todo) /\ failed' = FALSE
  /\ runs' = BeginRunAsync(runs, FALSE)
  /\ UNCHANGED <<inputVars, src, lumis, stream, sourceQ, iovPauses, throws, log,
                 files, primary, deferred>>

(* processRuns() after a file, or an entry of the run that is no new run:  *)
(* the entries at hand are merged, then the streams go on.  An exception   *)
(* of readAndMergeRun() leaves at once.  One of readAndMergeLumi() goes to *)
(* the task waited for, and the streams are not resumed (continueLumiAsync). *)
ContinueRun ==
  LET r == CHOOSE i \in Active("run") : TRUE
      rs == [runs EXCEPT ![r].holds = TRUE]
  IN
  /\ Call("processRuns") /\ Active("run") # {}
  /\ UNCHANGED <<inputVars, sourceQ, iovPauses>>
  /\ \/ /\ SameEntry(src.pos, "Run", runs[r].num) /\ Try(TRUE) /\ ThrowOut
        /\ UNCHANGED <<src, runs, lumis, stream, failed, log>>
     \/ /\ Active("lumi") = {}
        /\ Try(FALSE) /\ failed' = FALSE
        /\ \E o \in MergeOutcomes(src, "Run", runs[r].num, TRUE) :
             src' = o.src /\ Handled(o.entries, runs[r].num, 0)
        /\ AfterRunEntries(rs, r)
        /\ todo' = Tail(todo)
        /\ UNCHANGED <<stream, files, primary, deferred>>
     \/ /\ Active("lumi") # {}
        /\ \E x \in BOOLEAN, o \in MergeOutcomes(src, "Run", runs[r].num, TRUE) :
             LET l == CHOOSE i \in Active("lumi") : TRUE
                 n == lumis[l].num
             IN
             /\ x => o.src.kind = "Lumi" /\ input[o.src.pos].lumi = n
             /\ Try(x) /\ failed' = x
             /\ lumis' = [lumis EXCEPT ![l].state = "processing"]
             /\ IF x THEN /\ src' = o.src /\ Handled(o.entries, runs[r].num, 0)
                          /\ UNCHANGED stream
                ELSE \E p \in MergeOutcomes(o.src, "Lumi", n, TRUE) :
                       /\ src' = p.src
                       /\ log' = log \o [i \in DOMAIN o.entries |-> <<o.entries[i], runs[r].num, 0>>]
                                    \o [i \in DOMAIN p.entries |-> <<p.entries[i], runs[r].num, n>>]
                       /\ stream' = [s \in Streams |-> [stream[s] EXCEPT !.doing = "resume"]]
        /\ runs' = rs
        /\ todo' = Tail(todo)
        /\ UNCHANGED <<files, primary, deferred>>

(* The end of processRuns(): waitTask.wait()                               *)
Wait ==
  /\ Call("wait") /\ ~Busy
  /\ IF failed THEN ThrowOut
     ELSE todo' = Dispatch(src.kind) /\ UNCHANGED <<files, primary, deferred>>
  /\ UNCHANGED taskVars

(* endUnfinishedLumi()                                                     *)
EndUnfinishedLumi ==
  /\ Call("endLumis")
  /\ todo' = Tail(todo) /\ failed' = FALSE
  /\ IF Active("lumi") = {} THEN UNCHANGED <<lumis, stream>>
     ELSE LET l == CHOOSE i \in Active("lumi") : TRUE IN
          /\ lumis' = [lumis EXCEPT ![l].noMore = TRUE, ![l].toEnd = lumis[l].joined]
          /\ stream' = [s \in Streams |-> [stream[s] EXCEPT !.doing = "endLumi"]]
  /\ UNCHANGED <<inputVars, src, runs, sourceQ, iovPauses, throws, log, files, primary, deferred>>

(* endUnfinishedRun()                                                      *)
EndUnfinishedRun ==
  /\ Call("endRun")
  /\ todo' = Tail(todo) /\ failed' = FALSE
  /\ IF Active("run") = {} THEN UNCHANGED <<runs, src>>
     ELSE LET r == CHOOSE i \in Active("run") : TRUE IN
          /\ runs' = EndRunAsync([runs EXCEPT ![r].holds = TRUE], r)
          /\ src' = [src EXCEPT !.kind = "Stop"]
  /\ UNCHANGED <<inputVars, lumis, stream, sourceQ, iovPauses, throws, log, files, primary, deferred>>

(* Their wait(), in ~RunResources: an exception is deferred unless there   *)
(* is an earlier one.                                                      *)
WaitEnd ==
  /\ Call("waitEnd") /\ ~Busy
  /\ todo' = Tail(todo)
  /\ deferred' = Deferred(failed)
  /\ UNCHANGED <<taskVars, files, primary>>

MainStep == \/ NextTransition \/ OpenFile \/ CloseFile \/ MarkClosing \/ Destroy \/ BeginRuns \/ ContinueRun
            \/ Wait \/ EndUnfinishedLumi \/ EndUnfinishedRun \/ WaitEnd

(* A task handed out late finds no principal for its run or luminosity     *)
(* block, and uses the null pointer before it is asserted not to be one.   *)
Crash ==
  /\ sourceQ # <<>> /\ ~failed
  /\ \/ Head(sourceQ)[1] = "readRun" /\ ~RunPrincipalFree
     \/ Head(sourceQ)[1] = "readLumi" /\ ~LumiPrincipalFree
  /\ crashed' = TRUE
  /\ UNCHANGED <<taskVars, doNotMerge, todo, files, primary, deferred>>

(* continueLumiAsync() has failed: its run holds the task the main thread  *)
(* waits for, with the streams in a luminosity block that nobody goes on   *)
(* with, everything else is over, and no task is left.                     *)
Stranded ==
  /\ Call("wait") /\ failed /\ sourceQ = <<>>
  /\ \E r \in DOMAIN runs, l \in DOMAIN lumis :
       /\ runs[r].phase = "open" /\ runs[r].holds
       /\ lumis[l].phase = "open" /\ lumis[l].state = "processing" /\ ~lumis[l].noMore
       /\ \A q \in DOMAIN runs \ {r} : runs[q].phase \in {"closed", "dropped"}
       /\ \A k \in DOMAIN lumis \ {l} : lumis[k].phase \in {"closed", "dropped"}
       /\ \A s \in Streams : /\ stream[s].run = r /\ stream[s].lumi = l
                             /\ stream[s].doing = "nothing" /\ stream[s].queue = <<>>

Next == \/ ~crashed /\ MainStep /\ UNCHANGED <<doNotMerge, crashed>>
        \/ ~crashed /\ TaskStep /\ UNCHANGED mainVars
        \/ ~crashed /\ Crash

Spec == MainInit /\ [][Next]_allVars

(* Threads take a task that is ready, and the main thread goes on; nobody  *)
(* can count on a late start.                                              *)
FairSpec == Spec /\ WF_allVars(Next /\ ~LateStart)

-----------------------------------------------------------------------------
(* Properties.                                                             *)

(* The nesting that the transitions promise to the modules                 *)
Begun == {"next", "open", "endSync", "ending", "closed"}

Occurrences == INSTANCE OccurrenceSpec WITH
  MaxRuns <- ConcurrentRuns, MaxLumis <- ConcurrentLumis,
  begunRuns  <- {r \in DOMAIN runs : runs[r].phase \in Begun},
  endedRuns  <- {r \in DOMAIN runs : runs[r].phase = "closed"},
  begunLumis <- {<<lumis[l].run, l>> : l \in {k \in DOMAIN lumis : lumis[k].phase \in {"open", "end", "closed"}}},
  endedLumis <- {<<lumis[l].run, l>> : l \in {k \in DOMAIN lumis : lumis[k].phase = "closed"}},
  inRun   <- [s \in Streams |-> stream[s].run],
  inLumi  <- [s \in Streams |-> stream[s].lumi],
  inEvent <- {s \in Streams : stream[s].doing = "event"}

(* Whatever the order of the tasks and whoever throws, the begin and end   *)
(* transitions nest: no run or luminosity block is ended before every      *)
(* stream and luminosity block in it has ended, or twice, no stream is in  *)
(* one that has not begun, and no more are open than there are principals, *)
(* whenever the queues start them.                                         *)
ImplementsOccurrences == Occurrences!Spec

(* The items of the source are handled in the order in which it gives      *)
(* them, each once and in its own run and luminosity block, although many  *)
(* tasks take turns at reading (lastSourceTransition_, needToCallNext_);   *)
(* none is left when the job ends with no exception and no stop.           *)
SourceReadInOrder ==
  /\ \A k \in DOMAIN log : log[k] = <<k, input[k].run, input[k].lumi>>
  /\ (todo = <<>> /\ throws = 0 /\ ~mayStop) => Len(log) = Len(input) - 1

(* Whenever the main thread is between two waits, all streams are idle and *)
(* in the same run and luminosity block, which takes no new stream in, as  *)
(* the assertions of processRuns(), endUnfinishedLumi() and                *)
(* noMoreEventsInLumi() require; when the output files are closed there is *)
(* no run left to write.                                                   *)
StreamsAgree ==
  (todo # <<>> /\ Head(todo) \notin {"wait", "waitEnd"}) =>
    /\ \A s, t \in Streams : stream[s].run = stream[t].run /\ stream[s].lumi = stream[t].lumi
    /\ Call("endLumis") => \A s \in Streams :
         /\ stream[s].doing = "nothing"
         /\ stream[s].lumi # 0 => ~lumis[stream[s].lumi].noMore
                                 /\ lumis[stream[s].lumi].joined = N
    /\ Head(todo) \in {"endPB", "closeOutputs"} => Active("run") = {} /\ OpenRuns = {}

(* When the job is over, normally or after exceptions, everything that was *)
(* begun has been ended: runs and luminosity blocks, the pauses of the     *)
(* streams' queues and of the queue that waits for IOVs, and the output    *)
(* files, unless closing them threw (~RunResources, ~FileResources).       *)
AllClosed ==
  todo = <<>> =>
    /\ \A r \in DOMAIN runs : runs[r].phase \in {"closed", "dropped"} /\ ~runs[r].holds
    /\ \A l \in DOMAIN lumis : lumis[l].phase \in {"closed", "dropped"}
    /\ \A s \in Streams : stream[s].run = 0 /\ stream[s].lumi = 0
                            /\ stream[s].pauses = 0 /\ stream[s].queue = <<>>
    /\ sourceQ = <<>> /\ iovPauses = 0
    /\ files.outs => files.lost

(* A job in which anything threw ends by throwing: the exception that left *)
(* processFiles(), or one that a destructor has deferred.                  *)
FailureReported == (todo = <<>> /\ throws > 0) => (primary \/ deferred)

(* Every job comes to its end, whatever throws, unless it crashes          *)
(* (TransitionProcessors.icc:53-58).                                       *)
JobEnds == <>(todo = <<>> \/ crashed)

(* ... but for the one way in which continueLumiAsync() strands it: no     *)
(* stream waits for another, for the source, for a principal or for an IOV *)
(* for ever.                                                               *)
JobEndsUnlessStranded == <>(todo = <<>> \/ Stranded \/ crashed)
=============================================================================
