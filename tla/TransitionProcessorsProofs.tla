--------------------- MODULE TransitionProcessorsProofs ---------------------
(***************************************************************************)
(* Proofs about TransitionProcessors and the tasks of EventProcessor, for  *)
(* any streams, inputs, numbers of concurrent runs and luminosity blocks,  *)
(* and exceptions.                                                         *)
(***************************************************************************)
EXTENDS TransitionProcessors, Integers, FiniteSetTheorems, TLAPS

(* A run is begun for the streams when the task that begins it has been    *)
(* pushed to their queues, and live until the one that ends it is pushed.  *)
NotBegun == {"sync", "queue", "read", "merge", "begin", "dropped"}
Live     == {"next", "open", "endSync"}
Coming   == {"sync", "queue", "read", "merge", "begin"}   \* luminosity blocks

RunFields   == {"num", "phase", "holds", "ok", "esOK", "toBegin", "toEnd", "enders"}
LumiFields  == {"run", "num", "phase", "ok", "noMore", "state", "started", "joined", "toEnd"}
Doings      == {"nothing", "beginRun", "beginLumi", "next", "event", "endLumi", "endRun", "resume"}
StreamTasks == {"beginRun", "beginLumi", "endRun"} \X Nat
SourceTasks == ({"readRun", "mergeRun", "nextItem", "readLumi", "mergeLumi"} \X Nat)
               \cup ({"event"} \X Streams)

IsList(q) == q \in Seq({q[i] : i \in DOMAIN q})

Queued(s, task) == \E i \in DOMAIN stream[s].queue : stream[s].queue[i] = task
InRun(s) == stream[s].run # 0 /\ stream[s].doing # "endRun"

-----------------------------------------------------------------------------
(* The inductive invariant.                                                *)

(* The types that do not depend on what the source holds.                  *)
RunRecord(x) ==
  /\ DOMAIN x = RunFields /\ x = [f \in RunFields |-> x[f]] /\ x.phase \in RunPhases
  /\ x.holds \in BOOLEAN /\ x.ok \in BOOLEAN /\ x.esOK \in BOOLEAN
  /\ x.toBegin \in Int /\ x.toEnd \in Int /\ x.enders \in Int

LumiRecord(x) ==
  /\ DOMAIN x = LumiFields /\ x = [f \in LumiFields |-> x[f]] /\ x.run \in Nat /\ x.phase \in LumiPhases
  /\ x.ok \in BOOLEAN /\ x.noMore \in BOOLEAN /\ x.started \in BOOLEAN
  /\ x.joined \in Int /\ x.toEnd \in Int

StreamRecords == [run : Nat, lumi : Nat, doing : Doings, queue : Seq(StreamTasks), pauses : Int]

RecordTypes ==
  /\ IsList(runs) /\ IsList(lumis)
  /\ \A r \in DOMAIN runs : RunRecord(runs[r])
  /\ \A l \in DOMAIN lumis : LumiRecord(lumis[l])
  /\ stream \in [Streams -> StreamRecords]

Shape ==
  /\ RecordTypes /\ sourceQ \in Seq(SourceTasks)
  /\ iovPauses \in Int /\ failed \in BOOLEAN /\ throws \in Nat

(* A run is made when the one before it is as good as over.                *)
RunsInTurn ==
  \A r \in DOMAIN runs : r # Len(runs) => runs[r].phase \in {"ending", "closed", "dropped"}

(* A luminosity block that streams may still join, or that is not begun    *)
(* yet, is the last one made, and its run is open.                         *)
Current(l) == lumis[l].phase \in Coming \/ (lumis[l].phase = "open" /\ ~lumis[l].noMore)

LumisInTurn ==
  \A l \in DOMAIN lumis :
    /\ lumis[l].run \in DOMAIN runs /\ runs[lumis[l].run].phase \notin NotBegun
    /\ Current(l) => l = Len(lumis) /\ runs[lumis[l].run].phase = "open"

(* A stream is in a luminosity block only while it is in its run, and its  *)
(* queue is paused while it is in a transition or a luminosity block.      *)
InPlace(s) ==
  /\ stream[s].run \in {0} \cup DOMAIN runs
  /\ stream[s].lumi \in {0} \cup DOMAIN lumis
  /\ stream[s].doing \in (IF stream[s].lumi = 0 THEN {"nothing", "beginRun", "endRun"}
                          ELSE Doings \ {"beginRun", "endRun"})
  /\ stream[s].doing \in {"beginRun", "endRun"} => stream[s].run # 0
  /\ stream[s].lumi # 0 => stream[s].run = lumis[stream[s].lumi].run
  /\ stream[s].pauses = IF stream[s].doing \in {"beginRun", "endRun"} \/ stream[s].lumi # 0
                        THEN 1 ELSE 0

StreamsPlaced == \A s \in Streams : InPlace(s)

(* What a stream has in its queue: a run, its luminosity blocks, the end   *)
(* of the run, and then the next run.                                      *)
RunOfTask(x)  == IF x[1] = "beginLumi" THEN lumis[x[2]].run ELSE x[2]
Follows(x, y) == IF x[1] = "endRun" THEN y[1] = "beginRun"
                 ELSE y[1] # "beginRun" /\ RunOfTask(y) = RunOfTask(x)
First(s, y)   == IF InRun(s) THEN Follows(<<"beginRun", stream[s].run>>, y) ELSE y[1] = "beginRun"
Inside(x, r)  == x[1] # "endRun" /\ RunOfTask(x) = r

QueueInOrder(s) ==
  LET q == stream[s].queue IN
  /\ \A i \in DOMAIN q : q[i][2] \in (IF q[i][1] = "beginLumi" THEN DOMAIN lumis ELSE DOMAIN runs)
  /\ \A i \in DOMAIN q : i + 1 \in DOMAIN q => Follows(q[i], q[i + 1])
  /\ q # <<>> => First(s, q[1])

QueuesInOrder == \A s \in Streams : QueueInOrder(s)

(* Where a queue ends, and whether the stream is in a run when it is empty *)
QueueEnd(s) ==
  LET q == stream[s].queue IN
  /\ \A r \in DOMAIN runs : runs[r].phase \in Live =>
       IF q = <<>> THEN InRun(s) /\ stream[s].run = r ELSE Inside(q[Len(q)], r)
  /\ (\A r \in DOMAIN runs : runs[r].phase \notin Live) =>
       IF q = <<>> THEN ~InRun(s) ELSE q[Len(q)][1] = "endRun"

QueuesEnd == \A s \in Streams : QueueEnd(s)

(* The counts of a run: the streams that have not begun it, those that     *)
(* have not ended it, and who is in the way of its global end.             *)
Unfinished(r) == {s \in Streams : Queued(s, <<"beginRun", r>>) \/ stream[s].run = r}
Beginning(r)  == {s \in Streams : \/ Queued(s, <<"beginRun", r>>)
                                  \/ stream[s].run = r /\ stream[s].doing = "beginRun"}
LumisOf(r)    == {l \in DOMAIN lumis : lumis[l].run = r /\ lumis[l].phase \in {"open", "end"}}

RunsCounted ==
  \A r \in DOMAIN runs :
    /\ runs[r].phase \in NotBegun =>
         runs[r].toBegin = N /\ runs[r].toEnd = N /\ Unfinished(r) = {}
    /\ runs[r].phase \notin NotBegun =>
         /\ runs[r].toBegin = Cardinality(Beginning(r))
         /\ runs[r].toEnd = Cardinality(Unfinished(r))
    /\ runs[r].enders = (IF runs[r].toEnd = 0 THEN 0 ELSE 1) + Cardinality(LumisOf(r))
    /\ runs[r].phase = "closed" => runs[r].enders = 0

BegunOnce ==
  \A s \in Streams : LET q == stream[s].queue IN
    \A i \in DOMAIN q : q[i][1] = "beginRun" =>
      /\ q[i][2] # stream[s].run
      /\ \A j \in DOMAIN q : q[j] = q[i] => j = i

(* The counts of a luminosity block: the streams in it.  Once it has no    *)
(* more events none joins it, and it ends when the last has left.          *)
In(l) == {s \in Streams : stream[s].lumi = l}

LumisCounted ==
  \A l \in DOMAIN lumis :
    /\ lumis[l].phase \in Coming => lumis[l].joined = 0
    /\ lumis[l].phase # "open" => In(l) = {}
    /\ lumis[l].phase = "open" /\ ~lumis[l].noMore => lumis[l].joined = Cardinality(In(l))
    /\ lumis[l].phase = "open" /\ lumis[l].noMore =>
         lumis[l].toEnd = Cardinality(In(l)) /\ In(l) # {}

Idle(l) == \A s \in Streams : stream[s].lumi = l /\ stream[s].doing = "nothing"

LumisJoined ==
  \A l \in DOMAIN lumis :
    /\ lumis[l].phase \in Coming => ~lumis[l].noMore
    /\ lumis[l].started => lumis[l].noMore /\ lumis[l].state = "stop"
    /\ lumis[l].phase = "open" /\ ~lumis[l].noMore =>
         \A s \in Streams : stream[s].lumi = l \/ Queued(s, <<"beginLumi", l>>)
    /\ \A s \in Streams : Queued(s, <<"beginLumi", l>>) =>
         /\ lumis[l].phase \in {"open", "end", "closed"}
         /\ ~lumis[l].noMore => lumis[l].phase = "open"
    /\ \A s \in In(l) :
         /\ lumis[l].noMore /\ ~lumis[l].started => stream[s].doing = "endLumi"
         /\ stream[s].doing = "endLumi" => lumis[l].noMore
         /\ stream[s].doing = "nothing" => /\ ~lumis[l].noMore
                                           /\ lumis[l].state = "pause" \/ Idle(l)

(* A task that waits for the source belongs to a run, luminosity block or  *)
(* stream that is waiting for it.                                          *)
SourceTask(x) ==
  \/ x[1] = "readRun" /\ x[2] \in DOMAIN runs /\ runs[x[2]].phase = "read"
  \/ x[1] = "mergeRun" /\ x[2] \in DOMAIN runs /\ runs[x[2]].phase = "merge"
  \/ x[1] = "nextItem" /\ x[2] \in DOMAIN runs /\ runs[x[2]].phase = "next"
  \/ x[1] = "readLumi" /\ x[2] \in DOMAIN lumis /\ lumis[x[2]].phase = "read"
  \/ x[1] = "mergeLumi" /\ x[2] \in DOMAIN lumis /\ lumis[x[2]].phase = "merge"
  \/ x[1] = "event" /\ x[2] \in Streams /\ stream[x[2]].doing = "next"

SourceWaitedFor ==
  \A i \in DOMAIN sourceQ : /\ SourceTask(sourceQ[i])
                            /\ \A j \in DOMAIN sourceQ : sourceQ[j] = sourceQ[i] => j = i

(* The queue that waits for IOVs is paused by the runs that streams have   *)
(* still to begin, by those that end, and by luminosity blocks.            *)
HeldToBegin == {r \in DOMAIN runs : runs[r].phase \notin {"sync", "dropped"} /\ runs[r].toBegin # 0}
HeldToEnd   == {r \in DOMAIN runs : runs[r].phase = "ending"}
HeldByLumi  == {l \in DOMAIN lumis : lumis[l].phase \notin {"sync", "closed", "dropped"}}

PausesCounted ==
  iovPauses = Cardinality(HeldToBegin) + Cardinality(HeldToEnd) + Cardinality(HeldByLumi)

WithinLimits ==
  /\ Cardinality(OpenRuns) <= ConcurrentRuns
  /\ Cardinality(OpenLumis) <= ConcurrentLumis

-----------------------------------------------------------------------------
(* The main thread.                                                        *)

Waiting == todo # <<>> /\ Head(todo) \in {"wait", "waitEnd"}

Calls == Opening \cup Closing \cup {"next", "processRuns", "wait", "mark", "endLumis", "endRun",
                                    "waitEnd", "destroy"}

CloseInput == <<"respondClose", "closeInput">>
CloseAll   == <<"respondClose", "closeInput", "endPB", "closeOutputs">>
Process    == <<"processRuns", "wait">>
Plans      == {<<"next">>, Process, OpenFirst, OpenInput, OpenBoth, EndJob, CloseInput, CloseAll}

(* The calls to be made are those of plan p from the i-th on.              *)
Rest(p, i) == /\ Len(todo) = Len(p) + 1 - i
              /\ \A j \in 1..Len(todo) : todo[j] = p[i + j - 1]

(* While the streams end the luminosity block they are in, and while the   *)
(* run is ended, nothing else happens.                                     *)
EndingLumi ==
  /\ sourceQ = <<>>
  /\ \A r \in DOMAIN runs : runs[r].phase \in {"open", "closed", "dropped"}
  /\ \A l \in DOMAIN lumis : lumis[l].phase \notin Coming /\ (lumis[l].phase = "open" => lumis[l].noMore)
  /\ \A s \in Streams : stream[s].queue = <<>>
                        /\ stream[s].doing = IF stream[s].lumi = 0 THEN "nothing" ELSE "endLumi"

NoLumi == \A l \in DOMAIN lumis : lumis[l].phase \in {"closed", "dropped"}

EndingRun ==
  /\ NoLumi
  /\ \A r \in DOMAIN runs : /\ runs[r].phase \in {"endSync", "ending", "closed", "dropped"}
                            /\ runs[r].phase = "endSync" => src.kind # "Run"

Ended == /\ \A r \in DOMAIN runs : runs[r].phase \in {"closed", "dropped"}
         /\ NoLumi

At(p, i) ==
  /\ p \in {EndJob, OpenBoth} =>
       /\ i = 2 => EndingLumi
       /\ i = 3 => NoLumi
       /\ i = 4 => EndingRun
       /\ i \in 5..9 => Ended
  /\ p \in {CloseInput, CloseAll} => Ended
  /\ i = Len(p) + 1 => p \in {EndJob, CloseInput, CloseAll}

(* The output files are open only while there is a FileResources that will *)
(* close them, unless closing them has failed.                             *)
FilesAt(p, i) ==
  /\ files.outs => files.needClose
  /\ p \in {OpenInput, OpenBoth} => files.exist
  /\ p \in {CloseInput, CloseAll} => ~files.exist
  /\ p = CloseInput \/ (p = CloseAll /\ i = 5) => ~files.outs
  /\ p = EndJob /\ i = 6 => (files.outs => files.lost)
  /\ p \notin {CloseInput, CloseAll} /\ ~(p = EndJob /\ i = 6) => (files.outs => files.exist)
  /\ files.closeFailed => files.lost \/ (p = OpenBoth /\ i \in 6..9)

MainInTurn ==
  /\ todo \in Seq(Calls)
  /\ DOMAIN files = {"exist", "needClose", "closeFailed", "outs", "lost"}
  /\ \A flag \in DOMAIN files : files[flag] \in BOOLEAN
  /\ \E p \in Plans : \E i \in 1..(Len(p) + 1) : Rest(p, i) /\ At(p, i) /\ FilesAt(p, i)
  /\ ~Waiting => ~Busy

(* An exception that the main thread does not know of yet is waiting for   *)
(* it.                                                                     *)
FailuresKnown == throws > 0 => primary \/ deferred \/ (failed /\ Waiting)

TaskInv == /\ Shape /\ RunsInTurn /\ LumisInTurn /\ StreamsPlaced /\ QueuesInOrder /\ QueuesEnd
           /\ RunsCounted /\ BegunOnce /\ LumisCounted /\ LumisJoined /\ SourceWaitedFor
           /\ PausesCounted /\ WithinLimits

JobInv == TaskInv /\ MainInTurn /\ FailuresKnown

-----------------------------------------------------------------------------
(* What a step does to the runs, luminosity blocks and streams.            *)

RunTo(rs, r, phase, toBegin, toEnd, enders) ==
  /\ IsList(rs) /\ Len(rs) = Len(runs) /\ DOMAIN rs = DOMAIN runs
  /\ \A q \in DOMAIN runs \ {r} : rs[q] = runs[q]
  /\ RunRecord(rs[r]) /\ rs[r].phase = phase
  /\ rs[r].toBegin = toBegin /\ rs[r].toEnd = toEnd /\ rs[r].enders = enders
  /\ rs[r].num = runs[r].num

RunMoves(rs, r, phase) == RunTo(rs, r, phase, runs[r].toBegin, runs[r].toEnd, runs[r].enders)

RunMade(rs) ==
  /\ IsList(runs') /\ Len(runs') = Len(rs) + 1 /\ DOMAIN runs' = DOMAIN rs \cup {Len(rs) + 1}
  /\ Len(rs) + 1 \notin DOMAIN rs
  /\ \A q \in DOMAIN rs : runs'[q] = rs[q]
  /\ LET x == runs'[Len(rs) + 1] IN
     RunRecord(x) /\ x.phase = "sync" /\ x.toBegin = N /\ x.toEnd = N /\ x.enders = 1

LumiTo(ls, l, phase, noMore, state, started, joined, toEnd) ==
  /\ IsList(ls) /\ Len(ls) = Len(lumis) /\ DOMAIN ls = DOMAIN lumis
  /\ \A k \in DOMAIN lumis \ {l} : ls[k] = lumis[k]
  /\ LumiRecord(ls[l]) /\ ls[l].run = lumis[l].run /\ ls[l].phase = phase
  /\ ls[l].noMore = noMore /\ ls[l].state = state /\ ls[l].started = started
  /\ ls[l].joined = joined /\ ls[l].toEnd = toEnd /\ ls[l].num = lumis[l].num

LumiMoves(l, phase) == LumiTo(lumis', l, phase, lumis[l].noMore, lumis[l].state, lumis[l].started,
                              lumis[l].joined, lumis[l].toEnd)

LumiMade(ls, r) ==
  /\ IsList(lumis') /\ Len(lumis') = Len(ls) + 1 /\ DOMAIN lumis' = DOMAIN ls \cup {Len(ls) + 1}
  /\ Len(ls) + 1 \notin DOMAIN ls
  /\ \A k \in DOMAIN ls : lumis'[k] = ls[k]
  /\ LET x == lumis'[Len(ls) + 1] IN
     /\ LumiRecord(x) /\ x.run = r /\ x.phase = "sync" /\ ~x.noMore /\ ~x.started
     /\ x.joined = 0 /\ x.toEnd = 0 /\ x.state = "processing"

StreamTo(s, run, lumi, doing, queue, pauses) ==
  /\ stream' \in [Streams -> StreamRecords]
  /\ \A t \in Streams \ {s} : stream'[t] = stream[t]
  /\ stream'[s] = [run |-> run, lumi |-> lumi, doing |-> doing, queue |-> queue, pauses |-> pauses]

StreamDoes(s, doing) ==
  StreamTo(s, stream[s].run, stream[s].lumi, doing, stream[s].queue, stream[s].pauses)

Pushed(task) ==
  /\ stream' \in [Streams -> StreamRecords] /\ task \in StreamTasks
  /\ \A s \in Streams : stream'[s] = [stream[s] EXCEPT !.queue = Append(@, task)]

StreamsDo(doing) ==
  /\ stream' \in [Streams -> StreamRecords]
  /\ \A s \in Streams : stream'[s] = [stream[s] EXCEPT !.doing = doing]

(* A step of a run before its streams begin it, or after they end it.      *)
RunAdvances(r, phase) ==
  /\ <<runs[r].phase, phase>> \in
       {<<"sync", "queue">>, <<"queue", "read">>, <<"queue", "dropped">>, <<"read", "dropped">>,
        <<"read", "begin">>, <<"read", "merge">>, <<"merge", "dropped">>, <<"merge", "begin">>,
        <<"ending", "closed">>}
  /\ runs[r].phase = "read" /\ phase # "dropped" => Cardinality(OpenRuns) < ConcurrentRuns
  /\ phase = "closed" => runs[r].enders = 0
  /\ RunMoves(runs', r, phase) /\ UNCHANGED <<lumis, stream>>

(* The run goes on after its entries were read: it is open, and perhaps a  *)
(* luminosity block is made, or it ends.                                   *)
GoesOn(r, phase) ==
  \/ phase \in {"open", "endSync"} /\ UNCHANGED lumis
  \/ phase = "open" /\ LumiMade(lumis, r)

NoCurrent == \A l \in DOMAIN lumis : ~Current(l)

RunGoesOn(r, phase) ==
  /\ runs[r].phase \in {"next", "open"} /\ NoCurrent
  /\ RunMoves(runs', r, phase) /\ GoesOn(r, phase) /\ UNCHANGED stream

RunBegins(r, phase) ==
  /\ runs[r].phase = "begin"
  /\ RunMoves(runs', r, phase) /\ Pushed(<<"beginRun", r>>)
  /\ (phase = "next" /\ UNCHANGED lumis) \/ GoesOn(r, phase)

RunEnds(r, rs) ==
  /\ runs[r].phase = "endSync"
  /\ RunMoves(rs, r, "ending") /\ (runs' = rs \/ RunMade(rs))
  /\ Pushed(<<"endRun", r>>) /\ UNCHANGED lumis

LumiAdvances(l, phase) ==
  /\ <<lumis[l].phase, phase>> \in
       {<<"sync", "queue">>, <<"queue", "read">>, <<"read", "begin">>, <<"read", "merge">>,
        <<"merge", "begin">>}
  /\ lumis[l].phase = "read" => Cardinality(OpenLumis) < ConcurrentLumis
  /\ LumiMoves(l, phase) /\ UNCHANGED <<runs, stream>>

LumiDropped(l) ==
  /\ lumis[l].phase \in {"queue", "read"}
  /\ LumiMoves(l, "dropped") /\ RunMoves(runs', lumis[l].run, "endSync") /\ UNCHANGED stream

(* An end or begin of luminosity block l: its run counts it.               *)
Counts(l, phase, d) ==
  LET r == lumis[l].run IN
  RunTo(runs', r, phase, runs[r].toBegin, runs[r].toEnd, runs[r].enders + d)

LumiUnbegun(l) ==
  /\ lumis[l].phase \in {"merge", "begin"}
  /\ LumiMoves(l, "end") /\ Counts(l, "endSync", 1) /\ UNCHANGED stream

LumiBegins(l) ==
  /\ lumis[l].phase = "begin"
  /\ LumiMoves(l, "open") /\ Counts(l, runs[lumis[l].run].phase, 1) /\ Pushed(<<"beginLumi", l>>)

LumiEnds(l) ==
  /\ lumis[l].phase = "end"
  /\ LumiMoves(l, "closed") /\ Counts(l, runs[lumis[l].run].phase, -1) /\ UNCHANGED stream

(* A step of a stream: it takes a task out of its queue, ...               *)
Takes(s, what) ==
  /\ stream[s].queue # <<>> /\ stream[s].pauses = 0 /\ Head(stream[s].queue)[1] = what
  /\ UNCHANGED runs

BeginsRun(s) ==
  /\ Takes(s, "beginRun") /\ UNCHANGED lumis
  /\ StreamTo(s, Head(stream[s].queue)[2], stream[s].lumi, "beginRun", Tail(stream[s].queue), 1)

EndsRun(s) ==
  /\ Takes(s, "endRun") /\ UNCHANGED lumis
  /\ StreamTo(s, stream[s].run, stream[s].lumi, "endRun", Tail(stream[s].queue), 1)

Joins(s) ==
  LET l == Head(stream[s].queue)[2] IN
  /\ Takes(s, "beginLumi") /\ ~lumis[l].noMore
  /\ StreamTo(s, stream[s].run, l, "beginLumi", Tail(stream[s].queue), 1)
  /\ LumiTo(lumis', l, lumis[l].phase, lumis[l].noMore, lumis[l].state, lumis[l].started,
            lumis[l].joined + 1, lumis[l].toEnd)

Skips(s) ==
  /\ Takes(s, "beginLumi") /\ lumis[Head(stream[s].queue)[2]].noMore /\ UNCHANGED lumis
  /\ StreamTo(s, stream[s].run, stream[s].lumi, stream[s].doing, Tail(stream[s].queue), 0)

(* ... has begun its run, or ended it, ...                                 *)
HasBegun(s) ==
  LET r == stream[s].run IN
  /\ stream[s].doing = "beginRun"
  /\ RunTo(runs', r, runs[r].phase, runs[r].toBegin - 1, runs[r].toEnd, runs[r].enders)
  /\ StreamTo(s, r, stream[s].lumi, "nothing", stream[s].queue, stream[s].pauses - 1)
  /\ UNCHANGED lumis

HasEnded(s) ==
  LET r == stream[s].run IN
  /\ stream[s].doing = "endRun"
  /\ RunTo(runs', r, runs[r].phase, runs[r].toBegin, runs[r].toEnd - 1,
           IF runs[r].toEnd = 1 THEN runs[r].enders - 1 ELSE runs[r].enders)
  /\ StreamTo(s, 0, stream[s].lumi, "nothing", stream[s].queue, stream[s].pauses - 1)
  /\ UNCHANGED lumis

(* ... and in its luminosity block it goes on, pauses for a file, finds    *)
(* the end of the luminosity block, and leaves.                            *)
Over(s) == lumis[stream[s].lumi].started

Does(s, doing) ==
  /\ \/ stream[s].doing \in {"beginLumi", "event", "resume"}
        /\ doing = IF Over(s) THEN "endLumi" ELSE "next"
     \/ stream[s].doing = "next" /\ doing = "event"
     \/ stream[s].doing = "next" /\ doing = "endLumi" /\ Over(s)
  /\ StreamDoes(s, doing) /\ UNCHANGED <<runs, lumis>>

Pauses(s) ==
  LET l == stream[s].lumi IN
  /\ stream[s].doing = "next" /\ ~Over(s)
  /\ StreamDoes(s, "nothing")
  /\ LumiTo(lumis', l, lumis[l].phase, lumis[l].noMore, "pause", lumis[l].started, lumis[l].joined,
            lumis[l].toEnd)
  /\ RunMoves(runs', lumis[l].run, runs[lumis[l].run].phase)

Stops(s, ls) ==
  LET l == stream[s].lumi
      r == lumis[l].run IN
  /\ stream[s].doing = "next" /\ ~Over(s) /\ lumis[l].state # "pause"
  /\ StreamDoes(s, "endLumi")
  /\ LumiTo(ls, l, lumis[l].phase, TRUE, "stop", TRUE, lumis[l].joined, lumis[l].joined)
  /\ \/ LumiMade(ls, r) /\ UNCHANGED runs
     \/ lumis' = ls /\ RunMoves(runs', r, "endSync")

Leaves(s) ==
  LET l == stream[s].lumi IN
  /\ stream[s].doing = "endLumi"
  /\ LumiTo(lumis', l, IF lumis[l].toEnd = 1 THEN "end" ELSE lumis[l].phase, lumis[l].noMore,
            lumis[l].state, lumis[l].started, lumis[l].joined, lumis[l].toEnd - 1)
  /\ StreamTo(s, stream[s].run, 0, "nothing", stream[s].queue, stream[s].pauses - 1)
  /\ UNCHANGED runs

(* What the main thread does when the streams are idle.                    *)
MakesRun ==
  /\ \A r \in DOMAIN runs : runs[r].phase \in {"ending", "closed", "dropped"}
  /\ RunMade(runs) /\ UNCHANGED <<lumis, stream>>

Resumes(l) ==
  LET r == lumis[l].run IN
  /\ Idle(l)
  /\ LumiTo(lumis', l, lumis[l].phase, lumis[l].noMore, "processing", lumis[l].started,
            lumis[l].joined, lumis[l].toEnd)
  /\ RunMoves(runs', r, runs[r].phase) /\ (StreamsDo("resume") \/ UNCHANGED stream)

CallsOff(l) ==
  /\ Idle(l)
  /\ LumiTo(lumis', l, lumis[l].phase, TRUE, lumis[l].state, lumis[l].started, lumis[l].joined,
            lumis[l].joined)
  /\ StreamsDo("endLumi") /\ UNCHANGED runs

RunChange(r) ==
  \/ \E phase \in RunPhases : RunAdvances(r, phase) \/ RunGoesOn(r, phase) \/ RunBegins(r, phase)
  \/ \E rs : RunEnds(r, rs)

LumiChange(l) ==
  \/ \E phase \in LumiPhases : LumiAdvances(l, phase)
  \/ LumiDropped(l) \/ LumiUnbegun(l) \/ LumiBegins(l) \/ LumiEnds(l)

StreamChange(s) ==
  \/ BeginsRun(s) \/ EndsRun(s) \/ Joins(s) \/ Skips(s) \/ HasBegun(s) \/ HasEnded(s)
  \/ \E doing \in Doings : Does(s, doing)
  \/ Pauses(s) \/ Leaves(s)
  \/ \E ls : Stops(s, ls)

Change == \/ \E r \in DOMAIN runs : RunChange(r)
          \/ \E l \in DOMAIN lumis : LumiChange(l)
          \/ \E s \in Streams : StreamChange(s)
          \/ MakesRun
          \/ \E l \in DOMAIN lumis : Resumes(l) \/ CallsOff(l)
          \/ UNCHANGED <<runs, lumis, stream>>

-----------------------------------------------------------------------------
(* Lists, and what a step does to the records in them.                     *)

LEMMA ListFacts ==
  ASSUME NEW q, IsList(q)
  PROVE  Len(q) \in Nat /\ DOMAIN q = 1..Len(q)
BY DEF IsList

LEMMA ListOf ==
  ASSUME NEW S, NEW q \in Seq(S)
  PROVE  IsList(q) /\ Len(q) \in Nat /\ DOMAIN q = 1..Len(q)
BY DEF IsList

LEMMA UpdateFacts ==
  ASSUME NEW q, IsList(q), NEW T, NEW p \in [DOMAIN q -> T]
  PROVE  IsList(p) /\ Len(p) = Len(q)
<1>1. DOMAIN q = 1..Len(q) /\ Len(q) \in Nat
  BY ListFacts
<1>2. p \in Seq(T)
  BY <1>1
<1>3. DOMAIN p = DOMAIN q /\ Len(p) = Len(q)
  BY <1>1, <1>2
<1>4. p \in Seq({p[j] : j \in DOMAIN p})
  BY <1>2
<1> QED
  BY <1>3, <1>4 DEF IsList

-----------------------------------------------------------------------------
(* Every step is one of these changes.                                     *)

LEMMA NFacts == N \in Nat /\ N > 0
BY EventProcessorAssumption, FS_CardinalityType, FS_EmptySet DEF N

LEMMA RunToRule ==
  ASSUME IsList(runs), NEW r \in DOMAIN runs, NEW T, NEW rs \in [DOMAIN runs -> T],
         \A q \in DOMAIN runs \ {r} : rs[q] = runs[q], RunRecord(rs[r]),
         NEW phase, NEW toBegin, NEW toEnd, NEW enders,
         rs[r].phase = phase, rs[r].toBegin = toBegin, rs[r].toEnd = toEnd, rs[r].enders = enders,
         rs[r].num = runs[r].num
  PROVE  RunTo(rs, r, phase, toBegin, toEnd, enders)
BY UpdateFacts DEF RunTo

LEMMA LumiToRule ==
  ASSUME IsList(lumis), NEW l \in DOMAIN lumis, NEW T, NEW ls \in [DOMAIN lumis -> T],
         \A k \in DOMAIN lumis \ {l} : ls[k] = lumis[k], LumiRecord(ls[l]),
         ls[l].run = lumis[l].run, ls[l].num = lumis[l].num,
         NEW phase, NEW noMore, NEW state, NEW started, NEW joined, NEW toEnd,
         ls[l].phase = phase, ls[l].noMore = noMore, ls[l].state = state,
         ls[l].started = started, ls[l].joined = joined, ls[l].toEnd = toEnd
  PROVE  LumiTo(ls, l, phase, noMore, state, started, joined, toEnd)
BY UpdateFacts DEF LumiTo

LEMMA RunMadeRule ==
  ASSUME NEW rs, IsList(rs), NEW n, runs' = Append(rs, NewRun(n))
  PROVE  RunMade(rs)
<1> DEFINE x == NewRun(n)
<1>1. RunRecord(x) /\ x.phase = "sync" /\ x.toBegin = N /\ x.toEnd = N /\ x.enders = 1
  BY NFacts DEF NewRun, RunRecord, RunFields, RunPhases
<1>2. runs' = Append(rs, x)
  OBVIOUS
<1> HIDE DEF x
<1>3. /\ IsList(runs') /\ Len(runs') = Len(rs) + 1 /\ DOMAIN runs' = DOMAIN rs \cup {Len(rs) + 1}
      /\ runs'[Len(rs) + 1] = x /\ Len(rs) + 1 \notin DOMAIN rs
      /\ \A i \in DOMAIN rs : runs'[i] = rs[i]
  <2> DEFINE S == {rs[i] : i \in DOMAIN rs} \cup {x}
  <2>1. rs \in Seq(S) /\ x \in S
    BY DEF IsList
  <2>2. /\ runs' \in Seq(S) /\ Len(runs') = Len(rs) + 1
        /\ runs'[Len(rs) + 1] = x /\ \A i \in DOMAIN rs : runs'[i] = rs[i]
        /\ DOMAIN rs = 1..Len(rs) /\ Len(rs) \in Nat
    BY <1>2, <2>1
  <2>3. IsList(runs') /\ DOMAIN runs' = 1..Len(runs')
    <3> HIDE DEF S
    <3> QED
      BY <2>2, ListOf
  <2> QED
    BY <2>2, <2>3
<1> QED
  BY <1>1, <1>3 DEF RunMade

LEMMA LumiMadeRule ==
  ASSUME NEW ls, IsList(ls), NEW r \in Nat, NEW n, lumis' = Append(ls, NewLumi(r, n))
  PROVE  LumiMade(ls, r)
<1> DEFINE x == NewLumi(r, n)
<1>1. /\ LumiRecord(x) /\ x.run = r /\ x.phase = "sync" /\ ~x.noMore /\ ~x.started
      /\ x.joined = 0 /\ x.toEnd = 0 /\ x.state = "processing"
  BY DEF NewLumi, LumiRecord, LumiFields, LumiPhases
<1>2. lumis' = Append(ls, x)
  OBVIOUS
<1> HIDE DEF x
<1>3. /\ IsList(lumis') /\ Len(lumis') = Len(ls) + 1 /\ DOMAIN lumis' = DOMAIN ls \cup {Len(ls) + 1}
      /\ lumis'[Len(ls) + 1] = x /\ Len(ls) + 1 \notin DOMAIN ls
      /\ \A i \in DOMAIN ls : lumis'[i] = ls[i]
  <2> DEFINE S == {ls[i] : i \in DOMAIN ls} \cup {x}
  <2>1. ls \in Seq(S) /\ x \in S
    BY DEF IsList
  <2>2. /\ lumis' \in Seq(S) /\ Len(lumis') = Len(ls) + 1
        /\ lumis'[Len(ls) + 1] = x /\ \A i \in DOMAIN ls : lumis'[i] = ls[i]
        /\ DOMAIN ls = 1..Len(ls) /\ Len(ls) \in Nat
    BY <1>2, <2>1
  <2>3. IsList(lumis') /\ DOMAIN lumis' = 1..Len(lumis')
    <3> HIDE DEF S
    <3> QED
      BY <2>2, ListOf
  <2> QED
    BY <2>2, <2>3
<1> QED
  BY <1>1, <1>3 DEF LumiMade

LEMMA InList ==
  ASSUME TaskInv
  PROVE  /\ IsList(runs) /\ IsList(lumis)
         /\ DOMAIN runs = 1..Len(runs) /\ Len(runs) \in Nat
         /\ DOMAIN lumis = 1..Len(lumis) /\ Len(lumis) \in Nat
         /\ \A r \in DOMAIN runs : RunRecord(runs[r]) /\ r \in Nat /\ r # 0
         /\ \A l \in DOMAIN lumis : LumiRecord(lumis[l]) /\ l \in Nat /\ l # 0
         /\ \A l \in DOMAIN lumis : lumis[l].run \in DOMAIN runs
         /\ stream \in [Streams -> StreamRecords]
BY ListFacts DEF TaskInv, Shape, RecordTypes, LumisInTurn

(* A change of the phase and of fields that nothing here depends on.       *)
LEMMA PhaseRule ==
  ASSUME TaskInv, NEW r \in DOMAIN runs, NEW phase \in RunPhases, NEW T,
         NEW rs \in [DOMAIN runs -> T], \A q \in DOMAIN runs \ {r} : rs[q] = runs[q],
         rs[r] = [f \in RunFields |-> rs[r][f]], rs[r].phase = phase, rs[r].num = runs[r].num,
         rs[r].holds \in BOOLEAN, rs[r].ok \in BOOLEAN, rs[r].esOK \in BOOLEAN,
         rs[r].toBegin = runs[r].toBegin, rs[r].toEnd = runs[r].toEnd,
         rs[r].enders = runs[r].enders
  PROVE  RunMoves(rs, r, phase)
<1>1. RunRecord(rs[r])
  BY InList DEF RunRecord
<1> QED
  BY <1>1, InList, RunToRule DEF RunMoves

LEMMA DropRunFacts ==
  ASSUME TaskInv, NEW r \in DOMAIN runs, DropRun(r)
  PROVE  RunMoves(runs', r, "dropped")
<1>1. runs' \in [DOMAIN runs -> {runs'[q] : q \in DOMAIN runs}]
  BY DEF DropRun
<1>2. \A q \in DOMAIN runs \ {r} : runs'[q] = runs[q]
  BY DEF DropRun
<1>3. /\ runs'[r] = [f \in RunFields |-> runs'[r][f]] /\ runs'[r].phase = "dropped"
      /\ runs'[r].num = runs[r].num
      /\ runs'[r].holds \in BOOLEAN /\ runs'[r].ok \in BOOLEAN /\ runs'[r].esOK \in BOOLEAN
      /\ runs'[r].toBegin = runs[r].toBegin /\ runs'[r].toEnd = runs[r].toEnd
      /\ runs'[r].enders = runs[r].enders
  BY InList DEF DropRun, RunRecord, RunFields
<1> QED
  BY <1>1, <1>2, <1>3, PhaseRule DEF RunPhases

LEMMA AtSourceFacts ==
  ASSUME TaskInv, NEW x, AtSource(x)
  PROVE  SourceTask(x)
BY DEF TaskInv, Shape, SourceWaitedFor, AtSource

LEMMA OneUnfinishedRun ==
  ASSUME TaskInv, NEW r \in DOMAIN runs, runs[r].phase \notin {"ending", "closed", "dropped"}
  PROVE  /\ r = Len(runs)
         /\ \A q \in DOMAIN runs \ {r} : runs[q].phase \in {"ending", "closed", "dropped"}
         /\ runs[r].phase # "open" => NoCurrent
BY DEF TaskInv, RunsInTurn, LumisInTurn, NoCurrent

LEMMA AfterRunEntriesFacts ==
  ASSUME TaskInv, NEW r \in DOMAIN runs, NEW T, NEW rs \in [DOMAIN runs -> T],
         \A q \in DOMAIN runs \ {r} : rs[q] = runs[q],
         RunRecord(rs[r]), rs[r].phase \in {"begin", "next", "open"},
         rs[r].toBegin = runs[r].toBegin, rs[r].toEnd = runs[r].toEnd,
         rs[r].enders = runs[r].enders, rs[r].num = runs[r].num, AfterRunEntries(rs, r)
  PROVE  \E phase \in RunPhases : RunMoves(runs', r, phase) /\ GoesOn(r, phase)
<1> USE InList
<1>1. CASE /\ runs' = [rs EXCEPT ![r].phase = "open", ![r].holds = FALSE]
           /\ UNCHANGED lumis
  <2>1. runs' \in [DOMAIN runs -> {runs'[q] : q \in DOMAIN runs}]
    BY <1>1
  <2>2. \A q \in DOMAIN runs \ {r} : runs'[q] = runs[q]
    BY <1>1
  <2>3. /\ runs'[r] = [f \in RunFields |-> runs'[r][f]] /\ runs'[r].phase = "open"
        /\ runs'[r].num = runs[r].num
        /\ runs'[r].holds \in BOOLEAN /\ runs'[r].ok \in BOOLEAN /\ runs'[r].esOK \in BOOLEAN
        /\ runs'[r].toBegin = runs[r].toBegin /\ runs'[r].toEnd = runs[r].toEnd
        /\ runs'[r].enders = runs[r].enders
    BY <1>1 DEF RunRecord, RunFields
  <2>4. RunMoves(runs', r, "open")
    BY <2>1, <2>2, <2>3, PhaseRule DEF RunPhases
  <2> QED
    BY <1>1, <2>4 DEF GoesOn, RunPhases
<1>2. CASE /\ runs' = [rs EXCEPT ![r].phase = "open"]
           /\ \E n : lumis' = Append(lumis, NewLumi(r, n))
  <2>1. runs' \in [DOMAIN runs -> {runs'[q] : q \in DOMAIN runs}]
    BY <1>2
  <2>2. \A q \in DOMAIN runs \ {r} : runs'[q] = runs[q]
    BY <1>2
  <2>3. /\ runs'[r] = [f \in RunFields |-> runs'[r][f]] /\ runs'[r].phase = "open"
        /\ runs'[r].num = runs[r].num
        /\ runs'[r].holds \in BOOLEAN /\ runs'[r].ok \in BOOLEAN /\ runs'[r].esOK \in BOOLEAN
        /\ runs'[r].toBegin = runs[r].toBegin /\ runs'[r].toEnd = runs[r].toEnd
        /\ runs'[r].enders = runs[r].enders
    BY <1>2 DEF RunRecord, RunFields
  <2>4. RunMoves(runs', r, "open")
    BY <2>1, <2>2, <2>3, PhaseRule DEF RunPhases
  <2>5. LumiMade(lumis, r)
    BY <1>2, LumiMadeRule
  <2> QED
    BY <2>4, <2>5 DEF GoesOn, RunPhases
<1>3. CASE runs' = EndRunAsync(rs, r) /\ UNCHANGED lumis
  <2>1. runs' \in [DOMAIN runs -> {runs'[q] : q \in DOMAIN runs}]
    BY <1>3 DEF EndRunAsync
  <2>2. \A q \in DOMAIN runs \ {r} : runs'[q] = runs[q]
    BY <1>3 DEF EndRunAsync
  <2>3. /\ runs'[r] = [f \in RunFields |-> runs'[r][f]] /\ runs'[r].phase = "endSync"
        /\ runs'[r].num = runs[r].num
        /\ runs'[r].holds \in BOOLEAN /\ runs'[r].ok \in BOOLEAN /\ runs'[r].esOK \in BOOLEAN
        /\ runs'[r].toBegin = runs[r].toBegin /\ runs'[r].toEnd = runs[r].toEnd
        /\ runs'[r].enders = runs[r].enders
    BY <1>3 DEF RunRecord, RunFields, EndRunAsync
  <2>4. RunMoves(runs', r, "endSync")
    BY <2>1, <2>2, <2>3, PhaseRule DEF RunPhases
  <2> QED
    BY <1>3, <2>4 DEF GoesOn, RunPhases
<1> QED
  BY <1>1, <1>2, <1>3 DEF AfterRunEntries

LEMMA SyncRunFacts ==
  ASSUME TaskInv, NEW r \in DOMAIN runs, SyncRun(r)
  PROVE  RunAdvances(r, "queue")
<1> USE InList
<1>1. runs' \in [DOMAIN runs -> {runs'[q] : q \in DOMAIN runs}]
  BY DEF SyncRun
<1>2. \A q \in DOMAIN runs \ {r} : runs'[q] = runs[q]
  BY DEF SyncRun
<1>3. /\ runs'[r] = [f \in RunFields |-> runs'[r][f]] /\ runs'[r].phase = "queue"
      /\ runs'[r].num = runs[r].num
      /\ runs'[r].holds \in BOOLEAN /\ runs'[r].ok \in BOOLEAN /\ runs'[r].esOK \in BOOLEAN
      /\ runs'[r].toBegin = runs[r].toBegin /\ runs'[r].toEnd = runs[r].toEnd
      /\ runs'[r].enders = runs[r].enders
  BY DEF SyncRun, RunRecord, RunFields
<1>4. RunMoves(runs', r, "queue")
  BY <1>1, <1>2, <1>3, PhaseRule DEF RunPhases
<1> QED
  BY <1>4 DEF SyncRun, RunAdvances

LEMMA StartRunFacts ==
  ASSUME TaskInv, NEW r \in DOMAIN runs, StartRun(r)
  PROVE  RunAdvances(r, "dropped") \/ RunAdvances(r, "read")
<1> USE InList
<1>1. CASE DropRun(r)
  BY <1>1, DropRunFacts DEF StartRun, RunAdvances
<1>2. CASE runs' = [runs EXCEPT ![r].phase = "read"]
  <2>1. runs' \in [DOMAIN runs -> {runs'[q] : q \in DOMAIN runs}]
    BY <1>2
  <2>2. \A q \in DOMAIN runs \ {r} : runs'[q] = runs[q]
    BY <1>2
  <2>3. /\ runs'[r] = [f \in RunFields |-> runs'[r][f]] /\ runs'[r].phase = "read"
        /\ runs'[r].num = runs[r].num
        /\ runs'[r].holds \in BOOLEAN /\ runs'[r].ok \in BOOLEAN /\ runs'[r].esOK \in BOOLEAN
        /\ runs'[r].toBegin = runs[r].toBegin /\ runs'[r].toEnd = runs[r].toEnd
        /\ runs'[r].enders = runs[r].enders
    BY <1>2 DEF RunRecord, RunFields
  <2>4. RunMoves(runs', r, "read")
    BY <2>1, <2>2, <2>3, PhaseRule DEF RunPhases
  <2> QED
    BY <2>4 DEF StartRun, RunAdvances
<1> QED
  BY <1>1, <1>2 DEF StartRun

LEMMA ReadRunFacts ==
  ASSUME TaskInv, NEW r \in DOMAIN runs, ReadRun(r)
  PROVE  \E phase \in {"dropped", "begin", "merge"} : RunAdvances(r, phase)
<1> USE InList
<1>0. runs[r].phase = "read"
  BY AtSourceFacts DEF ReadRun, SourceTask
<1>1. CASE DropRun(r)
  BY <1>0, <1>1, DropRunFacts DEF ReadRun, RunAdvances
<1>2. ASSUME NEW phase \in {"begin", "merge"}, runs' = [runs EXCEPT ![r].phase = phase], ~failed'
      PROVE  RunAdvances(r, phase)
  <2>1. runs' \in [DOMAIN runs -> {runs'[q] : q \in DOMAIN runs}]
    BY <1>2
  <2>2. \A q \in DOMAIN runs \ {r} : runs'[q] = runs[q]
    BY <1>2
  <2>3. /\ runs'[r] = [f \in RunFields |-> runs'[r][f]] /\ runs'[r].phase = phase
        /\ runs'[r].num = runs[r].num
        /\ runs'[r].holds \in BOOLEAN /\ runs'[r].ok \in BOOLEAN /\ runs'[r].esOK \in BOOLEAN
        /\ runs'[r].toBegin = runs[r].toBegin /\ runs'[r].toEnd = runs[r].toEnd
        /\ runs'[r].enders = runs[r].enders
    BY <1>2 DEF RunRecord, RunFields
  <2>4. RunMoves(runs', r, phase)
    BY <2>1, <2>2, <2>3, PhaseRule DEF RunPhases
  <2> QED
    <3>1. Cardinality(OpenRuns) < ConcurrentRuns
      BY <1>2 DEF ReadRun, TryAndTell, RunPrincipalFree
    <3> QED
      BY <1>0, <2>4, <3>1 DEF ReadRun, RunAdvances
<1> QED
  BY <1>1, <1>2 DEF ReadRun

LEMMA MergeRunFacts ==
  ASSUME TaskInv, NEW r \in DOMAIN runs, MergeRun(r)
  PROVE  \E phase \in {"dropped", "begin"} : RunAdvances(r, phase)
<1> USE InList
<1>0. runs[r].phase = "merge"
  BY AtSourceFacts DEF MergeRun, SourceTask
<1>1. CASE DropRun(r)
  BY <1>0, <1>1, DropRunFacts DEF MergeRun, RunAdvances
<1>2. CASE runs' = [runs EXCEPT ![r].phase = "begin"]
  <2>1. runs' \in [DOMAIN runs -> {runs'[q] : q \in DOMAIN runs}]
    BY <1>2
  <2>2. \A q \in DOMAIN runs \ {r} : runs'[q] = runs[q]
    BY <1>2
  <2>3. /\ runs'[r] = [f \in RunFields |-> runs'[r][f]] /\ runs'[r].phase = "begin"
        /\ runs'[r].num = runs[r].num
        /\ runs'[r].holds \in BOOLEAN /\ runs'[r].ok \in BOOLEAN /\ runs'[r].esOK \in BOOLEAN
        /\ runs'[r].toBegin = runs[r].toBegin /\ runs'[r].toEnd = runs[r].toEnd
        /\ runs'[r].enders = runs[r].enders
    BY <1>2 DEF RunRecord, RunFields
  <2>4. RunMoves(runs', r, "begin")
    BY <2>1, <2>2, <2>3, PhaseRule DEF RunPhases
  <2> QED
    BY <1>0, <2>4 DEF MergeRun, RunAdvances
<1> QED
  BY <1>1, <1>2 DEF MergeRun

LEMMA PushedFacts ==
  ASSUME TaskInv, NEW x \in StreamTasks, PushToStreams(x)
  PROVE  Pushed(x)
<1>1. ASSUME NEW s \in Streams
      PROVE  [stream[s] EXCEPT !.queue = Append(@, x)] \in StreamRecords
  <2> DEFINE q == Append(stream[s].queue, x)
  <2>1. q \in Seq(StreamTasks)
    BY InList DEF StreamRecords
  <2> HIDE DEF q
  <2>2. [stream[s] EXCEPT !.queue = q] \in StreamRecords
    BY <2>1, InList DEF StreamRecords
  <2> QED
    BY <2>2 DEF q
<1>2. \A s \in Streams : stream'[s] = [stream[s] EXCEPT !.queue = Append(@, x)]
  BY DEF PushToStreams
<1>3. stream' \in [Streams -> StreamRecords]
  <2>1. stream' = [s \in Streams |-> stream'[s]]
    BY DEF PushToStreams
  <2> QED
    BY <1>1, <1>2, <2>1
<1> QED
  BY <1>2, <1>3 DEF Pushed

LEMMA GlobalBeginRunFacts ==
  ASSUME TaskInv, NEW r \in DOMAIN runs, GlobalBeginRun(r)
  PROVE  \E phase \in RunPhases : RunBegins(r, phase)
<1> USE InList
<1>1. Pushed(<<"beginRun", r>>)
  BY PushedFacts DEF GlobalBeginRun, StreamTasks
<1>2. PICK x \in BOOLEAN :
        LET rs == [runs EXCEPT ![r].ok = ~x] IN
          \/ runs' = [rs EXCEPT ![r].phase = "next"] /\ UNCHANGED lumis
          \/ AfterRunEntries(rs, r)
  BY DEF GlobalBeginRun
<1> DEFINE rs == [runs EXCEPT ![r].ok = ~x]
<1>3. /\ rs \in [DOMAIN runs -> {rs[q] : q \in DOMAIN runs}]
      /\ \A q \in DOMAIN runs \ {r} : rs[q] = runs[q]
      /\ RunRecord(rs[r]) /\ rs[r].phase = "begin" /\ rs[r].toBegin = runs[r].toBegin
      /\ rs[r].num = runs[r].num
      /\ rs[r].toEnd = runs[r].toEnd /\ rs[r].enders = runs[r].enders
  BY DEF RunRecord, RunFields, GlobalBeginRun
<1>4. CASE runs' = [rs EXCEPT ![r].phase = "next"] /\ UNCHANGED lumis
  <2>1. runs' \in [DOMAIN runs -> {runs'[q] : q \in DOMAIN runs}]
    BY <1>4
  <2>2. \A q \in DOMAIN runs \ {r} : runs'[q] = runs[q]
    BY <1>4
  <2>3. /\ runs'[r] = [f \in RunFields |-> runs'[r][f]] /\ runs'[r].phase = "next"
        /\ runs'[r].num = runs[r].num
        /\ runs'[r].holds \in BOOLEAN /\ runs'[r].ok \in BOOLEAN /\ runs'[r].esOK \in BOOLEAN
        /\ runs'[r].toBegin = runs[r].toBegin /\ runs'[r].toEnd = runs[r].toEnd
        /\ runs'[r].enders = runs[r].enders
    BY <1>4 DEF RunRecord, RunFields
  <2>4. RunMoves(runs', r, "next")
    BY <2>1, <2>2, <2>3, PhaseRule DEF RunPhases
  <2> QED
    BY <1>1, <1>4, <2>4 DEF GlobalBeginRun, RunBegins, RunPhases
<1>5. CASE AfterRunEntries(rs, r)
  <2> HIDE DEF rs
  <2>1. \E phase \in RunPhases : RunMoves(runs', r, phase) /\ GoesOn(r, phase)
    BY <1>3, <1>5, AfterRunEntriesFacts
  <2> QED
    BY <1>1, <2>1 DEF GlobalBeginRun, RunBegins
<1> QED
  BY <1>2, <1>4, <1>5

LEMMA NextItemFacts ==
  ASSUME TaskInv, NEW r \in DOMAIN runs, NextItem(r)
  PROVE  \E phase \in RunPhases : RunGoesOn(r, phase)
<1> USE InList
<1>1. runs[r].phase = "next"
  BY AtSourceFacts DEF NextItem, SourceTask
<1>2. runs \in [DOMAIN runs -> {runs[q] : q \in DOMAIN runs}]
  BY ListFacts DEF IsList
<1>3. \E phase \in RunPhases : RunMoves(runs', r, phase) /\ GoesOn(r, phase)
  BY <1>1, <1>2, AfterRunEntriesFacts DEF NextItem
<1> QED
  BY <1>1, <1>3, OneUnfinishedRun DEF NextItem, RunGoesOn

LEMMA SyncEndRunFacts ==
  ASSUME TaskInv, NEW r \in DOMAIN runs, SyncEndRun(r)
  PROVE  \E rs : RunEnds(r, rs)
<1> USE InList
<1>1. PICK x \in BOOLEAN :
        LET rs == [runs EXCEPT ![r].phase = "ending", ![r].esOK = ~x]
        IN  runs' = rs \/ runs' = Append(rs, NewRun(Item.run))
  BY DEF SyncEndRun, BeginRunAsync
<1> DEFINE rs == [runs EXCEPT ![r].phase = "ending", ![r].esOK = ~x]
<1>2. RunMoves(rs, r, "ending")
  <2>1. rs \in [DOMAIN runs -> {rs[q] : q \in DOMAIN runs}]
    BY InList
  <2>2. \A q \in DOMAIN runs \ {r} : rs[q] = runs[q]
    BY InList
  <2>3. /\ rs[r] = [f \in RunFields |-> rs[r][f]] /\ rs[r].phase = "ending"
        /\ rs[r].num = runs[r].num
        /\ rs[r].holds \in BOOLEAN /\ rs[r].ok \in BOOLEAN /\ rs[r].esOK \in BOOLEAN
        /\ rs[r].toBegin = runs[r].toBegin /\ rs[r].toEnd = runs[r].toEnd
        /\ rs[r].enders = runs[r].enders
    BY InList DEF RunRecord, RunFields
  <2>4. RunMoves(rs, r, "ending")
    BY <2>1, <2>2, <2>3, PhaseRule DEF RunPhases
  <2> QED
    BY <2>4
<1>3. Pushed(<<"endRun", r>>)
  BY PushedFacts DEF SyncEndRun, StreamTasks
<1>4. runs' = rs \/ RunMade(rs)
  <2>1. runs' = rs \/ runs' = Append(rs, NewRun(Item.run))
    BY <1>1
  <2>2. IsList(rs)
    BY <1>2 DEF RunMoves, RunTo
  <2> HIDE DEF rs
  <2> QED
    BY <2>1, <2>2, RunMadeRule
<1>5. runs[r].phase = "endSync" /\ UNCHANGED lumis
  BY DEF SyncEndRun
<1> HIDE DEF rs
<1> QED
  BY <1>2, <1>3, <1>4, <1>5 DEF RunEnds

LEMMA GlobalEndRunFacts ==
  ASSUME TaskInv, NEW r \in DOMAIN runs, GlobalEndRun(r)
  PROVE  RunAdvances(r, "closed")
<1> USE InList
<1>1. runs' \in [DOMAIN runs -> {runs'[q] : q \in DOMAIN runs}]
  BY DEF GlobalEndRun
<1>2. \A q \in DOMAIN runs \ {r} : runs'[q] = runs[q]
  BY DEF GlobalEndRun
<1>3. /\ runs'[r] = [f \in RunFields |-> runs'[r][f]] /\ runs'[r].phase = "closed"
      /\ runs'[r].num = runs[r].num
      /\ runs'[r].holds \in BOOLEAN /\ runs'[r].ok \in BOOLEAN /\ runs'[r].esOK \in BOOLEAN
      /\ runs'[r].toBegin = runs[r].toBegin /\ runs'[r].toEnd = runs[r].toEnd
      /\ runs'[r].enders = runs[r].enders
  BY DEF GlobalEndRun, RunRecord, RunFields
<1>4. RunMoves(runs', r, "closed")
  BY <1>1, <1>2, <1>3, PhaseRule DEF RunPhases
<1> QED
  BY <1>4 DEF GlobalEndRun, RunAdvances

LEMMA RunStepChange ==
  ASSUME TaskInv, NEW r \in DOMAIN runs, RunStep(r)
  PROVE  RunChange(r)
BY SyncRunFacts, StartRunFacts, ReadRunFacts, MergeRunFacts, GlobalBeginRunFacts, NextItemFacts,
   SyncEndRunFacts, GlobalEndRunFacts DEF RunStep, RunChange, RunPhases

LEMMA EndRunFacts ==
  ASSUME TaskInv, NEW r \in DOMAIN runs, runs[r].phase \in {"begin", "next", "open"},
         runs' = EndRunAsync(runs, r)
  PROVE  RunMoves(runs', r, "endSync")
<1> USE InList
<1>1. runs' \in [DOMAIN runs -> {runs'[q] : q \in DOMAIN runs}]
  BY DEF EndRunAsync
<1>2. \A q \in DOMAIN runs \ {r} : runs'[q] = runs[q]
  BY DEF EndRunAsync
<1>3. /\ runs'[r] = [f \in RunFields |-> runs'[r][f]] /\ runs'[r].phase = "endSync"
      /\ runs'[r].num = runs[r].num
      /\ runs'[r].holds \in BOOLEAN /\ runs'[r].ok \in BOOLEAN /\ runs'[r].esOK \in BOOLEAN
      /\ runs'[r].toBegin = runs[r].toBegin /\ runs'[r].toEnd = runs[r].toEnd
      /\ runs'[r].enders = runs[r].enders
  BY DEF RunRecord, RunFields, EndRunAsync
<1> QED
  BY <1>1, <1>2, <1>3, PhaseRule DEF RunPhases

(* The luminosity block that streams may still join, and its run.          *)
LEMMA CurrentFacts ==
  ASSUME TaskInv, NEW l \in DOMAIN lumis, Current(l)
  PROVE  /\ lumis[l].run \in DOMAIN runs /\ lumis[l].run = Len(runs) /\ l = Len(lumis)
         /\ runs[lumis[l].run].phase = "open"
         /\ \A r \in DOMAIN runs :
              r # lumis[l].run => runs[r].phase \in {"ending", "closed", "dropped"}
         /\ \A k \in DOMAIN lumis : k # l => ~Current(k)
BY InList DEF TaskInv, RunsInTurn, LumisInTurn

LEMMA SyncLumiFacts ==
  ASSUME TaskInv, NEW l \in DOMAIN lumis, SyncLumi(l)
  PROVE  LumiAdvances(l, "queue")
<1> USE InList
<1>1. lumis' \in [DOMAIN lumis -> {lumis'[k] : k \in DOMAIN lumis}]
  BY DEF SyncLumi
<1>2. \A k \in DOMAIN lumis \ {l} : lumis'[k] = lumis[k]
  BY DEF SyncLumi
<1>3. /\ lumis'[l].run = lumis[l].run /\ lumis'[l].phase = "queue"
      /\ lumis'[l].num = lumis[l].num
      /\ lumis'[l].noMore = lumis[l].noMore /\ lumis'[l].state = lumis[l].state
      /\ lumis'[l].started = lumis[l].started /\ lumis'[l].joined = lumis[l].joined
      /\ lumis'[l].toEnd = lumis[l].toEnd /\ LumiRecord(lumis'[l])
  BY DEF LumiRecord, LumiFields, LumiPhases, SyncLumi
<1>4. LumiTo(lumis', l, "queue", lumis[l].noMore, lumis[l].state, lumis[l].started, lumis[l].joined, lumis[l].toEnd)
  BY <1>1, <1>2, <1>3, LumiToRule
<1> QED
  BY <1>4 DEF SyncLumi, LumiAdvances, LumiMoves

LEMMA DropLumiFacts ==
  ASSUME TaskInv, NEW l \in DOMAIN lumis, lumis[l].phase \in {"queue", "read"}, DropLumi(l),
         UNCHANGED stream
  PROVE  LumiDropped(l)
<1> USE InList
<1>1. lumis' \in [DOMAIN lumis -> {lumis'[k] : k \in DOMAIN lumis}]
  BY DEF DropLumi
<1>2. \A k \in DOMAIN lumis \ {l} : lumis'[k] = lumis[k]
  BY DEF DropLumi
<1>3. /\ lumis'[l].run = lumis[l].run /\ lumis'[l].phase = "dropped"
      /\ lumis'[l].num = lumis[l].num
      /\ lumis'[l].noMore = lumis[l].noMore /\ lumis'[l].state = lumis[l].state
      /\ lumis'[l].started = lumis[l].started /\ lumis'[l].joined = lumis[l].joined
      /\ lumis'[l].toEnd = lumis[l].toEnd /\ LumiRecord(lumis'[l])
  BY DEF LumiRecord, LumiFields, LumiPhases, DropLumi
<1>4. LumiTo(lumis', l, "dropped", lumis[l].noMore, lumis[l].state, lumis[l].started, lumis[l].joined, lumis[l].toEnd)
  BY <1>1, <1>2, <1>3, LumiToRule
<1>5. RunMoves(runs', lumis[l].run, "endSync")
  BY CurrentFacts, EndRunFacts DEF DropLumi, Current, Coming
<1> QED
  BY <1>4, <1>5 DEF LumiDropped, LumiMoves

LEMMA StartLumiFacts ==
  ASSUME TaskInv, NEW l \in DOMAIN lumis, StartLumi(l)
  PROVE  LumiDropped(l) \/ LumiAdvances(l, "read")
<1> USE InList
<1>1. CASE DropLumi(l)
  BY <1>1, DropLumiFacts DEF StartLumi
<1>2. CASE lumis' = [lumis EXCEPT ![l].phase = "read"] /\ UNCHANGED runs
  <2>1. lumis' \in [DOMAIN lumis -> {lumis'[k] : k \in DOMAIN lumis}]
    BY <1>2
  <2>2. \A k \in DOMAIN lumis \ {l} : lumis'[k] = lumis[k]
    BY <1>2
  <2>3. /\ lumis'[l].run = lumis[l].run /\ lumis'[l].phase = "read"
        /\ lumis'[l].num = lumis[l].num
        /\ lumis'[l].noMore = lumis[l].noMore /\ lumis'[l].state = lumis[l].state
        /\ lumis'[l].started = lumis[l].started /\ lumis'[l].joined = lumis[l].joined
        /\ lumis'[l].toEnd = lumis[l].toEnd /\ LumiRecord(lumis'[l])
    BY <1>2 DEF LumiRecord, LumiFields, LumiPhases
  <2>4. LumiTo(lumis', l, "read", lumis[l].noMore, lumis[l].state, lumis[l].started, lumis[l].joined, lumis[l].toEnd)
    BY <2>1, <2>2, <2>3, LumiToRule
  <2> QED
    BY <1>2, <2>4 DEF StartLumi, LumiAdvances, LumiMoves
<1> QED
  BY <1>1, <1>2 DEF StartLumi

LEMMA ReadLumiFacts ==
  ASSUME TaskInv, NEW l \in DOMAIN lumis, ReadLumi(l)
  PROVE  LumiDropped(l) \/ \E phase \in {"begin", "merge"} : LumiAdvances(l, phase)
<1> USE InList
<1>0. lumis[l].phase = "read"
  BY AtSourceFacts DEF ReadLumi, SourceTask
<1>1. CASE DropLumi(l)
  BY <1>0, <1>1, DropLumiFacts DEF ReadLumi
<1>2. ASSUME NEW phase \in {"begin", "merge"}, lumis' = [lumis EXCEPT ![l].phase = phase],
             UNCHANGED runs, ~failed'
      PROVE  LumiAdvances(l, phase)
  <2>1. lumis' \in [DOMAIN lumis -> {lumis'[k] : k \in DOMAIN lumis}]
    BY <1>2
  <2>2. \A k \in DOMAIN lumis \ {l} : lumis'[k] = lumis[k]
    BY <1>2
  <2>3. /\ lumis'[l].run = lumis[l].run /\ lumis'[l].phase = phase
        /\ lumis'[l].num = lumis[l].num
        /\ lumis'[l].noMore = lumis[l].noMore /\ lumis'[l].state = lumis[l].state
        /\ lumis'[l].started = lumis[l].started /\ lumis'[l].joined = lumis[l].joined
        /\ lumis'[l].toEnd = lumis[l].toEnd /\ LumiRecord(lumis'[l])
    BY <1>2 DEF LumiRecord, LumiFields, LumiPhases
  <2>4. LumiTo(lumis', l, phase, lumis[l].noMore, lumis[l].state, lumis[l].started, lumis[l].joined, lumis[l].toEnd)
    BY <2>1, <2>2, <2>3, LumiToRule
  <2> QED
    <3>1. Cardinality(OpenLumis) < ConcurrentLumis
      BY <1>2 DEF ReadLumi, TryAndTell, LumiPrincipalFree
    <3> QED
      BY <1>0, <1>2, <2>4, <3>1 DEF ReadLumi, LumiAdvances, LumiMoves
<1> QED
  BY <1>1, <1>2 DEF ReadLumi

LEMMA EndUnbegunFacts ==
  ASSUME TaskInv, NEW l \in DOMAIN lumis, lumis[l].phase \in {"merge", "begin"},
         EndUnbegunLumi(l), UNCHANGED stream
  PROVE  LumiUnbegun(l)
<1> USE InList
<1>1. lumis' \in [DOMAIN lumis -> {lumis'[k] : k \in DOMAIN lumis}]
  BY DEF EndUnbegunLumi
<1>2. \A k \in DOMAIN lumis \ {l} : lumis'[k] = lumis[k]
  BY DEF EndUnbegunLumi
<1>3. /\ lumis'[l].run = lumis[l].run /\ lumis'[l].phase = "end"
      /\ lumis'[l].num = lumis[l].num
      /\ lumis'[l].noMore = lumis[l].noMore /\ lumis'[l].state = lumis[l].state
      /\ lumis'[l].started = lumis[l].started /\ lumis'[l].joined = lumis[l].joined
      /\ lumis'[l].toEnd = lumis[l].toEnd /\ LumiRecord(lumis'[l])
  BY DEF LumiRecord, LumiFields, LumiPhases, EndUnbegunLumi
<1>4. LumiTo(lumis', l, "end", lumis[l].noMore, lumis[l].state, lumis[l].started, lumis[l].joined, lumis[l].toEnd)
  BY <1>1, <1>2, <1>3, LumiToRule
<1> DEFINE r == lumis[l].run
           rs == [runs EXCEPT ![r].enders = @ + 1]
<1>5. r \in DOMAIN runs /\ runs[r].phase = "open"
  BY CurrentFacts DEF Current, Coming
<1>6. /\ DOMAIN rs = DOMAIN runs /\ rs \in [DOMAIN runs -> {rs[q] : q \in DOMAIN runs}]
      /\ \A q \in DOMAIN runs \ {r} : rs[q] = runs[q]
      /\ rs[r] = [f \in RunFields |-> rs[r][f]] /\ rs[r].phase = "open"
      /\ rs[r].num = runs[r].num
      /\ rs[r].holds = runs[r].holds /\ rs[r].ok = runs[r].ok /\ rs[r].esOK = runs[r].esOK
      /\ rs[r].toBegin = runs[r].toBegin /\ rs[r].toEnd = runs[r].toEnd
      /\ rs[r].enders = runs[r].enders + 1
  BY <1>5 DEF RunRecord, RunFields
<1>7. runs' = EndRunAsync(rs, r)
  BY DEF EndUnbegunLumi
<1>8. Counts(l, "endSync", 1)
  <2> HIDE DEF rs
  <2>1. /\ runs' \in [DOMAIN runs -> {runs'[q] : q \in DOMAIN runs}]
        /\ \A q \in DOMAIN runs \ {r} : runs'[q] = runs[q]
    BY <1>6, <1>7 DEF EndRunAsync
  <2>2. /\ runs'[r] = [f \in RunFields |-> runs'[r][f]] /\ runs'[r].phase = "endSync"
        /\ runs'[r].num = runs[r].num
        /\ runs'[r].holds = runs[r].holds /\ runs'[r].ok = runs[r].ok
        /\ runs'[r].esOK = runs[r].esOK
        /\ runs'[r].toBegin = runs[r].toBegin /\ runs'[r].toEnd = runs[r].toEnd
        /\ runs'[r].enders = runs[r].enders + 1
    BY <1>5, <1>6, <1>7 DEF EndRunAsync, RunFields
  <2>3. RunRecord(runs'[r])
    BY <1>5, <2>2 DEF RunRecord, RunPhases
  <2>4. RunTo(runs', r, "endSync", runs[r].toBegin, runs[r].toEnd, runs[r].enders + 1)
    <3> HIDE DEF r
    <3> QED
      BY <1>5, <2>1, <2>2, <2>3, RunToRule
  <2> QED
    BY <2>4 DEF Counts
<1> QED
  BY <1>4, <1>8 DEF LumiUnbegun, LumiMoves

LEMMA MergeLumiFacts ==
  ASSUME TaskInv, NEW l \in DOMAIN lumis, MergeLumi(l)
  PROVE  LumiUnbegun(l) \/ LumiAdvances(l, "begin")
<1> USE InList
<1>0. lumis[l].phase = "merge"
  BY AtSourceFacts DEF MergeLumi, SourceTask
<1>1. CASE EndUnbegunLumi(l)
  BY <1>0, <1>1, EndUnbegunFacts DEF MergeLumi
<1>2. CASE lumis' = [lumis EXCEPT ![l].phase = "begin"] /\ UNCHANGED runs
  <2>1. lumis' \in [DOMAIN lumis -> {lumis'[k] : k \in DOMAIN lumis}]
    BY <1>2
  <2>2. \A k \in DOMAIN lumis \ {l} : lumis'[k] = lumis[k]
    BY <1>2
  <2>3. /\ lumis'[l].run = lumis[l].run /\ lumis'[l].phase = "begin"
        /\ lumis'[l].num = lumis[l].num
        /\ lumis'[l].noMore = lumis[l].noMore /\ lumis'[l].state = lumis[l].state
        /\ lumis'[l].started = lumis[l].started /\ lumis'[l].joined = lumis[l].joined
        /\ lumis'[l].toEnd = lumis[l].toEnd /\ LumiRecord(lumis'[l])
    BY <1>2 DEF LumiRecord, LumiFields, LumiPhases
  <2>4. LumiTo(lumis', l, "begin", lumis[l].noMore, lumis[l].state, lumis[l].started, lumis[l].joined, lumis[l].toEnd)
    BY <2>1, <2>2, <2>3, LumiToRule
  <2> QED
    BY <1>0, <1>2, <2>4 DEF MergeLumi, LumiAdvances, LumiMoves
<1> QED
  BY <1>1, <1>2 DEF MergeLumi

LEMMA GlobalBeginLumiFacts ==
  ASSUME TaskInv, NEW l \in DOMAIN lumis, GlobalBeginLumi(l)
  PROVE  LumiUnbegun(l) \/ LumiBegins(l)
<1> USE InList
<1>0. lumis[l].phase = "begin"
  BY DEF GlobalBeginLumi
<1>1. CASE EndUnbegunLumi(l) /\ UNCHANGED stream
  BY <1>0, <1>1, EndUnbegunFacts
<1>2. CASE /\ lumis' = [lumis EXCEPT ![l].phase = "open", ![l].ok = TRUE]
           /\ runs' = [runs EXCEPT ![lumis[l].run].enders = @ + 1]
           /\ PushToStreams(<<"beginLumi", l>>)
  <2>1. lumis' \in [DOMAIN lumis -> {lumis'[k] : k \in DOMAIN lumis}]
    BY <1>2
  <2>2. \A k \in DOMAIN lumis \ {l} : lumis'[k] = lumis[k]
    BY <1>2
  <2>3. /\ lumis'[l].run = lumis[l].run /\ lumis'[l].phase = "open"
        /\ lumis'[l].num = lumis[l].num
        /\ lumis'[l].noMore = lumis[l].noMore /\ lumis'[l].state = lumis[l].state
        /\ lumis'[l].started = lumis[l].started /\ lumis'[l].joined = lumis[l].joined
        /\ lumis'[l].toEnd = lumis[l].toEnd /\ LumiRecord(lumis'[l])
    BY <1>2 DEF LumiRecord, LumiFields, LumiPhases
  <2>4. LumiTo(lumis', l, "open", lumis[l].noMore, lumis[l].state, lumis[l].started, lumis[l].joined, lumis[l].toEnd)
    BY <2>1, <2>2, <2>3, LumiToRule
  <2>5. Counts(l, runs[lumis[l].run].phase, 1)
    <3> DEFINE r == lumis[l].run
    <3>1. /\ runs' \in [DOMAIN runs -> {runs'[q] : q \in DOMAIN runs}]
          /\ \A q \in DOMAIN runs \ {r} : runs'[q] = runs[q]
      BY <1>2
    <3>5. /\ runs'[r] = [f \in RunFields |-> runs'[r][f]] /\ runs'[r].phase = runs[r].phase
          /\ runs'[r].num = runs[r].num
          /\ runs'[r].holds = runs[r].holds /\ runs'[r].ok = runs[r].ok
          /\ runs'[r].esOK = runs[r].esOK
          /\ runs'[r].toBegin = runs[r].toBegin /\ runs'[r].toEnd = runs[r].toEnd
          /\ runs'[r].enders = runs[r].enders + 1
          /\ runs[r].phase \in RunPhases
      BY <1>2 DEF RunRecord, RunFields
    <3> HIDE DEF r
    <3>2. r = lumis[l].run /\ r \in DOMAIN runs /\ RunRecord(runs[r])
      BY DEF r
    <3>3. RunRecord(runs'[r])
      BY <3>5, <3>2 DEF RunRecord
    <3>4. RunTo(runs', r, runs[r].phase, runs[r].toBegin, runs[r].toEnd, runs[r].enders + 1)
      BY <3>1, <3>2, <3>3, <3>5, RunToRule
    <3> QED
      BY <3>4 DEF r, Counts
  <2>6. Pushed(<<"beginLumi", l>>)
    BY <1>2, PushedFacts DEF StreamTasks
  <2> QED
    BY <1>0, <2>4, <2>5, <2>6 DEF LumiBegins, LumiMoves
<1> QED
  BY <1>1, <1>2 DEF GlobalBeginLumi

LEMMA GlobalEndLumiFacts ==
  ASSUME TaskInv, NEW l \in DOMAIN lumis, GlobalEndLumi(l)
  PROVE  LumiEnds(l)
<1> USE InList
<1>1. lumis' \in [DOMAIN lumis -> {lumis'[k] : k \in DOMAIN lumis}]
  BY DEF GlobalEndLumi
<1>2. \A k \in DOMAIN lumis \ {l} : lumis'[k] = lumis[k]
  BY DEF GlobalEndLumi
<1>3. /\ lumis'[l].run = lumis[l].run /\ lumis'[l].phase = "closed"
      /\ lumis'[l].num = lumis[l].num
      /\ lumis'[l].noMore = lumis[l].noMore /\ lumis'[l].state = lumis[l].state
      /\ lumis'[l].started = lumis[l].started /\ lumis'[l].joined = lumis[l].joined
      /\ lumis'[l].toEnd = lumis[l].toEnd /\ LumiRecord(lumis'[l])
  BY DEF LumiRecord, LumiFields, LumiPhases, GlobalEndLumi
<1>4. LumiTo(lumis', l, "closed", lumis[l].noMore, lumis[l].state, lumis[l].started, lumis[l].joined, lumis[l].toEnd)
  BY <1>1, <1>2, <1>3, LumiToRule
<1>5. Counts(l, runs[lumis[l].run].phase, -1)
  <2> DEFINE r == lumis[l].run
  <2>1. /\ runs' \in [DOMAIN runs -> {runs'[q] : q \in DOMAIN runs}]
        /\ \A q \in DOMAIN runs \ {r} : runs'[q] = runs[q]
    BY DEF GlobalEndLumi
  <2>5. /\ runs'[r] = [f \in RunFields |-> runs'[r][f]] /\ runs'[r].phase = runs[r].phase
        /\ runs'[r].num = runs[r].num
        /\ runs'[r].holds = runs[r].holds /\ runs'[r].ok = runs[r].ok
        /\ runs'[r].esOK = runs[r].esOK
        /\ runs'[r].toBegin = runs[r].toBegin /\ runs'[r].toEnd = runs[r].toEnd
        /\ runs'[r].enders = runs[r].enders + (-1)
        /\ runs[r].phase \in RunPhases
    BY DEF GlobalEndLumi, RunRecord, RunFields
  <2> HIDE DEF r
  <2>2. r = lumis[l].run /\ r \in DOMAIN runs /\ RunRecord(runs[r])
    BY DEF r
  <2>3. RunRecord(runs'[r])
    BY <2>5, <2>2 DEF RunRecord
  <2>4. RunTo(runs', r, runs[r].phase, runs[r].toBegin, runs[r].toEnd, runs[r].enders + (-1))
    BY <2>1, <2>2, <2>3, <2>5, RunToRule
  <2> QED
    BY <2>4 DEF r, Counts
<1> QED
  BY <1>4, <1>5 DEF GlobalEndLumi, LumiEnds, LumiMoves

LEMMA LumiStepChange ==
  ASSUME TaskInv, NEW l \in DOMAIN lumis, LumiStep(l)
  PROVE  LumiChange(l)
BY SyncLumiFacts, StartLumiFacts, ReadLumiFacts, MergeLumiFacts, GlobalBeginLumiFacts,
   GlobalEndLumiFacts DEF LumiStep, LumiChange, LumiPhases

LEMMA StreamToRule ==
  ASSUME TaskInv, NEW s \in Streams, NEW x \in StreamRecords,
         stream' = [stream EXCEPT ![s] = x],
         NEW run, NEW lumi, NEW doing, NEW queue, NEW pauses,
         x.run = run, x.lumi = lumi, x.doing = doing, x.queue = queue, x.pauses = pauses
  PROVE  StreamTo(s, run, lumi, doing, queue, pauses)
<1>1. x = [run |-> run, lumi |-> lumi, doing |-> doing, queue |-> queue, pauses |-> pauses]
  BY DEF StreamRecords
<1> QED
  BY <1>1, InList DEF StreamTo

LEMMA LeaveFacts ==
  ASSUME TaskInv, NEW s \in Streams, NEW what \in Doings, Leave(s, what)
  PROVE  StreamDoes(s, what)
<1> DEFINE x == [stream[s] EXCEPT !.doing = what]
<1>1. x \in StreamRecords
  BY InList DEF StreamRecords
<1>2. stream' = [stream EXCEPT ![s] = x]
  BY DEF Leave
<1>3. /\ x.run = stream[s].run /\ x.lumi = stream[s].lumi /\ x.doing = what
      /\ x.queue = stream[s].queue /\ x.pauses = stream[s].pauses
  BY InList DEF StreamRecords
<1> HIDE DEF x
<1> QED
  BY <1>1, <1>2, <1>3, StreamToRule DEF StreamDoes

(* The task at the head of a stream's queue.                               *)
LEMMA HeadFacts ==
  ASSUME TaskInv, NEW s \in Streams, stream[s].queue # <<>>
  PROVE  /\ stream[s].queue \in Seq(StreamTasks) /\ Tail(stream[s].queue) \in Seq(StreamTasks)
         /\ Head(stream[s].queue) = stream[s].queue[1] /\ 1 \in DOMAIN stream[s].queue
         /\ Head(stream[s].queue) \in StreamTasks
         /\ Head(stream[s].queue)[2] \in
              (IF Head(stream[s].queue)[1] = "beginLumi" THEN DOMAIN lumis ELSE DOMAIN runs)
<1>1. stream[s].queue \in Seq(StreamTasks)
  BY InList DEF StreamRecords
<1>2. /\ Head(stream[s].queue) = stream[s].queue[1] /\ 1 \in DOMAIN stream[s].queue
      /\ Tail(stream[s].queue) \in Seq(StreamTasks) /\ stream[s].queue[1] \in StreamTasks
  BY <1>1
<1> QED
  BY <1>1, <1>2 DEF TaskInv, QueuesInOrder, QueueInOrder

LEMMA PlaceFacts ==
  ASSUME TaskInv, NEW s \in Streams
  PROVE  /\ stream[s] \in StreamRecords
         /\ stream[s].run # 0 => stream[s].run \in DOMAIN runs
         /\ stream[s].lumi # 0 => /\ stream[s].lumi \in DOMAIN lumis
                                  /\ lumis[stream[s].lumi].run = stream[s].run
                                  /\ stream[s].run \in DOMAIN runs
         /\ stream[s].doing \in {"beginRun", "endRun"} => stream[s].lumi = 0 /\ stream[s].run # 0
         /\ stream[s].doing \in {"beginLumi", "next", "event", "endLumi", "resume"} =>
              stream[s].lumi # 0
BY InList DEF TaskInv, StreamsPlaced, InPlace

LEMMA StreamTakeFacts ==
  ASSUME TaskInv, NEW s \in Streams, StreamTake(s)
  PROVE  BeginsRun(s) \/ EndsRun(s) \/ Joins(s) \/ Skips(s)
<1> DEFINE task == Head(stream[s].queue)
           rest == Tail(stream[s].queue)
           st   == [stream[s] EXCEPT !.queue = Tail(@), !.pauses = @ + 1]
<1>1. /\ stream[s].queue # <<>> /\ stream[s].pauses = 0 /\ UNCHANGED runs
      /\ \/ /\ task[1] = "beginRun"
            /\ stream' = [stream EXCEPT ![s] = [st EXCEPT !.run = task[2], !.doing = "beginRun"]]
            /\ UNCHANGED lumis
         \/ /\ task[1] = "endRun"
            /\ stream' = [stream EXCEPT ![s] = [st EXCEPT !.doing = "endRun"]]
            /\ UNCHANGED lumis
         \/ /\ task[1] = "beginLumi" /\ ShouldStart(task[2])
            /\ stream' = [stream EXCEPT ![s] = [st EXCEPT !.lumi = task[2], !.doing = "beginLumi"]]
            /\ lumis' = [lumis EXCEPT ![task[2]].joined = @ + 1]
         \/ /\ task[1] = "beginLumi" /\ ~ShouldStart(task[2])
            /\ stream' = [stream EXCEPT ![s].queue = Tail(@)]
            /\ UNCHANGED lumis
  BY DEF StreamTake
<1>2. /\ task \in StreamTasks /\ rest \in Seq(StreamTasks)
      /\ task[2] \in (IF task[1] = "beginLumi" THEN DOMAIN lumis ELSE DOMAIN runs)
  BY <1>1, HeadFacts
<1>3. /\ stream[s] \in StreamRecords
      /\ st \in StreamRecords
      /\ st.run = stream[s].run /\ st.lumi = stream[s].lumi /\ st.doing = stream[s].doing
      /\ st.queue = rest /\ st.pauses = 1
  <2> DEFINE p == stream[s].pauses + 1
  <2>1. stream[s] \in StreamRecords
    BY InList
  <2>2. p \in Int /\ p = 1
    BY <1>1, <2>1 DEF StreamRecords
  <2>3. st = [stream[s] EXCEPT !.queue = rest, !.pauses = p]
    BY <2>1 DEF StreamRecords
  <2>4. rest \in Seq(StreamTasks)
    BY <1>2
  <2> HIDE DEF st, rest, p
  <2>5. st \in StreamRecords
    BY <2>1, <2>2, <2>3, <2>4 DEF StreamRecords
  <2>6. /\ st.run = stream[s].run /\ st.lumi = stream[s].lumi /\ st.doing = stream[s].doing
        /\ st.queue = rest /\ st.pauses = p
    BY <2>1, <2>3 DEF StreamRecords
  <2> QED
    BY <2>1, <2>2, <2>5, <2>6
<1>4. Takes(s, task[1])
  BY <1>1 DEF Takes
<1>5. task[2] \in Nat
  BY <1>2, InList
<1> DEFINE run == task[2]
<1> HIDE DEF task, rest, st
<1>6. CASE task[1] = "beginRun"
  <2> DEFINE x == [st EXCEPT !.run = run, !.doing = "beginRun"]
  <2>1. /\ x.run = run /\ x.lumi = stream[s].lumi /\ x.doing = "beginRun"
        /\ x.queue = rest /\ x.pauses = 1
        /\ x \in StreamRecords
    BY <1>2, <1>3, <1>5 DEF StreamRecords, Doings
  <2>2. stream' = [stream EXCEPT ![s] = x] /\ UNCHANGED lumis
    BY <1>1, <1>6
  <2> HIDE DEF x, run
  <2>3. StreamTo(s, run, stream[s].lumi, "beginRun", rest, 1)
    BY <2>1, <2>2, StreamToRule
  <2> QED
    BY <1>4, <1>6, <2>2, <2>3 DEF BeginsRun, task, rest, run
<1>7. CASE task[1] = "endRun"
  <2> DEFINE x == [st EXCEPT !.doing = "endRun"]
  <2>1. /\ x.run = stream[s].run /\ x.lumi = stream[s].lumi /\ x.doing = "endRun"
        /\ x.queue = rest /\ x.pauses = 1
        /\ x \in StreamRecords
    BY <1>2, <1>3, <1>5 DEF StreamRecords, Doings
  <2>2. stream' = [stream EXCEPT ![s] = x] /\ UNCHANGED lumis
    BY <1>1, <1>7
  <2> HIDE DEF x, run
  <2>3. StreamTo(s, stream[s].run, stream[s].lumi, "endRun", rest, 1)
    BY <2>1, <2>2, StreamToRule
  <2> QED
    BY <1>4, <1>7, <2>2, <2>3 DEF EndsRun, task, rest
<1>8. CASE task[1] = "beginLumi" /\ ShouldStart(task[2])
  <2> DEFINE x == [st EXCEPT !.lumi = run, !.doing = "beginLumi"]
  <2>1. /\ x.run = stream[s].run /\ x.lumi = run /\ x.doing = "beginLumi"
        /\ x.queue = rest /\ x.pauses = 1
        /\ x \in StreamRecords
    BY <1>2, <1>3, <1>5 DEF StreamRecords, Doings
  <2>2. /\ stream' = [stream EXCEPT ![s] = x]
        /\ lumis' = [lumis EXCEPT ![run].joined = @ + 1]
    BY <1>1, <1>8
  <2>3. run \in DOMAIN lumis /\ LumiRecord(lumis[run]) /\ ~lumis[run].noMore
    BY <1>2, <1>8, InList DEF ShouldStart
  <2>4. run = task[2]
    OBVIOUS
  <2> HIDE DEF x, run
  <2>5. StreamTo(s, stream[s].run, run, "beginLumi", rest, 1)
    BY <2>1, <2>2, StreamToRule
  <2>6. lumis' \in [DOMAIN lumis -> {lumis'[k] : k \in DOMAIN lumis}]
    BY <2>2
  <2>7. \A k \in DOMAIN lumis \ {run} : lumis'[k] = lumis[k]
    BY <2>2
  <2>8. /\ lumis'[run].run = lumis[run].run /\ lumis'[run].phase = lumis[run].phase
        /\ lumis'[run].num = lumis[run].num
        /\ lumis'[run].noMore = lumis[run].noMore /\ lumis'[run].state = lumis[run].state
        /\ lumis'[run].started = lumis[run].started
        /\ lumis'[run].joined = lumis[run].joined + 1
        /\ lumis'[run].toEnd = lumis[run].toEnd /\ LumiRecord(lumis'[run])
    BY <2>2, <2>3 DEF LumiRecord, LumiFields
  <2>9. LumiTo(lumis', run, lumis[run].phase, lumis[run].noMore, lumis[run].state,
               lumis[run].started, lumis[run].joined + 1, lumis[run].toEnd)
    BY <2>3, <2>6, <2>7, <2>8, InList, LumiToRule
  <2> QED
    BY <1>4, <1>8, <2>3, <2>4, <2>5, <2>9 DEF Joins, task, rest
<1>9. CASE task[1] = "beginLumi" /\ ~ShouldStart(task[2])
  <2> DEFINE x == [stream[s] EXCEPT !.queue = rest]
  <2>1. /\ x.run = stream[s].run /\ x.lumi = stream[s].lumi /\ x.doing = stream[s].doing
        /\ x.queue = rest /\ x.pauses = 0
        /\ x \in StreamRecords
    BY <1>1, <1>2, <1>3, <1>5 DEF StreamRecords, Doings
  <2>2. stream' = [stream EXCEPT ![s] = x] /\ UNCHANGED lumis
    BY <1>1, <1>9 DEF rest
  <2> HIDE DEF x, run
  <2>3. StreamTo(s, stream[s].run, stream[s].lumi, stream[s].doing, rest, 0)
    BY <2>1, <2>2, StreamToRule
  <2> QED
    BY <1>4, <1>9, <2>2, <2>3 DEF Skips, task, rest, ShouldStart
<1> QED
  BY <1>1, <1>6, <1>7, <1>8, <1>9

LEMMA StreamBeginRunFacts ==
  ASSUME TaskInv, NEW s \in Streams, StreamBeginRun(s)
  PROVE  HasBegun(s)
<1> DEFINE r == stream[s].run
           x == [stream[s] EXCEPT !.doing = "nothing", !.pauses = @ - 1]
<1>1. /\ r \in DOMAIN runs /\ RunRecord(runs[r]) /\ stream[s] \in StreamRecords
      /\ stream[s].doing = "beginRun"
  BY PlaceFacts, InList DEF StreamBeginRun
<1>2. /\ x \in StreamRecords
      /\ x.run = r /\ x.lumi = stream[s].lumi /\ x.doing = "nothing"
      /\ x.queue = stream[s].queue /\ x.pauses = stream[s].pauses - 1
  <2> DEFINE p == stream[s].pauses - 1
  <2>1. p \in Int
    BY <1>1 DEF StreamRecords
  <2>2. x = [stream[s] EXCEPT !.doing = "nothing", !.pauses = p]
    BY <1>1 DEF StreamRecords
  <2>3. p = stream[s].pauses - 1
    OBVIOUS
  <2> HIDE DEF x, p
  <2> QED
    BY <1>1, <2>1, <2>2, <2>3 DEF StreamRecords, Doings
<1>9. stream' = [stream EXCEPT ![s] = x] /\ UNCHANGED lumis
  BY DEF StreamBeginRun
<1>3. runs' = [runs EXCEPT ![r].toBegin = @ - 1]
  BY DEF StreamBeginRun
<1>4. r = stream[s].run
  OBVIOUS
<1> HIDE DEF r, x
<1>5. /\ runs' \in [DOMAIN runs -> {runs'[q] : q \in DOMAIN runs}]
      /\ \A q \in DOMAIN runs \ {r} : runs'[q] = runs[q]
  BY <1>1, <1>3
<1>6. /\ RunRecord(runs'[r]) /\ runs'[r].phase = runs[r].phase
      /\ runs'[r].num = runs[r].num
      /\ runs'[r].toBegin = runs[r].toBegin - 1 /\ runs'[r].toEnd = runs[r].toEnd
      /\ runs'[r].enders = runs[r].enders
  BY <1>1, <1>3 DEF RunRecord, RunFields
<1>7. RunTo(runs', r, runs[r].phase, runs[r].toBegin - 1, runs[r].toEnd, runs[r].enders)
  BY <1>1, <1>5, <1>6, InList, RunToRule
<1>8. StreamTo(s, r, stream[s].lumi, "nothing", stream[s].queue, stream[s].pauses - 1)
  BY <1>2, <1>9, StreamToRule
<1> QED
  BY <1>1, <1>4, <1>7, <1>8, <1>9 DEF HasBegun

LEMMA StreamEndRunFacts ==
  ASSUME TaskInv, NEW s \in Streams, StreamEndRun(s)
  PROVE  HasEnded(s)
<1> DEFINE r == stream[s].run
           x == [stream[s] EXCEPT !.run = 0, !.doing = "nothing", !.pauses = @ - 1]
           e == IF runs[r].toEnd = 1 THEN runs[r].enders - 1 ELSE runs[r].enders
<1>1. /\ r \in DOMAIN runs /\ RunRecord(runs[r]) /\ stream[s] \in StreamRecords
      /\ stream[s].doing = "endRun"
  BY PlaceFacts, InList DEF StreamEndRun
<1>2. /\ x \in StreamRecords
      /\ x.run = 0 /\ x.lumi = stream[s].lumi /\ x.doing = "nothing"
      /\ x.queue = stream[s].queue /\ x.pauses = stream[s].pauses - 1
  <2> DEFINE p == stream[s].pauses - 1
  <2>1. p \in Int
    BY <1>1 DEF StreamRecords
  <2>2. x = [stream[s] EXCEPT !.run = 0, !.doing = "nothing", !.pauses = p]
    BY <1>1 DEF StreamRecords
  <2>3. p = stream[s].pauses - 1
    OBVIOUS
  <2> HIDE DEF x, p
  <2> QED
    BY <1>1, <2>1, <2>2, <2>3 DEF StreamRecords, Doings
<1>9. stream' = [stream EXCEPT ![s] = x] /\ UNCHANGED lumis
  BY DEF StreamEndRun
<1>3. runs' = [runs EXCEPT ![r].toEnd = @ - 1,
                           ![r].enders = IF runs[r].toEnd = 1 THEN @ - 1 ELSE @]
  BY DEF StreamEndRun
<1>4. r = stream[s].run /\ e = IF runs[r].toEnd = 1 THEN runs[r].enders - 1 ELSE runs[r].enders
  OBVIOUS
<1> HIDE DEF r, x, e
<1>5. /\ runs' \in [DOMAIN runs -> {runs'[q] : q \in DOMAIN runs}]
      /\ \A q \in DOMAIN runs \ {r} : runs'[q] = runs[q]
  BY <1>1, <1>3
<1>6. /\ RunRecord(runs'[r]) /\ runs'[r].phase = runs[r].phase
      /\ runs'[r].num = runs[r].num
      /\ runs'[r].toBegin = runs[r].toBegin /\ runs'[r].toEnd = runs[r].toEnd - 1
      /\ runs'[r].enders = e
  <2>1. runs' = [runs EXCEPT ![r].toEnd = @ - 1, ![r].enders = e]
    BY <1>1, <1>3, <1>4 DEF RunRecord, RunFields
  <2>2. e \in Int
    BY <1>1, <1>4 DEF RunRecord
  <2>3. /\ runs'[r] = [f \in RunFields |-> runs'[r][f]] /\ runs'[r].phase = runs[r].phase
        /\ runs'[r].num = runs[r].num
        /\ runs'[r].holds = runs[r].holds /\ runs'[r].ok = runs[r].ok
        /\ runs'[r].esOK = runs[r].esOK /\ runs'[r].toBegin = runs[r].toBegin
        /\ runs'[r].toEnd = runs[r].toEnd - 1 /\ runs'[r].enders = e
    BY <1>1, <2>1 DEF RunRecord, RunFields
  <2> QED
    BY <1>1, <2>2, <2>3 DEF RunRecord
<1>7. RunTo(runs', r, runs[r].phase, runs[r].toBegin, runs[r].toEnd - 1, e)
  BY <1>1, <1>5, <1>6, InList, RunToRule
<1>8. StreamTo(s, 0, stream[s].lumi, "nothing", stream[s].queue, stream[s].pauses - 1)
  BY <1>2, <1>9, StreamToRule
<1> QED
  BY <1>1, <1>4, <1>7, <1>8, <1>9 DEF HasEnded

LEMMA NextEventFacts ==
  ASSUME TaskInv, NEW s \in Streams, stream[s].doing \in {"beginLumi", "event", "resume"},
         NextEventForStream(s), UNCHANGED <<runs, lumis>>
  PROVE  \E doing \in Doings : Does(s, doing)
<1> DEFINE doing == IF Over(s) THEN "endLumi" ELSE "next"
<1>1. doing \in Doings /\ Leave(s, doing)
  BY DEF NextEventForStream, Over, Doings
<1>2. StreamDoes(s, doing)
  BY <1>1, LeaveFacts
<1> QED
  BY <1>1, <1>2 DEF Does

(* A stream that waits for the source in a luminosity block that has no    *)
(* end yet is in one that streams may join.                                *)
LEMMA ReaderFacts ==
  ASSUME TaskInv, NEW s \in Streams, stream[s].doing = "next"
  PROVE  LET l == stream[s].lumi IN
         /\ l \in DOMAIN lumis /\ lumis[l].run \in DOMAIN runs /\ lumis[l].phase = "open"
         /\ lumis[l].started => lumis[l].noMore /\ lumis[l].state = "stop"
         /\ ~lumis[l].started => /\ ~lumis[l].noMore /\ l = Len(lumis)
                                 /\ runs[lumis[l].run].phase = "open"
<1> DEFINE l == stream[s].lumi
<1>1. l \in DOMAIN lumis /\ lumis[l].run \in DOMAIN runs /\ s \in In(l)
  BY PlaceFacts, InList DEF In
<1>2. lumis[l].phase = "open"
  BY <1>1 DEF TaskInv, LumisCounted
<1>3. /\ lumis[l].started => lumis[l].noMore /\ lumis[l].state = "stop"
      /\ ~lumis[l].started => ~lumis[l].noMore
  BY <1>1 DEF TaskInv, LumisJoined
<1> QED
  BY <1>1, <1>2, <1>3 DEF TaskInv, LumisInTurn, Current

(* The run and luminosity block of a stream that stops reading.            *)
LEMMA StopsFacts ==
  ASSUME TaskInv, NEW s \in Streams, stream[s].doing = "next", ~Over(s)
  PROVE  /\ stream[s].lumi \in DOMAIN lumis /\ Current(stream[s].lumi)
         /\ lumis[stream[s].lumi].phase = "open" /\ ~lumis[stream[s].lumi].noMore
BY ReaderFacts DEF Over, Current

LEMMA PauseLumiFacts ==
  ASSUME TaskInv, NEW s \in Streams, stream[s].doing = "next", ~Over(s), PauseLumi(s)
  PROVE  Pauses(s)
<1> DEFINE l == stream[s].lumi
           r == lumis[l].run
<1>1. l \in DOMAIN lumis /\ r \in DOMAIN runs /\ LumiRecord(lumis[l]) /\ RunRecord(runs[r])
  BY ReaderFacts, InList
<1>2. StreamDoes(s, "nothing")
  BY LeaveFacts DEF PauseLumi, Doings
<1>3. lumis' = [lumis EXCEPT ![l].state = "pause"] /\ runs' = [runs EXCEPT ![r].holds = FALSE]
  BY DEF PauseLumi
<1>4. l = stream[s].lumi /\ r = lumis[l].run
  OBVIOUS
<1> HIDE DEF l, r
<1>5. lumis' \in [DOMAIN lumis -> {lumis'[k] : k \in DOMAIN lumis}]
  BY <1>3
<1>6. \A k \in DOMAIN lumis \ {l} : lumis'[k] = lumis[k]
  BY <1>3
<1>7. /\ lumis'[l].run = lumis[l].run /\ lumis'[l].phase = lumis[l].phase
      /\ lumis'[l].num = lumis[l].num
      /\ lumis'[l].noMore = lumis[l].noMore /\ lumis'[l].state = "pause"
      /\ lumis'[l].started = lumis[l].started /\ lumis'[l].joined = lumis[l].joined
      /\ lumis'[l].toEnd = lumis[l].toEnd /\ LumiRecord(lumis'[l])
  BY <1>1, <1>3 DEF LumiRecord, LumiFields
<1>8. LumiTo(lumis', l, lumis[l].phase, lumis[l].noMore, "pause", lumis[l].started,
             lumis[l].joined, lumis[l].toEnd)
  BY <1>1, <1>5, <1>6, <1>7, InList, LumiToRule
<1>9. runs' \in [DOMAIN runs -> {runs'[q] : q \in DOMAIN runs}]
  BY <1>3
<1>10. \A q \in DOMAIN runs \ {r} : runs'[q] = runs[q]
  BY <1>3
<1>11. /\ runs'[r] = [f \in RunFields |-> runs'[r][f]] /\ runs'[r].phase = runs[r].phase
       /\ runs'[r].num = runs[r].num
       /\ runs'[r].holds \in BOOLEAN /\ runs'[r].ok \in BOOLEAN /\ runs'[r].esOK \in BOOLEAN
       /\ runs'[r].toBegin = runs[r].toBegin /\ runs'[r].toEnd = runs[r].toEnd
       /\ runs'[r].enders = runs[r].enders /\ runs[r].phase \in RunPhases
  BY <1>1, <1>3 DEF RunRecord, RunFields
<1>12. RunMoves(runs', r, runs[r].phase)
  BY <1>1, <1>9, <1>10, <1>11, PhaseRule
<1> QED
  BY <1>2, <1>4, <1>8, <1>12 DEF Pauses

LEMMA StopLumiFacts ==
  ASSUME TaskInv, NEW s \in Streams, stream[s].doing = "next", StopLumi(s),
         lumis[stream[s].lumi].state # "pause"
  PROVE  Does(s, "endLumi") \/ \E ls : Stops(s, ls)
<1> DEFINE l == stream[s].lumi
           r == lumis[l].run
           ls == [lumis EXCEPT ![l].state = "stop", ![l].noMore = TRUE,
                               ![l].toEnd = lumis[l].joined, ![l].started = TRUE]
<1>1. StreamDoes(s, "endLumi")
  BY LeaveFacts DEF StopLumi, Doings
<1>2. CASE lumis[l].started /\ UNCHANGED <<runs, lumis>>
  BY <1>1, <1>2 DEF Does, Over
<1>3. ASSUME ~lumis[l].started,
             \/ lumis' = Append(ls, NewLumi(r, input[src'.pos].lumi)) /\ UNCHANGED runs
             \/ lumis' = ls /\ runs' = EndRunAsync(runs, r)
      PROVE  Stops(s, ls)
  <2>1. /\ l \in DOMAIN lumis /\ r \in DOMAIN runs /\ r \in Nat /\ LumiRecord(lumis[l])
        /\ runs[r].phase = "open"
    BY <1>3, ReaderFacts, InList
  <2>2. /\ ls \in [DOMAIN lumis -> {ls[k] : k \in DOMAIN lumis}]
        /\ \A k \in DOMAIN lumis \ {l} : ls[k] = lumis[k]
    BY <2>1
  <2>3. /\ ls[l].run = lumis[l].run /\ ls[l].phase = lumis[l].phase
        /\ ls[l].num = lumis[l].num
        /\ ls[l].noMore = TRUE /\ ls[l].state = "stop"
        /\ ls[l].started = TRUE /\ ls[l].joined = lumis[l].joined
        /\ ls[l].toEnd = lumis[l].joined /\ ls[l] = [f \in LumiFields |-> ls[l][f]]
        /\ ls[l].ok = lumis[l].ok
    BY <2>1 DEF LumiRecord, LumiFields
  <2>4. l = stream[s].lumi /\ r = lumis[l].run
    OBVIOUS
  <2> HIDE DEF ls, l, r
  <2>5. LumiRecord(ls[l])
    BY <2>1, <2>3 DEF LumiRecord
  <2>6. LumiTo(ls, l, lumis[l].phase, TRUE, "stop", TRUE, lumis[l].joined, lumis[l].joined)
    BY <2>1, <2>2, <2>3, <2>5, InList, LumiToRule
  <2>7. (LumiMade(ls, r) /\ UNCHANGED runs) \/ (lumis' = ls /\ RunMoves(runs', r, "endSync"))
    <3>1. IsList(ls)
      BY <2>6 DEF LumiTo
    <3> QED
      BY <1>3, <2>1, <3>1, LumiMadeRule, EndRunFacts
  <2>8. ~Over(s)
    BY <1>3, <2>4 DEF Over
  <2> QED
    BY <1>1, <2>4, <2>6, <2>7, <2>8 DEF Stops
<1> HIDE DEF ls
<1> QED
  <2>1. \/ lumis[l].started /\ UNCHANGED <<runs, lumis>>
        \/ /\ ~lumis[l].started
           /\ \/ lumis' = Append(ls, NewLumi(r, input[src'.pos].lumi)) /\ UNCHANGED runs
              \/ lumis' = ls /\ runs' = EndRunAsync(runs, r)
    BY DEF StopLumi, ls
  <2> QED
    BY <1>2, <1>3, <2>1

LEMMA NoEventFacts ==
  ASSUME TaskInv, NEW s \in Streams, NoEvent(s)
  PROVE  Does(s, "endLumi") \/ Pauses(s) \/ \E ls : Stops(s, ls)
<1>1. stream[s].doing = "next"
  BY AtSourceFacts DEF NoEvent, SourceTask
<1>2. \/ Pausing(stream[s].lumi) /\ PauseLumi(s)
      \/ StopLumi(s) /\ lumis[stream[s].lumi].state # "pause"
      \/ MayRead(s) /\ PauseLumi(s)
  BY DEF NoEvent, Pausing, MayRead
<1>3. (Pausing(stream[s].lumi) \/ MayRead(s)) => ~Over(s)
  BY <1>1, ReaderFacts DEF Pausing, MayRead, Over
<1> QED
  BY <1>1, <1>2, <1>3, PauseLumiFacts, StopLumiFacts

LEMMA StreamEndLumiFacts ==
  ASSUME TaskInv, NEW s \in Streams, StreamEndLumi(s)
  PROVE  Leaves(s)
<1> DEFINE l == stream[s].lumi
           x == [stream[s] EXCEPT !.lumi = 0, !.doing = "nothing", !.pauses = @ - 1]
           f == IF lumis[l].toEnd = 1 THEN "end" ELSE lumis[l].phase
<1>1. /\ l \in DOMAIN lumis /\ LumiRecord(lumis[l]) /\ stream[s] \in StreamRecords
      /\ stream[s].doing = "endLumi"
  BY PlaceFacts, InList DEF StreamEndLumi
<1>2. /\ x \in StreamRecords
      /\ x.run = stream[s].run /\ x.lumi = 0 /\ x.doing = "nothing"
      /\ x.queue = stream[s].queue /\ x.pauses = stream[s].pauses - 1
  <2> DEFINE p == stream[s].pauses - 1
  <2>1. p \in Int
    BY <1>1 DEF StreamRecords
  <2>2. x = [stream[s] EXCEPT !.lumi = 0, !.doing = "nothing", !.pauses = p]
    BY <1>1 DEF StreamRecords
  <2>3. p = stream[s].pauses - 1
    OBVIOUS
  <2> HIDE DEF x, p
  <2> QED
    BY <1>1, <2>1, <2>2, <2>3 DEF StreamRecords, Doings
<1>3. /\ stream' = [stream EXCEPT ![s] = x] /\ UNCHANGED runs
      /\ lumis' = [lumis EXCEPT ![l].toEnd = @ - 1, ![l].phase = f]
  BY DEF StreamEndLumi
<1>4. l = stream[s].lumi /\ f = (IF lumis[l].toEnd = 1 THEN "end" ELSE lumis[l].phase)
  OBVIOUS
<1>5. f \in LumiPhases
  BY <1>1 DEF LumiRecord, LumiPhases
<1> HIDE DEF l, x, f
<1>6. /\ lumis' \in [DOMAIN lumis -> {lumis'[k] : k \in DOMAIN lumis}]
      /\ \A k \in DOMAIN lumis \ {l} : lumis'[k] = lumis[k]
  BY <1>3
<1>7. /\ lumis'[l].run = lumis[l].run /\ lumis'[l].phase = f
      /\ lumis'[l].num = lumis[l].num
      /\ lumis'[l].noMore = lumis[l].noMore /\ lumis'[l].state = lumis[l].state
      /\ lumis'[l].started = lumis[l].started /\ lumis'[l].joined = lumis[l].joined
      /\ lumis'[l].toEnd = lumis[l].toEnd - 1 /\ lumis'[l] = [k \in LumiFields |-> lumis'[l][k]]
      /\ lumis'[l].ok = lumis[l].ok
  BY <1>1, <1>3 DEF LumiRecord, LumiFields
<1>8. LumiRecord(lumis'[l])
  BY <1>1, <1>5, <1>7 DEF LumiRecord
<1>9. LumiTo(lumis', l, f, lumis[l].noMore, lumis[l].state, lumis[l].started, lumis[l].joined,
             lumis[l].toEnd - 1)
  BY <1>1, <1>6, <1>7, <1>8, InList, LumiToRule
<1>10. StreamTo(s, stream[s].run, 0, "nothing", stream[s].queue, stream[s].pauses - 1)
  BY <1>2, <1>3, StreamToRule
<1> QED
  BY <1>1, <1>3, <1>4, <1>9, <1>10 DEF Leaves

LEMMA StreamStepChange ==
  ASSUME TaskInv, NEW s \in Streams, StreamStep(s)
  PROVE  StreamChange(s) \/ UNCHANGED <<runs, lumis, stream>>
<1>1. CASE StreamReady(s) \/ StreamResume(s)
  <2>1. \E doing \in Doings : Does(s, doing)
    BY <1>1, NextEventFacts DEF StreamReady, StreamResume
  <2> QED
    BY <2>1 DEF StreamChange
<1>2. CASE ReadEvent(s)
  <2>1. stream[s].doing = "next" /\ UNCHANGED <<runs, lumis>>
    BY <1>2, AtSourceFacts DEF ReadEvent, SourceTask
  <2>2. StreamDoes(s, "event")
    BY <1>2, LeaveFacts DEF ReadEvent, Doings
  <2> QED
    BY <2>1, <2>2 DEF Does, StreamChange, Doings
<1>3. CASE SourceThrows(s)
  BY <1>3 DEF SourceThrows
<1>4. CASE StreamTake(s)
  BY <1>4, StreamTakeFacts DEF StreamChange
<1>5. CASE NoEvent(s)
  BY <1>5, NoEventFacts DEF StreamChange, Doings
<1>6. CASE StreamBeginRun(s) \/ StreamEndLumi(s) \/ StreamEndRun(s)
  BY <1>6, StreamBeginRunFacts, StreamEndLumiFacts, StreamEndRunFacts DEF StreamChange
<1> QED
  BY <1>1, <1>2, <1>3, <1>4, <1>5, <1>6 DEF StreamStep

LEMMA TaskStepChange ==
  ASSUME TaskInv, TaskStep
  PROVE  Change
BY RunStepChange, LumiStepChange, StreamStepChange DEF TaskStep, Change

-----------------------------------------------------------------------------
(* When nobody holds the task that the main thread waits for, nothing is   *)
(* under way.  A run and a luminosity block may be open: all streams are   *)
(* in them.                                                                *)

AllIn(r, l) ==
  /\ r # 0 => r \in DOMAIN runs /\ r = Len(runs) /\ runs[r].phase = "open"
  /\ l # 0 => /\ l \in DOMAIN lumis /\ lumis[l].run = r /\ lumis[l].phase = "open"
              /\ ~lumis[l].noMore /\ lumis[l].joined = N /\ r # 0
  /\ \A q \in DOMAIN runs : q # r => runs[q].phase \in {"closed", "dropped"}
  /\ \A k \in DOMAIN lumis : k # l => lumis[k].phase \in {"closed", "dropped"}
  /\ \A s \in Streams : /\ stream[s].run = r /\ stream[s].lumi = l
                        /\ stream[s].doing = "nothing" /\ stream[s].queue = <<>>

(* Where the streams are, 0 if nowhere.                                    *)
RunAt  == IF Active("run") = {} THEN 0 ELSE CHOOSE r \in Active("run") : TRUE
LumiAt == IF Active("lumi") = {} THEN 0 ELSE CHOOSE l \in Active("lumi") : TRUE

LEMMA QuietLumis ==
  ASSUME TaskInv, ~Busy, NEW l \in DOMAIN lumis, lumis[l].phase \notin {"closed", "dropped"}
  PROVE  /\ lumis[l].phase = "open" /\ ~lumis[l].noMore /\ lumis[l].joined = N
         /\ runs[lumis[l].run].phase = "open" /\ l = Len(lumis)
         /\ \A s \in Streams : stream[s].lumi = l
<1>1. lumis[l].phase = "open" /\ \A s \in Streams : stream[s].doing = "nothing" /\ stream[s].queue = <<>>
  BY DEF Busy
<1>2. ~lumis[l].noMore
  <2> SUFFICES ASSUME lumis[l].noMore PROVE FALSE
    OBVIOUS
  <2>1. PICK s \in Streams : s \in In(l)
    BY <1>1 DEF TaskInv, LumisCounted, In
  <2> QED
    BY <1>1, <2>1 DEF TaskInv, LumisJoined
<1>3. Current(l)
  BY <1>1, <1>2 DEF Current
<1>4. \A s \in Streams : ~Queued(s, <<"beginLumi", l>>)
  BY <1>1 DEF Queued
<1>5. \A s \in Streams : stream[s].lumi = l
  BY <1>1, <1>2, <1>4 DEF TaskInv, LumisJoined
<1>6. lumis[l].joined = N
  <2>1. In(l) = Streams
    BY <1>5 DEF In
  <2> QED
    BY <1>1, <1>2, <2>1 DEF TaskInv, LumisCounted, N
<1> QED
  BY <1>1, <1>2, <1>3, <1>5, <1>6 DEF TaskInv, LumisInTurn

LEMMA QuietRuns ==
  ASSUME TaskInv, ~Busy, NEW r \in DOMAIN runs, runs[r].phase \notin {"closed", "dropped"}
  PROVE  /\ runs[r].phase = "open" /\ r = Len(runs)
         /\ \A s \in Streams : stream[s].run = r
<1>1. /\ runs[r].phase \in {"open", "ending"}
      /\ runs[r].phase = "ending" => runs[r].enders # 0
      /\ \A s \in Streams : stream[s].doing = "nothing" /\ stream[s].queue = <<>>
  BY DEF Busy
<1>2. \A q \in DOMAIN runs : runs[q].phase \in Live =>
        \A s \in Streams : InRun(s) /\ stream[s].run = q
  BY <1>1 DEF TaskInv, QueuesEnd, QueueEnd
<1>3. (\A q \in DOMAIN runs : runs[q].phase \notin Live) => \A s \in Streams : ~InRun(s)
  BY <1>1 DEF TaskInv, QueuesEnd, QueueEnd
<1>4. CASE runs[r].phase = "ending"
  <2>1. Unfinished(r) = {}
    <3> SUFFICES ASSUME NEW s \in Streams, s \in Unfinished(r) PROVE FALSE
      BY DEF Unfinished
    <3>1. stream[s].run = r
      BY <1>1 DEF Unfinished, Queued
    <3>2. InRun(s)
      BY <1>1, <3>1, InList DEF InRun
    <3> QED
      BY <1>2, <1>3, <1>4, <3>1, <3>2 DEF Live
  <2>2. runs[r].toEnd = 0
    BY <1>4, <2>1, FS_EmptySet DEF TaskInv, RunsCounted, NotBegun
  <2>3. LumisOf(r) = {}
    BY <1>4, QuietLumis DEF LumisOf
  <2>4. runs[r].enders = (IF runs[r].toEnd = 0 THEN 0 ELSE 1) + Cardinality(LumisOf(r))
    BY DEF TaskInv, RunsCounted
  <2>5. Cardinality(LumisOf(r)) = 0
    BY <2>3, FS_EmptySet
  <2> QED
    BY <1>1, <1>4, <2>2, <2>4, <2>5
<1>5. CASE runs[r].phase = "open"
  BY <1>2, <1>5 DEF TaskInv, RunsInTurn, Live
<1> QED
  BY <1>1, <1>4, <1>5

LEMMA QuietFacts ==
  ASSUME TaskInv, ~Busy
  PROVE  /\ AllIn(RunAt, LumiAt)
         /\ RunAt = 0 <=> Active("run") = {}
         /\ LumiAt = 0 <=> Active("lumi") = {}
<1>0. PICK t \in Streams : TRUE
  BY EventProcessorAssumption
<1>1. \A s \in Streams : stream[s].doing = "nothing" /\ stream[s].queue = <<>>
  BY DEF Busy
<1>2. \A s \in Streams : stream[s].run = stream[t].run
  <2>1. CASE \E r \in DOMAIN runs : runs[r].phase \notin {"closed", "dropped"}
    BY <2>1, QuietRuns
  <2>2. CASE \A r \in DOMAIN runs : runs[r].phase \in {"closed", "dropped"}
    <3>1. \A s \in Streams : ~InRun(s)
      BY <1>1, <2>2 DEF TaskInv, QueuesEnd, QueueEnd, Live
    <3> QED
      BY <1>1, <3>1 DEF InRun
  <2> QED
    BY <2>1, <2>2
<1>3. \A s \in Streams : stream[s].lumi = stream[t].lumi
  <2>1. CASE \E l \in DOMAIN lumis : lumis[l].phase \notin {"closed", "dropped"}
    BY <2>1, QuietLumis
  <2>2. CASE \A l \in DOMAIN lumis : lumis[l].phase \in {"closed", "dropped"}
    <3>1. \A l \in DOMAIN lumis : In(l) = {}
      BY <2>2 DEF TaskInv, LumisCounted
    <3>2. \A s \in Streams : stream[s].lumi = 0
      BY <3>1, PlaceFacts DEF In
    <3> QED
      BY <3>2
  <2> QED
    BY <2>1, <2>2
<1>4. /\ Active("run") = {stream[t].run} \ {0}
      /\ Active("lumi") = {stream[t].lumi} \ {0}
  <2>1. Active("run") = {stream[s].run : s \in Streams} \ {0}
    BY DEF Active
  <2>2. Active("lumi") = {stream[s].lumi : s \in Streams} \ {0}
    BY DEF Active
  <2> QED
    BY <1>2, <1>3, <2>1, <2>2
<1>5. /\ RunAt = stream[t].run /\ LumiAt = stream[t].lumi
      /\ RunAt = 0 <=> Active("run") = {}
      /\ LumiAt = 0 <=> Active("lumi") = {}
  BY <1>4 DEF RunAt, LumiAt
<1>6. \A q \in DOMAIN runs : q # RunAt => runs[q].phase \in {"closed", "dropped"}
  BY <1>5, QuietRuns
<1>7. \A k \in DOMAIN lumis : k # LumiAt => lumis[k].phase \in {"closed", "dropped"}
  BY <1>5, QuietLumis
<1>8. RunAt # 0 => RunAt \in DOMAIN runs /\ RunAt = Len(runs) /\ runs[RunAt].phase = "open"
  <2> SUFFICES ASSUME RunAt # 0
               PROVE  RunAt \in DOMAIN runs /\ RunAt = Len(runs) /\ runs[RunAt].phase = "open"
    OBVIOUS
  <2>1. RunAt \in DOMAIN runs /\ InRun(t)
    BY <1>1, <1>5, PlaceFacts DEF InRun
  <2>2. runs[RunAt].phase \notin {"closed", "dropped"}
    <3> SUFFICES ASSUME runs[RunAt].phase \in {"closed", "dropped"} PROVE FALSE
      OBVIOUS
    <3>1. \A q \in DOMAIN runs : runs[q].phase \notin Live
      BY <1>6 DEF Live
    <3> QED
      BY <1>1, <2>1, <3>1 DEF TaskInv, QueuesEnd, QueueEnd
  <2> QED
    BY <2>1, <2>2, QuietRuns
<1>9. LumiAt # 0 => /\ LumiAt \in DOMAIN lumis /\ lumis[LumiAt].run = RunAt
                    /\ lumis[LumiAt].phase = "open" /\ ~lumis[LumiAt].noMore
                    /\ lumis[LumiAt].joined = N /\ RunAt # 0
  <2> SUFFICES ASSUME LumiAt # 0
               PROVE  /\ LumiAt \in DOMAIN lumis /\ lumis[LumiAt].run = RunAt
                      /\ lumis[LumiAt].phase = "open" /\ ~lumis[LumiAt].noMore
                      /\ lumis[LumiAt].joined = N /\ RunAt # 0
    OBVIOUS
  <2>1. LumiAt \in DOMAIN lumis /\ lumis[LumiAt].run = RunAt /\ RunAt # 0 /\ t \in In(LumiAt)
    BY <1>5, PlaceFacts, InList DEF In
  <2>2. lumis[LumiAt].phase \notin {"closed", "dropped"}
    BY <2>1 DEF TaskInv, LumisCounted
  <2> QED
    BY <2>1, <2>2, QuietLumis
<1>10. \A s \in Streams : /\ stream[s].run = RunAt /\ stream[s].lumi = LumiAt
                          /\ stream[s].doing = "nothing" /\ stream[s].queue = <<>>
  BY <1>1, <1>2, <1>3, <1>5
<1> QED
  BY <1>5, <1>6, <1>7, <1>8, <1>9, <1>10 DEF AllIn

-----------------------------------------------------------------------------
(* The calls that the main thread makes.                                   *)

LEMMA PlanFacts ==
  /\ Len(EndJob) = 5 /\ EndJob[1] = "endLumis" /\ EndJob[2] = "waitEnd" /\ EndJob[3] = "endRun"
  /\ EndJob[4] = "waitEnd" /\ EndJob[5] = "destroy"
  /\ Len(OpenBoth) = 15 /\ OpenBoth[1] = "endLumis" /\ OpenBoth[2] = "waitEnd"
  /\ OpenBoth[3] = "endRun" /\ OpenBoth[4] = "waitEnd" /\ OpenBoth[5] = "mark"
  /\ OpenBoth[6] = "respondClose" /\ OpenBoth[7] = "closeInput" /\ OpenBoth[8] = "endPB"
  /\ OpenBoth[9] = "closeOutputs" /\ OpenBoth[10] = "readFile" /\ OpenBoth[11] = "respondOpen"
  /\ OpenBoth[12] = "openOutputs" /\ OpenBoth[13] = "beginPB" /\ OpenBoth[14] = "inputPB"
  /\ OpenBoth[15] = "next"
  /\ Len(OpenFirst) = 6 /\ OpenFirst[1] = "readFile" /\ OpenFirst[2] = "respondOpen"
  /\ OpenFirst[3] = "openOutputs" /\ OpenFirst[4] = "beginPB" /\ OpenFirst[5] = "inputPB"
  /\ OpenFirst[6] = "next"
  /\ Len(OpenInput) = 6 /\ OpenInput[1] = "respondClose" /\ OpenInput[2] = "closeInput"
  /\ OpenInput[3] = "readFile" /\ OpenInput[4] = "respondOpen" /\ OpenInput[5] = "inputPB"
  /\ OpenInput[6] = "next"
  /\ Len(CloseAll) = 4 /\ CloseAll[1] = "respondClose" /\ CloseAll[2] = "closeInput"
  /\ CloseAll[3] = "endPB" /\ CloseAll[4] = "closeOutputs"
  /\ Len(CloseInput) = 2 /\ CloseInput[1] = "respondClose" /\ CloseInput[2] = "closeInput"
  /\ Len(Process) = 2 /\ Process[1] = "processRuns" /\ Process[2] = "wait"
  /\ Len(<<"next">>) = 1 /\ <<"next">>[1] = "next"
<1>1. /\ Len(EndJob) = 5 /\ EndJob[1] = "endLumis" /\ EndJob[2] = "waitEnd"
      /\ EndJob[3] = "endRun" /\ EndJob[4] = "waitEnd" /\ EndJob[5] = "destroy"
  BY DEF EndJob, EndRuns
<1>2. /\ Len(OpenBoth) = 15 /\ OpenBoth[1] = "endLumis" /\ OpenBoth[2] = "waitEnd"
      /\ OpenBoth[3] = "endRun" /\ OpenBoth[4] = "waitEnd" /\ OpenBoth[5] = "mark"
      /\ OpenBoth[6] = "respondClose" /\ OpenBoth[7] = "closeInput" /\ OpenBoth[8] = "endPB"
      /\ OpenBoth[9] = "closeOutputs"
  BY DEF OpenBoth, EndRuns, OpenFirst
<1>3. /\ OpenBoth[10] = "readFile" /\ OpenBoth[11] = "respondOpen"
      /\ OpenBoth[12] = "openOutputs" /\ OpenBoth[13] = "beginPB" /\ OpenBoth[14] = "inputPB"
      /\ OpenBoth[15] = "next"
  BY DEF OpenBoth, EndRuns, OpenFirst
<1>4. /\ Len(OpenFirst) = 6 /\ OpenFirst[1] = "readFile" /\ OpenFirst[2] = "respondOpen"
      /\ OpenFirst[3] = "openOutputs" /\ OpenFirst[4] = "beginPB" /\ OpenFirst[5] = "inputPB"
      /\ OpenFirst[6] = "next"
  BY DEF OpenFirst
<1>5. /\ Len(OpenInput) = 6 /\ OpenInput[1] = "respondClose" /\ OpenInput[2] = "closeInput"
      /\ OpenInput[3] = "readFile" /\ OpenInput[4] = "respondOpen" /\ OpenInput[5] = "inputPB"
      /\ OpenInput[6] = "next"
  BY DEF OpenInput
<1>6. /\ Len(CloseAll) = 4 /\ CloseAll[1] = "respondClose" /\ CloseAll[2] = "closeInput"
      /\ CloseAll[3] = "endPB" /\ CloseAll[4] = "closeOutputs"
      /\ Len(CloseInput) = 2 /\ CloseInput[1] = "respondClose" /\ CloseInput[2] = "closeInput"
      /\ Len(Process) = 2 /\ Process[1] = "processRuns" /\ Process[2] = "wait"
      /\ Len(<<"next">>) = 1 /\ <<"next">>[1] = "next"
  BY DEF CloseAll, CloseInput, Process
<1> QED
  BY <1>1, <1>2, <1>3, <1>4, <1>5, <1>6

LEMMA PlanSeq ==
  ASSUME NEW p \in Plans
  PROVE  p \in Seq(Calls) /\ Len(p) \in 1..15
<1>1. ASSUME p \in {<<"next">>, Process, OpenFirst, OpenInput, CloseInput, CloseAll}
      PROVE  p \in Seq(Calls)
  <2>1. <<"next">> \in Seq(Calls) /\ Process \in Seq(Calls) /\ CloseInput \in Seq(Calls)
    BY DEF Calls, Opening, Closing, Process, CloseInput
  <2>2. OpenFirst \in Seq(Calls)
    BY DEF Calls, Opening, Closing, OpenFirst
  <2>3. OpenInput \in Seq(Calls)
    BY DEF Calls, Opening, Closing, OpenInput
  <2>4. CloseAll \in Seq(Calls)
    BY DEF Calls, Opening, Closing, CloseAll
  <2> QED
    BY <1>1, <2>1, <2>2, <2>3, <2>4
<1>2. EndRuns \in Seq(Calls) /\ <<"destroy">> \in Seq(Calls) /\ OpenFirst \in Seq(Calls)
      /\ <<"mark", "respondClose", "closeInput", "endPB", "closeOutputs">> \in Seq(Calls)
  BY DEF Calls, Opening, Closing, EndRuns, OpenFirst
<1>3. EndJob \in Seq(Calls) /\ OpenBoth \in Seq(Calls)
  BY <1>2 DEF EndJob, OpenBoth
<1> QED
  BY <1>1, <1>3, PlanFacts DEF Plans

LEMMA Placed ==
  ASSUME MainInTurn, todo # <<>>
  PROVE  \E p \in Plans : \E i \in 1..Len(p) :
           Rest(p, i) /\ At(p, i) /\ FilesAt(p, i) /\ Head(todo) = p[i]
<1>1. PICK p \in Plans : \E i \in 1..(Len(p) + 1) : Rest(p, i) /\ At(p, i) /\ FilesAt(p, i)
  BY DEF MainInTurn
<1>2. PICK i \in 1..(Len(p) + 1) : Rest(p, i) /\ At(p, i) /\ FilesAt(p, i)
  BY <1>1
<1>3. Len(p) \in Nat /\ Len(todo) \in Nat /\ Len(todo) > 0 /\ Head(todo) = todo[1]
  BY PlanSeq DEF MainInTurn
<1>4. i \in 1..Len(p)
  BY <1>2, <1>3 DEF Rest
<1>5. Head(todo) = p[i]
  BY <1>2, <1>3, <1>4 DEF Rest
<1> QED
  BY <1>2, <1>4, <1>5

LEMMA Advance ==
  ASSUME todo \in Seq(Calls), NEW p \in Plans, NEW i \in 1..Len(p), Rest(p, i),
         todo' = Tail(todo)
  PROVE  Rest(p, i + 1)' /\ todo' \in Seq(Calls) /\ i + 1 \in 1..(Len(p) + 1)
<1>1. Len(p) \in Nat /\ Len(todo) = Len(p) + 1 - i /\ Len(todo) \in Nat /\ Len(todo) > 0
  BY PlanSeq DEF Rest
<1>2. /\ todo' \in Seq(Calls) /\ Len(todo') = Len(todo) - 1
      /\ \A j \in 1..Len(todo') : todo'[j] = todo[j + 1]
  BY <1>1
<1>3. \A j \in 1..Len(todo') : todo'[j] = p[i + (j + 1) - 1]
  BY <1>1, <1>2 DEF Rest
<1> QED
  BY <1>1, <1>2, <1>3 DEF Rest

LEMMA NewPlan ==
  ASSUME NEW p \in Plans, todo' = p
  PROVE  Rest(p, 1)' /\ todo' \in Seq(Calls) /\ 1 \in 1..(Len(p) + 1)
BY PlanSeq DEF Rest

LEMMA EndRunPlace ==
  ASSUME MainInTurn, Call("endRun")
  PROVE  NoLumi
<1>1. PICK p \in Plans : \E i \in 1..Len(p) :
        Rest(p, i) /\ At(p, i) /\ FilesAt(p, i) /\ Head(todo) = p[i]
  BY Placed DEF Call
<1>2. PICK i \in 1..Len(p) : Rest(p, i) /\ At(p, i) /\ FilesAt(p, i) /\ Head(todo) = p[i]
  BY <1>1
<1>3. p[i] = "endRun"
  BY <1>2 DEF Call
<1>4. p \in {EndJob, OpenBoth} /\ i = 3
  BY <1>3, PlanFacts DEF Plans
<1> QED
  BY <1>2, <1>4 DEF At

(* While the main thread makes any call but the waits, nothing is under way.*)
LEMMA MainQuiet ==
  ASSUME TaskInv, MainInTurn, todo # <<>>, Head(todo) \notin {"wait", "waitEnd"}
  PROVE  /\ ~Busy /\ AllIn(RunAt, LumiAt)
         /\ RunAt = 0 <=> Active("run") = {}
         /\ LumiAt = 0 <=> Active("lumi") = {}
BY QuietFacts DEF MainInTurn, Waiting

LEMMA BeginRunsFacts ==
  ASSUME TaskInv, MainInTurn, BeginRuns
  PROVE  MakesRun
<1>1. AllIn(RunAt, LumiAt) /\ RunAt = 0
  BY MainQuiet DEF BeginRuns, Call
<1>2. \A r \in DOMAIN runs : runs[r].phase \in {"ending", "closed", "dropped"}
  BY <1>1, InList DEF AllIn
<1>3. RunMade(runs)
  BY InList, RunMadeRule DEF BeginRuns, BeginRunAsync
<1> QED
  BY <1>2, <1>3 DEF BeginRuns, MakesRun

LEMMA DoAllFacts ==
  ASSUME TaskInv, NEW what \in Doings,
         stream' = [s \in Streams |-> [stream[s] EXCEPT !.doing = what]]
  PROVE  StreamsDo(what)
<1>1. \A s \in Streams : stream'[s] = [stream[s] EXCEPT !.doing = what]
  OBVIOUS
<1>2. ASSUME NEW s \in Streams
      PROVE  [stream[s] EXCEPT !.doing = what] \in StreamRecords
  BY InList DEF StreamRecords
<1>3. stream' \in [Streams -> StreamRecords]
  BY <1>1, <1>2
<1> QED
  BY <1>1, <1>3 DEF StreamsDo

LEMMA AllDo ==
  ASSUME TaskInv, NEW doing, StreamsDo(doing), NEW s \in Streams
  PROVE  /\ stream'[s].run = stream[s].run /\ stream'[s].lumi = stream[s].lumi
         /\ stream'[s].queue = stream[s].queue /\ stream'[s].pauses = stream[s].pauses
         /\ stream'[s].doing = doing
<1>1. stream[s] \in StreamRecords
  BY InList
<1> QED
  BY <1>1 DEF StreamsDo, StreamRecords

LEMMA ContinueRunFacts ==
  ASSUME TaskInv, MainInTurn, ContinueRun
  PROVE  \/ \E r \in DOMAIN runs : \E phase \in RunPhases : RunGoesOn(r, phase)
         \/ \E l \in DOMAIN lumis : Resumes(l)
         \/ UNCHANGED <<runs, lumis, stream>>
<1> DEFINE r  == RunAt
           l  == LumiAt
           rs == [runs EXCEPT ![r].holds = TRUE]
<1>1. /\ AllIn(r, l) /\ r # 0 /\ r = (CHOOSE i \in Active("run") : TRUE)
      /\ l = 0 <=> Active("lumi") = {}
      /\ l # 0 => l = (CHOOSE i \in Active("lumi") : TRUE)
  BY MainQuiet DEF ContinueRun, Call, RunAt, LumiAt
<1>2. /\ r \in DOMAIN runs /\ RunRecord(runs[r]) /\ runs[r].phase = "open"
      /\ l # 0 => l \in DOMAIN lumis /\ LumiRecord(lumis[l]) /\ lumis[l].run = r
  BY <1>1, InList DEF AllIn
<1>3. \/ UNCHANGED <<runs, lumis, stream>>
      \/ l = 0 /\ AfterRunEntries(rs, r) /\ UNCHANGED stream
      \/ /\ l # 0 /\ lumis' = [lumis EXCEPT ![l].state = "processing"] /\ runs' = rs
         /\ \/ UNCHANGED stream
            \/ stream' = [s \in Streams |-> [stream[s] EXCEPT !.doing = "resume"]]
  BY <1>1 DEF ContinueRun
<1>4. rs \in [DOMAIN runs -> {rs[q] : q \in DOMAIN runs}]
  BY <1>2
<1>5. \A q \in DOMAIN runs \ {r} : rs[q] = runs[q]
  BY <1>2
<1>6. /\ RunRecord(rs[r]) /\ rs[r].phase = "open" /\ rs[r].toBegin = runs[r].toBegin
      /\ rs[r].num = runs[r].num
      /\ rs[r].toEnd = runs[r].toEnd /\ rs[r].enders = runs[r].enders
  BY <1>2 DEF RunRecord, RunFields
<1> HIDE DEF r, l, rs
<1>7. CASE l = 0 /\ AfterRunEntries(rs, r) /\ UNCHANGED stream
  <2>1. \E phase \in RunPhases : RunMoves(runs', r, phase) /\ GoesOn(r, phase)
    BY <1>2, <1>4, <1>5, <1>6, <1>7, AfterRunEntriesFacts
  <2>2. NoCurrent
    BY <1>1, <1>7, InList DEF AllIn, NoCurrent, Current, Coming
  <2>3. \E phase \in RunPhases : RunGoesOn(r, phase)
    BY <1>2, <1>7, <2>1, <2>2 DEF RunGoesOn
  <2> QED
    BY <1>2, <2>3
<1>8. CASE /\ l # 0 /\ lumis' = [lumis EXCEPT ![l].state = "processing"] /\ runs' = rs
           /\ \/ UNCHANGED stream
              \/ stream' = [s \in Streams |-> [stream[s] EXCEPT !.doing = "resume"]]
  <2>1. StreamsDo("resume") \/ UNCHANGED stream
    BY <1>8, DoAllFacts DEF Doings
  <2>2. RunMoves(runs', r, runs[r].phase)
    BY <1>2, <1>4, <1>5, <1>6, <1>8, InList, RunToRule DEF RunMoves
  <2>3. lumis' \in [DOMAIN lumis -> {lumis'[k] : k \in DOMAIN lumis}]
    BY <1>8
  <2>4. \A k \in DOMAIN lumis \ {l} : lumis'[k] = lumis[k]
    BY <1>8
  <2>5. /\ lumis'[l].run = lumis[l].run /\ lumis'[l].phase = lumis[l].phase
        /\ lumis'[l].num = lumis[l].num
        /\ lumis'[l].noMore = lumis[l].noMore /\ lumis'[l].state = "processing"
        /\ lumis'[l].started = lumis[l].started /\ lumis'[l].joined = lumis[l].joined
        /\ lumis'[l].toEnd = lumis[l].toEnd /\ LumiRecord(lumis'[l])
    BY <1>2, <1>8 DEF LumiRecord, LumiFields
  <2>6. LumiTo(lumis', l, lumis[l].phase, lumis[l].noMore, "processing", lumis[l].started,
               lumis[l].joined, lumis[l].toEnd)
    BY <1>2, <1>8, <2>3, <2>4, <2>5, InList, LumiToRule
  <2>7. Idle(l)
    BY <1>1 DEF AllIn, Idle
  <2>8. Resumes(l)
    BY <1>2, <1>8, <2>1, <2>2, <2>6, <2>7 DEF Resumes
  <2> QED
    BY <1>2, <1>8, <2>8
<1> QED
  BY <1>3, <1>7, <1>8

LEMMA EndUnfinishedLumiFacts ==
  ASSUME TaskInv, MainInTurn, EndUnfinishedLumi
  PROVE  UNCHANGED runs /\ ((LumiAt = 0 /\ UNCHANGED <<lumis, stream>>) \/ (LumiAt \in DOMAIN lumis /\ CallsOff(LumiAt)))
<1> DEFINE l == LumiAt
<1>1. /\ AllIn(RunAt, l)
      /\ l = 0 <=> Active("lumi") = {}
  BY MainQuiet DEF EndUnfinishedLumi, Call
<1>2. UNCHANGED runs
  BY DEF EndUnfinishedLumi
<1>3. CASE l = 0
  BY <1>1, <1>2, <1>3 DEF EndUnfinishedLumi
<1>4. CASE l # 0
  <2>1. /\ l \in DOMAIN lumis /\ LumiRecord(lumis[l])
        /\ l = (CHOOSE i \in Active("lumi") : TRUE)
    BY <1>1, <1>4, InList DEF AllIn, LumiAt
  <2>2. /\ lumis' = [lumis EXCEPT ![l].noMore = TRUE, ![l].toEnd = lumis[l].joined]
        /\ stream' = [s \in Streams |-> [stream[s] EXCEPT !.doing = "endLumi"]]
    BY <1>1, <1>4, <2>1 DEF EndUnfinishedLumi
  <2> HIDE DEF l
  <2>3. lumis' \in [DOMAIN lumis -> {lumis'[k] : k \in DOMAIN lumis}]
    BY <2>2
  <2>4. \A k \in DOMAIN lumis \ {l} : lumis'[k] = lumis[k]
    BY <2>2
  <2>5. /\ lumis'[l].run = lumis[l].run /\ lumis'[l].phase = lumis[l].phase
        /\ lumis'[l].num = lumis[l].num
        /\ lumis'[l].noMore = TRUE /\ lumis'[l].state = lumis[l].state
        /\ lumis'[l].started = lumis[l].started /\ lumis'[l].joined = lumis[l].joined
        /\ lumis'[l].toEnd = lumis[l].joined /\ lumis'[l].ok = lumis[l].ok
    BY <2>1, <2>2 DEF LumiRecord, LumiFields
  <2>6. LumiRecord(lumis'[l])
    <3>1. lumis'[l] = [lumis[l] EXCEPT !.noMore = TRUE, !.toEnd = lumis[l].joined]
      BY <2>1, <2>2
    <3>2. lumis'[l] = [f \in LumiFields |-> lumis'[l][f]]
      BY <2>1, <3>1 DEF LumiRecord
    <3> QED
      BY <2>1, <2>5, <3>2 DEF LumiRecord
  <2>7. LumiTo(lumis', l, lumis[l].phase, TRUE, lumis[l].state, lumis[l].started,
               lumis[l].joined, lumis[l].joined)
    BY <2>1, <2>3, <2>4, <2>5, <2>6, InList, LumiToRule
  <2>8. StreamsDo("endLumi") /\ Idle(l)
    BY <1>1, <2>2, DoAllFacts DEF AllIn, Idle, Doings
  <2>9. CallsOff(l)
    BY <1>2, <2>7, <2>8 DEF CallsOff
  <2> QED
    BY <1>2, <2>1, <2>9 DEF l
<1> QED
  BY <1>3, <1>4

LEMMA EndUnfinishedRunFacts ==
  ASSUME TaskInv, MainInTurn, EndUnfinishedRun
  PROVE  /\ NoLumi /\ UNCHANGED <<lumis, stream>>
         /\ \/ RunAt = 0 /\ UNCHANGED <<runs, src>>
            \/ RunAt \in DOMAIN runs /\ RunGoesOn(RunAt, "endSync") /\ src'.kind = "Stop"
<1> DEFINE r == RunAt
<1>1. /\ AllIn(r, LumiAt)
      /\ r = 0 <=> Active("run") = {}
  BY MainQuiet DEF EndUnfinishedRun, Call
<1>2. NoLumi /\ UNCHANGED <<lumis, stream>>
  BY EndRunPlace DEF EndUnfinishedRun
<1>3. CASE r = 0
  BY <1>1, <1>2, <1>3 DEF EndUnfinishedRun
<1>4. CASE r # 0
  <2>1. /\ r \in DOMAIN runs /\ RunRecord(runs[r]) /\ runs[r].phase = "open"
        /\ r = (CHOOSE i \in Active("run") : TRUE)
    BY <1>1, <1>4, InList DEF AllIn, RunAt
  <2>2. /\ runs' = EndRunAsync([runs EXCEPT ![r].holds = TRUE], r)
        /\ src' = [src EXCEPT !.kind = "Stop"]
    BY <1>1, <1>4, <2>1 DEF EndUnfinishedRun
  <2> HIDE DEF r
  <2>3. runs' \in [DOMAIN runs -> {runs'[q] : q \in DOMAIN runs}]
    BY <2>2 DEF EndRunAsync
  <2>4. \A q \in DOMAIN runs \ {r} : runs'[q] = runs[q]
    BY <2>2 DEF EndRunAsync
  <2>5. runs'[r] = [f \in RunFields |-> runs'[r][f]]
    <3>1. runs'[r] = [runs[r] EXCEPT !.holds = TRUE, !.phase = "endSync"]
      BY <2>1, <2>2 DEF RunRecord, RunFields, EndRunAsync
    <3>2. \A x, y : x = [f \in RunFields |-> x[f]] /\ y = [x EXCEPT !.holds = TRUE, !.phase = "endSync"]
                   => y = [f \in RunFields |-> y[f]]
      OBVIOUS
    <3>3. runs[r] = [f \in RunFields |-> runs[r][f]]
      BY <2>1 DEF RunRecord
    <3> QED
      BY <3>1, <3>2, <3>3, Zenon
  <2>0. /\ runs'[r].phase = "endSync" /\ runs'[r].num = runs[r].num
        /\ runs'[r].holds \in BOOLEAN /\ runs'[r].ok \in BOOLEAN /\ runs'[r].esOK \in BOOLEAN
        /\ runs'[r].toBegin = runs[r].toBegin /\ runs'[r].toEnd = runs[r].toEnd
        /\ runs'[r].enders = runs[r].enders
    BY <2>1, <2>2 DEF RunRecord, RunFields, EndRunAsync
  <2>6. RunMoves(runs', r, "endSync")
    BY <2>1, <2>3, <2>4, <2>5, <2>0, PhaseRule DEF RunPhases
  <2>7. NoCurrent
    BY <1>2 DEF NoLumi, NoCurrent, Current, Coming
  <2>8. src'.kind = "Stop"
    BY <2>2
  <2>9. RunGoesOn(r, "endSync")
    BY <1>2, <2>1, <2>6, <2>7 DEF RunGoesOn, GoesOn
  <2> QED
    BY <1>2, <2>1, <2>8, <2>9 DEF r
<1> QED
  BY <1>3, <1>4

LEMMA MainStepChange ==
  ASSUME TaskInv, MainInTurn, MainStep
  PROVE  Change
<1>1. CASE \/ NextTransition \/ OpenFile \/ CloseFile \/ MarkClosing \/ Destroy \/ Wait
           \/ WaitEnd
  <2>1. UNCHANGED <<runs, lumis, stream>>
    BY <1>1 DEF NextTransition, OpenFile, CloseFile, MarkClosing, Destroy, Wait, WaitEnd,
                taskVars, vars
  <2> QED
    BY <2>1 DEF Change
<1>2. CASE BeginRuns
  BY <1>2, BeginRunsFacts DEF Change
<1>3. CASE ContinueRun
  BY <1>3, ContinueRunFacts DEF Change, RunChange
<1>4. CASE EndUnfinishedLumi
  BY <1>4, EndUnfinishedLumiFacts DEF Change
<1>5. CASE EndUnfinishedRun
  BY <1>5, EndUnfinishedRunFacts DEF Change, RunChange, RunPhases
<1> QED
  BY <1>1, <1>2, <1>3, <1>4, <1>5 DEF MainStep

-----------------------------------------------------------------------------
(* The records keep their types, ...                                       *)
LEMMA RecordsKept ==
  ASSUME TaskInv, Change
  PROVE  RecordTypes'
<1>1. ASSUME NEW r \in DOMAIN runs, NEW phase \in RunPhases, RunAdvances(r, phase)
      PROVE  RecordTypes'
  BY <1>1, InList DEF RunAdvances, RunMoves, RunTo, RecordTypes
<1>2. ASSUME NEW r \in DOMAIN runs, NEW phase \in RunPhases, RunGoesOn(r, phase)
      PROVE  RecordTypes'
  BY <1>2, InList DEF RunGoesOn, GoesOn, RunMoves, RunTo, LumiMade, RecordTypes
<1>3. ASSUME NEW r \in DOMAIN runs, NEW phase \in RunPhases, RunBegins(r, phase)
      PROVE  RecordTypes'
  BY <1>3, InList DEF RunBegins, GoesOn, RunMoves, RunTo, LumiMade, Pushed, RecordTypes
<1>4. ASSUME NEW r \in DOMAIN runs, NEW rs, RunEnds(r, rs)
      PROVE  RecordTypes'
  BY <1>4, InList DEF RunEnds, RunMoves, RunTo, RunMade, Pushed, RecordTypes
<1>5. ASSUME NEW l \in DOMAIN lumis, NEW phase \in LumiPhases, LumiAdvances(l, phase)
      PROVE  RecordTypes'
  BY <1>5, InList DEF LumiAdvances, LumiMoves, LumiTo, RecordTypes
<1>6. ASSUME NEW l \in DOMAIN lumis, LumiDropped(l)
      PROVE  RecordTypes'
  BY <1>6, InList DEF LumiDropped, LumiMoves, LumiTo, RunMoves, RunTo, RecordTypes
<1>7. ASSUME NEW l \in DOMAIN lumis, LumiUnbegun(l)
      PROVE  RecordTypes'
  BY <1>7, InList DEF LumiUnbegun, LumiMoves, LumiTo, Counts, RunTo, RecordTypes
<1>8. ASSUME NEW l \in DOMAIN lumis, LumiBegins(l)
      PROVE  RecordTypes'
  BY <1>8, InList DEF LumiBegins, LumiMoves, LumiTo, Counts, RunTo, Pushed, RecordTypes
<1>9. ASSUME NEW l \in DOMAIN lumis, LumiEnds(l)
      PROVE  RecordTypes'
  BY <1>9, InList DEF LumiEnds, LumiMoves, LumiTo, Counts, RunTo, RecordTypes
<1>10. ASSUME NEW s \in Streams, BeginsRun(s)
      PROVE  RecordTypes'
  BY <1>10, InList DEF BeginsRun, Takes, StreamTo, RecordTypes
<1>11. ASSUME NEW s \in Streams, EndsRun(s)
      PROVE  RecordTypes'
  BY <1>11, InList DEF EndsRun, Takes, StreamTo, RecordTypes
<1>12. ASSUME NEW s \in Streams, Joins(s)
      PROVE  RecordTypes'
  BY <1>12, InList DEF Joins, Takes, StreamTo, LumiTo, RecordTypes
<1>13. ASSUME NEW s \in Streams, Skips(s)
      PROVE  RecordTypes'
  BY <1>13, InList DEF Skips, Takes, StreamTo, RecordTypes
<1>14. ASSUME NEW s \in Streams, HasBegun(s)
      PROVE  RecordTypes'
  BY <1>14, InList DEF HasBegun, RunTo, StreamTo, RecordTypes
<1>15. ASSUME NEW s \in Streams, HasEnded(s)
      PROVE  RecordTypes'
  BY <1>15, InList DEF HasEnded, RunTo, StreamTo, RecordTypes
<1>16. ASSUME NEW s \in Streams, NEW doing \in Doings, Does(s, doing)
      PROVE  RecordTypes'
  BY <1>16, InList DEF Does, StreamDoes, StreamTo, RecordTypes
<1>17. ASSUME NEW s \in Streams, Pauses(s)
      PROVE  RecordTypes'
  BY <1>17, InList DEF Pauses, StreamDoes, StreamTo, LumiTo, RunMoves, RunTo, RecordTypes
<1>18. ASSUME NEW s \in Streams, Leaves(s)
      PROVE  RecordTypes'
  BY <1>18, InList DEF Leaves, StreamTo, LumiTo, RecordTypes
<1>19. ASSUME NEW s \in Streams, NEW ls, Stops(s, ls)
      PROVE  RecordTypes'
  <2> DEFINE l == stream[s].lumi
             r == lumis[l].run
  <2>1. /\ LumiTo(ls, l, lumis[l].phase, TRUE, "stop", TRUE, lumis[l].joined, lumis[l].joined)
        /\ r \in DOMAIN runs /\ r \in Nat /\ l \in DOMAIN lumis
        /\ stream' \in [Streams -> StreamRecords]
        /\ \/ LumiMade(ls, r) /\ UNCHANGED runs
           \/ lumis' = ls /\ RunMoves(runs', r, "endSync")
    BY <1>19, StopsFacts, InList DEF Stops, StreamDoes, StreamTo
  <2> HIDE DEF l, r
  <2> QED
    BY <2>1, InList DEF LumiTo, LumiMade, RunMoves, RunTo, RecordTypes
<1>20. CASE MakesRun
  BY <1>20, InList DEF MakesRun, RunMade, RecordTypes
<1>21. ASSUME NEW l \in DOMAIN lumis, Resumes(l)
      PROVE  RecordTypes'
  BY <1>21, InList DEF Resumes, LumiTo, RunMoves, RunTo, StreamsDo, RecordTypes
<1>22. ASSUME NEW l \in DOMAIN lumis, CallsOff(l)
      PROVE  RecordTypes'
  BY <1>22, InList DEF CallsOff, LumiTo, StreamsDo, RecordTypes
<1>23. CASE UNCHANGED <<runs, lumis, stream>>
  BY <1>23, InList DEF RecordTypes
<1> QED
  BY <1>1, <1>2, <1>3, <1>4, <1>5, <1>6, <1>7, <1>8, <1>9, <1>10, <1>11, <1>12,
     <1>13, <1>14, <1>15, <1>16, <1>17, <1>18, <1>19, <1>20, <1>21, <1>22, <1>23 DEF
     Change, RunChange, LumiChange, StreamChange


(* ... and runs and luminosity blocks take turns.                          *)
LEMMA RunsInTurnKept ==
  ASSUME TaskInv, Change
  PROVE  RunsInTurn'
<1>1. ASSUME NEW r \in DOMAIN runs, NEW phase \in RunPhases, RunAdvances(r, phase)
      PROVE  RunsInTurn'
  BY <1>1, InList DEF RunAdvances, RunMoves, RunTo, TaskInv, RunsInTurn
<1>2. ASSUME NEW r \in DOMAIN runs, NEW phase \in RunPhases, RunGoesOn(r, phase)
      PROVE  RunsInTurn'
  BY <1>2, InList DEF RunGoesOn, GoesOn, RunMoves, RunTo, LumiMade, TaskInv,
     RunsInTurn
<1>3. ASSUME NEW r \in DOMAIN runs, NEW phase \in RunPhases, RunBegins(r, phase)
      PROVE  RunsInTurn'
  BY <1>3, InList DEF RunBegins, GoesOn, RunMoves, RunTo, LumiMade, Pushed, TaskInv,
     RunsInTurn
<1>4. ASSUME NEW r \in DOMAIN runs, NEW rs, RunEnds(r, rs)
      PROVE  RunsInTurn'
  BY <1>4, InList, OneUnfinishedRun DEF RunEnds, RunMoves, RunTo, RunMade, Pushed,
     RunsInTurn
<1>5. ASSUME NEW l \in DOMAIN lumis, NEW phase \in LumiPhases, LumiAdvances(l, phase)
      PROVE  RunsInTurn'
  BY <1>5, InList DEF LumiAdvances, LumiMoves, LumiTo, TaskInv, RunsInTurn
<1>6. ASSUME NEW l \in DOMAIN lumis, LumiDropped(l)
      PROVE  RunsInTurn'
  BY <1>6, InList, CurrentFacts DEF LumiDropped, LumiMoves, LumiTo, RunMoves, RunTo,
     RunsInTurn, Current, Coming
<1>7. ASSUME NEW l \in DOMAIN lumis, LumiUnbegun(l)
      PROVE  RunsInTurn'
  BY <1>7, InList, CurrentFacts DEF LumiUnbegun, LumiMoves, LumiTo, Counts, RunTo,
     RunsInTurn, Current, Coming
<1>8. ASSUME NEW l \in DOMAIN lumis, LumiBegins(l)
      PROVE  RunsInTurn'
  BY <1>8, InList DEF LumiBegins, LumiMoves, LumiTo, Counts, RunTo, Pushed, TaskInv,
     RunsInTurn
<1>9. ASSUME NEW l \in DOMAIN lumis, LumiEnds(l)
      PROVE  RunsInTurn'
  BY <1>9, InList DEF LumiEnds, LumiMoves, LumiTo, Counts, RunTo, TaskInv, RunsInTurn
<1>10. ASSUME NEW s \in Streams, BeginsRun(s)
      PROVE  RunsInTurn'
  BY <1>10, InList DEF BeginsRun, Takes, StreamTo, TaskInv, RunsInTurn
<1>11. ASSUME NEW s \in Streams, EndsRun(s)
      PROVE  RunsInTurn'
  BY <1>11, InList DEF EndsRun, Takes, StreamTo, TaskInv, RunsInTurn
<1>12. ASSUME NEW s \in Streams, Joins(s)
      PROVE  RunsInTurn'
  BY <1>12, InList DEF Joins, Takes, StreamTo, LumiTo, TaskInv, RunsInTurn
<1>13. ASSUME NEW s \in Streams, Skips(s)
      PROVE  RunsInTurn'
  BY <1>13, InList DEF Skips, Takes, StreamTo, TaskInv, RunsInTurn
<1>14. ASSUME NEW s \in Streams, HasBegun(s)
      PROVE  RunsInTurn'
  BY <1>14, InList DEF HasBegun, RunTo, StreamTo, TaskInv, RunsInTurn
<1>15. ASSUME NEW s \in Streams, HasEnded(s)
      PROVE  RunsInTurn'
  BY <1>15, InList DEF HasEnded, RunTo, StreamTo, TaskInv, RunsInTurn
<1>16. ASSUME NEW s \in Streams, NEW doing \in Doings, Does(s, doing)
      PROVE  RunsInTurn'
  BY <1>16, InList DEF Does, StreamDoes, StreamTo, TaskInv, RunsInTurn
<1>17. ASSUME NEW s \in Streams, Pauses(s)
      PROVE  RunsInTurn'
  BY <1>17, InList DEF Pauses, StreamDoes, StreamTo, LumiTo, RunMoves, RunTo,
     TaskInv, RunsInTurn
<1>18. ASSUME NEW s \in Streams, Leaves(s)
      PROVE  RunsInTurn'
  BY <1>18, InList DEF Leaves, StreamTo, LumiTo, TaskInv, RunsInTurn
<1>19. ASSUME NEW s \in Streams, NEW ls, Stops(s, ls)
      PROVE  RunsInTurn'
  <2> DEFINE r == lumis[stream[s].lumi].run
  <2>1. r = Len(runs) /\ (UNCHANGED runs \/ RunMoves(runs', r, "endSync"))
    BY <1>19, CurrentFacts, StopsFacts DEF Stops
  <2>2. /\ DOMAIN runs' = DOMAIN runs /\ Len(runs') = Len(runs)
        /\ \A q \in DOMAIN runs : q # r => runs'[q] = runs[q]
    BY <2>1 DEF RunMoves, RunTo
  <2> QED
    BY <2>1, <2>2 DEF TaskInv, RunsInTurn
<1>20. CASE MakesRun
  BY <1>20, InList DEF MakesRun, RunMade, TaskInv, RunsInTurn
<1>21. ASSUME NEW l \in DOMAIN lumis, Resumes(l)
      PROVE  RunsInTurn'
  BY <1>21, InList DEF Resumes, LumiTo, RunMoves, RunTo, StreamsDo, TaskInv,
     RunsInTurn
<1>22. ASSUME NEW l \in DOMAIN lumis, CallsOff(l)
      PROVE  RunsInTurn'
  BY <1>22, InList DEF CallsOff, LumiTo, StreamsDo, TaskInv, RunsInTurn
<1>23. CASE UNCHANGED <<runs, lumis, stream>>
  BY <1>23, InList DEF TaskInv, RunsInTurn
<1> QED
  BY <1>1, <1>2, <1>3, <1>4, <1>5, <1>6, <1>7, <1>8, <1>9, <1>10, <1>11, <1>12,
     <1>13, <1>14, <1>15, <1>16, <1>17, <1>18, <1>19, <1>20, <1>21, <1>22, <1>23 DEF
     Change, RunChange, LumiChange, StreamChange

LEMMA LumisInTurnRule ==
  ASSUME TaskInv, DOMAIN lumis' = DOMAIN lumis, Len(lumis') = Len(lumis),
         \A l \in DOMAIN lumis : lumis'[l].run = lumis[l].run,
         \A r \in DOMAIN runs : /\ r \in DOMAIN runs'
                                /\ runs[r].phase \notin NotBegun => runs'[r].phase \notin NotBegun,
         \A l \in DOMAIN lumis : Current(l)' => /\ Current(l)
                                               /\ runs'[lumis[l].run].phase = "open"
  PROVE  LumisInTurn'
BY DEF TaskInv, LumisInTurn

LEMMA GoesOnInTurn ==
  ASSUME TaskInv, NEW r \in DOMAIN runs, NEW phase, RunMoves(runs', r, phase), NoCurrent,
         phase \notin NotBegun, UNCHANGED lumis \/ GoesOn(r, phase)
  PROVE  LumisInTurn'
<1>1. /\ DOMAIN runs' = DOMAIN runs /\ runs'[r].phase = phase
      /\ \A q \in DOMAIN runs : q # r => runs'[q] = runs[q]
  BY DEF RunMoves, RunTo
<1>2. CASE UNCHANGED lumis
  <2>1. \A k \in DOMAIN lumis : ~Current(k)'
    BY <1>2 DEF NoCurrent, Current
  <2> QED
    BY <1>1, <1>2, <2>1, LumisInTurnRule
<1>3. CASE phase = "open" /\ LumiMade(lumis, r)
  <2>1. \A k \in DOMAIN lumis : /\ lumis'[k] = lumis[k] /\ ~Current(k)
                                /\ lumis[k].run \in DOMAIN runs
                                /\ runs[lumis[k].run].phase \notin NotBegun
    BY <1>3 DEF LumiMade, TaskInv, LumisInTurn, NoCurrent
  <2>2. \A k \in DOMAIN lumis : ~Current(k)'
    BY <2>1 DEF Current
  <2>3. DOMAIN lumis' = DOMAIN lumis \cup {Len(lumis')} /\ lumis'[Len(lumis')].run = r
    BY <1>3, InList DEF LumiMade
  <2>4. \A k \in DOMAIN lumis : lumis'[k].run \in DOMAIN runs' /\ runs'[lumis'[k].run].phase \notin NotBegun
    BY <1>1, <2>1
  <2>5. runs'[r].phase = "open" /\ r \in DOMAIN runs'
    BY <1>1, <1>3
  <2> QED
    BY <2>2, <2>3, <2>4, <2>5 DEF LumisInTurn, NotBegun
<1> QED
  BY <1>2, <1>3 DEF GoesOn

LEMMA LumisInTurnKept ==
  ASSUME TaskInv, Change
  PROVE  LumisInTurn'
<1>1. ASSUME NEW r \in DOMAIN runs, NEW phase \in RunPhases, RunAdvances(r, phase)
      PROVE  LumisInTurn'
  <2>1. /\ runs[r].phase # "open" /\ (runs[r].phase \notin NotBegun => phase \notin NotBegun)
        /\ DOMAIN runs' = DOMAIN runs /\ \A q \in DOMAIN runs \ {r} : runs'[q] = runs[q]
        /\ runs'[r].phase = phase /\ UNCHANGED lumis
    BY <1>1 DEF RunAdvances, RunMoves, RunTo, NotBegun
  <2>2. \A l \in DOMAIN lumis :
          /\ lumis[l].run \in DOMAIN runs /\ runs[lumis[l].run].phase \notin NotBegun
          /\ Current(l) => l = Len(lumis) /\ runs[lumis[l].run].phase = "open"
    BY DEF TaskInv, LumisInTurn
  <2> QED
    BY <2>1, <2>2 DEF LumisInTurn, Current
<1>2. ASSUME NEW r \in DOMAIN runs, NEW phase \in RunPhases, RunGoesOn(r, phase)
      PROVE  LumisInTurn'
  <2>1. RunMoves(runs', r, phase) /\ NoCurrent /\ GoesOn(r, phase)
    BY <1>2 DEF RunGoesOn
  <2>2. phase \notin NotBegun
    BY <2>1 DEF GoesOn, NotBegun
  <2> QED
    BY <2>1, <2>2, GoesOnInTurn
<1>3. ASSUME NEW r \in DOMAIN runs, NEW phase \in RunPhases, RunBegins(r, phase)
      PROVE  LumisInTurn'
  <2>1. NoCurrent /\ runs[r].phase = "begin"
    BY <1>3, OneUnfinishedRun DEF RunBegins
  <2>2. RunMoves(runs', r, phase) /\ phase \in {"next", "open", "endSync"}
    BY <1>3 DEF RunBegins, GoesOn
  <2>3. UNCHANGED lumis \/ GoesOn(r, phase)
    BY <1>3 DEF RunBegins
  <2>4. phase \notin NotBegun
    BY <2>2 DEF NotBegun
  <2> QED
    BY <2>1, <2>2, <2>3, <2>4, GoesOnInTurn
<1>4. ASSUME NEW r \in DOMAIN runs, NEW rs, RunEnds(r, rs)
      PROVE  LumisInTurn'
  <2>1. /\ \A q \in DOMAIN runs : q \in DOMAIN runs' /\ (q # r => runs'[q] = runs[q])
        /\ runs[r].phase = "endSync" /\ runs'[r].phase = "ending" /\ UNCHANGED lumis
    BY <1>4 DEF RunEnds, RunMoves, RunTo, RunMade
  <2>2. \A k \in DOMAIN lumis : Current(k)' => Current(k) /\ runs'[lumis[k].run].phase = "open"
    BY <2>1, CurrentFacts DEF Current
  <2> QED
    BY <2>1, <2>2, LumisInTurnRule DEF NotBegun
<1>5. ASSUME NEW l \in DOMAIN lumis, NEW phase \in LumiPhases, LumiAdvances(l, phase)
      PROVE  LumisInTurn'
  <2>1. /\ DOMAIN lumis' = DOMAIN lumis /\ Len(lumis') = Len(lumis) /\ UNCHANGED runs
        /\ \A k \in DOMAIN lumis \ {l} : lumis'[k] = lumis[k]
        /\ lumis'[l].run = lumis[l].run /\ Current(l)
    BY <1>5 DEF LumiAdvances, LumiMoves, LumiTo, Current, Coming
  <2>2. \A k \in DOMAIN lumis : Current(k)' => Current(k) /\ runs'[lumis[k].run].phase = "open"
    BY <2>1, CurrentFacts DEF Current
  <2> QED
    BY <2>1, <2>2, LumisInTurnRule
<1>6. ASSUME NEW l \in DOMAIN lumis, LumiDropped(l) \/ LumiUnbegun(l)
      PROVE  LumisInTurn'
  <2> DEFINE r == lumis[l].run
  <2>1. /\ DOMAIN lumis' = DOMAIN lumis /\ Len(lumis') = Len(lumis)
        /\ \A k \in DOMAIN lumis \ {l} : lumis'[k] = lumis[k]
        /\ lumis'[l].run = lumis[l].run /\ Current(l) /\ lumis'[l].phase \in {"dropped", "end"}
    BY <1>6 DEF LumiDropped, LumiUnbegun, LumiMoves, LumiTo, Current, Coming
  <2>2. /\ \A q \in DOMAIN runs : q \in DOMAIN runs' /\ (q # r => runs'[q] = runs[q])
        /\ runs'[r].phase = "endSync"
    BY <1>6 DEF LumiDropped, LumiUnbegun, RunMoves, Counts, RunTo
  <2>3. \A k \in DOMAIN lumis : ~Current(k)'
    <3>1. ~Current(l)'
      BY <2>1 DEF Current, Coming
    <3>2. \A k \in DOMAIN lumis \ {l} : ~Current(k)
      BY <2>1, CurrentFacts
    <3> QED
      BY <2>1, <3>1, <3>2 DEF Current
  <2> QED
    BY <2>1, <2>2, <2>3, LumisInTurnRule DEF NotBegun
<1>8. ASSUME NEW l \in DOMAIN lumis, LumiBegins(l)
      PROVE  LumisInTurn'
  <2> DEFINE r == lumis[l].run
  <2>1. /\ DOMAIN lumis' = DOMAIN lumis /\ Len(lumis') = Len(lumis)
        /\ \A k \in DOMAIN lumis \ {l} : lumis'[k] = lumis[k]
        /\ lumis'[l].run = lumis[l].run /\ Current(l)
    BY <1>8 DEF LumiBegins, LumiMoves, LumiTo, Current, Coming
  <2>2. /\ \A q \in DOMAIN runs : q \in DOMAIN runs' /\ (q # r => runs'[q] = runs[q])
        /\ runs'[r].phase = runs[r].phase
    BY <1>8 DEF LumiBegins, Counts, RunTo
  <2>3. \A k \in DOMAIN lumis : Current(k)' => Current(k) /\ runs'[lumis[k].run].phase = "open"
    BY <2>1, <2>2, CurrentFacts DEF Current
  <2> QED
    BY <2>1, <2>2, <2>3, LumisInTurnRule DEF NotBegun
<1>9. ASSUME NEW l \in DOMAIN lumis, LumiEnds(l)
      PROVE  LumisInTurn'
  <2> DEFINE r == lumis[l].run
  <2>1. /\ DOMAIN lumis' = DOMAIN lumis /\ Len(lumis') = Len(lumis)
        /\ \A k \in DOMAIN lumis \ {l} : lumis'[k] = lumis[k]
        /\ lumis'[l].run = lumis[l].run /\ ~Current(l)'
    BY <1>9 DEF LumiEnds, LumiMoves, LumiTo, Current, Coming
  <2>2. /\ \A q \in DOMAIN runs : q \in DOMAIN runs' /\ (q # r => runs'[q] = runs[q])
        /\ runs'[r].phase = runs[r].phase
    BY <1>9 DEF LumiEnds, Counts, RunTo
  <2>3. \A k \in DOMAIN lumis : Current(k)' => Current(k) /\ runs'[lumis[k].run].phase = "open"
    BY <2>1, <2>2, CurrentFacts DEF Current
  <2> QED
    BY <2>1, <2>2, <2>3, LumisInTurnRule DEF NotBegun
<1>10. ASSUME NEW s \in Streams, BeginsRun(s)
      PROVE  LumisInTurn'
  BY <1>10, InList DEF BeginsRun, Takes, StreamTo, TaskInv, RunsInTurn, LumisInTurn,
     Current, Coming, NotBegun, NoCurrent
<1>11. ASSUME NEW s \in Streams, EndsRun(s)
      PROVE  LumisInTurn'
  BY <1>11, InList DEF EndsRun, Takes, StreamTo, TaskInv, RunsInTurn, LumisInTurn,
     Current, Coming, NotBegun, NoCurrent
<1>12. ASSUME NEW s \in Streams, Joins(s)
      PROVE  LumisInTurn'
  <2> DEFINE l == Head(stream[s].queue)[2]
  <2>1. /\ LumiTo(lumis', l, lumis[l].phase, lumis[l].noMore, lumis[l].state, lumis[l].started,
                  lumis[l].joined + 1, lumis[l].toEnd)
        /\ UNCHANGED runs
    BY <1>12 DEF Joins, Takes
  <2> HIDE DEF l
  <2>2. \A k \in DOMAIN lumis : /\ lumis'[k].run = lumis[k].run /\ lumis'[k].phase = lumis[k].phase
                               /\ lumis'[k].noMore = lumis[k].noMore
    BY <2>1 DEF LumiTo
  <2> QED
    BY <2>1, <2>2 DEF TaskInv, LumisInTurn, Current, LumiTo
<1>13. ASSUME NEW s \in Streams, Skips(s)
      PROVE  LumisInTurn'
  BY <1>13, InList DEF Skips, Takes, StreamTo, TaskInv, RunsInTurn, LumisInTurn,
     Current, Coming, NotBegun, NoCurrent
<1>14. ASSUME NEW s \in Streams, HasBegun(s)
      PROVE  LumisInTurn'
  BY <1>14, InList DEF HasBegun, RunTo, StreamTo, TaskInv, RunsInTurn, LumisInTurn,
     Current, Coming, NotBegun, NoCurrent
<1>15. ASSUME NEW s \in Streams, HasEnded(s)
      PROVE  LumisInTurn'
  <2>1. \A q \in DOMAIN runs : runs'[q].phase = runs[q].phase
    BY <1>15 DEF HasEnded, RunTo
  <2> QED
    BY <1>15, <2>1 DEF HasEnded, RunTo, TaskInv, LumisInTurn, Current
<1>16. ASSUME NEW s \in Streams, NEW doing \in Doings, Does(s, doing)
      PROVE  LumisInTurn'
  BY <1>16, InList DEF Does, StreamDoes, StreamTo, TaskInv, RunsInTurn, LumisInTurn,
     Current, Coming, NotBegun, NoCurrent
<1>17. ASSUME NEW s \in Streams, Pauses(s)
      PROVE  LumisInTurn'
  <2> DEFINE l == stream[s].lumi
             r == lumis[l].run
  <2>1. /\ LumiTo(lumis', l, lumis[l].phase, lumis[l].noMore, "pause", lumis[l].started,
                  lumis[l].joined, lumis[l].toEnd)
        /\ RunMoves(runs', r, runs[r].phase)
    BY <1>17 DEF Pauses
  <2> HIDE DEF l, r
  <2>2. \A k \in DOMAIN lumis : /\ lumis'[k].run = lumis[k].run /\ lumis'[k].phase = lumis[k].phase
                               /\ lumis'[k].noMore = lumis[k].noMore
    BY <2>1 DEF LumiTo
  <2>3. \A q \in DOMAIN runs : runs'[q].phase = runs[q].phase
    BY <2>1 DEF RunMoves, RunTo
  <2> QED
    BY <2>1, <2>2, <2>3 DEF TaskInv, LumisInTurn, Current, LumiTo, RunMoves, RunTo
<1>18. ASSUME NEW s \in Streams, Leaves(s)
      PROVE  LumisInTurn'
  BY <1>18, InList DEF Leaves, StreamTo, LumiTo, TaskInv, RunsInTurn, LumisInTurn,
     Current, Coming, NotBegun, NoCurrent
<1>19. ASSUME NEW s \in Streams, NEW ls, Stops(s, ls)
      PROVE  LumisInTurn'
  <2> DEFINE l == stream[s].lumi
             r == lumis[l].run
  <2>1. /\ l \in DOMAIN lumis /\ r \in DOMAIN runs /\ r = Len(runs) /\ l = Len(lumis)
        /\ runs[r].phase = "open" /\ \A k \in DOMAIN lumis : k # l => ~Current(k)
    BY <1>19, CurrentFacts, StopsFacts DEF Stops
  <2>2. LumiTo(ls, l, lumis[l].phase, TRUE, "stop", TRUE, lumis[l].joined, lumis[l].joined)
    BY <1>19 DEF Stops
  <2>3. lumis[l].phase = "open" /\ r = lumis[l].run
    BY <1>19, StopsFacts DEF Stops
  <2>4. \/ LumiMade(ls, r) /\ UNCHANGED runs
        \/ lumis' = ls /\ RunMoves(runs', r, "endSync")
    BY <1>19 DEF Stops
  <2> HIDE DEF l, r
  <2>5. CASE LumiMade(ls, r) /\ UNCHANGED runs
    <3>1. /\ DOMAIN lumis' = DOMAIN lumis \cup {Len(lumis')} /\ lumis'[Len(lumis')].run = r
          /\ \A k \in DOMAIN lumis \ {l} : lumis'[k] = lumis[k]
          /\ lumis'[l].run = r /\ lumis'[l].phase = "open" /\ lumis'[l].noMore
      BY <2>1, <2>2, <2>3, <2>5, InList DEF LumiTo, LumiMade
    <3>2. \A k \in DOMAIN lumis : ~Current(k)'
      BY <2>1, <3>1 DEF Current, Coming
    <3>3. \A k \in DOMAIN lumis : lumis[k].run \in DOMAIN runs /\ runs[lumis[k].run].phase \notin NotBegun
      BY DEF TaskInv, LumisInTurn
    <3> QED
      BY <2>1, <2>3, <2>5, <3>1, <3>2, <3>3 DEF LumisInTurn
  <2>6. CASE lumis' = ls /\ RunMoves(runs', r, "endSync")
    BY <2>1, <2>2, <2>3, <2>6, InList DEF LumiTo, RunMoves, RunTo, TaskInv, LumisInTurn, Current, Coming, NotBegun
  <2> QED
    BY <2>4, <2>5, <2>6
<1>20. CASE MakesRun
  BY <1>20, InList DEF MakesRun, RunMade, TaskInv, RunsInTurn, LumisInTurn, Current,
     Coming, NotBegun, NoCurrent
<1>21. ASSUME NEW l \in DOMAIN lumis, Resumes(l)
      PROVE  LumisInTurn'
  <2> DEFINE r == lumis[l].run
  <2>1. /\ DOMAIN lumis' = DOMAIN lumis /\ DOMAIN runs' = DOMAIN runs /\ Len(lumis') = Len(lumis)
        /\ \A k \in DOMAIN lumis \ {l} : lumis'[k] = lumis[k]
        /\ lumis'[l].run = lumis[l].run /\ lumis'[l].phase = lumis[l].phase
        /\ lumis'[l].noMore = lumis[l].noMore
    BY <1>21 DEF Resumes, LumiTo, RunMoves, RunTo
  <2>2. /\ \A q \in DOMAIN runs \ {r} : runs'[q] = runs[q]
        /\ runs'[r].phase = runs[r].phase
    BY <1>21 DEF Resumes, RunMoves, RunTo
  <2>3. \A k \in DOMAIN lumis : /\ lumis'[k].run = lumis[k].run /\ lumis'[k].phase = lumis[k].phase
                               /\ lumis'[k].noMore = lumis[k].noMore
    BY <2>1
  <2>4. \A q \in DOMAIN runs : runs'[q].phase = runs[q].phase
    BY <2>2
  <2> QED
    BY <2>1, <2>3, <2>4 DEF TaskInv, LumisInTurn, Current
<1>22. ASSUME NEW l \in DOMAIN lumis, CallsOff(l)
      PROVE  LumisInTurn'
  BY <1>22, InList DEF CallsOff, LumiTo, StreamsDo, TaskInv, RunsInTurn, LumisInTurn,
     Current, Coming, NotBegun, NoCurrent
<1>23. CASE UNCHANGED <<runs, lumis, stream>>
  BY <1>23, InList DEF TaskInv, RunsInTurn, LumisInTurn, Current, Coming, NotBegun,
     NoCurrent
<1> QED
  BY <1>1, <1>2, <1>3, <1>4, <1>5, <1>6, <1>8, <1>9, <1>10, <1>11, <1>12,
     <1>13, <1>14, <1>15, <1>16, <1>17, <1>18, <1>19, <1>20, <1>21, <1>22, <1>23 DEF
     Change, RunChange, LumiChange, StreamChange

(* The phases that a run or a luminosity block goes through.               *)
RunNext(a, b) ==
  a = b \/ <<a, b>> \in
    {<<"sync", "queue">>, <<"queue", "read">>, <<"queue", "dropped">>, <<"read", "dropped">>,
     <<"read", "begin">>, <<"read", "merge">>, <<"merge", "dropped">>, <<"merge", "begin">>,
     <<"begin", "next">>, <<"begin", "open">>, <<"begin", "endSync">>, <<"next", "open">>,
     <<"next", "endSync">>, <<"open", "endSync">>, <<"endSync", "ending">>,
     <<"ending", "closed">>}

LumiNext(a, b) ==
  a = b \/ <<a, b>> \in
    {<<"sync", "queue">>, <<"queue", "read">>, <<"queue", "dropped">>, <<"read", "dropped">>,
     <<"read", "begin">>, <<"read", "merge">>, <<"merge", "begin">>, <<"merge", "end">>,
     <<"begin", "end">>, <<"begin", "open">>, <<"open", "end">>, <<"end", "closed">>}

Forward ==
  /\ \A r \in DOMAIN runs : r \in DOMAIN runs' /\ RunNext(runs[r].phase, runs'[r].phase)
  /\ \A r \in DOMAIN runs' \ DOMAIN runs : runs'[r].phase = "sync"
  /\ \A l \in DOMAIN lumis :
       /\ l \in DOMAIN lumis' /\ lumis'[l].run = lumis[l].run
       /\ LumiNext(lumis[l].phase, lumis'[l].phase)
       /\ lumis[l].noMore => lumis'[l].noMore
       /\ lumis[l].started => lumis'[l].started
  /\ \A l \in DOMAIN lumis' \ DOMAIN lumis : lumis'[l].phase = "sync"

(* A luminosity block that has streams in it is open.                      *)
LEMMA InFacts ==
  ASSUME TaskInv, NEW s \in Streams, stream[s].lumi # 0
  PROVE  /\ stream[s].lumi \in DOMAIN lumis /\ lumis[stream[s].lumi].phase = "open"
         /\ s \in In(stream[s].lumi)
BY PlaceFacts DEF TaskInv, LumisCounted, In

LEMMA GoForward ==
  ASSUME TaskInv, Change
  PROVE  Forward
<1>1. ASSUME NEW r \in DOMAIN runs, NEW phase \in RunPhases, RunAdvances(r, phase)
      PROVE  Forward
  BY <1>1, InList DEF RunAdvances, RunMoves, RunTo, Forward, RunNext, LumiNext,
     RunPhases, LumiPhases
<1>2. ASSUME NEW r \in DOMAIN runs, NEW phase \in RunPhases, RunGoesOn(r, phase)
      PROVE  Forward
  BY <1>2, InList DEF RunGoesOn, GoesOn, RunMoves, RunTo, LumiMade, Forward, RunNext,
     LumiNext, RunPhases, LumiPhases
<1>3. ASSUME NEW r \in DOMAIN runs, NEW phase \in RunPhases, RunBegins(r, phase)
      PROVE  Forward
  BY <1>3, InList DEF RunBegins, GoesOn, RunMoves, RunTo, LumiMade, Pushed, Forward,
     RunNext, LumiNext, RunPhases, LumiPhases
<1>4. ASSUME NEW r \in DOMAIN runs, NEW rs, RunEnds(r, rs)
      PROVE  Forward
  BY <1>4, InList DEF RunEnds, RunMoves, RunTo, RunMade, Pushed, Forward, RunNext,
     LumiNext, RunPhases, LumiPhases
<1>5. ASSUME NEW l \in DOMAIN lumis, NEW phase \in LumiPhases, LumiAdvances(l, phase)
      PROVE  Forward
  BY <1>5, InList DEF LumiAdvances, LumiMoves, LumiTo, Forward, RunNext, LumiNext,
     RunPhases, LumiPhases
<1>6. ASSUME NEW l \in DOMAIN lumis, LumiDropped(l)
      PROVE  Forward
  BY <1>6, InList, CurrentFacts DEF LumiDropped, LumiMoves, LumiTo, RunMoves, RunTo,
     Forward, RunNext, LumiNext, Current, Coming
<1>7. ASSUME NEW l \in DOMAIN lumis, LumiUnbegun(l)
      PROVE  Forward
  BY <1>7, InList, CurrentFacts DEF LumiUnbegun, LumiMoves, LumiTo, Counts, RunTo,
     Forward, RunNext, LumiNext, Current, Coming
<1>8. ASSUME NEW l \in DOMAIN lumis, LumiBegins(l)
      PROVE  Forward
  BY <1>8, InList DEF LumiBegins, LumiMoves, LumiTo, Counts, RunTo, Pushed, Forward,
     RunNext, LumiNext, RunPhases, LumiPhases
<1>9. ASSUME NEW l \in DOMAIN lumis, LumiEnds(l)
      PROVE  Forward
  BY <1>9, InList DEF LumiEnds, LumiMoves, LumiTo, Counts, RunTo, Forward, RunNext,
     LumiNext, RunPhases, LumiPhases
<1>10. ASSUME NEW s \in Streams, BeginsRun(s)
      PROVE  Forward
  BY <1>10, InList DEF BeginsRun, Takes, StreamTo, Forward, RunNext, LumiNext,
     RunPhases, LumiPhases
<1>11. ASSUME NEW s \in Streams, EndsRun(s)
      PROVE  Forward
  BY <1>11, InList DEF EndsRun, Takes, StreamTo, Forward, RunNext, LumiNext,
     RunPhases, LumiPhases
<1>12. ASSUME NEW s \in Streams, Joins(s)
      PROVE  Forward
  <2> DEFINE l == Head(stream[s].queue)[2]
  <2>1. /\ LumiTo(lumis', l, lumis[l].phase, lumis[l].noMore, lumis[l].state, lumis[l].started,
                  lumis[l].joined + 1, lumis[l].toEnd)
        /\ UNCHANGED runs
    BY <1>12 DEF Joins, Takes
  <2> HIDE DEF l
  <2> QED
    BY <2>1, InList DEF LumiTo, Forward, RunNext, LumiNext
<1>13. ASSUME NEW s \in Streams, Skips(s)
      PROVE  Forward
  BY <1>13, InList DEF Skips, Takes, StreamTo, Forward, RunNext, LumiNext, RunPhases,
     LumiPhases
<1>14. ASSUME NEW s \in Streams, HasBegun(s)
      PROVE  Forward
  <2>1. RunTo(runs', stream[s].run, runs[stream[s].run].phase, runs[stream[s].run].toBegin - 1,
              runs[stream[s].run].toEnd, runs[stream[s].run].enders) /\ UNCHANGED lumis
    BY <1>14 DEF HasBegun
  <2> QED
    BY <2>1, InList DEF RunTo, Forward, RunNext, LumiNext
<1>15. ASSUME NEW s \in Streams, HasEnded(s)
      PROVE  Forward
  <2> DEFINE r == stream[s].run
             e == IF runs[r].toEnd = 1 THEN runs[r].enders - 1 ELSE runs[r].enders
  <2>1. RunTo(runs', r, runs[r].phase, runs[r].toBegin, runs[r].toEnd - 1, e) /\ UNCHANGED lumis
    BY <1>15 DEF HasEnded
  <2> HIDE DEF r, e
  <2> QED
    BY <2>1, InList DEF RunTo, Forward, RunNext, LumiNext
<1>16. ASSUME NEW s \in Streams, NEW doing \in Doings, Does(s, doing)
      PROVE  Forward
  BY <1>16, InList DEF Does, StreamDoes, StreamTo, Forward, RunNext, LumiNext,
     RunPhases, LumiPhases
<1>17. ASSUME NEW s \in Streams, Pauses(s)
      PROVE  Forward
  <2> DEFINE l == stream[s].lumi
             r == lumis[l].run
  <2>1. /\ LumiTo(lumis', l, lumis[l].phase, lumis[l].noMore, "pause", lumis[l].started,
                  lumis[l].joined, lumis[l].toEnd)
        /\ RunMoves(runs', r, runs[r].phase)
    BY <1>17 DEF Pauses
  <2> HIDE DEF l, r
  <2> QED
    BY <2>1, InList DEF LumiTo, RunMoves, RunTo, Forward, RunNext, LumiNext
<1>18. ASSUME NEW s \in Streams, Leaves(s)
      PROVE  Forward
  <2> DEFINE l == stream[s].lumi
             f == IF lumis[l].toEnd = 1 THEN "end" ELSE lumis[l].phase
  <2>1. /\ LumiTo(lumis', l, f, lumis[l].noMore, lumis[l].state, lumis[l].started,
                  lumis[l].joined, lumis[l].toEnd - 1)
        /\ UNCHANGED runs /\ lumis[l].phase = "open" /\ f \in {"open", "end"}
    BY <1>18, InFacts, PlaceFacts DEF Leaves
  <2> HIDE DEF l, f
  <2> QED
    BY <2>1, InList DEF LumiTo, Forward, RunNext, LumiNext
<1>19. ASSUME NEW s \in Streams, NEW ls, Stops(s, ls)
      PROVE  Forward
  <2> DEFINE l == stream[s].lumi
             r == lumis[l].run
  <2>1. /\ LumiTo(ls, l, lumis[l].phase, TRUE, "stop", TRUE, lumis[l].joined, lumis[l].joined)
        /\ runs[r].phase = "open" /\ r = lumis[l].run
        /\ \/ LumiMade(ls, r) /\ UNCHANGED runs
           \/ lumis' = ls /\ RunMoves(runs', r, "endSync")
    BY <1>19, StopsFacts, CurrentFacts DEF Stops
  <2> HIDE DEF l, r
  <2> QED
    BY <2>1, InList DEF LumiTo, LumiMade, RunMoves, RunTo, Forward, RunNext, LumiNext
<1>20. CASE MakesRun
  BY <1>20, InList DEF MakesRun, RunMade, Forward, RunNext, LumiNext, RunPhases,
     LumiPhases
<1>21. ASSUME NEW l \in DOMAIN lumis, Resumes(l)
      PROVE  Forward
  BY <1>21, InList DEF Resumes, LumiTo, RunMoves, RunTo, StreamsDo, Forward, RunNext,
     LumiNext, RunPhases, LumiPhases
<1>22. ASSUME NEW l \in DOMAIN lumis, CallsOff(l)
      PROVE  Forward
  BY <1>22, InList DEF CallsOff, LumiTo, StreamsDo, Forward, RunNext, LumiNext,
     RunPhases, LumiPhases
<1>23. CASE UNCHANGED <<runs, lumis, stream>>
  BY <1>23, InList DEF Forward, RunNext, LumiNext, RunPhases, LumiPhases
<1> QED
  BY <1>1, <1>2, <1>3, <1>4, <1>5, <1>6, <1>7, <1>8, <1>9, <1>10, <1>11, <1>12,
     <1>13, <1>14, <1>15, <1>16, <1>17, <1>18, <1>19, <1>20, <1>21, <1>22, <1>23 DEF
     Change, RunChange, LumiChange, StreamChange

(* What a stream takes out of its queue belongs to the run it is in, or is  *)
(* the next run.                                                           *)
LEMMA TakeFacts ==
  ASSUME TaskInv, NEW s \in Streams, stream[s].queue # <<>>, stream[s].pauses = 0,
         NEW x, x = Head(stream[s].queue)
  PROVE  /\ stream[s].lumi = 0 /\ stream[s].doing = "nothing"
         /\ x[1] = "beginRun" => stream[s].run = 0 /\ x[2] \in DOMAIN runs
         /\ x[1] # "beginRun" => stream[s].run # 0
         /\ x[1] = "endRun" => x[2] = stream[s].run
         /\ x[1] = "beginLumi" => x[2] \in DOMAIN lumis /\ lumis[x[2]].run = stream[s].run
         /\ x \in StreamTasks /\ x[1] \in {"beginRun", "beginLumi", "endRun"}
<1>1. stream[s].lumi = 0 /\ stream[s].doing = "nothing"
  BY PlaceFacts DEF TaskInv, StreamsPlaced, InPlace
<1>2. /\ x = stream[s].queue[1] /\ x \in StreamTasks
      /\ x[2] \in (IF x[1] = "beginLumi" THEN DOMAIN lumis ELSE DOMAIN runs)
  BY HeadFacts
<1>3. x[1] \in {"beginRun", "beginLumi", "endRun"}
  BY <1>2 DEF StreamTasks
<1>4. First(s, x)
  BY <1>2 DEF TaskInv, QueuesInOrder, QueueInOrder
<1>5. InRun(s) <=> stream[s].run # 0
  BY <1>1 DEF InRun
<1> QED
  BY <1>1, <1>2, <1>3, <1>4, <1>5 DEF First, Follows, RunOfTask

LEMMA StillInPlace ==
  ASSUME TaskInv, Forward, NEW t \in Streams, stream'[t].run = stream[t].run,
         stream'[t].lumi = stream[t].lumi, stream'[t].doing = stream[t].doing,
         stream'[t].pauses = stream[t].pauses
  PROVE  InPlace(t)'
BY DEF TaskInv, StreamsPlaced, InPlace, Forward

LEMMA StreamsPlacedKept ==
  ASSUME TaskInv, Change
  PROVE  StreamsPlaced'
<1>1. ASSUME NEW r \in DOMAIN runs, NEW phase \in RunPhases, RunAdvances(r, phase)
      PROVE  StreamsPlaced'
  <2>1. \A t \in Streams : stream'[t] = stream[t]
    BY <1>1 DEF RunAdvances
  <2> QED
    BY <2>1, StillInPlace, GoForward DEF StreamsPlaced
<1>2. ASSUME NEW r \in DOMAIN runs, NEW phase \in RunPhases, RunGoesOn(r, phase)
      PROVE  StreamsPlaced'
  <2>1. \A t \in Streams : stream'[t] = stream[t]
    BY <1>2 DEF RunGoesOn
  <2> QED
    BY <2>1, StillInPlace, GoForward DEF StreamsPlaced
<1>3. ASSUME NEW r \in DOMAIN runs, NEW phase \in RunPhases, RunBegins(r, phase)
      PROVE  StreamsPlaced'
  <2>1. \A t \in Streams : /\ stream'[t].run = stream[t].run /\ stream'[t].lumi = stream[t].lumi
                           /\ stream'[t].doing = stream[t].doing
                           /\ stream'[t].pauses = stream[t].pauses
    BY <1>3, InList DEF RunBegins, Pushed, StreamRecords
  <2> QED
    BY <2>1, StillInPlace, GoForward DEF StreamsPlaced
<1>4. ASSUME NEW r \in DOMAIN runs, NEW rs, RunEnds(r, rs)
      PROVE  StreamsPlaced'
  <2>1. \A t \in Streams : /\ stream'[t].run = stream[t].run /\ stream'[t].lumi = stream[t].lumi
                           /\ stream'[t].doing = stream[t].doing
                           /\ stream'[t].pauses = stream[t].pauses
    BY <1>4, InList DEF RunEnds, Pushed, StreamRecords
  <2> QED
    BY <2>1, StillInPlace, GoForward DEF StreamsPlaced
<1>5. ASSUME NEW l \in DOMAIN lumis, NEW phase \in LumiPhases, LumiAdvances(l, phase)
      PROVE  StreamsPlaced'
  <2>1. \A t \in Streams : stream'[t] = stream[t]
    BY <1>5 DEF LumiAdvances
  <2> QED
    BY <2>1, StillInPlace, GoForward DEF StreamsPlaced
<1>6. ASSUME NEW l \in DOMAIN lumis, LumiDropped(l)
      PROVE  StreamsPlaced'
  <2>1. \A t \in Streams : stream'[t] = stream[t]
    BY <1>6 DEF LumiDropped
  <2> QED
    BY <2>1, StillInPlace, GoForward DEF StreamsPlaced
<1>7. ASSUME NEW l \in DOMAIN lumis, LumiUnbegun(l)
      PROVE  StreamsPlaced'
  <2>1. \A t \in Streams : stream'[t] = stream[t]
    BY <1>7 DEF LumiUnbegun
  <2> QED
    BY <2>1, StillInPlace, GoForward DEF StreamsPlaced
<1>8. ASSUME NEW l \in DOMAIN lumis, LumiBegins(l)
      PROVE  StreamsPlaced'
  <2>1. \A t \in Streams : /\ stream'[t].run = stream[t].run /\ stream'[t].lumi = stream[t].lumi
                           /\ stream'[t].doing = stream[t].doing
                           /\ stream'[t].pauses = stream[t].pauses
    BY <1>8, InList DEF LumiBegins, Pushed, StreamRecords
  <2> QED
    BY <2>1, StillInPlace, GoForward DEF StreamsPlaced
<1>9. ASSUME NEW l \in DOMAIN lumis, LumiEnds(l)
      PROVE  StreamsPlaced'
  <2>1. \A t \in Streams : stream'[t] = stream[t]
    BY <1>9 DEF LumiEnds
  <2> QED
    BY <2>1, StillInPlace, GoForward DEF StreamsPlaced
<1>10. ASSUME NEW s \in Streams, BeginsRun(s)
      PROVE  StreamsPlaced'
  <2>1. \A t \in Streams \ {s} : InPlace(t)'
    BY <1>10, StillInPlace, GoForward DEF BeginsRun, StreamTo
  <2> DEFINE x == Head(stream[s].queue)
  <2>2. /\ stream[s].queue # <<>> /\ stream[s].pauses = 0 /\ x[1] = "beginRun"
        /\ stream'[s] = [run |-> x[2], lumi |-> stream[s].lumi, doing |-> "beginRun",
                         queue |-> Tail(stream[s].queue), pauses |-> 1]
    BY <1>10 DEF BeginsRun, Takes, StreamTo
  <2>3. /\ stream[s].lumi = 0 /\ stream[s].doing = "nothing"
        /\ x[1] = "beginRun" => stream[s].run = 0 /\ x[2] \in DOMAIN runs
        /\ x[1] # "beginRun" => stream[s].run # 0
        /\ x[1] = "endRun" => x[2] = stream[s].run
        /\ x[1] = "beginLumi" => x[2] \in DOMAIN lumis /\ lumis[x[2]].run = stream[s].run
    BY <2>2, TakeFacts
  <2> HIDE DEF x
  <2>4. InPlace(s)'
    BY <2>2, <2>3, PlaceFacts, InList, GoForward DEF Forward, InPlace, Doings
  <2> QED
    BY <2>1, <2>4 DEF StreamsPlaced
<1>11. ASSUME NEW s \in Streams, EndsRun(s)
      PROVE  StreamsPlaced'
  <2>1. \A t \in Streams \ {s} : InPlace(t)'
    BY <1>11, StillInPlace, GoForward DEF EndsRun, StreamTo
  <2> DEFINE x == Head(stream[s].queue)
  <2>2. /\ stream[s].queue # <<>> /\ stream[s].pauses = 0 /\ x[1] = "endRun"
        /\ stream'[s] = [run |-> stream[s].run, lumi |-> stream[s].lumi, doing |-> "endRun",
                         queue |-> Tail(stream[s].queue), pauses |-> 1]
    BY <1>11 DEF EndsRun, Takes, StreamTo
  <2>3. /\ stream[s].lumi = 0 /\ stream[s].doing = "nothing"
        /\ x[1] = "beginRun" => stream[s].run = 0 /\ x[2] \in DOMAIN runs
        /\ x[1] # "beginRun" => stream[s].run # 0
        /\ x[1] = "endRun" => x[2] = stream[s].run
        /\ x[1] = "beginLumi" => x[2] \in DOMAIN lumis /\ lumis[x[2]].run = stream[s].run
    BY <2>2, TakeFacts
  <2> HIDE DEF x
  <2>4. InPlace(s)'
    BY <2>2, <2>3, PlaceFacts, InList, GoForward DEF Forward, InPlace, Doings
  <2> QED
    BY <2>1, <2>4 DEF StreamsPlaced
<1>12. ASSUME NEW s \in Streams, Joins(s)
      PROVE  StreamsPlaced'
  <2>1. \A t \in Streams \ {s} : InPlace(t)'
    BY <1>12, StillInPlace, GoForward DEF Joins, StreamTo
  <2> DEFINE x == Head(stream[s].queue)
  <2>2. /\ stream[s].queue # <<>> /\ stream[s].pauses = 0 /\ x[1] = "beginLumi"
        /\ stream'[s] = [run |-> stream[s].run, lumi |-> x[2], doing |-> "beginLumi",
                         queue |-> Tail(stream[s].queue), pauses |-> 1]
    BY <1>12 DEF Joins, Takes, StreamTo
  <2>3. /\ stream[s].lumi = 0 /\ stream[s].doing = "nothing"
        /\ x[1] = "beginRun" => stream[s].run = 0 /\ x[2] \in DOMAIN runs
        /\ x[1] # "beginRun" => stream[s].run # 0
        /\ x[1] = "endRun" => x[2] = stream[s].run
        /\ x[1] = "beginLumi" => x[2] \in DOMAIN lumis /\ lumis[x[2]].run = stream[s].run
    BY <2>2, TakeFacts
  <2> HIDE DEF x
  <2>4. InPlace(s)'
    BY <2>2, <2>3, PlaceFacts, InList, GoForward DEF Forward, InPlace, Doings
  <2> QED
    BY <2>1, <2>4 DEF StreamsPlaced
<1>13. ASSUME NEW s \in Streams, Skips(s)
      PROVE  StreamsPlaced'
  <2>1. \A t \in Streams \ {s} : InPlace(t)'
    BY <1>13, StillInPlace, GoForward DEF Skips, StreamTo
  <2> DEFINE x == Head(stream[s].queue)
  <2>2. /\ stream[s].queue # <<>> /\ stream[s].pauses = 0 /\ x[1] = "beginLumi"
        /\ stream'[s] = [run |-> stream[s].run, lumi |-> stream[s].lumi, doing |-> stream[s].doing,
                         queue |-> Tail(stream[s].queue), pauses |-> 0]
    BY <1>13 DEF Skips, Takes, StreamTo
  <2>3. /\ stream[s].lumi = 0 /\ stream[s].doing = "nothing"
        /\ x[1] = "beginRun" => stream[s].run = 0 /\ x[2] \in DOMAIN runs
        /\ x[1] # "beginRun" => stream[s].run # 0
        /\ x[1] = "endRun" => x[2] = stream[s].run
        /\ x[1] = "beginLumi" => x[2] \in DOMAIN lumis /\ lumis[x[2]].run = stream[s].run
    BY <2>2, TakeFacts
  <2> HIDE DEF x
  <2>4. InPlace(s)'
    BY <2>2, <2>3, PlaceFacts, InList, GoForward DEF Forward, InPlace, Doings
  <2> QED
    BY <2>1, <2>4 DEF StreamsPlaced
<1>14. ASSUME NEW s \in Streams, HasBegun(s)
      PROVE  StreamsPlaced'
  <2>1. \A t \in Streams \ {s} : InPlace(t)'
    BY <1>14, StillInPlace, GoForward DEF HasBegun, StreamDoes, StreamTo
  <2>2. InPlace(s)'
    BY <1>14, PlaceFacts, GoForward DEF HasBegun, Takes, StreamDoes, StreamTo, Forward, TaskInv, StreamsPlaced, InPlace
  <2> QED
    BY <2>1, <2>2 DEF StreamsPlaced
<1>15. ASSUME NEW s \in Streams, HasEnded(s)
      PROVE  StreamsPlaced'
  <2>1. \A t \in Streams \ {s} : InPlace(t)'
    BY <1>15, StillInPlace, GoForward DEF HasEnded, StreamDoes, StreamTo
  <2>2. InPlace(s)'
    BY <1>15, PlaceFacts, GoForward DEF HasEnded, Takes, StreamDoes, StreamTo, Forward, TaskInv, StreamsPlaced, InPlace
  <2> QED
    BY <2>1, <2>2 DEF StreamsPlaced
<1>16. ASSUME NEW s \in Streams, NEW doing \in Doings, Does(s, doing)
      PROVE  StreamsPlaced'
  <2>1. \A t \in Streams \ {s} : InPlace(t)'
    BY <1>16, StillInPlace, GoForward DEF Does, StreamDoes, StreamTo
  <2>2. InPlace(s)'
    BY <1>16, PlaceFacts, GoForward DEF Does, Takes, StreamDoes, StreamTo, Forward, TaskInv, StreamsPlaced, InPlace, Doings
  <2> QED
    BY <2>1, <2>2 DEF StreamsPlaced
<1>17. ASSUME NEW s \in Streams, Pauses(s)
      PROVE  StreamsPlaced'
  <2>1. \A t \in Streams \ {s} : InPlace(t)'
    BY <1>17, StillInPlace, GoForward DEF Pauses, StreamDoes, StreamTo
  <2>2. InPlace(s)'
    <3>1. /\ stream'[s].run = stream[s].run /\ stream'[s].lumi = stream[s].lumi
          /\ stream'[s].doing = "nothing" /\ stream'[s].pauses = stream[s].pauses
          /\ stream[s].doing = "next"
      BY <1>17 DEF Pauses, StreamDoes, StreamTo
    <3>2. /\ stream[s].lumi \in DOMAIN lumis /\ stream[s].lumi # 0 /\ stream[s].run \in DOMAIN runs
          /\ stream[s].run = lumis[stream[s].lumi].run /\ stream[s].pauses = 1
      BY <3>1, PlaceFacts DEF TaskInv, StreamsPlaced, InPlace
    <3>3. /\ stream[s].lumi \in DOMAIN lumis' /\ stream[s].run \in DOMAIN runs'
          /\ lumis'[stream[s].lumi].run = lumis[stream[s].lumi].run
      BY <3>2, GoForward DEF Forward
    <3> QED
      BY <3>1, <3>2, <3>3 DEF InPlace, Doings
  <2> QED
    BY <2>1, <2>2 DEF StreamsPlaced
<1>18. ASSUME NEW s \in Streams, Leaves(s)
      PROVE  StreamsPlaced'
  <2>1. \A t \in Streams \ {s} : InPlace(t)'
    BY <1>18, StillInPlace, GoForward DEF Leaves, StreamDoes, StreamTo
  <2>2. InPlace(s)'
    BY <1>18, PlaceFacts, GoForward DEF Leaves, Takes, StreamDoes, StreamTo, Forward, TaskInv, StreamsPlaced, InPlace
  <2> QED
    BY <2>1, <2>2 DEF StreamsPlaced
<1>19. ASSUME NEW s \in Streams, NEW ls, Stops(s, ls)
      PROVE  StreamsPlaced'
  <2>1. \A t \in Streams \ {s} : InPlace(t)'
    BY <1>19, StillInPlace, GoForward DEF Stops, StreamDoes, StreamTo
  <2>2. InPlace(s)'
    BY <1>19, PlaceFacts, GoForward DEF Stops, Takes, StreamDoes, StreamTo, Forward, TaskInv, StreamsPlaced, InPlace, Doings
  <2> QED
    BY <2>1, <2>2 DEF StreamsPlaced
<1>20. CASE MakesRun
  <2>1. \A t \in Streams : stream'[t] = stream[t]
    BY <1>20 DEF MakesRun
  <2> QED
    BY <2>1, StillInPlace, GoForward DEF StreamsPlaced
<1>21. ASSUME NEW l \in DOMAIN lumis, Resumes(l)
      PROVE  StreamsPlaced'
  <2>1. ASSUME NEW t \in Streams PROVE InPlace(t)'
    <3>1. \/ stream'[t] = stream[t]
          \/ /\ stream'[t].run = stream[t].run /\ stream'[t].lumi = stream[t].lumi
             /\ stream'[t].doing \in {"resume", "endLumi"}
             /\ stream'[t].pauses = stream[t].pauses
      BY <1>21, InList DEF Resumes, StreamsDo, StreamRecords
    <3>2. stream[t].lumi = l /\ l # 0
      BY <1>21, InList DEF Resumes, Idle
    <3> QED
      BY <3>1, <3>2, PlaceFacts, GoForward DEF Forward, TaskInv, StreamsPlaced, InPlace, Doings
  <2> QED
    BY <2>1 DEF StreamsPlaced
<1>22. ASSUME NEW l \in DOMAIN lumis, CallsOff(l)
      PROVE  StreamsPlaced'
  <2>1. ASSUME NEW t \in Streams PROVE InPlace(t)'
    <3>1. \/ stream'[t] = stream[t]
          \/ /\ stream'[t].run = stream[t].run /\ stream'[t].lumi = stream[t].lumi
             /\ stream'[t].doing \in {"resume", "endLumi"}
             /\ stream'[t].pauses = stream[t].pauses
      BY <1>22, InList DEF CallsOff, StreamsDo, StreamRecords
    <3>2. stream[t].lumi = l /\ l # 0
      BY <1>22, InList DEF CallsOff, Idle
    <3> QED
      BY <3>1, <3>2, PlaceFacts, GoForward DEF Forward, TaskInv, StreamsPlaced, InPlace, Doings
  <2> QED
    BY <2>1 DEF StreamsPlaced
<1>23. CASE UNCHANGED <<runs, lumis, stream>>
  <2>1. \A t \in Streams : stream'[t] = stream[t]
    BY <1>23
  <2> QED
    BY <2>1, StillInPlace, GoForward DEF StreamsPlaced
<1> QED
  BY <1>1, <1>2, <1>3, <1>4, <1>5, <1>6, <1>7, <1>8, <1>9, <1>10, <1>11, <1>12,
     <1>13, <1>14, <1>15, <1>16, <1>17, <1>18, <1>19, <1>20, <1>21, <1>22, <1>23 DEF
     Change, RunChange, LumiChange, StreamChange

LEMMA EmptyList ==
  ASSUME NEW S, NEW q \in Seq(S)
  PROVE  q = <<>> <=> Len(q) = 0
OBVIOUS

LEMMA AppendIndices ==
  ASSUME NEW S, NEW q \in Seq(S), NEW x \in S, NEW p, p = Append(q, x)
  PROVE  /\ p \in Seq(S) /\ p # <<>> /\ Len(p) = Len(q) + 1 /\ Len(q) \in Nat
         /\ DOMAIN q = 1..Len(q) /\ DOMAIN p = 1..Len(p)
         /\ \A i \in DOMAIN q : p[i] = q[i]
         /\ p[Len(p)] = x
         /\ q = <<>> <=> Len(q) = 0
OBVIOUS

LEMMA TailIndices ==
  ASSUME NEW S, NEW q \in Seq(S), q # <<>>, NEW p, p = Tail(q)
  PROVE  /\ p \in Seq(S) /\ Len(p) = Len(q) - 1 /\ Len(q) \in Nat /\ Len(q) # 0
         /\ DOMAIN q = 1..Len(q) /\ DOMAIN p = 1..Len(p)
         /\ \A i \in DOMAIN p : i + 1 \in DOMAIN q /\ p[i] = q[i + 1]
OBVIOUS

RunIn(ls, x) == IF x[1] = "beginLumi" THEN ls[x[2]].run ELSE x[2]

(* What a step does to a stream's queue: nothing, a task is pushed to it,  *)
(* or the stream takes one.                                                *)
Settled(t) ==
  /\ stream'[t].queue = stream[t].queue
  /\ InRun(t)' <=> InRun(t)
  /\ InRun(t) => stream'[t].run = stream[t].run
  /\ stream'[t].run \in {0, stream[t].run}

Gets(t, x) ==
  /\ x \in StreamTasks /\ stream'[t].queue = Append(stream[t].queue, x)
  /\ stream'[t].run = stream[t].run /\ stream'[t].doing = stream[t].doing

LastFits(t, x) ==
  LET q == stream[t].queue IN IF q = <<>> THEN First(t, x) ELSE Follows(q[Len(q)], x)

Took(t) ==
  LET x == Head(stream[t].queue) IN
  /\ stream[t].queue # <<>> /\ stream[t].pauses = 0
  /\ stream'[t].queue = Tail(stream[t].queue)
  /\ InRun(t)' <=> x[1] # "endRun"
  /\ InRun(t)' => stream'[t].run = RunOfTask(x)
  /\ stream'[t].run = IF x[1] = "beginRun" THEN x[2] ELSE stream[t].run

LEMMA StillInOrder ==
  ASSUME TaskInv, Forward, NEW t \in Streams, Settled(t)
  PROVE  QueueInOrder(t)'
<1> DEFINE q == stream[t].queue
<1>1. /\ stream'[t].queue = q
      /\ InRun(t)' <=> InRun(t)
      /\ InRun(t) => stream'[t].run = stream[t].run
  BY DEF Settled
<1>2. /\ \A i \in DOMAIN q : q[i][2] \in (IF q[i][1] = "beginLumi" THEN DOMAIN lumis ELSE DOMAIN runs)
      /\ \A i \in DOMAIN q : i + 1 \in DOMAIN q => Follows(q[i], q[i + 1])
      /\ q # <<>> => First(t, q[1])
      /\ q # <<>> => 1 \in DOMAIN q
  BY HeadFacts DEF TaskInv, QueuesInOrder, QueueInOrder
<1> HIDE DEF q
<1> QED
  BY <1>1, <1>2 DEF QueueInOrder, First, Follows, RunOfTask, Forward

LEMMA GetsInOrder ==
  ASSUME TaskInv, Forward, NEW t \in Streams, NEW x, Gets(t, x), LastFits(t, x),
         x[2] \in (IF x[1] = "beginLumi" THEN DOMAIN lumis ELSE DOMAIN runs)
  PROVE  QueueInOrder(t)'
<1> DEFINE q == stream[t].queue
           p == stream'[t].queue
<1>1. q \in Seq(StreamTasks) /\ x \in StreamTasks /\ p = Append(q, x)
  BY InList DEF Gets, StreamRecords
<1>2. /\ \A i \in DOMAIN q : q[i][2] \in (IF q[i][1] = "beginLumi" THEN DOMAIN lumis ELSE DOMAIN runs)
      /\ \A i \in DOMAIN q : i + 1 \in DOMAIN q => Follows(q[i], q[i + 1])
      /\ q # <<>> => First(t, q[1])
  BY DEF TaskInv, QueuesInOrder, QueueInOrder
<1>3. /\ stream'[t].run = stream[t].run
      /\ InRun(t)' <=> InRun(t)
      /\ IF q = <<>> THEN First(t, x) ELSE Follows(q[Len(q)], x)
  BY DEF Gets, LastFits, InRun
<1>4. p = stream'[t].queue
  OBVIOUS
<1> HIDE DEF q, p
<1>5. /\ p # <<>> /\ Len(p) = Len(q) + 1 /\ Len(q) \in Nat
      /\ DOMAIN q = 1..Len(q) /\ DOMAIN p = 1..Len(p)
      /\ \A i \in DOMAIN q : p[i] = q[i]
      /\ p[Len(p)] = x
      /\ q = <<>> <=> Len(q) = 0
  BY <1>1, AppendIndices
<1>6. \A i \in DOMAIN p : p[i][2] \in (IF p[i][1] = "beginLumi" THEN DOMAIN lumis ELSE DOMAIN runs)
  BY <1>2, <1>5
<1>7. ASSUME NEW i \in DOMAIN p, i + 1 \in DOMAIN p
      PROVE  Follows(p[i], p[i + 1])
  BY <1>2, <1>3, <1>5, <1>7
<1>8. First(t, p[1])
  BY <1>2, <1>3, <1>5
<1>9. \A i \in DOMAIN p : RunIn(lumis', p[i]) = RunOfTask(p[i])
  BY <1>6 DEF RunIn, RunOfTask, Forward
<1>10. p # <<>> => IF InRun(t)' THEN p[1][1] # "beginRun" /\ RunIn(lumis', p[1]) = stream'[t].run
                        ELSE p[1][1] = "beginRun"
  <2>1. p # <<>> => RunIn(lumis', p[1]) = RunOfTask(p[1])
    BY <1>5, <1>9
  <2> QED
    BY <1>3, <1>4, <1>8, <2>1 DEF First, Follows, RunOfTask, RunIn
<1>11. \A i \in DOMAIN p : p[i][2] \in (IF p[i][1] = "beginLumi" THEN DOMAIN lumis' ELSE DOMAIN runs')
  BY <1>6 DEF Forward
<1>12. ASSUME NEW i \in DOMAIN p, i + 1 \in DOMAIN p
       PROVE  IF p[i][1] = "endRun" THEN p[i + 1][1] = "beginRun"
              ELSE p[i + 1][1] # "beginRun" /\ RunIn(lumis', p[i + 1]) = RunIn(lumis', p[i])
  BY <1>7, <1>9, <1>12 DEF Follows
<1> QED
  BY <1>4, <1>10, <1>11, <1>12 DEF QueueInOrder, First, Follows, RunOfTask, RunIn

LEMMA TookInOrder ==
  ASSUME TaskInv, Forward, NEW t \in Streams, Took(t)
  PROVE  QueueInOrder(t)'
<1> DEFINE q == stream[t].queue
           p == stream'[t].queue
           x == Head(q)
<1>1. /\ q \in Seq(StreamTasks) /\ q # <<>> /\ p = Tail(q)
      /\ InRun(t)' <=> x[1] # "endRun"
      /\ InRun(t)' => stream'[t].run = RunOfTask(x)
  BY InList DEF Took, StreamRecords
<1>2. /\ \A i \in DOMAIN q : q[i][2] \in (IF q[i][1] = "beginLumi" THEN DOMAIN lumis ELSE DOMAIN runs)
      /\ \A i \in DOMAIN q : i + 1 \in DOMAIN q => Follows(q[i], q[i + 1])
  BY DEF TaskInv, QueuesInOrder, QueueInOrder
<1>3. p = stream'[t].queue /\ x = Head(q)
  OBVIOUS
<1> HIDE DEF q, p, x
<1>4. /\ p \in Seq(StreamTasks) /\ Len(p) = Len(q) - 1 /\ Len(q) \in Nat /\ Len(q) # 0
      /\ DOMAIN q = 1..Len(q) /\ DOMAIN p = 1..Len(p)
      /\ \A i \in DOMAIN p : i + 1 \in DOMAIN q /\ p[i] = q[i + 1]
      /\ p = <<>> <=> Len(p) = 0
      /\ q[1] = x
  <2>1. /\ p \in Seq(StreamTasks) /\ Len(p) = Len(q) - 1 /\ Len(q) \in Nat /\ Len(q) # 0
        /\ DOMAIN q = 1..Len(q) /\ DOMAIN p = 1..Len(p)
        /\ \A i \in DOMAIN p : i + 1 \in DOMAIN q /\ p[i] = q[i + 1]
    BY <1>1, TailIndices
  <2>2. q[1] = x
    BY <1>1, <1>3
  <2>3. p = <<>> <=> Len(p) = 0
    BY <2>1, EmptyList
  <2> QED
    BY <2>1, <2>2, <2>3
<1>5. \A i \in DOMAIN p : p[i][2] \in (IF p[i][1] = "beginLumi" THEN DOMAIN lumis ELSE DOMAIN runs)
  BY <1>2, <1>4
<1>6. ASSUME NEW i \in DOMAIN p, i + 1 \in DOMAIN p
      PROVE  Follows(p[i], p[i + 1])
  BY <1>2, <1>4, <1>6
<1>7. p # <<>> => 1 \in DOMAIN p /\ Follows(x, p[1])
  BY <1>2, <1>4
<1>8. RunIn(lumis', x) = RunOfTask(x) /\ \A i \in DOMAIN p : RunIn(lumis', p[i]) = RunOfTask(p[i])
  BY <1>2, <1>4, <1>5 DEF RunIn, RunOfTask, Forward
<1>9. p # <<>> => IF InRun(t)' THEN p[1][1] # "beginRun" /\ RunIn(lumis', p[1]) = stream'[t].run
                        ELSE p[1][1] = "beginRun"
  BY <1>1, <1>3, <1>7, <1>8 DEF First, Follows, RunOfTask, RunIn
<1>10. \A i \in DOMAIN p : p[i][2] \in (IF p[i][1] = "beginLumi" THEN DOMAIN lumis' ELSE DOMAIN runs')
  BY <1>5 DEF Forward
<1>11. ASSUME NEW i \in DOMAIN p, i + 1 \in DOMAIN p
       PROVE  IF p[i][1] = "endRun" THEN p[i + 1][1] = "beginRun"
              ELSE p[i + 1][1] # "beginRun" /\ RunIn(lumis', p[i + 1]) = RunIn(lumis', p[i])
  BY <1>6, <1>8, <1>11 DEF Follows
<1> QED
  BY <1>3, <1>9, <1>10, <1>11 DEF QueueInOrder, First, Follows, RunOfTask, RunIn

LiveSame ==
  /\ \A r \in DOMAIN runs : runs'[r].phase \in Live <=> runs[r].phase \in Live
  /\ \A r \in DOMAIN runs' \ DOMAIN runs : runs'[r].phase = "sync"

(* All streams are told of a run when it has begun, of its luminosity      *)
(* blocks while it is open, and of its end.                                *)
ToldOfRun ==
  \E r \in DOMAIN runs :
    /\ runs[r].phase = "begin" /\ r \in DOMAIN runs' /\ runs'[r].phase \in Live
    /\ \A q \in DOMAIN runs : runs[q].phase \notin Live
    /\ \A q \in DOMAIN runs' \ {r} : runs'[q].phase \notin Live
    /\ \A t \in Streams : Gets(t, <<"beginRun", r>>)

ToldOfEnd ==
  \E r \in DOMAIN runs :
    /\ runs[r].phase \in Live
    /\ \A q \in DOMAIN runs' : runs'[q].phase \notin Live
    /\ \A t \in Streams : Gets(t, <<"endRun", r>>)

ToldOfLumi ==
  \E l \in DOMAIN lumis :
    /\ lumis[l].phase = "begin" /\ LiveSame
    /\ \A t \in Streams : Gets(t, <<"beginLumi", l>>)

QueueStep ==
  \/ LiveSame /\ \A t \in Streams : Settled(t)
  \/ LiveSame /\ \E s \in Streams : Took(s) /\ \A t \in Streams \ {s} : Settled(t)
  \/ ToldOfRun \/ ToldOfLumi \/ ToldOfEnd

LEMMA SameStreams ==
  ASSUME UNCHANGED stream
  PROVE  \A t \in Streams : Settled(t)
BY DEF Settled, InRun

LEMMA SameRuns ==
  ASSUME UNCHANGED runs
  PROVE  LiveSame
BY DEF LiveSame

LEMMA GetsRule ==
  ASSUME TaskInv, NEW x, Pushed(x)
  PROVE  \A t \in Streams : Gets(t, x) /\ stream'[t].lumi = stream[t].lumi
BY InList DEF Pushed, Gets, StreamRecords

LEMMA RunPushed ==
  ASSUME TaskInv, NEW r \in DOMAIN runs, runs[r].phase = "begin", NEW phase,
         phase \in Live, RunMoves(runs', r, phase), Pushed(<<"beginRun", r>>)
  PROVE  QueueStep
<1>1. \A t \in Streams : Gets(t, <<"beginRun", r>>)
  BY GetsRule
<1>2. \A q \in DOMAIN runs \ {r} : runs[q].phase \in {"ending", "closed", "dropped"}
  BY OneUnfinishedRun
<1>3. /\ r \in DOMAIN runs' /\ runs'[r].phase = phase /\ DOMAIN runs' = DOMAIN runs
      /\ \A q \in DOMAIN runs \ {r} : runs'[q] = runs[q]
  BY DEF RunMoves, RunTo
<1>4. ToldOfRun
  BY <1>1, <1>2, <1>3 DEF ToldOfRun, Live
<1> QED
  BY <1>4 DEF QueueStep

LEMMA EndPushed ==
  ASSUME TaskInv, NEW r \in DOMAIN runs, NEW rs, RunEnds(r, rs)
  PROVE  QueueStep
<1>1. \A t \in Streams : Gets(t, <<"endRun", r>>)
  BY GetsRule DEF RunEnds
<1>2. \A q \in DOMAIN runs \ {r} : runs[q].phase \in {"ending", "closed", "dropped"}
  BY OneUnfinishedRun DEF RunEnds
<1>3. /\ DOMAIN rs = DOMAIN runs /\ rs[r].phase = "ending"
      /\ \A q \in DOMAIN runs \ {r} : rs[q] = runs[q]
  BY DEF RunEnds, RunMoves, RunTo
<1>4. \A q \in DOMAIN runs' : \/ q \in DOMAIN rs /\ runs'[q] = rs[q]
                              \/ runs'[q].phase = "sync"
  BY DEF RunEnds, RunMade
<1>5. ToldOfEnd
  BY <1>1, <1>2, <1>3, <1>4 DEF ToldOfEnd, RunEnds, Live
<1> QED
  BY <1>5 DEF QueueStep

LEMMA TookRule ==
  ASSUME TaskInv, NEW s \in Streams, BeginsRun(s) \/ EndsRun(s) \/ Joins(s) \/ Skips(s)
  PROVE  LiveSame /\ Took(s) /\ \A t \in Streams \ {s} : Settled(t)
<1> DEFINE x == Head(stream[s].queue)
           q == Tail(stream[s].queue)
<1>1. stream[s].queue # <<>> /\ stream[s].pauses = 0 /\ UNCHANGED runs
  BY DEF BeginsRun, EndsRun, Joins, Skips, Takes
<1>2. /\ stream[s].doing = "nothing"
      /\ x[1] = "beginRun" => stream[s].run = 0 /\ x[2] \in DOMAIN runs
      /\ x[1] # "beginRun" => stream[s].run # 0
      /\ x[1] = "endRun" => x[2] = stream[s].run
      /\ x[1] = "beginLumi" => x[2] \in DOMAIN lumis /\ lumis[x[2]].run = stream[s].run
  BY <1>1, TakeFacts
<1>3. \/ /\ x[1] = "beginRun"
         /\ stream'[s] = [run |-> x[2], lumi |-> stream[s].lumi, doing |-> "beginRun",
                          queue |-> q, pauses |-> 1]
      \/ /\ x[1] = "endRun"
         /\ stream'[s] = [run |-> stream[s].run, lumi |-> stream[s].lumi, doing |-> "endRun",
                          queue |-> q, pauses |-> 1]
      \/ /\ x[1] = "beginLumi"
         /\ stream'[s] = [run |-> stream[s].run, lumi |-> x[2], doing |-> "beginLumi",
                          queue |-> q, pauses |-> 1]
      \/ /\ x[1] = "beginLumi"
         /\ stream'[s] = [run |-> stream[s].run, lumi |-> stream[s].lumi, doing |-> stream[s].doing,
                          queue |-> q, pauses |-> 0]
  BY DEF BeginsRun, EndsRun, Joins, Skips, Takes, StreamTo
<1>4. x = Head(stream[s].queue) /\ q = Tail(stream[s].queue)
  OBVIOUS
<1> HIDE DEF x, q
<1>5. Took(s)
  <2>1. stream'[s].queue = q
    BY <1>3
  <2>2. InRun(s)' <=> x[1] # "endRun"
    BY <1>2, <1>3, InList DEF InRun
  <2>3. InRun(s)' => stream'[s].run = RunOfTask(x)
    BY <1>2, <1>3, <2>2 DEF RunOfTask
  <2>4. stream'[s].run = IF x[1] = "beginRun" THEN x[2] ELSE stream[s].run
    BY <1>3
  <2> QED
    BY <1>1, <1>4, <2>1, <2>2, <2>3, <2>4 DEF Took
<1>6. \A t \in Streams \ {s} : Settled(t)
  BY DEF BeginsRun, EndsRun, Joins, Skips, StreamTo, Settled, InRun
<1> QED
  BY <1>1, <1>5, <1>6, SameRuns

LEMMA QueueSteps ==
  ASSUME TaskInv, Change
  PROVE  QueueStep
<1>1. ASSUME NEW r \in DOMAIN runs, NEW phase \in RunPhases, RunAdvances(r, phase)
      PROVE  QueueStep
  <2>1. LiveSame
    BY <1>1, InList DEF RunAdvances, LiveSame, Live, RunMoves, RunTo
  <2> QED
    BY <1>1, <2>1, SameStreams DEF QueueStep, RunAdvances
<1>2. ASSUME NEW r \in DOMAIN runs, NEW phase \in RunPhases, RunGoesOn(r, phase)
      PROVE  QueueStep
  <2>1. LiveSame
    BY <1>2, InList DEF RunGoesOn, GoesOn, LiveSame, Live, RunMoves, RunTo
  <2> QED
    BY <1>2, <2>1, SameStreams DEF QueueStep, RunGoesOn
<1>3. ASSUME NEW r \in DOMAIN runs, NEW phase \in RunPhases, RunBegins(r, phase)
      PROVE  QueueStep
  <2>1. runs[r].phase = "begin" /\ phase \in Live /\ RunMoves(runs', r, phase) /\ Pushed(<<"beginRun", r>>)
    BY <1>3 DEF RunBegins, GoesOn, Live
  <2> QED
    BY <2>1, RunPushed
<1>4. ASSUME NEW r \in DOMAIN runs, NEW rs, RunEnds(r, rs)
      PROVE  QueueStep
  BY <1>4, EndPushed
<1>5. ASSUME NEW l \in DOMAIN lumis, NEW phase \in LumiPhases, LumiAdvances(l, phase)
      PROVE  QueueStep
  BY <1>5, SameStreams, SameRuns DEF LumiAdvances, QueueStep
<1>6. ASSUME NEW l \in DOMAIN lumis, LumiDropped(l)
      PROVE  QueueStep
  <2> DEFINE r == lumis[l].run
  <2>1. /\ r \in DOMAIN runs /\ runs[r].phase = "open" /\ UNCHANGED stream
        /\ DOMAIN runs' = DOMAIN runs /\ runs'[r].phase = "endSync"
        /\ \A q \in DOMAIN runs \ {r} : runs'[q] = runs[q]
    BY <1>6, CurrentFacts DEF LumiDropped, Current, Coming, Counts, RunMoves, RunTo
  <2> HIDE DEF r
  <2>2. LiveSame
    BY <2>1 DEF LiveSame, Live
  <2> QED
    BY <2>1, <2>2, SameStreams DEF QueueStep
<1>7. ASSUME NEW l \in DOMAIN lumis, LumiUnbegun(l)
      PROVE  QueueStep
  <2> DEFINE r == lumis[l].run
  <2>1. /\ r \in DOMAIN runs /\ runs[r].phase = "open" /\ UNCHANGED stream
        /\ DOMAIN runs' = DOMAIN runs /\ runs'[r].phase = "endSync"
        /\ \A q \in DOMAIN runs \ {r} : runs'[q] = runs[q]
    BY <1>7, CurrentFacts DEF LumiUnbegun, Current, Coming, Counts, RunMoves, RunTo
  <2> HIDE DEF r
  <2>2. LiveSame
    BY <2>1 DEF LiveSame, Live
  <2> QED
    BY <2>1, <2>2, SameStreams DEF QueueStep
<1>8. ASSUME NEW l \in DOMAIN lumis, LumiBegins(l)
      PROVE  QueueStep
  <2> DEFINE r == lumis[l].run
  <2>1. /\ r \in DOMAIN runs /\ lumis[l].phase = "begin"
        /\ DOMAIN runs' = DOMAIN runs /\ runs'[r].phase = runs[r].phase
        /\ \A q \in DOMAIN runs \ {r} : runs'[q] = runs[q]
    BY <1>8, InList DEF LumiBegins, Counts, RunTo
  <2> HIDE DEF r
  <2>2. LiveSame
    BY <2>1 DEF LiveSame
  <2> QED
    BY <1>8, <2>1, <2>2, GetsRule DEF LumiBegins, QueueStep, ToldOfLumi
<1>9. ASSUME NEW l \in DOMAIN lumis, LumiEnds(l)
      PROVE  QueueStep
  <2> DEFINE r == lumis[l].run
  <2>1. /\ r \in DOMAIN runs /\ UNCHANGED stream
        /\ DOMAIN runs' = DOMAIN runs /\ runs'[r].phase = runs[r].phase
        /\ \A q \in DOMAIN runs \ {r} : runs'[q] = runs[q]
    BY <1>9, InList DEF LumiEnds, Counts, RunTo
  <2> HIDE DEF r
  <2>2. LiveSame
    BY <2>1 DEF LiveSame
  <2> QED
    BY <2>1, <2>2, SameStreams DEF QueueStep
<1>10. ASSUME NEW s \in Streams, BeginsRun(s)
      PROVE  QueueStep
  BY <1>10, TookRule DEF QueueStep
<1>11. ASSUME NEW s \in Streams, EndsRun(s)
      PROVE  QueueStep
  BY <1>11, TookRule DEF QueueStep
<1>12. ASSUME NEW s \in Streams, Joins(s)
      PROVE  QueueStep
  BY <1>12, TookRule DEF QueueStep
<1>13. ASSUME NEW s \in Streams, Skips(s)
      PROVE  QueueStep
  BY <1>13, TookRule DEF QueueStep
<1>14. ASSUME NEW s \in Streams, HasBegun(s)
      PROVE  QueueStep
  <2> DEFINE r == stream[s].run
  <2>1. /\ r \in DOMAIN runs
        /\ DOMAIN runs' = DOMAIN runs /\ runs'[r].phase = runs[r].phase
        /\ \A q \in DOMAIN runs \ {r} : runs'[q] = runs[q]
    BY <1>14, PlaceFacts DEF HasBegun, RunTo
  <2>2. LiveSame
    <3> HIDE DEF r
    <3> QED
      BY <2>1 DEF LiveSame
  <2>3. \A t \in Streams : Settled(t)
    BY <1>14, InList DEF HasBegun, StreamTo, Settled, InRun
  <2> QED
    BY <2>2, <2>3 DEF QueueStep
<1>15. ASSUME NEW s \in Streams, HasEnded(s)
      PROVE  QueueStep
  <2> DEFINE r == stream[s].run
  <2>1. /\ r \in DOMAIN runs
        /\ DOMAIN runs' = DOMAIN runs /\ runs'[r].phase = runs[r].phase
        /\ \A q \in DOMAIN runs \ {r} : runs'[q] = runs[q]
    BY <1>15, PlaceFacts DEF HasEnded, RunTo
  <2>2. LiveSame
    <3> HIDE DEF r
    <3> QED
      BY <2>1 DEF LiveSame
  <2>3. \A t \in Streams : Settled(t)
    BY <1>15, InList DEF HasEnded, StreamTo, Settled, InRun
  <2> QED
    BY <2>2, <2>3 DEF QueueStep
<1>16. ASSUME NEW s \in Streams, NEW doing \in Doings, Does(s, doing)
      PROVE  QueueStep
  <2>1. \A t \in Streams : Settled(t)
    BY <1>16, PlaceFacts DEF Does, StreamDoes, StreamTo, Settled, InRun, Doings
  <2> QED
    BY <1>16, <2>1, SameRuns DEF QueueStep, Does
<1>17. ASSUME NEW s \in Streams, Pauses(s)
      PROVE  QueueStep
  <2> DEFINE r == lumis[stream[s].lumi].run
  <2>1. /\ r \in DOMAIN runs
        /\ DOMAIN runs' = DOMAIN runs /\ runs'[r].phase = runs[r].phase
        /\ \A q \in DOMAIN runs \ {r} : runs'[q] = runs[q]
    BY <1>17, StopsFacts, InList DEF Pauses, RunMoves, RunTo
  <2>2. LiveSame
    <3> HIDE DEF r
    <3> QED
      BY <2>1 DEF LiveSame
  <2>3. \A t \in Streams : Settled(t)
    BY <1>17 DEF Pauses, StreamDoes, StreamTo, Settled, InRun
  <2> QED
    BY <2>2, <2>3 DEF QueueStep
<1>18. ASSUME NEW s \in Streams, Leaves(s)
      PROVE  QueueStep
  <2>1. \A t \in Streams : Settled(t)
    BY <1>18, PlaceFacts DEF Leaves, StreamTo, Settled, InRun, Doings
  <2> QED
    BY <1>18, <2>1, SameRuns DEF QueueStep, Leaves
<1>19. ASSUME NEW s \in Streams, NEW ls, Stops(s, ls)
      PROVE  QueueStep
  <2> DEFINE r == lumis[stream[s].lumi].run
  <2>1. \/ UNCHANGED runs
        \/ /\ r \in DOMAIN runs /\ runs[r].phase = "open"
           /\ DOMAIN runs' = DOMAIN runs /\ runs'[r].phase = "endSync"
           /\ \A q \in DOMAIN runs \ {r} : runs'[q] = runs[q]
    BY <1>19, StopsFacts, CurrentFacts DEF Stops, RunMoves, RunTo
  <2>2. LiveSame
    <3> HIDE DEF r
    <3> QED
      BY <2>1 DEF LiveSame, Live
  <2>3. \A t \in Streams : Settled(t)
    BY <1>19 DEF Stops, StreamDoes, StreamTo, Settled, InRun
  <2> QED
    BY <2>2, <2>3 DEF QueueStep
<1>20. CASE MakesRun
  <2>1. LiveSame
    BY <1>20, InList DEF MakesRun, RunMade, LiveSame
  <2> QED
    BY <1>20, <2>1, SameStreams DEF QueueStep, MakesRun
<1>21. ASSUME NEW l \in DOMAIN lumis, Resumes(l)
      PROVE  QueueStep
  <2>1. LiveSame
    BY <1>21, InList DEF Resumes, LiveSame, RunMoves, RunTo
  <2>2. \A t \in Streams : Settled(t)
    <3>1. CASE UNCHANGED stream
      BY <3>1, SameStreams
    <3>2. CASE StreamsDo("resume")
      <4>1. \A t \in Streams : /\ stream'[t].queue = stream[t].queue /\ stream'[t].doing = "resume"
                               /\ stream'[t].run = stream[t].run
        BY <3>2, AllDo
      <4>2. \A t \in Streams : stream[t].doing = "nothing"
        BY <1>21 DEF Resumes, Idle
      <4> QED
        BY <4>1, <4>2 DEF Settled, InRun
    <3> QED
      BY <1>21, <3>1, <3>2 DEF Resumes
  <2> QED
    BY <2>1, <2>2 DEF QueueStep
<1>22. ASSUME NEW l \in DOMAIN lumis, CallsOff(l)
      PROVE  QueueStep
  <2>1. \A t \in Streams : Settled(t)
    BY <1>22, InList DEF CallsOff, Idle, StreamsDo, StreamRecords, Settled, InRun
  <2> QED
    BY <1>22, <2>1, SameRuns DEF QueueStep, CallsOff
<1>23. CASE UNCHANGED <<runs, lumis, stream>>
  BY <1>23, SameRuns, SameStreams DEF QueueStep
<1> QED
  BY <1>1, <1>2, <1>3, <1>4, <1>5, <1>6, <1>7, <1>8, <1>9, <1>10, <1>11, <1>12,
     <1>13, <1>14, <1>15, <1>16, <1>17, <1>18, <1>19, <1>20, <1>21, <1>22, <1>23 DEF
     Change, RunChange, LumiChange, StreamChange

LEMMA QueuesInOrderKept ==
  ASSUME TaskInv, Change
  PROVE  QueuesInOrder'
<1>1. Forward
  BY GoForward
<1>2. ASSUME NEW t \in Streams
      PROVE  QueueEnd(t)
  BY DEF TaskInv, QueuesEnd
<1>3. CASE \A t \in Streams : Settled(t)
  BY <1>1, <1>3, StillInOrder DEF QueuesInOrder
<1>4. CASE \E s \in Streams : Took(s) /\ \A t \in Streams \ {s} : Settled(t)
  BY <1>1, <1>4, StillInOrder, TookInOrder DEF QueuesInOrder
<1>5. CASE ToldOfRun
  <2>1. PICK r \in DOMAIN runs :
          /\ \A q \in DOMAIN runs : runs[q].phase \notin Live
          /\ \A t \in Streams : Gets(t, <<"beginRun", r>>)
    BY <1>5 DEF ToldOfRun
  <2>2. ASSUME NEW t \in Streams
        PROVE  LastFits(t, <<"beginRun", r>>)
    BY <1>2, <2>1 DEF QueueEnd, LastFits, First, Follows
  <2>3. \A t \in Streams : QueueInOrder(t)'
    BY <1>1, <2>1, <2>2, GetsInOrder
  <2> QED
    BY <2>3 DEF QueuesInOrder
<1>6. CASE ToldOfEnd
  <2>1. PICK r \in DOMAIN runs :
          /\ runs[r].phase \in Live
          /\ \A t \in Streams : Gets(t, <<"endRun", r>>)
    BY <1>6 DEF ToldOfEnd
  <2>2. ASSUME NEW t \in Streams
        PROVE  LastFits(t, <<"endRun", r>>)
    BY <1>2, <2>1 DEF QueueEnd, LastFits, First, Follows, Inside, RunOfTask
  <2>3. \A t \in Streams : QueueInOrder(t)'
    BY <1>1, <2>1, <2>2, GetsInOrder
  <2> QED
    BY <2>3 DEF QueuesInOrder
<1>7. CASE ToldOfLumi
  <2>1. PICK l \in DOMAIN lumis :
          /\ lumis[l].phase = "begin"
          /\ \A t \in Streams : Gets(t, <<"beginLumi", l>>)
    BY <1>7 DEF ToldOfLumi
  <2>2. lumis[l].run \in DOMAIN runs /\ runs[lumis[l].run].phase \in Live
    BY <2>1, CurrentFacts DEF Current, Coming, Live
  <2>3. ASSUME NEW t \in Streams
        PROVE  LastFits(t, <<"beginLumi", l>>)
    BY <1>2, <2>2 DEF QueueEnd, LastFits, First, Follows, Inside, RunOfTask
  <2>4. \A t \in Streams : QueueInOrder(t)'
    BY <1>1, <2>1, <2>3, GetsInOrder
  <2> QED
    BY <2>4 DEF QueuesInOrder
<1> QED
  BY <1>3, <1>4, <1>5, <1>6, <1>7, QueueSteps DEF QueueStep

(* Where the queue ends, in terms of what it is after the step.            *)
LEMMA GetsEnd ==
  ASSUME TaskInv, NEW t \in Streams, NEW x, Gets(t, x)
  PROVE  stream'[t].queue # <<>> /\ stream'[t].queue[Len(stream'[t].queue)] = x
<1> DEFINE q == stream[t].queue
           p == stream'[t].queue
<1>1. q \in Seq(StreamTasks) /\ x \in StreamTasks /\ p = Append(q, x)
  BY InList DEF Gets, StreamRecords
<1> HIDE DEF q, p
<1>2. p # <<>> /\ p[Len(p)] = x
  BY <1>1, AppendIndices
<1> QED
  BY <1>2 DEF p

LEMMA LastTask ==
  ASSUME TaskInv, NEW t \in Streams, stream[t].queue # <<>>,
         NEW x, x = stream[t].queue[Len(stream[t].queue)]
  PROVE  x[2] \in (IF x[1] = "beginLumi" THEN DOMAIN lumis ELSE DOMAIN runs)
<1> DEFINE q == stream[t].queue
<1>1. q \in Seq(StreamTasks) /\ q # <<>>
  BY InList DEF StreamRecords
<1>2. Len(q) \in DOMAIN q
  <2> HIDE DEF q
  <2> QED
    BY <1>1
<1> QED
  BY <1>2 DEF TaskInv, QueuesInOrder, QueueInOrder

LEMMA StillEnds ==
  ASSUME TaskInv, Forward, LiveSame, NEW t \in Streams, Settled(t)
  PROVE  QueueEnd(t)'
<1> DEFINE q == stream[t].queue
           x == q[Len(q)]
<1>1. /\ stream'[t].queue = q
      /\ InRun(t)' <=> InRun(t)
      /\ InRun(t) => stream'[t].run = stream[t].run
  BY DEF Settled
<1>2. /\ \A r \in DOMAIN runs : runs[r].phase \in Live =>
           IF q = <<>> THEN InRun(t) /\ stream[t].run = r ELSE Inside(x, r)
      /\ (\A r \in DOMAIN runs : runs[r].phase \notin Live) =>
           IF q = <<>> THEN ~InRun(t) ELSE x[1] = "endRun"
  BY DEF TaskInv, QueuesEnd, QueueEnd
<1>3. q # <<>> => RunIn(lumis', x) = RunOfTask(x)
  <2>1. q # <<>> => x[2] \in (IF x[1] = "beginLumi" THEN DOMAIN lumis ELSE DOMAIN runs)
    BY LastTask
  <2> HIDE DEF x
  <2> QED
    BY <2>1 DEF RunIn, RunOfTask, Forward
<1>4. x = q[Len(q)] /\ q = stream[t].queue
  OBVIOUS
<1> HIDE DEF q, x
<1>5. ASSUME NEW r \in DOMAIN runs', runs'[r].phase \in Live
      PROVE  IF q = <<>> THEN InRun(t)' /\ stream'[t].run = r
                         ELSE x[1] # "endRun" /\ RunIn(lumis', x) = r
  <2>1. r \in DOMAIN runs /\ runs[r].phase \in Live
    BY <1>5 DEF LiveSame, Live
  <2> QED
    BY <1>1, <1>2, <1>3, <2>1 DEF Inside
<1>6. ASSUME \A r \in DOMAIN runs' : runs'[r].phase \notin Live
      PROVE  IF q = <<>> THEN ~InRun(t)' ELSE x[1] = "endRun"
  BY <1>1, <1>2, <1>6 DEF LiveSame, Forward
<1> QED
  BY <1>1, <1>4, <1>5, <1>6 DEF QueueEnd, Inside, RunOfTask, RunIn

LEMMA TookEnds ==
  ASSUME TaskInv, Forward, LiveSame, NEW t \in Streams, Took(t)
  PROVE  QueueEnd(t)'
<1> DEFINE q == stream[t].queue
           p == stream'[t].queue
           x == q[Len(q)]
           y == Head(q)
<1>1. /\ q \in Seq(StreamTasks) /\ q # <<>> /\ p = Tail(q) /\ y = Head(q) /\ x = q[Len(q)]
      /\ InRun(t)' <=> y[1] # "endRun"
      /\ InRun(t)' => stream'[t].run = RunOfTask(y)
  BY InList DEF Took, StreamRecords
<1>2. /\ \A r \in DOMAIN runs : runs[r].phase \in Live => Inside(x, r)
      /\ (\A r \in DOMAIN runs : runs[r].phase \notin Live) => x[1] = "endRun"
  BY <1>1 DEF TaskInv, QueuesEnd, QueueEnd
<1>3. RunIn(lumis', x) = RunOfTask(x)
  <2>1. x[2] \in (IF x[1] = "beginLumi" THEN DOMAIN lumis ELSE DOMAIN runs)
    BY <1>1, LastTask
  <2> HIDE DEF x
  <2> QED
    BY <2>1 DEF RunIn, RunOfTask, Forward
<1>4. p = stream'[t].queue
  OBVIOUS
<1> HIDE DEF q, p, x, y
<1>5. IF p = <<>> THEN y = x ELSE p[Len(p)] = x
  <2>1. /\ p \in Seq(StreamTasks) /\ Len(p) = Len(q) - 1 /\ Len(q) \in Nat /\ Len(q) # 0
        /\ DOMAIN p = 1..Len(p)
        /\ \A i \in DOMAIN p : i + 1 \in DOMAIN q /\ p[i] = q[i + 1]
    BY <1>1, TailIndices
  <2>2. y = q[1]
    BY <1>1
  <2>3. p = <<>> <=> Len(p) = 0
    BY <2>1, EmptyList
  <2> QED
    BY <1>1, <2>1, <2>2, <2>3
<1>6. ASSUME NEW r \in DOMAIN runs', runs'[r].phase \in Live
      PROVE  x[1] # "endRun" /\ RunIn(lumis', x) = r
  <2>1. r \in DOMAIN runs /\ runs[r].phase \in Live
    BY <1>6 DEF LiveSame, Live
  <2> QED
    BY <1>2, <1>3, <2>1 DEF Inside
<1>7. (\A r \in DOMAIN runs' : runs'[r].phase \notin Live) => x[1] = "endRun"
  BY <1>2 DEF LiveSame, Forward
<1>8. ASSUME NEW r \in DOMAIN runs', runs'[r].phase \in Live
      PROVE  IF p = <<>> THEN InRun(t)' /\ stream'[t].run = r ELSE p[Len(p)][1] # "endRun" /\ RunIn(lumis', p[Len(p)]) = r
  BY <1>1, <1>3, <1>4, <1>5, <1>6, <1>8 DEF Inside, RunOfTask, RunIn
<1> QED
  BY <1>1, <1>4, <1>5, <1>7, <1>8 DEF QueueEnd, Inside, RunOfTask, RunIn

LEMMA QueuesEndKept ==
  ASSUME TaskInv, Change
  PROVE  QueuesEnd'
<1>1. Forward
  BY GoForward
<1>2. CASE LiveSame /\ \A t \in Streams : Settled(t)
  BY <1>1, <1>2, StillEnds DEF QueuesEnd
<1>3. CASE LiveSame /\ \E s \in Streams : Took(s) /\ \A t \in Streams \ {s} : Settled(t)
  BY <1>1, <1>3, StillEnds, TookEnds DEF QueuesEnd
<1>4. CASE ToldOfRun
  <2>1. PICK r \in DOMAIN runs :
          /\ r \in DOMAIN runs' /\ runs'[r].phase \in Live
          /\ \A q \in DOMAIN runs' \ {r} : runs'[q].phase \notin Live
          /\ \A t \in Streams : Gets(t, <<"beginRun", r>>)
    BY <1>4 DEF ToldOfRun
  <2>2. \A t \in Streams : /\ stream'[t].queue # <<>>
                           /\ stream'[t].queue[Len(stream'[t].queue)] = <<"beginRun", r>>
    BY <2>1, GetsEnd
  <2> QED
    BY <2>1, <2>2 DEF QueuesEnd, QueueEnd, Inside, RunOfTask
<1>5. CASE ToldOfEnd
  <2>1. PICK r \in DOMAIN runs :
          /\ \A q \in DOMAIN runs' : runs'[q].phase \notin Live
          /\ \A t \in Streams : Gets(t, <<"endRun", r>>)
    BY <1>5 DEF ToldOfEnd
  <2>2. \A t \in Streams : /\ stream'[t].queue # <<>>
                           /\ stream'[t].queue[Len(stream'[t].queue)] = <<"endRun", r>>
    BY <2>1, GetsEnd
  <2> QED
    BY <2>1, <2>2 DEF QueuesEnd, QueueEnd
<1>6. CASE ToldOfLumi
  <2>1. PICK l \in DOMAIN lumis :
          /\ lumis[l].phase = "begin" /\ LiveSame
          /\ \A t \in Streams : Gets(t, <<"beginLumi", l>>)
    BY <1>6 DEF ToldOfLumi
  <2> DEFINE r == lumis[l].run
  <2>2. /\ r \in DOMAIN runs /\ runs[r].phase \in Live
        /\ \A q \in DOMAIN runs \ {r} : runs[q].phase \notin Live
        /\ lumis'[l].run = r
    BY <1>1, <2>1, CurrentFacts DEF Current, Coming, Live, Forward
  <2>3. \A t \in Streams : /\ stream'[t].queue # <<>>
                           /\ stream'[t].queue[Len(stream'[t].queue)] = <<"beginLumi", l>>
    BY <2>1, GetsEnd
  <2> HIDE DEF r
  <2>4. /\ \A q \in DOMAIN runs' : runs'[q].phase \in Live => q = r
        /\ r \in DOMAIN runs' /\ runs'[r].phase \in Live
    BY <1>1, <2>1, <2>2 DEF LiveSame, Forward, Live
  <2> QED
    BY <2>2, <2>3, <2>4 DEF QueuesEnd, QueueEnd, Inside, RunOfTask
<1> QED
  BY <1>2, <1>3, <1>4, <1>5, <1>6, QueueSteps DEF QueueStep

(* What is in a queue after the step.                                      *)
LEMMA SettledQueued ==
  ASSUME NEW t \in Streams, Settled(t), NEW CONSTANT x
  PROVE  Queued(t, x)' <=> Queued(t, x)
BY DEF Settled, Queued

LEMMA GetsQueued ==
  ASSUME TaskInv, NEW t \in Streams, NEW CONSTANT y, Gets(t, y), NEW CONSTANT x
  PROVE  Queued(t, x)' <=> (Queued(t, x) \/ x = y)
<1> DEFINE q == stream[t].queue
           p == stream'[t].queue
<1>1. q \in Seq(StreamTasks) /\ y \in StreamTasks /\ p = Append(q, y)
  BY InList DEF Gets, StreamRecords
<1>2. /\ Queued(t, x) <=> \E i \in DOMAIN q : q[i] = x
      /\ Queued(t, x)' <=> \E i \in DOMAIN p : p[i] = x
  BY DEF Queued
<1> HIDE DEF q, p
<1>3. /\ Len(p) = Len(q) + 1 /\ Len(q) \in Nat
      /\ DOMAIN q = 1..Len(q) /\ DOMAIN p = 1..Len(p)
      /\ \A i \in DOMAIN q : p[i] = q[i]
      /\ p[Len(p)] = y
  BY <1>1, AppendIndices
<1>4. (\E i \in DOMAIN p : p[i] = x) <=> (\E i \in DOMAIN q : q[i] = x) \/ x = y
  BY <1>3
<1> QED
  BY <1>2, <1>4

LEMMA TookQueued ==
  ASSUME TaskInv, NEW t \in Streams, Took(t), NEW CONSTANT x
  PROVE  /\ Queued(t, Head(stream[t].queue))
         /\ Queued(t, x)' => Queued(t, x)
         /\ Queued(t, x) => Queued(t, x)' \/ x = Head(stream[t].queue)
         /\ x = Head(stream[t].queue) /\ x[1] = "beginRun" => ~Queued(t, x)'
<1> DEFINE q == stream[t].queue
           p == stream'[t].queue
           y == Head(q)
<1>1. q \in Seq(StreamTasks) /\ q # <<>> /\ p = Tail(q) /\ y = Head(q)
  BY InList DEF Took, StreamRecords
<1>2. /\ Queued(t, x) <=> \E i \in DOMAIN q : q[i] = x
      /\ Queued(t, x)' <=> \E i \in DOMAIN p : p[i] = x
      /\ Queued(t, y) <=> \E i \in DOMAIN q : q[i] = y
  BY DEF Queued
<1>3. \A i \in DOMAIN q : q[i][1] = "beginRun" => \A j \in DOMAIN q : q[j] = q[i] => j = i
  BY DEF TaskInv, BegunOnce
<1>4. y = Head(stream[t].queue)
  OBVIOUS
<1> HIDE DEF q, p, y
<1>5. /\ p \in Seq(StreamTasks) /\ Len(p) = Len(q) - 1 /\ Len(q) \in Nat /\ Len(q) # 0
      /\ DOMAIN q = 1..Len(q) /\ DOMAIN p = 1..Len(p)
      /\ \A i \in DOMAIN p : i + 1 \in DOMAIN q /\ p[i] = q[i + 1]
  BY <1>1, TailIndices
<1>6. 1 \in DOMAIN q /\ y = q[1]
  BY <1>1
<1>7. \A i \in DOMAIN q : i = 1 \/ (i - 1 \in DOMAIN p /\ p[i - 1] = q[i])
  BY <1>5
<1>8. ASSUME NEW i \in DOMAIN p, p[i] = x, x = y, x[1] = "beginRun"
      PROVE  FALSE
  <2>1. i + 1 \in DOMAIN q /\ q[i + 1] = q[1] /\ i + 1 # 1
    BY <1>5, <1>6, <1>8
  <2> QED
    BY <1>3, <1>6, <1>8, <2>1
<1> QED
  BY <1>2, <1>4, <1>5, <1>6, <1>7, <1>8

BegunOnceFor(t) ==
  LET q == stream[t].queue IN
  \A i \in DOMAIN q : q[i][1] = "beginRun" =>
    /\ q[i][2] # stream[t].run
    /\ \A j \in DOMAIN q : q[j] = q[i] => j = i

LEMMA SettledBegunOnce ==
  ASSUME TaskInv, NEW t \in Streams, Settled(t)
  PROVE  BegunOnceFor(t)'
<1> DEFINE q == stream[t].queue
<1>1. stream'[t].queue = q /\ stream'[t].run \in {0, stream[t].run}
  BY DEF Settled
<1>2. \A i \in DOMAIN q : q[i][1] = "beginRun" =>
        /\ q[i][2] # stream[t].run
        /\ \A j \in DOMAIN q : q[j] = q[i] => j = i
  BY DEF TaskInv, BegunOnce
<1>3. \A i \in DOMAIN q : q[i][1] = "beginRun" => q[i][2] \in DOMAIN runs
  BY DEF TaskInv, QueuesInOrder, QueueInOrder
<1> HIDE DEF q
<1> QED
  BY <1>1, <1>2, <1>3, InList DEF BegunOnceFor

LEMMA GetsBegunOnce ==
  ASSUME TaskInv, NEW t \in Streams, NEW x, Gets(t, x),
         x[1] = "beginRun" => x[2] # stream[t].run /\ ~Queued(t, x)
  PROVE  BegunOnceFor(t)'
<1> DEFINE q == stream[t].queue
           p == stream'[t].queue
<1>1. /\ q \in Seq(StreamTasks) /\ x \in StreamTasks /\ p = Append(q, x)
      /\ stream'[t].run = stream[t].run
  BY InList DEF Gets, StreamRecords
<1>2. \A i \in DOMAIN q : q[i][1] = "beginRun" =>
        /\ q[i][2] # stream[t].run
        /\ \A j \in DOMAIN q : q[j] = q[i] => j = i
  BY DEF TaskInv, BegunOnce
<1>3. x[1] = "beginRun" => x[2] # stream[t].run /\ \A i \in DOMAIN q : q[i] # x
  BY DEF Queued
<1>4. p = stream'[t].queue
  OBVIOUS
<1> HIDE DEF q, p
<1>5. /\ Len(p) = Len(q) + 1 /\ Len(q) \in Nat
      /\ DOMAIN q = 1..Len(q) /\ DOMAIN p = 1..Len(p)
      /\ \A i \in DOMAIN q : p[i] = q[i]
      /\ p[Len(p)] = x
  BY <1>1, AppendIndices
<1>6. \A i \in DOMAIN p : (i \in DOMAIN q /\ p[i] = q[i]) \/ (i = Len(p) /\ p[i] = x)
  BY <1>5
<1>7. ASSUME NEW i \in DOMAIN p, p[i][1] = "beginRun"
      PROVE  p[i][2] # stream[t].run /\ \A j \in DOMAIN p : p[j] = p[i] => j = i
  <2>1. CASE i \in DOMAIN q /\ p[i] = q[i]
    <3>1. q[i][1] = "beginRun" /\ q[i] # x
      BY <1>3, <1>7, <2>1
    <3> QED
      BY <1>2, <1>6, <2>1, <3>1
  <2>2. CASE i = Len(p) /\ p[i] = x
    BY <1>3, <1>6, <1>7, <2>2
  <2> QED
    BY <1>6, <2>1, <2>2
<1> QED
  BY <1>1, <1>4, <1>7 DEF BegunOnceFor

LEMMA TookBegunOnce ==
  ASSUME TaskInv, NEW t \in Streams, Took(t)
  PROVE  BegunOnceFor(t)'
<1> DEFINE q == stream[t].queue
           p == stream'[t].queue
           y == Head(q)
<1>1. /\ q \in Seq(StreamTasks) /\ q # <<>> /\ p = Tail(q) /\ y = Head(q)
      /\ stream'[t].run = IF y[1] = "beginRun" THEN y[2] ELSE stream[t].run
      /\ y \in StreamTasks
  BY InList, HeadFacts DEF Took, StreamRecords
<1>2. \A i \in DOMAIN q : q[i][1] = "beginRun" =>
        /\ q[i][2] # stream[t].run
        /\ \A j \in DOMAIN q : q[j] = q[i] => j = i
  BY DEF TaskInv, BegunOnce
<1>3. p = stream'[t].queue
  OBVIOUS
<1> HIDE DEF q, p, y
<1>4. /\ p \in Seq(StreamTasks) /\ Len(p) = Len(q) - 1 /\ Len(q) \in Nat /\ Len(q) # 0
      /\ DOMAIN q = 1..Len(q) /\ DOMAIN p = 1..Len(p)
      /\ \A i \in DOMAIN p : i + 1 \in DOMAIN q /\ p[i] = q[i + 1]
  BY <1>1, TailIndices
<1>5. 1 \in DOMAIN q /\ y = q[1]
  BY <1>1
<1>6. ASSUME NEW i \in DOMAIN p, p[i][1] = "beginRun"
      PROVE  p[i][2] # stream'[t].run /\ \A j \in DOMAIN p : p[j] = p[i] => j = i
  <2>1. /\ i + 1 \in DOMAIN q /\ q[i + 1] = p[i] /\ q[i + 1][1] = "beginRun" /\ i + 1 # 1
        /\ i \in Nat
    BY <1>4, <1>6
  <2>2. q[i + 1] # y
    BY <1>2, <1>5, <2>1
  <2>3. y[1] = "beginRun" => y[2] # p[i][2]
    <3>1. p[i] \in StreamTasks
      BY <1>4
    <3>2. y = <<y[1], y[2]>> /\ p[i] = <<p[i][1], p[i][2]>>
      BY <1>1, <3>1 DEF StreamTasks
    <3> QED
      BY <1>6, <2>1, <2>2, <3>2
  <2>4. \A j \in DOMAIN p : p[j] = p[i] => j = i
    <3> TAKE j \in DOMAIN p
    <3> HAVE p[j] = p[i]
    <3>1. j + 1 \in DOMAIN q /\ q[j + 1] = q[i + 1] /\ j \in Nat
      BY <1>4, <2>1
    <3>2. j + 1 = i + 1
      BY <1>2, <2>1, <3>1
    <3> QED
      BY <2>1, <3>1, <3>2
  <2> QED
    BY <1>1, <1>2, <2>1, <2>3, <2>4
<1> QED
  BY <1>3, <1>6 DEF BegunOnceFor

LEMMA BegunOnceKept ==
  ASSUME TaskInv, Change
  PROVE  BegunOnce'
<1>1. CASE \A t \in Streams : Settled(t)
  BY <1>1, SettledBegunOnce DEF BegunOnce, BegunOnceFor
<1>2. CASE \E s \in Streams : Took(s) /\ \A t \in Streams \ {s} : Settled(t)
  <2>1. \A t \in Streams : BegunOnceFor(t)'
    BY <1>2, SettledBegunOnce, TookBegunOnce
  <2> QED
    BY <2>1 DEF BegunOnce, BegunOnceFor
<1>3. CASE ToldOfRun
  <2>1. PICK r \in DOMAIN runs :
          /\ runs[r].phase = "begin"
          /\ \A t \in Streams : Gets(t, <<"beginRun", r>>)
    BY <1>3 DEF ToldOfRun
  <2>2. Unfinished(r) = {}
    BY <2>1 DEF TaskInv, RunsCounted, NotBegun
  <2>3. \A t \in Streams : stream[t].run # r /\ ~Queued(t, <<"beginRun", r>>)
    BY <2>2 DEF Unfinished
  <2>4. \A t \in Streams : BegunOnceFor(t)'
    BY <2>1, <2>3, GetsBegunOnce
  <2> QED
    BY <2>4 DEF BegunOnce, BegunOnceFor
<1>4. CASE ToldOfEnd
  <2>1. \A t \in Streams : BegunOnceFor(t)'
    BY <1>4, GetsBegunOnce DEF ToldOfEnd
  <2> QED
    BY <2>1 DEF BegunOnce, BegunOnceFor
<1>5. CASE ToldOfLumi
  <2>1. \A t \in Streams : BegunOnceFor(t)'
    BY <1>5, GetsBegunOnce DEF ToldOfLumi
  <2> QED
    BY <2>1 DEF BegunOnce, BegunOnceFor
<1> QED
  BY <1>1, <1>2, <1>3, <1>4, <1>5, QueueSteps DEF QueueStep

-----------------------------------------------------------------------------
(* The counts of a run.                                                    *)
UIn(t, r) == Queued(t, <<"beginRun", r>>) \/ stream[t].run = r
BIn(t, r) == Queued(t, <<"beginRun", r>>) \/ (stream[t].run = r /\ stream[t].doing = "beginRun")

Unmoved(t, r) == /\ UIn(t, r)' <=> UIn(t, r)
                 /\ BIn(t, r)' <=> BIn(t, r)

(* No luminosity block begins or ends.                                     *)
LumisSame == \A l \in DOMAIN lumis :
  lumis'[l].phase \in {"open", "end"} <=> lumis[l].phase \in {"open", "end"}

CountsKept(r) ==
  /\ runs'[r].toBegin = runs[r].toBegin /\ runs'[r].toEnd = runs[r].toEnd
  /\ runs'[r].enders = runs[r].enders
  /\ runs'[r].phase \in NotBegun <=> runs[r].phase \in NotBegun
  /\ runs'[r].phase = "closed" => runs[r].phase = "closed" \/ runs[r].enders = 0

RunCount(r) ==
  /\ runs[r].phase \in NotBegun =>
       runs[r].toBegin = N /\ runs[r].toEnd = N /\ Unfinished(r) = {}
  /\ runs[r].phase \notin NotBegun =>
       /\ runs[r].toBegin = Cardinality(Beginning(r))
       /\ runs[r].toEnd = Cardinality(Unfinished(r))
  /\ runs[r].enders = (IF runs[r].toEnd = 0 THEN 0 ELSE 1) + Cardinality(LumisOf(r))
  /\ runs[r].phase = "closed" => runs[r].enders = 0

LEMMA FiniteSets ==
  ASSUME TaskInv
  PROVE  /\ \A r : /\ IsFiniteSet(Unfinished(r)) /\ Cardinality(Unfinished(r)) \in Nat
                   /\ IsFiniteSet(Beginning(r)) /\ Cardinality(Beginning(r)) \in Nat
                   /\ IsFiniteSet(LumisOf(r)) /\ Cardinality(LumisOf(r)) \in Nat
         /\ \A l : IsFiniteSet(In(l)) /\ Cardinality(In(l)) \in Nat
<1>1. IsFiniteSet(Streams)
  BY EventProcessorAssumption
<1>2. IsFiniteSet(DOMAIN lumis)
  <2>1. IsFiniteSet(1..Len(lumis))
    BY InList, FS_Interval
  <2> QED
    BY <2>1, InList
<1>3. ASSUME NEW r
      PROVE  /\ Unfinished(r) \subseteq Streams /\ Beginning(r) \subseteq Streams
             /\ LumisOf(r) \subseteq DOMAIN lumis /\ In(r) \subseteq Streams
  BY DEF Unfinished, Beginning, LumisOf, In
<1> QED
  BY <1>1, <1>2, <1>3, FS_Subset, FS_CardinalityType

LEMMA RunSets ==
  ASSUME NEW CONSTANT r
  PROVE  /\ Unfinished(r) = {t \in Streams : UIn(t, r)}
         /\ Beginning(r) = {t \in Streams : BIn(t, r)}
         /\ Unfinished(r)' = {t \in Streams : UIn(t, r)'}
         /\ Beginning(r)' = {t \in Streams : BIn(t, r)'}
BY DEF Unfinished, Beginning, UIn, BIn

LEMMA RunSetsSame ==
  ASSUME NEW CONSTANT r, \A t \in Streams : Unmoved(t, r)
  PROVE  Unfinished(r)' = Unfinished(r) /\ Beginning(r)' = Beginning(r)
BY RunSets DEF Unmoved

LEMMA LumisOfSame ==
  ASSUME TaskInv, Forward, LumisSame, NEW CONSTANT r, r \in DOMAIN runs
  PROVE  LumisOf(r)' = LumisOf(r)
<1>1. LumisOf(r) = {l \in DOMAIN lumis : lumis[l].run = r /\ lumis[l].phase \in {"open", "end"}}
  BY DEF LumisOf
<1>2. LumisOf(r)' = {l \in DOMAIN lumis' : lumis'[l].run = r /\ lumis'[l].phase \in {"open", "end"}}
  BY DEF LumisOf
<1> QED
  BY <1>1, <1>2 DEF LumisSame, Forward

LEMMA CountsStay ==
  ASSUME TaskInv, NEW CONSTANT r, r \in DOMAIN runs, CountsKept(r),
         Unfinished(r)' = Unfinished(r), Beginning(r)' = Beginning(r), LumisOf(r)' = LumisOf(r)
  PROVE  RunCount(r)'
<1>1. RunCount(r)
  BY DEF TaskInv, RunsCounted, RunCount
<1> QED
  BY <1>1 DEF RunCount, CountsKept

LEMMA RunBegun ==
  ASSUME TaskInv, NEW CONSTANT r, r \in DOMAIN runs, runs[r].phase = "begin",
         runs'[r].phase \in Live,
         runs'[r].toBegin = runs[r].toBegin, runs'[r].toEnd = runs[r].toEnd,
         runs'[r].enders = runs[r].enders,
         \A t \in Streams : Gets(t, <<"beginRun", r>>), LumisOf(r)' = LumisOf(r)
  PROVE  RunCount(r)'
<1>1. RunCount(r)
  BY DEF TaskInv, RunsCounted, RunCount
<1>2. \A t \in Streams : Queued(t, <<"beginRun", r>>)'
  BY GetsQueued
<1>3. Unfinished(r)' = Streams /\ Beginning(r)' = Streams
  <2>1. \A t \in Streams : UIn(t, r)' /\ BIn(t, r)'
    BY <1>2 DEF UIn, BIn
  <2> QED
    BY <2>1, RunSets
<1> QED
  BY <1>1, <1>3 DEF RunCount, NotBegun, Live, N

LEMMA StreamHasBegun ==
  ASSUME TaskInv, NEW CONSTANT r, r \in DOMAIN runs, runs'[r].phase = runs[r].phase,
         runs'[r].toBegin = runs[r].toBegin - 1, runs'[r].toEnd = runs[r].toEnd,
         runs'[r].enders = runs[r].enders,
         NEW s \in Streams, s \in Beginning(r), Beginning(r)' = Beginning(r) \ {s},
         Unfinished(r)' = Unfinished(r), LumisOf(r)' = LumisOf(r)
  PROVE  RunCount(r)'
<1>1. RunCount(r)
  BY DEF TaskInv, RunsCounted, RunCount
<1>2. s \in Unfinished(r)
  BY DEF Beginning, Unfinished
<1>3. Cardinality(Beginning(r)') = Cardinality(Beginning(r)) - 1
  BY FiniteSets, FS_RemoveElement
<1> QED
  BY <1>1, <1>2, <1>3 DEF RunCount

LEMMA StreamHasEnded ==
  ASSUME TaskInv, NEW CONSTANT r, r \in DOMAIN runs, runs'[r].phase = runs[r].phase,
         runs'[r].toBegin = runs[r].toBegin, runs'[r].toEnd = runs[r].toEnd - 1,
         runs'[r].enders = IF runs[r].toEnd = 1 THEN runs[r].enders - 1 ELSE runs[r].enders,
         NEW s \in Streams, s \in Unfinished(r), Unfinished(r)' = Unfinished(r) \ {s},
         Beginning(r)' = Beginning(r), LumisOf(r)' = LumisOf(r)
  PROVE  RunCount(r)'
<1>1. RunCount(r)
  BY DEF TaskInv, RunsCounted, RunCount
<1>2. runs[r].phase \notin NotBegun
  BY <1>1 DEF RunCount
<1>3. /\ Cardinality(Unfinished(r)') = Cardinality(Unfinished(r)) - 1
      /\ Cardinality(Unfinished(r)) \in Nat /\ Cardinality(Unfinished(r)) # 0
      /\ Cardinality(LumisOf(r)) \in Nat
  BY FiniteSets, FS_RemoveElement, FS_EmptySet
<1> DEFINE u == Cardinality(Unfinished(r))
           b == Cardinality(LumisOf(r))
<1>4. /\ runs[r].toEnd = u /\ runs'[r].toEnd = u - 1 /\ Cardinality(Unfinished(r)') = u - 1
      /\ u \in Nat /\ u # 0 /\ b \in Nat
      /\ runs[r].enders = (IF u = 0 THEN 0 ELSE 1) + b
      /\ runs[r].phase = "closed" => runs[r].enders = 0
      /\ runs[r].toBegin = Cardinality(Beginning(r))
      /\ Cardinality(LumisOf(r)') = b
  BY <1>1, <1>2, <1>3 DEF RunCount
<1> HIDE DEF u, b
<1>5. runs'[r].enders = (IF runs'[r].toEnd = 0 THEN 0 ELSE 1) + b
  BY <1>4
<1>6. runs[r].phase # "closed"
  BY <1>4
<1> QED
  BY <1>2, <1>4, <1>5, <1>6 DEF RunCount

LEMMA LumiCounts ==
  ASSUME TaskInv, NEW CONSTANT r, r \in DOMAIN runs, NEW CONSTANT l,
         runs[r].phase \notin NotBegun, runs'[r].phase \notin NotBegun,
         runs'[r].phase # "closed" \/ runs'[r].phase = runs[r].phase,
         runs'[r].toBegin = runs[r].toBegin, runs'[r].toEnd = runs[r].toEnd,
         \/ /\ runs'[r].enders = runs[r].enders + 1 /\ l \notin LumisOf(r)
            /\ LumisOf(r)' = LumisOf(r) \cup {l} /\ runs'[r].phase # "closed"
         \/ /\ runs'[r].enders = runs[r].enders + (-1) /\ l \in LumisOf(r)
            /\ LumisOf(r)' = LumisOf(r) \ {l},
         Unfinished(r)' = Unfinished(r), Beginning(r)' = Beginning(r)
  PROVE  RunCount(r)'
<1>1. RunCount(r)
  BY DEF TaskInv, RunsCounted, RunCount
<1> DEFINE b == Cardinality(LumisOf(r))
           e == IF runs[r].toEnd = 0 THEN 0 ELSE 1
<1>2. b \in Nat /\ e \in {0, 1}
  BY FiniteSets
<1>3. runs[r].enders = e + b
  BY <1>1 DEF RunCount
<1>4. CASE /\ runs'[r].enders = runs[r].enders + 1 /\ l \notin LumisOf(r)
           /\ LumisOf(r)' = LumisOf(r) \cup {l} /\ runs'[r].phase # "closed"
  <2>1. Cardinality(LumisOf(r)') = b + 1
    BY <1>4, FiniteSets, FS_AddElement
  <2>2. runs'[r].enders = e + Cardinality(LumisOf(r)')
    <3> HIDE DEF b, e
    <3> QED
      BY <1>2, <1>3, <1>4, <2>1
  <2> QED
    BY <1>1, <1>4, <2>2 DEF RunCount
<1>5. CASE /\ runs'[r].enders = runs[r].enders + (-1) /\ l \in LumisOf(r)
           /\ LumisOf(r)' = LumisOf(r) \ {l}
  <2>1. Cardinality(LumisOf(r)') = b - 1 /\ b # 0
    BY <1>5, FiniteSets, FS_RemoveElement, FS_EmptySet
  <2>2. runs'[r].enders = e + Cardinality(LumisOf(r)') /\ runs[r].enders # 0
    <3> HIDE DEF b, e
    <3> QED
      BY <1>2, <1>3, <1>5, <2>1
  <2>3. runs'[r].phase # "closed"
    BY <1>1, <2>2 DEF RunCount
  <2> QED
    BY <1>1, <2>2, <2>3 DEF RunCount
<1> QED
  BY <1>4, <1>5

LEMMA UnmovedSame ==
  ASSUME NEW CONSTANT t, NEW CONSTANT r, stream'[t].queue = stream[t].queue,
         stream'[t].run = stream[t].run,
         stream'[t].doing = "beginRun" <=> stream[t].doing = "beginRun"
  PROVE  Unmoved(t, r)
BY DEF Unmoved, UIn, BIn, Queued

LEMMA UnmovedGets ==
  ASSUME TaskInv, NEW CONSTANT t \in Streams, NEW CONSTANT r, NEW CONSTANT x, Gets(t, x),
         x # <<"beginRun", r>>
  PROVE  Unmoved(t, r)
<1>1. Queued(t, <<"beginRun", r>>)' <=> Queued(t, <<"beginRun", r>>)
  BY GetsQueued
<1> QED
  BY <1>1 DEF Unmoved, UIn, BIn, Gets

LEMMA UnmovedTook ==
  ASSUME TaskInv, NEW CONSTANT s \in Streams, NEW CONSTANT r, r \in DOMAIN runs,
         BeginsRun(s) \/ EndsRun(s) \/ Joins(s) \/ Skips(s)
  PROVE  Unmoved(s, r)
<1> DEFINE x == Head(stream[s].queue)
           q == Tail(stream[s].queue)
           b == <<"beginRun", r>>
<1>1. stream[s].queue # <<>> /\ stream[s].pauses = 0
  BY DEF BeginsRun, EndsRun, Joins, Skips, Takes
<1>2. /\ stream[s].doing = "nothing"
      /\ x[1] = "beginRun" => stream[s].run = 0 /\ x[2] \in DOMAIN runs
      /\ x[1] # "beginRun" => stream[s].run # 0
      /\ x \in StreamTasks
  BY <1>1, TakeFacts
<1>3. \/ /\ x[1] = "beginRun"
         /\ stream'[s] = [run |-> x[2], lumi |-> stream[s].lumi, doing |-> "beginRun",
                          queue |-> q, pauses |-> 1]
      \/ /\ x[1] = "endRun"
         /\ stream'[s] = [run |-> stream[s].run, lumi |-> stream[s].lumi, doing |-> "endRun",
                          queue |-> q, pauses |-> 1]
      \/ /\ x[1] = "beginLumi"
         /\ stream'[s] = [run |-> stream[s].run, lumi |-> x[2], doing |-> "beginLumi",
                          queue |-> q, pauses |-> 1]
      \/ /\ x[1] = "beginLumi"
         /\ stream'[s] = [run |-> stream[s].run, lumi |-> stream[s].lumi, doing |-> stream[s].doing,
                          queue |-> q, pauses |-> 0]
  BY DEF BeginsRun, EndsRun, Joins, Skips, Takes, StreamTo
<1>4. /\ Queued(s, x)
      /\ Queued(s, b)' => Queued(s, b)
      /\ Queued(s, b) => Queued(s, b)' \/ b = x
      /\ b = x => ~Queued(s, b)'
  BY TookRule, TookQueued
<1>5. x[1] = "beginRun" => (x = b <=> x[2] = r)
  BY <1>2 DEF StreamTasks
<1>6. x = b => x[1] = "beginRun" /\ x[2] = r
  OBVIOUS
<1> HIDE DEF x, q, b
<1>7. CASE x[1] = "beginRun"
  <2>1. /\ stream'[s].run = x[2] /\ stream'[s].doing = "beginRun"
        /\ stream[s].run = 0 /\ r # 0
    BY <1>2, <1>3, <1>7, InList
  <2>2. /\ Queued(s, b) \/ stream[s].run = r <=> Queued(s, b)' \/ stream'[s].run = r
        /\ Queued(s, b) <=> Queued(s, b)' \/ stream'[s].run = r
    BY <1>4, <1>5, <1>6, <1>7, <2>1
  <2> QED
    BY <1>2, <2>1, <2>2 DEF Unmoved, UIn, BIn, b
<1>8. CASE x[1] # "beginRun"
  <2>1. /\ stream'[s].run = stream[s].run
        /\ stream'[s].doing # "beginRun"
    BY <1>2, <1>3, <1>8
  <2>2. Queued(s, b) <=> Queued(s, b)'
    BY <1>4, <1>6, <1>8
  <2> QED
    BY <1>2, <2>1, <2>2 DEF Unmoved, UIn, BIn, b
<1> QED
  BY <1>7, <1>8

LEMMA KeptCounts ==
  ASSUME NEW r, runs'[r] = runs[r]
  PROVE  CountsKept(r)
BY DEF CountsKept

LEMMA CountsStayFor ==
  ASSUME TaskInv, Change, NEW CONSTANT r, r \in DOMAIN runs, CountsKept(r), LumisSame,
         \A t \in Streams : Unmoved(t, r)
  PROVE  RunCount(r)'
BY CountsStay, RunSetsSame, LumisOfSame, GoForward

LEMMA AllCountsStay ==
  ASSUME TaskInv, Change, DOMAIN runs' = DOMAIN runs, LumisSame,
         \A r \in DOMAIN runs : CountsKept(r) /\ \A t \in Streams : Unmoved(t, r)
  PROVE  RunsCounted'
<1>1. \A r \in DOMAIN runs : RunCount(r)'
  BY CountsStayFor
<1> QED
  BY <1>1 DEF RunsCounted, RunCount

LEMMA NewRunCounts ==
  ASSUME TaskInv, NEW CONSTANT r, r \notin DOMAIN runs, r # 0, UNCHANGED lumis,
         runs'[r].phase = "sync", runs'[r].toBegin = N, runs'[r].toEnd = N, runs'[r].enders = 1,
         \A t \in Streams : stream'[t].run = stream[t].run,
         \A t \in Streams : Queued(t, <<"beginRun", r>>)' => Queued(t, <<"beginRun", r>>)
  PROVE  RunCount(r)'
<1>1. ASSUME NEW t \in Streams
      PROVE  ~UIn(t, r)'
  <2>1. ~Queued(t, <<"beginRun", r>>)
    BY DEF Queued, TaskInv, QueuesInOrder, QueueInOrder
  <2>2. stream[t].run # r
    BY PlaceFacts
  <2> QED
    BY <2>1, <2>2 DEF UIn
<1>2. Unfinished(r)' = {}
  BY <1>1, RunSets
<1>3. LumisOf(r)' = {}
  BY InList DEF LumisOf
<1>4. Cardinality(LumisOf(r)') = 0
  BY <1>3, FS_EmptySet
<1> QED
  BY <1>2, <1>4, NFacts DEF RunCount, NotBegun

LEMMA RunsCountedKept ==
  ASSUME TaskInv, Change
  PROVE  RunsCounted'
<1>1. ASSUME NEW r \in DOMAIN runs, NEW phase \in RunPhases, RunAdvances(r, phase)
      PROVE  RunsCounted'
  <2>1. DOMAIN runs' = DOMAIN runs /\ \A q \in DOMAIN runs : CountsKept(q)
    BY <1>1, InList DEF RunAdvances, RunMoves, RunTo, CountsKept, NotBegun
  <2>2. LumisSame
    BY <1>1 DEF RunAdvances, LumisSame
  <2>3. \A q \in DOMAIN runs : \A t \in Streams : Unmoved(t, q)
    BY <1>1, UnmovedSame DEF RunAdvances
  <2> QED
    BY <2>1, <2>2, <2>3, AllCountsStay
<1>2. ASSUME NEW r \in DOMAIN runs, NEW phase \in RunPhases, RunGoesOn(r, phase)
      PROVE  RunsCounted'
  <2>1. DOMAIN runs' = DOMAIN runs /\ \A q \in DOMAIN runs : CountsKept(q)
    BY <1>2, InList DEF RunGoesOn, GoesOn, RunMoves, RunTo, CountsKept, NotBegun
  <2>2. LumisSame
    BY <1>2, InList DEF RunGoesOn, GoesOn, LumiMade, LumisSame
  <2>3. \A q \in DOMAIN runs : \A t \in Streams : Unmoved(t, q)
    BY <1>2, UnmovedSame DEF RunGoesOn
  <2> QED
    BY <2>1, <2>2, <2>3, AllCountsStay
<1>3. ASSUME NEW r \in DOMAIN runs, NEW phase \in RunPhases, RunBegins(r, phase)
      PROVE  RunsCounted'
  <2>1. /\ runs[r].phase = "begin" /\ phase \in Live /\ RunMoves(runs', r, phase)
        /\ Pushed(<<"beginRun", r>>)
        /\ UNCHANGED lumis \/ LumiMade(lumis, r)
    BY <1>3 DEF RunBegins, GoesOn, Live
  <2>2. /\ DOMAIN runs' = DOMAIN runs /\ runs'[r].phase = phase
        /\ runs'[r].toBegin = runs[r].toBegin /\ runs'[r].toEnd = runs[r].toEnd
        /\ runs'[r].enders = runs[r].enders
        /\ \A q \in DOMAIN runs \ {r} : runs'[q] = runs[q]
    BY <2>1 DEF RunMoves, RunTo
  <2>3. LumisSame
    BY <2>1, InList DEF LumiMade, LumisSame
  <2>4. \A t \in Streams : Gets(t, <<"beginRun", r>>)
    BY <2>1, GetsRule
  <2>5. \A q \in DOMAIN runs \ {r} : RunCount(q)'
    <3> TAKE q \in DOMAIN runs \ {r}
    <3>1. \A t \in Streams : Unmoved(t, q)
      BY <2>4, UnmovedGets
    <3> QED
      BY <2>2, <2>3, <3>1, KeptCounts, CountsStayFor
  <2>6. RunCount(r)'
    <3>1. LumisOf(r)' = LumisOf(r)
      BY <2>3, LumisOfSame, GoForward
    <3> QED
      BY <2>1, <2>2, <2>4, <3>1, RunBegun
  <2> QED
    BY <2>2, <2>5, <2>6 DEF RunsCounted, RunCount
<1>4. ASSUME NEW r \in DOMAIN runs, NEW rs, RunEnds(r, rs)
      PROVE  RunsCounted'
  <2>1. \A q \in DOMAIN runs : CountsKept(q)
    <3>1. /\ DOMAIN rs = DOMAIN runs /\ rs[r].phase = "ending" /\ runs[r].phase = "endSync"
          /\ rs[r].toBegin = runs[r].toBegin /\ rs[r].toEnd = runs[r].toEnd
          /\ rs[r].enders = runs[r].enders
          /\ \A q \in DOMAIN runs \ {r} : rs[q] = runs[q]
      BY <1>4 DEF RunEnds, RunMoves, RunTo
    <3>2. \A q \in DOMAIN runs : runs'[q] = rs[q]
      BY <1>4, <3>1 DEF RunEnds, RunMade
    <3> QED
      BY <3>1, <3>2 DEF CountsKept, NotBegun
  <2>2. LumisSame
    BY <1>4 DEF RunEnds, LumisSame
  <2>3. \A q \in DOMAIN runs : \A t \in Streams : Unmoved(t, q)
    BY <1>4, GetsRule, UnmovedGets DEF RunEnds
  <2>4. \A q \in DOMAIN runs : RunCount(q)'
    BY <2>1, <2>2, <2>3, CountsStayFor
  <2>5. \A q \in DOMAIN runs' \ DOMAIN runs : RunCount(q)'
    <3> TAKE q \in DOMAIN runs' \ DOMAIN runs
    <3>1. /\ q # 0 /\ runs'[q].phase = "sync" /\ runs'[q].toBegin = N /\ runs'[q].toEnd = N
          /\ runs'[q].enders = 1
      <4>1. DOMAIN rs = DOMAIN runs /\ IsList(rs)
        BY <1>4 DEF RunEnds, RunMoves, RunTo
      <4>2. RunMade(rs) /\ q = Len(rs) + 1
        BY <1>4, <4>1 DEF RunEnds, RunMade
      <4> QED
        BY <4>1, <4>2, ListFacts DEF RunMade
    <3>2. \A t \in Streams : /\ stream'[t].run = stream[t].run
                             /\ Queued(t, <<"beginRun", q>>)' => Queued(t, <<"beginRun", q>>)
      <4>1. \A t \in Streams : Gets(t, <<"endRun", r>>)
        BY <1>4, GetsRule DEF RunEnds
      <4> QED
        BY <4>1, GetsQueued DEF Gets
    <3> QED
      BY <1>4, <3>1, <3>2, NewRunCounts DEF RunEnds
  <2> QED
    BY <2>4, <2>5 DEF RunsCounted, RunCount
<1>5. ASSUME NEW l \in DOMAIN lumis, NEW phase \in LumiPhases, LumiAdvances(l, phase)
      PROVE  RunsCounted'
  <2>1. DOMAIN runs' = DOMAIN runs /\ \A q \in DOMAIN runs : CountsKept(q)
    BY <1>5, KeptCounts DEF LumiAdvances
  <2>2. LumisSame
    BY <1>5 DEF LumiAdvances, LumiMoves, LumiTo, LumisSame
  <2>3. \A q \in DOMAIN runs : \A t \in Streams : Unmoved(t, q)
    BY <1>5, UnmovedSame DEF LumiAdvances
  <2> QED
    BY <2>1, <2>2, <2>3, AllCountsStay
<1>6. ASSUME NEW l \in DOMAIN lumis, LumiDropped(l)
      PROVE  RunsCounted'
  <2> DEFINE r == lumis[l].run
  <2>0. /\ r \in DOMAIN runs /\ runs[r].phase = "open" /\ runs'[r].phase = "endSync"
        /\ DOMAIN runs' = DOMAIN runs
        /\ runs'[r].toBegin = runs[r].toBegin /\ runs'[r].toEnd = runs[r].toEnd
        /\ runs'[r].enders = runs[r].enders
        /\ \A q \in DOMAIN runs \ {r} : runs'[q] = runs[q]
    BY <1>6, CurrentFacts DEF LumiDropped, Current, Coming, RunMoves, RunTo
  <2> HIDE DEF r
  <2>1. DOMAIN runs' = DOMAIN runs /\ \A q \in DOMAIN runs : CountsKept(q)
    BY <2>0 DEF CountsKept, NotBegun
  <2>2. LumisSame
    BY <1>6 DEF LumiDropped, LumiMoves, LumiTo, LumisSame
  <2>3. \A q \in DOMAIN runs : \A t \in Streams : Unmoved(t, q)
    BY <1>6, UnmovedSame DEF LumiDropped
  <2> QED
    BY <2>1, <2>2, <2>3, AllCountsStay
<1>7. ASSUME NEW l \in DOMAIN lumis, LumiUnbegun(l)
      PROVE  RunsCounted'
  <2>0. PICK r \in DOMAIN runs : r = lumis[l].run
    BY InList
  <2>1. /\ r \in DOMAIN runs /\ runs[r].phase \notin NotBegun
        /\ runs'[r].phase \notin NotBegun /\ runs'[r].phase # "closed"
        /\ DOMAIN runs' = DOMAIN runs
        /\ runs'[r].toBegin = runs[r].toBegin /\ runs'[r].toEnd = runs[r].toEnd
        /\ runs'[r].enders = runs[r].enders + 1
        /\ \A q \in DOMAIN runs \ {r} : runs'[q] = runs[q]
    BY <1>7, <2>0, InList, CurrentFacts DEF LumiUnbegun, Current, Coming, Counts, RunTo, NotBegun, TaskInv, LumisInTurn
  <2>2. /\ DOMAIN lumis' = DOMAIN lumis /\ r = lumis[l].run /\ lumis'[l].run = r
        /\ lumis[l].phase \notin {"open", "end"} /\ lumis'[l].phase = "end"
        /\ \A k \in DOMAIN lumis \ {l} : lumis'[k] = lumis[k]
    BY <1>7, <2>0 DEF LumiUnbegun, LumiMoves, LumiTo
  <2>3. \A q \in DOMAIN runs : \A t \in Streams : Unmoved(t, q)
    BY <1>7, UnmovedSame DEF LumiUnbegun
  <2>4. \A q \in DOMAIN runs : Unfinished(q)' = Unfinished(q) /\ Beginning(q)' = Beginning(q)
    BY <2>3, RunSetsSame
  <2>5. /\ l \notin LumisOf(r) /\ LumisOf(r)' = LumisOf(r) \cup {l}
        /\ \A q \in DOMAIN runs \ {r} : LumisOf(q)' = LumisOf(q)
    BY <2>2 DEF LumisOf
  <2>6. \A q \in DOMAIN runs \ {r} : RunCount(q)'
    BY <2>1, <2>4, <2>5, KeptCounts, CountsStay
  <2>7. RunCount(r)'
    BY <2>1, <2>4, <2>5, LumiCounts
  <2> QED
    BY <2>1, <2>6, <2>7 DEF RunsCounted, RunCount
<1>8. ASSUME NEW l \in DOMAIN lumis, LumiBegins(l)
      PROVE  RunsCounted'
  <2>0. PICK r \in DOMAIN runs : r = lumis[l].run
    BY InList
  <2>1. /\ r \in DOMAIN runs /\ runs[r].phase \notin NotBegun
        /\ runs'[r].phase \notin NotBegun /\ runs'[r].phase # "closed"
        /\ DOMAIN runs' = DOMAIN runs
        /\ runs'[r].toBegin = runs[r].toBegin /\ runs'[r].toEnd = runs[r].toEnd
        /\ runs'[r].enders = runs[r].enders + 1
        /\ \A q \in DOMAIN runs \ {r} : runs'[q] = runs[q]
    BY <1>8, <2>0, InList, CurrentFacts DEF LumiBegins, Current, Coming, Counts, RunTo, NotBegun, TaskInv, LumisInTurn
  <2>2. /\ DOMAIN lumis' = DOMAIN lumis /\ r = lumis[l].run /\ lumis'[l].run = r
        /\ lumis[l].phase \notin {"open", "end"} /\ lumis'[l].phase = "open"
        /\ \A k \in DOMAIN lumis \ {l} : lumis'[k] = lumis[k]
    BY <1>8, <2>0 DEF LumiBegins, LumiMoves, LumiTo
  <2>3. \A q \in DOMAIN runs : \A t \in Streams : Unmoved(t, q)
    BY <1>8, GetsRule, UnmovedGets DEF LumiBegins
  <2>4. \A q \in DOMAIN runs : Unfinished(q)' = Unfinished(q) /\ Beginning(q)' = Beginning(q)
    BY <2>3, RunSetsSame
  <2>5. /\ l \notin LumisOf(r) /\ LumisOf(r)' = LumisOf(r) \cup {l}
        /\ \A q \in DOMAIN runs \ {r} : LumisOf(q)' = LumisOf(q)
    BY <2>2 DEF LumisOf
  <2>6. \A q \in DOMAIN runs \ {r} : RunCount(q)'
    BY <2>1, <2>4, <2>5, KeptCounts, CountsStay
  <2>7. RunCount(r)'
    BY <2>1, <2>4, <2>5, LumiCounts
  <2> QED
    BY <2>1, <2>6, <2>7 DEF RunsCounted, RunCount
<1>9. ASSUME NEW l \in DOMAIN lumis, LumiEnds(l)
      PROVE  RunsCounted'
  <2>0. PICK r \in DOMAIN runs : r = lumis[l].run
    BY InList
  <2>1. /\ r \in DOMAIN runs /\ runs[r].phase \notin NotBegun
        /\ runs'[r].phase \notin NotBegun /\ runs'[r].phase = runs[r].phase
        /\ DOMAIN runs' = DOMAIN runs
        /\ runs'[r].toBegin = runs[r].toBegin /\ runs'[r].toEnd = runs[r].toEnd
        /\ runs'[r].enders = runs[r].enders + (-1)
        /\ \A q \in DOMAIN runs \ {r} : runs'[q] = runs[q]
    BY <1>9, <2>0, InList, CurrentFacts DEF LumiEnds, Current, Coming, Counts, RunTo, NotBegun, TaskInv, LumisInTurn
  <2>2. /\ DOMAIN lumis' = DOMAIN lumis /\ r = lumis[l].run /\ lumis'[l].run = r
        /\ lumis[l].phase = "end" /\ lumis'[l].phase = "closed"
        /\ \A k \in DOMAIN lumis \ {l} : lumis'[k] = lumis[k]
    BY <1>9, <2>0 DEF LumiEnds, LumiMoves, LumiTo
  <2>3. \A q \in DOMAIN runs : \A t \in Streams : Unmoved(t, q)
    BY <1>9, UnmovedSame DEF LumiEnds
  <2>4. \A q \in DOMAIN runs : Unfinished(q)' = Unfinished(q) /\ Beginning(q)' = Beginning(q)
    BY <2>3, RunSetsSame
  <2>5. /\ l \in LumisOf(r) /\ LumisOf(r)' = LumisOf(r) \ {l}
        /\ \A q \in DOMAIN runs \ {r} : LumisOf(q)' = LumisOf(q)
    BY <2>2 DEF LumisOf
  <2>6. \A q \in DOMAIN runs \ {r} : RunCount(q)'
    BY <2>1, <2>4, <2>5, KeptCounts, CountsStay
  <2>7. RunCount(r)'
    BY <2>1, <2>4, <2>5, LumiCounts
  <2> QED
    BY <2>1, <2>6, <2>7 DEF RunsCounted, RunCount
<1>10. ASSUME NEW s \in Streams, BeginsRun(s)
      PROVE  RunsCounted'
  <2>1. DOMAIN runs' = DOMAIN runs /\ \A q \in DOMAIN runs : CountsKept(q)
    BY <1>10, KeptCounts DEF BeginsRun, Takes
  <2>2. LumisSame
    BY <1>10 DEF BeginsRun, LumisSame
  <2>3. \A q \in DOMAIN runs : \A t \in Streams : Unmoved(t, q)
    BY <1>10, UnmovedTook, UnmovedSame DEF BeginsRun, StreamTo
  <2> QED
    BY <2>1, <2>2, <2>3, AllCountsStay
<1>11. ASSUME NEW s \in Streams, EndsRun(s)
      PROVE  RunsCounted'
  <2>1. DOMAIN runs' = DOMAIN runs /\ \A q \in DOMAIN runs : CountsKept(q)
    BY <1>11, KeptCounts DEF EndsRun, Takes
  <2>2. LumisSame
    BY <1>11 DEF EndsRun, LumisSame
  <2>3. \A q \in DOMAIN runs : \A t \in Streams : Unmoved(t, q)
    BY <1>11, UnmovedTook, UnmovedSame DEF EndsRun, StreamTo
  <2> QED
    BY <2>1, <2>2, <2>3, AllCountsStay
<1>12. ASSUME NEW s \in Streams, Joins(s)
      PROVE  RunsCounted'
  <2>1. DOMAIN runs' = DOMAIN runs /\ \A q \in DOMAIN runs : CountsKept(q)
    BY <1>12, KeptCounts DEF Joins, Takes
  <2>2. LumisSame
    BY <1>12, InList, TakeFacts, HeadFacts DEF Joins, Takes, LumiTo, LumisSame
  <2>3. \A q \in DOMAIN runs : \A t \in Streams : Unmoved(t, q)
    BY <1>12, UnmovedTook, UnmovedSame DEF Joins, StreamTo
  <2> QED
    BY <2>1, <2>2, <2>3, AllCountsStay
<1>13. ASSUME NEW s \in Streams, Skips(s)
      PROVE  RunsCounted'
  <2>1. DOMAIN runs' = DOMAIN runs /\ \A q \in DOMAIN runs : CountsKept(q)
    BY <1>13, KeptCounts DEF Skips, Takes
  <2>2. LumisSame
    BY <1>13 DEF Skips, LumisSame
  <2>3. \A q \in DOMAIN runs : \A t \in Streams : Unmoved(t, q)
    BY <1>13, UnmovedTook, UnmovedSame DEF Skips, StreamTo
  <2> QED
    BY <2>1, <2>2, <2>3, AllCountsStay
<1>14. ASSUME NEW s \in Streams, HasBegun(s)
      PROVE  RunsCounted'
  <2>0. PICK r \in DOMAIN runs : r = stream[s].run
    BY <1>14, PlaceFacts DEF HasBegun, HasEnded
  <2>1. /\ r \in DOMAIN runs /\ DOMAIN runs' = DOMAIN runs /\ UNCHANGED lumis
        /\ runs'[r].phase = runs[r].phase
        /\ runs'[r].toBegin = runs[r].toBegin - 1 /\ runs'[r].toEnd = runs[r].toEnd
        /\ runs'[r].enders = runs[r].enders
        /\ \A q \in DOMAIN runs \ {r} : runs'[q] = runs[q]
    BY <1>14, <2>0 DEF HasBegun, RunTo
  <2>2. /\ r = stream[s].run /\ stream'[s].run = r /\ stream'[s].queue = stream[s].queue
        /\ stream[s].doing = "beginRun" /\ stream'[s].doing = "nothing" /\ r # 0
        /\ \A t \in Streams \ {s} : stream'[t] = stream[t]
    BY <1>14, <2>0, <2>1, InList DEF HasBegun, StreamTo
  <2>3. ~Queued(s, <<"beginRun", r>>)
    BY <2>2 DEF TaskInv, BegunOnce, Queued
  <2>4. /\ \A q \in DOMAIN runs : Queued(s, <<"beginRun", q>>)' <=> Queued(s, <<"beginRun", q>>)
        /\ Queued(s, <<"beginRun", r>>)' <=> Queued(s, <<"beginRun", r>>)
    BY <2>2 DEF Queued
  <2>5. \A q \in DOMAIN runs : \A t \in Streams \ {s} : Unmoved(t, q)
    BY <2>2, UnmovedSame
  <2>6. \A q \in DOMAIN runs \ {r} : Unmoved(s, q)
    BY <2>2, <2>4, InList DEF Unmoved, UIn, BIn
  <2>7. LumisSame
    BY <2>1 DEF LumisSame
  <2>8. \A q \in DOMAIN runs \ {r} : RunCount(q)'
    BY <2>1, <2>5, <2>6, <2>7, KeptCounts, CountsStayFor
  <2>9. /\ s \in Beginning(r) /\ Beginning(r)' = Beginning(r) \ {s}
        /\ Unfinished(r)' = Unfinished(r)
    <3>1. /\ UIn(s, r) /\ BIn(s, r)
          /\ UIn(s, r)' /\ ~BIn(s, r)'
      BY <2>2, <2>3, <2>4 DEF UIn, BIn
    <3>2. \A t \in Streams \ {s} : /\ UIn(t, r)' <=> UIn(t, r)
                                   /\ BIn(t, r)' <=> BIn(t, r)
      BY <2>1, <2>5 DEF Unmoved
    <3>3. /\ Unfinished(r) = {t \in Streams : UIn(t, r)}
          /\ Beginning(r) = {t \in Streams : BIn(t, r)}
          /\ Unfinished(r)' = {t \in Streams : UIn(t, r)'}
          /\ Beginning(r)' = {t \in Streams : BIn(t, r)'}
      BY RunSets
    <3> QED
      BY <3>1, <3>2, <3>3
  <2>10. LumisOf(r)' = LumisOf(r)
    BY <2>1, <2>7, LumisOfSame, GoForward
  <2>11. RunCount(r)'
    BY <2>1, <2>9, <2>10, StreamHasBegun
  <2> QED
    BY <2>1, <2>8, <2>11 DEF RunsCounted, RunCount
<1>15. ASSUME NEW s \in Streams, HasEnded(s)
      PROVE  RunsCounted'
  <2>0. PICK r \in DOMAIN runs : r = stream[s].run
    BY <1>15, PlaceFacts DEF HasBegun, HasEnded
  <2>1. /\ r \in DOMAIN runs /\ DOMAIN runs' = DOMAIN runs /\ UNCHANGED lumis
        /\ runs'[r].phase = runs[r].phase
        /\ runs'[r].toBegin = runs[r].toBegin /\ runs'[r].toEnd = runs[r].toEnd - 1
        /\ runs'[r].enders = IF runs[r].toEnd = 1 THEN runs[r].enders - 1 ELSE runs[r].enders
        /\ \A q \in DOMAIN runs \ {r} : runs'[q] = runs[q]
    BY <1>15, <2>0 DEF HasEnded, RunTo
  <2>2. /\ r = stream[s].run /\ stream'[s].run = 0 /\ stream'[s].queue = stream[s].queue
        /\ stream[s].doing = "endRun" /\ stream'[s].doing = "nothing" /\ r # 0
        /\ \A t \in Streams \ {s} : stream'[t] = stream[t]
    BY <1>15, <2>0, <2>1, InList DEF HasEnded, StreamTo
  <2>3. ~Queued(s, <<"beginRun", r>>)
    BY <2>2 DEF TaskInv, BegunOnce, Queued
  <2>4. /\ \A q \in DOMAIN runs : Queued(s, <<"beginRun", q>>)' <=> Queued(s, <<"beginRun", q>>)
        /\ Queued(s, <<"beginRun", r>>)' <=> Queued(s, <<"beginRun", r>>)
    BY <2>2 DEF Queued
  <2>5. \A q \in DOMAIN runs : \A t \in Streams \ {s} : Unmoved(t, q)
    BY <2>2, UnmovedSame
  <2>6. \A q \in DOMAIN runs \ {r} : Unmoved(s, q)
    BY <2>2, <2>4, InList DEF Unmoved, UIn, BIn
  <2>7. LumisSame
    BY <2>1 DEF LumisSame
  <2>8. \A q \in DOMAIN runs \ {r} : RunCount(q)'
    BY <2>1, <2>5, <2>6, <2>7, KeptCounts, CountsStayFor
  <2>9. /\ s \in Unfinished(r) /\ Unfinished(r)' = Unfinished(r) \ {s}
        /\ Beginning(r)' = Beginning(r)
    <3>1. /\ UIn(s, r) /\ ~BIn(s, r)
          /\ ~UIn(s, r)' /\ ~BIn(s, r)'
      BY <2>2, <2>3, <2>4 DEF UIn, BIn
    <3>2. \A t \in Streams \ {s} : /\ UIn(t, r)' <=> UIn(t, r)
                                   /\ BIn(t, r)' <=> BIn(t, r)
      BY <2>1, <2>5 DEF Unmoved
    <3>3. /\ Unfinished(r) = {t \in Streams : UIn(t, r)}
          /\ Beginning(r) = {t \in Streams : BIn(t, r)}
          /\ Unfinished(r)' = {t \in Streams : UIn(t, r)'}
          /\ Beginning(r)' = {t \in Streams : BIn(t, r)'}
      BY RunSets
    <3> QED
      BY <3>1, <3>2, <3>3
  <2>10. LumisOf(r)' = LumisOf(r)
    BY <2>1, <2>7, LumisOfSame, GoForward
  <2>11. RunCount(r)'
    BY <2>1, <2>9, <2>10, StreamHasEnded
  <2> QED
    BY <2>1, <2>8, <2>11 DEF RunsCounted, RunCount
<1>16. ASSUME NEW s \in Streams, NEW doing \in Doings, Does(s, doing)
      PROVE  RunsCounted'
  <2>1. DOMAIN runs' = DOMAIN runs /\ \A q \in DOMAIN runs : CountsKept(q)
    BY <1>16, KeptCounts DEF Does
  <2>2. LumisSame
    BY <1>16 DEF Does, LumisSame
  <2>3. \A q \in DOMAIN runs : \A t \in Streams : Unmoved(t, q)
    BY <1>16, PlaceFacts, UnmovedSame DEF Does, StreamDoes, StreamTo
  <2> QED
    BY <2>1, <2>2, <2>3, AllCountsStay
<1>17. ASSUME NEW s \in Streams, Pauses(s)
      PROVE  RunsCounted'
  <2> DEFINE r == lumis[stream[s].lumi].run
  <2>0. /\ r \in DOMAIN runs /\ runs'[r].phase = runs[r].phase
        /\ DOMAIN runs' = DOMAIN runs
        /\ runs'[r].toBegin = runs[r].toBegin /\ runs'[r].toEnd = runs[r].toEnd
        /\ runs'[r].enders = runs[r].enders
        /\ \A q \in DOMAIN runs \ {r} : runs'[q] = runs[q]
    BY <1>17, StopsFacts, InList DEF Pauses, RunMoves, RunTo
  <2> HIDE DEF r
  <2>1. DOMAIN runs' = DOMAIN runs /\ \A q \in DOMAIN runs : CountsKept(q)
    BY <2>0 DEF CountsKept, NotBegun
  <2>2. LumisSame
    BY <1>17 DEF Pauses, LumiTo, LumisSame
  <2>3. \A q \in DOMAIN runs : \A t \in Streams : Unmoved(t, q)
    BY <1>17, UnmovedSame DEF Pauses, StreamDoes, StreamTo
  <2> QED
    BY <2>1, <2>2, <2>3, AllCountsStay
<1>18. ASSUME NEW s \in Streams, Leaves(s)
      PROVE  RunsCounted'
  <2>1. DOMAIN runs' = DOMAIN runs /\ \A q \in DOMAIN runs : CountsKept(q)
    BY <1>18, KeptCounts DEF Leaves
  <2>2. LumisSame
    BY <1>18, InFacts, PlaceFacts, InList DEF Leaves, LumiTo, LumisSame
  <2>3. \A q \in DOMAIN runs : \A t \in Streams : Unmoved(t, q)
    BY <1>18, PlaceFacts, UnmovedSame DEF Leaves, StreamTo
  <2> QED
    BY <2>1, <2>2, <2>3, AllCountsStay
<1>19. ASSUME NEW s \in Streams, NEW ls, Stops(s, ls)
      PROVE  RunsCounted'
  <2> DEFINE r == lumis[stream[s].lumi].run
  <2>0. \/ UNCHANGED runs
        \/ /\ r \in DOMAIN runs /\ runs[r].phase = "open" /\ runs'[r].phase = "endSync"
           /\ DOMAIN runs' = DOMAIN runs
           /\ runs'[r].toBegin = runs[r].toBegin /\ runs'[r].toEnd = runs[r].toEnd
           /\ runs'[r].enders = runs[r].enders
           /\ \A q \in DOMAIN runs \ {r} : runs'[q] = runs[q]
    BY <1>19, StopsFacts, CurrentFacts DEF Stops, RunMoves, RunTo
  <2> HIDE DEF r
  <2>1. DOMAIN runs' = DOMAIN runs /\ \A q \in DOMAIN runs : CountsKept(q)
    BY <2>0 DEF CountsKept, NotBegun
  <2>2. LumisSame
    BY <1>19, StopsFacts DEF Stops, LumiTo, LumiMade, LumisSame
  <2>3. \A q \in DOMAIN runs : \A t \in Streams : Unmoved(t, q)
    BY <1>19, UnmovedSame DEF Stops, StreamDoes, StreamTo
  <2> QED
    BY <2>1, <2>2, <2>3, AllCountsStay
<1>20. CASE MakesRun
  <2>1. \A q \in DOMAIN runs : CountsKept(q)
    BY <1>20, KeptCounts DEF MakesRun, RunMade
  <2>2. LumisSame
    BY <1>20 DEF MakesRun, LumisSame
  <2>3. \A q \in DOMAIN runs : \A t \in Streams : Unmoved(t, q)
    BY <1>20, UnmovedSame DEF MakesRun
  <2>4. \A q \in DOMAIN runs : RunCount(q)'
    BY <2>1, <2>2, <2>3, CountsStayFor
  <2>5. \A q \in DOMAIN runs' \ DOMAIN runs : RunCount(q)'
    <3> TAKE q \in DOMAIN runs' \ DOMAIN runs
    <3>1. /\ q # 0 /\ runs'[q].phase = "sync" /\ runs'[q].toBegin = N /\ runs'[q].toEnd = N
          /\ runs'[q].enders = 1
      <4>1. RunMade(runs) /\ q = Len(runs) + 1
        BY <1>20 DEF MakesRun, RunMade
      <4> QED
        BY <4>1, InList DEF RunMade
    <3>2. \A t \in Streams : /\ stream'[t].run = stream[t].run
                             /\ Queued(t, <<"beginRun", q>>)' => Queued(t, <<"beginRun", q>>)
      BY <1>20 DEF MakesRun, Queued
    <3> QED
      BY <1>20, <3>1, <3>2, NewRunCounts DEF MakesRun
  <2> QED
    BY <2>4, <2>5 DEF RunsCounted, RunCount
<1>21. ASSUME NEW l \in DOMAIN lumis, Resumes(l)
      PROVE  RunsCounted'
  <2>1. DOMAIN runs' = DOMAIN runs /\ \A q \in DOMAIN runs : CountsKept(q)
    BY <1>21, InList DEF Resumes, RunMoves, RunTo, CountsKept
  <2>2. LumisSame
    BY <1>21 DEF Resumes, LumiTo, LumisSame
  <2>3. \A q \in DOMAIN runs : \A t \in Streams : Unmoved(t, q)
    <3>1. \A t \in Streams : /\ stream'[t].queue = stream[t].queue
                             /\ stream'[t].doing \in {"nothing", "resume", "endLumi"}
                             /\ stream'[t].run = stream[t].run
      <4>1. CASE UNCHANGED stream
        BY <1>21, <4>1 DEF Resumes, Idle
      <4>2. CASE StreamsDo("resume")
        BY <4>2, AllDo
      <4> QED
        BY <1>21, <4>1, <4>2 DEF Resumes
    <3>2. \A t \in Streams : stream[t].doing = "nothing"
      BY <1>21 DEF Resumes, Idle
    <3> QED
      BY <3>1, <3>2, UnmovedSame
  <2> QED
    BY <2>1, <2>2, <2>3, AllCountsStay
<1>22. ASSUME NEW l \in DOMAIN lumis, CallsOff(l)
      PROVE  RunsCounted'
  <2>1. DOMAIN runs' = DOMAIN runs /\ \A q \in DOMAIN runs : CountsKept(q)
    BY <1>22, KeptCounts DEF CallsOff
  <2>2. LumisSame
    BY <1>22 DEF CallsOff, LumiTo, LumisSame
  <2>3. \A q \in DOMAIN runs : \A t \in Streams : Unmoved(t, q)
    <3>1. \A t \in Streams : /\ stream'[t].queue = stream[t].queue
                             /\ stream'[t].doing \in {"nothing", "resume", "endLumi"}
                             /\ stream'[t].run = stream[t].run
      BY <1>22, InList DEF CallsOff, StreamsDo, StreamRecords
    <3>2. \A t \in Streams : stream[t].doing = "nothing"
      BY <1>22 DEF CallsOff, Idle
    <3> QED
      BY <3>1, <3>2, UnmovedSame
  <2> QED
    BY <2>1, <2>2, <2>3, AllCountsStay
<1>23. CASE UNCHANGED <<runs, lumis, stream>>
  <2>1. DOMAIN runs' = DOMAIN runs /\ \A q \in DOMAIN runs : CountsKept(q)
    BY <1>23, KeptCounts
  <2>2. LumisSame
    BY <1>23 DEF LumisSame
  <2>3. \A q \in DOMAIN runs : \A t \in Streams : Unmoved(t, q)
    BY <1>23, UnmovedSame
  <2> QED
    BY <2>1, <2>2, <2>3, AllCountsStay
<1> QED
  BY <1>1, <1>2, <1>3, <1>4, <1>5, <1>6, <1>7, <1>8, <1>9, <1>10, <1>11, <1>12,
     <1>13, <1>14, <1>15, <1>16, <1>17, <1>18, <1>19, <1>20, <1>21, <1>22, <1>23 DEF
     Change, RunChange, LumiChange, StreamChange

-----------------------------------------------------------------------------
(* The counts of a luminosity block.                                       *)
LumiCount(l) ==
  /\ lumis[l].phase \in Coming => lumis[l].joined = 0
  /\ lumis[l].phase # "open" => In(l) = {}
  /\ lumis[l].phase = "open" /\ ~lumis[l].noMore => lumis[l].joined = Cardinality(In(l))
  /\ lumis[l].phase = "open" /\ lumis[l].noMore =>
       lumis[l].toEnd = Cardinality(In(l)) /\ In(l) # {}

LumiKept(l) ==
  /\ lumis'[l].phase = lumis[l].phase /\ lumis'[l].noMore = lumis[l].noMore
  /\ lumis'[l].joined = lumis[l].joined /\ lumis'[l].toEnd = lumis[l].toEnd

LumiNew(l) == lumis'[l].phase = "sync" /\ lumis'[l].joined = 0

LEMMA InSame ==
  ASSUME NEW CONSTANT l, \A t \in Streams : stream'[t].lumi = l <=> stream[t].lumi = l
  PROVE  In(l)' = In(l)
BY DEF In

LEMMA LumiCountStays ==
  ASSUME TaskInv, NEW CONSTANT l, l \in DOMAIN lumis, LumiKept(l), In(l)' = In(l)
  PROVE  LumiCount(l)'
BY DEF TaskInv, LumisCounted, LumiCount, LumiKept

LEMMA LumiCountStarts ==
  ASSUME TaskInv, NEW CONSTANT l, l \notin DOMAIN lumis, l # 0, LumiNew(l), In(l)' = In(l)
  PROVE  LumiCount(l)'
<1>1. In(l) = {}
  BY PlaceFacts DEF In
<1> QED
  BY <1>1 DEF LumiCount, LumiNew

LEMMA LumiCountsStay ==
  ASSUME TaskInv, Change, \A l \in DOMAIN lumis : LumiKept(l),
         \A l \in DOMAIN lumis' \ DOMAIN lumis : LumiNew(l),
         \A t \in Streams : stream'[t].lumi = stream[t].lumi
  PROVE  LumisCounted'
<1>1. \A l \in DOMAIN lumis : LumiCount(l)'
  BY InSame, LumiCountStays
<1>2. \A l \in DOMAIN lumis' \ DOMAIN lumis : LumiCount(l)'
  <2>1. 0 \notin DOMAIN lumis'
    BY RecordsKept, ListFacts DEF RecordTypes
  <2> QED
    BY <2>1, InSame, LumiCountStarts
<1> QED
  BY <1>1, <1>2 DEF LumisCounted, LumiCount

LEMMA LumisCountedKept ==
  ASSUME TaskInv, Change
  PROVE  LumisCounted'
<1>1. ASSUME NEW r \in DOMAIN runs, NEW phase \in RunPhases, RunAdvances(r, phase)
      PROVE  LumisCounted'
  <2>1. \A k \in DOMAIN lumis : LumiKept(k)
    BY <1>1 DEF RunAdvances, LumiKept
  <2>2. \A k \in DOMAIN lumis' \ DOMAIN lumis : LumiNew(k)
    BY <1>1 DEF RunAdvances
  <2>3. \A t \in Streams : stream'[t].lumi = stream[t].lumi
    BY <1>1 DEF RunAdvances
  <2> QED
    BY <2>1, <2>2, <2>3, LumiCountsStay
<1>2. ASSUME NEW r \in DOMAIN runs, NEW phase \in RunPhases, RunGoesOn(r, phase)
      PROVE  LumisCounted'
  <2>1. \A k \in DOMAIN lumis : LumiKept(k)
    BY <1>2 DEF RunGoesOn, GoesOn, LumiMade, LumiKept
  <2>2. \A k \in DOMAIN lumis' \ DOMAIN lumis : LumiNew(k)
    BY <1>2 DEF RunGoesOn, GoesOn, LumiMade, LumiNew
  <2>3. \A t \in Streams : stream'[t].lumi = stream[t].lumi
    BY <1>2 DEF RunGoesOn
  <2> QED
    BY <2>1, <2>2, <2>3, LumiCountsStay
<1>3. ASSUME NEW r \in DOMAIN runs, NEW phase \in RunPhases, RunBegins(r, phase)
      PROVE  LumisCounted'
  <2>1. \A k \in DOMAIN lumis : LumiKept(k)
    BY <1>3 DEF RunBegins, GoesOn, LumiMade, LumiKept
  <2>2. \A k \in DOMAIN lumis' \ DOMAIN lumis : LumiNew(k)
    BY <1>3 DEF RunBegins, GoesOn, LumiMade, LumiNew
  <2>3. \A t \in Streams : stream'[t].lumi = stream[t].lumi
    BY <1>3, GetsRule DEF RunBegins
  <2> QED
    BY <2>1, <2>2, <2>3, LumiCountsStay
<1>4. ASSUME NEW r \in DOMAIN runs, NEW rs, RunEnds(r, rs)
      PROVE  LumisCounted'
  <2>1. \A k \in DOMAIN lumis : LumiKept(k)
    BY <1>4 DEF RunEnds, LumiKept
  <2>2. \A k \in DOMAIN lumis' \ DOMAIN lumis : LumiNew(k)
    BY <1>4 DEF RunEnds
  <2>3. \A t \in Streams : stream'[t].lumi = stream[t].lumi
    BY <1>4, GetsRule DEF RunEnds
  <2> QED
    BY <2>1, <2>2, <2>3, LumiCountsStay
<1>5. ASSUME NEW l \in DOMAIN lumis, NEW phase \in LumiPhases, LumiAdvances(l, phase)
      PROVE  LumisCounted'
  <2>1. /\ DOMAIN lumis' = DOMAIN lumis /\ l \in DOMAIN lumis
        /\ \A k \in DOMAIN lumis \ {l} : lumis'[k] = lumis[k]
        /\ \A t \in Streams : stream'[t].lumi = stream[t].lumi
    BY <1>5 DEF LumiAdvances, LumiMoves, LumiTo
  <2>2. \A k \in DOMAIN lumis : In(k)' = In(k)
    BY <2>1, InSame
  <2>3. LumiCount(l)
    BY <2>1 DEF TaskInv, LumisCounted, LumiCount
  <2>4. LumiCount(l)'
    BY <1>5, <2>2, <2>3 DEF LumiAdvances, LumiMoves, LumiTo, LumiCount, Coming
  <2>5. \A k \in DOMAIN lumis \ {l} : LumiCount(k)'
    BY <2>1, <2>2, LumiCountStays DEF LumiKept
  <2> QED
    BY <2>1, <2>4, <2>5 DEF LumisCounted, LumiCount
<1>6. ASSUME NEW l \in DOMAIN lumis, LumiDropped(l)
      PROVE  LumisCounted'
  <2>1. /\ DOMAIN lumis' = DOMAIN lumis /\ l \in DOMAIN lumis
        /\ \A k \in DOMAIN lumis \ {l} : lumis'[k] = lumis[k]
        /\ \A t \in Streams : stream'[t].lumi = stream[t].lumi
    BY <1>6 DEF LumiDropped, LumiMoves, LumiTo
  <2>2. \A k \in DOMAIN lumis : In(k)' = In(k)
    BY <2>1, InSame
  <2>3. LumiCount(l)
    BY <2>1 DEF TaskInv, LumisCounted, LumiCount
  <2>4. LumiCount(l)'
    BY <1>6, <2>2, <2>3 DEF LumiDropped, LumiMoves, LumiTo, LumiCount, Coming
  <2>5. \A k \in DOMAIN lumis \ {l} : LumiCount(k)'
    BY <2>1, <2>2, LumiCountStays DEF LumiKept
  <2> QED
    BY <2>1, <2>4, <2>5 DEF LumisCounted, LumiCount
<1>7. ASSUME NEW l \in DOMAIN lumis, LumiUnbegun(l)
      PROVE  LumisCounted'
  <2>1. /\ DOMAIN lumis' = DOMAIN lumis /\ l \in DOMAIN lumis
        /\ \A k \in DOMAIN lumis \ {l} : lumis'[k] = lumis[k]
        /\ \A t \in Streams : stream'[t].lumi = stream[t].lumi
    BY <1>7 DEF LumiUnbegun, LumiMoves, LumiTo
  <2>2. \A k \in DOMAIN lumis : In(k)' = In(k)
    BY <2>1, InSame
  <2>3. LumiCount(l)
    BY <2>1 DEF TaskInv, LumisCounted, LumiCount
  <2>4. LumiCount(l)'
    BY <1>7, <2>2, <2>3 DEF LumiUnbegun, LumiMoves, LumiTo, LumiCount, Coming
  <2>5. \A k \in DOMAIN lumis \ {l} : LumiCount(k)'
    BY <2>1, <2>2, LumiCountStays DEF LumiKept
  <2> QED
    BY <2>1, <2>4, <2>5 DEF LumisCounted, LumiCount
<1>8. ASSUME NEW l \in DOMAIN lumis, LumiBegins(l)
      PROVE  LumisCounted'
  <2>1. /\ DOMAIN lumis' = DOMAIN lumis /\ l \in DOMAIN lumis
        /\ \A k \in DOMAIN lumis \ {l} : lumis'[k] = lumis[k]
        /\ \A t \in Streams : stream'[t].lumi = stream[t].lumi
    BY <1>8, GetsRule DEF LumiBegins, LumiMoves, LumiTo
  <2>2. \A k \in DOMAIN lumis : In(k)' = In(k)
    BY <2>1, InSame
  <2>3. LumiCount(l)
    BY <2>1 DEF TaskInv, LumisCounted, LumiCount
  <2>4. LumiCount(l)'
    <3>1. ~lumis[l].noMore
      BY <1>8 DEF LumiBegins, TaskInv, LumisJoined, Coming
    <3> QED
      BY <1>8, <2>2, <2>3, <3>1, FS_EmptySet DEF LumiBegins, LumiMoves, LumiTo, LumiCount, Coming
  <2>5. \A k \in DOMAIN lumis \ {l} : LumiCount(k)'
    BY <2>1, <2>2, LumiCountStays DEF LumiKept
  <2> QED
    BY <2>1, <2>4, <2>5 DEF LumisCounted, LumiCount
<1>9. ASSUME NEW l \in DOMAIN lumis, LumiEnds(l)
      PROVE  LumisCounted'
  <2>1. /\ DOMAIN lumis' = DOMAIN lumis /\ l \in DOMAIN lumis
        /\ \A k \in DOMAIN lumis \ {l} : lumis'[k] = lumis[k]
        /\ \A t \in Streams : stream'[t].lumi = stream[t].lumi
    BY <1>9 DEF LumiEnds, LumiMoves, LumiTo
  <2>2. \A k \in DOMAIN lumis : In(k)' = In(k)
    BY <2>1, InSame
  <2>3. LumiCount(l)
    BY <2>1 DEF TaskInv, LumisCounted, LumiCount
  <2>4. LumiCount(l)'
    BY <1>9, <2>2, <2>3 DEF LumiEnds, LumiMoves, LumiTo, LumiCount, Coming
  <2>5. \A k \in DOMAIN lumis \ {l} : LumiCount(k)'
    BY <2>1, <2>2, LumiCountStays DEF LumiKept
  <2> QED
    BY <2>1, <2>4, <2>5 DEF LumisCounted, LumiCount
<1>10. ASSUME NEW s \in Streams, BeginsRun(s)
      PROVE  LumisCounted'
  <2>1. \A k \in DOMAIN lumis : LumiKept(k)
    BY <1>10 DEF BeginsRun, LumiKept
  <2>2. \A k \in DOMAIN lumis' \ DOMAIN lumis : LumiNew(k)
    BY <1>10 DEF BeginsRun
  <2>3. \A t \in Streams : stream'[t].lumi = stream[t].lumi
    BY <1>10, InList DEF BeginsRun, StreamTo
  <2> QED
    BY <2>1, <2>2, <2>3, LumiCountsStay
<1>11. ASSUME NEW s \in Streams, EndsRun(s)
      PROVE  LumisCounted'
  <2>1. \A k \in DOMAIN lumis : LumiKept(k)
    BY <1>11 DEF EndsRun, LumiKept
  <2>2. \A k \in DOMAIN lumis' \ DOMAIN lumis : LumiNew(k)
    BY <1>11 DEF EndsRun
  <2>3. \A t \in Streams : stream'[t].lumi = stream[t].lumi
    BY <1>11, InList DEF EndsRun, StreamTo
  <2> QED
    BY <2>1, <2>2, <2>3, LumiCountsStay
<1>12. ASSUME NEW s \in Streams, Joins(s)
      PROVE  LumisCounted'
  <2> DEFINE x == Head(stream[s].queue)
  <2>0. PICK l \in DOMAIN lumis : l = x[2]
    BY <1>12, TakeFacts DEF Joins, Takes
  <2>1. /\ stream[s].queue # <<>> /\ stream[s].pauses = 0 /\ x[1] = "beginLumi" /\ x[2] = l
        /\ ~lumis[l].noMore /\ x = Head(stream[s].queue)
        /\ LumiTo(lumis', l, lumis[l].phase, lumis[l].noMore, lumis[l].state, lumis[l].started,
                  lumis[l].joined + 1, lumis[l].toEnd)
        /\ stream'[s].lumi = l
        /\ \A t \in Streams \ {s} : stream'[t] = stream[t]
    BY <1>12, <2>0 DEF Joins, Takes, StreamTo
  <2>2. stream[s].lumi = 0 /\ x \in StreamTasks
    <3>1. stream[s].lumi = 0
      BY <2>1 DEF TaskInv, StreamsPlaced, InPlace
    <3> QED
      BY <2>1, <3>1, HeadFacts
  <2>3. x = <<"beginLumi", l>>
    BY <2>1, <2>2 DEF StreamTasks
  <2>4. Queued(s, <<"beginLumi", l>>)
    BY <2>1, <2>3, HeadFacts DEF Queued
  <2> HIDE DEF x
  <2>5. lumis[l].phase = "open"
    BY <2>1, <2>4 DEF TaskInv, LumisJoined
  <2>6. LumiCount(l)
    BY DEF TaskInv, LumisCounted, LumiCount
  <2>7. s \notin In(l) /\ In(l)' = In(l) \cup {s}
    BY <2>1, <2>2, InList DEF In
  <2>8. Cardinality(In(l)') = Cardinality(In(l)) + 1
    BY <2>7, FiniteSets, FS_AddElement
  <2>9. LumiCount(l)'
    BY <2>1, <2>5, <2>6, <2>8 DEF LumiCount, LumiTo, Coming
  <2>10. \A k \in DOMAIN lumis \ {l} : LumiCount(k)'
    <3>1. \A k \in DOMAIN lumis \ {l} : In(k)' = In(k)
      BY <2>1, <2>2, InList, InSame
    <3> QED
      BY <2>1, <3>1, LumiCountStays DEF LumiKept, LumiTo
  <2> QED
    BY <2>1, <2>9, <2>10 DEF LumisCounted, LumiCount, LumiTo
<1>13. ASSUME NEW s \in Streams, Skips(s)
      PROVE  LumisCounted'
  <2>1. \A k \in DOMAIN lumis : LumiKept(k)
    BY <1>13 DEF Skips, LumiKept
  <2>2. \A k \in DOMAIN lumis' \ DOMAIN lumis : LumiNew(k)
    BY <1>13 DEF Skips
  <2>3. \A t \in Streams : stream'[t].lumi = stream[t].lumi
    BY <1>13, InList DEF Skips, StreamTo
  <2> QED
    BY <2>1, <2>2, <2>3, LumiCountsStay
<1>14. ASSUME NEW s \in Streams, HasBegun(s)
      PROVE  LumisCounted'
  <2>1. \A k \in DOMAIN lumis : LumiKept(k)
    BY <1>14 DEF HasBegun, LumiKept
  <2>2. \A k \in DOMAIN lumis' \ DOMAIN lumis : LumiNew(k)
    BY <1>14 DEF HasBegun
  <2>3. \A t \in Streams : stream'[t].lumi = stream[t].lumi
    BY <1>14, InList DEF HasBegun, StreamTo
  <2> QED
    BY <2>1, <2>2, <2>3, LumiCountsStay
<1>15. ASSUME NEW s \in Streams, HasEnded(s)
      PROVE  LumisCounted'
  <2>1. \A k \in DOMAIN lumis : LumiKept(k)
    BY <1>15 DEF HasEnded, LumiKept
  <2>2. \A k \in DOMAIN lumis' \ DOMAIN lumis : LumiNew(k)
    BY <1>15 DEF HasEnded
  <2>3. \A t \in Streams : stream'[t].lumi = stream[t].lumi
    BY <1>15, InList DEF HasEnded, StreamTo
  <2> QED
    BY <2>1, <2>2, <2>3, LumiCountsStay
<1>16. ASSUME NEW s \in Streams, NEW doing \in Doings, Does(s, doing)
      PROVE  LumisCounted'
  <2>1. \A k \in DOMAIN lumis : LumiKept(k)
    BY <1>16 DEF Does, LumiKept
  <2>2. \A k \in DOMAIN lumis' \ DOMAIN lumis : LumiNew(k)
    BY <1>16 DEF Does
  <2>3. \A t \in Streams : stream'[t].lumi = stream[t].lumi
    BY <1>16 DEF Does, StreamDoes, StreamTo
  <2> QED
    BY <2>1, <2>2, <2>3, LumiCountsStay
<1>17. ASSUME NEW s \in Streams, Pauses(s)
      PROVE  LumisCounted'
  <2>1. \A k \in DOMAIN lumis : LumiKept(k)
    BY <1>17 DEF Pauses, LumiTo, LumiKept
  <2>2. \A k \in DOMAIN lumis' \ DOMAIN lumis : LumiNew(k)
    BY <1>17 DEF Pauses, LumiTo
  <2>3. \A t \in Streams : stream'[t].lumi = stream[t].lumi
    BY <1>17 DEF Pauses, StreamDoes, StreamTo
  <2> QED
    BY <2>1, <2>2, <2>3, LumiCountsStay
<1>18. ASSUME NEW s \in Streams, Leaves(s)
      PROVE  LumisCounted'
  <2>0. PICK l \in DOMAIN lumis : l = stream[s].lumi
    BY <1>18, PlaceFacts DEF Leaves
  <2> DEFINE f == IF lumis[l].toEnd = 1 THEN "end" ELSE lumis[l].phase
  <2>1. /\ LumiTo(lumis', l, f, lumis[l].noMore, lumis[l].state, lumis[l].started,
                  lumis[l].joined, lumis[l].toEnd - 1)
        /\ stream[s].lumi = l /\ stream[s].doing = "endLumi" /\ l # 0
        /\ stream'[s].lumi = 0
        /\ \A t \in Streams \ {s} : stream'[t] = stream[t]
    BY <1>18, <2>0, InList DEF Leaves, StreamTo
  <2>2. lumis[l].phase = "open" /\ lumis[l].noMore /\ s \in In(l)
    BY <2>1, InFacts DEF TaskInv, LumisJoined
  <2>3. LumiCount(l)
    BY DEF TaskInv, LumisCounted, LumiCount
  <2>4. In(l)' = In(l) \ {s}
    BY <2>1 DEF In
  <2>5. /\ Cardinality(In(l)') = Cardinality(In(l)) - 1
        /\ Cardinality(In(l)) \in Nat
        /\ Cardinality(In(l)') = 0 <=> In(l)' = {}
    <3>1. IsFiniteSet(In(l)')
      BY <2>4, FiniteSets, FS_RemoveElement
    <3> QED
      BY <2>2, <2>4, <3>1, FiniteSets, FS_RemoveElement, FS_EmptySet
  <2>6. LumiCount(l)'
    <3>1. /\ lumis'[l].phase = f /\ lumis'[l].noMore /\ lumis'[l].toEnd = lumis[l].toEnd - 1
          /\ lumis[l].toEnd = Cardinality(In(l))
      BY <2>1, <2>2, <2>3 DEF LumiTo, LumiCount
    <3>2. CASE lumis[l].toEnd = 1
      BY <2>5, <3>1, <3>2 DEF LumiCount, Coming
    <3>3. CASE lumis[l].toEnd # 1
      BY <2>2, <2>5, <3>1, <3>3 DEF LumiCount, Coming
    <3> QED
      BY <3>2, <3>3
  <2>7. \A k \in DOMAIN lumis \ {l} : LumiCount(k)'
    <3>1. \A k \in DOMAIN lumis \ {l} : In(k)' = In(k)
      BY <2>1, InList, InSame
    <3> QED
      BY <2>1, <3>1, LumiCountStays DEF LumiKept, LumiTo
  <2> QED
    BY <2>1, <2>6, <2>7 DEF LumisCounted, LumiCount, LumiTo
<1>19. ASSUME NEW s \in Streams, NEW ls, Stops(s, ls)
      PROVE  LumisCounted'
  <2>0. PICK l \in DOMAIN lumis : l = stream[s].lumi
    BY <1>19, StopsFacts DEF Stops
  <2>1. /\ LumiTo(ls, l, lumis[l].phase, TRUE, "stop", TRUE, lumis[l].joined, lumis[l].joined)
        /\ stream[s].lumi = l /\ stream[s].doing = "next"
        /\ \A t \in Streams : stream'[t].lumi = stream[t].lumi
        /\ \/ LumiMade(ls, lumis[l].run)
           \/ lumis' = ls
    <3>1. \A t \in Streams : stream'[t].lumi = stream[t].lumi
      BY <1>19 DEF Stops, StreamDoes, StreamTo
    <3> QED
      BY <1>19, <2>0, <3>1 DEF Stops
  <2>2. lumis[l].phase = "open" /\ ~lumis[l].noMore /\ s \in In(l)
    BY <1>19, <2>0, <2>1, StopsFacts DEF Stops, In
  <2>3. LumiCount(l)
    BY DEF TaskInv, LumisCounted, LumiCount
  <2>4. \A k : In(k)' = In(k)
    BY <2>1 DEF In
  <2>5. LumiCount(l)'
    BY <2>1, <2>2, <2>3, <2>4 DEF LumiTo, LumiCount, Coming, LumiMade
  <2>6. \A k \in DOMAIN lumis \ {l} : LumiCount(k)'
    BY <2>1, <2>4, LumiCountStays DEF LumiKept, LumiTo, LumiMade
  <2>7. \A k \in DOMAIN lumis' \ DOMAIN lumis : LumiCount(k)'
    <3>1. \A k \in DOMAIN lumis' \ DOMAIN lumis : LumiNew(k)
      BY <2>1 DEF LumiMade, LumiTo, LumiNew
    <3>2. 0 \notin DOMAIN lumis'
      BY RecordsKept, ListFacts DEF RecordTypes
    <3> QED
      BY <2>4, <3>1, <3>2, LumiCountStarts
  <2> QED
    BY <2>5, <2>6, <2>7 DEF LumisCounted, LumiCount
<1>20. CASE MakesRun
  <2>1. \A k \in DOMAIN lumis : LumiKept(k)
    BY <1>20 DEF MakesRun, LumiKept
  <2>2. \A k \in DOMAIN lumis' \ DOMAIN lumis : LumiNew(k)
    BY <1>20 DEF MakesRun
  <2>3. \A t \in Streams : stream'[t].lumi = stream[t].lumi
    BY <1>20 DEF MakesRun
  <2> QED
    BY <2>1, <2>2, <2>3, LumiCountsStay
<1>21. ASSUME NEW l \in DOMAIN lumis, Resumes(l)
      PROVE  LumisCounted'
  <2>1. \A k \in DOMAIN lumis : LumiKept(k)
    BY <1>21 DEF Resumes, LumiTo, LumiKept
  <2>2. \A k \in DOMAIN lumis' \ DOMAIN lumis : LumiNew(k)
    BY <1>21 DEF Resumes, LumiTo
  <2>3. \A t \in Streams : stream'[t].lumi = stream[t].lumi
    <3>1. CASE UNCHANGED stream
      BY <3>1
    <3>2. CASE StreamsDo("resume")
      BY <3>2, AllDo
    <3> QED
      BY <1>21, <3>1, <3>2 DEF Resumes
  <2> QED
    BY <2>1, <2>2, <2>3, LumiCountsStay
<1>22. ASSUME NEW l \in DOMAIN lumis, CallsOff(l)
      PROVE  LumisCounted'
  <2>0. PICK s \in Streams : TRUE
    BY EventProcessorAssumption
  <2>1. /\ LumiTo(lumis', l, lumis[l].phase, TRUE, lumis[l].state, lumis[l].started,
                  lumis[l].joined, lumis[l].joined)
        /\ stream[s].lumi = l /\ stream[s].doing = "nothing" /\ l # 0
        /\ \A t \in Streams : stream'[t].lumi = stream[t].lumi
    <3>1. \A t \in Streams : stream'[t].lumi = stream[t].lumi
      BY <1>22, InList DEF CallsOff, StreamsDo, StreamRecords
    <3>2. stream[s].lumi = l /\ stream[s].doing = "nothing" /\ l # 0
      BY <1>22, <2>0, InList DEF CallsOff, Idle
    <3> QED
      BY <1>22, <3>1, <3>2 DEF CallsOff
  <2>2. lumis[l].phase = "open" /\ ~lumis[l].noMore /\ s \in In(l)
    BY <2>1, InFacts DEF TaskInv, LumisJoined
  <2>3. LumiCount(l)
    BY DEF TaskInv, LumisCounted, LumiCount
  <2>4. \A k : In(k)' = In(k)
    BY <2>1 DEF In
  <2>5. LumiCount(l)'
    BY <2>1, <2>2, <2>3, <2>4 DEF LumiTo, LumiCount, Coming
  <2>6. \A k \in DOMAIN lumis \ {l} : LumiCount(k)'
    BY <2>1, <2>4, LumiCountStays DEF LumiKept, LumiTo
  <2> QED
    BY <2>1, <2>5, <2>6 DEF LumisCounted, LumiCount, LumiTo
<1>23. CASE UNCHANGED <<runs, lumis, stream>>
  <2>1. \A k \in DOMAIN lumis : LumiKept(k)
    BY <1>23 DEF LumiKept
  <2>2. \A k \in DOMAIN lumis' \ DOMAIN lumis : LumiNew(k)
    BY <1>23
  <2>3. \A t \in Streams : stream'[t].lumi = stream[t].lumi
    BY <1>23
  <2> QED
    BY <2>1, <2>2, <2>3, LumiCountsStay
<1> QED
  BY <1>1, <1>2, <1>3, <1>4, <1>5, <1>6, <1>7, <1>8, <1>9, <1>10, <1>11, <1>12,
     <1>13, <1>14, <1>15, <1>16, <1>17, <1>18, <1>19, <1>20, <1>21, <1>22, <1>23 DEF
     Change, RunChange, LumiChange, StreamChange

(* Who may still join a luminosity block, and who has left it.             *)
LumiJoin(l) ==
  /\ lumis[l].phase \in Coming => ~lumis[l].noMore
  /\ lumis[l].started => lumis[l].noMore /\ lumis[l].state = "stop"
  /\ lumis[l].phase = "open" /\ ~lumis[l].noMore =>
       \A s \in Streams : stream[s].lumi = l \/ Queued(s, <<"beginLumi", l>>)
  /\ \A s \in Streams : Queued(s, <<"beginLumi", l>>) =>
       /\ lumis[l].phase \in {"open", "end", "closed"}
       /\ ~lumis[l].noMore => lumis[l].phase = "open"
  /\ \A s \in In(l) :
       /\ lumis[l].noMore /\ ~lumis[l].started => stream[s].doing = "endLumi"
       /\ stream[s].doing = "endLumi" => lumis[l].noMore
       /\ stream[s].doing = "nothing" => /\ ~lumis[l].noMore
                                         /\ lumis[l].state = "pause" \/ Idle(l)

StreamKeeps(t, l) ==
  /\ stream'[t].lumi = l <=> stream[t].lumi = l
  /\ stream[t].lumi = l => stream'[t].doing = stream[t].doing
  /\ Queued(t, <<"beginLumi", l>>)' <=> Queued(t, <<"beginLumi", l>>)

JoinKept(l) ==
  /\ lumis'[l].phase = lumis[l].phase /\ lumis'[l].noMore = lumis[l].noMore
  /\ lumis'[l].started = lumis[l].started /\ lumis'[l].state = lumis[l].state

NewJoin(l) == lumis'[l].phase = "sync" /\ ~lumis'[l].noMore /\ ~lumis'[l].started

LEMMA JoinFacts ==
  ASSUME TaskInv, NEW l \in DOMAIN lumis
  PROVE  LumiJoin(l)
BY DEF TaskInv, LumisJoined, LumiJoin

LEMMA InKept ==
  ASSUME NEW CONSTANT l, \A t \in Streams : StreamKeeps(t, l)
  PROVE  /\ In(l)' = In(l)
         /\ \A t \in In(l) : stream'[t].doing = stream[t].doing
         /\ Idle(l) => Idle(l)'
BY DEF In, StreamKeeps, Idle

LEMMA JoinStays ==
  ASSUME TaskInv, NEW CONSTANT l, l \in DOMAIN lumis, JoinKept(l),
         \A t \in Streams : StreamKeeps(t, l)
  PROVE  LumiJoin(l)'
<1>1. LumiJoin(l)
  BY JoinFacts
<1>2. /\ In(l)' = In(l)
      /\ \A t \in In(l) : stream'[t].doing = stream[t].doing
      /\ Idle(l) => Idle(l)'
  BY InKept
<1>3. /\ lumis'[l].phase \in Coming => ~lumis'[l].noMore
      /\ lumis'[l].started => lumis'[l].noMore /\ lumis'[l].state = "stop"
  BY <1>1 DEF LumiJoin, JoinKept
<1>4. lumis'[l].phase = "open" /\ ~lumis'[l].noMore =>
        \A s \in Streams : stream'[s].lumi = l \/ Queued(s, <<"beginLumi", l>>)'
  BY <1>1 DEF LumiJoin, JoinKept, StreamKeeps
<1>5. \A s \in Streams : Queued(s, <<"beginLumi", l>>)' =>
       /\ lumis'[l].phase \in {"open", "end", "closed"}
       /\ ~lumis'[l].noMore => lumis'[l].phase = "open"
  BY <1>1 DEF LumiJoin, JoinKept, StreamKeeps
<1>6. \A s \in In(l)' :
        /\ lumis'[l].noMore /\ ~lumis'[l].started => stream'[s].doing = "endLumi"
        /\ stream'[s].doing = "endLumi" => lumis'[l].noMore
        /\ stream'[s].doing = "nothing" => ~lumis'[l].noMore /\ (lumis'[l].state = "pause" \/ Idle(l)')
  BY <1>1, <1>2 DEF LumiJoin, JoinKept
<1> QED
  BY <1>3, <1>4, <1>5, <1>6 DEF LumiJoin

LEMMA NotQueued ==
  ASSUME TaskInv, NEW t \in Streams, NEW l, l \notin DOMAIN lumis
  PROVE  ~Queued(t, <<"beginLumi", l>>)
BY DEF Queued, TaskInv, QueuesInOrder, QueueInOrder

LEMMA JoinStarts ==
  ASSUME TaskInv, NEW CONSTANT l, l \notin DOMAIN lumis, l # 0, NewJoin(l),
         \A t \in Streams : StreamKeeps(t, l)
  PROVE  LumiJoin(l)'
<1>1. In(l)' = {}
  BY InKept, PlaceFacts DEF In
<1>2. \A t \in Streams : ~Queued(t, <<"beginLumi", l>>)'
  BY NotQueued DEF StreamKeeps
<1> QED
  BY <1>1, <1>2 DEF LumiJoin, NewJoin

LEMMA NoZero ==
  ASSUME TaskInv, Change
  PROVE  0 \notin DOMAIN lumis /\ 0 \notin DOMAIN lumis'
BY RecordsKept, InList, ListFacts DEF RecordTypes

LEMMA JoinsStay ==
  ASSUME TaskInv, Change, \A l \in DOMAIN lumis : JoinKept(l),
         \A l \in DOMAIN lumis' \ DOMAIN lumis : NewJoin(l),
         \A l \in DOMAIN lumis' : \A t \in Streams : StreamKeeps(t, l)
  PROVE  LumisJoined'
<1>1. \A l \in DOMAIN lumis : LumiJoin(l)'
  BY JoinStays, GoForward DEF Forward
<1>2. \A l \in DOMAIN lumis' \ DOMAIN lumis : LumiJoin(l)'
  BY JoinStarts, NoZero
<1> QED
  BY <1>1, <1>2 DEF LumisJoined, LumiJoin

LEMMA KeepsSame ==
  ASSUME NEW CONSTANT t, NEW CONSTANT l, l # 0,
         stream'[t].queue = stream[t].queue, stream'[t].lumi = stream[t].lumi,
         stream[t].lumi = 0 \/ stream'[t].doing = stream[t].doing
  PROVE  StreamKeeps(t, l)
BY DEF StreamKeeps, Queued

LEMMA KeepsGets ==
  ASSUME TaskInv, NEW CONSTANT t \in Streams, NEW CONSTANT l, NEW CONSTANT x, Gets(t, x),
         stream'[t].lumi = stream[t].lumi, x # <<"beginLumi", l>>
  PROVE  StreamKeeps(t, l)
<1>1. Queued(t, <<"beginLumi", l>>)' <=> Queued(t, <<"beginLumi", l>>)
  BY GetsQueued
<1> QED
  BY <1>1 DEF StreamKeeps, Gets

LEMMA KeepsTook ==
  ASSUME TaskInv, NEW CONSTANT s \in Streams, NEW CONSTANT l, l # 0, Took(s),
         Head(stream[s].queue) # <<"beginLumi", l>>, stream'[s].lumi # l
  PROVE  StreamKeeps(s, l)
<1>1. Queued(s, <<"beginLumi", l>>)' <=> Queued(s, <<"beginLumi", l>>)
  BY TookQueued
<1>2. stream[s].lumi = 0
  BY TakeFacts DEF Took
<1> QED
  BY <1>1, <1>2 DEF StreamKeeps

LEMMA LumisJoinedKept ==
  ASSUME TaskInv, Change
  PROVE  LumisJoined'
<1>1. ASSUME NEW r \in DOMAIN runs, NEW phase \in RunPhases, RunAdvances(r, phase)
      PROVE  LumisJoined'
  <2>1. \A k \in DOMAIN lumis : JoinKept(k)
    BY <1>1 DEF RunAdvances, JoinKept
  <2>2. \A k \in DOMAIN lumis' \ DOMAIN lumis : NewJoin(k)
    BY <1>1 DEF RunAdvances
  <2>3. \A k \in DOMAIN lumis' : \A t \in Streams : StreamKeeps(t, k)
    BY <1>1, KeepsSame, NoZero DEF RunAdvances
  <2> QED
    BY <2>1, <2>2, <2>3, JoinsStay
<1>2. ASSUME NEW r \in DOMAIN runs, NEW phase \in RunPhases, RunGoesOn(r, phase)
      PROVE  LumisJoined'
  <2>1. \A k \in DOMAIN lumis : JoinKept(k)
    BY <1>2 DEF RunGoesOn, GoesOn, LumiMade, JoinKept
  <2>2. \A k \in DOMAIN lumis' \ DOMAIN lumis : NewJoin(k)
    BY <1>2 DEF RunGoesOn, GoesOn, LumiMade, NewJoin
  <2>3. \A k \in DOMAIN lumis' : \A t \in Streams : StreamKeeps(t, k)
    BY <1>2, KeepsSame, NoZero DEF RunGoesOn
  <2> QED
    BY <2>1, <2>2, <2>3, JoinsStay
<1>3. ASSUME NEW r \in DOMAIN runs, NEW phase \in RunPhases, RunBegins(r, phase)
      PROVE  LumisJoined'
  <2>1. \A k \in DOMAIN lumis : JoinKept(k)
    BY <1>3 DEF RunBegins, GoesOn, LumiMade, JoinKept
  <2>2. \A k \in DOMAIN lumis' \ DOMAIN lumis : NewJoin(k)
    BY <1>3 DEF RunBegins, GoesOn, LumiMade, NewJoin
  <2>3. \A k \in DOMAIN lumis' : \A t \in Streams : StreamKeeps(t, k)
    BY <1>3, GetsRule, KeepsGets DEF RunBegins
  <2> QED
    BY <2>1, <2>2, <2>3, JoinsStay
<1>4. ASSUME NEW r \in DOMAIN runs, NEW rs, RunEnds(r, rs)
      PROVE  LumisJoined'
  <2>1. \A k \in DOMAIN lumis : JoinKept(k)
    BY <1>4 DEF RunEnds, JoinKept
  <2>2. \A k \in DOMAIN lumis' \ DOMAIN lumis : NewJoin(k)
    BY <1>4 DEF RunEnds
  <2>3. \A k \in DOMAIN lumis' : \A t \in Streams : StreamKeeps(t, k)
    BY <1>4, GetsRule, KeepsGets DEF RunEnds
  <2> QED
    BY <2>1, <2>2, <2>3, JoinsStay
<1>5. ASSUME NEW l \in DOMAIN lumis, NEW phase \in LumiPhases, LumiAdvances(l, phase)
      PROVE  LumisJoined'
  <2>1. /\ DOMAIN lumis' = DOMAIN lumis
        /\ \A k \in DOMAIN lumis \ {l} : lumis'[k] = lumis[k]
        /\ lumis'[l].noMore = lumis[l].noMore /\ lumis'[l].started = lumis[l].started
        /\ lumis'[l].state = lumis[l].state /\ UNCHANGED stream
    BY <1>5 DEF LumiAdvances, LumiMoves, LumiTo
  <2>2. \A k \in DOMAIN lumis : \A t \in Streams : StreamKeeps(t, k)
    BY <2>1, KeepsSame, NoZero
  <2>3. LumiJoin(l)
    BY JoinFacts
  <2>4. In(l)' = {}
    <3>1. lumis[l].phase # "open"
      BY <1>5 DEF LumiAdvances
    <3>2. In(l) = {}
      BY <3>1 DEF TaskInv, LumisCounted
    <3>3. In(l)' = In(l)
      BY <2>1 DEF In
    <3> QED
      BY <3>2, <3>3
  <2>5. \A t \in Streams : Queued(t, <<"beginLumi", l>>)' <=> Queued(t, <<"beginLumi", l>>)
    BY <2>2 DEF StreamKeeps
  <2>6. LumiJoin(l)'
    BY <1>5, <2>1, <2>3, <2>4, <2>5 DEF LumiAdvances, LumiMoves, LumiTo, LumiJoin, Coming
  <2>7. \A k \in DOMAIN lumis \ {l} : LumiJoin(k)'
    BY <2>1, <2>2, JoinStays DEF JoinKept
  <2> QED
    BY <2>1, <2>6, <2>7 DEF LumisJoined, LumiJoin
<1>6. ASSUME NEW l \in DOMAIN lumis, LumiDropped(l)
      PROVE  LumisJoined'
  <2>1. /\ DOMAIN lumis' = DOMAIN lumis
        /\ \A k \in DOMAIN lumis \ {l} : lumis'[k] = lumis[k]
        /\ lumis'[l].noMore = lumis[l].noMore /\ lumis'[l].started = lumis[l].started
        /\ lumis'[l].state = lumis[l].state /\ UNCHANGED stream
    BY <1>6 DEF LumiDropped, LumiMoves, LumiTo
  <2>2. \A k \in DOMAIN lumis : \A t \in Streams : StreamKeeps(t, k)
    BY <2>1, KeepsSame, NoZero
  <2>3. LumiJoin(l)
    BY JoinFacts
  <2>4. In(l)' = {}
    <3>1. lumis[l].phase # "open"
      BY <1>6 DEF LumiDropped
    <3>2. In(l) = {}
      BY <3>1 DEF TaskInv, LumisCounted
    <3>3. In(l)' = In(l)
      BY <2>1 DEF In
    <3> QED
      BY <3>2, <3>3
  <2>5. \A t \in Streams : Queued(t, <<"beginLumi", l>>)' <=> Queued(t, <<"beginLumi", l>>)
    BY <2>2 DEF StreamKeeps
  <2>6. LumiJoin(l)'
    BY <1>6, <2>1, <2>3, <2>4, <2>5 DEF LumiDropped, LumiMoves, LumiTo, LumiJoin, Coming
  <2>7. \A k \in DOMAIN lumis \ {l} : LumiJoin(k)'
    BY <2>1, <2>2, JoinStays DEF JoinKept
  <2> QED
    BY <2>1, <2>6, <2>7 DEF LumisJoined, LumiJoin
<1>7. ASSUME NEW l \in DOMAIN lumis, LumiUnbegun(l)
      PROVE  LumisJoined'
  <2>1. /\ DOMAIN lumis' = DOMAIN lumis
        /\ \A k \in DOMAIN lumis \ {l} : lumis'[k] = lumis[k]
        /\ lumis'[l].noMore = lumis[l].noMore /\ lumis'[l].started = lumis[l].started
        /\ lumis'[l].state = lumis[l].state /\ UNCHANGED stream
    BY <1>7 DEF LumiUnbegun, LumiMoves, LumiTo
  <2>2. \A k \in DOMAIN lumis : \A t \in Streams : StreamKeeps(t, k)
    BY <2>1, KeepsSame, NoZero
  <2>3. LumiJoin(l)
    BY JoinFacts
  <2>4. In(l)' = {}
    <3>1. lumis[l].phase # "open"
      BY <1>7 DEF LumiUnbegun
    <3>2. In(l) = {}
      BY <3>1 DEF TaskInv, LumisCounted
    <3>3. In(l)' = In(l)
      BY <2>1 DEF In
    <3> QED
      BY <3>2, <3>3
  <2>5. \A t \in Streams : Queued(t, <<"beginLumi", l>>)' <=> Queued(t, <<"beginLumi", l>>)
    BY <2>2 DEF StreamKeeps
  <2>6. LumiJoin(l)'
    BY <1>7, <2>1, <2>3, <2>4, <2>5 DEF LumiUnbegun, LumiMoves, LumiTo, LumiJoin, Coming
  <2>7. \A k \in DOMAIN lumis \ {l} : LumiJoin(k)'
    BY <2>1, <2>2, JoinStays DEF JoinKept
  <2> QED
    BY <2>1, <2>6, <2>7 DEF LumisJoined, LumiJoin
<1>8. ASSUME NEW l \in DOMAIN lumis, LumiBegins(l)
      PROVE  LumisJoined'
  <2>1. /\ DOMAIN lumis' = DOMAIN lumis
        /\ \A k \in DOMAIN lumis \ {l} : lumis'[k] = lumis[k]
        /\ lumis'[l].noMore = lumis[l].noMore /\ lumis'[l].started = lumis[l].started
        /\ lumis'[l].state = lumis[l].state
        /\ lumis[l].phase = "begin" /\ lumis'[l].phase = "open"
    BY <1>8 DEF LumiBegins, LumiMoves, LumiTo
  <2>2. \A t \in Streams : Gets(t, <<"beginLumi", l>>) /\ stream'[t].lumi = stream[t].lumi
    BY <1>8, GetsRule DEF LumiBegins
  <2>3. \A k \in DOMAIN lumis \ {l} : \A t \in Streams : StreamKeeps(t, k)
    BY <2>2, KeepsGets
  <2>4. In(l) = {}
    BY <2>1 DEF TaskInv, LumisCounted
  <2>5. In(l)' = {}
    BY <2>2, <2>4, InSame
  <2>6. \A t \in Streams : Queued(t, <<"beginLumi", l>>)'
    BY <2>2, GetsQueued
  <2>7. LumiJoin(l)
    BY JoinFacts
  <2>8. LumiJoin(l)'
    BY <2>1, <2>5, <2>6, <2>7 DEF LumiJoin, Coming
  <2>9. \A k \in DOMAIN lumis \ {l} : LumiJoin(k)'
    BY <2>1, <2>3, JoinStays DEF JoinKept
  <2> QED
    BY <2>1, <2>8, <2>9 DEF LumisJoined, LumiJoin
<1>9. ASSUME NEW l \in DOMAIN lumis, LumiEnds(l)
      PROVE  LumisJoined'
  <2>1. /\ DOMAIN lumis' = DOMAIN lumis
        /\ \A k \in DOMAIN lumis \ {l} : lumis'[k] = lumis[k]
        /\ lumis'[l].noMore = lumis[l].noMore /\ lumis'[l].started = lumis[l].started
        /\ lumis'[l].state = lumis[l].state /\ UNCHANGED stream
    BY <1>9 DEF LumiEnds, LumiMoves, LumiTo
  <2>2. \A k \in DOMAIN lumis : \A t \in Streams : StreamKeeps(t, k)
    BY <2>1, KeepsSame, NoZero
  <2>3. LumiJoin(l)
    BY JoinFacts
  <2>4. In(l)' = {}
    <3>1. lumis[l].phase # "open"
      BY <1>9 DEF LumiEnds
    <3>2. In(l) = {}
      BY <3>1 DEF TaskInv, LumisCounted
    <3>3. In(l)' = In(l)
      BY <2>1 DEF In
    <3> QED
      BY <3>2, <3>3
  <2>5. \A t \in Streams : Queued(t, <<"beginLumi", l>>)' <=> Queued(t, <<"beginLumi", l>>)
    BY <2>2 DEF StreamKeeps
  <2>6. LumiJoin(l)'
    BY <1>9, <2>1, <2>3, <2>4, <2>5 DEF LumiEnds, LumiMoves, LumiTo, LumiJoin, Coming
  <2>7. \A k \in DOMAIN lumis \ {l} : LumiJoin(k)'
    BY <2>1, <2>2, JoinStays DEF JoinKept
  <2> QED
    BY <2>1, <2>6, <2>7 DEF LumisJoined, LumiJoin
<1>10. ASSUME NEW s \in Streams, BeginsRun(s)
      PROVE  LumisJoined'
  <2>1. Took(s) /\ \A t \in Streams \ {s} : stream'[t] = stream[t]
    BY <1>10, TookRule DEF BeginsRun, StreamTo
  <2>2. stream'[s].lumi = 0 /\ Head(stream[s].queue)[1] # "beginLumi"
    <3>1. stream'[s].lumi = stream[s].lumi /\ Head(stream[s].queue)[1] # "beginLumi"
      BY <1>10 DEF BeginsRun, Takes, StreamTo
    <3> QED
      BY <2>1, <3>1, TakeFacts DEF Took
  <2>3. UNCHANGED lumis
    BY <1>10 DEF BeginsRun
  <2>4. \A k \in DOMAIN lumis' : \A t \in Streams \ {s} : StreamKeeps(t, k)
    BY <2>1, KeepsSame, NoZero
  <2>5. \A k \in DOMAIN lumis' : StreamKeeps(s, k)
    BY <2>1, <2>2, KeepsTook, NoZero
  <2> QED
    BY <2>3, <2>4, <2>5, JoinsStay DEF JoinKept
<1>11. ASSUME NEW s \in Streams, EndsRun(s)
      PROVE  LumisJoined'
  <2>1. Took(s) /\ \A t \in Streams \ {s} : stream'[t] = stream[t]
    BY <1>11, TookRule DEF EndsRun, StreamTo
  <2>2. stream'[s].lumi = 0 /\ Head(stream[s].queue)[1] # "beginLumi"
    <3>1. stream'[s].lumi = stream[s].lumi /\ Head(stream[s].queue)[1] # "beginLumi"
      BY <1>11 DEF EndsRun, Takes, StreamTo
    <3> QED
      BY <2>1, <3>1, TakeFacts DEF Took
  <2>3. UNCHANGED lumis
    BY <1>11 DEF EndsRun
  <2>4. \A k \in DOMAIN lumis' : \A t \in Streams \ {s} : StreamKeeps(t, k)
    BY <2>1, KeepsSame, NoZero
  <2>5. \A k \in DOMAIN lumis' : StreamKeeps(s, k)
    BY <2>1, <2>2, KeepsTook, NoZero
  <2> QED
    BY <2>3, <2>4, <2>5, JoinsStay DEF JoinKept
<1>12. ASSUME NEW s \in Streams, Joins(s)
      PROVE  LumisJoined'
  <2> DEFINE x == Head(stream[s].queue)
  <2>0. PICK l \in DOMAIN lumis : l = x[2]
    BY <1>12, TakeFacts DEF Joins, Takes
  <2>1. /\ stream[s].queue # <<>> /\ stream[s].pauses = 0 /\ x[1] = "beginLumi" /\ x[2] = l
        /\ x = Head(stream[s].queue) /\ ~lumis[l].noMore
        /\ DOMAIN lumis' = DOMAIN lumis /\ \A k \in DOMAIN lumis : JoinKept(k)
        /\ stream'[s].lumi = l /\ stream'[s].doing = "beginLumi"
        /\ \A t \in Streams \ {s} : stream'[t] = stream[t]
    BY <1>12, <2>0, InList DEF Joins, Takes, StreamTo, LumiTo, JoinKept
  <2>2. stream[s].lumi = 0 /\ x \in StreamTasks /\ Took(s)
    BY <1>12, <2>1, TakeFacts, TookRule
  <2>3. x = <<"beginLumi", l>>
    BY <2>1, <2>2 DEF StreamTasks
  <2>4. Queued(s, <<"beginLumi", l>>)
    BY <2>1, <2>3, HeadFacts DEF Queued
  <2> HIDE DEF x
  <2>5. \A k \in DOMAIN lumis : \A t \in Streams \ {s} : StreamKeeps(t, k)
    BY <2>1, KeepsSame, NoZero
  <2>6. \A k \in DOMAIN lumis \ {l} : StreamKeeps(s, k)
    <3> TAKE k \in DOMAIN lumis \ {l}
    <3>1. Head(stream[s].queue) # <<"beginLumi", k>> /\ stream'[s].lumi # k /\ k # 0
      BY <2>1, <2>2, <2>3, NoZero
    <3> QED
      BY <2>2, <3>1, KeepsTook
  <2>7. \A k \in DOMAIN lumis \ {l} : LumiJoin(k)'
    BY <2>1, <2>5, <2>6, JoinStays
  <2>8. LumiJoin(l)'
    <3>1. LumiJoin(l) /\ JoinKept(l)
      BY <2>1, JoinFacts
    <3>2. lumis[l].phase = "open" /\ ~lumis[l].noMore
      BY <2>1, <2>4, <3>1 DEF LumiJoin
    <3>3. \A t \in Streams \ {s} :
            /\ stream'[t] = stream[t]
            /\ Queued(t, <<"beginLumi", l>>)' <=> Queued(t, <<"beginLumi", l>>)
      BY <2>1, <2>5 DEF StreamKeeps
    <3>4. \A t \in In(l)' : t # s => t \in In(l) /\ ~Idle(l) /\ t \in Streams \ {s}
      BY <2>1, <2>2, NoZero DEF In, Idle
    <3>5. \A t \in Streams : stream'[t].lumi = l \/ Queued(t, <<"beginLumi", l>>)'
      BY <2>1, <3>1, <3>2, <3>3 DEF LumiJoin
    <3>6. \A t \in In(l)' :
            /\ stream'[t].doing # "endLumi"
            /\ stream'[t].doing = "nothing" => lumis[l].state = "pause"
      BY <2>1, <3>1, <3>2, <3>3, <3>4 DEF LumiJoin
    <3> QED
      BY <3>1, <3>2, <3>5, <3>6 DEF LumiJoin, JoinKept
  <2> QED
    BY <2>1, <2>7, <2>8 DEF LumisJoined, LumiJoin
<1>13. ASSUME NEW s \in Streams, Skips(s)
      PROVE  LumisJoined'
  <2> DEFINE x == Head(stream[s].queue)
  <2>0. PICK l \in DOMAIN lumis : l = x[2]
    BY <1>13, TakeFacts DEF Skips, Takes
  <2>1. /\ stream[s].queue # <<>> /\ stream[s].pauses = 0 /\ x[1] = "beginLumi" /\ x[2] = l
        /\ x = Head(stream[s].queue) /\ lumis[l].noMore
        /\ DOMAIN lumis' = DOMAIN lumis /\ UNCHANGED lumis /\ \A k \in DOMAIN lumis : JoinKept(k)
        /\ stream'[s].lumi = stream[s].lumi /\ stream'[s].doing = stream[s].doing
        /\ \A t \in Streams \ {s} : stream'[t] = stream[t]
    BY <1>13, <2>0, InList DEF Skips, Takes, StreamTo, LumiTo, JoinKept
  <2>2. stream[s].lumi = 0 /\ x \in StreamTasks /\ Took(s)
    BY <1>13, <2>1, TakeFacts, TookRule
  <2>3. x = <<"beginLumi", l>>
    BY <2>1, <2>2 DEF StreamTasks
  <2>4. Queued(s, <<"beginLumi", l>>)
    BY <2>1, <2>3, HeadFacts DEF Queued
  <2> HIDE DEF x
  <2>5. \A k \in DOMAIN lumis : \A t \in Streams \ {s} : StreamKeeps(t, k)
    BY <2>1, KeepsSame, NoZero
  <2>6. \A k \in DOMAIN lumis \ {l} : StreamKeeps(s, k)
    <3> TAKE k \in DOMAIN lumis \ {l}
    <3>1. Head(stream[s].queue) # <<"beginLumi", k>> /\ stream'[s].lumi # k /\ k # 0
      BY <2>1, <2>2, <2>3, NoZero
    <3> QED
      BY <2>2, <3>1, KeepsTook
  <2>7. \A k \in DOMAIN lumis \ {l} : LumiJoin(k)'
    BY <2>1, <2>5, <2>6, JoinStays
  <2>8. LumiJoin(l)'
    <3>1. LumiJoin(l) /\ JoinKept(l)
      BY <2>1, JoinFacts
    <3>2. \A t \in Streams : Queued(t, <<"beginLumi", l>>)' => Queued(t, <<"beginLumi", l>>)
      BY <2>2, <2>5, TookQueued DEF StreamKeeps
    <3>3. /\ In(l)' = In(l)
          /\ \A t \in Streams : stream'[t].lumi = stream[t].lumi /\ stream'[t].doing = stream[t].doing
      BY <2>1 DEF In
    <3>4. lumis[l].phase \notin Coming
      BY <2>1, <2>4, <3>1 DEF LumiJoin, Coming
    <3>5. \A t \in In(l)' :
            /\ ~lumis[l].started => stream'[t].doing = "endLumi"
            /\ stream'[t].doing # "nothing"
      <4>1. \A t \in In(l) :
              /\ ~lumis[l].started => stream[t].doing = "endLumi"
              /\ stream[t].doing # "nothing"
        BY <2>1, <3>1 DEF LumiJoin
      <4>2. \A t \in In(l)' : t \in In(l) /\ stream'[t].doing = stream[t].doing
        BY <3>3 DEF In
      <4> QED
        BY <4>1, <4>2
    <3> QED
      BY <2>1, <3>1, <3>2, <3>4, <3>5 DEF LumiJoin, JoinKept
  <2> QED
    BY <2>1, <2>7, <2>8 DEF LumisJoined, LumiJoin
<1>14. ASSUME NEW s \in Streams, HasBegun(s)
      PROVE  LumisJoined'
  <2>1. \A k \in DOMAIN lumis : JoinKept(k)
    BY <1>14 DEF HasBegun, JoinKept
  <2>2. \A k \in DOMAIN lumis' \ DOMAIN lumis : NewJoin(k)
    BY <1>14 DEF HasBegun
  <2>3. \A k \in DOMAIN lumis' : \A t \in Streams : StreamKeeps(t, k)
    BY <1>14, KeepsSame, NoZero, PlaceFacts DEF HasBegun, StreamTo
  <2> QED
    BY <2>1, <2>2, <2>3, JoinsStay
<1>15. ASSUME NEW s \in Streams, HasEnded(s)
      PROVE  LumisJoined'
  <2>1. \A k \in DOMAIN lumis : JoinKept(k)
    BY <1>15 DEF HasEnded, JoinKept
  <2>2. \A k \in DOMAIN lumis' \ DOMAIN lumis : NewJoin(k)
    BY <1>15 DEF HasEnded
  <2>3. \A k \in DOMAIN lumis' : \A t \in Streams : StreamKeeps(t, k)
    BY <1>15, KeepsSame, NoZero, PlaceFacts DEF HasEnded, StreamTo
  <2> QED
    BY <2>1, <2>2, <2>3, JoinsStay
<1>16. ASSUME NEW s \in Streams, NEW doing \in Doings, Does(s, doing)
      PROVE  LumisJoined'
  <2>0. PICK l \in DOMAIN lumis : l = stream[s].lumi
    BY <1>16, PlaceFacts, StopsFacts DEF Does
  <2>1. /\ l = stream[s].lumi /\ s \in In(l) /\ l # 0
        /\ stream'[s].queue = stream[s].queue /\ stream'[s].lumi = l
        /\ \A t \in Streams \ {s} : stream'[t] = stream[t]
    BY <1>16, <2>0, NoZero DEF Does, StreamDoes, StreamTo, In
  <2>2. LumiJoin(l)
    BY JoinFacts
  <2>3. \A k \in DOMAIN lumis' : \A t \in Streams : Queued(t, <<"beginLumi", k>>)' <=> Queued(t, <<"beginLumi", k>>)
    BY <2>1 DEF Queued
  <2>4. \A k \in DOMAIN lumis' \ {l} : \A t \in Streams : StreamKeeps(t, k)
    BY <2>1, <2>3, NoZero DEF StreamKeeps
  <2>5. \A t \in In(l) : t # s => t \in In(l)' /\ stream'[t].doing = stream[t].doing
    BY <2>1 DEF In
  <2>6. In(l)' = In(l)
    BY <2>1 DEF In
  <2>7. ~Idle(l)
    BY <1>16, <2>1 DEF Does, Idle
  <2>8. LumiJoin(l)'
    <3>1. /\ stream[s].doing \in {"beginLumi", "event", "resume", "next"}
          /\ stream'[s].doing = doing /\ doing \in {"next", "event", "endLumi"}
          /\ doing = "endLumi" => lumis[l].started
          /\ UNCHANGED lumis
      BY <1>16, <2>1 DEF Does, Over, StreamDoes, StreamTo
    <3>2. /\ lumis[l].noMore /\ ~lumis[l].started => stream[s].doing = "endLumi"
          /\ lumis[l].started => lumis[l].noMore
      BY <2>1, <2>2 DEF LumiJoin
    <3>3. \A t \in In(l)' :
            /\ lumis[l].noMore /\ ~lumis[l].started => stream'[t].doing = "endLumi"
            /\ stream'[t].doing = "endLumi" => lumis[l].noMore
            /\ stream'[t].doing = "nothing" => ~lumis[l].noMore /\ lumis[l].state = "pause"
      BY <2>2, <2>5, <2>6, <2>7, <3>1, <3>2 DEF LumiJoin
    <3>4. \A t \in Streams : stream'[t].lumi = stream[t].lumi
      BY <2>1
    <3>5. \A t \in Streams : Queued(t, <<"beginLumi", l>>)' <=> Queued(t, <<"beginLumi", l>>)
      BY <2>3, <3>1
    <3> QED
      BY <2>2, <3>1, <3>3, <3>4, <3>5 DEF LumiJoin
  <2>9. \A k \in DOMAIN lumis \ {l} : LumiJoin(k)'
    BY <1>16, <2>4, JoinStays DEF JoinKept, Does
  <2> QED
    BY <1>16, <2>8, <2>9 DEF Does, LumisJoined, LumiJoin
<1>17. ASSUME NEW s \in Streams, Pauses(s)
      PROVE  LumisJoined'
  <2>0. PICK l \in DOMAIN lumis : l = stream[s].lumi
    BY <1>17, PlaceFacts, StopsFacts DEF Pauses
  <2>1. /\ l = stream[s].lumi /\ s \in In(l) /\ l # 0
        /\ stream'[s].queue = stream[s].queue /\ stream'[s].lumi = l
        /\ \A t \in Streams \ {s} : stream'[t] = stream[t]
    BY <1>17, <2>0, NoZero DEF Pauses, StreamDoes, StreamTo, In
  <2>2. LumiJoin(l)
    BY JoinFacts
  <2>3. \A k \in DOMAIN lumis' : \A t \in Streams : Queued(t, <<"beginLumi", k>>)' <=> Queued(t, <<"beginLumi", k>>)
    BY <2>1 DEF Queued
  <2>4. \A k \in DOMAIN lumis' \ {l} : \A t \in Streams : StreamKeeps(t, k)
    BY <2>1, <2>3, NoZero DEF StreamKeeps
  <2>5. \A t \in In(l) : t # s => t \in In(l)' /\ stream'[t].doing = stream[t].doing
    BY <2>1 DEF In
  <2>6. In(l)' = In(l)
    BY <2>1 DEF In
  <2>7. LumiTo(lumis', l, lumis[l].phase, lumis[l].noMore, "pause", lumis[l].started,
               lumis[l].joined, lumis[l].toEnd)
    BY <1>17, <2>1 DEF Pauses
  <2>8. LumiJoin(l)'
    <3>1. /\ stream[s].doing = "next" /\ stream'[s].doing = "nothing" /\ ~lumis[l].started /\ ~lumis[l].noMore
      BY <1>17, <2>1, StopsFacts DEF Pauses, Over, StreamDoes, StreamTo
    <3>2. \A t \in In(l)' : stream'[t].doing # "endLumi"
      BY <2>2, <2>5, <2>6, <3>1 DEF LumiJoin
    <3>3. /\ lumis'[l].phase = lumis[l].phase /\ ~lumis'[l].noMore /\ lumis'[l].state = "pause"
          /\ ~lumis'[l].started /\ DOMAIN lumis' = DOMAIN lumis
      BY <2>7, <3>1 DEF LumiTo
    <3>4. \A t \in Streams : stream'[t].lumi = stream[t].lumi
      BY <2>1
    <3>5. \A t \in Streams : Queued(t, <<"beginLumi", l>>)' <=> Queued(t, <<"beginLumi", l>>)
      BY <2>3, <3>3
    <3> QED
      BY <2>2, <3>1, <3>2, <3>3, <3>4, <3>5 DEF LumiJoin
  <2>9. \A k \in DOMAIN lumis \ {l} : LumiJoin(k)'
    BY <2>4, <2>7, JoinStays DEF JoinKept, LumiTo
  <2> QED
    BY <2>7, <2>8, <2>9 DEF LumiTo, LumisJoined, LumiJoin
<1>18. ASSUME NEW s \in Streams, Leaves(s)
      PROVE  LumisJoined'
  <2>0. PICK l \in DOMAIN lumis : l = stream[s].lumi
    BY <1>18, PlaceFacts, StopsFacts DEF Leaves
  <2>1. /\ l = stream[s].lumi /\ s \in In(l) /\ l # 0
        /\ stream'[s].queue = stream[s].queue /\ stream'[s].lumi = 0
        /\ \A t \in Streams \ {s} : stream'[t] = stream[t]
    BY <1>18, <2>0, NoZero DEF Leaves, StreamDoes, StreamTo, In
  <2>2. LumiJoin(l)
    BY JoinFacts
  <2>3. \A k \in DOMAIN lumis' : \A t \in Streams : Queued(t, <<"beginLumi", k>>)' <=> Queued(t, <<"beginLumi", k>>)
    BY <2>1 DEF Queued
  <2>4. \A k \in DOMAIN lumis' \ {l} : \A t \in Streams : StreamKeeps(t, k)
    BY <2>1, <2>3, NoZero DEF StreamKeeps
  <2>5. \A t \in In(l) : t # s => t \in In(l)' /\ stream'[t].doing = stream[t].doing
    BY <2>1 DEF In
  <2>6. In(l)' = In(l) \ {s}
    BY <2>1 DEF In
  <2> DEFINE f == IF lumis[l].toEnd = 1 THEN "end" ELSE lumis[l].phase
  <2>7. LumiTo(lumis', l, f, lumis[l].noMore, lumis[l].state, lumis[l].started,
               lumis[l].joined, lumis[l].toEnd - 1)
    BY <1>18, <2>1 DEF Leaves
  <2>8. lumis[l].phase = "open" /\ f \in {"open", "end"} /\ lumis[l].noMore /\ ~Idle(l)
    BY <1>18, <2>1, <2>2, InFacts DEF Leaves, LumiJoin, Idle
  <2> HIDE DEF f
  <2>9. LumiJoin(l)'
    <3>1. /\ lumis'[l].phase = f /\ lumis'[l].noMore /\ lumis'[l].state = lumis[l].state
          /\ lumis'[l].started = lumis[l].started /\ DOMAIN lumis' = DOMAIN lumis
      BY <2>7, <2>8 DEF LumiTo
    <3>2. \A t \in In(l)' : t \in In(l) /\ stream'[t].doing = stream[t].doing
      BY <2>5, <2>6
    <3>3. \A t \in In(l)' :
            /\ lumis[l].noMore /\ ~lumis[l].started => stream'[t].doing = "endLumi"
            /\ stream'[t].doing # "nothing"
      BY <2>2, <2>8, <3>2 DEF LumiJoin
    <3>4. \A t \in Streams : Queued(t, <<"beginLumi", l>>)' <=> Queued(t, <<"beginLumi", l>>)
      BY <2>3, <3>1
    <3> QED
      BY <2>2, <2>8, <3>1, <3>3, <3>4 DEF LumiJoin, Coming
  <2>10. \A k \in DOMAIN lumis \ {l} : LumiJoin(k)'
    BY <2>4, <2>7, JoinStays DEF JoinKept, LumiTo
  <2> QED
    BY <2>7, <2>9, <2>10 DEF LumiTo, LumisJoined, LumiJoin
<1>19. ASSUME NEW s \in Streams, NEW ls, Stops(s, ls)
      PROVE  LumisJoined'
  <2>0. PICK l \in DOMAIN lumis : l = stream[s].lumi
    BY <1>19, PlaceFacts, StopsFacts DEF Stops
  <2>1. /\ l = stream[s].lumi /\ s \in In(l) /\ l # 0
        /\ stream'[s].queue = stream[s].queue /\ stream'[s].lumi = l
        /\ \A t \in Streams \ {s} : stream'[t] = stream[t]
    BY <1>19, <2>0, NoZero DEF Stops, StreamDoes, StreamTo, In
  <2>2. LumiJoin(l)
    BY JoinFacts
  <2>3. \A k \in DOMAIN lumis' : \A t \in Streams : Queued(t, <<"beginLumi", k>>)' <=> Queued(t, <<"beginLumi", k>>)
    BY <2>1 DEF Queued
  <2>4. \A k \in DOMAIN lumis' \ {l} : \A t \in Streams : StreamKeeps(t, k)
    BY <2>1, <2>3, NoZero DEF StreamKeeps
  <2>5. \A t \in In(l) : t # s => t \in In(l)' /\ stream'[t].doing = stream[t].doing
    BY <2>1 DEF In
  <2>6. In(l)' = In(l)
    BY <2>1 DEF In
  <2>7. /\ LumiTo(ls, l, lumis[l].phase, TRUE, "stop", TRUE, lumis[l].joined, lumis[l].joined)
        /\ LumiMade(ls, lumis[l].run) \/ lumis' = ls
    BY <1>19, <2>1 DEF Stops
  <2>8. LumiJoin(l)'
    <3>1. /\ stream[s].doing = "next" /\ stream'[s].doing = "endLumi" /\ lumis[l].phase = "open"
          /\ lumis[l].state # "pause" /\ ~Idle(l)
      BY <1>19, <2>1, StopsFacts DEF Stops, StreamDoes, StreamTo, Idle
    <3>2. \A t \in In(l)' : stream'[t].doing # "nothing"
      BY <2>2, <2>5, <2>6, <3>1 DEF LumiJoin
    <3>3. /\ lumis'[l].phase = "open" /\ lumis'[l].noMore /\ lumis'[l].state = "stop"
          /\ lumis'[l].started /\ l \in DOMAIN lumis'
      BY <2>7, <3>1 DEF LumiTo, LumiMade
    <3> QED
      BY <3>2, <3>3 DEF LumiJoin, Coming
  <2>9. \A k \in DOMAIN lumis \ {l} : LumiJoin(k)'
    <3>1. \A k \in DOMAIN lumis \ {l} : k \in DOMAIN lumis' /\ JoinKept(k)
      BY <2>7 DEF JoinKept, LumiTo, LumiMade
    <3> QED
      BY <2>4, <3>1, JoinStays
  <2>10. \A k \in DOMAIN lumis' \ DOMAIN lumis : LumiJoin(k)'
    <3>1. \A k \in DOMAIN lumis' \ DOMAIN lumis : NewJoin(k)
      BY <2>7 DEF LumiMade, LumiTo, NewJoin
    <3> QED
      BY <2>4, <3>1, JoinStarts, NoZero
  <2> QED
    BY <2>8, <2>9, <2>10 DEF LumisJoined, LumiJoin
<1>20. CASE MakesRun
  <2>1. \A k \in DOMAIN lumis : JoinKept(k)
    BY <1>20 DEF MakesRun, JoinKept
  <2>2. \A k \in DOMAIN lumis' \ DOMAIN lumis : NewJoin(k)
    BY <1>20 DEF MakesRun
  <2>3. \A k \in DOMAIN lumis' : \A t \in Streams : StreamKeeps(t, k)
    BY <1>20, KeepsSame, NoZero DEF MakesRun
  <2> QED
    BY <2>1, <2>2, <2>3, JoinsStay
<1>21. ASSUME NEW l \in DOMAIN lumis, Resumes(l)
      PROVE  LumisJoined'
  <2>0. PICK s \in Streams : TRUE
    BY EventProcessorAssumption
  <2>1. /\ \A t \in Streams : stream'[t].lumi = stream[t].lumi /\ stream'[t].queue = stream[t].queue
        /\ \/ \A t \in Streams : stream'[t].doing = "resume"
           \/ \A t \in Streams : stream'[t].doing = stream[t].doing
    <3>1. CASE UNCHANGED stream
      BY <3>1
    <3>2. CASE StreamsDo("resume")
      BY <3>2, AllDo
    <3> QED
      BY <1>21, <3>1, <3>2 DEF Resumes
  <2>2. \A t \in Streams : stream[t].lumi = l /\ stream[t].doing = "nothing"
    BY <1>21 DEF Resumes, Idle
  <2>3. \A k \in DOMAIN lumis : \A t \in Streams : Queued(t, <<"beginLumi", k>>)' <=> Queued(t, <<"beginLumi", k>>)
    BY <2>1 DEF Queued
  <2>4. \A k \in DOMAIN lumis \ {l} : \A t \in Streams : StreamKeeps(t, k)
    <3> TAKE k \in DOMAIN lumis \ {l}
    <3> TAKE t \in Streams
    <3>1. stream[t].lumi # k /\ stream'[t].lumi # k
      BY <2>1, <2>2
    <3>2. Queued(t, <<"beginLumi", k>>)' <=> Queued(t, <<"beginLumi", k>>)
      BY <2>3
    <3> QED
      BY <3>1, <3>2 DEF StreamKeeps
  <2>5. LumiJoin(l) /\ lumis[l].phase = "open" /\ ~lumis[l].noMore
    BY <2>0, <2>2, JoinFacts, InFacts, NoZero DEF In, LumiJoin
  <2>6. LumiTo(lumis', l, lumis[l].phase, lumis[l].noMore, "processing", lumis[l].started,
               lumis[l].joined, lumis[l].toEnd)
    BY <1>21 DEF Resumes
  <2>7. LumiJoin(l)'
    <3>1. /\ lumis'[l].phase = "open" /\ ~lumis'[l].noMore /\ DOMAIN lumis' = DOMAIN lumis
          /\ lumis'[l].started = lumis[l].started
      BY <2>5, <2>6 DEF LumiTo
    <3>2. ~lumis[l].started
      BY <2>5 DEF LumiJoin
    <3>3. \A t \in Streams : stream'[t].doing # "endLumi"
      BY <2>1, <2>2
    <3>4. \A t \in Streams : stream'[t].doing = "nothing" => Idle(l)'
      BY <2>1, <2>2 DEF Idle
    <3> QED
      BY <2>1, <2>2, <3>1, <3>2, <3>3, <3>4 DEF LumiJoin, In
  <2>8. \A k \in DOMAIN lumis \ {l} : LumiJoin(k)'
    BY <2>4, <2>6, JoinStays DEF JoinKept, LumiTo
  <2> QED
    BY <2>6, <2>7, <2>8 DEF LumiTo, LumisJoined, LumiJoin
<1>22. ASSUME NEW l \in DOMAIN lumis, CallsOff(l)
      PROVE  LumisJoined'
  <2>0. PICK s \in Streams : TRUE
    BY EventProcessorAssumption
  <2>1. /\ \A t \in Streams : stream'[t].lumi = stream[t].lumi /\ stream'[t].queue = stream[t].queue
        /\ \A t \in Streams : stream'[t].doing = "endLumi"
    <3>1. StreamsDo("endLumi")
      BY <1>22 DEF CallsOff
    <3> QED
      BY <3>1, AllDo
  <2>2. \A t \in Streams : stream[t].lumi = l /\ stream[t].doing = "nothing"
    BY <1>22 DEF CallsOff, Idle
  <2>3. \A k \in DOMAIN lumis : \A t \in Streams : Queued(t, <<"beginLumi", k>>)' <=> Queued(t, <<"beginLumi", k>>)
    BY <2>1 DEF Queued
  <2>4. \A k \in DOMAIN lumis \ {l} : \A t \in Streams : StreamKeeps(t, k)
    <3> TAKE k \in DOMAIN lumis \ {l}
    <3> TAKE t \in Streams
    <3>1. stream[t].lumi # k /\ stream'[t].lumi # k
      BY <2>1, <2>2
    <3>2. Queued(t, <<"beginLumi", k>>)' <=> Queued(t, <<"beginLumi", k>>)
      BY <2>3
    <3> QED
      BY <3>1, <3>2 DEF StreamKeeps
  <2>5. LumiJoin(l) /\ lumis[l].phase = "open" /\ ~lumis[l].noMore
    BY <2>0, <2>2, JoinFacts, InFacts, NoZero DEF In, LumiJoin
  <2>6. LumiTo(lumis', l, lumis[l].phase, TRUE, lumis[l].state, lumis[l].started, lumis[l].joined,
               lumis[l].joined)
    BY <1>22 DEF CallsOff
  <2>7. LumiJoin(l)'
    <3>1. /\ lumis'[l].phase = "open" /\ lumis'[l].noMore
          /\ lumis'[l].started = lumis[l].started /\ lumis'[l].state = lumis[l].state
      BY <2>5, <2>6 DEF LumiTo
    <3>2. ~lumis[l].started
      BY <2>5 DEF LumiJoin
    <3> QED
      BY <2>1, <3>1, <3>2 DEF LumiJoin, In, Coming
  <2>8. \A k \in DOMAIN lumis \ {l} : LumiJoin(k)'
    BY <2>4, <2>6, JoinStays DEF JoinKept, LumiTo
  <2> QED
    BY <2>6, <2>7, <2>8 DEF LumiTo, LumisJoined, LumiJoin
<1>23. CASE UNCHANGED <<runs, lumis, stream>>
  <2>1. \A k \in DOMAIN lumis : JoinKept(k)
    BY <1>23 DEF JoinKept
  <2>2. \A k \in DOMAIN lumis' \ DOMAIN lumis : NewJoin(k)
    BY <1>23
  <2>3. \A k \in DOMAIN lumis' : \A t \in Streams : StreamKeeps(t, k)
    BY <1>23, KeepsSame, NoZero
  <2> QED
    BY <2>1, <2>2, <2>3, JoinsStay
<1> QED
  BY <1>1, <1>2, <1>3, <1>4, <1>5, <1>6, <1>7, <1>8, <1>9, <1>10, <1>11, <1>12,
     <1>13, <1>14, <1>15, <1>16, <1>17, <1>18, <1>19, <1>20, <1>21, <1>22, <1>23 DEF
     Change, RunChange, LumiChange, StreamChange

Unopened == Pending \cup {"read"}

(* A run or a luminosity block is opened only when there is room for it.   *)
RunsFit ==
  \/ OpenRuns' \subseteq OpenRuns
  \/ /\ Cardinality(OpenRuns) < ConcurrentRuns
     /\ \E r \in DOMAIN runs : OpenRuns' \subseteq OpenRuns \cup {r}

LumisFit ==
  \/ OpenLumis' \subseteq OpenLumis
  \/ /\ Cardinality(OpenLumis) < ConcurrentLumis
     /\ \E l \in DOMAIN lumis : OpenLumis' \subseteq OpenLumis \cup {l}

LEMMA OneMore ==
  ASSUME NEW S, NEW T, IsFiniteSet(S), NEW n \in Nat, Cardinality(S) <= n,
         \/ T \subseteq S
         \/ Cardinality(S) < n /\ \E x : T \subseteq S \cup {x}
  PROVE  Cardinality(T) <= n
<1>1. Cardinality(S) \in Nat
  BY FS_CardinalityType
<1>2. CASE T \subseteq S
  <2>1. Cardinality(T) <= Cardinality(S) /\ Cardinality(T) \in Nat
    BY <1>2, FS_Subset, FS_CardinalityType
  <2> QED
    BY <1>1, <2>1
<1>3. ASSUME NEW x, Cardinality(S) < n, T \subseteq S \cup {x}
      PROVE  Cardinality(T) <= n
  <2>1. IsFiniteSet(S \cup {x}) /\ Cardinality(S \cup {x}) <= Cardinality(S) + 1
    BY <1>1, FS_AddElement
  <2>2. Cardinality(T) <= Cardinality(S \cup {x}) /\ Cardinality(T) \in Nat
    BY <1>3, <2>1, FS_Subset, FS_CardinalityType
  <2>3. Cardinality(S \cup {x}) \in Nat
    BY <2>1, FS_CardinalityType
  <2> QED
    BY <1>1, <1>3, <2>1, <2>2, <2>3
<1> QED
  BY <1>2, <1>3

LEMMA AreOpen ==
  /\ OpenRuns = {r \in DOMAIN runs : runs[r].phase \notin Unopened}
  /\ OpenLumis = {l \in DOMAIN lumis : lumis[l].phase \notin Unopened}
  /\ OpenRuns' = {r \in DOMAIN runs' : runs'[r].phase \notin Unopened}
  /\ OpenLumis' = {l \in DOMAIN lumis' : lumis'[l].phase \notin Unopened}
BY DEF OpenRuns, OpenLumis, StartedRuns, StartedLumis, Unopened

LEMMA FinitelyOpen ==
  ASSUME TaskInv
  PROVE  IsFiniteSet(OpenRuns) /\ IsFiniteSet(OpenLumis)
<1>1. OpenRuns \subseteq 1..Len(runs) /\ OpenLumis \subseteq 1..Len(lumis)
  BY InList DEF OpenRuns, OpenLumis, StartedRuns, StartedLumis
<1>2. IsFiniteSet(1..Len(runs)) /\ IsFiniteSet(1..Len(lumis))
  BY InList, FS_Interval
<1> QED
  BY <1>1, <1>2, FS_Subset

LEMMA OpensStay ==
  ASSUME \A r \in DOMAIN runs' : runs'[r].phase \notin Unopened =>
                                r \in DOMAIN runs /\ runs[r].phase \notin Unopened,
         \A l \in DOMAIN lumis' : lumis'[l].phase \notin Unopened =>
                                l \in DOMAIN lumis /\ lumis[l].phase \notin Unopened
  PROVE  RunsFit /\ LumisFit
BY AreOpen DEF RunsFit, LumisFit

LEMMA OpensFit ==
  ASSUME TaskInv, Change
  PROVE  RunsFit /\ LumisFit
<1>1. ASSUME NEW r \in DOMAIN runs, NEW phase \in RunPhases, RunAdvances(r, phase)
      PROVE  RunsFit /\ LumisFit
  <2>1. DOMAIN runs' = DOMAIN runs /\ \A q \in DOMAIN runs \ {r} : runs'[q] = runs[q]
    BY <1>1 DEF RunAdvances, RunMoves, RunTo
  <2>2. OpenRuns' \subseteq OpenRuns \cup {r}
    BY <2>1, AreOpen
  <2>3. CASE Cardinality(OpenRuns) < ConcurrentRuns
    BY <1>1, <2>2, <2>3, AreOpen DEF RunAdvances, RunsFit, LumisFit
  <2>4. CASE ~(Cardinality(OpenRuns) < ConcurrentRuns)
    <3>1. runs'[r].phase \notin Unopened => runs[r].phase \notin Unopened
      BY <1>1, <2>4 DEF RunAdvances, RunMoves, RunTo, Pending, Unopened
    <3> QED
      BY <1>1, <2>1, <3>1, OpensStay DEF RunAdvances
  <2> QED
    BY <2>3, <2>4
<1>2. ASSUME NEW r \in DOMAIN runs, NEW phase \in RunPhases, RunGoesOn(r, phase)
      PROVE  RunsFit /\ LumisFit
  BY <1>2, InList, AreOpen DEF RunGoesOn, GoesOn, RunMoves, RunTo, LumiMade, Pending,
     RunsFit, LumisFit, Unopened
<1>3. ASSUME NEW r \in DOMAIN runs, NEW phase \in RunPhases, RunBegins(r, phase)
      PROVE  RunsFit /\ LumisFit
  BY <1>3, InList, AreOpen DEF RunBegins, GoesOn, RunMoves, RunTo, LumiMade, Pushed,
     Pending, RunsFit, LumisFit, Unopened
<1>4. ASSUME NEW r \in DOMAIN runs, NEW rs, RunEnds(r, rs)
      PROVE  RunsFit /\ LumisFit
  BY <1>4, InList, AreOpen DEF RunEnds, RunMoves, RunTo, RunMade, Pushed, Pending,
     RunsFit, LumisFit, Unopened
<1>5. ASSUME NEW l \in DOMAIN lumis, NEW phase \in LumiPhases, LumiAdvances(l, phase)
      PROVE  RunsFit /\ LumisFit
  <2>1. /\ DOMAIN lumis' = DOMAIN lumis /\ UNCHANGED runs
        /\ \A k \in DOMAIN lumis \ {l} : lumis'[k] = lumis[k]
        /\ lumis'[l].phase = phase
        /\ \/ Cardinality(OpenLumis) < ConcurrentLumis
           \/ phase \in Unopened \/ lumis[l].phase \notin Unopened
    BY <1>5 DEF LumiAdvances, LumiMoves, LumiTo, Pending, Unopened
  <2>2. OpenLumis' \subseteq OpenLumis \cup {l}
    BY <2>1, AreOpen
  <2>3. phase \in Unopened \/ lumis[l].phase \notin Unopened => OpenLumis' \subseteq OpenLumis
    BY <2>1, AreOpen
  <2> QED
    BY <2>1, <2>2, <2>3, AreOpen DEF RunsFit, LumisFit
<1>6. ASSUME NEW l \in DOMAIN lumis, LumiDropped(l)
      PROVE  RunsFit /\ LumisFit
  <2> DEFINE r == lumis[l].run
  <2>1. /\ runs[r].phase = "open" /\ runs'[r].phase = "endSync" /\ DOMAIN runs' = DOMAIN runs
        /\ \A q \in DOMAIN runs \ {r} : runs'[q] = runs[q]
    BY <1>6, InList, CurrentFacts DEF LumiDropped, RunMoves, Counts, RunTo, Current, Coming
  <2>2. /\ lumis'[l].phase = "dropped" /\ DOMAIN lumis' = DOMAIN lumis
        /\ \A k \in DOMAIN lumis \ {l} : lumis'[k] = lumis[k]
    BY <1>6 DEF LumiDropped, LumiMoves, LumiTo, Pending, Unopened
  <2> HIDE DEF r
  <2>3. OpenRuns' \subseteq OpenRuns
    BY <2>1, AreOpen DEF Pending, Unopened
  <2>4. OpenLumis' \subseteq OpenLumis
    BY <2>2, AreOpen DEF Pending, Unopened
  <2> QED
    BY <2>3, <2>4 DEF RunsFit, LumisFit
<1>7. ASSUME NEW l \in DOMAIN lumis, LumiUnbegun(l)
      PROVE  RunsFit /\ LumisFit
  <2> DEFINE r == lumis[l].run
  <2>1. /\ runs[r].phase = "open" /\ runs'[r].phase = "endSync" /\ DOMAIN runs' = DOMAIN runs
        /\ \A q \in DOMAIN runs \ {r} : runs'[q] = runs[q]
    BY <1>7, InList, CurrentFacts DEF LumiUnbegun, RunMoves, Counts, RunTo, Current, Coming
  <2>2. /\ lumis'[l].phase = "end" /\ DOMAIN lumis' = DOMAIN lumis
        /\ lumis[l].phase \notin Unopened
        /\ \A k \in DOMAIN lumis \ {l} : lumis'[k] = lumis[k]
    BY <1>7 DEF LumiUnbegun, LumiMoves, LumiTo, Pending, Unopened
  <2> HIDE DEF r
  <2>3. OpenRuns' \subseteq OpenRuns
    BY <2>1, AreOpen DEF Pending, Unopened
  <2>4. OpenLumis' \subseteq OpenLumis
    BY <2>2, AreOpen DEF Pending, Unopened
  <2> QED
    BY <2>3, <2>4 DEF RunsFit, LumisFit
<1>8. ASSUME NEW l \in DOMAIN lumis, LumiBegins(l)
      PROVE  RunsFit /\ LumisFit
  <2> DEFINE r == lumis[l].run
  <2>1. /\ DOMAIN runs' = DOMAIN runs /\ r \in DOMAIN runs
        /\ runs'[r].phase = runs[r].phase
        /\ \A q \in DOMAIN runs \ {r} : runs'[q] = runs[q]
    BY <1>8, InList DEF LumiBegins, Counts, RunTo
  <2>2. /\ lumis'[l].phase = "open" /\ lumis[l].phase = "begin" /\ DOMAIN lumis' = DOMAIN lumis
        /\ \A k \in DOMAIN lumis \ {l} : lumis'[k] = lumis[k]
    BY <1>8 DEF LumiBegins, LumiMoves, LumiTo
  <2> HIDE DEF r
  <2>3. OpenRuns' \subseteq OpenRuns
    BY <2>1, AreOpen DEF Pending, Unopened
  <2>4. OpenLumis' \subseteq OpenLumis
    BY <2>2, AreOpen DEF Pending, Unopened
  <2> QED
    BY <2>3, <2>4 DEF RunsFit, LumisFit
<1>9. ASSUME NEW l \in DOMAIN lumis, LumiEnds(l)
      PROVE  RunsFit /\ LumisFit
  BY <1>9, InList, AreOpen DEF LumiEnds, LumiMoves, LumiTo, Counts, RunTo, Pending,
     RunsFit, LumisFit, Unopened
<1>10. ASSUME NEW s \in Streams, BeginsRun(s)
      PROVE  RunsFit /\ LumisFit
  BY <1>10, InList, AreOpen DEF BeginsRun, Takes, StreamTo, Pending, RunsFit, LumisFit,
     Unopened
<1>11. ASSUME NEW s \in Streams, EndsRun(s)
      PROVE  RunsFit /\ LumisFit
  BY <1>11, InList, AreOpen DEF EndsRun, Takes, StreamTo, Pending, RunsFit, LumisFit,
     Unopened
<1>12. ASSUME NEW s \in Streams, Joins(s)
      PROVE  RunsFit /\ LumisFit
  <2>1. UNCHANGED runs /\ DOMAIN lumis' = DOMAIN lumis
        /\ \A l \in DOMAIN lumis : lumis'[l].phase = lumis[l].phase
    BY <1>12 DEF Joins, Takes, LumiTo
  <2> QED
    BY <2>1, OpensStay
<1>13. ASSUME NEW s \in Streams, Skips(s)
      PROVE  RunsFit /\ LumisFit
  BY <1>13, InList, AreOpen DEF Skips, Takes, StreamTo, Pending, RunsFit, LumisFit,
     Unopened
<1>14. ASSUME NEW s \in Streams, HasBegun(s)
      PROVE  RunsFit /\ LumisFit
  BY <1>14, InList, AreOpen DEF HasBegun, RunTo, StreamTo, Pending, RunsFit, LumisFit,
     Unopened
<1>15. ASSUME NEW s \in Streams, HasEnded(s)
      PROVE  RunsFit /\ LumisFit
  BY <1>15, InList, AreOpen DEF HasEnded, RunTo, StreamTo, Pending, RunsFit, LumisFit,
     Unopened
<1>16. ASSUME NEW s \in Streams, NEW doing \in Doings, Does(s, doing)
      PROVE  RunsFit /\ LumisFit
  BY <1>16, InList, AreOpen DEF Does, StreamDoes, StreamTo, Pending, RunsFit, LumisFit,
     Unopened
<1>17. ASSUME NEW s \in Streams, Pauses(s)
      PROVE  RunsFit /\ LumisFit
  <2>1. DOMAIN runs' = DOMAIN runs /\ \A r \in DOMAIN runs : runs'[r].phase = runs[r].phase
    BY <1>17 DEF Pauses, RunMoves, RunTo
  <2>2. DOMAIN lumis' = DOMAIN lumis /\ \A l \in DOMAIN lumis : lumis'[l].phase = lumis[l].phase
    BY <1>17 DEF Pauses, LumiTo
  <2> QED
    BY <2>1, <2>2, OpensStay
<1>18. ASSUME NEW s \in Streams, Leaves(s)
      PROVE  RunsFit /\ LumisFit
  BY <1>18, InFacts, PlaceFacts, AreOpen DEF Leaves, StreamTo, LumiTo, Pending, RunsFit,
     LumisFit, Unopened
<1>19. ASSUME NEW s \in Streams, NEW ls, Stops(s, ls)
      PROVE  RunsFit /\ LumisFit
  <2> DEFINE l == stream[s].lumi
             r == lumis[l].run
  <2>1. /\ LumiTo(ls, l, lumis[l].phase, TRUE, "stop", TRUE, lumis[l].joined, lumis[l].joined)
        /\ runs[r].phase = "open"
        /\ \/ LumiMade(ls, r) /\ UNCHANGED runs
           \/ lumis' = ls /\ RunMoves(runs', r, "endSync")
    BY <1>19, StopsFacts, CurrentFacts DEF Stops
  <2> HIDE DEF l, r
  <2>2. OpenRuns' \subseteq OpenRuns
    BY <2>1, AreOpen DEF RunMoves, RunTo, Pending, Unopened
  <2>3. OpenLumis' \subseteq OpenLumis
    BY <2>1, AreOpen DEF LumiTo, LumiMade, Pending, Unopened
  <2> QED
    BY <2>2, <2>3 DEF RunsFit, LumisFit
<1>20. CASE MakesRun
  BY <1>20, InList, AreOpen DEF MakesRun, RunMade, Pending, RunsFit, LumisFit, Unopened
<1>21. ASSUME NEW l \in DOMAIN lumis, Resumes(l)
      PROVE  RunsFit /\ LumisFit
  BY <1>21, InList, AreOpen DEF Resumes, LumiTo, RunMoves, RunTo, StreamsDo, Pending,
     RunsFit, LumisFit, Unopened
<1>22. ASSUME NEW l \in DOMAIN lumis, CallsOff(l)
      PROVE  RunsFit /\ LumisFit
  BY <1>22, InList, AreOpen DEF CallsOff, LumiTo, StreamsDo, Pending, RunsFit, LumisFit,
     Unopened
<1>23. CASE UNCHANGED <<runs, lumis, stream>>
  BY <1>23, InList, AreOpen DEF Pending, RunsFit, LumisFit, Unopened
<1> QED
  BY <1>1, <1>2, <1>3, <1>4, <1>5, <1>6, <1>7, <1>8, <1>9, <1>10, <1>11, <1>12,
     <1>13, <1>14, <1>15, <1>16, <1>17, <1>18, <1>19, <1>20, <1>21, <1>22, <1>23 DEF
     Change, RunChange, LumiChange, StreamChange

LEMMA WithinLimitsKept ==
  ASSUME TaskInv, Change
  PROVE  WithinLimits'
<1>1. RunsFit /\ LumisFit
  BY OpensFit
<1>2. ConcurrentRuns \in Nat /\ ConcurrentLumis \in Nat
  BY EventProcessorAssumption
<1>3. Cardinality(OpenRuns) <= ConcurrentRuns /\ Cardinality(OpenLumis) <= ConcurrentLumis
  BY DEF TaskInv, WithinLimits
<1>4. Cardinality(OpenRuns') <= ConcurrentRuns
  BY <1>1, <1>2, <1>3, FinitelyOpen, OneMore DEF RunsFit
<1>5. Cardinality(OpenLumis') <= ConcurrentLumis
  BY <1>1, <1>2, <1>3, FinitelyOpen, OneMore DEF LumisFit
<1> QED
  BY <1>4, <1>5 DEF WithinLimits

-----------------------------------------------------------------------------
(* The tasks that wait for the source.                                     *)

RunWaits  == {"read", "merge", "next"}
LumiWaits == {"read", "merge"}
RunTasks  == {"readRun", "mergeRun", "nextItem"}
LumiTasks == {"readLumi", "mergeLumi"}

(* Runs R, luminosity blocks L and streams S apart, whoever waits for the  *)
(* source goes on waiting.                                                 *)
WaitsOn(R, L, S) ==
  /\ \A r \in DOMAIN runs \ R :
       r \in DOMAIN runs' /\ (runs[r].phase \in RunWaits => runs'[r].phase = runs[r].phase)
  /\ \A l \in DOMAIN lumis \ L :
       l \in DOMAIN lumis' /\ (lumis[l].phase \in LumiWaits => lumis'[l].phase = lumis[l].phase)
  /\ \A s \in Streams \ S : stream[s].doing = "next" => stream'[s].doing = "next"

MovesOn(x, R, L, S) == \/ x[1] \in RunTasks /\ x[2] \in R
                       \/ x[1] \in LumiTasks /\ x[2] \in L
                       \/ x[1] = "event" /\ x[2] \in S

LEMMA StillWaits ==
  ASSUME NEW CONSTANT R, NEW CONSTANT L, NEW CONSTANT S, WaitsOn(R, L, S), NEW CONSTANT x,
         SourceTask(x), ~MovesOn(x, R, L, S)
  PROVE  SourceTask(x)'
<1>1. CASE x[1] \in RunTasks
  <2>1. x[2] \in DOMAIN runs \ R /\ runs[x[2]].phase \in RunWaits
    BY <1>1 DEF SourceTask, MovesOn, RunTasks, RunWaits
  <2>2. x[2] \in DOMAIN runs' /\ runs'[x[2]].phase = runs[x[2]].phase
    BY <2>1 DEF WaitsOn
  <2> QED
    BY <1>1, <2>2 DEF SourceTask, RunTasks
<1>2. CASE x[1] \in LumiTasks
  <2>1. x[2] \in DOMAIN lumis \ L /\ lumis[x[2]].phase \in LumiWaits
    BY <1>2 DEF SourceTask, MovesOn, LumiTasks, LumiWaits
  <2>2. x[2] \in DOMAIN lumis' /\ lumis'[x[2]].phase = lumis[x[2]].phase
    BY <2>1 DEF WaitsOn
  <2> QED
    BY <1>2, <2>2 DEF SourceTask, LumiTasks
<1>3. CASE x[1] = "event"
  BY <1>3 DEF SourceTask, MovesOn, WaitsOn
<1> QED
  BY <1>1, <1>2, <1>3 DEF SourceTask, RunTasks, LumiTasks

LEMMA RunWaitsOn ==
  ASSUME TaskInv, NEW CONSTANT r, r \in DOMAIN runs, RunChange(r)
  PROVE  WaitsOn({r}, {}, {})
<1>1. ASSUME NEW phase \in RunPhases, RunAdvances(r, phase)
      PROVE  WaitsOn({r}, {}, {})
  BY <1>1 DEF RunAdvances, RunMoves, RunTo, WaitsOn
<1>2. ASSUME NEW phase \in RunPhases, RunGoesOn(r, phase)
      PROVE  WaitsOn({r}, {}, {})
  BY <1>2 DEF RunGoesOn, GoesOn, RunMoves, RunTo, LumiMade, WaitsOn
<1>3. ASSUME NEW phase \in RunPhases, RunBegins(r, phase)
      PROVE  WaitsOn({r}, {}, {})
  <2>1. \A s \in Streams : stream'[s].doing = stream[s].doing
    BY <1>3, InList DEF RunBegins, Pushed, StreamRecords
  <2> QED
    BY <1>3, <2>1 DEF RunBegins, GoesOn, RunMoves, RunTo, LumiMade, WaitsOn
<1>4. ASSUME NEW rs, RunEnds(r, rs)
      PROVE  WaitsOn({r}, {}, {})
  <2>1. \A s \in Streams : stream'[s].doing = stream[s].doing
    BY <1>4, InList DEF RunEnds, Pushed, StreamRecords
  <2> QED
    BY <1>4, <2>1 DEF RunEnds, RunMoves, RunTo, RunMade, WaitsOn
<1> QED
  BY <1>1, <1>2, <1>3, <1>4 DEF RunChange

LEMMA LumiWaitsOn ==
  ASSUME TaskInv, NEW CONSTANT l, l \in DOMAIN lumis, LumiChange(l)
  PROVE  WaitsOn({}, {l}, {})
<1>1. ASSUME NEW phase \in LumiPhases, LumiAdvances(l, phase)
      PROVE  WaitsOn({}, {l}, {})
  BY <1>1 DEF LumiAdvances, LumiMoves, LumiTo, WaitsOn
<1> DEFINE r == lumis[l].run
<1>2. CASE LumiDropped(l) \/ LumiUnbegun(l)
  <2>1. /\ runs[r].phase = "open" /\ DOMAIN runs' = DOMAIN runs
        /\ \A q \in DOMAIN runs \ {r} : runs'[q] = runs[q]
    BY <1>2, CurrentFacts DEF LumiDropped, LumiUnbegun, Counts, RunMoves, RunTo, Current, Coming
  <2>2. /\ DOMAIN lumis' = DOMAIN lumis /\ \A k \in DOMAIN lumis \ {l} : lumis'[k] = lumis[k]
        /\ UNCHANGED stream
    BY <1>2 DEF LumiDropped, LumiUnbegun, LumiMoves, LumiTo
  <2> HIDE DEF r
  <2> QED
    BY <2>1, <2>2 DEF WaitsOn, RunWaits
<1>3. CASE LumiBegins(l) \/ LumiEnds(l)
  <2>1. /\ runs'[r].phase = runs[r].phase /\ DOMAIN runs' = DOMAIN runs
        /\ \A q \in DOMAIN runs \ {r} : runs'[q] = runs[q]
    BY <1>3 DEF LumiBegins, LumiEnds, Counts, RunTo
  <2>2. DOMAIN lumis' = DOMAIN lumis /\ \A k \in DOMAIN lumis \ {l} : lumis'[k] = lumis[k]
    BY <1>3 DEF LumiBegins, LumiEnds, LumiMoves, LumiTo
  <2>3. \A s \in Streams : stream'[s].doing = stream[s].doing
    <3>1. CASE UNCHANGED stream
      BY <3>1
    <3>2. CASE Pushed(<<"beginLumi", l>>)
      BY <3>2, InList DEF Pushed, StreamRecords
    <3> QED
      BY <1>3, <3>1, <3>2 DEF LumiBegins, LumiEnds
  <2> HIDE DEF r
  <2> QED
    BY <2>1, <2>2, <2>3 DEF WaitsOn, RunWaits
<1> QED
  BY <1>1, <1>2, <1>3 DEF LumiChange

LEMMA StreamWaitsOn ==
  ASSUME TaskInv, NEW CONSTANT s \in Streams, StreamChange(s)
  PROVE  WaitsOn({}, {}, {s})
<1>1. CASE BeginsRun(s) \/ EndsRun(s) \/ Skips(s)
  BY <1>1 DEF BeginsRun, EndsRun, Skips, Takes, StreamTo, WaitsOn
<1>2. CASE Joins(s)
  <2> DEFINE l == Head(stream[s].queue)[2]
  <2>1. /\ lumis'[l].phase = lumis[l].phase /\ DOMAIN lumis' = DOMAIN lumis
        /\ \A k \in DOMAIN lumis \ {l} : lumis'[k] = lumis[k]
        /\ UNCHANGED runs /\ \A t \in Streams \ {s} : stream'[t] = stream[t]
    BY <1>2 DEF Joins, Takes, StreamTo, LumiTo
  <2> HIDE DEF l
  <2> QED
    BY <2>1 DEF WaitsOn
<1>3. CASE HasBegun(s) \/ HasEnded(s)
  <2> DEFINE r == stream[s].run
  <2>1. /\ runs'[r].phase = runs[r].phase /\ DOMAIN runs' = DOMAIN runs
        /\ \A q \in DOMAIN runs \ {r} : runs'[q] = runs[q]
        /\ UNCHANGED lumis /\ \A t \in Streams \ {s} : stream'[t] = stream[t]
    BY <1>3 DEF HasBegun, HasEnded, StreamTo, RunTo
  <2> HIDE DEF r
  <2> QED
    BY <2>1 DEF WaitsOn
<1>4. ASSUME NEW doing \in Doings, Does(s, doing)
      PROVE  WaitsOn({}, {}, {s})
  BY <1>4 DEF Does, StreamDoes, StreamTo, WaitsOn
<1>5. CASE Pauses(s)
  <2> DEFINE l == stream[s].lumi
             r == lumis[l].run
  <2>1. /\ runs'[r].phase = runs[r].phase /\ DOMAIN runs' = DOMAIN runs
        /\ \A q \in DOMAIN runs \ {r} : runs'[q] = runs[q]
        /\ lumis'[l].phase = lumis[l].phase /\ DOMAIN lumis' = DOMAIN lumis
        /\ \A k \in DOMAIN lumis \ {l} : lumis'[k] = lumis[k]
        /\ \A t \in Streams \ {s} : stream'[t] = stream[t]
    BY <1>5 DEF Pauses, StreamDoes, StreamTo, RunMoves, RunTo, LumiTo
  <2> HIDE DEF l, r
  <2> QED
    BY <2>1 DEF WaitsOn
<1>6. CASE Leaves(s)
  <2> DEFINE l == stream[s].lumi
  <2>1. /\ lumis[l].phase = "open" /\ DOMAIN lumis' = DOMAIN lumis
        /\ \A k \in DOMAIN lumis \ {l} : lumis'[k] = lumis[k]
        /\ UNCHANGED runs /\ \A t \in Streams \ {s} : stream'[t] = stream[t]
    BY <1>6, InFacts, PlaceFacts DEF Leaves, StreamTo, LumiTo
  <2> HIDE DEF l
  <2> QED
    BY <2>1 DEF WaitsOn, LumiWaits
<1>7. ASSUME NEW ls, Stops(s, ls)
      PROVE  WaitsOn({}, {}, {s})
  <2> DEFINE l == stream[s].lumi
             r == lumis[l].run
  <2>1. /\ lumis[l].phase = "open" /\ runs[r].phase = "open"
        /\ LumiTo(ls, l, lumis[l].phase, TRUE, "stop", TRUE, lumis[l].joined, lumis[l].joined)
        /\ \/ LumiMade(ls, r) /\ UNCHANGED runs
           \/ lumis' = ls /\ RunMoves(runs', r, "endSync")
        /\ \A t \in Streams \ {s} : stream'[t] = stream[t]
    BY <1>7, StopsFacts, CurrentFacts DEF Stops, StreamDoes, StreamTo
  <2> HIDE DEF l, r
  <2>2. /\ DOMAIN lumis \subseteq DOMAIN lumis'
        /\ \A k \in DOMAIN lumis \ {l} : lumis'[k] = lumis[k]
    BY <2>1 DEF LumiTo, LumiMade
  <2>3. DOMAIN runs' = DOMAIN runs /\ \A q \in DOMAIN runs \ {r} : runs'[q] = runs[q]
    BY <2>1 DEF RunMoves, RunTo
  <2> QED
    BY <2>1, <2>2, <2>3 DEF WaitsOn, LumiWaits, RunWaits
<1> QED
  BY <1>1, <1>2, <1>3, <1>4, <1>5, <1>6, <1>7 DEF StreamChange

(* What may happen to the queue of the source: nothing, a task is added,   *)
(* the first one is taken, and perhaps another is added, or it again.      *)
LEMMA QueueFacts ==
  ASSUME TaskInv
  PROVE  /\ sourceQ \in Seq(SourceTasks) /\ Len(sourceQ) \in Nat
         /\ \A i \in DOMAIN sourceQ : sourceQ[i] \in SourceTasks /\ SourceTask(sourceQ[i])
         /\ \A i, j \in DOMAIN sourceQ : sourceQ[j] = sourceQ[i] => j = i
         /\ DOMAIN sourceQ = 1..Len(sourceQ)
BY DEF TaskInv, Shape, SourceWaitedFor

InSource(x) == \E i \in DOMAIN sourceQ : sourceQ[i] = x

LEMMA WaitersRule ==
  ASSUME sourceQ' \in Seq(SourceTasks), \A x : InSource(x)' => SourceTask(x)',
         \A i, j \in DOMAIN sourceQ' : sourceQ'[j] = sourceQ'[i] => j = i
  PROVE  SourceWaitedFor' /\ sourceQ' \in Seq(SourceTasks)
BY DEF SourceWaitedFor, InSource

LEMMA InSourceFacts ==
  ASSUME TaskInv, NEW x, InSource(x)
  PROVE  SourceTask(x) /\ x \in SourceTasks
BY QueueFacts DEF InSource

LEMMA SourceStays ==
  ASSUME TaskInv, UNCHANGED sourceQ, \A x : InSource(x) => SourceTask(x)'
  PROVE  SourceWaitedFor' /\ sourceQ' \in Seq(SourceTasks)
<1>1. \A x : InSource(x)' => InSource(x)
  BY DEF InSource
<1> QED
  BY <1>1, QueueFacts, WaitersRule

LEMMA SourceAdded ==
  ASSUME TaskInv, NEW CONSTANT y, y \in SourceTasks, sourceQ' = Append(sourceQ, y),
         \A x : InSource(x) => SourceTask(x)', SourceTask(y)', ~SourceTask(y)
  PROVE  SourceWaitedFor' /\ sourceQ' \in Seq(SourceTasks)
<1>1. /\ sourceQ' \in Seq(SourceTasks) /\ DOMAIN sourceQ' = 1..(Len(sourceQ) + 1)
      /\ \A i \in DOMAIN sourceQ : sourceQ'[i] = sourceQ[i]
      /\ sourceQ'[Len(sourceQ) + 1] = y
      /\ DOMAIN sourceQ' = DOMAIN sourceQ \cup {Len(sourceQ) + 1}
  BY QueueFacts
<1>2. \A i \in DOMAIN sourceQ : sourceQ[i] # y
  BY QueueFacts
<1>3. \A x : InSource(x)' => InSource(x) \/ x = y
  BY <1>1 DEF InSource
<1>4. \A i, j \in DOMAIN sourceQ' : sourceQ'[j] = sourceQ'[i] => j = i
  BY <1>1, <1>2, QueueFacts
<1> QED
  BY <1>1, <1>3, <1>4, WaitersRule

(* The first task is taken.                                                *)
LEMMA TailFacts ==
  ASSUME TaskInv, NEW CONSTANT h, AtSource(h)
  PROVE  /\ Tail(sourceQ) \in Seq(SourceTasks) /\ InSource(h)
         /\ \A i \in DOMAIN Tail(sourceQ) : /\ InSource(Tail(sourceQ)[i]) /\ Tail(sourceQ)[i] # h
                                            /\ Tail(sourceQ)[i] = sourceQ[i + 1]
                                            /\ i + 1 \in DOMAIN sourceQ /\ i \in Nat
         /\ \A i, j \in DOMAIN Tail(sourceQ) : Tail(sourceQ)[j] = Tail(sourceQ)[i] => j = i
<1>1. sourceQ # <<>> /\ h = Head(sourceQ)
  BY DEF AtSource
<1>2. /\ Tail(sourceQ) \in Seq(SourceTasks) /\ Len(Tail(sourceQ)) = Len(sourceQ) - 1
      /\ DOMAIN Tail(sourceQ) = 1..(Len(sourceQ) - 1) /\ h = sourceQ[1]
      /\ Len(sourceQ) > 0 /\ DOMAIN sourceQ = 1..Len(sourceQ) /\ Len(sourceQ) \in Nat
      /\ \A i \in DOMAIN Tail(sourceQ) : Tail(sourceQ)[i] = sourceQ[i + 1]
  BY <1>1, QueueFacts
<1> DEFINE q == Tail(sourceQ)
<1> HIDE DEF q
<1>3. \A i \in DOMAIN q : q[i] = sourceQ[i + 1] /\ i + 1 \in DOMAIN sourceQ /\ i \in Nat /\ i + 1 # 1
  BY <1>2 DEF q
<1>4. InSource(h) /\ 1 \in DOMAIN sourceQ /\ h = sourceQ[1]
  BY <1>2 DEF InSource
<1>5. \A i \in DOMAIN q : InSource(q[i]) /\ q[i] # h
  BY <1>3, <1>4, QueueFacts DEF InSource
<1>6. \A i, j \in DOMAIN q : q[j] = q[i] => j = i
  BY <1>3, QueueFacts
<1> QED
  BY <1>2, <1>3, <1>4, <1>5, <1>6 DEF q

LEMMA SourceTaken ==
  ASSUME TaskInv, NEW CONSTANT h, AtSource(h), sourceQ' = Tail(sourceQ),
         \A x : InSource(x) /\ x # h => SourceTask(x)'
  PROVE  SourceWaitedFor' /\ sourceQ' \in Seq(SourceTasks)
<1>1. \A x : InSource(x)' => InSource(x) /\ x # h
  BY TailFacts DEF InSource
<1> QED
  BY <1>1, TailFacts, WaitersRule

LEMMA SourcePassedOn ==
  ASSUME TaskInv, NEW CONSTANT h, AtSource(h), NEW CONSTANT y, y \in SourceTasks,
         sourceQ' = Append(Tail(sourceQ), y), SourceTask(y)', y = h \/ ~SourceTask(y),
         \A x : InSource(x) /\ x # h => SourceTask(x)'
  PROVE  SourceWaitedFor' /\ sourceQ' \in Seq(SourceTasks)
<1> DEFINE q == Tail(sourceQ)
<1>1. /\ q \in Seq(SourceTasks)
      /\ \A i \in DOMAIN q : InSource(q[i]) /\ q[i] # h
      /\ \A i, j \in DOMAIN q : q[j] = q[i] => j = i
      /\ sourceQ' = Append(q, y)
  BY TailFacts
<1> HIDE DEF q
<1>2. /\ sourceQ' \in Seq(SourceTasks) /\ DOMAIN sourceQ' = DOMAIN q \cup {Len(q) + 1}
      /\ \A i \in DOMAIN q : sourceQ'[i] = q[i]
      /\ sourceQ'[Len(q) + 1] = y
  <2>1. Len(q) \in Nat /\ DOMAIN q = 1..Len(q)
    BY <1>1
  <2>2. /\ Append(q, y) \in Seq(SourceTasks) /\ DOMAIN Append(q, y) = 1..(Len(q) + 1)
        /\ \A i \in 1..Len(q) : Append(q, y)[i] = q[i]
        /\ Append(q, y)[Len(q) + 1] = y
    BY <1>1, <2>1
  <2>3. 1..(Len(q) + 1) = 1..Len(q) \cup {Len(q) + 1}
    BY <2>1
  <2> QED
    BY <1>1, <2>1, <2>2, <2>3
<1>3. \A i \in DOMAIN q : q[i] # y
  BY <1>1, InSourceFacts
<1>4. \A x : InSource(x)' => (InSource(x) /\ x # h) \/ x = y
  <2>1. \A x : InSource(x)' => x = y \/ \E i \in DOMAIN q : q[i] = x
    BY <1>2 DEF InSource
  <2> QED
    BY <1>1, <2>1
<1>5. \A i, j \in DOMAIN sourceQ' : sourceQ'[j] = sourceQ'[i] => j = i
  BY <1>1, <1>2, <1>3
<1> QED
  BY <1>2, <1>4, <1>5, WaitersRule

(* There is one task for a run, luminosity block or stream that waits.     *)
LEMMA OneTask ==
  ASSUME NEW x \in SourceTasks, NEW h \in SourceTasks, SourceTask(x), SourceTask(h),
         x[2] = h[2],
         \/ x[1] \in RunTasks /\ h[1] \in RunTasks
         \/ x[1] \in LumiTasks /\ h[1] \in LumiTasks
         \/ x[1] = "event" /\ h[1] = "event"
  PROVE  x = h
<1>1. x = <<x[1], x[2]>> /\ h = <<h[1], h[2]>>
  BY DEF SourceTasks
<1>2. x[1] = h[1]
  BY DEF SourceTask, RunTasks, LumiTasks
<1> QED
  BY <1>1, <1>2

LEMMA RunSource ==
  ASSUME TaskInv, NEW CONSTANT r, r \in DOMAIN runs, RunStep(r)
  PROVE  SourceWaitedFor' /\ sourceQ' \in Seq(SourceTasks)
<1>1. WaitsOn({r}, {}, {})
  BY RunStepChange, RunWaitsOn
<1>2. \A x : SourceTask(x) => SourceTask(x)' \/ (x[1] \in RunTasks /\ x[2] = r)
  <2>1. \A x : SourceTask(x) /\ ~MovesOn(x, {r}, {}, {}) => SourceTask(x)'
    BY <1>1, StillWaits
  <2> QED
    BY <2>1 DEF MovesOn
<1>3. \A x : x[1] \in RunTasks /\ x[2] = r /\ SourceTask(x) => runs[r].phase \in RunWaits
  BY DEF SourceTask, RunTasks, RunWaits
<1>4. runs[r].phase \notin RunWaits => \A x : InSource(x) => SourceTask(x)'
  BY <1>2, <1>3, InSourceFacts
<1>5. \A what \in RunTasks : AtSource(<<what, r>>) =>
        \A x : InSource(x) /\ x # <<what, r>> => SourceTask(x)'
  <2> SUFFICES ASSUME NEW CONSTANT what \in RunTasks, AtSource(<<what, r>>), NEW CONSTANT x,
                      InSource(x), x # <<what, r>>
               PROVE  SourceTask(x)'
    OBVIOUS
  <2>1. /\ SourceTask(<<what, r>>) /\ <<what, r>> \in SourceTasks
        /\ SourceTask(x) /\ x \in SourceTasks
    BY TailFacts, InSourceFacts
  <2>2. ~(x[1] \in RunTasks /\ x[2] = r)
    BY <2>1, OneTask
  <2> QED
    BY <1>2, <2>1, <2>2
<1>6. r \in Nat /\ r # 0
  BY InList
<1>7. \A what \in RunTasks : <<what, r>> \in SourceTasks
  BY <1>6 DEF RunTasks, SourceTasks
<1>8. CASE SyncRun(r) \/ SyncEndRun(r) \/ GlobalEndRun(r)
  <2>1. UNCHANGED sourceQ /\ runs[r].phase \notin RunWaits
    BY <1>8 DEF SyncRun, SyncEndRun, GlobalEndRun, RunWaits
  <2> QED
    BY <1>4, <2>1, SourceStays
<1>9. CASE StartRun(r)
  <2>1. runs[r].phase = "queue"
    BY <1>9 DEF StartRun
  <2>2. CASE UNCHANGED sourceQ
    BY <1>4, <2>1, <2>2, SourceStays DEF RunWaits
  <2>3. CASE /\ runs' = [runs EXCEPT ![r].phase = "read"]
             /\ sourceQ' = Append(sourceQ, <<"readRun", r>>)
    <3> DEFINE y == <<"readRun", r>>
    <3>1. y \in SourceTasks /\ ~SourceTask(y)
      BY <1>7, <2>1 DEF SourceTask, RunTasks
    <3>2. runs'[r].phase = "read" /\ r \in DOMAIN runs'
      BY <2>3, InList DEF RunRecord, RunFields
    <3>3. SourceTask(y)'
      BY <3>2 DEF SourceTask
    <3>4. \A x : InSource(x) => SourceTask(x)'
      BY <1>4, <2>1 DEF RunWaits
    <3> QED
      BY <2>3, <3>1, <3>3, <3>4, SourceAdded
  <2> QED
    BY <1>9, <2>2, <2>3 DEF StartRun
<1>10. CASE ReadRun(r)
  <2> DEFINE h == <<"readRun", r>>
  <2>1. AtSource(h) /\ \A x : InSource(x) /\ x # h => SourceTask(x)'
    BY <1>5, <1>10 DEF ReadRun, RunTasks
  <2>2. CASE sourceQ' = Tail(sourceQ)
    BY <2>1, <2>2, SourceTaken
  <2>3. CASE /\ runs' = [runs EXCEPT ![r].phase = "merge"]
             /\ sourceQ' = Append(Tail(sourceQ), <<"mergeRun", r>>)
    <3> DEFINE y == <<"mergeRun", r>>
    <3>1. runs[r].phase = "read"
      BY <2>1, TailFacts, InSourceFacts DEF SourceTask
    <3>2. y \in SourceTasks /\ ~SourceTask(y)
      BY <1>7, <3>1 DEF SourceTask, RunTasks
    <3>3. runs'[r].phase = "merge" /\ r \in DOMAIN runs'
      BY <2>3, InList DEF RunRecord, RunFields
    <3>4. SourceTask(y)'
      BY <3>3 DEF SourceTask
    <3> QED
      BY <2>1, <2>3, <3>2, <3>4, SourcePassedOn
  <2> QED
    BY <1>10, <2>2, <2>3 DEF ReadRun
<1>11. CASE MergeRun(r)
  <2> DEFINE h == <<"mergeRun", r>>
  <2>1. AtSource(h) /\ \A x : InSource(x) /\ x # h => SourceTask(x)'
    BY <1>5, <1>11 DEF MergeRun, RunTasks
  <2>2. sourceQ' = Tail(sourceQ)
    BY <1>11 DEF MergeRun
  <2> QED
    BY <2>1, <2>2, SourceTaken
<1>12. CASE GlobalBeginRun(r)
  <2>1. runs[r].phase = "begin"
    BY <1>12 DEF GlobalBeginRun
  <2>2. CASE UNCHANGED sourceQ
    BY <1>4, <2>1, <2>2, SourceStays DEF RunWaits
  <2>3. ASSUME NEW x, runs' = [[runs EXCEPT ![r].ok = x] EXCEPT ![r].phase = "next"],
               sourceQ' = Append(sourceQ, <<"nextItem", r>>)
        PROVE  SourceWaitedFor' /\ sourceQ' \in Seq(SourceTasks)
    <3> DEFINE y == <<"nextItem", r>>
    <3>1. y \in SourceTasks /\ ~SourceTask(y)
      BY <1>7, <2>1 DEF SourceTask, RunTasks
    <3>2. runs'[r].phase = "next" /\ r \in DOMAIN runs'
      BY <2>3, InList DEF RunRecord, RunFields
    <3>3. SourceTask(y)'
      BY <3>2 DEF SourceTask
    <3>4. \A x_1 : InSource(x_1) => SourceTask(x_1)'
      BY <1>4, <2>1 DEF RunWaits
    <3> QED
      BY <2>3, <3>1, <3>3, <3>4, SourceAdded
  <2> QED
    BY <1>12, <2>2, <2>3 DEF GlobalBeginRun
<1>13. CASE NextItem(r)
  <2> DEFINE h == <<"nextItem", r>>
  <2>1. AtSource(h) /\ \A x : InSource(x) /\ x # h => SourceTask(x)'
    BY <1>5, <1>13 DEF NextItem, RunTasks
  <2>2. sourceQ' = Tail(sourceQ)
    BY <1>13 DEF NextItem
  <2> QED
    BY <2>1, <2>2, SourceTaken
<1> QED
  BY <1>8, <1>9, <1>10, <1>11, <1>12, <1>13 DEF RunStep

LEMMA LumiSource ==
  ASSUME TaskInv, NEW CONSTANT l, l \in DOMAIN lumis, LumiStep(l)
  PROVE  SourceWaitedFor' /\ sourceQ' \in Seq(SourceTasks)
<1>1. WaitsOn({}, {l}, {})
  BY LumiStepChange, LumiWaitsOn
<1>2. \A x : SourceTask(x) => SourceTask(x)' \/ (x[1] \in LumiTasks /\ x[2] = l)
  <2>1. \A x : SourceTask(x) /\ ~MovesOn(x, {}, {l}, {}) => SourceTask(x)'
    BY <1>1, StillWaits
  <2> QED
    BY <2>1 DEF MovesOn
<1>3. \A x : x[1] \in LumiTasks /\ x[2] = l /\ SourceTask(x) => lumis[l].phase \in LumiWaits
  BY DEF SourceTask, LumiTasks, LumiWaits
<1>4. lumis[l].phase \notin LumiWaits => \A x : InSource(x) => SourceTask(x)'
  BY <1>2, <1>3, InSourceFacts
<1>5. \A what \in LumiTasks : AtSource(<<what, l>>) =>
        \A x : InSource(x) /\ x # <<what, l>> => SourceTask(x)'
  <2> SUFFICES ASSUME NEW CONSTANT what \in LumiTasks, AtSource(<<what, l>>), NEW CONSTANT x,
                      InSource(x), x # <<what, l>>
               PROVE  SourceTask(x)'
    OBVIOUS
  <2>1. /\ SourceTask(<<what, l>>) /\ <<what, l>> \in SourceTasks
        /\ SourceTask(x) /\ x \in SourceTasks
    BY TailFacts, InSourceFacts
  <2>2. ~(x[1] \in LumiTasks /\ x[2] = l)
    BY <2>1, OneTask
  <2> QED
    BY <1>2, <2>1, <2>2
<1>6. l \in Nat /\ l # 0
  BY InList
<1>7. \A what \in LumiTasks : <<what, l>> \in SourceTasks
  BY <1>6 DEF LumiTasks, SourceTasks
<1>8. CASE SyncLumi(l) \/ GlobalBeginLumi(l) \/ GlobalEndLumi(l)
  <2>1. UNCHANGED sourceQ /\ lumis[l].phase \notin LumiWaits
    BY <1>8 DEF SyncLumi, GlobalBeginLumi, GlobalEndLumi, LumiWaits
  <2> QED
    BY <1>4, <2>1, SourceStays
<1>9. CASE StartLumi(l)
  <2>1. lumis[l].phase = "queue"
    BY <1>9 DEF StartLumi
  <2>2. CASE UNCHANGED sourceQ
    BY <1>4, <2>1, <2>2, SourceStays DEF LumiWaits
  <2>3. CASE /\ lumis' = [lumis EXCEPT ![l].phase = "read"]
             /\ sourceQ' = Append(sourceQ, <<"readLumi", l>>)
    <3> DEFINE y == <<"readLumi", l>>
    <3>1. y \in SourceTasks /\ ~SourceTask(y)
      BY <1>7, <2>1 DEF SourceTask, LumiTasks
    <3>2. lumis'[l].phase = "read" /\ l \in DOMAIN lumis'
      BY <2>3, InList DEF LumiRecord, LumiFields
    <3>3. SourceTask(y)'
      BY <3>2 DEF SourceTask
    <3>4. \A x : InSource(x) => SourceTask(x)'
      BY <1>4, <2>1 DEF LumiWaits
    <3> QED
      BY <2>3, <3>1, <3>3, <3>4, SourceAdded
  <2> QED
    BY <1>9, <2>2, <2>3 DEF StartLumi
<1>10. CASE ReadLumi(l)
  <2> DEFINE h == <<"readLumi", l>>
  <2>1. AtSource(h) /\ \A x : InSource(x) /\ x # h => SourceTask(x)'
    BY <1>5, <1>10 DEF ReadLumi, LumiTasks
  <2>2. CASE sourceQ' = Tail(sourceQ)
    BY <2>1, <2>2, SourceTaken
  <2>3. CASE /\ lumis' = [lumis EXCEPT ![l].phase = "merge"]
             /\ sourceQ' = Append(Tail(sourceQ), <<"mergeLumi", l>>)
    <3> DEFINE y == <<"mergeLumi", l>>
    <3>1. lumis[l].phase = "read"
      BY <2>1, TailFacts, InSourceFacts DEF SourceTask
    <3>2. y \in SourceTasks /\ ~SourceTask(y)
      BY <1>7, <3>1 DEF SourceTask, LumiTasks
    <3>3. lumis'[l].phase = "merge" /\ l \in DOMAIN lumis'
      BY <2>3, InList DEF LumiRecord, LumiFields
    <3>4. SourceTask(y)'
      BY <3>3 DEF SourceTask
    <3> QED
      BY <2>1, <2>3, <3>2, <3>4, SourcePassedOn
  <2> QED
    BY <1>10, <2>2, <2>3 DEF ReadLumi
<1>11. CASE MergeLumi(l)
  <2> DEFINE h == <<"mergeLumi", l>>
  <2>1. AtSource(h) /\ \A x : InSource(x) /\ x # h => SourceTask(x)'
    BY <1>5, <1>11 DEF MergeLumi, LumiTasks
  <2>2. sourceQ' = Tail(sourceQ)
    BY <1>11 DEF MergeLumi
  <2> QED
    BY <2>1, <2>2, SourceTaken
<1> QED
  BY <1>8, <1>9, <1>10, <1>11 DEF LumiStep

LEMMA StreamSource ==
  ASSUME TaskInv, NEW CONSTANT s \in Streams, StreamStep(s)
  PROVE  SourceWaitedFor' /\ sourceQ' \in Seq(SourceTasks)
<1> DEFINE h == <<"event", s>>
<1>1. WaitsOn({}, {}, {s})
  BY StreamStepChange, StreamWaitsOn DEF WaitsOn
<1>2. \A x : SourceTask(x) => SourceTask(x)' \/ (x[1] = "event" /\ x[2] = s)
  <2>1. \A x : SourceTask(x) /\ ~MovesOn(x, {}, {}, {s}) => SourceTask(x)'
    BY <1>1, StillWaits
  <2> QED
    BY <2>1 DEF MovesOn
<1>3. \A x : x[1] = "event" /\ x[2] = s /\ SourceTask(x) => stream[s].doing = "next"
  BY DEF SourceTask
<1>4. stream[s].doing # "next" => \A x : InSource(x) => SourceTask(x)'
  BY <1>2, <1>3, InSourceFacts
<1>5. AtSource(h) => \A x : InSource(x) /\ x # h => SourceTask(x)'
  <2> SUFFICES ASSUME AtSource(h), NEW CONSTANT x, InSource(x), x # h
               PROVE  SourceTask(x)'
    OBVIOUS
  <2>1. /\ SourceTask(h) /\ h \in SourceTasks
        /\ SourceTask(x) /\ x \in SourceTasks
    BY TailFacts, InSourceFacts
  <2>2. ~(x[1] = "event" /\ x[2] = s)
    BY <2>1, OneTask
  <2> QED
    BY <1>2, <2>1, <2>2
<1>6. h \in SourceTasks
  BY DEF SourceTasks
<1>7. CASE StreamBeginRun(s) \/ StreamEndLumi(s) \/ StreamEndRun(s)
  <2>1. UNCHANGED sourceQ /\ stream[s].doing # "next"
    BY <1>7 DEF StreamBeginRun, StreamEndLumi, StreamEndRun
  <2> QED
    BY <1>4, <2>1, SourceStays
<1>8. CASE StreamTake(s)
  <2>1. UNCHANGED sourceQ /\ stream[s].pauses = 0
    BY <1>8 DEF StreamTake
  <2>2. stream[s].doing # "next"
    BY <2>1, PlaceFacts DEF TaskInv, StreamsPlaced, InPlace
  <2> QED
    BY <1>4, <2>1, <2>2, SourceStays
<1>9. CASE StreamReady(s) \/ StreamResume(s)
  <2>1. stream[s].doing # "next" /\ NextEventForStream(s)
    BY <1>9 DEF StreamReady, StreamResume
  <2>2. CASE UNCHANGED sourceQ
    BY <1>4, <2>1, <2>2, SourceStays
  <2>3. CASE ~Over(s)
    <3>1. sourceQ' = Append(sourceQ, h) /\ Leave(s, "next")
      BY <2>1, <2>3 DEF NextEventForStream, Over
    <3>2. stream'[s].doing = "next"
      <4>1. StreamDoes(s, "next")
        BY <3>1, LeaveFacts DEF Doings
      <4> QED
        BY <4>1 DEF StreamDoes, StreamTo
    <3>3. ~SourceTask(h) /\ SourceTask(h)'
      BY <2>1, <3>2 DEF SourceTask
    <3> QED
      BY <1>4, <1>6, <2>1, <3>1, <3>3, SourceAdded
  <2> QED
    BY <2>1, <2>2, <2>3 DEF NextEventForStream, Over
<1>10. CASE ReadEvent(s) \/ NoEvent(s)
  <2>1. AtSource(h) /\ sourceQ' = Tail(sourceQ)
    BY <1>10 DEF ReadEvent, NoEvent
  <2> QED
    BY <1>5, <2>1, SourceTaken
<1>11. CASE SourceThrows(s)
  <2>1. AtSource(h) /\ sourceQ' = Append(Tail(sourceQ), h) /\ UNCHANGED stream
    BY <1>11 DEF SourceThrows
  <2>2. SourceTask(h)
    BY <2>1, TailFacts, InSourceFacts
  <2>3. SourceTask(h)'
    BY <2>1, <2>2 DEF SourceTask
  <2> QED
    BY <1>5, <1>6, <2>1, <2>3, SourcePassedOn
<1> QED
  BY <1>7, <1>8, <1>9, <1>10, <1>11 DEF StreamStep

(* While the main thread acts nobody waits for the source.                 *)
LEMMA QuietSource ==
  ASSUME TaskInv, ~Busy
  PROVE  sourceQ = <<>>
<1>1. \A x : ~InSource(x)
  BY InSourceFacts DEF SourceTask, Busy
<1>2. Len(sourceQ) = 0
  BY <1>1, QueueFacts DEF InSource
<1> QED
  BY <1>2, QueueFacts, EmptyList

-----------------------------------------------------------------------------
(* The pauses of the queue that waits for IOVs.                            *)

BeginHeld(r) == runs[r].phase \notin {"sync", "dropped"} /\ runs[r].toBegin # 0
EndHeld(r)   == runs[r].phase = "ending"
LumiHeld(l)  == lumis[l].phase \notin {"sync", "closed", "dropped"}
Bit(b) == IF b THEN 1 ELSE 0

(* Runs R and luminosity blocks L apart, nobody takes or gives back a pause.*)
HoldsOn(R, L) ==
  /\ \A r \in DOMAIN runs \ R :
       r \in DOMAIN runs' /\ BeginHeld(r)' = BeginHeld(r) /\ EndHeld(r)' = EndHeld(r)
  /\ \A r \in DOMAIN runs' \ DOMAIN runs : runs'[r].phase = "sync"
  /\ \A l \in DOMAIN lumis \ L : l \in DOMAIN lumis' /\ LumiHeld(l)' = LumiHeld(l)
  /\ \A l \in DOMAIN lumis' \ DOMAIN lumis : lumis'[l].phase = "sync"

LEMMA CountOf ==
  ASSUME NEW S, IsFiniteSet(S), NEW x, NEW b \in BOOLEAN,
         NEW T, T = IF b THEN S \cup {x} ELSE S \ {x}
  PROVE  Cardinality(T) = Cardinality(S) + Bit(b) - Bit(x \in S) /\ Cardinality(S) \in Nat
<1>1. Cardinality(S) \in Nat
  BY FS_CardinalityType
<1>2. CASE b
  <2>1. Cardinality(T) = IF x \in S THEN Cardinality(S) ELSE Cardinality(S) + 1
    BY <1>2, FS_AddElement
  <2> QED
    BY <1>1, <1>2, <2>1 DEF Bit
<1>3. CASE ~b
  <2>1. Cardinality(T) = IF x \in S THEN Cardinality(S) - 1 ELSE Cardinality(S)
    BY <1>3, FS_RemoveElement
  <2> QED
    BY <1>1, <1>3, <2>1 DEF Bit
<1> QED
  BY <1>2, <1>3

LEMMA HeldFinite ==
  ASSUME TaskInv
  PROVE  /\ IsFiniteSet(HeldToBegin) /\ IsFiniteSet(HeldToEnd) /\ IsFiniteSet(HeldByLumi)
         /\ Cardinality(HeldToBegin) \in Nat /\ Cardinality(HeldToEnd) \in Nat
         /\ Cardinality(HeldByLumi) \in Nat
         /\ iovPauses = Cardinality(HeldToBegin) + Cardinality(HeldToEnd) + Cardinality(HeldByLumi)
<1>1. /\ HeldToBegin \subseteq 1..Len(runs) /\ HeldToEnd \subseteq 1..Len(runs)
      /\ HeldByLumi \subseteq 1..Len(lumis)
  BY InList DEF HeldToBegin, HeldToEnd, HeldByLumi
<1>2. IsFiniteSet(1..Len(runs)) /\ IsFiniteSet(1..Len(lumis))
  BY InList, FS_Interval
<1>3. /\ IsFiniteSet(HeldToBegin) /\ IsFiniteSet(HeldToEnd) /\ IsFiniteSet(HeldByLumi)
  BY <1>1, <1>2, FS_Subset
<1> QED
  BY <1>3, FS_CardinalityType DEF TaskInv, PausesCounted

LEMMA HeldSets ==
  /\ HeldToBegin = {r \in DOMAIN runs : BeginHeld(r)}
  /\ HeldToEnd = {r \in DOMAIN runs : EndHeld(r)}
  /\ HeldByLumi = {l \in DOMAIN lumis : LumiHeld(l)}
  /\ HeldToBegin' = {r \in DOMAIN runs' : BeginHeld(r)'}
  /\ HeldToEnd' = {r \in DOMAIN runs' : EndHeld(r)'}
  /\ HeldByLumi' = {l \in DOMAIN lumis' : LumiHeld(l)'}
BY DEF HeldToBegin, HeldToEnd, HeldByLumi, BeginHeld, EndHeld, LumiHeld

LEMMA NewIdle ==
  /\ \A r : runs'[r].phase = "sync" => ~BeginHeld(r)' /\ ~EndHeld(r)'
  /\ \A l : lumis'[l].phase = "sync" => ~LumiHeld(l)'
BY DEF BeginHeld, EndHeld, LumiHeld

LEMMA PausesStay ==
  ASSUME TaskInv, HoldsOn({}, {}), UNCHANGED iovPauses
  PROVE  PausesCounted'
<1>1. HeldToBegin' = HeldToBegin
  BY HeldSets, NewIdle DEF HoldsOn
<1>2. HeldToEnd' = HeldToEnd
  BY HeldSets, NewIdle DEF HoldsOn
<1>3. HeldByLumi' = HeldByLumi
  BY HeldSets, NewIdle DEF HoldsOn
<1> QED
  BY <1>1, <1>2, <1>3, HeldFinite DEF PausesCounted

LEMMA RunPauses ==
  ASSUME TaskInv, NEW CONSTANT r, r \in DOMAIN runs, r \in DOMAIN runs', HoldsOn({r}, {}),
         BeginHeld(r)' \in BOOLEAN, EndHeld(r)' \in BOOLEAN,
         iovPauses' = iovPauses + Bit(BeginHeld(r)') - Bit(BeginHeld(r))
                                + Bit(EndHeld(r)') - Bit(EndHeld(r))
  PROVE  PausesCounted'
<1> DEFINE b == BeginHeld(r)'
           e == EndHeld(r)'
<1>1. HeldToBegin' = IF b THEN HeldToBegin \cup {r} ELSE HeldToBegin \ {r}
  BY HeldSets, NewIdle DEF HoldsOn
<1>2. HeldToEnd' = IF e THEN HeldToEnd \cup {r} ELSE HeldToEnd \ {r}
  BY HeldSets, NewIdle DEF HoldsOn
<1>3. HeldByLumi' = HeldByLumi
  BY HeldSets, NewIdle DEF HoldsOn
<1>4. (r \in HeldToBegin <=> BeginHeld(r)) /\ (r \in HeldToEnd <=> EndHeld(r))
  BY HeldSets
<1>5. b \in BOOLEAN /\ e \in BOOLEAN
  OBVIOUS
<1>6. iovPauses' = iovPauses + Bit(b) - Bit(r \in HeldToBegin) + Bit(e) - Bit(r \in HeldToEnd)
  BY <1>4 DEF Bit
<1> HIDE DEF b, e
<1>7. Cardinality(HeldToBegin') = Cardinality(HeldToBegin) + Bit(b) - Bit(r \in HeldToBegin)
  BY <1>1, <1>5, HeldFinite, CountOf
<1>8. Cardinality(HeldToEnd') = Cardinality(HeldToEnd) + Bit(e) - Bit(r \in HeldToEnd)
  BY <1>2, <1>5, HeldFinite, CountOf
<1>9. \A x : Bit(x) \in {0, 1}
  BY DEF Bit
<1>10. iovPauses' = Cardinality(HeldToBegin') + Cardinality(HeldToEnd') + Cardinality(HeldByLumi')
  BY <1>3, <1>6, <1>7, <1>8, <1>9, HeldFinite
<1> QED
  BY <1>10 DEF PausesCounted

LEMMA LumiPauses ==
  ASSUME TaskInv, NEW CONSTANT l, l \in DOMAIN lumis, l \in DOMAIN lumis', HoldsOn({}, {l}),
         LumiHeld(l)' \in BOOLEAN,
         iovPauses' = iovPauses + Bit(LumiHeld(l)') - Bit(LumiHeld(l))
  PROVE  PausesCounted'
<1> DEFINE b == LumiHeld(l)'
<1>1. HeldByLumi' = IF b THEN HeldByLumi \cup {l} ELSE HeldByLumi \ {l}
  BY HeldSets, NewIdle DEF HoldsOn
<1>2. HeldToBegin' = HeldToBegin
  BY HeldSets, NewIdle DEF HoldsOn
<1>3. HeldToEnd' = HeldToEnd
  BY HeldSets, NewIdle DEF HoldsOn
<1>4. l \in HeldByLumi <=> LumiHeld(l)
  BY HeldSets
<1>5. b \in BOOLEAN
  OBVIOUS
<1>6. iovPauses' = iovPauses + Bit(b) - Bit(l \in HeldByLumi)
  BY <1>4 DEF Bit
<1> HIDE DEF b
<1>7. Cardinality(HeldByLumi') = Cardinality(HeldByLumi) + Bit(b) - Bit(l \in HeldByLumi)
  BY <1>1, <1>5, HeldFinite, CountOf
<1>8. \A x : Bit(x) \in {0, 1}
  BY DEF Bit
<1>9. iovPauses' = Cardinality(HeldToBegin') + Cardinality(HeldToEnd') + Cardinality(HeldByLumi')
  BY <1>2, <1>3, <1>6, <1>7, <1>8, HeldFinite
<1> QED
  BY <1>9 DEF PausesCounted

(* A phase and a count that say the same about who takes pauses.           *)
LEMMA HeldAlike ==
  /\ \A r : /\ \/ runs'[r].phase = runs[r].phase
               \/ /\ runs[r].phase \notin {"sync", "dropped", "ending"}
                  /\ runs'[r].phase \notin {"sync", "dropped", "ending"}
            /\ runs'[r].toBegin = runs[r].toBegin
            => BeginHeld(r)' = BeginHeld(r) /\ EndHeld(r)' = EndHeld(r)
  /\ \A l : \/ lumis'[l].phase = lumis[l].phase
            \/ /\ lumis[l].phase \notin {"sync", "closed", "dropped"}
               /\ lumis'[l].phase \notin {"sync", "closed", "dropped"}
            => LumiHeld(l)' = LumiHeld(l)
BY DEF BeginHeld, EndHeld, LumiHeld

(* Nothing but one run, or one luminosity block, is other than it was.     *)
RunsBut(r) ==
  /\ \A q \in DOMAIN runs : q \in DOMAIN runs' /\ (q # r => runs'[q] = runs[q])
  /\ \A q \in DOMAIN runs' \ DOMAIN runs : runs'[q].phase = "sync"

LumisBut(l) ==
  /\ \A k \in DOMAIN lumis : k \in DOMAIN lumis' /\ (k # l => lumis'[k] = lumis[k])
  /\ \A k \in DOMAIN lumis' \ DOMAIN lumis : lumis'[k].phase = "sync"

LEMMA HoldsBut ==
  ASSUME NEW CONSTANT r, NEW CONSTANT l, RunsBut(r), LumisBut(l)
  PROVE  /\ HoldsOn({r}, {l})
         /\ BeginHeld(r)' = BeginHeld(r) /\ EndHeld(r)' = EndHeld(r) => HoldsOn({}, {l})
         /\ LumiHeld(l)' = LumiHeld(l) => HoldsOn({r}, {})
         /\ BeginHeld(r)' = BeginHeld(r) /\ EndHeld(r)' = EndHeld(r) /\ LumiHeld(l)' = LumiHeld(l)
              => HoldsOn({}, {})
<1>1. \A q \in DOMAIN runs : q # r => BeginHeld(q)' = BeginHeld(q) /\ EndHeld(q)' = EndHeld(q)
  BY HeldAlike DEF RunsBut
<1>2. \A k \in DOMAIN lumis : k # l => LumiHeld(k)' = LumiHeld(k)
  BY HeldAlike DEF LumisBut
<1> QED
  BY <1>1, <1>2 DEF HoldsOn, RunsBut, LumisBut

LEMMA RunHolds ==
  ASSUME TaskInv, NEW CONSTANT r, r \in DOMAIN runs, RunChange(r)
  PROVE  r \in DOMAIN runs' /\ HoldsOn({r}, {}) /\ runs'[r].toBegin = runs[r].toBegin
<1>0. LumiHeld(0)' = LumiHeld(0) \/ 0 \notin DOMAIN lumis
  BY InList
<1>1. r \in DOMAIN runs' /\ RunsBut(r) /\ runs'[r].toBegin = runs[r].toBegin
  BY DEF RunChange, RunAdvances, RunGoesOn, RunBegins, RunEnds, RunMoves, RunTo, RunMade, RunsBut
<1>2. LumisBut(0)
  BY DEF RunChange, RunAdvances, RunGoesOn, RunBegins, RunEnds, GoesOn, LumiMade, LumisBut
<1>3. HoldsOn({r}, {0})
  BY <1>1, <1>2, HoldsBut
<1>4. HoldsOn({r}, {})
  BY <1>3, InList DEF HoldsOn
<1> QED
  BY <1>1, <1>4

LEMMA RunHoldsOn ==
  ASSUME TaskInv, NEW CONSTANT r, r \in DOMAIN runs, NEW phase,
         RunGoesOn(r, phase) \/ RunBegins(r, phase), phase \in RunPhases
  PROVE  HoldsOn({}, {})
<1>1. r \in DOMAIN runs' /\ HoldsOn({r}, {}) /\ runs'[r].toBegin = runs[r].toBegin
  BY RunHolds DEF RunChange
<1>2. /\ runs[r].phase \notin {"sync", "dropped", "ending"}
      /\ runs'[r].phase \notin {"sync", "dropped", "ending"}
  BY DEF RunGoesOn, RunBegins, GoesOn, RunMoves, RunTo
<1>3. BeginHeld(r)' = BeginHeld(r) /\ EndHeld(r)' = EndHeld(r)
  BY <1>1, <1>2, HeldAlike
<1> QED
  BY <1>1, <1>3 DEF HoldsOn

LEMMA LumiHolds ==
  ASSUME TaskInv, NEW CONSTANT l, l \in DOMAIN lumis, LumiChange(l)
  PROVE  l \in DOMAIN lumis' /\ HoldsOn({}, {l})
<1> DEFINE r == lumis[l].run
<1>1. l \in DOMAIN lumis' /\ LumisBut(l)
  BY DEF LumiChange, LumiAdvances, LumiDropped, LumiUnbegun, LumiBegins, LumiEnds, LumiMoves,
         LumiTo, LumisBut
<1>2. CASE \E phase \in LumiPhases : LumiAdvances(l, phase)
  BY <1>1, <1>2, HeldAlike DEF LumiAdvances, HoldsOn, LumisBut
<1>3. CASE LumiDropped(l) \/ LumiUnbegun(l)
  <2>1. PICK q \in DOMAIN runs : q = r
    BY InList
  <2>2. /\ runs[q].phase = "open" /\ runs'[q].phase = "endSync"
        /\ runs'[q].toBegin = runs[q].toBegin /\ RunsBut(q)
    BY <1>3, <2>1, CurrentFacts DEF LumiDropped, LumiUnbegun, Counts, RunMoves, RunTo, RunsBut,
                                    Current, Coming
  <2>3. BeginHeld(q)' = BeginHeld(q) /\ EndHeld(q)' = EndHeld(q)
    BY <2>2, HeldAlike
  <2> QED
    BY <1>1, <2>2, <2>3, HoldsBut
<1>4. CASE LumiBegins(l) \/ LumiEnds(l)
  <2>1. PICK q \in DOMAIN runs : q = r
    BY InList
  <2>2. /\ runs'[q].phase = runs[q].phase
        /\ runs'[q].toBegin = runs[q].toBegin /\ RunsBut(q)
    BY <1>4, <2>1 DEF LumiBegins, LumiEnds, Counts, RunMoves, RunTo, RunsBut
  <2>3. BeginHeld(q)' = BeginHeld(q) /\ EndHeld(q)' = EndHeld(q)
    BY <2>2, HeldAlike
  <2> QED
    BY <1>1, <2>2, <2>3, HoldsBut
<1> QED
  BY <1>1, <1>2, <1>3, <1>4 DEF LumiChange

(* A stream that has not just begun its run, and the main thread.          *)
LEMMA StreamHolds ==
  ASSUME TaskInv, NEW CONSTANT s \in Streams, StreamChange(s), stream[s].doing # "beginRun"
  PROVE  HoldsOn({}, {})
<1>1. CASE BeginsRun(s) \/ EndsRun(s) \/ Skips(s) \/ \E doing \in Doings : Does(s, doing)
  BY <1>1, HeldAlike DEF BeginsRun, EndsRun, Skips, Takes, Does, HoldsOn
<1>2. CASE Joins(s)
  <2>0. PICK l \in DOMAIN lumis : l = Head(stream[s].queue)[2]
    BY <1>2, TakeFacts DEF Joins, Takes
  <2>1. lumis'[l].phase = lumis[l].phase /\ LumisBut(l) /\ UNCHANGED runs
    BY <1>2, <2>0 DEF Joins, Takes, StreamTo, LumiTo, LumisBut
  <2>2. LumiHeld(l)' = LumiHeld(l)
    BY <2>1, HeldAlike
  <2> QED
    BY <2>1, <2>2, HeldAlike DEF HoldsOn, LumisBut
<1>3. CASE HasEnded(s)
  <2>0. PICK r \in DOMAIN runs : r = stream[s].run
    BY <1>3, PlaceFacts DEF HasEnded
  <2>1. /\ runs'[r].phase = runs[r].phase /\ runs'[r].toBegin = runs[r].toBegin
        /\ RunsBut(r) /\ UNCHANGED lumis
    BY <1>3, <2>0 DEF HasEnded, StreamTo, RunTo, RunsBut
  <2>2. BeginHeld(r)' = BeginHeld(r) /\ EndHeld(r)' = EndHeld(r)
    BY <2>1, HeldAlike
  <2> QED
    BY <2>1, <2>2, HeldAlike DEF HoldsOn, RunsBut
<1>4. CASE Pauses(s)
  <2>0. PICK l \in DOMAIN lumis : l = stream[s].lumi
    BY <1>4, StopsFacts DEF Pauses
  <2>1. PICK r \in DOMAIN runs : r = lumis[l].run
    BY InList
  <2>2. /\ runs'[r].phase = runs[r].phase /\ runs'[r].toBegin = runs[r].toBegin
        /\ RunsBut(r) /\ lumis'[l].phase = lumis[l].phase /\ LumisBut(l)
    BY <1>4, <2>0, <2>1 DEF Pauses, RunMoves, RunTo, LumiTo, RunsBut, LumisBut
  <2>3. BeginHeld(r)' = BeginHeld(r) /\ EndHeld(r)' = EndHeld(r) /\ LumiHeld(l)' = LumiHeld(l)
    BY <2>2, HeldAlike
  <2> QED
    BY <2>2, <2>3, HoldsBut
<1>5. CASE Leaves(s)
  <2>0. PICK l \in DOMAIN lumis : l = stream[s].lumi
    BY <1>5, PlaceFacts DEF Leaves
  <2>1. /\ lumis[l].phase = "open" /\ lumis'[l].phase \in {"open", "end"} /\ LumisBut(l)
        /\ UNCHANGED runs
    BY <1>5, <2>0, InFacts, InList DEF Leaves, LumiTo, LumisBut
  <2>2. LumiHeld(l)' = LumiHeld(l)
    BY <2>1, HeldAlike
  <2> QED
    BY <2>1, <2>2, HeldAlike DEF HoldsOn, LumisBut
<1>6. ASSUME NEW ls, Stops(s, ls)
      PROVE  HoldsOn({}, {})
  <2>0. PICK l \in DOMAIN lumis : l = stream[s].lumi
    BY <1>6, StopsFacts DEF Stops
  <2>1. PICK r \in DOMAIN runs : r = lumis[l].run
    BY InList
  <2>2. /\ LumiTo(ls, l, lumis[l].phase, TRUE, "stop", TRUE, lumis[l].joined, lumis[l].joined)
        /\ LumiMade(ls, r) \/ lumis' = ls
    BY <1>6, <2>0, <2>1, StopsFacts, CurrentFacts DEF Stops
  <2>3. lumis'[l].phase = lumis[l].phase /\ LumisBut(l)
    BY <2>2 DEF LumiTo, LumiMade, LumisBut
  <2>4. UNCHANGED runs \/ (runs[r].phase = "open" /\ RunMoves(runs', r, "endSync"))
    BY <1>6, <2>0, <2>1, StopsFacts, CurrentFacts DEF Stops
  <2>5. RunsBut(r) /\ BeginHeld(r)' = BeginHeld(r) /\ EndHeld(r)' = EndHeld(r)
    <3>1. CASE UNCHANGED runs
      BY <3>1, HeldAlike DEF RunsBut
    <3>2. CASE runs[r].phase = "open" /\ RunMoves(runs', r, "endSync")
      BY <3>2, HeldAlike DEF RunsBut, RunMoves, RunTo
    <3> QED
      BY <2>4, <3>1, <3>2
  <2>6. LumiHeld(l)' = LumiHeld(l)
    BY <2>3, HeldAlike
  <2> QED
    BY <2>3, <2>5, <2>6, HoldsBut
<1> QED
  BY <1>1, <1>2, <1>3, <1>4, <1>5, <1>6 DEF StreamChange, HasBegun

LEMMA MainHolds ==
  ASSUME TaskInv,
         \/ MakesRun \/ UNCHANGED <<runs, lumis, stream>>
         \/ \E r \in DOMAIN runs : \E phase \in RunPhases : RunGoesOn(r, phase)
         \/ \E l \in DOMAIN lumis : Resumes(l) \/ CallsOff(l)
  PROVE  HoldsOn({}, {})
<1>1. CASE MakesRun \/ UNCHANGED <<runs, lumis, stream>>
  BY <1>1, HeldAlike DEF MakesRun, RunMade, HoldsOn
<1>2. CASE \E r \in DOMAIN runs : \E phase \in RunPhases : RunGoesOn(r, phase)
  BY <1>2, RunHoldsOn
<1>3. ASSUME NEW CONSTANT l, l \in DOMAIN lumis, Resumes(l)
      PROVE  HoldsOn({}, {})
  <2>1. PICK r \in DOMAIN runs : r = lumis[l].run
    BY <1>3, InList
  <2>2. /\ runs'[r].phase = runs[r].phase /\ runs'[r].toBegin = runs[r].toBegin
        /\ RunsBut(r) /\ lumis'[l].phase = lumis[l].phase /\ LumisBut(l)
    BY <1>3, <2>1 DEF Resumes, RunMoves, RunTo, LumiTo, RunsBut, LumisBut
  <2>3. BeginHeld(r)' = BeginHeld(r) /\ EndHeld(r)' = EndHeld(r) /\ LumiHeld(l)' = LumiHeld(l)
    BY <2>2, HeldAlike
  <2> QED
    BY <2>2, <2>3, HoldsBut
<1>4. ASSUME NEW CONSTANT l, l \in DOMAIN lumis, CallsOff(l)
      PROVE  HoldsOn({}, {})
  <2>1. lumis'[l].phase = lumis[l].phase /\ LumisBut(l) /\ UNCHANGED runs
    BY <1>4 DEF CallsOff, LumiTo, LumisBut
  <2>2. LumiHeld(l)' = LumiHeld(l)
    BY <2>1, HeldAlike
  <2> QED
    BY <2>1, <2>2, HeldAlike DEF HoldsOn, LumisBut
<1> QED
  BY <1>1, <1>2, <1>3, <1>4

LEMMA RunStepPauses ==
  ASSUME TaskInv, NEW CONSTANT r, r \in DOMAIN runs, RunStep(r)
  PROVE  PausesCounted'
<1>1. RunChange(r)
  BY RunStepChange
<1>2. r \in DOMAIN runs' /\ HoldsOn({r}, {}) /\ runs'[r].toBegin = runs[r].toBegin
  BY <1>1, RunHolds
<1>3. runs[r].phase \in NotBegun => runs[r].toBegin # 0
  BY NFacts DEF TaskInv, RunsCounted
<1>4. iovPauses \in Int /\ iovPauses + 0 = iovPauses
  BY DEF TaskInv, Shape
<1>5. /\ BeginHeld(r)' = (runs'[r].phase \notin {"sync", "dropped"} /\ runs[r].toBegin # 0)
      /\ EndHeld(r)' = (runs'[r].phase = "ending")
  BY <1>2 DEF BeginHeld, EndHeld
<1>6. CASE SyncRun(r)
  <2>1. runs[r].phase = "sync" /\ iovPauses' = iovPauses + 1
    BY <1>6 DEF SyncRun, SyncIOV
  <2>2. runs'[r].phase = "queue"
    BY <1>6, SyncRunFacts DEF RunAdvances, RunMoves, RunTo
  <2> QED
    BY <1>2, <1>3, <1>4, <1>5, <2>1, <2>2, RunPauses DEF BeginHeld, EndHeld, Bit, NotBegun
<1>7. CASE StartRun(r) \/ ReadRun(r) \/ MergeRun(r)
  <2>1. runs[r].phase \in {"queue", "read", "merge"}
    <3>1. CASE StartRun(r)
      BY <3>1 DEF StartRun
    <3>2. CASE ReadRun(r)
      BY <3>2, AtSourceFacts DEF ReadRun, SourceTask
    <3>3. CASE MergeRun(r)
      BY <3>3, AtSourceFacts DEF MergeRun, SourceTask
    <3> QED
      BY <1>7, <3>1, <3>2, <3>3
  <2>2. CASE DropRun(r)
    <3>1. runs'[r].phase = "dropped" /\ iovPauses' = iovPauses - 1
      BY <2>2, DropRunFacts DEF DropRun, RunMoves, RunTo
    <3> QED
      BY <1>2, <1>3, <1>4, <1>5, <2>1, <3>1, RunPauses DEF BeginHeld, EndHeld, Bit, NotBegun
  <2>3. ASSUME NEW phase \in {"read", "begin", "merge"}, UNCHANGED iovPauses,
               runs' = [runs EXCEPT ![r].phase = phase]
        PROVE  PausesCounted'
    <3>1. runs'[r].phase = phase
      BY <2>3, InList DEF RunRecord, RunFields
    <3>2. BeginHeld(r)' = BeginHeld(r) /\ EndHeld(r)' = EndHeld(r)
      BY <1>2, <2>1, <3>1, HeldAlike
    <3>3. HoldsOn({}, {})
      BY <1>2, <3>2 DEF HoldsOn
    <3> QED
      BY <2>3, <3>3, PausesStay
  <2> QED
    BY <1>7, <2>2, <2>3 DEF StartRun, ReadRun, MergeRun
<1>8. CASE GlobalBeginRun(r) \/ NextItem(r)
  <2>1. UNCHANGED iovPauses
    BY <1>8 DEF GlobalBeginRun, NextItem
  <2>2. HoldsOn({}, {})
    BY <1>8, GlobalBeginRunFacts, NextItemFacts, RunHoldsOn
  <2> QED
    BY <2>1, <2>2, PausesStay
<1>9. CASE SyncEndRun(r)
  <2>1. runs[r].phase = "endSync" /\ iovPauses' = iovPauses + 1
    BY <1>9 DEF SyncEndRun, SyncIOV
  <2>2. runs'[r].phase = "ending"
    <3>1. PICK rs : RunEnds(r, rs)
      BY <1>9, SyncEndRunFacts
    <3> QED
      BY <3>1 DEF RunEnds, RunMoves, RunTo, RunMade
  <2> QED
    BY <1>2, <1>4, <1>5, <2>1, <2>2, RunPauses DEF BeginHeld, EndHeld, Bit
<1>10. CASE GlobalEndRun(r)
  <2>1. runs[r].phase = "ending" /\ iovPauses' = iovPauses - 1
    BY <1>10 DEF GlobalEndRun
  <2>2. runs'[r].phase = "closed"
    BY <1>10, GlobalEndRunFacts DEF RunAdvances, RunMoves, RunTo
  <2> QED
    BY <1>2, <1>4, <1>5, <2>1, <2>2, RunPauses DEF BeginHeld, EndHeld, Bit
<1> QED
  BY <1>6, <1>7, <1>8, <1>9, <1>10 DEF RunStep

LEMMA LumiStepPauses ==
  ASSUME TaskInv, NEW CONSTANT l, l \in DOMAIN lumis, LumiStep(l)
  PROVE  PausesCounted'
<1>1. LumiChange(l)
  BY LumiStepChange
<1>2. l \in DOMAIN lumis' /\ HoldsOn({}, {l})
  BY <1>1, LumiHolds
<1>3. iovPauses \in Int /\ iovPauses + 0 = iovPauses
  BY DEF TaskInv, Shape
<1>4. LumiHeld(l)' = (lumis'[l].phase \notin {"sync", "closed", "dropped"})
  BY DEF LumiHeld
<1>5. ASSUME UNCHANGED iovPauses, LumiHeld(l)' = LumiHeld(l)
      PROVE  PausesCounted'
  <2>1. HoldsOn({}, {})
    BY <1>2, <1>5 DEF HoldsOn
  <2> QED
    BY <1>5, <2>1, PausesStay
<1>6. CASE SyncLumi(l)
  <2>1. lumis[l].phase = "sync" /\ iovPauses' = iovPauses + 1
    BY <1>6 DEF SyncLumi, SyncIOV
  <2>2. lumis'[l].phase = "queue"
    BY <1>6, SyncLumiFacts DEF LumiAdvances, LumiMoves, LumiTo
  <2> QED
    BY <1>2, <1>3, <1>4, <2>1, <2>2, LumiPauses DEF LumiHeld, Bit
<1>7. CASE StartLumi(l) \/ ReadLumi(l)
  <2>1. lumis[l].phase \in {"queue", "read"}
    <3>1. CASE StartLumi(l)
      BY <3>1 DEF StartLumi
    <3>2. CASE ReadLumi(l)
      BY <3>2, AtSourceFacts DEF ReadLumi, SourceTask
    <3> QED
      BY <1>7, <3>1, <3>2
  <2>2. CASE DropLumi(l)
    <3>1. lumis'[l].phase = "dropped" /\ iovPauses' = iovPauses - 1
      BY <2>2, InList DEF DropLumi, LumiRecord, LumiFields
    <3> QED
      BY <1>2, <1>3, <1>4, <2>1, <3>1, LumiPauses DEF LumiHeld, Bit
  <2>3. ASSUME NEW phase \in {"read", "begin", "merge"}, UNCHANGED iovPauses,
               lumis' = [lumis EXCEPT ![l].phase = phase]
        PROVE  PausesCounted'
    <3>1. lumis'[l].phase = phase
      BY <2>3, InList DEF LumiRecord, LumiFields
    <3> QED
      BY <1>5, <2>1, <2>3, <3>1, HeldAlike
  <2> QED
    BY <1>7, <2>2, <2>3 DEF StartLumi, ReadLumi
<1>8. CASE MergeLumi(l) \/ GlobalBeginLumi(l)
  <2>1. lumis[l].phase \in {"merge", "begin"} /\ UNCHANGED iovPauses
    <3>1. CASE MergeLumi(l)
      BY <3>1, AtSourceFacts DEF MergeLumi, SourceTask
    <3>2. CASE GlobalBeginLumi(l)
      BY <3>2 DEF GlobalBeginLumi
    <3> QED
      BY <1>8, <3>1, <3>2
  <2>2. lumis'[l].phase \in {"begin", "end", "open"}
    <3>1. CASE EndUnbegunLumi(l)
      BY <3>1, InList DEF EndUnbegunLumi, LumiRecord, LumiFields
    <3>2. CASE lumis' = [lumis EXCEPT ![l].phase = "begin"]
      BY <3>2, InList DEF LumiRecord, LumiFields
    <3>3. CASE lumis' = [lumis EXCEPT ![l].phase = "open", ![l].ok = TRUE]
      BY <3>3, InList DEF LumiRecord, LumiFields
    <3> QED
      BY <1>8, <3>1, <3>2, <3>3 DEF MergeLumi, GlobalBeginLumi
  <2> QED
    BY <1>5, <2>1, <2>2, HeldAlike
<1>9. CASE GlobalEndLumi(l)
  <2>1. lumis[l].phase = "end" /\ iovPauses' = iovPauses - 1
    BY <1>9 DEF GlobalEndLumi
  <2>2. lumis'[l].phase = "closed"
    BY <1>9, GlobalEndLumiFacts DEF LumiEnds, LumiMoves, LumiTo
  <2> QED
    BY <1>2, <1>3, <1>4, <2>1, <2>2, LumiPauses DEF LumiHeld, Bit
<1> QED
  BY <1>6, <1>7, <1>8, <1>9 DEF LumiStep

LEMMA StreamStepPauses ==
  ASSUME TaskInv, NEW CONSTANT s \in Streams, StreamStep(s)
  PROVE  PausesCounted'
<1>1. CASE StreamBeginRun(s)
  <2>1. HasBegun(s) /\ stream[s].doing = "beginRun"
    BY <1>1, StreamBeginRunFacts DEF HasBegun
  <2>2. PICK r \in DOMAIN runs : r = stream[s].run
    BY <2>1, PlaceFacts
  <2>3. /\ runs'[r].phase = runs[r].phase /\ runs'[r].toBegin = runs[r].toBegin - 1
        /\ RunsBut(r) /\ UNCHANGED lumis /\ r \in DOMAIN runs'
    BY <2>1, <2>2 DEF HasBegun, RunTo, RunsBut
  <2>4. HoldsOn({r}, {})
    BY <2>3, HeldAlike DEF HoldsOn, RunsBut
  <2>5. /\ runs[r].phase \notin {"sync", "dropped"}
        /\ runs[r].toBegin \in Int /\ runs[r].toBegin # 0
    <3>1. s \in Beginning(r) /\ s \in Unfinished(r)
      BY <2>1, <2>2 DEF Beginning, Unfinished
    <3>2. runs[r].phase \notin NotBegun /\ runs[r].toBegin = Cardinality(Beginning(r))
      BY <3>1 DEF TaskInv, RunsCounted
    <3>3. Cardinality(Beginning(r)) \in Nat /\ Cardinality(Beginning(r)) # 0
      BY <3>1, FiniteSets, FS_EmptySet
    <3> QED
      BY <3>2, <3>3 DEF NotBegun
  <2>6. iovPauses' = (IF runs[r].toBegin = 1 THEN iovPauses - 1 ELSE iovPauses) /\ iovPauses \in Int
    BY <1>1, <2>2 DEF StreamBeginRun, TaskInv, Shape
  <2>7. BeginHeld(r) /\ BeginHeld(r)' = (runs[r].toBegin # 1)
    BY <2>3, <2>5 DEF BeginHeld
  <2>8. EndHeld(r)' = EndHeld(r)
    BY <2>3 DEF EndHeld
  <2>9. EndHeld(r)' \in BOOLEAN
    BY DEF EndHeld
  <2>10. iovPauses' = iovPauses + Bit(BeginHeld(r)') - Bit(BeginHeld(r))
                                + Bit(EndHeld(r)') - Bit(EndHeld(r))
    <3>1. Bit(BeginHeld(r)) = 1 /\ Bit(EndHeld(r)) \in Int /\ Bit(EndHeld(r)') = Bit(EndHeld(r))
      BY <2>7, <2>8 DEF Bit
    <3>2. CASE runs[r].toBegin = 1
      <4>1. Bit(BeginHeld(r)') = 0
        BY <2>7, <3>2 DEF Bit
      <4> QED
        BY <2>6, <3>1, <3>2, <4>1
    <3>3. CASE runs[r].toBegin # 1
      <4>1. Bit(BeginHeld(r)') = 1
        BY <2>7, <3>3 DEF Bit
      <4> QED
        BY <2>6, <3>1, <3>3, <4>1
    <3> QED
      BY <3>2, <3>3
  <2> QED
    BY <2>3, <2>4, <2>7, <2>9, <2>10, RunPauses
<1>2. CASE ~StreamBeginRun(s)
  <2>1. UNCHANGED iovPauses
    BY <1>2 DEF StreamStep, StreamTake, StreamReady, StreamResume, ReadEvent, SourceThrows,
                NoEvent, StreamEndLumi, StreamEndRun
  <2>2. stream[s].doing # "beginRun"
    <3>1. CASE StreamTake(s)
      BY <3>1, TakeFacts DEF StreamTake
    <3>2. CASE ReadEvent(s) \/ SourceThrows(s) \/ NoEvent(s)
      <4>1. AtSource(<<"event", s>>)
        BY <3>2 DEF ReadEvent, SourceThrows, NoEvent
      <4> QED
        BY <4>1, AtSourceFacts DEF SourceTask
    <3>3. CASE StreamReady(s) \/ StreamResume(s) \/ StreamEndLumi(s) \/ StreamEndRun(s)
      BY <3>3 DEF StreamReady, StreamResume, StreamEndLumi, StreamEndRun
    <3> QED
      BY <1>2, <3>1, <3>2, <3>3 DEF StreamStep
  <2>3. HoldsOn({}, {})
    <3>1. CASE StreamChange(s)
      BY <2>2, <3>1, StreamHolds
    <3>2. CASE UNCHANGED <<runs, lumis, stream>>
      BY <3>2, MainHolds
    <3> QED
      BY <3>1, <3>2, StreamStepChange
  <2> QED
    BY <2>1, <2>3, PausesStay
<1> QED
  BY <1>1, <1>2

Counters == iovPauses \in Int /\ failed \in BOOLEAN /\ throws \in Nat

LEMMA Tells ==
  ASSUME Counters, NEW x \in BOOLEAN, TryAndTell(x)
  PROVE  throws' \in Nat /\ failed' \in BOOLEAN
<1>1. throws' \in Nat
  BY DEF Counters, TryAndTell, Try
<1>2. failed' \in BOOLEAN
  BY DEF Counters, TryAndTell
<1> QED
  BY <1>1, <1>2

(* The whole of the tasks' invariant, but for the main thread's steps.     *)
LEMMA TaskStepInv ==
  ASSUME TaskInv, TaskStep
  PROVE  TaskInv'
<1>1. Change
  BY TaskStepChange
<1>2. SourceWaitedFor' /\ sourceQ' \in Seq(SourceTasks)
  BY RunSource, LumiSource, StreamSource DEF TaskStep
<1>3. PausesCounted'
  BY RunStepPauses, LumiStepPauses, StreamStepPauses DEF TaskStep
<1>4. Counters'
  <2>0. Counters
    BY DEF TaskInv, Shape, Counters
  <2>1. ASSUME NEW r \in DOMAIN runs, RunStep(r)
        PROVE  Counters'
    <3>1. CASE SyncRun(r)
      BY <2>0, <3>1 DEF SyncRun, SyncIOV, TryAndTell, Try, Counters
    <3>2. CASE StartRun(r)
      BY <2>0, <3>2 DEF StartRun, DropRun, Counters
    <3>3. CASE ReadRun(r)
      BY <2>0, <3>3 DEF ReadRun, DropRun, TryAndTell, Try, Counters
    <3>4. CASE MergeRun(r)
      <4>1. TryAndTell(TRUE) \/ TryAndTell(FALSE)
        BY <3>4 DEF MergeRun
      <4>2. UNCHANGED iovPauses \/ iovPauses' = iovPauses - 1
        BY <3>4 DEF MergeRun, DropRun
      <4>3. iovPauses' \in Int
        BY <2>0, <4>2 DEF Counters
      <4>4. throws' \in Nat /\ failed' \in BOOLEAN
        BY <2>0, <4>1, Tells
      <4> QED
        BY <4>3, <4>4 DEF Counters
    <3>5. CASE GlobalBeginRun(r)
      BY <2>0, <3>5 DEF GlobalBeginRun, TryAndTell, Try, Counters
    <3>6. CASE NextItem(r)
      <4>1. TryAndTell(TRUE) \/ TryAndTell(FALSE)
        BY <3>6 DEF NextItem
      <4>2. UNCHANGED iovPauses
        BY <3>6 DEF NextItem
      <4> QED
        BY <2>0, <4>1, <4>2, Tells DEF Counters
    <3>7. CASE SyncEndRun(r)
      BY <2>0, <3>7 DEF SyncEndRun, SyncIOV, TryAndTell, Try, Counters
    <3>8. CASE GlobalEndRun(r)
      BY <2>0, <3>8 DEF GlobalEndRun, TryAndTell, Try, Counters
    <3> QED
      BY <2>1, <3>1, <3>2, <3>3, <3>4, <3>5, <3>6, <3>7, <3>8 DEF RunStep
  <2>2. ASSUME NEW l \in DOMAIN lumis, LumiStep(l)
        PROVE  Counters'
    <3>1. CASE SyncLumi(l)
      BY <2>0, <3>1 DEF SyncLumi, SyncIOV, TryAndTell, Try, Counters
    <3>2. CASE StartLumi(l)
      BY <2>0, <3>2 DEF StartLumi, DropLumi, Counters
    <3>3. CASE ReadLumi(l)
      BY <2>0, <3>3 DEF ReadLumi, DropLumi, TryAndTell, Try, Counters
    <3>4. CASE MergeLumi(l)
      <4>1. TryAndTell(TRUE) \/ TryAndTell(FALSE)
        BY <3>4 DEF MergeLumi
      <4>2. UNCHANGED iovPauses
        BY <3>4 DEF MergeLumi
      <4> QED
        BY <2>0, <4>1, <4>2, Tells DEF Counters
    <3>5. CASE GlobalBeginLumi(l)
      <4>1. TryAndTell(TRUE) \/ TryAndTell(FALSE)
        BY <3>5 DEF GlobalBeginLumi
      <4>2. UNCHANGED iovPauses
        BY <3>5 DEF GlobalBeginLumi
      <4> QED
        BY <2>0, <4>1, <4>2, Tells DEF Counters
    <3>6. CASE GlobalEndLumi(l)
      BY <2>0, <3>6 DEF GlobalEndLumi, TryAndTell, Try, Counters
    <3> QED
      BY <2>2, <3>1, <3>2, <3>3, <3>4, <3>5, <3>6 DEF LumiStep
  <2>3. ASSUME NEW s \in Streams, StreamStep(s)
        PROVE  Counters'
    <3>1. CASE StreamTake(s)
      BY <2>0, <3>1 DEF StreamTake, Counters
    <3>2. CASE StreamBeginRun(s)
      BY <2>0, <3>2 DEF StreamBeginRun, TryAndTell, Try, Counters
    <3>3. CASE StreamReady(s)
      BY <2>0, <3>3 DEF StreamReady, TryAndTell, Try, Counters
    <3>4. CASE StreamResume(s)
      BY <2>0, <3>4 DEF StreamResume, Counters
    <3>5. CASE ReadEvent(s)
      BY <2>0, <3>5 DEF ReadEvent, Counters
    <3>6. CASE SourceThrows(s)
      BY <2>0, <3>6 DEF SourceThrows, TryAndTell, Try, Counters
    <3>7. CASE NoEvent(s)
      BY <2>0, <3>7 DEF NoEvent, Counters
    <3>8. CASE StreamEndLumi(s)
      BY <2>0, <3>8 DEF StreamEndLumi, TryAndTell, Try, Counters
    <3>9. CASE StreamEndRun(s)
      BY <2>0, <3>9 DEF StreamEndRun, TryAndTell, Try, Counters
    <3> QED
      BY <2>3, <3>1, <3>2, <3>3, <3>4, <3>5, <3>6, <3>7, <3>8, <3>9 DEF StreamStep
  <2> QED
    BY <2>1, <2>2, <2>3 DEF TaskStep
<1>5. Shape'
  BY <1>1, <1>2, <1>4, RecordsKept DEF Shape, Counters
<1> QED
  BY <1>1, <1>2, <1>3, <1>5, RunsInTurnKept, LumisInTurnKept, StreamsPlacedKept,
     QueuesInOrderKept, QueuesEndKept, RunsCountedKept, BegunOnceKept, LumisCountedKept,
     LumisJoinedKept, WithinLimitsKept DEF TaskInv

(* The main thread acts only when nothing is under way, and takes nothing  *)
(* from the source's queue.                                                *)
LEMMA MainGoes ==
  ASSUME TaskInv, MainInTurn, MainStep
  PROVE  /\ todo # <<>> /\ ~Busy /\ UNCHANGED <<sourceQ, iovPauses>> /\ Counters'
<1>0. Counters
  BY DEF TaskInv, Shape, Counters
<1>1. CASE NextTransition
  <2>1. Try(TRUE) \/ Try(FALSE)
    BY <1>1 DEF NextTransition
  <2>2. UNCHANGED <<sourceQ, iovPauses, failed>> /\ todo # <<>> /\ Head(todo) = "next"
    BY <1>1 DEF NextTransition, Call
  <2> QED
    BY <1>0, <2>1, <2>2, MainQuiet DEF Try, Counters
<1>2. CASE OpenFile
  <2>1. Try(TRUE) \/ Try(FALSE)
    BY <1>2 DEF OpenFile
  <2>2. UNCHANGED <<sourceQ, iovPauses, failed>> /\ todo # <<>> /\ Head(todo) \in Opening
    BY <1>2 DEF OpenFile
  <2> QED
    BY <1>0, <2>1, <2>2, MainQuiet DEF Try, Counters, Opening
<1>3. CASE CloseFile
  <2>1. Try(TRUE) \/ Try(FALSE)
    BY <1>3 DEF CloseFile
  <2>2. UNCHANGED <<sourceQ, iovPauses, failed>> /\ todo # <<>> /\ Head(todo) \in Closing
    BY <1>3 DEF CloseFile
  <2> QED
    BY <1>0, <2>1, <2>2, MainQuiet DEF Try, Counters, Closing
<1>4. CASE MarkClosing \/ Destroy
  <2>1. UNCHANGED taskVars /\ todo # <<>> /\ Head(todo) \in {"mark", "destroy"}
    BY <1>4 DEF MarkClosing, Destroy, Call
  <2> QED
    BY <1>0, <2>1, MainQuiet DEF taskVars, vars, Counters
<1>5. CASE BeginRuns
  <2>1. UNCHANGED <<sourceQ, iovPauses, throws>> /\ failed' = FALSE /\ Call("processRuns")
    BY <1>5 DEF BeginRuns
  <2> QED
    BY <1>0, <2>1, MainQuiet DEF Counters, Call
<1>6. CASE ContinueRun
  <2>1. UNCHANGED <<sourceQ, iovPauses>> /\ Call("processRuns")
    BY <1>6 DEF ContinueRun
  <2>2. Try(TRUE) \/ Try(FALSE)
    BY <1>6 DEF ContinueRun
  <2>3. failed' = failed \/ failed' \in BOOLEAN
    BY <1>6 DEF ContinueRun
  <2>4. throws' \in Nat
    BY <1>0, <2>2 DEF Try, Counters
  <2>5. failed' \in BOOLEAN
    BY <1>0, <2>3 DEF Counters
  <2> QED
    BY <1>0, <2>1, <2>4, <2>5, MainQuiet DEF Counters, Call
<1>7. CASE Wait
  <2>1. UNCHANGED taskVars /\ todo # <<>> /\ ~Busy
    BY <1>7 DEF Wait, Call
  <2> QED
    BY <1>0, <2>1 DEF taskVars, vars, Counters
<1>8. CASE EndUnfinishedLumi
  <2>1. UNCHANGED <<sourceQ, iovPauses, throws>> /\ failed' = FALSE /\ Call("endLumis")
    BY <1>8 DEF EndUnfinishedLumi
  <2> QED
    BY <1>0, <2>1, MainQuiet DEF Counters, Call
<1>9. CASE EndUnfinishedRun
  <2>1. UNCHANGED <<sourceQ, iovPauses, throws>> /\ failed' = FALSE /\ Call("endRun")
    BY <1>9 DEF EndUnfinishedRun
  <2> QED
    BY <1>0, <2>1, MainQuiet DEF Counters, Call
<1>10. CASE WaitEnd
  <2>1. UNCHANGED taskVars /\ todo # <<>> /\ ~Busy
    BY <1>10 DEF WaitEnd, Call
  <2> QED
    BY <1>0, <2>1 DEF taskVars, vars, Counters
<1> QED
  BY <1>1, <1>2, <1>3, <1>4, <1>5, <1>6, <1>7, <1>8, <1>9, <1>10 DEF MainStep

LEMMA MainStepInv ==
  ASSUME TaskInv, MainInTurn, MainStep
  PROVE  TaskInv'
<1>1. Change
  BY MainStepChange
<1>2. ~Busy /\ UNCHANGED <<sourceQ, iovPauses>> /\ Counters'
  BY MainGoes
<1>3. sourceQ' = <<>>
  BY <1>2, QuietSource
<1>4. SourceWaitedFor' /\ sourceQ' \in Seq(SourceTasks)
  BY <1>3 DEF SourceWaitedFor
<1>5. HoldsOn({}, {})
  <2>1. CASE \/ NextTransition \/ OpenFile \/ CloseFile \/ MarkClosing \/ Destroy \/ Wait
             \/ WaitEnd
    <3>1. UNCHANGED <<runs, lumis, stream>>
      BY <2>1 DEF NextTransition, OpenFile, CloseFile, MarkClosing, Destroy, Wait, WaitEnd,
                  taskVars, vars
    <3> QED
      BY <3>1, MainHolds
  <2>2. CASE BeginRuns
    BY <2>2, BeginRunsFacts, MainHolds
  <2>3. CASE ContinueRun
    BY <2>3, ContinueRunFacts, MainHolds
  <2>4. CASE EndUnfinishedLumi
    BY <2>4, EndUnfinishedLumiFacts, MainHolds
  <2>5. CASE EndUnfinishedRun
    BY <2>5, EndUnfinishedRunFacts, MainHolds DEF RunPhases
  <2> QED
    BY <2>1, <2>2, <2>3, <2>4, <2>5 DEF MainStep
<1>6. PausesCounted'
  BY <1>2, <1>5, PausesStay
<1>7. Shape'
  BY <1>1, <1>2, <1>4, RecordsKept DEF Shape, Counters
<1> QED
  BY <1>1, <1>4, <1>6, <1>7, RunsInTurnKept, LumisInTurnKept, StreamsPlacedKept,
     QueuesInOrderKept, QueuesEndKept, RunsCountedKept, BegunOnceKept, LumisCountedKept,
     LumisJoinedKept, WithinLimitsKept DEF TaskInv

LEMMA TaskInvInit == Init => TaskInv
<1> SUFFICES ASSUME Init PROVE TaskInv
  OBVIOUS
<1>1. /\ runs = <<>> /\ lumis = <<>> /\ sourceQ = <<>> /\ iovPauses = 0 /\ failed = FALSE
      /\ throws = 0 /\ DOMAIN runs = {} /\ DOMAIN lumis = {} /\ DOMAIN sourceQ = {}
      /\ Len(runs) = 0 /\ Len(lumis) = 0
  BY DEF Init
<1>2. stream = [s \in Streams |-> [run |-> 0, lumi |-> 0, doing |-> "nothing",
                                   queue |-> <<>>, pauses |-> 0]]
  BY DEF Init
<1>3. \A s \in Streams : /\ stream[s].run = 0 /\ stream[s].lumi = 0 /\ stream[s].pauses = 0
                         /\ stream[s].doing = "nothing" /\ stream[s].queue = <<>>
                         /\ DOMAIN stream[s].queue = {}
  BY <1>2
<1>4. IsList(runs) /\ IsList(lumis)
  <2>1. <<>> \in Seq({runs[i] : i \in DOMAIN runs}) /\ <<>> \in Seq({lumis[i] : i \in DOMAIN lumis})
    OBVIOUS
  <2> QED
    BY <1>1, <2>1 DEF IsList
<1>5. stream \in [Streams -> StreamRecords]
  <2>1. <<>> \in Seq(StreamTasks)
    OBVIOUS
  <2> QED
    BY <1>2, <2>1 DEF StreamRecords, Doings
<1>6. Shape
  <2>1. RecordTypes
    BY <1>1, <1>4, <1>5 DEF RecordTypes
  <2>2. sourceQ \in Seq(SourceTasks)
    BY <1>1
  <2>3. iovPauses \in Int /\ throws \in Nat
    BY <1>1
  <2>4. failed \in BOOLEAN
    BY <1>1
  <2> QED
    BY <2>1, <2>2, <2>3, <2>4 DEF Shape
<1>7. RunsInTurn /\ LumisInTurn /\ SourceWaitedFor /\ RunsCounted /\ LumisCounted /\ LumisJoined
  BY <1>1 DEF RunsInTurn, LumisInTurn, SourceWaitedFor, RunsCounted, LumisCounted, LumisJoined
<1>8. StreamsPlaced
  BY <1>3 DEF StreamsPlaced, InPlace
<1>9. QueuesInOrder /\ BegunOnce
  BY <1>3 DEF QueuesInOrder, QueueInOrder, BegunOnce
<1>10. QueuesEnd
  BY <1>1, <1>3 DEF QueuesEnd, QueueEnd, InRun
<1>11. PausesCounted
  <2>1. HeldToBegin = {} /\ HeldToEnd = {} /\ HeldByLumi = {}
    BY <1>1 DEF HeldToBegin, HeldToEnd, HeldByLumi
  <2> QED
    BY <1>1, <2>1, FS_EmptySet DEF PausesCounted
<1>12. WithinLimits
  <2>1. OpenRuns = {} /\ OpenLumis = {}
    BY <1>1, AreOpen
  <2> QED
    BY <2>1, FS_EmptySet, EventProcessorAssumption DEF WithinLimits
<1> QED
  BY <1>6, <1>7, <1>8, <1>9, <1>10, <1>11, <1>12 DEF TaskInv

(* A task that throws tells the main thread.                               *)
LEMMA TaskTells ==
  ASSUME TaskStep
  PROVE  UNCHANGED <<failed, throws>> \/ TryAndTell(TRUE) \/ TryAndTell(FALSE)
<1>1. ASSUME NEW r \in DOMAIN runs, RunStep(r)
      PROVE  UNCHANGED <<failed, throws>> \/ TryAndTell(TRUE) \/ TryAndTell(FALSE)
  <2>1. CASE SyncRun(r) \/ StartRun(r)
    BY <2>1 DEF SyncRun, StartRun
  <2>2. CASE ReadRun(r)
    BY <2>2 DEF ReadRun
  <2>3. CASE MergeRun(r)
    BY <2>3 DEF MergeRun
  <2>4. CASE GlobalBeginRun(r)
    BY <2>4 DEF GlobalBeginRun
  <2>5. CASE NextItem(r)
    BY <2>5 DEF NextItem
  <2>6. CASE SyncEndRun(r) \/ GlobalEndRun(r)
    BY <2>6 DEF SyncEndRun, GlobalEndRun
  <2> QED
    BY <1>1, <2>1, <2>2, <2>3, <2>4, <2>5, <2>6 DEF RunStep
<1>2. ASSUME NEW l \in DOMAIN lumis, LumiStep(l)
      PROVE  UNCHANGED <<failed, throws>> \/ TryAndTell(TRUE) \/ TryAndTell(FALSE)
  <2>1. CASE SyncLumi(l) \/ StartLumi(l)
    BY <2>1 DEF SyncLumi, StartLumi
  <2>2. CASE ReadLumi(l)
    BY <2>2 DEF ReadLumi
  <2>3. CASE MergeLumi(l)
    BY <2>3 DEF MergeLumi
  <2>4. CASE GlobalBeginLumi(l) \/ GlobalEndLumi(l)
    BY <2>4 DEF GlobalBeginLumi, GlobalEndLumi
  <2> QED
    BY <1>2, <2>1, <2>2, <2>3, <2>4 DEF LumiStep
<1>3. ASSUME NEW s \in Streams, StreamStep(s)
      PROVE  UNCHANGED <<failed, throws>> \/ TryAndTell(TRUE) \/ TryAndTell(FALSE)
  <2>1. CASE StreamTake(s) \/ StreamResume(s) \/ ReadEvent(s) \/ NoEvent(s)
    BY <2>1 DEF StreamTake, StreamResume, ReadEvent, NoEvent
  <2>2. CASE StreamBeginRun(s) \/ StreamReady(s) \/ SourceThrows(s)
    BY <2>2 DEF StreamBeginRun, StreamReady, SourceThrows
  <2>3. CASE StreamEndLumi(s) \/ StreamEndRun(s)
    BY <2>3 DEF StreamEndLumi, StreamEndRun
  <2> QED
    BY <1>3, <2>1, <2>2, <2>3 DEF StreamStep
<1> QED
  BY <1>1, <1>2, <1>3 DEF TaskStep

-----------------------------------------------------------------------------
(* While the main thread waits for nothing, no task can go on; while it    *)
(* waits for the end of a luminosity block, or of a run, nothing else      *)
(* begins.                                                                 *)

LEMMA QuietStep ==
  ASSUME TaskInv, TaskStep
  PROVE  Busy
<1> SUFFICES ASSUME ~Busy PROVE FALSE
  OBVIOUS
<1>1. AllIn(RunAt, LumiAt) /\ sourceQ = <<>>
  BY QuietFacts, QuietSource
<1>2. \A x : ~AtSource(x)
  BY <1>1 DEF AtSource
<1>3. \A r \in DOMAIN runs : runs[r].phase \in {"open", "closed", "dropped"}
  BY <1>1 DEF AllIn
<1>4. \A l \in DOMAIN lumis : lumis[l].phase \in {"open", "closed", "dropped"}
  BY <1>1 DEF AllIn
<1>5. \A s \in Streams : stream[s].doing = "nothing" /\ stream[s].queue = <<>>
  BY <1>1 DEF AllIn
<1>6. ASSUME NEW r \in DOMAIN runs, RunStep(r) PROVE FALSE
  <2>1. runs[r].phase \notin {"sync", "queue", "begin", "endSync", "ending"}
    BY <1>3
  <2> QED
    BY <1>2, <1>6, <2>1 DEF RunStep, SyncRun, StartRun, ReadRun, MergeRun, GlobalBeginRun, NextItem,
                       SyncEndRun, GlobalEndRun
<1>7. ASSUME NEW l \in DOMAIN lumis, LumiStep(l) PROVE FALSE
  <2>1. lumis[l].phase \notin {"sync", "queue", "begin", "end"}
    BY <1>4
  <2> QED
    BY <1>2, <1>7, <2>1 DEF LumiStep, SyncLumi, StartLumi, ReadLumi, MergeLumi, GlobalBeginLumi,
                       GlobalEndLumi
<1>8. ASSUME NEW s \in Streams, StreamStep(s) PROVE FALSE
  <2>1. stream[s].doing = "nothing" /\ stream[s].queue = <<>>
    BY <1>5
  <2> QED
    BY <1>2, <1>8, <2>1 DEF StreamStep, StreamTake, StreamBeginRun, StreamReady, StreamResume,
                       ReadEvent, SourceThrows, NoEvent, StreamEndLumi, StreamEndRun
<1> QED
  BY <1>6, <1>7, <1>8 DEF TaskStep

LEMMA EndingLumiKept ==
  ASSUME TaskInv, EndingLumi, TaskStep
  PROVE  EndingLumi'
<1>1. \A x : ~AtSource(x)
  BY DEF AtSource, EndingLumi
<1>2. ASSUME NEW r \in DOMAIN runs, RunStep(r) PROVE FALSE
  <2>1. runs[r].phase \notin {"sync", "queue", "begin", "endSync", "ending"}
    BY DEF EndingLumi
  <2> QED
    BY <1>1, <1>2, <2>1 DEF RunStep, SyncRun, StartRun, ReadRun, MergeRun, GlobalBeginRun, NextItem,
                       SyncEndRun, GlobalEndRun
<1>3. ASSUME NEW CONSTANT l, l \in DOMAIN lumis, LumiStep(l) PROVE EndingLumi'
  <2>1. lumis[l].phase \notin {"sync", "queue", "begin"}
    BY <1>3 DEF EndingLumi, Coming
  <2>2. GlobalEndLumi(l)
    BY <1>1, <1>3, <2>1 DEF LumiStep, SyncLumi, StartLumi, ReadLumi, MergeLumi, GlobalBeginLumi
  <2>3. LumiEnds(l) /\ UNCHANGED sourceQ
    BY <1>3, <2>2, GlobalEndLumiFacts DEF GlobalEndLumi
  <2>4. PICK r \in DOMAIN runs : r = lumis[l].run
    BY <1>3, InList
  <2>5. /\ DOMAIN runs' = DOMAIN runs /\ runs'[r].phase = runs[r].phase
        /\ \A q \in DOMAIN runs \ {r} : runs'[q] = runs[q]
        /\ DOMAIN lumis' = DOMAIN lumis /\ lumis'[l].phase = "closed"
        /\ \A k \in DOMAIN lumis \ {l} : lumis'[k] = lumis[k]
        /\ UNCHANGED <<stream, sourceQ>>
    BY <2>3, <2>4 DEF LumiEnds, LumiMoves, LumiTo, Counts, RunTo
  <2>6. \A q \in DOMAIN runs' : runs'[q].phase \in {"open", "closed", "dropped"}
    BY <2>5 DEF EndingLumi
  <2>7. \A k \in DOMAIN lumis' : lumis'[k].phase \notin Coming
                                 /\ (lumis'[k].phase = "open" => lumis'[k].noMore)
    BY <2>5 DEF EndingLumi, Coming
  <2> QED
    BY <2>5, <2>6, <2>7 DEF EndingLumi
<1>4. ASSUME NEW CONSTANT s, s \in Streams, StreamStep(s) PROVE EndingLumi'
  <2>1. stream[s].queue = <<>> /\ stream[s].doing \in {"nothing", "endLumi"}
    BY <1>4 DEF EndingLumi
  <2>2. StreamEndLumi(s)
    BY <1>1, <1>4, <2>1 DEF StreamStep, StreamTake, StreamBeginRun, StreamReady, StreamResume,
                       ReadEvent, SourceThrows, NoEvent, StreamEndRun
  <2>3. Leaves(s) /\ UNCHANGED sourceQ
    BY <1>4, <2>2, StreamEndLumiFacts DEF StreamEndLumi
  <2>4. PICK l \in DOMAIN lumis : l = stream[s].lumi
    BY <1>4, <2>3, PlaceFacts DEF Leaves
  <2>5. /\ DOMAIN lumis' = DOMAIN lumis /\ lumis'[l].phase \in {"end", lumis[l].phase}
        /\ lumis'[l].noMore = lumis[l].noMore
        /\ \A k \in DOMAIN lumis \ {l} : lumis'[k] = lumis[k]
        /\ UNCHANGED <<runs, sourceQ>>
    BY <2>3, <2>4 DEF Leaves, LumiTo
  <2>6. /\ stream'[s].lumi = 0 /\ stream'[s].doing = "nothing" /\ stream'[s].queue = <<>>
        /\ \A t \in Streams \ {s} : stream'[t] = stream[t]
    BY <2>1, <2>3 DEF Leaves, StreamTo
  <2>7. \A k \in DOMAIN lumis' : lumis'[k].phase \notin Coming
                                 /\ (lumis'[k].phase = "open" => lumis'[k].noMore)
    BY <2>5 DEF EndingLumi, Coming
  <2>8. \A t \in Streams : stream'[t].queue = <<>>
          /\ stream'[t].doing = IF stream'[t].lumi = 0 THEN "nothing" ELSE "endLumi"
    BY <2>6 DEF EndingLumi
  <2> QED
    BY <2>5, <2>7, <2>8 DEF EndingLumi
<1> QED
  BY <1>2, <1>3, <1>4 DEF TaskStep

LEMMA NoLumiFacts ==
  ASSUME TaskInv, NoLumi
  PROVE  /\ \A s \in Streams : stream[s].lumi = 0
         /\ \A s \in Streams : \A l \in DOMAIN lumis :
              Queued(s, <<"beginLumi", l>>) => lumis[l].noMore
<1>1. \A l \in DOMAIN lumis : In(l) = {}
  BY DEF TaskInv, LumisCounted, NoLumi
<1>2. \A s \in Streams : stream[s].lumi = 0
  BY <1>1, PlaceFacts DEF In
<1>3. \A s \in Streams : \A l \in DOMAIN lumis :
        Queued(s, <<"beginLumi", l>>) => lumis[l].noMore
  BY DEF TaskInv, LumisJoined, NoLumi
<1> QED
  BY <1>2, <1>3

LEMMA EndingRunKept ==
  ASSUME TaskInv, EndingRun, TaskStep
  PROVE  EndingRun'
<1>0. /\ \A l \in DOMAIN lumis : lumis[l].phase \in {"closed", "dropped"}
      /\ \A r \in DOMAIN runs : /\ runs[r].phase \in {"endSync", "ending", "closed", "dropped"}
                                /\ runs[r].phase = "endSync" => src.kind # "Run"
  BY DEF EndingRun, NoLumi
<1>1. \A s \in Streams : stream[s].doing \notin {"beginLumi", "next", "event", "endLumi", "resume"}
  BY NoLumiFacts, PlaceFacts DEF EndingRun
<1>2. \A x : ~AtSource(x)
  <2>1. \A x : ~SourceTask(x)
    BY <1>0, <1>1 DEF SourceTask
  <2> QED
    BY <2>1, AtSourceFacts
<1>3. ASSUME NEW CONSTANT r, r \in DOMAIN runs, RunStep(r) PROVE EndingRun'
  <2>1. runs[r].phase \notin {"sync", "queue", "begin"}
    BY <1>0, <1>3
  <2>2. SyncEndRun(r) \/ GlobalEndRun(r)
    BY <1>2, <1>3, <2>1 DEF RunStep, SyncRun, StartRun, ReadRun, MergeRun, GlobalBeginRun, NextItem
  <2>3. UNCHANGED <<lumis, src>>
    BY <2>2 DEF SyncEndRun, GlobalEndRun
  <2>4. /\ DOMAIN runs' = DOMAIN runs /\ runs'[r].phase \in {"ending", "closed"}
        /\ \A q \in DOMAIN runs \ {r} : runs'[q] = runs[q]
    <3>1. CASE SyncEndRun(r)
      <4>1. src.kind # "Run"
        BY <1>0, <1>3, <3>1 DEF SyncEndRun
      <4>2. PICK x \in BOOLEAN : runs' = [runs EXCEPT ![r].phase = "ending", ![r].esOK = ~x]
        BY <3>1, <4>1 DEF SyncEndRun
      <4>3. DOMAIN runs[r] = RunFields
        BY <1>3, InList DEF RunRecord
      <4> QED
        BY <1>3, <4>2, <4>3 DEF RunFields
    <3>2. CASE GlobalEndRun(r)
      BY <1>3, <3>2, GlobalEndRunFacts DEF RunAdvances, RunMoves, RunTo
    <3> QED
      BY <2>2, <3>1, <3>2
  <2> QED
    BY <1>0, <2>3, <2>4 DEF EndingRun, NoLumi
<1>4. ASSUME NEW l \in DOMAIN lumis, LumiStep(l) PROVE FALSE
  <2>1. lumis[l].phase \notin {"sync", "queue", "begin", "end"}
    BY <1>0
  <2> QED
    BY <1>2, <1>4, <2>1 DEF LumiStep, SyncLumi, StartLumi, ReadLumi, MergeLumi, GlobalBeginLumi,
                       GlobalEndLumi
<1>5. ASSUME NEW CONSTANT s, s \in Streams, StreamStep(s) PROVE EndingRun'
  <2>1. StreamTake(s) \/ StreamBeginRun(s) \/ StreamEndRun(s)
    BY <1>1, <1>2, <1>5 DEF StreamStep, StreamReady, StreamResume, ReadEvent, SourceThrows,
                       NoEvent, StreamEndLumi
  <2>2. CASE StreamTake(s)
    <3>1. UNCHANGED <<runs, src>>
      BY <2>2 DEF StreamTake
    <3>2. UNCHANGED lumis
      <4>1. BeginsRun(s) \/ EndsRun(s) \/ Joins(s) \/ Skips(s)
        BY <1>5, <2>2, StreamTakeFacts
      <4>2. ~Joins(s)
        <5> SUFFICES ASSUME Joins(s) PROVE FALSE
          OBVIOUS
        <5>1. /\ stream[s].queue # <<>> /\ Head(stream[s].queue)[1] = "beginLumi"
              /\ ~lumis[Head(stream[s].queue)[2]].noMore
          BY DEF Joins, Takes
        <5>2. PICK l \in DOMAIN lumis : Queued(s, <<"beginLumi", l>>) /\ l = Head(stream[s].queue)[2]
          <6>1. /\ Head(stream[s].queue) \in StreamTasks /\ 1 \in DOMAIN stream[s].queue
                /\ Head(stream[s].queue) = stream[s].queue[1]
                /\ Head(stream[s].queue)[2] \in DOMAIN lumis
            BY <1>5, <5>1, HeadFacts
          <6>2. PICK l \in DOMAIN lumis : l = Head(stream[s].queue)[2]
            BY <6>1
          <6> DEFINE h == Head(stream[s].queue)
          <6>3. h \in StreamTasks /\ h[1] = "beginLumi" /\ h[2] = l
            BY <5>1, <6>1, <6>2
          <6> HIDE DEF h
          <6>4. h = <<"beginLumi", l>>
            BY <6>3 DEF StreamTasks
          <6>5. stream[s].queue[1] = <<"beginLumi", l>>
            BY <6>1, <6>4 DEF h
          <6> QED
            BY <6>1, <6>2, <6>5 DEF Queued
        <5> QED
          BY <1>5, <5>1, <5>2, NoLumiFacts DEF EndingRun
      <4> QED
        BY <4>1, <4>2 DEF BeginsRun, EndsRun, Skips
    <3> QED
      BY <1>0, <3>1, <3>2 DEF EndingRun, NoLumi
  <2>3. CASE StreamBeginRun(s) \/ StreamEndRun(s)
    <3>1. UNCHANGED <<lumis, src>>
      BY <2>3 DEF StreamBeginRun, StreamEndRun
    <3>2. PICK r \in DOMAIN runs : r = stream[s].run
      BY <1>5, <2>3, PlaceFacts DEF StreamBeginRun, StreamEndRun
    <3>3. /\ DOMAIN runs' = DOMAIN runs /\ runs'[r].phase = runs[r].phase
          /\ \A q \in DOMAIN runs \ {r} : runs'[q] = runs[q]
      BY <1>5, <2>3, <3>2, StreamBeginRunFacts, StreamEndRunFacts DEF HasBegun, HasEnded, RunTo
    <3> QED
      BY <1>0, <3>1, <3>3 DEF EndingRun, NoLumi
  <2> QED
    BY <2>1, <2>2, <2>3
<1> QED
  BY <1>3, <1>4, <1>5 DEF TaskStep

LEMMA TaskMain ==
  ASSUME JobInv, TaskStep, UNCHANGED mainVars
  PROVE  MainInTurn' /\ FailuresKnown'
<1>1. TaskInv /\ MainInTurn /\ FailuresKnown
  BY DEF JobInv
<1>2. Waiting
  BY <1>1, QuietStep DEF MainInTurn
<1>3. UNCHANGED <<todo, files, primary, deferred>> /\ Waiting'
  BY <1>2 DEF mainVars, Waiting
<1>4. PICK p \in Plans : \E i \in 1..Len(p) :
        Rest(p, i) /\ At(p, i) /\ FilesAt(p, i) /\ Head(todo) = p[i]
  BY <1>1, <1>2, Placed DEF Waiting
<1>5. PICK i \in 1..Len(p) : Rest(p, i) /\ At(p, i) /\ FilesAt(p, i) /\ Head(todo) = p[i]
  BY <1>4
<1>6. i = 2 \/ (i = 4 /\ p \in {EndJob, OpenBoth})
  BY <1>2, <1>5, PlanFacts DEF Waiting, Plans
<1>7. Rest(p, i)' /\ FilesAt(p, i)'
  BY <1>3, <1>5 DEF Rest, FilesAt
<1>8. At(p, i)'
  <2>1. i # Len(p) + 1
    BY <1>5, PlanSeq
  <2>2. p \notin {CloseInput, CloseAll}
    BY <1>2, <1>5, <1>6, PlanFacts DEF Waiting
  <2>3. p \in {EndJob, OpenBoth} /\ i = 2 => EndingLumi'
    BY <1>1, <1>5, EndingLumiKept DEF At
  <2>4. p \in {EndJob, OpenBoth} /\ i = 4 => EndingRun'
    BY <1>1, <1>5, EndingRunKept DEF At
  <2> QED
    BY <1>6, <2>1, <2>2, <2>3, <2>4 DEF At
<1>9. i \in 1..(Len(p) + 1)
  BY PlanSeq
<1>10. MainInTurn'
  <2>1. \E j \in 1..(Len(p) + 1) : (Rest(p, j) /\ At(p, j) /\ FilesAt(p, j))'
    BY <1>7, <1>8, <1>9
  <2>2. \E q \in Plans : \E j \in 1..(Len(q) + 1) : (Rest(q, j) /\ At(q, j) /\ FilesAt(q, j))'
    BY <2>1
  <2> QED
    BY <1>1, <1>3, <2>2 DEF MainInTurn
<1>11. FailuresKnown'
  <2>1. Counters
    BY <1>1 DEF TaskInv, Shape, Counters
  <2>2. UNCHANGED <<failed, throws>> \/ TryAndTell(TRUE) \/ TryAndTell(FALSE)
    BY TaskTells
  <2>3. CASE UNCHANGED <<failed, throws>>
    BY <1>1, <1>3, <2>3 DEF FailuresKnown
  <2>4. CASE TryAndTell(TRUE)
    BY <1>3, <2>4 DEF TryAndTell, FailuresKnown
  <2>5. CASE TryAndTell(FALSE)
    BY <1>1, <1>2, <1>3, <2>1, <2>5 DEF TryAndTell, Try, FailuresKnown, Counters
  <2> QED
    BY <2>2, <2>3, <2>4, <2>5
<1> QED
  BY <1>10, <1>11

-----------------------------------------------------------------------------
(* The calls of the main thread, one by one.                               *)

FilesShape == /\ DOMAIN files = {"exist", "needClose", "closeFailed", "outs", "lost"}
              /\ \A flag \in DOMAIN files : files[flag] \in BOOLEAN

LEMMA Turn ==
  ASSUME NEW p \in Plans, NEW i \in 1..(Len(p) + 1), Rest(p, i)', todo' \in Seq(Calls),
         At(p, i)', FilesAt(p, i)', FilesShape', Waiting' \/ ~Busy'
  PROVE  MainInTurn'
<1>1. \E q \in Plans : \E j \in 1..(Len(q) + 1) : (Rest(q, j) /\ At(q, j) /\ FilesAt(q, j))'
  OBVIOUS
<1> QED
  BY <1>1 DEF MainInTurn, FilesShape

(* The plans are not the same.                                             *)
LEMMA PlansDiffer ==
  /\ \A p \in {<<"next">>, Process, OpenFirst, OpenInput, OpenBoth, EndJob} :
       p # CloseInput /\ p # CloseAll
  /\ \A p \in {<<"next">>, Process, OpenFirst, CloseInput, CloseAll, EndJob} :
       p # OpenInput /\ p # OpenBoth
  /\ \A p \in {<<"next">>, Process, OpenFirst, OpenInput, OpenBoth, CloseInput, CloseAll} :
       p # EndJob
  /\ OpenInput # OpenBoth /\ CloseInput # CloseAll
BY PlanFacts

(* The end of a plan, when it is not the end of the job, or the call of    *)
(* processRuns(): any plan that fits the files may follow.                 *)
LEMMA NextPlan ==
  ASSUME MainInTurn, NEW p \in Plans, NEW i \in 1..Len(p), FilesAt(p, i),
         p \notin {CloseInput, CloseAll}, p = OpenBoth => i \notin 6..9,
         NEW q \in {Process, OpenFirst, OpenInput, OpenBoth, EndJob}, todo' = q,
         q \in {OpenInput, OpenBoth} => files.exist,
         UNCHANGED files, ~Busy'
  PROVE  MainInTurn'
<1>1. q \in Plans /\ q \notin {CloseInput, CloseAll} /\ Len(q) > 1
  <2>1. Len(Process) > 1 /\ Len(OpenFirst) > 1 /\ Len(OpenInput) > 1 /\ Len(OpenBoth) > 1
        /\ Len(EndJob) > 1
    BY PlanFacts
  <2>2. \A x \in {Process, OpenFirst, OpenInput, OpenBoth, EndJob} :
          x # CloseInput /\ x # CloseAll
    BY PlansDiffer
  <2> QED
    BY <2>1, <2>2 DEF Plans
<1>2. Rest(q, 1)' /\ todo' \in Seq(Calls) /\ 1 \in 1..(Len(q) + 1)
  BY <1>1, NewPlan
<1>3. At(q, 1)'
  BY <1>1, PlanSeq DEF At
<1>4. ~(p = EndJob /\ i = 6)
  <2> SUFFICES ASSUME p = EndJob PROVE i # 6
    OBVIOUS
  <2>1. Len(p) = 5
    BY PlanFacts
  <2> QED
    BY <2>1
<1>5. FilesAt(q, 1)'
  BY <1>1, <1>4 DEF FilesAt
<1>6. FilesShape'
  BY DEF MainInTurn, FilesShape
<1> QED
  BY <1>1, <1>2, <1>3, <1>5, <1>6, Turn

(* What the file flags say, whatever the place.                            *)
LEMMA SameTasks ==
  ASSUME UNCHANGED <<runs, lumis, stream>>
  PROVE  /\ Busy' = Busy /\ NoLumi' = NoLumi /\ Ended' = Ended
BY DEF Busy, NoLumi, Ended

(* The next call: nothing happened to the runs, or the next call waits.    *)
LEMMA NextCall ==
  ASSUME MainInTurn, NEW p \in Plans, NEW i \in 1..Len(p), Rest(p, i), todo' = Tail(todo),
         At(p, i + 1)', FilesAt(p, i + 1)', FilesShape', Waiting' \/ ~Busy'
  PROVE  MainInTurn'
<1>1. Rest(p, i + 1)' /\ todo' \in Seq(Calls) /\ i + 1 \in 1..(Len(p) + 1)
  BY Advance DEF MainInTurn
<1> QED
  BY <1>1, Turn

(* Where each of the calls is made.                                        *)
LEMMA Places ==
  ASSUME NEW p \in Plans, NEW i \in 1..Len(p)
  PROVE  /\ p[i] = "next" => \/ p = <<"next">> /\ i = 1
                             \/ p = OpenFirst /\ i = 6
                             \/ p = OpenInput /\ i = 6
                             \/ p = OpenBoth /\ i = 15
         /\ p[i] \in Opening => \/ p = OpenFirst /\ i \in 1..5
                                \/ p = OpenInput /\ i \in 3..5
                                \/ p = OpenBoth /\ i \in 10..14
         /\ p[i] \in Closing => \/ p = OpenInput /\ i \in 1..2
                                \/ p = OpenBoth /\ i \in 6..9
                                \/ p = CloseInput /\ i \in 1..2
                                \/ p = CloseAll /\ i \in 1..4
         /\ p[i] = "closeOutputs" <=> (p = OpenBoth /\ i = 9) \/ (p = CloseAll /\ i = 4)
         /\ p[i] = "endPB" <=> (p = OpenBoth /\ i = 8) \/ (p = CloseAll /\ i = 3)
         /\ p[i] = "mark" => p = OpenBoth /\ i = 5
         /\ p[i] = "destroy" => p = EndJob /\ i = 5
         /\ p[i] = "processRuns" => p = Process /\ i = 1
         /\ p[i] = "wait" => p = Process /\ i = 2
         /\ p[i] = "endLumis" => p \in {EndJob, OpenBoth} /\ i = 1
         /\ p[i] = "waitEnd" => p \in {EndJob, OpenBoth} /\ i \in {2, 4}
         /\ p[i] = "endRun" => p \in {EndJob, OpenBoth} /\ i = 3
<1>1. CASE p = <<"next">>
  BY <1>1, PlanFacts DEF Opening, Closing
<1>2. CASE p = Process
  BY <1>2, PlanFacts DEF Opening, Closing
<1>3. CASE p = OpenFirst
  BY <1>3, PlanFacts DEF Opening, Closing
<1>4. CASE p = OpenInput
  BY <1>4, PlanFacts DEF Opening, Closing
<1>5. CASE p = OpenBoth
  BY <1>5, PlanFacts DEF Opening, Closing
<1>6. CASE p = EndJob
  BY <1>6, PlanFacts DEF Opening, Closing
<1>7. CASE p = CloseInput
  BY <1>7, PlanFacts DEF Opening, Closing
<1>8. CASE p = CloseAll
  BY <1>8, PlanFacts DEF Opening, Closing
<1> QED
  BY <1>1, <1>2, <1>3, <1>4, <1>5, <1>6, <1>7, <1>8 DEF Plans

LEMMA HereNow ==
  ASSUME MainInTurn, todo # <<>>
  PROVE  /\ \E p \in Plans : \E i \in 1..Len(p) :
              Rest(p, i) /\ At(p, i) /\ FilesAt(p, i) /\ Head(todo) = p[i]
         /\ FilesShape /\ todo \in Seq(Calls)
BY Placed DEF MainInTurn, FilesShape

LEMMA ClosingAll == <<"respondClose", "closeInput">> \o <<"endPB", "closeOutputs">> = CloseAll
<1> DEFINE t == <<"respondClose", "closeInput">> \o <<"endPB", "closeOutputs">>
<1>1. t \in Seq(Calls) /\ CloseAll \in Seq(Calls)
  BY DEF CloseAll, Calls, Closing
<1>2. Len(t) = 4 /\ t[1] = "respondClose" /\ t[2] = "closeInput" /\ t[3] = "endPB"
      /\ t[4] = "closeOutputs"
  OBVIOUS
<1> HIDE DEF t
<1>3. /\ DOMAIN t = 1..4 /\ DOMAIN CloseAll = 1..4
      /\ t = [i \in 1..4 |-> t[i]] /\ CloseAll = [i \in 1..4 |-> CloseAll[i]]
  BY <1>1, <1>2, PlanFacts
<1>4. \A i \in 1..4 : t[i] = CloseAll[i]
  BY <1>2, PlanFacts
<1> QED
  BY <1>3, <1>4 DEF t

LEMMA DispatchFacts ==
  ASSUME NEW kind
  PROVE  /\ Dispatch(kind) \in {Process, OpenFirst, OpenInput, OpenBoth, EndJob}
         /\ Dispatch(kind) \in {OpenInput, OpenBoth} => files.exist
BY PlansDiffer DEF Dispatch, Process

LEMMA NextTransitionTurn ==
  ASSUME TaskInv, MainInTurn, NextTransition
  PROVE  MainInTurn'
<1>1. PICK p \in Plans : \E i \in 1..Len(p) :
        Rest(p, i) /\ At(p, i) /\ FilesAt(p, i) /\ Head(todo) = p[i]
  BY HereNow DEF NextTransition, Call
<1>2. PICK i \in 1..Len(p) : Rest(p, i) /\ At(p, i) /\ FilesAt(p, i) /\ Head(todo) = p[i]
  BY <1>1
<1>3. /\ todo # <<>> /\ Head(todo) = "next" /\ UNCHANGED <<runs, lumis, stream, files>>
      /\ todo' = EndJob \/ todo' = Dispatch(src'.kind)
  BY DEF NextTransition, Call, ThrowOut
<1>4. ~Busy'
  BY <1>3, MainQuiet, SameTasks
<1>5. p \notin {CloseInput, CloseAll} /\ (p = OpenBoth => i \notin 6..9)
  BY <1>2, <1>3, Places, PlansDiffer
<1>6. PICK q \in {Process, OpenFirst, OpenInput, OpenBoth, EndJob} :
        todo' = q /\ (q \in {OpenInput, OpenBoth} => files.exist)
  BY <1>3, DispatchFacts, PlansDiffer
<1> QED
  BY <1>2, <1>3, <1>4, <1>5, <1>6, NextPlan

LEMMA OpenFileTurn ==
  ASSUME TaskInv, MainInTurn, OpenFile
  PROVE  MainInTurn'
<1>1. PICK p \in Plans : \E i \in 1..Len(p) :
        Rest(p, i) /\ At(p, i) /\ FilesAt(p, i) /\ Head(todo) = p[i]
  BY HereNow DEF OpenFile
<1>2. PICK i \in 1..Len(p) : Rest(p, i) /\ At(p, i) /\ FilesAt(p, i) /\ Head(todo) = p[i]
  BY <1>1
<1>3. /\ todo # <<>> /\ Head(todo) \in Opening /\ UNCHANGED <<runs, lumis, stream>>
      /\ \/ todo' = EndJob /\ UNCHANGED files
         \/ /\ todo' = Tail(todo)
            /\ files' = IF Call("openOutputs")
                          THEN [files EXCEPT !.exist = TRUE, !.needClose = TRUE, !.outs = TRUE]
                          ELSE files
  BY DEF OpenFile, ThrowOut
<1>4. ~Busy'
  BY <1>3, MainQuiet, SameTasks DEF Opening
<1>5. /\ p \in {OpenFirst, OpenInput, OpenBoth} /\ (p = OpenBoth => i \in 10..14)
      /\ i # Len(p)
  <2>1. \/ p = OpenFirst /\ i \in 1..5
        \/ p = OpenInput /\ i \in 3..5
        \/ p = OpenBoth /\ i \in 10..14
    BY <1>2, <1>3, Places
  <2>2. Len(OpenFirst) = 6 /\ Len(OpenInput) = 6 /\ Len(OpenBoth) = 15
    BY PlanFacts
  <2>3. OpenFirst # OpenBoth /\ OpenInput # OpenBoth
    BY PlansDiffer
  <2>4. p \in {OpenFirst, OpenInput, OpenBoth} /\ (p = OpenBoth => i \in 10..14)
    BY <2>1, <2>3
  <2>5. Len(p) = 6 \/ Len(p) = 15
    BY <2>1, <2>2
  <2>6. Len(p) = 6 => i \in 1..5
    BY <2>1, <2>2
  <2>7. Len(p) = 15 => i \in 1..14
    BY <2>1, <2>2
  <2>8. i # Len(p)
    <3>1. CASE Len(p) = 6
      <4>1. i # 6
        BY <2>6, <3>1
      <4> QED
        BY <3>1, <4>1
    <3>2. CASE Len(p) = 15
      <4>1. i # 15
        BY <2>7, <3>2
      <4> QED
        BY <3>2, <4>1
    <3> QED
      BY <2>5, <3>1, <3>2
  <2> QED
    BY <2>4, <2>8
<1>6. p \notin {CloseInput, CloseAll, EndJob}
  BY <1>5, PlansDiffer
<1>7. CASE todo' = EndJob /\ UNCHANGED files
  <2>1. EndJob \notin {OpenInput, OpenBoth}
    BY PlansDiffer
  <2> QED
    BY <1>2, <1>4, <1>5, <1>6, <1>7, <2>1, NextPlan
<1>8. CASE /\ todo' = Tail(todo)
           /\ files' = IF Call("openOutputs")
                         THEN [files EXCEPT !.exist = TRUE, !.needClose = TRUE, !.outs = TRUE]
                         ELSE files
  <2>1. FilesShape
    BY HereNow, <1>3
  <2>2. FilesShape' /\ UNCHANGED <<files.closeFailed, files.lost>>
        /\ \/ UNCHANGED files
           \/ files'.exist /\ files'.needClose /\ files'.outs
    BY <1>8, <2>1 DEF FilesShape
  <2>3. i + 1 # Len(p) + 1 /\ (p = OpenBoth => i + 1 \notin 2..9) /\ i \in Nat
    BY <1>5, PlanSeq
  <2>4. At(p, i + 1)'
    BY <1>6, <2>3 DEF At
  <2>5. FilesAt(p, i + 1)'
    BY <1>2, <1>5, <1>6, <2>2, <2>3 DEF FilesAt
  <2> QED
    BY <1>2, <1>4, <1>8, <2>2, <2>4, <2>5, NextCall
<1> QED
  BY <1>3, <1>7, <1>8

LEMMA MarkClosingTurn ==
  ASSUME TaskInv, MainInTurn, MarkClosing
  PROVE  MainInTurn'
<1>1. PICK p \in Plans : \E i \in 1..Len(p) :
        Rest(p, i) /\ At(p, i) /\ FilesAt(p, i) /\ Head(todo) = p[i]
  BY HereNow DEF MarkClosing, Call
<1>2. PICK i \in 1..Len(p) : Rest(p, i) /\ At(p, i) /\ FilesAt(p, i) /\ Head(todo) = p[i]
  BY <1>1
<1>3. /\ todo # <<>> /\ Head(todo) = "mark" /\ UNCHANGED <<runs, lumis, stream>>
      /\ todo' = Tail(todo) /\ files' = [files EXCEPT !.closeFailed = TRUE]
  BY DEF MarkClosing, Call, taskVars, vars
<1>4. ~Busy' /\ Ended' = Ended
  BY <1>3, MainQuiet, SameTasks
<1>5. p = OpenBoth /\ i = 5 /\ Len(p) = 15
  BY <1>2, <1>3, Places, PlanFacts
<1>6. p \notin {CloseInput, CloseAll, EndJob, OpenInput}
  BY <1>5, PlansDiffer
<1>7. FilesShape
  BY HereNow, <1>3
<1>8. FilesShape' /\ UNCHANGED <<files.exist, files.needClose, files.outs, files.lost>>
  BY <1>3, <1>7 DEF FilesShape
<1>9. At(p, i + 1)'
  BY <1>2, <1>4, <1>5, <1>6 DEF At
<1>10. FilesAt(p, i + 1)'
  BY <1>2, <1>5, <1>6, <1>8 DEF FilesAt
<1> QED
  BY <1>2, <1>3, <1>4, <1>8, <1>9, <1>10, NextCall

LEMMA DestroyTurn ==
  ASSUME TaskInv, MainInTurn, Destroy
  PROVE  MainInTurn'
<1>1. PICK p \in Plans : \E i \in 1..Len(p) :
        Rest(p, i) /\ At(p, i) /\ FilesAt(p, i) /\ Head(todo) = p[i]
  BY HereNow DEF Destroy, Call
<1>2. PICK i \in 1..Len(p) : Rest(p, i) /\ At(p, i) /\ FilesAt(p, i) /\ Head(todo) = p[i]
  BY <1>1
<1>3. /\ todo # <<>> /\ Head(todo) = "destroy" /\ UNCHANGED <<runs, lumis, stream>>
      /\ files' = [files EXCEPT !.exist = FALSE]
  BY DEF Destroy, Call, taskVars, vars
<1>4. ~Busy' /\ Ended' = Ended
  BY <1>3, MainQuiet, SameTasks
<1>5. p = EndJob /\ i = 5
  BY <1>2, <1>3, Places
<1>6. FilesShape
  BY HereNow, <1>3
<1>7. /\ FilesShape' /\ UNCHANGED <<files.needClose, files.outs, files.lost, files.closeFailed>>
      /\ ~files'.exist
  BY <1>3, <1>6 DEF FilesShape
<1>8. Ended /\ (files.outs => files.needClose /\ files.exist) /\ (files.closeFailed => files.lost)
  BY <1>2, <1>5, PlansDiffer DEF At, FilesAt
<1>9. CASE ~files.exist \/ files.closeFailed
  <2>1. todo' = <<>>
    BY <1>9 DEF Destroy
  <2>2. Len(EndJob) = 5 /\ EndJob \in Plans
    BY PlanFacts DEF Plans
  <2>3. Rest(EndJob, 6)' /\ todo' \in Seq(Calls) /\ 6 \in 1..(Len(EndJob) + 1)
    BY <2>1, <2>2 DEF Rest
  <2>4. At(EndJob, 6)'
    BY <1>4, <1>8, <2>2, PlansDiffer DEF At
  <2>5. FilesAt(EndJob, 6)'
    BY <1>7, <1>8, <1>9, PlansDiffer DEF FilesAt
  <2> QED
    BY <1>4, <1>7, <2>2, <2>3, <2>4, <2>5, Turn
<1>10. CASE files.exist /\ ~files.closeFailed
  <2>1. PICK q \in {CloseInput, CloseAll} : todo' = q /\ (q = CloseInput => ~files.needClose)
    <3>1. CASE files.needClose
      <4>1. todo' = <<"respondClose", "closeInput">> \o <<"endPB", "closeOutputs">>
        BY <1>10, <3>1 DEF Destroy
      <4>2. todo' = CloseAll
        BY <4>1, ClosingAll
      <4> QED
        BY <4>2, PlansDiffer
    <3>2. CASE ~files.needClose
      <4>1. todo' = CloseInput
        BY <1>10, <3>2 DEF Destroy, CloseInput
      <4> QED
        BY <3>2, <4>1
    <3> QED
      BY <3>1, <3>2
  <2>2. q \in Plans /\ Rest(q, 1)' /\ todo' \in Seq(Calls) /\ 1 \in 1..(Len(q) + 1)
    BY <2>1, NewPlan DEF Plans
  <2>3. At(q, 1)'
    BY <1>4, <1>8, <2>1, PlansDiffer DEF At
  <2>4. FilesAt(q, 1)'
    BY <1>7, <1>8, <1>10, <2>1, PlansDiffer DEF FilesAt
  <2> QED
    BY <1>4, <1>7, <2>2, <2>3, <2>4, Turn
<1> QED
  BY <1>6, <1>9, <1>10

LEMMA CloseFileTurn ==
  ASSUME TaskInv, MainInTurn, CloseFile
  PROVE  MainInTurn'
<1>1. PICK p \in Plans : \E i \in 1..Len(p) :
        Rest(p, i) /\ At(p, i) /\ FilesAt(p, i) /\ Head(todo) = p[i]
  BY HereNow DEF CloseFile
<1>2. PICK i \in 1..Len(p) : Rest(p, i) /\ At(p, i) /\ FilesAt(p, i) /\ Head(todo) = p[i]
  BY <1>1
<1>3. todo # <<>> /\ Head(todo) \in Closing /\ UNCHANGED <<runs, lumis, stream>>
  BY DEF CloseFile
<1>4. ~Busy' /\ Ended' = Ended
  BY <1>3, MainQuiet, SameTasks DEF Closing
<1>5. \/ p = OpenInput /\ i \in 1..2
      \/ p = OpenBoth /\ i \in 6..9
      \/ p = CloseInput /\ i \in 1..2
      \/ p = CloseAll /\ i \in 1..4
  BY <1>2, <1>3, Places
<1>6. p # EndJob /\ i \in Nat
  BY <1>5, PlansDiffer
<1>7. FilesShape
  BY HereNow, <1>3
<1>8. CASE files.exist /\ todo' = EndJob /\ files' = [files EXCEPT !.lost = files.closeFailed]
  <2>1. /\ FilesShape' /\ UNCHANGED <<files.exist, files.needClose, files.outs, files.closeFailed>>
        /\ files'.lost = files.closeFailed
    BY <1>7, <1>8 DEF FilesShape
  <2>2. EndJob \in Plans /\ Len(EndJob) = 5
    BY PlanFacts DEF Plans
  <2>3. Rest(EndJob, 1)' /\ todo' \in Seq(Calls) /\ 1 \in 1..(Len(EndJob) + 1)
    BY <1>8, <2>2, NewPlan
  <2>4. At(EndJob, 1)'
    BY <2>2, PlansDiffer DEF At
  <2>5. FilesAt(EndJob, 1)'
    BY <1>2, <1>8, <2>1, PlansDiffer DEF FilesAt
  <2> QED
    BY <1>4, <2>1, <2>2, <2>3, <2>4, <2>5, Turn
<1>9. CASE ~files.exist /\ todo' = <<>> /\ files' = [files EXCEPT !.lost = TRUE]
  <2>1. /\ FilesShape' /\ UNCHANGED <<files.exist, files.needClose, files.outs, files.closeFailed>>
        /\ files'.lost
    BY <1>7, <1>9 DEF FilesShape
  <2>2. EndJob \in Plans /\ Len(EndJob) = 5
    BY PlanFacts DEF Plans
  <2>3. Rest(EndJob, 6)' /\ todo' \in Seq(Calls) /\ 6 \in 1..(Len(EndJob) + 1)
    BY <1>9, <2>2 DEF Rest
  <2>4. p \in {CloseInput, CloseAll}
    BY <1>2, <1>5, <1>9 DEF FilesAt
  <2>5. At(EndJob, 6)'
    BY <1>2, <1>4, <2>2, <2>4, PlansDiffer DEF At
  <2>6. FilesAt(EndJob, 6)'
    BY <1>2, <2>1, PlansDiffer DEF FilesAt
  <2> QED
    BY <1>4, <2>1, <2>2, <2>3, <2>5, <2>6, Turn
<1>10. CASE /\ todo' = Tail(todo)
            /\ files' = IF Call("closeOutputs")
                          THEN [files EXCEPT !.needClose = FALSE, !.closeFailed = FALSE, !.outs = FALSE]
                          ELSE files
  <2>1. Call("closeOutputs") <=> ((p = OpenBoth /\ i = 9) \/ (p = CloseAll /\ i = 4))
    BY <1>2, <1>3, Places DEF Call
  <2>2. /\ FilesShape' /\ UNCHANGED <<files.exist, files.lost>>
        /\ IF Call("closeOutputs")
             THEN ~files'.needClose /\ ~files'.closeFailed /\ ~files'.outs
             ELSE UNCHANGED files
    BY <1>7, <1>10 DEF FilesShape
  <2>3. Len(OpenInput) = 6 /\ Len(OpenBoth) = 15
    BY PlanFacts
  <2>4. At(p, i + 1)'
    <3>1. p \in {CloseInput, CloseAll} => Ended'
      BY <1>2, <1>4 DEF At
    <3>2. p = OpenBoth => i + 1 \notin 1..4 /\ Ended'
      BY <1>2, <1>4, <1>5, PlansDiffer DEF At
    <3>3. i + 1 = Len(p) + 1 => p \in {EndJob, CloseInput, CloseAll}
      <4>1. CASE p = OpenInput
        <5>1. i \in 1..2
          BY <1>5, <4>1, PlansDiffer
        <5>2. i + 1 # 7
          BY <5>1
        <5>3. Len(p) + 1 = 7
          <6>1. Len(p) = 6
            BY <2>3, <4>1
          <6> QED
            BY <6>1
        <5>4. i + 1 # Len(p) + 1
          BY <5>2, <5>3
        <5> QED
          BY <5>4
      <4>2. CASE p = OpenBoth
        <5>1. i \in 6..9
          BY <1>5, <4>2, PlansDiffer
        <5>2. i + 1 # 16
          BY <5>1
        <5>3. Len(p) + 1 = 16
          <6>1. Len(p) = 15
            BY <2>3, <4>2
          <6> QED
            BY <6>1
        <5>4. i + 1 # Len(p) + 1
          BY <5>2, <5>3
        <5> QED
          BY <5>4
      <4> QED
        BY <1>5, <4>1, <4>2
    <3> QED
      BY <1>6, <3>1, <3>2, <3>3 DEF At
  <2>5. FilesAt(p, i + 1)'
    <3>1. CASE p = OpenInput
      <4>1. UNCHANGED files
        BY <2>1, <2>2, <3>1, PlansDiffer
      <4> QED
        BY <1>2, <3>1, <4>1, PlansDiffer DEF FilesAt
    <3>2. CASE p = OpenBoth /\ i = 9
      BY <1>2, <2>1, <2>2, <3>2, PlansDiffer DEF FilesAt
    <3>3. CASE p = OpenBoth /\ i \in 6..8
      <4>1. UNCHANGED files /\ i + 1 \in 6..9
        BY <2>1, <2>2, <3>3, PlansDiffer
      <4> QED
        BY <1>2, <3>3, <4>1, PlansDiffer DEF FilesAt
    <3>4. CASE p = CloseInput
      <4>1. UNCHANGED files
        BY <2>1, <2>2, <3>4, PlansDiffer
      <4> QED
        BY <1>2, <3>4, <4>1, PlansDiffer DEF FilesAt
    <3>5. CASE p = CloseAll /\ i = 4
      BY <1>2, <2>1, <2>2, <3>5, PlansDiffer DEF FilesAt
    <3>6. CASE p = CloseAll /\ i \in 1..3
      <4>1. UNCHANGED files /\ i + 1 # 5
        BY <2>1, <2>2, <3>6, PlansDiffer
      <4> QED
        BY <1>2, <3>6, <4>1, PlansDiffer DEF FilesAt
    <3> QED
      BY <1>5, <3>1, <3>2, <3>3, <3>4, <3>5, <3>6
  <2> QED
    BY <1>2, <1>4, <1>10, <2>2, <2>4, <2>5, NextCall
<1> QED
  BY <1>8, <1>9, <1>10 DEF CloseFile

LEMMA WaitTurn ==
  ASSUME TaskInv, MainInTurn, Wait
  PROVE  MainInTurn'
<1>1. PICK p \in Plans : \E i \in 1..Len(p) :
        Rest(p, i) /\ At(p, i) /\ FilesAt(p, i) /\ Head(todo) = p[i]
  BY HereNow DEF Wait, Call
<1>2. PICK i \in 1..Len(p) : Rest(p, i) /\ At(p, i) /\ FilesAt(p, i) /\ Head(todo) = p[i]
  BY <1>1
<1>3. /\ todo # <<>> /\ Head(todo) = "wait" /\ UNCHANGED <<runs, lumis, stream, files>>
      /\ todo' = EndJob \/ todo' = Dispatch(src.kind)
  BY DEF Wait, Call, ThrowOut, taskVars, vars
<1>4. ~Busy'
  BY <1>3, SameTasks DEF Wait
<1>5. p \notin {CloseInput, CloseAll} /\ (p = OpenBoth => i \notin 6..9)
  BY <1>2, <1>3, Places, PlansDiffer
<1>6. PICK q \in {Process, OpenFirst, OpenInput, OpenBoth, EndJob} :
        todo' = q /\ (q \in {OpenInput, OpenBoth} => files.exist)
  BY <1>3, DispatchFacts, PlansDiffer
<1> QED
  BY <1>2, <1>3, <1>4, <1>5, <1>6, NextPlan

(* processRuns(): it throws, or its tasks are waited for.                  *)
LEMMA ProcessRunsTurn ==
  ASSUME TaskInv, MainInTurn, Call("processRuns"), UNCHANGED files,
         \/ todo' = EndJob /\ UNCHANGED <<runs, lumis, stream>>
         \/ todo' = Tail(todo)
  PROVE  MainInTurn'
<1>1. PICK p \in Plans : \E i \in 1..Len(p) :
        Rest(p, i) /\ At(p, i) /\ FilesAt(p, i) /\ Head(todo) = p[i]
  BY HereNow DEF Call
<1>2. PICK i \in 1..Len(p) : Rest(p, i) /\ At(p, i) /\ FilesAt(p, i) /\ Head(todo) = p[i]
  BY <1>1
<1>3. p = Process /\ i = 1 /\ Len(p) = 2 /\ p[2] = "wait"
  BY <1>2, Places, PlanFacts DEF Call
<1>4. p \notin {CloseInput, CloseAll, EndJob, OpenInput, OpenBoth}
  BY <1>3, PlansDiffer
<1>5. CASE todo' = EndJob /\ UNCHANGED <<runs, lumis, stream>>
  <2>1. ~Busy'
    BY <1>5, MainQuiet, SameTasks DEF Call
  <2>2. EndJob \notin {OpenInput, OpenBoth}
    BY PlansDiffer
  <2> QED
    BY <1>2, <1>4, <1>5, <2>1, <2>2, NextPlan
<1>6. CASE todo' = Tail(todo)
  <2>1. At(p, i + 1)'
    BY <1>3, <1>4 DEF At
  <2>2. FilesAt(p, i + 1)'
    BY <1>2, <1>4 DEF FilesAt
  <2>3. FilesShape'
    BY DEF MainInTurn, FilesShape
  <2>4. Waiting'
    <3>1. Rest(p, i + 1)' /\ todo' \in Seq(Calls)
      BY <1>2, <1>6, Advance DEF MainInTurn
    <3>2. Len(todo') = 1 /\ todo'[1] = "wait"
      BY <1>3, <3>1 DEF Rest
    <3>3. todo' \in Seq(Calls)
      BY <3>1
    <3>4. todo' # <<>>
      BY <3>2
    <3>5. Head(todo') = todo'[1]
      BY <3>3, <3>4
    <3> QED
      BY <3>2, <3>4, <3>5 DEF Waiting
  <2> QED
    BY <1>2, <1>6, <2>1, <2>2, <2>3, <2>4, NextCall
<1> QED
  BY <1>5, <1>6

LEMMA BeginRunsTurn ==
  ASSUME TaskInv, MainInTurn, BeginRuns
  PROVE  MainInTurn'
BY ProcessRunsTurn DEF BeginRuns

LEMMA ContinueRunTurn ==
  ASSUME TaskInv, MainInTurn, ContinueRun
  PROVE  MainInTurn'
<1>1. /\ Call("processRuns") /\ UNCHANGED files
      /\ \/ todo' = EndJob /\ UNCHANGED <<runs, lumis, stream>>
         \/ todo' = Tail(todo)
  BY DEF ContinueRun, ThrowOut
<1> QED
  BY <1>1, ProcessRunsTurn

LEMMA EndUnfinishedLumiTurn ==
  ASSUME TaskInv, MainInTurn, EndUnfinishedLumi
  PROVE  MainInTurn'
<1>1. PICK p \in Plans : \E i \in 1..Len(p) :
        Rest(p, i) /\ At(p, i) /\ FilesAt(p, i) /\ Head(todo) = p[i]
  BY HereNow DEF EndUnfinishedLumi, Call
<1>2. PICK i \in 1..Len(p) : Rest(p, i) /\ At(p, i) /\ FilesAt(p, i) /\ Head(todo) = p[i]
  BY <1>1
<1>3. /\ todo # <<>> /\ Head(todo) = "endLumis" /\ todo' = Tail(todo)
      /\ UNCHANGED <<files, sourceQ>>
  BY DEF EndUnfinishedLumi, Call
<1>4. p \in {EndJob, OpenBoth} /\ i = 1 /\ Len(p) \in {5, 15} /\ p[2] = "waitEnd"
  BY <1>2, <1>3, Places, PlanFacts
<1>5. p \notin {CloseInput, CloseAll, OpenInput}
  BY <1>4, PlansDiffer
<1>6. AllIn(RunAt, LumiAt) /\ sourceQ = <<>>
  BY <1>3, MainQuiet, QuietSource
<1>7. EndingLumi'
  <2>1. UNCHANGED runs
    BY EndUnfinishedLumiFacts
  <2>2. \A r \in DOMAIN runs' : runs'[r].phase \in {"open", "closed", "dropped"}
    <3>1. \A r \in DOMAIN runs : r = RunAt => r # 0
      BY InList
    <3>2. \A r \in DOMAIN runs : runs[r].phase \in {"open", "closed", "dropped"}
      BY <1>6, <3>1 DEF AllIn
    <3> QED
      BY <2>1, <3>2
  <2>3. CASE LumiAt = 0 /\ UNCHANGED <<lumis, stream>>
    <3>1. \A l \in DOMAIN lumis : lumis[l].phase \in {"closed", "dropped"}
      BY <1>6, <2>3, InList DEF AllIn
    <3>2. \A s \in Streams : stream[s].lumi = 0 /\ stream[s].doing = "nothing"
                             /\ stream[s].queue = <<>>
      BY <1>6, <2>3 DEF AllIn
    <3> QED
      BY <1>3, <1>6, <2>2, <2>3, <3>1, <3>2 DEF EndingLumi, Coming
  <2>4. ASSUME NEW CONSTANT l, l = LumiAt, l \in DOMAIN lumis, CallsOff(l)
        PROVE  EndingLumi'
    <3>1. /\ DOMAIN lumis' = DOMAIN lumis /\ lumis'[l].phase = "open" /\ lumis'[l].noMore
          /\ \A k \in DOMAIN lumis \ {l} : lumis'[k] = lumis[k]
      BY <1>6, <2>4, InList DEF CallsOff, LumiTo, AllIn
    <3>2. \A k \in DOMAIN lumis \ {l} : lumis[k].phase \in {"closed", "dropped"}
      BY <1>6, <2>4 DEF AllIn
    <3>3. \A k \in DOMAIN lumis' : /\ lumis'[k].phase \notin Coming
                                   /\ lumis'[k].phase = "open" => lumis'[k].noMore
      BY <3>1, <3>2 DEF Coming
    <3>4. \A s \in Streams : /\ stream'[s].queue = <<>> /\ stream'[s].lumi # 0
                             /\ stream'[s].doing = "endLumi"
      <4>1. ASSUME NEW s \in Streams
            PROVE  /\ stream'[s].queue = <<>> /\ stream'[s].lumi # 0
                   /\ stream'[s].doing = "endLumi"
        <5>1. stream'[s] = [stream[s] EXCEPT !.doing = "endLumi"]
          BY <2>4 DEF CallsOff, StreamsDo
        <5>2. stream[s].queue = <<>> /\ stream[s].lumi = l
          BY <1>6, <2>4 DEF AllIn
        <5>3. stream[s] \in StreamRecords /\ l # 0
          BY <2>4, InList
        <5> QED
          BY <5>1, <5>2, <5>3 DEF StreamRecords
      <4> QED
        BY <4>1
    <3> QED
      BY <1>3, <1>6, <2>2, <3>3, <3>4 DEF EndingLumi
  <2>5. LumiAt \in DOMAIN lumis /\ CallsOff(LumiAt) => \E l \in DOMAIN lumis : l = LumiAt /\ CallsOff(l)
    OBVIOUS
  <2> QED
    BY <2>3, <2>4, <2>5, EndUnfinishedLumiFacts
<1>8. At(p, i + 1)'
  BY <1>4, <1>5, <1>7 DEF At
<1>9. FilesAt(p, i + 1)'
  BY <1>2, <1>3, <1>4, <1>5 DEF FilesAt
<1>10. FilesShape'
  BY <1>3 DEF MainInTurn, FilesShape
<1>11. Waiting'
  <2>1. Rest(p, i + 1)' /\ todo' \in Seq(Calls)
    BY <1>2, <1>3, Advance DEF MainInTurn
  <2>2. Len(todo') > 0 /\ todo'[1] = "waitEnd"
    BY <1>4, <2>1 DEF Rest
  <2>3. todo' # <<>> /\ Head(todo') = "waitEnd"
    BY <2>1, <2>2
  <2> QED
    BY <2>3 DEF Waiting
<1> QED
  BY <1>2, <1>3, <1>8, <1>9, <1>10, <1>11, NextCall

LEMMA EndUnfinishedRunTurn ==
  ASSUME TaskInv, MainInTurn, EndUnfinishedRun
  PROVE  MainInTurn'
<1>1. PICK p \in Plans : \E i \in 1..Len(p) :
        Rest(p, i) /\ At(p, i) /\ FilesAt(p, i) /\ Head(todo) = p[i]
  BY HereNow DEF EndUnfinishedRun, Call
<1>2. PICK i \in 1..Len(p) : Rest(p, i) /\ At(p, i) /\ FilesAt(p, i) /\ Head(todo) = p[i]
  BY <1>1
<1>3. /\ todo # <<>> /\ Head(todo) = "endRun" /\ todo' = Tail(todo)
      /\ UNCHANGED files
  BY DEF EndUnfinishedRun, Call
<1>4. p \in {EndJob, OpenBoth} /\ i = 3 /\ Len(p) \in {5, 15} /\ p[4] = "waitEnd"
  BY <1>2, <1>3, Places, PlanFacts
<1>5. p \notin {CloseInput, CloseAll, OpenInput}
  BY <1>4, PlansDiffer
<1>6. AllIn(RunAt, LumiAt)
  BY <1>3, MainQuiet
<1>7. EndingRun'
  <2>1. NoLumi'
    BY EndUnfinishedRunFacts DEF NoLumi
  <2>2. CASE RunAt = 0 /\ UNCHANGED <<runs, src>>
    BY <1>6, <2>1, <2>2, InList DEF AllIn, EndingRun
  <2>3. ASSUME NEW CONSTANT r, r = RunAt, r \in DOMAIN runs, RunGoesOn(r, "endSync"),
               src'.kind = "Stop"
        PROVE  EndingRun'
    <3>1. /\ DOMAIN runs' = DOMAIN runs /\ runs'[r].phase = "endSync"
          /\ \A q \in DOMAIN runs \ {r} : runs'[q] = runs[q]
      BY <2>3 DEF RunGoesOn, RunMoves, RunTo
    <3>2. \A q \in DOMAIN runs \ {r} : runs[q].phase \in {"closed", "dropped"}
      BY <1>6, <2>3 DEF AllIn
    <3> QED
      BY <2>1, <2>3, <3>1, <3>2 DEF EndingRun
  <2>4. RunAt \in DOMAIN runs /\ RunGoesOn(RunAt, "endSync") =>
          \E r \in DOMAIN runs : r = RunAt /\ RunGoesOn(r, "endSync")
    OBVIOUS
  <2> QED
    BY <2>2, <2>3, <2>4, EndUnfinishedRunFacts
<1>8. At(p, i + 1)'
  BY <1>4, <1>5, <1>7 DEF At
<1>9. FilesAt(p, i + 1)'
  BY <1>2, <1>3, <1>4, <1>5 DEF FilesAt
<1>10. FilesShape'
  BY <1>3 DEF MainInTurn, FilesShape
<1>11. Waiting'
  <2>1. Rest(p, i + 1)' /\ todo' \in Seq(Calls)
    BY <1>2, <1>3, Advance DEF MainInTurn
  <2>2. Len(todo') > 0 /\ todo'[1] = "waitEnd"
    BY <1>4, <2>1 DEF Rest
  <2>3. todo' # <<>> /\ Head(todo') = "waitEnd"
    BY <2>1, <2>2
  <2> QED
    BY <2>3 DEF Waiting
<1> QED
  BY <1>2, <1>3, <1>8, <1>9, <1>10, <1>11, NextCall

LEMMA WaitEndTurn ==
  ASSUME TaskInv, MainInTurn, WaitEnd
  PROVE  MainInTurn'
<1>1. PICK p \in Plans : \E i \in 1..Len(p) :
        Rest(p, i) /\ At(p, i) /\ FilesAt(p, i) /\ Head(todo) = p[i]
  BY HereNow DEF WaitEnd, Call
<1>2. PICK i \in 1..Len(p) : Rest(p, i) /\ At(p, i) /\ FilesAt(p, i) /\ Head(todo) = p[i]
  BY <1>1
<1>3. /\ todo # <<>> /\ Head(todo) = "waitEnd" /\ todo' = Tail(todo) /\ ~Busy
      /\ UNCHANGED <<files, runs, lumis, stream>>
  BY DEF WaitEnd, Call, taskVars, vars
<1>4. p \in {EndJob, OpenBoth} /\ i \in {2, 4} /\ Len(p) \in {5, 15}
  BY <1>2, <1>3, Places, PlanFacts
<1>5. p \notin {CloseInput, CloseAll, OpenInput}
  BY <1>4, PlansDiffer
<1>6. ~Busy' /\ NoLumi' = NoLumi /\ Ended' = Ended
  BY <1>3, SameTasks
<1>7. At(p, i + 1)'
  <2>1. CASE i = 2
    <3>1. EndingLumi
      BY <1>2, <1>4, <2>1 DEF At
    <3>2. NoLumi
      BY <1>3, <3>1, QuietLumis DEF NoLumi, EndingLumi
    <3>3. i + 1 = 3 /\ i + 1 # Len(p) + 1
      <4>1. CASE Len(p) = 5
        BY <2>1, <4>1
      <4>2. CASE Len(p) = 15
        BY <2>1, <4>2
      <4>3. Len(p) = 5 \/ Len(p) = 15
        BY <1>4
      <4> QED
        BY <4>1, <4>2, <4>3
    <3>4. NoLumi'
      BY <1>6, <3>2
    <3> QED
      BY <1>5, <3>3, <3>4 DEF At
  <2>2. CASE i = 4
    <3>1. EndingRun
      BY <1>2, <1>4, <2>2 DEF At
    <3>2. Ended
      BY <1>3, <3>1, QuietRuns DEF Ended, EndingRun
    <3>3. i + 1 = 5 /\ (i + 1 = Len(p) + 1 => p = EndJob)
      BY <1>4, <2>2, PlanFacts
    <3>4. Ended'
      BY <1>6, <3>2
    <3> QED
      BY <1>5, <3>3, <3>4 DEF At
  <2> QED
    BY <1>4, <2>1, <2>2
<1>8. FilesAt(p, i + 1)'
  <2>1. i + 1 \notin 6..9
    BY <1>4
  <2>2. i \notin 6..9 /\ i # 6 /\ i + 1 # 6
    BY <1>4
  <2> QED
    BY <1>2, <1>3, <1>5, <2>1, <2>2 DEF FilesAt
<1>9. FilesShape'
  BY <1>3 DEF MainInTurn, FilesShape
<1> QED
  BY <1>2, <1>3, <1>6, <1>7, <1>8, <1>9, NextCall

LEMMA MainTurn ==
  ASSUME TaskInv, MainInTurn, MainStep
  PROVE  MainInTurn'
BY NextTransitionTurn, OpenFileTurn, CloseFileTurn, MarkClosingTurn, DestroyTurn, BeginRunsTurn,
   ContinueRunTurn, WaitTurn, EndUnfinishedLumiTurn, EndUnfinishedRunTurn, WaitEndTurn
   DEF MainStep

(* Unless the main thread waits, it knows of every exception.              *)
LEMMA MainFailures ==
  ASSUME JobInv, MainStep
  PROVE  FailuresKnown'
<1>0. /\ throws \in Nat /\ failed \in BOOLEAN
      /\ throws > 0 => primary \/ deferred \/ (failed /\ Waiting)
  BY DEF JobInv, TaskInv, Shape, FailuresKnown
<1>1. CASE NextTransition
  <2>1. /\ ~Waiting
        /\ \/ primary'
           \/ throws' = throws /\ UNCHANGED <<primary, deferred>>
    BY <1>1 DEF NextTransition, ThrowOut, Call, Waiting, Try
  <2> QED
    BY <1>0, <2>1 DEF FailuresKnown
<1>2. CASE OpenFile
  <2>1. /\ ~Waiting
        /\ \/ primary'
           \/ throws' = throws /\ UNCHANGED <<primary, deferred>>
    BY <1>2 DEF OpenFile, ThrowOut, Waiting, Opening, Try
  <2> QED
    BY <1>0, <2>1 DEF FailuresKnown
<1>3. CASE CloseFile
  <2>1. /\ ~Waiting
        /\ \/ primary'
           \/ deferred' = Deferred(TRUE) /\ UNCHANGED primary
           \/ throws' = throws /\ UNCHANGED <<primary, deferred>>
    BY <1>3 DEF CloseFile, Waiting, Closing, Try
  <2>2. CASE primary'
    BY <2>2 DEF FailuresKnown
  <2>3. CASE deferred' = Deferred(TRUE) /\ UNCHANGED primary
    BY <2>3 DEF FailuresKnown, Deferred
  <2>4. CASE throws' = throws /\ UNCHANGED <<primary, deferred>>
    BY <1>0, <2>1, <2>4 DEF FailuresKnown
  <2> QED
    BY <2>1, <2>2, <2>3, <2>4
<1>4. CASE MarkClosing \/ Destroy
  <2>1. ~Waiting /\ throws' = throws /\ UNCHANGED <<primary, deferred>>
    BY <1>4 DEF MarkClosing, Destroy, Call, Waiting, taskVars, vars
  <2> QED
    BY <1>0, <2>1 DEF FailuresKnown
<1>5. CASE BeginRuns
  <2>1. ~Waiting /\ throws' = throws /\ UNCHANGED <<primary, deferred>>
    BY <1>5 DEF BeginRuns, Call, Waiting
  <2> QED
    BY <1>0, <2>1 DEF FailuresKnown
<1>6. CASE ContinueRun
  <2>1. Call("processRuns") /\ ~Waiting
    BY <1>6 DEF ContinueRun, Call, Waiting
  <2>2. \/ primary'
        \/ throws' = throws /\ UNCHANGED <<primary, deferred>>
        \/ failed' /\ todo' = Tail(todo) /\ UNCHANGED files
    <3>1. \/ ThrowOut
          \/ Try(FALSE) /\ UNCHANGED <<primary, deferred>>
          \/ \E x \in BOOLEAN : /\ Try(x) /\ failed' = x /\ todo' = Tail(todo)
                                /\ UNCHANGED <<files, primary, deferred>>
      BY <1>6 DEF ContinueRun
    <3>2. CASE \E x \in BOOLEAN : /\ Try(x) /\ failed' = x /\ todo' = Tail(todo)
                                  /\ UNCHANGED <<files, primary, deferred>>
      BY <3>2 DEF Try
    <3> QED
      BY <3>1, <3>2 DEF ThrowOut, Try
  <2>3. CASE failed' /\ todo' = Tail(todo) /\ UNCHANGED files
    <3>1. PICK p \in Plans : \E i \in 1..Len(p) :
            Rest(p, i) /\ At(p, i) /\ FilesAt(p, i) /\ Head(todo) = p[i]
      BY <2>1, HereNow DEF Call, JobInv
    <3>2. PICK i \in 1..Len(p) : Rest(p, i) /\ Head(todo) = p[i]
      BY <3>1
    <3>3. p = Process /\ i = 1 /\ Len(p) = 2 /\ p[2] = "wait"
      BY <2>1, <3>2, Places, PlanFacts DEF Call
    <3>4. Rest(p, i + 1)' /\ todo' \in Seq(Calls)
      BY <2>3, <3>2, Advance DEF MainInTurn, JobInv
    <3>5. Len(todo') = 1 /\ todo'[1] = "wait"
      BY <3>3, <3>4 DEF Rest
    <3>6. todo' # <<>> /\ Head(todo') = "wait"
      BY <3>4, <3>5
    <3> QED
      BY <2>3, <3>6 DEF FailuresKnown, Waiting
  <2>4. CASE throws' = throws /\ UNCHANGED <<primary, deferred>>
    BY <1>0, <2>1, <2>4 DEF FailuresKnown
  <2> QED
    BY <2>2, <2>3, <2>4 DEF FailuresKnown
<1>7. CASE Wait
  <2>1. throws' = throws
    BY <1>7 DEF Wait, taskVars, vars
  <2>2. primary' \/ (~failed /\ UNCHANGED <<primary, deferred>>)
    BY <1>7 DEF Wait, ThrowOut
  <2> QED
    BY <1>0, <2>1, <2>2 DEF FailuresKnown
<1>8. CASE EndUnfinishedLumi \/ EndUnfinishedRun
  <2>1. ~Waiting /\ throws' = throws /\ UNCHANGED <<primary, deferred>>
    BY <1>8 DEF EndUnfinishedLumi, EndUnfinishedRun, Call, Waiting
  <2> QED
    BY <1>0, <2>1 DEF FailuresKnown
<1>9. CASE WaitEnd
  <2>1. throws' = throws /\ UNCHANGED primary /\ deferred' = Deferred(failed)
    BY <1>9 DEF WaitEnd, taskVars, vars
  <2> QED
    BY <1>0, <2>1 DEF FailuresKnown, Deferred
<1> QED
  BY <1>1, <1>2, <1>3, <1>4, <1>5, <1>6, <1>7, <1>8, <1>9 DEF MainStep

LEMMA JobInvInit == MainInit => JobInv
<1> SUFFICES ASSUME MainInit PROVE JobInv
  OBVIOUS
<1>1. /\ Init /\ todo = <<"next">> /\ primary = FALSE /\ deferred = FALSE
      /\ files = [exist |-> FALSE, needClose |-> FALSE, closeFailed |-> FALSE, outs |-> FALSE,
                  lost |-> FALSE]
  BY DEF MainInit
<1>2. TaskInv
  BY <1>1, TaskInvInit
<1>3. FailuresKnown
  BY <1>1 DEF Init, FailuresKnown
<1>4. ~Busy
  <2>1. DOMAIN runs = {} /\ DOMAIN lumis = {}
    BY <1>1 DEF Init
  <2>2. \A s \in Streams : stream[s].doing = "nothing" /\ stream[s].queue = <<>>
    BY <1>1 DEF Init
  <2> QED
    BY <2>1, <2>2 DEF Busy
<1>5. <<"next">> \in Plans /\ Len(<<"next">>) = 1
  BY DEF Plans
<1>6. todo \in Seq(Calls)
  BY <1>1, <1>5, PlanSeq
<1>7. Rest(<<"next">>, 1)
  BY <1>1, <1>5 DEF Rest
<1>8. At(<<"next">>, 1)
  BY <1>5, PlansDiffer DEF At
<1>9. FilesAt(<<"next">>, 1) /\ FilesShape
  <2>1. /\ FilesShape /\ ~files.exist /\ ~files.needClose /\ ~files.closeFailed /\ ~files.outs
        /\ ~files.lost
    <3>1. /\ files.exist = FALSE /\ files.needClose = FALSE /\ files.closeFailed = FALSE
          /\ files.outs = FALSE /\ files.lost = FALSE
          /\ DOMAIN files = {"exist", "needClose", "closeFailed", "outs", "lost"}
      BY <1>1
    <3>2. \A flag \in DOMAIN files : files[flag] = FALSE
      BY <3>1
    <3> QED
      BY <3>1, <3>2 DEF FilesShape
  <2>2. <<"next">> \notin {CloseInput, CloseAll, OpenInput, OpenBoth, EndJob}
    BY PlansDiffer
  <2> QED
    BY <2>1, <2>2 DEF FilesAt
<1>10. 1 \in 1..(Len(<<"next">>) + 1)
  BY <1>5
<1>11. \E p \in Plans : \E i \in 1..(Len(p) + 1) : Rest(p, i) /\ At(p, i) /\ FilesAt(p, i)
  BY <1>5, <1>7, <1>8, <1>9, <1>10
<1> QED
  BY <1>2, <1>3, <1>4, <1>6, <1>9, <1>11 DEF JobInv, MainInTurn, FilesShape

LEMMA SameState ==
  ASSUME JobInv, UNCHANGED <<taskVars, todo, files, primary, deferred>>
  PROVE  JobInv'
<1>1. UNCHANGED vars /\ UNCHANGED <<todo, files, primary, deferred>>
  BY DEF taskVars
<1>2. TaskInv' = TaskInv
  BY <1>1 DEF vars, TaskInv, Shape, RecordTypes, RunsInTurn, LumisInTurn, Current, StreamsPlaced, InPlace,
     QueuesInOrder, QueueInOrder, First, Follows, InRun, RunOfTask, QueuesEnd, QueueEnd, Inside,
     RunsCounted, Beginning, Unfinished, LumisOf, Queued, BegunOnce, LumisCounted, In, LumisJoined,
     Idle, SourceWaitedFor, SourceTask, PausesCounted, HeldToBegin, HeldToEnd, HeldByLumi,
     WithinLimits, OpenRuns, OpenLumis, StartedRuns, StartedLumis
<1>3. MainInTurn' = MainInTurn
  BY <1>1 DEF vars, MainInTurn, Rest, At, FilesAt, EndingLumi, NoLumi, EndingRun, Ended,
     Waiting, Busy
<1>4. FailuresKnown' = FailuresKnown
  BY <1>1 DEF vars, FailuresKnown, Waiting
<1> QED
  BY <1>2, <1>3, <1>4 DEF JobInv

LEMMA JobInvStep ==
  ASSUME JobInv, [Next]_allVars
  PROVE  JobInv'
<1>1. CASE MainStep
  BY <1>1, MainStepInv, MainTurn, MainFailures DEF JobInv
<1>2. CASE TaskStep /\ UNCHANGED mainVars
  BY <1>2, TaskStepInv, TaskMain DEF JobInv
<1>3. CASE Crash \/ UNCHANGED allVars
  BY <1>3, SameState DEF Crash, allVars, mainVars
<1> QED
  BY <1>1, <1>2, <1>3 DEF Next

-----------------------------------------------------------------------------
(* The theorems.                                                           *)

(* Whatever the tasks, the main thread and the exceptions do, in whatever  *)
(* order, the invariant of the tasks and of the main thread holds: the     *)
(* streams' queues are in order, every count is that of whom it counts,    *)
(* and the files' flags say what the destructors have still to do.         *)
THEOREM JobInvariant == Spec => []JobInv
<1>1. MainInit => JobInv
  BY JobInvInit
<1>2. JobInv /\ [Next]_allVars => JobInv'
  BY JobInvStep
<1> QED
  BY <1>1, <1>2, PTL DEF Spec

(* No task of the source, of a run, a luminosity block or a stream runs    *)
(* while the main thread is between two waits.                             *)
THEOREM TasksOnlyWhileWaiting == Spec => [][TaskStep => Waiting]_allVars
<1>1. JobInv /\ [Next]_allVars => [TaskStep => Waiting]_allVars
  BY QuietStep DEF JobInv, MainInTurn
<1> QED
  BY <1>1, JobInvariant, PTL DEF Spec

LEMMA EndedFacts ==
  ASSUME TaskInv, ~Busy, Ended
  PROVE  /\ RunAt = 0 /\ LumiAt = 0 /\ AllIn(0, 0)
         /\ Active("run") = {} /\ OpenRuns = {}
<1>1. /\ AllIn(RunAt, LumiAt)
      /\ RunAt = 0 <=> Active("run") = {}
  BY QuietFacts
<1>2. RunAt = 0
  BY <1>1 DEF AllIn, Ended
<1>3. LumiAt = 0
  BY <1>1, <1>2 DEF AllIn
<1>4. OpenRuns = {}
  BY AreOpen DEF Unopened, Pending, Ended
<1> QED
  BY <1>1, <1>2, <1>3, <1>4

(* Between two waits of the main thread all streams are idle and in the    *)
(* same run and luminosity block, as the assertions of processRuns(),      *)
(* endUnfinishedLumi() and noMoreEventsInLumi() require, and no run is     *)
(* left when the output files are closed.                                  *)
THEOREM StreamsAlwaysAgree == Spec => []StreamsAgree
<1>1. JobInv => StreamsAgree
  <2> SUFFICES ASSUME JobInv, todo # <<>>, Head(todo) \notin {"wait", "waitEnd"}
               PROVE  /\ \A s, t \in Streams : /\ stream[s].run = stream[t].run
                                               /\ stream[s].lumi = stream[t].lumi
                      /\ Call("endLumis") => \A s \in Streams :
                           /\ stream[s].doing = "nothing"
                           /\ stream[s].lumi # 0 => /\ ~lumis[stream[s].lumi].noMore
                                                    /\ lumis[stream[s].lumi].joined = N
                      /\ Head(todo) \in {"endPB", "closeOutputs"} =>
                           Active("run") = {} /\ OpenRuns = {}
    BY DEF StreamsAgree
  <2>1. TaskInv /\ MainInTurn /\ ~Busy /\ AllIn(RunAt, LumiAt)
    BY MainQuiet DEF JobInv
  <2>2. \A s, t \in Streams : stream[s].run = stream[t].run /\ stream[s].lumi = stream[t].lumi
    BY <2>1 DEF AllIn
  <2>3. \A s \in Streams : /\ stream[s].doing = "nothing"
                           /\ stream[s].lumi # 0 => /\ ~lumis[stream[s].lumi].noMore
                                                    /\ lumis[stream[s].lumi].joined = N
    BY <2>1 DEF AllIn
  <2>4. ASSUME Head(todo) \in {"endPB", "closeOutputs"}
        PROVE  Active("run") = {} /\ OpenRuns = {}
    <3>1. PICK p \in Plans : \E i \in 1..Len(p) :
            Rest(p, i) /\ At(p, i) /\ FilesAt(p, i) /\ Head(todo) = p[i]
      BY <2>1, HereNow
    <3>2. PICK i \in 1..Len(p) : At(p, i) /\ Head(todo) = p[i]
      BY <3>1
    <3>3. (p = OpenBoth /\ i \in 8..9) \/ p = CloseAll
      BY <2>4, <3>2, Places
    <3>4. Ended
      BY <3>2, <3>3 DEF At
    <3> QED
      BY <2>1, <3>4, EndedFacts
  <2> QED
    BY <2>2, <2>3, <2>4
<1> QED
  BY <1>1, JobInvariant, PTL

(* When the job is over, whatever was thrown, every run and luminosity     *)
(* block that was begun has ended, no stream and no queue is paused, and   *)
(* the output files are closed unless closing them threw.                  *)
THEOREM AllClosedAtTheEnd == Spec => []AllClosed
<1>1. JobInv => AllClosed
  <2> SUFFICES ASSUME JobInv, todo = <<>>
               PROVE  /\ \A r \in DOMAIN runs : /\ runs[r].phase \in {"closed", "dropped"}
                                                /\ ~runs[r].holds
                      /\ \A l \in DOMAIN lumis : lumis[l].phase \in {"closed", "dropped"}
                      /\ \A s \in Streams : /\ stream[s].run = 0 /\ stream[s].lumi = 0
                                            /\ stream[s].pauses = 0 /\ stream[s].queue = <<>>
                      /\ sourceQ = <<>> /\ iovPauses = 0
                      /\ files.outs => files.lost
    BY DEF AllClosed
  <2>1. TaskInv /\ MainInTurn /\ ~Busy
    BY DEF JobInv, MainInTurn, Waiting
  <2>2. PICK p \in Plans : \E i \in 1..(Len(p) + 1) : Rest(p, i) /\ At(p, i) /\ FilesAt(p, i)
    BY <2>1 DEF MainInTurn
  <2>3. PICK i \in 1..(Len(p) + 1) : Rest(p, i) /\ At(p, i) /\ FilesAt(p, i)
    BY <2>2
  <2>4. i = Len(p) + 1
    <3>1. Len(p) \in Nat /\ Len(todo) = 0
      BY PlanSeq
    <3> QED
      BY <2>3, <3>1 DEF Rest
  <2>5. p \in {EndJob, CloseInput, CloseAll}
    BY <2>3, <2>4 DEF At
  <2>6. Ended
    <3>1. CASE p = EndJob
      <4>1. i = 6
        BY <2>4, <3>1, PlanFacts
      <4> QED
        BY <2>3, <3>1, <4>1 DEF At
    <3>2. CASE p \in {CloseInput, CloseAll}
      BY <2>3, <3>2 DEF At
    <3> QED
      BY <2>5, <3>1, <3>2
  <2>7. files.outs => files.lost
    <3>1. CASE p = EndJob
      <4>1. i = 6
        BY <2>4, <3>1, PlanFacts
      <4> QED
        BY <2>3, <3>1, <4>1 DEF FilesAt
    <3>2. CASE p = CloseInput
      BY <2>3, <3>2 DEF FilesAt
    <3>3. CASE p = CloseAll
      <4>1. i = 5
        BY <2>4, <3>3, PlanFacts
      <4> QED
        BY <2>3, <3>3, <4>1 DEF FilesAt
    <3> QED
      BY <2>5, <3>1, <3>2, <3>3
  <2>8. AllIn(0, 0) /\ sourceQ = <<>>
    BY <2>1, <2>6, EndedFacts, QuietSource
  <2>9. \A s \in Streams : /\ stream[s].run = 0 /\ stream[s].lumi = 0
                           /\ stream[s].doing = "nothing" /\ stream[s].queue = <<>>
    BY <2>8 DEF AllIn
  <2>10. \A s \in Streams : stream[s].pauses = 0
    BY <2>1, <2>9 DEF TaskInv, StreamsPlaced, InPlace
  <2>11. iovPauses = 0
    <3>1. \A r \in DOMAIN runs : Beginning(r) = {}
      BY <2>9 DEF Beginning, Queued
    <3>2. \A r \in DOMAIN runs : runs[r].phase = "closed" => runs[r].toBegin = 0
      BY <2>1, <3>1, FS_EmptySet DEF TaskInv, RunsCounted, NotBegun
    <3>3. HeldToBegin = {}
      BY <2>6, <3>2 DEF HeldToBegin, Ended
    <3>4. HeldToEnd = {} /\ HeldByLumi = {}
      BY <2>6 DEF HeldToEnd, HeldByLumi, Ended, NoLumi
    <3> QED
      BY <2>1, <3>3, <3>4, FS_EmptySet DEF TaskInv, PausesCounted
  <2>12. \A r \in DOMAIN runs : runs[r].phase \in {"closed", "dropped"} /\ ~runs[r].holds
    BY <2>1, <2>6 DEF Ended, Busy
  <2>13. \A l \in DOMAIN lumis : lumis[l].phase \in {"closed", "dropped"}
    BY <2>6 DEF Ended, NoLumi
  <2> QED
    BY <2>7, <2>8, <2>9, <2>10, <2>11, <2>12, <2>13
<1> QED
  BY <1>1, JobInvariant, PTL

(* If anything threw, the job ends by throwing.                            *)
THEOREM FailureAlwaysReported == Spec => []FailureReported
<1>1. JobInv => FailureReported
  BY DEF JobInv, FailuresKnown, FailureReported, Waiting
<1> QED
  BY <1>1, JobInvariant, PTL
=============================================================================
