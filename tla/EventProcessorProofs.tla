------------------------ MODULE EventProcessorProofs ------------------------
(***************************************************************************)
(* What the event processor promises to the modules it runs, for any       *)
(* streams, inputs, limits and exceptions: its transitions nest, the items *)
(* of the source are handled in order, and each run and luminosity block   *)
(* has the right IOVs.  The first two follow from the invariant of         *)
(* TransitionProcessorsProofs.                                             *)
(***************************************************************************)
EXTENDS TransitionProcessorsProofs, EventSetupRecordIOVQueue, WellFoundedInduction

-----------------------------------------------------------------------------
(* The transitions nest.  What has begun and ended, and where the streams  *)
(* are, as OccurrenceSpec sees it:                                         *)
RunsBegun  == {r \in DOMAIN runs : runs[r].phase \in Begun}
RunsEnded  == {r \in DOMAIN runs : runs[r].phase = "closed"}
LumisBegun == {<<lumis[l].run, l>> : l \in {k \in DOMAIN lumis : lumis[k].phase \in {"open", "end", "closed"}}}
LumisEnded == {<<lumis[l].run, l>> : l \in {k \in DOMAIN lumis : lumis[k].phase = "closed"}}
InRuns     == [s \in Streams |-> stream[s].run]
InLumis    == [s \in Streams |-> stream[s].lumi]
WithEvent  == {s \in Streams : stream[s].doing = "event"}

RunView    == <<RunsBegun, RunsEnded>>
LumiView   == <<LumisBegun, LumisEnded>>
StreamView == <<InRuns, InLumis, WithEvent>>

Nests == [Occurrences!Next]_(Occurrences!vars)

(* The steps of OccurrenceSpec in these terms.                             *)
LEMMA NothingNests ==
  ASSUME UNCHANGED RunView, UNCHANGED LumiView, UNCHANGED StreamView
  PROVE  Nests
BY DEF Nests, Occurrences!vars, RunView, LumiView, StreamView, RunsBegun, RunsEnded, LumisBegun,
       LumisEnded, InRuns, InLumis, WithEvent

LEMMA SameCount ==
  ASSUME NEW S
  PROVE  Occurrences!Cardinality(S) = Cardinality(S)
BY DEF Cardinality, Occurrences!Cardinality

LEMMA RunBeginNests ==
  ASSUME NEW CONSTANT r, r \notin RunsBegun, Cardinality(RunsBegun \ RunsEnded) < ConcurrentRuns,
         RunsBegun' = RunsBegun \cup {r}, UNCHANGED RunsEnded, UNCHANGED LumiView, UNCHANGED StreamView
  PROVE  Nests
<1>1. r \in RunsBegun' \ RunsBegun
  OBVIOUS
<1>2. Occurrences!GlobalBeginRun
  BY <1>1, SameCount DEF Occurrences!GlobalBeginRun, Occurrences!OpenRuns, Occurrences!lumiVars,
     Occurrences!streamVars, LumiView, StreamView, RunsBegun, RunsEnded, LumisBegun, LumisEnded,
     InRuns, InLumis, WithEvent
<1> QED
  BY <1>2 DEF Nests, Occurrences!Next

LEMMA RunEndNests ==
  ASSUME NEW CONSTANT r, r \in RunsBegun \ RunsEnded, \A s \in Streams : InRuns[s] # r,
         \A b \in LumisBegun \ LumisEnded : b[1] # r,
         RunsEnded' = RunsEnded \cup {r}, UNCHANGED RunsBegun, UNCHANGED LumiView, UNCHANGED StreamView
  PROVE  Nests
<1>2. Occurrences!GlobalEndRun
  BY DEF Occurrences!GlobalEndRun, Occurrences!OpenRuns, Occurrences!OpenLumis, Occurrences!lumiVars,
     Occurrences!streamVars, LumiView, StreamView, RunsBegun, RunsEnded, LumisBegun, LumisEnded,
     InRuns, InLumis, WithEvent
<1> QED
  BY <1>2 DEF Nests, Occurrences!Next

LEMMA LumiBeginNests ==
  ASSUME NEW CONSTANT b, b \notin LumisBegun, b[1] \in RunsBegun \ RunsEnded,
         \A k \in LumisBegun : k[2] # b[2], Cardinality(LumisBegun \ LumisEnded) < ConcurrentLumis,
         LumisBegun' = LumisBegun \cup {b}, UNCHANGED LumisEnded, UNCHANGED RunView, UNCHANGED StreamView
  PROVE  Nests
<1>1. b \in LumisBegun' \ LumisBegun
  OBVIOUS
<1>2. Occurrences!GlobalBeginLumi
  BY <1>1, SameCount DEF Occurrences!GlobalBeginLumi, Occurrences!OpenRuns, Occurrences!OpenLumis,
     Occurrences!runVars, Occurrences!streamVars, RunView, StreamView, RunsBegun, RunsEnded,
     LumisBegun, LumisEnded, InRuns, InLumis, WithEvent
<1> QED
  BY <1>2 DEF Nests, Occurrences!Next

LEMMA LumiEndNests ==
  ASSUME NEW CONSTANT b, b \in LumisBegun \ LumisEnded, \A s \in Streams : InLumis[s] # b[2],
         LumisEnded' = LumisEnded \cup {b}, UNCHANGED LumisBegun, UNCHANGED RunView, UNCHANGED StreamView
  PROVE  Nests
<1>2. Occurrences!GlobalEndLumi
  BY DEF Occurrences!GlobalEndLumi, Occurrences!OpenLumis,
     Occurrences!runVars, Occurrences!streamVars, RunView, StreamView, RunsBegun, RunsEnded,
     LumisBegun, LumisEnded, InRuns, InLumis, WithEvent
<1> QED
  BY <1>2 DEF Nests, Occurrences!Next

(* A step of one stream s to another place.                                *)
LEMMA StreamNests ==
  ASSUME NEW CONSTANT s \in Streams, UNCHANGED RunView, UNCHANGED LumiView,
         \/ /\ UNCHANGED <<InLumis, WithEvent>>
            /\ InRuns[s] = 0 /\ \E r \in RunsBegun \ RunsEnded : InRuns' = [InRuns EXCEPT ![s] = r]
         \/ /\ UNCHANGED <<InLumis, WithEvent>>
            /\ InRuns[s] # 0 /\ InLumis[s] = 0 /\ InRuns' = [InRuns EXCEPT ![s] = 0]
         \/ /\ UNCHANGED <<InRuns, WithEvent>>
            /\ InLumis[s] = 0 /\ \E b \in LumisBegun \ LumisEnded :
                                   b[1] = InRuns[s] /\ InLumis' = [InLumis EXCEPT ![s] = b[2]]
         \/ /\ UNCHANGED <<InRuns, WithEvent>>
            /\ InLumis[s] # 0 /\ s \notin WithEvent /\ InLumis' = [InLumis EXCEPT ![s] = 0]
         \/ /\ UNCHANGED <<InRuns, InLumis>>
            /\ InLumis[s] # 0 /\ s \notin WithEvent /\ WithEvent' = WithEvent \cup {s}
         \/ /\ UNCHANGED <<InRuns, InLumis>>
            /\ s \in WithEvent /\ WithEvent' = WithEvent \ {s}
  PROVE  Nests
<1> USE DEF RunView, LumiView, RunsBegun, RunsEnded, LumisBegun, LumisEnded, InRuns, InLumis, WithEvent,
            Occurrences!runVars, Occurrences!lumiVars, Occurrences!OpenRuns, Occurrences!OpenLumis
<1>1. CASE /\ UNCHANGED <<InLumis, WithEvent>>
           /\ InRuns[s] = 0 /\ \E r \in RunsBegun \ RunsEnded : InRuns' = [InRuns EXCEPT ![s] = r]
  <2>1. Occurrences!StreamBeginRun(s)
    BY <1>1 DEF Occurrences!StreamBeginRun
  <2> QED
    BY <2>1 DEF Nests, Occurrences!Next
<1>2. CASE /\ UNCHANGED <<InLumis, WithEvent>>
           /\ InRuns[s] # 0 /\ InLumis[s] = 0 /\ InRuns' = [InRuns EXCEPT ![s] = 0]
  <2>1. Occurrences!StreamEndRun(s)
    BY <1>2 DEF Occurrences!StreamEndRun
  <2> QED
    BY <2>1 DEF Nests, Occurrences!Next
<1>3. CASE /\ UNCHANGED <<InRuns, WithEvent>>
           /\ InLumis[s] = 0 /\ \E b \in LumisBegun \ LumisEnded :
                                  b[1] = InRuns[s] /\ InLumis' = [InLumis EXCEPT ![s] = b[2]]
  <2>1. Occurrences!StreamBeginLumi(s)
    BY <1>3 DEF Occurrences!StreamBeginLumi
  <2> QED
    BY <2>1 DEF Nests, Occurrences!Next
<1>4. CASE /\ UNCHANGED <<InRuns, WithEvent>>
           /\ InLumis[s] # 0 /\ s \notin WithEvent /\ InLumis' = [InLumis EXCEPT ![s] = 0]
  <2>1. Occurrences!StreamEndLumi(s)
    BY <1>4 DEF Occurrences!StreamEndLumi
  <2> QED
    BY <2>1 DEF Nests, Occurrences!Next
<1>5. CASE /\ UNCHANGED <<InRuns, InLumis>>
           /\ InLumis[s] # 0 /\ s \notin WithEvent /\ WithEvent' = WithEvent \cup {s}
  <2>1. Occurrences!BeginEvent(s)
    BY <1>5 DEF Occurrences!BeginEvent
  <2> QED
    BY <2>1 DEF Nests, Occurrences!Next
<1>6. CASE /\ UNCHANGED <<InRuns, InLumis>>
           /\ s \in WithEvent /\ WithEvent' = WithEvent \ {s}
  <2>1. Occurrences!EndEvent(s)
    BY <1>6 DEF Occurrences!EndEvent
  <2> QED
    BY <2>1 DEF Nests, Occurrences!Next
<1> HIDE DEF RunView, LumiView, RunsBegun, RunsEnded, LumisBegun, LumisEnded, InRuns, InLumis, WithEvent,
             Occurrences!runVars, Occurrences!lumiVars, Occurrences!OpenRuns, Occurrences!OpenLumis
<1> QED
  BY <1>1, <1>2, <1>3, <1>4, <1>5, <1>6

-----------------------------------------------------------------------------
(* What a step does to what has begun and ended.                           *)
RunStage(x)  == IF x.phase = "closed" THEN "ended" ELSE IF x.phase \in Begun THEN "begun" ELSE "coming"
LumiStage(x) == IF x.phase = "closed" THEN "ended"
                ELSE IF x.phase \in {"open", "end"} THEN "begun" ELSE "coming"

LEMMA RunStages ==
  ASSUME NEW CONSTANT r, r \in DOMAIN runs, RunsBut(r)
  PROVE  /\ RunStage(runs'[r]) = RunStage(runs[r]) => UNCHANGED RunView
         /\ RunStage(runs[r]) = "coming" /\ RunStage(runs'[r]) = "begun" =>
              /\ r \notin RunsBegun
              /\ RunsBegun' = RunsBegun \cup {r} /\ UNCHANGED RunsEnded
         /\ RunStage(runs[r]) = "begun" /\ RunStage(runs'[r]) = "ended" =>
              /\ r \in RunsBegun \ RunsEnded
              /\ RunsEnded' = RunsEnded \cup {r} /\ UNCHANGED RunsBegun
<1>1. /\ \A q \in DOMAIN runs : q \in DOMAIN runs' /\ (q # r => runs'[q].phase = runs[q].phase)
      /\ \A q \in DOMAIN runs' \ DOMAIN runs : runs'[q].phase = "sync"
  BY DEF RunsBut
<1>2. CASE RunStage(runs'[r]) = RunStage(runs[r])
  BY <1>1, <1>2 DEF RunStage, RunView, RunsBegun, RunsEnded, Begun
<1>3. CASE RunStage(runs[r]) = "coming" /\ RunStage(runs'[r]) = "begun"
  BY <1>1, <1>3 DEF RunStage, RunView, RunsBegun, RunsEnded, Begun
<1>4. CASE RunStage(runs[r]) = "begun" /\ RunStage(runs'[r]) = "ended"
  BY <1>1, <1>4 DEF RunStage, RunView, RunsBegun, RunsEnded, Begun
<1> QED
  BY <1>2, <1>3, <1>4

LEMMA LumiStages ==
  ASSUME NEW CONSTANT l, l \in DOMAIN lumis, LumisBut(l), lumis'[l].run = lumis[l].run
  PROVE  /\ LumiStage(lumis'[l]) = LumiStage(lumis[l]) => UNCHANGED LumiView
         /\ LumiStage(lumis[l]) = "coming" /\ LumiStage(lumis'[l]) = "begun" =>
              /\ \A k \in LumisBegun : k[2] # l
              /\ LumisBegun' = LumisBegun \cup {<<lumis[l].run, l>>} /\ UNCHANGED LumisEnded
         /\ LumiStage(lumis[l]) = "begun" /\ LumiStage(lumis'[l]) = "ended" =>
              /\ <<lumis[l].run, l>> \in LumisBegun \ LumisEnded
              /\ LumisEnded' = LumisEnded \cup {<<lumis[l].run, l>>} /\ UNCHANGED LumisBegun
<1>1. /\ \A q \in DOMAIN lumis : /\ q \in DOMAIN lumis' /\ lumis'[q].run = lumis[q].run
                                 /\ q # l => lumis'[q].phase = lumis[q].phase
      /\ \A q \in DOMAIN lumis' \ DOMAIN lumis : lumis'[q].phase = "sync"
  BY DEF LumisBut
<1>2. CASE LumiStage(lumis'[l]) = LumiStage(lumis[l])
  BY <1>1, <1>2 DEF LumiStage, LumiView, LumisBegun, LumisEnded
<1>3. CASE LumiStage(lumis[l]) = "coming" /\ LumiStage(lumis'[l]) = "begun"
  BY <1>1, <1>3 DEF LumiStage, LumiView, LumisBegun, LumisEnded
<1>4. CASE LumiStage(lumis[l]) = "begun" /\ LumiStage(lumis'[l]) = "ended"
  BY <1>1, <1>4 DEF LumiStage, LumiView, LumisBegun, LumisEnded
<1> QED
  BY <1>2, <1>3, <1>4

LEMMA RunsStay ==
  ASSUME \A r \in DOMAIN runs : r \in DOMAIN runs' /\ RunStage(runs'[r]) = RunStage(runs[r]),
         \A r \in DOMAIN runs' \ DOMAIN runs : runs'[r].phase = "sync"
  PROVE  UNCHANGED RunView
BY DEF RunStage, RunView, RunsBegun, RunsEnded, Begun

LEMMA LumisStay ==
  ASSUME \A l \in DOMAIN lumis : /\ l \in DOMAIN lumis' /\ lumis'[l].run = lumis[l].run
                                 /\ LumiStage(lumis'[l]) = LumiStage(lumis[l]),
         \A l \in DOMAIN lumis' \ DOMAIN lumis : lumis'[l].phase = "sync"
  PROVE  UNCHANGED LumiView
BY DEF LumiStage, LumiView, LumisBegun, LumisEnded

LEMMA StreamsStay ==
  ASSUME \A s \in Streams : /\ stream'[s].run = stream[s].run /\ stream'[s].lumi = stream[s].lumi
                            /\ stream'[s].doing = "event" <=> stream[s].doing = "event"
  PROVE  UNCHANGED StreamView
BY DEF StreamView, InRuns, InLumis, WithEvent

LEMMA PushStays ==
  ASSUME TaskInv, NEW task, Pushed(task)
  PROVE  UNCHANGED StreamView
<1>1. ASSUME NEW s \in Streams
      PROVE  /\ stream'[s].run = stream[s].run /\ stream'[s].lumi = stream[s].lumi
             /\ stream'[s].doing = stream[s].doing
  <2>1. stream[s] \in StreamRecords
    BY InList
  <2> QED
    BY <2>1 DEF Pushed, StreamRecords
<1> QED
  BY <1>1, StreamsStay

(* A run that is begun counts whoever is in it.                            *)
LEMMA InRunFacts ==
  ASSUME TaskInv, NEW CONSTANT r, r \in DOMAIN runs
  PROVE  /\ Unfinished(r) # {} => r \in RunsBegun \ RunsEnded
         /\ runs[r].phase \notin NotBegun /\ runs[r].enders = 0 => Unfinished(r) = {} /\ LumisOf(r) = {}
<1>1. /\ runs[r].phase \in NotBegun => Unfinished(r) = {}
      /\ runs[r].phase \notin NotBegun => runs[r].toEnd = Cardinality(Unfinished(r))
      /\ runs[r].enders = (IF runs[r].toEnd = 0 THEN 0 ELSE 1) + Cardinality(LumisOf(r))
      /\ runs[r].phase = "closed" => runs[r].enders = 0
  BY DEF TaskInv, RunsCounted
<1>2. /\ IsFiniteSet(Unfinished(r)) /\ Cardinality(Unfinished(r)) \in Nat
      /\ IsFiniteSet(LumisOf(r)) /\ Cardinality(LumisOf(r)) \in Nat
  BY FiniteSets
<1>3. ASSUME runs[r].phase \notin NotBegun, runs[r].enders = 0
      PROVE  Unfinished(r) = {} /\ LumisOf(r) = {}
  <2>1. Cardinality(Unfinished(r)) = 0 /\ Cardinality(LumisOf(r)) = 0
    BY <1>1, <1>2, <1>3
  <2> QED
    BY <1>2, <2>1, FS_EmptySet
<1>4. ASSUME Unfinished(r) # {}
      PROVE  r \in RunsBegun \ RunsEnded
  <2>1. runs[r].phase \notin NotBegun \cup {"closed"}
    BY <1>1, <1>3, <1>4 DEF NotBegun
  <2>2. runs[r].phase \in RunPhases
    BY InList DEF RunRecord
  <2> QED
    BY <2>1, <2>2 DEF RunsBegun, RunsEnded, Begun, NotBegun, RunPhases
<1> QED
  BY <1>3, <1>4

(* There is room for a run, or a luminosity block, that begins.            *)
LEMMA RoomToBegin ==
  ASSUME TaskInv
  PROVE  /\ \A r \in OpenRuns \ RunsBegun : Cardinality(RunsBegun \ RunsEnded) < ConcurrentRuns
         /\ \A l \in DOMAIN lumis : lumis[l].phase \in {"merge", "begin"} =>
              Cardinality(LumisBegun \ LumisEnded) < ConcurrentLumis
<1>0. ConcurrentRuns \in Nat /\ ConcurrentLumis \in Nat
  BY EventProcessorAssumption
<1>1. /\ IsFiniteSet(OpenRuns) /\ IsFiniteSet(OpenLumis)
      /\ Cardinality(OpenRuns) \in Nat /\ Cardinality(OpenRuns) <= ConcurrentRuns
      /\ Cardinality(OpenLumis) \in Nat /\ Cardinality(OpenLumis) <= ConcurrentLumis
  BY FinitelyOpen, FS_CardinalityType DEF TaskInv, WithinLimits
<1>2. ASSUME NEW r \in OpenRuns \ RunsBegun
      PROVE  Cardinality(RunsBegun \ RunsEnded) < ConcurrentRuns
  <2>1. RunsBegun \ RunsEnded \subseteq OpenRuns \ {r}
    BY <1>2, AreOpen DEF RunsBegun, RunsEnded, Unopened, Begun, Pending
  <2>2. IsFiniteSet(OpenRuns \ {r}) /\ Cardinality(OpenRuns \ {r}) = Cardinality(OpenRuns) - 1
    BY <1>1, <1>2, FS_RemoveElement
  <2>3. /\ Cardinality(RunsBegun \ RunsEnded) <= Cardinality(OpenRuns \ {r})
        /\ Cardinality(RunsBegun \ RunsEnded) \in Nat
    BY <2>1, <2>2, FS_Subset, FS_CardinalityType
  <2> QED
    BY <1>0, <1>1, <2>2, <2>3
<1>3. ASSUME NEW l \in DOMAIN lumis, lumis[l].phase \in {"merge", "begin"}
      PROVE  Cardinality(LumisBegun \ LumisEnded) < ConcurrentLumis
  <2> DEFINE S == {k \in DOMAIN lumis : lumis[k].phase \in {"open", "end"}}
             T == LumisBegun \ LumisEnded
             f == [k \in S |-> <<lumis[k].run, k>>]
  <2>1. S \subseteq OpenLumis \ {l} /\ l \in OpenLumis
    BY <1>3, AreOpen DEF Unopened, Pending
  <2>2. T = {<<lumis[k].run, k>> : k \in S}
    BY DEF LumisBegun, LumisEnded
  <2>3. f \in Surjection(S, T)
    BY <2>2 DEF Surjection
  <2> HIDE DEF S, T, f
  <2>4. IsFiniteSet(OpenLumis \ {l}) /\ Cardinality(OpenLumis \ {l}) = Cardinality(OpenLumis) - 1
    BY <1>1, <2>1, FS_RemoveElement
  <2>5. IsFiniteSet(S) /\ Cardinality(S) <= Cardinality(OpenLumis \ {l}) /\ Cardinality(S) \in Nat
    BY <2>1, <2>4, FS_Subset, FS_CardinalityType
  <2>6. Cardinality(T) <= Cardinality(S) /\ Cardinality(T) \in Nat
    BY <2>3, <2>5, FS_Surjection, FS_CardinalityType
  <2>7. Cardinality(T) < ConcurrentLumis
    BY <1>0, <1>1, <2>4, <2>5, <2>6
  <2> QED
    BY <2>7 DEF T
<1> QED
  BY <1>2, <1>3

-----------------------------------------------------------------------------
(* Every step is one of OccurrenceSpec, or none.                           *)
LEMMA RunChangeNests ==
  ASSUME TaskInv, NEW CONSTANT r, r \in DOMAIN runs, RunChange(r)
  PROVE  Nests
<1>1. RunsBut(r)
  BY DEF RunChange, RunAdvances, RunGoesOn, RunBegins, RunEnds, RunMoves, RunTo, RunMade, RunsBut
<1>2. /\ \A l \in DOMAIN lumis : l \in DOMAIN lumis' /\ lumis'[l] = lumis[l]
      /\ \A l \in DOMAIN lumis' \ DOMAIN lumis : lumis'[l].phase = "sync"
  BY DEF RunChange, RunAdvances, RunGoesOn, RunBegins, RunEnds, GoesOn, LumiMade
<1>3. UNCHANGED LumiView
  BY <1>2, LumisStay DEF LumiStage
<1>4. UNCHANGED StreamView
  <2>1. UNCHANGED stream \/ \E task : Pushed(task)
    BY DEF RunChange, RunAdvances, RunGoesOn, RunBegins, RunEnds
  <2>2. CASE UNCHANGED stream
    BY <2>2 DEF StreamView, InRuns, InLumis, WithEvent
  <2> QED
    BY <2>1, <2>2, PushStays
<1>5. ASSUME RunStage(runs'[r]) = RunStage(runs[r])
      PROVE  Nests
  BY <1>1, <1>3, <1>4, <1>5, RunStages, NothingNests
<1>6. ASSUME NEW phase \in RunPhases, RunAdvances(r, phase), phase # "closed"
      PROVE  Nests
  BY <1>5, <1>6 DEF RunAdvances, RunMoves, RunTo, RunStage, Begun
<1>7. CASE RunAdvances(r, "closed")
  <2>1. runs[r].phase = "ending" /\ runs[r].enders = 0 /\ runs'[r].phase = "closed"
    BY <1>7 DEF RunAdvances, RunMoves, RunTo
  <2>2. RunStage(runs[r]) = "begun" /\ RunStage(runs'[r]) = "ended"
    BY <2>1 DEF RunStage, Begun
  <2>3. /\ r \in RunsBegun \ RunsEnded
        /\ RunsEnded' = RunsEnded \cup {r} /\ UNCHANGED RunsBegun
    BY <1>1, <2>2, RunStages
  <2>4. Unfinished(r) = {} /\ LumisOf(r) = {}
    BY <2>1, InRunFacts DEF NotBegun
  <2>5. \A s \in Streams : InRuns[s] # r
    BY <2>4 DEF Unfinished, InRuns
  <2>6. \A b \in LumisBegun \ LumisEnded : b[1] # r
    BY <2>4 DEF LumisOf, LumisBegun, LumisEnded
  <2> QED
    BY <1>3, <1>4, <2>3, <2>5, <2>6, RunEndNests
<1>8. ASSUME NEW phase \in RunPhases, RunGoesOn(r, phase)
      PROVE  Nests
  BY <1>5, <1>8 DEF RunGoesOn, GoesOn, RunMoves, RunTo, RunStage, Begun
<1>9. ASSUME NEW phase \in RunPhases, RunBegins(r, phase)
      PROVE  Nests
  <2>1. RunStage(runs[r]) = "coming" /\ RunStage(runs'[r]) = "begun" /\ r \in OpenRuns
    BY <1>9, AreOpen DEF RunBegins, GoesOn, RunMoves, RunTo, RunStage, Begun, Unopened, Pending
  <2>2. /\ r \notin RunsBegun
        /\ RunsBegun' = RunsBegun \cup {r} /\ UNCHANGED RunsEnded
    BY <1>1, <2>1, RunStages
  <2>3. Cardinality(RunsBegun \ RunsEnded) < ConcurrentRuns
    BY <2>1, <2>2, RoomToBegin
  <2> QED
    BY <1>3, <1>4, <2>2, <2>3, RunBeginNests
<1>10. ASSUME NEW rs, RunEnds(r, rs)
       PROVE  Nests
  BY <1>5, <1>10 DEF RunEnds, RunMade, RunMoves, RunTo, RunStage, Begun
<1> QED
  BY <1>6, <1>7, <1>8, <1>9, <1>10 DEF RunChange

LEMMA LumiChangeNests ==
  ASSUME TaskInv, NEW CONSTANT l, l \in DOMAIN lumis, LumiChange(l)
  PROVE  Nests
<1>0. PICK r \in DOMAIN runs : r = lumis[l].run
  BY InList
<1>1. LumisBut(l) /\ lumis'[l].run = lumis[l].run
  BY DEF LumiChange, LumiAdvances, LumiDropped, LumiUnbegun, LumiBegins, LumiEnds, LumiMoves,
         LumiTo, LumisBut
<1>2. UNCHANGED RunView
  <2>1. CASE UNCHANGED runs
    BY <2>1 DEF RunView, RunsBegun, RunsEnded
  <2>2. CASE LumiDropped(l) \/ LumiUnbegun(l)
    <3>1. runs[r].phase = "open" /\ runs'[r].phase = "endSync" /\ RunsBut(r)
      BY <1>0, <2>2, CurrentFacts DEF LumiDropped, LumiUnbegun, Counts, RunMoves, RunTo, RunsBut,
                                      Current, Coming
    <3> QED
      BY <3>1, RunStages DEF RunStage, Begun
  <2>3. CASE LumiBegins(l) \/ LumiEnds(l)
    <3>1. runs'[r].phase = runs[r].phase /\ RunsBut(r)
      BY <1>0, <2>3 DEF LumiBegins, LumiEnds, Counts, RunTo, RunsBut
    <3> QED
      BY <3>1, RunStages DEF RunStage
  <2> QED
    BY <2>1, <2>2, <2>3 DEF LumiChange, LumiAdvances
<1>3. UNCHANGED StreamView
  <2>1. UNCHANGED stream \/ \E task : Pushed(task)
    BY DEF LumiChange, LumiAdvances, LumiDropped, LumiUnbegun, LumiBegins, LumiEnds
  <2>2. CASE UNCHANGED stream
    BY <2>2 DEF StreamView, InRuns, InLumis, WithEvent
  <2> QED
    BY <2>1, <2>2, PushStays
<1>4. CASE LumiUnbegun(l) \/ LumiBegins(l)
  <2>1. lumis[l].phase \in {"merge", "begin"} /\ lumis'[l].phase \in {"open", "end"}
    BY <1>4 DEF LumiUnbegun, LumiBegins, LumiMoves, LumiTo
  <2>2. LumiStage(lumis[l]) = "coming" /\ LumiStage(lumis'[l]) = "begun"
    BY <2>1 DEF LumiStage
  <2>3. /\ \A k \in LumisBegun : k[2] # l
        /\ LumisBegun' = LumisBegun \cup {<<lumis[l].run, l>>} /\ UNCHANGED LumisEnded
    BY <1>1, <2>2, LumiStages
  <2>4. r \in RunsBegun \ RunsEnded
    BY <1>0, <2>1, CurrentFacts DEF Current, Coming, RunsBegun, RunsEnded, Begun
  <2>5. Cardinality(LumisBegun \ LumisEnded) < ConcurrentLumis
    BY <2>1, RoomToBegin
  <2>6. <<r, l>>[1] = r /\ <<r, l>>[2] = l /\ <<r, l>> \notin LumisBegun
    BY <2>3
  <2> QED
    BY <1>0, <1>2, <1>3, <2>3, <2>4, <2>5, <2>6, LumiBeginNests
<1>5. CASE LumiEnds(l)
  <2>1. lumis[l].phase = "end" /\ lumis'[l].phase = "closed"
    BY <1>5 DEF LumiEnds, LumiMoves, LumiTo
  <2>2. LumiStage(lumis[l]) = "begun" /\ LumiStage(lumis'[l]) = "ended"
    BY <2>1 DEF LumiStage
  <2>3. /\ <<r, l>> \in LumisBegun \ LumisEnded
        /\ LumisEnded' = LumisEnded \cup {<<r, l>>} /\ UNCHANGED LumisBegun
    BY <1>0, <1>1, <2>2, LumiStages
  <2>4. \A s \in Streams : InLumis[s] # l
    BY <2>1 DEF TaskInv, LumisCounted, In, InLumis
  <2> QED
    BY <1>2, <1>3, <2>3, <2>4, LumiEndNests
<1>6. CASE LumiDropped(l) \/ \E phase \in LumiPhases : LumiAdvances(l, phase)
  <2>1. LumiStage(lumis'[l]) = LumiStage(lumis[l])
    BY <1>6 DEF LumiDropped, LumiAdvances, LumiMoves, LumiTo, LumiStage
  <2> QED
    BY <1>1, <1>2, <1>3, <2>1, LumiStages, NothingNests
<1> QED
  BY <1>4, <1>5, <1>6 DEF LumiChange

(* Where a stream is.                                                      *)
LEMMA StreamToView ==
  ASSUME NEW CONSTANT s \in Streams, NEW run, NEW lumi, NEW doing, NEW queue, NEW pauses,
         StreamTo(s, run, lumi, doing, queue, pauses)
  PROVE  /\ InRuns' = [InRuns EXCEPT ![s] = run]
         /\ InLumis' = [InLumis EXCEPT ![s] = lumi]
         /\ WithEvent' = IF doing = "event" THEN WithEvent \cup {s} ELSE WithEvent \ {s}
         /\ run = stream[s].run => UNCHANGED InRuns
         /\ lumi = stream[s].lumi => UNCHANGED InLumis
         /\ (doing = "event" <=> stream[s].doing = "event") => UNCHANGED WithEvent
<1>1. /\ stream'[s].run = run /\ stream'[s].lumi = lumi /\ stream'[s].doing = doing
      /\ \A t \in Streams \ {s} : stream'[t] = stream[t]
  BY DEF StreamTo
<1>2. InRuns' = [InRuns EXCEPT ![s] = run] /\ (run = stream[s].run => UNCHANGED InRuns)
  BY <1>1 DEF InRuns
<1>3. InLumis' = [InLumis EXCEPT ![s] = lumi] /\ (lumi = stream[s].lumi => UNCHANGED InLumis)
  BY <1>1 DEF InLumis
<1>4. /\ WithEvent' = IF doing = "event" THEN WithEvent \cup {s} ELSE WithEvent \ {s}
      /\ (doing = "event" <=> stream[s].doing = "event") => UNCHANGED WithEvent
  BY <1>1 DEF WithEvent
<1> QED
  BY <1>2, <1>3, <1>4

LEMMA StreamRunsStay ==
  ASSUME TaskInv, NEW CONSTANT s \in Streams, StreamChange(s)
  PROVE  UNCHANGED RunView
<1>1. CASE UNCHANGED runs
  BY <1>1 DEF RunView, RunsBegun, RunsEnded
<1>2. CASE HasBegun(s) \/ HasEnded(s)
  <2>1. PICK r \in DOMAIN runs : r = stream[s].run
    BY <1>2, PlaceFacts DEF HasBegun, HasEnded
  <2>2. runs'[r].phase = runs[r].phase /\ RunsBut(r)
    BY <1>2, <2>1 DEF HasBegun, HasEnded, RunTo, RunsBut
  <2> QED
    BY <2>2, RunStages DEF RunStage
<1>3. CASE Pauses(s) \/ \E ls : Stops(s, ls)
  <2>1. PICK r \in DOMAIN runs : r = lumis[stream[s].lumi].run
    BY <1>3, StopsFacts, InList DEF Pauses, Stops
  <2>2. runs[r].phase = "open"
    BY <1>3, <2>1, StopsFacts, CurrentFacts DEF Pauses, Stops
  <2>3. CASE RunsBut(r) /\ runs'[r].phase \in {"open", "endSync"}
    BY <2>2, <2>3, RunStages DEF RunStage, Begun
  <2>4. UNCHANGED runs \/ (RunsBut(r) /\ runs'[r].phase \in {"open", "endSync"})
    BY <1>3, <2>1, <2>2 DEF Pauses, Stops, RunMoves, RunTo, RunsBut
  <2> QED
    BY <1>1, <2>3, <2>4
<1> QED
  BY <1>1, <1>2, <1>3 DEF StreamChange, BeginsRun, EndsRun, Joins, Skips, Takes, Does, Leaves

LEMMA StreamLumisStay ==
  ASSUME TaskInv, NEW CONSTANT s \in Streams, StreamChange(s)
  PROVE  UNCHANGED LumiView
<1>1. CASE UNCHANGED lumis
  BY <1>1 DEF LumiView, LumisBegun, LumisEnded
<1>2. CASE Joins(s)
  <2>1. PICK l \in DOMAIN lumis : l = Head(stream[s].queue)[2]
    BY <1>2, TakeFacts DEF Joins, Takes
  <2>2. LumisBut(l) /\ lumis'[l].phase = lumis[l].phase /\ lumis'[l].run = lumis[l].run
    BY <1>2, <2>1 DEF Joins, LumiTo, LumisBut
  <2> QED
    BY <2>2, LumiStages DEF LumiStage
<1>3. CASE Pauses(s)
  <2>1. PICK l \in DOMAIN lumis : l = stream[s].lumi
    BY <1>3, StopsFacts DEF Pauses
  <2>2. LumisBut(l) /\ lumis'[l].phase = lumis[l].phase /\ lumis'[l].run = lumis[l].run
    BY <1>3, <2>1 DEF Pauses, LumiTo, LumisBut
  <2> QED
    BY <2>2, LumiStages DEF LumiStage
<1>4. ASSUME NEW ls, Stops(s, ls)
      PROVE  UNCHANGED LumiView
  <2>1. PICK l \in DOMAIN lumis : l = stream[s].lumi
    BY <1>4, StopsFacts DEF Stops
  <2>2. /\ \A k \in DOMAIN lumis : k \in DOMAIN ls /\ (k # l => ls[k] = lumis[k])
        /\ DOMAIN ls = DOMAIN lumis
        /\ ls[l].phase = lumis[l].phase /\ ls[l].run = lumis[l].run
    BY <1>4, <2>1 DEF Stops, LumiTo
  <2>3. \/ lumis' = ls
        \/ /\ \A k \in DOMAIN ls : k \in DOMAIN lumis' /\ lumis'[k] = ls[k]
           /\ \A k \in DOMAIN lumis' \ DOMAIN ls : lumis'[k].phase = "sync"
    BY <1>4 DEF Stops, LumiMade
  <2>4. LumisBut(l) /\ lumis'[l].phase = lumis[l].phase /\ lumis'[l].run = lumis[l].run
    BY <2>2, <2>3 DEF LumisBut
  <2> QED
    BY <2>4, LumiStages DEF LumiStage
<1>5. CASE Leaves(s)
  <2>1. PICK l \in DOMAIN lumis : l = stream[s].lumi /\ lumis[l].phase = "open"
    BY <1>5, PlaceFacts, InFacts DEF Leaves
  <2>2. LumisBut(l) /\ lumis'[l].phase \in {"open", "end"} /\ lumis'[l].run = lumis[l].run
    BY <1>5, <2>1 DEF Leaves, LumiTo, LumisBut
  <2> QED
    BY <2>1, <2>2, LumiStages DEF LumiStage
<1> QED
  BY <1>1, <1>2, <1>3, <1>4, <1>5 DEF StreamChange, BeginsRun, EndsRun, Skips, HasBegun, HasEnded, Does

LEMMA StreamChangeNests ==
  ASSUME TaskInv, NEW CONSTANT s \in Streams, StreamChange(s)
  PROVE  Nests
<1>1. UNCHANGED RunView /\ UNCHANGED LumiView
  BY StreamRunsStay, StreamLumisStay
<1>2. InRuns[s] = stream[s].run /\ InLumis[s] = stream[s].lumi /\ (s \in WithEvent <=> stream[s].doing = "event")
  BY DEF InRuns, InLumis, WithEvent
<1>3. CASE BeginsRun(s)
  <2>1. PICK r \in DOMAIN runs : r = Head(stream[s].queue)[2]
    BY <1>3, TakeFacts DEF BeginsRun, Takes
  <2>2. stream[s].run = 0 /\ stream[s].doing = "nothing"
    BY <1>3, TakeFacts DEF BeginsRun, Takes
  <2>3. /\ InRuns' = [InRuns EXCEPT ![s] = r]
        /\ UNCHANGED <<InLumis, WithEvent>>
    BY <1>3, <2>1, <2>2, StreamToView DEF BeginsRun
  <2>4. Queued(s, <<"beginRun", r>>)
    <3>1. Head(stream[s].queue) = <<"beginRun", r>>
      BY <1>3, <2>1, HeadFacts DEF BeginsRun, Takes, StreamTasks
    <3> QED
      BY <1>3, <3>1, HeadFacts DEF Queued, BeginsRun, Takes
  <2>5. r \in RunsBegun \ RunsEnded
    BY <2>4, InRunFacts DEF Unfinished
  <2> QED
    BY <1>1, <1>2, <2>2, <2>3, <2>5, StreamNests
<1>4. CASE Joins(s)
  <2>1. PICK l \in DOMAIN lumis : l = Head(stream[s].queue)[2]
    BY <1>4, TakeFacts DEF Joins, Takes
  <2>2. /\ stream[s].lumi = 0 /\ stream[s].doing = "nothing" /\ lumis[l].run = stream[s].run
        /\ ~lumis[l].noMore
    BY <1>4, <2>1, TakeFacts DEF Joins, Takes
  <2>3. /\ InLumis' = [InLumis EXCEPT ![s] = l]
        /\ UNCHANGED <<InRuns, WithEvent>>
    BY <1>4, <2>1, <2>2, StreamToView DEF Joins
  <2>4. Queued(s, <<"beginLumi", l>>)
    <3>1. Head(stream[s].queue) = <<"beginLumi", l>>
      BY <1>4, <2>1, HeadFacts DEF Joins, Takes, StreamTasks
    <3> QED
      BY <1>4, <3>1, HeadFacts DEF Queued, Joins, Takes
  <2>5. lumis[l].phase = "open"
    BY <2>2, <2>4 DEF TaskInv, LumisJoined
  <2>6. <<lumis[l].run, l>> \in LumisBegun \ LumisEnded
    BY <2>5 DEF LumisBegun, LumisEnded
  <2>7. <<lumis[l].run, l>>[1] = InRuns[s] /\ <<lumis[l].run, l>>[2] = l
    BY <1>2, <2>2
  <2> QED
    BY <1>1, <1>2, <2>2, <2>3, <2>6, <2>7, StreamNests
<1>5. CASE HasEnded(s)
  <2>1. stream[s].run # 0 /\ stream[s].lumi = 0
    BY <1>5, PlaceFacts DEF HasEnded
  <2>2. InRuns' = [InRuns EXCEPT ![s] = 0] /\ UNCHANGED <<InLumis, WithEvent>>
    BY <1>5, StreamToView DEF HasEnded
  <2> QED
    BY <1>1, <1>2, <2>1, <2>2, StreamNests
<1>6. CASE Leaves(s)
  <2>1. stream[s].lumi # 0 /\ stream[s].doing = "endLumi"
    BY <1>6, PlaceFacts DEF Leaves
  <2>2. InLumis' = [InLumis EXCEPT ![s] = 0] /\ UNCHANGED <<InRuns, WithEvent>>
    BY <1>6, <2>1, StreamToView DEF Leaves
  <2> QED
    BY <1>1, <1>2, <2>1, <2>2, StreamNests
<1>7. ASSUME NEW doing \in Doings, Does(s, doing)
      PROVE  Nests
  <2>1. /\ stream[s].lumi # 0
        /\ stream[s].doing = "event" => doing # "event"
    BY <1>7, PlaceFacts DEF Does
  <2>2. /\ UNCHANGED <<InRuns, InLumis>>
        /\ WithEvent' = IF doing = "event" THEN WithEvent \cup {s} ELSE WithEvent \ {s}
    BY <1>7, StreamToView DEF Does, StreamDoes
  <2>3. CASE doing = "event"
    BY <1>1, <1>2, <2>1, <2>2, <2>3, StreamNests
  <2>4. CASE doing # "event" /\ stream[s].doing = "event"
    BY <1>1, <1>2, <2>2, <2>4, StreamNests
  <2>5. CASE doing # "event" /\ stream[s].doing # "event"
    <3>1. UNCHANGED WithEvent
      BY <1>2, <2>2, <2>5
    <3> QED
      BY <1>1, <2>2, <3>1, NothingNests DEF StreamView
  <2> QED
    BY <2>3, <2>4, <2>5
<1>8. CASE EndsRun(s) \/ Skips(s)
  <2>1. stream[s].doing = "nothing"
    BY <1>8, TakeFacts DEF EndsRun, Skips, Takes
  <2>2. UNCHANGED <<InRuns, InLumis, WithEvent>>
    <3>1. CASE EndsRun(s)
      BY <2>1, <3>1, StreamToView DEF EndsRun
    <3>2. CASE Skips(s)
      BY <2>1, <3>2, StreamToView DEF Skips
    <3> QED
      BY <1>8, <3>1, <3>2
  <2> QED
    BY <1>1, <2>2, NothingNests DEF StreamView
<1>9. CASE HasBegun(s) \/ Pauses(s) \/ \E ls : Stops(s, ls)
  <2>1. UNCHANGED <<InRuns, InLumis, WithEvent>>
    <3>1. CASE HasBegun(s)
      BY <3>1, StreamToView DEF HasBegun
    <3>2. CASE Pauses(s)
      BY <3>2, StreamToView DEF Pauses, StreamDoes
    <3>3. ASSUME NEW ls, Stops(s, ls)
          PROVE  UNCHANGED <<InRuns, InLumis, WithEvent>>
      BY <3>3, StreamToView DEF Stops, StreamDoes
    <3> QED
      BY <1>9, <3>1, <3>2, <3>3
  <2> QED
    BY <1>1, <2>1, NothingNests DEF StreamView
<1> QED
  BY <1>3, <1>4, <1>5, <1>6, <1>7, <1>8, <1>9 DEF StreamChange

LEMMA ChangeNests ==
  ASSUME TaskInv, Change
  PROVE  Nests
<1>1. CASE UNCHANGED <<runs, lumis, stream>>
  BY <1>1, NothingNests DEF RunView, LumiView, StreamView, RunsBegun, RunsEnded, LumisBegun,
     LumisEnded, InRuns, InLumis, WithEvent
<1>2. CASE MakesRun
  <2>1. UNCHANGED RunView
    BY <1>2, RunsStay DEF MakesRun, RunMade, RunStage
  <2> QED
    BY <1>2, <2>1, NothingNests DEF MakesRun, LumiView, StreamView, LumisBegun, LumisEnded, InRuns,
       InLumis, WithEvent
<1>3. ASSUME NEW CONSTANT l, l \in DOMAIN lumis, Resumes(l) \/ CallsOff(l)
      PROVE  Nests
  <2>1. PICK r \in DOMAIN runs : r = lumis[l].run
    BY <1>3, InList
  <2>2. UNCHANGED LumiView
    <3>1. LumisBut(l) /\ lumis'[l].phase = lumis[l].phase /\ lumis'[l].run = lumis[l].run
      BY <1>3 DEF Resumes, CallsOff, LumiTo, LumisBut
    <3> QED
      BY <1>3, <3>1, LumiStages DEF LumiStage
  <2>3. UNCHANGED RunView
    <3>1. RunsBut(r) /\ runs'[r].phase = runs[r].phase
      BY <1>3, <2>1 DEF Resumes, CallsOff, RunMoves, RunTo, RunsBut
    <3> QED
      BY <3>1, RunStages DEF RunStage
  <2>4. UNCHANGED StreamView
    <3>1. UNCHANGED stream \/ \E doing \in {"resume", "endLumi"} : StreamsDo(doing)
      BY <1>3 DEF Resumes, CallsOff
    <3>2. ASSUME NEW doing \in {"resume", "endLumi"}, StreamsDo(doing), NEW s \in Streams
          PROVE  /\ stream'[s].run = stream[s].run /\ stream'[s].lumi = stream[s].lumi
                 /\ stream'[s].doing # "event" /\ stream[s].doing = "nothing"
      <4>1. stream[s].doing = "nothing"
        BY <1>3 DEF Resumes, CallsOff, Idle
      <4> QED
        BY <3>2, <4>1, AllDo
    <3>3. CASE UNCHANGED stream
      BY <3>3 DEF StreamView, InRuns, InLumis, WithEvent
    <3> QED
      BY <3>1, <3>2, <3>3, StreamsStay
  <2> QED
    BY <2>2, <2>3, <2>4, NothingNests
<1> QED
  BY <1>1, <1>2, <1>3, RunChangeNests, LumiChangeNests, StreamChangeNests DEF Change

(* The transitions of a job nest, in whatever order the tasks run and      *)
(* whoever throws: a run or luminosity block is ended once, after every    *)
(* stream has left it, a run after its luminosity blocks, no stream is in  *)
(* one that has not begun, and an event is in a luminosity block.          *)
THEOREM TransitionsNest == Spec => ImplementsOccurrences
<1>1. MainInit => Occurrences!Init
  BY DEF MainInit, Init, Occurrences!Init, Begun
<1>2. JobInv /\ [Next]_allVars => [Occurrences!Next]_(Occurrences!vars)
  <2> SUFFICES ASSUME JobInv, [Next]_allVars
               PROVE  Nests
    BY DEF Nests
  <2>1. CASE MainStep
    BY <2>1, MainStepChange, ChangeNests DEF JobInv
  <2>2. CASE TaskStep
    BY <2>2, TaskStepChange, ChangeNests DEF JobInv
  <2>3. CASE Crash \/ UNCHANGED allVars
    BY <2>3, ChangeNests DEF JobInv, Change, Crash, allVars, taskVars, vars
  <2> QED
    BY <2>1, <2>2, <2>3 DEF Next
<1> QED
  BY <1>1, <1>2, JobInvariant, PTL DEF Spec, ImplementsOccurrences, Occurrences!Spec

-----------------------------------------------------------------------------
(* The items of the source are handled in order.                           *)

(* The source has the next item, or has said that there is none because of *)
(* a stop; or the last item it gave is handled.                            *)
AtHand == src.pos = Len(log) + 1 /\ (src.kind = Item.kind \/ (src.kind = "Stop" /\ mayStop))
Taken  == src.pos = Len(log)
InHand == IF src.needNext THEN Taken ELSE AtHand

LastWas(kind, n) == Len(log) \in DOMAIN input /\ SameEntry(Len(log), kind, n)

(* What a run, or luminosity block, needs of the source in its phase: its  *)
(* own item; that its item was the last one handled, and perhaps the next  *)
(* is at hand; or events, for the streams in a luminosity block.           *)
RunNeeds(x) == IF x.phase \in {"sync", "queue", "read"} THEN "item"
               ELSE IF x.phase \in {"merge", "next"} THEN "taken"
               ELSE IF x.phase = "begin" THEN "either" ELSE "nothing"

LumiNeeds(x) == IF x.phase \in {"sync", "queue", "read"} THEN "item"
                ELSE IF x.phase = "merge" THEN "taken"
                ELSE IF x.phase = "begin" THEN "either"
                ELSE IF x.phase = "open" /\ ~x.noMore /\ x.state = "processing" THEN "events"
                ELSE "nothing"

RunFinds(r) ==
  LET need == RunNeeds(runs[r]) IN
  /\ need = "item" => AtHand /\ src.kind = "Run" /\ Item.run = runs[r].num
  /\ need = "taken" => Taken
  /\ need = "either" => InHand
  /\ need \in {"taken", "either"} => LastWas("Run", runs[r].num)

NumOfRun(l) == runs[lumis[l].run].num

(* The next item, if it is in a luminosity block, is in this run, and an   *)
(* event in this luminosity block.                                         *)
Fits(l) ==
  LET x == input[Len(log) + 1] IN
  /\ x.kind \in {"Lumi", "Event"} => x.run = NumOfRun(l)
  /\ x.kind = "Event" => x.lumi = lumis[l].num

Streaming == Call("wait") /\ ~failed

LumiFinds(l) ==
  LET need == LumiNeeds(lumis[l]) IN
  /\ need = "item" => AtHand /\ src.kind = "Lumi" /\ Item.lumi = lumis[l].num
                      /\ Item.run = NumOfRun(l)
  /\ need = "taken" => Taken
  /\ need = "either" => InHand
  /\ need \in {"taken", "either"} =>
       LastWas("Lumi", lumis[l].num) /\ input[Len(log)].run = NumOfRun(l)
  /\ need = "events" /\ Streaming =>
       InHand /\ Fits(l) /\ \A s \in In(l) : stream[s].doing # "nothing"

(* Nobody needs the source: the item at hand is the main thread's.         *)
NoNeed == /\ \A r \in DOMAIN runs : RunNeeds(runs[r]) = "nothing"
          /\ \A l \in DOMAIN lumis : LumiNeeds(lumis[l]) = "nothing"

ForMain == /\ src.kind \in {"File", "Run", "Stop"}
           /\ AtHand \/ (src.kind = "Stop" /\ mayStop)

Found == /\ \A r \in DOMAIN runs : RunFinds(r)
         /\ \A l \in DOMAIN lumis : LumiFinds(l)
         /\ Streaming /\ NoNeed => ForMain

(* What the main thread finds when it asks, reads a file or goes on with   *)
(* runs, and that nothing is left when it ends.                            *)
ToDo(name) == \E i \in DOMAIN todo : todo[i] = name

MainFinds ==
  /\ ToDo("readFile") => src.pos = Len(log) + 1 /\ input[src.pos].kind = "File"
  /\ ToDo("next") /\ ~ToDo("readFile") =>
       Taken /\ (Len(log) = 0 \/ input[Len(log)].kind = "File")
  /\ Call("processRuns") => AtHand /\ src.kind = "Run"
  /\ ~ToDo("next") /\ ~ToDo("wait") /\ throws = 0 /\ ~mayStop => Len(log) = Len(input) - 1

InOrder ==
  /\ log \in Seq(Nat \X Nat \X Nat) /\ Len(log) < Len(input)
  /\ \A k \in DOMAIN log : log[k] = <<k, input[k].run, input[k].lumi>>

SourceTyped ==
  /\ input \in Inputs
  /\ src \in [pos : 0..Len(input), kind : Kinds, needNext : BOOLEAN]

SourceInv == SourceTyped /\ InOrder /\ Found /\ MainFinds

LEMMA InputFacts ==
  ASSUME input \in Inputs
  PROVE  /\ Len(input) \in Nat \ {0} /\ DOMAIN input = 1..Len(input)
         /\ \A i \in DOMAIN input :
              /\ input[i] \in Items /\ input[i].run \in Nat /\ input[i].lumi \in Nat
              /\ input[i].last \in BOOLEAN /\ input[i].kind \in Kinds
              /\ input[i].kind = "Stop" <=> i = Len(input)
              /\ input[i].kind \in {"File", "Stop"} => input[i].run = 0
              /\ input[i].kind \in {"File", "Run", "Stop"} => input[i].lumi = 0
              /\ i + 1 \in DOMAIN input => MayFollow(input[i], input[i + 1])
         /\ input[1].kind \in {"File", "Stop"}
<1>1. WellFormed(input)
  BY InputsAssumption
<1>2. input \in Seq(Items) /\ input # <<>>
  BY <1>1 DEF WellFormed
<1>3. Len(input) \in Nat \ {0} /\ DOMAIN input = 1..Len(input) /\ \A i \in DOMAIN input : input[i] \in Items
  BY <1>2
<1> QED
  BY <1>1, <1>3 DEF WellFormed, Items

(* Only one run or luminosity block needs the source at a time.            *)
LEMMA RunAlone ==
  ASSUME TaskInv, NEW r \in DOMAIN runs, RunNeeds(runs[r]) # "nothing"
  PROVE  /\ \A q \in DOMAIN runs \ {r} : RunNeeds(runs[q]) = "nothing"
         /\ \A l \in DOMAIN lumis : LumiNeeds(lumis[l]) = "nothing"
<1>1. runs[r].phase \notin {"ending", "closed", "dropped", "open"}
  BY DEF RunNeeds
<1>2. /\ \A q \in DOMAIN runs \ {r} : runs[q].phase \in {"ending", "closed", "dropped"}
      /\ NoCurrent
  BY <1>1, OneUnfinishedRun
<1>3. \A l \in DOMAIN lumis : LumiNeeds(lumis[l]) = "nothing"
  BY <1>2 DEF NoCurrent, Current, Coming, LumiNeeds
<1> QED
  BY <1>2, <1>3 DEF RunNeeds

LEMMA LumiAlone ==
  ASSUME TaskInv, NEW l \in DOMAIN lumis, Current(l)
  PROVE  /\ \A r \in DOMAIN runs : RunNeeds(runs[r]) = "nothing"
         /\ \A k \in DOMAIN lumis \ {l} : LumiNeeds(lumis[k]) = "nothing"
<1>1. /\ \A r \in DOMAIN runs : runs[r].phase \in {"open", "ending", "closed", "dropped"}
      /\ \A k \in DOMAIN lumis : k # l => ~Current(k)
  BY CurrentFacts
<1> QED
  BY <1>1 DEF RunNeeds, LumiNeeds, Current, Coming

(* ... so that what it finds is all there is to say.                       *)
LEMMA FoundByRun ==
  TaskInv /\ (\E r \in DOMAIN runs : RunNeeds(runs[r]) # "nothing" /\ RunFinds(r)) => Found
<1> SUFFICES ASSUME TaskInv, NEW r \in DOMAIN runs, RunNeeds(runs[r]) # "nothing", RunFinds(r)
             PROVE  Found
  OBVIOUS
<1>1. /\ \A q \in DOMAIN runs \ {r} : RunNeeds(runs[q]) = "nothing"
      /\ \A l \in DOMAIN lumis : LumiNeeds(lumis[l]) = "nothing"
  BY RunAlone
<1>2. \A q \in DOMAIN runs : RunFinds(q)
  BY <1>1 DEF RunFinds
<1>3. \A l \in DOMAIN lumis : LumiFinds(l)
  BY <1>1 DEF LumiFinds
<1> QED
  BY <1>2, <1>3 DEF Found, NoNeed

LEMMA FoundByLumi ==
  TaskInv /\ (\E l \in DOMAIN lumis : LumiNeeds(lumis[l]) # "nothing" /\ LumiFinds(l)) => Found
<1> SUFFICES ASSUME TaskInv, NEW l \in DOMAIN lumis, LumiNeeds(lumis[l]) # "nothing", LumiFinds(l)
             PROVE  Found
  OBVIOUS
<1>1. Current(l)
  BY DEF LumiNeeds, Current, Coming
<1>2. /\ \A r \in DOMAIN runs : RunNeeds(runs[r]) = "nothing"
      /\ \A k \in DOMAIN lumis \ {l} : LumiNeeds(lumis[k]) = "nothing"
  BY <1>1, LumiAlone
<1>3. \A q \in DOMAIN runs : RunFinds(q)
  BY <1>2 DEF RunFinds
<1>4. \A k \in DOMAIN lumis : LumiFinds(k)
  BY <1>2 DEF LumiFinds
<1> QED
  BY <1>3, <1>4 DEF Found, NoNeed

(* Nobody needs an item, and the streams read no more, or nobody needs the *)
(* source.                                                                 *)
LEMMA FoundByNobody ==
  /\ \A r \in DOMAIN runs : RunNeeds(runs[r]) = "nothing"
  /\ \A l \in DOMAIN lumis : LumiNeeds(lumis[l]) \in {"nothing", "events"}
  /\ ~Streaming \/ ((\A l \in DOMAIN lumis : LumiNeeds(lumis[l]) = "nothing") /\ ForMain)
  => Found
BY DEF Found, RunFinds, LumiFinds

LEMMA FoundStays ==
  ASSUME Found, UNCHANGED <<src, log, input, mayStop>>,
         DOMAIN runs' = DOMAIN runs, DOMAIN lumis' = DOMAIN lumis,
         \A r \in DOMAIN runs : runs'[r].num = runs[r].num /\ RunNeeds(runs'[r]) = RunNeeds(runs[r]),
         \A l \in DOMAIN lumis : /\ lumis'[l].num = lumis[l].num /\ lumis'[l].run = lumis[l].run
                                 /\ lumis[l].run \in DOMAIN runs
                                 /\ LumiNeeds(lumis'[l]) = LumiNeeds(lumis[l]),
         Streaming' => Streaming,
         \A l \in DOMAIN lumis : LumiNeeds(lumis[l]) = "events" =>
           \A s \in In(l)' : stream'[s].doing = "nothing" => s \in In(l) /\ stream[s].doing = "nothing"
  PROVE  Found'
<1>1. AtHand' = AtHand /\ Taken' = Taken /\ InHand' = InHand /\ ForMain' = ForMain
  BY DEF AtHand, Taken, InHand, ForMain, Item
<1>2. \A kind, n : LastWas(kind, n)' <=> LastWas(kind, n)
  BY DEF LastWas, SameEntry
<1>3. \A l \in DOMAIN lumis : NumOfRun(l)' = NumOfRun(l) /\ (Fits(l)' <=> Fits(l))
  BY DEF NumOfRun, Fits
<1>4. \A r \in DOMAIN runs' : RunFinds(r)'
  BY <1>1, <1>2 DEF Found, RunFinds, Item
<1>5. \A l \in DOMAIN lumis' : LumiFinds(l)'
  <2> SUFFICES ASSUME NEW l \in DOMAIN lumis PROVE LumiFinds(l)'
    OBVIOUS
  <2>1. LumiFinds(l)
    BY DEF Found
  <2>2. LumiNeeds(lumis[l]) = "events" /\ Streaming => \A s \in In(l)' : stream'[s].doing # "nothing"
    BY <2>1 DEF LumiFinds
  <2> QED
    BY <1>1, <1>2, <1>3, <2>1, <2>2 DEF LumiFinds, Item
<1>6. NoNeed' => NoNeed
  BY DEF NoNeed
<1> QED
  BY <1>1, <1>4, <1>5, <1>6 DEF Found

-----------------------------------------------------------------------------
(* Merging, and what the log gets from it.                                 *)

LEMMA LeastNat ==
  ASSUME NEW T, T \subseteq Nat, T # {}
  PROVE  \E m \in T : \A k \in T : m <= k
<1>1. \E m \in T : \A k \in T : ~(<<k, m>> \in OpToRel(<, Nat))
  BY WFMin, NatLessThanWellFounded, Zenon
<1>2. PICK m \in T : \A k \in T : ~(<<k, m>> \in OpToRel(<, Nat))
  BY <1>1
<1>3. ASSUME NEW k \in T PROVE m <= k
  <2>1. k \in Nat /\ m \in Nat /\ ~(<<k, m>> \in OpToRel(<, Nat))
    BY <1>2
  <2>2. ~(k < m)
    BY <2>1, Zenon DEF OpToRel
  <2>3. k \in Nat /\ m \in Nat
    OBVIOUS
  <2> QED
    BY <2>2, <2>3
<1> QED
  BY <1>3

(* m entries of n, those after the p-th item, are merged from the source   *)
(* as it is in s, which is left as t.                                      *)
Merged(p, kind, n, s, continuing, m, t) ==
  /\ p + m < Len(input) /\ \A i \in 1..m : SameEntry(p + i, kind, n)
  /\ \/ continuing /\ s.kind # kind /\ m = 0 /\ t = [s EXCEPT !.needNext = FALSE]
     \/ ~continuing /\ m > 0 /\ t = [pos |-> p + m, kind |-> kind, needNext |-> TRUE]
     \/ /\ continuing => s.kind = kind
        /\ \E k \in {input[p + m + 1].kind} \cup (IF mayStop THEN {"Stop"} ELSE {}) :
             t = [pos |-> p + m + 1, kind |-> k, needNext |-> FALSE]

LEMMA MergeFacts ==
  ASSUME input \in Inputs, NEW s \in [pos : 0..Len(input), kind : Kinds, needNext : BOOLEAN],
         NEW kind \in {"Run", "Lumi"}, NEW n, NEW continuing \in BOOLEAN,
         NEW p \in 0..(Len(input) - 1), p = (IF continuing THEN s.pos - 1 ELSE s.pos),
         NEW o \in MergeOutcomes(s, kind, n, continuing)
  PROVE  \E m \in Nat : /\ o.entries = [i \in 1..m |-> p + i]
                        /\ Merged(p, kind, n, s, continuing, m, o.src)
<1>0. Len(input) \in Nat \ {0} /\ input[Len(input)].kind = "Stop"
  BY InputFacts
<1> DEFINE b == IF continuing THEN s.pos - 1 ELSE s.pos
           StopsAt(j) == SameEntry(j + 1, kind, n) => ~continuing /\ j > b /\ input[j].last
           Upto(j) == [i \in 1..(j - b) |-> b + i]
           Right(j) == /\ \A i \in (b + 1)..j : SameEntry(i, kind, n) /\ (i < j => continuing \/ ~input[i].last)
                       /\ SameEntry(j + 1, kind, n) => ~continuing /\ j > b /\ input[j].last
           k == CHOOSE j \in b..(Len(input) - 1) : Right(j)
           atLast == ~continuing /\ k > b /\ input[k].last
<1>1. \E j \in b..(Len(input) - 1) : Right(j)
  <2> DEFINE T == {j \in b..(Len(input) - 1) : StopsAt(j)}
  <2>1. ~SameEntry(Len(input) - 1 + 1, kind, n)
    BY <1>0 DEF SameEntry
  <2>2. T \subseteq Nat /\ Len(input) - 1 \in T
    BY <1>0, <2>1
  <2> HIDE DEF T
  <2>3. PICK j \in T : \A i \in T : j <= i
    BY <2>2, LeastNat
  <2> USE DEF T
  <2>4. j \in b..(Len(input) - 1) /\ StopsAt(j)
    BY <2>3
  <2>5. ASSUME NEW i \in (b + 1)..j
        PROVE  SameEntry(i, kind, n) /\ ~(~continuing /\ i - 1 > b /\ input[i - 1].last)
    <3>1. i - 1 \in b..(Len(input) - 1) /\ i - 1 < j /\ i - 1 + 1 = i
      BY <1>0, <2>4, <2>5
    <3>2. i - 1 \notin T
      BY <2>3, <3>1, <1>0
    <3>3. ~StopsAt(i - 1)
      BY <3>1, <3>2
    <3> QED
      BY <3>1, <3>3
  <2>6. ASSUME NEW i \in (b + 1)..j, i < j
        PROVE  continuing \/ ~input[i].last
    <3>1. i + 1 \in (b + 1)..j /\ i + 1 - 1 = i /\ i > b
      BY <1>0, <2>4, <2>6
    <3> QED
      BY <3>1, <2>5
  <2>7. Right(j)
    BY <2>4, <2>5, <2>6
  <2> QED
    BY <2>4, <2>7
<1> HIDE DEF Right
<1>2. k \in b..(Len(input) - 1) /\ Right(k)
  BY <1>1
<1> USE DEF Right
<1>3. \A i \in (b + 1)..k : SameEntry(i, kind, n)
  BY <1>2
<1>4. \/ /\ continuing /\ s.kind # kind
         /\ o = [entries |-> <<>>, src |-> [s EXCEPT !.needNext = FALSE]]
      \/ /\ ~(continuing /\ s.kind # kind)
         /\ o = [entries |-> Upto(k),
                 src |-> IF atLast THEN [pos |-> k, kind |-> kind, needNext |-> TRUE]
                         ELSE [pos |-> k + 1, kind |-> input[k + 1].kind, needNext |-> FALSE]]
      \/ /\ ~(continuing /\ s.kind # kind) /\ mayStop
         /\ \E j \in (s.pos + 1)..(IF atLast THEN k ELSE k + 1) :
              o = [entries |-> Upto(j - 1), src |-> [pos |-> j, kind |-> "Stop", needNext |-> FALSE]]
  <2>1. o \in (IF continuing /\ s.kind # kind
                 THEN {[entries |-> <<>>, src |-> [s EXCEPT !.needNext = FALSE]]}
                 ELSE {[entries |-> Upto(k),
                        src |-> IF atLast THEN [pos |-> k, kind |-> kind, needNext |-> TRUE]
                                ELSE [pos |-> k + 1, kind |-> input[k + 1].kind, needNext |-> FALSE]]}
                      \cup {[entries |-> Upto(j - 1),
                             src |-> [pos |-> j, kind |-> "Stop", needNext |-> FALSE]] :
                            j \in IF mayStop THEN (s.pos + 1)..(IF atLast THEN k ELSE k + 1) ELSE {}})
    BY Zenon DEF MergeOutcomes
  <2> HIDE DEF k, Right, atLast, Upto, b
  <2> QED
    BY <2>1, Zenon
<1> HIDE DEF k, Right, atLast
<1>p. b \in 0..(Len(input) - 1) /\ s.pos >= b
  OBVIOUS
<1> SUFFICES \E m \in Nat : /\ o.entries = [i \in 1..m |-> b + i]
                            /\ Merged(b, kind, n, s, continuing, m, o.src)
  OBVIOUS
<1> HIDE DEF b
<1>5. CASE /\ continuing /\ s.kind # kind
           /\ o = [entries |-> <<>>, src |-> [s EXCEPT !.needNext = FALSE]]
  <2>1. o.entries = [i \in 1..0 |-> b + i] /\ o.src = [s EXCEPT !.needNext = FALSE]
    BY <1>5
  <2>2. Merged(b, kind, n, s, continuing, 0, o.src)
    BY <1>5, <2>1, <1>0, <1>p DEF Merged
  <2> QED
    BY <2>1, <2>2
<1>6. CASE /\ ~(continuing /\ s.kind # kind)
           /\ o = [entries |-> Upto(k),
                   src |-> IF atLast THEN [pos |-> k, kind |-> kind, needNext |-> TRUE]
                           ELSE [pos |-> k + 1, kind |-> input[k + 1].kind, needNext |-> FALSE]]
  <2>1. k - b \in Nat /\ b + (k - b) = k /\ k < Len(input)
    BY <1>2, <1>0, <1>p
  <2>2. ASSUME NEW i \in 1..(k - b) PROVE SameEntry(b + i, kind, n)
    <3>1. b + i \in (b + 1)..k
      BY <2>1, <1>p
    <3> QED
      BY <3>1, <1>3
  <2>3. CASE atLast
    <3>1. ~continuing /\ k - b > 0
      BY <2>1, <2>3, <1>2, <1>p DEF atLast
    <3> QED
      BY <3>1, <2>1, <2>2, <2>3, <1>6, <1>p DEF Merged
  <2>4. CASE ~atLast
    BY <2>1, <2>2, <2>4, <1>6, <1>p DEF Merged
  <2> QED
    BY <2>3, <2>4
<1>7. CASE /\ ~(continuing /\ s.kind # kind) /\ mayStop
           /\ \E j \in (s.pos + 1)..(IF atLast THEN k ELSE k + 1) :
                o = [entries |-> Upto(j - 1), src |-> [pos |-> j, kind |-> "Stop", needNext |-> FALSE]]
  <2>1. PICK j \in (s.pos + 1)..(IF atLast THEN k ELSE k + 1) :
           o = [entries |-> Upto(j - 1), src |-> [pos |-> j, kind |-> "Stop", needNext |-> FALSE]]
    BY <1>7
  <2>2. j - 1 - b \in Nat /\ b + (j - 1 - b) = j - 1 /\ j - 1 <= k /\ j - 1 < Len(input)
        /\ b + (j - 1 - b) + 1 = j
    <3>1. j \in Int /\ j >= s.pos + 1 /\ j <= k + 1
      BY <2>1, <1>2, <1>0, <1>p
    <3> QED
      BY <3>1, <1>2, <1>0, <1>p
  <2>3. ASSUME NEW i \in 1..(j - 1 - b) PROVE SameEntry(b + i, kind, n)
    <3>1. b + i \in (b + 1)..k
      BY <2>2, <1>2, <1>p
    <3> QED
      BY <3>1, <1>3
  <2>4. o.entries = [i \in 1..(j - 1 - b) |-> b + i]
        /\ o.src = [pos |-> j, kind |-> "Stop", needNext |-> FALSE]
    BY <2>1
  <2>5. Merged(b, kind, n, s, continuing, j - 1 - b, o.src)
    BY <2>2, <2>3, <2>4, <1>7, <1>p DEF Merged
  <2> QED
    BY <2>2, <2>4, <2>5
<1> QED
  BY <1>4, <1>5, <1>6, <1>7

(* The entries of luminosity blocks are in the run of the item before.     *)
LEMMA SameRunAlong ==
  ASSUME input \in Inputs, NEW p \in 1..Len(input), NEW m \in Nat, p + m < Len(input),
         \A i \in 1..m : input[p + i].kind = "Lumi"
  PROVE  \A i \in 0..m : input[p + i].run = input[p].run
<1>0. Len(input) \in Nat /\ DOMAIN input = 1..Len(input)
  BY InputFacts
<1> DEFINE T == {i \in 0..m : input[p + i].run # input[p].run}
<1>1. SUFFICES ASSUME T # {} PROVE FALSE
  BY <1>0
<1>2. T \subseteq Nat
  OBVIOUS
<1> HIDE DEF T
<1>3. PICK i \in T : \A j \in T : i <= j
  BY <1>1, <1>2, LeastNat
<1> USE DEF T
<1>4. i \in 1..m /\ input[p + i].run # input[p].run
  <2>1. p + 0 = p
    BY <1>0
  <2> QED
    BY <1>3, <2>1
<1>5. i - 1 \in 0..m /\ i - 1 \notin T /\ p + (i - 1) + 1 = p + i
  BY <1>3, <1>4, <1>0
<1>6. p + (i - 1) \in DOMAIN input /\ p + (i - 1) + 1 \in DOMAIN input
  BY <1>4, <1>0
<1>7. input[p + i].run = input[p + (i - 1)].run
  BY <1>4, <1>5, <1>6, InputFacts DEF MayFollow
<1> QED
  BY <1>4, <1>5, <1>7

LEMMA ListOfFunction ==
  ASSUME NEW T, NEW m \in Nat, NEW q \in [1..m -> T]
  PROVE  q \in Seq(T) /\ Len(q) = m
OBVIOUS

(* A log that is right so far, and the next items, each in its run and     *)
(* luminosity block.                                                       *)
Ordered(g) ==
  /\ g \in Seq(Nat \X Nat \X Nat) /\ Len(g) < Len(input)
  /\ \A k \in DOMAIN g : g[k] = <<k, input[k].run, input[k].lumi>>

Entries(p, m, run, lumi) == [i \in 1..m |-> <<p + i, run, lumi>>]

LEMMA OrderedGrows ==
  ASSUME input \in Inputs, NEW g, Ordered(g), NEW m \in Nat, Len(g) + m < Len(input),
         NEW run, NEW lumi,
         \A i \in 1..m : input[Len(g) + i].run = run /\ input[Len(g) + i].lumi = lumi
  PROVE  /\ Ordered(g \o Entries(Len(g), m, run, lumi))
         /\ Len(g \o Entries(Len(g), m, run, lumi)) = Len(g) + m
<1> SUFFICES ASSUME NEW T, T = Nat \X Nat \X Nat, NEW q, q = Entries(Len(g), m, run, lumi),
                    NEW h, h = g \o q
             PROVE  Ordered(h) /\ Len(h) = Len(g) + m
  OBVIOUS
<1>q. q = [i \in 1..m |-> <<Len(g) + i, run, lumi>>] /\ h = g \o q
  BY DEF Entries
<1>0. /\ Len(input) \in Nat /\ DOMAIN input = 1..Len(input)
      /\ \A i \in DOMAIN input : input[i].run \in Nat /\ input[i].lumi \in Nat
  BY InputFacts
<1>1. g \in Seq(T) /\ \A k \in DOMAIN g : g[k] = <<k, input[k].run, input[k].lumi>>
  BY Zenon DEF Ordered
<1>2. ASSUME NEW i \in 1..m PROVE q[i] = <<Len(g) + i, run, lumi>> /\ q[i] \in T
  <2>1. Len(g) \in Nat
    BY <1>1
  <2>2. Len(g) + i \in DOMAIN input /\ Len(g) + i \in Nat
    BY <2>1, <1>0
  <2>3. run \in Nat /\ lumi \in Nat
    BY <2>2, <1>0
  <2> QED
    BY <1>q, <2>2, <2>3
<1>3. q \in Seq(T) /\ Len(q) = m
  <2>1. DOMAIN q = 1..m /\ q = [i \in 1..m |-> q[i]]
    BY <1>q
  <2>2. \A i \in 1..m : q[i] \in T
    BY <1>2
  <2>3. q \in [1..m -> T]
    BY <2>1, <2>2, Zenon
  <2> QED
    BY <2>3, ListOfFunction
<1>4. Len(g) \in Nat /\ DOMAIN g = 1..Len(g)
  BY <1>1
<1>5. h \in Seq(T)
  BY <1>q, <1>1, <1>3
<1>6. Len(h) = Len(g) + m
  BY <1>q, <1>1, <1>3
<1>7. /\ \A k \in 1..Len(g) : h[k] = g[k]
      /\ \A i \in 1..m : h[Len(g) + i] = q[i]
  <2>1. \A k \in 1..Len(g) : h[k] = g[k]
    BY <1>q, <1>1, <1>3
  <2>2. \A i \in 1..m : h[Len(g) + i] = q[i]
    BY <1>q, <1>1, <1>3, <1>4
  <2> QED
    BY <2>1, <2>2
<1>8. ASSUME NEW k \in DOMAIN h
      PROVE  h[k] = <<k, input[k].run, input[k].lumi>>
  <2>1. k \in 1..(Len(g) + m)
    BY <1>5, <1>6
  <2>2. CASE k \in 1..Len(g)
    BY <2>2, <1>1, <1>4, <1>7
  <2>3. CASE k \notin 1..Len(g)
    <3>1. k - Len(g) \in 1..m /\ Len(g) + (k - Len(g)) = k
      BY <2>1, <2>3, <1>4
    <3>2. q[k - Len(g)] = <<Len(g) + (k - Len(g)), run, lumi>>
      BY <3>1, <1>2
    <3> QED
      BY <3>1, <3>2, <1>7
  <2> QED
    BY <2>2, <2>3
<1>9. h \in Seq(Nat \X Nat \X Nat)
  BY <1>5, Zenon
<1> QED
  BY <1>6, <1>8, <1>9 DEF Ordered

LEMMA LogGrows ==
  ASSUME SourceTyped, InOrder, UNCHANGED input, NEW m \in Nat, Len(log) + m < Len(input),
         NEW run, NEW lumi,
         \A i \in 1..m : input[Len(log) + i].run = run /\ input[Len(log) + i].lumi = lumi,
         log' = log \o [i \in 1..m |-> <<Len(log) + i, run, lumi>>]
  PROVE  InOrder' /\ Len(log') = Len(log) + m
<1>1. Ordered(log) /\ input \in Inputs
  BY DEF InOrder, Ordered, SourceTyped
<1>2. /\ Ordered(log \o Entries(Len(log), m, run, lumi))
      /\ Len(log \o Entries(Len(log), m, run, lumi)) = Len(log) + m
  BY <1>1, OrderedGrows
<1>3. log' = log \o Entries(Len(log), m, run, lumi)
  BY DEF Entries
<1> QED
  BY <1>2, <1>3 DEF Ordered, InOrder

(* One item, or the entries merged, are handled.                           *)
LEMMA OneHandled ==
  ASSUME SourceTyped, InOrder, UNCHANGED input, NEW p, p = Len(log) + 1, p < Len(input),
         Handled(<<p>>, input[p].run, input[p].lumi)
  PROVE  InOrder' /\ Len(log') = p
<1>1. Len(log) \in Nat /\ Len(log) + 1 = p /\ 1 \in Nat
  BY DEF InOrder
<1>2. [i \in DOMAIN <<p>> |-> <<(<<p>>)[i], input[p].run, input[p].lumi>>]
      = [i \in 1..1 |-> <<Len(log) + i, input[p].run, input[p].lumi>>]
  BY <1>1
<1>3. log' = log \o [i \in 1..1 |-> <<Len(log) + i, input[p].run, input[p].lumi>>]
  BY <1>2 DEF Handled
<1>4. Len(log) + 1 < Len(input)
      /\ \A i \in 1..1 : input[Len(log) + i].run = input[p].run /\ input[Len(log) + i].lumi = input[p].lumi
  BY <1>1
<1> HIDE DEF InOrder
<1> QED
  BY <1>1, <1>3, <1>4, LogGrows

LEMMA MergedHandled ==
  ASSUME SourceTyped, InOrder, UNCHANGED input, NEW m \in Nat, Len(log) + m < Len(input),
         NEW items, items = [i \in 1..m |-> Len(log) + i], NEW run, NEW lumi,
         \A i \in 1..m : input[Len(log) + i].run = run /\ input[Len(log) + i].lumi = lumi,
         Handled(items, run, lumi)
  PROVE  InOrder' /\ Len(log') = Len(log) + m
<1>1. [i \in DOMAIN items |-> <<items[i], run, lumi>>] = [i \in 1..m |-> <<Len(log) + i, run, lumi>>]
  OBVIOUS
<1>2. log' = log \o [i \in 1..m |-> <<Len(log) + i, run, lumi>>]
  BY <1>1 DEF Handled
<1> QED
  BY <1>2, LogGrows

-----------------------------------------------------------------------------
(* The tasks, while the main thread waits in processRuns().                *)

Numbers ==
  /\ \A r \in DOMAIN runs : runs[r].num \in Nat
  /\ \A l \in DOMAIN lumis :
       /\ lumis[l].num \in Nat /\ lumis[l].joined \in 0..N /\ lumis[l].toEnd \in 0..N
       /\ lumis[l].state \in {"processing", "pause", "stop"}
       /\ lumis[l].state = "stop" => lumis[l].started
       /\ lumis[l].phase \in Coming => lumis[l].state = "processing"
  /\ throws <= MaxThrows /\ (failed => throws > 0)
  /\ files \in [exist : BOOLEAN, needClose : BOOLEAN, closeFailed : BOOLEAN, outs : BOOLEAN,
                lost : BOOLEAN]
  /\ primary \in BOOLEAN /\ deferred \in BOOLEAN

Reads == /\ TaskInv /\ TaskInv' /\ SourceTyped /\ InOrder /\ Found /\ Numbers
         /\ Call("wait") /\ UNCHANGED <<mainVars, inputVars>>

Goes == SourceTyped' /\ InOrder' /\ Found'

LEMMA ByRun ==
  TaskInv' /\ (\E r \in DOMAIN runs' : RunNeeds(runs'[r]) # "nothing" /\ RunFinds(r)') => Found'
<1>1. (TaskInv /\ (\E r \in DOMAIN runs : RunNeeds(runs[r]) # "nothing" /\ RunFinds(r)) => Found)'
  BY FoundByRun, PTL
<1> QED
  BY <1>1

LEMMA ByLumi ==
  TaskInv' /\ (\E l \in DOMAIN lumis' : LumiNeeds(lumis'[l]) # "nothing" /\ LumiFinds(l)') => Found'
<1>1. (TaskInv /\ (\E l \in DOMAIN lumis : LumiNeeds(lumis[l]) # "nothing" /\ LumiFinds(l)) => Found)'
  BY FoundByLumi, PTL
<1> QED
  BY <1>1

LEMMA ByNobody ==
  ASSUME \A r \in DOMAIN runs' : RunNeeds(runs'[r]) = "nothing",
         \A l \in DOMAIN lumis' : LumiNeeds(lumis'[l]) \in {"nothing", "events"},
         ~Streaming' \/ ((\A l \in DOMAIN lumis' : LumiNeeds(lumis'[l]) = "nothing") /\ ForMain')
  PROVE  Found'
<1>1. (/\ \A r \in DOMAIN runs : RunNeeds(runs[r]) = "nothing"
       /\ \A l \in DOMAIN lumis : LumiNeeds(lumis[l]) \in {"nothing", "events"}
       /\ ~Streaming \/ ((\A l \in DOMAIN lumis : LumiNeeds(lumis[l]) = "nothing") /\ ForMain)
       => Found)'
  BY FoundByNobody, PTL
<1> QED
  BY <1>1

(* Nobody needs anything, but for the one who has just let go.             *)
LEMMA NobodyAfterRun ==
  ASSUME TaskInv, NEW r \in DOMAIN runs,
         \A q \in DOMAIN runs \ {r} : RunNeeds(runs[q]) = "nothing",
         \A l \in DOMAIN lumis : LumiNeeds(lumis[l]) = "nothing",
         DOMAIN runs' = DOMAIN runs, \A q \in DOMAIN runs \ {r} : runs'[q] = runs[q],
         RunNeeds(runs'[r]) = "nothing", UNCHANGED lumis,
         ~Streaming' \/ ForMain'
  PROVE  Found'
<1>1. \A q \in DOMAIN runs' : RunNeeds(runs'[q]) = "nothing"
  OBVIOUS
<1>2. \A l \in DOMAIN lumis' : LumiNeeds(lumis'[l]) = "nothing"
  OBVIOUS
<1> QED
  BY <1>1, <1>2, ByNobody

LEMMA NobodyAfterLumi ==
  ASSUME TaskInv, NEW l \in DOMAIN lumis,
         \A r \in DOMAIN runs : RunNeeds(runs[r]) = "nothing",
         \A k \in DOMAIN lumis \ {l} : LumiNeeds(lumis[k]) = "nothing",
         DOMAIN runs' = DOMAIN runs, \A r \in DOMAIN runs : RunNeeds(runs'[r]) = "nothing",
         DOMAIN lumis' = DOMAIN lumis, \A k \in DOMAIN lumis \ {l} : lumis'[k] = lumis[k],
         LumiNeeds(lumis'[l]) = "nothing",
         ~Streaming' \/ ForMain'
  PROVE  Found'
<1>1. \A q \in DOMAIN runs' : RunNeeds(runs'[q]) = "nothing"
  OBVIOUS
<1>2. \A k \in DOMAIN lumis' : LumiNeeds(lumis'[k]) = "nothing"
  OBVIOUS
<1> QED
  BY <1>1, <1>2, ByNobody

LEMMA SourceSame ==
  ASSUME Reads, UNCHANGED <<src, log>>
  PROVE  /\ SourceTyped' /\ InOrder' /\ Streaming' = (Call("wait") /\ ~failed')
         /\ AtHand' = AtHand /\ Taken' = Taken /\ InHand' = InHand /\ ForMain' = ForMain
         /\ UNCHANGED <<input, mayStop>>
<1>1. UNCHANGED <<input, mayStop, todo>>
  BY DEF Reads, mainVars, inputVars
<1>2. SourceTyped' /\ InOrder'
  BY <1>1 DEF Reads, SourceTyped, InOrder
<1>3. Streaming' = (Call("wait") /\ ~failed')
  BY <1>1 DEF Streaming, Call
<1>4. AtHand' = AtHand /\ Taken' = Taken /\ InHand' = InHand /\ ForMain' = ForMain
  BY <1>1 DEF AtHand, Taken, InHand, ForMain, Item
<1> QED
  BY <1>1, <1>2, <1>3, <1>4

(* A run or stream does something that changes nobody's need.              *)
LEMMA NeedsStay ==
  ASSUME Reads, UNCHANGED <<src, log>>, failed => failed',
         DOMAIN runs' = DOMAIN runs, DOMAIN lumis' = DOMAIN lumis,
         \A r \in DOMAIN runs : runs'[r].num = runs[r].num /\ RunNeeds(runs'[r]) = RunNeeds(runs[r]),
         \A l \in DOMAIN lumis : /\ lumis'[l].num = lumis[l].num /\ lumis'[l].run = lumis[l].run
                                 /\ LumiNeeds(lumis'[l]) = LumiNeeds(lumis[l]),
         \A l \in DOMAIN lumis : LumiNeeds(lumis[l]) = "events" =>
           \A s \in In(l)' : stream'[s].doing = "nothing" => s \in In(l) /\ stream[s].doing = "nothing"
  PROVE  Goes
<1>1. SourceTyped' /\ InOrder' /\ UNCHANGED <<src, log, input, mayStop>> /\ (Streaming' => Streaming)
  BY SourceSame DEF Streaming
<1>2. \A l \in DOMAIN lumis : lumis[l].run \in DOMAIN runs
  BY InList DEF Reads
<1>3. Found
  BY DEF Reads
<1>4. Found'
  BY <1>1, <1>2, <1>3, FoundStays
<1> QED
  BY <1>1, <1>4 DEF Goes

LEMMA RunStays ==
  ASSUME Reads, UNCHANGED <<src, log, lumis>>, failed => failed', NEW r \in DOMAIN runs,
         DOMAIN runs' = DOMAIN runs, \A q \in DOMAIN runs \ {r} : runs'[q] = runs[q],
         runs'[r].num = runs[r].num, RunNeeds(runs'[r]) = RunNeeds(runs[r]),
         \A s \in Streams : stream'[s].lumi = stream[s].lumi
         /\ (stream'[s].doing = "nothing" => stream[s].doing = "nothing" \/ stream[s].lumi = 0)
  PROVE  Goes
<1>1. \A q \in DOMAIN runs : runs'[q].num = runs[q].num /\ RunNeeds(runs'[q]) = RunNeeds(runs[q])
  OBVIOUS
<1>2. ASSUME NEW l \in DOMAIN lumis, NEW s \in In(l)', stream'[s].doing = "nothing"
      PROVE  s \in In(l) /\ stream[s].doing = "nothing"
  BY <1>2, InList DEF Reads, In
<1> QED
  BY <1>1, <1>2, NeedsStay

LEMMA SyncRunGoes ==
  ASSUME Reads, NEW r \in DOMAIN runs, SyncRun(r)
  PROVE  Goes
<1>1. RunMoves(runs', r, "queue") /\ UNCHANGED <<lumis, stream>>
  BY SyncRunFacts DEF Reads, RunAdvances
<1>2. runs[r].phase = "sync" /\ UNCHANGED <<src, log>> /\ (failed => failed')
  BY DEF SyncRun, TryAndTell
<1>3. RunNeeds(runs'[r]) = RunNeeds(runs[r])
  BY <1>1, <1>2 DEF RunNeeds, RunMoves, RunTo
<1> QED
  BY <1>1, <1>2, <1>3, RunStays DEF RunMoves, RunTo

LEMMA GlobalEndRunGoes ==
  ASSUME Reads, NEW r \in DOMAIN runs, GlobalEndRun(r)
  PROVE  Goes
<1>1. RunMoves(runs', r, "closed") /\ UNCHANGED <<lumis, stream>>
  BY GlobalEndRunFacts DEF Reads, RunAdvances
<1>2. runs[r].phase = "ending" /\ UNCHANGED <<src, log>> /\ (failed => failed')
  BY DEF GlobalEndRun, TryAndTell
<1>3. RunNeeds(runs'[r]) = RunNeeds(runs[r])
  BY <1>1, <1>2 DEF RunNeeds, RunMoves, RunTo
<1> QED
  BY <1>1, <1>2, <1>3, RunStays DEF RunMoves, RunTo

(* A run is given up: the job has failed.                                  *)
LEMMA RunGivenUp ==
  ASSUME Reads, NEW r \in DOMAIN runs, RunNeeds(runs[r]) # "nothing", DropRun(r), UNCHANGED lumis,
         failed'
  PROVE  Found'
<1>1. RunMoves(runs', r, "dropped")
  BY DropRunFacts DEF Reads
<1>2. /\ \A q \in DOMAIN runs \ {r} : RunNeeds(runs[q]) = "nothing"
      /\ \A l \in DOMAIN lumis : LumiNeeds(lumis[l]) = "nothing"
  BY RunAlone DEF Reads
<1>3. RunNeeds(runs'[r]) = "nothing" /\ ~Streaming'
  BY <1>1 DEF RunNeeds, RunMoves, RunTo, Streaming
<1> QED
  BY <1>1, <1>2, <1>3, NobodyAfterRun DEF RunMoves, RunTo, Reads

LEMMA StartRunGoes ==
  ASSUME Reads, NEW r \in DOMAIN runs, StartRun(r)
  PROVE  Goes
<1>1. runs[r].phase = "queue" /\ UNCHANGED <<src, log, lumis, stream, failed>>
  BY DEF StartRun
<1>2. CASE failed /\ DropRun(r)
  <2>1. Found'
    BY <1>1, <1>2, RunGivenUp DEF RunNeeds
  <2> QED
    BY <1>1, <2>1, SourceSame DEF Goes
<1>3. CASE runs' = [runs EXCEPT ![r].phase = "read"]
  <2>1. /\ DOMAIN runs' = DOMAIN runs /\ \A q \in DOMAIN runs \ {r} : runs'[q] = runs[q]
        /\ runs'[r].num = runs[r].num /\ runs'[r].phase = "read"
    BY <1>3, InList DEF Reads, RunRecord, RunFields
  <2>2. RunNeeds(runs'[r]) = RunNeeds(runs[r])
    BY <1>1, <2>1 DEF RunNeeds
  <2> QED
    BY <1>1, <2>1, <2>2, RunStays
<1> QED
  BY <1>2, <1>3 DEF StartRun

(* What a run, or luminosity block, with its own item at hand may handle.  *)
LEMMA ItemFacts ==
  ASSUME SourceTyped, InOrder, AtHand, src.kind \in {"Run", "Lumi"}
  PROVE  /\ src.pos = Len(log) + 1 /\ src.pos < Len(input) /\ src.pos \in DOMAIN input
         /\ Item.kind = src.kind /\ Len(log) \in Nat
         /\ src.kind = "Run" => Item.lumi = 0
<1>1. src.pos = Len(log) + 1 /\ Item.kind = src.kind
  BY DEF AtHand
<1>2. Len(log) \in Nat /\ Len(log) < Len(input) /\ Len(input) \in Nat /\ DOMAIN input = 1..Len(input)
  BY InputFacts DEF SourceTyped, InOrder
<1>3. src.pos \in DOMAIN input
  BY <1>1, <1>2
<1>4. src.pos # Len(input) /\ (src.kind = "Run" => Item.lumi = 0)
  BY <1>1, <1>3, InputFacts DEF SourceTyped, Item
<1>5. src.pos < Len(input)
  BY <1>2, <1>3, <1>4
<1> QED
  BY <1>1, <1>2, <1>3, <1>4, <1>5

LEMMA LastIs ==
  ASSUME UNCHANGED input, NEW i \in DOMAIN input, Len(log') = i, NEW kind, NEW n,
         SameEntry(i, kind, n)
  PROVE  LastWas(kind, n)'
BY DEF LastWas, SameEntry

LEMMA MergeNew ==
  ASSUME SourceTyped, src.pos \in 0..(Len(input) - 1), NEW kind \in {"Run", "Lumi"}, NEW n,
         NEW o \in MergeOutcomes(src, kind, n, FALSE)
  PROVE  \E m \in Nat : /\ o.entries = [i \in 1..m |-> src.pos + i]
                        /\ Merged(src.pos, kind, n, src, FALSE, m, o.src)
<1>1. src \in [pos : 0..Len(input), kind : Kinds, needNext : BOOLEAN] /\ input \in Inputs
  BY DEF SourceTyped
<1>2. ASSUME NEW continuing \in BOOLEAN, continuing = FALSE, NEW p, p = src.pos
      PROVE  \E m \in Nat : /\ o.entries = [i \in 1..m |-> p + i]
                             /\ Merged(p, kind, n, src, continuing, m, o.src)
  <2>1. p \in 0..(Len(input) - 1) /\ p = (IF continuing THEN src.pos - 1 ELSE src.pos)
    BY <1>2
  <2>2. o \in MergeOutcomes(src, kind, n, continuing)
    BY <1>2
  <2> QED
    BY <1>1, <1>2, <2>1, <2>2, MergeFacts
<1> QED
  BY <1>2, Zenon

LEMMA AfterPhase ==
  ASSUME NEW rs, NEW r \in DOMAIN rs, "phase" \in DOMAIN rs[r],
         rs[r].phase \in {"begin", "next", "open"}, AfterRunEntries(rs, r)
  PROVE  runs'[r].phase \in {"open", "endSync"}
BY DEF AfterRunEntries, EndRunAsync

(* A run reads its first entry.                                            *)
LEMMA ReadRunGoes ==
  ASSUME Reads, NEW r \in DOMAIN runs, ReadRun(r)
  PROVE  Goes
<1>1. runs[r].phase = "read"
  BY AtSourceFacts DEF ReadRun, Reads, SourceTask
<1>2. RunNeeds(runs[r]) = "item" /\ AtHand /\ src.kind = "Run" /\ Item.run = runs[r].num
  BY <1>1 DEF RunNeeds, Reads, Found, RunFinds
<1>3. UNCHANGED <<inputVars, lumis, stream, todo>>
  BY DEF ReadRun, Reads, mainVars
<1>4. CASE failed' /\ DropRun(r) /\ UNCHANGED <<src, log>>
  <2>1. Found'
    BY <1>2, <1>3, <1>4, RunGivenUp
  <2> QED
    BY <1>4, <2>1, SourceSame DEF Goes
<1>5. CASE /\ ~failed' /\ Handled(<<src.pos>>, runs[r].num, 0)
           /\ \/ runs' = [runs EXCEPT ![r].phase = "begin"] /\ src' = [src EXCEPT !.needNext = TRUE]
              \/ runs' = [runs EXCEPT ![r].phase = "merge"] /\ UNCHANGED src
  <2>1. /\ src.pos = Len(log) + 1 /\ src.pos < Len(input) /\ src.pos \in DOMAIN input
        /\ Item.kind = "Run" /\ Item.lumi = 0
    BY <1>2, ItemFacts DEF Reads
  <2>2. InOrder' /\ Len(log') = src.pos
    <3>1. Handled(<<src.pos>>, input[src.pos].run, input[src.pos].lumi)
      BY <1>2, <1>5, <2>1 DEF Item
    <3> QED
      BY <2>1, <3>1, <1>3, OneHandled DEF Reads, inputVars
  <2>3. SourceTyped' /\ src'.pos = src.pos
    BY <1>3, <1>5 DEF SourceTyped, Reads, inputVars
  <2>4. /\ r \in DOMAIN runs' /\ runs'[r].num = runs[r].num
        /\ \/ runs'[r].phase = "begin" /\ src'.needNext
           \/ runs'[r].phase = "merge"
    BY <1>5, InList DEF Reads, RunRecord, RunFields, SourceTyped
  <2> PICK n : n = runs[r].num
    OBVIOUS
  <2>5. LastWas("Run", n)'
    <3>1. SameEntry(src.pos, "Run", n) /\ UNCHANGED input
      BY <1>2, <1>3, <2>1 DEF SameEntry, Item, inputVars
    <3> QED
      BY <2>1, <2>2, <3>1, LastIs
  <2>6. Taken'
    BY <2>2, <2>3 DEF Taken
  <2>7. RunNeeds(runs'[r]) # "nothing" /\ RunFinds(r)'
    <3>1. LastWas("Run", runs[r].num)'
      BY <2>4, <2>5 DEF LastWas, SameEntry
    <3> QED
      BY <2>4, <2>6, <3>1 DEF RunNeeds, RunFinds, InHand
  <2>8. Found'
    BY <2>4, <2>7, ByRun DEF Reads
  <2> QED
    BY <2>2, <2>3, <2>8 DEF Goes
<1> QED
  BY <1>4, <1>5 DEF ReadRun

LEMMA MergeRunGoes ==
  ASSUME Reads, NEW r \in DOMAIN runs, MergeRun(r)
  PROVE  Goes
<1>1. runs[r].phase = "merge"
  BY AtSourceFacts DEF MergeRun, Reads, SourceTask
<1>2. RunNeeds(runs[r]) = "taken" /\ Taken /\ LastWas("Run", runs[r].num)
  BY <1>1 DEF RunNeeds, Reads, Found, RunFinds
<1>3. UNCHANGED <<inputVars, lumis, stream, todo>>
  BY DEF MergeRun, Reads, mainVars
<1>4. /\ src.pos = Len(log) /\ Len(log) \in Nat /\ Len(log) < Len(input) /\ Len(input) \in Nat
      /\ src.pos \in 0..(Len(input) - 1) /\ DOMAIN input = 1..Len(input)
  BY <1>2, InputFacts DEF Taken, Reads, InOrder, SourceTyped
<1>5. CASE failed' /\ DropRun(r) /\ UNCHANGED log
           /\ (UNCHANGED src \/ src' = [pos |-> src.pos + 1, kind |-> "Run", needNext |-> FALSE])
  <2>1. Found'
    BY <1>2, <1>3, <1>5, RunGivenUp
  <2>2. InOrder'
    BY <1>3, <1>5 DEF Reads, InOrder, inputVars
  <2>3. SourceTyped'
    <3>1. UNCHANGED input /\ input \in Inputs
          /\ src \in [pos : 0..Len(input), kind : Kinds, needNext : BOOLEAN]
      BY <1>3 DEF Reads, SourceTyped, inputVars
    <3>2. src.pos + 1 \in 0..Len(input)
      BY <1>4
    <3>3. src' \in [pos : 0..Len(input), kind : Kinds, needNext : BOOLEAN]
      <4>1. "Run" \in Kinds
        BY DEF Kinds
      <4>2. CASE UNCHANGED src
        BY <4>2, <3>1
      <4>3. CASE src' = [pos |-> src.pos + 1, kind |-> "Run", needNext |-> FALSE]
        BY <4>1, <4>3, <3>2
      <4> QED
        BY <1>5, <4>2, <4>3
    <3> QED
      BY <3>1, <3>3 DEF SourceTyped
  <2> QED
    BY <2>1, <2>2, <2>3 DEF Goes
<1>6. CASE /\ \E o \in MergeOutcomes(src, "Run", runs[r].num, FALSE) :
                src' = o.src /\ Handled(o.entries, runs[r].num, 0)
           /\ runs' = [runs EXCEPT ![r].phase = "begin"]
  <2>1. PICK o \in MergeOutcomes(src, "Run", runs[r].num, FALSE) :
                src' = o.src /\ Handled(o.entries, runs[r].num, 0)
    BY <1>6
  <2>2. PICK m \in Nat : /\ o.entries = [i \in 1..m |-> src.pos + i]
                         /\ Merged(src.pos, "Run", runs[r].num, src, FALSE, m, o.src)
    BY <1>4, MergeNew DEF Reads
  <2>3. src.pos + m < Len(input) /\ \A i \in 1..m : SameEntry(src.pos + i, "Run", runs[r].num)
    BY <2>2 DEF Merged
  <2>4. ASSUME NEW i \in 1..m
        PROVE  input[Len(log) + i].run = runs[r].num /\ input[Len(log) + i].lumi = 0
    <3>1. src.pos + i \in DOMAIN input
      BY <2>3, <1>4
    <3>2. SameEntry(src.pos + i, "Run", runs[r].num)
      BY <2>3
    <3> QED
      BY <3>1, <3>2, <1>4, InputFacts DEF SameEntry, Reads, SourceTyped
  <2>5. InOrder' /\ Len(log') = Len(log) + m
    <3>1. o.entries = [i \in 1..m |-> Len(log) + i] /\ Len(log) + m < Len(input)
      BY <1>4, <2>2, <2>3
    <3>2. SourceTyped /\ InOrder /\ UNCHANGED input
      BY <1>3 DEF Reads, inputVars
    <3> QED
      BY <2>1, <2>4, <3>1, <3>2, MergedHandled
  <2> PICK n : n = runs[r].num
    OBVIOUS
  <2>6. LastWas("Run", n)'
    <3>1. Len(log) + m \in DOMAIN input
      BY <1>2, <1>4, <2>3 DEF LastWas
    <3>2. SameEntry(Len(log) + m, "Run", n)
      <4>1. CASE m = 0
        BY <4>1, <1>2, <1>4 DEF LastWas
      <4>2. CASE m # 0
        BY <4>2, <1>4, <2>3
      <4> QED
        BY <4>1, <4>2
    <3> QED
      BY <1>3, <2>5, <3>1, <3>2, LastIs DEF inputVars
  <2>7. SourceTyped' /\ InHand'
    <3>1. CASE src' = [pos |-> src.pos + m, kind |-> "Run", needNext |-> TRUE]
      BY <3>1, <1>3, <1>4, <2>3, <2>5 DEF SourceTyped, Reads, inputVars, Kinds, InHand, Taken
    <3>2. CASE \E k \in {input[src.pos + m + 1].kind} \cup (IF mayStop THEN {"Stop"} ELSE {}) :
                 src' = [pos |-> src.pos + m + 1, kind |-> k, needNext |-> FALSE]
      <4>1. src.pos + m + 1 \in DOMAIN input /\ input[src.pos + m + 1].kind \in Kinds
        BY <1>4, <2>3, InputFacts DEF Reads, SourceTyped
      <4> QED
        BY <3>2, <4>1, <1>3, <1>4, <2>5 DEF SourceTyped, Reads, inputVars, Kinds, InHand, AtHand, Item
    <3> QED
      BY <3>1, <3>2, <2>1, <2>2 DEF Merged
  <2>8. r \in DOMAIN runs' /\ runs'[r].num = runs[r].num /\ runs'[r].phase = "begin"
    BY <1>6, InList DEF Reads, RunRecord, RunFields
  <2>9. Found'
    <3>1. LastWas("Run", runs[r].num)'
      BY <2>6, <2>8 DEF LastWas, SameEntry
    <3> QED
      BY <2>7, <2>8, <3>1, ByRun DEF Reads, RunNeeds, RunFinds
  <2> QED
    BY <2>5, <2>7, <2>9 DEF Goes
<1> QED
  BY <1>5, <1>6 DEF MergeRun, TryAndTell

(* What comes after the entries of a run finds its item at hand.           *)
LEMMA AfterEntries ==
  ASSUME TaskInv, TaskInv', NEW r \in DOMAIN runs,
         \A q \in DOMAIN runs \ {r} : RunNeeds(runs[q]) = "nothing",
         \A l \in DOMAIN lumis : LumiNeeds(lumis[l]) = "nothing",
         NEW phase, RunMoves(runs', r, phase), phase \in {"open", "endSync"},
         NEW rs, AfterRunEntries(rs, r),
         failed' \/ (/\ AtHand' /\ src'.kind \in Kinds \ {"Event"}
                     /\ src'.kind = "Lumi" => Item'.run = runs[r].num),
         UNCHANGED input
  PROVE  Found'
<1>1. /\ DOMAIN runs' = DOMAIN runs /\ \A q \in DOMAIN runs \ {r} : runs'[q] = runs[q]
      /\ runs'[r].num = runs[r].num /\ RunNeeds(runs'[r]) = "nothing"
  BY DEF RunMoves, RunTo, RunNeeds
<1>2. CASE failed' /\ UNCHANGED lumis
  BY <1>1, <1>2, NobodyAfterRun DEF Streaming
<1>3. CASE ~failed' /\ UNCHANGED lumis /\ src'.kind \in {"File", "Run", "Stop"}
  <2>1. ForMain'
    BY <1>3 DEF ForMain
  <2> QED
    BY <1>1, <1>3, <2>1, NobodyAfterRun
<1>4. CASE /\ src'.kind = "Lumi" /\ ~failed'
           /\ lumis' = Append(lumis, NewLumi(r, input[src'.pos].lumi))
  <2> PICK l : l = Len(lumis) + 1
    OBVIOUS
  <2>1. l \in DOMAIN lumis' /\ lumis'[l].run = r /\ lumis'[l].num = Item'.lumi /\ lumis'[l].phase = "sync"
    BY <1>4, InList DEF NewLumi, Item, IsList
  <2>2. LumiNeeds(lumis'[l]) = "item"
    BY <2>1 DEF LumiNeeds
  <2>3. AtHand' /\ Item'.run = runs[r].num
    BY <1>4
  <2>4. LumiFinds(l)'
    BY <1>1, <1>4, <2>1, <2>2, <2>3 DEF LumiFinds, NumOfRun
  <2> QED
    BY <2>1, <2>2, <2>4, ByLumi
<1> QED
  BY <1>2, <1>3, <1>4 DEF AfterRunEntries, Kinds

LEMMA NextOfRun ==
  ASSUME SourceTyped, InOrder, NEW n, LastWas("Run", n)
  PROVE  /\ Len(log) + 1 \in DOMAIN input /\ input[Len(log) + 1].kind \in Kinds \ {"Event"}
         /\ input[Len(log) + 1].kind = "Lumi" => input[Len(log) + 1].run = n
         /\ Len(log) \in Nat /\ Len(log) + 1 \in 0..Len(input)
<1>1. /\ Len(log) \in DOMAIN input /\ input[Len(log)].kind = "Run" /\ input[Len(log)].run = n
      /\ Len(log) < Len(input)
  BY DEF LastWas, SameEntry, InOrder
<1>2. Len(log) + 1 \in DOMAIN input /\ Len(log) \in Nat /\ Len(log) + 1 \in 0..Len(input)
  BY <1>1, InputFacts DEF SourceTyped, InOrder
<1>3. MayFollow(input[Len(log)], input[Len(log) + 1]) /\ input[Len(log) + 1].kind \in Kinds
  BY <1>1, <1>2, InputFacts DEF SourceTyped
<1> QED
  BY <1>1, <1>2, <1>3 DEF MayFollow

LEMMA GlobalBeginRunGoes ==
  ASSUME Reads, NEW r \in DOMAIN runs, GlobalBeginRun(r)
  PROVE  Goes
<1>1. PICK phase \in RunPhases : RunBegins(r, phase)
  BY GlobalBeginRunFacts DEF Reads
<1>2. runs[r].phase = "begin" /\ RunMoves(runs', r, phase)
  BY <1>1 DEF RunBegins
<1>3. RunNeeds(runs[r]) = "either" /\ InHand /\ LastWas("Run", runs[r].num)
  BY <1>2 DEF RunNeeds, Reads, Found, RunFinds
<1>4. /\ SourceTyped' /\ InOrder' /\ AtHand' = AtHand /\ Taken' = Taken /\ src' = src /\ log' = log
      /\ UNCHANGED <<input, mayStop>>
  BY SourceSame DEF GlobalBeginRun
<1>5. CASE src.needNext /\ \E x \in BOOLEAN : runs' = [[runs EXCEPT ![r].ok = ~x] EXCEPT ![r].phase = "next"]
  <2>1. r \in DOMAIN runs' /\ runs'[r].num = runs[r].num /\ runs'[r].phase = "next"
    <3>1. DOMAIN runs[r] = RunFields
      BY InList DEF Reads, RunRecord
    <3>2. {"phase", "ok"} \subseteq DOMAIN runs[r]
      BY <3>1 DEF RunFields
    <3>3. runs'[r].phase = "next"
      <4> PICK x \in BOOLEAN : runs' = [[runs EXCEPT ![r].ok = ~x] EXCEPT ![r].phase = "next"]
        BY <1>5
      <4> PICK rs : rs = [runs EXCEPT ![r].ok = ~x]
        OBVIOUS
      <4>1. r \in DOMAIN rs /\ "phase" \in DOMAIN rs[r]
        BY <3>2
      <4>2. runs' = [rs EXCEPT ![r].phase = "next"]
        OBVIOUS
      <4>3. \A q, t : r \in DOMAIN q /\ "phase" \in DOMAIN q[r] /\ t = [q EXCEPT ![r].phase = "next"]
                      => t[r].phase = "next"
        OBVIOUS
      <4> QED
        BY <4>1, <4>2, <4>3, Zenon
    <3> QED
      BY <1>2, <3>3 DEF RunMoves, RunTo
  <2>2. Taken' /\ LastWas("Run", runs[r].num)'
    BY <1>3, <1>4, <1>5, <2>1 DEF InHand, LastWas, SameEntry
  <2>3. Found'
    BY <2>1, <2>2, ByRun DEF Reads, RunNeeds, RunFinds
  <2> QED
    BY <1>4, <2>3 DEF Goes
<1>6. CASE ~src.needNext /\ \E x \in BOOLEAN : AfterRunEntries([runs EXCEPT ![r].ok = ~x], r)
  <2>1. PICK x \in BOOLEAN : AfterRunEntries([runs EXCEPT ![r].ok = ~x], r)
    BY <1>6
  <2>2. phase \in {"open", "endSync"}
    <3> DEFINE rs == [runs EXCEPT ![r].ok = ~x]
    <3>1. r \in DOMAIN rs /\ "phase" \in DOMAIN rs[r] /\ rs[r].phase = "begin"
      BY <1>2, InList DEF Reads, RunRecord, RunFields
    <3>2. AfterRunEntries(rs, r)
      BY <2>1
    <3> HIDE DEF rs
    <3>3. runs'[r].phase \in {"open", "endSync"}
      BY <3>1, <3>2, AfterPhase
    <3> QED
      BY <3>3, <1>2 DEF RunMoves, RunTo
  <2>3. AtHand'
    BY <1>3, <1>4, <1>6 DEF InHand
  <2>4. src'.kind \in Kinds \ {"Event"} /\ (src'.kind = "Lumi" => Item'.run = runs[r].num)
    BY <1>3, <1>4, <2>3, NextOfRun DEF AtHand, Item, Kinds, Reads
  <2>5. /\ \A q \in DOMAIN runs \ {r} : RunNeeds(runs[q]) = "nothing"
        /\ \A l \in DOMAIN lumis : LumiNeeds(lumis[l]) = "nothing"
    BY <1>3, RunAlone DEF Reads
  <2>6. Found'
    BY <1>2, <1>4, <2>1, <2>2, <2>3, <2>4, <2>5, AfterEntries DEF Reads
  <2> QED
    BY <1>4, <2>6 DEF Goes
<1> QED
  BY <1>5, <1>6 DEF GlobalBeginRun

LEMMA NextItemGoes ==
  ASSUME Reads, NEW r \in DOMAIN runs, NextItem(r)
  PROVE  Goes
<1>1. PICK phase \in RunPhases : RunGoesOn(r, phase)
  BY NextItemFacts DEF Reads
<1>2. runs[r].phase = "next"
  BY AtSourceFacts DEF NextItem, Reads, SourceTask
<1>3. RunNeeds(runs[r]) = "taken" /\ Taken /\ LastWas("Run", runs[r].num)
  BY <1>2 DEF RunNeeds, Reads, Found, RunFinds
<1>4. UNCHANGED <<inputVars, log>> /\ AfterRunEntries(runs, r)
  BY DEF NextItem
<1>5. RunMoves(runs', r, phase) /\ phase \in {"open", "endSync"}
  BY <1>1 DEF RunGoesOn, GoesOn
<1>6. /\ \A q \in DOMAIN runs \ {r} : RunNeeds(runs[q]) = "nothing"
      /\ \A l \in DOMAIN lumis : LumiNeeds(lumis[l]) = "nothing"
  BY <1>3, RunAlone DEF Reads
<1>7. InOrder'
  BY <1>4 DEF Reads, InOrder, inputVars
<1>8. CASE failed' /\ UNCHANGED src
  <2>1. SourceTyped'
    BY <1>4, <1>8 DEF Reads, SourceTyped, inputVars
  <2>2. Found'
    BY <1>4, <1>5, <1>6, <1>8, AfterEntries DEF Reads, inputVars
  <2> QED
    BY <1>7, <2>1, <2>2 DEF Goes
<1>9. CASE \E i \in NextItems : src' = [pos |-> i.pos, kind |-> i.kind, needNext |-> TRUE]
  <2>1. PICK k \in {input[src.pos + 1].kind} \cup (IF mayStop THEN {"Stop"} ELSE {}) :
           src' = [pos |-> src.pos + 1, kind |-> k, needNext |-> TRUE]
    <3>1. PICK i \in NextItems : src' = [pos |-> i.pos, kind |-> i.kind, needNext |-> TRUE]
      BY <1>9
    <3>2. PICK k \in {input[src.pos + 1].kind} \cup (IF mayStop THEN {"Stop"} ELSE {}) :
            i = [pos |-> src.pos + 1, kind |-> k]
      BY <3>1 DEF NextItems
    <3> QED
      BY <3>1, <3>2
  <2>2. /\ src.pos = Len(log) /\ Len(log) + 1 \in 0..Len(input)
        /\ input[Len(log) + 1].kind \in Kinds \ {"Event"}
        /\ input[Len(log) + 1].kind = "Lumi" => input[Len(log) + 1].run = runs[r].num
    BY <1>3, NextOfRun DEF Reads, Taken
  <2>3. AtHand' /\ src'.kind \in Kinds \ {"Event"} /\ (src'.kind = "Lumi" => Item'.run = runs[r].num)
    BY <1>4, <2>1, <2>2 DEF AtHand, Item, inputVars, Kinds
  <2>4. SourceTyped'
    BY <1>4, <2>1, <2>2 DEF SourceTyped, Reads, inputVars, Kinds
  <2>5. Found'
    BY <1>4, <1>5, <1>6, <2>3, AfterEntries DEF Reads, inputVars
  <2> QED
    BY <1>7, <2>4, <2>5 DEF Goes
<1> QED
  BY <1>8, <1>9 DEF NextItem, TryAndTell

LEMMA SyncEndRunGoes ==
  ASSUME Reads, NEW r \in DOMAIN runs, SyncEndRun(r)
  PROVE  Goes
<1>1. PICK rs : RunEnds(r, rs)
  BY SyncEndRunFacts DEF Reads
<1>2. /\ runs[r].phase = "endSync" /\ UNCHANGED <<src, log, lumis>>
      /\ \A s \in Streams : stream'[s].lumi = stream[s].lumi /\ stream'[s].doing = stream[s].doing
  BY <1>1, InList DEF SyncEndRun, RunEnds, Pushed, Reads, StreamRecords
<1>3. /\ DOMAIN rs = DOMAIN runs /\ \A q \in DOMAIN runs \ {r} : rs[q] = runs[q]
      /\ rs[r].num = runs[r].num /\ RunNeeds(rs[r]) = RunNeeds(runs[r])
  BY <1>1, <1>2 DEF RunEnds, RunMoves, RunTo, RunNeeds
<1>4. CASE runs' = rs
  <2>1. failed => failed'
    BY DEF SyncEndRun, TryAndTell
  <2> QED
    BY <1>2, <1>3, <1>4, <2>1, RunStays
<1>5. CASE runs' # rs
  <2>1. PICK x \in BOOLEAN : /\ TryAndTell(x)
           /\ runs' = IF src.kind = "Run"
                        THEN BeginRunAsync([runs EXCEPT ![r].phase = "ending", ![r].esOK = ~x], failed')
                        ELSE [runs EXCEPT ![r].phase = "ending", ![r].esOK = ~x]
    BY DEF SyncEndRun
  <2> DEFINE es == [runs EXCEPT ![r].phase = "ending", ![r].esOK = ~x]
  <2>2. IsList(es) /\ Len(es) = Len(runs)
    <3>1. es \in [DOMAIN runs -> {es[q] : q \in DOMAIN runs}] /\ IsList(runs)
      BY InList DEF Reads
    <3> QED
      BY <3>1, UpdateFacts
  <2>3. Len(runs') = Len(runs) + 1
    BY <1>1, <1>5, InList DEF RunEnds, RunMade, RunMoves, RunTo, Reads
  <2>4. src.kind = "Run" /\ ~failed' /\ runs' = Append(es, NewRun(Item.run))
    BY <2>1, <2>2, <2>3, InList DEF BeginRunAsync, Reads
  <2> HIDE DEF es
  <2>5. ~failed
    BY <2>1, <2>4 DEF TryAndTell
  <2>6. \A q \in DOMAIN runs : RunNeeds(runs[q]) = "nothing"
    BY <1>2, OneUnfinishedRun DEF Reads, RunNeeds
  <2>7. \A l \in DOMAIN lumis : LumiNeeds(lumis[l]) = "nothing"
    BY <1>2, OneUnfinishedRun DEF Reads, NoCurrent, Current, Coming, LumiNeeds
  <2>8. AtHand /\ SourceTyped' /\ InOrder' /\ AtHand' = AtHand /\ UNCHANGED <<input, src>>
    <3>1. ForMain
      BY <2>5, <2>6, <2>7 DEF Reads, Found, Streaming, NoNeed
    <3> QED
      BY <3>1, <1>2, <2>4, SourceSame DEF ForMain
  <2> PICK q : q = Len(runs) + 1
    OBVIOUS
  <2>9. q \in DOMAIN runs' /\ runs'[q].num = Item.run /\ runs'[q].phase = "sync"
    BY <2>2, <2>4, ListFacts DEF NewRun, IsList
  <2>10. RunFinds(q)' /\ RunNeeds(runs'[q]) # "nothing"
    BY <2>4, <2>8, <2>9 DEF RunNeeds, RunFinds, Item
  <2>11. Found'
    BY <2>9, <2>10, ByRun DEF Reads
  <2> QED
    BY <2>8, <2>11 DEF Goes
<1> QED
  BY <1>4, <1>5

-----------------------------------------------------------------------------
(* Luminosity blocks, while the main thread waits.                         *)

LEMMA LumiStays ==
  ASSUME Reads, UNCHANGED <<src, log, stream>>, failed => failed', NEW l \in DOMAIN lumis,
         DOMAIN lumis' = DOMAIN lumis, \A k \in DOMAIN lumis \ {l} : lumis'[k] = lumis[k],
         lumis'[l].num = lumis[l].num, lumis'[l].run = lumis[l].run,
         LumiNeeds(lumis'[l]) = LumiNeeds(lumis[l]),
         DOMAIN runs' = DOMAIN runs,
         \A r \in DOMAIN runs : runs'[r].num = runs[r].num /\ RunNeeds(runs'[r]) = RunNeeds(runs[r])
  PROVE  Goes
<1>1. \A k \in DOMAIN lumis : /\ lumis'[k].num = lumis[k].num /\ lumis'[k].run = lumis[k].run
                              /\ LumiNeeds(lumis'[k]) = LumiNeeds(lumis[k])
  OBVIOUS
<1>2. \A k \in DOMAIN lumis : \A s \in In(k)' :
        stream'[s].doing = "nothing" => s \in In(k) /\ stream[s].doing = "nothing"
  BY DEF In
<1> QED
  BY <1>1, <1>2, NeedsStay

LEMMA SyncLumiGoes ==
  ASSUME Reads, NEW l \in DOMAIN lumis, SyncLumi(l)
  PROVE  Goes
<1>1. LumiMoves(l, "queue") /\ UNCHANGED <<runs, stream>>
  BY SyncLumiFacts DEF Reads, LumiAdvances
<1>2. lumis[l].phase = "sync" /\ UNCHANGED <<src, log>> /\ (failed => failed')
  BY DEF SyncLumi, TryAndTell
<1>3. LumiNeeds(lumis'[l]) = LumiNeeds(lumis[l])
  BY <1>1, <1>2 DEF LumiNeeds, LumiMoves, LumiTo
<1> QED
  BY <1>1, <1>2, <1>3, LumiStays DEF LumiMoves, LumiTo

LEMMA GlobalEndLumiGoes ==
  ASSUME Reads, NEW l \in DOMAIN lumis, GlobalEndLumi(l)
  PROVE  Goes
<1>1. LumiMoves(l, "closed") /\ Counts(l, runs[lumis[l].run].phase, -1) /\ UNCHANGED stream
  BY GlobalEndLumiFacts DEF Reads, LumiEnds
<1>2. lumis[l].phase = "end" /\ UNCHANGED <<src, log>> /\ (failed => failed')
  BY DEF GlobalEndLumi, TryAndTell
<1>3. LumiNeeds(lumis'[l]) = LumiNeeds(lumis[l])
  BY <1>1, <1>2 DEF LumiNeeds, LumiMoves, LumiTo
<1>4. /\ DOMAIN runs' = DOMAIN runs
      /\ \A r \in DOMAIN runs : runs'[r].num = runs[r].num /\ RunNeeds(runs'[r]) = RunNeeds(runs[r])
  BY <1>1 DEF Counts, RunTo, RunNeeds
<1> QED
  BY <1>1, <1>2, <1>3, <1>4, LumiStays DEF LumiMoves, LumiTo

(* A luminosity block is given up, or ended before it begins: the job has  *)
(* failed.                                                                 *)
LEMMA LumiGivenUp ==
  ASSUME Reads, NEW l \in DOMAIN lumis, Current(l), LumiDropped(l) \/ LumiUnbegun(l), failed'
  PROVE  Found'
<1>1. /\ \A r \in DOMAIN runs : RunNeeds(runs[r]) = "nothing"
      /\ \A k \in DOMAIN lumis \ {l} : LumiNeeds(lumis[k]) = "nothing"
  BY LumiAlone DEF Reads
<1>2. /\ DOMAIN lumis' = DOMAIN lumis /\ \A k \in DOMAIN lumis \ {l} : lumis'[k] = lumis[k]
      /\ LumiNeeds(lumis'[l]) = "nothing"
  BY DEF LumiDropped, LumiUnbegun, LumiMoves, LumiTo, LumiNeeds
<1>3. /\ DOMAIN runs' = DOMAIN runs /\ \A q \in DOMAIN runs \ {lumis[l].run} : runs'[q] = runs[q]
      /\ runs'[lumis[l].run].phase = "endSync"
  BY DEF LumiDropped, LumiUnbegun, Counts, RunMoves, RunTo
<1>4. \A r \in DOMAIN runs : RunNeeds(runs'[r]) = "nothing"
  BY <1>1, <1>3 DEF RunNeeds
<1> QED
  BY <1>1, <1>2, <1>3, <1>4, NobodyAfterLumi DEF Streaming, Reads

LEMMA StartLumiGoes ==
  ASSUME Reads, NEW l \in DOMAIN lumis, StartLumi(l)
  PROVE  Goes
<1>1. lumis[l].phase = "queue" /\ UNCHANGED <<src, log, stream, failed>>
  BY DEF StartLumi
<1>2. CASE failed /\ DropLumi(l)
  <2>1. LumiDropped(l)
    BY <1>1, <1>2, DropLumiFacts DEF Reads
  <2>2. Found'
    BY <1>1, <1>2, <2>1, LumiGivenUp DEF Current, Coming
  <2> QED
    BY <1>1, <2>2, SourceSame DEF Goes
<1>3. CASE lumis' = [lumis EXCEPT ![l].phase = "read"] /\ UNCHANGED runs
  <2>1. /\ DOMAIN lumis' = DOMAIN lumis /\ \A k \in DOMAIN lumis \ {l} : lumis'[k] = lumis[k]
        /\ lumis'[l].num = lumis[l].num /\ lumis'[l].phase = "read" /\ lumis'[l].run = lumis[l].run
    BY <1>3, InList DEF Reads, LumiRecord, LumiFields
  <2>2. LumiNeeds(lumis'[l]) = LumiNeeds(lumis[l])
    BY <1>1, <2>1 DEF LumiNeeds
  <2> QED
    BY <1>1, <1>3, <2>1, <2>2, LumiStays
<1> QED
  BY <1>2, <1>3 DEF StartLumi

LEMMA ReadLumiGoes ==
  ASSUME Reads, NEW l \in DOMAIN lumis, ReadLumi(l)
  PROVE  Goes
<1>1. lumis[l].phase = "read"
  BY AtSourceFacts DEF ReadLumi, Reads, SourceTask
<1>2. /\ LumiNeeds(lumis[l]) = "item" /\ AtHand /\ src.kind = "Lumi" /\ Item.lumi = lumis[l].num
      /\ Item.run = NumOfRun(l)
  BY <1>1 DEF LumiNeeds, Reads, Found, LumiFinds
<1>3. UNCHANGED <<inputVars, stream, todo>>
  BY DEF ReadLumi, Reads, mainVars
<1>4. CASE failed' /\ DropLumi(l) /\ UNCHANGED <<src, log>>
  <2>1. LumiDropped(l)
    BY <1>1, <1>3, <1>4, DropLumiFacts DEF Reads
  <2>2. Found'
    BY <1>1, <1>4, <2>1, LumiGivenUp DEF Current, Coming
  <2> QED
    BY <1>4, <2>2, SourceSame DEF Goes
<1>5. CASE /\ ~failed' /\ Handled(<<src.pos>>, runs[lumis[l].run].num, lumis[l].num) /\ UNCHANGED runs
           /\ \/ lumis' = [lumis EXCEPT ![l].phase = "begin"] /\ src' = [src EXCEPT !.needNext = TRUE]
              \/ lumis' = [lumis EXCEPT ![l].phase = "merge"] /\ UNCHANGED src
  <2>1. /\ src.pos = Len(log) + 1 /\ src.pos < Len(input) /\ src.pos \in DOMAIN input
        /\ Item.kind = "Lumi"
    BY <1>2, ItemFacts DEF Reads
  <2>2. InOrder' /\ Len(log') = src.pos
    <3>1. Handled(<<src.pos>>, input[src.pos].run, input[src.pos].lumi)
      BY <1>2, <1>5, <2>1 DEF Item, NumOfRun
    <3> QED
      BY <2>1, <3>1, <1>3, OneHandled DEF Reads, inputVars
  <2>3. SourceTyped' /\ src'.pos = src.pos
    BY <1>3, <1>5 DEF SourceTyped, Reads, inputVars
  <2>4. /\ l \in DOMAIN lumis' /\ lumis'[l].num = lumis[l].num /\ lumis'[l].run = lumis[l].run
        /\ \/ lumis'[l].phase = "begin" /\ src'.needNext
           \/ lumis'[l].phase = "merge"
    BY <1>5, InList DEF Reads, LumiRecord, LumiFields, SourceTyped
  <2> PICK n : n = lumis[l].num
    OBVIOUS
  <2>5. LastWas("Lumi", n)'
    <3>1. SameEntry(src.pos, "Lumi", n) /\ UNCHANGED input
      BY <1>2, <1>3, <2>1 DEF SameEntry, Item, inputVars
    <3> QED
      BY <2>1, <2>2, <3>1, LastIs
  <2>6. Taken'
    BY <2>2, <2>3 DEF Taken
  <2>7. input'[Len(log')].run = NumOfRun(l)'
    BY <1>2, <1>3, <1>5, <2>2, <2>4 DEF NumOfRun, Item, inputVars
  <2>8. LumiNeeds(lumis'[l]) # "nothing" /\ LumiFinds(l)'
    <3>1. LastWas("Lumi", lumis[l].num)'
      BY <2>4, <2>5 DEF LastWas, SameEntry
    <3>2. LumiNeeds(lumis'[l]) \in {"taken", "either"} /\ (LumiNeeds(lumis'[l]) = "either" => src'.needNext)
      BY <2>4 DEF LumiNeeds
    <3> QED
      BY <2>4, <2>6, <2>7, <3>1, <3>2 DEF LumiFinds, InHand
  <2>9. Found'
    BY <2>4, <2>8, ByLumi DEF Reads
  <2> QED
    BY <2>2, <2>3, <2>9 DEF Goes
<1> QED
  BY <1>4, <1>5 DEF ReadLumi

LEMMA MergeLumiGoes ==
  ASSUME Reads, NEW l \in DOMAIN lumis, MergeLumi(l)
  PROVE  Goes
<1>1. lumis[l].phase = "merge"
  BY AtSourceFacts DEF MergeLumi, Reads, SourceTask
<1>2. /\ LumiNeeds(lumis[l]) = "taken" /\ Taken /\ LastWas("Lumi", lumis[l].num)
      /\ input[Len(log)].run = NumOfRun(l)
  BY <1>1 DEF LumiNeeds, Reads, Found, LumiFinds
<1>3. UNCHANGED <<inputVars, stream, todo>>
  BY DEF MergeLumi, Reads, mainVars
<1>4. /\ src.pos = Len(log) /\ Len(log) \in Nat /\ Len(log) < Len(input) /\ Len(input) \in Nat
      /\ src.pos \in 0..(Len(input) - 1) /\ DOMAIN input = 1..Len(input) /\ Len(log) \in DOMAIN input
  BY <1>2, InputFacts DEF Taken, Reads, InOrder, SourceTyped, LastWas
<1>5. CASE failed' /\ EndUnbegunLumi(l) /\ UNCHANGED <<src, log>>
  <2>1. LumiUnbegun(l)
    BY <1>1, <1>3, <1>5, EndUnbegunFacts DEF Reads
  <2>2. Found'
    BY <1>1, <1>5, <2>1, LumiGivenUp DEF Current, Coming
  <2> QED
    BY <1>5, <2>2, SourceSame DEF Goes
<1>6. CASE /\ \E o \in MergeOutcomes(src, "Lumi", lumis[l].num, FALSE) :
                src' = o.src /\ Handled(o.entries, runs[lumis[l].run].num, lumis[l].num)
           /\ lumis' = [lumis EXCEPT ![l].phase = "begin"] /\ UNCHANGED runs
  <2>1. PICK o \in MergeOutcomes(src, "Lumi", lumis[l].num, FALSE) :
                src' = o.src /\ Handled(o.entries, runs[lumis[l].run].num, lumis[l].num)
    BY <1>6
  <2>2. PICK m \in Nat : /\ o.entries = [i \in 1..m |-> src.pos + i]
                         /\ Merged(src.pos, "Lumi", lumis[l].num, src, FALSE, m, o.src)
    BY <1>4, MergeNew DEF Reads
  <2>3. src.pos + m < Len(input) /\ \A i \in 1..m : SameEntry(src.pos + i, "Lumi", lumis[l].num)
    BY <2>2 DEF Merged
  <2>r. \A i \in 0..m : input[Len(log) + i].run = NumOfRun(l)
    <3>1. input \in Inputs /\ Len(log) \in 1..Len(input) /\ Len(log) + m < Len(input)
      BY <1>4, <2>3 DEF Reads, SourceTyped
    <3>2. \A i \in 1..m : input[Len(log) + i].kind = "Lumi"
      BY <1>4, <2>3 DEF SameEntry
    <3>3. \A i \in 0..m : input[Len(log) + i].run = input[Len(log)].run
      BY <3>1, <3>2, SameRunAlong
    <3> QED
      BY <3>3, <1>2
  <2>4. ASSUME NEW i \in 1..m
        PROVE  /\ input[Len(log) + i].run = runs[lumis[l].run].num
               /\ input[Len(log) + i].lumi = lumis[l].num
    <3>1. SameEntry(src.pos + i, "Lumi", lumis[l].num)
      BY <2>3
    <3>2. i \in 0..m /\ src.pos + i = Len(log) + i
      BY <1>4
    <3>3. input[Len(log) + i].run = NumOfRun(l)
      BY <3>2, <2>r
    <3> QED
      BY <3>1, <3>2, <3>3 DEF SameEntry, NumOfRun
  <2>5. InOrder' /\ Len(log') = Len(log) + m
    <3>1. o.entries = [i \in 1..m |-> Len(log) + i] /\ Len(log) + m < Len(input)
      BY <1>4, <2>2, <2>3
    <3>2. SourceTyped /\ InOrder /\ UNCHANGED input
      BY <1>3 DEF Reads, inputVars
    <3> QED
      BY <2>1, <2>4, <3>1, <3>2, MergedHandled
  <2> PICK n : n = lumis[l].num
    OBVIOUS
  <2>6. LastWas("Lumi", n)'
    <3>1. Len(log) + m \in DOMAIN input
      BY <1>4, <2>3
    <3>2. SameEntry(Len(log) + m, "Lumi", n)
      <4>1. CASE m = 0
        BY <4>1, <1>2, <1>4 DEF LastWas
      <4>2. CASE m # 0
        BY <4>2, <1>4, <2>3
      <4> QED
        BY <4>1, <4>2
    <3> QED
      BY <1>3, <2>5, <3>1, <3>2, LastIs DEF inputVars
  <2>7. SourceTyped' /\ InHand'
    <3>1. CASE src' = [pos |-> src.pos + m, kind |-> "Lumi", needNext |-> TRUE]
      BY <3>1, <1>3, <1>4, <2>3, <2>5 DEF SourceTyped, Reads, inputVars, Kinds, InHand, Taken
    <3>2. CASE \E k \in {input[src.pos + m + 1].kind} \cup (IF mayStop THEN {"Stop"} ELSE {}) :
                 src' = [pos |-> src.pos + m + 1, kind |-> k, needNext |-> FALSE]
      <4>1. src.pos + m + 1 \in DOMAIN input /\ input[src.pos + m + 1].kind \in Kinds
        BY <1>4, <2>3, InputFacts DEF Reads, SourceTyped
      <4> QED
        BY <3>2, <4>1, <1>3, <1>4, <2>5 DEF SourceTyped, Reads, inputVars, Kinds, InHand, AtHand, Item
    <3> QED
      BY <3>1, <3>2, <2>1, <2>2 DEF Merged
  <2>8. /\ l \in DOMAIN lumis' /\ lumis'[l].num = lumis[l].num /\ lumis'[l].phase = "begin"
        /\ lumis'[l].run = lumis[l].run
    BY <1>6, InList DEF Reads, LumiRecord, LumiFields
  <2>9. Found'
    <3>1. LastWas("Lumi", lumis[l].num)'
      BY <2>6, <2>8 DEF LastWas, SameEntry
    <3>2. input'[Len(log')].run = NumOfRun(l)'
      BY <1>3, <1>6, <2>r, <2>5, <2>8 DEF NumOfRun, inputVars
    <3>3. LumiNeeds(lumis'[l]) = "either"
      BY <2>8 DEF LumiNeeds
    <3> QED
      BY <2>7, <2>8, <3>1, <3>2, <3>3, ByLumi DEF Reads, LumiFinds
  <2> QED
    BY <2>5, <2>7, <2>9 DEF Goes
<1> QED
  BY <1>5, <1>6 DEF MergeLumi, TryAndTell

(* The item after one of a luminosity block fits it.                       *)
LEMMA NextFits ==
  ASSUME NEW l
  PROVE  /\ SourceTyped /\ InOrder /\ Len(log) \in DOMAIN input
         /\ input[Len(log)].kind \in {"Lumi", "Event"} /\ input[Len(log)].run = NumOfRun(l)
         /\ input[Len(log)].lumi = lumis[l].num
         => Fits(l)
<1> SUFFICES ASSUME SourceTyped, InOrder, Len(log) \in DOMAIN input,
                    input[Len(log)].kind \in {"Lumi", "Event"}, input[Len(log)].run = NumOfRun(l),
                    input[Len(log)].lumi = lumis[l].num
             PROVE  Fits(l)
  OBVIOUS
<1>1. Len(log) + 1 \in DOMAIN input
  BY InputFacts DEF SourceTyped, InOrder
<1>2. MayFollow(input[Len(log)], input[Len(log) + 1])
  BY <1>1, InputFacts DEF SourceTyped
<1> QED
  BY <1>2 DEF Fits, MayFollow

LEMMA NextFitsThen ==
  ASSUME NEW l
  PROVE  /\ SourceTyped' /\ InOrder' /\ Len(log') \in DOMAIN input'
         /\ input'[Len(log')].kind \in {"Lumi", "Event"} /\ input'[Len(log')].run = NumOfRun(l)'
         /\ input'[Len(log')].lumi = lumis'[l].num
         => Fits(l)'
<1>1. (/\ SourceTyped /\ InOrder /\ Len(log) \in DOMAIN input
       /\ input[Len(log)].kind \in {"Lumi", "Event"} /\ input[Len(log)].run = NumOfRun(l)
       /\ input[Len(log)].lumi = lumis[l].num
       => Fits(l))'
  BY NextFits, PTL
<1> QED
  BY <1>1

LEMMA GlobalBeginLumiGoes ==
  ASSUME Reads, NEW l \in DOMAIN lumis, GlobalBeginLumi(l)
  PROVE  Goes
<1>1. lumis[l].phase = "begin" /\ UNCHANGED <<src, log>>
  BY DEF GlobalBeginLumi
<1>2. CASE failed' /\ EndUnbegunLumi(l) /\ UNCHANGED stream
  <2>1. LumiUnbegun(l)
    BY <1>1, <1>2, EndUnbegunFacts DEF Reads
  <2>2. Found'
    BY <1>1, <1>2, <2>1, LumiGivenUp DEF Current, Coming
  <2> QED
    BY <1>1, <2>2, SourceSame DEF Goes
<1>3. CASE lumis' = [lumis EXCEPT ![l].phase = "open", ![l].ok = TRUE]
  <2>1. LumiBegins(l)
    <3>1. lumis'[l].phase = "open"
      BY <1>3, InList DEF Reads, LumiRecord, LumiFields
    <3> QED
      BY <3>1, GlobalBeginLumiFacts DEF Reads, LumiUnbegun, LumiMoves, LumiTo
  <2>2. /\ l \in DOMAIN lumis' /\ lumis'[l].num = lumis[l].num /\ lumis'[l].run = lumis[l].run
        /\ lumis'[l].phase = "open" /\ ~lumis'[l].noMore /\ lumis'[l].state = "processing"
    BY <1>1, <2>1 DEF LumiBegins, LumiMoves, LumiTo, Reads, TaskInv, LumisJoined, Coming, Numbers
  <2>3. LumiNeeds(lumis'[l]) = "events"
    BY <2>2 DEF LumiNeeds
  <2>4. NumOfRun(l)' = NumOfRun(l)
    BY <2>1, <2>2, InList DEF LumiBegins, Counts, RunTo, NumOfRun, Reads
  <2>5. InHand /\ LastWas("Lumi", lumis[l].num) /\ input[Len(log)].run = NumOfRun(l)
    BY <1>1 DEF LumiNeeds, Reads, Found, LumiFinds
  <2>6. Fits(l)
    BY <2>5, NextFits DEF Reads, LastWas, SameEntry
  <2>7. /\ SourceTyped' /\ InOrder' /\ InHand' = InHand /\ UNCHANGED <<input, log>>
    BY <1>1, SourceSame
  <2>8. Fits(l)'
    BY <2>2, <2>4, <2>6, <2>7 DEF Fits
  <2>9. In(l)' = {}
    <3>1. In(l) = {}
      BY <1>1 DEF Reads, TaskInv, LumisCounted
    <3> QED
      BY <2>1, <3>1, InList DEF LumiBegins, Pushed, In, StreamRecords, Reads
  <2>10. LumiFinds(l)'
    BY <2>3, <2>5, <2>7, <2>8, <2>9 DEF LumiFinds
  <2>11. Found'
    BY <2>2, <2>3, <2>10, ByLumi DEF Reads
  <2> QED
    BY <2>7, <2>11 DEF Goes
<1> QED
  BY <1>2, <1>3 DEF GlobalBeginLumi, TryAndTell

-----------------------------------------------------------------------------
(* Streams, while the main thread waits.                                   *)

LEMMA StreamStays ==
  ASSUME Reads, UNCHANGED <<src, log>>, failed => failed', NEW s \in Streams,
         DOMAIN runs' = DOMAIN runs,
         \A r \in DOMAIN runs : runs'[r].num = runs[r].num /\ RunNeeds(runs'[r]) = RunNeeds(runs[r]),
         DOMAIN lumis' = DOMAIN lumis,
         \A l \in DOMAIN lumis : /\ lumis'[l].num = lumis[l].num /\ lumis'[l].run = lumis[l].run
                                 /\ LumiNeeds(lumis'[l]) = LumiNeeds(lumis[l]),
         \A t \in Streams \ {s} : stream'[t] = stream[t],
         stream'[s].doing # "nothing" \/ stream'[s].lumi = 0
         \/ LumiNeeds(lumis[stream'[s].lumi]) # "events"
  PROVE  Goes
<1>1. ASSUME NEW l \in DOMAIN lumis, LumiNeeds(lumis[l]) = "events", NEW t \in In(l)',
             stream'[t].doing = "nothing"
      PROVE  t \in In(l) /\ stream[t].doing = "nothing"
  <2>1. t # s
    BY <1>1, InList DEF In, Reads
  <2> QED
    BY <1>1, <2>1 DEF In
<1> QED
  BY <1>1, NeedsStay

LEMMA StreamTakeGoes ==
  ASSUME Reads, NEW s \in Streams, StreamTake(s)
  PROVE  Goes
<1>1. UNCHANGED <<src, log, runs, failed>>
  BY DEF StreamTake
<1>2. BeginsRun(s) \/ EndsRun(s) \/ Joins(s) \/ Skips(s)
  BY StreamTakeFacts DEF Reads
<1>3. CASE BeginsRun(s) \/ EndsRun(s)
  <2>1. UNCHANGED lumis /\ stream'[s].doing # "nothing" /\ \A t \in Streams \ {s} : stream'[t] = stream[t]
    BY <1>3 DEF BeginsRun, EndsRun, StreamTo
  <2> QED
    BY <1>1, <2>1, StreamStays
<1>4. CASE Skips(s)
  <2>1. /\ UNCHANGED lumis /\ stream'[s].lumi = stream[s].lumi
        /\ \A t \in Streams \ {s} : stream'[t] = stream[t]
    BY <1>4 DEF Skips, StreamTo
  <2>2. stream[s].lumi = 0
    BY <1>4, TakeFacts DEF Reads, Skips, Takes
  <2> QED
    BY <1>1, <2>1, <2>2, StreamStays
<1>5. CASE Joins(s)
  <2> DEFINE l == Head(stream[s].queue)[2]
  <2>1. /\ stream'[s].doing # "nothing" /\ \A t \in Streams \ {s} : stream'[t] = stream[t]
        /\ LumiTo(lumis', l, lumis[l].phase, lumis[l].noMore, lumis[l].state, lumis[l].started,
                  lumis[l].joined + 1, lumis[l].toEnd)
    <3>1. StreamTo(s, stream[s].run, l, "beginLumi", Tail(stream[s].queue), 1)
      BY <1>5 DEF Joins
    <3>2. LumiTo(lumis', l, lumis[l].phase, lumis[l].noMore, lumis[l].state, lumis[l].started,
                 lumis[l].joined + 1, lumis[l].toEnd)
      BY <1>5, Zenon DEF Joins
    <3> HIDE DEF l
    <3> QED
      BY <3>1, <3>2 DEF StreamTo
  <2> HIDE DEF l
  <2>2. /\ DOMAIN lumis' = DOMAIN lumis
        /\ \A k \in DOMAIN lumis : /\ lumis'[k].num = lumis[k].num /\ lumis'[k].run = lumis[k].run
                                   /\ LumiNeeds(lumis'[k]) = LumiNeeds(lumis[k])
    BY <2>1 DEF LumiTo, LumiNeeds
  <2> QED
    BY <1>1, <2>1, <2>2, StreamStays
<1> QED
  BY <1>2, <1>3, <1>4, <1>5

LEMMA StreamBeginRunGoes ==
  ASSUME Reads, NEW s \in Streams, StreamBeginRun(s)
  PROVE  Goes
<1>1. UNCHANGED <<src, log, lumis>> /\ (failed => failed')
  BY DEF StreamBeginRun, TryAndTell
<1>2. HasBegun(s)
  BY StreamBeginRunFacts DEF Reads
<1>3. /\ stream'[s].lumi = 0 /\ \A t \in Streams \ {s} : stream'[t] = stream[t]
      /\ DOMAIN runs' = DOMAIN runs
      /\ \A r \in DOMAIN runs : runs'[r].num = runs[r].num /\ RunNeeds(runs'[r]) = RunNeeds(runs[r])
  BY <1>2, PlaceFacts DEF HasBegun, StreamTo, RunTo, RunNeeds, Reads
<1> QED
  BY <1>1, <1>3, StreamStays

LEMMA StreamEndRunGoes ==
  ASSUME Reads, NEW s \in Streams, StreamEndRun(s)
  PROVE  Goes
<1>1. UNCHANGED <<src, log, lumis>> /\ (failed => failed')
  BY DEF StreamEndRun, TryAndTell
<1>2. HasEnded(s)
  BY StreamEndRunFacts DEF Reads
<1>3. /\ stream'[s].lumi = 0 /\ \A t \in Streams \ {s} : stream'[t] = stream[t]
      /\ DOMAIN runs' = DOMAIN runs
      /\ \A r \in DOMAIN runs : runs'[r].num = runs[r].num /\ RunNeeds(runs'[r]) = RunNeeds(runs[r])
  BY <1>2, PlaceFacts DEF HasEnded, StreamTo, RunTo, RunNeeds, Reads
<1> QED
  BY <1>1, <1>3, StreamStays

(* A stream goes on in its luminosity block, which stays as it is.         *)
LEMMA DoesGoes ==
  ASSUME Reads, UNCHANGED <<src, log>>, failed => failed', NEW s \in Streams, NEW doing,
         Does(s, doing)
  PROVE  Goes
<1>1. /\ UNCHANGED <<runs, lumis>> /\ stream'[s].doing # "nothing"
      /\ \A t \in Streams \ {s} : stream'[t] = stream[t]
  BY DEF Does, StreamDoes, StreamTo
<1> QED
  BY <1>1, StreamStays

LEMMA StreamReadyGoes ==
  ASSUME Reads, NEW s \in Streams, StreamReady(s) \/ StreamResume(s)
  PROVE  Goes
<1>1. UNCHANGED <<src, log, runs, lumis>> /\ (failed => failed')
  <2>1. CASE StreamReady(s)
    BY <2>1 DEF StreamReady, TryAndTell
  <2>2. CASE StreamResume(s)
    BY <2>2 DEF StreamResume
  <2> QED
    BY <2>1, <2>2
<1>2. \E doing \in Doings : Does(s, doing)
  BY <1>1, NextEventFacts DEF Reads, StreamReady, StreamResume
<1> QED
  BY <1>1, <1>2, DoesGoes

LEMMA StreamEndLumiGoes ==
  ASSUME Reads, NEW s \in Streams, StreamEndLumi(s)
  PROVE  Goes
<1>1. UNCHANGED <<src, log, runs>> /\ (failed => failed')
  BY DEF StreamEndLumi, TryAndTell
<1>2. Leaves(s)
  BY StreamEndLumiFacts DEF Reads
<1> DEFINE l == stream[s].lumi
<1>3. l \in DOMAIN lumis /\ lumis[l].phase = "open" /\ lumis[l].noMore
  BY <1>2, PlaceFacts, InFacts DEF Reads, TaskInv, LumisJoined, Leaves
<1>4. /\ stream'[s].lumi = 0 /\ \A t \in Streams \ {s} : stream'[t] = stream[t]
      /\ DOMAIN lumis' = DOMAIN lumis /\ \A k \in DOMAIN lumis \ {l} : lumis'[k] = lumis[k]
      /\ lumis'[l].num = lumis[l].num /\ lumis'[l].run = lumis[l].run
      /\ lumis'[l].noMore /\ lumis'[l].phase \in {"open", "end"}
  BY <1>2, <1>3 DEF Leaves, StreamTo, LumiTo
<1>5. LumiNeeds(lumis'[l]) = LumiNeeds(lumis[l])
  BY <1>3, <1>4 DEF LumiNeeds
<1> HIDE DEF l
<1>6. \A k \in DOMAIN lumis : /\ lumis'[k].num = lumis[k].num /\ lumis'[k].run = lumis[k].run
                              /\ LumiNeeds(lumis'[k]) = LumiNeeds(lumis[k])
  BY <1>4, <1>5
<1> QED
  BY <1>1, <1>4, <1>6, StreamStays

(* The stream whose turn it is at the source, while its luminosity block   *)
(* takes events.                                                           *)
LEMMA StreamReads ==
  ASSUME Reads, NEW s \in Streams, AtSource(<<"event", s>>), MayRead(s)
  PROVE  LET l == stream[s].lumi IN
         /\ l \in DOMAIN lumis /\ Current(l) /\ LumiNeeds(lumis[l]) = "events"
         /\ lumis[l].phase = "open" /\ ~lumis[l].noMore
         /\ stream[s].doing = "next" /\ ~lumis[l].started /\ lumis[l].state = "processing"
         /\ Streaming /\ InHand /\ Fits(l) /\ lumis[l].run \in DOMAIN runs
         /\ \A t \in In(l) : stream[t].doing # "nothing"
         /\ \A r \in DOMAIN runs : RunNeeds(runs[r]) = "nothing"
         /\ \A k \in DOMAIN lumis \ {l} : LumiNeeds(lumis[k]) = "nothing"
<1> DEFINE l == stream[s].lumi
<1>1. stream[s].doing = "next"
  BY AtSourceFacts DEF Reads, SourceTask
<1>2. /\ l \in DOMAIN lumis /\ lumis[l].run \in DOMAIN runs /\ lumis[l].phase = "open"
      /\ lumis[l].started => lumis[l].state = "stop"
      /\ ~lumis[l].started => ~lumis[l].noMore
  BY <1>1, ReaderFacts DEF Reads
<1>3. ~failed /\ lumis[l].state = "processing"
  BY DEF MayRead
<1>4. ~lumis[l].started /\ ~lumis[l].noMore /\ Current(l) /\ LumiNeeds(lumis[l]) = "events"
  BY <1>2, <1>3 DEF Current, LumiNeeds
<1>5. /\ \A r \in DOMAIN runs : RunNeeds(runs[r]) = "nothing"
      /\ \A k \in DOMAIN lumis \ {l} : LumiNeeds(lumis[k]) = "nothing"
  BY <1>2, <1>4, LumiAlone DEF Reads
<1>6. Streaming /\ InHand /\ Fits(l) /\ \A t \in In(l) : stream[t].doing # "nothing"
  BY <1>2, <1>3, <1>4 DEF Reads, Found, LumiFinds, Streaming
<1> QED
  BY <1>1, <1>2, <1>3, <1>4, <1>5, <1>6

(* What it finds.                                                          *)
LEMMA NextFound ==
  ASSUME SourceTyped, InOrder, InHand, UNCHANGED <<input, mayStop>>, src' \in NextForStream
  PROVE  /\ SourceTyped' /\ src'.pos = Len(log) + 1 /\ src'.needNext
         /\ Len(log) \in Nat /\ Len(log) + 1 \in DOMAIN input
         /\ src'.kind = input[Len(log) + 1].kind \/ (src'.kind = "Stop" /\ mayStop)
         /\ UNCHANGED log => AtHand'
<1>0. /\ Len(log) \in Nat /\ Len(log) < Len(input) /\ Len(input) \in Nat
      /\ DOMAIN input = 1..Len(input) /\ Len(log) + 1 \in DOMAIN input
      /\ src \in [pos : 0..Len(input), kind : Kinds, needNext : BOOLEAN]
  BY InputFacts DEF SourceTyped, InOrder
<1>1. CASE src.needNext
  <2>1. PICK i \in NextItems : src' = [pos |-> i.pos, kind |-> i.kind, needNext |-> TRUE]
    BY <1>1 DEF NextForStream
  <2>2. PICK k \in {input[src.pos + 1].kind} \cup (IF mayStop THEN {"Stop"} ELSE {}) :
          i = [pos |-> src.pos + 1, kind |-> k]
    BY DEF NextItems
  <2>3. src' = [pos |-> src.pos + 1, kind |-> k, needNext |-> TRUE] /\ src.pos = Len(log)
    BY <1>1, <2>1, <2>2 DEF InHand, Taken
  <2>4. k \in Kinds
    BY <1>0, <2>3, InputFacts DEF Kinds, SourceTyped
  <2>5. SourceTyped'
    BY <1>0, <2>3, <2>4 DEF SourceTyped
  <2> QED
    BY <1>0, <2>3, <2>5 DEF AtHand, Item
<1>2. CASE ~src.needNext
  <2>1. src' = [src EXCEPT !.needNext = TRUE] /\ AtHand
    BY <1>2 DEF NextForStream, InHand
  <2>2. SourceTyped'
    BY <1>0, <2>1 DEF SourceTyped
  <2> QED
    BY <1>0, <2>1, <2>2 DEF AtHand, Item
<1> QED
  BY <1>0, <1>1, <1>2

LEMMA ReadEventGoes ==
  ASSUME Reads, NEW s \in Streams, ReadEvent(s)
  PROVE  Goes
<1> DEFINE l == stream[s].lumi
<1>1. /\ l \in DOMAIN lumis /\ LumiNeeds(lumis[l]) = "events" /\ InHand /\ Fits(l)
      /\ lumis[l].run \in DOMAIN runs
      /\ \A t \in In(l) : stream[t].doing # "nothing"
  BY StreamReads DEF ReadEvent
<1>2. /\ src' \in NextForStream /\ src'.kind = "Event" /\ UNCHANGED <<inputVars, runs, lumis, failed>>
      /\ Handled(<<src'.pos>>, runs[lumis[l].run].num, lumis[l].num)
  BY DEF ReadEvent
<1>3. \A t \in Streams : /\ stream'[t].lumi = stream[t].lumi
                         /\ stream'[t].doing = "nothing" => stream[t].doing = "nothing"
  <2>1. StreamDoes(s, "event")
    BY LeaveFacts DEF ReadEvent, Reads, Doings
  <2> QED
    BY <2>1 DEF StreamDoes, StreamTo
<1> HIDE DEF l
<1>4. /\ src'.pos = Len(log) + 1 /\ Len(log) + 1 \in DOMAIN input /\ input[Len(log) + 1].kind = "Event"
      /\ SourceTyped' /\ src'.needNext /\ Len(log) \in Nat
  BY <1>1, <1>2, NextFound DEF Reads, inputVars
<1>5. Len(log) + 1 < Len(input)
  <2>1. Len(log) + 1 # Len(input) /\ Len(input) \in Nat /\ Len(log) + 1 \in 1..Len(input)
    BY <1>4, InputFacts DEF Reads, SourceTyped
  <2> QED
    BY <2>1
<1>6. input[Len(log) + 1].run = runs[lumis[l].run].num /\ input[Len(log) + 1].lumi = lumis[l].num
  BY <1>1, <1>4 DEF Fits, NumOfRun
<1>7. InOrder' /\ Len(log') = Len(log) + 1
  <2>1. Handled(<<Len(log) + 1>>, input[Len(log) + 1].run, input[Len(log) + 1].lumi)
    BY <1>2, <1>4, <1>6
  <2> QED
    BY <1>2, <1>5, <2>1, OneHandled DEF Reads, inputVars
<1>8. InHand'
  BY <1>4, <1>7 DEF InHand, Taken
<1>9. PICK k : k = l
  OBVIOUS
<1>10. Fits(k)'
  <2>1. /\ Len(log') \in DOMAIN input' /\ input'[Len(log')].kind = "Event"
        /\ input'[Len(log')].run = NumOfRun(k)' /\ input'[Len(log')].lumi = lumis'[k].num
    BY <1>2, <1>4, <1>6, <1>7, <1>9 DEF NumOfRun, inputVars
  <2> QED
    BY <1>4, <1>7, <2>1, NextFitsThen
<1>11. LumiNeeds(lumis'[k]) = "events" /\ k \in DOMAIN lumis'
  BY <1>1, <1>2, <1>9
<1>12. \A t \in In(k)' : stream'[t].doing # "nothing"
  BY <1>1, <1>3, <1>9 DEF In
<1>13. LumiFinds(k)'
  BY <1>8, <1>10, <1>11, <1>12 DEF LumiFinds
<1>14. Found'
  BY <1>11, <1>13, ByLumi DEF Reads
<1> QED
  BY <1>4, <1>7, <1>14 DEF Goes

LEMMA SourceThrowsGoes ==
  ASSUME Reads, NEW s \in Streams, SourceThrows(s)
  PROVE  Goes
<1> DEFINE l == stream[s].lumi
<1>1. /\ l \in DOMAIN lumis /\ LumiNeeds(lumis[l]) = "events" /\ InHand
      /\ \A r \in DOMAIN runs : RunNeeds(runs[r]) = "nothing"
      /\ \A k \in DOMAIN lumis \ {l} : LumiNeeds(lumis[k]) = "nothing"
  BY StreamReads DEF SourceThrows
<1>2. UNCHANGED <<inputVars, runs, lumis, log>> /\ failed' /\ (UNCHANGED src \/ src' \in NextForStream)
  BY DEF SourceThrows, TryAndTell
<1>3. SourceTyped'
  <2>1. CASE UNCHANGED src
    BY <1>2, <2>1 DEF Reads, SourceTyped, inputVars
  <2>2. CASE src' \in NextForStream
    BY <1>1, <1>2, <2>2, NextFound DEF Reads, inputVars
  <2> QED
    BY <1>2, <2>1, <2>2
<1>4. InOrder'
  BY <1>2 DEF Reads, InOrder, inputVars
<1>5. Found'
  BY <1>1, <1>2, ByNobody DEF Streaming
<1> QED
  BY <1>3, <1>4, <1>5 DEF Goes

(* The first stream to find the end of its luminosity block, with none to  *)
(* follow it.                                                              *)
LEMMA LumiStops ==
  ASSUME Reads, NEW s \in Streams, stream[s].doing = "next", ~Over(s),
         lumis[stream[s].lumi].state = "processing", StopLumi(s),
         ~(src'.kind = "Lumi" /\ ~failed), ~Streaming' \/ ForMain'
  PROVE  Found'
<1> DEFINE l == stream[s].lumi
<1>1. /\ l \in DOMAIN lumis /\ lumis[l].run \in DOMAIN runs /\ lumis[l].phase = "open"
      /\ ~lumis[l].noMore
  BY ReaderFacts DEF Reads, Over
<1>2. /\ \A r \in DOMAIN runs : RunNeeds(runs[r]) = "nothing"
      /\ \A k \in DOMAIN lumis \ {l} : LumiNeeds(lumis[k]) = "nothing"
  BY <1>1, LumiAlone DEF Reads, Current
<1>3. PICK ls : Stops(s, ls)
  BY StopLumiFacts DEF Reads, Does, Over
<1>4. DOMAIN lumis' = DOMAIN lumis
  BY DEF StopLumi, Over
<1>5. /\ lumis' = ls /\ RunMoves(runs', lumis[l].run, "endSync")
      /\ \A k \in DOMAIN lumis \ {l} : ls[k] = lumis[k]
      /\ ls[l].phase = "open" /\ ls[l].noMore
  BY <1>1, <1>3, <1>4 DEF Stops, LumiMade, LumiTo
<1>6. DOMAIN runs' = DOMAIN runs /\ \A r \in DOMAIN runs : RunNeeds(runs'[r]) = "nothing"
  BY <1>2, <1>5 DEF RunMoves, RunTo, RunNeeds
<1>7. LumiNeeds(lumis'[l]) = "nothing" /\ \A k \in DOMAIN lumis \ {l} : lumis'[k] = lumis[k]
  BY <1>5 DEF LumiNeeds
<1> HIDE DEF l
<1> QED
  BY <1>1, <1>2, <1>4, <1>6, <1>7, NobodyAfterLumi DEF Reads

(* ... or with the next one at hand.                                       *)
LEMMA LumiFollows ==
  ASSUME Reads, NEW s \in Streams, stream[s].doing = "next", ~Over(s),
         lumis[stream[s].lumi].state = "processing", StopLumi(s),
         src'.kind = "Lumi", ~failed, AtHand',
         Item'.run = NumOfRun(stream[s].lumi)
  PROVE  Found'
<1> DEFINE l == stream[s].lumi
<1>1. l \in DOMAIN lumis /\ lumis[l].run \in DOMAIN runs
  BY ReaderFacts DEF Reads
<1>2. PICK ls : Stops(s, ls)
  BY StopLumiFacts DEF Reads, Does, Over
<1>3. /\ UNCHANGED runs
      /\ lumis' = Append([lumis EXCEPT ![l].state = "stop", ![l].noMore = TRUE,
                                       ![l].toEnd = lumis[l].joined, ![l].started = TRUE],
                         NewLumi(lumis[l].run, input[src'.pos].lumi))
  BY DEF StopLumi, Over
<1>4. LumiMade(ls, lumis[l].run) /\ Len(ls) = Len(lumis) /\ UNCHANGED input
  <2>1. lumis' # ls \/ ~RunMoves(runs', lumis[l].run, "endSync")
    <3>1. runs[lumis[l].run].phase = "open"
      BY ReaderFacts DEF Reads, Over
    <3> QED
      BY <3>1, <1>3 DEF RunMoves, RunTo
  <2> QED
    BY <1>2, <2>1 DEF Stops, LumiTo, Reads, inputVars
<1> DEFINE es == [lumis EXCEPT ![l].state = "stop", ![l].noMore = TRUE,
                               ![l].toEnd = lumis[l].joined, ![l].started = TRUE]
<1>5. IsList(es) /\ Len(es) = Len(lumis)
  <2>1. es \in [DOMAIN lumis -> {es[q] : q \in DOMAIN lumis}] /\ IsList(lumis)
    BY InList DEF Reads
  <2> QED
    BY <2>1, UpdateFacts
<1> PICK k : k = Len(lumis) + 1
  OBVIOUS
<1>6. lumis'[k] = NewLumi(lumis[l].run, input[src'.pos].lumi)
  <2>1. lumis' = Append(es, NewLumi(lumis[l].run, input[src'.pos].lumi))
    BY <1>3
  <2> HIDE DEF es
  <2> QED
    BY <1>5, <2>1, ListFacts DEF IsList
<1>7. /\ k \in DOMAIN lumis' /\ lumis'[k].phase = "sync" /\ lumis'[k].run = lumis[l].run
      /\ lumis'[k].num = Item'.lumi
  BY <1>4, <1>6 DEF LumiMade, NewLumi, Item
<1>8. LumiFinds(k)' /\ LumiNeeds(lumis'[k]) # "nothing"
  BY <1>3, <1>7 DEF LumiFinds, LumiNeeds, NumOfRun
<1> QED
  BY <1>7, <1>8, ByLumi DEF Reads

LEMMA NoEventGoes ==
  ASSUME Reads, NEW s \in Streams, NoEvent(s)
  PROVE  Goes
<1> DEFINE l == stream[s].lumi
<1>1. /\ stream[s].doing = "next" /\ l \in DOMAIN lumis /\ lumis[l].run \in DOMAIN runs
      /\ lumis[l].phase = "open" /\ (lumis[l].started => lumis[l].state = "stop")
  BY AtSourceFacts, ReaderFacts DEF Reads, SourceTask, NoEvent
<1>2. UNCHANGED <<inputVars, failed, log>> /\ InOrder'
  BY DEF NoEvent, Reads, InOrder, inputVars
<1>3. CASE ~MayRead(s) /\ UNCHANGED src /\ Pausing(l) /\ PauseLumi(s)
  <2>1. ~Over(s) /\ lumis[l].state = "pause"
    BY <1>1, <1>3 DEF Over, Pausing
  <2>2. Pauses(s)
    BY <1>1, <1>3, <2>1, PauseLumiFacts DEF Reads
  <2>3. /\ \A t \in Streams \ {s} : stream'[t] = stream[t] /\ stream'[s].lumi = l
        /\ DOMAIN runs' = DOMAIN runs
        /\ \A r \in DOMAIN runs : runs'[r].num = runs[r].num /\ RunNeeds(runs'[r]) = RunNeeds(runs[r])
    BY <1>1, <2>2 DEF Pauses, StreamDoes, StreamTo, RunMoves, RunTo, RunNeeds
  <2>4. stream'[s].lumi = l
    BY <2>2 DEF Pauses, StreamDoes, StreamTo
  <2>5. /\ DOMAIN lumis' = DOMAIN lumis
        /\ \A k \in DOMAIN lumis : /\ lumis'[k].num = lumis[k].num /\ lumis'[k].run = lumis[k].run
                                   /\ LumiNeeds(lumis'[k]) = LumiNeeds(lumis[k])
    BY <1>1, <2>1, <2>2 DEF Pauses, LumiTo, LumiNeeds
  <2>6. LumiNeeds(lumis[l]) # "events"
    BY <1>1, <2>1 DEF LumiNeeds
  <2> HIDE DEF l
  <2>7. \A t \in Streams \ {s} : stream'[t] = stream[t]
    BY <2>2 DEF Pauses, StreamDoes, StreamTo
  <2> QED
    BY <1>2, <1>3, <2>3, <2>4, <2>5, <2>6, <2>7, StreamStays
<1>4. CASE ~MayRead(s) /\ UNCHANGED src /\ ~Pausing(l) /\ StopLumi(s)
  <2>1. CASE Over(s)
    <3>1. Does(s, "endLumi")
      BY <1>1, <1>4, <2>1, StopLumiFacts DEF Reads, Pausing, Stops
    <3> QED
      BY <1>2, <1>4, <3>1, DoesGoes
  <2>2. CASE ~Over(s)
    <3>1. failed /\ lumis[l].state = "processing"
      BY <1>1, <1>4, <2>2 DEF Pausing, MayRead, Over, Reads, Numbers
    <3>2. Found'
      BY <1>1, <1>2, <1>4, <2>2, <3>1, LumiStops DEF Streaming
    <3> QED
      BY <1>2, <1>4, <3>2, SourceSame DEF Goes
  <2> QED
    BY <2>1, <2>2
<1>5. CASE MayRead(s)
  <2>1. /\ ~Over(s) /\ InHand /\ Fits(l) /\ lumis[l].state = "processing" /\ ~failed
        /\ \A r \in DOMAIN runs : RunNeeds(runs[r]) = "nothing"
        /\ \A k \in DOMAIN lumis \ {l} : LumiNeeds(lumis[k]) = "nothing"
    BY <1>5, StreamReads DEF NoEvent, Over, Streaming
  <2>2. CASE mayStop /\ src' = [src EXCEPT !.kind = "Stop"] /\ StopLumi(s)
    <3>1. SourceTyped' /\ src'.kind = "Stop" /\ mayStop'
      BY <1>2, <2>2 DEF Reads, SourceTyped, inputVars, Kinds
    <3>2. ForMain'
      BY <3>1 DEF ForMain
    <3>3. Found'
      BY <1>1, <2>1, <2>2, <3>1, <3>2, LumiStops
    <3> QED
      BY <1>2, <3>1, <3>3 DEF Goes
  <2>3. CASE /\ src' \in NextForStream /\ src'.kind # "Event"
             /\ IF EndsLumi(src', l) THEN StopLumi(s) ELSE PauseLumi(s)
    <3>1. /\ SourceTyped' /\ src'.pos = Len(log) + 1 /\ AtHand'
          /\ src'.kind = input[Len(log) + 1].kind \/ (src'.kind = "Stop" /\ mayStop)
      BY <1>2, <2>1, <2>3, NextFound DEF Reads, inputVars
    <3>2. src'.kind \in Kinds
      BY <3>1 DEF SourceTyped
    <3>3. CASE EndsLumi(src', l) /\ src'.kind = "Lumi"
      <4>1. Item'.run = NumOfRun(l)
        BY <1>2, <2>1, <3>1, <3>3 DEF Fits, Item, inputVars
      <4>2. Found'
        BY <1>1, <2>1, <2>3, <3>1, <3>3, <4>1, LumiFollows
      <4> QED
        BY <1>2, <3>1, <4>2 DEF Goes
    <3>4. CASE src'.kind # "Lumi"
      <4>1. ForMain'
        BY <2>3, <3>1, <3>2, <3>4 DEF ForMain, Kinds
      <4>2. CASE EndsLumi(src', l)
        <5>1. Found'
          BY <1>1, <2>1, <2>3, <3>4, <4>1, <4>2, LumiStops
        <5> QED
          BY <1>2, <3>1, <5>1 DEF Goes
      <4>3. CASE ~EndsLumi(src', l)
        <5>1. Pauses(s)
          BY <1>1, <2>1, <2>3, <4>3, PauseLumiFacts DEF Reads
        <5>2. /\ DOMAIN lumis' = DOMAIN lumis /\ \A k \in DOMAIN lumis \ {l} : lumis'[k] = lumis[k]
              /\ LumiNeeds(lumis'[l]) = "nothing"
          BY <1>1, <5>1 DEF Pauses, LumiTo, LumiNeeds
        <5>3. DOMAIN runs' = DOMAIN runs /\ \A r \in DOMAIN runs : RunNeeds(runs'[r]) = "nothing"
          BY <2>1, <5>1 DEF Pauses, RunMoves, RunTo, RunNeeds
        <5> HIDE DEF l
        <5>4. Found'
          BY <1>1, <2>1, <4>1, <5>2, <5>3, NobodyAfterLumi DEF Reads
        <5> QED
          BY <1>2, <3>1, <5>4 DEF Goes
      <4> QED
        BY <4>2, <4>3
    <3>5. src'.kind = "Lumi" => EndsLumi(src', l)
      BY DEF EndsLumi
    <3> QED
      BY <3>3, <3>4, <3>5
  <2> QED
    BY <1>5, <2>2, <2>3 DEF NoEvent
<1> QED
  BY <1>3, <1>4, <1>5 DEF NoEvent

LEMMA TaskStepGoes ==
  ASSUME Reads, TaskStep
  PROVE  Goes
<1>1. ASSUME NEW r \in DOMAIN runs, RunStep(r) PROVE Goes
  BY <1>1, SyncRunGoes, StartRunGoes, ReadRunGoes, MergeRunGoes, GlobalBeginRunGoes, NextItemGoes,
     SyncEndRunGoes, GlobalEndRunGoes DEF RunStep
<1>2. ASSUME NEW l \in DOMAIN lumis, LumiStep(l) PROVE Goes
  BY <1>2, SyncLumiGoes, StartLumiGoes, ReadLumiGoes, MergeLumiGoes, GlobalBeginLumiGoes,
     GlobalEndLumiGoes DEF LumiStep
<1>3. ASSUME NEW s \in Streams, StreamStep(s) PROVE Goes
  BY <1>3, StreamTakeGoes, StreamBeginRunGoes, StreamReadyGoes, ReadEventGoes, SourceThrowsGoes,
     NoEventGoes, StreamEndLumiGoes, StreamEndRunGoes DEF StreamStep
<1> QED
  BY <1>1, <1>2, <1>3 DEF TaskStep

-----------------------------------------------------------------------------
(* The main thread.                                                        *)

LEMMA FoundUnlessWait == JobInv /\ ~Call("wait") => Found
<1> SUFFICES ASSUME JobInv, ~Call("wait") PROVE Found
  OBVIOUS
<1>1. ~Streaming
  BY DEF Streaming
<1>2. CASE ~Busy
  <2>1. \A r \in DOMAIN runs : RunNeeds(runs[r]) = "nothing"
    BY <1>2 DEF Busy, RunNeeds
  <2>2. \A l \in DOMAIN lumis : LumiNeeds(lumis[l]) \in {"nothing", "events"}
    BY <1>2 DEF Busy, LumiNeeds
  <2> QED
    BY <1>1, <2>1, <2>2, FoundByNobody
<1>3. CASE Busy
  <2>1. Call("waitEnd")
    BY <1>3 DEF JobInv, MainInTurn, Waiting, Call
  <2>2. PICK p \in Plans : \E i \in 1..Len(p) : At(p, i) /\ p[i] = "waitEnd"
    BY <2>1, HereNow DEF JobInv, Call
  <2> PICK i \in 1..Len(p) : At(p, i) /\ p[i] = "waitEnd"
    BY <2>2
  <2>3. p \in {EndJob, OpenBoth} /\ i \in {2, 4}
    BY Places
  <2>4. EndingLumi \/ EndingRun
    BY <2>3 DEF At
  <2>5. \A r \in DOMAIN runs : RunNeeds(runs[r]) = "nothing"
    BY <2>4 DEF EndingLumi, EndingRun, RunNeeds
  <2>6. \A l \in DOMAIN lumis : LumiNeeds(lumis[l]) = "nothing"
    BY <2>4 DEF EndingLumi, EndingRun, NoLumi, LumiNeeds, Coming
  <2> QED
    BY <1>1, <2>5, <2>6, FoundByNobody
<1> QED
  BY <1>2, <1>3

LEMMA FoundUnlessWaitThen == JobInv' /\ ~Call("wait")' => Found'
<1>1. (JobInv /\ ~Call("wait") => Found)'
  BY FoundUnlessWait, PTL
<1> QED
  BY <1>1

(* Nobody reads the source while the runs are ended.                       *)
LEMMA SourceUntouched ==
  ASSUME JobInv, TaskStep, ~Call("wait")
  PROVE  UNCHANGED <<src, log>>
<1>1. Call("waitEnd")
  BY QuietStep DEF JobInv, MainInTurn, Waiting, Call
<1>2. PICK p \in Plans : \E i \in 1..Len(p) : At(p, i) /\ p[i] = "waitEnd"
  BY <1>1, HereNow DEF JobInv, Call
<1>3. EndingLumi \/ EndingRun
  BY <1>2, Places DEF At
<1>4. ASSUME NEW x, AtSource(x) PROVE FALSE
  <2>1. SourceTask(x)
    BY <1>4, AtSourceFacts DEF JobInv
  <2>2. EndingRun
    BY <1>3, <1>4 DEF EndingLumi, AtSource
  <2>3. \A s \in Streams : stream[s].doing # "next"
    BY <2>2, NoLumiFacts, PlaceFacts DEF JobInv, EndingRun
  <2> QED
    BY <2>1, <2>2, <2>3 DEF SourceTask, EndingRun, NoLumi
<1>5. ASSUME NEW r \in DOMAIN runs, RunStep(r) PROVE UNCHANGED <<src, log>>
  <2>1. ~ReadRun(r) /\ ~MergeRun(r) /\ ~NextItem(r)
    BY <1>4 DEF ReadRun, MergeRun, NextItem
  <2> QED
    BY <1>5, <2>1 DEF RunStep, SyncRun, StartRun, GlobalBeginRun, SyncEndRun, GlobalEndRun
<1>6. ASSUME NEW l \in DOMAIN lumis, LumiStep(l) PROVE UNCHANGED <<src, log>>
  <2>1. ~ReadLumi(l) /\ ~MergeLumi(l)
    BY <1>4 DEF ReadLumi, MergeLumi
  <2> QED
    BY <1>6, <2>1 DEF LumiStep, SyncLumi, StartLumi, GlobalBeginLumi, GlobalEndLumi
<1>7. ASSUME NEW s \in Streams, StreamStep(s) PROVE UNCHANGED <<src, log>>
  <2>1. ~ReadEvent(s) /\ ~SourceThrows(s) /\ ~NoEvent(s)
    BY <1>4 DEF ReadEvent, SourceThrows, NoEvent
  <2> QED
    BY <1>7, <2>1 DEF StreamStep, StreamTake, StreamBeginRun, StreamReady, StreamResume,
                      StreamEndLumi, StreamEndRun
<1> QED
  BY <1>5, <1>6, <1>7 DEF TaskStep

(* What the plans hold.                                                    *)
LEMMA PlanHas ==
  /\ \A p \in {EndJob, CloseInput, CloseAll} : \A i \in DOMAIN p :
       p[i] \notin {"readFile", "next", "wait", "processRuns"}
  /\ \A p \in {OpenFirst, OpenInput, OpenBoth} :
       /\ \E i \in DOMAIN p : p[i] = "readFile"
       /\ \E i \in DOMAIN p : p[i] = "next"
       /\ \A i \in DOMAIN p : p[i] \notin {"wait", "processRuns"}
  /\ \A i \in DOMAIN Process : Process[i] \in {"processRuns", "wait"}
  /\ \E i \in DOMAIN Process : Process[i] = "wait"
<1>1. \A p \in Plans : DOMAIN p = 1..Len(p) /\ Len(p) \in Nat
  BY PlanSeq
<1>2. /\ EndJob \in Plans /\ CloseInput \in Plans /\ CloseAll \in Plans /\ OpenFirst \in Plans
      /\ OpenInput \in Plans /\ OpenBoth \in Plans /\ Process \in Plans
  BY DEF Plans
<1>3. \A p \in {EndJob, CloseInput, CloseAll} : \A i \in DOMAIN p :
        p[i] \notin {"readFile", "next", "wait", "processRuns"}
  <2>1. \A i \in 1..5 : EndJob[i] \notin {"readFile", "next", "wait", "processRuns"}
    BY PlanFacts
  <2>2. \A i \in 1..2 : CloseInput[i] \notin {"readFile", "next", "wait", "processRuns"}
    BY PlanFacts
  <2>3. \A i \in 1..4 : CloseAll[i] \notin {"readFile", "next", "wait", "processRuns"}
    BY PlanFacts
  <2>4. Len(EndJob) = 5 /\ Len(CloseInput) = 2 /\ Len(CloseAll) = 4
    BY PlanFacts
  <2>5. DOMAIN EndJob = 1..5 /\ DOMAIN CloseInput = 1..2 /\ DOMAIN CloseAll = 1..4
    BY <1>1, <1>2, <2>4
  <2> QED
    BY <2>1, <2>2, <2>3, <2>5
<1>4. ASSUME NEW p \in {OpenFirst, OpenInput, OpenBoth}
      PROVE  /\ \E i \in DOMAIN p : p[i] = "readFile"
             /\ \E i \in DOMAIN p : p[i] = "next"
             /\ \A i \in DOMAIN p : p[i] \notin {"wait", "processRuns"}
  <2>1. p \in Plans /\ DOMAIN p = 1..Len(p) /\ Len(p) \in Nat
    BY <1>1, <1>2
  <2>2. (\E i \in 1..Len(p) : p[i] = "readFile") /\ (\E i \in 1..Len(p) : p[i] = "next")
    <3>1. CASE p = OpenFirst
      BY <3>1, PlanFacts
    <3>2. CASE p = OpenInput
      BY <3>2, PlanFacts
    <3>3. CASE p = OpenBoth
      BY <3>3, PlanFacts
    <3> QED
      BY <3>1, <3>2, <3>3
  <2>3. p # Process
    BY PlanFacts
  <2>4. \A i \in 1..Len(p) : p[i] \notin {"wait", "processRuns"}
    BY <2>1, <2>3, Places
  <2> QED
    BY <2>1, <2>2, <2>4
<1>5. DOMAIN Process = 1..2 /\ Process[1] = "processRuns" /\ Process[2] = "wait"
  BY DEF Process
<1> QED
  BY <1>3, <1>4, <1>5

(* The main thread is done with the source.                                *)
LEMMA DoneFinds ==
  ASSUME todo' \in {EndJob, CloseInput, CloseAll, <<>>},
         throws' = 0 /\ ~mayStop' => Len(log') = Len(input') - 1
  PROVE  MainFinds'
<1>1. \A i \in DOMAIN todo' : todo'[i] \notin {"readFile", "next", "wait", "processRuns"}
  <2>1. CASE todo' \in {EndJob, CloseInput, CloseAll}
    BY <2>1, PlanHas
  <2>2. CASE todo' = <<>>
    BY <2>2
  <2> QED
    BY <2>1, <2>2
<1>2. ~ToDo("readFile")' /\ ~ToDo("next")' /\ ~ToDo("wait")'
  BY <1>1 DEF ToDo
<1>3. ~Call("processRuns")'
  <2>1. todo' # <<>> => 1 \in DOMAIN todo' /\ Head(todo') = todo'[1]
    <3>1. todo' \in Seq(Calls)
      <4>1. CASE todo' \in Plans
        BY <4>1, PlanSeq
      <4>2. CASE todo' = <<>>
        BY <4>2
      <4> QED
        BY <4>1, <4>2 DEF Plans
    <3> QED
      BY <3>1
  <2> QED
    BY <1>1, <2>1 DEF Call
<1> QED
  BY <1>2, <1>3 DEF MainFinds

(* It goes on with the item at hand.                                       *)
LEMMA DispatchFinds ==
  ASSUME NEW kind, kind = src'.kind, todo' = Dispatch(kind),
         kind = "File" => src'.pos = Len(log') + 1 /\ input'[src'.pos].kind = "File",
         kind = "Run" => AtHand',
         kind \notin {"File", "Run"} => (throws' = 0 /\ ~mayStop' => Len(log') = Len(input') - 1)
  PROVE  MainFinds'
<1>0. \A p \in {OpenFirst, OpenInput, OpenBoth} : Head(p) # "processRuns"
  <2> SUFFICES ASSUME NEW p \in {OpenFirst, OpenInput, OpenBoth} PROVE Head(p) # "processRuns"
    OBVIOUS
  <2>0. p \in Plans
    BY DEF Plans
  <2>1. p \in Seq(Calls) /\ Len(p) \in 1..15 /\ DOMAIN p = 1..Len(p)
    BY <2>0, PlanSeq
  <2>2. 1 \in DOMAIN p /\ Head(p) = p[1]
    BY <2>1
  <2> QED
    BY <2>2, PlanHas
<1>1. CASE kind = "File"
  <2>1. todo' \in {OpenFirst, OpenInput, OpenBoth}
    BY <1>1, Zenon DEF Dispatch
  <2>2. ToDo("readFile")' /\ ToDo("next")'
    BY <2>1, PlanHas, Zenon DEF ToDo
  <2>3. ~Call("processRuns")'
    BY <2>1, <1>0 DEF Call
  <2> QED
    BY <1>1, <2>2, <2>3 DEF MainFinds
<1>2. CASE kind = "Run"
  <2>1. todo' = Process
    BY <1>2 DEF Dispatch, Process
  <2>2. ~ToDo("readFile")' /\ ~ToDo("next")' /\ ToDo("wait")'
    BY <2>1, PlanHas DEF ToDo
  <2> QED
    BY <1>2, <2>2 DEF MainFinds
<1>3. CASE kind \notin {"File", "Run"}
  <2>1. todo' = EndJob
    BY <1>3 DEF Dispatch
  <2> QED
    BY <1>3, <2>1, DoneFinds
<1> QED
  BY <1>1, <1>2, <1>3

(* Merging goes on after a file, from the item at hand.                    *)
MergedOn(p, s, kind, n, m, t) ==
  /\ p + m < Len(input) /\ \A i \in 1..m : SameEntry(p + i, kind, n)
  /\ t \in [pos : 0..Len(input), kind : Kinds, needNext : BOOLEAN]
  /\ t.pos = p + m + 1 /\ ~t.needNext
  /\ t.kind = input[p + m + 1].kind \/ (t.kind = "Stop" /\ mayStop)
  /\ m > 0 => s.kind = kind

LEMMA MergeContinues ==
  ASSUME input \in Inputs, NEW s \in [pos : 0..Len(input), kind : Kinds, needNext : BOOLEAN],
         NEW kind \in {"Run", "Lumi"}, NEW n, NEW p \in 0..(Len(input) - 1), p = s.pos - 1,
         NEW o \in MergeOutcomes(s, kind, n, TRUE)
  PROVE  \E m \in Nat : /\ o.entries = [i \in 1..m |-> p + i]
                        /\ Merged(p, kind, n, s, TRUE, m, o.src)
<1>1. TRUE \in BOOLEAN
  OBVIOUS
<1>2. p = IF TRUE THEN s.pos - 1 ELSE s.pos
  OBVIOUS
<1> QED
  BY <1>1, <1>2, MergeFacts

LEMMA MergeOn ==
  ASSUME input \in Inputs, NEW s \in [pos : 0..Len(input), kind : Kinds, needNext : BOOLEAN],
         NEW p \in 0..(Len(input) - 1), s.pos = p + 1,
         s.kind = input[p + 1].kind \/ (s.kind = "Stop" /\ mayStop),
         NEW kind \in {"Run", "Lumi"}, NEW n, NEW o \in MergeOutcomes(s, kind, n, TRUE)
  PROVE  \E m \in Nat : o.entries = [i \in 1..m |-> p + i] /\ MergedOn(p, s, kind, n, m, o.src)
<1>0. Len(input) \in Nat \ {0} /\ DOMAIN input = 1..Len(input) /\ s.pos - 1 = p
      /\ \A i \in DOMAIN input : input[i].kind \in Kinds
  BY InputFacts
<1>1. p = s.pos - 1
  BY <1>0
<1>2. PICK m \in Nat : /\ o.entries = [i \in 1..m |-> p + i]
                       /\ Merged(p, kind, n, s, TRUE, m, o.src)
  BY <1>1, MergeContinues
<1>3. o.entries = [i \in 1..m |-> p + i] /\ Merged(p, kind, n, s, TRUE, m, o.src)
  BY <1>2
<1>4. p + m < Len(input) /\ \A i \in 1..m : SameEntry(p + i, kind, n)
  BY <1>3 DEF Merged
<1>5. p + m + 1 \in DOMAIN input /\ p + m + 1 \in 0..Len(input)
  BY <1>0, <1>4
<1> PICK t : t = o.src
  OBVIOUS
<1>6. CASE s.kind # kind /\ m = 0 /\ t = [s EXCEPT !.needNext = FALSE]
  <2>1. t \in [pos : 0..Len(input), kind : Kinds, needNext : BOOLEAN]
        /\ t.pos = s.pos /\ t.kind = s.kind /\ ~t.needNext
    BY <1>6
  <2>2. p + m + 1 = p + 1
    BY <1>0, <1>6
  <2>3. MergedOn(p, s, kind, n, m, t)
    BY <1>0, <1>4, <1>6, <2>1, <2>2 DEF MergedOn
  <2> QED
    BY <1>3, <2>3
<1>7. CASE /\ s.kind = kind
           /\ \E k \in {input[p + m + 1].kind} \cup (IF mayStop THEN {"Stop"} ELSE {}) :
                t = [pos |-> p + m + 1, kind |-> k, needNext |-> FALSE]
  <2>1. PICK k \in {input[p + m + 1].kind} \cup (IF mayStop THEN {"Stop"} ELSE {}) :
                t = [pos |-> p + m + 1, kind |-> k, needNext |-> FALSE]
    BY <1>7
  <2>2. k \in Kinds /\ (k = input[p + m + 1].kind \/ (k = "Stop" /\ mayStop))
    BY <1>0, <1>5, <2>1 DEF Kinds
  <2>3. /\ t \in [pos : 0..Len(input), kind : Kinds, needNext : BOOLEAN]
        /\ t.pos = p + m + 1 /\ t.kind = k /\ ~t.needNext
    BY <1>5, <2>1, <2>2
  <2>4. MergedOn(p, s, kind, n, m, t)
    BY <1>4, <1>7, <2>2, <2>3 DEF MergedOn
  <2> QED
    BY <1>3, <2>4
<1> QED
  BY <1>3, <1>6, <1>7 DEF Merged

LEMMA NextOfRunThen ==
  ASSUME NEW n
  PROVE  SourceTyped' /\ InOrder' /\ LastWas("Run", n)'
         => /\ input'[Len(log') + 1].kind \in Kinds \ {"Event"}
            /\ input'[Len(log') + 1].kind = "Lumi" => input'[Len(log') + 1].run = n
<1>1. SourceTyped /\ InOrder /\ LastWas("Run", n)
      => /\ input[Len(log) + 1].kind \in Kinds \ {"Event"}
         /\ input[Len(log) + 1].kind = "Lumi" => input[Len(log) + 1].run = n
  BY NextOfRun
<1>2. (SourceTyped /\ InOrder /\ LastWas("Run", n)
       => /\ input[Len(log) + 1].kind \in Kinds \ {"Event"}
          /\ input[Len(log) + 1].kind = "Lumi" => input[Len(log) + 1].run = n)'
  BY <1>1, PTL
<1> QED
  BY <1>2

(* A run is begun.                                                         *)
LEMMA BeginRunsGoes ==
  ASSUME JobInv, JobInv', SourceInv, BeginRuns
  PROVE  Goes
<1>1. AtHand /\ src.kind = "Run"
  BY DEF SourceInv, MainFinds, BeginRuns
<1>2. runs' = Append(runs, NewRun(Item.run)) /\ UNCHANGED <<input, mayStop, src, log>>
  BY DEF BeginRuns, BeginRunAsync, inputVars
<1>3. SourceTyped' /\ InOrder' /\ AtHand'
  BY <1>1, <1>2 DEF SourceInv, SourceTyped, InOrder, AtHand, Item
<1> PICK q : q = Len(runs) + 1
  OBVIOUS
<1>4. q \in DOMAIN runs' /\ runs'[q].num = Item.run /\ runs'[q].phase = "sync"
  BY <1>2, InList DEF NewRun, IsList, JobInv
<1>5. RunFinds(q)' /\ RunNeeds(runs'[q]) # "nothing"
  BY <1>1, <1>2, <1>3, <1>4 DEF RunNeeds, RunFinds, Item
<1>6. Found'
  BY <1>4, <1>5, ByRun DEF JobInv
<1> QED
  BY <1>3, <1>6 DEF Goes

(* The entries of the run, from the item at hand.                          *)
RunGets(n, m, o) ==
  /\ o.entries = [i \in 1..m |-> Len(log) + i]
  /\ MergedOn(Len(log), src, "Run", n, m, o.src)
  /\ \A i \in 1..m : input[Len(log) + i].run = n /\ input[Len(log) + i].lumi = 0
  /\ m = 0 => o.src.kind \in {"Run", "Stop"}
  /\ Len(log) \in Nat /\ Len(input) \in Nat /\ DOMAIN input = 1..Len(input)

LEMMA RunMerged ==
  ASSUME SourceTyped, InOrder, AtHand, src.kind = "Run", NEW n,
         NEW o \in MergeOutcomes(src, "Run", n, TRUE)
  PROVE  \E m \in Nat : RunGets(n, m, o)
<1>1. /\ input \in Inputs /\ src \in [pos : 0..Len(input), kind : Kinds, needNext : BOOLEAN]
      /\ Len(input) \in Nat /\ DOMAIN input = 1..Len(input)
  BY InputFacts DEF SourceTyped
<1> PICK p : p = Len(log)
  OBVIOUS
<1>2. /\ p \in 0..(Len(input) - 1) /\ p \in Nat /\ src.pos = p + 1
      /\ src.kind = input[p + 1].kind
  BY <1>1 DEF AtHand, InOrder, Item
<1>3. PICK m \in Nat : o.entries = [i \in 1..m |-> p + i] /\ MergedOn(p, src, "Run", n, m, o.src)
  BY <1>1, <1>2, MergeOn
<1>4. ASSUME NEW i \in 1..m PROVE input[p + i].run = n /\ input[p + i].lumi = 0
  <2>1. p + i \in DOMAIN input /\ SameEntry(p + i, "Run", n)
    <3>1. p + m < Len(input) /\ SameEntry(p + i, "Run", n)
      BY <1>3 DEF MergedOn
    <3> QED
      BY <1>1, <1>2, <3>1
  <2> QED
    BY <1>1, <2>1, InputFacts DEF SameEntry
<1>5. ASSUME m = 0 PROVE o.src.kind \in {"Run", "Stop"}
  <2>1. p + m + 1 = p + 1
    BY <1>2, <1>5
  <2> QED
    BY <1>2, <1>3, <2>1 DEF MergedOn
<1> QED
  BY <1>1, <1>2, <1>3, <1>4, <1>5 DEF RunGets

(* What the next item is, when the entries of the run are merged.          *)
LEMMA AfterRunMerged ==
  ASSUME SourceTyped', InOrder', UNCHANGED <<input, mayStop>>, NEW n, NEW p \in Nat, NEW m \in Nat,
         DOMAIN input = 1..Len(input), Len(input) \in Nat, Len(log') = p + m, NEW s,
         MergedOn(p, s, "Run", n, m, src'), m = 0 => src'.kind \in {"Run", "Stop"}
  PROVE  /\ AtHand' /\ src'.kind \in Kinds \ {"Event"}
         /\ src'.kind = "Lumi" => Item'.run = n
<1>1. /\ src'.pos = p + m + 1 /\ p + m < Len(input) /\ src'.kind \in Kinds
      /\ src'.kind = input[p + m + 1].kind \/ (src'.kind = "Stop" /\ mayStop)
      /\ \A i \in 1..m : SameEntry(p + i, "Run", n)
  BY DEF MergedOn
<1>2. AtHand' /\ src'.pos = Len(log') + 1
  BY <1>1 DEF AtHand, Item
<1>3. CASE m = 0
  BY <1>1, <1>2, <1>3 DEF Kinds
<1>4. CASE m # 0
  <2>1. p + m \in DOMAIN input /\ SameEntry(p + m, "Run", n)
    BY <1>1, <1>4
  <2>2. LastWas("Run", n)'
    BY <2>1, LastIs
  <2>3. /\ input'[src'.pos].kind \in Kinds \ {"Event"}
        /\ input'[src'.pos].kind = "Lumi" => input'[src'.pos].run = n
    BY <1>2, <2>2, NextOfRunThen
  <2> QED
    BY <1>1, <1>2, <2>3 DEF Item, Kinds
<1> QED
  BY <1>3, <1>4

(* ContinueRun with no luminosity block.                                   *)
LEMMA RunGoesOnGoes ==
  ASSUME TaskInv, TaskInv', SourceTyped, InOrder, AtHand, src.kind = "Run",
         UNCHANGED <<input, mayStop>>, NEW r, AllIn(r, 0), r # 0,
         NEW n, n = runs[r].num, NEW o \in MergeOutcomes(src, "Run", n, TRUE),
         src' = o.src, Handled(o.entries, n, 0),
         AfterRunEntries([runs EXCEPT ![r].holds = TRUE], r)
  PROVE  Goes
<1>1. /\ r \in DOMAIN runs /\ RunRecord(runs[r]) /\ runs[r].phase = "open"
      /\ \A q \in DOMAIN runs \ {r} : runs[q].phase \in {"closed", "dropped"}
      /\ \A k \in DOMAIN lumis : lumis[k].phase \in {"closed", "dropped"}
  BY InList DEF AllIn
<1>0. PICK m \in Nat : RunGets(n, m, o)
  BY RunMerged
<1>2. /\ o.entries = [i \in 1..m |-> Len(log) + i]
      /\ MergedOn(Len(log), src, "Run", n, m, o.src)
      /\ \A i \in 1..m : input[Len(log) + i].run = n /\ input[Len(log) + i].lumi = 0
      /\ m = 0 => o.src.kind \in {"Run", "Stop"}
      /\ Len(log) \in Nat /\ Len(input) \in Nat /\ DOMAIN input = 1..Len(input)
  BY <1>0 DEF RunGets
<1>3. Len(log) + m < Len(input) /\ src' \in [pos : 0..Len(input), kind : Kinds, needNext : BOOLEAN]
  BY <1>2 DEF MergedOn
<1>4. InOrder' /\ Len(log') = Len(log) + m
  BY <1>2, <1>3, MergedHandled
<1>5. SourceTyped'
  BY <1>3 DEF SourceTyped
<1> PICK p \in Nat : p = Len(log)
  BY <1>2
<1>6. AtHand' /\ src'.kind \in Kinds \ {"Event"} /\ (src'.kind = "Lumi" => Item'.run = n)
  BY <1>2, <1>4, <1>5, AfterRunMerged
<1> PICK rs : rs = [runs EXCEPT ![r].holds = TRUE]
  OBVIOUS
<1>7. /\ rs \in [DOMAIN runs -> {rs[q] : q \in DOMAIN runs}]
      /\ \A q \in DOMAIN runs \ {r} : rs[q] = runs[q]
  BY <1>1
<1>8. /\ RunRecord(rs[r]) /\ rs[r].phase = "open" /\ rs[r].toBegin = runs[r].toBegin
      /\ rs[r].num = runs[r].num
      /\ rs[r].toEnd = runs[r].toEnd /\ rs[r].enders = runs[r].enders
  BY <1>1 DEF RunRecord, RunFields
<1>9. PICK phase \in RunPhases : RunMoves(runs', r, phase)
  <2>1. AfterRunEntries(rs, r)
    OBVIOUS
  <2> QED
    BY <1>1, <1>7, <1>8, <2>1, AfterRunEntriesFacts
<1>10. phase \in {"open", "endSync"}
  <2>1. AfterRunEntries(rs, r) /\ r \in DOMAIN rs /\ "phase" \in DOMAIN rs[r]
    BY <1>1, <1>7, <1>8 DEF RunRecord, RunFields
  <2>2. runs'[r].phase \in {"open", "endSync"}
    BY <1>8, <2>1, AfterPhase
  <2> QED
    BY <1>9, <2>2 DEF RunMoves, RunTo
<1>11. /\ \A q \in DOMAIN runs \ {r} : RunNeeds(runs[q]) = "nothing"
       /\ \A k \in DOMAIN lumis : LumiNeeds(lumis[k]) = "nothing"
  BY <1>1 DEF RunNeeds, LumiNeeds
<1>12. Found'
  BY <1>1, <1>6, <1>9, <1>10, <1>11, AfterEntries
<1> QED
  BY <1>4, <1>5, <1>12 DEF Goes

(* ContinueRun in a luminosity block: its entries follow those of the run. *)
LumiGets(n, k, m, j, o, q) ==
  /\ RunGets(n, m, o) /\ q.entries = [i \in 1..j |-> Len(log) + m + i]
  /\ MergedOn(Len(log) + m, o.src, "Lumi", k, j, q.src)
  /\ j > 0 => m > 0
  /\ \A i \in 1..j : /\ input[Len(log) + m + i].kind = "Lumi"
                     /\ input[Len(log) + m + i].run = n /\ input[Len(log) + m + i].lumi = k

LEMMA LumiMerged ==
  ASSUME SourceTyped, InOrder, AtHand, src.kind = "Run", NEW n, NEW k,
         NEW o \in MergeOutcomes(src, "Run", n, TRUE), NEW q \in MergeOutcomes(o.src, "Lumi", k, TRUE)
  PROVE  \E m \in Nat : \E j \in Nat : LumiGets(n, k, m, j, o, q)
<1>1. PICK m \in Nat : RunGets(n, m, o)
  BY RunMerged
<1>2. /\ Len(log) \in Nat /\ Len(input) \in Nat /\ DOMAIN input = 1..Len(input) /\ input \in Inputs
      /\ m = 0 => o.src.kind \in {"Run", "Stop"}
      /\ MergedOn(Len(log), src, "Run", n, m, o.src)
  BY <1>1 DEF RunGets, SourceTyped
<1> PICK p \in Nat : p = Len(log) + m
  BY <1>2
<1>3. /\ p < Len(input) /\ o.src \in [pos : 0..Len(input), kind : Kinds, needNext : BOOLEAN]
      /\ o.src.pos = p + 1 /\ (o.src.kind = input[p + 1].kind \/ (o.src.kind = "Stop" /\ mayStop))
  BY <1>2 DEF MergedOn
<1>4. p \in 0..(Len(input) - 1)
  BY <1>2, <1>3
<1>5. PICK j \in Nat : q.entries = [i \in 1..j |-> p + i] /\ MergedOn(p, o.src, "Lumi", k, j, q.src)
  BY <1>2, <1>3, <1>4, MergeOn
<1>6. /\ p + j < Len(input) /\ \A i \in 1..j : SameEntry(p + i, "Lumi", k)
      /\ j > 0 => o.src.kind = "Lumi"
  BY <1>5 DEF MergedOn
<1>7. j > 0 => m > 0
  BY <1>2, <1>6
<1>8. ASSUME NEW i \in 1..j
      PROVE  input[p + i].kind = "Lumi" /\ input[p + i].run = n /\ input[p + i].lumi = k
  <2>1. m > 0 /\ m \in 1..m /\ p \in 1..Len(input) /\ i \in 0..j
    BY <1>2, <1>4, <1>7, <1>8
  <2>2. SameEntry(Len(log) + m, "Run", n)
    BY <1>2, <2>1 DEF MergedOn
  <2>3. input[p].run = n
    BY <2>2 DEF SameEntry
  <2>4. \A h \in 1..j : input[p + h].kind = "Lumi" /\ input[p + h].lumi = k
    BY <1>6 DEF SameEntry
  <2>5. input[p + i].run = input[p].run
    BY <1>2, <1>6, <2>1, <2>4, SameRunAlong
  <2> QED
    BY <2>3, <2>4, <2>5
<1>9. /\ q.entries = [i \in 1..j |-> Len(log) + m + i]
      /\ MergedOn(Len(log) + m, o.src, "Lumi", k, j, q.src)
  BY <1>5
<1>10. \A i \in 1..j : /\ input[Len(log) + m + i].kind = "Lumi"
                       /\ input[Len(log) + m + i].run = n /\ input[Len(log) + m + i].lumi = k
  BY <1>8
<1> QED
  BY <1>1, <1>7, <1>9, <1>10, Zenon DEF LumiGets

(* m entries of the run n, and then j of the luminosity block k in it,     *)
(* come after the p-th item.                                               *)
EntriesRead(p, m, n, j, k) ==
  /\ p \in Nat /\ m \in Nat /\ j \in Nat /\ p + m + j < Len(input)
  /\ j > 0 => m > 0
  /\ m = 0 => input[p + 1].kind = "Run"
  /\ \A i \in 1..m : SameEntry(p + i, "Run", n) /\ input[p + i].run = n /\ input[p + i].lumi = 0
  /\ \A i \in 1..j : input[p + m + i].kind = "Lumi" /\ input[p + m + i].run = n
                     /\ input[p + m + i].lumi = k

(* What comes then, if it is in a luminosity block, is in this run.        *)
LEMMA LumiStillFits ==
  ASSUME SourceTyped', InOrder', UNCHANGED <<input, mayStop>>, NEW l, NEW n, NEW k,
         NumOfRun(l)' = n, lumis'[l].num = k, NEW p, NEW m, NEW j,
         EntriesRead(p, m, n, j, k), Len(log') = p + m + j
  PROVE  Fits(l)'
<1>0. /\ p \in Nat /\ m \in Nat /\ j \in Nat /\ p + m + j < Len(input)
      /\ j > 0 => m > 0
      /\ m = 0 => input[p + 1].kind = "Run"
      /\ \A i \in 1..m : SameEntry(p + i, "Run", n)
      /\ \A i \in 1..j : input[p + m + i].kind = "Lumi" /\ input[p + m + i].run = n
                         /\ input[p + m + i].lumi = k
      /\ DOMAIN input = 1..Len(input) /\ Len(input) \in Nat
  <2>1. (input \in Inputs)' /\ input' = input
    BY DEF SourceTyped
  <2> QED
    BY <2>1, InputFacts DEF EntriesRead
<1>1. CASE j > 0
  <2>1. j \in 1..j /\ Len(log') \in DOMAIN input'
    BY <1>0, <1>1
  <2>2. /\ input'[Len(log')].kind = "Lumi" /\ input'[Len(log')].run = NumOfRun(l)'
        /\ input'[Len(log')].lumi = lumis'[l].num
    BY <1>0, <2>1
  <2> QED
    BY <2>1, <2>2, NextFitsThen
<1>2. CASE j = 0 /\ m > 0
  <2>1. m \in 1..m /\ p + m \in DOMAIN input /\ Len(log') = p + m
    BY <1>0, <1>2
  <2>2. LastWas("Run", n)'
    BY <1>0, <2>1, LastIs
  <2>3. /\ input'[Len(log') + 1].kind \in Kinds \ {"Event"}
        /\ input'[Len(log') + 1].kind = "Lumi" => input'[Len(log') + 1].run = n
    BY <2>2, NextOfRunThen
  <2> QED
    BY <2>3 DEF Fits
<1>3. CASE m = 0 /\ j = 0
  <2>1. Len(log') + 1 = p + 1
    BY <1>0, <1>3
  <2>2. input'[Len(log') + 1].kind = "Run"
    BY <1>0, <1>3, <2>1
  <2> QED
    BY <2>2 DEF Fits
<1> QED
  BY <1>0, <1>1, <1>2, <1>3

(* The entries of the run and of the luminosity block are handled.         *)
LEMMA LogGrowsTwice ==
  ASSUME SourceTyped, InOrder, UNCHANGED input, NEW m, NEW j, NEW n, NEW k,
         EntriesRead(Len(log), m, n, j, k),
         log' = (log \o Entries(Len(log), m, n, 0)) \o Entries(Len(log) + m, j, n, k)
  PROVE  InOrder' /\ Len(log') = Len(log) + m + j
<1>1. Ordered(log) /\ input \in Inputs /\ Len(log) \in Nat /\ Len(input) \in Nat
  BY InputFacts DEF InOrder, Ordered, SourceTyped
<1>2. /\ m \in Nat /\ j \in Nat /\ Len(log) + m + j < Len(input)
      /\ \A i \in 1..m : input[Len(log) + i].run = n /\ input[Len(log) + i].lumi = 0
      /\ \A i \in 1..j : input[Len(log) + m + i].run = n /\ input[Len(log) + m + i].lumi = k
  BY DEF EntriesRead
<1>3. Len(log) + m < Len(input)
  BY <1>1, <1>2
<1>4. /\ Ordered(log \o Entries(Len(log), m, n, 0))
      /\ Len(log \o Entries(Len(log), m, n, 0)) = Len(log) + m
  BY <1>1, <1>2, <1>3, OrderedGrows
<1>5. ASSUME NEW g, Ordered(g), Len(g) = Len(log) + m
      PROVE  /\ Ordered(g \o Entries(Len(g), j, n, k))
             /\ Len(g \o Entries(Len(g), j, n, k)) = Len(g) + j
  <2>1. /\ Ordered(g) /\ Len(g) + j < Len(input) /\ j \in Nat /\ input \in Inputs
        /\ \A i \in 1..j : input[Len(g) + i].run = n /\ input[Len(g) + i].lumi = k
    BY <1>1, <1>2, <1>5
  <2> QED
    BY <2>1, OrderedGrows
<1>6. Ordered(log') /\ Len(log') = Len(log) + m + j
  BY <1>4, <1>5
<1> QED
  BY <1>6 DEF Ordered, InOrder

Merges(n, k, o, q) ==
  /\ src' = q.src
  /\ log' = log \o [i \in DOMAIN o.entries |-> <<o.entries[i], n, 0>>]
                \o [i \in DOMAIN q.entries |-> <<q.entries[i], n, k>>]
  /\ stream' = [s \in Streams |-> [stream[s] EXCEPT !.doing = "resume"]]

Resuming(r, l, n, k, o, q) ==
  /\ AllIn(r, l) /\ r # 0 /\ l # 0 /\ n = runs[r].num /\ k = lumis[l].num
  /\ o \in MergeOutcomes(src, "Run", n, TRUE) /\ q \in MergeOutcomes(o.src, "Lumi", k, TRUE)
  /\ runs' = [runs EXCEPT ![r].holds = TRUE] /\ lumis' = [lumis EXCEPT ![l].state = "processing"]
  /\ Merges(n, k, o, q)

LEMMA LumiResumesGoes ==
  ASSUME TaskInv, TaskInv', SourceTyped, InOrder, AtHand, src.kind = "Run",
         UNCHANGED <<input, mayStop>>, NEW r, NEW l, NEW n, NEW k, NEW o, NEW q,
         Resuming(r, l, n, k, o, q)
  PROVE  Goes
<1>00. o \in MergeOutcomes(src, "Run", n, TRUE) /\ q \in MergeOutcomes(o.src, "Lumi", k, TRUE)
  BY DEF Resuming
<1>0. PICK m \in Nat : \E j \in Nat : LumiGets(n, k, m, j, o, q)
  BY <1>00, LumiMerged
<1>1. PICK j \in Nat : LumiGets(n, k, m, j, o, q)
  BY <1>0
<1>2. /\ RunGets(n, m, o) /\ q.entries = [i \in 1..j |-> Len(log) + m + i]
      /\ MergedOn(Len(log) + m, o.src, "Lumi", k, j, q.src)
      /\ j > 0 => m > 0
      /\ \A i \in 1..j : /\ input[Len(log) + m + i].kind = "Lumi"
                         /\ input[Len(log) + m + i].run = n /\ input[Len(log) + m + i].lumi = k
  BY <1>1 DEF LumiGets
<1> PICK p : p = Len(log)
  OBVIOUS
<1>3. /\ o.entries = [i \in 1..m |-> p + i] /\ p \in Nat /\ Len(input) \in Nat
      /\ DOMAIN input = 1..Len(input)
      /\ \A i \in 1..m : input[p + i].run = n /\ input[p + i].lumi = 0
      /\ MergedOn(p, src, "Run", n, m, o.src)
  BY <1>2 DEF RunGets
<1>4. \A i \in 1..m : SameEntry(p + i, "Run", n)
  BY <1>3 DEF MergedOn
<1>5. /\ p + m + j < Len(input) /\ src' \in [pos : 0..Len(input), kind : Kinds, needNext : BOOLEAN]
      /\ src'.pos = p + m + j + 1 /\ ~src'.needNext
      /\ src'.kind = input[p + m + j + 1].kind \/ (src'.kind = "Stop" /\ mayStop)
  BY <1>2 DEF MergedOn, Resuming, Merges
<1>6. SourceTyped' /\ p + m < Len(input)
  BY <1>3, <1>5 DEF SourceTyped
<1>7. log' = (log \o Entries(Len(log), m, n, 0)) \o Entries(Len(log) + m, j, n, k)
  <2>1. [i \in DOMAIN o.entries |-> <<o.entries[i], n, 0>>] = Entries(Len(log), m, n, 0)
    BY <1>3 DEF Entries
  <2>2. q.entries = [i \in 1..j |-> Len(log) + m + i]
    BY <1>2
  <2>3. [i \in DOMAIN q.entries |-> <<q.entries[i], n, k>>] = Entries(Len(log) + m, j, n, k)
    BY <2>2 DEF Entries
  <2> QED
    BY <2>1, <2>3 DEF Resuming, Merges
<1>8. EntriesRead(p, m, n, j, k)
  <2>1. m = 0 => input[p + 1].kind = "Run"
    BY DEF AtHand, Item
  <2> QED
    BY <1>2, <1>3, <1>4, <1>5, <2>1 DEF EntriesRead
<1>11. InOrder' /\ Len(log') = p + m + j
  <2>1. EntriesRead(Len(log), m, n, j, k)
    BY <1>8
  <2> QED
    BY <1>7, <2>1, LogGrowsTwice
<1>12. AtHand'
  BY <1>5, <1>11 DEF AtHand, Item
<1>13. /\ r \in DOMAIN runs /\ l \in DOMAIN lumis /\ lumis[l].run = r /\ lumis[l].phase = "open"
       /\ ~lumis[l].noMore /\ LumiRecord(lumis[l]) /\ RunRecord(runs[r])
  BY InList DEF AllIn, Resuming
<1>14. /\ l \in DOMAIN lumis' /\ lumis'[l].num = k /\ lumis'[l].run = r /\ lumis'[l].phase = "open"
       /\ ~lumis'[l].noMore /\ lumis'[l].state = "processing" /\ runs'[r].num = n
  BY <1>13 DEF LumiRecord, LumiFields, RunRecord, RunFields, Resuming
<1>15. NumOfRun(l)' = n
  BY <1>14 DEF NumOfRun
<1>16. Fits(l)'
  BY <1>6, <1>8, <1>11, <1>14, <1>15, LumiStillFits
<1>17. \A s \in In(l)' : stream'[s].doing # "nothing"
  <2>1. \A s \in Streams : stream'[s].doing = "resume"
    BY InList DEF StreamRecords, Resuming, Merges
  <2> QED
    BY <2>1 DEF In
<1>18. LumiNeeds(lumis'[l]) = "events" /\ LumiFinds(l)'
  <2>1. LumiNeeds(lumis'[l]) = "events"
    BY <1>14 DEF LumiNeeds
  <2> QED
    BY <1>5, <1>12, <1>16, <1>17, <2>1 DEF LumiFinds, InHand
<1>19. Found'
  BY <1>14, <1>18, ByLumi
<1> QED
  BY <1>6, <1>11, <1>19 DEF Goes

(* continueLumiAsync() fails: the entries of the run are handled.          *)
LEMMA LumiFailsGoes ==
  ASSUME TaskInv, SourceTyped, InOrder, AtHand, src.kind = "Run",
         UNCHANGED <<input, mayStop>>, NEW r, NEW l, AllIn(r, l), r # 0, l # 0,
         runs' = [runs EXCEPT ![r].holds = TRUE], lumis' = [lumis EXCEPT ![l].state = "processing"],
         NEW n, NEW o \in MergeOutcomes(src, "Run", n, TRUE), src' = o.src, Handled(o.entries, n, 0),
         failed'
  PROVE  Goes
<1>1. PICK m \in Nat : RunGets(n, m, o)
  BY RunMerged
<1>2. /\ o.entries = [i \in 1..m |-> Len(log) + i]
      /\ MergedOn(Len(log), src, "Run", n, m, o.src)
      /\ \A i \in 1..m : input[Len(log) + i].run = n /\ input[Len(log) + i].lumi = 0
  BY <1>1 DEF RunGets
<1>3. Len(log) + m < Len(input) /\ src' \in [pos : 0..Len(input), kind : Kinds, needNext : BOOLEAN]
  BY <1>2 DEF MergedOn
<1>4. InOrder'
  BY <1>2, <1>3, MergedHandled
<1>5. SourceTyped'
  BY <1>3 DEF SourceTyped
<1>6. /\ DOMAIN runs' = DOMAIN runs /\ DOMAIN lumis' = DOMAIN lumis
      /\ r \in DOMAIN runs /\ l \in DOMAIN lumis
      /\ RunRecord(runs[r]) /\ LumiRecord(lumis[l])
      /\ \A q \in DOMAIN runs \ {r} : runs'[q] = runs[q]
      /\ \A k \in DOMAIN lumis \ {l} : lumis'[k] = lumis[k]
  BY InList DEF AllIn
<1>7. runs'[r].phase = "open" /\ lumis'[l].phase = "open"
  BY <1>6 DEF AllIn, RunRecord, RunFields, LumiRecord, LumiFields
<1>8. \A q \in DOMAIN runs' : RunNeeds(runs'[q]) = "nothing"
  BY <1>6, <1>7 DEF AllIn, RunNeeds
<1>9. \A k \in DOMAIN lumis' : LumiNeeds(lumis'[k]) \in {"nothing", "events"}
  BY <1>6, <1>7 DEF AllIn, LumiNeeds
<1>10. Found'
  BY <1>8, <1>9, ByNobody DEF Streaming
<1> QED
  BY <1>4, <1>5, <1>10 DEF Goes

LEMMA ContinueRunGoes ==
  ASSUME JobInv, JobInv', SourceInv, ContinueRun
  PROVE  Goes
<1>1. /\ TaskInv /\ TaskInv' /\ SourceTyped /\ InOrder /\ AtHand /\ src.kind = "Run"
      /\ UNCHANGED <<input, mayStop>>
  BY DEF JobInv, SourceInv, MainFinds, ContinueRun, inputVars
<1> PICK r : r = RunAt
  OBVIOUS
<1> PICK l : l = LumiAt
  OBVIOUS
<1>2. /\ AllIn(r, l) /\ r # 0 /\ r = (CHOOSE i \in Active("run") : TRUE)
      /\ l = 0 <=> Active("lumi") = {}
      /\ l # 0 => l = (CHOOSE i \in Active("lumi") : TRUE)
  BY MainQuiet DEF ContinueRun, Call, RunAt, LumiAt, JobInv
<1>3. \/ ThrowOut /\ UNCHANGED <<src, log>>
      \/ /\ l = 0
         /\ \E o \in MergeOutcomes(src, "Run", runs[r].num, TRUE) :
              src' = o.src /\ Handled(o.entries, runs[r].num, 0)
         /\ AfterRunEntries([runs EXCEPT ![r].holds = TRUE], r)
      \/ /\ l # 0
         /\ runs' = [runs EXCEPT ![r].holds = TRUE] /\ lumis' = [lumis EXCEPT ![l].state = "processing"]
         /\ \E o \in MergeOutcomes(src, "Run", runs[r].num, TRUE) :
              \/ failed' /\ src' = o.src /\ Handled(o.entries, runs[r].num, 0)
              \/ \E q \in MergeOutcomes(o.src, "Lumi", lumis[l].num, TRUE) :
                   Merges(runs[r].num, lumis[l].num, o, q)
  <2> DEFINE R == CHOOSE i \in Active("run") : TRUE
             L == CHOOSE i \in Active("lumi") : TRUE
             Alone(i) ==
               /\ \E o \in MergeOutcomes(src, "Run", runs[i].num, TRUE) :
                    src' = o.src /\ Handled(o.entries, runs[i].num, 0)
               /\ AfterRunEntries([runs EXCEPT ![i].holds = TRUE], i)
             Within(i, k) ==
               /\ runs' = [runs EXCEPT ![i].holds = TRUE] /\ lumis' = [lumis EXCEPT ![k].state = "processing"]
               /\ \E o \in MergeOutcomes(src, "Run", runs[i].num, TRUE) :
                    \/ failed' /\ src' = o.src /\ Handled(o.entries, runs[i].num, 0)
                    \/ \E q \in MergeOutcomes(o.src, "Lumi", lumis[k].num, TRUE) :
                         Merges(runs[i].num, lumis[k].num, o, q)
  <2>1. CASE ThrowOut /\ UNCHANGED <<src, log>>
    BY <2>1
  <2>2. CASE Active("lumi") = {} /\ Alone(R)
    <3>1. l = 0 /\ R = r
      BY <1>2, <2>2
    <3> QED
      BY <2>2, <3>1
  <2>3. CASE Active("lumi") # {} /\ Within(R, L)
    <3>1. l # 0 /\ R = r /\ L = l
      BY <1>2, <2>3
    <3> HIDE DEF R, L, Within
    <3>2. Within(r, l)
      BY <2>3, <3>1
    <3> USE DEF Within
    <3> QED
      BY <3>1, <3>2
  <2>4. \/ ThrowOut /\ UNCHANGED <<src, log>>
        \/ Active("lumi") = {} /\ Alone(R)
        \/ Active("lumi") # {} /\ Within(R, L)
    <3>1. \/ ThrowOut /\ UNCHANGED <<src, log>>
          \/ Active("lumi") = {} /\ Alone(R)
          \/ /\ Active("lumi") # {}
             /\ \E x \in BOOLEAN, o \in MergeOutcomes(src, "Run", runs[R].num, TRUE) :
                  /\ failed' = x
                  /\ lumis' = [lumis EXCEPT ![L].state = "processing"]
                  /\ IF x THEN src' = o.src /\ Handled(o.entries, runs[R].num, 0)
                     ELSE \E p \in MergeOutcomes(o.src, "Lumi", lumis[L].num, TRUE) :
                            Merges(runs[R].num, lumis[L].num, o, p)
             /\ runs' = [runs EXCEPT ![R].holds = TRUE]
      BY DEF ContinueRun, Merges
    <3> HIDE DEF R, L, Alone
    <3>2. ASSUME /\ Active("lumi") # {}
                   /\ \E x \in BOOLEAN, o \in MergeOutcomes(src, "Run", runs[R].num, TRUE) :
                        /\ failed' = x
                        /\ lumis' = [lumis EXCEPT ![L].state = "processing"]
                        /\ IF x THEN src' = o.src /\ Handled(o.entries, runs[R].num, 0)
                           ELSE \E p \in MergeOutcomes(o.src, "Lumi", lumis[L].num, TRUE) :
                                  Merges(runs[R].num, lumis[L].num, o, p)
                   /\ runs' = [runs EXCEPT ![R].holds = TRUE]
          PROVE  Within(R, L)
      <4>1. PICK x \in BOOLEAN, o \in MergeOutcomes(src, "Run", runs[R].num, TRUE) :
                  /\ failed' = x
                  /\ IF x THEN src' = o.src /\ Handled(o.entries, runs[R].num, 0)
                     ELSE \E p \in MergeOutcomes(o.src, "Lumi", lumis[L].num, TRUE) :
                            Merges(runs[R].num, lumis[L].num, o, p)
        BY <3>2
      <4>2. runs' = [runs EXCEPT ![R].holds = TRUE] /\ lumis' = [lumis EXCEPT ![L].state = "processing"]
        BY <3>2
      <4>3. CASE x
        BY <4>1, <4>2, <4>3, Zenon
      <4>4. CASE ~x
        BY <4>1, <4>2, <4>4, Zenon
      <4> QED
        BY <4>3, <4>4
    <3> QED
      BY <3>1, <3>2
  <2> QED
    BY <2>1, <2>2, <2>3, <2>4
<1>4. CASE ThrowOut /\ UNCHANGED <<src, log>>
  <2>1. ~Call("wait")'
    BY <1>4 DEF ThrowOut, Call, EndJob, EndRuns
  <2>2. SourceTyped' /\ InOrder'
    BY <1>1, <1>4 DEF SourceTyped, InOrder
  <2> QED
    BY <2>1, <2>2, FoundUnlessWaitThen DEF Goes
<1>5. CASE /\ l = 0
           /\ \E o \in MergeOutcomes(src, "Run", runs[r].num, TRUE) :
                src' = o.src /\ Handled(o.entries, runs[r].num, 0)
           /\ AfterRunEntries([runs EXCEPT ![r].holds = TRUE], r)
  <2>1. PICK o \in MergeOutcomes(src, "Run", runs[r].num, TRUE) :
                src' = o.src /\ Handled(o.entries, runs[r].num, 0)
    BY <1>5
  <2>2. AllIn(r, 0)
    BY <1>2, <1>5
  <2> QED
    BY <1>1, <1>2, <1>5, <2>1, <2>2, RunGoesOnGoes
<1>6. CASE /\ l # 0
           /\ runs' = [runs EXCEPT ![r].holds = TRUE] /\ lumis' = [lumis EXCEPT ![l].state = "processing"]
           /\ \E o \in MergeOutcomes(src, "Run", runs[r].num, TRUE) :
                failed' /\ src' = o.src /\ Handled(o.entries, runs[r].num, 0)
  BY <1>1, <1>2, <1>6, LumiFailsGoes
<1>7. CASE /\ l # 0
           /\ runs' = [runs EXCEPT ![r].holds = TRUE] /\ lumis' = [lumis EXCEPT ![l].state = "processing"]
           /\ \E o \in MergeOutcomes(src, "Run", runs[r].num, TRUE) :
              \E q \in MergeOutcomes(o.src, "Lumi", lumis[l].num, TRUE) :
                   Merges(runs[r].num, lumis[l].num, o, q)
  <2>1. \E o : \E q : Resuming(r, l, runs[r].num, lumis[l].num, o, q)
    BY <1>2, <1>7, Zenon DEF Resuming
  <2>2. \E n : \E k : \E o : \E q : Resuming(r, l, n, k, o, q)
    BY <2>1
  <2> QED
    BY <1>1, <2>2, LumiResumesGoes
<1> QED
  BY <1>3, <1>4, <1>5, <1>6, <1>7

(* The calls that are left when one of them is made.                       *)
LEMMA TailToDo ==
  ASSUME todo \in Seq(Calls), todo # <<>>, todo' = Tail(todo), NEW name
  PROVE  /\ ToDo(name)' => ToDo(name)
         /\ Head(todo) # name /\ ToDo(name) => ToDo(name)'
<1>1. /\ DOMAIN todo = 1..Len(todo) /\ Len(todo) \in Nat \ {0} /\ Head(todo) = todo[1]
      /\ DOMAIN todo' = 1..(Len(todo) - 1) /\ \A i \in DOMAIN todo' : todo'[i] = todo[i + 1]
  OBVIOUS
<1>2. ASSUME NEW i \in DOMAIN todo', todo'[i] = name PROVE ToDo(name)
  <2>1. i + 1 \in DOMAIN todo
    BY <1>1
  <2> QED
    BY <1>1, <1>2, <2>1 DEF ToDo
<1>3. ASSUME NEW i \in DOMAIN todo, todo[i] = name, Head(todo) # name PROVE ToDo(name)'
  <2>1. i # 1
    BY <1>1, <1>3
  <2>2. i - 1 \in DOMAIN todo' /\ (i - 1) + 1 = i
    BY <1>1, <2>1
  <2> QED
    BY <1>1, <1>3, <2>2 DEF ToDo
<1> QED
  BY <1>2, <1>3 DEF ToDo

(* After a call comes the next one of its plan.                            *)
LEMMA TailCall ==
  ASSUME JobInv, todo # <<>>, todo' = Tail(todo)
  PROVE  ~Call("processRuns")' /\ (Call("wait")' => Call("processRuns"))
<1>1. PICK p \in Plans : \E i \in 1..Len(p) : Rest(p, i) /\ Head(todo) = p[i]
  BY HereNow DEF JobInv
<1>2. PICK i \in 1..Len(p) : Rest(p, i) /\ Head(todo) = p[i]
  BY <1>1
<1>3. Rest(p, i + 1)' /\ todo' \in Seq(Calls) /\ i + 1 \in 1..(Len(p) + 1) /\ Len(p) \in Nat
  BY <1>2, Advance, PlanSeq DEF JobInv, MainInTurn
<1>4. todo' # <<>> => i + 1 \in 1..Len(p) /\ Head(todo') = p[i + 1]
  <2> SUFFICES ASSUME todo' # <<>> PROVE i + 1 \in 1..Len(p) /\ Head(todo') = p[i + 1]
    OBVIOUS
  <2>1. Len(todo') \in Nat \ {0} /\ Head(todo') = todo'[1] /\ 1 \in 1..Len(todo')
    BY <1>3
  <2>2. Len(todo') = Len(p) + 1 - (i + 1) /\ todo'[1] = p[i + 1 + 1 - 1]
    BY <1>3, <2>1 DEF Rest
  <2> QED
    BY <1>3, <2>1, <2>2
<1>5. ASSUME todo' # <<>>, p[i + 1] = "processRuns" PROVE FALSE
  <2>1. i + 1 = 1
    BY <1>4, <1>5, Places
  <2> QED
    BY <2>1
<1>6. ASSUME todo' # <<>>, p[i + 1] = "wait" PROVE p = Process /\ i = 1
  <2>1. p = Process /\ i + 1 = 2
    BY <1>4, <1>6, Places
  <2> QED
    BY <2>1
<1>7. Process[1] = "processRuns"
  BY PlanFacts
<1> QED
  BY <1>2, <1>4, <1>5, <1>6, <1>7 DEF Call

(* The main thread waits only where it began to.                           *)
LEMMA WaitIsLast ==
  ASSUME JobInv, Call("wait")
  PROVE  todo = <<"wait">>
<1>1. PICK p \in Plans : \E i \in 1..Len(p) : Rest(p, i) /\ Head(todo) = p[i]
  BY HereNow DEF JobInv, Call
<1>2. PICK i \in 1..Len(p) : Rest(p, i) /\ Head(todo) = p[i]
  BY <1>1
<1>3. p = Process /\ i = 2 /\ Len(Process) = 2
  BY <1>2, Places, PlanFacts DEF Call
<1>4. Len(todo) = 1
  <2>1. Len(todo) = Len(p) + 1 - i
    BY <1>2 DEF Rest
  <2> QED
    BY <1>3, <2>1
<1>5. todo \in Seq(Calls) /\ Head(todo) = "wait"
  BY DEF JobInv, MainInTurn, Call
<1> QED
  BY <1>4, <1>5

LEMMA NextIsLast ==
  ASSUME JobInv, Call("next")
  PROVE  todo = <<"next">>
<1>1. PICK p \in Plans : \E i \in 1..Len(p) : Rest(p, i) /\ Head(todo) = p[i]
  BY HereNow DEF JobInv, Call
<1>2. PICK i \in 1..Len(p) : Rest(p, i) /\ Head(todo) = p[i]
  BY <1>1
<1>3. Len(p) = i /\ i \in Nat
  <2>1. /\ Len(<<"next">>) = 1 /\ Len(OpenFirst) = 6 /\ Len(OpenInput) = 6 /\ Len(OpenBoth) = 15
        /\ p[i] = "next"
    BY <1>2, PlanFacts DEF Call
  <2>2. \/ p = <<"next">> /\ i = 1
        \/ p = OpenFirst /\ i = 6
        \/ p = OpenInput /\ i = 6
        \/ p = OpenBoth /\ i = 15
    BY <2>1, Places
  <2>3. Len(p) = i
    BY <2>1, <2>2, Zenon
  <2> QED
    BY <2>3, PlanSeq
<1>4. Len(todo) = 1
  <2>1. Len(todo) = Len(p) + 1 - i
    BY <1>2 DEF Rest
  <2> QED
    BY <1>3, <2>1
<1>5. todo \in Seq(Calls) /\ Head(todo) = "next"
  BY DEF JobInv, MainInTurn, Call
<1> QED
  BY <1>4, <1>5

-----------------------------------------------------------------------------
(* Each action of the main thread.                                         *)

LEMMA SourceStill ==
  ASSUME SourceTyped, InOrder, UNCHANGED <<src, log, input>>
  PROVE  SourceTyped' /\ InOrder'
BY DEF SourceTyped, InOrder

(* No plan begins with waiting.                                            *)
LEMMA PlanGoes ==
  ASSUME JobInv', todo' \in Plans \/ todo' = <<>>, SourceTyped', InOrder'
  PROVE  Goes
<1>1. ~Call("wait")'
  <2> SUFFICES ASSUME NEW p, p = todo', p \in Plans PROVE Head(p) # "wait"
    BY DEF Call
  <2>0. p \in Seq(Calls) /\ Len(p) \in 1..15
    BY PlanSeq
  <2>1. 1 \in 1..Len(p) /\ Head(p) = p[1]
    BY <2>0
  <2>2. p[1] = "wait" => 1 = 2
    BY <2>1, Places
  <2> QED
    BY <2>1, <2>2
<1> QED
  BY <1>1, FoundUnlessWaitThen DEF Goes

LEMMA NextTransitionGoes ==
  ASSUME JobInv, JobInv', SourceInv, NextTransition
  PROVE  Goes /\ MainFinds'
<1>1. /\ todo = <<"next">> /\ UNCHANGED <<input, mayStop, log>>
  BY NextIsLast DEF NextTransition, inputVars
<1>2. ToDo("next") /\ ~ToDo("readFile") /\ ~ToDo("wait")
  BY <1>1 DEF ToDo
<1>3. Taken /\ (Len(log) = 0 \/ input[Len(log)].kind = "File")
  BY <1>2 DEF SourceInv, MainFinds
<1>4. /\ SourceTyped /\ InOrder /\ Len(log) \in Nat /\ src.pos = Len(log)
      /\ src.pos + 1 \in 1..Len(input) /\ Len(log) + 1 \in DOMAIN input
  <2>1. SourceTyped /\ InOrder /\ Len(log) \in Nat /\ Len(log) < Len(input) /\ src.pos = Len(log)
    BY <1>3 DEF SourceInv, InOrder, Taken
  <2>2. Len(input) \in Nat /\ DOMAIN input = 1..Len(input)
    BY <2>1, InputFacts DEF SourceTyped
  <2> QED
    BY <2>1, <2>2
<1>5. InOrder'
  BY <1>1, <1>4 DEF InOrder
<1>6. CASE throws' = throws + 1 /\ todo' = EndJob /\ UNCHANGED src
  <2>1. SourceTyped'
    BY <1>1, <1>4, <1>6 DEF SourceTyped
  <2>2. throws' # 0
    <3>1. throws \in Nat
      BY DEF JobInv, TaskInv, Shape
    <3> QED
      BY <1>6, <3>1
  <2>3. MainFinds'
    BY <1>6, <2>2, DoneFinds
  <2>4. todo' \in Plans
    BY <1>6 DEF Plans
  <2> QED
    BY <1>5, <2>1, <2>3, <2>4, PlanGoes
<1>7. CASE /\ throws' = throws /\ todo' = Dispatch(src'.kind)
           /\ \E i \in NextItems : src' = [src EXCEPT !.pos = i.pos, !.kind = i.kind]
  <2> PICK i \in NextItems : src' = [src EXCEPT !.pos = i.pos, !.kind = i.kind]
    BY <1>7
  <2> PICK k \in {input[src.pos + 1].kind} \cup (IF mayStop THEN {"Stop"} ELSE {}) :
          i = [pos |-> src.pos + 1, kind |-> k]
    BY DEF NextItems
  <2>1. src' = [src EXCEPT !.pos = src.pos + 1, !.kind = k]
    OBVIOUS
  <2>2. src'.pos = Len(log) + 1 /\ src'.kind = k /\ SourceTyped'
    <3>1. input[src.pos + 1].kind \in Kinds
      BY <1>4, InputFacts DEF SourceTyped
    <3>2. k \in Kinds
      BY <3>1 DEF Kinds
    <3>3. src \in [pos : 0..Len(input), kind : Kinds, needNext : BOOLEAN] /\ Len(input) \in Nat
      BY <1>4, InputFacts DEF SourceTyped
    <3> PICK q : q = src.pos + 1
      OBVIOUS
    <3>5. q \in 0..Len(input) /\ src' = [src EXCEPT !.pos = q, !.kind = k]
      BY <1>4, <2>1, <3>3
    <3>4. src' \in [pos : 0..Len(input), kind : Kinds, needNext : BOOLEAN]
          /\ src'.pos = src.pos + 1 /\ src'.kind = k
      BY <3>2, <3>3, <3>5
    <3> QED
      BY <1>1, <1>4, <3>4 DEF SourceTyped
  <2>3. k = input[Len(log) + 1].kind \/ (k = "Stop" /\ mayStop)
    BY <1>4, <2>1
  <2>4. input[Len(log) + 1].kind \in {"File", "Run", "Stop"}
    <3>1. CASE Len(log) = 0
      BY <1>4, <3>1, InputFacts DEF SourceTyped
    <3>2. CASE Len(log) # 0
      <4>1. Len(log) \in DOMAIN input
        BY <1>4, <3>2, InputFacts DEF SourceTyped
      <4>2. MayFollow(input[Len(log)], input[Len(log) + 1])
        BY <1>4, <4>1, InputFacts DEF SourceTyped
      <4> QED
        BY <1>3, <3>2, <4>2 DEF MayFollow
    <3> QED
      BY <3>1, <3>2
  <2>5. k = "File" => src'.pos = Len(log') + 1 /\ input'[src'.pos].kind = "File"
    BY <1>1, <2>2, <2>3
  <2>6. k = "Run" => AtHand'
    BY <1>1, <2>2, <2>3 DEF AtHand, Item
  <2>7. k \notin {"File", "Run"} => (throws' = 0 /\ ~mayStop' => Len(log') = Len(input') - 1)
    <3> SUFFICES ASSUME k \notin {"File", "Run"}, ~mayStop
                 PROVE  Len(log) = Len(input) - 1
      BY <1>1
    <3>1. input[Len(log) + 1].kind = "Stop"
      BY <2>3, <2>4
    <3>2. Len(log) + 1 = Len(input)
      BY <1>4, <3>1, InputFacts DEF SourceTyped
    <3> QED
      BY <1>4, <3>2
  <2>8. MainFinds'
    BY <1>7, <2>2, <2>5, <2>6, <2>7, DispatchFinds
  <2>9. todo' \in Plans
    BY <1>7, DispatchFacts DEF Plans
  <2> QED
    BY <1>5, <2>2, <2>8, <2>9, PlanGoes
<1> QED
  BY <1>6, <1>7 DEF NextTransition, Try, ThrowOut

(* The next call of the plan finds what this one found.                    *)
LEMMA TailFinds ==
  ASSUME JobInv, SourceInv, todo # <<>>, todo' = Tail(todo),
         Head(todo) \notin {"readFile", "next", "wait", "processRuns"},
         UNCHANGED <<log, input, mayStop>>, src'.pos = src.pos, throws' = throws
  PROVE  MainFinds'
<1>1. todo \in Seq(Calls)
  BY DEF JobInv, MainInTurn
<1>2. \A name \in {"readFile", "next", "wait"} : ToDo(name)' <=> ToDo(name)
  BY <1>1, TailToDo
<1>3. ~Call("processRuns")'
  BY TailCall
<1>4. Taken' = Taken
  BY DEF Taken
<1> QED
  BY <1>2, <1>3, <1>4 DEF SourceInv, MainFinds

(* What is still to be done is what the plan holds from here on.           *)
LEMMA ToDoInPlan ==
  JobInv => \A p \in Plans : \A i \in 1..Len(p) : Rest(p, i) =>
              \A name : ToDo(name) <=> \E j \in i..Len(p) : p[j] = name
<1> SUFFICES ASSUME JobInv, NEW p \in Plans, NEW i \in 1..Len(p), Rest(p, i), NEW name
             PROVE  ToDo(name) <=> \E j \in i..Len(p) : p[j] = name
  OBVIOUS
<1>1. todo \in Seq(Calls) /\ Len(p) \in Nat
  BY PlanSeq DEF JobInv, MainInTurn
<1>2. DOMAIN todo = 1..(Len(p) + 1 - i)
  BY <1>1 DEF Rest
<1>3. \A j \in 1..(Len(p) + 1 - i) : todo[j] = p[i + j - 1] /\ i + j - 1 \in i..Len(p)
  BY <1>1 DEF Rest
<1>4. \A j \in i..Len(p) : j + 1 - i \in 1..(Len(p) + 1 - i) /\ i + (j + 1 - i) - 1 = j
  BY <1>1
<1>5. ToDo(name) => \E j \in i..Len(p) : p[j] = name
  BY <1>2, <1>3 DEF ToDo
<1>6. ASSUME NEW j \in i..Len(p), p[j] = name PROVE ToDo(name)
  BY <1>2, <1>3, <1>4, <1>6 DEF ToDo
<1> QED
  BY <1>5, <1>6

LEMMA ToDoInPlanThen ==
  JobInv' => \A p \in Plans : \A i \in 1..Len(p) : Rest(p, i)' =>
               \A name : ToDo(name)' <=> \E j \in i..Len(p) : p[j] = name
<1>1. (JobInv => \A p \in Plans : \A i \in 1..Len(p) : Rest(p, i) =>
              \A name : ToDo(name) <=> \E j \in i..Len(p) : p[j] = name)'
  BY ToDoInPlan, PTL
<1> QED
  BY <1>1

(* A plan that reads a file does so once, and asks for the next item last. *)
LEMMA ReadsOnce ==
  ASSUME NEW p \in Plans, NEW i \in 1..Len(p), p[i] = "readFile"
  PROVE  i + 1 \in 1..Len(p) /\ p[Len(p)] = "next" /\ \A j \in (i + 1)..Len(p) : p[j] # "readFile"
<1>0. "readFile" \in Opening
  BY DEF Opening
<1>1. \/ p = OpenFirst /\ i \in 1..5
      \/ p = OpenInput /\ i \in 3..5
      \/ p = OpenBoth /\ i \in 10..14
  BY <1>0, Places
<1>2. CASE p = OpenFirst
  BY <1>1, <1>2, PlansDiffer, PlanFacts
<1>3. CASE p = OpenInput
  BY <1>1, <1>3, PlansDiffer, PlanFacts
<1>4. CASE p = OpenBoth
  BY <1>1, <1>4, PlansDiffer, PlanFacts
<1> QED
  BY <1>1, <1>2, <1>3, <1>4

LEMMA ThrowFinds ==
  ASSUME JobInv, todo' \in {EndJob, CloseInput, CloseAll, <<>>}, throws' = throws + 1
  PROVE  MainFinds'
<1>1. throws \in Nat
  BY DEF JobInv, TaskInv, Shape
<1>2. throws' # 0
  BY <1>1
<1> QED
  BY <1>2, DoneFinds

LEMMA OpenFileGoes ==
  ASSUME JobInv, JobInv', SourceInv, OpenFile
  PROVE  Goes /\ MainFinds'
<1>0. /\ todo # <<>> /\ Head(todo) \in Opening /\ UNCHANGED <<input, mayStop, src>>
      /\ SourceTyped /\ InOrder /\ SourceTyped'
  BY DEF OpenFile, inputVars, SourceInv, SourceTyped
<1>1. CASE throws' = throws + 1 /\ todo' = EndJob /\ UNCHANGED log
  <2>1. SourceTyped' /\ InOrder'
    BY <1>0, <1>1, SourceStill
  <2>2. todo' \in Plans
    BY <1>1 DEF Plans
  <2> QED
    BY <1>1, <2>1, <2>2, ThrowFinds, PlanGoes
<1>2. CASE /\ throws' = throws /\ todo' = Tail(todo)
           /\ IF Call("readFile") THEN Handled(<<src.pos>>, 0, 0) ELSE UNCHANGED log
  <2>1. ~Call("wait")' /\ ~Call("processRuns")'
    <3>1. Head(todo) # "processRuns"
      BY <1>0 DEF Opening
    <3> QED
      BY <1>0, <1>2, <3>1, TailCall DEF Call
  <2>2. CASE ~Call("readFile")
    <3>1. throws' = throws /\ UNCHANGED log
      BY <1>2, <2>2
    <3>2. Head(todo) \notin {"readFile", "next", "wait", "processRuns"}
      BY <1>0, <2>2 DEF Call, Opening
    <3>3. SourceTyped' /\ InOrder'
      BY <1>0, <3>1, SourceStill
    <3> QED
      BY <1>0, <1>2, <2>1, <3>1, <3>2, <3>3, TailFinds, FoundUnlessWaitThen DEF Goes
  <2>3. CASE Call("readFile")
    <3>1. src.pos = Len(log) + 1 /\ input[src.pos].kind = "File"
      <4>1. todo \in Seq(Calls)
        BY DEF JobInv, MainInTurn
      <4>2. 1 \in DOMAIN todo /\ todo[1] = Head(todo)
        BY <1>0, <4>1
      <4>3. ToDo("readFile")
        BY <2>3, <4>2 DEF ToDo, Call
      <4> QED
        BY <4>3 DEF SourceInv, MainFinds
    <3>2. /\ src.pos \in DOMAIN input /\ src.pos < Len(input) /\ input[src.pos].run = 0
          /\ input[src.pos].lumi = 0
      <4>1. /\ Len(input) \in Nat \ {0} /\ DOMAIN input = 1..Len(input)
            /\ src.pos \in 0..Len(input) /\ Len(log) \in Nat
        BY <1>0, InputFacts DEF SourceTyped, InOrder
      <4>2. src.pos \in DOMAIN input
        BY <3>1, <4>1
      <4>3. src.pos # Len(input) /\ input[src.pos].run = 0 /\ input[src.pos].lumi = 0
        BY <1>0, <3>1, <4>2, InputFacts DEF SourceTyped
      <4> QED
        BY <4>1, <4>2, <4>3
    <3>3. Handled(<<src.pos>>, input[src.pos].run, input[src.pos].lumi)
      BY <1>2, <2>3, <3>2
    <3>4. InOrder' /\ Len(log') = src.pos
      BY <1>0, <3>1, <3>2, <3>3, OneHandled
    <3>5. PICK p \in Plans : \E i \in 1..Len(p) : Rest(p, i) /\ Head(todo) = p[i]
      BY <1>0, HereNow DEF JobInv
    <3>6. PICK i \in 1..Len(p) : Rest(p, i) /\ Head(todo) = p[i]
      BY <3>5
    <3>7. /\ i + 1 \in 1..Len(p) /\ p[Len(p)] = "next"
          /\ \A j \in (i + 1)..Len(p) : p[j] # "readFile"
      BY <2>3, <3>6, ReadsOnce DEF Call
    <3>8. Rest(p, i + 1)'
      BY <1>2, <3>6, Advance DEF JobInv, MainInTurn
    <3>9. \A name : ToDo(name)' <=> \E j \in (i + 1)..Len(p) : p[j] = name
      BY <3>7, <3>8, ToDoInPlanThen
    <3>10. Len(p) \in (i + 1)..Len(p)
      BY <3>7, PlanSeq
    <3>11. ~ToDo("readFile")' /\ ToDo("next")'
      BY <3>7, <3>9, <3>10
    <3>12. Taken' /\ input'[Len(log')].kind = "File"
      BY <1>0, <3>1, <3>4 DEF Taken
    <3>13. MainFinds'
      BY <2>1, <3>11, <3>12 DEF MainFinds
    <3> QED
      BY <1>0, <2>1, <3>4, <3>13, FoundUnlessWaitThen DEF Goes
  <2> QED
    BY <2>2, <2>3
<1> QED
  BY <1>1, <1>2 DEF OpenFile, Try, ThrowOut

LEMMA CallGoesOn ==
  ASSUME JobInv, JobInv', SourceInv, todo # <<>>, todo' = Tail(todo),
         Head(todo) \notin {"readFile", "next", "wait", "processRuns"},
         UNCHANGED <<log, input, mayStop>>, SourceTyped', src'.pos = src.pos, throws' = throws
  PROVE  Goes /\ MainFinds'
<1>1. ~Call("wait")'
  BY TailCall DEF Call
<1>2. InOrder'
  BY DEF SourceInv, InOrder
<1> QED
  BY <1>1, <1>2, TailFinds, FoundUnlessWaitThen DEF Goes

LEMMA CloseFileGoes ==
  ASSUME JobInv, JobInv', SourceInv, CloseFile
  PROVE  Goes /\ MainFinds'
<1>1. /\ todo # <<>> /\ Head(todo) \in Closing /\ UNCHANGED <<input, mayStop, src, log>>
      /\ SourceTyped' /\ InOrder'
  BY SourceStill DEF CloseFile, inputVars, SourceInv
<1>2. CASE throws' = throws + 1 /\ todo' \in {EndJob, <<>>}
  <2>1. todo' \in Plans \/ todo' = <<>>
    BY <1>2 DEF Plans
  <2> QED
    BY <1>1, <1>2, <2>1, ThrowFinds, PlanGoes
<1>3. CASE throws' = throws /\ todo' = Tail(todo)
  BY <1>1, <1>3, CallGoesOn DEF Closing
<1> QED
  BY <1>2, <1>3 DEF CloseFile, Try

LEMMA DestroyGoes ==
  ASSUME JobInv, JobInv', SourceInv, Destroy
  PROVE  Goes /\ MainFinds'
<1>1. /\ Call("destroy") /\ UNCHANGED <<input, mayStop, src, log, throws>>
      /\ SourceTyped' /\ InOrder'
  BY SourceStill DEF Destroy, taskVars, vars, inputVars, SourceInv
<1>2. PICK p \in Plans : \E i \in 1..Len(p) : Rest(p, i) /\ Head(todo) = p[i]
  BY <1>1, HereNow DEF JobInv, Call
<1>3. PICK i \in 1..Len(p) : Rest(p, i) /\ Head(todo) = p[i]
  BY <1>2
<1>4. p = EndJob /\ i = 5
  BY <1>1, <1>3, Places DEF Call
<1>5. ~ToDo("next") /\ ~ToDo("wait")
  <2>1. DOMAIN p = 1..Len(p) /\ Len(p) \in Nat
    BY PlanSeq
  <2>2. \A j \in i..Len(p) : j \in DOMAIN p
    BY <2>1
  <2>3. \A j \in DOMAIN p : p[j] \notin {"next", "wait"}
    BY <1>4, PlanHas
  <2> QED
    BY <1>3, <2>2, <2>3, ToDoInPlan
<1>6. todo' \in {EndJob, CloseInput, CloseAll, <<>>}
  <2>1. <<"respondClose", "closeInput">> \o <<>> = CloseInput
    BY DEF CloseInput
  <2> QED
    BY <2>1, ClosingAll DEF Destroy
<1>7. MainFinds'
  BY <1>1, <1>5, <1>6, DoneFinds DEF SourceInv, MainFinds
<1> QED
  BY <1>1, <1>6, <1>7, PlanGoes DEF Plans

(* Nobody needs the source when the wait in processRuns() is over.         *)
LEMMA NobodyWhenQuiet ==
  ASSUME TaskInv, Found, Streaming, ~Busy
  PROVE  ForMain
<1>1. \A r \in DOMAIN runs : RunNeeds(runs[r]) = "nothing"
  BY DEF Busy, RunNeeds
<1>2. ASSUME NEW l \in DOMAIN lumis, LumiNeeds(lumis[l]) # "nothing" PROVE FALSE
  <2>1. lumis[l].phase = "open"
    BY <1>2 DEF Busy, LumiNeeds
  <2>2. LumiNeeds(lumis[l]) = "events"
    BY <1>2, <2>1 DEF LumiNeeds
  <2>3. \A s \in Streams : stream[s].lumi = l
    BY <2>1, QuietLumis
  <2>4. PICK s \in Streams : TRUE
    BY EventProcessorAssumption
  <2>5. stream[s].doing # "nothing"
    BY <2>2, <2>3 DEF Found, LumiFinds, In
  <2> QED
    BY <2>5 DEF Busy
<1> QED
  BY <1>1, <1>2 DEF Found, NoNeed

LEMMA WaitGoes ==
  ASSUME JobInv, JobInv', SourceInv, failed => throws > 0, Wait
  PROVE  Goes /\ MainFinds'
<1>1. /\ Call("wait") /\ ~Busy /\ UNCHANGED <<input, mayStop, src, log, throws, failed>>
      /\ SourceTyped /\ InOrder /\ Found /\ SourceTyped' /\ InOrder'
  BY SourceStill DEF Wait, taskVars, vars, inputVars, SourceInv
<1>2. CASE failed
  <2>1. todo' = EndJob
    BY <1>2 DEF Wait, ThrowOut
  <2>2. throws' # 0
    BY <1>1, <1>2
  <2> QED
    BY <1>1, <2>1, <2>2, DoneFinds, PlanGoes DEF Plans
<1>3. CASE ~failed
  <2>1. todo' = Dispatch(src'.kind)
    BY <1>1, <1>3 DEF Wait
  <2>2. ForMain
    BY <1>1, <1>3, NobodyWhenQuiet DEF JobInv, Streaming
  <2>3. src.kind = "Stop" /\ ~mayStop => Len(log) = Len(input) - 1
    <3> SUFFICES ASSUME src.kind = "Stop", ~mayStop PROVE Len(log) = Len(input) - 1
      OBVIOUS
    <3>1. src.pos = Len(log) + 1 /\ input[src.pos].kind = "Stop"
      BY <2>2 DEF ForMain, AtHand, Item
    <3>2. /\ Len(input) \in Nat \ {0} /\ DOMAIN input = 1..Len(input)
          /\ src.pos \in 0..Len(input) /\ Len(log) \in Nat
      BY <1>1, InputFacts DEF SourceTyped, InOrder
    <3>3. src.pos \in DOMAIN input
      BY <3>1, <3>2
    <3>4. src.pos = Len(input)
      BY <1>1, <3>1, <3>3, InputFacts DEF SourceTyped
    <3>5. src.pos = Len(log) + 1
      BY <3>1
    <3> QED
      BY <3>2, <3>4, <3>5
  <2>4. src.kind \in {"File", "Run"} => AtHand /\ input[src.pos].kind = src.kind /\ src.pos = Len(log) + 1
    BY <2>2 DEF ForMain, AtHand, Item
  <2>5. src.kind = "Run" => AtHand'
    BY <1>1, <2>4 DEF AtHand, Item
  <2>6. MainFinds'
    BY <1>1, <2>1, <2>2, <2>3, <2>4, <2>5, DispatchFinds DEF ForMain
  <2>7. todo' \in Plans
    BY <2>1, DispatchFacts DEF Plans
  <2> QED
    BY <1>1, <2>6, <2>7, PlanGoes
<1> QED
  BY <1>2, <1>3

LEMMA ProcessFinds ==
  ASSUME JobInv, Call("processRuns"), todo' = Tail(todo)
  PROVE  MainFinds'
<1>1. PICK p \in Plans : \E i \in 1..Len(p) : Rest(p, i) /\ Head(todo) = p[i]
  BY HereNow DEF JobInv, Call
<1>2. PICK i \in 1..Len(p) : Rest(p, i) /\ Head(todo) = p[i]
  BY <1>1
<1>3. p = Process /\ i = 1 /\ Len(Process) = 2 /\ Process[1] = "processRuns" /\ Process[2] = "wait"
  BY <1>2, Places, PlanFacts DEF Call
<1>4. ToDo("wait") /\ ~ToDo("readFile") /\ ~ToDo("next")
  <2>0. Process \in Plans /\ 1 \in 1..Len(Process) /\ Rest(Process, 1)
    BY <1>2, <1>3
  <2>1. \A name : ToDo(name) <=> \E j \in 1..Len(Process) : Process[j] = name
    BY <2>0, ToDoInPlan
  <2> QED
    BY <1>3, <2>1
<1>5. ToDo("wait")' /\ ~ToDo("readFile")' /\ ~ToDo("next")'
  BY <1>4, TailToDo DEF JobInv, MainInTurn, Call
<1>6. ~Call("processRuns")'
  BY TailCall DEF Call
<1> QED
  BY <1>5, <1>6 DEF MainFinds

LEMMA MainStepGoes ==
  ASSUME JobInv, JobInv', SourceInv, failed => throws > 0, MainStep
  PROVE  Goes /\ MainFinds'
<1>1. CASE NextTransition
  BY <1>1, NextTransitionGoes
<1>2. CASE OpenFile
  BY <1>2, OpenFileGoes
<1>3. CASE CloseFile
  BY <1>3, CloseFileGoes
<1>4. CASE MarkClosing
  <2>1. SourceTyped'
    BY <1>4 DEF MarkClosing, taskVars, vars, inputVars, SourceInv, SourceTyped
  <2> QED
    BY <1>4, <2>1, CallGoesOn DEF MarkClosing, Call, taskVars, vars, inputVars
<1>5. CASE Destroy
  BY <1>5, DestroyGoes
<1>6. CASE BeginRuns
  BY <1>6, BeginRunsGoes, ProcessFinds DEF BeginRuns
<1>7. CASE ContinueRun
  <2>1. CASE todo' = Tail(todo)
    BY <1>7, <2>1, ContinueRunGoes, ProcessFinds DEF ContinueRun
  <2>2. CASE throws' = throws + 1 /\ todo' = EndJob
    BY <1>7, <2>2, ContinueRunGoes, ThrowFinds
  <2> QED
    BY <1>7, <2>1, <2>2 DEF ContinueRun, Try, ThrowOut
<1>8. CASE Wait
  BY <1>8, WaitGoes
<1>9. CASE EndUnfinishedLumi
  <2>1. SourceTyped'
    BY <1>9 DEF EndUnfinishedLumi, inputVars, SourceInv, SourceTyped
  <2> QED
    BY <1>9, <2>1, CallGoesOn DEF EndUnfinishedLumi, Call, inputVars
<1>10. CASE EndUnfinishedRun
  <2>1. /\ Call("endRun") /\ todo' = Tail(todo) /\ UNCHANGED <<input, mayStop, log, throws>>
        /\ UNCHANGED src \/ src' = [src EXCEPT !.kind = "Stop"]
    BY <1>10 DEF EndUnfinishedRun, inputVars
  <2>2. SourceTyped
    BY DEF SourceInv
  <2>3. SourceTyped' /\ src'.pos = src.pos
    BY <2>1, <2>2 DEF SourceTyped, Kinds
  <2> QED
    BY <2>1, <2>3, CallGoesOn DEF Call
<1>11. CASE WaitEnd
  <2>1. SourceTyped'
    BY <1>11 DEF WaitEnd, taskVars, vars, inputVars, SourceInv, SourceTyped
  <2> QED
    BY <1>11, <2>1, CallGoesOn DEF WaitEnd, Call, taskVars, vars, inputVars
<1> QED
  BY <1>1, <1>2, <1>3, <1>4, <1>5, <1>6, <1>7, <1>8, <1>9, <1>10, <1>11 DEF MainStep

-----------------------------------------------------------------------------
(* Every step.                                                             *)

LEMMA TaskStepInput == TaskStep => UNCHANGED inputVars
<1>1. ASSUME NEW r \in DOMAIN runs, RunStep(r) PROVE UNCHANGED inputVars
  BY <1>1 DEF RunStep, SyncRun, StartRun, ReadRun, MergeRun, GlobalBeginRun, NextItem, SyncEndRun,
              GlobalEndRun
<1>2. ASSUME NEW l \in DOMAIN lumis, LumiStep(l) PROVE UNCHANGED inputVars
  BY <1>2 DEF LumiStep, SyncLumi, StartLumi, ReadLumi, MergeLumi, GlobalBeginLumi, GlobalEndLumi
<1>3. ASSUME NEW s \in Streams, StreamStep(s) PROVE UNCHANGED inputVars
  BY <1>3 DEF StreamStep, StreamTake, StreamBeginRun, StreamReady, StreamResume, ReadEvent,
              SourceThrows, NoEvent, StreamEndLumi, StreamEndRun
<1> QED
  BY <1>1, <1>2, <1>3 DEF TaskStep

LEMMA TaskStepFinds ==
  ASSUME JobInv, JobInv', SourceInv, Numbers, TaskStep, UNCHANGED mainVars
  PROVE  Goes /\ MainFinds'
<1>1. UNCHANGED <<input, mayStop, inputVars, todo>>
  BY TaskStepInput DEF inputVars, mainVars
<1>2. CASE Call("wait")
  <2>1. Reads
    BY <1>1, <1>2 DEF Reads, JobInv, SourceInv
  <2>2. Goes
    BY <2>1, TaskStepGoes
  <2>3. todo' = <<"wait">>
    BY <1>1, <1>2, WaitIsLast
  <2>4. ToDo("wait")' /\ ~ToDo("readFile")' /\ ~ToDo("next")' /\ ~Call("processRuns")'
    BY <2>3 DEF ToDo, Call
  <2> QED
    BY <2>2, <2>4 DEF MainFinds
<1>3. CASE ~Call("wait")
  <2>1. UNCHANGED <<src, log>>
    BY <1>3, SourceUntouched
  <2>2. SourceTyped' /\ InOrder'
    BY <1>1, <2>1, SourceStill DEF SourceInv
  <2>3. ~Call("wait")'
    BY <1>1, <1>3 DEF Call
  <2>4. throws' = 0 => throws = 0
    <3>1. throws \in Nat
      BY DEF JobInv, TaskInv, Shape
    <3>2. throws' = throws \/ throws' = throws + 1
      BY TaskTells DEF TryAndTell, Try
    <3> QED
      BY <3>1, <3>2
  <2>5. \A name : ToDo(name)' <=> ToDo(name)
    BY <1>1 DEF ToDo
  <2>6. AtHand' = AtHand /\ Taken' = Taken /\ Call("processRuns")' = Call("processRuns")
    BY <1>1, <2>1 DEF AtHand, Taken, Item, Call
  <2>7. MainFinds
    BY DEF SourceInv
  <2>8. MainFinds'
    BY <1>1, <2>1, <2>4, <2>5, <2>6, <2>7 DEF MainFinds
  <2> QED
    BY <2>2, <2>3, <2>8, FoundUnlessWaitThen DEF Goes
<1> QED
  BY <1>2, <1>3

LEMMA SourceInvStep ==
  ASSUME JobInv, JobInv', SourceInv, Numbers, MainStep \/ (TaskStep /\ UNCHANGED mainVars)
  PROVE  SourceInv'
<1>1. CASE MainStep
  BY <1>1, MainStepGoes DEF Numbers, Goes, SourceInv
<1>2. CASE TaskStep /\ UNCHANGED mainVars
  BY <1>2, TaskStepFinds DEF Goes, SourceInv
<1> QED
  BY <1>1, <1>2

-----------------------------------------------------------------------------
(* The numbers stay within their bounds.                                   *)

LumiNumbers(x) ==
  /\ x.num \in Nat /\ x.joined \in 0..N /\ x.toEnd \in 0..N
  /\ x.state \in {"processing", "pause", "stop"} /\ (x.state = "stop" => x.started)
  /\ x.phase \in Coming => x.state = "processing"

RunsKept(rs)  == DOMAIN rs = DOMAIN runs /\ \A r \in DOMAIN runs : rs[r].num = runs[r].num
LumisKept(ls) == DOMAIN ls = DOMAIN lumis /\ \A l \in DOMAIN lumis : LumiNumbers(ls[l])

RunsKeptOrMade  == RunsKept(runs') \/ \E rs : RunsKept(rs) /\ RunMade(rs)
LumisKeptOrMade == LumisKept(lumis') \/ \E ls : \E r : LumisKept(ls) /\ LumiMade(ls, r)

AllNumbers == /\ \A l \in DOMAIN lumis : LumiNumbers(lumis[l])
              /\ \A r \in DOMAIN runs : runs[r].num \in Nat

LEMMA RunToKeeps ==
  ASSUME NEW rs, NEW r \in DOMAIN runs, NEW a, NEW b, NEW c, NEW d, RunTo(rs, r, a, b, c, d)
  PROVE  RunsKept(rs)
BY DEF RunTo, RunsKept

LEMMA RunMovesKeeps ==
  ASSUME NEW rs, NEW r \in DOMAIN runs, NEW a, RunMoves(rs, r, a)
  PROVE  RunsKept(rs)
BY RunToKeeps DEF RunMoves

LEMMA UntouchedRuns ==
  ASSUME UNCHANGED runs
  PROVE  RunsKeptOrMade
BY DEF RunsKeptOrMade, RunsKept

LEMMA UntouchedLumis ==
  ASSUME AllNumbers, UNCHANGED lumis
  PROVE  LumisKeptOrMade
<1>1. LumisKept(lumis)
  BY DEF LumisKept, AllNumbers
<1> QED
  BY <1>1 DEF LumisKeptOrMade

LEMMA LumiMadeKeeps == AllNumbers /\ (\E r : LumiMade(lumis, r)) => LumisKeptOrMade
BY DEF LumisKeptOrMade, LumisKept, AllNumbers

LEMMA LumiToKeeps ==
  ASSUME AllNumbers, NEW ls, NEW l \in DOMAIN lumis, NEW phase, NEW noMore, NEW state, NEW started,
         NEW joined \in 0..N, NEW toEnd \in 0..N,
         LumiTo(ls, l, phase, noMore, state, started, joined, toEnd),
         state \in {"processing", "pause", "stop"}, state = "stop" => started,
         phase \in Coming => state = "processing"
  PROVE  LumisKept(ls)
<1>1. LumiNumbers(ls[l])
  BY DEF LumiTo, LumiNumbers, AllNumbers
<1> QED
  BY <1>1 DEF LumiTo, LumisKept, AllNumbers

LEMMA LumiMovesKeeps ==
  ASSUME AllNumbers, NEW l \in DOMAIN lumis, NEW phase, LumiMoves(l, phase),
         phase \in Coming => lumis[l].phase \in Coming
  PROVE  LumisKeptOrMade
<1>1. LumiNumbers(lumis[l])
  BY DEF AllNumbers
<1>2. LumisKept(lumis')
  BY <1>1, LumiToKeeps DEF LumiMoves, LumiNumbers
<1> QED
  BY <1>2 DEF LumisKeptOrMade

LEMMA GoesOnKeeps ==
  ASSUME AllNumbers, NEW r, NEW phase, GoesOn(r, phase)
  PROVE  LumisKeptOrMade
<1>1. CASE UNCHANGED lumis
  BY <1>1, UntouchedLumis
<1>2. CASE LumiMade(lumis, r)
  BY <1>2, LumiMadeKeeps
<1> QED
  BY <1>1, <1>2 DEF GoesOn

LEMMA RunChangeKeeps ==
  ASSUME AllNumbers, NEW r \in DOMAIN runs, RunChange(r)
  PROVE  RunsKeptOrMade /\ LumisKeptOrMade
<1>1. ASSUME NEW phase \in RunPhases, RunAdvances(r, phase) PROVE RunsKept(runs') /\ LumisKeptOrMade
  BY <1>1, RunMovesKeeps, UntouchedLumis DEF RunAdvances
<1>2. ASSUME NEW phase \in RunPhases, RunGoesOn(r, phase) PROVE RunsKept(runs') /\ LumisKeptOrMade
  BY <1>2, RunMovesKeeps, GoesOnKeeps DEF RunGoesOn
<1>3. ASSUME NEW phase \in RunPhases, RunBegins(r, phase) PROVE RunsKept(runs') /\ LumisKeptOrMade
  BY <1>3, RunMovesKeeps, GoesOnKeeps, UntouchedLumis DEF RunBegins
<1>4. ASSUME NEW rs, RunEnds(r, rs) PROVE RunsKeptOrMade /\ LumisKeptOrMade
  <2>1. RunsKept(rs) /\ (runs' = rs \/ RunMade(rs)) /\ LumisKeptOrMade
    BY <1>4, RunMovesKeeps, UntouchedLumis DEF RunEnds
  <2> QED
    BY <2>1 DEF RunsKeptOrMade
<1> QED
  BY <1>1, <1>2, <1>3, <1>4 DEF RunChange, RunsKeptOrMade

LEMMA LumiChangeKeeps ==
  ASSUME TaskInv, AllNumbers, NEW l \in DOMAIN lumis, LumiChange(l)
  PROVE  RunsKeptOrMade /\ LumisKeptOrMade
<1>0. lumis[l].run \in DOMAIN runs
  BY InList
<1>1. ASSUME NEW phase \in LumiPhases, LumiAdvances(l, phase) PROVE RunsKeptOrMade /\ LumisKeptOrMade
  BY <1>1, UntouchedRuns, LumiMovesKeeps DEF LumiAdvances, Coming
<1>2. CASE LumiDropped(l)
  BY <1>0, <1>2, RunMovesKeeps, LumiMovesKeeps DEF LumiDropped, RunsKeptOrMade, Coming
<1>3. CASE LumiUnbegun(l)
  BY <1>0, <1>3, RunToKeeps, LumiMovesKeeps DEF LumiUnbegun, Counts, RunsKeptOrMade, Coming
<1>4. CASE LumiBegins(l)
  BY <1>0, <1>4, RunToKeeps, LumiMovesKeeps DEF LumiBegins, Counts, RunsKeptOrMade, Coming
<1>5. CASE LumiEnds(l)
  BY <1>0, <1>5, RunToKeeps, LumiMovesKeeps DEF LumiEnds, Counts, RunsKeptOrMade, Coming
<1> QED
  BY <1>1, <1>2, <1>3, <1>4, <1>5 DEF LumiChange

LEMMA StreamsAmong ==
  ASSUME NEW S, S \subseteq Streams
  PROVE  Cardinality(S) \in 0..N /\ (S # {} => Cardinality(S) # 0)
<1>1. IsFiniteSet(S) /\ Cardinality(S) <= N
  BY EventProcessorAssumption, FS_Subset DEF N
<1>2. Cardinality(S) \in Nat /\ (Cardinality(S) = 0 <=> S = {})
  BY <1>1, FS_CardinalityType, FS_EmptySet
<1> QED
  BY <1>1, <1>2, NFacts

(* A luminosity block with a stream in it is open, and its counts are      *)
(* numbers of streams.                                                     *)
LEMMA InCounted ==
  ASSUME TaskInv, NEW l \in DOMAIN lumis, In(l) # {}
  PROVE  lumis[l].phase = "open" /\ (lumis[l].noMore => lumis[l].toEnd \in 1..N)
<1>1. Cardinality(In(l)) \in 0..N /\ (In(l) # {} => Cardinality(In(l)) # 0)
  BY StreamsAmong DEF In
<1>2. lumis[l].phase = "open" /\ (lumis[l].noMore => lumis[l].toEnd = Cardinality(In(l)))
  BY DEF TaskInv, LumisCounted
<1> QED
  BY <1>1, <1>2, NFacts

LEMMA StreamChangeKeeps ==
  ASSUME TaskInv, TaskInv', AllNumbers, NEW s \in Streams, StreamChange(s)
  PROVE  RunsKeptOrMade /\ LumisKeptOrMade
<1>0. PICK l : l = stream[s].lumi
  OBVIOUS
<1>1. l # 0 => l \in DOMAIN lumis /\ LumiNumbers(lumis[l]) /\ lumis[l].phase = "open"
               /\ lumis[l].run \in DOMAIN runs /\ s \in In(l)
  <2> SUFFICES ASSUME l # 0 PROVE l \in DOMAIN lumis /\ s \in In(l)
    BY InCounted, InList DEF AllNumbers
  <2> QED
    BY <1>0 DEF TaskInv, StreamsPlaced, InPlace, In
<1>2. stream[s].doing \in {"next", "endLumi"} => l # 0
  BY <1>0 DEF TaskInv, StreamsPlaced, InPlace
<1>3. stream[s].doing \in {"beginRun", "endRun"} => stream[s].run \in DOMAIN runs
  BY DEF TaskInv, StreamsPlaced, InPlace
<1>4. CASE BeginsRun(s) \/ EndsRun(s) \/ Skips(s)
  BY <1>4, UntouchedRuns, UntouchedLumis DEF BeginsRun, EndsRun, Skips, Takes
<1>5. CASE Joins(s)
  <2> PICK k : k = Head(stream[s].queue)[2]
    OBVIOUS
  <2> PICK task : task = Head(stream[s].queue)
    OBVIOUS
  <2>0. /\ stream[s].queue # <<>> /\ task[1] = "beginLumi"
        /\ task \in StreamTasks /\ task[2] \in DOMAIN lumis
        /\ stream[s].queue[1] = task /\ 1 \in DOMAIN stream[s].queue
    BY <1>5, HeadFacts DEF Joins, Takes
  <2>01. task = <<"beginLumi", k>>
    BY <2>0 DEF StreamTasks
  <2>1. k \in DOMAIN lumis /\ Queued(s, <<"beginLumi", k>>)
    BY <2>0, <2>01 DEF Queued
  <2>2. ~lumis[k].noMore /\ lumis[k].phase = "open"
    BY <1>5, <2>1 DEF Joins, TaskInv, LumisJoined
  <2>3. LumiTo(lumis', k, lumis[k].phase, lumis[k].noMore, lumis[k].state, lumis[k].started,
               lumis[k].joined + 1, lumis[k].toEnd)
    BY <1>5 DEF Joins
  <2>4. k \in DOMAIN lumis' /\ lumis'[k].phase = "open" /\ ~lumis'[k].noMore
        /\ lumis'[k].joined = lumis[k].joined + 1
    BY <2>1, <2>2, <2>3 DEF LumiTo
  <2>5. lumis[k].joined + 1 \in 0..N
    <3>1. lumis'[k].joined = Cardinality(In(k)')
      BY <2>4 DEF TaskInv, LumisCounted
    <3>2. Cardinality(In(k)') \in 0..N
      BY StreamsAmong DEF In
    <3> QED
      BY <2>4, <3>1, <3>2
  <2>6. LumiNumbers(lumis[k])
    BY <2>1 DEF AllNumbers
  <2>7. LumisKept(lumis')
    BY <2>1, <2>3, <2>5, <2>6, LumiToKeeps DEF LumiNumbers
  <2> QED
    BY <1>5, <2>7, UntouchedRuns DEF Joins, Takes, LumisKeptOrMade
<1>6. CASE HasBegun(s) \/ HasEnded(s)
  BY <1>3, <1>6, RunToKeeps, UntouchedLumis DEF HasBegun, HasEnded, RunsKeptOrMade
<1>7. ASSUME NEW doing \in Doings, Does(s, doing) PROVE RunsKeptOrMade /\ LumisKeptOrMade
  BY <1>7, UntouchedRuns, UntouchedLumis DEF Does
<1>8. CASE Pauses(s)
  <2>1. l # 0 /\ RunMoves(runs', lumis[l].run, runs[lumis[l].run].phase)
        /\ LumiTo(lumis', l, lumis[l].phase, lumis[l].noMore, "pause", lumis[l].started,
                  lumis[l].joined, lumis[l].toEnd)
    BY <1>0, <1>2, <1>8 DEF Pauses
  <2>2. LumisKept(lumis')
    BY <1>1, <2>1, LumiToKeeps DEF LumiNumbers, Coming
  <2> QED
    BY <1>1, <2>1, <2>2, RunMovesKeeps DEF LumisKeptOrMade, RunsKeptOrMade
<1>9. CASE Leaves(s)
  <2>1. /\ l # 0 /\ UNCHANGED runs
        /\ LumiTo(lumis', l, IF lumis[l].toEnd = 1 THEN "end" ELSE lumis[l].phase, lumis[l].noMore,
                  lumis[l].state, lumis[l].started, lumis[l].joined, lumis[l].toEnd - 1)
    BY <1>0, <1>2, <1>9 DEF Leaves
  <2>2. lumis[l].noMore
    BY <1>1, <1>9, <2>1 DEF Leaves, TaskInv, LumisJoined
  <2>3. lumis[l].toEnd - 1 \in 0..N
    BY <1>1, <2>1, <2>2, InCounted, NFacts
  <2>4. LumisKept(lumis')
    BY <1>1, <2>1, <2>3, LumiToKeeps DEF LumiNumbers, Coming
  <2> QED
    BY <2>1, <2>4, UntouchedRuns DEF LumisKeptOrMade
<1>10. ASSUME NEW ls, Stops(s, ls) PROVE RunsKeptOrMade /\ LumisKeptOrMade
  <2>1. /\ l # 0
        /\ LumiTo(ls, l, lumis[l].phase, TRUE, "stop", TRUE, lumis[l].joined, lumis[l].joined)
        /\ \/ LumiMade(ls, lumis[l].run) /\ UNCHANGED runs
           \/ lumis' = ls /\ RunMoves(runs', lumis[l].run, "endSync")
    BY <1>0, <1>2, <1>10 DEF Stops
  <2>2. LumisKept(ls)
    BY <1>1, <2>1, LumiToKeeps DEF LumiNumbers, Coming
  <2> QED
    BY <1>1, <2>1, <2>2, RunMovesKeeps, UntouchedRuns DEF LumisKeptOrMade, RunsKeptOrMade
<1> QED
  BY <1>4, <1>5, <1>6, <1>7, <1>8, <1>9, <1>10 DEF StreamChange

LEMMA IdleCounted ==
  ASSUME TaskInv, NEW l \in DOMAIN lumis, Idle(l)
  PROVE  lumis[l].phase = "open"
<1>1. PICK s \in Streams : TRUE
  BY EventProcessorAssumption
<1>2. s \in In(l)
  BY <1>1 DEF Idle, In
<1> QED
  BY <1>2, InCounted

LEMMA MainChangeKeeps ==
  ASSUME TaskInv, AllNumbers,
         MakesRun \/ \E l \in DOMAIN lumis : Resumes(l) \/ CallsOff(l)
  PROVE  RunsKeptOrMade /\ LumisKeptOrMade
<1>1. CASE MakesRun
  BY <1>1, UntouchedLumis DEF MakesRun, RunsKeptOrMade, RunsKept
<1>2. ASSUME NEW l \in DOMAIN lumis, Resumes(l) PROVE RunsKeptOrMade /\ LumisKeptOrMade
  <2>1. LumisKept(lumis')
    BY <1>2, IdleCounted, LumiToKeeps DEF Resumes, LumiNumbers, AllNumbers, Coming
  <2> QED
    BY <1>2, <2>1, InList, RunMovesKeeps DEF Resumes, LumisKeptOrMade, RunsKeptOrMade
<1>3. ASSUME NEW l \in DOMAIN lumis, CallsOff(l) PROVE RunsKeptOrMade /\ LumisKeptOrMade
  <2>1. LumisKept(lumis')
    BY <1>3, IdleCounted, LumiToKeeps DEF CallsOff, LumiNumbers, AllNumbers, Coming
  <2> QED
    BY <1>3, <2>1, UntouchedRuns DEF CallsOff, LumisKeptOrMade
<1> QED
  BY <1>1, <1>2, <1>3

LEMMA ChangeKeeps ==
  ASSUME TaskInv, TaskInv', AllNumbers, Change
  PROVE  RunsKeptOrMade /\ LumisKeptOrMade
BY RunChangeKeeps, LumiChangeKeeps, StreamChangeKeeps, MainChangeKeeps, UntouchedRuns,
   UntouchedLumis DEF Change

LEMMA ItemNumbers == SourceTyped /\ InOrder /\ AtHand => Item.run \in Nat /\ Item.lumi \in Nat
<1> SUFFICES ASSUME SourceTyped, InOrder, AtHand PROVE Item.run \in Nat /\ Item.lumi \in Nat
  OBVIOUS
<1>1. /\ Len(input) \in Nat \ {0} /\ DOMAIN input = 1..Len(input)
      /\ \A i \in DOMAIN input : input[i].run \in Nat /\ input[i].lumi \in Nat
  BY InputFacts DEF SourceTyped
<1>2. src.pos \in 0..Len(input) /\ Len(log) \in Nat /\ src.pos = Len(log) + 1
  BY DEF SourceTyped, InOrder, AtHand
<1>3. src.pos \in DOMAIN input
  BY <1>1, <1>2
<1> QED
  BY <1>1, <1>3 DEF Item

LEMMA ItemNumbersThen == SourceTyped' /\ InOrder' /\ AtHand' => Item'.run \in Nat /\ Item'.lumi \in Nat
<1>1. (SourceTyped /\ InOrder /\ AtHand => Item.run \in Nat /\ Item.lumi \in Nat)'
  BY ItemNumbers, PTL
<1> QED
  BY <1>1

(* A new run, or luminosity block, has the number of the item at hand.     *)
LEMMA AllNumbersStep ==
  ASSUME TaskInv, TaskInv', AllNumbers, SourceInv', Change
  PROVE  AllNumbers'
<1>1. RunsKeptOrMade /\ LumisKeptOrMade
  BY ChangeKeeps
<1>2. ASSUME NEW r \in DOMAIN runs', runs'[r].phase = "sync" PROVE runs'[r].num \in Nat
  <2>1. RunNeeds(runs'[r]) = "item"
    BY <1>2 DEF RunNeeds
  <2>2. AtHand' /\ Item'.run = runs'[r].num
    BY <2>1 DEF SourceInv, Found, RunFinds
  <2> QED
    BY <2>2, ItemNumbersThen DEF SourceInv
<1>3. ASSUME NEW l \in DOMAIN lumis', lumis'[l].phase = "sync" PROVE lumis'[l].num \in Nat
  <2>1. LumiNeeds(lumis'[l]) = "item"
    BY <1>3 DEF LumiNeeds
  <2>2. AtHand' /\ Item'.lumi = lumis'[l].num
    BY <2>1 DEF SourceInv, Found, LumiFinds
  <2> QED
    BY <2>2, ItemNumbersThen DEF SourceInv
<1>4. \A r \in DOMAIN runs' : runs'[r].num \in Nat
  <2>1. CASE RunsKept(runs')
    BY <2>1 DEF RunsKept, AllNumbers
  <2>2. CASE \E rs : RunsKept(rs) /\ RunMade(rs)
    BY <1>2, <2>2 DEF RunsKept, RunMade, AllNumbers
  <2> QED
    BY <1>1, <2>1, <2>2 DEF RunsKeptOrMade
<1>5. \A l \in DOMAIN lumis' : LumiNumbers(lumis'[l])
  <2>1. CASE LumisKept(lumis')
    BY <2>1 DEF LumisKept
  <2>2. ASSUME NEW ls, NEW r, LumisKept(ls), LumiMade(ls, r)
        PROVE  \A l \in DOMAIN lumis' : LumiNumbers(lumis'[l])
    <3> PICK k : k = Len(ls) + 1
      OBVIOUS
    <3>1. /\ DOMAIN lumis' = DOMAIN ls \cup {k} /\ k \in DOMAIN lumis'
          /\ \A l \in DOMAIN ls : lumis'[l] = ls[l]
          /\ lumis'[k].phase = "sync" /\ lumis'[k].joined = 0 /\ lumis'[k].toEnd = 0
          /\ lumis'[k].state = "processing"
      BY <2>2 DEF LumiMade
    <3>2. LumiNumbers(lumis'[k])
      BY <1>3, <3>1, NFacts DEF LumiNumbers
    <3> QED
      BY <2>2, <3>1, <3>2 DEF LumisKept
  <2> QED
    BY <1>1, <2>1, <2>2 DEF LumisKeptOrMade
<1> QED
  BY <1>4, <1>5 DEF AllNumbers

FlagNumbers ==
  /\ throws <= MaxThrows /\ (failed => throws > 0)
  /\ files \in [exist : BOOLEAN, needClose : BOOLEAN, closeFailed : BOOLEAN, outs : BOOLEAN,
                lost : BOOLEAN]
  /\ primary \in BOOLEAN /\ deferred \in BOOLEAN

LEMMA NumbersAre == Numbers <=> AllNumbers /\ FlagNumbers
<1>1. \A l \in DOMAIN lumis : LumiNumbers(lumis[l]) <=>
        /\ lumis[l].num \in Nat /\ lumis[l].joined \in 0..N /\ lumis[l].toEnd \in 0..N
        /\ lumis[l].state \in {"processing", "pause", "stop"}
        /\ lumis[l].state = "stop" => lumis[l].started
        /\ lumis[l].phase \in Coming => lumis[l].state = "processing"
  BY DEF LumiNumbers
<1> QED
  BY <1>1 DEF Numbers, AllNumbers, FlagNumbers

LEMMA Thrown ==
  ASSUME throws \in Nat, throws <= MaxThrows, failed => throws > 0, NEW x \in BOOLEAN, Try(x)
  PROVE  throws' <= MaxThrows /\ throws' >= throws /\ (x => throws' > 0)
BY EventProcessorAssumption DEF Try

LEMMA FlagNumbersStep ==
  ASSUME JobInv, FlagNumbers, MainStep \/ (TaskStep /\ UNCHANGED mainVars)
  PROVE  FlagNumbers'
<1>0. /\ throws \in Nat /\ throws <= MaxThrows /\ (failed => throws > 0)
      /\ files \in [exist : BOOLEAN, needClose : BOOLEAN, closeFailed : BOOLEAN, outs : BOOLEAN,
                    lost : BOOLEAN]
      /\ primary \in BOOLEAN /\ deferred \in BOOLEAN /\ failed \in BOOLEAN
  BY DEF FlagNumbers, JobInv, TaskInv, Shape
<1>1. CASE TaskStep /\ UNCHANGED mainVars
  <2>1. throws' <= MaxThrows /\ (failed' => throws' > 0)
    <3>1. CASE UNCHANGED <<failed, throws>>
      BY <1>0, <3>1
    <3>2. ASSUME NEW x \in BOOLEAN, TryAndTell(x) PROVE throws' <= MaxThrows /\ (failed' => throws' > 0)
      BY <1>0, <3>2, EventProcessorAssumption DEF TryAndTell, Try
    <3> QED
      BY <1>1, <3>1, <3>2, TaskTells
  <2> QED
    BY <1>0, <1>1, <2>1 DEF FlagNumbers, mainVars
<1>2. CASE MainStep
  <2>1. throws' <= MaxThrows /\ (failed' => throws' > 0)
    <3>1. ASSUME UNCHANGED throws, failed' = failed \/ failed' = FALSE
          PROVE  throws' <= MaxThrows /\ (failed' => throws' > 0)
      BY <1>0, <3>1
    <3>2. ASSUME NEW x \in BOOLEAN, Try(x), failed' = failed \/ failed' = x \/ failed' = FALSE
          PROVE  throws' <= MaxThrows /\ (failed' => throws' > 0)
      <4>1. throws' <= MaxThrows /\ throws' >= throws /\ throws' \in Nat /\ (x => throws' > 0)
        BY <1>0, <3>2, EventProcessorAssumption DEF Try
      <4>2. CASE failed
        BY <1>0, <4>1, <4>2
      <4>3. CASE ~failed
        <5>1. failed' => x
          BY <3>2, <4>3
        <5> QED
          BY <4>1, <5>1
      <4> QED
        BY <4>2, <4>3
    <3>3. CASE MarkClosing \/ Destroy \/ BeginRuns \/ Wait \/ EndUnfinishedLumi \/ EndUnfinishedRun \/ WaitEnd
      <4>1. UNCHANGED throws /\ (failed' = failed \/ failed' = FALSE)
        BY <3>3 DEF MarkClosing, Destroy, BeginRuns, Wait, EndUnfinishedLumi, EndUnfinishedRun, WaitEnd,
                    taskVars, vars
      <4> QED
        BY <3>1, <4>1
    <3>4. CASE NextTransition \/ OpenFile \/ CloseFile \/ ContinueRun
      <4>1. \E x \in BOOLEAN : Try(x) /\ (failed' = failed \/ failed' = x \/ failed' = FALSE)
        BY <3>4, Zenon DEF NextTransition, OpenFile, CloseFile, ContinueRun
      <4> QED
        BY <3>2, <4>1
    <3> QED
      BY <1>2, <3>3, <3>4 DEF MainStep
  <2>2. files' \in [exist : BOOLEAN, needClose : BOOLEAN, closeFailed : BOOLEAN, outs : BOOLEAN,
                    lost : BOOLEAN]
    <3>1. CASE NextTransition \/ BeginRuns \/ ContinueRun \/ Wait \/ EndUnfinishedLumi
               \/ EndUnfinishedRun \/ WaitEnd
      <4>1. UNCHANGED files
        BY <3>1, Zenon DEF NextTransition, BeginRuns, ContinueRun, Wait, EndUnfinishedLumi,
                    EndUnfinishedRun, WaitEnd, ThrowOut
      <4> QED
        BY <1>0, <4>1
    <3>2. CASE OpenFile
      BY <1>0, <3>2 DEF OpenFile, ThrowOut
    <3>3. CASE CloseFile
      BY <1>0, <3>3 DEF CloseFile
    <3>4. CASE MarkClosing \/ Destroy
      BY <1>0, <3>4 DEF MarkClosing, Destroy
    <3> QED
      BY <1>2, <3>1, <3>2, <3>3, <3>4 DEF MainStep
  <2>3. primary' \in BOOLEAN /\ deferred' \in BOOLEAN
    <3>1. primary' = primary \/ primary' = TRUE
      BY <1>2, Zenon DEF MainStep, NextTransition, OpenFile, CloseFile, MarkClosing, Destroy, BeginRuns,
                  ContinueRun, Wait, EndUnfinishedLumi, EndUnfinishedRun, WaitEnd, ThrowOut
    <3>2. deferred' = deferred \/ \E x : deferred' = Deferred(x)
      BY <1>2, Zenon DEF MainStep, NextTransition, OpenFile, CloseFile, MarkClosing, Destroy, BeginRuns,
                  ContinueRun, Wait, EndUnfinishedLumi, EndUnfinishedRun, WaitEnd, ThrowOut
    <3>3. \A x : Deferred(x) \in BOOLEAN
      BY Zenon DEF Deferred
    <3> QED
      BY <1>0, <3>1, <3>2, <3>3
  <2> QED
    BY <2>1, <2>2, <2>3 DEF FlagNumbers
<1> QED
  BY <1>1, <1>2

LEMMA SourceInit == MainInit => Numbers /\ SourceInv
<1> SUFFICES ASSUME MainInit PROVE Numbers /\ SourceInv
  OBVIOUS
<1>1. /\ input \in Inputs /\ src = [pos |-> 0, kind |-> "Stop", needNext |-> TRUE]
      /\ runs = <<>> /\ lumis = <<>> /\ log = <<>> /\ failed = FALSE /\ throws = 0
      /\ todo = <<"next">> /\ primary = FALSE /\ deferred = FALSE
      /\ files = [exist |-> FALSE, needClose |-> FALSE, closeFailed |-> FALSE, outs |-> FALSE,
                  lost |-> FALSE]
  BY DEF MainInit, Init
<1>2. Numbers
  <2>1. DOMAIN runs = {} /\ DOMAIN lumis = {}
    BY <1>1
  <2>2. AllNumbers
    BY <2>1 DEF AllNumbers
  <2>3. throws <= MaxThrows
    BY <1>1, EventProcessorAssumption
  <2>4. FlagNumbers
    BY <1>1, <2>3 DEF FlagNumbers
  <2> QED
    BY <2>2, <2>4, NumbersAre
<1>3. Len(input) \in Nat \ {0}
  BY <1>1, InputFacts
<1>4. SourceTyped
  BY <1>1, <1>3 DEF SourceTyped, Kinds
<1>5. InOrder
  BY <1>1, <1>3 DEF InOrder
<1>6. ToDo("next") /\ ~ToDo("readFile") /\ ~Call("wait") /\ ~Call("processRuns")
  BY <1>1 DEF ToDo, Call
<1>7. Found
  BY <1>6, JobInvInit, FoundUnlessWait
<1>8. MainFinds
  BY <1>1, <1>6 DEF MainFinds, Taken
<1> QED
  BY <1>2, <1>4, <1>5, <1>7, <1>8 DEF SourceInv

LEMMA SameSource ==
  ASSUME Numbers, SourceInv, UNCHANGED <<taskVars, todo, files, primary, deferred>>
  PROVE  Numbers' /\ SourceInv'
<1>1. UNCHANGED vars /\ UNCHANGED <<todo, files, primary, deferred>>
  BY DEF taskVars
<1>2. Numbers' = Numbers
  BY <1>1 DEF vars, Numbers
<1>3. SourceTyped' = SourceTyped /\ InOrder' = InOrder
  BY <1>1 DEF vars, inputVars, SourceTyped, InOrder
<1>4. Found' = Found
  BY <1>1 DEF vars, inputVars, Found, RunFinds, LumiFinds, NoNeed, ForMain, Streaming, Call,
     AtHand, Taken, InHand, LastWas, SameEntry, NumOfRun, Fits, In, Item
<1>5. MainFinds' = MainFinds
  BY <1>1 DEF vars, inputVars, MainFinds, ToDo, Taken, AtHand, Call, Item
<1> QED
  BY <1>2, <1>3, <1>4, <1>5 DEF SourceInv

LEMMA SourceStep ==
  ASSUME JobInv, JobInv', Numbers, SourceInv, [Next]_allVars
  PROVE  Numbers' /\ SourceInv'
<1>1. CASE Crash \/ UNCHANGED allVars
  BY <1>1, SameSource DEF Crash, allVars, mainVars
<1>2. CASE MainStep \/ (TaskStep /\ UNCHANGED mainVars)
  <2>1. SourceInv'
    BY <1>2, SourceInvStep
  <2>2. Change
    BY <1>2, MainStepChange, TaskStepChange DEF JobInv
  <2>3. AllNumbers /\ FlagNumbers
    BY NumbersAre
  <2>4. AllNumbers'
    BY <2>1, <2>2, <2>3, AllNumbersStep DEF JobInv
  <2>5. FlagNumbers'
    BY <1>2, <2>3, FlagNumbersStep
  <2>6. (Numbers <=> AllNumbers /\ FlagNumbers)'
    BY NumbersAre, PTL
  <2> QED
    BY <2>1, <2>4, <2>5, <2>6
<1> QED
  BY <1>1, <1>2 DEF Next

(* The source is where the tasks and the main thread expect it to be:      *)
(* whoever reads next, a run, a luminosity block, a stream or the main     *)
(* thread, finds the item that is its own, and nobody else needs it        *)
(* (lastSourceTransition_ and needToCallNext_).                            *)
THEOREM SourceInvariant == Spec => [](Numbers /\ SourceInv)
<1>1. MainInit => Numbers /\ SourceInv
  BY SourceInit
<1>2. JobInv /\ JobInv' /\ Numbers /\ SourceInv /\ [Next]_allVars => Numbers' /\ SourceInv'
  BY SourceStep
<1> QED
  BY <1>1, <1>2, JobInvariant, PTL DEF Spec

(* The items of the source are handled in the order in which it gives      *)
(* them, each once and in its own run and luminosity block, whatever the   *)
(* order of the tasks and whoever throws, and for whatever input; none is  *)
(* left when the job ends with no exception and no stop.                   *)
THEOREM SourceAlwaysInOrder == Spec => []SourceReadInOrder
<1>1. SourceInv => SourceReadInOrder
  <2> SUFFICES ASSUME SourceInv, todo = <<>>, throws = 0, ~mayStop PROVE Len(log) = Len(input) - 1
    BY DEF SourceInv, InOrder, SourceReadInOrder
  <2>1. ~ToDo("next") /\ ~ToDo("wait")
    BY DEF ToDo
  <2> QED
    BY <2>1 DEF SourceInv, MainFinds
<1> QED
  BY <1>1, SourceInvariant, PTL

-----------------------------------------------------------------------------
(* The types.                                                              *)

LEMMA PartOfList ==
  ASSUME NEW n \in Nat, NEW S, S \subseteq 1..n
  PROVE  Cardinality(S) \in 0..n
<1>1. IsFiniteSet(1..n) /\ Cardinality(1..n) = n
  BY FS_Interval
<1>2. IsFiniteSet(S) /\ Cardinality(S) <= n
  BY <1>1, FS_Subset
<1> QED
  BY <1>2, FS_CardinalityType

LEMMA RunTyped ==
  ASSUME TaskInv, Numbers, NEW r \in DOMAIN runs
  PROVE  runs[r] \in [num : Nat, phase : RunPhases, holds : BOOLEAN, ok : BOOLEAN, esOK : BOOLEAN,
                      toBegin : 0..N, toEnd : 0..N, enders : 0..(Len(lumis) + 1)]
<1> PICK x : x = runs[r]
  OBVIOUS
<1>1. RunRecord(x) /\ x.num \in Nat /\ Len(lumis) \in Nat /\ DOMAIN lumis = 1..Len(lumis)
  BY InList DEF Numbers
<1>2. Cardinality(Beginning(r)) \in 0..N /\ Cardinality(Unfinished(r)) \in 0..N
  BY StreamsAmong DEF Beginning, Unfinished
<1>3. Cardinality(LumisOf(r)) \in 0..Len(lumis)
  BY <1>1, PartOfList DEF LumisOf
<1>4. x.toBegin \in 0..N /\ x.toEnd \in 0..N
  BY <1>2, NFacts DEF TaskInv, RunsCounted
<1>5. x.enders = (IF x.toEnd = 0 THEN 0 ELSE 1) + Cardinality(LumisOf(r))
  BY DEF TaskInv, RunsCounted
<1>6. x.enders \in 0..(Len(lumis) + 1)
  BY <1>1, <1>3, <1>5
<1>7. x = [num |-> x.num, phase |-> x.phase, holds |-> x.holds, ok |-> x.ok, esOK |-> x.esOK,
           toBegin |-> x.toBegin, toEnd |-> x.toEnd, enders |-> x.enders]
  BY <1>1 DEF RunRecord, RunFields
<1> QED
  BY <1>1, <1>4, <1>6, <1>7 DEF RunRecord

LEMMA LumiTyped ==
  ASSUME TaskInv, Numbers, NEW l \in DOMAIN lumis
  PROVE  lumis[l] \in [run : DOMAIN runs, num : Nat, phase : LumiPhases, ok : BOOLEAN,
                       noMore : BOOLEAN, state : {"processing", "pause", "stop"},
                       started : BOOLEAN, joined : 0..N, toEnd : 0..N]
<1> PICK x : x = lumis[l]
  OBVIOUS
<1>1. LumiRecord(x) /\ x.run \in DOMAIN runs
  BY InList
<1>2. x.num \in Nat /\ x.joined \in 0..N /\ x.toEnd \in 0..N /\ x.state \in {"processing", "pause", "stop"}
  BY DEF Numbers
<1>3. x = [run |-> x.run, num |-> x.num, phase |-> x.phase, ok |-> x.ok, noMore |-> x.noMore,
           state |-> x.state, started |-> x.started, joined |-> x.joined, toEnd |-> x.toEnd]
  BY <1>1 DEF LumiRecord, LumiFields
<1> QED
  BY <1>1, <1>2, <1>3 DEF LumiRecord

LEMMA StreamTyped ==
  ASSUME TaskInv, NEW s \in Streams
  PROVE  /\ stream[s].run \in 0..Len(runs) /\ stream[s].lumi \in 0..Len(lumis)
         /\ stream[s].doing \in Doings /\ stream[s].pauses \in 0..1
<1>1. /\ Len(runs) \in Nat /\ DOMAIN runs = 1..Len(runs)
      /\ Len(lumis) \in Nat /\ DOMAIN lumis = 1..Len(lumis)
  BY InList
<1>2. /\ stream[s].run \in {0} \cup DOMAIN runs /\ stream[s].lumi \in {0} \cup DOMAIN lumis
      /\ stream[s].pauses = IF stream[s].doing \in {"beginRun", "endRun"} \/ stream[s].lumi # 0
                            THEN 1 ELSE 0
  BY DEF TaskInv, StreamsPlaced, InPlace
<1>3. stream[s].doing \in Doings
  BY InList DEF StreamRecords
<1> QED
  BY <1>1, <1>2, <1>3

(* Every variable keeps its type, whatever the input, the streams and the  *)
(* limits: no count leaves its bounds, and iovPauses, the pauses of the    *)
(* queue that waits for IOVs, stays within two for each run and one for    *)
(* each luminosity block.                                                  *)
THEOREM MainTypeAlwaysOK == Spec => []MainTypeOK
<1>1. JobInv /\ Numbers /\ SourceInv /\ crashed \in BOOLEAN => MainTypeOK
  <2> SUFFICES ASSUME JobInv, Numbers, SourceInv, crashed \in BOOLEAN PROVE MainTypeOK
    OBVIOUS
  <2>1. TaskInv /\ MainInTurn
    BY DEF JobInv
  <2>2. /\ Len(runs) \in Nat /\ DOMAIN runs = 1..Len(runs)
        /\ Len(lumis) \in Nat /\ DOMAIN lumis = 1..Len(lumis)
    BY <2>1, InList
  <2>3. iovPauses \in 0..(2 * Len(runs) + Len(lumis))
    <3>1. /\ Cardinality(HeldToBegin) \in 0..Len(runs) /\ Cardinality(HeldToEnd) \in 0..Len(runs)
          /\ Cardinality(HeldByLumi) \in 0..Len(lumis)
      BY <2>2, PartOfList DEF HeldToBegin, HeldToEnd, HeldByLumi
    <3>2. iovPauses = Cardinality(HeldToBegin) + Cardinality(HeldToEnd) + Cardinality(HeldByLumi)
      BY <2>1 DEF TaskInv, PausesCounted
    <3> QED
      BY <2>2, <3>1, <3>2
  <2>4. failed \in BOOLEAN /\ throws \in 0..MaxThrows
    BY <2>1, EventProcessorAssumption DEF TaskInv, Shape, Numbers
  <2>5. TypeOK
    BY <2>1, <2>3, <2>4, RunTyped, LumiTyped, StreamTyped DEF TypeOK, Doings, SourceInv, SourceTyped
  <2>6. todo \in Seq(Calls)
    BY <2>1 DEF MainInTurn
  <2> QED
    BY <2>5, <2>6 DEF MainTypeOK, Numbers, Calls
<1>2. Spec => [](crashed \in BOOLEAN)
  <2>1. MainInit => crashed \in BOOLEAN
    BY DEF MainInit
  <2>2. crashed \in BOOLEAN /\ [Next]_allVars => (crashed \in BOOLEAN)'
    BY DEF Next, Crash, allVars, mainVars
  <2> QED
    BY <2>1, <2>2, PTL DEF Spec
<1> QED
  BY <1>1, <1>2, JobInvariant, SourceInvariant, PTL

-----------------------------------------------------------------------------
(* The event setup.                                                        *)

(* The inductive invariant: what IOVsSeparate says but that a task on time *)
(* finds a slot, which follows, and the IOVs that are used.                *)
IInv ==
  /\ IOVTypeOK
  /\ \A r \in Records : /\ SlotsKept(r) /\ UsedWhileStarted(r)
                        /\ CurrentIsInterval(r) /\ LastIOV(r)
  /\ RightIOVUnlessFailed

-----------------------------------------------------------------------------
(* Lemmas about the operators of the model.                                *)

LEMMA ConstantFacts ==
  /\ MaxSyncs \in Nat /\ MaxFailures \in Nat /\ Syncs = 1..MaxSyncs /\ Records \subseteq Nat
  /\ \A r \in Records : Concurrent[r] \in Nat \ {0} /\ Slots(r) = 1..Concurrent[r]
BY IOVQueueAssumption DEF Syncs, Records, Slots

LEMMA FiniteStarted ==
  ASSUME NEW r \in Records
  PROVE  /\ Started(r) \subseteq Syncs /\ IsFiniteSet(Started(r)) /\ Cardinality(Started(r)) \in Nat
         /\ InSlot(r) \subseteq Started(r) /\ IsFiniteSet(InSlot(r)) /\ Cardinality(InSlot(r)) \in Nat
         /\ Cardinality(InSlot(r)) <= Cardinality(Started(r))
<1>1. IsFiniteSet(Syncs)
  BY ConstantFacts, FS_Interval
<1>2. Started(r) \in SUBSET Syncs /\ InSlot(r) \in SUBSET Started(r)
  BY DEF Started, InSlot
<1>3. IsFiniteSet(Started(r))
  BY <1>1, <1>2, FS_Subset
<1>4. IsFiniteSet(InSlot(r)) /\ Cardinality(InSlot(r)) <= Cardinality(Started(r))
  BY <1>2, <1>3, FS_Subset
<1> QED
  BY <1>2, <1>3, <1>4, FS_CardinalityType

(* As long as a record has started fewer IOVs than it may, it has a slot   *)
(* free: every slot taken is that of a started IOV.                        *)
LEMMA SlotLeft ==
  ASSUME NEW r \in Records, SlotsKept(r), Cardinality(Started(r)) < Concurrent[r]
  PROVE  available[r] # {}
<1> SUFFICES ASSUME available[r] = {} PROVE FALSE
  OBVIOUS
<1> DEFINE f == [k \in InSlot(r) |-> iov[r][k].slot]
<1>1. /\ \A k \in InSlot(r) : iov[r][k].slot \in Slots(r)
      /\ Slots(r) \subseteq {iov[r][k].slot : k \in InSlot(r)}
  BY DEF SlotsKept
<1>2. f \in Surjection(InSlot(r), Slots(r))
  BY <1>1 DEF Surjection
<1>3. Cardinality(Slots(r)) <= Cardinality(InSlot(r))
  BY <1>2, FiniteStarted, FS_Surjection
<1>4. Cardinality(Slots(r)) = Concurrent[r]
  <2>1. Slots(r) = 1..Concurrent[r] /\ Concurrent[r] \in Nat \ {0}
    BY ConstantFacts
  <2> QED
    BY <2>1, FS_Interval
<1> QED
  BY <1>3, <1>4, FiniteStarted, ConstantFacts

(* What keeps the phases and the slots of a record's IOVs keeps its slots. *)
LEMMA SameSlots ==
  ASSUME NEW r \in Records, SlotsKept(r), available'[r] = available[r],
         \A k \in Syncs : iov'[r][k].phase = iov[r][k].phase /\ iov'[r][k].slot = iov[r][k].slot
  PROVE  SlotsKept(r)' /\ Started(r)' = Started(r)
<1>1. InSlot(r)' = InSlot(r) /\ Started(r)' = Started(r) /\ InSlot(r) \subseteq Syncs
  BY DEF InSlot, Started
<1>2. {iov'[r][k].slot : k \in InSlot(r)} = {iov[r][k].slot : k \in InSlot(r)}
  BY <1>1
<1>3. available'[r] = Slots(r) \ {iov'[r][k].slot : k \in InSlot(r)'}
  BY <1>1, <1>2 DEF SlotsKept
<1> QED
  BY <1>1, <1>3 DEF SlotsKept

-----------------------------------------------------------------------------
(* The invariant holds before the first run.                               *)
LEMMA InitInvariant == IOVInit => IInv
<1> SUFFICES ASSUME IOVInit PROVE IInv
  OBVIOUS
<1>0. \A r \in Records, k \in Syncs : iov[r][k] = NoIOV
  BY DEF IOVInit
<1>1. IOVTypeOK
  <2>1. NoIOV \in [phase : {"none", "started", "freed", "ended"}, slot : Nat, users : SUBSET Syncs]
    BY DEF NoIOV
  <2>2. \A r \in Records : Slots(r) \subseteq Nat
    BY ConstantFacts
  <2> QED
    BY <2>1, <2>2, ConstantFacts DEF IOVInit, IOVTypeOK
<1>2. \A r \in Records : InSlot(r) = {} /\ Started(r) = {}
  BY <1>0 DEF InSlot, Started, NoIOV
<1>3. \A r \in Records : SlotsKept(r)
  BY <1>2 DEF SlotsKept, IOVInit
<1>4. \A r \in Records : UsedWhileStarted(r) /\ CurrentIsInterval(r) /\ LastIOV(r)
  BY <1>0, ConstantFacts DEF UsedWhileStarted, CurrentIsInterval, LastIOV, IOVInit, NoIOV
<1>5. RightIOVUnlessFailed
  BY DEF IOVInit, RightIOVUnlessFailed
<1> QED
  BY <1>1, <1>3, <1>4, <1>5 DEF IInv

-----------------------------------------------------------------------------
(* Every step keeps the invariant.                                         *)

(* The next run or luminosity block finds each record in the IOV of its    *)
(* interval, or waits for a new one.                                       *)
LEMMA SyncStep == IInv /\ Sync => IInv'
<1> SUFFICES ASSUME IInv, Sync PROVE IInv'
  OBVIOUS
<1> DEFINE k == syncs + 1
<1>0. /\ IOVTypeOK /\ RightIOVUnlessFailed
      /\ \A r \in Records : /\ SlotsKept(r) /\ UsedWhileStarted(r)
                            /\ CurrentIsInterval(r) /\ LastIOV(r)
  BY DEF IInv
<1>1. /\ ending = "no" /\ waiting = {} /\ syncs < MaxSyncs /\ syncs' = k
      /\ interval' \in [Records -> 0..k]
      /\ \A r \in Records : interval'[r] \in {0, interval[r], k}
      /\ wanted' = [wanted EXCEPT ![k] = interval']
      /\ after' = IF failures > 0 THEN after \cup {k} ELSE after
      /\ using' = using \cup {k}
      /\ waiting' = {r \in Records : interval'[r] = k}
      /\ current' = [r \in Records |-> IF interval'[r] = k THEN 0 ELSE current[r]]
      /\ UNCHANGED <<failures, available, ending, told>>
  BY DEF Sync, Entered, CurrentAfter, IntervalsAt
<1>2. syncs \in Nat /\ k \in Syncs /\ k # 0 /\ k \in Nat /\ 0..k \subseteq 0..MaxSyncs
      /\ 1..syncs \subseteq 1..k /\ k \in 1..k /\ k \notin 1..syncs
  BY <1>0, <1>1, ConstantFacts DEF IOVTypeOK
<1>3. \A r \in Records : \A j \in Syncs :
        iov'[r][j] = IF interval'[r] \notin {0, k} /\ j = current[r]
                     THEN [iov[r][j] EXCEPT !.users = @ \cup {k}] ELSE iov[r][j]
  BY DEF Sync, UsesAtOnce
<1>3a. \A r \in Records : \A j \in Syncs :
         /\ iov'[r][j] \in [phase : {"none", "started", "freed", "ended"}, slot : Nat, users : SUBSET Syncs]
         /\ iov'[r][j].phase = iov[r][j].phase /\ iov'[r][j].slot = iov[r][j].slot
         /\ iov'[r][j].users = IF interval'[r] \notin {0, k} /\ j = current[r]
                               THEN iov[r][j].users \cup {k} ELSE iov[r][j].users
  <2> SUFFICES ASSUME NEW r \in Records, NEW j \in Syncs
               PROVE  /\ iov'[r][j] \in [phase : {"none", "started", "freed", "ended"}, slot : Nat,
                                         users : SUBSET Syncs]
                      /\ iov'[r][j].phase = iov[r][j].phase /\ iov'[r][j].slot = iov[r][j].slot
                      /\ iov'[r][j].users = IF interval'[r] \notin {0, k} /\ j = current[r]
                                            THEN iov[r][j].users \cup {k} ELSE iov[r][j].users
    OBVIOUS
  <2>1. iov[r][j] \in [phase : {"none", "started", "freed", "ended"}, slot : Nat, users : SUBSET Syncs]
    BY <1>0 DEF IOVTypeOK
  <2>2. CASE interval'[r] \notin {0, k} /\ j = current[r]
    <3>1. iov'[r][j] = [iov[r][j] EXCEPT !.users = @ \cup {k}]
      BY <1>3, <2>2
    <3> QED
      BY <1>2, <2>1, <2>2, <3>1
  <2>3. CASE ~(interval'[r] \notin {0, k} /\ j = current[r])
    <3>1. iov'[r][j] = iov[r][j]
      BY <1>3, <2>3
    <3> QED
      BY <2>1, <2>3, <3>1
  <2> QED
    BY <2>2, <2>3
<1>4. \A r \in Records : \A j \in Syncs :
        /\ iov'[r][j].phase = iov[r][j].phase /\ iov'[r][j].slot = iov[r][j].slot
        /\ iov'[r][j].users = IF interval'[r] \notin {0, k} /\ j = current[r]
                              THEN iov[r][j].users \cup {k} ELSE iov[r][j].users
  BY <1>3a
<1> HIDE DEF k
<1>5. IOVTypeOK'
  <2>1. iov' \in [Records -> [Syncs -> [phase : {"none", "started", "freed", "ended"}, slot : Nat,
                                        users : SUBSET Syncs]]]
    <3>1. \A r \in Records : \A j \in Syncs :
            iov'[r][j] \in [phase : {"none", "started", "freed", "ended"}, slot : Nat, users : SUBSET Syncs]
      BY <1>3a
    <3>2. iov' = [r \in Records |-> [j \in Syncs |-> iov'[r][j]]]
      BY DEF Sync
    <3> QED
      BY <3>1, <3>2
  <2>2. /\ interval' \in [Records -> 0..MaxSyncs] /\ current' \in [Records -> 0..MaxSyncs]
        /\ wanted' \in [Syncs -> [Records -> 0..MaxSyncs]] /\ available' \in [Records -> SUBSET Nat]
    BY <1>0, <1>1, <1>2 DEF IOVTypeOK
  <2>3. using' \subseteq 1..syncs' /\ after' \subseteq 1..syncs' /\ syncs' \in 0..MaxSyncs
    BY <1>0, <1>1, <1>2, ConstantFacts DEF IOVTypeOK
  <2>4. /\ failures' \in Nat /\ waiting' \subseteq Records
        /\ ending' \in {"no", "asked", "done"} /\ told' \subseteq Records
    BY <1>0, <1>1 DEF IOVTypeOK
  <2> QED
    BY <2>1, <2>2, <2>3, <2>4 DEF IOVTypeOK
<1>6. ASSUME NEW r \in Records
      PROVE  /\ SlotsKept(r)' /\ UsedWhileStarted(r)'
             /\ CurrentIsInterval(r)' /\ LastIOV(r)'
  <2>1. SlotsKept(r)' /\ Started(r)' = Started(r)
    <3>1. SlotsKept(r) /\ available'[r] = available[r]
      BY <1>0, <1>1
    <3>2. \A j \in Syncs : iov'[r][j].phase = iov[r][j].phase /\ iov'[r][j].slot = iov[r][j].slot
      BY <1>4
    <3> QED
      BY <3>1, <3>2, SameSlots
  <2>2. UsedWhileStarted(r)'
    <3>1. ASSUME NEW j \in Syncs
          PROVE  /\ iov'[r][j].phase # "none" => j <= syncs' /\ ~(j = syncs' /\ r \in waiting')
                 /\ iov'[r][j].phase # "started" => iov'[r][j].users = {} /\ current'[r] # j
                 /\ iov'[r][j].users \subseteq using'
      <4>1. /\ iov[r][j].phase # "none" => j <= syncs
            /\ iov[r][j].phase # "started" => iov[r][j].users = {} /\ current[r] # j
            /\ iov[r][j].users \subseteq using
        BY <1>0 DEF UsedWhileStarted
      <4>2. j \in Nat /\ j # 0
        BY ConstantFacts
      <4>3. iov'[r][j].phase # "none" => j <= syncs' /\ j # syncs'
        <5>1. iov'[r][j].phase = iov[r][j].phase
          BY <1>4
        <5> QED
          BY <1>1, <1>2, <4>1, <4>2, <5>1 DEF k
      <4>4. iov'[r][j].phase # "started" => iov'[r][j].users = {} /\ current'[r] # j
        BY <1>1, <1>4, <4>1, <4>2
      <4>5. iov'[r][j].users \subseteq using'
        <5>1. iov'[r][j].users \subseteq iov[r][j].users \cup {k}
          BY <1>4
        <5> QED
          BY <1>1, <4>1, <5>1
      <4> QED
        BY <4>3, <4>4, <4>5
    <3> QED
      BY <1>1, <1>2, <3>1 DEF UsedWhileStarted
  <2>3. CurrentIsInterval(r)'
    <3> SUFFICES ASSUME failures = 0, interval'[r] # 0, interval'[r] # k
                 PROVE  current'[r] = interval'[r]
      BY <1>1 DEF CurrentIsInterval, k
    <3>1. interval'[r] = interval[r]
      BY <1>1
    <3> QED
      BY <1>0, <1>1, <3>1 DEF CurrentIsInterval
  <2>4. LastIOV(r)'
    BY <1>1 DEF LastIOV
  <2> QED
    BY <1>0, <2>1, <2>2, <2>3, <2>4
<1>7. RightIOVUnlessFailed'
  <2> SUFFICES ASSUME NEW u \in using' \ after', NEW r \in Records, wanted'[u][r] # 0
               PROVE  LET want == wanted'[u][r]
                      IN  \/ iov'[r][want].phase = "started" /\ u \in iov'[r][want].users
                          \/ u = syncs' /\ want = u /\ r \in waiting'
    BY DEF RightIOVUnlessFailed
  <2>1. CASE u = k
    <3>1. failures = 0
      BY <1>0, <1>1, <2>1, ConstantFacts DEF IOVTypeOK
    <3>2. wanted'[u][r] = interval'[r]
      BY <1>0, <1>1, <1>2, <2>1 DEF IOVTypeOK
    <3>3. CASE interval'[r] = k
      BY <1>1, <2>1, <3>2, <3>3
    <3>4. CASE interval'[r] # k
      <4>1. interval'[r] = interval[r] /\ interval[r] # 0
        BY <1>1, <3>2, <3>4
      <4>2. current[r] = interval[r]
        BY <1>0, <1>1, <3>1, <4>1 DEF CurrentIsInterval
      <4>3. current[r] \in Syncs
        BY <1>0, <4>1, <4>2, ConstantFacts DEF IOVTypeOK
      <4>4. iov[r][current[r]].phase = "started"
        BY <1>0, <4>3 DEF UsedWhileStarted
      <4>5. iov'[r][current[r]].phase = "started" /\ k \in iov'[r][current[r]].users
        <5>1. interval'[r] \notin {0, k}
          BY <3>4, <4>1
        <5> QED
          BY <1>4, <4>3, <4>4, <5>1
      <4>6. wanted'[u][r] = current[r]
        BY <3>2, <4>1, <4>2
      <4> QED
        BY <2>1, <4>5, <4>6
    <3> QED
      BY <3>3, <3>4
  <2>2. CASE u # k
    <3>1. u \in using \ after /\ wanted'[u] = wanted[u]
      BY <1>0, <1>1, <1>2, <2>2 DEF IOVTypeOK
    <3>2. /\ iov[r][wanted[u][r]].phase = "started" /\ u \in iov[r][wanted[u][r]].users
      BY <1>0, <1>1, <3>1 DEF RightIOVUnlessFailed
    <3>3. wanted[u][r] \in Syncs
      <4>1. u \in Syncs
        BY <1>0, <3>1, ConstantFacts DEF IOVTypeOK
      <4> QED
        BY <1>0, <3>1, <4>1, ConstantFacts DEF IOVTypeOK
    <3>4. /\ iov'[r][wanted[u][r]].phase = "started"
          /\ iov[r][wanted[u][r]].users \subseteq iov'[r][wanted[u][r]].users
      BY <1>4, <3>2, <3>3
    <3>5. wanted'[u][r] = wanted[u][r]
      BY <3>1
    <3> QED
      BY <3>2, <3>4, <3>5
  <2> QED
    BY <2>1, <2>2
<1> QED
  BY <1>5, <1>6, <1>7 DEF IInv

(* A sync that fails is nobody's: it leaves the IOVs as they are.          *)
LEMMA FailedSyncStep == IInv /\ FailedSync => IInv'
<1> SUFFICES ASSUME IInv, FailedSync PROVE IInv'
  OBVIOUS
<1>0. /\ IOVTypeOK /\ RightIOVUnlessFailed
      /\ \A r \in Records : /\ SlotsKept(r) /\ UsedWhileStarted(r)
                            /\ CurrentIsInterval(r) /\ LastIOV(r)
  BY DEF IInv
<1>1. /\ ending = "no" /\ waiting = {} /\ syncs < MaxSyncs /\ failures < MaxFailures
      /\ syncs' = syncs + 1 /\ failures' = failures + 1
      /\ interval' \in [Records -> 0..(syncs + 1)]
      /\ after' = IF failures > 0 THEN after \cup {syncs + 1} ELSE after
      /\ UNCHANGED <<current, waiting, iov, available, using, wanted, ending, told>>
  BY DEF FailedSync
<1>2. /\ syncs \in Nat /\ syncs' \in 0..MaxSyncs /\ failures' \in Nat /\ failures' # 0
      /\ 0..(syncs + 1) \subseteq 0..MaxSyncs /\ 1..syncs \subseteq 1..syncs' /\ syncs' \in 1..syncs'
  BY <1>0, <1>1, ConstantFacts DEF IOVTypeOK
<1>3. IOVTypeOK'
  <2>1. using' \subseteq 1..syncs' /\ after' \subseteq 1..syncs'
    BY <1>0, <1>1, <1>2 DEF IOVTypeOK
  <2>2. interval' \in [Records -> 0..MaxSyncs]
    BY <1>1, <1>2
  <2> QED
    BY <1>0, <1>1, <1>2, <2>1, <2>2 DEF IOVTypeOK
<1>4. ASSUME NEW r \in Records
      PROVE  /\ SlotsKept(r)' /\ UsedWhileStarted(r)'
             /\ CurrentIsInterval(r)' /\ LastIOV(r)'
  <2>1. SlotsKept(r)' /\ Started(r)' = Started(r)
    BY <1>0, <1>1, SameSlots
  <2>2. UsedWhileStarted(r)'
    <3>1. \A j \in Syncs : j \in Nat /\ (j <= syncs => j <= syncs')
      BY <1>1, <1>2, ConstantFacts
    <3> QED
      BY <1>0, <1>1, <3>1 DEF UsedWhileStarted
  <2>3. CurrentIsInterval(r)'
    BY <1>1, <1>2 DEF CurrentIsInterval
  <2>4. LastIOV(r)'
    BY <1>1 DEF LastIOV
  <2> QED
    BY <1>0, <2>1, <2>2, <2>3, <2>4
<1>5. RightIOVUnlessFailed'
  BY <1>0, <1>1 DEF RightIOVUnlessFailed
<1> QED
  BY <1>3, <1>4, <1>5 DEF IInv

(* The task that starts an IOV takes a free slot.                          *)
LEMMA StartIOVInSlot ==
  ASSUME IInv, NEW r \in Records, StartIOV(r), available[r] # {}
  PROVE  IInv'
<1>0. /\ IOVTypeOK /\ RightIOVUnlessFailed
      /\ \A q \in Records : /\ SlotsKept(q) /\ UsedWhileStarted(q)
                            /\ CurrentIsInterval(q) /\ LastIOV(q)
  BY DEF IInv
<1>1. /\ r \in waiting /\ waiting' = waiting \ {r}
      /\ UNCHANGED <<syncs, failures, interval, using, wanted, after, ending, told>>
  BY DEF StartIOV
<1>2. PICK slot \in available[r] :
         /\ available' = [available EXCEPT ![r] = @ \ {slot}]
         /\ iov' = [iov EXCEPT ![r][syncs] = [phase |-> "started", slot |-> slot, users |-> {syncs}]]
         /\ current' = [current EXCEPT ![r] = syncs]
  BY DEF StartIOV
<1>3. syncs \in Syncs /\ syncs \in using /\ iov[r][syncs].phase = "none" /\ ending = "no"
      /\ slot \in Nat /\ slot \in Slots(r)
  <2>1. syncs \in Syncs /\ syncs \in Nat
    BY <1>0, <1>1, ConstantFacts DEF IOVTypeOK, UsedWhileStarted
  <2>2. iov[r][syncs].phase = "none"
    BY <1>0, <1>1, <2>1 DEF UsedWhileStarted
  <2>3. slot \in Slots(r) /\ slot \in Nat
    BY <1>0, ConstantFacts DEF SlotsKept
  <2>4. syncs \in using
    BY <1>0, <1>1 DEF UsedWhileStarted
  <2>5. ending = "no"
    BY <1>0, <1>1 DEF LastIOV
  <2> QED
    BY <2>1, <2>2, <2>3, <2>4, <2>5
<1> DEFINE new == [phase |-> "started", slot |-> slot, users |-> {syncs}]
<1>4. /\ \A q \in Records : \A j \in Syncs :
           iov'[q][j] = IF q = r /\ j = syncs THEN new ELSE iov[q][j]
      /\ \A q \in Records : available'[q] = IF q = r THEN available[q] \ {slot} ELSE available[q]
      /\ \A q \in Records : current'[q] = IF q = r THEN syncs ELSE current[q]
      /\ new.phase = "started" /\ new.slot = slot /\ new.users = {syncs}
  BY <1>0, <1>2, <1>3 DEF IOVTypeOK
<1>5. IOVTypeOK'
  <2>1. new \in [phase : {"none", "started", "freed", "ended"}, slot : Nat, users : SUBSET Syncs]
    BY <1>3
  <2>2. iov' \in [Records -> [Syncs -> [phase : {"none", "started", "freed", "ended"}, slot : Nat,
                                        users : SUBSET Syncs]]]
    BY <1>0, <1>2, <1>3, <2>1 DEF IOVTypeOK
  <2>3. available' \in [Records -> SUBSET Nat] /\ current' \in [Records -> 0..MaxSyncs]
    BY <1>0, <1>2 DEF IOVTypeOK
  <2> QED
    BY <1>0, <1>1, <2>2, <2>3 DEF IOVTypeOK
<1> HIDE DEF new
<1>6. ASSUME NEW q \in Records, q # r
      PROVE  /\ SlotsKept(q)' /\ UsedWhileStarted(q)'
             /\ CurrentIsInterval(q)' /\ LastIOV(q)'
  <2>1. SlotsKept(q)' /\ Started(q)' = Started(q)
    BY <1>0, <1>4, <1>6, SameSlots
  <2>2. UsedWhileStarted(q)'
    BY <1>0, <1>1, <1>4, <1>6 DEF UsedWhileStarted
  <2>3. CurrentIsInterval(q)'
    BY <1>0, <1>1, <1>4, <1>6 DEF CurrentIsInterval
  <2>4. LastIOV(q)'
    BY <1>1, <1>3 DEF LastIOV
  <2> QED
    BY <1>0, <2>1, <2>2, <2>3, <2>4
<1>7. /\ SlotsKept(r)' /\ UsedWhileStarted(r)'
      /\ CurrentIsInterval(r)' /\ LastIOV(r)'
  <2>1. /\ InSlot(r)' = InSlot(r) \cup {syncs} /\ syncs \notin InSlot(r)
        /\ \A k \in InSlot(r) : iov'[r][k] = iov[r][k] /\ k # syncs
    BY <1>3, <1>4 DEF InSlot
  <2>2. SlotsKept(r)'
    <3>1. \A k \in InSlot(r) : iov[r][k].slot \in Slots(r) /\ iov[r][k].slot # slot
      BY <1>0 DEF SlotsKept
    <3>2. \A k \in InSlot(r)' : iov'[r][k].slot \in Slots(r)
      BY <1>3, <1>4, <2>1, <3>1
    <3>3. \A j, k \in InSlot(r)' : iov'[r][j].slot = iov'[r][k].slot => j = k
      BY <1>0, <1>3, <1>4, <2>1, <3>1 DEF SlotsKept
    <3>4. {iov'[r][k].slot : k \in InSlot(r)'} = {iov[r][k].slot : k \in InSlot(r)} \cup {slot}
      BY <1>3, <1>4, <2>1
    <3>5. available'[r] = Slots(r) \ {iov'[r][k].slot : k \in InSlot(r)'}
      BY <1>0, <1>4, <3>4 DEF SlotsKept
    <3> QED
      BY <3>2, <3>3, <3>5 DEF SlotsKept
  <2>3. UsedWhileStarted(r)'
    <3>1. ASSUME NEW k \in Syncs
          PROVE  /\ iov'[r][k].phase # "none" => k <= syncs
                 /\ iov'[r][k].phase # "started" => iov'[r][k].users = {} /\ current'[r] # k
                 /\ iov'[r][k].users \subseteq using'
      <4>1. CASE k = syncs
        BY <1>0, <1>1, <1>3, <1>4, <4>1 DEF IOVTypeOK
      <4>2. CASE k # syncs
        BY <1>0, <1>1, <1>4, <4>2 DEF UsedWhileStarted
      <4> QED
        BY <4>1, <4>2
    <3> QED
      BY <1>1, <3>1 DEF UsedWhileStarted
  <2>4. CurrentIsInterval(r)'
    BY <1>0, <1>1, <1>4 DEF CurrentIsInterval
  <2>5. LastIOV(r)'
    BY <1>1, <1>3 DEF LastIOV
  <2> QED
    BY <2>2, <2>3, <2>4, <2>5
<1>8. RightIOVUnlessFailed'
  <2> SUFFICES ASSUME NEW u \in using \ after, NEW q \in Records, wanted[u][q] # 0
               PROVE  LET want == wanted[u][q]
                      IN  \/ iov'[q][want].phase = "started" /\ u \in iov'[q][want].users
                          \/ u = syncs /\ want = u /\ q \in waiting'
    BY <1>1 DEF RightIOVUnlessFailed
  <2>1. wanted[u][q] \in Syncs
    <3>1. u \in Syncs
      BY <1>0, ConstantFacts DEF IOVTypeOK
    <3> QED
      BY <1>0, <3>1, ConstantFacts DEF IOVTypeOK
  <2>2. \/ iov[q][wanted[u][q]].phase = "started" /\ u \in iov[q][wanted[u][q]].users
        \/ u = syncs /\ wanted[u][q] = u /\ q \in waiting
    BY <1>0 DEF RightIOVUnlessFailed
  <2> QED
    BY <1>1, <1>3, <1>4, <2>1, <2>2
<1> QED
  BY <1>5, <1>6, <1>7, <1>8 DEF IInv

(* A task that comes late and finds none throws: the IOVs stay as they are.*)
LEMMA StartIOVThrows ==
  ASSUME IInv, NEW r \in Records, StartIOV(r), available[r] = {}
  PROVE  IInv'
<1>0. /\ IOVTypeOK /\ RightIOVUnlessFailed
      /\ \A q \in Records : /\ SlotsKept(q) /\ UsedWhileStarted(q)
                            /\ CurrentIsInterval(q) /\ LastIOV(q)
  BY DEF IInv
<1>1. /\ r \in waiting /\ waiting' = waiting \ {r}
      /\ failures' = failures + 1 /\ after' = after \cup {syncs}
      /\ UNCHANGED <<syncs, interval, current, iov, available, using, wanted, ending, told>>
  BY DEF StartIOV
<1>2. syncs \in 1..syncs /\ failures' \in Nat /\ failures' # 0 /\ ending = "no"
  <2>1. syncs \in using /\ ending = "no"
    BY <1>0, <1>1 DEF UsedWhileStarted, LastIOV
  <2> QED
    BY <1>0, <1>1, <2>1 DEF IOVTypeOK
<1>3. IOVTypeOK'
  BY <1>0, <1>1, <1>2 DEF IOVTypeOK
<1>4. ASSUME NEW q \in Records
      PROVE  /\ SlotsKept(q)' /\ UsedWhileStarted(q)'
             /\ CurrentIsInterval(q)' /\ LastIOV(q)'
  <2>1. SlotsKept(q)'
    BY <1>0, <1>1, SameSlots
  <2>2. UsedWhileStarted(q)'
    BY <1>0, <1>1 DEF UsedWhileStarted
  <2>3. CurrentIsInterval(q)'
    BY <1>0, <1>1, <1>2 DEF CurrentIsInterval
  <2>4. LastIOV(q)'
    BY <1>1, <1>2 DEF LastIOV
  <2> QED
    BY <2>1, <2>2, <2>3, <2>4
<1>5. RightIOVUnlessFailed'
  BY <1>0, <1>1 DEF RightIOVUnlessFailed
<1> QED
  BY <1>3, <1>4, <1>5 DEF IInv

LEMMA StartIOVStep == ASSUME IInv, NEW r \in Records, StartIOV(r) PROVE IInv'
BY StartIOVInSlot, StartIOVThrows

(* A run or luminosity block that ends lets go of its IOVs, and it is not  *)
(* one that an IOV still waits to be started for.                          *)
LEMMA EndUserStep == ASSUME IInv, NEW k \in Syncs, EndUser(k) PROVE IInv'
<1>0. /\ IOVTypeOK /\ RightIOVUnlessFailed
      /\ \A r \in Records : /\ SlotsKept(r) /\ UsedWhileStarted(r)
                            /\ CurrentIsInterval(r) /\ LastIOV(r)
  BY DEF IInv
<1>1. /\ k \in using /\ (k = syncs => waiting = {})
      /\ using' = using \ {k}
      /\ iov' = [r \in Records |-> [j \in Syncs |-> [iov[r][j] EXCEPT !.users = @ \ {k}]]]
      /\ UNCHANGED <<syncs, failures, interval, current, waiting, available, wanted, after, ending, told>>
  BY DEF EndUser
<1>2. \A r \in Records : \A j \in Syncs :
        /\ iov'[r][j] \in [phase : {"none", "started", "freed", "ended"}, slot : Nat, users : SUBSET Syncs]
        /\ iov'[r][j].phase = iov[r][j].phase /\ iov'[r][j].slot = iov[r][j].slot
        /\ iov'[r][j].users = iov[r][j].users \ {k}
  <2> SUFFICES ASSUME NEW r \in Records, NEW j \in Syncs
               PROVE  /\ iov'[r][j] \in [phase : {"none", "started", "freed", "ended"}, slot : Nat,
                                         users : SUBSET Syncs]
                      /\ iov'[r][j].phase = iov[r][j].phase /\ iov'[r][j].slot = iov[r][j].slot
                      /\ iov'[r][j].users = iov[r][j].users \ {k}
    OBVIOUS
  <2>1. iov[r][j] \in [phase : {"none", "started", "freed", "ended"}, slot : Nat, users : SUBSET Syncs]
    BY <1>0 DEF IOVTypeOK
  <2>2. iov'[r][j] = [iov[r][j] EXCEPT !.users = @ \ {k}]
    BY <1>1
  <2> QED
    BY <2>1, <2>2
<1>3. \A r \in Records : \A j \in Syncs :
        /\ iov'[r][j].phase = iov[r][j].phase /\ iov'[r][j].slot = iov[r][j].slot
        /\ iov'[r][j].users = iov[r][j].users \ {k}
  BY <1>2
<1>4. IOVTypeOK'
  <2>1. iov' \in [Records -> [Syncs -> [phase : {"none", "started", "freed", "ended"}, slot : Nat,
                                        users : SUBSET Syncs]]]
    <3>1. iov' = [r \in Records |-> [j \in Syncs |-> iov'[r][j]]]
      BY <1>1
    <3>2. \A r \in Records : \A j \in Syncs :
            iov'[r][j] \in [phase : {"none", "started", "freed", "ended"}, slot : Nat, users : SUBSET Syncs]
      BY <1>2
    <3> QED
      BY <3>1, <3>2
  <2> QED
    BY <1>0, <1>1, <2>1 DEF IOVTypeOK
<1>5. ASSUME NEW r \in Records
      PROVE  /\ SlotsKept(r)' /\ UsedWhileStarted(r)'
             /\ CurrentIsInterval(r)' /\ LastIOV(r)'
  <2>1. SlotsKept(r)' /\ Started(r)' = Started(r)
    BY <1>0, <1>1, <1>3, SameSlots
  <2>2. UsedWhileStarted(r)'
    <3>1. r \in waiting => syncs \in using'
      BY <1>0, <1>1 DEF UsedWhileStarted
    <3>2. ASSUME NEW j \in Syncs
          PROVE  /\ iov'[r][j].phase # "none" => j <= syncs /\ ~(j = syncs /\ r \in waiting)
                 /\ iov'[r][j].phase # "started" => iov'[r][j].users = {} /\ current[r] # j
                 /\ iov'[r][j].users \subseteq using'
      <4>1. /\ iov[r][j].phase # "none" => j <= syncs /\ ~(j = syncs /\ r \in waiting)
            /\ iov[r][j].phase # "started" => iov[r][j].users = {} /\ current[r] # j
            /\ iov[r][j].users \subseteq using
        BY <1>0 DEF UsedWhileStarted
      <4>2. iov'[r][j].phase = iov[r][j].phase /\ iov'[r][j].users = iov[r][j].users \ {k}
        BY <1>3
      <4> QED
        BY <1>1, <4>1, <4>2
    <3> QED
      BY <1>1, <3>1, <3>2 DEF UsedWhileStarted
  <2>3. CurrentIsInterval(r)'
    BY <1>0, <1>1 DEF CurrentIsInterval
  <2>4. LastIOV(r)'
    BY <1>0, <1>1, <2>1 DEF LastIOV
  <2> QED
    BY <1>0, <2>1, <2>2, <2>3, <2>4
<1>6. RightIOVUnlessFailed'
  <2> SUFFICES ASSUME NEW u \in using' \ after, NEW q \in Records, wanted[u][q] # 0
               PROVE  LET want == wanted[u][q]
                      IN  \/ iov'[q][want].phase = "started" /\ u \in iov'[q][want].users
                          \/ u = syncs /\ want = u /\ q \in waiting
    BY <1>1 DEF RightIOVUnlessFailed
  <2>1. u \in using \ after /\ u # k /\ u \in Syncs
    BY <1>0, <1>1, ConstantFacts DEF IOVTypeOK
  <2>2. wanted[u][q] \in Syncs
    BY <1>0, <2>1, ConstantFacts DEF IOVTypeOK
  <2>3. \/ iov[q][wanted[u][q]].phase = "started" /\ u \in iov[q][wanted[u][q]].users
        \/ u = syncs /\ wanted[u][q] = u /\ q \in waiting
    BY <1>0, <2>1 DEF RightIOVUnlessFailed
  <2> QED
    BY <1>3, <2>1, <2>2, <2>3
<1> QED
  BY <1>4, <1>5, <1>6 DEF IInv

(* The phase of one IOV changes and nothing else of the IOVs.              *)
PhaseSet(r, k, phase) == iov' = [iov EXCEPT ![r][k].phase = phase]

OnlyPhase(r, k, phase) ==
  /\ iov' \in [Records -> [Syncs -> [phase : {"none", "started", "freed", "ended"}, slot : Nat,
                                     users : SUBSET Syncs]]]
  /\ \A q \in Records : \A j \in Syncs :
       /\ iov'[q][j].phase = IF q = r /\ j = k THEN phase ELSE iov[q][j].phase
       /\ iov'[q][j].slot = iov[q][j].slot /\ iov'[q][j].users = iov[q][j].users

LEMMA PhaseMoves ==
  ASSUME IOVTypeOK, NEW r \in Records, NEW k \in Syncs, NEW phase \in {"none", "started", "freed", "ended"},
         PhaseSet(r, k, phase)
  PROVE  OnlyPhase(r, k, phase)
<1>0. iov' = [iov EXCEPT ![r][k].phase = phase]
  BY DEF PhaseSet
<1>1. iov \in [Records -> [Syncs -> [phase : {"none", "started", "freed", "ended"}, slot : Nat,
                                     users : SUBSET Syncs]]]
  BY DEF IOVTypeOK
<1>2. ASSUME NEW q \in Records, NEW j \in Syncs
      PROVE  /\ iov'[q][j].phase = IF q = r /\ j = k THEN phase ELSE iov[q][j].phase
             /\ iov'[q][j].slot = iov[q][j].slot /\ iov'[q][j].users = iov[q][j].users
  <2>1. iov[q][j] \in [phase : {"none", "started", "freed", "ended"}, slot : Nat, users : SUBSET Syncs]
    BY <1>1
  <2>2. CASE q = r /\ j = k
    <3>1. iov'[q][j] = [iov[q][j] EXCEPT !.phase = phase]
      BY <1>0, <1>1, <2>2
    <3> QED
      BY <2>1, <2>2, <3>1
  <2>3. CASE ~(q = r /\ j = k)
    <3>1. iov'[q][j] = iov[q][j]
      BY <1>0, <1>1, <2>3
    <3> QED
      BY <2>3, <3>1
  <2> QED
    BY <2>2, <2>3
<1>3. iov' \in [Records -> [Syncs -> [phase : {"none", "started", "freed", "ended"}, slot : Nat,
                                      users : SUBSET Syncs]]]
  <2>1. iov[r][k] \in [phase : {"none", "started", "freed", "ended"}, slot : Nat, users : SUBSET Syncs]
    BY <1>1
  <2>2. [iov[r][k] EXCEPT !.phase = phase]
          \in [phase : {"none", "started", "freed", "ended"}, slot : Nat, users : SUBSET Syncs]
    BY <2>1
  <2>3. iov' = [iov EXCEPT ![r] = [iov[r] EXCEPT ![k] = [iov[r][k] EXCEPT !.phase = phase]]]
    BY <1>0
  <2> QED
    BY <1>1, <2>2, <2>3
<1> QED
  BY <1>2, <1>3 DEF OnlyPhase

(* The slot of an IOV that ends is free again, and nobody uses the IOV.    *)
LEMMA FreeSlotStep == ASSUME IInv, NEW r \in Records, NEW k \in Syncs, FreeSlot(r, k) PROVE IInv'
<1>0. /\ IOVTypeOK /\ RightIOVUnlessFailed
      /\ \A q \in Records : /\ SlotsKept(q) /\ UsedWhileStarted(q)
                            /\ CurrentIsInterval(q) /\ LastIOV(q)
  BY DEF IInv
<1>1. /\ iov[r][k].phase = "started" /\ iov[r][k].users = {} /\ current[r] # k
      /\ available' = [available EXCEPT ![r] = @ \cup {iov[r][k].slot}]
      /\ UNCHANGED <<syncs, failures, interval, current, waiting, using, wanted, after, ending, told>>
  BY DEF FreeSlot, Ends
<1>2. /\ iov' \in [Records -> [Syncs -> [phase : {"none", "started", "freed", "ended"}, slot : Nat,
                                         users : SUBSET Syncs]]]
      /\ \A q \in Records : \A j \in Syncs :
           /\ iov'[q][j].phase = IF q = r /\ j = k THEN "freed" ELSE iov[q][j].phase
           /\ iov'[q][j].slot = iov[q][j].slot /\ iov'[q][j].users = iov[q][j].users
  <2>1. PhaseSet(r, k, "freed")
    BY DEF FreeSlot, PhaseSet
  <2>2. OnlyPhase(r, k, "freed")
    BY <1>0, <2>1, PhaseMoves
  <2> QED
    BY <2>2 DEF OnlyPhase
<1>3. \A q \in Records : available'[q] = IF q = r THEN available[q] \cup {iov[r][k].slot} ELSE available[q]
  BY <1>0, <1>1 DEF IOVTypeOK
<1>4. IOVTypeOK'
  <2>1. iov[r][k].slot \in Nat
    BY <1>0 DEF IOVTypeOK
  <2>2. available' \in [Records -> SUBSET Nat]
    BY <1>0, <1>1, <2>1 DEF IOVTypeOK
  <2> QED
    BY <1>0, <1>1, <1>2, <2>2 DEF IOVTypeOK
<1>5. ASSUME NEW q \in Records PROVE Started(q)' = Started(q) /\ SlotsKept(q)'
  <2>1. CASE q # r
    <3>1. /\ available'[q] = available[q]
          /\ \A j \in Syncs : iov'[q][j].phase = iov[q][j].phase /\ iov'[q][j].slot = iov[q][j].slot
      BY <1>2, <1>3, <2>1
    <3> QED
      BY <1>0, <3>1, SameSlots
  <2>2. CASE q = r
    <3>1. /\ Started(q)' = Started(q) /\ InSlot(q)' = InSlot(q) \ {k} /\ k \in InSlot(q)
          /\ \A j \in InSlot(q) : iov'[q][j].slot = iov[q][j].slot
      BY <1>1, <1>2, <2>2 DEF InSlot, Started
    <3>2. {iov'[q][j].slot : j \in InSlot(q)'} = {iov[q][j].slot : j \in InSlot(q)} \ {iov[q][k].slot}
      BY <1>0, <3>1 DEF SlotsKept
    <3>3. available'[q] = Slots(q) \ {iov'[q][j].slot : j \in InSlot(q)'}
      <4>1. iov[q][k].slot \in Slots(q) /\ available[q] = Slots(q) \ {iov[q][j].slot : j \in InSlot(q)}
        BY <1>0, <3>1 DEF SlotsKept
      <4> QED
        BY <1>3, <2>2, <3>2, <4>1
    <3>4. /\ \A j \in InSlot(q)' : iov'[q][j].slot \in Slots(q)
          /\ \A i, j \in InSlot(q)' : iov'[q][i].slot = iov'[q][j].slot => i = j
      BY <1>0, <3>1 DEF SlotsKept
    <3> QED
      BY <3>1, <3>3, <3>4 DEF SlotsKept
  <2> QED
    BY <2>1, <2>2
<1>6. ASSUME NEW q \in Records
      PROVE  /\ UsedWhileStarted(q)' /\ CurrentIsInterval(q)' /\ LastIOV(q)'
  <2>1. UsedWhileStarted(q)'
    <3>1. ASSUME NEW j \in Syncs
          PROVE  /\ iov'[q][j].phase # "none" => j <= syncs /\ ~(j = syncs /\ q \in waiting)
                 /\ iov'[q][j].phase # "started" => iov'[q][j].users = {} /\ current[q] # j
                 /\ iov'[q][j].users \subseteq using
      <4>1. /\ iov[q][j].phase # "none" => j <= syncs /\ ~(j = syncs /\ q \in waiting)
            /\ iov[q][j].phase # "started" => iov[q][j].users = {} /\ current[q] # j
            /\ iov[q][j].users \subseteq using
        BY <1>0 DEF UsedWhileStarted
      <4>2. /\ iov'[q][j].phase = IF q = r /\ j = k THEN "freed" ELSE iov[q][j].phase
            /\ iov'[q][j].users = iov[q][j].users
        BY <1>2
      <4> QED
        BY <1>1, <4>1, <4>2
    <3> QED
      BY <1>0, <1>1, <3>1 DEF UsedWhileStarted
  <2>2. CurrentIsInterval(q)'
    BY <1>0, <1>1 DEF CurrentIsInterval
  <2>3. LastIOV(q)'
    BY <1>0, <1>1, <1>5 DEF LastIOV
  <2> QED
    BY <1>0, <1>5, <2>1, <2>2, <2>3
<1>7. RightIOVUnlessFailed'
  <2> SUFFICES ASSUME NEW u \in using \ after, NEW q \in Records, wanted[u][q] # 0
               PROVE  LET want == wanted[u][q]
                      IN  \/ iov'[q][want].phase = "started" /\ u \in iov'[q][want].users
                          \/ u = syncs /\ want = u /\ q \in waiting
    BY <1>1 DEF RightIOVUnlessFailed
  <2>1. u \in Syncs
    BY <1>0, ConstantFacts DEF IOVTypeOK
  <2>2. wanted[u][q] \in Syncs
    BY <1>0, <2>1, ConstantFacts DEF IOVTypeOK
  <2>3. \/ iov[q][wanted[u][q]].phase = "started" /\ u \in iov[q][wanted[u][q]].users
        \/ u = syncs /\ wanted[u][q] = u /\ q \in waiting
    BY <1>0 DEF RightIOVUnlessFailed
  <2> QED
    BY <1>1, <1>2, <2>2, <2>3
<1> QED
  BY <1>4, <1>5, <1>6, <1>7 DEF IInv

(* The queue goes on when the slot is free; what was the last IOV of a     *)
(* record tells the task of taskCleanup().                                 *)
LEMMA ResumeQueueStep == ASSUME IInv, NEW r \in Records, NEW k \in Syncs, ResumeQueue(r, k) PROVE IInv'
<1>0. /\ IOVTypeOK /\ RightIOVUnlessFailed
      /\ \A q \in Records : /\ SlotsKept(q) /\ UsedWhileStarted(q)
                            /\ CurrentIsInterval(q) /\ LastIOV(q)
  BY DEF IInv
<1>1. /\ iov[r][k].phase = "freed"
      /\ told' = IF ending = "asked" THEN told \cup {r} ELSE told
      /\ UNCHANGED <<syncs, failures, interval, current, waiting, available, using, wanted, after, ending>>
  BY DEF ResumeQueue
<1>2. /\ iov' \in [Records -> [Syncs -> [phase : {"none", "started", "freed", "ended"}, slot : Nat,
                                         users : SUBSET Syncs]]]
      /\ \A q \in Records : \A j \in Syncs :
           /\ iov'[q][j].phase = IF q = r /\ j = k THEN "ended" ELSE iov[q][j].phase
           /\ iov'[q][j].slot = iov[q][j].slot /\ iov'[q][j].users = iov[q][j].users
  <2>1. PhaseSet(r, k, "ended")
    BY DEF ResumeQueue, PhaseSet
  <2>2. OnlyPhase(r, k, "ended")
    BY <1>0, <2>1, PhaseMoves
  <2> QED
    BY <2>2 DEF OnlyPhase
<1>3. IOVTypeOK'
  BY <1>0, <1>1, <1>2 DEF IOVTypeOK
<1>4. ASSUME NEW q \in Records
      PROVE  /\ Started(q)' = IF q = r THEN Started(q) \ {k} ELSE Started(q)
             /\ q = r => k \in Started(q)
             /\ InSlot(q)' = InSlot(q) /\ \A j \in InSlot(q) : iov'[q][j].slot = iov[q][j].slot
  BY <1>1, <1>2 DEF Started, InSlot
<1>5. ASSUME NEW q \in Records
      PROVE  /\ SlotsKept(q)' /\ UsedWhileStarted(q)'
             /\ CurrentIsInterval(q)' /\ LastIOV(q)'
  <2>1. SlotsKept(q)'
    <3>1. {iov'[q][j].slot : j \in InSlot(q)} = {iov[q][j].slot : j \in InSlot(q)}
      BY <1>4
    <3>2. available'[q] = Slots(q) \ {iov'[q][j].slot : j \in InSlot(q)'}
      BY <1>0, <1>1, <1>4, <3>1 DEF SlotsKept
    <3> QED
      BY <1>0, <1>4, <3>2 DEF SlotsKept
  <2>2. UsedWhileStarted(q)'
    <3>1. ASSUME NEW j \in Syncs
          PROVE  /\ iov'[q][j].phase # "none" => j <= syncs /\ ~(j = syncs /\ q \in waiting)
                 /\ iov'[q][j].phase # "started" => iov'[q][j].users = {} /\ current[q] # j
                 /\ iov'[q][j].users \subseteq using
      <4>1. /\ iov[q][j].phase # "none" => j <= syncs /\ ~(j = syncs /\ q \in waiting)
            /\ iov[q][j].phase # "started" => iov[q][j].users = {} /\ current[q] # j
            /\ iov[q][j].users \subseteq using
        BY <1>0 DEF UsedWhileStarted
      <4>2. /\ iov'[q][j].phase # "none" => iov[q][j].phase # "none"
            /\ iov'[q][j].phase # "started" => iov[q][j].phase # "started"
            /\ iov'[q][j].users = iov[q][j].users
        BY <1>1, <1>2
      <4> QED
        BY <4>1, <4>2
    <3> QED
      BY <1>0, <1>1, <3>1 DEF UsedWhileStarted
  <2>3. CurrentIsInterval(q)'
    BY <1>0, <1>1 DEF CurrentIsInterval
  <2>4. LastIOV(q)'
    <3>1. /\ ending # "no" => using = {} /\ waiting = {} /\ \A i, j \in Started(q) : i = j
          /\ ending # "no" /\ q \in told => Started(q) = {}
          /\ ending = "done" => q \in told
      BY <1>0 DEF LastIOV
    <3>2. ending # "no" => \A i, j \in Started(q)' : i = j
      BY <1>4, <3>1
    <3>3. ending # "no" /\ q \in told' => Started(q)' = {}
      BY <1>1, <1>4, <3>1
    <3>4. ending = "done" => q \in told'
      BY <1>1, <3>1
    <3> QED
      BY <1>1, <3>1, <3>2, <3>3, <3>4 DEF LastIOV
  <2> QED
    BY <2>1, <2>2, <2>3, <2>4
<1>6. RightIOVUnlessFailed'
  <2> SUFFICES ASSUME NEW u \in using \ after, NEW q \in Records, wanted[u][q] # 0
               PROVE  LET want == wanted[u][q]
                      IN  \/ iov'[q][want].phase = "started" /\ u \in iov'[q][want].users
                          \/ u = syncs /\ want = u /\ q \in waiting
    BY <1>1 DEF RightIOVUnlessFailed
  <2>1. u \in Syncs
    BY <1>0, ConstantFacts DEF IOVTypeOK
  <2>2. wanted[u][q] \in Syncs
    BY <1>0, <2>1, ConstantFacts DEF IOVTypeOK
  <2>3. \/ iov[q][wanted[u][q]].phase = "started" /\ u \in iov[q][wanted[u][q]].users
        \/ u = syncs /\ wanted[u][q] = u /\ q \in waiting
    BY <1>0 DEF RightIOVUnlessFailed
  <2> QED
    BY <1>1, <1>2, <2>2, <2>3
<1> QED
  BY <1>3, <1>5, <1>6 DEF IInv

(* Asked to end when all is quiet, a record has at most the IOV it keeps.  *)
LEMMA EndIOVsStep == IInv /\ EndIOVs => IInv'
<1> SUFFICES ASSUME IInv, EndIOVs PROVE IInv'
  OBVIOUS
<1>0. /\ IOVTypeOK /\ RightIOVUnlessFailed
      /\ \A r \in Records : /\ SlotsKept(r) /\ UsedWhileStarted(r)
                            /\ CurrentIsInterval(r) /\ LastIOV(r)
  BY DEF IInv
<1>1. /\ ending = "no" /\ using = {} /\ waiting = {}
      /\ \A r \in Records, k \in Syncs : iov[r][k].phase \in {"none", "ended"} \/ current[r] = k
      /\ current' = [r \in Records |-> 0] /\ ending' = "asked"
      /\ told' = {r \in Records : current[r] = 0}
      /\ UNCHANGED <<syncs, failures, interval, waiting, iov, available, using, wanted, after>>
  BY DEF EndIOVs, Quiet
<1>2. IOVTypeOK'
  <2>1. current' \in [Records -> 0..MaxSyncs]
    BY <1>1, ConstantFacts
  <2> QED
    BY <1>0, <1>1, <2>1 DEF IOVTypeOK
<1>3. ASSUME NEW r \in Records
      PROVE  /\ SlotsKept(r)' /\ UsedWhileStarted(r)'
             /\ CurrentIsInterval(r)' /\ LastIOV(r)'
  <2>1. SlotsKept(r)' /\ Started(r)' = Started(r)
    BY <1>0, <1>1, SameSlots
  <2>2. UsedWhileStarted(r)'
    <3>1. \A k \in Syncs : k # 0
      BY ConstantFacts
    <3> QED
      BY <1>0, <1>1, <3>1 DEF UsedWhileStarted
  <2>3. CurrentIsInterval(r)'
    BY <1>0, <1>1 DEF CurrentIsInterval
  <2>4. LastIOV(r)'
    <3>1. \A j \in Started(r) : j = current[r] /\ j # 0
      BY <1>1, ConstantFacts DEF Started
    <3>2. \A j, k \in Started(r)' : j = k
      BY <2>1, <3>1
    <3>3. r \in told' => Started(r)' = {}
      BY <1>1, <2>1, <3>1
    <3> QED
      BY <1>1, <3>2, <3>3 DEF LastIOV
  <2> QED
    BY <1>0, <2>1, <2>2, <2>3, <2>4
<1>4. RightIOVUnlessFailed'
  BY <1>1 DEF RightIOVUnlessFailed
<1> QED
  BY <1>2, <1>3, <1>4 DEF IInv

(* The task of taskCleanup() runs when every record has told it.           *)
LEMMA EndTaskStep == IInv /\ EndTask => IInv'
<1> SUFFICES ASSUME IInv, EndTask PROVE IInv'
  OBVIOUS
<1>1. /\ ending = "asked" /\ told = Records /\ ending' = "done"
      /\ UNCHANGED <<syncs, failures, interval, current, waiting, iov, available, using, wanted, after, told>>
  BY DEF EndTask
<1>2. IOVTypeOK'
  BY <1>1 DEF IInv, IOVTypeOK
<1>3. ASSUME NEW r \in Records
      PROVE  /\ SlotsKept(r)' /\ UsedWhileStarted(r)'
             /\ CurrentIsInterval(r)' /\ LastIOV(r)'
  <2>1. /\ SlotsKept(r) /\ UsedWhileStarted(r)
        /\ CurrentIsInterval(r) /\ LastIOV(r)
    BY DEF IInv
  <2>2. SlotsKept(r)' /\ Started(r)' = Started(r)
    BY <1>1, <2>1, SameSlots
  <2>3. UsedWhileStarted(r)'
    BY <1>1, <2>1 DEF UsedWhileStarted
  <2>4. CurrentIsInterval(r)'
    BY <1>1, <2>1 DEF CurrentIsInterval
  <2>5. LastIOV(r)'
    BY <1>1, <2>1, <2>2 DEF LastIOV
  <2> QED
    BY <2>1, <2>2, <2>3, <2>4, <2>5
<1>4. RightIOVUnlessFailed'
  BY <1>1 DEF IInv, RightIOVUnlessFailed
<1> QED
  BY <1>2, <1>3, <1>4 DEF IInv

(* A stuttering step changes nothing.                                      *)
LEMMA StutterStep == IInv /\ UNCHANGED iovVars => IInv'
<1> SUFFICES ASSUME IInv, UNCHANGED iovVars PROVE IInv'
  OBVIOUS
<1>1. \A r \in Records : Started(r)' = Started(r) /\ InSlot(r)' = InSlot(r)
  BY DEF iovVars, Started, InSlot
<1>2. IOVTypeOK' /\ RightIOVUnlessFailed'
  BY DEF IInv, iovVars, IOVTypeOK, RightIOVUnlessFailed
<1>3. ASSUME NEW r \in Records
      PROVE  /\ SlotsKept(r)' /\ UsedWhileStarted(r)'
             /\ CurrentIsInterval(r)' /\ LastIOV(r)'
  BY <1>1 DEF IInv, iovVars, SlotsKept, UsedWhileStarted, CurrentIsInterval, LastIOV
<1> QED
  BY <1>2, <1>3 DEF IInv

LEMMA NextInvariant == IInv /\ [IOVNext]_iovVars => IInv'
BY SyncStep, FailedSyncStep, StartIOVStep, EndUserStep, FreeSlotStep, ResumeQueueStep, EndIOVsStep,
   EndTaskStep, StutterStep DEF IOVNext

-----------------------------------------------------------------------------
(* What the run checks follows from the invariant.                         *)
LEMMA InvariantImplies == IInv => IOVsSeparate /\ EndTaskIsLast
<1> SUFFICES ASSUME IInv PROVE IOVsSeparate /\ EndTaskIsLast
  OBVIOUS
<1>1. \A r \in Records : Cardinality(Started(r)) < Concurrent[r] => available[r] # {}
  BY SlotLeft DEF IInv
<1>2. IOVsSeparate
  BY <1>1 DEF IInv, IOVsSeparate
<1>3. EndTaskIsLast
  <2> SUFFICES ASSUME ending = "done", NEW r \in Records, NEW k \in Syncs
               PROVE  iov[r][k].phase \in {"none", "ended"}
    BY DEF EndTaskIsLast
  <2>1. Started(r) = {}
    BY DEF IInv, LastIOV
  <2>2. iov[r][k].phase \in {"none", "started", "freed", "ended"}
    BY DEF IInv, IOVTypeOK
  <2> QED
    BY <2>1, <2>2 DEF Started
<1> QED
  BY <1>2, <1>3

LEMMA InvariantAlways == IOVSpec => []IInv
BY InitInvariant, NextInvariant, PTL DEF IOVSpec

(* No two IOVs of a record share a slot, none is ended while it is used or *)
(* current, and a task that starts one finds a slot, unless its queue      *)
(* hands it out late, when startNewIOVAsync() may throw instead.           *)
THEOREM IOVInvariant == IOVSpec => []IOVsSeparate
BY InvariantAlways, InvariantImplies, PTL

(* Until a sync meets an exception, thrown by a finder or because its task *)
(* came late, a run or luminosity block keeps alive, in every record valid *)
(* for it, the IOV of the interval that its time is in.                    *)
THEOREM RightIOVInvariant == IOVSpec => []RightIOVUnlessFailed
<1>1. IInv => RightIOVUnlessFailed
  BY DEF IInv
<1> QED
  BY <1>1, InvariantAlways, PTL

(* The task of taskCleanup() runs only when no IOV is left.                *)
THEOREM EndTaskInvariant == IOVSpec => []EndTaskIsLast
BY InvariantAlways, InvariantImplies, PTL
=============================================================================
