--------------------------- MODULE OccurrenceSpec ---------------------------
(***************************************************************************)
(* What the event processor promises the modules of a job, whatever is     *)
(* read and whatever throws: the transitions nest.  A run or a luminosity  *)
(* block is ended once, globally after every stream has left it, a run     *)
(* after its luminosity blocks; a stream is in a luminosity block only     *)
(* while it is in its run, and it has at most one event.                   *)
(***************************************************************************)
EXTENDS Naturals, FiniteSets

CONSTANTS Streams,
          MaxRuns, MaxLumis       \* how many may be open at a time

VARIABLES begunRuns, endedRuns,   \* sets of runs
          begunLumis, endedLumis, \* sets of <<run, lumi>>
          inRun, inLumi,          \* where each stream is, 0 if nowhere
          inEvent                 \* the streams with an event

vars == <<begunRuns, endedRuns, begunLumis, endedLumis, inRun, inLumi, inEvent>>

runVars == <<begunRuns, endedRuns>>
lumiVars == <<begunLumis, endedLumis>>
streamVars == <<inRun, inLumi, inEvent>>

OpenRuns  == begunRuns \ endedRuns
OpenLumis == begunLumis \ endedLumis

Init ==
  /\ begunRuns = {} /\ endedRuns = {} /\ begunLumis = {} /\ endedLumis = {}
  /\ inRun = [s \in Streams |-> 0]
  /\ inLumi = [s \in Streams |-> 0]
  /\ inEvent = {}

GlobalBeginRun ==
  \E r \in begunRuns' \ begunRuns :
    /\ Cardinality(OpenRuns) < MaxRuns
    /\ begunRuns' = begunRuns \cup {r}
    /\ UNCHANGED <<endedRuns, lumiVars, streamVars>>

GlobalEndRun ==
  \E r \in OpenRuns :
    /\ \A s \in Streams : inRun[s] # r
    /\ \A l \in OpenLumis : l[1] # r
    /\ endedRuns' = endedRuns \cup {r}
    /\ UNCHANGED <<begunRuns, lumiVars, streamVars>>

GlobalBeginLumi ==
  \E b \in begunLumis' \ begunLumis :
    /\ b[1] \in OpenRuns /\ \A k \in begunLumis : k[2] # b[2]
    /\ Cardinality(OpenLumis) < MaxLumis
    /\ begunLumis' = begunLumis \cup {b}
    /\ UNCHANGED <<endedLumis, runVars, streamVars>>

GlobalEndLumi ==
  \E l \in OpenLumis :
    /\ \A s \in Streams : inLumi[s] # l[2]
    /\ endedLumis' = endedLumis \cup {l}
    /\ UNCHANGED <<begunLumis, runVars, streamVars>>

StreamBeginRun(s) ==
  /\ inRun[s] = 0
  /\ \E r \in OpenRuns : inRun' = [inRun EXCEPT ![s] = r]
  /\ UNCHANGED <<runVars, lumiVars, inLumi, inEvent>>

StreamEndRun(s) ==
  /\ inRun[s] # 0 /\ inLumi[s] = 0
  /\ inRun' = [inRun EXCEPT ![s] = 0]
  /\ UNCHANGED <<runVars, lumiVars, inLumi, inEvent>>

StreamBeginLumi(s) ==
  /\ inLumi[s] = 0
  /\ \E l \in OpenLumis : /\ l[1] = inRun[s]
                          /\ inLumi' = [inLumi EXCEPT ![s] = l[2]]
  /\ UNCHANGED <<runVars, lumiVars, inRun, inEvent>>

StreamEndLumi(s) ==
  /\ inLumi[s] # 0 /\ s \notin inEvent
  /\ inLumi' = [inLumi EXCEPT ![s] = 0]
  /\ UNCHANGED <<runVars, lumiVars, inRun, inEvent>>

BeginEvent(s) ==
  /\ inLumi[s] # 0 /\ s \notin inEvent
  /\ inEvent' = inEvent \cup {s}
  /\ UNCHANGED <<runVars, lumiVars, inRun, inLumi>>

EndEvent(s) ==
  /\ s \in inEvent
  /\ inEvent' = inEvent \ {s}
  /\ UNCHANGED <<runVars, lumiVars, inRun, inLumi>>

Next == \/ GlobalBeginRun \/ GlobalEndRun \/ GlobalBeginLumi \/ GlobalEndLumi
        \/ \E s \in Streams : \/ StreamBeginRun(s) \/ StreamEndRun(s)
                              \/ StreamBeginLumi(s) \/ StreamEndLumi(s)
                              \/ BeginEvent(s) \/ EndEvent(s)

Spec == Init /\ [][Next]_vars
=============================================================================
