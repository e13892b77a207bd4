--------------------------- MODULE SerialQueueSpec ---------------------------
(***************************************************************************)
(* What a serial task queue promises to its users: tasks are accepted in   *)
(* any order, begun in the order in which they were accepted, at most one  *)
(* at a time, each exactly once.  Pausing is invisible here: it only       *)
(* delays Begin.                                                           *)
(*                                                                         *)
(* FWCore/Concurrency/interface/SerialTaskQueue.h, lines 10-31.            *)
(***************************************************************************)
EXTENDS Naturals, Sequences

CONSTANT Tasks          \* the tasks that may be pushed

VARIABLES waiting,      \* accepted tasks not yet begun, oldest first
          active,       \* the task handed out and not yet finished: at most one
          finished      \* the tasks whose action has returned

vars == <<waiting, active, finished>>

Elements(s) == {s[i] : i \in 1..Len(s)}

TypeOK == /\ waiting \in Seq(Tasks)
          /\ active \subseteq Tasks
          /\ finished \subseteq Tasks

Init == /\ waiting = <<>>
        /\ active = {}
        /\ finished = {}

Accept(t) == /\ t \notin Elements(waiting) \cup active \cup finished
             /\ waiting' = Append(waiting, t)
             /\ UNCHANGED <<active, finished>>

Begin == /\ active = {}
         /\ waiting # <<>>
         /\ active' = {Head(waiting)}
         /\ waiting' = Tail(waiting)
         /\ UNCHANGED finished

End(t) == /\ t \in active
          /\ active' = active \ {t}
          /\ finished' = finished \cup {t}
          /\ UNCHANGED waiting

Next == \/ \E t \in Tasks : Accept(t) \/ End(t)
        \/ Begin

Spec == Init /\ [][Next]_vars
=============================================================================
