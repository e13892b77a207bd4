---------------------------- MODULE ResourceLatch ----------------------------
(***************************************************************************)
(* What a WaitingTaskList promises: tasks added before the resource is     *)
(* done wait for it, tasks added afterwards run at once, each task is      *)
(* released exactly once and learns the exception the resource ended with. *)
(*                                                                         *)
(* FWCore/Concurrency/interface/WaitingTaskList.h, lines 12-19, 105-133.   *)
(***************************************************************************)
CONSTANTS Tasks,        \* the tasks that may be added
          Exceptions,   \* what doneWaiting() may report as a failure
          None          \* the null exception_ptr

VARIABLES waiting,      \* the resource is not yet done
          exception,    \* what the resource ended with
          added,        \* the tasks added
          released,     \* the tasks whose waiting is over
          failure       \* the exception each task was told of

vars == <<waiting, exception, added, released, failure>>

Init == /\ waiting = TRUE
        /\ exception = None
        /\ added = {}
        /\ released = {}
        /\ failure = [t \in Tasks |-> None]

Add(t) == /\ t \notin added
          /\ added' = added \cup {t}
          /\ UNCHANGED <<waiting, exception, released, failure>>

Done(e) == /\ waiting
           /\ waiting' = FALSE
           /\ exception' = e
           /\ UNCHANGED <<added, released, failure>>

(* A task already told of a failure keeps the first one it was told of.    *)
Fail(t, e) == /\ t \in added \ released
              /\ failure[t] = None
              /\ failure' = [failure EXCEPT ![t] = e]
              /\ UNCHANGED <<waiting, exception, added, released>>

Release(t) == /\ ~waiting
              /\ t \in added \ released
              /\ exception # None => failure[t] # None
              /\ released' = released \cup {t}
              /\ UNCHANGED <<waiting, exception, added, failure>>

Reset == /\ ~waiting
         /\ added = released
         /\ waiting' = TRUE
         /\ exception' = None
         /\ UNCHANGED <<added, released, failure>>

Next == \/ \E t \in Tasks : Add(t) \/ Release(t) \/ \E e \in Exceptions : Fail(t, e)
        \/ \E e \in Exceptions \cup {None} : Done(e)
        \/ Reset

Spec == Init /\ [][Next]_vars
=============================================================================
