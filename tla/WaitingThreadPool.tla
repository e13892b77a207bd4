------------------------- MODULE WaitingThreadPool -------------------------
(***************************************************************************)
(* edm::Async on top of edm::WaitingThreadPool: a call of runAsync() hands *)
(* a function to a thread of its own, taken from an                        *)
(* edm::ReusableObjectHolder or made, and the thread tells the task that   *)
(* waits for the function.  The service forbids further calls when the job *)
(* ends, and its destructor stops the threads.                             *)
(***************************************************************************)
EXTENDS Naturals, Sequences, FiniteSets

CONSTANTS Calls,        \* the calls of runAsync()
          Tasks,        \* the WaitingTasks that wait for them
          TaskOf,       \* the task in the WaitingTaskWithArenaHolder of a call
          MaxSpurious,  \* bound: wake-ups of cond_ that nobody asked for
          NoCall

ASSUME PoolAssumption == /\ IsFiniteSet(Calls)
                         /\ NoCall \notin Calls
                         /\ TaskOf \in [Calls -> Tasks]
                         /\ MaxSpurious \in Nat

Threads == 1..Cardinality(Calls)        \* WaitingThreads, in the order they are made

VARIABLES allowed,      \* AsyncService::allowed_
          available,    \* m_availableQueue
          outstanding,  \* m_outstandingObjects
          loop,         \* where the threadLoop() of each thread is
          func,         \* func_, named by the call it comes from
          thisPtr,      \* whether thisPtr_ is set
          stopThread,   \* stopThread_
          call,         \* where each call is
          worker,       \* the thread each call has got, 0 if none
          exception,    \* the exception each task was given, named by its call
          destroy,      \* where the destructor of the pool is
          doomed,       \* the thread it is destroying, 0 if none
          spuriousLeft, \* bound
          threw         \* history: the calls whose function threw

threadVars == <<loop, func, thisPtr, stopThread>>
poolVars == <<available, outstanding>>
callVars == <<call, worker, exception, threw>>
destroyVars == <<destroy, doomed>>
vars == <<allowed, poolVars, threadVars, callVars, destroyVars, spuriousLeft>>

Init ==
  /\ allowed = TRUE
  /\ available = <<>>
  /\ outstanding = 0
  /\ loop = [w \in Threads |-> "none"]
  /\ func = [w \in Threads |-> NoCall]
  /\ thisPtr = [w \in Threads |-> FALSE]
  /\ stopThread = [w \in Threads |-> FALSE]
  /\ call = [c \in Calls |-> "none"]
  /\ worker = [c \in Calls |-> 0]
  /\ exception = [t \in Tasks |-> NoCall]
  /\ destroy = "none" /\ doomed = 0
  /\ spuriousLeft = MaxSpurious
  /\ threw = {}

Made == {w \in Threads : loop[w] # "none"}
InProgress == {c \in Calls : call[c] \in {"get", "make", "submit", "given"}}

TypeOK ==
  /\ allowed \in BOOLEAN
  /\ available \in Seq(Threads)
  /\ outstanding \in 0..Cardinality(Calls)
  /\ loop \in [Threads -> {"none", "start", "test", "waiting", "woken", "run", "giveback",
                           "uncount", "release", "ended", "joined"}]
  /\ func \in [Threads -> Calls \cup {NoCall}]
  /\ thisPtr \in [Threads -> BOOLEAN]
  /\ stopThread \in [Threads -> BOOLEAN]
  /\ call \in [Calls -> {"none", "get", "make", "submit", "given", "told", "refused"}]
  /\ worker \in [Calls -> {0} \cup Threads]
  /\ exception \in [Tasks -> Calls \cup {NoCall}]
  /\ destroy \in {"none", "pop", "stop", "join", "done"} /\ doomed \in {0} \cup Threads
  /\ spuriousLeft \in 0..MaxSpurious
  /\ threw \subseteq Calls

(* threadLoop() holds mutex_, except in cond_.wait() and before and after  *)
(* its loop; run() and stopThread() hold it for a single step.             *)
Locked(w) == loop[w] \in {"test", "run", "giveback", "uncount", "release"}

(* cond_.notify_one()                                                      *)
Notified(w) == [loop EXCEPT ![w] = IF @ = "waiting" THEN "woken" ELSE @]

At(w, label) == loop[w] = label
Goto(w, label) == loop' = [loop EXCEPT ![w] = label]
Move(c, label) == call' = [call EXCEPT ![c] = label]

-----------------------------------------------------------------------------
(* runAsync()                                                              *)

(* ensureAllowed(): the exception it throws destroys the holder.           *)
Call(c) ==
  /\ call[c] = "none" /\ destroy = "none"
  /\ Move(c, IF allowed THEN "get" ELSE "refused")
  /\ UNCHANGED <<allowed, poolVars, threadVars, worker, exception, threw, destroyVars,
                 spuriousLeft>>

(* The calls left are not made: the job is over.                           *)
Forbid ==
  /\ allowed
  /\ allowed' = FALSE
  /\ UNCHANGED <<poolVars, threadVars, callVars, destroyVars, spuriousLeft>>

(* Mutant: the thread got is left in the queue.                            *)
GetPeek(c) ==
  /\ call[c] = "get"
  /\ available # <<>>
  /\ worker' = [worker EXCEPT ![c] = Head(available)]
  /\ outstanding' = outstanding + 1
  /\ Move(c, "submit")
  /\ UNCHANGED <<allowed, available, threadVars, exception, threw, destroyVars,
                 spuriousLeft>>

(* makeOrGet(): try_pop() finds a thread, ...                              *)
Get(c) ==
  /\ call[c] = "get"
  /\ available # <<>>
  /\ worker' = [worker EXCEPT ![c] = Head(available)]
  /\ available' = Tail(available)
  /\ outstanding' = outstanding + 1
  /\ Move(c, "submit")
  /\ UNCHANGED <<allowed, threadVars, exception, threw, destroyVars, spuriousLeft>>

(* ... or it does not, ...                                                 *)
GetNone(c) ==
  /\ call[c] = "get"
  /\ available = <<>>
  /\ Move(c, "make")
  /\ UNCHANGED <<allowed, poolVars, threadVars, worker, exception, threw, destroyVars,
                 spuriousLeft>>

(* ... and a thread is made.                                               *)
Make(c) ==
  LET w == Cardinality(Made) + 1 IN
  /\ call[c] = "make"
  /\ Goto(w, "start")
  /\ worker' = [worker EXCEPT ![c] = w]
  /\ outstanding' = outstanding + 1
  /\ Move(c, "submit")
  /\ UNCHANGED <<allowed, available, func, thisPtr, stopThread, exception, threw,
                 destroyVars, spuriousLeft>>

(* WaitingThread::run()                                                    *)
Submit(c) ==
  LET w == worker[c] IN
  /\ call[c] = "submit"
  /\ ~Locked(w)
  /\ func' = [func EXCEPT ![w] = c]
  /\ thisPtr' = [thisPtr EXCEPT ![w] = TRUE]
  /\ loop' = Notified(w)
  /\ Move(c, "given")
  /\ UNCHANGED <<allowed, poolVars, stopThread, worker, exception, threw, destroyVars,
                 spuriousLeft>>

-----------------------------------------------------------------------------
(* WaitingThread::threadLoop()                                             *)

(* The thread takes mutex_, at first or in cond_.wait().                   *)
Lock(w) ==
  /\ At(w, "start") \/ At(w, "woken")
  /\ Goto(w, "test")
  /\ UNCHANGED <<allowed, poolVars, func, thisPtr, stopThread, callVars, destroyVars,
                 spuriousLeft>>

Spurious(w) ==
  /\ At(w, "waiting")
  /\ spuriousLeft > 0
  /\ spuriousLeft' = spuriousLeft - 1
  /\ Goto(w, "woken")
  /\ UNCHANGED <<allowed, poolVars, func, thisPtr, stopThread, callVars, destroyVars>>

(* The predicate of cond_.wait(), and the branch on stopThread_            *)
Test(w) ==
  /\ At(w, "test")
  /\ Goto(w, IF stopThread[w] THEN "ended"
             ELSE IF func[w] # NoCall THEN "run" ELSE "waiting")
  /\ UNCHANGED <<allowed, poolVars, func, thisPtr, stopThread, callVars, destroyVars,
                 spuriousLeft>>

(* Mutant: the exception is not passed on.                                 *)
RunUnreported(w, throws) ==
  LET c == func[w] IN
  /\ At(w, "run")
  /\ threw' = IF throws THEN threw \cup {c} ELSE threw
  /\ Goto(w, "giveback")
  /\ UNCHANGED <<allowed, poolVars, func, thisPtr, stopThread, call, worker, exception,
                 destroyVars, spuriousLeft>>

(* Mutant: the lambda made by run() calls doneWaiting().                   *)
RunAndTell(w, throws) ==
  LET c == func[w]
      t == TaskOf[c] IN
  /\ At(w, "run")
  /\ exception' = [exception EXCEPT ![t] = IF throws /\ @ = NoCall THEN c ELSE @]
  /\ threw' = IF throws THEN threw \cup {c} ELSE threw
  /\ Move(c, "told")
  /\ Goto(w, "giveback")
  /\ UNCHANGED <<allowed, poolVars, func, thisPtr, stopThread, worker, destroyVars,
                 spuriousLeft>>

(* func_(): an exception of the function goes to presetTaskAsFailed();     *)
(* the task keeps the first it is given.                                   *)
Run(w, throws) ==
  LET c == func[w]
      t == TaskOf[c] IN
  /\ At(w, "run")
  /\ exception' = [exception EXCEPT ![t] = IF throws /\ @ = NoCall THEN c ELSE @]
  /\ threw' = IF throws THEN threw \cup {c} ELSE threw
  /\ Goto(w, "giveback")
  /\ UNCHANGED <<allowed, poolVars, func, thisPtr, stopThread, call, worker,
                 destroyVars, spuriousLeft>>

(* thisPtr_.reset() calls addBack(): first the push, ...                   *)
GiveBack(w) ==
  /\ At(w, "giveback")
  /\ thisPtr' = [thisPtr EXCEPT ![w] = FALSE]
  /\ available' = Append(available, w)
  /\ Goto(w, "uncount")
  /\ UNCHANGED <<allowed, outstanding, func, stopThread, callVars, destroyVars, spuriousLeft>>

(* ... then the count.                                                     *)
Uncount(w) ==
  /\ At(w, "uncount")
  /\ outstanding' = outstanding - 1
  /\ Goto(w, "release")
  /\ UNCHANGED <<allowed, available, func, thisPtr, stopThread, callVars, destroyVars,
                 spuriousLeft>>

(* func_ is swapped away and destroyed, and its holder with it.            *)
Release(w) ==
  /\ At(w, "release")
  /\ Move(func[w], "told")
  /\ func' = [func EXCEPT ![w] = NoCall]
  /\ Goto(w, "test")
  /\ UNCHANGED <<allowed, poolVars, thisPtr, stopThread, worker, exception, threw,
                 destroyVars, spuriousLeft>>

-----------------------------------------------------------------------------
(* The destructors of WaitingThreadPool and ReusableObjectHolder           *)

(* The owner keeps the pool alive until every call has finished.           *)
Destroy ==
  /\ destroy = "none"
  /\ InProgress = {}
  /\ destroy' = "pop"
  /\ UNCHANGED <<allowed, poolVars, threadVars, callVars, doomed, spuriousLeft>>

DestroyNext ==
  /\ destroy = "pop"
  /\ IF available = <<>>
       THEN /\ destroy' = "done"
            /\ UNCHANGED <<available, doomed>>
       ELSE /\ destroy' = "stop"
            /\ doomed' = Head(available)
            /\ available' = Tail(available)
  /\ UNCHANGED <<allowed, outstanding, threadVars, callVars, spuriousLeft>>

(* Mutant: stopThread() does not notify the thread.                        *)
StopQuietly ==
  /\ destroy = "stop"
  /\ ~Locked(doomed)
  /\ stopThread' = [stopThread EXCEPT ![doomed] = TRUE]
  /\ destroy' = "join"
  /\ UNCHANGED <<allowed, poolVars, loop, func, thisPtr, callVars, doomed, spuriousLeft>>

(* ~WaitingThread(): stopThread() ...                                      *)
Stop ==
  /\ destroy = "stop"
  /\ ~Locked(doomed)
  /\ stopThread' = [stopThread EXCEPT ![doomed] = TRUE]
  /\ loop' = Notified(doomed)
  /\ destroy' = "join"
  /\ UNCHANGED <<allowed, poolVars, func, thisPtr, callVars, doomed, spuriousLeft>>

(* ... and thread_.join()                                                  *)
Join ==
  /\ destroy = "join"
  /\ At(doomed, "ended")
  /\ Goto(doomed, "joined")
  /\ destroy' = "pop" /\ doomed' = 0
  /\ UNCHANGED <<allowed, poolVars, func, thisPtr, stopThread, callVars, spuriousLeft>>

-----------------------------------------------------------------------------
CallStep(c) == Get(c) \/ GetNone(c) \/ Make(c) \/ Submit(c)

LoopStep(w) == \/ Lock(w) \/ Test(w)
               \/ \E throws \in BOOLEAN : Run(w, throws)
               \/ GiveBack(w) \/ Uncount(w) \/ Release(w)

DestroyStep == DestroyNext \/ Stop \/ Join

(* Threads run, and functions return.                                      *)
Progress == \/ \E c \in Calls : CallStep(c)
            \/ \E w \in Threads : LoopStep(w)
            \/ DestroyStep

AtRest == destroy = "done" /\ ~allowed /\ UNCHANGED vars

Next == \/ Progress
        \/ \E c \in Calls : Call(c)
        \/ \E w \in Threads : Spurious(w)
        \/ Forbid
        \/ Destroy
        \/ AtRest

Spec == Init /\ [][Next]_vars
FairSpec == Spec /\ WF_vars(Progress)

-----------------------------------------------------------------------------
(* Correctness.                                                            *)

(* Who has a thread: the queue, a call, its own thisPtr_, the destructor.  *)
Queued(w)  == \E i \in DOMAIN available : available[i] = w
Claimed(w) == \E c \in Calls : call[c] = "submit" /\ worker[c] = w
Doomed(w)  == doomed = w \/ At(w, "joined")

(* Every thread made, and no other, has an owner, and it has only one, who *)
(* has it once.  So none is lost and no two calls share one.               *)
OneOwner ==
  /\ \A w \in Threads :
       /\ w \in Made <=> Queued(w) \/ Claimed(w) \/ thisPtr[w] \/ Doomed(w)
       /\ Queued(w) => ~Claimed(w) /\ ~thisPtr[w] /\ ~Doomed(w)
       /\ Claimed(w) => ~thisPtr[w] /\ ~Doomed(w)
       /\ thisPtr[w] => ~Doomed(w)
  /\ \A i, j \in DOMAIN available : available[i] = available[j] => i = j
  /\ \A c, d \in Calls : call[c] = "submit" /\ call[d] = "submit" /\ worker[c] = worker[d] => c = d

(* A thread goes back into the queue before it has let go of its function. *)
(* The call that gets it then does not overwrite that function: it waits   *)
(* for mutex_ until the task of the earlier call was told.                 *)
NeverOverwritten ==
  \A c \in Calls :
    call[c] = "submit" /\ ~Locked(worker[c]) =>
      func[worker[c]] = NoCall /\ ~thisPtr[worker[c]]

(* A thread and the call whose function it has know each other, from run() *)
(* until the function is released.                                         *)
FunctionHeld ==
  /\ \A c \in Calls : call[c] = "given" => worker[c] \in Made /\ func[worker[c]] = c
  /\ \A w \in Threads :
       /\ func[w] # NoCall => call[func[w]] = "given" /\ worker[func[w]] = w
       /\ func[w] # NoCall <=> thisPtr[w] \/ At(w, "uncount") \/ At(w, "release")
       /\ thisPtr[w] => loop[w] \in {"start", "test", "woken", "run", "giveback"}
       /\ At(w, "run") \/ At(w, "giveback") => thisPtr[w]

(* Threads are made for calls that found none, at most one for each call,  *)
(* and a call counts from makeOrGet() until its thread was counted back.   *)
Counted == {c \in Calls : \/ call[c] = "submit"
                          \/ call[c] = "given" /\ ~At(worker[c], "release")}

ThreadsCounted ==
  /\ outstanding = Cardinality(Counted)
  /\ Made = 1..Cardinality(Made)
  /\ \A w \in Made : \E c \in Calls : worker[c] = w
  /\ \A c \in Calls : /\ call[c] \in {"none", "refused", "get", "make"} => worker[c] = 0
                      /\ call[c] = "submit" => worker[c] \in Made

(* The destructor meets no call, and only the threads it has taken out of  *)
(* the queue are stopped.                                                  *)
StoppedLast ==
  /\ destroy # "none" => InProgress = {}
  /\ doomed # 0 <=> destroy \in {"stop", "join"}
  /\ \A w \in Threads : /\ stopThread[w] => Doomed(w)
                        /\ At(w, "ended") \/ At(w, "joined") => stopThread[w]

(* The exception a task has was thrown for it, and is there if any was.    *)
ThrowsKept ==
  \A t \in Tasks : LET failed == {c \in threw : TaskOf[c] = t}
                   IN  exception[t] \in IF failed = {} THEN {NoCall} ELSE failed

(* A thread, and the function it holds, belong to one call at a time.      *)
ThreadsOwned == /\ TypeOK /\ OneOwner /\ NeverOverwritten
                /\ FunctionHeld /\ ThreadsCounted /\ StoppedLast /\ ThrowsKept

(* The owner may destroy the pool as soon as the tasks were told: nothing  *)
(* is outstanding then, and no thread is stopped that has a function or    *)
(* the last reference to itself (the assertions of both destructors).      *)
NoneOutstanding ==
  destroy # "none" => /\ outstanding = 0
                      /\ \A w \in Threads : func[w] = NoCall /\ ~thisPtr[w]

(* A task that may run, since all its calls are over, has an exception     *)
(* exactly if one of their functions threw.                                *)
FailureHandedOver ==
  \A t \in Tasks :
    LET calls == {c \in Calls : TaskOf[c] = t}
    IN  calls \cap InProgress = {} => (exception[t] # NoCall <=> calls \cap threw # {})

(* Every call that was allowed is run and told, and the destructor returns *)
(* having joined all threads.                                              *)
CallsAndDestructorEnd ==
  /\ \A c \in Calls : call[c] = "get" ~> call[c] = "told"
  /\ destroy = "pop" ~> destroy = "done" /\ \A w \in Made : At(w, "joined")
=============================================================================
