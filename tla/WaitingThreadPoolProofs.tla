---------------------- MODULE WaitingThreadPoolProofs ----------------------
(***************************************************************************)
(* Proofs about WaitingThreadPool, for any finite set of calls and any     *)
(* tasks they are made for.                                                *)
(***************************************************************************)
EXTENDS WaitingThreadPool, FiniteSetTheorems, TLAPS

LoopLabels == {"none", "start", "test", "waiting", "woken", "run", "giveback", "uncount",
               "release", "ended", "joined"}
CallLabels == {"none", "get", "make", "submit", "given", "told", "refused"}

-----------------------------------------------------------------------------
(* Lemmas about the operators of the model.                                *)

LEMMA ThreadFacts ==
  /\ Cardinality(Calls) \in Nat /\ Threads = 1..Cardinality(Calls)
  /\ 0 \notin Threads /\ Threads \subseteq Nat
  /\ \A S \in SUBSET Calls : /\ IsFiniteSet(S)
                             /\ Cardinality(S) \in 0..Cardinality(Calls)
<1>1. Cardinality(Calls) \in Nat
  BY PoolAssumption, FS_CardinalityType
<1>2. ASSUME NEW S \in SUBSET Calls
      PROVE  IsFiniteSet(S) /\ Cardinality(S) \in 0..Cardinality(Calls)
  <2>1. IsFiniteSet(S) /\ Cardinality(S) <= Cardinality(Calls)
    BY PoolAssumption, FS_Subset
  <2>2. Cardinality(S) \in Nat
    BY <2>1, FS_CardinalityType
  <2> QED
    BY <1>1, <2>1, <2>2
<1> QED
  BY <1>1, <1>2 DEF Threads

(* The types that most steps need.                                         *)
LEMMA Types ==
  ASSUME ThreadsOwned
  PROVE  /\ allowed \in BOOLEAN /\ available \in Seq(Threads)
         /\ outstanding \in 0..Cardinality(Calls)
         /\ loop \in [Threads -> LoopLabels] /\ func \in [Threads -> Calls \cup {NoCall}]
         /\ thisPtr \in [Threads -> BOOLEAN] /\ stopThread \in [Threads -> BOOLEAN]
         /\ call \in [Calls -> CallLabels] /\ worker \in [Calls -> {0} \cup Threads]
         /\ exception \in [Tasks -> Calls \cup {NoCall}]
         /\ destroy \in {"none", "pop", "stop", "join", "done"} /\ doomed \in {0} \cup Threads
         /\ spuriousLeft \in 0..MaxSpurious /\ threw \subseteq Calls
         /\ 0 \notin Threads /\ NoCall \notin Calls
BY ThreadFacts, PoolAssumption DEF ThreadsOwned, TypeOK, LoopLabels, CallLabels

(* The thread that a call makes is a new one, and there is room for it.    *)
LEMMA NextThread ==
  ASSUME ThreadsOwned, NEW c \in Calls, call[c] = "make"
  PROVE  /\ Cardinality(Made) \in Nat /\ IsFiniteSet(Made)
         /\ Made = 1..Cardinality(Made)
         /\ Cardinality(Made) + 1 \in Threads \ Made
<1> DEFINE Others == Calls \ {c}
           Got == {worker[d] : d \in Others}
           f == [d \in Others |-> worker[d]]
<1>1. worker[c] = 0 /\ \A w \in Made : \E d \in Calls : worker[d] = w
  BY DEF ThreadsOwned, ThreadsCounted
<1>2. Made \in SUBSET Got
  BY <1>1, ThreadFacts DEF Made
<1>3. IsFiniteSet(Others) /\ Cardinality(Others) = Cardinality(Calls) - 1
  BY PoolAssumption, FS_RemoveElement
<1>4. f \in Surjection(Others, Got)
  BY DEF Surjection
<1>5. IsFiniteSet(Got) /\ Cardinality(Got) <= Cardinality(Others)
  BY <1>3, <1>4, FS_Surjection
<1>6. IsFiniteSet(Made) /\ Cardinality(Made) <= Cardinality(Got)
  BY <1>2, <1>5, FS_Subset
<1>7. Cardinality(Made) \in Nat /\ Cardinality(Got) \in Nat
  BY <1>5, <1>6, FS_CardinalityType
<1>8. Cardinality(Made) + 1 \in Threads
  BY <1>3, <1>5, <1>6, <1>7, ThreadFacts
<1>9. Made = 1..Cardinality(Made)
  BY DEF ThreadsOwned, ThreadsCounted
<1> HIDE DEF Got, Others, f
<1>10. Cardinality(Made) + 1 \notin Made
  BY <1>7, <1>9
<1> QED
  BY <1>6, <1>7, <1>8, <1>9, <1>10

(* A step is one of these.                                                 *)
LEMMA StepCases ==
  ASSUME [Next]_vars
  PROVE  \/ \E c \in Calls : Call(c) \/ Get(c) \/ GetNone(c) \/ Make(c) \/ Submit(c)
         \/ \E w \in Threads : \/ Lock(w) \/ Spurious(w) \/ Test(w)
                               \/ \E throws \in BOOLEAN : Run(w, throws)
                               \/ GiveBack(w) \/ Uncount(w) \/ Release(w)
         \/ Forbid \/ Destroy \/ DestroyNext \/ Stop \/ Join
         \/ UNCHANGED vars
BY Zenon DEF Next, Progress, CallStep, LoopStep, DestroyStep, AtRest


-----------------------------------------------------------------------------
(* The queue of available threads.                                         *)

NoneTwice == \A i, j \in DOMAIN available : available[i] = available[j] => i = j

LEMMA HeadTaken ==
  ASSUME available \in Seq(Threads), NoneTwice, available # <<>>, available' = Tail(available)
  PROVE  /\ Head(available) \in Threads /\ Queued(Head(available))
         /\ available' \in Seq(Threads) /\ NoneTwice'
         /\ \A w : Queued(w)' <=> Queued(w) /\ w # Head(available)
<1>1. /\ Len(available) \in Nat \ {0} /\ DOMAIN available = 1..Len(available)
      /\ Head(available) = available[1] /\ available[1] \in Threads
  OBVIOUS
<1>2. /\ available' \in Seq(Threads) /\ DOMAIN available' = 1..(Len(available) - 1)
      /\ \A i \in 1..(Len(available) - 1) : available'[i] = available[i + 1]
  BY <1>1
<1>3. NoneTwice'
  <2> SUFFICES ASSUME NEW i \in DOMAIN available', NEW j \in DOMAIN available',
                      available'[i] = available'[j]
               PROVE  i = j
    BY DEF NoneTwice
  <2>1. /\ available[i + 1] = available[j + 1]
        /\ i + 1 \in 1..Len(available) /\ j + 1 \in 1..Len(available)
    BY <1>1, <1>2
  <2>2. i + 1 = j + 1
    BY <1>1, <2>1 DEF NoneTwice
  <2> QED
    BY <1>1, <1>2, <2>2
<1>4. ASSUME NEW w PROVE Queued(w)' <=> Queued(w) /\ w # Head(available)
  <2>1. ASSUME Queued(w)' PROVE Queued(w) /\ w # Head(available)
    <3>1. PICK i \in 1..(Len(available) - 1) : available'[i] = w
      BY <1>2, <2>1 DEF Queued
    <3>2. available[i + 1] = w /\ i + 1 \in 1..Len(available) /\ i + 1 # 1
      BY <1>1, <1>2, <3>1
    <3>3. 1 \in 1..Len(available)
      BY <1>1
    <3> QED
      BY <1>1, <3>2, <3>3 DEF Queued, NoneTwice
  <2>2. ASSUME Queued(w), w # Head(available) PROVE Queued(w)'
    <3>1. PICK i \in 1..Len(available) : available[i] = w
      BY <1>1, <2>2 DEF Queued
    <3>2. i # 1
      BY <1>1, <2>2, <3>1
    <3>3. i - 1 \in 1..(Len(available) - 1)
      BY <1>1, <3>2
    <3>4. available'[i - 1] = w
      BY <1>1, <1>2, <3>1, <3>3
    <3> QED
      BY <1>2, <3>3, <3>4 DEF Queued
  <2> QED
    BY <2>1, <2>2
<1>5. Queued(Head(available))
  BY <1>1 DEF Queued
<1> QED
  BY <1>1, <1>2, <1>3, <1>4, <1>5

LEMMA Returned ==
  ASSUME available \in Seq(Threads), NoneTwice, NEW t \in Threads, ~Queued(t),
         available' = Append(available, t)
  PROVE  /\ available' \in Seq(Threads) /\ NoneTwice'
         /\ \A w : Queued(w)' <=> Queued(w) \/ w = t
<1>1. Len(available) \in Nat /\ DOMAIN available = 1..Len(available)
  OBVIOUS
<1>2. /\ available' \in Seq(Threads) /\ DOMAIN available' = 1..(Len(available) + 1)
      /\ \A i \in 1..Len(available) : available'[i] = available[i]
      /\ available'[Len(available) + 1] = t
  BY <1>1
<1>3. NoneTwice'
  <2> SUFFICES ASSUME NEW i \in DOMAIN available', NEW j \in DOMAIN available',
                      available'[i] = available'[j]
               PROVE  i = j
    BY DEF NoneTwice
  <2>1. \A k \in 1..Len(available) : available[k] # t
    BY <1>1 DEF Queued
  <2>2. CASE i \in 1..Len(available) /\ j \in 1..Len(available)
    BY <1>1, <1>2, <2>2 DEF NoneTwice
  <2>3. CASE i = Len(available) + 1 \/ j = Len(available) + 1
    BY <1>1, <1>2, <2>1, <2>3
  <2> QED
    BY <1>1, <1>2, <2>2, <2>3
<1>4. ASSUME NEW w PROVE Queued(w)' <=> Queued(w) \/ w = t
  <2>1. \A i \in DOMAIN available' : i \in 1..Len(available) \/ i = Len(available) + 1
    BY <1>1, <1>2
  <2>2. Len(available) + 1 \in DOMAIN available' /\ 1..Len(available) \subseteq DOMAIN available'
    BY <1>1, <1>2
  <2> QED
    BY <1>1, <1>2, <2>1, <2>2 DEF Queued
<1> QED
  BY <1>2, <1>3, <1>4

-----------------------------------------------------------------------------
(* Every step keeps every part of the invariant.                           *)

(* A thread and the call whose function it has know each other.            *)
LEMMA FunctionStep ==
  ASSUME ThreadsOwned, [Next]_vars
  PROVE  FunctionHeld'
<1>0. FunctionHeld /\ OneOwner /\ StoppedLast /\ NeverOverwritten
  BY DEF ThreadsOwned
<1>1. ASSUME NEW c \in Calls, Call(c) \/ Get(c) \/ GetNone(c) PROVE FunctionHeld'
  <2>1. /\ UNCHANGED <<loop, func, thisPtr>> /\ call[c] \in {"none", "get"}
        /\ \A d \in Calls : /\ call'[d] = "given" <=> call[d] = "given"
                            /\ call[d] = "given" => worker'[d] = worker[d]
    BY <1>1, Types DEF Call, Get, GetNone, Move, threadVars
  <2> QED
    BY <1>0, <2>1, Types DEF FunctionHeld, Made, At
<1>2. ASSUME NEW c \in Calls, Make(c) PROVE FunctionHeld'
  <2>1. PICK t \in Threads \ Made : /\ loop' = [loop EXCEPT ![t] = "start"]
                                    /\ worker' = [worker EXCEPT ![c] = t]
    BY <1>2, NextThread DEF Make, Goto
  <2>2. UNCHANGED <<func, thisPtr>> /\ call[c] = "make" /\ call' = [call EXCEPT ![c] = "submit"]
    BY <1>2 DEF Make, Move
  <2> QED
    BY <1>0, <2>1, <2>2, Types DEF FunctionHeld, Made, At
<1>3. ASSUME NEW c \in Calls, Submit(c) PROVE FunctionHeld'
  <2>1. /\ call[c] = "submit" /\ ~Locked(worker[c]) /\ func[worker[c]] = NoCall
        /\ worker[c] \in Made
    BY <1>0, <1>3 DEF Submit, ThreadsOwned, NeverOverwritten, ThreadsCounted
  <2>2. PICK t \in Threads : t = worker[c]
    BY <2>1 DEF Made
  <2>3. /\ func' = [func EXCEPT ![t] = c] /\ thisPtr' = [thisPtr EXCEPT ![t] = TRUE]
        /\ loop' = [loop EXCEPT ![t] = IF loop[t] = "waiting" THEN "woken" ELSE loop[t]]
        /\ call' = [call EXCEPT ![c] = "given"] /\ UNCHANGED worker
    BY <1>3, <2>2 DEF Submit, Notified, Move
  <2>4. loop[t] \in {"start", "woken", "waiting"}
    <3>1. Claimed(t) /\ ~Doomed(t) /\ loop[t] # "none"
      BY <1>0, <2>1, <2>2 DEF Claimed, OneOwner, Made
    <3>2. loop[t] # "ended" /\ loop[t] # "joined"
      BY <1>0, <3>1 DEF StoppedLast, At
    <3> QED
      BY <2>1, <2>2, <3>1, <3>2, Types DEF Locked, LoopLabels
  <2> QED
    BY <1>0, <2>1, <2>2, <2>3, <2>4, Types DEF FunctionHeld, Made, At
<1>4. ASSUME NEW t \in Threads, Lock(t) \/ Spurious(t) \/ Test(t) PROVE FunctionHeld'
  <2>1. UNCHANGED <<func, thisPtr, call, worker>>
    BY <1>4 DEF Lock, Spurious, Test, callVars
  <2>2. \E to \in {"test", "woken", "ended", "run", "waiting"} :
           /\ loop' = [loop EXCEPT ![t] = to]
           /\ to \in {"ended", "waiting"} => func[t] = NoCall
           /\ to = "run" => func[t] # NoCall
    <3>1. CASE Lock(t) \/ Spurious(t)
      BY <3>1 DEF Lock, Spurious, Goto
    <3>2. CASE Test(t)
      <4>1. stopThread[t] => func[t] = NoCall
        BY <1>0, Types DEF StoppedLast, Doomed, At, FunctionHeld, InProgress
      <4> QED
        BY <3>2, <4>1, Types DEF Test, Goto
    <3> QED
      BY <1>4, <3>1, <3>2
  <2>3. loop[t] \in {"start", "woken", "waiting", "test"}
    BY <1>4 DEF Lock, Spurious, Test, At
  <2> QED
    BY <1>0, <2>1, <2>2, <2>3, Types DEF FunctionHeld, Made, At
<1>5. ASSUME NEW t \in Threads,
             (\E throws \in BOOLEAN : Run(t, throws)) \/ GiveBack(t) \/ Uncount(t)
      PROVE  FunctionHeld'
  <2>1. UNCHANGED <<func, call, worker>>
    BY <1>5 DEF Run, GiveBack, Uncount, callVars
  <2>2. \/ At(t, "run") /\ loop' = [loop EXCEPT ![t] = "giveback"] /\ UNCHANGED thisPtr
        \/ /\ At(t, "giveback") /\ loop' = [loop EXCEPT ![t] = "uncount"]
           /\ thisPtr' = [thisPtr EXCEPT ![t] = FALSE]
        \/ At(t, "uncount") /\ loop' = [loop EXCEPT ![t] = "release"] /\ UNCHANGED thisPtr
    BY <1>5 DEF Run, GiveBack, Uncount, Goto
  <2> QED
    BY <1>0, <2>1, <2>2, Types DEF FunctionHeld, Made, At
<1>6. ASSUME NEW t \in Threads, Release(t) PROVE FunctionHeld'
  <2>1. PICK c : c = func[t]
    OBVIOUS
  <2>2. /\ At(t, "release") /\ call' = [call EXCEPT ![c] = "told"] /\ UNCHANGED <<thisPtr, worker>>
        /\ func' = [func EXCEPT ![t] = NoCall] /\ loop' = [loop EXCEPT ![t] = "test"]
    BY <1>6, <2>1 DEF Release, Move, Goto
  <2>3. c \in Calls /\ call[c] = "given" /\ worker[c] = t
    BY <1>0, <2>1, <2>2, Types DEF FunctionHeld
  <2> QED
    BY <1>0, <2>1, <2>2, <2>3, Types DEF FunctionHeld, Made, At
<1>7. ASSUME Stop \/ Join PROVE FunctionHeld'
  <2>1. doomed \in Threads /\ UNCHANGED <<func, thisPtr, call, worker>>
    BY <1>0, <1>7, Types DEF Stop, Join, StoppedLast, callVars
  <2>2. PICK t \in Threads : t = doomed
    BY <2>1
  <2>3. func[t] = NoCall /\ loop[t] # "none"
    BY <1>0, <1>7, <2>2, Types
       DEF Stop, Join, StoppedLast, FunctionHeld, InProgress, OneOwner, Doomed, Made
  <2>4. \E to \in {loop[t], "woken", "joined"} : loop' = [loop EXCEPT ![t] = to]
    BY <1>7, <2>2 DEF Stop, Join, Goto, Notified
  <2> QED
    BY <1>0, <2>1, <2>3, <2>4, Types DEF FunctionHeld, Made, At
<1>8. ASSUME Forbid \/ Destroy \/ DestroyNext \/ UNCHANGED vars PROVE FunctionHeld'
  <2>1. UNCHANGED <<loop, func, thisPtr, call, worker>>
    BY <1>8 DEF Forbid, Destroy, DestroyNext, vars, threadVars, callVars
  <2> QED
    BY <1>0, <2>1 DEF FunctionHeld, Made, At
<1> QED
  BY <1>1, <1>2, <1>3, <1>4, <1>5, <1>6, <1>7, <1>8, StepCases

(* Every thread made has one owner.                                        *)
LEMMA OwnerStep ==
  ASSUME ThreadsOwned, [Next]_vars
  PROVE  OneOwner'
<1> DEFINE Same == \A w \in Threads : /\ Queued(w)' <=> Queued(w)
                                      /\ thisPtr'[w] <=> thisPtr[w]
                                      /\ Doomed(w)' <=> Doomed(w)
                                      /\ (w \in Made)' <=> w \in Made
<1>0. FunctionHeld /\ OneOwner /\ StoppedLast /\ NeverOverwritten /\ NoneTwice
  BY DEF ThreadsOwned, OneOwner, NoneTwice
<1>1. ASSUME NEW c \in Calls, Call(c) \/ GetNone(c) PROVE OneOwner'
  <2>1. /\ UNCHANGED <<available, loop, thisPtr, doomed, worker>>
        /\ \A d \in Calls : call'[d] = "submit" <=> call[d] = "submit"
    BY <1>1, Types DEF Call, GetNone, Move, threadVars, poolVars, destroyVars
  <2> QED
    BY <1>0, <2>1 DEF OneOwner, Queued, Claimed, Doomed, Made, At
<1>2. ASSUME NEW c \in Calls, Get(c) PROVE OneOwner'
  <2>1. /\ available # <<>> /\ available' = Tail(available)
        /\ call[c] = "get" /\ call' = [call EXCEPT ![c] = "submit"]
        /\ worker' = [worker EXCEPT ![c] = Head(available)] /\ UNCHANGED <<loop, thisPtr, doomed>>
    BY <1>2 DEF Get, Move, threadVars, destroyVars
  <2>2. PICK t \in Threads : /\ t = Head(available) /\ Queued(t) /\ NoneTwice'
                             /\ \A w : Queued(w)' <=> Queued(w) /\ w # t
    BY <1>0, <2>1, HeadTaken, Types
  <2>3. \A w : Claimed(w)' <=> Claimed(w) \/ w = t
    BY <2>1, <2>2, Types DEF Claimed
  <2>4. /\ \A w : Doomed(w)' <=> Doomed(w)
        /\ Made' = Made /\ ~Claimed(t) /\ t \in Made /\ ~thisPtr[t] /\ ~Doomed(t)
    BY <1>0, <2>1, <2>2 DEF OneOwner, Doomed, Made, At
  <2>5. \A d, e \in Calls : call'[d] = "submit" /\ call'[e] = "submit" /\ worker'[d] = worker'[e]
                              => d = e
    BY <1>0, <2>1, <2>2, <2>4, Types DEF OneOwner, Claimed
  <2> QED
    BY <1>0, <2>1, <2>2, <2>3, <2>4, <2>5 DEF OneOwner, NoneTwice
<1>3. ASSUME NEW c \in Calls, Make(c) PROVE OneOwner'
  <2>1. PICK t \in Threads \ Made : /\ loop' = [loop EXCEPT ![t] = "start"]
                                    /\ worker' = [worker EXCEPT ![c] = t]
    BY <1>3, NextThread DEF Make, Goto
  <2>2. /\ UNCHANGED <<available, thisPtr, doomed>> /\ call[c] = "make"
        /\ call' = [call EXCEPT ![c] = "submit"]
    BY <1>3 DEF Make, Move, destroyVars
  <2>3. \A w : Claimed(w)' <=> Claimed(w) \/ w = t
    BY <2>1, <2>2, Types DEF Claimed
  <2>4. /\ \A w : Queued(w)' <=> Queued(w)
        /\ \A w \in Threads : Doomed(w)' <=> Doomed(w)
        /\ \A w \in Threads : w \in Made' <=> w \in Made \/ w = t
        /\ ~Claimed(t) /\ ~Queued(t) /\ ~thisPtr[t] /\ ~Doomed(t)
    BY <1>0, <2>1, <2>2, Types DEF OneOwner, Queued, Doomed, Made, At
  <2>5. \A d, e \in Calls : call'[d] = "submit" /\ call'[e] = "submit" /\ worker'[d] = worker'[e]
                              => d = e
    BY <1>0, <2>1, <2>2, <2>4, Types DEF OneOwner, Claimed
  <2> QED
    BY <1>0, <2>1, <2>2, <2>3, <2>4, <2>5 DEF OneOwner
<1>4. ASSUME NEW c \in Calls, Submit(c) PROVE OneOwner'
  <2>1. call[c] = "submit" /\ worker[c] \in Made
    BY <1>4 DEF Submit, ThreadsOwned, ThreadsCounted
  <2>2. PICK t \in Threads : t = worker[c] /\ t \in Made
    BY <2>1 DEF Made
  <2>3. /\ thisPtr' = [thisPtr EXCEPT ![t] = TRUE]
        /\ loop' = [loop EXCEPT ![t] = IF loop[t] = "waiting" THEN "woken" ELSE loop[t]]
        /\ call' = [call EXCEPT ![c] = "given"] /\ UNCHANGED <<available, worker, doomed>>
    BY <1>4, <2>2 DEF Submit, Notified, Move, poolVars, destroyVars
  <2>4. \A w \in Threads : Claimed(w)' <=> Claimed(w) /\ w # t
    BY <1>0, <2>1, <2>2, <2>3, Types DEF Claimed, OneOwner
  <2>5. Claimed(t)
    BY <2>1, <2>2 DEF Claimed
  <2>6. /\ \A w : Queued(w)' <=> Queued(w)
        /\ \A w \in Threads : Doomed(w)' <=> Doomed(w)
        /\ \A w \in Threads : w \in Made' <=> w \in Made
    BY <2>2, <2>3, Types DEF Queued, Doomed, Made, At
  <2>7. \A d, e \in Calls : call'[d] = "submit" /\ call'[e] = "submit" /\ worker'[d] = worker'[e]
                              => d = e
    BY <1>0, <2>1, <2>3, Types DEF OneOwner
  <2>8. \A w \in Threads : thisPtr'[w] <=> thisPtr[w] \/ w = t
    BY <2>3, Types
  <2>9. \A i, j \in DOMAIN available' : available'[i] = available'[j] => i = j
    BY <1>0, <2>3 DEF OneOwner
  <2> QED
    BY <1>0, <2>2, <2>4, <2>5, <2>6, <2>7, <2>8, <2>9 DEF OneOwner
<1>5. ASSUME NEW t \in Threads, \/ Lock(t) \/ Spurious(t) \/ Test(t) \/ Uncount(t)
                                \/ \E throws \in BOOLEAN : Run(t, throws)
      PROVE  OneOwner'
  <2>1. /\ UNCHANGED <<available, thisPtr, call, worker, doomed>>
        /\ loop[t] \notin {"none", "joined"}
    BY <1>5 DEF Lock, Spurious, Test, Uncount, Run, At, poolVars, callVars, destroyVars
  <2>2. \E to \in LoopLabels \ {"none", "joined"} : loop' = [loop EXCEPT ![t] = to]
    BY <1>5 DEF Lock, Spurious, Test, Uncount, Run, Goto, LoopLabels
  <2> QED
    BY <1>0, <2>1, <2>2, Types DEF OneOwner, Queued, Claimed, Doomed, Made, At
<1>6. ASSUME NEW t \in Threads, GiveBack(t) PROVE OneOwner'
  <2>1. /\ At(t, "giveback") /\ thisPtr' = [thisPtr EXCEPT ![t] = FALSE]
        /\ available' = Append(available, t) /\ loop' = [loop EXCEPT ![t] = "uncount"]
        /\ UNCHANGED <<call, worker, doomed>>
    BY <1>6 DEF GiveBack, Goto, callVars, destroyVars
  <2>2. thisPtr[t] /\ ~Queued(t)
    BY <1>0, <2>1 DEF FunctionHeld, OneOwner
  <2>3. NoneTwice' /\ \A w : Queued(w)' <=> Queued(w) \/ w = t
    BY <1>0, <2>1, <2>2, Returned, Types
  <2>4. \A w \in Threads : /\ Claimed(w)' <=> Claimed(w)
                           /\ Doomed(w)' <=> Doomed(w)
                           /\ w \in Made' <=> w \in Made
                           /\ thisPtr'[w] <=> thisPtr[w] /\ w # t
    BY <2>1, Types DEF Claimed, Doomed, Made, At
  <2>5. \A d, e \in Calls : call'[d] = "submit" /\ call'[e] = "submit" /\ worker'[d] = worker'[e]
                              => d = e
    BY <1>0, <2>1 DEF OneOwner
  <2> QED
    BY <1>0, <2>2, <2>3, <2>4, <2>5 DEF OneOwner, NoneTwice
<1>7. ASSUME NEW t \in Threads, Release(t) PROVE OneOwner'
  <2>1. /\ At(t, "release") /\ call' = [call EXCEPT ![func[t]] = "told"]
        /\ loop' = [loop EXCEPT ![t] = "test"] /\ UNCHANGED <<available, thisPtr, worker, doomed>>
    BY <1>7 DEF Release, Move, Goto, poolVars, destroyVars
  <2>2. call[func[t]] = "given"
    BY <1>0, <2>1 DEF FunctionHeld
  <2>3. \A d \in Calls : call'[d] = "submit" <=> call[d] = "submit"
    BY <2>1, <2>2, Types
  <2> QED
    BY <1>0, <2>1, <2>3, Types DEF OneOwner, Queued, Claimed, Doomed, Made, At
<1>8. ASSUME DestroyNext, available # <<>> PROVE OneOwner'
  <2>1. /\ available' = Tail(available) /\ doomed' = Head(available) /\ doomed = 0
        /\ UNCHANGED <<loop, thisPtr, call, worker>>
    BY <1>0, <1>8 DEF DestroyNext, StoppedLast, threadVars, callVars
  <2>2. PICK t \in Threads : /\ t = Head(available) /\ Queued(t) /\ NoneTwice'
                             /\ \A w : Queued(w)' <=> Queued(w) /\ w # t
    BY <1>0, <1>8, <2>1, HeadTaken, Types
  <2>3. \A w \in Threads : /\ Claimed(w)' <=> Claimed(w)
                           /\ Doomed(w)' <=> Doomed(w) \/ w = t
                           /\ w \in Made' <=> w \in Made
    BY <2>1, <2>2, Types DEF Claimed, Doomed, Made, At
  <2>4. \A d, e \in Calls : call'[d] = "submit" /\ call'[e] = "submit" /\ worker'[d] = worker'[e]
                              => d = e
    BY <1>0, <2>1 DEF OneOwner
  <2> QED
    BY <1>0, <2>1, <2>2, <2>3, <2>4 DEF OneOwner, NoneTwice
<1>9. ASSUME Stop \/ Join PROVE OneOwner'
  <2>1. /\ doomed \in Threads /\ UNCHANGED <<available, thisPtr, call, worker>>
        /\ Doomed(doomed) /\ doomed' \in {0, doomed}
    BY <1>0, <1>9, Types DEF Stop, Join, StoppedLast, callVars, poolVars, Doomed
  <2>2. PICK t \in Threads : t = doomed
    BY <2>1
  <2>3. /\ loop' = [loop EXCEPT ![t] = "joined"]
           \/ \E to \in {loop[t], "woken"} : loop' = [loop EXCEPT ![t] = to] /\ doomed' = t
        /\ loop[t] # "none"
    BY <1>0, <1>9, <2>1, <2>2 DEF Stop, Join, Goto, Notified, OneOwner, Doomed, Made
  <2>4. \A w \in Threads : /\ Doomed(w)' <=> Doomed(w)
                           /\ w \in Made' <=> w \in Made
    BY <2>1, <2>2, <2>3, Types DEF Doomed, Made, At
  <2>5. \A w : (Queued(w)' <=> Queued(w)) /\ (Claimed(w)' <=> Claimed(w))
    BY <2>1 DEF Queued, Claimed
  <2> QED
    BY <1>0, <2>1, <2>4, <2>5 DEF OneOwner
<1>10. ASSUME \/ Forbid \/ Destroy \/ (DestroyNext /\ available = <<>>) \/ UNCHANGED vars
       PROVE  OneOwner'
  <2>1. UNCHANGED <<available, loop, thisPtr, call, worker, doomed>>
    BY <1>10 DEF Forbid, Destroy, DestroyNext, vars, threadVars, callVars, poolVars, destroyVars
  <2> QED
    BY <1>0, <2>1 DEF OneOwner, Queued, Claimed, Doomed, Made, At
<1> QED
  BY <1>1, <1>2, <1>3, <1>4, <1>5, <1>6, <1>7, <1>8, <1>9, <1>10, StepCases

(* The destructor meets no call, and stops what it has taken.              *)
LEMMA StoppedStep ==
  ASSUME ThreadsOwned, [Next]_vars
  PROVE  StoppedLast'
<1>0. StoppedLast /\ OneOwner /\ FunctionHeld
  BY DEF ThreadsOwned
<1>1. ASSUME NEW c \in Calls, Call(c) \/ Get(c) \/ GetNone(c) \/ Make(c) \/ Submit(c)
      PROVE  StoppedLast'
  <2>1. destroy = "none"
    BY <1>0, <1>1 DEF Call, Get, GetNone, Make, Submit, StoppedLast, InProgress
  <2>2. UNCHANGED <<destroy, doomed, stopThread>>
    BY <1>1 DEF Call, Get, GetNone, Make, Submit, destroyVars, threadVars
  <2>3. \A w \in Threads : /\ At(w, "joined") <=> At(w, "joined")'
                           /\ At(w, "ended") <=> At(w, "ended")'
    <3>1. CASE ~Make(c)
      BY <1>1, <3>1, Types DEF Call, Get, GetNone, Submit, Notified, threadVars, At
    <3>2. CASE Make(c)
      <4>1. PICK t \in Threads \ Made : loop' = [loop EXCEPT ![t] = "start"]
        BY <3>2, NextThread DEF Make, Goto
      <4> QED
        BY <4>1, Types DEF Made, At
    <3> QED
      BY <3>1, <3>2
  <2> QED
    BY <1>0, <2>1, <2>2, <2>3 DEF StoppedLast, Doomed
<1>2. ASSUME NEW t \in Threads, \/ Lock(t) \/ Spurious(t) \/ GiveBack(t) \/ Uncount(t)
                                \/ Test(t) \/ \E throws \in BOOLEAN : Run(t, throws)
      PROVE  StoppedLast'
  <2>1. /\ UNCHANGED <<destroy, doomed, stopThread, call>> /\ ~At(t, "joined")
        /\ \E to \in LoopLabels \ {"joined"} : /\ loop' = [loop EXCEPT ![t] = to]
                                               /\ to = "ended" => stopThread[t]
    BY <1>2 DEF Lock, Spurious, Test, GiveBack, Uncount, Run, Goto, At, LoopLabels,
                destroyVars, callVars
  <2> QED
    BY <1>0, <2>1, Types DEF StoppedLast, Doomed, At, InProgress
<1>3. ASSUME NEW t \in Threads, Release(t) PROVE StoppedLast'
  <2>1. /\ UNCHANGED <<destroy, doomed, stopThread>> /\ At(t, "release")
        /\ loop' = [loop EXCEPT ![t] = "test"] /\ call' = [call EXCEPT ![func[t]] = "told"]
    BY <1>3 DEF Release, Goto, Move, destroyVars
  <2>2. \A c \in Calls : c \in InProgress' => c \in InProgress
    BY <2>1, Types DEF InProgress
  <2>3. InProgress' \subseteq Calls /\ InProgress \subseteq Calls
    BY DEF InProgress
  <2>4. destroy' # "none" => InProgress' = {}
    BY <1>0, <2>1, <2>2, <2>3 DEF StoppedLast
  <2> QED
    BY <1>0, <2>1, <2>4, Types DEF StoppedLast, Doomed, At
<1>4. ASSUME Stop PROVE StoppedLast'
  <2>1. /\ doomed \in Threads /\ UNCHANGED <<doomed, call>> /\ destroy' = "join" /\ destroy = "stop"
        /\ \E to \in {loop[doomed], "woken"} : loop' = [loop EXCEPT ![doomed] = to]
        /\ stopThread' = [stopThread EXCEPT ![doomed] = TRUE]
        /\ loop[doomed] # "waiting" => loop' = loop
    BY <1>0, <1>4, Types DEF Stop, Notified, StoppedLast, callVars
  <2>2. loop[doomed] = "waiting" => loop'[doomed] = "woken"
    BY <1>4, <2>1, Types DEF Stop, Notified
  <2> QED
    BY <1>0, <2>1, <2>2, Types DEF StoppedLast, Doomed, At, InProgress
<1>5. ASSUME Join PROVE StoppedLast'
  <2>1. /\ doomed \in Threads /\ doomed' = 0 /\ destroy' = "pop" /\ At(doomed, "ended")
        /\ loop' = [loop EXCEPT ![doomed] = "joined"] /\ destroy = "join"
        /\ UNCHANGED <<stopThread, call>>
    BY <1>0, <1>5, Types DEF Join, Goto, StoppedLast, callVars
  <2> QED
    BY <1>0, <2>1, Types DEF StoppedLast, Doomed, At, InProgress
<1>6. ASSUME DestroyNext PROVE StoppedLast'
  <2>1. /\ doomed = 0 /\ destroy = "pop" /\ UNCHANGED <<loop, stopThread, call>>
        /\ \/ destroy' = "done" /\ doomed' = 0
           \/ destroy' = "stop" /\ doomed' \in Threads
    BY <1>0, <1>6, Types, HeadTaken DEF DestroyNext, StoppedLast, threadVars, callVars, OneOwner, NoneTwice
  <2> QED
    BY <1>0, <2>1, Types DEF StoppedLast, Doomed, At, InProgress
<1>7. ASSUME Destroy PROVE StoppedLast'
  BY <1>0, <1>7 DEF Destroy, StoppedLast, Doomed, At, InProgress, callVars, threadVars
<1>8. ASSUME Forbid \/ UNCHANGED vars PROVE StoppedLast'
  <2>1. UNCHANGED <<loop, stopThread, call, doomed, destroy>>
    BY <1>8 DEF Forbid, vars, threadVars, callVars, destroyVars
  <2> QED
    BY <1>0, <2>1 DEF StoppedLast, Doomed, At, InProgress
<1> QED
  BY <1>1, <1>2, <1>3, <1>4, <1>5, <1>6, <1>7, <1>8, StepCases

(* A task has an exception if one was thrown for it, and one of those.     *)
LEMMA ThrowsStep ==
  ASSUME ThreadsOwned, [Next]_vars
  PROVE  ThrowsKept'
<1>0. ThrowsKept /\ FunctionHeld
  BY DEF ThreadsOwned
<1>1. ASSUME NEW w \in Threads, NEW throws \in BOOLEAN, Run(w, throws) PROVE ThrowsKept'
  <2>1. PICK c \in Calls : c = func[w]
    BY <1>0, <1>1, Types DEF Run, FunctionHeld
  <2>2. /\ threw' = IF throws THEN threw \cup {c} ELSE threw
        /\ exception' = [exception EXCEPT ![TaskOf[c]] =
                           IF throws /\ exception[TaskOf[c]] = NoCall THEN c ELSE exception[TaskOf[c]]]
    BY <1>1, <2>1 DEF Run
  <2> SUFFICES ASSUME NEW t \in Tasks
               PROVE  exception'[t] \in IF {d \in threw' : TaskOf[d] = t} = {} THEN {NoCall}
                                        ELSE {d \in threw' : TaskOf[d] = t}
    BY DEF ThrowsKept
  <2>3. exception[t] \in IF {d \in threw : TaskOf[d] = t} = {} THEN {NoCall}
                         ELSE {d \in threw : TaskOf[d] = t}
    BY <1>0 DEF ThrowsKept
  <2>4. CASE throws /\ t = TaskOf[c]
    <3>1. c \in {d \in threw' : TaskOf[d] = t} /\ threw \subseteq threw'
      BY <2>2, <2>4
    <3>2. exception'[t] = IF exception[t] = NoCall THEN c ELSE exception[t]
      BY <2>2, <2>4, Types
    <3>3. exception[t] # NoCall => exception[t] \in {d \in threw : TaskOf[d] = t}
      BY <2>3
    <3> QED
      BY <3>1, <3>2, <3>3
  <2>5. CASE ~(throws /\ t = TaskOf[c])
    <3>1. {d \in threw' : TaskOf[d] = t} = {d \in threw : TaskOf[d] = t}
      BY <2>2, <2>5
    <3>2. exception'[t] = exception[t]
      BY <2>2, <2>5, Types
    <3> QED
      BY <2>3, <3>1, <3>2
  <2> QED
    BY <2>4, <2>5
<1>2. ASSUME ~\E w \in Threads : \E throws \in BOOLEAN : Run(w, throws) PROVE ThrowsKept'
  <2>1. UNCHANGED <<exception, threw>>
    BY <1>2, StepCases
       DEF Call, Get, GetNone, Make, Submit, Lock, Spurious, Test, GiveBack, Uncount, Release,
           Forbid, Destroy, DestroyNext, Stop, Join, callVars, vars
  <2> QED
    BY <1>0, <2>1 DEF ThrowsKept
<1> QED
  BY <1>1, <1>2

(* What makeOrGet() has handed out and not got back is counted.            *)
LEMMA OutstandingStep ==
  ASSUME ThreadsOwned, [Next]_vars
  PROVE  outstanding' = Cardinality(Counted')
<1>0. /\ outstanding = Cardinality(Counted) /\ IsFiniteSet(Counted) /\ Cardinality(Counted) \in Nat
      /\ FunctionHeld /\ NeverOverwritten /\ StoppedLast /\ OneOwner
  <2>1. Counted \in SUBSET Calls
    BY DEF Counted
  <2> QED
    BY <2>1, ThreadFacts DEF ThreadsOwned, ThreadsCounted
<1>1. ASSUME NEW c \in Calls, Get(c) \/ Make(c) PROVE outstanding' = Cardinality(Counted')
  <2>1. /\ call[c] \in {"get", "make"} /\ call' = [call EXCEPT ![c] = "submit"]
        /\ outstanding' = outstanding + 1
        /\ \A d \in Calls \ {c} : worker'[d] = worker[d]
    BY <1>1, Types DEF Get, Make, Move
  <2>2. \A w \in Made : At(w, "release")' <=> At(w, "release")
    <3>1. CASE Get(c)
      BY <3>1 DEF Get, threadVars, At
    <3>2. CASE Make(c)
      <4>1. PICK t \in Threads \ Made : loop' = [loop EXCEPT ![t] = "start"]
        BY <3>2, NextThread DEF Make, Goto
      <4> QED
        BY <4>1, Types DEF Made, At
    <3> QED
      BY <1>1, <3>1, <3>2
  <2>3. \A d \in Calls : call[d] = "given" => worker[d] \in Made
    BY <1>0 DEF FunctionHeld
  <2>4. Counted' = Counted \cup {c} /\ c \notin Counted
    BY <2>1, <2>2, <2>3, Types DEF Counted
  <2> QED
    BY <1>0, <2>1, <2>4, FS_AddElement
<1>2. ASSUME NEW c \in Calls, Call(c) \/ GetNone(c) PROVE outstanding' = Cardinality(Counted')
  <2>1. /\ UNCHANGED <<loop, worker, outstanding>>
        /\ \A d \in Calls : \A s \in {"submit", "given"} : call'[d] = s <=> call[d] = s
    BY <1>2, Types DEF Call, GetNone, Move, threadVars, poolVars
  <2>2. Counted' = Counted
    BY <2>1 DEF Counted, At
  <2> QED
    BY <1>0, <2>1, <2>2
<1>3. ASSUME NEW c \in Calls, Submit(c) PROVE outstanding' = Cardinality(Counted')
  <2>1. PICK t \in Threads : t = worker[c]
    BY <1>3 DEF Submit, ThreadsOwned, ThreadsCounted, Made
  <2>2. /\ call[c] = "submit" /\ ~Locked(t) /\ call' = [call EXCEPT ![c] = "given"]
        /\ \E to \in {loop[t], "woken"} : loop' = [loop EXCEPT ![t] = to]
        /\ UNCHANGED <<worker, outstanding>>
    BY <1>3, <2>1 DEF Submit, Notified, Move, poolVars
  <2>3. ~At(t, "release") /\ ~At(t, "release")'
    BY <2>2, Types DEF Locked, At
  <2>4. Counted' = Counted
    BY <2>1, <2>2, <2>3, Types DEF Counted, At
  <2> QED
    BY <1>0, <2>2, <2>4
<1>4. ASSUME NEW w \in Threads, \/ Lock(w) \/ Spurious(w) \/ Test(w) \/ GiveBack(w)
                                \/ \E throws \in BOOLEAN : Run(w, throws)
      PROVE  outstanding' = Cardinality(Counted')
  <2>1. /\ UNCHANGED <<call, worker, outstanding>> /\ loop[w] # "release"
        /\ \E to \in LoopLabels \ {"release"} : loop' = [loop EXCEPT ![w] = to]
    BY <1>4 DEF Lock, Spurious, Test, GiveBack, Run, At, Goto, LoopLabels, callVars, poolVars
  <2>2. Counted' = Counted
    BY <2>1, Types DEF Counted, At
  <2> QED
    BY <1>0, <2>1, <2>2
<1>5. ASSUME NEW w \in Threads, Uncount(w) PROVE outstanding' = Cardinality(Counted')
  <2>1. /\ UNCHANGED <<call, worker>> /\ loop[w] = "uncount" /\ outstanding' = outstanding - 1
        /\ loop' = [loop EXCEPT ![w] = "release"]
    BY <1>5 DEF Uncount, At, Goto, callVars
  <2>2. PICK c \in Calls : c = func[w] /\ call[c] = "given" /\ worker[c] = w
    BY <1>0, <2>1, Types DEF FunctionHeld, At
  <2>3. Counted' = Counted \ {c} /\ c \in Counted
    <3>1. \A d \in Calls : call[d] = "given" /\ worker[d] = w => d = c
      BY <1>0, <2>2 DEF FunctionHeld
    <3> QED
      BY <2>1, <2>2, <3>1, Types DEF Counted, At
  <2> QED
    BY <1>0, <2>1, <2>3, FS_RemoveElement
<1>6. ASSUME NEW w \in Threads, Release(w) PROVE outstanding' = Cardinality(Counted')
  <2>1. PICK c \in Calls : c = func[w] /\ call[c] = "given" /\ worker[c] = w
    BY <1>0, <1>6, Types DEF Release, FunctionHeld, At
  <2>2. /\ UNCHANGED <<worker, outstanding>> /\ loop[w] = "release"
        /\ call' = [call EXCEPT ![c] = "told"] /\ loop' = [loop EXCEPT ![w] = "test"]
    BY <1>6, <2>1 DEF Release, At, Goto, Move, poolVars
  <2>3. Counted' = Counted
    <3>1. \A d \in Calls : call[d] = "given" /\ worker[d] = w => d = c
      BY <1>0, <2>1 DEF FunctionHeld
    <3> QED
      BY <2>1, <2>2, <3>1, Types DEF Counted, At
  <2> QED
    BY <1>0, <2>2, <2>3
<1>7. ASSUME Stop \/ Join PROVE outstanding' = Cardinality(Counted')
  <2>1. /\ UNCHANGED <<call, outstanding>> /\ InProgress = {}
    BY <1>0, <1>7 DEF Stop, Join, StoppedLast, callVars, poolVars
  <2>2. Counted = {} /\ Counted' = {}
    BY <2>1 DEF Counted, InProgress
  <2> QED
    BY <1>0, <2>1, <2>2
<1>8. ASSUME Forbid \/ Destroy \/ DestroyNext \/ UNCHANGED vars
      PROVE  outstanding' = Cardinality(Counted')
  <2>1. UNCHANGED <<loop, call, worker, outstanding>>
    BY <1>8 DEF Forbid, Destroy, DestroyNext, vars, threadVars, callVars, poolVars
  <2> QED
    BY <1>0, <2>1 DEF Counted, At
<1> QED
  BY <1>1, <1>2, <1>3, <1>4, <1>5, <1>6, <1>7, <1>8, StepCases

(* Every thread was made for a call, and has a number of its own.          *)
LEMMA CountedStep ==
  ASSUME ThreadsOwned, [Next]_vars
  PROVE  ThreadsCounted'
<1>0. ThreadsCounted /\ FunctionHeld /\ OneOwner /\ StoppedLast
  BY DEF ThreadsOwned
<1>1. outstanding' = Cardinality(Counted')
  BY OutstandingStep
<1>2. ASSUME NEW c \in Calls, Make(c) PROVE ThreadsCounted'
  <2> DEFINE n == Cardinality(Made)
  <2>1. n \in Nat /\ IsFiniteSet(Made) /\ Made = 1..n /\ n + 1 \in Threads \ Made
    BY <1>2, NextThread DEF Make
  <2>2. /\ loop' = [loop EXCEPT ![n + 1] = "start"] /\ worker' = [worker EXCEPT ![c] = n + 1]
        /\ call[c] = "make" /\ call' = [call EXCEPT ![c] = "submit"]
    BY <1>2 DEF Make, Goto, Move
  <2> HIDE DEF n
  <2>3. Made' = Made \cup {n + 1}
    BY <2>1, <2>2, Types DEF Made
  <2>4. Cardinality(Made') = n + 1
    BY <2>1, <2>3, FS_AddElement DEF n
  <2>5. Made' = 1..Cardinality(Made')
    BY <2>1, <2>3, <2>4
  <2>6. \A w \in Made' : \E d \in Calls : worker'[d] = w
    <3>1. worker[c] = 0 /\ 0 \notin Made
      BY <1>0, <2>2, Types DEF ThreadsCounted, Made
    <3> QED
      BY <1>0, <2>1, <2>2, <2>3, <3>1, Types DEF ThreadsCounted
  <2>7. \A d \in Calls : /\ call'[d] \in {"none", "refused", "get", "make"} => worker'[d] = 0
                         /\ call'[d] = "submit" => worker'[d] \in Made'
    BY <1>0, <2>1, <2>2, <2>3, Types DEF ThreadsCounted
  <2> QED
    BY <1>1, <2>5, <2>6, <2>7 DEF ThreadsCounted
<1>3. ASSUME ~\E c \in Calls : Make(c) PROVE ThreadsCounted'
  <2>1. \A w \in Threads : loop'[w] = "none" <=> loop[w] = "none"
    <3>1. CASE Stop \/ Join
      <4>1. doomed \in Threads /\ loop[doomed] # "none"
        BY <1>0, <3>1, Types DEF Stop, Join, StoppedLast, OneOwner, Doomed, Made
      <4> QED
        BY <3>1, <4>1, Types DEF Stop, Join, Goto, Notified
    <3>2. CASE ~(Stop \/ Join)
      BY <1>3, <3>2, StepCases, Types
         DEF Call, Get, GetNone, Submit, Notified, Lock, Spurious, Test, Run, GiveBack, Uncount,
             Release, Forbid, Destroy, DestroyNext, Goto, At, vars, threadVars
    <3> QED
      BY <3>1, <3>2
  <2>2. Made' = Made
    BY <2>1 DEF Made
  <2>3. \A c \in Calls : /\ call'[c] \in {"none", "refused", "get", "make"} => worker'[c] = 0
                         /\ call'[c] = "submit" => worker'[c] \in Made
                         /\ worker[c] # 0 => worker'[c] = worker[c]
    <3>1. CASE \E c \in Calls : Get(c)
      <4>1. PICK c \in Calls : Get(c)
        BY <3>1
      <4>2. Head(available) \in Threads /\ Queued(Head(available))
        BY <1>0, <4>1, HeadTaken, Types DEF Get, OneOwner, NoneTwice
      <4>3. Head(available) \in Made
        BY <1>0, <4>2 DEF OneOwner
      <4>4. /\ worker[c] = 0 /\ worker' = [worker EXCEPT ![c] = Head(available)]
            /\ call' = [call EXCEPT ![c] = "submit"]
        BY <1>0, <4>1 DEF Get, Move, ThreadsCounted
      <4> QED
        BY <1>0, <4>3, <4>4, Types DEF ThreadsCounted
    <3>2. CASE \E c \in Calls : Call(c) \/ GetNone(c) \/ Submit(c)
      BY <1>0, <3>2, Types DEF Call, GetNone, Submit, Move, ThreadsCounted
    <3>3. CASE \E w \in Threads : Release(w)
      BY <1>0, <3>3, Types DEF Release, Move, ThreadsCounted
    <3>4. CASE UNCHANGED <<call, worker>>
      BY <1>0, <3>4 DEF ThreadsCounted
    <3> QED
      BY <1>3, <3>1, <3>2, <3>3, <3>4, StepCases
         DEF Lock, Spurious, Test, Run, GiveBack, Uncount, Forbid, Destroy, DestroyNext, Stop,
             Join, vars, callVars
  <2>4. \A w \in Made' : \E c \in Calls : worker'[c] = w
    BY <1>0, <2>2, <2>3, Types DEF ThreadsCounted, Made
  <2> QED
    BY <1>0, <1>1, <2>2, <2>3, <2>4 DEF ThreadsCounted
<1> QED
  BY <1>2, <1>3

(* The variables keep their types.                                         *)
LEMMA TypeStep ==
  ASSUME ThreadsOwned, [Next]_vars
  PROVE  TypeOK'
<1> DEFINE CT == /\ call' \in [Calls -> CallLabels] /\ worker' \in [Calls -> {0} \cup Threads]
                 /\ exception' \in [Tasks -> Calls \cup {NoCall}] /\ threw' \subseteq Calls
           LT == /\ loop' \in [Threads -> LoopLabels] /\ func' \in [Threads -> Calls \cup {NoCall}]
                 /\ thisPtr' \in [Threads -> BOOLEAN] /\ stopThread' \in [Threads -> BOOLEAN]
           PT == /\ allowed' \in BOOLEAN /\ available' \in Seq(Threads)
                 /\ destroy' \in {"none", "pop", "stop", "join", "done"}
                 /\ doomed' \in {0} \cup Threads /\ spuriousLeft' \in 0..MaxSpurious
<1>0. FunctionHeld /\ OneOwner /\ NoneTwice /\ MaxSpurious \in Nat
  BY PoolAssumption DEF ThreadsOwned, OneOwner, NoneTwice
<1>1. outstanding' \in 0..Cardinality(Calls)
  <2>1. Counted' \in SUBSET Calls
    BY DEF Counted
  <2> QED
    BY <2>1, CountedStep, ThreadFacts DEF ThreadsCounted
<1>2. CT
  <2>1. CASE \E c \in Calls : Call(c) \/ Get(c) \/ GetNone(c) \/ Make(c) \/ Submit(c)
    <3>1. PICK c \in Calls : Call(c) \/ Get(c) \/ GetNone(c) \/ Make(c) \/ Submit(c)
      BY <2>1
    <3>2. UNCHANGED <<exception, threw>> /\ \E s \in CallLabels : call' = [call EXCEPT ![c] = s]
      BY <3>1 DEF Call, Get, GetNone, Make, Submit, Move, CallLabels
    <3>3. UNCHANGED worker \/ \E t \in Threads : worker' = [worker EXCEPT ![c] = t]
      <4>1. Get(c) => Head(available) \in Threads
        BY <1>0, HeadTaken, Types DEF Get
      <4>2. Make(c) => Cardinality(Made) + 1 \in Threads
        BY NextThread DEF Make
      <4> QED
        BY <3>1, <4>1, <4>2 DEF Call, Get, GetNone, Make, Submit
    <3> QED
      BY <3>2, <3>3, Types
  <2>2. CASE \E w \in Threads : \E throws \in BOOLEAN : Run(w, throws)
    <3>1. PICK w \in Threads, throws \in BOOLEAN : Run(w, throws)
      BY <2>2
    <3>2. func[w] \in Calls /\ UNCHANGED <<call, worker>>
      BY <1>0, <3>1, Types DEF Run, FunctionHeld
    <3>3. /\ threw' \in {threw, threw \cup {func[w]}}
          /\ \/ UNCHANGED exception
             \/ exception' = [exception EXCEPT ![TaskOf[func[w]]] = func[w]]
      <4>1. exception' = [exception EXCEPT ![TaskOf[func[w]]] =
                            IF throws /\ @ = NoCall THEN func[w] ELSE @]
        BY <3>1 DEF Run
      <4>2. threw' \in {threw, threw \cup {func[w]}}
        BY <3>1 DEF Run
      <4> QED
        BY <4>1, <4>2, Types
    <3> QED
      BY <3>2, <3>3, Types
  <2>3. CASE \E w \in Threads : Release(w)
    BY <2>3, Types DEF Release, Move, CallLabels
  <2>4. CASE UNCHANGED callVars
    BY <2>4, Types DEF callVars
  <2> QED
    BY <2>1, <2>2, <2>3, <2>4, StepCases
       DEF Lock, Spurious, Test, GiveBack, Uncount, Forbid, Destroy, DestroyNext, Stop, Join, vars
<1>3. LT
  <2>1. ASSUME NEW c \in Calls, Call(c) \/ Get(c) \/ GetNone(c) \/ Make(c) \/ Submit(c) PROVE LT
    <3>1. /\ \/ UNCHANGED loop
             \/ \E w : loop' = [loop EXCEPT ![w] = "start"]
             \/ \E w : loop' = [loop EXCEPT ![w] = IF @ = "waiting" THEN "woken" ELSE @]
          /\ UNCHANGED func \/ \E w : func' = [func EXCEPT ![w] = c]
          /\ UNCHANGED thisPtr \/ \E w : thisPtr' = [thisPtr EXCEPT ![w] = TRUE]
          /\ UNCHANGED stopThread
      BY <2>1 DEF Call, Get, GetNone, Make, Submit, Notified, Goto, threadVars
    <3>2. loop' \in [Threads -> LoopLabels]
      BY <3>1, Types DEF LoopLabels
    <3>3. func' \in [Threads -> Calls \cup {NoCall}]
      BY <3>1, Types
    <3>4. thisPtr' \in [Threads -> BOOLEAN] /\ stopThread' \in [Threads -> BOOLEAN]
      BY <3>1, Types
    <3> QED
      BY <3>2, <3>3, <3>4
  <2>2. ASSUME NEW w \in Threads, \/ Lock(w) \/ Spurious(w) \/ Test(w)
                                  \/ \E throws \in BOOLEAN : Run(w, throws)
                                  \/ GiveBack(w) \/ Uncount(w) \/ Release(w)
        PROVE  LT
    <3>1. /\ \E to \in LoopLabels : loop' = [loop EXCEPT ![w] = to]
          /\ UNCHANGED func \/ func' = [func EXCEPT ![w] = NoCall]
          /\ UNCHANGED thisPtr \/ thisPtr' = [thisPtr EXCEPT ![w] = FALSE]
          /\ UNCHANGED stopThread
      BY <2>2 DEF Lock, Spurious, Test, Run, GiveBack, Uncount, Release, Goto, LoopLabels
    <3>2. loop' \in [Threads -> LoopLabels]
      BY <3>1, Types
    <3>3. func' \in [Threads -> Calls \cup {NoCall}]
      BY <3>1, Types
    <3>4. thisPtr' \in [Threads -> BOOLEAN] /\ stopThread' \in [Threads -> BOOLEAN]
      BY <3>1, Types
    <3> QED
      BY <3>2, <3>3, <3>4
  <2>3. ASSUME Forbid \/ Destroy \/ DestroyNext \/ Stop \/ Join \/ UNCHANGED vars PROVE LT
    <3>1. /\ \/ UNCHANGED loop
             \/ loop' = [loop EXCEPT ![doomed] = IF @ = "waiting" THEN "woken" ELSE @]
             \/ loop' = [loop EXCEPT ![doomed] = "joined"]
          /\ UNCHANGED <<func, thisPtr>>
          /\ UNCHANGED stopThread \/ stopThread' = [stopThread EXCEPT ![doomed] = TRUE]
      BY <2>3 DEF Forbid, Destroy, DestroyNext, Stop, Join, Notified, Goto, vars, threadVars
    <3>2. loop' \in [Threads -> LoopLabels]
      BY <3>1, Types DEF LoopLabels
    <3> QED
      BY <3>1, <3>2, Types
  <2> HIDE DEF LT
  <2> QED
    BY <2>1, <2>2, <2>3, StepCases
<1>4. PT
  <2>1. available' \in Seq(Threads)
    <3>1. available # <<>> => Head(available) \in Threads /\ Tail(available) \in Seq(Threads)
      BY Types
    <3>2. \A w \in Threads : Append(available, w) \in Seq(Threads)
      BY Types
    <3> QED
      BY <3>1, <3>2, StepCases, Types
       DEF Call, Get, GetNone, Make, Submit, Lock, Spurious, Test, Run, GiveBack, Uncount,
           Release, Forbid, Destroy, DestroyNext, Stop, Join, vars, poolVars
  <2>2. doomed' \in {0} \cup Threads /\ destroy' \in {"none", "pop", "stop", "join", "done"}
    <3>1. available # <<>> => Head(available) \in Threads
      BY Types
    <3> QED
      BY <3>1, StepCases, Types
       DEF Call, Get, GetNone, Make, Submit, Lock, Spurious, Test, Run, GiveBack, Uncount,
           Release, Forbid, Destroy, DestroyNext, Stop, Join, vars, destroyVars
  <2>3. allowed' \in BOOLEAN
    BY StepCases, Types
       DEF Call, Get, GetNone, Make, Submit, Lock, Spurious, Test, Run, GiveBack, Uncount,
           Release, Forbid, Destroy, DestroyNext, Stop, Join, vars
  <2>4. spuriousLeft' \in 0..MaxSpurious
    <3>1. UNCHANGED spuriousLeft \/ (spuriousLeft > 0 /\ spuriousLeft' = spuriousLeft - 1)
      BY StepCases
         DEF Call, Get, GetNone, Make, Submit, Lock, Spurious, Test, Run, GiveBack, Uncount,
             Release, Forbid, Destroy, DestroyNext, Stop, Join, vars
    <3> QED
      BY <1>0, <3>1, Types
  <2> QED
    BY <2>1, <2>2, <2>3, <2>4
<1> QED
  BY <1>1, <1>2, <1>3, <1>4 DEF TypeOK, CallLabels, LoopLabels

-----------------------------------------------------------------------------
(* What follows in any state.                                              *)

(* While a thread is with a call, it holds mutex_ unless it is free.       *)
LEMMA NotOverwritten ==
  ASSUME TypeOK, OneOwner, FunctionHeld, ThreadsCounted
  PROVE  NeverOverwritten
<1> SUFFICES ASSUME NEW c \in Calls, call[c] = "submit", ~Locked(worker[c])
             PROVE  func[worker[c]] = NoCall /\ ~thisPtr[worker[c]]
  BY DEF NeverOverwritten
<1>1. worker[c] \in Threads /\ Claimed(worker[c])
  BY DEF ThreadsCounted, Made, Claimed
<1>2. PICK w \in Threads : w = worker[c]
  BY <1>1
<1>3. ~thisPtr[w]
  BY <1>1, <1>2 DEF OneOwner
<1>4. ~At(w, "uncount") /\ ~At(w, "release")
  BY <1>2 DEF Locked, At
<1> QED
  BY <1>2, <1>3, <1>4 DEF FunctionHeld

LEMMA InitOwned ==
  ASSUME Init
  PROVE  ThreadsOwned
<1>1. TypeOK
  BY ThreadFacts, PoolAssumption DEF Init, TypeOK
<1>2. Made = {} /\ Counted = {} /\ Cardinality({}) = 0
  BY FS_EmptySet DEF Init, Made, Counted
<1>3. OneOwner
  BY <1>2, ThreadFacts DEF Init, OneOwner, Queued, Claimed, Doomed, At, Made
<1>4. FunctionHeld
  BY <1>2 DEF Init, FunctionHeld, At
<1>5. ThreadsCounted
  BY <1>2 DEF Init, ThreadsCounted
<1>6. StoppedLast
  BY DEF Init, StoppedLast, At
<1>7. ThrowsKept
  BY DEF Init, ThrowsKept
<1> QED
  BY <1>1, <1>3, <1>4, <1>5, <1>6, <1>7, NotOverwritten DEF ThreadsOwned

LEMMA NextOwned ==
  ASSUME ThreadsOwned, [Next]_vars
  PROVE  ThreadsOwned'
<1>1. TypeOK' /\ OneOwner' /\ FunctionHeld' /\ ThreadsCounted'
  BY TypeStep, OwnerStep, FunctionStep, CountedStep
<1>2. NeverOverwritten'
  <2> SUFFICES ASSUME NEW c \in Calls, call'[c] = "submit", ~Locked(worker[c])'
               PROVE  func'[worker'[c]] = NoCall /\ ~thisPtr'[worker'[c]]
    BY DEF NeverOverwritten
  <2>1. worker'[c] \in Threads /\ Claimed(worker[c])'
    BY <1>1 DEF ThreadsCounted, Made, Claimed
  <2>2. PICK w \in Threads : w = worker'[c]
    BY <2>1
  <2>3. ~thisPtr'[w]
    BY <1>1, <2>1, <2>2 DEF OneOwner, Claimed
  <2>4. ~At(w, "uncount")' /\ ~At(w, "release")'
    BY <2>2 DEF Locked, At
  <2> QED
    BY <1>1, <2>2, <2>3, <2>4 DEF FunctionHeld
<1> QED
  BY <1>1, <1>2, StoppedStep, ThrowsStep DEF ThreadsOwned

-----------------------------------------------------------------------------
(* The results.                                                            *)

(* Every thread has one owner, a call that gets a thread does not          *)
(* overwrite the function of another, and never more threads are made than *)
(* there are calls: makeOrGet(), run(), threadLoop() and the destructors.  *)
THEOREM OwnersInvariant == Spec => []ThreadsOwned
<1>1. Init => ThreadsOwned
  BY InitOwned
<1>2. ThreadsOwned /\ [Next]_vars => ThreadsOwned'
  BY NextOwned
<1> QED
  BY <1>1, <1>2, PTL DEF Spec

(* The destructor begins when the tasks were told, and nothing is          *)
(* outstanding then: the assertions of ~ReusableObjectHolder() and         *)
(* ~WaitingThread().                                                       *)
THEOREM NoneOutstandingInvariant == Spec => []NoneOutstanding
<1>1. ThreadsOwned => NoneOutstanding
  <2> SUFFICES ASSUME ThreadsOwned, destroy # "none"
               PROVE  outstanding = 0 /\ \A w \in Threads : func[w] = NoCall /\ ~thisPtr[w]
    BY DEF NoneOutstanding
  <2>1. InProgress = {}
    BY DEF ThreadsOwned, StoppedLast
  <2>2. Counted = {}
    BY <2>1 DEF Counted, InProgress
  <2>3. outstanding = 0
    BY <2>2, FS_EmptySet DEF ThreadsOwned, ThreadsCounted
  <2>4. \A w \in Threads : func[w] = NoCall /\ ~thisPtr[w]
    BY <2>1, Types DEF ThreadsOwned, FunctionHeld, InProgress
  <2> QED
    BY <2>3, <2>4
<1> QED
  BY <1>1, OwnersInvariant, PTL

(* A task that may run has an exception exactly if one of its calls threw: *)
(* presetTaskAsFailed() comes before the holder is destroyed.              *)
THEOREM FailureInvariant == Spec => []FailureHandedOver
<1>1. ThreadsOwned => FailureHandedOver
  <2> SUFFICES ASSUME ThreadsOwned, NEW t \in Tasks
               PROVE  exception[t] # NoCall <=> {c \in Calls : TaskOf[c] = t} \cap threw # {}
    BY DEF FailureHandedOver
  <2>1. {c \in Calls : TaskOf[c] = t} \cap threw = {c \in threw : TaskOf[c] = t}
    BY Types
  <2>2. exception[t] \in IF {c \in threw : TaskOf[c] = t} = {} THEN {NoCall}
                         ELSE {c \in threw : TaskOf[c] = t}
    BY DEF ThreadsOwned, ThrowsKept
  <2> QED
    BY <2>1, <2>2, Types
<1> QED
  BY <1>1, OwnersInvariant, PTL
=============================================================================
