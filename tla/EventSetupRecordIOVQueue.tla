---------------------- MODULE EventSetupRecordIOVQueue ----------------------
(***************************************************************************)
(* The intervals of validity (IOVs) of the records of the event setup.     *)
(* Each run and luminosity block synchronises the records with its time,   *)
(* one after the other, and then uses the IOV each record is in until it   *)
(* ends.  A record has room for a few IOVs: a new one waits in iovQueue_   *)
(* for a slot, which an older one frees when all its users have gone and   *)
(* the record has moved on.  What the LimitedTaskQueue does is taken from  *)
(* LimitedTaskQueue: it starts tasks in order, as many as it has queues,   *)
(* and sometimes one more, late: after it has been paused.                 *)
(*                                                                         *)
(* An interval, and the IOV started for it, is named by the sync at which  *)
(* the record entered it.                                                  *)
(***************************************************************************)
EXTENDS Naturals, FiniteSets

CONSTANTS NumRecords,   \* the records, in the order in which they are asked
          Concurrent,   \* how many IOVs a record may hold at once
          MaxSyncs,     \* bound: syncs in one job
          MaxFailures   \* bound: in how many of these a finder throws

Records == 1..NumRecords
Syncs   == 1..MaxSyncs
Slots(r) == 1..Concurrent[r]

ASSUME IOVQueueAssumption ==
  /\ NumRecords \in Nat /\ MaxSyncs \in Nat /\ MaxFailures \in Nat
  /\ Concurrent \in [Records -> Nat \ {0}]

VARIABLES
  syncs,      \* how many syncs there have been
  failures,   \* how many exceptions they met
  interval,   \* per record: validityInterval_, 0 if invalid
  current,    \* per record: the IOV endIOVTaskHolder_ keeps, 0 if it has no task
  waiting,    \* the records whose new IOV is in iovQueue_, at most one each
  iov,        \* per record and IOV: where it is in its life, its slot and its users
  available,  \* per record: isAvailable_
  using,      \* the syncs whose runs or luminosity blocks have not ended
  wanted,     \* history: the interval of each record at each sync
  after,      \* history: the syncs that an exception came before
  ending,     \* whether endIOVAsync() has been called, and then its task run
  told        \* the records whose endIOVTasks_ no longer hold that task

iovVars == <<syncs, failures, interval, current, waiting, iov, available, using, wanted, after, ending, told>>

NoIOV == [phase |-> "none", slot |-> 0, users |-> {}]

IOVInit ==
  /\ syncs = 0 /\ failures = 0
  /\ interval = [r \in Records |-> 0] /\ current = [r \in Records |-> 0]
  /\ waiting = {} /\ using = {} /\ after = {}
  /\ iov = [r \in Records |-> [k \in Syncs |-> NoIOV]]
  /\ available = [r \in Records |-> Slots(r)]
  /\ wanted = [k \in Syncs |-> [r \in Records |-> 0]]
  /\ ending = "no" /\ told = {}

IOVTypeOK ==
  /\ syncs \in 0..MaxSyncs /\ failures \in Nat
  /\ interval \in [Records -> 0..MaxSyncs] /\ current \in [Records -> 0..MaxSyncs]
  /\ waiting \subseteq Records /\ using \subseteq 1..syncs /\ after \subseteq 1..syncs
  /\ iov \in [Records -> [Syncs -> [phase : {"none", "started", "freed", "ended"}, slot : Nat,
                                    users : SUBSET Syncs]]]
  /\ available \in [Records -> SUBSET Nat]
  /\ wanted \in [Syncs -> [Records -> 0..MaxSyncs]]
  /\ ending \in {"no", "asked", "done"} /\ told \subseteq Records

-----------------------------------------------------------------------------
(* IOVs whose task in iovQueue_ has begun and whose Resumer has not been   *)
(* used yet                                                                *)
Started(r) == {k \in Syncs : iov[r][k].phase \in {"started", "freed"}}

(* The task that ends an IOV runs when the record and all users let go.    *)
Ends(r, k) == iov[r][k].phase = "started" /\ iov[r][k].users = {} /\ current[r] # k

(* setValidityIntervalFor() of record r at sync k: the interval it is in,  *)
(* a new one, or none                                                      *)
IntervalsAt(r, k) == {0, interval[r], k}

Entered(r, k) == interval'[r] = k

(* Mutant: the record keeps its IOV until the new one has started.         *)
CurrentAfterKept(r, k) == current[r]

(* startNewIOVAsync() lets the old IOV end when its users are done.        *)
CurrentAfter(r, k) == IF Entered(r, k) THEN 0 ELSE current[r]

(* Mutant: only a sync that starts an IOV becomes a user of it.            *)
UsesNothing(r, k) == FALSE

(* checkForNewIOVs(): a record that stays in its interval is used as it    *)
(* is; what counts is whether the status says so, not the IOV at hand.     *)
UsesAtOnce(r, k) == interval'[r] \notin {0, k}

(* eventSetupForInstanceAsync(), for the next run or luminosity block,     *)
(* when the records are ready for the one before                           *)
Sync ==
  LET k == syncs + 1 IN
  /\ ending = "no" /\ waiting = {} /\ syncs < MaxSyncs
  /\ syncs' = k
  /\ interval' \in [Records -> 0..k]
  /\ \A r \in Records : interval'[r] \in IntervalsAt(r, k)
  /\ wanted' = [wanted EXCEPT ![k] = interval']
  /\ after' = IF failures > 0 THEN after \cup {k} ELSE after
  /\ using' = using \cup {k}
  /\ waiting' = {r \in Records : Entered(r, k)}
  /\ current' = [r \in Records |-> CurrentAfter(r, k)]
  /\ iov' = [r \in Records |-> [j \in Syncs |->
               IF UsesAtOnce(r, k) /\ j = current[r]
               THEN [iov[r][j] EXCEPT !.users = @ \cup {k}] ELSE iov[r][j]]]
  /\ UNCHANGED <<failures, available, ending, told>>

(* The finder of record f throws: the records before it are in their new   *)
(* intervals, but no IOV is started for these.                             *)
FailedSync ==
  LET k == syncs + 1 IN
  /\ ending = "no" /\ waiting = {} /\ syncs < MaxSyncs /\ failures < MaxFailures
  /\ syncs' = k /\ failures' = failures + 1
  /\ \E f \in Records :
       /\ interval' \in [Records -> 0..k]
       /\ \A r \in Records : interval'[r] \in IF r < f THEN IntervalsAt(r, k) ELSE {interval[r]}
  /\ after' = IF failures > 0 THEN after \cup {k} ELSE after
  /\ UNCHANGED <<current, waiting, iov, available, using, wanted, ending, told>>

(* The task in iovQueue_: it finds a slot and keeps the new IOV alive for  *)
(* the record and for the run or luminosity block that waits for it.  One  *)
(* that comes late and finds none throws, and its Resumer goes.            *)
StartIOV(r) ==
  /\ r \in waiting
  /\ waiting' = waiting \ {r}
  /\ \/ \E slot \in available[r] :
          /\ \A other \in available[r] : slot <= other
          /\ available' = [available EXCEPT ![r] = @ \ {slot}]
          /\ iov' = [iov EXCEPT ![r][syncs] =
                       [phase |-> "started", slot |-> slot, users |-> {syncs}]]
          /\ current' = [current EXCEPT ![r] = syncs]
          /\ UNCHANGED <<failures, after>>
     \/ /\ available[r] = {}        \* "This should never happen."
        /\ failures' = failures + 1
        /\ after' = after \cup {syncs}
        /\ UNCHANGED <<available, iov, current>>
  /\ UNCHANGED <<syncs, interval, using, wanted, ending, told>>

(* endIOVWaitingTasks_.doneWaiting() of a run or luminosity block          *)
EndUser(k) ==
  /\ k \in using /\ (k = syncs => waiting = {})
  /\ using' = using \ {k}
  /\ iov' = [r \in Records |-> [j \in Syncs |-> [iov[r][j] EXCEPT !.users = @ \ {k}]]]
  /\ UNCHANGED <<syncs, failures, interval, current, waiting, available, wanted, after, ending, told>>

(* Mutant: the queue may go on before the slot is free.                    *)
FreeSlotLater(r, k) ==
  /\ Ends(r, k)
  /\ iov' = [iov EXCEPT ![r][k].phase = "ended"]
  /\ UNCHANGED <<syncs, failures, interval, current, waiting, available, using, wanted, after, ending, told>>

(* The task that ends an IOV: endIOV() and the slot ...                    *)
FreeSlot(r, k) ==
  /\ Ends(r, k)
  /\ iov' = [iov EXCEPT ![r][k].phase = "freed"]
  /\ available' = [available EXCEPT ![r] = @ \cup {iov[r][k].slot}]
  /\ UNCHANGED <<syncs, failures, interval, current, waiting, using, wanted, after, ending, told>>

(* ... and then the queue may go on, and endIOVTasks_ are told.            *)
ResumeQueue(r, k) ==
  /\ iov[r][k].phase = "freed"
  /\ iov' = [iov EXCEPT ![r][k].phase = "ended"]
  /\ told' = IF ending = "asked" THEN told \cup {r} ELSE told
  /\ UNCHANGED <<syncs, failures, interval, current, waiting, available, using, wanted, after, ending>>

(* Mutant: only the runs and luminosity blocks have been waited for.       *)
UsersGone == using = {} /\ waiting = {}

(* taskCleanup() after the last run: the tasks of the job have been waited *)
(* for, those that end IOVs too.                                           *)
Quiet == /\ using = {} /\ waiting = {}
         /\ \A r \in Records, k \in Syncs : iov[r][k].phase \in {"none", "ended"} \/ current[r] = k

EndIOVs ==
  /\ ending = "no" /\ Quiet
  /\ current' = [r \in Records |-> 0]
  /\ ending' = "asked"
  /\ told' = {r \in Records : current[r] = 0}
  /\ UNCHANGED <<syncs, failures, interval, waiting, iov, available, using, wanted, after>>

(* The task given to endIOVAsync(), which waits in the endIOVTasks_ of     *)
(* each record that had an IOV                                             *)
EndTask ==
  /\ ending = "asked"
  /\ told = Records
  /\ ending' = "done"
  /\ UNCHANGED <<syncs, failures, interval, current, waiting, iov, available, using, wanted, after,
                 told>>

IOVNext == \/ Sync \/ FailedSync \/ EndIOVs \/ EndTask
           \/ \E k \in Syncs : EndUser(k)
           \/ \E r \in Records : StartIOV(r) \/ \E k \in Syncs : FreeSlot(r, k) \/ ResumeQueue(r, k)

IOVSpec == IOVInit /\ [][IOVNext]_iovVars

(* A paused queue hands out the task of a record's new IOV.                *)
LateIOV == \E r \in waiting : r \notin waiting' /\ Cardinality(Started(r)) >= Concurrent[r]

(* Runs and luminosity blocks end, and threads take a task that is ready;  *)
(* nobody can count on a late start.                                       *)
FairIOVSpec == IOVSpec /\ WF_iovVars(IOVNext /\ ~LateIOV)

-----------------------------------------------------------------------------
(* Properties.                                                             *)

(* Each slot of a record is free or belongs to the one IOV in it.          *)
InSlot(r) == {k \in Syncs : iov[r][k].phase = "started"}

SlotsKept(r) ==
  /\ \A k \in InSlot(r) : iov[r][k].slot \in Slots(r)
  /\ \A j, k \in InSlot(r) : iov[r][j].slot = iov[r][k].slot => j = k
  /\ available[r] = Slots(r) \ {iov[r][k].slot : k \in InSlot(r)}

(* Only an IOV that has started and not ended is used or current, and its  *)
(* users are runs and luminosity blocks that have not ended; an IOV that   *)
(* waits in the queue is the one of the last sync.                         *)
UsedWhileStarted(r) ==
  /\ \A k \in Syncs :
       /\ iov[r][k].phase # "none" => k <= syncs /\ ~(k = syncs /\ r \in waiting)
       /\ iov[r][k].phase # "started" => iov[r][k].users = {} /\ current[r] # k
       /\ iov[r][k].users \subseteq using
  /\ r \in waiting => syncs \in using

(* Until a sync fails, the IOV a record keeps is that of its interval.     *)
CurrentIsInterval(r) ==
  /\ r \in waiting => interval[r] = syncs
  /\ failures = 0 /\ ending = "no" /\ interval[r] # 0 => current[r] = interval[r] \/ r \in waiting

(* When the IOVs are told to end, each record has at most one left.        *)
LastIOV(r) ==
  /\ ending # "no" => using = {} /\ waiting = {} /\ \A j, k \in Started(r) : j = k
  /\ ending # "no" /\ r \in told => Started(r) = {}
  /\ ending = "done" => r \in told

(* No two IOVs of a record share a slot, none is ended while it is used or *)
(* current, and a task that starts one finds a slot unless it comes late:  *)
(* a slot is free before the queue may go on.                              *)
IOVsSeparate ==
  /\ IOVTypeOK
  /\ \A r \in Records :
       /\ Cardinality(Started(r)) < Concurrent[r] => available[r] # {}
       /\ SlotsKept(r) /\ UsedWhileStarted(r) /\ CurrentIsInterval(r) /\ LastIOV(r)

(* A run or luminosity block keeps alive, in every record that is valid    *)
(* for it, the IOV of the interval that its time is in, until it ends;     *)
(* unless it or a sync before it has met an exception, when a record may   *)
(* have moved to an interval whose IOV is never started (checkForNewIOVs). *)
RightIOVUnlessFailed ==
  \A k \in using \ after, r \in Records :
    LET want == wanted[k][r] IN
    want # 0 => \/ iov[r][want].phase = "started" /\ k \in iov[r][want].users
                \/ k = syncs /\ want = k /\ r \in waiting

(* The task of taskCleanup() runs only when no IOV is left, although any   *)
(* IOV of a record that ends tells it (endIOVTasks_).                      *)
EndTaskIsLast == ending = "done" => \A r \in Records, k \in Syncs : iov[r][k].phase \in {"none", "ended"}

(* No sync waits for ever for a slot, even with one IOV at a time, and the *)
(* job gets past the end of all IOVs.                                      *)
IOVsEnd == <>(ending = "done")
=============================================================================
