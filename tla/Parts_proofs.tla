---------------------------- MODULE Parts_proofs ----------------------------
(***************************************************************************)
(* What is proved of the small components that MCParts checks in one run:  *)
(* SyncJobs and Backoff, SessionView, Drafts, Accounts, EntryWriter.  They *)
(* share no state and no lemma: each has a part of its own, an inductive   *)
(* invariant first and the theorems last.                                  *)
(***************************************************************************)
EXTENDS SyncJobs, Backoff, SessionView, Drafts, Accounts, EntryWriter, Filters_proofs,
        FiniteSetTheorems, TLAPS

-----------------------------------------------------------------------------
(***************************************************************************)
(* The work table of SyncJobs, for any number of documents and workers and *)
(* any page size: no wake is erased by work that began before it, and a    *)
(* reconciliation that has ended woke every document.                      *)
(*                                                                         *)
(* Both rest on the clock: a version is issued once, so a row that still   *)
(* has the version a worker read is the row the worker read.               *)
(***************************************************************************)

(* Every version in use was issued by the clock. *)
Issued ==
  /\ \A d \in Docs : wake[d] <= jobClock
  /\ \A w \in Workers : holds[w].version <= jobClock
  /\ scan.version <= jobClock

(* A worker whose version is still the row's has seen every request. *)
HoldersSaw == \A w \in Workers, d \in Docs : holds[w].doc = d =>
  /\ holds[w].version > 0
  /\ wake[d] = holds[w].version => seen[w] = asks[d]

(* What is owed lies behind the cursor of the row, and behind that of every
   scanner whose version is still the row's; no row, nothing owed. *)
Ahead(cursor) == \A d \in owed : d > cursor

ScanOwes ==
  /\ Ahead(scan.cursor)
  /\ scan.version = 0 => scan.cursor = 0 /\ owed = {}

ScannersOwe == \A w \in Workers : holds[w].doc = ScanJob =>
  /\ holds[w].version > 0
  /\ holds[w].version = scan.version => Ahead(holds[w].cursor)

JobsInv ==
  JobsTypeInv /\ Issued /\ WakeKept /\ HoldersSaw /\ ScanOwes /\ ScannersOwe

LEMMA JobsInvInit == JobsInit => JobsInv
BY JobsAssumption
DEF JobsInit, JobsInv, JobsTypeInv, Held, Issued, WakeKept, HoldersSaw, ScanOwes, ScannersOwe,
    Ahead, NoScan, Resting, Docs, ScanJob

(* What a step of one worker leaves to the others. *)
LEMMA RestedHolds ==
  ASSUME JobsTypeInv, NEW w \in Workers, holds' = [holds EXCEPT ![w] = Resting]
  PROVE  /\ holds' \in [Workers -> Held]
         /\ \A v \in Workers : holds'[v] = IF v = w THEN Resting ELSE holds[v]
BY JobsAssumption DEF JobsTypeInv, Held, Resting, Docs, ScanJob

LEMMA RestingIdle ==
  /\ \A d \in Docs : Resting.doc # d
  /\ Resting.doc # ScanJob /\ Resting.version = 0
BY DEF Resting, Docs, ScanJob

(* The page after a cursor, and its last document. *)
LEMMA PageFacts ==
  ASSUME NEW c \in 0..NDocs
  PROVE  /\ LastOf(c) \in 0..NDocs
         /\ \A d \in Docs : d > c /\ d \notin Page(c) => d > LastOf(c)
         /\ Page(c) = {} => \A d \in Docs : ~(d > c)
<1>1. /\ LastOf(c) \in 0..NDocs
      /\ \A d \in Docs : d > c /\ d \notin Page(c) => d > LastOf(c)
  BY JobsAssumption DEF LastOf, Page, Docs
<1>2. ASSUME Page(c) = {}, NEW d \in Docs, d > c PROVE FALSE
  <2>1. c + 1 \in Page(c)
    BY <1>2, JobsAssumption DEF Page, Docs
  <2>2. QED BY <2>1, <1>2
<1>3. QED BY <1>1, <1>2

LEMMA ScheduleWakeStep ==
  ASSUME JobsInv, NEW d \in Docs, ScheduleWake(d) PROVE JobsInv'
<1> USE DEF JobsInv, ScheduleWake
<1>1. JobsTypeInv' /\ Issued'
  BY DEF JobsTypeInv, Issued, Held
<1>2. WakeKept' /\ HoldersSaw'
  BY DEF JobsTypeInv, Issued, WakeKept, HoldersSaw, Held
<1>3. ScanOwes' /\ ScannersOwe'
  BY DEF ScanOwes, ScannersOwe, Ahead
<1>4. QED BY <1>1, <1>2, <1>3

LEMMA ScheduleScanStep ==
  ASSUME JobsInv, ScheduleScan PROVE JobsInv'
<1> USE DEF JobsInv, ScheduleScan, Restarted
<1>1. JobsTypeInv' /\ Issued'
  BY JobsAssumption DEF JobsTypeInv, Issued, Held
<1>2. WakeKept' /\ HoldersSaw'
  BY DEF WakeKept, HoldersSaw
<1>3. ScanOwes' /\ ScannersOwe'
  BY JobsAssumption DEF JobsTypeInv, Held, Issued, ScanOwes, ScannersOwe, Ahead, Docs
<1>4. QED BY <1>1, <1>2, <1>3

LEMMA TakeWakeStep ==
  ASSUME JobsInv, NEW w \in Workers, NEW d \in Docs, TakeWake(w, d) PROVE JobsInv'
<1> USE DEF JobsInv, TakeWake
<1>0. [doc |-> d, version |-> wake[d], cursor |-> 0] \in Held
  BY JobsAssumption DEF JobsTypeInv, Held
<1>1. JobsTypeInv' /\ Issued'
  <2>1. JobsTypeInv'
    BY <1>0 DEF JobsTypeInv
  <2>2. Issued'
    BY DEF JobsTypeInv, Issued
  <2>3. QED BY <2>1, <2>2
<1>2. WakeKept' /\ HoldersSaw'
  BY DEF JobsTypeInv, WakeKept, HoldersSaw
<1>3. ScanOwes' /\ ScannersOwe'
  BY DEF JobsTypeInv, ScanOwes, ScannersOwe, Ahead, Docs, ScanJob
<1>4. QED BY <1>1, <1>2, <1>3

LEMMA CompleteWakeStep ==
  ASSUME JobsInv, NEW w \in Workers, CompleteWake(w) PROVE JobsInv'
<1> USE RestingIdle DEF JobsInv, CompleteWake
<1>r. /\ holds' \in [Workers -> Held]
      /\ \A v \in Workers : holds'[v] = IF v = w THEN Resting ELSE holds[v]
  BY RestedHolds
<1>1. JobsTypeInv' /\ Issued'
  <2>1. JobsTypeInv'
    BY <1>r DEF JobsTypeInv
  <2>2. Issued'
    BY <1>r DEF JobsTypeInv, Issued
  <2>3. QED BY <2>1, <2>2
<1>2. WakeKept' /\ HoldersSaw'
  BY <1>r DEF JobsTypeInv, WakeKept, HoldersSaw, Held
<1>3. ScanOwes' /\ ScannersOwe'
  BY <1>r DEF JobsTypeInv, ScanOwes, ScannersOwe, Ahead
<1>4. QED BY <1>1, <1>2, <1>3

LEMMA TakeScanStep ==
  ASSUME JobsInv, NEW w \in Workers, TakeScan(w) PROVE JobsInv'
<1> USE DEF JobsInv, TakeScan
<1>1. JobsTypeInv' /\ Issued'
  BY DEF JobsTypeInv, Issued, Held, Docs, ScanJob
<1>2. WakeKept' /\ HoldersSaw'
  BY DEF JobsTypeInv, WakeKept, HoldersSaw, Docs, ScanJob
<1>3. ScanOwes' /\ ScannersOwe'
  BY DEF JobsTypeInv, ScanOwes, ScannersOwe, Ahead, NoScan
<1>4. QED BY <1>1, <1>2, <1>3

LEMMA AcceptPageStep ==
  ASSUME JobsInv, NEW w \in Workers, AcceptPage(w) PROVE JobsInv'
<1> DEFINE h == holds[w]
           page == Page(h.cursor)
<1> USE RestingIdle DEF JobsInv
<1>h. /\ h.doc = ScanJob /\ h \in Held
      /\ holds' = [holds EXCEPT ![w] = Resting]
      /\ UNCHANGED <<served, seen>>
  BY DEF AcceptPage, JobsTypeInv
<1>r. /\ holds' \in [Workers -> Held]
      /\ \A v \in Workers : holds'[v] = IF v = w THEN Resting ELSE holds[v]
  BY <1>h, RestedHolds
<1>1. CASE ~Current(h) /\ UNCHANGED <<jobClock, wake, scan, asks, owed>>
  <2>1. JobsTypeInv' /\ Issued'
    <3>1. JobsTypeInv'
      BY <1>1, <1>h, <1>r, JobsAssumption DEF JobsTypeInv
    <3>2. Issued'
      BY <1>1, <1>h, <1>r DEF JobsTypeInv, Issued
    <3>3. QED BY <3>1, <3>2
  <2>2. WakeKept' /\ HoldersSaw'
    BY <1>1, <1>h, <1>r DEF JobsTypeInv, WakeKept, HoldersSaw
  <2>3. ScanOwes' /\ ScannersOwe'
    BY <1>1, <1>h, <1>r DEF JobsTypeInv, ScanOwes, ScannersOwe, Ahead
  <2>4. QED BY <2>1, <2>2, <2>3
<1>2. CASE Current(h) /\ page = {} /\ scan' = NoScan /\ UNCHANGED <<jobClock, wake, asks, owed>>
  <2>0. owed = {}
    <3>1. Ahead(h.cursor) /\ h.cursor \in 0..NDocs /\ owed \subseteq Docs
      BY <1>h, <1>2 DEF Current, ScannersOwe, Held, JobsTypeInv
    <3>2. \A d \in Docs : ~(d > h.cursor)
      BY <1>2, <3>1, PageFacts
    <3>3. QED BY <3>1, <3>2 DEF Ahead
  <2>1. JobsTypeInv' /\ Issued'
    <3>0. NoScan \in [version : Nat, cursor : 0..NDocs]
      BY JobsAssumption DEF NoScan
    <3>1. JobsTypeInv'
      BY <1>2, <1>h, <1>r, <3>0 DEF JobsTypeInv, Held
    <3>2. Issued'
      BY <1>2, <1>h, <1>r DEF JobsTypeInv, Issued, NoScan, Docs
    <3>3. QED BY <3>1, <3>2
  <2>2. WakeKept' /\ HoldersSaw'
    BY <1>2, <1>h, <1>r DEF JobsTypeInv, WakeKept, HoldersSaw
  <2>3. ScanOwes' /\ ScannersOwe'
    BY <1>2, <1>h, <1>r, <2>0 DEF JobsTypeInv, ScanOwes, ScannersOwe, Ahead, NoScan
  <2>4. QED BY <2>1, <2>2, <2>3
<1>3. CASE /\ Current(h) /\ page # {}
           /\ jobClock' = jobClock + 1
           /\ wake' = [d \in Docs |-> IF d \in page THEN jobClock' ELSE wake[d]]
           /\ asks' = [d \in Docs |-> IF d \in page THEN asks[d] + 1 ELSE asks[d]]
           /\ scan' = [scan EXCEPT !.cursor = LastOf(h.cursor)]
           /\ owed' = owed \ page
  <2> HIDE DEF page
  <2>c. h.cursor \in 0..NDocs
    BY <1>h DEF Held
  <2>0. scan' \in [version : Nat, cursor : 0..NDocs] /\ scan'.version = scan.version
        /\ scan'.cursor = LastOf(h.cursor)
    BY <1>3, <2>c, PageFacts DEF JobsTypeInv
  <2>1. JobsTypeInv' /\ Issued'
    <3>0. jobClock' \in Nat /\ wake' \in [Docs -> Nat] /\ asks' \in [Docs -> Nat]
      BY <1>3 DEF JobsTypeInv
    <3>1. JobsTypeInv'
      BY <1>3, <1>h, <1>r, <2>0, <3>0 DEF JobsTypeInv, Held
    <3>2. Issued'
      BY <1>3, <1>h, <1>r, <2>0 DEF JobsTypeInv, Issued, Held
    <3>3. QED BY <3>1, <3>2
  <2>2. WakeKept' /\ HoldersSaw'
    BY <1>3, <1>h, <1>r DEF JobsTypeInv, Issued, WakeKept, HoldersSaw, Held
  <2>3. \A d \in owed' : d > LastOf(h.cursor)
    <3>1. Ahead(h.cursor) /\ owed \subseteq Docs
      BY <1>h, <1>3 DEF Current, ScannersOwe, JobsTypeInv
    <3>2. QED BY <1>3, <2>c, <3>1, PageFacts DEF Ahead, page
  <2>4. scan.version > 0
    BY <1>h, <1>3 DEF Current, ScannersOwe
  <2>5. ScanOwes'
    BY <2>0, <2>3, <2>4 DEF ScanOwes, Ahead
  <2>6. ScannersOwe'
    BY <1>3, <1>h, <1>r, <2>0 DEF JobsTypeInv, ScannersOwe, Ahead
  <2>7. QED BY <2>1, <2>2, <2>5, <2>6
<1>4. QED BY <1>1, <1>2, <1>3 DEF AcceptPage

LEMMA DeleteDocStep ==
  ASSUME JobsInv, NEW d \in Docs, DeleteDoc(d) PROVE JobsInv'
<1> USE DEF JobsInv, DeleteDoc
<1>1. JobsTypeInv' /\ Issued'
  BY DEF JobsTypeInv, Issued, Held
<1>2. WakeKept' /\ HoldersSaw'
  BY DEF JobsTypeInv, WakeKept, HoldersSaw, Held
<1>3. ScanOwes' /\ ScannersOwe'
  BY DEF ScanOwes, ScannersOwe, Ahead
<1>4. QED BY <1>1, <1>2, <1>3

LEMMA JobsCrashStep ==
  ASSUME JobsInv, JobsCrash PROVE JobsInv'
<1> USE RestingIdle DEF JobsInv, JobsCrash
<1>1. JobsTypeInv' /\ Issued'
  BY JobsAssumption DEF JobsTypeInv, Issued, Held, Resting
<1>2. WakeKept' /\ HoldersSaw'
  BY DEF JobsTypeInv, WakeKept, HoldersSaw
<1>3. ScanOwes' /\ ScannersOwe'
  BY DEF JobsTypeInv, ScanOwes, ScannersOwe, Ahead
<1>4. QED BY <1>1, <1>2, <1>3

LEMMA JobsStep == JobsInv /\ [JobsNext]_jobsVars => JobsInv'
<1> SUFFICES ASSUME JobsInv, [JobsNext]_jobsVars PROVE JobsInv'
  OBVIOUS
<1>1. CASE UNCHANGED jobsVars
  BY <1>1 DEF jobsVars, JobsInv, JobsTypeInv, Issued, WakeKept, HoldersSaw, ScanOwes,
              ScannersOwe, Ahead
<1>2. CASE JobsNext
  BY <1>2, ScheduleWakeStep, DeleteDocStep, ScheduleScanStep, TakeWakeStep, CompleteWakeStep,
     TakeScanStep, AcceptPageStep, JobsCrashStep
  DEF JobsNext
<1>3. QED BY <1>1, <1>2

(* The work table keeps its inductive invariant, its type correctness included. *)
THEOREM JobsCorrect == JobsSpec => []JobsInv
BY JobsInvInit, JobsStep, PTL DEF JobsSpec

(* Conditional completion never erases a wake requested during the work, for any
   number of documents and workers. *)
THEOREM JobsWakeKept == JobsSpec => []WakeKept
<1>1. JobsInv => WakeKept BY DEF JobsInv
<1>2. QED BY <1>1, JobsCorrect, PTL

(* A reconciliation that has ended woke every document since its last request,
   for any page size. *)
THEOREM JobsReconcileCovers == JobsSpec => []ReconcileCovers
<1>1. JobsInv => ReconcileCovers BY DEF JobsInv, ScanOwes, ReconcileCovers, NoScan
<1>2. QED BY <1>1, JobsCorrect, PTL

-----------------------------------------------------------------------------
(***************************************************************************)
(* The reconnect wait of Backoff, for any number of links, any channel     *)
(* capacity and any number of path changes.                                *)
(*                                                                         *)
(* A path that is back is announced after the flag is cleared, and a wait  *)
(* reads the flag after it drained: an announcement a wait needs can only  *)
(* come after its drain, so it is in the channel.                          *)
(***************************************************************************)

(* What waits in a drained channel came since the wait began, unless the
   receiver had fallen behind before. *)
Drained(d) == unread[d] > 0 => fresh[d] \/ behind[d]

(* A receiver that lags at the drain lagged when the wait began, or an event
   came in between. *)
LagSeen(d) == unread[d] > Slots => fresh[d] \/ behind[d]

(* A wait parked for a path that is back will be woken. *)
ParkedWakes(d) == parked[d] /\ ~pathOffline /\ ~announcing => unread[d] > 0

BackoffInv ==
  /\ BackoffTypeInv
  /\ \A d \in Dialers :
       /\ stage[d] = "drain" => LagSeen(d)
       /\ stage[d] \in {"flag", "wait"} => Drained(d)
       /\ stage[d] = "wait" => ParkedWakes(d)

LEMMA BackoffInvInit == BackoffInit => BackoffInv
<1> SUFFICES ASSUME BackoffInit PROVE BackoffInv
  OBVIOUS
<1>1. BackoffTypeInv
  <2>1. 0 \in 0..(Slots + 1)
    BY BackoffAssumption
  <2>2. QED BY <2>1 DEF BackoffInit, BackoffTypeInv, Stages
<1>2. \A d \in Dialers : stage[d] = "dialing"
  BY DEF BackoffInit
<1>3. QED BY <1>1, <1>2 DEF BackoffInv

(* A broadcast adds an event to every channel, or finds it full already. *)
LEMMA BroadcastFacts ==
  ASSUME BackoffTypeInv, Broadcast
  PROVE  /\ unread' \in [Dialers -> 0..(Slots + 1)] /\ fresh' \in [Dialers -> BOOLEAN]
         /\ \A d \in Dialers : unread'[d] > 0 /\ fresh'[d]
<1>1. unread' \in [Dialers -> 0..(Slots + 1)] /\ fresh' \in [Dialers -> BOOLEAN]
  BY BackoffAssumption DEF BackoffTypeInv, Broadcast
<1>2. ASSUME NEW d \in Dialers PROVE unread'[d] > 0 /\ fresh'[d]
  <2>1. fresh'[d]
    BY DEF Broadcast
  <2>2. unread'[d] = IF unread[d] > Slots THEN unread[d] ELSE unread[d] + 1
    BY DEF Broadcast
  <2>3. unread[d] \in 0..(Slots + 1)
    BY DEF BackoffTypeInv
  <2>4. QED BY <2>1, <2>2, <2>3, BackoffAssumption
<1>3. QED BY <1>1, <1>2

LEMMA StageType ==
  ASSUME BackoffTypeInv, NEW d \in Dialers, NEW s \in Stages, To(d, s)
  PROVE  /\ stage' \in [Dialers -> Stages]
         /\ \A e \in Dialers : stage'[e] = IF e = d THEN s ELSE stage[e]
BY DEF BackoffTypeInv, To

LEMMA BackoffStep == BackoffInv /\ [BackoffNext]_backoffVars => BackoffInv'
<1> SUFFICES ASSUME BackoffInv, [BackoffNext]_backoffVars PROVE BackoffInv'
  OBVIOUS
<1> USE DEF BackoffInv
<1>0. CASE UNCHANGED backoffVars
  BY <1>0 DEF backoffVars, BackoffTypeInv, LagSeen, Drained, ParkedWakes
<1>1. CASE PathLost
  BY <1>1 DEF PathLost, BackoffTypeInv, LagSeen, Drained, ParkedWakes
<1>2. CASE PathBack
  BY <1>2 DEF PathBack, BackoffTypeInv, LagSeen, Drained, ParkedWakes
<1>3. CASE PathTold
  BY <1>3, BroadcastFacts DEF PathTold, BackoffTypeInv, LagSeen, Drained, ParkedWakes
<1>4. ASSUME NEW d \in Dialers, DialSucceeds(d) PROVE BackoffInv'
  <2>1. /\ stage' \in [Dialers -> Stages]
        /\ \A e \in Dialers : stage'[e] = IF e = d THEN "linked" ELSE stage[e]
    BY <1>4, StageType DEF DialSucceeds, Stages
  <2>2. QED
    BY <1>4, <2>1, BroadcastFacts DEF DialSucceeds, BackoffTypeInv, LagSeen, Drained, ParkedWakes
<1>5. ASSUME NEW d \in Dialers, BackOff(d) PROVE BackoffInv'
  <2>1. /\ stage' \in [Dialers -> Stages]
        /\ \A e \in Dialers : stage'[e] = IF e = d THEN "drain" ELSE stage[e]
    BY <1>5, StageType DEF BackOff, Stages
  <2>2. /\ fresh' \in [Dialers -> BOOLEAN] /\ behind' \in [Dialers -> BOOLEAN]
        /\ behind'[d] = (unread[d] > Slots)
        /\ \A e \in Dialers : e # d => fresh'[e] = fresh[e] /\ behind'[e] = behind[e]
        /\ UNCHANGED <<pathOffline, announcing, unread, parked, flips>>
    BY <1>5 DEF BackOff, BackoffTypeInv
  <2>3. BackoffTypeInv'
    BY <2>1, <2>2 DEF BackoffTypeInv
  <2>4. LagSeen(d)'
    BY <2>2 DEF LagSeen
  <2>5. QED
    BY <2>1, <2>2, <2>3, <2>4 DEF LagSeen, Drained, ParkedWakes
<1>6. ASSUME NEW d \in Dialers, Drain(d) PROVE BackoffInv'
  <2>1. /\ stage' \in [Dialers -> Stages]
        /\ \A e \in Dialers : stage'[e] = IF e = d THEN "flag" ELSE stage[e]
    BY <1>6, StageType DEF Drain, Stages
  <2>2. /\ unread' \in [Dialers -> 0..(Slots + 1)]
        /\ unread'[d] = AfterDrain(unread[d])
        /\ \A e \in Dialers : e # d => unread'[e] = unread[e]
    BY <1>6, BackoffAssumption DEF Drain, AfterDrain, BackoffTypeInv
  <2>3. UNCHANGED <<pathOffline, announcing, parked, flips, fresh, behind>>
    BY <1>6 DEF Drain
  <2>4. BackoffTypeInv'
    BY <2>1, <2>2, <2>3 DEF BackoffTypeInv
  <2>5. Drained(d)'
    BY <1>6, <2>2, <2>3 DEF Drain, AfterDrain, Drained, LagSeen
  <2>6. QED
    BY <2>1, <2>2, <2>3, <2>4, <2>5 DEF LagSeen, Drained, ParkedWakes
<1>7. ASSUME NEW d \in Dialers, ReadFlag(d) PROVE BackoffInv'
  <2>1. /\ stage' \in [Dialers -> Stages]
        /\ \A e \in Dialers : stage'[e] = IF e = d THEN "wait" ELSE stage[e]
    BY <1>7, StageType DEF ReadFlag, Stages
  <2>2. QED
    BY <1>7, <2>1 DEF ReadFlag, BackoffTypeInv, LagSeen, Drained, ParkedWakes
<1>8. ASSUME NEW d \in Dialers, Elapsed(d) \/ Woken(d) PROVE BackoffInv'
  <2>1. /\ stage' \in [Dialers -> Stages]
        /\ \A e \in Dialers : stage'[e] = IF e = d THEN "dialing" ELSE stage[e]
    BY <1>8, StageType DEF Elapsed, Woken, Stages
  <2>2. /\ unread' \in [Dialers -> 0..(Slots + 1)]
        /\ \A e \in Dialers : e # d => unread'[e] = unread[e]
    BY <1>8, BackoffAssumption DEF Elapsed, Woken, BackoffTypeInv
  <2>3. parked' \in [Dialers -> BOOLEAN] /\ \A e \in Dialers : e # d => parked'[e] = parked[e]
    BY <1>8 DEF Elapsed, Woken, BackoffTypeInv
  <2>4. UNCHANGED <<pathOffline, announcing, flips, fresh, behind>>
    BY <1>8 DEF Elapsed, Woken
  <2>5. BackoffTypeInv'
    BY <2>1, <2>2, <2>3, <2>4 DEF BackoffTypeInv
  <2>6. QED
    BY <2>1, <2>2, <2>3, <2>4, <2>5 DEF LagSeen, Drained, ParkedWakes
<1>9. QED
  BY <1>0, <1>1, <1>2, <1>3, <1>4, <1>5, <1>6, <1>7, <1>8 DEF BackoffNext

(* The backoff keeps its inductive invariant, its type correctness included. *)
THEOREM BackoffCorrect == BackoffSpec => []BackoffInv
BY BackoffInvInit, BackoffStep, PTL DEF BackoffSpec

(* No wait parked for an offline path outlives the path's return unwoken, and no
   event of the past ends a wait, for any number of links and any capacity. *)
THEOREM BackoffWaitHonest == BackoffSpec => []WaitHonest
<1>1. BackoffInv => WaitHonest
  BY DEF BackoffInv, WaitHonest, Drained, ParkedWakes
<1>2. QED BY <1>1, BackoffCorrect, PTL

-----------------------------------------------------------------------------
(***************************************************************************)
(* What SessionView promises, for any set of messages and of threads that  *)
(* refresh, and any number of edits and of changes of the host's row.      *)
(*                                                                         *)
(* A refresh takes marks which others have set, and publishes what it read *)
(* while others take marks and publish.  So the invariant follows what is  *)
(* still owed: whatever the decoded slots, the ledger or the composer lag  *)
(* behind is in the marks, in the import under way or in the hands of a    *)
(* thread that has yet to use it.                                          *)
(***************************************************************************)

Outcomes == {"none", "pending", "applied", "rejected"}
MarkNames == Sends \cup {"list", "commands"}

ViewType ==
  /\ docEntry \in [Sends -> Nat] /\ docCommand \in [Sends -> Outcomes]
  /\ import \in {"no", "changed", "marked"}
  /\ touched \in SUBSET MarkNames /\ marks \in SUBSET MarkNames
  /\ row \in BOOLEAN
  /\ doing \in [Viewers -> {"idle", "take", "row", "project", "gate", "publish"}]
  /\ taken \in [Viewers -> SUBSET MarkNames]
  /\ rowSeen \in [Viewers -> BOOLEAN]
  /\ slots \in [Sends -> Nat] /\ ledger \in [Sends -> Outcomes]
  /\ echoes \in SUBSET Sends
  /\ composer \in [busy : BOOLEAN, pending : SUBSET Sends]

(* A mark that some refresh will still find or has in its hands. *)
Owed(what) ==
  \/ import = "changed" /\ what \in touched
  \/ what \in marks
  \/ \E v \in Viewers : doing[v] \in {"row", "project"} /\ what \in taken[v]

Coming == \E v \in Viewers : doing[v] \in {"take", "row", "project", "gate"}
Publishing == \E v \in Viewers : doing[v] = "publish"

(* A slot that is behind is marked itself, or the list is if it has no slot. *)
DecodedTrue == \A m \in Sends :
  /\ slots[m] > 0 => docEntry[m] > 0
  /\ slots[m] # docEntry[m] => Owed(IF slots[m] > 0 THEN m ELSE "list")

Recorded ==
  /\ \A m \in Sends : ledger[m] # "none" => docCommand[m] # "none"
  /\ ledger # docCommand => Owed("commands")

Projected ==
  /\ echoes = Unlanded(ledger, slots)
  /\ snapshot.entries = slots /\ snapshot.echoes = echoes

OneWriter == \A v, u \in Viewers : doing[v] = "publish" /\ doing[u] = "publish" => v = u

(* The composer is behind only while a thread is on its way to it, and one that
   is about to publish an old row is not the last. *)
ComposerDue ==
  /\ composer.pending # echoes => Publishing \/ Coming
  /\ composer.busy # row => Publishing \/ Coming
  /\ \A v \in Viewers : doing[v] = "publish" /\ rowSeen[v] # row => Coming

ViewInv == ViewType /\ DecodedTrue /\ Recorded /\ Projected /\ OneWriter /\ ComposerDue

------------------------------------------------------------------------------
(* The initial state. *)
LEMMA ViewInvInit == ViewInit => ViewInv
<1> SUFFICES ASSUME ViewInit PROVE ViewInv
  OBVIOUS
<1> USE DEF ViewInit, NoEntries, NoCommands
<1>1. ViewType
  BY DEF ViewType, Outcomes, MarkNames
<1>2. DecodedTrue /\ Recorded
  BY DEF DecodedTrue, Recorded
<1>3. Projected
  BY DEF Projected, Unlanded
<1>4. OneWriter /\ ComposerDue
  BY DEF OneWriter, ComposerDue
<1> QED BY <1>1, <1>2, <1>3, <1>4 DEF ViewInv

(* The document changes: what lags behind it afterwards is what the import touches. *)
LEMMA ImportKeepsInv == ViewInv /\ Import => ViewInv'
<1> SUFFICES ASSUME ViewInv, import = "no", import' = "changed",
                    NEW m \in Sends, HostApplies(m) \/ HostAdopts(m) \/ HostEdits(m),
                    UNCHANGED <<marks, wakeup, row, rowTurns, doing, taken, rowSeen, coreVars>>
             PROVE  ViewInv'
  BY DEF Import
<1> USE DEF coreVars
<1>1. ASSUME NEW what, Owed(what) PROVE Owed(what)'
  BY <1>1 DEF Owed
<1>2. /\ ViewType'
      /\ \A n \in Sends : docEntry[n] > 0 => docEntry'[n] > 0
      /\ \A n \in Sends : docCommand[n] # "none" => docCommand'[n] # "none"
  BY DEF ViewInv, ViewType, HostApplies, HostAdopts, HostEdits, Outcomes, MarkNames
<1>3. DecodedTrue'
  <2> SUFFICES ASSUME NEW n \in Sends PROVE (slots[n] > 0 => docEntry'[n] > 0)
                        /\ (slots[n] # docEntry'[n] =>
                              Owed(IF slots[n] > 0 THEN n ELSE "list")')
    BY DEF DecodedTrue
  <2>1. slots[n] > 0 => docEntry'[n] > 0
    BY <1>2 DEF ViewInv, DecodedTrue
  <2>2. docEntry'[n] # docEntry[n] =>
          n = m /\ touched' = (IF docEntry[n] > 0 THEN {n} ELSE {"list"})
    BY DEF HostApplies, HostAdopts, HostEdits, ViewInv, ViewType
  <2>3. ASSUME slots[n] # docEntry'[n]
        PROVE  Owed(IF slots[n] > 0 THEN n ELSE "list")'
    <3>1. CASE slots[n] # docEntry[n]
      BY <3>1, <1>1 DEF ViewInv, DecodedTrue
    <3>2. CASE slots[n] = docEntry[n]
      BY <3>2, <2>2, <2>3 DEF Owed
    <3> QED BY <3>1, <3>2
  <2> QED BY <2>1, <2>3
<1>4. Recorded'
  <2>1. docCommand' # docCommand => touched' = {"commands"}
    BY DEF HostApplies, HostAdopts, HostEdits
  <2> QED BY <2>1, <1>1, <1>2 DEF ViewInv, Recorded, Owed
<1>5. (Projected /\ OneWriter /\ ComposerDue)'
  BY DEF ViewInv, Projected, OneWriter, ComposerDue, Coming, Publishing, Unlanded
<1> QED BY <1>2, <1>3, <1>4, <1>5 DEF ViewInv

(* What was touched is marked, and stays owed. *)
LEMMA MarkingKeepsInv == ViewInv /\ (Observe \/ ScheduleRefresh \/ FrameWakes) => ViewInv'
<1> SUFFICES ASSUME ViewInv, Observe \/ ScheduleRefresh \/ FrameWakes PROVE ViewInv'
  OBVIOUS
<1>1. UNCHANGED <<docEntry, docCommand, row, rowSeen, taken, slots, ledger, echoes, snapshot,
                  composer>>
  BY DEF Observe, ScheduleRefresh, FrameWakes, coreVars, docVars
<1>2. ViewType'
  BY <1>1, ViewAssumption DEF ViewInv, ViewType, Observe, ScheduleRefresh, FrameWakes, docVars
<1>3. \A v \in Viewers :
        /\ doing[v] # "idle" => doing'[v] = doing[v]
        /\ doing[v] = "idle" => doing'[v] \in {"idle", "take"}
  BY DEF Observe, ScheduleRefresh, FrameWakes, ViewInv, ViewType
<1>4. ASSUME NEW what, Owed(what) PROVE Owed(what)'
  BY <1>1, <1>3, <1>4 DEF Owed, Observe, ScheduleRefresh, FrameWakes, docVars
<1>5. (DecodedTrue /\ Recorded)'
  BY <1>1, <1>4 DEF ViewInv, DecodedTrue, Recorded
<1>6. (Projected /\ OneWriter /\ ComposerDue)'
  BY <1>1, <1>2, <1>3
     DEF ViewInv, ViewType, Projected, OneWriter, ComposerDue, Coming, Publishing, Unlanded
<1> QED BY <1>2, <1>5, <1>6 DEF ViewInv

(* A thread that sets out to refresh after its own write, or after the row changed. *)
LEMMA SettingOutKeepsInv ==
  ASSUME ViewInv, NEW v \in Viewers,
         RowChanges(v) \/ \E m \in Sends : WriteCommand(v, m)
  PROVE  ViewInv'
<1>1. UNCHANGED <<docEntry, import, touched, rowSeen, taken, slots, ledger, echoes, snapshot,
                  composer>>
  BY DEF RowChanges, WriteCommand, coreVars, docVars
<1>2. ViewType'
  <2>1. CASE RowChanges(v)
    BY <1>1, <2>1 DEF ViewInv, ViewType, RowChanges, docVars
  <2>2. ASSUME NEW m \in Sends, WriteCommand(v, m) PROVE ViewType'
    BY <1>1, <2>2 DEF ViewInv, ViewType, WriteCommand, Outcomes, MarkNames
  <2> QED BY <2>1, <2>2
<1>3. doing[v] = "idle" /\ doing' = [doing EXCEPT ![v] = "take"]
  BY DEF RowChanges, WriteCommand
<1>4. ASSUME NEW what, Owed(what) PROVE Owed(what)'
  BY <1>1, <1>3, <1>4 DEF Owed, RowChanges, WriteCommand, ViewInv, ViewType, docVars
<1>5. DecodedTrue'
  BY <1>1, <1>4 DEF ViewInv, DecodedTrue
<1>6. Recorded'
  <2>1. docCommand' # docCommand => "commands" \in marks'
    BY DEF RowChanges, WriteCommand, docVars
  <2>2. \A m \in Sends : docCommand[m] # "none" => docCommand'[m] # "none"
    BY DEF RowChanges, WriteCommand, docVars, ViewInv, ViewType
  <2> QED BY <2>1, <2>2, <1>1, <1>4 DEF ViewInv, Recorded, Owed
<1>7. Coming'
  BY <1>3 DEF Coming, ViewInv, ViewType
<1>8. (Projected /\ OneWriter /\ ComposerDue)'
  BY <1>1, <1>3, <1>7 DEF ViewInv, ViewType, Projected, OneWriter, ComposerDue, Unlanded
<1> QED BY <1>2, <1>5, <1>6, <1>8 DEF ViewInv

(* The marks pass into the hands of the thread, and stay there while it reads the row. *)
LEMMA TakeMarksKeepsInv ==
  ASSUME ViewInv, NEW v \in Viewers, TakeMarks(v) \/ ReadRow(v) PROVE ViewInv'
<1>1. UNCHANGED <<docEntry, docCommand, import, touched, row, slots, ledger, echoes, snapshot,
                  composer>>
  BY DEF TakeMarks, ReadRow, coreVars, docVars
<1>2. ViewType'
  BY <1>1 DEF ViewInv, ViewType, TakeMarks, ReadRow
<1>3. \/ /\ doing[v] = "take" /\ doing' = [doing EXCEPT ![v] = "row"]
         /\ taken' = [taken EXCEPT ![v] = marks] /\ rowSeen' = rowSeen
      \/ /\ doing[v] = "row" /\ doing' = [doing EXCEPT ![v] = "project"]
         /\ UNCHANGED <<marks, taken>>
         /\ rowSeen' = [rowSeen EXCEPT ![v] = row]
  BY DEF TakeMarks, ReadRow
<1>4. ASSUME NEW what, Owed(what) PROVE Owed(what)'
  BY <1>1, <1>3, <1>4 DEF Owed, ViewInv, ViewType
<1>5. (DecodedTrue /\ Recorded)'
  BY <1>1, <1>4 DEF ViewInv, DecodedTrue, Recorded
<1>6. Coming'
  BY <1>3 DEF Coming, ViewInv, ViewType
<1>7. (Projected /\ OneWriter /\ ComposerDue)'
  BY <1>1, <1>3, <1>6 DEF ViewInv, ViewType, Projected, OneWriter, ComposerDue, Unlanded
<1> QED BY <1>2, <1>5, <1>7 DEF ViewInv

(* What the thread decodes is no longer behind; what it does not decode, some other
   thread owes. *)
LEMMA ProjectKeepsInv == ASSUME ViewInv, NEW v \in Viewers, Project(v) PROVE ViewInv'
<1> DEFINE dirty == taken[v]
<1>1. /\ UNCHANGED <<docEntry, docCommand, import, touched, marks, row, rowSeen, composer>>
      /\ doing[v] = "project" /\ doing' = [doing EXCEPT ![v] = "gate"]
      /\ taken' = [taken EXCEPT ![v] = {}]
      /\ slots' = Tracked(dirty)
      /\ ledger' = IF "commands" \in dirty THEN docCommand ELSE ledger
  BY DEF Project, docVars
<1>2. echoes' = Unlanded(ledger', slots') /\ snapshot'.entries = slots'
      /\ snapshot'.echoes = echoes'
  BY DEF Project
<1>3. ViewType'
  <2>1. slots' \in [Sends -> Nat]
    BY <1>1 DEF ViewInv, ViewType, Tracked
  <2>2. echoes' \in SUBSET Sends
    BY <1>2 DEF Unlanded
  <2> QED BY <1>1, <2>1, <2>2 DEF ViewInv, ViewType
<1>4. ASSUME NEW what, Owed(what), what \notin dirty PROVE Owed(what)'
  BY <1>1, <1>4 DEF Owed, ViewInv, ViewType
<1>5. DecodedTrue'
  <2> SUFFICES ASSUME NEW m \in Sends PROVE (slots'[m] > 0 => docEntry'[m] > 0)
                        /\ (slots'[m] # docEntry'[m] =>
                              Owed(IF slots[m] > 0 THEN m ELSE "list")')
    BY DEF DecodedTrue
  <2>1. slots'[m] = IF "list" \in dirty
                    THEN IF slots[m] > 0 /\ m \notin dirty THEN slots[m] ELSE docEntry[m]
                    ELSE IF m \in dirty /\ slots[m] > 0 THEN docEntry[m] ELSE slots[m]
    BY <1>1 DEF Tracked
  <2>2. slots[m] \in Nat /\ docEntry[m] \in Nat /\ (slots[m] > 0 => docEntry[m] > 0)
    BY DEF ViewInv, ViewType, DecodedTrue
  <2>3. slots'[m] > 0 => docEntry'[m] > 0
    BY <1>1, <2>1, <2>2
  <2>4. ASSUME slots'[m] # docEntry'[m]
        PROVE  Owed(IF slots[m] > 0 THEN m ELSE "list")'
    <3>1. slots'[m] = slots[m] /\ slots[m] # docEntry[m]
      BY <1>1, <2>1, <2>4
    <3>2. PICK what : what = IF slots[m] > 0 THEN m ELSE "list"
      OBVIOUS
    <3>3. what \notin dirty
      BY <3>1, <3>2, <2>1, <2>2
    <3>4. Owed(what)
      BY <3>1, <3>2 DEF ViewInv, DecodedTrue
    <3>5. Owed(what)'
      BY <3>3, <3>4, <1>4
    <3> QED BY <3>1, <3>2, <3>5 DEF Owed
  <2> QED BY <2>3, <2>4
<1>6. Recorded'
  <2>1. CASE "commands" \in dirty
    BY <2>1, <1>1 DEF Recorded, ViewInv, ViewType
  <2>2. CASE "commands" \notin dirty
    BY <2>2, <1>1, <1>4 DEF Recorded, ViewInv
  <2> QED BY <2>1, <2>2
<1>7. Projected'
  BY <1>2 DEF Projected, Unlanded
<1>8. Coming'
  BY <1>1 DEF Coming, ViewInv, ViewType
<1>9. (OneWriter /\ ComposerDue)'
  BY <1>1, <1>8 DEF ViewInv, ViewType, OneWriter, ComposerDue
<1> QED BY <1>3, <1>5, <1>6, <1>7, <1>9 DEF ViewInv

(* One thread at a time reads the inputs and publishes them, so the last to
   publish has read the last row. *)
LEMMA PublishKeepsInv ==
  ASSUME ViewInv, NEW v \in Viewers, ReadInputs(v) \/ PublishComposer(v)
  PROVE  ViewInv'
<1>1. /\ UNCHANGED <<docEntry, docCommand, import, touched, marks, row, taken, slots, ledger,
                     echoes, snapshot>>
      /\ doing[v] \notin {"row", "project"} /\ doing'[v] \notin {"row", "project"}
      /\ \A u \in Viewers \ {v} : doing'[u] = doing[u]
  BY DEF ReadInputs, PublishComposer, coreVars, docVars, ViewInv, ViewType
<1>2. ViewType'
  BY <1>1 DEF ViewInv, ViewType, ReadInputs, PublishComposer, coreVars
<1>3. ASSUME NEW what, Owed(what) PROVE Owed(what)'
  BY <1>1, <1>3 DEF Owed
<1>4. (DecodedTrue /\ Recorded)'
  BY <1>1, <1>3 DEF ViewInv, DecodedTrue, Recorded
<1>5. Projected'
  BY <1>1 DEF ViewInv, Projected, Unlanded
<1>6. CASE ReadInputs(v)
  <2>1. /\ \A u \in Viewers : doing[u] # "publish"
        /\ doing' = [doing EXCEPT ![v] = "publish"] /\ rowSeen' = [rowSeen EXCEPT ![v] = row]
        /\ composer' = composer
    BY <1>6 DEF ReadInputs, MayRecompute, coreVars
  <2>2. (OneWriter /\ ComposerDue)'
    BY <1>1, <2>1 DEF ViewInv, ViewType, OneWriter, ComposerDue, Publishing
  <2> QED BY <1>2, <1>4, <1>5, <2>2 DEF ViewInv
<1>7. CASE PublishComposer(v)
  <2>1. /\ doing[v] = "publish" /\ doing' = [doing EXCEPT ![v] = "idle"]
        /\ rowSeen' = rowSeen
        /\ composer'.busy = rowSeen[v] /\ composer'.pending = echoes
    BY <1>7 DEF PublishComposer
  <2>2. Coming => Coming'
    BY <2>1 DEF Coming, ViewInv, ViewType
  <2>3. (OneWriter /\ ComposerDue)'
    BY <1>1, <2>1, <2>2 DEF ViewInv, ViewType, OneWriter, ComposerDue
  <2> QED BY <1>2, <1>4, <1>5, <2>3 DEF ViewInv
<1> QED BY <1>6, <1>7

(* Every step, and a step that changes nothing. *)
LEMMA ViewInvStep == ViewInv /\ [ViewNext]_viewVars => ViewInv'
<1> SUFFICES ASSUME ViewInv, [ViewNext]_viewVars PROVE ViewInv'
  OBVIOUS
<1>1. CASE UNCHANGED viewVars
  BY <1>1 DEF viewVars, docVars, coreVars, ViewInv, ViewType, DecodedTrue, Recorded, Projected,
     OneWriter, ComposerDue, Owed, Coming, Publishing, Unlanded
<1>2. CASE Import
  BY <1>2, ImportKeepsInv
<1>3. CASE Observe \/ ScheduleRefresh \/ FrameWakes
  BY <1>3, MarkingKeepsInv
<1>4. ASSUME NEW v \in Viewers, RowChanges(v) \/ \E m \in Sends : WriteCommand(v, m)
      PROVE  ViewInv'
  BY <1>4, SettingOutKeepsInv
<1>5. ASSUME NEW v \in Viewers, TakeMarks(v) \/ ReadRow(v) PROVE ViewInv'
  BY <1>5, TakeMarksKeepsInv
<1>6. ASSUME NEW v \in Viewers, Project(v) PROVE ViewInv'
  BY <1>6, ProjectKeepsInv
<1>7. ASSUME NEW v \in Viewers, ReadInputs(v) \/ PublishComposer(v) PROVE ViewInv'
  BY <1>7, PublishKeepsInv
<1> QED BY <1>1, <1>2, <1>3, <1>4, <1>5, <1>6, <1>7 DEF ViewNext

LEMMA ViewInvHolds == ViewSpec => []ViewInv
  BY ViewInvInit, ViewInvStep, PTL DEF ViewSpec

------------------------------------------------------------------------------
(* With no import under way, no marks and every thread idle nothing is owed. *)
LEMMA InvSettles == ViewInv => ViewSettles
<1> SUFFICES ASSUME ViewInv, AtRest PROVE ViewSettles
  BY DEF ViewSettles
<1>1. \A what : ~Owed(what)
  BY DEF AtRest, Owed
<1>2. ~Coming /\ ~Publishing
  BY DEF AtRest, Coming, Publishing
<1>3. slots = docEntry
  BY <1>1 DEF ViewInv, ViewType, DecodedTrue
<1>4. ledger = docCommand
  BY <1>1 DEF ViewInv, Recorded
<1>5. composer = [busy |-> row, pending |-> echoes]
  BY <1>2 DEF ViewInv, ViewType, ComposerDue
<1> QED BY <1>3, <1>4, <1>5 DEF ViewInv, Projected, ViewSettles

(* SessionView.ViewSettles (client/src/session/mod.rs: refresh and
   recompute_composer): once nothing is under way the transcript, the echoes and
   the composer show the document and the host's row as they are, whichever
   thread took which marks and whichever published last. *)
THEOREM ViewSettlesAlways == ViewSpec => []ViewSettles
  BY ViewInvHolds, InvSettles, PTL

(* Only a projection changes the snapshot; a slot that is filled stays filled, and
   a command once in the ledger stays in it, so what was shown still is. *)
LEMMA ShownStays ==
  ViewInv /\ [ViewNext]_viewVars =>
    [/\ Shown(snapshot) \subseteq Shown(snapshot')
     /\ \A m \in snapshot'.echoes : snapshot'.entries[m] = 0]_viewVars
<1> SUFFICES ASSUME ViewInv, ViewNext
             PROVE  /\ Shown(snapshot) \subseteq Shown(snapshot')
                    /\ \A m \in snapshot'.echoes : snapshot'.entries[m] = 0
  OBVIOUS
<1>1. ViewInv'
  BY ViewInvStep
<1>2. \A m \in snapshot'.echoes : snapshot'.entries[m] = 0
  BY <1>1 DEF ViewInv, Projected, Unlanded
<1>3. CASE snapshot' = snapshot
  BY <1>2, <1>3
<1>4. ASSUME NEW v \in Viewers, Project(v) PROVE Shown(snapshot) \subseteq Shown(snapshot')
  <2> SUFFICES ASSUME NEW m \in Sends, m \in snapshot.echoes \/ snapshot.entries[m] > 0
               PROVE  m \in snapshot'.echoes \/ snapshot'.entries[m] > 0
    BY DEF Shown
  <2>1. slots' = Tracked(taken[v])
        /\ ledger' = (IF "commands" \in taken[v] THEN docCommand ELSE ledger)
    BY <1>4 DEF Project
  <2>2. slots[m] > 0 => slots'[m] > 0
    BY <2>1 DEF Tracked, ViewInv, ViewType, DecodedTrue
  <2>3. ledger[m] # "none" => ledger'[m] # "none"
    BY <2>1 DEF ViewInv, Recorded
  <2>4. slots'[m] \in Nat
    BY <1>1 DEF ViewInv, ViewType
  <2> QED BY <2>2, <2>3, <2>4, <1>1 DEF ViewInv, Projected, Unlanded
<1>5. snapshot' = snapshot \/ \E v \in Viewers : Project(v)
  BY DEF ViewNext, Import, Observe, ScheduleRefresh, FrameWakes, WriteCommand, RowChanges,
     TakeMarks, ReadRow, ReadInputs, PublishComposer, coreVars
<1> QED BY <1>2, <1>3, <1>4, <1>5

(* SessionView.EchoKept (derive_pending): a message once shown stays shown, as an
   echo until its entry is there and as the entry from then on, never as both. *)
THEOREM ViewEchoKept == ViewSpec => EchoKept
  BY ViewInvHolds, ShownStays, PTL DEF ViewSpec, EchoKept

-----------------------------------------------------------------------------
(***************************************************************************)
(* What Drafts promises, for any number of sessions and of texts typed.    *)
(*                                                                         *)
(* No text is lost only because each is in one place: under one key, with  *)
(* the message under way under the key it is sent from and no other.  A    *)
(* draft in memory while the file is read belongs to a key the user has    *)
(* edited, so the file read wins no race against it.                       *)
(***************************************************************************)

Slot == {Nil} \cup Nat
Texts == [Keys -> Slot]

DraftType ==
  /\ {drafts, loaded, stored} \subseteq Texts
  /\ saveTask = NoSave \/ saveTask = drafts
  /\ edited \subseteq Keys /\ selected \in Keys
  /\ phase \in {"away", "loading", "ready", "leaving"}
  /\ saveAfter \in BOOLEAN /\ exists \in BOOLEAN /\ unsaved \in BOOLEAN
  /\ typed \in Nat /\ live \subseteq Nat
  /\ sending \in [at : {"idle", "create", "open", "send"}, key : Keys, text : Nat,
                  same : BOOLEAN]

(* Every text was typed, and is under one key. *)
Once(ds) ==
  /\ \A k \in Keys : ds[k] <= typed
  /\ \A j, k \in Keys : ds[j] = ds[k] /\ ds[j] \notin {Nil, Empty} => j = k
AllOnce == Once(drafts) /\ Once(loaded) /\ Once(stored)

(* Nothing is under the key of a session that does not exist. *)
NotYet == ~exists =>
  /\ drafts[Created] = Nil /\ loaded[Created] = Nil /\ stored[Created] = Nil
  /\ selected # Created

(* The message under way is nowhere but under its own key. *)
SendHonest == sending # Idle =>
  /\ phase # "away" /\ sending.at # "idle"
  /\ sending.text \in 1..typed
  /\ \A k \in Keys \ {sending.key} : drafts[k] # sending.text
  /\ sending.at = "create" => ~exists /\ sending.key = "new" /\ drafts["new"] # Nil
  /\ sending.at # "create" => sending.key # "new"

LoadHonest == phase = "loading" =>
  /\ loaded = stored /\ saveTask = NoSave
  /\ \A k \in Keys : drafts[k] # Nil => k \in edited
  /\ ~saveAfter => edited = {}
  /\ TextsOf(drafts) \cap TextsOf(loaded) = {}
  /\ sending # Idle => sending.text \notin TextsOf(loaded)
  /\ TextsOf(drafts) \cup TextsOf(loaded) \subseteq live \cup revived

AwayHonest == phase = "away" =>
  /\ drafts = NoDrafts /\ edited = {} /\ saveTask = NoSave /\ ~saveAfter
  /\ TextsOf(stored) \subseteq live \cup revived

DraftInv ==
  /\ DraftType /\ AllOnce /\ NotYet /\ SendHonest /\ LoadHonest /\ AwayHonest
  /\ DraftsKept

(* Coming back starts from no draft at all, so only the file matters. *)
LEMMA ArriveKeeps == ASSUME DraftInv, Arrive PROVE DraftInv'
<1> USE DraftsAssumption DEF DraftInv, Arrive, Idle, NoDrafts, NoSave, Nil, Empty
<1>1. DraftType'
  BY DEF DraftType
<1>2. AllOnce'
  BY DEF AllOnce, Once
<1>3. NotYet'
  BY DEF NotYet
<1>4. SendHonest'
  BY DEF SendHonest
<1>5. LoadHonest'
  BY DEF SendHonest, LoadHonest, AwayHonest, TextsOf
<1>6. AwayHonest'
  BY DEF AwayHonest
<1>7. DraftsKept'
  BY DEF DraftsKept
<1> QED BY <1>1, <1>2, <1>3, <1>4, <1>5, <1>6, <1>7

(* The file read is merged under the drafts typed meanwhile: a text goes only where
   the user has typed or emptied the box since. *)
LEMMA LoadEndsKeeps == ASSUME DraftInv, LoadEnds PROVE DraftInv'
<1> USE DraftsAssumption DEF DraftInv, LoadEnds, Merged, Restored, Idle, NoDrafts, NoSave, Nil, Empty
<1>1. DraftType'
  <2>1. drafts' \in Texts
    BY DEF DraftType, Texts
  <2>2. saveTask' = NoSave \/ saveTask' = drafts'
    BY DEF LoadHonest
  <2> QED BY <2>1, <2>2 DEF DraftType, Texts, Slot
<1>2. AllOnce'
  BY DEF AllOnce, Once, DraftType, LoadHonest, TextsOf
<1>3. NotYet'
  BY DEF NotYet
<1>4. SendHonest'
  BY DEF SendHonest, LoadHonest, TextsOf
<1>5. LoadHonest'
  BY DEF LoadHonest
<1>6. AwayHonest'
  BY DEF AwayHonest
<1>7. DraftsKept'
  <2>1. ASSUME NEW t \in live' PROVE t \in TextsOf(drafts')
    <3>1. t \in TextsOf(drafts) \cup TextsOf(loaded) /\ \A k \in edited : loaded[k] # t
      BY <2>1 DEF DraftsKept
    <3>2. CASE t \in TextsOf(drafts)
      BY <3>2 DEF TextsOf, LoadHonest
    <3>3. CASE t \in TextsOf(loaded)
      BY <3>1, <3>3 DEF TextsOf
    <3> QED BY <3>1, <3>2, <3>3
  <2>2. ASSUME NEW t \in TextsOf(drafts') PROVE t \in live' \cup revived'
    <3>1. PICK k \in Keys : t = drafts'[k] /\ t \notin {Nil, Empty}
      BY <2>2 DEF TextsOf
    <3>2. CASE k \in edited
      BY <3>1, <3>2 DEF TextsOf, LoadHonest, DraftType
    <3>3. CASE k \notin edited
      BY <3>1, <3>3 DEF TextsOf, LoadHonest, DraftType, AllOnce, Once
    <3> QED BY <3>2, <3>3
  <2>3. saveTask' = NoSave => stored' = drafts'
    BY DEF LoadHonest, DraftType, Texts, Slot
  <2> QED BY <2>1, <2>2, <2>3 DEF DraftsKept
<1> QED BY <1>1, <1>2, <1>3, <1>4, <1>5, <1>6, <1>7

(* A file that cannot be read is taken for none, with what is in memory kept. *)
LEMMA LoadFailsKeeps == ASSUME DraftInv, LoadFails PROVE DraftInv'
<1> USE DraftsAssumption DEF DraftInv, LoadFails, Restored, Use, Idle, NoDrafts, NoSave, Nil, Empty
<1>1. DraftType'
  BY DEF Texts, Slot, DraftType, LoadHonest
<1>2. AllOnce'
  BY DEF AllOnce, Once, DraftType
<1>3. NotYet'
  BY DEF NotYet
<1>4. SendHonest'
  BY DEF SendHonest
<1>5. LoadHonest'
  BY DEF LoadHonest
<1>6. AwayHonest'
  BY DEF AwayHonest
<1>7. DraftsKept'
  BY DEF LoadHonest, DraftsKept
<1> QED BY <1>1, <1>2, <1>3, <1>4, <1>5, <1>6, <1>7

(* A save writes the drafts as they were when it was scheduled, which they still are. *)
LEMMA SaveKeeps == ASSUME DraftInv, Save PROVE DraftInv'
<1> USE DraftsAssumption DEF DraftInv, Save, Use, Idle, NoDrafts, NoSave, Nil, Empty
<1>1. DraftType'
  BY DEF DraftType
<1>2. AllOnce'
  BY DEF AllOnce, Once, DraftType
<1>3. NotYet'
  BY DEF NotYet, DraftType
<1>4. SendHonest'
  BY DEF SendHonest
<1>5. LoadHonest'
  BY DEF LoadHonest
<1>6. AwayHonest'
  BY DEF AwayHonest
<1>7. DraftsKept'
  BY DEF DraftType, AwayHonest, DraftsKept
<1> QED BY <1>1, <1>2, <1>3, <1>4, <1>5, <1>6, <1>7

(* Typing replaces the text under the selected key by one never used before. *)
LEMMA TypeKeeps == ASSUME DraftInv, Type PROVE DraftInv'
<1> USE DraftsAssumption DEF DraftInv, Here, Type, Put, Schedule, Idle, NoDrafts, NoSave, Nil, Empty
<1>1. DraftType'
  <2>1. PICK text \in {Empty, typed + 1} :
          /\ drafts' = [drafts EXCEPT ![selected] = text]
          /\ typed' = (IF text = Empty THEN typed ELSE text)
          /\ live' = (live \ {drafts[selected]}) \cup ({text} \ {Empty})
    OBVIOUS
  <2>2. drafts' \in Texts /\ typed' \in Nat /\ live' \subseteq Nat
    BY <2>1 DEF DraftType, Texts, Slot
  <2>3. saveTask' = NoSave \/ saveTask' = drafts'
    BY DEF LoadHonest
  <2> QED BY <2>2, <2>3 DEF DraftType
<1>2. AllOnce'
  BY DEF AllOnce, Once, DraftType, Texts, Slot
<1>3. NotYet'
  BY DEF NotYet
<1>4. SendHonest'
  BY DEF DraftType, SendHonest
<1>5. LoadHonest'
  BY DEF DraftType, Texts, AllOnce, Once, LoadHonest, AwayHonest, TextsOf
<1>6. AwayHonest'
  BY DEF AwayHonest
<1>7. DraftsKept'
  <2>1. PICK text \in {Empty, typed + 1} :
          /\ drafts' = [drafts EXCEPT ![selected] = text]
          /\ live' = (live \ {drafts[selected]}) \cup ({text} \ {Empty})
    OBVIOUS
  <2>2. TextsOf(drafts) \ {drafts[selected]} \subseteq TextsOf(drafts')
    BY <2>1 DEF TextsOf
  <2>3. {text} \ {0} \subseteq TextsOf(drafts')
    BY <2>1 DEF DraftType, TextsOf, Texts
  <2>4. TextsOf(drafts') \subseteq (TextsOf(drafts) \ {drafts[selected]}) \cup ({text} \ {0})
    BY <2>1 DEF DraftType, TextsOf, Texts, AllOnce, Once
  <2>5. phase = "ready" => saveTask' = drafts' /\ saveTask' # NoSave
    BY <2>1 DEF DraftType
  <2>6. (phase = "ready" => live' \subseteq TextsOf(drafts')
                             /\ TextsOf(drafts') \subseteq live' \cup revived')
    BY <2>2, <2>3, <2>4, <2>1 DEF DraftsKept
  <2>7. phase = "loading" => live' \subseteq TextsOf(drafts') \cup TextsOf(loaded')
    BY <2>2, <2>3, <2>1 DEF DraftsKept
  <2> QED BY <2>5, <2>6, <2>7 DEF DraftsKept
<1> QED BY <1>1, <1>2, <1>3, <1>4, <1>5, <1>6, <1>7

(* Selecting a session moves no text. *)
LEMMA OpenKeeps == ASSUME DraftInv, NEW k \in Keys, Open(k) PROVE DraftInv'
<1> USE DraftsAssumption DEF DraftInv, Here, Open, Idle, NoDrafts, NoSave, Nil, Empty
<1>1. DraftType'
  BY DEF DraftType
<1>2. AllOnce'
  BY DEF AllOnce, Once
<1>3. NotYet'
  BY DEF NotYet
<1>4. SendHonest'
  BY DEF SendHonest
<1>5. LoadHonest'
  BY DEF LoadHonest
<1>6. AwayHonest'
  BY DEF AwayHonest
<1>7. DraftsKept'
  BY DEF DraftsKept
<1> QED BY <1>1, <1>2, <1>3, <1>4, <1>5, <1>6, <1>7

(* What is sent stays a draft until it has been sent. *)
LEMMA SendStartsKeeps == ASSUME DraftInv, SendStarts PROVE DraftInv'
<1> USE DraftsAssumption DEF DraftInv, Here, SendStarts, Idle, NoDrafts, NoSave, Nil, Empty
<1>1. DraftType'
  BY DEF Texts, Slot, DraftType
<1>2. AllOnce'
  BY DEF AllOnce, Once
<1>3. NotYet'
  BY DEF NotYet
<1>4. SendHonest'
  BY DEF DraftType, Texts, Slot, AllOnce, Once, SendHonest
<1>5. LoadHonest'
  <2>1. sending'.text \in TextsOf(drafts)
    BY DEF DraftType, TextsOf
  <2> QED BY <2>1 DEF LoadHonest
<1>6. AwayHonest'
  BY DEF AwayHonest
<1>7. DraftsKept'
  BY DEF DraftsKept
<1> QED BY <1>1, <1>2, <1>3, <1>4, <1>5, <1>6, <1>7

(* The text of the message that creates a session moves to the session's key, unless
   the box was changed meanwhile: then it is under no key twice. *)
LEMMA SessionCreatedKeeps == ASSUME DraftInv, SessionCreated PROVE DraftInv'
<1> USE DraftsAssumption DEF DraftInv, SessionCreated, Moved, Schedule, Idle, NoDrafts, NoSave, Nil, Empty
<1>1. DraftType'
  <2>1. drafts' \in Texts
    BY DEF DraftType, Texts, Slot
  <2>2. saveTask' = NoSave \/ saveTask' = drafts'
    BY DEF LoadHonest
  <2>3. sending' \in [at : {"idle", "create", "open", "send"}, key : Keys, text : Nat,
                      same : BOOLEAN]
    BY DEF DraftType
  <2> QED BY <2>1, <2>2, <2>3 DEF DraftType
<1>2. AllOnce'
  BY DEF AllOnce, Once, DraftType, Texts, SendHonest
<1>3. NotYet'
  BY DEF NotYet
<1>4. SendHonest'
  BY DEF DraftType, Texts, SendHonest
<1>5. LoadHonest'
  <2>1. TextsOf(drafts') \subseteq TextsOf(drafts) \cup {sending.text}
    BY DEF DraftType, TextsOf, Texts
  <2>2. phase = "loading" => sending.text \notin TextsOf(loaded)
    BY DEF LoadHonest
  <2>3. TextsOf(drafts') \subseteq live' \cup TextsOf(drafts)
    BY <2>1 DEF DraftType, TextsOf, Texts, SendHonest
  <2> QED BY <2>1, <2>2, <2>3 DEF LoadHonest, DraftType, Texts
<1>6. AwayHonest'
  BY DEF SendHonest, AwayHonest
<1>7. DraftsKept'
  BY DEF DraftType, Texts, NotYet, SendHonest, TextsOf, DraftsKept
<1> QED BY <1>1, <1>2, <1>3, <1>4, <1>5, <1>6, <1>7

(* Opening the session created goes on to the send. *)
LEMMA SessionOpenedKeeps == ASSUME DraftInv, SessionOpened PROVE DraftInv'
<1> USE DraftsAssumption DEF DraftInv, SessionOpened, Idle, NoDrafts, NoSave, Nil, Empty
<1>1. DraftType'
  BY DEF DraftType
<1>2. AllOnce'
  BY DEF AllOnce, Once
<1>3. NotYet'
  BY DEF NotYet
<1>4. SendHonest'
  BY DEF SendHonest
<1>5. LoadHonest'
  BY DEF LoadHonest
<1>6. AwayHonest'
  BY DEF AwayHonest
<1>7. DraftsKept'
  BY DEF DraftsKept
<1> QED BY <1>1, <1>2, <1>3, <1>4, <1>5, <1>6, <1>7

(* A message sent takes its own text off its own key, and no other text. *)
LEMMA SentKeeps == ASSUME DraftInv, Sent PROVE DraftInv'
<1> USE DraftsAssumption DEF DraftInv, Sent, Cleared, Put, Schedule, Idle, NoDrafts, NoSave, Nil, Empty
<1>1. DraftType'
  BY DEF Texts, Slot, DraftType, LoadHonest
<1>2. AllOnce'
  BY DEF AllOnce, Once, DraftType
<1>3. NotYet'
  BY DEF NotYet
<1>4. SendHonest'
  BY DEF SendHonest
<1>5. LoadHonest'
  BY DEF DraftType, Texts, SendHonest, LoadHonest, TextsOf
<1>6. AwayHonest'
  BY DEF SendHonest, AwayHonest
<1>7. DraftsKept'
  <2>1. TextsOf(drafts) \ {sending.text} \subseteq TextsOf(drafts')
    BY DEF TextsOf
  <2>2. TextsOf(drafts') \subseteq TextsOf(drafts) \ {sending.text}
    BY DEF DraftType, TextsOf, Texts, SendHonest
  <2>3. phase = "ready" => saveTask' = drafts' /\ saveTask' # NoSave
    BY DEF DraftType, Texts, Slot
  <2>4. phase = "ready" => live' \subseteq TextsOf(drafts')
                            /\ TextsOf(drafts') \subseteq live' \cup revived'
    BY <2>1, <2>2 DEF DraftsKept
  <2>5. phase = "loading" => live' \subseteq TextsOf(drafts') \cup TextsOf(loaded')
    BY <2>1 DEF DraftsKept
  <2> QED BY <2>3, <2>4, <2>5 DEF DraftsKept
<1> QED BY <1>1, <1>2, <1>3, <1>4, <1>5, <1>6, <1>7

(* A failed send leaves the draft. *)
LEMMA SendFailsKeeps == ASSUME DraftInv, SendFails PROVE DraftInv'
<1> USE DraftsAssumption DEF DraftInv, SendFails, Use, Idle, NoDrafts, NoSave, Nil, Empty
<1>1. DraftType'
  BY DEF DraftType
<1>2. AllOnce'
  BY DEF AllOnce, Once
<1>3. NotYet'
  BY DEF NotYet
<1>4. SendHonest'
  BY DEF SendHonest
<1>5. LoadHonest'
  BY DEF LoadHonest
<1>6. AwayHonest'
  BY DEF AwayHonest
<1>7. DraftsKept'
  BY DEF DraftsKept
<1> QED BY <1>1, <1>2, <1>3, <1>4, <1>5, <1>6, <1>7

(* Switching accounts saves first: the file then holds the drafts there are. *)
LEMMA SwitchSavesKeeps == ASSUME DraftInv, SwitchSaves PROVE DraftInv'
<1> USE DraftsAssumption DEF DraftInv, SwitchSaves, Here, Use, Idle, NoDrafts, NoSave, Nil, Empty
<1>1. DraftType'
  BY DEF Texts, Slot, DraftType
<1>2. AllOnce'
  BY DEF AllOnce, Once, DraftType
<1>3. NotYet'
  BY DEF NotYet
<1>4. SendHonest'
  BY DEF SendHonest
<1>5. LoadHonest'
  BY DEF LoadHonest
<1>6. AwayHonest'
  BY DEF AwayHonest
<1>7. DraftsKept'
  BY DEF DraftsKept
<1> QED BY <1>1, <1>2, <1>3, <1>4, <1>5, <1>6, <1>7

(* What is left behind is in the file that was saved. *)
LEMMA SwitchAwayKeeps == ASSUME DraftInv, SwitchAway PROVE DraftInv'
<1> USE DraftsAssumption DEF DraftInv, SwitchAway, Reset, Idle, NoDrafts, NoSave, Nil, Empty
<1>1. DraftType'
  BY DEF Texts, Slot, DraftType
<1>2. AllOnce'
  BY DEF AllOnce, Once, DraftType
<1>3. NotYet'
  BY DEF NotYet
<1>4. SendHonest'
  BY DEF SendHonest
<1>5. LoadHonest'
  BY DEF LoadHonest
<1>6. AwayHonest'
  BY DEF AwayHonest
<1>7. DraftsKept'
  BY DEF DraftsKept
<1> QED BY <1>1, <1>2, <1>3, <1>4, <1>5, <1>6, <1>7

(* Signing out leaves no text at all. *)
LEMMA DisconnectKeeps == ASSUME DraftInv, Disconnect PROVE DraftInv'
<1> USE DraftsAssumption DEF DraftInv, Disconnect, Here, Use, Reset, Idle, NoDrafts, NoSave, Nil, Empty
<1>1. DraftType'
  BY DEF Texts, Slot, DraftType
<1>2. AllOnce'
  BY DEF AllOnce, Once, DraftType
<1>3. NotYet'
  BY DEF NotYet
<1>4. SendHonest'
  BY DEF SendHonest
<1>5. LoadHonest'
  BY DEF LoadHonest
<1>6. AwayHonest'
  BY DEF AwayHonest
<1>7. DraftsKept'
  BY DEF DraftsKept
<1> QED BY <1>1, <1>2, <1>3, <1>4, <1>5, <1>6, <1>7

(* An account that is cut off leaves the file as the last save left it. *)
LEMMA CutOffKeeps == ASSUME DraftInv, CutOff PROVE DraftInv'
<1> USE DraftsAssumption DEF DraftInv, CutOff, Use, Reset, Idle, NoDrafts, NoSave, Nil, Empty
<1>1. DraftType'
  BY DEF Texts, Slot, DraftType
<1>2. AllOnce'
  BY DEF AllOnce, Once, DraftType
<1>3. NotYet'
  BY DEF NotYet
<1>4. SendHonest'
  BY DEF SendHonest
<1>5. LoadHonest'
  BY DEF LoadHonest
<1>6. AwayHonest'
  BY DEF AwayHonest
<1>7. DraftsKept'
  BY DEF DraftsKept
<1> QED BY <1>1, <1>2, <1>3, <1>4, <1>5, <1>6, <1>7

------------------------------------------------------------------------------
(* No text exists at the start. *)
LEMMA DraftInvInit == DraftsInit => DraftInv
<1> SUFFICES ASSUME DraftsInit PROVE DraftInv
  OBVIOUS
<1> USE DraftsAssumption DEF DraftsInit, NoDrafts, Nil, Empty
<1>1. TextsOf(drafts) = {} /\ TextsOf(loaded) = {} /\ TextsOf(stored) = {}
  BY DEF TextsOf
<1>2. DraftType
  BY DEF DraftType, Texts, Slot, Idle
<1>3. AllOnce /\ NotYet
  BY DEF AllOnce, Once, NotYet
<1>4. SendHonest /\ LoadHonest /\ AwayHonest
  BY <1>1 DEF SendHonest, LoadHonest, AwayHonest
<1>5. DraftsKept
  BY <1>1 DEF DraftsKept
<1> QED BY <1>2, <1>3, <1>4, <1>5 DEF DraftInv

(* Each action keeps the invariant. *)
LEMMA DraftInvStep == DraftInv /\ [DraftsNext]_draftVars => DraftInv'
<1> SUFFICES ASSUME DraftInv, [DraftsNext]_draftVars PROVE DraftInv'
  OBVIOUS
<1>1. CASE UNCHANGED draftVars
  BY <1>1 DEF draftVars, DraftInv, DraftType, AllOnce, Once, NotYet, SendHonest, LoadHonest,
     AwayHonest, DraftsKept
<1>2. ASSUME NEW k \in Keys, Open(k) PROVE DraftInv'
  BY <1>2, OpenKeeps
<1>3. CASE Arrive \/ LoadEnds \/ LoadFails \/ Save
  BY <1>3, ArriveKeeps, LoadEndsKeeps, LoadFailsKeeps, SaveKeeps
<1>4. CASE Type \/ SendStarts \/ SessionCreated \/ SessionOpened \/ Sent \/ SendFails
  BY <1>4, TypeKeeps, SendStartsKeeps, SessionCreatedKeeps, SessionOpenedKeeps, SentKeeps,
     SendFailsKeeps
<1>5. CASE SwitchSaves \/ SwitchAway \/ Disconnect \/ CutOff
  BY <1>5, SwitchSavesKeeps, SwitchAwayKeeps, DisconnectKeeps, CutOffKeeps
<1> QED BY <1>1, <1>2, <1>3, <1>4, <1>5 DEF DraftsNext

(* Drafts.DraftsKept (AppModel.swift): wherever the user goes while the drafts are
   read, a session is created or a message is sent, each text the user left is
   under some key, no text that was sent or typed over comes back unless an account
   ended with it on disk, and once no save is due the file holds the drafts. *)
THEOREM DraftsKeptAlways == DraftsSpec => []DraftsKept
<1>1. DraftInv => DraftsKept
  BY DEF DraftInv
<1> QED BY <1>1, DraftInvInit, DraftInvStep, PTL DEF DraftsSpec

-----------------------------------------------------------------------------
(***************************************************************************)
(* Accounts, for any set of people, sessions, cores and callers and every  *)
(* bound on what goes wrong: no record holds another account's pair, and   *)
(* the service refuses a pair only if a later one was lost.                *)
(*                                                                         *)
(* A pair that is not the last one issued is refused.  So the invariant    *)
(* says where the last pair of a session can be: with the core in use,     *)
(* which rotates under its gate and reports in order; and from there in    *)
(* the records, as soon as nothing is under way.  Whatever ends the use of *)
(* a core that is not at rest gives its session up for lost.               *)
(***************************************************************************)

PairType == [login : Logins \cup {0}, turn : Nat]
RecordType == [who : People \cup {Nobody}, pair : PairType]
AskType == [at : {"idle", "waits", "asked", "rotated", "refused"}, pair : PairType]
EventType == [type : {"refreshed", "expired"}, pair : PairType]
CoreType ==
  [who : People \cup {Nobody}, pair : PairType, live : BOOLEAN, heard : BOOLEAN,
   expired : BOOLEAN, gate : Callers \cup {Nobody}, asks : [Callers -> AskType],
   events : Seq(EventType)]
OperationType ==
  [kind : {"rest", "open", "switch", "scope", "leave"}, to : RecordType, prev : RecordType,
   heard : BOOLEAN]

AccountsTypeInv ==
  /\ issued \in [Logins -> Nat] /\ owner \in [Logins -> People \cup {Nobody}]
  /\ keychain \in [active : People \cup {Nobody}, pairs : [People -> PairType]]
  /\ known \in [People -> PairType] /\ account \in RecordType
  /\ client \in Cores \cup {NoCore} /\ operation \in OperationType
  /\ launched \in BOOLEAN /\ coreOf \in [Cores -> CoreType]
  /\ gone \subseteq People

(* Pair p is of a session that was begun, and for account a.               *)
Owned(p, a, is, ow) ==
  p # NoPair => p.login \in Logins /\ is[p.login] > 0 /\ ow[p.login] = a

(* One refresh at a time, with the pair the core has.                      *)
OwnAsks(core) == \A k \in Callers :
  /\ core.asks[k].at # "idle" => core.pair # NoPair
  /\ core.asks[k].at \in {"asked", "rotated", "refused"} =>
       core.gate = k /\ core.asks[k].pair.login = core.pair.login
  /\ core.asks[k].at = "asked" => core.asks[k].pair = core.pair

(* The last pair a core reports is the one it has.                         *)
Reports(core, i) == core.events[i].type = "refreshed"
OwnEvents(core) == \A i \in DOMAIN core.events :
  /\ core.events[i].pair.login = core.pair.login
  /\ Reports(core, i) => \/ core.events[i].pair = core.pair
                         \/ \E j \in DOMAIN core.events : j > i /\ Reports(core, j)

CoreTrue(core, is, ow) ==
  OwnAsks(core) /\ OwnEvents(core) /\ Owned(core.pair, core.who, is, ow)
CoresTrue == \A c \in Cores : CoreTrue(coreOf[c], issued, owner)

(* Whose core runs, and what an operation waits for.                       *)
PlacesTrue ==
  /\ \A c \in Cores : coreOf[c].live \/ coreOf[c].heard => c = client
  /\ client # NoCore =>
       /\ account # NoRecord /\ keychain.active = account.who
       /\ coreOf[client].live /\ coreOf[client].who = account.who
       /\ coreOf[client].pair # NoPair
  /\ account # NoRecord =>
       account.who \in People /\ account.pair # NoPair /\ known[account.who] # NoPair
  /\ operation.kind \in {"open", "switch"} =>
       /\ client = NoCore /\ account = operation.to /\ account # NoRecord
       /\ keychain.active = account.who
  /\ operation.kind = "switch" /\ operation.prev # NoRecord =>
       /\ operation.prev.who \in People /\ operation.prev.pair # NoPair
       /\ known[operation.prev.who] # NoPair
  /\ operation.kind \in {"scope", "leave"} => operation.to.who \in People
  /\ operation.kind \in {"rest", "scope"} =>
       operation.to.pair = NoPair /\ operation.prev.pair = NoPair
  /\ operation.kind = "leave" => \A c \in Cores : ~coreOf[c].heard
  /\ ~launched => account = NoRecord /\ operation = Rest
  /\ keychain.pairs # NoPairs =>
       keychain.active \in People /\ keychain.pairs[keychain.active] # NoPair

Holdings == {known[a] : a \in People} \cup {keychain.pairs[a] : a \in People}
              \cup {account.pair, operation.to.pair, operation.prev.pair}
RecordsTrue ==
  /\ \A a \in People :
       Owned(known[a], a, issued, owner) /\ Owned(keychain.pairs[a], a, issued, owner)
  /\ Owned(account.pair, account.who, issued, owner)
  /\ Owned(operation.to.pair, operation.to.who, issued, owner)
  /\ Owned(operation.prev.pair, operation.prev.who, issued, owner)
  /\ \A a \in gone : known[a] = NoPair /\ keychain.pairs[a] = NoPair

Rested(core) == core.events = <<>> /\ \A k \in Callers : core.asks[k].at = "idle"
(* A pair of the core's was issued that the records do not have.           *)
Rotates(core) == \E k \in Callers : core.asks[k].at = "rotated"
Owes(core) == Rotates(core) \/ \E i \in DOMAIN core.events : Reports(core, i)

(* The core in use has the last pair issued, or one of its tasks does.     *)
HasLast(core, now) ==
  /\ ~Rotates(core) => core.pair.turn = now
  /\ \A k \in Callers : core.asks[k].at = "rotated" => core.asks[k].pair.turn = now

StoppedLost == \A c \in Cores : c # client => Rested(coreOf[c]) \/ coreOf[c].pair.login \in lost
RefusedLost == \A c \in Cores, k \in Callers :
  coreOf[c].asks[k].at = "refused" => coreOf[c].asks[k].pair.login \in lost
ClientFresh == client # NoCore /\ coreOf[client].pair.login \notin lost =>
  HasLast(coreOf[client], issued[coreOf[client].pair.login])
RecordsFresh == \A p \in Holdings : p.login \in Logins \ lost =>
  \/ p.turn = issued[p.login]
  \/ client # NoCore /\ coreOf[client].pair.login = p.login /\ Owes(coreOf[client])
FreshTrue == StoppedLost /\ RefusedLost /\ ClientFresh /\ RecordsFresh /\ told \subseteq lost

AccountsInv == AccountsTypeInv /\ PlacesTrue /\ RecordsTrue /\ CoresTrue /\ FreshTrue

-----------------------------------------------------------------------------
(* Cores and pairs.                                                        *)

LEMMA NobodyIsNobody == Nobody \notin People /\ Nobody \notin Callers /\ NoCore \notin Cores
BY AccountsAssumption

LEMMA LoginsAreNumbers == Logins \subseteq Nat /\ 0 \notin Logins
<1>1. Cardinality(Logins) \in Nat
  BY AccountsAssumption, FS_CardinalityType
<1>. QED
  BY <1>1, AccountsAssumption

LEMMA NoPairType == NoPair \in PairType /\ NoPair.login = 0 /\ NoPair.turn = 0
BY DEF NoPair, PairType

LEMMA RecordIsRecord ==
  ASSUME NEW a \in People \cup {Nobody}, NEW p \in PairType
  PROVE  Record(a, p) \in RecordType /\ Record(a, p).who = a /\ Record(a, p).pair = p
BY DEF Record, RecordType

LEMMA NoRecordType ==
  /\ NoRecord \in RecordType /\ NoRecord.who = Nobody /\ NoRecord.pair = NoPair
  /\ Rest \in OperationType /\ Rest.kind = "rest" /\ Rest.to = NoRecord /\ Rest.prev = NoRecord
<1>1. NoRecord \in RecordType /\ NoRecord.who = Nobody /\ NoRecord.pair = NoPair
  BY RecordIsRecord, NoPairType DEF NoRecord
<1>. QED
  BY <1>1 DEF Rest, OperationType

LEMMA NotNoRecord ==
  ASSUME NEW a \in People, NEW p
  PROVE  Record(a, p) # NoRecord
BY NobodyIsNobody DEF Record, NoRecord

LEMMA BuiltCoreTrue ==
  ASSUME NEW a \in People \cup {Nobody}, NEW p \in PairType
  PROVE  /\ BuiltCore(a, p) \in CoreType /\ Rested(BuiltCore(a, p))
         /\ BuiltCore(a, p).who = a /\ BuiltCore(a, p).pair = p
         /\ BuiltCore(a, p).live /\ BuiltCore(a, p).heard
         /\ OwnAsks(BuiltCore(a, p)) /\ OwnEvents(BuiltCore(a, p))
<1>1. BuiltCore(a, p).asks \in [Callers -> AskType]
  BY NoPairType DEF BuiltCore, AskType
<1>2. BuiltCore(a, p) \in CoreType
  BY <1>1 DEF BuiltCore, CoreType
<1>. QED
  BY <1>2 DEF BuiltCore, Rested, OwnAsks, OwnEvents

LEMMA FreeCoreTrue ==
  /\ FreeCore \in CoreType /\ Rested(FreeCore) /\ OwnAsks(FreeCore) /\ OwnEvents(FreeCore)
  /\ FreeCore.who = Nobody /\ FreeCore.pair = NoPair /\ ~FreeCore.live /\ ~FreeCore.heard
<1>. DEFINE b == BuiltCore(Nobody, NoPair)
<1>1. b \in CoreType /\ Rested(b) /\ OwnAsks(b) /\ OwnEvents(b) /\ b.who = Nobody
      /\ b.pair = NoPair
  BY BuiltCoreTrue, NoPairType
<1>2. FreeCore = [b EXCEPT !.live = FALSE, !.heard = FALSE]
  BY DEF FreeCore
<1>. HIDE DEF b
<1>3. FreeCore \in CoreType /\ FreeCore.asks = b.asks /\ FreeCore.events = b.events
      /\ FreeCore.who = b.who /\ FreeCore.pair = b.pair /\ FreeCore.gate = b.gate
      /\ ~FreeCore.live /\ ~FreeCore.heard
  BY <1>1, <1>2 DEF CoreType
<1>. QED
  BY <1>1, <1>3 DEF Rested, OwnAsks, OwnEvents, Reports

LEMMA UnsettledIsNotResting ==
  ASSUME NEW c \in Cores
  PROVE  Unsettled(c) <=> ~Rested(coreOf[c])
BY DEF Unsettled, Rested

LEMMA AdriftIs ==
  ASSUME NEW c \in Cores, ~Rested(coreOf[c])
  PROVE  coreOf[c].pair.login \in Adrift
BY UnsettledIsNotResting DEF Adrift

(* A step may begin sessions and rotate them; what was issued stays.       *)
Later(is, ow, is2, ow2) == \A l \in Logins : is[l] > 0 => is2[l] > 0 /\ ow2[l] = ow[l]

LEMMA OwnedLater ==
  ASSUME NEW is, NEW ow, NEW is2, NEW ow2, Later(is, ow, is2, ow2), NEW p, NEW a,
         Owned(p, a, is, ow)
  PROVE  Owned(p, a, is2, ow2)
BY DEF Owned, Later

(* Two cores that differ in who listens to them only.                      *)
SameCore(a, b) == /\ b.who = a.who /\ b.pair = a.pair /\ b.gate = a.gate
                  /\ b.asks = a.asks /\ b.events = a.events

LEMMA SameCoreTrue ==
  ASSUME NEW a, NEW b, SameCore(a, b), NEW is, NEW ow
  PROVE  /\ CoreTrue(a, is, ow) => CoreTrue(b, is, ow)
         /\ Rested(b) <=> Rested(a)
BY DEF SameCore, CoreTrue, OwnAsks, OwnEvents, Reports, Rested

LEMMA UnheardCores ==
  ASSUME NEW cs \in [Cores -> CoreType]
  PROVE  /\ Unheard(cs) \in [Cores -> CoreType]
         /\ \A c \in Cores : /\ SameCore(cs[c], Unheard(cs)[c]) /\ ~Unheard(cs)[c].heard
                             /\ Unheard(cs)[c].live = cs[c].live
BY DEF Unheard, CoreType, SameCore

LEMMA StoppedCores ==
  ASSUME AccountsTypeInv, NEW cs \in [Cores -> CoreType], \A c \in Cores : cs[c].live => c = client
  PROVE  /\ Stopped(cs) \in [Cores -> CoreType]
         /\ \A c \in Cores : /\ SameCore(cs[c], Stopped(cs)[c])
                             /\ ~Stopped(cs)[c].live /\ ~Stopped(cs)[c].heard
<1>. DEFINE mid == IF client = NoCore THEN cs ELSE [cs EXCEPT ![client].live = FALSE]
<1>1. mid \in [Cores -> CoreType] /\ \A c \in Cores : SameCore(cs[c], mid[c]) /\ ~mid[c].live
  <2>1. CASE client = NoCore
    BY <2>1, NobodyIsNobody DEF SameCore, CoreType
  <2>2. CASE client # NoCore
    <3>1. client \in Cores /\ cs[client] \in CoreType
      BY <2>2 DEF AccountsTypeInv
    <3>. DEFINE new == [cs[client] EXCEPT !.live = FALSE]
    <3>2. new \in CoreType /\ SameCore(cs[client], new) /\ ~new.live
      BY <3>1 DEF CoreType, SameCore
    <3>3. mid = [cs EXCEPT ![client] = new]
      BY <2>2
    <3>. HIDE DEF new, mid
    <3>4. \A c \in Cores : c # client => mid[c] = cs[c]
      BY <3>3
    <3>. QED
      BY <3>1, <3>2, <3>3, <3>4 DEF CoreType, SameCore
  <2>. QED
    BY <2>1, <2>2
<1>2. Stopped(cs) = Unheard(mid)
  BY DEF Stopped
<1>. HIDE DEF mid
<1>3. Unheard(mid) \in [Cores -> CoreType]
      /\ \A c \in Cores : SameCore(mid[c], Unheard(mid)[c]) /\ ~Unheard(mid)[c].heard
                          /\ Unheard(mid)[c].live = mid[c].live
  BY <1>1, UnheardCores
<1>. QED
  BY <1>1, <1>2, <1>3 DEF SameCore

-----------------------------------------------------------------------------
(* A step of one core.                                                     *)

LEMMA ClientOwns ==
  ASSUME AccountsInv, client # NoCore
  PROVE  /\ client \in Cores /\ coreOf[client] \in CoreType
         /\ coreOf[client].pair.login \in Logins /\ account # NoRecord
         /\ issued[coreOf[client].pair.login] > 0
         /\ owner[coreOf[client].pair.login] = account.who
BY DEF AccountsInv, AccountsTypeInv, PlacesTrue, CoresTrue, CoreTrue, Owned

LEMMA CoreStep ==
  ASSUME AccountsInv, NEW c \in Cores, NEW new \in CoreType,
         coreOf' = [coreOf EXCEPT ![c] = new], UNCHANGED <<owner, peopleVars, gone>>,
         issued' \in [Logins -> Nat], Later(issued, owner, issued', owner),
         new.who = coreOf[c].who, new.live = coreOf[c].live, new.heard = coreOf[c].heard,
         coreOf[c].pair # NoPair => new.pair # NoPair, CoreTrue(new, issued, owner)
  PROVE  AccountsTypeInv' /\ PlacesTrue' /\ RecordsTrue' /\ CoresTrue'
<1>1. AccountsTypeInv'
  BY DEF AccountsInv, AccountsTypeInv, peopleVars
<1>2. \A d \in Cores : coreOf'[d] = IF d = c THEN new ELSE coreOf[d]
  BY DEF AccountsInv, AccountsTypeInv
<1>3. PlacesTrue'
  <2>1. UNCHANGED <<keychain, known, account, client, operation, launched>>
    BY DEF peopleVars
  <2>2. \A d \in Cores : /\ coreOf'[d].live = coreOf[d].live /\ coreOf'[d].heard = coreOf[d].heard
                         /\ coreOf'[d].who = coreOf[d].who
                         /\ coreOf[d].pair # NoPair => coreOf'[d].pair # NoPair
    BY <1>2
  <2>3. client # NoCore => client \in Cores
    BY DEF AccountsInv, AccountsTypeInv
  <2>. QED
    BY <2>1, <2>2, <2>3 DEF AccountsInv, PlacesTrue
<1>4. CoresTrue'
  <2>. SUFFICES ASSUME NEW d \in Cores  PROVE CoreTrue(coreOf'[d], issued', owner')
    BY DEF CoresTrue
  <2>1. CoreTrue(coreOf'[d], issued, owner)
    BY <1>2 DEF AccountsInv, CoresTrue
  <2>. QED
    BY <2>1, OwnedLater DEF CoreTrue
<1>5. RecordsTrue'
  <2>1. UNCHANGED <<keychain, known, account, operation>>
    BY DEF peopleVars
  <2>2. \A p, a : Owned(p, a, issued, owner) => Owned(p, a, issued', owner')
    BY OwnedLater
  <2>. QED
    BY <2>1, <2>2 DEF AccountsInv, RecordsTrue
<1>. QED
  BY <1>1, <1>3, <1>4, <1>5

LEMMA CoreStepFresh ==
  ASSUME AccountsInv, NEW c \in Cores, NEW new \in CoreType,
         coreOf' = [coreOf EXCEPT ![c] = new], UNCHANGED peopleVars,
         new.pair.login = coreOf[c].pair.login,
         lost \subseteq lost', told' \subseteq lost',
         c = client \/ ~Rested(coreOf[c]) \/ Rested(new),
         \A k \in Callers : new.asks[k].at = "refused" => new.asks[k].pair.login \in lost',
         \A l \in Logins \ lost' : issued'[l] = issued[l] \/ (c = client /\ l = new.pair.login),
         c = client /\ new.pair.login \notin lost' =>
           /\ HasLast(new, issued'[new.pair.login])
           /\ Owes(coreOf[c]) => Owes(new)
           /\ issued'[new.pair.login] = issued[new.pair.login] \/ Owes(new)
  PROVE  FreshTrue'
<1>1. \A d \in Cores : coreOf'[d] = IF d = c THEN new ELSE coreOf[d]
  BY DEF AccountsInv, AccountsTypeInv
<1>2. UNCHANGED <<keychain, known, account, client, operation>>
  BY DEF peopleVars
<1>3. StoppedLost' /\ RefusedLost'
  BY <1>1, <1>2 DEF AccountsInv, FreshTrue, StoppedLost, RefusedLost
<1>4. client # NoCore => /\ client \in Cores /\ coreOf[client].pair.login \in Logins
                         /\ coreOf'[client].pair.login = coreOf[client].pair.login
  BY <1>1, ClientOwns
<1>5. ClientFresh'
  <2>. SUFFICES ASSUME client # NoCore, coreOf[client].pair.login \notin lost'
                PROVE  HasLast(coreOf'[client], issued'[coreOf[client].pair.login])
    BY <1>2, <1>4 DEF ClientFresh
  <2>1. CASE client = c
    BY <1>1, <1>4, <2>1
  <2>2. CASE client # c
    BY <1>1, <1>4, <2>2 DEF AccountsInv, FreshTrue, ClientFresh
  <2>. QED
    BY <2>1, <2>2
<1>6. RecordsFresh'
  <2>1. Holdings' = Holdings
    BY <1>2 DEF Holdings
  <2>. SUFFICES ASSUME NEW p \in Holdings, p.login \in Logins \ lost', p.turn # issued'[p.login]
                PROVE  /\ client # NoCore /\ coreOf'[client].pair.login = p.login
                       /\ Owes(coreOf'[client])
    BY <1>2, <2>1 DEF RecordsFresh
  <2>2. CASE p.turn = issued[p.login]
    BY <1>1, <1>4, <2>2, NobodyIsNobody
  <2>3. CASE p.turn # issued[p.login]
    <3>1. client # NoCore /\ coreOf[client].pair.login = p.login /\ Owes(coreOf[client])
      BY <2>3 DEF AccountsInv, FreshTrue, RecordsFresh
    <3>. QED
      BY <1>1, <1>4, <3>1
  <2>. QED
    BY <2>2, <2>3
<1>. QED
  BY <1>3, <1>5, <1>6 DEF FreshTrue

(* What a core does with one of its requests.                              *)
LEMMA AskingCore ==
  ASSUME AccountsTypeInv, NEW c \in Cores, NEW k \in Callers,
         NEW at \in {"idle", "waits", "asked", "rotated", "refused"}, NEW p \in PairType
  PROVE  /\ Asking(c, k, at, p) \in CoreType
         /\ Asking(c, k, at, p).asks = [coreOf[c].asks EXCEPT ![k] = [at |-> at, pair |-> p]]
         /\ Asking(c, k, at, p).who = coreOf[c].who /\ Asking(c, k, at, p).pair = coreOf[c].pair
         /\ Asking(c, k, at, p).live = coreOf[c].live
         /\ Asking(c, k, at, p).heard = coreOf[c].heard
         /\ Asking(c, k, at, p).gate = coreOf[c].gate
         /\ Asking(c, k, at, p).events = coreOf[c].events
         /\ Asking(c, k, at, p).expired = coreOf[c].expired
<1>. DEFINE as == [coreOf[c].asks EXCEPT ![k] = [at |-> at, pair |-> p]]
<1>1. coreOf[c] \in CoreType /\ coreOf[c].asks \in [Callers -> AskType]
  BY DEF AccountsTypeInv, CoreType
<1>2. as \in [Callers -> AskType]
  BY <1>1 DEF AskType
<1>3. Asking(c, k, at, p) = [coreOf[c] EXCEPT !.asks = as]
  BY <1>1 DEF Asking, CoreType
<1>. HIDE DEF as
<1>. QED
  BY <1>1, <1>2, <1>3 DEF CoreType, as

LEMMA AsksAfter ==
  ASSUME AccountsTypeInv, NEW c \in Cores, NEW k \in Callers, NEW a
  PROVE  \A j \in Callers : [coreOf[c].asks EXCEPT ![k] = a][j] = IF j = k THEN a
                                                                 ELSE coreOf[c].asks[j]
BY DEF AccountsTypeInv, CoreType

LEMMA BearerStep ==
  ASSUME AccountsInv, NEW c \in Cores, NEW k \in Callers, Bearer(c, k)
  PROVE  AccountsInv'
<1>. DEFINE new == Asking(c, k, "waits", NoPair)
            ask == [at |-> "waits", pair |-> NoPair]
<1>1. AccountsTypeInv /\ coreOf[c] \in CoreType /\ CoreTrue(coreOf[c], issued, owner)
  BY DEF AccountsInv, AccountsTypeInv, CoresTrue
<1>2. new \in CoreType /\ new.asks = [coreOf[c].asks EXCEPT ![k] = ask]
      /\ new.who = coreOf[c].who /\ new.pair = coreOf[c].pair /\ new.live = coreOf[c].live
      /\ new.heard = coreOf[c].heard /\ new.gate = coreOf[c].gate /\ new.events = coreOf[c].events
  BY <1>1, NoPairType, AskingCore
<1>3. coreOf' = [coreOf EXCEPT ![c] = new] /\ coreOf[c].live
      /\ UNCHANGED <<issued, owner, peopleVars, lost, told, gone>> /\ coreOf[c].asks[k].at = "idle"
  BY DEF Bearer
<1>. HIDE DEF new
<1>4. \A j \in Callers : new.asks[j] = IF j = k THEN ask ELSE coreOf[c].asks[j]
  BY <1>1, <1>2, AsksAfter
<1>5. c = client /\ coreOf[c].pair # NoPair
  BY <1>3, NobodyIsNobody DEF AccountsInv, PlacesTrue
<1>6. CoreTrue(new, issued, owner)
  BY <1>1, <1>2, <1>4, <1>5 DEF CoreTrue, OwnAsks, OwnEvents, Reports
<1>7. Later(issued, owner, issued', owner) /\ issued' \in [Logins -> Nat]
  BY <1>1, <1>3 DEF Later, AccountsTypeInv
<1>8. Owes(new) = Owes(coreOf[c]) /\ \A n : HasLast(coreOf[c], n) => HasLast(new, n)
  BY <1>2, <1>3, <1>4 DEF Owes, Rotates, Reports, HasLast
<1>9. FreshTrue /\ client # NoCore
  BY <1>5, NobodyIsNobody DEF AccountsInv
<1>10. FreshTrue'
  <2>1. \A j \in Callers : new.asks[j].at = "refused" => new.asks[j].pair.login \in lost
    BY <1>4, <1>9 DEF FreshTrue, RefusedLost
  <2>2. new.pair.login \notin lost => HasLast(new, issued[new.pair.login])
    BY <1>2, <1>5, <1>8, <1>9 DEF FreshTrue, ClientFresh
  <2>. QED
    BY <1>2, <1>3, <1>5, <1>8, <1>9, <2>1, <2>2, CoreStepFresh DEF FreshTrue
<1>. QED
  BY <1>2, <1>3, <1>6, <1>7, <1>10, CoreStep DEF AccountsInv

LEMMA RefreshStep ==
  ASSUME AccountsInv, NEW c \in Cores, NEW k \in Callers, Refresh(c, k)
  PROVE  AccountsInv'
<1>. DEFINE go  == Expired(coreOf[c].pair) /\ ~coreOf[c].expired
            ask == IF go THEN [at |-> "asked", pair |-> coreOf[c].pair]
                   ELSE [at |-> "idle", pair |-> NoPair]
            ac  == Asking(c, k, ask.at, ask.pair)
            new == IF go THEN [ac EXCEPT !.gate = k] ELSE ac
<1>1. AccountsTypeInv /\ coreOf[c] \in CoreType /\ CoreTrue(coreOf[c], issued, owner)
      /\ FreshTrue /\ coreOf[c].pair \in PairType
  BY DEF AccountsInv, AccountsTypeInv, CoresTrue, CoreType
<1>2. ask.at \in {"idle", "asked"} /\ ask.pair \in PairType /\ ask \in AskType
  BY <1>1, NoPairType DEF AskType
<1>3. ac \in CoreType /\ ac.asks = [coreOf[c].asks EXCEPT ![k] = ask]
      /\ ac.who = coreOf[c].who /\ ac.pair = coreOf[c].pair /\ ac.live = coreOf[c].live
      /\ ac.heard = coreOf[c].heard /\ ac.gate = coreOf[c].gate /\ ac.events = coreOf[c].events
  <2>1. [at |-> ask.at, pair |-> ask.pair] = ask
    OBVIOUS
  <2>. HIDE DEF ask
  <2>. QED
    BY <1>1, <1>2, <2>1, AskingCore
<1>4. coreOf' = [coreOf EXCEPT ![c] = new] /\ coreOf[c].asks[k].at = "waits"
      /\ UNCHANGED <<issued, owner, peopleVars, lost, told, gone>> /\ coreOf[c].gate = Nobody
  BY DEF Refresh, MayRefresh
<1>5. /\ new \in CoreType /\ new.asks = ac.asks /\ new.who = ac.who /\ new.pair = ac.pair
      /\ new.live = ac.live /\ new.heard = ac.heard /\ new.events = ac.events
      /\ new.gate = IF go THEN k ELSE Nobody
  <2>. HIDE DEF ac, go
  <2>. QED
    BY <1>3, <1>4 DEF CoreType
<1>6. ask.at = IF go THEN "asked" ELSE "idle"
  OBVIOUS
<1>7. ask.at = "asked" => ask.pair = coreOf[c].pair
  OBVIOUS
<1>. HIDE DEF new, ac, ask, go
<1>8. \A j \in Callers : new.asks[j] = IF j = k THEN ask ELSE coreOf[c].asks[j]
  BY <1>1, <1>3, <1>5, AsksAfter
<1>9. \A j \in Callers : coreOf[c].asks[j].at \in {"idle", "waits"}
  <2>1. \A j \in Callers : coreOf[c].asks[j] \in AskType
    BY <1>1 DEF CoreType
  <2>. QED
    BY <1>1, <1>4, <2>1, NobodyIsNobody DEF CoreTrue, OwnAsks, AskType
<1>10. CoreTrue(new, issued, owner)
  <2>1. OwnAsks(new)
    BY <1>1, <1>3, <1>4, <1>5, <1>6, <1>7, <1>8, <1>9 DEF CoreTrue, OwnAsks
  <2>. QED
    BY <1>1, <1>3, <1>5, <2>1 DEF CoreTrue, OwnEvents, Reports
<1>11. Later(issued, owner, issued', owner) /\ issued' \in [Logins -> Nat]
  BY <1>1, <1>4 DEF Later, AccountsTypeInv
<1>12. Owes(new) = Owes(coreOf[c]) /\ \A n : HasLast(coreOf[c], n) => HasLast(new, n)
  BY <1>2, <1>3, <1>5, <1>8, <1>9 DEF Owes, Rotates, Reports, HasLast
<1>13. FreshTrue'
  <2>1. \A j \in Callers : new.asks[j].at = "refused" => new.asks[j].pair.login \in lost
    BY <1>2, <1>8, <1>9
  <2>2. c = client /\ new.pair.login \notin lost => HasLast(new, issued[new.pair.login])
    BY <1>1, <1>3, <1>5, <1>12, NobodyIsNobody DEF FreshTrue, ClientFresh
  <2>3. ~Rested(coreOf[c])
    BY <1>4 DEF Rested
  <2>. QED
    BY <1>1, <1>3, <1>4, <1>5, <1>12, <2>1, <2>2, <2>3, CoreStepFresh DEF FreshTrue
<1>. QED
  BY <1>3, <1>4, <1>5, <1>10, <1>11, <1>13, CoreStep DEF AccountsInv

LEMMA RotateStep ==
  ASSUME AccountsInv, NEW c \in Cores, NEW k \in Callers, Rotate(c, k)
  PROVE  AccountsInv'
<1>. DEFINE pair == coreOf[c].asks[k].pair
            l    == pair.login
            good == issued[l] = pair.turn
            at   == IF good THEN "rotated" ELSE "refused"
            got  == IF good THEN Pair(l, pair.turn + 1) ELSE pair
            ask  == [at |-> at, pair |-> got]
            new  == Asking(c, k, at, got)
<1>1. AccountsTypeInv /\ coreOf[c] \in CoreType /\ CoreTrue(coreOf[c], issued, owner)
      /\ FreshTrue /\ coreOf[c].pair \in PairType
  BY DEF AccountsInv, AccountsTypeInv, CoresTrue, CoreType
<1>2. coreOf[c].asks[k].at = "asked" /\ UNCHANGED <<owner, peopleVars, lost, told, gone>>
      /\ issued' = (IF good THEN [issued EXCEPT ![l] = @ + 1] ELSE issued)
      /\ coreOf' = [coreOf EXCEPT ![c] = new]
  BY DEF Rotate
<1>3. pair = coreOf[c].pair /\ coreOf[c].gate = k /\ coreOf[c].pair # NoPair
      /\ l \in Logins /\ issued[l] > 0 /\ l = coreOf[c].pair.login
  BY <1>1, <1>2 DEF CoreTrue, OwnAsks, Owned
<1>4. got \in PairType /\ got.login = l /\ got.turn = (IF good THEN pair.turn + 1 ELSE pair.turn)
  BY <1>1, <1>3 DEF PairType, Pair
<1>5. at \in {"rotated", "refused"} /\ (at = "rotated" <=> good)
  OBVIOUS
<1>6. new \in CoreType /\ new.asks = [coreOf[c].asks EXCEPT ![k] = ask]
      /\ new.who = coreOf[c].who /\ new.pair = coreOf[c].pair /\ new.live = coreOf[c].live
      /\ new.heard = coreOf[c].heard /\ new.gate = coreOf[c].gate /\ new.events = coreOf[c].events
  <2>1. /\ AccountsTypeInv /\ got \in PairType
        /\ at \in {"idle", "waits", "asked", "rotated", "refused"}
    BY <1>1, <1>4, <1>5
  <2>. HIDE DEF got, at, good, l, pair
  <2>. QED
    BY <2>1, AskingCore
<1>7. ask.at = at /\ ask.pair = got
  OBVIOUS
<1>8. issued' \in [Logins -> Nat] /\ Later(issued, owner, issued', owner)
      /\ issued'[l] = (IF good THEN pair.turn + 1 ELSE issued[l])
      /\ \A m \in Logins : m # l => issued'[m] = issued[m]
  BY <1>1, <1>2, <1>3 DEF AccountsTypeInv, Later
<1>. HIDE DEF new, ask, got, at, good, l
<1>9. \A j \in Callers : new.asks[j] = IF j = k THEN ask ELSE coreOf[c].asks[j]
  BY <1>1, <1>6, AsksAfter
<1>10. CoreTrue(new, issued, owner)
  <2>1. OwnAsks(new)
    BY <1>1, <1>3, <1>4, <1>5, <1>6, <1>7, <1>9 DEF CoreTrue, OwnAsks
  <2>. QED
    BY <1>1, <1>6, <2>1 DEF CoreTrue, OwnEvents, Reports
(* The gate: no other task of the core has rotated.                        *)
<1>11. ~Rotates(coreOf[c])
  BY <1>1, <1>2, <1>3 DEF CoreTrue, OwnAsks, Rotates
<1>12. ~good => l \in lost
  <2>1. CASE c = client
    <3>1. client # NoCore
      BY <2>1, NobodyIsNobody
    <3>2. l \notin lost => HasLast(coreOf[c], issued[l])
      BY <1>1, <1>3, <2>1, <3>1 DEF FreshTrue, ClientFresh
    <3>. QED
      BY <1>3, <1>11, <3>2 DEF HasLast, good
  <2>2. CASE c # client
    BY <1>1, <1>2, <1>3, <2>2 DEF FreshTrue, StoppedLost, Rested
  <2>. QED
    BY <2>1, <2>2
<1>13. c # client => l \in lost
  BY <1>1, <1>2, <1>3 DEF FreshTrue, StoppedLost, Rested
<1>14. l \notin lost => HasLast(new, issued'[l]) /\ Owes(new)
  <2>. SUFFICES ASSUME l \notin lost  PROVE HasLast(new, issued'[l]) /\ Owes(new)
    OBVIOUS
  <2>1. good /\ at = "rotated"
    BY <1>5, <1>12
  <2>2. Rotates(new)
    BY <1>7, <1>9, <2>1 DEF Rotates
  <2>3. \A j \in Callers : new.asks[j].at = "rotated" => j = k
    BY <1>9, <1>11 DEF Rotates
  <2>4. new.asks[k].pair.turn = issued'[l]
    BY <1>4, <1>7, <1>8, <1>9, <2>1
  <2>. QED
    BY <2>2, <2>3, <2>4 DEF HasLast, Owes
<1>15. FreshTrue'
  <2>1. \A j \in Callers : new.asks[j].at = "refused" => new.asks[j].pair.login \in lost
    BY <1>1, <1>4, <1>5, <1>7, <1>9, <1>12 DEF FreshTrue, RefusedLost
  <2>2. ~Rested(coreOf[c])
    BY <1>2 DEF Rested
  <2>3. \A m \in Logins \ lost : issued'[m] = issued[m] \/ (c = client /\ m = new.pair.login)
    BY <1>3, <1>6, <1>8, <1>13
  <2>. QED
    BY <1>1, <1>2, <1>3, <1>6, <1>14, <2>1, <2>2, <2>3, CoreStepFresh DEF FreshTrue
<1>. QED
  BY <1>2, <1>6, <1>8, <1>10, <1>15, CoreStep DEF AccountsInv

(* Whoever holds the gate is alone with the pair.                          *)
LEMMA GateAlone ==
  ASSUME NEW core \in CoreType, OwnAsks(core), NEW k \in Callers,
         core.asks[k].at \in {"asked", "rotated", "refused"}
  PROVE  /\ core.gate = k /\ core.pair # NoPair /\ core.asks[k].pair.login = core.pair.login
         /\ \A j \in Callers : j # k => core.asks[j].at \in {"idle", "waits"}
<1>1. \A j \in Callers : core.asks[j] \in AskType
  BY DEF CoreType
<1>. QED
  BY <1>1 DEF OwnAsks, AskType

(* The gate is given back: what a core is left with.                       *)
GaveBack(c, k, p, x, ev) ==
  [Asking(c, k, "idle", NoPair) EXCEPT !.gate = Nobody, !.pair = p, !.expired = x, !.events = ev]

LEMMA NotExpired ==
  ASSUME NEW core \in CoreType, NEW p, NEW ev
  PROVE  [core EXCEPT !.gate = Nobody, !.pair = p, !.events = ev]
           = [core EXCEPT !.gate = Nobody, !.pair = p, !.expired = core.expired, !.events = ev]
BY DEF CoreType

LEMMA IdleAsk ==
  ASSUME AccountsTypeInv, NEW c \in Cores, NEW k \in Callers
  PROVE  LET ac == Asking(c, k, "idle", NoPair) IN
         /\ ac \in CoreType /\ ac.who = coreOf[c].who /\ ac.live = coreOf[c].live
         /\ ac.heard = coreOf[c].heard /\ ac.pair = coreOf[c].pair
         /\ ac.expired = coreOf[c].expired /\ ac.events = coreOf[c].events
         /\ \A j \in Callers : ac.asks[j].at = IF j = k THEN "idle" ELSE coreOf[c].asks[j].at
<1>. DEFINE ask == [at |-> "idle", pair |-> NoPair]
            ac  == Asking(c, k, "idle", NoPair)
<1>1. ac \in CoreType /\ ac.asks = [coreOf[c].asks EXCEPT ![k] = ask]
      /\ ac.who = coreOf[c].who /\ ac.live = coreOf[c].live /\ ac.heard = coreOf[c].heard
      /\ ac.pair = coreOf[c].pair /\ ac.expired = coreOf[c].expired
      /\ ac.events = coreOf[c].events
  BY NoPairType, AskingCore
<1>2. ask.at = "idle"
  OBVIOUS
<1>. HIDE DEF ac, ask
<1>3. \A j \in Callers : ac.asks[j] = IF j = k THEN ask ELSE coreOf[c].asks[j]
  BY <1>1, AsksAfter
<1>. QED
  BY <1>1, <1>2, <1>3 DEF ac

LEMMA IdleAgain ==
  ASSUME AccountsTypeInv, NEW c \in Cores, NEW k \in Callers, OwnAsks(coreOf[c]),
         coreOf[c].asks[k].at \in {"asked", "rotated", "refused"},
         NEW p \in PairType, NEW x \in BOOLEAN, NEW ev \in Seq(EventType),
         p # NoPair
  PROVE  LET new == GaveBack(c, k, p, x, ev) IN
         /\ new \in CoreType /\ new.who = coreOf[c].who /\ new.pair = p
         /\ new.live = coreOf[c].live /\ new.heard = coreOf[c].heard /\ new.events = ev
         /\ \A j \in Callers : new.asks[j].at \in {"idle", "waits"}
         /\ OwnAsks(new)
<1>. DEFINE ac  == Asking(c, k, "idle", NoPair)
            new == GaveBack(c, k, p, x, ev)
<1>1. ac \in CoreType /\ ac.who = coreOf[c].who /\ ac.live = coreOf[c].live
      /\ ac.heard = coreOf[c].heard
  BY IdleAsk
<1>2. coreOf[c] \in CoreType
  BY DEF AccountsTypeInv
<1>3. \A j \in Callers : j # k => coreOf[c].asks[j].at \in {"idle", "waits"}
  BY <1>2, GateAlone
<1>4. \A j \in Callers : ac.asks[j].at = IF j = k THEN "idle" ELSE coreOf[c].asks[j].at
  BY IdleAsk
<1>. HIDE DEF ac
<1>5. new \in CoreType /\ new.who = ac.who /\ new.pair = p /\ new.live = ac.live
      /\ new.heard = ac.heard /\ new.events = ev /\ new.asks = ac.asks
  BY <1>1 DEF CoreType, ac, GaveBack
<1>. HIDE DEF new
<1>6. \A j \in Callers : new.asks[j].at \in {"idle", "waits"}
  BY <1>3, <1>4, <1>5
<1>7. OwnAsks(new)
  BY <1>5, <1>6 DEF OwnAsks
<1>. QED
  BY <1>1, <1>5, <1>6, <1>7 DEF new

LEMMA AppendedEvents ==
  ASSUME NEW ev \in Seq(EventType), NEW e \in EventType
  PROVE  /\ Append(ev, e) \in Seq(EventType)
         /\ DOMAIN Append(ev, e) = DOMAIN ev \cup {Len(ev) + 1}
         /\ Append(ev, e)[Len(ev) + 1] = e
         /\ \A i \in DOMAIN ev : Append(ev, e)[i] = ev[i] /\ i \in Nat /\ i < Len(ev) + 1
OBVIOUS

LEMMA RotatedStep ==
  ASSUME AccountsInv, NEW c \in Cores, NEW k \in Callers, Rotated(c, k)
  PROVE  AccountsInv'
<1>. DEFINE pair == coreOf[c].asks[k].pair
            e    == [type |-> "refreshed", pair |-> pair]
            ev   == Append(coreOf[c].events, e)
            n    == Len(coreOf[c].events) + 1
            new  == [Asking(c, k, "idle", NoPair) EXCEPT !.gate = Nobody, !.pair = pair,
                                                         !.events = ev]
<1>1. AccountsTypeInv /\ coreOf[c] \in CoreType /\ CoreTrue(coreOf[c], issued, owner)
      /\ FreshTrue /\ coreOf[c].events \in Seq(EventType) /\ coreOf[c].asks[k] \in AskType
      /\ pair \in PairType /\ OwnAsks(coreOf[c]) /\ coreOf[c].expired \in BOOLEAN
  BY DEF AccountsInv, AccountsTypeInv, CoresTrue, CoreType, CoreTrue, AskType
<1>2. coreOf[c].asks[k].at = "rotated" /\ UNCHANGED <<issued, owner, peopleVars, lost, told, gone>>
      /\ coreOf' = [coreOf EXCEPT ![c] = new]
  BY DEF Rotated
<1>3. /\ coreOf[c].gate = k /\ coreOf[c].pair # NoPair /\ pair.login = coreOf[c].pair.login
      /\ \A j \in Callers : j # k => coreOf[c].asks[j].at \in {"idle", "waits"}
  BY <1>1, <1>2, GateAlone
<1>4. e \in EventType /\ e.pair = pair /\ e.type = "refreshed"
  BY <1>1 DEF EventType
<1>5. coreOf[c].pair.login \in Logins /\ Owned(pair, coreOf[c].who, issued, owner) /\ pair # NoPair
  BY <1>1, <1>3, LoginsAreNumbers, NoPairType DEF CoreTrue, Owned
<1>6. /\ ev \in Seq(EventType) /\ DOMAIN ev = DOMAIN coreOf[c].events \cup {n} /\ ev[n] = e
      /\ \A i \in DOMAIN coreOf[c].events : ev[i] = coreOf[c].events[i] /\ i \in Nat /\ i < n
  <2>. HIDE DEF e
  <2>. QED
    BY <1>1, <1>4, AppendedEvents
<1>7. new = GaveBack(c, k, pair, coreOf[c].expired, ev)
  <2>1. Asking(c, k, "idle", NoPair) \in CoreType
        /\ Asking(c, k, "idle", NoPair).expired = coreOf[c].expired
    BY <1>1, IdleAsk
  <2>. HIDE DEF ev
  <2>. QED
    BY <2>1, NotExpired DEF GaveBack
<1>. HIDE DEF new, ev, e, pair, n
<1>8. /\ new \in CoreType /\ new.who = coreOf[c].who /\ new.pair = pair
      /\ new.live = coreOf[c].live /\ new.heard = coreOf[c].heard /\ new.events = ev
      /\ \A j \in Callers : new.asks[j].at \in {"idle", "waits"}
      /\ OwnAsks(new)
  BY <1>1, <1>2, <1>5, <1>6, <1>7, IdleAgain
<1>9. OwnEvents(new)
  <2>1. Reports(new, n) /\ n \in DOMAIN ev
    BY <1>4, <1>6, <1>8 DEF Reports
  <2>2. \A i \in DOMAIN ev : ev[i].pair.login = pair.login
    BY <1>1, <1>3, <1>4, <1>6 DEF CoreTrue, OwnEvents
  <2>3. \A i \in DOMAIN ev : i = n \/ n > i
    BY <1>6
  <2>. QED
    BY <1>4, <1>6, <1>8, <2>1, <2>2, <2>3 DEF OwnEvents
<1>10. Later(issued, owner, issued', owner) /\ issued' \in [Logins -> Nat]
  BY <1>1, <1>2 DEF Later, AccountsTypeInv
<1>11. Owes(new)
  BY <1>4, <1>6, <1>8 DEF Owes, Reports
<1>12. c = client /\ pair.login \notin lost => HasLast(new, issued[pair.login])
  <2>. SUFFICES ASSUME c = client, pair.login \notin lost
                PROVE  HasLast(new, issued[pair.login])
    OBVIOUS
  <2>1. HasLast(coreOf[c], issued[pair.login])
    BY <1>1, <1>3, NobodyIsNobody DEF FreshTrue, ClientFresh
  <2>2. pair.turn = issued[pair.login]
    BY <1>2, <2>1 DEF HasLast, pair
  <2>. QED
    BY <1>8, <2>2 DEF HasLast
<1>13. FreshTrue'
  <2>1. ~Rested(coreOf[c])
    BY <1>2 DEF Rested
  <2>2. \A j \in Callers : new.asks[j].at # "refused"
    BY <1>8
  <2>. QED
    BY <1>1, <1>2, <1>3, <1>8, <1>11, <1>12, <2>1, <2>2, CoreStepFresh DEF FreshTrue
<1>14. CoreTrue(new, issued, owner)
  BY <1>5, <1>8, <1>9 DEF CoreTrue
<1>. QED
  BY <1>2, <1>5, <1>8, <1>10, <1>13, <1>14, CoreStep DEF AccountsInv

LEMMA RefusedStep ==
  ASSUME AccountsInv, NEW c \in Cores, NEW k \in Callers, Refused(c, k)
  PROVE  AccountsInv'
<1>. DEFINE core == coreOf[c]
            e    == [type |-> "expired", pair |-> core.asks[k].pair]
            ev   == IF core.expired THEN core.events ELSE Append(core.events, e)
            n    == Len(core.events) + 1
            new  == GaveBack(c, k, core.pair, TRUE, ev)
<1>1. AccountsTypeInv /\ core \in CoreType /\ CoreTrue(core, issued, owner)
      /\ FreshTrue /\ core.events \in Seq(EventType) /\ core.asks[k] \in AskType
      /\ core.asks[k].pair \in PairType /\ OwnAsks(core) /\ core.pair \in PairType
  BY DEF AccountsInv, AccountsTypeInv, CoresTrue, CoreType, CoreTrue, AskType
<1>2. /\ core.asks[k].at = "refused" /\ UNCHANGED <<issued, owner, peopleVars, lost, gone>>
      /\ coreOf' = [coreOf EXCEPT ![c] = [Asking(c, k, "idle", NoPair) EXCEPT
                      !.gate = Nobody, !.expired = TRUE, !.events = ev]]
      /\ told' = told \cup {core.asks[k].pair.login}
  BY DEF Refused
<1>3. core.pair # NoPair /\ core.asks[k].pair.login = core.pair.login
      /\ core.pair.login \in lost
  BY <1>1, <1>2, GateAlone DEF FreshTrue, RefusedLost
<1>4. e \in EventType /\ e.pair.login = core.pair.login /\ e.type = "expired"
  BY <1>1, <1>3 DEF EventType
<1>5. /\ ev \in Seq(EventType) /\ DOMAIN core.events \subseteq DOMAIN ev
      /\ DOMAIN ev \subseteq DOMAIN core.events \cup {n}
      /\ n \in DOMAIN ev => ev[n] = e
      /\ \A i \in DOMAIN core.events : ev[i] = core.events[i] /\ i # n
  <2>. HIDE DEF e
  <2>1. n \notin DOMAIN core.events
    BY <1>1
  <2>. QED
    BY <1>1, <1>4, <2>1, AppendedEvents
<1>6. coreOf' = [coreOf EXCEPT ![c] = new]
  <2>1. Asking(c, k, "idle", NoPair) \in CoreType /\ Asking(c, k, "idle", NoPair).pair = core.pair
    BY <1>1, IdleAsk
  <2>2. [Asking(c, k, "idle", NoPair) EXCEPT !.gate = Nobody, !.expired = TRUE, !.events = ev] = new
    <3>. HIDE DEF ev
    <3>. QED  BY <2>1 DEF CoreType, GaveBack
  <2>. HIDE DEF ev, new
  <2>. QED
    BY <1>2, <2>2
<1>. HIDE DEF new, ev, e, n
<1>7. /\ new \in CoreType /\ new.who = core.who /\ new.pair = core.pair
      /\ new.live = core.live /\ new.heard = core.heard /\ new.events = ev
      /\ \A j \in Callers : new.asks[j].at \in {"idle", "waits"}
      /\ OwnAsks(new)
  BY <1>1, <1>2, <1>3, <1>5, IdleAgain DEF new
<1>8. OwnEvents(new)
  <2>1. \A i \in DOMAIN ev : Reports(new, i) => i \in DOMAIN core.events /\ Reports(core, i)
    BY <1>4, <1>5, <1>7 DEF Reports
  <2>2. \A i \in DOMAIN core.events : Reports(core, i) => Reports(new, i)
    BY <1>5, <1>7 DEF Reports
  <2>3. \A i \in DOMAIN ev : ev[i].pair.login = core.pair.login
    BY <1>1, <1>4, <1>5 DEF CoreTrue, OwnEvents
  <2>. QED
    BY <1>1, <1>5, <1>7, <2>1, <2>2, <2>3 DEF CoreTrue, OwnEvents
<1>9. Later(issued, owner, issued', owner) /\ issued' \in [Logins -> Nat]
  BY <1>1, <1>2 DEF Later, AccountsTypeInv
<1>10. FreshTrue'
  <2>1. ~Rested(core)
    BY <1>2 DEF Rested
  <2>2. \A j \in Callers : new.asks[j].at # "refused"
    BY <1>7
  <2>3. told' \subseteq lost
    BY <1>1, <1>2, <1>3 DEF FreshTrue
  <2>. QED
    BY <1>1, <1>2, <1>3, <1>6, <1>7, <2>1, <2>2, <2>3, CoreStepFresh
<1>11. CoreTrue(new, issued, owner)
  BY <1>1, <1>7, <1>8 DEF CoreTrue
<1>. QED
  BY <1>2, <1>3, <1>6, <1>7, <1>9, <1>10, <1>11, CoreStep DEF AccountsInv

LEMMA RefreshFailsStep ==
  ASSUME AccountsInv, NEW c \in Cores, NEW k \in Callers, RefreshFails(c, k)
  PROVE  AccountsInv'
<1>. DEFINE core == coreOf[c]
            new  == GaveBack(c, k, core.pair, core.expired, core.events)
<1>1. AccountsTypeInv /\ core \in CoreType /\ CoreTrue(core, issued, owner)
      /\ FreshTrue /\ core.events \in Seq(EventType)
      /\ OwnAsks(core) /\ core.pair \in PairType /\ core.expired \in BOOLEAN
  BY DEF AccountsInv, AccountsTypeInv, CoresTrue, CoreType, CoreTrue
<1>2. /\ core.asks[k].at \in {"asked", "rotated"}
      /\ UNCHANGED <<issued, owner, peopleVars, told, gone>>
      /\ coreOf' = [coreOf EXCEPT ![c] = [Asking(c, k, "idle", NoPair) EXCEPT !.gate = Nobody]]
      /\ lost' = IF core.asks[k].at = "rotated" THEN lost \cup {core.pair.login} ELSE lost
  BY DEF RefreshFails
<1>3. core.pair # NoPair /\ \A j \in Callers : j # k => core.asks[j].at \in {"idle", "waits"}
  BY <1>1, <1>2, GateAlone
<1>4. coreOf' = [coreOf EXCEPT ![c] = new]
  <2>1. Asking(c, k, "idle", NoPair) \in CoreType /\ Asking(c, k, "idle", NoPair).pair = core.pair
        /\ Asking(c, k, "idle", NoPair).expired = core.expired
        /\ Asking(c, k, "idle", NoPair).events = core.events
    BY <1>1, IdleAsk
  <2>2. [Asking(c, k, "idle", NoPair) EXCEPT !.gate = Nobody] = new
    BY <2>1, NotExpired DEF GaveBack
  <2>. QED
    BY <1>2, <2>2
<1>. HIDE DEF new
<1>5. /\ new \in CoreType /\ new.who = core.who /\ new.pair = core.pair
      /\ new.live = core.live /\ new.heard = core.heard /\ new.events = core.events
      /\ \A j \in Callers : new.asks[j].at \in {"idle", "waits"}
      /\ OwnAsks(new)
  BY <1>1, <1>2, <1>3, IdleAgain DEF new
<1>6. CoreTrue(new, issued, owner)
  BY <1>1, <1>5 DEF CoreTrue, OwnEvents, Reports
<1>7. Later(issued, owner, issued', owner) /\ issued' \in [Logins -> Nat] /\ lost \subseteq lost'
  BY <1>1, <1>2 DEF Later, AccountsTypeInv
<1>8. core.pair.login \notin lost' => ~Rotates(core) /\ ~Rotates(new)
  BY <1>2, <1>3, <1>5 DEF Rotates
<1>9. c = client /\ core.pair.login \notin lost' =>
        HasLast(new, issued[core.pair.login]) /\ (Owes(core) => Owes(new))
  <2>. SUFFICES ASSUME c = client, core.pair.login \notin lost'
                PROVE  HasLast(new, issued[core.pair.login]) /\ (Owes(core) => Owes(new))
    OBVIOUS
  <2>1. HasLast(core, issued[core.pair.login])
    BY <1>1, <1>7, NobodyIsNobody DEF FreshTrue, ClientFresh
  <2>. QED
    BY <1>5, <1>8, <2>1 DEF HasLast, Owes, Reports
<1>10. FreshTrue'
  <2>1. ~Rested(core)
    BY <1>2 DEF Rested
  <2>2. \A j \in Callers : new.asks[j].at # "refused"
    BY <1>5
  <2>3. told' \subseteq lost'
    BY <1>1, <1>2, <1>7 DEF FreshTrue
  <2>. QED
    BY <1>2, <1>4, <1>5, <1>7, <1>9, <2>1, <2>2, <2>3, CoreStepFresh
<1>. QED
  BY <1>2, <1>4, <1>5, <1>6, <1>7, <1>10, CoreStep DEF AccountsInv

LEMMA CoreEndsStep ==
  ASSUME AccountsInv, NEW c \in Cores, CoreEnds(c)
  PROVE  AccountsInv'
<1>1. coreOf' = [coreOf EXCEPT ![c] = FreeCore] /\ ~coreOf[c].live
      /\ UNCHANGED <<issued, owner, peopleVars, lost, told, gone>>
  BY DEF CoreEnds
<1>2. \A d \in Cores : coreOf'[d] = IF d = c THEN FreeCore ELSE coreOf[d]
  BY <1>1 DEF AccountsInv, AccountsTypeInv
<1>3. UNCHANGED <<keychain, known, account, client, operation, launched>>
  BY <1>1 DEF peopleVars
<1>4. c # client
  BY <1>1, NobodyIsNobody DEF AccountsInv, PlacesTrue
<1>5. AccountsTypeInv'
  BY <1>1, <1>3, FreeCoreTrue DEF AccountsInv, AccountsTypeInv
<1>6. client # NoCore => client \in Cores /\ coreOf'[client] = coreOf[client]
  BY <1>2, <1>4 DEF AccountsInv, AccountsTypeInv
<1>7. PlacesTrue'
  BY <1>2, <1>3, <1>6, FreeCoreTrue DEF AccountsInv, PlacesTrue
<1>8. RecordsTrue'
  BY <1>1, <1>3 DEF AccountsInv, RecordsTrue
<1>9. CoresTrue'
  BY <1>1, <1>2, FreeCoreTrue DEF AccountsInv, CoresTrue, CoreTrue, Owned
<1>10. FreshTrue'
  <2>1. StoppedLost' /\ RefusedLost'
    BY <1>1, <1>2, <1>3, FreeCoreTrue DEF AccountsInv, FreshTrue, StoppedLost, RefusedLost, Rested
  <2>2. ClientFresh'
    BY <1>1, <1>3, <1>6 DEF AccountsInv, FreshTrue, ClientFresh
  <2>3. RecordsFresh'
    BY <1>1, <1>3, <1>6 DEF AccountsInv, FreshTrue, RecordsFresh, Holdings
  <2>. QED
    BY <1>1, <2>1, <2>2, <2>3 DEF AccountsInv, FreshTrue
<1>. QED
  BY <1>5, <1>7, <1>8, <1>9, <1>10 DEF AccountsInv

LEMMA AccountsRest ==
  ASSUME AccountsInv, UNCHANGED <<issued, owner, peopleVars, coreOf, lost, told, gone>>
  PROVE  AccountsInv'
<1>1. UNCHANGED <<keychain, known, account, client, operation, launched>>
  BY DEF peopleVars
<1>2. AccountsTypeInv' /\ PlacesTrue'
  BY <1>1 DEF AccountsInv, AccountsTypeInv, PlacesTrue
<1>3. RecordsTrue' /\ CoresTrue'
  BY <1>1 DEF AccountsInv, RecordsTrue, CoresTrue
<1>4. FreshTrue'
  BY <1>1 DEF AccountsInv, FreshTrue, StoppedLost, RefusedLost, ClientFresh, RecordsFresh, Holdings
<1>. QED
  BY <1>2, <1>3, <1>4 DEF AccountsInv

-----------------------------------------------------------------------------
(* What ends the use of a core.                                            *)

(* cs are the cores as they were, but for events that were received.       *)
Received(cs) == \A d \in Cores :
  /\ cs[d].who = coreOf[d].who /\ cs[d].pair = coreOf[d].pair
  /\ cs[d].live = coreOf[d].live /\ cs[d].asks = coreOf[d].asks
  /\ Rested(coreOf[d]) => Rested(cs[d])
  /\ CoreTrue(cs[d], issued, owner)

LEMMA StopStep ==
  ASSUME AccountsInv, NEW cs \in [Cores -> CoreType], Received(cs), coreOf' = Stopped(cs),
         client' = NoCore, lost \cup Adrift \subseteq lost',
         Later(issued, owner, issued', owner')
  PROVE  /\ coreOf' \in [Cores -> CoreType]
         /\ \A d \in Cores : ~coreOf'[d].live /\ ~coreOf'[d].heard
         /\ CoresTrue' /\ StoppedLost' /\ RefusedLost' /\ ClientFresh'
<1>1. AccountsTypeInv /\ \A d \in Cores : cs[d].live => d = client
  BY DEF AccountsInv, PlacesTrue, Received
<1>2. coreOf' \in [Cores -> CoreType]
      /\ \A d \in Cores : SameCore(cs[d], coreOf'[d]) /\ ~coreOf'[d].live /\ ~coreOf'[d].heard
  BY <1>1, StoppedCores
<1>3. CoresTrue'
  <2>. SUFFICES ASSUME NEW d \in Cores  PROVE CoreTrue(coreOf'[d], issued', owner')
    BY DEF CoresTrue
  <2>1. CoreTrue(coreOf'[d], issued, owner)
    BY <1>2, SameCoreTrue DEF Received
  <2>. QED
    BY <2>1, OwnedLater DEF CoreTrue
<1>4. StoppedLost'
  <2>. SUFFICES ASSUME NEW d \in Cores, ~Rested(coreOf'[d])
                PROVE  coreOf'[d].pair.login \in lost'
    BY DEF StoppedLost
  <2>1. ~Rested(cs[d])
    BY <1>2, SameCoreTrue
  <2>2. ~Rested(coreOf[d])
    BY <2>1 DEF Received
  <2>3. coreOf[d].pair.login \in Adrift
    BY <2>2, AdriftIs
  <2>. QED
    BY <1>2, <2>3 DEF SameCore, Received
<1>5. RefusedLost'
  <2>1. \A d \in Cores : coreOf'[d].asks = coreOf[d].asks
    BY <1>2 DEF SameCore, Received
  <2>. QED
    BY <2>1 DEF AccountsInv, FreshTrue, RefusedLost
<1>6. ClientFresh'
  BY DEF ClientFresh
<1>. QED
  BY <1>2, <1>3, <1>4, <1>5, <1>6

LEMMA ReceivedNone == AccountsInv => coreOf \in [Cores -> CoreType] /\ Received(coreOf)
BY DEF AccountsInv, AccountsTypeInv, Received, CoresTrue

LEMMA OwesUnsettled ==
  ASSUME NEW core, Owes(core)
  PROVE  ~Rested(core)
BY DEF Owes, Rotates, Rested, Reports

(* Once the core in use has been given up, the records are the last word on *)
(* every session that is not lost.                                         *)
LEMMA HoldingsAreLast ==
  ASSUME AccountsInv, NEW p \in Holdings, p.login \in Logins \ (lost \cup Adrift)
  PROVE  p.turn = issued[p.login] /\ issued[p.login] > 0
<1>1. CASE client # NoCore /\ coreOf[client].pair.login = p.login /\ Owes(coreOf[client])
  <2>1. client \in Cores /\ ~Rested(coreOf[client])
    BY <1>1, ClientOwns, OwesUnsettled
  <2>. QED
    BY <1>1, <2>1, AdriftIs
<1>2. p # NoPair
  BY NoPairType, LoginsAreNumbers
<1>3. \E a : Owned(p, a, issued, owner)
  BY DEF AccountsInv, RecordsTrue, Holdings
<1>. QED
  BY <1>1, <1>2, <1>3 DEF AccountsInv, FreshTrue, RecordsFresh, Owned

LEMMA StoppedFresh ==
  ASSUME AccountsInv, client' = NoCore, lost \cup Adrift \subseteq lost', UNCHANGED issued,
         \A p \in Holdings' : p \in Holdings \/ p = NoPair \/ p.login \in lost'
  PROVE  RecordsFresh'
<1>. SUFFICES ASSUME NEW p \in Holdings', p.login \in Logins \ lost'
              PROVE  p.turn = issued'[p.login]
  BY DEF RecordsFresh
<1>1. p \in Holdings
  BY NoPairType, LoginsAreNumbers
<1>. QED
  BY <1>1, HoldingsAreLast

(* start, with a record.                                                   *)
LEMMA StartStep ==
  ASSUME AccountsInv, NEW kind \in {"open", "switch"}, NEW a \in People, NEW p \in PairType,
         NEW prev \in RecordType, Start(kind, Record(a, p), prev), p # NoPair,
         issued' \in [Logins -> Nat], owner' \in [Logins -> People \cup {Nobody}],
         Later(issued, owner, issued', owner'), UNCHANGED told,
         keychain' \in [active : People \cup {Nobody}, pairs : [People -> PairType]],
         known' \in [People -> PairType], launched' = TRUE, gone' \subseteq People,
         keychain'.active = a, keychain'.pairs[a] # NoPair, known'[a] # NoPair,
         kind = "switch" /\ prev # NoRecord =>
           prev.who \in People /\ prev.pair # NoPair /\ known'[prev.who] # NoPair,
         \A b \in People : Owned(known'[b], b, issued', owner')
                           /\ Owned(keychain'.pairs[b], b, issued', owner'),
         Owned(p, a, issued', owner'), Owned(prev.pair, prev.who, issued', owner'),
         \A b \in gone' : known'[b] = NoPair /\ keychain'.pairs[b] = NoPair,
         RecordsFresh'
  PROVE  AccountsInv'
<1>. DEFINE r == Record(a, p)
<1>1. r \in RecordType /\ r.who = a /\ r.pair = p /\ r # NoRecord
  BY RecordIsRecord, NotNoRecord
<1>2. /\ coreOf' = Stopped(coreOf) /\ lost' = lost \cup Adrift /\ client' = NoCore
      /\ account' = r
      /\ operation' = [kind |-> kind, to |-> r, prev |-> prev, heard |-> TRUE]
  BY DEF Start
<1>. HIDE DEF r
<1>3. /\ coreOf' \in [Cores -> CoreType]
      /\ \A d \in Cores : ~coreOf'[d].live /\ ~coreOf'[d].heard
      /\ CoresTrue' /\ StoppedLost' /\ RefusedLost' /\ ClientFresh'
  BY <1>2, ReceivedNone, StopStep
<1>4. operation' \in OperationType /\ operation'.kind = kind /\ operation'.to = r
      /\ operation'.prev = prev
  BY <1>1, <1>2 DEF OperationType
<1>5. AccountsTypeInv'
  BY <1>1, <1>2, <1>3, <1>4 DEF AccountsTypeInv
<1>6. PlacesTrue'
  BY <1>1, <1>2, <1>3, <1>4 DEF PlacesTrue
<1>7. RecordsTrue'
  BY <1>1, <1>2, <1>4 DEF RecordsTrue
<1>8. FreshTrue'
  BY <1>2, <1>3 DEF AccountsInv, FreshTrue
<1>. QED
  BY <1>3, <1>5, <1>6, <1>7, <1>8 DEF AccountsInv

LEMMA KnownTypes ==
  ASSUME AccountsInv
  PROVE  /\ keychain \in [active : People \cup {Nobody}, pairs : [People -> PairType]]
         /\ known \in [People -> PairType] /\ account \in RecordType
         /\ keychain.pairs \in [People -> PairType] /\ keychain.active \in People \cup {Nobody}
         /\ operation \in OperationType /\ operation.to \in RecordType
         /\ operation.prev \in RecordType
         /\ account.who \in People \cup {Nobody} /\ account.pair \in PairType
         /\ issued \in [Logins -> Nat] /\ owner \in [Logins -> People \cup {Nobody}]
         /\ gone \subseteq People /\ Later(issued, owner, issued, owner)
BY DEF AccountsInv, AccountsTypeInv, OperationType, RecordType, Later

LEMMA SomePair ==
  ASSUME NEW f \in [People -> PairType]
  PROVE  f = NoPairs <=> \A a \in People : f[a] = NoPair
BY DEF NoPairs

LEMMA OwnedNoPair ==
  ASSUME NEW a, NEW is, NEW ow
  PROVE  Owned(NoPair, a, is, ow)
BY DEF Owned

LEMMA RestoreStep ==
  ASSUME AccountsInv, Restore
  PROVE  AccountsInv'
<1>1. /\ operation = Rest /\ ~launched /\ client = NoCore /\ launched' = TRUE
      /\ known' = keychain.pairs /\ UNCHANGED <<issued, owner, aged, keychain, told, left, gone>>
  BY DEF Restore
<1>2. CASE keychain.pairs = NoPairs /\ UNCHANGED <<account, client, operation, coreOf, lost>>
  <2>1. account = NoRecord /\ NoRecord.who = Nobody
    BY <1>1, NoRecordType DEF AccountsInv, PlacesTrue
  <2>2. AccountsTypeInv' /\ CoresTrue'
    BY <1>1, <1>2 DEF AccountsInv, AccountsTypeInv, CoresTrue
  <2>3. PlacesTrue'
    <3>1. operation.kind = "rest"
      BY <1>1, NoRecordType
    <3>. QED
      BY <1>1, <1>2, <2>1, <3>1 DEF AccountsInv, PlacesTrue
  <2>4. RecordsTrue'
    BY <1>1, <1>2 DEF AccountsInv, RecordsTrue
  <2>5. Holdings' \subseteq Holdings
    BY <1>1, <1>2 DEF Holdings
  <2>6. StoppedLost' /\ RefusedLost' /\ ClientFresh' /\ told' \subseteq lost'
    BY <1>1, <1>2 DEF AccountsInv, FreshTrue, StoppedLost, RefusedLost, ClientFresh
  <2>7. RecordsFresh'
    BY <1>1, <1>2, <2>5 DEF AccountsInv, FreshTrue, RecordsFresh
  <2>. QED
    BY <2>2, <2>3, <2>4, <2>6, <2>7 DEF AccountsInv, FreshTrue
<1>3. ASSUME NEW a \in People, keychain.pairs[a] # NoPair,
             keychain.pairs[keychain.active] # NoPair => a = keychain.active,
             Start("open", Record(a, keychain.pairs[a]), NoRecord)
      PROVE  AccountsInv'
  <2>. DEFINE p == keychain.pairs[a]
  <2>1. keychain.active = a
    BY <1>3, KnownTypes, SomePair DEF AccountsInv, PlacesTrue
  <2>2. p \in PairType /\ Record(a, p) \in RecordType /\ Record(a, p).pair = p
    BY KnownTypes, RecordIsRecord
  <2>3. account' = Record(a, p) /\ lost' = lost \cup Adrift /\ client' = NoCore
        /\ operation' = [kind |-> "open", to |-> Record(a, p), prev |-> NoRecord, heard |-> TRUE]
    BY <1>3 DEF Start
  <2>4. operation'.to.pair = p /\ operation'.prev.pair = NoPair /\ account'.pair = p
    BY <2>2, <2>3, NoRecordType
  <2>5. \A q \in Holdings' : q \in Holdings \/ q = NoPair
    BY <1>1, <2>4 DEF Holdings
  <2>6. RecordsFresh'
    BY <1>1, <2>3, <2>5, StoppedFresh
  <2>7. Owned(p, a, issued, owner)
        /\ \A b \in People : Owned(keychain.pairs[b], b, issued, owner)
    BY DEF AccountsInv, RecordsTrue
  <2>8. \A b \in gone' : known'[b] = NoPair /\ keychain'.pairs[b] = NoPair
    BY <1>1 DEF AccountsInv, RecordsTrue
  <2>9. Owned(NoRecord.pair, NoRecord.who, issued, owner) /\ NoRecord \in RecordType
    BY NoRecordType, OwnedNoPair
  <2>. HIDE DEF p
  <2>10. p # NoPair /\ known'[a] # NoPair /\ keychain'.pairs[a] # NoPair
    BY <1>1, <1>3 DEF p
  <2>11. Start("open", Record(a, p), NoRecord)
    BY <1>3 DEF p
  <2>. QED
    BY <1>1, <2>1, <2>2, <2>6, <2>7, <2>8, <2>9, <2>10, <2>11, KnownTypes, StartStep
<1>. QED
  BY <1>2, <1>3 DEF Restore

LEMMA SwitchStep ==
  ASSUME AccountsInv, NEW a \in People, Switch(a)
  PROVE  AccountsInv'
<1>. DEFINE p == known[a]
<1>1. /\ account # NoRecord /\ p # NoPair
      /\ UNCHANGED <<issued, owner, known, launched, told, gone>>
      /\ keychain' = [active |-> a, pairs |-> known] /\ Start("switch", Record(a, p), account)
  BY DEF Switch, Persist
<1>2. p \in PairType /\ Record(a, p) \in RecordType /\ Record(a, p).pair = p
  BY KnownTypes, RecordIsRecord
<1>3. account' = Record(a, p) /\ lost' = lost \cup Adrift /\ client' = NoCore
      /\ operation' = [kind |-> "switch", to |-> Record(a, p), prev |-> account, heard |-> TRUE]
  BY <1>1 DEF Start
<1>4. operation'.to.pair = p /\ operation'.prev.pair = account.pair /\ account'.pair = p
      /\ keychain'.active = a /\ keychain'.pairs = known
  BY <1>1, <1>2, <1>3
<1>5. \A q \in Holdings' : q \in Holdings
  BY <1>1, <1>4 DEF Holdings
<1>6. RecordsFresh'
  BY <1>1, <1>3, <1>5, StoppedFresh
<1>7. Owned(p, a, issued, owner) /\ Owned(account.pair, account.who, issued, owner)
      /\ \A b \in People : Owned(known[b], b, issued, owner)
  BY DEF AccountsInv, RecordsTrue
<1>8. \A b \in gone : known[b] = NoPair
  BY DEF AccountsInv, RecordsTrue
<1>9. account.who \in People /\ account.pair # NoPair /\ known[account.who] # NoPair /\ launched
  BY <1>1, KnownTypes DEF AccountsInv, PlacesTrue, AccountsTypeInv
<1>10. keychain' \in [active : People \cup {Nobody}, pairs : [People -> PairType]]
  BY <1>1, KnownTypes
<1>. HIDE DEF p
<1>11. keychain'.pairs[a] # NoPair /\ known'[a] # NoPair
  BY <1>1, <1>4 DEF p
<1>12. launched' = TRUE
  BY <1>1, <1>9 DEF AccountsInv, AccountsTypeInv
<1>. QED
  BY <1>1, <1>2, <1>4, <1>6, <1>7, <1>8, <1>9, <1>10, <1>11, <1>12, KnownTypes, StartStep

LEMMA OpenedStep ==
  ASSUME AccountsInv, Opened
  PROVE  AccountsInv'
<1>. DEFINE a == operation.to.who
            p == operation.to.pair
            new == BuiltCore(a, p)
<1>1. PICK c \in Cores : /\ coreOf[c] = FreeCore /\ coreOf' = [coreOf EXCEPT ![c] = new]
                         /\ client' = c
  BY DEF Opened
<1>2. /\ operation.kind \in {"open", "switch"} /\ operation' = Rest
      /\ UNCHANGED <<issued, owner, keychain, known, account, launched, lost, told, gone>>
  BY DEF Opened
<1>3. /\ client = NoCore /\ account = operation.to /\ account # NoRecord
      /\ keychain.active = a /\ a \in People /\ p # NoPair /\ known[a] # NoPair /\ launched
      /\ p \in PairType /\ account.who = a /\ account.pair = p
  BY <1>2, KnownTypes, NoRecordType DEF AccountsInv, PlacesTrue
<1>4. /\ new \in CoreType /\ Rested(new) /\ new.who = a /\ new.pair = p
      /\ new.live /\ new.heard /\ OwnAsks(new) /\ OwnEvents(new)
  BY <1>3, BuiltCoreTrue
<1>. HIDE DEF new
<1>5. \A d \in Cores : coreOf'[d] = IF d = c THEN new ELSE coreOf[d]
  BY <1>1 DEF AccountsInv, AccountsTypeInv
<1>6. c # NoCore /\ \A d \in Cores : d # NoCore
  BY NobodyIsNobody
<1>7. Rest \in OperationType /\ Rest.kind = "rest" /\ Rest.to.pair = NoPair
      /\ Rest.prev.pair = NoPair
  BY NoRecordType
<1>8. Owned(p, a, issued, owner)
  BY DEF AccountsInv, RecordsTrue
<1>9. AccountsTypeInv'
  BY <1>1, <1>2, <1>4, <1>7 DEF AccountsInv, AccountsTypeInv
<1>10. PlacesTrue'
  <2>1. \A d \in Cores : coreOf[d].live \/ coreOf[d].heard => d = client
    BY DEF AccountsInv, PlacesTrue
  <2>2. \A d \in Cores : coreOf'[d].live \/ coreOf'[d].heard => d = c
    BY <1>3, <1>5, <1>6, <2>1
  <2>3. coreOf'[c] = new
    BY <1>5
  <2>. QED
    BY <1>1, <1>2, <1>3, <1>4, <1>7, <2>2, <2>3 DEF AccountsInv, PlacesTrue
<1>11. RecordsTrue'
  BY <1>2, <1>7, OwnedNoPair DEF AccountsInv, RecordsTrue
<1>12. CoresTrue'
  BY <1>2, <1>4, <1>5, <1>8 DEF AccountsInv, CoresTrue, CoreTrue
<1>13. p \in Holdings /\ Holdings' \subseteq Holdings \cup {NoPair}
  BY <1>2, <1>7 DEF Holdings
<1>14. \A q \in Holdings : q.login \in Logins \ lost => q.turn = issued[q.login]
  BY <1>3 DEF AccountsInv, FreshTrue, RecordsFresh
<1>15. ~Rotates(new) /\ \A k \in Callers : new.asks[k].at = "idle"
  BY <1>4 DEF Rested, Rotates
<1>16. FreshTrue'
  <2>1. StoppedLost' /\ RefusedLost'
    BY <1>1, <1>2, <1>3, <1>4, <1>5, <1>6, <1>15
    DEF AccountsInv, FreshTrue, StoppedLost, RefusedLost
  <2>2. ClientFresh'
    <3>1. p.login \in Logins
      BY <1>3, <1>8 DEF Owned
    <3>2. coreOf'[c] = new
      BY <1>5
    <3>3. p.login \notin lost => HasLast(new, issued[p.login])
      BY <1>4, <1>13, <1>14, <1>15, <3>1 DEF HasLast
    <3>. QED
      BY <1>1, <1>2, <1>4, <3>2, <3>3 DEF ClientFresh
  <2>3. RecordsFresh'
    BY <1>2, <1>13, <1>14, NoPairType, LoginsAreNumbers DEF RecordsFresh
  <2>. QED
    BY <1>2, <2>1, <2>2, <2>3 DEF AccountsInv, FreshTrue
<1>. QED
  BY <1>9, <1>10, <1>11, <1>12, <1>16 DEF AccountsInv

LEMMA OpenFailsStep ==
  ASSUME AccountsInv, OpenFails
  PROVE  AccountsInv'
<1>1. /\ operation.kind \in {"open", "switch"}
      /\ UNCHANGED <<issued, owner, known, launched, told, gone>>
  BY DEF OpenFails
<1>2. client = NoCore /\ account # NoRecord /\ launched
  BY <1>1, NoRecordType DEF AccountsInv, PlacesTrue
<1>3. CASE /\ operation.kind = "switch" /\ operation.prev # NoRecord
           /\ BackTo(operation.prev.who) /\ Start("open", operation.prev, NoRecord)
  <2>. DEFINE a == operation.prev.who
              p == operation.prev.pair
  <2>1. a \in People /\ p # NoPair /\ known[a] # NoPair /\ p \in PairType
    BY <1>3, KnownTypes DEF AccountsInv, PlacesTrue, RecordType
  <2>2. operation.prev = Record(a, p)
    BY KnownTypes DEF RecordType, Record
  <2>3. keychain' = [active |-> a, pairs |-> known]
    BY <1>3 DEF BackTo, Persist
  <2>4. account' = Record(a, p) /\ lost' = lost \cup Adrift /\ client' = NoCore
        /\ operation' = [kind |-> "open", to |-> Record(a, p), prev |-> NoRecord, heard |-> TRUE]
    BY <1>3, <2>2 DEF Start
  <2>5. operation'.to.pair = p /\ operation'.prev.pair = NoPair /\ account'.pair = p
        /\ keychain'.active = a /\ keychain'.pairs = known
    BY <2>1, <2>3, <2>4, RecordIsRecord, NoRecordType
  <2>6. \A q \in Holdings' : q \in Holdings \/ q = NoPair
    BY <1>1, <2>5 DEF Holdings
  <2>7. RecordsFresh'
    BY <1>1, <2>4, <2>6, StoppedFresh
  <2>8. Owned(p, a, issued, owner) /\ \A b \in People : Owned(known[b], b, issued, owner)
    BY DEF AccountsInv, RecordsTrue
  <2>9. \A b \in gone : known[b] = NoPair
    BY DEF AccountsInv, RecordsTrue
  <2>10. Owned(NoRecord.pair, NoRecord.who, issued, owner) /\ NoRecord \in RecordType
    BY NoRecordType, OwnedNoPair
  <2>11. keychain' \in [active : People \cup {Nobody}, pairs : [People -> PairType]]
    BY <2>1, <2>3, KnownTypes
  <2>12. launched' = TRUE
    BY <1>1, <1>2 DEF AccountsInv, AccountsTypeInv
  <2>13. Start("open", Record(a, p), NoRecord)
    BY <1>3, <2>2
  <2>. HIDE DEF a, p
  <2>. QED
    BY <1>1, <2>1, <2>5, <2>7, <2>8, <2>9, <2>10, <2>11, <2>12, <2>13, KnownTypes, StartStep
<1>4. CASE /\ coreOf' = Stopped(coreOf) /\ lost' = lost \cup Adrift
           /\ client' = NoCore /\ account' = NoRecord /\ operation' = Rest
           /\ UNCHANGED keychain
  <2>1. /\ coreOf' \in [Cores -> CoreType]
        /\ \A d \in Cores : ~coreOf'[d].live /\ ~coreOf'[d].heard
        /\ CoresTrue' /\ StoppedLost' /\ RefusedLost' /\ ClientFresh'
    BY <1>1, <1>4, ReceivedNone, KnownTypes, StopStep
  <2>2. AccountsTypeInv'
    BY <1>1, <1>4, <2>1, NoRecordType DEF AccountsInv, AccountsTypeInv
  <2>3. PlacesTrue'
    BY <1>1, <1>2, <1>4, <2>1, NoRecordType DEF AccountsInv, PlacesTrue
  <2>4. RecordsTrue'
    BY <1>1, <1>4, NoRecordType, OwnedNoPair DEF AccountsInv, RecordsTrue
  <2>5. \A q \in Holdings' : q \in Holdings \/ q = NoPair
    BY <1>1, <1>4, NoRecordType DEF Holdings
  <2>6. RecordsFresh'
    BY <1>1, <1>4, <2>5, StoppedFresh
  <2>. QED
    BY <1>1, <1>4, <2>1, <2>2, <2>3, <2>4, <2>6 DEF AccountsInv, FreshTrue
<1>. QED
  BY <1>3, <1>4 DEF OpenFails

LEMMA SignInStep ==
  ASSUME AccountsInv, NEW a \in People, SignIn(a)
  PROVE  AccountsInv'
<1>. DEFINE r == Record(a, NoPair)
<1>1. /\ operation = Rest /\ launched
      /\ operation' = [Rest EXCEPT !.kind = "scope", !.to = r, !.heard = TRUE]
      /\ UNCHANGED <<issued, owner, keychain, known, account, client, launched, coreOf, lost,
                     told, gone>>
  BY DEF SignIn
<1>2. r \in RecordType /\ r.who = a /\ r.pair = NoPair
  BY RecordIsRecord, NoPairType
<1>. HIDE DEF r
<1>3. operation' \in OperationType /\ operation'.kind = "scope" /\ operation'.to = r
      /\ operation'.prev = NoRecord
  BY <1>1, <1>2, NoRecordType DEF OperationType
<1>4. AccountsTypeInv' /\ CoresTrue'
  BY <1>1, <1>3 DEF AccountsInv, AccountsTypeInv, CoresTrue
<1>5. PlacesTrue'
  <2>1. operation'.to.pair = NoPair /\ operation'.prev.pair = NoPair /\ operation'.to.who \in People
    BY <1>2, <1>3, NoRecordType
  <2>2. PlacesTrue /\ launched'
    BY <1>1 DEF AccountsInv
  <2>. QED
    BY <1>1, <1>3, <2>1, <2>2 DEF PlacesTrue
<1>6. RecordsTrue'
  BY <1>1, <1>2, <1>3, NoRecordType, OwnedNoPair DEF AccountsInv, RecordsTrue
<1>7. StoppedLost' /\ RefusedLost' /\ ClientFresh' /\ told' \subseteq lost'
  BY <1>1 DEF AccountsInv, FreshTrue, StoppedLost, RefusedLost, ClientFresh
<1>8. \A q \in Holdings' : q \in Holdings \/ q = NoPair
  BY <1>1, <1>2, <1>3, NoRecordType DEF Holdings
<1>9. RecordsFresh'
  BY <1>1, <1>8, NoPairType, LoginsAreNumbers DEF AccountsInv, FreshTrue, RecordsFresh
<1>. QED
  BY <1>4, <1>5, <1>6, <1>7, <1>9 DEF AccountsInv, FreshTrue

LEMMA ScopeEndsStep ==
  ASSUME AccountsInv, ScopeEnds
  PROVE  AccountsInv'
<1>1. /\ operation' = Rest
      /\ UNCHANGED <<issued, owner, keychain, known, account, client, launched, coreOf, lost,
                     told, gone>>
  BY DEF ScopeEnds
<1>2. Rest \in OperationType /\ Rest.kind = "rest" /\ Rest.to.pair = NoPair
      /\ Rest.prev.pair = NoPair
  BY NoRecordType
<1>3. AccountsTypeInv' /\ CoresTrue'
  BY <1>1, <1>2 DEF AccountsInv, AccountsTypeInv, CoresTrue
<1>4. PlacesTrue'
  <2>1. operation'.kind = "rest" /\ operation'.to.pair = NoPair /\ operation'.prev.pair = NoPair
    BY <1>1, <1>2
  <2>2. ~launched' => account' = NoRecord /\ operation' = Rest
    BY <1>1 DEF AccountsInv, PlacesTrue
  <2>3. PlacesTrue
    BY DEF AccountsInv
  <2>. QED
    BY <1>1, <2>1, <2>2, <2>3 DEF PlacesTrue
<1>5. RecordsTrue'
  BY <1>1, <1>2, OwnedNoPair DEF AccountsInv, RecordsTrue
<1>6. StoppedLost' /\ RefusedLost' /\ ClientFresh' /\ told' \subseteq lost'
  BY <1>1 DEF AccountsInv, FreshTrue, StoppedLost, RefusedLost, ClientFresh
<1>7. \A q \in Holdings' : q \in Holdings \/ q = NoPair
  BY <1>1, <1>2 DEF Holdings
<1>8. RecordsFresh'
  BY <1>1, <1>7, NoPairType, LoginsAreNumbers DEF AccountsInv, FreshTrue, RecordsFresh
<1>. QED
  BY <1>3, <1>4, <1>5, <1>6, <1>8 DEF AccountsInv, FreshTrue

(* A new session, scoped to the account: saved and opened, or not saved.    *)
ScopedAs(l) ==
  LET a == operation.to.who
  IN  /\ operation.kind = "scope"
      /\ issued[l] = 0 /\ issued' = [issued EXCEPT ![l] = 1]
      /\ owner' = [owner EXCEPT ![l] = a]
      /\ known' = [known EXCEPT ![a] = Pair(l, 1)]
      /\ gone' = gone \ {a} /\ UNCHANGED <<launched, told>>

LEMMA ScopedSavedStep ==
  ASSUME AccountsInv, NEW l \in Logins, ScopedAs(l),
         keychain' = [active |-> operation.to.who, pairs |-> known'],
         Start("switch", Record(operation.to.who, Pair(l, 1)), account)
  PROVE  AccountsInv'
<1>. DEFINE a == operation.to.who
<1>1. /\ issued[l] = 0 /\ issued' = [issued EXCEPT ![l] = 1]
      /\ owner' = [owner EXCEPT ![l] = a]
      /\ known' = [known EXCEPT ![a] = Pair(l, 1)]
      /\ Start("switch", Record(a, Pair(l, 1)), account)
  BY DEF ScopedAs
<1>2. /\ operation.kind = "scope" /\ keychain' = [active |-> a, pairs |-> known']
      /\ gone' = gone \ {a} /\ UNCHANGED <<launched, told>>
  BY DEF ScopedAs
<1>. DEFINE p == Pair(l, 1)
<1>3. p \in PairType /\ p.login = l /\ p.turn = 1 /\ p # NoPair
  BY NoPairType DEF Pair, PairType
<1>4. a \in People /\ launched
  BY <1>2, NoRecordType DEF AccountsInv, PlacesTrue
<1>. HIDE DEF p, a
<1>5. /\ issued' \in [Logins -> Nat] /\ issued'[l] = 1
      /\ \A m \in Logins : m # l => issued'[m] = issued[m] /\ owner'[m] = owner[m]
      /\ owner' \in [Logins -> People \cup {Nobody}] /\ owner'[l] = a
  BY <1>1, <1>4, KnownTypes DEF a
<1>6. Later(issued, owner, issued', owner')
  BY <1>1, <1>5 DEF Later
<1>7. /\ known' \in [People -> PairType] /\ known'[a] = p
      /\ \A b \in People : b # a => known'[b] = known[b]
  BY <1>1, <1>3, <1>4, KnownTypes DEF a, p
<1>8. Owned(p, a, issued', owner')
  BY <1>3, <1>5 DEF Owned
<1>9. \A b \in People : Owned(known'[b], b, issued', owner')
  <2>. SUFFICES ASSUME NEW b \in People  PROVE Owned(known'[b], b, issued', owner')
    OBVIOUS
  <2>1. CASE b = a
    BY <1>7, <1>8, <2>1
  <2>2. CASE b # a
    BY <1>6, <1>7, <2>2, OwnedLater DEF AccountsInv, RecordsTrue
  <2>. QED
    BY <2>1, <2>2
<1>10. Start("switch", Record(a, p), account)
  BY <1>1 DEF a, p
<1>11. account' = Record(a, p) /\ lost' = lost \cup Adrift /\ client' = NoCore
       /\ operation' = [kind |-> "switch", to |-> Record(a, p), prev |-> account, heard |-> TRUE]
  BY <1>10 DEF Start
<1>12. operation'.to.pair = p /\ operation'.prev.pair = account.pair /\ account'.pair = p
       /\ keychain'.active = a /\ keychain'.pairs = known'
  BY <1>2, <1>3, <1>4, <1>11, RecordIsRecord DEF a
<1>13. \A q \in Holdings' : q \in Holdings \/ q = p
  BY <1>7, <1>12 DEF Holdings
<1>14. RecordsFresh'
  <2>. SUFFICES ASSUME NEW q \in Holdings', q.login \in Logins \ lost'
                PROVE  q.turn = issued'[q.login]
    BY DEF RecordsFresh
  <2>1. CASE q = p
    BY <1>3, <1>5, <2>1
  <2>2. CASE q \in Holdings
    <3>1. q.turn = issued[q.login] /\ issued[q.login] > 0
      BY <1>11, <2>2, HoldingsAreLast
    <3>. QED
      BY <1>1, <1>5, <3>1
  <2>. QED
    BY <1>13, <2>1, <2>2
<1>15. account # NoRecord => /\ account.who \in People /\ account.pair # NoPair
                             /\ known'[account.who] # NoPair
  BY <1>3, <1>7 DEF AccountsInv, PlacesTrue
<1>16. Owned(account.pair, account.who, issued', owner')
  BY <1>6, OwnedLater DEF AccountsInv, RecordsTrue
<1>17. \A b \in gone' : known'[b] = NoPair /\ keychain'.pairs[b] = NoPair
  BY <1>2, <1>7, <1>12, KnownTypes DEF AccountsInv, RecordsTrue, a
<1>18. keychain' \in [active : People \cup {Nobody}, pairs : [People -> PairType]]
  BY <1>2, <1>4, <1>7 DEF a
<1>19. launched' = TRUE /\ gone' \subseteq People
  BY <1>2, <1>4, KnownTypes DEF AccountsInv, AccountsTypeInv
<1>. QED
  BY <1>2, <1>3, <1>4, <1>5, <1>6, <1>7, <1>8, <1>9, <1>10, <1>12, <1>14, <1>15, <1>16, <1>17,
     <1>18, <1>19, KnownTypes, StartStep

LEMMA ScopedUnsavedStep ==
  ASSUME AccountsInv, NEW l \in Logins, ScopedAs(l), operation' = Rest,
         UNCHANGED <<keychain, account, client, coreOf, lost>>
  PROVE  AccountsInv'
<1>. DEFINE a == operation.to.who
            p == Pair(l, 1)
<1>1. /\ operation.kind = "scope" /\ issued[l] = 0 /\ issued' = [issued EXCEPT ![l] = 1]
      /\ owner' = [owner EXCEPT ![l] = a] /\ known' = [known EXCEPT ![a] = p]
      /\ gone' = gone \ {a} /\ UNCHANGED <<launched, told>>
  BY DEF ScopedAs
<1>2. p \in PairType /\ p.login = l /\ p.turn = 1 /\ p # NoPair
  BY NoPairType DEF Pair, PairType
<1>3. a \in People /\ launched
  BY <1>1, NoRecordType DEF AccountsInv, PlacesTrue
<1>. HIDE DEF p, a
<1>4. /\ issued' \in [Logins -> Nat] /\ issued'[l] = 1
      /\ \A m \in Logins : m # l => issued'[m] = issued[m] /\ owner'[m] = owner[m]
      /\ owner' \in [Logins -> People \cup {Nobody}] /\ owner'[l] = a
  BY <1>1, <1>3, KnownTypes
<1>5. Later(issued, owner, issued', owner')
  BY <1>1, <1>4 DEF Later
<1>6. /\ known' \in [People -> PairType] /\ known'[a] = p
      /\ \A b \in People : b # a => known'[b] = known[b]
  BY <1>1, <1>2, <1>3, KnownTypes
<1>7. Rest \in OperationType /\ Rest.kind = "rest" /\ Rest.to.pair = NoPair
      /\ Rest.prev.pair = NoPair
  BY NoRecordType
<1>8. AccountsTypeInv'
  BY <1>1, <1>4, <1>6, <1>7 DEF AccountsInv, AccountsTypeInv
<1>9. PlacesTrue'
  <2>1. operation'.kind = "rest" /\ operation'.to.pair = NoPair /\ operation'.prev.pair = NoPair
    BY <1>7
  <2>2. launched' /\ PlacesTrue
    BY <1>1, <1>3 DEF AccountsInv
  <2>3. account # NoRecord => known'[account.who] # NoPair
    BY <1>2, <1>6, <2>2 DEF PlacesTrue
  <2>. QED
    BY <2>1, <2>2, <2>3 DEF PlacesTrue
<1>10. RecordsTrue'
  <2>1. Owned(p, a, issued', owner')
    BY <1>2, <1>4 DEF Owned
  <2>2. \A b \in People : Owned(known'[b], b, issued', owner')
                           /\ Owned(keychain'.pairs[b], b, issued', owner')
    BY <1>5, <1>6, <2>1, OwnedLater DEF AccountsInv, RecordsTrue
  <2>3. Owned(account.pair, account.who, issued', owner')
    BY <1>5, OwnedLater DEF AccountsInv, RecordsTrue
  <2>4. \A b \in gone' : known'[b] = NoPair /\ keychain'.pairs[b] = NoPair
    BY <1>1, <1>6, KnownTypes DEF AccountsInv, RecordsTrue
  <2>. QED
    BY <1>7, <2>2, <2>3, <2>4, OwnedNoPair DEF RecordsTrue
<1>11. CoresTrue'
  BY <1>5, OwnedLater DEF AccountsInv, CoresTrue, CoreTrue
<1>12. StoppedLost' /\ RefusedLost' /\ told' \subseteq lost'
  BY <1>1 DEF AccountsInv, FreshTrue, StoppedLost, RefusedLost
<1>13. client # NoCore => issued'[coreOf[client].pair.login] = issued[coreOf[client].pair.login]
  BY <1>1, <1>4, ClientOwns
<1>14. ClientFresh'
  BY <1>13 DEF AccountsInv, FreshTrue, ClientFresh
<1>15. \A q \in Holdings' : q \in Holdings \/ q = p \/ q = NoPair
  BY <1>6, <1>7 DEF Holdings
<1>16. \A q \in Holdings : q.login \in Logins => q.login # l
  <2>. SUFFICES ASSUME NEW q \in Holdings, q.login \in Logins  PROVE q.login # l
    OBVIOUS
  <2>1. q # NoPair /\ \E b : Owned(q, b, issued, owner)
    BY NoPairType, LoginsAreNumbers DEF AccountsInv, RecordsTrue, Holdings
  <2>. QED
    BY <1>1, <2>1 DEF Owned
<1>17. RecordsFresh'
  <2>. SUFFICES ASSUME NEW q \in Holdings', q.login \in Logins \ lost
                PROVE  \/ q.turn = issued'[q.login]
                       \/ client # NoCore /\ coreOf[client].pair.login = q.login
                          /\ Owes(coreOf[client])
    BY DEF RecordsFresh
  <2>1. CASE q = p
    BY <1>2, <1>4, <2>1
  <2>2. CASE q \in Holdings
    BY <1>4, <1>16, <2>2 DEF AccountsInv, FreshTrue, RecordsFresh
  <2>. QED
    BY <1>15, <2>1, <2>2, NoPairType, LoginsAreNumbers
<1>. QED
  BY <1>8, <1>9, <1>10, <1>11, <1>12, <1>14, <1>17 DEF AccountsInv, FreshTrue

LEMMA ScopedStep ==
  ASSUME AccountsInv, Scoped
  PROVE  AccountsInv'
<1>1. PICK l \in Logins :
        /\ ScopedAs(l)
        /\ \/ /\ keychain' = [active |-> operation.to.who, pairs |-> known']
              /\ Start("switch", Record(operation.to.who, Pair(l, 1)), account)
           \/ operation' = Rest /\ UNCHANGED <<keychain, account, client, coreOf, lost>>
  BY DEF Scoped, ScopedAs, Persist
<1>. QED
  BY <1>1, ScopedSavedStep, ScopedUnsavedStep

LEMMA SignOutStep ==
  ASSUME AccountsInv, SignOut
  PROVE  AccountsInv'
<1>1. /\ operation = Rest /\ account # NoRecord
      /\ operation' = [Rest EXCEPT !.kind = "leave", !.to = account]
      /\ coreOf' = Unheard(coreOf) /\ lost' = lost \cup Adrift
      /\ UNCHANGED <<issued, owner, keychain, known, account, client, launched, told, gone>>
  BY DEF SignOut
<1>2. /\ coreOf' \in [Cores -> CoreType]
      /\ \A c \in Cores : /\ SameCore(coreOf[c], coreOf'[c]) /\ ~coreOf'[c].heard
                          /\ coreOf'[c].live = coreOf[c].live
  BY <1>1, UnheardCores DEF AccountsInv, AccountsTypeInv
<1>3. operation' \in OperationType /\ operation'.kind = "leave" /\ operation'.to = account
      /\ operation'.prev = NoRecord
  BY <1>1, KnownTypes, NoRecordType DEF OperationType
<1>4. client # NoCore => client \in Cores
  BY DEF AccountsInv, AccountsTypeInv
<1>5. AccountsTypeInv'
  BY <1>1, <1>2, <1>3 DEF AccountsInv, AccountsTypeInv
<1>6. PlacesTrue'
  <2>1. account.who \in People /\ launched
    BY <1>1 DEF AccountsInv, PlacesTrue
  <2>2. \A c \in Cores : coreOf'[c].who = coreOf[c].who /\ coreOf'[c].pair = coreOf[c].pair
    BY <1>2 DEF SameCore
  <2>. QED
    BY <1>1, <1>2, <1>3, <1>4, <2>1, <2>2 DEF AccountsInv, PlacesTrue
<1>7. RecordsTrue'
  BY <1>1, <1>3, NoRecordType, OwnedNoPair DEF AccountsInv, RecordsTrue
<1>8. CoresTrue'
  BY <1>1, <1>2, SameCoreTrue DEF AccountsInv, CoresTrue
<1>9. \A c \in Cores : /\ Rested(coreOf'[c]) <=> Rested(coreOf[c])
                       /\ coreOf'[c].asks = coreOf[c].asks /\ coreOf'[c].pair = coreOf[c].pair
                       /\ coreOf'[c].events = coreOf[c].events
  BY <1>2, SameCoreTrue DEF SameCore
<1>10. StoppedLost' /\ RefusedLost'
  BY <1>1, <1>9 DEF AccountsInv, FreshTrue, StoppedLost, RefusedLost
<1>11. ClientFresh'
  BY <1>1, <1>4, <1>9 DEF AccountsInv, FreshTrue, ClientFresh, HasLast, Rotates
<1>12. RecordsFresh'
  <2>1. \A q \in Holdings' : q \in Holdings \/ q = NoPair
    BY <1>1, <1>3, NoRecordType DEF Holdings
  <2>2. \A q \in Holdings : q.login \in Logins \ lost' => q.turn = issued[q.login]
    BY <1>1, HoldingsAreLast
  <2>. QED
    BY <1>1, <2>1, <2>2, NoPairType, LoginsAreNumbers DEF RecordsFresh
<1>. QED
  BY <1>1, <1>5, <1>6, <1>7, <1>8, <1>10, <1>11, <1>12 DEF AccountsInv, FreshTrue

LEMMA SignedOutStep ==
  ASSUME AccountsInv, SignedOut
  PROVE  AccountsInv'
<1>. DEFINE a    == operation.to.who
            rest == [known EXCEPT ![a] = NoPair]
<1>1. \/ /\ \E next \in People \cup {Nobody} :
              /\ IF rest = NoPairs THEN next = Nobody ELSE next # Nobody /\ rest[next] # NoPair
              /\ keychain' = [active |-> next, pairs |-> rest]
         /\ gone' = gone \cup {a}
      \/ UNCHANGED <<keychain, gone>>
  BY DEF SignedOut, Persist
<1>2. /\ operation.kind = "leave" /\ coreOf' = Stopped(coreOf) /\ lost' = lost \cup Adrift
      /\ known' = NoPairs /\ account' = NoRecord /\ client' = NoCore /\ operation' = Rest
      /\ launched' = FALSE
      /\ UNCHANGED <<issued, owner, told>>
  BY DEF SignedOut
<1>3. a \in People
  BY <1>2 DEF AccountsInv, PlacesTrue
<1>4. /\ rest \in [People -> PairType] /\ rest[a] = NoPair
      /\ \A b \in People : b # a => rest[b] = known[b]
  BY <1>3, KnownTypes, NoPairType
<1>. HIDE DEF rest, a
<1>5. /\ keychain' \in [active : People \cup {Nobody}, pairs : [People -> PairType]]
      /\ keychain'.pairs # NoPairs => /\ keychain'.active \in People
                                      /\ keychain'.pairs[keychain'.active] # NoPair
      /\ \A b \in People : \/ keychain'.pairs[b] \in {known[b], keychain.pairs[b]}
                            \/ keychain'.pairs[b] = NoPair
      /\ gone' \subseteq People /\ \A b \in gone' : keychain'.pairs[b] = NoPair
  <2>1. ASSUME NEW next \in People \cup {Nobody}, gone' = gone \cup {a},
               IF rest = NoPairs THEN next = Nobody ELSE next # Nobody /\ rest[next] # NoPair,
               keychain' = [active |-> next, pairs |-> rest]
        PROVE  <1>5!:
    <3>1. keychain'.active = next /\ keychain'.pairs = rest
          /\ keychain' \in [active : People \cup {Nobody}, pairs : [People -> PairType]]
      BY <1>4, <2>1
    <3>2. \A b \in gone' : rest[b] = NoPair
      BY <1>3, <1>4, <2>1, KnownTypes DEF AccountsInv, RecordsTrue
    <3>. QED
      BY <1>3, <1>4, <2>1, <3>1, <3>2, KnownTypes
  <2>2. CASE UNCHANGED <<keychain, gone>>
    BY <2>2, KnownTypes DEF AccountsInv, PlacesTrue, RecordsTrue
  <2>. QED
    BY <1>1, <2>1, <2>2
<1>6. /\ coreOf' \in [Cores -> CoreType]
      /\ \A d \in Cores : ~coreOf'[d].live /\ ~coreOf'[d].heard
      /\ CoresTrue' /\ StoppedLost' /\ RefusedLost' /\ ClientFresh'
  BY <1>2, ReceivedNone, KnownTypes, StopStep
<1>7. known' \in [People -> PairType] /\ \A b \in People : known'[b] = NoPair
  BY <1>2, NoPairType DEF NoPairs
<1>8. AccountsTypeInv'
  BY <1>2, <1>3, <1>5, <1>6, <1>7, NoRecordType DEF AccountsInv, AccountsTypeInv
<1>9. PlacesTrue'
  <2>1. keychain'.pairs # NoPairs => keychain'.active \in People
                                     /\ keychain'.pairs[keychain'.active] # NoPair
    BY <1>5
  <2>2. \A d \in Cores : ~(coreOf'[d].live \/ coreOf'[d].heard)
    BY <1>6
  <2>3. operation'.kind = "rest" /\ operation'.to.pair = NoPair /\ operation'.prev.pair = NoPair
    BY <1>2, NoRecordType
  <2>. QED
    BY <1>2, <2>1, <2>2, <2>3 DEF PlacesTrue
<1>10. RecordsTrue'
  <2>1. \A b \in People : Owned(keychain'.pairs[b], b, issued, owner)
    BY <1>5, OwnedNoPair DEF AccountsInv, RecordsTrue
  <2>4. account'.pair = NoPair /\ operation'.to.pair = NoPair /\ operation'.prev.pair = NoPair
    BY <1>2, NoRecordType
  <2>. QED
    BY <1>2, <1>5, <1>7, <2>1, <2>4, OwnedNoPair DEF RecordsTrue
<1>11. \A q \in Holdings' : q \in Holdings \/ q = NoPair
  <2>1. account'.pair = NoPair /\ operation'.to.pair = NoPair /\ operation'.prev.pair = NoPair
    BY <1>2, NoRecordType
  <2>. QED
    BY <1>5, <1>7, <2>1 DEF Holdings
<1>12. RecordsFresh'
  BY <1>2, <1>11, StoppedFresh
<1>. QED
  BY <1>2, <1>6, <1>8, <1>9, <1>10, <1>12 DEF AccountsInv, FreshTrue

(* The oldest event of a core, received.                                   *)
LEMMA OneReceived ==
  ASSUME AccountsInv, NEW c \in Cores, coreOf[c].events # <<>>, NEW new,
         new = [coreOf[c] EXCEPT !.events = Tail(coreOf[c].events)]
  PROVE  /\ new \in CoreType /\ new.who = coreOf[c].who /\ new.pair = coreOf[c].pair
         /\ new.live = coreOf[c].live /\ new.heard = coreOf[c].heard
         /\ new.asks = coreOf[c].asks /\ CoreTrue(new, issued, owner)
         /\ Head(coreOf[c].events) \in EventType
         /\ Head(coreOf[c].events).pair.login = coreOf[c].pair.login
         /\ Head(coreOf[c].events).type = "refreshed" =>
              Head(coreOf[c].events).pair = coreOf[c].pair \/ Owes(new)
         /\ Head(coreOf[c].events).type # "refreshed" /\ Owes(coreOf[c]) => Owes(new)
<1>. DEFINE ev == coreOf[c].events
            te == Tail(ev)
<1>1. coreOf[c] \in CoreType /\ CoreTrue(coreOf[c], issued, owner) /\ ev \in Seq(EventType)
  BY DEF AccountsInv, AccountsTypeInv, CoresTrue, CoreType
<1>2. /\ te \in Seq(EventType) /\ Head(ev) = ev[1] /\ 1 \in DOMAIN ev /\ ev[1] \in EventType
      /\ \A i \in DOMAIN te : te[i] = ev[i + 1] /\ i + 1 \in DOMAIN ev /\ i \in Nat
      /\ \A i \in DOMAIN ev : i # 1 => i - 1 \in DOMAIN te /\ te[i - 1] = ev[i]
      /\ DOMAIN ev \subseteq Nat
  <2>. HIDE DEF ev
  <2>. QED
    BY <1>1 DEF ev
<1>. HIDE DEF te
<1>3. /\ new \in CoreType /\ new.who = coreOf[c].who /\ new.pair = coreOf[c].pair
      /\ new.live = coreOf[c].live /\ new.heard = coreOf[c].heard
      /\ new.asks = coreOf[c].asks /\ new.gate = coreOf[c].gate /\ new.events = te
  BY <1>1, <1>2 DEF CoreType, te
<1>4. OwnAsks(new)
  BY <1>1, <1>3 DEF CoreTrue, OwnAsks
<1>5. ASSUME NEW i \in DOMAIN ev, i # 1, Reports(coreOf[c], i)
      PROVE  i - 1 \in DOMAIN te /\ Reports(new, i - 1)
  BY <1>2, <1>3, <1>5 DEF Reports
<1>6. \A i \in DOMAIN te : Reports(new, i) => Reports(coreOf[c], i + 1)
  BY <1>2, <1>3 DEF Reports
<1>7. OwnEvents(new)
  <2>. SUFFICES ASSUME NEW i \in DOMAIN te
                PROVE  /\ te[i].pair.login = new.pair.login
                       /\ Reports(new, i) => \/ te[i].pair = new.pair
                                             \/ \E j \in DOMAIN te : j > i /\ Reports(new, j)
    BY <1>3 DEF OwnEvents
  <2>1. te[i].pair.login = new.pair.login
    BY <1>1, <1>2, <1>3 DEF CoreTrue, OwnEvents
  <2>2. ASSUME Reports(new, i), te[i].pair # new.pair
        PROVE  \E j \in DOMAIN te : j > i /\ Reports(new, j)
    <3>1. PICK j \in DOMAIN ev : j > i + 1 /\ Reports(coreOf[c], j)
      BY <1>1, <1>2, <1>3, <1>6, <2>2 DEF CoreTrue, OwnEvents
    <3>2. j # 1 /\ j - 1 > i
      BY <1>2, <3>1
    <3>3. j - 1 \in DOMAIN te /\ Reports(new, j - 1)
      BY <1>5, <3>1, <3>2
    <3>. QED
      BY <3>2, <3>3
  <2>. QED
    BY <2>1, <2>2
<1>8. Head(ev).pair.login = coreOf[c].pair.login
  BY <1>1, <1>2 DEF CoreTrue, OwnEvents
<1>9. Head(ev).type = "refreshed" => Head(ev).pair = coreOf[c].pair \/ Owes(new)
  <2>. SUFFICES ASSUME Reports(coreOf[c], 1), ev[1].pair # coreOf[c].pair  PROVE Owes(new)
    BY <1>2 DEF Reports
  <2>1. PICK j \in DOMAIN ev : j > 1 /\ Reports(coreOf[c], j)
    BY <1>1, <1>2 DEF CoreTrue, OwnEvents
  <2>. j # 1
    BY <1>2, <2>1
  <2>2. j - 1 \in DOMAIN te /\ Reports(new, j - 1)
    BY <1>5, <2>1
  <2>. QED
    BY <1>3, <2>2 DEF Owes
<1>10. Head(ev).type # "refreshed" /\ Owes(coreOf[c]) => Owes(new)
  <2>. SUFFICES ASSUME ~Reports(coreOf[c], 1), Owes(coreOf[c]), ~Rotates(coreOf[c])  PROVE Owes(new)
    BY <1>2, <1>3 DEF Reports, Owes, Rotates
  <2>1. PICK j \in DOMAIN ev : Reports(coreOf[c], j)
    BY DEF Owes
  <2>2. j - 1 \in DOMAIN te /\ Reports(new, j - 1)
    BY <1>5, <2>1
  <2>. QED
    BY <1>3, <2>2 DEF Owes
<1>. QED
  BY <1>1, <1>2, <1>3, <1>4, <1>7, <1>8, <1>9, <1>10 DEF CoreTrue

LEMMA ReceiveStep ==
  ASSUME AccountsInv, NEW c \in Cores, Receive(c)
  PROVE  AccountsInv'
<1>. DEFINE event == Head(coreOf[c].events)
            new   == [coreOf[c] EXCEPT !.events = Tail(coreOf[c].events)]
            after == [coreOf EXCEPT ![c] = new]
            p     == event.pair
<1>1. coreOf[c].events # <<>> /\ UNCHANGED <<issued, owner, launched, told, gone>>
  BY DEF Receive
<1>2. /\ new \in CoreType /\ new.who = coreOf[c].who /\ new.pair = coreOf[c].pair
      /\ new.live = coreOf[c].live /\ new.heard = coreOf[c].heard
      /\ new.asks = coreOf[c].asks /\ CoreTrue(new, issued, owner)
      /\ event \in EventType /\ p.login = coreOf[c].pair.login
      /\ event.type = "refreshed" => p = coreOf[c].pair \/ Owes(new)
      /\ event.type # "refreshed" /\ Owes(coreOf[c]) => Owes(new)
  BY <1>1, OneReceived
<1>3. [coreOf EXCEPT ![c].events = Tail(@)] = after
  OBVIOUS
<1>4. \/ /\ ~Heard(c) \/ (event.type = "refreshed" /\ account = NoRecord)
         /\ coreOf' = after
         /\ lost' = IF event.type = "refreshed" THEN lost \cup {p.login} ELSE lost
         /\ UNCHANGED <<keychain, known, account, client, operation>>
      \/ /\ Heard(c) /\ event.type = "refreshed" /\ account # NoRecord
         /\ known' = [known EXCEPT ![account.who] = p]
         /\ \/ /\ Persist(account.who, known') /\ coreOf' = after
               /\ account' = Record(account.who, p)
               /\ UNCHANGED <<client, operation, lost>>
            \/ /\ coreOf' = Stopped(after) /\ client' = NoCore /\ lost' = lost \cup Adrift
               /\ operation' = [operation EXCEPT !.heard = FALSE]
               /\ UNCHANGED <<keychain, account>>
      \/ /\ Heard(c) /\ event.type = "expired"
         /\ coreOf' = Stopped(after) /\ client' = NoCore /\ lost' = lost \cup Adrift
         /\ operation' = [operation EXCEPT !.heard = FALSE]
         /\ UNCHANGED <<keychain, known, account>>
  <2>. HIDE DEF new
  <2>. QED
    BY <1>3 DEF Receive
<1>5. p \in PairType /\ event.type \in {"refreshed", "expired"}
  BY <1>2 DEF EventType
<1>. HIDE DEF new, after, event, p
<1>6. after \in [Cores -> CoreType] /\ \A d \in Cores : after[d] = IF d = c THEN new ELSE coreOf[d]
  BY <1>2 DEF after, AccountsInv, AccountsTypeInv
<1>7. Rested(coreOf[c]) => Rested(new)
  BY <1>1 DEF Rested
<1>8. ~Rested(coreOf[c])
  BY <1>1 DEF Rested
<1>9. Received(after)
  BY <1>2, <1>6, <1>7 DEF AccountsInv, CoresTrue, Received
<1>10. Later(issued, owner, issued', owner') /\ issued' \in [Logins -> Nat]
  BY <1>1, KnownTypes DEF Later
<1>11. c # NoCore /\ FreshTrue
  BY NobodyIsNobody DEF AccountsInv
<1>12. \A n : HasLast(coreOf[c], n) => HasLast(new, n)
  BY <1>2 DEF HasLast, Rotates
(* It is not heard: the pair is lost.                                      *)
<1>13. CASE /\ ~Heard(c) \/ (event.type = "refreshed" /\ account = NoRecord)
            /\ coreOf' = after
            /\ lost' = IF event.type = "refreshed" THEN lost \cup {p.login} ELSE lost
            /\ UNCHANGED <<keychain, known, account, client, operation>>
  <2>1. UNCHANGED peopleVars /\ coreOf' = [coreOf EXCEPT ![c] = new] /\ lost \subseteq lost'
    BY <1>1, <1>13 DEF peopleVars, after
  <2>2. AccountsTypeInv' /\ PlacesTrue' /\ RecordsTrue' /\ CoresTrue'
    BY <1>1, <1>2, <1>10, <2>1, CoreStep
  <2>3. \A k \in Callers : new.asks[k].at = "refused" => new.asks[k].pair.login \in lost'
    BY <1>2, <1>11, <2>1 DEF FreshTrue, RefusedLost
  <2>4. c = client /\ new.pair.login \notin lost' =>
          HasLast(new, issued[new.pair.login]) /\ (Owes(coreOf[c]) => Owes(new))
    BY <1>2, <1>11, <1>12, <1>13, <2>1 DEF FreshTrue, ClientFresh
  <2>5. told' \subseteq lost'
    BY <1>1, <1>11, <2>1 DEF FreshTrue
  <2>6. FreshTrue'
    BY <1>1, <1>2, <1>8, <2>1, <2>3, <2>4, <2>5, CoreStepFresh
  <2>. QED
    BY <2>2, <2>6 DEF AccountsInv
<1>14. CASE Heard(c)
  <2>. DEFINE a == account.who
  <2>1. c = client /\ client # NoCore /\ account # NoRecord /\ a \in People
        /\ coreOf[c].who = a /\ coreOf[c].pair # NoPair /\ keychain.active = a
    BY <1>11, <1>14 DEF AccountsInv, PlacesTrue, Heard
  <2>2. Owned(p, a, issued, owner) /\ p # NoPair /\ p.login \in Logins
    BY <1>2, <2>1, ClientOwns, NoPairType, LoginsAreNumbers DEF Owned
  <2>. DEFINE now == [known EXCEPT ![a] = p]
  <2>3. /\ now \in [People -> PairType] /\ now[a] = p
        /\ \A b \in People : b # a => now[b] = known[b]
    BY <1>5, <2>1, KnownTypes
  <2>4. \A b \in People : Owned(now[b], b, issued, owner)
    BY <2>2, <2>3 DEF AccountsInv, RecordsTrue
  <2>5. \A b \in gone : now[b] = NoPair
    <3>1. a \notin gone
      BY <2>1 DEF AccountsInv, PlacesTrue, RecordsTrue
    <3>. QED
      BY <2>3, <3>1, KnownTypes DEF AccountsInv, RecordsTrue
  <2>. HIDE DEF now
  <2>6. /\ operation.kind \in {"rest", "scope"}
        /\ operation.to.pair = NoPair /\ operation.prev.pair = NoPair
    BY <1>14, <2>1, KnownTypes DEF AccountsInv, PlacesTrue, Heard, OperationType
  <2>7. CASE /\ event.type = "refreshed" /\ known' = now
             /\ keychain' = [active |-> a, pairs |-> known'] /\ coreOf' = after
             /\ account' = Record(a, p) /\ UNCHANGED <<client, operation, lost>>
    <3>1. account' \in RecordType /\ account'.who = a /\ account'.pair = p /\ account' # NoRecord
      BY <1>5, <2>1, <2>7, RecordIsRecord, NotNoRecord
    <3>2. /\ keychain' \in [active : People \cup {Nobody}, pairs : [People -> PairType]]
          /\ keychain'.active = a /\ keychain'.pairs = now
      BY <2>1, <2>3, <2>7
    <3>3. AccountsTypeInv'
      BY <1>1, <1>6, <2>3, <2>7, <3>1, <3>2 DEF AccountsInv, AccountsTypeInv
    <3>4. PlacesTrue'
      <4>1. \A d \in Cores : /\ coreOf'[d].live = coreOf[d].live
                             /\ coreOf'[d].heard = coreOf[d].heard
                             /\ coreOf'[d].who = coreOf[d].who /\ coreOf'[d].pair = coreOf[d].pair
        BY <1>2, <1>6, <2>7
      <4>. QED
        BY <1>1, <2>1, <2>2, <2>3, <2>6, <2>7, <3>1, <3>2, <4>1 DEF AccountsInv, PlacesTrue
    <3>5. RecordsTrue'
      BY <1>1, <2>2, <2>4, <2>5, <2>7, <3>1, <3>2 DEF AccountsInv, RecordsTrue
    <3>6. CoresTrue'
      BY <1>1, <1>9, <2>7 DEF CoresTrue, Received
    <3>7. \A q \in Holdings' : q = p \/ q = NoPair \/ (q \in Holdings /\ q.login # p.login)
      <4>1. \A b \in People : b # a => known[b].login # p.login
        BY <2>2, NoPairType, LoginsAreNumbers DEF AccountsInv, RecordsTrue, Owned
      <4>. QED
        BY <2>3, <2>6, <2>7, <3>1, <3>2, <4>1 DEF Holdings
    <3>8. StoppedLost' /\ RefusedLost'
      BY <1>2, <1>6, <1>7, <1>11, <2>7 DEF FreshTrue, StoppedLost, RefusedLost
    <3>9. p.login \notin lost => HasLast(new, issued[p.login])
      BY <1>2, <1>11, <1>12, <2>1 DEF FreshTrue, ClientFresh
    <3>10. coreOf'[client] = new
      BY <1>6, <2>1, <2>7
    <3>11. ClientFresh'
      BY <1>1, <1>2, <2>1, <2>7, <3>9, <3>10 DEF ClientFresh
    <3>12. RecordsFresh'
      <4>. SUFFICES ASSUME NEW q \in Holdings', q.login \in Logins \ lost, q.turn # issued[q.login]
                    PROVE  coreOf'[client].pair.login = q.login /\ Owes(coreOf'[client])
        BY <1>1, <2>1, <2>7 DEF RecordsFresh
      <4>1. CASE q = p
        <5>1. ASSUME ~Owes(new)  PROVE p.turn = issued[p.login]
          BY <1>2, <2>7, <3>9, <4>1, <5>1 DEF Owes, HasLast
        <5>. QED
          BY <1>2, <3>10, <4>1, <5>1
      <4>2. CASE q \in Holdings /\ q.login # p.login
        BY <1>2, <1>11, <2>1, <4>2 DEF FreshTrue, RecordsFresh
      <4>. QED
        BY <3>7, <4>1, <4>2, NoPairType, LoginsAreNumbers
    <3>. QED
      BY <1>1, <1>11, <2>7, <3>3, <3>4, <3>5, <3>6, <3>8, <3>11, <3>12 DEF AccountsInv, FreshTrue
  (* The session ends.                                                       *)
  <2>8. ASSUME coreOf' = Stopped(after), client' = NoCore, lost' = lost \cup Adrift,
               operation' = [operation EXCEPT !.heard = FALSE], UNCHANGED <<keychain, account>>,
               known' \in {known, now}
        PROVE  AccountsInv'
    <3>1. /\ coreOf' \in [Cores -> CoreType]
          /\ \A d \in Cores : ~coreOf'[d].live /\ ~coreOf'[d].heard
          /\ CoresTrue' /\ StoppedLost' /\ RefusedLost' /\ ClientFresh'
      BY <1>6, <1>9, <1>10, <2>8, StopStep
    <3>2. operation' \in OperationType /\ operation'.kind = operation.kind
          /\ operation'.to = operation.to /\ operation'.prev = operation.prev
      BY <2>8, KnownTypes DEF OperationType
    <3>3. known' \in [People -> PairType] /\ known'[a] # NoPair
          /\ \A b \in People : known'[b] = p \/ known'[b] = known[b]
      BY <2>1, <2>2, <2>3, <2>8, KnownTypes DEF AccountsInv, PlacesTrue
    <3>4. AccountsTypeInv'
      BY <1>1, <2>8, <3>1, <3>2, <3>3 DEF AccountsInv, AccountsTypeInv
    <3>5. launched' = launched /\ launched
      BY <1>1, <2>1 DEF AccountsInv, PlacesTrue
    <3>6. PlacesTrue'
      BY <2>1, <2>6, <2>8, <3>1, <3>2, <3>3, <3>5 DEF AccountsInv, PlacesTrue
    <3>7. RecordsTrue'
      BY <1>1, <2>4, <2>5, <2>8, <3>2 DEF AccountsInv, RecordsTrue
    <3>8. p.login \in lost'
      BY <1>2, <1>8, <2>8, AdriftIs
    <3>9. \A q \in Holdings' : q \in Holdings \/ q = p
      BY <2>8, <3>2, <3>3 DEF Holdings
    <3>10. RecordsFresh'
      BY <1>1, <2>8, <3>8, <3>9, StoppedFresh
    <3>. QED
      BY <1>1, <1>11, <2>8, <3>1, <3>4, <3>6, <3>7, <3>10 DEF AccountsInv, FreshTrue
  <2>. QED
    BY <1>4, <1>14, <2>1, <2>7, <2>8 DEF Persist, now
<1>. QED
  BY <1>4, <1>13, <1>14

LEMMA AppKilledStep ==
  ASSUME AccountsInv, AppKilled
  PROVE  AccountsInv'
<1>1. /\ lost' = lost \cup Adrift /\ coreOf' = [c \in Cores |-> FreeCore]
      /\ known' = NoPairs /\ account' = NoRecord /\ client' = NoCore /\ operation' = Rest
      /\ launched' = FALSE /\ UNCHANGED <<owner, keychain, told, gone>>
  BY DEF AppKilled
<1>2. /\ issued' \in [Logins -> Nat]
      /\ \A l \in Logins : issued'[l] = issued[l] \/
           /\ issued'[l] = issued[l] + 1
           /\ \E c \in Cores, k \in Callers :
                coreOf[c].asks[k] = [at |-> "asked", pair |-> Pair(l, issued[l])]
  <2>1. {issued[l] : l \in Logins} \cup {issued[l] + 1 : l \in Logins} \subseteq Nat
    BY KnownTypes
  <2>. QED
    BY <2>1 DEF AppKilled
<1>3. Later(issued, owner, issued', owner')
  <2>1. \A l \in Logins : issued[l] \in Nat /\ issued'[l] \in Nat
    BY <1>2, KnownTypes
  <2>2. \A l \in Logins : issued[l] > 0 => issued'[l] > 0
    <3>. SUFFICES ASSUME NEW l \in Logins, issued[l] > 0  PROVE issued'[l] > 0
      OBVIOUS
    <3>1. issued'[l] = issued[l] \/ issued'[l] = issued[l] + 1
      BY <1>2
    <3>. QED
      BY <2>1, <3>1
  <2>. QED
    BY <1>1, <2>2 DEF Later
<1>4. \A l \in Logins \ lost' : issued'[l] = issued[l]
  <2>. SUFFICES ASSUME NEW l \in Logins, NEW c \in Cores, NEW k \in Callers,
                       coreOf[c].asks[k] = [at |-> "asked", pair |-> Pair(l, issued[l])]
                PROVE  l \in lost'
    BY <1>2
  <2>1. coreOf[c].asks[k].at = "asked" /\ coreOf[c].asks[k].pair.login = l
    BY DEF Pair
  <2>2. coreOf[c].pair.login = l /\ ~Rested(coreOf[c])
    BY <2>1 DEF AccountsInv, CoresTrue, CoreTrue, OwnAsks, Rested
  <2>. QED
    BY <1>1, <2>2, AdriftIs
<1>5. \A c \in Cores : coreOf'[c] = FreeCore
  BY <1>1
<1>6. known' \in [People -> PairType] /\ \A b \in People : known'[b] = NoPair
  BY <1>1, NoPairType DEF NoPairs
<1>7. account'.pair = NoPair /\ operation'.to.pair = NoPair /\ operation'.prev.pair = NoPair
      /\ operation' \in OperationType /\ operation'.kind = "rest" /\ account' \in RecordType
  BY <1>1, NoRecordType
<1>8. AccountsTypeInv'
  BY <1>1, <1>2, <1>6, <1>7, FreeCoreTrue DEF AccountsInv, AccountsTypeInv
<1>9. PlacesTrue'
  BY <1>1, <1>5, <1>7, FreeCoreTrue DEF AccountsInv, PlacesTrue
<1>10. RecordsTrue'
  <2>1. \A b \in People : Owned(keychain.pairs[b], b, issued', owner')
    BY <1>3, OwnedLater DEF AccountsInv, RecordsTrue
  <2>. QED
    BY <1>1, <1>6, <1>7, <2>1, KnownTypes, OwnedNoPair DEF AccountsInv, RecordsTrue
<1>11. CoresTrue'
  BY <1>5, FreeCoreTrue, OwnedNoPair DEF CoresTrue, CoreTrue
<1>12. FreshTrue'
  <2>1. StoppedLost' /\ RefusedLost' /\ ClientFresh'
    BY <1>1, <1>5, FreeCoreTrue DEF StoppedLost, RefusedLost, ClientFresh, Rested
  <2>2. \A q \in Holdings' : q \in Holdings \/ q = NoPair
    BY <1>1, <1>6, <1>7 DEF Holdings
  <2>3. \A q \in Holdings : q.login \in Logins \ lost' => q.turn = issued[q.login]
    BY <1>1, HoldingsAreLast
  <2>4. RecordsFresh'
    BY <1>4, <2>2, <2>3, NoPairType, LoginsAreNumbers DEF RecordsFresh
  <2>. QED
    BY <1>1, <2>1, <2>4 DEF AccountsInv, FreshTrue
<1>. QED
  BY <1>8, <1>9, <1>10, <1>11, <1>12 DEF AccountsInv

-----------------------------------------------------------------------------
LEMMA AccountsInvInit == AccountsInit => AccountsInv
<1>. SUFFICES ASSUME AccountsInit  PROVE AccountsInv
  OBVIOUS
<1>1. PICK first \in Starts, active \in People :
        /\ first = NoPairs \/ first[active] # NoPair
        /\ keychain = [active |-> IF first = NoPairs THEN Nobody ELSE active, pairs |-> first]
        /\ issued = [l \in Logins |-> IF \E a \in People : first[a].login = l THEN 1 ELSE 0]
        /\ owner = [l \in Logins |-> IF issued[l] = 0 THEN Nobody
                                      ELSE CHOOSE a \in People : first[a].login = l]
  BY DEF AccountsInit
<1>2. /\ known = NoPairs /\ account = NoRecord /\ client = NoCore
      /\ operation = Rest /\ launched = FALSE
      /\ coreOf = [c \in Cores |-> FreeCore] /\ lost = {} /\ told = {} /\ gone = {}
  BY DEF AccountsInit
<1>3. first \in [People -> [login : Logins \cup {0}, turn : {0, 1}]]
      /\ \A a, b \in People : /\ first[a].turn = 0 <=> first[a].login = 0
                              /\ first[a].login = first[b].login => a = b \/ first[a].login = 0
  BY AccountsAssumption
<1>4. first \in [People -> PairType] /\ \A a \in People : first[a] \in PairType
  BY <1>3 DEF PairType
<1>5. \A a \in People : first[a] # NoPair =>
        first[a].login \in Logins /\ first[a].turn = 1 /\ issued[first[a].login] = 1
        /\ owner[first[a].login] = a
  <2>. SUFFICES ASSUME NEW a \in People, first[a] # NoPair
                PROVE  first[a].login \in Logins /\ first[a].turn = 1
                       /\ issued[first[a].login] = 1 /\ owner[first[a].login] = a
    OBVIOUS
  <2>1. first[a] \in [login : Logins \cup {0}, turn : {0, 1}]
    BY <1>3
  <2>2. first[a].login \in Logins /\ first[a].turn = 1
    BY <1>3, <2>1 DEF NoPair
  <2>3. issued[first[a].login] = 1
    BY <1>1, <2>2
  <2>4. \A b \in People : first[b].login = first[a].login => b = a
    BY <1>3, <2>2, LoginsAreNumbers
  <2>5. (CHOOSE b \in People : first[b].login = first[a].login) = a
    BY <2>4
  <2>. QED
    BY <1>1, <2>2, <2>3, <2>5
<1>6. issued \in [Logins -> Nat] /\ owner \in [Logins -> People \cup {Nobody}]
  <2>1. issued \in [Logins -> Nat]
    BY <1>1
  <2>2. \A l \in Logins : owner[l] \in People \cup {Nobody}
    <3>. SUFFICES ASSUME NEW l \in Logins, issued[l] # 0
                  PROVE  (CHOOSE a \in People : first[a].login = l) \in People
      BY <1>1
    <3>1. \E a \in People : first[a].login = l
      BY <1>1
    <3>. QED
      BY <3>1
  <2>. QED
    BY <1>1, <2>1, <2>2
<1>7. known \in [People -> PairType] /\ \A b \in People : known[b] = NoPair
  BY <1>2, NoPairType DEF NoPairs
<1>8. account.pair = NoPair /\ operation.to.pair = NoPair /\ operation.prev.pair = NoPair
      /\ operation \in OperationType /\ operation.kind = "rest" /\ account \in RecordType
  BY <1>2, NoRecordType
<1>9. /\ keychain \in [active : People \cup {Nobody}, pairs : [People -> PairType]]
      /\ keychain.pairs = first
      /\ first # NoPairs => keychain.active \in People /\ first[keychain.active] # NoPair
  BY <1>1, <1>4
<1>10. AccountsTypeInv
  BY <1>2, <1>6, <1>7, <1>8, <1>9, FreeCoreTrue DEF AccountsTypeInv
<1>11. \A c \in Cores : coreOf[c] = FreeCore
  BY <1>2
<1>12. PlacesTrue
  BY <1>2, <1>8, <1>9, <1>11, FreeCoreTrue DEF PlacesTrue
<1>13. RecordsTrue
  <2>1. \A a \in People : Owned(first[a], a, issued, owner)
    BY <1>5 DEF Owned
  <2>. QED
    BY <1>2, <1>7, <1>8, <1>9, <2>1, OwnedNoPair DEF RecordsTrue
<1>14. CoresTrue
  BY <1>11, FreeCoreTrue, OwnedNoPair DEF CoresTrue, CoreTrue
<1>15. RecordsFresh
  <2>1. \A q \in Holdings : q = NoPair \/ \E a \in People : q = first[a]
    BY <1>7, <1>8, <1>9 DEF Holdings
  <2>. QED
    BY <1>5, <2>1, NoPairType, LoginsAreNumbers DEF RecordsFresh
<1>16. FreshTrue
  BY <1>2, <1>11, <1>15, FreeCoreTrue
  DEF FreshTrue, StoppedLost, RefusedLost, ClientFresh, Rested
<1>. QED
  BY <1>10, <1>12, <1>13, <1>14, <1>16 DEF AccountsInv

LEMMA AccountsStep == AccountsInv /\ [AccountsNext]_accountsVars => AccountsInv'
<1>. SUFFICES ASSUME AccountsInv, [AccountsNext]_accountsVars  PROVE AccountsInv'
  OBVIOUS
<1>1. ASSUME NEW l \in Logins, AccessRunsOut(l)  PROVE AccountsInv'
  BY <1>1, AccountsRest DEF AccessRunsOut
<1>2. ASSUME NEW c \in Cores, NEW k \in Callers,
             Bearer(c, k) \/ Refresh(c, k) \/ Rotate(c, k) \/ Rotated(c, k) \/ Refused(c, k)
             \/ RefreshFails(c, k)
      PROVE  AccountsInv'
  BY <1>2, BearerStep, RefreshStep, RotateStep, RotatedStep, RefusedStep, RefreshFailsStep
<1>3. ASSUME NEW c \in Cores, CoreEnds(c) \/ Receive(c)  PROVE AccountsInv'
  BY <1>3, CoreEndsStep, ReceiveStep
<1>4. CASE Restore \/ Opened \/ OpenFails
  BY <1>4, RestoreStep, OpenedStep, OpenFailsStep
<1>5. ASSUME NEW a \in People, Switch(a) \/ SignIn(a)  PROVE AccountsInv'
  BY <1>5, SwitchStep, SignInStep
<1>6. CASE Scoped \/ ScopeEnds \/ SignOut \/ SignedOut
  BY <1>6, ScopedStep, ScopeEndsStep, SignOutStep, SignedOutStep
<1>7. CASE AppKilled
  BY <1>7, AppKilledStep
<1>8. CASE UNCHANGED accountsVars
  BY <1>8, AccountsRest DEF accountsVars
<1>. QED
  BY <1>1, <1>2, <1>3, <1>4, <1>5, <1>6, <1>7, <1>8 DEF AccountsNext

LEMMA AccountsAlways == AccountsSpec => []AccountsInv
BY AccountsInvInit, AccountsStep, PTL DEF AccountsSpec

(* A session is reported as expired, which signs the user out, only if one *)
(* of its pairs was lost on the way to the keychain: refreshes of one core *)
(* are serial, and no other core of the session refreshes while its pair   *)
(* can still be the last one (TokenProvider's gate, NativeClient's start). *)
THEOREM AccountsExpiryHonest == AccountsSpec => []ExpiryHonest
<1>1. AccountsInv => ExpiryHonest
  BY DEF AccountsInv, FreshTrue, ExpiryHonest
<1>. QED
  BY <1>1, AccountsAlways, PTL

(* No record holds another account's pair, an account signed out is in     *)
(* none, and between operations the core that runs is the active account's *)
(* (NativeClient's generations and its one operation at a time).           *)
THEOREM AccountsRecordsHonest == AccountsSpec => []RecordsHonest
<1>1. AccountsInv => RecordsHonest
  BY DEF AccountsInv, PlacesTrue, RecordsTrue, Owned, RecordsHonest
<1>. QED
  BY <1>1, AccountsAlways, PTL

-----------------------------------------------------------------------------
(***************************************************************************)
(* The fold of agent events and the writer of EntryWriter, for any calls,  *)
(* any number of events, of ticks and of direct writes: what a reader      *)
(* decodes is what was folded at the last tick, a question under its       *)
(* request's id.                                                           *)
(*                                                                         *)
(* The writer refreshes a map in place from the part alone and never takes *)
(* a field away, so it is right only because the fold never takes one from *)
(* a part either (After).                                                  *)
(***************************************************************************)

PartIds == Calls \cup ({"t", "r", "e"} \X Nat) \cup
           {<<"image", 1>>, <<"in", 1>>, Interrupted}
Chips == {"running", "done", "failed"}

(* A part as the fold makes it: what belongs to another kind is blank, a call
   without a result has not failed, and the image's id is the image's. *)
FoldedPart == {p \in [id : PartIds,
                      kind : {"text", "reasoning", "tool", "input", "error", "image"},
                      request : {<<>>, Question}, text : Nat, call : Nat,
                      failed : BOOLEAN, resolved : BOOLEAN,
                      stats : {None, "lines"}, chip : Chips \cup {None}] :
  /\ p.kind \notin {"text", "reasoning"} => p.text = 0
  /\ p.kind # "tool" => p.call = 0 /\ ~p.failed /\ p.stats = None /\ p.chip = None
  /\ p.kind \notin {"tool", "input"} => ~p.resolved
  /\ p.kind = "tool" => p.id \in Calls /\ (p.failed => p.resolved)
  /\ p.id = <<"image", 1>> => p.kind = "image"
  /\ IF p.kind = "input" THEN p.id = InputId(Question) /\ p.request = Question
     ELSE p.request = <<>>}

(* What becomes of part o may only add to it. *)
After(o, n) ==
  /\ n.id = o.id /\ n.kind = o.kind
  /\ o.resolved => n.resolved
  /\ o.stats # None => n.stats # None
  /\ o.chip # None => n.chip # None

(* The maps are those of the mirror, part by part. *)
MapsTrue == maps = [i \in DOMAIN written |-> ToDocPart(written[i])]

(* The fold holds what was written, and more; nothing of it is recovery's, and
   only a call with a result has statistics. *)
FoldAhead ==
  /\ state = "streaming"
  /\ Len(written) <= Len(folded)
  /\ \A i \in DOMAIN written : After(written[i], folded[i])
  /\ \A i \in DOMAIN folded : folded[i].id # Interrupted
  /\ \A i \in DOMAIN folded : folded[i].stats # None => Had("result", folded[i].id)

Recovered == (\E i \in DOMAIN written : written[i].id = Interrupted) <=> state = "aborted"

EntryInv ==
  /\ folded \in Seq(FoldedPart) /\ written \in Seq(FoldedPart)
  /\ turn \in Seq(Event)
  /\ MapsTrue /\ Recovered
  /\ writing => FoldAhead

(* A part is what its fields are. *)
LEMMA PartIs ==
  ASSUME NEW p \in FoldedPart
  PROVE  /\ p = [id |-> p.id, kind |-> p.kind, request |-> p.request, text |-> p.text,
                 call |-> p.call, failed |-> p.failed, resolved |-> p.resolved,
                 stats |-> p.stats, chip |-> p.chip]
         /\ p.kind \in {"text", "reasoning", "tool", "input", "error", "image"}
         /\ p.text \in Nat /\ p.call \in Nat /\ p.failed \in BOOLEAN /\ p.resolved \in BOOLEAN
         /\ p.stats \in {None, "lines"} /\ p.chip \in Chips \cup {None}
BY DEF FoldedPart

(* A sequence of one element is not empty. *)
LEMMA Single == \A x : <<x>> # <<>> /\ <<x>>[1] = x
<1>. SUFFICES ASSUME NEW x  PROVE <<x>> # <<>>
  OBVIOUS
<1>1. Len(<<x>>) = 1 /\ Len(<<>>) = 0
  OBVIOUS
<1>. QED
  BY <1>1

(* The map of a part, by the kind of part. *)
LEMMA MapOf ==
  ASSUME NEW p \in FoldedPart, NEW m, m = ToDocPart(p)
  PROVE  /\ m = [id |-> StoredId(p), kind |-> p.kind, text |-> m.text, call |-> m.call,
                 isError |-> m.isError, resolved |-> m.resolved, stats |-> p.stats,
                 chip |-> p.chip]
         /\ m.text = IF p.kind \in {"text", "reasoning"} THEN <<p.text>> ELSE <<>>
         /\ m.call = IF p.kind = "tool" THEN <<p.call>> ELSE <<>>
         /\ m.isError = IF p.kind = "tool" /\ p.resolved THEN YesNo(p.failed) ELSE None
         /\ m.resolved = IF p.kind = "input" THEN YesNo(p.resolved) ELSE None
BY DEF ToDocPart

(* What is read from the map of a part is the part, under the id of its map. *)
LEMMA Decodes ==
  ASSUME NEW p \in FoldedPart
  PROVE  FromDocPart(ToDocPart(p)) = AsRead(p)
<1>. DEFINE m == ToDocPart(p)  a == AsRead(p)
<1>a. a = [id |-> StoredId(p), kind |-> p.kind, request |-> p.request, text |-> p.text,
           call |-> p.call, failed |-> p.failed, resolved |-> p.resolved, stats |-> p.stats,
           chip |-> p.chip]
  BY PartIs DEF AsRead
<1>0. /\ m.id = StoredId(p) /\ m.kind = p.kind /\ m.stats = p.stats /\ m.chip = p.chip
      /\ m.text = IF p.kind \in {"text", "reasoning"} THEN <<p.text>> ELSE <<>>
      /\ m.call = IF p.kind = "tool" THEN <<p.call>> ELSE <<>>
      /\ m.isError = IF p.kind = "tool" /\ p.resolved THEN YesNo(p.failed) ELSE None
      /\ m.resolved = IF p.kind = "input" THEN YesNo(p.resolved) ELSE None
  BY DEF ToDocPart
<1>. HIDE DEF m, a
<1>1. CASE p.kind = "tool"
  <2>1. FromDocPart(m) = [id |-> m.id, kind |-> m.kind, request |-> <<>>, text |-> 0,
                          call |-> m.call[1], failed |-> (m.isError = "yes"), resolved |-> (m.isError # None),
                          stats |-> m.stats, chip |-> m.chip]
    BY <1>0, <1>1, Single DEF FromDocPart, Part
  <2>2. (m.isError = "yes") = p.failed /\ (m.isError # None) = p.resolved
    BY <1>0, <1>1, PartIs DEF FoldedPart, YesNo, None
  <2>3. p.text = 0 /\ p.request = <<>>
    BY <1>1 DEF FoldedPart
  <2>. QED
    BY <1>a, <1>0, <1>1, <2>1, <2>2, <2>3, Single DEF m, a
<1>2. CASE p.kind = "input"
  <2>1. FromDocPart(m) = [id |-> m.id, kind |-> m.kind, request |-> m.id, text |-> 0,
                          call |-> 0, failed |-> FALSE, resolved |-> (m.resolved = "yes"),
                          stats |-> None, chip |-> None]
    BY <1>0, <1>2 DEF FromDocPart, Part
  <2>2. (m.resolved = "yes") = p.resolved
    BY <1>0, <1>2, PartIs DEF YesNo
  <2>3. /\ p.text = 0 /\ p.call = 0 /\ p.failed = FALSE /\ p.stats = None /\ p.chip = None
        /\ StoredId(p) = p.request
    BY <1>2 DEF FoldedPart, StoredId
  <2>. QED
    BY <1>a, <1>0, <1>2, <2>1, <2>2, <2>3 DEF m, a
<1>3. CASE p.kind \in {"error", "image"}
  <2>1. FromDocPart(m) = [id |-> m.id, kind |-> m.kind, request |-> <<>>, text |-> 0,
                          call |-> 0, failed |-> FALSE, resolved |-> FALSE, stats |-> None, chip |-> None]
    BY <1>0, <1>3 DEF FromDocPart, Part
  <2>2. /\ p.text = 0 /\ p.call = 0 /\ p.failed = FALSE /\ p.resolved = FALSE
        /\ p.stats = None /\ p.chip = None /\ p.request = <<>>
    BY <1>3 DEF FoldedPart
  <2>. QED
    BY <1>a, <1>0, <1>3, <2>1, <2>2 DEF m, a
<1>4. CASE p.kind \in {"text", "reasoning"}
  <2>1. FromDocPart(m) = [id |-> m.id, kind |-> m.kind, request |-> <<>>, text |-> m.text[1],
                          call |-> 0, failed |-> FALSE, resolved |-> FALSE, stats |-> None, chip |-> None]
    BY <1>0, <1>4, Single DEF FromDocPart, Part
  <2>2. /\ p.call = 0 /\ p.failed = FALSE /\ p.resolved = FALSE
        /\ p.stats = None /\ p.chip = None /\ p.request = <<>>
    BY <1>4 DEF FoldedPart
  <2>. QED
    BY <1>a, <1>0, <1>4, <2>1, <2>2, Single DEF m, a
<1>. QED
  BY <1>1, <1>2, <1>3, <1>4, PartIs DEF m, a

(* A map refreshed in place is the map of the new part: no field is left behind. *)
LEMMA Refreshes ==
  ASSUME NEW o \in FoldedPart, NEW n \in FoldedPart, After(o, n)
  PROVE  /\ UpdateFields(ToDocPart(o), n) = ToDocPart(n)
         /\ n.kind \in {"text", "reasoning"} =>
              [ToDocPart(o) EXCEPT !.text = <<n.text>>] = ToDocPart(n)
<1>. DEFINE m == ToDocPart(o)  d == ToDocPart(n)
<1>1. /\ m = [id |-> StoredId(o), kind |-> o.kind, text |-> m.text, call |-> m.call,
              isError |-> m.isError, resolved |-> m.resolved, stats |-> o.stats, chip |-> o.chip]
      /\ m.text = IF o.kind \in {"text", "reasoning"} THEN <<o.text>> ELSE <<>>
      /\ m.call = IF o.kind = "tool" THEN <<o.call>> ELSE <<>>
      /\ m.isError = IF o.kind = "tool" /\ o.resolved THEN YesNo(o.failed) ELSE None
      /\ m.resolved = IF o.kind = "input" THEN YesNo(o.resolved) ELSE None
  BY MapOf
<1>2. /\ d = [id |-> StoredId(n), kind |-> n.kind, text |-> d.text, call |-> d.call,
              isError |-> d.isError, resolved |-> d.resolved, stats |-> n.stats, chip |-> n.chip]
      /\ d.text = IF n.kind \in {"text", "reasoning"} THEN <<n.text>> ELSE <<>>
      /\ d.call = IF n.kind = "tool" THEN <<n.call>> ELSE <<>>
      /\ d.isError = IF n.kind = "tool" /\ n.resolved THEN YesNo(n.failed) ELSE None
      /\ d.resolved = IF n.kind = "input" THEN YesNo(n.resolved) ELSE None
  BY MapOf
<1>3. UpdateFields(m, n) =
        [id |-> m.id, kind |-> m.kind, text |-> IF m.text = <<>> THEN m.text
                                               ELSE IF d.text = <<>> THEN m.text ELSE d.text,
         call |-> IF d.call = <<>> THEN m.call ELSE d.call,
         isError |-> IF d.isError = None THEN m.isError ELSE d.isError,
         resolved |-> IF d.resolved = None THEN m.resolved ELSE d.resolved,
         stats |-> IF d.stats = None THEN m.stats ELSE d.stats,
         chip |-> IF d.chip = None THEN m.chip ELSE d.chip]
  <2>. HIDE DEF m
  <2>1. m = [id |-> m.id, kind |-> m.kind, text |-> m.text, call |-> m.call,
             isError |-> m.isError, resolved |-> m.resolved, stats |-> m.stats, chip |-> m.chip]
    BY <1>1
  <2>. QED
    <3>1. UpdateFields(m, n) =
            [m EXCEPT !.text = IF m.text = <<>> THEN m.text
                               ELSE IF d.text = <<>> THEN m.text ELSE d.text,
                      !.call = IF d.call = <<>> THEN m.call ELSE d.call,
                      !.isError = IF d.isError = None THEN m.isError ELSE d.isError,
                      !.resolved = IF d.resolved = None THEN m.resolved ELSE d.resolved,
                      !.stats = IF d.stats = None THEN m.stats ELSE d.stats,
                      !.chip = IF d.chip = None THEN m.chip ELSE d.chip]
      BY DEF UpdateFields, d
    <3>. QED
      BY <2>1, <3>1
<1>. HIDE DEF m, d
<1>4. n.id = o.id /\ n.kind = o.kind /\ (o.resolved => n.resolved)
      /\ (o.stats # None => n.stats # None) /\ (o.chip # None => n.chip # None)
  BY DEF After
<1>5. StoredId(n) = StoredId(o)
  BY <1>4 DEF FoldedPart, StoredId
<1>6. (IF m.text = <<>> THEN m.text ELSE IF d.text = <<>> THEN m.text ELSE d.text) = d.text
      /\ (IF d.call = <<>> THEN m.call ELSE d.call) = d.call
  BY <1>1, <1>2, <1>4, Single
<1>7. (IF d.isError = None THEN m.isError ELSE d.isError) = d.isError
      /\ (IF d.resolved = None THEN m.resolved ELSE d.resolved) = d.resolved
  BY <1>1, <1>2, <1>4, PartIs DEF YesNo, None
<1>8. d.stats = n.stats /\ d.chip = n.chip /\ m.stats = o.stats /\ m.chip = o.chip
      /\ m.id = StoredId(o) /\ m.kind = o.kind
  BY <1>1, <1>2
<1>9. UpdateFields(m, n) = d
  BY <1>2, <1>3, <1>4, <1>5, <1>6, <1>7, <1>8
<1>10. ASSUME n.kind \in {"text", "reasoning"}  PROVE [m EXCEPT !.text = <<n.text>>] = d
  <2>1. m.call = d.call /\ m.isError = d.isError /\ m.resolved = d.resolved /\ d.text = <<n.text>>
    BY <1>1, <1>2, <1>4, <1>10
  <2>2. m.stats = d.stats /\ m.chip = d.chip
    BY <1>8, <1>10, <1>4 DEF FoldedPart
  <2>3. [m EXCEPT !.text = <<n.text>>] =
          [id |-> StoredId(o), kind |-> o.kind, text |-> <<n.text>>, call |-> m.call,
           isError |-> m.isError, resolved |-> m.resolved, stats |-> o.stats, chip |-> o.chip]
    BY <1>1
  <2>. QED
    BY <1>2, <1>4, <1>5, <1>8, <2>1, <2>2, <2>3
<1>. QED
  BY <1>9, <1>10 DEF m, d

(* After is reflexive and transitive. *)
LEMMA AfterItself == \A p : After(p, p)
BY DEF After

LEMMA AfterAfter == \A o, m, n : After(o, m) /\ After(m, n) => After(o, n)
BY DEF After

-----------------------------------------------------------------------------
(* The maps when sync has been over the parts up to i. *)
UpToPart(i) ==
  [j \in 1..(IF i < Len(written) THEN Len(written) ELSE i) |->
     ToDocPart(IF j <= i THEN folded[j] ELSE written[j])]

DocParts == {ToDocPart(p) : p \in FoldedPart}

(* One part of a sync brings the maps one part further. *)
LEMMA SyncsPart ==
  ASSUME EntryInv, FoldAhead, NEW i \in 1..Len(folded)
  PROVE  SyncPart(UpToPart(i - 1), i, folded[i]) = UpToPart(i)
<1>. DEFINE ms == UpToPart(i - 1)
<1>1. /\ Len(written) \in Nat /\ Len(folded) \in Nat /\ Len(written) <= Len(folded)
      /\ DOMAIN written = 1..Len(written) /\ DOMAIN folded = 1..Len(folded)
      /\ \A j \in 1..Len(folded) : folded[j] \in FoldedPart
      /\ \A j \in 1..Len(written) : written[j] \in FoldedPart
  BY DEF EntryInv, FoldAhead
<1>2. CASE i > Len(written)
  <2>1. ms = [j \in 1..(i - 1) |-> ToDocPart(folded[j])]
    BY <1>1, <1>2 DEF UpToPart
  <2>2. UpToPart(i) = [j \in 1..i |-> ToDocPart(folded[j])]
    BY <1>1, <1>2 DEF UpToPart
  <2>3. SyncPart(ms, i, folded[i]) = Append(ms, ToDocPart(folded[i]))
    BY <1>2 DEF SyncPart
  <2>4. ms \in Seq(DocParts) /\ Len(ms) = i - 1 /\ ToDocPart(folded[i]) \in DocParts
    BY <1>1, <2>1 DEF DocParts
  <2>5. Append(ms, ToDocPart(folded[i])) = UpToPart(i)
    <3>. HIDE DEF ms
    <3>. DEFINE d == ToDocPart(folded[i])
    <3>1. UpToPart(i) = [j \in 1..i |-> IF j = i THEN d ELSE ms[j]]
      BY <2>1, <2>2
    <3>. HIDE DEF d
    <3>. QED
      BY <2>4, <3>1 DEF d
  <2>. QED
    BY <2>3, <2>5
<1>3. CASE i <= Len(written)
  <2>. DEFINE n == Len(written)
  <2>1. ms = [j \in 1..n |-> ToDocPart(IF j <= i - 1 THEN folded[j] ELSE written[j])]
    BY <1>1, <1>3 DEF UpToPart
  <2>2. UpToPart(i) = [j \in 1..n |-> ToDocPart(IF j <= i THEN folded[j] ELSE written[j])]
    BY <1>1, <1>3 DEF UpToPart
  <2>3. ms[i] = ToDocPart(written[i]) /\ UpToPart(i) = [ms EXCEPT ![i] = ToDocPart(folded[i])]
    <3>. HIDE DEF ms
    <3>. QED
      BY <1>1, <1>3, <2>1, <2>2
  <2>4. After(written[i], folded[i]) /\ written[i] \in FoldedPart /\ folded[i] \in FoldedPart
    BY <1>1, <1>3 DEF FoldAhead
  <2>5. ms = [ms EXCEPT ![i] = ms[i]]
    <3>. HIDE DEF ms
    <3>. QED
      BY <2>1
  <2>. HIDE DEF ms
  <2>6. CASE written[i] = folded[i]
    <3>1. SyncPart(ms, i, folded[i]) = ms
      BY <1>1, <1>3, <2>6 DEF SyncPart
    <3>2. ms[i] = ToDocPart(folded[i])
      BY <2>3, <2>6
    <3>. QED
      BY <2>3, <2>5, <3>1, <3>2 DEF ms
  <2>7. CASE written[i] # folded[i]
    <3>1. UpdateFields(ms[i], folded[i]) = ToDocPart(folded[i])
      BY <2>3, <2>4, Refreshes
    <3>2. folded[i].kind \in {"text", "reasoning"} =>
            [ms[i] EXCEPT !.text = <<folded[i].text>>] = ToDocPart(folded[i])
      BY <2>3, <2>4, Refreshes
    <3>. QED
      <4>. DEFINE p == folded[i]  w == written[i]
      <4>1. SyncPart(ms, i, p) = [ms EXCEPT ![i] = UpdateFields(ms[i], p)]
            \/ /\ p.kind \in {"text", "reasoning"}
               /\ SyncPart(ms, i, p) = [ms EXCEPT ![i].text = <<p.text>>]
        BY <1>1, <1>3, <2>7 DEF SyncPart
      <4>2. [ms EXCEPT ![i].text = <<p.text>>] = [ms EXCEPT ![i] = [ms[i] EXCEPT !.text = <<p.text>>]]
        OBVIOUS
      <4>. QED
        BY <2>3, <3>1, <3>2, <4>1, <4>2 DEF ms
  <2>. QED
    BY <2>6, <2>7
<1>. QED
  BY <1>1, <1>2, <1>3

(* The value of Synced's recursive function at i. *)
Syncing(d, i) == IF i = 0 THEN maps ELSE SyncPart(d[i - 1], i, folded[i])

(* A sync makes the maps those of the fold. *)
LEMMA Syncs ==
  ASSUME EntryInv, FoldAhead
  PROVE  Synced(maps) = [i \in DOMAIN folded |-> ToDocPart(folded[i])]
<1>. DEFINE N == Len(folded)
            h == [i \in 0..N |-> UpToPart(i)]
<1>1. /\ Len(written) \in Nat /\ N \in Nat /\ Len(written) <= N
      /\ DOMAIN written = 1..Len(written) /\ DOMAIN folded = 1..N
  BY DEF EntryInv, FoldAhead
<1>2. UpToPart(0) = maps
  <2>1. UpToPart(0) = [j \in 1..Len(written) |-> ToDocPart(written[j])]
    BY <1>1 DEF UpToPart
  <2>. QED
    BY <1>1, <2>1 DEF EntryInv, MapsTrue
<1>3. \A i \in 0..N : h[i] = Syncing(h, i)
  <2>. SUFFICES ASSUME NEW i \in 0..N  PROVE h[i] = Syncing(h, i)
    OBVIOUS
  <2>1. CASE i = 0
    BY <1>2, <2>1 DEF Syncing
  <2>2. CASE i # 0
    <3>1. i \in 1..N /\ h[i - 1] = UpToPart(i - 1) /\ h[i] = UpToPart(i)
      BY <1>1, <2>2
    <3>2. SyncPart(UpToPart(i - 1), i, folded[i]) = UpToPart(i)
      BY <3>1, SyncsPart
    <3>. QED
      BY <2>2, <3>1, <3>2 DEF Syncing
  <2>. QED
    BY <2>1, <2>2
<1>4. h = [i \in 0..N |-> Syncing(h, i)]
  <2>1. h = [i \in 0..N |-> h[i]]
    OBVIOUS
  <2>. HIDE DEF h
  <2>. QED
    BY <1>3, <2>1
<1>5. PICK d : d = [i \in 0..N |-> Syncing(d, i)] /\ Synced(maps) = d[N]
  <2>1. \E d : d = [i \in 0..N |-> Syncing(d, i)]
    <3>. HIDE DEF h
    <3>. QED
      BY <1>4
  <2>. QED
    BY <2>1 DEF Synced, Syncing
<1>6. d[0] = UpToPart(0)
  BY <1>1, <1>2, <1>5 DEF Syncing
<1>7. ASSUME NEW n \in 0..(N - 1), d[n] = UpToPart(n)  PROVE d[n + 1] = UpToPart(n + 1)
  <2>1. n + 1 \in 1..N /\ n + 1 \in 0..N /\ (n + 1) - 1 = n /\ n + 1 # 0
    BY <1>1
  <2>2. d[n + 1] = Syncing(d, n + 1)
    BY <1>5, <2>1
  <2>3. d[n + 1] = SyncPart(UpToPart(n), n + 1, folded[n + 1])
    BY <1>7, <2>1, <2>2 DEF Syncing
  <2>4. SyncPart(UpToPart((n + 1) - 1), n + 1, folded[n + 1]) = UpToPart(n + 1)
    BY <2>1, SyncsPart
  <2>. QED
    BY <2>1, <2>3, <2>4
<1>8. d[N] = UpToPart(N)
  <2>. DEFINE S == {n \in Nat : d[n] = UpToPart(n)}
  <2>1. 0 \in S /\ \A n \in 0..(N - 1) : n \in S => n + 1 \in S
    BY <1>6, <1>7
  <2>. HIDE DEF S
  <2>2. N \in S
    BY <1>1, <2>1, UpTo
  <2>. QED
    BY <2>2 DEF S
<1>9. UpToPart(N) = [i \in 1..N |-> ToDocPart(folded[i])]
  <2>1. (IF N < Len(written) THEN Len(written) ELSE N) = N
    <3>1. ~(N < Len(written))
      BY <1>1
    <3>. QED
      BY <3>1
  <2>. QED
    BY <2>1 DEF UpToPart
<1>. QED
  BY <1>1, <1>5, <1>8, <1>9

-----------------------------------------------------------------------------
(* What the fold makes of its parts: it adds to some, or appends one. *)
Extends(F, G) ==
  /\ G \in Seq(FoldedPart) /\ Len(F) <= Len(G)
  /\ \A i \in DOMAIN F : After(F[i], G[i])

(* And it adds statistics to the call of a result only. *)
FoldsTo(F, G, event) ==
  /\ Extends(F, G)
  /\ \A i \in DOMAIN G : G[i].id # Interrupted
  /\ \A i \in DOMAIN G : G[i].stats # None =>
       \/ i \in DOMAIN F /\ F[i].id = G[i].id /\ F[i].stats # None
       \/ event.type = "result" /\ event.id = G[i].id

Foldable(F, event) ==
  /\ F \in Seq(FoldedPart) /\ event \in Event
  /\ \A i \in DOMAIN F : F[i].id # Interrupted
  /\ event.type = "result" => \A i \in DOMAIN F : F[i].id = event.id => F[i].stats = None

(* What one part may become under an event. *)
Becomes(p, q, event) ==
  /\ q \in FoldedPart /\ After(p, q)
  /\ q.stats # None => p.stats # None \/ (event.type = "result" /\ event.id = q.id)

(* An event that changes parts in place. *)
LEMMA InPlace ==
  ASSUME NEW F, NEW event, Foldable(F, event), NEW G, G = [i \in DOMAIN F |-> G[i]],
         \A i \in DOMAIN F : Becomes(F[i], G[i], event)
  PROVE  FoldsTo(F, G, event)
<1>1. DOMAIN G = DOMAIN F /\ DOMAIN F = 1..Len(F) /\ Len(F) \in Nat
  BY DEF Foldable
<1>2. G \in Seq(FoldedPart) /\ Len(G) = Len(F)
  <2>1. \A i \in 1..Len(F) : G[i] \in FoldedPart
    BY <1>1 DEF Becomes
  <2>2. G = [i \in 1..Len(F) |-> G[i]]
    BY <1>1
  <2>. QED
    BY <1>1, <2>1, <2>2
<1>. QED
  BY <1>1, <1>2 DEF FoldsTo, Extends, Becomes, Foldable, After

(* An event that appends a part. *)
LEMMA ByOne ==
  ASSUME NEW F, NEW event, Foldable(F, event), NEW p \in FoldedPart,
         p.id # Interrupted, p.stats = None
  PROVE  FoldsTo(F, Append(F, p), event)
<1>. DEFINE G == Append(F, p)
<1>1. F \in Seq(FoldedPart) /\ Len(F) \in Nat /\ DOMAIN F = 1..Len(F)
  BY DEF Foldable
<1>2. G \in Seq(FoldedPart) /\ Len(G) = Len(F) + 1 /\ DOMAIN G = 1..(Len(F) + 1)
      /\ G[Len(F) + 1] = p /\ \A i \in DOMAIN F : G[i] = F[i]
  BY <1>1
<1>. HIDE DEF G
<1>. QED
  BY <1>1, <1>2, AfterItself DEF FoldsTo, Extends, Foldable

(* What an event leaves of a part it is not about. *)
LEMMA Untouched ==
  ASSUME NEW F, NEW event, Foldable(F, event), NEW i \in DOMAIN F
  PROVE  Becomes(F[i], F[i], event)
BY AfterItself DEF Becomes, Foldable

(* The parts an event starts. *)
LEMMA PartStarts ==
  ASSUME NEW id \in PartIds
  PROVE  /\ id # <<"image", 1>> =>
              /\ \A n \in Nat : /\ [Part EXCEPT !.id = id, !.kind = "text", !.text = n] \in FoldedPart
                                /\ [Part EXCEPT !.id = id, !.kind = "reasoning", !.text = n] \in FoldedPart
              /\ [Part EXCEPT !.id = id, !.kind = "error"] \in FoldedPart
         /\ [Part EXCEPT !.id = id, !.kind = "image"] \in FoldedPart
         /\ id \in Calls => [Part EXCEPT !.id = id, !.kind = "tool", !.call = 1] \in FoldedPart
         /\ [Part EXCEPT !.id = InputId(Question), !.kind = "input", !.request = Question]
              \in FoldedPart
<1>1. <<"image", 1>> \notin Calls
  BY EntryAssumption
<1>2. InputId(Question) \in PartIds /\ InputId(Question) # <<"image", 1>>
  BY DEF InputId, Question, PartIds
<1>. QED
  BY <1>1, <1>2 DEF FoldedPart, Part, None

(* The ids of the parts of different kinds do not meet. *)
LEMMA Tags ==
  /\ \A n \in Nat, k \in {"t", "r", "e"} :
       <<k, n>> \in PartIds /\ <<k, n>> # Interrupted /\ <<k, n>> # <<"image", 1>>
  /\ InputId(Question) # Interrupted /\ Question # Interrupted
  /\ <<"image", 1>> \in PartIds /\ <<"image", 1>> # Interrupted
  /\ \A c \in Calls : c \in PartIds /\ c # Interrupted /\ c # <<"image", 1>>
BY EntryAssumption DEF PartIds, Interrupted, InputId, Question

(* A text that grows, a call that is made again, an answer, a result, a
   subagent's news. *)
LEMMA TextGrows ==
  ASSUME NEW p \in FoldedPart, p.kind \in {"text", "reasoning"}
  PROVE  LET q == [p EXCEPT !.text = @ + 1] IN q \in FoldedPart /\ After(p, q) /\ q.stats = p.stats
BY DEF FoldedPart, After

LEMMA CallAgain ==
  ASSUME NEW p \in FoldedPart, p.kind = "tool"
  PROVE  LET q == [p EXCEPT !.call = 2] IN q \in FoldedPart /\ After(p, q) /\ q.stats = p.stats
BY DEF FoldedPart, After

LEMMA Answered ==
  ASSUME NEW p \in FoldedPart, p.kind = "input"
  PROVE  LET q == [p EXCEPT !.resolved = TRUE]
         IN  q \in FoldedPart /\ After(p, q) /\ q.stats = p.stats
BY DEF FoldedPart, After

LEMMA PartResolves ==
  ASSUME NEW p \in FoldedPart, p.kind = "tool", p.stats = None, NEW failed \in BOOLEAN,
         NEW stats \in {None, "lines"}
  PROVE  LET q == [p EXCEPT !.failed = failed, !.resolved = TRUE, !.stats = stats]
         IN  q \in FoldedPart /\ After(p, q) /\ q.id = p.id
BY DEF FoldedPart, After

LEMMA PartReports ==
  ASSUME NEW p \in FoldedPart, p.kind = "tool", NEW chip \in Chips
  PROVE  LET q == [p EXCEPT !.chip = chip]
         IN  q \in FoldedPart /\ After(p, q) /\ q.stats = p.stats
BY DEF FoldedPart, After, Chips, None

(* An image that comes again is the image. *)
LEMMA ImageAgain ==
  ASSUME NEW p \in FoldedPart, p.id = <<"image", 1>>
  PROVE  LET q == [Part EXCEPT !.id = <<"image", 1>>, !.kind = "image"]
         IN  q \in FoldedPart /\ After(p, q) /\ q.stats = p.stats
<1>1. [Part EXCEPT !.id = <<"image", 1>>, !.kind = "image"] \in FoldedPart
  BY PartStarts, Tags
<1>. QED
  BY <1>1 DEF FoldedPart, After, Part, None

(* One lemma for each kind of event. *)
LEMMA FoldTextStep ==
  ASSUME NEW F, NEW event, Foldable(F, event), NEW kind \in {"text", "reasoning"},
         NEW tag \in {"t", "r"}
  PROVE  FoldsTo(F, FoldText(F, kind, tag, 1), event)
<1>1. F \in Seq(FoldedPart) /\ Len(F) \in Nat /\ DOMAIN F = 1..Len(F)
  BY DEF Foldable
<1>2. CASE F # <<>> /\ Last(F).kind = kind
  <2>. DEFINE n == Len(F)
              G == [F EXCEPT ![n].text = @ + 1]
  <2>1. n \in DOMAIN F /\ F[n].kind = kind /\ F[n] \in FoldedPart
    BY <1>1, <1>2 DEF Last
  <2>2. FoldText(F, kind, tag, 1) = G
    BY <1>2 DEF FoldText
  <2>3. G = [i \in DOMAIN F |-> G[i]] /\ (\A i \in DOMAIN F : i # n => G[i] = F[i])
        /\ G[n] = [F[n] EXCEPT !.text = @ + 1]
    BY <1>1, <2>1
  <2>. HIDE DEF G
  <2>4. \A i \in DOMAIN F : Becomes(F[i], G[i], event)
    <3>1. Becomes(F[n], G[n], event)
      BY <2>1, <2>3, TextGrows DEF Becomes
    <3>2. \A i \in DOMAIN F : i # n => Becomes(F[i], G[i], event)
      BY <2>3, Untouched
    <3>. QED
      BY <3>1, <3>2
  <2>. QED
    BY <2>2, <2>3, <2>4, InPlace
<1>3. CASE ~(F # <<>> /\ Last(F).kind = kind)
  <2>. DEFINE p == [Part EXCEPT !.id = <<tag, Len(F)>>, !.kind = kind, !.text = 1]
  <2>1. FoldText(F, kind, tag, 1) = Append(F, p)
    BY <1>3 DEF FoldText
  <2>2. <<tag, Len(F)>> \in PartIds /\ <<tag, Len(F)>> # Interrupted
        /\ <<tag, Len(F)>> # <<"image", 1>>
    BY <1>1, Tags
  <2>3. p \in FoldedPart
    BY <2>2, PartStarts
  <2>4. p.id = <<tag, Len(F)>> /\ p.stats = None
    BY DEF Part
  <2>. HIDE DEF p
  <2>. QED
    BY <2>1, <2>2, <2>3, <2>4, ByOne
<1>. QED
  BY <1>2, <1>3

LEMMA FoldCallStep ==
  ASSUME NEW F, NEW event, Foldable(F, event), NEW id \in Calls
  PROVE  FoldsTo(F, FoldCall(F, id), event)
<1>1. F \in Seq(FoldedPart) /\ \A i \in DOMAIN F : F[i] \in FoldedPart
  BY DEF Foldable
<1>2. CASE \E i \in DOMAIN F : F[i].kind = "tool" /\ F[i].id = id
  <2>. DEFINE G == [i \in DOMAIN F |-> IF F[i].kind = "tool" /\ F[i].id = id
                                         THEN [F[i] EXCEPT !.call = 2] ELSE F[i]]
  <2>1. FoldCall(F, id) = G
    BY <1>2 DEF FoldCall, Each
  <2>2. \A i \in DOMAIN F : Becomes(F[i], G[i], event)
    BY <1>1, CallAgain, Untouched DEF Becomes
  <2>3. G = [i \in DOMAIN F |-> G[i]]
    OBVIOUS
  <2>. HIDE DEF G
  <2>. QED
    BY <2>1, <2>2, <2>3, InPlace
<1>3. CASE ~\E i \in DOMAIN F : F[i].kind = "tool" /\ F[i].id = id
  <2>. DEFINE p == [Part EXCEPT !.id = id, !.kind = "tool", !.call = 1]
  <2>1. FoldCall(F, id) = Append(F, p)
    BY <1>3 DEF FoldCall
  <2>2. id \in PartIds /\ id # Interrupted
    BY Tags
  <2>3. p \in FoldedPart
    BY <2>2, PartStarts
  <2>4. p.id = id /\ p.stats = None
    BY DEF Part
  <2>. HIDE DEF p
  <2>. QED
    BY <2>1, <2>2, <2>3, <2>4, ByOne
<1>. QED
  BY <1>2, <1>3

LEMMA FoldResultStep ==
  ASSUME NEW F, NEW event, Foldable(F, event), event.type = "result",
         event.failed \in BOOLEAN, event.stats \in {None, "lines"}
  PROVE  FoldsTo(F, FoldResult(F, event.id, event.failed, event.stats), event)
<1>1. F \in Seq(FoldedPart) /\ \A i \in DOMAIN F : F[i] \in FoldedPart
  BY DEF Foldable
<1>. DEFINE id == event.id
            q(p) == [p EXCEPT !.failed = event.failed, !.resolved = TRUE, !.stats = event.stats]
            G == [i \in DOMAIN F |-> IF F[i].kind = "tool" /\ F[i].id = id THEN q(F[i]) ELSE F[i]]
<1>2. FoldResult(F, event.id, event.failed, event.stats) = G
  BY DEF FoldResult, Each
<1>3. ASSUME NEW i \in DOMAIN F  PROVE Becomes(F[i], G[i], event)
  <2>1. CASE F[i].kind = "tool" /\ F[i].id = id
    <3>1. F[i].stats = None /\ F[i] \in FoldedPart
      BY <1>1, <2>1 DEF Foldable
    <3>2. q(F[i]) \in FoldedPart /\ After(F[i], q(F[i])) /\ q(F[i]).id = F[i].id
      BY <2>1, <3>1, PartResolves
    <3>. QED
      BY <2>1, <3>2 DEF Becomes
  <2>2. CASE ~(F[i].kind = "tool" /\ F[i].id = id)
    BY <2>2, Untouched
  <2>. QED
    BY <2>1, <2>2
<1>4. G = [i \in DOMAIN F |-> G[i]]
  OBVIOUS
<1>. HIDE DEF G
<1>. QED
  BY <1>2, <1>3, <1>4, InPlace

LEMMA FoldImageStep ==
  ASSUME NEW F, NEW event, Foldable(F, event)
  PROVE  FoldsTo(F, FoldImage(F, <<"image", 1>>), event)
<1>1. F \in Seq(FoldedPart) /\ \A i \in DOMAIN F : F[i] \in FoldedPart
  BY DEF Foldable
<1>. DEFINE id == <<"image", 1>>
            p == [Part EXCEPT !.id = id, !.kind = "image"]
<1>2. CASE \E i \in DOMAIN F : F[i].id = id
  <2>. DEFINE G == [i \in DOMAIN F |-> IF F[i].id = id THEN p ELSE F[i]]
  <2>1. FoldImage(F, id) = G
    BY <1>2 DEF FoldImage, Each
  <2>2. \A i \in DOMAIN F : Becomes(F[i], G[i], event)
    BY <1>1, ImageAgain, Untouched DEF Becomes
  <2>3. G = [i \in DOMAIN F |-> G[i]]
    OBVIOUS
  <2>. HIDE DEF G
  <2>. QED
    BY <2>1, <2>2, <2>3, InPlace
<1>3. CASE ~\E i \in DOMAIN F : F[i].id = id
  <2>1. FoldImage(F, id) = Append(F, p)
    BY <1>3 DEF FoldImage
  <2>2. p \in FoldedPart
    BY PartStarts, Tags
  <2>3. p.id = id /\ p.stats = None
    BY DEF Part
  <2>4. id # Interrupted
    BY Tags
  <2>. HIDE DEF p
  <2>. QED
    BY <2>1, <2>2, <2>3, <2>4, ByOne
<1>. QED
  BY <1>2, <1>3

LEMMA FoldInputStep ==
  ASSUME NEW F, NEW event, Foldable(F, event)
  PROVE  /\ FoldsTo(F, FoldInput(F, Question), event)
         /\ FoldsTo(F, FoldAnswer(F, Question), event)
<1>1. F \in Seq(FoldedPart) /\ \A i \in DOMAIN F : F[i] \in FoldedPart
  BY DEF Foldable
<1>. DEFINE p == [Part EXCEPT !.id = InputId(Question), !.kind = "input", !.request = Question]
            G == [i \in DOMAIN F |-> IF F[i].kind = "input" /\ F[i].request = Question
                                       THEN [F[i] EXCEPT !.resolved = TRUE] ELSE F[i]]
<1>2. FoldsTo(F, F, event)
  <2>1. F = [i \in DOMAIN F |-> F[i]]
    BY <1>1
  <2>. QED
    BY <2>1, Untouched, InPlace
<1>3. FoldsTo(F, FoldInput(F, Question), event)
  <2>1. FoldInput(F, Question) = F \/ FoldInput(F, Question) = Append(F, p)
    BY DEF FoldInput
  <2>2. p \in FoldedPart
    BY PartStarts, Tags
  <2>3. p.id = InputId(Question) /\ p.stats = None
    BY DEF Part
  <2>4. InputId(Question) # Interrupted
    BY Tags
  <2>. HIDE DEF p
  <2>. QED
    BY <1>2, <2>1, <2>2, <2>3, <2>4, ByOne
<1>4. FoldsTo(F, FoldAnswer(F, Question), event)
  <2>1. FoldAnswer(F, Question) = G
    BY DEF FoldAnswer, Each
  <2>2. \A i \in DOMAIN F : Becomes(F[i], G[i], event)
    BY <1>1, Answered, Untouched DEF Becomes
  <2>3. G = [i \in DOMAIN F |-> G[i]]
    OBVIOUS
  <2>. HIDE DEF G
  <2>. QED
    BY <2>1, <2>2, <2>3, InPlace
<1>. QED
  BY <1>3, <1>4

LEMMA FoldErrorStep ==
  ASSUME NEW F, NEW event, Foldable(F, event)
  PROVE  FoldsTo(F, FoldError(F), event)
<1>1. Len(F) \in Nat
  BY DEF Foldable
<1>. DEFINE id == <<"e", Len(F)>>
            p == [Part EXCEPT !.id = id, !.kind = "error"]
<1>2. id \in PartIds /\ id # Interrupted /\ id # <<"image", 1>>
  BY <1>1, Tags
<1>3. p \in FoldedPart
  BY <1>2, PartStarts
<1>4. p.id = id /\ p.stats = None
  BY DEF Part
<1>5. FoldError(F) = Append(F, p)
  BY DEF FoldError
<1>. HIDE DEF p
<1>. QED
  BY <1>2, <1>3, <1>4, <1>5, ByOne

LEMMA FoldSubagentStep ==
  ASSUME NEW F, NEW event, Foldable(F, event), NEW id,
         NEW news \in {"running", "traffic", "done", "failed"}
  PROVE  FoldsTo(F, FoldSubagent(F, id, news), event)
<1>1. F \in Seq(FoldedPart) /\ \A i \in DOMAIN F : F[i] \in FoldedPart
  BY DEF Foldable
<1>. DEFINE chip(p) == IF news # "traffic" THEN news
                       ELSE IF p.chip \in {"done", "failed"} THEN p.chip ELSE "running"
            G == [i \in DOMAIN F |-> IF F[i].kind = "tool" /\ F[i].id = id /\ id \in Spawns
                                       THEN [F[i] EXCEPT !.chip = chip(F[i])] ELSE F[i]]
<1>2. FoldSubagent(F, id, news) = G
  BY DEF FoldSubagent, Each
<1>3. ASSUME NEW i \in DOMAIN F  PROVE Becomes(F[i], G[i], event)
  <2>1. CASE F[i].kind = "tool" /\ F[i].id = id /\ id \in Spawns
    <3>1. chip(F[i]) \in Chips
      BY DEF Chips
    <3>2. G[i] = [F[i] EXCEPT !.chip = chip(F[i])]
      BY <2>1
    <3>. HIDE DEF G, chip
    <3>. QED
      BY <1>1, <2>1, <3>1, <3>2, PartReports DEF Becomes
  <2>2. CASE ~(F[i].kind = "tool" /\ F[i].id = id /\ id \in Spawns)
    BY <2>2, Untouched
  <2>. QED
    BY <2>1, <2>2
<1>4. G = [i \in DOMAIN F |-> G[i]]
  OBVIOUS
<1>. HIDE DEF G
<1>. QED
  BY <1>2, <1>3, <1>4, InPlace

(* Every event the agent may send next adds to the fold as it may. *)
LEMMA FoldStep ==
  ASSUME NEW F, NEW event, Foldable(F, event)
  PROVE  FoldsTo(F, Fold(F, event), event)
<1>1. event \in Event
  BY DEF Foldable
<1>2. CASE event.type \in {"text", "reasoning"}
  BY <1>2, FoldTextStep DEF Fold
<1>3. CASE event.type = "call"
  <2>1. event.id \in Calls
    BY <1>1, <1>3 DEF Event
  <2>. QED
    BY <1>3, <2>1, FoldCallStep DEF Fold
<1>4. CASE event.type = "result"
  <2>1. event.failed \in BOOLEAN /\ event.stats \in {None, "lines"}
    BY <1>1, <1>4 DEF Event
  <2>. QED
    BY <1>4, <2>1, FoldResultStep DEF Fold
<1>5. CASE event.type = "image"
  <2>1. event.id = <<"image", 1>>
    BY <1>1, <1>5 DEF Event
  <2>. QED
    BY <1>5, <2>1, FoldImageStep DEF Fold
<1>6. CASE event.type \in {"requested", "answered"}
  <2>1. event.id = Question
    BY <1>1, <1>6 DEF Event
  <2>. QED
    BY <1>6, <2>1, FoldInputStep DEF Fold
<1>7. CASE event.type = "error"
  BY <1>7, FoldErrorStep DEF Fold
<1>8. CASE event.type = "subagent"
  <2>1. event.news \in {"running", "traffic", "done", "failed"}
    BY <1>1, <1>8 DEF Event
  <2>. QED
    BY <1>8, <2>1, FoldSubagentStep DEF Fold
<1>9. CASE event.type = "usage"
  <2>1. F = [i \in DOMAIN F |-> F[i]]
    BY DEF Foldable
  <2>2. FoldsTo(F, F, event)
    BY <2>1, Untouched, InPlace
  <2>. QED
    BY <1>9, <2>2 DEF Fold
<1>10. event.type \in {"text", "reasoning", "call", "result", "image", "requested", "answered",
                       "error", "subagent", "usage"}
  BY <1>1 DEF Event
<1>. QED
  BY <1>2, <1>3, <1>4, <1>5, <1>6, <1>7, <1>8, <1>9, <1>10

-----------------------------------------------------------------------------
LEMMA EntryInvInit == EntryInit => EntryInv
BY DEF EntryInit, EntryInv, MapsTrue, FoldAhead, Recovered

(* The fold moves on; what is written stays. *)
LEMMA AgentEventKeeps == EntryInv /\ AgentEvent => EntryInv'
<1>. SUFFICES ASSUME EntryInv, AgentEvent  PROVE EntryInv'
  OBVIOUS
<1>1. PICK event \in Event : /\ Possible(event) /\ turn' = Append(turn, event)
                             /\ folded' = Fold(folded, event)
  BY DEF AgentEvent
<1>2. writing /\ FoldAhead /\ written' = written /\ maps' = maps /\ state' = state
  BY DEF AgentEvent, EntryInv
<1>3. Foldable(folded, event)
  <2>1. ASSUME event.type = "result", NEW i \in DOMAIN folded, folded[i].id = event.id
        PROVE  folded[i].stats = None
    BY <1>1, <1>2, <2>1 DEF Possible, FoldAhead
  <2>. QED
    BY <1>2, <2>1 DEF Foldable, EntryInv, FoldAhead
<1>4. FoldsTo(folded, folded', event)
  BY <1>1, <1>3, FoldStep
<1>5. turn \in Seq(Event) /\ turn' \in Seq(Event) /\ DOMAIN turn' = DOMAIN turn \cup {Len(turn) + 1}
      /\ (\A i \in DOMAIN turn : turn'[i] = turn[i]) /\ turn'[Len(turn) + 1] = event
  BY <1>1 DEF EntryInv
<1>6. (\A i \in DOMAIN folded : folded[i].stats # None => Had("result", folded[i].id))'
  <2>1. ASSUME NEW id, Had("result", id) \/ (event.type = "result" /\ event.id = id)
        PROVE  Had("result", id)'
    BY <1>5, <2>1 DEF Had
  <2>2. \A i \in DOMAIN folded' : folded'[i].stats # None =>
          Had("result", folded'[i].id) \/ (event.type = "result" /\ event.id = folded'[i].id)
    BY <1>2, <1>4 DEF FoldsTo, FoldAhead
  <2>. QED
    BY <2>1, <2>2
<1>7. folded' \in Seq(FoldedPart) /\ Len(folded) <= Len(folded')
      /\ \A i \in DOMAIN folded : After(folded[i], folded'[i])
  BY <1>4 DEF FoldsTo, Extends
<1>8. FoldAhead'
  <2>1. Len(written) \in Nat /\ Len(folded) \in Nat /\ Len(folded') \in Nat
        /\ DOMAIN written = 1..Len(written) /\ DOMAIN folded = 1..Len(folded)
    BY <1>7 DEF EntryInv
  <2>2. \A i \in DOMAIN written : After(written[i], folded'[i])
    BY <1>2, <1>7, <2>1, AfterAfter DEF FoldAhead
  <2>3. Len(written) <= Len(folded')
    BY <1>2, <1>7, <2>1 DEF FoldAhead
  <2>. QED
    BY <1>2, <1>4, <1>6, <2>2, <2>3 DEF FoldAhead, FoldsTo
<1>. QED
  BY <1>2, <1>5, <1>7, <1>8 DEF EntryInv, MapsTrue, Recovered

(* A sync, and the last one, bring the document up to the fold. *)
LEMMA SyncKeeps ==
  ASSUME EntryInv, writing, maps' = Synced(maps), written' = folded, folded' = folded, turn' = turn,
         \/ writing' = writing /\ state' = state
         \/ writing' = FALSE /\ state' = "complete"
  PROVE  EntryInv'
<1>1. FoldAhead /\ folded \in Seq(FoldedPart)
  BY DEF EntryInv
<1>2. MapsTrue'
  BY <1>1, Syncs DEF MapsTrue
<1>3. Recovered'
  BY <1>1 DEF Recovered, FoldAhead
<1>4. writing' => FoldAhead'
  <2>1. Len(folded) <= Len(folded)
    BY <1>1
  <2>. QED
    BY <1>1, <2>1, AfterItself DEF FoldAhead, Had
<1>. QED
  BY <1>1, <1>2, <1>3, <1>4 DEF EntryInv

(* With the writer gone the fold is no longer ahead of anything. *)
LEMMA HostDiesKeeps == EntryInv /\ HostDies => EntryInv'
BY DEF HostDies, EntryInv, MapsTrue, Recovered

(* The next entry begins empty. *)
LEMMA BoundaryKeeps == EntryInv /\ Boundary => EntryInv'
BY DEF Boundary, EntryInv, MapsTrue, Recovered, FoldAhead, Fold

(* Append, position by position. *)
LEMMA AppendIs ==
  ASSUME NEW T, NEW s \in Seq(T), NEW d \in T
  PROVE  Append(s, d) = [i \in 1..(Len(s) + 1) |-> IF i = Len(s) + 1 THEN d ELSE s[i]]
<1>. DEFINE g == Append(s, d)
<1>1. g \in Seq(T) /\ Len(s) \in Nat /\ DOMAIN g = 1..(Len(s) + 1) /\ g[Len(s) + 1] = d
      /\ \A i \in 1..Len(s) : g[i] = s[i]
  OBVIOUS
<1>. HIDE DEF g
<1>2. g = [i \in DOMAIN g |-> g[i]]
  BY <1>1
<1>3. \A i \in 1..(Len(s) + 1) : g[i] = IF i = Len(s) + 1 THEN d ELSE s[i]
  BY <1>1
<1>. QED
  BY <1>1, <1>2, <1>3 DEF g

(* Recovery adds one error, however often it runs. *)
LEMMA RecoverKeeps == EntryInv /\ Recover => EntryInv'
<1>. SUFFICES ASSUME EntryInv, Recover  PROVE EntryInv'
  OBVIOUS
<1>1. /\ written \in Seq(FoldedPart) /\ Len(written) \in Nat /\ DOMAIN written = 1..Len(written)
      /\ MapsTrue /\ Recovered
  BY DEF EntryInv
<1>2. folded' = folded /\ turn' = turn /\ writing' = FALSE /\ state' = "aborted"
  BY DEF Recover, Late, EntryInv
<1>3. (\E i \in DOMAIN maps : maps[i].id = Interrupted) <=> state = "aborted"
  <2>1. \A i \in DOMAIN written : maps[i].id = StoredId(written[i]) /\ written[i] \in FoldedPart
    BY <1>1 DEF MapsTrue, ToDocPart
  <2>2. \A i \in DOMAIN written : maps[i].id = Interrupted <=> written[i].id = Interrupted
    BY <2>1, Tags DEF StoredId, FoldedPart
  <2>. QED
    BY <1>1, <2>2 DEF MapsTrue, Recovered
<1>4. ErrorPart \in FoldedPart /\ ErrorPart.id = Interrupted
  <2>1. Interrupted \in PartIds /\ Interrupted # <<"image", 1>>
    BY Tags DEF PartIds
  <2>. QED
    BY <2>1, PartStarts DEF ErrorPart, Part
<1>5. CASE state = "aborted"
  <2>1. maps' = maps /\ written' = written
    BY <1>3, <1>5 DEF Recover
  <2>. QED
    BY <1>1, <1>2, <1>5, <2>1 DEF EntryInv, MapsTrue, Recovered
<1>6. CASE state # "aborted"
  <2>1. maps' = Append(maps, ToDocPart(ErrorPart)) /\ written' = Append(written, ErrorPart)
    BY <1>3, <1>6 DEF Recover
  <2>2. written' \in Seq(FoldedPart) /\ Len(written') = Len(written) + 1
        /\ DOMAIN written' = 1..(Len(written) + 1) /\ written'[Len(written) + 1] = ErrorPart
        /\ \A i \in 1..Len(written) : written'[i] = written[i]
    BY <1>1, <1>4, <2>1
  <2>3. maps' = [i \in DOMAIN written' |-> ToDocPart(written'[i])]
    <3>. DEFINE d == ToDocPart(ErrorPart)
                b == [i \in 1..(Len(written) + 1) |-> ToDocPart(written'[i])]
    <3>1. maps \in Seq(DocParts) /\ Len(maps) = Len(written) /\ d \in DocParts
          /\ \A i \in 1..Len(written) : maps[i] = ToDocPart(written[i])
      BY <1>1, <1>4 DEF MapsTrue, DocParts
    <3>2. \A i \in 1..(Len(written) + 1) : b[i] = IF i = Len(written) + 1 THEN d ELSE maps[i]
      BY <1>1, <2>2, <3>1
    <3>3. b = [i \in 1..(Len(written) + 1) |-> IF i = Len(written) + 1 THEN d ELSE maps[i]]
      <4>1. b = [i \in 1..(Len(written) + 1) |-> b[i]]
        OBVIOUS
      <4>. HIDE DEF b, d
      <4>. QED
        BY <3>2, <4>1
    <3>. HIDE DEF b, d
    <3>4. Append(maps, d) = b
      <4>1. Append(maps, d) = [i \in 1..(Len(maps) + 1) |-> IF i = Len(maps) + 1 THEN d ELSE maps[i]]
        BY <3>1, AppendIs
      <4>. QED
        BY <3>1, <3>3, <4>1
    <3>. QED
      BY <2>1, <2>2, <3>4 DEF b, d
  <2>4. Recovered'
    BY <1>1, <1>2, <1>4, <2>2 DEF Recovered
  <2>. QED
    BY <1>2, <2>2, <2>3, <2>4 DEF EntryInv, MapsTrue
<1>. QED
  BY <1>5, <1>6

(* A direct write changes a map as the fold would change its part. *)
LEMMA DirectKeeps ==
  ASSUME EntryInv, ~writing, UNCHANGED <<turn, folded, writing, state>>,
         written' = [i \in DOMAIN written |-> written'[i]],
         maps' = [i \in DOMAIN maps |-> maps'[i]],
         \A i \in DOMAIN written : /\ written'[i] \in FoldedPart /\ written'[i].id = written[i].id
                                   /\ maps'[i] = ToDocPart(written'[i])
  PROVE  EntryInv'
<1>1. written \in Seq(FoldedPart) /\ DOMAIN written = 1..Len(written) /\ Len(written) \in Nat
      /\ DOMAIN maps = DOMAIN written
  BY DEF EntryInv, MapsTrue
<1>2. DOMAIN written' = DOMAIN written /\ DOMAIN maps' = DOMAIN written
  BY <1>1
<1>3. written' \in Seq(FoldedPart)
  <2>1. \A i \in 1..Len(written) : written'[i] \in FoldedPart
    BY <1>1
  <2>. DEFINE w == written'
  <2>2. w = [i \in 1..Len(written) |-> w[i]]
    BY <1>1
  <2>. HIDE DEF w
  <2>3. w \in Seq(FoldedPart)
    BY <1>1, <2>1, <2>2 DEF w
  <2>. QED
    BY <2>3 DEF w
<1>4. MapsTrue'
  BY <1>1, <1>2 DEF MapsTrue
<1>5. Recovered'
  BY <1>2 DEF Recovered, EntryInv
<1>. QED
  BY <1>3, <1>4, <1>5 DEF EntryInv

(* An answer, and the news of a subagent, written when no writer is there. *)
LEMMA ResolveInputKeeps ==
  ASSUME EntryInv, NEW request, ResolveInput(request)
  PROVE  EntryInv'
<1>1. ~writing /\ UNCHANGED <<turn, folded, writing, state>>
  BY DEF ResolveInput, Late
<1>2. maps = [i \in DOMAIN written |-> ToDocPart(written[i])] /\ written \in Seq(FoldedPart)
  BY DEF EntryInv, MapsTrue
<1>3. maps' = [i \in DOMAIN maps |-> IF maps[i].kind = "input" /\ maps[i].id = request
                 THEN [maps[i] EXCEPT !.resolved = "yes"] ELSE maps[i]]
      /\ written' = [i \in DOMAIN written |-> IF written[i].kind = "input" /\ written[i].request = request
                 THEN [written[i] EXCEPT !.resolved = TRUE] ELSE written[i]]
  BY DEF ResolveInput, FoldAnswer, Each
<1>4. ASSUME NEW i \in DOMAIN written
      PROVE  /\ written'[i] \in FoldedPart /\ written'[i].id = written[i].id
             /\ maps'[i] = ToDocPart(written'[i])
  <2>1. written[i] \in FoldedPart /\ maps[i] = ToDocPart(written[i])
        /\ maps[i].kind = written[i].kind
        /\ (written[i].kind = "input" => maps[i].id = written[i].request)
    BY <1>2 DEF ToDocPart, StoredId
  <2>2. CASE written[i].kind = "input" /\ written[i].request = request
    <3>. DEFINE p == written[i]  q == [p EXCEPT !.resolved = TRUE]
    <3>1. written'[i] = q /\ maps'[i] = [ToDocPart(p) EXCEPT !.resolved = "yes"]
      BY <1>2, <1>3, <2>1, <2>2
    <3>. HIDE DEF p
    <3>2. q \in FoldedPart /\ After(p, q)
      BY <2>1, <2>2, Answered DEF p
    <3>3. [ToDocPart(p) EXCEPT !.resolved = "yes"] = ToDocPart(q)
      BY <2>1, <2>2, PartIs DEF ToDocPart, StoredId, YesNo, p
    <3>. QED
      BY <3>1, <3>2, <3>3 DEF After, p
  <2>3. CASE ~(written[i].kind = "input" /\ written[i].request = request)
    BY <1>2, <1>3, <2>1, <2>3
  <2>. QED
    BY <2>2, <2>3
<1>5. written' = [i \in DOMAIN written |-> written'[i]] /\ maps' = [i \in DOMAIN maps |-> maps'[i]]
  BY <1>3
<1>. QED
  BY <1>1, <1>4, <1>5, DirectKeeps

LEMMA UpdateChipKeeps ==
  ASSUME EntryInv, NEW id, NEW news \in {"done", "failed"}, UpdateChip(id, news)
  PROVE  EntryInv'
<1>1. ~writing /\ UNCHANGED <<turn, folded, writing, state>>
  BY DEF UpdateChip, Late
<1>2. maps = [i \in DOMAIN written |-> ToDocPart(written[i])] /\ written \in Seq(FoldedPart)
  BY DEF EntryInv, MapsTrue
<1>3. maps' = [i \in DOMAIN maps |-> IF maps[i].kind = "tool" /\ maps[i].id = id /\ id \in Spawns
                 THEN [maps[i] EXCEPT !.chip = news] ELSE maps[i]]
      /\ written' = [i \in DOMAIN written |->
                 IF written[i].kind = "tool" /\ written[i].id = id /\ id \in Spawns
                 THEN [written[i] EXCEPT !.chip = news] ELSE written[i]]
  BY DEF UpdateChip, FoldSubagent, Each
<1>4. ASSUME NEW i \in DOMAIN written
      PROVE  /\ written'[i] \in FoldedPart /\ written'[i].id = written[i].id
             /\ maps'[i] = ToDocPart(written'[i])
  <2>1. written[i] \in FoldedPart /\ maps[i] = ToDocPart(written[i])
        /\ maps[i].kind = written[i].kind
        /\ (written[i].kind = "tool" => maps[i].id = written[i].id)
    BY <1>2 DEF ToDocPart, StoredId
  <2>2. CASE written[i].kind = "tool" /\ written[i].id = id /\ id \in Spawns
    <3>. DEFINE p == written[i]  q == [p EXCEPT !.chip = news]
    <3>1. written'[i] = q /\ maps'[i] = [ToDocPart(p) EXCEPT !.chip = news]
      BY <1>2, <1>3, <2>1, <2>2
    <3>. HIDE DEF p
    <3>2. q \in FoldedPart /\ After(p, q)
      BY <2>1, <2>2, PartReports DEF p, Chips
    <3>3. [ToDocPart(p) EXCEPT !.chip = news] = ToDocPart(q)
      BY <2>1, <2>2, PartIs DEF ToDocPart, StoredId, p
    <3>. QED
      BY <3>1, <3>2, <3>3 DEF After, p
  <2>3. CASE ~(written[i].kind = "tool" /\ written[i].id = id /\ id \in Spawns)
    BY <1>2, <1>3, <2>1, <2>3
  <2>. QED
    BY <2>2, <2>3
<1>5. written' = [i \in DOMAIN written |-> written'[i]] /\ maps' = [i \in DOMAIN maps |-> maps'[i]]
  BY <1>3
<1>. QED
  BY <1>1, <1>4, <1>5, DirectKeeps

LEMMA EntryInvStep == EntryInv /\ [EntryNext]_entryVars => EntryInv'
<1>. SUFFICES ASSUME EntryInv, [EntryNext]_entryVars  PROVE EntryInv'
  OBVIOUS
<1>1. ASSUME Sync \/ FinishEntry  PROVE EntryInv'
  BY <1>1, SyncKeeps DEF Sync, FinishEntry
<1>2. ASSUME UNCHANGED entryVars  PROVE EntryInv'
  BY <1>2 DEF entryVars, EntryInv, MapsTrue, Recovered, FoldAhead, Had
<1>3. ASSUME NEW id \in Calls, UpdateChip(id, "done") \/ UpdateChip(id, "failed")
      PROVE  EntryInv'
  BY <1>3, UpdateChipKeeps
<1>4. ASSUME ResolveInput(Question)  PROVE EntryInv'
  BY <1>4, ResolveInputKeeps
<1>. QED
  BY <1>1, <1>2, <1>3, <1>4, AgentEventKeeps, HostDiesKeeps, BoundaryKeeps, RecoverKeeps
     DEF EntryNext

(* For any calls, any number of events and ticks, and any direct writes: what a
   reader decodes from the part maps is what the fold held at the last sync and
   what was written directly since, a question under its request's id. *)
THEOREM EntryReaderSeesFold == EntrySpec => []ReaderSeesFold
<1>1. EntryInv => ReaderSeesFold
  <2>. SUFFICES ASSUME EntryInv  PROVE ReaderSeesFold
    OBVIOUS
  <2>1. written \in Seq(FoldedPart) /\ DOMAIN maps = DOMAIN written
        /\ \A i \in DOMAIN written : written[i] \in FoldedPart /\ maps[i] = ToDocPart(written[i])
    BY DEF EntryInv, MapsTrue
  <2>2. \A i \in DOMAIN written : FromDocPart(maps[i]) = AsRead(written[i])
    BY <2>1, Decodes
  <2>3. Decoded(maps) = [i \in DOMAIN written |-> AsRead(written[i])]
    BY <2>1, <2>2 DEF Decoded
  <2>. QED
    BY <2>1, <2>3 DEF ReaderSeesFold
<1>. QED
  BY <1>1, EntryInvInit, EntryInvStep, PTL DEF EntrySpec
=============================================================================
