------------------------------ MODULE SyncJobs ------------------------------
(***************************************************************************)
(* The durable work table of a document store (sync/src/sync_jobs.rs): one *)
(* wake row per document and one reconciliation row, each stamped from a   *)
(* single clock that never goes back.  Whoever works on a row (an engine   *)
(* worker or a scanner, both outside this repository) reads its version,   *)
(* works without holding anything, and completes the row on condition that *)
(* the version is still the one it read.  Every operation is one database  *)
(* transaction; a crash loses the workers and keeps the table.             *)
(*                                                                         *)
(* Documents are 1..NDocs, in the order of the scan; a version or cursor   *)
(* of 0 is an absent row or an empty cursor.                               *)
(***************************************************************************)
EXTENDS Integers, FiniteSets

CONSTANTS NDocs,       \* documents in the catalogue a reconciliation scans
          Workers,     \* workers and scanners
          MaxVersions, \* bound on the clock
          PageSize     \* documents in one reconciliation page

ASSUME JobsAssumption ==
  /\ NDocs \in Nat \ {0} /\ MaxVersions \in Nat \ {0} /\ PageSize \in Nat \ {0}

Docs == 1..NDocs
ScanJob == 0                          \* the row ('*', 'reconcile')

VARIABLES
  jobClock,  \* sync_job_clock
  wake,      \* version of a document's wake row, 0 if it has none
  scan,      \* the reconciliation row: version (0 if absent) and cursor
  holds,     \* what a worker read: the job, its version, its cursor, or Nobody
  asks,      \* history: wakes requested so far, by document
  served,    \* history: requests some finished work began after, by document
  owed,      \* history: documents not woken since the last reconcile request
  seen       \* history: asks of the document when a worker read its version

jobsVars == <<jobClock, wake, scan, holds, asks, served, owed, seen>>

NoScan  == [version |-> 0, cursor |-> 0]
Resting == [doc |-> -1, version |-> 0, cursor |-> 0]

JobsInit ==
  /\ jobClock = 0
  /\ wake = [d \in Docs |-> 0]
  /\ scan = NoScan
  /\ holds = [w \in Workers |-> Resting]
  /\ asks = [d \in Docs |-> 0]
  /\ served = [d \in Docs |-> 0]
  /\ owed = {}
  /\ seen = [w \in Workers |-> 0]

MayStamp == jobClock < MaxVersions

ScheduleWake_OwnVersion(d) ==
  /\ MayStamp
  /\ jobClock' = jobClock + 1
  /\ wake' = [wake EXCEPT ![d] = @ + 1]
  /\ asks' = [asks EXCEPT ![d] = @ + 1]
  /\ owed' = owed \ {d}
  /\ UNCHANGED <<scan, holds, served, seen>>

(* schedule_sync_job(doc, "wake"): the row appears, or takes the new version. *)
ScheduleWake(d) ==
  /\ MayStamp
  /\ jobClock' = jobClock + 1
  /\ wake' = [wake EXCEPT ![d] = jobClock']
  /\ asks' = [asks EXCEPT ![d] = @ + 1]
  /\ owed' = owed \ {d}
  /\ UNCHANGED <<scan, holds, served, seen>>

Restarted_KeepsCursor(version) == [version |-> version, cursor |-> scan.cursor]

(* A reconcile request restarts the scan: the conflict clause clears its cursor. *)
Restarted(version) == [version |-> version, cursor |-> 0]

(* schedule_sync_job("*", "reconcile"). *)
ScheduleScan ==
  /\ MayStamp
  /\ jobClock' = jobClock + 1
  /\ scan' = Restarted(jobClock')
  /\ owed' = Docs
  /\ UNCHANGED <<wake, holds, asks, served, seen>>

(* A worker picks a document with a wake row and reads its version. *)
TakeWake(w, d) ==
  /\ holds[w] = Resting /\ wake[d] > 0
  /\ holds' = [holds EXCEPT ![w] = [doc |-> d, version |-> wake[d], cursor |-> 0]]
  /\ seen' = [seen EXCEPT ![w] = asks[d]]
  /\ UNCHANGED <<jobClock, wake, scan, asks, served, owed>>

(* complete_sync_job after the work: the row goes if its version is the one read. *)
CompleteWake(w) ==
  LET h == holds[w] IN
  /\ h.doc \in Docs
  /\ wake' = [wake EXCEPT ![h.doc] = IF @ = h.version THEN 0 ELSE @]
  /\ served' = [served EXCEPT ![h.doc] = IF @ < seen[w] THEN seen[w] ELSE @]
  /\ holds' = [holds EXCEPT ![w] = Resting]
  /\ seen' = [seen EXCEPT ![w] = 0]
  /\ UNCHANGED <<jobClock, scan, asks, owed>>

(* reconciliation_progress: a scanner reads version and cursor. *)
TakeScan(w) ==
  /\ holds[w] = Resting /\ scan # NoScan
  /\ holds' = [holds EXCEPT ![w] =
                 [doc |-> ScanJob, version |-> scan.version, cursor |-> scan.cursor]]
  /\ UNCHANGED <<jobClock, wake, scan, asks, served, owed, seen>>

(* The page a scanner lists after the cursor it read, and its last document. *)
Page(cursor) == {d \in Docs : cursor < d /\ d <= cursor + PageSize}
LastOf(cursor) == IF cursor + PageSize < NDocs THEN cursor + PageSize ELSE NDocs

(* A page under a version that is no longer the row's is dropped whole. *)
Current(h) == scan.version = h.version

(* reconcile_page: wake every listed document under one fresh version and
   advance the cursor; an empty page ends the reconciliation. *)
AcceptPage(w) ==
  LET h == holds[w]
      page == Page(h.cursor) IN
  /\ h.doc = ScanJob
  /\ holds' = [holds EXCEPT ![w] = Resting]
  /\ \/ /\ ~Current(h)
        /\ UNCHANGED <<jobClock, wake, scan, asks, owed>>
     \/ /\ Current(h) /\ page = {}
        /\ scan' = NoScan
        /\ UNCHANGED <<jobClock, wake, asks, owed>>
     \/ /\ Current(h) /\ page # {} /\ MayStamp
        /\ jobClock' = jobClock + 1
        /\ wake' = [d \in Docs |-> IF d \in page THEN jobClock' ELSE wake[d]]
        /\ asks' = [d \in Docs |-> IF d \in page THEN asks[d] + 1 ELSE asks[d]]
        /\ scan' = [scan EXCEPT !.cursor = LastOf(h.cursor)]
        /\ owed' = owed \ page
  /\ UNCHANGED <<served, seen>>

(* delete_snapshot takes a document's rows with it; nothing is owed to it any more. *)
DeleteDoc(d) ==
  /\ wake[d] > 0
  /\ wake' = [wake EXCEPT ![d] = 0]
  /\ served' = [served EXCEPT ![d] = asks[d]]
  /\ UNCHANGED <<jobClock, scan, holds, asks, owed, seen>>

(* The process stops and starts again: the database is all that is left. *)
JobsCrash ==
  /\ \E w \in Workers : holds[w] # Resting
  /\ holds' = [w \in Workers |-> Resting]
  /\ seen' = [w \in Workers |-> 0]
  /\ UNCHANGED <<jobClock, wake, scan, asks, served, owed>>

JobsNext ==
  \/ \E d \in Docs : ScheduleWake(d) \/ DeleteDoc(d)
  \/ ScheduleScan
  \/ \E w \in Workers :
       \/ \E d \in Docs : TakeWake(w, d)
       \/ CompleteWake(w) \/ TakeScan(w) \/ AcceptPage(w)
  \/ JobsCrash

JobsSpec == JobsInit /\ [][JobsNext]_jobsVars

------------------------------------------------------------------------------
(* The type invariant of the work table. *)
Held == [doc : {-1, ScanJob} \cup Docs, version : Nat, cursor : 0..NDocs]

JobsTypeInv ==
  /\ jobClock \in Nat
  /\ wake \in [Docs -> Nat]
  /\ scan \in [version : Nat, cursor : 0..NDocs]
  /\ holds \in [Workers -> Held]
  /\ asks \in [Docs -> Nat] /\ served \in [Docs -> Nat]
  /\ owed \subseteq Docs
  /\ seen \in [Workers -> Nat]

(* A wake requested while an earlier one was being worked on is not erased by
   that work's completion: a document without a wake row has had every request
   served by work that began after it (sync_jobs.rs: "Conditional completion
   cannot erase a newer wakeup that arrived during a catch-up"), however rows
   are completed, deleted and scheduled again under several workers. *)
WakeKept == \A d \in Docs : wake[d] = 0 => served[d] >= asks[d]

(* A reconciliation that has ended woke every document of the catalogue since
   the last request, through crashes, concurrent scanners holding an older page,
   and a new request in the middle of a scan. *)
ReconcileCovers == scan = NoScan => owed = {}
==============================================================================
