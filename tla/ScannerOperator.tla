--------------------------- MODULE ScannerOperator ---------------------------
(***************************************************************************)
(* The operator (operator/internal/controller): one Scanner, the one Job   *)
(* its name determines, and the controller that reconciles them.  The      *)
(* controller reads from informer caches that follow the API server at     *)
(* their own pace and writes to the API server; a reconcile is a sequence  *)
(* of such calls, and anything can happen between two of them.             *)
(***************************************************************************)
EXTENDS Naturals, Sequences, FiniteSetsExt

CONSTANTS
    NotAfter,   \* spec.notAfter, the absolute cutoff of the scan
    TTL,        \* spec.ttlSecondsAfterFinished
    MaxClock,   \* bound on time; deadlines past it are due at it
    MaxLag,     \* bound on the versions a cache is behind
    MaxJobs,    \* bound on the Jobs created
    MaxFaults   \* bound on failed calls, restarts and outside deletions

ASSUME OperatorAssumption ==
    /\ NotAfter \in Nat /\ TTL \in Nat /\ MaxClock \in Nat \ {0}
    /\ MaxLag \in Nat \ {0} /\ MaxJobs \in Nat /\ MaxFaults \in Nat

VARIABLES
    scanner,       \* the Scanner at the API server
    job,           \* the Job of that name at the API server
    scannerWatch,  \* versions of the Scanner its cache has yet to see
    jobWatch,      \* versions of the Job its cache has yet to see
    seenScanner,   \* the cached Scanner
    seenJob,       \* the cached Job
    rec,           \* the reconcile under way
    queued,        \* the Scanner is in the work queue
    timer,         \* when RequeueAfter puts it there; 0 for never
    clock,
    faults,
    created,       \* history: Jobs created for the Scanner
    reported,      \* history: a terminal outcome was written
    completed,     \* history: a Job of the Scanner completed
    missed         \* history: the Scanner was let go over an unseen Job

operatorVars == <<scanner, job, scannerWatch, jobWatch, seenScanner, seenJob, rec,
                  queued, timer, clock, faults, created, reported, completed, missed>>
cacheVars == <<seenScanner, seenJob>>
historyVars == <<created, reported, completed, missed>>

Terminal == {"Succeeded", "Failed", "Cancelled", "Expired"}
Outcomes == Terminal \union {"none", "Pending", "Running"}

(* conds: the condition list, up to what its JobReady reason says of a Job. *)
NoStatus == [outcome |-> "none", ref |-> FALSE, conds |-> "none", completedAt |-> 0]

(* What scanDeadlines and then buildJob think of the immutable spec.        *)
Specs == {"valid", "badDeadlines", "badRequest"}

GoneScanner == [alive |-> FALSE, deleting |-> FALSE, finalizer |-> FALSE,
                cancel |-> FALSE, spec |-> "valid", status |-> NoStatus]
NewScanner(spec) == [GoneScanner EXCEPT !.alive = TRUE, !.spec = spec]

NoJob == [alive |-> FALSE, owned |-> FALSE, deleting |-> FALSE, finalizer |-> FALSE,
          phase |-> "new", started |-> 0, left |-> 0, doneAt |-> 0]
ForeignJob == [NoJob EXCEPT !.alive = TRUE]

(* status: the Scanner's, as the reconcile knows it; goal: what to make it. *)
NoRec == [pc |-> "idle", status |-> NoStatus, now |-> 0, goal |-> NoStatus]

Cap(t) == Min({t, MaxClock})

OperatorInit ==
    /\ scanner \in {NewScanner(spec) : spec \in Specs}
    /\ job \in {NoJob, ForeignJob}
    /\ scannerWatch = <<>> /\ jobWatch = <<>>
    /\ seenScanner = scanner /\ seenJob = job
    /\ rec = NoRec /\ queued = TRUE /\ timer = 0
    /\ clock = 1 /\ faults = 0
    /\ created = 0 /\ reported = FALSE /\ completed = FALSE /\ missed = FALSE

----------------------------------------------------------------------------
(* The API server: a write makes a version the informer will deliver.       *)

WriteScanner(s) ==
    /\ scanner' = s
    /\ IF s = scanner THEN UNCHANGED scannerWatch
       ELSE Len(scannerWatch) < MaxLag /\ scannerWatch' = Append(scannerWatch, s)

WriteJob(j) ==
    /\ job' = j
    /\ IF j = job THEN UNCHANGED jobWatch
       ELSE Len(jobWatch) < MaxLag /\ jobWatch' = Append(jobWatch, j)

KeepScanner == UNCHANGED <<scanner, scannerWatch>>
KeepJob == UNCHANGED <<job, jobWatch>>

(* A deletion waits for the object's finalizers.                            *)
Deleted(x, gone) == IF x.alive /\ x.finalizer THEN [x EXCEPT !.deleting = TRUE] ELSE gone
Released(x, gone) == IF x.deleting THEN gone ELSE [x EXCEPT !.finalizer = FALSE]

(* A merge patch carries the fields that differ from the copy it was        *)
(* computed from, and no resource version.                                  *)
Merge(server, before, goal) ==
    [f \in DOMAIN goal |-> IF goal[f] # before[f] THEN goal[f] ELSE server[f]]

----------------------------------------------------------------------------
(* Statuses the reconcile writes.                                           *)

TerminalStatus(status, outcome, when) ==
    [status EXCEPT !.outcome = outcome, !.ref = FALSE, !.conds = "over",
                     !.completedAt = when]

JobFinished(j) == j.phase \in {"complete", "failed"}

(* Mutant: every Job that ended is taken for a success.                     *)
ReflectedAnyEnd(status, j, now) ==
    IF JobFinished(j) THEN TerminalStatus(status, "Succeeded", j.doneAt)
    ELSE IF j.phase = "active" THEN [status EXCEPT !.outcome = "Running", !.ref = TRUE,
                                                     !.conds = "running"]
    ELSE [status EXCEPT !.outcome = "Pending", !.ref = TRUE, !.conds = "pending"]

(* Mutant: the Job's own word for its end becomes the outcome.              *)
ReflectedAsJob(status, j, now) ==
    IF JobFinished(j) THEN TerminalStatus(status, j.phase, j.doneAt)
    ELSE [status EXCEPT !.outcome = "Running", !.ref = TRUE, !.conds = "running"]

(* reflectJobStatus.                                                        *)
Reflected(status, j, now) ==
    CASE j.phase = "complete" -> TerminalStatus(status, "Succeeded", j.doneAt)
      [] j.phase = "failed" -> TerminalStatus(status, "Failed", j.doneAt)
      [] j.phase = "active" -> [status EXCEPT !.outcome = "Running", !.ref = TRUE,
                                                !.conds = "running"]
      [] OTHER -> [status EXCEPT !.outcome = "Pending", !.ref = TRUE,
                                   !.conds = "pending"]

JobWasCreated(status) == status.ref \/ status.conds \in {"pending", "running"}

(* The part of Reconcile after the Job is known: what to do with Job j.     *)
AfterJob(status, j, now) ==
    IF ~j.owned THEN [pc |-> "report", goal |-> TerminalStatus(status, "Failed", now)]
    ELSE IF now >= NotAfter /\ ~JobFinished(j)
         THEN [pc |-> "stop", goal |-> TerminalStatus(status, "Expired", now)]
    ELSE IF j.deleting /\ ~JobFinished(j)
         THEN [pc |-> "report", goal |-> TerminalStatus(status, "Failed", now)]
    ELSE [pc |-> "report", goal |-> Reflected(status, j, now)]

(* Reconcile up to its first call to the API server, from the caches.       *)
FirstCall(s, j, now) ==
    IF s.deleting
    THEN [pc |-> IF s.finalizer THEN "finalStop" ELSE "idle", goal |-> NoStatus]
    ELSE IF ~s.finalizer THEN [pc |-> "finalize", goal |-> NoStatus]
    ELSE IF s.status.outcome \in Terminal THEN [pc |-> "release", goal |-> NoStatus]
    ELSE IF s.cancel THEN [pc |-> "stop", goal |-> TerminalStatus(s.status, "Cancelled", now)]
    ELSE IF s.spec = "badDeadlines"
         THEN [pc |-> "report", goal |-> TerminalStatus(s.status, "Failed", now)]
    ELSE IF j.alive THEN AfterJob(s.status, j, now)
    ELSE IF JobWasCreated(s.status)
         THEN [pc |-> "report", goal |-> TerminalStatus(s.status, "Failed", now)]
    ELSE IF now >= NotAfter
         THEN [pc |-> "report", goal |-> TerminalStatus(s.status, "Expired", now)]
    ELSE IF s.spec = "badRequest"
         THEN [pc |-> "report", goal |-> TerminalStatus(s.status, "Failed", now)]
    ELSE [pc |-> "create", goal |-> NoStatus]

----------------------------------------------------------------------------
(* The calls of a reconcile.                                                *)

At(pc) == rec.pc = pc
Goto(pc) == rec' = [rec EXCEPT !.pc = pc]
Finish == rec' = NoRec

(* The handler returns an error, or asks for it: the work queue retries.    *)
Requeue == Finish /\ queued' = TRUE

(* Mutant: the delay is forgotten.                                          *)
RequeueAtNever(t) == Finish /\ UNCHANGED timer

(* RequeueAfter: the queue keeps the earlier of two delays.                 *)
RequeueAt(t) == Finish /\ timer' = IF timer = 0 THEN Cap(t) ELSE Min({timer, Cap(t)})

(* The caches are read together: neither call before the first write can    *)
(* tell a cache read now from one that was read a moment earlier.           *)
StartReconcile ==
    /\ At("idle") /\ queued
    /\ queued' = FALSE
    /\ IF seenScanner.alive
       THEN LET next == FirstCall(seenScanner, seenJob, clock)
            IN  rec' = [pc |-> next.pc, now |-> clock, goal |-> next.goal,
                        status |-> IF seenScanner.deleting THEN NoStatus
                                                           ELSE seenScanner.status]
       ELSE UNCHANGED rec
    /\ KeepScanner /\ KeepJob
    /\ UNCHANGED <<cacheVars, timer, clock, faults, historyVars>>

AddFinalizer ==
    /\ At("finalize")
    /\ IF scanner.alive /\ ~scanner.deleting
       THEN WriteScanner([scanner EXCEPT !.finalizer = TRUE]) ELSE KeepScanner
    /\ Requeue
    /\ KeepJob /\ UNCHANGED <<cacheVars, timer, clock, faults, historyVars>>

(* requestJobDeletion decides on the cached Job and deletes by name.        *)
RequestJobDeletion ==
    IF seenJob.alive /\ seenJob.owned /\ ~seenJob.deleting
    THEN WriteJob(Deleted(job, NoJob)) ELSE KeepJob

StopJob ==
    /\ At("stop")
    /\ RequestJobDeletion /\ Goto("report")
    /\ KeepScanner /\ UNCHANGED <<cacheVars, queued, timer, clock, faults, historyVars>>

(* Mutant: the Job is built without the status-protection finalizer.        *)
BuildJobUnprotected(now) ==
    [NoJob EXCEPT !.alive = TRUE, !.owned = TRUE, !.left = NotAfter - now]

(* buildJob: activeDeadlineSeconds runs from the moment the reconcile       *)
(* started, not from the moment the Job does.                               *)
BuildJob(now) ==
    [NoJob EXCEPT !.alive = TRUE, !.owned = TRUE, !.finalizer = TRUE, !.left = NotAfter - now]

(* The Job is created; or a Job of that name exists, and the cache is asked *)
(* for it again.                                                            *)
CreateJob ==
    /\ At("create")
    /\ LET known == IF job.alive THEN seenJob ELSE BuildJob(rec.now)
           next == AfterJob(rec.status, known, rec.now)
       IN  /\ IF job.alive THEN KeepJob /\ UNCHANGED created
              ELSE /\ created < MaxJobs /\ created' = created + 1
                   /\ WriteJob(BuildJob(rec.now))
           /\ IF known.alive
              THEN rec' = [rec EXCEPT !.pc = next.pc, !.goal = next.goal] /\ UNCHANGED queued
              ELSE Requeue
    /\ KeepScanner /\ UNCHANGED <<cacheVars, timer, clock, faults, reported, completed, missed>>

(* patchStatus, which makes no call for a status that is already there and  *)
(* otherwise leaves the server's answer in the Scanner at hand.             *)
ReportStatus ==
    /\ At("report")
    /\ LET merged == Merge(scanner.status, rec.status, rec.goal)
           changed == rec.goal # rec.status
       IN  IF changed /\ ~scanner.alive
           THEN Requeue /\ KeepScanner /\ UNCHANGED reported
           ELSE /\ IF changed THEN WriteScanner([scanner EXCEPT !.status = merged]) ELSE KeepScanner
                /\ reported' = (reported \/ rec.goal.outcome \in Terminal)
                /\ IF rec.goal.outcome \in Terminal
                   THEN rec' = [rec EXCEPT !.pc = "release", !.goal = NoStatus,
                                           !.status = IF changed THEN merged ELSE @]
                   ELSE Finish
                /\ UNCHANGED queued
    /\ KeepJob
    /\ UNCHANGED <<cacheVars, timer, clock, faults, created, completed, missed>>

(* releaseJobFinalizer: a Job that is gone by now fails the reconcile.      *)
ReleaseJob(next) ==
    IF seenJob.alive /\ seenJob.owned /\ seenJob.finalizer
    THEN IF job.alive THEN WriteJob(Released(job, NoJob)) /\ Goto(next) /\ UNCHANGED queued
                      ELSE Requeue /\ KeepJob
    ELSE KeepJob /\ Goto(next) /\ UNCHANGED queued

(* reconcileTerminal: release the Job, for a scan that was cut short delete *)
(* it too, then delete the Scanner or wait for its time to live.            *)
TerminalRelease ==
    /\ At("release")
    /\ ReleaseJob(IF rec.status.outcome \in {"Cancelled", "Expired"} THEN "drop" ELSE "ttl")
    /\ KeepScanner /\ UNCHANGED <<cacheVars, timer, clock, faults, historyVars>>

TerminalDrop ==
    /\ At("drop")
    /\ RequestJobDeletion /\ Goto("ttl")
    /\ KeepScanner /\ UNCHANGED <<cacheVars, queued, timer, clock, faults, historyVars>>

TerminalTTL ==
    /\ At("ttl")
    /\ LET deleteAt == Cap(rec.status.completedAt + TTL)
       IN  IF rec.now < deleteAt
           THEN RequeueAt(clock + (deleteAt - rec.now)) /\ KeepScanner /\ UNCHANGED queued
           ELSE WriteScanner(Deleted(scanner, GoneScanner)) /\ Requeue /\ UNCHANGED timer
    /\ KeepJob /\ UNCHANGED <<cacheVars, clock, faults, historyVars>>

(* reconcileDeletion.                                                       *)
FinalStop ==
    /\ At("finalStop")
    /\ RequestJobDeletion /\ Goto("finalRelease")
    /\ KeepScanner /\ UNCHANGED <<cacheVars, queued, timer, clock, faults, historyVars>>

FinalRelease ==
    /\ At("finalRelease")
    /\ ReleaseJob("finalCheck")
    /\ KeepScanner /\ UNCHANGED <<cacheVars, timer, clock, faults, historyVars>>

(* Mutant: a Job that is already being deleted is not waited for.           *)
StillOwnedUndeleted == seenJob.alive /\ seenJob.owned /\ ~seenJob.deleting

(* The Scanner waits as long as its cache shows a Job it owns.              *)
StillOwned == seenJob.alive /\ seenJob.owned

FinalCheck ==
    /\ At("finalCheck")
    /\ IF StillOwned
       THEN RequeueAt(clock + 1) /\ KeepScanner /\ UNCHANGED <<queued, missed>>
       ELSE /\ IF scanner.alive
               THEN WriteScanner(Released(scanner, GoneScanner)) /\ Finish /\ UNCHANGED queued
               ELSE KeepScanner /\ Requeue
            /\ missed' = (missed \/ (job.alive /\ job.owned /\ ~seenJob.alive))
            /\ UNCHANGED timer
    /\ KeepJob /\ UNCHANGED <<cacheVars, clock, faults, created, reported, completed>>

(* Any call but a cache read can fail; the reconcile is tried again.        *)
CallFails ==
    /\ rec.pc # "idle" /\ faults < MaxFaults
    /\ faults' = faults + 1 /\ Requeue
    /\ KeepScanner /\ KeepJob /\ UNCHANGED <<cacheVars, timer, clock, historyVars>>

(* The manager restarts: caches are listed anew, every Scanner is queued.   *)
Restart ==
    /\ faults < MaxFaults /\ faults' = faults + 1
    /\ seenScanner' = scanner /\ seenJob' = job
    /\ scannerWatch' = <<>> /\ jobWatch' = <<>>
    /\ Requeue /\ timer' = 0
    /\ UNCHANGED <<scanner, job, clock, historyVars>>

----------------------------------------------------------------------------
(* Everybody else.                                                          *)

controlVars == <<rec, queued, timer>>

SyncScanner ==
    /\ scannerWatch # <<>>
    /\ seenScanner' = Head(scannerWatch) /\ scannerWatch' = Tail(scannerWatch)
    /\ queued' = TRUE
    /\ KeepJob /\ UNCHANGED <<scanner, seenJob, rec, timer, clock, faults, historyVars>>

(* The watch maps a Job to the Scanner that owns it.                        *)
SyncJob ==
    /\ jobWatch # <<>>
    /\ seenJob' = Head(jobWatch) /\ jobWatch' = Tail(jobWatch)
    /\ queued' = (queued \/ seenJob.owned \/ Head(jobWatch).owned)
    /\ KeepScanner /\ UNCHANGED <<job, seenScanner, rec, timer, clock, faults, historyVars>>

TimerFires ==
    /\ timer # 0 /\ clock >= timer
    /\ timer' = 0 /\ queued' = TRUE
    /\ KeepScanner /\ KeepJob /\ UNCHANGED <<cacheVars, rec, clock, faults, historyVars>>

Tick ==
    /\ clock < MaxClock /\ clock' = clock + 1
    /\ KeepScanner /\ KeepJob
    /\ UNCHANGED <<cacheVars, controlVars, faults, historyVars>>

(* Of a Scanner under deletion the operator no longer reads spec.cancel.    *)
UserCancels ==
    /\ scanner.alive /\ ~scanner.deleting /\ ~scanner.cancel
    /\ WriteScanner([scanner EXCEPT !.cancel = TRUE])
    /\ KeepJob /\ UNCHANGED <<cacheVars, controlVars, clock, faults, historyVars>>

UserDeletes ==
    /\ scanner.alive /\ ~scanner.deleting
    /\ WriteScanner(Deleted(scanner, GoneScanner))
    /\ KeepJob /\ UNCHANGED <<cacheVars, controlVars, clock, faults, historyVars>>

(* The Job controller.  A Job under deletion starts no pod, but one that    *)
(* runs goes on while a finalizer holds the Job.                            *)
JobStarts ==
    /\ job.alive /\ job.owned /\ ~job.deleting /\ job.phase = "new"
    /\ WriteJob([job EXCEPT !.phase = "active", !.started = clock])
    /\ KeepScanner /\ UNCHANGED <<cacheVars, controlVars, clock, faults, historyVars>>

JobEnds(phase) ==
    /\ job.phase = "active"
    /\ WriteJob([job EXCEPT !.phase = phase, !.doneAt = clock])
    /\ completed' = (completed \/ phase = "complete")
    /\ KeepScanner
    /\ UNCHANGED <<cacheVars, controlVars, clock, faults, created, reported, missed>>

JobPastDeadline ==
    /\ job.phase = "active" /\ clock >= Cap(job.started + job.left)
    /\ WriteJob([job EXCEPT !.phase = "failed", !.doneAt = clock])
    /\ KeepScanner /\ UNCHANGED <<cacheVars, controlVars, clock, faults, historyVars>>

(* The TTL controller deletes a finished Job, garbage collection one whose  *)
(* owner is gone, and a person any Job.                                     *)
JobIsDeleted ==
    /\ job.alive /\ job.owned /\ ~job.deleting
    /\ IF (JobFinished(job) /\ clock >= Cap(job.doneAt + TTL)) \/ ~scanner.alive
       THEN UNCHANGED faults
       ELSE faults < MaxFaults /\ faults' = faults + 1
    /\ WriteJob(Deleted(job, NoJob))
    /\ KeepScanner /\ UNCHANGED <<cacheVars, controlVars, clock, historyVars>>

----------------------------------------------------------------------------

Reconcile ==
    \/ StartReconcile \/ AddFinalizer \/ StopJob \/ CreateJob \/ ReportStatus
    \/ TerminalRelease \/ TerminalDrop \/ TerminalTTL
    \/ FinalStop \/ FinalRelease \/ FinalCheck

OperatorNext ==
    \/ Reconcile \/ CallFails \/ Restart
    \/ SyncScanner \/ SyncJob \/ TimerFires \/ Tick
    \/ UserCancels \/ UserDeletes
    \/ JobStarts \/ JobPastDeadline \/ JobIsDeleted
    \/ \E phase \in {"complete", "failed"} : JobEnds(phase)

OperatorSpec == OperatorInit /\ [][OperatorNext]_operatorVars

(* The controller works its queue off, informers deliver, time passes, and  *)
(* the cluster starts and stops the Job.  Users owe nothing.                *)
FairOperator ==
    /\ OperatorSpec
    /\ WF_operatorVars(Reconcile)
    /\ WF_operatorVars(SyncScanner) /\ WF_operatorVars(SyncJob)
    /\ WF_operatorVars(TimerFires) /\ WF_operatorVars(Tick)
    /\ WF_operatorVars(JobStarts) /\ WF_operatorVars(JobPastDeadline)

----------------------------------------------------------------------------

Times == 0..MaxClock
Statuses == [outcome : Outcomes, ref : BOOLEAN, completedAt : Times,
             conds : {"none", "pending", "running", "over"}]
Scanners == [alive : BOOLEAN, deleting : BOOLEAN, finalizer : BOOLEAN,
             cancel : BOOLEAN, spec : Specs, status : Statuses]
Jobs == [alive : BOOLEAN, owned : BOOLEAN, deleting : BOOLEAN, finalizer : BOOLEAN,
         phase : {"new", "active", "complete", "failed"},
         started : Times, left : Nat, doneAt : Times]

(* Type invariant of the objects, their caches and the reconcile.           *)
OperatorTypeOK ==
    /\ {scanner, seenScanner} \subseteq Scanners /\ {job, seenJob} \subseteq Jobs
    /\ scannerWatch \in Seq(Scanners) /\ jobWatch \in Seq(Jobs)
    /\ {rec.status, rec.goal} \subseteq Statuses /\ rec.now \in Times
    /\ timer \in Times /\ clock \in Times /\ faults \in 0..MaxFaults

(* An outcome is never reported without its cause, however stale the caches *)
(* a reconcile decided on: success takes a Job that completed, expiry the   *)
(* cutoff, cancellation a request.                                          *)
OutcomeIsEarned ==
    /\ scanner.status.outcome = "Succeeded" => completed
    /\ scanner.status.outcome = "Expired" => clock >= NotAfter
    /\ scanner.status.outcome = "Cancelled" => scanner.cancel

(* The status-protection finalizer: from its creation until a terminal      *)
(* outcome was written, or the Scanner is on its way out, the Job stays at  *)
(* the API server whoever deletes it, so that its end can be read.          *)
ProtectedUntilReported ==
    created > 0 /\ ~reported /\ scanner.alive /\ ~scanner.deleting
        => job.alive /\ job.owned /\ job.finalizer

(* reconcileDeletion lets the Scanner go over a Job that is still there     *)
(* only if the cache had not seen that Job: deletion requests, releases and *)
(* the check are in an order that leaves no other gap.                      *)
OrphanOnlyIfUnseen ==
    ~scanner.alive /\ job.alive /\ job.owned => missed

(* Every Scanner ends: whatever happens to its Job, the caches and the      *)
(* calls, it reaches an outcome, lives out its time and is removed.         *)
ScannerEnds == <>(~scanner.alive)
=============================================================================
