--------------------------- MODULE OperatorProofs ---------------------------
(* What the operator guarantees for any cutoff, time to live, lag of its   *)
(* caches and number of failures.                                          *)
EXTENDS ScannerOperator, TLAPS

Final == {"finalStop", "finalRelease", "finalCheck"}
Ending == {"release", "drop", "ttl"}
Steps == {"idle", "finalize", "stop", "create", "report"} \union Final \union Ending

(* The Scanner of a version is on its way out.                             *)
Leaving(v) == v.deleting \/ ~v.alive

(* A Job of the Scanner's name that is not the Scanner's.                  *)
Foreign(v) == v.alive /\ ~v.owned

(* What an old version v of the Scanner says of the present one, s, when r *)
(* tells whether a terminal outcome was written.                           *)
PastScanner(v, s, r) ==
    /\ v.cancel => s.cancel \/ ~s.alive
    /\ Leaving(v) => Leaving(s)
    /\ v.finalizer => s.finalizer \/ ~s.alive
    /\ ~s.alive => Leaving(v) \/ ~v.finalizer
    /\ v.status.outcome \in Terminal => r

(* The versions in the cache and on their way to it.                       *)
ScannerSeen ==
    /\ PastScanner(seenScanner, scanner, reported)
    /\ \A i \in 1..Len(scannerWatch) : PastScanner(scannerWatch[i], scanner, reported)
    /\ \A i \in 1..Len(scannerWatch) : Leaving(seenScanner) => Leaving(scannerWatch[i])
    /\ \A i, j \in 1..Len(scannerWatch) :
          i < j /\ Leaving(scannerWatch[i]) => Leaving(scannerWatch[j])

(* The same of a Job, where c tells whether one completed.                 *)
PastJob(v, j, c) ==
    /\ v.phase = "complete" => c
    /\ Foreign(v) <=> Foreign(j)

JobSeen ==
    /\ PastJob(job, job, completed) /\ PastJob(seenJob, job, completed)
    /\ \A i \in 1..Len(jobWatch) : PastJob(jobWatch[i], job, completed)

(* An outcome that may be written.                                         *)
Earned(outcome) ==
    /\ outcome = "Succeeded" => completed
    /\ outcome = "Expired" => clock >= NotAfter
    /\ outcome = "Cancelled" => scanner.cancel \/ ~scanner.alive

(* What the reconcile under way has established.                           *)
Grounded ==
    /\ rec.pc \in Steps /\ rec.now <= clock
    /\ Earned(rec.goal.outcome)
    /\ rec.pc = "create" => rec.now < NotAfter /\ scanner.alive /\ scanner.finalizer
    /\ rec.pc \in Ending => reported
    /\ rec.pc \in Final => Leaving(seenScanner)

(* A Job of the Scanner has the Scanner's finalizer behind it.             *)
Guarded == scanner.alive /\ job.alive /\ job.owned => scanner.finalizer

(* The parts of the invariant that relate the Scanner to its Job.          *)
Bound ==
    /\ scanner.status.outcome \in Terminal => reported
    /\ Guarded /\ OutcomeIsEarned /\ ProtectedUntilReported /\ OrphanOnlyIfUnseen

RecTyped == rec \in [pc : Steps, status : Statuses, now : Times, goal : Statuses]

OperatorInv ==
    /\ OperatorTypeOK /\ RecTyped
    /\ created \in Nat /\ {reported, completed, missed, queued} \subseteq BOOLEAN
    /\ ScannerSeen /\ JobSeen /\ Grounded /\ Bound

----------------------------------------------------------------------------
(* The operators of the model.                                             *)

(* Min, which FiniteSetsExt defines by CHOOSE, of two numbers.             *)
LEMMA MinOfTwo ==
    ASSUME NEW m \in Nat, NEW n \in Nat
    PROVE  Min({m, n}) = IF m <= n THEN m ELSE n
<1>1. \E x \in {m, n} : \A y \in {m, n} : x <= y
  OBVIOUS
<1>2. \A x, z \in {m, n} : (\A y \in {m, n} : x <= y) /\ (\A y \in {m, n} : z <= y) => x = z
  OBVIOUS
<1>3. Min({m, n}) \in {m, n} /\ \A y \in {m, n} : Min({m, n}) <= y
  BY <1>1 DEF Min
<1> QED
  BY <1>3

(* A deadline past the bound on time is due at the bound.                  *)
LEMMA CapTyped ==
    ASSUME NEW t \in Nat
    PROVE  Cap(t) \in Times
<1>1. MaxClock \in Nat
  BY OperatorAssumption
<1> QED
  BY <1>1, MinOfTwo DEF Cap, Times

(* The delay of the work queue stays within the bound on time.             *)
LEMMA DelayTyped ==
    ASSUME NEW t \in Nat, timer \in Times, RequeueAt(t)
    PROVE  timer' \in Times /\ rec' = NoRec
<1>1. MaxClock \in Nat /\ timer \in Nat /\ Cap(t) \in Nat /\ Cap(t) \in Times
  BY CapTyped, OperatorAssumption DEF Times
<1>2. Min({timer, Cap(t)}) = IF timer <= Cap(t) THEN timer ELSE Cap(t)
  BY <1>1, MinOfTwo
<1> QED
  BY <1>1, <1>2 DEF RequeueAt, Finish

(* What a merge patch leaves at the server is a status, and its outcome is *)
(* the server's own or the one the reconcile decided on.                   *)
LEMMA MergeTyped ==
    ASSUME NEW a \in Statuses, NEW b \in Statuses, NEW g \in Statuses
    PROVE  /\ Merge(a, b, g) \in Statuses
           /\ Merge(a, b, g).outcome \in {a.outcome, g.outcome}
<1>1. DOMAIN g = {"outcome", "ref", "completedAt", "conds"}
  BY DEF Statuses
<1>2. Merge(a, b, g) = [outcome |-> IF g.outcome # b.outcome THEN g.outcome ELSE a.outcome,
                        ref |-> IF g.ref # b.ref THEN g.ref ELSE a.ref,
                        completedAt |-> IF g.completedAt # b.completedAt THEN g.completedAt
                                                                         ELSE a.completedAt,
                        conds |-> IF g.conds # b.conds THEN g.conds ELSE a.conds]
  BY <1>1 DEF Merge
<1> QED
  BY <1>2 DEF Statuses

LEMMA ConstantsTyped ==
    /\ NoStatus \in Statuses /\ NoStatus.outcome = "none"
    /\ GoneScanner \in Scanners /\ ~GoneScanner.alive /\ ~GoneScanner.finalizer
    /\ GoneScanner.status = NoStatus /\ ~GoneScanner.cancel
    /\ NoJob \in Jobs /\ ~NoJob.alive /\ ~NoJob.owned /\ NoJob.phase = "new"
    /\ ForeignJob \in Jobs /\ ForeignJob.alive /\ ~ForeignJob.owned /\ ForeignJob.phase = "new"
    /\ NoRec.pc = "idle" /\ NoRec.now = 0 /\ NoRec.goal = NoStatus /\ NoRec.status = NoStatus
    /\ NoRec \in [pc : Steps, status : Statuses, now : Times, goal : Statuses]
<1>1. 0 \in Times
  BY OperatorAssumption DEF Times
<1>2. NoStatus \in Statuses /\ NoStatus.outcome = "none"
  BY <1>1 DEF NoStatus, Statuses, Outcomes
<1>3. /\ GoneScanner \in Scanners /\ ~GoneScanner.alive /\ ~GoneScanner.finalizer
      /\ GoneScanner.status = NoStatus /\ ~GoneScanner.cancel
  BY <1>2 DEF GoneScanner, Scanners, Specs
<1>4. NoJob \in Jobs /\ ~NoJob.alive /\ ~NoJob.owned /\ NoJob.phase = "new"
  BY <1>1 DEF NoJob, Jobs
<1>5. ForeignJob \in Jobs /\ ForeignJob.alive /\ ~ForeignJob.owned /\ ForeignJob.phase = "new"
  BY <1>4 DEF ForeignJob, Jobs
<1>6. NoRec.pc = "idle" /\ NoRec.now = 0 /\ NoRec.goal = NoStatus /\ NoRec.status = NoStatus
  BY DEF NoRec
<1>7. NoRec \in [pc : Steps, status : Statuses, now : Times, goal : Statuses]
  BY <1>1, <1>2 DEF NoRec, Steps
<1> QED
  BY <1>2, <1>3, <1>4, <1>5, <1>6, <1>7

LEMMA TerminalStatusTyped ==
    ASSUME NEW st \in Statuses, NEW o \in Terminal, NEW t \in Times
    PROVE  /\ TerminalStatus(st, o, t) \in Statuses
           /\ TerminalStatus(st, o, t).outcome = o
BY DEF TerminalStatus, Statuses, Outcomes

(* reflectJobStatus reports success only of a Job that completed, and an   *)
(* end only of a Job that ended.                                           *)
LEMMA ReflectedSound ==
    ASSUME NEW st \in Statuses, NEW j \in Jobs, NEW t \in Times
    PROVE  /\ Reflected(st, j, t) \in Statuses
           /\ Reflected(st, j, t).outcome = "Succeeded" => j.phase = "complete"
           /\ Reflected(st, j, t).outcome \notin {"Expired", "Cancelled"}
<1>1. j.doneAt \in Times /\ j.phase \in {"new", "active", "complete", "failed"}
  BY DEF Jobs
<1>2. CASE j.phase = "complete"
  <2>1. Reflected(st, j, t) = TerminalStatus(st, "Succeeded", j.doneAt)
    BY <1>2 DEF Reflected
  <2> QED
    BY <2>1, <1>1, <1>2, TerminalStatusTyped DEF Terminal
<1>3. CASE j.phase = "failed"
  <2>1. Reflected(st, j, t) = TerminalStatus(st, "Failed", j.doneAt)
    BY <1>3 DEF Reflected
  <2> QED
    BY <2>1, <1>1, <1>3, TerminalStatusTyped DEF Terminal
<1>4. CASE j.phase = "active"
  <2>1. Reflected(st, j, t) = [st EXCEPT !.outcome = "Running", !.ref = TRUE, !.conds = "running"]
    BY <1>4 DEF Reflected
  <2> QED
    BY <2>1 DEF Statuses, Outcomes
<1>5. CASE j.phase = "new"
  <2>1. Reflected(st, j, t) = [st EXCEPT !.outcome = "Pending", !.ref = TRUE, !.conds = "pending"]
    BY <1>5 DEF Reflected
  <2> QED
    BY <2>1 DEF Statuses, Outcomes
<1> QED
  BY <1>1, <1>2, <1>3, <1>4, <1>5

(* What Reconcile decides on a Job has its cause in that Job or the clock. *)
LEMMA AfterJobSound ==
    ASSUME NEW st \in Statuses, NEW j \in Jobs, NEW t \in Times
    PROVE  /\ AfterJob(st, j, t).pc \in {"report", "stop"}
           /\ AfterJob(st, j, t).goal \in Statuses
           /\ AfterJob(st, j, t).goal.outcome = "Succeeded" => j.phase = "complete"
           /\ AfterJob(st, j, t).goal.outcome = "Expired" => t >= NotAfter
           /\ AfterJob(st, j, t).goal.outcome # "Cancelled"
<1>1. {"Failed", "Expired"} \subseteq Terminal
  BY DEF Terminal
<1>2. /\ TerminalStatus(st, "Failed", t) \in Statuses
      /\ TerminalStatus(st, "Failed", t).outcome = "Failed"
      /\ TerminalStatus(st, "Expired", t) \in Statuses
      /\ TerminalStatus(st, "Expired", t).outcome = "Expired"
  BY <1>1, TerminalStatusTyped
<1> QED
  BY <1>2, ReflectedSound DEF AfterJob

(* The decision of a reconcile on what its caches hold: the Scanner at     *)
(* hand s, the Job j and the time t.                                       *)
LEMMA FirstCallSound ==
    ASSUME NEW s \in Scanners, NEW j \in Jobs, NEW t \in Times
    PROVE  /\ FirstCall(s, j, t).pc \in {"finalStop", "idle", "finalize", "release",
                                         "stop", "report", "create"}
           /\ FirstCall(s, j, t).goal \in Statuses
           /\ FirstCall(s, j, t).pc = "finalStop" => s.deleting
           /\ FirstCall(s, j, t).pc = "release" => s.status.outcome \in Terminal
           /\ FirstCall(s, j, t).pc = "create" => ~s.deleting /\ s.finalizer /\ t < NotAfter
           /\ FirstCall(s, j, t).goal.outcome = "Succeeded" => j.phase = "complete"
           /\ FirstCall(s, j, t).goal.outcome = "Expired" => t >= NotAfter
           /\ FirstCall(s, j, t).goal.outcome = "Cancelled" => s.cancel
<1>1. {"Failed", "Expired", "Cancelled"} \subseteq Terminal /\ s.status \in Statuses
  BY DEF Terminal, Scanners
<1>2. /\ \A o \in {"Failed", "Expired", "Cancelled"} :
            /\ TerminalStatus(s.status, o, t) \in Statuses
            /\ TerminalStatus(s.status, o, t).outcome = o
  BY <1>1, TerminalStatusTyped
<1>3. t \in Nat /\ NotAfter \in Nat
  BY OperatorAssumption DEF Times
<1>4. /\ AfterJob(s.status, j, t).pc \in {"report", "stop"}
      /\ AfterJob(s.status, j, t).goal \in Statuses
      /\ AfterJob(s.status, j, t).goal.outcome = "Succeeded" => j.phase = "complete"
      /\ AfterJob(s.status, j, t).goal.outcome = "Expired" => t >= NotAfter
      /\ AfterJob(s.status, j, t).goal.outcome # "Cancelled"
  BY <1>1, AfterJobSound
<1>5. CASE s.deleting
  <2>1. FirstCall(s, j, t) = [pc |-> IF s.finalizer THEN "finalStop" ELSE "idle", goal |-> NoStatus]
    BY <1>5 DEF FirstCall
  <2> QED
    BY <2>1, <1>5, ConstantsTyped
<1>6. CASE ~s.deleting /\ ~s.finalizer
  <2>1. FirstCall(s, j, t) = [pc |-> "finalize", goal |-> NoStatus]
    BY <1>6 DEF FirstCall
  <2> QED
    BY <2>1, ConstantsTyped
<1>7. CASE ~s.deleting /\ s.finalizer /\ s.status.outcome \in Terminal
  <2>1. FirstCall(s, j, t) = [pc |-> "release", goal |-> NoStatus]
    BY <1>7 DEF FirstCall
  <2> QED
    BY <2>1, <1>7, ConstantsTyped
<1>8. CASE ~s.deleting /\ s.finalizer /\ s.status.outcome \notin Terminal
  <2>1. \/ FirstCall(s, j, t) = AfterJob(s.status, j, t)
        \/ /\ s.cancel
           /\ FirstCall(s, j, t) = [pc |-> "stop", goal |-> TerminalStatus(s.status, "Cancelled", t)]
        \/ FirstCall(s, j, t) = [pc |-> "report", goal |-> TerminalStatus(s.status, "Failed", t)]
        \/ /\ t >= NotAfter
           /\ FirstCall(s, j, t) = [pc |-> "report", goal |-> TerminalStatus(s.status, "Expired", t)]
        \/ ~(t >= NotAfter) /\ FirstCall(s, j, t) = [pc |-> "create", goal |-> NoStatus]
    BY <1>8 DEF FirstCall
  <2> QED
    BY <2>1, <1>2, <1>3, <1>4, <1>8, ConstantsTyped
<1> QED
  BY <1>5, <1>6, <1>7, <1>8 DEF Scanners

----------------------------------------------------------------------------
(* The caches.  Each fact is about one object; the steps cite the ones for *)
(* the objects they touch.                                                 *)

LEMMA ScannerKept ==
    ASSUME ScannerSeen, KeepScanner, seenScanner' = seenScanner, reported => reported'
    PROVE  ScannerSeen'
BY DEF ScannerSeen, KeepScanner, PastScanner, Leaving

LEMMA JobKept ==
    ASSUME JobSeen, KeepJob, seenJob' = seenJob, completed => completed'
    PROVE  JobSeen'
BY DEF JobSeen, KeepJob, PastJob, Foreign

(* A version s that goes on from the present Scanner: a request to cancel, *)
(* a deletion and the finalizer stay while it lives, and if s is gone,     *)
(* then no version that is still known could start a Job.                  *)
Continues(s) ==
    /\ scanner.cancel => s.cancel \/ ~s.alive
    /\ Leaving(scanner) => Leaving(s)
    /\ scanner.finalizer => s.finalizer \/ ~s.alive
    /\ ~scanner.alive => ~s.alive
    /\ ~s.alive => Leaving(seenScanner) \/ ~scanner.finalizer \/ ~scanner.alive

LEMMA ScannerWritten ==
    ASSUME ScannerSeen, scanner \in Scanners, seenScanner \in Scanners,
           scannerWatch \in Seq(Scanners), NEW s \in Scanners, WriteScanner(s),
           Continues(s), seenScanner' = seenScanner, reported => reported',
           s.status.outcome \in Terminal => reported'
    PROVE  ScannerSeen' /\ scanner' \in Scanners /\ scannerWatch' \in Seq(Scanners)
<1>1. scanner' = s
  BY DEF WriteScanner
<1>2. /\ PastScanner(seenScanner, s, reported')
      /\ \A i \in 1..Len(scannerWatch) : PastScanner(scannerWatch[i], s, reported')
  BY DEF ScannerSeen, PastScanner, Continues, Leaving
<1>3. CASE s = scanner
  <2>1. scannerWatch' = scannerWatch
    BY <1>3 DEF WriteScanner
  <2> QED
    BY <1>1, <1>2, <2>1 DEF ScannerSeen
<1>4. CASE s # scanner
  <2>1. scannerWatch' = Append(scannerWatch, s)
    BY <1>4 DEF WriteScanner
  <2>2. /\ scannerWatch' \in Seq(Scanners) /\ Len(scannerWatch') = Len(scannerWatch) + 1
        /\ Len(scannerWatch) \in Nat
        /\ \A i \in 1..Len(scannerWatch) : scannerWatch'[i] = scannerWatch[i]
        /\ scannerWatch'[Len(scannerWatch) + 1] = s
    BY <2>1
  <2>3. PastScanner(s, s, reported')
    BY DEF PastScanner, Leaving
  <2>4. /\ Leaving(seenScanner) => Leaving(s)
        /\ \A i \in 1..Len(scannerWatch) : Leaving(scannerWatch[i]) => Leaving(s)
    BY DEF ScannerSeen, PastScanner, Continues
  <2>5. \A i \in 1..Len(scannerWatch') : i \in 1..Len(scannerWatch) \/ i = Len(scannerWatch) + 1
    BY <2>2
  <2>6. \A i \in 1..Len(scannerWatch') : PastScanner(scannerWatch'[i], s, reported')
    BY <2>2, <2>3, <2>5, <1>2
  <2>7. \A i \in 1..Len(scannerWatch') : Leaving(seenScanner) => Leaving(scannerWatch'[i])
    BY <2>2, <2>4, <2>5 DEF ScannerSeen
  <2>8. \A i, j \in 1..Len(scannerWatch') :
           i < j /\ Leaving(scannerWatch'[i]) => Leaving(scannerWatch'[j])
    <3>1. SUFFICES ASSUME NEW i \in 1..Len(scannerWatch'), NEW j \in 1..Len(scannerWatch'),
                          i < j, Leaving(scannerWatch'[i])
                   PROVE  Leaving(scannerWatch'[j])
      OBVIOUS
    <3>2. i \in 1..Len(scannerWatch)
      BY <3>1, <2>2
    <3>3. scannerWatch'[i] = scannerWatch[i]
      BY <3>2, <2>2
    <3>4. CASE j \in 1..Len(scannerWatch)
      BY <3>1, <3>2, <3>3, <3>4, <2>2 DEF ScannerSeen
    <3>5. CASE j = Len(scannerWatch) + 1
      BY <3>1, <3>2, <3>3, <3>5, <2>2, <2>4
    <3> QED
      BY <3>4, <3>5, <2>5
  <2> QED
    BY <1>1, <1>2, <2>2, <2>6, <2>7, <2>8 DEF ScannerSeen
<1> QED
  BY <1>3, <1>4

LEMMA JobWritten ==
    ASSUME JobSeen, job \in Jobs, jobWatch \in Seq(Jobs), NEW j \in Jobs, WriteJob(j),
           seenJob' = seenJob, Foreign(j) <=> Foreign(job),
           completed => completed', j.phase = "complete" => completed'
    PROVE  JobSeen' /\ job' \in Jobs /\ jobWatch' \in Seq(Jobs)
<1>1. job' = j
  BY DEF WriteJob
<1>2. /\ PastJob(j, j, completed') /\ PastJob(seenJob, j, completed')
      /\ \A i \in 1..Len(jobWatch) : PastJob(jobWatch[i], j, completed')
  BY DEF JobSeen, PastJob
<1>3. CASE j = job
  <2>1. jobWatch' = jobWatch
    BY <1>3 DEF WriteJob
  <2> QED
    BY <1>1, <1>2, <2>1 DEF JobSeen
<1>4. CASE j # job
  <2>1. jobWatch' = Append(jobWatch, j)
    BY <1>4 DEF WriteJob
  <2>2. /\ jobWatch' \in Seq(Jobs) /\ Len(jobWatch') = Len(jobWatch) + 1 /\ Len(jobWatch) \in Nat
        /\ \A i \in 1..Len(jobWatch) : jobWatch'[i] = jobWatch[i]
        /\ jobWatch'[Len(jobWatch) + 1] = j
    BY <2>1
  <2>3. \A i \in 1..Len(jobWatch') : i \in 1..Len(jobWatch) \/ i = Len(jobWatch) + 1
    BY <2>2
  <2>4. \A i \in 1..Len(jobWatch') : PastJob(jobWatch'[i], j, completed')
    BY <2>2, <2>3, <1>2
  <2> QED
    BY <1>1, <1>2, <2>2, <2>4 DEF JobSeen
<1> QED
  BY <1>3, <1>4

(* An informer delivers the next version.                                  *)
LEMMA ScannerDelivered ==
    ASSUME ScannerSeen, scannerWatch \in Seq(Scanners), scannerWatch # <<>>,
           seenScanner' = Head(scannerWatch), scannerWatch' = Tail(scannerWatch),
           scanner' = scanner, reported' = reported
    PROVE  /\ ScannerSeen' /\ seenScanner' \in Scanners /\ scannerWatch' \in Seq(Scanners)
           /\ Leaving(seenScanner) => Leaving(seenScanner')
<1>1. /\ Len(scannerWatch) \in Nat \ {0} /\ seenScanner' = scannerWatch[1]
      /\ seenScanner' \in Scanners /\ scannerWatch' \in Seq(Scanners)
      /\ Len(scannerWatch') = Len(scannerWatch) - 1
      /\ \A i \in 1..Len(scannerWatch') : scannerWatch'[i] = scannerWatch[i + 1]
  OBVIOUS
<1>2. \A i \in 1..Len(scannerWatch') : i + 1 \in 1..Len(scannerWatch) /\ 1 < i + 1
  BY <1>1
<1>3. 1 \in 1..Len(scannerWatch)
  BY <1>1
<1>4. PastScanner(seenScanner', scanner, reported) /\ (Leaving(seenScanner) => Leaving(seenScanner'))
  BY <1>1, <1>3 DEF ScannerSeen
<1>5. \A i \in 1..Len(scannerWatch') : PastScanner(scannerWatch'[i], scanner, reported)
  BY <1>1, <1>2 DEF ScannerSeen
<1>6. \A i \in 1..Len(scannerWatch') : Leaving(seenScanner') => Leaving(scannerWatch'[i])
  BY <1>1, <1>2, <1>3 DEF ScannerSeen
<1>7. \A i, j \in 1..Len(scannerWatch') :
         i < j /\ Leaving(scannerWatch'[i]) => Leaving(scannerWatch'[j])
  BY <1>1, <1>2 DEF ScannerSeen
<1> QED
  BY <1>1, <1>4, <1>5, <1>6, <1>7 DEF ScannerSeen

LEMMA JobDelivered ==
    ASSUME JobSeen, jobWatch \in Seq(Jobs), jobWatch # <<>>, seenJob' = Head(jobWatch),
           jobWatch' = Tail(jobWatch), job' = job, completed' = completed
    PROVE  JobSeen' /\ seenJob' \in Jobs /\ jobWatch' \in Seq(Jobs)
<1>1. /\ Len(jobWatch) \in Nat \ {0} /\ seenJob' = jobWatch[1] /\ seenJob' \in Jobs
      /\ jobWatch' \in Seq(Jobs) /\ Len(jobWatch') = Len(jobWatch) - 1
      /\ \A i \in 1..Len(jobWatch') : jobWatch'[i] = jobWatch[i + 1]
  OBVIOUS
<1>2. 1 \in 1..Len(jobWatch) /\ \A i \in 1..Len(jobWatch') : i + 1 \in 1..Len(jobWatch)
  BY <1>1
<1> QED
  BY <1>1, <1>2 DEF JobSeen

----------------------------------------------------------------------------
(* What steps have in common.                                              *)

(* Causes stay: what earned an outcome earns it for good.                  *)
Onward ==
    /\ reported => reported'
    /\ completed => completed'
    /\ missed => missed'
    /\ clock <= clock' /\ clock' \in Times
    /\ scanner.cancel \/ ~scanner.alive => scanner'.cancel \/ ~scanner'.alive

(* No Job of the Scanner appears, and none that is protected goes.         *)
NoNewJob == job'.alive /\ job'.owned => job.alive /\ job.owned
JobHeld == job.alive /\ job.owned /\ job.finalizer => job'.alive /\ job'.owned /\ job'.finalizer

LEMMA ClockNumbers ==
    ASSUME OperatorInv
    PROVE  /\ clock \in Nat /\ MaxClock \in Nat /\ rec.now \in Nat /\ NotAfter \in Nat
           /\ clock <= MaxClock /\ timer \in Nat /\ faults \in Nat /\ MaxFaults \in Nat
BY OperatorAssumption DEF OperatorInv, OperatorTypeOK, Times

LEMMA BoundKept ==
    ASSUME OperatorInv, Onward, scanner' = scanner, NoNewJob, created' = created,
           \/ JobHeld
           \/ reported'
           \/ Leaving(scanner)
    PROVE  Bound'
<1>1. clock \in Nat /\ clock' \in Nat /\ NotAfter \in Nat
  BY ClockNumbers, OperatorAssumption DEF Onward, Times
<1> QED
  BY <1>1 DEF OperatorInv, Onward, NoNewJob, JobHeld, Leaving, Bound, Guarded, OutcomeIsEarned,
              ProtectedUntilReported, OrphanOnlyIfUnseen

(* The reconcile is over.                                                  *)
LEMMA IdleGrounded ==
    ASSUME clock' \in Times, rec' = NoRec
    PROVE  Grounded' /\ RecTyped'
<1>1. clock' \in Nat
  BY OperatorAssumption DEF Times
<1> QED
  BY <1>1, ConstantsTyped DEF Grounded, RecTyped, Earned, Steps, Ending, Final

(* The reconcile goes on to call p with the same decision.                 *)
LEMMA MovedGrounded ==
    ASSUME OperatorInv, Onward, NEW p \in Steps \ {"create"}, rec' = [rec EXCEPT !.pc = p],
           p \in Ending => reported', p \in Final => Leaving(seenScanner')
    PROVE  Grounded' /\ RecTyped'
<1>1. clock \in Nat /\ clock' \in Nat /\ NotAfter \in Nat /\ rec.now \in Nat
  BY ClockNumbers, OperatorAssumption DEF Onward, Times
<1>2. RecTyped' /\ rec'.pc = p /\ rec'.now = rec.now /\ rec'.goal = rec.goal
  BY DEF OperatorInv, RecTyped
<1>3. Earned(rec.goal.outcome)'
  BY <1>1 DEF OperatorInv, Grounded, Earned, Onward
<1> QED
  BY <1>1, <1>2, <1>3 DEF OperatorInv, Grounded, Earned, Onward

(* The reconcile is not part of the step.                                  *)
LEMMA SameGrounded ==
    ASSUME OperatorInv, Onward, rec' = rec,
           Leaving(seenScanner) => Leaving(seenScanner'),
           scanner.alive /\ scanner.finalizer => scanner'.alive /\ scanner'.finalizer
    PROVE  Grounded' /\ RecTyped'
<1>1. clock \in Nat /\ clock' \in Nat /\ NotAfter \in Nat /\ rec.now \in Nat
  BY ClockNumbers, OperatorAssumption DEF Onward, Times
<1> QED
  BY <1>1 DEF OperatorInv, RecTyped, Grounded, Earned, Onward

LEMMA DeletedJob ==
    ASSUME NEW j \in Jobs
    PROVE  /\ Deleted(j, NoJob) \in Jobs
           /\ Deleted(j, NoJob).phase \in {j.phase, "new"}
           /\ ~Foreign(j) => ~Foreign(Deleted(j, NoJob))
           /\ Deleted(j, NoJob).alive => j.alive
           /\ Deleted(j, NoJob).owned => j.owned
           /\ j.alive /\ j.finalizer => /\ Deleted(j, NoJob).alive
                                        /\ Deleted(j, NoJob).finalizer
                                        /\ Deleted(j, NoJob).owned = j.owned
<1>1. CASE j.alive /\ j.finalizer
  <2>1. Deleted(j, NoJob) = [j EXCEPT !.deleting = TRUE]
    BY <1>1 DEF Deleted
  <2> QED
    BY <2>1, <1>1 DEF Jobs, Foreign
<1>2. CASE ~(j.alive /\ j.finalizer)
  <2>1. Deleted(j, NoJob) = NoJob
    BY <1>2 DEF Deleted
  <2> QED
    BY <2>1, <1>2, ConstantsTyped DEF Foreign
<1> QED
  BY <1>1, <1>2

LEMMA ReleasedJob ==
    ASSUME NEW j \in Jobs
    PROVE  /\ Released(j, NoJob) \in Jobs
           /\ Released(j, NoJob).phase \in {j.phase, "new"}
           /\ ~Foreign(j) => ~Foreign(Released(j, NoJob))
           /\ Released(j, NoJob).alive => j.alive
           /\ Released(j, NoJob).owned => j.owned
<1>1. CASE j.deleting
  <2>1. Released(j, NoJob) = NoJob
    BY <1>1 DEF Released
  <2> QED
    BY <2>1, ConstantsTyped DEF Foreign
<1>2. CASE ~j.deleting
  <2>1. Released(j, NoJob) = [j EXCEPT !.finalizer = FALSE]
    BY <1>2 DEF Released
  <2> QED
    BY <2>1 DEF Jobs, Foreign
<1> QED
  BY <1>1, <1>2

(* requestJobDeletion, on a Job that was seen to be the Scanner's, deletes *)
(* no Job of somebody else, and takes no protected Job away.               *)
LEMMA DeletionRequested ==
    ASSUME OperatorInv, RequestJobDeletion, seenJob' = seenJob, completed' = completed
    PROVE  JobSeen' /\ job' \in Jobs /\ jobWatch' \in Seq(Jobs) /\ NoNewJob /\ JobHeld
<1>1. job \in Jobs /\ jobWatch \in Seq(Jobs) /\ JobSeen
  BY DEF OperatorInv, OperatorTypeOK
<1>2. CASE seenJob.alive /\ seenJob.owned /\ ~seenJob.deleting
  <2> DEFINE d == Deleted(job, NoJob)
  <2>1. WriteJob(d)
    BY <1>2 DEF RequestJobDeletion
  <2>2. ~Foreign(job)
    BY <1>1, <1>2 DEF JobSeen, PastJob, Foreign
  <2>3. /\ d \in Jobs /\ d.phase \in {job.phase, "new"} /\ ~Foreign(d)
        /\ (d.alive => job.alive) /\ (d.owned => job.owned)
        /\ job.alive /\ job.finalizer => d.alive /\ d.finalizer /\ d.owned = job.owned
    BY <1>1, <2>2, DeletedJob
  <2> HIDE DEF d
  <2>4. d.phase = "complete" => completed
    BY <2>3, <1>1 DEF JobSeen, PastJob
  <2>5. JobSeen' /\ job' \in Jobs /\ jobWatch' \in Seq(Jobs)
    BY <1>1, <2>1, <2>2, <2>3, <2>4, JobWritten
  <2>6. job' = d
    BY <2>1 DEF WriteJob
  <2> QED
    BY <2>3, <2>5, <2>6 DEF NoNewJob, JobHeld
<1>3. CASE ~(seenJob.alive /\ seenJob.owned /\ ~seenJob.deleting)
  <2>1. KeepJob
    BY <1>3 DEF RequestJobDeletion
  <2> QED
    BY <1>1, <2>1, JobKept DEF KeepJob, NoNewJob, JobHeld
<1> QED
  BY <1>2, <1>3

(* releaseJobFinalizer is content to leave the Job without protection.     *)
LEMMA JobReleased ==
    ASSUME OperatorInv, NEW next, ReleaseJob(next), seenJob' = seenJob, completed' = completed
    PROVE  /\ JobSeen' /\ job' \in Jobs /\ jobWatch' \in Seq(Jobs) /\ NoNewJob
           /\ rec' \in {NoRec, [rec EXCEPT !.pc = next]} /\ queued' \in {queued, TRUE}
<1>1. job \in Jobs /\ jobWatch \in Seq(Jobs) /\ JobSeen
  BY DEF OperatorInv, OperatorTypeOK
<1>2. rec' \in {NoRec, [rec EXCEPT !.pc = next]} /\ queued' \in {queued, TRUE}
  BY DEF ReleaseJob, Requeue, Finish, Goto
<1>3. CASE seenJob.alive /\ seenJob.owned /\ seenJob.finalizer /\ job.alive
  <2> DEFINE d == Released(job, NoJob)
  <2>1. WriteJob(d)
    BY <1>3 DEF ReleaseJob
  <2>2. ~Foreign(job)
    BY <1>1, <1>3 DEF JobSeen, PastJob, Foreign
  <2>3. /\ d \in Jobs /\ d.phase \in {job.phase, "new"} /\ ~Foreign(d)
        /\ (d.alive => job.alive) /\ (d.owned => job.owned)
    BY <1>1, <2>2, ReleasedJob
  <2> HIDE DEF d
  <2>4. d.phase = "complete" => completed
    BY <2>3, <1>1 DEF JobSeen, PastJob
  <2>5. JobSeen' /\ job' \in Jobs /\ jobWatch' \in Seq(Jobs)
    BY <1>1, <2>1, <2>2, <2>3, <2>4, JobWritten
  <2>6. job' = d
    BY <2>1 DEF WriteJob
  <2> QED
    BY <1>2, <2>3, <2>5, <2>6 DEF NoNewJob
<1>4. CASE ~(seenJob.alive /\ seenJob.owned /\ seenJob.finalizer /\ job.alive)
  <2>1. KeepJob
    BY <1>4 DEF ReleaseJob
  <2> QED
    BY <1>1, <1>2, <2>1, JobKept DEF KeepJob, NoNewJob
<1> QED
  BY <1>3, <1>4

----------------------------------------------------------------------------
(* The steps of a reconcile.                                               *)

(* A step that touches the Job and the reconcile only.                     *)
LEMMA JobSide ==
    ASSUME OperatorInv, KeepScanner, timer' \in Times, queued' \in BOOLEAN,
           UNCHANGED <<cacheVars, clock, faults, reported, completed, missed>>, created' \in Nat,
           JobSeen', job' \in Jobs, jobWatch' \in Seq(Jobs), Grounded', RecTyped', Bound'
    PROVE  OperatorInv'
<1>1. ScannerSeen'
  BY ScannerKept DEF OperatorInv, cacheVars
<1> QED
  BY <1>1 DEF OperatorInv, OperatorTypeOK, RecTyped, KeepScanner, cacheVars

(* A step that touches the Scanner and the reconcile only.                 *)
LEMMA ScannerSide ==
    ASSUME OperatorInv, KeepJob, timer' \in Times, queued' \in BOOLEAN,
           UNCHANGED <<cacheVars, clock, faults, created, completed>>,
           reported' \in BOOLEAN, missed' \in BOOLEAN,
           ScannerSeen', scanner' \in Scanners, scannerWatch' \in Seq(Scanners),
           Grounded', RecTyped', Bound'
    PROVE  OperatorInv'
<1>1. JobSeen'
  BY JobKept DEF OperatorInv, cacheVars
<1> QED
  BY <1>1 DEF OperatorInv, OperatorTypeOK, RecTyped, KeepJob, cacheVars

(* Time, caches and histories rest while a reconcile makes a call.         *)
LEMMA Resting ==
    ASSUME OperatorInv, scanner' = scanner, UNCHANGED <<cacheVars, clock, reported, completed, missed>>
    PROVE  Onward /\ clock' \in Times /\ seenScanner' = seenScanner /\ seenJob' = seenJob
BY ClockNumbers DEF OperatorInv, OperatorTypeOK, Onward, cacheVars

LEMMA StartStep ==
    ASSUME OperatorInv, StartReconcile
    PROVE  OperatorInv'
<1>1. /\ KeepScanner /\ KeepJob /\ UNCHANGED <<cacheVars, timer, clock, faults, historyVars>>
      /\ queued' = FALSE
  BY DEF StartReconcile
<1>2. Onward /\ Bound' /\ JobSeen' /\ job' \in Jobs /\ jobWatch' \in Seq(Jobs)
  <2>1. Onward
    BY <1>1, Resting DEF KeepScanner, historyVars
  <2>2. scanner' = scanner /\ NoNewJob /\ JobHeld /\ created' = created
    BY <1>1 DEF KeepScanner, KeepJob, historyVars, NoNewJob, JobHeld
  <2>3. Bound'
    BY <2>1, <2>2, BoundKept
  <2>4. JobSeen' /\ job' \in Jobs /\ jobWatch' \in Seq(Jobs)
    BY <1>1, JobKept DEF OperatorInv, OperatorTypeOK, KeepJob, cacheVars, historyVars
  <2> QED
    BY <2>1, <2>3, <2>4
<1>3. Grounded' /\ RecTyped'
  <2>1. CASE ~seenScanner.alive
    <3>1. rec' = rec
      BY <2>1 DEF StartReconcile
    <3> QED
      BY <3>1, <1>1, <1>2, SameGrounded DEF KeepScanner, cacheVars
  <2>2. CASE seenScanner.alive
    <3> DEFINE f == FirstCall(seenScanner, seenJob, clock)
               st == IF seenScanner.deleting THEN NoStatus ELSE seenScanner.status
    <3>1. rec' = [pc |-> f.pc, now |-> clock, goal |-> f.goal, status |-> st]
      BY <2>2 DEF StartReconcile
    <3>2. seenScanner \in Scanners /\ seenJob \in Jobs /\ clock \in Times
      BY DEF OperatorInv, OperatorTypeOK
    <3>3. /\ f.pc \in {"finalStop", "idle", "finalize", "release", "stop", "report", "create"}
          /\ f.goal \in Statuses
          /\ f.pc = "finalStop" => seenScanner.deleting
          /\ f.pc = "release" => seenScanner.status.outcome \in Terminal
          /\ f.pc = "create" => ~seenScanner.deleting /\ seenScanner.finalizer /\ clock < NotAfter
          /\ f.goal.outcome = "Succeeded" => seenJob.phase = "complete"
          /\ f.goal.outcome = "Expired" => clock >= NotAfter
          /\ f.goal.outcome = "Cancelled" => seenScanner.cancel
      BY <3>2, FirstCallSound
    <3>4. st \in Statuses
      BY <3>2, ConstantsTyped DEF Scanners
    <3> HIDE DEF f, st
    <3>5. rec'.pc = f.pc /\ rec'.now = clock /\ rec'.goal = f.goal /\ RecTyped'
      BY <3>1, <3>2, <3>3, <3>4 DEF RecTyped, Steps, Final, Ending
    <3>6. /\ f.goal.outcome = "Succeeded" => completed'
          /\ f.goal.outcome = "Expired" => clock' >= NotAfter
          /\ f.goal.outcome = "Cancelled" => scanner'.cancel \/ ~scanner'.alive
      BY <3>3, <1>1 DEF OperatorInv, ScannerSeen, PastScanner, JobSeen, PastJob,
                        KeepScanner, historyVars
    <3>7. f.pc = "create" => clock < NotAfter /\ scanner.alive /\ scanner.finalizer
      BY <3>3, <2>2 DEF OperatorInv, ScannerSeen, PastScanner, Leaving
    <3>8. (f.pc \in Ending => reported) /\ (f.pc \in Final => Leaving(seenScanner))
      BY <3>3 DEF OperatorInv, ScannerSeen, PastScanner, Leaving, Ending, Final
    <3>9. f.pc \in Steps /\ clock <= clock
      BY <3>3, ClockNumbers DEF Steps, Ending, Final
    <3>10. scanner' = scanner /\ clock' = clock /\ reported' = reported /\ seenScanner' = seenScanner
      BY <1>1 DEF KeepScanner, cacheVars, historyVars
    <3>11. Earned(rec.goal.outcome)'
      BY <3>5, <3>6 DEF Earned
    <3> QED
      BY <3>5, <3>7, <3>8, <3>9, <3>10, <3>11 DEF Grounded, Leaving
  <2> QED
    BY <2>1, <2>2
<1>4. created' \in Nat /\ timer' \in Times /\ queued' \in BOOLEAN
  BY <1>1 DEF OperatorInv, OperatorTypeOK, historyVars
<1> QED
  BY <1>1, <1>2, <1>3, <1>4, JobSide DEF historyVars

(* StopJob, TerminalDrop and FinalStop: the Job's deletion is requested.   *)
LEMMA DeletionStep ==
    ASSUME OperatorInv, NEW p \in {"report", "ttl", "finalRelease"}, RequestJobDeletion, Goto(p),
           p = "ttl" => rec.pc \in Ending, p = "finalRelease" => rec.pc \in Final,
           KeepScanner, UNCHANGED <<cacheVars, queued, timer, clock, faults, historyVars>>
    PROVE  OperatorInv'
<1>1. Onward /\ seenJob' = seenJob /\ completed' = completed
  BY Resting DEF KeepScanner, historyVars
<1>2. JobSeen' /\ job' \in Jobs /\ jobWatch' \in Seq(Jobs) /\ NoNewJob /\ JobHeld
  BY <1>1, DeletionRequested
<1>3. Bound'
  BY <1>1, <1>2, BoundKept DEF KeepScanner, historyVars
<1>4. /\ p \in Steps \ {"create"} /\ rec' = [rec EXCEPT !.pc = p]
      /\ (p \in Ending => reported') /\ (p \in Final => Leaving(seenScanner'))
  BY DEF Goto, Steps, Ending, Final, OperatorInv, Grounded, historyVars, cacheVars, Leaving
<1>5. Grounded' /\ RecTyped'
  BY <1>1, <1>4, MovedGrounded
<1>6. created' \in Nat /\ timer' \in Times /\ queued' \in BOOLEAN
  BY DEF OperatorInv, OperatorTypeOK, historyVars
<1> QED
  BY <1>2, <1>3, <1>5, <1>6, JobSide DEF historyVars

(* TerminalRelease and FinalRelease: the Job's finalizer is removed, once  *)
(* an outcome was written or the Scanner is on its way out.                *)
LEMMA ReleaseStep ==
    ASSUME OperatorInv, NEW p \in {"drop", "ttl", "finalCheck"}, ReleaseJob(p),
           p \in {"drop", "ttl"} => rec.pc \in Ending, p = "finalCheck" => rec.pc \in Final,
           KeepScanner, UNCHANGED <<cacheVars, timer, clock, faults, historyVars>>
    PROVE  OperatorInv'
<1>1. Onward /\ clock' \in Times /\ seenJob' = seenJob /\ completed' = completed
  BY Resting DEF KeepScanner, historyVars
<1>2. /\ JobSeen' /\ job' \in Jobs /\ jobWatch' \in Seq(Jobs) /\ NoNewJob
      /\ rec' \in {NoRec, [rec EXCEPT !.pc = p]} /\ queued' \in {queued, TRUE}
  BY <1>1, JobReleased
<1>3. reported' \/ Leaving(scanner)
  BY DEF OperatorInv, Grounded, ScannerSeen, PastScanner, historyVars
<1>4. Bound'
  BY <1>1, <1>2, <1>3, BoundKept DEF KeepScanner, historyVars
<1>5. /\ p \in Steps \ {"create"}
      /\ (p \in Ending => reported') /\ (p \in Final => Leaving(seenScanner'))
  BY DEF Steps, Ending, Final, OperatorInv, Grounded, historyVars, cacheVars, Leaving
<1>6. Grounded' /\ RecTyped'
  BY <1>1, <1>2, <1>5, MovedGrounded, IdleGrounded
<1>7. created' \in Nat /\ timer' \in Times /\ queued' \in BOOLEAN
  BY <1>2 DEF OperatorInv, OperatorTypeOK, historyVars
<1> QED
  BY <1>2, <1>4, <1>6, <1>7, JobSide DEF historyVars

(* A version s of the Scanner is written that does not break its promises: *)
(* its outcome has a cause, and if it is the last, no Job is left behind   *)
(* but one the cache had not seen.                                         *)
Allowed(s) ==
    /\ Continues(s)
    /\ s.status.outcome \in Terminal => reported'
    /\ s.status.outcome = "Succeeded" => completed
    /\ s.status.outcome = "Expired" => clock >= NotAfter
    /\ s.status.outcome = "Cancelled" => s.cancel
    /\ ~s.alive /\ scanner.alive /\ job.alive /\ job.owned => missed'

LEMMA ScannerBound ==
    ASSUME OperatorInv, NEW s \in Scanners, scanner' = s, Allowed(s), KeepJob,
           UNCHANGED <<clock, created, completed>>, reported => reported', missed => missed'
    PROVE  Onward /\ Bound'
<1>1. clock \in Nat /\ clock' = clock /\ clock \in Times
  BY ClockNumbers DEF OperatorInv, OperatorTypeOK
<1>2. Onward
  BY <1>1 DEF Onward, Allowed, Continues
<1>3. OutcomeIsEarned' /\ (scanner.status.outcome \in Terminal => reported)'
  BY <1>1 DEF OutcomeIsEarned, Allowed
<1>4. s.alive => scanner.alive
  BY DEF Allowed, Continues, Scanners, OperatorInv, OperatorTypeOK
<1>5. Guarded'
  BY <1>4 DEF OperatorInv, Bound, Guarded, Allowed, Continues, KeepJob
<1>6. ProtectedUntilReported'
  BY <1>4 DEF OperatorInv, Bound, ProtectedUntilReported, Allowed, Continues, KeepJob, Leaving
<1>7. OrphanOnlyIfUnseen'
  BY DEF OperatorInv, Bound, OrphanOnlyIfUnseen, Allowed, KeepJob
<1> QED
  BY <1>2, <1>3, <1>5, <1>6, <1>7 DEF Bound

LEMMA ScannerWriteStep ==
    ASSUME OperatorInv, NEW s \in Scanners, WriteScanner(s), Allowed(s), KeepJob,
           UNCHANGED <<cacheVars, clock, faults, created, completed>>,
           reported => reported', missed => missed', reported' \in BOOLEAN, missed' \in BOOLEAN,
           timer' \in Times, queued' \in BOOLEAN, Grounded', RecTyped'
    PROVE  OperatorInv'
<1>1. scanner' = s
  BY DEF WriteScanner
<1>2. Bound'
  BY <1>1, ScannerBound
<1>3. ScannerSeen' /\ scanner' \in Scanners /\ scannerWatch' \in Seq(Scanners)
  BY ScannerWritten DEF OperatorInv, OperatorTypeOK, Allowed, cacheVars
<1> QED
  BY <1>2, <1>3, ScannerSide

(* A reconcile ends without a write.                                       *)
LEMMA EndStep ==
    ASSUME OperatorInv, KeepScanner, KeepJob, rec' = NoRec, timer' \in Times, queued' \in BOOLEAN,
           UNCHANGED <<cacheVars, clock, created, reported, completed>>,
           missed => missed', missed' \in BOOLEAN, faults' \in 0..MaxFaults
    PROVE  OperatorInv'
<1>1. clock' \in Times /\ Onward
  BY ClockNumbers DEF OperatorInv, OperatorTypeOK, Onward, KeepScanner
<1>2. Grounded' /\ RecTyped'
  BY <1>1, IdleGrounded
<1>3. Bound'
  BY <1>1, BoundKept DEF KeepScanner, KeepJob, NoNewJob, JobHeld
<1>4. ScannerSeen' /\ JobSeen'
  BY ScannerKept, JobKept DEF OperatorInv, cacheVars
<1> QED
  BY <1>1, <1>2, <1>3, <1>4 DEF OperatorInv, OperatorTypeOK, KeepScanner, KeepJob, RecTyped, cacheVars

LEMMA DeletedScanner ==
    ASSUME OperatorInv, missed => missed', reported' = reported
    PROVE  /\ Deleted(scanner, GoneScanner) \in Scanners /\ Allowed(Deleted(scanner, GoneScanner))
           /\ scanner.alive /\ scanner.finalizer => /\ Deleted(scanner, GoneScanner).alive
                                                    /\ Deleted(scanner, GoneScanner).finalizer
<1>1. scanner \in Scanners
  BY DEF OperatorInv, OperatorTypeOK
<1>2. CASE scanner.alive /\ scanner.finalizer
  <2> DEFINE d == [scanner EXCEPT !.deleting = TRUE]
  <2>1. Deleted(scanner, GoneScanner) = d
    BY <1>2 DEF Deleted
  <2>2. /\ d \in Scanners /\ d.alive /\ d.finalizer /\ d.deleting /\ d.cancel = scanner.cancel
        /\ d.status = scanner.status
    BY <1>1, <1>2 DEF Scanners
  <2> HIDE DEF d
  <2>3. Allowed(d)
    BY <2>2, <1>2 DEF Allowed, Continues, Leaving, OperatorInv, Bound, OutcomeIsEarned
  <2> QED
    BY <2>1, <2>2, <2>3
<1>3. CASE ~(scanner.alive /\ scanner.finalizer)
  <2>1. Deleted(scanner, GoneScanner) = GoneScanner
    BY <1>3 DEF Deleted
  <2>2. Allowed(GoneScanner)
    BY <1>3, ConstantsTyped DEF Allowed, Continues, Leaving, OperatorInv, Bound, Guarded, Terminal
  <2> QED
    BY <2>1, <2>2, <1>3, ConstantsTyped
<1> QED
  BY <1>2, <1>3

LEMMA FinalizeStep ==
    ASSUME OperatorInv, AddFinalizer
    PROVE  OperatorInv'
<1>1. /\ KeepJob /\ rec' = NoRec /\ queued' = TRUE /\ timer' \in Times
      /\ UNCHANGED <<cacheVars, clock, faults, created, reported, completed, missed>>
      /\ clock' \in Times /\ reported' \in BOOLEAN /\ missed' \in BOOLEAN
  BY DEF AddFinalizer, Requeue, Finish, historyVars, OperatorInv, OperatorTypeOK
<1>2. Grounded' /\ RecTyped'
  BY <1>1, IdleGrounded
<1>3. CASE scanner.alive /\ ~scanner.deleting
  <2> DEFINE s == [scanner EXCEPT !.finalizer = TRUE]
  <2>1. WriteScanner(s)
    BY <1>3 DEF AddFinalizer
  <2>2. /\ s \in Scanners /\ s.alive /\ s.finalizer /\ ~s.deleting /\ s.cancel = scanner.cancel
        /\ s.status = scanner.status
    BY <1>3 DEF OperatorInv, OperatorTypeOK, Scanners
  <2> HIDE DEF s
  <2>3. Allowed(s)
    BY <2>2, <1>1, <1>3 DEF Allowed, Continues, Leaving, OperatorInv, Bound, OutcomeIsEarned
  <2> QED
    BY <1>1, <1>2, <2>1, <2>2, <2>3, ScannerWriteStep
<1>4. CASE ~(scanner.alive /\ ~scanner.deleting)
  <2>1. KeepScanner
    BY <1>4 DEF AddFinalizer
  <2> QED
    BY <1>1, <2>1, EndStep DEF OperatorInv, OperatorTypeOK
<1> QED
  BY <1>3, <1>4

LEMMA TTLStep ==
    ASSUME OperatorInv, TerminalTTL
    PROVE  OperatorInv'
<1> DEFINE due == Cap(rec.status.completedAt + TTL)
<1>1. /\ KeepJob /\ UNCHANGED <<cacheVars, clock, faults, created, reported, completed, missed>>
      /\ clock' \in Times /\ reported' \in BOOLEAN /\ missed' \in BOOLEAN /\ faults' \in 0..MaxFaults
  BY DEF TerminalTTL, historyVars, OperatorInv, OperatorTypeOK
<1>2. due \in Nat /\ rec.now \in Nat /\ clock \in Nat
  <2>1. rec.status.completedAt \in Nat /\ TTL \in Nat /\ MaxClock \in Nat
    BY OperatorAssumption DEF OperatorInv, RecTyped, Statuses, Times
  <2>2. rec.status.completedAt + TTL \in Nat
    BY <2>1
  <2> QED
    BY <2>1, <2>2, CapTyped, ClockNumbers DEF Times
<1>3. CASE rec.now < due
  <2>1. RequeueAt(clock + (due - rec.now)) /\ KeepScanner /\ queued' = queued
    BY <1>3 DEF TerminalTTL
  <2> HIDE DEF due
  <2>2. clock + (due - rec.now) \in Nat
    BY <1>2, <1>3
  <2>3. timer' \in Times /\ rec' = NoRec
    BY <2>1, <2>2, DelayTyped DEF OperatorInv, OperatorTypeOK
  <2> QED
    BY <1>1, <2>1, <2>3, EndStep DEF OperatorInv
<1>4. CASE ~(rec.now < due)
  <2>1. WriteScanner(Deleted(scanner, GoneScanner)) /\ rec' = NoRec /\ queued' = TRUE /\ timer' = timer
    BY <1>4 DEF TerminalTTL, Requeue, Finish
  <2>2. Deleted(scanner, GoneScanner) \in Scanners /\ Allowed(Deleted(scanner, GoneScanner))
    BY <1>1, DeletedScanner
  <2>3. Grounded' /\ RecTyped'
    BY <1>1, <2>1, IdleGrounded
  <2>4. timer' \in Times
    BY <2>1 DEF OperatorInv, OperatorTypeOK
  <2> QED
    BY <1>1, <2>1, <2>2, <2>3, <2>4, ScannerWriteStep
<1> QED
  BY <1>3, <1>4

LEMMA CheckStep ==
    ASSUME OperatorInv, FinalCheck
    PROVE  OperatorInv'
<1>1. /\ KeepJob /\ UNCHANGED <<cacheVars, clock, faults, created, reported, completed>>
      /\ clock' \in Times /\ reported' \in BOOLEAN /\ faults' \in 0..MaxFaults
  BY DEF FinalCheck, OperatorInv, OperatorTypeOK
<1>2. Leaving(seenScanner) /\ Leaving(scanner) /\ scanner \in Scanners
  BY DEF FinalCheck, At, Final, OperatorInv, OperatorTypeOK, Grounded, ScannerSeen, PastScanner
<1>3. CASE StillOwned
  <2>1. RequeueAt(clock + 1) /\ KeepScanner /\ queued' = queued /\ missed' = missed
    BY <1>3 DEF FinalCheck
  <2>2. timer' \in Times /\ rec' = NoRec
    BY <2>1, DelayTyped, ClockNumbers DEF OperatorInv, OperatorTypeOK
  <2> QED
    BY <1>1, <2>1, <2>2, EndStep DEF OperatorInv
<1>4. CASE ~StillOwned
  <2>1. /\ missed' = (missed \/ (job.alive /\ job.owned /\ ~seenJob.alive)) /\ timer' = timer
        /\ rec' = NoRec /\ queued' \in {queued, TRUE}
    BY <1>4 DEF FinalCheck, Requeue, Finish
  <2>2. missed' \in BOOLEAN /\ (missed => missed') /\ timer' \in Times /\ queued' \in BOOLEAN
    BY <2>1 DEF OperatorInv, OperatorTypeOK
  <2>3. job.alive /\ job.owned => missed'
    BY <1>4, <2>1 DEF StillOwned, OperatorInv, JobSeen, PastJob, Foreign
  <2>4. Grounded' /\ RecTyped'
    BY <1>1, <2>1, IdleGrounded
  <2>5. CASE ~scanner.alive
    <3>1. KeepScanner
      BY <1>4, <2>5 DEF FinalCheck
    <3> QED
      BY <1>1, <2>1, <2>2, <3>1, EndStep
  <2>6. CASE scanner.alive
    <3>1. WriteScanner(Released(scanner, GoneScanner))
      BY <1>4, <2>6 DEF FinalCheck
    <3>2. Released(scanner, GoneScanner) = GoneScanner
      BY <1>2, <2>6 DEF Released, Leaving
    <3>3. Allowed(GoneScanner)
      BY <1>2, <2>3, ConstantsTyped DEF Allowed, Continues, Leaving, Terminal
    <3> QED
      BY <1>1, <2>1, <2>2, <2>4, <3>1, <3>2, <3>3, ScannerWriteStep, ConstantsTyped
  <2> QED
    BY <2>5, <2>6
<1> QED
  BY <1>3, <1>4

(* What the reconcile decides after it knows its Job j has a cause.        *)
LEMMA DecidedGrounded ==
    ASSUME OperatorInv, Onward, NEW j \in Jobs, j.phase = "complete" => completed,
           rec' = [rec EXCEPT !.pc = AfterJob(rec.status, j, rec.now).pc,
                              !.goal = AfterJob(rec.status, j, rec.now).goal]
    PROVE  Grounded' /\ RecTyped'
<1> DEFINE n == AfterJob(rec.status, j, rec.now)
<1>1. rec.status \in Statuses /\ rec.now \in Times /\ rec.now <= clock
  BY DEF OperatorInv, RecTyped, Grounded
<1>2. /\ n.pc \in {"report", "stop"} /\ n.goal \in Statuses
      /\ n.goal.outcome = "Succeeded" => j.phase = "complete"
      /\ n.goal.outcome = "Expired" => rec.now >= NotAfter
      /\ n.goal.outcome # "Cancelled"
  BY <1>1, AfterJobSound
<1> HIDE DEF n
<1>3. rec'.pc = n.pc /\ rec'.goal = n.goal /\ rec'.now = rec.now /\ RecTyped'
  BY <1>2 DEF n, OperatorInv, RecTyped, Steps
<1>4. clock \in Nat /\ clock' \in Nat /\ NotAfter \in Nat /\ rec.now \in Nat
  BY ClockNumbers, OperatorAssumption DEF Onward, Times
<1>5. Earned(rec.goal.outcome)'
  BY <1>1, <1>2, <1>3, <1>4 DEF Earned, Onward
<1>6. n.pc \in Steps /\ n.pc \notin Ending /\ n.pc \notin Final /\ n.pc # "create" /\ rec.now <= clock'
  BY <1>1, <1>2, <1>4 DEF Steps, Ending, Final, Onward
<1> QED
  BY <1>3, <1>5, <1>6 DEF Grounded

LEMMA CreateStep ==
    ASSUME OperatorInv, CreateJob
    PROVE  OperatorInv'
<1>1. /\ KeepScanner /\ UNCHANGED <<cacheVars, timer, clock, faults, reported, completed, missed>>
      /\ timer' \in Times /\ missed' \in BOOLEAN /\ faults' \in 0..MaxFaults
  BY DEF CreateJob, OperatorInv, OperatorTypeOK
<1>2. rec.now < NotAfter /\ scanner.alive /\ scanner.finalizer /\ rec.now \in Nat /\ NotAfter \in Nat
  BY ClockNumbers DEF CreateJob, At, OperatorInv, Grounded
<1>3. Onward /\ clock' \in Times
  BY <1>1, Resting DEF KeepScanner
<1>4. CASE job.alive
  <2>1. KeepJob /\ created' = created /\ created' \in Nat
    BY <1>4 DEF CreateJob, OperatorInv
  <2>2. JobSeen' /\ job' \in Jobs /\ jobWatch' \in Seq(Jobs)
    BY <1>1, <2>1, JobKept DEF OperatorInv, OperatorTypeOK, KeepJob, cacheVars
  <2>3. Bound'
    BY <1>1, <1>3, <2>1, BoundKept DEF KeepScanner, KeepJob, NoNewJob, JobHeld
  <2>4. CASE seenJob.alive
    <3>1. /\ rec' = [rec EXCEPT !.pc = AfterJob(rec.status, seenJob, rec.now).pc,
                                !.goal = AfterJob(rec.status, seenJob, rec.now).goal]
          /\ queued' = queued
      BY <1>4, <2>4 DEF CreateJob
    <3>2. seenJob \in Jobs /\ (seenJob.phase = "complete" => completed)
      BY DEF OperatorInv, OperatorTypeOK, JobSeen, PastJob
    <3>3. Grounded' /\ RecTyped'
      BY <1>3, <3>1, <3>2, DecidedGrounded
    <3>4. queued' \in BOOLEAN
      BY <3>1 DEF OperatorInv
    <3> QED
      BY <1>1, <2>1, <2>2, <2>3, <3>3, <3>4, JobSide
  <2>5. CASE ~seenJob.alive
    <3>1. rec' = NoRec /\ queued' = TRUE
      BY <1>4, <2>5 DEF CreateJob, Requeue, Finish
    <3> QED
      BY <1>1, <2>1, <3>1, EndStep
  <2> QED
    BY <2>4, <2>5
<1>5. CASE ~job.alive
  <2> DEFINE b == BuildJob(rec.now)
  <2>1. NotAfter - rec.now \in Nat
    BY <1>2
  <2>2. b \in Jobs /\ b.alive /\ b.owned /\ b.finalizer /\ b.phase = "new"
    BY <2>1, ConstantsTyped DEF BuildJob, Jobs
  <2>3. /\ WriteJob(b) /\ created' = created + 1
        /\ rec' = [rec EXCEPT !.pc = AfterJob(rec.status, b, rec.now).pc,
                              !.goal = AfterJob(rec.status, b, rec.now).goal]
        /\ queued' = queued
    BY <1>5, <2>2 DEF CreateJob
  <2> HIDE DEF b
  <2>4. created' \in Nat /\ queued' \in BOOLEAN
    BY <2>3 DEF OperatorInv
  <2>5. JobSeen' /\ job' \in Jobs /\ jobWatch' \in Seq(Jobs)
    BY <1>1, <1>5, <2>2, <2>3, JobWritten DEF OperatorInv, OperatorTypeOK, Foreign, cacheVars
  <2>6. Grounded' /\ RecTyped'
    BY <1>3, <2>2, <2>3, DecidedGrounded
  <2>7. job' = b /\ scanner' = scanner /\ clock' = clock /\ reported' = reported
        /\ completed' = completed /\ missed' = missed
    BY <1>1, <2>3 DEF WriteJob, KeepScanner
  <2>8. Bound'
    BY <2>2, <2>7, <1>2 DEF OperatorInv, Bound, Guarded, OutcomeIsEarned, ProtectedUntilReported,
                            OrphanOnlyIfUnseen
  <2> QED
    BY <1>1, <2>4, <2>5, <2>6, <2>8, JobSide
<1> QED
  BY <1>4, <1>5

LEMMA ReportStep ==
    ASSUME OperatorInv, ReportStatus
    PROVE  OperatorInv'
<1> DEFINE m == Merge(scanner.status, rec.status, rec.goal)
           s == [scanner EXCEPT !.status = m]
<1>1. /\ KeepJob /\ UNCHANGED <<cacheVars, timer, clock, faults, created, completed, missed>>
      /\ timer' \in Times /\ missed' \in BOOLEAN /\ faults' \in 0..MaxFaults /\ clock' \in Times
      /\ scanner \in Scanners /\ scanner.status \in Statuses
      /\ rec.status \in Statuses /\ rec.goal \in Statuses
  BY DEF ReportStatus, OperatorInv, OperatorTypeOK, RecTyped, Scanners
<1>2. m \in Statuses /\ m.outcome \in {scanner.status.outcome, rec.goal.outcome}
  BY <1>1, MergeTyped
<1>3. CASE rec.goal # rec.status /\ ~scanner.alive
  <2>1. rec' = NoRec /\ queued' = TRUE /\ KeepScanner /\ reported' = reported
    BY <1>3 DEF ReportStatus, Requeue, Finish
  <2> QED
    BY <1>1, <2>1, EndStep
<1>4. CASE ~(rec.goal # rec.status /\ ~scanner.alive)
  <2>1. /\ IF rec.goal # rec.status THEN WriteScanner(s) ELSE KeepScanner
        /\ reported' = (reported \/ rec.goal.outcome \in Terminal)
        /\ IF rec.goal.outcome \in Terminal
           THEN rec' = [rec EXCEPT !.pc = "release", !.goal = NoStatus,
                                   !.status = IF rec.goal # rec.status THEN m ELSE @]
           ELSE rec' = NoRec
        /\ queued' = queued
    BY <1>4 DEF ReportStatus, Finish
  <2>2. (reported => reported') /\ reported' \in BOOLEAN /\ queued' \in BOOLEAN
    BY <2>1 DEF OperatorInv
  <2>3. s \in Scanners /\ s.alive = scanner.alive /\ s.deleting = scanner.deleting
        /\ s.finalizer = scanner.finalizer /\ s.cancel = scanner.cancel /\ s.status = m
    BY <1>1, <1>2 DEF Scanners
  <2> HIDE DEF s, m
  <2>4. Grounded' /\ RecTyped'
    <3>1. CASE rec.goal.outcome \notin Terminal
      BY <1>1, <2>1, <3>1, IdleGrounded
    <3>2. CASE rec.goal.outcome \in Terminal
      <4>1. reported' /\ rec'.pc = "release" /\ rec'.goal = NoStatus /\ rec'.now = rec.now /\ RecTyped'
        BY <1>1, <1>2, <2>1, <3>2, ConstantsTyped DEF OperatorInv, RecTyped, Steps, Ending
      <4>2. rec.now <= clock'
        BY <1>1 DEF OperatorInv, Grounded
      <4>3. "release" \in Steps /\ "release" \notin Final
        BY DEF Steps, Ending, Final
      <4>4. Earned(rec.goal.outcome)'
        BY <4>1, ConstantsTyped DEF Earned
      <4> QED
        BY <4>1, <4>2, <4>3, <4>4 DEF Grounded
    <3> QED
      BY <3>1, <3>2
  <2>5. CASE rec.goal # rec.status
    <3>1. WriteScanner(s) /\ scanner.alive
      BY <1>4, <2>1, <2>5
    <3>2. Allowed(s)
      BY <1>2, <2>1, <2>3, <3>1
      DEF Allowed, Continues, Leaving, OperatorInv, Grounded, Earned, Bound, OutcomeIsEarned
    <3> QED
      BY <1>1, <2>2, <2>3, <2>4, <3>1, <3>2, ScannerWriteStep
  <2>6. CASE rec.goal = rec.status
    <3>1. KeepScanner
      BY <2>1, <2>6
    <3>2. Onward
      BY <1>1, <2>2, <3>1, ClockNumbers DEF Onward, KeepScanner
    <3>3. Bound'
      BY <1>1, <3>1, <3>2, BoundKept DEF KeepScanner, KeepJob, NoNewJob, JobHeld
    <3>4. ScannerSeen' /\ scanner' \in Scanners /\ scannerWatch' \in Seq(Scanners)
      BY <1>1, <2>2, <3>1, ScannerKept DEF OperatorInv, OperatorTypeOK, KeepScanner, cacheVars
    <3> QED
      BY <1>1, <2>2, <2>4, <3>3, <3>4, ScannerSide
  <2> QED
    BY <2>5, <2>6
<1> QED
  BY <1>3, <1>4

----------------------------------------------------------------------------
(* Failures, informers, users and the cluster.                             *)

LEMMA FailStep ==
    ASSUME OperatorInv, CallFails
    PROVE  OperatorInv'
<1>1. faults' \in 0..MaxFaults
  BY OperatorAssumption DEF CallFails, OperatorInv, OperatorTypeOK
<1> QED
  BY <1>1, EndStep DEF CallFails, Requeue, Finish, historyVars, OperatorInv, OperatorTypeOK

(* The manager restarts: the caches hold the present.                      *)
LEMMA RestartStep ==
    ASSUME OperatorInv, Restart
    PROVE  OperatorInv'
<1>1. /\ UNCHANGED <<scanner, job, clock, created, reported, completed, missed>> /\ rec' = NoRec
      /\ queued' = TRUE /\ timer' = 0 /\ seenScanner' = scanner /\ seenJob' = job
      /\ scannerWatch' = <<>> /\ jobWatch' = <<>> /\ clock' \in Times
  BY DEF Restart, Requeue, Finish, historyVars, OperatorInv, OperatorTypeOK
<1>2. faults' \in 0..MaxFaults /\ timer' \in Times
  BY <1>1, OperatorAssumption DEF Restart, OperatorInv, OperatorTypeOK, Times
<1>3. Onward
  BY <1>1, ClockNumbers DEF Onward
<1>4. Bound'
  BY <1>1, <1>3, BoundKept DEF NoNewJob, JobHeld
<1>5. Grounded' /\ RecTyped'
  BY <1>1, IdleGrounded
<1>6. ScannerSeen'
  BY <1>1 DEF OperatorInv, Bound, ScannerSeen, PastScanner, Leaving
<1>7. JobSeen'
  BY <1>1 DEF OperatorInv, JobSeen, PastJob, Foreign
<1> QED
  BY <1>1, <1>2, <1>4, <1>5, <1>6, <1>7 DEF OperatorInv, OperatorTypeOK, RecTyped

LEMMA SyncScannerStep ==
    ASSUME OperatorInv, SyncScanner
    PROVE  OperatorInv'
<1>1. /\ UNCHANGED <<scanner, job, jobWatch, seenJob, rec, timer, clock, faults, created, reported,
                     completed, missed>>
      /\ queued' = TRUE
  BY DEF SyncScanner, KeepJob, historyVars
<1>2. /\ ScannerSeen' /\ seenScanner' \in Scanners /\ scannerWatch' \in Seq(Scanners)
      /\ Leaving(seenScanner) => Leaving(seenScanner')
  BY <1>1, ScannerDelivered DEF SyncScanner, OperatorInv, OperatorTypeOK
<1>3. Onward
  BY <1>1, ClockNumbers DEF Onward, OperatorInv, OperatorTypeOK
<1>4. Bound'
  BY <1>1, <1>3, BoundKept DEF NoNewJob, JobHeld
<1>5. Grounded' /\ RecTyped'
  BY <1>1, <1>2, <1>3, SameGrounded
<1>6. JobSeen'
  BY <1>1 DEF OperatorInv, JobSeen, PastJob, Foreign
<1> QED
  BY <1>1, <1>2, <1>4, <1>5, <1>6 DEF OperatorInv, OperatorTypeOK, RecTyped

LEMMA SyncJobStep ==
    ASSUME OperatorInv, SyncJob
    PROVE  OperatorInv'
<1>1. /\ KeepScanner /\ UNCHANGED <<job, seenScanner, rec, timer, clock, faults, created, reported,
                                    completed, missed>>
      /\ queued' = (queued \/ seenJob.owned \/ Head(jobWatch).owned)
  BY DEF SyncJob, historyVars
<1>2. JobSeen' /\ seenJob' \in Jobs /\ jobWatch' \in Seq(Jobs)
  BY <1>1, JobDelivered DEF SyncJob, OperatorInv, OperatorTypeOK
<1>3. Onward
  BY <1>1, ClockNumbers DEF Onward, KeepScanner, OperatorInv, OperatorTypeOK
<1>4. Bound'
  BY <1>1, <1>3, BoundKept DEF NoNewJob, JobHeld, KeepScanner
<1>5. Grounded' /\ RecTyped'
  BY <1>1, <1>3, SameGrounded DEF KeepScanner
<1>6. ScannerSeen'
  BY <1>1, ScannerKept DEF OperatorInv
<1>7. queued' \in BOOLEAN
  BY <1>1
<1> QED
  BY <1>1, <1>2, <1>4, <1>5, <1>6, <1>7 DEF OperatorInv, OperatorTypeOK, RecTyped, KeepScanner

(* The timer and the clock.                                                *)
LEMMA TimeStep ==
    ASSUME OperatorInv, TimerFires \/ Tick
    PROVE  OperatorInv'
<1>1. /\ KeepScanner /\ KeepJob /\ UNCHANGED <<cacheVars, rec, faults, created, reported, completed, missed>>
      /\ timer' \in {timer, 0} /\ queued' \in {queued, TRUE} /\ clock' \in {clock, clock + 1}
      /\ clock' # clock => clock < MaxClock
  BY DEF TimerFires, Tick, historyVars, controlVars
<1>2. timer' \in Times /\ clock' \in Times /\ clock <= clock'
  BY <1>1, ClockNumbers DEF OperatorInv, OperatorTypeOK, Times
<1>3. Onward /\ queued' \in BOOLEAN
  BY <1>1, <1>2 DEF Onward, KeepScanner, OperatorInv
<1>4. Bound'
  BY <1>1, <1>3, BoundKept DEF KeepScanner, KeepJob, NoNewJob, JobHeld
<1>5. Grounded' /\ RecTyped'
  BY <1>1, <1>3, SameGrounded DEF KeepScanner, cacheVars
<1>6. ScannerSeen' /\ JobSeen'
  BY <1>1, ScannerKept, JobKept DEF OperatorInv, cacheVars
<1> QED
  BY <1>1, <1>2, <1>3, <1>4, <1>5, <1>6
  DEF OperatorInv, OperatorTypeOK, RecTyped, KeepScanner, KeepJob, cacheVars

LEMMA CancelStep ==
    ASSUME OperatorInv, UserCancels
    PROVE  OperatorInv'
<1> DEFINE s == [scanner EXCEPT !.cancel = TRUE]
<1>1. /\ WriteScanner(s) /\ scanner.alive /\ ~scanner.deleting /\ KeepJob
      /\ UNCHANGED <<cacheVars, rec, queued, timer, clock, faults, created, reported, completed, missed>>
  BY DEF UserCancels, controlVars, historyVars
<1>2. /\ s \in Scanners /\ s.alive /\ ~s.deleting /\ s.finalizer = scanner.finalizer /\ s.cancel
      /\ s.status = scanner.status
  BY <1>1 DEF OperatorInv, OperatorTypeOK, Scanners
<1> HIDE DEF s
<1>3. Allowed(s)
  BY <1>1, <1>2 DEF Allowed, Continues, Leaving, OperatorInv, Bound, OutcomeIsEarned
<1>4. scanner' = s
  BY <1>1 DEF WriteScanner
<1>5. Onward
  BY <1>1, <1>2, <1>3, <1>4, ScannerBound
<1>6. Grounded' /\ RecTyped'
  BY <1>1, <1>2, <1>4, <1>5, SameGrounded DEF cacheVars
<1>7. reported' \in BOOLEAN /\ missed' \in BOOLEAN /\ timer' \in Times /\ queued' \in BOOLEAN
  BY <1>1 DEF OperatorInv, OperatorTypeOK
<1> QED
  BY <1>1, <1>2, <1>3, <1>6, <1>7, ScannerWriteStep

LEMMA DeleteStep ==
    ASSUME OperatorInv, UserDeletes
    PROVE  OperatorInv'
<1> DEFINE s == Deleted(scanner, GoneScanner)
<1>1. /\ WriteScanner(s) /\ KeepJob
      /\ UNCHANGED <<cacheVars, rec, queued, timer, clock, faults, created, reported, completed, missed>>
  BY DEF UserDeletes, controlVars, historyVars
<1>2. /\ s \in Scanners /\ Allowed(s)
      /\ scanner.alive /\ scanner.finalizer => s.alive /\ s.finalizer
  BY <1>1, DeletedScanner
<1> HIDE DEF s
<1>3. scanner' = s
  BY <1>1 DEF WriteScanner
<1>4. Onward
  BY <1>1, <1>2, <1>3, ScannerBound
<1>5. Grounded' /\ RecTyped'
  BY <1>1, <1>2, <1>3, <1>4, SameGrounded DEF cacheVars
<1>6. reported' \in BOOLEAN /\ missed' \in BOOLEAN /\ timer' \in Times /\ queued' \in BOOLEAN
  BY <1>1 DEF OperatorInv, OperatorTypeOK
<1> QED
  BY <1>1, <1>2, <1>5, <1>6, ScannerWriteStep

(* The cluster writes version j of the Job.                                *)
LEMMA ClusterStep ==
    ASSUME OperatorInv, NEW j \in Jobs, WriteJob(j), KeepScanner,
           UNCHANGED <<cacheVars, controlVars, clock, created, reported, missed>>,
           completed => completed', completed' \in BOOLEAN, faults' \in 0..MaxFaults,
           j.phase = "complete" => completed', Foreign(j) <=> Foreign(job),
           j.alive /\ j.owned => job.alive /\ job.owned,
           job.alive /\ job.owned /\ job.finalizer => j.alive /\ j.owned /\ j.finalizer
    PROVE  OperatorInv'
<1>1. JobSeen' /\ job' \in Jobs /\ jobWatch' \in Seq(Jobs)
  BY JobWritten DEF OperatorInv, OperatorTypeOK, cacheVars
<1>2. job' = j
  BY DEF WriteJob
<1>3. Onward
  BY ClockNumbers DEF Onward, KeepScanner, OperatorInv, OperatorTypeOK
<1>4. Bound'
  BY <1>2, <1>3, BoundKept DEF KeepScanner, NoNewJob, JobHeld
<1>5. Grounded' /\ RecTyped'
  BY <1>3, SameGrounded DEF KeepScanner, cacheVars, controlVars
<1>6. ScannerSeen'
  BY ScannerKept DEF OperatorInv, cacheVars
<1> QED
  BY <1>1, <1>4, <1>5, <1>6
  DEF OperatorInv, OperatorTypeOK, RecTyped, KeepScanner, cacheVars, controlVars

LEMMA PhaseStep ==
    ASSUME OperatorInv,
           JobStarts \/ JobPastDeadline \/ \E phase \in {"complete", "failed"} : JobEnds(phase)
    PROVE  OperatorInv'
<1>1. job \in Jobs /\ clock \in Times /\ (job.phase = "complete" => completed)
      /\ completed \in BOOLEAN /\ faults \in 0..MaxFaults
  BY DEF OperatorInv, OperatorTypeOK, JobSeen, PastJob
<1>2. CASE JobStarts
  <2> DEFINE j == [job EXCEPT !.phase = "active", !.started = clock]
  <2>1. /\ j \in Jobs /\ j.phase = "active" /\ j.alive = job.alive /\ j.owned = job.owned
        /\ j.finalizer = job.finalizer
    BY <1>1 DEF Jobs
  <2>2. WriteJob(j) /\ KeepScanner /\ UNCHANGED <<cacheVars, controlVars, clock, faults, historyVars>>
    BY <1>2 DEF JobStarts
  <2> HIDE DEF j
  <2> QED
    BY <1>1, <2>1, <2>2, ClusterStep DEF Foreign, historyVars
<1>3. CASE JobPastDeadline
  <2> DEFINE j == [job EXCEPT !.phase = "failed", !.doneAt = clock]
  <2>1. /\ j \in Jobs /\ j.phase = "failed" /\ j.alive = job.alive /\ j.owned = job.owned
        /\ j.finalizer = job.finalizer
    BY <1>1 DEF Jobs
  <2>2. WriteJob(j) /\ KeepScanner /\ UNCHANGED <<cacheVars, controlVars, clock, faults, historyVars>>
    BY <1>3 DEF JobPastDeadline
  <2> HIDE DEF j
  <2> QED
    BY <1>1, <2>1, <2>2, ClusterStep DEF Foreign, historyVars
<1>4. CASE \E phase \in {"complete", "failed"} : JobEnds(phase)
  <2>1. PICK phase \in {"complete", "failed"} : JobEnds(phase)
    BY <1>4
  <2> DEFINE j == [job EXCEPT !.phase = phase, !.doneAt = clock]
  <2>2. /\ j \in Jobs /\ j.phase = phase /\ j.alive = job.alive /\ j.owned = job.owned
        /\ j.finalizer = job.finalizer
    BY <1>1 DEF Jobs
  <2>3. /\ WriteJob(j) /\ KeepScanner
        /\ UNCHANGED <<cacheVars, controlVars, clock, faults, created, reported, missed>>
        /\ completed' = (completed \/ phase = "complete")
    BY <2>1 DEF JobEnds
  <2> HIDE DEF j
  <2>4. completed' \in BOOLEAN /\ (completed => completed') /\ (phase = "complete" => completed')
    BY <2>3
  <2> QED
    BY <1>1, <2>2, <2>3, <2>4, ClusterStep DEF Foreign
<1> QED
  BY <1>2, <1>3, <1>4

LEMMA JobDeletedStep ==
    ASSUME OperatorInv, JobIsDeleted
    PROVE  OperatorInv'
<1>1. job \in Jobs /\ (job.phase = "complete" => completed) /\ completed \in BOOLEAN
  BY DEF OperatorInv, OperatorTypeOK, JobSeen, PastJob
<1>2. /\ WriteJob(Deleted(job, NoJob)) /\ KeepScanner /\ job.alive /\ job.owned
      /\ UNCHANGED <<cacheVars, controlVars, clock, historyVars>>
  BY DEF JobIsDeleted
<1>3. faults' \in 0..MaxFaults
  BY OperatorAssumption DEF JobIsDeleted, OperatorInv, OperatorTypeOK
<1>4. ~Foreign(job)
  BY <1>2 DEF Foreign
<1> QED
  BY <1>1, <1>2, <1>3, <1>4, DeletedJob, ClusterStep DEF historyVars

----------------------------------------------------------------------------
(* The theorems.                                                           *)

LEMMA InitialOperator ==
    ASSUME OperatorInit
    PROVE  OperatorInv
<1>1. PICK spec \in Specs : scanner = NewScanner(spec)
  BY DEF OperatorInit
<1>2. /\ scanner \in Scanners /\ scanner.alive /\ ~scanner.deleting /\ ~scanner.finalizer
      /\ ~scanner.cancel /\ scanner.status = NoStatus
  BY <1>1, ConstantsTyped DEF NewScanner, GoneScanner, Scanners
<1>3. job \in Jobs /\ (job.alive => ~job.owned) /\ job.phase = "new"
  BY ConstantsTyped DEF OperatorInit
<1>4. clock \in Times /\ timer \in Times /\ faults \in 0..MaxFaults /\ 0 <= clock
  BY OperatorAssumption DEF OperatorInit, Times
<1>5. OperatorTypeOK /\ RecTyped
  BY <1>2, <1>3, <1>4, ConstantsTyped DEF OperatorInit, OperatorTypeOK, RecTyped
<1>6. ScannerSeen
  BY <1>2, ConstantsTyped DEF OperatorInit, ScannerSeen, PastScanner, Leaving, Terminal
<1>7. JobSeen
  BY <1>3 DEF OperatorInit, JobSeen, PastJob, Foreign
<1>8. Grounded
  BY <1>4, ConstantsTyped DEF OperatorInit, Grounded, Earned, Steps, Ending, Final
<1>9. Bound
  BY <1>2, <1>3, ConstantsTyped DEF OperatorInit, Bound, Guarded, OutcomeIsEarned,
     ProtectedUntilReported, OrphanOnlyIfUnseen, Terminal
<1> QED
  BY <1>5, <1>6, <1>7, <1>8, <1>9 DEF OperatorInit, OperatorInv

LEMMA OperatorStep ==
    ASSUME OperatorInv, [OperatorNext]_operatorVars
    PROVE  OperatorInv'
<1>1. CASE StartReconcile
  BY <1>1, StartStep
<1>2. CASE AddFinalizer
  BY <1>2, FinalizeStep
<1>3. CASE StopJob
  BY <1>3, DeletionStep DEF StopJob
<1>4. CASE CreateJob
  BY <1>4, CreateStep
<1>5. CASE ReportStatus
  BY <1>5, ReportStep
<1>6. CASE TerminalRelease
  BY <1>6, ReleaseStep DEF TerminalRelease, At, Ending
<1>7. CASE TerminalDrop
  BY <1>7, DeletionStep DEF TerminalDrop, At, Ending
<1>8. CASE TerminalTTL
  BY <1>8, TTLStep
<1>9. CASE FinalStop
  BY <1>9, DeletionStep DEF FinalStop, At, Final
<1>10. CASE FinalRelease
  BY <1>10, ReleaseStep DEF FinalRelease, At, Final
<1>11. CASE FinalCheck
  BY <1>11, CheckStep
<1>12. CASE CallFails
  BY <1>12, FailStep
<1>13. CASE Restart
  BY <1>13, RestartStep
<1>14. CASE SyncScanner
  BY <1>14, SyncScannerStep
<1>15. CASE SyncJob
  BY <1>15, SyncJobStep
<1>16. CASE TimerFires \/ Tick
  BY <1>16, TimeStep
<1>17. CASE UserCancels
  BY <1>17, CancelStep
<1>18. CASE UserDeletes
  BY <1>18, DeleteStep
<1>19. CASE JobStarts \/ JobPastDeadline \/ \E phase \in {"complete", "failed"} : JobEnds(phase)
  BY <1>19, PhaseStep
<1>20. CASE JobIsDeleted
  BY <1>20, JobDeletedStep
<1>21. CASE UNCHANGED operatorVars
  BY <1>21 DEF operatorVars, OperatorInv, OperatorTypeOK, RecTyped, ScannerSeen, PastScanner, Leaving,
     JobSeen, PastJob, Foreign, Grounded, Earned, Bound, Guarded, OutcomeIsEarned,
     ProtectedUntilReported, OrphanOnlyIfUnseen
<1> QED
  BY <1>1, <1>2, <1>3, <1>4, <1>5, <1>6, <1>7, <1>8, <1>9, <1>10, <1>11, <1>12, <1>13, <1>14,
     <1>15, <1>16, <1>17, <1>18, <1>19, <1>20, <1>21 DEF OperatorNext, Reconcile

LEMMA OperatorInvariant == OperatorSpec => []OperatorInv
<1>1. OperatorInit => OperatorInv
  BY InitialOperator
<1>2. OperatorInv /\ [OperatorNext]_operatorVars => OperatorInv'
  BY OperatorStep
<1> QED
  BY <1>1, <1>2, PTL DEF OperatorSpec

(* The objects, the caches and the reconcile under way have their types,   *)
(* for any cutoff, lag and number of failures.                             *)
THEOREM OperatorTyped == OperatorSpec => []OperatorTypeOK
<1>1. OperatorInv => OperatorTypeOK
  BY DEF OperatorInv
<1> QED
  BY <1>1, OperatorInvariant, PTL

(* However far the caches lag behind and wherever a reconcile is cut off,  *)
(* patchStatus writes no success without a Job that completed, no expiry   *)
(* before the cutoff and no cancellation that was not asked for.           *)
THEOREM OperatorEarns == OperatorSpec => []OutcomeIsEarned
<1>1. OperatorInv => OutcomeIsEarned
  BY DEF OperatorInv, Bound
<1> QED
  BY <1>1, OperatorInvariant, PTL

(* The Job of a Scanner that is not being deleted stays at the API server  *)
(* under its status-protection finalizer until an outcome was written.     *)
THEOREM OperatorProtects == OperatorSpec => []ProtectedUntilReported
<1>1. OperatorInv => ProtectedUntilReported
  BY DEF OperatorInv, Bound
<1> QED
  BY <1>1, OperatorInvariant, PTL

(* reconcileDeletion leaves a Job behind only if its cache had not seen    *)
(* it when it let the Scanner go.                                          *)
THEOREM OperatorOrphans == OperatorSpec => []OrphanOnlyIfUnseen
<1>1. OperatorInv => OrphanOnlyIfUnseen
  BY DEF OperatorInv, Bound
<1> QED
  BY <1>1, OperatorInvariant, PTL
=============================================================================
