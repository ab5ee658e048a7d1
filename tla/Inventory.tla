----------------------------- MODULE Inventory ------------------------------
(***************************************************************************)
(* The inventory Lambdas over the state store: the snapshot, which applies *)
(* what it observed and removes what it no longer finds; the signal, which *)
(* does the same for the targets a CloudTrail event names; the coverage    *)
(* rescan.  Each invocation reads the provider and the store in steps of   *)
(* its own, so all of them, the provider and AWS Config interleave.        *)
(*                                                                         *)
(* One read of the provider (the describe calls of a resolve or of an      *)
(* ownership check) is one step; the three listings of an EC2 snapshot,    *)
(* which may be minutes apart, are three.                                  *)
(***************************************************************************)
EXTENDS StateStore

CONSTANTS
    SnapshotJobs, SignalJobs, RescanJobs, \* which caller may run which Lambda
    Backend,       \* settings.snapshot_backend: "ec2" or "config"
    Signals,       \* CloudTrail events
    Hint,          \* Hint[s]: the targets signal s names
    DedupeSeconds, \* how long a signal claim lasts
    MaxClock,      \* bound: the provider does not change any more from then on
    QuietFrom,     \* from then on calls to AWS succeed and nothing crashes
    Gone           \* the provider has no such address

ASSUME InventoryAssumption ==
    /\ Callers = SnapshotJobs \cup SignalJobs \cup RescanJobs
    /\ "none" \notin Signals /\ 0 \notin Buckets
    /\ Backend \in {"ec2", "config"}
    /\ Hint \in [Signals -> SUBSET Targets]
    /\ DedupeSeconds \in Nat
    /\ MaxClock \in Times /\ 1 .. MaxClock \subseteq Times /\ QuietFrom \in Nat
    /\ Gone \notin Contents

(* Observations has what the backends can observe: any mix of an interface *)
(* and a policy, with or without the instance state, at any time.          *)
ASSUME BackendAssumption ==
    \A c \in Contents :
        /\ c = [ip |-> c.ip, life |-> c.life, groups |-> c.groups, policy |-> c.policy]
        /\ [c EXCEPT !.life = "unknown"] \in Contents
        /\ \A d \in Contents : [c EXCEPT !.policy = d.policy] \in Contents
        /\ \A a \in Times : DirectObservation(c, a) \in Observations
        /\ Backend = "config" /\ c.life = "unknown" =>
              \A a, b \in Times : ConfigObservation(c, a, b) \in Observations

VARIABLES
    live,     \* live[t]: what the provider answers for t now
    left,     \* the targets that have not been there, running, all along
    capture,  \* capture[t]: what AWS Config has recorded of t, and when
    clock,
    claims,   \* claims[s]: expires_at of the SIGNAL# row, 0 if there is none
    job       \* job[c]: where invocation c is and what it holds

inventoryVars == <<item, outbox, call, live, left, capture, clock, claims, job>>
providerVars == <<live, left, capture, clock>>

Provider == {c \in Contents : c.life # "unknown"} \cup {Gone}

(* gens: the rows a scan of the table returned; batch: what was observed.  *)
NoJob == [pc |-> "idle", phase |-> "observed", now |-> 0, batch |-> <<>>,
          seen |-> <<>>, complete |-> FALSE, gens |-> <<>>, todo |-> {},
          t |-> CHOOSE t \in Targets : TRUE, expected |-> Gone, signal |-> "none", bucket |-> 0, unapplied |-> {}]

Stopped(content) == content # Gone /\ content.life # "running"

InventoryInit ==
    /\ StoreInit
    /\ live \in [Targets -> Provider] /\ left = {t \in Targets : Stopped(live[t])}
    /\ capture = [t \in Targets |-> [eni |-> Gone, eni_at |-> 0,
                                     policy |-> NoItem.content.policy, grp_at |-> 0]]
    /\ clock = 1
    /\ claims = [s \in Signals |-> 0]
    /\ job = [c \in Callers |-> NoJob]

(* Calls to AWS fail, and invocations die, only before QuietFrom.          *)
Faulty == clock < QuietFrom

At(c, pc) == job[c].pc = pc

(* What invocation c is about.                                             *)
InSignal(c) == job[c].signal # "none"

InRescan(c) == job[c].bucket # 0

(* The invocation c goes on with the job record j.                         *)
Continue(c, j) == job' = [job EXCEPT ![c] = j]

GotoPc(c, pc) == Continue(c, [job[c] EXCEPT !.pc = pc])

(* It makes the store call k and waits for it at pc.                       *)
Await(c, pc, k) == k /\ GotoPc(c, pc) /\ UNCHANGED <<claims, providerVars>>

Local(c) == UNCHANGED <<item, outbox, call, claims, providerVars>>

(* Mutant: a store call that raised counts as done.                        *)
AnsweredOrFailed(c, pc) == At(c, pc) /\ Idle(c)

Answered(c, pc) == At(c, pc) /\ Idle(c) /\ call[c].result # "error"

(* Done with the target at hand: back to the loop it belongs to.           *)
NextTarget(c) == Continue(c, [job[c] EXCEPT !.pc = job[c].phase, !.todo = @ \ {job[c].t},
                                            !.expected = Gone])
-----------------------------------------------------------------------------
(* The world outside: external.                                            *)
Lost(old, new) ==
    \/ old # Gone /\ (new = Gone \/ new.ip # old.ip)
    \/ Stopped(new)

(* Time passes, and what the provider has may change with it.              *)
Tick ==
    /\ clock < MaxClock
    /\ clock' = clock + 1
    /\ live' \in [Targets -> Provider]
    /\ left' = left \cup {t \in Targets : Lost(live[t], live'[t])}
    /\ UNCHANGED <<item, outbox, call, capture, claims, job>>

(* AWS Config records the interface and its groups separately, some time   *)
(* after they changed.                                                     *)
Records(t) ==
    /\ Backend = "config"
    /\ \/ /\ capture[t].eni_at < clock
          /\ capture' = [capture EXCEPT ![t].eni = live[t], ![t].eni_at = clock]
       \/ /\ live[t] # Gone /\ capture[t].grp_at < clock
          /\ capture' = [capture EXCEPT ![t].policy = live[t].policy,
                                        ![t].grp_at = clock]
    /\ UNCHANGED <<item, outbox, call, live, left, clock, claims, job>>

-----------------------------------------------------------------------------
(* reconcile_snapshot: now is read first, then the batch is collected.     *)
StartSnapshot(c) ==
    /\ c \in SnapshotJobs /\ At(c, "idle")
    /\ Continue(c, [NoJob EXCEPT !.pc = IF Backend = "ec2" THEN "groups" ELSE "captures",
                                 !.now = clock])
    /\ Local(c)

(* Ec2SnapshotBackend.collect: security groups, then interfaces, then      *)
(* instances.                                                              *)
CollectGroups(c) ==
    /\ At(c, "groups")
    /\ Continue(c, [job[c] EXCEPT !.pc = "interfaces",
                      !.seen = [t \in {u \in Targets : live[u] # Gone} |-> live[t].policy]])
    /\ Local(c)

(* The batch is applied whole, or what a listing that stopped early has.   *)
Collected(c, batch, complete) ==
    Continue(c, [job[c] EXCEPT !.pc = "observed", !.complete = complete, !.seen = <<>>,
                               !.batch = batch, !.todo = DOMAIN batch])

CollectedPartly(c, batch) ==
    /\ Faulty
    /\ \E part \in SUBSET DOMAIN batch : Collected(c, [t \in part |-> batch[t]], FALSE)

CollectInterfaces(c) ==
    LET seen == job[c].seen
        Policy(t) == IF t \in DOMAIN seen THEN seen[t] ELSE live[t].policy
    IN
    /\ At(c, "interfaces")
    /\ Continue(c, [job[c] EXCEPT !.pc = "instances",
                      !.seen = [t \in {u \in Targets : live[u] # Gone} |->
                                  [live[t] EXCEPT !.policy = Policy(t)]]])
    /\ Local(c)

(* Mutant: the observations are not dated.                                 *)
CollectUndated(c) ==
    /\ At(c, "instances")
    /\ Collected(c, [t \in DOMAIN job[c].seen |->
                       DirectObservation(job[c].seen[t], NoTime)], TRUE)
    /\ Local(c)

(* An instance that was not listed leaves the state of its target unknown. *)
CollectInstances(c) ==
    LET Life(t, listed) == IF t \in listed THEN live[t].life ELSE "unknown"
        Batch(listed) ==
            [t \in DOMAIN job[c].seen |->
               DirectObservation([job[c].seen[t] EXCEPT !.life = Life(t, listed)], job[c].now)]
        present == {t \in Targets : live[t] # Gone}
    IN
    /\ At(c, "instances")
    /\ \/ Collected(c, Batch(present), TRUE)
       \/ \E listed \in SUBSET present : CollectedPartly(c, Batch(listed))
    /\ Local(c)

(* ConfigSnapshotBackend.collect: no instance state, and a target whose    *)
(* groups were never recorded is dropped as malformed.                     *)
CollectCaptures(c) ==
    LET known == {t \in Targets : capture[t].eni # Gone}
        usable == {t \in known : capture[t].eni.groups = {} \/ capture[t].grp_at # 0}
        batch == [t \in usable |->
                    ConfigObservation([capture[t].eni EXCEPT !.life = "unknown",
                                         !.policy = capture[t].policy],
                                      capture[t].eni_at, capture[t].grp_at)]
    IN
    /\ At(c, "captures")
    /\ Collected(c, batch, usable = known) \/ CollectedPartly(c, batch)
    /\ Local(c)

(* process_signal: resolve, then claim, then look up the candidates.       *)
StartSignal(c) ==
    /\ c \in SignalJobs /\ At(c, "idle")
    /\ \E s \in Signals :
          Continue(c, [NoJob EXCEPT !.pc = "resolve", !.now = clock, !.signal = s])
    /\ Local(c)

Resolve(c) ==
    LET hinted == {t \in Hint[job[c].signal] : live[t] # Gone} IN
    /\ At(c, "resolve")
    /\ \/ Continue(c, [job[c] EXCEPT !.pc = "claim", !.todo = hinted,
                         !.batch = [t \in hinted |-> DirectObservation(live[t], job[c].now)]])
       \/ Faulty /\ Continue(c, NoJob)  \* UNKNOWN raises; nothing is claimed yet
    /\ Local(c)

Claim(c) ==
    LET s == job[c].signal
        free == claims[s] = 0 \/ claims[s] < job[c].now
    IN
    /\ At(c, "claim")
    /\ \/ /\ free
          /\ claims' = [claims EXCEPT ![s] = job[c].now + DedupeSeconds]
          /\ GotoPc(c, "candidates")
       \/ /\ ~free  \* duplicate: acknowledged and dropped
          /\ Continue(c, NoJob)
          /\ UNCHANGED claims
    /\ UNCHANGED <<item, outbox, call, providerVars>>

(* find_signal_candidates filters list_current by the ids the hint names.  *)
ListCurrent(ts) ==
    [t \in {u \in ts : item[u].status = "active"} |-> item[t].generation]

FindCandidates(c) ==
    /\ At(c, "candidates")
    /\ Continue(c, [job[c] EXCEPT !.pc = "observed",
                                  !.gens = ListCurrent(Hint[job[c].signal])])
    /\ Local(c)

-----------------------------------------------------------------------------
(* The first loop: reconcile every observed target.                        *)
ReconcileNext(c) ==
    /\ At(c, "observed")
    /\ \E t \in job[c].todo :
          /\ CallReconcile(c, t, job[c].batch[t])
          /\ Continue(c, [job[c] EXCEPT !.pc = "reconciling", !.t = t])
    /\ UNCHANGED <<claims, providerVars>>

(* A signal fails on a lost race so that it is delivered again; a snapshot *)
(* counts it and goes on.  Only Config observations need revalidation.     *)
AfterReconcile(c) ==
    LET r == call[c].result IN
    /\ Answered(c, "reconciling")
    /\ InSignal(c) => r # "race"
    /\ \/ r = "revalidate"
          /\ Continue(c, [job[c] EXCEPT !.pc = "revalidate",
                            !.gens = [t \in {job[c].t} |-> call[c].row.generation]])
       \/ r # "revalidate" /\ NextTarget(c)
    /\ Local(c)

(* Mutant: a snapshot never looks for rows it did not observe.             *)
ObservedOnly(c) ==
    /\ At(c, "observed") /\ job[c].todo = {}
    /\ Continue(c, [job[c] EXCEPT !.pc = "absent", !.phase = "absent", !.complete = FALSE,
                      !.todo = IF InSignal(c) THEN DOMAIN job[c].gens \ DOMAIN job[c].batch
                               ELSE {}])
    /\ Local(c)

(* The second loop: rows nobody observed.  A snapshot lists them now, and  *)
(* only if the batch was complete; a signal took its candidates before.    *)
ObservedDone(c) ==
    LET rows == IF InSignal(c) THEN job[c].gens
                ELSE IF job[c].complete THEN ListCurrent(Targets) ELSE <<>>
    IN
    /\ At(c, "observed") /\ job[c].todo = {}
    /\ Continue(c, [job[c] EXCEPT !.pc = "absent", !.phase = "absent", !.gens = rows,
                      !.complete = FALSE, !.todo = DOMAIN rows \ DOMAIN job[c].batch])
    /\ Local(c)

-----------------------------------------------------------------------------
(* OwnershipValidator.validate(target, generation): the row, the provider, *)
(* and the row once more, and what the handler does with the verdict.      *)
(* STALE is "changed" when policy or lifecycle differ and "superseded"     *)
(* when the generation moved on: a signal reconciles either if the check   *)
(* read a live target, a snapshot only the former.                         *)
Expected(c, t, g) == item[t].status = "active" /\ item[t].generation = g

(* Mutant: a check that could not tell removes, too.                       *)
RemovesUncertain(verdict) == verdict \in {"inactive", "moved", "unknown"}

Removes(verdict) == verdict \in {"inactive", "moved"}

ReconcilesLive(c, verdict, current) ==
    /\ current # Gone
    /\ verdict = "changed" \/ (verdict = "superseded" /\ InSignal(c))

Confirms(c, verdict) == verdict = "active" /\ job[c].phase = "observed"

Decide(c, t, verdict, current) ==
    \/ /\ Removes(verdict)
       /\ Await(c, "removing", CallRemove(c, t, job[c].gens[t], job[c].now))
    \/ /\ ReconcilesLive(c, verdict, current)
       /\ Await(c, "relive", CallReconcile(c, t, DirectObservation(current, job[c].now)))
    \/ /\ Confirms(c, verdict)
       /\ Await(c, "confirming", CallConfirm(c, job[c].batch[t]))
    \/ /\ ~Removes(verdict) /\ ~ReconcilesLive(c, verdict, current)
       /\ ~Confirms(c, verdict)
       /\ Continue(c, [job[c] EXCEPT !.pc = job[c].phase, !.todo = @ \ {t},
                         !.expected = Gone,
                         !.unapplied = IF verdict \in {"unknown", "active"}
                                       THEN @ \cup {t} ELSE @])
       /\ Local(c)

(* The second loop validates its next row here, the first one the row that *)
(* reconcile could not order.                                              *)
ValidateGet(c) ==
    \E t \in IF At(c, "revalidate") THEN {job[c].t} ELSE job[c].todo :
        /\ At(c, "revalidate") \/ (At(c, "absent") /\ ~InRescan(c))
        /\ \/ /\ Expected(c, t, job[c].gens[t])
              /\ Continue(c, [job[c] EXCEPT !.pc = "live", !.t = t,
                                            !.expected = item[t].content])
              /\ Local(c)
           \/ /\ ~Expected(c, t, job[c].gens[t])
              /\ Decide(c, t, "superseded", Gone)

LiveVerdict(was, now) ==
    IF now = Gone THEN "inactive"
    ELSE IF now.ip # was.ip THEN "moved"
    ELSE IF now.life # "running" THEN "inactive"
    ELSE IF was.life \in {"unknown", now.life} /\ SamePolicy(now, was) THEN "active"
    ELSE "changed"

ValidateLive(c) ==
    LET t == job[c].t
        verdict == LiveVerdict(job[c].expected, live[t])
    IN
    /\ At(c, "live")
    /\ \/ Faulty /\ Decide(c, t, "unknown", Gone)
       \/ verdict # "active" /\ Decide(c, t, verdict, live[t])
       \/ /\ verdict = "active"
          /\ Continue(c, [job[c] EXCEPT !.pc = "final", !.expected = live[t]])
          /\ Local(c)

ValidateFinal(c) ==
    LET t == job[c].t IN
    /\ At(c, "final")
    /\ Decide(c, t, IF Expected(c, t, job[c].gens[t]) THEN "active" ELSE "superseded",
              job[c].expected)

AfterLive(c) ==
    LET confirm == /\ job[c].phase = "observed"
                   /\ Exists(call[c].row)
                   /\ call[c].row.content = job[c].batch[job[c].t].content
    IN
    /\ Answered(c, "relive")
    /\ InSignal(c) => call[c].result # "race"
    /\ \/ confirm /\ Await(c, "confirming", CallConfirm(c, job[c].batch[job[c].t]))
       \/ ~confirm /\ NextTarget(c) /\ Local(c)

(* Mutant: a coverage write that failed is not retried.                    *)
AfterAnyCover(c) ==
    /\ Answered(c, "removing") \/ Answered(c, "confirming") \/ (At(c, "covering") /\ Idle(c))
    /\ Continue(c, [job[c] EXCEPT !.pc = job[c].phase, !.todo = @ \ {job[c].t},
                                  !.expected = Gone,
                                  !.unapplied = IF call[c].result = "race"
                                                THEN @ \cup {job[c].t} ELSE @])
    /\ Local(c)

(* A lost race is no reason to fail here, in a signal neither.             *)
AfterWrite(c) ==
    /\ Answered(c, "removing") \/ Answered(c, "confirming") \/ Answered(c, "covering")
    /\ Continue(c, [job[c] EXCEPT !.pc = job[c].phase, !.todo = @ \ {job[c].t},
                                  !.expected = Gone,
                                  !.unapplied = IF call[c].result = "race"
                                                THEN @ \cup {job[c].t} ELSE @])
    /\ Local(c)

-----------------------------------------------------------------------------
(* emit_coverage: one event per active row and schedule bucket.            *)
StartRescan(c) ==
    /\ c \in RescanJobs /\ At(c, "idle")
    /\ \E b \in Buckets :
          Continue(c, [NoJob EXCEPT !.pc = "absent", !.phase = "absent", !.bucket = b,
                         !.gens = ListCurrent(Targets), !.todo = DOMAIN ListCurrent(Targets)])
    /\ Local(c)

CoverNext(c) ==
    /\ At(c, "absent") /\ InRescan(c)
    /\ \E t \in job[c].todo :
          /\ CallCoverage(c, t, job[c].gens[t], job[c].bucket)
          /\ Continue(c, [job[c] EXCEPT !.pc = "covering", !.t = t])
    /\ UNCHANGED <<claims, providerVars>>

-----------------------------------------------------------------------------
(* The invocation returns; the message or schedule that caused it is done. *)
Finish(c) ==
    /\ At(c, "absent") /\ job[c].todo = {}
    /\ Continue(c, NoJob)
    /\ call' = [call EXCEPT ![c] = NoCall]
    /\ UNCHANGED <<item, outbox, claims, providerVars>>

Claimed(c) == /\ InSignal(c)
              /\ job[c].pc \notin {"idle", "resolve", "claim"}

(* It raises: on a store error, and in a signal on a lost race.  A signal  *)
(* releases its claim first, unless that call fails too.                   *)
Raise(c) ==
    /\ ~At(c, "idle") /\ Idle(c)
    /\ \/ call[c].result = "error"
       \/ InSignal(c) /\ call[c].result = "race" /\ job[c].pc \in {"reconciling", "relive"}
    /\ \/ Claimed(c) /\ claims' = [claims EXCEPT ![job[c].signal] = 0]
       \/ (~Claimed(c) \/ Faulty) /\ UNCHANGED claims
    /\ Continue(c, NoJob)
    /\ call' = [call EXCEPT ![c] = NoCall]
    /\ UNCHANGED <<item, outbox, providerVars>>

(* It dies (a timeout, a killed sandbox) and releases nothing.             *)
Crash(c) ==
    /\ Faulty
    /\ ~At(c, "idle")
    /\ Continue(c, NoJob)
    /\ call' = [call EXCEPT ![c] = NoCall]
    /\ UNCHANGED <<item, outbox, claims, providerVars>>

StoreWorks(c) ==
    /\ StoreStep(c)
    /\ Faulty \/ call'[c].result # "error"
    /\ UNCHANGED <<job, claims, providerVars>>

HandlerStep(c) ==
    \/ CollectGroups(c) \/ CollectInterfaces(c) \/ CollectInstances(c)
    \/ CollectCaptures(c)
    \/ Resolve(c) \/ Claim(c) \/ FindCandidates(c)
    \/ ReconcileNext(c) \/ AfterReconcile(c) \/ ObservedDone(c)
    \/ ValidateGet(c) \/ ValidateLive(c) \/ ValidateFinal(c)
    \/ AfterLive(c) \/ AfterWrite(c)
    \/ CoverNext(c) \/ Finish(c) \/ Raise(c)

InventoryNext ==
    \/ Tick
    \/ \E t \in Targets : Records(t)
    \/ \E c \in Callers : \/ StartSnapshot(c) \/ StartSignal(c) \/ StartRescan(c)
                          \/ HandlerStep(c) \/ StoreWorks(c) \/ Crash(c)

InventorySpec == InventoryInit /\ [][InventoryNext]_inventoryVars

(* Lambda runs what was invoked to its end, and the schedule keeps         *)
(* invoking the snapshot.                                                  *)
FairInventory ==
    /\ InventorySpec
    /\ WF_inventoryVars(Tick)
    /\ \A c \in Callers : WF_inventoryVars(HandlerStep(c)) /\ WF_inventoryVars(StoreWorks(c))
    /\ \A c \in SnapshotJobs : WF_inventoryVars(StartSnapshot(c))

-----------------------------------------------------------------------------
(***************************************************************************)
(* The handlers use the store only as StateStore lets its callers use it,  *)
(* so what is proved of the store holds under every handler.               *)
(***************************************************************************)
UsesStore == StoreSpec

(***************************************************************************)
(* A target the provider has had at one address, running, all along is     *)
(* never removed, whatever partial listings, failed reads and concurrent   *)
(* invocations happen ("remove only directly revalidated absences").       *)
(***************************************************************************)
NoFalseRemoval ==
    \A e \in outbox : e.reason = "removed" => e.target \in left

(***************************************************************************)
(* When a signal is acknowledged, every target it resolved is at least as  *)
(* fresh as the signal, and every candidate it did not resolve has been    *)
(* removed, superseded or refreshed, unless its ownership check found it   *)
(* active or could not tell, or its removal lost a race (process_signal    *)
(* fails on the RACE of a reconcile and not on that of a remove).          *)
(***************************************************************************)
SignalAppliedBeforeAck ==
    \A c \in Callers : InSignal(c) /\ At(c, "absent") /\ job[c].todo = {} =>
        /\ \A t \in DOMAIN job[c].batch : item[t].observed_at >= job[c].now
        /\ \A t \in DOMAIN job[c].gens \ (DOMAIN job[c].batch \cup job[c].unapplied) :
              \/ item[t].generation > job[c].gens[t]
              \/ item[t].observed_at >= job[c].now

(***************************************************************************)
(* A rescan that finishes has enqueued, for its bucket, every row it found *)
(* active and that has not moved on meanwhile, however its writes raced    *)
(* with the other invocations or with an earlier run for the same bucket.  *)
(***************************************************************************)
RescanComplete ==
    \A c \in Callers : InRescan(c) /\ At(c, "absent") /\ job[c].todo = {} =>
        \A t \in DOMAIN job[c].gens :
            item[t].generation = job[c].gens[t] =>
                EventFor(t, item[t], "coverage", job[c].bucket) \in outbox

(***************************************************************************)
(* Once the provider is quiet and calls succeed, EC2 snapshots bring every *)
(* row to what the provider has, for good.                                 *)
(***************************************************************************)
Converged ==
    \A t \in Targets :
        IF live[t] = Gone THEN item[t].status # "active"
        ELSE item[t].status = "active" /\ item[t].content = live[t]

Convergence == <>[]Converged
=============================================================================
