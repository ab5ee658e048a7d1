---------------------------- MODULE ScanDispatch ----------------------------
(***************************************************************************)
(* The generator Lambda (generator/handler.py): each event of one target's *)
(* outbox stream, delivered by SQS at least once, is claimed in DynamoDB,  *)
(* revalidated against inventory and provider, and becomes a Scanner or a  *)
(* terminal audit state.  A worker is one invocation at one record; every  *)
(* call it makes to DynamoDB, EC2 or Kubernetes is a step.                 *)
(***************************************************************************)
EXTENDS Naturals

CONSTANTS
    Workers,       \* concurrent invocations
    Events,        \* events of the target
    Gen,           \* Gen[e]: the generation e announces
    Removals,      \* the events that are target.removed
    Denied,        \* events outside the configured accounts and CIDRs
    Deadline,      \* Deadline[e]: scan.deadline_at, if e asks for a scan
    Lease,         \* claim_lease_seconds
    Timeout,       \* the Lambda timeout
    MaxGeneration, \* bound on the target's generations
    MaxClock,      \* bound on time
    QuietFrom      \* from then on calls succeed and invocations survive

ASSUME DispatchAssumption ==
    /\ Removals \subseteq Events /\ Denied \subseteq Events
    /\ Gen \in [Events -> Nat \ {0}]
    /\ Deadline \in [Events -> Nat]
    /\ Lease \in Nat /\ Timeout \in Nat /\ MaxGeneration \in Nat
    /\ MaxClock \in Nat /\ QuietFrom \in Nat
    /\ \A e, f \in Events : Gen[e] = Gen[f] /\ e \in Removals => f \in Removals
    /\ Events # {} /\ "none" \notin Workers

VARIABLES
    row,      \* generation of the target's inventory row
    ended,    \* history: ended[g], when the row left generation g
    live,     \* the provider's answer, compared with that row
    clock,
    claim,    \* claim[e]: the DynamoDB item of e
    scanner,  \* scanner[e]: the Scanner named after e
    worker,   \* worker[w]: where invocation w is
    acked     \* the events whose message was acknowledged

dispatchVars == <<row, ended, live, clock, claim, scanner, worker, acked>>
worldVars == <<row, ended, live, clock>>

MaxOf(a, b) == IF a >= b THEN a ELSE b

Generations == 1 .. MaxOf(1, MaxGeneration)

Terminal == {"DISPATCHED", "STALE", "CANCELLED", "REMOVED", "EXPIRED"}

NoClaim == [state |-> "none", owner |-> "none", lease |-> 0]

(* limit: Scanners of generations below it are to be cancelled; outcome:   *)
(* the terminal state the record is heading for, "none" while undecided.   *)
NoWork == [pc |-> "idle", event |-> CHOOSE e \in Events : TRUE, started |-> 0,
           round |-> 1, limit |-> 0, doomed |-> {}, outcome |-> "none"]

DispatchInit ==
    /\ row = 1 /\ live = "same" /\ clock = 0
    /\ ended = [g \in Generations |-> 0]
    /\ claim = [e \in Events |-> NoClaim]
    /\ scanner = [e \in Events |-> "none"]
    /\ worker = [w \in Workers |-> NoWork]
    /\ acked = {}

Faulty == clock < QuietFrom

At(w, pc) == worker[w].pc = pc

Goto(w, pc) == worker' = [worker EXCEPT ![w].pc = pc]

(* The record fails: SQS delivers it again.                                *)
Fails(w) == worker' = [worker EXCEPT ![w] = NoWork] /\ UNCHANGED acked

(* The record succeeds: SQS deletes the message.                           *)
Succeeds(w) ==
    /\ worker' = [worker EXCEPT ![w] = NoWork]
    /\ acked' = acked \cup {worker[w].event}

Proceeds(w, pc) == Goto(w, pc) /\ UNCHANGED acked

-----------------------------------------------------------------------------
(* External: time, inventory, provider, and the operator's finalizer.      *)
Tick ==
    /\ clock < MaxClock
    /\ \A w \in Workers : At(w, "idle") \/ clock < worker[w].started + Timeout
    /\ clock' = clock + 1
    /\ UNCHANGED <<row, ended, live, claim, scanner, worker, acked>>

ActiveRow(g) == \A e \in Removals : Gen[e] # g

RowAdvances ==
    /\ row < MaxGeneration
    /\ row' = row + 1
    /\ ended' = [ended EXCEPT ![row] = clock]
    /\ live' = IF ActiveRow(row + 1) THEN "same" ELSE "gone"
    /\ UNCHANGED <<clock, claim, scanner, worker, acked>>

ProviderChanges ==
    /\ live' \in {"same", "drifted", "gone"} \ {live}
    /\ UNCHANGED <<row, ended, clock, claim, scanner, worker, acked>>

ScannerGone(e) ==
    /\ scanner[e] = "deleting"
    /\ scanner' = [scanner EXCEPT ![e] = "none"]
    /\ UNCHANGED <<worldVars, claim, worker, acked>>

-----------------------------------------------------------------------------
(* process_sqs_record begins: its clock is read once, before the claim.    *)
Deliver(w, e) ==
    /\ At(w, "idle")
    /\ Gen[e] <= row
    /\ \/ e \in Denied /\ acked' = acked \cup {e} /\ UNCHANGED worker
       \/ /\ e \notin Denied
          /\ worker' = [worker EXCEPT ![w] = [NoWork EXCEPT !.pc = "put", !.event = e,
                                                            !.started = clock]]
          /\ UNCHANGED acked
    /\ UNCHANGED <<worldVars, claim, scanner>>

(* DynamoClaimStore.acquire: put, else read, else take over, else read.    *)
ClaimFor(w) == claim' = [claim EXCEPT ![worker[w].event] =
                  [state |-> "CLAIMED", owner |-> w, lease |-> worker[w].started + Lease]]

(* A write whose response is lost raises all the same.                     *)
Acquired(w) ==
    /\ ClaimFor(w)
    /\ Proceeds(w, "row") \/ (Faulty /\ Fails(w))

PutClaim(w) ==
    LET free == claim[worker[w].event].state = "none" IN
    /\ At(w, "put")
    /\ \/ free /\ Acquired(w)
       \/ ~free /\ Proceeds(w, "existing") /\ UNCHANGED claim
    /\ UNCHANGED <<worldVars, scanner>>

Lapsed(w, c) == c.state = "CLAIMED" /\ c.lease <= worker[w].started

(* Mutant: a claim may be taken from an owner whose lease still runs.      *)
TakeableAtOnce(w, c) == c.state \in {"CLAIMED", "RETRYABLE"}

(* Mutant: only what its owner gave back may be taken.                     *)
TakeableIfReturned(w, c) == c.state = "RETRYABLE"

Takeable(w, c) == c.state = "RETRYABLE" \/ Lapsed(w, c)

ReadClaim(w) ==
    LET c == claim[worker[w].event] IN
    /\ At(w, "existing")
    /\ \/ c.state \in Terminal /\ Succeeds(w)                      \* duplicate
       \/ c.state \notin Terminal /\ ~Takeable(w, c) /\ Fails(w)   \* busy
       \/ Takeable(w, c) /\ Proceeds(w, "take")
    /\ UNCHANGED <<worldVars, claim, scanner>>

TakeClaim(w) ==
    LET c == claim[worker[w].event] IN
    /\ At(w, "take")
    /\ \/ Takeable(w, c) /\ Acquired(w)
       \/ ~Takeable(w, c) /\ Proceeds(w, "classify") /\ UNCHANGED claim
    /\ UNCHANGED <<worldVars, scanner>>

ClassifyAfterRace(w) ==
    LET c == claim[worker[w].event] IN
    /\ At(w, "classify")
    /\ \/ c.state \in Terminal /\ Succeeds(w)
       \/ c.state \notin Terminal /\ Fails(w)
    /\ UNCHANGED <<worldVars, claim, scanner>>

-----------------------------------------------------------------------------
(* _cancel_terminal: the event's own Scanner, then those below limit.      *)
EndsAs(w, outcome, limit) ==
    worker' = [worker EXCEPT ![w].pc = "exact", ![w].limit = limit,
                 ![w].outcome = IF worker[w].event \in Removals THEN "REMOVED" ELSE outcome]

(* classify_verdict and what the handler makes of it (MOVED is treated as  *)
(* INACTIVE is).                                                           *)
Decide(w, verdict) ==
    LET g == Gen[worker[w].event] IN
    /\ \/ verdict = "stale-generation" /\ EndsAs(w, "STALE", MaxOf(g, row))
       \/ verdict = "stale-policy" /\ EndsAs(w, "STALE", g + 1)
       \/ verdict = "stale-context" /\ EndsAs(w, "STALE", g)
       \/ verdict = "inactive" /\ EndsAs(w, "CANCELLED", g + 1)
       \/ verdict = "unknown" /\ Goto(w, "retry")
       \/ /\ verdict = "active" /\ worker[w].round = 1
          /\ worker' = [worker EXCEPT ![w].pc = "list", ![w].limit = g]
       \/ verdict = "active" /\ worker[w].round = 2 /\ Goto(w, "deadline")
    /\ UNCHANGED acked

(* Mutant: any active row will do.                                         *)
RowIsActive(w) == ActiveRow(row)

RowMatches(w) == row = Gen[worker[w].event] /\ ActiveRow(row)

(* revalidate_event: the row first, then the provider and the row again.   *)
(* If the row moves in between, the provider was compared with the old row.*)
CheckRow(w) ==
    /\ At(w, "row")
    /\ \/ RowMatches(w) /\ Proceeds(w, "live")
       \/ ~RowMatches(w) /\ Decide(w, "stale-generation")
    /\ UNCHANGED <<worldVars, claim, scanner>>

(* A drift is one of what the row has (policy, groups, instance state), or *)
(* of the instance, which only the event is compared with.                 *)
Verdicts(w) ==
    (IF Faulty THEN {"unknown"} ELSE {}) \cup
    (IF ~RowMatches(w) THEN {"stale-generation", "stale-policy", "inactive"}
     ELSE IF live = "same" THEN {"active"}
     ELSE IF live = "drifted" THEN {"stale-policy", "stale-context"}
     ELSE {"inactive"})

CheckLive(w) ==
    /\ At(w, "live")
    /\ \E verdict \in Verdicts(w) : Decide(w, verdict)
    /\ UNCHANGED <<worldVars, claim, scanner>>

(* ScannerClient.delete: Foreground deletion; the finalizer takes its time.*)
DeleteScanner(e) ==
    scanner' = [scanner EXCEPT ![e] = IF @ = "none" THEN "none" ELSE "deleting"]

(* Mutant: the terminal paths only look for older generations.             *)
DeleteNothing(w) ==
    /\ At(w, "exact")
    /\ Proceeds(w, IF worker[w].outcome = "EXPIRED" THEN "complete" ELSE "list")
    /\ UNCHANGED <<worldVars, claim, scanner>>

CancelEventScanner(w) ==
    /\ At(w, "exact")
    /\ DeleteScanner(worker[w].event)
    /\ Proceeds(w, IF worker[w].outcome = "EXPIRED" THEN "complete" ELSE "list")
    /\ UNCHANGED <<worldVars, claim>>

ListScanners(w) ==
    /\ At(w, "list")
    /\ worker' = [worker EXCEPT ![w].pc = "delete",
                    ![w].doomed = {f \in Events : /\ scanner[f] # "none"
                                                  /\ Gen[f] < worker[w].limit
                                                  /\ worker[w].outcome # "none" =>
                                                        f # worker[w].event}]
    /\ UNCHANGED <<worldVars, claim, scanner, acked>>

DeleteNext(w) ==
    /\ At(w, "delete")
    /\ \/ \E f \in worker[w].doomed :
             /\ DeleteScanner(f)
             /\ worker' = [worker EXCEPT ![w].doomed = @ \ {f}]
       \/ /\ worker[w].doomed = {}
          /\ worker' = IF worker[w].outcome = "none"
                       THEN [worker EXCEPT ![w].pc = "row", ![w].round = 2]
                       ELSE [worker EXCEPT ![w].pc = "complete"]
          /\ UNCHANGED scanner
    /\ UNCHANGED <<worldVars, claim, acked>>

CheckDeadline(w) ==
    /\ At(w, "deadline")
    /\ \/ /\ clock >= Deadline[worker[w].event]
          /\ worker' = [worker EXCEPT ![w].pc = "exact", ![w].outcome = "EXPIRED"]
       \/ /\ clock < Deadline[worker[w].event]
          /\ worker' = [worker EXCEPT ![w].pc = "create", ![w].outcome = "DISPATCHED"]
    /\ UNCHANGED <<worldVars, claim, scanner, acked>>

(* A Scanner that is being deleted is a conflict, any other is ours.       *)
CreateScanner(w) ==
    LET e == worker[w].event IN
    /\ At(w, "create")
    /\ \/ /\ scanner[e] = "none"
          /\ scanner' = [scanner EXCEPT ![e] = "live"]
          /\ Goto(w, "complete") \/ (Faulty /\ Goto(w, "retry"))
       \/ scanner[e] = "live" /\ Goto(w, "complete") /\ UNCHANGED scanner
       \/ scanner[e] = "deleting" /\ Goto(w, "retry") /\ UNCHANGED scanner
    /\ UNCHANGED <<worldVars, claim, acked>>

-----------------------------------------------------------------------------
Owns(w) == LET c == claim[worker[w].event] IN c.state = "CLAIMED" /\ c.owner = w

Complete(w) ==
    LET e == worker[w].event IN
    /\ At(w, "complete")
    /\ \/ /\ Owns(w)
          /\ claim' = [claim EXCEPT ![e] = [NoClaim EXCEPT !.state = worker[w].outcome]]
          /\ Succeeds(w) \/ (Faulty /\ Proceeds(w, "retry"))
       \/ /\ ~Owns(w)
          /\ \/ claim[e].state = worker[w].outcome /\ Succeeds(w)
             \/ claim[e].state # worker[w].outcome /\ Proceeds(w, "retry")  \* ClaimLost
          /\ UNCHANGED claim
    /\ UNCHANGED <<worldVars, scanner>>

(* Mutant: the claim is reopened whoever holds it and whatever it says.    *)
ReopenClaim(w) ==
    /\ At(w, "retry")
    /\ claim' = [claim EXCEPT ![worker[w].event] = [NoClaim EXCEPT !.state = "RETRYABLE"]]
    /\ Fails(w)
    /\ UNCHANGED <<worldVars, scanner>>

(* _retry_claim: best effort.                                              *)
RetryClaim(w) ==
    LET e == worker[w].event IN
    /\ At(w, "retry")
    /\ \/ /\ Owns(w)
          /\ claim' = [claim EXCEPT ![e] = [NoClaim EXCEPT !.state = "RETRYABLE"]]
       \/ (~Owns(w) \/ Faulty) /\ UNCHANGED claim
    /\ Fails(w)
    /\ UNCHANGED <<worldVars, scanner>>

(* A call raises without effect: before the claim is ours the record just  *)
(* fails, afterwards the claim is reopened first.                          *)
Raises(w) ==
    /\ Faulty
    /\ ~At(w, "idle") /\ ~At(w, "retry") /\ ~At(w, "deadline")
    /\ IF worker[w].pc \in {"put", "existing", "take", "classify"}
       THEN Fails(w) ELSE Proceeds(w, "retry")
    /\ UNCHANGED <<worldVars, claim, scanner>>

Crash(w) ==
    /\ Faulty
    /\ ~At(w, "idle")
    /\ Fails(w)
    /\ UNCHANGED <<worldVars, claim, scanner>>

WorkerStep(w) ==
    \/ PutClaim(w) \/ ReadClaim(w) \/ TakeClaim(w) \/ ClassifyAfterRace(w)
    \/ CheckRow(w) \/ CheckLive(w)
    \/ CancelEventScanner(w) \/ ListScanners(w) \/ DeleteNext(w)
    \/ CheckDeadline(w) \/ CreateScanner(w) \/ Complete(w) \/ RetryClaim(w)

DispatchNext ==
    \/ Tick \/ RowAdvances \/ ProviderChanges
    \/ \E e \in Events : ScannerGone(e)
    \/ \E w \in Workers : \/ \E e \in Events : Deliver(w, e)
                          \/ WorkerStep(w) \/ Raises(w) \/ Crash(w)

DispatchSpec == DispatchInit /\ [][DispatchNext]_dispatchVars

(* SQS offers a message until it is acknowledged.                          *)
Redeliver(e) == e \notin acked /\ \E w \in Workers : Deliver(w, e)

FairDispatch ==
    /\ DispatchSpec
    /\ WF_dispatchVars(Tick)
    /\ \A w \in Workers : WF_dispatchVars(WorkerStep(w))
    /\ \A e \in Events : SF_dispatchVars(Redeliver(e)) /\ WF_dispatchVars(ScannerGone(e))

-----------------------------------------------------------------------------
WorkerPcs == {"idle", "put", "existing", "take", "classify", "row", "live", "exact",
              "list", "delete", "deadline", "create", "complete", "retry"}

ClaimStates == Terminal \cup {"none", "CLAIMED", "RETRYABLE"}

DispatchTypeOK ==
    /\ row \in Generations /\ live \in {"same", "drifted", "gone"}
    /\ clock \in 0 .. MaxClock /\ ended \in [Generations -> 0 .. MaxClock]
    /\ claim \in [Events -> [state: ClaimStates, owner: Workers \cup {"none"}, lease: Nat]]
    /\ scanner \in [Events -> {"none", "live", "deleting"}]
    /\ worker \in [Workers -> [pc: WorkerPcs, event: Events, started: 0 .. MaxClock,
                               round: {1, 2}, limit: Nat, doomed: SUBSET Events,
                               outcome: Terminal \cup {"none"}]]
    /\ acked \subseteq Events
    /\ \A e \in Events : claim[e].state = "CLAIMED" <=> claim[e].owner # "none"
    /\ \A w \in Workers :
          worker[w].pc \in {"exact", "create", "complete"} => worker[w].outcome # "none"

Holding(w) == worker[w].pc \notin {"idle", "put", "existing", "take", "classify"}

(***************************************************************************)
(* Two invocations never work on the same event past its claim, however    *)
(* often it is delivered: if the lease outlives the invocation (120 s and  *)
(* 60 s by default; nothing in the code relates the two settings), whoever *)
(* takes a lapsed claim finds its owner dead.                              *)
(***************************************************************************)
OneHolderPerEvent ==
    \A v, w \in Workers :
        v # w /\ Holding(v) /\ Holding(w) => worker[v].event # worker[w].event

(***************************************************************************)
(* Once an event is audited STALE, CANCELLED or EXPIRED its Scanner is     *)
(* gone or going, and no late invocation creates it: "`STALE`, `MOVED`,    *)
(* `INACTIVE`, ambiguous, or out-of-scope targets do not scan".            *)
(***************************************************************************)
RefusedDoesNotScan ==
    \A e \in Events :
        claim[e].state \in {"STALE", "CANCELLED", "EXPIRED", "REMOVED"} => scanner[e] # "live"

(***************************************************************************)
(* An audit state, once written, never changes: not by an owner whose      *)
(* lease lapsed under it, not by a lost response that makes the writer     *)
(* believe it failed.  This needs no assumption on the lease.              *)
(***************************************************************************)
TerminalIsFinal ==
    [][\A e \in Events : claim[e].state \in Terminal => claim'[e] = claim[e]]_claim

(***************************************************************************)
(* "the ownership/generation gate is immediately adjacent to create"       *)
(* (handler.py): the two are different calls, and the target may move on   *)
(* in between, even be cancelled for by the newer event.  What the gate    *)
(* does guarantee is that a Scanner is created for the present generation  *)
(* or for one that ended less than an invocation ago: no redelivery,       *)
(* lapsed claim or retry scans what was superseded before it began.        *)
(***************************************************************************)
NoLateScanner ==
    [][\A e \in Events :
          scanner[e] = "none" /\ scanner'[e] = "live" =>
              Gen[e] = row \/ (Gen[e] < row /\ clock <= ended[Gen[e]] + Timeout)]_scanner

(***************************************************************************)
(* Every event in scope ends in an audit state, across crashes, lost       *)
(* responses, busy claims and conflicts with a Scanner under deletion.     *)
(***************************************************************************)
EventsSettle ==
    \A e \in Events \ Denied : Gen[e] <= row ~> claim[e].state \in Terminal

(***************************************************************************)
(* A Scanner whose creator crashed before finalizing is adopted: "a retry  *)
(* acquires the item, receives Kubernetes 409 for the deterministic        *)
(* resource name, and finalizes DISPATCHED" (idempotency.py).  It does not *)
(* hold: a retry past the dispatch deadline deletes it as EXPIRED.         *)
(***************************************************************************)
CrashedCreateIsAdopted ==
    [][\A w \in Workers :
          worker'[w].outcome = "EXPIRED" => scanner[worker[w].event] # "live"]_dispatchVars
=============================================================================
