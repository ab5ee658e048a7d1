------------------------- MODULE ExposureProjection -------------------------
(***************************************************************************)
(* The PostgreSQL projection (parser/database.py) of one target: target    *)
(* events and scan results arrive late, twice and in any order, and        *)
(* scheduled reconciliation runs repair the findings meanwhile.            *)
(*                                                                         *)
(* apply_target_event and ingest_scan lock the target row first and hold   *)
(* it to the commit, so each is one step.  A copy that passed the          *)
(* duplicate check before it got the lock is rolled back by the primary    *)
(* key.  reconcile_all takes no such lock: it reads exposure and target    *)
(* with a statement each, locks only the findings it finds, and others     *)
(* commit in between.  Its inserts do lock the target row, by the foreign  *)
(* key of finding_events.                                                  *)
(*                                                                         *)
(* Left out: last_changed_at, which never exceeds last_confirmed_at, other *)
(* timestamps and the append-only audit tables that nothing reads back.    *)
(***************************************************************************)
EXTENDS Naturals

CONSTANTS
    Ports,      \* (protocol, port) pairs, numbered in their sort order
    Addresses,  \* public addresses
    Identities, \* service_identity_sha256
    Rules,      \* rule_key
    Texts,      \* severity, name and description of a rule
    Matches,    \* Matches[r]: the ports that satisfy the criteria of rule r
    Events,     \* event_id
    EventOf,    \* EventOf[e]: the TargetEvent
    Attempts,   \* attempt_id, numbered in their sort order
    ScanOf,     \* ScanOf[a]: the ScanEnvelope with its observations
    Runs,       \* reconciliation runs (scheduled event ids)
    Export,     \* finding_export_enabled
    MaxEdits    \* bound on edits of the detection rules

(* occurred_at is removed_at of a removal, else source_observed_at, which  *)
(* for a rescan ("coverage") of a generation is when it was scheduled.     *)
TargetEvent == [generation: Nat \ {0}, event_type: {"upsert", "remove"},
                reason: {"new_target", "change", "coverage", "none"}, address: Addresses,
                observed_at: Nat, occurred_at: Nat]

(* covers: the ports of the complete coverage; sees[p]: the identity of an *)
(* open service, or "closed" for closed, filtered and not reported.        *)
ScanEnvelope == [event: Events, address: Addresses, complete: BOOLEAN,
                 completed_at: Nat, covers: SUBSET Ports,
                 sees: [Ports -> Identities \cup {"closed"}]]

ASSUME ProjectionAssumption ==
    /\ Ports \subseteq Nat /\ Attempts \subseteq Nat \ {0}
    /\ "closed" \notin Identities /\ "off" \notin Texts
    /\ Export \in BOOLEAN /\ MaxEdits \in Nat
    /\ Addresses # {} /\ Identities # {} /\ Texts # {}
    /\ Matches \in [Rules -> SUBSET Ports]
    /\ EventOf \in [Events -> TargetEvent]
    /\ ScanOf \in [Attempts -> ScanEnvelope]

(* The events of a generation are of one kind and about one address        *)
(* (TargetLedger's OneEventPerGeneration and CoverageFenced, which the     *)
(* inventory guarantees).                                                  *)
ASSUME StreamAssumption ==
    \A d, e \in Events : EventOf[d].generation = EventOf[e].generation =>
        /\ EventOf[d].event_type = EventOf[e].event_type
        /\ EventOf[d].address = EventOf[e].address

VARIABLES
    target,    \* the act.targets row
    applied,   \* act.target_events
    ingested,  \* act.scan_attempts
    eligible,  \* those with state_eligible
    exposure,  \* exposure[p]: the act.exposure_state row
    jumps,     \* the gaps in the generations that no reactivation explained
               \* (history, for NoExposureAcrossRemoval)
    closers,   \* closers[p]: the events that closed port p
               \* (history, for LastScanDecides)
    rule,      \* rule[r]: what act.detection_rules says, "off" if disabled
    edits,     \* how often a rule was edited
    finding,   \* finding[k]: the act.findings row of a rule and a port
    history,   \* act.finding_events
    pending,   \* act.finding_handoffs that are not marked published
    objects,   \* the finding objects in S3
    run        \* run[i]: the transaction of reconciliation run i

evidenceVars == <<target, applied, ingested, eligible, exposure, jumps, closers>>
findingVars  == <<finding, history, pending>>
vars == <<evidenceVars, rule, edits, findingVars, objects, run>>

FindingKeys == Rules \X Ports

AnyAddress == CHOOSE a \in Addresses : TRUE
AnyIdentity == CHOOSE i \in Identities : TRUE
AnyText == CHOOSE t \in Texts : TRUE

NoTarget == [generation |-> 0, status |-> "absent", address |-> AnyAddress,
             observed_at |-> 0]

NoExposure == [state |-> "absent", address |-> AnyAddress, identity |-> AnyIdentity,
               confirmed_at |-> 0, attempt |-> 0, generation |-> 0]

NoFinding == [status |-> "absent", version |-> 0, address |-> AnyAddress,
              identity |-> AnyIdentity, text |-> AnyText]

NoWrites == [k \in {} |-> NoFinding]

(* fenced: the run inserted an event and so holds the target row.          *)
(* overtaken: the evidence, the rules or the findings have changed since   *)
(* the run began (history, for RunRepairs).                                *)
NoRun == [pc |-> "idle", todo |-> {}, rules |-> [r \in Rules |-> "off"],
          row |-> NoExposure, status |-> "absent", writes |-> NoWrites,
          locked |-> {}, fenced |-> FALSE, overtaken |-> FALSE]

ProjectionInit ==
    /\ target = NoTarget
    /\ applied = {} /\ ingested = {} /\ eligible = {} /\ jumps = {}
    /\ exposure = [p \in Ports |-> NoExposure]
    /\ closers = [p \in Ports |-> {}]
    /\ rule \in [Rules -> Texts]
    /\ edits = 0
    /\ finding = [k \in FindingKeys |-> NoFinding]
    /\ history = {} /\ pending = {} /\ objects = {}
    /\ run = [i \in Runs |-> NoRun]

MaxOf(a, b) == IF a >= b THEN a ELSE b

InRun(i) == run[i].pc \notin {"idle", "done"}

Overtaken == [i \in Runs |-> IF InRun(i) THEN [run[i] EXCEPT !.overtaken = TRUE]
                             ELSE run[i]]

-----------------------------------------------------------------------------
(* _reconcile_finding_keys: what becomes of finding f of key k, given the  *)
(* exposure row, the target status and the rules.                          *)
RuleMatches(k, rules) == rules[k[1]] # "off" /\ k[2] \in Matches[k[1]]

Matched(k, row, status, rules) ==
    row.state = "open" /\ status = "active" /\ RuleMatches(k, rules)

(* Mutant: an edited rule does not reach the findings it already opened.   *)
RuleEditMissed(k, f, row, rules) ==
    LET open == [status |-> "open", version |-> f.version, address |-> row.address,
                 identity |-> row.identity, text |-> rules[k[1]]]
    IN  IF [open EXCEPT !.text = f.text] = f THEN f ELSE [open EXCEPT !.version = @ + 1]

EnsureFinding(k, f, row, rules) ==
    LET open == [status |-> "open", version |-> f.version, address |-> row.address,
                 identity |-> row.identity, text |-> rules[k[1]]]
    IN  IF open = f THEN f ELSE [open EXCEPT !.version = @ + 1]

ResolveFinding(f) ==
    IF f.status = "open" THEN [f EXCEPT !.status = "resolved", !.version = @ + 1] ELSE f

ReconcileFinding(k, f, row, status, rules) ==
    IF Matched(k, row, status, rules) THEN EnsureFinding(k, f, row, rules)
    ELSE ResolveFinding(f)

ReconcileFindingKeys(ports, rows, status) ==
    [k \in FindingKeys |-> IF k[2] \in ports
                           THEN ReconcileFinding(k, finding[k], rows[k[2]], status, rule)
                           ELSE finding[k]]

(* _insert_finding_event and _queue_finding_event for every finding that   *)
(* got a new version.                                                      *)
EventsOf(new) ==
    {[key |-> k, version |-> new[k].version, status |-> new[k].status] :
        k \in {j \in FindingKeys : new[j].version # finding[j].version}}

QueueHandoffs(hs) == IF Export THEN pending \cup hs ELSE pending

WriteFindings(new) ==
    /\ finding' = new
    /\ history' = history \cup EventsOf(new)
    /\ pending' = QueueHandoffs(EventsOf(new))

-----------------------------------------------------------------------------
(* apply_target_event.                                                     *)

(* Mutant: every event is applied in the order of its arrival.             *)
AcceptedOnArrival(e) == TRUE

Accepted(e) ==
    LET ev == EventOf[e] IN
    \/ ev.generation > target.generation
    \/ ev.generation = target.generation /\ ev.observed_at >= target.observed_at

(* Mutant: a reactivation is taken for a change of the same target.        *)
GapIgnored(e) == FALSE

(* A new target at a generation that does not follow the current one: its  *)
(* removal was missed.                                                     *)
GenerationGapReactivation(e) ==
    /\ EventOf[e].reason = "new_target"
    /\ target.status = "active"
    /\ EventOf[e].generation > target.generation + 1

(* Any other event that skips generations of an active target.             *)
Jumps(e) ==
    /\ Accepted(e) /\ target.status = "active" /\ EventOf[e].event_type = "upsert"
    /\ EventOf[e].reason # "new_target"
    /\ EventOf[e].generation > target.generation + 1

(* Mutant: a new address leaves what was seen at the old one open.         *)
BindingKept(e) == target.status # "active"

(* A removed target has no address.                                        *)
AddressBindingChanged(e) == target.status # "active" \/ target.address # EventOf[e].address

(* Where an exposure or a finding is open at one of the addresses.         *)
OpenPorts(where) ==
    {p \in Ports : \/ exposure[p].state = "open" /\ exposure[p].address \in where
                   \/ \E r \in Rules : /\ finding[<<r, p>>].status = "open"
                                       /\ finding[<<r, p>>].address \in where}

(* The exposures an accepted event closes: all of them for a removal or a  *)
(* reactivation, those at another address otherwise.                       *)
ClosedBy(e) ==
    IF ~Accepted(e) \/ target.generation = 0 THEN {}
    ELSE IF EventOf[e].event_type = "remove" \/ GenerationGapReactivation(e)
    THEN OpenPorts(Addresses)
    ELSE IF AddressBindingChanged(e) THEN OpenPorts(Addresses \ {EventOf[e].address}) ELSE {}

CloseForEvent(row, e) ==
    IF row.state = "open"
    THEN [row EXCEPT !.state = "closed",
                     !.confirmed_at = MaxOf(@, EventOf[e].occurred_at),
                     !.generation = MaxOf(@, EventOf[e].generation)]
    ELSE row

(* Mutant: findings are read and written without FOR UPDATE.               *)
LockIgnored(ports) == TRUE

(* The row locks a run holds keep others out until it ends.                *)
Unlocked(ports) == \A i \in Runs : ~run[i].fenced /\ run[i].locked \cap ports = {}

ApplyTargetEvent(e) ==
    LET ev     == EventOf[e]
        closed == ClosedBy(e)
        rows   == [p \in Ports |-> IF p \in closed THEN CloseForEvent(exposure[p], e)
                                   ELSE exposure[p]]
    IN
    /\ e \notin applied
    /\ Unlocked(closed)
    /\ applied' = applied \cup {e}
    /\ target' = IF Accepted(e)
                 THEN [generation |-> ev.generation, address |-> ev.address,
                       status |-> IF ev.event_type = "remove" THEN "removed" ELSE "active",
                       observed_at |-> ev.observed_at]
                 ELSE target
    /\ exposure' = rows
    /\ jumps' = IF Jumps(e) THEN jumps \cup {[from |-> target.generation, event |-> e]} ELSE jumps
    /\ closers' = [p \in Ports |-> IF rows[p] # exposure[p] THEN closers[p] \cup {e}
                                    ELSE closers[p]]
    /\ WriteFindings(ReconcileFindingKeys(closed, rows, target'.status))
    /\ run' = Overtaken
    /\ UNCHANGED <<ingested, eligible, rule, edits, objects>>

-----------------------------------------------------------------------------
(* ingest_scan.                                                            *)
(* Mutant: a result of an earlier generation at the same address counts.   *)
EligibleByAddress(a) ==
    LET s == ScanOf[a] IN
    target.status = "active" /\ s.address = target.address /\ s.complete

StateEligible(a) ==
    LET s == ScanOf[a] IN
    /\ EventOf[s.event].generation = target.generation
    /\ target.status = "active"
    /\ s.address = target.address
    /\ s.complete

Later(at, a, thenAt, b) == at > thenAt \/ (at = thenAt /\ a > b)

(* Mutant: any attempt that covers the port may decide it.                 *)
CoverageControls(a, p) == p \in ScanOf[a].covers

(* _attempt_controls_port: a is the latest eligible attempt of its         *)
(* generation that covers p.                                               *)
AttemptControlsPort(a, p) ==
    /\ p \in ScanOf[a].covers
    /\ \A b \in eligible :
          /\ EventOf[ScanOf[b].event].generation = EventOf[ScanOf[a].event].generation
          /\ p \in ScanOf[b].covers
          => ~Later(ScanOf[b].completed_at, b, ScanOf[a].completed_at, a)

ScanEvidenceIsNewer(a, row) ==
    LET generation == EventOf[ScanOf[a].event].generation IN
    \/ generation > row.generation
    \/ /\ generation = row.generation
       /\ Later(ScanOf[a].completed_at, a, row.confirmed_at, row.attempt)

OpenExposure(a, p, row) ==
    [state |-> "open", address |-> ScanOf[a].address, identity |-> ScanOf[a].sees[p],
     confirmed_at |-> MaxOf(row.confirmed_at, ScanOf[a].completed_at),
     attempt |-> a, generation |-> EventOf[ScanOf[a].event].generation]

CloseExposure(a, row) ==
    IF row.state = "absent" THEN row
    ELSE [row EXCEPT !.state = "closed",
                     !.confirmed_at = MaxOf(@, ScanOf[a].completed_at),
                     !.attempt = a,
                     !.generation = EventOf[ScanOf[a].event].generation]

ApplyExposureEvidence(a) ==
    [p \in Ports |->
        IF ~(AttemptControlsPort(a, p) /\ ScanEvidenceIsNewer(a, exposure[p]))
        THEN exposure[p]
        ELSE IF ScanOf[a].sees[p] = "closed" THEN CloseExposure(a, exposure[p])
        ELSE OpenExposure(a, p, exposure[p])]

(* A result whose target event has not arrived is put back.                *)
IngestScan(a) ==
    LET rows     == IF StateEligible(a) THEN ApplyExposureEvidence(a) ELSE exposure
        affected == {p \in Ports : rows[p] # exposure[p]}
    IN
    /\ a \notin ingested /\ ScanOf[a].event \in applied
    /\ Unlocked(affected)
    /\ ingested' = ingested \cup {a}
    /\ eligible' = IF StateEligible(a) THEN eligible \cup {a} ELSE eligible
    /\ exposure' = rows
    /\ WriteFindings(ReconcileFindingKeys(affected, rows, target.status))
    /\ run' = Overtaken
    /\ UNCHANGED <<target, applied, jumps, closers, rule, edits, objects>>

(* Both commit nothing for what they have seen before.                     *)
Duplicate ==
    /\ applied # {}
    /\ UNCHANGED vars

-----------------------------------------------------------------------------
(* Rules are edited by hand.                                               *)
EditRule(r) ==
    /\ edits < MaxEdits
    /\ \E text \in (Texts \cup {"off"}) \ {rule[r]} : rule' = [rule EXCEPT ![r] = text]
    /\ edits' = edits + 1
    /\ run' = Overtaken
    /\ UNCHANGED <<evidenceVars, findingVars, objects>>

-----------------------------------------------------------------------------
(* reconcile_all.  An idle or failed run may start (again); a run that has *)
(* completed is a duplicate.                                               *)
Continue(i, r) == run' = [run EXCEPT ![i] = r]

StartRun(i) ==
    /\ run[i].pc = "idle"
    /\ Continue(i, [NoRun EXCEPT !.pc = "rules",
                      !.todo = {p \in Ports : \/ exposure[p].state # "absent"
                                              \/ \E r \in Rules :
                                                    finding[<<r, p>>].status # "absent"}])
    /\ UNCHANGED <<evidenceVars, rule, edits, findingVars, objects>>

ReadRules(i) ==
    /\ run[i].pc = "rules"
    /\ Continue(i, [run[i] EXCEPT !.pc = "exposure", !.rules = rule])
    /\ UNCHANGED <<evidenceVars, rule, edits, findingVars, objects>>

NextPort(i) == CHOOSE p \in run[i].todo : \A q \in run[i].todo : p <= q

ReadExposure(i) ==
    /\ run[i].pc = "exposure" /\ run[i].todo # {}
    /\ Continue(i, [run[i] EXCEPT !.pc = "target", !.row = exposure[NextPort(i)]])
    /\ UNCHANGED <<evidenceVars, rule, edits, findingVars, objects>>

ReadTarget(i) ==
    /\ run[i].pc = "target"
    /\ Continue(i, [run[i] EXCEPT !.pc = "findings", !.status = target.status])
    /\ UNCHANGED <<evidenceVars, rule, edits, findingVars, objects>>

(* The findings of the port are locked and read, and written if they have  *)
(* to change.                                                              *)
ReconcilePort(i) ==
    LET p    == NextPort(i)
        keys == {k \in FindingKeys : k[2] = p}
        New(k) == ReconcileFinding(k, finding[k], run[i].row, run[i].status, run[i].rules)
        moved == {k \in keys : New(k) # finding[k]}
        touched == moved # {} \/ \E k \in keys : finding[k].status # "absent"
    IN
    /\ run[i].pc = "findings"
    /\ touched => \A j \in Runs \ {i} : p \notin run[j].locked
    /\ Continue(i, [run[i] EXCEPT !.pc = "exposure", !.todo = @ \ {p},
                      !.row = NoExposure, !.status = "absent",
                      !.writes = [k \in DOMAIN @ \cup moved |->
                                    IF k \in moved THEN New(k) ELSE run[i].writes[k]],
                      !.locked = IF touched THEN @ \cup {p} ELSE @,
                      !.fenced = @ \/ moved # {}])
    /\ UNCHANGED <<evidenceVars, rule, edits, findingVars, objects>>

(* _queue_current_snapshot for what act.current_findings shows, and the    *)
(* commit.                                                                 *)
Snapshots(i, new) ==
    {[key |-> k, version |-> new[k].version, run |-> i] :
        k \in {j \in FindingKeys : new[j].status = "open" /\ target.status = "active"}}

CommitRun(i) ==
    LET w   == run[i].writes
        new == [k \in FindingKeys |-> IF k \in DOMAIN w THEN w[k] ELSE finding[k]]
    IN
    /\ run[i].pc = "exposure" /\ run[i].todo = {}
    /\ finding' = new
    /\ history' = history \cup EventsOf(new)
    /\ pending' = QueueHandoffs(EventsOf(new) \cup Snapshots(i, new))
    /\ run' = [Overtaken EXCEPT ![i] = [NoRun EXCEPT !.pc = "done"]]
    /\ UNCHANGED <<evidenceVars, rule, edits, objects>>

(* An error, a deadlock or a killed invocation rolls everything back.      *)
RunFails(i) ==
    /\ InRun(i)
    /\ Continue(i, NoRun)
    /\ UNCHANGED <<evidenceVars, rule, edits, findingVars, objects>>

-----------------------------------------------------------------------------
(* HandoffPublisher: put the object unless it exists, then mark.  Every    *)
(* handler publishes what it queued and the processor all that is pending, *)
(* so several may be at it, and one may stop between the two steps.        *)
PutObject(h) ==
    /\ h \in pending
    /\ objects' = objects \cup {h}
    /\ UNCHANGED <<evidenceVars, rule, edits, findingVars, run>>

(* Mutant: a handoff is marked before its object is written.               *)
MarkedFirst(h) ==
    /\ h \in pending
    /\ pending' = pending \ {h}
    /\ UNCHANGED <<evidenceVars, rule, edits, finding, history, objects, run>>

MarkHandoffPublished(h) ==
    /\ h \in pending /\ h \in objects
    /\ pending' = pending \ {h}
    /\ UNCHANGED <<evidenceVars, rule, edits, finding, history, objects, run>>

ProjectionNext ==
    \/ \E e \in Events : ApplyTargetEvent(e)
    \/ \E a \in Attempts : IngestScan(a)
    \/ Duplicate
    \/ \E r \in Rules : EditRule(r)
    \/ \E i \in Runs : \/ StartRun(i) \/ ReadRules(i) \/ ReadExposure(i) \/ ReadTarget(i)
                       \/ ReconcilePort(i) \/ CommitRun(i) \/ RunFails(i)
    \/ \E h \in pending : PutObject(h) \/ MarkHandoffPublished(h)

ProjectionSpec == ProjectionInit /\ [][ProjectionNext]_vars

-----------------------------------------------------------------------------
Exposure == [state: {"absent", "open", "closed"}, address: Addresses, identity: Identities,
             confirmed_at: Nat, attempt: Attempts \cup {0}, generation: Nat]

Finding == [status: {"absent", "open", "resolved"}, version: Nat, address: Addresses,
            identity: Identities, text: Texts]

(* The rows, the locks and the uncommitted writes have their types.        *)
ProjectionTypeOK ==
    /\ target \in [generation: Nat, status: {"absent", "active", "removed"},
                   address: Addresses, observed_at: Nat]
    /\ applied \subseteq Events
    /\ eligible \subseteq ingested /\ ingested \subseteq Attempts
    /\ exposure \in [Ports -> Exposure] /\ closers \in [Ports -> SUBSET applied]
    /\ rule \in [Rules -> Texts \cup {"off"}] /\ edits \in 0 .. MaxEdits
    /\ finding \in [FindingKeys -> Finding]
    /\ \A i \in Runs : /\ run[i].locked \subseteq Ports /\ run[i].row \in Exposure
                       /\ DOMAIN run[i].writes \subseteq FindingKeys
                       /\ \A k \in DOMAIN run[i].writes : run[i].writes[k] \in Finding

(***************************************************************************)
(* Whatever the order of delivery, the target row is the event with the    *)
(* highest generation that has arrived (apply_target_event).               *)
(***************************************************************************)
TargetIsLatest ==
    /\ \A e \in applied : EventOf[e].generation <= target.generation
    /\ applied # {} =>
         \E e \in applied :
            /\ EventOf[e].generation = target.generation
            /\ EventOf[e].address = target.address
            /\ target.status = IF EventOf[e].event_type = "remove" THEN "removed" ELSE "active"

(***************************************************************************)
(* An open exposure is one of the current owner: the target is active and  *)
(* has the address the service was seen at, however late the result and    *)
(* the events that changed hands arrived.                                  *)
(***************************************************************************)
OpenIsOwned ==
    \A p \in Ports : exposure[p].state = "open" =>
        target.status = "active" /\ exposure[p].address = target.address

(***************************************************************************)
(* No evidence outlives a removal that has arrived, on time or late, with  *)
(* one exception: an event that is not a new target's, at the address of   *)
(* the evidence, overtook both the removal and the reactivation and so hid *)
(* the gap from apply_target_event.                                        *)
(***************************************************************************)
Overtakes(j, e, address) ==
    /\ j.from < EventOf[e].generation
    /\ EventOf[e].generation < EventOf[j.event].generation
    /\ EventOf[j.event].address = address

NoExposureAcrossRemoval ==
    \A p \in Ports, e \in applied :
        exposure[p].state = "open" /\ EventOf[e].event_type = "remove" =>
            \/ exposure[p].generation > EventOf[e].generation
            \/ \E j \in jumps : Overtakes(j, e, exposure[p].address)

(* Attempt a is the last of the current generation that covers port p.     *)
LastToCover(a, p) ==
    /\ target.status = "active"
    /\ EventOf[ScanOf[a].event].generation = target.generation
    /\ p \in ScanOf[a].covers
    /\ \A b \in eligible :
          /\ EventOf[ScanOf[b].event].generation = target.generation
          /\ p \in ScanOf[b].covers
          => ~Later(ScanOf[b].completed_at, b, ScanOf[a].completed_at, a)

(* The row of port p says what attempt a saw.                              *)
Shows(a, p) ==
    IF ScanOf[a].sees[p] = "closed" THEN exposure[p].state # "open"
    ELSE exposure[p].state = "open" /\ exposure[p].identity = ScanOf[a].sees[p]

(* Something that was known of port p before attempt a counted is dated no *)
(* earlier than a: a scan of an older generation, or an event that closed  *)
(* the port and began a's generation or an older one.                      *)
Outdated(a, p) ==
    LET generation(b) == EventOf[ScanOf[b].event].generation
        at == ScanOf[a].completed_at
    IN  \/ \E b \in eligible : /\ generation(b) < generation(a) /\ p \in ScanOf[b].covers
                                /\ ScanOf[b].completed_at >= at
        \/ \E e \in closers[p] : /\ EventOf[e].generation <= generation(a)
                                  /\ EventOf[e].occurred_at >= at

(***************************************************************************)
(* Results and events may arrive in any order: a port shows what the last  *)
(* completed eligible scan of the current generation that covers it saw    *)
(* (ties by attempt id), unless the watermark of its row, which never goes *)
(* back (last_confirmed_at), was ahead of that scan for a reason that      *)
(* Outdated names.                                                         *)
(***************************************************************************)
LastScanDecides ==
    \A p \in Ports, a \in eligible : LastToCover(a, p) => Shows(a, p) \/ Outdated(a, p)

(***************************************************************************)
(* The scan that "wins" in the integration tests of out-of-order results,  *)
(* taken without exception: the port shows what the last completed         *)
(* eligible scan of the current generation saw.                            *)
(***************************************************************************)
LatestAttemptWins ==
    \A p \in Ports, a \in eligible : LastToCover(a, p) => Shows(a, p)

(***************************************************************************)
(* ExposureView is all that apply_target_event, ingest_scan and the        *)
(* reconciliation runs ever do to what a reader of the exposures sees.     *)
(***************************************************************************)
View ==
    INSTANCE ExposureView WITH
        owner <- [generation |-> target.generation, status |-> target.status,
                  address |-> target.address],
        counted <- eligible,
        closers <- closers,
        shown <- [p \in Ports |-> IF exposure[p].state = "open" THEN exposure[p].identity
                                  ELSE "closed"]

ImplementsView == View!ViewSpec

(***************************************************************************)
(* The events of a finding are numbered without gap or repetition up to    *)
(* its version, although results, target events and runs write it          *)
(* concurrently; open and resolved events lead to its status.              *)
(***************************************************************************)
FindingHistory ==
    \A k \in FindingKeys :
        LET own == {h \in history : h.key = k} IN
        /\ {h.version : h \in own} = 1 .. finding[k].version
        /\ \A g, h \in own : g.version = h.version => g = h
        /\ \A h \in own : h.version = finding[k].version => h.status = finding[k].status
        /\ \A g, h \in own : g.status = "resolved" /\ h.version = g.version + 1 =>
              h.status = "open"

(***************************************************************************)
(* A reconciliation run that nothing overtook leaves every finding in      *)
(* agreement with the exposures, the target and the rules, whatever        *)
(* earlier runs and rule edits had left behind.                            *)
(***************************************************************************)
FindingsAgree ==
    \A k \in FindingKeys :
        LET f == finding[k]
            row == exposure[k[2]]
        IN  IF Matched(k, row, target.status, rule)
            THEN /\ f.status = "open" /\ f.address = row.address
                 /\ f.identity = row.identity /\ f.text = rule[k[1]]
            ELSE f.status # "open"

RunRepairs ==
    [][\A i \in Runs : run'[i].pc = "done" /\ run[i].pc # "done" /\ ~run[i].overtaken =>
          FindingsAgree']_vars

(***************************************************************************)
(* With the export on, no finding event is lost: it is still pending or    *)
(* its object has been written, wherever publishers stop.                  *)
(***************************************************************************)
EventsExported ==
    Export => \A h \in history : h \in pending \/ h \in objects
=============================================================================
