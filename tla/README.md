# Portscanner: TLA+ models, checks and proofs

This directory holds TLA+ specifications of Portscanner, TLC instances that
model-check them, and TLAPS proofs. Every definition is written from the code
under `src/`; `PROJECT.json` maps each one to the lines it models. Paths below
are relative to `src/`.

## 1. The system

| Component | State it keeps | Operations | Talks to |
|---|---|---|---|
| inventory state store (`inventory/.../state.py`) | DynamoDB rows: one row per target (generation, status, content signature, watermark `observed_at`, AWS Config capture versions), one outbox row per event, one claim per signal | `reconcile`, `confirm_config_versions`, `remove`, `enqueue_coverage`, `list_current`, `claim_signal`, `release_signal` | called by the inventory Lambdas; its stream feeds the outbox Lambda |
| snapshot Lambda (`handlers/snapshot.py`, `aws/ec2_snapshot.py`, `aws/config_snapshot.py`) | only local: the batch, the ids observed | list the provider, reconcile, revalidate, remove or confirm | EC2 or AWS Config, the store, ownership validation |
| signal Lambda (`handlers/signals.py`, `aws/resolve.py`) | local; a claim in the table | resolve the hint live, claim, reconcile, check candidates | EC2, the store, ownership validation |
| rescan Lambda (`handlers/rescan.py`) | local: the rows listed | one coverage event per active row and bucket | the store |
| ownership validation (`aws/ownership.py`) | none | row, provider, row again, verdict | the store, EC2 |
| outbox Lambda (`handlers/outbox.py`) | delivery marks on outbox rows | put the event object, send to the target queue and a scan queue, mark; replay | S3, SQS |
| generator (`generator/`) | a claim per event (state, owner, lease, attempts) | acquire, revalidate, cancel, create, complete, retry | SQS, DynamoDB, ownership, Kubernetes |
| operator (`operator/`) | Scanner and Job resources | reconcile: finalizer, deadlines, cancel, status, TTL | Kubernetes |
| scan worker (`scanner/nmap/`) | one attempt: phases, budget | discovery, enrichment, raw-first publication | Nmap, S3 |
| parser (`parser/`) | PostgreSQL: target projection, attempts, exposures, findings, handoff outbox | apply target event, ingest result, publish findings | SQS, S3, PostgreSQL |
| processor (`processor/`) | none of its own | scheduled reconciliation of all findings, publication of pending handoffs | PostgreSQL, S3 |
| migrator (`db/migrator/`) | applied migrations | apply in order under an advisory lock | PostgreSQL |

What is hard here:

- **Read, decide, conditional write.** Every store operation reads a row without
  a lock and writes back under a condition on some of its fields, from any number
  of Lambda invocations at once.
- **Several clocks.** A direct EC2 read, an AWS Config interface capture and a
  group capture of the same target arrive apart and out of order.
- **Failure everywhere.** A transaction may take effect and its response be lost;
  an invocation may be killed between any two calls; a listing may stop early.
- **At-least-once delivery.** Signals, outbox rows and scan events are delivered
  again, late, and to concurrent invocations.
- **Late caches.** The operator decides on informer caches and writes to the API
  server without a resource version.
- **Evidence over time.** A scan is two Nmap runs over a host that changes, under one
  cutoff, cut short at any moment; what may close a port must be a proof.
- **Check then act.** The generator verifies ownership and then creates a
  Scanner; a target may be re-announced or removed between the two.

The properties that make it correct: an event stream with one event per
generation and no gap; removals only of what really left; an acknowledged signal
that was applied; rows that converge on the provider; one holder per scan event;
no scan left running for an event that was refused; every event delivered, and its
object readable first; a Job kept until its end was read, and Scanners that end; an
envelope that refers only to what is there and claims no more than was seen; and,
downstream, exposures that are never opened or closed by a result of another
generation. `hazards` in
`PROJECT.json` lists where each can go wrong.

## 2. Modules

```
TargetLedger  <--implements--  StateStore  <--EXTENDS--  Inventory
EventChannel  <--implements--  OutboxDelivery
ExposureView  <--implements--  ExposureProjection
PortCoverage  <--EXTENDS--  ScanWorker  <--EXTENDS--  ResultParsing

Specification        Instance for TLC     Theorems
TargetLedger                              TargetLedgerProofs
StateStore           MC_StateStore        StateStoreProofs  (uses TargetLedgerProofs)
Inventory            MC_Inventory         InventoryProofs   (uses StateStoreProofs)
OutboxDelivery       MC_Outbox            OutboxProofs
ScanDispatch         MC_ScanDispatch      ScanDispatchProofs
ScannerOperator      MC_Operator          OperatorProofs
ResultParsing        MC_Scan              ScanProofs
ExposureProjection   MC_Projection        ExposureProofs
```

They follow the path of a target: StateStore and Inventory write events,
OutboxDelivery delivers them, ScanDispatch turns them into Scanners, ScannerOperator
a Scanner into a Job, ScanWorker is the pods of the Job, ResultParsing reads what
they publish, and ExposureProjection keeps what target events and results say. Each
link is modelled with the freedom the one before it leaves: repeated, late and
reordered events in ScanDispatch and ExposureProjection; results of any outcome in
ExposureProjection, of which ResultParsing says what an authoritative one has seen.

**TargetLedger** says what the store promises: per target, a row of generation,
status and content, and a set of events. `Announce`, `Retire` and `Cover` are
atomic. It knows nothing of reads, conditions, watermarks or versions.

**StateStore** is `DynamoStateStore`. `item[t]` is the `TARGET#t` row, `outbox`
the set of `OUTBOX#` rows, `call[c]` the store call that Lambda invocation `c` is
in. Every operation is split where the code awaits DynamoDB: `CallReconcile`,
`ReconcileGet` (the read and the early returns), `ReconcilePut` (the conditional
transaction: success, conditional failure and retry, or an error whose write may
have happened), and likewise for `confirm`, `remove` and `enqueue_coverage`.
`Unmoved` is the condition expression, `Reconciled`, `Confirmed` and `Removed`
build the row to be written, `ReasonFor` and `EventFor` the event.
`Abandon` is a killed or finished invocation. Contents are records of address,
instance state, groups and policy; `life = "unknown"` is what AWS Config, or a
partial EC2 listing, reports, and `PreservingKnownLifecycle` merges it.

**Inventory** extends the store with the Lambdas that use it: `job[c]` is the
program counter and locals of an invocation, `live` the provider, `capture` what
AWS Config has recorded, `claims` the signal claims. The EC2 backend lists groups,
interfaces and instances in three steps and the provider may change in between;
the Config backend reads captures that lag separately. Validation is three steps
(row, provider, row). Store calls are the actions of StateStore, so the two
interleave exactly as the code does. `QuietFrom` bounds the time of faults and
provider changes, so that convergence can be stated. `left` is history: the targets
that have at some time not been at their address, or not been running; removing any
other is wrong.

**EventChannel** says what delivery promises: an event is announced on a queue only
when its object can be read, and settled only when every queue it is meant for has
carried it. **OutboxDelivery** is the outbox Lambda: `row` and `index` are the table
and its late secondary index, `stream` the records that are neither checkpointed nor
trimmed, `object` and `sent` what S3 and SQS have, `job[p]` the invocation on each of
the two paths. `dispatch_record` is split at its calls: `PutObject` (with the
verification of an object that exists), `SendTarget`, `SendRouted`, `MarkDelivered`.
`CallFails` is a call that fails before or after its effect, `InvocationLost` a killed
invocation, `StreamReturns` the partial batch response and what Lambda checkpoints,
`StreamInvoke` the first records of the stream, a whole batch or fewer, `ReplayInvoke` one
page of the index: its first rows in event id order. `Poison` rows stand for every row that
`dispatch_record` always refuses.

**ScannerOperator** is `Reconcile` for one Scanner and the Job of its name. `scanner`
and `job` are the API server's objects; `seenScanner` and `seenJob` the caches, which
take the versions of `scannerWatch` and `jobWatch` one by one. `FirstCall` and
`AfterJob` decide from the caches; each call to the API server is then a step
(`AddFinalizer`, `StopJob`, `CreateJob`, `ReportStatus`, `TerminalRelease`,
`TerminalDrop`, `TerminalTTL`, and `FinalStop`, `FinalRelease`, `FinalCheck` of a
deletion). `Merge` is the status patch: the fields that differ from the copy at hand,
without a resource version. Users cancel and delete, the cluster starts, ends and
deletes the Job, a foreign Job may hold the name, calls fail, the manager restarts. A
spec is valid, has bad deadlines (refused on every reconcile), or is refused by
`buildJob`. The pod template is data.

**PortCoverage** is the normalization of a list of port ranges (sort, then merge from left
to right), as operators, with the length of its text as an argument of Nmap. **ScanWorker**
is the pods of a Job, one per attempt: `worker[a]` is a pod's program counter, its files
and what it will report, `object[a]` the S3 objects under its prefix, `open` the host's
ports. An XML file is absent (or empty), torn, short (well-formed without proof of
coverage) or whole, with the ports it shows open; a reference carries the digest of the
file, so it is the file. `DiscoveryExits`, `EnrichmentExits`, `NmapFails` and `NmapStopped`
are the ends of an Nmap process (one that a signal killed leaves a negative exit code
behind, `signalled`), `DiscoveryCheck`, `StartEnrichment` and `FinalCheck` the decisions of
`execute_scan` between them, `PutRaw` and `PutEnvelope` the publication, each put
conditional and able to fail with or without its effect. `ContractValid` is what the result
models check of an envelope before it is written, within a field (`ExitCodeValid`,
`CommandsValid`) and across fields; an envelope that fails it is never written. `Terminate`
is the signal, `Kill` the end without warning. The host changes only while Nmap runs and
the clock moves only where it can be read: other moments would make no difference.
**ResultParsing** adds the parser's handler: `Process` is `_process_scan_result`,
`LoadComplete` and `LoadPartial` what it makes of the two kinds of envelope, `Handle` a
delivery with its partial failure. A message that is refused for good stays in the queue
like one that is retried; the redrive to the dead-letter queue is left out.

**ScanDispatch** is the generator from the delivery of an event to its audit
state: the claim protocol (`PutClaim`, `ReadClaim`, `TakeClaim`,
`ClassifyAfterRace`), the row and live checks, cancellation (exact, or list and
delete one by one), the deadline check, the create, `Complete` and `RetryClaim`.
`Raises` is any failing call, `Crash` a killed invocation. Scanners are what the
Kubernetes API has, with deletion that takes time (`ScannerGone`). The inventory
rows are an environment here (`RowAdvances`), restricted to what StateStoreProofs
shows: generations only grow. `ended` is history: when the row left each generation.

**ExposureView** says what the projection of a target promises: an owner that only moves
forward, evidence that goes with it, and ports decided by the last result of the present
generation that covers them, unless that result is overdue: dated no later than an older
generation's scan of the port, or than an announcement that closed it. It knows nothing of
rows, watermarks or the state a closure leaves behind. **ExposureProjection** is the
parser's PostgreSQL projection of one target. `target`, `applied`, `ingested`, `exposure`,
`finding`, `history` and `pending` are its tables. `apply_target_event` and `ingest_scan`
take the target row `FOR UPDATE` first, so each is one step (`ApplyTargetEvent`,
`IngestScan`); `EventOf` and `ScanOf` are what was sent, and any subset of it arrives in
any order. `reconcile_all` takes no such lock and is split at its statements: `StartRun`
lists the keys, `ReadRules`, `ReadExposure` and `ReadTarget` read, `ReconcilePort` locks
and decides the findings of a port, `CommitRun` makes the writes visible, `RunFails` rolls
back. `Unlocked` is what the locks of a run keep out: the findings it has locked, and the
whole target once it inserted a finding event, whose foreign key locks the target row. A
second run that would insert a finding the first one has inserted waits and then fails on
the unique key; the model lets it read the committed row instead, and `RunFails` is
possible as well. `PutObject` and `MarkHandoffPublished` are the handoff publisher. `jumps`
is history: the events that were applied over a gap in the generations without being the
announcement of a returned target. `closers` is history too: the events that closed each
port, whose times its watermark may have.

Definitions whose comment starts with "Mutant:" are altered forms of a
definition, each a plausible bug; `PROJECT.json` says which property finds each.

## 3. Runs

| Run | Question | Result |
|---|---|---|
| `store` | Do the conditional writes make one history of generations out of interleaved, failing, repeated calls? Does the store implement the ledger? Do watermarks and capture versions only advance? | holds |
| `inventory_ec2` | EC2 snapshots and signals racing: are signals applied before they are acknowledged, are store calls legal, do rows converge? | holds |
| `inventory_config` | Lagging captures, incomplete batches, signals and rescans: is anything removed that never left, does a finished rescan cover every row that stayed at its generation? | holds |
| `outbox` | Stream and replay deliver the same rows: do they implement the channel, does a checkpoint mean delivery, is every row that can be delivered delivered? | holds, while fewer rows than a page are refused for good |
| `dispatch` | One holder per event, no Scanner left for a refused event, none created for a generation that ended more than an invocation ago | holds |
| `dispatch_settles` | With a lease shorter than an invocation, is an audit state still final, and does every event get one once calls succeed? | holds |
| `dispatch_crash` | Is a Scanner whose create was not acknowledged adopted by the retry? | not past the deadline (finding 1) |
| `operator` | Late caches, cancellations, deletions, restarts: does every outcome have its cause, does a Job outlive its deletion until it was reported, is a Job left behind only if unseen, does every Scanner end? | holds |
| `scan_evidence` | Pods that are stopped, killed or out of time, lost uploads, a host that changes: do references resolve, is every envelope accepted and ingested, is the right to close ports earned, does the exit code tell what S3 holds and is every missing envelope explained, does Nmap leave the reserve, do pods end? | holds |
| `projection_evidence` | Target events and results in any order: does the projection keep to the current owner and the last scan, and implement the view? | holds; the scan that does not decide is one that `Outdated` names |
| `projection_runs` | Two reconciliation runs against events, results, a rule edit, each other and publishers that stop: repair by an undisturbed run, gapless finding histories, no finding event lost | holds |
| `projection_late_scan` | Does the last scan of the current generation decide a port? | not if one of the old generation ended later (finding 2) |

Bounds. One target is enough for the store and the Lambdas: no operation relates two rows.
Two invocations are what a race needs; the proofs cover any number. Three observation times
let a write be older than, equal to and newer than another, and `MaxRetries = 2` lets a
call lose once and win, or lose twice. In `store` the observations are two captures that
cannot be ordered, one that can, and a direct read. `MaxClock` 2 or 3 gives a first state,
a change, and a quiet period after it. In `dispatch`, three generations with a scan, an
out-of-scope event and a removal, two workers, and clocks for a lapsed lease and a passed
deadline. In `outbox`, three rows, one of each route and one that is always refused,
batches of two, and a failed call or lost invocation. In `operator`, time 0 to 2 has a
moment before the cutoff, the cutoff and a time to live, a cache is up to one version
behind, two Jobs can be created and two faults happen; the same properties held with
`MaxClock = 3`, and with a lag of two versions and one fault. In `scan_evidence`, two pods,
since one attempt meets another only over keys and budget; open sets that are empty, one
range, two ranges where one is the limit, and one whose list is a character longer than
`MaxArgument = 4`; timeouts that end before and at the cutoff; one change and one fault,
which may be a signal, a kill, a lost upload or a lost delivery (one pod with two changes
and three faults, and two pods with two faults and no change, passed as well). `MCBecomes`
lists the changes of the host that the instance has; the specification and the proofs allow
any (`Becomes`). Coverages are all lists of three ranges over five ports: nested, equal,
adjacent and apart. In `projection_evidence` the six events and eight results are a whole
life of a target, with each kind of event, a rescan scheduled among the scans of its
generation and able to overtake the change, a last change that can jump over the removal
and the return before it, an old scan that ends late, equal completion times, partial
coverage and an incomplete result; there are no runs in it, since a run changes no
evidence. One target suffices since every statement is restricted to a target (a run visits
targets one after the other and the rows of two targets do not meet). Two ports let a run
hold one and read another; two runs, in `projection_runs`, meet on one. Symmetry is used
only in runs of invariants and action properties whose constants treat the permuted
invocations alike.

Fairness. `FairInventory`: Lambda runs an invocation to its end unless it dies
(weak fairness of its steps), time passes, and EventBridge keeps invoking the
snapshot; no fairness is assumed of signals. `FairDispatch`: SQS redelivers an
unacknowledged message (strong fairness of `Deliver`, because an event is
deliverable only while no invocation has it), invocations run, and the operator's
finalizer finishes deletions. `FairOutbox`: the replay rule fires every five minutes, an
invocation of it that is not lost runs to its end, and the index catches up; nothing is
assumed of the stream, which a refused record holds up until it is trimmed. `FairOperator`: the
controller works off its queue, informers deliver, time passes, the cluster starts Jobs
and stops them at their deadline; users owe nothing, and a Job need not end by itself.
`FairScan`: time passes, a live worker takes its own steps, and SQS delivers a message
again; Nmap is not assumed to end. The dead-letter queue after five receives is left
out: the runs say what happens while redelivery goes on.

## 4. Findings

1. After a create whose response was lost, the retry checks the dispatch deadline
   before it would meet the 409 that adopts the Scanner; past the deadline it
   deletes the running Scanner and audits EXPIRED (`dispatch_crash`).
2. A closure for a change of address takes the new generation and keeps the time of
   the old generation's last scan. A scan of the new generation that completed
   before it is discarded and the port stays closed. It takes a delayed target
   event and two overlapping scans (`projection_late_scan`).

Observations. What else the models showed of the code, and how the properties above are
stated because of it; no run reports them.

- *Captures and direct reads.* `reconcile` compares a Config observation only with
  stored capture versions, and a direct read that finds a component unchanged keeps its
  old version (`preserving_component_versions`). A late capture can therefore advance
  the vector although the row's watermark is newer, and replace the content. Watermark
  and versions never go back (`WatermarkMonotone`, `CaptureVersionsMonotone`); the next
  revalidation or direct read repairs the row.
- *Superseded Scanners.* The last revalidation and the create are two steps. A newer
  event can be handled in between, and the older Scanner then appears after the
  cancellation that should have removed it. `NoLateScanner` says that this is over one
  Lambda timeout after the row moved on; the operator's deadline bounds the Scanner's life.
- *Removal during a reconciliation run.* A run reads exposure and target before it locks
  the findings. A removal in between is undone for the finding: it is open although the
  target is removed, until the next run (`RunRepairs`). `act.current_findings` hides it,
  its event and its handoff do not.
- *Overtaken announcement.* Only the announcement of a returned target closes what its
  earlier life left open. A rescan or a change that arrives first, at the same address,
  jumps over the removal and the announcement, and nothing closes the old exposures until
  a scan does; `test_non_reactivation_generation_gap_preserves_current_state` pins this.
  The proof of `NoExposureAcrossRemoval` showed that a later generation's change does it
  as well as a rescan of the announced one, so the property names the exception by its
  cause (`jumps`), and holds for every order of arrival.
- *Lease and timeout.* Both are settings (by default a lease of 120 s and a Lambda timeout
  of 60 s) and nothing in the code relates them. `DispatchExclusive` and `DispatchRefuses`
  have `Timeout < Lease` as a hypothesis; `dispatch_settles` runs without it.
- *A second Job.* `scanner_types.go` says "at most one Kubernetes Job". A Job that is
  deleted is reported as a failure, released and gone; a reconcile whose copy of the
  Scanner is older than the Job's first status then sees neither and creates another.
  `ProtectedUntilReported` is stated up to the first report for this reason.
- *A Job left behind.* A Scanner deleted while the cache has not yet shown its new Job is
  let go over it, and the Job's finalizer has nobody left to release it
  (`OrphanOnlyIfUnseen` says that this is the only way).
- *Outcomes can be overwritten.* The status patch has no resource version, so a reconcile
  on an old copy can write Running over a terminal outcome; a later one reports an end
  again.
- *A rescan that overtakes its change.* A rescan is dated at its schedule
  (`handlers/rescan.py:63`). If it reaches the projection before the change of address that
  its generation began with, it is the rescan that closes the old exposures, and the closure
  takes its time. A scan of the change that ended before the schedule is then discarded
  (`database.py:766`), although scans end in the order of their generations, and the port
  stays closed until the next scan. It is finding 2 with another cause; `Outdated` names both.
- *Results that break their contract.* Nmap killed by a signal has a negative exit code
  (`nmap.py:364-366`) and the result allows 0 to 255 (`models.py:354`); many open ports can
  make a `-p` argument of more than the 2048 characters a command allows
  (`models.py:1136`), after a complete scan too. The envelope is then not created and the
  pod ends without one (`worker.py:513`), although `scanner/nmap/README.md` says of a failed
  scan that it uploads one. `ExitTellsOutcome` names the two cases (`Publishable`) and says
  that they leave none.
- *Refused coverage.* When the open ports need more ranges than a coverage may have,
  `PortCoverage.from_ports` raises an error that is no phase failure: the worker exits
  without publishing, neither raw XML nor an envelope. `ExitTellsOutcome` states the
  code's behaviour.
- *Lost S3 answer.* An upload that was stored and whose answer was lost is met by the
  client's own retry as an existing key. The attempt exits with an error although the
  envelope, even a complete one, is there, and is ingested. Hence only one direction of
  `ExitTellsOutcome` for an attempt that lost an upload.

## 5. Proofs

TLC looks at the instances of section 3; the theorems below hold for every value of the
constants that satisfies the named assumptions: any number of targets, invocations,
events, pods, ports and faults. Each rests on an inductive invariant, which is given
because the property alone is not inductive; TLC checked the invariants on instances first.
Type invariants that a theorem states for dispatch, scans and projection are in no run.

**Store** (`TargetLedgerProofs`, `StateStoreProofs`).

- `StoreTyped`, and `StoreFenced` (`ReadIsPast`): whatever a call has read is a past state
  of its row, with equal content if the generation is equal. This is the heart of the
  argument: the put is conditional on generation, status, watermark and versions and *not*
  on the content, so a put is right only because a row with the same generation has the
  same content. With the types it is the inductive invariant `StoreInv`.
- `StoreMonotone` (`WatermarkMonotone`): no write moves a watermark back.
- `StoreVersions` (`CaptureVersionsMonotone`): no component goes back to an older capture.
  `VersionInv` adds that rows and observations carry versions of their own groups only,
  and that a reconcile about to write has compared the row it holds.
- `StoreImplementsLedger` (`ImplementsLedger`): every store step is a step of TargetLedger
  or leaves its variables alone. With `ReadIsPast` a successful put sees the row the
  ledger has, so it is one `Announce`, `Retire` or `Cover`; a put of the same content, a
  confirmation, a lost race and an error without effect stutter, and an error with effect
  is the step itself.
- `LedgerCorrect`: one event per generation, `new_target` exactly after nothing or a
  tombstone, coverage only of active generations; its invariant adds that the event of the
  current generation describes the row. `StoreStream` transfers it to the store.

**Handlers** (`InventoryProofs`). `HandlerInv` says of each invocation what it holds at its
program counter (`Placed`, `Direct`), that the generations it listed are past ones
(`Listed`), and that the store call in flight is the one it made (`Tied`).

- `InventoryUsesStore` (`UsesStore`): every handler step is a step of the store or none of
  its business, so all the theorems above hold under the handlers; `InventoryStream` states
  the one about events.
- `InventoryRemovals` (`NoFalseRemoval`): `OwnershipInv` follows the address of a target
  that never left from the provider and the captures through listings, observations, store
  calls and rows to the expectation of every check (`Sure`): each of them is the address
  the target still has, so no check can find it gone.
- `InventoryRescans` (`RescanComplete`): `RescanInv` says that a listed row that is no
  longer to do is covered or superseded, and that a coverage call past its conflict, or
  answered, has covered its generation. It uses that the row of a listed generation is
  active as long as it has that generation.
- `InventorySignals` (`SignalAppliedBeforeAck`): `SignalInv` says which rows are already as
  fresh as the signal, and that an answer other than a race or an error leaves one.

**Delivery** (`OutboxProofs`). `OutboxInv` says what the calls behind an item have left
(`Prepared`: at the first send the object is the event's own, at the mark both messages
are out) and that the stream's batch is the items to do after those delivered or failed
(`Accounted`).

- `OutboxDelivers` (`CheckpointMeansDelivered`) and `OutboxImplementsChannel`
  (`ImplementsChannel`): the two paths, interleaved and failing as they may, are steps of
  EventChannel.

**Dispatch** (`ScanDispatchProofs`). `DispatchInv`: an invocation lives no longer than its
timeout (`Timely`), holds the claim it took with the lease it asked for or has lost the
answer to its audit (`Held`), and has deleted the Scanner before it audits a refusal
(`Disarmed`).

- `DispatchTyped` (`DispatchTypeOK`) and `DispatchFinal` (`TerminalIsFinal`), with no
  condition on the lease.
- `DispatchExclusive` (`OneHolderPerEvent`) and `DispatchRefuses` (`RefusedDoesNotScan`),
  if `Timeout < Lease`: another invocation can take a claim only after its lease, when the
  holder has been stopped.
- `DispatchGated` (`NoLateScanner`), with no condition on the lease. `GateInv`: an
  invocation past its last check has made it in its own lifetime, so its generation is
  current or ended after the invocation began (`Gated`); the timeout does the rest.

**Operator** (`OperatorProofs`). The invariant must say what a cached copy is worth.
`ScannerSeen` and `JobSeen` state it for the copy in the cache and for every version on its
way: cancellation, deletion, the finalizer, completion and outcomes that a copy shows are
still true of the object, or it is gone. `Grounded` says what the reconcile under way has
established, `Bound` relates Scanner and Job.

- `OperatorTyped` (`OperatorTypeOK`), `OperatorEarns` (`OutcomeIsEarned`),
  `OperatorProtects` (`ProtectedUntilReported`), `OperatorOrphans` (`OrphanOnlyIfUnseen`).

**Scans** (`ScanProofs`). `ScanInv` says of each pod what its files show of the host
(`Observed`), what is in S3 by its program counter (`Scanning`, `Publishing`), that its
envelope and exit code tell the truth (`Truthful`, `Exited`), that Nmap has a deadline
(`Timely`), and of the parser that it has read what the pod left (`Parsed`).

- `ScanTyped`, `ScanReferences` (`ReferencesResolve`), `ScanAccepted` (`NeverRejected`),
  `ScanAuthority` (`AuthorityIsEarned`), `ScanExits` (`ExitTellsOutcome`), `ScanInTime`
  (`NmapStopsInTime`). `ScanExits` has no exception but those it names: a lost upload, and
  a result the contract refuses, because Nmap was killed by a signal or an argument is too
  long (`Publishable`); for the latter it says that there is no envelope.
- `CoverageNormalized`, and `ScanCoverage` (`CoverageIsExact`): any list of ranges, of any
  length, is normalized to the same ports, in disjoint ascending ranges that are not
  adjacent, with the right count. `LoopInv` says what the merged ranges cover after i terms
  of the sorted list, and that the next term starts no earlier than the last range. The
  inductions over the list (that it can be sorted, what the loop and the count do) are
  arguments about a least counterexample (`LeastOf`), which the prover can follow.

**Projection** (`ExposureProofs`). `ProjectionInv`: rows and runs have their types; what a
run will write continues the finding as it still is, because the run has locked it, and no
two runs hold a port (`Locks`); open exposures are the owner's, and a removal since they
were seen, *arrived or not*, was jumped over (`Crossing`). The removal that has not arrived
is what makes the property inductive.

- `ProjectionTyped` (`ProjectionTypeOK`), `ProjectionLatest` (`TargetIsLatest`),
  `ProjectionOwned` (`OpenIsOwned`), `ProjectionRemovals` (`NoExposureAcrossRemoval`),
  `ProjectionHistory` (`FindingHistory`), `ProjectionExports` (`EventsExported`).
- `ProjectionRepairs` (`RunRepairs`): a run that nothing overtakes has read what is still so
  and has made every port it is past agree with it (`OnTrack`).
- `ProjectionFollows` (`LastScanDecides`), with no condition on the times of events and
  scans: the last scan of the current generation to cover a port decides it, unless it is
  dated no later than an older generation's scan of the port or an event that closed it
  (`Outdated`). Finding 2 and the rescan that overtakes its change are one instance of
  each; the theorem says that there is no third way. `Ordered` says where the time of a row
  comes from (`Dated`, `Sourced`): the attempt that wrote it, a scan of an older
  generation, or an event that closed the port. If it keeps out the last scan to cover the
  port, the attempt that wrote it is no later scan of the same generation, so one of the
  other two is the cause.
- `ProjectionImplementsView` (`ImplementsView`), without condition as well: an applied event
  is an `Announce` (`ApplyAnnounces`), an eligible result a `Report` (`IngestReports`), and
  everything else, reconciliation and publication included, leaves the view alone. The
  watermarks of the rows are replaced by the results counted and the announcements that
  closed ports, so `Ordered` has to show that a row's watermark keeps a result out only
  where the result is not the last to cover the port or is overdue.

**Assumptions** on the constants, each evaluated by TLC on the instances:

- *StoreAssumption*, *LifecycleAssumption*: times are positive naturals, at least one target,
  content and attempt; contents are closed under replacing the instance state, as
  `preserving_known_lifecycle` does.
- *ObservationAssumption*: an observation has versions of its own groups only, which
  `NormalizedTarget` validates (`aws/normalize.py:404`).
- *InventoryAssumption*, *BackendAssumption*: which callers run which Lambda; the
  observations include what either backend can make of an interface, a policy and a time.
- *StreamAssumption* (projection) and the clause on removals of *DispatchAssumption*: the
  events of one generation are of one kind and, for the projection, about one address,
  which are `OneEventPerGeneration` and `CoverageFenced`, proved above.
- *WorkerAssumption*: each phase timeout is at least the minimum execution time, the grace
  of a stopped process fits in the reserve.
- The others give the constants their types.

Only model-checked: liveness, which the prover cannot do (`Convergence`, `EventsSettle`,
`RowsDelivered`, `ScannerEnds`, `PodsEnd`, `PublishedIsIngested`).

## 6. Left out

Canary requests and the CIDR filter narrow a batch or reject a request before any
state changes. Event validation in the generator (`event_reader.py`) rejects an
object before the claim. Item TTLs are longer than any history the models look at
(claims 30 days; Scanners 3600 s against five deliveries 360 s apart). Identifiers
derived by hashing are taken to be injective.

The migrator applies files in name order, each in one transaction, under one advisory lock
for its whole run: PostgreSQL serializes it and no interleaving of its own is left.
Configuration, AWS sessions and client construction build values that do not change. Of the
worker, argument parsing, the building of Nmap's command line and the authorization of the
target decide before anything runs. Of the contracts, the conditions that relate fields are
modelled, and those on one field that a worker's own result can break, which are the exit
code and the length of an argument; the other conditions on one field are met by how the
worker builds it. The order of a result's timestamps is one of the former that is left out:
the node's clock is taken not to go back within a pod. Service identities and script output
are data, and `open|filtered`, which a TCP connect scan does not report and the projection
does not act on, is not among the states of a port. In ScannerOperator `spec.cancel` is
only ever set: a user who clears it again is left out. The pod template, Terraform, Helm
and the sanitizer of the repository (`tools/`) have no behaviour at run time to check.

## 7. Plan

ScanDispatch composed with ScannerOperator would state in one formula what now takes two:
how late a Scanner can be created for a superseded generation (`NoLateScanner`) and that
every Scanner ends (`ScannerEnds`).
