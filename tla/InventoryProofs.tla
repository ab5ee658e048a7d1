-------------------------- MODULE InventoryProofs --------------------------
(* The inventory Lambdas use the store as StateStore lets its callers, for *)
(* any number of targets, invocations and signals, and what follows.       *)
EXTENDS Inventory, StateStoreProofs

Policies == {c.policy : c \in Contents}
PartOf(S) == UNION {[ts -> S] : ts \in SUBSET Targets}

Loop == {"observed", "absent"}
Collecting == {"groups", "interfaces", "instances", "captures", "resolve"}
Checking == {"revalidate", "live", "final"}
Waiting == {"reconciling", "relive", "removing", "confirming", "covering"}

Job == [pc: {"idle", "claim", "candidates"} \cup Loop \cup Collecting \cup Checking \cup Waiting,
        phase: Loop, now: Nat, batch: PartOf(Observations), seen: PartOf(Contents \cup Policies),
        complete: BOOLEAN, gens: PartOf(Nat), todo: SUBSET Targets, t: Targets,
        expected: Contents \cup {Gone}, signal: Signals \cup {"none"}, bucket: Buckets \cup {0},
        unapplied: SUBSET Targets]

Capture == [eni: Provider, eni_at: 0 .. MaxClock, policy: Policies, grp_at: 0 .. MaxClock]

World ==
    /\ live \in [Targets -> Provider] /\ clock \in 1 .. MaxClock
    /\ capture \in [Targets -> Capture]
    /\ \A t \in Targets : capture[t].eni # Gone => capture[t].eni_at # 0

(* The generations a job read, and the rows now.  What list_current        *)
(* returned was active then.                                               *)
Listed(j, rows) ==
    \A t \in DOMAIN j.gens :
        /\ j.gens[t] \in 1 .. rows[t].generation
        /\ (j.phase = "absent" \/ j.signal # "none") /\ j.gens[t] = rows[t].generation =>
              rows[t].status = "active"

(* What an invocation holds, by where it is.                               *)
Placed(j) ==
    /\ j.pc # "idle" /\ j.bucket = 0 => j.now \in Times
    /\ j.bucket # 0 => j.pc \in {"absent", "covering"} /\ j.phase = "absent" /\ j.signal = "none"
    /\ j.pc = "covering" => j.bucket # 0 /\ j.t \in DOMAIN j.gens
    /\ j.pc \in {"idle", "claim", "candidates", "reconciling", "revalidate"} \cup Collecting =>
          j.phase = "observed"
    /\ j.pc = "captures" => Backend = "config"
    /\ j.pc = "confirming" => j.phase = "observed"
    /\ j.pc \in Loop => j.phase = j.pc
    /\ j.pc = "interfaces" => \A t \in DOMAIN j.seen : j.seen[t] \in Policies
    /\ j.pc = "instances" => \A t \in DOMAIN j.seen : j.seen[t] \in Contents
    /\ j.phase = "observed" /\ j.pc \notin Collecting => j.todo \subseteq DOMAIN j.batch
    /\ j.phase = "absent" => j.todo \subseteq DOMAIN j.gens
    /\ j.phase = "observed" /\ j.pc \in Checking \cup Waiting => j.t \in DOMAIN j.batch
    /\ j.pc \in Checking \cup {"removing"} => j.t \in DOMAIN j.gens
    /\ j.pc \in {"live", "final"} => j.expected # Gone
    /\ j.pc \in {"resolve", "claim", "candidates"} => j.signal # "none"

(* A signal holds direct reads of its own time, which never need to be     *)
(* revalidated.                                                            *)
DirectAt(o, at) == ~IsConfig(o) /\ o.observed_at = at

Direct(j) ==
    j.signal # "none" =>
        /\ \A t \in DOMAIN j.batch : DirectAt(j.batch[t], j.now)
        /\ j.pc \notin {"groups", "interfaces", "instances", "captures"}
        /\ j.phase = "observed" => j.pc \notin Checking \cup {"relive", "removing", "confirming"}

Fit(j, rows) == j \in Job /\ Placed(j) /\ Direct(j) /\ Listed(j, rows)

(* The store call k an invocation waits for is the one it made.            *)
Tied(j, k) ==
    /\ k.pc # "idle" => j.pc \in Waiting
    /\ j.pc \in Waiting => k.target = j.t
    /\ j.pc \in {"reconciling", "relive"} => k.op = "reconcile"
    /\ j.pc = "removing" => k.op = "remove"
    /\ j.pc = "confirming" => k.op = "confirm"
    /\ j.pc = "covering" => k.op = "coverage"
    /\ j.pc \in Checking /\ j.phase = "observed" => k.op = "reconcile" /\ k.target = j.t
    /\ j.signal # "none" /\ k.pc # "idle" /\ k.op = "reconcile" => DirectAt(k.obs, j.now)
    /\ j.pc = "reconciling" /\ k.pc = "idle" /\ k.result = "revalidate" =>
          j.signal = "none" /\ Exists(k.row)

HandlerInv ==
    /\ StoreInv /\ World
    /\ job \in [Callers -> Job]
    /\ \A c \in Callers : Fit(job[c], item) /\ Tied(job[c], call[c])

-----------------------------------------------------------------------------
(* What is recorded of a target is its address, unless it has left.        *)
Sure(t, content, now, gone) ==
    t \in gone \/ (now[t] # Gone /\ content.ip = now[t].ip)

(* The rows, the captures and the events.                                  *)
OwnedRows ==
    /\ \A t \in Targets : Exists(item[t]) => Sure(t, item[t].content, live, left)
    /\ \A t \in Targets : capture[t].eni # Gone => Sure(t, capture[t].eni, live, left)
    /\ \A t \in Targets \ left : live[t] # Gone => live[t].life = "running"
    /\ NoFalseRemoval

(* What an invocation holds.                                               *)
OwnedJob(j, now, gone) ==
    /\ \A t \in DOMAIN j.batch : Sure(t, j.batch[t].content, now, gone)
    /\ j.pc = "instances" => \A t \in DOMAIN j.seen : Sure(t, j.seen[t], now, gone)
    /\ j.pc \in {"live", "final"} => Sure(j.t, j.expected, now, gone)

OwnedCall(k, now, gone) ==
    /\ k.pc # "idle" /\ k.op = "reconcile" => Sure(k.target, k.obs.content, now, gone)
    /\ k.pc # "idle" /\ k.op = "remove" => k.target \in gone

OwnershipInv ==
    /\ OwnedRows
    /\ \A c \in Callers : OwnedJob(job[c], live, left) /\ OwnedCall(call[c], live, left)

-----------------------------------------------------------------------------
(* Generation g of t has been superseded, or bucket b covers it.           *)
Covered(t, g, b, rows, events) ==
    rows[t].generation = g => EventFor(t, rows[t], "coverage", b) \in events

Covering(j, k, rows, events) ==
    j.bucket # 0 =>
        /\ \A t \in DOMAIN j.gens \ j.todo : Covered(t, j.gens[t], j.bucket, rows, events)
        /\ j.pc = "covering" /\ k.pc # "idle" =>
              k.generation = j.gens[j.t] /\ k.bucket = j.bucket
        /\ j.pc = "covering" /\ (k.pc = "reread" \/ (k.pc = "idle" /\ k.result # "error")) =>
              Covered(j.t, j.gens[j.t], j.bucket, rows, events)

RescanInv == \A c \in Callers : Covering(job[c], call[c], item, outbox)

-----------------------------------------------------------------------------
(* Row i is at least as fresh as a signal of time at.                      *)
Fresh(i, at) == i.observed_at >= at

Signalled(j, k, rows) ==
    j.signal # "none" =>
        /\ \A t \in DOMAIN j.batch :
              (j.phase = "observed" => t \notin j.todo) => Fresh(rows[t], j.now)
        /\ j.phase = "absent" =>
              \A t \in DOMAIN j.gens \ (DOMAIN j.batch \cup j.unapplied \cup j.todo) :
                 rows[t].generation > j.gens[t] \/ Fresh(rows[t], j.now)
        /\ j.pc = "removing" /\ k.pc # "idle" => k.obs.observed_at = j.now
        /\ j.pc \in {"reconciling", "relive", "removing"} /\ k.pc = "idle" =>
              k.result \in {"error", "race"} \/ Fresh(rows[j.t], j.now)

SignalInv == \A c \in Callers : Signalled(job[c], call[c], item)

-----------------------------------------------------------------------------
LEMMA PartTyped ==
    ASSUME NEW S, NEW f \in PartOf(S)
    PROVE  DOMAIN f \subseteq Targets /\ f \in [DOMAIN f -> S] /\ \A t \in DOMAIN f : f[t] \in S
<1>1. PICK ts \in SUBSET Targets : f \in [ts -> S]
  BY DEF PartOf
<1> QED
  BY <1>1

LEMMA PartIntro ==
    ASSUME NEW S, NEW ts \in SUBSET Targets, NEW f \in [ts -> S]
    PROVE  f \in PartOf(S)
BY DEF PartOf

LEMMA EmptyPart ==
    ASSUME NEW S
    PROVE  <<>> \in PartOf(S) /\ DOMAIN <<>> = {}
<1>1. <<>> \in [{} -> S] /\ DOMAIN <<>> = {}
  OBVIOUS
<1> QED
  BY <1>1 DEF PartOf

LEMMA NoJobFit ==
    /\ NoJob \in Job /\ NoJob.pc = "idle" /\ NoJob.phase = "observed" /\ NoJob.bucket = 0
    /\ NoJob.signal = "none" /\ NoJob.todo = {} /\ NoJob.batch = <<>> /\ NoJob.gens = <<>>
    /\ NoJob.unapplied = {}
    /\ \A rows : Fit(NoJob, rows)
<1>1. (CHOOSE t \in Targets : TRUE) \in Targets
  BY StoreAssumption
<1>2. Gone \in Provider
  BY DEF Provider
<1>3. NoJob \in Job
  BY <1>1, EmptyPart DEF NoJob, Job, Loop
<1>4. /\ NoJob.pc = "idle" /\ NoJob.phase = "observed" /\ NoJob.bucket = 0
      /\ NoJob.signal = "none" /\ NoJob.todo = {} /\ NoJob.batch = <<>> /\ NoJob.gens = <<>>
      /\ NoJob.unapplied = {}
  BY DEF NoJob
<1>5. DOMAIN NoJob.gens = {}
  BY <1>4, EmptyPart
<1>6. Placed(NoJob)
  BY <1>4 DEF Placed, Collecting, Checking, Waiting, Loop
<1>7. Direct(NoJob) /\ \A rows : Listed(NoJob, rows)
  BY <1>4, <1>5 DEF Listed, Direct
<1> QED
  BY <1>3, <1>4, <1>6, <1>7 DEF Fit

(* Rows only move forward under a job.                                     *)
LEMMA ListedStable ==
    ASSUME NEW j \in Job, item \in [Targets -> Item],
           item' \in [Targets -> Item], \A t \in Targets : Precedes(item[t], item'[t]),
           Listed(j, item)
    PROVE  Listed(j, item')
<1> SUFFICES ASSUME NEW t \in DOMAIN j.gens
             PROVE  /\ j.gens[t] \in 1 .. item'[t].generation
                    /\ (j.phase = "absent" \/ j.signal # "none") /\ j.gens[t] = item'[t].generation =>
                          item'[t].status = "active"
  BY DEF Listed
<1>0. t \in Targets
  BY PartTyped DEF Job
<1>1. /\ j.gens[t] \in 1 .. item[t].generation
      /\ (j.phase = "absent" \/ j.signal # "none") /\ j.gens[t] = item[t].generation =>
            item[t].status = "active"
  BY DEF Listed
<1>2. Precedes(item[t], item'[t]) /\ item[t].generation \in Nat /\ item'[t].generation \in Nat
  BY <1>0 DEF Item
<1> QED
  BY <1>1, <1>2 DEF Precedes

(* The record n an invocation goes on with.                                *)
LEMMA HandlerMoves ==
    ASSUME HandlerInv, NEW c \in Callers, NEW n, Fit(n, item), Tied(n, call'[c]), job' = [job EXCEPT ![c] = n],
           StoreInv', World', item' = item, \A d \in Callers \ {c} : call'[d] = call[d]
    PROVE  HandlerInv'
<1>1. n \in Job /\ job \in [Callers -> Job]
  BY DEF HandlerInv, Fit
<1>2. job' \in [Callers -> Job] /\ job'[c] = n /\ \A d \in Callers : d # c => job'[d] = job[d]
  BY <1>1
<1> QED
  BY <1>2 DEF HandlerInv

LEMMA JobTyped ==
    ASSUME HandlerInv, NEW c \in Callers
    PROVE  /\ job[c] \in Job /\ Placed(job[c]) /\ Direct(job[c]) /\ Listed(job[c], item)
           /\ Tied(job[c], call[c]) /\ call[c] \in Call /\ Sound(call[c], item)
           /\ StoreInv /\ StoreTypeOK /\ World
BY DEF HandlerInv, Fit, StoreInv, StoreTypeOK

(* A step that leaves the store alone.                                     *)
LEMMA StillStep ==
    ASSUME HandlerInv, NEW c \in Callers, NEW n, Continue(c, n),
           UNCHANGED <<item, outbox, call>>, UNCHANGED providerVars,
           Fit(n, item), Tied(n, call[c])
    PROVE  HandlerInv' /\ UNCHANGED storeVars
<1>1. UNCHANGED <<live, left, capture, clock>>
  BY DEF providerVars
<1>2. UNCHANGED storeVars
  BY DEF storeVars
<1>3. StoreInv'
  BY <1>2, StoreNextInv DEF HandlerInv
<1>4. World'
  BY <1>1 DEF HandlerInv, World
<1> QED
  BY <1>1, <1>2, <1>3, <1>4, HandlerMoves DEF Continue

LEMMA LocalStep ==
    ASSUME HandlerInv, NEW c \in Callers, NEW n, Continue(c, n), Local(c),
           Fit(n, item), Tied(n, call[c])
    PROVE  HandlerInv' /\ UNCHANGED storeVars
BY StillStep DEF Local

(* A step that makes a store call.                                         *)
LEMMA CallStep ==
    ASSUME HandlerInv, NEW c \in Callers, NEW n, Continue(c, n), Callable(c),
           UNCHANGED <<claims, providerVars>>, Fit(n, item), Tied(n, call'[c])
    PROVE  HandlerInv' /\ StoreNext
<1>1. StoreNext
  BY DEF StoreNext
<1>2. StoreInv' /\ Progress(c)
  BY <1>1, StoreNextInv, StoreNextProgress DEF HandlerInv
<1>3. item' = item
  BY DEF Callable, CallReconcile, CallConfirm, CallRemove, CallCoverage
<1>4. World'
  BY DEF HandlerInv, World, providerVars
<1>5. \A d \in Callers \ {c} : call'[d] = call[d]
  BY <1>2 DEF Progress
<1> QED
  BY <1>1, <1>2, <1>3, <1>4, <1>5, HandlerMoves DEF Continue

(* What a call is right after it was made.                                 *)
LEMMA ReconcileCall ==
    ASSUME StoreInv, NEW c \in Callers, NEW t \in Targets, NEW o \in Observations, CallReconcile(c, t, o)
    PROVE  /\ Callable(c) /\ call[c].pc = "idle"
           /\ call'[c].pc = "get" /\ call'[c].op = "reconcile" /\ call'[c].target = t
           /\ call'[c].obs = o
<1>1. call \in [Callers -> Call]
  BY DEF StoreInv, StoreTypeOK
<1> QED
  BY <1>1 DEF CallReconcile, Callable, NoCall, Idle

LEMMA ConfirmCall ==
    ASSUME StoreInv, NEW c \in Callers, NEW o \in Observations, CallConfirm(c, o)
    PROVE  /\ Callable(c) /\ call[c].pc = "idle"
           /\ call'[c].pc = "put" /\ call'[c].op = "confirm" /\ call'[c].target = call[c].target
<1>1. call \in [Callers -> Call]
  BY DEF StoreInv, StoreTypeOK
<1> QED
  BY <1>1 DEF CallConfirm, Callable, Idle, Call

LEMMA RemoveCall ==
    ASSUME StoreInv, NEW c \in Callers, NEW t \in Targets, NEW a \in Times,
           NEW g \in 1 .. item[t].generation, CallRemove(c, t, g, a)
    PROVE  /\ Callable(c) /\ call[c].pc = "idle"
           /\ call'[c].pc = "get" /\ call'[c].op = "remove" /\ call'[c].target = t
           /\ call'[c].generation = g /\ call'[c].obs.observed_at = a
<1>1. call \in [Callers -> Call]
  BY DEF StoreInv, StoreTypeOK
<1> QED
  BY <1>1 DEF CallRemove, Callable, NoCall, Idle, DirectObservation

LEMMA CoverageCall ==
    ASSUME StoreInv, NEW c \in Callers, NEW t \in Targets, NEW b \in Buckets,
           NEW g \in 1 .. item[t].generation, CallCoverage(c, t, g, b)
    PROVE  /\ Callable(c) /\ call[c].pc = "idle"
           /\ call'[c].pc = "get" /\ call'[c].op = "coverage" /\ call'[c].target = t
           /\ call'[c].generation = g /\ call'[c].bucket = b
<1>1. call \in [Callers -> Call]
  BY DEF StoreInv, StoreTypeOK
<1> QED
  BY <1>1 DEF CallCoverage, Callable, NoCall, Idle

(* Between its calls an invocation has none in flight.                     *)
LEMMA BetweenCalls ==
    ASSUME HandlerInv, NEW c \in Callers, job[c].pc \notin Waiting
    PROVE  call[c].pc = "idle"
BY JobTyped DEF Tied

LEMMA NoTies ==
    ASSUME NEW k, k.pc = "idle", NEW n, n.pc \notin Waiting, n.pc \notin Checking
    PROVE  Tied(n, k)
BY DEF Tied, Waiting, Checking

LEMMA ClockTyped ==
    ASSUME HandlerInv
    PROVE  clock \in Times /\ clock \in Nat /\ live \in [Targets -> Provider]
BY InventoryAssumption, StoreAssumption DEF HandlerInv, World

LEMMA StartSnapshotInv ==
    ASSUME HandlerInv, NEW c \in Callers, StartSnapshot(c)
    PROVE  HandlerInv' /\ UNCHANGED storeVars
<1> DEFINE n == [NoJob EXCEPT !.pc = IF Backend = "ec2" THEN "groups" ELSE "captures",
                              !.now = clock]
<1>1. Continue(c, n) /\ Local(c) /\ At(c, "idle")
  BY DEF StartSnapshot
<1>2. n \in Job
  BY NoJobFit, ClockTyped DEF Job, Collecting
<1>3. /\ n.pc \in {"groups", "captures"} /\ (n.pc = "captures" => Backend = "config") /\ n.now = clock /\ n.phase = "observed" /\ n.batch = <<>>
      /\ n.gens = <<>> /\ n.signal = "none" /\ n.bucket = 0
  BY NoJobFit, InventoryAssumption DEF Job
<1> HIDE DEF n
<1>4. Placed(n)
  BY <1>3, ClockTyped DEF Placed, Collecting, Checking, Waiting, Loop
<1>5. Direct(n) /\ Listed(n, item)
  BY <1>3, EmptyPart DEF Direct, Listed
<1>6. Tied(n, call[c])
  <2>1. call[c].pc = "idle"
    BY <1>1, BetweenCalls DEF At, Waiting
  <2> QED
    BY <1>3, <2>1, NoTies DEF Waiting, Checking
<1> QED
  BY <1>1, <1>2, <1>4, <1>5, <1>6, LocalStep DEF Fit

LEMMA StartSignalInv ==
    ASSUME HandlerInv, NEW c \in Callers, StartSignal(c)
    PROVE  HandlerInv' /\ UNCHANGED storeVars
<1>0. PICK s \in Signals : Continue(c, [NoJob EXCEPT !.pc = "resolve", !.now = clock, !.signal = s])
  BY DEF StartSignal
<1> DEFINE n == [NoJob EXCEPT !.pc = "resolve", !.now = clock, !.signal = s]
<1>1. Continue(c, n) /\ Local(c) /\ At(c, "idle")
  BY <1>0 DEF StartSignal
<1>2. n \in Job
  BY NoJobFit, ClockTyped DEF Job, Collecting
<1>3. /\ n.pc = "resolve" /\ n.now = clock /\ n.phase = "observed" /\ n.batch = <<>>
      /\ n.gens = <<>> /\ n.signal = s /\ n.bucket = 0 /\ s # "none"
  BY NoJobFit, InventoryAssumption DEF Job
<1> HIDE DEF n
<1>4. Placed(n)
  BY <1>3, ClockTyped DEF Placed, Collecting, Checking, Waiting, Loop
<1>5. Direct(n) /\ Listed(n, item)
  BY <1>3, EmptyPart DEF Direct, Listed, Checking
<1>6. Tied(n, call[c])
  <2>1. call[c].pc = "idle"
    BY <1>1, BetweenCalls DEF At, Waiting
  <2> QED
    BY <1>3, <2>1, NoTies DEF Waiting, Checking
<1> QED
  BY <1>1, <1>2, <1>4, <1>5, <1>6, LocalStep DEF Fit

LEMMA ListCurrentTyped ==
    ASSUME HandlerInv, NEW ts \in SUBSET Targets
    PROVE  LET gens == ListCurrent(ts) IN
           /\ gens \in PartOf(Nat) /\ DOMAIN gens \subseteq ts
           /\ \A t \in DOMAIN gens : /\ gens[t] = item[t].generation /\ item[t].status = "active"
                                     /\ gens[t] \in 1 .. item[t].generation
<1> DEFINE gens == ListCurrent(ts)
<1>1. item \in [Targets -> Item] /\ \A t \in Targets : WellFormed(item[t])
  BY JobTyped DEF HandlerInv, StoreInv, StoreTypeOK
<1>2. DOMAIN gens = {u \in ts : item[u].status = "active"} /\ \A t \in DOMAIN gens : gens[t] = item[t].generation
  BY DEF ListCurrent
<1>3. \A t \in DOMAIN gens : item[t].generation \in Nat \ {0}
  BY <1>1, <1>2 DEF Item, WellFormed
<1>4. gens \in [DOMAIN gens -> Nat]
  BY <1>2, <1>3 DEF ListCurrent
<1>5. gens \in PartOf(Nat)
  BY <1>2, <1>4, PartIntro
<1>6. DOMAIN gens \subseteq ts /\ \A t \in DOMAIN gens : item[t].status = "active" /\ gens[t] \in 1 .. item[t].generation
  BY <1>2, <1>3
<1> QED
  BY <1>2, <1>5, <1>6

LEMMA StartRescanInv ==
    ASSUME HandlerInv, NEW c \in Callers, StartRescan(c)
    PROVE  HandlerInv' /\ UNCHANGED storeVars
<1> DEFINE gens == ListCurrent(Targets)
<1>0. PICK b \in Buckets :
          Continue(c, [NoJob EXCEPT !.pc = "absent", !.phase = "absent", !.bucket = b,
                         !.gens = gens, !.todo = DOMAIN gens])
  BY DEF StartRescan
<1> DEFINE n == [NoJob EXCEPT !.pc = "absent", !.phase = "absent", !.bucket = b,
                         !.gens = gens, !.todo = DOMAIN gens]
<1>1. Continue(c, n) /\ Local(c) /\ At(c, "idle")
  BY <1>0 DEF StartRescan
<1>g. /\ gens \in PartOf(Nat) /\ DOMAIN gens \subseteq Targets
      /\ \A t \in DOMAIN gens : /\ gens[t] = item[t].generation /\ item[t].status = "active"
                                /\ gens[t] \in 1 .. item[t].generation
  BY ListCurrentTyped
<1> HIDE DEF gens
<1>2. n \in Job
  BY <1>g, NoJobFit DEF Job, Loop
<1>3. /\ n.pc = "absent" /\ n.phase = "absent" /\ n.batch = <<>>
      /\ n.gens = gens /\ n.signal = "none" /\ n.bucket = b /\ b # 0 /\ n.todo = DOMAIN gens
  BY NoJobFit, InventoryAssumption DEF Job
<1> HIDE DEF n
<1>4. Placed(n)
  BY <1>3 DEF Placed, Collecting, Checking, Waiting, Loop
<1>5. Direct(n) /\ Listed(n, item)
  BY <1>3, <1>g DEF Direct, Listed
<1>6. Tied(n, call[c])
  <2>1. call[c].pc = "idle"
    BY <1>1, BetweenCalls DEF At, Waiting
  <2> QED
    BY <1>3, <2>1, NoTies DEF Waiting, Checking
<1> QED
  BY <1>1, <1>2, <1>4, <1>5, <1>6, LocalStep DEF Fit

(* The first listing: the policies of what is there.                       *)
LEMMA CollectGroupsInv ==
    ASSUME HandlerInv, NEW c \in Callers, CollectGroups(c)
    PROVE  HandlerInv' /\ UNCHANGED storeVars
<1> DEFINE there == {u \in Targets : live[u] # Gone}
           seen == [t \in there |-> live[t].policy]
           n == [job[c] EXCEPT !.pc = "interfaces", !.seen = seen]
<1>1. Continue(c, n) /\ Local(c) /\ At(c, "groups")
  BY DEF CollectGroups
<1>a. \A t \in there : live[t] \in Contents
  BY ClockTyped DEF Provider
<1>b. seen \in PartOf(Contents \cup Policies) /\ \A t \in DOMAIN seen : seen[t] \in Policies
  <2>1. seen \in [there -> Policies]
    BY <1>a DEF Policies
  <2> QED
    BY <2>1, PartIntro
<1> HIDE DEF seen
<1>j. /\ job[c] \in Job /\ Placed(job[c]) /\ Direct(job[c]) /\ Listed(job[c], item) /\ job[c].pc = "groups"
  BY <1>1, JobTyped DEF At
<1>2. n \in Job
  BY <1>b, <1>j DEF Job, Collecting
<1>3. /\ n.pc = "interfaces" /\ n.seen = seen /\ n.now = job[c].now /\ n.phase = job[c].phase
      /\ n.batch = job[c].batch /\ n.todo = job[c].todo
      /\ n.gens = job[c].gens /\ n.signal = job[c].signal /\ n.bucket = job[c].bucket
  BY <1>j DEF Job
<1> HIDE DEF n
<1>4. Placed(n)
  BY <1>3, <1>j, <1>b DEF Placed, Collecting, Checking, Waiting, Loop
<1>5. Direct(n) /\ Listed(n, item)
  BY <1>3, <1>j DEF Direct, Listed
<1>6. Tied(n, call[c])
  <2>1. call[c].pc = "idle"
    BY <1>j, BetweenCalls DEF Waiting
  <2> QED
    BY <1>3, <2>1, NoTies DEF Waiting, Checking
<1> QED
  BY <1>1, <1>2, <1>4, <1>5, <1>6, LocalStep DEF Fit

(* The second: the interfaces, with the policies of the first.             *)
LEMMA CollectInterfacesInv ==
    ASSUME HandlerInv, NEW c \in Callers, CollectInterfaces(c)
    PROVE  HandlerInv' /\ UNCHANGED storeVars
<1> DEFINE there == {u \in Targets : live[u] # Gone}
           Policy(t) == IF t \in DOMAIN job[c].seen THEN job[c].seen[t] ELSE live[t].policy
           seen == [t \in there |-> [live[t] EXCEPT !.policy = Policy(t)]]
           n == [job[c] EXCEPT !.pc = "instances", !.seen = seen]
<1>1. Continue(c, n) /\ Local(c) /\ At(c, "interfaces")
  BY DEF CollectInterfaces
<1>j. /\ job[c] \in Job /\ Placed(job[c]) /\ Direct(job[c]) /\ Listed(job[c], item)
      /\ job[c].pc = "interfaces"
  BY <1>1, JobTyped DEF At
<1>a. \A t \in there : live[t] \in Contents
  BY ClockTyped DEF Provider
<1>p. \A t \in there : Policy(t) \in Policies
  BY <1>a, <1>j DEF Placed, Policies
<1>b. seen \in PartOf(Contents \cup Policies) /\ \A t \in DOMAIN seen : seen[t] \in Contents
  <2>1. \A d \in Contents, p \in Policies : [d EXCEPT !.policy = p] \in Contents
    BY BackendAssumption DEF Policies
  <2>2. seen \in [there -> Contents]
    BY <1>a, <1>p, <2>1
  <2> QED
    BY <2>2, PartIntro
<1> HIDE DEF seen
<1>2. n \in Job
  BY <1>b, <1>j DEF Job, Collecting
<1>3. /\ n.pc = "instances" /\ n.seen = seen /\ n.now = job[c].now /\ n.phase = job[c].phase
      /\ n.batch = job[c].batch /\ n.todo = job[c].todo
      /\ n.gens = job[c].gens /\ n.signal = job[c].signal /\ n.bucket = job[c].bucket
  BY <1>j DEF Job
<1> HIDE DEF n
<1>4. Placed(n)
  BY <1>3, <1>j, <1>b DEF Placed, Collecting, Checking, Waiting, Loop
<1>5. Direct(n) /\ Listed(n, item)
  BY <1>3, <1>j DEF Direct, Listed
<1>6. Tied(n, call[c])
  <2>1. call[c].pc = "idle"
    BY <1>j, BetweenCalls DEF Waiting
  <2> QED
    BY <1>3, <2>1, NoTies DEF Waiting, Checking
<1> QED
  BY <1>1, <1>2, <1>4, <1>5, <1>6, LocalStep DEF Fit

(* What a collection ends with.                                            *)
LEMMA CollectedInv ==
    ASSUME HandlerInv, NEW c \in Callers, job[c].pc \in {"instances", "captures"},
           NEW batch \in PartOf(Observations), NEW complete \in BOOLEAN,
           Collected(c, batch, complete), Local(c)
    PROVE  HandlerInv' /\ UNCHANGED storeVars
<1> DEFINE n == [job[c] EXCEPT !.pc = "observed", !.complete = complete, !.seen = <<>>,
                               !.batch = batch, !.todo = DOMAIN batch]
<1>1. Continue(c, n)
  BY DEF Collected
<1>j. /\ job[c] \in Job /\ Placed(job[c]) /\ Direct(job[c]) /\ Listed(job[c], item)
  BY JobTyped
<1>b. DOMAIN batch \subseteq Targets
  BY PartTyped
<1>2. n \in Job
  BY <1>b, <1>j, EmptyPart DEF Job, Loop
<1>3. /\ n.pc = "observed" /\ n.now = job[c].now /\ n.phase = job[c].phase
      /\ n.batch = batch /\ n.todo = DOMAIN batch
      /\ n.gens = job[c].gens /\ n.signal = job[c].signal /\ n.bucket = job[c].bucket
  BY <1>j DEF Job
<1> HIDE DEF n
<1>4. Placed(n)
  BY <1>3, <1>j DEF Placed, Collecting, Checking, Waiting, Loop
<1>5. Direct(n) /\ Listed(n, item)
  BY <1>3, <1>j DEF Direct, Listed
<1>6. Tied(n, call[c])
  <2>1. call[c].pc = "idle"
    BY <1>j, BetweenCalls DEF Waiting
  <2> QED
    BY <1>3, <2>1, NoTies DEF Waiting, Checking
<1> QED
  BY <1>1, <1>2, <1>4, <1>5, <1>6, LocalStep DEF Fit

LEMMA CollectedPartlyInv ==
    ASSUME HandlerInv, NEW c \in Callers, job[c].pc \in {"instances", "captures"},
           NEW batch \in PartOf(Observations),
           CollectedPartly(c, batch), Local(c)
    PROVE  HandlerInv' /\ UNCHANGED storeVars
<1>1. PICK part \in SUBSET DOMAIN batch : Collected(c, [t \in part |-> batch[t]], FALSE)
  BY DEF CollectedPartly
<1>2. [t \in part |-> batch[t]] \in PartOf(Observations)
  <2>1. DOMAIN batch \subseteq Targets /\ \A t \in DOMAIN batch : batch[t] \in Observations
    BY PartTyped
  <2>2. [t \in part |-> batch[t]] \in [part -> Observations] /\ part \in SUBSET Targets
    BY <2>1
  <2> QED
    BY <2>2, PartIntro
<1> QED
  BY <1>1, <1>2, CollectedInv

LEMMA CollectInstancesInv ==
    ASSUME HandlerInv, NEW c \in Callers, CollectInstances(c)
    PROVE  HandlerInv' /\ UNCHANGED storeVars
<1> DEFINE present == {t \in Targets : live[t] # Gone}
           Life(t, listed) == IF t \in listed THEN live[t].life ELSE "unknown"
           Batch(listed) ==
               [t \in DOMAIN job[c].seen |->
                  DirectObservation([job[c].seen[t] EXCEPT !.life = Life(t, listed)], job[c].now)]
<1>1. /\ job[c].pc = "instances" /\ Local(c)
      /\ \/ Collected(c, Batch(present), TRUE)
         \/ \E listed \in SUBSET present : CollectedPartly(c, Batch(listed))
  BY DEF CollectInstances, At
<1>2. /\ DOMAIN job[c].seen \subseteq Targets /\ job[c].now \in Times
      /\ \A t \in DOMAIN job[c].seen : job[c].seen[t] \in Contents
  <2>1. job[c].seen \in PartOf(Contents \cup Policies)
    BY JobTyped DEF Job
  <2> QED
    BY <1>1, <2>1, JobTyped, PartTyped DEF Placed
<1>3. ASSUME NEW listed \in SUBSET present
      PROVE  Batch(listed) \in PartOf(Observations)
  <2>1. ASSUME NEW t \in DOMAIN job[c].seen
        PROVE  [job[c].seen[t] EXCEPT !.life = Life(t, listed)] \in Contents
    <3>1. CASE t \in listed
      <4>1. live[t] \in Contents
        BY <3>1, ClockTyped DEF Provider
      <4> QED
        BY <1>2, <3>1, <4>1, LifecycleAssumption
    <3>2. CASE t \notin listed
      BY <1>2, <3>2, BackendAssumption
    <3> QED
      BY <3>1, <3>2
  <2>2. \A d \in Contents : DirectObservation(d, job[c].now) \in Observations
    BY <1>2, BackendAssumption
  <2>3. Batch(listed) \in [DOMAIN job[c].seen -> Observations]
    BY <2>1, <2>2
  <2> QED
    BY <1>2, <2>3, PartIntro
<1> HIDE DEF Batch
<1>4. CASE Collected(c, Batch(present), TRUE)
  BY <1>1, <1>3, <1>4, CollectedInv
<1>5. CASE \E listed \in SUBSET present : CollectedPartly(c, Batch(listed))
  BY <1>1, <1>3, <1>5, CollectedPartlyInv
<1> QED
  BY <1>1, <1>4, <1>5

LEMMA CollectCapturesInv ==
    ASSUME HandlerInv, NEW c \in Callers, CollectCaptures(c)
    PROVE  HandlerInv' /\ UNCHANGED storeVars
<1> DEFINE known == {t \in Targets : capture[t].eni # Gone}
           usable == {t \in known : capture[t].eni.groups = {} \/ capture[t].grp_at # 0}
           Content(t) == [capture[t].eni EXCEPT !.life = "unknown", !.policy = capture[t].policy]
           batch == [t \in usable |-> ConfigObservation(Content(t), capture[t].eni_at, capture[t].grp_at)]
<1>1. /\ job[c].pc = "captures" /\ Local(c)
      /\ Collected(c, batch, usable = known) \/ CollectedPartly(c, batch)
  BY DEF CollectCaptures, At
<1>2. batch \in PartOf(Observations)
  <2>1. ASSUME NEW t \in usable
        PROVE  ConfigObservation(Content(t), capture[t].eni_at, capture[t].grp_at) \in Observations
    <3>1. /\ capture[t] \in Capture /\ capture[t].eni # Gone /\ t \in Targets
          /\ capture[t].eni.groups = {} \/ capture[t].grp_at # 0
          /\ capture[t].eni_at # 0
      BY JobTyped DEF World
    <3>2. /\ capture[t].eni \in Contents /\ capture[t].policy \in Policies
          /\ capture[t].eni_at \in Times
          /\ capture[t].grp_at # 0 => capture[t].grp_at \in Times
      BY <3>1, InventoryAssumption, StoreAssumption DEF Capture, Provider
    <3>3. PICK d \in Contents : capture[t].policy = d.policy
      BY <3>2 DEF Policies
    <3>4. PICK e \in Contents : e = [capture[t].eni EXCEPT !.life = "unknown"]
      BY <3>2, BackendAssumption
    <3>5. /\ Content(t) = [e EXCEPT !.policy = d.policy] /\ e.life = "unknown"
          /\ e.groups = capture[t].eni.groups
      BY <3>2, <3>3, <3>4, BackendAssumption
    <3>6. [e EXCEPT !.policy = d.policy] \in Contents
      BY <3>5, BackendAssumption
    <3>7. /\ Content(t).life = "unknown" /\ Content(t).groups = capture[t].eni.groups
          /\ Content(t) \in Contents
      BY <3>5, <3>6, BackendAssumption
    <3>8. Backend = "config"
      BY <1>1, JobTyped DEF Placed
    <3> HIDE DEF Content
    <3>9. \A a, b \in Times : ConfigObservation(Content(t), a, b) \in Observations
      BY <3>7, <3>8, BackendAssumption
    <3>10. CASE capture[t].grp_at # 0
      BY <3>2, <3>9, <3>10
    <3>11. CASE capture[t].grp_at = 0
      <4>1. Content(t).groups = {}
        BY <3>1, <3>7, <3>11
      <4>2. ConfigObservation(Content(t), capture[t].eni_at, capture[t].grp_at)
              = ConfigObservation(Content(t), capture[t].eni_at, capture[t].eni_at)
        BY <4>1 DEF ConfigObservation
      <4> QED
        BY <3>2, <3>9, <4>2
    <3> QED
      BY <3>10, <3>11
  <2>2. batch \in [usable -> Observations]
    BY <2>1
  <2> QED
    BY <2>2, PartIntro
<1> HIDE DEF batch
<1>3. (usable = known) \in BOOLEAN
  OBVIOUS
<1> QED
  BY <1>1, <1>2, <1>3, CollectedInv, CollectedPartlyInv

LEMMA ResolveInv ==
    ASSUME HandlerInv, NEW c \in Callers, Resolve(c)
    PROVE  HandlerInv' /\ UNCHANGED storeVars
<1> DEFINE j == job[c]
           hinted == {t \in Hint[j.signal] : live[t] # Gone}
           batch == [t \in hinted |-> DirectObservation(live[t], j.now)]
           n == [j EXCEPT !.pc = "claim", !.todo = hinted, !.batch = batch]
<1>1. j.pc = "resolve" /\ Local(c) /\ (Continue(c, n) \/ Continue(c, NoJob))
  BY DEF Resolve, At
<1>j. /\ j \in Job /\ Placed(j) /\ Direct(j) /\ Listed(j, item)
  BY JobTyped
<1>k. call[c].pc = "idle"
  BY <1>1, BetweenCalls DEF Waiting
<1>2. CASE Continue(c, NoJob)
  <2>1. Tied(NoJob, call[c])
    BY <1>k, NoTies, NoJobFit DEF Waiting, Checking
  <2> QED
    BY <1>1, <1>2, <2>1, NoJobFit, LocalStep
<1>3. CASE Continue(c, n)
  <2>1. j.signal \in Signals /\ j.now \in Times
    BY <1>1, <1>j DEF Job, Placed
  <2>2. hinted \subseteq Targets
    BY <2>1, InventoryAssumption
  <2>3. \A t \in hinted : live[t] \in Contents
    BY <2>2, ClockTyped DEF Provider
  <2>4. \A t \in hinted : DirectObservation(live[t], j.now) \in Observations
    BY <2>1, <2>3, BackendAssumption
  <2>5. batch \in PartOf(Observations) /\ DOMAIN batch = hinted
    <3>1. batch \in [hinted -> Observations]
      BY <2>4
    <3> QED
      BY <3>1, <2>2, PartIntro
  <2>6. \A t \in DOMAIN batch : DirectAt(batch[t], j.now)
    BY DEF DirectAt, IsConfig, DirectObservation
  <2> HIDE DEF batch, hinted
  <2>7. n \in Job
    BY <1>j, <2>2, <2>5 DEF Job
  <2>8. /\ n.pc = "claim" /\ n.now = j.now /\ n.phase = j.phase /\ n.batch = batch /\ n.todo = hinted
        /\ n.gens = j.gens /\ n.signal = j.signal /\ n.bucket = j.bucket
    BY <1>j DEF Job
  <2> HIDE DEF n, j
  <2>9. Placed(n)
    BY <1>1, <1>j, <2>5, <2>8 DEF Placed, Collecting, Checking, Waiting, Loop
  <2>10. Direct(n) /\ Listed(n, item)
    BY <1>1, <1>j, <2>6, <2>8 DEF Direct, Listed, Checking
  <2>11. Tied(n, call[c])
    BY <1>k, <2>8, NoTies DEF Waiting, Checking
  <2> QED
    BY <1>1, <1>3, <2>7, <2>9, <2>10, <2>11, LocalStep DEF Fit
<1> QED
  BY <1>1, <1>2, <1>3

LEMMA ClaimInv ==
    ASSUME HandlerInv, NEW c \in Callers, Claim(c)
    PROVE  HandlerInv' /\ UNCHANGED storeVars
<1> DEFINE j == job[c]
           n == [j EXCEPT !.pc = "candidates"]
<1>1. /\ j.pc = "claim" /\ UNCHANGED <<item, outbox, call>> /\ UNCHANGED providerVars
      /\ Continue(c, n) \/ Continue(c, NoJob)
  BY DEF Claim, At, GotoPc
<1>j. /\ j \in Job /\ Placed(j) /\ Direct(j) /\ Listed(j, item)
  BY JobTyped
<1>k. call[c].pc = "idle"
  BY <1>1, BetweenCalls DEF Waiting
<1>2. CASE Continue(c, NoJob)
  <2>1. Tied(NoJob, call[c])
    BY <1>k, NoTies, NoJobFit DEF Waiting, Checking
  <2> QED
    BY <1>1, <1>2, <2>1, NoJobFit, StillStep
<1>3. CASE Continue(c, n)
  <2>7. n \in Job
    BY <1>j DEF Job
  <2>8. /\ n.pc = "candidates" /\ n.now = j.now /\ n.phase = j.phase /\ n.batch = j.batch
        /\ n.todo = j.todo /\ n.gens = j.gens /\ n.signal = j.signal /\ n.bucket = j.bucket
    BY <1>j DEF Job
  <2> HIDE DEF n, j
  <2>9. Placed(n)
    BY <1>1, <1>j, <2>8 DEF Placed, Collecting, Checking, Waiting, Loop
  <2>10. Direct(n) /\ Listed(n, item)
    BY <1>1, <1>j, <2>8 DEF Direct, Listed, Checking
  <2>11. Tied(n, call[c])
    BY <1>k, <2>8, NoTies DEF Waiting, Checking
  <2> QED
    BY <1>1, <1>3, <2>7, <2>9, <2>10, <2>11, StillStep DEF Fit
<1> QED
  BY <1>1, <1>2, <1>3

LEMMA FindCandidatesInv ==
    ASSUME HandlerInv, NEW c \in Callers, FindCandidates(c)
    PROVE  HandlerInv' /\ UNCHANGED storeVars
<1> DEFINE j == job[c]
           gens == ListCurrent(Hint[j.signal])
           n == [j EXCEPT !.pc = "observed", !.gens = gens]
<1>1. j.pc = "candidates" /\ Local(c) /\ Continue(c, n)
  BY DEF FindCandidates, At
<1>j. /\ j \in Job /\ Placed(j) /\ Direct(j) /\ Listed(j, item)
  BY JobTyped
<1>k. call[c].pc = "idle"
  BY <1>1, BetweenCalls DEF Waiting
<1>2. Hint[j.signal] \in SUBSET Targets
  <2>1. j.signal \in Signals
    BY <1>1, <1>j DEF Job, Placed
  <2> QED
    BY <2>1, InventoryAssumption
<1>g. /\ gens \in PartOf(Nat)
      /\ \A t \in DOMAIN gens : item[t].status = "active" /\ gens[t] \in 1 .. item[t].generation
  BY <1>2, ListCurrentTyped
<1> HIDE DEF gens
<1>7. n \in Job
  BY <1>g, <1>j DEF Job, Loop
<1>8. /\ n.pc = "observed" /\ n.now = j.now /\ n.phase = j.phase /\ n.batch = j.batch
      /\ n.todo = j.todo /\ n.gens = gens /\ n.signal = j.signal /\ n.bucket = j.bucket
  BY <1>j DEF Job
<1> HIDE DEF n, j
<1>9. Placed(n)
  BY <1>1, <1>j, <1>8 DEF Placed, Collecting, Checking, Waiting, Loop
<1>10. Direct(n) /\ Listed(n, item)
  BY <1>1, <1>j, <1>g, <1>8 DEF Direct, Listed, Checking
<1>11. Tied(n, call[c])
  BY <1>k, <1>8, NoTies DEF Waiting, Checking
<1> QED
  BY <1>1, <1>7, <1>9, <1>10, <1>11, LocalStep DEF Fit

(* Done with a target, an invocation is back in the loop it was in.        *)
LEMMA LoopFit ==
    ASSUME HandlerInv, NEW c \in Callers, job[c].pc \in Waiting \cup Checking \cup Loop,
           call[c].pc = "idle", NEW t, NEW u \in SUBSET Targets
    PROVE  LET n == [job[c] EXCEPT !.pc = job[c].phase, !.todo = @ \ {t}, !.expected = Gone,
                                   !.unapplied = u]
           IN  Fit(n, item) /\ Tied(n, call[c])
<1> DEFINE j == job[c]
           n == [j EXCEPT !.pc = j.phase, !.todo = @ \ {t}, !.expected = Gone, !.unapplied = u]
<1>j. /\ j \in Job /\ Placed(j) /\ Direct(j) /\ Listed(j, item)
  BY JobTyped
<1>1. n \in Job
  BY <1>j DEF Job, Loop
<1>2. /\ n.pc = j.phase /\ n.now = j.now /\ n.phase = j.phase /\ n.batch = j.batch
      /\ n.todo = j.todo \ {t} /\ n.gens = j.gens /\ n.signal = j.signal /\ n.bucket = j.bucket
      /\ j.phase \in Loop
  BY <1>j DEF Job
<1> SUFFICES Fit(n, item) /\ Tied(n, call[c])
  OBVIOUS
<1> HIDE DEF n, j
<1>3. Placed(n)
  BY <1>j, <1>2 DEF Placed, Collecting, Checking, Waiting, Loop, j
<1>4. Direct(n) /\ Listed(n, item)
  BY <1>j, <1>2 DEF Direct, Listed, Checking, Loop
<1>5. Tied(n, call[c])
  BY <1>2, NoTies DEF Waiting, Checking, Loop
<1> QED
  BY <1>1, <1>3, <1>4, <1>5 DEF Fit

LEMMA NextTargetInv ==
    ASSUME HandlerInv, NEW c \in Callers, job[c].pc \in Waiting \cup Checking \cup Loop,
           call[c].pc = "idle", NextTarget(c), Local(c)
    PROVE  HandlerInv' /\ UNCHANGED storeVars
<1> DEFINE n == [job[c] EXCEPT !.pc = job[c].phase, !.todo = @ \ {job[c].t}, !.expected = Gone,
                               !.unapplied = job[c].unapplied]
<1>1. job[c] \in Job
  BY JobTyped
<1>2. Continue(c, n)
  <2>1. n = [job[c] EXCEPT !.pc = job[c].phase, !.todo = @ \ {job[c].t}, !.expected = Gone]
    BY <1>1 DEF Job
  <2> QED
    BY <2>1 DEF NextTarget
<1>3. Fit(n, item) /\ Tied(n, call[c])
  <2>1. job[c].unapplied \in SUBSET Targets
    BY <1>1 DEF Job
  <2> QED
    BY <2>1, LoopFit
<1> HIDE DEF n
<1> QED
  BY <1>2, <1>3, LocalStep

LEMMA ReconcileNextInv ==
    ASSUME HandlerInv, NEW c \in Callers, ReconcileNext(c)
    PROVE  HandlerInv' /\ StoreNext
<1> DEFINE j == job[c]
<1>1. PICK t \in j.todo : /\ CallReconcile(c, t, j.batch[t])
                          /\ Continue(c, [j EXCEPT !.pc = "reconciling", !.t = t])
  BY DEF ReconcileNext
<1> DEFINE n == [j EXCEPT !.pc = "reconciling", !.t = t]
<1>2. j.pc = "observed" /\ UNCHANGED <<claims, providerVars>> /\ Continue(c, n)
  BY <1>1 DEF ReconcileNext, At
<1>j. /\ j \in Job /\ Placed(j) /\ Direct(j) /\ Listed(j, item)
  BY JobTyped
<1>3. t \in Targets /\ t \in DOMAIN j.batch /\ j.phase = "observed"
  BY <1>2, <1>j DEF Job, Placed, Loop, Collecting
<1>4. j.batch[t] \in Observations
  BY <1>3, <1>j, PartTyped DEF Job
<1>5. /\ Callable(c) /\ call'[c].pc = "get" /\ call'[c].op = "reconcile" /\ call'[c].target = t
      /\ call'[c].obs = j.batch[t]
  BY <1>1, <1>3, <1>4, ReconcileCall, JobTyped
<1>7. n \in Job
  BY <1>j, <1>3 DEF Job, Waiting
<1>8. /\ n.pc = "reconciling" /\ n.now = j.now /\ n.phase = j.phase /\ n.batch = j.batch /\ n.t = t
      /\ n.todo = j.todo /\ n.gens = j.gens /\ n.signal = j.signal /\ n.bucket = j.bucket
  BY <1>j DEF Job
<1> HIDE DEF n, j
<1>9. Placed(n)
  BY <1>2, <1>3, <1>j, <1>8 DEF Placed, Collecting, Checking, Waiting, Loop
<1>10. Direct(n) /\ Listed(n, item)
  BY <1>2, <1>j, <1>8 DEF Direct, Listed, Checking
<1>11. Tied(n, call'[c])
  BY <1>3, <1>5, <1>8, <1>j DEF Tied, Direct, Waiting, Checking
<1> QED
  BY <1>2, <1>5, <1>7, <1>9, <1>10, <1>11, CallStep DEF Fit

LEMMA AfterReconcileInv ==
    ASSUME HandlerInv, NEW c \in Callers, AfterReconcile(c)
    PROVE  HandlerInv' /\ UNCHANGED storeVars
<1> DEFINE j == job[c]
           k == call[c]
           gens == [t \in {j.t} |-> k.row.generation]
           n == [j EXCEPT !.pc = "revalidate", !.gens = gens]
<1>1. /\ j.pc = "reconciling" /\ k.pc = "idle" /\ Local(c)
      /\ \/ k.result = "revalidate" /\ Continue(c, n)
         \/ NextTarget(c)
  BY DEF AfterReconcile, Answered, At, Idle
<1>2. CASE NextTarget(c)
  BY <1>1, <1>2, NextTargetInv DEF Waiting
<1>3. CASE k.result = "revalidate" /\ Continue(c, n)
  <2>j. /\ j \in Job /\ Placed(j) /\ Direct(j) /\ Listed(j, item)
        /\ Tied(j, k) /\ k \in Call /\ Sound(k, item)
    BY JobTyped
  <2>1. j.signal = "none" /\ Exists(k.row) /\ k.target = j.t /\ k.op = "reconcile"
    BY <1>1, <1>3, <2>j DEF Tied, Waiting
  <2>2. j.t \in Targets /\ k.row.generation \in Nat /\ item[j.t].generation \in Nat
    BY <2>j, JobTyped DEF Job, Call, Item, StoreTypeOK
  <2>3. k.row.generation \in 1 .. item[j.t].generation
    BY <2>j, <2>1, <2>2 DEF Sound, Precedes, Exists
  <2>4. gens \in PartOf(Nat) /\ DOMAIN gens = {j.t} /\ gens[j.t] = k.row.generation
    <3>1. gens \in [{j.t} -> Nat] /\ {j.t} \in SUBSET Targets
      BY <2>2
    <3> QED
      BY <3>1, PartIntro
  <2>5. j.phase = "observed"
    BY <1>1, <2>j DEF Placed
  <2> HIDE DEF gens
  <2>7. n \in Job
    BY <2>j, <2>4 DEF Job, Checking
  <2>8. /\ n.pc = "revalidate" /\ n.now = j.now /\ n.phase = j.phase /\ n.batch = j.batch /\ n.t = j.t
        /\ n.todo = j.todo /\ n.gens = gens /\ n.signal = j.signal /\ n.bucket = j.bucket
    BY <2>j DEF Job
  <2> HIDE DEF n, j, k
  <2>9. Placed(n)
    BY <1>1, <2>j, <2>4, <2>5, <2>8 DEF Placed, Collecting, Checking, Waiting, Loop
  <2>10. Direct(n) /\ Listed(n, item)
    BY <2>1, <2>3, <2>4, <2>5, <2>8 DEF Direct, Listed
  <2>11. Tied(n, k)
    BY <1>1, <2>1, <2>8 DEF Tied, Waiting, Checking
  <2> QED
    BY <1>1, <1>3, <2>7, <2>9, <2>10, <2>11, LocalStep DEF Fit, k
<1> QED
  BY <1>1, <1>2, <1>3

LEMMA ObservedDoneInv ==
    ASSUME HandlerInv, NEW c \in Callers, ObservedDone(c)
    PROVE  HandlerInv' /\ UNCHANGED storeVars
<1> DEFINE j == job[c]
           rows == IF InSignal(c) THEN j.gens
                   ELSE IF j.complete THEN ListCurrent(Targets) ELSE <<>>
           n == [j EXCEPT !.pc = "absent", !.phase = "absent", !.gens = rows,
                          !.complete = FALSE, !.todo = DOMAIN rows \ DOMAIN j.batch]
<1>1. j.pc = "observed" /\ Local(c) /\ Continue(c, n)
  BY DEF ObservedDone, At
<1>j. /\ j \in Job /\ Placed(j) /\ Direct(j) /\ Listed(j, item)
  BY JobTyped
<1>k. call[c].pc = "idle"
  BY <1>1, BetweenCalls DEF Waiting
<1>g. /\ rows \in PartOf(Nat)
      /\ \A t \in DOMAIN rows : /\ rows[t] \in 1 .. item[t].generation
                                /\ rows[t] = item[t].generation => item[t].status = "active"
  <2>1. CASE InSignal(c)
    BY <1>j, <2>1 DEF InSignal, Listed, Job
  <2>2. CASE ~InSignal(c) /\ j.complete
    BY <2>2, ListCurrentTyped
  <2>3. CASE ~InSignal(c) /\ ~j.complete
    <3>1. rows = <<>>
      BY <2>3
    <3> QED
      BY <3>1, EmptyPart
  <2> QED
    BY <2>1, <2>2, <2>3
<1>d. DOMAIN rows \subseteq Targets
  BY <1>g, PartTyped
<1> HIDE DEF rows
<1>7. n \in Job
  BY <1>d, <1>g, <1>j DEF Job, Loop
<1>8. /\ n.pc = "absent" /\ n.now = j.now /\ n.phase = "absent" /\ n.batch = j.batch
      /\ n.todo = DOMAIN rows \ DOMAIN j.batch /\ n.gens = rows /\ n.signal = j.signal
      /\ n.bucket = j.bucket
  BY <1>j DEF Job
<1> HIDE DEF n, j
<1>9. Placed(n)
  BY <1>1, <1>j, <1>8 DEF Placed, Collecting, Checking, Waiting, Loop
<1>10. Direct(n) /\ Listed(n, item)
  BY <1>1, <1>j, <1>g, <1>8 DEF Direct, Listed, Checking
<1>11. Tied(n, call[c])
  BY <1>k, <1>8, NoTies DEF Waiting, Checking
<1> QED
  BY <1>1, <1>7, <1>9, <1>10, <1>11, LocalStep DEF Fit

(* It waits for the call it made, at pc.                                   *)
LEMMA AwaitFit ==
    ASSUME HandlerInv, NEW c \in Callers, job[c].pc \in Checking \cup {"relive"}, job[c].bucket = 0,
           NEW pc \in {"relive", "removing", "confirming"},
           pc = "removing" => job[c].t \in DOMAIN job[c].gens,
           pc = "confirming" => job[c].phase = "observed"
    PROVE  LET n == [job[c] EXCEPT !.pc = pc] IN
           /\ Fit(n, item) /\ n.pc = pc /\ n.t = job[c].t /\ n.signal = job[c].signal /\ n.now = job[c].now
<1> DEFINE j == job[c]
           n == [j EXCEPT !.pc = pc]
<1>j. /\ j \in Job /\ Placed(j) /\ Direct(j) /\ Listed(j, item)
  BY JobTyped
<1>1. n \in Job
  BY <1>j DEF Job, Waiting
<1>2. /\ n.pc = pc /\ n.now = j.now /\ n.phase = j.phase /\ n.batch = j.batch /\ n.t = j.t
      /\ n.todo = j.todo /\ n.gens = j.gens /\ n.signal = j.signal /\ n.bucket = j.bucket
  BY <1>j DEF Job
<1> SUFFICES Fit(n, item) /\ n.pc = pc /\ n.t = j.t /\ n.signal = j.signal /\ n.now = j.now
  OBVIOUS
<1> HIDE DEF n
<1>3. Placed(n)
  BY <1>j, <1>2 DEF Placed, Collecting, Checking, Waiting, Loop
<1>4. Direct(n) /\ Listed(n, item)
  BY <1>j, <1>2 DEF Direct, Listed, Checking
<1> QED
  BY <1>1, <1>2, <1>3, <1>4 DEF Fit

(* What the handler does with a verdict.                                   *)
LEMMA DecideInv ==
    ASSUME HandlerInv, NEW c \in Callers, job[c].pc \in Checking \cup Loop, job[c].bucket = 0,
           NEW t, NEW verdict, NEW current \in Contents \cup {Gone},
           \/ job[c].pc \in Checking /\ t = job[c].t
           \/ verdict = "superseded" /\ current = Gone,
           Decide(c, t, verdict, current)
    PROVE  HandlerInv' /\ [StoreNext]_storeVars
<1> DEFINE j == job[c]
<1>j. /\ j \in Job /\ Placed(j) /\ Direct(j) /\ Listed(j, item) /\ Tied(j, call[c]) /\ StoreInv
      /\ item \in [Targets -> Item]
  BY JobTyped DEF StoreTypeOK
<1>k. call[c].pc = "idle"
  BY BetweenCalls DEF Waiting, Checking, Loop
<1>1. CASE /\ Removes(verdict)
           /\ Await(c, "removing", CallRemove(c, t, j.gens[t], j.now))
  <2>1. j.pc \in Checking /\ t = j.t
    BY <1>1 DEF Removes
  <2>2. t \in Targets /\ t \in DOMAIN j.gens /\ j.now \in Times /\ j.gens[t] \in 1 .. item[t].generation
    BY <2>1, <1>j DEF Placed, Job, Listed, Checking
  <2> DEFINE n == [j EXCEPT !.pc = "removing"]
  <2>3. /\ CallRemove(c, t, j.gens[t], j.now) /\ Continue(c, n) /\ UNCHANGED <<claims, providerVars>>
    BY <1>1 DEF Await, GotoPc
  <2>4. /\ Callable(c) /\ call'[c].pc = "get" /\ call'[c].op = "remove" /\ call'[c].target = t
    BY <1>j, <2>2, <2>3, RemoveCall
  <2>5. Fit(n, item) /\ n.pc = "removing" /\ n.t = j.t
    BY <2>1, <2>2, AwaitFit
  <2> HIDE DEF n
  <2>6. Tied(n, call'[c])
    BY <2>1, <2>4, <2>5 DEF Tied, Waiting, Checking
  <2> QED
    BY <2>3, <2>4, <2>5, <2>6, CallStep
<1>2. CASE /\ ReconcilesLive(c, verdict, current)
           /\ Await(c, "relive", CallReconcile(c, t, DirectObservation(current, j.now)))
  <2>1. j.pc \in Checking /\ t = j.t /\ current \in Contents
    BY <1>2 DEF ReconcilesLive
  <2>2. t \in Targets /\ j.now \in Times
    BY <2>1, <1>j DEF Placed, Job, Checking
  <2> DEFINE n == [j EXCEPT !.pc = "relive"]
             o == DirectObservation(current, j.now)
  <2>3. /\ CallReconcile(c, t, o) /\ Continue(c, n) /\ UNCHANGED <<claims, providerVars>>
    BY <1>2 DEF Await, GotoPc
  <2>o. o \in Observations /\ DirectAt(o, j.now)
    BY <2>1, <2>2, BackendAssumption DEF DirectAt, DirectObservation, IsConfig
  <2> HIDE DEF o
  <2>4. /\ Callable(c) /\ call'[c].pc = "get" /\ call'[c].op = "reconcile" /\ call'[c].target = t
        /\ call'[c].obs = o
    BY <1>j, <2>2, <2>3, <2>o, ReconcileCall
  <2>5. Fit(n, item) /\ n.pc = "relive" /\ n.t = j.t /\ n.now = j.now
    BY <2>1, AwaitFit
  <2> HIDE DEF n
  <2>6. Tied(n, call'[c])
    BY <2>1, <2>4, <2>5, <2>o DEF Tied, Waiting, Checking
  <2> QED
    BY <2>3, <2>4, <2>5, <2>6, CallStep
<1>3. CASE /\ Confirms(c, verdict)
           /\ Await(c, "confirming", CallConfirm(c, j.batch[t]))
  <2>1. j.pc \in Checking /\ t = j.t /\ j.phase = "observed"
    BY <1>3 DEF Confirms
  <2>2. t \in DOMAIN j.batch /\ call[c].target = t
    BY <2>1, <1>j DEF Placed, Tied
  <2>o. j.batch[t] \in Observations
    BY <2>2, <1>j, PartTyped DEF Job
  <2> DEFINE n == [j EXCEPT !.pc = "confirming"]
  <2>3. /\ CallConfirm(c, j.batch[t]) /\ Continue(c, n) /\ UNCHANGED <<claims, providerVars>>
    BY <1>3 DEF Await, GotoPc
  <2>4. /\ Callable(c) /\ call'[c].pc = "put" /\ call'[c].op = "confirm" /\ call'[c].target = t
    BY <1>j, <2>2, <2>3, <2>o, ConfirmCall
  <2>5. Fit(n, item) /\ n.pc = "confirming" /\ n.t = j.t
    BY <2>1, AwaitFit
  <2> HIDE DEF n
  <2>6. Tied(n, call'[c])
    BY <2>1, <2>4, <2>5 DEF Tied, Waiting, Checking
  <2> QED
    BY <2>3, <2>4, <2>5, <2>6, CallStep
<1>4. CASE /\ Continue(c, [j EXCEPT !.pc = j.phase, !.todo = @ \ {t}, !.expected = Gone,
                             !.unapplied = IF verdict \in {"unknown", "active"}
                                           THEN @ \cup {t} ELSE @])
           /\ verdict \in {"unknown", "active"} => t = j.t
           /\ Local(c)
  <2> DEFINE u == IF verdict \in {"unknown", "active"} THEN j.unapplied \cup {t} ELSE j.unapplied
             n == [j EXCEPT !.pc = j.phase, !.todo = @ \ {t}, !.expected = Gone, !.unapplied = u]
  <2>1. u \in SUBSET Targets
    BY <1>4, <1>j DEF Job
  <2>2. Fit(n, item) /\ Tied(n, call[c])
    BY <1>k, <2>1, LoopFit
  <2>3. Continue(c, n)
    BY <1>4
  <2> HIDE DEF n
  <2> QED
    BY <1>4, <2>2, <2>3, LocalStep
<1> QED
  BY <1>1, <1>2, <1>3, <1>4 DEF Decide

LEMMA ValidateGetInv ==
    ASSUME HandlerInv, NEW c \in Callers, ValidateGet(c)
    PROVE  HandlerInv' /\ [StoreNext]_storeVars
<1> DEFINE j == job[c]
<1>1. PICK t \in IF At(c, "revalidate") THEN {j.t} ELSE j.todo :
        /\ At(c, "revalidate") \/ (At(c, "absent") /\ ~InRescan(c))
        /\ \/ /\ Expected(c, t, j.gens[t])
              /\ Continue(c, [j EXCEPT !.pc = "live", !.t = t, !.expected = item[t].content])
              /\ Local(c)
           \/ Decide(c, t, "superseded", Gone)
  BY DEF ValidateGet
<1>j. /\ j \in Job /\ Placed(j) /\ Direct(j) /\ Listed(j, item) /\ Tied(j, call[c])
      /\ item \in [Targets -> Item]
  BY JobTyped DEF StoreTypeOK
<1>2. j.pc \in {"revalidate", "absent"} /\ j.bucket = 0 /\ (j.pc = "revalidate" => t = j.t)
      /\ (j.pc = "absent" => t \in j.todo)
  BY <1>1, <1>j DEF At, InRescan, Placed
<1>3. t \in Targets /\ t \in DOMAIN j.gens
  BY <1>2, <1>j DEF Job, Placed, Checking, Loop
<1>k. call[c].pc = "idle"
  BY <1>2, BetweenCalls DEF Waiting
<1>4. CASE Decide(c, t, "superseded", Gone)
  BY <1>2, <1>4, DecideInv DEF Checking, Loop
<1>5. CASE /\ Continue(c, [j EXCEPT !.pc = "live", !.t = t, !.expected = item[t].content])
           /\ Local(c)
  <2> DEFINE n == [j EXCEPT !.pc = "live", !.t = t, !.expected = item[t].content]
  <2>1. Continue(c, n) /\ Local(c)
    BY <1>5
  <2>2. item[t].content \in Contents /\ item[t].content # Gone
    BY <1>3, <1>j, InventoryAssumption DEF Item
  <2>7. n \in Job
    BY <1>j, <1>3, <2>2 DEF Job, Checking
  <2>8. /\ n.pc = "live" /\ n.now = j.now /\ n.phase = j.phase /\ n.batch = j.batch /\ n.t = t
        /\ n.todo = j.todo /\ n.gens = j.gens /\ n.signal = j.signal /\ n.bucket = j.bucket
        /\ n.expected = item[t].content
    BY <1>j DEF Job
  <2> HIDE DEF n
  <2>9. Placed(n)
    BY <1>2, <1>3, <1>j, <2>2, <2>8 DEF Placed, Collecting, Checking, Waiting, Loop
  <2>10. Direct(n) /\ Listed(n, item)
    BY <1>2, <1>j, <2>8 DEF Direct, Listed, Checking, Placed, Loop
  <2>11. Tied(n, call[c])
    BY <1>2, <1>j, <1>k, <2>8 DEF Tied, Waiting, Checking, Placed, Loop
  <2> QED
    BY <2>1, <2>7, <2>9, <2>10, <2>11, LocalStep DEF Fit
<1> QED
  BY <1>1, <1>4, <1>5

LEMMA ValidateLiveInv ==
    ASSUME HandlerInv, NEW c \in Callers, ValidateLive(c)
    PROVE  HandlerInv' /\ [StoreNext]_storeVars
<1> DEFINE j == job[c]
           t == j.t
           verdict == LiveVerdict(j.expected, live[t])
           n == [j EXCEPT !.pc = "final", !.expected = live[t]]
<1>1. /\ j.pc = "live"
      /\ \/ Decide(c, t, "unknown", Gone)
         \/ Decide(c, t, verdict, live[t])
         \/ verdict = "active" /\ Continue(c, n) /\ Local(c)
  BY DEF ValidateLive, At
<1>j. /\ j \in Job /\ Placed(j) /\ Direct(j) /\ Listed(j, item) /\ Tied(j, call[c])
  BY JobTyped
<1>2. t \in Targets /\ live[t] \in Contents \cup {Gone} /\ j.bucket = 0 /\ j.pc \in Checking
  BY <1>1, <1>j, ClockTyped DEF Provider, Job, Placed, Checking
<1>3. CASE Decide(c, t, "unknown", Gone)
  BY <1>2, <1>3, DecideInv
<1>4. CASE Decide(c, t, verdict, live[t])
  BY <1>2, <1>4, DecideInv
<1>5. CASE verdict = "active" /\ Continue(c, n) /\ Local(c)
  <2>2. live[t] # Gone
    BY <1>5 DEF LiveVerdict
  <2>7. n \in Job
    BY <1>j, <1>2 DEF Job, Checking
  <2>8. /\ n.pc = "final" /\ n.now = j.now /\ n.phase = j.phase /\ n.batch = j.batch /\ n.t = t
        /\ n.todo = j.todo /\ n.gens = j.gens /\ n.signal = j.signal /\ n.bucket = j.bucket
        /\ n.expected = live[t]
    BY <1>j DEF Job
  <2> HIDE DEF n
  <2>9. Placed(n)
    BY <1>1, <1>2, <1>j, <2>2, <2>8 DEF Placed, Collecting, Checking, Waiting, Loop
  <2>10. Direct(n) /\ Listed(n, item)
    BY <1>1, <1>j, <2>8 DEF Direct, Listed, Checking, Placed, Loop
  <2>11. Tied(n, call[c])
    BY <1>1, <1>j, <2>8 DEF Tied, Waiting, Checking, Placed, Loop
  <2> QED
    BY <1>5, <2>7, <2>9, <2>10, <2>11, LocalStep DEF Fit
<1> QED
  BY <1>1, <1>3, <1>4, <1>5

LEMMA ValidateFinalInv ==
    ASSUME HandlerInv, NEW c \in Callers, ValidateFinal(c)
    PROVE  HandlerInv' /\ [StoreNext]_storeVars
<1> DEFINE j == job[c]
           verdict == IF Expected(c, j.t, j.gens[j.t]) THEN "active" ELSE "superseded"
<1>1. j.pc = "final" /\ Decide(c, j.t, verdict, j.expected)
  BY DEF ValidateFinal, At
<1>2. j \in Job /\ Placed(j)
  BY JobTyped
<1>3. j.expected \in Contents \cup {Gone} /\ j.bucket = 0 /\ j.pc \in Checking
  BY <1>1, <1>2 DEF Job, Placed, Checking
<1> QED
  BY <1>1, <1>3, DecideInv

LEMMA AfterLiveInv ==
    ASSUME HandlerInv, NEW c \in Callers, AfterLive(c)
    PROVE  HandlerInv' /\ [StoreNext]_storeVars
<1> DEFINE j == job[c]
           n == [j EXCEPT !.pc = "confirming"]
<1>1. /\ j.pc = "relive" /\ call[c].pc = "idle"
      /\ \/ j.phase = "observed" /\ Await(c, "confirming", CallConfirm(c, j.batch[j.t]))
         \/ NextTarget(c) /\ Local(c)
  BY DEF AfterLive, Answered, At, Idle
<1>j. /\ j \in Job /\ Placed(j) /\ Direct(j) /\ Tied(j, call[c]) /\ StoreInv
  BY JobTyped
<1>2. CASE NextTarget(c) /\ Local(c)
  BY <1>1, <1>2, NextTargetInv DEF Waiting
<1>3. CASE j.phase = "observed" /\ Await(c, "confirming", CallConfirm(c, j.batch[j.t]))
  <2>2. j.t \in DOMAIN j.batch /\ call[c].target = j.t /\ j.bucket = 0 /\ j.signal = "none"
    BY <1>1, <1>3, <1>j DEF Placed, Tied, Waiting, Direct
  <2>o. j.batch[j.t] \in Observations
    BY <2>2, <1>j, PartTyped DEF Job
  <2>3. /\ CallConfirm(c, j.batch[j.t]) /\ Continue(c, n) /\ UNCHANGED <<claims, providerVars>>
    BY <1>3 DEF Await, GotoPc
  <2>4. /\ Callable(c) /\ call'[c].pc = "put" /\ call'[c].op = "confirm" /\ call'[c].target = j.t
    BY <1>j, <2>2, <2>3, <2>o, ConfirmCall
  <2>5. Fit(n, item) /\ n.pc = "confirming" /\ n.t = j.t
    BY <1>1, <1>3, <2>2, AwaitFit
  <2> HIDE DEF n
  <2>6. Tied(n, call'[c])
    BY <2>4, <2>5 DEF Tied, Waiting, Checking
  <2> QED
    BY <2>3, <2>4, <2>5, <2>6, CallStep
<1> QED
  BY <1>1, <1>2, <1>3

LEMMA AfterWriteInv ==
    ASSUME HandlerInv, NEW c \in Callers, AfterWrite(c)
    PROVE  HandlerInv' /\ UNCHANGED storeVars
<1> DEFINE j == job[c]
           u == IF call[c].result = "race" THEN j.unapplied \cup {j.t} ELSE j.unapplied
           n == [j EXCEPT !.pc = j.phase, !.todo = @ \ {j.t}, !.expected = Gone, !.unapplied = u]
<1>1. j.pc \in Waiting /\ call[c].pc = "idle" /\ Local(c) /\ Continue(c, n)
  BY DEF AfterWrite, Answered, At, Idle, Waiting
<1>2. u \in SUBSET Targets
  BY JobTyped DEF Job
<1>3. Fit(n, item) /\ Tied(n, call[c])
  BY <1>1, <1>2, LoopFit
<1> HIDE DEF n
<1> QED
  BY <1>1, <1>3, LocalStep

LEMMA CoverNextInv ==
    ASSUME HandlerInv, NEW c \in Callers, CoverNext(c)
    PROVE  HandlerInv' /\ StoreNext
<1> DEFINE j == job[c]
<1>1. PICK t \in j.todo : /\ CallCoverage(c, t, j.gens[t], j.bucket)
                          /\ Continue(c, [j EXCEPT !.pc = "covering", !.t = t])
  BY DEF CoverNext
<1> DEFINE n == [j EXCEPT !.pc = "covering", !.t = t]
<1>2. j.pc = "absent" /\ j.bucket # 0 /\ UNCHANGED <<claims, providerVars>> /\ Continue(c, n)
  BY <1>1 DEF CoverNext, At, InRescan
<1>j. /\ j \in Job /\ Placed(j) /\ Direct(j) /\ Listed(j, item) /\ StoreInv
  BY JobTyped
<1>3. /\ t \in Targets /\ t \in DOMAIN j.gens /\ j.phase = "absent" /\ j.bucket \in Buckets
      /\ j.signal = "none" /\ j.gens[t] \in 1 .. item[t].generation
  BY <1>2, <1>j DEF Job, Placed, Loop, Listed
<1>5. /\ Callable(c) /\ call'[c].pc = "get" /\ call'[c].op = "coverage" /\ call'[c].target = t
  BY <1>1, <1>3, <1>j, CoverageCall
<1>7. n \in Job
  BY <1>j, <1>3 DEF Job, Waiting
<1>8. /\ n.pc = "covering" /\ n.now = j.now /\ n.phase = j.phase /\ n.batch = j.batch /\ n.t = t
      /\ n.todo = j.todo /\ n.gens = j.gens /\ n.signal = j.signal /\ n.bucket = j.bucket
  BY <1>j DEF Job
<1> HIDE DEF n
<1>9. Placed(n)
  BY <1>2, <1>3, <1>j, <1>8 DEF Placed, Collecting, Checking, Waiting, Loop
<1>10. Direct(n) /\ Listed(n, item)
  BY <1>3, <1>j, <1>8 DEF Direct, Listed
<1>11. Tied(n, call'[c])
  BY <1>3, <1>5, <1>8 DEF Tied, Waiting, Checking
<1> QED
  BY <1>2, <1>5, <1>7, <1>9, <1>10, <1>11, CallStep DEF Fit

(* The invocation ends, in one way or another.                             *)
LEMMA EndInv ==
    ASSUME HandlerInv, NEW c \in Callers, Finish(c) \/ Raise(c) \/ Crash(c)
    PROVE  HandlerInv' /\ [StoreNext]_storeVars
<1>1. /\ Continue(c, NoJob) /\ call' = [call EXCEPT ![c] = NoCall] /\ UNCHANGED <<item, outbox>>
      /\ UNCHANGED providerVars
  BY DEF Finish, Raise, Crash
<1>2. [StoreNext]_storeVars
  <2>1. CASE call[c] # NoCall
    BY <1>1, <2>1 DEF StoreNext, Abandon
  <2>2. CASE call[c] = NoCall
    <3>1. call' = call
      BY <1>1, <2>2, JobTyped DEF StoreTypeOK
    <3> QED
      BY <1>1, <3>1 DEF storeVars
  <2> QED
    BY <2>1, <2>2
<1>3. StoreInv'
  BY <1>2, StoreNextInv DEF HandlerInv
<1>4. World'
  BY <1>1 DEF HandlerInv, World, providerVars
<1>5. call'[c] = NoCall /\ \A d \in Callers \ {c} : call'[d] = call[d]
  BY <1>1, JobTyped DEF StoreTypeOK
<1>6. Tied(NoJob, call'[c])
  <2>1. NoCall.pc = "idle"
    BY DEF NoCall
  <2> QED
    BY <1>5, <2>1, NoTies, NoJobFit DEF Waiting, Checking
<1> QED
  BY <1>1, <1>2, <1>3, <1>4, <1>5, <1>6, NoJobFit, HandlerMoves DEF Continue

-----------------------------------------------------------------------------
(* How a step of the store changes the call it is for.                     *)
LEMMA ReturnCall ==
    ASSUME StoreInv, NEW c \in Callers, NEW result, NEW row, Return(c, result, row)
    PROVE  /\ call'[c].pc = "idle" /\ call'[c].op = call[c].op
           /\ call'[c].target = call[c].target /\ call'[c].result = result
           /\ call[c].op = "reconcile" /\ result # "error" => call'[c].row = row
<1>1. call \in [Callers -> Call]
  BY DEF StoreInv, StoreTypeOK
<1> QED
  BY <1>1 DEF Return, NoCall

SameCall(k, m) ==
    /\ m.op = k.op /\ m.target = k.target /\ m.obs = k.obs
    /\ m.generation = k.generation /\ m.bucket = k.bucket

LEMMA GotoCall ==
    ASSUME StoreInv, NEW c \in Callers, NEW pc, NEW row, Goto(c, pc, row)
    PROVE  call'[c].pc = pc /\ call'[c].row = row /\ SameCall(call[c], call'[c])
<1>1. call \in [Callers -> Call]
  BY DEF StoreInv, StoreTypeOK
<1>2. call'[c] = [call[c] EXCEPT !.pc = pc, !.row = row]
  BY <1>1 DEF Goto
<1> QED
  BY <1>1, <1>2 DEF Call, SameCall

LEMMA RetryCall ==
    ASSUME StoreInv, NEW c \in Callers, call' = [call EXCEPT ![c].pc = "get", ![c].attempt = @ + 1]
    PROVE  call'[c].pc = "get" /\ SameCall(call[c], call'[c])
<1>1. call \in [Callers -> Call]
  BY DEF StoreInv, StoreTypeOK
<1>2. call'[c] = [call[c] EXCEPT !.pc = "get", !.attempt = call[c].attempt + 1]
  BY <1>1
<1> QED
  BY <1>1, <1>2 DEF Call, SameCall

Steps(k, m) ==
    /\ k.pc # "idle" /\ m.op = k.op /\ m.target = k.target
    /\ m.pc # "idle" => SameCall(k, m)
    /\ m.pc = "idle" /\ m.result = "revalidate" =>
          k.op = "reconcile" /\ IsConfig(k.obs) /\ Exists(m.row)

LEMMA ReturnSteps ==
    ASSUME StoreInv, NEW c \in Callers, NEW result, NEW row, Return(c, result, row),
           call[c].pc # "idle", result # "revalidate"
    PROVE  Steps(call[c], call'[c])
BY ReturnCall DEF Steps

LEMMA GotoSteps ==
    ASSUME StoreInv, NEW c \in Callers, NEW pc, NEW row, Goto(c, pc, row),
           call[c].pc # "idle", pc # "idle"
    PROVE  Steps(call[c], call'[c])
BY GotoCall DEF Steps, SameCall

LEMMA StoreSteps ==
    ASSUME StoreInv, NEW c \in Callers, StoreStep(c)
    PROVE  Steps(call[c], call'[c])
<1> DEFINE k == call[c]
<1>1. CASE ReconcileGet(c)
  <2> DEFINE i == item[k.target]
  <2>1. k.op = "reconcile" /\ k.pc = "get"
    BY <1>1 DEF ReconcileGet
  <2>2. \/ Exists(i) /\ IsConfig(k.obs) /\ Return(c, "revalidate", i)
        \/ Return(c, "noop", i) \/ Goto(c, "put", i)
    BY <1>1 DEF ReconcileGet
  <2>3. CASE Exists(i) /\ IsConfig(k.obs) /\ Return(c, "revalidate", i)
    BY <2>1, <2>3, ReturnCall DEF Steps
  <2>4. CASE Return(c, "noop", i)
    BY <2>1, <2>4, ReturnSteps
  <2>5. CASE Goto(c, "put", i)
    BY <2>1, <2>5, GotoSteps
  <2> QED
    BY <2>2, <2>3, <2>4, <2>5
<1>2. CASE ReconcilePut(c)
  <2> DEFINE j == Reconciled(k.obs, k.row)
  <2>1. k.pc = "put"
    BY <1>2 DEF ReconcilePut
  <2>2. \/ \E r \in {"noop", "changed", "added", "error"} : Return(c, r, j)
        \/ call' = [call EXCEPT ![c].pc = "get", ![c].attempt = @ + 1]
        \/ Goto(c, "reread", k.row)
    BY <1>2 DEF ReconcilePut, Responses
  <2>3. CASE call' = [call EXCEPT ![c].pc = "get", ![c].attempt = @ + 1]
    BY <2>1, <2>3, RetryCall DEF Steps, SameCall
  <2> HIDE DEF j
  <2> QED
    BY <2>1, <2>2, <2>3, ReturnSteps, GotoSteps
<1>3. CASE ConfirmPut(c)
  <2> DEFINE j == Confirmed(k.obs, k.row)
  <2>1. k.pc = "put"
    BY <1>3 DEF ConfirmPut
  <2>2. \/ Return(c, "noop", k.row)
        \/ \E r \in {"noop", "error"} : Return(c, r, j)
        \/ Goto(c, "reread", k.row)
    BY <1>3 DEF ConfirmPut, Responses
  <2> HIDE DEF j
  <2> QED
    BY <2>1, <2>2, ReturnSteps, GotoSteps
<1>4. CASE RemoveGet(c)
  <2> DEFINE i == item[k.target]
  <2>1. k.pc = "get" /\ (Return(c, "race", i) \/ Return(c, "noop", i) \/ Goto(c, "put", i))
    BY <1>4 DEF RemoveGet
  <2> QED
    BY <2>1, ReturnSteps, GotoSteps
<1>5. CASE RemovePut(c)
  <2> DEFINE j == Removed(k.obs.observed_at, k.row)
  <2>1. k.pc = "put" /\ ((\E r \in {"removed", "error"} : Return(c, r, j)) \/ Goto(c, "reread", k.row))
    BY <1>5 DEF RemovePut, Responses
  <2> HIDE DEF j
  <2> QED
    BY <2>1, ReturnSteps, GotoSteps
<1>6. CASE CoverageGet(c)
  <2> DEFINE i == item[k.target]
  <2>1. k.pc = "get" /\ (Return(c, "race", i) \/ Goto(c, "put", i))
    BY <1>6 DEF CoverageGet
  <2> QED
    BY <2>1, ReturnSteps, GotoSteps
<1>7. CASE CoveragePut(c)
  <2>1. k.pc = "put" /\ ((\E r \in {"changed", "error"} : Return(c, r, k.row)) \/ Goto(c, "reread", k.row))
    BY <1>7 DEF CoveragePut, Responses
  <2> QED
    BY <2>1, ReturnSteps, GotoSteps
<1>8. CASE RereadAfterConflict(c)
  <2>1. k.pc = "reread" /\ \E r \in {"noop", "race"} : Return(c, r, item[k.target])
    BY <1>8 DEF RereadAfterConflict
  <2> QED
    BY <2>1, ReturnSteps
<1>9. CASE StoreRaises(c)
  BY <1>9, ReturnSteps DEF StoreRaises, Idle
<1> QED
  BY <1>1, <1>2, <1>3, <1>4, <1>5, <1>6, <1>7, <1>8, <1>9 DEF StoreStep

LEMMA StoreWorksInv ==
    ASSUME HandlerInv, NEW c \in Callers, StoreWorks(c)
    PROVE  HandlerInv' /\ StoreNext
<1>1. StoreStep(c) /\ UNCHANGED job /\ UNCHANGED providerVars
  BY DEF StoreWorks
<1>2. StoreNext
  BY <1>1 DEF StoreNext
<1>3. StoreInv' /\ Progress(c) /\ Steps(call[c], call'[c])
  BY <1>1, <1>2, StoreNextInv, StoreNextProgress, StoreSteps DEF HandlerInv
<1>4. World'
  BY <1>1 DEF HandlerInv, World, providerVars
<1>5. ASSUME NEW d \in Callers
      PROVE  Fit(job'[d], item') /\ Tied(job'[d], call'[d])
  <2>1. job'[d] = job[d] /\ job[d] \in Job /\ Placed(job[d]) /\ Direct(job[d]) /\ Listed(job[d], item)
        /\ Tied(job[d], call[d])
    BY <1>1, JobTyped
  <2>2. Listed(job[d], item')
    BY <1>3, <2>1, JobTyped, ListedStable DEF Progress, StoreTypeOK
  <2>3. Tied(job[d], call'[d])
    <3>1. CASE d # c
      BY <1>3, <2>1, <3>1 DEF Progress
    <3>2. CASE d = c
      <4> DEFINE j == job[c]
                 k == call[c]
                 m == call'[c]
      <4>1. Tied(j, k) /\ Steps(k, m) /\ j.pc \in Waiting
        BY <1>3, <2>1, <3>2 DEF Tied, Steps
      <4> HIDE DEF j, k, m
      <4>2. Tied(j, m)
        BY <4>1 DEF Tied, Steps, SameCall, Waiting, Checking, DirectAt
      <4> QED
        BY <3>2, <4>2 DEF j, m
    <3> QED
      BY <3>1, <3>2
  <2> QED
    BY <2>1, <2>2, <2>3 DEF Fit
<1>6. job' \in [Callers -> Job]
  BY <1>1 DEF HandlerInv
<1> QED
  BY <1>2, <1>3, <1>4, <1>5, <1>6 DEF HandlerInv

-----------------------------------------------------------------------------
(* The world outside moves on under the invocations.                       *)
LEMMA WorldMoves ==
    ASSUME HandlerInv, World', UNCHANGED <<item, outbox, call, job>>
    PROVE  HandlerInv' /\ UNCHANGED storeVars
<1>1. UNCHANGED storeVars
  BY DEF storeVars
<1>2. StoreInv'
  BY <1>1, StoreNextInv DEF HandlerInv
<1> QED
  BY <1>1, <1>2 DEF HandlerInv

LEMMA TickInv ==
    ASSUME HandlerInv, Tick
    PROVE  HandlerInv' /\ UNCHANGED storeVars
<1>1. clock' \in 1 .. MaxClock
  <2>1. MaxClock \in Nat
    BY InventoryAssumption, StoreAssumption
  <2> QED
    BY <2>1 DEF Tick, HandlerInv, World
<1>2. World'
  BY <1>1 DEF Tick, HandlerInv, World
<1> QED
  BY <1>2, WorldMoves DEF Tick

LEMMA RecordsInv ==
    ASSUME HandlerInv, NEW t \in Targets, Records(t)
    PROVE  HandlerInv' /\ UNCHANGED storeVars
<1>1. /\ capture \in [Targets -> Capture] /\ clock \in 1 .. MaxClock /\ live \in [Targets -> Provider]
      /\ \A u \in Targets : capture[u].eni # Gone => capture[u].eni_at # 0
      /\ MaxClock \in Nat
  BY InventoryAssumption, StoreAssumption DEF HandlerInv, World
<1>2. PICK n \in Capture : /\ capture' = [capture EXCEPT ![t] = n]
                           /\ n.eni # Gone => n.eni_at # 0
  <2>1. capture[t] \in Capture /\ live[t] \in Provider
    BY <1>1
  <2>c. clock \in 0 .. MaxClock /\ clock # 0
    BY <1>1
  <2>2. CASE capture' = [capture EXCEPT ![t].eni = live[t], ![t].eni_at = clock]
    <3> DEFINE m == [capture[t] EXCEPT !.eni = live[t], !.eni_at = clock]
    <3>1. m \in Capture /\ m.eni_at # 0
      BY <2>1, <2>c DEF Capture
    <3>2. capture' = [capture EXCEPT ![t] = m]
      BY <2>2
    <3> HIDE DEF m
    <3> QED
      BY <3>1, <3>2
  <2>3. CASE live[t] # Gone /\ capture' = [capture EXCEPT ![t].policy = live[t].policy, ![t].grp_at = clock]
    <3> DEFINE m == [capture[t] EXCEPT !.policy = live[t].policy, !.grp_at = clock]
    <3>1. live[t].policy \in Policies
      BY <1>1, <2>3 DEF Policies, Provider
    <3>2. m \in Capture /\ m.eni = capture[t].eni /\ m.eni_at = capture[t].eni_at
      BY <2>1, <2>c, <3>1 DEF Capture
    <3>3. capture' = [capture EXCEPT ![t] = m]
      BY <2>3
    <3> HIDE DEF m
    <3> QED
      BY <1>1, <3>2, <3>3
  <2> QED
    BY <2>2, <2>3 DEF Records
<1>3. capture' \in [Targets -> Capture]
      /\ \A u \in Targets : capture'[u].eni # Gone => capture'[u].eni_at # 0
  BY <1>1, <1>2
<1>4. World'
  BY <1>1, <1>3 DEF Records, World
<1> QED
  BY <1>4, WorldMoves DEF Records

LEMMA HandlerInitially == InventoryInit => HandlerInv
<1> SUFFICES ASSUME InventoryInit PROVE HandlerInv
  OBVIOUS
<1>1. StoreInv
  BY StoreInitInv DEF InventoryInit
<1>2. World
  <2>1. 1 \in 1 .. MaxClock /\ 0 \in 0 .. MaxClock
    BY InventoryAssumption, StoreAssumption
  <2>2. NoItem.content.policy \in Policies
    BY NoItemType DEF Policies, Item
  <2>3. \A t \in Targets : capture[t] = [eni |-> Gone, eni_at |-> 0, policy |-> NoItem.content.policy, grp_at |-> 0]
    BY DEF InventoryInit
  <2>4. capture \in [Targets -> Capture]
    BY <2>1, <2>2 DEF InventoryInit, Capture, Provider
  <2> QED
    BY <2>1, <2>3, <2>4 DEF World, InventoryInit
<1>3. job = [c \in Callers |-> NoJob] /\ call = [c \in Callers |-> NoCall] /\ NoCall.pc = "idle"
  BY DEF InventoryInit, StoreInit, NoCall
<1>4. Tied(NoJob, NoCall)
  BY <1>3, NoTies, NoJobFit DEF Waiting, Checking
<1> HIDE DEF NoJob, NoCall
<1> QED
  BY <1>1, <1>2, <1>3, <1>4, NoJobFit DEF HandlerInv

LEMMA HandlerStepInv ==
    ASSUME HandlerInv, NEW c \in Callers, HandlerStep(c)
    PROVE  HandlerInv' /\ [StoreNext]_storeVars
<1>1. CASE CollectGroups(c) \/ CollectInterfaces(c) \/ CollectInstances(c) \/ CollectCaptures(c)
  BY <1>1, CollectGroupsInv, CollectInterfacesInv, CollectInstancesInv, CollectCapturesInv
<1>2. CASE Resolve(c) \/ Claim(c) \/ FindCandidates(c)
  BY <1>2, ResolveInv, ClaimInv, FindCandidatesInv
<1>3. CASE ReconcileNext(c) \/ AfterReconcile(c) \/ ObservedDone(c)
  BY <1>3, ReconcileNextInv, AfterReconcileInv, ObservedDoneInv
<1>4. CASE ValidateGet(c) \/ ValidateLive(c) \/ ValidateFinal(c)
  BY <1>4, ValidateGetInv, ValidateLiveInv, ValidateFinalInv
<1>5. CASE AfterLive(c) \/ AfterWrite(c) \/ CoverNext(c) \/ Finish(c) \/ Raise(c)
  BY <1>5, AfterLiveInv, AfterWriteInv, CoverNextInv, EndInv
<1> QED
  BY <1>1, <1>2, <1>3, <1>4, <1>5 DEF HandlerStep

LEMMA HandlerPreserved ==
    HandlerInv /\ [InventoryNext]_inventoryVars => HandlerInv' /\ [StoreNext]_storeVars
<1> SUFFICES ASSUME HandlerInv, [InventoryNext]_inventoryVars
             PROVE  HandlerInv' /\ [StoreNext]_storeVars
  OBVIOUS
<1>1. CASE Tick
  BY <1>1, TickInv
<1>2. ASSUME NEW t \in Targets, Records(t)
      PROVE  HandlerInv' /\ [StoreNext]_storeVars
  BY <1>2, RecordsInv
<1>3. ASSUME NEW c \in Callers, StartSnapshot(c) \/ StartSignal(c) \/ StartRescan(c)
      PROVE  HandlerInv' /\ [StoreNext]_storeVars
  BY <1>3, StartSnapshotInv, StartSignalInv, StartRescanInv
<1>4. ASSUME NEW c \in Callers, HandlerStep(c)
      PROVE  HandlerInv' /\ [StoreNext]_storeVars
  BY <1>4, HandlerStepInv
<1>5. ASSUME NEW c \in Callers, StoreWorks(c) \/ Crash(c)
      PROVE  HandlerInv' /\ [StoreNext]_storeVars
  BY <1>5, StoreWorksInv, EndInv
<1>6. CASE UNCHANGED inventoryVars
  <2>1. World' /\ UNCHANGED <<item, outbox, call, job>>
    BY <1>6 DEF inventoryVars, World, HandlerInv
  <2> QED
    BY <2>1, WorldMoves
<1> QED
  BY <1>1, <1>2, <1>3, <1>4, <1>5, <1>6 DEF InventoryNext

(***************************************************************************)
(* What the invocations hold fits where they are and what they wait for.   *)
(***************************************************************************)
THEOREM InventoryHandlers == InventorySpec => []HandlerInv
BY HandlerInitially, HandlerPreserved, PTL DEF InventorySpec

(***************************************************************************)
(* The snapshot, the signal and the rescan call the store only as it lets  *)
(* its callers, so every theorem about the store holds under them.         *)
(***************************************************************************)
THEOREM InventoryUsesStore == InventorySpec => UsesStore
<1>1. InventoryInit => StoreInit
  BY DEF InventoryInit
<1>2. InventorySpec => StoreSpec
  BY <1>1, InventoryHandlers, HandlerPreserved, PTL DEF InventorySpec, StoreSpec
<1> QED
  BY <1>2 DEF UsesStore

(***************************************************************************)
(* So the event stream of the handlers has one event per generation, its   *)
(* new_target events follow the tombstones, and its coverage events name   *)
(* generations that were active.                                           *)
(***************************************************************************)
THEOREM InventoryStream ==
    InventorySpec => [](OneEventPerGeneration /\ NewTargetFollowsRemoval /\ CoverageFenced)
BY InventoryUsesStore, StoreStream, PTL DEF UsesStore

-----------------------------------------------------------------------------
(* What a step of invocation c that is no step of the store owes.          *)
LEMMA OwnsMove ==
    ASSUME HandlerInv, OwnershipInv, NEW c \in Callers, NEW n, Continue(c, n),
           OwnedJob(n, live, left),
           UNCHANGED <<item, outbox>>, UNCHANGED providerVars,
           \A d \in Callers \ {c} : call'[d] = call[d], OwnedCall(call'[c], live, left)
    PROVE  OwnershipInv'
<1>1. job \in [Callers -> Job]
  BY DEF HandlerInv
<1>2. job'[c] = n /\ \A d \in Callers \ {c} : job'[d] = job[d]
  BY <1>1 DEF Continue
<1>3. live' = live /\ left' = left /\ capture' = capture
  BY DEF providerVars
<1>4. OwnedRows'
  BY <1>3 DEF OwnershipInv, OwnedRows, NoFalseRemoval
<1>5. ASSUME NEW d \in Callers
      PROVE  OwnedJob(job'[d], live', left') /\ OwnedCall(call'[d], live', left')
  BY <1>2, <1>3 DEF OwnershipInv
<1> QED
  BY <1>4, <1>5 DEF OwnershipInv

LEMMA OwnsLocal ==
    ASSUME HandlerInv, OwnershipInv, NEW c \in Callers, NEW n, Continue(c, n), Local(c),
           OwnedJob(n, live, left)
    PROVE  OwnershipInv'
<1>1. UNCHANGED <<item, outbox, call>> /\ UNCHANGED providerVars
  BY DEF Local
<1>2. OwnedCall(call'[c], live, left)
  BY <1>1 DEF OwnershipInv
<1> QED
  BY <1>1, <1>2, OwnsMove

LEMMA OwnsNothing == OwnedJob(NoJob, live, left)
BY NoJobFit, EmptyPart DEF OwnedJob

(* The batch is the one it had.                                            *)
LEMMA OwnsSame ==
    ASSUME OwnershipInv, NEW c \in Callers, NEW n, n.batch = job[c].batch,
           n.pc \notin {"instances", "live", "final"}
    PROVE  OwnedJob(n, live, left)
BY DEF OwnedJob, OwnershipInv

LEMMA StartOwned ==
    ASSUME HandlerInv, OwnershipInv, NEW c \in Callers,
           StartSnapshot(c) \/ StartSignal(c) \/ StartRescan(c)
    PROVE  OwnershipInv'
<1>1. PICK n : /\ Continue(c, n) /\ n.batch = <<>> /\ n.pc \notin {"instances", "live", "final"}
  <2>0. NoJob \in Job /\ NoJob.batch = <<>>
    BY NoJobFit
  <2>1. CASE StartSnapshot(c)
    <3> DEFINE n == [NoJob EXCEPT !.pc = IF Backend = "ec2" THEN "groups" ELSE "captures",
                                  !.now = clock]
    <3>1. Continue(c, n)
      BY <2>1 DEF StartSnapshot
    <3>2. n.batch = <<>> /\ n.pc \notin {"instances", "live", "final"}
      BY <2>0 DEF Job
    <3> QED
      BY <3>1, <3>2
  <2>2. CASE StartSignal(c)
    <3>0. PICK s \in Signals : Continue(c, [NoJob EXCEPT !.pc = "resolve", !.now = clock, !.signal = s])
      BY <2>2 DEF StartSignal
    <3> DEFINE n == [NoJob EXCEPT !.pc = "resolve", !.now = clock, !.signal = s]
    <3>2. n.batch = <<>> /\ n.pc \notin {"instances", "live", "final"}
      BY <2>0 DEF Job
    <3> QED
      BY <3>0, <3>2
  <2>3. CASE StartRescan(c)
    <3> DEFINE gens == ListCurrent(Targets)
    <3>0. PICK b \in Buckets :
             Continue(c, [NoJob EXCEPT !.pc = "absent", !.phase = "absent", !.bucket = b,
                            !.gens = gens, !.todo = DOMAIN gens])
      BY <2>3 DEF StartRescan
    <3> DEFINE n == [NoJob EXCEPT !.pc = "absent", !.phase = "absent", !.bucket = b,
                            !.gens = gens, !.todo = DOMAIN gens]
    <3>2. n.batch = <<>> /\ n.pc \notin {"instances", "live", "final"}
      BY <2>0 DEF Job
    <3> QED
      BY <3>0, <3>2
  <2> QED
    BY <2>1, <2>2, <2>3
<1>2. OwnedJob(n, live, left)
  BY <1>1, EmptyPart DEF OwnedJob
<1>3. Local(c)
  BY DEF StartSnapshot, StartSignal, StartRescan
<1> QED
  BY <1>1, <1>2, <1>3, OwnsLocal

(* An observation has the address it was made from.                        *)
LEMMA AddressKept ==
    ASSUME NEW d \in Contents
    PROVE  /\ \A l : [d EXCEPT !.life = l].ip = d.ip
           /\ \A p : [d EXCEPT !.policy = p].ip = d.ip
           /\ \A l, p : [d EXCEPT !.life = l, !.policy = p].ip = d.ip
<1>0. d = [ip |-> d.ip, life |-> d.life, groups |-> d.groups, policy |-> d.policy]
  BY BackendAssumption
<1>1. PICK ip, life, groups, policy :
        d = [ip |-> ip, life |-> life, groups |-> groups, policy |-> policy]
  BY <1>0
<1> QED
  BY <1>1

LEMMA ReadIsSure ==
    ASSUME NEW t, live[t] # Gone
    PROVE  Sure(t, live[t], live, left)
BY DEF Sure

LEMMA CollectOwned ==
    ASSUME HandlerInv, OwnershipInv, NEW c \in Callers, NEW batch,
           \A t \in DOMAIN batch : Sure(t, batch[t].content, live, left),
           NEW complete, Collected(c, batch, complete) \/ CollectedPartly(c, batch), Local(c)
    PROVE  OwnershipInv'
<1>1. PICK part \in SUBSET DOMAIN batch, whole \in BOOLEAN :
         \/ Collected(c, batch, complete)
         \/ Collected(c, [t \in part |-> batch[t]], whole)
  BY DEF CollectedPartly
<1>2. ASSUME NEW b, \A t \in DOMAIN b : Sure(t, b[t].content, live, left), NEW f, Collected(c, b, f)
      PROVE  OwnershipInv'
  <2> DEFINE n == [job[c] EXCEPT !.pc = "observed", !.complete = f, !.seen = <<>>,
                                 !.batch = b, !.todo = DOMAIN b]
  <2>1. Continue(c, n)
    BY <1>2 DEF Collected
  <2>2. n.pc = "observed" /\ n.batch = b
    BY JobTyped DEF Job
  <2> HIDE DEF n
  <2>3. OwnedJob(n, live, left)
    BY <1>2, <2>2 DEF OwnedJob
  <2> QED
    BY <2>1, <2>3, OwnsLocal
<1>3. CASE Collected(c, batch, complete)
  BY <1>2, <1>3
<1>4. CASE Collected(c, [t \in part |-> batch[t]], whole)
  <2> DEFINE b == [t \in part |-> batch[t]]
  <2>1. \A t \in DOMAIN b : Sure(t, b[t].content, live, left)
    OBVIOUS
  <2> HIDE DEF b
  <2>2. Collected(c, b, whole)
    BY <1>4 DEF b
  <2> QED
    BY <1>2, <2>1, <2>2
<1> QED
  BY <1>1, <1>3, <1>4

LEMMA ListingOwned ==
    ASSUME HandlerInv, OwnershipInv, NEW c \in Callers,
           CollectGroups(c) \/ CollectInterfaces(c) \/ CollectInstances(c) \/ CollectCaptures(c)
    PROVE  OwnershipInv'
<1> DEFINE j == job[c]
<1>j. j \in Job /\ Placed(j) /\ OwnedJob(j, live, left)
  BY JobTyped DEF OwnershipInv
<1>l. \A t \in Targets : live[t] # Gone => live[t] \in Contents
  BY ClockTyped DEF Provider
<1>1. CASE CollectGroups(c)
  <2> DEFINE n == [j EXCEPT !.pc = "interfaces",
                            !.seen = [t \in {u \in Targets : live[u] # Gone} |-> live[t].policy]]
  <2>1. Continue(c, n) /\ Local(c)
    BY <1>1 DEF CollectGroups
  <2>2. n.pc = "interfaces" /\ n.batch = j.batch
    BY <1>j DEF Job
  <2> HIDE DEF n
  <2> QED
    BY <2>1, <2>2, OwnsSame, OwnsLocal
<1>2. CASE CollectInterfaces(c)
  <2> DEFINE there == {u \in Targets : live[u] # Gone}
             Policy(t) == IF t \in DOMAIN j.seen THEN j.seen[t] ELSE live[t].policy
             seen == [t \in there |-> [live[t] EXCEPT !.policy = Policy(t)]]
             n == [j EXCEPT !.pc = "instances", !.seen = seen]
  <2>1. Continue(c, n) /\ Local(c)
    BY <1>2 DEF CollectInterfaces
  <2>2. \A t \in DOMAIN seen : Sure(t, seen[t], live, left)
    <3> HIDE DEF Policy
    <3> QED
      BY <1>l, AddressKept DEF Sure
  <2> HIDE DEF seen
  <2>3. n.pc = "instances" /\ n.batch = j.batch /\ n.seen = seen
    BY <1>j DEF Job
  <2> HIDE DEF n
  <2>4. OwnedJob(n, live, left)
    BY <1>j, <2>2, <2>3 DEF OwnedJob
  <2> QED
    BY <2>1, <2>4, OwnsLocal
<1>3. CASE CollectInstances(c)
  <2> DEFINE present == {t \in Targets : live[t] # Gone}
             Life(t, listed) == IF t \in listed THEN live[t].life ELSE "unknown"
             Batch(listed) ==
                 [t \in DOMAIN j.seen |->
                    DirectObservation([j.seen[t] EXCEPT !.life = Life(t, listed)], j.now)]
  <2>1. /\ j.pc = "instances" /\ Local(c)
        /\ \/ Collected(c, Batch(present), TRUE)
           \/ \E listed \in SUBSET present : CollectedPartly(c, Batch(listed))
    BY <1>3 DEF CollectInstances, At
  <2>2. ASSUME NEW listed
        PROVE  \A t \in DOMAIN Batch(listed) : Sure(t, Batch(listed)[t].content, live, left)
    <3> SUFFICES ASSUME NEW t \in DOMAIN j.seen PROVE Sure(t, Batch(listed)[t].content, live, left)
      OBVIOUS
    <3>1. j.seen[t] \in Contents /\ Sure(t, j.seen[t], live, left)
      BY <1>j, <2>1 DEF Placed, OwnedJob
    <3>2. Batch(listed)[t].content = [j.seen[t] EXCEPT !.life = Life(t, listed)]
      BY DEF DirectObservation
    <3> HIDE DEF Batch, Life
    <3>3. Batch(listed)[t].content.ip = j.seen[t].ip
      BY <3>1, <3>2, AddressKept
    <3> QED
      BY <3>1, <3>3 DEF Sure
  <2> HIDE DEF Batch
  <2> QED
    BY <2>1, <2>2, CollectOwned
<1>4. CASE CollectCaptures(c)
  <2> DEFINE known == {t \in Targets : capture[t].eni # Gone}
             usable == {t \in known : capture[t].eni.groups = {} \/ capture[t].grp_at # 0}
             Content(t) == [capture[t].eni EXCEPT !.life = "unknown", !.policy = capture[t].policy]
             batch == [t \in usable |-> ConfigObservation(Content(t), capture[t].eni_at, capture[t].grp_at)]
  <2>1. Local(c) /\ (Collected(c, batch, usable = known) \/ CollectedPartly(c, batch))
    BY <1>4 DEF CollectCaptures
  <2>2. \A t \in DOMAIN batch : Sure(t, batch[t].content, live, left)
    <3> SUFFICES ASSUME NEW t \in usable PROVE Sure(t, batch[t].content, live, left)
      OBVIOUS
    <3>1. capture[t].eni \in Contents /\ Sure(t, capture[t].eni, live, left)
      BY JobTyped DEF OwnershipInv, OwnedRows, World, Capture, Provider
    <3>2. batch[t].content = Content(t)
      BY DEF ConfigObservation
    <3>3. Content(t).ip = capture[t].eni.ip
      BY <3>1, AddressKept
    <3> HIDE DEF Content, batch
    <3> QED
      BY <3>1, <3>2, <3>3 DEF Sure
  <2> HIDE DEF batch
  <2> QED
    BY <2>1, <2>2, CollectOwned
<1> QED
  BY <1>1, <1>2, <1>3, <1>4

LEMMA SignalOwned ==
    ASSUME HandlerInv, OwnershipInv, NEW c \in Callers,
           Resolve(c) \/ Claim(c) \/ FindCandidates(c)
    PROVE  OwnershipInv'
<1> DEFINE j == job[c]
<1>j. j \in Job
  BY JobTyped
<1>k. OwnedCall(call[c], live, left)
  BY DEF OwnershipInv
<1>1. CASE Resolve(c)
  <2> DEFINE hinted == {t \in Hint[j.signal] : live[t] # Gone}
             batch == [t \in hinted |-> DirectObservation(live[t], j.now)]
             n == [j EXCEPT !.pc = "claim", !.todo = hinted, !.batch = batch]
  <2>1. Local(c) /\ (Continue(c, n) \/ Continue(c, NoJob))
    BY <1>1 DEF Resolve
  <2>2. \A t \in DOMAIN batch : Sure(t, batch[t].content, live, left)
    BY DEF Sure, DirectObservation
  <2> HIDE DEF batch, hinted
  <2>3. n.pc = "claim" /\ n.batch = batch
    BY <1>j DEF Job
  <2> HIDE DEF n
  <2>4. OwnedJob(n, live, left)
    BY <2>2, <2>3 DEF OwnedJob
  <2> QED
    BY <2>1, <2>4, OwnsNothing, OwnsLocal
<1>2. CASE Claim(c)
  <2> DEFINE n == [j EXCEPT !.pc = "candidates"]
  <2>1. UNCHANGED <<item, outbox, call>> /\ UNCHANGED providerVars /\ (Continue(c, n) \/ Continue(c, NoJob))
    BY <1>2 DEF Claim, GotoPc
  <2>2. n.pc = "candidates" /\ n.batch = j.batch
    BY <1>j DEF Job
  <2> HIDE DEF n
  <2>3. OwnedJob(n, live, left)
    BY <2>2, OwnsSame
  <2> QED
    BY <1>k, <2>1, <2>3, OwnsNothing, OwnsMove
<1>3. CASE FindCandidates(c)
  <2> DEFINE n == [j EXCEPT !.pc = "observed", !.gens = ListCurrent(Hint[j.signal])]
  <2>1. Continue(c, n) /\ Local(c)
    BY <1>3 DEF FindCandidates
  <2>2. n.pc = "observed" /\ n.batch = j.batch
    BY <1>j DEF Job
  <2> HIDE DEF n
  <2> QED
    BY <2>1, <2>2, OwnsSame, OwnsLocal
<1> QED
  BY <1>1, <1>2, <1>3

LEMMA LoopOwned ==
    ASSUME HandlerInv, OwnershipInv, NEW c \in Callers,
           AfterReconcile(c) \/ ObservedDone(c) \/ AfterWrite(c)
    PROVE  OwnershipInv'
<1> DEFINE j == job[c]
<1>j. j \in Job /\ j.phase \notin {"instances", "live", "final"}
  BY JobTyped DEF Job, Loop
<1>1. Local(c)
  BY DEF AfterReconcile, ObservedDone, AfterWrite
<1>2. CASE NextTarget(c)
  <2> DEFINE n == [j EXCEPT !.pc = j.phase, !.todo = @ \ {j.t}, !.expected = Gone]
  <2>1. Continue(c, n)
    BY <1>2 DEF NextTarget
  <2>2. n.pc = j.phase /\ n.batch = j.batch
    BY <1>j DEF Job
  <2> HIDE DEF n
  <2> QED
    BY <1>1, <1>j, <2>1, <2>2, OwnsSame, OwnsLocal
<1>3. CASE AfterReconcile(c) /\ ~NextTarget(c)
  <2> DEFINE n == [j EXCEPT !.pc = "revalidate", !.gens = [t \in {j.t} |-> call[c].row.generation]]
  <2>1. Continue(c, n)
    BY <1>3 DEF AfterReconcile
  <2>2. n.pc = "revalidate" /\ n.batch = j.batch
    BY <1>j DEF Job
  <2> HIDE DEF n
  <2> QED
    BY <1>1, <2>1, <2>2, OwnsSame, OwnsLocal
<1>4. CASE ObservedDone(c)
  <2> DEFINE rows == IF InSignal(c) THEN j.gens
                     ELSE IF j.complete THEN ListCurrent(Targets) ELSE <<>>
             n == [j EXCEPT !.pc = "absent", !.phase = "absent", !.gens = rows,
                            !.complete = FALSE, !.todo = DOMAIN rows \ DOMAIN j.batch]
  <2>1. Continue(c, n)
    BY <1>4 DEF ObservedDone
  <2>2. n.pc = "absent" /\ n.batch = j.batch
    BY <1>j DEF Job
  <2> HIDE DEF n
  <2> QED
    BY <1>1, <2>1, <2>2, OwnsSame, OwnsLocal
<1>5. CASE AfterWrite(c)
  <2> DEFINE u == IF call[c].result = "race" THEN j.unapplied \cup {j.t} ELSE j.unapplied
             n == [j EXCEPT !.pc = j.phase, !.todo = @ \ {j.t}, !.expected = Gone, !.unapplied = u]
  <2>1. Continue(c, n)
    BY <1>5 DEF AfterWrite
  <2>2. n.pc = j.phase /\ n.batch = j.batch
    BY <1>j DEF Job
  <2> HIDE DEF n
  <2> QED
    BY <1>1, <1>j, <2>1, <2>2, OwnsSame, OwnsLocal
<1> QED
  BY <1>2, <1>3, <1>4, <1>5

LEMMA CallFrame ==
    ASSUME HandlerInv, NEW c \in Callers, Callable(c)
    PROVE  UNCHANGED <<item, outbox>> /\ \A d \in Callers \ {c} : call'[d] = call[d]
<1>1. UNCHANGED <<item, outbox>>
  BY DEF Callable, CallReconcile, CallConfirm, CallRemove, CallCoverage
<1>2. Progress(c)
  BY StoreNextProgress DEF HandlerInv
<1> QED
  BY <1>1, <1>2 DEF Progress

LEMMA OwnsCalling ==
    ASSUME HandlerInv, OwnershipInv, NEW c \in Callers, NEW n, Continue(c, n), Callable(c),
           UNCHANGED <<claims, providerVars>>, OwnedJob(n, live, left),
           OwnedCall(call'[c], live, left)
    PROVE  OwnershipInv'
BY CallFrame, OwnsMove

LEMMA ReconcileNextOwned ==
    ASSUME HandlerInv, OwnershipInv, NEW c \in Callers, ReconcileNext(c)
    PROVE  OwnershipInv'
<1> DEFINE j == job[c]
<1>1. PICK t \in j.todo : /\ CallReconcile(c, t, j.batch[t])
                          /\ Continue(c, [j EXCEPT !.pc = "reconciling", !.t = t])
  BY DEF ReconcileNext
<1> DEFINE n == [j EXCEPT !.pc = "reconciling", !.t = t]
<1>2. j.pc = "observed" /\ UNCHANGED <<claims, providerVars>> /\ Continue(c, n)
  BY <1>1 DEF ReconcileNext, At
<1>j. /\ j \in Job /\ Placed(j) /\ OwnedJob(j, live, left)
  BY JobTyped DEF OwnershipInv
<1>3. t \in Targets /\ t \in DOMAIN j.batch
  BY <1>2, <1>j DEF Job, Placed, Loop, Collecting
<1>4. j.batch[t] \in Observations
  BY <1>3, <1>j, PartTyped DEF Job
<1>5. /\ Callable(c) /\ call'[c].pc = "get" /\ call'[c].op = "reconcile" /\ call'[c].target = t
      /\ call'[c].obs = j.batch[t]
  BY <1>1, <1>3, <1>4, ReconcileCall, JobTyped
<1>6. OwnedCall(call'[c], live, left)
  BY <1>3, <1>5, <1>j DEF OwnedCall, OwnedJob
<1>8. n.pc = "reconciling" /\ n.batch = j.batch
  BY <1>j DEF Job
<1> HIDE DEF n
<1> QED
  BY <1>2, <1>5, <1>6, <1>8, OwnsSame, OwnsCalling

LEMMA CoverNextOwned ==
    ASSUME HandlerInv, OwnershipInv, NEW c \in Callers, CoverNext(c)
    PROVE  OwnershipInv'
<1> DEFINE j == job[c]
<1>1. PICK t \in j.todo : /\ CallCoverage(c, t, j.gens[t], j.bucket)
                          /\ Continue(c, [j EXCEPT !.pc = "covering", !.t = t])
  BY DEF CoverNext
<1> DEFINE n == [j EXCEPT !.pc = "covering", !.t = t]
<1>2. j.pc = "absent" /\ j.bucket # 0 /\ UNCHANGED <<claims, providerVars>> /\ Continue(c, n)
  BY <1>1 DEF CoverNext, At, InRescan
<1>j. /\ j \in Job /\ Placed(j) /\ Listed(j, item) /\ StoreInv
  BY JobTyped
<1>3. t \in Targets /\ t \in DOMAIN j.gens /\ j.bucket \in Buckets /\ j.gens[t] \in 1 .. item[t].generation
  BY <1>2, <1>j DEF Job, Placed, Loop, Listed
<1>5. Callable(c) /\ call'[c].op = "coverage"
  BY <1>1, <1>3, <1>j, CoverageCall
<1>6. OwnedCall(call'[c], live, left)
  BY <1>5 DEF OwnedCall
<1>8. n.pc = "covering" /\ n.batch = j.batch
  BY <1>j DEF Job
<1> HIDE DEF n
<1> QED
  BY <1>2, <1>5, <1>6, <1>8, OwnsSame, OwnsCalling

(* A verdict removes only what has left.                                   *)
LEMMA DecideOwned ==
    ASSUME HandlerInv, OwnershipInv, NEW c \in Callers,
           job[c].pc \in Checking \cup Loop, job[c].bucket = 0,
           NEW t, NEW verdict, NEW current \in Contents \cup {Gone},
           \/ job[c].pc \in Checking /\ t = job[c].t
           \/ verdict = "superseded" /\ current = Gone,
           Removes(verdict) => t \in left,
           current # Gone => Sure(t, current, live, left),
           Decide(c, t, verdict, current)
    PROVE  OwnershipInv'
<1> DEFINE j == job[c]
<1>j. /\ j \in Job /\ Placed(j) /\ Direct(j) /\ Listed(j, item) /\ StoreInv /\ j.phase \in Loop
  BY JobTyped DEF Job
<1>n. ASSUME NEW pc \in {"removing", "relive", "confirming"}
      PROVE  OwnedJob([j EXCEPT !.pc = pc], live, left)
  <2>1. [j EXCEPT !.pc = pc].pc = pc /\ [j EXCEPT !.pc = pc].batch = j.batch
    BY <1>j DEF Job
  <2> QED
    BY <2>1, OwnsSame
<1>1. CASE /\ Removes(verdict)
           /\ Await(c, "removing", CallRemove(c, t, j.gens[t], j.now))
  <2>1. j.pc \in Checking /\ t = j.t /\ t \in left
    BY <1>1 DEF Removes
  <2>2. t \in Targets /\ t \in DOMAIN j.gens /\ j.now \in Times /\ j.gens[t] \in 1 .. item[t].generation
    BY <2>1, <1>j DEF Placed, Job, Listed, Checking
  <2>3. /\ CallRemove(c, t, j.gens[t], j.now) /\ Continue(c, [j EXCEPT !.pc = "removing"])
        /\ UNCHANGED <<claims, providerVars>>
    BY <1>1 DEF Await, GotoPc
  <2>4. /\ Callable(c) /\ call'[c].op = "remove" /\ call'[c].target = t
    BY <1>j, <2>2, <2>3, RemoveCall
  <2>5. OwnedCall(call'[c], live, left)
    BY <2>1, <2>4 DEF OwnedCall
  <2> QED
    BY <1>n, <2>3, <2>4, <2>5, OwnsCalling
<1>2. CASE /\ ReconcilesLive(c, verdict, current)
           /\ Await(c, "relive", CallReconcile(c, t, DirectObservation(current, j.now)))
  <2>1. j.pc \in Checking /\ t = j.t /\ current \in Contents /\ current # Gone
    BY <1>2 DEF ReconcilesLive
  <2>2. t \in Targets /\ j.now \in Times
    BY <2>1, <1>j DEF Placed, Job, Checking
  <2> DEFINE o == DirectObservation(current, j.now)
  <2>3. /\ CallReconcile(c, t, o) /\ Continue(c, [j EXCEPT !.pc = "relive"])
        /\ UNCHANGED <<claims, providerVars>>
    BY <1>2 DEF Await, GotoPc
  <2>o. o \in Observations /\ o.content = current
    BY <2>1, <2>2, BackendAssumption DEF DirectObservation
  <2> HIDE DEF o
  <2>4. /\ Callable(c) /\ call'[c].op = "reconcile" /\ call'[c].target = t /\ call'[c].obs = o
    BY <1>j, <2>2, <2>3, <2>o, ReconcileCall
  <2>5. OwnedCall(call'[c], live, left)
    BY <2>1, <2>4, <2>o DEF OwnedCall
  <2> QED
    BY <1>n, <2>3, <2>4, <2>5, OwnsCalling
<1>3. CASE /\ Confirms(c, verdict)
           /\ Await(c, "confirming", CallConfirm(c, j.batch[t]))
  <2>1. j.pc \in Checking /\ t = j.t /\ j.phase = "observed"
    BY <1>3 DEF Confirms
  <2>2. t \in DOMAIN j.batch
    BY <2>1, <1>j DEF Placed
  <2>o. j.batch[t] \in Observations
    BY <2>2, <1>j, PartTyped DEF Job
  <2>3. /\ CallConfirm(c, j.batch[t]) /\ Continue(c, [j EXCEPT !.pc = "confirming"])
        /\ UNCHANGED <<claims, providerVars>>
    BY <1>3 DEF Await, GotoPc
  <2>4. Callable(c) /\ call'[c].op = "confirm"
    BY <1>j, <2>2, <2>3, <2>o, ConfirmCall
  <2>5. OwnedCall(call'[c], live, left)
    BY <2>4 DEF OwnedCall
  <2> QED
    BY <1>n, <2>3, <2>4, <2>5, OwnsCalling
<1>4. CASE /\ Continue(c, [j EXCEPT !.pc = j.phase, !.todo = @ \ {t}, !.expected = Gone,
                             !.unapplied = IF verdict \in {"unknown", "active"}
                                           THEN @ \cup {t} ELSE @])
           /\ Local(c)
  <2> DEFINE n == [j EXCEPT !.pc = j.phase, !.todo = @ \ {t}, !.expected = Gone,
                            !.unapplied = IF verdict \in {"unknown", "active"}
                                          THEN @ \cup {t} ELSE @]
  <2>1. n.pc = j.phase /\ n.batch = j.batch
    BY <1>j DEF Job
  <2>2. Continue(c, n)
    BY <1>4
  <2> HIDE DEF n
  <2>3. OwnedJob(n, live, left)
    BY <1>j, <2>1, OwnsSame DEF Loop
  <2> QED
    BY <1>4, <2>2, <2>3, OwnsLocal
<1> QED
  BY <1>1, <1>2, <1>3, <1>4 DEF Decide

(* What has not left is found by every ownership check.                    *)
LEMMA VerdictSound ==
    ASSUME HandlerInv, OwnershipInv, NEW t \in Targets, NEW was, Sure(t, was, live, left)
    PROVE  Removes(LiveVerdict(was, live[t])) => t \in left
<1> SUFFICES ASSUME t \notin left PROVE ~Removes(LiveVerdict(was, live[t]))
  OBVIOUS
<1>1. live[t] # Gone /\ was.ip = live[t].ip /\ live[t].life = "running"
  BY DEF OwnershipInv, OwnedRows, Sure
<1> QED
  BY <1>1 DEF Removes, LiveVerdict

LEMMA ValidateOwned ==
    ASSUME HandlerInv, OwnershipInv, NEW c \in Callers,
           ValidateGet(c) \/ ValidateLive(c) \/ ValidateFinal(c)
    PROVE  OwnershipInv'
<1> DEFINE j == job[c]
<1>j. /\ j \in Job /\ Placed(j) /\ OwnedJob(j, live, left) /\ StoreInv
      /\ item \in [Targets -> Item] /\ \A t \in Targets : WellFormed(item[t])
  BY JobTyped DEF OwnershipInv, StoreInv, StoreTypeOK
<1>1. CASE ValidateGet(c)
  <2>1. PICK t \in IF At(c, "revalidate") THEN {j.t} ELSE j.todo :
          /\ At(c, "revalidate") \/ (At(c, "absent") /\ ~InRescan(c))
          /\ \/ /\ Expected(c, t, j.gens[t])
                /\ Continue(c, [j EXCEPT !.pc = "live", !.t = t, !.expected = item[t].content])
                /\ Local(c)
             \/ Decide(c, t, "superseded", Gone)
    BY <1>1 DEF ValidateGet
  <2>2. j.pc \in {"revalidate", "absent"} /\ j.bucket = 0 /\ (j.pc = "revalidate" => t = j.t)
        /\ (j.pc = "absent" => t \in j.todo)
    BY <2>1, <1>j DEF At, InRescan, Placed
  <2>3. t \in Targets
    BY <2>2, <1>j DEF Job
  <2>4. CASE Decide(c, t, "superseded", Gone)
    <3>1. ~Removes("superseded")
      BY DEF Removes
    <3> QED
      BY <2>2, <2>4, <3>1, DecideOwned DEF Checking, Loop
  <2>5. CASE /\ Expected(c, t, j.gens[t]) /\ Local(c)
             /\ Continue(c, [j EXCEPT !.pc = "live", !.t = t, !.expected = item[t].content])
    <3> DEFINE n == [j EXCEPT !.pc = "live", !.t = t, !.expected = item[t].content]
    <3>1. Continue(c, n) /\ Local(c)
      BY <2>5
    <3>2. Exists(item[t])
      BY <1>j, <2>3, <2>5 DEF Expected, Exists, WellFormed
    <3>3. Sure(t, item[t].content, live, left)
      BY <2>3, <3>2 DEF OwnershipInv, OwnedRows
    <3>4. n.pc = "live" /\ n.batch = j.batch /\ n.t = t /\ n.expected = item[t].content
      BY <1>j DEF Job
    <3> HIDE DEF n
    <3>5. OwnedJob(n, live, left)
      BY <1>j, <3>3, <3>4 DEF OwnedJob
    <3> QED
      BY <3>1, <3>5, OwnsLocal
  <2> QED
    BY <2>1, <2>4, <2>5
<1>2. CASE ValidateLive(c)
  <2> DEFINE t == j.t
             verdict == LiveVerdict(j.expected, live[t])
             n == [j EXCEPT !.pc = "final", !.expected = live[t]]
  <2>1. /\ j.pc = "live"
        /\ \/ Decide(c, t, "unknown", Gone)
           \/ Decide(c, t, verdict, live[t])
           \/ verdict = "active" /\ Continue(c, n) /\ Local(c)
    BY <1>2 DEF ValidateLive, At
  <2>2. t \in Targets /\ live[t] \in Contents \cup {Gone} /\ j.bucket = 0 /\ j.pc \in Checking
    BY <2>1, <1>j, ClockTyped DEF Provider, Job, Placed, Checking
  <2>3. Sure(t, j.expected, live, left) /\ (live[t] # Gone => Sure(t, live[t], live, left))
    BY <1>j, <2>1 DEF OwnedJob, Sure
  <2>4. CASE Decide(c, t, "unknown", Gone)
    <3>1. ~Removes("unknown")
      BY DEF Removes
    <3> QED
      BY <2>2, <2>4, <3>1, DecideOwned
  <2>5. CASE Decide(c, t, verdict, live[t])
    <3>1. Removes(verdict) => t \in left
      BY <2>2, <2>3, VerdictSound
    <3> QED
      BY <2>2, <2>3, <2>5, <3>1, DecideOwned
  <2>6. CASE verdict = "active" /\ Continue(c, n) /\ Local(c)
    <3>1. live[t] # Gone
      BY <2>6 DEF LiveVerdict
    <3>2. n.pc = "final" /\ n.batch = j.batch /\ n.t = t /\ n.expected = live[t]
      BY <1>j DEF Job
    <3> HIDE DEF n
    <3>3. OwnedJob(n, live, left)
      BY <1>j, <2>3, <3>1, <3>2 DEF OwnedJob
    <3> QED
      BY <2>6, <3>3, OwnsLocal
  <2> QED
    BY <2>1, <2>4, <2>5, <2>6
<1>3. CASE ValidateFinal(c)
  <2> DEFINE verdict == IF Expected(c, j.t, j.gens[j.t]) THEN "active" ELSE "superseded"
  <2>1. j.pc = "final" /\ Decide(c, j.t, verdict, j.expected)
    BY <1>3 DEF ValidateFinal, At
  <2>2. j.expected \in Contents \cup {Gone} /\ j.bucket = 0 /\ j.pc \in Checking
    BY <1>j, <2>1 DEF Job, Placed, Checking
  <2>3. Sure(j.t, j.expected, live, left) /\ ~Removes(verdict)
    BY <1>j, <2>1 DEF OwnedJob, Removes
  <2> QED
    BY <2>1, <2>2, <2>3, DecideOwned
<1> QED
  BY <1>1, <1>2, <1>3

LEMMA AfterLiveOwned ==
    ASSUME HandlerInv, OwnershipInv, NEW c \in Callers, AfterLive(c)
    PROVE  OwnershipInv'
<1> DEFINE j == job[c]
<1>1. /\ j.pc = "relive" /\ call[c].pc = "idle"
      /\ \/ j.phase = "observed" /\ Await(c, "confirming", CallConfirm(c, j.batch[j.t]))
         \/ NextTarget(c) /\ Local(c)
  BY DEF AfterLive, Answered, At, Idle
<1>j. /\ j \in Job /\ Placed(j) /\ StoreInv /\ j.phase \in Loop
  BY JobTyped DEF Job
<1>2. CASE NextTarget(c) /\ Local(c)
  <2> DEFINE n == [j EXCEPT !.pc = j.phase, !.todo = @ \ {j.t}, !.expected = Gone]
  <2>1. Continue(c, n)
    BY <1>2 DEF NextTarget
  <2>2. n.pc = j.phase /\ n.batch = j.batch
    BY <1>j DEF Job
  <2> HIDE DEF n
  <2>3. OwnedJob(n, live, left)
    BY <1>j, <2>2, OwnsSame DEF Loop
  <2> QED
    BY <1>2, <2>1, <2>3, OwnsLocal
<1>3. CASE j.phase = "observed" /\ Await(c, "confirming", CallConfirm(c, j.batch[j.t]))
  <2> DEFINE n == [j EXCEPT !.pc = "confirming"]
  <2>o. j.batch[j.t] \in Observations
    <3>1. j.t \in DOMAIN j.batch
      BY <1>1, <1>3, <1>j DEF Placed, Waiting
    <3> QED
      BY <3>1, <1>j, PartTyped DEF Job
  <2>3. /\ CallConfirm(c, j.batch[j.t]) /\ Continue(c, n) /\ UNCHANGED <<claims, providerVars>>
    BY <1>3 DEF Await, GotoPc
  <2>4. Callable(c) /\ call'[c].op = "confirm"
    BY <1>j, <2>3, <2>o, ConfirmCall
  <2>5. OwnedCall(call'[c], live, left)
    BY <2>4 DEF OwnedCall
  <2>6. n.pc = "confirming" /\ n.batch = j.batch
    BY <1>j DEF Job
  <2> HIDE DEF n
  <2> QED
    BY <2>3, <2>4, <2>5, <2>6, OwnsSame, OwnsCalling
<1> QED
  BY <1>1, <1>2, <1>3

LEMMA EndOwned ==
    ASSUME HandlerInv, OwnershipInv, NEW c \in Callers, Finish(c) \/ Raise(c) \/ Crash(c)
    PROVE  OwnershipInv'
<1>1. /\ Continue(c, NoJob) /\ call' = [call EXCEPT ![c] = NoCall] /\ UNCHANGED <<item, outbox>>
      /\ UNCHANGED providerVars
  BY DEF Finish, Raise, Crash
<1>2. call'[c] = NoCall /\ \A d \in Callers \ {c} : call'[d] = call[d]
  BY <1>1, JobTyped DEF StoreTypeOK
<1>3. OwnedCall(call'[c], live, left)
  <2>1. NoCall.pc = "idle"
    BY DEF NoCall
  <2> QED
    BY <1>2, <2>1 DEF OwnedCall
<1> QED
  BY <1>1, <1>2, <1>3, OwnsNothing, OwnsMove

(* What a step of the store may write.                                     *)
LEMMA StoreWrites ==
    ASSUME StoreInv, NEW c \in Callers, StoreStep(c)
    PROVE  /\ \A t \in Targets : Exists(item'[t]) =>
                 \/ Exists(item[t]) /\ item'[t].content = item[t].content
                 \/ /\ call[c].op = "reconcile" /\ call[c].target = t
                    /\ item'[t].content.ip = call[c].obs.content.ip
           /\ \A e \in outbox' \ outbox :
                 e.reason = "removed" => call[c].op = "remove" /\ e.target = call[c].target
<1> DEFINE k == call[c]
           i == k.row
           u == k.target
<1>0. /\ k \in Call /\ u \in Targets /\ item \in [Targets -> Item] /\ Sound(k, item)
      /\ k.obs \in Observation /\ i \in Item
  BY DEF StoreInv, StoreTypeOK, Call
<1>1. CASE UNCHANGED <<item, outbox>>
  BY <1>1
<1>2. CASE ReconcilePut(c)
  <2> DEFINE j == Reconciled(k.obs, i)
             e == EventFor(u, j, ReasonFor(i, j), 0)
  <2>1. \/ item' = [item EXCEPT ![u] = j] /\ outbox' \subseteq outbox \cup {e}
        \/ UNCHANGED <<item, outbox>>
    BY <1>2 DEF ReconcilePut
  <2>2. k.op = "reconcile"
    BY <1>2 DEF ReconcilePut
  <2>3. j.content.ip = k.obs.content.ip
    <3>1. k.obs.content \in Contents /\ i.content \in Contents
      BY <1>0 DEF Observation, Item
    <3>2. j.content \in {k.obs.content, PreservingKnownLifecycle(k.obs.content, i.content)}
      BY DEF Reconciled
    <3>3. PreservingKnownLifecycle(k.obs.content, i.content).ip = k.obs.content.ip
      BY <3>1, AddressKept DEF PreservingKnownLifecycle
    <3> QED
      BY <3>2, <3>3
  <2>4. e.reason # "removed"
    BY DEF EventFor, ReasonFor
  <2> HIDE DEF j, e
  <2> QED
    BY <1>0, <1>1, <2>1, <2>2, <2>3, <2>4
<1>3. CASE ConfirmPut(c)
  <2> DEFINE j == Confirmed(k.obs, i)
  <2>1. \/ item' = [item EXCEPT ![u] = j] /\ Unmoved(u, i) /\ outbox' = outbox
        \/ UNCHANGED <<item, outbox>>
    BY <1>3 DEF ConfirmPut
  <2>2. CASE item' = [item EXCEPT ![u] = j] /\ Unmoved(u, i) /\ outbox' = outbox
    <3>1. Exists(i)
      BY <1>0, <1>3 DEF Sound, ConfirmPut
    <3>2. i.generation = item[u].generation /\ i.content = item[u].content
      BY <1>0, <2>2, <3>1 DEF Sound, Precedes, Unmoved
    <3>3. j.content = i.content
      BY <1>0 DEF Confirmed, Item
    <3> HIDE DEF j
    <3> QED
      BY <1>0, <2>2, <3>1, <3>2, <3>3 DEF Exists
  <2> QED
    BY <1>1, <2>1, <2>2
<1>4. CASE RemovePut(c)
  <2> DEFINE j == Removed(k.obs.observed_at, i)
             e == EventFor(u, j, "removed", 0)
  <2>1. \/ item' = [item EXCEPT ![u] = j] /\ Unmoved(u, i) /\ outbox' = outbox \cup {e}
        \/ UNCHANGED <<item, outbox>>
    BY <1>4 DEF RemovePut
  <2>2. CASE item' = [item EXCEPT ![u] = j] /\ Unmoved(u, i) /\ outbox' = outbox \cup {e}
    <3>1. Exists(i) /\ k.op = "remove"
      BY <1>0, <1>4 DEF Sound, RemovePut, Exists, WellFormed
    <3>2. i.generation = item[u].generation /\ i.content = item[u].content
      BY <1>0, <2>2, <3>1 DEF Sound, Precedes, Unmoved
    <3>3. j.content = i.content
      BY <1>0 DEF Removed, Item
    <3>4. e.target = u
      BY DEF EventFor
    <3> HIDE DEF j, e
    <3> QED
      BY <1>0, <2>2, <3>1, <3>2, <3>3, <3>4 DEF Exists
  <2> QED
    BY <1>1, <2>1, <2>2
<1>5. CASE CoveragePut(c)
  <2> DEFINE e == EventFor(u, i, "coverage", k.bucket)
  <2>1. item' = item /\ outbox' \subseteq outbox \cup {e}
    BY <1>5 DEF CoveragePut
  <2>2. e.reason # "removed"
    BY DEF EventFor
  <2> HIDE DEF e
  <2> QED
    BY <2>1, <2>2
<1> QED
  BY <1>1, <1>2, <1>3, <1>4, <1>5
  DEF StoreStep, ReconcileGet, RemoveGet, CoverageGet, RereadAfterConflict, StoreRaises

LEMMA StoreWorksOwned ==
    ASSUME HandlerInv, OwnershipInv, NEW c \in Callers, StoreWorks(c)
    PROVE  OwnershipInv'
<1> DEFINE k == call[c]
<1>1. StoreStep(c) /\ UNCHANGED job /\ UNCHANGED providerVars
  BY DEF StoreWorks
<1>2. StoreInv /\ Progress(c) /\ Steps(k, call'[c]) /\ k \in Call
  BY <1>1, JobTyped, StoreNextProgress, StoreSteps
<1>3. live' = live /\ left' = left /\ capture' = capture
  BY <1>1 DEF providerVars
<1>4. OwnedCall(k, live, left) /\ k.pc # "idle"
  BY <1>2 DEF OwnershipInv, Steps
<1>5. OwnedCall(call'[c], live, left)
  BY <1>2, <1>4 DEF OwnedCall, Steps, SameCall
<1>6. \A t \in Targets : Exists(item'[t]) => Sure(t, item'[t].content, live, left)
  BY <1>1, <1>2, <1>4, StoreWrites DEF OwnedCall, OwnershipInv, OwnedRows, Sure
<1>7. NoFalseRemoval'
  BY <1>1, <1>2, <1>3, <1>4, StoreWrites DEF OwnedCall, OwnershipInv, OwnedRows, NoFalseRemoval
<1>8. OwnedRows'
  BY <1>3, <1>6, <1>7 DEF OwnedRows, OwnershipInv
<1>9. ASSUME NEW d \in Callers
      PROVE  OwnedJob(job'[d], live', left') /\ OwnedCall(call'[d], live', left')
  BY <1>1, <1>2, <1>3, <1>5 DEF OwnershipInv, Progress
<1> QED
  BY <1>8, <1>9 DEF OwnershipInv

(* What stays is still what was recorded.                                  *)
LEMMA SureStable ==
    ASSUME HandlerInv, Tick, NEW t \in Targets, NEW content, Sure(t, content, live, left)
    PROVE  Sure(t, content, live', left')
BY DEF Tick, Sure, Lost

LEMMA TickOwned ==
    ASSUME HandlerInv, OwnershipInv, Tick
    PROVE  OwnershipInv'
<1>1. left \subseteq left' /\ UNCHANGED <<item, outbox, call, capture, job>>
  BY DEF Tick
<1>2. \A t \in Targets \ left' : live'[t] # Gone => live'[t].life = "running"
  BY DEF Tick, Lost, Stopped
<1>3. OwnedRows'
  BY <1>1, <1>2, SureStable DEF OwnershipInv, OwnedRows, NoFalseRemoval
<1>4. ASSUME NEW c \in Callers
      PROVE  OwnedJob(job'[c], live', left') /\ OwnedCall(call'[c], live', left')
  <2>1. job[c] \in Job /\ call[c] \in Call /\ OwnedJob(job[c], live, left) /\ OwnedCall(call[c], live, left)
    BY JobTyped DEF OwnershipInv
  <2>2. DOMAIN job[c].batch \subseteq Targets /\ DOMAIN job[c].seen \subseteq Targets /\ job[c].t \in Targets
        /\ call[c].target \in Targets
    BY <2>1, PartTyped DEF Job, Call
  <2>3. OwnedJob(job[c], live', left')
    BY <2>1, <2>2, SureStable DEF OwnedJob
  <2>4. OwnedCall(call[c], live', left')
    BY <1>1, <2>1, <2>2, SureStable DEF OwnedCall
  <2> QED
    BY <1>1, <2>3, <2>4
<1> QED
  BY <1>3, <1>4 DEF OwnershipInv

LEMMA RecordsOwned ==
    ASSUME HandlerInv, OwnershipInv, NEW t \in Targets, Records(t)
    PROVE  OwnershipInv'
<1>1. UNCHANGED <<item, outbox, call, live, left, job>>
  BY DEF Records
<1>2. capture \in [Targets -> Capture]
  BY DEF HandlerInv, World
<1>3. \A u \in Targets : capture'[u].eni \in {capture[u].eni, live[u]}
  BY <1>2 DEF Records, Capture
<1>4. \A u \in Targets : capture'[u].eni # Gone => Sure(u, capture'[u].eni, live, left)
  BY <1>3 DEF OwnershipInv, OwnedRows, Sure
<1> QED
  BY <1>1, <1>4 DEF OwnershipInv, OwnedRows, NoFalseRemoval

LEMMA OwnershipInitially == InventoryInit => OwnershipInv
<1> SUFFICES ASSUME InventoryInit PROVE OwnershipInv
  OBVIOUS
<1>1. OwnedRows
  <2>1. \A t \in Targets : ~Exists(item[t]) /\ capture[t].eni = Gone
    BY NoItemType DEF InventoryInit, StoreInit
  <2>2. \A t \in Targets \ left : live[t] # Gone => live[t].life = "running"
    BY DEF InventoryInit, Stopped
  <2> QED
    BY <2>1, <2>2 DEF OwnedRows, NoFalseRemoval, InventoryInit, StoreInit
<1>2. \A c \in Callers : job[c] = NoJob /\ call[c] = NoCall
  BY DEF InventoryInit, StoreInit
<1>3. OwnedCall(NoCall, live, left)
  <2>1. NoCall.pc = "idle"
    BY DEF NoCall
  <2> QED
    BY <2>1 DEF OwnedCall
<1> QED
  BY <1>1, <1>2, <1>3, OwnsNothing DEF OwnershipInv

LEMMA OwnershipPreserved ==
    HandlerInv /\ OwnershipInv /\ [InventoryNext]_inventoryVars => OwnershipInv'
<1> SUFFICES ASSUME HandlerInv, OwnershipInv, [InventoryNext]_inventoryVars
             PROVE  OwnershipInv'
  OBVIOUS
<1>1. CASE Tick
  BY <1>1, TickOwned
<1>2. ASSUME NEW t \in Targets, Records(t) PROVE OwnershipInv'
  BY <1>2, RecordsOwned
<1>3. ASSUME NEW c \in Callers, StartSnapshot(c) \/ StartSignal(c) \/ StartRescan(c)
      PROVE  OwnershipInv'
  BY <1>3, StartOwned
<1>4. ASSUME NEW c \in Callers, HandlerStep(c)
      PROVE  OwnershipInv'
  <2>1. CASE CollectGroups(c) \/ CollectInterfaces(c) \/ CollectInstances(c) \/ CollectCaptures(c)
    BY <2>1, ListingOwned
  <2>2. CASE Resolve(c) \/ Claim(c) \/ FindCandidates(c)
    BY <2>2, SignalOwned
  <2>3. CASE ReconcileNext(c) \/ CoverNext(c) \/ AfterLive(c)
    BY <2>3, ReconcileNextOwned, CoverNextOwned, AfterLiveOwned
  <2>4. CASE AfterReconcile(c) \/ ObservedDone(c) \/ AfterWrite(c)
    BY <2>4, LoopOwned
  <2>5. CASE ValidateGet(c) \/ ValidateLive(c) \/ ValidateFinal(c)
    BY <2>5, ValidateOwned
  <2>6. CASE Finish(c) \/ Raise(c)
    BY <2>6, EndOwned
  <2> QED
    BY <1>4, <2>1, <2>2, <2>3, <2>4, <2>5, <2>6 DEF HandlerStep
<1>5. ASSUME NEW c \in Callers, StoreWorks(c) \/ Crash(c)
      PROVE  OwnershipInv'
  BY <1>5, StoreWorksOwned, EndOwned
<1>6. CASE UNCHANGED inventoryVars
  BY <1>6 DEF inventoryVars, OwnershipInv, OwnedRows, NoFalseRemoval
<1> QED
  BY <1>1, <1>2, <1>3, <1>4, <1>5, <1>6 DEF InventoryNext

(***************************************************************************)
(* A target the provider has had at one address, running, all along is     *)
(* never removed: no interleaving of listings, captures, ownership checks  *)
(* and failed reads gets one wrong.                                        *)
(***************************************************************************)
THEOREM InventoryRemovals == InventorySpec => []NoFalseRemoval
<1>1. OwnershipInv => NoFalseRemoval
  BY DEF OwnershipInv, OwnedRows
<1> QED
  BY <1>1, OwnershipInitially, OwnershipPreserved, InventoryHandlers, PTL DEF InventorySpec

-----------------------------------------------------------------------------
(* A handler's step leaves the rows, the events and the others alone.      *)
Frame(c) ==
    /\ UNCHANGED <<item, outbox>>
    /\ \A d \in Callers \ {c} : job'[d] = job[d] /\ call'[d] = call[d]

LEMMA ContinueFrame ==
    ASSUME HandlerInv, NEW c \in Callers, NEW n, Continue(c, n)
    PROVE  job'[c] = n /\ \A d \in Callers \ {c} : job'[d] = job[d]
BY DEF HandlerInv, Continue

LEMMA LocalFrame ==
    ASSUME HandlerInv, NEW c \in Callers, Local(c)
    PROVE  UNCHANGED <<item, outbox, call>>
BY DEF Local

LEMMA MadeFrame ==
    ASSUME HandlerInv, NEW c \in Callers, NEW t, NEW o, NEW g, NEW a,
           \/ CallReconcile(c, t, o) \/ CallConfirm(c, o)
           \/ CallRemove(c, t, g, a) \/ CallCoverage(c, t, g, a)
    PROVE  UNCHANGED <<item, outbox>> /\ \A d \in Callers \ {c} : call'[d] = call[d]
<1>1. call \in [Callers -> Call]
  BY JobTyped DEF HandlerInv, StoreInv, StoreTypeOK
<1>2. CASE CallReconcile(c, t, o)
  BY <1>1, <1>2 DEF CallReconcile
<1>3. CASE CallConfirm(c, o)
  BY <1>1, <1>3 DEF CallConfirm
<1>4. CASE CallRemove(c, t, g, a)
  BY <1>1, <1>4 DEF CallRemove
<1>5. CASE CallCoverage(c, t, g, a)
  BY <1>1, <1>5 DEF CallCoverage
<1> QED
  BY <1>2, <1>3, <1>4, <1>5

LEMMA DecideFrame ==
    ASSUME HandlerInv, NEW c \in Callers, NEW t, NEW verdict, NEW current,
           Decide(c, t, verdict, current)
    PROVE  Frame(c)
<1>1. \E n : Continue(c, n)
  BY DEF Decide, Await, GotoPc
<1>2. UNCHANGED <<item, outbox>> /\ \A d \in Callers \ {c} : call'[d] = call[d]
  <2>1. CASE Local(c)
    BY <2>1, LocalFrame
  <2>2. CASE \/ CallRemove(c, t, job[c].gens[t], job[c].now)
             \/ CallReconcile(c, t, DirectObservation(current, job[c].now))
             \/ CallConfirm(c, job[c].batch[t])
    BY <2>2, MadeFrame
  <2> QED
    BY <2>1, <2>2 DEF Decide, Await
<1> QED
  BY <1>1, <1>2, ContinueFrame DEF Frame

LEMMA HandlerFrame ==
    ASSUME HandlerInv, NEW c \in Callers,
           StartSnapshot(c) \/ StartSignal(c) \/ StartRescan(c) \/ HandlerStep(c) \/ Crash(c)
    PROVE  Frame(c)
<1>1. CASE StartSnapshot(c) \/ StartSignal(c) \/ StartRescan(c)
  <2>1. Local(c) /\ \E n : Continue(c, n)
    BY <1>1 DEF StartSnapshot, StartSignal, StartRescan
  <2> QED
    BY <2>1, LocalFrame, ContinueFrame DEF Frame
<1>2. CASE CollectGroups(c) \/ CollectInterfaces(c) \/ CollectInstances(c) \/ CollectCaptures(c)
  <2>1. Local(c) /\ \E n : Continue(c, n)
    BY <1>2 DEF CollectGroups, CollectInterfaces, CollectInstances, CollectCaptures,
                Collected, CollectedPartly
  <2> QED
    BY <2>1, LocalFrame, ContinueFrame DEF Frame
<1>3. CASE Resolve(c) \/ Claim(c) \/ FindCandidates(c)
  <2>1. UNCHANGED <<item, outbox, call>> /\ \E n : Continue(c, n)
    BY <1>3 DEF Resolve, Claim, FindCandidates, GotoPc, Local
  <2> QED
    BY <2>1, ContinueFrame DEF Frame
<1>4. CASE AfterReconcile(c) \/ ObservedDone(c) \/ AfterWrite(c)
  <2>1. Local(c) /\ \E n : Continue(c, n)
    BY <1>4 DEF AfterReconcile, ObservedDone, AfterWrite, NextTarget
  <2> QED
    BY <2>1, LocalFrame, ContinueFrame DEF Frame
<1>5. CASE ReconcileNext(c)
  <2>1. PICK t : CallReconcile(c, t, job[c].batch[t]) /\ \E n : Continue(c, n)
    BY <1>5 DEF ReconcileNext
  <2> QED
    BY <2>1, MadeFrame, ContinueFrame DEF Frame
<1>6. CASE CoverNext(c)
  <2>1. PICK t : CallCoverage(c, t, job[c].gens[t], job[c].bucket) /\ \E n : Continue(c, n)
    BY <1>6 DEF CoverNext
  <2> QED
    BY <2>1, MadeFrame, ContinueFrame DEF Frame
<1>7. CASE ValidateGet(c)
  <2>1. (Local(c) /\ \E n : Continue(c, n)) \/ \E t : Decide(c, t, "superseded", Gone)
    BY <1>7 DEF ValidateGet
  <2> QED
    BY <2>1, DecideFrame, LocalFrame, ContinueFrame DEF Frame
<1>8. CASE ValidateLive(c)
  <2>1. (Local(c) /\ \E n : Continue(c, n)) \/ \E t, v, l : Decide(c, t, v, l)
    BY <1>8 DEF ValidateLive
  <2> QED
    BY <2>1, DecideFrame, LocalFrame, ContinueFrame DEF Frame
<1>9. CASE ValidateFinal(c)
  <2>1. \E t, v, l : Decide(c, t, v, l)
    BY <1>9 DEF ValidateFinal
  <2> QED
    BY <2>1, DecideFrame
<1>10. CASE AfterLive(c)
  <2>1. /\ \E n : Continue(c, n)
        /\ Local(c) \/ CallConfirm(c, job[c].batch[job[c].t])
    BY <1>10 DEF AfterLive, NextTarget, Await, GotoPc
  <2> QED
    BY <2>1, MadeFrame, LocalFrame, ContinueFrame DEF Frame
<1>11. CASE Finish(c) \/ Raise(c) \/ Crash(c)
  <2>1. /\ Continue(c, NoJob) /\ call' = [call EXCEPT ![c] = NoCall] /\ UNCHANGED <<item, outbox>>
    BY <1>11 DEF Finish, Raise, Crash
  <2>2. \A d \in Callers \ {c} : call'[d] = call[d]
    BY <2>1, JobTyped DEF StoreTypeOK
  <2> QED
    BY <2>1, <2>2, ContinueFrame DEF Frame
<1> QED
  BY <1>1, <1>2, <1>3, <1>4, <1>5, <1>6, <1>7, <1>8, <1>9, <1>10, <1>11 DEF HandlerStep

(* Only a rescan has a bucket.                                             *)
LEMMA ContinueKeeps ==
    ASSUME HandlerInv, NEW c \in Callers
    PROVE  /\ \A pc : GotoPc(c, pc) => job'[c].bucket = job[c].bucket /\ job'[c].signal = job[c].signal
           /\ NextTarget(c) => job'[c].bucket = job[c].bucket /\ job'[c].signal = job[c].signal
           /\ \A batch, complete : Collected(c, batch, complete) =>
                 job'[c].bucket = job[c].bucket /\ job'[c].signal = job[c].signal
           /\ Continue(c, NoJob) => job'[c].bucket = 0 /\ job'[c].signal = "none"
<1>1. job \in [Callers -> Job]
  BY DEF HandlerInv
<1>2. \A pc : GotoPc(c, pc) => job'[c].bucket = job[c].bucket /\ job'[c].signal = job[c].signal
  BY <1>1 DEF GotoPc, Continue, Job
<1>3. NextTarget(c) => job'[c].bucket = job[c].bucket /\ job'[c].signal = job[c].signal
  BY <1>1 DEF NextTarget, Continue, Job
<1>4. \A batch, complete : Collected(c, batch, complete) =>
         job'[c].bucket = job[c].bucket /\ job'[c].signal = job[c].signal
  BY <1>1 DEF Collected, Continue, Job
<1>5. Continue(c, NoJob) => job'[c].bucket = 0 /\ job'[c].signal = "none"
  BY <1>1, NoJobFit DEF Continue
<1> QED
  BY <1>2, <1>3, <1>4, <1>5

LEMMA DecideKeeps ==
    ASSUME HandlerInv, NEW c \in Callers, NEW t, NEW verdict, NEW current,
           Decide(c, t, verdict, current)
    PROVE  job'[c].bucket = job[c].bucket /\ job'[c].signal = job[c].signal
<1>1. job \in [Callers -> Job]
  BY DEF HandlerInv
<1>2. CASE \E pc : GotoPc(c, pc)
  BY <1>2, ContinueKeeps
<1>3. CASE Continue(c, [job[c] EXCEPT !.pc = job[c].phase, !.todo = @ \ {t}, !.expected = Gone,
                             !.unapplied = IF verdict \in {"unknown", "active"}
                                           THEN @ \cup {t} ELSE @])
  BY <1>1, <1>3 DEF Continue, Job
<1> QED
  BY <1>2, <1>3 DEF Decide, Await

LEMMA OutsideRescan ==
    ASSUME HandlerInv, NEW c \in Callers,
           \/ StartSnapshot(c) \/ StartSignal(c) \/ Crash(c)
           \/ HandlerStep(c) /\ ~CoverNext(c) /\ ~AfterWrite(c)
    PROVE  job'[c].bucket = 0
<1> DEFINE j == job[c]
<1>j. job \in [Callers -> Job] /\ j \in Job /\ (j.pc \notin {"absent", "covering"} => j.bucket = 0)
  BY JobTyped DEF HandlerInv, Placed
<1>1. CASE StartSnapshot(c) \/ StartSignal(c)
  <2>1. PICK pc, now, s : \/ Continue(c, [NoJob EXCEPT !.pc = pc, !.now = now])
                          \/ Continue(c, [NoJob EXCEPT !.pc = pc, !.now = now, !.signal = s])
    BY <1>1 DEF StartSnapshot, StartSignal
  <2>2. /\ [NoJob EXCEPT !.pc = pc, !.now = now].bucket = 0
        /\ [NoJob EXCEPT !.pc = pc, !.now = now, !.signal = s].bucket = 0
    BY DEF NoJob
  <2> QED
    BY <2>1, <2>2, ContinueFrame
<1>2. CASE CollectGroups(c) \/ CollectInterfaces(c)
  <2>1. j.bucket = 0
    BY <1>2, <1>j DEF CollectGroups, CollectInterfaces, At
  <2>2. \E pc, seen : Continue(c, [j EXCEPT !.pc = pc, !.seen = seen])
    BY <1>2 DEF CollectGroups, CollectInterfaces
  <2> QED
    BY <1>j, <2>1, <2>2 DEF Continue, Job
<1>3. CASE CollectInstances(c) \/ CollectCaptures(c)
  BY <1>3, <1>j, ContinueKeeps DEF CollectInstances, CollectCaptures, CollectedPartly, At
<1>4. CASE Resolve(c) \/ Claim(c) \/ FindCandidates(c)
  <2>1. j.bucket = 0
    BY <1>4, <1>j DEF Resolve, Claim, FindCandidates, At
  <2>2. CASE Resolve(c)
    BY <1>j, <2>1, <2>2, ContinueKeeps DEF Resolve, Continue, Job
  <2>3. CASE Claim(c)
    BY <2>1, <2>3, ContinueKeeps DEF Claim
  <2>4. CASE FindCandidates(c)
    BY <1>j, <2>1, <2>4 DEF FindCandidates, Continue, Job
  <2> QED
    BY <1>4, <2>2, <2>3, <2>4
<1>5. CASE ReconcileNext(c)
  BY <1>5, <1>j DEF ReconcileNext, Continue, At, Job
<1>6. CASE AfterReconcile(c)
  <2>1. j.bucket = 0
    BY <1>6, <1>j DEF AfterReconcile, Answered, At
  <2>2. CASE NextTarget(c)
    BY <2>1, <2>2, ContinueKeeps
  <2>3. CASE \E gens : Continue(c, [j EXCEPT !.pc = "revalidate", !.gens = gens])
    BY <1>j, <2>1, <2>3 DEF Continue, Job
  <2> QED
    BY <1>6, <2>2, <2>3 DEF AfterReconcile
<1>7. CASE ObservedDone(c)
  <2>1. j.bucket = 0
    BY <1>7, <1>j DEF ObservedDone, At
  <2>2. \E gens, todo : Continue(c, [j EXCEPT !.pc = "absent", !.phase = "absent", !.gens = gens,
                                             !.complete = FALSE, !.todo = todo])
    BY <1>7 DEF ObservedDone
  <2> QED
    BY <1>j, <2>1, <2>2 DEF Continue, Job
<1>8. CASE ValidateGet(c)
  <2>1. j.bucket = 0
    BY <1>8, <1>j DEF ValidateGet, At, InRescan
  <2>2. CASE \E t : Decide(c, t, "superseded", Gone)
    BY <2>1, <2>2, DecideKeeps
  <2>3. CASE \E t : Continue(c, [j EXCEPT !.pc = "live", !.t = t, !.expected = item[t].content])
    BY <1>j, <2>1, <2>3 DEF Continue, Job
  <2> QED
    BY <1>8, <2>2, <2>3 DEF ValidateGet
<1>9. CASE ValidateLive(c)
  <2>1. j.bucket = 0
    BY <1>9, <1>j DEF ValidateLive, At
  <2>2. CASE \E t, v, l : Decide(c, t, v, l)
    BY <2>1, <2>2, DecideKeeps
  <2>3. CASE \E l : Continue(c, [j EXCEPT !.pc = "final", !.expected = l])
    BY <1>j, <2>1, <2>3 DEF Continue, Job
  <2> QED
    BY <1>9, <2>2, <2>3 DEF ValidateLive
<1>10. CASE ValidateFinal(c)
  BY <1>10, <1>j, DecideKeeps DEF ValidateFinal, At
<1>11. CASE AfterLive(c)
  BY <1>11, <1>j, ContinueKeeps DEF AfterLive, Answered, At, Await
<1>12. CASE Finish(c) \/ Raise(c) \/ Crash(c)
  BY <1>12, ContinueKeeps DEF Finish, Raise, Crash
<1> QED
  BY <1>1, <1>2, <1>3, <1>4, <1>5, <1>6, <1>7, <1>8, <1>9, <1>10, <1>11, <1>12 DEF HandlerStep

LEMMA RescanFrame ==
    ASSUME HandlerInv, RescanInv, NEW c \in Callers, Frame(c),
           Covering(job'[c], call'[c], item, outbox)
    PROVE  RescanInv'
BY DEF Frame, RescanInv

LEMMA CoverNextCovers ==
    ASSUME HandlerInv, RescanInv, NEW c \in Callers, CoverNext(c)
    PROVE  RescanInv'
<1> DEFINE j == job[c]
<1>1. PICK t \in j.todo : /\ CallCoverage(c, t, j.gens[t], j.bucket)
                          /\ Continue(c, [j EXCEPT !.pc = "covering", !.t = t])
  BY DEF CoverNext
<1> DEFINE n == [j EXCEPT !.pc = "covering", !.t = t]
<1>2. j.pc = "absent" /\ j.bucket # 0 /\ job'[c] = n
  BY <1>1, ContinueFrame DEF CoverNext, At, InRescan
<1>j. /\ j \in Job /\ Placed(j) /\ Listed(j, item) /\ StoreInv /\ Covering(j, call[c], item, outbox)
  BY JobTyped DEF RescanInv
<1>3. t \in Targets /\ t \in DOMAIN j.gens /\ j.bucket \in Buckets /\ j.gens[t] \in 1 .. item[t].generation
  BY <1>2, <1>j DEF Job, Placed, Loop, Listed
<1>4. /\ call'[c].pc = "get" /\ call'[c].generation = j.gens[t] /\ call'[c].bucket = j.bucket
  BY <1>1, <1>3, <1>j, CoverageCall
<1>5. n.t = t /\ n.todo = j.todo /\ n.gens = j.gens /\ n.bucket = j.bucket
  BY <1>j DEF Job
<1> HIDE DEF n
<1>6. Covering(n, call'[c], item, outbox)
  BY <1>j, <1>4, <1>5 DEF Covering
<1> QED
  BY <1>2, <1>6, HandlerFrame, RescanFrame DEF HandlerStep

LEMMA AfterWriteCovers ==
    ASSUME HandlerInv, RescanInv, NEW c \in Callers, AfterWrite(c)
    PROVE  RescanInv'
<1> DEFINE j == job[c]
           u == IF call[c].result = "race" THEN j.unapplied \cup {j.t} ELSE j.unapplied
           n == [j EXCEPT !.pc = j.phase, !.todo = @ \ {j.t}, !.expected = Gone, !.unapplied = u]
<1>1. /\ j.pc \in {"removing", "confirming", "covering"} /\ call[c].pc = "idle" /\ call[c].result # "error"
      /\ Local(c) /\ Continue(c, n)
  BY DEF AfterWrite, Answered, At, Idle
<1>2. job'[c] = n /\ call' = call
  BY <1>1, ContinueFrame, LocalFrame
<1>j. /\ j \in Job /\ Placed(j) /\ Covering(j, call[c], item, outbox)
  BY JobTyped DEF RescanInv
<1>3. n.pc = j.phase /\ n.todo = j.todo \ {j.t} /\ n.gens = j.gens /\ n.bucket = j.bucket
  BY <1>j DEF Job
<1>4. j.phase # "covering"
  BY <1>j DEF Job, Loop
<1> HIDE DEF n
<1>5. Covering(n, call[c], item, outbox)
  BY <1>1, <1>3, <1>4, <1>j DEF Covering, Placed
<1> QED
  BY <1>2, <1>5, HandlerFrame, RescanFrame DEF HandlerStep

LEMMA StartRescanCovers ==
    ASSUME HandlerInv, RescanInv, NEW c \in Callers, StartRescan(c)
    PROVE  RescanInv'
<1> DEFINE gens == ListCurrent(Targets)
<1>0. PICK b \in Buckets :
          Continue(c, [NoJob EXCEPT !.pc = "absent", !.phase = "absent", !.bucket = b,
                         !.gens = gens, !.todo = DOMAIN gens])
  BY DEF StartRescan
<1> DEFINE n == [NoJob EXCEPT !.pc = "absent", !.phase = "absent", !.bucket = b,
                         !.gens = gens, !.todo = DOMAIN gens]
<1>1. job'[c] = n
  BY <1>0, ContinueFrame
<1> HIDE DEF gens
<1>2. n.pc = "absent" /\ n.gens = gens /\ n.todo = DOMAIN gens
  BY NoJobFit DEF Job
<1> HIDE DEF n
<1>3. Covering(n, call'[c], item, outbox)
  BY <1>2 DEF Covering
<1> QED
  BY <1>1, <1>3, HandlerFrame, RescanFrame

LEMMA OutboxGrows ==
    ASSUME NEW c \in Callers, StoreStep(c)
    PROVE  outbox \subseteq outbox'
BY DEF StoreStep, ReconcileGet, ReconcilePut, ConfirmPut, RemoveGet, RemovePut, CoverageGet,
       CoveragePut, RereadAfterConflict, StoreRaises

LEMMA CoveredStable ==
    ASSUME item \in [Targets -> Item], item' \in [Targets -> Item], NEW t \in Targets,
           Precedes(item[t], item'[t]), outbox \subseteq outbox',
           NEW g \in 1 .. item[t].generation, NEW b, Covered(t, g, b, item, outbox)
    PROVE  Covered(t, g, b, item', outbox')
<1> SUFFICES ASSUME item'[t].generation = g
             PROVE  EventFor(t, item'[t], "coverage", b) \in outbox'
  BY DEF Covered
<1>1. item[t].generation \in Nat /\ item'[t].generation \in Nat
  BY DEF Item
<1>2. item[t].generation = g /\ item'[t].content = item[t].content
  BY <1>1 DEF Precedes
<1>3. EventFor(t, item'[t], "coverage", b) = EventFor(t, item[t], "coverage", b)
  BY <1>2 DEF EventFor
<1> QED
  BY <1>2, <1>3 DEF Covered

(* A coverage call that answers has covered its generation.                *)
LEMMA CoverageAnswers ==
    ASSUME StoreInv, NEW c \in Callers, StoreStep(c), call[c].op = "coverage",
           NEW t, t = call[c].target, NEW g, g = call[c].generation, NEW b, b = call[c].bucket,
           item[t].generation = g => item[t].status = "active",
           call[c].pc = "reread" => Covered(t, g, b, item, outbox),
           call'[c].pc = "reread" \/ (call'[c].pc = "idle" /\ call'[c].result # "error")
    PROVE  Covered(t, g, b, item', outbox')
<1> DEFINE k == call[c]
<1>0. /\ k \in Call /\ t \in Targets /\ Sound(k, item) /\ item \in [Targets -> Item]
  BY DEF StoreInv, StoreTypeOK, Call
<1>1. CASE CoverageGet(c)
  <2>1. item' = item /\ outbox' = outbox
    BY <1>1 DEF CoverageGet
  <2>2. ~CoverageCurrent(c, item[t])
    <3>1. CASE Goto(c, "put", item[t])
      BY <3>1, GotoCall
    <3> QED
      BY <1>1, <3>1 DEF CoverageGet
  <2> QED
    BY <2>1, <2>2 DEF CoverageCurrent, Covered
<1>2. CASE CoveragePut(c)
  <2> DEFINE i == k.row
             e == EventFor(t, i, "coverage", b)
  <2>1. item' = item /\ k.pc = "put" /\ i.status = "active" /\ i.generation = g /\ Exists(i) /\ WellFormed(i)
    BY <1>0, <1>2 DEF CoveragePut, Sound, WellFormed, Exists
  <2>2. item[t].generation = g => EventFor(t, item[t], "coverage", b) = e
    BY <1>0, <2>1 DEF Sound, Precedes, EventFor
  <2>3. e \in outbox' \/ ~CoverageCurrent(c, item[t])
    BY <1>2 DEF CoveragePut
  <2> HIDE DEF e, i
  <2> QED
    BY <2>1, <2>2, <2>3 DEF CoverageCurrent, Covered
<1>3. CASE RereadAfterConflict(c)
  BY <1>3 DEF RereadAfterConflict
<1>4. CASE StoreRaises(c)
  BY <1>4, ReturnCall DEF StoreRaises
<1> QED
  BY <1>1, <1>2, <1>3, <1>4 DEF StoreStep, ReconcileGet, ReconcilePut, ConfirmPut, RemoveGet, RemovePut

LEMMA StoreWorksCovers ==
    ASSUME HandlerInv, RescanInv, NEW c \in Callers, StoreWorks(c)
    PROVE  RescanInv'
<1>1. StoreStep(c) /\ UNCHANGED job
  BY DEF StoreWorks
<1>2. StoreInv /\ Progress(c) /\ Steps(call[c], call'[c]) /\ outbox \subseteq outbox'
      /\ item \in [Targets -> Item] /\ item' \in [Targets -> Item]
  BY <1>1, JobTyped, StoreNextProgress, StoreSteps, OutboxGrows DEF Progress, StoreTypeOK
<1>3. \A t \in Targets : Precedes(item[t], item'[t])
  BY <1>2 DEF Progress
<1> SUFFICES ASSUME NEW d \in Callers
             PROVE  Covering(job[d], call'[d], item', outbox')
  BY <1>1 DEF RescanInv
<1> DEFINE j == job[d]
<1>j. /\ j \in Job /\ Placed(j) /\ Listed(j, item) /\ Tied(j, call[d]) /\ Covering(j, call[d], item, outbox)
  BY JobTyped DEF RescanInv
<1> SUFFICES ASSUME j.bucket # 0 PROVE Covering(j, call'[d], item', outbox')
  BY DEF Covering
<1>4. j.phase = "absent" /\ (j.pc = "covering" => j.t \in DOMAIN j.gens)
  BY <1>j DEF Placed
<1>5. DOMAIN j.gens \subseteq Targets
      /\ \A t \in DOMAIN j.gens : /\ j.gens[t] \in 1 .. item[t].generation
                                  /\ j.gens[t] = item[t].generation => item[t].status = "active"
  BY <1>j, <1>4, PartTyped DEF Job, Listed
<1>6. \A t \in DOMAIN j.gens : Covered(t, j.gens[t], j.bucket, item, outbox) =>
                               Covered(t, j.gens[t], j.bucket, item', outbox')
  BY <1>2, <1>3, <1>5, CoveredStable
<1>7. \A t \in DOMAIN j.gens \ j.todo : Covered(t, j.gens[t], j.bucket, item', outbox')
  BY <1>6, <1>j DEF Covering
<1>8. CASE d # c
  <2>1. call'[d] = call[d]
    BY <1>2, <1>8 DEF Progress
  <2> QED
    BY <1>4, <1>6, <1>7, <1>j, <2>1 DEF Covering
<1>9. CASE d = c /\ j.pc # "covering"
  BY <1>7, <1>9 DEF Covering
<1>10. CASE d = c /\ j.pc = "covering"
  <2> DEFINE k == call[c]
             m == call'[c]
  <2>1. /\ k.pc # "idle" /\ k.op = "coverage" /\ k.target = j.t /\ k.generation = j.gens[j.t]
        /\ k.bucket = j.bucket
    BY <1>2, <1>10, <1>j DEF Steps, Tied, Covering, Waiting
  <2>2. m.pc # "idle" => m.generation = k.generation /\ m.bucket = k.bucket
    BY <1>2 DEF Steps, SameCall
  <2>3. k.pc = "reread" => Covered(j.t, j.gens[j.t], j.bucket, item, outbox)
    BY <1>10, <1>j DEF Covering
  <2>4. m.pc = "reread" \/ (m.pc = "idle" /\ m.result # "error") =>
           Covered(j.t, j.gens[j.t], j.bucket, item', outbox')
    BY <1>1, <1>2, <1>4, <1>5, <1>10, <2>1, <2>3, CoverageAnswers
  <2> QED
    BY <1>7, <1>10, <2>1, <2>2, <2>4 DEF Covering
<1> QED
  BY <1>8, <1>9, <1>10

LEMMA RescanInitially == InventoryInit => RescanInv
<1> SUFFICES ASSUME InventoryInit, NEW c \in Callers
             PROVE  Covering(job[c], call[c], item, outbox)
  BY DEF RescanInv
<1>1. job[c] = NoJob
  BY DEF InventoryInit
<1> QED
  BY <1>1, NoJobFit DEF Covering

LEMMA RescanPreserved ==
    HandlerInv /\ RescanInv /\ [InventoryNext]_inventoryVars => RescanInv'
<1> SUFFICES ASSUME HandlerInv, RescanInv, [InventoryNext]_inventoryVars
             PROVE  RescanInv'
  OBVIOUS
<1>1. CASE Tick \/ (\E t \in Targets : Records(t)) \/ UNCHANGED inventoryVars
  <2>1. UNCHANGED <<item, outbox, call, job>>
    BY <1>1 DEF Tick, Records, inventoryVars
  <2> QED
    BY <2>1 DEF RescanInv
<1>2. ASSUME NEW c \in Callers,
             \/ StartSnapshot(c) \/ StartSignal(c) \/ Crash(c)
             \/ HandlerStep(c) /\ ~CoverNext(c) /\ ~AfterWrite(c)
      PROVE  RescanInv'
  <2>1. Frame(c) /\ job'[c].bucket = 0
    BY <1>2, HandlerFrame, OutsideRescan
  <2>2. Covering(job'[c], call'[c], item, outbox)
    BY <2>1 DEF Covering
  <2> QED
    BY <2>1, <2>2, RescanFrame
<1>3. ASSUME NEW c \in Callers, StartRescan(c) \/ CoverNext(c) \/ AfterWrite(c) \/ StoreWorks(c)
      PROVE  RescanInv'
  BY <1>3, StartRescanCovers, CoverNextCovers, AfterWriteCovers, StoreWorksCovers
<1> QED
  BY <1>1, <1>2, <1>3 DEF InventoryNext

(***************************************************************************)
(* A rescan that finishes has covered every row it listed that has not     *)
(* moved on, whatever its writes raced with.                               *)
(***************************************************************************)
THEOREM InventoryRescans == InventorySpec => []RescanComplete
<1>1. HandlerInv /\ RescanInv => RescanComplete
  <2> SUFFICES ASSUME HandlerInv, RescanInv, NEW c \in Callers, InRescan(c), job[c].todo = {},
                      NEW t \in DOMAIN job[c].gens, item[t].generation = job[c].gens[t]
               PROVE  EventFor(t, item[t], "coverage", job[c].bucket) \in outbox
    BY DEF RescanComplete
  <2> QED
    BY DEF RescanInv, Covering, Covered, InRescan
<1> QED
  BY <1>1, RescanInitially, RescanPreserved, InventoryHandlers, PTL DEF InventorySpec

-----------------------------------------------------------------------------
LEMMA OutsideSignal ==
    ASSUME HandlerInv, NEW c \in Callers,
           \/ StartSnapshot(c) \/ StartRescan(c) \/ Crash(c) \/ Finish(c) \/ Raise(c) \/ CoverNext(c)
           \/ CollectGroups(c) \/ CollectInterfaces(c) \/ CollectInstances(c) \/ CollectCaptures(c)
    PROVE  job'[c].signal = "none"
<1> DEFINE j == job[c]
<1>j. /\ job \in [Callers -> Job] /\ j \in Job
      /\ j.pc \in {"groups", "interfaces", "instances", "captures"} => j.signal = "none"
      /\ j.bucket # 0 => j.signal = "none"
  BY JobTyped DEF HandlerInv, Placed, Direct
<1>1. CASE StartSnapshot(c)
  <2>1. PICK pc, now : Continue(c, [NoJob EXCEPT !.pc = pc, !.now = now])
    BY <1>1 DEF StartSnapshot
  <2>2. [NoJob EXCEPT !.pc = pc, !.now = now].signal = "none"
    BY DEF NoJob
  <2> QED
    BY <2>1, <2>2, ContinueFrame
<1>2. CASE StartRescan(c)
  <2>1. PICK b, gens, todo : Continue(c, [NoJob EXCEPT !.pc = "absent", !.phase = "absent", !.bucket = b,
                                                       !.gens = gens, !.todo = todo])
    BY <1>2 DEF StartRescan
  <2>2. [NoJob EXCEPT !.pc = "absent", !.phase = "absent", !.bucket = b,
                      !.gens = gens, !.todo = todo].signal = "none"
    BY DEF NoJob
  <2> QED
    BY <2>1, <2>2, ContinueFrame
<1>3. CASE Crash(c) \/ Finish(c) \/ Raise(c)
  BY <1>3, ContinueKeeps DEF Crash, Finish, Raise
<1>4. CASE CoverNext(c)
  <2>1. j.signal = "none"
    BY <1>4, <1>j DEF CoverNext, InRescan
  <2>2. \E t : Continue(c, [j EXCEPT !.pc = "covering", !.t = t])
    BY <1>4 DEF CoverNext
  <2> QED
    BY <1>j, <2>1, <2>2 DEF Continue, Job
<1>5. CASE CollectGroups(c) \/ CollectInterfaces(c)
  <2>1. j.signal = "none"
    BY <1>5, <1>j DEF CollectGroups, CollectInterfaces, At
  <2>2. \E pc, seen : Continue(c, [j EXCEPT !.pc = pc, !.seen = seen])
    BY <1>5 DEF CollectGroups, CollectInterfaces
  <2> QED
    BY <1>j, <2>1, <2>2 DEF Continue, Job
<1>6. CASE CollectInstances(c) \/ CollectCaptures(c)
  BY <1>6, <1>j, ContinueKeeps DEF CollectInstances, CollectCaptures, CollectedPartly, At
<1> QED
  BY <1>1, <1>2, <1>3, <1>4, <1>5, <1>6

LEMMA SignalFrame ==
    ASSUME HandlerInv, SignalInv, NEW c \in Callers, Frame(c),
           Signalled(job'[c], call'[c], item)
    PROVE  SignalInv'
BY DEF Frame, SignalInv

(* The candidates and what has been read stay; only what is left of the    *)
(* loop may change, by a target that is done.                              *)
LEMMA SignalLoop ==
    ASSUME HandlerInv, SignalInv, NEW c \in Callers, NEW n, NEW k, NEW t,
           job[c].signal # "none" =>
               /\ n.signal = job[c].signal /\ n.now = job[c].now /\ n.phase = job[c].phase
               /\ n.batch = job[c].batch /\ n.gens = job[c].gens
               /\ job[c].todo \subseteq n.todo \cup {t}
               /\ job[c].unapplied \subseteq n.unapplied
               /\ t \notin n.todo => \/ t \notin job[c].todo \/ Fresh(item[t], job[c].now)
                                     \/ /\ job[c].phase = "absent"
                                        /\ t \notin DOMAIN job[c].batch
                                        /\ t \in n.unapplied \/ item[t].generation > job[c].gens[t],
           job[c].signal = "none" => n.signal = "none",
           n.pc = "removing" /\ k.pc # "idle" => k.obs.observed_at = n.now,
           n.pc \in {"reconciling", "relive", "removing"} => k.pc # "idle"
    PROVE  Signalled(n, k, item)
<1> DEFINE j == job[c]
<1> SUFFICES ASSUME n.signal # "none" PROVE Signalled(n, k, item)
  BY DEF Signalled
<1>1. j.signal # "none" /\ Signalled(j, call[c], item)
  BY DEF SignalInv
<1>2. \A u \in DOMAIN n.batch : (n.phase = "observed" => u \notin n.todo) => Fresh(item[u], n.now)
  <2> SUFFICES ASSUME NEW u \in DOMAIN n.batch, n.phase = "observed" => u \notin n.todo
               PROVE  Fresh(item[u], j.now)
    BY <1>1
  <2>1. CASE u = t
    BY <1>1, <2>1 DEF Signalled
  <2>2. CASE u # t
    BY <1>1, <2>2 DEF Signalled
  <2> QED
    BY <2>1, <2>2
<1>3. n.phase = "absent" =>
         \A u \in DOMAIN n.gens \ (DOMAIN n.batch \cup n.unapplied \cup n.todo) :
            item[u].generation > n.gens[u] \/ Fresh(item[u], n.now)
  <2> SUFFICES ASSUME n.phase = "absent",
                      NEW u \in DOMAIN n.gens \ (DOMAIN n.batch \cup n.unapplied \cup n.todo)
               PROVE  item[u].generation > j.gens[u] \/ Fresh(item[u], j.now)
    BY <1>1
  <2>1. CASE u = t
    BY <1>1, <2>1 DEF Signalled
  <2>2. CASE u # t
    BY <1>1, <2>2 DEF Signalled
  <2> QED
    BY <2>1, <2>2
<1> QED
  BY <1>2, <1>3 DEF Signalled

LEMMA StartSignalApplies ==
    ASSUME HandlerInv, SignalInv, NEW c \in Callers, StartSignal(c)
    PROVE  SignalInv'
<1>0. PICK s : Continue(c, [NoJob EXCEPT !.pc = "resolve", !.now = clock, !.signal = s])
  BY DEF StartSignal
<1> DEFINE n == [NoJob EXCEPT !.pc = "resolve", !.now = clock, !.signal = s]
<1>1. job'[c] = n
  BY <1>0, ContinueFrame
<1>2. n.pc = "resolve" /\ n.phase = "observed" /\ n.batch = <<>>
  BY DEF NoJob
<1> HIDE DEF n
<1>3. Signalled(n, call'[c], item)
  BY <1>2, EmptyPart DEF Signalled
<1> QED
  BY <1>1, <1>3, HandlerFrame, SignalFrame

LEMMA ResolveApplies ==
    ASSUME HandlerInv, SignalInv, NEW c \in Callers, Resolve(c)
    PROVE  SignalInv'
<1> DEFINE j == job[c]
           hinted == {t \in Hint[j.signal] : live[t] # Gone}
           batch == [t \in hinted |-> DirectObservation(live[t], j.now)]
           n == [j EXCEPT !.pc = "claim", !.todo = hinted, !.batch = batch]
<1>1. j.pc = "resolve" /\ (Continue(c, n) \/ Continue(c, NoJob))
  BY DEF Resolve, At
<1>2. j \in Job /\ j.phase = "observed"
  BY <1>1, JobTyped DEF Placed, Collecting
<1>3. DOMAIN batch = hinted
  OBVIOUS
<1> HIDE DEF batch, hinted
<1>4. n.pc = "claim" /\ n.phase = "observed" /\ n.batch = batch /\ n.todo = hinted
  BY <1>2 DEF Job
<1> HIDE DEF n
<1>5. Signalled(n, call'[c], item) /\ Signalled(NoJob, call'[c], item)
  BY <1>3, <1>4, NoJobFit DEF Signalled
<1>6. job'[c] = n \/ job'[c] = NoJob
  BY <1>1, ContinueFrame
<1> QED
  BY <1>5, <1>6, HandlerFrame, SignalFrame DEF HandlerStep

LEMMA ClaimApplies ==
    ASSUME HandlerInv, SignalInv, NEW c \in Callers, Claim(c) \/ FindCandidates(c)
    PROVE  SignalInv'
<1> DEFINE j == job[c]
<1>1. j \in Job /\ j.phase = "observed" /\ Signalled(j, call[c], item)
  BY JobTyped DEF Claim, FindCandidates, At, Placed, SignalInv
<1>2. PICK n : /\ job'[c] = n
               /\ \/ n = NoJob \/ n = [j EXCEPT !.pc = "candidates"]
                  \/ n = [j EXCEPT !.pc = "observed", !.gens = ListCurrent(Hint[j.signal])]
  BY ContinueFrame DEF Claim, FindCandidates, GotoPc
<1>3. CASE n = NoJob
  <2>1. Signalled(n, call'[c], item)
    BY <1>3, NoJobFit DEF Signalled
  <2> QED
    BY <1>2, <2>1, HandlerFrame, SignalFrame DEF HandlerStep
<1>4. CASE n # NoJob
  <2>1. /\ n.pc \in {"candidates", "observed"} /\ n.phase = "observed" /\ n.batch = j.batch
        /\ n.todo = j.todo /\ n.now = j.now /\ n.signal = j.signal
    BY <1>1, <1>2, <1>4 DEF Job
  <2>2. Signalled(n, call'[c], item)
    BY <1>1, <2>1 DEF Signalled
  <2> QED
    BY <1>2, <2>2, HandlerFrame, SignalFrame DEF HandlerStep
<1> QED
  BY <1>3, <1>4

LEMMA ReconcileNextApplies ==
    ASSUME HandlerInv, SignalInv, NEW c \in Callers, ReconcileNext(c)
    PROVE  SignalInv'
<1> DEFINE j == job[c]
<1>1. PICK t \in j.todo : /\ CallReconcile(c, t, j.batch[t])
                          /\ Continue(c, [j EXCEPT !.pc = "reconciling", !.t = t])
  BY DEF ReconcileNext
<1> DEFINE n == [j EXCEPT !.pc = "reconciling", !.t = t]
<1>2. job'[c] = n
  BY <1>1, ContinueFrame
<1>3. call'[c].pc = "get"
  <2>1. call \in [Callers -> Call]
    BY JobTyped DEF StoreTypeOK
  <2> QED
    BY <1>1, <2>1 DEF CallReconcile, NoCall
<1>4. /\ n.pc = "reconciling" /\ n.signal = j.signal /\ n.now = j.now /\ n.phase = j.phase
      /\ n.batch = j.batch /\ n.gens = j.gens /\ n.todo = j.todo /\ n.unapplied = j.unapplied
  BY JobTyped DEF Job
<1> HIDE DEF n
<1>5. Signalled(n, call'[c], item)
  BY <1>3, <1>4, SignalLoop
<1> QED
  BY <1>2, <1>5, HandlerFrame, SignalFrame DEF HandlerStep

(* Done with a target whose row is fresh.                                  *)
LEMMA NextTargetApplies ==
    ASSUME HandlerInv, SignalInv, NEW c \in Callers, Frame(c), NextTarget(c),
           job[c].signal # "none" => Fresh(item[job[c].t], job[c].now)
    PROVE  SignalInv'
<1> DEFINE j == job[c]
           n == [j EXCEPT !.pc = j.phase, !.todo = @ \ {j.t}, !.expected = Gone]
<1>1. job'[c] = n
  BY ContinueFrame DEF NextTarget
<1>2. j \in Job /\ j.phase \in Loop
  BY JobTyped DEF Job
<1>3. /\ n.pc = j.phase /\ n.signal = j.signal /\ n.now = j.now /\ n.phase = j.phase
      /\ n.batch = j.batch /\ n.gens = j.gens /\ n.todo = j.todo \ {j.t} /\ n.unapplied = j.unapplied
  BY <1>2 DEF Job
<1> HIDE DEF n
<1>4. Signalled(n, call'[c], item)
  BY <1>2, <1>3, SignalLoop DEF Loop
<1> QED
  BY <1>1, <1>4, SignalFrame

LEMMA AfterReconcileApplies ==
    ASSUME HandlerInv, SignalInv, NEW c \in Callers, AfterReconcile(c) \/ AfterLive(c)
    PROVE  SignalInv'
<1> DEFINE j == job[c]
           k == call[c]
<1>1. /\ j.pc \in {"reconciling", "relive"} /\ k.pc = "idle" /\ k.result # "error"
      /\ j.signal # "none" => k.result # "race"
  BY DEF AfterReconcile, AfterLive, Answered, At, Idle, InSignal
<1>2. j.signal # "none" => Fresh(item[j.t], j.now)
  BY <1>1 DEF SignalInv, Signalled
<1>3. Frame(c)
  BY HandlerFrame DEF HandlerStep
<1>4. CASE NextTarget(c)
  BY <1>2, <1>3, <1>4, NextTargetApplies
<1>5. CASE ~NextTarget(c)
  <2>1. j.signal = "none"
    <3>1. CASE AfterReconcile(c)
      <4>1. j.pc = "reconciling" /\ k.result = "revalidate"
        BY <1>5, <3>1 DEF AfterReconcile, Answered, At
      <4> QED
        BY <1>1, <4>1, JobTyped DEF Tied
    <3>2. CASE AfterLive(c)
      <4>1. j.pc = "relive" /\ j.phase = "observed"
        BY <1>5, <3>2 DEF AfterLive, Answered, At
      <4> QED
        BY <4>1, JobTyped DEF Direct
    <3> QED
      BY <3>1, <3>2
  <2>2. job'[c].signal = "none"
    <3>1. CASE AfterReconcile(c)
      <4>1. PICK gens : Continue(c, [j EXCEPT !.pc = "revalidate", !.gens = gens])
        BY <1>5, <3>1 DEF AfterReconcile
      <4>2. [j EXCEPT !.pc = "revalidate", !.gens = gens].signal = j.signal
        BY JobTyped DEF Job
      <4> QED
        BY <2>1, <4>1, <4>2, ContinueFrame
    <3>2. CASE AfterLive(c)
      BY <1>5, <2>1, <3>2, ContinueKeeps DEF AfterLive, Await
    <3> QED
      BY <3>1, <3>2
  <2>3. Signalled(job'[c], call'[c], item)
    BY <2>2 DEF Signalled
  <2> QED
    BY <1>3, <2>3, SignalFrame
<1> QED
  BY <1>4, <1>5

LEMMA ObservedDoneApplies ==
    ASSUME HandlerInv, SignalInv, NEW c \in Callers, ObservedDone(c)
    PROVE  SignalInv'
<1> DEFINE j == job[c]
           rows == IF InSignal(c) THEN j.gens
                   ELSE IF j.complete THEN ListCurrent(Targets) ELSE <<>>
           n == [j EXCEPT !.pc = "absent", !.phase = "absent", !.gens = rows,
                          !.complete = FALSE, !.todo = DOMAIN rows \ DOMAIN j.batch]
<1>1. j.pc = "observed" /\ j.todo = {} /\ job'[c] = n
  BY ContinueFrame DEF ObservedDone, At
<1>2. j \in Job /\ j.phase = "observed" /\ Signalled(j, call[c], item)
  BY <1>1, JobTyped DEF Placed, Loop, SignalInv
<1> HIDE DEF rows
<1>3. /\ n.pc = "absent" /\ n.now = j.now /\ n.phase = "absent" /\ n.batch = j.batch
      /\ n.todo = DOMAIN rows \ DOMAIN j.batch /\ n.gens = rows /\ n.signal = j.signal
  BY <1>2 DEF Job
<1> HIDE DEF n
<1>4. Signalled(n, call'[c], item)
  BY <1>1, <1>2, <1>3 DEF Signalled
<1> QED
  BY <1>1, <1>4, HandlerFrame, SignalFrame DEF HandlerStep

LEMMA AfterWriteApplies ==
    ASSUME HandlerInv, SignalInv, NEW c \in Callers, AfterWrite(c)
    PROVE  SignalInv'
<1> DEFINE j == job[c]
           k == call[c]
           u == IF k.result = "race" THEN j.unapplied \cup {j.t} ELSE j.unapplied
           n == [j EXCEPT !.pc = j.phase, !.todo = @ \ {j.t}, !.expected = Gone, !.unapplied = u]
<1>1. /\ j.pc \in {"removing", "confirming", "covering"} /\ k.pc = "idle" /\ k.result # "error"
      /\ job'[c] = n
  BY ContinueFrame DEF AfterWrite, Answered, At, Idle
<1>2. j \in Job /\ j.phase \in Loop /\ Placed(j) /\ Direct(j)
  BY JobTyped DEF Job
<1>3. j.signal # "none" => j.pc = "removing" /\ j.phase = "absent"
  BY <1>1, <1>2 DEF Placed, Direct, Loop
<1>4. j.signal # "none" => Fresh(item[j.t], j.now) \/ j.t \in u
  BY <1>1, <1>3 DEF SignalInv, Signalled
<1>5. j.unapplied \subseteq u
  OBVIOUS
<1> HIDE DEF u
<1>6. /\ n.pc = j.phase /\ n.signal = j.signal /\ n.now = j.now /\ n.phase = j.phase
      /\ n.batch = j.batch /\ n.gens = j.gens /\ n.todo = j.todo \ {j.t} /\ n.unapplied = u
  BY <1>2 DEF Job
<1> HIDE DEF n
<1>7. CASE j.t \in DOMAIN j.batch /\ j.signal # "none"
  <2>1. Fresh(item[j.t], j.now)
    BY <1>3, <1>7 DEF SignalInv, Signalled
  <2>2. Signalled(n, call'[c], item)
    BY <1>2, <1>5, <1>6, <2>1, SignalLoop DEF Loop
  <2> QED
    BY <1>1, <2>2, HandlerFrame, SignalFrame DEF HandlerStep
<1>8. CASE j.t \notin DOMAIN j.batch \/ j.signal = "none"
  <2>2. Signalled(n, call'[c], item)
    BY <1>2, <1>3, <1>4, <1>5, <1>6, <1>8, SignalLoop DEF Loop
  <2> QED
    BY <1>1, <2>2, HandlerFrame, SignalFrame DEF HandlerStep
<1> QED
  BY <1>7, <1>8

(* What an ownership check decides about a candidate of a signal.          *)
LEMMA DecideApplies ==
    ASSUME HandlerInv, SignalInv, NEW c \in Callers,
           NEW t, NEW verdict, NEW current \in Contents \cup {Gone},
           job[c].pc \in Checking \cup Loop, job[c].bucket = 0,
           \/ job[c].pc \in Checking /\ t = job[c].t
           \/ verdict = "superseded" /\ current = Gone,
           job[c].signal # "none" =>
               /\ job[c].phase = "absent"
               /\ \/ Removes(verdict) \/ ReconcilesLive(c, verdict, current)
                  \/ verdict \in {"unknown", "active"}
                  \/ item[t].generation > job[c].gens[t],
           Decide(c, t, verdict, current)
    PROVE  SignalInv'
<1> DEFINE j == job[c]
<1>j. j \in Job /\ Placed(j) /\ Listed(j, item) /\ StoreInv /\ j.phase \in Loop
  BY JobTyped DEF Job
<1>f. Frame(c)
  BY DecideFrame
<1>n. ASSUME NEW pc \in {"removing", "relive", "confirming"}, GotoPc(c, pc),
             call'[c].pc # "idle",
             pc = "removing" => call'[c].obs.observed_at = j.now
      PROVE  SignalInv'
  <2> DEFINE n == [j EXCEPT !.pc = pc]
  <2>1. job'[c] = n
    BY <1>n, ContinueFrame DEF GotoPc
  <2>2. /\ n.pc = pc /\ n.signal = j.signal /\ n.now = j.now /\ n.phase = j.phase
        /\ n.batch = j.batch /\ n.gens = j.gens /\ n.todo = j.todo /\ n.unapplied = j.unapplied
    BY <1>j DEF Job
  <2> HIDE DEF n
  <2>3. Signalled(n, call'[c], item)
    BY <1>n, <2>2, SignalLoop
  <2> QED
    BY <1>f, <2>1, <2>3, SignalFrame
<1>1. CASE Removes(verdict) /\ Await(c, "removing", CallRemove(c, t, j.gens[t], j.now))
  <2>1. j.pc \in Checking /\ t = j.t
    BY <1>1 DEF Removes
  <2>2. t \in Targets /\ j.now \in Times /\ j.gens[t] \in 1 .. item[t].generation
    BY <2>1, <1>j DEF Placed, Job, Listed, Checking
  <2>3. CallRemove(c, t, j.gens[t], j.now) /\ GotoPc(c, "removing")
    BY <1>1 DEF Await
  <2>4. call'[c].pc = "get" /\ call'[c].obs.observed_at = j.now
    BY <1>j, <2>2, <2>3, RemoveCall
  <2> QED
    BY <1>n, <2>3, <2>4
<1>2. CASE /\ ReconcilesLive(c, verdict, current)
           /\ Await(c, "relive", CallReconcile(c, t, DirectObservation(current, j.now)))
  <2>1. CallReconcile(c, t, DirectObservation(current, j.now)) /\ GotoPc(c, "relive")
    BY <1>2 DEF Await
  <2>2. call'[c].pc = "get"
    BY <2>1, JobTyped DEF CallReconcile, NoCall, StoreTypeOK
  <2> QED
    BY <1>n, <2>1, <2>2
<1>3. CASE Confirms(c, verdict) /\ Await(c, "confirming", CallConfirm(c, j.batch[t]))
  <2>1. CallConfirm(c, j.batch[t]) /\ GotoPc(c, "confirming")
    BY <1>3 DEF Await
  <2>2. call'[c].pc = "put"
    BY <2>1, JobTyped DEF CallConfirm, StoreTypeOK, Call
  <2> QED
    BY <1>n, <2>1, <2>2
<1>4. CASE /\ ~Removes(verdict) /\ ~ReconcilesLive(c, verdict, current)
           /\ Continue(c, [j EXCEPT !.pc = j.phase, !.todo = @ \ {t}, !.expected = Gone,
                             !.unapplied = IF verdict \in {"unknown", "active"}
                                           THEN @ \cup {t} ELSE @])
  <2> DEFINE u == IF verdict \in {"unknown", "active"} THEN j.unapplied \cup {t} ELSE j.unapplied
             n == [j EXCEPT !.pc = j.phase, !.todo = @ \ {t}, !.expected = Gone, !.unapplied = u]
  <2>1. job'[c] = n
    BY <1>4, ContinueFrame
  <2>2. /\ j.unapplied \subseteq u
        /\ j.signal # "none" => t \in u \/ item[t].generation > j.gens[t]
    BY <1>4
  <2> HIDE DEF u
  <2>3. /\ n.pc = j.phase /\ n.signal = j.signal /\ n.now = j.now /\ n.phase = j.phase
        /\ n.batch = j.batch /\ n.gens = j.gens /\ n.todo = j.todo \ {t} /\ n.unapplied = u
    BY <1>j DEF Job
  <2> HIDE DEF n
  <2>4. j.signal # "none" /\ t \in DOMAIN j.batch => Fresh(item[t], j.now)
    BY DEF SignalInv, Signalled
  <2>5. Signalled(n, call'[c], item)
    BY <1>j, <2>2, <2>3, <2>4, SignalLoop DEF Loop
  <2> QED
    BY <1>f, <2>1, <2>5, SignalFrame
<1> QED
  BY <1>1, <1>2, <1>3, <1>4 DEF Decide

LEMMA ValidateApplies ==
    ASSUME HandlerInv, SignalInv, NEW c \in Callers,
           ValidateGet(c) \/ ValidateLive(c) \/ ValidateFinal(c)
    PROVE  SignalInv'
<1> DEFINE j == job[c]
<1>j. /\ j \in Job /\ Placed(j) /\ Direct(j) /\ Listed(j, item) /\ item \in [Targets -> Item]
  BY JobTyped DEF StoreTypeOK
<1>m. ASSUME NEW t \in Targets, t \in DOMAIN j.gens, j.signal # "none",
             ~Expected(c, t, j.gens[t])
      PROVE  item[t].generation > j.gens[t]
  <2>1. j.gens[t] \in 1 .. item[t].generation /\ item[t].generation \in Nat
        /\ (j.gens[t] = item[t].generation => item[t].status = "active")
    BY <1>j, <1>m DEF Listed, Item
  <2> QED
    BY <1>m, <2>1 DEF Expected
<1>l. ASSUME NEW n, Continue(c, n), Local(c), n.pc \in {"live", "final"},
             /\ n.signal = j.signal /\ n.now = j.now /\ n.phase = j.phase
             /\ n.batch = j.batch /\ n.gens = j.gens /\ n.todo = j.todo /\ n.unapplied = j.unapplied
      PROVE  SignalInv'
  <2>1. Signalled(n, call'[c], item)
    BY <1>l, SignalLoop
  <2>2. Frame(c)
    BY <1>l, LocalFrame, ContinueFrame DEF Frame
  <2> QED
    BY <1>l, <2>1, <2>2, ContinueFrame, SignalFrame
<1>1. CASE ValidateGet(c)
  <2>1. PICK t \in IF At(c, "revalidate") THEN {j.t} ELSE j.todo :
          /\ At(c, "revalidate") \/ (At(c, "absent") /\ ~InRescan(c))
          /\ \/ /\ Continue(c, [j EXCEPT !.pc = "live", !.t = t, !.expected = item[t].content])
                /\ Local(c)
             \/ ~Expected(c, t, j.gens[t]) /\ Decide(c, t, "superseded", Gone)
    BY <1>1 DEF ValidateGet
  <2>2. j.pc \in {"revalidate", "absent"} /\ j.bucket = 0 /\ (j.pc = "revalidate" => t = j.t)
        /\ (j.pc = "absent" => t \in j.todo)
    BY <2>1, <1>j DEF At, InRescan, Placed
  <2>3. t \in Targets /\ t \in DOMAIN j.gens /\ (j.signal # "none" => j.phase = "absent")
    BY <2>2, <1>j DEF Job, Placed, Direct, Checking, Loop
  <2>4. CASE ~Expected(c, t, j.gens[t]) /\ Decide(c, t, "superseded", Gone)
    BY <2>2, <2>3, <2>4, <1>m, DecideApplies DEF Checking, Loop
  <2>5. CASE /\ Continue(c, [j EXCEPT !.pc = "live", !.t = t, !.expected = item[t].content])
             /\ Local(c)
    <3> DEFINE n == [j EXCEPT !.pc = "live", !.t = t, !.expected = item[t].content]
    <3>1. /\ n.pc = "live" /\ n.signal = j.signal /\ n.now = j.now /\ n.phase = j.phase
          /\ n.batch = j.batch /\ n.gens = j.gens /\ n.todo = j.todo /\ n.unapplied = j.unapplied
      BY <1>j DEF Job
    <3>2. Continue(c, n) /\ Local(c)
      BY <2>5
    <3> HIDE DEF n
    <3> QED
      BY <3>1, <3>2, <1>l
  <2> QED
    BY <2>1, <2>4, <2>5
<1>2. CASE ValidateLive(c)
  <2> DEFINE t == j.t
             verdict == LiveVerdict(j.expected, live[t])
             n == [j EXCEPT !.pc = "final", !.expected = live[t]]
  <2>1. /\ j.pc = "live"
        /\ \/ Decide(c, t, "unknown", Gone)
           \/ Decide(c, t, verdict, live[t])
           \/ Continue(c, n) /\ Local(c)
    BY <1>2 DEF ValidateLive, At
  <2>2. /\ t \in Targets /\ live[t] \in Contents \cup {Gone} /\ j.bucket = 0 /\ j.pc \in Checking
        /\ j.signal # "none" => j.phase = "absent"
    BY <2>1, <1>j, ClockTyped DEF Provider, Job, Placed, Direct, Checking, Loop
  <2>3. Removes(verdict) \/ ReconcilesLive(c, verdict, live[t]) \/ verdict = "active"
    BY DEF LiveVerdict, Removes, ReconcilesLive
  <2>4. CASE Decide(c, t, "unknown", Gone)
    BY <2>2, <2>4, DecideApplies
  <2>5. CASE Decide(c, t, verdict, live[t])
    <3> HIDE DEF verdict
    <3> QED
      BY <2>2, <2>3, <2>5, DecideApplies
  <2>6. CASE Continue(c, n) /\ Local(c)
    <3>1. /\ n.pc = "final" /\ n.signal = j.signal /\ n.now = j.now /\ n.phase = j.phase
          /\ n.batch = j.batch /\ n.gens = j.gens /\ n.todo = j.todo /\ n.unapplied = j.unapplied
      BY <1>j DEF Job
    <3> HIDE DEF n
    <3> QED
      BY <2>6, <3>1, <1>l
  <2> QED
    BY <2>1, <2>4, <2>5, <2>6
<1>3. CASE ValidateFinal(c)
  <2> DEFINE verdict == IF Expected(c, j.t, j.gens[j.t]) THEN "active" ELSE "superseded"
  <2>1. j.pc = "final" /\ Decide(c, j.t, verdict, j.expected)
    BY <1>3 DEF ValidateFinal, At
  <2>2. /\ j.expected \in Contents \cup {Gone} /\ j.bucket = 0 /\ j.pc \in Checking
        /\ j.t \in Targets /\ j.t \in DOMAIN j.gens
        /\ j.signal # "none" => j.phase = "absent"
    BY <2>1, <1>j DEF Job, Placed, Direct, Checking, Loop
  <2>3. j.signal # "none" => verdict = "active" \/ item[j.t].generation > j.gens[j.t]
    BY <2>1, <1>j, <1>m DEF Job, Placed, Checking
  <2> HIDE DEF verdict
  <2> QED
    BY <2>1, <2>2, <2>3, DecideApplies
<1> QED
  BY <1>1, <1>2, <1>3

-----------------------------------------------------------------------------
(* A reconcile of a direct read that answers, other than by a lost race,   *)
(* leaves a row at least as fresh as the read.                             *)
LEMMA ReconcileAnswers ==
    ASSUME StoreInv, NEW c \in Callers, StoreStep(c), call[c].op = "reconcile",
           ~IsConfig(call[c].obs), call'[c].pc = "idle", call'[c].result \notin {"error", "race"}
    PROVE  Fresh(item'[call[c].target], call[c].obs.observed_at)
<1> DEFINE k == call[c]
           t == k.target
           o == k.obs
<1>0. /\ k \in Call /\ t \in Targets /\ item \in [Targets -> Item] /\ k.row \in Item
      /\ o.observed_at \in Nat /\ k.row.observed_at \in Nat /\ item[t].observed_at \in Nat
  BY VersionIsNat DEF StoreInv, StoreTypeOK, Call, Item, Observation
<1>1. CASE ReconcileGet(c)
  <2>1. item' = item
    BY <1>1 DEF ReconcileGet
  <2>2. o.observed_at <= item[t].observed_at
    <3>1. CASE Goto(c, "put", item[t])
      BY <3>1, GotoCall
    <3> QED
      BY <1>1, <3>1 DEF ReconcileGet
  <2> QED
    BY <1>0, <2>1, <2>2 DEF Fresh
<1>2. CASE ReconcilePut(c)
  <2> DEFINE j == Reconciled(o, k.row)
  <2>1. j.observed_at >= o.observed_at
    BY <1>0 DEF Reconciled, MaxOf
  <2>2. \/ item' = [item EXCEPT ![t] = j]
        \/ call' = [call EXCEPT ![c].pc = "get", ![c].attempt = @ + 1]
        \/ Goto(c, "reread", k.row)
    BY <1>2 DEF ReconcilePut
  <2> HIDE DEF j
  <2>3. item' = [item EXCEPT ![t] = j]
    BY <2>2, RetryCall, GotoCall
  <2>4. item'[t] = j
    BY <1>0, <2>3
  <2> QED
    BY <2>1, <2>4 DEF Fresh
<1>3. CASE RereadAfterConflict(c)
  <2>1. Return(c, "race", item[t])
    BY <1>3 DEF RereadAfterConflict
  <2> QED
    BY <2>1, ReturnCall
<1>4. CASE StoreRaises(c)
  BY <1>4, ReturnCall DEF StoreRaises
<1> QED
  BY <1>1, <1>2, <1>3, <1>4 DEF StoreStep, ConfirmPut, RemoveGet, RemovePut, CoverageGet, CoveragePut

(* So does a removal.                                                      *)
LEMMA RemoveAnswers ==
    ASSUME StoreInv, NEW c \in Callers, StoreStep(c), call[c].op = "remove",
           call'[c].pc = "idle", call'[c].result \notin {"error", "race"}
    PROVE  Fresh(item'[call[c].target], call[c].obs.observed_at)
<1> DEFINE k == call[c]
           t == k.target
           at == k.obs.observed_at
<1>0. /\ k \in Call /\ t \in Targets /\ item \in [Targets -> Item] /\ k.row \in Item
      /\ at \in Nat /\ item[t].observed_at \in Nat
  BY VersionIsNat DEF StoreInv, StoreTypeOK, Call, Item, Observation
<1>1. CASE RemoveGet(c)
  <2>1. item' = item
    BY <1>1 DEF RemoveGet
  <2>2. ~(at > item[t].observed_at)
    <3>1. CASE Goto(c, "put", item[t])
      BY <3>1, GotoCall
    <3>2. CASE Return(c, "race", item[t])
      BY <3>2, ReturnCall
    <3> QED
      BY <1>1, <3>1, <3>2 DEF RemoveGet
  <2> QED
    BY <1>0, <2>1, <2>2 DEF Fresh
<1>2. CASE RemovePut(c)
  <2> DEFINE j == Removed(at, k.row)
  <2>1. j.observed_at = at
    BY <1>0 DEF Removed, Item
  <2>2. item' = [item EXCEPT ![t] = j] \/ Goto(c, "reread", k.row)
    BY <1>2 DEF RemovePut
  <2> HIDE DEF j
  <2>3. item'[t] = j
    BY <1>0, <2>2, GotoCall
  <2> QED
    BY <1>0, <2>1, <2>3 DEF Fresh
<1>3. CASE RereadAfterConflict(c)
  <2>1. Return(c, "race", item[t])
    BY <1>3 DEF RereadAfterConflict
  <2> QED
    BY <2>1, ReturnCall
<1>4. CASE StoreRaises(c)
  BY <1>4, ReturnCall DEF StoreRaises
<1> QED
  BY <1>1, <1>2, <1>3, <1>4 DEF StoreStep, ReconcileGet, ReconcilePut, ConfirmPut, CoverageGet, CoveragePut

LEMMA StoreWorksApplies ==
    ASSUME HandlerInv, SignalInv, NEW c \in Callers, StoreWorks(c)
    PROVE  SignalInv'
<1>1. StoreStep(c) /\ UNCHANGED job
  BY DEF StoreWorks
<1>2. StoreInv /\ Progress(c) /\ Steps(call[c], call'[c])
      /\ item \in [Targets -> Item] /\ item' \in [Targets -> Item]
  BY <1>1, JobTyped, StoreNextProgress, StoreSteps DEF Progress, StoreTypeOK
<1> SUFFICES ASSUME NEW d \in Callers
             PROVE  Signalled(job[d], call'[d], item')
  BY <1>1 DEF SignalInv
<1> DEFINE j == job[d]
<1>j. /\ j \in Job /\ Placed(j) /\ Direct(j) /\ Listed(j, item) /\ Tied(j, call[d])
      /\ Signalled(j, call[d], item)
  BY JobTyped DEF SignalInv
<1> SUFFICES ASSUME j.signal # "none" PROVE Signalled(j, call'[d], item')
  BY DEF Signalled
<1>3. DOMAIN j.gens \subseteq Targets /\ DOMAIN j.batch \subseteq Targets /\ j.t \in Targets
      /\ j.now \in Nat /\ \A t \in DOMAIN j.gens : j.gens[t] \in Nat
  BY <1>j, PartTyped DEF Job
<1>4. ASSUME NEW t \in Targets
      PROVE  /\ Fresh(item[t], j.now) => Fresh(item'[t], j.now)
             /\ \A g \in Nat : item[t].generation > g => item'[t].generation > g
  <2>1. /\ item[t].generation \in Nat /\ item'[t].generation \in Nat
        /\ item[t].observed_at \in Nat /\ item'[t].observed_at \in Nat
    BY <1>2, VersionIsNat DEF Item
  <2>2. item[t].generation <= item'[t].generation /\ item'[t].observed_at >= item[t].observed_at
    BY <1>2 DEF Progress, Precedes
  <2> QED
    BY <1>3, <2>1, <2>2 DEF Fresh
<1>5. \A t \in DOMAIN j.batch :
         (j.phase = "observed" => t \notin j.todo) => Fresh(item'[t], j.now)
  BY <1>3, <1>4, <1>j DEF Signalled
<1>6. j.phase = "absent" =>
         \A t \in DOMAIN j.gens \ (DOMAIN j.batch \cup j.unapplied \cup j.todo) :
            item'[t].generation > j.gens[t] \/ Fresh(item'[t], j.now)
  BY <1>3, <1>4, <1>j DEF Signalled
<1>7. CASE d # c
  <2>1. call'[d] = call[d]
    BY <1>2, <1>7 DEF Progress
  <2> QED
    BY <1>3, <1>4, <1>5, <1>6, <1>j, <2>1 DEF Signalled
<1>8. CASE d = c
  <2> DEFINE k == call[c]
             m == call'[c]
  <2>1. k.pc # "idle" /\ j.pc \in Waiting /\ k.target = j.t
    BY <1>2, <1>8, <1>j DEF Steps, Tied
  <2>2. j.pc = "removing" => k.obs.observed_at = j.now /\ k.op = "remove"
    BY <1>8, <1>j, <2>1 DEF Signalled, Tied
  <2>3. j.pc \in {"reconciling", "relive"} => /\ k.op = "reconcile" /\ ~IsConfig(k.obs)
                                             /\ k.obs.observed_at = j.now
    BY <1>8, <1>j, <2>1 DEF Tied, DirectAt
  <2>4. j.pc = "removing" /\ m.pc # "idle" => m.obs.observed_at = j.now
    BY <1>2, <2>2 DEF Steps, SameCall
  <2>5. j.pc \in {"reconciling", "relive", "removing"} /\ m.pc = "idle" =>
           m.result \in {"error", "race"} \/ Fresh(item'[j.t], j.now)
    BY <1>1, <1>2, <2>1, <2>2, <2>3, ReconcileAnswers, RemoveAnswers
  <2> QED
    BY <1>5, <1>6, <1>8, <2>4, <2>5 DEF Signalled
<1> QED
  BY <1>7, <1>8

LEMMA SignalInitially == InventoryInit => SignalInv
<1> SUFFICES ASSUME InventoryInit, NEW c \in Callers
             PROVE  Signalled(job[c], call[c], item)
  BY DEF SignalInv
<1>1. job[c] = NoJob
  BY DEF InventoryInit
<1> QED
  BY <1>1, NoJobFit DEF Signalled

LEMMA SignalPreserved ==
    HandlerInv /\ SignalInv /\ [InventoryNext]_inventoryVars => SignalInv'
<1> SUFFICES ASSUME HandlerInv, SignalInv, [InventoryNext]_inventoryVars
             PROVE  SignalInv'
  OBVIOUS
<1>1. CASE Tick \/ (\E t \in Targets : Records(t)) \/ UNCHANGED inventoryVars
  <2>1. UNCHANGED <<item, call, job>>
    BY <1>1 DEF Tick, Records, inventoryVars
  <2> QED
    BY <2>1 DEF SignalInv
<1>2. ASSUME NEW c \in Callers,
             \/ StartSnapshot(c) \/ StartRescan(c) \/ Crash(c) \/ Finish(c) \/ Raise(c)
             \/ CoverNext(c) \/ CollectGroups(c) \/ CollectInterfaces(c) \/ CollectInstances(c)
             \/ CollectCaptures(c)
      PROVE  SignalInv'
  <2>1. Frame(c) /\ job'[c].signal = "none"
    BY <1>2, HandlerFrame, OutsideSignal DEF HandlerStep
  <2>2. Signalled(job'[c], call'[c], item)
    BY <2>1 DEF Signalled
  <2> QED
    BY <2>1, <2>2, SignalFrame
<1>3. ASSUME NEW c \in Callers,
             \/ StartSignal(c) \/ Resolve(c) \/ Claim(c) \/ FindCandidates(c) \/ ReconcileNext(c)
             \/ AfterReconcile(c) \/ ObservedDone(c) \/ AfterLive(c) \/ AfterWrite(c)
             \/ ValidateGet(c) \/ ValidateLive(c) \/ ValidateFinal(c) \/ StoreWorks(c)
      PROVE  SignalInv'
  BY <1>3, StartSignalApplies, ResolveApplies, ClaimApplies, ReconcileNextApplies,
     AfterReconcileApplies, ObservedDoneApplies, AfterWriteApplies, ValidateApplies,
     StoreWorksApplies
<1> QED
  BY <1>1, <1>2, <1>3 DEF InventoryNext, HandlerStep

(***************************************************************************)
(* process_signal returns, and its message is deleted, only when what it   *)
(* resolved has reached the store and every candidate it did not resolve   *)
(* has been settled, whatever its calls raced with.                        *)
(***************************************************************************)
THEOREM InventorySignals == InventorySpec => []SignalAppliedBeforeAck
<1>1. HandlerInv /\ SignalInv => SignalAppliedBeforeAck
  <2> SUFFICES ASSUME HandlerInv, SignalInv, NEW c \in Callers, InSignal(c), At(c, "absent"),
                      job[c].todo = {}
               PROVE  /\ \A t \in DOMAIN job[c].batch : item[t].observed_at >= job[c].now
                      /\ \A t \in DOMAIN job[c].gens \ (DOMAIN job[c].batch \cup job[c].unapplied) :
                            \/ item[t].generation > job[c].gens[t]
                            \/ item[t].observed_at >= job[c].now
    BY DEF SignalAppliedBeforeAck
  <2>1. job[c].phase = "absent" /\ Signalled(job[c], call[c], item)
    BY JobTyped DEF Placed, Loop, At, SignalInv
  <2> QED
    BY <2>1 DEF Signalled, Fresh, InSignal
<1> QED
  BY <1>1, SignalInitially, SignalPreserved, InventoryHandlers, PTL DEF InventorySpec
=============================================================================
