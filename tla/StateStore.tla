----------------------------- MODULE StateStore -----------------------------
(***************************************************************************)
(* DynamoStateStore (inventory/state.py): the target rows, the outbox rows *)
(* and the four operations that write them.  Every operation reads a row,  *)
(* decides, and writes back under a condition on what it read, so the      *)
(* Lambda invocations that call the store interleave between the read and  *)
(* the write.  A caller is one invocation with at most one call in flight. *)
(*                                                                         *)
(* Times are the datetimes the store compares; 0 is a missing time.        *)
(***************************************************************************)
EXTENDS Naturals

CONSTANTS
    Targets,     \* target ids
    Callers,     \* concurrent Lambda invocations
    Contents,    \* state_signature: [ip, life, groups, policy]
    Groups,      \* security group ids
    Times,       \* observation times
    Observations,\* the observations callers may hand over
    Buckets,     \* schedule buckets of the coverage rescan
    MaxRetries   \* max_retries of the store

ASSUME StoreAssumption ==
    /\ Contents # {}
    /\ Targets # {}
    /\ Times \subseteq Nat \ {0}
    /\ MaxRetries \in Nat \ {0}

ASSUME LifecycleAssumption ==
    \A c, d \in Contents : [c EXCEPT !.life = d.life] \in Contents

(* What a caller observed of a target.  eni_v and grp_v are the capture    *)
(* versions of an AWS Config observation; a direct EC2 read has none.      *)
NoTime == 0

Version == Times \cup {NoTime}

Observation == [content: Contents, observed_at: Version,
                eni_v: Version, grp_v: [Groups -> Version]]

(* NormalizedTarget accepts versions of the target's own groups only.      *)
ASSUME ObservationAssumption ==
    /\ Observations \subseteq Observation
    /\ \A o \in Observations, g \in Groups :
          g \notin o.content.groups => o.grp_v[g] = NoTime

VARIABLES
    item,    \* item[t]: the TARGET#t row
    outbox,  \* the OUTBOX#event rows
    call     \* call[c]: the store call invocation c is in, or its last result

storeVars == <<item, outbox, call>>

MaxOf(a, b) == IF a >= b THEN a ELSE b

NoGroupVersions == [g \in Groups |-> NoTime]

DirectObservation(content, at) ==
    [content |-> content, observed_at |-> at,
     eni_v |-> NoTime, grp_v |-> NoGroupVersions]

(* config_snapshot.py dates the composite by its latest component.         *)
ConfigObservation(content, eniAt, groupsAt) ==
    [content |-> content,
     observed_at |-> IF content.groups = {} THEN eniAt ELSE MaxOf(eniAt, groupsAt),
     eni_v |-> eniAt,
     grp_v |-> [g \in Groups |-> IF g \in content.groups THEN groupsAt ELSE NoTime]]

IsConfig(o) == o.eni_v # NoTime

Item == [generation: Nat, status: {"absent", "active", "removed"},
         content: Contents, observed_at: Version,
         eni_v: Version, grp_v: [Groups -> Version]]

NoItem == [generation |-> 0, status |-> "absent",
           content |-> CHOOSE c \in Contents : TRUE, observed_at |-> NoTime,
           eni_v |-> NoTime, grp_v |-> NoGroupVersions]

Exists(i) == i.generation # 0

-----------------------------------------------------------------------------
(* _config_observation_order: how an incoming version vector compares with *)
(* the stored one.                                                         *)
ConfigObservationOrder(o, i) ==
    LET groups        == o.content.groups
        known         == {g \in groups : i.grp_v[g] # NoTime}
        groupsChanged == groups # i.content.groups
        unknown       == i.eni_v = NoTime \/ known # groups
        advanced      == \/ i.eni_v # NoTime /\ o.eni_v > i.eni_v
                         \/ \E g \in known : o.grp_v[g] > i.grp_v[g]
        regressed     == \/ i.eni_v # NoTime /\ o.eni_v < i.eni_v
                         \/ \E g \in known : o.grp_v[g] < i.grp_v[g]
    IN  IF \/ groupsChanged /\ i.eni_v # NoTime /\ o.eni_v = i.eni_v
           \/ unknown
           \/ advanced /\ regressed
        THEN "mixed"
        ELSE IF advanced \/ (groupsChanged /\ ~regressed)
             THEN "advances" ELSE "not-newer"

(* preserving_component_versions: a direct read keeps the stored versions  *)
(* of the components it saw unchanged and forgets the others.              *)
SameInterface(c, d) == c.ip = d.ip /\ c.life = d.life /\ c.groups = d.groups

SamePolicy(c, d) == c.groups = d.groups /\ c.policy = d.policy

PreservingComponentVersions(o, i) ==
    [o EXCEPT
       !.eni_v = IF SameInterface(o.content, i.content) THEN i.eni_v ELSE NoTime,
       !.grp_v = IF SamePolicy(o.content, i.content) THEN i.grp_v ELSE NoGroupVersions]

(* preserving_known_lifecycle: an observation that cannot tell the         *)
(* instance state keeps the one that is stored.                            *)
PreservingKnownLifecycle(c, d) ==
    IF c.life = "unknown" THEN [c EXCEPT !.life = d.life] ELSE c

(* Mutant: new content under an old generation.                            *)
ReconciledInPlace(o, i) ==
    [generation  |-> IF i.status = "active" THEN i.generation ELSE i.generation + 1,
     status      |-> "active",
     content     |-> o.content,
     observed_at |-> MaxOf(o.observed_at, i.observed_at),
     eni_v       |-> o.eni_v,
     grp_v       |-> o.grp_v]

(* Mutant: the watermark of the incoming observation, not of the later one.*)
ReconciledIncoming(o, i) ==
    [generation  |-> IF i.status = "active" /\ i.content = o.content
                     THEN i.generation ELSE i.generation + 1,
     status      |-> "active",
     content     |-> o.content,
     observed_at |-> o.observed_at,
     eni_v       |-> o.eni_v,
     grp_v       |-> o.grp_v]

(* The row reconcile builds from observation o over the row i it read.     *)
Reconciled(o, i) ==
    LET merged  == IF Exists(i) /\ ~IsConfig(o)
                   THEN PreservingComponentVersions(o, i) ELSE o
        content == IF i.status = "active"
                   THEN PreservingKnownLifecycle(o.content, i.content)
                   ELSE o.content
        same    == i.status = "active" /\ i.content = content
    IN  [generation  |-> IF same THEN i.generation ELSE i.generation + 1,
         status      |-> "active",
         content     |-> content,
         observed_at |-> MaxOf(o.observed_at, i.observed_at),
         eni_v       |-> merged.eni_v,
         grp_v       |-> merged.grp_v]

(* build_target_event: the reason of the event that announces row j over i *)
ReasonFor(i, j) ==
    IF i.status # "active" THEN "new_target"
    ELSE IF SamePolicy(i.content, j.content) THEN "target_change"
    ELSE "policy_change"

(* Mutant: the event carries the generation it replaces.                   *)
EventForPrevious(t, j, reason, bucket) ==
    [target |-> t, generation |-> j.generation - 1, content |-> j.content,
     reason |-> reason, bucket |-> bucket]

EventFor(t, j, reason, bucket) ==
    [target |-> t, generation |-> j.generation, content |-> j.content,
     reason |-> reason, bucket |-> bucket]

(* Mutant: the condition leaves out the versions of the components.        *)
UnmovedWatermark(t, i) ==
    /\ item[t].generation = i.generation
    /\ item[t].status = i.status
    /\ item[t].observed_at = i.observed_at

(* Mutant: the condition only asks that the row has not been removed.      *)
UnmovedStatus(t, i) == item[t].status = i.status

(* The condition of every put: the row is still the one that was read.     *)
Unmoved(t, i) ==
    /\ item[t].generation = i.generation
    /\ item[t].status = i.status
    /\ item[t].observed_at = i.observed_at
    /\ item[t].eni_v = i.eni_v
    /\ item[t].grp_v = i.grp_v

-----------------------------------------------------------------------------
Ops == {"none", "reconcile", "confirm", "remove", "coverage"}

Results == {"none", "added", "changed", "noop", "removed", "race",
            "revalidate", "error"}

Call == [op: Ops, pc: {"idle", "get", "put", "reread"}, target: Targets,
         obs: Observation, generation: Nat, bucket: Buckets \cup {0},
         attempt: Nat, row: Item, result: Results]

(* row is what the call read.  A finished call keeps its result, and the   *)
(* state a reconcile returned: the only returned state a caller uses again.*)
NoCall == [op |-> "none", pc |-> "idle", target |-> CHOOSE t \in Targets : TRUE,
           obs |-> DirectObservation(NoItem.content, NoTime), generation |-> 0,
           bucket |-> 0, attempt |-> 0, row |-> NoItem, result |-> "none"]

StoreInit ==
    /\ item = [t \in Targets |-> NoItem]
    /\ outbox = {}
    /\ call = [c \in Callers |-> NoCall]

Idle(c) == call[c].pc = "idle"

Return(c, result, row) ==
    call' = [call EXCEPT ![c] =
               [NoCall EXCEPT !.op = call[c].op, !.target = call[c].target,
                              !.result = result,
                              !.row = IF call[c].op = "reconcile" /\ result # "error"
                                      THEN row ELSE NoItem]]

Goto(c, pc, row) == call' = [call EXCEPT ![c].pc = pc, ![c].row = row]

(* A write whose response is lost has happened all the same, and the       *)
(* caller sees an exception: it returns its result or "error".             *)
Responses(result) == {result, "error"}

-----------------------------------------------------------------------------
(* reconcile(target, source, now)                                          *)
CallReconcile(c, t, o) ==
    /\ Idle(c)
    /\ call' = [call EXCEPT ![c] = [NoCall EXCEPT !.op = "reconcile", !.pc = "get",
                                    !.target = t, !.obs = o, !.attempt = 1]]
    /\ UNCHANGED <<item, outbox>>

ReconcileGet(c) ==
    LET i == item[call[c].target]
        o == call[c].obs
        order == ConfigObservationOrder(o, i)
    IN
    /\ call[c].op = "reconcile" /\ call[c].pc = "get"
    /\ \/ /\ Exists(i) /\ IsConfig(o) /\ order = "mixed"
          /\ Return(c, "revalidate", i)
       \/ /\ Exists(i) /\ IsConfig(o) /\ order = "not-newer"
          /\ Return(c, "noop", i)
       \/ /\ Exists(i) /\ ~IsConfig(o) /\ o.observed_at <= i.observed_at
          /\ Return(c, "noop", i)
       \/ /\ \/ ~Exists(i)
             \/ IsConfig(o) /\ order = "advances"
             \/ ~IsConfig(o) /\ o.observed_at > i.observed_at
          /\ Goto(c, "put", i)
    /\ UNCHANGED <<item, outbox>>

ReconcilePut(c) ==
    LET t == call[c].target
        i == call[c].row
        j == Reconciled(call[c].obs, i)
        e == EventFor(t, j, ReasonFor(i, j), 0)
    IN
    /\ call[c].op = "reconcile" /\ call[c].pc = "put"
    /\ \/ /\ Unmoved(t, i)
          /\ j.generation = i.generation
          /\ item' = [item EXCEPT ![t] = j]
          /\ \E r \in Responses("noop") : Return(c, r, j)
          /\ UNCHANGED outbox
       \/ /\ Unmoved(t, i)
          /\ j.generation # i.generation
          /\ e \notin outbox
          /\ item' = [item EXCEPT ![t] = j]
          /\ outbox' = outbox \cup {e}
          /\ \E r \in Responses(IF i.status = "active" THEN "changed" ELSE "added") :
                Return(c, r, j)
       \/ /\ \/ ~Unmoved(t, i)
             \/ j.generation # i.generation /\ e \in outbox
          /\ IF call[c].attempt < MaxRetries
             THEN call' = [call EXCEPT ![c].pc = "get", ![c].attempt = @ + 1]
             ELSE Goto(c, "reread", i)
          /\ UNCHANGED <<item, outbox>>

(* confirm_config_versions(expected, observation): expected is the state   *)
(* the caller's last reconcile returned.                                   *)
CallConfirm(c, o) ==
    /\ Idle(c)
    /\ call[c].op = "reconcile" /\ Exists(call[c].row)
    /\ call' = [call EXCEPT ![c].op = "confirm", ![c].pc = "put", ![c].obs = o]
    /\ UNCHANGED <<item, outbox>>

Confirmed(o, i) ==
    [i EXCEPT !.eni_v = MaxOf(i.eni_v, o.eni_v),
              !.grp_v = [g \in Groups |-> IF g \in i.content.groups
                                          THEN MaxOf(i.grp_v[g], o.grp_v[g])
                                          ELSE NoTime]]

ConfirmPut(c) ==
    LET t == call[c].target
        i == call[c].row
        o == call[c].obs
        j == Confirmed(o, i)
    IN
    /\ call[c].op = "confirm" /\ call[c].pc = "put"
    /\ \/ /\ o.content # i.content \/ ~IsConfig(o)
          /\ Return(c, "noop", i)
          /\ UNCHANGED item
       \/ /\ o.content = i.content /\ IsConfig(o) /\ Unmoved(t, i)
          /\ item' = [item EXCEPT ![t] = j]
          /\ \E r \in Responses("noop") : Return(c, r, j)
       \/ /\ o.content = i.content /\ IsConfig(o) /\ ~Unmoved(t, i)
          /\ Goto(c, "reread", i)
          /\ UNCHANGED item
    /\ UNCHANGED outbox

(* remove(expected, source, now): g is expected.generation and at the time *)
(* of the provider read that found the target gone.                        *)
CallRemove(c, t, g, at) ==
    /\ Idle(c)
    /\ call' = [call EXCEPT ![c] = [NoCall EXCEPT !.op = "remove", !.pc = "get",
                                    !.target = t, !.generation = g,
                                    !.obs.observed_at = at]]
    /\ UNCHANGED <<item, outbox>>

RemoveGet(c) ==
    LET i == item[call[c].target]
        expected == i.status = "active" /\ i.generation = call[c].generation
        newer == call[c].obs.observed_at > i.observed_at
    IN
    /\ call[c].op = "remove" /\ call[c].pc = "get"
    /\ \/ ~expected /\ Return(c, "race", i)
       \/ expected /\ ~newer /\ Return(c, "noop", i)
       \/ expected /\ newer /\ Goto(c, "put", i)
    /\ UNCHANGED <<item, outbox>>

(* Mutant: a tombstone at the generation it removes.                       *)
RemovedInPlace(at, i) == [i EXCEPT !.status = "removed", !.observed_at = at]

Removed(at, i) ==
    [i EXCEPT !.generation = i.generation + 1, !.status = "removed",
              !.observed_at = at]

RemovePut(c) ==
    LET t == call[c].target
        i == call[c].row
        j == Removed(call[c].obs.observed_at, i)
        e == EventFor(t, j, "removed", 0)
    IN
    /\ call[c].op = "remove" /\ call[c].pc = "put"
    /\ \/ /\ Unmoved(t, i) /\ e \notin outbox
          /\ item' = [item EXCEPT ![t] = j]
          /\ outbox' = outbox \cup {e}
          /\ \E r \in Responses("removed") : Return(c, r, j)
       \/ /\ ~Unmoved(t, i) \/ e \in outbox
          /\ Goto(c, "reread", i)
          /\ UNCHANGED <<item, outbox>>

(* enqueue_coverage(state, source, now): g is state.generation and b the   *)
(* schedule bucket the event id is derived from.                           *)
CallCoverage(c, t, g, b) ==
    /\ Idle(c)
    /\ call' = [call EXCEPT ![c] = [NoCall EXCEPT !.op = "coverage", !.pc = "get",
                                    !.target = t, !.generation = g, !.bucket = b]]
    /\ UNCHANGED <<item, outbox>>

CoverageCurrent(c, i) == i.status = "active" /\ i.generation = call[c].generation

CoverageGet(c) ==
    LET i == item[call[c].target] IN
    /\ call[c].op = "coverage" /\ call[c].pc = "get"
    /\ \/ ~CoverageCurrent(c, i) /\ Return(c, "race", i)
       \/ CoverageCurrent(c, i) /\ Goto(c, "put", i)
    /\ UNCHANGED <<item, outbox>>

CoveragePut(c) ==
    LET t == call[c].target
        i == call[c].row
        e == EventFor(t, i, "coverage", call[c].bucket)
    IN
    /\ call[c].op = "coverage" /\ call[c].pc = "put"
    /\ \/ /\ CoverageCurrent(c, item[t]) /\ e \notin outbox
          /\ outbox' = outbox \cup {e}
          /\ \E r \in Responses("changed") : Return(c, r, i)
       \/ /\ e \in outbox  \* a repeated ClientRequestToken
          /\ Return(c, "changed", i)
          /\ UNCHANGED outbox
       \/ /\ ~CoverageCurrent(c, item[t]) \/ e \in outbox
          /\ Goto(c, "reread", i)
          /\ UNCHANGED outbox
    /\ UNCHANGED item

(* Every operation ends a lost race with one more get: the latest row goes *)
(* back to the caller.  A coverage event that was already there is no race.*)
RereadAfterConflict(c) ==
    LET i == item[call[c].target] IN
    /\ call[c].pc = "reread"
    /\ Return(c, IF call[c].op = "coverage" /\ CoverageCurrent(c, i)
                 THEN "noop" ELSE "race", i)
    /\ UNCHANGED <<item, outbox>>

(* A read or write that fails for any other reason (throttling, a          *)
(* transaction conflict, a lost connection) has no effect and raises.      *)
StoreRaises(c) ==
    /\ ~Idle(c)
    /\ Return(c, "error", call[c].row)
    /\ UNCHANGED <<item, outbox>>

StoreStep(c) ==
    \/ ReconcileGet(c) \/ ReconcilePut(c)
    \/ ConfirmPut(c)
    \/ RemoveGet(c) \/ RemovePut(c)
    \/ CoverageGet(c) \/ CoveragePut(c)
    \/ RereadAfterConflict(c)
    \/ StoreRaises(c)

(* The invocation ends, or dies in the middle of a call: what it knew goes *)
(* with it.                                                                *)
Abandon(c) ==
    /\ call[c] # NoCall
    /\ call' = [call EXCEPT ![c] = NoCall]
    /\ UNCHANGED <<item, outbox>>

(* Callers hand over what they observed, or a generation they once read.   *)
Callable(c) ==
    \/ \E t \in Targets, o \in Observations : CallReconcile(c, t, o)
    \/ \E o \in Observations : CallConfirm(c, o)
    \/ \E t \in Targets, a \in Times :
          \E g \in 1 .. item[t].generation : CallRemove(c, t, g, a)
    \/ \E t \in Targets, b \in Buckets :
          \E g \in 1 .. item[t].generation : CallCoverage(c, t, g, b)

StoreNext == \E c \in Callers : Callable(c) \/ StoreStep(c) \/ Abandon(c)

StoreSpec == StoreInit /\ [][StoreNext]_storeVars

-----------------------------------------------------------------------------
(* The abstract history the rows and the outbox stand for.                 *)
Ledger == INSTANCE TargetLedger WITH
    current   <- [t \in Targets |-> [generation |-> item[t].generation,
                                     status |-> item[t].status,
                                     content |-> item[t].content]],
    published <- outbox

StoreTypeOK ==
    /\ item \in [Targets -> Item]
    /\ outbox \subseteq Ledger!Event
    /\ call \in [Callers -> Call]

(***************************************************************************)
(* What fencing rests on: while a call holds a row it read, the stored row *)
(* is at that generation or a later one, and at the same generation it has *)
(* the same status and content.  So the condition Unmoved, which compares  *)
(* neither, protects both.                                                 *)
(***************************************************************************)
Precedes(i, j) ==
    /\ i.generation <= j.generation
    /\ i.generation = j.generation => i.status = j.status /\ i.content = j.content

ReadIsPast ==
    \A c \in Callers :
        Exists(call[c].row) => Precedes(call[c].row, item[call[c].target])

(***************************************************************************)
(* DynamoStateStore implements the ledger: whatever the interleaving of    *)
(* its reads and conditional writes, each one is a ledger step or no step. *)
(***************************************************************************)
ImplementsLedger == Ledger!LedgerSpec

(***************************************************************************)
(* The event stream of a target, as consumers of the outbox see it.        *)
(***************************************************************************)
OneEventPerGeneration == Ledger!OneEventPerGeneration

(***************************************************************************)
(* new_target events stand exactly at generation 1 and after tombstones.   *)
(***************************************************************************)
NewTargetFollowsRemoval == Ledger!NewTargetFollowsRemoval

(***************************************************************************)
(* Coverage rescans are for generations that were active when enqueued.    *)
(***************************************************************************)
CoverageFenced == Ledger!CoverageFenced

(***************************************************************************)
(* The watermark of a row never moves back, so a delayed direct read or    *)
(* removal is never applied over a later one.                              *)
(***************************************************************************)
WatermarkMonotone ==
    [][\A t \in Targets : item'[t].observed_at >= item[t].observed_at]_item

(***************************************************************************)
(* Captures of an interface and of its groups arrive apart and out of      *)
(* order, and invocations race: whatever a put replaces, no component goes *)
(* back to an older capture.  A direct read may forget a version, and then *)
(* no capture is applied until one is confirmed against the content.       *)
(***************************************************************************)
NoOlder(v, w) == w = NoTime \/ w >= v

CaptureVersionsMonotone ==
    [][\A t \in Targets :
          /\ NoOlder(item[t].eni_v, item'[t].eni_v)
          /\ \A g \in Groups : NoOlder(item[t].grp_v[g], item'[t].grp_v[g])]_item
=============================================================================
