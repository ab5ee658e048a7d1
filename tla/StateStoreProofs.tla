-------------------------- MODULE StateStoreProofs --------------------------
(* DynamoStateStore implements the ledger, for any number of targets,      *)
(* invocations, contents, observations and retries.                        *)
EXTENDS StateStore, TLAPS

WellFormed(i) == i.status = "absent" <=> i.generation = 0

(* What is known of a call k in flight when the rows are r.                *)
Sound(k, r) ==
    /\ WellFormed(k.row)
    /\ Exists(k.row) => Precedes(k.row, r[k.target])
    /\ k.pc = "put" /\ k.op = "confirm" => Exists(k.row)
    /\ k.pc = "put" /\ k.op = "remove" =>
          k.row.status = "active" /\ k.obs.observed_at > k.row.observed_at
    /\ k.pc = "put" /\ k.op = "coverage" =>
          k.row.status = "active" /\ k.row.generation = k.generation
    /\ k.pc # "idle" /\ k.op = "coverage" => k.bucket \in Buckets

StoreInv ==
    /\ StoreTypeOK
    /\ \A t \in Targets : WellFormed(item[t])
    /\ \A c \in Callers : Sound(call[c], item)

(* What a step of invocation c may do to the rows and the calls.           *)
Progress(c) ==
    /\ item' \in [Targets -> Item]
    /\ \A t \in Targets : /\ WellFormed(item'[t])
                          /\ Precedes(item[t], item'[t])
                          /\ item'[t].observed_at >= item[t].observed_at
    /\ outbox' \subseteq Ledger!Event
    /\ call' \in [Callers -> Call]
    /\ \A d \in Callers \ {c} : call'[d] = call[d]
    /\ Sound(call'[c], item')

(***************************************************************************)
(* NoItem and NoCall have their types.                                     *)
(***************************************************************************)
LEMMA NoItemType == NoItem \in Item /\ WellFormed(NoItem) /\ ~Exists(NoItem)
<1>1. (CHOOSE c \in Contents : TRUE) \in Contents
  BY StoreAssumption
<1>2. NoTime \in Version /\ NoGroupVersions \in [Groups -> Version]
  BY DEF NoGroupVersions, Version
<1> QED BY <1>1, <1>2 DEF NoItem, Item, WellFormed, Exists

LEMMA VersionIsNat == Version \subseteq Nat
BY StoreAssumption DEF Version, NoTime

LEMMA NoCallType == NoCall \in Call
<1>1. (CHOOSE t \in Targets : TRUE) \in Targets
  BY StoreAssumption
<1>2. DirectObservation(NoItem.content, NoTime) \in Observation
  BY NoItemType DEF DirectObservation, Observation, NoItem, Item, Version
<1> QED BY <1>1, <1>2, NoItemType DEF NoCall, Call, Ops, Results

(***************************************************************************)
(* Being at most the generation of a row is transitive.                    *)
(***************************************************************************)
LEMMA PrecedesTransitive ==
    ASSUME NEW i \in Item, NEW j \in Item, NEW k \in Item,
           Precedes(i, j), Precedes(j, k)
    PROVE  Precedes(i, k)
BY DEF Precedes, Item

LEMMA PrecedesReflexive ==
    ASSUME NEW i \in Item PROVE Precedes(i, i)
BY DEF Precedes, Item

(***************************************************************************)
(* A step that makes progress keeps the invariant: the calls it does not   *)
(* touch hold rows that are still past.                                    *)
(***************************************************************************)
LEMMA ProgressInv ==
    ASSUME StoreInv, NEW c \in Callers, Progress(c)
    PROVE  StoreInv'
<1>1. StoreTypeOK'
  BY DEF Progress, StoreTypeOK
<1>2. \A t \in Targets : WellFormed(item'[t])
  BY DEF Progress
<1>3. ASSUME NEW d \in Callers PROVE Sound(call'[d], item')
  <2>1. CASE d = c
    BY <2>1 DEF Progress
  <2>2. CASE d # c
    <3> DEFINE k == call[d]
    <3>1. call'[d] = k /\ k \in Call /\ Sound(k, item)
      BY <2>2 DEF Progress, StoreInv, StoreTypeOK
    <3>2. k.row \in Item /\ k.target \in Targets
      BY <3>1 DEF Call
    <3>3. item[k.target] \in Item /\ item'[k.target] \in Item
          /\ Precedes(item[k.target], item'[k.target])
      BY <3>2 DEF Progress, StoreInv, StoreTypeOK
    <3>4. Exists(k.row) => Precedes(k.row, item'[k.target])
      BY <3>1, <3>2, <3>3, PrecedesTransitive DEF Sound
    <3> HIDE DEF k
    <3> QED BY <3>1, <3>4 DEF Sound
  <2> QED BY <2>1, <2>2
<1> QED BY <1>1, <1>2, <1>3 DEF StoreInv

(***************************************************************************)
(* What Return and Goto leave in the call.                                 *)
(***************************************************************************)
LEMMA ReturnSound ==
    ASSUME StoreTypeOK, NEW c \in Callers, NEW result \in Results,
           NEW row \in Item, WellFormed(row), NEW r,
           Exists(row) => Precedes(row, r[call[c].target]),
           Return(c, result, row)
    PROVE  /\ call' \in [Callers -> Call]
           /\ \A d \in Callers \ {c} : call'[d] = call[d]
           /\ Sound(call'[c], r)
<1> DEFINE kept == IF call[c].op = "reconcile" /\ result # "error" THEN row ELSE NoItem
           k == [NoCall EXCEPT !.op = call[c].op, !.target = call[c].target,
                               !.result = result, !.row = kept]
<1>1. call' = [call EXCEPT ![c] = k]
  BY DEF Return
<1>2. call[c] \in Call /\ call \in [Callers -> Call]
  BY DEF StoreTypeOK
<1>3. kept \in Item /\ WellFormed(kept)
      /\ (Exists(kept) => Precedes(kept, r[call[c].target]))
  BY NoItemType
<1> HIDE DEF kept
<1>4. k \in Call /\ k.row = kept /\ k.target = call[c].target /\ k.pc = "idle"
  BY <1>2, <1>3, NoCallType DEF Call, NoCall
<1> HIDE DEF k
<1>5. Sound(k, r)
  BY <1>3, <1>4 DEF Sound
<1> QED BY <1>1, <1>2, <1>4, <1>5

LEMMA GotoType ==
    ASSUME StoreTypeOK, NEW c \in Callers, NEW pc \in {"put", "reread"},
           NEW row \in Item, Goto(c, pc, row)
    PROVE  /\ call' \in [Callers -> Call]
           /\ \A d \in Callers \ {c} : call'[d] = call[d]
           /\ call'[c] = [call[c] EXCEPT !.pc = pc, !.row = row]
<1>1. call[c] \in Call /\ call \in [Callers -> Call]
  BY DEF StoreTypeOK
<1>2. call' = [call EXCEPT ![c] = [call[c] EXCEPT !.pc = pc, !.row = row]]
  BY <1>1 DEF Goto, Call
<1>3. [call[c] EXCEPT !.pc = pc, !.row = row] \in Call
  BY <1>1 DEF Call
<1> QED BY <1>1, <1>2, <1>3

(***************************************************************************)
(* The rows reconcile, confirm and remove write have the type of a row.    *)
(***************************************************************************)
LEMMA ReconciledType ==
    ASSUME NEW o \in Observation, NEW i \in Item, WellFormed(i)
    PROVE  LET j == Reconciled(o, i) IN
           /\ j \in Item /\ WellFormed(j) /\ j.status = "active"
           /\ j.observed_at >= i.observed_at
           /\ Precedes(i, j)
           /\ j.generation \in {i.generation, i.generation + 1}
           /\ j.generation # i.generation /\ i.status = "active" => j.content # i.content
<1> DEFINE merged  == IF Exists(i) /\ ~IsConfig(o)
                      THEN PreservingComponentVersions(o, i) ELSE o
           content == IF i.status = "active"
                      THEN PreservingKnownLifecycle(o.content, i.content)
                      ELSE o.content
           same    == i.status = "active" /\ i.content = content
           j       == Reconciled(o, i)
<1>1. o.content \in Contents /\ i.content \in Contents
  BY DEF Observation, Item
<1>2. content \in Contents
  <2>1. PreservingKnownLifecycle(o.content, i.content) \in Contents
    BY <1>1, LifecycleAssumption, Zenon DEF PreservingKnownLifecycle
  <2> QED BY <2>1, <1>1
<1>3. merged.eni_v \in Version /\ merged.grp_v \in [Groups -> Version]
  <2>1. NoTime \in Version /\ NoGroupVersions \in [Groups -> Version]
    BY DEF NoGroupVersions, Version
  <2> QED BY <2>1 DEF Observation, Item, PreservingComponentVersions
<1>4. j = [generation  |-> IF same THEN i.generation ELSE i.generation + 1,
           status      |-> "active",
           content     |-> content,
           observed_at |-> MaxOf(o.observed_at, i.observed_at),
           eni_v       |-> merged.eni_v,
           grp_v       |-> merged.grp_v]
  BY DEF Reconciled
<1>5. Version \subseteq Nat
  BY VersionIsNat
<1>6. o.observed_at \in Version /\ i.observed_at \in Version /\ i.generation \in Nat
  BY DEF Observation, Item
<1>7. MaxOf(o.observed_at, i.observed_at) \in Version
      /\ MaxOf(o.observed_at, i.observed_at) >= i.observed_at
  <2>1. o.observed_at \in Nat /\ i.observed_at \in Nat
    BY <1>5, <1>6
  <2> QED BY <2>1, <1>6 DEF MaxOf
<1> HIDE DEF content, merged, j
<1>8. j \in Item /\ j.status = "active" /\ j.observed_at >= i.observed_at
  BY <1>2, <1>3, <1>4, <1>6, <1>7 DEF Item
<1>9. CASE same
  BY <1>4, <1>6, <1>8, <1>9 DEF WellFormed, Precedes, j
<1>10. CASE ~same
  BY <1>4, <1>6, <1>8, <1>10 DEF WellFormed, Precedes, j
<1> QED BY <1>9, <1>10

LEMMA RemovedType ==
    ASSUME NEW i \in Item, NEW at \in Version
    PROVE  LET j == Removed(at, i) IN
           /\ j \in Item /\ j.generation = i.generation + 1 /\ j.status = "removed"
           /\ j.content = i.content /\ j.observed_at = at
<1> DEFINE n == i.generation + 1
           j == [i EXCEPT !.generation = n, !.status = "removed", !.observed_at = at]
<1>1. n \in Nat
  BY DEF Item
<1> HIDE DEF n
<1>2. /\ j \in Item /\ j.generation = n /\ j.status = "removed"
      /\ j.content = i.content /\ j.observed_at = at
  BY <1>1 DEF Item
<1> QED BY <1>2 DEF Removed, n

-----------------------------------------------------------------------------
LedgerStep == Ledger!LedgerNext \/ UNCHANGED Ledger!ledgerVars

(***************************************************************************)
(* A step that writes neither rows nor events.                             *)
(***************************************************************************)
LEMMA QuietStep ==
    ASSUME StoreInv, NEW c \in Callers, UNCHANGED <<item, outbox>>,
           call' \in [Callers -> Call],
           \A d \in Callers \ {c} : call'[d] = call[d],
           Sound(call'[c], item)
    PROVE  Progress(c) /\ LedgerStep
<1>1. Progress(c)
  <2>1. \A t \in Targets : Precedes(item[t], item[t])
    BY PrecedesReflexive DEF StoreInv, StoreTypeOK
  <2>2. \A t \in Targets : item[t].observed_at >= item[t].observed_at
    <3>1. \A t \in Targets : item[t].observed_at \in Nat
      BY VersionIsNat DEF StoreInv, StoreTypeOK, Item
    <3> QED BY <3>1
  <2> QED BY <2>1, <2>2 DEF Progress, StoreInv, StoreTypeOK
<1>2. UNCHANGED Ledger!ledgerVars
  BY DEF Ledger!ledgerVars
<1> QED BY <1>1, <1>2 DEF LedgerStep

LEMMA ReadRow ==
    ASSUME StoreInv, NEW c \in Callers
    PROVE  LET i == item[call[c].target] IN
           /\ call[c] \in Call /\ call[c].target \in Targets
           /\ i \in Item /\ WellFormed(i) /\ Precedes(i, i)
           /\ call[c].row \in Item /\ Sound(call[c], item)
<1>1. call[c] \in Call /\ Sound(call[c], item)
  BY DEF StoreInv, StoreTypeOK
<1>2. call[c].target \in Targets /\ call[c].row \in Item
  BY <1>1 DEF Call
<1>3. item[call[c].target] \in Item /\ WellFormed(item[call[c].target])
  BY <1>2 DEF StoreInv, StoreTypeOK
<1> QED BY <1>1, <1>2, <1>3, PrecedesReflexive

(* A return without a write of the row just read, or of the call's row.    *)
LEMMA ReturnRead ==
    ASSUME StoreInv, NEW c \in Callers, NEW result \in Results,
           NEW row \in {item[call[c].target], call[c].row},
           Return(c, result, row), UNCHANGED <<item, outbox>>
    PROVE  Progress(c) /\ LedgerStep
<1>1. /\ row \in Item /\ WellFormed(row)
      /\ Exists(row) => Precedes(row, item[call[c].target])
  BY ReadRow DEF Sound
<1>2. StoreTypeOK
  BY DEF StoreInv
<1>3. /\ call' \in [Callers -> Call]
      /\ \A d \in Callers \ {c} : call'[d] = call[d]
      /\ Sound(call'[c], item)
  BY <1>1, <1>2, ReturnSound
<1> QED BY <1>3, QuietStep

(***************************************************************************)
(* Entering an operation writes nothing and holds no row, except confirm,  *)
(* which goes on with the row its reconcile returned.                      *)
(***************************************************************************)
LEMMA CallableProgress ==
    ASSUME StoreInv, NEW c \in Callers, Callable(c)
    PROVE  Progress(c) /\ LedgerStep
<1>0. StoreTypeOK /\ Sound(call[c], item) /\ call[c] \in Call
  BY DEF StoreInv, StoreTypeOK
<1>a. Times \subseteq Version /\ Observations \subseteq Observation
  BY ObservationAssumption DEF Version
<1>1. ASSUME NEW k \in Call, call' = [call EXCEPT ![c] = k], Sound(k, item),
             UNCHANGED <<item, outbox>>
      PROVE  Progress(c) /\ LedgerStep
  <2>1. call' \in [Callers -> Call] /\ call'[c] = k
        /\ \A d \in Callers \ {c} : call'[d] = call[d]
    BY <1>1, <1>0 DEF StoreTypeOK
  <2> QED BY <2>1, <1>1, QuietStep
<1>2. ASSUME NEW t \in Targets, NEW o \in Observations, CallReconcile(c, t, o)
      PROVE  Progress(c) /\ LedgerStep
  <2> DEFINE k == [NoCall EXCEPT !.op = "reconcile", !.pc = "get",
                                 !.target = t, !.obs = o, !.attempt = 1]
  <2>1. k \in Call
    BY <1>a, NoCallType DEF Call, Ops
  <2>2. Sound(k, item)
    BY NoItemType DEF Sound, NoCall
  <2>3. call' = [call EXCEPT ![c] = k] /\ UNCHANGED <<item, outbox>>
    BY <1>2 DEF CallReconcile
  <2> HIDE DEF k
  <2> QED BY <2>1, <2>2, <2>3, <1>1
<1>3. ASSUME NEW o \in Observations, CallConfirm(c, o)
      PROVE  Progress(c) /\ LedgerStep
  <2> DEFINE k == [call[c] EXCEPT !.op = "confirm", !.pc = "put", !.obs = o]
  <2>1. k \in Call
    BY <1>a, <1>0 DEF Call, Ops
  <2>2. Sound(k, item)
    BY <1>0, <1>3 DEF Sound, CallConfirm, Call
  <2>3. call' = [call EXCEPT ![c] = k] /\ UNCHANGED <<item, outbox>>
    BY <1>3, <1>0 DEF CallConfirm, StoreTypeOK, Call
  <2> HIDE DEF k
  <2> QED BY <2>1, <2>2, <2>3, <1>1
<1>4. ASSUME NEW t \in Targets, NEW a \in Times,
             NEW g \in 1 .. item[t].generation, CallRemove(c, t, g, a)
      PROVE  Progress(c) /\ LedgerStep
  <2> DEFINE k == [NoCall EXCEPT !.op = "remove", !.pc = "get", !.target = t,
                                 !.generation = g, !.obs.observed_at = a]
  <2>1. g \in Nat
    BY <1>0 DEF StoreTypeOK, Item
  <2>2. [NoCall.obs EXCEPT !.observed_at = a] \in Observation
    BY <1>a, NoCallType DEF Call, Observation
  <2>3. k \in Call
    BY <2>1, <2>2, NoCallType DEF Call, Ops
  <2>4. Sound(k, item)
    BY NoItemType DEF Sound, NoCall
  <2>5. call' = [call EXCEPT ![c] = k] /\ UNCHANGED <<item, outbox>>
    BY <1>4 DEF CallRemove
  <2> HIDE DEF k
  <2> QED BY <2>3, <2>4, <2>5, <1>1
<1>5. ASSUME NEW t \in Targets, NEW b \in Buckets,
             NEW g \in 1 .. item[t].generation, CallCoverage(c, t, g, b)
      PROVE  Progress(c) /\ LedgerStep
  <2> DEFINE k == [NoCall EXCEPT !.op = "coverage", !.pc = "get", !.target = t,
                                 !.generation = g, !.bucket = b]
  <2>1. g \in Nat
    BY <1>0 DEF StoreTypeOK, Item
  <2>2. k \in Call
    BY <2>1, NoCallType DEF Call, Ops
  <2>3. Sound(k, item)
    BY NoItemType DEF Sound, NoCall
  <2>4. call' = [call EXCEPT ![c] = k] /\ UNCHANGED <<item, outbox>>
    BY <1>5 DEF CallCoverage
  <2> HIDE DEF k
  <2> QED BY <2>2, <2>3, <2>4, <1>1
<1> QED BY <1>2, <1>3, <1>4, <1>5 DEF Callable

(***************************************************************************)
(* A get, a reread and an exception write nothing; a get that goes on to   *)
(* the put has checked what the put relies on.                             *)
(***************************************************************************)
LEMMA GotoPut ==
    ASSUME StoreInv, NEW c \in Callers, NEW pc \in {"put", "reread"},
           NEW row \in {item[call[c].target], call[c].row},
           Goto(c, pc, row), UNCHANGED <<item, outbox>>,
           call[c].pc # "idle",
           pc = "put" => call[c].op # "confirm",
           pc = "put" /\ call[c].op = "remove" =>
              row.status = "active" /\ call[c].obs.observed_at > row.observed_at,
           pc = "put" /\ call[c].op = "coverage" =>
              row.status = "active" /\ row.generation = call[c].generation
    PROVE  Progress(c) /\ LedgerStep
<1> DEFINE k == [call[c] EXCEPT !.pc = pc, !.row = row]
<1>1. /\ row \in Item /\ WellFormed(row)
      /\ Exists(row) => Precedes(row, item[call[c].target])
  BY ReadRow DEF Sound
<1>2. StoreTypeOK /\ Sound(call[c], item) /\ call[c] \in Call
  BY DEF StoreInv, StoreTypeOK
<1>3. /\ call' \in [Callers -> Call]
      /\ \A d \in Callers \ {c} : call'[d] = call[d]
      /\ call'[c] = k
  BY <1>1, <1>2, GotoType
<1>4. /\ k.pc = pc /\ k.row = row /\ k.op = call[c].op /\ k.obs = call[c].obs
      /\ k.generation = call[c].generation /\ k.bucket = call[c].bucket
      /\ k.target = call[c].target
  BY <1>2 DEF Call
<1> HIDE DEF k
<1>5. Sound(k, item)
  BY <1>1, <1>2, <1>4 DEF Sound
<1> QED BY <1>3, <1>5, QuietStep

LEMMA ReadsProgress ==
    ASSUME StoreInv, NEW c \in Callers,
           \/ ReconcileGet(c) \/ RemoveGet(c) \/ CoverageGet(c)
           \/ RereadAfterConflict(c) \/ StoreRaises(c)
    PROVE  Progress(c) /\ LedgerStep
<1>1. CASE ReconcileGet(c)
  <2>1. UNCHANGED <<item, outbox>> /\ call[c].op = "reconcile" /\ call[c].pc = "get"
    BY <1>1 DEF ReconcileGet
  <2>2. \/ Return(c, "revalidate", item[call[c].target])
        \/ Return(c, "noop", item[call[c].target])
        \/ Goto(c, "put", item[call[c].target])
    BY <1>1 DEF ReconcileGet
  <2> QED BY <2>1, <2>2, ReturnRead, GotoPut DEF Results
<1>2. CASE RemoveGet(c)
  <2>1. UNCHANGED <<item, outbox>> /\ call[c].op = "remove" /\ call[c].pc = "get"
    BY <1>2 DEF RemoveGet
  <2>2. \/ Return(c, "race", item[call[c].target])
        \/ Return(c, "noop", item[call[c].target])
        \/ /\ Goto(c, "put", item[call[c].target])
           /\ item[call[c].target].status = "active"
           /\ call[c].obs.observed_at > item[call[c].target].observed_at
    BY <1>2 DEF RemoveGet
  <2> QED BY <2>1, <2>2, ReturnRead, GotoPut DEF Results
<1>3. CASE CoverageGet(c)
  <2>1. UNCHANGED <<item, outbox>> /\ call[c].op = "coverage" /\ call[c].pc = "get"
    BY <1>3 DEF CoverageGet
  <2>2. \/ Return(c, "race", item[call[c].target])
        \/ /\ Goto(c, "put", item[call[c].target])
           /\ item[call[c].target].status = "active"
           /\ item[call[c].target].generation = call[c].generation
    BY <1>3 DEF CoverageGet, CoverageCurrent
  <2> QED BY <2>1, <2>2, ReturnRead, GotoPut DEF Results
<1>4. CASE RereadAfterConflict(c)
  <2>1. UNCHANGED <<item, outbox>>
        /\ \/ Return(c, "noop", item[call[c].target])
           \/ Return(c, "race", item[call[c].target])
    BY <1>4 DEF RereadAfterConflict
  <2> QED BY <2>1, ReturnRead DEF Results
<1>5. CASE StoreRaises(c)
  <2>1. UNCHANGED <<item, outbox>> /\ Return(c, "error", call[c].row)
    BY <1>5 DEF StoreRaises
  <2> QED BY <2>1, ReturnRead DEF Results
<1> QED BY <1>1, <1>2, <1>3, <1>4, <1>5

(***************************************************************************)
(* The fence: the condition of a put pins what it does not mention.        *)
(***************************************************************************)
LEMMA Fence ==
    ASSUME StoreInv, NEW c \in Callers, Unmoved(call[c].target, call[c].row)
    PROVE  LET i == call[c].row
               m == item[call[c].target]
           IN  /\ m.generation = i.generation /\ m.status = i.status
               /\ m.observed_at = i.observed_at
               /\ i.generation # 0 => m.content = i.content
BY ReadRow DEF Unmoved, Sound, Exists, Precedes

(***************************************************************************)
(* A put over the row that was read, by a row that may follow it.          *)
(***************************************************************************)
LEMMA PutProgress ==
    ASSUME StoreInv, NEW c \in Callers, Unmoved(call[c].target, call[c].row),
           NEW j \in Item, WellFormed(j), Exists(j), Precedes(call[c].row, j),
           j.observed_at >= call[c].row.observed_at,
           item' = [item EXCEPT ![call[c].target] = j],
           outbox' \subseteq Ledger!Event,
           NEW result \in Results, Return(c, result, j)
    PROVE  Progress(c)
<1> DEFINE t == call[c].target
           i == call[c].row
<1>1. t \in Targets /\ i \in Item /\ item \in [Targets -> Item] /\ StoreTypeOK
  BY ReadRow DEF StoreInv, StoreTypeOK
<1>2. item' \in [Targets -> Item] /\ item'[t] = j
      /\ \A u \in Targets \ {t} : item'[u] = item[u]
  BY <1>1
<1>3. Precedes(item[t], j) /\ j.observed_at >= item[t].observed_at
  BY Fence, <1>1 DEF Precedes, Exists, Item
<1>4. \A u \in Targets : /\ item[u] \in Item /\ WellFormed(item[u])
                         /\ item[u].observed_at \in Nat
  BY <1>1, VersionIsNat DEF StoreInv, Item
<1>5. \A u \in Targets : /\ WellFormed(item'[u])
                         /\ Precedes(item[u], item'[u])
                         /\ item'[u].observed_at >= item[u].observed_at
  <2> TAKE u \in Targets
  <2>1. CASE u = t
    BY <2>1, <1>2, <1>3
  <2>2. CASE u # t
    BY <2>2, <1>2, <1>4, PrecedesReflexive
  <2> QED BY <2>1, <2>2
<1>6. Precedes(j, item'[t])
  BY <1>2, PrecedesReflexive
<1>7. /\ call' \in [Callers -> Call]
      /\ \A d \in Callers \ {c} : call'[d] = call[d]
      /\ Sound(call'[c], item')
  BY <1>1, <1>6, ReturnSound
<1> QED BY <1>2, <1>5, <1>7 DEF Progress

(***************************************************************************)
(* What a put means to the ledger: nothing, or the next generation and its *)
(* event.                                                                  *)
(***************************************************************************)
LEMMA PutUnseen ==
    ASSUME StoreInv, NEW t \in Targets, NEW j \in Item,
           item' = [item EXCEPT ![t] = j], outbox' = outbox,
           j.generation = item[t].generation, j.status = item[t].status,
           j.content = item[t].content
    PROVE  LedgerStep
<1>1. \A u \in Targets : /\ item'[u].generation = item[u].generation
                         /\ item'[u].status = item[u].status
                         /\ item'[u].content = item[u].content
  BY DEF StoreInv, StoreTypeOK
<1>2. UNCHANGED Ledger!ledgerVars
  BY <1>1 DEF Ledger!ledgerVars
<1> QED BY <1>2 DEF LedgerStep

LEMMA PutAnnounced ==
    ASSUME StoreInv, NEW t \in Targets, NEW j \in Item, NEW reason,
           item' = [item EXCEPT ![t] = j],
           outbox' = outbox \cup {EventFor(t, j, reason, 0)},
           j.generation = item[t].generation + 1
    PROVE  Ledger!Announce(t, j.status, j.content, reason)
<1>1. item \in [Targets -> Item] /\ item'[t] = j
      /\ \A u \in Targets \ {t} : item'[u] = item[u]
  BY DEF StoreInv, StoreTypeOK
<1> DEFINE Row(i) == [generation |-> i.generation, status |-> i.status,
                      content |-> i.content]
           old == [u \in Targets |-> Row(item[u])]
           new == [u \in Targets |-> Row(item'[u])]
<1>2. new = [old EXCEPT ![t] = Row(j)]
  BY <1>1
<1>3. Row(j) = [generation |-> old[t].generation + 1, status |-> j.status,
                content |-> j.content]
  OBVIOUS
<1>4. EventFor(t, j, reason, 0) =
        [target |-> t, generation |-> old[t].generation + 1, content |-> j.content,
         reason |-> reason, bucket |-> 0]
  BY DEF EventFor
<1> QED BY <1>2, <1>3, <1>4 DEF Ledger!Announce, Ledger!NoBucket

(***************************************************************************)
(* The three ways a generation is opened are the ledger's three actions.   *)
(***************************************************************************)
LEMMA AnnounceStep ==
    ASSUME StoreInv, NEW t \in Targets, NEW j \in Item, NEW reason,
           item' = [item EXCEPT ![t] = j],
           outbox' = outbox \cup {EventFor(t, j, reason, 0)},
           j.generation = item[t].generation + 1,
           \/ /\ item[t].status # "active" /\ j.status = "active"
              /\ reason = "new_target"
           \/ /\ item[t].status = "active" /\ j.status = "active"
              /\ item[t].content # j.content
              /\ reason \in {"target_change", "policy_change"}
           \/ /\ item[t].status = "active" /\ j.status = "removed"
              /\ j.content = item[t].content
              /\ reason = "removed"
    PROVE  LedgerStep
<1> DEFINE row == [u \in Targets |-> [generation |-> item[u].generation,
                                      status |-> item[u].status,
                                      content |-> item[u].content]]
<1>1. row[t].status = item[t].status /\ row[t].content = item[t].content
  OBVIOUS
<1>2. j.content \in Contents
  BY DEF Item
<1>3. Ledger!Announce(t, j.status, j.content, reason)
  BY PutAnnounced
<1>4. CASE item[t].status # "active"
  <2>1. Ledger!Activate(t, j.content)
    BY <1>1, <1>3, <1>4 DEF Ledger!Activate
  <2> QED BY <2>1, <1>2 DEF LedgerStep, Ledger!LedgerNext
<1>5. CASE item[t].status = "active" /\ j.status = "active"
  <2>1. Ledger!Change(t, j.content, reason) /\ reason \in Ledger!LedgerReasons
    BY <1>1, <1>3, <1>5 DEF Ledger!Change, Ledger!LedgerReasons
  <2> QED BY <2>1, <1>2 DEF LedgerStep, Ledger!LedgerNext
<1>6. CASE item[t].status = "active" /\ j.status = "removed"
  <2>1. reason = "removed" /\ j.content = item[t].content
    BY <1>6
  <2>2. Ledger!Announce(t, "removed", row[t].content, "removed")
    BY <1>1, <1>3, <1>6, <2>1
  <2>3. Ledger!Retire(t)
    BY <1>1, <1>6, <2>2 DEF Ledger!Retire
  <2> QED BY <2>3 DEF LedgerStep, Ledger!LedgerNext
<1> QED BY <1>4, <1>5, <1>6

LEMMA EventType ==
    ASSUME NEW t \in Targets, NEW j \in Item, Exists(j),
           NEW reason \in Ledger!LedgerReasons \cup {"coverage"},
           NEW b \in Buckets \cup {0}
    PROVE  EventFor(t, j, reason, b) \in Ledger!Event
BY DEF EventFor, Ledger!Event, Ledger!NoBucket, Exists, Item

(***************************************************************************)
(* reconcile: a new row or content opens a generation, an unchanged one    *)
(* only moves the watermark, a lost race changes nothing.                  *)
(***************************************************************************)
LEMMA ReconcilePutProgress ==
    ASSUME StoreInv, NEW c \in Callers, ReconcilePut(c)
    PROVE  Progress(c) /\ LedgerStep
<1> DEFINE t == call[c].target
           i == call[c].row
           j == Reconciled(call[c].obs, i)
           e == EventFor(t, j, ReasonFor(i, j), 0)
<1>0. t \in Targets /\ i \in Item /\ WellFormed(i) /\ call[c].obs \in Observation
      /\ call[c] \in Call /\ outbox \subseteq Ledger!Event
  BY ReadRow DEF Call, Sound, StoreInv, StoreTypeOK
<1>1. /\ j \in Item /\ WellFormed(j) /\ j.status = "active"
      /\ j.observed_at >= i.observed_at
      /\ Precedes(i, j)
      /\ j.generation \in {i.generation, i.generation + 1}
      /\ j.generation # i.generation /\ i.status = "active" => j.content # i.content
  BY <1>0, ReconciledType
<1>2. Exists(j)
  BY <1>1 DEF WellFormed, Exists
<1>3. call[c].op = "reconcile" /\ call[c].pc = "put"
  BY DEF ReconcilePut
<1>a. \/ /\ Unmoved(t, i) /\ j.generation = i.generation
         /\ item' = [item EXCEPT ![t] = j] /\ UNCHANGED outbox
         /\ \E r \in Responses("noop") : Return(c, r, j)
      \/ /\ Unmoved(t, i) /\ j.generation # i.generation
         /\ item' = [item EXCEPT ![t] = j] /\ outbox' = outbox \cup {e}
         /\ \E r \in Responses(IF i.status = "active" THEN "changed" ELSE "added") :
               Return(c, r, j)
      \/ /\ UNCHANGED <<item, outbox>>
         /\ \/ call' = [call EXCEPT ![c].pc = "get", ![c].attempt = @ + 1]
            \/ Goto(c, "reread", i)
  BY DEF ReconcilePut
<1> HIDE DEF j
<1>4. CASE /\ Unmoved(t, i) /\ j.generation = i.generation
           /\ item' = [item EXCEPT ![t] = j] /\ UNCHANGED outbox
           /\ \E r \in Responses("noop") : Return(c, r, j)
  <2>1. PICK r \in Results : Return(c, r, j)
    BY <1>4 DEF Responses, Results
  <2>2. Progress(c)
    BY <1>0, <1>1, <1>2, <1>4, <2>1, PutProgress
  <2>3. i.generation # 0 /\ i.status = "active" /\ i.content = j.content
    BY <1>1, <1>2, <1>4 DEF Exists, Precedes
  <2>4. LedgerStep
    BY <1>0, <1>1, <1>4, <2>3, Fence, PutUnseen
  <2> QED BY <2>2, <2>4
<1>5. CASE /\ Unmoved(t, i) /\ j.generation # i.generation
           /\ item' = [item EXCEPT ![t] = j] /\ outbox' = outbox \cup {e}
           /\ \E r \in Responses(IF i.status = "active" THEN "changed" ELSE "added") :
                 Return(c, r, j)
  <2>1. PICK r \in Results : Return(c, r, j)
    BY <1>5 DEF Responses, Results
  <2>2. ReasonFor(i, j) \in {"new_target", "target_change", "policy_change"}
        /\ (ReasonFor(i, j) = "new_target" <=> i.status # "active")
    BY DEF ReasonFor
  <2>3. e \in Ledger!Event
    BY <1>0, <1>1, <1>2, <2>2, EventType DEF Ledger!LedgerReasons
  <2>4. Progress(c)
    BY <1>0, <1>1, <1>2, <1>5, <2>1, <2>3, PutProgress
  <2>5. item[t].generation = i.generation /\ item[t].status = i.status
        /\ (i.generation # 0 => item[t].content = i.content)
    BY <1>5, Fence
  <2>6. i.status = "active" => item[t].content # j.content
    BY <1>0, <1>1, <1>5, <2>5 DEF WellFormed
  <2>7. LedgerStep
    BY <1>0, <1>1, <1>5, <2>2, <2>5, <2>6, AnnounceStep
  <2> QED BY <2>4, <2>7
<1>6. CASE /\ UNCHANGED <<item, outbox>>
           /\ \/ call' = [call EXCEPT ![c].pc = "get", ![c].attempt = @ + 1]
              \/ Goto(c, "reread", i)
  <2>1. CASE call' = [call EXCEPT ![c].pc = "get", ![c].attempt = @ + 1]
    <3> DEFINE k == [call[c] EXCEPT !.pc = "get", !.attempt = @ + 1]
    <3>1. k \in Call /\ call' = [call EXCEPT ![c] = k] /\ call \in [Callers -> Call]
      BY <1>0, <2>1 DEF Call, StoreInv, StoreTypeOK
    <3>2. k.row = i /\ k.target = t /\ k.pc = "get" /\ k.op = "reconcile"
      BY <1>0, <1>3 DEF Call
    <3> HIDE DEF k
    <3>3. Sound(k, item)
      BY <3>2, ReadRow DEF Sound
    <3> QED BY <3>1, <3>3, <1>6, QuietStep
  <2>2. CASE Goto(c, "reread", i)
    BY <2>2, <1>3, <1>6, GotoPut
  <2> QED BY <1>6, <2>1, <2>2
<1> QED BY <1>a, <1>4, <1>5, <1>6

(***************************************************************************)
(* confirm_config_versions never opens a generation.                       *)
(***************************************************************************)
LEMMA ConfirmPutProgress ==
    ASSUME StoreInv, NEW c \in Callers, ConfirmPut(c)
    PROVE  Progress(c) /\ LedgerStep
<1> DEFINE t == call[c].target
           i == call[c].row
           o == call[c].obs
           j == Confirmed(o, i)
<1>0. /\ t \in Targets /\ i \in Item /\ WellFormed(i) /\ o \in Observation
      /\ call[c].op = "confirm" /\ call[c].pc = "put" /\ Exists(i)
      /\ outbox \subseteq Ledger!Event
  BY ReadRow DEF ConfirmPut, Call, Sound, StoreInv, StoreTypeOK
<1>1. UNCHANGED outbox
  BY DEF ConfirmPut
<1>2. /\ j \in Item /\ j.generation = i.generation /\ j.status = i.status
      /\ j.content = i.content /\ j.observed_at = i.observed_at
  <2>1. \A a, b \in Version : MaxOf(a, b) \in Version
    BY DEF MaxOf
  <2>2. /\ i.eni_v \in Version /\ o.eni_v \in Version /\ NoTime \in Version
        /\ i.grp_v \in [Groups -> Version] /\ o.grp_v \in [Groups -> Version]
    BY <1>0 DEF Item, Observation, Version
  <2> DEFINE v == MaxOf(i.eni_v, o.eni_v)
             w == [g \in Groups |-> IF g \in i.content.groups
                                    THEN MaxOf(i.grp_v[g], o.grp_v[g]) ELSE NoTime]
  <2>3. v \in Version /\ w \in [Groups -> Version]
    BY <2>1, <2>2
  <2>4. j = [i EXCEPT !.eni_v = v, !.grp_v = w]
    BY DEF Confirmed
  <2> HIDE DEF v, w, j
  <2> QED BY <1>0, <2>3, <2>4 DEF Item
<1>a. \/ Return(c, "noop", i) /\ UNCHANGED item
      \/ /\ Unmoved(t, i) /\ item' = [item EXCEPT ![t] = j]
         /\ \E r \in Responses("noop") : Return(c, r, j)
      \/ Goto(c, "reread", i) /\ UNCHANGED item
  BY DEF ConfirmPut
<1> HIDE DEF j
<1>3. CASE Return(c, "noop", i) /\ UNCHANGED item
  BY <1>1, <1>3, ReturnRead DEF Results
<1>4. CASE /\ Unmoved(t, i) /\ item' = [item EXCEPT ![t] = j]
           /\ \E r \in Responses("noop") : Return(c, r, j)
  <2>1. PICK r \in Results : Return(c, r, j)
    BY <1>4 DEF Responses, Results
  <2>2. WellFormed(j) /\ Exists(j) /\ Precedes(i, j)
    BY <1>0, <1>2 DEF WellFormed, Exists, Precedes, Item
  <2>3. j.observed_at >= i.observed_at
    <3>1. i.observed_at \in Nat
      BY <1>0, VersionIsNat DEF Item
    <3> QED BY <3>1, <1>2
  <2>4. Progress(c)
    BY <1>0, <1>1, <1>2, <1>4, <2>1, <2>2, <2>3, PutProgress
  <2>5. LedgerStep
    BY <1>0, <1>1, <1>2, <1>4, Fence, PutUnseen DEF Exists
  <2> QED BY <2>4, <2>5
<1>5. CASE Goto(c, "reread", i) /\ UNCHANGED item
  BY <1>0, <1>1, <1>5, GotoPut
<1> QED BY <1>a, <1>3, <1>4, <1>5

(***************************************************************************)
(* remove retires the active generation that was read.                     *)
(***************************************************************************)
LEMMA RemovePutProgress ==
    ASSUME StoreInv, NEW c \in Callers, RemovePut(c)
    PROVE  Progress(c) /\ LedgerStep
<1> DEFINE t == call[c].target
           i == call[c].row
           at == call[c].obs.observed_at
           j == Removed(at, i)
           e == EventFor(t, j, "removed", 0)
<1>0. /\ t \in Targets /\ i \in Item /\ WellFormed(i) /\ at \in Version
      /\ call[c].op = "remove" /\ call[c].pc = "put"
      /\ i.status = "active" /\ at > i.observed_at
      /\ outbox \subseteq Ledger!Event
  BY ReadRow DEF RemovePut, Call, Observation, Sound, StoreInv, StoreTypeOK
<1>1. /\ j \in Item /\ j.generation = i.generation + 1 /\ j.status = "removed"
      /\ j.content = i.content /\ j.observed_at = at
  BY <1>0, RemovedType
<1>a. \/ /\ Unmoved(t, i) /\ item' = [item EXCEPT ![t] = j]
         /\ outbox' = outbox \cup {e}
         /\ \E r \in Responses("removed") : Return(c, r, j)
      \/ Goto(c, "reread", i) /\ UNCHANGED <<item, outbox>>
  BY DEF RemovePut
<1> HIDE DEF j
<1>2. CASE /\ Unmoved(t, i) /\ item' = [item EXCEPT ![t] = j]
           /\ outbox' = outbox \cup {e}
           /\ \E r \in Responses("removed") : Return(c, r, j)
  <2>1. PICK r \in Results : Return(c, r, j)
    BY <1>2 DEF Responses, Results
  <2>2. WellFormed(j) /\ Exists(j) /\ Precedes(i, j)
    BY <1>0, <1>1 DEF WellFormed, Exists, Precedes, Item
  <2>3. j.observed_at >= i.observed_at
    <3>1. i.observed_at \in Nat /\ at \in Nat
      BY <1>0, VersionIsNat DEF Item
    <3> QED BY <3>1, <1>0, <1>1
  <2>4. e \in Ledger!Event
    BY <1>0, <1>1, <2>2, EventType DEF Ledger!LedgerReasons
  <2>5. Progress(c)
    BY <1>0, <1>1, <1>2, <2>1, <2>2, <2>3, <2>4, PutProgress
  <2>6. /\ item[t].generation = i.generation /\ item[t].status = "active"
        /\ item[t].content = i.content
    BY <1>0, <1>2, Fence DEF WellFormed
  <2>7. LedgerStep
    BY <1>0, <1>1, <1>2, <2>6, AnnounceStep
  <2> QED BY <2>5, <2>7
<1>3. CASE Goto(c, "reread", i) /\ UNCHANGED <<item, outbox>>
  BY <1>0, <1>3, GotoPut
<1> QED BY <1>a, <1>2, <1>3

(***************************************************************************)
(* enqueue_coverage: the ConditionCheck compares only the generation and   *)
(* the status, and that is enough to describe the current content.         *)
(***************************************************************************)
LEMMA CoverStep ==
    ASSUME StoreInv, NEW t \in Targets, NEW i \in Item, NEW b \in Buckets,
           item' = item, outbox' = outbox \cup {EventFor(t, i, "coverage", b)},
           item[t].status = "active", item[t].generation = i.generation,
           item[t].content = i.content
    PROVE  LedgerStep
<1> DEFINE row == [u \in Targets |-> [generation |-> item[u].generation,
                                      status |-> item[u].status,
                                      content |-> item[u].content]]
<1>1. /\ row[t].status = "active" /\ row[t].content = i.content
      /\ row[t].generation = i.generation
  OBVIOUS
<1>2. EventFor(t, i, "coverage", b) =
        [target |-> t, generation |-> row[t].generation,
         content |-> row[t].content, reason |-> "coverage", bucket |-> b]
  BY <1>1 DEF EventFor
<1>3. Ledger!Cover(t, b)
  BY <1>1, <1>2 DEF Ledger!Cover
<1> QED BY <1>3 DEF LedgerStep, Ledger!LedgerNext

LEMMA CoveragePutProgress ==
    ASSUME StoreInv, NEW c \in Callers, CoveragePut(c)
    PROVE  Progress(c) /\ LedgerStep
<1> DEFINE t == call[c].target
           i == call[c].row
           e == EventFor(t, i, "coverage", call[c].bucket)
<1>0. /\ t \in Targets /\ i \in Item /\ WellFormed(i)
      /\ call[c].op = "coverage" /\ call[c].pc = "put" /\ call[c].bucket \in Buckets
      /\ i.status = "active" /\ i.generation = call[c].generation
      /\ Exists(i) => Precedes(i, item[t])
      /\ StoreTypeOK
  BY ReadRow DEF CoveragePut, Call, Sound, StoreInv
<1>1. UNCHANGED item
  BY DEF CoveragePut
<1>a. \/ /\ CoverageCurrent(c, item[t]) /\ outbox' = outbox \cup {e}
         /\ \E r \in Responses("changed") : Return(c, r, i)
      \/ Return(c, "changed", i) /\ UNCHANGED outbox
      \/ Goto(c, "reread", i) /\ UNCHANGED outbox
  BY DEF CoveragePut
<1>2. CASE /\ CoverageCurrent(c, item[t]) /\ outbox' = outbox \cup {e}
           /\ \E r \in Responses("changed") : Return(c, r, i)
  <2>1. PICK r \in Results : Return(c, r, i)
    BY <1>2 DEF Responses, Results
  <2>2. Exists(i)
    BY <1>0 DEF WellFormed, Exists
  <2>3. /\ item[t].status = "active" /\ item[t].generation = i.generation
        /\ item[t].content = i.content
    BY <1>0, <1>2, <2>2 DEF CoverageCurrent, Precedes
  <2>4. e \in Ledger!Event
    BY <1>0, <2>2, EventType
  <2>5. LedgerStep
    BY <1>0, <1>1, <1>2, <2>3, CoverStep
  <2>6. /\ call' \in [Callers -> Call]
        /\ \A d \in Callers \ {c} : call'[d] = call[d]
        /\ Sound(call'[c], item)
    BY <1>0, <2>1, ReturnSound
  <2>7. \A u \in Targets : /\ item[u] \in Item /\ Precedes(item[u], item[u])
                           /\ item[u].observed_at \in Nat
    BY <1>0, VersionIsNat, PrecedesReflexive DEF StoreTypeOK, Item
  <2>8. Progress(c)
    BY <1>0, <1>1, <1>2, <2>4, <2>6, <2>7 DEF Progress, StoreInv, StoreTypeOK
  <2> QED BY <2>5, <2>8
<1>3. CASE Return(c, "changed", i) /\ UNCHANGED outbox
  BY <1>1, <1>3, ReturnRead DEF Results
<1>4. CASE Goto(c, "reread", i) /\ UNCHANGED outbox
  BY <1>0, <1>1, <1>4, GotoPut
<1> QED BY <1>a, <1>2, <1>3, <1>4

-----------------------------------------------------------------------------
(***************************************************************************)
(* Every step of an invocation makes progress and is a step of the ledger. *)
(***************************************************************************)
LEMMA StoreNextProgress ==
    ASSUME StoreInv, NEW c \in Callers, Callable(c) \/ StoreStep(c) \/ Abandon(c)
    PROVE  Progress(c) /\ LedgerStep
<1>1. CASE Callable(c)
  BY <1>1, CallableProgress
<1>2. CASE \/ ReconcileGet(c) \/ RemoveGet(c) \/ CoverageGet(c)
           \/ RereadAfterConflict(c) \/ StoreRaises(c)
  BY <1>2, ReadsProgress
<1>3. CASE ReconcilePut(c)
  BY <1>3, ReconcilePutProgress
<1>4. CASE ConfirmPut(c)
  BY <1>4, ConfirmPutProgress
<1>5. CASE RemovePut(c)
  BY <1>5, RemovePutProgress
<1>6. CASE CoveragePut(c)
  BY <1>6, CoveragePutProgress
<1>7. CASE Abandon(c)
  <2>1. NoCall.row = NoItem /\ NoCall.pc = "idle"
    BY DEF NoCall
  <2>2. Sound(NoCall, item)
    BY <2>1, NoItemType DEF Sound
  <2>3. call' \in [Callers -> Call] /\ call'[c] = NoCall
        /\ \A d \in Callers \ {c} : call'[d] = call[d]
    BY <1>7, NoCallType DEF Abandon, StoreInv, StoreTypeOK
  <2> QED BY <1>7, <2>2, <2>3, QuietStep DEF Abandon
<1> QED BY <1>1, <1>2, <1>3, <1>4, <1>5, <1>6, <1>7 DEF StoreStep

LEMMA StoreInitInv == StoreInit => StoreInv
<1> SUFFICES ASSUME StoreInit PROVE StoreInv
  OBVIOUS
<1>1. StoreTypeOK
  BY NoItemType, NoCallType DEF StoreInit, StoreTypeOK
<1>2. NoCall.row = NoItem /\ NoCall.pc = "idle"
  BY DEF NoCall
<1>3. Sound(NoCall, item)
  BY <1>2, NoItemType DEF Sound
<1> QED BY <1>1, <1>3, NoItemType DEF StoreInit, StoreInv

LEMMA StoreNextInv == StoreInv /\ [StoreNext]_storeVars => StoreInv'
<1> SUFFICES ASSUME StoreInv, [StoreNext]_storeVars PROVE StoreInv'
  OBVIOUS
<1>1. CASE StoreNext
  <2>1. PICK c \in Callers : Callable(c) \/ StoreStep(c) \/ Abandon(c)
    BY <1>1 DEF StoreNext
  <2> QED BY <2>1, StoreNextProgress, ProgressInv
<1>2. CASE UNCHANGED storeVars
  BY <1>2 DEF storeVars, StoreInv, StoreTypeOK
<1> QED BY <1>1, <1>2

(***************************************************************************)
(* The inductive invariant of the store.                                   *)
(***************************************************************************)
THEOREM StoreCorrect == StoreSpec => []StoreInv
BY StoreInitInv, StoreNextInv, PTL DEF StoreSpec

(***************************************************************************)
(* Rows, events and calls keep their types.                                *)
(***************************************************************************)
THEOREM StoreTyped == StoreSpec => []StoreTypeOK
<1>1. StoreInv => StoreTypeOK
  BY DEF StoreInv
<1> QED BY <1>1, StoreCorrect, PTL

(***************************************************************************)
(* While a call is in flight the row it read stays in the row's past, so a *)
(* condition on generation, status and versions also fences the content.   *)
(***************************************************************************)
THEOREM StoreFenced == StoreSpec => []ReadIsPast
<1>1. StoreInv => ReadIsPast
  BY DEF StoreInv, Sound, ReadIsPast
<1> QED BY <1>1, StoreCorrect, PTL

(***************************************************************************)
(* No step of any invocation moves a row's watermark back.                 *)
(***************************************************************************)
THEOREM StoreMonotone == StoreSpec => WatermarkMonotone
<1> DEFINE Forward == \A t \in Targets : item'[t].observed_at >= item[t].observed_at
<1>1. StoreInv /\ [StoreNext]_storeVars => [Forward]_item
  <2> SUFFICES ASSUME StoreInv, [StoreNext]_storeVars, item' # item PROVE Forward
    OBVIOUS
  <2>1. StoreNext
    BY DEF storeVars
  <2>2. PICK c \in Callers : Callable(c) \/ StoreStep(c) \/ Abandon(c)
    BY <2>1 DEF StoreNext
  <2>3. Progress(c)
    BY <2>2, StoreNextProgress
  <2> QED BY <2>3 DEF Progress
<1>2. StoreSpec => [][Forward]_item
  BY <1>1, StoreCorrect, PTL DEF StoreSpec
<1> QED BY <1>2 DEF WatermarkMonotone

(***************************************************************************)
(* DynamoStateStore implements the ledger.                                 *)
(***************************************************************************)
THEOREM StoreImplementsLedger == StoreSpec => ImplementsLedger
<1>1. StoreInit => Ledger!LedgerInit
  <2> SUFFICES ASSUME StoreInit PROVE Ledger!LedgerInit
    OBVIOUS
  <2>1. \A t \in Targets : /\ item[t].generation = 0 /\ item[t].status = "absent"
                           /\ item[t].content = CHOOSE c \in Contents : TRUE
    BY DEF StoreInit, NoItem
  <2> QED BY <2>1 DEF StoreInit, Ledger!LedgerInit, Ledger!NoEntry, Ledger!NoContent
<1>2. StoreInv /\ [StoreNext]_storeVars => [Ledger!LedgerNext]_(Ledger!ledgerVars)
  <2> SUFFICES ASSUME StoreInv, [StoreNext]_storeVars
               PROVE  LedgerStep
    BY DEF LedgerStep
  <2>1. CASE StoreNext
    <3>1. PICK c \in Callers : Callable(c) \/ StoreStep(c) \/ Abandon(c)
      BY <2>1 DEF StoreNext
    <3> QED BY <3>1, StoreNextProgress
  <2>2. CASE UNCHANGED storeVars
    BY <2>2 DEF storeVars, LedgerStep, Ledger!ledgerVars
  <2> QED BY <2>1, <2>2
<1>3. StoreSpec => Ledger!LedgerSpec
  BY <1>1, <1>2, StoreCorrect, PTL DEF StoreSpec, Ledger!LedgerSpec
<1> QED BY <1>3 DEF ImplementsLedger

-----------------------------------------------------------------------------
(* The ledger's theorems, read through the same mapping.                   *)
LedgerProofs == INSTANCE TargetLedgerProofs WITH
    current   <- [t \in Targets |-> [generation |-> item[t].generation,
                                     status |-> item[t].status,
                                     content |-> item[t].content]],
    published <- outbox

(***************************************************************************)
(* The outbox of the store is the event stream the ledger promises: each   *)
(* generation announced exactly once, new_target exactly after tombstones, *)
(* coverage rescans only of active generations.                            *)
(***************************************************************************)
THEOREM StoreStream ==
    StoreSpec => [](OneEventPerGeneration /\ NewTargetFollowsRemoval /\ CoverageFenced)
<1>1. Ledger!LedgerInit => LedgerProofs!LedgerInit
  BY DEF Ledger!LedgerInit, LedgerProofs!LedgerInit, Ledger!NoEntry,
         LedgerProofs!NoEntry, Ledger!NoContent,
         LedgerProofs!NoContent
<1>2. [Ledger!LedgerNext]_(Ledger!ledgerVars)
         => [LedgerProofs!LedgerNext]_(LedgerProofs!ledgerVars)
  BY DEF Ledger!LedgerNext, LedgerProofs!LedgerNext,
         Ledger!ledgerVars, LedgerProofs!ledgerVars, Ledger!Activate,
         LedgerProofs!Activate, Ledger!Change, LedgerProofs!Change,
         Ledger!Retire, LedgerProofs!Retire, Ledger!Cover,
         LedgerProofs!Cover, Ledger!Announce, LedgerProofs!Announce,
         Ledger!NoBucket, LedgerProofs!NoBucket, Ledger!LedgerReasons,
         LedgerProofs!LedgerReasons
<1>3. StoreSpec => LedgerProofs!LedgerSpec
  <2>1. StoreSpec => Ledger!LedgerSpec
    BY StoreImplementsLedger DEF ImplementsLedger
  <2> QED BY <1>1, <1>2, <2>1, PTL DEF Ledger!LedgerSpec, LedgerProofs!LedgerSpec
<1>4. LedgerProofs!LedgerSpec => []LedgerProofs!LedgerInv
  BY LedgerProofs!LedgerCorrect
<1>5. LedgerProofs!LedgerInv =>
         OneEventPerGeneration /\ NewTargetFollowsRemoval /\ CoverageFenced
  BY DEF LedgerProofs!LedgerInv, OneEventPerGeneration,
         NewTargetFollowsRemoval, CoverageFenced,
         Ledger!OneEventPerGeneration,
         LedgerProofs!OneEventPerGeneration,
         Ledger!NewTargetFollowsRemoval,
         LedgerProofs!NewTargetFollowsRemoval, Ledger!CoverageFenced,
         LedgerProofs!CoverageFenced, Ledger!LedgerEvents,
         LedgerProofs!LedgerEvents, Ledger!CoverageEvents,
         LedgerProofs!CoverageEvents, Ledger!LedgerReasons,
         LedgerProofs!LedgerReasons
<1> QED BY <1>3, <1>4, <1>5, PTL

-----------------------------------------------------------------------------
(* The capture versions.                                                   *)

(* A row that does not exist has no versions.                              *)
Blank(i) == ~Exists(i) => i.eni_v = NoTime /\ i.grp_v = NoGroupVersions

(* An observation has versions of its own groups only.                     *)
OwnGroups(o) == \A g \in Groups : g \notin o.content.groups => o.grp_v[g] = NoTime

(* What the get of a reconcile found of observation o and row i, which the *)
(* put takes for granted.                                                  *)
Orderly(o, i) ==
    \/ ~Exists(i)
    \/ IsConfig(o) /\ ConfigObservationOrder(o, i) = "advances"
    \/ ~IsConfig(o)

Versioned(k) ==
    /\ Blank(k.row) /\ OwnGroups(k.obs)
    /\ k.op = "reconcile" /\ k.pc = "put" => Orderly(k.obs, k.row)

VersionInv ==
    /\ StoreInv
    /\ \A t \in Targets : Blank(item[t])
    /\ \A c \in Callers : Versioned(call[c])

(* Row j may follow row i as far as the versions go.                       *)
Newer(i, j) ==
    /\ NoOlder(i.eni_v, j.eni_v)
    /\ \A g \in Groups : NoOlder(i.grp_v[g], j.grp_v[g])

LEMMA NewerReflexive ==
    ASSUME NEW i \in Item
    PROVE  Newer(i, i)
<1>1. i.eni_v \in Nat /\ \A g \in Groups : i.grp_v[g] \in Nat
  BY VersionIsNat DEF Item
<1> QED
  BY <1>1 DEF Newer, NoOlder

(* _config_observation_order says "advances" only of a vector in which no  *)
(* component has regressed.                                                *)
LEMMA AdvancesNewer ==
    ASSUME NEW o \in Observation, NEW i \in Item, OwnGroups(o),
           ConfigObservationOrder(o, i) = "advances"
    PROVE  NoOlder(i.eni_v, o.eni_v) /\ \A g \in Groups : NoOlder(i.grp_v[g], o.grp_v[g])
<1> DEFINE known == {g \in o.content.groups : i.grp_v[g] # NoTime}
<1>1. /\ i.eni_v # NoTime /\ known = o.content.groups
      /\ ~(i.eni_v # NoTime /\ o.eni_v < i.eni_v)
      /\ ~\E g \in known : o.grp_v[g] < i.grp_v[g]
  BY DEF ConfigObservationOrder
<1>2. /\ i.eni_v \in Nat /\ o.eni_v \in Nat
      /\ \A g \in Groups : i.grp_v[g] \in Nat /\ o.grp_v[g] \in Nat
  BY VersionIsNat DEF Item, Observation
<1>3. NoOlder(i.eni_v, o.eni_v)
  BY <1>1, <1>2 DEF NoOlder
<1>4. ASSUME NEW g \in Groups
      PROVE  NoOlder(i.grp_v[g], o.grp_v[g])
  <2>1. CASE g \in o.content.groups
    BY <1>1, <1>2, <2>1 DEF NoOlder
  <2>2. CASE g \notin o.content.groups
    BY <2>2 DEF OwnGroups, NoOlder
  <2> QED
    BY <2>1, <2>2
<1> QED
  BY <1>3, <1>4

LEMMA ReconciledNewer ==
    ASSUME NEW o \in Observation, NEW i \in Item, OwnGroups(o), Blank(i), Orderly(o, i)
    PROVE  Newer(i, Reconciled(o, i))
<1> DEFINE merged == IF Exists(i) /\ ~IsConfig(o) THEN PreservingComponentVersions(o, i) ELSE o
           j == Reconciled(o, i)
<1>1. j.eni_v = merged.eni_v /\ j.grp_v = merged.grp_v
  BY DEF Reconciled
<1>2. /\ i.eni_v \in Nat /\ o.eni_v \in Nat
      /\ \A g \in Groups : i.grp_v[g] \in Nat /\ o.grp_v[g] \in Nat
      /\ \A g \in Groups : NoGroupVersions[g] = NoTime
  BY VersionIsNat DEF Item, Observation, NoGroupVersions
<1>3. CASE ~Exists(i)
  <2>1. merged = o /\ i.eni_v = NoTime /\ i.grp_v = NoGroupVersions
    BY <1>3 DEF Blank
  <2> HIDE DEF merged, j
  <2> QED
    BY <1>1, <1>2, <2>1 DEF Newer, NoOlder, NoTime, j
<1>4. CASE Exists(i) /\ IsConfig(o)
  <2>1. merged = o /\ ConfigObservationOrder(o, i) = "advances"
    BY <1>4 DEF Orderly
  <2> HIDE DEF merged, j
  <2> QED
    BY <1>1, <2>1, AdvancesNewer DEF Newer, j
<1>5. CASE Exists(i) /\ ~IsConfig(o)
  <2>1. merged.eni_v \in {i.eni_v, NoTime} /\ merged.grp_v \in {i.grp_v, NoGroupVersions}
    BY <1>5 DEF PreservingComponentVersions, Observation
  <2> HIDE DEF merged, j
  <2> QED
    BY <1>1, <1>2, <2>1 DEF Newer, NoOlder, j
<1> QED
  BY <1>3, <1>4, <1>5

LEMMA ConfirmedNewer ==
    ASSUME NEW o \in Observation, NEW i \in Item
    PROVE  Newer(i, Confirmed(o, i))
<1> DEFINE v == MaxOf(i.eni_v, o.eni_v)
           w == [g \in Groups |-> IF g \in i.content.groups
                                  THEN MaxOf(i.grp_v[g], o.grp_v[g]) ELSE NoTime]
<1>1. /\ i.eni_v \in Nat /\ o.eni_v \in Nat
      /\ \A g \in Groups : i.grp_v[g] \in Nat /\ o.grp_v[g] \in Nat
  BY VersionIsNat DEF Item, Observation
<1>2. Confirmed(o, i).eni_v = v /\ Confirmed(o, i).grp_v = w
  BY DEF Confirmed, Item
<1>3. NoOlder(i.eni_v, v) /\ \A g \in Groups : NoOlder(i.grp_v[g], w[g])
  BY <1>1 DEF NoOlder, MaxOf
<1> HIDE DEF v, w
<1> QED
  BY <1>2, <1>3 DEF Newer

(* What a put leaves, whatever it returns.                                 *)
LEMMA RemovedNewer ==
    ASSUME NEW i \in Item, NEW at \in Version
    PROVE  Newer(i, Removed(at, i))
<1> DEFINE n == i.generation + 1
           j == [i EXCEPT !.generation = n, !.status = "removed", !.observed_at = at]
<1>1. j.eni_v = i.eni_v /\ j.grp_v = i.grp_v
  BY DEF Item
<1>2. Removed(at, i) = j
  BY DEF Removed
<1> HIDE DEF j
<1> QED
  BY <1>1, <1>2, NewerReflexive DEF Newer

LEMMA NoCallVersioned ==
    /\ Blank(NoItem) /\ NoCall.pc = "idle" /\ NoCall.row = NoItem /\ OwnGroups(NoCall.obs)
    /\ Versioned(NoCall)
<1>1. Blank(NoItem)
  BY DEF Blank, NoItem
<1>2. NoCall.pc = "idle" /\ NoCall.row = NoItem
      /\ NoCall.obs = DirectObservation(NoItem.content, NoTime)
  BY DEF NoCall
<1>3. OwnGroups(NoCall.obs)
  BY <1>2 DEF OwnGroups, DirectObservation, NoGroupVersions
<1> QED
  BY <1>1, <1>2, <1>3 DEF Versioned

(* Return keeps the row it is given or none, and forgets the observation.  *)
LEMMA ReturnVersioned ==
    ASSUME StoreTypeOK, NEW c \in Callers, NEW result, NEW row, Blank(row), Return(c, result, row)
    PROVE  Versioned(call'[c]) /\ \A d \in Callers \ {c} : call'[d] = call[d]
<1> DEFINE kept == IF call[c].op = "reconcile" /\ result # "error" THEN row ELSE NoItem
           k == [NoCall EXCEPT !.op = call[c].op, !.target = call[c].target,
                               !.result = result, !.row = kept]
<1>1. call' = [call EXCEPT ![c] = k] /\ call \in [Callers -> Call]
  BY DEF Return, StoreTypeOK
<1>2. Blank(kept)
  BY NoCallVersioned
<1> HIDE DEF kept
<1>3. k.pc = "idle" /\ k.row = kept /\ k.obs = NoCall.obs
  BY DEF NoCall
<1> HIDE DEF k
<1> QED
  BY <1>1, <1>2, <1>3, NoCallVersioned DEF Versioned

LEMMA GotoVersioned ==
    ASSUME StoreTypeOK, NEW c \in Callers, Versioned(call[c]), NEW pc \in {"put", "reread"},
           NEW row \in Item, Blank(row), Goto(c, pc, row),
           pc = "put" /\ call[c].op = "reconcile" => Orderly(call[c].obs, row)
    PROVE  Versioned(call'[c]) /\ \A d \in Callers \ {c} : call'[d] = call[d]
<1> DEFINE k == [call[c] EXCEPT !.pc = pc, !.row = row]
<1>1. call'[c] = k /\ \A d \in Callers \ {c} : call'[d] = call[d]
  <2>1. call[c] \in Call /\ call \in [Callers -> Call]
    BY DEF StoreTypeOK
  <2>2. call' = [call EXCEPT ![c] = k]
    BY <2>1 DEF Goto, Call
  <2> QED
    BY <2>1, <2>2
<1>2. call[c] \in Call
  BY DEF StoreTypeOK
<1>3. k.pc = pc /\ k.row = row /\ k.obs = call[c].obs /\ k.op = call[c].op
  BY <1>2 DEF Call
<1> HIDE DEF k
<1> QED
  BY <1>1, <1>3 DEF Versioned

(* What a step of invocation c may do to the versions.                     *)
VersionStep(c) ==
    /\ \A t \in Targets : Blank(item'[t]) /\ Newer(item[t], item'[t])
    /\ \A d \in Callers \ {c} : call'[d] = call[d]
    /\ Versioned(call'[c])

LEMMA QuietVersions ==
    ASSUME VersionInv, NEW c \in Callers, item' = item,
           \A d \in Callers \ {c} : call'[d] = call[d], Versioned(call'[c])
    PROVE  VersionStep(c)
<1>1. \A t \in Targets : item[t] \in Item
  BY DEF VersionInv, StoreInv, StoreTypeOK
<1> QED
  BY <1>1, NewerReflexive DEF VersionStep, VersionInv

(* A put over the row that was read.                                       *)
LEMMA PutVersions ==
    ASSUME VersionInv, NEW c \in Callers, Unmoved(call[c].target, call[c].row),
           NEW j \in Item, Exists(j), Newer(call[c].row, j),
           item' = [item EXCEPT ![call[c].target] = j], NEW result, Return(c, result, j)
    PROVE  VersionStep(c)
<1> DEFINE t == call[c].target
           i == call[c].row
<1>1. t \in Targets /\ item \in [Targets -> Item] /\ StoreTypeOK
  BY ReadRow DEF VersionInv, StoreInv, StoreTypeOK
<1>2. item[t].eni_v = i.eni_v /\ item[t].grp_v = i.grp_v
  BY DEF Unmoved
<1>3. Blank(j)
  BY DEF Blank
<1>4. Newer(item[t], j)
  BY <1>2 DEF Newer
<1>5. item'[t] = j /\ \A u \in Targets \ {t} : item'[u] = item[u]
  BY <1>1
<1>6. ASSUME NEW u \in Targets
      PROVE  Blank(item'[u]) /\ Newer(item[u], item'[u])
  <2>1. CASE u = t
    BY <1>3, <1>4, <1>5, <2>1
  <2>2. CASE u # t
    BY <1>1, <1>5, <2>2, NewerReflexive DEF VersionInv
  <2> QED
    BY <2>1, <2>2
<1>7. Versioned(call'[c]) /\ \A d \in Callers \ {c} : call'[d] = call[d]
  BY <1>1, <1>3, ReturnVersioned
<1> QED
  BY <1>6, <1>7 DEF VersionStep

LEMMA ReconcilePutVersions ==
    ASSUME VersionInv, NEW c \in Callers, ReconcilePut(c)
    PROVE  VersionStep(c)
<1> DEFINE t == call[c].target
           i == call[c].row
           o == call[c].obs
           j == Reconciled(o, i)
<1>0. /\ StoreInv /\ StoreTypeOK /\ call[c] \in Call /\ call \in [Callers -> Call]
      /\ i \in Item /\ WellFormed(i) /\ o \in Observation /\ Versioned(call[c])
      /\ call[c].op = "reconcile" /\ call[c].pc = "put"
  BY ReadRow DEF VersionInv, StoreInv, StoreTypeOK, Call, Sound, ReconcilePut
<1>1. j \in Item /\ WellFormed(j) /\ j.status = "active"
  BY <1>0, ReconciledType
<1>2. Exists(j)
  BY <1>1 DEF WellFormed, Exists
<1>3. Newer(i, j)
  BY <1>0, ReconciledNewer DEF Versioned
<1>4. \/ /\ Unmoved(t, i) /\ item' = [item EXCEPT ![t] = j]
         /\ \E r \in Results : Return(c, r, j)
      \/ /\ item' = item
         /\ \/ call' = [call EXCEPT ![c].pc = "get", ![c].attempt = @ + 1]
            \/ Goto(c, "reread", i)
  BY DEF ReconcilePut, Responses, Results
<1> HIDE DEF j
<1>5. CASE /\ Unmoved(t, i) /\ item' = [item EXCEPT ![t] = j]
           /\ \E r \in Results : Return(c, r, j)
  BY <1>1, <1>2, <1>3, <1>5, PutVersions
<1>6. CASE item' = item /\ call' = [call EXCEPT ![c].pc = "get", ![c].attempt = @ + 1]
  <2> DEFINE k == [call[c] EXCEPT !.pc = "get", !.attempt = @ + 1]
  <2>1. call'[c] = k /\ \A d \in Callers \ {c} : call'[d] = call[d]
    BY <1>0, <1>6 DEF Call
  <2>2. k.pc = "get" /\ k.row = i /\ k.obs = o
    BY <1>0 DEF Call
  <2> HIDE DEF k
  <2>3. Versioned(call'[c])
    BY <1>0, <2>1, <2>2 DEF Versioned
  <2> QED
    BY <1>6, <2>1, <2>3, QuietVersions
<1>7. CASE item' = item /\ Goto(c, "reread", i)
  <2>1. Versioned(call'[c]) /\ \A d \in Callers \ {c} : call'[d] = call[d]
    BY <1>0, <1>7, GotoVersioned DEF Versioned
  <2> QED
    BY <1>7, <2>1, QuietVersions
<1> QED
  BY <1>4, <1>5, <1>6, <1>7

LEMMA ConfirmPutVersions ==
    ASSUME VersionInv, NEW c \in Callers, ConfirmPut(c)
    PROVE  VersionStep(c)
<1> DEFINE t == call[c].target
           i == call[c].row
           o == call[c].obs
           j == Confirmed(o, i)
<1>0. /\ StoreInv /\ StoreTypeOK /\ i \in Item /\ o \in Observation /\ Versioned(call[c])
      /\ call[c].op = "confirm" /\ call[c].pc = "put" /\ Exists(i)
  BY ReadRow DEF VersionInv, StoreInv, StoreTypeOK, Call, Sound, ConfirmPut
<1>1. \A a, b \in Version : MaxOf(a, b) \in Version
  BY DEF MaxOf
<1>2. j \in Item /\ j.generation = i.generation
  <2> DEFINE v == MaxOf(i.eni_v, o.eni_v)
             w == [g \in Groups |-> IF g \in i.content.groups
                                    THEN MaxOf(i.grp_v[g], o.grp_v[g]) ELSE NoTime]
  <2>1. /\ i.eni_v \in Version /\ o.eni_v \in Version /\ NoTime \in Version
        /\ i.grp_v \in [Groups -> Version] /\ o.grp_v \in [Groups -> Version]
    BY <1>0 DEF Item, Observation, Version
  <2>2. v \in Version /\ w \in [Groups -> Version]
    BY <1>1, <2>1
  <2>3. j = [i EXCEPT !.eni_v = v, !.grp_v = w]
    BY DEF Confirmed
  <2> HIDE DEF v, w, j
  <2> QED
    BY <1>0, <2>2, <2>3 DEF Item
<1>3. Newer(i, j)
  BY <1>0, ConfirmedNewer
<1>4. \/ Return(c, "noop", i) /\ item' = item
      \/ /\ Unmoved(t, i) /\ item' = [item EXCEPT ![t] = j]
         /\ \E r \in Results : Return(c, r, j)
      \/ Goto(c, "reread", i) /\ item' = item
  BY DEF ConfirmPut, Responses, Results
<1> HIDE DEF j
<1>5. CASE Return(c, "noop", i) /\ item' = item
  <2>1. Versioned(call'[c]) /\ \A d \in Callers \ {c} : call'[d] = call[d]
    BY <1>0, <1>5, ReturnVersioned DEF Versioned
  <2> QED
    BY <1>5, <2>1, QuietVersions
<1>6. CASE /\ Unmoved(t, i) /\ item' = [item EXCEPT ![t] = j]
           /\ \E r \in Results : Return(c, r, j)
  BY <1>0, <1>2, <1>3, <1>6, PutVersions DEF Exists
<1>7. CASE Goto(c, "reread", i) /\ item' = item
  <2>1. Versioned(call'[c]) /\ \A d \in Callers \ {c} : call'[d] = call[d]
    BY <1>0, <1>7, GotoVersioned DEF Versioned
  <2> QED
    BY <1>7, <2>1, QuietVersions
<1> QED
  BY <1>4, <1>5, <1>6, <1>7

LEMMA RemovePutVersions ==
    ASSUME VersionInv, NEW c \in Callers, RemovePut(c)
    PROVE  VersionStep(c)
<1> DEFINE t == call[c].target
           i == call[c].row
           at == call[c].obs.observed_at
           j == Removed(at, i)
<1>0. /\ StoreTypeOK /\ i \in Item /\ at \in Version /\ Versioned(call[c])
  BY ReadRow DEF VersionInv, StoreInv, StoreTypeOK, Call, Observation
<1>1. j \in Item /\ j.generation = i.generation + 1
  BY <1>0, RemovedType
<1>2. Exists(j)
  BY <1>0, <1>1 DEF Exists, Item
<1>3. Newer(i, j)
  BY <1>0, RemovedNewer
<1>4. \/ /\ Unmoved(t, i) /\ item' = [item EXCEPT ![t] = j]
         /\ \E r \in Results : Return(c, r, j)
      \/ Goto(c, "reread", i) /\ item' = item
  BY DEF RemovePut, Responses, Results
<1> HIDE DEF j
<1>5. CASE /\ Unmoved(t, i) /\ item' = [item EXCEPT ![t] = j]
           /\ \E r \in Results : Return(c, r, j)
  BY <1>1, <1>2, <1>3, <1>5, PutVersions
<1>6. CASE Goto(c, "reread", i) /\ item' = item
  <2>1. Versioned(call'[c]) /\ \A d \in Callers \ {c} : call'[d] = call[d]
    BY <1>0, <1>6, GotoVersioned DEF Versioned
  <2> QED
    BY <1>6, <2>1, QuietVersions
<1> QED
  BY <1>4, <1>5, <1>6

(* The steps that only read, with the order a reconcile found.             *)
LEMMA ReadVersions ==
    ASSUME VersionInv, NEW c \in Callers,
           \/ ReconcileGet(c) \/ RemoveGet(c) \/ CoverageGet(c) \/ CoveragePut(c)
           \/ RereadAfterConflict(c) \/ StoreRaises(c)
    PROVE  VersionStep(c)
<1> DEFINE i == item[call[c].target]
<1>0. /\ StoreTypeOK /\ i \in Item /\ call[c].row \in Item /\ Versioned(call[c])
      /\ Blank(i) /\ Blank(call[c].row)
  BY ReadRow DEF VersionInv, StoreInv, Versioned
<1>1. item' = item
  BY DEF ReconcileGet, RemoveGet, CoverageGet, CoveragePut, RereadAfterConflict, StoreRaises
<1>2. \/ \E r \in Results : Return(c, r, i) \/ Return(c, r, call[c].row)
      \/ Goto(c, "reread", call[c].row)
      \/ /\ Goto(c, "put", i)
         /\ call[c].op = "reconcile" => Orderly(call[c].obs, i)
  <2>1. CASE ReconcileGet(c)
    BY <2>1 DEF ReconcileGet, Orderly, Results
  <2>2. CASE RemoveGet(c)
    BY <2>2 DEF RemoveGet, Results
  <2>3. CASE CoverageGet(c)
    BY <2>3 DEF CoverageGet, Results
  <2>4. CASE CoveragePut(c)
    BY <2>4 DEF CoveragePut, Responses, Results
  <2>5. CASE RereadAfterConflict(c)
    BY <2>5 DEF RereadAfterConflict, Results
  <2>6. CASE StoreRaises(c)
    BY <2>6 DEF StoreRaises, Results
  <2> QED
    BY <2>1, <2>2, <2>3, <2>4, <2>5, <2>6
<1> HIDE DEF i
<1>3. Versioned(call'[c]) /\ \A d \in Callers \ {c} : call'[d] = call[d]
  <2>1. CASE \E r \in Results : Return(c, r, i) \/ Return(c, r, call[c].row)
    BY <1>0, <2>1, ReturnVersioned
  <2>2. CASE Goto(c, "reread", call[c].row)
    BY <1>0, <2>2, GotoVersioned
  <2>3. CASE Goto(c, "put", i) /\ (call[c].op = "reconcile" => Orderly(call[c].obs, i))
    BY <1>0, <2>3, GotoVersioned
  <2> QED
    BY <1>2, <2>1, <2>2, <2>3
<1> QED
  BY <1>1, <1>3, QuietVersions

LEMMA CallVersions ==
    ASSUME VersionInv, NEW c \in Callers, Callable(c) \/ Abandon(c)
    PROVE  VersionStep(c)
<1>0. call \in [Callers -> Call] /\ call[c] \in Call /\ Versioned(call[c])
  BY DEF VersionInv, StoreInv, StoreTypeOK
<1>1. item' = item
  BY DEF Callable, CallReconcile, CallConfirm, CallRemove, CallCoverage, Abandon
<1>2. \A o \in Observations : OwnGroups(o)
  BY ObservationAssumption DEF OwnGroups
<1>3. ASSUME NEW k, call' = [call EXCEPT ![c] = k], Blank(k.row), OwnGroups(k.obs),
             k.op # "reconcile" \/ k.pc # "put"
      PROVE  VersionStep(c)
  <2>1. call'[c] = k /\ \A d \in Callers \ {c} : call'[d] = call[d]
    BY <1>0, <1>3
  <2>2. Versioned(k)
    BY <1>3 DEF Versioned
  <2> QED
    BY <1>1, <2>1, <2>2, QuietVersions
<1>4. ASSUME NEW t \in Targets, NEW o \in Observations, CallReconcile(c, t, o)
      PROVE  VersionStep(c)
  <2> DEFINE k == [NoCall EXCEPT !.op = "reconcile", !.pc = "get", !.target = t, !.obs = o,
                                 !.attempt = 1]
  <2>1. call' = [call EXCEPT ![c] = k]
    BY <1>4 DEF CallReconcile
  <2>2. k.pc = "get" /\ k.row = NoItem /\ k.obs = o
    BY DEF NoCall
  <2> HIDE DEF k
  <2> QED
    BY <1>2, <1>3, <2>1, <2>2, NoCallVersioned
<1>5. ASSUME NEW o \in Observations, CallConfirm(c, o)
      PROVE  VersionStep(c)
  <2> DEFINE k == [call[c] EXCEPT !.op = "confirm", !.pc = "put", !.obs = o]
  <2>1. call' = [call EXCEPT ![c] = k]
    BY <1>0, <1>5 DEF CallConfirm, Call
  <2>2. k.op = "confirm" /\ k.row = call[c].row /\ k.obs = o
    BY <1>0 DEF Call
  <2> HIDE DEF k
  <2> QED
    BY <1>0, <1>2, <1>3, <2>1, <2>2 DEF Versioned
<1>6. ASSUME NEW t \in Targets, NEW g, NEW at, CallRemove(c, t, g, at)
      PROVE  VersionStep(c)
  <2> DEFINE o == [NoCall.obs EXCEPT !.observed_at = at]
             k == [NoCall EXCEPT !.op = "remove", !.pc = "get", !.target = t, !.generation = g,
                                 !.obs = o]
  <2>1. call' = [call EXCEPT ![c] = k]
    BY <1>6 DEF CallRemove
  <2>2. o.grp_v = NoCall.obs.grp_v /\ o.content = NoCall.obs.content
    BY DEF NoCall, DirectObservation
  <2> HIDE DEF o
  <2>3. k.pc = "get" /\ k.row = NoItem /\ k.obs = o
    BY DEF NoCall
  <2>4. OwnGroups(o)
    BY <2>2, NoCallVersioned DEF OwnGroups
  <2> HIDE DEF k
  <2> QED
    BY <1>3, <2>1, <2>3, <2>4, NoCallVersioned
<1>7. ASSUME NEW t \in Targets, NEW g, NEW b, CallCoverage(c, t, g, b)
      PROVE  VersionStep(c)
  <2> DEFINE k == [NoCall EXCEPT !.op = "coverage", !.pc = "get", !.target = t,
                                 !.generation = g, !.bucket = b]
  <2>1. call' = [call EXCEPT ![c] = k]
    BY <1>7 DEF CallCoverage
  <2>2. k.pc = "get" /\ k.row = NoItem /\ k.obs = NoCall.obs
    BY DEF NoCall
  <2> HIDE DEF k
  <2> QED
    BY <1>3, <2>1, <2>2, NoCallVersioned
<1>8. ASSUME Abandon(c)
      PROVE  VersionStep(c)
  BY <1>3, <1>8, NoCallVersioned DEF Abandon
<1> QED
  BY <1>4, <1>5, <1>6, <1>7, <1>8 DEF Callable

LEMMA VersionsProgress ==
    ASSUME VersionInv, NEW c \in Callers, Callable(c) \/ StoreStep(c) \/ Abandon(c)
    PROVE  VersionStep(c)
BY CallVersions, ReadVersions, ReconcilePutVersions, ConfirmPutVersions, RemovePutVersions
   DEF StoreStep

LEMMA VersionInvInitially ==
    ASSUME StoreInit
    PROVE  VersionInv
BY StoreInitInv, NoCallVersioned DEF StoreInit, VersionInv

LEMMA VersionInvPreserved ==
    ASSUME VersionInv, [StoreNext]_storeVars
    PROVE  VersionInv'
<1>1. StoreInv'
  BY StoreNextInv DEF VersionInv
<1>2. CASE StoreNext
  <2>1. PICK c \in Callers : Callable(c) \/ StoreStep(c) \/ Abandon(c)
    BY <1>2 DEF StoreNext
  <2>2. VersionStep(c)
    BY <2>1, VersionsProgress
  <2> QED
    BY <1>1, <2>2 DEF VersionStep, VersionInv
<1>3. CASE UNCHANGED storeVars
  BY <1>1, <1>3 DEF storeVars, VersionInv
<1> QED
  BY <1>2, <1>3

(***************************************************************************)
(* No put of any invocation replaces a capture of an interface or of a     *)
(* group by an older one: a reconcile whose order was found at its get     *)
(* writes over the versions it found, because the condition pins them.     *)
(***************************************************************************)
THEOREM StoreVersions == StoreSpec => CaptureVersionsMonotone
<1> DEFINE Forward ==
              \A t \in Targets :
                 /\ NoOlder(item[t].eni_v, item'[t].eni_v)
                 /\ \A g \in Groups : NoOlder(item[t].grp_v[g], item'[t].grp_v[g])
<1>1. StoreInit => VersionInv
  BY VersionInvInitially
<1>2. VersionInv /\ [StoreNext]_storeVars => VersionInv'
  BY VersionInvPreserved
<1>3. VersionInv /\ [StoreNext]_storeVars => [Forward]_item
  <2> SUFFICES ASSUME VersionInv, [StoreNext]_storeVars, item' # item PROVE Forward
    OBVIOUS
  <2>1. StoreNext
    BY DEF storeVars
  <2>2. PICK c \in Callers : Callable(c) \/ StoreStep(c) \/ Abandon(c)
    BY <2>1 DEF StoreNext
  <2>3. VersionStep(c)
    BY <2>2, VersionsProgress
  <2> QED
    BY <2>3 DEF VersionStep, Newer
<1>4. StoreSpec => [][Forward]_item
  BY <1>1, <1>2, <1>3, PTL DEF StoreSpec
<1> QED
  BY <1>4 DEF CaptureVersionsMonotone
=============================================================================
