--------------------------- MODULE ExposureProofs ---------------------------
(* What the projection of a target keeps, for any event stream, any scans, *)
(* rules and ports, and any number of reconciliation runs.                 *)
EXTENDS ExposureProjection, WellFoundedInduction, TLAPS

Statuses == {"absent", "active", "removed"}
Target == [generation: Nat, status: Statuses, address: Addresses, observed_at: Nat]
RuleTexts == [Rules -> Texts \cup {"off"}]
Writes == UNION {[keys -> Finding] : keys \in SUBSET FindingKeys}
HistoryEvent == [key: FindingKeys, version: Nat, status: {"absent", "open", "resolved"}]
Run == [pc: {"idle", "rules", "exposure", "target", "findings", "done"}, todo: SUBSET Ports,
        rules: RuleTexts, row: Exposure, status: Statuses, writes: Writes,
        locked: SUBSET Ports, fenced: BOOLEAN, overtaken: BOOLEAN]

Typed ==
    /\ target \in Target
    /\ applied \subseteq Events /\ ingested \subseteq Attempts /\ eligible \subseteq ingested
    /\ exposure \in [Ports -> Exposure] /\ closers \in [Ports -> SUBSET applied]
    /\ rule \in RuleTexts /\ edits \in 0 .. MaxEdits
    /\ finding \in [FindingKeys -> Finding] /\ history \subseteq HistoryEvent
    /\ run \in [Runs -> Run]
    /\ \A i \in Runs : run[i].pc \in {"target", "findings"} => run[i].todo # {}

-----------------------------------------------------------------------------
(* The operators of the model.                                             *)

LEMMA ConstantsTyped ==
    /\ NoTarget \in Target /\ NoExposure \in Exposure /\ NoFinding \in Finding
    /\ NoWrites \in Writes /\ NoRun \in Run
    /\ NoTarget.generation = 0 /\ NoExposure.state = "absent" /\ NoFinding.version = 0
    /\ NoFinding.status = "absent" /\ DOMAIN NoWrites = {}
    /\ NoRun.writes = NoWrites /\ NoRun.locked = {} /\ NoRun.fenced = FALSE /\ NoRun.pc = "idle"
<1>1. AnyAddress \in Addresses /\ AnyIdentity \in Identities /\ AnyText \in Texts
  BY ProjectionAssumption DEF AnyAddress, AnyIdentity, AnyText
<1>2. NoTarget \in Target /\ NoTarget.generation = 0
  BY <1>1 DEF NoTarget, Target, Statuses
<1>3. NoExposure \in Exposure /\ NoExposure.state = "absent"
  BY <1>1 DEF NoExposure, Exposure
<1>4. NoFinding \in Finding /\ NoFinding.version = 0 /\ NoFinding.status = "absent"
  BY <1>1 DEF NoFinding, Finding
<1>5. DOMAIN NoWrites = {} /\ NoWrites \in [{} -> Finding]
  BY DEF NoWrites
<1>6. NoWrites \in Writes
  BY <1>5 DEF Writes
<1>7. NoRun \in Run
  BY <1>3, <1>6 DEF NoRun, Run, RuleTexts, Statuses
<1>8. NoRun.writes = NoWrites /\ NoRun.locked = {} /\ NoRun.fenced = FALSE /\ NoRun.pc = "idle"
  BY DEF NoRun
<1> QED
  BY <1>2, <1>3, <1>4, <1>5, <1>6, <1>7, <1>8

LEMMA KeysTyped ==
    ASSUME NEW k \in FindingKeys
    PROVE  k[1] \in Rules /\ k[2] \in Ports /\ k = <<k[1], k[2]>>
BY DEF FindingKeys

(* What the uncommitted writes of a run are.                               *)
LEMMA WritesTyped ==
    ASSUME NEW w \in Writes
    PROVE  /\ DOMAIN w \subseteq FindingKeys /\ w \in [DOMAIN w -> Finding]
           /\ \A k \in DOMAIN w : w[k] \in Finding
<1>1. PICK keys \in SUBSET FindingKeys : w \in [keys -> Finding]
  BY DEF Writes
<1> QED
  BY <1>1

LEMMA EventsTyped ==
    ASSUME NEW e \in Events
    PROVE  EventOf[e] \in TargetEvent
BY ProjectionAssumption

LEMMA ScansTyped ==
    ASSUME NEW a \in Attempts
    PROVE  /\ ScanOf[a] \in ScanEnvelope /\ ScanOf[a].event \in Events
           /\ EventOf[ScanOf[a].event] \in TargetEvent
BY ProjectionAssumption DEF ScanEnvelope

(* A finding is left alone or gets its next version; a resolved one can    *)
(* only be opened again.                                                   *)
Moves(f, g) ==
    \/ g = f
    \/ /\ g.version = f.version + 1
       /\ f.status = "resolved" => g.status = "open"

(* The finding f of key k is what the exposure row, the target's status    *)
(* and the rules call for.                                                 *)
Agrees(k, f, row, status, rules) ==
    IF Matched(k, row, status, rules)
    THEN /\ f.status = "open" /\ f.address = row.address
         /\ f.identity = row.identity /\ f.text = rules[k[1]]
    ELSE f.status # "open"

(* _reconcile_finding_keys makes one finding agree, in one version.        *)
LEMMA Reconciles ==
    ASSUME NEW k \in FindingKeys, NEW f \in Finding, NEW row \in Exposure, NEW status \in Statuses,
           NEW rules \in RuleTexts
    PROVE  /\ ReconcileFinding(k, f, row, status, rules) \in Finding
           /\ Moves(f, ReconcileFinding(k, f, row, status, rules))
           /\ Agrees(k, ReconcileFinding(k, f, row, status, rules), row, status, rules)
<1> DEFINE g == ReconcileFinding(k, f, row, status, rules)
<1>1. CASE Matched(k, row, status, rules)
  <2> DEFINE o == [status |-> "open", version |-> f.version, address |-> row.address,
                   identity |-> row.identity, text |-> rules[k[1]]]
  <2>1. g = IF o = f THEN f ELSE [o EXCEPT !.version = @ + 1]
    BY <1>1 DEF ReconcileFinding, EnsureFinding
  <2>2. rules[k[1]] \in Texts
    BY <1>1, KeysTyped DEF Matched, RuleMatches, RuleTexts
  <2>3. o \in Finding /\ f.version + 1 \in Nat
    BY <2>2 DEF Finding, Exposure
  <2>4. CASE o = f
    BY <1>1, <2>1, <2>4 DEF Moves, Agrees
  <2>5. CASE o # f
    <3>1. /\ g.version = f.version + 1 /\ g.status = "open" /\ g.address = row.address
          /\ g.identity = row.identity /\ g.text = rules[k[1]] /\ g \in Finding
      BY <2>1, <2>3, <2>5 DEF Finding
    <3> HIDE DEF g
    <3> QED
      BY <1>1, <3>1 DEF Moves, Agrees, g
  <2> QED
    BY <2>4, <2>5
<1>2. CASE ~Matched(k, row, status, rules)
  <2>1. g = IF f.status = "open" THEN [f EXCEPT !.status = "resolved", !.version = @ + 1] ELSE f
    BY <1>2 DEF ReconcileFinding, ResolveFinding
  <2>2. CASE f.status = "open"
    <3> DEFINE r == [f EXCEPT !.status = "resolved", !.version = @ + 1]
    <3>0. f.version + 1 \in Nat
      BY DEF Finding
    <3>1. g = r /\ r.version = f.version + 1 /\ r.status = "resolved" /\ r \in Finding
      <4>1. g = r
        BY <2>1, <2>2
      <4>2. r.version = f.version + 1 /\ r.status = "resolved" /\ r \in Finding
        BY <3>0 DEF Finding
      <4> QED
        BY <4>1, <4>2
    <3> HIDE DEF g, r
    <3>2. Moves(f, g)
      BY <2>2, <3>1 DEF Moves
    <3>3. Agrees(k, g, row, status, rules)
      BY <1>2, <3>1 DEF Agrees
    <3> QED
      BY <3>1, <3>2, <3>3 DEF g
  <2>3. CASE f.status # "open"
    BY <1>2, <2>1, <2>3 DEF Moves, Agrees
  <2> QED
    BY <2>2, <2>3
<1> QED
  BY <1>1, <1>2

LEMMA ReconcilesKeys ==
    ASSUME Typed, NEW ports \in SUBSET Ports, NEW rows \in [Ports -> Exposure], NEW status \in Statuses
    PROVE  /\ ReconcileFindingKeys(ports, rows, status) \in [FindingKeys -> Finding]
           /\ \A k \in FindingKeys : Moves(finding[k], ReconcileFindingKeys(ports, rows, status)[k])
<1> DEFINE n == ReconcileFindingKeys(ports, rows, status)
<1>1. ASSUME NEW k \in FindingKeys
      PROVE  n[k] \in Finding /\ Moves(finding[k], n[k])
  <2>1. /\ k[2] \in Ports /\ finding[k] \in Finding /\ rows[k[2]] \in Exposure /\ rule \in RuleTexts
    BY KeysTyped DEF Typed
  <2>2. n[k] = IF k[2] \in ports THEN ReconcileFinding(k, finding[k], rows[k[2]], status, rule)
               ELSE finding[k]
    BY DEF ReconcileFindingKeys
  <2>3. /\ ReconcileFinding(k, finding[k], rows[k[2]], status, rule) \in Finding
        /\ Moves(finding[k], ReconcileFinding(k, finding[k], rows[k[2]], status, rule))
    BY <2>1, Reconciles
  <2> QED
    BY <2>1, <2>2, <2>3 DEF Moves
<1>2. n = [k \in FindingKeys |-> n[k]]
  BY DEF ReconcileFindingKeys
<1> HIDE DEF n
<1>3. n \in [FindingKeys -> Finding]
  BY <1>1, <1>2
<1> QED
  BY <1>1, <1>3 DEF n

LEMMA EventsOfTyped ==
    ASSUME NEW new \in [FindingKeys -> Finding]
    PROVE  EventsOf(new) \subseteq HistoryEvent
BY DEF EventsOf, HistoryEvent, Finding

(* Only the history variable of the other runs is touched.                 *)
LEMMA OvertakenTyped ==
    ASSUME run \in [Runs -> Run]
    PROVE  /\ Overtaken \in [Runs -> Run]
           /\ \A i \in Runs : /\ Overtaken[i].pc = run[i].pc /\ Overtaken[i].todo = run[i].todo
                              /\ Overtaken[i].writes = run[i].writes
                              /\ Overtaken[i].locked = run[i].locked
                              /\ Overtaken[i].fenced = run[i].fenced
                              /\ InRun(i) => Overtaken[i].overtaken
                              /\ ~InRun(i) => Overtaken[i] = run[i]
<1>1. ASSUME NEW i \in Runs
      PROVE  /\ Overtaken[i] \in Run
             /\ Overtaken[i].pc = run[i].pc /\ Overtaken[i].todo = run[i].todo
             /\ Overtaken[i].writes = run[i].writes /\ Overtaken[i].locked = run[i].locked
             /\ Overtaken[i].fenced = run[i].fenced
             /\ InRun(i) => Overtaken[i].overtaken
             /\ ~InRun(i) => Overtaken[i] = run[i]
  <2>1. Overtaken[i] = IF InRun(i) THEN [run[i] EXCEPT !.overtaken = TRUE] ELSE run[i]
    BY DEF Overtaken
  <2>2. run[i] \in Run
    OBVIOUS
  <2>3. CASE InRun(i)
    BY <2>1, <2>2, <2>3 DEF Run
  <2>4. CASE ~InRun(i)
    BY <2>1, <2>2, <2>4
  <2> QED
    BY <2>3, <2>4
<1>2. Overtaken = [i \in Runs |-> Overtaken[i]]
  BY DEF Overtaken
<1> QED
  BY <1>1, <1>2

(* Closing an exposure for a target event.                                 *)
LEMMA ClosesRow ==
    ASSUME NEW e \in Events, NEW row \in Exposure
    PROVE  /\ CloseForEvent(row, e) \in Exposure /\ CloseForEvent(row, e).state # "open"
           /\ row.state = "absent" => CloseForEvent(row, e).state = "absent"
<1>1. EventOf[e].occurred_at \in Nat /\ EventOf[e].generation \in Nat
  BY EventsTyped DEF TargetEvent
<1>2. /\ MaxOf(row.confirmed_at, EventOf[e].occurred_at) \in Nat
      /\ MaxOf(row.generation, EventOf[e].generation) \in Nat
  BY <1>1 DEF MaxOf, Exposure
<1>3. CASE row.state = "open"
  <2>1. CloseForEvent(row, e) =
           [row EXCEPT !.state = "closed",
                       !.confirmed_at = MaxOf(row.confirmed_at, EventOf[e].occurred_at),
                       !.generation = MaxOf(row.generation, EventOf[e].generation)]
    BY <1>3 DEF CloseForEvent, Exposure
  <2> QED
    BY <1>2, <1>3, <2>1 DEF Exposure
<1>4. CASE row.state # "open"
  BY <1>4 DEF CloseForEvent
<1> QED
  BY <1>3, <1>4

(* What a scan makes of an exposure: a row of its generation, open at its  *)
(* address if it saw the port open.                                        *)
LEMMA OpensRow ==
    ASSUME NEW a \in Attempts, NEW p \in Ports, NEW row \in Exposure,
           ScanOf[a].sees[p] # "closed"
    PROVE  /\ OpenExposure(a, p, row) \in Exposure
           /\ OpenExposure(a, p, row).state = "open"
           /\ OpenExposure(a, p, row).address = ScanOf[a].address
           /\ OpenExposure(a, p, row).generation = EventOf[ScanOf[a].event].generation
<1>1. /\ ScanOf[a].sees[p] \in Identities /\ ScanOf[a].address \in Addresses
      /\ ScanOf[a].completed_at \in Nat /\ EventOf[ScanOf[a].event].generation \in Nat
  BY ScansTyped DEF ScanEnvelope, TargetEvent
<1>2. MaxOf(row.confirmed_at, ScanOf[a].completed_at) \in Nat
  BY <1>1 DEF MaxOf, Exposure
<1> QED
  BY <1>1, <1>2 DEF OpenExposure, Exposure

LEMMA ClosesForScan ==
    ASSUME NEW a \in Attempts, NEW row \in Exposure
    PROVE  CloseExposure(a, row) \in Exposure /\ CloseExposure(a, row).state # "open"
<1>1. ScanOf[a].completed_at \in Nat /\ EventOf[ScanOf[a].event].generation \in Nat
  BY ScansTyped DEF ScanEnvelope, TargetEvent
<1>2. MaxOf(row.confirmed_at, ScanOf[a].completed_at) \in Nat
  BY <1>1 DEF MaxOf, Exposure
<1>3. CASE row.state = "absent"
  BY <1>3 DEF CloseExposure
<1>4. CASE row.state # "absent"
  <2>1. CloseExposure(a, row) =
           [row EXCEPT !.state = "closed",
                       !.confirmed_at = MaxOf(row.confirmed_at, ScanOf[a].completed_at),
                       !.attempt = a, !.generation = EventOf[ScanOf[a].event].generation]
    BY <1>4 DEF CloseExposure, Exposure
  <2> QED
    BY <1>1, <1>2, <2>1 DEF Exposure
<1> QED
  BY <1>3, <1>4

(* The evidence of attempt a leaves a port alone, closes it, or opens it.  *)
LEMMA AppliesEvidence ==
    ASSUME Typed, NEW a \in Attempts
    PROVE  /\ ApplyExposureEvidence(a) \in [Ports -> Exposure]
           /\ \A p \in Ports :
                 \/ ApplyExposureEvidence(a)[p] = exposure[p]
                 \/ ApplyExposureEvidence(a)[p].state # "open"
                 \/ /\ ApplyExposureEvidence(a)[p].address = ScanOf[a].address
                    /\ ApplyExposureEvidence(a)[p].generation = EventOf[ScanOf[a].event].generation
<1> DEFINE n == ApplyExposureEvidence(a)
<1>1. ASSUME NEW p \in Ports
      PROVE  /\ n[p] \in Exposure
             /\ \/ n[p] = exposure[p]
                \/ n[p].state # "open"
                \/ /\ n[p].address = ScanOf[a].address
                   /\ n[p].generation = EventOf[ScanOf[a].event].generation
  <2>1. exposure[p] \in Exposure
    BY DEF Typed
  <2>2. n[p] = IF ~(AttemptControlsPort(a, p) /\ ScanEvidenceIsNewer(a, exposure[p]))
               THEN exposure[p]
               ELSE IF ScanOf[a].sees[p] = "closed" THEN CloseExposure(a, exposure[p])
               ELSE OpenExposure(a, p, exposure[p])
    BY DEF ApplyExposureEvidence
  <2> HIDE DEF n
  <2>3. n[p] \in {exposure[p], CloseExposure(a, exposure[p])}
        \/ (ScanOf[a].sees[p] # "closed" /\ n[p] = OpenExposure(a, p, exposure[p]))
    BY <2>2
  <2> QED
    BY <2>1, <2>3, ClosesForScan, OpensRow
<1>2. n = [p \in Ports |-> n[p]]
  BY DEF ApplyExposureEvidence
<1> HIDE DEF n
<1>3. n \in [Ports -> Exposure]
  BY <1>1, <1>2
<1> QED
  BY <1>1, <1>3 DEF n

-----------------------------------------------------------------------------
(* What each step writes.                                                  *)

(* A transaction that rewrites findings and logs every new version.        *)
Logged ==
    /\ finding' \in [FindingKeys -> Finding]
    /\ \A k \in FindingKeys : Moves(finding[k], finding'[k])
    /\ history' = history \cup EventsOf(finding')

(* The exposure rows after target event e.                                 *)
ClosedRows(e) ==
    [p \in Ports |-> IF p \in ClosedBy(e) THEN CloseForEvent(exposure[p], e) ELSE exposure[p]]

(* The events that have closed each port, e among them.                    *)
ClosedWith(e) ==
    [p \in Ports |-> IF ClosedRows(e)[p] # exposure[p] THEN closers[p] \cup {e} ELSE closers[p]]

LEMMA ClosedRowsTyped ==
    ASSUME Typed, NEW e \in Events
    PROVE  /\ ClosedRows(e) \in [Ports -> Exposure] /\ ClosedBy(e) \subseteq Ports
           /\ \A p \in Ports : ClosedRows(e)[p].state = "open" =>
                 ClosedRows(e)[p] = exposure[p] /\ p \notin ClosedBy(e)
<1>1. ASSUME NEW p \in Ports
      PROVE  /\ ClosedRows(e)[p] \in Exposure
             /\ ClosedRows(e)[p].state = "open" =>
                   ClosedRows(e)[p] = exposure[p] /\ p \notin ClosedBy(e)
  <2>1. exposure[p] \in Exposure
    BY DEF Typed
  <2>2. ClosedRows(e)[p] = IF p \in ClosedBy(e) THEN CloseForEvent(exposure[p], e) ELSE exposure[p]
    BY DEF ClosedRows
  <2> QED
    BY <2>1, <2>2, ClosesRow
<1>2. ClosedBy(e) \subseteq Ports
  BY DEF ClosedBy, OpenPorts
<1>3. ClosedRows(e) = [p \in Ports |-> ClosedRows(e)[p]]
  BY DEF ClosedRows
<1>4. ClosedRows(e) \in [Ports -> Exposure]
  BY <1>1, <1>3
<1> QED
  BY <1>1, <1>2, <1>4

LEMMA ApplyWrites ==
    ASSUME Typed, NEW e \in Events, ApplyTargetEvent(e)
    PROVE  /\ Typed' /\ Logged /\ run' = Overtaken
           /\ exposure' = ClosedRows(e) /\ applied' = applied \cup {e}
           /\ closers' = ClosedWith(e)
           /\ jumps' = IF Jumps(e) THEN jumps \cup {[from |-> target.generation, event |-> e]}
                       ELSE jumps
           /\ target' = IF Accepted(e)
                        THEN [generation |-> EventOf[e].generation, address |-> EventOf[e].address,
                              status |-> IF EventOf[e].event_type = "remove" THEN "removed"
                                                                            ELSE "active",
                              observed_at |-> EventOf[e].observed_at]
                        ELSE target
           /\ \A i \in Runs : ~run[i].fenced /\ run[i].locked \cap ClosedBy(e) = {}
           /\ \A k \in FindingKeys : k[2] \notin ClosedBy(e) => finding'[k] = finding[k]
           /\ UNCHANGED <<rule, ingested, eligible, objects>> /\ pending' = QueueHandoffs(EventsOf(finding'))
<1>1. /\ run' = Overtaken /\ exposure' = ClosedRows(e) /\ applied' = applied \cup {e}
      /\ closers' = ClosedWith(e)
      /\ jumps' = IF Jumps(e) THEN jumps \cup {[from |-> target.generation, event |-> e]} ELSE jumps
      /\ target' = IF Accepted(e)
                   THEN [generation |-> EventOf[e].generation, address |-> EventOf[e].address,
                         status |-> IF EventOf[e].event_type = "remove" THEN "removed"
                                                                       ELSE "active",
                         observed_at |-> EventOf[e].observed_at]
                   ELSE target
      /\ finding' = ReconcileFindingKeys(ClosedBy(e), ClosedRows(e), target'.status)
      /\ history' = history \cup EventsOf(finding')
      /\ pending' = QueueHandoffs(EventsOf(finding'))
      /\ UNCHANGED <<ingested, eligible, rule, edits, objects>>
  BY DEF ApplyTargetEvent, ClosedRows, ClosedWith, WriteFindings
<1>2. \A i \in Runs : ~run[i].fenced /\ run[i].locked \cap ClosedBy(e) = {}
  BY DEF ApplyTargetEvent, Unlocked
<1>3. EventOf[e] \in TargetEvent
  BY EventsTyped
<1>4. target' \in Target
  <2>1. /\ EventOf[e].generation \in Nat /\ EventOf[e].address \in Addresses
        /\ EventOf[e].observed_at \in Nat
    BY <1>3 DEF TargetEvent
  <2>2. target \in Target
    BY DEF Typed
  <2> QED
    BY <1>1, <2>1, <2>2 DEF Target, Statuses
<1>5. target'.status \in Statuses
  BY <1>4 DEF Target
<1>6. ClosedRows(e) \in [Ports -> Exposure] /\ ClosedBy(e) \in SUBSET Ports
  BY ClosedRowsTyped
<1>7. finding' \in [FindingKeys -> Finding] /\ \A k \in FindingKeys : Moves(finding[k], finding'[k])
  BY <1>1, <1>5, <1>6, ReconcilesKeys
<1>8. \A k \in FindingKeys : k[2] \notin ClosedBy(e) => finding'[k] = finding[k]
  BY <1>1 DEF ReconcileFindingKeys
<1>9. EventsOf(finding') \subseteq HistoryEvent
  BY <1>7, EventsOfTyped
<1>10. /\ run' \in [Runs -> Run]
       /\ \A i \in Runs : run'[i].pc \in {"target", "findings"} => run'[i].todo # {}
  BY <1>1, OvertakenTyped DEF Typed
<1>11. closers' \in [Ports -> SUBSET applied']
  BY <1>1 DEF Typed, ClosedWith
<1>12. Typed'
  BY <1>1, <1>4, <1>6, <1>7, <1>9, <1>10, <1>11 DEF Typed
<1> QED
  BY <1>1, <1>2, <1>7, <1>8, <1>12 DEF Logged

(* The exposure rows after attempt a, and the ports among them that moved. *)
ScannedRows(a) == IF StateEligible(a) THEN ApplyExposureEvidence(a) ELSE exposure
Affected(a) == {p \in Ports : ScannedRows(a)[p] # exposure[p]}

LEMMA IngestWrites ==
    ASSUME Typed, NEW a \in Attempts, IngestScan(a)
    PROVE  /\ Typed' /\ Logged /\ run' = Overtaken /\ exposure' = ScannedRows(a)
           /\ \A i \in Runs : ~run[i].fenced /\ run[i].locked \cap Affected(a) = {}
           /\ \A k \in FindingKeys : k[2] \notin Affected(a) => finding'[k] = finding[k]
           /\ UNCHANGED <<target, applied, jumps, closers, rule, objects>>
           /\ pending' = QueueHandoffs(EventsOf(finding'))
<1>1. /\ run' = Overtaken /\ exposure' = ScannedRows(a)
      /\ finding' = ReconcileFindingKeys(Affected(a), ScannedRows(a), target.status)
      /\ history' = history \cup EventsOf(finding')
      /\ pending' = QueueHandoffs(EventsOf(finding'))
      /\ ingested' = ingested \cup {a}
      /\ eligible' = IF StateEligible(a) THEN eligible \cup {a} ELSE eligible
      /\ UNCHANGED <<target, applied, jumps, closers, rule, edits, objects>>
  BY DEF IngestScan, ScannedRows, Affected, WriteFindings
<1>2. \A i \in Runs : ~run[i].fenced /\ run[i].locked \cap Affected(a) = {}
  BY DEF IngestScan, Unlocked, Affected, ScannedRows
<1>3. target.status \in Statuses
  BY DEF Typed, Target
<1>4. ScannedRows(a) \in [Ports -> Exposure] /\ Affected(a) \in SUBSET Ports
  BY AppliesEvidence DEF ScannedRows, Affected, Typed
<1>5. finding' \in [FindingKeys -> Finding] /\ \A k \in FindingKeys : Moves(finding[k], finding'[k])
  BY <1>1, <1>3, <1>4, ReconcilesKeys
<1>6. \A k \in FindingKeys : k[2] \notin Affected(a) => finding'[k] = finding[k]
  BY <1>1 DEF ReconcileFindingKeys
<1>7. EventsOf(finding') \subseteq HistoryEvent
  BY <1>5, EventsOfTyped
<1>8. /\ run' \in [Runs -> Run]
      /\ \A i \in Runs : run'[i].pc \in {"target", "findings"} => run'[i].todo # {}
  BY <1>1, OvertakenTyped DEF Typed
<1>9. Typed'
  BY <1>1, <1>4, <1>5, <1>7, <1>8 DEF Typed
<1> QED
  BY <1>1, <1>2, <1>5, <1>6, <1>9 DEF Logged

-----------------------------------------------------------------------------
(* Reconciliation runs and their locks.                                    *)

(* A run takes its ports in their order: there is a first one, and every   *)
(* port is taken once.                                                     *)
LEMMA FirstOfTodo ==
    ASSUME Typed, NEW i \in Runs, run[i].todo # {}
    PROVE  NextPort(i) \in run[i].todo /\ NextPort(i) \in Ports
<1>1. run[i].todo \subseteq Ports /\ run[i].todo \subseteq Nat
  BY ProjectionAssumption DEF Typed, Run
<1>2. \E p \in run[i].todo : \A q \in run[i].todo : ~(<<q, p>> \in OpToRel(<, Nat))
  BY <1>1, NatLessThanWellFounded, WFMin
<1>3. \A p, q \in run[i].todo : ~(<<q, p>> \in OpToRel(<, Nat)) => p <= q
  BY <1>1 DEF OpToRel
<1>4. \E p \in run[i].todo : \A q \in run[i].todo : p <= q
  BY <1>2, <1>3
<1>5. NextPort(i) \in run[i].todo
  BY <1>4 DEF NextPort
<1> QED
  BY <1>1, <1>5

(* A run that has something to write has locked the findings it is about,  *)
(* and the target row with them; what it will write continues the finding  *)
(* as it still is.  No two runs hold the same port.                        *)
Locks ==
    /\ \A i \in Runs : \A k \in DOMAIN run[i].writes :
          k[2] \in run[i].locked /\ run[i].fenced /\ Moves(finding[k], run[i].writes[k])
    /\ \A i, j \in Runs : i # j => run[i].locked \cap run[j].locked = {}

(* A run that goes on with the record r, which has no more locks or writes *)
(* than before.                                                            *)
LEMMA RunMoves ==
    ASSUME Typed, Locks, NEW i \in Runs, NEW r \in Run, Continue(i, r),
           UNCHANGED <<evidenceVars, rule, edits, findingVars, objects>>,
           r.pc \in {"target", "findings"} => r.todo # {},
           \/ r.writes = NoWrites /\ r.locked = {}
           \/ r.writes = run[i].writes /\ r.locked = run[i].locked /\ r.fenced = run[i].fenced
    PROVE  Typed' /\ Locks'
<1>1. run' = [run EXCEPT ![i] = r] /\ run \in [Runs -> Run]
  BY DEF Continue, Typed
<1>2. run'[i] = r /\ (\A j \in Runs : j # i => run'[j] = run[j]) /\ run' \in [Runs -> Run]
  BY <1>1
<1>3. Typed'
  BY <1>2 DEF Typed, evidenceVars, findingVars
<1>4. Locks'
  BY <1>2, ConstantsTyped DEF Locks, findingVars
<1> QED
  BY <1>3, <1>4

LEMMA ReadSteps ==
    ASSUME Typed, Locks, NEW i \in Runs,
           \/ StartRun(i) \/ ReadRules(i) \/ ReadExposure(i) \/ ReadTarget(i) \/ RunFails(i)
    PROVE  /\ Typed' /\ Locks' /\ UNCHANGED <<evidenceVars, rule, edits, findingVars, objects>>
           /\ \A j \in Runs : j # i => run'[j] = run[j]
           /\ run'[i].pc # "done"
<1>1. run[i] \in Run /\ run \in [Runs -> Run] /\ target.status \in Statuses
  BY DEF Typed, Target
<1>2. CASE StartRun(i)
  <2> DEFINE todo == {p \in Ports : \/ exposure[p].state # "absent"
                                    \/ \E r \in Rules : finding[<<r, p>>].status # "absent"}
             r == [NoRun EXCEPT !.pc = "rules", !.todo = todo]
  <2>1. Continue(i, r) /\ UNCHANGED <<evidenceVars, rule, edits, findingVars, objects>>
    BY <1>2 DEF StartRun
  <2>2. todo \in SUBSET Ports
    OBVIOUS
  <2> HIDE DEF todo
  <2>3. r \in Run /\ r.pc = "rules" /\ r.writes = NoWrites /\ r.locked = {}
    BY <2>2, ConstantsTyped DEF Run
  <2> HIDE DEF r
  <2>4. Typed' /\ Locks'
    BY <2>1, <2>3, RunMoves
  <2> QED
    BY <1>1, <2>1, <2>3, <2>4 DEF Continue
<1>3. CASE ReadRules(i)
  <2> DEFINE r == [run[i] EXCEPT !.pc = "exposure", !.rules = rule]
  <2>1. Continue(i, r) /\ UNCHANGED <<evidenceVars, rule, edits, findingVars, objects>>
    BY <1>3 DEF ReadRules
  <2>2. rule \in RuleTexts
    BY DEF Typed
  <2>3. /\ r \in Run /\ r.pc = "exposure" /\ r.writes = run[i].writes /\ r.locked = run[i].locked
        /\ r.fenced = run[i].fenced
    BY <1>1, <2>2 DEF Run
  <2> HIDE DEF r
  <2>4. Typed' /\ Locks'
    BY <2>1, <2>3, RunMoves
  <2> QED
    BY <1>1, <2>1, <2>3, <2>4 DEF Continue
<1>4. CASE ReadExposure(i)
  <2> DEFINE r == [run[i] EXCEPT !.pc = "target", !.row = exposure[NextPort(i)]]
  <2>1. /\ Continue(i, r) /\ UNCHANGED <<evidenceVars, rule, edits, findingVars, objects>>
        /\ run[i].todo # {}
    BY <1>4 DEF ReadExposure
  <2>2. exposure[NextPort(i)] \in Exposure
    BY <2>1, FirstOfTodo DEF Typed
  <2>3. /\ r \in Run /\ r.pc = "target" /\ r.writes = run[i].writes /\ r.locked = run[i].locked
        /\ r.fenced = run[i].fenced /\ r.todo = run[i].todo
    BY <1>1, <2>2 DEF Run
  <2> HIDE DEF r
  <2>4. Typed' /\ Locks'
    BY <2>1, <2>3, RunMoves
  <2> QED
    BY <1>1, <2>1, <2>3, <2>4 DEF Continue
<1>5. CASE ReadTarget(i)
  <2> DEFINE r == [run[i] EXCEPT !.pc = "findings", !.status = target.status]
  <2>1. /\ Continue(i, r) /\ UNCHANGED <<evidenceVars, rule, edits, findingVars, objects>>
        /\ run[i].todo # {}
    BY <1>5 DEF ReadTarget, Typed
  <2>2. /\ r \in Run /\ r.pc = "findings" /\ r.writes = run[i].writes /\ r.locked = run[i].locked
        /\ r.fenced = run[i].fenced /\ r.todo = run[i].todo
    BY <1>1 DEF Run
  <2> HIDE DEF r
  <2>3. Typed' /\ Locks'
    BY <2>1, <2>2, RunMoves
  <2> QED
    BY <1>1, <2>1, <2>2, <2>3 DEF Continue
<1>6. CASE RunFails(i)
  <2>1. Continue(i, NoRun) /\ UNCHANGED <<evidenceVars, rule, edits, findingVars, objects>>
    BY <1>6 DEF RunFails
  <2>2. Typed' /\ Locks'
    BY <2>1, RunMoves, ConstantsTyped
  <2> QED
    BY <1>1, <2>1, <2>2, ConstantsTyped DEF Continue
<1> QED
  BY <1>2, <1>3, <1>4, <1>5, <1>6

(* The finding of key k as run i would leave it.                           *)
NewIn(i, k) == ReconcileFinding(k, finding[k], run[i].row, run[i].status, run[i].rules)

MovedIn(i) == {k \in FindingKeys : k[2] = NextPort(i) /\ NewIn(i, k) # finding[k]}

WritesAfter(i) ==
    [k \in DOMAIN run[i].writes \cup MovedIn(i) |->
        IF k \in MovedIn(i) THEN NewIn(i, k) ELSE run[i].writes[k]]

LEMMA NewInTyped ==
    ASSUME Typed, NEW i \in Runs, NEW k \in FindingKeys
    PROVE  /\ NewIn(i, k) \in Finding /\ Moves(finding[k], NewIn(i, k))
           /\ Agrees(k, NewIn(i, k), run[i].row, run[i].status, run[i].rules)
<1>1. /\ finding[k] \in Finding /\ run[i].row \in Exposure /\ run[i].status \in Statuses
      /\ run[i].rules \in RuleTexts
  BY DEF Typed, Run
<1> QED
  BY <1>1, Reconciles DEF NewIn

LEMMA WritesAfterTyped ==
    ASSUME Typed, NEW i \in Runs
    PROVE  /\ WritesAfter(i) \in Writes
           /\ DOMAIN WritesAfter(i) = DOMAIN run[i].writes \cup MovedIn(i)
           /\ \A k \in MovedIn(i) : WritesAfter(i)[k] = NewIn(i, k)
           /\ \A k \in DOMAIN run[i].writes \ MovedIn(i) : WritesAfter(i)[k] = run[i].writes[k]
<1> DEFINE w == run[i].writes
           D == DOMAIN w \cup MovedIn(i)
<1>1. w \in Writes
  BY DEF Typed, Run
<1>2. DOMAIN w \subseteq FindingKeys /\ \A k \in DOMAIN w : w[k] \in Finding
  BY <1>1, WritesTyped
<1>3. D \in SUBSET FindingKeys
  BY <1>2 DEF MovedIn
<1>4. \A k \in D : (IF k \in MovedIn(i) THEN NewIn(i, k) ELSE w[k]) \in Finding
  BY <1>2, NewInTyped DEF MovedIn
<1>5. WritesAfter(i) \in [D -> Finding]
  BY <1>4 DEF WritesAfter
<1>6. WritesAfter(i) \in Writes
  BY <1>3, <1>5 DEF Writes
<1> QED
  BY <1>6 DEF WritesAfter

LEMMA ReconcilePortStep ==
    ASSUME Typed, Locks, NEW i \in Runs, ReconcilePort(i)
    PROVE  /\ Typed' /\ Locks' /\ UNCHANGED <<evidenceVars, rule, edits, findingVars, objects>>
           /\ \A j \in Runs : j # i => run'[j] = run[j]
           /\ run'[i].pc = "exposure" /\ run'[i].todo = run[i].todo \ {NextPort(i)}
           /\ run'[i].rules = run[i].rules /\ run'[i].overtaken = run[i].overtaken
           /\ run'[i].writes = WritesAfter(i)
<1> DEFINE p == NextPort(i)
           keys == {k \in FindingKeys : k[2] = p}
           touched == MovedIn(i) # {} \/ \E k \in keys : finding[k].status # "absent"
           lk == IF touched THEN run[i].locked \cup {p} ELSE run[i].locked
           r == [run[i] EXCEPT !.pc = "exposure", !.todo = @ \ {p}, !.row = NoExposure,
                               !.status = "absent", !.writes = WritesAfter(i),
                               !.locked = lk, !.fenced = @ \/ MovedIn(i) # {}]
<1>1. run[i] \in Run /\ run \in [Runs -> Run] /\ run[i].pc = "findings"
  BY DEF Typed, ReconcilePort
<1>2. p \in run[i].todo /\ p \in Ports
  BY <1>1, FirstOfTodo DEF Typed
<1>3. MovedIn(i) = {k \in keys : NewIn(i, k) # finding[k]}
  BY DEF MovedIn
<1>4. /\ Continue(i, r) /\ UNCHANGED <<evidenceVars, rule, edits, findingVars, objects>>
      /\ touched => \A j \in Runs \ {i} : p \notin run[j].locked
  BY <1>3, <1>1 DEF ReconcilePort, WritesAfter, NewIn, Run
<1>5. lk \in SUBSET Ports /\ run[i].locked \subseteq lk /\ (touched => p \in lk)
      /\ \A q \in lk : q \in run[i].locked \/ (touched /\ q = p)
  BY <1>1, <1>2 DEF Run
<1>6. /\ WritesAfter(i) \in Writes /\ DOMAIN WritesAfter(i) = DOMAIN run[i].writes \cup MovedIn(i)
      /\ \A k \in MovedIn(i) : WritesAfter(i)[k] = NewIn(i, k)
      /\ \A k \in DOMAIN run[i].writes \ MovedIn(i) : WritesAfter(i)[k] = run[i].writes[k]
  BY WritesAfterTyped
<1>7. MovedIn(i) # {} => touched
  OBVIOUS
<1> HIDE DEF lk, touched, keys, p
<1>8. /\ r \in Run /\ r.pc = "exposure" /\ r.todo = run[i].todo \ {p} /\ r.rules = run[i].rules
      /\ r.overtaken = run[i].overtaken /\ r.writes = WritesAfter(i) /\ r.locked = lk
      /\ r.fenced = (run[i].fenced \/ MovedIn(i) # {})
  BY <1>1, <1>5, <1>6, ConstantsTyped DEF Run, Statuses
<1> HIDE DEF r
<1>9. run'[i] = r /\ (\A j \in Runs : j # i => run'[j] = run[j]) /\ run' \in [Runs -> Run]
  BY <1>1, <1>4, <1>8 DEF Continue
<1>10. Typed'
  BY <1>4, <1>8, <1>9 DEF Typed, evidenceVars, findingVars
<1>11. Locks'
  <2>1. ASSUME NEW k \in DOMAIN WritesAfter(i)
        PROVE  k[2] \in lk /\ r.fenced /\ Moves(finding[k], WritesAfter(i)[k])
    <3>1. CASE k \in MovedIn(i)
      <4>1. k \in FindingKeys /\ k[2] = p
        BY <3>1 DEF MovedIn, p
      <4>2. Moves(finding[k], WritesAfter(i)[k])
        BY <3>1, <4>1, <1>6, NewInTyped
      <4> QED
        BY <3>1, <4>1, <4>2, <1>5, <1>7, <1>8
    <3>2. CASE k \in DOMAIN run[i].writes \ MovedIn(i)
      BY <3>2, <1>5, <1>6, <1>8 DEF Locks
    <3> QED
      BY <3>1, <3>2, <1>6
  <2>2. \A j \in Runs : j # i => lk \cap run[j].locked = {}
    BY <1>4, <1>5 DEF Locks
  <2>3. \A j \in Runs : \A k \in DOMAIN run'[j].writes :
           k[2] \in run'[j].locked /\ run'[j].fenced /\ Moves(finding[k], run'[j].writes[k])
    BY <2>1, <1>8, <1>9 DEF Locks
  <2>4. \A j, m \in Runs : j # m => run'[j].locked \cap run'[m].locked = {}
    BY <2>2, <1>8, <1>9 DEF Locks
  <2>5. finding' = finding
    BY <1>4 DEF findingVars
  <2> QED
    BY <2>3, <2>4, <2>5 DEF Locks
<1> QED
  BY <1>4, <1>8, <1>9, <1>10, <1>11 DEF p

(* What run i leaves in the table of findings.                             *)
Committed(i) ==
    [k \in FindingKeys |-> IF k \in DOMAIN run[i].writes THEN run[i].writes[k] ELSE finding[k]]

LEMMA CommitStep ==
    ASSUME Typed, Locks, NEW i \in Runs, CommitRun(i)
    PROVE  /\ Typed' /\ Locks' /\ Logged /\ finding' = Committed(i)
           /\ UNCHANGED <<evidenceVars, rule, edits, objects>>
           /\ pending' = QueueHandoffs(EventsOf(finding') \cup Snapshots(i, finding'))
           /\ \A j \in Runs : j # i => run'[j] = Overtaken[j]
           /\ run'[i].pc = "done"
<1> DEFINE r == [NoRun EXCEPT !.pc = "done"]
<1>1. /\ finding' = Committed(i) /\ history' = history \cup EventsOf(finding')
      /\ pending' = QueueHandoffs(EventsOf(finding') \cup Snapshots(i, finding'))
      /\ run' = [Overtaken EXCEPT ![i] = r]
      /\ UNCHANGED <<evidenceVars, rule, edits, objects>>
  BY DEF CommitRun, Committed
<1>2. /\ Overtaken \in [Runs -> Run]
      /\ \A j \in Runs : /\ Overtaken[j].pc = run[j].pc /\ Overtaken[j].todo = run[j].todo
                         /\ Overtaken[j].writes = run[j].writes
                         /\ Overtaken[j].locked = run[j].locked
                         /\ Overtaken[j].fenced = run[j].fenced
  BY OvertakenTyped DEF Typed
<1>3. r \in Run /\ r.pc = "done" /\ r.writes = NoWrites /\ r.locked = {}
  BY ConstantsTyped DEF Run
<1> HIDE DEF r
<1>4. run'[i] = r /\ (\A j \in Runs : j # i => run'[j] = Overtaken[j]) /\ run' \in [Runs -> Run]
  BY <1>1, <1>2, <1>3
<1>5. ASSUME NEW k \in FindingKeys
      PROVE  finding'[k] \in Finding /\ Moves(finding[k], finding'[k])
             /\ (k \notin DOMAIN run[i].writes => finding'[k] = finding[k])
  <2>1. finding'[k] = IF k \in DOMAIN run[i].writes THEN run[i].writes[k] ELSE finding[k]
    BY <1>1 DEF Committed
  <2>2. finding[k] \in Finding /\ run[i].writes \in Writes
    BY DEF Typed, Run
  <2>3. \A m \in DOMAIN run[i].writes : run[i].writes[m] \in Finding
    BY <2>2, WritesTyped
  <2> QED
    BY <2>1, <2>2, <2>3 DEF Locks, Moves
<1>6. finding' \in [FindingKeys -> Finding]
  BY <1>1, <1>5 DEF Committed
<1>7. EventsOf(finding') \subseteq HistoryEvent
  BY <1>6, EventsOfTyped
<1>8. Typed'
  BY <1>1, <1>2, <1>3, <1>4, <1>6, <1>7 DEF Typed, evidenceVars
<1>9. Locks'
  <2>1. ASSUME NEW j \in Runs, NEW k \in DOMAIN run'[j].writes
        PROVE  k[2] \in run'[j].locked /\ run'[j].fenced /\ Moves(finding'[k], run'[j].writes[k])
    <3>1. j # i
      BY <1>3, <1>4, ConstantsTyped
    <3>2. /\ run'[j].writes = run[j].writes /\ run'[j].locked = run[j].locked
          /\ run'[j].fenced = run[j].fenced
      BY <3>1, <1>2, <1>4
    <3>3. /\ k[2] \in run[j].locked /\ run[j].fenced /\ Moves(finding[k], run[j].writes[k])
          /\ k[2] \notin run[i].locked
      BY <3>1, <3>2 DEF Locks
    <3>4. k \notin DOMAIN run[i].writes
      BY <3>3 DEF Locks
    <3>5. run[j].writes \in Writes
      BY DEF Typed, Run
    <3>6. k \in FindingKeys
      BY <3>2, <3>5, WritesTyped
    <3> QED
      BY <3>2, <3>3, <3>4, <3>6, <1>5
  <2>2. \A j, m \in Runs : j # m => run'[j].locked \cap run'[m].locked = {}
    BY <1>2, <1>3, <1>4 DEF Locks
  <2> QED
    BY <2>1, <2>2 DEF Locks
<1> QED
  BY <1>1, <1>3, <1>4, <1>5, <1>6, <1>8, <1>9 DEF Logged

(* Target events and scans write nothing while a run is to write: a run    *)
(* with writes holds the target row.                                       *)
LEMMA LocksKept ==
    ASSUME Typed, Locks, run' = Overtaken,
           \/ finding' = finding
           \/ \A i \in Runs : ~run[i].fenced
    PROVE  Locks'
<1>1. \A i \in Runs : /\ run'[i].writes = run[i].writes /\ run'[i].locked = run[i].locked
                      /\ run'[i].fenced = run[i].fenced
  BY OvertakenTyped DEF Typed
<1>2. CASE finding' = finding
  BY <1>1, <1>2 DEF Locks
<1>3. CASE \A i \in Runs : ~run[i].fenced
  BY <1>1, <1>3 DEF Locks
<1> QED
  BY <1>2, <1>3

LEMMA EditStep ==
    ASSUME Typed, Locks, NEW r \in Rules, EditRule(r)
    PROVE  Typed' /\ Locks' /\ run' = Overtaken /\ UNCHANGED <<evidenceVars, findingVars, objects>>
<1>1. PICK text \in (Texts \cup {"off"}) \ {rule[r]} : rule' = [rule EXCEPT ![r] = text]
  BY DEF EditRule
<1>2. /\ edits < MaxEdits /\ edits' = edits + 1 /\ run' = Overtaken
      /\ UNCHANGED <<evidenceVars, findingVars, objects>>
  BY DEF EditRule
<1>3. rule' \in RuleTexts
  BY <1>1 DEF Typed, RuleTexts
<1>4. edits' \in 0 .. MaxEdits
  BY <1>2, ProjectionAssumption DEF Typed
<1>5. /\ run' \in [Runs -> Run]
      /\ \A i \in Runs : run'[i].pc \in {"target", "findings"} => run'[i].todo # {}
  BY <1>2, OvertakenTyped DEF Typed
<1>6. Typed'
  BY <1>2, <1>3, <1>4, <1>5 DEF Typed, evidenceVars, findingVars
<1>7. Locks'
  BY <1>2, LocksKept DEF findingVars
<1> QED
  BY <1>2, <1>6, <1>7

-----------------------------------------------------------------------------
(* The history of findings.                                                *)

LEMMA LoggedHistory ==
    ASSUME Typed, FindingHistory, Logged
    PROVE  FindingHistory'
<1> SUFFICES ASSUME NEW k \in FindingKeys
             PROVE  LET own == {h \in history' : h.key = k} IN
                    /\ {h.version : h \in own} = 1 .. finding'[k].version
                    /\ \A g, h \in own : g.version = h.version => g = h
                    /\ \A h \in own : h.version = finding'[k].version => h.status = finding'[k].status
                    /\ \A g, h \in own : g.status = "resolved" /\ h.version = g.version + 1 =>
                          h.status = "open"
  BY DEF FindingHistory
<1> DEFINE own == {h \in history : h.key = k}
           next == {h \in history' : h.key = k}
           f == finding[k]
           n == finding'[k]
           new == [key |-> k, version |-> n.version, status |-> n.status]
<1>1. /\ f \in Finding /\ n \in Finding /\ f.version \in Nat /\ n.version \in Nat /\ Moves(f, n)
      /\ own \subseteq HistoryEvent
  BY DEF Typed, Logged, Finding
<1>2. /\ {h.version : h \in own} = 1 .. f.version
      /\ \A g, h \in own : g.version = h.version => g = h
      /\ \A h \in own : h.version = f.version => h.status = f.status
      /\ \A g, h \in own : g.status = "resolved" /\ h.version = g.version + 1 => h.status = "open"
  BY DEF FindingHistory
<1>3. \A h \in EventsOf(finding') : h.key = k => h = new /\ n.version # f.version
  BY DEF EventsOf
<1>4. n.version # f.version => new \in EventsOf(finding') /\ new.key = k
  BY DEF EventsOf
<1>5. next = IF n.version # f.version THEN own \cup {new} ELSE own
  BY <1>3, <1>4 DEF Logged
<1>6. new.version = n.version /\ new.status = n.status
  OBVIOUS
<1> HIDE DEF own, next, f, n, new
<1>7. CASE n.version = f.version
  <2>1. n = f
    BY <1>1, <1>7 DEF Moves
  <2> QED
    BY <2>1, <1>2, <1>5 DEF own, next, f, n
<1>8. CASE n.version # f.version
  <2>1. n.version = f.version + 1 /\ (f.status = "resolved" => n.status = "open") /\ next = own \cup {new}
    BY <1>1, <1>5, <1>8 DEF Moves
  <2>2. \A h \in own : h.version \in 1 .. f.version
    BY <1>2
  <2>3. {h.version : h \in next} = 1 .. n.version
    <3>1. {h.version : h \in next} = {h.version : h \in own} \cup {new.version}
      BY <2>1
    <3>2. 1 .. (f.version + 1) = (1 .. f.version) \cup {f.version + 1}
      BY <1>1
    <3> QED
      BY <3>1, <3>2, <2>1, <1>2, <1>6
  <2>4. \A g, h \in next : g.version = h.version => g = h
    BY <2>1, <2>2, <1>1, <1>2, <1>6
  <2>5. \A h \in next : h.version = n.version => h.status = n.status
    BY <2>1, <2>2, <1>1, <1>6
  <2>6. ASSUME NEW g \in next, NEW h \in next, g.status = "resolved", h.version = g.version + 1
        PROVE  h.status = "open"
    <3>1. CASE g \in own /\ h \in own
      BY <2>6, <3>1, <1>2
    <3>2. CASE g \in own /\ h = new
      <4>1. g.version = f.version
        BY <2>1, <2>2, <2>6, <3>2, <1>1, <1>6
      <4> QED
        BY <2>1, <2>6, <3>2, <4>1, <1>2, <1>6
    <3>3. CASE g = new
      <4>1. h.version = f.version + 2
        BY <2>1, <2>6, <3>3, <1>1, <1>6
      <4> QED
        BY <2>1, <2>2, <4>1, <1>1, <1>6
    <3> QED
      BY <2>1, <3>1, <3>2, <3>3
  <2> QED
    BY <2>3, <2>4, <2>5, <2>6 DEF next, n
<1> QED
  BY <1>7, <1>8

LEMMA LoggedExport ==
    ASSUME EventsExported, Logged, objects' = objects, NEW more,
           pending' = QueueHandoffs(EventsOf(finding') \cup more)
    PROVE  EventsExported'
BY DEF EventsExported, Logged, QueueHandoffs

-----------------------------------------------------------------------------
(* The evidence.                                                           *)

Removal(e) == EventOf[e].event_type = "remove"

(* An exposure that is open now was seen in a generation that is not ahead *)
(* of the target.  A removal since then, whether it has arrived or not, is *)
(* one that an event at this address overtook.                             *)
Crossing ==
    \A p \in Ports : exposure[p].state = "open" =>
        /\ exposure[p].generation <= target.generation
        /\ \A e \in Events :
              /\ Removal(e) /\ exposure[p].generation <= EventOf[e].generation
              /\ EventOf[e].generation <= target.generation
              => \E j \in jumps : Overtakes(j, e, exposure[p].address)

Evidence ==
    /\ applied = {} => target.generation = 0
    /\ target.generation = 0 => target.status # "active"
    /\ TargetIsLatest /\ OpenIsOwned /\ Crossing

LEMMA ApplyEvidence ==
    ASSUME Typed, Evidence, NEW e \in Events, ApplyTargetEvent(e)
    PROVE  Evidence'
<1> DEFINE ev == EventOf[e]
<1>1. /\ exposure' = ClosedRows(e) /\ applied' = applied \cup {e} /\ applied \subseteq Events
      /\ jumps' = IF Jumps(e) THEN jumps \cup {[from |-> target.generation, event |-> e]} ELSE jumps
      /\ target' = IF Accepted(e)
                   THEN [generation |-> ev.generation, address |-> ev.address,
                         status |-> IF ev.event_type = "remove" THEN "removed" ELSE "active",
                         observed_at |-> ev.observed_at]
                   ELSE target
  BY ApplyWrites DEF Typed
<1>2. /\ \A d \in Events : EventOf[d].generation \in Nat \ {0}
      /\ \A d \in Events : EventOf[d].event_type \in {"upsert", "remove"}
      /\ target.generation \in Nat /\ target.observed_at \in Nat /\ ev.observed_at \in Nat
  BY EventsTyped DEF TargetEvent, Typed, Target
<1>3. \A p \in Ports : ClosedRows(e)[p].state = "open" =>
         /\ ClosedRows(e)[p] = exposure[p] /\ p \notin ClosedBy(e) /\ exposure[p].state = "open"
         /\ target.status = "active" /\ exposure[p].address = target.address
         /\ exposure[p].address \in Addresses /\ exposure[p].generation \in Nat
  BY ClosedRowsTyped DEF Evidence, OpenIsOwned, Typed, Exposure
<1>4. CASE ~Accepted(e)
  <2>1. target' = target /\ ev.generation <= target.generation /\ applied # {}
    BY <1>1, <1>2, <1>4 DEF Accepted, Evidence
  <2>2. ClosedBy(e) = {}
    BY <1>4 DEF ClosedBy
  <2>3. exposure' = exposure
    BY <1>1, <2>2 DEF ClosedRows, Typed
  <2>4. TargetIsLatest'
    BY <2>1, <1>1 DEF Evidence, TargetIsLatest
  <2>5. OpenIsOwned' /\ Crossing'
    BY <1>1, <2>1, <2>3 DEF Evidence, OpenIsOwned, Crossing
  <2> QED
    BY <2>1, <2>4, <2>5, <1>1 DEF Evidence
<1>5. CASE Accepted(e)
  <2>1. /\ target'.generation = ev.generation /\ target'.address = ev.address
        /\ target'.status = IF ev.event_type = "remove" THEN "removed" ELSE "active"
    BY <1>1, <1>5
  <2>2. target.generation <= ev.generation /\ ev.generation # 0
    BY <1>2, <1>5 DEF Accepted
  <2>3. TargetIsLatest'
    BY <1>1, <1>2, <2>1, <2>2 DEF Evidence, TargetIsLatest
  <2>4. ASSUME NEW p \in Ports, exposure'[p].state = "open"
        PROVE  /\ ev.event_type # "remove" /\ ~GenerationGapReactivation(e)
               /\ exposure[p].address = ev.address
    <3>1. /\ p \notin ClosedBy(e) /\ exposure[p].state = "open" /\ target.status = "active"
          /\ exposure[p].address = target.address /\ exposure[p].address \in Addresses
      BY <1>1, <1>3, <2>4
    <3>2. target.generation # 0
      BY <3>1 DEF Evidence
    <3>3. /\ p \in OpenPorts(Addresses)
          /\ exposure[p].address # ev.address => p \in OpenPorts(Addresses \ {ev.address})
      BY <3>1 DEF OpenPorts
    <3>4. ~(ev.event_type = "remove" \/ GenerationGapReactivation(e))
      BY <1>5, <3>1, <3>2, <3>3 DEF ClosedBy
    <3>5. exposure[p].address = ev.address
      BY <1>5, <3>1, <3>2, <3>3, <3>4 DEF ClosedBy, AddressBindingChanged
    <3> QED
      BY <3>4, <3>5
  <2>5. OpenIsOwned'
    BY <1>1, <1>3, <2>1, <2>4 DEF OpenIsOwned
  <2>6. Crossing'
    <3> SUFFICES ASSUME NEW p \in Ports, exposure'[p].state = "open"
                 PROVE  /\ exposure'[p].generation <= target'.generation
                        /\ \A d \in Events :
                              /\ Removal(d) /\ exposure'[p].generation <= EventOf[d].generation
                              /\ EventOf[d].generation <= target'.generation
                              => \E j \in jumps' : Overtakes(j, d, exposure'[p].address)
      BY DEF Crossing
    <3>1. /\ exposure'[p] = exposure[p] /\ exposure[p].state = "open" /\ target.status = "active"
          /\ exposure[p].generation \in Nat
      BY <1>1, <1>3
    <3>2. exposure[p].generation <= target.generation
      BY <3>1 DEF Evidence, Crossing
    <3>3. exposure'[p].generation <= target'.generation
      BY <1>2, <2>1, <2>2, <3>1, <3>2
    <3>4. ASSUME NEW d \in Events, Removal(d), exposure[p].generation <= EventOf[d].generation,
                 EventOf[d].generation <= ev.generation
          PROVE  \E j \in jumps' : Overtakes(j, d, exposure[p].address)
      <4>1. EventOf[d].generation # ev.generation
        BY <2>4, <3>4, StreamAssumption DEF Removal
      <4>2. CASE EventOf[d].generation <= target.generation
        BY <1>1, <3>1, <3>4, <4>2 DEF Evidence, Crossing
      <4>3. CASE ~(EventOf[d].generation <= target.generation)
        <5>1. ev.generation > target.generation + 1 /\ ev.generation > EventOf[d].generation
          BY <1>2, <3>4, <4>1, <4>3
        <5>2. ev.reason # "new_target"
          BY <2>4, <3>1, <5>1 DEF GenerationGapReactivation
        <5> DEFINE j == [from |-> target.generation, event |-> e]
        <5>3. Jumps(e)
          BY <1>2, <1>5, <2>4, <3>1, <5>1, <5>2 DEF Jumps
        <5>4. j \in jumps'
          BY <1>1, <5>3
        <5>5. Overtakes(j, d, exposure[p].address)
          BY <1>2, <2>4, <4>3, <5>1 DEF Overtakes
        <5> QED
          BY <5>4, <5>5
      <4> QED
        BY <4>2, <4>3
    <3> QED
      BY <2>1, <3>1, <3>3, <3>4
  <2> QED
    BY <1>1, <2>1, <2>2, <2>3, <2>5, <2>6 DEF Evidence
<1> QED
  BY <1>4, <1>5

LEMMA IngestEvidence ==
    ASSUME Typed, Evidence, NEW a \in Attempts, IngestScan(a)
    PROVE  Evidence'
<1>1. exposure' = ScannedRows(a) /\ UNCHANGED <<target, applied, jumps>>
  BY IngestWrites
<1>2. CASE ~StateEligible(a)
  <2>1. exposure' = exposure
    BY <1>1, <1>2 DEF ScannedRows
  <2> QED
    BY <1>1, <2>1 DEF Evidence, TargetIsLatest, OpenIsOwned, Crossing
<1>3. CASE StateEligible(a)
  <2>1. /\ EventOf[ScanOf[a].event].generation = target.generation
        /\ target.status = "active" /\ ScanOf[a].address = target.address
    BY <1>3 DEF StateEligible
  <2>2. \A p \in Ports : exposure'[p].state = "open" =>
           \/ exposure'[p] = exposure[p]
           \/ /\ exposure'[p].address = target.address
              /\ exposure'[p].generation = target.generation
    BY <1>1, <1>3, <2>1, AppliesEvidence DEF ScannedRows
  <2>3. applied # {} /\ target.generation \in Nat /\ applied \subseteq Events
    BY <2>1 DEF Evidence, Typed, Target
  <2>4. PICK d \in applied : /\ EventOf[d].generation = target.generation
                             /\ target.status = IF EventOf[d].event_type = "remove"
                                                THEN "removed" ELSE "active"
    BY <2>3 DEF Evidence, TargetIsLatest
  <2>5. \A e \in Events : Removal(e) => EventOf[e].generation # target.generation
    BY <2>1, <2>3, <2>4, StreamAssumption DEF Removal
  <2>6. OpenIsOwned'
    BY <1>1, <2>1, <2>2 DEF Evidence, OpenIsOwned
  <2>7. \A e \in Events : EventOf[e].generation \in Nat
    BY EventsTyped DEF TargetEvent
  <2>8. Crossing'
    <3> SUFFICES ASSUME NEW p \in Ports, exposure'[p].state = "open"
                 PROVE  /\ exposure'[p].generation <= target.generation
                        /\ \A e \in Events :
                              /\ Removal(e) /\ exposure'[p].generation <= EventOf[e].generation
                              /\ EventOf[e].generation <= target.generation
                              => \E j \in jumps : Overtakes(j, e, exposure'[p].address)
      BY <1>1 DEF Crossing
    <3>1. CASE exposure'[p] = exposure[p]
      BY <3>1 DEF Evidence, Crossing
    <3>2. CASE exposure'[p].generation = target.generation
      BY <2>3, <2>5, <2>7, <3>2
    <3> QED
      BY <2>2, <3>1, <3>2
  <2> QED
    BY <1>1, <2>6, <2>8 DEF Evidence, TargetIsLatest
<1> QED
  BY <1>2, <1>3

-----------------------------------------------------------------------------
(* The inductive invariant, and what every step does to it.                *)

ProjectionInv == Typed /\ Locks /\ Evidence /\ FindingHistory /\ EventsExported

LEMMA InvInitially ==
    ASSUME ProjectionInit
    PROVE  ProjectionInv
<1>1. /\ target = NoTarget /\ applied = {} /\ ingested = {} /\ eligible = {}
      /\ exposure = [p \in Ports |-> NoExposure] /\ rule \in [Rules -> Texts] /\ edits = 0
      /\ finding = [k \in FindingKeys |-> NoFinding] /\ history = {}
      /\ run = [i \in Runs |-> NoRun] /\ closers = [p \in Ports |-> {}]
  BY DEF ProjectionInit
<1>2. rule \in RuleTexts
  BY <1>1 DEF RuleTexts
<1>3. edits \in 0 .. MaxEdits
  BY <1>1, ProjectionAssumption
<1>4. \A p \in Ports : exposure[p].state = "absent"
  BY <1>1, ConstantsTyped
<1>5. \A i \in Runs : run[i] = NoRun
  BY <1>1
<1>6. Typed
  BY <1>1, <1>2, <1>3, <1>5, ConstantsTyped DEF Typed
<1>7. Locks
  BY <1>5, ConstantsTyped DEF Locks
<1>8. target.generation = 0 /\ target.status # "active"
  BY <1>1 DEF NoTarget
<1>9. Evidence
  BY <1>1, <1>4, <1>8 DEF Evidence, TargetIsLatest, OpenIsOwned, Crossing
<1>10. FindingHistory
  <2> SUFFICES ASSUME NEW k \in FindingKeys
               PROVE  LET own == {h \in history : h.key = k} IN
                      /\ {h.version : h \in own} = 1 .. finding[k].version
                      /\ \A g, h \in own : g.version = h.version => g = h
                      /\ \A h \in own : h.version = finding[k].version =>
                            h.status = finding[k].status
                      /\ \A g, h \in own : g.status = "resolved" /\ h.version = g.version + 1 =>
                            h.status = "open"
    BY DEF FindingHistory
  <2>1. {h \in history : h.key = k} = {}
    BY <1>1
  <2>2. finding[k].version = 0
    BY <1>1, ConstantsTyped
  <2>3. 1 .. 0 = {}
    OBVIOUS
  <2> QED
    BY <2>1, <2>2, <2>3
<1>11. EventsExported
  BY <1>1 DEF EventsExported
<1> QED
  BY <1>6, <1>7, <1>9, <1>10, <1>11 DEF ProjectionInv

(* What a step leaves alone when it touches only runs, rules or handoffs.  *)
LEMMA EvidenceKept ==
    ASSUME Evidence, FindingHistory, UNCHANGED evidenceVars, UNCHANGED <<finding, history>>
    PROVE  Evidence' /\ FindingHistory'
<1>1. /\ target' = target /\ applied' = applied /\ exposure' = exposure /\ jumps' = jumps
      /\ finding' = finding /\ history' = history
  BY DEF evidenceVars
<1>2. Evidence'
  BY <1>1 DEF Evidence, TargetIsLatest, OpenIsOwned, Crossing
<1>3. FindingHistory'
  BY <1>1 DEF FindingHistory
<1> QED
  BY <1>2, <1>3

LEMMA StillLocked ==
    ASSUME Typed, Locks, UNCHANGED <<evidenceVars, rule, edits, finding, history, run>>
    PROVE  Typed' /\ Locks'
<1>1. Typed'
  BY DEF Typed, evidenceVars
<1>2. Locks'
  BY DEF Locks
<1> QED
  BY <1>1, <1>2

LEMMA InvPreserved ==
    ASSUME ProjectionInv, [ProjectionNext]_vars
    PROVE  ProjectionInv'
<1> USE DEF ProjectionInv
<1>1. ASSUME NEW e \in Events, ApplyTargetEvent(e)
      PROVE  ProjectionInv'
  <2>1. /\ Typed' /\ Logged /\ run' = Overtaken /\ objects' = objects
        /\ \A i \in Runs : ~run[i].fenced
        /\ pending' = QueueHandoffs(EventsOf(finding'))
    BY <1>1, ApplyWrites
  <2>2. Locks'
    BY <2>1, LocksKept
  <2>3. Evidence'
    BY <1>1, ApplyEvidence
  <2>4. FindingHistory'
    BY <2>1, LoggedHistory
  <2>5. pending' = QueueHandoffs(EventsOf(finding') \cup {})
    BY <2>1
  <2>6. EventsExported'
    BY <2>1, <2>5, LoggedExport
  <2> QED
    BY <2>1, <2>2, <2>3, <2>4, <2>6
<1>2. ASSUME NEW a \in Attempts, IngestScan(a)
      PROVE  ProjectionInv'
  <2>1. /\ Typed' /\ Logged /\ run' = Overtaken /\ objects' = objects
        /\ \A i \in Runs : ~run[i].fenced
        /\ pending' = QueueHandoffs(EventsOf(finding'))
    BY <1>2, IngestWrites
  <2>2. Locks'
    BY <2>1, LocksKept
  <2>3. Evidence'
    BY <1>2, IngestEvidence
  <2>4. FindingHistory'
    BY <2>1, LoggedHistory
  <2>5. pending' = QueueHandoffs(EventsOf(finding') \cup {})
    BY <2>1
  <2>6. EventsExported'
    BY <2>1, <2>5, LoggedExport
  <2> QED
    BY <2>1, <2>2, <2>3, <2>4, <2>6
<1>3. ASSUME Duplicate \/ UNCHANGED vars
      PROVE  ProjectionInv'
  <2>1. /\ UNCHANGED evidenceVars
        /\ UNCHANGED <<rule, edits, finding, history, pending, objects, run>>
    BY <1>3 DEF Duplicate, vars, findingVars
  <2>2. Typed' /\ Locks'
    BY <2>1, StillLocked
  <2>3. Evidence' /\ FindingHistory'
    BY <2>1, EvidenceKept
  <2>4. EventsExported'
    BY <2>1 DEF EventsExported
  <2> QED
    BY <2>2, <2>3, <2>4
<1>4. ASSUME NEW r \in Rules, EditRule(r)
      PROVE  ProjectionInv'
  <2>1. /\ Typed' /\ Locks' /\ UNCHANGED <<evidenceVars, findingVars, objects>>
    BY <1>4, EditStep
  <2>2. Evidence' /\ FindingHistory'
    BY <2>1, EvidenceKept DEF findingVars
  <2>3. EventsExported'
    BY <2>1 DEF EventsExported, findingVars
  <2> QED
    BY <2>1, <2>2, <2>3
<1>5. ASSUME NEW i \in Runs, \/ StartRun(i) \/ ReadRules(i) \/ ReadExposure(i) \/ ReadTarget(i)
                             \/ ReconcilePort(i) \/ RunFails(i)
      PROVE  ProjectionInv'
  <2>1. /\ Typed' /\ Locks' /\ UNCHANGED <<evidenceVars, findingVars, objects>>
    BY <1>5, ReadSteps, ReconcilePortStep
  <2>2. Evidence' /\ FindingHistory'
    BY <2>1, EvidenceKept DEF findingVars
  <2>3. EventsExported'
    BY <2>1 DEF EventsExported, findingVars
  <2> QED
    BY <2>1, <2>2, <2>3
<1>6. ASSUME NEW i \in Runs, CommitRun(i)
      PROVE  ProjectionInv'
  <2>1. /\ Typed' /\ Locks' /\ Logged /\ UNCHANGED evidenceVars /\ objects' = objects
        /\ pending' = QueueHandoffs(EventsOf(finding') \cup Snapshots(i, finding'))
    BY <1>6, CommitStep
  <2>2. FindingHistory'
    BY <2>1, LoggedHistory
  <2>3. EventsExported'
    BY <2>1, LoggedExport
  <2>4. Evidence'
    BY <2>1 DEF evidenceVars, Evidence, TargetIsLatest, OpenIsOwned, Crossing
  <2> QED
    BY <2>1, <2>2, <2>3, <2>4
<1>7. ASSUME NEW h \in pending, PutObject(h) \/ MarkHandoffPublished(h)
      PROVE  ProjectionInv'
  <2>1. /\ UNCHANGED evidenceVars /\ UNCHANGED <<rule, edits, finding, history, run>>
        /\ \A g : (g \in pending \/ g \in objects) => (g \in pending' \/ g \in objects')
    BY <1>7 DEF PutObject, MarkHandoffPublished, findingVars
  <2>2. Typed' /\ Locks'
    BY <2>1, StillLocked
  <2>3. Evidence' /\ FindingHistory'
    BY <2>1, EvidenceKept
  <2>4. EventsExported'
    BY <2>1 DEF EventsExported
  <2> QED
    BY <2>2, <2>3, <2>4
<1> HIDE DEF ProjectionInv
<1> QED
  BY <1>1, <1>2, <1>3, <1>4, <1>5, <1>6, <1>7 DEF ProjectionNext

(* ProjectionInv implies the type invariant of the model.                  *)
LEMMA TypedImplies ==
    ASSUME Typed
    PROVE  ProjectionTypeOK
<1>1. /\ target \in Target /\ applied \subseteq Events /\ ingested \subseteq Attempts
      /\ eligible \subseteq ingested /\ exposure \in [Ports -> Exposure] /\ rule \in RuleTexts
      /\ edits \in 0 .. MaxEdits /\ finding \in [FindingKeys -> Finding]
      /\ closers \in [Ports -> SUBSET applied]
  BY DEF Typed
<1>2. ASSUME NEW i \in Runs
      PROVE  /\ run[i].locked \subseteq Ports /\ run[i].row \in Exposure
             /\ DOMAIN run[i].writes \subseteq FindingKeys
             /\ \A k \in DOMAIN run[i].writes : run[i].writes[k] \in Finding
  <2>1. run[i].locked \in SUBSET Ports /\ run[i].row \in Exposure /\ run[i].writes \in Writes
    BY DEF Typed, Run
  <2> QED
    BY <2>1, WritesTyped
<1> QED
  BY <1>1, <1>2 DEF ProjectionTypeOK, Target, Statuses, RuleTexts

(* An exposure that Crossing allows has an event between it and every      *)
(* removal that has arrived.                                               *)
LEMMA CrossingImplies ==
    ASSUME Typed, Evidence
    PROVE  NoExposureAcrossRemoval
<1> SUFFICES ASSUME NEW p \in Ports, NEW e \in applied, exposure[p].state = "open",
                    EventOf[e].event_type = "remove",
                    ~(exposure[p].generation > EventOf[e].generation)
             PROVE  \E j \in jumps : Overtakes(j, e, exposure[p].address)
  BY DEF NoExposureAcrossRemoval
<1>1. e \in Events /\ exposure[p].generation \in Nat /\ EventOf[e].generation \in Nat
  BY EventsTyped DEF Typed, Exposure, TargetEvent
<1>2. exposure[p].generation <= EventOf[e].generation
  BY <1>1
<1>3. EventOf[e].generation <= target.generation
  BY DEF Evidence, TargetIsLatest
<1> QED
  BY <1>1, <1>2, <1>3 DEF Evidence, Crossing, Removal

LEMMA InvAlways == ProjectionSpec => []ProjectionInv
<1>1. ProjectionInit => ProjectionInv
  BY InvInitially
<1>2. ProjectionInv /\ [ProjectionNext]_vars => ProjectionInv'
  BY InvPreserved
<1> QED
  BY <1>1, <1>2, PTL DEF ProjectionSpec

(* Rows, locks and uncommitted writes keep their types.                    *)
THEOREM ProjectionTyped == ProjectionSpec => []ProjectionTypeOK
<1>1. ProjectionInv => ProjectionTypeOK
  BY TypedImplies DEF ProjectionInv
<1> QED
  BY <1>1, InvAlways, PTL

(* apply_target_event converges on the newest event, in whatever order     *)
(* the events arrive.                                                      *)
THEOREM ProjectionLatest == ProjectionSpec => []TargetIsLatest
<1>1. ProjectionInv => TargetIsLatest
  BY DEF ProjectionInv, Evidence
<1> QED
  BY <1>1, InvAlways, PTL

(* apply_target_event and ingest_scan leave nothing open that the present  *)
(* owner of the target does not have.                                      *)
THEOREM ProjectionOwned == ProjectionSpec => []OpenIsOwned
<1>1. ProjectionInv => OpenIsOwned
  BY DEF ProjectionInv, Evidence
<1> QED
  BY <1>1, InvAlways, PTL

(* apply_target_event lets no evidence outlive a removal unless an event   *)
(* hid the gap from it.                                                    *)
THEOREM ProjectionRemovals == ProjectionSpec => []NoExposureAcrossRemoval
<1>1. ProjectionInv => NoExposureAcrossRemoval
  BY CrossingImplies DEF ProjectionInv
<1> QED
  BY <1>1, InvAlways, PTL

(* The row locks of reconcile_all are enough: concurrent writers never     *)
(* skip or repeat the version of a finding.                                *)
THEOREM ProjectionHistory == ProjectionSpec => []FindingHistory
<1>1. ProjectionInv => FindingHistory
  BY DEF ProjectionInv
<1> QED
  BY <1>1, InvAlways, PTL

(* Every finding event stays queued until its object is in S3.             *)
THEOREM ProjectionExports == ProjectionSpec => []EventsExported
<1>1. ProjectionInv => EventsExported
  BY DEF ProjectionInv
<1> QED
  BY <1>1, InvAlways, PTL

-----------------------------------------------------------------------------
(* A reconciliation run that nothing overtook.                             *)

FirstOf(ports) == CHOOSE p \in ports : \A q \in ports : p <= q

(* The finding of key k after the writes of run r, f being the table.      *)
Left(r, f, k) == IF k \in DOMAIN r.writes THEN r.writes[k] ELSE f[k]

(* What run r has read is still so, and what it has been through agrees    *)
(* with it; it has not written what it is yet to come to.                  *)
OnTrack(r, rows, status, rules, f) ==
    /\ r.pc # "rules" => r.rules = rules
    /\ r.pc \in {"target", "findings"} => r.row = rows[FirstOf(r.todo)]
    /\ r.pc = "findings" => r.status = status
    /\ \A k \in DOMAIN r.writes : k[2] \notin r.todo
    /\ \A k \in FindingKeys : k[2] \notin r.todo =>
          Agrees(k, Left(r, f, k), rows[k[2]], status, rules)

Tracked ==
    \A i \in Runs : InRun(i) /\ ~run[i].overtaken =>
        OnTrack(run[i], exposure, target.status, rule, finding)

(* A commit by anyone else overtakes every run that is under way.          *)
LEMMA OvertakenTracked ==
    ASSUME Typed, NEW S \in SUBSET Runs, \A i \in S : run'[i] = Overtaken[i],
           \A i \in Runs \ S : run'[i].pc = "done"
    PROVE  Tracked'
<1> SUFFICES ASSUME NEW i \in Runs, InRun(i)', ~run'[i].overtaken
             PROVE  FALSE
  BY DEF Tracked
<1>1. i \in S
  BY DEF InRun
<1>2. run'[i].pc = run[i].pc /\ (InRun(i) => run'[i].overtaken)
  BY <1>1, OvertakenTyped DEF Typed
<1> QED
  BY <1>2 DEF InRun

(* A step of run i alone.                                                  *)
LEMMA OneRunTracked ==
    ASSUME Tracked, NEW i \in Runs, \A j \in Runs : j # i => run'[j] = run[j],
           UNCHANGED <<evidenceVars, rule, edits, findingVars, objects>>,
           InRun(i)' /\ ~run'[i].overtaken =>
               OnTrack(run'[i], exposure, target.status, rule, finding)
    PROVE  Tracked'
<1>1. target' = target /\ exposure' = exposure /\ rule' = rule /\ finding' = finding
  BY DEF evidenceVars, findingVars
<1> SUFFICES ASSUME NEW j \in Runs, InRun(j)', ~run'[j].overtaken
             PROVE  OnTrack(run'[j], exposure, target.status, rule, finding)
  BY <1>1 DEF Tracked
<1>2. CASE j = i
  BY <1>2
<1>3. CASE j # i
  BY <1>3 DEF Tracked, InRun
<1> QED
  BY <1>2, <1>3

(* A run starts with nothing to repair outside its list.                   *)
LEMMA StartTracked ==
    ASSUME Typed, Tracked, NEW i \in Runs, StartRun(i)
    PROVE  Tracked'
<1> DEFINE todo == {p \in Ports : \/ exposure[p].state # "absent"
                                  \/ \E r \in Rules : finding[<<r, p>>].status # "absent"}
           r == [NoRun EXCEPT !.pc = "rules", !.todo = todo]
<1>1. run' = [run EXCEPT ![i] = r] /\ UNCHANGED <<evidenceVars, rule, edits, findingVars, objects>>
  BY DEF StartRun, Continue
<1>2. \A k \in FindingKeys : k[2] \notin todo =>
         finding[k].status = "absent" /\ exposure[k[2]].state = "absent"
  BY KeysTyped
<1> HIDE DEF todo
<1>3. r.pc = "rules" /\ r.todo = todo /\ r.writes = NoWrites
  BY DEF NoRun
<1> HIDE DEF r
<1>4. run'[i] = r /\ \A j \in Runs : j # i => run'[j] = run[j]
  BY <1>1 DEF Typed
<1>5. \A k \in FindingKeys : Left(r, finding, k) = finding[k]
  BY <1>3, ConstantsTyped DEF Left
<1>6. \A k \in FindingKeys : k[2] \notin todo =>
         Agrees(k, finding[k], exposure[k[2]], target.status, rule)
  BY <1>2 DEF Agrees, Matched
<1>7. OnTrack(r, exposure, target.status, rule, finding)
  BY <1>3, <1>5, <1>6, ConstantsTyped DEF OnTrack
<1> QED
  BY <1>1, <1>4, <1>7, OneRunTracked

(* The record r of a run that has read one more thing.                     *)
LEMMA ReadTracked ==
    ASSUME Typed, Tracked, NEW i \in Runs, NEW r, InRun(i), run' = [run EXCEPT ![i] = r],
           UNCHANGED <<evidenceVars, rule, edits, findingVars, objects>>,
           r.todo = run[i].todo, r.writes = run[i].writes, r.overtaken = run[i].overtaken,
           r.pc # "rules", r.rules = run[i].rules \/ r.rules = rule,
           run[i].pc = "rules" => r.rules = rule,
           r.pc \in {"target", "findings"} =>
               r.row = exposure[FirstOf(r.todo)]
               \/ (run[i].pc \in {"target", "findings"} /\ r.row = run[i].row),
           r.pc = "findings" => r.status = target.status
    PROVE  Tracked'
<1>1. run'[i] = r /\ \A j \in Runs : j # i => run'[j] = run[j]
  BY DEF Typed
<1>2. ASSUME ~r.overtaken
      PROVE  OnTrack(r, exposure, target.status, rule, finding)
  <2>1. OnTrack(run[i], exposure, target.status, rule, finding)
    BY <1>2 DEF Tracked
  <2>2. \A k \in FindingKeys : Left(r, finding, k) = Left(run[i], finding, k)
    BY DEF Left
  <2> QED
    BY <2>1, <2>2 DEF OnTrack
<1> QED
  BY <1>1, <1>2, OneRunTracked

LEMMA ReadStepsTracked ==
    ASSUME Typed, Tracked, NEW i \in Runs,
           ReadRules(i) \/ ReadExposure(i) \/ ReadTarget(i) \/ RunFails(i)
    PROVE  Tracked'
<1>1. run[i] \in Run /\ run \in [Runs -> Run] /\ NextPort(i) = FirstOf(run[i].todo)
  BY DEF Typed, NextPort, FirstOf
<1>2. CASE ReadRules(i)
  <2> DEFINE r == [run[i] EXCEPT !.pc = "exposure", !.rules = rule]
  <2>1. /\ run' = [run EXCEPT ![i] = r] /\ run[i].pc = "rules"
        /\ UNCHANGED <<evidenceVars, rule, edits, findingVars, objects>>
    BY <1>2 DEF ReadRules, Continue
  <2>2. /\ r.pc = "exposure" /\ r.rules = rule /\ r.todo = run[i].todo
        /\ r.writes = run[i].writes /\ r.overtaken = run[i].overtaken
    BY <1>1 DEF Run
  <2> HIDE DEF r
  <2>3. InRun(i)
    BY <2>1 DEF InRun
  <2> QED
    BY <2>1, <2>2, <2>3, ReadTracked
<1>3. CASE ReadExposure(i)
  <2> DEFINE r == [run[i] EXCEPT !.pc = "target", !.row = exposure[NextPort(i)]]
  <2>1. /\ run' = [run EXCEPT ![i] = r] /\ run[i].pc = "exposure"
        /\ UNCHANGED <<evidenceVars, rule, edits, findingVars, objects>>
    BY <1>3 DEF ReadExposure, Continue
  <2>2. /\ r.pc = "target" /\ r.rules = run[i].rules /\ r.todo = run[i].todo
        /\ r.writes = run[i].writes /\ r.overtaken = run[i].overtaken
        /\ r.row = exposure[FirstOf(run[i].todo)]
    BY <1>1 DEF Run
  <2> HIDE DEF r
  <2>3. InRun(i)
    BY <2>1 DEF InRun
  <2> QED
    BY <2>1, <2>2, <2>3, ReadTracked
<1>4. CASE ReadTarget(i)
  <2> DEFINE r == [run[i] EXCEPT !.pc = "findings", !.status = target.status]
  <2>1. /\ run' = [run EXCEPT ![i] = r] /\ run[i].pc = "target"
        /\ UNCHANGED <<evidenceVars, rule, edits, findingVars, objects>>
    BY <1>4 DEF ReadTarget, Continue
  <2>2. /\ r.pc = "findings" /\ r.rules = run[i].rules /\ r.todo = run[i].todo
        /\ r.writes = run[i].writes /\ r.overtaken = run[i].overtaken
        /\ r.row = run[i].row /\ r.status = target.status
    BY <1>1 DEF Run
  <2> HIDE DEF r
  <2>3. InRun(i)
    BY <2>1 DEF InRun
  <2> QED
    BY <2>1, <2>2, <2>3, ReadTracked
<1>5. CASE RunFails(i)
  <2>1. run' = [run EXCEPT ![i] = NoRun] /\ UNCHANGED <<evidenceVars, rule, edits, findingVars, objects>>
    BY <1>5 DEF RunFails, Continue
  <2>2. run'[i] = NoRun /\ \A j \in Runs : j # i => run'[j] = run[j]
    BY <1>1, <2>1
  <2>3. ~InRun(i)'
    BY <2>2, ConstantsTyped DEF InRun
  <2> QED
    BY <2>1, <2>2, <2>3, OneRunTracked
<1> QED
  BY <1>2, <1>3, <1>4, <1>5

(* Reconciling the next port makes its findings agree.                     *)
LEMMA PortTracked ==
    ASSUME Typed, Locks, Tracked, NEW i \in Runs, ReconcilePort(i)
    PROVE  Tracked'
<1> DEFINE p == NextPort(i)
<1>1. /\ UNCHANGED <<evidenceVars, rule, edits, findingVars, objects>>
      /\ \A j \in Runs : j # i => run'[j] = run[j]
      /\ run'[i].pc = "exposure" /\ run'[i].todo = run[i].todo \ {p}
      /\ run'[i].rules = run[i].rules /\ run'[i].overtaken = run[i].overtaken
      /\ run'[i].writes = WritesAfter(i)
  BY ReconcilePortStep
<1>2. run[i].pc = "findings" /\ InRun(i)
  BY DEF ReconcilePort, InRun
<1>3. p = FirstOf(run[i].todo)
  BY DEF NextPort, FirstOf
<1>4. /\ DOMAIN WritesAfter(i) = DOMAIN run[i].writes \cup MovedIn(i)
      /\ \A k \in MovedIn(i) : WritesAfter(i)[k] = NewIn(i, k)
      /\ \A k \in DOMAIN run[i].writes \ MovedIn(i) : WritesAfter(i)[k] = run[i].writes[k]
  BY WritesAfterTyped
<1>5. p \in run[i].todo
  BY <1>2, FirstOfTodo DEF Typed
<1>6. ASSUME ~run[i].overtaken
      PROVE  OnTrack(run'[i], exposure, target.status, rule, finding)
  <2>1. OnTrack(run[i], exposure, target.status, rule, finding)
    BY <1>2, <1>6 DEF Tracked
  <2>2. run[i].rules = rule /\ run[i].row = exposure[p] /\ run[i].status = target.status
    BY <1>2, <1>3, <2>1 DEF OnTrack
  <2>3. \A k \in DOMAIN run[i].writes : k[2] \notin run[i].todo
    BY <2>1 DEF OnTrack
  <2>4. \A k \in DOMAIN run'[i].writes : k[2] \notin run'[i].todo
    BY <1>1, <1>4, <2>3 DEF MovedIn
  <2>5. ASSUME NEW k \in FindingKeys, k[2] \notin run'[i].todo
        PROVE  Agrees(k, Left(run'[i], finding, k), exposure[k[2]], target.status, rule)
    <3>1. CASE k[2] = p
      <4>1. Agrees(k, NewIn(i, k), exposure[p], target.status, rule)
        BY <2>2, NewInTyped
      <4>2. k \notin DOMAIN run[i].writes
        BY <1>5, <2>3, <3>1
      <4>3. Left(run'[i], finding, k) = NewIn(i, k)
        BY <1>1, <1>4, <3>1, <4>2 DEF Left, MovedIn
      <4> QED
        BY <3>1, <4>1, <4>3
    <3>2. CASE k[2] # p
      <4>1. k[2] \notin run[i].todo /\ k \notin MovedIn(i)
        BY <1>1, <2>5, <3>2 DEF MovedIn
      <4>2. Left(run'[i], finding, k) = Left(run[i], finding, k)
        BY <1>1, <1>4, <4>1 DEF Left
      <4> QED
        BY <2>1, <4>1, <4>2 DEF OnTrack
    <3> QED
      BY <3>1, <3>2
  <2> QED
    BY <1>1, <2>2, <2>4, <2>5 DEF OnTrack
<1> QED
  BY <1>1, <1>6, OneRunTracked

LEMMA TrackedPreserved ==
    ASSUME ProjectionInv, Tracked, [ProjectionNext]_vars
    PROVE  Tracked'
<1>0. Typed /\ Locks
  BY DEF ProjectionInv
<1>1. ASSUME NEW e \in Events, ApplyTargetEvent(e)
      PROVE  Tracked'
  BY <1>0, <1>1, ApplyWrites, OvertakenTracked
<1>2. ASSUME NEW a \in Attempts, IngestScan(a)
      PROVE  Tracked'
  BY <1>0, <1>2, IngestWrites, OvertakenTracked
<1>3. ASSUME NEW r \in Rules, EditRule(r)
      PROVE  Tracked'
  BY <1>0, <1>3, EditStep, OvertakenTracked
<1>4. ASSUME NEW i \in Runs, \/ StartRun(i) \/ ReadRules(i) \/ ReadExposure(i) \/ ReadTarget(i)
                             \/ ReconcilePort(i) \/ RunFails(i)
      PROVE  Tracked'
  BY <1>0, <1>4, StartTracked, ReadStepsTracked, PortTracked
<1>5. ASSUME NEW i \in Runs, CommitRun(i)
      PROVE  Tracked'
  <2>1. (\A j \in Runs : j # i => run'[j] = Overtaken[j]) /\ run'[i].pc = "done"
    BY <1>0, <1>5, CommitStep
  <2> DEFINE S == Runs \ {i}
  <2>2. S \in SUBSET Runs /\ (\A j \in S : run'[j] = Overtaken[j])
        /\ \A j \in Runs \ S : run'[j].pc = "done"
    BY <2>1
  <2> HIDE DEF S
  <2> QED
    BY <1>0, <2>2, OvertakenTracked
<1>6. ASSUME UNCHANGED <<evidenceVars, rule, edits, finding, history, run>>
      PROVE  Tracked'
  BY <1>6 DEF Tracked, InRun, evidenceVars
<1>7. Duplicate \/ UNCHANGED vars => UNCHANGED <<evidenceVars, rule, edits, finding, history, run>>
  BY DEF Duplicate, vars, findingVars
<1>8. ASSUME NEW h \in pending, PutObject(h) \/ MarkHandoffPublished(h)
      PROVE  UNCHANGED <<evidenceVars, rule, edits, finding, history, run>>
  BY <1>8 DEF PutObject, MarkHandoffPublished, findingVars
<1> QED
  BY <1>1, <1>2, <1>3, <1>4, <1>5, <1>6, <1>7, <1>8 DEF ProjectionNext

(* The commit of a run that is on track.                                   *)
LEMMA CommitAgrees ==
    ASSUME Typed, Locks, Tracked, NEW i \in Runs, CommitRun(i), ~run[i].overtaken
    PROVE  FindingsAgree'
<1>1. /\ finding' = Committed(i) /\ target' = target /\ exposure' = exposure /\ rule' = rule
  BY CommitStep DEF evidenceVars
<1>2. run[i].todo = {} /\ InRun(i)
  BY DEF CommitRun, InRun
<1>3. OnTrack(run[i], exposure, target.status, rule, finding)
  BY <1>2 DEF Tracked
<1>4. ASSUME NEW k \in FindingKeys
      PROVE  Agrees(k, finding'[k], exposure'[k[2]], target'.status, rule')
  <2>1. finding'[k] = Left(run[i], finding, k)
    BY <1>1 DEF Committed, Left
  <2> QED
    BY <1>1, <1>2, <1>3, <2>1 DEF OnTrack
<1> QED
  BY <1>4 DEF FindingsAgree, Agrees

(* Only its commit ends a run.                                             *)
LEMMA DoneByCommit ==
    ASSUME Typed, Locks, [ProjectionNext]_vars, NEW i \in Runs,
           run'[i].pc = "done", run[i].pc # "done"
    PROVE  CommitRun(i)
<1>0. \A j \in Runs : Overtaken[j].pc = run[j].pc
  BY OvertakenTyped DEF Typed
<1>1. ASSUME NEW e \in Events, ApplyTargetEvent(e)
      PROVE  FALSE
  BY <1>0, <1>1, ApplyWrites
<1>2. ASSUME NEW a \in Attempts, IngestScan(a)
      PROVE  FALSE
  BY <1>0, <1>2, IngestWrites
<1>3. ASSUME NEW r \in Rules, EditRule(r)
      PROVE  FALSE
  BY <1>0, <1>3, EditStep
<1>4. ASSUME NEW j \in Runs, \/ StartRun(j) \/ ReadRules(j) \/ ReadExposure(j) \/ ReadTarget(j)
                             \/ RunFails(j)
      PROVE  FALSE
  BY <1>4, ReadSteps
<1>5. ASSUME NEW j \in Runs, ReconcilePort(j)
      PROVE  FALSE
  BY <1>5, ReconcilePortStep
<1>6. ASSUME NEW j \in Runs, CommitRun(j), j # i
      PROVE  FALSE
  BY <1>0, <1>6, CommitStep
<1>7. ASSUME run' = run
      PROVE  FALSE
  BY <1>7
<1>8. Duplicate \/ UNCHANGED vars => run' = run
  BY DEF Duplicate, vars
<1>9. ASSUME NEW h \in pending, PutObject(h) \/ MarkHandoffPublished(h)
      PROVE  run' = run
  BY <1>9 DEF PutObject, MarkHandoffPublished
<1> QED
  BY <1>1, <1>2, <1>3, <1>4, <1>5, <1>6, <1>7, <1>8, <1>9 DEF ProjectionNext

(* reconcile_all repairs every finding unless another transaction          *)
(* overtakes it, although it locks neither the exposures nor the target.   *)
THEOREM ProjectionRepairs == ProjectionSpec => RunRepairs
<1>1. ProjectionInit => ProjectionInv /\ Tracked
  <2>1. ProjectionInit => ProjectionInv
    BY InvInitially
  <2>2. ASSUME ProjectionInit
        PROVE  Tracked
    <3>1. \A i \in Runs : run[i].pc = "idle"
      BY <2>2, ConstantsTyped DEF ProjectionInit
    <3> QED
      BY <3>1 DEF Tracked, InRun
  <2> QED
    BY <2>1, <2>2
<1>2. (ProjectionInv /\ Tracked) /\ [ProjectionNext]_vars => (ProjectionInv /\ Tracked)'
  BY InvPreserved, TrackedPreserved
<1>3. (ProjectionInv /\ Tracked) /\ [ProjectionNext]_vars =>
         [\A i \in Runs : run'[i].pc = "done" /\ run[i].pc # "done" /\ ~run[i].overtaken =>
             FindingsAgree']_vars
  BY DoneByCommit, CommitAgrees DEF ProjectionInv
<1> QED
  BY <1>1, <1>2, <1>3, PTL DEF ProjectionSpec, RunRepairs

-----------------------------------------------------------------------------
(* The order of results.                                                   *)

Gen(a) == EventOf[ScanOf[a].event].generation

(* Among the attempts S of generation g that cover port p, a is the last.  *)
LastOf(a, p, g, S) ==
    /\ a \in S /\ Gen(a) = g /\ p \in ScanOf[a].covers
    /\ \A b \in S : Gen(b) = g /\ p \in ScanOf[b].covers =>
          ~Later(ScanOf[b].completed_at, b, ScanOf[a].completed_at, a)

(* The row says of port p what attempt a saw.                              *)
RowShows(row, a, p) ==
    IF ScanOf[a].sees[p] = "closed" THEN row.state # "open"
    ELSE row.state = "open" /\ row.identity = ScanOf[a].sees[p]

(* Outdated, of the attempts S and the events C that closed port p.        *)
Behind(a, p, S, C) ==
    \/ \E b \in S : /\ Gen(b) < Gen(a) /\ p \in ScanOf[b].covers
                    /\ ScanOf[b].completed_at >= ScanOf[a].completed_at
    \/ \E r \in C : /\ EventOf[r].generation <= Gen(a)
                    /\ EventOf[r].occurred_at >= ScanOf[a].completed_at

(* Where the time of a row comes from: the attempt that wrote it, a scan   *)
(* of an older generation, or an event that closed the port.               *)
Sourced(row, p, S, C) ==
    \/ /\ row.attempt \in S /\ Gen(row.attempt) <= row.generation
       /\ p \in ScanOf[row.attempt].covers
       /\ ScanOf[row.attempt].completed_at = row.confirmed_at
    \/ \E b \in S : /\ Gen(b) < row.generation /\ p \in ScanOf[b].covers
                    /\ ScanOf[b].completed_at = row.confirmed_at
    \/ \E r \in C : /\ EventOf[r].generation <= row.generation
                    /\ EventOf[r].occurred_at = row.confirmed_at

Dated(row, p, g, S, C) ==
    /\ row.generation <= g
    /\ row.state = "absent" => row.generation = 0 /\ row.confirmed_at = 0
    /\ row.state # "absent" => Sourced(row, p, S, C)

Ordered ==
    /\ \A a \in eligible : Gen(a) <= target.generation
    /\ \A p \in Ports : Dated(exposure[p], p, target.generation, eligible, closers[p])
    /\ target.status = "active" =>
          \A p \in Ports, a \in eligible : LastOf(a, p, target.generation, eligible) =>
             RowShows(exposure[p], a, p) \/ Behind(a, p, eligible, closers[p])

LEMMA GenTyped ==
    ASSUME NEW a \in Attempts
    PROVE  /\ Gen(a) \in Nat \ {0} /\ ScanOf[a].completed_at \in Nat /\ a \in Nat \ {0}
BY ScansTyped, ProjectionAssumption DEF Gen, ScanEnvelope, TargetEvent

(* Of two attempts one is later.                                           *)
LEMMA LaterTotal ==
    ASSUME NEW a \in Attempts, NEW b \in Attempts,
           ~Later(ScanOf[a].completed_at, a, ScanOf[b].completed_at, b),
           ~Later(ScanOf[b].completed_at, b, ScanOf[a].completed_at, a)
    PROVE  a = b
BY GenTyped DEF Later

(* What is known of a port only grows.                                     *)
LEMMA DatedGrows ==
    ASSUME NEW row, NEW p, NEW g, NEW S, NEW T, S \subseteq T, NEW C, NEW D, C \subseteq D
    PROVE  /\ Dated(row, p, g, S, C) => Dated(row, p, g, T, D)
           /\ \A a : Behind(a, p, S, C) => Behind(a, p, T, D)
BY DEF Dated, Sourced, Behind

LEMMA OrderedInitially ==
    ASSUME ProjectionInit
    PROVE  Ordered
<1>1. /\ eligible = {} /\ target.generation = 0
      /\ \A p \in Ports : exposure[p] = NoExposure
  BY ConstantsTyped DEF ProjectionInit
<1>2. NoExposure.generation = 0 /\ NoExposure.confirmed_at = 0 /\ NoExposure.state = "absent"
  BY DEF NoExposure
<1>3. ASSUME NEW p \in Ports
      PROVE  Dated(exposure[p], p, target.generation, eligible, closers[p])
  <2> DEFINE row == exposure[p]
  <2>1. row.generation = 0 /\ row.confirmed_at = 0 /\ row.state = "absent"
    BY <1>1, <1>2
  <2> QED
    BY <1>1, <2>1 DEF Dated
<1> QED
  BY <1>1, <1>3 DEF Ordered

(* The row of a port that event e of a new generation closes or leaves: a  *)
(* later time is that of e, which is among those that closed the port.     *)
LEMMA ClosedDated ==
    ASSUME NEW e \in Events, NEW row \in Exposure, NEW p, NEW g \in Nat, NEW S \in SUBSET Attempts,
           NEW D \in SUBSET Events, NEW C \in SUBSET D,
           CloseForEvent(row, e) # row => e \in D,
           Dated(row, p, g, S, C), EventOf[e].generation > g
    PROVE  Dated(CloseForEvent(row, e), p, EventOf[e].generation, S, D)
<1> DEFINE n == EventOf[e].generation
           at == EventOf[e].occurred_at
<1>1. n \in Nat /\ at \in Nat /\ row.generation \in Nat /\ row.confirmed_at \in Nat
  BY EventsTyped DEF TargetEvent, Exposure
<1>2. row.generation < n /\ row.generation <= n
  BY <1>1 DEF Dated
<1>3. Dated(row, p, g, S, D)
  BY DatedGrows
<1>4. CASE row.state # "open"
  BY <1>2, <1>3, <1>4 DEF CloseForEvent, Dated
<1>5. CASE row.state = "open"
  <2> DEFINE r == CloseForEvent(row, e)
  <2>1. /\ r.state = "closed" /\ r.confirmed_at = MaxOf(row.confirmed_at, at)
        /\ r.generation = MaxOf(row.generation, n) /\ r.attempt = row.attempt
    BY <1>5 DEF CloseForEvent, Exposure
  <2> HIDE DEF r
  <2>2. r.generation = n /\ n <= n
    BY <1>1, <1>2, <2>1 DEF MaxOf
  <2>3. e \in D
    BY <1>5, <2>1 DEF r
  <2>4. Sourced(r, p, S, D)
    <3>1. CASE r.confirmed_at = at
      BY <2>2, <2>3, <3>1 DEF Sourced
    <3>2. CASE r.confirmed_at = row.confirmed_at
      <4>1. Sourced(row, p, S, D)
        BY <1>3, <1>5 DEF Dated
      <4>2. CASE /\ row.attempt \in S /\ Gen(row.attempt) <= row.generation
                 /\ p \in ScanOf[row.attempt].covers
                 /\ ScanOf[row.attempt].completed_at = row.confirmed_at
        <5>1. Gen(row.attempt) \in Nat
          BY <4>2, GenTyped
        <5>2. Gen(r.attempt) <= r.generation
          BY <1>1, <1>2, <2>1, <2>2, <4>2, <5>1
        <5> QED
          BY <2>1, <3>2, <4>2, <5>2 DEF Sourced
      <4>3. ASSUME NEW b \in S, Gen(b) < row.generation, p \in ScanOf[b].covers,
                   ScanOf[b].completed_at = row.confirmed_at
            PROVE  Sourced(r, p, S, D)
        <5>1. Gen(b) < r.generation
          BY <1>1, <1>2, <2>2, <4>3, GenTyped
        <5> QED
          BY <3>2, <4>3, <5>1 DEF Sourced
      <4>4. ASSUME NEW d \in D, EventOf[d].generation <= row.generation,
                   EventOf[d].occurred_at = row.confirmed_at
            PROVE  Sourced(r, p, S, D)
        <5>1. EventOf[d].generation <= r.generation
          BY <1>1, <1>2, <2>2, <4>4, EventsTyped DEF TargetEvent
        <5> QED
          BY <3>2, <4>4, <5>1 DEF Sourced
      <4> QED
        BY <4>1, <4>2, <4>3, <4>4 DEF Sourced
    <3> QED
      BY <2>1, <3>1, <3>2 DEF MaxOf
  <2> QED
    BY <2>1, <2>2, <2>4 DEF Dated, r
<1> QED
  BY <1>4, <1>5

(* A target event dates the rows it closes and leaves the others alone.    *)
LEMMA ApplyOrdered ==
    ASSUME Typed, Evidence, Ordered, NEW e \in Events, ApplyTargetEvent(e)
    PROVE  Ordered'
<1> DEFINE g == target.generation
           n == EventOf[e].generation
<1>1. /\ exposure' = ClosedRows(e) /\ eligible' = eligible /\ closers' = ClosedWith(e)
  BY ApplyWrites
<1>2. target' = IF Accepted(e)
                THEN [generation |-> n, address |-> EventOf[e].address,
                      status |-> IF EventOf[e].event_type = "remove" THEN "removed" ELSE "active",
                      observed_at |-> EventOf[e].observed_at]
                ELSE target
  BY ApplyWrites
<1>3. /\ n \in Nat \ {0} /\ g \in Nat /\ EventOf[e].observed_at \in Nat
      /\ target.observed_at \in Nat
  BY EventsTyped DEF Typed, Target, TargetEvent
<1>4. eligible \in SUBSET Attempts /\ \A p \in Ports : exposure[p] \in Exposure
  BY DEF Typed
<1>5. \A p \in Ports :
         /\ exposure'[p] = IF p \in ClosedBy(e) THEN CloseForEvent(exposure[p], e) ELSE exposure[p]
         /\ closers'[p] = IF exposure'[p] # exposure[p] THEN closers[p] \cup {e} ELSE closers[p]
  BY <1>1 DEF ClosedRows, ClosedWith
<1>6. ASSUME target'.generation = g, target'.status = target.status,
             \A p \in Ports : exposure'[p] = exposure[p]
      PROVE  Ordered'
  <2>1. \A p \in Ports : closers'[p] = closers[p]
    BY <1>5, <1>6
  <2> QED
    BY <1>1, <1>6, <2>1 DEF Ordered
<1>7. CASE ~Accepted(e)
  <2>1. ClosedBy(e) = {}
    BY <1>7 DEF ClosedBy
  <2> QED
    BY <1>2, <1>5, <1>6, <1>7, <2>1
<1>8. CASE Accepted(e) /\ n > g
  <2>1. target'.generation = n
    BY <1>2, <1>8
  <2>2. ASSUME NEW p \in Ports
        PROVE  Dated(exposure'[p], p, n, eligible, closers'[p])
    <3>1. Dated(exposure[p], p, g, eligible, closers[p])
      BY DEF Ordered
    <3>2. /\ closers'[p] \in SUBSET Events /\ closers[p] \in SUBSET closers'[p]
          /\ exposure'[p] # exposure[p] => e \in closers'[p]
      BY <1>5 DEF Typed
    <3>3. CASE p \in ClosedBy(e)
      <4>1. exposure'[p] = CloseForEvent(exposure[p], e)
        BY <1>5, <3>3
      <4>2. Dated(CloseForEvent(exposure[p], e), p, n, eligible, closers'[p])
        BY <1>3, <1>4, <1>8, <3>1, <3>2, <4>1, ClosedDated
      <4> QED
        BY <4>1, <4>2
    <3>4. CASE p \notin ClosedBy(e)
      <4>1. exposure'[p] = exposure[p] /\ exposure[p].generation \in Nat
        BY <1>4, <1>5, <3>4 DEF Exposure
      <4>2. exposure[p].generation <= n
        BY <1>3, <1>8, <3>1, <4>1 DEF Dated
      <4>3. Dated(exposure[p], p, g, eligible, closers'[p])
        BY <3>1, <3>2, DatedGrows
      <4> QED
        BY <4>1, <4>2, <4>3 DEF Dated
    <3> QED
      BY <3>3, <3>4
  <2>3. \A a \in eligible : Gen(a) \in Nat /\ Gen(a) <= g
    BY GenTyped DEF Typed, Ordered
  <2>4. \A a \in eligible : Gen(a) <= n /\ Gen(a) # n
    BY <1>3, <1>8, <2>3
  <2> QED
    BY <1>1, <2>1, <2>2, <2>4 DEF Ordered, LastOf
<1>9. CASE Accepted(e) /\ n = g
  <2>1. applied # {}
    BY <1>3, <1>9 DEF Evidence
  <2>2. PICK d \in applied :
           /\ EventOf[d].generation = g /\ EventOf[d].address = target.address
           /\ target.status = IF EventOf[d].event_type = "remove" THEN "removed" ELSE "active"
    BY <2>1 DEF Evidence, TargetIsLatest
  <2>3. EventOf[e].event_type = EventOf[d].event_type /\ EventOf[e].address = target.address
    BY <1>9, <2>2, StreamAssumption DEF Typed
  <2>4. target'.generation = g /\ target'.status = target.status
    BY <1>2, <1>9, <2>2, <2>3
  <2>5. CASE EventOf[e].event_type = "remove"
    <3>1. \A p \in Ports : exposure[p].state # "open"
      BY <2>2, <2>3, <2>5 DEF Evidence, OpenIsOwned
    <3> QED
      BY <1>5, <1>6, <2>4, <3>1 DEF CloseForEvent
  <2>6. CASE EventOf[e].event_type # "remove"
    <3>1. target.status = "active"
      BY <2>2, <2>3, <2>6
    <3>2. ~(n > g + 1)
      BY <1>3, <1>9
    <3>3. ClosedBy(e) = {}
      BY <2>3, <2>6, <3>1, <3>2 DEF ClosedBy, GenerationGapReactivation, AddressBindingChanged
    <3> QED
      BY <1>5, <1>6, <2>4, <3>3
  <2> QED
    BY <2>5, <2>6
<1>10. Accepted(e) => n > g \/ n = g
  BY DEF Accepted
<1> QED
  BY <1>7, <1>8, <1>9, <1>10

(* An attempt that is the last of its generation on port p, and so not in  *)
(* S yet, is newer than the row, or something before it has a later time.  *)
LEMMA NewerOrBehind ==
    ASSUME NEW a \in Attempts, NEW p \in Ports, NEW row \in Exposure, NEW S \in SUBSET Attempts,
           NEW C, a \notin S, Dated(row, p, Gen(a), S, C), ~ScanEvidenceIsNewer(a, row),
           \A b \in S : Gen(b) = Gen(a) /\ p \in ScanOf[b].covers =>
              ~Later(ScanOf[b].completed_at, b, ScanOf[a].completed_at, a)
    PROVE  Behind(a, p, S, C)
<1> DEFINE at == ScanOf[a].completed_at
<1>1. /\ Gen(a) \in Nat \ {0} /\ at \in Nat /\ a \in Nat
      /\ row.generation \in Nat /\ row.confirmed_at \in Nat /\ row.generation <= Gen(a)
  BY GenTyped DEF Exposure, Dated
<1>2. row.generation = Gen(a) /\ ~Later(at, a, row.confirmed_at, row.attempt)
  BY <1>1 DEF ScanEvidenceIsNewer, Gen
<1>3. row.confirmed_at >= at
  BY <1>1, <1>2 DEF Later
<1>4. Sourced(row, p, S, C)
  BY <1>1, <1>2 DEF Dated
<1>5. CASE /\ row.attempt \in S /\ Gen(row.attempt) <= row.generation
           /\ p \in ScanOf[row.attempt].covers
           /\ ScanOf[row.attempt].completed_at = row.confirmed_at
  <2>1. row.attempt \in Attempts /\ row.attempt # a /\ Gen(row.attempt) \in Nat
    BY <1>5, GenTyped
  <2>2. CASE Gen(row.attempt) = Gen(a)
    <3>1. ~Later(ScanOf[row.attempt].completed_at, row.attempt, at, a)
      BY <1>5, <2>2
    <3>2. row.attempt = a
      BY <1>2, <1>5, <2>1, <3>1, LaterTotal
    <3> QED
      BY <2>1, <3>2
  <2>3. CASE Gen(row.attempt) < Gen(a)
    BY <1>3, <1>5, <2>3 DEF Behind
  <2> QED
    BY <1>1, <1>2, <1>5, <2>1, <2>2, <2>3
<1>6. ASSUME NEW b \in S, Gen(b) < row.generation, p \in ScanOf[b].covers,
             ScanOf[b].completed_at = row.confirmed_at
      PROVE  Behind(a, p, S, C)
  BY <1>2, <1>3, <1>6 DEF Behind
<1>7. ASSUME NEW r \in C, EventOf[r].generation <= row.generation,
             EventOf[r].occurred_at = row.confirmed_at
      PROVE  Behind(a, p, S, C)
  BY <1>2, <1>3, <1>7 DEF Behind
<1> QED
  BY <1>4, <1>5, <1>6, <1>7 DEF Sourced

(* The row r that attempt a writes over an older one.                      *)
LEMMA DecidesDated ==
    ASSUME NEW a \in Attempts, NEW p \in Ports, NEW row \in Exposure, NEW r \in Exposure,
           NEW S \in SUBSET Attempts, NEW C \in SUBSET Events, a \in S, p \in ScanOf[a].covers,
           Dated(row, p, Gen(a), S, C), ScanEvidenceIsNewer(a, row),
           r.state # "absent", r.generation = Gen(a), r.attempt = a,
           r.confirmed_at = MaxOf(row.confirmed_at, ScanOf[a].completed_at)
    PROVE  Dated(r, p, Gen(a), S, C)
<1> DEFINE at == ScanOf[a].completed_at
<1>1. /\ Gen(a) \in Nat \ {0} /\ at \in Nat /\ a \in Nat /\ Gen(a) <= Gen(a)
      /\ row.generation \in Nat /\ row.confirmed_at \in Nat /\ row.generation <= Gen(a)
  BY GenTyped DEF Exposure, Dated
<1>2. CASE r.confirmed_at = at
  BY <1>1, <1>2 DEF Dated, Sourced
<1>3. CASE r.confirmed_at # at
  <2>1. r.confirmed_at = row.confirmed_at /\ row.confirmed_at > at
    BY <1>1, <1>3 DEF MaxOf
  <2>2. row.generation < Gen(a)
    BY <1>1, <2>1 DEF ScanEvidenceIsNewer, Later, Gen
  <2>3. row.state # "absent"
    BY <1>1, <2>1 DEF Dated
  <2>4. Sourced(row, p, S, C)
    BY <2>3 DEF Dated
  <2>5. ASSUME NEW b \in S, Gen(b) <= row.generation, p \in ScanOf[b].covers,
               ScanOf[b].completed_at = row.confirmed_at
        PROVE  Sourced(r, p, S, C)
    <3>1. Gen(b) < r.generation
      BY <1>1, <2>2, <2>5, GenTyped
    <3> QED
      BY <2>1, <2>5, <3>1 DEF Sourced
  <2>6. ASSUME NEW b \in S, Gen(b) < row.generation
        PROVE  Gen(b) <= row.generation
    <3>1. Gen(b) \in Nat
      BY GenTyped
    <3> QED
      BY <1>1, <2>6, <3>1
  <2>7. ASSUME NEW d \in C, EventOf[d].generation <= row.generation,
               EventOf[d].occurred_at = row.confirmed_at
        PROVE  Sourced(r, p, S, C)
    <3>1. EventOf[d].generation <= r.generation
      BY <1>1, <2>2, <2>7, EventsTyped DEF TargetEvent
    <3> QED
      BY <2>1, <2>7, <3>1 DEF Sourced
  <2>8. Sourced(r, p, S, C)
    BY <2>4, <2>5, <2>6, <2>7 DEF Sourced
  <2> QED
    BY <1>1, <2>8 DEF Dated
<1> QED
  BY <1>2, <1>3

(* An eligible result decides the ports it is the last to cover, unless it *)
(* is behind, and no others.                                               *)
LEMMA IngestOrdered ==
    ASSUME Typed, Ordered, NEW a \in Attempts, IngestScan(a)
    PROVE  Ordered'
<1> DEFINE g == target.generation
<1>1. exposure' = ScannedRows(a) /\ target' = target /\ closers' = closers
  BY IngestWrites
<1>2. /\ a \notin eligible /\ eligible \in SUBSET Attempts
      /\ eligible' = IF StateEligible(a) THEN eligible \cup {a} ELSE eligible
  BY DEF IngestScan, Typed
<1>3. CASE ~StateEligible(a)
  BY <1>1, <1>2, <1>3 DEF ScannedRows, Ordered
<1>4. CASE StateEligible(a)
  <2> DEFINE S == eligible \cup {a}
  <2>1. /\ Gen(a) = g /\ g \in Nat /\ Gen(a) \in Nat \ {0} /\ target.status = "active"
        /\ S \in SUBSET Attempts
    BY <1>2, <1>4, GenTyped DEF StateEligible, Gen
  <2>2. eligible' = S /\ \A p \in Ports : exposure'[p] = ApplyExposureEvidence(a)[p]
    BY <1>1, <1>2, <1>4 DEF ScannedRows
  <2>3. ASSUME NEW p \in Ports
        PROVE  /\ Dated(exposure'[p], p, g, S, closers[p])
               /\ \A b \in S : LastOf(b, p, g, S) =>
                     RowShows(exposure'[p], b, p) \/ Behind(b, p, S, closers[p])
    <3> DEFINE row == exposure[p]
               C == closers[p]
    <3>1. row \in Exposure /\ Dated(row, p, g, eligible, C) /\ C \in SUBSET Events
      BY DEF Typed, Ordered
    <3>2. Dated(row, p, g, S, C) /\ \A b : Behind(b, p, eligible, C) => Behind(b, p, S, C)
      BY <3>1, DatedGrows
    <3>3. exposure'[p] = IF ~(AttemptControlsPort(a, p) /\ ScanEvidenceIsNewer(a, row)) THEN row
                         ELSE IF ScanOf[a].sees[p] = "closed" THEN CloseExposure(a, row)
                         ELSE OpenExposure(a, p, row)
      BY <2>2 DEF ApplyExposureEvidence
    <3>4. AttemptControlsPort(a, p) <=>
             /\ p \in ScanOf[a].covers
             /\ \A b \in eligible : Gen(b) = Gen(a) /\ p \in ScanOf[b].covers =>
                   ~Later(ScanOf[b].completed_at, b, ScanOf[a].completed_at, a)
      BY DEF AttemptControlsPort, Gen
    <3>5. CASE ~AttemptControlsPort(a, p)
      <4>1. exposure'[p] = row
        BY <3>3, <3>5
      <4>2. ~LastOf(a, p, g, S)
        BY <2>1, <3>4, <3>5 DEF LastOf
      <4>3. \A b \in S : LastOf(b, p, g, S) => b \in eligible /\ LastOf(b, p, g, eligible)
        BY <4>2 DEF LastOf
      <4>4. \A b \in eligible : LastOf(b, p, g, eligible) =>
               RowShows(row, b, p) \/ Behind(b, p, eligible, C)
        BY <2>1 DEF Ordered
      <4> QED
        BY <3>2, <4>1, <4>3, <4>4
    <3>6. CASE AttemptControlsPort(a, p)
      <4>1. \A b \in S : LastOf(b, p, g, S) => b = a
        <5> SUFFICES ASSUME NEW b \in eligible, LastOf(b, p, g, S)
                     PROVE  b = a
          OBVIOUS
        <5>1. ~Later(ScanOf[b].completed_at, b, ScanOf[a].completed_at, a)
          BY <2>1, <3>4, <3>6 DEF LastOf
        <5>2. ~Later(ScanOf[a].completed_at, a, ScanOf[b].completed_at, b)
          BY <2>1, <3>4, <3>6 DEF LastOf
        <5> QED
          BY <1>2, <5>1, <5>2, LaterTotal
      <4>2. CASE ~ScanEvidenceIsNewer(a, row)
        <5>1. exposure'[p] = row
          BY <3>3, <4>2
        <5>2. Behind(a, p, eligible, C)
          BY <1>2, <2>1, <3>1, <3>4, <3>6, <4>2, NewerOrBehind
        <5> QED
          BY <3>2, <4>1, <5>1, <5>2
      <4>3. CASE ScanEvidenceIsNewer(a, row) /\ ScanOf[a].sees[p] = "closed" /\ row.state = "absent"
        <5>1. exposure'[p] = row
          BY <3>3, <3>6, <4>3 DEF CloseExposure
        <5>2. RowShows(row, a, p)
          BY <4>3 DEF RowShows
        <5> QED
          BY <3>2, <4>1, <5>1, <5>2
      <4>4. CASE ScanEvidenceIsNewer(a, row) /\ ScanOf[a].sees[p] = "closed" /\ row.state # "absent"
        <5> DEFINE r == CloseExposure(a, row)
        <5>1. r \in Exposure
          BY <3>1, ClosesForScan
        <5>2. /\ r.state = "closed" /\ r.attempt = a /\ r.generation = Gen(a)
              /\ r.confirmed_at = MaxOf(row.confirmed_at, ScanOf[a].completed_at)
          BY <3>1, <4>4 DEF CloseExposure, Exposure, Gen
        <5>3. exposure'[p] = r
          BY <3>3, <3>6, <4>4
        <5> HIDE DEF r
        <5>4. Dated(r, p, g, S, C)
          BY <2>1, <3>1, <3>2, <3>4, <3>6, <4>4, <5>1, <5>2, DecidesDated
        <5>5. RowShows(r, a, p)
          BY <4>4, <5>2 DEF RowShows
        <5> QED
          BY <4>1, <5>3, <5>4, <5>5
      <4>5. CASE ScanEvidenceIsNewer(a, row) /\ ScanOf[a].sees[p] # "closed"
        <5> DEFINE r == OpenExposure(a, p, row)
        <5>1. r \in Exposure
          BY <3>1, <4>5, OpensRow
        <5>2. /\ r.state = "open" /\ r.attempt = a /\ r.generation = Gen(a)
              /\ r.identity = ScanOf[a].sees[p]
              /\ r.confirmed_at = MaxOf(row.confirmed_at, ScanOf[a].completed_at)
          BY DEF OpenExposure, Gen
        <5>3. exposure'[p] = r
          BY <3>3, <3>6, <4>5
        <5> HIDE DEF r
        <5>4. Dated(r, p, g, S, C)
          BY <2>1, <3>1, <3>2, <3>4, <3>6, <4>5, <5>1, <5>2, DecidesDated
        <5>5. RowShows(r, a, p)
          BY <4>5, <5>2 DEF RowShows
        <5> QED
          BY <4>1, <5>3, <5>4, <5>5
      <4> QED
        BY <4>2, <4>3, <4>4, <4>5
    <3> QED
      BY <3>5, <3>6
  <2>4. \A b \in S : Gen(b) <= g
    BY <2>1 DEF Ordered
  <2> QED
    BY <1>1, <2>2, <2>3, <2>4 DEF Ordered
<1> QED
  BY <1>3, <1>4

LEMMA OrderedPreserved ==
    ASSUME ProjectionInv, Ordered, [ProjectionNext]_vars
    PROVE  Ordered'
<1>0. Typed /\ Evidence
  BY DEF ProjectionInv
<1>1. ASSUME NEW e \in Events, ApplyTargetEvent(e)
      PROVE  Ordered'
  BY <1>0, <1>1, ApplyOrdered
<1>2. ASSUME NEW a \in Attempts, IngestScan(a)
      PROVE  Ordered'
  BY <1>0, <1>2, IngestOrdered
<1>3. ASSUME UNCHANGED evidenceVars
      PROVE  Ordered'
  BY <1>3 DEF Ordered, evidenceVars
<1>4. Duplicate \/ UNCHANGED vars => UNCHANGED evidenceVars
  BY DEF Duplicate, vars
<1>5. ASSUME NEW r \in Rules, EditRule(r)
      PROVE  UNCHANGED evidenceVars
  BY <1>5 DEF EditRule
<1>6. ASSUME NEW i \in Runs, \/ StartRun(i) \/ ReadRules(i) \/ ReadExposure(i) \/ ReadTarget(i)
                             \/ ReconcilePort(i) \/ CommitRun(i) \/ RunFails(i)
      PROVE  UNCHANGED evidenceVars
  BY <1>6 DEF StartRun, ReadRules, ReadExposure, ReadTarget, ReconcilePort, CommitRun, RunFails
<1>7. ASSUME NEW h \in pending, PutObject(h) \/ MarkHandoffPublished(h)
      PROVE  UNCHANGED evidenceVars
  BY <1>7 DEF PutObject, MarkHandoffPublished
<1> QED
  BY <1>1, <1>2, <1>3, <1>4, <1>5, <1>6, <1>7 DEF ProjectionNext

LEMMA OrderedImplies ==
    ASSUME Ordered
    PROVE  LastScanDecides
<1> SUFFICES ASSUME NEW p \in Ports, NEW a \in eligible, LastToCover(a, p)
             PROVE  Shows(a, p) \/ Outdated(a, p)
  BY DEF LastScanDecides
<1>1. LastOf(a, p, target.generation, eligible) /\ target.status = "active"
  BY DEF LastToCover, LastOf, Gen
<1>2. RowShows(exposure[p], a, p) \/ Behind(a, p, eligible, closers[p])
  BY <1>1 DEF Ordered
<1>3. RowShows(exposure[p], a, p) => Shows(a, p)
  BY DEF RowShows, Shows
<1>4. Behind(a, p, eligible, closers[p]) => Outdated(a, p)
  BY DEF Behind, Outdated, Gen
<1> QED
  BY <1>2, <1>3, <1>4

(* In whatever order apply_target_event and ingest_scan meet events and    *)
(* results, and whatever the times these carry, a port shows what the last *)
(* eligible scan of the current generation saw, or that scan completed no  *)
(* later than an event that closed the port, or than a scan of an older    *)
(* generation.  Nothing else makes last_confirmed_at discard it.           *)
THEOREM ProjectionFollows == ProjectionSpec => []LastScanDecides
<1>1. ProjectionInit => Ordered
  BY OrderedInitially
<1>2. ProjectionInv /\ Ordered /\ [ProjectionNext]_vars => Ordered'
  BY OrderedPreserved
<1>3. Ordered => LastScanDecides
  BY OrderedImplies
<1> QED
  BY <1>1, <1>2, <1>3, InvAlways, PTL DEF ProjectionSpec

-----------------------------------------------------------------------------
(* The projection implements ExposureView.                                 *)

ShownIn(row) == IF row.state = "open" THEN row.identity ELSE "closed"

(* What a reader sees of a row changes when event e closes it, and only    *)
(* then.                                                                   *)
LEMMA ClosedIsSeen ==
    ASSUME Typed, NEW e \in Events, NEW p \in Ports
    PROVE  ClosedRows(e)[p] # exposure[p] <=> ShownIn(ClosedRows(e)[p]) # ShownIn(exposure[p])
<1> DEFINE row == exposure[p]
<1>1. row \in Exposure /\ row.identity # "closed"
  BY ProjectionAssumption DEF Typed, Exposure
<1>2. ClosedRows(e)[p] = IF p \in ClosedBy(e) THEN CloseForEvent(row, e) ELSE row
  BY DEF ClosedRows
<1>3. CASE p \in ClosedBy(e) /\ row.state = "open"
  <2>1. CloseForEvent(row, e).state # "open"
    BY <1>1, ClosesRow
  <2> QED
    BY <1>1, <1>2, <1>3, <2>1 DEF ShownIn
<1>4. CASE ~(p \in ClosedBy(e) /\ row.state = "open")
  <2>1. ClosedRows(e)[p] = row
    BY <1>2, <1>4 DEF CloseForEvent
  <2> QED
    BY <2>1
<1> QED
  BY <1>3, <1>4

LEMMA ViewUnchanged ==
    ASSUME target'.generation = target.generation, target'.status = target.status,
           target'.address = target.address, eligible' = eligible, closers' = closers,
           \A p \in Ports : ShownIn(exposure'[p]) = ShownIn(exposure[p])
    PROVE  UNCHANGED View!viewVars
BY DEF View!viewVars, ShownIn

(* A target event is an announcement.                                      *)
LEMMA ApplyAnnounces ==
    ASSUME Typed, Evidence, NEW e \in Events, ApplyTargetEvent(e)
    PROVE  View!Announce(e) \/ UNCHANGED View!viewVars
<1> DEFINE g == target.generation
           n == EventOf[e].generation
           active == target.status = "active"
<1>1. exposure' = ClosedRows(e) /\ eligible' = eligible /\ closers' = ClosedWith(e)
  BY ApplyWrites
<1>2. target' = IF Accepted(e)
                THEN [generation |-> n, address |-> EventOf[e].address,
                      status |-> IF EventOf[e].event_type = "remove" THEN "removed" ELSE "active",
                      observed_at |-> EventOf[e].observed_at]
                ELSE target
  BY ApplyWrites
<1>3. n \in Nat \ {0} /\ g \in Nat
  BY EventsTyped DEF Typed, Target, TargetEvent
<1>4. \A p \in Ports :
         exposure'[p] = IF p \in ClosedBy(e) THEN CloseForEvent(exposure[p], e) ELSE exposure[p]
  BY <1>1 DEF ClosedRows
<1>5. \A p \in Ports : CloseForEvent(exposure[p], e).state # "open"
  BY ClosesRow DEF Typed
<1>6. \A p \in Ports : exposure[p].state = "open" =>
         active /\ exposure[p].address = target.address /\ exposure[p].address \in Addresses
  BY DEF Evidence, OpenIsOwned, Typed, Exposure
<1>7. CASE ~Accepted(e)
  <2>1. ClosedBy(e) = {}
    BY <1>7 DEF ClosedBy
  <2>2. \A p \in Ports : ClosedRows(e)[p] = exposure[p]
    BY <1>1, <1>4, <2>1
  <2>3. closers' = closers
    BY <1>1, <2>2 DEF ClosedWith, Typed
  <2> QED
    BY <1>1, <1>2, <1>7, <2>2, <2>3, ViewUnchanged
<1>8. CASE Accepted(e)
  <2> DEFINE Same == \A p \in Ports : ShownIn(exposure'[p]) = ShownIn(exposure[p])
             Shut == \A p \in Ports : ShownIn(exposure'[p]) = "closed"
  <2>1. /\ target'.generation = n /\ target'.address = EventOf[e].address
        /\ target'.status = IF EventOf[e].event_type = "remove" THEN "removed" ELSE "active"
    BY <1>2, <1>8
  <2>2. n >= g
    BY <1>3, <1>8 DEF Accepted
  <2>3. ASSUME Same \/ (n > g /\ Shut),
               target'.status # "active" \/ target'.address # target.address => Shut
        PROVE  View!Announce(e)
    <3>1. closers' = [p \in Ports |->
                        IF ShownIn(exposure'[p]) # ShownIn(exposure[p]) THEN closers[p] \cup {e}
                        ELSE closers[p]]
      BY <1>1, ClosedIsSeen DEF ClosedWith
    <3> QED
      BY <1>1, <2>1, <2>2, <2>3, <3>1 DEF View!Announce, View!OwnerBy, View!Closed, ShownIn
  <2>4. ASSUME \A p \in Ports : exposure[p].state = "open" => p \in ClosedBy(e)
        PROVE  Shut
    BY <1>4, <1>5, <2>4 DEF ShownIn
  <2>5. ASSUME ClosedBy(e) = {}
        PROVE  Same
    BY <1>4, <2>5
  <2>6. CASE ~active
    <3>1. \A p \in Ports : exposure[p].state # "open"
      BY <1>6, <2>6
    <3>2. Shut
      BY <2>4, <3>1
    <3>3. Same
      BY <3>1, <3>2 DEF ShownIn
    <3> QED
      BY <2>3, <3>2, <3>3
  <2>7. CASE active /\ n = g
    <3>1. applied # {}
      BY <1>3, <2>7 DEF Evidence
    <3>2. PICK d \in applied :
             /\ EventOf[d].generation = g /\ EventOf[d].address = target.address
             /\ target.status = IF EventOf[d].event_type = "remove" THEN "removed" ELSE "active"
      BY <3>1 DEF Evidence, TargetIsLatest
    <3>3. EventOf[e].event_type = EventOf[d].event_type /\ EventOf[e].address = target.address
      BY <2>7, <3>2, StreamAssumption DEF Typed
    <3>4. EventOf[e].event_type # "remove"
      BY <2>7, <3>2, <3>3
    <3>5. ~(n > g + 1)
      BY <1>3, <2>7
    <3>6. ClosedBy(e) = {}
      BY <2>7, <3>3, <3>4, <3>5 DEF ClosedBy, GenerationGapReactivation, AddressBindingChanged
    <3>7. Same
      BY <2>5, <3>6
    <3> QED
      BY <2>1, <2>3, <3>3, <3>4, <3>7
  <2>8. CASE active /\ n > g
    <3>1. g # 0
      BY <2>8 DEF Evidence
    <3>2. CASE EventOf[e].event_type = "remove" \/ GenerationGapReactivation(e)
      <4>1. ClosedBy(e) = OpenPorts(Addresses)
        BY <1>8, <3>1, <3>2 DEF ClosedBy
      <4>2. Shut
        BY <1>6, <2>4, <4>1 DEF OpenPorts
      <4> QED
        BY <2>3, <2>8, <4>2
    <3>3. CASE /\ ~(EventOf[e].event_type = "remove" \/ GenerationGapReactivation(e))
               /\ target.address # EventOf[e].address
      <4>1. ClosedBy(e) = OpenPorts(Addresses \ {EventOf[e].address})
        BY <1>8, <3>1, <3>3 DEF ClosedBy, AddressBindingChanged
      <4>2. Shut
        BY <1>6, <2>4, <3>3, <4>1 DEF OpenPorts
      <4> QED
        BY <2>3, <2>8, <4>2
    <3>4. CASE /\ ~(EventOf[e].event_type = "remove" \/ GenerationGapReactivation(e))
               /\ target.address = EventOf[e].address
      <4>1. ClosedBy(e) = {}
        BY <2>8, <3>4 DEF ClosedBy, AddressBindingChanged
      <4>2. Same
        BY <2>5, <4>1
      <4> QED
        BY <2>1, <2>3, <3>4, <4>2
    <3> QED
      BY <3>2, <3>3, <3>4
  <2> QED
    BY <1>3, <2>2, <2>6, <2>7, <2>8
<1> QED
  BY <1>7, <1>8

(* An eligible result is a report, which leaves the ports that are newer   *)
(* than it as they are.                                                    *)
LEMMA IngestReports ==
    ASSUME Typed, Ordered, NEW a \in Attempts, IngestScan(a)
    PROVE  View!Report(a) \/ UNCHANGED View!viewVars
<1>1. exposure' = ScannedRows(a) /\ target' = target /\ closers' = closers
  BY IngestWrites
<1>2. /\ a \notin eligible /\ eligible \in SUBSET Attempts
      /\ eligible' = IF StateEligible(a) THEN eligible \cup {a} ELSE eligible
  BY DEF IngestScan, Typed
<1>3. CASE ~StateEligible(a)
  BY <1>1, <1>2, <1>3, ViewUnchanged DEF ScannedRows
<1>4. CASE StateEligible(a)
  <2> DEFINE late == {p \in Ports : View!LastWord(a, p) /\ ~ScanEvidenceIsNewer(a, exposure[p])}
  <2>1. Gen(a) = target.generation
    BY <1>4 DEF StateEligible, Gen
  <2>2. \A p \in Ports : exposure'[p] = ApplyExposureEvidence(a)[p]
    BY <1>1, <1>4 DEF ScannedRows
  <2>3. ASSUME NEW p \in Ports
        PROVE  /\ p \in late => View!Overdue(a, p)
               /\ ShownIn(exposure'[p]) = IF View!LastWord(a, p) /\ p \notin late
                                          THEN ScanOf[a].sees[p] ELSE ShownIn(exposure[p])
    <3> DEFINE row == exposure[p]
    <3>1. row \in Exposure /\ Dated(row, p, Gen(a), eligible, closers[p])
      BY <2>1 DEF Typed, Ordered
    <3>2. exposure'[p] = IF ~(AttemptControlsPort(a, p) /\ ScanEvidenceIsNewer(a, row)) THEN row
                         ELSE IF ScanOf[a].sees[p] = "closed" THEN CloseExposure(a, row)
                         ELSE OpenExposure(a, p, row)
      BY <2>2 DEF ApplyExposureEvidence
    <3>3. \A b \in eligible :
             ~Later(ScanOf[b].completed_at, b, ScanOf[a].completed_at, a) <=>
                \/ ScanOf[b].completed_at < ScanOf[a].completed_at
                \/ ScanOf[b].completed_at = ScanOf[a].completed_at /\ b <= a
      BY <1>2, GenTyped DEF Later
    <3>4. AttemptControlsPort(a, p) <=> View!LastWord(a, p)
      BY <3>3 DEF AttemptControlsPort, View!LastWord, View!GenerationOf
    <3>5. CASE ~AttemptControlsPort(a, p)
      BY <3>2, <3>4, <3>5
    <3>6. CASE AttemptControlsPort(a, p) /\ ~ScanEvidenceIsNewer(a, row)
      <4>1. Behind(a, p, eligible, closers[p])
        BY <1>2, <3>1, <3>6, NewerOrBehind DEF AttemptControlsPort, Gen
      <4>2. View!Overdue(a, p)
        BY <4>1 DEF Behind, View!Overdue, View!GenerationOf, Gen
      <4>3. p \in late /\ exposure'[p] = row
        BY <3>2, <3>4, <3>6
      <4> QED
        BY <4>2, <4>3
    <3>7. CASE AttemptControlsPort(a, p) /\ ScanEvidenceIsNewer(a, row)
      <4>1. p \notin late /\ View!LastWord(a, p)
        BY <3>4, <3>7
      <4>2. CASE ScanOf[a].sees[p] = "closed"
        <5>1. exposure'[p].state # "open"
          BY <3>1, <3>2, <3>7, <4>2, ClosesForScan
        <5> QED
          BY <4>1, <4>2, <5>1 DEF ShownIn
      <4>3. CASE ScanOf[a].sees[p] # "closed"
        <5>1. exposure'[p] = OpenExposure(a, p, row)
          BY <3>2, <3>7, <4>3
        <5>2. exposure'[p].state = "open" /\ exposure'[p].identity = ScanOf[a].sees[p]
          BY <5>1 DEF OpenExposure
        <5> QED
          BY <4>1, <5>2 DEF ShownIn
      <4> QED
        BY <4>2, <4>3
    <3> QED
      BY <3>5, <3>6, <3>7
  <2>4. target.status = "active" /\ ScanOf[a].complete /\ ScanOf[a].address = target.address
    BY <1>4 DEF StateEligible
  <2>5. late \in SUBSET {p \in Ports : View!Overdue(a, p)}
    BY <2>3
  <2> HIDE DEF late
  <2>6. [p \in Ports |-> ShownIn(exposure'[p])] =
           [p \in Ports |-> IF View!LastWord(a, p) /\ p \notin late THEN ScanOf[a].sees[p]
                            ELSE ShownIn(exposure[p])]
    BY <2>3
  <2> QED
    BY <1>1, <1>2, <1>4, <2>1, <2>4, <2>5, <2>6 DEF View!Report, View!GenerationOf, ShownIn, Gen
<1> QED
  BY <1>3, <1>4

LEMMA ViewStep ==
    ASSUME ProjectionInv, Ordered, [ProjectionNext]_vars
    PROVE  [View!ViewNext]_(View!viewVars)
<1>0. Typed /\ Evidence
  BY DEF ProjectionInv
<1>1. ASSUME NEW e \in Events, ApplyTargetEvent(e)
      PROVE  View!ViewNext \/ UNCHANGED View!viewVars
  BY <1>0, <1>1, ApplyAnnounces DEF View!ViewNext
<1>2. ASSUME NEW a \in Attempts, IngestScan(a)
      PROVE  View!ViewNext \/ UNCHANGED View!viewVars
  BY <1>0, <1>2, IngestReports DEF View!ViewNext
<1>3. ASSUME UNCHANGED evidenceVars
      PROVE  UNCHANGED View!viewVars
  BY <1>3 DEF evidenceVars, View!viewVars
<1>4. Duplicate \/ UNCHANGED vars => UNCHANGED evidenceVars
  BY DEF Duplicate, vars
<1>5. ASSUME NEW r \in Rules, EditRule(r)
      PROVE  UNCHANGED evidenceVars
  BY <1>5 DEF EditRule
<1>6. ASSUME NEW i \in Runs, \/ StartRun(i) \/ ReadRules(i) \/ ReadExposure(i) \/ ReadTarget(i)
                             \/ ReconcilePort(i) \/ CommitRun(i) \/ RunFails(i)
      PROVE  UNCHANGED evidenceVars
  BY <1>6 DEF StartRun, ReadRules, ReadExposure, ReadTarget, ReconcilePort, CommitRun, RunFails
<1>7. ASSUME NEW h \in pending, PutObject(h) \/ MarkHandoffPublished(h)
      PROVE  UNCHANGED evidenceVars
  BY <1>7 DEF PutObject, MarkHandoffPublished
<1> QED
  BY <1>1, <1>2, <1>3, <1>4, <1>5, <1>6, <1>7 DEF ProjectionNext

(* Readers of the exposures see only announcements and reports as          *)
(* ExposureView has them, in whatever order apply_target_event and         *)
(* ingest_scan meet events and results, and whatever times these carry.    *)
THEOREM ProjectionImplementsView == ProjectionSpec => ImplementsView
<1>1. ProjectionInit => Ordered
  BY OrderedInitially
<1>2. ProjectionInv /\ Ordered /\ [ProjectionNext]_vars => Ordered'
  BY OrderedPreserved
<1>3. ProjectionInit => View!ViewInit
  BY ConstantsTyped DEF ProjectionInit, View!ViewInit, View!Closed, NoTarget
<1>4. ProjectionInv /\ Ordered /\ [ProjectionNext]_vars => [View!ViewNext]_(View!viewVars)
  BY ViewStep
<1> QED
  BY <1>1, <1>2, <1>3, <1>4, InvAlways, PTL DEF ProjectionSpec, ImplementsView, View!ViewSpec
=============================================================================
