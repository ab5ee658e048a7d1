----------------------------- MODULE ScanProofs -----------------------------
(* What the scan worker and the result parser guarantee together, for any  *)
(* number of attempts, any timeouts and any number of failures.            *)
EXTENDS ResultParsing, FiniteSetTheorems, SequenceTheorems, TLAPS

Files == [kind : {"none", "torn", "short", "whole"}, ports : SUBSET Ports, closed : BOOLEAN]

Envelopes == [outcome : {"none", "complete", "partial", "failed"}, scanned : BOOLEAN,
              declared : SUBSET Ports, raw : Files, enrichment : Files, enriches : BOOLEAN,
              negative : BOOLEAN, fits : BOOLEAN]

Objects == [discovery : Files, enrichment : Files, envelope : Envelopes]

Unpublished == {"waiting", "discovery", "check", "enrich", "enrichment", "final"}
Uploads == {"putDiscovery", "putEnrichment", "putEnvelope"}

Workers == [pc : Unpublished \union Uploads \union {"ended"}, term : BOOLEAN, until : Int,
            discovery : Files, enrichment : Files, enriches : BOOLEAN,
            failed : BOOLEAN, scanned : BOOLEAN, signalled : BOOLEAN, declared : SUBSET Ports,
            artifact : BOOLEAN, raw : Files, rawEnrichment : Files,
            exit : {"none", "ok", "error", "refused", "killed"},
            sawDiscovery : SUBSET Ports, sawEnrichment : SUBSET Ports, lostPut : BOOLEAN]

ScanTypeOK ==
    /\ clock \in Nat /\ open \in OpenSets /\ changes \in Nat /\ faults \in Nat
    /\ worker \in [Pods -> Workers] /\ object \in [Pods -> Objects]
    /\ messages \subseteq Pods
    /\ ingested \in [Pods -> [done : BOOLEAN, authority : BOOLEAN, ports : SUBSET Ports]]

(* A file without content is no file.                                      *)
Proper(f) == f.kind = "none" <=> f = NoFile

(* The files of pod state w show what was open when each phase ended.      *)
Observed(w) ==
    /\ Proper(w.discovery) /\ Proper(w.enrichment)
    /\ w.discovery.ports \subseteq w.sawDiscovery
    /\ w.discovery.kind = "whole" => w.discovery.ports = w.sawDiscovery
    /\ w.enrichment.ports \subseteq w.sawEnrichment \intersect w.discovery.ports
    /\ w.enrichment.ports = w.discovery.ports => ~w.enrichment.closed
    /\ w.enrichment # NoFile => w.enriches
    /\ w.pc # "ended" => (w.enriches => w.discovery.kind = "whole")

(* Both phases have proved their coverage.                                 *)
Concluded(w) ==
    /\ w.discovery.kind = "whole"
    /\ w.discovery.ports = {} => w.enrichment = NoFile
    /\ w.discovery.ports # {} => /\ w.enriches /\ w.enrichment.kind = "whole"
                                 /\ w.enrichment.ports = w.discovery.ports

(* What pod state w, with objects o in S3, has established by its pc.      *)
Scanning(w, o) ==
    w.pc \in Unpublished =>
        /\ ~w.failed /\ ~w.scanned /\ w.declared = {} /\ w.artifact
        /\ w.raw = NoFile /\ w.rawEnrichment = NoFile /\ o = Nothing
        /\ w.pc \in {"waiting", "discovery"} => w.discovery = NoFile
        /\ w.pc # "final" => w.enrichment = NoFile
        /\ w.pc \in {"enrich", "enrichment"} => w.discovery.kind = "whole"
        /\ w.pc = "enrichment" => w.enriches /\ w.discovery.ports # {}
        /\ w.pc = "final" => Concluded(w)

Publishing(w, o) ==
    w.pc \in Uploads =>
        /\ w.failed => (w.declared # {} => w.scanned)
        /\ ~w.failed => /\ Concluded(w) /\ w.scanned /\ w.artifact
                        /\ w.declared = w.discovery.ports
        /\ o.envelope = NoEnvelope
        /\ w.pc = "putDiscovery" => w.raw = NoFile /\ o.discovery = NoFile
        /\ w.pc # "putDiscovery" => /\ w.raw \in {NoFile, w.discovery}
                                    /\ w.raw \in {NoFile, o.discovery}
                                    /\ ~w.failed => w.raw = w.discovery
        /\ w.pc # "putEnvelope" => w.rawEnrichment = NoFile /\ o.enrichment = NoFile
        /\ w.pc = "putEnvelope" => /\ w.rawEnrichment \in {NoFile, w.enrichment}
                                   /\ w.rawEnrichment \in {NoFile, o.enrichment}
                                   /\ ~w.failed => w.rawEnrichment = w.enrichment

(* What the envelope of a pod says is so.                                  *)
Truthful(e, w, o) ==
    /\ e.raw \in {NoFile, o.discovery} /\ e.enrichment \in {NoFile, o.enrichment}
    /\ ContractValid(e)
    /\ e.raw.ports \subseteq w.sawDiscovery
    /\ e.outcome = "complete" =>
          /\ e.raw.kind = "whole" /\ e.raw.ports = e.declared /\ e.declared = w.sawDiscovery
          /\ e.declared = {} => e.enrichment = NoFile
          /\ e.declared # {} => /\ e.enrichment.kind = "whole" /\ ~e.enrichment.closed
                                /\ e.enrichment.ports = e.declared
                                /\ e.declared \subseteq w.sawEnrichment

Exited(w, o) ==
    /\ w.pc # "ended" => w.exit = "none"
    /\ w.exit = "ok" => o.envelope.outcome = "complete"
    /\ w.exit = "error" /\ ~w.lostPut =>
          o.envelope.outcome \in IF Publishable(w) THEN {"partial", "failed"} ELSE {"none"}
    /\ w.exit = "refused" => o = Nothing

Sane(w, o) ==
    /\ Observed(w) /\ Scanning(w, o) /\ Publishing(w, o)
    /\ Truthful(o.envelope, w, o) /\ Exited(w, o)

(* The process that runs has a deadline that leaves the reserve.           *)
Timely(a) ==
    Running(a) => worker[a].until <= NotAfter - Reserve /\ clock <= worker[a].until + Grace

(* Results are parsed once the pod has ended, and say what it saw.         *)
Parsed(a) ==
    LET w == worker[a]
        i == ingested[a]
    IN  /\ a \in messages \/ i.done => w.pc = "ended"
        /\ ~i.done => i = NotIngested
        /\ i.ports \subseteq w.sawDiscovery
        /\ i.authority => /\ i.ports = w.sawDiscovery
                          /\ i.ports # {} => i.ports \subseteq w.sawEnrichment

ScanInv ==
    /\ ScanTypeOK
    /\ \A a \in Pods : Sane(worker[a], object[a]) /\ Timely(a) /\ Parsed(a)
    /\ rejected = {}

(***************************************************************************)
(* The values that are not computed.                                       *)
(***************************************************************************)
LEMMA ConstantTypes ==
    /\ NoFile \in Files /\ Torn \in Files /\ NoEnvelope \in Envelopes
    /\ Nothing \in Objects /\ NotStarted \in Workers
<1>1. NoFile \in Files /\ Torn \in Files
  BY DEF Files, NoFile, Torn, File
<1>2. NoEnvelope \in Envelopes
  BY <1>1 DEF Envelopes, NoEnvelope
<1>3. Nothing \in Objects
  BY <1>1, <1>2 DEF Objects, Nothing
<1>4. NotStarted \in Workers
  BY <1>1 DEF NotStarted, Workers, Unpublished
<1> QED BY <1>1, <1>2, <1>3, <1>4

LEMMA NoFileIs == NoFile.kind = "none" /\ NoFile.ports = {} /\ NoFile.closed = FALSE
BY DEF NoFile, File

LEMMA NoEnvelopeIs ==
    /\ NoEnvelope.outcome = "none" /\ NoEnvelope.raw = NoFile
    /\ NoEnvelope.enrichment = NoFile /\ NoEnvelope.declared = {}
    /\ NoEnvelope.negative = FALSE /\ NoEnvelope.fits = TRUE
BY DEF NoEnvelope

LEMMA NothingIs ==
    /\ Nothing.discovery = NoFile /\ Nothing.enrichment = NoFile
    /\ Nothing.envelope = NoEnvelope
BY DEF Nothing

(* The ports that are open now.                                            *)
LEMMA OpenPorts == ASSUME ScanTypeOK PROVE open \subseteq Ports
BY DEF ScanTypeOK, Ports

(***************************************************************************)
(* An envelope that is not there says nothing that could be wrong.         *)
(***************************************************************************)
LEMMA SilentIsTruthful ==
    ASSUME NEW w, NEW o, o.envelope = NoEnvelope
    PROVE  Truthful(o.envelope, w, o)
<1>1. ContractValid(NoEnvelope)
  BY NoEnvelopeIs DEF ContractValid, ResultValid, ExitCodeValid, CommandsValid
<1> QED BY <1>1, NoEnvelopeIs, NoFileIs DEF Truthful

(***************************************************************************)
(* The time of a phase.                                                    *)
(***************************************************************************)
LEMMA MinOfTwo ==
    ASSUME NEW m \in Int, NEW n \in Int
    PROVE  Min({m, n}) \in {m, n} /\ Min({m, n}) <= m /\ Min({m, n}) <= n
<1>1. \E x \in {m, n} : \A y \in {m, n} : x <= y
  OBVIOUS
<1> QED BY <1>1 DEF Min

LEMMA BudgetFits ==
    ASSUME NEW now \in Nat, NEW configured \in Nat, configured >= MinExecution,
           Budget(now, configured) # 0
    PROVE  /\ Budget(now, configured) \in Nat
           /\ now + Budget(now, configured) <= NotAfter - Reserve
<1> DEFINE execution == NotAfter - now - Reserve
<1>1. execution \in Int /\ NotAfter \in Int /\ Reserve \in Int
  BY WorkerAssumption
<1>2. execution >= MinExecution /\ Budget(now, configured) = Min({configured, execution})
  BY <1>1 DEF Budget, MinExecution
<1> HIDE DEF execution
<1>3. Min({configured, execution}) \in {configured, execution}
      /\ Min({configured, execution}) <= execution
  <2>1. configured \in Int
    OBVIOUS
  <2> QED BY <1>1, <2>1, MinOfTwo
<1> QED BY <1>1, <1>2, <1>3, WorkerAssumption DEF MinExecution, execution

(***************************************************************************)
(* A step of one pod that has not ended keeps the invariant, if it leaves  *)
(* that pod and its objects sane.                                          *)
(***************************************************************************)
LEMMA PodStep ==
    ASSUME ScanInv, NEW a \in Pods, worker[a].pc # "ended",
           NEW w \in Workers, NEW o \in Objects, Sane(w, o),
           Become(a, w), object' = [object EXCEPT ![a] = o], Announced,
           w.pc \in {"discovery", "enrichment"} =>
               w.until <= NotAfter - Reserve /\ clock <= w.until + Grace,
           o.envelope # object[a].envelope => w.pc = "ended",
           faults' \in Nat, UNCHANGED <<clock, open, changes, ingested, rejected>>
    PROVE  ScanInv'
<1>0. /\ worker \in [Pods -> Workers] /\ object \in [Pods -> Objects] /\ messages \subseteq Pods
      /\ worker' = [worker EXCEPT ![a] = w]
  BY DEF ScanInv, ScanTypeOK, Become
<1>1. /\ worker' \in [Pods -> Workers] /\ object' \in [Pods -> Objects]
      /\ worker'[a] = w /\ object'[a] = o
      /\ \A b \in Pods \ {a} : worker'[b] = worker[b] /\ object'[b] = object[b]
  BY <1>0
<1>2. messages' \subseteq messages \union {b \in Pods : object'[b].envelope # object[b].envelope}
  BY DEF Announced
<1>3. ScanTypeOK'
  BY <1>0, <1>1, <1>2 DEF ScanInv, ScanTypeOK
<1>4. ASSUME NEW b \in Pods PROVE Sane(worker'[b], object'[b]) /\ Timely(b)' /\ Parsed(b)'
  <2>1. CASE b = a
    <3>1. Sane(worker'[b], object'[b])
      BY <1>1, <2>1
    <3>2. Timely(b)'
      BY <1>1, <2>1 DEF Timely, Running
    <3>3. a \notin messages /\ ~ingested[a].done
      BY DEF ScanInv, Parsed
    <3>4. Parsed(b)'
      <4>1. ingested'[a] = NotIngested /\ NotIngested.done = FALSE /\ NotIngested.ports = {}
            /\ NotIngested.authority = FALSE
        BY <3>3 DEF ScanInv, Parsed, NotIngested
      <4>2. a \in messages' => w.pc = "ended"
        BY <1>1, <1>2, <3>3
      <4> QED BY <1>1, <2>1, <4>1, <4>2 DEF Parsed
    <3> QED BY <3>1, <3>2, <3>4
  <2>2. CASE b # a
    <3>1. worker'[b] = worker[b] /\ object'[b] = object[b] /\ (b \in messages' => b \in messages)
      BY <1>1, <1>2, <2>2
    <3>2. Sane(worker[b], object[b]) /\ Timely(b) /\ Parsed(b)
      BY DEF ScanInv
    <3>3. Timely(b)'
      BY <3>1, <3>2 DEF Timely, Running
    <3>4. Parsed(b)'
      BY <3>1, <3>2 DEF Parsed
    <3> QED BY <3>1, <3>2, <3>3, <3>4
  <2> QED BY <2>1, <2>2
<1> QED BY <1>3, <1>4 DEF ScanInv

(* The pod alone moves, and its objects stay as they are.                  *)
LEMMA PodMoves ==
    ASSUME ScanInv, NEW a \in Pods, worker[a].pc # "ended",
           NEW w \in Workers, Sane(w, object[a]), Become(a, w), Announced,
           w.pc \in {"discovery", "enrichment"} =>
               w.until <= NotAfter - Reserve /\ clock <= w.until + Grace,
           faults' \in Nat, UNCHANGED <<clock, open, changes, object, ingested, rejected>>
    PROVE  ScanInv'
<1>1. object[a] \in Objects /\ object' = [object EXCEPT ![a] = object[a]]
  BY DEF ScanInv, ScanTypeOK
<1> QED BY <1>1, PodStep

(* What is known of a pod.                                                 *)
LEMMA PodKnown ==
    ASSUME ScanInv, NEW a \in Pods
    PROVE  worker[a] \in Workers /\ object[a] \in Objects /\ Sane(worker[a], object[a])
BY DEF ScanInv, ScanTypeOK

(***************************************************************************)
(* A pod that ends, and a phase that fails.                                *)
(***************************************************************************)
LEMMA EndedSane ==
    ASSUME NEW w \in Workers, NEW o \in Objects, Truthful(o.envelope, w, o),
           NEW exit \in {"ok", "error", "refused", "killed"},
           exit = "ok" => o.envelope.outcome = "complete",
           exit = "error" /\ ~w.lostPut =>
               o.envelope.outcome \in IF Publishable(w) THEN {"partial", "failed"} ELSE {"none"},
           exit = "refused" => o = Nothing
    PROVE  /\ Ended(w, exit) \in Workers /\ Sane(Ended(w, exit), o)
           /\ Ended(w, exit).pc = "ended"
<1> DEFINE n == Ended(w, exit)
<1>1. /\ n.pc = "ended" /\ n.exit = exit /\ n.lostPut = w.lostPut
      /\ n.sawDiscovery = w.sawDiscovery /\ n.sawEnrichment = w.sawEnrichment
      /\ n.discovery = NoFile /\ n.enrichment = NoFile
      /\ n.signalled = w.signalled /\ n.enriches = w.enriches
  BY DEF Ended, NotStarted
<1>2. n \in Workers
  BY ConstantTypes DEF Ended, Workers
<1> HIDE DEF n
<1>3. Observed(n)
  BY <1>1, NoFileIs DEF Observed, Proper
<1>4. Scanning(n, o) /\ Publishing(n, o)
  BY <1>1 DEF Scanning, Publishing, Unpublished, Uploads
<1>5. Truthful(o.envelope, n, o)
  BY <1>1 DEF Truthful
<1>6. Exited(n, o)
  <2>1. Publishable(n) <=> Publishable(w)
    BY <1>1 DEF Publishable
  <2> QED BY <1>1, <2>1 DEF Exited
<1> QED BY <1>1, <1>2, <1>3, <1>4, <1>5, <1>6 DEF Sane, n

LEMMA FailureSane ==
    ASSUME NEW w \in Workers, Observed(w), w.pc # "ended", w.raw = NoFile, w.rawEnrichment = NoFile,
           w.exit = "none", NEW scanned \in BOOLEAN, NEW ports \in SUBSET Ports,
           ports # {} => scanned, NEW artifact \in BOOLEAN
    PROVE  /\ Failure(w, scanned, ports, artifact) \in Workers
           /\ Sane(Failure(w, scanned, ports, artifact), Nothing)
           /\ Failure(w, scanned, ports, artifact).pc = "putDiscovery"
<1> DEFINE n == Failure(w, scanned, ports, artifact)
<1>1. /\ n.pc = "putDiscovery" /\ n.failed = TRUE /\ n.scanned = scanned /\ n.declared = ports
      /\ n.raw = w.raw /\ n.rawEnrichment = w.rawEnrichment /\ n.exit = w.exit
      /\ n.discovery = w.discovery /\ n.enrichment = w.enrichment /\ n.enriches = w.enriches
      /\ n.sawDiscovery = w.sawDiscovery /\ n.sawEnrichment = w.sawEnrichment
  BY DEF Failure, Workers
<1>2. n \in Workers
  BY DEF Failure, Workers, Uploads
<1> HIDE DEF n
<1>3. Observed(n)
  BY <1>1 DEF Observed
<1>4. Scanning(n, Nothing) /\ Publishing(n, Nothing)
  BY <1>1, NothingIs DEF Scanning, Publishing, Unpublished, Uploads
<1>5. Truthful(Nothing.envelope, n, Nothing)
  BY NothingIs, SilentIsTruthful
<1>6. Exited(n, Nothing)
  BY <1>1 DEF Exited
<1> QED BY <1>1, <1>2, <1>3, <1>4, <1>5, <1>6 DEF Sane, n

(* What is known of a pod that has not begun to publish.                   *)
LEMMA Unpublic ==
    ASSUME ScanInv, NEW a \in Pods, worker[a].pc \in Unpublished
    PROVE  /\ worker[a] \in Workers /\ object[a] = Nothing /\ Observed(worker[a])
           /\ worker[a].raw = NoFile /\ worker[a].rawEnrichment = NoFile
           /\ worker[a].exit = "none" /\ worker[a].pc # "ended"
           /\ Sane(worker[a], Nothing)
BY PodKnown DEF Sane, Scanning, Exited, Unpublished

(* A pod that goes on scanning, with the same files and no new promise.    *)
LEMMA GoesOn ==
    ASSUME NEW w \in Workers, Sane(w, Nothing), w.pc \in Unpublished,
           NEW n \in Workers, n.pc \in Unpublished \ {"waiting"}, n.exit = w.exit,
           n.failed = w.failed, n.scanned = w.scanned, n.declared = w.declared,
           n.artifact = w.artifact, n.raw = w.raw, n.rawEnrichment = w.rawEnrichment,
           Observed(n), n.pc = "discovery" => n.discovery = NoFile,
           n.pc # "final" => n.enrichment = NoFile,
           n.pc \in {"enrich", "enrichment"} => n.discovery.kind = "whole",
           n.pc = "enrichment" => n.enriches /\ n.discovery.ports # {},
           n.pc = "final" => Concluded(n)
    PROVE  Sane(n, Nothing)
<1>1. Scanning(n, Nothing)
  BY DEF Sane, Scanning
<1>2. Publishing(n, Nothing)
  BY DEF Publishing, Unpublished, Uploads
<1>3. Exited(n, Nothing)
  BY DEF Sane, Exited, Unpublished
<1>4. Truthful(Nothing.envelope, n, Nothing)
  BY NothingIs, SilentIsTruthful
<1> QED BY <1>1, <1>2, <1>3, <1>4 DEF Sane

(***************************************************************************)
(* The files Nmap leaves.                                                  *)
(***************************************************************************)
LEMMA FilesLeft ==
    ASSUME NEW seen \in SUBSET Ports, NEW scope, seen \subseteq scope,
           NEW file \in Leftovers(seen) \union Whole(seen, scope)
    PROVE  /\ file \in Files /\ Proper(file) /\ file.ports \subseteq seen
           /\ file.kind = "whole" => file.ports = seen
           /\ file.ports = scope => ~file.closed
<1>1. CASE file = NoFile \/ file = Torn
  <2>1. Torn.kind = "torn" /\ Torn.ports = {} /\ Torn.closed = FALSE
    BY DEF Torn, File
  <2>2. file.kind # "whole" /\ file.ports = {} /\ file.closed = FALSE
    BY <1>1, <2>1, NoFileIs
  <2>3. file \in Files /\ Proper(file)
    BY <1>1, <2>1, NoFileIs, ConstantTypes DEF Proper
  <2> QED BY <2>2, <2>3
<1>2. CASE \E ports \in {{}, seen} : file = File("short", ports, FALSE)
  <2>1. PICK ports \in {{}, seen} : file = File("short", ports, FALSE)
    BY <1>2
  <2>2. ports \subseteq seen /\ ports \in SUBSET Ports
    BY <2>1
  <2>3. file.kind = "short" /\ file.ports = ports /\ file.closed = FALSE /\ file \in Files
    BY <2>1, <2>2 DEF File, Files
  <2> QED BY <2>2, <2>3, NoFileIs DEF Proper
<1>3. CASE \E closed \in IF scope \subseteq seen THEN {FALSE} ELSE BOOLEAN :
              file = File("whole", seen, closed)
  <2>1. PICK closed \in BOOLEAN : file = File("whole", seen, closed)
                                  /\ (scope \subseteq seen => closed = FALSE)
    BY <1>3
  <2> QED BY <2>1 DEF Proper, NoFile, File, Files
<1> QED BY <1>1, <1>2, <1>3 DEF Leftovers, Short, Whole

(***************************************************************************)
(* The scanning steps.                                                     *)
(***************************************************************************)
LEMMA StartInv ==
    ASSUME ScanInv, NEW a \in Pods, Start(a), Announced, UNCHANGED <<ingested, rejected>>
    PROVE  ScanInv'
<1> DEFINE w == worker[a]
           budget == Budget(clock, DiscoveryTimeout)
<1>0. /\ w.pc = "waiting" /\ w.pc \in Unpublished /\ clock \in Nat /\ faults' \in Nat
      /\ UNCHANGED <<clock, open, changes, object, faults>>
  BY DEF Start, At, ScanInv, ScanTypeOK, Unpublished
<1>1. /\ w \in Workers /\ object[a] = Nothing /\ Observed(w) /\ w.raw = NoFile
      /\ w.rawEnrichment = NoFile /\ w.exit = "none" /\ w.pc # "ended" /\ Sane(w, Nothing)
  BY <1>0, Unpublic
<1>2. CASE budget = 0 \/ w.term
  <2>1. Become(a, Failure(w, FALSE, {}, TRUE))
    BY <1>2 DEF Start
  <2>2. /\ Failure(w, FALSE, {}, TRUE) \in Workers /\ Sane(Failure(w, FALSE, {}, TRUE), Nothing)
        /\ Failure(w, FALSE, {}, TRUE).pc = "putDiscovery"
    BY <1>1, FailureSane
  <2> QED BY <1>0, <1>1, <2>1, <2>2, PodMoves
<1>3. CASE ~(budget = 0 \/ w.term)
  <2> DEFINE n == [w EXCEPT !.pc = "discovery", !.until = clock + budget]
  <2>1. Become(a, n)
    BY <1>3 DEF Start
  <2>2. budget \in Nat /\ clock + budget <= NotAfter - Reserve
    BY <1>0, <1>3, BudgetFits, WorkerAssumption
  <2>3. /\ n.pc = "discovery" /\ n.until = clock + budget /\ n.exit = w.exit
        /\ n.failed = w.failed /\ n.scanned = w.scanned /\ n.declared = w.declared
        /\ n.artifact = w.artifact /\ n.raw = w.raw /\ n.rawEnrichment = w.rawEnrichment
        /\ n.discovery = w.discovery /\ n.enrichment = w.enrichment /\ n.enriches = w.enriches
        /\ n.sawDiscovery = w.sawDiscovery /\ n.sawEnrichment = w.sawEnrichment
    BY <1>1 DEF Workers
  <2> HIDE DEF budget
  <2>4. n \in Workers
    <3>1. clock + budget \in Int
      BY <1>0, <2>2
    <3> QED BY <1>1, <3>1 DEF Workers, Unpublished
  <2>5. w.discovery = NoFile /\ w.enrichment = NoFile
    BY <1>0, <1>1 DEF Sane, Scanning
  <2> HIDE DEF n, w
  <2>6. Observed(n)
    BY <1>1, <2>3 DEF Observed, Proper
  <2>7. Sane(n, Nothing)
    BY <1>0, <1>1, <2>3, <2>4, <2>5, <2>6, GoesOn DEF Unpublished
  <2>8. n.until <= NotAfter - Reserve /\ clock <= n.until + Grace
    BY <1>0, <2>2, <2>3, WorkerAssumption
  <2> QED BY <1>0, <1>1, <2>1, <2>4, <2>7, <2>8, PodMoves DEF w
<1> QED BY <1>2, <1>3

(* A phase that fails, with whatever file it leaves.                       *)
LEMMA PhaseFailsInv ==
    ASSUME ScanInv, NEW a \in Pods, Running(a), Announced, UNCHANGED <<ingested, rejected>>,
           NEW file \in Leftovers(open \intersect Scope(worker[a]))
                          \union Whole(open \intersect Scope(worker[a]), Scope(worker[a])),
           NEW killed \in BOOLEAN,
           Become(a, PhaseFails([worker[a] EXCEPT !.signalled = killed], file)),
           UNCHANGED <<clock, open, changes, object, faults>>
    PROVE  ScanInv'
<1> DEFINE w == worker[a]
           v == [w EXCEPT !.signalled = killed]
           seen == open \intersect Scope(w)
<1>0. w.pc \in Unpublished /\ w.pc \in {"discovery", "enrichment"} /\ faults' \in Nat
  BY DEF Running, Unpublished, ScanInv, ScanTypeOK
<1>1. /\ w \in Workers /\ object[a] = Nothing /\ Observed(w) /\ w.raw = NoFile
      /\ w.rawEnrichment = NoFile /\ w.exit = "none" /\ w.pc # "ended" /\ Sane(w, Nothing)
  BY <1>0, Unpublic
<1>2. open \subseteq Ports
  BY OpenPorts DEF ScanInv
<1>3. /\ file \in Files /\ Proper(file) /\ file.ports \subseteq seen
      /\ file.kind = "whole" => file.ports = seen
      /\ file.ports = Scope(w) => ~file.closed
  <2>1. seen \in SUBSET Ports /\ seen \subseteq Scope(w)
    BY <1>2
  <2> QED BY <2>1, FilesLeft
<1>v. /\ v \in Workers /\ v.pc = w.pc /\ v.discovery = w.discovery
      /\ v.enrichment = w.enrichment /\ v.sawEnrichment = w.sawEnrichment
      /\ v.sawDiscovery = w.sawDiscovery /\ v.enriches = w.enriches
      /\ v.raw = w.raw /\ v.rawEnrichment = w.rawEnrichment /\ v.exit = w.exit
  BY <1>1 DEF Workers
<1> HIDE DEF v
<1>4. CASE w.pc = "discovery"
  <2> DEFINE n == AfterDiscovery(v, file)
  <2>1. w.enrichment = NoFile /\ seen = open /\ w.discovery = NoFile
    BY <1>1, <1>2, <1>4 DEF Sane, Scanning, Unpublished, Scope
  <2>a. ~w.enriches
    BY <1>1, <2>1, NoFileIs DEF Observed
  <2>2. n \in Workers
    BY <1>v, <1>2, <1>3 DEF AfterDiscovery, Workers
  <2>3. /\ n.discovery = file /\ n.sawDiscovery = open /\ n.enrichment = w.enrichment
        /\ n.sawEnrichment = w.sawEnrichment /\ n.enriches = w.enriches /\ n.pc = w.pc
        /\ n.raw = w.raw /\ n.rawEnrichment = w.rawEnrichment /\ n.exit = w.exit
    BY <1>v DEF AfterDiscovery, Workers
  <2> HIDE DEF n, w, seen
  <2>4. Observed(n)
    BY <1>3, <2>1, <2>a, <2>3, NoFileIs DEF Observed, Proper
  <2>5. /\ Failure(n, FALSE, {}, TRUE) \in Workers /\ Sane(Failure(n, FALSE, {}, TRUE), Nothing)
        /\ Failure(n, FALSE, {}, TRUE).pc = "putDiscovery"
    BY <1>1, <2>2, <2>3, <2>4, FailureSane
  <2>6. Become(a, Failure(n, FALSE, {}, TRUE))
    BY <1>v, <1>4 DEF PhaseFails, n, w, v
  <2> QED BY <1>0, <1>1, <2>5, <2>6, PodMoves DEF w
<1>5. CASE w.pc = "enrichment"
  <2> DEFINE n == AfterEnrichment(v, file)
  <2>1. Scope(w) = w.discovery.ports /\ w.discovery.ports \in SUBSET Ports /\ w.enriches
    BY <1>0, <1>1, <1>5 DEF Sane, Scanning, Scope, Workers, Files
  <2>2. n \in Workers
    BY <1>v, <1>2, <1>3 DEF AfterEnrichment, Workers
  <2>3. /\ n.enrichment = file /\ n.sawEnrichment = open /\ n.discovery = w.discovery
        /\ n.sawDiscovery = w.sawDiscovery /\ n.enriches = w.enriches /\ n.pc = w.pc
        /\ n.raw = w.raw /\ n.rawEnrichment = w.rawEnrichment /\ n.exit = w.exit
    BY <1>v DEF AfterEnrichment, Workers
  <2>4. seen \subseteq open /\ seen \subseteq w.discovery.ports
    BY <2>1
  <2> HIDE DEF n, w, seen
  <2>5. Observed(n)
    BY <1>1, <1>3, <2>1, <2>3, <2>4 DEF Observed
  <2> DEFINE f == Failure(n, TRUE, w.discovery.ports, TRUE)
  <2>6. f \in Workers /\ Sane(f, Nothing) /\ f.pc = "putDiscovery"
    BY <1>1, <2>1, <2>2, <2>3, <2>5, FailureSane
  <2>7. Become(a, f)
    BY <1>v, <1>5 DEF PhaseFails, n, w, v
  <2> QED BY <1>0, <1>1, <2>6, <2>7, PodMoves DEF w
<1> QED BY <1>0, <1>4, <1>5

LEMMA NmapFailsInv ==
    ASSUME ScanInv, NEW a \in Pods, NmapStopped(a) \/ NmapFails(a), Announced,
           UNCHANGED <<ingested, rejected>>
    PROVE  ScanInv'
<1> DEFINE w == worker[a]
           seen == open \intersect Scope(w)
<1>1. Running(a) /\ UNCHANGED <<clock, open, changes, object, faults>>
  BY DEF NmapStopped, NmapFails
<1>2. Finished(w, seen) \subseteq Whole(seen, Scope(w))
  BY DEF Finished, Whole, Scope
<1>3. CASE NmapFails(a)
  <2>1. PICK killed \in BOOLEAN, file \in Leftovers(seen) \union Whole(seen, Scope(w)) :
            Become(a, PhaseFails([w EXCEPT !.signalled = killed], file))
    BY <1>2, <1>3 DEF NmapFails
  <2> QED BY <1>1, <2>1, PhaseFailsInv
<1>4. CASE NmapStopped(a)
  <2>1. PICK file \in Leftovers(seen) \union Whole(seen, Scope(w)) :
            Become(a, PhaseFails(w, file))
    BY <1>2, <1>4 DEF NmapStopped
  <2>2. w.signalled \in BOOLEAN /\ w = [w EXCEPT !.signalled = w.signalled]
    BY PodKnown DEF Workers
  <2>3. Become(a, PhaseFails([w EXCEPT !.signalled = w.signalled], file))
    BY <2>1, <2>2
  <2> QED BY <1>1, <2>1, <2>2, <2>3, PhaseFailsInv
<1> QED BY <1>3, <1>4

LEMMA DiscoveryExitsInv ==
    ASSUME ScanInv, NEW a \in Pods, DiscoveryExits(a), Announced, UNCHANGED <<ingested, rejected>>
    PROVE  ScanInv'
<1> DEFINE w == worker[a]
<1>0. /\ w.pc = "discovery" /\ w.pc \in Unpublished /\ faults' \in Nat
      /\ UNCHANGED <<clock, open, changes, object, faults>>
  BY DEF DiscoveryExits, At, Unpublished, ScanInv, ScanTypeOK
<1>1. /\ w \in Workers /\ object[a] = Nothing /\ Observed(w) /\ w.raw = NoFile
      /\ w.rawEnrichment = NoFile /\ w.exit = "none" /\ w.pc # "ended" /\ Sane(w, Nothing)
  BY <1>0, Unpublic
<1>2. open \in SUBSET Ports /\ open \subseteq open
  BY OpenPorts DEF ScanInv
<1>3. PICK file \in Short(open) \union {File("whole", open, FALSE)} :
          Become(a, [AfterDiscovery(w, file) EXCEPT !.pc = "check"])
  BY <1>0 DEF DiscoveryExits, Finished
<1>4. /\ file \in Files /\ Proper(file) /\ file.ports \subseteq open
      /\ file.kind = "whole" => file.ports = open
  <2>1. file \in Leftovers(open) \union Whole(open, open)
    BY <1>3 DEF Leftovers, Whole
  <2> QED BY <1>2, <2>1, FilesLeft
<1> DEFINE n == [AfterDiscovery(w, file) EXCEPT !.pc = "check"]
<1>5. n \in Workers
  BY <1>1, <1>2, <1>4 DEF AfterDiscovery, Workers, Unpublished
<1>6. /\ n.pc = "check" /\ n.exit = w.exit
      /\ n.failed = w.failed /\ n.scanned = w.scanned /\ n.declared = w.declared
      /\ n.artifact = w.artifact /\ n.raw = w.raw /\ n.rawEnrichment = w.rawEnrichment
      /\ n.discovery = file /\ n.enrichment = w.enrichment /\ n.enriches = w.enriches
      /\ n.sawDiscovery = open /\ n.sawEnrichment = w.sawEnrichment
  BY <1>1 DEF AfterDiscovery, Workers
<1>7. w.enrichment = NoFile /\ ~w.enriches
  BY <1>0, <1>1, NoFileIs DEF Sane, Scanning, Observed
<1> HIDE DEF n, w
<1>8. Observed(n)
  BY <1>4, <1>6, <1>7, NoFileIs DEF Observed, Proper
<1>9. Sane(n, Nothing)
  BY <1>0, <1>1, <1>5, <1>6, <1>7, <1>8, GoesOn DEF Unpublished
<1> QED BY <1>0, <1>1, <1>3, <1>5, <1>6, <1>9, PodMoves DEF w, n

(* A pod that moves on without having looked at anything.                  *)
LEMMA MovesOn ==
    ASSUME ScanInv, NEW a \in Pods, worker[a].pc \in Unpublished, Announced,
           UNCHANGED <<ingested, rejected, clock, open, changes, object, faults>>,
           NEW pc \in {"enrich", "final"},
           Become(a, [worker[a] EXCEPT !.pc = pc]),
           pc = "enrich" => worker[a].discovery.kind = "whole" /\ worker[a].enrichment = NoFile,
           pc = "final" => Concluded(worker[a])
    PROVE  ScanInv'
<1> DEFINE w == worker[a]
           n == [w EXCEPT !.pc = pc]
<1>1. /\ w \in Workers /\ object[a] = Nothing /\ Observed(w) /\ w.pc # "ended"
      /\ Sane(w, Nothing) /\ faults' \in Nat
  BY Unpublic DEF ScanInv, ScanTypeOK
<1>2. n \in Workers
  BY <1>1 DEF Workers, Unpublished
<1>3. /\ n.pc = pc /\ n.exit = w.exit
      /\ n.failed = w.failed /\ n.scanned = w.scanned /\ n.declared = w.declared
      /\ n.artifact = w.artifact /\ n.raw = w.raw /\ n.rawEnrichment = w.rawEnrichment
      /\ n.discovery = w.discovery /\ n.enrichment = w.enrichment /\ n.enriches = w.enriches
      /\ n.sawDiscovery = w.sawDiscovery /\ n.sawEnrichment = w.sawEnrichment
  BY <1>1 DEF Workers
<1>4. Become(a, n)
  OBVIOUS
<1> HIDE DEF n
<1>5. Observed(n)
  BY <1>1, <1>3 DEF Observed, Proper
<1>6. Concluded(w) => Concluded(n)
  BY <1>3 DEF Concluded
<1>7. Sane(n, Nothing)
  BY <1>1, <1>2, <1>3, <1>5, <1>6, GoesOn DEF Unpublished
<1> QED BY <1>1, <1>2, <1>3, <1>4, <1>7, PodMoves

(* A pod that fails without having looked at anything.                     *)
LEMMA FailsOn ==
    ASSUME ScanInv, NEW a \in Pods, worker[a].pc \in Unpublished, Announced,
           UNCHANGED <<ingested, rejected, clock, open, changes, object, faults>>,
           NEW scanned \in BOOLEAN, NEW ports \in SUBSET Ports, ports # {} => scanned,
           Become(a, Failure(worker[a], scanned, ports, TRUE))
    PROVE  ScanInv'
<1> DEFINE f == Failure(worker[a], scanned, ports, TRUE)
<1>1. object[a] = Nothing /\ worker[a].pc # "ended" /\ faults' \in Nat
  BY Unpublic DEF ScanInv, ScanTypeOK
<1>2. f \in Workers /\ Sane(f, Nothing) /\ f.pc = "putDiscovery"
  BY Unpublic, FailureSane
<1>3. Become(a, f)
  OBVIOUS
<1> HIDE DEF f
<1> QED BY <1>1, <1>2, <1>3, PodMoves

LEMMA DiscoveryCheckInv ==
    ASSUME ScanInv, NEW a \in Pods, DiscoveryCheck(a), Announced, UNCHANGED <<ingested, rejected>>
    PROVE  ScanInv'
<1> DEFINE w == worker[a]
<1>0. /\ w.pc = "check" /\ w.pc \in Unpublished /\ UNCHANGED <<clock, open, changes, object, faults>>
  BY DEF DiscoveryCheck, At, Unpublished
<1>1. CASE w.term \/ w.discovery.kind # "whole"
  <2>1. Become(a, Failure(w, FALSE, {}, TRUE))
    BY <1>1 DEF DiscoveryCheck
  <2>2. FALSE \in BOOLEAN /\ {} \in SUBSET Ports /\ ({} # {} => FALSE)
    OBVIOUS
  <2> QED BY <1>0, <2>1, <2>2, FailsOn
<1>2. CASE ~(w.term \/ w.discovery.kind # "whole")
  <2>1. Become(a, [w EXCEPT !.pc = "enrich"])
    BY <1>2 DEF DiscoveryCheck
  <2>2. w.enrichment = NoFile
    BY <1>0, Unpublic DEF Sane, Scanning
  <2> QED BY <1>0, <1>2, <2>1, <2>2, MovesOn
<1> QED BY <1>1, <1>2

LEMMA EnrichmentExitsInv ==
    ASSUME ScanInv, NEW a \in Pods, EnrichmentExits(a), Announced, UNCHANGED <<ingested, rejected>>
    PROVE  ScanInv'
<1> DEFINE w == worker[a]
           seen == open \intersect Scope(w)
<1>0. /\ w.pc = "enrichment" /\ w.pc \in Unpublished /\ faults' \in Nat
      /\ UNCHANGED <<clock, open, changes, object, faults>>
  BY DEF EnrichmentExits, At, Unpublished, ScanInv, ScanTypeOK
<1>1. /\ w \in Workers /\ object[a] = Nothing /\ Observed(w) /\ w.raw = NoFile
      /\ w.rawEnrichment = NoFile /\ w.exit = "none" /\ w.pc # "ended" /\ Sane(w, Nothing)
  BY <1>0, Unpublic
<1>2. open \subseteq Ports
  BY OpenPorts DEF ScanInv
<1>3. PICK file \in Short(seen) \union Whole(seen, Scope(w)) :
          Become(a, Enriched(AfterEnrichment(w, file), file))
  <2>1. Finished(w, seen) = Whole(seen, Scope(w))
    BY <1>0 DEF Finished, Scope
  <2> QED BY <2>1 DEF EnrichmentExits
<1>4. /\ file \in Files /\ Proper(file) /\ file.ports \subseteq seen
      /\ file.ports = Scope(w) => ~file.closed
  <2>1. file \in Leftovers(seen) \union Whole(seen, Scope(w))
    BY <1>3 DEF Leftovers
  <2>2. seen \in SUBSET Ports /\ seen \subseteq Scope(w)
    BY <1>2
  <2> QED BY <2>1, <2>2, FilesLeft
<1>5. /\ Scope(w) = w.discovery.ports /\ w.discovery.ports \in SUBSET Ports /\ w.enriches
      /\ w.discovery.kind = "whole" /\ w.discovery.ports # {}
  BY <1>0, <1>1 DEF Sane, Scanning, Scope, Workers, Files
<1> DEFINE n == AfterEnrichment(w, file)
<1>6. n \in Workers
  BY <1>1, <1>2, <1>4 DEF AfterEnrichment, Workers
<1>7. /\ n.enrichment = file /\ n.sawEnrichment = open /\ n.discovery = w.discovery
      /\ n.sawDiscovery = w.sawDiscovery /\ n.enriches = w.enriches
      /\ n.failed = w.failed /\ n.scanned = w.scanned /\ n.declared = w.declared
      /\ n.artifact = w.artifact /\ n.raw = w.raw /\ n.rawEnrichment = w.rawEnrichment
      /\ n.exit = w.exit /\ n.pc = w.pc
  BY <1>1 DEF AfterEnrichment, Workers
<1>8. seen \subseteq open /\ seen \subseteq w.discovery.ports
  BY <1>5
<1>9. Become(a, Enriched(n, file))
  BY <1>3
<1> HIDE DEF n, w, seen
<1>10. Observed(n)
  BY <1>1, <1>4, <1>5, <1>7, <1>8 DEF Observed
<1>11. CASE file.ports # n.discovery.ports
  <2> DEFINE f == Failure(n, FALSE, {}, FALSE)
  <2>1. f \in Workers /\ Sane(f, Nothing) /\ f.pc = "putDiscovery"
    BY <1>1, <1>6, <1>7, <1>10, FailureSane
  <2>2. Become(a, f)
    BY <1>9, <1>11 DEF Enriched
  <2> QED BY <1>0, <1>1, <2>1, <2>2, PodMoves DEF w
<1>12. CASE file.ports = n.discovery.ports /\ file.kind = "whole"
  <2> DEFINE m == [n EXCEPT !.pc = "final"]
  <2>1. m \in Workers
    BY <1>6 DEF Workers, Unpublished
  <2>2. /\ m.pc = "final" /\ m.exit = n.exit
        /\ m.failed = n.failed /\ m.scanned = n.scanned /\ m.declared = n.declared
        /\ m.artifact = n.artifact /\ m.raw = n.raw /\ m.rawEnrichment = n.rawEnrichment
        /\ m.discovery = n.discovery /\ m.enrichment = n.enrichment /\ m.enriches = n.enriches
        /\ m.sawDiscovery = n.sawDiscovery /\ m.sawEnrichment = n.sawEnrichment
    BY <1>6 DEF Workers
  <2>3. Become(a, m)
    BY <1>9, <1>12 DEF Enriched
  <2> HIDE DEF m
  <2>4. Observed(m)
    BY <1>0, <1>7, <1>10, <2>2 DEF Observed, Proper, Unpublished
  <2>5. Concluded(m)
    BY <1>5, <1>7, <1>12, <2>2 DEF Concluded
  <2>6. Sane(m, Nothing)
    BY <1>0, <1>1, <1>7, <2>1, <2>2, <2>4, <2>5, GoesOn DEF Unpublished
  <2> QED BY <1>0, <1>1, <2>1, <2>2, <2>3, <2>6, PodMoves DEF w
<1>13. CASE file.ports = n.discovery.ports /\ file.kind # "whole"
  <2> DEFINE f == Failure(n, TRUE, n.discovery.ports, TRUE)
  <2>1. f \in Workers /\ Sane(f, Nothing) /\ f.pc = "putDiscovery"
    BY <1>1, <1>5, <1>6, <1>7, <1>10, FailureSane
  <2>2. Become(a, f)
    BY <1>9, <1>13 DEF Enriched
  <2> QED BY <1>0, <1>1, <2>1, <2>2, PodMoves DEF w
<1> QED BY <1>11, <1>12, <1>13

LEMMA StartEnrichmentInv ==
    ASSUME ScanInv, NEW a \in Pods, StartEnrichment(a), Announced, UNCHANGED <<ingested, rejected>>
    PROVE  ScanInv'
<1> DEFINE w == worker[a]
           found == w.discovery.ports
           budget == Budget(clock, EnrichmentTimeout)
           probing == [w EXCEPT !.enriches = TRUE]
           tooMany == Len(FromPorts(found)) > MaxTerms
<1>0. /\ w.pc = "enrich" /\ w.pc \in Unpublished /\ clock \in Nat /\ faults' \in Nat
      /\ UNCHANGED <<clock, open, changes, object, faults>>
  BY DEF StartEnrichment, At, Unpublished, ScanInv, ScanTypeOK
<1>1. /\ w \in Workers /\ object[a] = Nothing /\ Observed(w) /\ w.raw = NoFile
      /\ w.rawEnrichment = NoFile /\ w.exit = "none" /\ w.pc # "ended" /\ Sane(w, Nothing)
  BY <1>0, Unpublic
<1>2. w.discovery.kind = "whole" /\ w.enrichment = NoFile /\ found \in SUBSET Ports
  BY <1>0, <1>1 DEF Sane, Scanning, Workers, Files
<1>3. Become(a, IF found = {} THEN [w EXCEPT !.pc = "final"]
                ELSE IF tooMany THEN Ended(w, "refused")
                ELSE IF budget = 0 \/ w.term THEN Failure(probing, TRUE, found, TRUE)
                ELSE [probing EXCEPT !.pc = "enrichment", !.until = clock + budget])
  BY DEF StartEnrichment
<1> HIDE DEF tooMany
<1>4. CASE found = {}
  <2>1. Become(a, [w EXCEPT !.pc = "final"])
    BY <1>3, <1>4
  <2>2. Concluded(w)
    BY <1>2, <1>4 DEF Concluded
  <2> QED BY <1>0, <2>1, <2>2, MovesOn
<1>5. CASE found # {} /\ tooMany
  <2>1. Become(a, Ended(w, "refused"))
    BY <1>3, <1>5
  <2>2. Truthful(Nothing.envelope, w, Nothing) /\ Nothing \in Objects
    BY NothingIs, SilentIsTruthful, ConstantTypes
  <2>3. /\ Ended(w, "refused") \in Workers /\ Sane(Ended(w, "refused"), Nothing)
        /\ Ended(w, "refused").pc = "ended"
    BY <1>1, <2>2, EndedSane
  <2> QED BY <1>0, <1>1, <2>1, <2>3, PodMoves
<1>6. /\ probing \in Workers
      /\ probing.pc = w.pc /\ probing.exit = w.exit /\ probing.enriches = TRUE
      /\ probing.failed = w.failed /\ probing.scanned = w.scanned /\ probing.declared = w.declared
      /\ probing.artifact = w.artifact /\ probing.raw = w.raw
      /\ probing.rawEnrichment = w.rawEnrichment
      /\ probing.discovery = w.discovery /\ probing.enrichment = w.enrichment
      /\ probing.sawDiscovery = w.sawDiscovery /\ probing.sawEnrichment = w.sawEnrichment
  BY <1>1 DEF Workers
<1> HIDE DEF w, probing
<1>7. Observed(probing)
  BY <1>1, <1>2, <1>6 DEF Observed, Proper
<1>8. CASE found # {} /\ ~tooMany /\ (budget = 0 \/ w.term)
  <2> DEFINE f == Failure(probing, TRUE, found, TRUE)
  <2>1. Become(a, f)
    BY <1>3, <1>8
  <2>2. f \in Workers /\ Sane(f, Nothing) /\ f.pc = "putDiscovery"
    BY <1>1, <1>2, <1>6, <1>7, FailureSane
  <2> HIDE DEF f
  <2> QED BY <1>0, <1>1, <2>1, <2>2, PodMoves DEF w
<1>9. CASE found # {} /\ ~tooMany /\ ~(budget = 0 \/ w.term)
  <2> DEFINE n == [probing EXCEPT !.pc = "enrichment", !.until = clock + budget]
  <2>1. Become(a, n)
    BY <1>3, <1>9
  <2>2. budget \in Nat /\ clock + budget <= NotAfter - Reserve
    BY <1>0, <1>9, BudgetFits, WorkerAssumption
  <2> HIDE DEF budget
  <2>3. /\ n.pc = "enrichment" /\ n.until = clock + budget /\ n.exit = probing.exit
        /\ n.failed = probing.failed /\ n.scanned = probing.scanned
        /\ n.declared = probing.declared /\ n.artifact = probing.artifact
        /\ n.raw = probing.raw /\ n.rawEnrichment = probing.rawEnrichment
        /\ n.discovery = probing.discovery /\ n.enrichment = probing.enrichment
        /\ n.enriches = probing.enriches /\ n.sawDiscovery = probing.sawDiscovery
        /\ n.sawEnrichment = probing.sawEnrichment
    BY <1>6 DEF Workers
  <2>4. n \in Workers
    <3>1. clock + budget \in Int
      BY <1>0, <2>2
    <3> QED BY <1>6, <3>1 DEF Workers, Unpublished
  <2> HIDE DEF n
  <2>5. Observed(n)
    BY <1>2, <1>6, <1>7, <2>3 DEF Observed, Proper
  <2>6. Sane(n, Nothing)
    BY <1>0, <1>1, <1>2, <1>6, <1>9, <2>3, <2>4, <2>5, GoesOn DEF Unpublished
  <2>7. n.until <= NotAfter - Reserve /\ clock <= n.until + Grace
    BY <1>0, <2>2, <2>3, WorkerAssumption
  <2> QED BY <1>0, <1>1, <2>1, <2>4, <2>6, <2>7, PodMoves DEF w
<1> QED BY <1>4, <1>5, <1>8, <1>9

LEMMA FinalCheckInv ==
    ASSUME ScanInv, NEW a \in Pods, FinalCheck(a), Announced, UNCHANGED <<ingested, rejected>>
    PROVE  ScanInv'
<1> DEFINE w == worker[a]
           found == w.discovery.ports
<1>0. /\ w.pc = "final" /\ w.pc \in Unpublished /\ faults' \in Nat
      /\ UNCHANGED <<clock, open, changes, object, faults>>
  BY DEF FinalCheck, At, Unpublished, ScanInv, ScanTypeOK
<1>1. /\ w \in Workers /\ object[a] = Nothing /\ Observed(w) /\ w.raw = NoFile
      /\ w.rawEnrichment = NoFile /\ w.exit = "none" /\ w.pc # "ended" /\ Sane(w, Nothing)
  BY <1>0, Unpublic
<1>2. Concluded(w) /\ w.artifact /\ w.failed = FALSE /\ found \in SUBSET Ports
  BY <1>0, <1>1 DEF Sane, Scanning, Workers, Files
<1>3. CASE w.term
  <2>1. Become(a, Failure(w, TRUE, found, TRUE))
    BY <1>3 DEF FinalCheck
  <2> QED BY <1>0, <1>2, <2>1, FailsOn
<1>4. CASE ~w.term
  <2> DEFINE n == [w EXCEPT !.pc = "putDiscovery", !.scanned = TRUE, !.declared = found]
  <2>1. Become(a, n)
    BY <1>4 DEF FinalCheck
  <2>2. n \in Workers
    BY <1>1, <1>2 DEF Workers, Uploads
  <2>3. /\ n.pc = "putDiscovery" /\ n.exit = w.exit /\ n.scanned = TRUE /\ n.declared = found
        /\ n.failed = w.failed /\ n.artifact = w.artifact /\ n.raw = w.raw
        /\ n.rawEnrichment = w.rawEnrichment /\ n.discovery = w.discovery
        /\ n.enrichment = w.enrichment /\ n.enriches = w.enriches
        /\ n.sawDiscovery = w.sawDiscovery /\ n.sawEnrichment = w.sawEnrichment
    BY <1>1 DEF Workers
  <2> HIDE DEF n
  <2>4. Observed(n)
    BY <1>1, <2>3 DEF Observed, Proper
  <2>5. Concluded(n)
    BY <1>2, <2>3 DEF Concluded
  <2>6. Scanning(n, Nothing) /\ Publishing(n, Nothing)
    BY <1>1, <1>2, <2>3, <2>5, NothingIs DEF Scanning, Publishing, Unpublished, Uploads
  <2>7. Exited(n, Nothing) /\ Truthful(Nothing.envelope, n, Nothing)
    BY <1>1, <2>3, NothingIs, SilentIsTruthful DEF Exited
  <2>8. Sane(n, Nothing)
    BY <2>4, <2>6, <2>7 DEF Sane
  <2> QED BY <1>0, <1>1, <2>1, <2>2, <2>3, <2>8, PodMoves
<1> QED BY <1>3, <1>4

(***************************************************************************)
(* Publication.                                                            *)
(***************************************************************************)

(* States n and w of a pod agree on the scan and differ in its upload.     *)
SameScan(n, w) ==
    /\ n.discovery = w.discovery /\ n.enrichment = w.enrichment /\ n.enriches = w.enriches
    /\ n.failed = w.failed /\ n.scanned = w.scanned /\ n.declared = w.declared
    /\ n.artifact = w.artifact /\ n.exit = w.exit
    /\ n.sawDiscovery = w.sawDiscovery /\ n.sawEnrichment = w.sawEnrichment

(* The next upload, with or without a reference to the last one.           *)
LEMMA NextUpload ==
    ASSUME NEW w \in Workers, NEW o \in Objects, Sane(w, o), w.pc \in Uploads,
           NEW n \in Workers, NEW p \in Objects, SameScan(n, w), p.envelope = o.envelope,
           \/ /\ w.pc = "putDiscovery" /\ n.pc = "putEnrichment"
              /\ p.enrichment = o.enrichment /\ n.rawEnrichment = w.rawEnrichment
              /\ n.raw \in {NoFile, w.discovery} /\ n.raw \in {NoFile, p.discovery}
              /\ ~w.failed => n.raw = w.discovery
           \/ /\ w.pc = "putEnrichment" /\ n.pc = "putEnvelope"
              /\ p.discovery = o.discovery /\ n.raw = w.raw
              /\ n.rawEnrichment \in {NoFile, w.enrichment}
              /\ n.rawEnrichment \in {NoFile, p.enrichment}
              /\ ~w.failed => n.rawEnrichment = w.enrichment
    PROVE  Sane(n, p)
<1>1. n.pc \in Uploads /\ n.pc \notin Unpublished /\ n.pc # "ended" /\ w.pc # "ended"
  BY DEF Uploads, Unpublished
<1>2. Observed(n)
  BY DEF Sane, Observed, SameScan, Proper
<1>3. Scanning(n, p)
  BY <1>1 DEF Scanning
<1>4. Concluded(w) => Concluded(n)
  BY DEF Concluded, SameScan
<1>5. Publishing(n, p)
  <2>1. Publishing(w, o)
    BY DEF Sane
  <2>2. CASE w.pc = "putDiscovery"
    BY <1>4, <2>1, <2>2 DEF Publishing, SameScan, Uploads
  <2>3. CASE w.pc # "putDiscovery"
    BY <1>4, <2>1, <2>3 DEF Publishing, SameScan, Uploads
  <2> QED BY <2>2, <2>3
<1>6. p.envelope = NoEnvelope
  BY DEF Sane, Publishing
<1>7. Truthful(p.envelope, n, p)
  BY <1>6, SilentIsTruthful
<1>8. Exited(n, p)
  BY <1>1 DEF Sane, Exited, SameScan
<1> QED BY <1>2, <1>3, <1>5, <1>7, <1>8 DEF Sane

(* A pod that gives up after an upload that went wrong.                    *)
LEMMA LostSane ==
    ASSUME NEW w \in Workers, NEW o \in Objects, Truthful(o.envelope, w, o)
    PROVE  /\ [Ended(w, "error") EXCEPT !.lostPut = TRUE] \in Workers
           /\ Sane([Ended(w, "error") EXCEPT !.lostPut = TRUE], o)
           /\ [Ended(w, "error") EXCEPT !.lostPut = TRUE].pc = "ended"
<1> DEFINE l == [w EXCEPT !.lostPut = TRUE]
<1>1. l \in Workers /\ l.lostPut = TRUE
      /\ l.sawDiscovery = w.sawDiscovery /\ l.sawEnrichment = w.sawEnrichment
      /\ l.signalled = w.signalled /\ l.enriches = w.enriches
  BY DEF Workers
<1>2. Truthful(o.envelope, l, o)
  BY <1>1 DEF Truthful
<1> HIDE DEF l
<1>3. [Ended(w, "error") EXCEPT !.lostPut = TRUE] = Ended(l, "error")
  <2>1. NotStarted \in Workers
    BY ConstantTypes
  <2> DEFINE k == w.signalled
             h == w.enriches
             d == w.sawDiscovery
             g == w.sawEnrichment
             m == w.lostPut
  <2>2. Ended(w, "error") = [NotStarted EXCEPT !.pc = "ended", !.exit = "error", !.lostPut = m,
                                !.signalled = k, !.enriches = h, !.sawDiscovery = d,
                                !.sawEnrichment = g]
    BY DEF Ended
  <2>3. Ended(l, "error") = [NotStarted EXCEPT !.pc = "ended", !.exit = "error", !.lostPut = TRUE,
                                !.signalled = k, !.enriches = h, !.sawDiscovery = d,
                                !.sawEnrichment = g]
    BY <1>1 DEF Ended
  <2> HIDE DEF k, h, d, g, m
  <2> QED BY <2>1, <2>2, <2>3 DEF Workers
<1>4. /\ Ended(l, "error") \in Workers /\ Sane(Ended(l, "error"), o)
      /\ Ended(l, "error").pc = "ended"
  BY <1>1, <1>2, EndedSane
<1> QED BY <1>3, <1>4

(* What is known of a pod that publishes.                                  *)
LEMMA Public ==
    ASSUME ScanInv, NEW a \in Pods, worker[a].pc \in Uploads
    PROVE  /\ worker[a] \in Workers /\ object[a] \in Objects /\ worker[a].pc # "ended"
           /\ Sane(worker[a], object[a]) /\ Observed(worker[a])
           /\ Publishing(worker[a], object[a]) /\ object[a].envelope = NoEnvelope
BY PodKnown DEF Sane, Publishing, Uploads

LEMMA PutDiscoveryInv ==
    ASSUME ScanInv, NEW a \in Pods, PutRaw(a, "discovery"), Announced,
           UNCHANGED <<ingested, rejected>>
    PROVE  ScanInv'
<1> DEFINE w == worker[a]
           o == object[a]
           with == [w EXCEPT !.pc = "putEnrichment", !.raw = w.discovery]
           without == [w EXCEPT !.pc = "putEnrichment"]
           lost == [without EXCEPT !.lostPut = TRUE]
           given == [Ended(w, "error") EXCEPT !.lostPut = TRUE]
           stored == [o EXCEPT !.discovery = w.discovery]
<1>0. /\ w.pc = "putDiscovery" /\ w.pc \in Uploads /\ faults \in Nat
      /\ UNCHANGED <<clock, open, changes>>
  BY DEF PutRaw, At, Uploads, ScanInv, ScanTypeOK
<1>1. /\ w \in Workers /\ o \in Objects /\ w.pc # "ended" /\ Sane(w, o) /\ Observed(w)
      /\ Publishing(w, o) /\ o.envelope = NoEnvelope
  BY <1>0, Public
<1>2. o.discovery = NoFile /\ w.raw = NoFile /\ (~w.failed => w.discovery.kind = "whole")
  BY <1>0, <1>1 DEF Publishing, Concluded
<1>3. /\ stored \in Objects /\ stored.discovery = w.discovery
      /\ stored.enrichment = o.enrichment /\ stored.envelope = o.envelope
  BY <1>1 DEF Objects, Workers
<1>4. /\ with \in Workers /\ SameScan(with, w) /\ with.pc = "putEnrichment"
      /\ with.raw = w.discovery /\ with.rawEnrichment = w.rawEnrichment
  BY <1>1 DEF Workers, SameScan, Uploads
<1>5. /\ without \in Workers /\ SameScan(without, w) /\ without.pc = "putEnrichment"
      /\ without.raw = w.raw /\ without.rawEnrichment = w.rawEnrichment
  BY <1>1 DEF Workers, SameScan, Uploads
<1>6. /\ lost \in Workers /\ SameScan(lost, w) /\ lost.pc = "putEnrichment"
      /\ lost.raw = w.raw /\ lost.rawEnrichment = w.rawEnrichment
  BY <1>1 DEF Workers, SameScan, Uploads
<1>7. \/ /\ w.discovery.kind = "none" /\ Become(a, without) /\ UNCHANGED <<object, faults>>
      \/ /\ w.discovery.kind # "none" /\ Become(a, with) /\ UNCHANGED faults
         /\ object' = [object EXCEPT ![a].discovery = w.discovery]
      \/ /\ w.discovery.kind # "none" /\ faults' = faults + 1
         /\ \/ object' = [object EXCEPT ![a].discovery = w.discovery]
            \/ object' = object
         /\ Become(a, IF w.failed THEN lost ELSE given)
  BY <1>2 DEF PutRaw, Put, WithReference, WithoutReference, Prefix, Fault
<1> HIDE DEF with, without, lost, given
<1>8. CASE w.discovery.kind = "none" /\ Become(a, without) /\ UNCHANGED <<object, faults>>
  <2>1. Sane(without, o)
    BY <1>0, <1>1, <1>2, <1>5, <1>8, NextUpload
  <2> QED BY <1>0, <1>1, <1>5, <1>8, <2>1, PodMoves
<1>9. [object EXCEPT ![a].discovery = w.discovery] = [object EXCEPT ![a] = stored]
      /\ object = [object EXCEPT ![a] = o]
  BY DEF ScanInv, ScanTypeOK
<1>10. CASE Become(a, with) /\ UNCHANGED faults
            /\ object' = [object EXCEPT ![a].discovery = w.discovery]
  <2>1. Sane(with, stored)
    BY <1>0, <1>1, <1>3, <1>4, NextUpload
  <2>2. object' = [object EXCEPT ![a] = stored] /\ faults' \in Nat
    BY <1>0, <1>9, <1>10
  <2> HIDE DEF stored
  <2> QED BY <1>0, <1>1, <1>3, <1>4, <1>10, <2>1, <2>2, PodStep
<1>11. CASE /\ faults' = faults + 1
            /\ \/ object' = [object EXCEPT ![a].discovery = w.discovery]
               \/ object' = object
            /\ Become(a, IF w.failed THEN lost ELSE given)
  <2>1. PICK p \in {stored, o} : object' = [object EXCEPT ![a] = p]
    BY <1>9, <1>11
  <2>2. p \in Objects /\ p.enrichment = o.enrichment /\ p.envelope = o.envelope
    BY <1>1, <1>3, <2>1
  <2>3. Truthful(p.envelope, w, p)
    BY <1>1, <2>2, SilentIsTruthful
  <2>4. given \in Workers /\ Sane(given, p) /\ given.pc = "ended"
    BY <1>1, <2>2, <2>3, LostSane DEF given
  <2>5. w.failed => Sane(lost, p)
    BY <1>0, <1>1, <1>2, <1>6, <2>2, NextUpload
  <2>6. faults' \in Nat
    BY <1>0, <1>11
  <2> QED BY <1>0, <1>1, <1>6, <1>11, <2>1, <2>2, <2>4, <2>5, <2>6, PodStep
<1> QED BY <1>7, <1>8, <1>10, <1>11

LEMMA PutEnrichmentInv ==
    ASSUME ScanInv, NEW a \in Pods, PutRaw(a, "enrichment"), Announced,
           UNCHANGED <<ingested, rejected>>
    PROVE  ScanInv'
<1> DEFINE w == worker[a]
           o == object[a]
           with == [w EXCEPT !.pc = "putEnvelope", !.rawEnrichment = w.enrichment]
           without == [w EXCEPT !.pc = "putEnvelope"]
           lost == [without EXCEPT !.lostPut = TRUE]
           given == [Ended(w, "error") EXCEPT !.lostPut = TRUE]
           stored == [o EXCEPT !.enrichment = w.enrichment]
<1>0. /\ w.pc = "putEnrichment" /\ w.pc \in Uploads /\ faults \in Nat
      /\ UNCHANGED <<clock, open, changes>>
  BY DEF PutRaw, At, Uploads, ScanInv, ScanTypeOK
<1>1. /\ w \in Workers /\ o \in Objects /\ w.pc # "ended" /\ Sane(w, o) /\ Observed(w)
      /\ Publishing(w, o) /\ o.envelope = NoEnvelope
  BY <1>0, Public
<1>2. o.enrichment = NoFile /\ w.rawEnrichment = NoFile /\ (~w.failed => w.artifact)
      /\ (w.enrichment.kind = "none" => w.enrichment = NoFile)
  BY <1>0, <1>1 DEF Publishing, Observed, Proper
<1>3. /\ stored \in Objects /\ stored.enrichment = w.enrichment
      /\ stored.discovery = o.discovery /\ stored.envelope = o.envelope
  BY <1>1 DEF Objects, Workers
<1>4. /\ with \in Workers /\ SameScan(with, w) /\ with.pc = "putEnvelope"
      /\ with.rawEnrichment = w.enrichment /\ with.raw = w.raw
  BY <1>1 DEF Workers, SameScan, Uploads
<1>5. /\ without \in Workers /\ SameScan(without, w) /\ without.pc = "putEnvelope"
      /\ without.raw = w.raw /\ without.rawEnrichment = w.rawEnrichment
  BY <1>1 DEF Workers, SameScan, Uploads
<1>6. /\ lost \in Workers /\ SameScan(lost, w) /\ lost.pc = "putEnvelope"
      /\ lost.raw = w.raw /\ lost.rawEnrichment = w.rawEnrichment
  BY <1>1 DEF Workers, SameScan, Uploads
<1>7. \/ /\ w.enrichment.kind = "none" \/ ~w.artifact
         /\ Become(a, without) /\ UNCHANGED <<object, faults>>
      \/ /\ Become(a, with) /\ UNCHANGED faults
         /\ object' = [object EXCEPT ![a].enrichment = w.enrichment]
      \/ /\ faults' = faults + 1
         /\ \/ object' = [object EXCEPT ![a].enrichment = w.enrichment]
            \/ object' = object
         /\ Become(a, IF w.failed THEN lost ELSE given)
  BY <1>2 DEF PutRaw, Put, WithReference, WithoutReference, Prefix, Fault
<1> HIDE DEF with, without, lost, given
<1>8. CASE /\ w.enrichment.kind = "none" \/ ~w.artifact
           /\ Become(a, without) /\ UNCHANGED <<object, faults>>
  <2>1. ~w.failed => w.enrichment = NoFile
    BY <1>2, <1>8
  <2>2. Sane(without, o)
    BY <1>0, <1>1, <1>2, <1>5, <2>1, NextUpload
  <2> QED BY <1>0, <1>1, <1>5, <1>8, <2>2, PodMoves
<1>9. [object EXCEPT ![a].enrichment = w.enrichment] = [object EXCEPT ![a] = stored]
      /\ object = [object EXCEPT ![a] = o]
  BY DEF ScanInv, ScanTypeOK
<1>10. CASE Become(a, with) /\ UNCHANGED faults
            /\ object' = [object EXCEPT ![a].enrichment = w.enrichment]
  <2>1. Sane(with, stored)
    BY <1>0, <1>1, <1>3, <1>4, NextUpload
  <2>2. object' = [object EXCEPT ![a] = stored] /\ faults' \in Nat
    BY <1>0, <1>9, <1>10
  <2> HIDE DEF stored
  <2> QED BY <1>0, <1>1, <1>3, <1>4, <1>10, <2>1, <2>2, PodStep
<1>11. CASE /\ faults' = faults + 1
            /\ \/ object' = [object EXCEPT ![a].enrichment = w.enrichment]
               \/ object' = object
            /\ Become(a, IF w.failed THEN lost ELSE given)
  <2>1. PICK p \in {stored, o} : object' = [object EXCEPT ![a] = p]
    BY <1>9, <1>11
  <2>2. p \in Objects /\ p.discovery = o.discovery /\ p.envelope = o.envelope
    BY <1>1, <1>3, <2>1
  <2>3. Truthful(p.envelope, w, p)
    BY <1>1, <2>2, SilentIsTruthful
  <2>4. given \in Workers /\ Sane(given, p) /\ given.pc = "ended"
    BY <1>1, <2>2, <2>3, LostSane DEF given
  <2>5. w.failed => Sane(lost, p)
    BY <1>0, <1>1, <1>2, <1>6, <2>2, NextUpload
  <2>6. faults' \in Nat
    BY <1>0, <1>11
  <2> QED BY <1>0, <1>1, <1>6, <1>11, <2>1, <2>2, <2>4, <2>5, <2>6, PodStep
<1> QED BY <1>7, <1>8, <1>10, <1>11

(***************************************************************************)
(* The envelope of a pod that has come this far satisfies the contract and *)
(* says what is so, next to the objects it refers to.                      *)
(***************************************************************************)
LEMMA EnvelopeTruthful ==
    ASSUME NEW w \in Workers, NEW o \in Objects, Sane(w, o), w.pc = "putEnvelope",
           NEW p \in Objects, p.discovery = o.discovery, p.enrichment = o.enrichment
    PROVE  /\ Envelope(w) \in Envelopes /\ (ContractValid(Envelope(w)) <=> Publishable(w))
           /\ Publishable(w) => Truthful(Envelope(w), w, p)
           /\ Envelope(w).outcome = "complete" <=> ~w.failed
           /\ w.failed => Envelope(w).outcome \in {"partial", "failed"}
<1> DEFINE e == Envelope(w)
<1>1. /\ e.outcome = (IF w.failed THEN FailedOutcome(w) ELSE "complete")
      /\ e.scanned = w.scanned /\ e.declared = w.declared /\ e.raw = w.raw
      /\ e.enrichment = (IF w.raw = NoFile THEN NoFile ELSE w.rawEnrichment)
      /\ e.enriches = w.enriches /\ e.negative = w.signalled
      /\ e.fits <=> Fits(Coverage) /\ (w.enriches => w.discovery.ports \notin LongLists)
  BY DEF Envelope
<1>2. FailedOutcome(w) \in {"partial", "failed"}
  BY DEF FailedOutcome
<1>3. e \in Envelopes
  BY <1>2, ConstantTypes DEF Envelope, Envelopes, Workers
<1> HIDE DEF e
<1>4. e.outcome = "complete" <=> ~w.failed
  BY <1>1, <1>2
<1>5. Publishing(w, o) /\ Observed(w) /\ w.pc \in Uploads
  BY DEF Sane, Uploads
<1>6. /\ w.failed => (w.declared # {} => w.scanned)
      /\ ~w.failed => /\ Concluded(w) /\ w.scanned /\ w.declared = w.discovery.ports
                      /\ w.raw = w.discovery /\ w.rawEnrichment = w.enrichment
      /\ w.raw \in {NoFile, w.discovery} /\ w.raw \in {NoFile, o.discovery}
      /\ w.rawEnrichment \in {NoFile, w.enrichment} /\ w.rawEnrichment \in {NoFile, o.enrichment}
  BY <1>5 DEF Publishing
<1>7. ~w.failed => w.raw # NoFile
  BY <1>6, NoFileIs DEF Concluded
<1>8. ContractValid(e) <=> Publishable(w)
  <2>1. w.enriches => w.discovery.ports = w.sawDiscovery
    BY <1>5 DEF Observed, Uploads
  <2>2. Publishable(w) <=> ExitCodeValid(e) /\ CommandsValid(e)
    BY <1>1, <2>1 DEF Publishable, ExitCodeValid, CommandsValid
  <2>3. /\ e.declared # {} => e.scanned
        /\ e.outcome = "complete" => e.scanned /\ e.raw # NoFile
        /\ e.enrichment # NoFile => e.enriches
    BY <1>1, <1>4, <1>5, <1>6, <1>7 DEF Observed
  <2> QED BY <2>2, <2>3 DEF ContractValid, ResultValid
<1>9. e.raw \in {NoFile, p.discovery} /\ e.enrichment \in {NoFile, p.enrichment}
  BY <1>1, <1>6
<1>10. e.raw.ports \subseteq w.sawDiscovery
  BY <1>1, <1>5, <1>6, NoFileIs DEF Observed
<1>11. ASSUME e.outcome = "complete"
       PROVE  /\ e.raw.kind = "whole" /\ e.raw.ports = e.declared /\ e.declared = w.sawDiscovery
              /\ e.declared = {} => e.enrichment = NoFile
              /\ e.declared # {} => /\ e.enrichment.kind = "whole" /\ ~e.enrichment.closed
                                    /\ e.enrichment.ports = e.declared
                                    /\ e.declared \subseteq w.sawEnrichment
  <2>1. /\ ~w.failed /\ e.raw = w.discovery /\ e.declared = w.discovery.ports
        /\ e.enrichment = w.enrichment /\ Concluded(w)
    BY <1>1, <1>4, <1>6, <1>7, <1>11
  <2> QED BY <1>5, <2>1 DEF Concluded, Observed
<1>12. Publishable(w) => Truthful(e, w, p)
  BY <1>8, <1>9, <1>10, <1>11 DEF Truthful
<1> QED BY <1>1, <1>2, <1>3, <1>4, <1>8, <1>12 DEF e

LEMMA PutEnvelopeInv ==
    ASSUME ScanInv, NEW a \in Pods, PutEnvelope(a), Announced, UNCHANGED <<ingested, rejected>>
    PROVE  ScanInv'
<1> DEFINE w == worker[a]
           o == object[a]
           e == Envelope(w)
           exit == IF w.failed THEN "error" ELSE "ok"
           given == [Ended(w, "error") EXCEPT !.lostPut = TRUE]
           stored == [o EXCEPT !.envelope = e]
<1>0. /\ w.pc = "putEnvelope" /\ w.pc \in Uploads /\ faults \in Nat
      /\ UNCHANGED <<clock, open, changes>>
  BY DEF PutEnvelope, At, Uploads, ScanInv, ScanTypeOK
<1>1. /\ w \in Workers /\ o \in Objects /\ w.pc # "ended" /\ Sane(w, o) /\ Observed(w)
      /\ Publishing(w, o) /\ o.envelope = NoEnvelope
  BY <1>0, Public
<1>2. /\ e \in Envelopes /\ (ContractValid(e) <=> Publishable(w))
      /\ (e.outcome = "complete" <=> ~w.failed)
      /\ w.failed => e.outcome \in {"partial", "failed"}
  BY <1>0, <1>1, EnvelopeTruthful
<1>3. /\ stored \in Objects /\ stored.envelope = e
      /\ stored.discovery = o.discovery /\ stored.enrichment = o.enrichment
  BY <1>1, <1>2 DEF Objects
<1>u. CASE ~Publishable(w)
  <2>1. Become(a, Ended(w, "error")) /\ UNCHANGED <<object, faults>>
    BY <1>2, <1>u DEF PutEnvelope
  <2>2. Truthful(o.envelope, w, o) /\ o.envelope.outcome = "none"
    BY <1>1, NoEnvelopeIs DEF Sane
  <2>3. /\ Ended(w, "error") \in Workers /\ Sane(Ended(w, "error"), o)
        /\ Ended(w, "error").pc = "ended"
    BY <1>1, <1>u, <2>2, EndedSane
  <2> QED BY <1>0, <1>1, <2>1, <2>3, PodMoves
<1> SUFFICES ASSUME Publishable(w)
             PROVE  ScanInv'
  BY <1>u
<1>4. \/ /\ Become(a, Ended(w, exit)) /\ UNCHANGED faults
         /\ object' = [object EXCEPT ![a].envelope = e]
      \/ /\ faults' = faults + 1
         /\ \/ object' = [object EXCEPT ![a].envelope = e]
            \/ object' = object
         /\ Become(a, given)
  BY <1>1, <1>2 DEF PutEnvelope, Put, Prefix, Fault
<1>5. [object EXCEPT ![a].envelope = e] = [object EXCEPT ![a] = stored]
      /\ object = [object EXCEPT ![a] = o]
  BY DEF ScanInv, ScanTypeOK
<1> HIDE DEF given, e
<1>6. Truthful(stored.envelope, w, stored)
  BY <1>0, <1>1, <1>3, EnvelopeTruthful DEF e
<1>7. CASE /\ Become(a, Ended(w, exit)) /\ UNCHANGED faults
           /\ object' = [object EXCEPT ![a].envelope = e]
  <2>1. /\ Ended(w, exit) \in Workers /\ Sane(Ended(w, exit), stored)
        /\ Ended(w, exit).pc = "ended"
    BY <1>1, <1>2, <1>3, <1>6, EndedSane
  <2>2. object' = [object EXCEPT ![a] = stored] /\ faults' \in Nat
    BY <1>0, <1>5, <1>7
  <2> HIDE DEF stored, exit
  <2> QED BY <1>0, <1>1, <1>3, <1>7, <2>1, <2>2, PodStep
<1>8. CASE /\ faults' = faults + 1
           /\ \/ object' = [object EXCEPT ![a].envelope = e]
              \/ object' = object
           /\ Become(a, given)
  <2>1. PICK p \in {stored, o} : object' = [object EXCEPT ![a] = p]
    BY <1>5, <1>8
  <2>2. p \in Objects /\ Truthful(p.envelope, w, p)
    BY <1>1, <1>3, <1>6, <2>1 DEF Sane
  <2>3. given \in Workers /\ Sane(given, p) /\ given.pc = "ended"
    BY <1>1, <2>2, LostSane DEF given
  <2>4. faults' \in Nat
    BY <1>0, <1>8
  <2> QED BY <1>0, <1>1, <1>8, <2>1, <2>2, <2>3, <2>4, PodStep
<1> QED BY <1>4, <1>7, <1>8

(***************************************************************************)
(* Signals, kills, time and the host.                                      *)
(***************************************************************************)
LEMMA TerminateInv ==
    ASSUME ScanInv, NEW a \in Pods, Terminate(a), Announced, UNCHANGED <<ingested, rejected>>
    PROVE  ScanInv'
<1> DEFINE w == worker[a]
           n == [w EXCEPT !.term = TRUE]
<1>0. /\ w.pc # "ended" /\ Become(a, n) /\ faults' \in Nat
      /\ UNCHANGED <<clock, open, changes, object>>
  BY DEF Terminate, Alive, Fault, ScanInv, ScanTypeOK
<1>1. w \in Workers /\ Sane(w, object[a])
  BY PodKnown
<1>2. n \in Workers /\ SameScan(n, w) /\ n.pc = w.pc /\ n.raw = w.raw
      /\ n.rawEnrichment = w.rawEnrichment /\ n.until = w.until /\ n.lostPut = w.lostPut
  BY <1>1 DEF Workers, SameScan
<1> HIDE DEF n
<1>3. Observed(n)
  BY <1>1, <1>2 DEF Sane, Observed, SameScan, Proper
<1>4. Concluded(w) => Concluded(n)
  BY <1>2 DEF Concluded, SameScan
<1>5. Scanning(n, object[a])
  BY <1>1, <1>2, <1>4 DEF Sane, Scanning, SameScan
<1>6. Publishing(n, object[a])
  BY <1>1, <1>2, <1>4 DEF Sane, Publishing, SameScan
<1>7. Truthful(object[a].envelope, n, object[a]) /\ Exited(n, object[a])
  BY <1>0, <1>1, <1>2 DEF Sane, Truthful, Exited, SameScan
<1>8. Sane(n, object[a])
  BY <1>3, <1>5, <1>6, <1>7 DEF Sane
<1>9. n.pc \in {"discovery", "enrichment"} =>
          n.until <= NotAfter - Reserve /\ clock <= n.until + Grace
  BY <1>2 DEF ScanInv, Timely, Running
<1> QED BY <1>0, <1>2, <1>8, <1>9, PodMoves

LEMMA KillInv ==
    ASSUME ScanInv, NEW a \in Pods, Kill(a), Announced, UNCHANGED <<ingested, rejected>>
    PROVE  ScanInv'
<1> DEFINE n == Ended(worker[a], "killed")
<1>0. /\ worker[a].pc # "ended" /\ Become(a, n) /\ faults' \in Nat
      /\ UNCHANGED <<clock, open, changes, object>>
  BY DEF Kill, Alive, Fault, ScanInv, ScanTypeOK
<1>1. /\ worker[a] \in Workers /\ object[a] \in Objects
      /\ Truthful(object[a].envelope, worker[a], object[a])
  BY PodKnown DEF Sane
<1>2. n \in Workers /\ Sane(n, object[a]) /\ n.pc = "ended"
  BY <1>1, EndedSane
<1> HIDE DEF n
<1> QED BY <1>0, <1>2, PodMoves

(* Nothing is announced that was not written.                              *)
LEMMA NothingAnnounced ==
    ASSUME Announced, UNCHANGED object PROVE UNCHANGED messages
BY DEF Announced

LEMMA HostChangesInv ==
    ASSUME ScanInv, HostChanges, Announced, UNCHANGED <<ingested, rejected>>
    PROVE  ScanInv'
<1>1. /\ changes' = changes + 1 /\ open' \in OpenSets
      /\ UNCHANGED <<clock, worker, object, faults, messages>>
  BY NothingAnnounced, WorkerAssumption DEF HostChanges, ScanInv, ScanTypeOK
<1>2. ScanTypeOK'
  BY <1>1 DEF ScanInv, ScanTypeOK
<1>3. \A a \in Pods : Sane(worker'[a], object'[a]) /\ Timely(a)' /\ Parsed(a)'
  BY <1>1 DEF ScanInv, Timely, Running, Parsed
<1> QED BY <1>2, <1>3 DEF ScanInv

LEMMA TickInv ==
    ASSUME ScanInv, Tick, Announced, UNCHANGED <<ingested, rejected>>
    PROVE  ScanInv'
<1>1. /\ clock' = clock + 1 /\ clock \in Nat
      /\ UNCHANGED <<open, changes, worker, object, faults, messages>>
  BY NothingAnnounced DEF Tick, ScanInv, ScanTypeOK
<1>2. ScanTypeOK'
  BY <1>1 DEF ScanInv, ScanTypeOK
<1>3. ASSUME NEW a \in Pods PROVE Timely(a)'
  <2>1. worker[a].until \in Int /\ Grace \in Int
    BY WorkerAssumption DEF ScanInv, ScanTypeOK, Workers
  <2>2. Running(a) => clock < worker[a].until + Grace
    BY DEF Tick
  <2>3. Running(a) => clock' <= worker[a].until + Grace
    BY <1>1, <2>1, <2>2
  <2> QED BY <1>1, <2>3 DEF ScanInv, Timely, Running
<1>4. \A a \in Pods : Sane(worker'[a], object'[a]) /\ Parsed(a)'
  BY <1>1 DEF ScanInv, Parsed
<1> QED BY <1>2, <1>3, <1>4 DEF ScanInv

(***************************************************************************)
(* The parser accepts a truthful envelope, and believes no more of it than *)
(* it says.                                                                *)
(***************************************************************************)
LEMMA ProcessAccepts ==
    ASSUME ScanInv, NEW a \in Pods
    PROVE  /\ Process(a).verdict = "ingest" /\ Process(a).authority \in BOOLEAN
           /\ Process(a).ports \subseteq worker[a].sawDiscovery
           /\ Process(a).authority =>
                 /\ Process(a).ports = worker[a].sawDiscovery
                 /\ Process(a).ports # {} => Process(a).ports \subseteq worker[a].sawEnrichment
<1> DEFINE o == object[a]
           e == o.envelope
           w == worker[a]
           readsOn == IF e.outcome = "complete" THEN Proven(e.raw) ELSE e.raw.kind # "torn"
           unread == \/ e.raw # NoFile /\ ~Fetched(a, "discovery", e.raw)
                     \/ e.enrichment # NoFile /\ readsOn
                           /\ ~Fetched(a, "enrichment", e.enrichment)
<1>1. Truthful(e, w, o) /\ ContractValid(e)
  BY PodKnown DEF Sane, Truthful
<1>2. ~unread
  BY <1>1 DEF Truthful, Fetched
<1>3. Process(a) = IF e.outcome = "complete" THEN LoadComplete(e) ELSE LoadPartial(e)
  BY <1>1, <1>2 DEF Process, Prefix
<1> HIDE DEF unread, e, w, o
<1>4. CASE e.outcome = "complete"
  <2>1. /\ e.raw.kind = "whole" /\ e.raw.ports = e.declared /\ e.declared = w.sawDiscovery
        /\ e.declared = {} => e.enrichment = NoFile
        /\ e.declared # {} => /\ e.enrichment.kind = "whole" /\ ~e.enrichment.closed
                              /\ e.enrichment.ports = e.declared
                              /\ e.declared \subseteq w.sawEnrichment
    BY <1>1, <1>4 DEF Truthful
  <2>2. e.raw # NoFile
    BY <2>1, NoFileIs
  <2>3. e.enrichment # NoFile <=> e.declared # {}
    BY <2>1, NoFileIs
  <2>4. LoadComplete(e) = Answer("ingest", TRUE, e.raw.ports)
    BY <2>1, <2>2, <2>3 DEF LoadComplete, Proven, Consistent
  <2> QED BY <1>3, <1>4, <2>1, <2>4 DEF Answer, w
<1>5. CASE e.outcome # "complete"
  <2>1. e.raw.ports \subseteq w.sawDiscovery
    BY <1>1 DEF Truthful
  <2>2. LoadPartial(e) = Answer("ingest", FALSE, {})
        \/ LoadPartial(e) = Answer("ingest", FALSE, e.raw.ports)
    BY DEF LoadPartial
  <2>3. PICK ports \in {{}, e.raw.ports} : Process(a) = Answer("ingest", FALSE, ports)
    BY <1>3, <1>5, <2>2
  <2>4. ports \subseteq w.sawDiscovery
    BY <2>1, <2>3
  <2> QED BY <2>3, <2>4 DEF Answer, w
<1> QED BY <1>4, <1>5

LEMMA HandleInv ==
    ASSUME ScanInv, NEW a \in Pods, Handle(a) PROVE ScanInv'
<1>0. a \in messages /\ worker[a].pc = "ended" /\ worker[a].sawDiscovery \subseteq Ports
  BY DEF Handle, ScanInv, Parsed, ScanTypeOK, Workers
<1>1. CASE /\ Fault
           /\ messages' = IF Keeps(Retry) THEN messages ELSE messages \ {a}
           /\ UNCHANGED <<clock, open, changes, worker, object, ingested, rejected>>
  <2>1. messages' \subseteq messages /\ faults' \in Nat
    BY <1>1 DEF Fault, ScanInv, ScanTypeOK
  <2>2. ScanTypeOK'
    BY <1>1, <2>1 DEF ScanInv, ScanTypeOK
  <2>3. \A b \in Pods : Sane(worker'[b], object'[b]) /\ Timely(b)' /\ Parsed(b)'
    BY <1>1, <2>1 DEF ScanInv, Timely, Running, Parsed
  <2> QED BY <1>1, <2>2, <2>3 DEF ScanInv
<1>2. CASE /\ \E answer \in {Process(a)} :
                 /\ messages' = IF Keeps(answer) THEN messages ELSE messages \ {a}
                 /\ rejected' = IF answer.verdict = "reject" THEN rejected \union {a}
                                                             ELSE rejected
                 /\ ingested' = IF answer.verdict = "ingest"
                                THEN [ingested EXCEPT ![a] =
                                        [done |-> TRUE, authority |-> answer.authority,
                                         ports |-> answer.ports]]
                                ELSE ingested
           /\ UNCHANGED workerVars
  <2> DEFINE n == [done |-> TRUE, authority |-> Process(a).authority,
                   ports |-> Process(a).ports]
  <2>1. /\ Process(a).verdict = "ingest" /\ Process(a).authority \in BOOLEAN
        /\ Process(a).ports \subseteq worker[a].sawDiscovery
        /\ Process(a).authority =>
              /\ Process(a).ports = worker[a].sawDiscovery
              /\ Process(a).ports # {} => Process(a).ports \subseteq worker[a].sawEnrichment
    BY ProcessAccepts
  <2>2. /\ messages' \subseteq messages /\ rejected' = rejected
        /\ ingested' = [ingested EXCEPT ![a] = n]
        /\ UNCHANGED <<clock, open, changes, worker, object, faults>>
    BY <1>2, <2>1 DEF workerVars
  <2>3. /\ n \in [done : BOOLEAN, authority : BOOLEAN, ports : SUBSET Ports]
        /\ n.done = TRUE /\ n.authority = Process(a).authority /\ n.ports = Process(a).ports
    BY <1>0, <2>1
  <2> HIDE DEF n
  <2>4. /\ ingested'[a] = n /\ \A b \in Pods \ {a} : ingested'[b] = ingested[b]
        /\ ingested' \in [Pods -> [done : BOOLEAN, authority : BOOLEAN, ports : SUBSET Ports]]
    BY <2>2, <2>3 DEF ScanInv, ScanTypeOK
  <2>5. ScanTypeOK'
    BY <2>2, <2>4 DEF ScanInv, ScanTypeOK
  <2>6. Parsed(a)'
    BY <1>0, <2>1, <2>2, <2>3, <2>4 DEF Parsed
  <2>7. \A b \in Pods \ {a} : Parsed(b)'
    BY <2>2, <2>4 DEF ScanInv, Parsed
  <2>8. \A b \in Pods : Sane(worker'[b], object'[b]) /\ Timely(b)'
    BY <2>2 DEF ScanInv, Timely, Running
  <2> QED BY <2>2, <2>5, <2>6, <2>7, <2>8 DEF ScanInv
<1> QED BY <1>1, <1>2 DEF Handle

LEMMA RedeliverInv ==
    ASSUME ScanInv, NEW a \in Pods, Redeliver(a) PROVE ScanInv'
<1>1. /\ ingested[a].done /\ messages' = messages \union {a} /\ faults' \in Nat
      /\ UNCHANGED <<clock, open, changes, worker, object, ingested, rejected>>
  BY DEF Redeliver, Fault, ScanInv, ScanTypeOK
<1>2. ScanTypeOK'
  BY <1>1 DEF ScanInv, ScanTypeOK
<1>3. \A b \in Pods : Sane(worker'[b], object'[b]) /\ Timely(b)' /\ Parsed(b)'
  BY <1>1 DEF ScanInv, Timely, Running, Parsed
<1> QED BY <1>1, <1>2, <1>3 DEF ScanInv

LEMMA ScanInvInit == ScanInit => ScanInv
<1> SUFFICES ASSUME ScanInit PROVE ScanInv
  OBVIOUS
<1>1. NotIngested \in [done : BOOLEAN, authority : BOOLEAN, ports : SUBSET Ports]
      /\ NotIngested.done = FALSE /\ NotIngested.authority = FALSE /\ NotIngested.ports = {}
  BY DEF NotIngested
<1>2. /\ clock \in Nat /\ open \in OpenSets /\ changes \in Nat /\ faults \in Nat
      /\ worker = [a \in Pods |-> NotStarted] /\ object = [a \in Pods |-> Nothing]
      /\ ingested = [a \in Pods |-> NotIngested] /\ messages = {} /\ rejected = {}
  BY DEF ScanInit, WorkerInit
<1>3. ScanTypeOK
  BY <1>1, <1>2, ConstantTypes DEF ScanTypeOK
<1>4. /\ NotStarted.pc = "waiting" /\ NotStarted.discovery = NoFile
      /\ NotStarted.enrichment = NoFile /\ NotStarted.failed = FALSE
      /\ NotStarted.scanned = FALSE /\ NotStarted.declared = {} /\ NotStarted.artifact = TRUE
      /\ NotStarted.raw = NoFile /\ NotStarted.rawEnrichment = NoFile
      /\ NotStarted.exit = "none" /\ NotStarted.enriches = FALSE
  BY DEF NotStarted
<1>5. Sane(NotStarted, Nothing)
  <2>1. Observed(NotStarted)
    BY <1>4, NoFileIs DEF Observed, Proper
  <2>2. Scanning(NotStarted, Nothing) /\ Publishing(NotStarted, Nothing)
    BY <1>4 DEF Scanning, Publishing, Unpublished, Uploads
  <2>3. Truthful(Nothing.envelope, NotStarted, Nothing)
    BY NothingIs, SilentIsTruthful
  <2>4. Exited(NotStarted, Nothing)
    BY <1>4 DEF Exited
  <2> QED BY <2>1, <2>2, <2>3, <2>4 DEF Sane
<1>6. ASSUME NEW a \in Pods PROVE Sane(worker[a], object[a]) /\ Timely(a) /\ Parsed(a)
  <2>1. worker[a] = NotStarted /\ object[a] = Nothing /\ ingested[a] = NotIngested
    BY <1>2
  <2> QED BY <1>1, <1>2, <1>4, <1>5, <2>1 DEF Timely, Running, Parsed
<1> QED BY <1>2, <1>3, <1>6 DEF ScanInv

LEMMA ScanInvStep == ScanInv /\ [ScanNext]_scanVars => ScanInv'
<1> SUFFICES ASSUME ScanInv, [ScanNext]_scanVars PROVE ScanInv'
  OBVIOUS
<1>1. CASE WorkerNext /\ Announced /\ UNCHANGED <<ingested, rejected>>
  <2>1. ASSUME NEW a \in Pods, Start(a) PROVE ScanInv'
    BY <1>1, <2>1, StartInv
  <2>2. ASSUME NEW a \in Pods, NmapStopped(a) \/ NmapFails(a) PROVE ScanInv'
    BY <1>1, <2>2, NmapFailsInv
  <2>3. ASSUME NEW a \in Pods, DiscoveryCheck(a) \/ StartEnrichment(a) \/ FinalCheck(a)
        PROVE  ScanInv'
    BY <1>1, <2>3, DiscoveryCheckInv, StartEnrichmentInv, FinalCheckInv
  <2>4. ASSUME NEW a \in Pods,
               PutRaw(a, "discovery") \/ PutRaw(a, "enrichment") \/ PutEnvelope(a)
        PROVE  ScanInv'
    BY <1>1, <2>4, PutDiscoveryInv, PutEnrichmentInv, PutEnvelopeInv
  <2>5. ASSUME NEW a \in Pods, DiscoveryExits(a) \/ EnrichmentExits(a) PROVE ScanInv'
    BY <1>1, <2>5, DiscoveryExitsInv, EnrichmentExitsInv
  <2>6. ASSUME NEW a \in Pods, Terminate(a) \/ Kill(a) PROVE ScanInv'
    BY <1>1, <2>6, TerminateInv, KillInv
  <2>7. CASE HostChanges \/ Tick
    BY <1>1, <2>7, HostChangesInv, TickInv
  <2> QED BY <1>1, <2>1, <2>2, <2>3, <2>4, <2>5, <2>6, <2>7 DEF WorkerNext, Work
<1>2. ASSUME NEW a \in Pods, Handle(a) \/ Redeliver(a) PROVE ScanInv'
  BY <1>2, HandleInv, RedeliverInv
<1>3. CASE UNCHANGED scanVars
  <2> USE <1>3 DEF scanVars, workerVars
  <2>1. ScanTypeOK'
    BY DEF ScanInv, ScanTypeOK
  <2>2. \A a \in Pods : Sane(worker'[a], object'[a]) /\ Timely(a)' /\ Parsed(a)'
    BY DEF ScanInv, Timely, Running, Parsed
  <2> QED BY <2>1, <2>2 DEF ScanInv
<1> QED BY <1>1, <1>2, <1>3 DEF ScanNext

LEMMA ScanInvAlways == ScanSpec => []ScanInv
BY ScanInvInit, ScanInvStep, PTL DEF ScanSpec

(***************************************************************************)
(* The results.                                                            *)
(***************************************************************************)

(* Pods, objects, messages and what was ingested stay well-typed.          *)
THEOREM ScanTyped == ScanSpec => []ScanTypeOK
<1>1. ScanInv => ScanTypeOK
  BY DEF ScanInv
<1> QED BY <1>1, ScanInvAlways, PTL

(* An envelope refers only to objects that are stored under the keys of    *)
(* its own attempt, with the content it states: _put_raw_if_present makes  *)
(* no reference of an upload that was not confirmed.                       *)
THEOREM ScanReferences == ScanSpec => []ReferencesResolve
<1>1. ScanInv => ReferencesResolve
  BY DEF ScanInv, Sane, Truthful, ReferencesResolve
<1> QED BY <1>1, ScanInvAlways, PTL

(* _load_observations never refuses what the worker publishes: a scan that *)
(* execute_scan calls complete passes every check of the parser, and any   *)
(* other is stored without authority.                                      *)
THEOREM ScanAccepted == ScanSpec => []NeverRejected
<1>1. ScanInv => NeverRejected
  BY DEF ScanInv, NeverRejected
<1> QED BY <1>1, ScanInvAlways, PTL

(* The right to close ports goes only to scans whose ports are those open  *)
(* when discovery ended, and still open when enrichment did, however the   *)
(* host changed between the two and wherever the pod was cut short.        *)
THEOREM ScanAuthority == ScanSpec => []AuthorityIsEarned
<1>1. ScanInv => AuthorityIsEarned
  BY DEF ScanInv, Parsed, AuthorityIsEarned
<1> QED BY <1>1, ScanInvAlways, PTL

(* The exit code of a pod agrees with the envelope it left.                *)
THEOREM ScanExits == ScanSpec => []ExitTellsOutcome
<1>1. ScanInv => ExitTellsOutcome
  BY DEF ScanInv, Sane, Exited, ExitTellsOutcome
<1> QED BY <1>1, ScanInvAlways, PTL

(* No Nmap process runs into the time that is reserved for the uploads,    *)
(* beyond the grace a stopped one gets: _phase_budget cuts both phases to  *)
(* what is left.                                                           *)
THEOREM ScanInTime == ScanSpec => []NmapStopsInTime
<1>1. ScanInv => NmapStopsInTime
  <2> SUFFICES ASSUME ScanInv, NEW a \in Pods, Running(a)
               PROVE  clock <= NotAfter - Reserve + Grace
    BY DEF NmapStopsInTime
  <2>1. worker[a].until <= NotAfter - Reserve /\ clock <= worker[a].until + Grace
    BY DEF ScanInv, Timely
  <2>2. clock \in Int /\ worker[a].until \in Int /\ NotAfter \in Int /\ Reserve \in Int /\ Grace \in Int
    BY WorkerAssumption DEF ScanInv, ScanTypeOK, Workers
  <2> QED BY <2>1, <2>2
<1> QED BY <1>1, ScanInvAlways, PTL

-----------------------------------------------------------------------------
(* Port coverage: the sort and the loops of PortCoverage.parse, and the    *)
(* sum of PortCoverage.count, for any number of terms.                     *)

(* Induction over naturals, as the least element of a set.                 *)
LEMMA LeastOf ==
    ASSUME NEW T \in SUBSET Nat, T # {}
    PROVE  \E n \in T : \A m \in T : n <= m
<1>1. \E n \in T : \A m \in T : ~(<<m, n>> \in OpToRel(<, Nat))
  BY NatLessThanWellFounded, WFMin
<1>2. \A n, m \in T : ~(<<m, n>> \in OpToRel(<, Nat)) => n <= m
  BY DEF OpToRel
<1> QED
  BY <1>1, <1>2

Ranges == {r \in [start : Nat, end : Nat] : r.start <= r.end}

(* p puts the first n terms in order.                                      *)
Orders(p, terms, n) ==
    /\ p \in [1..n -> 1..n]
    /\ \A i \in 1..n : \E j \in 1..n : p[j] = i
    /\ \A i, j \in 1..n : i < j => ~Before(terms[p[j]], terms[p[i]])

(* One more term finds its place.                                          *)
LEMMA Inserts ==
    ASSUME NEW terms \in Seq(Ranges), NEW n \in Nat, n + 1 \in 1..Len(terms),
           NEW p, Orders(p, terms, n)
    PROVE  \E q : Orders(q, terms, n + 1)
<1> DEFINE x == terms[n + 1]
           Ahead == {k \in 0..n : \A i \in k + 1..n : Before(x, terms[p[i]])}
<1>0. Len(terms) \in Nat /\ n + 1 \in Nat /\ n < Len(terms)
  OBVIOUS
<1>1. \A i \in 1..n + 1 : terms[i] \in Ranges
  BY <1>0
<1>2. n \in Ahead /\ Ahead \in SUBSET Nat
  OBVIOUS
<1>3. PICK k \in Ahead : \A m \in Ahead : k <= m
  BY <1>2, LeastOf
<1>4. k \in 0..n /\ \A i \in k + 1..n : Before(x, terms[p[i]])
  BY <1>3
<1>5. \A i \in 1..n : p[i] \in 1..n /\ terms[p[i]] \in Ranges
  <2>1. \A i \in 1..n : p[i] \in 1..n
    BY DEF Orders
  <2>2. \A i \in 1..n : i \in 1..n + 1
    OBVIOUS
  <2> QED
    BY <1>1, <2>1, <2>2
<1>6. \A r, s, t \in Ranges : /\ ~Before(r, s) /\ ~Before(s, t) => ~Before(r, t)
                              /\ Before(r, s) => ~Before(s, r)
  BY DEF Ranges, Before
<1>7. x \in Ranges
  BY <1>1
<1>8. \A i \in 1..k : ~Before(x, terms[p[i]])
  <2>1. CASE k = 0
    BY <2>1
  <2>2. CASE k > 0
    <3>1. k \in 1..n /\ k - 1 \in 0..n /\ k - 1 \notin Ahead
      BY <1>3, <1>4, <2>2
    <3>2. PICK i \in k - 1 + 1..n : ~Before(x, terms[p[i]])
      BY <3>1
    <3>3. i \in k..n /\ i \notin k + 1..n
      BY <1>4, <3>1, <3>2
    <3>4. ~Before(x, terms[p[k]])
      BY <3>1, <3>2, <3>3
    <3>5. ASSUME NEW j \in 1..k
          PROVE  ~Before(x, terms[p[j]])
      <4>1. CASE j = k
        BY <3>4, <4>1
      <4>2. CASE j # k
        <5>1. j \in 1..n /\ j < k
          BY <3>1, <4>2
        <5>2. ~Before(terms[p[k]], terms[p[j]])
          BY <3>1, <5>1 DEF Orders
        <5> QED
          BY <1>5, <1>6, <1>7, <3>1, <3>4, <5>1, <5>2
      <4> QED
        BY <4>1, <4>2
    <3> QED
      BY <3>5
  <2> QED
    BY <1>4, <2>1, <2>2
<1> HIDE DEF x, Ahead
<1> DEFINE q == [i \in 1..n + 1 |-> IF i <= k THEN p[i] ELSE IF i = k + 1 THEN n + 1 ELSE p[i - 1]]
<1>9. /\ q \in [1..n + 1 -> 1..n + 1] /\ q[k + 1] = n + 1
      /\ \A i \in 1..k : q[i] = p[i]
      /\ \A i \in k + 2..n + 1 : q[i] = p[i - 1] /\ i - 1 \in 1..n
  BY <1>0, <1>4, <1>5
<1>10. \A i \in k + 1..n : q[i + 1] = p[i] /\ i + 1 \in 1..n + 1
  BY <1>0, <1>4
<1> HIDE DEF q
<1>11. ASSUME NEW i \in 1..n + 1
       PROVE  \E j \in 1..n + 1 : q[j] = i
  <2>1. CASE i = n + 1
    BY <1>4, <1>9, <2>1
  <2>2. CASE i # n + 1
    <3>1. i \in 1..n
      BY <2>2
    <3>2. PICK j \in 1..n : p[j] = i
      BY <3>1 DEF Orders
    <3>3. CASE j <= k
      <4>1. j \in 1..k /\ j \in 1..n + 1
        BY <1>4, <3>3
      <4> QED
        BY <1>9, <3>2, <4>1
    <3>4. CASE j > k
      <4>1. j \in k + 1..n
        BY <1>4, <3>4
      <4> QED
        BY <1>10, <3>2, <4>1
    <3> QED
      BY <1>4, <3>3, <3>4
  <2> QED
    BY <2>1, <2>2
<1>12. ASSUME NEW i \in 1..n + 1, NEW j \in 1..n + 1, i < j
       PROVE  ~Before(terms[q[j]], terms[q[i]])
  <2>1. CASE j <= k
    <3>1. i \in 1..k /\ j \in 1..k /\ i \in 1..n /\ j \in 1..n
      BY <1>4, <1>12, <2>1
    <3> QED
      BY <1>9, <1>12, <3>1 DEF Orders
  <2>2. CASE j = k + 1
    <3>1. i \in 1..k
      BY <1>4, <1>12, <2>2
    <3>2. terms[q[j]] = x /\ q[i] = p[i]
      BY <1>9, <2>2, <3>1 DEF x
    <3> QED
      BY <1>8, <3>1, <3>2
  <2>3. CASE j > k + 1
    <3>0. j \in k + 2..n + 1 /\ j - 1 \in k + 1..n
      BY <1>4, <2>3
    <3>1. q[j] = p[j - 1] /\ j - 1 \in 1..n /\ j - 1 \in k + 1..n
      BY <1>9, <3>0
    <3>2. CASE i <= k
      <4>1. i \in 1..k /\ i \in 1..n /\ i < j - 1
        BY <1>4, <2>3, <3>2
      <4> QED
        BY <1>9, <3>1, <4>1 DEF Orders
    <3>3. CASE i = k + 1
      <4>1. terms[q[i]] = x
        BY <1>9, <3>3 DEF x
      <4>2. Before(x, terms[p[j - 1]])
        BY <1>4, <3>1
      <4> QED
        BY <1>5, <1>6, <1>7, <3>1, <4>1, <4>2
    <3>4. CASE i > k + 1
      <4>1. i \in k + 2..n + 1 /\ i - 1 < j - 1
        BY <1>4, <1>12, <3>4
      <4> QED
        BY <1>9, <3>1, <4>1 DEF Orders
    <3> QED
      BY <1>4, <3>2, <3>3, <3>4
  <2> QED
    BY <1>4, <2>1, <2>2, <2>3
<1> QED
  BY <1>9, <1>11, <1>12 DEF Orders

LEMMA Sorts ==
    ASSUME NEW terms \in Seq(Ranges)
    PROVE  /\ Sort(terms) \in Seq(Ranges) /\ ToSet(Sort(terms)) = ToSet(terms)
           /\ \A i, j \in 1..Len(Sort(terms)) :
                 i < j => Sort(terms)[i].start <= Sort(terms)[j].start
<1> DEFINE D == 1..Len(terms)
           Bad == {n \in 0..Len(terms) : ~\E p : Orders(p, terms, n)}
<1>1. Len(terms) \in Nat /\ DOMAIN terms = D /\ \A i \in D : terms[i] \in Ranges
  OBVIOUS
<1>2. Bad = {}
  <2> SUFFICES ASSUME Bad # {}
               PROVE  FALSE
    OBVIOUS
  <2>0. Bad \in SUBSET Nat
    OBVIOUS
  <2>1. PICK n \in Bad : \A m \in Bad : n <= m
    <3> HIDE DEF Bad
    <3> QED
      BY <2>0, LeastOf
  <2>2. n # 0
    <3>1. Orders(<<>>, terms, 0)
      BY DEF Orders
    <3> QED
      BY <2>1, <3>1
  <2>3. n - 1 \in 0..Len(terms) /\ n - 1 \notin Bad
    BY <1>1, <2>1, <2>2
  <2>4. PICK p : Orders(p, terms, n - 1)
    BY <2>3
  <2>5. n - 1 \in Nat /\ (n - 1) + 1 = n /\ n \in 1..Len(terms)
    BY <1>1, <2>1, <2>2
  <2>6. \E q : Orders(q, terms, n)
    <3> DEFINE m == n - 1
    <3>1. m \in Nat /\ m + 1 \in 1..Len(terms) /\ Orders(p, terms, m) /\ m + 1 = n
      BY <2>4, <2>5
    <3> HIDE DEF m
    <3>2. \E q : Orders(q, terms, m + 1)
      BY <3>1, Inserts
    <3> QED
      BY <3>1, <3>2
  <2> QED
    BY <2>1, <2>6
<1>3. PICK q : Orders(q, terms, Len(terms))
  BY <1>1, <1>2
<1> DEFINE Good(p) == /\ \A i \in D : \E j \in D : p[j] = i
                      /\ \A i, j \in D : i < j => ~Before(terms[p[j]], terms[p[i]])
           order == CHOOSE p \in [D -> D] : Good(p)
<1>4. q \in [D -> D] /\ Good(q)
  BY <1>3 DEF Orders
<1>5. order \in [D -> D] /\ Good(order)
  BY <1>4
<1>6. Sort(terms) = [i \in D |-> terms[order[i]]]
  BY <1>1 DEF Sort
<1> HIDE DEF order, Bad
<1>7. Sort(terms) \in [D -> Ranges]
  BY <1>1, <1>5, <1>6
<1>8. Sort(terms) \in Seq(Ranges) /\ Len(Sort(terms)) = Len(terms)
  BY <1>1, <1>7
<1>9. ToSet(Sort(terms)) = ToSet(terms)
  <2>1. DOMAIN Sort(terms) = D
    BY <1>7
  <2>2. \A i \in D : Sort(terms)[i] = terms[order[i]] /\ order[i] \in D
    BY <1>5, <1>6
  <2>3. ASSUME NEW i \in D PROVE \E j \in D : Sort(terms)[j] = terms[i]
    <3>1. PICK j \in D : order[j] = i
      BY <1>5
    <3>2. Sort(terms)[j] = terms[i]
      BY <2>2, <3>1
    <3> QED BY <3>2
  <2>4. ToSet(Sort(terms)) = {Sort(terms)[i] : i \in D} /\ ToSet(terms) = {terms[i] : i \in D}
    BY <1>1, <2>1 DEF ToSet
  <2>5. {Sort(terms)[i] : i \in D} \subseteq {terms[i] : i \in D}
    BY <2>2
  <2>6. {terms[i] : i \in D} \subseteq {Sort(terms)[i] : i \in D}
    BY <2>3
  <2> QED
    BY <2>4, <2>5, <2>6
<1>10. ASSUME NEW i \in D, NEW j \in D, i < j
       PROVE  Sort(terms)[i].start <= Sort(terms)[j].start
  <2>1. ~Before(Sort(terms)[j], Sort(terms)[i])
    BY <1>5, <1>6, <1>10
  <2>2. Sort(terms)[i] \in Ranges /\ Sort(terms)[j] \in Ranges
    BY <1>7
  <2> QED
    BY <2>1, <2>2 DEF Before, Ranges
<1> QED
  BY <1>8, <1>9, <1>10

(* What one turn of the loop keeps of the ranges normalized so far.        *)
Apart(ranges) == \A i \in 1..Len(ranges) - 1 : ranges[i].end + 1 < ranges[i + 1].start

LEMMA MergeKeeps ==
    ASSUME NEW n \in Seq(Ranges), Apart(n), NEW c \in Ranges,
           n # <<>> => n[Len(n)].start <= c.start
    PROVE  /\ Merge(n, c) \in Seq(Ranges) /\ Apart(Merge(n, c)) /\ Merge(n, c) # <<>>
           /\ Merge(n, c)[Len(Merge(n, c))].start <= c.start
           /\ \A p \in Nat : Covers(Merge(n, c), p) <=> Covers(n, p) \/ InRange(p, c)
<1> DEFINE L == Len(n)
           m == Merge(n, c)
<1>1. L \in Nat /\ \A i \in 1..L : n[i] \in Ranges
  OBVIOUS
<1>2. \A s \in Seq(Ranges), p \in Nat : Covers(s, p) <=> \E i \in 1..Len(s) : InRange(p, s[i])
  BY DEF Covers, ToSet
<1>3. c.start \in Nat /\ c.end \in Nat /\ c.start <= c.end
  BY DEF Ranges
<1>4. CASE n # <<>> /\ c.start <= n[L].end + 1
  <2> DEFINE top == Max({n[L].end, c.end})
             r == PortRange(n[L].start, top)
  <2>1. L \in 1..L /\ n[L] \in Ranges
    BY <1>1, <1>4
  <2>2. /\ n[L].start \in Nat /\ n[L].end \in Nat /\ n[L].start <= n[L].end
        /\ n[L].start <= c.start
    BY <1>4, <2>1 DEF Ranges
  <2>3. top \in {n[L].end, c.end} /\ top >= n[L].end /\ top >= c.end
    <3>1. \E x \in {n[L].end, c.end} : \A y \in {n[L].end, c.end} : x >= y
      BY <1>3, <2>2
    <3> QED
      BY <3>1 DEF Max
  <2> HIDE DEF top
  <2>4. top \in Nat
    BY <1>3, <2>2, <2>3
  <2>5. r.start = n[L].start /\ r.end = top /\ r \in Ranges
    BY <1>3, <2>2, <2>3, <2>4 DEF Ranges, PortRange
  <2>6. m = Append(Front(n), r)
    BY <1>4 DEF Merge, Last, top
  <2> HIDE DEF r
  <2>7. Front(n) \in Seq(Ranges) /\ Len(Front(n)) = L - 1 /\ \A i \in 1..L - 1 : Front(n)[i] = n[i]
    <3> DEFINE k == L - 1
    <3>1. k \in Nat /\ \A i \in 1..k : n[i] \in Ranges
      BY <1>1, <2>1
    <3> HIDE DEF k
    <3>2. /\ SubSeq(n, 1, k) \in Seq(Ranges)
          /\ Len(SubSeq(n, 1, k)) = IF 1 <= k THEN k - 1 + 1 ELSE 0
          /\ \A i \in 1..k - 1 + 1 : SubSeq(n, 1, k)[i] = n[1 + i - 1]
      BY <3>1, SubSeqProperties
    <3>3. Len(SubSeq(n, 1, k)) = k /\ \A i \in 1..k : SubSeq(n, 1, k)[i] = n[i]
      BY <3>1, <3>2
    <3> QED
      BY <3>2, <3>3 DEF Front, k
  <2>8. /\ m \in Seq(Ranges) /\ Len(m) = L /\ m[L] = r /\ m # <<>>
        /\ \A i \in 1..L - 1 : m[i] = n[i]
    <3> HIDE DEF m
    <3>1. /\ m \in Seq(Ranges) /\ m # <<>> /\ Len(m) = (L - 1) + 1 /\ m[(L - 1) + 1] = r
          /\ \A i \in 1..L - 1 : m[i] = Front(n)[i]
      BY <2>5, <2>6, <2>7, AppendProperties
    <3> QED
      BY <1>1, <2>7, <3>1
  <2> HIDE DEF m
  <2>9. Apart(m)
    <3> SUFFICES ASSUME NEW i \in 1..L - 1
                 PROVE  m[i].end + 1 < m[i + 1].start
      BY <2>8 DEF Apart
    <3>1. m[i] = n[i] /\ n[i].end + 1 < n[i + 1].start
      BY <2>8 DEF Apart
    <3>2. m[i + 1].start = n[i + 1].start
      <4>1. CASE i + 1 = L
        BY <2>5, <2>8, <4>1
      <4>2. CASE i + 1 # L
        <5>1. i + 1 \in 1..L - 1
          BY <1>1, <4>2
        <5> QED
          BY <2>8, <5>1
      <4> QED
        BY <4>1, <4>2
    <3> QED
      BY <3>1, <3>2
  <2>10. ASSUME NEW p \in Nat
         PROVE  Covers(m, p) <=> Covers(n, p) \/ InRange(p, c)
    <3>1. InRange(p, r) <=> InRange(p, n[L]) \/ InRange(p, c)
      BY <1>3, <1>4, <2>2, <2>3, <2>5 DEF InRange
    <3>2. \A i \in 1..L : i = L \/ i \in 1..L - 1
      BY <1>1
    <3>3. \A i \in 1..L - 1 : i \in 1..L
      BY <1>1
    <3>4. Covers(m, p) <=> \E i \in 1..L : InRange(p, m[i])
      BY <1>2, <2>8
    <3>5. Covers(n, p) <=> \E i \in 1..L : InRange(p, n[i])
      BY <1>2
    <3> QED
      BY <2>1, <2>8, <3>1, <3>2, <3>3, <3>4, <3>5
  <2> QED
    BY <2>2, <2>5, <2>8, <2>9, <2>10 DEF m
<1>5. CASE ~(n # <<>> /\ c.start <= n[L].end + 1)
  <2>1. m = Append(n, c)
    BY <1>5 DEF Merge, Last
  <2>2. /\ m \in Seq(Ranges) /\ Len(m) = L + 1 /\ m[L + 1] = c /\ m # <<>>
        /\ \A i \in 1..L : m[i] = n[i]
    <3> HIDE DEF m
    <3> QED
      BY <2>1, AppendProperties
  <2> HIDE DEF m
  <2>3. Apart(m)
    <3> SUFFICES ASSUME NEW i \in 1..L
                 PROVE  m[i].end + 1 < m[i + 1].start
      BY <1>1, <2>2 DEF Apart
    <3>1. m[i] = n[i]
      BY <2>2
    <3>2. CASE i = L
      <4>1. n # <<>> /\ n[L] \in Ranges
        BY <1>1, <3>2
      <4>2. n[L].end \in Nat /\ ~(c.start <= n[L].end + 1)
        BY <1>5, <4>1 DEF Ranges
      <4> QED
        BY <1>3, <2>2, <3>1, <3>2, <4>2
    <3>3. CASE i # L
      <4>1. i \in 1..L - 1 /\ i + 1 \in 1..L
        BY <1>1, <3>3
      <4> QED
        BY <2>2, <3>1, <4>1 DEF Apart
    <3> QED
      BY <3>2, <3>3
  <2>4. ASSUME NEW p \in Nat
        PROVE  Covers(m, p) <=> Covers(n, p) \/ InRange(p, c)
    <3>1. \A i \in 1..L + 1 : i = L + 1 \/ i \in 1..L
      BY <1>1
    <3>2. L + 1 \in 1..L + 1 /\ \A i \in 1..L : i \in 1..L + 1
      BY <1>1
    <3>3. Covers(m, p) <=> \E i \in 1..L + 1 : InRange(p, m[i])
      BY <1>2, <2>2
    <3>4. Covers(n, p) <=> \E i \in 1..L : InRange(p, n[i])
      BY <1>2
    <3> QED
      BY <2>2, <3>1, <3>2, <3>3, <3>4
  <2>5. m[Len(m)].start <= c.start
    BY <1>3, <2>2
  <2> QED
    BY <2>2, <2>3, <2>4, <2>5 DEF m
<1> QED
  BY <1>4, <1>5

(* The loop over the terms s: what is normalized after i of them.          *)
Turns(h, s, k) == h = [i \in 0..k |-> IF i = 0 THEN <<>> ELSE Merge(h[i - 1], s[i])]

LEMMA LoopRuns ==
    ASSUME NEW s, NEW k \in Nat
    PROVE  \E h : Turns(h, s, k)
<1> DEFINE Bad == {n \in Nat : ~\E h : Turns(h, s, n)}
<1> SUFFICES ASSUME Bad # {}
             PROVE  FALSE
  OBVIOUS
<1>1. PICK n \in Bad : \A m \in Bad : n <= m
  <2>1. Bad \in SUBSET Nat
    OBVIOUS
  <2> HIDE DEF Bad
  <2> QED
    BY <2>1, LeastOf
<1>2. n # 0
  <2> DEFINE h == [i \in 0..0 |-> <<>>]
  <2>1. h = [i \in 0..0 |-> IF i = 0 THEN <<>> ELSE Merge(h[i - 1], s[i])]
    <3>1. \A i \in 0..0 : i = 0
      OBVIOUS
    <3> QED
      BY <3>1
  <2>2. Turns(h, s, 0)
    BY <2>1 DEF Turns
  <2> QED
    BY <1>1, <2>2
<1>3. n - 1 \in Nat /\ n - 1 \notin Bad
  BY <1>1, <1>2
<1>4. PICK h : Turns(h, s, n - 1)
  BY <1>3
<1> DEFINE g == [i \in 0..n |-> IF i = n THEN Merge(h[n - 1], s[n]) ELSE h[i]]
<1>5. ASSUME NEW i \in 0..n
      PROVE  g[i] = IF i = 0 THEN <<>> ELSE Merge(g[i - 1], s[i])
  <2>1. \A j \in 0..n - 1 : h[j] = IF j = 0 THEN <<>> ELSE Merge(h[j - 1], s[j])
    BY <1>4 DEF Turns
  <2>2. \A j \in 0..n - 1 : g[j] = h[j]
    BY <1>1, <1>2
  <2>3. g[n] = Merge(h[n - 1], s[n])
    BY <1>1
  <2> HIDE DEF g
  <2>4. CASE i = n
    <3>1. n - 1 \in 0..n - 1
      BY <1>3
    <3> QED
      BY <1>2, <2>2, <2>3, <2>4, <3>1
  <2>5. CASE i # n
    <3>1. i \in 0..n - 1 /\ (i # 0 => i - 1 \in 0..n - 1)
      BY <1>1, <1>3, <2>5
    <3> QED
      BY <2>1, <2>2, <3>1
  <2> QED
    BY <2>4, <2>5
<1>6. g = [i \in 0..n |-> g[i]]
  OBVIOUS
<1> HIDE DEF g
<1>7. Turns(g, s, n)
  BY <1>5, <1>6 DEF Turns
<1> QED
  BY <1>1, <1>7

(* The first i of the terms s are what the ranges r cover.                 *)
LoopInv(r, s, i) ==
    /\ r \in Seq(Ranges) /\ Apart(r) /\ (r # <<>> => i > 0)
    /\ i > 0 => r # <<>> /\ r[Len(r)].start <= s[i].start
    /\ \A p \in Nat : Covers(r, p) <=> \E j \in 1..i : InRange(p, s[j])

LEMMA LoopKeeps ==
    ASSUME NEW s \in Seq(Ranges), NEW h, Turns(h, s, Len(s)),
           \A i, j \in 1..Len(s) : i < j => s[i].start <= s[j].start
    PROVE  LoopInv(h[Len(s)], s, Len(s))
<1> DEFINE N == Len(s)
           Bad == {n \in 0..N : ~LoopInv(h[n], s, n)}
<1>0. N \in Nat /\ \A i \in 1..N : s[i] \in Ranges
  OBVIOUS
<1>a. \A i \in 0..N : h[i] = IF i = 0 THEN <<>> ELSE Merge(h[i - 1], s[i])
  BY DEF Turns
<1> SUFFICES ASSUME Bad # {}
             PROVE  FALSE
  BY <1>0
<1>1. PICK n \in Bad : \A m \in Bad : n <= m
  <2>1. Bad \in SUBSET Nat
    OBVIOUS
  <2> HIDE DEF Bad
  <2> QED
    BY <2>1, LeastOf
<1>2. n # 0
  <2>1. h[0] = <<>>
    BY <1>0, <1>a
  <2>2. LoopInv(<<>>, s, 0)
    BY DEF LoopInv, Apart, Covers, ToSet
  <2> QED
    BY <1>1, <2>1, <2>2
<1>3. n \in 1..N /\ n - 1 \in 0..N /\ n - 1 \notin Bad
  BY <1>0, <1>1, <1>2
<1> DEFINE r == h[n - 1]
           c == s[n]
<1>4. LoopInv(r, s, n - 1) /\ h[n] = Merge(r, c) /\ c \in Ranges
  BY <1>0, <1>a, <1>2, <1>3
<1> HIDE DEF r, Bad
<1>5. r # <<>> => r[Len(r)].start <= c.start
  <2> SUFFICES ASSUME r # <<>>
               PROVE  r[Len(r)].start <= c.start
    OBVIOUS
  <2>1. n - 1 > 0 /\ r[Len(r)].start <= s[n - 1].start
    BY <1>4 DEF LoopInv
  <2>2. n - 1 \in 1..N /\ n - 1 < n
    BY <1>0, <1>3, <2>1
  <2>3. s[n - 1].start <= s[n].start
    BY <1>3, <2>2
  <2>4. r \in Seq(Ranges) /\ Len(r) \in 1..Len(r)
    BY <1>4 DEF LoopInv
  <2>5. r[Len(r)].start \in Nat /\ s[n - 1].start \in Nat /\ s[n].start \in Nat
    <3>1. r[Len(r)] \in Ranges /\ s[n - 1] \in Ranges /\ s[n] \in Ranges
      BY <1>0, <1>3, <2>2, <2>4
    <3> QED
      BY <3>1 DEF Ranges
  <2> QED
    BY <2>1, <2>3, <2>5
<1> DEFINE m == Merge(r, c)
<1>6. /\ m \in Seq(Ranges) /\ Apart(m) /\ m # <<>> /\ m[Len(m)].start <= c.start
      /\ \A p \in Nat : Covers(m, p) <=> Covers(r, p) \/ InRange(p, c)
  BY <1>4, <1>5, MergeKeeps DEF LoopInv
<1> HIDE DEF m
<1>7. ASSUME NEW p \in Nat
      PROVE  Covers(m, p) <=> \E j \in 1..n : InRange(p, s[j])
  <2>1. Covers(r, p) <=> \E j \in 1..n - 1 : InRange(p, s[j])
    BY <1>4 DEF LoopInv
  <2>2. \A j \in 1..n : j = n \/ j \in 1..n - 1
    BY <1>3
  <2>3. n \in 1..n /\ \A j \in 1..n - 1 : j \in 1..n
    BY <1>3
  <2> QED
    BY <1>6, <2>1, <2>2, <2>3
<1>8. LoopInv(m, s, n)
  BY <1>3, <1>6, <1>7 DEF LoopInv
<1> QED
  BY <1>1, <1>4, <1>8 DEF m, Bad

LEMMA Normalizes ==
    ASSUME NEW terms \in Seq(Ranges)
    PROVE  /\ Normalize(terms) \in Seq(Ranges) /\ Apart(Normalize(terms))
           /\ \A p \in Nat : Covers(Normalize(terms), p) <=> \E u \in ToSet(terms) : InRange(p, u)
<1> DEFINE s == Sort(terms)
           N == Len(s)
           h == CHOOSE f : f = [i \in 0..N |-> IF i = 0 THEN <<>> ELSE Merge(f[i - 1], s[i])]
<1>1. /\ s \in Seq(Ranges) /\ ToSet(s) = ToSet(terms)
      /\ \A i, j \in 1..N : i < j => s[i].start <= s[j].start
  BY Sorts
<1>2. Normalize(terms) = h[N]
  BY DEF Normalize
<1> HIDE DEF s
<1>3. N \in Nat
  BY <1>1
<1>4. Turns(h, s, N)
  BY <1>3, LoopRuns DEF Turns
<1> HIDE DEF h
<1>5. LoopInv(h[N], s, N)
  BY <1>1, <1>4, LoopKeeps
<1>6. ASSUME NEW p
      PROVE  (\E j \in 1..N : InRange(p, s[j])) <=> \E u \in ToSet(terms) : InRange(p, u)
  <2>1. DOMAIN s = 1..N
    BY <1>1
  <2>2. ToSet(terms) = {s[j] : j \in 1..N}
    BY <1>1, <2>1 DEF ToSet
  <2> QED
    BY <2>2
<1> QED
  BY <1>2, <1>5, <1>6 DEF LoopInv

(* The sum over the ranges r, by its first i.                              *)
Sums(h, r, k) ==
    h = [i \in 0..k |-> IF i = 0 THEN 0 ELSE h[i - 1] + (r[i].end - r[i].start + 1)]

LEMMA SumRuns ==
    ASSUME NEW r, NEW k \in Nat
    PROVE  \E h : Sums(h, r, k)
<1> DEFINE Bad == {n \in Nat : ~\E h : Sums(h, r, n)}
           Plus(x, i) == x + (r[i].end - r[i].start + 1)
<1> SUFFICES ASSUME Bad # {}
             PROVE  FALSE
  OBVIOUS
<1>1. PICK n \in Bad : \A m \in Bad : n <= m
  <2>1. Bad \in SUBSET Nat
    OBVIOUS
  <2> HIDE DEF Bad
  <2> QED
    BY <2>1, LeastOf
<1>0. \A h, m : Sums(h, r, m) <=> h = [i \in 0..m |-> IF i = 0 THEN 0 ELSE Plus(h[i - 1], i)]
  BY DEF Sums
<1> HIDE DEF Plus
<1>2. n # 0
  <2> DEFINE h == [i \in 0..0 |-> 0]
  <2>1. h = [i \in 0..0 |-> IF i = 0 THEN 0 ELSE Plus(h[i - 1], i)]
    <3>1. \A i \in 0..0 : i = 0
      OBVIOUS
    <3> QED
      BY <3>1
  <2>2. Sums(h, r, 0)
    BY <1>0, <2>1
  <2> QED
    BY <1>1, <2>2
<1>3. n - 1 \in Nat /\ n - 1 \notin Bad
  BY <1>1, <1>2
<1>4. PICK h : Sums(h, r, n - 1)
  BY <1>3
<1> DEFINE g == [i \in 0..n |-> IF i = n THEN Plus(h[n - 1], n) ELSE h[i]]
<1>5. ASSUME NEW i \in 0..n
      PROVE  g[i] = IF i = 0 THEN 0 ELSE Plus(g[i - 1], i)
  <2>1. \A j \in 0..n - 1 : h[j] = IF j = 0 THEN 0 ELSE Plus(h[j - 1], j)
    BY <1>0, <1>4
  <2>2. \A j \in 0..n - 1 : g[j] = h[j]
    BY <1>1, <1>2
  <2>3. g[n] = Plus(h[n - 1], n)
    BY <1>1
  <2> HIDE DEF g
  <2>4. CASE i = n
    <3>1. n - 1 \in 0..n - 1
      BY <1>3
    <3> QED
      BY <1>2, <2>2, <2>3, <2>4, <3>1
  <2>5. CASE i # n
    <3>1. i \in 0..n - 1 /\ (i # 0 => i - 1 \in 0..n - 1)
      BY <1>1, <1>3, <2>5
    <3> QED
      BY <2>1, <2>2, <3>1
  <2> QED
    BY <2>4, <2>5
<1>6. g = [i \in 0..n |-> g[i]]
  OBVIOUS
<1> HIDE DEF g
<1>7. Sums(g, r, n)
  <2>1. g = [i \in 0..n |-> IF i = 0 THEN 0 ELSE Plus(g[i - 1], i)]
    BY <1>5, <1>6
  <2> QED
    BY <1>0, <2>1
<1> QED
  BY <1>1, <1>7

(* The ports of the first n ranges.                                        *)
PortsTo(r, n) == {p \in Nat : \E j \in 1..n : InRange(p, r[j])}

(* x counts them, and none of them is beyond the last range.               *)
Counted(x, r, n) ==
    /\ IsFiniteSet(PortsTo(r, n)) /\ x = Cardinality(PortsTo(r, n))
    /\ \A p \in PortsTo(r, n) : n > 0 /\ p <= r[n].end

LEMMA CountsPorts ==
    ASSUME NEW r \in Seq(Ranges), Apart(r)
    PROVE  Count(r) = Cardinality({p \in Nat : Covers(r, p)})
<1> DEFINE N == Len(r)
           h == CHOOSE f : f = [i \in 0..N |-> IF i = 0 THEN 0
                                                ELSE f[i - 1] + (r[i].end - r[i].start + 1)]
           Bad == {n \in 0..N : ~Counted(h[n], r, n)}
<1>1. N \in Nat /\ (\A i \in 1..N : r[i] \in Ranges) /\ DOMAIN r = 1..N
  OBVIOUS
<1>2. Count(r) = h[N]
  BY DEF Count
<1>3. Sums(h, r, N)
  BY <1>1, SumRuns DEF Sums
<1> HIDE DEF h
<1>4. \A i \in 0..N : h[i] = IF i = 0 THEN 0 ELSE h[i - 1] + (r[i].end - r[i].start + 1)
  BY <1>3 DEF Sums
<1>5. Bad = {}
  <2> SUFFICES ASSUME Bad # {}
               PROVE  FALSE
    OBVIOUS
  <2>1. PICK n \in Bad : \A m \in Bad : n <= m
    <3>1. Bad \in SUBSET Nat
      OBVIOUS
    <3> HIDE DEF Bad
    <3> QED
      BY <3>1, LeastOf
  <2>2. n # 0
    <3>1. h[0] = 0 /\ PortsTo(r, 0) = {}
      BY <1>1, <1>4 DEF PortsTo
    <3>2. Counted(h[0], r, 0)
      BY <3>1, FS_EmptySet DEF Counted
    <3> QED
      BY <2>1, <3>2
  <2>3. n \in 1..N /\ n - 1 \in 0..N /\ n - 1 \notin Bad
    BY <1>1, <2>1, <2>2
  <2> DEFINE P == PortsTo(r, n - 1)
             lo == r[n].start
             hi == r[n].end
  <2>4. Counted(h[n - 1], r, n - 1) /\ h[n] = h[n - 1] + (hi - lo + 1)
    BY <1>4, <2>2, <2>3
  <2>5. lo \in Nat /\ hi \in Nat /\ lo <= hi
    BY <1>1, <2>3 DEF Ranges
  <2>6. \A p \in P : p \in Nat /\ p < lo
    <3> SUFFICES ASSUME NEW p \in P
                 PROVE  p \in Nat /\ p < lo
      OBVIOUS
    <3>1. p \in Nat /\ n - 1 > 0 /\ p <= r[n - 1].end
      BY <2>4 DEF Counted, PortsTo
    <3>2. n - 1 \in 1..N - 1 /\ n - 1 \in 1..N /\ (n - 1) + 1 = n
      BY <1>1, <2>3, <3>1
    <3>3. r[n - 1].end + 1 < r[(n - 1) + 1].start
      BY <3>2 DEF Apart
    <3>4. r[n - 1].end \in Nat
      BY <1>1, <3>2 DEF Ranges
    <3> QED
      BY <2>5, <3>1, <3>2, <3>3, <3>4
  <2>7. PortsTo(r, n) = P \cup (lo..hi)
    <3>1. \A p \in Nat : InRange(p, r[n]) <=> p \in lo..hi
      BY <2>5 DEF InRange
    <3>2. \A j \in 1..n : j = n \/ j \in 1..n - 1
      BY <2>3
    <3>3. n \in 1..n /\ \A j \in 1..n - 1 : j \in 1..n
      BY <2>3
    <3>4. lo..hi \subseteq Nat
      BY <2>5
    <3> HIDE DEF lo, hi
    <3> QED
      BY <3>1, <3>2, <3>3, <3>4 DEF PortsTo
  <2> HIDE DEF P, lo, hi
  <2>8. P \cap (lo..hi) = {}
    BY <2>5, <2>6
  <2>9. IsFiniteSet(P) /\ Cardinality(P) = h[n - 1] /\ Cardinality(P) \in Nat
    BY <2>4, FS_CardinalityType DEF Counted, P
  <2>10. IsFiniteSet(lo..hi) /\ Cardinality(lo..hi) = hi - lo + 1
    <3>1. lo \in Int /\ hi \in Int /\ ~(lo > hi)
      BY <2>5
    <3>2. /\ IsFiniteSet(lo..hi)
          /\ Cardinality(lo..hi) = IF lo > hi THEN 0 ELSE hi - lo + 1
      BY <3>1, FS_Interval
    <3> QED
      BY <3>1, <3>2
  <2>11. /\ IsFiniteSet(P \cup (lo..hi))
         /\ Cardinality(P \cup (lo..hi)) = Cardinality(P) + Cardinality(lo..hi) - 0
    <3> DEFINE I == lo..hi
    <3> HIDE DEF I
    <3>1. IsFiniteSet(P) /\ IsFiniteSet(I) /\ P \cap I = {}
      BY <2>8, <2>9, <2>10 DEF I
    <3>2. /\ IsFiniteSet(P \cup I)
          /\ Cardinality(P \cup I) = Cardinality(P) + Cardinality(I) - Cardinality(P \cap I)
      BY <3>1, FS_Union
    <3> QED
      BY <3>1, <3>2, FS_EmptySet DEF I
  <2>12. Cardinality(PortsTo(r, n)) = h[n] /\ IsFiniteSet(PortsTo(r, n))
    BY <2>4, <2>5, <2>7, <2>9, <2>10, <2>11
  <2>13. \A p \in PortsTo(r, n) : n > 0 /\ p <= r[n].end
    BY <2>3, <2>5, <2>6, <2>7 DEF hi
  <2>14. Counted(h[n], r, n)
    BY <2>12, <2>13 DEF Counted
  <2> QED
    BY <2>1, <2>14
<1>6. {p \in Nat : Covers(r, p)} = PortsTo(r, N)
  BY <1>1 DEF Covers, ToSet, PortsTo
<1>7. Counted(h[N], r, N)
  BY <1>1, <1>5
<1> QED
  BY <1>2, <1>6, <1>7 DEF Counted

(***************************************************************************)
(* PortCoverage.parse and _coverage_ranges normalize any list of terms,    *)
(* however long, to exactly their ports.                                   *)
(***************************************************************************)
THEOREM CoverageNormalized ==
    ASSUME NEW terms \in Seq(PortRanges(1, MaxPort))
    PROVE  Exact(terms, Normalize(terms))
<1> DEFINE n == Normalize(terms)
           all == {p \in Nat : Covers(n, p)}
           ports == {p \in 1..MaxPort : \E u \in ToSet(terms) : InRange(p, u)}
<1>1. MaxPort \in Nat
  BY ParsingAssumption
<1>2. PortRanges(1, MaxPort) \subseteq Ranges
  BY <1>1 DEF PortRanges, Ranges
<1>3. terms \in Seq(Ranges)
  BY <1>2, SeqMonotonic
<1>4. /\ n \in Seq(Ranges) /\ Apart(n)
      /\ \A p \in Nat : Covers(n, p) <=> \E u \in ToSet(terms) : InRange(p, u)
  BY <1>3, Normalizes
<1>5. \A u \in ToSet(terms) : u \in PortRanges(1, MaxPort)
  BY DEF ToSet
<1>6. \A p \in Nat, u \in ToSet(terms) : InRange(p, u) => p \in 1..MaxPort
  BY <1>1, <1>5 DEF PortRanges, InRange
<1>7. \A p \in 1..MaxPort : p \in Nat
  BY <1>1
<1> HIDE DEF n
<1>8. {p \in 1..MaxPort : Covers(n, p)} = ports
  BY <1>4, <1>7
<1>9. all = ports
  BY <1>4, <1>6, <1>7
<1>10. Count(n) = Cardinality(all)
  BY <1>4, CountsPorts
<1> HIDE DEF all
<1> QED
  BY <1>4, <1>8, <1>9, <1>10 DEF Exact, Apart, n

(***************************************************************************)
(* In particular the coverage of a Job is exact (CoverageIsExact).         *)
(***************************************************************************)
THEOREM ScanCoverage == ScanSpec => []CoverageIsExact
<1>1. \A r, s, t \in PortRanges(1, MaxPort) : <<r, s, t>> \in Seq(PortRanges(1, MaxPort))
  OBVIOUS
<1>2. CoverageIsExact
  BY <1>1, CoverageNormalized DEF CoverageIsExact
<1> QED
  BY <1>2, PTL
=============================================================================
