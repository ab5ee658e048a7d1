---------------------------- MODULE ResultParsing ----------------------------
(***************************************************************************)
(* Result parsing (parser/handler.py, xml_parser.py) behind the worker: S3 *)
(* announces every envelope at least once, the handler reads the envelope  *)
(* and the XML it refers to, checks them against each other and hands the  *)
(* observations to the database.  A message goes only when its envelope    *)
(* was ingested; a retryable failure and a permanent one both keep it.     *)
(***************************************************************************)
EXTENDS ScanWorker

CONSTANT MaxPort    \* the ports 1..MaxPort of the coverage declarations checked

ASSUME ParsingAssumption == MaxPort \in Nat

VARIABLES
    messages,   \* attempts with a notification in the queue
    ingested,   \* what the database was given for each attempt
    rejected    \* attempts the handler refused for good

scanVars == <<workerVars, messages, ingested, rejected>>

(* authority: xml_completion_validated, the right to close what is absent.  *)
NotIngested == [done |-> FALSE, authority |-> FALSE, ports |-> {}]

ScanInit == WorkerInit /\ messages = {} /\ rejected = {}
            /\ ingested = [a \in Pods |-> NotIngested]

----------------------------------------------------------------------------
(* _load_observations, as what it returns or raises.                        *)

Answer(verdict, authority, ports) ==
    [verdict |-> verdict, authority |-> authority, ports |-> ports]
Retry == Answer("retry", FALSE, {})
Reject == Answer("reject", FALSE, {})

(* _fetch_xml_observations: the object must have the digest of the          *)
(* reference, and parse_nmap_xml must accept it.                            *)
Fetched(key, kind, reference) == object[key][kind] = reference

(* With require_complete: a proof of coverage, of exactly the ports named.  *)
Proven(file) == file.kind = "whole"

(* merge_enrichment_observations: everything enrichment lists was open.     *)
Consistent(e) == e.enrichment.ports \subseteq e.raw.ports /\ ~e.enrichment.closed

LoadComplete(e) ==
    IF /\ e.raw # NoFile /\ Proven(e.raw)
       /\ e.enrichment = NoFile => e.declared = {}
       /\ e.enrichment # NoFile =>
             /\ Proven(e.enrichment) /\ Consistent(e)
             /\ e.enrichment.ports = e.raw.ports
       /\ e.raw.ports = e.declared
    THEN Answer("ingest", TRUE, e.raw.ports)
    ELSE Reject

(* Mutant: well-formed XML is taken for a completed scan.                   *)
LoadPartialAsProof(e) ==
    IF e.raw.kind = "torn" \/ e.enrichment.kind = "torn" THEN Answer("ingest", FALSE, {})
    ELSE Answer("ingest", e.raw # NoFile, IF Consistent(e) THEN e.raw.ports ELSE {})

(* A partial or failed attempt is stored with what its XML shows, or with   *)
(* no observation when one of its files is malformed or they disagree.      *)
LoadPartial(e) ==
    IF e.raw.kind = "torn" \/ e.enrichment.kind = "torn" \/ ~Consistent(e)
    THEN Answer("ingest", FALSE, {})
    ELSE Answer("ingest", FALSE, e.raw.ports)

(* _process_scan_result on the envelope of an attempt.  The enrichment is   *)
(* not read when the discovery has already settled the answer.              *)
Process(a) ==
    LET key == Prefix(a)
        e == object[key].envelope
        readsOn == IF e.outcome = "complete" THEN Proven(e.raw) ELSE e.raw.kind # "torn"
        unread == \/ e.raw # NoFile /\ ~Fetched(key, "discovery", e.raw)
                  \/ e.enrichment # NoFile /\ readsOn
                        /\ ~Fetched(key, "enrichment", e.enrichment)
    IN  IF ~ContractValid(e) THEN Reject
        ELSE IF unread THEN Retry
        ELSE IF e.outcome = "complete" THEN LoadComplete(e) ELSE LoadPartial(e)

----------------------------------------------------------------------------

(* Mutant: the batch reports no failure.                                    *)
KeepsNone(answer) == FALSE

(* batchItemFailures: what is not ingested stays in the queue.              *)
Keeps(answer) == answer.verdict # "ingest"

(* One delivery of a notification.  S3 and the database may fail, the       *)
(* target may be unknown as yet, and the invocation may die after the       *)
(* database committed; SQS then delivers the message again.                 *)
Handle(a) ==
    /\ a \in messages
    /\ \/ /\ \E answer \in {Process(a)} :
               /\ messages' = IF Keeps(answer) THEN messages ELSE messages \ {a}
               /\ rejected' = IF answer.verdict = "reject" THEN rejected \union {a} ELSE rejected
               /\ ingested' = IF answer.verdict = "ingest"
                              THEN [ingested EXCEPT ![a] =
                                      [done |-> TRUE, authority |-> answer.authority,
                                       ports |-> answer.ports]]
                              ELSE ingested
          /\ UNCHANGED workerVars
       \/ /\ Fault
          /\ messages' = IF Keeps(Retry) THEN messages ELSE messages \ {a}
          /\ UNCHANGED <<clock, open, changes, worker, object, ingested, rejected>>

(* A notification that was handled is delivered once more.                  *)
Redeliver(a) ==
    /\ ingested[a].done /\ a \notin messages /\ Fault
    /\ messages' = messages \union {a}
    /\ UNCHANGED <<clock, open, changes, worker, object, ingested, rejected>>

(* S3 announces an envelope when it appears.                                *)
Announced ==
    messages' = messages \union {a \in Pods : object'[a].envelope # object[a].envelope}

ScanNext ==
    \/ WorkerNext /\ Announced /\ UNCHANGED <<ingested, rejected>>
    \/ \E a \in Pods : Handle(a) \/ Redeliver(a)

ScanSpec == ScanInit /\ [][ScanNext]_scanVars

(* Time passes; a worker that is alive takes its own steps; a message is    *)
(* delivered until it is handled.  Nmap is not assumed to end.              *)
FairScan ==
    /\ ScanSpec
    /\ WF_scanVars(Tick /\ Announced /\ UNCHANGED <<ingested, rejected>>)
    /\ \A a \in Pods :
          /\ WF_scanVars(Work(a) /\ Announced /\ UNCHANGED <<ingested, rejected>>)
          /\ WF_scanVars(Handle(a))

----------------------------------------------------------------------------

(* Whatever failed on the way, an envelope that can be read refers only to  *)
(* objects that are there, under the attempt's own keys, with the digest it *)
(* states: raw first, and no reference to an upload that was not confirmed. *)
ReferencesResolve ==
    \A a \in Pods :
        LET e == object[a].envelope
        IN  /\ e.raw \in {NoFile, object[a].discovery}
            /\ e.enrichment \in {NoFile, object[a].enrichment}

(* The worker's proof of completeness is at least as strict as the          *)
(* parser's: an envelope the worker publishes, cut short at any point and   *)
(* over any change of the host, is never refused for good.                  *)
NeverRejected == rejected = {}

(* Only a scan that saw every port may close what it does not mention: the  *)
(* ports it reports are those open when discovery ended, still open at the  *)
(* end of enrichment.  Any other attempt reports no port that was closed.   *)
AuthorityIsEarned ==
    \A a \in Pods :
        LET w == worker[a]
            i == ingested[a]
        IN  /\ i.ports \subseteq w.sawDiscovery
            /\ i.authority => /\ i.ports = w.sawDiscovery
                              /\ i.ports # {} => i.ports \subseteq w.sawEnrichment

(* The result of pod state w has a form the contract allows: Nmap was not   *)
(* killed by a signal, and its arguments can be told.                       *)
Publishable(w) ==
    /\ ~w.signalled /\ Fits(Coverage)
    /\ w.enriches => w.sawDiscovery \notin LongLists

(* The exit code the Job reports tells what S3 holds: success means a       *)
(* complete envelope; a failure none of whose uploads went wrong left an    *)
(* envelope that says so, if its result has a form the contract allows, and *)
(* none otherwise; the refused coverage leaves nothing at all.              *)
ExitTellsOutcome ==
    \A a \in Pods :
        LET w == worker[a]
            outcome == object[a].envelope.outcome
        IN  /\ w.exit = "ok" => outcome = "complete"
            /\ w.exit = "error" /\ ~w.lostPut =>
                  outcome \in IF Publishable(w) THEN {"partial", "failed"} ELSE {"none"}
            /\ w.exit = "refused" => object[a] = Nothing

(* Two phases, each with a timeout of its own, leave the reserve for the    *)
(* uploads: no Nmap process is alive beyond it and a stopped one's grace.   *)
NmapStopsInTime ==
    \A a \in Pods : Running(a) => clock <= NotAfter - Reserve + Grace

(* The ranges have exactly the ports of the terms, and are sorted, apart    *)
(* from each other and counted once.                                        *)
Exact(terms, ranges) ==
    LET ports == {p \in 1..MaxPort : \E u \in ToSet(terms) : InRange(p, u)}
    IN  /\ {p \in 1..MaxPort : Covers(ranges, p)} = ports
        /\ Count(ranges) = Cardinality(ports)
        /\ \A i \in 1..Len(ranges) - 1 : ranges[i].end + 1 < ranges[i + 1].start

(* Whatever terms a Job is given before its first pod starts, overlapping,  *)
(* repeated and in any order, normalization is exact: the worker's, the     *)
(* parser's and Nmap's count of a coverage agree however it was declared.   *)
CoverageIsExact ==
    (\A a \in Pods : At(a, "waiting")) =>
    \A r, s, t \in PortRanges(1, MaxPort) : Exact(<<r, s, t>>, Normalize(<<r, s, t>>))

(* Pods that start come to an end, even if Nmap hangs: the runner's         *)
(* deadline stops it, and every upload ends one way or the other.           *)
PodsEnd == <>[](\A a \in Pods : ~Alive(a))

(* An envelope in S3 reaches the database, however often reading it fails   *)
(* and whatever state its XML was left in.                                  *)
PublishedIsIngested ==
    <>[](\A a \in Pods : object[a].envelope # NoEnvelope => ingested[a].done)
=============================================================================
