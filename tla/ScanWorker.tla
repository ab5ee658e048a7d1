------------------------------ MODULE ScanWorker ------------------------------
(***************************************************************************)
(* The scan worker (scanner/nmap): the pods of one scan Job, each of which *)
(* discovers the open ports of a host, enriches them and publishes raw XML *)
(* and an envelope to S3.  Discovery and enrichment look at the host at    *)
(* different times; a pod can be told to stop at any moment, can be killed *)
(* at any moment, and any upload can fail with or without its effect.      *)
(***************************************************************************)
EXTENDS Integers, PortCoverage

CONSTANTS
    Pods,               \* 1..n: the attempts of the Job, in the order it makes them
    OpenSets,           \* the sets of open ports the host may show
    Becomes,            \* Becomes[ports]: what it may show after ports
    Coverage,           \* the ranges of ports that the scan was asked for
    MaxTerms,           \* MAX_COVERAGE_TERMS: ranges in a declared coverage
    MaxArgument,        \* the characters of an argument in ScanCommand
    NotAfter,           \* the absolute cutoff of the scan
    Reserve,            \* upload_reserve_seconds
    DiscoveryTimeout,   \* discovery_process_timeout_seconds
    EnrichmentTimeout,  \* enrichment_process_timeout_seconds
    Grace,              \* PROCESS_TERMINATION_GRACE_SECONDS
    MaxClock,           \* bound on time
    MaxChanges,         \* bound on changes of the host's ports
    MaxFaults           \* bound on signals, kills, failed and repeated calls

MinExecution == 2       \* MIN_PHASE_EXECUTION_SECONDS

(* NmapTuning: a process outlives its host timeout, and MIN_UPLOAD_RESERVE  *)
(* is no less than the grace a stopped process gets.                        *)
ASSUME WorkerAssumption ==
    /\ IsFiniteSet(Pods) /\ Pods = 1..Cardinality(Pods)
    /\ \A ports \in OpenSets : ports \subseteq Nat /\ \A p \in ports : Covers(Coverage, p)
    /\ Becomes \in [OpenSets -> SUBSET OpenSets]
    /\ MaxArgument \in Nat
    /\ DiscoveryTimeout \in Nat /\ DiscoveryTimeout >= MinExecution
    /\ EnrichmentTimeout \in Nat /\ EnrichmentTimeout >= MinExecution
    /\ Reserve \in Nat /\ Grace \in 0..Reserve
    /\ NotAfter \in Nat /\ MaxTerms \in Nat /\ MaxClock \in Nat
    /\ MaxChanges \in Nat /\ MaxFaults \in Nat

VARIABLES
    clock,
    open,      \* the ports of the host that are open now
    changes,
    worker,    \* the state of each pod
    object,    \* the S3 objects under each attempt's prefix
    faults

workerVars == <<clock, open, changes, worker, object, faults>>

Ports == UNION OpenSets

(* An XML file, up to what its readers can tell: absent or empty, cut off   *)
(* in the middle, well-formed but without proof of coverage (a host timeout *)
(* or a failed run), or whole; the ports it shows open; and whether it also *)
(* lists, on its own, a port it shows closed.                               *)
File(kind, ports, closed) == [kind |-> kind, ports |-> ports, closed |-> closed]
NoFile == File("none", {}, FALSE)
Torn == File("torn", {}, FALSE)
Short(seen) == {File("short", ports, FALSE) : ports \in {{}, seen}}
Whole(seen, scope) ==
    {File("whole", seen, closed) : closed \in IF scope \subseteq seen THEN {FALSE} ELSE BOOLEAN}

(* ScanResultEnvelope and its nested ScanResult.  A reference carries the   *)
(* digest of the file, so it is the file.  Of the exit code it matters that *)
(* it is negative, of the commands that their arguments are short enough.   *)
NoEnvelope == [outcome |-> "none", scanned |-> FALSE, declared |-> {},
               raw |-> NoFile, enrichment |-> NoFile, enriches |-> FALSE,
               negative |-> FALSE, fits |-> TRUE]
Nothing == [discovery |-> NoFile, enrichment |-> NoFile, envelope |-> NoEnvelope]

(* A pod that has not started.  signalled: Nmap died of a signal, which the *)
(* exit code of the failure tells by being negative.  sawDiscovery and      *)
(* sawEnrichment are history: what was open when each phase ended; lostPut: *)
(* an upload went wrong.                                                    *)
NotStarted ==
    [pc |-> "waiting", term |-> FALSE, until |-> 0, discovery |-> NoFile,
     enrichment |-> NoFile, enriches |-> FALSE, failed |-> FALSE, scanned |-> FALSE,
     signalled |-> FALSE, declared |-> {}, artifact |-> TRUE, raw |-> NoFile, rawEnrichment |-> NoFile,
     exit |-> "none", sawDiscovery |-> {}, sawEnrichment |-> {}, lostPut |-> FALSE]

WorkerInit ==
    /\ clock = 0 /\ changes = 0 /\ faults = 0
    /\ open \in OpenSets
    /\ worker = [a \in Pods |-> NotStarted]
    /\ object = [a \in Pods |-> Nothing]

----------------------------------------------------------------------------

At(a, pc) == worker[a].pc = pc
Become(a, w) == worker' = [worker EXCEPT ![a] = w]
Running(a) == worker[a].pc \in {"discovery", "enrichment"}
Alive(a) == worker[a].pc \notin {"waiting", "ended"}
Fault == faults < MaxFaults /\ faults' = faults + 1

(* The process is gone, and its working directory with it.  What it had     *)
(* tried stays as history.                                                  *)
Ended(w, exit) ==
    [NotStarted EXCEPT !.pc = "ended", !.exit = exit, !.lostPut = w.lostPut,
                       !.signalled = w.signalled, !.enriches = w.enriches,
                       !.sawDiscovery = w.sawDiscovery, !.sawEnrichment = w.sawEnrichment]

(* A _PhaseFailureError: on to _publish_failed_scan.                        *)
Failure(w, scanned, ports, artifact) ==
    [w EXCEPT !.pc = "putDiscovery", !.failed = TRUE, !.scanned = scanned,
              !.declared = ports, !.artifact = artifact]

(* Mutant: the configured timeout is not cut to what is left.               *)
BudgetUncut(now, configured) ==
    IF NotAfter - now - Reserve < MinExecution THEN 0 ELSE configured

(* _phase_budget: seconds for the process, 0 when there is no time for it.  *)
Budget(now, configured) ==
    LET execution == NotAfter - now - Reserve
    IN  IF execution < MinExecution THEN 0 ELSE Min({configured, execution})

(* The Job's next pod, once the one before failed or was told to go; its    *)
(* first moments up to the launch of Nmap.                                  *)
Start(a) ==
    LET w == worker[a]
        budget == Budget(clock, DiscoveryTimeout)
    IN  /\ At(a, "waiting")
        /\ \A b \in Pods : b = a - 1 => worker[b].exit \in {"error", "refused", "killed"}
                                        \/ worker[b].term
        /\ Become(a, IF budget = 0 \/ w.term THEN Failure(w, FALSE, {}, TRUE)
                     ELSE [w EXCEPT !.pc = "discovery", !.until = clock + budget])
        /\ UNCHANGED <<clock, open, changes, object, faults>>

----------------------------------------------------------------------------
(* The end of an Nmap process, and what SubprocessRunner.run makes of it.   *)

(* Mutant: the process deadline is never looked at.                         *)
OverdueNever(w) == FALSE

Overdue(w) == clock >= w.until

(* Files a process leaves that fails, or is stopped at some moment.         *)
Leftovers(seen) == {NoFile, Torn} \union Short(seen)

Scope(w) == IF w.pc = "discovery" THEN Ports ELSE w.discovery.ports

(* A whole file; nobody looks for the closed ports of a discovery.          *)
Finished(w, seen) ==
    IF w.pc = "discovery" THEN {File("whole", seen, FALSE)} ELSE Whole(seen, w.discovery.ports)

AfterDiscovery(w, file) == [w EXCEPT !.discovery = file, !.sawDiscovery = open]
AfterEnrichment(w, file) == [w EXCEPT !.enrichment = file, !.sawEnrichment = open]

(* _run_phase raises: what discovery found is reported with the failure.    *)
PhaseFails(w, file) ==
    IF w.pc = "discovery" THEN Failure(AfterDiscovery(w, file), FALSE, {}, TRUE)
    ELSE Failure(AfterEnrichment(w, file), TRUE, w.discovery.ports, TRUE)

(* Termination was requested or the time is up: the process is stopped.     *)
NmapStopped(a) ==
    LET w == worker[a]
        seen == open \intersect Scope(w)
    IN  /\ Running(a)
        /\ w.term \/ Overdue(w)
        /\ \E file \in Leftovers(seen) \union Finished(w, seen) :
              Become(a, PhaseFails(w, file))
        /\ UNCHANGED <<clock, open, changes, object, faults>>

(* Nmap exits with an error, could not be executed at all, or is killed by  *)
(* a signal that the worker did not send.                                   *)
NmapFails(a) ==
    LET w == worker[a]
        seen == open \intersect Scope(w)
    IN  /\ Running(a) /\ ~w.term /\ clock <= w.until
        /\ \E killed \in BOOLEAN :
              \E file \in Leftovers(seen) \union IF killed THEN Finished(w, seen) ELSE {} :
                 Become(a, PhaseFails([w EXCEPT !.signalled = killed], file))
        /\ UNCHANGED <<clock, open, changes, object, faults>>

DiscoveryExits(a) ==
    LET w == worker[a]
    IN  /\ At(a, "discovery") /\ ~w.term /\ clock <= w.until
        /\ \E file \in Short(open) \union Finished(w, open) :
              Become(a, [AfterDiscovery(w, file) EXCEPT !.pc = "check"])
        /\ UNCHANGED <<clock, open, changes, object, faults>>

(* The request to stop is looked at once more, then validate_complete_scan. *)
DiscoveryCheck(a) ==
    LET w == worker[a]
    IN  /\ At(a, "check")
        /\ Become(a, IF w.term \/ w.discovery.kind # "whole" THEN Failure(w, FALSE, {}, TRUE)
                     ELSE [w EXCEPT !.pc = "enrich"])
        /\ UNCHANGED <<clock, open, changes, object, faults>>

(* Mutant: an open port of discovery may have closed by enrichment.         *)
EnrichedLoosely(w, file) ==
    IF file.kind = "whole" THEN [w EXCEPT !.pc = "final"]
    ELSE Failure(w, TRUE, w.discovery.ports, TRUE)

(* extract_open_tcp_ports against the discovery, then                       *)
(* validate_complete_scan with the open ports as coverage.                  *)
Enriched(w, file) ==
    IF file.ports # w.discovery.ports THEN Failure(w, FALSE, {}, FALSE)
    ELSE IF file.kind = "whole" THEN [w EXCEPT !.pc = "final"]
    ELSE Failure(w, TRUE, w.discovery.ports, TRUE)

EnrichmentExits(a) ==
    LET w == worker[a]
        seen == open \intersect Scope(w)
    IN  /\ At(a, "enrichment") /\ ~w.term /\ clock <= w.until
        /\ \E file \in Short(seen) \union Finished(w, seen) :
              Become(a, Enriched(AfterEnrichment(w, file), file))
        /\ UNCHANGED <<clock, open, changes, object, faults>>

----------------------------------------------------------------------------

(* Discovery is proven complete: nothing to enrich, an enrichment coverage  *)
(* PortCoverage refuses (an error nobody publishes), or the second launch.  *)
StartEnrichment(a) ==
    LET w == worker[a]
        found == w.discovery.ports
        budget == Budget(clock, EnrichmentTimeout)
        probing == [w EXCEPT !.enriches = TRUE]
    IN  /\ At(a, "enrich")
        /\ Become(a,
             IF found = {} THEN [w EXCEPT !.pc = "final"]
             ELSE IF Len(FromPorts(found)) > MaxTerms THEN Ended(w, "refused")
             ELSE IF budget = 0 \/ w.term THEN Failure(probing, TRUE, found, TRUE)
             ELSE [probing EXCEPT !.pc = "enrichment", !.until = clock + budget])
        /\ UNCHANGED <<clock, open, changes, object, faults>>

FinalCheck(a) ==
    LET w == worker[a]
        found == w.discovery.ports
    IN  /\ At(a, "final")
        /\ Become(a, IF w.term THEN Failure(w, TRUE, found, TRUE)
                     ELSE [w EXCEPT !.pc = "putDiscovery", !.scanned = TRUE,
                                    !.declared = found])
        /\ UNCHANGED <<clock, open, changes, object, faults>>

----------------------------------------------------------------------------
(* Publication: raw discovery, raw enrichment, envelope.                    *)

(* Mutant: the attempts of one event share a prefix.                        *)
PrefixOfEvent(a) == 1

(* build_object_keys: every attempt writes under a prefix of its own.       *)
Prefix(a) == a

(* _put with IfNoneMatch: stored and acknowledged; refused, because the key *)
(* exists or because S3 or the network failed; or stored while the client   *)
(* sees an error, be it a lost answer or the 412 that its own retry meets.  *)
Put(a, kind, value, absent, done, broken) ==
    LET key == Prefix(a)
        free == object[key][kind] = absent
        stored == object' = [object EXCEPT ![key][kind] = value]
    IN  \/ free /\ stored /\ Become(a, done) /\ UNCHANGED faults
        \/ ~free /\ Become(a, broken) /\ UNCHANGED <<object, faults>>
        \/ /\ free /\ Fault
           /\ stored \/ UNCHANGED object
           /\ Become(a, [broken EXCEPT !.lostPut = TRUE])

(* Mutant: a failed upload leaves its reference behind.                     *)
WithoutReferenceKept(w, kind) ==
    IF kind = "discovery" THEN [w EXCEPT !.pc = "putEnrichment", !.raw = w.discovery]
    ELSE [w EXCEPT !.pc = "putEnvelope", !.rawEnrichment = w.enrichment]

(* An upload that failed: the failed scan goes on without the reference.    *)
WithoutReference(w, kind) ==
    [w EXCEPT !.pc = IF kind = "discovery" THEN "putEnrichment" ELSE "putEnvelope"]

WithReference(w, kind) ==
    IF kind = "discovery" THEN [w EXCEPT !.pc = "putEnrichment", !.raw = w.discovery]
    ELSE [w EXCEPT !.pc = "putEnvelope", !.rawEnrichment = w.enrichment]

(* _put_raw_if_present: a completed scan gives up on an error, a failed one *)
(* does not, and does not publish an enrichment of other ports.             *)
PutRaw(a, kind) ==
    LET w == worker[a]
        present == w[kind].kind # "none" /\ (kind = "enrichment" => w.artifact)
    IN  /\ At(a, IF kind = "discovery" THEN "putDiscovery" ELSE "putEnrichment")
        /\ IF present
           THEN Put(a, kind, w[kind], NoFile, WithReference(w, kind),
                    IF w.failed THEN WithoutReference(w, kind) ELSE Ended(w, "error"))
           ELSE Become(a, WithoutReference(w, kind)) /\ UNCHANGED <<object, faults>>
        /\ UNCHANGED <<clock, open, changes>>

FailedOutcome(w) ==
    IF w.discovery.kind # "none" \/ w.enrichment.kind # "none" THEN "partial" ELSE "failed"

(* The argument of -p, as ScanCommand bounds it.                            *)
Fits(ranges) == SpecLength(ranges) <= MaxArgument

(* The sets of open ports that make too long an argument for enrichment.    *)
LongLists == {ports \in OpenSets : ~Fits(FromPorts(ports))}

(* build_scan_result_payload: without raw discovery there is no raw result, *)
(* and no place for the enrichment either.                                  *)
Envelope(w) ==
    [outcome |-> IF w.failed THEN FailedOutcome(w) ELSE "complete",
     scanned |-> w.scanned, declared |-> w.declared, raw |-> w.raw,
     enrichment |-> IF w.raw = NoFile THEN NoFile ELSE w.rawEnrichment,
     enriches |-> w.enriches, negative |-> w.signalled,
     fits |-> Fits(Coverage) /\ (w.enriches => w.discovery.ports \notin LongLists)]

(* ExitCode is a number from 0 to 255, and ScanCommand has an argv of       *)
(* bounded arguments.                                                       *)
ExitCodeValid(e) == ~e.negative
CommandsValid(e) == e.fits

(* What ScanResult checks of its fields and across them.                    *)
ResultValid(e) ==
    /\ ExitCodeValid(e)
    /\ e.declared # {} => e.scanned
    /\ e.outcome = "complete" => e.scanned

(* What ScanResultEnvelope checks on top of the result it wraps.            *)
ContractValid(e) ==
    /\ ResultValid(e) /\ CommandsValid(e)
    /\ e.outcome = "complete" => e.raw # NoFile
    /\ e.enrichment # NoFile => e.enriches

PutEnvelope(a) ==
    LET w == worker[a]
        e == Envelope(w)
        exit == IF w.failed THEN "error" ELSE "ok"
    IN  /\ At(a, "putEnvelope")
        /\ IF ContractValid(e)
           THEN Put(a, "envelope", e, NoEnvelope, Ended(w, exit), Ended(w, "error"))
           ELSE Become(a, Ended(w, "error")) /\ UNCHANGED <<object, faults>>
        /\ UNCHANGED <<clock, open, changes>>

----------------------------------------------------------------------------
(* The world around the worker.                                             *)

(* SIGTERM, once the handler is installed, only sets an event.              *)
Terminate(a) ==
    /\ Alive(a) /\ ~worker[a].term /\ Fault
    /\ Become(a, [worker[a] EXCEPT !.term = TRUE])
    /\ UNCHANGED <<clock, open, changes, object>>

(* The end of the pod's grace or of the Job's time, memory, a lost node.    *)
Kill(a) ==
    /\ Alive(a) /\ Fault
    /\ Become(a, Ended(worker[a], "killed"))
    /\ UNCHANGED <<clock, open, changes, object>>

(* Only Nmap looks at the host, when it ends; before the first look another *)
(* state of the host is another initial state.                              *)
HostChanges ==
    /\ \E a \in Pods : Running(a)
    /\ \E a \in Pods : worker[a].pc \notin {"waiting", "discovery"}
    /\ changes < MaxChanges /\ changes' = changes + 1
    /\ open' \in Becomes[open] \ {open}
    /\ UNCHANGED <<clock, worker, object, faults>>

(* A process that is stopped is gone when its grace is over.  The clock is  *)
(* read only when a phase starts and while Nmap runs.                       *)
Tick ==
    /\ \E a \in Pods : Running(a) \/ worker[a].pc \in {"waiting", "enrich"}
    /\ clock < MaxClock /\ clock' = clock + 1
    /\ \A a \in Pods : Running(a) => clock < worker[a].until + Grace
    /\ UNCHANGED <<open, changes, worker, object, faults>>

(* Steps the worker takes on its own.  Nmap's own end is not among them.    *)
Work(a) ==
    \/ NmapStopped(a) \/ DiscoveryCheck(a) \/ StartEnrichment(a) \/ FinalCheck(a)
    \/ PutRaw(a, "discovery") \/ PutRaw(a, "enrichment") \/ PutEnvelope(a)

WorkerNext ==
    \/ \E a \in Pods :
          \/ Start(a) \/ Work(a)
          \/ NmapFails(a) \/ DiscoveryExits(a) \/ EnrichmentExits(a)
          \/ Terminate(a) \/ Kill(a)
    \/ HostChanges
    \/ Tick
=============================================================================
