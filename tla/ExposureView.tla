---------------------------- MODULE ExposureView ----------------------------
(***************************************************************************)
(* What the projection of a target promises those who read its exposures,  *)
(* whatever the order in which events and results reach it: the target     *)
(* only moves forward, an announcement opens no port, and a result decides *)
(* the ports it is the last to cover, for the present owner alone, unless  *)
(* what closed or decided the port before it is dated later.               *)
(***************************************************************************)
EXTENDS Naturals

CONSTANTS
    Ports,      \* (protocol, port) pairs
    Events,     \* target events
    EventOf,    \* EventOf[e]: generation, type, address and time of event e
    Attempts,   \* scans, numbered
    ScanOf      \* ScanOf[a]: event, address, completion, coverage, observations

VARIABLES
    owner,      \* generation, status and address of the target
    counted,    \* the results that were taken into account
    closers,    \* closers[p]: the announcements that closed port p
    shown       \* shown[p]: the service at port p, or "closed"

viewVars == <<owner, counted, closers, shown>>

Closed == [p \in Ports |-> "closed"]

GenerationOf(a) == EventOf[ScanOf[a].event].generation

OwnerBy(e) ==
    [generation |-> EventOf[e].generation, address |-> EventOf[e].address,
     status |-> IF EventOf[e].event_type = "remove" THEN "removed" ELSE "active"]

(* No other result of its generation that covers port p completed later.   *)
LastWord(a, p) ==
    /\ p \in ScanOf[a].covers
    /\ \A b \in counted :
          GenerationOf(b) = GenerationOf(a) /\ p \in ScanOf[b].covers =>
              \/ ScanOf[b].completed_at < ScanOf[a].completed_at
              \/ ScanOf[b].completed_at = ScanOf[a].completed_at /\ b <= a

(* A result of an older generation, or the announcement that closed port   *)
(* p, is dated no earlier than result a.                                   *)
Overdue(a, p) ==
    \/ \E b \in counted : /\ GenerationOf(b) < GenerationOf(a) /\ p \in ScanOf[b].covers
                          /\ ScanOf[b].completed_at >= ScanOf[a].completed_at
    \/ \E e \in closers[p] : /\ EventOf[e].generation <= GenerationOf(a)
                             /\ EventOf[e].occurred_at >= ScanOf[a].completed_at

ViewInit ==
    /\ owner.generation = 0 /\ owner.status = "absent"
    /\ counted = {}
    /\ closers = [p \in Ports |-> {}]
    /\ shown = Closed

(* All evidence goes with the owner or the address it was about.  It may   *)
(* also go with a new generation of the same owner, never with an event of *)
(* the present one.                                                        *)
Announce(e) ==
    /\ EventOf[e].generation >= owner.generation
    /\ owner' = OwnerBy(e)
    /\ shown' = shown \/ (EventOf[e].generation > owner.generation /\ shown' = Closed)
    /\ owner'.status # "active" \/ owner'.address # owner.address => shown' = Closed
    /\ closers' = [p \in Ports |-> IF shown'[p] # shown[p] THEN closers[p] \cup {e}
                                    ELSE closers[p]]
    /\ counted' = counted

Report(a) ==
    /\ owner.status = "active" /\ ScanOf[a].complete
    /\ GenerationOf(a) = owner.generation /\ ScanOf[a].address = owner.address
    /\ counted' = counted \cup {a}
    /\ \E late \in SUBSET {p \in Ports : Overdue(a, p)} :
          shown' = [p \in Ports |-> IF LastWord(a, p) /\ p \notin late THEN ScanOf[a].sees[p]
                                    ELSE shown[p]]
    /\ UNCHANGED <<owner, closers>>

ViewNext == (\E e \in Events : Announce(e)) \/ (\E a \in Attempts : Report(a))

ViewSpec == ViewInit /\ [][ViewNext]_viewVars
=============================================================================
