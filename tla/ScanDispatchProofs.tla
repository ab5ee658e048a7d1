------------------------- MODULE ScanDispatchProofs -------------------------
(* The claim protocol of the generator, for any number of invocations,     *)
(* events and generations.                                                 *)
EXTENDS ScanDispatch, TLAPS

Claims == [state: ClaimStates, owner: Workers \cup {"none"}, lease: Nat]

Works == [pc: WorkerPcs, event: Events, started: 0 .. MaxClock, round: {1, 2}, limit: Nat,
          doomed: SUBSET Events, outcome: Terminal \cup {"none"}]

(* What the type invariant says of one claim and of one invocation.        *)
ClaimOK(c) == c \in Claims /\ (c.state = "CLAIMED" <=> c.owner # "none")
WorkOK(k) == k \in Works /\ (k.pc \in {"exact", "create", "complete"} => k.outcome # "none")

(***************************************************************************)
(* The type invariant, claim by claim and invocation by invocation.        *)
(***************************************************************************)
LEMMA TypeByParts ==
    DispatchTypeOK <=>
        /\ row \in Generations /\ live \in {"same", "drifted", "gone"}
        /\ clock \in 0 .. MaxClock /\ ended \in [Generations -> 0 .. MaxClock]
        /\ claim \in [Events -> Claims] /\ \A e \in Events : ClaimOK(claim[e])
        /\ scanner \in [Events -> {"none", "live", "deleting"}]
        /\ worker \in [Workers -> Works] /\ \A w \in Workers : WorkOK(worker[w])
        /\ acked \subseteq Events
BY DEF DispatchTypeOK, Claims, Works, ClaimOK, WorkOK

LEMMA NoWorkOK == WorkOK(NoWork)
<1>1. (CHOOSE e \in Events : TRUE) \in Events
  BY DispatchAssumption
<1>2. NoWork \in Works
  BY <1>1, DispatchAssumption DEF NoWork, Works, WorkerPcs
<1> QED BY <1>2 DEF NoWork, WorkOK

LEMMA NoClaimOK == ClaimOK(NoClaim)
BY DispatchAssumption DEF NoClaim, ClaimOK, Claims, ClaimStates

(***************************************************************************)
(* A step that writes at most one well-formed claim and one well-formed    *)
(* invocation, and leaves the world alone, keeps the types.                *)
(***************************************************************************)
LEMMA StepOK ==
    ASSUME DispatchTypeOK, NEW w \in Workers, NEW k, WorkOK(k),
           worker' = [worker EXCEPT ![w] = k],
           NEW e \in Events, NEW c, ClaimOK(c),
           claim' = claim \/ claim' = [claim EXCEPT ![e] = c],
           scanner' \in [Events -> {"none", "live", "deleting"}],
           acked' \subseteq Events, UNCHANGED worldVars
    PROVE  DispatchTypeOK'
<1>1. claim' \in [Events -> Claims] /\ \A f \in Events : ClaimOK(claim'[f])
  BY TypeByParts DEF ClaimOK
<1>2. worker' \in [Workers -> Works] /\ \A v \in Workers : WorkOK(worker'[v])
  BY TypeByParts DEF WorkOK
<1>3. UNCHANGED <<row, ended, live, clock>>
  BY DEF worldVars
<1> QED BY <1>1, <1>2, <1>3, TypeByParts DEF DispatchTypeOK, Claims, Works, ClaimOK, WorkOK

LEMMA InitOK == DispatchInit => DispatchTypeOK
<1>1. DispatchInit => /\ row \in Generations /\ clock \in 0 .. MaxClock
                      /\ ended \in [Generations -> 0 .. MaxClock]
  BY DispatchAssumption DEF DispatchInit, Generations, MaxOf
<1>2. DispatchInit => claim \in [Events -> Claims] /\ \A e \in Events : ClaimOK(claim[e])
  BY NoClaimOK DEF DispatchInit, ClaimOK
<1>3. DispatchInit => worker \in [Workers -> Works] /\ \A w \in Workers : WorkOK(worker[w])
  BY NoWorkOK DEF DispatchInit, WorkOK
<1> QED BY <1>1, <1>2, <1>3, TypeByParts DEF DispatchInit

(***************************************************************************)
(* Every action keeps the types.                                           *)
(***************************************************************************)
LEMMA WorldTypes ==
    ASSUME DispatchTypeOK, Tick \/ RowAdvances \/ ProviderChanges
                           \/ \E e \in Events : ScannerGone(e)
    PROVE  DispatchTypeOK'
<1>1. CASE Tick
  BY <1>1, DispatchAssumption DEF Tick, DispatchTypeOK
<1>2. CASE RowAdvances
  BY <1>2, DispatchAssumption DEF RowAdvances, DispatchTypeOK, Generations, MaxOf
<1>3. CASE ProviderChanges
  BY <1>3 DEF ProviderChanges, DispatchTypeOK
<1>4. CASE \E e \in Events : ScannerGone(e)
  BY <1>4 DEF ScannerGone, worldVars, DispatchTypeOK
<1> QED BY <1>1, <1>2, <1>3, <1>4

LEMMA ClaimTypes ==
    ASSUME DispatchTypeOK, NEW w \in Workers,
           \/ \E e \in Events : Deliver(w, e)
           \/ PutClaim(w) \/ ReadClaim(w) \/ TakeClaim(w) \/ ClassifyAfterRace(w)
           \/ Complete(w) \/ RetryClaim(w) \/ Raises(w) \/ Crash(w)
    PROVE  DispatchTypeOK'
<1> USE DispatchAssumption
<1> DEFINE k == worker[w]
           e == k.event
<1>0. /\ WorkOK(k) /\ k \in Works /\ e \in Events /\ WorkOK(NoWork) /\ ClaimOK(NoClaim)
      /\ scanner \in [Events -> {"none", "live", "deleting"}] /\ acked \subseteq Events
      /\ acked \cup {e} \subseteq Events /\ claim[e] \in Claims /\ clock \in 0 .. MaxClock
  BY TypeByParts, NoWorkOK, NoClaimOK DEF Works
<1>1. WorkOK([k EXCEPT !.pc = "row"]) /\ WorkOK([k EXCEPT !.pc = "existing"])
      /\ WorkOK([k EXCEPT !.pc = "take"]) /\ WorkOK([k EXCEPT !.pc = "classify"])
      /\ WorkOK([k EXCEPT !.pc = "retry"])
  BY <1>0 DEF WorkOK, Works, WorkerPcs
<1>2. ClaimOK([state |-> "CLAIMED", owner |-> w, lease |-> k.started + Lease])
  BY <1>0 DEF ClaimOK, Claims, Works, ClaimStates
<1>3. k.outcome \in Terminal \cup {"none"}
  BY <1>0 DEF Works
<1>4. ASSUME NEW s \in Terminal \cup {"none", "RETRYABLE"}
      PROVE  ClaimOK([NoClaim EXCEPT !.state = s])
  BY DEF ClaimOK, Claims, NoClaim, ClaimStates, Terminal
<1> HIDE DEF k
<1>5. CASE \E f \in Events : Deliver(w, f)
  <2>1. PICK f \in Events : Deliver(w, f)
    BY <1>5
  <2>2. WorkOK([NoWork EXCEPT !.pc = "put", !.event = f, !.started = clock])
    BY <1>0 DEF WorkOK, Works, WorkerPcs, NoWork
  <2>3. CASE f \in Denied
    BY <2>1, <2>3 DEF Deliver, DispatchTypeOK, worldVars
  <2>4. CASE f \notin Denied
    BY <2>1, <2>2, <2>4, <1>0, StepOK DEF Deliver
  <2> QED BY <2>3, <2>4
<1>6. CASE PutClaim(w)
  BY <1>0, <1>1, <1>2, <1>6, StepOK DEF PutClaim, Acquired, ClaimFor, Proceeds, Goto, Fails, k
<1>7. CASE ReadClaim(w)
  BY <1>0, <1>1, <1>7, StepOK DEF ReadClaim, Proceeds, Goto, Fails, Succeeds, k
<1>8. CASE TakeClaim(w)
  BY <1>0, <1>1, <1>2, <1>8, StepOK DEF TakeClaim, Acquired, ClaimFor, Proceeds, Goto, Fails, k
<1>9. CASE ClassifyAfterRace(w)
  BY <1>0, <1>9, StepOK DEF ClassifyAfterRace, Fails, Succeeds, k
<1>10. CASE Complete(w)
  BY <1>0, <1>1, <1>3, <1>4, <1>10, StepOK DEF Complete, Proceeds, Goto, Succeeds, k
<1>11. CASE RetryClaim(w)
  BY <1>0, <1>4, <1>11, StepOK DEF RetryClaim, Fails, k
<1>12. CASE Raises(w)
  BY <1>0, <1>1, <1>12, StepOK DEF Raises, Proceeds, Goto, Fails, k
<1>13. CASE Crash(w)
  BY <1>0, <1>13, StepOK DEF Crash, Fails, k
<1> QED BY <1>5, <1>6, <1>7, <1>8, <1>9, <1>10, <1>11, <1>12, <1>13

(* What the handler of invocation k may become once its claim is held.     *)
LEMMA DecisionTypes ==
    ASSUME DispatchTypeOK, NEW w \in Workers,
           \/ CheckRow(w) \/ CheckLive(w) \/ CancelEventScanner(w) \/ ListScanners(w)
           \/ DeleteNext(w) \/ CheckDeadline(w) \/ CreateScanner(w)
    PROVE  DispatchTypeOK'
<1> USE DispatchAssumption
<1> DEFINE k == worker[w]
           g == Gen[k.event]
           Become(n) == worker' = [worker EXCEPT ![w] = n]
<1>0. /\ WorkOK(k) /\ k \in Works /\ k.event \in Events /\ ClaimOK(NoClaim)
      /\ scanner \in [Events -> {"none", "live", "deleting"}] /\ acked \subseteq Events
      /\ row \in Nat /\ worker \in [Workers -> Works] /\ g \in Nat
  BY TypeByParts, NoClaimOK DEF Works, Generations
<1>1. \A pc \in {"row", "live", "list", "delete", "deadline", "retry"} :
         WorkOK([k EXCEPT !.pc = pc])
  BY <1>0 DEF WorkOK, Works, WorkerPcs
<1>2. ASSUME NEW verdict, Decide(w, verdict), UNCHANGED <<worldVars, claim, scanner>>
      PROVE  DispatchTypeOK'
  <2>1. ASSUME NEW limit \in Nat, NEW outcome \in Terminal, EndsAs(w, outcome, limit)
        PROVE  \E n : WorkOK(n) /\ Become(n)
    <3> DEFINE n == [k EXCEPT !.pc = "exact", !.limit = limit,
                        !.outcome = IF k.event \in Removals THEN "REMOVED" ELSE outcome]
    <3>1. WorkOK(n)
      BY <1>0 DEF WorkOK, Works, WorkerPcs, Terminal
    <3>2. Become(n)
      BY <2>1, <1>0 DEF EndsAs, Works
    <3> QED BY <3>1, <3>2
  <2>2. MaxOf(g, row) \in Nat /\ g + 1 \in Nat
    BY <1>0 DEF MaxOf
  <2>3. \E n : WorkOK(n) /\ Become(n)
    <3>1. CASE EndsAs(w, "STALE", MaxOf(g, row)) \/ EndsAs(w, "STALE", g + 1)
               \/ EndsAs(w, "STALE", g) \/ EndsAs(w, "CANCELLED", g + 1)
      BY <1>0, <3>1, <2>1, <2>2 DEF Terminal
    <3>2. CASE Goto(w, "retry") \/ Goto(w, "deadline")
      BY <3>2, <1>0, <1>1 DEF Goto
    <3>3. CASE worker' = [worker EXCEPT ![w].pc = "list", ![w].limit = g]
      <4> DEFINE n == [k EXCEPT !.pc = "list", !.limit = g]
      <4>1. WorkOK(n) /\ Become(n)
        BY <3>3, <1>0 DEF WorkOK, Works, WorkerPcs
      <4> QED BY <4>1
    <3> QED BY <1>2, <3>1, <3>2, <3>3 DEF Decide
  <2> QED BY <1>0, <1>2, <2>3, StepOK DEF Decide
<1>3. CASE CheckRow(w)
  BY <1>0, <1>1, <1>2, <1>3, StepOK DEF CheckRow, Proceeds, Goto
<1>4. CASE CheckLive(w)
  BY <1>2, <1>4 DEF CheckLive
<1>5. CASE CancelEventScanner(w)
  <2>1. scanner' \in [Events -> {"none", "live", "deleting"}]
    BY <1>0, <1>5 DEF CancelEventScanner, DeleteScanner
  <2>2. CASE k.outcome = "EXPIRED"
    <3>1. WorkOK([k EXCEPT !.pc = "complete"])
      BY <1>0, <2>2 DEF WorkOK, Works, WorkerPcs
    <3> QED BY <1>0, <1>5, <2>1, <2>2, <3>1, StepOK DEF CancelEventScanner, Proceeds, Goto
  <2>3. CASE k.outcome # "EXPIRED"
    BY <1>0, <1>1, <1>5, <2>1, <2>3, StepOK DEF CancelEventScanner, Proceeds, Goto
  <2> QED BY <2>2, <2>3
<1>6. CASE ListScanners(w)
  <2> DEFINE D == {f \in Events : /\ scanner[f] # "none" /\ Gen[f] < k.limit
                                  /\ k.outcome # "none" => f # k.event}
             n == [k EXCEPT !.pc = "delete", !.doomed = D]
  <2>1. WorkOK(n)
    BY <1>0 DEF WorkOK, Works, WorkerPcs
  <2>2. Become(n)
    BY <1>0, <1>6 DEF ListScanners, Works
  <2> QED BY <1>0, <1>6, <2>1, <2>2, StepOK DEF ListScanners
<1>7. CASE DeleteNext(w)
  <2>1. scanner' \in [Events -> {"none", "live", "deleting"}]
    BY <1>0, <1>7 DEF DeleteNext, DeleteScanner, Works
  <2>2. \E n : WorkOK(n) /\ Become(n)
    <3>1. ASSUME NEW f \in k.doomed, worker' = [worker EXCEPT ![w].doomed = @ \ {f}]
          PROVE  \E n : WorkOK(n) /\ Become(n)
      <4> DEFINE n == [k EXCEPT !.doomed = k.doomed \ {f}]
      <4>1. WorkOK(n) /\ Become(n)
        BY <3>1, <1>0 DEF WorkOK, Works
      <4> QED BY <4>1
    <3>2. CASE worker' = [worker EXCEPT ![w].pc = "row", ![w].round = 2]
      <4> DEFINE n == [k EXCEPT !.pc = "row", !.round = 2]
      <4>1. WorkOK(n) /\ Become(n)
        BY <3>2, <1>0 DEF WorkOK, Works, WorkerPcs
      <4> QED BY <4>1
    <3>3. CASE k.outcome # "none" /\ worker' = [worker EXCEPT ![w].pc = "complete"]
      <4> DEFINE n == [k EXCEPT !.pc = "complete"]
      <4>1. WorkOK(n) /\ Become(n)
        BY <3>3, <1>0 DEF WorkOK, Works, WorkerPcs
      <4> QED BY <4>1
    <3> QED BY <1>7, <3>1, <3>2, <3>3 DEF DeleteNext
  <2> QED BY <1>0, <1>7, <2>1, <2>2, StepOK DEF DeleteNext
<1>8. CASE CheckDeadline(w)
  <2>1. \E n : WorkOK(n) /\ Become(n)
    <3>1. ASSUME NEW pc \in {"exact", "create"}, NEW outcome \in Terminal,
                 worker' = [worker EXCEPT ![w].pc = pc, ![w].outcome = outcome]
          PROVE  \E n : WorkOK(n) /\ Become(n)
      <4> DEFINE n == [k EXCEPT !.pc = pc, !.outcome = outcome]
      <4>1. WorkOK(n) /\ Become(n)
        BY <3>1, <1>0 DEF WorkOK, Works, WorkerPcs, Terminal
      <4> QED BY <4>1
    <3> QED BY <1>8, <3>1 DEF CheckDeadline, Terminal
  <2> QED BY <1>0, <1>8, <2>1, StepOK DEF CheckDeadline
<1>9. CASE CreateScanner(w)
  <2>1. scanner' \in [Events -> {"none", "live", "deleting"}]
    BY <1>0, <1>9 DEF CreateScanner
  <2>2. WorkOK([k EXCEPT !.pc = "complete"])
    BY <1>0, <1>9 DEF CreateScanner, At, WorkOK, Works, WorkerPcs
  <2> QED BY <1>0, <1>1, <1>9, <2>1, <2>2, StepOK DEF CreateScanner, Goto
<1> QED BY <1>3, <1>4, <1>5, <1>6, <1>7, <1>8, <1>9

LEMMA TypesStep == DispatchTypeOK /\ [DispatchNext]_dispatchVars => DispatchTypeOK'
<1> SUFFICES ASSUME DispatchTypeOK, [DispatchNext]_dispatchVars PROVE DispatchTypeOK'
  OBVIOUS
<1>1. CASE UNCHANGED dispatchVars
  BY <1>1 DEF dispatchVars, DispatchTypeOK
<1>2. CASE DispatchNext
  BY <1>2, WorldTypes, ClaimTypes, DecisionTypes DEF DispatchNext, WorkerStep
<1> QED BY <1>1, <1>2

(***************************************************************************)
(* Claims, invocations, Scanners and the world stay well-formed: a claim   *)
(* has an owner exactly while it is held, and an invocation about to audit *)
(* its event knows what as.                                                *)
(***************************************************************************)
THEOREM DispatchTyped == DispatchSpec => []DispatchTypeOK
BY InitOK, TypesStep, PTL DEF DispatchSpec

-----------------------------------------------------------------------------
Refused == {"STALE", "CANCELLED", "EXPIRED", "REMOVED"}

(* An invocation lives no longer than its timeout.                         *)
Timely(w) ==
    ~At(w, "idle") => worker[w].started <= clock /\ clock <= worker[w].started + Timeout

(* An invocation past its claim holds it, with the lease it asked for, or  *)
(* has lost the answer to the write that audited the event.                *)
Held(w) ==
    Holding(w) => LET c == claim[worker[w].event] IN
        \/ c.state = "CLAIMED" /\ c.owner = w /\ c.lease = worker[w].started + Lease
        \/ At(w, "retry") /\ c.state \in Terminal

(* An invocation that refuses its event has deleted its Scanner before it  *)
(* audits the event.                                                       *)
Disarmed(w) ==
    worker[w].pc \in {"list", "delete", "complete"} /\ worker[w].outcome \in Refused =>
        scanner[worker[w].event] # "live"

(* What an invocation is heading for, by where it is.                      *)
Heading(w) ==
    /\ worker[w].pc \in {"put", "existing", "take", "classify", "row", "live", "deadline"} =>
          worker[w].outcome = "none"
    /\ At(w, "create") => worker[w].outcome = "DISPATCHED"

Lawful(w) == Timely(w) /\ Held(w) /\ Disarmed(w) /\ Heading(w)

DispatchInv ==
    /\ DispatchTypeOK
    /\ \A w \in Workers : Lawful(w)
    /\ OneHolderPerEvent
    /\ RefusedDoesNotScan

(***************************************************************************)
(* A step of one invocation keeps the invariant if that invocation stays   *)
(* lawful, takes no claim from under another and arms no refused event.    *)
(***************************************************************************)
LEMMA StepInv ==
    ASSUME DispatchInv, DispatchTypeOK', NEW w \in Workers, Lawful(w)',
           UNCHANGED worldVars,
           \A v \in Workers \ {w} : worker'[v] = worker[v],
           \A v \in Workers \ {w} : Holding(v) =>
               /\ claim'[worker[v].event] = claim[worker[v].event]
               /\ Holding(w)' => worker'[w].event # worker[v].event,
           \A e \in Events : scanner'[e] = "live" =>
               scanner[e] = "live" \/ (At(w, "create") /\ e = worker[w].event),
           RefusedDoesNotScan'
    PROVE  DispatchInv'
<1>1. \A v \in Workers : worker[v] \in Works /\ worker'[v] \in Works
                         /\ worker[v].event \in Events
  BY TypeByParts DEF DispatchInv, DispatchTypeOK, Works
<1>2. ASSUME NEW v \in Workers \ {w} PROVE Lawful(v)'
  <2>1. Lawful(v) /\ worker'[v] = worker[v] /\ clock' = clock
    BY DEF DispatchInv, worldVars
  <2>2. Timely(v)' /\ Heading(v)' /\ Held(v)'
    BY <2>1 DEF Lawful, Timely, Heading, Held, Holding, At
  <2>3. Disarmed(v)'
    <3>1. SUFFICES ASSUME worker[v].pc \in {"list", "delete", "complete"},
                          worker[v].outcome \in Refused, scanner'[worker[v].event] = "live"
                   PROVE  FALSE
      BY <2>1 DEF Disarmed
    <3>2. At(w, "create") /\ worker[v].event = worker[w].event
      BY <1>1, <2>1, <3>1 DEF Lawful, Disarmed
    <3>3. Holding(v) /\ Holding(w)
      BY <3>1, <3>2 DEF Holding, At
    <3> QED BY <3>2, <3>3 DEF DispatchInv, OneHolderPerEvent
  <2> QED BY <2>2, <2>3 DEF Lawful
<1>3. OneHolderPerEvent'
  BY DEF DispatchInv, OneHolderPerEvent, Holding
<1> QED BY <1>2, <1>3 DEF DispatchInv

LEMMA InitInv == DispatchInit => DispatchInv
<1> SUFFICES ASSUME DispatchInit PROVE DispatchInv
  OBVIOUS
<1>1. \A w \in Workers : worker[w].pc = "idle" /\ worker[w].outcome = "none"
  BY DEF DispatchInit, NoWork
<1>2. \A w \in Workers : Lawful(w)
  BY <1>1 DEF Lawful, Timely, Held, Disarmed, Heading, Holding, At
<1>3. OneHolderPerEvent /\ RefusedDoesNotScan
  BY <1>1 DEF OneHolderPerEvent, Holding, RefusedDoesNotScan, DispatchInit, NoClaim
<1> QED BY <1>2, <1>3, InitOK DEF DispatchInv

LEMMA WorldInv ==
    ASSUME DispatchInv, DispatchTypeOK',
           Tick \/ RowAdvances \/ ProviderChanges \/ \E e \in Events : ScannerGone(e)
    PROVE  DispatchInv'
<1>1. UNCHANGED <<claim, worker>>
  BY DEF Tick, RowAdvances, ProviderChanges, ScannerGone
<1>2. \A e \in Events : scanner'[e] = "live" => scanner[e] = "live"
  BY DEF Tick, RowAdvances, ProviderChanges, ScannerGone, DispatchInv, DispatchTypeOK
<1>3. ASSUME NEW w \in Workers PROVE Timely(w)'
  <2>1. worker[w].started \in Nat /\ clock \in Nat /\ Timeout \in Nat
    BY DispatchAssumption DEF DispatchInv, DispatchTypeOK
  <2>2. Timely(w)
    BY DEF DispatchInv, Lawful
  <2>3. CASE Tick
    BY <1>1, <2>1, <2>2, <2>3 DEF Tick, Timely, At
  <2>4. CASE clock' = clock
    BY <1>1, <2>2, <2>4 DEF Timely, At
  <2> QED BY <2>3, <2>4 DEF RowAdvances, ProviderChanges, ScannerGone, worldVars
<1>4. \A w \in Workers : worker[w].event \in Events
  BY DEF DispatchInv, DispatchTypeOK
<1>5. \A w \in Workers : Lawful(w)'
  BY <1>1, <1>2, <1>3, <1>4 DEF DispatchInv, Lawful, Held, Disarmed, Heading, Holding, At
<1> QED BY <1>1, <1>2, <1>5 DEF DispatchInv, OneHolderPerEvent, Holding, RefusedDoesNotScan

(***************************************************************************)
(* Before the claim.  A lease that has lapsed outlived its owner, so the   *)
(* invocation that takes the claim over meets no other.                    *)
(***************************************************************************)
LEMMA AcquireInv ==
    ASSUME Timeout < Lease, DispatchInv, DispatchTypeOK', NEW w \in Workers,
           \/ \E e \in Events : Deliver(w, e)
           \/ PutClaim(w) \/ ReadClaim(w) \/ TakeClaim(w) \/ ClassifyAfterRace(w)
    PROVE  DispatchInv'
<1> DEFINE k == worker[w]
           e == k.event
           mine == [state |-> "CLAIMED", owner |-> w, lease |-> k.started + Lease]
<1>0. /\ k \in Works /\ e \in Events /\ worker \in [Workers -> Works]
      /\ claim \in [Events -> Claims] /\ clock \in Nat /\ Lawful(w)
      /\ UNCHANGED scanner /\ UNCHANGED worldVars /\ UNCHANGED <<row, ended, live, clock>>
      /\ k.pc \in {"idle", "put", "existing", "take", "classify"}
  <2>1. DispatchTypeOK /\ Lawful(w)
    BY DEF DispatchInv
  <2>2. /\ worker \in [Workers -> Works] /\ claim \in [Events -> Claims] /\ clock \in Nat
    BY <2>1, TypeByParts, DispatchAssumption
  <2>3. k \in Works /\ e \in Events
    BY <2>2 DEF Works
  <2>4. UNCHANGED scanner /\ UNCHANGED worldVars
        /\ k.pc \in {"idle", "put", "existing", "take", "classify"}
    BY DEF Deliver, PutClaim, ReadClaim, TakeClaim, ClassifyAfterRace, At
  <2> QED BY <2>1, <2>2, <2>3, <2>4 DEF worldVars
<1>1. \A v \in Workers : /\ worker[v].event \in Events /\ worker[v].started \in Nat
                         /\ claim[worker[v].event].lease \in Nat
  BY <1>0 DEF Works, Claims
<1>2. \A v \in Workers \ {w} : worker'[v] = worker[v]
  BY <1>0 DEF Deliver, PutClaim, ReadClaim, TakeClaim, ClassifyAfterRace, Acquired,
              Proceeds, Goto, Fails, Succeeds
<1>3. RefusedDoesNotScan
  BY DEF DispatchInv
<1>4. NoWork.pc = "idle" /\ NoWork.outcome = "none"
  BY DEF NoWork
<1>5. ASSUME Acquired(w), k.pc \in {"put", "take"},
             claim[e].state \in {"none", "RETRYABLE"} \/ Lapsed(w, claim[e])
      PROVE  DispatchInv'
  <2>1. claim' = [claim EXCEPT ![e] = mine]
    BY <1>5 DEF Acquired, ClaimFor
  <2>2. worker'[w] = NoWork \/ worker'[w] = [k EXCEPT !.pc = "row"]
    BY <1>0, <1>5 DEF Acquired, Proceeds, Goto, Fails
  <2>3. Lawful(w)'
    <3>1. CASE worker'[w] = NoWork
      BY <1>4, <3>1 DEF Lawful, Timely, Held, Disarmed, Heading, Holding, At
    <3>2. CASE worker'[w] = [k EXCEPT !.pc = "row"]
      <4>1. /\ worker'[w].pc = "row" /\ worker'[w].event = e /\ worker'[w].started = k.started
            /\ worker'[w].outcome = "none" /\ claim'[e] = mine
        BY <1>0, <1>5, <2>1, <3>2 DEF Works, Lawful, Heading
      <4>2. k.started <= clock /\ clock <= k.started + Timeout
        BY <1>0, <1>5 DEF Lawful, Timely, At
      <4> QED BY <1>0, <4>1, <4>2 DEF Lawful, Timely, Held, Disarmed, Heading, Holding, At
    <3> QED BY <2>2, <3>1, <3>2
  <2>4. ASSUME NEW v \in Workers \ {w}, Holding(v) PROVE worker[v].event # e
    <3>1. SUFFICES ASSUME worker[v].event = e PROVE FALSE
      OBVIOUS
    <3>2. Lawful(v)
      BY DEF DispatchInv
    <3>3. claim[e].state = "CLAIMED" /\ claim[e].lease = worker[v].started + Lease
      BY <1>5, <2>4, <3>1, <3>2 DEF Lawful, Held, Lapsed, Terminal
    <3>4. claim[e].lease <= k.started /\ k.started <= clock
          /\ clock <= worker[v].started + Timeout
      BY <1>0, <1>5, <2>4, <3>2, <3>3 DEF Lapsed, Lawful, Timely, At, Holding
    <3> QED BY <1>0, <1>1, <3>3, <3>4, DispatchAssumption
  <2>5. RefusedDoesNotScan'
    BY <1>0, <1>3, <2>1 DEF RefusedDoesNotScan
  <2>6. Holding(w)' => worker'[w].event = e
    BY <1>0, <1>4, <2>2 DEF Holding, Works
  <2>7. \A v \in Workers \ {w} : Holding(v) =>
           /\ claim'[worker[v].event] = claim[worker[v].event]
           /\ Holding(w)' => worker'[w].event # worker[v].event
    BY <1>0, <1>1, <2>1, <2>4, <2>6
  <2> QED BY <1>0, <1>2, <2>3, <2>5, <2>7, StepInv
<1>6. ASSUME UNCHANGED claim, ~Holding(w)', Timely(w)', Heading(w)' PROVE DispatchInv'
  <2>1. Lawful(w)'
    BY <1>6 DEF Lawful, Held, Disarmed, Holding
  <2>2. RefusedDoesNotScan'
    BY <1>0, <1>3, <1>6 DEF RefusedDoesNotScan
  <2> QED BY <1>0, <1>2, <1>6, <2>1, <2>2, StepInv
<1>7. ASSUME worker'[w] = NoWork, UNCHANGED claim PROVE DispatchInv'
  BY <1>4, <1>6, <1>7 DEF Holding, Timely, Heading, At
<1>8. ASSUME NEW pc \in {"existing", "take", "classify"}, k.pc # "idle",
             worker'[w] = [k EXCEPT !.pc = pc], UNCHANGED claim
      PROVE  DispatchInv'
  <2>1. worker'[w].pc = pc /\ worker'[w].started = k.started /\ worker'[w].outcome = k.outcome
    BY <1>0, <1>8 DEF Works
  <2> QED BY <1>0, <1>6, <1>8, <2>1 DEF Holding, Timely, Heading, At, Lawful
<1>9. CASE \E f \in Events : Deliver(w, f)
  <2>1. PICK f \in Events : Deliver(w, f)
    BY <1>9
  <2>2. CASE worker' = worker
    BY <1>0, <1>6, <2>1, <2>2 DEF Deliver, Holding, Timely, Heading, At, Lawful
  <2>3. CASE f \notin Denied
    <3>1. worker'[w] = [NoWork EXCEPT !.pc = "put", !.event = f, !.started = clock]
      BY <1>0, <2>1, <2>3 DEF Deliver
    <3>2. worker'[w].pc = "put" /\ worker'[w].started = clock /\ worker'[w].outcome = "none"
      BY <3>1 DEF NoWork
    <3>3. ~Holding(w)' /\ Heading(w)'
      BY <3>2 DEF Holding, Heading, At
    <3>4. clock' = clock /\ clock <= clock /\ clock <= clock + Timeout
      BY <1>0, DispatchAssumption
    <3>5. Timely(w)'
      BY <3>2, <3>4 DEF Timely
    <3> QED BY <1>6, <2>1, <3>3, <3>5 DEF Deliver
  <2> QED BY <2>1, <2>2, <2>3 DEF Deliver
<1>10. CASE PutClaim(w)
  BY <1>0, <1>5, <1>8, <1>10 DEF PutClaim, Proceeds, Goto, At
<1>11. CASE ReadClaim(w)
  BY <1>0, <1>7, <1>8, <1>11 DEF ReadClaim, Proceeds, Goto, Fails, Succeeds, At
<1>12. CASE TakeClaim(w)
  BY <1>0, <1>5, <1>8, <1>12 DEF TakeClaim, Takeable, Proceeds, Goto, At
<1>13. CASE ClassifyAfterRace(w)
  BY <1>0, <1>7, <1>13 DEF ClassifyAfterRace, Fails, Succeeds
<1> QED BY <1>9, <1>10, <1>11, <1>12, <1>13

(***************************************************************************)
(* With the claim: revalidation, cancellation and creation leave claims    *)
(* alone, and only the creator makes a Scanner live.                       *)
(***************************************************************************)
LEMMA DecisionInv ==
    ASSUME DispatchInv, DispatchTypeOK', NEW w \in Workers,
           \/ CheckRow(w) \/ CheckLive(w) \/ CancelEventScanner(w) \/ ListScanners(w)
           \/ DeleteNext(w) \/ CheckDeadline(w) \/ CreateScanner(w)
    PROVE  DispatchInv'
<1> DEFINE k == worker[w]
           e == k.event
           n == worker'[w]
<1>0. /\ k \in Works /\ e \in Events /\ worker \in [Workers -> Works] /\ Lawful(w)
      /\ \A v \in Workers : worker[v].event \in Events
  <2>1. DispatchTypeOK /\ Lawful(w)
    BY DEF DispatchInv
  <2>2. worker \in [Workers -> Works]
    BY <2>1, TypeByParts
  <2> QED BY <2>1, <2>2 DEF Works
<1>1. UNCHANGED claim /\ UNCHANGED worldVars /\ UNCHANGED clock
  BY DEF CheckRow, CheckLive, CancelEventScanner, ListScanners, DeleteNext, CheckDeadline,
         CreateScanner, worldVars
<1>2. /\ k.pc \in {"row", "live", "exact", "list", "delete", "deadline", "create"}
      /\ Holding(w)
  BY DEF CheckRow, CheckLive, CancelEventScanner, ListScanners, DeleteNext, CheckDeadline,
         CreateScanner, At, Holding
<1>3. /\ claim[e].state = "CLAIMED" /\ claim[e].owner = w
      /\ claim[e].lease = k.started + Lease
  BY <1>0, <1>2 DEF Lawful, Held, At
<1>4. \A v \in Workers \ {w} : worker'[v] = worker[v]
  BY <1>0 DEF CheckRow, CheckLive, CancelEventScanner, ListScanners, DeleteNext, CheckDeadline,
              CreateScanner, Decide, EndsAs, Proceeds, Goto
<1>5. /\ n.event = e /\ n.started = k.started
      /\ n.pc \in {"row", "live", "exact", "list", "delete", "deadline", "create", "complete",
                   "retry"}
  BY <1>0 DEF CheckRow, CheckLive, CancelEventScanner, ListScanners, DeleteNext, CheckDeadline,
              CreateScanner, Decide, EndsAs, Proceeds, Goto, At, Works
<1>6. Timely(w)' /\ Held(w)'
  BY <1>0, <1>1, <1>2, <1>3, <1>5 DEF Timely, Held, Lawful, At
<1>7. ASSUME NEW f \in Events, scanner'[f] = "live"
      PROVE  scanner[f] = "live" \/ (At(w, "create") /\ f = e)
  <2>1. scanner \in [Events -> {"none", "live", "deleting"}]
    BY DEF DispatchInv, DispatchTypeOK
  <2> QED BY <1>7, <2>1 DEF CheckRow, CheckLive, CancelEventScanner, ListScanners, DeleteNext,
              CheckDeadline, CreateScanner, DeleteScanner
<1>8. Heading(w)' /\ Disarmed(w)'
  <2>1. Heading(w) /\ Disarmed(w)
    BY <1>0 DEF Lawful
  <2>2. CASE CheckRow(w) \/ CheckLive(w)
    BY <1>0, <2>1, <2>2 DEF CheckRow, CheckLive, Decide, EndsAs, Proceeds, Goto, At, Heading,
                            Disarmed, Works, Refused
  <2>3. CASE CancelEventScanner(w)
    BY <1>0, <2>1, <2>3 DEF CancelEventScanner, DeleteScanner, Proceeds, Goto, At, Heading,
                            Disarmed, Works, DispatchInv, DispatchTypeOK
  <2>4. CASE ListScanners(w)
    BY <1>0, <2>1, <2>4 DEF ListScanners, At, Heading, Disarmed, Works
  <2>5. CASE DeleteNext(w)
    BY <1>0, <1>7, <2>1, <2>5 DEF DeleteNext, At, Heading, Disarmed, Works, Refused
  <2>6. CASE CheckDeadline(w)
    BY <1>0, <2>1, <2>6 DEF CheckDeadline, At, Heading, Disarmed, Works
  <2>7. CASE CreateScanner(w)
    BY <1>0, <2>1, <2>7 DEF CreateScanner, Goto, At, Heading, Disarmed, Works, Refused
  <2> QED BY <2>2, <2>3, <2>4, <2>5, <2>6, <2>7
<1>9. RefusedDoesNotScan'
  BY <1>1, <1>3, <1>7 DEF DispatchInv, RefusedDoesNotScan
<1>10. \A v \in Workers \ {w} : Holding(v) =>
          /\ claim'[worker[v].event] = claim[worker[v].event]
          /\ Holding(w)' => worker'[w].event # worker[v].event
  BY <1>1, <1>2, <1>5 DEF DispatchInv, OneHolderPerEvent
<1> QED BY <1>1, <1>4, <1>6, <1>7, <1>8, <1>9, <1>10, StepInv DEF Lawful

(***************************************************************************)
(* The end of an invocation: it audits the event, gives the claim back, or *)
(* dies and leaves it to lapse.                                            *)
(***************************************************************************)
LEMMA FinishInv ==
    ASSUME DispatchInv, DispatchTypeOK', NEW w \in Workers,
           Complete(w) \/ RetryClaim(w) \/ Raises(w) \/ Crash(w)
    PROVE  DispatchInv'
<1> DEFINE k == worker[w]
           e == k.event
           n == worker'[w]
<1>0. /\ k \in Works /\ e \in Events /\ worker \in [Workers -> Works] /\ Lawful(w)
      /\ claim \in [Events -> Claims] /\ \A v \in Workers : worker[v].event \in Events
  <2>1. DispatchTypeOK /\ Lawful(w)
    BY DEF DispatchInv
  <2>2. worker \in [Workers -> Works] /\ claim \in [Events -> Claims]
    BY <2>1, TypeByParts
  <2> QED BY <2>1, <2>2 DEF Works
<1>1. UNCHANGED scanner /\ UNCHANGED worldVars /\ UNCHANGED clock /\ k.pc # "idle"
  BY DEF Complete, RetryClaim, Raises, Crash, worldVars, At
<1>2. \A v \in Workers \ {w} : worker'[v] = worker[v]
  BY <1>0 DEF Complete, RetryClaim, Raises, Crash, Proceeds, Goto, Fails, Succeeds
<1>3. n = NoWork \/ (n = [k EXCEPT !.pc = "retry"] /\ Holding(w) /\ k.pc # "retry")
  BY <1>0 DEF Complete, RetryClaim, Raises, Crash, Proceeds, Goto, Fails, Succeeds, Holding, At,
              Works, WorkerPcs
<1>4. NoWork.pc = "idle" /\ NoWork.outcome = "none"
  BY DEF NoWork
<1>5. \/ UNCHANGED claim
      \/ /\ Owns(w) /\ Holding(w) /\ k.pc \in {"complete", "retry"}
         /\ \E s \in {k.outcome, "RETRYABLE"} :
               /\ claim' = [claim EXCEPT ![e] = [NoClaim EXCEPT !.state = s]]
               /\ s = "RETRYABLE" => n = NoWork
               /\ s = k.outcome => k.pc = "complete"
  <2>1. k.outcome # "RETRYABLE"
    BY <1>0 DEF Works, Terminal
  <2>2. CASE Complete(w)
    BY <2>1, <2>2 DEF Complete, Holding, At
  <2>3. CASE RetryClaim(w)
    BY <1>0, <2>1, <2>3 DEF RetryClaim, Holding, At, Fails
  <2>4. CASE Raises(w) \/ Crash(w)
    BY <2>4 DEF Raises, Crash
  <2> QED BY <2>2, <2>3, <2>4
<1>6. Lawful(w)'
  <2>1. CASE n = NoWork
    BY <1>4, <2>1 DEF Lawful, Timely, Held, Disarmed, Heading, Holding, At
  <2>2. CASE n = [k EXCEPT !.pc = "retry"] /\ Holding(w) /\ k.pc # "retry" /\ n # NoWork
    <3>1. n.pc = "retry" /\ n.event = e /\ n.started = k.started /\ n.outcome = k.outcome
      BY <1>0, <2>2 DEF Works
    <3>2. Timely(w)' /\ Disarmed(w)' /\ Heading(w)'
      BY <1>0, <1>1, <3>1 DEF Lawful, Timely, Disarmed, Heading, At
    <3>3. Held(w)'
      <4>1. CASE UNCHANGED claim
        BY <1>0, <2>2, <3>1, <4>1 DEF Lawful, Held, Holding, At
      <4>2. CASE claim' = [claim EXCEPT ![e] = [NoClaim EXCEPT !.state = k.outcome]]
                 /\ k.pc = "complete"
        <5>1. k.outcome \in Terminal
          BY <4>2, <1>0, TypeByParts DEF DispatchInv, WorkOK, Works
        <5>2. claim'[e].state = k.outcome
          BY <4>2, <1>0 DEF NoClaim
        <5> QED BY <3>1, <5>1, <5>2 DEF Held, At
      <4> QED BY <1>5, <2>2, <4>1, <4>2
    <3> QED BY <3>2, <3>3 DEF Lawful
  <2> QED BY <1>3, <2>1, <2>2
<1>7. RefusedDoesNotScan'
  <2>1. CASE UNCHANGED claim
    BY <1>1, <2>1 DEF DispatchInv, RefusedDoesNotScan
  <2>2. CASE claim' = [claim EXCEPT ![e] = [NoClaim EXCEPT !.state = "RETRYABLE"]]
    BY <1>0, <1>1, <2>2 DEF DispatchInv, RefusedDoesNotScan, NoClaim
  <2>3. CASE claim' = [claim EXCEPT ![e] = [NoClaim EXCEPT !.state = k.outcome]]
             /\ k.pc = "complete"
    <3>1. k.outcome \in Refused => scanner[e] # "live"
      BY <1>0, <2>3 DEF Lawful, Disarmed
    <3>2. claim'[e].state = k.outcome /\ \A f \in Events \ {e} : claim'[f] = claim[f]
      BY <1>0, <2>3 DEF NoClaim
    <3> QED BY <1>1, <3>1, <3>2 DEF DispatchInv, RefusedDoesNotScan, Refused
  <2> QED BY <1>5, <2>1, <2>2, <2>3
<1>8. ASSUME NEW v \in Workers \ {w}, Holding(v)
      PROVE  /\ claim'[worker[v].event] = claim[worker[v].event]
             /\ Holding(w)' => worker'[w].event # worker[v].event
  <2>1. Holding(w) => worker[v].event # e
    BY <1>8 DEF DispatchInv, OneHolderPerEvent
  <2>2. Holding(w)' => Holding(w) /\ worker'[w].event = e
    BY <1>0, <1>3, <1>4 DEF Holding, Works
  <2> QED BY <1>0, <1>5, <2>1, <2>2
<1> QED BY <1>1, <1>2, <1>6, <1>7, <1>8, StepInv

LEMMA InvStep ==
    ASSUME Timeout < Lease
    PROVE  DispatchInv /\ [DispatchNext]_dispatchVars => DispatchInv'
<1> SUFFICES ASSUME DispatchInv, [DispatchNext]_dispatchVars PROVE DispatchInv'
  OBVIOUS
<1>1. DispatchTypeOK'
  BY TypesStep DEF DispatchInv
<1>2. CASE UNCHANGED dispatchVars
  BY <1>1, <1>2 DEF dispatchVars, DispatchInv, Lawful, Timely, Held, Disarmed, Heading, Holding,
                    At, OneHolderPerEvent, RefusedDoesNotScan
<1>3. CASE DispatchNext
  BY <1>1, <1>3, WorldInv, AcquireInv, DecisionInv, FinishInv DEF DispatchNext, WorkerStep
<1> QED BY <1>2, <1>3

(***************************************************************************)
(* If the lease outlives the invocation, no two invocations are past the   *)
(* claim of one event, whatever is delivered again, crashes or loses its   *)
(* answer, and however many of them there are.                             *)
(***************************************************************************)
THEOREM DispatchExclusive ==
    ASSUME Timeout < Lease
    PROVE  DispatchSpec => []OneHolderPerEvent
<1>1. DispatchInv => OneHolderPerEvent
  BY DEF DispatchInv
<1> QED BY <1>1, InitInv, InvStep, PTL DEF DispatchSpec

(***************************************************************************)
(* Under the same condition an event that was audited as refused never has *)
(* a live Scanner: whoever writes the audit has deleted the Scanner, and   *)
(* nobody else could create it in between.                                 *)
(***************************************************************************)
THEOREM DispatchRefuses ==
    ASSUME Timeout < Lease
    PROVE  DispatchSpec => []RefusedDoesNotScan
<1>1. DispatchInv => RefusedDoesNotScan
  BY DEF DispatchInv
<1> QED BY <1>1, InitInv, InvStep, PTL DEF DispatchSpec

(***************************************************************************)
(* An audit state is final, with no condition on the lease: claims are     *)
(* written where there is none, where the old one may be taken, or by the  *)
(* owner the item names.                                                   *)
(***************************************************************************)
THEOREM DispatchFinal == DispatchSpec => TerminalIsFinal
<1> DEFINE Final == \A e \in Events : claim[e].state \in Terminal => claim'[e] = claim[e]
<1>1. DispatchTypeOK /\ [DispatchNext]_dispatchVars => [Final]_claim
  <2> SUFFICES ASSUME DispatchTypeOK, [DispatchNext]_dispatchVars PROVE [Final]_claim
    OBVIOUS
  <2>1. claim \in [Events -> Claims] /\ \A w \in Workers : worker[w].event \in Events
    BY TypeByParts DEF Works
  <2>2. ASSUME NEW w \in Workers, PutClaim(w) \/ TakeClaim(w) PROVE Final
    BY <2>1, <2>2 DEF PutClaim, TakeClaim, Takeable, Lapsed, Acquired, ClaimFor, Terminal
  <2>3. ASSUME NEW w \in Workers, Complete(w) \/ RetryClaim(w) PROVE Final
    BY <2>1, <2>3 DEF Complete, RetryClaim, Owns, Terminal
  <2>4. CASE UNCHANGED claim
    BY <2>4
  <2> QED BY <2>2, <2>3, <2>4
          DEF DispatchNext, dispatchVars, WorkerStep, Tick, RowAdvances, ProviderChanges,
              ScannerGone, Deliver, ReadClaim, ClassifyAfterRace, CheckRow, CheckLive,
              CancelEventScanner, ListScanners, DeleteNext, CheckDeadline, CreateScanner,
              Raises, Crash
<1> QED BY <1>1, DispatchTyped, PTL DEF DispatchSpec, TerminalIsFinal

-----------------------------------------------------------------------------
(* An invocation past its last ownership check has made it in its own      *)
(* lifetime: its generation was current when it began, or later.           *)
Gated(w) ==
    LET g == Gen[worker[w].event] IN
    /\ Timely(w)
    /\ ~At(w, "idle") => g <= row
    /\ worker[w].pc \in {"deadline", "create"} => g = row \/ worker[w].started <= ended[g]

GateInv == DispatchTypeOK /\ \A w \in Workers : Gated(w)

LEMMA GateInit == DispatchInit => GateInv
<1> SUFFICES ASSUME DispatchInit PROVE GateInv
  OBVIOUS
<1>1. \A w \in Workers : worker[w].pc = "idle"
  BY DEF DispatchInit, NoWork
<1>2. \A w \in Workers : Gated(w)
  BY <1>1 DEF Gated, Timely, At
<1> QED BY <1>2, InitOK DEF GateInv

(***************************************************************************)
(* When the row moves on, the generation of an invocation that has passed  *)
(* its check ends now, after the invocation began.                         *)
(***************************************************************************)
LEMMA GateWorld ==
    ASSUME GateInv, NEW w \in Workers,
           Tick \/ RowAdvances \/ ProviderChanges \/ \E e \in Events : ScannerGone(e)
    PROVE  Gated(w)'
<1> DEFINE k == worker[w]
           g == Gen[k.event]
<1>1. /\ k.started \in Nat /\ clock \in Nat /\ Timeout \in Nat /\ row \in Nat /\ g \in Nat \ {0}
      /\ row \in Generations /\ ended \in [Generations -> 0 .. MaxClock]
      /\ Generations = 1 .. MaxOf(1, MaxGeneration)
  BY DispatchAssumption DEF GateInv, DispatchTypeOK, Generations
<1>2. Gated(w) /\ worker' = worker
  BY DEF GateInv, Tick, RowAdvances, ProviderChanges, ScannerGone
<1>3. CASE Tick
  BY <1>1, <1>2, <1>3 DEF Tick, Gated, Timely, At
<1>4. CASE RowAdvances
  <2>1. row' = row + 1 /\ clock' = clock /\ ended' = [ended EXCEPT ![row] = clock]
    BY <1>4 DEF RowAdvances
  <2>2. Timely(w)' /\ (~At(w, "idle") => g <= row')
    BY <1>1, <1>2, <2>1 DEF Gated, Timely, At
  <2>3. ASSUME k.pc \in {"deadline", "create"} PROVE k.started <= ended'[g]
    <3>1. k.started <= clock /\ g <= row /\ (g = row \/ k.started <= ended[g])
      BY <1>2, <2>3 DEF Gated, Timely, At
    <3>2. CASE g = row
      BY <1>1, <2>1, <3>1, <3>2
    <3>3. CASE g # row
      BY <1>1, <2>1, <3>1, <3>3
    <3> QED BY <3>2, <3>3
  <2> QED BY <1>2, <2>2, <2>3 DEF Gated, At
<1>5. CASE UNCHANGED <<row, ended, clock>>
  BY <1>2, <1>5 DEF Gated, Timely, At
<1> QED BY <1>3, <1>4, <1>5 DEF ProviderChanges, ScannerGone, worldVars

(***************************************************************************)
(* An invocation gets past the check only where it finds its generation.   *)
(***************************************************************************)
LEMMA GateWorker ==
    ASSUME GateInv, NEW w \in Workers,
           (\E e \in Events : Deliver(w, e)) \/ WorkerStep(w) \/ Raises(w) \/ Crash(w)
    PROVE  \A v \in Workers : Gated(v)'
<1> DEFINE k == worker[w]
           n == worker'[w]
           g == Gen[k.event]
<1>1. worker \in [Workers -> Works] /\ k \in Works /\ clock \in Nat /\ Timeout \in Nat
  BY TypeByParts, DispatchAssumption DEF GateInv
<1>2. UNCHANGED <<row, ended, clock>>
  BY DEF Deliver, WorkerStep, PutClaim, ReadClaim, TakeClaim, ClassifyAfterRace, CheckRow,
         CheckLive, CancelEventScanner, ListScanners, DeleteNext, CheckDeadline, CreateScanner,
         Complete, RetryClaim, Raises, Crash, worldVars
<1>3. \A v \in Workers \ {w} : worker'[v] = worker[v]
  BY <1>1 DEF Deliver, WorkerStep, PutClaim, Acquired, ReadClaim, TakeClaim, ClassifyAfterRace,
         CheckRow, CheckLive, Decide, EndsAs, CancelEventScanner, ListScanners, DeleteNext,
         CheckDeadline, CreateScanner, Complete, RetryClaim, Raises, Crash, Proceeds, Goto,
         Fails, Succeeds
<1>4. Gated(w)
  BY DEF GateInv
<1>5. ASSUME \/ n = NoWork
             \/ /\ n.event = k.event /\ n.started = k.started /\ ~At(w, "idle")
                /\ n.pc \in {"deadline", "create"} => At(w, "deadline") \/ g = row
             \/ \E e \in Events : Gen[e] <= row /\ n.event = e /\ n.started = clock /\ n.pc = "put"
      PROVE  Gated(w)'
  <2>1. CASE n = NoWork
    BY <2>1 DEF NoWork, Gated, Timely, At
  <2>2. CASE /\ n.event = k.event /\ n.started = k.started /\ ~At(w, "idle")
             /\ n.pc \in {"deadline", "create"} => At(w, "deadline") \/ g = row
    BY <1>2, <1>4, <2>2 DEF Gated, Timely, At
  <2>3. CASE \E e \in Events : Gen[e] <= row /\ n.event = e /\ n.started = clock /\ n.pc = "put"
    BY <1>1, <1>2, <2>3 DEF Gated, Timely, At
  <2> QED BY <1>5, <2>1, <2>2, <2>3
<1>6. Gated(w)'
  <2>1. CASE \E e \in Events : Deliver(w, e)
    <3>1. PICK e \in Events : Deliver(w, e)
      BY <2>1
    <3>2. CASE worker' = worker
      BY <1>2, <1>4, <3>2 DEF Gated, Timely, At
    <3>3. CASE worker' # worker
      <4>1. n = [NoWork EXCEPT !.pc = "put", !.event = e, !.started = clock] /\ Gen[e] <= row
        BY <1>1, <3>1, <3>3 DEF Deliver
      <4>2. n.event = e /\ n.started = clock /\ n.pc = "put"
        BY <4>1 DEF NoWork
      <4> QED BY <1>5, <4>1, <4>2
    <3> QED BY <3>2, <3>3
  <2>2. CASE PutClaim(w) \/ TakeClaim(w) \/ ReadClaim(w) \/ ClassifyAfterRace(w)
    <3>1. n = NoWork \/ \E pc \in {"row", "existing", "take", "classify"} : n = [k EXCEPT !.pc = pc]
      BY <1>1, <2>2 DEF PutClaim, TakeClaim, ReadClaim, ClassifyAfterRace, Acquired, Proceeds,
                        Goto, Fails, Succeeds
    <3>2. ~At(w, "idle")
      BY <2>2 DEF PutClaim, TakeClaim, ReadClaim, ClassifyAfterRace, At
    <3> QED BY <1>1, <1>5, <3>1, <3>2 DEF Works
  <2>3. CASE CheckRow(w) \/ CheckLive(w)
    <3>1. ~At(w, "idle")
      BY <2>3 DEF CheckRow, CheckLive, At
    <3>2. \/ n = [k EXCEPT !.pc = "live"]
          \/ \E verdict : Decide(w, verdict) /\ (verdict = "active" => RowMatches(w))
      BY <1>1, <2>3 DEF CheckRow, CheckLive, Verdicts, Proceeds, Goto
    <3>3. ASSUME NEW verdict, Decide(w, verdict), verdict = "active" => RowMatches(w)
          PROVE  /\ n.event = k.event /\ n.started = k.started
                 /\ n.pc \in {"deadline", "create"} => g = row
      <4>1. CASE verdict = "active"
        BY <1>1, <3>3, <4>1 DEF Decide, Goto, RowMatches, Works
      <4>2. CASE verdict # "active"
        BY <1>1, <3>3, <4>2 DEF Decide, Goto, EndsAs, Works
      <4> QED BY <4>1, <4>2
    <3> QED BY <1>1, <1>5, <3>1, <3>2, <3>3 DEF Works
  <2>4. CASE CancelEventScanner(w) \/ ListScanners(w) \/ DeleteNext(w) \/ CreateScanner(w)
    <3>1. ~At(w, "idle")
      BY <2>4 DEF CancelEventScanner, ListScanners, DeleteNext, CreateScanner, At
    <3>2. n.event = k.event /\ n.started = k.started
      BY <1>1, <2>4 DEF CancelEventScanner, ListScanners, DeleteNext, CreateScanner, Proceeds,
                        Goto, Works
    <3>3. n.pc \notin {"deadline", "create"}
      BY <1>1, <2>4 DEF CancelEventScanner, ListScanners, DeleteNext, CreateScanner, Proceeds,
                        Goto, Works, At
    <3> QED BY <1>5, <3>1, <3>2, <3>3
  <2>5. CASE CheckDeadline(w)
    <3>1. n.event = k.event /\ n.started = k.started /\ At(w, "deadline") /\ ~At(w, "idle")
      BY <1>1, <2>5 DEF CheckDeadline, Works, At
    <3> QED BY <1>5, <3>1
  <2>6. CASE Complete(w) \/ RetryClaim(w) \/ Raises(w) \/ Crash(w)
    <3>1. ~At(w, "idle") /\ (n = NoWork \/ n = [k EXCEPT !.pc = "retry"])
      BY <1>1, <2>6 DEF Complete, RetryClaim, Raises, Crash, Proceeds, Goto, Fails, Succeeds, At
    <3> QED BY <1>1, <1>5, <3>1 DEF Works
  <2> QED BY <2>1, <2>2, <2>3, <2>4, <2>5, <2>6 DEF WorkerStep
<1> QED
  <2>1. ASSUME NEW v \in Workers \ {w} PROVE Gated(v)'
    <3>1. Gated(v) /\ worker'[v] = worker[v]
      BY <1>3 DEF GateInv
    <3> QED BY <1>2, <3>1 DEF Gated, Timely, At
  <2> QED BY <1>6, <2>1

LEMMA GateStep == GateInv /\ [DispatchNext]_dispatchVars => GateInv'
<1> SUFFICES ASSUME GateInv, [DispatchNext]_dispatchVars PROVE GateInv'
  OBVIOUS
<1>1. DispatchTypeOK'
  BY TypesStep DEF GateInv
<1>2. CASE UNCHANGED dispatchVars
  BY <1>1, <1>2 DEF dispatchVars, GateInv, Gated, Timely, At
<1>3. CASE DispatchNext
  BY <1>1, <1>3, GateWorld, GateWorker DEF DispatchNext, GateInv
<1> QED BY <1>2, <1>3

(***************************************************************************)
(* A Scanner is created only for the present generation or for one that    *)
(* ended less than an invocation's timeout ago, with no condition on the   *)
(* lease and any number of invocations: the gate before the create is in   *)
(* the same invocation as the create.                                      *)
(***************************************************************************)
THEOREM DispatchGated == DispatchSpec => NoLateScanner
<1> DEFINE InTime == \A e \in Events :
                         scanner[e] = "none" /\ scanner'[e] = "live" =>
                             Gen[e] = row \/ (Gen[e] < row /\ clock <= ended[Gen[e]] + Timeout)
<1>1. GateInv /\ [DispatchNext]_dispatchVars => [InTime]_scanner
  <2> SUFFICES ASSUME GateInv, [DispatchNext]_dispatchVars, NEW e \in Events,
                      scanner[e] = "none", scanner'[e] = "live"
               PROVE  \/ Gen[e] = row
                      \/ Gen[e] < row /\ clock <= ended[Gen[e]] + Timeout
    OBVIOUS
  <2>1. scanner \in [Events -> {"none", "live", "deleting"}] /\ worker \in [Workers -> Works]
    BY TypeByParts DEF GateInv
  <2>2. PICK w \in Workers : CreateScanner(w)
    BY <2>1 DEF DispatchNext, dispatchVars, WorkerStep, Tick, RowAdvances, ProviderChanges,
        ScannerGone, Deliver, PutClaim, ReadClaim, TakeClaim, ClassifyAfterRace, CheckRow,
        CheckLive, CancelEventScanner, DeleteScanner, ListScanners, DeleteNext, CheckDeadline,
        Complete, RetryClaim, Raises, Crash, Works
  <2>3. At(w, "create") /\ e = worker[w].event
    BY <2>1, <2>2 DEF CreateScanner
  <2>4. /\ clock <= worker[w].started + Timeout /\ Gen[e] <= row
        /\ Gen[e] = row \/ worker[w].started <= ended[Gen[e]]
    BY <2>3 DEF GateInv, Gated, Timely, At
  <2>5. /\ worker[w].started \in Nat /\ clock \in Nat /\ Timeout \in Nat /\ row \in Nat
        /\ Gen[e] \in Nat \ {0} /\ ended \in [Generations -> 0 .. MaxClock]
        /\ row \in Generations
    BY DispatchAssumption DEF GateInv, DispatchTypeOK, Generations
  <2>6. Gen[e] \in Generations
    BY <2>4, <2>5, DispatchAssumption DEF Generations, MaxOf
  <2>7. ended[Gen[e]] \in Nat
    BY <2>5, <2>6, DispatchAssumption
  <2> QED BY <2>4, <2>5, <2>7
<1>2. DispatchSpec => []GateInv
  BY GateInit, GateStep, PTL DEF DispatchSpec
<1> QED BY <1>1, <1>2, PTL DEF DispatchSpec, NoLateScanner
=============================================================================
