---------------------------- MODULE TargetLedger ----------------------------
(***************************************************************************)
(* What the inventory promises the rest of the pipeline about one target:  *)
(* a single history of generations, each announced by exactly one outbox   *)
(* event.  Every write is one atomic step here; StateStore shows that the  *)
(* read / conditional-write protocol of DynamoStateStore implements it.    *)
(***************************************************************************)
EXTENDS Naturals

CONSTANTS
    Targets,   \* stable target ids (account, region, ENI, private IP)
    Contents,  \* what a generation describes: [ip, life, groups, policy]
    Buckets    \* schedule buckets a coverage rescan is keyed by

VARIABLES
    current,   \* current[t]: generation, status and content of target t
    published  \* every event put in the outbox so far

ledgerVars == <<current, published>>

(* An event that is no coverage rescan carries bucket 0.                   *)
NoBucket == 0

LedgerReasons == {"new_target", "target_change", "policy_change", "removed"}

(* A row that does not exist yet has some content nobody looks at.         *)
NoContent == CHOOSE c \in Contents : TRUE

Event == [target: Targets, generation: Nat \ {0},
          content: Contents \cup {NoContent},
          reason: LedgerReasons \cup {"coverage"},
          bucket: Buckets \cup {NoBucket}]

Entry == [generation: Nat, status: {"absent", "active", "removed"},
          content: Contents \cup {NoContent}]

NoEntry == [generation |-> 0, status |-> "absent", content |-> NoContent]

LedgerInit ==
    /\ current = [t \in Targets |-> NoEntry]
    /\ published = {}

(* The next generation of t and the event that announces it, together.     *)
Announce(t, status, content, reason) ==
    LET g == current[t].generation + 1 IN
    /\ current' = [current EXCEPT ![t] =
                     [generation |-> g, status |-> status, content |-> content]]
    /\ published' = published \cup
                     {[target |-> t, generation |-> g, content |-> content,
                       reason |-> reason, bucket |-> NoBucket]}

(* A target that is unknown or was removed (re)appears.                    *)
Activate(t, content) ==
    /\ current[t].status # "active"
    /\ Announce(t, "active", content, "new_target")

(* An active target is observed with another content; which of the two     *)
(* change reasons it is depends on whether the firewall policy moved.      *)
Change(t, content, reason) ==
    /\ current[t].status = "active"
    /\ current[t].content # content
    /\ reason \in {"target_change", "policy_change"}
    /\ Announce(t, "active", content, reason)

(* An active target is retired: the tombstone keeps the last content.      *)
Retire(t) ==
    /\ current[t].status = "active"
    /\ Announce(t, "removed", current[t].content, "removed")

(* A scheduled rescan of the generation that is active now.                *)
Cover(t, b) ==
    /\ current[t].status = "active"
    /\ published' = published \cup
         {[target |-> t, generation |-> current[t].generation,
           content |-> current[t].content, reason |-> "coverage", bucket |-> b]}
    /\ UNCHANGED current

LedgerNext ==
    \E t \in Targets :
        \/ \E c \in Contents : Activate(t, c)
        \/ \E c \in Contents, r \in LedgerReasons : Change(t, c, r)
        \/ Retire(t)
        \/ \E b \in Buckets : Cover(t, b)

LedgerSpec == LedgerInit /\ [][LedgerNext]_ledgerVars

-----------------------------------------------------------------------------
(* The events that open a generation: everything but coverage rescans.     *)
LedgerEvents(t) == {e \in published : e.target = t /\ e.reason \in LedgerReasons}

CoverageEvents(t) == {e \in published : e.target = t /\ e.reason = "coverage"}

LedgerTypeOK ==
    /\ current \in [Targets -> Entry]
    /\ published \subseteq Event

(***************************************************************************)
(* The outbox holds exactly one event for each generation 1 .. n of a      *)
(* target whose row is at generation n: concurrent snapshot, signal and    *)
(* rescan invocations neither skip a generation nor announce one twice     *)
(* (_write_state_and_outbox puts row and event in one transaction).        *)
(***************************************************************************)
OneEventPerGeneration ==
    \A t \in Targets :
        /\ \A e \in LedgerEvents(t) : e.generation \in 1 .. current[t].generation
        /\ \A g \in 1 .. current[t].generation :
              \E e \in LedgerEvents(t) : e.generation = g
        /\ \A e, f \in LedgerEvents(t) : e.generation = f.generation => e = f

(***************************************************************************)
(* The event of the row's own generation describes the row: the same       *)
(* content, and a tombstone exactly when the row is removed.  Consumers    *)
(* that compare an event with the row (OwnershipValidator) rely on it.     *)
(***************************************************************************)
LatestEventDescribesRow ==
    \A t \in Targets : \A e \in LedgerEvents(t) :
        e.generation = current[t].generation =>
            /\ e.content = current[t].content
            /\ (e.reason = "removed") <=> (current[t].status = "removed")
            /\ current[t].status # "absent"

(***************************************************************************)
(* new_target is announced for generation 1 and after every tombstone and  *)
(* nowhere else: the projection closes a previous owner's exposures on     *)
(* precisely this reason, so a change event must never follow a tombstone. *)
(***************************************************************************)
NewTargetFollowsRemoval ==
    \A t \in Targets : \A e, f \in LedgerEvents(t) :
        /\ e.generation = 1 => e.reason = "new_target"
        /\ f.generation = e.generation + 1 =>
              (e.reason = "removed" <=> f.reason = "new_target")

(***************************************************************************)
(* A coverage rescan is only ever enqueued for an active generation, with  *)
(* the content of that generation (enqueue_coverage checks the row in the  *)
(* transaction that puts the event), never for a tombstone.                *)
(***************************************************************************)
CoverageFenced ==
    \A t \in Targets : \A e \in CoverageEvents(t) :
        /\ e.generation <= current[t].generation
        /\ \A f \in LedgerEvents(t) :
              f.generation = e.generation =>
                  f.reason # "removed" /\ f.content = e.content
=============================================================================
