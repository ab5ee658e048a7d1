---------------------------- MODULE MC_Inventory ----------------------------
(* One target whose policy and presence change under a snapshot, a signal  *)
(* and a rescan invocation.                                                *)
EXTENDS Inventory, TLC

Content(ip, policy, life) == [ip |-> ip, life |-> life, groups |-> {"g1"}, policy |-> policy]

MCContents == {Content("a1", p, l) : p \in {"p1", "p2"}, l \in {"running", "unknown"}}

(* What the EC2 reads, and what AWS Config, can report.                    *)
MCDirect == {DirectObservation(c, a) : c \in Contents, a \in Times}

MCObservations ==
    MCDirect \cup {ConfigObservation(c, a, b) :
                     c \in {d \in Contents : d.life = "unknown"}, a \in Times, b \in Times}

MCHint == [s \in Signals |-> Targets]
=============================================================================
