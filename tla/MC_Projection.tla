--------------------------- MODULE MC_Projection ---------------------------
(* One target that is announced, moved, removed and announced again, and   *)
(* the scans of its generations.                                           *)
EXTENDS ExposureProjection, TLC

Upsert(g, reason, addr, at) ==
    [generation |-> g, event_type |-> "upsert", reason |-> reason, address |-> addr,
     observed_at |-> at, occurred_at |-> at]

Removal(g, addr, at) ==
    [generation |-> g, event_type |-> "remove", reason |-> "none", address |-> addr,
     observed_at |-> at, occurred_at |-> at + 1]

Scan(e, addr, at, covers, sees) ==
    [event |-> e, address |-> addr, complete |-> TRUE, completed_at |-> at,
     covers |-> covers, sees |-> [p \in Ports |-> sees]]

(* Announced, moved, rescanned at a time of its own, removed, announced    *)
(* again there and changed.                                                *)
EvidenceEvents ==
    ("e1" :> Upsert(1, "new_target", "a1", 1)) @@ ("e2" :> Upsert(2, "change", "a2", 2))
    @@ ("e2s" :> Upsert(2, "coverage", "a2", 7)) @@ ("e3" :> Removal(3, "a2", 9))
    @@ ("e4" :> Upsert(4, "new_target", "a2", 11))
    @@ ("e5" :> Upsert(5, "change", "a2", 12))

(* Two scans of the first generation, of which the second outlasts the     *)
(* full scan of the second generation; a partial one for the rescan and an *)
(* incomplete one; two of the fourth generation that end together and one  *)
(* of the fifth.                                                           *)
EvidenceScans ==
    (1 :> Scan("e1", "a1", 5, Ports, "s1")) @@ (2 :> Scan("e1", "a1", 7, {1}, "s2"))
    @@ (3 :> Scan("e2", "a2", 6, Ports, "s2")) @@ (4 :> Scan("e2s", "a2", 8, {2}, "closed"))
    @@ (5 :> [Scan("e2", "a2", 9, Ports, "s1") EXCEPT !.complete = FALSE])
    @@ (6 :> Scan("e4", "a2", 13, Ports, "s1")) @@ (7 :> Scan("e4", "a2", 13, {1}, "closed"))
    @@ (8 :> Scan("e5", "a2", 14, {2}, "s2"))

(* The first rule is about any port, others are about the first one.       *)
MCMatches == [r \in Rules |-> IF r = "r1" THEN Ports ELSE {1}]

(* Announced and removed.                                                  *)
RemovalEvents == ("e1" :> Upsert(1, "new_target", "a1", 1)) @@ ("e2" :> Removal(2, "a1", 2))

(* Announced and moved.                                                    *)
MoveEvents == ("e1" :> Upsert(1, "new_target", "a1", 1)) @@ ("e2" :> Upsert(2, "change", "a2", 2))

RunScans ==
    (1 :> Scan("e1", "a1", 5, Ports, "s1")) @@ (2 :> Scan("e1", "a1", 6, {1}, "closed"))

(* The scan of the first generation ends after that of the second.         *)
LateScans ==
    (1 :> Scan("e1", "a1", 9, Ports, "s1")) @@ (2 :> Scan("e2", "a2", 6, Ports, "s1"))
=============================================================================
