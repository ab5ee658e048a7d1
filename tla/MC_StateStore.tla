---------------------------- MODULE MC_StateStore ----------------------------
(* A small instance of StateStore: one target, two invocations, two direct *)
(* reads and three AWS Config captures of which two contradict each other. *)
EXTENDS StateStore, TLC

Content(policy, life) ==
    [ip |-> "a1", life |-> life, groups |-> {"g1"}, policy |-> policy]

MCContents == {Content("p1", "running"), Content("p2", "running"),
               Content("p1", "unknown"), Content("p2", "unknown")}

MCObservations ==
    {DirectObservation(Content("p2", "running"), 2),
     ConfigObservation(Content("p1", "unknown"), 1, 1),
     ConfigObservation(Content("p2", "unknown"), 1, 2),
     ConfigObservation(Content("p1", "unknown"), 2, 1)}

CallerSymmetry == Permutations(Callers)
=============================================================================
