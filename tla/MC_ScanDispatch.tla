--------------------------- MODULE MC_ScanDispatch ---------------------------
(* A target that is announced, changed and removed; two invocations.        *)
EXTENDS ScanDispatch, TLC

(* Announced, changed by an event out of scope, removed: a removal asks for *)
(* no scan and has no deadline.                                             *)
MCGen == ("e1" :> 1) @@ ("e2" :> 2) @@ ("e3" :> 3)

MCDeadline == ("e1" :> 2) @@ ("e2" :> 2) @@ ("e3" :> 0)

(* Two generations with a scan each.                                        *)
MCGenTwo == ("e1" :> 1) @@ ("e2" :> 2)

MCDeadlineTwo == ("e1" :> 2) @@ ("e2" :> 3)

(* One event that two invocations share.                                    *)
MCGenOne == ("e1" :> 1)

MCDeadlineOne == ("e1" :> 2)

WorkerSymmetry == Permutations(Workers)
=============================================================================
