----------------------------- MODULE MC_Operator -----------------------------
(* A cutoff the Job can meet or miss, and a time to live of one tick.       *)
EXTENDS ScannerOperator
=============================================================================
