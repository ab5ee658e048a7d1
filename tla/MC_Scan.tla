------------------------------- MODULE MC_Scan -------------------------------
(* A host without open ports, with two adjacent ones, with two apart that   *)
(* need more terms than a coverage may have, and with two whose list is a   *)
(* longer argument than a command may have.                                 *)
EXTENDS ResultParsing

MCOpenSets == {{}, {1, 2}, {1, 3}, {10, 11}}
MCCoverage == <<PortRange(1, 11)>>

(* Ports open, close, and close in part while another opens; a list that    *)
(* does not go through needs no second look.                                *)
MCBecomes == ({} :> {{1, 2}}) @@ ({1, 2} :> {{}, {1, 3}}) @@ ({1, 3} :> {}) @@ ({10, 11} :> {})
=============================================================================
