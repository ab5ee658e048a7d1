------------------------------ MODULE MC_Outbox ------------------------------
(* In index order: a poison row, a coverage scan and a change, with pages   *)
(* and batches that hold two of the three.                                  *)
EXTENDS OutboxDelivery
=============================================================================
