-------------------------- MODULE MC_InvoiceDesk --------------------------
(* TLC instances of InvoiceDesk. *)
EXTENDS InvoiceDesk

CONSTANTS r1, r2, p1, p2, p3

(* The operation sets of the runs. *)
EveryOp      == AllOps
StrictOps    == StatusOps \cap LockedOps
=============================================================================
