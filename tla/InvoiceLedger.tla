--------------------------- MODULE InvoiceLedger ---------------------------
(***************************************************************************)
(* The invoice row and the rules that derive its money columns from its    *)
(* Payment rows (apps/billing/models.py).  The operators are pure: each    *)
(* takes the row as a handler holds it and returns the row as the handler  *)
(* writes it.  The modules that model concurrent handlers extend this one. *)
(*                                                                         *)
(* Money is counted in abstract units; a row keeps the columns that the    *)
(* payment rules read or write and leaves the presentation out.            *)
(***************************************************************************)
EXTENDS Integers, FiniteSetsExt

Statuses == {"DRAFT", "SENT", "PAID", "PARTIAL", "OVERDUE", "CANCELLED"}

(* The SUM(amount) aggregate over a set of Payment rows. *)
PaySum(ps) == MapThenSumSet(LAMBDA p : p.amount, ps)

AmountDue(row) == row.total - row.paid

(* is_overdue asks the calendar only for a row that is still collectible. *)
IsOverdue(row, today) == today > row.due /\ row.status \notin {"PAID", "CANCELLED"}

(* Invoice.update_status: forward only, it never demotes a PAID row. *)
UpdateStatus(row, today) ==
  IF row.status = "CANCELLED" THEN row
  ELSE IF row.paid >= row.total THEN [row EXCEPT !.status = "PAID", !.paidAt = TRUE]
  ELSE IF row.paid > 0          THEN [row EXCEPT !.status = "PARTIAL"]
  ELSE IF IsOverdue(row, today) THEN [row EXCEPT !.status = "OVERDUE"]
  ELSE row

(* Payment._update_invoice_totals, after a payment was inserted or changed. *)
AfterPaymentSaved(row, ps, today) ==
  UpdateStatus([row EXCEPT !.paid = PaySum(ps)], today)

(* Mutant: Payment.delete relies on the forward-only update_status.         *)
DeletedForwardOnly(row, ps, today) == UpdateStatus([row EXCEPT !.paid = PaySum(ps)], today)

(* Mutant: the last payment taken out reopens a voided invoice.             *)
DeletedReopens(row, ps, today) ==
  IF ps = {} THEN [row EXCEPT !.paid = 0, !.paidAt = FALSE, !.status = "SENT"]
  ELSE AfterPaymentSaved(row, ps, today)

(* The second half of Payment.delete: the only code that demotes PAID. *)
AfterPaymentDeleted(row, ps, today) ==
  LET sum == PaySum(ps)
      new == [row EXCEPT !.paid = sum]
  IN IF row.status = "CANCELLED" THEN new
     ELSE IF sum >= row.total THEN [new EXCEPT !.status = "PAID", !.paidAt = TRUE]
     ELSE IF sum > 0          THEN [new EXCEPT !.status = "PARTIAL", !.paidAt = FALSE]
     ELSE [new EXCEPT !.paidAt = FALSE,
                      !.status = IF today > row.due THEN "OVERDUE"
                                 ELSE IF row.status \in {"PAID", "PARTIAL"} THEN "SENT"
                                 ELSE row.status]

(* The queryset update every overdue sweep issues (cron, dashboard, list).  *)
MarkedOverdue(row) == [row EXCEPT !.status = "OVERDUE"]
CanMarkOverdue(row, today) ==
  /\ ~row.deleted
  /\ row.status \in {"SENT", "PARTIAL"}
  /\ today > row.due

(* record_email_sent promotes DRAFT and otherwise writes back the status    *)
(* the handler holds in memory.                                             *)
StatusAfterEmail(held) == IF held = "DRAFT" THEN "SENT" ELSE held
=============================================================================
