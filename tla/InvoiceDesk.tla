---------------------------- MODULE InvoiceDesk ----------------------------
(***************************************************************************)
(* The shop's side of one invoice: what staff, the cron and the admin site *)
(* do to it while the others do the same.                                  *)
(*                                                                         *)
(* Every handler reads the row, decides on what it read, and writes later. *)
(* A handler is a request r with the operation it serves and the row it    *)
(* holds in memory.  What it writes back is what the code writes:          *)
(*   - under SELECT ... FOR UPDATE, a fresh row (record_payment);          *)
(*   - save(update_fields=...), the named columns of the held row;         *)
(*   - a full save(), EVERY column of the held row.                        *)
(* Ops selects the operations a run lets happen.                           *)
(***************************************************************************)
EXTENDS InvoiceLedger

CONSTANTS
  Requests,     \* handlers that may be in flight at once
  PaymentIds,   \* primary keys of Payment rows (bounds how many coexist)
  Amounts,      \* amounts staff may type in
  Totals,       \* totals an invoice may have (0: a reward took it all)
  MaxDay,       \* the calendar runs from day 0 to MaxDay
  Ops,          \* operations enabled in this run
  NoRow         \* what an idle handler holds

AllOps == {"record_payment", "mark_paid", "delete_payment", "delete_payments",
           "void", "bulk_void", "cancel", "email", "mark_sent", "edit_total",
           "edit_due", "overdue", "bulk_overdue", "soft_delete", "restore"}

ASSUME DeskAssumption ==
  /\ Amounts \subseteq Nat \ {0}
  /\ Totals \subseteq Nat
  /\ MaxDay \in Nat
  /\ Ops \subseteq AllOps

VARIABLES
  invoice,    \* the Invoice row as committed
  payments,   \* the committed Payment rows of this invoice
  handling,   \* handling[r]: the operation request r serves, or "none"
  held,       \* held[r]: the row request r read and keeps in memory
  today       \* the calendar

vars == <<invoice, payments, handling, held, today>>

Days == 0 .. MaxDay
PaymentRows == [id : PaymentIds, amount : Nat \ {0}]
Rows == [status : Statuses, total : Totals, paid : Nat,
         paidAt : BOOLEAN, due : Days, deleted : BOOLEAN]

Init ==
  /\ invoice \in [status : {"DRAFT", "SENT"}, total : Totals, paid : {0},
                  paidAt : {FALSE}, due : Days, deleted : {FALSE}]
  /\ payments = {}
  /\ handling = [r \in Requests |-> "none"]
  /\ held = [r \in Requests |-> NoRow]
  /\ today = 0

(* A request that is a single transaction needs a worker like any other, so  *)
(* with one worker nothing overlaps.                                         *)
FreeWorker == \E r \in Requests : handling[r] = "none"

FreeIds == {i \in PaymentIds : \A p \in payments : p.id # i}

----------------------------------------------------------------------------
(* A request starts: it reads the row (Invoice.objects hides soft-deleted    *)
(* rows) and applies the checks the view makes on that copy.                 *)

(* Mutant: voided rows only.                                                 *)
AdmitsUnlessVoid(op, row) == row.status # "CANCELLED" /\ AmountDue(row) >= 0

Admits(op, row) ==
  CASE op = "record_payment" -> row.status \notin {"PAID", "CANCELLED"}
    [] op = "mark_paid"      -> row.status \notin {"PAID", "CANCELLED"} /\ AmountDue(row) > 0
    [] op = "void"           -> row.status \notin {"PAID", "CANCELLED", "PARTIAL"}
    [] op = "cancel"         -> row.status \notin {"PAID", "CANCELLED", "PARTIAL"}
    [] op = "email"          -> row.status # "CANCELLED"
    [] op = "mark_sent"      -> row.status = "DRAFT"
    [] op = "edit_total"     -> row.status \notin {"PAID", "CANCELLED"}
    [] op = "edit_due"       -> row.status \notin {"PAID", "CANCELLED"}
    [] OTHER                 -> FALSE

Begin(r, op) ==
  /\ handling[r] = "none"
  /\ ~invoice.deleted
  /\ Admits(op, invoice)
  /\ handling' = [handling EXCEPT ![r] = op]
  /\ held' = [held EXCEPT ![r] = invoice]
  /\ UNCHANGED <<invoice, payments, today>>

Finish(r) ==
  /\ handling' = [handling EXCEPT ![r] = "none"]
  /\ held' = [held EXCEPT ![r] = NoRow]

(* The handler ends before its write: a validation error, a failed email, an *)
(* exception, a killed worker.                                               *)
GiveUp(r) ==
  /\ handling[r] # "none"
  /\ Finish(r)
  /\ UNCHANGED <<invoice, payments, today>>

----------------------------------------------------------------------------
(* Payments *)

InsertPayment(amount) ==
  \E i \in FreeIds :
    LET p == [id |-> i, amount |-> amount]
    IN /\ payments' = payments \cup {p}
       /\ invoice' = AfterPaymentSaved(invoice, payments', today)

(* Mutant: the balance check trusts the row the view read (CODE-056).        *)
RecordPaymentUnlocked(r, amount) ==
  /\ handling[r] = "record_payment"
  /\ ~invoice.deleted
  /\ amount <= AmountDue(held[r])
  /\ InsertPayment(amount)
  /\ Finish(r)
  /\ UNCHANGED today

(* owner_record_payment and the API's record_payment: the status and the     *)
(* balance are checked again on the row read under the lock.                 *)
RecordPayment(r, amount) ==
  /\ handling[r] = "record_payment"
  /\ ~invoice.deleted
  /\ invoice.status \notin {"PAID", "CANCELLED"}
  /\ amount <= AmountDue(invoice)
  /\ InsertPayment(amount)
  /\ Finish(r)
  /\ UNCHANGED today

(* Bulk "mark as paid": pays the balance of the row it read, with no lock    *)
(* and no second look.  The insert rolls back if the row has been deleted    *)
(* (the locked re-read goes through the default manager).                    *)
MarkPaid(r) ==
  /\ handling[r] = "mark_paid"
  /\ ~invoice.deleted
  /\ InsertPayment(AmountDue(held[r]))
  /\ Finish(r)
  /\ UNCHANGED today

(* Mutant: the invoice is left as it was (CODE-118).                         *)
NoRecompute(ps) == invoice' = invoice

(* Payment.delete with its recompute.  The admin's single delete runs both   *)
(* in one transaction.  For a soft-deleted invoice the recompute finds no    *)
(* row and returns.                                                          *)
RecomputeAfterDelete(ps) ==
  invoice' = IF invoice.deleted THEN invoice ELSE AfterPaymentDeleted(invoice, ps, today)

DeletePayment(p) ==
  /\ "delete_payment" \in Ops
  /\ FreeWorker
  /\ payments' = payments \ {p}
  /\ RecomputeAfterDelete(payments')
  /\ UNCHANGED <<handling, held, today>>

(* The admin's bulk delete commits the DELETE before the recompute.          *)
DeletePaymentRow(r, p) ==
  /\ "delete_payments" \in Ops
  /\ handling[r] = "none"
  /\ payments' = payments \ {p}
  /\ handling' = [handling EXCEPT ![r] = "delete_payments"]
  /\ UNCHANGED <<invoice, held, today>>

FinishDeletePayment(r) ==
  /\ handling[r] = "delete_payments"
  /\ RecomputeAfterDelete(payments)
  /\ Finish(r)
  /\ UNCHANGED <<payments, today>>

----------------------------------------------------------------------------
(* Status and columns written from what the handler holds *)

SaveRow(r, row) ==
  /\ invoice' = row
  /\ Finish(r)
  /\ UNCHANGED <<payments, today>>

(* owner_invoice_void: save(update_fields=['status']). *)
Void(r) == handling[r] = "void" /\ SaveRow(r, [invoice EXCEPT !.status = "CANCELLED"])

(* The API's cancel_invoice: Invoice.cancel() is a full save of the held row. *)
Cancel(r) == handling[r] = "cancel" /\ SaveRow(r, [held[r] EXCEPT !.status = "CANCELLED"])

(* An invoice email was accepted; record_email_sent saves the held status.   *)
EmailSent(r) ==
  /\ handling[r] = "email"
  /\ SaveRow(r, [invoice EXCEPT !.status = StatusAfterEmail(held[r].status)])

(* The admin's "Mark as Sent": Invoice.mark_sent() is a full save.           *)
MarkSent(r) == handling[r] = "mark_sent" /\ SaveRow(r, [held[r] EXCEPT !.status = "SENT"])

(* A line item was changed, added or removed; recalculate_invoice_totals     *)
(* saves the total and leaves the status alone.                              *)
EditTotal(r) ==
  /\ handling[r] = "edit_total"
  /\ \E t \in Totals : SaveRow(r, [invoice EXCEPT !.total = t])

(* update_invoice: save(update_fields=['due_date', ...]). *)
EditDue(r) ==
  /\ handling[r] = "edit_due"
  /\ \E d \in Days : SaveRow(r, [invoice EXCEPT !.due = d])

----------------------------------------------------------------------------
(* Requests that are one transaction or one UPDATE. *)

Queryset(row) ==
  /\ FreeWorker
  /\ invoice' = row
  /\ UNCHANGED <<payments, handling, held, today>>

BulkVoid ==
  /\ "bulk_void" \in Ops
  /\ ~invoice.deleted
  /\ invoice.status \notin {"PAID", "PARTIAL", "CANCELLED"}
  /\ Queryset([invoice EXCEPT !.status = "CANCELLED"])

MarkOverdue ==
  /\ "overdue" \in Ops
  /\ CanMarkOverdue(invoice, today)
  /\ Queryset(MarkedOverdue(invoice))

(* The admin's "Mark as Overdue" does not look at the due date.              *)
BulkOverdue ==
  /\ "bulk_overdue" \in Ops
  /\ ~invoice.deleted
  /\ invoice.status \in {"SENT", "PARTIAL"}
  /\ Queryset(MarkedOverdue(invoice))

SoftDelete ==
  /\ "soft_delete" \in Ops
  /\ ~invoice.deleted
  /\ Queryset([invoice EXCEPT !.deleted = TRUE])

Restore ==
  /\ "restore" \in Ops
  /\ invoice.deleted
  /\ Queryset([invoice EXCEPT !.deleted = FALSE])

NextDay ==
  /\ today < MaxDay
  /\ today' = today + 1
  /\ UNCHANGED <<invoice, payments, handling, held>>

----------------------------------------------------------------------------
Payment(r) ==
  \/ \E a \in Amounts : RecordPayment(r, a)
  \/ MarkPaid(r)
  \/ \E p \in payments : DeletePaymentRow(r, p)
  \/ FinishDeletePayment(r)

HeldWrite(r) ==
  \/ Void(r) \/ Cancel(r) \/ EmailSent(r) \/ MarkSent(r) \/ EditTotal(r) \/ EditDue(r)

Statement ==
  \/ \E p \in payments : DeletePayment(p)
  \/ BulkVoid \/ MarkOverdue \/ BulkOverdue \/ SoftDelete \/ Restore \/ NextDay

Next ==
  \/ \E r \in Requests :
       \/ \E op \in Ops : Begin(r, op)
       \/ GiveUp(r)
       \/ Payment(r)
       \/ HeldWrite(r)
  \/ Statement

Spec == Init /\ [][Next]_vars

----------------------------------------------------------------------------
(* Properties *)

(* Type correctness. *)
TypeOK ==
  /\ invoice \in Rows
  /\ payments \subseteq PaymentRows
  /\ handling \in [Requests -> Ops \cup {"none"}]
  /\ held \in [Requests -> Rows \cup {NoRow}]
  /\ today \in Days

(* The balance the shop sees is the money it recorded: amount_paid is the    *)
(* sum of the Payment rows whatever the order of concurrent payments and     *)
(* deletions (the reason _update_invoice_totals and Payment.delete recompute *)
(* under a row lock).                                                        *)
LedgerConsistent == invoice.paid = PaySum(payments)

(* An invoice reads PAID, and carries paid_at, exactly while it costs        *)
(* something and its recorded payments cover that, unless it was voided      *)
(* (update_status and the demotion in Payment.delete, CODE-118).  An invoice *)
(* over nothing (a reward took it all, every line was removed) owes nothing  *)
(* and is never PAID: no payment is taken for it, so nothing asks            *)
(* update_status.                                                            *)
PaidIffCovered ==
  invoice.status # "CANCELLED" =>
    /\ (invoice.status = "PAID") <=> (invoice.total > 0 /\ PaySum(payments) >= invoice.total)
    /\ invoice.status = "PAID" <=> invoice.paidAt

(* Staff cannot record more than the invoice is worth, however many of them  *)
(* submit the form at once (CODE-056, CODE-155).                             *)
NoOverpayment == PaySum(payments) <= invoice.total

(* A voided invoice stays voided. *)
VoidIsFinal == [][invoice.status = "CANCELLED" => invoice'.status = "CANCELLED"]_vars

(* A row that reads PAID has been paid: no unlocked edit, send or void leaves *)
(* PAID on an invoice whose amount_paid is short of its total.                *)
PaidMeansCovered == invoice.status = "PAID" => invoice.paid >= invoice.total

(* The operations after which amount_paid is recomputed or left alone, never  *)
(* written from a held row.                                                   *)
RecomputingOps == {"record_payment", "mark_paid", "delete_payment", "void", "bulk_void",
                   "email", "edit_total", "edit_due", "overdue", "bulk_overdue"}

(* Those of them that neither move the total nor write a held status other    *)
(* than CANCELLED.                                                            *)
StatusOps == RecomputingOps \ {"email", "edit_total"}

(* Those that check the balance under the row lock before taking money.       *)
LockedOps == RecomputingOps \ {"mark_paid", "edit_total"}
=============================================================================
