--------------------------- MODULE StripePayments ---------------------------
(***************************************************************************)
(* Money that arrives from Stripe while the shop is working on the same    *)
(* invoices.  A customer opens a Checkout Session and pays it; the app     *)
(* learns of it three ways that race each other:                           *)
(*   - two webhook events per payment, checkout.session.completed and      *)
(*     payment_intent.succeeded, delivered at least once in any order;     *)
(*   - the reconcile sweep (cron), over the StripeCheckoutAttempt rows;    *)
(*   - the payment-complete landing page.                                  *)
(* All three go through StripeService._record_stripe_payment.  A manual    *)
(* payment first runs guard_manual_payment, which takes the same path.     *)
(*                                                                         *)
(* A worker is one process or thread; its job advances one database        *)
(* statement, transaction or Stripe call at a time.  Ops selects what the  *)
(* shop does meanwhile, Faults what goes wrong, at most MaxFaults times.   *)
(*                                                                         *)
(* External, modelled from how the code uses it: Stripe's sessions and its *)
(* event delivery.  Not here: due dates (see InvoiceDesk) and deletion of  *)
(* Payment rows.                                                           *)
(***************************************************************************)
EXTENDS InvoiceLedger

CONSTANTS
  Workers,      \* processes that serve webhooks, cron jobs and requests
  Invoices,
  Sessions,     \* Checkout Sessions, and with them their PaymentIntents
  Total,        \* the total of every invoice
  Amounts,      \* amounts staff may type in
  Accounts,     \* Connect accounts the shop may have
  Ops,          \* what the shop may do meanwhile
  Faults,       \* what may go wrong
  MaxFaults,    \* how many faults in all
  MaxManual,    \* how many manual payments in all
  Manual,       \* the stripe_payment_id of a manual payment (the empty string)
  NoSession, NoInvoice, NoRow

AllOps == {"manual", "mark_paid", "void", "soft_delete", "restore", "reconnect", "landing"}
AllFaults == {"crash", "db_error", "fee_error", "stripe_down", "unknown_session",
              "lost_event", "lost_attempt"}

ASSUME StripeAssumption ==
  /\ Total \in Nat \ {0}
  /\ Amounts \subseteq Nat \ {0}
  /\ MaxFaults \in Nat /\ MaxManual \in Nat
  /\ Ops \subseteq AllOps /\ Faults \subseteq AllFaults
  /\ Accounts # {}
  /\ Manual \notin Sessions /\ NoSession \notin Sessions

VARIABLES
  invoice,    \* invoice[i]: the row
  payments,   \* payments[i]: the Payment rows of i
  fees,       \* PaymentIntents with a PlatformFeeRecord
  refused,    \* history: charges set aside, their invoice being paid already
  unbooked,   \* history: why a fee was not recorded, <<charge, reason>>
  session,    \* Stripe's sessions, with the page request that creates them
  attempt,    \* attempt[s]: status of the StripeCheckoutAttempt row of s
  created,    \* created[s]: rank of that row by created_at, 0 for no row
  owed,       \* events Stripe has not had a 2xx answer for
  log,        \* log[e]: status of the StripeWebhookEvent row of e
  account,    \* the shop's Connect account
  job,        \* job[w]: what worker w is doing
  faults      \* faults so far

notes == <<refused, unbooked>>
db    == <<invoice, payments, fees, refused, unbooked>>
stripe == <<session, owed>>
attempts == <<attempt, created>>
vars == <<invoice, payments, fees, refused, unbooked, session, attempt, created, owed,
          log, account, job, faults>>

Events == [s : Sessions, type : {"checkout", "intent"}]
Webhooks == {"checkout", "intent"}
Kinds == Webhooks \cup {"sweep", "landing", "manual"}

Rows == [status : Statuses, total : {Total}, paid : Nat, paidAt : BOOLEAN,
         due : {0}, deleted : BOOLEAN]
PaymentRows == [id : Nat, amount : Nat \ {0}, pi : Sessions \cup {Manual}]
CheckoutSessions == [at : {"none", "page", "created", "open", "paid", "expired"},
                     inv : Invoices \cup {NoInvoice}, amount : Nat, account : Accounts]

(* Where a job is: before the recording path, in it, or past it.             *)
Stages == {"idle", "sync", "expire", "lock", "read", "check", "insert", "alert", "fee",
           "mark", "close"}
Jobs == [at : Stages, kind : Kinds \cup {"none"}, s : Sessions \cup {NoSession},
         inv : Invoices \cup {NoInvoice}, held : Rows \cup {NoRow}, todo : SUBSET Sessions,
         answer : {"ok", "not_found", "mismatch"}, logged : BOOLEAN, feeKnown : BOOLEAN]

(* The calendar stands still here: no invoice falls due.                     *)
Today == 0

Idle == [at |-> "idle", kind |-> "none", s |-> NoSession, inv |-> NoInvoice,
         held |-> NoRow, todo |-> {}, answer |-> "ok", logged |-> TRUE, feeKnown |-> TRUE]

NewSession == [at |-> "none", inv |-> NoInvoice, amount |-> 0, account |-> CHOOSE a \in Accounts : TRUE]

Init ==
  /\ invoice = [i \in Invoices |-> [status |-> "SENT", total |-> Total, paid |-> 0,
                                    paidAt |-> FALSE, due |-> 0, deleted |-> FALSE]]
  /\ payments = [i \in Invoices |-> {}]
  /\ fees = {} /\ refused = {} /\ unbooked = {}
  /\ session = [s \in Sessions |-> NewSession]
  /\ attempt = [s \in Sessions |-> "none"]
  /\ created = [s \in Sessions |-> 0]
  /\ owed = {}
  /\ log = [e \in Events |-> "none"]
  /\ account = NewSession.account
  /\ job = [w \in Workers |-> Idle]
  /\ faults = 0

Fault(f) == f \in Faults /\ faults < MaxFaults /\ faults' = faults + 1

----------------------------------------------------------------------------
(* The customer and Stripe *)

(* The pay page reads the invoice and refuses a settled one.                 *)
OpenPayPage(s, i) ==
  /\ session[s].at = "none"
  /\ ~invoice[i].deleted
  /\ invoice[i].status # "PAID" /\ AmountDue(invoice[i]) > 0
  /\ session' = [session EXCEPT ![s] = [at |-> "page", inv |-> i,
                                        amount |-> AmountDue(invoice[i]), account |-> account]]
  /\ UNCHANGED <<db, attempts, owed, log, account, job, faults>>

MoveSession(s, from, to) ==
  /\ session[s].at = from
  /\ session' = [session EXCEPT ![s].at = to]

(* Session.create, for the amount the page read.                             *)
CreateSession(s) ==
  /\ MoveSession(s, "page", "created")
  /\ UNCHANGED <<db, attempts, owed, log, account, job, faults>>

(* The attempt row is written and the customer is sent to Stripe.  A failure *)
(* to write it is logged and forgotten.                                      *)
SendToStripe(s) ==
  /\ MoveSession(s, "created", "open")
  /\ \/ /\ attempt' = [attempt EXCEPT ![s] = "OPEN"]
        /\ created' = [created EXCEPT ![s] = 1 + Cardinality({t \in Sessions : created[t] > 0})]
        /\ UNCHANGED faults
     \/ Fault("lost_attempt") /\ UNCHANGED attempts
  /\ UNCHANGED <<db, owed, log, account, job>>

Pay(s) ==
  /\ MoveSession(s, "open", "paid")
  /\ owed' = owed \cup {e \in Events : e.s = s}
  /\ UNCHANGED <<db, attempts, log, account, job, faults>>

(* Stripe closes a session nobody paid.                                      *)
SessionExpires(s) ==
  /\ MoveSession(s, "open", "expired")
  /\ UNCHANGED <<db, attempts, owed, log, account, job, faults>>

(* Stripe stops retrying.                                                    *)
LoseEvent(e) ==
  /\ e \in owed
  /\ Fault("lost_event")
  /\ owed' = owed \ {e}
  /\ UNCHANGED <<db, session, attempts, log, account, job>>

----------------------------------------------------------------------------
(* Jobs *)

Become(w, j) == job' = [job EXCEPT ![w] = j]
GoTo(w, at) == Become(w, [job[w] EXCEPT !.at = at])
Stop(w) == Become(w, Idle)

IsWebhook(w) == job[w].kind \in Webhooks
Event(w) == [s |-> job[w].s, type |-> job[w].kind]
Recorded(i, s) == \E p \in payments[i] : p.pi = s

(* Where a job goes once the recording path has returned.                    *)
Returned(w) == IF IsWebhook(w) THEN "mark" ELSE "close"

(* The fee record is written by _handle_payment_succeeded only.              *)
AfterRecord(w) == IF job[w].kind = "checkout" THEN "mark" ELSE "fee"

(* handle_webhook and webhook_log.claim.  The endpoint is registered twice   *)
(* and Stripe redelivers, so any event of a paid session may come again.     *)
Deliver(w, e) ==
  /\ job[w] = Idle
  /\ session[e.s].at = "paid"
  /\ IF log[e] \in {"processed", "ignored"}
     THEN owed' = owed \ {e} /\ UNCHANGED <<log, job, faults>>
     ELSE /\ \/ /\ log' = [log EXCEPT ![e] = "processing"]
                /\ Become(w, [Idle EXCEPT !.at = "read", !.kind = e.type, !.s = e.s])
                /\ UNCHANGED faults
             \/ /\ Fault("db_error")     \* no row, and the event is processed anyway
                /\ Become(w, [Idle EXCEPT !.at = "read", !.kind = e.type, !.s = e.s,
                                          !.logged = FALSE])
                /\ UNCHANGED log
          /\ UNCHANGED owed
  /\ UNCHANGED <<db, session, attempts, account>>

IsOpen(s) == attempt[s] = "OPEN"
Pending(i) == {s \in Sessions : IsOpen(s) /\ session[s].inv = i}

(* reconcile_open_attempts, started by cron every 15 minutes: oldest first.   *)
StartSweep(w) ==
  /\ job[w] = Idle
  /\ \E s \in Sessions : IsOpen(s)
  /\ Become(w, [Idle EXCEPT !.at = "sync", !.kind = "sweep", !.todo = {s \in Sessions : IsOpen(s)}])
  /\ UNCHANGED <<db, stripe, attempts, log, account, faults>>

(* resolve_session: Stripe has sent the customer back.                       *)
Land(w, s) ==
  /\ "landing" \in Ops
  /\ job[w] = Idle
  /\ session[s].at = "paid" /\ attempt[s] \in {"OPEN", "EXPIRED"}
  /\ invoice[session[s].inv].status # "PAID"
  /\ Become(w, [Idle EXCEPT !.at = "sync", !.kind = "landing", !.todo = {s}])
  /\ UNCHANGED <<db, stripe, attempts, log, account, faults>>

(* owner_record_payment and the API's record_payment, up to the list of      *)
(* pending sessions guard_manual_payment works through, newest first.        *)
StartManual(w, i) ==
  /\ "manual" \in Ops
  /\ job[w] = Idle
  /\ ~invoice[i].deleted /\ invoice[i].status \notin {"PAID", "CANCELLED"}
  /\ Become(w, [Idle EXCEPT !.at = "sync", !.kind = "manual", !.inv = i,
                            !.todo = Pending(i)])
  /\ UNCHANGED <<db, stripe, attempts, log, account, faults>>

(* The process dies, or the database fails it in a statement that has no     *)
(* failure of its own here.  Stripe, cron and people try again.              *)
Crash(w) ==
  /\ job[w] # Idle
  /\ Fault("crash")
  /\ Stop(w)
  /\ UNCHANGED <<db, stripe, attempts, log, account>>

----------------------------------------------------------------------------
(* sync_attempt *)

(* Mutant: the loop returns where it should go on.                           *)
SkipReturns(w, s) == Stop(w)

Skip(w, s) == Become(w, [job[w] EXCEPT !.todo = @ \ {s}, !.s = NoSession, !.at = "sync",
                                       !.feeKnown = TRUE])

(* StripeUnavailable: the guard blocks the payment, the others move on.      *)
Unavailable(w, s) == IF job[w].kind = "manual" THEN Stop(w) ELSE Skip(w, s)

(* _record_paid_session asks for the PaymentIntent, and goes on without its  *)
(* application fee if Stripe does not answer.                                *)
GoRecord(w, s) ==
  \/ /\ Become(w, [job[w] EXCEPT !.at = "read", !.s = s])
     /\ UNCHANGED faults
  \/ /\ Fault("stripe_down")
     /\ Become(w, [job[w] EXCEPT !.at = "read", !.s = s, !.feeKnown = FALSE])

(* Mutant: the attempt is closed before its payment is recorded.             *)
CloseThenRecord(w, s) == GoRecord(w, s) /\ attempt' = [attempt EXCEPT ![s] = "COMPLETE"]

(* The session was paid: record first, close the attempt afterwards.         *)
FoundPaid(w, s) == GoRecord(w, s) /\ UNCHANGED attempt

(* The guard works newest first (the model's ordering), the sweep oldest     *)
(* first.                                                                    *)
Upcoming(w) ==
  LET todo == job[w].todo
  IN {s \in todo : \A t \in todo : IF job[w].kind = "manual" THEN created[t] <= created[s]
                                                              ELSE created[s] <= created[t]}

SyncAttempt(w, s) ==
  /\ job[w].at = "sync" /\ s \in Upcoming(w)
  /\ \/ session[s].at = "paid" /\ FoundPaid(w, s)
     \/ /\ \/ session[s].at = "expired" /\ UNCHANGED faults
           \/ Fault("unknown_session")     \* no session of that id on that account
        /\ attempt' = [attempt EXCEPT ![s] = "EXPIRED"]
        /\ Skip(w, s)
     \/ /\ session[s].at = "open"
        /\ IF job[w].kind = "manual"
           THEN Become(w, [job[w] EXCEPT !.at = "expire", !.s = s])
           ELSE Skip(w, s)
        /\ UNCHANGED <<attempt, faults>>
     \/ /\ Fault("stripe_down")
        /\ Unavailable(w, s)
        /\ UNCHANGED attempt
  /\ UNCHANGED <<db, stripe, created, log, account>>

(* Mutant: a refused expire is taken to mean there is nothing left to pay.   *)
ExpireWithoutRecheck(w) ==
  LET s == job[w].s
  IN /\ job[w].at = "expire"
     /\ session' = [session EXCEPT ![s].at = IF @ = "paid" THEN @ ELSE "expired"]
     /\ attempt' = [attempt EXCEPT ![s] = "EXPIRED"]
     /\ Skip(w, s)
     /\ UNCHANGED <<db, created, owed, log, account, faults>>

(* Session.expire; when Stripe refuses, the session is looked at again.      *)
ExpireOpen(w) ==
  LET s == job[w].s
  IN /\ job[w].at = "expire"
     /\ \/ /\ MoveSession(s, "open", "expired")
           /\ attempt' = [attempt EXCEPT ![s] = "EXPIRED"]
           /\ Skip(w, s)
           /\ UNCHANGED faults
        \/ /\ session[s].at = "paid"
           /\ FoundPaid(w, s)
           /\ UNCHANGED session
        \/ /\ session[s].at = "expired"
           /\ Unavailable(w, s)
           /\ UNCHANGED <<session, attempt, faults>>
        \/ /\ Fault("stripe_down")
           /\ Unavailable(w, s)
           /\ UNCHANGED <<session, attempt>>
     /\ UNCHANGED <<db, created, owed, log, account>>

CloseAttempt(w) ==
  /\ job[w].at = "close"
  /\ attempt' = [attempt EXCEPT ![job[w].s] = "COMPLETE"]
  /\ Skip(w, job[w].s)
  /\ UNCHANGED <<db, stripe, created, log, account, faults>>

(* The list is done: the manual payment goes on, the others end.             *)
SyncDone(w) ==
  /\ job[w].at = "sync" /\ job[w].todo = {}
  /\ IF job[w].kind = "manual" THEN GoTo(w, "lock") ELSE Stop(w)
  /\ UNCHANGED <<db, stripe, attempts, log, account, faults>>

----------------------------------------------------------------------------
(* _record_stripe_payment *)

(* Mutant: the exception is swallowed and the caller goes on as if recorded. *)
RaiseSwallowed(w) == GoTo(w, Returned(w)) /\ UNCHANGED log

(* An exception out of the recording path: the event is marked failed and    *)
(* answered 500; the sweep, the landing page and the guard have no handler   *)
(* for it and end there.                                                     *)
Raise(w) ==
  /\ log' = IF IsWebhook(w) /\ job[w].logged
            THEN [log EXCEPT ![Event(w)] = "failed"] ELSE log
  /\ Stop(w)

ReadInvoice(w) ==
  LET s == job[w].s
      i == session[s].inv
  IN /\ job[w].at = "read"
     /\ Become(w,
          IF invoice[i].deleted
          THEN [job[w] EXCEPT !.answer = "not_found", !.at = AfterRecord(w)]
          ELSE IF session[s].account # account
          THEN [job[w] EXCEPT !.answer = "mismatch", !.at = Returned(w)]
          ELSE [job[w] EXCEPT !.held = invoice[i], !.at = "check"])
     /\ UNCHANGED <<db, stripe, attempts, log, account, faults>>

(* Mutants: no already-paid check; a duplicate returns before the fee.       *)
CheckDuplicateOnly(w) ==
  /\ job[w].at = "check"
  /\ GoTo(w, IF Recorded(session[job[w].s].inv, job[w].s) THEN AfterRecord(w) ELSE "insert")
  /\ UNCHANGED <<db, stripe, attempts, log, account, faults>>

CheckAndReturn(w) ==
  /\ job[w].at = "check"
  /\ GoTo(w, IF Recorded(session[job[w].s].inv, job[w].s) THEN Returned(w) ELSE "insert")
  /\ UNCHANGED <<db, stripe, attempts, log, account, faults>>

(* The duplicate precheck asks the database, the already-paid one asks the   *)
(* row in memory.                                                            *)
CheckDuplicate(w) ==
  LET s == job[w].s
  IN /\ job[w].at = "check"
     /\ GoTo(w, IF Recorded(session[s].inv, s) THEN AfterRecord(w)
                ELSE IF job[w].held.status = "PAID" \/ AmountDue(job[w].held) <= 0 THEN "alert"
                ELSE "insert")
     /\ UNCHANGED <<db, stripe, attempts, log, account, faults>>

(* The invoice was already paid: no payment, no fee, a notice to the shop.   *)
(* The notice is best effort: when neither the portal nor the e-mail takes   *)
(* it, or there is nobody to address it to, the failure is swallowed, the    *)
(* charge is set aside all the same, and nobody tries again.  So this step   *)
(* stands for both outcomes, and no property says that the shop was told.    *)
AlertShop(w) ==
  /\ job[w].at = "alert"
  /\ refused' = refused \cup {job[w].s}
  /\ GoTo(w, Returned(w))
  /\ UNCHANGED <<invoice, payments, fees, unbooked, stripe, attempts, log, account, faults>>

AddPayment(i, amount, pi) ==
  /\ payments' = [payments EXCEPT ![i] =
                    @ \cup {[id |-> Cardinality(@) + 1, amount |-> amount, pi |-> pi]}]
  /\ invoice' = [invoice EXCEPT ![i] = AfterPaymentSaved(@, payments'[i], Today)]

(* Mutants: no unique index; the balance is credited, not the charge.        *)
InsertUnchecked(w) ==
  /\ job[w].at = "insert"
  /\ AddPayment(session[job[w].s].inv, session[job[w].s].amount, job[w].s)
  /\ GoTo(w, AfterRecord(w))
  /\ UNCHANGED <<fees, notes, stripe, attempts, log, account, faults>>

InsertBalance(w) ==
  LET i == session[job[w].s].inv
  IN /\ job[w].at = "insert"
     /\ ~Recorded(i, job[w].s)
     /\ AddPayment(i, AmountDue(invoice[i]), job[w].s)
     /\ GoTo(w, AfterRecord(w))
     /\ UNCHANGED <<fees, notes, stripe, attempts, log, account, faults>>

(* Payment.objects.create and the recompute, in one transaction; the unique  *)
(* index on stripe_payment_id decides between concurrent workers.            *)
InsertPayment(w) ==
  LET s == job[w].s
      i == session[s].inv
  IN /\ job[w].at = "insert"
     /\ \/ /\ job[w].held.status # "CANCELLED"
           /\ Recorded(i, s)
           /\ GoTo(w, AfterRecord(w))
           /\ UNCHANGED <<invoice, payments, log, faults>>
        \/ /\ job[w].held.status # "CANCELLED"
           /\ ~Recorded(i, s) /\ ~invoice[i].deleted
           /\ AddPayment(i, session[s].amount, s)
           /\ GoTo(w, AfterRecord(w))
           /\ UNCHANGED <<log, faults>>
        \/ /\ job[w].held.status = "CANCELLED" \/ (~Recorded(i, s) /\ invoice[i].deleted)
           /\ Raise(w)
           /\ UNCHANGED <<invoice, payments, faults>>
        \/ /\ Fault("db_error")
           /\ Raise(w)
           /\ UNCHANGED <<invoice, payments>>
     /\ UNCHANGED <<fees, notes, stripe, attempts, account>>

(* The platform fee record of a charge that carries a fee: one per           *)
(* PaymentIntent, if the fee is known and the invoice in sight, and best     *)
(* effort.                                                                   *)
RecordFee(w) ==
  LET s == job[w].s
      hidden == invoice[session[s].inv].deleted
  IN /\ job[w].at = "fee"
     /\ GoTo(w, Returned(w))
     /\ \/ /\ job[w].feeKnown /\ ~hidden
           /\ fees' = fees \cup {s}
           /\ UNCHANGED <<unbooked, faults>>
        \/ /\ ~job[w].feeKnown
           /\ unbooked' = unbooked \cup {<<s, "unread">>}
           /\ UNCHANGED <<fees, faults>>
        \/ /\ job[w].feeKnown
           /\ IF hidden THEN UNCHANGED faults ELSE Fault("fee_error")
           /\ unbooked' = unbooked \cup {<<s, "unwritten">>}
           /\ UNCHANGED fees
     /\ UNCHANGED <<invoice, payments, refused, stripe, attempts, log, account>>

(* The event log is closed and Stripe is answered: 200, or 400 for an        *)
(* invoice that was not found.                                               *)
MarkEvent(w) ==
  LET e == Event(w)
  IN /\ job[w].at = "mark"
     /\ log' = IF ~job[w].logged THEN log
               ELSE [log EXCEPT ![e] = IF job[w].answer = "mismatch" THEN "ignored" ELSE "processed"]
     /\ owed' = IF job[w].answer = "not_found" THEN owed ELSE owed \ {e}
     /\ Stop(w)
     /\ UNCHANGED <<db, session, attempts, account, faults>>

----------------------------------------------------------------------------
(* The shop *)

ManualPayments == UNION {{p \in payments[i] : p.pi = Manual} : i \in Invoices}

(* The manual payment itself, under the row lock.                            *)
RecordManual(w, amount) ==
  LET i == job[w].inv
  IN /\ job[w].at = "lock"
     /\ Cardinality(ManualPayments) < MaxManual
     /\ ~invoice[i].deleted /\ invoice[i].status \notin {"PAID", "CANCELLED"}
     /\ amount <= AmountDue(invoice[i])
     /\ AddPayment(i, amount, Manual)
     /\ Stop(w)
     /\ UNCHANGED <<fees, notes, stripe, attempts, log, account, faults>>

(* The view refuses: settled, voided, deleted, more than the balance.        *)
RefuseManual(w) ==
  /\ job[w].at = "lock"
  /\ Stop(w)
  /\ UNCHANGED <<db, stripe, attempts, log, account, faults>>

(* Bulk "mark as paid", which does not ask the guard.                        *)
BulkMarkPaid(i) ==
  /\ "mark_paid" \in Ops
  /\ Cardinality(ManualPayments) < MaxManual
  /\ ~invoice[i].deleted /\ invoice[i].status \notin {"PAID", "CANCELLED"}
  /\ AmountDue(invoice[i]) > 0
  /\ AddPayment(i, AmountDue(invoice[i]), Manual)
  /\ UNCHANGED <<fees, notes, stripe, attempts, log, account, job, faults>>

WriteRow(i, row) ==
  /\ invoice' = [invoice EXCEPT ![i] = row]
  /\ UNCHANGED <<payments, fees, notes, stripe, attempts, log, account, job, faults>>

Void(i) ==
  /\ "void" \in Ops
  /\ ~invoice[i].deleted /\ invoice[i].status \notin {"PAID", "PARTIAL", "CANCELLED"}
  /\ WriteRow(i, [invoice[i] EXCEPT !.status = "CANCELLED"])

SoftDelete(i) ==
  /\ "soft_delete" \in Ops
  /\ ~invoice[i].deleted
  /\ WriteRow(i, [invoice[i] EXCEPT !.deleted = TRUE])

Restore(i) ==
  /\ "restore" \in Ops
  /\ invoice[i].deleted
  /\ WriteRow(i, [invoice[i] EXCEPT !.deleted = FALSE])

(* reset_connect, then onboarding again with a new Stripe account.           *)
Reconnect(a) ==
  /\ "reconnect" \in Ops
  /\ a # account
  /\ account' = a
  /\ UNCHANGED <<db, stripe, attempts, log, job, faults>>

----------------------------------------------------------------------------
Work(w) ==
  \/ (\E s \in Sessions : SyncAttempt(w, s)) \/ ExpireOpen(w) \/ CloseAttempt(w) \/ SyncDone(w)
  \/ ReadInvoice(w) \/ CheckDuplicate(w) \/ AlertShop(w) \/ InsertPayment(w) \/ RecordFee(w)
  \/ MarkEvent(w)
  \/ \E a \in Amounts : RecordManual(w, a)
  \/ RefuseManual(w)

Customer(s) ==
  \/ \E i \in Invoices : OpenPayPage(s, i)
  \/ CreateSession(s) \/ SendToStripe(s) \/ Pay(s) \/ SessionExpires(s)

Shop(i) == BulkMarkPaid(i) \/ Void(i) \/ SoftDelete(i) \/ Restore(i)

Next ==
  \/ \E w \in Workers :
       \/ Work(w)
       \/ Crash(w)
       \/ StartSweep(w)
       \/ \E e \in Events : Deliver(w, e)
       \/ \E s \in Sessions : Land(w, s)
       \/ \E i \in Invoices : StartManual(w, i)
  \/ \E s \in Sessions : Customer(s)
  \/ \E e \in Events : LoseEvent(e)
  \/ \E i \in Invoices : Shop(i)
  \/ \E a \in Accounts : Reconnect(a)

Spec == Init /\ [][Next]_vars

(* A running process goes on; Stripe redelivers what it has no 2xx for; cron *)
(* comes back every 15 minutes.                                              *)
Fairness ==
  /\ \A w \in Workers : WF_vars(Work(w))
  /\ \A e \in Events : SF_vars(e \in owed /\ \E w \in Workers : Deliver(w, e))
  /\ SF_vars(\E w \in Workers : StartSweep(w))

FairSpec == Spec /\ Fairness

----------------------------------------------------------------------------
(* Properties *)

CreditRows(s) == UNION {{<<i, p.id>> : p \in {q \in payments[i] : q.pi = s}} : i \in Invoices}
Credited(s) == CreditRows(s) # {}

(* The app has dealt with the money of s: a Payment row, or it was set aside *)
(* and what was paid otherwise covers the invoice.  The notice to the shop   *)
(* may have been lost (AlertShop).                                           *)
Settled(s) == Credited(s) \/ (s \in refused /\ AmountDue(invoice[session[s].inv]) <= 0)

(* Stripe has given an event up.                                             *)
GivenUp(e) == e \notin owed /\ log[e] # "processed"

(* Type correctness. *)
TypeOK ==
  /\ invoice \in [Invoices -> Rows]
  /\ payments \in [Invoices -> SUBSET PaymentRows]
  /\ fees \subseteq Sessions /\ refused \subseteq Sessions
  /\ unbooked \subseteq Sessions \X {"unread", "unwritten"}
  /\ session \in [Sessions -> CheckoutSessions]
  /\ attempt \in [Sessions -> {"none", "OPEN", "COMPLETE", "EXPIRED"}]
  /\ created \in [Sessions -> Nat]
  /\ owed \subseteq Events
  /\ log \in [Events -> {"none", "processing", "processed", "ignored", "failed"}]
  /\ account \in Accounts
  /\ job \in [Workers -> Jobs]
  /\ faults \in 0 .. MaxFaults

(* One PaymentIntent is credited at most once, however its two events, their *)
(* redeliveries, the sweep, the landing page and the guard overlap, and      *)
(* wherever one of them dies (the C2 unique index, the duplicate precheck).  *)
CreditedOnce ==
  \A i, j \in Invoices : \A p \in payments[i], q \in payments[j] :
    p.pi = q.pi /\ p.pi # Manual => i = j /\ p = q

(* Every Stripe payment in the ledger is money Stripe took, for that invoice *)
(* and of that amount.                                                       *)
CreditIsBacked ==
  \A i \in Invoices : \A p \in payments[i] :
    p.pi # Manual => /\ session[p.pi].at = "paid"
                     /\ session[p.pi].inv = i
                     /\ session[p.pi].amount = p.amount

(* A refused or skipped charge is never booked as a platform fee.            *)
FeeHasPayment == \A s \in fees : Credited(s)

(* An attempt is written off as EXPIRED only when Stripe will not take money *)
(* for it any more, even when the customer pays while staff expire it.  Set  *)
(* apart by Faults: Stripe answering that it does not know the session, which *)
(* the code takes for the end of it (stripe_reconcile.py:143).               *)
ExpiredMeansNoMoney == \A s \in Sessions : attempt[s] = "EXPIRED" => session[s].at = "expired"

(* 'recorded' (session was paid; payment ensured in DB): a COMPLETE attempt  *)
(* has its payment, or its invoice was paid for already.  Set apart by Ops:  *)
(* a deleted invoice and another Connect account, for which the attempt is   *)
(* closed with nothing recorded (stripe_reconcile.py:158).                   *)
CompleteMeansSettled == \A s \in Sessions : attempt[s] = "COMPLETE" => Settled(s)

(* An event is closed, and never processed again, only when its money is in  *)
(* the books or its invoice was paid for already.  Set apart by Ops: a       *)
(* deleted invoice and another Connect account, as above.                    *)
ClosedEventIsSettled ==
  \A e \in Events : log[e] \in {"processed", "ignored"} => Settled(e.s)

(* A Stripe payment arriving for a fully-paid invoice is never recorded.     *)
NeverCreditAgain ==
  [][\A i \in Invoices :
       invoice[i].status = "PAID"
         => {p \in payments'[i] : p.pi # Manual} = {p \in payments[i] : p.pi # Manual}]_vars

(* A process that goes on sweeping verifies every OPEN attempt it listed,    *)
(* whatever Stripe answers for the others or if it does not: only an         *)
(* exception out of recording a payment ends the loop early.  (The database  *)
(* raises one, and so does a charge on an invoice that was voided or deleted *)
(* meanwhile; a process that dies ends it too, and is not in the run.)       *)
SweepReachesAll ==
  [][\A w \in Workers :
       job[w].kind = "sweep" /\ job'[w] = Idle => job[w].todo = {} \/ job[w].at = "insert"]_vars

(* The platform fee of a credited payment is recorded in the end, unless the *)
(* invoice was paid twice and this money was set aside as well, writing the  *)
(* fee failed (it is not tried again), or it could not be read from Stripe   *)
(* and the event that carries it never got through.                          *)
FeeFollows ==
  \A s \in Sessions :
    Credited(s) ~> \/ s \in fees \cup refused
                   \/ <<s, "unwritten">> \in unbooked
                   \/ <<s, "unread">> \in unbooked /\ GivenUp([s |-> s, type |-> "intent"])

(* The promise to the shop, of which this module is an implementation.       *)
Money == INSTANCE OnlineMoney
  WITH charged <- {s \in Sessions : session[s].at = "paid"},
       credits <- [s \in Sessions |-> Cardinality(CreditRows(s))],
       refused <- refused

(* What customers pay online reaches the books as OnlineMoney says: once and *)
(* never without a charge ...                                                *)
MoneyIsSafe == Money!Init /\ [][Money!Next]_(Money!books)

(* ... and in the end.                                                       *)
MoneyReachesTheBooks == Money!Spec
=============================================================================
