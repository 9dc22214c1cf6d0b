# Verification of RS Systems

RS Systems (`src/`) is a multi-tenant Django application for auto-glass repair
shops: jobs, scheduling, customer approvals, quotes, invoices, online payment
through Stripe Connect, the shops' own subscriptions, and a loyalty programme.
Views run in autocommit (`ATOMIC_REQUESTS` is not set), several web workers serve
requests at once, cron jobs work on the same rows and are not excluded from each
other, and Stripe calls back whenever it likes.  This directory holds TLA+ models
of the parts where those actors meet, the TLC configurations that check them, and
TLAPS proofs about them.

## 1. The system

| Part | State it keeps | Operations | Interacts with | What is hard, what makes it correct |
|---|---|---|---|---|
| Invoice ledger (`apps/billing/models.py`) | `Invoice` row (status, total, amount_paid, paid_at, due_date, deleted_at), `Payment` rows | payment saved / deleted → recompute under `SELECT FOR UPDATE`; `update_status`, `cancel`, `mark_sent`, `record_email_sent` | every handler below | rows held in memory across an email or a Stripe call and saved later; amount_paid must equal the payments, PAID must mean covered, void must be final, nobody pays more than the total |
| Invoice handlers (`apps/saas/views.py`, `apps/billing/views.py`, `admin.py`, `tasks.py`, technician views) | none of their own | record payment, bulk mark-as-paid, void, cancel, email, edit lines or due date, soft-delete, restore, overdue sweep | ledger | check-then-act on stale reads; sequences of legal calls |
| Online payments (`stripe_service.py`, `stripe_reconcile.py`, `webhook_log.py`, `connect_service.py`, `rs_systems/views.py`) | `StripeCheckoutAttempt`, `StripeWebhookEvent`, `PlatformFeeRecord`; Stripe's sessions | pay page, two webhook events, event log, 15-minute sweep, landing page, guard before manual payments | ledger; Stripe | duplicated, lost, late and overlapping notifications, crashes, Stripe down; money credited once, for what was charged, and in the end |
| Invoice creation, numbering, purge (`invoice_tracking_service.py`, `auto_invoice_service.py`, `tasks.py`, `purge_deleted_records.py`) | line items, `next_invoice_number`, deleted_at | bill chosen jobs, a ticket, a batch overnight; number; send; void, delete, restore, purge | ledger, jobs | a check made before the transaction it protects; numbers of a transaction that dies; lists that are old when they are deleted from |
| Quotes (`quote_models.py`, `quote_service.py`, quote views) | `Quote` (status, valid_until, supersedes) | write, edit, send, revise, delete; accept, decline, expire | jobs | the customer answers while the shop works on the quote; jobs once, a revision replaces what it revises |
| Subscriptions (`apps/tenants`) | `Tenant.subscription_*`, watermark, grace dates | Stripe's events, hourly reconcile, checkout, cancel, resume; access middleware | `webhook_log`; Stripe | events out of order, an old subscription's deletion, countdowns that must not restart |
| Jobs (`apps/technician_portal`) | `Repair` (`queue_status`), `UnitRepairCount`, batches | create, assign, start, complete, batch, delete, restore; `Repair.save` | customer portal, loyalty, invoices | full-row saves of stale copies, a counter committed before the row, hooks after the commit |
| Customer portal (`apps/customer_portal`) | `ApprovalToken` | approve, deny, by page or by e-mailed link | jobs | one decision per e-mail however many links are clicked |
| Loyalty (`apps/rewards_referrals`) | `Reward.points` beside the `PointTransaction` ledger, `RewardRedemption`, `Referral` | award, redeem, apply, fulfil, cancel, adjust, refer, expire, `--fix` | jobs | cached balance equals ledger, nothing spent, refunded, paid or expired twice; deadlocks |
| Schedule, dispatch, assignment (`schedule_booking.py`, `schedule_swap.py`, `dispatch.py`, `assignment_service.py`, `quick_job.py`, portal requests) | technician, `needs_assignment`, `scheduled_for` with its window's end, of every repair | request, create, auto-assign, accept; book, dispatch, swap; edit, assign, reassign, bulk updates | jobs, customer portal, quotes | locks on several rows, a visit of several rows that moves as one, full-row saves of stale copies, a rotation that must not anchor on itself |
| Sending, reminders, SES | delivery status, reminder tier | send, remind, delivery events | ledger | out-of-order SES events, a reminder sent twice after a crash |
| Claims; team, signup, usage | `Claim`; memberships, counters | insurer payments; invite, accept | ledger; subscriptions | limits checked before they are taken |
| Pricing, notifications, support, security, branding | prices, logs, templates | pure computation, best-effort I/O | all | — |

`PROJECT.json` lists every part with its source files and status, and every
hazard with its line and the properties that would catch it.

## 2. The modules

| Module | What it is |
|---|---|
| `InvoiceLedger` | The pure rules of the ledger: `PaySum`, `UpdateStatus`, `AfterPaymentSaved`, `AfterPaymentDeleted`, `CanMarkOverdue`, `StatusAfterEmail`.  No state. |
| `InvoiceDesk` | One invoice and its payments under all the shop's handlers.  A request *begins* (reads the row, applies the view's checks to that copy), holds the copy, and *writes* later, exactly the columns the code writes: a locked fresh row (`RecordPayment`), named columns (`Void`, `EmailSent`, `EditTotal`, `EditDue`) or the whole stale row (`Cancel`, `MarkSent`).  Queryset updates and single transactions are one step. |
| `StripePayments` | Customers, Stripe (external), webhooks, event log, attempts, sweep, landing page, guard, fee record.  A worker's `job` advances one statement, transaction or Stripe call at a time: `sync` → `expire` → `read` → `check` → `insert` / `alert` → `fee` → `mark` / `close`. |
| `OnlineMoney` | What the shop is promised: a charge is entered at most once, nothing is entered that was not charged, every charge is in the end entered or set aside because its invoice was paid.  `StripePayments` implements it. |
| `TenantSubscription` | One shop's subscription columns.  Stripe changes subscriptions and owes events; a handler reads the row, decides on that copy and saves the columns it names (`Deliver`, `Save`, `Close`); the sweep reads, asks Stripe, applies (`SweepReads`, `SweepFetches`, `SweepApplies`); the owner checks out, cancels, resumes.  `Access` is the middleware. |
| `JobBoard` | The repairs of one vehicle.  A staff request takes copies of rows, may price (`Price` commits the counter on its own), saves every column (`SaveJob`, or `Commit` for a batch in one transaction) and runs the hooks (`RunHooks`).  The customer's answers (`CustomerAnswers`, `FollowLink`) lock and look again.  A price is its tier, the repair's number on the vehicle. |
| `Loyalty` | The points of the customers of one shop.  `Award` is `award_points`: balance and ledger row in one transaction under the lock of the Reward row.  A completion goes through `Settle` → `Earn` → `EarnMilestone` → `OpenPayout` → `LockReward`… → `CommitPayout`; redemptions are held as copies and saved later, but for the cancellation, which locks. |
| `JobBilling` | How finished jobs come onto invoices.  A request is checked (`Pick`, `Ticket`, `Send`), gets a number (`Allocate`), inserts the invoice (`Create`) and may mail it (`Deliver`, `MarkSent`); the batch lists, opens a transaction that holds the counter's lock, mails and commits; staff void, delete, restore, renumber; the purge lists and deletes. |
| `Quotes` | Quotes and their revisions.  Edits, sends, deletions and the customer's page view act on the copy they read; answers and revisions lock the row and look again and are one step each. |
| `ShopSchedule` | Who does the repairs of a shop and when.  A customer's request inserts its rows (`Insert`), asks the strategy job by job (`Select`, `Apply`: one column) and accepts with a full save of the rows as created (`Accept`).  `Lock` → `Acquire`… → `Confirm` / `ApplyDispatch` / `TradePlaces` / `SaveBulk` are the transactions that take several row locks, one by one; `Read` → `Save` the screens that save one row. |
| `*_proofs` | The theorems about `InvoiceDesk`, `StripePayments`, `TenantSubscription`, `JobBoard`, `Loyalty`, `JobBilling`, `Quotes` and `ShopSchedule`, each beside its model. |
| `MC_*` | Model values, bounds and symmetry for TLC. |

Every model meets the others at the database: `InvoiceDesk` takes the invoices
that `JobBilling` makes; `StripePayments` has the ledger's rules for payments
(`InvoiceLedger`); `JobBoard`'s completions are the jobs `JobBilling` and `Loyalty`
start from, `Quotes`' acceptance creates them, and `ShopSchedule` moves them.  They are checked apart: the
rows one of them writes and another guards on are the interface, and each module
lets the other's part happen at any time.

Correspondence.  `Ops` and `Faults` switch operations and faults on, so that a
run states under which of them a property holds; the actions are the same in
every run.  Variables called *history* (`history`, `stale`, `paidFor`, `awarded`,
`spent`, `apart`, `uneven`, `refused`, `unbooked`, and the fields `revived`, `added`, `saw`, `moved` of `JobBilling`) are not
in the code; they let a property set apart what the code does not protect against,
and no guard but TLC's bounds reads them.  Definitions named *Mutant* are plausible
bugs of the code; none is part of a specification.  Data is abstract: money is a
small number, customers, e-mails and texts do not appear, and calendars are day
counters or classes.  Each mapped definition's source lines are in `PROJECT.json`.

What the code does that a reader may not expect, and the models keep:
- `Payment.delete` is the only code that demotes PAID; it looks for the invoice
  through the manager that hides deleted rows, and returns if there is none.
- An event whose invoice is not found is logged `processed` and answered 400.
- The duplicate precheck asks the database; the already-paid check asks the row
  read at the start of the handler.
- A charge on a paid invoice is set aside (`refused`); the notice to the shop is best
  effort, and the event and the attempt are closed with or without it, so that
  `AlertShop` is one step for both outcomes.
- The sweep, the landing page and the guard record a payment without its fee when
  the PaymentIntent cannot be read (`feeKnown`), and close the attempt.
- `Repair.save` compares with the status its copy was loaded with; deleting and
  restoring write `deleted_at` only, and rebuild the counter for a completed repair.
- `TenantSubscription`: the event order is a watermark on the row, for events of
  all kinds, `invoice.*` included, and read without a lock.
- A loyalty award is silently skipped while the programme is off, its referral
  marked AWARDED all the same.
- Restoring a job restores every deleted invoice it is on.
- The technician of a queued repair is a placeholder (the column is not null): it
  has no turn in the rotation, but counts as load.
- Bookings lock what they write, yet compare with the time the screen showed; the
  saves of other screens wait for the locks and then write what they had read.
- `revise_quote` leaves a declined quote DECLINED; drafts can be accepted.

## 3. The runs

| Run | Instance | Shows |
|---|---|---|
| `desk_status` | 2 requests, 3 payment ids, amounts {1,2}, totals {0,1,2}; without emails, total edits, bulk mark-as-paid and trash | amount_paid is the sum of the payments; PAID ⇔ a total above zero is covered ⇔ paid_at; no overpayment; void is final |
| `desk_serial` | 1 request at a time, all 15 operations | no order of complete requests leaves PAID on a short invoice |
| `stripe_race` | 2 workers, 1 session, 2 accounts, 1 fault of any kind, all shop operations | credits backed by the charge; the safety half of the refinement of `OnlineMoney` |
| `stripe_sessions` | 1 worker, 2 sessions on one invoice, 1 fault (lost event, database, Stripe down), a manual payment, the invoice voided or deleted | attempts written off only when dead; a paid invoice is not credited again; a sweep ends its list, unless recording a payment raises |
| `stripe_live` | 2 workers, 1 session, 2 faults (crash, database, fee record, Stripe down, lost event), a bulk mark-as-paid, fair | attempts and events closed only when settled; the whole refinement, liveness included; the fee follows the payment |
| `sub_follow` | 1 handler overlapping the sweep, 2 subscriptions, 2 plans, 2 changes, 1 fault, all operations, fair | a paid plan was paid; the row comes to say what Stripe says and stays so |
| `sub_serial` | 1 process, handler or sweep, 2 subscriptions, 1 plan, 4 changes, failed payments, ends and cancellations, fair | grace and overdue countdowns never restart; an ended former subscription included, the row follows, and a paid-up shop gets in unless it is to end and an earlier lapse's grace runs |
| `job_board` | 2 workers, 2 repairs, apart or one batch, 2 e-mails, 1 disturbance | completion is final, counted once, priced at a tier of its own, awarded once; an e-mail decides once |
| `loyalty` | 2 workers; 2 jobs of one company and 1 of another, or a redemption; up to 4 ledger rows; 1 disturbance | balance equals ledger, never negative; refunds, referrals and expiries once |
| `job_billing` | 2 workers, 2 breaks of a batch, 2 invoices, 3 numbers, 3 steps of the restore window, 1 crash or renumbering | billed once; numbers free; SENT was mailed; the purge spares what stands and what can be restored |
| `quotes` | 2 requests, 3 quotes, 2 days, 1 unseen overwrite | jobs once and exactly when accepted; what was revised is replaced, once, or was declined |
| `schedule` | 2 workers, 2 technicians, 4 jobs, 4 requests, 2 start times, manual or rotating, all operations, 1 crash | a visit stays together; bookings and swaps do not deadlock; a rotating shop is even |

Bounds.  Two requests or workers are the smallest number that overlap, and every
code path here that is protected at all is protected by a row lock, a unique
index or a re-read, whose violation needs two.  Three payment ids let two
concurrent payments follow or precede a deletion; amounts 1 and 2 against totals
1 and 2 give part payment, full payment and refused overpayment.  One session
already has two events, unlimited redeliveries, a sweep, a landing page and a
guard; two sessions on one invoice give the double payment; two subscriptions
give the old one whose events arrive after the new one's.  Four changes (`sub_serial`)
let the first end, or be canceled, with the second one paid; with overlaps and losses
two are what finishes (`sub_follow`).  Two repairs are what a
tier can be shared by, three quotes are a revision of a revision, two invoices
what a job can be billed on, three days the window, its last day and past it.
Two transactions over two rows are the smallest deadlock; four jobs for two
technicians are a rotation that comes round twice.
`MaxFaults`, `MaxCrashes` bound crashes and outages; one is enough to hit each step.

The larger models have a `Bounds` constraint (`ShopOrWorkers` for `stripe_race`) in their MC module, which says
which disturbances are explored together.  It cuts behaviours, not actions: each
disturbance (a crash, a stale save, a recount, a racing `--fix`, a renumbering, a
rejected reward fulfilled, a voided or deleted invoice, another account) is explored on its own with everything else, two in one
history are not.  `CHECK_DEADLOCK FALSE` is set everywhere: ids, days and changes
are finite, so the modelled shop may come to the end of what it can do.  Symmetry is
used for safety only, over workers, and over jobs or sessions where they are
interchangeable.

Fairness.  `StripePayments`: `Work(w)` is weakly fair (a running process goes on to
its next statement, no step of a job waits for another); `Deliver` of an event
Stripe has no 2xx for is strongly fair, per event (Stripe redelivers on its
backoff, although a given moment may find all workers busy); `StartSweep` is
strongly fair (cron starts it every 15 minutes,
`.ebextensions/13_stripe_reconcile_cron.config`).  `TenantSubscription`: weak
fairness of some delivery, of the hourly sweep, and of every running process.
Faults have no fairness and are finite, so outages end.  Two assumptions go beyond
the code: the outage is shorter than the sweep's seven-day window, and customers'
and owners' choices are not fair.  Nothing is claimed of the nightly batch, the
overdue sweep and the expiry of points: their cron entries are commented out
(`.ebextensions/11_billing_cron.config`), so `JobBilling`, `Loyalty`, `JobBoard`,
`Quotes` and `ShopSchedule` state safety only.

## 4. What is proved

All with TLAPS, for every value of the constants that the named assumption allows.

About `InvoiceDesk`, from `DeskAssumption`:

- `TypeCorrect`: `Spec => []TypeOK`.  The invariant `TypeInv` adds to `TypeOK`
  that the set of payments is finite (needed to speak of its sum), that a
  request that will write holds a row, and that a held bulk mark-as-paid has a
  balance to pay.
- `LedgerCorrect`: `Ops \subseteq RecomputingOps => (Spec => []LedgerConsistent)`.
  The invariant `LedgerInv` is `TypeInv /\ ~invoice.deleted /\ LedgerConsistent`
  (a recompute does not find a deleted row): every operation of that set
  either recomputes amount_paid from the payments it leaves, or does not touch
  either.  `cancel` and `mark_sent` (whole stale rows), `delete_payments` (two
  commits) and soft-deletion are outside (section 5).
- `NoOverpaymentUnderLock`: `Ops \subseteq LockedOps => (Spec => []NoOverpayment)`.
  The ledger invariant turns `amount <= AmountDue(invoice)` into a bound on the
  payments; without it the check under the lock would compare with a number that
  means nothing.
- `PaidExactlyWhenCovered` and `VoidStays`, for `StatusOps`: PAID, paid_at and
  *covered* agree on every invoice over more than nothing, an invoice over nothing
  is never PAID, and a void is final.  The invariant adds what the held rows of
  requests in flight may say, that the total stands in them (`TotalStands`), and
  that no payment is taken, or about to be, for an invoice over nothing
  (`NothingForFree`).
- `PaidIsCovered`: with one request at a time, whatever the operations and their
  order, `PaidMeansCovered`.  The invariant `SerialInv` adds that a request holds
  the row that is in the database, and that this row still passes its checks.
- `PaySumRemove`, `PaySumAdd`: `SUM(amount)` over any finite set of payments.  The
  community module's `MapThenSumSet` is a fold with `CHOOSE`; the lemmas before
  them show that the chosen order does not matter, by a least-cardinality argument
  (the library's induction theorems take an operator parameter, which the provers
  cannot instantiate).  `StripePayments_proofs` and `Loyalty_proofs` argue likewise
  for the sums they need.

About `StripePayments`, from `StripeAssumption`, for any sets of workers, invoices,
sessions and accounts, any number of faults, and every operation of the shop
unless a theorem says otherwise:

- `TypeCorrect`: `Spec => []TypeOK`.  `TypeInv` adds what a job knows of its
  session: from `read` on, the session was paid (`PastSync`), and a session that
  was begun has an invoice and a positive amount.  `SessionsStep` is the lemma that
  carries it: no step touches a session that was paid or has expired.
- `CreditsAreBacked` and `CreditedAtMostOnce`.  The invariant `CreditInv` says that
  every Stripe row matches its paid session and is the only one of its invoice for
  it; the two parts need each other to exclude a second row on *another* invoice.
  `BookingStep` reduces every step to the three ways the books can change.
- `ExpiredIsFinal`, unless Stripe answers that it does not know the session: an
  attempt is written off only for a session that Stripe has expired
  (`AttemptWrites` lists the writers).
- `FeesAreForPayments`, unless invoices may be deleted.  A worker at the fee stage
  has its payment; `LateWork` lists the ways past the recording path.
- `CompleteIsSettled` and `ClosedIsSettled`, unless invoices may be deleted or the
  account may change (section 5): a worker past the recording path has seen its
  money entered, or set it aside.  `AsideInv` adds that what was set aside belongs to
  an invoice that other payments cover, and that this stays so.  Neither says that
  the shop was told: the notice is best effort (section 5).
- `SweepDoesItsList` (an action property), unless processes are killed: whatever
  Stripe answers and the shop does, the sweep leaves its list at its end or out of
  the insert of a payment, by the database's exception or that of a voided or
  deleted invoice.
- `PaidIsNotCredited` (an action property), with one process at a time and no bulk
  mark-as-paid, which are the two conditions of `stripe_sessions`.  `PaidInv` says
  that a worker past the already-paid check still sees the invoice unpaid.
- `BooksRefineMoney`: the safety half of the refinement of `OnlineMoney`.  With
  `CreditInv`, the number of rows of a session is 0 or 1 (`CreditCount`), and each
  step charges, credits or refuses one session or does none of it (`MoneyMoves`).

About `TenantSubscription`, from `BoundsAssumption`:

- `TypeCorrect`, `PlansArePaid`.  `PaidPlanWasPaid` is not inductive: `PlanInv`
  adds that what Stripe has, what its events carry and what each job is about to
  save is a plan Stripe has confirmed as paid for that subscription, and that the
  stored subscription is one the shop took out.
- `CountdownHolds` (an action property): `CountdownInv` says that a handler which
  read a row without a countdown saves before a later one has run out.
- `GraceHolds` (an action property), with one process at a time (`OneWorker`): a
  handler on an old copy can restart the grace period, so the condition is needed.
  `GraceInv` adds to the types that what a worker holds of the grace dates is what
  the row says.

About `Quotes`, from `BoundAssumption`:

- `TypeCorrect`, `JobsCreatedOnce`, `RevisionsReplace`, for any number of requests
  and revisions.  They are proved together: `IInv` adds that a request that will
  edit, send or delete holds a row that was open (`CopiesOpen`), and that what an
  edit holds of the chain is what stands or was cut by a deletion (`CopiesChained`).
  `RevisionsReplace` is of `OneOfferStands`, and says no more than that: revisions of
  a declined quote, and of one overwritten unseen, may stand beside each other
  (section 5).

About `ShopSchedule`, from `ScheduleAssumption`, for any numbers of workers and jobs:

- `BookingsNeverDeadlockHolds`.  `LockInv` says that a row is locked by one
  transaction, and that a booking or a swap holds only keys below the one it asks
  for.  In a circle of such transactions the one that asks for the greatest key
  (`GreatestExists`, from the well-foundedness of the naturals) would wait for one
  that asks for a greater.  Dispatches and bulk saves, which do not lock in that
  order, may take part in any way: the theorem says that no circle is without one.
- `VisitsStayTogether`.  `VisitInv` adds that jobs are numbered as they come, that
  the first job of a visit exists, and what a request relies on from one of its
  steps to the next (`Keeps`): its jobs exist, and a booking or a dispatch has the
  whole visit.  `RowsMove` reduces every write to three cases: a whole visit alike,
  no change of the time, or a visit noted as apart; `VisitComes` is for insertions.
- `RotationIsEven`.  `RotationEven` says nothing of whose turn it is; `Fair` does:
  the technicians up to the one who was given the last job have one more than those
  after him (`EvenTo`), a request between its steps has the technician whose turn
  it still is (`Turn`), at most one request brings a job, and neither a row nor a
  copy of one is queued, so that the rotation overlooks no job.  `EvenGives` is the
  arithmetic of one job more; every other write keeps the technicians, or is noted
  in `uneven` (`WritesRest`, `SavesRestFair`).

- `ScheduleTyped`.  `TypeOK` is not inductive: that the rotation names a technician
  needs the newest given job to be a row, that a screen's copy may be edited needs
  that copy to be of a job that existed, and the next key to lock is one of the
  visit because the visit is not empty.  It is proved together with `VisitInv`,
  which says so.

About `JobBilling`, from `BoundAssumption`, for any jobs, batches and workers:

- `BillingTyped`, `JobsBilledOnce`, `NumbersAreFree`, `SentMeansMailed`, and the
  action properties `BilledLinesStay` and `RestorableIsKept`.  They share
  `BillingInv == Types /\ Billed /\ Numbered /\ Mailed /\ Listed`: what a request
  checked still holds of the invoices it saw (`Billed`); the number it holds is free,
  held by no other, and on the right side of the counter (`Numbered`); what it is
  about to mark SENT is mailed (`Mailed`); what the purge listed is old enough, gone
  or back (`Listed`).  Every part rests on `Types`, which also says that one
  transaction at a time holds the counter's lock.

About `JobBoard`, from `BoardAssumption`, for any repairs, workers and bounds:

- `BoardTyped`.  `Fits` says which fields a request carries at which step.
- `CompletedStays` (an action property) and `LinksDecideOnce`.  `LinkInv` adds that
  no link was issued under a number still to come: a new pair is new.
- `PointsEarnedOnce`.  A request that completed a repair owes its points until it has
  run the hooks (`Owes`); `Pointed` says of each repair that it is awarded, or owed
  by one request, or neither because it is not completed or a process died.
- `TiersDiffer`.  `Tiered` counts the tiers that requests have drawn and not yet saved
  (`Drawn`) with those on the rows (`HasTier`): all differ, and none is above the
  counter.
- `CounterFollows`.  `Counted` says what one request alone may rely on at each of its
  steps (`Fresh`): its copies are the rows, and the counter is the number of
  completed repairs, one more between the count and the save.

About `Loyalty`, from `LoyaltyAssumption`, for any customers, jobs and workers:

- `LoyaltyTyped`.  `Types` adds to `TypeOK` that the rows an expiry has listed are
  still due (`OneExpiry`), that the redemptions a request holds exist, and that the
  one a cancellation has locked is PENDING and in nobody else's hands (`Redeemed`).
- `BalanceFollows`, `BalanceNatural`.  `Balanced` reads the ledger entry by entry:
  each running balance is the one before it moved by its entry (`Runs`), and the
  cached balance is the last.  `Moves` says that a step leaves a customer's ledger alone or
  appends one entry and moves the balance with it.
- `EntriesExpireOnce`.  `Repaid`: what the expired entries of a customer brought is
  at least what the expiry has taken, entries counted by sums over finite sets.
- `RefundsOnce`.  `Refunded`: each redemption is `Settled` (paid for once, and refunded
  once exactly if it is REJECTED), and the copies under way are of redemptions that
  are not rejected and will not make them so (`Sound`).
- `ReferralsPayOnce`.  `Referred`: a customer has one payout transaction at a time
  (`OnePayout`), the referrals it is about are PENDING and it locks and pays what
  they call for (`Pays`), and each pair has its bonus and its welcome once (`Owed`).

Every invariant and every action property that a passing run checks is stated by a
theorem.  Only model-checked is liveness (`FeeFollows`, `RowFollowsStripe`,
`PaidUpGetsIn`, and the liveness half of `MoneyReachesTheBooks`), which is out of the
prover's reach: it does not prove fairness arguments, and knows nothing of ENABLED.
The type invariants, `CreditedOnce` and `FeeHasPayment` are proved and not checked
again by a run where a theorem states them.

A theorem with a condition (a subset of the operations, one process at a time, no
invoice deleted) has that of the run which checks its property, or a weaker one, and
section 5 lists the behaviour that makes it necessary.

## 5. Known deviations

Met while modelling.  The properties of the passing runs of section 3 hold as they
are stated; these are the cases their conditions, operation sets or history variables
set apart.

Invoices and payments:
- An overdue PARTIAL invoice can be voided with its payments: the sweep
  (tasks.py:63) hides PARTIAL from the guard (saas/views.py:5543), against the
  comments at saas/views.py:5535 and billing/views.py:704.
- `Invoice.cancel()` and `mark_sent()` save the whole row they were called on
  (models.py:805): a payment recorded meanwhile is lost from amount_paid.
- `record_email_sent` (models.py:771) writes the status held since before the
  e-mail over PAID or CANCELLED.
- Bulk mark-as-paid reads the balance without the lock (saas/views.py:5372);
  it, `owner_receive_payment`, the technician's payment form and the admin's action
  do not call `guard_manual_payment`.
- A payment deleted while its invoice is in the trash leaves it PAID (models.py:1053).
- An invoice over nothing (a reward that takes all of it, every line removed) is
  never PAID although nothing is owed: no payment is taken for it, and only a payment
  makes `update_status` look.  The models have it (`Totals` starts at 0), and
  `PaidIffCovered` speaks of totals above zero.
- A line edit that moves the total down to amount_paid leaves the invoice PARTIAL.
- The admin's bulk delete (admin.py:488) commits each DELETE before the recompute:
  a crash in between leaves amount_paid wrong.
- `sync_attempt` closes an attempt as COMPLETE for a deleted invoice, or another
  Connect account, with nothing recorded (stripe_reconcile.py:158, although its
  docstring says "payment ensured in DB"); the webhook likewise marks the event.  A session that Stripe does
  not know on the account is written off as EXPIRED (stripe_reconcile.py:143).
- When the notice about a charge on a paid invoice gets out neither in the portal nor
  by e-mail, or has no recipient, the failure is logged and the event or attempt
  closed: the money is neither entered nor reported (stripe_service.py:653-708,
  against the comment at stripe_service.py:555).
- When the PaymentIntent cannot be read, the sweep, the landing page and the guard
  record the payment without its fee (stripe_reconcile.py:89) and close the attempt;
  if the intent event is lost too, the fee is never recorded.  A fee whose write
  failed is not tried again either (stripe_service.py:498).
- The guard lists pending sessions once
  (stripe_reconcile.py:212): one opened meanwhile stays open.  A charge on a voided
  invoice raises for ever and the shop is never told
  (invoice_tracking_service.py:351, against
  docs/strategy/BILLING_RELIABILITY_PLAN.md:5), and ends the sweep's loop, as any
  exception out of the recording does.
- Two payments recorded at once both pass the already-paid check
  (stripe_service.py:557).

Billing of jobs:
- "Cannot bill the same repair twice" (invoice_tracking_service.py:100) is checked
  before the transaction: overlapping requests bill twice, and the nightly batch
  never looks again.  Serially: delete an invoice, bill its jobs again, restore it
  (repairs.py:1642).  The ticket button adds breaks that another invoice bills
  (saas/views.py:5679) and, saving the invoice as it read it, un-voids it.
- Restoring a job restores every invoice of it, however long deleted; a purge that
  had listed such an invoice deletes it while it is in force.  The purge also takes
  a purged job's line from a younger deleted invoice, which comes back without it.
- The batch mails inside its transaction: if it dies, the number goes back, and
  the customer holds one that another invoice will get.  It keeps the counter
  locked while it mails.
- An owner who moves the counter back makes one creation in flight fail.

Quotes:
- A send or an edit in flight writes SENT or DRAFT over an answer or a revision:
  jobs can be created twice (against quote_service.py:178) or two offers stand; a
  sent quote can become a DRAFT and be deleted.
- A deletion that saw a draft deletes the quote although it was sent meanwhile
  (saas/quote_views.py:489, against quote_models.py:28).
- A declined quote can be revised repeatedly, and every clone sent and accepted: the
  customer can hold several open offers for the same work.
- A quote edited between the customer's view and click is accepted at a price the
  customer has not seen.  A send that dies after the e-mail leaves a DRAFT, which
  the customer can accept and the shop delete.  `public_quote_view` stamps EXPIRED
  a quote whose date was extended meanwhile.

Subscriptions:
- While the sweep fetches an old canceled subscription, a shop whose newer one is
  paid can stay locked out until its events come (subscription_reconcile.py:221).
- `customer.subscription.deleted` of an old subscription falls back to the customer
  id and expires the shop until the next sweep (webhooks.py:470).  The grace period
  it starts is cleared when the sweep finds the new subscription active, but kept
  when that one is to end with its period (subscription_reconcile.py:188): the shop
  is read-only for up to thirty days that it has paid for (against
  subscription_service.py:404 and the comment at subscription_reconcile.py:172).
- Overlapping handlers can save an older state and lower the watermark until the
  next sweep.  A `past_due` that arrives through `apply_subscription_state` starts
  no countdown, `active` does not clear one.  `check_trial_expiry` has no caller.

Jobs:
- Overlapping full-row saves reopen a COMPLETED repair, overwrite the customer's
  denial, take a repair out of the trash, count or award twice.  A crash between
  the increment and the save overcounts, before the hooks loses the points.
- A rebuild forgets new windshields, and one that races a completion loses it.
- An e-mailed link decides one break of a batch; an old pair stays valid for a
  later PENDING round.  Quick approve and deny lock in opposite orders.

Loyalty:
- A REJECTED redemption can be applied and fulfilled (technician_portal/views/
  rewards.py:113 does not ask for the status); a stale save over a cancellation
  makes a refunded redemption PENDING, so that it is refunded again.
- `--fix` writes a sum it read before the balance: a concurrent award is lost from
  the cache.
- The milestone is counted after the award: two completions at once skip it or pay
  it twice.  Referrals are marked AWARDED while the programme is off.  Mutual
  referrals can deadlock; the victim's referrals stay PENDING until its next job.
- A `Referral` is kept for a code and a portal user and checked for before it is
  created, without a constraint (services.py:517): a pair of companies can have
  several, and the referrer is paid for each.  The model has one for a pair.
- A redemption on the portal saves the row it created again, unlocked, with the
  customer's wishes (views.py:520) and with its technician (services.py:921): a copy
  like that of the fulfilment page's claim, by which the model represents both.
- Expiry takes the whole earned amount, spent or not; two runs at once expire the
  same rows twice (one run at a time is assumed).  Refunds and positive adjustments
  expire, against the comment at expire_loyalty_points.py:118.

Schedule:
- A dispatch locks the row that was clicked before the others of the visit
  (dispatch.py:176), against the comment under it (dispatch.py:183): two dispatches
  of one visit, or one and a booking, can deadlock.  The bulk updates save in the
  order of the service date.
- `assign_repair` and the other reassignments, when they name the placeholder of a
  queued repair, leave it in the queue; the dispatch board alone takes that as a
  choice, and looks at the clicked row only.
- The breaks of one portal request are assigned one after the other, with those
  still to come counted as given out: under round robin they can go to different
  technicians, and turns are skipped.
- The job form moves a booked start without the window's end, one break of a visit
  without the others, and overwrites what was booked since it was opened.  The
  automatic acceptance does the same to a booking made since the creation.
- A process that dies between the creation and the assignment of a request leaves
  a placeholder that is not flagged.

## 6. Not modelled, and the plan

Not modelled in the parts above: line items, tax and discounts (a total is a
number), payment details and payouts, Connect onboarding, refunds of payments (the
code has none), the sweep's seven-day window, async payment methods of invoices;
`skip_invoicing`, deletion of customers; quote lines, totals, numbers and the plan
limit; trial reminders, the admin's activate and deactivate buttons; photos,
conversion to a batch, link expiry (a link never followed has no effect), the
amounts of prices; reward options with different costs; replacements on the schedule
(the same code with other lock keys), deactivated technicians and abilities,
conflict warnings.

Not modelled at all: claims, reminders and SES events, team and seats, pricing, and
the parts that are I/O, forms or rendering (`PROJECT.json` names each with its
reason).

Plan, most important first:
1. The theorems under one process at a time with less than that: `GraceHolds` for
   handlers of different shops' events, `PaidIsNotCredited` for workers on different
   invoices.
2. Claims (status from insurer payments), reminders and SES events.
