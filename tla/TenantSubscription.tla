------------------------- MODULE TenantSubscription -------------------------
(***************************************************************************)
(* The subscription of one shop (apps/tenants): Stripe changes the shop's  *)
(* subscriptions and reports the changes as events, which arrive late,     *)
(* repeatedly, in any order or never; webhook handlers write them onto the *)
(* Tenant row; the hourly sweep asks Stripe and repairs the row; the owner *)
(* cancels and resumes; the middleware derives the shop's access from it.  *)
(*                                                                         *)
(* A handler reads the row without a lock, decides on that copy, and saves *)
(* the columns it names later.  Durations are classes: a grace period is   *)
(* running or over, a payment is overdue recently or past the limit.       *)
(***************************************************************************)
EXTENDS Integers

CONSTANTS
    Handlers,    \* web workers: webhook deliveries and the owner's requests
    Sweepers,    \* cron processes that run the sweep
    MaxSubs,     \* subscriptions the shop may take out at Stripe
    PaidPlans,   \* the plans with a Stripe price
    MaxChanges,  \* bound: changes at Stripe that raise events
    MaxSeconds,  \* bound: distinct values of event.created
    MaxFaults,   \* bound: crashes and events never delivered
    Ops          \* which owner and Stripe operations occur

VARIABLES
    sub,      \* Stripe: each subscription's status, plan and scheduled cancellation
    events,   \* Stripe: the events it has yet to see answered with success
    second,   \* Stripe: the current second
    changes,  \* how many changes Stripe has made
    tenant,   \* the Tenant row
    trial,    \* the trial: running, in its read-only grace, or over
    job,      \* what each worker is doing
    faults,   \* faults so far
    paidFor   \* history: <<subscription, plan>> Stripe has confirmed as paid

vars == <<sub, events, second, changes, tenant, trial, job, faults, paidFor>>

Workers == Handlers \cup Sweepers

ASSUME BoundsAssumption ==
    /\ MaxSubs \in Nat /\ MaxChanges \in Nat /\ MaxSeconds \in Nat
    /\ MaxFaults \in Nat /\ "trial" \notin PaidPlans

SubIds == 1..MaxSubs
NoSub == 0
Plans == PaidPlans \cup {"trial"}
Live == {"active", "past_due", "unpaid"}
SubStatus == {"none", "incomplete", "paused", "canceled"} \cup Live
Sub == [status : SubStatus, plan : Plans, atEnd : BOOLEAN]
Kinds == {"checkout", "paid", "failed", "updated", "deleted", "uncollectible"}
\* An event carries the subscription as it was when the event was raised.
Event == [kind : Kinds, id : SubIds, was : Sub, created : Nat]

Row == [status : {"trialing", "active", "past_due", "paused", "canceled", "expired"},
        plan : Plans,
        sid : SubIds \cup {NoSub},
        customer : BOOLEAN,
        grace : {"none", "running", "over"},
        pastDue : {"none", "recent", "long"},
        synced : Nat]

Job ==
         [at : {"idle"}]
    \cup [at : {"save"}, event : Event, row : Row]
    \cup [at : {"close"}, event : Event]
    \cup [at : {"fetch"}, row : Row]
    \cup [at : {"apply"}, row : Row, id : SubIds, got : Sub]
    \cup [at : {"cancel", "resume"}]

TypeOK ==
    /\ sub \in [SubIds -> Sub]
    /\ events \subseteq Event
    /\ second \in Nat /\ changes \in Nat /\ faults \in Nat
    /\ tenant \in Row
    /\ trial \in {"running", "grace", "over"}
    /\ job \in [Workers -> Job]
    /\ paidFor \subseteq SubIds \X Plans

Idle == [at |-> "idle"]

Init ==
    /\ sub = [s \in SubIds |-> [status |-> "none", plan |-> "trial", atEnd |-> FALSE]]
    /\ events = {} /\ second = 1 /\ changes = 0
    /\ tenant = [status |-> "trialing", plan |-> "trial", sid |-> NoSub, customer |-> FALSE,
                 grace |-> "none", pastDue |-> "none", synced |-> 0]
    /\ trial = "running"
    /\ job = [w \in Workers |-> Idle]
    /\ faults = 0
    /\ paidFor = {}

-----------------------------------------------------------------------------
(* What the shop may do: SubscriptionEnforcementMiddleware.                *)

EffectiveGrace(t, tr) ==
    IF t.grace # "none" THEN t.grace
    ELSE IF t.plan = "trial" /\ t.sid = NoSub /\ tr # "running"
         THEN IF tr = "grace" THEN "running" ELSE "over"
         ELSE "none"

\* Mutant: a cancellation for the end of the period is taken for the end (CODE-130).
LapsedOnceCanceled(t, tr) ==
    \/ t.plan = "trial" /\ tr # "running"
    \/ t.status \in {"canceled", "expired"}

Lapsed(t, tr) ==
    \/ t.plan = "trial" /\ tr # "running"
    \/ t.status = "expired"
    \/ t.status = "canceled" /\ EffectiveGrace(t, tr) = "running"

Access(t, tr) ==
    IF Lapsed(t, tr)
    THEN IF EffectiveGrace(t, tr) = "running" THEN "read_only" ELSE "blocked"
    ELSE IF t.status = "paused" \/ (t.status = "past_due" /\ t.pastDue = "long")
         THEN "read_only" ELSE "full"

-----------------------------------------------------------------------------
(* Stripe.                                                                 *)

\* event.created counts whole seconds, the sweep's timestamp does not: the
\* event of second c is stamped 2c, a sweep in that second 2c + 1.
EventTime(c) == 2 * c
SweepTime(c) == 2 * c + 1

Raise(kinds, s, now) ==
    events' = events \cup {[kind |-> k, id |-> s, was |-> now, created |-> second] : k \in kinds}

\* Subscription s changes to `now`, and Stripe reports it with events of these kinds.
Change(s, now, kinds) ==
    /\ changes < MaxChanges
    /\ changes' = changes + 1
    /\ sub' = [sub EXCEPT ![s] = now]
    /\ Raise(kinds, s, now)
    /\ paidFor' = IF now.status = "active" THEN paidFor \cup {<<s, now.plan>>} ELSE paidFor
    /\ UNCHANGED <<second, trial, faults>>

ExternalChange(s, now, kinds) == Change(s, now, kinds) /\ UNCHANGED <<tenant, job>>

\* The owner completes Checkout; with some payment methods the money comes later.
CheckoutCompletes(s, p) ==
    /\ tenant.customer
    /\ sub[s].status = "none"
    /\ \A r \in 1..(s - 1) : sub[r].status # "none"
    /\ \/ ExternalChange(s, [status |-> "active", plan |-> p, atEnd |-> FALSE], {"checkout", "paid"})
       \/ /\ "async" \in Ops
          /\ ExternalChange(s, [status |-> "incomplete", plan |-> p, atEnd |-> FALSE], {"checkout"})

PaymentSucceeds(s) ==
    /\ sub[s].status \in {"incomplete", "past_due", "unpaid"}
    /\ ExternalChange(s, [sub[s] EXCEPT !.status = "active"], {"paid", "updated"})

PaymentFails(s) ==
    /\ "fail" \in Ops
    /\ \/ /\ sub[s].status = "active"
          /\ ExternalChange(s, [sub[s] EXCEPT !.status = "past_due"], {"failed", "updated"})
       \/ /\ sub[s].status = "past_due"
          /\ ExternalChange(s, sub[s], {"failed"})

StripeGivesUp(s) ==
    /\ sub[s].status = "past_due"
    /\ \E kinds \in {{"updated"}, {"updated", "uncollectible"}} :
          ExternalChange(s, [sub[s] EXCEPT !.status = "unpaid"], kinds)

\* The period of a cancelled subscription runs out, or Stripe or the platform ends it.
SubscriptionEnds(s) ==
    /\ "end" \in Ops
    /\ sub[s].status \in Live \cup {"incomplete", "paused"}
    /\ ExternalChange(s, [sub[s] EXCEPT !.status = "canceled"], {"deleted"})

PauseOrUnpause(s) ==
    /\ "pause" \in Ops
    /\ sub[s].status \in {"active", "paused"}
    /\ ExternalChange(s, [sub[s] EXCEPT !.status = IF @ = "active" THEN "paused" ELSE "active"],
                      {"updated"})

PlanChanges(s, p) ==
    /\ "plan" \in Ops
    /\ sub[s].status = "active" /\ sub[s].plan # p
    /\ ExternalChange(s, [sub[s] EXCEPT !.plan = p], {"updated"})

Tick ==
    /\ second < MaxSeconds
    /\ second' = second + 1
    /\ UNCHANGED <<sub, events, changes, tenant, trial, job, faults, paidFor>>

\* Weeks pass: longer than a request or a sweep takes, and than the three days
\* Stripe resends an event.  Any of the running periods may end meanwhile.
TimePasses ==
    /\ second < MaxSeconds
    /\ second' = second + 1
    /\ \A w \in Workers : job[w] = Idle
    /\ events = {}
    /\ \E over \in BOOLEAN, long \in BOOLEAN :
          tenant' = [tenant EXCEPT !.grace = IF over /\ @ = "running" THEN "over" ELSE @,
                                   !.pastDue = IF long /\ @ = "recent" THEN "long" ELSE @]
    /\ trial' \in CASE "trial" \notin Ops   -> {trial}
                    [] trial = "running" -> {"running", "grace", "over"}
                    [] trial = "grace"   -> {"grace", "over"}
                    [] trial = "over"    -> {"over"}
    /\ UNCHANGED <<sub, events, changes, job, faults, paidFor>>

-----------------------------------------------------------------------------
(* Webhook handlers.                                                       *)

\* webhook_log.should_apply: strictly older events are refused, equal ones apply.
ShouldApply(row, e) == EventTime(e.created) >= row.synced

\* webhook_log.stamp_synced: the column is written only when the copy read is older.
Stamped(row, time, stored) == IF row.synced < time THEN time ELSE stored

\* Mutant: the payment status of the session is not looked at.
DefersNever(e) == FALSE

\* Checkout with the money outstanding leaves it to invoice.paid.
Defers(e) == e.kind = "checkout" /\ e.was.status = "incomplete"

\* STATUS_MAP
Mapped(status) ==
    CASE status = "incomplete" -> "trialing"
      [] status = "unpaid"     -> "expired"
      [] OTHER                 -> status

\* Mutant: a status without an entry in the table leaves the row's status alone.
StatusUnlessPaused(row, now) ==
    IF now.status = "paused" THEN row.status
    ELSE IF now.status = "active" /\ now.atEnd THEN "canceled" ELSE Mapped(now.status)

\* A subscription that is paid up but ends with its period is `canceled`.
StatusFor(row, now) ==
    IF now.status = "active" /\ now.atEnd THEN "canceled" ELSE Mapped(now.status)

\* Mutant: the status is mended, the plan is left to the events.
ApplyStatusOnly(stored, row, s, now, time) ==
    [stored EXCEPT !.status = StatusFor(row, now), !.sid = s,
                   !.grace = IF StatusFor(row, now) = "active" THEN "none" ELSE @,
                   !.synced = Stamped(row, time, @)]

\* apply_subscription_state: what the row becomes when subscription s, read
\* as `now`, is written over `stored` by a process that had read `row`.
ApplyState(stored, row, s, now, time) ==
    LET confirmed == now.status = "active"
        status == StatusFor(row, now)
    IN [stored EXCEPT
          !.status = status,
          !.sid = s,
          !.plan = IF confirmed THEN now.plan ELSE @,
          !.grace = IF status = "active" THEN "none"
                    ELSE IF now.status = "unpaid" /\ row.grace = "none" THEN "running" ELSE @,
          !.synced = Stamped(row, time, @)]

\* Tenant.mark_subscription_active
Reactivate(stored, row, s, plan, time) ==
    [stored EXCEPT !.status = "active", !.grace = "none", !.pastDue = "none",
                   !.sid = IF row.sid # s THEN s ELSE @,
                   !.plan = plan, !.synced = Stamped(row, time, @)]

\* Mutant: every deletion event starts the thirty days.
GraceAgain(row) == "running"

\* A grace period already running, or run out, is not restarted.
GraceOnce(row) == IF row.grace = "none" THEN "running" ELSE row.grace

\* Mutant: each failed attempt stamps past_due_since.
AnyFailure(row) == TRUE

\* past_due_since is stamped by the first failure of a lapse only.
FirstFailure(row) == row.pastDue = "none"

\* The row after the handler of event e saves, having read `row`.
Handled(stored, row, e) ==
    LET time == EventTime(e.created) IN
    CASE e.kind = "checkout" -> Reactivate(stored, row, e.id, e.was.plan, time)
      [] e.kind = "paid" ->
           Reactivate(stored, row, e.id,
                      IF row.plan = "trial" THEN e.was.plan ELSE stored.plan, time)
      [] e.kind = "failed" ->
           [stored EXCEPT !.status = "past_due",
                          !.pastDue = IF FirstFailure(row) THEN "recent" ELSE @,
                          !.synced = Stamped(row, time, @)]
      [] e.kind = "updated" -> ApplyState(stored, row, e.id, e.was, time)
      [] e.kind = "deleted" ->
           [stored EXCEPT !.status = "expired", !.plan = "trial",
                          !.grace = GraceOnce(row), !.synced = Stamped(row, time, @)]
      [] e.kind = "uncollectible" ->
           [stored EXCEPT !.status = "expired",
                          !.grace = IF row.grace = "none" THEN "running" ELSE @,
                          !.synced = Stamped(row, time, @)]

\* webhook_log.claim refuses only an event already logged processed; that one
\* is no longer in `events`.  Two deliveries may be handled at once.
Deliver(w, e) ==
    /\ job[w] = Idle
    /\ IF ShouldApply(tenant, e) /\ ~Defers(e)
       THEN job' = [job EXCEPT ![w] = [at |-> "save", event |-> e, row |-> tenant]]
            /\ UNCHANGED events
       ELSE events' = events \ {e} /\ UNCHANGED job
    /\ UNCHANGED <<sub, second, changes, tenant, trial, faults, paidFor>>

Save(w) ==
    /\ job[w].at = "save"
    /\ tenant' = Handled(tenant, job[w].row, job[w].event)
    /\ job' = [job EXCEPT ![w] = [at |-> "close", event |-> job[w].event]]
    /\ UNCHANGED <<sub, events, second, changes, trial, faults, paidFor>>

\* The shop is notified, then the event is logged processed.
Close(w) ==
    /\ job[w].at = "close"
    /\ events' = events \ {job[w].event}
    /\ job' = [job EXCEPT ![w] = Idle]
    /\ UNCHANGED <<sub, second, changes, tenant, trial, faults, paidFor>>

\* An exception or a restart; an event not logged processed is sent again.
Crash(w) ==
    /\ job[w] # Idle
    /\ faults < MaxFaults
    /\ faults' = faults + 1
    /\ job' = [job EXCEPT ![w] = Idle]
    /\ UNCHANGED <<sub, events, second, changes, tenant, trial, paidFor>>

\* Stripe gives up on an event after three days of failures.
Lose(e) ==
    /\ faults < MaxFaults
    /\ faults' = faults + 1
    /\ events' = events \ {e}
    /\ UNCHANGED <<sub, second, changes, tenant, trial, job, paidFor>>

-----------------------------------------------------------------------------
(* The hourly sweep, reconcile_all.                                        *)

SweepReads(w) ==
    /\ job[w] = Idle
    /\ tenant.customer
    /\ job' = [job EXCEPT ![w] = [at |-> "fetch", row |-> tenant]]
    /\ UNCHANGED <<sub, events, second, changes, tenant, trial, faults, paidFor>>

\* _retrieve_subscription: the stored subscription (Stripe keeps those that
\* ended), else the newest live one of the customer, else the newest.
Retrieved(row) ==
    LET known == {s \in SubIds : sub[s].status # "none"}
        live == {s \in known : sub[s].status \in Live}
        listed == IF live # {} THEN live ELSE known
    IN IF row.sid # NoSub THEN {row.sid}
       ELSE {s \in listed : \A r \in listed : r <= s}

SweepFetches(w) ==
    /\ job[w].at = "fetch"
    /\ \/ /\ Retrieved(job[w].row) = {}
          /\ job' = [job EXCEPT ![w] = Idle]
       \/ \E s \in Retrieved(job[w].row) :
             job' = [job EXCEPT ![w] = [at |-> "apply", row |-> job[w].row,
                                        id |-> s, got |-> sub[s]]]
    /\ UNCHANGED <<sub, events, second, changes, tenant, trial, faults, paidFor>>

\* The timestamp is taken after the answer: events raised in between are older than it.
SweepApplies(w) ==
    /\ job[w].at = "apply"
    /\ tenant' = ApplyState(tenant, job[w].row, job[w].id, job[w].got, SweepTime(second))
    /\ job' = [job EXCEPT ![w] = Idle]
    /\ UNCHANGED <<sub, events, second, changes, trial, faults, paidFor>>

-----------------------------------------------------------------------------
(* The owner, SubscriptionService.                                         *)

\* create_subscription: a subscription never paid is voided, and the customer saved.
StartCheckout ==
    /\ IF tenant.sid # NoSub /\ sub[tenant.sid].status = "incomplete"
       THEN /\ Change(tenant.sid, [sub[tenant.sid] EXCEPT !.status = "canceled"], {"deleted"})
            /\ tenant' = [tenant EXCEPT !.sid = NoSub, !.customer = TRUE]
       ELSE /\ tenant' = [tenant EXCEPT !.customer = TRUE]
            /\ UNCHANGED <<sub, events, second, changes, trial, faults, paidFor>>
    /\ UNCHANGED job

\* update_subscription finds the stored subscription ended and forgets it.
ForgetEnded ==
    /\ "plan" \in Ops
    /\ tenant.sid # NoSub /\ sub[tenant.sid].status = "canceled"
    /\ tenant' = [tenant EXCEPT !.sid = NoSub]
    /\ UNCHANGED <<sub, events, second, changes, trial, job, faults, paidFor>>

\* cancel_subscription and reactivate_subscription: Stripe first, the row after it.
ScheduleCancel(w) ==
    /\ "cancel" \in Ops
    /\ job[w] = Idle /\ tenant.sid # NoSub
    /\ sub[tenant.sid].status \in Live \cup {"incomplete", "paused"}
    /\ Change(tenant.sid, [sub[tenant.sid] EXCEPT !.atEnd = TRUE], {"updated"})
    /\ job' = [job EXCEPT ![w] = [at |-> "cancel"]]
    /\ UNCHANGED tenant

ScheduleResume(w) ==
    /\ job[w] = Idle /\ tenant.sid # NoSub
    /\ sub[tenant.sid].atEnd /\ sub[tenant.sid].status # "canceled"
    /\ Change(tenant.sid, [sub[tenant.sid] EXCEPT !.atEnd = FALSE], {"updated"})
    /\ job' = [job EXCEPT ![w] = [at |-> "resume"]]
    /\ UNCHANGED tenant

OwnerSaves(w) ==
    /\ \/ /\ job[w].at = "cancel"
          /\ tenant' = [tenant EXCEPT !.status = "canceled"]
       \/ /\ job[w].at = "resume"
          /\ tenant' = [tenant EXCEPT !.status = "active", !.grace = "none"]
    /\ job' = [job EXCEPT ![w] = Idle]
    /\ UNCHANGED <<sub, events, second, changes, trial, faults, paidFor>>

-----------------------------------------------------------------------------
StripeActs ==
    \/ \E s \in SubIds :
          \/ PaymentSucceeds(s) \/ PaymentFails(s) \/ StripeGivesUp(s)
          \/ SubscriptionEnds(s) \/ PauseOrUnpause(s)
          \/ \E p \in PaidPlans : CheckoutCompletes(s, p) \/ PlanChanges(s, p)
    \/ \E e \in events : Lose(e)
    \/ Tick \/ TimePasses

Proceed(w) == Save(w) \/ Close(w) \/ SweepFetches(w) \/ SweepApplies(w) \/ OwnerSaves(w)

Next ==
    \/ StripeActs
    \/ StartCheckout \/ ForgetEnded
    \/ \E w \in Handlers : (\E e \in events : Deliver(w, e)) \/ ScheduleCancel(w) \/ ScheduleResume(w)
    \/ \E w \in Sweepers : SweepReads(w)
    \/ \E w \in Workers : Proceed(w) \/ Crash(w)

\* Stripe resends until it is answered with success, requests end, and cron
\* starts the sweep every hour.
Fairness ==
    /\ WF_vars(\E w \in Handlers : \E e \in events : Deliver(w, e))
    /\ WF_vars(\E w \in Sweepers : SweepReads(w))
    /\ \A w \in Workers : WF_vars(Proceed(w))

Spec == Init /\ [][Next]_vars /\ Fairness

-----------------------------------------------------------------------------
(* Properties.                                                             *)

\* A paid plan is on the row only if Stripe confirmed a payment for that plan:
\* no order of checkouts, unpaid checkouts, plan changes, late events and
\* sweeps hands out a plan nobody paid for (webhooks.py, apply_subscription_state).
PaidPlanWasPaid ==
    tenant.plan # "trial" => \E s \in SubIds : <<s, tenant.plan>> \in paidFor

\* The countdown of an overdue payment, once run out, is not started again by
\* Stripe's retries and replays, unless a payment cleared it.  (Handlers that overlap
\* are for the theorem CountdownHolds: the run has one.)
OverdueNotRestarted == [][tenant.pastDue = "long" => tenant'.pastDue # "recent"]_vars

\* A grace period that has run out is not started again unless a payment or a
\* resumption cleared it: replays and second events of the same lapse included.
GraceNotRestarted == [][tenant.grace = "over" => tenant'.grace # "running"]_vars

\* The row says of the stored subscription what Stripe says.
Agrees ==
    tenant.sid # NoSub =>
        LET now == sub[tenant.sid] IN
        /\ tenant.status = IF now.status = "active" /\ now.atEnd THEN "canceled"
                           ELSE Mapped(now.status)
        /\ now.status = "active" => tenant.plan = now.plan

\* Once Stripe stops changing, the row agrees with the stored subscription and
\* stays so, whatever was lost, late, repeated or overwritten by a stale copy.
RowFollowsStripe == <>[]Agrees

PaidUp == tenant.sid # NoSub /\ sub[tenant.sid].status = "active"

\* A shop whose stored subscription is paid up gets full access back in the end,
\* though it was paused, overdue, in its grace period or expired before, or a
\* former subscription's end was booked on it; not, however, if it is to end
\* with its period and a grace period of an earlier lapse is running.
PaidUpGetsIn ==
    <>[](PaidUp => \/ Access(tenant, trial) = "full"
                   \/ sub[tenant.sid].atEnd /\ tenant.grace = "running")
=============================================================================
