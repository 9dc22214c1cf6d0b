--------------------- MODULE TenantSubscription_proofs ---------------------
(* Theorems about TenantSubscription and their proofs. *)
EXTENDS TenantSubscription, TLAPS

(***************************************************************************)
(* What the handlers write.                                                *)
(***************************************************************************)
LEMMA EventTimeIsNat == ASSUME NEW c \in Nat PROVE EventTime(c) \in Nat /\ SweepTime(c) \in Nat
BY DEF EventTime, SweepTime

LEMMA StampedIsNat ==
    ASSUME NEW row \in Row, NEW t \in Nat, NEW n \in Nat PROVE Stamped(row, t, n) \in Nat
BY DEF Stamped, Row

\* apply_subscription_state yields a row, whose paid plan is the stored one or
\* one Stripe reports as active; it never touches the overdue countdown.
LEMMA ApplyStateIsRow ==
    ASSUME NEW stored \in Row, NEW row \in Row, NEW s \in SubIds, NEW now \in Sub,
           NEW t \in Nat, now.status # "none"
    PROVE  /\ ApplyState(stored, row, s, now, t) \in Row
           /\ ApplyState(stored, row, s, now, t).pastDue = stored.pastDue
           /\ ApplyState(stored, row, s, now, t).sid = s
           /\ \/ ApplyState(stored, row, s, now, t).plan = stored.plan
              \/ now.status = "active" /\ ApplyState(stored, row, s, now, t).plan = now.plan
<1>1. Stamped(row, t, stored.synced) \in Nat
  BY StampedIsNat DEF Row
<1>2. StatusFor(row, now) \in {"trialing", "active", "past_due", "paused", "canceled", "expired"}
  BY DEF StatusFor, Mapped, Sub, SubStatus, Live
<1>. QED BY <1>1, <1>2, ZenonT(30) DEF ApplyState, Row, Sub

LEMMA ReactivateIsRow ==
    ASSUME NEW stored \in Row, NEW row \in Row, NEW s \in SubIds, NEW p \in Plans, NEW t \in Nat
    PROVE  /\ Reactivate(stored, row, s, p, t) \in Row
           /\ Reactivate(stored, row, s, p, t).pastDue = "none"
           /\ Reactivate(stored, row, s, p, t).plan = p
           /\ Reactivate(stored, row, s, p, t).sid \in {stored.sid, s}
<1>1. Stamped(row, t, stored.synced) \in Nat
  BY StampedIsNat DEF Row
<1>. QED BY <1>1 DEF Reactivate, Row

\* An event that can be raised: its subscription exists, and a payment is
\* reported only of a subscription that is paid up.
Sound(e) ==
    /\ e.was.status # "none"
    /\ e.kind = "paid" => e.was.status = "active"
    /\ e.kind = "checkout" => e.was.status \in {"active", "incomplete"}

LEMMA HandledIsRow ==
    ASSUME NEW stored \in Row, NEW row \in Row, NEW e \in Event, Sound(e), ~Defers(e)
    PROVE  /\ Handled(stored, row, e) \in Row
           /\ Handled(stored, row, e).plan # "trial" =>
                 \/ Handled(stored, row, e).plan = stored.plan
                 \/ e.was.status = "active" /\ Handled(stored, row, e).plan = e.was.plan
           /\ Handled(stored, row, e).pastDue = "recent" =>
                 stored.pastDue = "recent" \/ row.pastDue = "none"
           /\ Handled(stored, row, e).pastDue = "long" => stored.pastDue = "long"
           /\ Handled(stored, row, e).sid \in {stored.sid, e.id}
<1>. DEFINE time == EventTime(e.created)
<1>0. /\ time \in Nat /\ e.id \in SubIds /\ e.was \in Sub /\ e.was.plan \in Plans
      /\ stored.plan \in Plans /\ stored.synced \in Nat
  BY EventTimeIsNat DEF Event, Sub, Row
<1>1. Stamped(row, time, stored.synced) \in Nat
  BY <1>0, StampedIsNat
<1>. HIDE DEF time
<1>2. CASE e.kind = "checkout"
  <2>. DEFINE r == Reactivate(stored, row, e.id, e.was.plan, time)
  <2>1. Handled(stored, row, e) = r
    BY <1>2 DEF Handled, time
  <2>2. e.was.status = "active"
    BY <1>0, <1>2 DEF Sound, Defers
  <2>3. r \in Row /\ r.pastDue = "none" /\ r.plan = e.was.plan /\ r.sid \in {stored.sid, e.id}
    <3>. DEFINE s == e.id
                p == e.was.plan
    <3>1. s \in SubIds /\ p \in Plans
      BY <1>0
    <3>. HIDE DEF s, p
    <3>2. /\ Reactivate(stored, row, s, p, time) \in Row
          /\ Reactivate(stored, row, s, p, time).pastDue = "none"
          /\ Reactivate(stored, row, s, p, time).plan = p
          /\ Reactivate(stored, row, s, p, time).sid \in {stored.sid, s}
      BY <1>0, <3>1, ReactivateIsRow
    <3>. QED BY <3>2 DEF s, p
  <2>. HIDE DEF r
  <2>. QED BY <2>1, <2>2, <2>3
<1>3. CASE e.kind = "paid"
  <2>1. e.was.status = "active"
    BY <1>3 DEF Sound
  <2>. DEFINE q == IF row.plan = "trial" THEN e.was.plan ELSE stored.plan
             r == Reactivate(stored, row, e.id, q, time)
  <2>2. Handled(stored, row, e) = r
    BY <1>3 DEF Handled, time
  <2>3. q \in Plans /\ q \in {e.was.plan, stored.plan}
    BY <1>0
  <2>4. r \in Row /\ r.pastDue = "none" /\ r.plan = q /\ r.sid \in {stored.sid, e.id}
    <3>. HIDE DEF q
    <3>. QED BY <1>0, <1>1, <2>3 DEF Reactivate, Row
  <2>. HIDE DEF q, r
  <2>. QED BY <2>1, <2>2, <2>3, <2>4
<1>4. CASE e.kind = "updated"
  <2>. DEFINE r == ApplyState(stored, row, e.id, e.was, time)
  <2>1. Handled(stored, row, e) = r
    BY <1>4 DEF Handled, time
  <2>2. /\ r \in Row
        /\ r.pastDue = stored.pastDue /\ r.sid = e.id
        /\ r.plan = stored.plan \/ (e.was.status = "active" /\ r.plan = e.was.plan)
    <3>. DEFINE s == e.id
                now == e.was
    <3>1. s \in SubIds /\ now \in Sub /\ now.status # "none" /\ time \in Nat
      BY <1>0 DEF Sound
    <3>. HIDE DEF s, now
    <3>2. /\ ApplyState(stored, row, s, now, time) \in Row
          /\ ApplyState(stored, row, s, now, time).pastDue = stored.pastDue
          /\ ApplyState(stored, row, s, now, time).sid = s
          /\ \/ ApplyState(stored, row, s, now, time).plan = stored.plan
             \/ now.status = "active" /\ ApplyState(stored, row, s, now, time).plan = now.plan
      BY <3>1, ApplyStateIsRow
    <3>. QED BY <3>2 DEF s, now
  <2>. HIDE DEF r
  <2>. QED BY <2>1, <2>2
<1>5. CASE e.kind = "failed"
  BY <1>1, <1>5 DEF Handled, time, Row, FirstFailure
<1>6. CASE e.kind = "deleted"
  <2>. DEFINE r == [stored EXCEPT !.status = "expired", !.plan = "trial",
                                  !.grace = GraceOnce(row), !.synced = Stamped(row, time, @)]
  <2>1. Handled(stored, row, e) = r
    BY <1>6 DEF Handled, time
  <2>2. GraceOnce(row) \in {"none", "running", "over"}
    BY DEF GraceOnce, Row
  <2>3. r \in Row /\ r.plan = "trial" /\ r.pastDue = stored.pastDue /\ r.sid = stored.sid
    BY <1>1, <2>2 DEF Row, Plans
  <2>. HIDE DEF r
  <2>. QED BY <2>1, <2>3
<1>7. CASE e.kind = "uncollectible"
  BY <1>1, <1>7, ZenonT(30) DEF Handled, time, Row
<1>. QED BY <1>2, <1>3, <1>4, <1>5, <1>6, <1>7 DEF Event, Kinds

(***************************************************************************)
(* The invariant: types, and where a plan can come from.                   *)
(***************************************************************************)

\* Stripe has subscription s; it never forgets one.
Known(s) == s # NoSub => sub[s].status # "none"

\* What Stripe says was paid was paid.
Paid(s, now) == now.status = "active" => <<s, now.plan>> \in paidFor

\* Whatever is on its way to the row is sound, and backed by a payment.
Backed(e) == Sound(e) /\ Paid(e.id, e.was) /\ Known(e.id)

InFlight(j) ==
    /\ j.at \in {"save", "close"} => Backed(j.event)
    /\ j.at = "save" => ~Defers(j.event)
    /\ j.at \in {"save", "fetch", "apply"} => Known(j.row.sid)
    /\ j.at = "apply" => j.got.status # "none" /\ Paid(j.id, j.got) /\ Known(j.id)

PlanInv ==
    /\ PaidPlanWasPaid
    /\ Known(tenant.sid)
    /\ \A s \in SubIds : Paid(s, sub[s])
    /\ \A e \in events : Backed(e)
    /\ \A w \in Workers : InFlight(job[w])

\* A handler that read a row without a countdown saves before one runs out:
\* weeks pass only between requests.
CountdownInv ==
    \A w \in Workers :
        job[w].at = "save" /\ job[w].row.pastDue = "none" => tenant.pastDue # "long"

IInv == TypeOK /\ PlanInv /\ CountdownInv

\* A shop that has just signed up satisfies it.
LEMMA InitIInv == Init => IInv
<1>. SUFFICES ASSUME Init PROVE IInv
  OBVIOUS
<1>. USE DEF Init
<1>1. TypeOK
  BY BoundsAssumption DEF TypeOK, Sub, SubStatus, Plans, Row, Job, Idle, NoSub, Workers
<1>2. PlanInv
  BY DEF PlanInv, PaidPlanWasPaid, Known, Paid, InFlight, Idle
<1>3. CountdownInv
  BY DEF CountdownInv, Idle
<1>. QED BY <1>1, <1>2, <1>3 DEF IInv

\* What a change at Stripe does to everything but the row.
LEMMA ChangeKeeps ==
    ASSUME IInv, NEW s \in SubIds, NEW now \in Sub, NEW kinds \in SUBSET Kinds,
           now.status # "none",
           "paid" \in kinds => now.status = "active",
           "checkout" \in kinds => now.status \in {"active", "incomplete"},
           Change(s, now, kinds)
    PROVE  /\ sub' \in [SubIds -> Sub] /\ events' \subseteq Event /\ second' \in Nat
           /\ changes' \in Nat /\ faults' \in Nat /\ paidFor' \subseteq SubIds \X Plans
           /\ paidFor \subseteq paidFor'
           /\ \A r \in SubIds \cup {NoSub} : Known(r) => Known(r)'
           /\ \A r \in SubIds : Paid(r, sub[r])'
           /\ \A e \in events' : Backed(e)'
           /\ \A j \in Job : InFlight(j) => InFlight(j)'
<1>. USE DEF IInv
<1>1. /\ sub' = [sub EXCEPT ![s] = now]
      /\ sub' \in [SubIds -> Sub]
      /\ \A r \in SubIds : sub'[r] = IF r = s THEN now ELSE sub[r]
  BY DEF Change, TypeOK
<1>2. /\ paidFor \subseteq paidFor' /\ paidFor' \subseteq SubIds \X Plans
      /\ now.status = "active" => <<s, now.plan>> \in paidFor'
  BY DEF Change, TypeOK, Sub
<1>3. second' \in Nat /\ changes' \in Nat /\ faults' \in Nat
  BY DEF Change, TypeOK
<1>4. \A e \in events' : e \in events \/ (e \in Event /\ e.id = s /\ e.was = now /\ e.kind \in kinds)
  BY DEF Change, Raise, TypeOK, Event
<1>5. \A r \in SubIds \cup {NoSub} : Known(r) => Known(r)'
  BY <1>1 DEF Known
<1>6. \A r \in SubIds : Paid(r, sub[r])'
  BY <1>1, <1>2 DEF Paid, PlanInv
<1>7. ASSUME NEW e \in Event, Backed(e) PROVE Backed(e)'
  BY <1>2, <1>5, <1>7 DEF Backed, Paid, Event, Sound
<1>8. \A e \in events' : Backed(e)'
  <2>. TAKE e \in events'
  <2>1. CASE e \in events
    BY <2>1, <1>7 DEF PlanInv, TypeOK
  <2>2. CASE e \in Event /\ e.id = s /\ e.was = now /\ e.kind \in kinds
    BY <2>2, <1>1, <1>2 DEF Backed, Sound, Paid, Known
  <2>. QED BY <2>1, <2>2, <1>4
<1>9. ASSUME NEW j \in Job, InFlight(j) PROVE InFlight(j)'
  <2>1. j.at \in {"save", "close"} => Backed(j.event)'
    BY <1>7, <1>9 DEF InFlight, Job
  <2>2. j.at \in {"save", "fetch", "apply"} => Known(j.row.sid)'
    BY <1>5, <1>9 DEF InFlight, Job, Row
  <2>3. j.at = "apply" => j.got.status # "none" /\ Paid(j.id, j.got)' /\ Known(j.id)'
    BY <1>2, <1>5, <1>9 DEF InFlight, Job, Paid
  <2>. QED BY <2>1, <2>2, <2>3, <1>9 DEF InFlight
<1>. QED BY <1>1, <1>2, <1>3, <1>4, <1>5, <1>6, <1>8, <1>9 DEF TypeOK

\* Every change of Stripe's own is sound, and leaves the row and the workers alone.
SoundChange(s, now, kinds) ==
    /\ now.status # "none"
    /\ "paid" \in kinds => now.status = "active"
    /\ "checkout" \in kinds => now.status \in {"active", "incomplete"}

External(s) ==
    \/ PaymentSucceeds(s) \/ PaymentFails(s) \/ StripeGivesUp(s)
    \/ SubscriptionEnds(s) \/ PauseOrUnpause(s)
    \/ \E p \in PaidPlans : CheckoutCompletes(s, p) \/ PlanChanges(s, p)

LEMMA ExternalIsSound ==
    ASSUME IInv, NEW s \in SubIds, External(s)
    PROVE  \E now \in Sub, kinds \in SUBSET Kinds :
              SoundChange(s, now, kinds) /\ ExternalChange(s, now, kinds)
<1>0. sub[s] \in Sub
  BY DEF IInv, TypeOK
<1>. USE DEF SoundChange, Sub, SubStatus, Live, Plans, Kinds
<1>1. CASE PaymentSucceeds(s)
  <2>. DEFINE now == [sub[s] EXCEPT !.status = "active"]
  <2>1. now \in Sub /\ now.status = "active" /\ {"paid", "updated"} \in SUBSET Kinds
    BY <1>0
  <2>2. ExternalChange(s, now, {"paid", "updated"})
    BY <1>1 DEF PaymentSucceeds
  <2>. QED BY <2>1, <2>2
<1>2. CASE PaymentFails(s)
  <2>. DEFINE now == [sub[s] EXCEPT !.status = "past_due"]
  <2>1. now \in Sub /\ now.status = "past_due" /\ {"failed", "updated"} \in SUBSET Kinds
        /\ {"failed"} \in SUBSET Kinds
    BY <1>0
  <2>2. CASE sub[s].status = "active" /\ ExternalChange(s, now, {"failed", "updated"})
    BY <2>1, <2>2
  <2>3. CASE sub[s].status = "past_due" /\ ExternalChange(s, sub[s], {"failed"})
    BY <1>0, <2>1, <2>3
  <2>. QED BY <1>2, <2>2, <2>3 DEF PaymentFails
<1>3. CASE StripeGivesUp(s)
  <2>. DEFINE now == [sub[s] EXCEPT !.status = "unpaid"]
  <2>1. now \in Sub /\ now.status = "unpaid"
    BY <1>0
  <2>2. PICK kinds \in {{"updated"}, {"updated", "uncollectible"}} : ExternalChange(s, now, kinds)
    BY <1>3 DEF StripeGivesUp
  <2>3. kinds \in SUBSET Kinds /\ "paid" \notin kinds /\ "checkout" \notin kinds
    OBVIOUS
  <2>. QED BY <2>1, <2>2, <2>3
<1>4. CASE SubscriptionEnds(s)
  <2>. DEFINE now == [sub[s] EXCEPT !.status = "canceled"]
  <2>1. now \in Sub /\ now.status = "canceled" /\ {"deleted"} \in SUBSET Kinds
    BY <1>0
  <2>2. ExternalChange(s, now, {"deleted"})
    BY <1>4 DEF SubscriptionEnds
  <2>. QED BY <2>1, <2>2
<1>5. CASE PauseOrUnpause(s)
  <2>. DEFINE now == [sub[s] EXCEPT !.status = IF @ = "active" THEN "paused" ELSE "active"]
  <2>1. now \in Sub /\ now.status # "none" /\ {"updated"} \in SUBSET Kinds
    BY <1>0
  <2>2. ExternalChange(s, now, {"updated"})
    BY <1>5 DEF PauseOrUnpause
  <2>. QED BY <2>1, <2>2
<1>6. ASSUME NEW p \in PaidPlans, CheckoutCompletes(s, p)
      PROVE  \E now \in Sub, kinds \in SUBSET Kinds :
                SoundChange(s, now, kinds) /\ ExternalChange(s, now, kinds)
  <2>. DEFINE paid == [status |-> "active", plan |-> p, atEnd |-> FALSE]
              open == [status |-> "incomplete", plan |-> p, atEnd |-> FALSE]
  <2>1. paid \in Sub /\ open \in Sub /\ paid.status = "active" /\ open.status = "incomplete"
        /\ {"checkout", "paid"} \in SUBSET Kinds /\ {"checkout"} \in SUBSET Kinds
    OBVIOUS
  <2>2. CASE ExternalChange(s, paid, {"checkout", "paid"})
    BY <2>1, <2>2
  <2>3. CASE ExternalChange(s, open, {"checkout"})
    BY <2>1, <2>3
  <2>. QED BY <1>6, <2>2, <2>3 DEF CheckoutCompletes
<1>7. ASSUME NEW p \in PaidPlans, PlanChanges(s, p)
      PROVE  \E now \in Sub, kinds \in SUBSET Kinds :
                SoundChange(s, now, kinds) /\ ExternalChange(s, now, kinds)
  <2>. DEFINE now == [sub[s] EXCEPT !.plan = p]
  <2>1. now \in Sub /\ now.status = sub[s].status /\ {"updated"} \in SUBSET Kinds
    BY <1>0
  <2>2. ExternalChange(s, now, {"updated"}) /\ sub[s].status = "active"
    BY <1>7 DEF PlanChanges
  <2>. QED BY <2>1, <2>2
<1>. QED BY <1>1, <1>2, <1>3, <1>4, <1>5, <1>6, <1>7 DEF External

\* The invariant after a change at Stripe, whose author may also forget the
\* subscription and start a request.
LEMMA ChangeStep ==
    ASSUME IInv, NEW s \in SubIds, NEW now \in Sub, NEW kinds \in SUBSET Kinds,
           SoundChange(s, now, kinds), Change(s, now, kinds),
           tenant' \in Row, tenant'.plan = tenant.plan, tenant'.pastDue = tenant.pastDue,
           tenant'.sid \in {tenant.sid, NoSub},
           job' \in [Workers -> Job],
           \A w \in Workers : job'[w] = job[w] \/ job'[w].at \in {"cancel", "resume"}
    PROVE  IInv'
<1>. USE DEF IInv
<1>1. /\ sub' \in [SubIds -> Sub] /\ events' \subseteq Event /\ second' \in Nat
      /\ changes' \in Nat /\ faults' \in Nat /\ paidFor' \subseteq SubIds \X Plans
      /\ paidFor \subseteq paidFor'
      /\ \A r \in SubIds \cup {NoSub} : Known(r) => Known(r)'
      /\ \A r \in SubIds : Paid(r, sub[r])'
      /\ \A e \in events' : Backed(e)'
      /\ \A j \in Job : InFlight(j) => InFlight(j)'
  BY ChangeKeeps DEF SoundChange
<1>2. TypeOK'
  BY <1>1 DEF TypeOK, Change
<1>3. PlanInv'
  <2>1. PaidPlanWasPaid'
    BY <1>1 DEF PlanInv, PaidPlanWasPaid
  <2>2. Known(tenant.sid)'
    <3>1. CASE tenant'.sid = tenant.sid
      BY <3>1, <1>1 DEF PlanInv, TypeOK, Row, Known
    <3>2. CASE tenant'.sid = NoSub
      BY <3>2 DEF Known
    <3>. QED BY <3>1, <3>2
  <2>3. ASSUME NEW w \in Workers PROVE InFlight(job[w])'
    <3>1. CASE job'[w] = job[w]
      <4>1. job[w] \in Job /\ InFlight(job[w])
        BY DEF PlanInv, TypeOK
      <4>2. PICK j \in Job : j = job[w]
        BY <4>1
      <4>3. InFlight(j)'
        BY <4>1, <4>2, <1>1
      <4>. QED BY <3>1, <4>2, <4>3 DEF InFlight, Backed
    <3>2. CASE job'[w].at \in {"cancel", "resume"}
      BY <3>2 DEF InFlight
    <3>. QED BY <3>1, <3>2
  <2>. QED BY <1>1, <2>1, <2>2, <2>3 DEF PlanInv
<1>4. CountdownInv'
  BY DEF CountdownInv
<1>. QED BY <1>2, <1>3, <1>4

\* The invariant after a step that Stripe has no part in but to resend less.
LEMMA QuietStep ==
    ASSUME IInv, UNCHANGED <<sub, paidFor>>, events' \subseteq events,
           second' \in Nat, changes' \in Nat, faults' \in Nat,
           trial' \in {"running", "grace", "over"},
           tenant' \in Row, PaidPlanWasPaid', Known(tenant'.sid),
           job' \in [Workers -> Job], \A w \in Workers : InFlight(job'[w]),
           CountdownInv'
    PROVE  IInv'
<1>. USE DEF IInv
<1>1. TypeOK'
  BY DEF TypeOK
<1>2. PlanInv'
  BY DEF PlanInv, Known, Paid, Backed, InFlight, Sound
<1>. QED BY <1>1, <1>2

(***************************************************************************)
(* Each step.                                                              *)
(***************************************************************************)

\* A worker that moves on while the row and Stripe stay as they are.
LEMMA WorkerMoves ==
    ASSUME IInv, UNCHANGED <<sub, paidFor, tenant, trial, second, changes>>,
           events' \subseteq events, faults' \in Nat,
           NEW w \in Workers, NEW j \in Job, job' = [job EXCEPT ![w] = j], InFlight(j),
           j.at = "save" /\ j.row.pastDue = "none" => tenant.pastDue # "long"
    PROVE  IInv'
<1>1. job' \in [Workers -> Job] /\ \A v \in Workers : job'[v] = IF v = w THEN j ELSE job[v]
  BY DEF IInv, TypeOK
<1>2. \A v \in Workers : InFlight(job'[v])
  BY <1>1 DEF IInv, PlanInv
<1>3. CountdownInv'
  BY <1>1 DEF IInv, CountdownInv
<1>4. PaidPlanWasPaid' /\ Known(tenant'.sid)
  BY DEF IInv, PlanInv, PaidPlanWasPaid
<1>. QED BY <1>1, <1>2, <1>3, <1>4, QuietStep DEF IInv, TypeOK

\* A worker that is done and leaves `row` on the tenant row.
LEMMA RowSaved ==
    ASSUME IInv, UNCHANGED <<sub, paidFor, events, trial, second, changes, faults>>,
           NEW w \in Workers, NEW j \in Job, job' = [job EXCEPT ![w] = j],
           InFlight(j), j.at # "save",
           NEW row \in Row, tenant' = row, Known(row.sid),
           row.plan # "trial" =>
              row.plan = tenant.plan \/ \E s \in SubIds : <<s, row.plan>> \in paidFor,
           row.pastDue = "long" => tenant.pastDue = "long"
    PROVE  IInv'
<1>1. job' \in [Workers -> Job] /\ \A v \in Workers : job'[v] = IF v = w THEN j ELSE job[v]
  BY DEF IInv, TypeOK
<1>2. \A v \in Workers : InFlight(job'[v])
  BY <1>1 DEF IInv, PlanInv
<1>3. CountdownInv'
  BY <1>1 DEF IInv, CountdownInv
<1>4. PaidPlanWasPaid' /\ Known(tenant'.sid)
  BY DEF IInv, PlanInv, PaidPlanWasPaid
<1>. QED BY <1>1, <1>2, <1>3, <1>4, QuietStep DEF IInv, TypeOK

LEMMA IdleIsJob == Idle \in Job /\ InFlight(Idle) /\ Idle.at = "idle"
BY DEF Idle, Job, InFlight

LEMMA StripeStep == IInv /\ StripeActs => IInv'
<1>. SUFFICES ASSUME IInv, StripeActs PROVE IInv'
  OBVIOUS
<1>1. ASSUME NEW s \in SubIds, External(s) PROVE IInv'
  <2>1. PICK now \in Sub, kinds \in SUBSET Kinds :
           SoundChange(s, now, kinds) /\ ExternalChange(s, now, kinds)
    BY <1>1, ExternalIsSound
  <2>2. Change(s, now, kinds) /\ tenant' = tenant /\ job' = job
    BY <2>1 DEF ExternalChange
  <2>3. tenant \in Row /\ job \in [Workers -> Job]
    BY DEF IInv, TypeOK
  <2>. QED BY <2>1, <2>2, <2>3, ChangeStep
<1>2. ASSUME NEW e \in events, Lose(e) PROVE IInv'
  <2>1. /\ events' \subseteq events /\ faults' \in Nat
        /\ UNCHANGED <<sub, second, changes, tenant, trial, job, paidFor>>
    BY <1>2 DEF Lose, IInv, TypeOK
  <2>2. PaidPlanWasPaid' /\ CountdownInv' /\ Known(tenant'.sid)
        /\ \A w \in Workers : InFlight(job'[w])
    BY <2>1 DEF IInv, PlanInv, PaidPlanWasPaid, CountdownInv
  <2>. QED BY <2>1, <2>2, QuietStep DEF IInv, TypeOK
<1>3. CASE Tick
  <2>1. second' \in Nat /\ UNCHANGED <<sub, events, changes, tenant, trial, job, faults, paidFor>>
    BY <1>3 DEF Tick, IInv, TypeOK
  <2>2. PaidPlanWasPaid' /\ CountdownInv' /\ Known(tenant'.sid)
        /\ \A w \in Workers : InFlight(job'[w])
    BY <2>1 DEF IInv, PlanInv, PaidPlanWasPaid, CountdownInv
  <2>. QED BY <2>1, <2>2, QuietStep DEF IInv, TypeOK
<1>4. CASE TimePasses
  <2>1. /\ second' \in Nat /\ trial' \in {"running", "grace", "over"}
        /\ UNCHANGED <<sub, events, changes, job, faults, paidFor>>
    BY <1>4 DEF TimePasses, IInv, TypeOK
  <2>2. tenant' \in Row /\ tenant'.plan = tenant.plan /\ tenant'.sid = tenant.sid
    BY <1>4 DEF TimePasses, IInv, TypeOK, Row
  <2>3. \A w \in Workers : job'[w] = Idle
    BY <1>4, <2>1 DEF TimePasses
  <2>4. CountdownInv' /\ \A w \in Workers : InFlight(job'[w])
    BY <2>3, IdleIsJob DEF CountdownInv
  <2>5. PaidPlanWasPaid' /\ Known(tenant'.sid)
    BY <2>1, <2>2 DEF IInv, PlanInv, PaidPlanWasPaid
  <2>. QED BY <2>1, <2>2, <2>4, <2>5, QuietStep DEF IInv, TypeOK
<1>. QED BY <1>1, <1>2, <1>3, <1>4 DEF StripeActs, External

LEMMA WorkersSplit == Handlers \subseteq Workers /\ Sweepers \subseteq Workers
BY DEF Workers

LEMMA DeliverStep ==
    ASSUME IInv, NEW w \in Handlers, NEW e \in events, Deliver(w, e) PROVE IInv'
<1>0. w \in Workers /\ e \in Event /\ tenant \in Row /\ Backed(e) /\ Known(tenant.sid) /\ faults \in Nat
  BY WorkersSplit DEF IInv, TypeOK, PlanInv
<1>1. CASE ShouldApply(tenant, e) /\ ~Defers(e)
  <2>. DEFINE j == [at |-> "save", event |-> e, row |-> tenant]
  <2>1. j \in Job /\ j.at = "save" /\ j.row = tenant /\ j.event = e
    BY <1>0 DEF Job
  <2>2. /\ job' = [job EXCEPT ![w] = j]
        /\ UNCHANGED <<sub, events, second, changes, tenant, trial, faults, paidFor>>
    BY <1>1 DEF Deliver
  <2>. HIDE DEF j
  <2>3. InFlight(j)
    BY <1>0, <1>1, <2>1 DEF InFlight
  <2>. QED BY <1>0, <2>1, <2>2, <2>3, WorkerMoves
<1>2. CASE ~(ShouldApply(tenant, e) /\ ~Defers(e))
  <2>1. /\ events' \subseteq events
        /\ UNCHANGED <<sub, second, changes, tenant, trial, job, faults, paidFor>>
    BY <1>2 DEF Deliver
  <2>2. PaidPlanWasPaid' /\ CountdownInv' /\ Known(tenant'.sid)
        /\ \A v \in Workers : InFlight(job'[v])
    BY <2>1 DEF IInv, PlanInv, PaidPlanWasPaid, CountdownInv
  <2>. QED BY <2>1, <2>2, QuietStep DEF IInv, TypeOK
<1>. QED BY <1>1, <1>2

LEMMA SaveStep ==
    ASSUME IInv, NEW w \in Workers, Save(w)
    PROVE  IInv' /\ (tenant.pastDue = "long" => tenant'.pastDue # "recent")
<1>. DEFINE e == job[w].event
            row == job[w].row
            r == Handled(tenant, row, e)
            j == [at |-> "close", event |-> e]
<1>1. /\ job[w].at = "save" /\ job[w] \in Job /\ InFlight(job[w])
      /\ tenant \in Row /\ Known(tenant.sid)
      /\ row.pastDue = "none" => tenant.pastDue # "long"
  BY DEF Save, IInv, TypeOK, PlanInv, CountdownInv
<1>2. e \in Event /\ row \in Row /\ Backed(e) /\ ~Defers(e)
  BY <1>1 DEF Job, InFlight
<1>3. /\ tenant' = r /\ job' = [job EXCEPT ![w] = j]
      /\ UNCHANGED <<sub, events, second, changes, trial, faults, paidFor>>
  BY DEF Save
<1>4. j \in Job /\ j.at = "close" /\ j.event = e
  BY <1>2 DEF Job
<1>. HIDE DEF e, row, j
<1>5. Sound(e) /\ Known(e.id) /\ e.id \in SubIds /\ (e.was.status = "active" => <<e.id, e.was.plan>> \in paidFor)
  BY <1>2 DEF Backed, Event, Paid
<1>6. /\ r \in Row
      /\ r.plan # "trial" =>
           r.plan = tenant.plan \/ (e.was.status = "active" /\ r.plan = e.was.plan)
      /\ r.pastDue = "recent" => tenant.pastDue = "recent" \/ row.pastDue = "none"
      /\ r.pastDue = "long" => tenant.pastDue = "long"
      /\ r.sid \in {tenant.sid, e.id}
  BY <1>1, <1>2, <1>5, HandledIsRow
<1>. HIDE DEF r
<1>7. InFlight(j) /\ j.at # "save"
  BY <1>2, <1>4 DEF InFlight
<1>8. Known(r.sid)
  BY <1>1, <1>5, <1>6
<1>9. r.plan # "trial" => r.plan = tenant.plan \/ \E s \in SubIds : <<s, r.plan>> \in paidFor
  BY <1>5, <1>6
<1>10. IInv'
  BY <1>3, <1>4, <1>6, <1>7, <1>8, <1>9, RowSaved
<1>11. tenant.pastDue = "long" => tenant'.pastDue # "recent"
  BY <1>1, <1>3, <1>6
<1>. QED BY <1>10, <1>11

LEMMA BackToIdle ==
    ASSUME IInv, NEW w \in Workers, Close(w) \/ Crash(w) PROVE IInv'
<1>1. /\ job' = [job EXCEPT ![w] = Idle] /\ events' \subseteq events /\ faults' \in Nat
      /\ UNCHANGED <<sub, second, changes, tenant, trial, paidFor>>
  BY DEF Close, Crash, IInv, TypeOK
<1>2. Idle \in Job /\ InFlight(Idle) /\ Idle.at # "save"
  BY IdleIsJob
<1>. QED BY <1>1, <1>2, WorkerMoves

LEMMA SweepReadsStep ==
    ASSUME IInv, NEW w \in Workers, SweepReads(w) PROVE IInv'
<1>. DEFINE j == [at |-> "fetch", row |-> tenant]
<1>1. j \in Job /\ j.at = "fetch" /\ j.row = tenant /\ faults \in Nat /\ Known(tenant.sid)
  BY DEF Job, IInv, TypeOK, PlanInv
<1>2. job' = [job EXCEPT ![w] = j] /\ UNCHANGED <<sub, events, second, changes, tenant, trial, faults, paidFor>>
  BY DEF SweepReads
<1>. HIDE DEF j
<1>3. InFlight(j) /\ j.at # "save"
  BY <1>1 DEF InFlight
<1>. QED BY <1>1, <1>2, <1>3, WorkerMoves

LEMMA SweepFetchesStep ==
    ASSUME IInv, NEW w \in Workers, SweepFetches(w) PROVE IInv'
<1>0. /\ job[w].at = "fetch" /\ job[w] \in Job /\ InFlight(job[w]) /\ faults \in Nat
      /\ UNCHANGED <<sub, events, second, changes, tenant, trial, faults, paidFor>>
  BY DEF SweepFetches, IInv, TypeOK, PlanInv
<1>1. job[w].row \in Row /\ Known(job[w].row.sid)
  BY <1>0 DEF Job, InFlight
<1>2. CASE job' = [job EXCEPT ![w] = Idle]
  BY <1>0, <1>2, IdleIsJob, WorkerMoves
<1>3. ASSUME NEW s \in Retrieved(job[w].row),
             job' = [job EXCEPT ![w] = [at |-> "apply", row |-> job[w].row, id |-> s, got |-> sub[s]]]
      PROVE  IInv'
  <2>. DEFINE j == [at |-> "apply", row |-> job[w].row, id |-> s, got |-> sub[s]]
  <2>1. s \in SubIds /\ Known(s)
    <3>1. CASE job[w].row.sid # NoSub
      BY <1>1, <3>1 DEF Retrieved, Row
    <3>2. CASE job[w].row.sid = NoSub
      BY <3>2 DEF Retrieved, Known
    <3>. QED BY <3>1, <3>2
  <2>2. s # NoSub /\ sub[s] \in Sub /\ Paid(s, sub[s])
    BY <2>1 DEF IInv, TypeOK, PlanInv, SubIds, NoSub
  <2>3. j \in Job /\ j.at = "apply" /\ j.row = job[w].row /\ j.id = s /\ j.got = sub[s]
    BY <1>1, <2>1, <2>2 DEF Job
  <2>4. job' = [job EXCEPT ![w] = j]
    BY <1>3
  <2>. HIDE DEF j
  <2>5. InFlight(j) /\ j.at # "save"
    BY <1>1, <2>1, <2>2, <2>3 DEF InFlight, Known
  <2>. QED BY <1>0, <2>3, <2>4, <2>5, WorkerMoves
<1>. QED BY <1>2, <1>3 DEF SweepFetches

LEMMA SweepAppliesStep ==
    ASSUME IInv, NEW w \in Workers, SweepApplies(w)
    PROVE  IInv' /\ tenant'.pastDue = tenant.pastDue
<1>. DEFINE j == job[w]
            r == ApplyState(tenant, j.row, j.id, j.got, SweepTime(second))
<1>1. /\ j.at = "apply" /\ j \in Job /\ InFlight(j) /\ tenant \in Row /\ SweepTime(second) \in Nat
  BY EventTimeIsNat DEF SweepApplies, IInv, TypeOK, PlanInv
<1>2. /\ tenant' = r /\ job' = [job EXCEPT ![w] = Idle]
      /\ UNCHANGED <<sub, events, second, changes, trial, faults, paidFor>>
  BY DEF SweepApplies
<1>3. j.row \in Row /\ j.id \in SubIds /\ j.got \in Sub
  BY <1>1 DEF Job
<1>4. j.got.status # "none" /\ Known(j.id) /\ (j.got.status = "active" => <<j.id, j.got.plan>> \in paidFor)
  BY <1>1 DEF InFlight, Paid
<1>. HIDE DEF j
<1>5. /\ r \in Row /\ r.pastDue = tenant.pastDue /\ r.sid = j.id
      /\ r.plan = tenant.plan \/ (j.got.status = "active" /\ r.plan = j.got.plan)
  <2>. DEFINE s == j.id
              now == j.got
              read == j.row
              time == SweepTime(second)
  <2>1. /\ s \in SubIds /\ now \in Sub /\ now.status # "none" /\ read \in Row
        /\ time \in Nat /\ tenant \in Row
    BY <1>1, <1>3, <1>4
  <2>. HIDE DEF s, now, read, time
  <2>2. /\ ApplyState(tenant, read, s, now, time) \in Row
        /\ ApplyState(tenant, read, s, now, time).pastDue = tenant.pastDue
        /\ ApplyState(tenant, read, s, now, time).sid = s
        /\ \/ ApplyState(tenant, read, s, now, time).plan = tenant.plan
           \/ now.status = "active" /\ ApplyState(tenant, read, s, now, time).plan = now.plan
    BY <2>1, ApplyStateIsRow
  <2>. QED BY <2>2 DEF s, now, read, time
<1>. HIDE DEF r
<1>6. Known(r.sid) /\ (r.plan # "trial" => r.plan = tenant.plan \/ \E s \in SubIds : <<s, r.plan>> \in paidFor)
  BY <1>3, <1>4, <1>5
<1>7. IInv'
  BY <1>2, <1>5, <1>6, IdleIsJob, RowSaved
<1>. QED BY <1>2, <1>5, <1>7

LEMMA OwnerStep ==
    ASSUME IInv, \/ StartCheckout \/ ForgetEnded
                 \/ \E w \in Workers : ScheduleCancel(w) \/ ScheduleResume(w) \/ OwnerSaves(w)
    PROVE  IInv' /\ tenant'.pastDue = tenant.pastDue
<1>0. tenant \in Row /\ job \in [Workers -> Job] /\ sub \in [SubIds -> Sub]
      /\ Known(tenant.sid) /\ (tenant.sid # NoSub => tenant.sid \in SubIds)
  BY DEF IInv, TypeOK, PlanInv, Row
<1>1. CASE StartCheckout
  <2>1. CASE tenant.sid # NoSub /\ sub[tenant.sid].status = "incomplete"
    <3>. DEFINE now == [sub[tenant.sid] EXCEPT !.status = "canceled"]
    <3>1. now \in Sub /\ now.status = "canceled" /\ {"deleted"} \in SUBSET Kinds
      BY <1>0, <2>1 DEF Sub, SubStatus, Kinds
    <3>2. Change(tenant.sid, now, {"deleted"})
      BY <1>1, <2>1 DEF StartCheckout
    <3>. HIDE DEF now
    <3>3. tenant' \in Row /\ tenant'.plan = tenant.plan /\ tenant'.sid = NoSub
          /\ tenant'.pastDue = tenant.pastDue /\ job' = job
      BY <1>0, <1>1, <2>1 DEF StartCheckout, Row
    <3>4. SoundChange(tenant.sid, now, {"deleted"})
      BY <3>1 DEF SoundChange
    <3>. QED BY <1>0, <2>1, <3>1, <3>2, <3>3, <3>4, ChangeStep
  <2>2. CASE ~(tenant.sid # NoSub /\ sub[tenant.sid].status = "incomplete")
    <3>1. /\ tenant' = [tenant EXCEPT !.customer = TRUE]
          /\ UNCHANGED <<sub, events, second, changes, trial, faults, paidFor, job>>
      BY <1>1, <2>2 DEF StartCheckout
    <3>2. tenant' \in Row /\ tenant'.plan = tenant.plan /\ tenant'.sid = tenant.sid
          /\ tenant'.pastDue = tenant.pastDue
      BY <1>0, <3>1 DEF Row
    <3>3. PaidPlanWasPaid' /\ CountdownInv' /\ Known(tenant'.sid)
          /\ \A w \in Workers : InFlight(job'[w])
      BY <3>1, <3>2 DEF IInv, PlanInv, PaidPlanWasPaid, CountdownInv
    <3>. QED BY <3>1, <3>2, <3>3, QuietStep DEF IInv, TypeOK
  <2>. QED BY <2>1, <2>2
<1>2. CASE ForgetEnded
  <2>1. /\ tenant' = [tenant EXCEPT !.sid = NoSub]
        /\ UNCHANGED <<sub, events, second, changes, trial, job, faults, paidFor>>
    BY <1>2 DEF ForgetEnded
  <2>2. tenant' \in Row /\ tenant'.plan = tenant.plan /\ tenant'.sid = NoSub
        /\ tenant'.pastDue = tenant.pastDue
    BY <1>0, <2>1 DEF Row
  <2>3. PaidPlanWasPaid' /\ CountdownInv' /\ Known(tenant'.sid)
        /\ \A w \in Workers : InFlight(job'[w])
    BY <2>1, <2>2 DEF IInv, PlanInv, PaidPlanWasPaid, CountdownInv, Known
  <2>. QED BY <2>1, <2>2, <2>3, QuietStep DEF IInv, TypeOK
<1>3. ASSUME NEW w \in Workers, ScheduleCancel(w) \/ ScheduleResume(w)
      PROVE  IInv' /\ tenant'.pastDue = tenant.pastDue
  <2>1. PICK b \in BOOLEAN, at \in {"cancel", "resume"} :
           /\ tenant.sid # NoSub
           /\ Change(tenant.sid, [sub[tenant.sid] EXCEPT !.atEnd = b], {"updated"})
           /\ job' = [job EXCEPT ![w] = [at |-> at]] /\ tenant' = tenant
    BY <1>3 DEF ScheduleCancel, ScheduleResume
  <2>. DEFINE now == [sub[tenant.sid] EXCEPT !.atEnd = b]
              j == [at |-> at]
  <2>2. now \in Sub /\ now.status # "none" /\ {"updated"} \in SUBSET Kinds
    BY <1>0, <2>1 DEF Sub, SubStatus, Kinds, Known
  <2>3. j \in Job /\ j.at \in {"cancel", "resume"}
    BY DEF Job
  <2>4. Change(tenant.sid, now, {"updated"}) /\ job' = [job EXCEPT ![w] = j]
    BY <2>1
  <2>. HIDE DEF now, j
  <2>5. SoundChange(tenant.sid, now, {"updated"})
    BY <2>2 DEF SoundChange
  <2>6. job' \in [Workers -> Job] /\ \A v \in Workers : job'[v] = job[v] \/ job'[v].at \in {"cancel", "resume"}
    BY <1>0, <2>3, <2>4
  <2>. QED BY <1>0, <2>1, <2>2, <2>4, <2>5, <2>6, ChangeStep
<1>4. ASSUME NEW w \in Workers, OwnerSaves(w)
      PROVE  IInv' /\ tenant'.pastDue = tenant.pastDue
  <2>1. /\ job' = [job EXCEPT ![w] = Idle]
        /\ UNCHANGED <<sub, events, second, changes, trial, faults, paidFor>>
    BY <1>4 DEF OwnerSaves
  <2>2. tenant' \in Row /\ tenant'.plan = tenant.plan /\ tenant'.sid = tenant.sid
        /\ tenant'.pastDue = tenant.pastDue
    BY <1>0, <1>4 DEF OwnerSaves, Row
  <2>3. PICK r \in Row : r = tenant'
    BY <2>2
  <2>4. IInv'
    BY <1>0, <2>1, <2>2, <2>3, IdleIsJob, RowSaved
  <2>. QED BY <2>2, <2>4
<1>. QED BY <1>1, <1>2, <1>3, <1>4

LEMMA NextStep ==
    ASSUME IInv, [Next]_vars
    PROVE  IInv' /\ (tenant.pastDue = "long" => tenant'.pastDue # "recent")
<1>1. CASE StripeActs
  <2>1. tenant.pastDue = "long" => tenant'.pastDue # "recent"
    <3>1. CASE TimePasses
      BY <3>1 DEF TimePasses, IInv, TypeOK, Row
    <3>2. CASE ~TimePasses
      <4>1. tenant' = tenant
        BY <1>1, <3>2 DEF StripeActs, PaymentSucceeds, PaymentFails, StripeGivesUp, SubscriptionEnds,
           PauseOrUnpause, CheckoutCompletes, PlanChanges, ExternalChange, Lose, Tick
      <4>. QED BY <4>1
    <3>. QED BY <3>1, <3>2
  <2>. QED BY <1>1, <2>1, StripeStep
<1>2. CASE StartCheckout \/ ForgetEnded
  BY <1>2, OwnerStep
<1>3. ASSUME NEW w \in Handlers,
             (\E e \in events : Deliver(w, e)) \/ ScheduleCancel(w) \/ ScheduleResume(w)
      PROVE  IInv' /\ (tenant.pastDue = "long" => tenant'.pastDue # "recent")
  <2>1. ASSUME NEW e \in events, Deliver(w, e)
        PROVE  IInv' /\ (tenant.pastDue = "long" => tenant'.pastDue # "recent")
    BY <2>1, DeliverStep DEF Deliver
  <2>2. CASE ScheduleCancel(w) \/ ScheduleResume(w)
    BY <2>2, WorkersSplit, OwnerStep
  <2>. QED BY <1>3, <2>1, <2>2
<1>4. ASSUME NEW w \in Sweepers, SweepReads(w)
      PROVE  IInv' /\ (tenant.pastDue = "long" => tenant'.pastDue # "recent")
  BY <1>4, WorkersSplit, SweepReadsStep DEF SweepReads
<1>5. ASSUME NEW w \in Workers, Proceed(w) \/ Crash(w)
      PROVE  IInv' /\ (tenant.pastDue = "long" => tenant'.pastDue # "recent")
  <2>1. CASE Save(w)
    BY <2>1, SaveStep
  <2>2. CASE Close(w) \/ Crash(w)
    BY <2>2, BackToIdle DEF Close, Crash
  <2>3. CASE SweepFetches(w)
    BY <2>3, SweepFetchesStep DEF SweepFetches
  <2>4. CASE SweepApplies(w)
    BY <2>4, SweepAppliesStep
  <2>5. CASE OwnerSaves(w)
    BY <2>5, OwnerStep
  <2>. QED BY <1>5, <2>1, <2>2, <2>3, <2>4, <2>5 DEF Proceed
<1>6. CASE UNCHANGED vars
  <2>1. /\ UNCHANGED <<sub, events, second, changes, tenant, trial, job, faults, paidFor>>
    BY <1>6 DEF vars
  <2>2. PaidPlanWasPaid' /\ CountdownInv' /\ Known(tenant'.sid)
        /\ \A w \in Workers : InFlight(job'[w])
    BY <2>1 DEF IInv, PlanInv, PaidPlanWasPaid, CountdownInv
  <2>. QED BY <2>1, <2>2, QuietStep DEF IInv, TypeOK
<1>. QED BY <1>1, <1>2, <1>3, <1>4, <1>5, <1>6 DEF Next

\* Every step keeps it, of whichever process.
THEOREM Inductive == Spec => []IInv
<1>1. IInv /\ [Next]_vars => IInv'
  BY NextStep
<1>. QED BY <1>1, InitIInv, PTL DEF Spec

\* Type correctness: whatever order events, sweeps and requests come in, the
\* tenant row holds a value its model declares.
THEOREM TypeCorrect == Spec => []TypeOK
<1>1. IInv => TypeOK
  BY DEF IInv
<1>. QED BY <1>1, Inductive, PTL

\* No order of late, repeated or unpaid events, plan changes, cancellations,
\* crashes and sweeps, by any number of workers, puts a plan on the row that
\* Stripe never confirmed as paid.
THEOREM PlansArePaid == Spec => []PaidPlanWasPaid
<1>1. IInv => PaidPlanWasPaid
  BY DEF IInv, PlanInv
<1>. QED BY <1>1, Inductive, PTL

\* A countdown that has run out is never started again by retries, replays or
\* overlapping handlers: only clearing it in between allows a new one.
THEOREM CountdownHolds == Spec => OverdueNotRestarted
<1>1. IInv /\ [Next]_vars => [tenant.pastDue = "long" => tenant'.pastDue # "recent"]_vars
  BY NextStep
<1>. QED BY <1>1, Inductive, PTL DEF Spec, OverdueNotRestarted


(***************************************************************************)
(* One request at a time.  A handler that overlaps others can save a grace *)
(* period over one it has not seen; without overlaps, what a worker holds  *)
(* of the grace period is what the row says.                               *)
(***************************************************************************)
OneWorker == \A u, v \in Workers : u = v

GraceFresh ==
    \A w \in Workers :
        job[w].at \in {"save", "fetch", "apply"} => job[w].row.grace = tenant.grace

GraceInv == IInv /\ GraceFresh

\* A handler that sees a grace period run out leaves it so or clears it.
LEMMA HandledGrace ==
    ASSUME NEW stored \in Row, NEW row \in Row, NEW e \in Event,
           row.grace = "over", stored.grace = "over"
    PROVE  Handled(stored, row, e).grace \in {"none", "over"}
<1>. DEFINE time == EventTime(e.created)
<1>1. CASE e.kind = "checkout"
  BY <1>1 DEF Handled, Reactivate, Row
<1>2. CASE e.kind = "paid"
  BY <1>2 DEF Handled, Reactivate, Row
<1>3. CASE e.kind = "updated"
  BY <1>3 DEF Handled, ApplyState, Row
<1>4. CASE e.kind = "failed"
  BY <1>4 DEF Handled, Row
<1>5. CASE e.kind = "deleted"
  BY <1>5 DEF Handled, Row, GraceOnce
<1>6. CASE e.kind = "uncollectible"
  BY <1>6 DEF Handled, Row
<1>. QED BY <1>1, <1>2, <1>3, <1>4, <1>5, <1>6 DEF Event, Kinds

\* A step in which no worker that holds a row goes on with it.
LEMMA GraceKept ==
    ASSUME IInv, IInv', GraceFresh,
           tenant'.grace = tenant.grace,
           \A w \in Workers : \/ job'[w] = job[w]
                              \/ job'[w].at \in {"save", "fetch", "apply"} =>
                                    job'[w].row.grace = tenant.grace
    PROVE  GraceFresh'
BY DEF GraceFresh

\* A step that ends a worker's hold of the row, when there is no other worker.
LEMMA GraceLetGo ==
    ASSUME IInv, OneWorker, NEW w \in Workers, NEW j, job' = [job EXCEPT ![w] = j],
           j.at \notin {"save", "fetch", "apply"}
    PROVE  GraceFresh'
BY DEF GraceFresh, OneWorker, IInv, TypeOK

LEMMA GraceStep ==
    ASSUME OneWorker, GraceInv, [Next]_vars
    PROVE  GraceInv' /\ (tenant.grace = "over" => tenant'.grace # "running")
<1>1. IInv /\ IInv' /\ GraceFresh
  BY NextStep DEF GraceInv
<1>2. tenant \in Row /\ job \in [Workers -> Job] /\ job' \in [Workers -> Job]
  BY <1>1 DEF IInv, TypeOK
<1>3. CASE TimePasses
  <2>1. job' = job /\ \A w \in Workers : job[w] = Idle
    BY <1>3 DEF TimePasses
  <2>2. GraceFresh'
    BY <2>1 DEF GraceFresh, Idle
  <2>3. tenant.grace = "over" => tenant'.grace # "running"
    BY <1>2, <1>3 DEF TimePasses, Row
  <2>. QED BY <1>1, <2>2, <2>3 DEF GraceInv
<1>4. CASE StripeActs /\ ~TimePasses
  <2>1. tenant' = tenant /\ job' = job
    BY <1>4 DEF StripeActs, PaymentSucceeds, PaymentFails, StripeGivesUp, SubscriptionEnds,
       PauseOrUnpause, CheckoutCompletes, PlanChanges, ExternalChange, Lose, Tick
  <2>. QED BY <1>1, <2>1 DEF GraceInv, GraceFresh
<1>5. CASE StartCheckout \/ ForgetEnded
  <2>1. tenant'.grace = tenant.grace /\ job' = job
    BY <1>2, <1>5 DEF StartCheckout, ForgetEnded, Row
  <2>. QED BY <1>1, <2>1 DEF GraceInv, GraceFresh
<1>6. ASSUME NEW w \in Workers, (\E e \in events : Deliver(w, e)) \/ SweepReads(w)
      PROVE  GraceInv' /\ (tenant.grace = "over" => tenant'.grace # "running")
  <2>1. tenant' = tenant
    BY <1>6 DEF Deliver, SweepReads
  <2>2. \/ job' = job
        \/ \E e \in events : job' = [job EXCEPT ![w] = [at |-> "save", event |-> e, row |-> tenant]]
        \/ job' = [job EXCEPT ![w] = [at |-> "fetch", row |-> tenant]]
    BY <1>6 DEF Deliver, SweepReads
  <2>3. \A v \in Workers : \/ job'[v] = job[v]
                           \/ job'[v].at \in {"save", "fetch", "apply"} =>
                                 job'[v].row.grace = tenant.grace
    BY <1>2, <2>2
  <2>. QED BY <1>1, <2>1, <2>3, GraceKept DEF GraceInv
<1>7. ASSUME NEW w \in Workers, ScheduleCancel(w) \/ ScheduleResume(w)
      PROVE  GraceInv' /\ (tenant.grace = "over" => tenant'.grace # "running")
  <2>1. tenant' = tenant
    BY <1>7 DEF ScheduleCancel, ScheduleResume
  <2>2. \E at \in {"cancel", "resume"} : job' = [job EXCEPT ![w] = [at |-> at]]
    BY <1>7 DEF ScheduleCancel, ScheduleResume
  <2>3. GraceFresh'
    BY <1>1, <2>2, GraceLetGo
  <2>. QED BY <1>1, <2>1, <2>3 DEF GraceInv
<1>8. ASSUME NEW w \in Workers, Save(w)
      PROVE  GraceInv' /\ (tenant.grace = "over" => tenant'.grace # "running")
  <2>1. /\ job[w].at = "save" /\ job[w] \in Job /\ job[w].row.grace = tenant.grace
        /\ tenant' = Handled(tenant, job[w].row, job[w].event)
        /\ job' = [job EXCEPT ![w] = [at |-> "close", event |-> job[w].event]]
    BY <1>1, <1>2, <1>8 DEF Save, GraceFresh
  <2>2. job[w].row \in Row /\ job[w].event \in Event
    BY <2>1 DEF Job
  <2>3. tenant.grace = "over" => tenant'.grace \in {"none", "over"}
    <3>1. PICK row \in Row, e \in Event : row = job[w].row /\ e = job[w].event
      BY <2>2
    <3>. QED BY <1>2, <2>1, <3>1, HandledGrace
  <2>4. GraceFresh'
    BY <1>1, <2>1, GraceLetGo
  <2>. QED BY <1>1, <2>3, <2>4 DEF GraceInv
<1>9. ASSUME NEW w \in Workers, Close(w) \/ Crash(w)
      PROVE  GraceInv' /\ (tenant.grace = "over" => tenant'.grace # "running")
  <2>1. tenant' = tenant /\ job' = [job EXCEPT ![w] = Idle]
    BY <1>9 DEF Close, Crash
  <2>2. GraceFresh'
    BY <1>1, <2>1, IdleIsJob, GraceLetGo
  <2>. QED BY <1>1, <2>1, <2>2 DEF GraceInv
<1>10. ASSUME NEW w \in Workers, SweepFetches(w)
       PROVE  GraceInv' /\ (tenant.grace = "over" => tenant'.grace # "running")
  <2>1. tenant' = tenant /\ job[w].row.grace = tenant.grace
    BY <1>1, <1>10 DEF SweepFetches, GraceFresh
  <2>2. \/ job' = [job EXCEPT ![w] = Idle]
        \/ \E s \in SubIds : job' = [job EXCEPT ![w] = [at |-> "apply", row |-> job[w].row,
                                                       id |-> s, got |-> sub[s]]]
    <3>1. Retrieved(job[w].row) \subseteq SubIds \cup {job[w].row.sid}
      BY DEF Retrieved
    <3>2. job[w] \in Job /\ job[w].at = "fetch"
      BY <1>2, <1>10 DEF SweepFetches
    <3>3. job[w].row.sid # NoSub => job[w].row.sid \in SubIds
      BY <3>2 DEF Job, Row
    <3>4. Retrieved(job[w].row) \subseteq SubIds
      BY <3>1, <3>3 DEF Retrieved
    <3>. QED BY <1>10, <3>4 DEF SweepFetches
  <2>3. \A v \in Workers : \/ job'[v] = job[v]
                           \/ job'[v].at \in {"save", "fetch", "apply"} =>
                                 job'[v].row.grace = tenant.grace
    BY <1>2, <2>1, <2>2, IdleIsJob
  <2>. QED BY <1>1, <2>1, <2>3, GraceKept DEF GraceInv
<1>11. ASSUME NEW w \in Workers, SweepApplies(w)
       PROVE  GraceInv' /\ (tenant.grace = "over" => tenant'.grace # "running")
  <2>1. /\ job[w].row.grace = tenant.grace /\ job' = [job EXCEPT ![w] = Idle]
        /\ tenant' = ApplyState(tenant, job[w].row, job[w].id, job[w].got, SweepTime(second))
    BY <1>1, <1>11 DEF SweepApplies, GraceFresh
  <2>2. tenant.grace = "over" => tenant'.grace \in {"none", "over"}
    BY <1>2, <2>1 DEF ApplyState, Row
  <2>3. GraceFresh'
    BY <1>1, <2>1, IdleIsJob, GraceLetGo
  <2>. QED BY <1>1, <2>2, <2>3 DEF GraceInv
<1>12. ASSUME NEW w \in Workers, OwnerSaves(w)
       PROVE  GraceInv' /\ (tenant.grace = "over" => tenant'.grace # "running")
  <2>1. job' = [job EXCEPT ![w] = Idle]
    BY <1>12 DEF OwnerSaves
  <2>2. tenant'.grace \in {"none", tenant.grace}
    BY <1>2, <1>12 DEF OwnerSaves, Row
  <2>3. GraceFresh'
    BY <1>1, <2>1, IdleIsJob, GraceLetGo
  <2>. QED BY <1>1, <2>2, <2>3 DEF GraceInv
<1>13. CASE UNCHANGED vars
  <2>1. tenant' = tenant /\ job' = job
    BY <1>13 DEF vars
  <2>. QED BY <1>1, <2>1 DEF GraceInv, GraceFresh
<1>. QED
  BY <1>3, <1>4, <1>5, <1>6, <1>7, <1>8, <1>9, <1>10, <1>11, <1>12, <1>13, WorkersSplit DEF Next, Proceed

\* With one request at a time, in any order and wherever it dies, a grace period
\* that has run out is not started again: not by replays, not by the second of
\* two events of the same lapse, not by the sweep.
THEOREM GraceHolds == OneWorker => (Spec => GraceNotRestarted)
<1>. SUFFICES ASSUME OneWorker PROVE Spec => GraceNotRestarted
  OBVIOUS
<1>1. Init => GraceInv
  BY InitIInv DEF Init, GraceInv, GraceFresh, Idle
<1>2. GraceInv /\ [Next]_vars => GraceInv'
  BY GraceStep
<1>3. GraceInv /\ [Next]_vars => [tenant.grace = "over" => tenant'.grace # "running"]_vars
  BY GraceStep
<1>. QED BY <1>1, <1>2, <1>3, PTL DEF Spec, GraceNotRestarted
=============================================================================
