------------------------------- MODULE Loyalty -------------------------------
(***************************************************************************)
(* The points of a shop's customers (apps/rewards_referrals): a cached     *)
(* balance beside a ledger of point transactions; completed jobs and       *)
(* referrals earn, redemptions spend, a cancelled redemption refunds, cron *)
(* expires, and a repair command rewrites the cache.                       *)
(*                                                                         *)
(* Every award locks the customer's Reward row and commits the balance and *)
(* the ledger row together, so an award is one step that needs the row     *)
(* free; only the payout of referrals locks several Reward rows.           *)
(* Redemptions are read without a lock and saved as a whole later, except  *)
(* by the cancellation, which locks its row.                               *)
(***************************************************************************)
EXTENDS Integers, Sequences, FiniteSets, FiniteSetsExt

CONSTANTS
    Workers,      \* web workers and management commands
    Customers,    \* companies, each with one Reward row
    Jobs,         \* repairs and replacements
    Redemptions,  \* redemptions that may come to exist
    Nothing,      \* no job, no redemption, no customer
    OwnerOf,      \* the customer of each job
    PerJob,       \* points_per_repair
    Bonus,        \* milestone, referral and welcome bonus
    Cost,         \* points_required of the reward option
    Milestone,    \* number of completed jobs that earns the milestone bonus
    Ops,          \* the kinds of requests that are made
    MaxFaults     \* bound: processes that die

ASSUME LoyaltyAssumption ==
    /\ OwnerOf \in [Jobs -> Customers]
    /\ PerJob \in Nat /\ Bonus \in Nat /\ Cost \in Nat
    /\ Milestone \in Nat /\ MaxFaults \in Nat
    /\ Nothing \notin Customers \cup Jobs \cup Redemptions

VARIABLES
    points,      \* Reward.points, the cached balance
    ledger,      \* the PointTransactions of a customer, oldest first
    redemption,  \* the RewardRedemption rows
    job,         \* what each job has come to
    referral,    \* the Referral of a pair <<referrer, referred>>, one for each pair
    active,      \* LoyaltyConfig.is_active
    task,        \* what each worker is doing
    history,     \* history: what has happened that the properties set apart
    faults       \* processes that have died

vars == <<points, ledger, redemption, job, referral, active, task, history, faults>>

Referrals == {p \in Customers \X Customers : p[1] # p[2]}
Kinds == {"job", "milestone", "referrer", "welcome", "adjust", "redeem", "refund", "expire"}

\* An entry with an expiry date becomes due, and is marked expired by the cron job.
Entry == [kind : Kinds, of : Redemptions \cup Customers \cup {Nothing},
          amount : Int, after : Int, life : {"never", "later", "due", "expired"}]
RedemptionStatus == {"PENDING", "APPROVED", "FULFILLED", "REJECTED"}
Row == [status : RedemptionStatus \cup {"none"}, customer : Customers \cup {Nothing},
        job : Jobs \cup {Nothing}]
Saves == [id : Redemptions, was : Row, now : Row]

Task ==
         [at : {"idle"}]
    \cup [at : {"settle", "earn", "milestone", "refer"}, job : Jobs]
    \cup [at : {"save"}, saves : SUBSET Saves, after : {"idle", "earn"}, job : Jobs \cup {Nothing}]
    \cup [at : {"deny"}, saves : SUBSET Saves, job : Jobs]
    \cup [at : {"payout"}, customer : Customers, due : SUBSET Referrals,
          asked : SUBSET Customers, locked : SUBSET Customers]
    \cup [at : {"cancel"}, id : Redemptions]
    \cup [at : {"expire"}, customer : Customers, rows : SUBSET (Nat \ {0})]
    \cup [at : {"fix"}, customer : Customers, sum : Int]

TypeOK ==
    /\ points \in [Customers -> Int]
    /\ ledger \in [Customers -> Seq(Entry)]
    /\ redemption \in [Redemptions -> Row]
    /\ job \in [Jobs -> {"open", "completed", "denied"}]
    /\ referral \in [Referrals -> {"none", "PENDING", "AWARDED"}]
    /\ active \in BOOLEAN
    /\ task \in [Workers -> Task]
    /\ history \in [{"stale", "forced", "fixed", "off"} -> BOOLEAN]
    /\ faults \in Nat

Idle == [at |-> "idle"]
NoRow == [status |-> "none", customer |-> Nothing, job |-> Nothing]

Init ==
    /\ points = [c \in Customers |-> 0]
    /\ ledger = [c \in Customers |-> <<>>]
    /\ redemption = [r \in Redemptions |-> NoRow]
    /\ job = [j \in Jobs |-> "open"]
    /\ referral = [p \in Referrals |-> "none"]
    /\ active = TRUE
    /\ task = [w \in Workers |-> Idle]
    /\ history = [h \in {"stale", "forced", "fixed", "off"} |-> FALSE]
    /\ faults = 0

-----------------------------------------------------------------------------
(* award_points: the single way to change a balance.                       *)

\* None of these workers holds a lock on the Reward row of c.
RowFree(others, c) ==
    \A v \in others : task[v].at = "payout" => c \notin task[v].locked

\* The redemption is not locked by a cancellation.
RedemptionFree(r) ==
    \A v \in Workers : task[v].at = "cancel" => task[v].id # r

\* Mutant: the entry is written with the balance from before.
EntryBefore(c, kind, of, amount, life) ==
    [kind |-> kind, of |-> of, amount |-> amount, after |-> points[c], life |-> life]

NewEntry(c, kind, of, amount, life) ==
    [kind |-> kind, of |-> of, amount |-> amount, after |-> points[c] + amount, life |-> life]

\* Points that are earned, refunded or given expire if the shop has set a period.
Award(c, kind, of, amount) ==
    \E life \in IF amount > 0 THEN {"never", "later"} ELSE {"never"} :
        /\ points' = [points EXCEPT ![c] = @ + amount]
        /\ ledger' = [ledger EXCEPT ![c] = Append(@, NewEntry(c, kind, of, amount, life))]

\* A program that is switched off awards nothing, and nobody is told.
AwardIfActive(w, c, kind, of, amount) ==
    IF active THEN RowFree(Workers \ {w}, c) /\ Award(c, kind, of, amount)
              ELSE UNCHANGED <<points, ledger>>

-----------------------------------------------------------------------------
(* A job completes: rewards are settled, points earned, referrals paid.    *)

CompleteJob(w, j) ==
    /\ "jobs" \in Ops
    /\ task[w] = Idle
    /\ job[j] = "open" /\ \A v \in Workers : task[v].at = "deny" => task[v].job # j
    /\ job' = [job EXCEPT ![j] = "completed"]
    /\ task' = [task EXCEPT ![w] = [at |-> "settle", job |-> j]]
    /\ UNCHANGED <<points, ledger, redemption, referral, active, history, faults>>

AppliedTo(j) == {r \in Redemptions : redemption[r].job = j}

\* Copies of rewards on the job that are to be FULFILLED.
Fulfilled(S, j) ==
    {[id |-> r, was |-> redemption[r],
      now |-> [redemption[r] EXCEPT !.status = "FULFILLED", !.job = j]] : r \in S}

\* apply_available_rewards: what was applied to the job is fulfilled; if nothing
\* was, shops that opted in use up a waiting reward.
Settle(w) ==
    LET j == task[w].job
        waiting == {r \in Redemptions :
                      redemption[r] = [status |-> "PENDING", customer |-> OwnerOf[j], job |-> Nothing]}
    IN /\ task[w].at = "settle"
       /\ \E S \in IF AppliedTo(j) # {}
                   THEN {{r \in AppliedTo(j) : redemption[r].status = "PENDING"}}
                   ELSE {{}} \cup {{r} : r \in waiting} :
             task' = [task EXCEPT ![w] = IF S = {} THEN [at |-> "earn", job |-> j]
                        ELSE [at |-> "save", saves |-> Fulfilled(S, j), after |-> "earn", job |-> j]]
       /\ UNCHANGED <<points, ledger, redemption, job, referral, active, history, faults>>

\* loyalty_hook.
Earn(w) ==
    /\ task[w].at = "earn"
    /\ AwardIfActive(w, OwnerOf[task[w].job], "job", Nothing, PerJob)
    /\ task' = [task EXCEPT ![w].at = "milestone"]
    /\ UNCHANGED <<redemption, job, referral, active, history, faults>>

\* The completed jobs are counted after the award, whichever have completed by then.
EarnMilestone(w) ==
    LET c == OwnerOf[task[w].job] IN
    /\ task[w].at = "milestone"
    /\ IF Cardinality({j \in Jobs : OwnerOf[j] = c /\ job[j] = "completed"}) = Milestone
       THEN AwardIfActive(w, c, "milestone", Nothing, Bonus)
       ELSE UNCHANGED <<points, ledger>>
    /\ task' = [task EXCEPT ![w].at = "refer"]
    /\ UNCHANGED <<redemption, job, referral, active, history, faults>>

-----------------------------------------------------------------------------
(* award_referral_bonuses: one transaction over several Reward rows.       *)

Entries(c, kind, of) ==
    {i \in DOMAIN ledger[c] : ledger[c][i].kind = kind /\ ledger[c][i].of = of}

\* Whom a payout for c asks award_points for: the referrers, and c once.
ToPay(c, due) ==
    {p[1] : p \in due} \cup (IF Entries(c, "welcome", c) = {} THEN {c} ELSE {})

\* Mutant: the pending referrals are read without locking them.
MayPayUnlocked(c) == TRUE

\* The rows of the pending referrals are locked until the payout ends.
MayPay(c) == \A v \in Workers : task[v].at = "payout" => task[v].customer # c

OpenPayout(w) ==
    LET c == OwnerOf[task[w].job]
        due == {p \in Referrals : p[2] = c /\ referral[p] = "PENDING"}
    IN /\ task[w].at = "refer"
       /\ MayPay(c)
       /\ task' = [task EXCEPT ![w] = IF due = {} THEN Idle
                     ELSE [at |-> "payout", customer |-> c, due |-> due,
                           asked |-> {}, locked |-> {}]]
       /\ UNCHANGED <<points, ledger, redemption, job, referral, active, history, faults>>

\* The customers whose turn it is: a referrer, then the company itself, then the rest.
Turn(t) ==
    LET left == ToPay(t.customer, t.due) \ t.asked
    IN IF t.asked # {} /\ t.customer \in left THEN {t.customer} ELSE left \ {t.customer}

LockReward(w) ==
    LET t == task[w] IN
    /\ t.at = "payout"
    /\ \E c \in Turn(t) :
          /\ active => RowFree(Workers \ {w}, c)
          /\ task' = [task EXCEPT ![w].asked = @ \cup {c},
                                  ![w].locked = IF active THEN @ \cup {c} ELSE @]
    /\ UNCHANGED <<points, ledger, redemption, job, referral, active, history, faults>>

\* What was awarded is committed, and the referrals are AWARDED, awarded or not.
CommitPayout(w) ==
    LET t == task[w]
        Gain(c) == [kind |-> IF c = t.customer THEN "welcome" ELSE "referrer", of |-> t.customer,
                    amount |-> Bonus, after |-> points[c] + Bonus, life |-> "never"]
    IN /\ t.at = "payout"
       /\ Turn(t) = {}
       /\ points' = [c \in Customers |-> IF c \in t.locked THEN points[c] + Bonus ELSE points[c]]
       /\ \E life \in {"never", "later"} :
             ledger' = [c \in Customers |-> IF c \in t.locked
                          THEN Append(ledger[c], [Gain(c) EXCEPT !.life = life]) ELSE ledger[c]]
       /\ referral' = [p \in Referrals |-> IF p \in t.due THEN "AWARDED" ELSE referral[p]]
       /\ task' = [task EXCEPT ![w] = Idle]
       /\ UNCHANGED <<redemption, job, active, history, faults>>

\* Two payouts wait for each other's Reward row: PostgreSQL rolls one back, and
\* the hook only logs the error.  The referrals stay PENDING.
BreakDeadlock(w, v) ==
    /\ w # v
    /\ task[w].at = "payout" /\ task[v].at = "payout" /\ active
    /\ Turn(task[w]) # {} /\ Turn(task[w]) \subseteq task[v].locked
    /\ Turn(task[v]) # {} /\ Turn(task[v]) \subseteq task[w].locked
    /\ task' = [task EXCEPT ![w] = Idle]
    /\ UNCHANGED <<points, ledger, redemption, job, referral, active, history, faults>>

\* A Referral is kept for a code and a portal user, and one is checked for before
\* it is created without a constraint: two users of a company, two codes of the
\* other, or one form sent twice make several, and each pays the referrer.  The
\* model has the first of a pair; what is said of it holds of each Referral.
RecordReferral(p) ==
    /\ "refer" \in Ops
    /\ referral[p] = "none"
    /\ referral' = [referral EXCEPT ![p] = "PENDING"]
    /\ UNCHANGED <<points, ledger, redemption, job, active, task, history, faults>>

-----------------------------------------------------------------------------
(* Redemptions.                                                            *)

\* The balance is checked and spent under the lock.  A manager may redeem and
\* apply in one go, to a completed job too, and then the reward may be fulfilled.
\* The portal's request goes on to save the row it created, with the wishes of the
\* customer and with the technician it is given, unlocked: Fulfil's claim holds and
\* saves a copy of a row without a change to its status, and stands for both.
Redeem(c, r) ==
    /\ "redeem" \in Ops
    /\ active /\ redemption[r] = NoRow
    /\ RowFree(Workers, c) /\ points[c] >= Cost
    /\ \E j \in {k \in Jobs : OwnerOf[k] = c} \cup {Nothing}, status \in {"PENDING", "FULFILLED"} :
          /\ status = "FULFILLED" => j # Nothing /\ job[j] = "completed"
          /\ redemption' = [redemption EXCEPT ![r] = [status |-> status, customer |-> c, job |-> j]]
    /\ Award(c, "redeem", r, -Cost)
    /\ UNCHANGED <<job, referral, active, task, history, faults>>

\* A request that will save a copy of r.  No path but the cancellation asks for
\* the status under a lock, and the two pages of staff do not ask for it at all.
Hold(w, r, now) ==
    /\ task' = [task EXCEPT ![w] = [at |-> "save", after |-> "idle", job |-> Nothing,
                                    saves |-> {[id |-> r, was |-> redemption[r], now |-> now]}]]
    /\ history' = [history EXCEPT !["forced"] = @ \/ redemption[r].status = "REJECTED"]
    /\ UNCHANGED <<points, ledger, redemption, job, referral, active, faults>>

\* A reward that is not on a job yet is put on one of the customer.
Apply(w, r, j) ==
    /\ "apply" \in Ops
    /\ task[w] = Idle
    /\ redemption[r].status # "none" /\ redemption[r].job = Nothing
    /\ redemption[r].customer = OwnerOf[j]
    /\ \E status \in {redemption[r].status, "FULFILLED"} :
          /\ status # redemption[r].status => job[j] = "completed"
          /\ Hold(w, r, [redemption[r] EXCEPT !.job = j, !.status = status])

\* The fulfilment page: claimed for a technician, or fulfilled, on a job if wanted.
\* A claim is also what is left to do of a redemption on the portal (see Redeem).
Fulfil(w, r) ==
    /\ "fulfil" \in Ops
    /\ task[w] = Idle
    /\ redemption[r].status # "none"
    /\ \E now \in {redemption[r]} \cup {[redemption[r] EXCEPT !.status = "FULFILLED", !.job = j] :
                                         j \in Jobs \cup {redemption[r].job}} :
          Hold(w, r, now)

\* Every column of the copy is written, after the cancellation that holds the row.
Save(w) ==
    LET t == task[w] IN
    /\ t.at = "save"
    /\ \E s \in t.saves :
          /\ RedemptionFree(s.id)
          /\ redemption' = [redemption EXCEPT ![s.id] = s.now]
          /\ history' = [history EXCEPT !["stale"] = @ \/ redemption[s.id] # s.was]
          /\ task' = [task EXCEPT ![w] =
                        IF t.saves # {s} THEN [t EXCEPT !.saves = @ \ {s}]
                        ELSE IF t.after = "idle" THEN Idle ELSE [at |-> "earn", job |-> t.job]]
    /\ UNCHANGED <<points, ledger, job, referral, active, faults>>

\* The customer denies the job: what was applied to it is APPROVED for another.
OpenDenial(w, j) ==
    /\ "deny" \in Ops
    /\ task[w] = Idle
    /\ job[j] = "open" /\ \A v \in Workers : task[v].at = "deny" => task[v].job # j
    /\ task' = [task EXCEPT ![w] = [at |-> "deny", job |-> j,
                  saves |-> {[id |-> r, was |-> redemption[r],
                              now |-> [redemption[r] EXCEPT !.status = "APPROVED", !.job = Nothing]] :
                             r \in AppliedTo(j)}]]
    /\ UNCHANGED <<points, ledger, redemption, job, referral, active, history, faults>>

CommitDenial(w) ==
    LET t == task[w] IN
    /\ t.at = "deny"
    /\ \A s \in t.saves : RedemptionFree(s.id)
    /\ job' = [job EXCEPT ![t.job] = "denied"]
    /\ redemption' = [r \in Redemptions |->
                        IF \E s \in t.saves : s.id = r
                        THEN (CHOOSE s \in t.saves : s.id = r).now ELSE redemption[r]]
    /\ history' = [history EXCEPT !["stale"] = @ \/ \E s \in t.saves : redemption[s.id] # s.was]
    /\ task' = [task EXCEPT ![w] = Idle]
    /\ UNCHANGED <<points, ledger, referral, active, faults>>

\* Mutant: the status is not asked for once the row is locked.
CancellableUnlessFulfilled(r) == redemption[r].status \in {"PENDING", "REJECTED"}

\* The job is read without a lock.
Cancellable(r) ==
    /\ redemption[r].status = "PENDING"
    /\ redemption[r].job # Nothing => job[redemption[r].job] # "completed"

OpenCancel(w, r) ==
    /\ "cancel" \in Ops
    /\ task[w] = Idle
    /\ active /\ RedemptionFree(r) /\ Cancellable(r)
    /\ task' = [task EXCEPT ![w] = [at |-> "cancel", id |-> r]]
    /\ UNCHANGED <<points, ledger, redemption, job, referral, active, history, faults>>

\* Refund and rejection are one transaction; with the program off neither happens.
CommitCancel(w) ==
    LET r == task[w].id
        c == redemption[r].customer
    IN /\ task[w].at = "cancel"
       /\ AwardIfActive(w, c, "refund", r, Cost)
       /\ redemption' = IF active THEN [redemption EXCEPT ![r].status = "REJECTED", ![r].job = Nothing]
                                  ELSE redemption
       /\ task' = [task EXCEPT ![w] = Idle]
       /\ UNCHANGED <<job, referral, active, history, faults>>

-----------------------------------------------------------------------------
(* The owner and the management commands.                                  *)

\* A deduction is checked against the balance under the lock.
Adjust(c, amount) ==
    /\ "adjust" \in Ops
    /\ active
    /\ RowFree(Workers, c)
    /\ amount < 0 => points[c] + amount >= 0
    /\ Award(c, "adjust", Nothing, amount)
    /\ UNCHANGED <<redemption, job, referral, active, task, history, faults>>

SwitchProgram ==
    /\ "switch" \in Ops
    /\ active' = ~active
    /\ history' = [history EXCEPT !["off"] = TRUE]
    /\ UNCHANGED <<points, ledger, redemption, job, referral, task, faults>>

TimePasses(c) ==
    /\ "expire" \in Ops
    /\ \E i \in DOMAIN ledger[c] :
          /\ ledger[c][i].life = "later"
          /\ ledger' = [ledger EXCEPT ![c][i].life = "due"]
    /\ UNCHANGED <<points, redemption, job, referral, active, task, history, faults>>

Due(c) == {i \in DOMAIN ledger[c] : ledger[c][i].life = "due"}

\* expire_loyalty_points lists the due entries of a customer without a lock.
\* Assumed: one such command at a time, as cron starts it.
OpenExpiry(w, c) ==
    /\ "expire" \in Ops
    /\ task[w] = Idle /\ \A v \in Workers : task[v].at # "expire"
    /\ Due(c) # {}
    /\ task' = [task EXCEPT ![w] = [at |-> "expire", customer |-> c, rows |-> Due(c)]]
    /\ UNCHANGED <<points, ledger, redemption, job, referral, active, history, faults>>

AmountOf(c, rows) ==
    MapThenSumSet(LAMBDA p : p.amount, {[id |-> i, amount |-> ledger[c][i].amount] : i \in rows})

\* Mutant: the deduction is not clamped.
ToExpireInFull(balance, amount) == amount

\* Never below zero by expiry.
ToExpire(balance, amount) == IF balance - amount < 0 THEN balance ELSE amount

\* Mutant: the entries stay due.
MarkedNone(entries, rows) == entries

Marked(entries, rows) ==
    [i \in DOMAIN entries |-> IF i \in rows THEN [entries[i] EXCEPT !.life = "expired"] ELSE entries[i]]

Expire(w) ==
    LET t == task[w]
        c == t.customer
        amount == ToExpire(points[c], AmountOf(c, t.rows))
        entries == Marked(ledger[c], t.rows)
    IN /\ t.at = "expire"
       /\ RowFree(Workers \ {w}, c)
       /\ points' = [points EXCEPT ![c] = @ - amount]
       /\ ledger' = [ledger EXCEPT ![c] = IF amount = 0 THEN entries
                       ELSE Append(entries, NewEntry(c, "expire", Nothing, -amount, "never"))]
       /\ task' = [task EXCEPT ![w] = Idle]
       /\ UNCHANGED <<redemption, job, referral, active, history, faults>>

\* reconcile_loyalty_balances --fix: the sum is read before the balance, and
\* written under the lock without being read again.
OpenFix(w, c) ==
    /\ "fix" \in Ops
    /\ task[w] = Idle
    /\ ledger[c] # <<>>
    /\ task' = [task EXCEPT ![w] = [at |-> "fix", customer |-> c,
                                    sum |-> AmountOf(c, DOMAIN ledger[c])]]
    /\ UNCHANGED <<points, ledger, redemption, job, referral, active, history, faults>>

Fix(w) ==
    LET t == task[w] IN
    /\ t.at = "fix"
    /\ RowFree(Workers \ {w}, t.customer)
    /\ points' = [points EXCEPT ![t.customer] = t.sum]
    /\ history' = [history EXCEPT !["fixed"] = @ \/ points[t.customer] # t.sum]
    /\ task' = [task EXCEPT ![w] = Idle]
    /\ UNCHANGED <<ledger, redemption, job, referral, active, faults>>

-----------------------------------------------------------------------------
\* A process dies or raises: its transaction is rolled back, what it had
\* committed before stays.
Crash(w) ==
    /\ task[w] # Idle
    /\ faults < MaxFaults
    /\ faults' = faults + 1
    /\ task' = [task EXCEPT ![w] = Idle]
    /\ UNCHANGED <<points, ledger, redemption, job, referral, active, history>>

Request(w) ==
    \/ \E j \in Jobs : CompleteJob(w, j) \/ OpenDenial(w, j)
    \/ \E r \in Redemptions :
          \/ OpenCancel(w, r) \/ Fulfil(w, r)
          \/ \E j \in Jobs : Apply(w, r, j)
    \/ \E c \in Customers : OpenExpiry(w, c) \/ OpenFix(w, c)

Proceed(w) ==
    \/ Settle(w) \/ Earn(w) \/ EarnMilestone(w)
    \/ OpenPayout(w) \/ LockReward(w) \/ CommitPayout(w)
    \/ Save(w) \/ CommitDenial(w) \/ CommitCancel(w) \/ Expire(w) \/ Fix(w)

Next ==
    \/ \E w \in Workers :
          \/ Request(w) \/ Proceed(w) \/ Crash(w)
          \/ \E v \in Workers : BreakDeadlock(w, v)
    \/ \E p \in Referrals : RecordReferral(p)
    \/ \E c \in Customers :
          \/ TimePasses(c)
          \/ \E r \in Redemptions : Redeem(c, r)
          \/ \E amount \in {-1, 1} : Adjust(c, amount)
    \/ SwitchProgram

Spec == Init /\ [][Next]_vars

-----------------------------------------------------------------------------
(* Properties.                                                             *)

Balance(c) == IF ledger[c] = <<>> THEN 0 ELSE ledger[c][Len(ledger[c])].after

\* Until --fix has overwritten a balance that has moved, each entry's balance_after
\* is the one before plus its amount and the cached balance is the last one, and
\* so the sum of the ledger, whatever is awarded, spent, refunded and expired at once.
BalanceIsLedger ==
    ~history["fixed"] =>
        \A c \in Customers :
            /\ points[c] = Balance(c)
            /\ \A i \in DOMAIN ledger[c] :
                  ledger[c][i].after = ledger[c][i].amount
                                       + (IF i = 1 THEN 0 ELSE ledger[c][i-1].after)

\* No redemption, deduction or expiry that overlaps another takes a balance below
\* zero, until --fix has overwritten one.
NeverNegative == ~history["fixed"] => \A c \in Customers : points[c] >= 0

Once(S) == \E i \in S : S = {i}

\* Unless a stale copy of a redemption is saved, or one is applied or fulfilled
\* after it was rejected, each redemption has been paid for once and is REJECTED
\* exactly if its points were refunded, once.
RefundMeansRejected ==
    ~history["stale"] /\ ~history["forced"] =>
        \A r \in Redemptions :
            LET c == redemption[r].customer IN
            redemption[r].status # "none" =>
                /\ Once(Entries(c, "redeem", r))
                /\ IF redemption[r].status = "REJECTED" THEN Once(Entries(c, "refund", r))
                                                        ELSE Entries(c, "refund", r) = {}

\* Overlapping completions, deadlocks and crashes included, a referral pays its
\* referrer once, and exactly if it is AWARDED while the program was never off;
\* a company gets one welcome bonus, however many have referred it.  A referrer
\* with several Referrals of one company (see RecordReferral) is paid for each.
ReferralPaysOnce ==
    \A p \in Referrals :
        LET paid == Entries(p[1], "referrer", p[2])
            welcome == Entries(p[2], "welcome", p[2])
        IN /\ paid = {} \/ (Once(paid) /\ referral[p] = "AWARDED")
           /\ welcome = {} \/ Once(welcome)
           /\ referral[p] = "AWARDED" /\ ~history["off"] => paid # {} /\ welcome # {}

\* Expiry never takes more points than the entries it has marked have brought:
\* no entry expires twice.
ExpiresOnce ==
    \A c \in Customers :
        AmountOf(c, {i \in DOMAIN ledger[c] : ledger[c][i].life = "expired"})
          + AmountOf(c, Entries(c, "expire", Nothing)) >= 0

=============================================================================
