---------------------------- MODULE OnlineMoney ----------------------------
(***************************************************************************)
(* What the shop is promised about online payments, with no webhook, sweep *)
(* or retry in sight (docs/strategy/BILLING_RELIABILITY_PLAN.md): a charge *)
(* is entered in the books at most once, nothing is entered that was not   *)
(* charged, and in the end every charge is either entered or set aside     *)
(* because its invoice was paid for already.  (That the shop then hears of *)
(* it is tried once and not promised: see AlertShop of StripePayments.)    *)
(***************************************************************************)
EXTENDS Naturals

CONSTANT Sessions   \* one possible charge each

VARIABLES
  charged,   \* what Stripe took from customers
  credits,   \* credits[s]: how many Payment rows stand for charge s
  refused    \* charges that were set aside

books == <<charged, credits, refused>>

Init == charged = {} /\ credits = [s \in Sessions |-> 0] /\ refused = {}

Charge(s) ==
  /\ s \notin charged
  /\ charged' = charged \cup {s}
  /\ UNCHANGED <<credits, refused>>

Credit(s) ==
  /\ s \in charged /\ credits[s] = 0
  /\ credits' = [credits EXCEPT ![s] = 1]
  /\ UNCHANGED <<charged, refused>>

(* Not entered, or not again.                                                *)
Refuse(s) ==
  /\ s \in charged
  /\ refused' = refused \cup {s}
  /\ UNCHANGED <<charged, credits>>

(* The first decision about a charge.                                        *)
Settle(s) == credits[s] = 0 /\ s \notin refused /\ (Credit(s) \/ Refuse(s))

Next == \E s \in Sessions : Charge(s) \/ Credit(s) \/ Refuse(s)

Spec == Init /\ [][Next]_books /\ \A s \in Sessions : WF_books(Settle(s))
=============================================================================
