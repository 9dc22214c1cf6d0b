------------------------- MODULE MC_StripePayments -------------------------
(* TLC instances of StripePayments. *)
EXTENDS StripePayments, TLC

CONSTANTS w1, w2, i1, i2, s1, s2, a1, a2

Concurrency == Permutations(Workers) \cup Permutations(Sessions)

InTrash == \E i \in Invoices : invoice[i].deleted
Voided == \E i \in Invoices : invoice[i].status = "CANCELLED"
Reconnected == account # NewSession.account
Disturbances == {d \in {"trash", "void", "account", "fault"} :
  CASE d = "trash" -> InTrash [] d = "void" -> Voided [] d = "account" -> Reconnected
    [] d = "fault" -> faults > 0}

LeftUnsettled ==
  \/ \E s \in Sessions : attempt[s] = "COMPLETE" /\ ~Settled(s)
  \/ \E e \in Events : log[e] \in {"processed", "ignored"} /\ ~Settled(e.s)

(* Bounds: one of the disturbances at a time, two jobs overlap unless the invoice *)
(* is in the trash, the account has changed or one of these has left something    *)
(* unsettled, and sessions are opened before the account changes.                 *)
ShopOrWorkers ==
  /\ Cardinality(Disturbances) <= 1
  /\ InTrash \/ Reconnected \/ LeftUnsettled =>
        Cardinality({w \in Workers : job[w] # Idle}) <= 1
  /\ \A s \in Sessions : session[s].account = NewSession.account
=============================================================================
