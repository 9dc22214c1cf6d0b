----------------------- MODULE StripePayments_proofs -----------------------
(***************************************************************************)
(* Proofs about StripePayments, for every set of workers, invoices,        *)
(* sessions and accounts, whatever goes wrong and however often: type      *)
(* correctness and what the Stripe payments in the ledger are.  When no    *)
(* invoice is deleted and the shop keeps its Connect account, also what a  *)
(* closed attempt, a closed event and a fee record stand for.              *)
(***************************************************************************)
EXTENDS StripePayments, FiniteSetTheorems, WellFoundedInduction, TLAPS

----------------------------------------------------------------------------
(* The SUM(amount) aggregate of InvoiceLedger is a natural number for      *)
(* every finite set of Payment rows, and grows with every row.  PaySum is  *)
(* a fold over the set, a recursive function behind a CHOOSE: the function *)
(* exists, by cardinality, it does not depend on the set it was built for, *)
(* and only then what it returns is looked at.  Each induction is on a     *)
(* least counterexample.                                                   *)

Priced(S) == IsFiniteSet(S) /\ \A p \in S : p.amount \in Nat

Pick(s) == CHOOSE x \in s : TRUE
Step(s, f) == IF s = {} THEN 0 ELSE Pick(s).amount + f[s \ {Pick(s)}]
SumRule(S, f) == f = [s \in SUBSET S |-> Step(s, f)]

(* The fold, spelled out. *)
LEMMA SumUnfold ==
  ASSUME NEW S
  PROVE  PaySum(S) = (CHOOSE f : SumRule(S, f))[S]
BY Zenon DEF PaySum, MapThenSumSet, MapThenFoldSet, SumRule, Step, Pick

(* The row taken out of a non-empty set is one of its rows. *)
LEMMA PickIn ==
  ASSUME NEW s, s # {}
  PROVE  Pick(s) \in s
BY DEF Pick

(* Induction, as the existence of least counterexamples. *)
LEMMA LeastNat ==
  ASSUME NEW B \in SUBSET Nat, B # {}
  PROVE  \E n \in B : \A m \in B : n <= m
<1>1. PICK n \in B : \A m \in B : ~(<<m, n>> \in OpToRel(<, Nat))
  BY NatLessThanWellFounded, WFMin
<1>2. \A m \in B : ~(m < n)
  BY <1>1 DEF OpToRel
<1> QED BY <1>2

(* ... and as the existence of a minimal subset, by cardinality. *)
LEMMA LeastSubset ==
  ASSUME NEW S, IsFiniteSet(S), NEW B \in SUBSET (SUBSET S), B # {}
  PROVE  \E s \in B : \A x \in s : s \ {x} \notin B
<1> DEFINE Sizes == {Cardinality(s) : s \in B}
<1>1. \A s \in B : IsFiniteSet(s) /\ Cardinality(s) \in Nat
  BY FS_Subset, FS_CardinalityType
<1>2. PICK s \in B : \A t \in B : Cardinality(s) <= Cardinality(t)
  <2>1. Sizes \in SUBSET Nat /\ Sizes # {}
    BY <1>1
  <2>2. \E n \in Sizes : \A m \in Sizes : n <= m
    <3> HIDE DEF Sizes
    <3> QED BY <2>1, LeastNat
  <2> QED BY <2>2
<1>3. \A x \in s : Cardinality(s \ {x}) = Cardinality(s) - 1
  BY <1>1, FS_RemoveElement
<1> QED BY <1>1, <1>2, <1>3

(* Subsets of S with at most n elements. *)
Small(S, n) == {s \in SUBSET S : Cardinality(s) <= n}

(* A solution for the small subsets extends to those one row larger. *)
LEMMA RuleExtends ==
  ASSUME NEW S, IsFiniteSet(S), NEW n \in Nat,
         NEW f, f = [s \in Small(S, n) |-> Step(s, f)]
  PROVE  \E g : g = [s \in Small(S, n + 1) |-> Step(s, g)]
<1> DEFINE g == [s \in Small(S, n + 1) |-> Step(s, f)]
<1>1. ASSUME NEW s \in Small(S, n + 1), s # {}
      PROVE  s \ {Pick(s)} \in Small(S, n)
  <2>1. s \in SUBSET S /\ IsFiniteSet(s) /\ Cardinality(s) \in Nat
    BY FS_Subset, FS_CardinalityType DEF Small
  <2>2. Cardinality(s \ {Pick(s)}) = Cardinality(s) - 1
    BY <2>1, <1>1, PickIn, FS_RemoveElement
  <2> QED BY <2>1, <2>2 DEF Small
<1>2. \A s \in Small(S, n) : s \in Small(S, n + 1)
  BY FS_Subset, FS_CardinalityType DEF Small
<1>3. \A s \in Small(S, n) : g[s] = f[s]
  BY <1>2
<1>4. \A s \in Small(S, n + 1) : Step(s, f) = Step(s, g)
  BY <1>1, <1>3 DEF Step
<1>5. g = [s \in Small(S, n + 1) |-> Step(s, g)]
  BY <1>4
<1> QED BY <1>5

(* The recursion that defines the fold has a solution. *)
LEMMA RuleHolds ==
  ASSUME NEW S, IsFiniteSet(S)
  PROVE  SumRule(S, CHOOSE f : SumRule(S, f))
<1> DEFINE Solved(n) == \E f : f = [s \in Small(S, n) |-> Step(s, f)]
           Bad == {n \in Nat : ~Solved(n)}
<1>1. Solved(0)
  <2> DEFINE f == [s \in Small(S, 0) |-> 0]
  <2>1. \A s \in Small(S, 0) : s = {}
    BY FS_Subset, FS_CardinalityType, FS_EmptySet DEF Small
  <2>2. \A s \in Small(S, 0) : Step(s, f) = 0
    BY <2>1 DEF Step
  <2>3. f = [s \in Small(S, 0) |-> Step(s, f)]
    BY <2>2
  <2> QED BY <2>3
<1>2. ASSUME NEW n \in Nat, Solved(n) PROVE Solved(n + 1)
  BY <1>2, RuleExtends
<1>3. Bad = {}
  <2> SUFFICES ASSUME Bad # {} PROVE FALSE
    OBVIOUS
  <2>1. PICK n \in Bad : \A m \in Bad : n <= m
    <3>1. Bad \in SUBSET Nat
      OBVIOUS
    <3> HIDE DEF Bad
    <3> QED BY <3>1, LeastNat
  <2>2. n \in Nat /\ n # 0 /\ ~Solved(n)
    BY <2>1, <1>1
  <2>3. n - 1 \in Nat /\ n - 1 \notin Bad /\ (n - 1) + 1 = n
    BY <2>1, <2>2
  <2>4. Solved(n - 1)
    BY <2>3
  <2>5. Solved((n - 1) + 1)
    BY <2>3, <2>4, <1>2
  <2> QED BY <2>2, <2>3, <2>5
<1>4. Cardinality(S) \in Nat /\ Solved(Cardinality(S))
  BY <1>3, FS_CardinalityType
<1>5. Small(S, Cardinality(S)) = SUBSET S
  BY FS_Subset, FS_CardinalityType DEF Small
<1>6. \E f : SumRule(S, f)
  BY <1>4, <1>5 DEF SumRule
<1> QED BY <1>6

(* How the fold runs over any subset of the rows it was built for. *)
LEMMA FoldStep ==
  ASSUME NEW S, NEW f, SumRule(S, f), NEW s \in SUBSET S
  PROVE  f[s] = Step(s, f)
BY DEF SumRule

(* It returns a natural number. *)
LEMMA FoldNat ==
  ASSUME NEW S, Priced(S), NEW f, SumRule(S, f)
  PROVE  \A s \in SUBSET S : f[s] \in Nat
<1> DEFINE Bad == {s \in SUBSET S : f[s] \notin Nat}
<1> SUFFICES ASSUME Bad # {} PROVE FALSE
  OBVIOUS
<1>1. PICK s \in Bad : \A x \in s : s \ {x} \notin Bad
  BY LeastSubset DEF Priced
<1>2. s # {} /\ f[s] = Step(s, f)
  BY FoldStep DEF Step
<1>3. Pick(s) \in s /\ Pick(s).amount \in Nat
  BY <1>2, PickIn DEF Priced
<1>4. f[s \ {Pick(s)}] \in Nat
  BY <1>1, <1>3
<1> QED BY <1>2, <1>3, <1>4 DEF Step

(* It does not depend on the larger set it was built for. *)
LEMMA FoldAgrees ==
  ASSUME NEW S, IsFiniteSet(S), NEW f, SumRule(S, f),
         NEW T \in SUBSET S, NEW g, SumRule(T, g)
  PROVE  \A s \in SUBSET T : f[s] = g[s]
<1> DEFINE Bad == {s \in SUBSET T : f[s] # g[s]}
<1> SUFFICES ASSUME Bad # {} PROVE FALSE
  OBVIOUS
<1>1. PICK s \in Bad : \A x \in s : s \ {x} \notin Bad
  BY LeastSubset, FS_Subset
<1>2. f[s] = Step(s, f) /\ g[s] = Step(s, g)
  BY FoldStep
<1>3. s # {}
  BY <1>2 DEF Step
<1>4. f[s \ {Pick(s)}] = g[s \ {Pick(s)}]
  BY <1>1, <1>3, PickIn
<1> QED BY <1>2, <1>3, <1>4 DEF Step

(* PaySum is the fold over the whole set. *)
LEMMA PaySumFold ==
  ASSUME NEW S, IsFiniteSet(S), NEW f, SumRule(S, f), NEW s \in SUBSET S
  PROVE  PaySum(s) = f[s]
<1> DEFINE g == CHOOSE h : SumRule(s, h)
<1>1. IsFiniteSet(s)
  BY FS_Subset
<1>2. SumRule(s, g)
  BY <1>1, RuleHolds
<1>3. f[s] = g[s]
  BY <1>2, FoldAgrees
<1> QED BY <1>3, SumUnfold

(* amount_paid is a natural number.                                         *)
LEMMA PaySumNat ==
  ASSUME NEW S, Priced(S)
  PROVE  PaySum(S) \in Nat
<1> DEFINE f == CHOOSE h : SumRule(S, h)
<1>1. SumRule(S, f)
  BY RuleHolds DEF Priced
<1> QED BY <1>1, FoldNat, SumUnfold

(* No payments add up to nothing.                                           *)
LEMMA PaySumEmpty == PaySum({}) = 0
<1> DEFINE f == CHOOSE h : SumRule({}, h)
<1>1. SumRule({}, f)
  BY RuleHolds, FS_EmptySet
<1>2. f[{}] = 0
  BY <1>1, FoldStep DEF Step
<1> QED BY <1>2, SumUnfold

(* PaySum takes the picked row out first. *)
LEMMA PaySumPick ==
  ASSUME NEW S, Priced(S), S # {}
  PROVE  PaySum(S) = Pick(S).amount + PaySum(S \ {Pick(S)})
<1> DEFINE f == CHOOSE h : SumRule(S, h)
<1>1. SumRule(S, f)
  BY RuleHolds DEF Priced
<1>2. f[S] = Pick(S).amount + f[S \ {Pick(S)}]
  BY <1>1, FoldStep DEF Step
<1>3. PaySum(S) = f[S] /\ PaySum(S \ {Pick(S)}) = f[S \ {Pick(S)}]
  BY <1>1, PaySumFold DEF Priced
<1> QED BY <1>2, <1>3

(* ... and so any other.                                                    *)
LEMMA PaySumRemove ==
  ASSUME NEW S, Priced(S), NEW p \in S
  PROVE  PaySum(S) = p.amount + PaySum(S \ {p})
<1> DEFINE Holds(s, x) == PaySum(s) = x.amount + PaySum(s \ {x})
           Bad == {s \in SUBSET S : \E x \in s : ~Holds(s, x)}
<1> SUFFICES ASSUME Bad # {} PROVE FALSE
  OBVIOUS
<1>0. \A s \in SUBSET S : Priced(s)
  BY FS_Subset DEF Priced
<1>1. PICK s \in Bad : \A x \in s : s \ {x} \notin Bad
  <2> HIDE DEF Bad
  <2>1. Bad \in SUBSET (SUBSET S)
    BY DEF Bad
  <2> QED BY <2>1, LeastSubset DEF Priced
<1>2. PICK x \in s : ~Holds(s, x)
  OBVIOUS
<1>3. PICK y \in s : y = Pick(s)
  BY PickIn
<1>4. Holds(s, y)
  BY <1>0, <1>3, PaySumPick
<1>5. y # x
  BY <1>2, <1>4
<1>6. Holds(s \ {y}, x) /\ Holds(s \ {x}, y)
  BY <1>1, <1>5
<1>7. (s \ {y}) \ {x} = (s \ {x}) \ {y}
  OBVIOUS
<1>8. x.amount \in Nat /\ y.amount \in Nat /\ PaySum((s \ {x}) \ {y}) \in Nat
  BY <1>0, PaySumNat DEF Priced
<1>9. Holds(s, x)
  <2>1. ASSUME NEW a \in Nat, NEW b \in Nat, NEW c \in Nat
        PROVE  b + (a + c) = a + (b + c)
    OBVIOUS
  <2>2. PaySum(s) = y.amount + (x.amount + PaySum((s \ {x}) \ {y}))
    BY <1>4, <1>6, <1>7
  <2>3. PaySum(s \ {x}) = y.amount + PaySum((s \ {x}) \ {y})
    BY <1>6
  <2> HIDE DEF Bad
  <2> QED BY <1>8, <2>1, <2>2, <2>3
<1> QED BY <1>2, <1>9

(* A payment raises the sum by its amount.                                  *)
LEMMA PaySumAdd ==
  ASSUME NEW S, Priced(S), NEW p, p \notin S, p.amount \in Nat
  PROVE  PaySum(S \cup {p}) = PaySum(S) + p.amount
<1>1. Priced(S \cup {p})
  BY FS_AddElement DEF Priced
<1>2. (S \cup {p}) \ {p} = S
  OBVIOUS
<1>3. PaySum(S \cup {p}) = p.amount + PaySum(S)
  BY <1>1, <1>2, PaySumRemove
<1> QED BY <1>3, PaySumNat

----------------------------------------------------------------------------
(* What the invariants say *)

(* The stages at which Stripe has said that the session was paid. *)
PastSync == {"read", "check", "insert", "alert", "fee", "mark", "close"}

(* What a worker's job knows of the sessions sess. *)
JobFits(j, sess) ==
  /\ j \in Jobs
  /\ j.at \in PastSync \cup {"expire"} => j.s \in Sessions
  /\ j.at \in PastSync => sess[j.s].at = "paid"
  /\ j.at = "mark" => j.kind \in Webhooks
  /\ j.at = "lock" => j.kind = "manual"
  /\ j.kind = "manual" => j.inv \in Invoices

JobsFit(jobs, sess) ==
  /\ jobs \in [Workers -> Jobs]
  /\ \A w \in Workers : JobFits(jobs[w], sess)

BooksTypes(rows, ps) ==
  /\ rows \in [Invoices -> Rows]
  /\ ps \in [Invoices -> SUBSET PaymentRows]
  /\ \A i \in Invoices : IsFiniteSet(ps[i])

(* A session that the app has begun is for an invoice and for some money. *)
SessionTypes(sess) ==
  /\ sess \in [Sessions -> CheckoutSessions]
  /\ \A s \in Sessions : sess[s].at # "none" => sess[s].inv \in Invoices /\ sess[s].amount > 0

(* The sessions with an attempt row, of which there are finitely many. *)
Listed == {s \in Sessions : created[s] > 0}

OtherTypes ==
  /\ fees \subseteq Sessions /\ refused \subseteq Sessions
  /\ unbooked \subseteq Sessions \X {"unread", "unwritten"}
  /\ attempt \in [Sessions -> {"none", "OPEN", "COMPLETE", "EXPIRED"}]
  /\ created \in [Sessions -> Nat] /\ IsFiniteSet(Listed)
  /\ owed \subseteq Events
  /\ log \in [Events -> {"none", "processing", "processed", "ignored", "failed"}]
  /\ account \in Accounts
  /\ faults \in 0 .. MaxFaults

(* Type correctness, strengthened to be inductive: payments can be summed,  *)
(* sessions are for something, and a job that records has a paid session.   *)
TypeInv ==
  /\ BooksTypes(invoice, payments)
  /\ SessionTypes(session)
  /\ JobsFit(job, session)
  /\ OtherTypes

(* What a step may do to Stripe's sessions: begin one, move one that is     *)
(* still open; never touch one that was paid or has expired.                *)
SessionsKept ==
  \A s \in Sessions :
    /\ session[s].at \in {"paid", "expired"} => session'[s] = session[s]
    /\ session[s].at # "none" => /\ session'[s].inv = session[s].inv
                                 /\ session'[s].amount = session[s].amount

----------------------------------------------------------------------------
(* Rows *)

(* update_status writes the status and paid_at only. *)
LEMMA UpdateStatusRow ==
  ASSUME NEW row \in Rows, NEW day
  PROVE  UpdateStatus(row, day) \in Rows /\ UpdateStatus(row, day).deleted = row.deleted
BY DEF UpdateStatus, Rows, Statuses

(* The recompute after an insert returns a row, deleted or not as it was. *)
LEMMA SavedRow ==
  ASSUME NEW row \in Rows, NEW ps, PaySum(ps) \in Nat, NEW day
  PROVE  /\ AfterPaymentSaved(row, ps, day) \in Rows
         /\ AfterPaymentSaved(row, ps, day).deleted = row.deleted
<1> DEFINE new == [row EXCEPT !.paid = PaySum(ps)]
<1>1. new \in Rows /\ new.deleted = row.deleted
  BY DEF Rows
<1> HIDE DEF new
<1>2. AfterPaymentSaved(row, ps, day) = UpdateStatus(new, day)
  BY DEF AfterPaymentSaved, new
<1> QED BY <1>1, <1>2, UpdateStatusRow

(* Payment.objects.create and its recompute keep the books well typed. *)
LEMMA AddPaymentTypes ==
  ASSUME BooksTypes(invoice, payments), NEW i \in Invoices, NEW amount \in Nat \ {0},
         NEW pi \in Sessions \cup {Manual}, AddPayment(i, amount, pi)
  PROVE  /\ BooksTypes(invoice', payments')
         /\ \A j \in Invoices : invoice'[j].deleted = invoice[j].deleted
<1> DEFINE p == [id |-> Cardinality(payments[i]) + 1, amount |-> amount, pi |-> pi]
           ps == payments[i] \cup {p}
<1>1. p \in PaymentRows
  BY FS_CardinalityType DEF BooksTypes, PaymentRows
<1>2. payments' = [payments EXCEPT ![i] = ps] /\ payments'[i] = ps
  BY DEF AddPayment, BooksTypes
<1>3. ps \subseteq PaymentRows /\ IsFiniteSet(ps)
  BY <1>1, FS_AddElement DEF BooksTypes
<1>4. PaySum(ps) \in Nat
  <2>1. Priced(ps)
    BY <1>3 DEF Priced, PaymentRows
  <2> QED BY <2>1, PaySumNat
<1> HIDE DEF p, ps
<1>5. invoice' = [invoice EXCEPT ![i] = AfterPaymentSaved(@, ps, Today)]
  BY <1>2 DEF AddPayment
<1>6. invoice[i] \in Rows
  BY DEF BooksTypes
<1>7. /\ AfterPaymentSaved(invoice[i], ps, Today) \in Rows
      /\ AfterPaymentSaved(invoice[i], ps, Today).deleted = invoice[i].deleted
  BY <1>4, <1>6, SavedRow
<1> QED BY <1>2, <1>3, <1>5, <1>7 DEF BooksTypes

----------------------------------------------------------------------------
(* Jobs *)

(* An idle worker knows nothing. *)
LEMMA IdleFits ==
  ASSUME NEW sess
  PROVE  JobFits(Idle, sess)
BY DEF JobFits, Idle, Jobs, Stages, PastSync, Kinds, Webhooks

(* The loop goes on with the next session. *)
LEMMA SkipFits ==
  ASSUME NEW sess, NEW old, NEW j, JobFits(j, old), NEW s
  PROVE  JobFits([j EXCEPT !.todo = @ \ {s}, !.s = NoSession, !.at = "sync", !.feeKnown = TRUE], sess)
BY DEF JobFits, Jobs, Stages, PastSync

(* A job that has a paid session goes on with it. *)
LEMMA GoOnFits ==
  ASSUME NEW sess, NEW j, JobFits(j, sess), j.at \in PastSync,
         NEW at \in PastSync, at = "mark" => j.kind \in Webhooks
  PROVE  JobFits([j EXCEPT !.at = at], sess)
BY DEF JobFits, Jobs, Stages, PastSync

(* Where the recording path sends a job. *)
LEMMA ReturnStages ==
  ASSUME NEW w \in Workers
  PROVE  /\ Returned(w) \in {"mark", "close"} /\ AfterRecord(w) \in {"mark", "fee"}
         /\ Returned(w) = "mark" => job[w].kind \in Webhooks
         /\ AfterRecord(w) = "mark" => job[w].kind \in Webhooks
BY DEF Returned, AfterRecord, IsWebhook, Webhooks

(* A job stays fitting while Stripe's other sessions move. *)
LEMMA StaysFit ==
  ASSUME NEW j, JobFits(j, session), SessionsKept
  PROVE  JobFits(j, session')
BY DEF JobFits, SessionsKept, PastSync

(* One worker's job changes, and the others' stay. *)
LEMMA BecomeFits ==
  ASSUME JobsFit(job, session), SessionsKept, NEW w \in Workers, NEW j,
         Become(w, j), JobFits(j, session')
  PROVE  JobsFit(job', session')
<1>1. j \in Jobs
  BY DEF JobFits
<1>2. \A v \in Workers : job'[v] = IF v = w THEN j ELSE job[v]
  BY DEF Become, JobsFit
<1>3. job' \in [Workers -> Jobs]
  BY <1>1 DEF Become, JobsFit
<1> QED BY <1>2, <1>3, StaysFit DEF JobsFit

----------------------------------------------------------------------------
(* Sessions *)

(* A session moves on. *)
LEMMA MoveKeeps ==
  ASSUME SessionTypes(session), NEW s \in Sessions,
         NEW from \in {"page", "created", "open"},
         NEW to \in {"created", "open", "paid", "expired"}, MoveSession(s, from, to)
  PROVE  /\ SessionsKept /\ SessionTypes(session')
         /\ session'[s] = [session[s] EXCEPT !.at = to]
         /\ \A t \in Sessions \ {s} : session'[t] = session[t]
<1>1. session[s] \in CheckoutSessions /\ session[s].at = from
  BY DEF SessionTypes, MoveSession
<1>2. [session[s] EXCEPT !.at = to] \in CheckoutSessions
  BY <1>1 DEF CheckoutSessions
<1>3. /\ session'[s] = [session[s] EXCEPT !.at = to]
      /\ \A t \in Sessions \ {s} : session'[t] = session[t]
      /\ session' = [session EXCEPT ![s] = [session[s] EXCEPT !.at = to]]
  BY DEF SessionTypes, MoveSession
<1>4. /\ session'[s].inv = session[s].inv /\ session'[s].amount = session[s].amount
      /\ session'[s].at = to
  BY <1>1, <1>3 DEF CheckoutSessions
<1> QED BY <1>1, <1>2, <1>3, <1>4 DEF SessionTypes, SessionsKept

(* No session moves. *)
LEMMA SameSessions ==
  ASSUME SessionTypes(session), UNCHANGED session
  PROVE  SessionsKept /\ SessionTypes(session')
BY DEF SessionTypes, SessionsKept

(* A step of the customer or of Stripe. *)
LEMMA CustomerSessions ==
  ASSUME TypeInv, NEW s \in Sessions, Customer(s)
  PROVE  SessionsKept /\ SessionTypes(session')
<1>1. SessionTypes(session)
  BY DEF TypeInv
<1>2. ASSUME NEW i \in Invoices, OpenPayPage(s, i)
      PROVE  SessionsKept /\ SessionTypes(session')
  <2> DEFINE new == [at |-> "page", inv |-> i, amount |-> AmountDue(invoice[i]), account |-> account]
  <2>1. invoice[i] \in Rows
    BY DEF TypeInv, BooksTypes
  <2>2. AmountDue(invoice[i]) \in Nat /\ AmountDue(invoice[i]) > 0
    BY <1>2, <2>1, StripeAssumption DEF OpenPayPage, AmountDue, Rows
  <2>3. new \in CheckoutSessions /\ new.inv = i /\ new.amount = AmountDue(invoice[i])
    BY <2>2 DEF CheckoutSessions, TypeInv, OtherTypes
  <2>4. session[s].at = "none" /\ session' = [session EXCEPT ![s] = new]
    BY <1>2 DEF OpenPayPage
  <2> HIDE DEF new
  <2> QED BY <1>1, <2>2, <2>3, <2>4 DEF SessionTypes, SessionsKept
<1>3. CASE CreateSession(s)
  BY <1>1, <1>3, MoveKeeps DEF CreateSession
<1>4. CASE SendToStripe(s)
  BY <1>1, <1>4, MoveKeeps DEF SendToStripe
<1>5. CASE Pay(s)
  BY <1>1, <1>5, MoveKeeps DEF Pay
<1>6. CASE SessionExpires(s)
  BY <1>1, <1>6, MoveKeeps DEF SessionExpires
<1> QED BY <1>2, <1>3, <1>4, <1>5, <1>6 DEF Customer

(* Every step keeps what Stripe has taken and what it was taken for. *)
LEMMA SessionsStep ==
  ASSUME TypeInv, [Next]_vars
  PROVE  SessionsKept /\ SessionTypes(session')
<1>1. SessionTypes(session)
  BY DEF TypeInv
<1>2. ASSUME NEW w \in Workers, Work(w)
      PROVE  SessionsKept /\ SessionTypes(session')
  <2>1. CASE ExpireOpen(w)
    <3>1. job[w].s \in Sessions
      BY <2>1 DEF ExpireOpen, TypeInv, JobsFit, JobFits
    <3>2. UNCHANGED session \/ MoveSession(job[w].s, "open", "expired")
      BY <2>1 DEF ExpireOpen
    <3> QED BY <1>1, <3>1, <3>2, MoveKeeps, SameSessions
  <2>2. CASE ~ExpireOpen(w)
    <3>1. UNCHANGED session
      BY <1>2, <2>2 DEF Work, SyncAttempt, CloseAttempt, SyncDone, ReadInvoice, CheckDuplicate,
         AlertShop, InsertPayment, RecordFee, MarkEvent, RecordManual, RefuseManual, stripe
    <3> QED BY <1>1, <3>1, SameSessions
  <2> QED BY <2>1, <2>2
<1>3. ASSUME NEW s \in Sessions, Customer(s)
      PROVE  SessionsKept /\ SessionTypes(session')
  BY <1>3, CustomerSessions
<1>4. CASE ~(\E w \in Workers : Work(w)) /\ ~(\E s \in Sessions : Customer(s))
  <2>1. UNCHANGED session
    BY <1>4 DEF Next, Crash, StartSweep, Deliver, Land, StartManual, LoseEvent, Shop, BulkMarkPaid,
       Void, SoftDelete, Restore, WriteRow, Reconnect, stripe, vars
  <2> QED BY <1>1, <2>1, SameSessions
<1> QED BY <1>2, <1>3, <1>4

----------------------------------------------------------------------------
(* The jobs of a step *)

(* A step of sync_attempt, of any of its callers. *)
LEMMA SyncJobs ==
  ASSUME TypeInv, SessionsKept, NEW w \in Workers,
         (\E s \in Sessions : SyncAttempt(w, s)) \/ ExpireOpen(w) \/ CloseAttempt(w) \/ SyncDone(w)
  PROVE  JobsFit(job', session')
<1>1. JobsFit(job, session) /\ JobFits(job[w], session)
  BY DEF TypeInv, JobsFit
<1>2. ASSUME NEW s, Skip(w, s) PROVE JobsFit(job', session')
  BY <1>1, <1>2, SkipFits, BecomeFits DEF Skip
<1>3. ASSUME Stop(w) PROVE JobsFit(job', session')
  BY <1>1, <1>3, IdleFits, BecomeFits DEF Stop
<1>4. ASSUME NEW s, Unavailable(w, s) PROVE JobsFit(job', session')
  BY <1>2, <1>3, <1>4 DEF Unavailable
<1>5. ASSUME NEW s \in Sessions, FoundPaid(w, s), session'[s].at = "paid"
      PROVE  JobsFit(job', session')
  <2>1. JobFits([job[w] EXCEPT !.at = "read", !.s = s], session')
    BY <1>1, <1>5 DEF JobFits, Jobs, Stages, PastSync
  <2>2. JobFits([job[w] EXCEPT !.at = "read", !.s = s, !.feeKnown = FALSE], session')
    BY <1>1, <1>5 DEF JobFits, Jobs, Stages, PastSync
  <2> QED BY <1>1, <1>5, <2>1, <2>2, BecomeFits DEF FoundPaid, GoRecord
<1>6. ASSUME NEW s \in Sessions, Become(w, [job[w] EXCEPT !.at = "expire", !.s = s])
      PROVE  JobsFit(job', session')
  <2>1. JobFits([job[w] EXCEPT !.at = "expire", !.s = s], session')
    BY <1>1 DEF JobFits, Jobs, Stages, PastSync
  <2> QED BY <1>1, <1>6, <2>1, BecomeFits
<1>7. ASSUME NEW s \in Sessions, SyncAttempt(w, s) PROVE JobsFit(job', session')
  BY <1>2, <1>4, <1>5, <1>6, <1>7 DEF SyncAttempt, stripe
<1>8. CASE ExpireOpen(w)
  <2>1. job[w].s \in Sessions
    BY <1>1, <1>8 DEF ExpireOpen, JobFits
  <2> QED BY <1>2, <1>4, <1>5, <1>8, <2>1 DEF ExpireOpen
<1>9. CASE CloseAttempt(w)
  BY <1>2, <1>9 DEF CloseAttempt
<1>10. CASE SyncDone(w)
  <2>1. CASE job[w].kind = "manual"
    <3>1. JobFits([job[w] EXCEPT !.at = "lock"], session')
      BY <1>1, <2>1 DEF JobFits, Jobs, Stages, PastSync
    <3> QED BY <1>1, <1>10, <2>1, <3>1, BecomeFits DEF SyncDone, GoTo
  <2> QED BY <1>3, <1>10, <2>1 DEF SyncDone
<1> QED BY <1>7, <1>8, <1>9, <1>10

(* A step of the recording path, or of what follows it. *)
LEMMA RecordJobs ==
  ASSUME TypeInv, UNCHANGED session, NEW w \in Workers,
         \/ ReadInvoice(w) \/ CheckDuplicate(w) \/ AlertShop(w) \/ InsertPayment(w)
         \/ RecordFee(w) \/ MarkEvent(w)
         \/ (\E a \in Amounts : RecordManual(w, a)) \/ RefuseManual(w) \/ Crash(w)
  PROVE  JobsFit(job', session')
<1>1. JobsFit(job, session) /\ JobFits(job[w], session) /\ SessionsKept
  BY SameSessions DEF TypeInv, JobsFit
<1>2. CASE Stop(w)
  BY <1>1, <1>2, IdleFits, BecomeFits DEF Stop
<1>3. ASSUME job[w].at \in PastSync, NEW at \in PastSync, at = "mark" => job[w].kind \in Webhooks,
             GoTo(w, at)
      PROVE  JobsFit(job', session')
  BY <1>1, <1>3, GoOnFits, BecomeFits DEF GoTo
<1>4. CASE ReadInvoice(w)
  <2>1. job[w].at = "read" /\ job[w].s \in Sessions /\ session[job[w].s].at = "paid"
    BY <1>1, <1>4 DEF ReadInvoice, JobFits, PastSync
  <2>2. invoice[session[job[w].s].inv] \in Rows
    BY <2>1 DEF TypeInv, SessionTypes, BooksTypes
  <2>3. ASSUME NEW at \in {"mark", "fee", "close"}, at = "mark" => job[w].kind \in Webhooks,
               NEW answer \in {"not_found", "mismatch"}
        PROVE  JobFits([job[w] EXCEPT !.answer = answer, !.at = at], session')
    BY <1>1, <2>1, <2>3 DEF JobFits, Jobs, Stages, PastSync
  <2>4. JobFits([job[w] EXCEPT !.held = invoice[session[job[w].s].inv], !.at = "check"], session')
    BY <1>1, <2>1, <2>2 DEF JobFits, Jobs, Stages, PastSync
  <2> QED BY <1>1, <1>4, <2>3, <2>4, ReturnStages, BecomeFits DEF ReadInvoice
<1>5. CASE CheckDuplicate(w)
  BY <1>3, <1>5, ReturnStages DEF CheckDuplicate, PastSync
<1>6. CASE AlertShop(w)
  BY <1>3, <1>6, ReturnStages DEF AlertShop, PastSync
<1>7. CASE InsertPayment(w)
  BY <1>2, <1>3, <1>7, ReturnStages DEF InsertPayment, Raise, PastSync
<1>8. CASE RecordFee(w)
  BY <1>3, <1>8, ReturnStages DEF RecordFee, PastSync
<1>9. CASE MarkEvent(w) \/ (\E a \in Amounts : RecordManual(w, a)) \/ RefuseManual(w) \/ Crash(w)
  BY <1>2, <1>9 DEF MarkEvent, RecordManual, RefuseManual, Crash
<1> QED BY <1>4, <1>5, <1>6, <1>7, <1>8, <1>9

(* A job begins. *)
LEMMA NewJobs ==
  ASSUME TypeInv, UNCHANGED session, NEW w \in Workers,
         \/ StartSweep(w)
         \/ \E e \in Events : Deliver(w, e)
         \/ \E s \in Sessions : Land(w, s)
         \/ \E i \in Invoices : StartManual(w, i)
  PROVE  JobsFit(job', session')
<1>1. JobsFit(job, session) /\ JobFits(Idle, session) /\ SessionsKept
  BY IdleFits, SameSessions DEF TypeInv
<1>2. CASE StartSweep(w)
  <2>1. JobFits([Idle EXCEPT !.at = "sync", !.kind = "sweep", !.todo = {s \in Sessions : IsOpen(s)}],
                session')
    BY <1>1 DEF JobFits, Idle, Jobs, Stages, PastSync, Kinds, Webhooks
  <2> QED BY <1>1, <1>2, <2>1, BecomeFits DEF StartSweep
<1>3. ASSUME NEW e \in Events, Deliver(w, e) PROVE JobsFit(job', session')
  <2>1. e.s \in Sessions /\ e.type \in Webhooks /\ session[e.s].at = "paid"
    BY <1>3 DEF Events, Webhooks, Deliver
  <2>2. JobFits([Idle EXCEPT !.at = "read", !.kind = e.type, !.s = e.s], session')
    BY <1>1, <2>1 DEF JobFits, Idle, Jobs, Stages, PastSync, Kinds, Webhooks
  <2>3. JobFits([Idle EXCEPT !.at = "read", !.kind = e.type, !.s = e.s, !.logged = FALSE], session')
    BY <1>1, <2>1 DEF JobFits, Idle, Jobs, Stages, PastSync, Kinds, Webhooks
  <2>4. CASE UNCHANGED job
    BY <1>1, <2>4
  <2> QED BY <1>1, <1>3, <2>2, <2>3, <2>4, BecomeFits DEF Deliver
<1>4. ASSUME NEW s \in Sessions, Land(w, s) PROVE JobsFit(job', session')
  <2>1. JobFits([Idle EXCEPT !.at = "sync", !.kind = "landing", !.todo = {s}], session')
    BY <1>1 DEF JobFits, Idle, Jobs, Stages, PastSync, Kinds, Webhooks
  <2> QED BY <1>1, <1>4, <2>1, BecomeFits DEF Land
<1>5. ASSUME NEW i \in Invoices, StartManual(w, i) PROVE JobsFit(job', session')
  <2>1. JobFits([Idle EXCEPT !.at = "sync", !.kind = "manual", !.inv = i, !.todo = Pending(i)],
                session')
    BY <1>1 DEF JobFits, Idle, Jobs, Stages, PastSync, Kinds, Webhooks, Pending
  <2> QED BY <1>1, <1>5, <2>1, BecomeFits DEF StartManual
<1> QED BY <1>2, <1>3, <1>4, <1>5

(* Every step leaves jobs that know their session. *)
LEMMA JobsStep ==
  ASSUME TypeInv, [Next]_vars
  PROVE  JobsFit(job', session')
<1>1. SessionsKept
  BY SessionsStep
<1>2. ASSUME NEW w \in Workers, Work(w) PROVE JobsFit(job', session')
  <2>1. CASE (\E s \in Sessions : SyncAttempt(w, s)) \/ ExpireOpen(w) \/ CloseAttempt(w) \/ SyncDone(w)
    BY <1>1, <2>1, SyncJobs
  <2>2. CASE \/ ReadInvoice(w) \/ CheckDuplicate(w) \/ AlertShop(w) \/ InsertPayment(w)
             \/ RecordFee(w) \/ MarkEvent(w)
             \/ (\E a \in Amounts : RecordManual(w, a)) \/ RefuseManual(w)
    <3>1. UNCHANGED session
      BY <2>2 DEF ReadInvoice, CheckDuplicate, AlertShop, InsertPayment, RecordFee, MarkEvent,
         RecordManual, RefuseManual, stripe
    <3> QED BY <2>2, <3>1, RecordJobs
  <2> QED BY <1>2, <2>1, <2>2 DEF Work
<1>3. ASSUME NEW w \in Workers, Crash(w) PROVE JobsFit(job', session')
  <2>1. UNCHANGED session
    BY <1>3 DEF Crash, stripe
  <2> QED BY <1>3, <2>1, RecordJobs
<1>4. ASSUME NEW w \in Workers,
             \/ StartSweep(w)
             \/ \E e \in Events : Deliver(w, e)
             \/ \E s \in Sessions : Land(w, s)
             \/ \E i \in Invoices : StartManual(w, i)
      PROVE  JobsFit(job', session')
  <2>1. UNCHANGED session
    BY <1>4 DEF StartSweep, Deliver, Land, StartManual, stripe
  <2> QED BY <1>4, <2>1, NewJobs
<1>5. ASSUME UNCHANGED job PROVE JobsFit(job', session')
  BY <1>1, <1>5, StaysFit DEF TypeInv, JobsFit
<1>6. ASSUME NEW s \in Sessions, Customer(s) PROVE UNCHANGED job
  BY <1>6 DEF Customer, OpenPayPage, CreateSession, SendToStripe, Pay, SessionExpires
<1>7. ASSUME NEW i \in Invoices, Shop(i) PROVE UNCHANGED job
  BY <1>7 DEF Shop, BulkMarkPaid, Void, SoftDelete, Restore, WriteRow
<1>8. CASE (\E e \in Events : LoseEvent(e)) \/ (\E a \in Accounts : Reconnect(a)) \/ UNCHANGED vars
  BY <1>5, <1>8 DEF LoseEvent, Reconnect, vars
<1> QED BY <1>2, <1>3, <1>4, <1>5, <1>6, <1>7, <1>8 DEF Next

----------------------------------------------------------------------------
(* The books of a step *)

(* A job in the recording path has a paid session, for some money and some   *)
(* invoice.                                                                  *)
LEMMA PaidSession ==
  ASSUME TypeInv, NEW w \in Workers, job[w].at \in PastSync
  PROVE  /\ job[w].s \in Sessions
         /\ session[job[w].s].at = "paid"
         /\ session[job[w].s].inv \in Invoices
         /\ session[job[w].s].amount \in Nat \ {0}
<1>1. job[w].s \in Sessions /\ session[job[w].s].at = "paid"
  BY DEF TypeInv, JobsFit, JobFits
<1>2. session[job[w].s] \in CheckoutSessions
  BY <1>1 DEF TypeInv, SessionTypes
<1> QED BY <1>1, <1>2 DEF TypeInv, SessionTypes, CheckoutSessions

(* Everything that a step can do to the rows: staff edit one, staff add a    *)
(* manual payment, or a worker credits the paid session of its job, to the   *)
(* invoice and with the amount of that session, if no row has it yet.        *)
Edit(i) == Void(i) \/ SoftDelete(i) \/ Restore(i)

CreditJob(w) ==
  LET s == job[w].s
  IN /\ job[w].at = "insert"
     /\ ~Recorded(session[s].inv, s)
     /\ AddPayment(session[s].inv, session[s].amount, s)

Booking ==
  \/ UNCHANGED <<invoice, payments>>
  \/ \E i \in Invoices : Edit(i)
  \/ \E i \in Invoices, amount \in Nat \ {0} : AddPayment(i, amount, Manual)
  \/ \E w \in Workers : CreditJob(w)

(* There is no other writer of the books.                                    *)
LEMMA BookingStep ==
  ASSUME TypeInv, [Next]_vars
  PROVE  Booking
<1>1. ASSUME NEW w \in Workers, Work(w)
      PROVE  Booking
  <2>1. ASSUME NEW a \in Amounts, RecordManual(w, a)
        PROVE  Booking
    <3>1. job[w].inv \in Invoices /\ a \in Nat \ {0} /\ AddPayment(job[w].inv, a, Manual)
      BY <2>1, StripeAssumption DEF RecordManual, TypeInv, JobsFit, JobFits
    <3> QED BY <3>1 DEF Booking
  <2>2. CASE InsertPayment(w)
    BY <2>2 DEF InsertPayment, Booking, CreditJob
  <2>3. CASE ~InsertPayment(w) /\ ~(\E a \in Amounts : RecordManual(w, a))
    BY <1>1, <2>3 DEF Work, SyncAttempt, ExpireOpen, CloseAttempt, SyncDone, ReadInvoice,
       CheckDuplicate, AlertShop, RecordFee, MarkEvent, RefuseManual, db, Booking
  <2> QED BY <2>1, <2>2, <2>3
<1>2. ASSUME NEW i \in Invoices, Shop(i)
      PROVE  Booking
  <2>1. CASE BulkMarkPaid(i)
    <3>1. invoice[i] \in Rows
      BY DEF TypeInv, BooksTypes
    <3>2. AmountDue(invoice[i]) \in Nat \ {0}
      BY <2>1, <3>1, StripeAssumption DEF BulkMarkPaid, AmountDue, Rows
    <3> QED BY <2>1, <3>2 DEF BulkMarkPaid, Booking
  <2> QED BY <1>2, <2>1 DEF Shop, Edit, Booking
<1>3. CASE ~(\E w \in Workers : Work(w)) /\ ~(\E i \in Invoices : Shop(i))
  BY <1>3 DEF Next, Crash, StartSweep, Deliver, Land, StartManual, Customer, OpenPayPage,
     CreateSession, SendToStripe, Pay, SessionExpires, LoseEvent, Reconnect, db, vars, Booking
<1> QED BY <1>1, <1>2, <1>3

(* Every step keeps the books well typed. *)
LEMMA BooksStep ==
  ASSUME TypeInv, [Next]_vars
  PROVE  BooksTypes(invoice', payments')
<1>1. BooksTypes(invoice, payments)
  BY DEF TypeInv
<1>2. CASE UNCHANGED <<invoice, payments>>
  BY <1>1, <1>2 DEF BooksTypes
<1>3. ASSUME NEW i \in Invoices, Edit(i)
      PROVE  BooksTypes(invoice', payments')
  <2>1. invoice[i] \in Rows
    BY <1>1 DEF BooksTypes
  <2>2. ASSUME NEW row \in Rows, WriteRow(i, row)
        PROVE  BooksTypes(invoice', payments')
    BY <1>1, <2>2 DEF WriteRow, BooksTypes
  <2>3. /\ [invoice[i] EXCEPT !.status = "CANCELLED"] \in Rows
        /\ [invoice[i] EXCEPT !.deleted = TRUE] \in Rows
        /\ [invoice[i] EXCEPT !.deleted = FALSE] \in Rows
    BY <2>1 DEF Rows, Statuses
  <2> QED BY <1>3, <2>2, <2>3 DEF Edit, Void, SoftDelete, Restore
<1>4. ASSUME NEW i \in Invoices, NEW amount \in Nat \ {0}, AddPayment(i, amount, Manual)
      PROVE  BooksTypes(invoice', payments')
  BY <1>1, <1>4, AddPaymentTypes
<1>5. ASSUME NEW w \in Workers, CreditJob(w)
      PROVE  BooksTypes(invoice', payments')
  <2>1. job[w].at \in PastSync
    BY <1>5 DEF CreditJob, PastSync
  <2> QED BY <1>1, <1>5, <2>1, PaidSession, AddPaymentTypes DEF CreditJob
<1> QED BY <1>2, <1>3, <1>4, <1>5, BookingStep DEF Booking

(* The model's count of faults. *)
LEMMA FaultCounts ==
  ASSUME OtherTypes, NEW f, Fault(f) \/ UNCHANGED faults
  PROVE  faults' \in 0 .. MaxFaults
BY StripeAssumption DEF OtherTypes, Fault

(* Every step keeps the rest of the state well typed. *)
LEMMA OtherStep ==
  ASSUME TypeInv, [Next]_vars
  PROVE  OtherTypes'
<1>1. OtherTypes /\ JobsFit(job, session) /\ SessionTypes(session)
  BY DEF TypeInv
<1>2. ASSUME NEW w \in Workers, Work(w)
      PROVE  OtherTypes'
  <2>1. JobFits(job[w], session)
    BY <1>1 DEF JobsFit
  <2>2. CASE \E s \in Sessions : SyncAttempt(w, s)
    BY <1>1, <2>2, FaultCounts DEF SyncAttempt, FoundPaid, GoRecord, OtherTypes, Listed, db, stripe
  <2>3. CASE ExpireOpen(w)
    BY <1>1, <2>3, FaultCounts DEF ExpireOpen, FoundPaid, GoRecord, OtherTypes, Listed, db
  <2>4. CASE CloseAttempt(w) \/ SyncDone(w)
    BY <1>1, <2>4 DEF CloseAttempt, SyncDone, OtherTypes, Listed, db, stripe, attempts
  <2>5. CASE ReadInvoice(w) \/ CheckDuplicate(w) \/ RefuseManual(w)
    BY <1>1, <2>5 DEF ReadInvoice, CheckDuplicate, RefuseManual, OtherTypes, Listed, db, stripe, attempts
  <2>6. CASE AlertShop(w) \/ RecordFee(w)
    <3>1. job[w].s \in Sessions
      BY <2>1, <2>6 DEF AlertShop, RecordFee, JobFits, PastSync
    <3>2. CASE AlertShop(w)
      BY <1>1, <3>1, <3>2, FaultCounts DEF AlertShop, OtherTypes, Listed, stripe, attempts
    <3>3. CASE RecordFee(w)
      <4>1. fees' \subseteq Sessions /\ unbooked' \subseteq Sessions \X {"unread", "unwritten"}
        BY <1>1, <3>1, <3>3 DEF RecordFee, OtherTypes
      <4>2. Fault("fee_error") \/ UNCHANGED faults
        BY <3>3 DEF RecordFee
      <4> QED BY <1>1, <3>3, <4>1, <4>2, FaultCounts DEF RecordFee, OtherTypes, Listed, stripe, attempts
    <3> QED BY <2>6, <3>2, <3>3
  <2>7. CASE InsertPayment(w)
    BY <1>1, <2>7, FaultCounts DEF InsertPayment, Raise, OtherTypes, Listed, notes, stripe, attempts
  <2>8. CASE MarkEvent(w)
    BY <1>1, <2>8 DEF MarkEvent, OtherTypes, Listed, db, attempts
  <2>9. ASSUME NEW a \in Amounts, RecordManual(w, a) PROVE OtherTypes'
    BY <1>1, <2>9 DEF RecordManual, OtherTypes, Listed, notes, stripe, attempts
  <2> QED BY <1>2, <2>2, <2>3, <2>4, <2>5, <2>6, <2>7, <2>8, <2>9 DEF Work
<1>3. ASSUME NEW s \in Sessions, Customer(s)
      PROVE  OtherTypes'
  <2>1. CASE SendToStripe(s)
    <3>1. CASE UNCHANGED attempts
      BY <1>1, <2>1, <3>1, FaultCounts DEF SendToStripe, OtherTypes, Listed, db, attempts
    <3>2. CASE created' = [created EXCEPT ![s] = 1 + Cardinality(Listed)] /\ UNCHANGED faults
      <4>1. Cardinality(Listed) \in Nat
        BY <1>1, FS_CardinalityType DEF OtherTypes
      <4>2. created' \in [Sessions -> Nat] /\ Listed' = Listed \cup {s}
        <5>1. created \in [Sessions -> Nat] /\ 1 + Cardinality(Listed) \in Nat \ {0}
          BY <1>1, <4>1 DEF OtherTypes
        <5>2. created' \in [Sessions -> Nat]
          BY <3>2, <5>1
        <5>3. \A t \in Sessions : created'[t] > 0 <=> created[t] > 0 \/ t = s
          BY <3>2, <5>1
        <5> QED BY <5>2, <5>3 DEF Listed
      <4>3. IsFiniteSet(Listed')
        BY <1>1, <4>2, FS_AddElement DEF OtherTypes
      <4>4. attempt' \in [Sessions -> {"none", "OPEN", "COMPLETE", "EXPIRED"}]
        BY <1>1, <2>1 DEF SendToStripe, OtherTypes, attempts
      <4> QED BY <1>1, <2>1, <3>2, <4>2, <4>3, <4>4 DEF SendToStripe, OtherTypes, db
    <3> QED BY <2>1, <3>1, <3>2 DEF SendToStripe, Listed
  <2>2. CASE Pay(s)
    BY <1>1, <2>2 DEF Pay, OtherTypes, Listed, db, attempts
  <2>3. CASE ~SendToStripe(s) /\ ~Pay(s)
    BY <1>1, <1>3, <2>3 DEF Customer, OpenPayPage, CreateSession, SessionExpires, OtherTypes, Listed, db,
       attempts
  <2> QED BY <2>1, <2>2, <2>3
<1>4. ASSUME NEW w \in Workers, NEW e \in Events, Deliver(w, e)
      PROVE  OtherTypes'
  BY <1>1, <1>4, FaultCounts DEF Deliver, OtherTypes, Listed, db, attempts
<1>5. ASSUME NEW w \in Workers,
             \/ Crash(w) \/ StartSweep(w)
             \/ (\E s \in Sessions : Land(w, s)) \/ \E i \in Invoices : StartManual(w, i)
      PROVE  OtherTypes'
  BY <1>1, <1>5, FaultCounts DEF Crash, StartSweep, Land, StartManual, OtherTypes, Listed, db, stripe, attempts
<1>6. CASE (\E e \in Events : LoseEvent(e)) \/ (\E a \in Accounts : Reconnect(a))
  BY <1>1, <1>6, FaultCounts DEF LoseEvent, Reconnect, OtherTypes, Listed, db, stripe, attempts
<1>7. ASSUME NEW i \in Invoices, Shop(i)
      PROVE  OtherTypes'
  BY <1>1, <1>7 DEF Shop, BulkMarkPaid, Void, SoftDelete, Restore, WriteRow, OtherTypes, Listed, notes,
     stripe, attempts
<1>8. CASE UNCHANGED vars
  BY <1>1, <1>8 DEF vars, OtherTypes, Listed
<1> QED BY <1>2, <1>3, <1>4, <1>5, <1>6, <1>7, <1>8 DEF Next

----------------------------------------------------------------------------
(* Type correctness *)

(* Before the first customer, nothing is recorded and nobody works. *)
THEOREM TypeInit == Init => TypeInv
<1> SUFFICES ASSUME Init PROVE TypeInv
  OBVIOUS
<1>1. NewSession \in CheckoutSessions /\ NewSession.at = "none" /\ NewSession.account \in Accounts
  BY StripeAssumption DEF NewSession, CheckoutSessions
<1>2. BooksTypes(invoice, payments)
  <2>1. [status |-> "SENT", total |-> Total, paid |-> 0, paidAt |-> FALSE, due |-> 0,
         deleted |-> FALSE] \in Rows
    BY DEF Rows, Statuses
  <2> QED BY <2>1, FS_EmptySet DEF Init, BooksTypes
<1>3. SessionTypes(session)
  BY <1>1 DEF Init, SessionTypes
<1>4. JobsFit(job, session)
  BY IdleFits DEF Init, JobsFit, JobFits
<1>5. OtherTypes
  <2>1. Listed = {}
    BY DEF Init, Listed
  <2> QED BY <1>1, <2>1, FS_EmptySet, StripeAssumption DEF Init, OtherTypes
<1> QED BY <1>2, <1>3, <1>4, <1>5 DEF TypeInv

(* Every step keeps the inductive invariant. *)
LEMMA TypeStep == TypeInv /\ [Next]_vars => TypeInv'
<1> SUFFICES ASSUME TypeInv, [Next]_vars PROVE TypeInv'
  OBVIOUS
<1> QED BY BooksStep, SessionsStep, JobsStep, OtherStep DEF TypeInv

(* Whatever the workers, customers and staff do and whatever fails, the rows *)
(* stay legal ones and every job is at a stage that the code has.            *)
THEOREM TypeCorrect == Spec => []TypeOK
<1>1. TypeInv => TypeOK
  BY DEF TypeInv, TypeOK, BooksTypes, SessionTypes, JobsFit, OtherTypes
<1> QED BY <1>1, TypeInit, TypeStep, PTL DEF Spec

----------------------------------------------------------------------------
(* The Stripe payments in the ledger *)

(* A row for a PaymentIntent is the only one of its invoice.                 *)
OneRowEach ==
  \A i \in Invoices : \A p, q \in payments[i] : p.pi = q.pi /\ p.pi # Manual => p = q

CreditInv == TypeInv /\ CreditIsBacked /\ OneRowEach

(* A credit is for the session that Stripe was paid for, and there is none   *)
(* for it yet.                                                               *)
LEMMA CreditStep == CreditInv /\ [Next]_vars => CreditInv'
<1> SUFFICES ASSUME CreditInv, [Next]_vars PROVE CreditInv'
  OBVIOUS
<1>1. TypeInv /\ TypeInv' /\ SessionsKept
  BY TypeStep, SessionsStep DEF CreditInv
<1>2. ASSUME NEW i \in Invoices, NEW p \in payments[i], p.pi # Manual
      PROVE  /\ p.pi \in Sessions /\ session'[p.pi].at = "paid"
             /\ session'[p.pi].inv = i /\ session'[p.pi].amount = p.amount
  <2>1. p.pi \in Sessions
    BY <1>1, <1>2 DEF TypeInv, BooksTypes, PaymentRows
  <2>2. session'[p.pi] = session[p.pi]
    BY <1>1, <1>2, <2>1 DEF CreditInv, CreditIsBacked, SessionsKept
  <2> QED BY <1>2, <2>1, <2>2 DEF CreditInv, CreditIsBacked
<1>3. ASSUME NEW i \in Invoices, NEW amount, NEW pi, AddPayment(i, amount, pi),
             pi = Manual \/ (/\ pi \in Sessions /\ session[pi].at = "paid" /\ session[pi].inv = i
                             /\ session[pi].amount = amount /\ ~Recorded(i, pi))
      PROVE  CreditInv'
  <2> DEFINE new == [id |-> Cardinality(payments[i]) + 1, amount |-> amount, pi |-> pi]
  <2>1. /\ payments'[i] = payments[i] \cup {new}
        /\ \A j \in Invoices \ {i} : payments'[j] = payments[j]
    BY <1>1, <1>3 DEF AddPayment, TypeInv, BooksTypes
  <2>2. new.amount = amount /\ new.pi = pi
    OBVIOUS
  <2> HIDE DEF new
  <2>3. pi # Manual => session'[pi] = session[pi]
    BY <1>1, <1>3 DEF SessionsKept
  <2>4. CreditIsBacked'
    BY <1>2, <1>3, <2>1, <2>2, <2>3 DEF CreditIsBacked
  <2>5. OneRowEach'
    BY <1>3, <2>1, <2>2 DEF CreditInv, OneRowEach, Recorded
  <2> QED BY <1>1, <2>4, <2>5 DEF CreditInv
<1>4. CASE UNCHANGED payments
  BY <1>1, <1>2, <1>4 DEF CreditInv, CreditIsBacked, OneRowEach
<1>5. ASSUME NEW i \in Invoices, Edit(i) PROVE UNCHANGED payments
  BY <1>5 DEF Edit, Void, SoftDelete, Restore, WriteRow
<1>6. ASSUME NEW w \in Workers, CreditJob(w) PROVE CreditInv'
  <2>1. job[w].at \in PastSync
    BY <1>6 DEF CreditJob, PastSync
  <2> QED BY <1>1, <1>3, <1>6, <2>1, PaidSession DEF CreditJob
<1>7. Booking
  BY <1>1, BookingStep
<1> QED BY <1>3, <1>4, <1>5, <1>6, <1>7 DEF Booking

(* The ledger is empty at first. *)
LEMMA CreditInit == Init => CreditInv
<1> SUFFICES ASSUME Init PROVE CreditInv
  OBVIOUS
<1>1. \A i \in Invoices : payments[i] = {}
  BY DEF Init
<1> QED BY <1>1, TypeInit DEF CreditInv, CreditIsBacked, OneRowEach

(* No Stripe money is made up: every Stripe payment in the books is a        *)
(* session that Stripe was paid for, of that amount and for that invoice,    *)
(* whatever ran beside the worker that wrote it.                             *)
THEOREM CreditsAreBacked == Spec => []CreditIsBacked
<1>1. CreditInv => CreditIsBacked
  BY DEF CreditInv
<1> QED BY <1>1, CreditInit, CreditStep, PTL DEF Spec

(* No PaymentIntent is in the books twice, however many workers carry its    *)
(* events, sweeps and guards at once and wherever they die.                  *)
THEOREM CreditedAtMostOnce == Spec => []CreditedOnce
<1>1. CreditInv => CreditedOnce
  BY DEF CreditInv, CreditIsBacked, OneRowEach, CreditedOnce
<1> QED BY <1>1, CreditInit, CreditStep, PTL DEF Spec

----------------------------------------------------------------------------
(* Attempts that are written off *)

(* Every writer of an attempt row: a new one is open, one is written off for *)
(* a session that Stripe has expired or does not know, one is closed by a    *)
(* job that is done.                                                         *)
LEMMA AttemptWrites ==
  ASSUME TypeInv, [Next]_vars
  PROVE  \/ UNCHANGED attempt
         \/ \E s \in Sessions : attempt' = [attempt EXCEPT ![s] = "OPEN"]
         \/ \E s \in Sessions : /\ attempt' = [attempt EXCEPT ![s] = "EXPIRED"]
                                /\ session'[s].at # "expired" => "unknown_session" \in Faults
         \/ \E w \in Workers : CloseAttempt(w)
<1>1. ASSUME NEW w \in Workers, NEW s \in Sessions, SyncAttempt(w, s)
      PROVE  UNCHANGED attempt \/ (/\ attempt' = [attempt EXCEPT ![s] = "EXPIRED"]
                                   /\ session'[s].at # "expired" => "unknown_session" \in Faults)
  BY <1>1 DEF SyncAttempt, FoundPaid, Fault, stripe
<1>2. ASSUME NEW w \in Workers, ExpireOpen(w)
      PROVE  UNCHANGED attempt \/ (/\ attempt' = [attempt EXCEPT ![job[w].s] = "EXPIRED"]
                                   /\ job[w].s \in Sessions
                                   /\ session'[job[w].s].at = "expired")
  <2>1. job[w].s \in Sessions
    BY <1>2 DEF ExpireOpen, TypeInv, JobsFit, JobFits
  <2>2. MoveSession(job[w].s, "open", "expired") => session'[job[w].s].at = "expired"
    BY <2>1, MoveKeeps DEF TypeInv, SessionTypes, CheckoutSessions
  <2> QED BY <1>2, <2>1, <2>2 DEF ExpireOpen, FoundPaid
<1>3. ASSUME NEW s \in Sessions, SendToStripe(s)
      PROVE  UNCHANGED attempt \/ attempt' = [attempt EXCEPT ![s] = "OPEN"]
  BY <1>3 DEF SendToStripe, attempts
<1>4. CASE /\ ~\E w \in Workers : (\E s \in Sessions : SyncAttempt(w, s)) \/ ExpireOpen(w) \/ CloseAttempt(w)
           /\ ~\E s \in Sessions : SendToStripe(s)
  BY <1>4 DEF Next, Work, SyncDone, ReadInvoice, CheckDuplicate, AlertShop, InsertPayment,
     RecordFee, MarkEvent, RecordManual, RefuseManual, Crash, StartSweep, Deliver, Land,
     StartManual, Customer, OpenPayPage, CreateSession, Pay, SessionExpires, LoseEvent, Shop,
     BulkMarkPaid, Void, SoftDelete, Restore, WriteRow, Reconnect, attempts, vars
<1> QED BY <1>1, <1>2, <1>3, <1>4

(* What Stripe has expired stays expired.                                    *)
LEMMA ExpiredStep ==
  ASSUME "unknown_session" \notin Faults, TypeInv, ExpiredMeansNoMoney, [Next]_vars
  PROVE  (TypeInv /\ ExpiredMeansNoMoney)'
<1> SUFFICES ExpiredMeansNoMoney'
  BY TypeStep
<1>1. SessionsKept /\ attempt \in [Sessions -> {"none", "OPEN", "COMPLETE", "EXPIRED"}]
  BY SessionsStep DEF TypeInv, OtherTypes
<1>2. CASE UNCHANGED attempt
  BY <1>1, <1>2 DEF ExpiredMeansNoMoney, SessionsKept
<1>3. ASSUME NEW s \in Sessions, NEW status, attempt' = [attempt EXCEPT ![s] = status],
             status = "EXPIRED" => session'[s].at = "expired"
      PROVE  ExpiredMeansNoMoney'
  BY <1>1, <1>3 DEF ExpiredMeansNoMoney, SessionsKept
<1>4. ASSUME NEW w \in Workers, CloseAttempt(w)
      PROVE  ExpiredMeansNoMoney'
  <2>1. job[w].s \in Sessions
    BY <1>4 DEF CloseAttempt, TypeInv, JobsFit, JobFits, PastSync
  <2> QED BY <1>3, <1>4, <2>1 DEF CloseAttempt
<1> QED BY <1>2, <1>3, <1>4, AttemptWrites

(* The sweep, the landing page and the guard never write off a session that  *)
(* still can be, or was, paid: not when the customer pays while staff expire *)
(* it, not when Stripe is down, not after a crash.  (They believe Stripe if  *)
(* it does not know the session, which the condition excludes.)              *)
THEOREM ExpiredIsFinal ==
  ASSUME "unknown_session" \notin Faults
  PROVE  Spec => []ExpiredMeansNoMoney
<1>1. Init => TypeInv /\ ExpiredMeansNoMoney
  BY TypeInit DEF Init, ExpiredMeansNoMoney
<1>2. (TypeInv /\ ExpiredMeansNoMoney) /\ [Next]_vars => (TypeInv /\ ExpiredMeansNoMoney)'
  BY ExpiredStep
<1> QED BY <1>1, <1>2, PTL DEF Spec

----------------------------------------------------------------------------
(* Money that has been dealt with *)

HasRow(ps, s) == \E i \in Invoices : \E p \in ps[i] : p.pi = s
DealtWith(ps, aside, s) == HasRow(ps, s) \/ s \in aside

(* The properties say the same of the state's payments.                      *)
LEMMA CreditedHasRow == \A s \in Sessions : Credited(s) <=> HasRow(payments, s)
<1> SUFFICES ASSUME NEW s \in Sessions PROVE Credited(s) <=> HasRow(payments, s)
  OBVIOUS
<1>1. ASSUME NEW i \in Invoices, NEW p \in payments[i], p.pi = s PROVE Credited(s)
  <2>1. <<i, p.id>> \in {<<i, q.id>> : q \in {r \in payments[i] : r.pi = s}}
    BY <1>1
  <2>2. <<i, p.id>> \in CreditRows(s)
    BY <2>1, Zenon DEF CreditRows
  <2> QED BY <2>2 DEF Credited
<1>2. ASSUME NEW c \in CreditRows(s) PROVE HasRow(payments, s)
  BY <1>2, Zenon DEF CreditRows, HasRow
<1> QED BY <1>1, <1>2 DEF Credited, HasRow

(* Money is set aside in a step of its own.                                  *)
LEMMA AsideWrites ==
  ASSUME [Next]_vars
  PROVE  refused' = refused \/ \E w \in Workers : AlertShop(w)
<1> SUFFICES ASSUME ~\E w \in Workers : AlertShop(w) PROVE refused' = refused
  OBVIOUS
<1> QED BY ZenonT(30) DEF Next, Work, SyncAttempt, ExpireOpen, CloseAttempt, SyncDone, ReadInvoice,
      CheckDuplicate, InsertPayment, RecordFee, MarkEvent, RecordManual, RefuseManual, Crash,
      StartSweep, Deliver, Land, StartManual, Customer, OpenPayPage, CreateSession, SendToStripe,
      Pay, SessionExpires, LoseEvent, Shop, BulkMarkPaid, Void, SoftDelete, Restore, WriteRow,
      Reconnect, db, notes, vars

(* Payments are not taken back, nor what was set aside.                      *)
LEMMA NothingTakenBack ==
  ASSUME TypeInv, [Next]_vars
  PROVE  /\ \A s : HasRow(payments, s) => HasRow(payments', s)
         /\ \A s : DealtWith(payments, refused, s) => DealtWith(payments', refused', s)
<1>1. ASSUME NEW j \in Invoices, NEW amount, NEW pi, AddPayment(j, amount, pi)
      PROVE  \A i \in Invoices : payments[i] \subseteq payments'[i]
  BY <1>1 DEF AddPayment, TypeInv, BooksTypes
<1>2. \A i \in Invoices : payments[i] \subseteq payments'[i]
  <2>1. ASSUME NEW w \in Workers, CreditJob(w)
        PROVE  \A i \in Invoices : payments[i] \subseteq payments'[i]
    <3>1. job[w].at \in PastSync
      BY <2>1 DEF CreditJob, PastSync
    <3> QED BY <1>1, <2>1, <3>1, PaidSession DEF CreditJob
  <2> QED BY <1>1, <2>1, BookingStep DEF Booking, Edit, Void, SoftDelete, Restore, WriteRow
<1>3. refused \subseteq refused'
  BY AsideWrites DEF AlertShop
<1> QED BY <1>2, <1>3 DEF HasRow, DealtWith

(* The stages past the recording path. *)
Late == {"fee", "mark", "close"}

(* A worker becomes what its step says. *)
LEMMA Became ==
  ASSUME TypeInv, NEW w \in Workers, NEW j, Become(w, j)
  PROVE  job'[w] = j /\ \A v \in Workers \ {w} : job'[v] = job[v]
BY DEF Become, TypeInv, JobsFit

(* The stage and session of a changed job. *)
LEMMA ChangedJob ==
  ASSUME NEW j \in Jobs, NEW s, NEW at, NEW answer, NEW row
  PROVE  /\ [j EXCEPT !.todo = @ \ {s}, !.s = NoSession, !.at = "sync", !.feeKnown = TRUE].at = "sync"
         /\ [j EXCEPT !.at = at, !.s = s].at = at
         /\ [j EXCEPT !.at = at, !.s = s, !.feeKnown = FALSE].at = at
         /\ [j EXCEPT !.held = row, !.at = at].at = at
         /\ [j EXCEPT !.answer = answer, !.at = at].at = at
         /\ [j EXCEPT !.answer = answer, !.at = at].s = j.s
BY DEF Jobs

(* A worker keeps its session when it only goes on. *)
LEMMA WentTo ==
  ASSUME TypeInv, NEW w \in Workers, NEW at, GoTo(w, at)
  PROVE  job'[w].at = at /\ job'[w].s = job[w].s
<1>1. job[w] \in Jobs
  BY DEF TypeInv, JobsFit
<1> QED BY <1>1, Became DEF GoTo, Jobs

(* The duplicate precheck finds a row of the ledger.                         *)
LEMMA RowFound ==
  ASSUME NEW i \in Invoices, NEW pi, Recorded(i, pi)
  PROVE  HasRow(payments, pi)
BY DEF Recorded, HasRow

(* A credit is a row of the ledger.                                          *)
LEMMA RowAdded ==
  ASSUME TypeInv, NEW i \in Invoices, NEW amount, NEW pi, AddPayment(i, amount, pi)
  PROVE  HasRow(payments', pi)
<1> DEFINE new == [id |-> Cardinality(payments[i]) + 1, amount |-> amount, pi |-> pi]
<1>1. new \in payments'[i] /\ new.pi = pi
  BY DEF AddPayment, TypeInv, BooksTypes
<1> HIDE DEF new
<1> QED BY <1>1 DEF HasRow

(* Every way for a worker to get past the recording path, or past the fee.   *)
GetsPast(w) ==
  LET s == job[w].s
  IN /\ job'[w].s = s /\ s \in Sessions /\ session[s].inv \in Invoices
     /\ \/ RecordFee(w) /\ job'[w].at # "fee"
        \/ s \in refused' /\ job'[w].at # "fee"
        \/ invoice[session[s].inv].deleted
        \/ session[s].account # account /\ job'[w].at # "fee"
        \/ HasRow(payments', s)

(* There is no other way. *)
LEMMA LateWork ==
  ASSUME TypeInv, [Next]_vars, NEW w \in Workers, Work(w), job'[w].at \in Late
  PROVE  GetsPast(w)
<1>1. job[w] \in Jobs /\ JobFits(job[w], session)
  BY DEF TypeInv, JobsFit
<1>2. /\ Returned(w) \in {"mark", "close"} /\ AfterRecord(w) \in {"mark", "fee"}
  BY ReturnStages
<1>3. ~Stop(w)
  BY Became DEF Stop, Idle, Late
<1>4. ASSUME NEW s, Skip(w, s) PROVE FALSE
  <2>1. job'[w] = [job[w] EXCEPT !.todo = @ \ {s}, !.s = NoSession, !.at = "sync",
                                   !.feeKnown = TRUE]
    BY <1>4, Became DEF Skip
  <2>2. job'[w].at = "sync"
    BY <1>1, <2>1 DEF Jobs
  <2> QED BY <2>2 DEF Late
<1>5. ASSUME NEW s, Unavailable(w, s) PROVE FALSE
  BY <1>3, <1>4, <1>5 DEF Unavailable
<1>6. ASSUME NEW s, FoundPaid(w, s) PROVE FALSE
  <2>1. \/ job'[w] = [job[w] EXCEPT !.at = "read", !.s = s]
        \/ job'[w] = [job[w] EXCEPT !.at = "read", !.s = s, !.feeKnown = FALSE]
    BY <1>6, Became DEF FoundPaid, GoRecord
  <2>2. job'[w].at = "read"
    <3>1. CASE job'[w] = [job[w] EXCEPT !.at = "read", !.s = s]
      BY <1>1, <3>1, ChangedJob
    <3>2. CASE job'[w] = [job[w] EXCEPT !.at = "read", !.s = s, !.feeKnown = FALSE]
      BY <1>1, <3>2, ChangedJob
    <3> QED BY <2>1, <3>1, <3>2
  <2> QED BY <2>2 DEF Late
<1>7. ASSUME NEW s, Become(w, [job[w] EXCEPT !.at = "expire", !.s = s]) PROVE FALSE
  <2>1. job'[w] = [job[w] EXCEPT !.at = "expire", !.s = s]
    BY <1>7, Became
  <2>2. job'[w].at = "expire"
    BY <1>1, <2>1, ChangedJob
  <2> QED BY <2>2 DEF Late
<1>8. ASSUME NEW s \in Sessions, SyncAttempt(w, s) PROVE FALSE
  BY <1>4, <1>5, <1>6, <1>7, <1>8 DEF SyncAttempt
<1>9. ~ExpireOpen(w) /\ ~CloseAttempt(w)
  BY <1>4, <1>5, <1>6 DEF ExpireOpen, CloseAttempt
<1>10. ~SyncDone(w)
  BY <1>3, WentTo DEF SyncDone, Late
<1>11. CASE ReadInvoice(w)
  <2>1. ASSUME NEW answer, NEW at, Become(w, [job[w] EXCEPT !.answer = answer, !.at = at])
        PROVE  job'[w].s = job[w].s /\ job'[w].at = at
    <3>1. job'[w] = [job[w] EXCEPT !.answer = answer, !.at = at]
      BY <2>1, Became
    <3> QED BY <1>1, <3>1, ChangedJob
  <2>2. ASSUME NEW row, Become(w, [job[w] EXCEPT !.held = row, !.at = "check"]) PROVE FALSE
    <3>1. job'[w] = [job[w] EXCEPT !.held = row, !.at = "check"]
      BY <2>2, Became
    <3>2. job'[w].at = "check"
      BY <1>1, <3>1, ChangedJob
    <3> QED BY <3>2 DEF Late
  <2>3. job[w].s \in Sessions /\ session[job[w].s].inv \in Invoices
    BY <1>11, PaidSession DEF ReadInvoice, PastSync
  <2> QED BY <1>2, <1>11, <2>1, <2>2, <2>3 DEF ReadInvoice, GetsPast
<1>12. CASE CheckDuplicate(w)
  <2>1. job[w].s \in Sessions /\ session[job[w].s].inv \in Invoices
    BY <1>12, PaidSession DEF CheckDuplicate, PastSync
  <2>2. GoTo(w, AfterRecord(w)) /\ Recorded(session[job[w].s].inv, job[w].s) /\ UNCHANGED payments
    <3>1. ~GoTo(w, "alert") /\ ~GoTo(w, "insert")
      BY WentTo DEF Late
    <3> QED BY <1>12, <3>1 DEF CheckDuplicate, db
  <2>3. HasRow(payments', job[w].s)
    BY <2>1, <2>2, RowFound
  <2> QED BY <2>1, <2>2, <2>3, WentTo DEF GetsPast
<1>13. CASE AlertShop(w)
  <2>1. job[w].s \in Sessions /\ session[job[w].s].inv \in Invoices
    BY <1>13, PaidSession DEF AlertShop, PastSync
  <2> QED BY <1>2, <1>13, <2>1, WentTo DEF AlertShop, GetsPast
<1>14. CASE InsertPayment(w)
  <2>1. job[w].s \in Sessions /\ session[job[w].s].inv \in Invoices
    BY <1>14, PaidSession DEF InsertPayment, PastSync
  <2>2. ~Raise(w)
    BY <1>3 DEF Raise
  <2>3. /\ GoTo(w, AfterRecord(w))
        /\ \/ Recorded(session[job[w].s].inv, job[w].s) /\ payments' = payments
           \/ AddPayment(session[job[w].s].inv, session[job[w].s].amount, job[w].s)
    BY <1>14, <2>2 DEF InsertPayment
  <2>4. HasRow(payments', job[w].s)
    <3>1. CASE Recorded(session[job[w].s].inv, job[w].s) /\ payments' = payments
      BY <2>1, <3>1, RowFound
    <3>2. CASE AddPayment(session[job[w].s].inv, session[job[w].s].amount, job[w].s)
      BY <2>1, <3>2, RowAdded
    <3> QED BY <2>3, <3>1, <3>2
  <2> QED BY <2>1, <2>3, <2>4, WentTo DEF GetsPast
<1>15. CASE RecordFee(w)
  <2>1. job[w].s \in Sessions /\ session[job[w].s].inv \in Invoices
    BY <1>15, PaidSession DEF RecordFee, PastSync
  <2> QED BY <1>2, <1>15, <2>1, WentTo DEF RecordFee, GetsPast
<1>16. ~MarkEvent(w) /\ ~RefuseManual(w) /\ ~\E a \in Amounts : RecordManual(w, a)
  BY <1>3 DEF MarkEvent, RefuseManual, RecordManual
<1> QED BY <1>8, <1>9, <1>10, <1>11, <1>12, <1>13, <1>14, <1>15, <1>16 DEF Work

(* A worker that is past the recording path was there before, or got there.  *)
LEMMA LateStep ==
  ASSUME TypeInv, [Next]_vars, NEW w \in Workers, job'[w].at \in Late
  PROVE  job'[w] = job[w] \/ GetsPast(w)
<1>1. ASSUME NEW v \in Workers, Work(v), v # w PROVE job'[w] = job[w]
  <2>1. ASSUME NEW j, Become(v, j) PROVE job'[w] = job[w]
    BY <1>1, <2>1, Became
  <2> QED BY <1>1, <2>1 DEF Work, SyncAttempt, ExpireOpen, CloseAttempt, SyncDone, ReadInvoice,
        CheckDuplicate, AlertShop, InsertPayment, RecordFee, MarkEvent, RecordManual, RefuseManual,
        FoundPaid, GoRecord, Skip, Unavailable, Raise, GoTo, Stop
<1>2. ASSUME NEW v \in Workers, NEW j, Become(v, j), j.at \notin Late PROVE job'[w] = job[w]
  BY <1>2, Became
<1>3. ASSUME NEW v \in Workers, Crash(v) PROVE job'[w] = job[w]
  <2>1. Become(v, Idle) /\ Idle.at \notin Late
    BY <1>3 DEF Crash, Stop, Idle, Late
  <2> QED BY <2>1, <1>2
<1>4. ASSUME NEW v \in Workers, StartSweep(v) PROVE job'[w] = job[w]
  BY <1>2, <1>4 DEF StartSweep, Idle, Late
<1>5. ASSUME NEW v \in Workers, NEW e \in Events, Deliver(v, e) PROVE job'[w] = job[w]
  BY <1>2, <1>5 DEF Deliver, Idle, Late
<1>6. ASSUME NEW v \in Workers, NEW s \in Sessions, Land(v, s) PROVE job'[w] = job[w]
  BY <1>2, <1>6 DEF Land, Idle, Late
<1>7. ASSUME NEW v \in Workers, NEW i \in Invoices, StartManual(v, i) PROVE job'[w] = job[w]
  BY <1>2, <1>7 DEF StartManual, Idle, Late
<1>8. CASE ~\E v \in Workers : \/ Work(v) \/ Crash(v) \/ StartSweep(v)
                               \/ \E e \in Events : Deliver(v, e)
                               \/ \E s \in Sessions : Land(v, s)
                               \/ \E i \in Invoices : StartManual(v, i)
  BY <1>8 DEF Next, Customer, OpenPayPage, CreateSession, SendToStripe, Pay, SessionExpires,
     LoseEvent, Shop, BulkMarkPaid, Void, SoftDelete, Restore, WriteRow, Reconnect, vars
<1> QED BY <1>1, <1>3, <1>4, <1>5, <1>6, <1>7, <1>8, LateWork

----------------------------------------------------------------------------
(* Platform fees *)

(* Nobody deletes: the invoice of a session can always be found.             *)
NoneDeleted == \A i \in Invoices : ~invoice[i].deleted

(* A worker that records a fee has its payment in the ledger.                *)
FeeJobs == \A w \in Workers : job[w].at = "fee" => HasRow(payments, job[w].s)

FeeRows == \A s \in fees : HasRow(payments, s)

FeeInv == TypeInv /\ NoneDeleted /\ FeeJobs /\ FeeRows

(* No step deletes an invoice, unless staff may. *)
LEMMA NoneDeletedStep ==
  ASSUME "soft_delete" \notin Ops, TypeInv, NoneDeleted, [Next]_vars
  PROVE  NoneDeleted'
<1>1. ASSUME NEW i \in Invoices, Edit(i) PROVE NoneDeleted'
  <2>1. invoice[i] \in Rows
    BY DEF TypeInv, BooksTypes
  <2>2. [invoice[i] EXCEPT !.status = "CANCELLED"].deleted = invoice[i].deleted
    BY <2>1 DEF Rows
  <2>3. Void(i)
    BY <1>1 DEF Edit, SoftDelete, Restore, NoneDeleted
  <2> QED BY <2>2, <2>3 DEF Void, WriteRow, NoneDeleted, TypeInv, BooksTypes
<1>2. ASSUME NEW i \in Invoices, NEW amount \in Nat \ {0}, AddPayment(i, amount, Manual)
      PROVE  NoneDeleted'
  BY <1>2, AddPaymentTypes DEF NoneDeleted, TypeInv
<1>3. ASSUME NEW w \in Workers, CreditJob(w) PROVE NoneDeleted'
  <2>1. job[w].at \in PastSync
    BY <1>3 DEF CreditJob, PastSync
  <2> QED BY <1>3, <2>1, PaidSession, AddPaymentTypes DEF CreditJob, NoneDeleted, TypeInv
<1> QED BY <1>1, <1>2, <1>3, BookingStep DEF Booking, NoneDeleted

(* A step writes fee records only at the fee stage. *)
LEMMA FeeStep ==
  ASSUME "soft_delete" \notin Ops, FeeInv, [Next]_vars
  PROVE  FeeInv'
<1>1. TypeInv /\ TypeInv' /\ NoneDeleted'
  BY TypeStep, NoneDeletedStep DEF FeeInv
<1>2. \A s : HasRow(payments, s) => HasRow(payments', s)
  BY <1>1, NothingTakenBack
<1>3. FeeJobs'
  <2> SUFFICES ASSUME NEW w \in Workers, job'[w].at = "fee"
               PROVE  HasRow(payments', job'[w].s)
    BY DEF FeeJobs
  <2>1. CASE job'[w] = job[w]
    BY <1>2, <2>1 DEF FeeInv, FeeJobs
  <2>2. CASE GetsPast(w)
    <3>1. HasRow(payments', job[w].s) \/ invoice[session[job[w].s].inv].deleted
      BY <2>2 DEF GetsPast
    <3>2. CASE job[w].at = "fee"
      BY <1>2, <2>2, <3>2 DEF FeeInv, FeeJobs, GetsPast
    <3>3. CASE invoice[session[job[w].s].inv].deleted
      <4>1. session[job[w].s].inv \in Invoices
        BY <2>2 DEF GetsPast
      <4> QED BY <3>3, <4>1 DEF FeeInv, NoneDeleted
    <3> QED BY <2>2, <3>1, <3>3 DEF GetsPast
  <2> QED BY <1>1, <2>1, <2>2, LateStep DEF Late
<1>4. FeeRows'
  <2> SUFFICES ASSUME NEW s \in fees' PROVE HasRow(payments', s)
    BY DEF FeeRows
  <2>1. ASSUME NEW w \in Workers, RecordFee(w)
        PROVE  s \in fees \/ (s = job[w].s /\ job[w].at = "fee")
    BY <2>1 DEF RecordFee
  <2>2. CASE ~\E w \in Workers : RecordFee(w)
    <3>1. fees' = fees
      BY <2>2, ZenonT(30) DEF Next, Work, SyncAttempt, ExpireOpen, CloseAttempt, SyncDone, ReadInvoice,
         CheckDuplicate, AlertShop, InsertPayment, MarkEvent, RecordManual, RefuseManual, Crash,
         StartSweep, Deliver, Land, StartManual, Customer, OpenPayPage, CreateSession, SendToStripe,
         Pay, SessionExpires, LoseEvent, Shop, BulkMarkPaid, Void, SoftDelete, Restore, WriteRow,
         Reconnect, db, vars
    <3> QED BY <1>2, <3>1 DEF FeeInv, FeeRows
  <2> QED BY <1>2, <2>1, <2>2 DEF FeeInv, FeeRows, FeeJobs
<1> QED BY <1>1, <1>3, <1>4 DEF FeeInv

(* No fee at first. *)
LEMMA FeeInit == Init => FeeInv
<1> SUFFICES ASSUME Init PROVE FeeInv
  OBVIOUS
<1>1. NoneDeleted
  BY DEF Init, NoneDeleted
<1>2. FeeJobs /\ FeeRows
  BY DEF Init, Idle, FeeJobs, FeeRows
<1> QED BY <1>1, <1>2, TypeInit DEF FeeInv

(* The platform never books a fee for money that is not in the shop's books, *)
(* although the fee is written after the payment's transaction, by any of    *)
(* the workers that carry the event.                                         *)
THEOREM FeesAreForPayments ==
  ASSUME "soft_delete" \notin Ops
  PROVE  Spec => []FeeHasPayment
<1>1. FeeInv => FeeHasPayment
  BY CreditedHasRow DEF FeeInv, FeeRows, FeeHasPayment, TypeInv, OtherTypes
<1>2. FeeInv /\ [Next]_vars => FeeInv'
  BY FeeStep
<1> QED BY <1>1, <1>2, FeeInit, PTL DEF Spec

----------------------------------------------------------------------------
(* The invoice that a worker holds *)

(* A payment changes the status forward only: nothing but a void voids.      *)
LEMMA SavedStatus ==
  ASSUME NEW row \in Rows, NEW ps, NEW day
  PROVE  AfterPaymentSaved(row, ps, day).status \in {row.status, "PAID", "PARTIAL", "OVERDUE"}
BY DEF AfterPaymentSaved, UpdateStatus, Rows

(* A payment goes into the books of one invoice, and moves its status.       *)
LEMMA PaymentRow ==
  ASSUME TypeInv, NEW i \in Invoices, NEW amount, NEW pi, AddPayment(i, amount, pi)
  PROVE  /\ \A j \in Invoices \ {i} : payments'[j] = payments[j] /\ invoice'[j] = invoice[j]
         /\ \E p : p.pi = pi /\ payments'[i] = payments[i] \cup {p}
         /\ invoice'[i].status \in {invoice[i].status, "PAID", "PARTIAL", "OVERDUE"}
<1> DEFINE p == [id |-> Cardinality(payments[i]) + 1, amount |-> amount, pi |-> pi]
<1>1. invoice[i] \in Rows
  BY DEF TypeInv, BooksTypes
<1>2. /\ payments' = [payments EXCEPT ![i] = @ \cup {p}]
      /\ invoice' = [invoice EXCEPT ![i] = AfterPaymentSaved(@, payments'[i], Today)]
  BY DEF AddPayment
<1>3. p.pi = pi
  OBVIOUS
<1> HIDE DEF p
<1>4. payments'[i] = payments[i] \cup {p} /\ \A j \in Invoices \ {i} : payments'[j] = payments[j]
  BY <1>2 DEF TypeInv, BooksTypes
<1>5. /\ invoice'[i] = AfterPaymentSaved(invoice[i], payments'[i], Today)
      /\ \A j \in Invoices \ {i} : invoice'[j] = invoice[j]
  BY <1>2 DEF TypeInv, BooksTypes
<1> QED BY <1>1, <1>3, <1>4, <1>5, SavedStatus

(* The stages at which a worker holds the invoice as it read it.             *)
Holding == {"check", "insert", "alert"}

(* How a worker comes to hold an invoice: it reads it, or goes on with the   *)
(* one it has, to the insert when that one is not paid and to the notice     *)
(* when it is.                                                               *)
Reads(w) ==
  /\ job[w].at = "read" /\ job'[w].at = "check" /\ job'[w].s = job[w].s
  /\ job'[w].held = invoice[session[job[w].s].inv]
  /\ invoice' = invoice

GoesToInsert(w) ==
  /\ job[w].at = "check" /\ job'[w].at = "insert" /\ job'[w].s = job[w].s
  /\ job'[w].held = job[w].held /\ job[w].held.status # "PAID"
  /\ invoice' = invoice

GoesToAlert(w) ==
  /\ job[w].at = "check" /\ job'[w].at = "alert" /\ job'[w].s = job[w].s
  /\ job[w].held.status = "PAID" \/ AmountDue(job[w].held) <= 0
  /\ invoice' = invoice

LEMMA HoldingWork ==
  ASSUME TypeInv, NEW w \in Workers, Work(w), job'[w].at \in Holding
  PROVE  Reads(w) \/ GoesToInsert(w) \/ GoesToAlert(w)
<1>1. job[w] \in Jobs /\ JobFits(job[w], session)
  BY DEF TypeInv, JobsFit
<1>2. Returned(w) \in {"mark", "close"} /\ AfterRecord(w) \in {"mark", "fee"}
  BY ReturnStages
<1>3. ~Stop(w)
  BY Became DEF Stop, Idle, Holding
<1>4. ASSUME NEW at, at \notin Holding, GoTo(w, at) PROVE FALSE
  BY <1>4, WentTo
<1>5. ASSUME NEW s, NEW at \in {"read", "expire"},
             \/ Become(w, [job[w] EXCEPT !.at = at, !.s = s])
             \/ Become(w, [job[w] EXCEPT !.at = at, !.s = s, !.feeKnown = FALSE])
      PROVE  FALSE
  <2>1. \/ job'[w] = [job[w] EXCEPT !.at = at, !.s = s]
        \/ job'[w] = [job[w] EXCEPT !.at = at, !.s = s, !.feeKnown = FALSE]
    BY <1>5, Became
  <2>2. job'[w].at = at
    <3>1. CASE job'[w] = [job[w] EXCEPT !.at = at, !.s = s]
      BY <1>1, <3>1, ChangedJob
    <3>2. CASE job'[w] = [job[w] EXCEPT !.at = at, !.s = s, !.feeKnown = FALSE]
      BY <1>1, <3>2, ChangedJob
    <3> QED BY <2>1, <3>1, <3>2
  <2> QED BY <2>2 DEF Holding
<1>6. ASSUME NEW s, Skip(w, s) PROVE FALSE
  <2>1. job'[w] = [job[w] EXCEPT !.todo = @ \ {s}, !.s = NoSession, !.at = "sync",
                                   !.feeKnown = TRUE]
    BY <1>6, Became DEF Skip
  <2>2. job'[w].at = "sync"
    BY <1>1, <2>1 DEF Jobs
  <2> QED BY <2>2 DEF Holding
<1>7. ASSUME NEW s \in Sessions, SyncAttempt(w, s) PROVE FALSE
  BY <1>3, <1>5, <1>6, <1>7 DEF SyncAttempt, FoundPaid, GoRecord, Unavailable
<1>8. ~ExpireOpen(w) /\ ~CloseAttempt(w)
  BY <1>3, <1>5, <1>6 DEF ExpireOpen, FoundPaid, GoRecord, Unavailable, CloseAttempt
<1>9. ~SyncDone(w) /\ ~MarkEvent(w) /\ ~RefuseManual(w) /\ ~(\E a \in Amounts : RecordManual(w, a))
  BY <1>3, <1>4 DEF SyncDone, Holding, MarkEvent, RefuseManual, RecordManual
<1>10. ~AlertShop(w) /\ ~RecordFee(w) /\ ~InsertPayment(w)
  BY <1>2, <1>3, <1>4 DEF AlertShop, RecordFee, InsertPayment, Raise, Holding
<1>11. CASE ReadInvoice(w)
  <2>1. ASSUME NEW answer, NEW at, at \notin Holding, Become(w, [job[w] EXCEPT !.answer = answer, !.at = at])
        PROVE  FALSE
    <3>1. job'[w] = [job[w] EXCEPT !.answer = answer, !.at = at]
      BY <2>1, Became
    <3> QED BY <1>1, <2>1, <3>1, ChangedJob
  <2>2. Become(w, [job[w] EXCEPT !.held = invoice[session[job[w].s].inv], !.at = "check"])
    BY <1>2, <1>11, <2>1 DEF ReadInvoice, Holding
  <2>3. job'[w] = [job[w] EXCEPT !.held = invoice[session[job[w].s].inv], !.at = "check"]
    BY <2>2, Became
  <2>4. /\ job'[w].at = "check" /\ job'[w].s = job[w].s
        /\ job'[w].held = invoice[session[job[w].s].inv]
    BY <1>1, <2>3 DEF Jobs
  <2> QED BY <1>11, <2>4 DEF ReadInvoice, Reads, db
<1>12. CASE CheckDuplicate(w)
  <2>1. CASE GoTo(w, "insert") /\ job[w].held.status # "PAID"
    <3>1. job'[w] = [job[w] EXCEPT !.at = "insert"]
      BY <2>1, Became DEF GoTo
    <3>2. job'[w].at = "insert" /\ job'[w].s = job[w].s /\ job'[w].held = job[w].held
      BY <1>1, <3>1 DEF Jobs
    <3> QED BY <1>12, <2>1, <3>2 DEF CheckDuplicate, GoesToInsert, db
  <2>2. CASE GoTo(w, "alert") /\ (job[w].held.status = "PAID" \/ AmountDue(job[w].held) <= 0)
    BY <1>12, <2>2, WentTo DEF CheckDuplicate, GoesToAlert, db
  <2> QED BY <1>2, <1>4, <1>12, <2>1, <2>2 DEF CheckDuplicate, Holding
<1> QED BY <1>7, <1>8, <1>9, <1>10, <1>11, <1>12 DEF Work

LEMMA HoldingStep ==
  ASSUME TypeInv, [Next]_vars, NEW w \in Workers, job'[w].at \in Holding
  PROVE  job'[w] = job[w] \/ Reads(w) \/ GoesToInsert(w) \/ GoesToAlert(w)
<1>1. ASSUME NEW v \in Workers, Work(v), v # w PROVE job'[w] = job[w]
  <2>1. ASSUME NEW j, Become(v, j) PROVE job'[w] = job[w]
    BY <1>1, <2>1, Became
  <2> QED BY <1>1, <2>1 DEF Work, SyncAttempt, ExpireOpen, CloseAttempt, SyncDone, ReadInvoice,
        CheckDuplicate, AlertShop, InsertPayment, RecordFee, MarkEvent, RecordManual, RefuseManual,
        FoundPaid, GoRecord, Skip, Unavailable, Raise, GoTo, Stop
<1>2. ASSUME NEW v \in Workers, NEW j, Become(v, j), j.at \notin Holding PROVE job'[w] = job[w]
  BY <1>2, Became
<1>3. ASSUME NEW v \in Workers, \/ Crash(v) \/ StartSweep(v)
                                \/ \E e \in Events : Deliver(v, e)
                                \/ \E s \in Sessions : Land(v, s)
                                \/ \E i \in Invoices : StartManual(v, i)
      PROVE  job'[w] = job[w]
  <2>1. CASE Crash(v)
    <3>1. Become(v, Idle) /\ Idle.at \notin Holding
      BY <2>1 DEF Crash, Stop, Idle, Holding
    <3> QED BY <1>2, <3>1
  <2>2. CASE StartSweep(v)
    BY <1>2, <2>2 DEF StartSweep, Idle, Holding
  <2>3. ASSUME NEW e \in Events, Deliver(v, e) PROVE job'[w] = job[w]
    BY <1>2, <2>3 DEF Deliver, Idle, Holding
  <2>4. ASSUME NEW s \in Sessions, Land(v, s) PROVE job'[w] = job[w]
    BY <1>2, <2>4 DEF Land, Idle, Holding
  <2>5. ASSUME NEW i \in Invoices, StartManual(v, i) PROVE job'[w] = job[w]
    BY <1>2, <2>5 DEF StartManual, Idle, Holding
  <2> QED BY <1>3, <2>1, <2>2, <2>3, <2>4, <2>5
<1>4. CASE ~\E v \in Workers : \/ Work(v) \/ Crash(v) \/ StartSweep(v)
                               \/ \E e \in Events : Deliver(v, e)
                               \/ \E s \in Sessions : Land(v, s)
                               \/ \E i \in Invoices : StartManual(v, i)
  BY <1>4 DEF Next, Customer, OpenPayPage, CreateSession, SendToStripe, Pay, SessionExpires,
     LoseEvent, Shop, BulkMarkPaid, Void, SoftDelete, Restore, WriteRow, Reconnect, vars
<1> QED BY <1>1, <1>3, <1>4, HoldingWork

----------------------------------------------------------------------------
(* Money set aside *)

(* amount_paid is what the payments add up to, and PAID means covered.       *)
LedgerRight ==
  \A i \in Invoices : /\ invoice[i].paid = PaySum(payments[i])
                      /\ invoice[i].status = "PAID" => AmountDue(invoice[i]) <= 0

DueTo(w) == AmountDue(invoice[session[job[w].s].inv])

(* What a worker read is no more than what has been paid since.              *)
HeldRight ==
  \A w \in Workers :
    /\ job[w].at = "check" => /\ job[w].held \in Rows /\ DueTo(w) <= AmountDue(job[w].held)
                              /\ job[w].held.status = "PAID" => AmountDue(job[w].held) <= 0
    /\ job[w].at = "alert" => DueTo(w) <= 0

(* The invoice of a charge that was set aside is covered.                    *)
AsideCovered ==
  \A s \in refused : session[s].at = "paid" /\ AmountDue(invoice[session[s].inv]) <= 0

AsideInv == TypeInv /\ LedgerRight /\ HeldRight /\ AsideCovered

(* A row that is recomputed over more payments is PAID only if covered.      *)
LEMMA SavedCovers ==
  ASSUME NEW row \in Rows, NEW ps, PaySum(ps) \in Nat, NEW day,
         row.paid <= PaySum(ps), row.status = "PAID" => row.total <= row.paid
  PROVE  LET new == AfterPaymentSaved(row, ps, day)
         IN /\ new.paid = PaySum(ps) /\ new.total = row.total
            /\ new.status = "PAID" => new.total <= new.paid
<1> DEFINE sum == PaySum(ps)
           mid == [row EXCEPT !.paid = sum]
<1>1. row.paid \in Nat /\ row.total \in Nat
  BY StripeAssumption DEF Rows
<1>2. mid \in Rows /\ mid.paid = sum /\ mid.total = row.total /\ mid.status = row.status
  BY DEF Rows
<1>3. AfterPaymentSaved(row, ps, day) = UpdateStatus(mid, day)
  BY DEF AfterPaymentSaved
<1> HIDE DEF mid
<1>4. UpdateStatus(mid, day).paid = mid.paid /\ UpdateStatus(mid, day).total = mid.total
  BY <1>2 DEF UpdateStatus, Rows
<1>5. UpdateStatus(mid, day).status = "PAID" => mid.total <= mid.paid
  <2>1. CASE mid.total <= mid.paid
    BY <2>1
  <2>2. CASE ~(mid.total <= mid.paid)
    <3>1. ~(mid.paid >= mid.total) /\ mid.status # "PAID"
      BY <1>1, <1>2, <2>2
    <3> QED BY <1>2, <3>1 DEF UpdateStatus, Rows
  <2> QED BY <2>1, <2>2
<1> QED BY <1>2, <1>3, <1>4, <1>5

(* A payment lowers what is due, and no step raises it.                      *)
LEMMA DueFalls ==
  ASSUME TypeInv, LedgerRight, [Next]_vars
  PROVE  /\ LedgerRight'
         /\ \A i \in Invoices : AmountDue(invoice'[i]) <= AmountDue(invoice[i])
<1>1. BooksTypes(invoice, payments) /\ BooksTypes(invoice', payments')
  BY BooksStep DEF TypeInv
<1>2. \A i \in Invoices : /\ invoice[i].paid \in Nat /\ invoice[i].total = Total
                          /\ invoice'[i].paid \in Nat /\ invoice'[i].total = Total /\ Total \in Nat
  BY <1>1, StripeAssumption DEF BooksTypes, Rows
<1>3. CASE UNCHANGED <<invoice, payments>>
  BY <1>2, <1>3 DEF LedgerRight, AmountDue
<1>4. ASSUME NEW i \in Invoices, Edit(i)
      PROVE  /\ LedgerRight'
             /\ \A j \in Invoices : AmountDue(invoice'[j]) <= AmountDue(invoice[j])
  <2>1. invoice[i] \in Rows
    BY <1>1 DEF BooksTypes
  <2>2. /\ payments' = payments
        /\ \A j \in Invoices : /\ invoice'[j].paid = invoice[j].paid /\ invoice'[j].total = invoice[j].total
                               /\ invoice'[j].status \in {invoice[j].status, "CANCELLED"}
    BY <1>1, <1>4, <2>1 DEF Edit, Void, SoftDelete, Restore, WriteRow, BooksTypes, Rows
  <2> QED BY <1>2, <2>2 DEF LedgerRight, AmountDue
<1>5. ASSUME NEW i \in Invoices, NEW amount \in Nat \ {0}, NEW pi, AddPayment(i, amount, pi)
      PROVE  /\ LedgerRight'
             /\ \A j \in Invoices : AmountDue(invoice'[j]) <= AmountDue(invoice[j])
  <2> DEFINE p == [id |-> Cardinality(payments[i]) + 1, amount |-> amount, pi |-> pi]
             ps == payments[i] \cup {p}
  <2>1. p.amount = amount
    OBVIOUS
  <2>2. /\ payments' = [payments EXCEPT ![i] = @ \cup {p}]
        /\ invoice' = [invoice EXCEPT ![i] = AfterPaymentSaved(@, payments'[i], Today)]
    BY <1>5 DEF AddPayment
  <2> HIDE DEF p
  <2>3. payments'[i] = ps /\ \A j \in Invoices \ {i} : payments'[j] = payments[j]
    BY <1>1, <2>2 DEF BooksTypes
  <2>4. /\ invoice'[i] = AfterPaymentSaved(invoice[i], ps, Today)
        /\ \A j \in Invoices \ {i} : invoice'[j] = invoice[j]
    BY <1>1, <2>2, <2>3 DEF BooksTypes
  <2>5. Priced(payments[i]) /\ PaySum(payments[i]) \in Nat
    <3>1. Priced(payments[i])
      BY <1>1 DEF Priced, BooksTypes, PaymentRows
    <3> QED BY <3>1, PaySumNat
  <2>6. PaySum(ps) \in Nat /\ PaySum(payments[i]) <= PaySum(ps)
    <3>1. CASE p \in payments[i]
      <4>1. ps = payments[i]
        BY <3>1
      <4> QED BY <2>5, <4>1
    <3>2. CASE p \notin payments[i]
      <4>1. PaySum(ps) = PaySum(payments[i]) + amount
        BY <2>1, <2>5, <3>2, PaySumAdd
      <4> HIDE DEF ps
      <4> QED BY <2>5, <4>1
    <3> QED BY <3>1, <3>2
  <2> HIDE DEF ps
  <2>7. /\ invoice[i] \in Rows /\ invoice[i].paid = PaySum(payments[i])
        /\ invoice[i].status = "PAID" => invoice[i].total <= invoice[i].paid
    BY <1>1, <1>2 DEF LedgerRight, AmountDue, BooksTypes
  <2>8. /\ invoice'[i].paid = PaySum(ps)
        /\ invoice'[i].status = "PAID" => invoice'[i].total <= invoice'[i].paid
    BY <2>4, <2>6, <2>7, SavedCovers
  <2>9. AmountDue(invoice'[i]) <= AmountDue(invoice[i])
    BY <1>2, <2>6, <2>7, <2>8 DEF AmountDue
  <2>10. \A j \in Invoices : AmountDue(invoice'[j]) <= AmountDue(invoice[j])
    BY <1>2, <2>4, <2>9 DEF AmountDue
  <2>11. LedgerRight'
    BY <1>2, <2>3, <2>4, <2>8 DEF LedgerRight, AmountDue
  <2> QED BY <2>10, <2>11
<1>6. ASSUME NEW w \in Workers, CreditJob(w)
      PROVE  /\ LedgerRight'
             /\ \A j \in Invoices : AmountDue(invoice'[j]) <= AmountDue(invoice[j])
  <2>1. job[w].at \in PastSync
    BY <1>6 DEF CreditJob, PastSync
  <2> QED BY <1>5, <1>6, <2>1, PaidSession DEF CreditJob
<1> QED BY <1>3, <1>4, <1>5, <1>6, BookingStep DEF Booking

(* Money is set aside on a row that was covered, and a covered row stays so. *)
LEMMA AsideStep ==
  ASSUME AsideInv, [Next]_vars
  PROVE  AsideInv'
<1>1. TypeInv /\ TypeInv' /\ SessionsKept /\ LedgerRight'
  BY TypeStep, SessionsStep, DueFalls DEF AsideInv
<1>2. \A i \in Invoices : /\ AmountDue(invoice'[i]) <= AmountDue(invoice[i])
                          /\ AmountDue(invoice[i]) \in Int /\ AmountDue(invoice'[i]) \in Int
  <2>1. \A i \in Invoices : invoice[i] \in Rows /\ invoice'[i] \in Rows
    BY <1>1 DEF TypeInv, BooksTypes
  <2>2. \A row \in Rows : AmountDue(row) \in Int
    BY StripeAssumption DEF Rows, AmountDue
  <2> QED BY <2>1, <2>2, DueFalls DEF AsideInv
<1>3. \A row \in Rows : AmountDue(row) \in Int
  BY StripeAssumption DEF Rows, AmountDue
<1>4. ASSUME NEW w \in Workers, job[w].at \in PastSync, job'[w].s = job[w].s
      PROVE  /\ DueTo(w)' <= DueTo(w) /\ DueTo(w) \in Int /\ DueTo(w)' \in Int
             /\ session[job[w].s].inv \in Invoices
  <2>1. job[w].s \in Sessions /\ session[job[w].s].at = "paid" /\ session[job[w].s].inv \in Invoices
    BY <1>1, <1>4, PaidSession
  <2>2. session'[job'[w].s].inv = session[job[w].s].inv
    BY <1>1, <1>4, <2>1 DEF SessionsKept
  <2>3. DueTo(w)' = AmountDue(invoice'[session[job[w].s].inv])
    BY <2>2 DEF DueTo
  <2> QED BY <1>2, <2>1, <2>3 DEF DueTo
<1>5. HeldRight'
  <2> SUFFICES ASSUME NEW w \in Workers, job'[w].at \in {"check", "alert"}
               PROVE  /\ job'[w].at = "check" =>
                            /\ job'[w].held \in Rows /\ DueTo(w)' <= AmountDue(job'[w].held)
                            /\ job'[w].held.status = "PAID" => AmountDue(job'[w].held) <= 0
                      /\ job'[w].at = "alert" => DueTo(w)' <= 0
    BY DEF HeldRight
  <2>1. CASE job'[w] = job[w]
    <3>1. DueTo(w)' <= DueTo(w) /\ DueTo(w) \in Int /\ DueTo(w)' \in Int
      BY <1>4, <2>1 DEF PastSync
    <3>2. HeldRight
      BY DEF AsideInv
    <3> QED BY <1>3, <2>1, <3>1, <3>2 DEF HeldRight
  <2>2. CASE Reads(w)
    <3>1. DueTo(w)' <= DueTo(w) /\ DueTo(w) \in Int /\ session[job[w].s].inv \in Invoices
      BY <1>4, <2>2 DEF Reads, PastSync
    <3>2. job'[w].held = invoice[session[job[w].s].inv] /\ job'[w].at = "check"
      BY <2>2 DEF Reads
    <3> QED BY <1>1, <3>1, <3>2 DEF DueTo, AsideInv, LedgerRight, TypeInv, BooksTypes
  <2>3. CASE GoesToAlert(w)
    <3>1. DueTo(w)' <= DueTo(w) /\ DueTo(w) \in Int /\ DueTo(w)' \in Int
      BY <1>4, <2>3 DEF GoesToAlert, PastSync
    <3>2. job[w].held \in Rows /\ DueTo(w) <= AmountDue(job[w].held) /\ AmountDue(job[w].held) <= 0
      BY <2>3 DEF GoesToAlert, AsideInv, HeldRight
    <3> QED BY <1>3, <2>3, <3>1, <3>2 DEF GoesToAlert
  <2> QED BY <1>1, <2>1, <2>2, <2>3, HoldingStep DEF Holding, GoesToInsert
<1>6. AsideCovered'
  <2> SUFFICES ASSUME NEW s \in refused'
               PROVE  session'[s].at = "paid" /\ AmountDue(invoice'[session'[s].inv]) <= 0
    BY DEF AsideCovered
  <2>1. session[s].at = "paid" /\ AmountDue(invoice[session[s].inv]) <= 0
    <3>1. CASE s \in refused
      BY <3>1 DEF AsideInv, AsideCovered
    <3>2. CASE s \notin refused
      <4>1. PICK w \in Workers : AlertShop(w)
        BY <3>2, AsideWrites
      <4>2. s = job[w].s /\ job[w].at = "alert"
        BY <3>2, <4>1 DEF AlertShop
      <4> QED BY <1>1, <4>2, PaidSession DEF PastSync, AsideInv, HeldRight, DueTo
    <3> QED BY <3>1, <3>2
  <2>2. s \in Sessions
    BY <1>1 DEF TypeInv, OtherTypes
  <2>3. session'[s] = session[s] /\ session[s].inv \in Invoices
    BY <1>1, <2>1, <2>2 DEF SessionsKept, TypeInv, SessionTypes
  <2> QED BY <1>2, <2>1, <2>3
<1> QED BY <1>1, <1>5, <1>6 DEF AsideInv

(* No money has come in at first. *)
LEMMA AsideInit == Init => AsideInv
<1> SUFFICES ASSUME Init PROVE AsideInv
  OBVIOUS
<1>1. LedgerRight
  BY PaySumEmpty DEF Init, LedgerRight
<1>2. HeldRight /\ AsideCovered
  BY DEF Init, Idle, HeldRight, AsideCovered
<1> QED BY <1>1, <1>2, TypeInit DEF AsideInv

----------------------------------------------------------------------------
(* What the attempts and the event log say *)

(* The shop keeps its Connect account, so no session is of another one.      *)
OneAccount == \A s \in Sessions : session[s].account = account

(* A worker past the recording path has seen its money entered or set aside. *)
LateJobs == \A w \in Workers : job[w].at \in Late => DealtWith(payments, refused, job[w].s)

CompleteRows == \A s \in Sessions : attempt[s] = "COMPLETE" => DealtWith(payments, refused, s)

ClosedRows ==
  \A e \in Events : log[e] \in {"processed", "ignored"} => DealtWith(payments, refused, e.s)

SettledInv == FeeInv /\ AsideInv /\ OneAccount /\ LateJobs /\ CompleteRows /\ ClosedRows

(* No step changes an account, unless staff may reconnect. *)
LEMMA OneAccountStep ==
  ASSUME "reconnect" \notin Ops, TypeInv, OneAccount, [Next]_vars
  PROVE  OneAccount'
<1>1. account' = account
  BY ZenonT(30) DEF Next, Work, SyncAttempt, ExpireOpen, CloseAttempt, SyncDone, ReadInvoice, CheckDuplicate,
     AlertShop, InsertPayment, RecordFee, MarkEvent, RecordManual, RefuseManual, Crash, StartSweep,
     Deliver, Land, StartManual, Customer, OpenPayPage, CreateSession, SendToStripe, Pay,
     SessionExpires, LoseEvent, Shop, BulkMarkPaid, Void, SoftDelete, Restore, WriteRow, Reconnect,
     vars
<1>2. ASSUME NEW s \in Sessions, NEW i \in Invoices, OpenPayPage(s, i) PROVE OneAccount'
  BY <1>1, <1>2 DEF OpenPayPage, OneAccount, TypeInv, SessionTypes
<1>3. ASSUME NEW s \in Sessions, NEW from, NEW to, MoveSession(s, from, to) PROVE OneAccount'
  <2>1. session[s] \in CheckoutSessions
    BY DEF TypeInv, SessionTypes
  <2>2. [session[s] EXCEPT !.at = to].account = session[s].account
    BY <2>1 DEF CheckoutSessions
  <2> QED BY <1>1, <1>3, <2>2 DEF MoveSession, OneAccount, TypeInv, SessionTypes
<1>4. CASE session' = session
  BY <1>1, <1>4 DEF OneAccount
<1>5. ASSUME NEW w \in Workers, ExpireOpen(w) PROVE OneAccount'
  <2>1. job[w].s \in Sessions
    BY <1>5 DEF ExpireOpen, TypeInv, JobsFit, JobFits
  <2> QED BY <1>3, <1>4, <1>5, <2>1 DEF ExpireOpen
<1>6. ASSUME NEW s \in Sessions, Customer(s) PROVE OneAccount'
  BY <1>2, <1>3, <1>6 DEF Customer, CreateSession, SendToStripe, Pay, SessionExpires
<1>7. CASE ~(\E w \in Workers : ExpireOpen(w)) /\ ~(\E s \in Sessions : Customer(s))
  <2>1. session' = session
    BY <1>7, ZenonT(30) DEF Next, Work, SyncAttempt, CloseAttempt, SyncDone, ReadInvoice, CheckDuplicate,
       AlertShop, InsertPayment, RecordFee, MarkEvent, RecordManual, RefuseManual, Crash, StartSweep,
       Deliver, Land, StartManual, LoseEvent, Shop, BulkMarkPaid, Void, SoftDelete, Restore,
       WriteRow, Reconnect, stripe, vars
  <2> QED BY <1>4, <2>1
<1> QED BY <1>5, <1>6, <1>7

(* An attempt or an event is closed by a worker past the recording path.     *)
LEMMA SettledStep ==
  ASSUME Ops \cap {"soft_delete", "reconnect"} = {}, SettledInv, [Next]_vars
  PROVE  SettledInv'
<1>1. TypeInv /\ FeeInv' /\ AsideInv' /\ OneAccount'
  BY FeeStep, AsideStep, OneAccountStep DEF SettledInv, FeeInv
<1>2. \A s : DealtWith(payments, refused, s) => DealtWith(payments', refused', s)
  BY <1>1, NothingTakenBack
<1>3. LateJobs'
  <2> SUFFICES ASSUME NEW w \in Workers, job'[w].at \in Late
               PROVE  DealtWith(payments', refused', job'[w].s)
    BY DEF LateJobs
  <2>1. CASE job'[w] = job[w]
    BY <1>2, <2>1 DEF SettledInv, LateJobs
  <2>2. CASE GetsPast(w)
    <3>1. CASE RecordFee(w)
      BY <1>2, <2>2, <3>1 DEF GetsPast, RecordFee, SettledInv, LateJobs, Late
    <3>2. CASE job[w].s \in refused' \/ HasRow(payments', job[w].s)
      BY <2>2, <3>2 DEF GetsPast, DealtWith
    <3>3. session[job[w].s].account = account
      BY <2>2 DEF GetsPast, SettledInv, OneAccount
    <3>4. ~invoice[session[job[w].s].inv].deleted
      BY <2>2 DEF GetsPast, SettledInv, FeeInv, NoneDeleted
    <3> QED BY <2>2, <3>1, <3>2, <3>3, <3>4 DEF GetsPast
  <2> QED BY <1>1, <2>1, <2>2, LateStep
<1>4. CompleteRows'
  <2>1. CASE UNCHANGED attempt
    BY <1>2, <2>1 DEF SettledInv, CompleteRows
  <2>2. ASSUME NEW s \in Sessions, NEW status, attempt' = [attempt EXCEPT ![s] = status],
               status = "COMPLETE" => DealtWith(payments, refused, s)
        PROVE  CompleteRows'
    BY <1>1, <1>2, <2>2 DEF SettledInv, CompleteRows, TypeInv, OtherTypes
  <2>3. ASSUME NEW w \in Workers, CloseAttempt(w)
        PROVE  CompleteRows'
    <3>1. job[w].s \in Sessions /\ DealtWith(payments, refused, job[w].s)
      BY <2>3, <1>1, PaidSession DEF CloseAttempt, PastSync, SettledInv, LateJobs, Late
    <3> QED BY <2>2, <2>3, <3>1 DEF CloseAttempt
  <2> QED BY <1>1, <2>1, <2>2, <2>3, AttemptWrites
<1>5. ClosedRows'
  <2>1. CASE UNCHANGED log
    BY <1>2, <2>1 DEF SettledInv, ClosedRows
  <2>2. ASSUME NEW e \in Events, NEW status, log' = [log EXCEPT ![e] = status],
               status \in {"processed", "ignored"} => DealtWith(payments, refused, e.s)
        PROVE  ClosedRows'
    BY <1>1, <1>2, <2>2 DEF SettledInv, ClosedRows, TypeInv, OtherTypes
  <2>3. ASSUME NEW w \in Workers, job[w].at \in PastSync, job[w].kind \in Webhooks
        PROVE  Event(w) \in Events /\ Event(w).s = job[w].s
    BY <1>1, <2>3, PaidSession DEF Event, Events, Webhooks
  <2>4. ASSUME NEW w \in Workers, InsertPayment(w) PROVE ClosedRows'
    <3>1. log' = log \/ (job[w].kind \in Webhooks /\ log' = [log EXCEPT ![Event(w)] = "failed"])
      BY <2>4 DEF InsertPayment, Raise, IsWebhook
    <3> QED BY <2>1, <2>2, <2>3, <2>4, <3>1 DEF InsertPayment, PastSync
  <2>5. ASSUME NEW w \in Workers, MarkEvent(w) PROVE ClosedRows'
    <3>1. job[w].kind \in Webhooks
      BY <1>1, <2>5 DEF MarkEvent, TypeInv, JobsFit, JobFits
    <3>2. DealtWith(payments, refused, job[w].s)
      BY <2>5 DEF MarkEvent, SettledInv, LateJobs, Late
    <3>3. log' = log \/ \E status : log' = [log EXCEPT ![Event(w)] = status]
      BY <2>5 DEF MarkEvent
    <3>4. Event(w) \in Events /\ Event(w).s = job[w].s
      BY <2>3, <2>5, <3>1 DEF MarkEvent, PastSync
    <3> QED BY <2>1, <2>2, <3>2, <3>3, <3>4
  <2>6. ASSUME NEW w \in Workers, NEW e \in Events, Deliver(w, e) PROVE ClosedRows'
    BY <2>1, <2>2, <2>6 DEF Deliver
  <2>7. CASE /\ ~\E w \in Workers : InsertPayment(w) \/ MarkEvent(w)
             /\ ~\E w \in Workers, e \in Events : Deliver(w, e)
    <3>1. log' = log
      BY <2>7 DEF Next, Work, SyncAttempt, ExpireOpen, CloseAttempt, SyncDone, ReadInvoice,
         CheckDuplicate, AlertShop, RecordFee, RecordManual, RefuseManual, Crash, StartSweep, Land,
         StartManual, Customer, OpenPayPage, CreateSession, SendToStripe, Pay, SessionExpires,
         LoseEvent, Shop, BulkMarkPaid, Void, SoftDelete, Restore, WriteRow, Reconnect, vars
    <3> QED BY <2>1, <3>1
  <2> QED BY <2>4, <2>5, <2>6, <2>7
<1> QED BY <1>1, <1>3, <1>4, <1>5 DEF SettledInv

(* Nothing is closed at first. *)
LEMMA SettledInit == Init => SettledInv
<1> SUFFICES ASSUME Init PROVE SettledInv
  OBVIOUS
<1>1. OneAccount /\ LateJobs
  BY DEF Init, Idle, OneAccount, LateJobs, Late
<1>2. CompleteRows /\ ClosedRows
  BY DEF Init, CompleteRows, ClosedRows
<1> QED BY <1>1, <1>2, FeeInit, AsideInit DEF SettledInv

(* What was dealt with is settled. *)
LEMMA DealtWithSettled ==
  SettledInv => \A s \in Sessions : DealtWith(payments, refused, s) => Settled(s)
BY CreditedHasRow DEF SettledInv, AsideInv, AsideCovered, DealtWith, Settled

(* A COMPLETE attempt is a payment in the books, or a charge on an invoice   *)
(* that other payments cover: the order 'record first, mark the attempt      *)
(* afterwards' survives every crash.  The condition excludes what makes the  *)
(* recording path give up without either: a deleted invoice, and an account  *)
(* that is not the shop's any more.                                          *)
THEOREM CompleteIsSettled ==
  ASSUME Ops \cap {"soft_delete", "reconnect"} = {}
  PROVE  Spec => []CompleteMeansSettled
<1>1. SettledInv => CompleteMeansSettled
  BY DealtWithSettled DEF SettledInv, CompleteRows, CompleteMeansSettled
<1>2. SettledInv /\ [Next]_vars => SettledInv'
  BY SettledStep
<1> QED BY <1>1, <1>2, SettledInit, PTL DEF Spec

(* A webhook event that is closed, and dropped if it comes again, has its    *)
(* payment in the books or its invoice covered by others, whichever worker   *)
(* did it and whatever the log missed; on the same condition.                *)
THEOREM ClosedIsSettled ==
  ASSUME Ops \cap {"soft_delete", "reconnect"} = {}
  PROVE  Spec => []ClosedEventIsSettled
<1>1. SettledInv => ClosedEventIsSettled
  <2>1. \A e \in Events : e.s \in Sessions
    BY DEF Events
  <2> QED BY <2>1, DealtWithSettled DEF SettledInv, ClosedRows, ClosedEventIsSettled
<1>2. SettledInv /\ [Next]_vars => SettledInv'
  BY SettledStep
<1> QED BY <1>1, <1>2, SettledInit, PTL DEF Spec

----------------------------------------------------------------------------
(* The promise to the shop *)

(* How many rows of the ledger ps stand for session s. *)
Count(ps, s) == IF HasRow(ps, s) THEN 1 ELSE 0

(* The rows that OnlineMoney counts are at most one. *)
LEMMA CreditCount == CreditInv => \A s \in Sessions : Cardinality(CreditRows(s)) = Count(payments, s)
<1> SUFFICES ASSUME CreditInv, NEW s \in Sessions
             PROVE  Cardinality(CreditRows(s)) = Count(payments, s)
  OBVIOUS
<1>1. CASE ~HasRow(payments, s)
  <2>1. CreditRows(s) = {}
    BY <1>1, CreditedHasRow DEF Credited
  <2> QED BY <1>1, <2>1, FS_EmptySet DEF Count
<1>2. CASE HasRow(payments, s)
  <2>0. PICK i \in Invoices : \E p \in payments[i] : p.pi = s
    BY <1>2 DEF HasRow
  <2>1. PICK p \in payments[i] : p.pi = s
    BY <2>0
  <2>2. ASSUME NEW j \in Invoices, NEW q \in payments[j], q.pi = s
        PROVE  j = i /\ q = p
    <3>1. s # Manual
      BY StripeAssumption
    <3>2. session[p.pi].inv = i /\ session[q.pi].inv = j
      BY <2>1, <2>2, <3>1 DEF CreditInv, CreditIsBacked
    <3>3. j = i
      BY <2>1, <2>2, <3>2
    <3> QED BY <2>1, <2>2, <3>1, <3>3 DEF CreditInv, OneRowEach
  <2>3. CreditRows(s) = {<<i, p.id>>}
    <3>1. <<i, p.id>> \in {<<i, q.id>> : q \in {r \in payments[i] : r.pi = s}}
      BY <2>1
    <3>2. <<i, p.id>> \in CreditRows(s)
      BY <3>1, Zenon DEF CreditRows
    <3>3. ASSUME NEW c \in CreditRows(s) PROVE c = <<i, p.id>>
      <4>1. PICK j \in Invoices : c \in {<<j, q.id>> : q \in {r \in payments[j] : r.pi = s}}
        BY <3>3, Zenon DEF CreditRows
      <4>2. PICK q \in payments[j] : q.pi = s /\ c = <<j, q.id>>
        BY <4>1
      <4> QED BY <2>2, <4>2
    <3> QED BY <3>2, <3>3
  <2> QED BY <1>2, <2>3, FS_Singleton DEF Count
<1> QED BY <1>1, <1>2

(* What one step does to the money, as OnlineMoney sees it. *)
Charged(sess) == {s \in Sessions : sess[s].at = "paid"}
Credits(ps) == [s \in Sessions |-> Count(ps, s)]

MoneyStep ==
  \/ /\ Charged(session') = Charged(session) /\ Credits(payments') = Credits(payments)
     /\ refused' = refused
  \/ \E s \in Sessions :
       /\ s \notin Charged(session) /\ Charged(session') = Charged(session) \cup {s}
       /\ Credits(payments') = Credits(payments) /\ refused' = refused
  \/ \E s \in Charged(session) :
       /\ ~HasRow(payments, s) /\ Credits(payments') = [Credits(payments) EXCEPT ![s] = 1]
       /\ Charged(session') = Charged(session) /\ refused' = refused
  \/ \E s \in Charged(session) :
       /\ refused' = refused \cup {s}
       /\ Charged(session') = Charged(session) /\ Credits(payments') = Credits(payments)

(* Stripe is paid in a step of its own. *)
LEMMA ChargeStep ==
  ASSUME TypeInv, [Next]_vars
  PROVE  \/ Charged(session') = Charged(session)
         \/ \E s \in Sessions : /\ Pay(s) /\ s \notin Charged(session)
                                /\ Charged(session') = Charged(session) \cup {s}
<1>1. SessionTypes(session)
  BY DEF TypeInv
<1>2. ASSUME NEW s \in Sessions, NEW from \in {"page", "created", "open"},
             NEW to \in {"created", "open", "expired"}, MoveSession(s, from, to)
      PROVE  Charged(session') = Charged(session)
  <2>1. session[s] \in CheckoutSessions /\ session[s].at = from
    BY <1>1, <1>2 DEF SessionTypes, MoveSession
  <2>2. session'[s].at = to /\ \A t \in Sessions \ {s} : session'[t] = session[t]
    BY <1>1, <1>2, <2>1, MoveKeeps DEF CheckoutSessions
  <2> QED BY <2>1, <2>2 DEF Charged
<1>3. ASSUME NEW s \in Sessions, Pay(s)
      PROVE  s \notin Charged(session) /\ Charged(session') = Charged(session) \cup {s}
  <2>1. MoveSession(s, "open", "paid")
    BY <1>3 DEF Pay
  <2>2. session[s] \in CheckoutSessions /\ session[s].at = "open"
    BY <1>1, <2>1 DEF SessionTypes, MoveSession
  <2>3. session'[s].at = "paid" /\ \A t \in Sessions \ {s} : session'[t] = session[t]
    BY <1>1, <2>1, <2>2, MoveKeeps DEF CheckoutSessions
  <2> QED BY <2>2, <2>3 DEF Charged
<1>4. ASSUME NEW s \in Sessions, NEW i \in Invoices, OpenPayPage(s, i)
      PROVE  Charged(session') = Charged(session)
  <2>1. session[s].at # "paid" /\ session'[s].at # "paid" /\ \A t \in Sessions \ {s} : session'[t] = session[t]
    BY <1>1, <1>4 DEF OpenPayPage, SessionTypes
  <2> QED BY <2>1 DEF Charged
<1>5. ASSUME NEW w \in Workers, ExpireOpen(w)
      PROVE  Charged(session') = Charged(session)
  <2>1. job[w].s \in Sessions
    BY <1>5 DEF ExpireOpen, TypeInv, JobsFit, JobFits
  <2> QED BY <1>2, <1>5, <2>1 DEF ExpireOpen
<1>6. ASSUME NEW s \in Sessions, Customer(s), ~Pay(s)
      PROVE  Charged(session') = Charged(session)
  BY <1>2, <1>4, <1>6 DEF Customer, CreateSession, SendToStripe, SessionExpires
<1>7. CASE ~(\E w \in Workers : ExpireOpen(w)) /\ ~(\E s \in Sessions : Customer(s))
  <2>1. session' = session
    BY <1>7, ZenonT(30) DEF Next, Work, SyncAttempt, CloseAttempt, SyncDone, ReadInvoice, CheckDuplicate,
       AlertShop, InsertPayment, RecordFee, MarkEvent, RecordManual, RefuseManual, Crash, StartSweep,
       Deliver, Land, StartManual, LoseEvent, Shop, BulkMarkPaid, Void, SoftDelete, Restore,
       WriteRow, Reconnect, stripe, vars
  <2> QED BY <2>1
<1> QED BY <1>3, <1>5, <1>6, <1>7

(* A new row counts for its own PaymentIntent only. *)
LEMMA RowsOf ==
  ASSUME TypeInv, NEW i \in Invoices, NEW amount, NEW pi, AddPayment(i, amount, pi),
         NEW s \in Sessions
  PROVE  HasRow(payments', s) <=> s = pi \/ HasRow(payments, s)
<1> DEFINE new == [id |-> Cardinality(payments[i]) + 1, amount |-> amount, pi |-> pi]
<1>1. /\ payments'[i] = payments[i] \cup {new}
      /\ \A j \in Invoices \ {i} : payments'[j] = payments[j]
  BY DEF AddPayment, TypeInv, BooksTypes
<1>2. new.pi = pi
  OBVIOUS
<1> HIDE DEF new
<1> QED BY <1>1, <1>2 DEF HasRow

(* Stripe's money is entered by a credit, for a paid session without a row. *)
LEMMA CreditsMove ==
  ASSUME CreditInv, [Next]_vars
  PROVE  \/ Credits(payments') = Credits(payments)
         \/ \E s \in Charged(session) :
              ~HasRow(payments, s) /\ Credits(payments') = [Credits(payments) EXCEPT ![s] = 1]
<1>1. TypeInv
  BY DEF CreditInv
<1>2. CASE UNCHANGED payments
  BY <1>2 DEF Credits
<1>3. ASSUME NEW i \in Invoices, NEW amount, AddPayment(i, amount, Manual)
      PROVE  Credits(payments') = Credits(payments)
  <2>1. \A s \in Sessions : HasRow(payments', s) <=> HasRow(payments, s)
    BY <1>1, <1>3, RowsOf, StripeAssumption
  <2> QED BY <2>1 DEF Credits, Count
<1>4. ASSUME NEW w \in Workers, CreditJob(w)
      PROVE  /\ job[w].s \in Charged(session) /\ ~HasRow(payments, job[w].s)
             /\ Credits(payments') = [Credits(payments) EXCEPT ![job[w].s] = 1]
  <2>1. job[w].at \in PastSync
    BY <1>4 DEF CreditJob, PastSync
  <2>2. /\ job[w].s \in Sessions /\ session[job[w].s].at = "paid"
        /\ session[job[w].s].inv \in Invoices
    BY <1>1, <2>1, PaidSession
  <2>3. ~HasRow(payments, job[w].s)
    <3>1. job[w].s # Manual
      BY <2>2, StripeAssumption
    <3> QED BY <1>4, <3>1 DEF CreditJob, Recorded, HasRow, CreditInv, CreditIsBacked
  <2>4. \A s \in Sessions : HasRow(payments', s) <=> s = job[w].s \/ HasRow(payments, s)
    BY <1>1, <1>4, <2>2, RowsOf DEF CreditJob
  <2>5. Credits(payments') = [Credits(payments) EXCEPT ![job[w].s] = 1]
    BY <2>2, <2>4 DEF Credits, Count
  <2> QED BY <2>2, <2>3, <2>5 DEF Charged
<1>5. ASSUME NEW i \in Invoices, Edit(i) PROVE UNCHANGED payments
  BY <1>5 DEF Edit, Void, SoftDelete, Restore, WriteRow
<1> QED BY <1>1, <1>2, <1>3, <1>4, <1>5, BookingStep DEF Booking

(* Every step charges, credits or refuses one session, or does none of it. *)
LEMMA MoneyMoves ==
  ASSUME CreditInv, [Next]_vars
  PROVE  MoneyStep
<1>1. TypeInv
  BY DEF CreditInv
<1>2. ASSUME NEW s \in Sessions, Pay(s), s \notin Charged(session),
             Charged(session') = Charged(session) \cup {s}
      PROVE  MoneyStep
  BY <1>2 DEF Pay, db, MoneyStep
<1>3. ASSUME NEW w \in Workers, AlertShop(w)
      PROVE  MoneyStep
  <2>1. job[w].s \in Charged(session)
    BY <1>1, <1>3, PaidSession DEF AlertShop, PastSync, Charged
  <2> QED BY <1>3, <2>1 DEF AlertShop, stripe, MoneyStep
<1>4. CASE ~\E w \in Workers : AlertShop(w)
  <2>1. refused' = refused
    BY <1>4, AsideWrites
  <2>2. CASE Charged(session') = Charged(session)
    BY <2>1, <2>2, CreditsMove DEF MoneyStep
  <2> QED BY <1>1, <1>2, <2>2, ChargeStep
<1> QED BY <1>3, <1>4

(* The safety half of MoneyReachesTheBooks: whatever the racing workers do,  *)
(* the books change only as OnlineMoney allows, one charge entered once, or  *)
(* set aside, and nothing entered that Stripe was not paid.                  *)
THEOREM BooksRefineMoney == Spec => MoneyIsSafe
<1>1. Init => Money!Init
  <2> SUFFICES ASSUME Init PROVE Money!Init
    OBVIOUS
  <2>1. Charged(session) = {}
    BY DEF Init, NewSession, Charged
  <2>2. \A s \in Sessions : Cardinality(CreditRows(s)) = 0
    BY CreditInit, CreditCount DEF Init, Count, HasRow
  <2> QED BY <2>1, <2>2 DEF Init, Money!Init, Charged
<1>2. CreditInv /\ CreditInv' /\ [Next]_vars => [Money!Next]_(Money!books)
  <2> SUFFICES ASSUME CreditInv, CreditInv', [Next]_vars PROVE [Money!Next]_(Money!books)
    OBVIOUS
  <2>1. [s \in Sessions |-> Cardinality(CreditRows(s))] = Credits(payments)
    BY CreditCount DEF Credits
  <2>2. [s \in Sessions |-> Cardinality(CreditRows(s))]' = Credits(payments')
    <3>1. (\A s \in Sessions : Cardinality(CreditRows(s)) = Count(payments, s))'
      BY CreditCount, PTL
    <3> QED BY <3>1 DEF Credits
  <2>3. MoneyStep
    BY MoneyMoves
  <2>4. /\ {s \in Sessions : session[s].at = "paid"} = Charged(session)
        /\ {s \in Sessions : session[s].at = "paid"}' = Charged(session')
    BY DEF Charged
  <2>5. CASE /\ Charged(session') = Charged(session) /\ Credits(payments') = Credits(payments)
             /\ refused' = refused
    BY <2>1, <2>2, <2>4, <2>5, Zenon DEF Money!books
  <2>6. ASSUME NEW s \in Sessions,
               s \notin Charged(session), Charged(session') = Charged(session) \cup {s},
               Credits(payments') = Credits(payments), refused' = refused
        PROVE  Money!Charge(s)
    BY <2>1, <2>2, <2>4, <2>6, Zenon DEF Money!Charge
  <2>7. ASSUME NEW s \in Charged(session),
               ~HasRow(payments, s), Credits(payments') = [Credits(payments) EXCEPT ![s] = 1],
               Charged(session') = Charged(session), refused' = refused
        PROVE  Money!Credit(s)
    <3>1. Credits(payments)[s] = 0
      BY <2>7 DEF Credits, Count, Charged
    <3> QED BY <2>1, <2>2, <2>4, <2>7, <3>1, Zenon DEF Money!Credit
  <2>8. ASSUME NEW s \in Charged(session), refused' = refused \cup {s},
               Charged(session') = Charged(session), Credits(payments') = Credits(payments)
        PROVE  Money!Refuse(s)
    BY <2>1, <2>2, <2>4, <2>8, Zenon DEF Money!Refuse
  <2>9. Charged(session) \subseteq Sessions
    BY DEF Charged
  <2> QED BY <2>3, <2>5, <2>6, <2>7, <2>8, <2>9 DEF MoneyStep, Money!Next
<1> QED BY <1>1, <1>2, CreditInit, CreditStep, PTL DEF Spec, MoneyIsSafe


----------------------------------------------------------------------------
(* The sweep's list *)

(* A sweep that is not killed comes to rest with its list done, or out of    *)
(* recording a payment.                                                      *)
LEMMA SweepRests ==
  ASSUME "crash" \notin Faults, TypeInv, [Next]_vars, NEW w \in Workers,
         job[w].kind = "sweep", job'[w] = Idle
  PROVE  job[w].todo = {} \/ job[w].at = "insert"
<1>1. job[w] \in Jobs /\ JobFits(job[w], session)
  BY DEF TypeInv, JobsFit
<1>2. job[w] # Idle /\ job[w].at \notin {"lock", "mark"}
  BY <1>1 DEF Idle, JobFits, Webhooks
<1>3. ASSUME NEW v, NEW s, v = w, Unavailable(v, s) PROVE Skip(v, s)
  BY <1>3 DEF Unavailable
<1>4. ASSUME NEW v \in Workers, NEW j, Become(v, j) PROVE v = w /\ j = Idle
  BY <1>1, <1>2, <1>4, Became
<1>5. ASSUME NEW v, NEW s, v = w, GoRecord(v, s) PROVE FALSE
  <2> DEFINE j == [job[w] EXCEPT !.at = "read", !.s = s]
             k == [job[w] EXCEPT !.at = "read", !.s = s, !.feeKnown = FALSE]
  <2>1. j.at = "read" /\ k.at = "read"
    BY <1>1, ChangedJob
  <2>2. Become(w, j) \/ Become(w, k)
    BY <1>5 DEF GoRecord
  <2> HIDE DEF j, k
  <2> QED BY <1>4, <2>1, <2>2 DEF Idle
<1>6. ASSUME NEW v, NEW s, v = w, Skip(v, s) PROVE FALSE
  <2> DEFINE j == [job[w] EXCEPT !.todo = @ \ {s}, !.s = NoSession, !.at = "sync",
                                   !.feeKnown = TRUE]
  <2>1. j.at = "sync"
    BY <1>1 DEF Jobs
  <2>2. Become(w, j)
    BY <1>6 DEF Skip
  <2> HIDE DEF j
  <2> QED BY <1>4, <2>1, <2>2 DEF Idle
<1>7. ASSUME NEW v, NEW at, v = w, GoTo(v, at), at # "idle" PROVE FALSE
  <2>1. [job[w] EXCEPT !.at = at].at = at
    BY <1>1 DEF Jobs
  <2> QED BY <1>4, <1>7, <2>1 DEF GoTo, Idle
<1>8. ASSUME NEW v \in Workers, Work(v) PROVE job[w].todo = {} \/ job[w].at = "insert"
  <2>1. CASE v # w
    <3>1. job'[w] = job[w]
      <4>1. \A j : ~Become(v, j)
        BY <1>4, <2>1
      <4> QED BY <1>8, <4>1 DEF Work, SyncAttempt, ExpireOpen, CloseAttempt, SyncDone, ReadInvoice,
            CheckDuplicate, AlertShop, InsertPayment, RecordFee, MarkEvent, RecordManual, RefuseManual,
            FoundPaid, GoRecord, Skip, Unavailable, Raise, GoTo, Stop
    <3> QED BY <1>2, <3>1
  <2>2. CASE v = w
    <3>1. ASSUME NEW s \in Sessions, SyncAttempt(w, s) PROVE FALSE
      BY <1>3, <1>5, <1>6, <3>1 DEF SyncAttempt, FoundPaid
    <3>2. ~ExpireOpen(w) /\ ~CloseAttempt(w)
      BY <1>3, <1>5, <1>6 DEF ExpireOpen, FoundPaid, CloseAttempt
    <3>3. Returned(w) # "idle" /\ AfterRecord(w) # "idle"
      BY DEF Returned, AfterRecord
    <3>4. ~ReadInvoice(w)
      <4>1. ASSUME ReadInvoice(w) PROVE FALSE
        <5> DEFINE j == [job[w] EXCEPT !.answer = "not_found", !.at = AfterRecord(w)]
                   k == [job[w] EXCEPT !.answer = "mismatch", !.at = Returned(w)]
                   l == [job[w] EXCEPT !.held = invoice[session[job[w].s].inv], !.at = "check"]
        <5>1. j.at = AfterRecord(w) /\ k.at = Returned(w) /\ l.at = "check"
          BY <1>1, ChangedJob
        <5>2. Become(w, j) \/ Become(w, k) \/ Become(w, l)
          BY <4>1 DEF ReadInvoice
        <5> HIDE DEF j, k, l
        <5> QED BY <1>4, <3>3, <5>1, <5>2 DEF Idle
      <4> QED BY <4>1
    <3>5. ~CheckDuplicate(w) /\ ~AlertShop(w) /\ ~RecordFee(w)
      BY <1>7, <3>3 DEF CheckDuplicate, AlertShop, RecordFee
    <3>6. InsertPayment(w) => job[w].at = "insert"
      BY DEF InsertPayment
    <3>7. ~MarkEvent(w) /\ ~RefuseManual(w) /\ ~(\E a \in Amounts : RecordManual(w, a))
      BY <1>2 DEF MarkEvent, RefuseManual, RecordManual
    <3>8. SyncDone(w) => job[w].todo = {}
      BY DEF SyncDone
    <3> QED BY <1>8, <2>2, <3>1, <3>2, <3>4, <3>5, <3>6, <3>7, <3>8 DEF Work
  <2> QED BY <2>1, <2>2
<1>9. ASSUME NEW v \in Workers, \/ Crash(v) \/ StartSweep(v)
                                \/ \E e \in Events : Deliver(v, e)
                                \/ \E s \in Sessions : Land(v, s)
                                \/ \E i \in Invoices : StartManual(v, i)
      PROVE  FALSE
  <2>1. ~Crash(v)
    BY DEF Crash, Fault
  <2>2. job[v] = Idle /\ (job' = job \/ \E j : Become(v, j))
    BY <1>9, <2>1 DEF StartSweep, Deliver, Land, StartManual
  <2> QED BY <1>2, <1>4, <2>2
<1>10. CASE ~\E v \in Workers : \/ Work(v) \/ Crash(v) \/ StartSweep(v)
                                \/ \E e \in Events : Deliver(v, e)
                                \/ \E s \in Sessions : Land(v, s)
                                \/ \E i \in Invoices : StartManual(v, i)
  <2>1. job' = job
    BY <1>10 DEF Next, Customer, OpenPayPage, CreateSession, SendToStripe, Pay, SessionExpires,
       LoseEvent, Shop, BulkMarkPaid, Void, SoftDelete, Restore, WriteRow, Reconnect, vars
  <2> QED BY <1>2, <2>1
<1> QED BY <1>8, <1>9, <1>10

(* However many attempts there are, and whatever Stripe answers for each of  *)
(* them or if it does not, a sweep that is not killed leaves none of its     *)
(* list out but by an exception from the insert of a payment.                *)
THEOREM SweepDoesItsList ==
  ASSUME "crash" \notin Faults
  PROVE  Spec => SweepReachesAll
<1>1. TypeInv /\ [Next]_vars => TypeInv'
  BY TypeStep
<1>2. TypeInv /\ [Next]_vars
        => [\A w \in Workers : job[w].kind = "sweep" /\ job'[w] = Idle
                                 => job[w].todo = {} \/ job[w].at = "insert"]_vars
  BY SweepRests
<1> QED BY <1>1, <1>2, TypeInit, PTL DEF Spec, SweepReachesAll

----------------------------------------------------------------------------
(* Money for an invoice that is paid *)

(* One process at a time: nothing is recorded between the read of an invoice *)
(* and the insert that was decided on it.                                    *)
OneWorker == \A u, v \in Workers : u = v

Unpaid(w) == invoice[session[job[w].s].inv].status # "PAID"

HeldFresh ==
  \A w \in Workers :
    /\ job[w].at = "check" /\ job[w].held.status # "PAID" => Unpaid(w)
    /\ job[w].at = "insert" => Unpaid(w)

PaidInv == TypeInv /\ HeldFresh

(* An invoice becomes PAID by a payment: of the worker itself, or by staff   *)
(* in bulk.                                                                  *)
LEMMA BecomesPaid ==
  ASSUME OneWorker, "mark_paid" \notin Ops, TypeInv, [Next]_vars, NEW w \in Workers,
         job'[w] = job[w], job[w].at \in Holding,
         NEW i \in Invoices, invoice'[i].status = "PAID"
  PROVE  invoice[i].status = "PAID"
<1>1. ASSUME NEW v \in Workers, NEW j, Become(v, j), j.at # job[w].at PROVE FALSE
  BY <1>1, Became DEF OneWorker
<1>2. ASSUME NEW v \in Workers, Work(v) PROVE invoice' = invoice
  <2>1. v = w
    BY DEF OneWorker
  <2>2. ASSUME NEW a \in Amounts, RecordManual(w, a) PROVE FALSE
    BY <2>2 DEF RecordManual, Holding
  <2>3. CASE InsertPayment(w)
    <3>1. ~Stop(w)
      BY <1>1 DEF Stop, Idle, Holding
    <3>2. ~GoTo(w, AfterRecord(w))
      <4>1. AfterRecord(w) \notin Holding
        BY DEF AfterRecord, Holding
      <4> QED BY <4>1, WentTo
    <3> QED BY <2>3, <3>1, <3>2 DEF InsertPayment, Raise
  <2> QED BY <1>2, <2>1, <2>2, <2>3 DEF Work, SyncAttempt, ExpireOpen, CloseAttempt, SyncDone,
        ReadInvoice, CheckDuplicate, AlertShop, RecordFee, MarkEvent, RefuseManual, db
<1>3. ASSUME NEW j \in Invoices, Shop(j) PROVE invoice'[i].status = "PAID" => invoice[i].status = "PAID"
  <2>1. ~BulkMarkPaid(j)
    BY DEF BulkMarkPaid
  <2>2. invoice[j] \in Rows
    BY DEF TypeInv, BooksTypes
  <2>3. /\ [invoice[j] EXCEPT !.status = "CANCELLED"].status = "CANCELLED"
        /\ [invoice[j] EXCEPT !.deleted = TRUE].status = invoice[j].status
        /\ [invoice[j] EXCEPT !.deleted = FALSE].status = invoice[j].status
    BY <2>2 DEF Rows
  <2> QED BY <1>3, <2>1, <2>3 DEF Shop, Void, SoftDelete, Restore, WriteRow, TypeInv, BooksTypes
<1>4. CASE ~(\E v \in Workers : Work(v)) /\ ~(\E j \in Invoices : Shop(j))
  BY <1>4 DEF Next, Crash, StartSweep, Deliver, Land, StartManual, Customer, OpenPayPage,
     CreateSession, SendToStripe, Pay, SessionExpires, LoseEvent, Reconnect, db, vars
<1> QED BY <1>2, <1>3, <1>4

LEMMA PaidStep ==
  ASSUME OneWorker, "mark_paid" \notin Ops, PaidInv, [Next]_vars
  PROVE  PaidInv'
<1>1. TypeInv /\ TypeInv' /\ SessionsKept
  BY TypeStep, SessionsStep DEF PaidInv
<1>2. ASSUME NEW w \in Workers, job[w].at \in PastSync, job'[w].s = job[w].s
      PROVE  /\ session'[job'[w].s].inv = session[job[w].s].inv
             /\ session[job[w].s].inv \in Invoices
  BY <1>1, <1>2, PaidSession DEF SessionsKept
<1>3. ASSUME NEW w \in Workers, job'[w].at \in Holding
      PROVE  /\ job'[w].at = "check" /\ job'[w].held.status # "PAID" => Unpaid(w)'
             /\ job'[w].at = "insert" => Unpaid(w)'
  <2>1. CASE job'[w] = job[w]
    <3>1. session'[job'[w].s].inv = session[job[w].s].inv /\ session[job[w].s].inv \in Invoices
      BY <1>2, <1>3, <2>1 DEF Holding, PastSync
    <3>2. Unpaid(w) => Unpaid(w)'
      BY <1>1, <1>3, <2>1, <3>1, BecomesPaid DEF Unpaid
    <3> QED BY <2>1, <3>2 DEF PaidInv, HeldFresh
  <2>2. CASE Reads(w)
    <3>1. session'[job'[w].s].inv = session[job[w].s].inv
      BY <1>2, <2>2 DEF Reads, PastSync
    <3> QED BY <2>2, <3>1 DEF Reads, Unpaid
  <2>3. CASE GoesToInsert(w)
    <3>1. session'[job'[w].s].inv = session[job[w].s].inv
      BY <1>2, <2>3 DEF GoesToInsert, PastSync
    <3> QED BY <2>3, <3>1 DEF GoesToInsert, Unpaid, PaidInv, HeldFresh
  <2>4. CASE GoesToAlert(w)
    BY <2>4 DEF GoesToAlert
  <2> QED BY <1>1, <1>3, <2>1, <2>2, <2>3, <2>4, HoldingStep
<1> QED BY <1>1, <1>3 DEF PaidInv, HeldFresh, Holding

(* With one process at a time, whichever of the two events, the sweep, the   *)
(* landing page and the guard it serves, and wherever it dies, no Stripe     *)
(* payment is recorded for an invoice that is PAID.                          *)
THEOREM PaidIsNotCredited ==
  ASSUME OneWorker, "mark_paid" \notin Ops
  PROVE  Spec => NeverCreditAgain
<1>1. Init => PaidInv
  BY TypeInit DEF Init, Idle, PaidInv, HeldFresh
<1>2. PaidInv /\ [Next]_vars => PaidInv'
  BY PaidStep
<1>3. PaidInv /\ [Next]_vars
        => [\A i \in Invoices :
              invoice[i].status = "PAID"
                => {p \in payments'[i] : p.pi # Manual} = {p \in payments[i] : p.pi # Manual}]_vars
  <2> SUFFICES ASSUME PaidInv, [Next]_vars, NEW i \in Invoices, invoice[i].status = "PAID"
               PROVE  {p \in payments'[i] : p.pi # Manual} = {p \in payments[i] : p.pi # Manual}
    OBVIOUS
  <2>1. TypeInv
    BY DEF PaidInv
  <2>2. ASSUME NEW j \in Invoices, Edit(j) PROVE payments' = payments
    BY <2>2 DEF Edit, Void, SoftDelete, Restore, WriteRow
  <2>3. ASSUME NEW j \in Invoices, NEW amount, AddPayment(j, amount, Manual)
        PROVE  {p \in payments'[i] : p.pi # Manual} = {p \in payments[i] : p.pi # Manual}
    <3>1. /\ \A k \in Invoices \ {j} : payments'[k] = payments[k]
          /\ \E p : p.pi = Manual /\ payments'[j] = payments[j] \cup {p}
      BY <2>1, <2>3, PaymentRow
    <3> QED BY <3>1
  <2>4. ASSUME NEW w \in Workers, CreditJob(w) PROVE payments'[i] = payments[i]
    <3>1. job[w].at = "insert" /\ session[job[w].s].inv \in Invoices
      BY <2>1, <2>4, PaidSession DEF CreditJob, PastSync
    <3>2. session[job[w].s].inv # i
      BY <3>1 DEF PaidInv, HeldFresh, Unpaid
    <3> QED BY <2>1, <2>4, <3>1, <3>2, PaymentRow DEF CreditJob
  <2> QED BY <2>1, <2>2, <2>3, <2>4, BookingStep DEF Booking
<1> QED BY <1>1, <1>2, <1>3, PTL DEF Spec, NeverCreditAgain
=============================================================================
