------------------------- MODULE InvoiceDesk_proofs -------------------------
(***************************************************************************)
(* Proofs about InvoiceDesk, for every set of requests, payment keys,      *)
(* amounts, totals and days: type correctness, and the money invariants    *)
(* under the sets of operations that keep them.                            *)
(***************************************************************************)
EXTENDS InvoiceDesk, FiniteSetTheorems, WellFoundedInduction, TLAPS

----------------------------------------------------------------------------
(* What the SUM(amount) aggregate of InvoiceLedger computes, for every     *)
(* finite set of Payment rows: a natural number, 0 for no rows, and one    *)
(* row's amount more for one row more, whatever the row.  PaySum is a fold *)
(* over the set, so it is a recursive function behind a CHOOSE.  The       *)
(* lemmas show that the function exists (by cardinality), that it does not *)
(* depend on the set it was built for, and only then what it returns.      *)
(* Each induction is on a least counterexample.                            *)

Priced(S) == IsFiniteSet(S) /\ \A p \in S : p.amount \in Nat

Pick(s) == CHOOSE x \in s : TRUE
Step(s, f) == IF s = {} THEN 0 ELSE Pick(s).amount + f[s \ {Pick(s)}]
SumRule(S, f) == f = [s \in SUBSET S |-> Step(s, f)]

(* The fold, spelled out. *)
LEMMA SumUnfold ==
  ASSUME NEW S
  PROVE  PaySum(S) = (CHOOSE f : SumRule(S, f))[S]
BY Zenon DEF PaySum, MapThenSumSet, MapThenFoldSet, SumRule, Step, Pick

(* The row taken out of a non-empty set is one of its rows. *)
LEMMA PickIn ==
  ASSUME NEW s, s # {}
  PROVE  Pick(s) \in s
BY DEF Pick

(* Induction, as the existence of least counterexamples. *)
LEMMA LeastNat ==
  ASSUME NEW B \in SUBSET Nat, B # {}
  PROVE  \E n \in B : \A m \in B : n <= m
<1>1. PICK n \in B : \A m \in B : ~(<<m, n>> \in OpToRel(<, Nat))
  BY NatLessThanWellFounded, WFMin
<1>2. \A m \in B : ~(m < n)
  BY <1>1 DEF OpToRel
<1> QED BY <1>2

(* ... and as the existence of a minimal subset, by cardinality. *)
LEMMA LeastSubset ==
  ASSUME NEW S, IsFiniteSet(S), NEW B \in SUBSET (SUBSET S), B # {}
  PROVE  \E s \in B : \A x \in s : s \ {x} \notin B
<1> DEFINE Sizes == {Cardinality(s) : s \in B}
<1>1. \A s \in B : IsFiniteSet(s) /\ Cardinality(s) \in Nat
  BY FS_Subset, FS_CardinalityType
<1>2. PICK s \in B : \A t \in B : Cardinality(s) <= Cardinality(t)
  <2>1. Sizes \in SUBSET Nat /\ Sizes # {}
    BY <1>1
  <2>2. \E n \in Sizes : \A m \in Sizes : n <= m
    <3> HIDE DEF Sizes
    <3> QED BY <2>1, LeastNat
  <2> QED BY <2>2
<1>3. \A x \in s : Cardinality(s \ {x}) = Cardinality(s) - 1
  BY <1>1, FS_RemoveElement
<1> QED BY <1>1, <1>2, <1>3

(* Subsets of S with at most n elements. *)
Small(S, n) == {s \in SUBSET S : Cardinality(s) <= n}

(* A solution for the small subsets extends to those one row larger. *)
LEMMA RuleExtends ==
  ASSUME NEW S, IsFiniteSet(S), NEW n \in Nat,
         NEW f, f = [s \in Small(S, n) |-> Step(s, f)]
  PROVE  \E g : g = [s \in Small(S, n + 1) |-> Step(s, g)]
<1> DEFINE g == [s \in Small(S, n + 1) |-> Step(s, f)]
<1>1. ASSUME NEW s \in Small(S, n + 1), s # {}
      PROVE  s \ {Pick(s)} \in Small(S, n)
  <2>1. s \in SUBSET S /\ IsFiniteSet(s) /\ Cardinality(s) \in Nat
    BY FS_Subset, FS_CardinalityType DEF Small
  <2>2. Cardinality(s \ {Pick(s)}) = Cardinality(s) - 1
    BY <2>1, <1>1, PickIn, FS_RemoveElement
  <2> QED BY <2>1, <2>2 DEF Small
<1>2. \A s \in Small(S, n) : s \in Small(S, n + 1)
  BY FS_Subset, FS_CardinalityType DEF Small
<1>3. \A s \in Small(S, n) : g[s] = f[s]
  BY <1>2
<1>4. \A s \in Small(S, n + 1) : Step(s, f) = Step(s, g)
  BY <1>1, <1>3 DEF Step
<1>5. g = [s \in Small(S, n + 1) |-> Step(s, g)]
  BY <1>4
<1> QED BY <1>5

(* The recursion that defines the fold has a solution. *)
LEMMA RuleHolds ==
  ASSUME NEW S, IsFiniteSet(S)
  PROVE  SumRule(S, CHOOSE f : SumRule(S, f))
<1> DEFINE Solved(n) == \E f : f = [s \in Small(S, n) |-> Step(s, f)]
           Bad == {n \in Nat : ~Solved(n)}
<1>1. Solved(0)
  <2> DEFINE f == [s \in Small(S, 0) |-> 0]
  <2>1. \A s \in Small(S, 0) : s = {}
    BY FS_Subset, FS_CardinalityType, FS_EmptySet DEF Small
  <2>2. \A s \in Small(S, 0) : Step(s, f) = 0
    BY <2>1 DEF Step
  <2>3. f = [s \in Small(S, 0) |-> Step(s, f)]
    BY <2>2
  <2> QED BY <2>3
<1>2. ASSUME NEW n \in Nat, Solved(n) PROVE Solved(n + 1)
  BY <1>2, RuleExtends
<1>3. Bad = {}
  <2> SUFFICES ASSUME Bad # {} PROVE FALSE
    OBVIOUS
  <2>1. PICK n \in Bad : \A m \in Bad : n <= m
    <3>1. Bad \in SUBSET Nat
      OBVIOUS
    <3> HIDE DEF Bad
    <3> QED BY <3>1, LeastNat
  <2>2. n \in Nat /\ n # 0 /\ ~Solved(n)
    BY <2>1, <1>1
  <2>3. n - 1 \in Nat /\ n - 1 \notin Bad /\ (n - 1) + 1 = n
    BY <2>1, <2>2
  <2>4. Solved(n - 1)
    BY <2>3
  <2>5. Solved((n - 1) + 1)
    BY <2>3, <2>4, <1>2
  <2> QED BY <2>2, <2>3, <2>5
<1>4. Cardinality(S) \in Nat /\ Solved(Cardinality(S))
  BY <1>3, FS_CardinalityType
<1>5. Small(S, Cardinality(S)) = SUBSET S
  BY FS_Subset, FS_CardinalityType DEF Small
<1>6. \E f : SumRule(S, f)
  BY <1>4, <1>5 DEF SumRule
<1> QED BY <1>6

(* How the fold runs over any subset of the rows it was built for. *)
LEMMA FoldStep ==
  ASSUME NEW S, NEW f, SumRule(S, f), NEW s \in SUBSET S
  PROVE  f[s] = Step(s, f)
BY DEF SumRule

(* It returns a natural number. *)
LEMMA FoldNat ==
  ASSUME NEW S, Priced(S), NEW f, SumRule(S, f)
  PROVE  \A s \in SUBSET S : f[s] \in Nat
<1> DEFINE Bad == {s \in SUBSET S : f[s] \notin Nat}
<1> SUFFICES ASSUME Bad # {} PROVE FALSE
  OBVIOUS
<1>1. PICK s \in Bad : \A x \in s : s \ {x} \notin Bad
  BY LeastSubset DEF Priced
<1>2. s # {} /\ f[s] = Step(s, f)
  BY FoldStep DEF Step
<1>3. Pick(s) \in s /\ Pick(s).amount \in Nat
  BY <1>2, PickIn DEF Priced
<1>4. f[s \ {Pick(s)}] \in Nat
  BY <1>1, <1>3
<1> QED BY <1>2, <1>3, <1>4 DEF Step

(* It does not depend on the larger set it was built for. *)
LEMMA FoldAgrees ==
  ASSUME NEW S, IsFiniteSet(S), NEW f, SumRule(S, f),
         NEW T \in SUBSET S, NEW g, SumRule(T, g)
  PROVE  \A s \in SUBSET T : f[s] = g[s]
<1> DEFINE Bad == {s \in SUBSET T : f[s] # g[s]}
<1> SUFFICES ASSUME Bad # {} PROVE FALSE
  OBVIOUS
<1>1. PICK s \in Bad : \A x \in s : s \ {x} \notin Bad
  BY LeastSubset, FS_Subset
<1>2. f[s] = Step(s, f) /\ g[s] = Step(s, g)
  BY FoldStep
<1>3. s # {}
  BY <1>2 DEF Step
<1>4. f[s \ {Pick(s)}] = g[s \ {Pick(s)}]
  BY <1>1, <1>3, PickIn
<1> QED BY <1>2, <1>3, <1>4 DEF Step

(* PaySum is the fold over the whole set. *)
LEMMA PaySumFold ==
  ASSUME NEW S, IsFiniteSet(S), NEW f, SumRule(S, f), NEW s \in SUBSET S
  PROVE  PaySum(s) = f[s]
<1> DEFINE g == CHOOSE h : SumRule(s, h)
<1>1. IsFiniteSet(s)
  BY FS_Subset
<1>2. SumRule(s, g)
  BY <1>1, RuleHolds
<1>3. f[s] = g[s]
  BY <1>2, FoldAgrees
<1> QED BY <1>3, SumUnfold

----------------------------------------------------------------------------
(* No payments add up to nothing.                                           *)
LEMMA PaySumEmpty == PaySum({}) = 0
<1> DEFINE f == CHOOSE h : SumRule({}, h)
<1>1. SumRule({}, f)
  BY RuleHolds, FS_EmptySet
<1>2. f[{}] = 0
  BY <1>1, FoldStep DEF Step
<1> QED BY <1>2, SumUnfold

(* amount_paid is a natural number.                                         *)
LEMMA PaySumNat ==
  ASSUME NEW S, Priced(S)
  PROVE  PaySum(S) \in Nat
<1> DEFINE f == CHOOSE h : SumRule(S, h)
<1>1. SumRule(S, f)
  BY RuleHolds DEF Priced
<1> QED BY <1>1, FoldNat, SumUnfold

(* PaySum takes the picked row out first. *)
LEMMA PaySumPick ==
  ASSUME NEW S, Priced(S), S # {}
  PROVE  PaySum(S) = Pick(S).amount + PaySum(S \ {Pick(S)})
<1> DEFINE f == CHOOSE h : SumRule(S, h)
<1>1. SumRule(S, f)
  BY RuleHolds DEF Priced
<1>2. f[S] = Pick(S).amount + f[S \ {Pick(S)}]
  BY <1>1, FoldStep DEF Step
<1>3. PaySum(S) = f[S] /\ PaySum(S \ {Pick(S)}) = f[S \ {Pick(S)}]
  BY <1>1, PaySumFold DEF Priced
<1> QED BY <1>2, <1>3

(* Taking any payment away lowers the sum by exactly its amount.            *)
THEOREM PaySumRemove ==
  ASSUME NEW S, Priced(S), NEW p \in S
  PROVE  PaySum(S) = p.amount + PaySum(S \ {p})
<1> DEFINE Holds(s, x) == PaySum(s) = x.amount + PaySum(s \ {x})
           Bad == {s \in SUBSET S : \E x \in s : ~Holds(s, x)}
<1> SUFFICES ASSUME Bad # {} PROVE FALSE
  OBVIOUS
<1>0. \A s \in SUBSET S : Priced(s)
  BY FS_Subset DEF Priced
<1>1. PICK s \in Bad : \A x \in s : s \ {x} \notin Bad
  <2> HIDE DEF Bad
  <2>1. Bad \in SUBSET (SUBSET S)
    BY DEF Bad
  <2> QED BY <2>1, LeastSubset DEF Priced
<1>2. PICK x \in s : ~Holds(s, x)
  OBVIOUS
<1>3. PICK y \in s : y = Pick(s)
  BY PickIn
<1>4. Holds(s, y)
  BY <1>0, <1>3, PaySumPick
<1>5. y # x
  BY <1>2, <1>4
<1>6. Holds(s \ {y}, x) /\ Holds(s \ {x}, y)
  BY <1>1, <1>5
<1>7. (s \ {y}) \ {x} = (s \ {x}) \ {y}
  OBVIOUS
<1>8. x.amount \in Nat /\ y.amount \in Nat /\ PaySum((s \ {x}) \ {y}) \in Nat
  BY <1>0, PaySumNat DEF Priced
<1>9. Holds(s, x)
  <2>1. ASSUME NEW a \in Nat, NEW b \in Nat, NEW c \in Nat
        PROVE  b + (a + c) = a + (b + c)
    OBVIOUS
  <2>2. PaySum(s) = y.amount + (x.amount + PaySum((s \ {x}) \ {y}))
    BY <1>4, <1>6, <1>7
  <2>3. PaySum(s \ {x}) = y.amount + PaySum((s \ {x}) \ {y})
    BY <1>6
  <2> HIDE DEF Bad
  <2> QED BY <1>8, <2>1, <2>2, <2>3
<1> QED BY <1>2, <1>9

(* Recording a payment raises the sum by exactly its amount.                *)
THEOREM PaySumAdd ==
  ASSUME NEW S, Priced(S), NEW p, p \notin S, p.amount \in Nat
  PROVE  PaySum(S \cup {p}) = PaySum(S) + p.amount
<1>1. Priced(S \cup {p})
  BY FS_AddElement DEF Priced
<1>2. (S \cup {p}) \ {p} = S
  OBVIOUS
<1>3. PaySum(S \cup {p}) = p.amount + PaySum(S)
  BY <1>1, <1>2, PaySumRemove
<1> QED BY <1>3, PaySumNat

----------------------------------------------------------------------------
(* What the invariants say *)

(* What a handler knows of the row it holds. *)
HeldOK ==
  \A r \in Requests :
    /\ handling[r] \notin {"none", "delete_payments"} => held[r] \in Rows
    /\ handling[r] = "mark_paid" => AmountDue(held[r]) > 0

(* Type correctness, strengthened to be inductive: the payments can be      *)
(* summed, and a handler that will write has read.                          *)
TypeInv == TypeOK /\ IsFiniteSet(payments) /\ HeldOK

(* amount_paid agrees with the payments, and the recompute can find the row. *)
LedgerInv == TypeInv /\ ~invoice.deleted /\ LedgerConsistent

----------------------------------------------------------------------------
(* The rows the ledger rules return *)

(* A set of Payment rows can be summed.                                      *)
LEMMA RowsPriced ==
  ASSUME NEW ps, ps \subseteq PaymentRows, IsFiniteSet(ps)
  PROVE  Priced(ps) /\ PaySum(ps) \in Nat
<1>1. Priced(ps)
  BY DEF Priced, PaymentRows
<1> QED BY <1>1, PaySumNat

(* update_status writes the status and paid_at only.                         *)
LEMMA UpdateStatusRow ==
  ASSUME NEW row \in Rows, NEW day
  PROVE  /\ UpdateStatus(row, day) \in Rows
         /\ UpdateStatus(row, day).paid = row.paid
         /\ UpdateStatus(row, day).total = row.total
         /\ UpdateStatus(row, day).deleted = row.deleted
BY DEF UpdateStatus, Rows, Statuses

(* The recompute after an insert sets amount_paid to the sum.                *)
LEMMA SavedRow ==
  ASSUME NEW row \in Rows, NEW ps, PaySum(ps) \in Nat, NEW day
  PROVE  /\ AfterPaymentSaved(row, ps, day) \in Rows
         /\ AfterPaymentSaved(row, ps, day).paid = PaySum(ps)
         /\ AfterPaymentSaved(row, ps, day).total = row.total
         /\ AfterPaymentSaved(row, ps, day).deleted = row.deleted
<1> DEFINE new == [row EXCEPT !.paid = PaySum(ps)]
<1>1. new \in Rows /\ new.paid = PaySum(ps) /\ new.total = row.total /\ new.deleted = row.deleted
  BY DEF Rows
<1> HIDE DEF new
<1>2. AfterPaymentSaved(row, ps, day) = UpdateStatus(new, day)
  BY DEF AfterPaymentSaved, new
<1> QED BY <1>1, <1>2, UpdateStatusRow

(* So does the recompute after a deletion.                                   *)
LEMMA DeletedRow ==
  ASSUME NEW row \in Rows, NEW ps, PaySum(ps) \in Nat, NEW day
  PROVE  /\ AfterPaymentDeleted(row, ps, day) \in Rows
         /\ AfterPaymentDeleted(row, ps, day).paid = PaySum(ps)
         /\ AfterPaymentDeleted(row, ps, day).total = row.total
         /\ AfterPaymentDeleted(row, ps, day).deleted = row.deleted
<1> DEFINE sum == PaySum(ps)
           new == [row EXCEPT !.paid = sum]
<1>0. sum \in Nat
  OBVIOUS
<1>1. new \in Rows /\ new.paid = sum /\ new.total = row.total /\ new.deleted = row.deleted
  BY <1>0 DEF Rows
<1>2. AfterPaymentDeleted(row, ps, day) =
        IF row.status = "CANCELLED" THEN new
        ELSE IF sum >= row.total THEN [new EXCEPT !.status = "PAID", !.paidAt = TRUE]
        ELSE IF sum > 0          THEN [new EXCEPT !.status = "PARTIAL", !.paidAt = FALSE]
        ELSE [new EXCEPT !.paidAt = FALSE,
                         !.status = IF day > row.due THEN "OVERDUE"
                                    ELSE IF row.status \in {"PAID", "PARTIAL"} THEN "SENT"
                                    ELSE row.status]
  BY DEF AfterPaymentDeleted
<1>3. row.status \in Statuses
  BY DEF Rows
<1> HIDE DEF new, sum
<1>4. AfterPaymentDeleted(row, ps, day) \in Rows
  BY <1>1, <1>2, <1>3 DEF Rows, Statuses
<1>5. /\ AfterPaymentDeleted(row, ps, day).paid = new.paid
      /\ AfterPaymentDeleted(row, ps, day).total = new.total
      /\ AfterPaymentDeleted(row, ps, day).deleted = new.deleted
  BY <1>1, <1>2 DEF Rows
<1> QED BY <1>1, <1>4, <1>5 DEF sum

----------------------------------------------------------------------------
(* Type correctness *)

(* What the actions do to the requests in flight. *)
WorkerTypes(h, d) ==
  /\ h \in [Requests -> Ops \cup {"none"}]
  /\ d \in [Requests -> Rows \cup {NoRow}]
  /\ \A r \in Requests :
       /\ h[r] \notin {"none", "delete_payments"} => d[r] \in Rows
       /\ h[r] = "mark_paid" => AmountDue(d[r]) > 0

(* The typing of the database part of the state. *)
StoreTypes(row, ps, day) ==
  /\ row \in Rows
  /\ ps \subseteq PaymentRows
  /\ IsFiniteSet(ps)
  /\ day \in Days

(* The typing invariant, taken apart into database and requests.             *)
LEMMA TypeInvParts ==
  TypeInv <=> StoreTypes(invoice, payments, today) /\ WorkerTypes(handling, held)
BY DEF TypeInv, TypeOK, HeldOK, StoreTypes, WorkerTypes

(* A handler that ends leaves the others as they were.                       *)
LEMMA FinishTypes ==
  ASSUME TypeInv, NEW r \in Requests, Finish(r)
  PROVE  WorkerTypes(handling', held')
BY DEF TypeInv, TypeOK, HeldOK, Finish, WorkerTypes

(* A payment is inserted and the row recomputed under its lock.              *)
LEMMA InsertTypes ==
  ASSUME TypeInv, NEW amount \in Nat \ {0}, InsertPayment(amount)
  PROVE  /\ StoreTypes(invoice', payments', today)
         /\ invoice'.paid = PaySum(payments')
         /\ invoice'.total = invoice.total
         /\ invoice'.deleted = invoice.deleted
         /\ PaySum(payments') = PaySum(payments) + amount
<1>1. PICK i \in FreeIds :
        /\ payments' = payments \cup {[id |-> i, amount |-> amount]}
        /\ invoice' = AfterPaymentSaved(invoice, payments', today)
  BY DEF InsertPayment
<1> DEFINE p == [id |-> i, amount |-> amount]
<1>2. p \in PaymentRows /\ p \notin payments /\ p.amount = amount
  BY DEF FreeIds, PaymentRows
<1>3. payments' \subseteq PaymentRows /\ IsFiniteSet(payments')
  BY <1>1, <1>2, FS_AddElement DEF TypeInv, TypeOK
<1>4. PaySum(payments') \in Nat /\ Priced(payments)
  BY <1>3, RowsPriced DEF TypeInv, TypeOK
<1>5. PaySum(payments') = PaySum(payments) + amount
  BY <1>1, <1>2, <1>4, PaySumAdd
<1>6. invoice \in Rows /\ today \in Days
  BY DEF TypeInv, TypeOK
<1> QED BY <1>1, <1>3, <1>4, <1>5, <1>6, SavedRow DEF StoreTypes

(* A payment is deleted; the recompute writes the sum unless the row is      *)
(* soft-deleted and cannot be found.                                         *)
LEMMA RecomputeTypes ==
  ASSUME TypeInv, NEW ps, ps \subseteq PaymentRows, IsFiniteSet(ps),
         RecomputeAfterDelete(ps)
  PROVE  /\ StoreTypes(invoice', ps, today)
         /\ ~invoice.deleted => invoice'.paid = PaySum(ps)
         /\ invoice'.total = invoice.total
         /\ invoice'.deleted = invoice.deleted
<1>1. invoice \in Rows /\ today \in Days
  BY DEF TypeInv, TypeOK
<1>2. PaySum(ps) \in Nat
  BY RowsPriced
<1>3. CASE invoice.deleted
  BY <1>1, <1>3 DEF RecomputeAfterDelete, StoreTypes
<1>4. CASE ~invoice.deleted
  BY <1>1, <1>2, <1>4, DeletedRow DEF RecomputeAfterDelete, StoreTypes
<1> QED BY <1>3, <1>4

(* Every column write of a held or a committed row is typed.                 *)
LEMMA ColumnTypes ==
  ASSUME NEW row \in Rows
  PROVE  /\ \A s \in Statuses : [row EXCEPT !.status = s] \in Rows
         /\ \A t \in Totals : [row EXCEPT !.total = t] \in Rows
         /\ \A d \in Days : [row EXCEPT !.due = d] \in Rows
         /\ \A b \in BOOLEAN : [row EXCEPT !.deleted = b] \in Rows
BY DEF Rows

(* A handler that writes a typed row and ends.                               *)
LEMMA SaveRowTypes ==
  ASSUME TypeInv, NEW r \in Requests, NEW row \in Rows, SaveRow(r, row)
  PROVE  TypeInv'
<1>1. WorkerTypes(handling', held')
  BY FinishTypes DEF SaveRow
<1>2. StoreTypes(invoice', payments', today')
  BY DEF SaveRow, TypeInv, TypeOK, StoreTypes
<1> QED BY <1>1, <1>2 DEF TypeInv, TypeOK, HeldOK, StoreTypes, WorkerTypes

(* An UPDATE statement or a one-transaction view on a typed row.             *)
LEMMA QuerysetTypes ==
  ASSUME TypeInv, NEW row \in Rows, Queryset(row)
  PROVE  TypeInv'
BY DEF Queryset, TypeInv, TypeOK, HeldOK

(* The row create_invoice commits, with nothing in flight, is typed.         *)
THEOREM TypeInit == Init => TypeInv
<1> SUFFICES ASSUME Init PROVE TypeInv
  OBVIOUS
<1>1. invoice \in Rows
  <2>1. {"DRAFT", "SENT"} \subseteq Statuses /\ 0 \in Nat /\ FALSE \in BOOLEAN
    BY DEF Statuses
  <2> QED BY <2>1, Zenon DEF Init, Rows
<1>2. 0 \in Days
  BY DeskAssumption DEF Days
<1> QED BY <1>1, <1>2, FS_EmptySet DEF Init, TypeInv, TypeOK, HeldOK

(* A payment is recorded or deleted by a request.                            *)
LEMMA PaymentTypes ==
  ASSUME TypeInv, NEW r \in Requests, Payment(r)
  PROVE  TypeInv'
<1>1. ASSUME NEW a \in Amounts, RecordPayment(r, a) PROVE TypeInv'
  <2>1. a \in Nat \ {0}
    BY DeskAssumption
  <2>2. InsertPayment(a) /\ Finish(r) /\ today' = today
    BY <1>1 DEF RecordPayment
  <2>3. StoreTypes(invoice', payments', today') /\ WorkerTypes(handling', held')
    BY <2>1, <2>2, InsertTypes, FinishTypes
  <2> QED BY <2>3 DEF TypeInv, TypeOK, HeldOK, StoreTypes, WorkerTypes
<1>2. ASSUME MarkPaid(r) PROVE TypeInv'
  <2>0. held[r] \in Rows /\ AmountDue(held[r]) > 0
    BY <1>2 DEF MarkPaid, TypeInv, HeldOK
  <2>1. AmountDue(held[r]) \in Nat \ {0}
    <3>1. held[r].total \in Nat /\ held[r].paid \in Nat
      BY <2>0, DeskAssumption DEF Rows
    <3> QED BY <2>0, <3>1 DEF AmountDue
  <2>2. InsertPayment(AmountDue(held[r])) /\ Finish(r) /\ today' = today
    BY <1>2 DEF MarkPaid
  <2>3. StoreTypes(invoice', payments', today') /\ WorkerTypes(handling', held')
    BY <2>1, <2>2, InsertTypes, FinishTypes
  <2> QED BY <2>3 DEF TypeInv, TypeOK, HeldOK, StoreTypes, WorkerTypes
<1>3. ASSUME NEW p \in payments, DeletePaymentRow(r, p) PROVE TypeInv'
  BY <1>3, FS_RemoveElement DEF DeletePaymentRow, TypeInv, TypeOK, HeldOK
<1>4. ASSUME FinishDeletePayment(r) PROVE TypeInv'
  <2>1. RecomputeAfterDelete(payments) /\ Finish(r) /\ payments' = payments /\ today' = today
    BY <1>4 DEF FinishDeletePayment
  <2>2. payments \subseteq PaymentRows /\ IsFiniteSet(payments)
    BY DEF TypeInv, TypeOK
  <2>3. StoreTypes(invoice', payments', today') /\ WorkerTypes(handling', held')
    BY <2>1, <2>2, RecomputeTypes, FinishTypes
  <2> QED BY <2>3 DEF TypeInv, TypeOK, HeldOK, StoreTypes, WorkerTypes
<1> QED BY <1>1, <1>2, <1>3, <1>4 DEF Payment

(* A request starts.                                                         *)
LEMMA BeginTypes ==
  ASSUME TypeInv, NEW r \in Requests, NEW op \in Ops, Begin(r, op)
  PROVE  TypeInv'
<1>1. /\ invoice \in Rows /\ Admits(op, invoice)
      /\ handling' = [handling EXCEPT ![r] = op]
      /\ held' = [held EXCEPT ![r] = invoice]
      /\ UNCHANGED <<invoice, payments, today>>
  BY DEF Begin, TypeInv, TypeOK
<1>2. op = "mark_paid" => AmountDue(invoice) > 0
  BY <1>1 DEF Admits
<1>3. \A q \in Requests : q # r => handling'[q] = handling[q] /\ held'[q] = held[q]
  BY <1>1 DEF TypeInv, TypeOK
<1>4. handling'[r] = op /\ held'[r] = invoice
  BY <1>1 DEF TypeInv, TypeOK
<1>5. HeldOK'
  <2>1. \A q \in Requests :
          /\ handling'[q] \notin {"none", "delete_payments"} => held'[q] \in Rows
          /\ handling'[q] = "mark_paid" => AmountDue(held'[q]) > 0
    BY <1>1, <1>2, <1>3, <1>4 DEF TypeInv, HeldOK
  <2> QED BY <2>1 DEF HeldOK, AmountDue
<1> QED BY <1>1, <1>5 DEF TypeInv, TypeOK

(* A handler writes what it holds.                                           *)
LEMMA HeldWriteTypes ==
  ASSUME TypeInv, NEW r \in Requests, HeldWrite(r)
  PROVE  TypeInv'
<1>1. invoice \in Rows /\ "CANCELLED" \in Statuses /\ "SENT" \in Statuses
  BY DEF TypeInv, TypeOK, Statuses
<1>2. handling[r] \notin {"none", "delete_payments"} => held[r] \in Rows
  BY DEF TypeInv, HeldOK
<1>3. CASE Void(r)
  BY <1>1, <1>3, ColumnTypes, SaveRowTypes DEF Void
<1>4. CASE Cancel(r)
  BY <1>1, <1>2, <1>4, ColumnTypes, SaveRowTypes DEF Cancel
<1>5. CASE EmailSent(r)
  <2>1. held[r] \in Rows
    BY <1>2, <1>5 DEF EmailSent
  <2>2. StatusAfterEmail(held[r].status) \in Statuses
    BY <2>1, <1>1 DEF StatusAfterEmail, Rows
  <2> QED BY <1>1, <1>5, <2>2, ColumnTypes, SaveRowTypes DEF EmailSent
<1>6. CASE MarkSent(r)
  BY <1>1, <1>2, <1>6, ColumnTypes, SaveRowTypes DEF MarkSent
<1>7. CASE EditTotal(r)
  BY <1>1, <1>7, ColumnTypes, SaveRowTypes DEF EditTotal
<1>8. CASE EditDue(r)
  BY <1>1, <1>8, ColumnTypes, SaveRowTypes DEF EditDue
<1> QED BY <1>3, <1>4, <1>5, <1>6, <1>7, <1>8 DEF HeldWrite

(* One transaction or one UPDATE.                                            *)
LEMMA StatementTypes ==
  ASSUME TypeInv, Statement
  PROVE  TypeInv'
<1>1. invoice \in Rows /\ "CANCELLED" \in Statuses /\ "OVERDUE" \in Statuses
  BY DEF TypeInv, TypeOK, Statuses
<1>2. ASSUME NEW p \in payments, DeletePayment(p) PROVE TypeInv'
  <2>1. payments' \subseteq PaymentRows /\ IsFiniteSet(payments')
    BY <1>2, FS_RemoveElement DEF DeletePayment, TypeInv, TypeOK
  <2>2. RecomputeAfterDelete(payments') /\ UNCHANGED <<handling, held, today>>
    BY <1>2 DEF DeletePayment
  <2>3. StoreTypes(invoice', payments', today')
    BY <2>1, <2>2, RecomputeTypes
  <2> QED BY <2>2, <2>3 DEF TypeInv, TypeOK, HeldOK, StoreTypes
<1>3. CASE BulkVoid
  BY <1>1, <1>3, ColumnTypes, QuerysetTypes DEF BulkVoid
<1>4. CASE MarkOverdue
  BY <1>1, <1>4, ColumnTypes, QuerysetTypes DEF MarkOverdue, MarkedOverdue
<1>5. CASE SoftDelete
  BY <1>1, <1>5, ColumnTypes, QuerysetTypes DEF SoftDelete
<1>6. CASE Restore
  BY <1>1, <1>6, ColumnTypes, QuerysetTypes DEF Restore
<1>7. CASE NextDay
  BY <1>7, DeskAssumption DEF NextDay, TypeInv, TypeOK, HeldOK, Days
<1>8. CASE BulkOverdue
  BY <1>1, <1>8, ColumnTypes, QuerysetTypes DEF BulkOverdue, MarkedOverdue
<1> QED BY <1>2, <1>3, <1>4, <1>5, <1>6, <1>7, <1>8 DEF Statement

(* Every step keeps the rows and the requests typed.                         *)
LEMMA TypeStep == TypeInv /\ [Next]_vars => TypeInv'
<1> SUFFICES ASSUME TypeInv, [Next]_vars PROVE TypeInv'
  OBVIOUS
<1>1. CASE UNCHANGED vars
  BY <1>1 DEF vars, TypeInv, TypeOK, HeldOK
<1>2. ASSUME NEW r \in Requests, GiveUp(r) PROVE TypeInv'
  BY <1>2, FinishTypes DEF GiveUp, TypeInv, TypeOK, HeldOK, WorkerTypes
<1> QED BY <1>1, <1>2, BeginTypes, PaymentTypes, HeldWriteTypes, StatementTypes DEF Next

(* Every committed row and every row a handler holds is a legal one,         *)
(* whatever interleaving of payments, voids, emails, edits and deletions.    *)
THEOREM TypeCorrect == Spec => []TypeOK
<1>1. TypeInv => TypeOK
  BY DEF TypeInv
<1> QED BY <1>1, TypeInit, TypeStep, PTL DEF Spec

----------------------------------------------------------------------------
(* The ledger *)

(* A payment step leaves amount_paid equal to the payments that remain.      *)
LEMMA PaymentLedger ==
  ASSUME Ops \subseteq RecomputingOps, LedgerInv, NEW r \in Requests, Payment(r)
  PROVE  invoice'.paid = PaySum(payments') /\ ~invoice'.deleted
<1>0. TypeInv /\ ~invoice.deleted
  BY DEF LedgerInv
<1>1. ASSUME NEW a \in Amounts, RecordPayment(r, a) PROVE InsertPayment(a) /\ a \in Nat \ {0}
  BY <1>1, DeskAssumption DEF RecordPayment
<1>2. ASSUME MarkPaid(r)
      PROVE  InsertPayment(AmountDue(held[r])) /\ AmountDue(held[r]) \in Nat \ {0}
  <2>1. held[r] \in Rows /\ AmountDue(held[r]) > 0
    BY <1>0, <1>2 DEF MarkPaid, TypeInv, HeldOK
  <2>2. held[r].total \in Nat /\ held[r].paid \in Nat
    BY <2>1, DeskAssumption DEF Rows
  <2> QED BY <1>2, <2>1, <2>2 DEF MarkPaid, AmountDue
<1>3. handling[r] # "delete_payments" /\ "delete_payments" \notin Ops
  BY <1>0 DEF TypeInv, TypeOK, RecomputingOps
<1> QED BY <1>0, <1>1, <1>2, <1>3, InsertTypes
  DEF Payment, DeletePaymentRow, FinishDeletePayment

(* So does every write of a held row among these operations: it names its    *)
(* columns and amount_paid is not one of them.                               *)
LEMMA HeldWriteLedger ==
  ASSUME Ops \subseteq RecomputingOps, LedgerInv, NEW r \in Requests, HeldWrite(r)
  PROVE  payments' = payments /\ invoice'.paid = invoice.paid /\ invoice'.deleted = invoice.deleted
<1>1. handling[r] \notin {"cancel", "mark_sent"}
  BY DEF LedgerInv, TypeInv, TypeOK, RecomputingOps
<1>2. invoice \in Rows
  BY DEF LedgerInv, TypeInv, TypeOK
<1> QED BY <1>1, <1>2
  DEF HeldWrite, Void, Cancel, EmailSent, MarkSent, EditTotal, EditDue, SaveRow, Rows

(* A transaction or an UPDATE keeps amount_paid and the payments in step.    *)
LEMMA StatementLedger ==
  ASSUME Ops \subseteq RecomputingOps, LedgerInv, Statement
  PROVE  invoice'.paid = PaySum(payments') /\ ~invoice'.deleted
<1>0. TypeInv /\ ~invoice.deleted /\ invoice \in Rows /\ invoice.paid = PaySum(payments)
  BY DEF LedgerInv, TypeInv, TypeOK, LedgerConsistent
<1>1. ASSUME NEW p \in payments, DeletePayment(p)
      PROVE  invoice'.paid = PaySum(payments') /\ ~invoice'.deleted
  <2>1. payments' \subseteq PaymentRows /\ IsFiniteSet(payments')
    BY <1>1, FS_RemoveElement DEF DeletePayment, LedgerInv, TypeInv, TypeOK
  <2> QED BY <1>0, <1>1, <2>1, RecomputeTypes DEF DeletePayment
<1>2. CASE BulkVoid
  BY <1>0, <1>2 DEF BulkVoid, Queryset, Rows
<1>3. CASE MarkOverdue
  BY <1>0, <1>3 DEF MarkOverdue, MarkedOverdue, Queryset, Rows
<1>4. ~SoftDelete /\ ~Restore
  BY DEF SoftDelete, Restore, RecomputingOps
<1>5. CASE NextDay
  BY <1>0, <1>5 DEF NextDay
<1>6. CASE BulkOverdue
  BY <1>0, <1>6 DEF BulkOverdue, MarkedOverdue, Queryset, Rows
<1> QED BY <1>1, <1>2, <1>3, <1>4, <1>5, <1>6 DEF Statement

(* Every step keeps amount_paid equal to the payments.                       *)
LEMMA LedgerStep ==
  ASSUME Ops \subseteq RecomputingOps
  PROVE  LedgerInv /\ [Next]_vars => LedgerInv'
<1> SUFFICES ASSUME LedgerInv, [Next]_vars PROVE LedgerInv'
  OBVIOUS
<1>0. TypeInv'
  BY TypeStep DEF LedgerInv
<1>1. CASE UNCHANGED vars
  BY <1>0, <1>1 DEF vars, LedgerInv, LedgerConsistent
<1>2. ASSUME NEW r \in Requests, NEW op \in Ops, Begin(r, op) PROVE LedgerInv'
  BY <1>0, <1>2 DEF Begin, LedgerInv, LedgerConsistent
<1>3. ASSUME NEW r \in Requests, GiveUp(r) PROVE LedgerInv'
  BY <1>0, <1>3 DEF GiveUp, LedgerInv, LedgerConsistent
<1>4. ASSUME NEW r \in Requests, Payment(r) PROVE LedgerInv'
  BY <1>0, <1>4, PaymentLedger DEF LedgerInv, LedgerConsistent
<1>5. ASSUME NEW r \in Requests, HeldWrite(r) PROVE LedgerInv'
  BY <1>0, <1>5, HeldWriteLedger DEF LedgerInv, LedgerConsistent
<1>6. CASE Statement
  BY <1>0, <1>6, StatementLedger DEF LedgerInv, LedgerConsistent
<1> QED BY <1>1, <1>2, <1>3, <1>4, <1>5, <1>6 DEF Next

(* The balance the shop sees is the money it recorded, as long as every      *)
(* operation on the invoice recomputes amount_paid under the lock or leaves  *)
(* it alone.                                                                 *)
THEOREM LedgerCorrect ==
  ASSUME Ops \subseteq RecomputingOps
  PROVE  Spec => []LedgerConsistent
<1>1. Init => LedgerInv
  <2> SUFFICES ASSUME Init PROVE LedgerInv
    OBVIOUS
  <2>1. invoice.paid = 0 /\ invoice.deleted = FALSE /\ payments = {}
    BY Zenon DEF Init
  <2> QED BY <2>1, TypeInit, PaySumEmpty DEF LedgerInv, LedgerConsistent
<1>2. LedgerInv => LedgerConsistent
  BY DEF LedgerInv
<1>3. LedgerInv /\ [Next]_vars => LedgerInv'
  BY LedgerStep
<1> QED BY <1>1, <1>2, <1>3, PTL DEF Spec

----------------------------------------------------------------------------
(* No overpayment *)

BalanceInv == LedgerInv /\ NoOverpayment

(* The operations that check under the lock are among those that recompute.  *)
LEMMA LockedRecompute == LockedOps \subseteq RecomputingOps
BY DEF LockedOps, RecomputingOps

(* What the locked checks of record_payment buy: the payments still fit.     *)
LEMMA PaymentBalance ==
  ASSUME Ops \subseteq LockedOps, BalanceInv, NEW r \in Requests, Payment(r)
  PROVE  PaySum(payments') <= invoice'.total
<1>0. /\ TypeInv /\ invoice.paid = PaySum(payments) /\ PaySum(payments) \in Nat
      /\ invoice.total \in Nat
  BY RowsPriced, DeskAssumption
  DEF BalanceInv, LedgerInv, LedgerConsistent, TypeInv, TypeOK, Rows
<1>1. handling[r] \notin {"mark_paid", "delete_payments"} /\ "delete_payments" \notin Ops
  BY <1>0 DEF TypeInv, TypeOK, LockedOps, RecomputingOps
<1>2. PICK a \in Amounts : RecordPayment(r, a)
  BY <1>1 DEF Payment, MarkPaid, DeletePaymentRow, FinishDeletePayment
<1>3. a \in Nat \ {0} /\ InsertPayment(a) /\ a <= invoice.total - invoice.paid
  BY <1>2, DeskAssumption DEF RecordPayment, AmountDue
<1>4. PaySum(payments') = PaySum(payments) + a /\ invoice'.total = invoice.total
  BY <1>0, <1>3, InsertTypes
<1> QED BY <1>0, <1>3, <1>4

(* A transaction or an UPDATE never adds to the payments.                    *)
LEMMA StatementBalance ==
  ASSUME Ops \subseteq LockedOps, BalanceInv, Statement
  PROVE  PaySum(payments') <= invoice'.total
<1>0. /\ TypeInv /\ ~invoice.deleted /\ invoice \in Rows
      /\ Priced(payments) /\ PaySum(payments) \in Nat /\ PaySum(payments) <= invoice.total
      /\ invoice.total \in Nat
  BY RowsPriced, DeskAssumption
  DEF BalanceInv, LedgerInv, NoOverpayment, TypeInv, TypeOK, Rows
<1>1. ASSUME NEW p \in payments, DeletePayment(p)
      PROVE  PaySum(payments') <= invoice'.total
  <2>1. payments' = payments \ {p} /\ RecomputeAfterDelete(payments')
    BY <1>1 DEF DeletePayment
  <2>2. payments' \subseteq PaymentRows /\ IsFiniteSet(payments')
    BY <2>1, FS_RemoveElement DEF LedgerInv, BalanceInv, TypeInv, TypeOK
  <2>3. PaySum(payments') \in Nat /\ invoice'.total = invoice.total
    BY <1>0, <2>1, <2>2, RecomputeTypes, RowsPriced
  <2>4. PaySum(payments) = p.amount + PaySum(payments') /\ p.amount \in Nat
    BY <1>0, <2>1, PaySumRemove DEF Priced
  <2> QED BY <1>0, <2>3, <2>4
<1>2. CASE BulkVoid
  BY <1>0, <1>2 DEF BulkVoid, Queryset, Rows
<1>3. CASE MarkOverdue
  BY <1>0, <1>3 DEF MarkOverdue, MarkedOverdue, Queryset, Rows
<1>4. ~SoftDelete /\ ~Restore
  BY DEF SoftDelete, Restore, LockedOps, RecomputingOps
<1>5. CASE NextDay
  BY <1>0, <1>5 DEF NextDay
<1>6. CASE BulkOverdue
  BY <1>0, <1>6 DEF BulkOverdue, MarkedOverdue, Queryset, Rows
<1> QED BY <1>1, <1>2, <1>3, <1>4, <1>5, <1>6 DEF Statement

(* Every step keeps the payments within the total.                           *)
LEMMA BalanceStep ==
  ASSUME Ops \subseteq LockedOps
  PROVE  BalanceInv /\ [Next]_vars => BalanceInv'
<1> SUFFICES ASSUME BalanceInv, [Next]_vars PROVE BalanceInv'
  OBVIOUS
<1>0. LedgerInv' /\ invoice \in Rows
  BY LedgerStep, LockedRecompute DEF BalanceInv, LedgerInv, TypeInv, TypeOK
<1>1. CASE UNCHANGED vars
  BY <1>0, <1>1 DEF vars, BalanceInv, NoOverpayment
<1>2. ASSUME NEW r \in Requests, NEW op \in Ops, Begin(r, op) PROVE BalanceInv'
  BY <1>0, <1>2 DEF Begin, BalanceInv, NoOverpayment
<1>3. ASSUME NEW r \in Requests, GiveUp(r) PROVE BalanceInv'
  BY <1>0, <1>3 DEF GiveUp, BalanceInv, NoOverpayment
<1>4. ASSUME NEW r \in Requests, Payment(r) PROVE BalanceInv'
  BY <1>0, <1>4, PaymentBalance DEF BalanceInv, NoOverpayment
<1>5. ASSUME NEW r \in Requests, HeldWrite(r) PROVE BalanceInv'
  <2>1. handling[r] \notin {"cancel", "mark_sent", "edit_total"}
    BY DEF BalanceInv, LedgerInv, TypeInv, TypeOK, LockedOps, RecomputingOps
  <2>2. payments' = payments /\ invoice'.total = invoice.total
    BY <1>0, <1>5, <2>1
    DEF HeldWrite, Void, Cancel, EmailSent, MarkSent, EditTotal, EditDue, SaveRow, Rows
  <2> QED BY <1>0, <2>2 DEF BalanceInv, NoOverpayment
<1>6. CASE Statement
  BY <1>0, <1>6, StatementBalance DEF BalanceInv, NoOverpayment
<1> QED BY <1>1, <1>2, <1>3, <1>4, <1>5, <1>6 DEF Next

(* However many staff record payments at once, the invoice never takes more  *)
(* than its total, provided each of them re-checks the balance under the row *)
(* lock (record_payment) and none pays a balance it read before (mark_paid). *)
THEOREM NoOverpaymentUnderLock ==
  ASSUME Ops \subseteq LockedOps
  PROVE  Spec => []NoOverpayment
<1>1. Init => BalanceInv
  <2> SUFFICES ASSUME Init PROVE BalanceInv
    OBVIOUS
  <2>1. invoice.paid = 0 /\ invoice.deleted = FALSE /\ payments = {}
    BY Zenon DEF Init
  <2>2. TypeInv /\ invoice.total \in Nat
    BY TypeInit, DeskAssumption DEF TypeInv, TypeOK, Rows
  <2> QED BY <2>1, <2>2, PaySumEmpty DEF BalanceInv, LedgerInv, LedgerConsistent, NoOverpayment
<1>2. BalanceInv => NoOverpayment
  BY DEF BalanceInv
<1>3. BalanceInv /\ [Next]_vars => BalanceInv'
  BY BalanceStep
<1> QED BY <1>1, <1>2, <1>3, PTL DEF Spec

----------------------------------------------------------------------------
(* Status and money *)

(* PaidIffCovered, of a row whose payments add up to sum. *)
Settled(row, sum) ==
  row.status # "CANCELLED" =>
    /\ (row.status = "PAID") <=> (row.total > 0 /\ sum >= row.total)
    /\ row.status = "PAID" <=> row.paidAt

(* A bulk "mark as paid" pays for an invoice of the total it read, and       *)
(* nothing is paid for an invoice over nothing.                              *)
TotalStands == \A r \in Requests : handling[r] = "mark_paid" => held[r].total = invoice.total
NothingForFree == payments # {} => invoice.total > 0

StatusInv == LedgerInv /\ PaidIffCovered /\ TotalStands /\ NothingForFree

(* The operations that respect the status are among those that recompute.    *)
LEMMA StatusRecompute == StatusOps \subseteq RecomputingOps
BY DEF StatusOps, RecomputingOps

(* Promotion: a payment can only raise the sum, so update_status, which      *)
(* never demotes, is enough.                                                 *)
LEMMA SavedSettled ==
  ASSUME NEW row \in Rows, NEW ps, PaySum(ps) \in Nat, NEW day,
         row.paid <= PaySum(ps), Settled(row, row.paid), row.total > 0
  PROVE  /\ Settled(AfterPaymentSaved(row, ps, day), PaySum(ps))
         /\ row.status = "CANCELLED" => AfterPaymentSaved(row, ps, day).status = "CANCELLED"
<1> DEFINE sum == PaySum(ps)
           new == [row EXCEPT !.paid = sum]
<1>1. /\ new \in Rows /\ new.paid = sum /\ new.total = row.total
      /\ new.status = row.status /\ new.paidAt = row.paidAt
  BY DEF Rows
<1>2. row.total \in Nat /\ row.paid \in Nat /\ sum \in Nat /\ row.paid <= sum
  BY DeskAssumption DEF Rows
<1>3. AfterPaymentSaved(row, ps, day) = UpdateStatus(new, day)
  BY DEF AfterPaymentSaved
<1> HIDE DEF sum, new
<1>4. row.status = "CANCELLED" => UpdateStatus(new, day).status = "CANCELLED"
  BY <1>1 DEF UpdateStatus
<1>5. Settled(UpdateStatus(new, day), sum)
  <2>1. CASE row.status = "CANCELLED"
    BY <1>4, <2>1 DEF Settled
  <2>2. CASE row.status # "CANCELLED" /\ sum >= row.total
    <3>1. UpdateStatus(new, day) = [new EXCEPT !.status = "PAID", !.paidAt = TRUE]
      BY <1>1, <2>2 DEF UpdateStatus
    <3>2. UpdateStatus(new, day).status = "PAID" /\ UpdateStatus(new, day).paidAt = TRUE
          /\ UpdateStatus(new, day).total = row.total
      BY <1>1, <3>1 DEF Rows
    <3> QED BY <2>2, <3>2 DEF Settled
  <2>3. CASE row.status # "CANCELLED" /\ ~(sum >= row.total)
    <3>a. ~(row.paid >= row.total)
      BY <1>2, <2>3
    <3>b. row.status # "PAID" /\ ~row.paidAt
      BY <2>3, <3>a, Zenon DEF Settled
    <3>1. row.status # "PAID" /\ row.paidAt = FALSE
      BY <3>b, Zenon DEF Rows
    <3>2. /\ UpdateStatus(new, day).status # "PAID"
          /\ UpdateStatus(new, day).paidAt = row.paidAt
          /\ UpdateStatus(new, day).total = row.total
      BY <1>1, <2>3, <3>1 DEF UpdateStatus, Rows
    <3> QED BY <2>3, <3>1, <3>2 DEF Settled
  <2> QED BY <2>1, <2>2, <2>3
<1> QED BY <1>3, <1>4, <1>5 DEF sum

(* Demotion: the recompute after a deletion decides afresh.                  *)
LEMMA DeletedSettled ==
  ASSUME NEW row \in Rows, NEW ps, PaySum(ps) \in Nat, NEW day, row.total > 0
  PROVE  /\ Settled(AfterPaymentDeleted(row, ps, day), PaySum(ps))
         /\ row.status = "CANCELLED" => AfterPaymentDeleted(row, ps, day).status = "CANCELLED"
<1> DEFINE sum == PaySum(ps)
           new == [row EXCEPT !.paid = sum]
           result == AfterPaymentDeleted(row, ps, day)
           status == IF day > row.due THEN "OVERDUE"
                     ELSE IF row.status \in {"PAID", "PARTIAL"} THEN "SENT"
                     ELSE row.status
<1>1. /\ new \in Rows /\ new.total = row.total /\ new.status = row.status
      /\ row.total \in Nat \ {0} /\ row.total > 0 /\ sum \in Nat
  BY DeskAssumption DEF Rows
<1>2. result = IF row.status = "CANCELLED" THEN new
               ELSE IF sum >= row.total THEN [new EXCEPT !.status = "PAID", !.paidAt = TRUE]
               ELSE IF sum > 0          THEN [new EXCEPT !.status = "PARTIAL", !.paidAt = FALSE]
               ELSE [new EXCEPT !.paidAt = FALSE, !.status = status]
  BY DEF AfterPaymentDeleted
<1>3. status # "PAID"
  OBVIOUS
<1> HIDE DEF sum, new, result, status
<1>4. CASE row.status = "CANCELLED"
  BY <1>1, <1>2, <1>4 DEF Settled, result, sum
<1>5. CASE row.status # "CANCELLED" /\ sum >= row.total
  <2>1. result.status = "PAID" /\ result.paidAt = TRUE /\ result.total = row.total
    BY <1>1, <1>2, <1>5 DEF Rows
  <2> QED BY <1>5, <2>1 DEF Settled, result, sum
<1>6. CASE row.status # "CANCELLED" /\ ~(sum >= row.total)
  <2>1. result.status # "PAID" /\ result.paidAt = FALSE /\ result.total = row.total
    BY <1>1, <1>2, <1>3, <1>6 DEF Rows
  <2> QED BY <1>1, <1>6, <2>1 DEF Settled, result, sum
<1> QED BY <1>4, <1>5, <1>6

(* With these operations a payment is taken for a total above zero only.     *)
LEMMA PaymentPriced ==
  ASSUME Ops \subseteq StatusOps, StatusInv, NEW r \in Requests, Payment(r)
  PROVE  invoice.total > 0 /\ \E amount \in Nat \ {0} : InsertPayment(amount)
<1>0. TypeInv /\ invoice.total \in Nat /\ invoice.paid \in Nat
  BY DeskAssumption DEF StatusInv, LedgerInv, TypeInv, TypeOK, Rows
<1>1. handling[r] # "delete_payments" /\ "delete_payments" \notin Ops
  BY <1>0 DEF TypeInv, TypeOK, StatusOps, RecomputingOps
<1>2. ASSUME NEW a \in Amounts, RecordPayment(r, a)
      PROVE  invoice.total > 0 /\ \E amount \in Nat \ {0} : InsertPayment(amount)
  <2>1. a \in Nat \ {0} /\ a <= invoice.total - invoice.paid /\ InsertPayment(a)
    BY <1>2, DeskAssumption DEF RecordPayment, AmountDue
  <2> QED BY <1>0, <2>1
<1>3. ASSUME MarkPaid(r)
      PROVE  invoice.total > 0 /\ \E amount \in Nat \ {0} : InsertPayment(amount)
  <2>1. held[r] \in Rows /\ AmountDue(held[r]) > 0 /\ held[r].total = invoice.total
    BY <1>0, <1>3 DEF MarkPaid, TypeInv, HeldOK, StatusInv, TotalStands
  <2>2. held[r].total \in Nat /\ held[r].paid \in Nat
    BY <2>1, DeskAssumption DEF Rows
  <2>3. AmountDue(held[r]) \in Nat \ {0} /\ invoice.total > 0
    BY <2>1, <2>2 DEF AmountDue
  <2> QED BY <1>3, <2>3 DEF MarkPaid
<1> QED BY <1>1, <1>2, <1>3 DEF Payment, DeletePaymentRow, FinishDeletePayment

(* The total stays what it is, and what a mark-as-paid holds of it.          *)
LEMMA TotalStep ==
  ASSUME Ops \subseteq StatusOps, StatusInv, [Next]_vars
  PROVE  TotalStands' /\ NothingForFree'
<1>0. TypeInv /\ invoice \in Rows /\ ~invoice.deleted
  BY DEF StatusInv, LedgerInv, TypeInv, TypeOK
<1>a. ASSUME invoice'.total = invoice.total,
             \A r \in Requests : handling'[r] = "mark_paid" => handling[r] = "mark_paid" /\ held'[r] = held[r]
      PROVE  TotalStands'
  BY <1>a DEF StatusInv, TotalStands
<1>b. ASSUME NEW r \in Requests, Finish(r)
      PROVE  \A q \in Requests : handling'[q] = "mark_paid" => handling[q] = "mark_paid" /\ held'[q] = held[q]
  BY <1>0, <1>b DEF Finish, TypeInv, TypeOK
<1>1. CASE UNCHANGED vars
  BY <1>1 DEF vars, StatusInv, TotalStands, NothingForFree
<1>2. ASSUME NEW r \in Requests, NEW op \in Ops, Begin(r, op) PROVE TotalStands' /\ NothingForFree'
  BY <1>0, <1>2 DEF Begin, StatusInv, TotalStands, NothingForFree, TypeInv, TypeOK
<1>3. ASSUME NEW r \in Requests, GiveUp(r) PROVE TotalStands' /\ NothingForFree'
  BY <1>3, <1>a, <1>b DEF GiveUp, StatusInv, NothingForFree
<1>4. ASSUME NEW r \in Requests, Payment(r) PROVE TotalStands' /\ NothingForFree'
  <2>1. PICK amount \in Nat \ {0} : InsertPayment(amount)
    BY <1>4, PaymentPriced
  <2>2. invoice'.total = invoice.total /\ invoice.total > 0
    BY <1>0, <1>4, <2>1, InsertTypes, PaymentPriced
  <2>3. handling[r] # "delete_payments" /\ "delete_payments" \notin Ops
    BY <1>0 DEF TypeInv, TypeOK, StatusOps, RecomputingOps
  <2>4. Finish(r)
    BY <1>4, <2>3 DEF Payment, RecordPayment, MarkPaid, DeletePaymentRow, FinishDeletePayment
  <2> QED BY <1>a, <1>b, <2>2, <2>4 DEF NothingForFree
<1>5. ASSUME NEW r \in Requests, HeldWrite(r) PROVE TotalStands' /\ NothingForFree'
  <2>1. handling[r] \notin {"cancel", "mark_sent", "edit_total"}
    BY <1>0 DEF TypeInv, TypeOK, StatusOps, RecomputingOps
  <2>2. invoice'.total = invoice.total /\ payments' = payments /\ Finish(r)
    BY <1>0, <1>5, <2>1
    DEF HeldWrite, Void, Cancel, EmailSent, MarkSent, EditTotal, EditDue, SaveRow, Rows
  <2> QED BY <1>a, <1>b, <2>2 DEF StatusInv, NothingForFree
<1>6. CASE Statement
  <2>1. invoice'.total = invoice.total /\ (payments' # {} => payments # {})
        /\ UNCHANGED <<handling, held>>
    <3>1. ASSUME NEW p \in payments, DeletePayment(p)
          PROVE  /\ invoice'.total = invoice.total /\ (payments' # {} => payments # {})
                 /\ UNCHANGED <<handling, held>>
      <4>1. payments' \subseteq PaymentRows /\ IsFiniteSet(payments')
        BY <1>0, <3>1, FS_RemoveElement DEF DeletePayment, TypeInv, TypeOK
      <4> QED BY <1>0, <3>1, <4>1, RecomputeTypes DEF DeletePayment
    <3>2. ~SoftDelete /\ ~Restore
      BY DEF SoftDelete, Restore, StatusOps, RecomputingOps
    <3>3. CASE BulkVoid \/ MarkOverdue \/ BulkOverdue
      BY <1>0, <3>3 DEF BulkVoid, MarkOverdue, BulkOverdue, MarkedOverdue, Queryset, Rows
    <3>4. CASE NextDay
      BY <3>4 DEF NextDay
    <3> QED BY <1>6, <3>1, <3>2, <3>3, <3>4 DEF Statement
  <2> QED BY <1>a, <2>1 DEF StatusInv, NothingForFree
<1> QED BY <1>1, <1>2, <1>3, <1>4, <1>5, <1>6 DEF Next

(* One step, for the invariant and for the finality of a void.               *)
LEMMA StatusStep ==
  ASSUME Ops \subseteq StatusOps, StatusInv, [Next]_vars
  PROVE  /\ StatusInv'
         /\ invoice.status = "CANCELLED" => invoice'.status = "CANCELLED"
<1>0. /\ LedgerInv' /\ TypeInv /\ ~invoice.deleted /\ invoice \in Rows
      /\ Priced(payments) /\ PaySum(payments) \in Nat /\ invoice.paid = PaySum(payments)
      /\ Settled(invoice, invoice.paid)
  BY LedgerStep, StatusRecompute, RowsPriced
  DEF StatusInv, LedgerInv, LedgerConsistent, PaidIffCovered, Settled, TypeInv, TypeOK
<1> SUFFICES /\ Settled(invoice', PaySum(payments'))
             /\ invoice.status = "CANCELLED" => invoice'.status = "CANCELLED"
  BY <1>0, TotalStep DEF StatusInv, PaidIffCovered, Settled
<1>a. ASSUME NEW amount \in Nat \ {0}, InsertPayment(amount), invoice.total > 0
      PROVE  /\ Settled(invoice', PaySum(payments'))
             /\ invoice.status = "CANCELLED" => invoice'.status = "CANCELLED"
  <2>1. PaySum(payments') = PaySum(payments) + amount
    BY <1>0, <1>a, InsertTypes
  <2>2. invoice' = AfterPaymentSaved(invoice, payments', today)
    BY <1>a DEF InsertPayment
  <2>3. PaySum(payments') \in Nat /\ invoice.paid <= PaySum(payments')
    BY <1>0, <2>1
  <2> QED BY <1>0, <1>a, <2>2, <2>3, SavedSettled
<1>1. CASE UNCHANGED vars
  BY <1>0, <1>1 DEF vars
<1>2. ASSUME NEW r \in Requests, (\E op \in Ops : Begin(r, op)) \/ GiveUp(r)
      PROVE  invoice' = invoice /\ payments' = payments
  BY <1>2 DEF Begin, GiveUp
<1>3. ASSUME NEW r \in Requests, Payment(r)
      PROVE  invoice.total > 0 /\ \E amount \in Nat \ {0} : InsertPayment(amount)
  BY <1>3, PaymentPriced
<1>4. ASSUME NEW r \in Requests, HeldWrite(r)
      PROVE  /\ payments' = payments
             /\ \/ invoice' = [invoice EXCEPT !.status = "CANCELLED"]
                \/ \E d \in Days : invoice' = [invoice EXCEPT !.due = d]
  <2>1. handling[r] \notin {"cancel", "mark_sent", "edit_total", "email"}
    BY <1>0 DEF TypeInv, TypeOK, StatusOps, RecomputingOps
  <2> QED BY <1>4, <2>1
    DEF HeldWrite, Void, Cancel, EmailSent, MarkSent, EditTotal, EditDue, SaveRow
<1>5. ASSUME NEW p \in payments, DeletePayment(p)
      PROVE  /\ Settled(invoice', PaySum(payments'))
             /\ invoice.status = "CANCELLED" => invoice'.status = "CANCELLED"
  <2>1. payments' \subseteq PaymentRows /\ IsFiniteSet(payments')
    BY <1>0, <1>5, FS_RemoveElement DEF DeletePayment, TypeInv, TypeOK
  <2>2. invoice' = AfterPaymentDeleted(invoice, payments', today) /\ invoice.total > 0
    BY <1>0, <1>5 DEF DeletePayment, RecomputeAfterDelete, StatusInv, NothingForFree
  <2> QED BY <1>0, <2>1, <2>2, RowsPriced, DeletedSettled
<1>6. ~SoftDelete /\ ~Restore
  BY DEF SoftDelete, Restore, StatusOps, RecomputingOps
<1>7. CASE BulkVoid
  BY <1>0, <1>7 DEF BulkVoid, Queryset, Settled, Rows
<1>8. CASE MarkOverdue
  BY <1>0, <1>8 DEF MarkOverdue, MarkedOverdue, CanMarkOverdue, Queryset, Settled, Rows
<1>9. CASE NextDay
  BY <1>0, <1>9 DEF NextDay
<1>10. ASSUME NEW r \in Requests, HeldWrite(r)
       PROVE  /\ Settled(invoice', PaySum(payments'))
              /\ invoice.status = "CANCELLED" => invoice'.status = "CANCELLED"
  BY <1>0, <1>4, <1>10 DEF Settled, Rows
<1>11. CASE BulkOverdue
  BY <1>0, <1>11 DEF BulkOverdue, MarkedOverdue, Queryset, Settled, Rows
<1> QED BY <1>0, <1>a, <1>1, <1>2, <1>3, <1>5, <1>6, <1>7, <1>8, <1>9, <1>10, <1>11 DEF Next, Statement

(* A new invoice has no payment, and is not PAID.                            *)
LEMMA StatusInit == Init => StatusInv
<1> SUFFICES ASSUME Init PROVE StatusInv
  OBVIOUS
<1>1. /\ invoice.paid = 0 /\ invoice.deleted = FALSE /\ payments = {}
      /\ invoice.status \in {"DRAFT", "SENT"} /\ invoice.paidAt = FALSE
  BY Zenon DEF Init
<1>2. TypeInv /\ invoice.total \in Nat
  BY TypeInit, DeskAssumption DEF TypeInv, TypeOK, Rows
<1>3. TotalStands /\ NothingForFree
  BY <1>1 DEF Init, TotalStands, NothingForFree
<1> QED BY <1>1, <1>2, <1>3, PaySumEmpty DEF StatusInv, LedgerInv, LedgerConsistent, PaidIffCovered

(* PAID and paid_at mean exactly that the payments cover a total above zero, *)
(* under every interleaving of the operations that neither move the total    *)
(* nor write back a held status; an invoice over nothing is never PAID.      *)
THEOREM PaidExactlyWhenCovered ==
  ASSUME Ops \subseteq StatusOps
  PROVE  Spec => []PaidIffCovered
<1>1. StatusInv => PaidIffCovered
  BY DEF StatusInv
<1>2. StatusInv /\ [Next]_vars => StatusInv'
  BY StatusStep
<1> QED BY <1>1, <1>2, StatusInit, PTL DEF Spec

(* Under the same operations a void is final, even when the void itself was  *)
(* decided on a row read before a payment arrived.                           *)
THEOREM VoidStays ==
  ASSUME Ops \subseteq StatusOps
  PROVE  Spec => VoidIsFinal
<1>1. StatusInv /\ [Next]_vars => StatusInv'
  BY StatusStep
<1>2. StatusInv /\ [Next]_vars
        => [invoice.status = "CANCELLED" => invoice'.status = "CANCELLED"]_vars
  BY StatusStep
<1> QED BY <1>1, <1>2, StatusInit, PTL DEF Spec, VoidIsFinal

----------------------------------------------------------------------------
(* One request at a time *)

(* While a handler works nothing else writes, so that what it holds is what  *)
(* is in the database and what the view admitted it for still holds.         *)
SerialInv ==
  /\ TypeInv
  /\ PaidMeansCovered
  /\ \A r \in Requests :
       handling[r] \notin {"none", "delete_payments"} =>
         held[r] = invoice /\ Admits(handling[r], invoice)

(* The row that a payment leaves is PAID only if it is covered.              *)
LEMMA SavedCovered ==
  ASSUME NEW row \in Rows, NEW ps, PaySum(ps) \in Nat, NEW day, row.status # "PAID"
  PROVE  LET new == AfterPaymentSaved(row, ps, day)
         IN  new.status = "PAID" => new.paid >= new.total
<1> DEFINE new == [row EXCEPT !.paid = PaySum(ps)]
<1>1. new \in Rows /\ new.status # "PAID"
  BY DEF Rows
<1>2. AfterPaymentSaved(row, ps, day) = UpdateStatus(new, day)
  BY DEF AfterPaymentSaved
<1> HIDE DEF new
<1> QED BY <1>1, <1>2 DEF UpdateStatus, Rows

LEMMA DeletedCovered ==
  ASSUME NEW row \in Rows, NEW ps, PaySum(ps) \in Nat, NEW day
  PROVE  LET new == AfterPaymentDeleted(row, ps, day)
         IN  new.status = "PAID" => new.paid >= new.total
<1>1. row.total > 0 => Settled(AfterPaymentDeleted(row, ps, day), PaySum(ps))
  BY DeletedSettled
<1>2. /\ AfterPaymentDeleted(row, ps, day).paid = PaySum(ps)
      /\ AfterPaymentDeleted(row, ps, day).total = row.total
  BY DeletedRow
<1>3. row.total \in Nat /\ (row.total = 0 => PaySum(ps) >= row.total)
  <2> DEFINE sum == PaySum(ps)
  <2>1. sum \in Nat
    OBVIOUS
  <2>2. row.total \in Nat
    BY DeskAssumption DEF Rows
  <2> HIDE DEF sum
  <2>3. row.total = 0 => sum >= row.total
    BY <2>1
  <2> QED BY <2>2, <2>3 DEF sum
<1> QED BY <1>1, <1>2, <1>3 DEF Settled

LEMMA InsertCovered ==
  ASSUME TypeInv, NEW amount \in Nat \ {0}, InsertPayment(amount), invoice.status # "PAID",
         ~invoice.deleted
  PROVE  PaidMeansCovered'
<1>1. invoice' = AfterPaymentSaved(invoice, payments', today) /\ invoice \in Rows
  BY DEF InsertPayment, TypeInv, TypeOK
<1>2. PaySum(payments) \in Nat
  BY RowsPriced DEF TypeInv, TypeOK
<1>3. PaySum(payments') \in Nat
  BY <1>2, InsertTypes
<1> QED BY <1>1, <1>3, SavedCovered DEF PaidMeansCovered

LEMMA RecomputeCovered ==
  ASSUME TypeInv, PaidMeansCovered, payments' \subseteq PaymentRows, IsFiniteSet(payments'),
         RecomputeAfterDelete(payments')
  PROVE  PaidMeansCovered'
<1>1. PaySum(payments') \in Nat /\ invoice \in Rows
  BY RowsPriced DEF TypeInv, TypeOK
<1> QED BY <1>1, DeletedCovered DEF RecomputeAfterDelete, PaidMeansCovered

LEMMA SerialPayment ==
  ASSUME SerialInv, NEW r \in Requests, Payment(r)
  PROVE  PaidMeansCovered'
<1>0. TypeInv /\ PaidMeansCovered /\ invoice \in Rows /\ payments \subseteq PaymentRows /\ IsFiniteSet(payments)
  BY DEF SerialInv, TypeInv, TypeOK
<1>1. ASSUME NEW a \in Amounts, RecordPayment(r, a)
      PROVE  PaidMeansCovered'
  BY <1>0, <1>1, InsertCovered, DeskAssumption DEF RecordPayment
<1>2. CASE MarkPaid(r)
  <2>1. held[r] = invoice /\ invoice.status # "PAID" /\ AmountDue(invoice) > 0
    BY <1>2 DEF MarkPaid, SerialInv, Admits
  <2>2. AmountDue(held[r]) \in Nat \ {0}
    <3>1. invoice.total \in Nat /\ invoice.paid \in Nat
      BY <1>0, DeskAssumption DEF Rows
    <3>2. AmountDue(invoice) \in Int
      BY <3>1 DEF AmountDue
    <3> QED BY <2>1, <3>2
  <2> QED BY <1>0, <1>2, <2>1, <2>2, InsertCovered DEF MarkPaid
<1>3. ASSUME NEW p \in payments, DeletePaymentRow(r, p)
      PROVE  PaidMeansCovered'
  BY <1>0, <1>3 DEF DeletePaymentRow, PaidMeansCovered
<1>4. CASE FinishDeletePayment(r)
  <2>1. payments' = payments /\ RecomputeAfterDelete(payments')
    BY <1>4 DEF FinishDeletePayment
  <2> QED BY <1>0, <2>1, RecomputeCovered
<1> QED BY <1>1, <1>2, <1>3, <1>4 DEF Payment

LEMMA SerialHeldWrite ==
  ASSUME SerialInv, NEW r \in Requests, HeldWrite(r)
  PROVE  PaidMeansCovered'
<1>0. /\ invoice \in Rows /\ PaidMeansCovered
      /\ handling[r] \notin {"none", "delete_payments"} => held[r] = invoice /\ Admits(handling[r], invoice)
  BY DEF SerialInv, TypeInv, TypeOK
<1>1. CASE Void(r)
  BY <1>0, <1>1 DEF Void, SaveRow, PaidMeansCovered, Rows
<1>2. CASE Cancel(r)
  BY <1>0, <1>2 DEF Cancel, SaveRow, PaidMeansCovered, Rows
<1>3. CASE EmailSent(r)
  BY <1>0, <1>3 DEF EmailSent, SaveRow, StatusAfterEmail, PaidMeansCovered, Rows
<1>4. CASE MarkSent(r)
  BY <1>0, <1>4 DEF MarkSent, SaveRow, PaidMeansCovered, Rows
<1>5. CASE EditTotal(r)
  <2>1. invoice.status # "PAID"
    BY <1>0, <1>5 DEF EditTotal, Admits
  <2> QED BY <1>0, <1>5, <2>1 DEF EditTotal, SaveRow, PaidMeansCovered, Rows
<1>6. CASE EditDue(r)
  BY <1>0, <1>6 DEF EditDue, SaveRow, PaidMeansCovered, Rows
<1> QED BY <1>1, <1>2, <1>3, <1>4, <1>5, <1>6 DEF HeldWrite

LEMMA SerialStatement ==
  ASSUME SerialInv, Statement
  PROVE  PaidMeansCovered'
<1>0. TypeInv /\ PaidMeansCovered /\ invoice \in Rows
  BY DEF SerialInv, TypeInv, TypeOK
<1>1. ASSUME NEW p \in payments, DeletePayment(p)
      PROVE  PaidMeansCovered'
  <2>1. payments' \subseteq PaymentRows /\ IsFiniteSet(payments') /\ RecomputeAfterDelete(payments')
    BY <1>0, <1>1, FS_RemoveElement DEF DeletePayment, TypeInv, TypeOK
  <2> QED BY <1>0, <2>1, RecomputeCovered
<1>2. CASE BulkVoid \/ MarkOverdue \/ BulkOverdue \/ SoftDelete \/ Restore
  BY <1>0, <1>2 DEF BulkVoid, MarkOverdue, BulkOverdue, SoftDelete, Restore, MarkedOverdue, Queryset,
                    PaidMeansCovered, Rows
<1>3. CASE NextDay
  BY <1>0, <1>3 DEF NextDay, PaidMeansCovered
<1> QED BY <1>1, <1>2, <1>3 DEF Statement

(* With one worker the handler at work, if any, is alone.                    *)
LEMMA SerialStep ==
  ASSUME \A r, s \in Requests : r = s
  PROVE  SerialInv /\ [Next]_vars => SerialInv'
<1> DEFINE Fresh(r) == handling[r] \notin {"none", "delete_payments"} =>
                         held[r] = invoice /\ Admits(handling[r], invoice)
<1> SUFFICES ASSUME SerialInv, [Next]_vars
             PROVE  PaidMeansCovered' /\ \A r \in Requests : Fresh(r)'
  BY TypeStep DEF SerialInv
<1>0. /\ handling = [r \in Requests |-> handling[r]] /\ held = [r \in Requests |-> held[r]]
      /\ PaidMeansCovered /\ \A r \in Requests : Fresh(r)
  BY DEF SerialInv, TypeInv, TypeOK
<1>1. ASSUME NEW r \in Requests, handling'[r] \in {"none", "delete_payments"}
      PROVE  \A s \in Requests : Fresh(s)'
  BY <1>1
<1>2. CASE UNCHANGED vars
  BY <1>0, <1>2 DEF vars, PaidMeansCovered
<1>3. ASSUME NEW r \in Requests, NEW op \in Ops, Begin(r, op)
      PROVE  PaidMeansCovered' /\ \A s \in Requests : Fresh(s)'
  <2>1. handling'[r] = op /\ held'[r] = invoice /\ invoice' = invoice /\ Admits(op, invoice)
    BY <1>0, <1>3 DEF Begin
  <2> QED BY <1>0, <2>1 DEF PaidMeansCovered
<1>4. ASSUME NEW r \in Requests, GiveUp(r)
      PROVE  PaidMeansCovered' /\ \A s \in Requests : Fresh(s)'
  BY <1>0, <1>1, <1>4 DEF GiveUp, Finish, PaidMeansCovered
<1>5. ASSUME NEW r \in Requests, Payment(r)
      PROVE  PaidMeansCovered' /\ \A s \in Requests : Fresh(s)'
  <2>1. handling'[r] \in {"none", "delete_payments"}
    BY <1>0, <1>5 DEF Payment, RecordPayment, MarkPaid, DeletePaymentRow, FinishDeletePayment, Finish
  <2> QED BY <1>1, <1>5, <2>1, SerialPayment
<1>6. ASSUME NEW r \in Requests, HeldWrite(r)
      PROVE  PaidMeansCovered' /\ \A s \in Requests : Fresh(s)'
  <2>1. handling'[r] = "none"
    BY <1>0, <1>6 DEF HeldWrite, Void, Cancel, EmailSent, MarkSent, EditTotal, EditDue, SaveRow, Finish
  <2> QED BY <1>1, <1>6, <2>1, SerialHeldWrite
<1>7. CASE Statement
  <2>1. PaidMeansCovered'
    BY <1>7, SerialStatement
  <2>2. CASE NextDay
    BY <1>0, <2>1, <2>2 DEF NextDay
  <2>3. CASE ~NextDay
    <3>1. FreeWorker /\ handling' = handling
      BY <1>7, <2>3 DEF Statement, DeletePayment, BulkVoid, MarkOverdue, BulkOverdue, SoftDelete, Restore,
                        Queryset
    <3>2. \A r \in Requests : handling'[r] = "none"
      BY <3>1 DEF FreeWorker
    <3> QED BY <2>1, <3>2
  <2> QED BY <2>2, <2>3
<1> QED BY <1>2, <1>3, <1>4, <1>5, <1>6, <1>7 DEF Next

(* Request after request, whatever the sequence of all the operations, an    *)
(* invoice that reads PAID has its total in amount_paid (update_status never *)
(* demotes, so every other write has to keep away from PAID).                *)
THEOREM PaidIsCovered ==
  ASSUME \A r, s \in Requests : r = s
  PROVE  Spec => []PaidMeansCovered
<1>1. Init => SerialInv
  <2> SUFFICES ASSUME Init PROVE SerialInv
    OBVIOUS
  <2>1. invoice.status # "PAID" /\ \A r \in Requests : handling[r] = "none"
    BY Zenon DEF Init
  <2> QED BY <2>1, TypeInit DEF SerialInv, PaidMeansCovered
<1>2. SerialInv => PaidMeansCovered
  BY DEF SerialInv
<1>3. SerialInv /\ [Next]_vars => SerialInv'
  BY SerialStep
<1> QED BY <1>1, <1>2, <1>3, PTL DEF Spec
=============================================================================
