--------------------------- MODULE Loyalty_proofs ---------------------------
(***************************************************************************)
(* Proofs about Loyalty, for every set of workers, customers, jobs and     *)
(* redemptions, every amount of points and number of crashes: type         *)
(* correctness, the balance and its ledger, expiry, redemptions with their *)
(* refunds, and the payout of referrals.                                   *)
(***************************************************************************)
EXTENDS Loyalty, FiniteSetTheorems, WellFoundedInduction, SequenceTheorems, TLAPS

-----------------------------------------------------------------------------
(* The sum of the amounts of a finite set of entries, a fold and so a      *)
(* recursive function behind a CHOOSE: it exists, by cardinality, it does  *)
(* not depend on the set it was built for, and it returns an integer, 0    *)
(* for no entries and one amount more for one entry more.                  *)

Sum(ps) == MapThenSumSet(LAMBDA p : p.amount, ps)

Priced(S) == IsFiniteSet(S) /\ \A p \in S : p.amount \in Int

Pick(s) == CHOOSE x \in s : TRUE
Step(s, f) == IF s = {} THEN 0 ELSE Pick(s).amount + f[s \ {Pick(s)}]
SumRule(S, f) == f = [s \in SUBSET S |-> Step(s, f)]

(* The fold, spelled out. *)
LEMMA SumUnfold ==
  ASSUME NEW S
  PROVE  Sum(S) = (CHOOSE f : SumRule(S, f))[S]
BY Zenon DEF Sum, MapThenSumSet, MapThenFoldSet, SumRule, Step, Pick

(* The row taken out of a non-empty set is one of its rows. *)
LEMMA PickIn ==
  ASSUME NEW s, s # {}
  PROVE  Pick(s) \in s
BY DEF Pick

(* Induction, as the existence of least counterexamples. *)
LEMMA LeastNat ==
  ASSUME NEW B \in SUBSET Nat, B # {}
  PROVE  \E n \in B : \A m \in B : n <= m
<1>1. PICK n \in B : \A m \in B : ~(<<m, n>> \in OpToRel(<, Nat))
  BY NatLessThanWellFounded, WFMin
<1>2. \A m \in B : ~(m < n)
  BY <1>1 DEF OpToRel
<1> QED BY <1>2

(* ... and as the existence of a minimal subset, by cardinality. *)
LEMMA LeastSubset ==
  ASSUME NEW S, IsFiniteSet(S), NEW B \in SUBSET (SUBSET S), B # {}
  PROVE  \E s \in B : \A x \in s : s \ {x} \notin B
<1> DEFINE Sizes == {Cardinality(s) : s \in B}
<1>1. \A s \in B : IsFiniteSet(s) /\ Cardinality(s) \in Nat
  BY FS_Subset, FS_CardinalityType
<1>2. PICK s \in B : \A t \in B : Cardinality(s) <= Cardinality(t)
  <2>1. Sizes \in SUBSET Nat /\ Sizes # {}
    BY <1>1
  <2>2. \E n \in Sizes : \A m \in Sizes : n <= m
    <3> HIDE DEF Sizes
    <3> QED BY <2>1, LeastNat
  <2> QED BY <2>2
<1>3. \A x \in s : Cardinality(s \ {x}) = Cardinality(s) - 1
  BY <1>1, FS_RemoveElement
<1> QED BY <1>1, <1>2, <1>3

(* Subsets of S with at most n elements. *)
Small(S, n) == {s \in SUBSET S : Cardinality(s) <= n}

(* A solution for the small subsets extends to those one row larger. *)
LEMMA RuleExtends ==
  ASSUME NEW S, IsFiniteSet(S), NEW n \in Nat,
         NEW f, f = [s \in Small(S, n) |-> Step(s, f)]
  PROVE  \E g : g = [s \in Small(S, n + 1) |-> Step(s, g)]
<1> DEFINE g == [s \in Small(S, n + 1) |-> Step(s, f)]
<1>1. ASSUME NEW s \in Small(S, n + 1), s # {}
      PROVE  s \ {Pick(s)} \in Small(S, n)
  <2>1. s \in SUBSET S /\ IsFiniteSet(s) /\ Cardinality(s) \in Nat
    BY FS_Subset, FS_CardinalityType DEF Small
  <2>2. Cardinality(s \ {Pick(s)}) = Cardinality(s) - 1
    BY <2>1, <1>1, PickIn, FS_RemoveElement
  <2> QED BY <2>1, <2>2 DEF Small
<1>2. \A s \in Small(S, n) : s \in Small(S, n + 1)
  BY FS_Subset, FS_CardinalityType DEF Small
<1>3. \A s \in Small(S, n) : g[s] = f[s]
  BY <1>2
<1>4. \A s \in Small(S, n + 1) : Step(s, f) = Step(s, g)
  BY <1>1, <1>3 DEF Step
<1>5. g = [s \in Small(S, n + 1) |-> Step(s, g)]
  BY <1>4
<1> QED BY <1>5

(* The recursion that defines the fold has a solution. *)
LEMMA RuleHolds ==
  ASSUME NEW S, IsFiniteSet(S)
  PROVE  SumRule(S, CHOOSE f : SumRule(S, f))
<1> DEFINE Solved(n) == \E f : f = [s \in Small(S, n) |-> Step(s, f)]
           Bad == {n \in Nat : ~Solved(n)}
<1>1. Solved(0)
  <2> DEFINE f == [s \in Small(S, 0) |-> 0]
  <2>1. \A s \in Small(S, 0) : s = {}
    BY FS_Subset, FS_CardinalityType, FS_EmptySet DEF Small
  <2>2. \A s \in Small(S, 0) : Step(s, f) = 0
    BY <2>1 DEF Step
  <2>3. f = [s \in Small(S, 0) |-> Step(s, f)]
    BY <2>2
  <2> QED BY <2>3
<1>2. ASSUME NEW n \in Nat, Solved(n) PROVE Solved(n + 1)
  BY <1>2, RuleExtends
<1>3. Bad = {}
  <2> SUFFICES ASSUME Bad # {} PROVE FALSE
    OBVIOUS
  <2>1. PICK n \in Bad : \A m \in Bad : n <= m
    <3>1. Bad \in SUBSET Nat
      OBVIOUS
    <3> HIDE DEF Bad
    <3> QED BY <3>1, LeastNat
  <2>2. n \in Nat /\ n # 0 /\ ~Solved(n)
    BY <2>1, <1>1
  <2>3. n - 1 \in Nat /\ n - 1 \notin Bad /\ (n - 1) + 1 = n
    BY <2>1, <2>2
  <2>4. Solved(n - 1)
    BY <2>3
  <2>5. Solved((n - 1) + 1)
    BY <2>3, <2>4, <1>2
  <2> QED BY <2>2, <2>3, <2>5
<1>4. Cardinality(S) \in Nat /\ Solved(Cardinality(S))
  BY <1>3, FS_CardinalityType
<1>5. Small(S, Cardinality(S)) = SUBSET S
  BY FS_Subset, FS_CardinalityType DEF Small
<1>6. \E f : SumRule(S, f)
  BY <1>4, <1>5 DEF SumRule
<1> QED BY <1>6

(* How the fold runs over any subset of the rows it was built for. *)
LEMMA FoldStep ==
  ASSUME NEW S, NEW f, SumRule(S, f), NEW s \in SUBSET S
  PROVE  f[s] = Step(s, f)
BY DEF SumRule

(* It returns a natural number. *)
LEMMA FoldInt ==
  ASSUME NEW S, Priced(S), NEW f, SumRule(S, f)
  PROVE  \A s \in SUBSET S : f[s] \in Int
<1> DEFINE Bad == {s \in SUBSET S : f[s] \notin Int}
<1> SUFFICES ASSUME Bad # {} PROVE FALSE
  OBVIOUS
<1>1. PICK s \in Bad : \A x \in s : s \ {x} \notin Bad
  BY LeastSubset DEF Priced
<1>2. f[s] = Step(s, f)
  BY FoldStep
<1>2a. s # {}
  BY <1>2 DEF Step
<1>3. Pick(s) \in s /\ Pick(s).amount \in Int
  BY <1>2a, PickIn DEF Priced
<1>4. f[s \ {Pick(s)}] \in Int
  BY <1>1, <1>3
<1>5. Step(s, f) \in Int
  BY <1>3, <1>4 DEF Step
<1> QED BY <1>2, <1>5

(* It does not depend on the larger set it was built for. *)
LEMMA FoldAgrees ==
  ASSUME NEW S, IsFiniteSet(S), NEW f, SumRule(S, f),
         NEW T \in SUBSET S, NEW g, SumRule(T, g)
  PROVE  \A s \in SUBSET T : f[s] = g[s]
<1> DEFINE Bad == {s \in SUBSET T : f[s] # g[s]}
<1> SUFFICES ASSUME Bad # {} PROVE FALSE
  OBVIOUS
<1>1. PICK s \in Bad : \A x \in s : s \ {x} \notin Bad
  BY LeastSubset, FS_Subset
<1>2. f[s] = Step(s, f) /\ g[s] = Step(s, g)
  BY FoldStep
<1>3. s # {}
  BY <1>2 DEF Step
<1>4. f[s \ {Pick(s)}] = g[s \ {Pick(s)}]
  BY <1>1, <1>3, PickIn
<1> QED BY <1>2, <1>3, <1>4 DEF Step

(* Sum is the fold over the whole set. *)
LEMMA SumFold ==
  ASSUME NEW S, IsFiniteSet(S), NEW f, SumRule(S, f), NEW s \in SUBSET S
  PROVE  Sum(s) = f[s]
<1> DEFINE g == CHOOSE h : SumRule(s, h)
<1>1. IsFiniteSet(s)
  BY FS_Subset
<1>2. SumRule(s, g)
  BY <1>1, RuleHolds
<1>3. f[s] = g[s]
  BY <1>2, FoldAgrees
<1> QED BY <1>3, SumUnfold

----------------------------------------------------------------------------
(* No entries add up to nothing.                                           *)
LEMMA SumEmpty == Sum({}) = 0
<1> DEFINE f == CHOOSE h : SumRule({}, h)
<1>1. SumRule({}, f)
  BY RuleHolds, FS_EmptySet
<1>2. f[{}] = 0
  BY <1>1, FoldStep DEF Step
<1> QED BY <1>2, SumUnfold

(* amount_paid is a natural number.                                         *)
LEMMA SumInt ==
  ASSUME NEW S, Priced(S)
  PROVE  Sum(S) \in Int
<1> DEFINE f == CHOOSE h : SumRule(S, h)
<1>1. SumRule(S, f)
  BY RuleHolds DEF Priced
<1> QED BY <1>1, FoldInt, SumUnfold

(* Sum takes the picked row out first. *)
LEMMA SumPick ==
  ASSUME NEW S, Priced(S), S # {}
  PROVE  Sum(S) = Pick(S).amount + Sum(S \ {Pick(S)})
<1> DEFINE f == CHOOSE h : SumRule(S, h)
<1>1. SumRule(S, f)
  BY RuleHolds DEF Priced
<1>2. f[S] = Pick(S).amount + f[S \ {Pick(S)}]
  BY <1>1, FoldStep DEF Step
<1>3. Sum(S) = f[S] /\ Sum(S \ {Pick(S)}) = f[S \ {Pick(S)}]
  BY <1>1, SumFold DEF Priced
<1> QED BY <1>2, <1>3

(* Taking any entry away lowers the sum by exactly its amount.             *)
LEMMA SumRemove ==
  ASSUME NEW S, Priced(S), NEW p \in S
  PROVE  Sum(S) = p.amount + Sum(S \ {p})
<1> DEFINE Holds(s, x) == Sum(s) = x.amount + Sum(s \ {x})
           Bad == {s \in SUBSET S : \E x \in s : ~Holds(s, x)}
<1> SUFFICES ASSUME Bad # {} PROVE FALSE
  OBVIOUS
<1>0. \A s \in SUBSET S : Priced(s)
  BY FS_Subset DEF Priced
<1>1. PICK s \in Bad : \A x \in s : s \ {x} \notin Bad
  <2> HIDE DEF Bad
  <2>1. Bad \in SUBSET (SUBSET S)
    BY DEF Bad
  <2> QED BY <2>1, LeastSubset DEF Priced
<1>2. PICK x \in s : ~Holds(s, x)
  OBVIOUS
<1>3. PICK y \in s : y = Pick(s)
  BY PickIn
<1>4. Holds(s, y)
  BY <1>0, <1>3, SumPick
<1>5. y # x
  BY <1>2, <1>4
<1>6. Holds(s \ {y}, x) /\ Holds(s \ {x}, y)
  BY <1>1, <1>5
<1>7. (s \ {y}) \ {x} = (s \ {x}) \ {y}
  OBVIOUS
<1>8. x.amount \in Int /\ y.amount \in Int /\ Sum((s \ {x}) \ {y}) \in Int
  BY <1>0, SumInt DEF Priced
<1>9. Holds(s, x)
  <2>1. ASSUME NEW a \in Int, NEW b \in Int, NEW c \in Int
        PROVE  b + (a + c) = a + (b + c)
    OBVIOUS
  <2>2. Sum(s) = y.amount + (x.amount + Sum((s \ {x}) \ {y}))
    BY <1>4, <1>6, <1>7
  <2>3. Sum(s \ {x}) = y.amount + Sum((s \ {x}) \ {y})
    BY <1>6
  <2> HIDE DEF Bad
  <2> QED BY <1>8, <2>1, <2>2, <2>3
<1> QED BY <1>2, <1>9

(* One entry more adds its amount to the sum.                              *)
LEMMA SumAdd ==
  ASSUME NEW S, Priced(S), NEW p, p \notin S, p.amount \in Int
  PROVE  Sum(S \cup {p}) = Sum(S) + p.amount
<1>1. Priced(S \cup {p})
  BY FS_AddElement DEF Priced
<1>2. (S \cup {p}) \ {p} = S
  OBVIOUS
<1>3. Sum(S \cup {p}) = p.amount + Sum(S)
  BY <1>1, <1>2, SumRemove
<1> QED BY <1>3, SumInt

-----------------------------------------------------------------------------
(* Amounts of a ledger                                                     *)

Items(entries, rows) == {[id |-> i, amount |-> entries[i].amount] : i \in rows}
AmountIn(entries, rows) == Sum(Items(entries, rows))

LEMMA AmountOfIsIn == \A c \in Customers : \A rows : AmountOf(c, rows) = AmountIn(ledger[c], rows)
BY DEF AmountOf, AmountIn, Items, Sum

LEMMA EntriesTyped ==
  ASSUME NEW entries \in Seq(Entry)
  PROVE  /\ Len(entries) \in Nat
         /\ DOMAIN entries = 1..Len(entries)
         /\ \A i \in DOMAIN entries : entries[i] \in Entry /\ entries[i].amount \in Int
                                      /\ entries[i].after \in Int
<1>1. Len(entries) \in Nat /\ DOMAIN entries = 1..Len(entries)
  BY LenProperties
<1>2. \A i \in DOMAIN entries : entries[i] \in Entry
  BY <1>1, ElementOfSeq
<1>. QED BY <1>1, <1>2 DEF Entry

LEMMA RowsPriced ==
  ASSUME NEW entries \in Seq(Entry), NEW rows \in SUBSET (DOMAIN entries)
  PROVE  IsFiniteSet(rows) /\ Priced(Items(entries, rows)) /\ AmountIn(entries, rows) \in Int
<1>1. IsFiniteSet(rows)
  BY EntriesTyped, FS_Interval, FS_Subset
<1>2. IsFiniteSet(Items(entries, rows))
  <2> DEFINE f == [i \in rows |-> [id |-> i, amount |-> entries[i].amount]]
  <2>1. f \in Surjection(rows, Items(entries, rows))
    BY DEF Surjection, Items
  <2>. QED BY <1>1, <2>1, FS_Surjection
<1>3. Priced(Items(entries, rows))
  BY <1>2, EntriesTyped DEF Priced, Items
<1>. QED BY <1>1, <1>3, SumInt DEF AmountIn

LEMMA AmountOfNone ==
  ASSUME NEW entries
  PROVE  AmountIn(entries, {}) = 0
<1>1. Items(entries, {}) = {}
  BY DEF Items
<1>. QED BY <1>1, SumEmpty DEF AmountIn

LEMMA AmountOfOneMore ==
  ASSUME NEW entries \in Seq(Entry), NEW rows \in SUBSET (DOMAIN entries),
         NEW i \in DOMAIN entries, i \notin rows
  PROVE  AmountIn(entries, rows \cup {i}) = AmountIn(entries, rows) + entries[i].amount
<1> DEFINE p == [id |-> i, amount |-> entries[i].amount]
           S == Items(entries, rows)
<1>1. Items(entries, rows \cup {i}) = S \cup {p}
  BY DEF Items
<1>2. p \notin S
  BY DEF Items
<1>3. p.amount = entries[i].amount /\ p.amount \in Int
  BY EntriesTyped
<1>4. Priced(S)
  BY RowsPriced
<1>5. Sum(S \cup {p}) = Sum(S) + p.amount
  <2>. HIDE DEF S, p
  <2>. QED BY <1>2, <1>3, <1>4, SumAdd
<1>. QED BY <1>1, <1>3, <1>5 DEF AmountIn

(* Two sets of rows with none in common add up.                            *)
LEMMA AmountOfBoth ==
  ASSUME NEW entries \in Seq(Entry), NEW A \in SUBSET (DOMAIN entries),
         NEW B \in SUBSET (DOMAIN entries), A \cap B = {}
  PROVE  AmountIn(entries, A \cup B) = AmountIn(entries, A) + AmountIn(entries, B)
<1> DEFINE Adds(s) == AmountIn(entries, A \cup s) = AmountIn(entries, A) + AmountIn(entries, s)
           Bad == {s \in SUBSET B : ~Adds(s)}
<1>. SUFFICES ASSUME Bad # {} PROVE FALSE
  OBVIOUS
<1>1. PICK s \in Bad : \A x \in s : s \ {x} \notin Bad
  <2>1. Bad \in SUBSET (SUBSET B) /\ IsFiniteSet(B)
    BY RowsPriced
  <2>. HIDE DEF Bad
  <2>. QED BY <2>1, LeastSubset
<1>2. s \in SUBSET B /\ ~Adds(s)
  BY <1>1
<1>3. AmountIn(entries, A) \in Int
  BY RowsPriced
<1>4. s # {}
  <2>1. A \cup {} = A
    OBVIOUS
  <2>2. Adds({})
    BY <1>3, <2>1, AmountOfNone
  <2>. QED BY <1>2, <2>2
<1>5. PICK x \in s : TRUE
  BY <1>4
<1>6. Adds(s \ {x})
  BY <1>1, <1>2, <1>5
<1>7. s \ {x} \in SUBSET (DOMAIN entries) /\ x \in DOMAIN entries /\ x \notin A
      /\ A \cup (s \ {x}) \in SUBSET (DOMAIN entries) /\ x \notin A \cup (s \ {x})
  BY <1>2, <1>5
<1>8. (s \ {x}) \cup {x} = s /\ (A \cup (s \ {x})) \cup {x} = A \cup s
  BY <1>5
<1>9. AmountIn(entries, s) = AmountIn(entries, s \ {x}) + entries[x].amount
  BY <1>7, <1>8, AmountOfOneMore
<1>10. AmountIn(entries, A \cup s) = AmountIn(entries, A \cup (s \ {x})) + entries[x].amount
  BY <1>7, <1>8, AmountOfOneMore
<1>11. AmountIn(entries, s \ {x}) \in Int /\ entries[x].amount \in Int
  BY <1>7, RowsPriced, EntriesTyped
<1>12. Adds(s)
  <2>. HIDE DEF Bad
  <2>. QED BY <1>3, <1>6, <1>9, <1>10, <1>11
<1>. QED BY <1>2, <1>12

(* Rows that kept their amounts still add up to what they did.             *)
LEMMA AmountKept ==
  ASSUME NEW old, NEW entries, NEW rows, \A i \in rows : entries[i].amount = old[i].amount
  PROVE  AmountIn(entries, rows) = AmountIn(old, rows)
<1>1. Items(entries, rows) = Items(old, rows)
  BY DEF Items
<1>. QED BY <1>1 DEF AmountIn

-----------------------------------------------------------------------------
(* What may happen to a ledger                                             *)

(* Its entries are what they were, but for their lives: what has expired   *)
(* has, and what is due stays so (Spares).                                 *)
KeptEntry(new, old) ==
  new.kind = old.kind /\ new.of = old.of /\ new.amount = old.amount /\ new.after = old.after

Kept(new, old) ==
  /\ new \in Seq(Entry)
  /\ Len(new) = Len(old)
  /\ \A i \in DOMAIN old : KeptEntry(new[i], old[i])

Grown(new, old, e) ==
  /\ new \in Seq(Entry)
  /\ Len(new) = Len(old) + 1
  /\ \A i \in DOMAIN old : KeptEntry(new[i], old[i])
  /\ e \in Entry /\ new[Len(old) + 1] = e

Spares(new, old) ==
  /\ \A i \in DOMAIN old :
        /\ i \in DOMAIN new
        /\ new[i].life = "expired" <=> old[i].life = "expired"
        /\ old[i].life = "due" => new[i].life = "due"
  /\ \A i \in DOMAIN new \ DOMAIN old : new[i].life # "expired"

LEMMA SameKept ==
  ASSUME NEW old \in Seq(Entry)
  PROVE  Kept(old, old) /\ Spares(old, old)
BY DEF Kept, KeptEntry, Spares

LEMMA AppendGrows ==
  ASSUME NEW old \in Seq(Entry), NEW e \in Entry
  PROVE  /\ Grown(Append(old, e), old, e)
         /\ Append(old, e) \in Seq(Entry)
         /\ e.life # "expired" => Spares(Append(old, e), old)
<1>1. /\ Append(old, e) \in Seq(Entry) /\ Len(Append(old, e)) = Len(old) + 1
      /\ \A i \in 1..Len(old) : Append(old, e)[i] = old[i]
      /\ Append(old, e)[Len(old) + 1] = e
  BY AppendProperties
<1>2. Len(old) \in Nat /\ DOMAIN old = 1..Len(old)
      /\ DOMAIN Append(old, e) = 1..(Len(old) + 1)
  BY <1>1, LenProperties
<1>. QED BY <1>1, <1>2 DEF Grown, KeptEntry, Spares

(* Appending to a ledger whose lives have changed.                         *)
LEMMA KeptThenGrown ==
  ASSUME NEW old \in Seq(Entry), NEW mid, Kept(mid, old), NEW e \in Entry
  PROVE  Grown(Append(mid, e), old, e)
<1>1. mid \in Seq(Entry) /\ Len(mid) = Len(old) /\ DOMAIN mid = DOMAIN old
  BY EntriesTyped DEF Kept
<1>2. Grown(Append(mid, e), mid, e)
  BY <1>1, AppendGrows
<1>3. \A i \in DOMAIN old : KeptEntry(Append(mid, e)[i], mid[i]) /\ KeptEntry(mid[i], old[i])
  BY <1>1, <1>2 DEF Grown, Kept
<1>. QED BY <1>1, <1>2, <1>3 DEF Grown, KeptEntry

In(entries, kind, of) == {i \in DOMAIN entries : entries[i].kind = kind /\ entries[i].of = of}

LEMMA KeptIn ==
  ASSUME NEW old \in Seq(Entry), NEW new, Kept(new, old)
  PROVE  /\ DOMAIN new = DOMAIN old
         /\ \A kind, of : In(new, kind, of) = In(old, kind, of)
BY EntriesTyped DEF Kept, KeptEntry, In

LEMMA GrownRows ==
  ASSUME NEW old \in Seq(Entry), NEW new, NEW e, Grown(new, old, e)
  PROVE  /\ DOMAIN new = DOMAIN old \cup {Len(old) + 1}
         /\ Len(old) + 1 \notin DOMAIN old
         /\ new[Len(old) + 1] = e
         /\ \A i \in DOMAIN old : KeptEntry(new[i], old[i])
<1>1. Len(old) \in Nat /\ DOMAIN old = 1..Len(old) /\ DOMAIN new = 1..(Len(old) + 1)
  BY EntriesTyped DEF Grown
<1>. QED BY <1>1 DEF Grown

LEMMA GrownByIt ==
  ASSUME NEW old \in Seq(Entry), NEW new, NEW e, Grown(new, old, e),
         NEW kind, NEW of, e.kind = kind, e.of = of
  PROVE  In(new, kind, of) = In(old, kind, of) \cup {Len(old) + 1}
<1>1. PICK n : n = Len(old) + 1
  OBVIOUS
<1>2. /\ DOMAIN new = DOMAIN old \cup {n} /\ new[n] = e
      /\ \A i \in DOMAIN old : KeptEntry(new[i], old[i])
  BY <1>1, GrownRows
<1>3. \A i : i \in In(new, kind, of) <=> i \in In(old, kind, of) \cup {n}
  BY <1>2 DEF KeptEntry, In
<1>. QED BY <1>1, <1>3

LEMMA GrownByAnother ==
  ASSUME NEW old \in Seq(Entry), NEW new, NEW e, Grown(new, old, e),
         NEW kind, NEW of, e.kind # kind \/ e.of # of
  PROVE  In(new, kind, of) = In(old, kind, of)
<1>1. PICK n : n = Len(old) + 1
  OBVIOUS
<1>2. /\ DOMAIN new = DOMAIN old \cup {n} /\ new[n] = e
      /\ \A i \in DOMAIN old : KeptEntry(new[i], old[i])
  BY <1>1, GrownRows
<1>3. \A i : i \in In(new, kind, of) <=> i \in In(old, kind, of)
  BY <1>2 DEF KeptEntry, In
<1>. QED BY <1>3

-----------------------------------------------------------------------------
(* Running balances                                                        *)

Last(entries) == IF entries = <<>> THEN 0 ELSE entries[Len(entries)].after

Runs(entries) ==
  \A i \in DOMAIN entries :
    entries[i].after = entries[i].amount + (IF i = 1 THEN 0 ELSE entries[i-1].after)

LEMMA KeptRuns ==
  ASSUME NEW old \in Seq(Entry), NEW new, Kept(new, old), Runs(old)
  PROVE  Runs(new) /\ Last(new) = Last(old)
<1>1. /\ new \in Seq(Entry) /\ Len(new) = Len(old) /\ Len(old) \in Nat
      /\ DOMAIN new = 1..Len(old) /\ DOMAIN old = 1..Len(old)
  BY EntriesTyped DEF Kept
<1>2. \A i \in 1..Len(old) : new[i].amount = old[i].amount /\ new[i].after = old[i].after
  BY <1>1 DEF Kept, KeptEntry
<1>3. \A i \in 1..Len(old) : i # 1 => i - 1 \in 1..Len(old)
  BY <1>1
<1>4. Runs(new)
  BY <1>1, <1>2, <1>3 DEF Runs
<1>5. (new = <<>> <=> Len(old) = 0) /\ (old = <<>> <=> Len(old) = 0)
  BY <1>1, EmptySeq
<1>6. Last(new) = Last(old)
  BY <1>1, <1>2, <1>5 DEF Last
<1>. QED BY <1>4, <1>6

LEMMA GrownRuns ==
  ASSUME NEW old \in Seq(Entry), NEW new, NEW e, Grown(new, old, e), Runs(old),
         e.after = e.amount + Last(old)
  PROVE  Runs(new) /\ Last(new) = e.after
<1>1. /\ new \in Seq(Entry) /\ Len(new) = Len(old) + 1 /\ Len(old) \in Nat
      /\ DOMAIN new = 1..(Len(old) + 1) /\ DOMAIN old = 1..Len(old)
  BY EntriesTyped DEF Grown
<1>2. \A i \in 1..Len(old) : new[i].amount = old[i].amount /\ new[i].after = old[i].after
  BY <1>1 DEF Grown, KeptEntry
<1>3. new[Len(old) + 1] = e
  BY DEF Grown
<1>4. (old = <<>> <=> Len(old) = 0) /\ new # <<>>
  BY <1>1, EmptySeq
<1>5. \A i \in 1..Len(old) : new[i].after = new[i].amount + (IF i = 1 THEN 0 ELSE new[i-1].after)
  <2>1. \A i \in 1..Len(old) : i # 1 => i - 1 \in 1..Len(old)
    BY <1>1
  <2>. QED BY <1>1, <1>2, <2>1 DEF Runs
<1>6. e.after = e.amount + (IF Len(old) + 1 = 1 THEN 0 ELSE new[(Len(old) + 1) - 1].after)
  <2>1. CASE Len(old) = 0
    BY <2>1, <1>4 DEF Last
  <2>2. CASE Len(old) # 0
    BY <2>2, <1>1, <1>2, <1>4 DEF Last
  <2>. QED BY <2>1, <2>2
<1>7. Runs(new)
  BY <1>1, <1>3, <1>5, <1>6 DEF Runs
<1>8. Last(new) = e.after
  BY <1>1, <1>3, <1>4 DEF Last
<1>. QED BY <1>7, <1>8

-----------------------------------------------------------------------------
(* Types, and what the requests under way rely on.  An expiry: the rows it *)
(* has listed are still due, for no other one runs.  A cancellation: its   *)
(* redemption is PENDING, and nobody else's.  A copy that is to be saved:  *)
(* a row that exists, and a job if one is to be gone on with.              *)

OneExpiry ==
  /\ \A w \in Workers : task[w].at = "expire" => task[w].rows \subseteq Due(task[w].customer)
  /\ \A v, w \in Workers : task[v].at = "expire" /\ task[w].at = "expire" => v = w

Real(row) == row.status # "none" /\ row.customer \in Customers

SavesOf(t) == IF t.at \in {"save", "deny"} THEN t.saves ELSE {}

Carries(t) ==
  /\ \A s \in SavesOf(t) : Real(s.now)
  /\ t.at = "save" /\ t.after = "earn" => t.job \in Jobs

Redeemed ==
  /\ \A r \in Redemptions : Real(redemption[r]) \/ redemption[r] = NoRow
  /\ \A w \in Workers : Carries(task[w])
  /\ \A w \in Workers : task[w].at = "cancel" => redemption[task[w].id].status = "PENDING"
  /\ \A v, w \in Workers :
        task[v].at = "cancel" /\ task[w].at = "cancel" /\ task[v].id = task[w].id => v = w

Types == TypeOK /\ OneExpiry /\ Redeemed

LEMMA IdleTask == Idle \in Task
BY DEF Idle, Task

LEMMA TypesInit == Init => Types
<1>. SUFFICES ASSUME Init PROVE Types
  OBVIOUS
<1>1. <<>> \in Seq(Entry) /\ NoRow \in Row
  BY EmptySeq DEF NoRow, Row
<1>2. TypeOK
  BY <1>1, IdleTask DEF Init, TypeOK
<1>3. OneExpiry /\ Redeemed
  BY DEF Init, OneExpiry, Redeemed, Carries, SavesOf, Idle
<1>. QED BY <1>2, <1>3 DEF Types

LEMMA LedgersTyped ==
  ASSUME TypeOK, NEW c \in Customers
  PROVE  /\ points[c] \in Int
         /\ ledger[c] \in Seq(Entry)
         /\ Len(ledger[c]) \in Nat /\ DOMAIN ledger[c] = 1..Len(ledger[c])
         /\ \A kind, of : Entries(c, kind, of) = In(ledger[c], kind, of)
BY EntriesTyped DEF TypeOK, Entries, In

(* The balance of c and its ledger stay, or one entry moves both.          *)
Stays(c) == Kept(ledger'[c], ledger[c]) /\ points'[c] = points[c]

Books(c, e) ==
  /\ Grown(ledger'[c], ledger[c], e)
  /\ points'[c] = e.after
  /\ e.after = e.amount + points[c]
  /\ points[c] >= 0 => e.after >= 0

Moves(kinds) ==
  /\ points' \in [Customers -> Int]
  /\ ledger' \in [Customers -> Seq(Entry)]
  /\ \A c \in Customers : Stays(c) \/ \E e : Books(c, e) /\ e.kind \in kinds

SparesAll == \A c \in Customers : Spares(ledger'[c], ledger[c])

LEMMA NothingMoves ==
  ASSUME TypeOK, UNCHANGED <<points, ledger>>
  PROVE  Moves({}) /\ SparesAll
<1>1. \A c \in Customers : Kept(ledger[c], ledger[c]) /\ Spares(ledger[c], ledger[c])
  BY LedgersTyped, SameKept
<1>. QED BY <1>1 DEF TypeOK, Moves, Stays, SparesAll

LEMMA MovesMore ==
  ASSUME NEW K, NEW L, Moves(K), K \subseteq L
  PROVE  Moves(L)
BY DEF Moves

(* An award.                                                               *)
LEMMA AwardBooks ==
  ASSUME TypeOK, NEW c \in Customers, NEW kind \in Kinds,
         NEW of \in Redemptions \cup Customers \cup {Nothing}, NEW amount \in Int,
         points[c] >= 0 => points[c] + amount >= 0, Award(c, kind, of, amount)
  PROVE  /\ Moves({kind}) /\ SparesAll
         /\ \E e : Books(c, e) /\ e.kind = kind /\ e.of = of
         /\ \A d \in Customers \ {c} : ledger'[d] = ledger[d]
<1>1. PICK life \in {"never", "later"} :
        /\ points' = [points EXCEPT ![c] = @ + amount]
        /\ ledger' = [ledger EXCEPT ![c] = Append(@, NewEntry(c, kind, of, amount, life))]
  BY DEF Award
<1>2. PICK e : e = NewEntry(c, kind, of, amount, life)
  OBVIOUS
<1>3. /\ points[c] \in Int /\ ledger[c] \in Seq(Entry)
      /\ \A d \in Customers : ledger[d] \in Seq(Entry)
      /\ points \in [Customers -> Int] /\ ledger \in [Customers -> Seq(Entry)]
  BY LedgersTyped DEF TypeOK
<1>4. /\ e \in Entry /\ e.kind = kind /\ e.of = of /\ e.amount = amount
      /\ e.after = points[c] + amount /\ e.life # "expired"
  BY <1>1, <1>2, <1>3 DEF NewEntry, Entry
<1>5. /\ Grown(Append(ledger[c], e), ledger[c], e) /\ Append(ledger[c], e) \in Seq(Entry)
      /\ Spares(Append(ledger[c], e), ledger[c])
  BY <1>3, <1>4, AppendGrows
<1>6. /\ points' = [points EXCEPT ![c] = points[c] + amount]
      /\ ledger' = [ledger EXCEPT ![c] = Append(ledger[c], e)]
  BY <1>1, <1>2
<1>7. points' \in [Customers -> Int] /\ ledger' \in [Customers -> Seq(Entry)]
  BY <1>3, <1>5, <1>6
<1>8. /\ points'[c] = points[c] + amount /\ ledger'[c] = Append(ledger[c], e)
      /\ \A d \in Customers \ {c} : points'[d] = points[d] /\ ledger'[d] = ledger[d]
  BY <1>3, <1>6
<1>9. Books(c, e)
  BY <1>3, <1>4, <1>5, <1>8 DEF Books
<1>10. \A d \in Customers \ {c} : Stays(d) /\ Spares(ledger'[d], ledger[d])
  BY <1>3, <1>8, SameKept DEF Stays
<1>11. Moves({kind})
  BY <1>4, <1>7, <1>9, <1>10 DEF Moves
<1>12. SparesAll
  BY <1>5, <1>8, <1>10 DEF SparesAll
<1>. QED BY <1>4, <1>8, <1>9, <1>11, <1>12

(* A payout.                                                               *)
LEMMA PayoutBooks ==
  ASSUME TypeOK, NEW w \in Workers, CommitPayout(w)
  PROVE  /\ Moves({"welcome", "referrer"}) /\ SparesAll
         /\ task[w].customer \in Customers /\ task[w].locked \subseteq Customers
         /\ \A c \in task[w].locked : \E e :
              /\ Books(c, e) /\ e.of = task[w].customer
              /\ e.kind = IF c = task[w].customer THEN "welcome" ELSE "referrer"
         /\ \A c \in Customers \ task[w].locked : ledger'[c] = ledger[c]
<1> DEFINE t == task[w]
           Gain(c, life) == [kind |-> IF c = t.customer THEN "welcome" ELSE "referrer",
                             of |-> t.customer, amount |-> Bonus, after |-> points[c] + Bonus,
                             life |-> life]
<1>1. t \in Task /\ t.at = "payout"
  BY DEF TypeOK, CommitPayout
<1>2. t.customer \in Customers /\ t.locked \subseteq Customers
  BY <1>1 DEF Task
<1>3. PICK life \in {"never", "later"} :
        ledger' = [c \in Customers |-> IF c \in t.locked
                     THEN Append(ledger[c], Gain(c, life)) ELSE ledger[c]]
  <2>1. \A c, life : [[kind |-> IF c = t.customer THEN "welcome" ELSE "referrer", of |-> t.customer,
                       amount |-> Bonus, after |-> points[c] + Bonus, life |-> "never"]
                      EXCEPT !.life = life] = Gain(c, life)
    OBVIOUS
  <2>. QED BY <2>1 DEF CommitPayout
<1>4. points' = [c \in Customers |-> IF c \in t.locked THEN points[c] + Bonus ELSE points[c]]
  BY DEF CommitPayout
<1>5. /\ \A c \in Customers : points[c] \in Int /\ ledger[c] \in Seq(Entry)
      /\ Bonus \in Nat
  BY LedgersTyped, LoyaltyAssumption
<1>6. ASSUME NEW c \in t.locked
      PROVE  /\ ledger'[c] \in Seq(Entry) /\ Spares(ledger'[c], ledger[c])
             /\ \E e : /\ Books(c, e) /\ e.of = t.customer
                       /\ e.kind = IF c = t.customer THEN "welcome" ELSE "referrer"
  <2>1. PICK e : e = Gain(c, life)
    OBVIOUS
  <2>2. /\ e \in Entry /\ e.kind = IF c = t.customer THEN "welcome" ELSE "referrer"
        /\ e.of = t.customer /\ e.amount = Bonus /\ e.after = points[c] + Bonus
        /\ e.life # "expired"
    BY <2>1, <1>2, <1>3, <1>5 DEF Entry, Kinds
  <2>3. /\ c \in Customers /\ ledger'[c] = Append(ledger[c], e) /\ points'[c] = points[c] + Bonus
    BY <2>1, <1>2, <1>3, <1>4
  <2>4. /\ Grown(Append(ledger[c], e), ledger[c], e) /\ Append(ledger[c], e) \in Seq(Entry)
        /\ Spares(Append(ledger[c], e), ledger[c])
    BY <2>2, <2>3, <1>5, AppendGrows
  <2>5. Books(c, e)
    BY <2>2, <2>3, <2>4, <1>5 DEF Books
  <2>. QED BY <2>2, <2>3, <2>4, <2>5
<1>7. ASSUME NEW c \in Customers \ t.locked
      PROVE  /\ ledger'[c] = ledger[c] /\ ledger'[c] \in Seq(Entry)
             /\ Spares(ledger'[c], ledger[c]) /\ Stays(c)
  BY <1>3, <1>4, <1>5, SameKept DEF Stays
<1>8. ledger' \in [Customers -> Seq(Entry)] /\ points' \in [Customers -> Int]
  <2>1. \A c \in Customers : ledger'[c] \in Seq(Entry)
    BY <1>6, <1>7
  <2>2. ledger' = [c \in Customers |-> ledger'[c]]
    BY <1>3
  <2>. QED BY <2>1, <2>2, <1>4, <1>5
<1>9. \A c \in Customers : Stays(c) \/ \E e : Books(c, e) /\ e.kind \in {"welcome", "referrer"}
  <2>1. ASSUME NEW c \in Customers, c \in t.locked
        PROVE  \E e : Books(c, e) /\ e.kind \in {"welcome", "referrer"}
    BY <2>1, <1>6
  <2>. QED BY <2>1, <1>7
<1>10. Moves({"welcome", "referrer"})
  BY <1>8, <1>9 DEF Moves
<1>11. SparesAll
  BY <1>6, <1>7 DEF SparesAll
<1>. QED BY <1>2, <1>6, <1>7, <1>10, <1>11

(* An entry becomes due.                                                   *)
LEMMA TimeBooks ==
  ASSUME TypeOK, NEW c \in Customers, TimePasses(c)
  PROVE  /\ Moves({}) /\ SparesAll
         /\ \A d \in Customers : Kept(ledger'[d], ledger[d])
<1>1. PICK i \in DOMAIN ledger[c] :
        /\ ledger[c][i].life = "later"
        /\ ledger' = [ledger EXCEPT ![c] = [ledger[c] EXCEPT ![i] = [ledger[c][i] EXCEPT !.life = "due"]]]
  BY DEF TimePasses
<1>2. /\ \A d \in Customers : ledger[d] \in Seq(Entry)
      /\ ledger \in [Customers -> Seq(Entry)] /\ points \in [Customers -> Int]
      /\ DOMAIN ledger[c] = 1..Len(ledger[c])
  BY LedgersTyped DEF TypeOK
<1>3. PICK old : old = ledger[c]
  OBVIOUS
<1>4. PICK e : e = [old[i] EXCEPT !.life = "due"]
  OBVIOUS
<1>5. old[i] \in Entry
  BY <1>1, <1>2, <1>3, EntriesTyped
<1>6. e \in Entry /\ KeptEntry(e, old[i]) /\ e.life = "due"
  BY <1>4, <1>5 DEF Entry, KeptEntry
<1>7. PICK new : new = [old EXCEPT ![i] = e]
  OBVIOUS
<1>8. /\ new \in Seq(Entry) /\ Len(new) = Len(old)
      /\ \A j \in DOMAIN old : new[j] = IF j = i THEN e ELSE old[j]
  BY <1>1, <1>2, <1>3, <1>6, <1>7, ExceptSeq
<1>9. DOMAIN new = DOMAIN old
  BY <1>7
<1>10. Kept(new, old)
  BY <1>6, <1>8 DEF Kept, KeptEntry
<1>11. Spares(new, old)
  BY <1>1, <1>3, <1>6, <1>8, <1>9 DEF Spares
<1>12. ledger' = [ledger EXCEPT ![c] = new]
  BY <1>1, <1>3, <1>4, <1>7
<1>13. ASSUME NEW d \in Customers PROVE Kept(ledger'[d], ledger[d]) /\ Spares(ledger'[d], ledger[d])
  <2>1. CASE d = c
    BY <2>1, <1>2, <1>3, <1>10, <1>11, <1>12
  <2>2. CASE d # c
    BY <2>2, <1>2, <1>12, SameKept
  <2>. QED BY <2>1, <2>2
<1>14. ledger' \in [Customers -> Seq(Entry)]
  BY <1>2, <1>8, <1>12
<1>15. points' = points
  BY DEF TimePasses
<1>16. Moves({})
  BY <1>2, <1>13, <1>14, <1>15 DEF Moves, Stays
<1>. QED BY <1>13, <1>16 DEF SparesAll

Expired(entries) == {i \in DOMAIN entries : entries[i].life = "expired"}

(* The rows of an expiry are marked, and what they brought is taken away,  *)
(* or what is left of it.                                                  *)
LEMMA MarkedKept ==
  ASSUME NEW old \in Seq(Entry), NEW rows \in SUBSET (DOMAIN old)
  PROVE  /\ Kept(Marked(old, rows), old)
         /\ Expired(Marked(old, rows)) = Expired(old) \cup rows
<1>1. Len(old) \in Nat /\ DOMAIN old = 1..Len(old) /\ \A i \in DOMAIN old : old[i] \in Entry
  BY EntriesTyped
<1>2. PICK new : new = Marked(old, rows)
  OBVIOUS
<1>3. /\ DOMAIN new = 1..Len(old)
      /\ new = [i \in 1..Len(old) |-> new[i]]
      /\ \A i \in DOMAIN old : new[i] = IF i \in rows THEN [old[i] EXCEPT !.life = "expired"] ELSE old[i]
  BY <1>1, <1>2 DEF Marked
<1>4. \A i \in DOMAIN old : /\ new[i] \in Entry /\ KeptEntry(new[i], old[i])
                            /\ new[i].life = IF i \in rows THEN "expired" ELSE old[i].life
  <2>1. \A e \in Entry : /\ [e EXCEPT !.life = "expired"] \in Entry
                         /\ [e EXCEPT !.life = "expired"].life = "expired"
                         /\ KeptEntry([e EXCEPT !.life = "expired"], e) /\ KeptEntry(e, e)
    BY DEF Entry, KeptEntry
  <2>. QED BY <1>1, <1>3, <2>1
<1>5. new \in Seq(Entry)
  <2>1. new \in [1..Len(old) -> Entry]
    BY <1>1, <1>3, <1>4
  <2>. QED BY <2>1, <1>1, SeqDef
<1>6. Len(new) = Len(old)
  BY <1>1, <1>3, <1>5, EntriesTyped
<1>7. Expired(new) = Expired(old) \cup rows
  BY <1>1, <1>3, <1>4 DEF Expired
<1>. QED BY <1>2, <1>4, <1>5, <1>6, <1>7 DEF Kept

LEMMA ExpireBooks ==
  ASSUME Types, NEW w \in Workers, Expire(w), NEW c, c = task[w].customer,
         NEW rows, rows = task[w].rows
  PROVE  /\ c \in Customers /\ rows \subseteq Due(c) /\ Moves({"expire"})
         /\ \A d \in Customers \ {c} : ledger'[d] = ledger[d]
         /\ Expired(ledger'[c]) = Expired(ledger[c]) \cup rows
         /\ \E amount \in Int :
              /\ amount <= AmountOf(c, rows)
              /\ \/ amount = 0 /\ Kept(ledger'[c], ledger[c])
                 \/ \E e : /\ Grown(ledger'[c], ledger[c], e)
                           /\ e.kind = "expire" /\ e.of = Nothing /\ e.amount = -amount
<1>1. task[w] \in Task /\ task[w].at = "expire" /\ rows \subseteq Due(c)
  BY DEF Types, TypeOK, OneExpiry, Expire
<1>2. c \in Customers /\ rows \in SUBSET (DOMAIN ledger[c])
  BY <1>1 DEF Task, Due
<1>3. /\ \A d \in Customers : ledger[d] \in Seq(Entry) /\ points[d] \in Int
      /\ ledger \in [Customers -> Seq(Entry)] /\ points \in [Customers -> Int]
  BY LedgersTyped DEF Types, TypeOK
<1>4. PICK sum : sum = AmountOf(c, rows)
  OBVIOUS
<1>5. sum \in Int
  BY <1>2, <1>3, <1>4, RowsPriced, AmountOfIsIn
<1>6. PICK amount : amount = ToExpire(points[c], sum)
  OBVIOUS
<1>7. /\ amount \in Int /\ amount <= sum
      /\ points[c] >= 0 => points[c] - amount >= 0
  BY <1>2, <1>3, <1>5, <1>6 DEF ToExpire
<1>8. PICK mid : mid = Marked(ledger[c], rows)
  OBVIOUS
<1>9. Kept(mid, ledger[c]) /\ Expired(mid) = Expired(ledger[c]) \cup rows /\ mid \in Seq(Entry)
  BY <1>2, <1>3, <1>8, MarkedKept DEF Kept
<1>10. PICK e : e = NewEntry(c, "expire", Nothing, -amount, "never")
  OBVIOUS
<1>11. /\ e \in Entry /\ e.kind = "expire" /\ e.of = Nothing /\ e.amount = -amount
       /\ e.after = points[c] + (-amount) /\ e.life = "never"
  BY <1>2, <1>3, <1>7, <1>10 DEF NewEntry, Entry, Kinds
<1>12. /\ points' = [points EXCEPT ![c] = points[c] - amount]
       /\ ledger' = [ledger EXCEPT ![c] = IF amount = 0 THEN mid ELSE Append(mid, e)]
  BY <1>4, <1>6, <1>8, <1>10 DEF Expire
<1>13. /\ points'[c] = points[c] - amount
       /\ ledger'[c] = IF amount = 0 THEN mid ELSE Append(mid, e)
       /\ \A d \in Customers \ {c} : points'[d] = points[d] /\ ledger'[d] = ledger[d]
  BY <1>2, <1>3, <1>12
<1>14. Append(mid, e) \in Seq(Entry) /\ Grown(Append(mid, e), ledger[c], e)
  BY <1>2, <1>3, <1>9, <1>11, AppendGrows, KeptThenGrown
<1>15. Expired(Append(mid, e)) = Expired(mid)
  <2>1. DOMAIN Append(mid, e) = DOMAIN mid \cup {Len(mid) + 1} /\ Len(mid) + 1 \notin DOMAIN mid
        /\ Append(mid, e)[Len(mid) + 1] = e /\ \A i \in DOMAIN mid : Append(mid, e)[i] = mid[i]
    <3>1. Grown(Append(mid, e), mid, e)
      BY <1>9, <1>11, AppendGrows
    <3>2. \A i \in 1..Len(mid) : Append(mid, e)[i] = mid[i]
      BY <1>9, <1>11, AppendProperties
    <3>. QED BY <3>1, <3>2, <1>9, GrownRows, EntriesTyped DEF Grown
  <2>. QED BY <2>1, <1>11 DEF Expired
<1>16. Expired(ledger'[c]) = Expired(ledger[c]) \cup rows
  BY <1>9, <1>13, <1>15
<1>17. \A d \in Customers \ {c} : Stays(d)
  BY <1>3, <1>13, SameKept DEF Stays
<1>18. Stays(c) \/ Books(c, e)
  <2>1. CASE amount = 0
    BY <2>1, <1>2, <1>3, <1>9, <1>13 DEF Stays
  <2>2. CASE amount # 0
    BY <2>2, <1>2, <1>3, <1>7, <1>11, <1>13, <1>14 DEF Books
  <2>. QED BY <2>1, <2>2
<1>19. ledger' \in [Customers -> Seq(Entry)] /\ points' \in [Customers -> Int]
  BY <1>2, <1>3, <1>7, <1>9, <1>12, <1>14
<1>20. Moves({"expire"})
  BY <1>11, <1>17, <1>18, <1>19 DEF Moves
<1>21. \/ amount = 0 /\ Kept(ledger'[c], ledger[c])
       \/ Grown(ledger'[c], ledger[c], e)
  BY <1>9, <1>13, <1>14
<1>22. c \in Customers /\ rows \subseteq Due(c)
  BY <1>1, <1>2
<1>. QED BY <1>4, <1>7, <1>11, <1>13, <1>16, <1>20, <1>21, <1>22

-----------------------------------------------------------------------------
(* Every step keeps the types                                              *)

Goes(w, t) == task' = [task EXCEPT ![w] = t]

LEMMA WorkerGoes ==
  ASSUME TypeOK, NEW w \in Workers, NEW t, Goes(w, t)
  PROVE  \A v \in Workers : task'[v] = IF v = w THEN t ELSE task[v]
BY DEF TypeOK, Goes

LEMMA DueStays ==
  ASSUME TypeOK, SparesAll, NEW c \in Customers
  PROVE  Due(c) \subseteq Due(c)'
BY DEF Due, SparesAll, Spares

(* All but the workers W go on as they were.                               *)
Others(W) == \A v \in Workers \ W : task'[v] = task[v]

(* Only rows that no other cancellation holds are written.                 *)
RowsWritten(W) ==
  \A r \in Redemptions :
    \/ redemption'[r] = redemption[r]
    \/ /\ Real(redemption'[r])
       /\ \A v \in Workers \ W : task[v].at = "cancel" => task[v].id # r

LEMMA TypesFollow ==
  ASSUME Types, TypeOK', SparesAll, NEW W \in SUBSET Workers, Others(W), RowsWritten(W),
         \A w \in W : task'[w].at \notin {"expire", "cancel"},
         \A w \in W : Carries(task'[w])
  PROVE  Types'
<1>1. OneExpiry'
  <2>1. ASSUME NEW w \in Workers, task'[w].at = "expire"
        PROVE  w \notin W /\ (task[w].rows \subseteq Due(task[w].customer))'
    <3>1. w \notin W /\ task'[w] = task[w]
      BY <2>1 DEF Others
    <3>2. task[w] \in Task /\ task[w].at = "expire" /\ task[w].rows \subseteq Due(task[w].customer)
      BY <2>1, <3>1 DEF Types, TypeOK, OneExpiry
    <3>3. task[w].customer \in Customers
      BY <3>2 DEF Task
    <3>4. PICK c : c = task[w].customer
      OBVIOUS
    <3>5. Due(c) \subseteq Due(c)'
      BY <3>3, <3>4, DueStays DEF Types
    <3>6. task[w].rows \subseteq Due(c)'
      BY <3>2, <3>4, <3>5
    <3>. QED BY <3>1, <3>4, <3>6 DEF Due
  <2>2. \A v, w \in Workers : task'[v].at = "expire" /\ task'[w].at = "expire" => v = w
    BY DEF Types, OneExpiry, Others
  <2>. QED BY <2>1, <2>2 DEF OneExpiry
<1>2. Redeemed'
  <2>1. \A r \in Redemptions : Real(redemption[r])' \/ (redemption[r] = NoRow)'
    BY DEF Types, Redeemed, RowsWritten, Real, NoRow
  <2>2. \A w \in Workers : Carries(task[w])'
    BY DEF Types, Redeemed, Others, Carries, SavesOf, Real
  <2>3. ASSUME NEW w \in Workers, task'[w].at = "cancel"
        PROVE  w \notin W /\ task'[w] = task[w] /\ redemption'[task'[w].id].status = "PENDING"
    <3>1. w \notin W /\ task'[w] = task[w]
      BY <2>3 DEF Others
    <3>2. task[w] \in Task /\ task[w].at = "cancel" /\ redemption[task[w].id].status = "PENDING"
      BY <2>3, <3>1 DEF Types, TypeOK, Redeemed
    <3>3. task[w].id \in Redemptions
      BY <3>2 DEF Task
    <3>4. redemption'[task[w].id] = redemption[task[w].id]
      BY <3>1, <3>2, <3>3 DEF RowsWritten
    <3>. QED BY <3>1, <3>2, <3>4
  <2>4. \A v, w \in Workers :
          task'[v].at = "cancel" /\ task'[w].at = "cancel" /\ task'[v].id = task'[w].id => v = w
    BY <2>3 DEF Types, Redeemed
  <2>. QED BY <2>1, <2>2, <2>3, <2>4 DEF Redeemed
<1>. QED BY <1>1, <1>2 DEF Types

(* A worker goes on, and nothing else moves but what is named.             *)
LedgerTyped == points' \in [Customers -> Int] /\ ledger' \in [Customers -> Seq(Entry)] /\ SparesAll

HistoryTyped == history' \in [{"stale", "forced", "fixed", "off"} -> BOOLEAN] /\ faults' \in Nat

LEMMA TypesMove ==
  ASSUME Types, NEW w \in Workers, NEW t \in Task, Goes(w, t),
         t.at \notin {"expire", "cancel"}, Carries(t),
         LedgerTyped, redemption' \in [Redemptions -> Row], RowsWritten({w}),
         job' \in [Jobs -> {"open", "completed", "denied"}],
         referral' \in [Referrals -> {"none", "PENDING", "AWARDED"}],
         active' \in BOOLEAN, HistoryTyped
  PROVE  Types'
<1>1. task' \in [Workers -> Task]
  BY DEF Types, TypeOK, Goes
<1>2. TypeOK'
  BY <1>1 DEF TypeOK, LedgerTyped, HistoryTyped
<1>3. Others({w}) /\ task'[w] = t
  BY WorkerGoes DEF Others, Types
<1>. QED BY <1>2, <1>3, TypesFollow DEF LedgerTyped

LEMMA SameTyped ==
  ASSUME Types
  PROVE  /\ UNCHANGED <<points, ledger>> => LedgerTyped
         /\ UNCHANGED redemption => \A W : RowsWritten(W)
         /\ UNCHANGED <<history, faults>> => HistoryTyped
BY NothingMoves DEF Types, TypeOK, LedgerTyped, RowsWritten, HistoryTyped, Moves

LEMMA MovesTyped ==
  ASSUME NEW K, Moves(K), SparesAll
  PROVE  LedgerTyped
BY DEF Moves, LedgerTyped

(* What the awards write.                                                  *)
LEMMA AwardMoves ==
  ASSUME TypeOK, NEW w \in Workers, NEW c \in Customers, NEW kind \in Kinds,
         NEW of \in Redemptions \cup Customers \cup {Nothing}, NEW amount \in Nat,
         AwardIfActive(w, c, kind, of, amount)
  PROVE  /\ Moves({kind}) /\ SparesAll
         /\ active => /\ \E e : Books(c, e) /\ e.kind = kind /\ e.of = of
                      /\ \A d \in Customers \ {c} : ledger'[d] = ledger[d]
         /\ ~active => UNCHANGED <<points, ledger>>
<1>1. CASE active
  <2>1. Award(c, kind, of, amount)
    BY <1>1 DEF AwardIfActive
  <2>2. points[c] >= 0 => points[c] + amount >= 0
    BY LedgersTyped
  <2>3. amount \in Int
    OBVIOUS
  <2>4. /\ Moves({kind}) /\ SparesAll
        /\ \E e : Books(c, e) /\ e.kind = kind /\ e.of = of
        /\ \A d \in Customers \ {c} : ledger'[d] = ledger[d]
    BY <2>1, <2>2, <2>3, AwardBooks
  <2>. QED BY <1>1, <2>4
<1>2. CASE ~active
  <2>1. UNCHANGED <<points, ledger>>
    BY <1>2 DEF AwardIfActive
  <2>2. Moves({}) /\ SparesAll
    BY <2>1, NothingMoves
  <2>3. Moves({kind})
    BY <2>2, MovesMore
  <2>. QED BY <1>2, <2>1, <2>2, <2>3
<1>. QED BY <1>1, <1>2

LEMMA EarnMoves ==
  ASSUME Types, NEW w \in Workers, Earn(w)
  PROVE  /\ task[w].job \in Jobs
         /\ Goes(w, [at |-> "milestone", job |-> task[w].job])
         /\ Moves({"job"}) /\ SparesAll
<1>1. task[w] \in Task /\ task[w].at = "earn"
  BY DEF Types, TypeOK, Earn
<1>2. task[w].job \in Jobs /\ task[w] = [at |-> "earn", job |-> task[w].job]
  BY <1>1 DEF Task
<1>3. Goes(w, [at |-> "milestone", job |-> task[w].job])
  <2>1. task' = [task EXCEPT ![w] = [task[w] EXCEPT !.at = "milestone"]]
    BY DEF Earn
  <2>2. [task[w] EXCEPT !.at = "milestone"] = [at |-> "milestone", job |-> task[w].job]
    BY <1>2
  <2>. QED BY <2>1, <2>2 DEF Goes
<1>4. Moves({"job"}) /\ SparesAll
  <2>1. OwnerOf[task[w].job] \in Customers /\ PerJob \in Nat
    BY <1>2, LoyaltyAssumption
  <2>2. AwardIfActive(w, OwnerOf[task[w].job], "job", Nothing, PerJob)
    BY DEF Earn
  <2>. QED BY <2>1, <2>2, AwardMoves DEF Types, Kinds
<1>. QED BY <1>2, <1>3, <1>4

LEMMA MilestoneMoves ==
  ASSUME Types, NEW w \in Workers, EarnMilestone(w)
  PROVE  /\ task[w].job \in Jobs
         /\ Goes(w, [at |-> "refer", job |-> task[w].job])
         /\ Moves({"milestone"}) /\ SparesAll
<1>1. task[w] \in Task /\ task[w].at = "milestone"
  BY DEF Types, TypeOK, EarnMilestone
<1>2. task[w].job \in Jobs /\ task[w] = [at |-> "milestone", job |-> task[w].job]
  BY <1>1 DEF Task
<1>3. Goes(w, [at |-> "refer", job |-> task[w].job])
  <2>1. task' = [task EXCEPT ![w] = [task[w] EXCEPT !.at = "refer"]]
    BY DEF EarnMilestone
  <2>2. [task[w] EXCEPT !.at = "refer"] = [at |-> "refer", job |-> task[w].job]
    BY <1>2
  <2>. QED BY <2>1, <2>2 DEF Goes
<1>4. Moves({"milestone"}) /\ SparesAll
  <2>1. OwnerOf[task[w].job] \in Customers /\ Bonus \in Nat
    BY <1>2, LoyaltyAssumption
  <2>2. CASE AwardIfActive(w, OwnerOf[task[w].job], "milestone", Nothing, Bonus)
    BY <2>1, <2>2, AwardMoves DEF Types, Kinds
  <2>3. CASE UNCHANGED <<points, ledger>>
    BY <2>3, NothingMoves, MovesMore DEF Types
  <2>. QED BY <2>2, <2>3 DEF EarnMilestone
<1>. QED BY <1>2, <1>3, <1>4

LEMMA AdjustMoves ==
  ASSUME Types, NEW c \in Customers, NEW amount \in Int, Adjust(c, amount)
  PROVE  Moves({"adjust"}) /\ SparesAll
<1>1. Award(c, "adjust", Nothing, amount) /\ (amount < 0 => points[c] + amount >= 0)
  BY DEF Adjust
<1>2. points[c] >= 0 => points[c] + amount >= 0
  BY <1>1, LedgersTyped DEF Types
<1>. QED BY <1>1, <1>2, AwardBooks DEF Types, Kinds

LEMMA RedeemMoves ==
  ASSUME Types, NEW c \in Customers, NEW r \in Redemptions, Redeem(c, r)
  PROVE  /\ Moves({"redeem"}) /\ SparesAll
         /\ \E e : Books(c, e) /\ e.kind = "redeem" /\ e.of = r
         /\ \A d \in Customers \ {c} : ledger'[d] = ledger[d]
         /\ \E row \in Row : /\ redemption' = [redemption EXCEPT ![r] = row]
                             /\ row.customer = c /\ row.status \in {"PENDING", "FULFILLED"}
<1>1. Award(c, "redeem", r, -Cost) /\ points[c] >= Cost
  BY DEF Redeem
<1>2. -Cost \in Int /\ (points[c] >= 0 => points[c] + (-Cost) >= 0)
  BY <1>1, LedgersTyped, LoyaltyAssumption DEF Types
<1>3. \E row \in Row : /\ redemption' = [redemption EXCEPT ![r] = row]
                       /\ row.customer = c /\ row.status \in {"PENDING", "FULFILLED"}
  <2>1. PICK j \in {k \in Jobs : OwnerOf[k] = c} \cup {Nothing}, status \in {"PENDING", "FULFILLED"} :
          redemption' = [redemption EXCEPT ![r] = [status |-> status, customer |-> c, job |-> j]]
    BY DEF Redeem
  <2>2. [status |-> status, customer |-> c, job |-> j] \in Row
    BY DEF Row, RedemptionStatus
  <2>. QED BY <2>1, <2>2
<1>4. "redeem" \in Kinds /\ r \in Redemptions \cup Customers \cup {Nothing}
  BY DEF Kinds
<1>5. /\ Moves({"redeem"}) /\ SparesAll
      /\ \E e : Books(c, e) /\ e.kind = "redeem" /\ e.of = r
      /\ \A d \in Customers \ {c} : ledger'[d] = ledger[d]
  BY <1>1, <1>2, <1>4, AwardBooks DEF Types
<1>. QED BY <1>3, <1>5

(* The redemption that a cancellation holds is PENDING, and a customer's.  *)
LEMMA CancelHolds ==
  ASSUME Types, NEW w \in Workers, task[w].at = "cancel"
  PROVE  LET r == task[w].id IN
         /\ r \in Redemptions /\ redemption[r] \in Row
         /\ redemption[r].status = "PENDING" /\ redemption[r].customer \in Customers
<1>1. task[w] \in Task /\ redemption[task[w].id].status = "PENDING"
  BY DEF Types, TypeOK, Redeemed
<1>2. task[w].id \in Redemptions
  BY <1>1 DEF Task
<1>3. redemption[task[w].id] \in Row
  BY <1>2 DEF Types, TypeOK
<1>4. Real(redemption[task[w].id]) \/ redemption[task[w].id] = NoRow
  BY <1>2 DEF Types, Redeemed
<1>5. redemption[task[w].id].customer \in Customers
  BY <1>1, <1>4 DEF Real, NoRow
<1>. QED BY <1>1, <1>2, <1>3, <1>5

LEMMA CancelMoves ==
  ASSUME Types, NEW w \in Workers, CommitCancel(w),
         NEW r, r = task[w].id, NEW c, c = redemption[r].customer
  PROVE  /\ r \in Redemptions /\ c \in Customers /\ redemption[r].status = "PENDING"
         /\ Goes(w, Idle) /\ Moves({"refund"}) /\ SparesAll
         /\ active => /\ \E e : Books(c, e) /\ e.kind = "refund" /\ e.of = r
                      /\ \A d \in Customers \ {c} : ledger'[d] = ledger[d]
         /\ ~active => UNCHANGED <<points, ledger>>
         /\ active => \E row \in Row :
              /\ redemption' = [redemption EXCEPT ![r] = row]
              /\ row.status = "REJECTED" /\ row.customer = c /\ row.job = Nothing
         /\ ~active => UNCHANGED redemption
<1>1. task[w].at = "cancel" /\ AwardIfActive(w, c, "refund", r, Cost)
  BY DEF CommitCancel
<1>2. r \in Redemptions /\ redemption[r] \in Row /\ redemption[r].status = "PENDING" /\ c \in Customers
  BY <1>1, CancelHolds
<1>3. "refund" \in Kinds /\ r \in Redemptions \cup Customers \cup {Nothing} /\ Cost \in Nat
  BY <1>2, LoyaltyAssumption DEF Kinds
<1>4. /\ Moves({"refund"}) /\ SparesAll
      /\ active => /\ \E e : Books(c, e) /\ e.kind = "refund" /\ e.of = r
                   /\ \A d \in Customers \ {c} : ledger'[d] = ledger[d]
      /\ ~active => UNCHANGED <<points, ledger>>
  BY <1>1, <1>2, <1>3, AwardMoves DEF Types
<1>5. Goes(w, Idle)
  BY DEF CommitCancel, Goes
<1>6. ASSUME active
      PROVE  \E row \in Row :
               /\ redemption' = [redemption EXCEPT ![r] = row]
               /\ row.status = "REJECTED" /\ row.customer = c /\ row.job = Nothing
  <2>1. PICK row : row = [redemption[r] EXCEPT !.status = "REJECTED", !.job = Nothing]
    OBVIOUS
  <2>2. row \in Row /\ row.status = "REJECTED" /\ row.customer = c /\ row.job = Nothing
    BY <2>1, <1>2 DEF Row, RedemptionStatus
  <2>3. redemption' = [redemption EXCEPT ![r].status = "REJECTED", ![r].job = Nothing]
    BY <1>6 DEF CommitCancel
  <2>4. redemption' = [redemption EXCEPT ![r] = row]
    BY <2>1, <2>3, <1>2 DEF Types, TypeOK
  <2>. QED BY <2>2, <2>4
<1>7. ~active => redemption' = redemption
  BY DEF CommitCancel
<1>. QED BY <1>2, <1>4, <1>5, <1>6, <1>7

-----------------------------------------------------------------------------
(* Copies of redemptions                                                   *)

(* A copy of a row that exists, with the customer it had and the status it *)
(* had or a new one.                                                       *)
Copies(s) ==
  /\ s \in Saves
  /\ s.was = redemption[s.id] /\ Real(s.was)
  /\ s.now.customer = s.was.customer
  /\ s.now.status \in {s.was.status, "FULFILLED", "APPROVED"}

LEMMA RowsTyped ==
  ASSUME Types, NEW r \in Redemptions
  PROVE  /\ redemption[r] \in Row
         /\ redemption[r].status # "none" \/ redemption[r].job # Nothing => Real(redemption[r])
BY DEF Types, TypeOK, Redeemed, Real, NoRow

LEMMA CopyMade ==
  ASSUME Types, NEW r \in Redemptions, Real(redemption[r]),
         NEW now \in Row, now.customer = redemption[r].customer,
         now.status \in {redemption[r].status, "FULFILLED", "APPROVED"},
         NEW s, s = [id |-> r, was |-> redemption[r], now |-> now]
  PROVE  Copies(s) /\ s.was = redemption[r] /\ s.id = r
<1>1. redemption[r] \in Row
  BY RowsTyped
<1>2. s \in Saves
  BY <1>1 DEF Saves
<1>. QED BY <1>2 DEF Copies

LEMMA CopiesReal ==
  ASSUME NEW s, Copies(s)
  PROVE  Real(s.now) /\ s.now \in Row /\ s.id \in Redemptions
BY DEF Copies, Real, Saves

LEMMA SettleGoes ==
  ASSUME Types, NEW w \in Workers, Settle(w)
  PROVE  \E t \in Task : /\ Goes(w, t) /\ t.at \in {"earn", "save"} /\ Carries(t)
                         /\ \A s \in SavesOf(t) : Copies(s) /\ s.was.status = "PENDING"
<1>1. task[w] \in Task /\ task[w].at = "settle"
  BY DEF Types, TypeOK, Settle
<1>2. PICK j : j = task[w].job
  OBVIOUS
<1>3. j \in Jobs
  BY <1>1, <1>2 DEF Task
<1>4. PICK S : /\ \A r \in S : r \in Redemptions /\ redemption[r].status = "PENDING"
               /\ task' = [task EXCEPT ![w] = IF S = {} THEN [at |-> "earn", job |-> j]
                    ELSE [at |-> "save", saves |-> Fulfilled(S, j), after |-> "earn", job |-> j]]
  <2> DEFINE waiting == {r \in Redemptions :
                  redemption[r] = [status |-> "PENDING", customer |-> OwnerOf[j], job |-> Nothing]}
  <2>1. PICK S \in IF AppliedTo(j) # {}
                   THEN {{r \in AppliedTo(j) : redemption[r].status = "PENDING"}}
                   ELSE {{}} \cup {{r} : r \in waiting} :
             task' = [task EXCEPT ![w] = IF S = {} THEN [at |-> "earn", job |-> j]
                        ELSE [at |-> "save", saves |-> Fulfilled(S, j), after |-> "earn", job |-> j]]
    BY Zenon, <1>2 DEF Settle
  <2>2. S = {r \in AppliedTo(j) : redemption[r].status = "PENDING"} \/ S = {}
        \/ \E r \in waiting : S = {r}
    BY <2>1
  <2>3. \A r \in S : r \in Redemptions /\ redemption[r].status = "PENDING"
    BY <2>2 DEF AppliedTo
  <2>. QED BY <2>1, <2>3
<1>5. \A s \in Fulfilled(S, j) : Copies(s) /\ s.was.status = "PENDING"
  <2>1. ASSUME NEW r \in S
        PROVE  LET s == [id |-> r, was |-> redemption[r],
                         now |-> [redemption[r] EXCEPT !.status = "FULFILLED", !.job = j]]
               IN Copies(s) /\ s.was.status = "PENDING"
    <3>1. r \in Redemptions /\ redemption[r].status = "PENDING" /\ redemption[r] \in Row
          /\ Real(redemption[r])
      BY <1>4, RowsTyped
    <3>2. PICK now : now = [redemption[r] EXCEPT !.status = "FULFILLED", !.job = j]
      OBVIOUS
    <3>3. "FULFILLED" \in RedemptionStatus /\ j \in Jobs \cup {Nothing}
      BY <1>3 DEF RedemptionStatus
    <3>4. now \in Row /\ now.customer = redemption[r].customer /\ now.status = "FULFILLED"
      BY <3>1, <3>2, <3>3 DEF Row
    <3>5. PICK s : s = [id |-> r, was |-> redemption[r], now |-> now]
      OBVIOUS
    <3>6. Copies(s) /\ s.was = redemption[r]
      BY <3>1, <3>4, <3>5, CopyMade
    <3>. QED BY <3>1, <3>2, <3>5, <3>6
  <2>. QED BY <2>1 DEF Fulfilled
<1>6. PICK t : t = IF S = {} THEN [at |-> "earn", job |-> j]
                   ELSE [at |-> "save", saves |-> Fulfilled(S, j), after |-> "earn", job |-> j]
  OBVIOUS
<1>7. Fulfilled(S, j) \in SUBSET Saves
  BY <1>5 DEF Copies
<1>8. t \in Task /\ t.at \in {"earn", "save"}
  BY <1>3, <1>6, <1>7 DEF Task
<1>9. \A s \in SavesOf(t) : Copies(s) /\ s.was.status = "PENDING"
  BY <1>5, <1>6 DEF SavesOf
<1>10. Goes(w, t)
  BY <1>4, <1>6 DEF Goes
<1>11. Carries(t)
  BY <1>3, <1>6, <1>9, CopiesReal DEF Carries
<1>. QED BY <1>8, <1>9, <1>10, <1>11

LEMMA HoldGoes ==
  ASSUME Types, NEW w \in Workers, NEW r \in Redemptions, redemption[r].status # "none",
         NEW now \in Row, now.customer = redemption[r].customer,
         now.status \in {redemption[r].status, "FULFILLED"}, Hold(w, r, now)
  PROVE  \E t \in Task : /\ Goes(w, t) /\ t.at = "save" /\ Carries(t)
                         /\ \A s \in SavesOf(t) : /\ Copies(s)
                                                  /\ s.was.status = "REJECTED" => history'["forced"]
<1>1. Real(redemption[r])
  BY RowsTyped
<1>2. PICK s : s = [id |-> r, was |-> redemption[r], now |-> now]
  OBVIOUS
<1>3. Copies(s) /\ s.was = redemption[r]
  BY <1>1, <1>2, CopyMade
<1>4. PICK t : t = [at |-> "save", after |-> "idle", job |-> Nothing, saves |-> {s}]
  OBVIOUS
<1>5. t \in Task /\ t.at = "save" /\ SavesOf(t) = {s}
  BY <1>3, <1>4 DEF Task, Copies, SavesOf
<1>6. Goes(w, t)
  BY <1>2, <1>4 DEF Hold, Goes
<1>7. redemption[r].status = "REJECTED" => history'["forced"]
  BY DEF Hold, Types, TypeOK
<1>8. Carries(t)
  BY <1>3, <1>4, <1>5, CopiesReal DEF Carries
<1>. QED BY <1>3, <1>5, <1>6, <1>7, <1>8

LEMMA ApplyGoes ==
  ASSUME Types, NEW w \in Workers, NEW r \in Redemptions, NEW j \in Jobs, Apply(w, r, j)
  PROVE  \E t \in Task : /\ Goes(w, t) /\ t.at = "save" /\ Carries(t)
                         /\ \A s \in SavesOf(t) : /\ Copies(s)
                                                  /\ s.was.status = "REJECTED" => history'["forced"]
<1>1. PICK status \in {redemption[r].status, "FULFILLED"} :
        Hold(w, r, [redemption[r] EXCEPT !.job = j, !.status = status])
  BY DEF Apply
<1>2. redemption[r].status # "none" /\ redemption[r] \in Row
  BY RowsTyped DEF Apply
<1>3. status \in RedemptionStatus
  BY <1>1, <1>2 DEF Row, RedemptionStatus
<1>4. PICK now : now = [redemption[r] EXCEPT !.job = j, !.status = status]
  OBVIOUS
<1>5. now \in Row /\ now.customer = redemption[r].customer /\ now.status = status
  BY <1>2, <1>3, <1>4 DEF Row
<1>. QED BY <1>1, <1>2, <1>4, <1>5, HoldGoes

LEMMA FulfilGoes ==
  ASSUME Types, NEW w \in Workers, NEW r \in Redemptions, Fulfil(w, r)
  PROVE  \E t \in Task : /\ Goes(w, t) /\ t.at = "save" /\ Carries(t)
                         /\ \A s \in SavesOf(t) : /\ Copies(s)
                                                  /\ s.was.status = "REJECTED" => history'["forced"]
<1>1. PICK now : /\ Hold(w, r, now)
                 /\ \/ now = redemption[r]
                    \/ \E j \in Jobs \cup {redemption[r].job} :
                         now = [redemption[r] EXCEPT !.status = "FULFILLED", !.job = j]
  BY DEF Fulfil
<1>2. redemption[r].status # "none" /\ redemption[r] \in Row
  BY RowsTyped DEF Fulfil
<1>3. redemption[r].job \in Jobs \cup {Nothing} /\ "FULFILLED" \in RedemptionStatus
  BY <1>2 DEF Row, RedemptionStatus
<1>4. now \in Row /\ now.customer = redemption[r].customer
      /\ now.status \in {redemption[r].status, "FULFILLED"}
  <2>1. CASE now = redemption[r]
    BY <2>1, <1>2
  <2>2. ASSUME NEW j \in Jobs \cup {redemption[r].job},
               now = [redemption[r] EXCEPT !.status = "FULFILLED", !.job = j]
        PROVE  now \in Row /\ now.customer = redemption[r].customer /\ now.status = "FULFILLED"
    <3>1. j \in Jobs \cup {Nothing}
      BY <1>3
    <3>. QED BY <3>1, <2>2, <1>2, <1>3 DEF Row
  <2>. QED BY <1>1, <2>1, <2>2
<1>. QED BY <1>1, <1>2, <1>4, HoldGoes

LEMMA DenialGoes ==
  ASSUME Types, NEW w \in Workers, NEW j \in Jobs, OpenDenial(w, j)
  PROVE  \E t \in Task : /\ Goes(w, t) /\ t.at = "deny" /\ Carries(t)
                         /\ \A s \in SavesOf(t) : Copies(s) /\ s.was.job \in Jobs
<1> DEFINE S == {[id |-> r, was |-> redemption[r],
                  now |-> [redemption[r] EXCEPT !.status = "APPROVED", !.job = Nothing]] :
                 r \in AppliedTo(j)}
<1>1. \A s \in S : Copies(s) /\ s.was.job \in Jobs
  <2>1. ASSUME NEW r \in AppliedTo(j)
        PROVE  LET s == [id |-> r, was |-> redemption[r],
                         now |-> [redemption[r] EXCEPT !.status = "APPROVED", !.job = Nothing]]
               IN Copies(s) /\ s.was.job \in Jobs
    <3>1. r \in Redemptions /\ redemption[r].job = j /\ j # Nothing
      BY LoyaltyAssumption DEF AppliedTo
    <3>2. redemption[r] \in Row /\ Real(redemption[r])
      BY <3>1, RowsTyped
    <3>3. PICK now : now = [redemption[r] EXCEPT !.status = "APPROVED", !.job = Nothing]
      OBVIOUS
    <3>4. now \in Row /\ now.customer = redemption[r].customer /\ now.status = "APPROVED"
      BY <3>2, <3>3 DEF Row, RedemptionStatus
    <3>5. PICK s : s = [id |-> r, was |-> redemption[r], now |-> now]
      OBVIOUS
    <3>6. Copies(s) /\ s.was = redemption[r]
      BY <3>1, <3>2, <3>4, <3>5, CopyMade
    <3>. QED BY <3>1, <3>3, <3>5, <3>6
  <2>. QED BY <2>1
<1>2. PICK t : t = [at |-> "deny", job |-> j, saves |-> S]
  OBVIOUS
<1>3. Goes(w, t)
  BY <1>2 DEF OpenDenial, Goes
<1>4. S \in SUBSET Saves
  BY <1>1 DEF Copies
<1>5. t \in Task /\ t.at = "deny" /\ SavesOf(t) = S
  <2>. HIDE DEF S
  <2>. QED BY <1>2, <1>4 DEF Task, SavesOf
<1>6. Carries(t)
  BY <1>1, <1>5, CopiesReal DEF Carries
<1>. QED BY <1>1, <1>3, <1>5, <1>6

(* One copy is written back.                                               *)
LEMMA SaveGoes ==
  ASSUME Types, NEW w \in Workers, Save(w)
  PROVE  \E t \in Task, s \in SavesOf(task[w]) :
           /\ Goes(w, t) /\ t.at \in {"idle", "earn", "save"} /\ Carries(t)
           /\ SavesOf(t) \subseteq SavesOf(task[w])
           /\ s \in Saves /\ RedemptionFree(s.id)
           /\ redemption' = [redemption EXCEPT ![s.id] = s.now]
           /\ redemption[s.id] # s.was => history'["stale"]
<1>1. task[w] \in Task /\ task[w].at = "save" /\ Carries(task[w])
  BY DEF Types, TypeOK, Redeemed, Save
<1>2. PICK S, after, j : task[w] = [at |-> "save", saves |-> S, after |-> after, job |-> j]
  BY <1>1 DEF Task
<1>3. /\ S \in SUBSET Saves /\ after \in {"idle", "earn"} /\ j \in Jobs \cup {Nothing}
      /\ SavesOf(task[w]) = S /\ (after = "earn" => j \in Jobs)
  BY <1>1, <1>2 DEF Task, SavesOf, Carries
<1>4. PICK s \in task[w].saves :
        /\ RedemptionFree(s.id)
        /\ redemption' = [redemption EXCEPT ![s.id] = s.now]
        /\ history' = [history EXCEPT !["stale"] = @ \/ redemption[s.id] # s.was]
        /\ task' = [task EXCEPT ![w] =
                        IF task[w].saves # {s} THEN [task[w] EXCEPT !.saves = @ \ {s}]
                        ELSE IF task[w].after = "idle" THEN Idle ELSE [at |-> "earn", job |-> task[w].job]]
  BY Zenon DEF Save
<1>5. PICK t : t = IF S # {s} THEN [at |-> "save", saves |-> S \ {s}, after |-> after, job |-> j]
                   ELSE IF after = "idle" THEN Idle ELSE [at |-> "earn", job |-> j]
  OBVIOUS
<1>6. s \in S /\ Goes(w, t)
  <2>1. task[w].saves = S /\ task[w].after = after /\ task[w].job = j
    BY <1>2
  <2>2. [task[w] EXCEPT !.saves = @ \ {s}] = [at |-> "save", saves |-> S \ {s}, after |-> after, job |-> j]
    BY <1>2
  <2>. QED BY <2>1, <2>2, <1>4, <1>5 DEF Goes
<1>7. t \in Task /\ t.at \in {"idle", "earn", "save"} /\ SavesOf(t) \subseteq S
  BY <1>3, <1>5, IdleTask DEF Task, Idle, SavesOf
<1>8. Carries(t)
  BY <1>1, <1>3, <1>5, <1>7 DEF Carries, SavesOf, Idle
<1>9. redemption[s.id] # s.was => history'["stale"]
  BY <1>4 DEF Types, TypeOK
<1>10. s \in SavesOf(task[w]) /\ SavesOf(t) \subseteq SavesOf(task[w]) /\ s \in Saves
  BY <1>3, <1>6, <1>7
<1>. QED BY <1>4, <1>6, <1>7, <1>8, <1>9, <1>10

(* All copies are written at once.                                         *)
LEMMA DenialCommits ==
  ASSUME Types, NEW w \in Workers, CommitDenial(w)
  PROVE  /\ Goes(w, Idle) /\ task[w].at = "deny" /\ task[w].job \in Jobs
         /\ SavesOf(task[w]) \subseteq Saves
         /\ redemption' \in [Redemptions -> Row]
         /\ \A r \in Redemptions :
              \/ redemption'[r] = redemption[r]
              \/ \E s \in SavesOf(task[w]) :
                   /\ s.id = r /\ RedemptionFree(r) /\ redemption'[r] = s.now
                   /\ redemption[r] # s.was => history'["stale"]
<1>1. task[w] \in Task /\ task[w].at = "deny"
  BY DEF Types, TypeOK, CommitDenial
<1>2. PICK S : S = task[w].saves
  OBVIOUS
<1>3. S \in SUBSET Saves /\ SavesOf(task[w]) = S /\ task[w].job \in Jobs
  BY <1>1, <1>2 DEF Task, SavesOf
<1>4. /\ \A s \in S : RedemptionFree(s.id)
      /\ redemption' = [r \in Redemptions |->
                          IF \E s \in S : s.id = r
                          THEN (CHOOSE s \in S : s.id = r).now ELSE redemption[r]]
      /\ (\E s \in S : redemption[s.id] # s.was) => history'["stale"]
  BY <1>2 DEF CommitDenial, Types, TypeOK
<1>5. ASSUME NEW r \in Redemptions
      PROVE  /\ redemption'[r] \in Row
             /\ \/ redemption'[r] = redemption[r]
                \/ \E s \in S :
                     /\ s.id = r /\ RedemptionFree(r) /\ redemption'[r] = s.now
                     /\ redemption[r] # s.was => history'["stale"]
  <2>1. CASE \E s \in S : s.id = r
    <3>1. PICK s \in S : s = CHOOSE x \in S : x.id = r
      BY <2>1
    <3>2. s.id = r /\ redemption'[r] = s.now
      BY <2>1, <3>1, <1>4
    <3>. QED BY <3>2, <1>3, <1>4 DEF Saves
  <2>2. CASE ~\E s \in S : s.id = r
    BY <2>2, <1>4, RowsTyped
  <2>. QED BY <2>1, <2>2
<1>6. redemption' \in [Redemptions -> Row]
  BY <1>4, <1>5
<1>7. Goes(w, Idle)
  BY DEF CommitDenial, Goes
<1>. QED BY <1>1, <1>3, <1>5, <1>6, <1>7

-----------------------------------------------------------------------------
(* Payouts                                                                 *)

LEMMA PayoutTyped ==
  ASSUME Types, NEW w \in Workers, task[w].at = "payout"
  PROVE  /\ task[w] = [at |-> "payout", customer |-> task[w].customer, due |-> task[w].due,
                       asked |-> task[w].asked, locked |-> task[w].locked]
         /\ task[w].customer \in Customers /\ task[w].due \in SUBSET Referrals
         /\ task[w].asked \in SUBSET Customers /\ task[w].locked \in SUBSET Customers
         /\ Turn(task[w]) \subseteq ToPay(task[w].customer, task[w].due)
         /\ ToPay(task[w].customer, task[w].due) \subseteq Customers
<1>1. task[w] \in Task
  BY DEF Types, TypeOK
<1>2. /\ task[w] = [at |-> "payout", customer |-> task[w].customer, due |-> task[w].due,
                    asked |-> task[w].asked, locked |-> task[w].locked]
      /\ task[w].customer \in Customers /\ task[w].due \in SUBSET Referrals
      /\ task[w].asked \in SUBSET Customers /\ task[w].locked \in SUBSET Customers
  BY <1>1 DEF Task
<1>3. ToPay(task[w].customer, task[w].due) \subseteq Customers
  BY <1>2 DEF ToPay, Referrals
<1>4. Turn(task[w]) \subseteq ToPay(task[w].customer, task[w].due)
  BY DEF Turn
<1>. QED BY <1>2, <1>3, <1>4

LEMMA OpenPayoutGoes ==
  ASSUME Types, NEW w \in Workers, OpenPayout(w)
  PROVE  \/ Goes(w, Idle)
         \/ \E c \in Customers, due \in SUBSET Referrals, t \in Task :
              /\ Goes(w, t)
              /\ t = [at |-> "payout", customer |-> c, due |-> due, asked |-> {}, locked |-> {}]
              /\ due # {} /\ \A p \in due : p[2] = c /\ referral[p] = "PENDING"
              /\ MayPay(c)
<1>1. task[w] \in Task /\ task[w].at = "refer"
  BY DEF Types, TypeOK, OpenPayout
<1>2. PICK c : c = OwnerOf[task[w].job]
  OBVIOUS
<1>3. c \in Customers
  BY <1>1, <1>2, LoyaltyAssumption DEF Task
<1>4. PICK due : due = {p \in Referrals : p[2] = c /\ referral[p] = "PENDING"}
  OBVIOUS
<1>5. MayPay(c) /\ task' = [task EXCEPT ![w] = IF due = {} THEN Idle
                     ELSE [at |-> "payout", customer |-> c, due |-> due, asked |-> {}, locked |-> {}]]
  BY <1>2, <1>4 DEF OpenPayout
<1>6. CASE due = {}
  BY <1>5, <1>6 DEF Goes
<1>7. CASE due # {}
  <2>1. PICK t : t = [at |-> "payout", customer |-> c, due |-> due, asked |-> {}, locked |-> {}]
    OBVIOUS
  <2>2. due \in SUBSET Referrals /\ \A p \in due : p[2] = c /\ referral[p] = "PENDING"
    BY <1>4
  <2>3. t \in Task
    BY <2>1, <2>2, <1>3 DEF Task
  <2>4. Goes(w, t)
    BY <1>5, <1>7, <2>1 DEF Goes
  <2>. QED BY <1>3, <1>5, <1>7, <2>1, <2>2, <2>3, <2>4
<1>. QED BY <1>6, <1>7

LEMMA LockGoes ==
  ASSUME Types, NEW w \in Workers, LockReward(w)
  PROVE  /\ task[w].at = "payout"
         /\ \E c \in Turn(task[w]), t \in Task :
              /\ Goes(w, t)
              /\ t = [at |-> "payout", customer |-> task[w].customer, due |-> task[w].due,
                      asked |-> task[w].asked \cup {c},
                      locked |-> IF active THEN task[w].locked \cup {c} ELSE task[w].locked]
<1>1. task[w].at = "payout"
  BY DEF LockReward
<1>2. PICK c \in Turn(task[w]) :
        task' = [task EXCEPT ![w].asked = @ \cup {c},
                             ![w].locked = IF active THEN @ \cup {c} ELSE @]
  BY DEF LockReward
<1>3. PICK t : t = [at |-> "payout", customer |-> task[w].customer, due |-> task[w].due,
                    asked |-> task[w].asked \cup {c},
                    locked |-> IF active THEN task[w].locked \cup {c} ELSE task[w].locked]
  OBVIOUS
<1>4. c \in Customers
  BY <1>1, <1>2, PayoutTyped
<1>5. t \in Task
  BY <1>1, <1>3, <1>4, PayoutTyped DEF Task
<1>6. Goes(w, t)
  <2>1. [task[w] EXCEPT !.asked = @ \cup {c}, !.locked = IF active THEN @ \cup {c} ELSE @] = t
    <3>1. PICK a, b, d, e : /\ a = task[w].customer /\ b = task[w].due
                            /\ d = task[w].asked /\ e = task[w].locked
      OBVIOUS
    <3>2. task[w] = [at |-> "payout", customer |-> a, due |-> b, asked |-> d, locked |-> e]
      BY <1>1, <3>1, PayoutTyped
    <3>3. PICK u : u = [task[w] EXCEPT !.asked = @ \cup {c}]
      OBVIOUS
    <3>4. u = [at |-> "payout", customer |-> a, due |-> b, asked |-> d \cup {c}, locked |-> e]
      BY <3>2, <3>3
    <3>5. [u EXCEPT !.locked = IF active THEN e \cup {c} ELSE e] = t
      BY <1>3, <3>1, <3>4
    <3>. QED BY <3>1, <3>3, <3>5
  <2>2. task' = [task EXCEPT ![w] = [task[w] EXCEPT !.asked = @ \cup {c},
                                       !.locked = IF active THEN @ \cup {c} ELSE @]]
    BY <1>2 DEF Types, TypeOK
  <2>. QED BY <2>1, <2>2 DEF Goes
<1>. QED BY <1>1, <1>2, <1>3, <1>5, <1>6

-----------------------------------------------------------------------------
(* The types, step by step                                                 *)

(* What TypeOK says of the variables that a request seldom writes.         *)
JobTyped == job' \in [Jobs -> {"open", "completed", "denied"}]
ReferralTyped == referral' \in [Referrals -> {"none", "PENDING", "AWARDED"}]
Rest == JobTyped /\ ReferralTyped /\ active' \in BOOLEAN /\ HistoryTyped

(* A worker goes on and keeps no row from anybody.                         *)
LEMMA TypesGo ==
  ASSUME Types, NEW w \in Workers, NEW t \in Task, Goes(w, t),
         t.at \notin {"expire", "cancel"}, Carries(t),
         LedgerTyped, UNCHANGED redemption, Rest
  PROVE  Types'
<1>1. redemption' \in [Redemptions -> Row] /\ RowsWritten({w})
  BY SameTyped DEF Types, TypeOK
<1>. QED BY <1>1, TypesMove DEF Rest, JobTyped, ReferralTyped

LEMMA RestStays ==
  ASSUME Types
  PROVE  /\ UNCHANGED <<job, referral, active, history, faults>> => Rest
         /\ UNCHANGED job => JobTyped
         /\ UNCHANGED referral => ReferralTyped
         /\ UNCHANGED active => active' \in BOOLEAN
BY SameTyped DEF Types, TypeOK, Rest, JobTyped, ReferralTyped

LEMMA IdleCarries == Carries(Idle) /\ Idle \in Task /\ Idle.at = "idle"
BY IdleTask DEF Carries, SavesOf, Idle

(* A task that carries no copy.                                            *)
LEMMA PlainCarries ==
  ASSUME NEW t, t.at \notin {"save", "deny"}
  PROVE  Carries(t) /\ SavesOf(t) = {}
BY DEF Carries, SavesOf

LEMMA RequestTypes ==
  ASSUME Types, NEW w \in Workers, Request(w)
  PROVE  Types'
<1>0. TypeOK
  BY DEF Types
<1>1. ASSUME NEW j \in Jobs, CompleteJob(w, j) PROVE Types'
  <2>1. PICK t : t = [at |-> "settle", job |-> j]
    OBVIOUS
  <2>2. t \in Task /\ t.at = "settle" /\ Carries(t) /\ Goes(w, t)
    BY <1>1, <2>1, PlainCarries DEF Task, CompleteJob, Goes
  <2>3. LedgerTyped /\ UNCHANGED redemption /\ Rest
    <3>1. UNCHANGED <<points, ledger>> /\ UNCHANGED redemption /\ UNCHANGED referral
          /\ UNCHANGED active /\ UNCHANGED <<history, faults>>
      BY <1>1 DEF CompleteJob
    <3>2. JobTyped
      BY <1>0, <1>1 DEF TypeOK, CompleteJob, JobTyped
    <3>. QED BY <3>1, <3>2, SameTyped, RestStays DEF Rest
  <2>. QED BY <2>2, <2>3, TypesGo
<1>2. ASSUME NEW j \in Jobs, OpenDenial(w, j) PROVE Types'
  <2>1. PICK t \in Task : Goes(w, t) /\ t.at = "deny" /\ Carries(t)
    BY <1>2, DenialGoes
  <2>2. LedgerTyped /\ UNCHANGED redemption /\ Rest
    BY <1>2, SameTyped, RestStays DEF OpenDenial
  <2>. QED BY <2>1, <2>2, TypesGo
<1>3. ASSUME NEW r \in Redemptions, NEW now, Hold(w, r, now),
             \E t \in Task : Goes(w, t) /\ t.at = "save" /\ Carries(t)
      PROVE  Types'
  <2>1. PICK t \in Task : Goes(w, t) /\ t.at = "save" /\ Carries(t)
    BY <1>3
  <2>2. LedgerTyped /\ UNCHANGED redemption /\ Rest
    <3>1. UNCHANGED <<points, ledger>> /\ UNCHANGED redemption /\ UNCHANGED job
          /\ UNCHANGED referral /\ UNCHANGED active
      BY <1>3 DEF Hold
    <3>2. HistoryTyped
      BY <1>0, <1>3 DEF TypeOK, Hold, HistoryTyped
    <3>. QED BY <3>1, <3>2, SameTyped, RestStays DEF Rest
  <2>. QED BY <2>1, <2>2, TypesGo
<1>4. ASSUME NEW r \in Redemptions, NEW j \in Jobs, Apply(w, r, j) PROVE Types'
  BY <1>3, <1>4, ApplyGoes DEF Apply
<1>5. ASSUME NEW r \in Redemptions, Fulfil(w, r) PROVE Types'
  BY <1>3, <1>5, FulfilGoes DEF Fulfil
<1>6. ASSUME NEW r \in Redemptions, OpenCancel(w, r) PROVE Types'
  <2>1. PICK t : t = [at |-> "cancel", id |-> r]
    OBVIOUS
  <2>2. t \in Task /\ t.at = "cancel" /\ t.id = r /\ Goes(w, t)
    BY <1>6, <2>1 DEF Task, OpenCancel, Goes
  <2>3. \A v \in Workers : task'[v] = IF v = w THEN t ELSE task[v]
    BY <2>2, <1>0, WorkerGoes
  <2>4. UNCHANGED <<points, ledger, redemption, job, referral, active, history, faults>>
    BY <1>6 DEF OpenCancel
  <2>5. TypeOK'
    BY <1>0, <2>2, <2>4 DEF TypeOK, Goes
  <2>6. OneExpiry'
    BY <2>2, <2>3, <2>4 DEF Types, OneExpiry, Due
  <2>7. Redeemed'
    <3>1. redemption[r].status = "PENDING" /\ \A v \in Workers : task[v].at = "cancel" => task[v].id # r
      BY <1>6 DEF OpenCancel, Cancellable, RedemptionFree
    <3>2. (\A x \in Redemptions : Real(redemption[x]) \/ redemption[x] = NoRow)'
      BY <2>4 DEF Types, Redeemed, Real
    <3>3. \A v \in Workers : Carries(task'[v])
      BY <2>2, <2>3, PlainCarries DEF Types, Redeemed
    <3>4. (\A v \in Workers : Carries(task[v]))'
      BY <3>3 DEF Carries, SavesOf, Real
    <3>5. (\A v \in Workers : task[v].at = "cancel" => redemption[task[v].id].status = "PENDING")'
      BY <2>2, <2>3, <2>4, <3>1 DEF Types, Redeemed
    <3>6. \A u, v \in Workers :
            task'[u].at = "cancel" /\ task'[v].at = "cancel" /\ task'[u].id = task'[v].id => u = v
      BY <2>2, <2>3, <3>1 DEF Types, Redeemed
    <3>. QED BY <3>2, <3>4, <3>5, <3>6 DEF Redeemed
  <2>. QED BY <2>5, <2>6, <2>7 DEF Types
<1>7. ASSUME NEW c \in Customers, OpenExpiry(w, c) PROVE Types'
  <2>1. PICK t : t = [at |-> "expire", customer |-> c, rows |-> Due(c)]
    OBVIOUS
  <2>2. Due(c) \in SUBSET (Nat \ {0})
    BY <1>0, LedgersTyped DEF Due
  <2>3. t \in Task /\ t.at = "expire" /\ t.customer = c /\ t.rows = Due(c) /\ Goes(w, t)
    BY <1>7, <2>1, <2>2 DEF Task, OpenExpiry, Goes
  <2>4. \A v \in Workers : task'[v] = IF v = w THEN t ELSE task[v]
    BY <2>3, <1>0, WorkerGoes
  <2>5. UNCHANGED <<points, ledger, redemption, job, referral, active, history, faults>>
    BY <1>7 DEF OpenExpiry
  <2>6. TypeOK'
    BY <1>0, <2>3, <2>5 DEF TypeOK, Goes
  <2>7. OneExpiry'
    <3>1. \A v \in Workers : task[v].at # "expire"
      BY <1>7 DEF OpenExpiry
    <3>. QED BY <2>3, <2>4, <2>5, <3>1 DEF OneExpiry, Due
  <2>8. Redeemed'
    <3>2. (\A x \in Redemptions : Real(redemption[x]) \/ redemption[x] = NoRow)'
      BY <2>5 DEF Types, Redeemed, Real
    <3>3. \A v \in Workers : Carries(task'[v])
      BY <2>3, <2>4, PlainCarries DEF Types, Redeemed
    <3>4. (\A v \in Workers : Carries(task[v]))'
      BY <3>3 DEF Carries, SavesOf, Real
    <3>5. (\A v \in Workers : task[v].at = "cancel" => redemption[task[v].id].status = "PENDING")'
      BY <2>3, <2>4, <2>5 DEF Types, Redeemed
    <3>6. \A u, v \in Workers :
            task'[u].at = "cancel" /\ task'[v].at = "cancel" /\ task'[u].id = task'[v].id => u = v
      BY <2>3, <2>4 DEF Types, Redeemed
    <3>. QED BY <3>2, <3>4, <3>5, <3>6 DEF Redeemed
  <2>. QED BY <2>6, <2>7, <2>8 DEF Types
<1>8. ASSUME NEW c \in Customers, OpenFix(w, c) PROVE Types'
  <2>1. PICK t : t = [at |-> "fix", customer |-> c, sum |-> AmountOf(c, DOMAIN ledger[c])]
    OBVIOUS
  <2>2. AmountOf(c, DOMAIN ledger[c]) \in Int
    BY <1>0, LedgersTyped, RowsPriced, AmountOfIsIn
  <2>3. t \in Task /\ t.at = "fix" /\ Goes(w, t)
    BY <1>8, <2>1, <2>2 DEF Task, OpenFix, Goes
  <2>4. LedgerTyped /\ UNCHANGED redemption /\ Rest
    BY <1>8, SameTyped, RestStays DEF OpenFix
  <2>. QED BY <2>3, <2>4, PlainCarries, TypesGo
<1>. QED BY <1>1, <1>2, <1>4, <1>5, <1>6, <1>7, <1>8 DEF Request

(* An expiry ends: there was no other.                                     *)
LEMMA ExpireTypes ==
  ASSUME Types, NEW w \in Workers, Expire(w)
  PROVE  Types'
<1>1. TypeOK /\ Goes(w, Idle) /\ task[w].at = "expire"
      /\ UNCHANGED <<redemption, job, referral, active, history, faults>>
  BY DEF Types, Expire, Goes
<1>2. Moves({"expire"})
  BY ExpireBooks
<1>3. \A v \in Workers : task'[v] = IF v = w THEN Idle ELSE task[v]
  BY <1>1, WorkerGoes
<1>4. TypeOK'
  BY <1>1, <1>2, IdleTask DEF TypeOK, Goes, Moves
<1>5. \A v \in Workers : task'[v].at # "expire"
  BY <1>1, <1>3, IdleCarries DEF Types, OneExpiry
<1>6. OneExpiry'
  BY <1>5 DEF OneExpiry
<1>7. Redeemed'
  <2>1. (\A x \in Redemptions : Real(redemption[x]) \/ redemption[x] = NoRow)'
    BY <1>1 DEF Types, Redeemed, Real
  <2>2. \A v \in Workers : Carries(task'[v])
    BY <1>3, IdleCarries DEF Types, Redeemed
  <2>3. (\A v \in Workers : Carries(task[v]))'
    BY <2>2 DEF Carries, SavesOf, Real
  <2>4. (\A v \in Workers : task[v].at = "cancel" => redemption[task[v].id].status = "PENDING")'
    BY <1>1, <1>3, IdleCarries DEF Types, Redeemed
  <2>5. \A u, v \in Workers :
          task'[u].at = "cancel" /\ task'[v].at = "cancel" /\ task'[u].id = task'[v].id => u = v
    BY <1>3, IdleCarries DEF Types, Redeemed
  <2>. QED BY <2>1, <2>3, <2>4, <2>5 DEF Redeemed
<1>. QED BY <1>4, <1>6, <1>7 DEF Types

LEMMA ProceedTypes ==
  ASSUME Types, NEW w \in Workers, Proceed(w)
  PROVE  Types'
<1>0. TypeOK
  BY DEF Types
<1>1. ASSUME Settle(w) PROVE Types'
  <2>1. PICK t \in Task : Goes(w, t) /\ t.at \in {"earn", "save"} /\ Carries(t)
    BY <1>1, SettleGoes
  <2>2. LedgerTyped /\ UNCHANGED redemption /\ Rest
    BY <1>1, SameTyped, RestStays DEF Settle
  <2>. QED BY <2>1, <2>2, TypesGo
<1>2. ASSUME Earn(w) PROVE Types'
  <2>1. PICK t : t = [at |-> "milestone", job |-> task[w].job]
    OBVIOUS
  <2>2. t \in Task /\ t.at = "milestone" /\ Goes(w, t) /\ LedgerTyped
    BY <1>2, <2>1, EarnMoves, MovesTyped DEF Task
  <2>3. UNCHANGED redemption /\ Rest
    BY <1>2, RestStays DEF Earn
  <2>. QED BY <2>2, <2>3, PlainCarries, TypesGo
<1>3. ASSUME EarnMilestone(w) PROVE Types'
  <2>1. PICK t : t = [at |-> "refer", job |-> task[w].job]
    OBVIOUS
  <2>2. t \in Task /\ t.at = "refer" /\ Goes(w, t) /\ LedgerTyped
    BY <1>3, <2>1, MilestoneMoves, MovesTyped DEF Task
  <2>3. UNCHANGED redemption /\ Rest
    BY <1>3, RestStays DEF EarnMilestone
  <2>. QED BY <2>2, <2>3, PlainCarries, TypesGo
<1>4. ASSUME OpenPayout(w) PROVE Types'
  <2>1. PICK t \in Task : Goes(w, t) /\ t.at \in {"idle", "payout"}
    BY <1>4, OpenPayoutGoes, IdleCarries
  <2>2. LedgerTyped /\ UNCHANGED redemption /\ Rest
    BY <1>4, SameTyped, RestStays DEF OpenPayout
  <2>. QED BY <2>1, <2>2, PlainCarries, TypesGo
<1>5. ASSUME LockReward(w) PROVE Types'
  <2>1. PICK t \in Task : Goes(w, t) /\ t.at = "payout"
    BY <1>5, LockGoes
  <2>2. LedgerTyped /\ UNCHANGED redemption /\ Rest
    BY <1>5, SameTyped, RestStays DEF LockReward
  <2>. QED BY <2>1, <2>2, PlainCarries, TypesGo
<1>6. ASSUME CommitPayout(w) PROVE Types'
  <2>1. LedgerTyped
    BY <1>0, <1>6, PayoutBooks, MovesTyped
  <2>2. ReferralTyped
    BY <1>0, <1>6 DEF TypeOK, CommitPayout, ReferralTyped
  <2>3. Goes(w, Idle) /\ UNCHANGED redemption /\ Rest
    BY <1>6, <2>2, SameTyped, RestStays DEF CommitPayout, Goes, Rest
  <2>. QED BY <2>1, <2>3, IdleCarries, TypesGo
<1>7. ASSUME Save(w) PROVE Types'
  <2>1. PICK t \in Task, s \in SavesOf(task[w]) :
          /\ Goes(w, t) /\ t.at \in {"idle", "earn", "save"} /\ Carries(t)
          /\ s \in Saves /\ RedemptionFree(s.id)
          /\ redemption' = [redemption EXCEPT ![s.id] = s.now]
    BY <1>7, SaveGoes
  <2>2. Real(s.now)
    BY <2>1 DEF Types, Redeemed, Carries
  <2>3. s.id \in Redemptions /\ s.now \in Row
    BY <2>1 DEF Saves
  <2>4. redemption' \in [Redemptions -> Row] /\ RowsWritten({w})
    BY <1>0, <2>1, <2>2, <2>3 DEF TypeOK, RowsWritten, RedemptionFree
  <2>5. HistoryTyped
    BY <1>0, <1>7 DEF TypeOK, Save, HistoryTyped
  <2>6. LedgerTyped /\ JobTyped /\ ReferralTyped /\ active' \in BOOLEAN
    BY <1>7, SameTyped, RestStays DEF Save
  <2>. QED BY <2>1, <2>4, <2>5, <2>6, TypesMove DEF JobTyped, ReferralTyped
<1>8. ASSUME CommitDenial(w) PROVE Types'
  <2>1. /\ Goes(w, Idle) /\ task[w].job \in Jobs /\ redemption' \in [Redemptions -> Row]
        /\ \A r \in Redemptions :
             \/ redemption'[r] = redemption[r]
             \/ \E s \in SavesOf(task[w]) : RedemptionFree(r) /\ redemption'[r] = s.now
    BY <1>8, DenialCommits
  <2>2. RowsWritten({w})
    BY <2>1 DEF RowsWritten, RedemptionFree, Types, Redeemed, Carries
  <2>3. HistoryTyped /\ JobTyped
    BY <1>0, <1>8, <2>1 DEF TypeOK, CommitDenial, HistoryTyped, JobTyped
  <2>4. LedgerTyped /\ ReferralTyped /\ active' \in BOOLEAN
    BY <1>8, SameTyped, RestStays DEF CommitDenial
  <2>. QED BY <2>1, <2>2, <2>3, <2>4, IdleCarries, TypesMove DEF JobTyped, ReferralTyped
<1>9. ASSUME CommitCancel(w) PROVE Types'
  <2>1. PICK r : r = task[w].id
    OBVIOUS
  <2>2. /\ r \in Redemptions /\ redemption[r].customer \in Customers /\ Goes(w, Idle) /\ LedgerTyped
        /\ active => \E row \in Row : /\ redemption' = [redemption EXCEPT ![r] = row]
                                      /\ row.status = "REJECTED"
                                      /\ row.customer = redemption[r].customer
        /\ ~active => UNCHANGED redemption
    BY <1>9, <2>1, CancelMoves, MovesTyped
  <2>3. \A v \in Workers \ {w} : task[v].at = "cancel" => task[v].id # r
    BY <1>9, <2>1 DEF Types, Redeemed, CommitCancel
  <2>4. redemption' \in [Redemptions -> Row] /\ RowsWritten({w})
    <3>1. CASE active
      <4>1. PICK row \in Row : /\ redemption' = [redemption EXCEPT ![r] = row]
                               /\ row.status = "REJECTED" /\ row.customer = redemption[r].customer
        BY <2>2, <3>1
      <4>. QED BY <1>0, <2>2, <2>3, <4>1 DEF TypeOK, RowsWritten, Real
    <3>2. CASE ~active
      BY <1>0, <2>2, <3>2, SameTyped DEF TypeOK
    <3>. QED BY <3>1, <3>2
  <2>5. Rest
    BY <1>9, RestStays DEF CommitCancel
  <2>. QED BY <2>2, <2>4, <2>5, IdleCarries, TypesMove DEF Rest, JobTyped, ReferralTyped
<1>10. ASSUME Fix(w) PROVE Types'
  <2>1. task[w] \in Task /\ task[w].at = "fix"
    BY <1>0, <1>10 DEF TypeOK, Fix
  <2>2. task[w].customer \in Customers /\ task[w].sum \in Int
    BY <2>1 DEF Task
  <2>3. UNCHANGED ledger /\ points' = [points EXCEPT ![task[w].customer] = task[w].sum]
    BY <1>10 DEF Fix
  <2>4. LedgerTyped
    <3>1. SparesAll
      BY <1>0, <2>3, LedgersTyped, SameKept DEF SparesAll
    <3>. QED BY <3>1, <1>0, <2>2, <2>3 DEF TypeOK, LedgerTyped
  <2>5. HistoryTyped
    BY <1>0, <1>10 DEF TypeOK, Fix, HistoryTyped
  <2>6. Goes(w, Idle) /\ UNCHANGED redemption /\ Rest
    BY <1>10, <2>5, RestStays DEF Fix, Goes, Rest
  <2>. QED BY <2>4, <2>6, IdleCarries, TypesGo
<1>11. ASSUME Expire(w) PROVE Types'
  BY <1>11, ExpireTypes
<1>. QED BY <1>1, <1>2, <1>3, <1>4, <1>5, <1>6, <1>7, <1>8, <1>9, <1>10, <1>11 DEF Proceed

LEMMA BreakTypes ==
  ASSUME Types, NEW w \in Workers, Crash(w) \/ \E v \in Workers : BreakDeadlock(w, v)
  PROVE  Types'
<1>1. /\ UNCHANGED <<points, ledger>> /\ UNCHANGED redemption /\ UNCHANGED job
      /\ UNCHANGED referral /\ UNCHANGED active /\ Goes(w, Idle)
  BY DEF Crash, BreakDeadlock, Goes
<1>2. HistoryTyped
  BY DEF Types, TypeOK, Crash, BreakDeadlock, HistoryTyped
<1>. QED BY <1>1, <1>2, SameTyped, RestStays, IdleCarries, TypesGo DEF Rest

(* The steps that no worker takes a request for.                           *)
LEMMA OutsideTypes ==
  ASSUME Types,
         \/ \E p \in Referrals : RecordReferral(p)
         \/ \E c \in Customers : \/ TimePasses(c)
                                 \/ \E r \in Redemptions : Redeem(c, r)
                                 \/ \E amount \in {-1, 1} : Adjust(c, amount)
         \/ SwitchProgram
  PROVE  Types'
<1>0. TypeOK /\ ({} \in SUBSET Workers)
  BY DEF Types
<1>1. ASSUME UNCHANGED task, UNCHANGED redemption, LedgerTyped, Rest PROVE Types'
  <2>1. TypeOK'
    BY <1>0, <1>1 DEF TypeOK, LedgerTyped, Rest, JobTyped, ReferralTyped, HistoryTyped
  <2>2. Others({}) /\ RowsWritten({})
    BY <1>1, SameTyped DEF Others
  <2>. QED BY <1>0, <1>1, <2>1, <2>2, TypesFollow DEF LedgerTyped
<1>2. ASSUME NEW p \in Referrals, RecordReferral(p) PROVE Types'
  <2>1. ReferralTyped
    BY <1>0, <1>2 DEF TypeOK, RecordReferral, ReferralTyped
  <2>. QED BY <2>1, <1>1, <1>2, SameTyped, RestStays DEF RecordReferral, Rest
<1>3. ASSUME SwitchProgram PROVE Types'
  <2>1. HistoryTyped /\ active' \in BOOLEAN
    BY <1>0, <1>3 DEF TypeOK, SwitchProgram, HistoryTyped
  <2>. QED BY <2>1, <1>1, <1>3, SameTyped, RestStays DEF SwitchProgram, Rest
<1>4. ASSUME NEW c \in Customers, TimePasses(c) PROVE Types'
  <2>1. LedgerTyped
    BY <1>0, <1>4, TimeBooks, MovesTyped
  <2>. QED BY <2>1, <1>1, <1>4, RestStays DEF TimePasses
<1>5. ASSUME NEW c \in Customers, NEW amount \in {-1, 1}, Adjust(c, amount) PROVE Types'
  <2>1. LedgerTyped
    BY <1>5, AdjustMoves, MovesTyped
  <2>. QED BY <2>1, <1>1, <1>5, RestStays DEF Adjust
<1>6. ASSUME NEW c \in Customers, NEW r \in Redemptions, Redeem(c, r) PROVE Types'
  <2>1. PICK row \in Row : /\ redemption' = [redemption EXCEPT ![r] = row]
                           /\ row.customer = c /\ row.status \in {"PENDING", "FULFILLED"}
    BY <1>6, RedeemMoves
  <2>2. LedgerTyped
    BY <1>6, RedeemMoves, MovesTyped
  <2>3. Rest /\ UNCHANGED task /\ redemption[r] = NoRow
    BY <1>6, RestStays DEF Redeem
  <2>4. TypeOK'
    BY <1>0, <2>1, <2>2, <2>3 DEF TypeOK, LedgerTyped, Rest, JobTyped, ReferralTyped, HistoryTyped
  <2>5. RowsWritten({})
    <3>1. \A v \in Workers : task[v].at = "cancel" => task[v].id # r
      BY <2>3 DEF Types, Redeemed, NoRow
    <3>. QED BY <1>0, <2>1, <3>1 DEF TypeOK, RowsWritten, Real
  <2>6. Others({})
    BY <2>3 DEF Others
  <2>. QED BY <1>0, <2>2, <2>4, <2>5, <2>6, TypesFollow DEF LedgerTyped
<1>. QED BY <1>2, <1>3, <1>4, <1>5, <1>6

LEMMA TypesStep == Types /\ [Next]_vars => Types'
<1>. SUFFICES ASSUME Types, [Next]_vars PROVE Types'
  OBVIOUS
<1>1. CASE UNCHANGED vars
  BY <1>1 DEF vars, Types, TypeOK, OneExpiry, Redeemed, Carries, SavesOf, Real, Due
<1>2. CASE Next
  BY <1>2, RequestTypes, ProceedTypes, BreakTypes, OutsideTypes DEF Next
<1>. QED BY <1>1, <1>2

(* Balances are numbers, ledgers hold entries, and every request carries   *)
(* what it should, and the assumptions of the model suffice for it.        *)
THEOREM LoyaltyTyped == Spec => []TypeOK
<1>1. Types => TypeOK
  BY DEF Types
<1>. QED BY <1>1, TypesInit, TypesStep, PTL DEF Spec

-----------------------------------------------------------------------------
(* The balance                                                             *)

(* What has been noted stays noted.                                        *)
Recalls == \A h \in {"stale", "forced", "fixed", "off"} : history[h] => history'[h]

LEMMA HistoryGrows ==
  ASSUME Types, [Next]_vars
  PROVE  Recalls
<1>1. CASE UNCHANGED history
  BY <1>1 DEF Recalls
<1>2. ASSUME NEW w \in Workers, Save(w) \/ CommitDenial(w) \/ Fix(w) PROVE Recalls
  BY <1>2 DEF Types, TypeOK, Save, CommitDenial, Fix, Recalls
<1>3. ASSUME SwitchProgram PROVE Recalls
  BY <1>3 DEF Types, TypeOK, SwitchProgram, Recalls
<1>4. ASSUME NEW w \in Workers, NEW r, NEW now, Hold(w, r, now) PROVE Recalls
  BY <1>4 DEF Types, TypeOK, Hold, Recalls
<1>5. ASSUME NEW w \in Workers, Request(w) PROVE Recalls
  <2>1. ASSUME NEW j, CompleteJob(w, j) \/ OpenDenial(w, j) PROVE Recalls
    BY <2>1, <1>1 DEF CompleteJob, OpenDenial
  <2>2. ASSUME NEW r, OpenCancel(w, r) PROVE Recalls
    BY <2>2, <1>1 DEF OpenCancel
  <2>3. ASSUME NEW r, Fulfil(w, r) PROVE Recalls
    BY <2>3, <1>4 DEF Fulfil
  <2>4. ASSUME NEW r, NEW j, Apply(w, r, j) PROVE Recalls
    BY <2>4, <1>4 DEF Apply
  <2>5. ASSUME NEW c, OpenExpiry(w, c) \/ OpenFix(w, c) PROVE Recalls
    BY <2>5, <1>1 DEF OpenExpiry, OpenFix
  <2>. QED BY <1>5, <2>1, <2>2, <2>3, <2>4, <2>5 DEF Request
<1>6. ASSUME NEW w \in Workers, Proceed(w) PROVE Recalls
  <2>1. \/ Save(w) \/ CommitDenial(w) \/ Fix(w) \/ UNCHANGED history
    BY <1>6 DEF Proceed, Settle, Earn, EarnMilestone, OpenPayout, LockReward, CommitPayout,
                CommitCancel, Expire
  <2>. QED BY <2>1, <1>1, <1>2
<1>7. ASSUME NEW w \in Workers, Crash(w) \/ \E v \in Workers : BreakDeadlock(w, v) PROVE Recalls
  BY <1>7, <1>1 DEF Crash, BreakDeadlock
<1>8. ASSUME \/ \E p \in Referrals : RecordReferral(p)
             \/ \E c \in Customers : \/ TimePasses(c)
                                     \/ \E r \in Redemptions : Redeem(c, r)
                                     \/ \E amount \in {-1, 1} : Adjust(c, amount)
      PROVE Recalls
  BY <1>8, <1>1 DEF RecordReferral, TimePasses, Redeem, Adjust
<1>. QED BY <1>1, <1>3, <1>5, <1>6, <1>7, <1>8 DEF Next, vars

(* Every step but the overwriting of a balance moves it with its ledger.   *)
Overwrites == UNCHANGED ledger /\ (points' = points \/ history'["fixed"])

LEMMA RequestsQuiet ==
  ASSUME NEW w \in Workers, Request(w)
  PROVE  UNCHANGED <<points, ledger>>
BY DEF Request, CompleteJob, OpenDenial, OpenCancel, Fulfil, Apply, Hold, OpenExpiry, OpenFix

LEMMA ProceedMoves ==
  ASSUME Types, NEW w \in Workers, Proceed(w)
  PROVE  Moves(Kinds) \/ Overwrites
<1>0. TypeOK
  BY DEF Types
<1>1. CASE UNCHANGED <<points, ledger>>
  BY <1>0, <1>1, NothingMoves, MovesMore
<1>2. CASE Earn(w) \/ EarnMilestone(w) \/ CommitCancel(w)
  <2>1. Moves({"job"}) \/ Moves({"milestone"}) \/ Moves({"refund"})
    BY <1>2, EarnMoves, MilestoneMoves, CancelMoves
  <2>2. {"job"} \subseteq Kinds /\ {"milestone"} \subseteq Kinds /\ {"refund"} \subseteq Kinds
    BY DEF Kinds
  <2>. QED BY <2>1, <2>2, MovesMore
<1>3. CASE CommitPayout(w)
  <2>1. {"welcome", "referrer"} \subseteq Kinds
    BY DEF Kinds
  <2>. QED BY <2>1, <1>0, <1>3, PayoutBooks, MovesMore
<1>4. CASE Expire(w)
  <2>1. {"expire"} \subseteq Kinds
    BY DEF Kinds
  <2>. QED BY <2>1, <1>4, ExpireBooks, MovesMore
<1>5. CASE Fix(w)
  <2>1. /\ UNCHANGED ledger /\ points' = [points EXCEPT ![task[w].customer] = task[w].sum]
        /\ points[task[w].customer] # task[w].sum => history'["fixed"]
    BY <1>0, <1>5 DEF Fix, TypeOK
  <2>2. points[task[w].customer] = task[w].sum => points' = points
    BY <1>0, <2>1 DEF TypeOK
  <2>. QED BY <2>1, <2>2 DEF Overwrites
<1>. QED BY <1>1, <1>2, <1>3, <1>4, <1>5
     DEF Proceed, Settle, OpenPayout, LockReward, Save, CommitDenial

LEMMA StepMoves ==
  ASSUME Types, [Next]_vars
  PROVE  Moves(Kinds) \/ Overwrites
<1>0. TypeOK
  BY DEF Types
<1>1. CASE UNCHANGED <<points, ledger>>
  BY <1>0, <1>1, NothingMoves, MovesMore
<1>2. ASSUME NEW c \in Customers, NEW amount \in {-1, 1}, Adjust(c, amount)
      PROVE  Moves(Kinds)
  <2>1. {"adjust"} \subseteq Kinds
    BY DEF Kinds
  <2>. QED BY <2>1, <1>2, AdjustMoves, MovesMore
<1>3. ASSUME NEW c \in Customers, NEW r \in Redemptions, Redeem(c, r)
      PROVE  Moves(Kinds)
  <2>1. {"redeem"} \subseteq Kinds
    BY DEF Kinds
  <2>. QED BY <2>1, <1>3, RedeemMoves, MovesMore
<1>4. ASSUME NEW c \in Customers, TimePasses(c)
      PROVE  Moves(Kinds)
  BY <1>0, <1>4, TimeBooks, MovesMore
<1>5. ASSUME NEW w \in Workers, Request(w) \/ Crash(w) \/ \E v \in Workers : BreakDeadlock(w, v)
      PROVE  UNCHANGED <<points, ledger>>
  BY <1>5, RequestsQuiet DEF Crash, BreakDeadlock
<1>6. ASSUME SwitchProgram \/ \E p \in Referrals : RecordReferral(p)
      PROVE  UNCHANGED <<points, ledger>>
  BY <1>6 DEF SwitchProgram, RecordReferral
<1>. QED BY <1>1, <1>2, <1>3, <1>4, <1>5, <1>6, ProceedMoves DEF Next, vars

Balanced ==
  ~history["fixed"] => \A c \in Customers : /\ points[c] = Last(ledger[c]) /\ Runs(ledger[c])
                                            /\ points[c] >= 0

LEMMA BalancedInit == Init => Balanced
BY DEF Init, Balanced, Last, Runs

LEMMA BalancedStep == Types /\ Balanced /\ [Next]_vars => Balanced'
<1>. SUFFICES ASSUME Types, Balanced, [Next]_vars, ~history'["fixed"]
              PROVE  \A c \in Customers : /\ points'[c] = Last(ledger'[c]) /\ Runs(ledger'[c])
                                          /\ points'[c] >= 0
  BY DEF Balanced, Last, Runs
<1>1. \A c \in Customers : points[c] = Last(ledger[c]) /\ Runs(ledger[c]) /\ points[c] >= 0
                           /\ points[c] \in Int /\ ledger[c] \in Seq(Entry)
  BY HistoryGrows, LedgersTyped DEF Balanced, Recalls, Types
<1>2. CASE Moves(Kinds)
  <2>1. SUFFICES ASSUME NEW c \in Customers
                 PROVE  points'[c] = Last(ledger'[c]) /\ Runs(ledger'[c]) /\ points'[c] >= 0
    OBVIOUS
  <2>2. CASE Stays(c)
    <3>1. Runs(ledger'[c]) /\ Last(ledger'[c]) = Last(ledger[c])
      BY <1>1, <2>2, KeptRuns DEF Stays
    <3>. QED BY <1>1, <2>2, <3>1 DEF Stays
  <2>3. ASSUME NEW e, Books(c, e) PROVE points'[c] = Last(ledger'[c]) /\ Runs(ledger'[c]) /\ points'[c] >= 0
    <3>1. Grown(ledger'[c], ledger[c], e) /\ e.after = e.amount + Last(ledger[c])
      BY <1>1, <2>3 DEF Books
    <3>2. Runs(ledger'[c]) /\ Last(ledger'[c]) = e.after
      BY <1>1, <3>1, GrownRuns
    <3>. QED BY <1>1, <2>3, <3>2 DEF Books
  <2>. QED BY <1>2, <2>2, <2>3 DEF Moves
<1>3. CASE Overwrites
  BY <1>1, <1>3 DEF Overwrites
<1>. QED BY <1>2, <1>3, StepMoves

LEMMA AlwaysBalanced == Spec => [](Types /\ Balanced)
<1>1. Init => Types /\ Balanced
  BY TypesInit, BalancedInit
<1>2. (Types /\ Balanced) /\ [Next]_vars => (Types /\ Balanced)'
  BY TypesStep, BalancedStep
<1>. QED BY <1>1, <1>2, PTL DEF Spec

(* The cached balance of a customer is what its ledger says, entry by      *)
(* entry, as long as --fix has overwritten nothing that had moved.         *)
THEOREM BalanceFollows == Spec => []BalanceIsLedger
<1>1. Types /\ Balanced => BalanceIsLedger
  BY DEF Balanced, BalanceIsLedger, Balance, Last, Runs
<1>. QED BY <1>1, AlwaysBalanced, PTL

(* And it is never negative.                                               *)
THEOREM BalanceNatural == Spec => []NeverNegative
<1>1. Types /\ Balanced => NeverNegative
  BY DEF Balanced, NeverNegative
<1>. QED BY <1>1, AlwaysBalanced, PTL

-----------------------------------------------------------------------------
(* Expiries                                                                *)

(* Every other step leaves the expired entries and the deductions alone.   *)
Earning == Kinds \ {"expire"}

LEMMA SameSpares ==
  ASSUME TypeOK, UNCHANGED ledger
  PROVE  SparesAll
BY LedgersTyped, SameKept DEF SparesAll

LEMMA StepSpares ==
  ASSUME Types, [Next]_vars
  PROVE  \/ \E w \in Workers : Expire(w)
         \/ SparesAll /\ (Moves(Earning) \/ UNCHANGED ledger)
<1>0. TypeOK
  BY DEF Types
<1>1. CASE UNCHANGED ledger
  BY <1>0, <1>1, SameSpares
<1>2. ASSUME NEW w \in Workers, Earn(w) \/ EarnMilestone(w) \/ CommitCancel(w)
      PROVE  SparesAll /\ Moves(Earning)
  <2>1. SparesAll /\ (Moves({"job"}) \/ Moves({"milestone"}) \/ Moves({"refund"}))
    BY <1>2, EarnMoves, MilestoneMoves, CancelMoves
  <2>2. {"job"} \subseteq Earning /\ {"milestone"} \subseteq Earning /\ {"refund"} \subseteq Earning
    BY DEF Kinds, Earning
  <2>. QED BY <2>1, <2>2, MovesMore
<1>3. ASSUME NEW w \in Workers, CommitPayout(w) PROVE SparesAll /\ Moves(Earning)
  <2>1. {"welcome", "referrer"} \subseteq Earning
    BY DEF Kinds, Earning
  <2>. QED BY <2>1, <1>0, <1>3, PayoutBooks, MovesMore
<1>4. ASSUME NEW c \in Customers, NEW amount \in {-1, 1}, Adjust(c, amount)
      PROVE  SparesAll /\ Moves(Earning)
  <2>1. {"adjust"} \subseteq Earning
    BY DEF Kinds, Earning
  <2>. QED BY <2>1, <1>4, AdjustMoves, MovesMore
<1>5. ASSUME NEW c \in Customers, NEW r \in Redemptions, Redeem(c, r)
      PROVE  SparesAll /\ Moves(Earning)
  <2>1. {"redeem"} \subseteq Earning
    BY DEF Kinds, Earning
  <2>. QED BY <2>1, <1>5, RedeemMoves, MovesMore
<1>6. ASSUME NEW c \in Customers, TimePasses(c) PROVE SparesAll /\ Moves(Earning)
  BY <1>0, <1>6, TimeBooks, MovesMore
<1>7. ASSUME NEW w \in Workers, Proceed(w)
      PROVE  \/ Expire(w) \/ UNCHANGED ledger
             \/ Earn(w) \/ EarnMilestone(w) \/ CommitCancel(w) \/ CommitPayout(w)
  BY <1>7 DEF Proceed, Settle, OpenPayout, LockReward, Save, CommitDenial, Fix
<1>8. ASSUME NEW w \in Workers, Request(w) \/ Crash(w) \/ \E v \in Workers : BreakDeadlock(w, v)
      PROVE  UNCHANGED ledger
  BY <1>8, RequestsQuiet DEF Crash, BreakDeadlock
<1>9. ASSUME SwitchProgram \/ \E p \in Referrals : RecordReferral(p)
      PROVE  UNCHANGED ledger
  BY <1>9 DEF SwitchProgram, RecordReferral
<1>. QED BY <1>1, <1>2, <1>3, <1>4, <1>5, <1>6, <1>7, <1>8, <1>9 DEF Next, vars

(* What has expired has brought at least what was taken for it.            *)
Taken(entries) == AmountIn(entries, In(entries, "expire", Nothing))
Brought(entries) == AmountIn(entries, Expired(entries))

Repaid == \A c \in Customers : Brought(ledger[c]) + Taken(ledger[c]) >= 0

LEMMA RepaidInit == Init => Repaid
<1>. SUFFICES ASSUME Init, NEW c \in Customers PROVE Brought(ledger[c]) + Taken(ledger[c]) >= 0
  BY DEF Repaid
<1>1. ledger[c] = <<>> /\ DOMAIN ledger[c] = {}
  BY DEF Init
<1>2. Expired(ledger[c]) = {} /\ In(ledger[c], "expire", Nothing) = {}
  BY <1>1 DEF Expired, In
<1>3. Brought(ledger[c]) = 0 /\ Taken(ledger[c]) = 0
  BY <1>2, AmountOfNone DEF Brought, Taken
<1>. QED BY <1>3

LEMMA SparedExpired ==
  ASSUME NEW old, NEW new, Spares(new, old)
  PROVE  Expired(new) = Expired(old)
BY DEF Spares, Expired

LEMMA AmountsStay ==
  ASSUME NEW old, NEW new, NEW rows \in SUBSET (DOMAIN old),
         \A i \in DOMAIN old : KeptEntry(new[i], old[i])
  PROVE  AmountIn(new, rows) = AmountIn(old, rows)
BY AmountKept DEF KeptEntry

LEMMA RowSetsTyped ==
  ASSUME NEW entries \in Seq(Entry)
  PROVE  /\ Expired(entries) \in SUBSET (DOMAIN entries)
         /\ In(entries, "expire", Nothing) \in SUBSET (DOMAIN entries)
         /\ Brought(entries) \in Int /\ Taken(entries) \in Int
<1>1. Expired(entries) \in SUBSET (DOMAIN entries) /\ In(entries, "expire", Nothing) \in SUBSET (DOMAIN entries)
  BY DEF Expired, In
<1>. QED BY <1>1, RowsPriced DEF Brought, Taken

LEMMA RepaidStep == Types /\ Repaid /\ [Next]_vars => Repaid'
<1>. SUFFICES ASSUME Types, Repaid, [Next]_vars, NEW c \in Customers
              PROVE  Brought(ledger'[c]) + Taken(ledger'[c]) >= 0
  BY DEF Repaid, Brought, Taken
<1>1. PICK old, new : old = ledger[c] /\ new = ledger'[c]
  OBVIOUS
<1>2. old \in Seq(Entry) /\ Brought(old) + Taken(old) >= 0
  BY <1>1, LedgersTyped DEF Types, Repaid
<1>3. /\ Expired(old) \in SUBSET (DOMAIN old) /\ In(old, "expire", Nothing) \in SUBSET (DOMAIN old)
      /\ Brought(old) \in Int /\ Taken(old) \in Int
  BY <1>2, RowSetsTyped
<1>4. CASE new = old
  BY <1>1, <1>2, <1>4
<1>5. CASE SparesAll /\ Moves(Earning)
  <2>1. Spares(new, old)
    BY <1>1, <1>5 DEF SparesAll
  <2>2. /\ \A i \in DOMAIN old : KeptEntry(new[i], old[i])
        /\ In(new, "expire", Nothing) = In(old, "expire", Nothing)
    <3>1. CASE Kept(new, old)
      BY <3>1, <1>2, KeptIn DEF Kept
    <3>2. ASSUME NEW e, Grown(new, old, e), e.kind \in Earning
          PROVE  /\ \A i \in DOMAIN old : KeptEntry(new[i], old[i])
                 /\ In(new, "expire", Nothing) = In(old, "expire", Nothing)
      <4>1. e.kind # "expire"
        BY <3>2 DEF Earning
      <4>2. In(new, "expire", Nothing) = In(old, "expire", Nothing)
        BY <3>2, <4>1, <1>2, GrownByAnother
      <4>3. \A i \in DOMAIN old : KeptEntry(new[i], old[i])
        BY <3>2 DEF Grown
      <4>. QED BY <4>2, <4>3
    <3>. QED BY <1>1, <1>5, <3>1, <3>2 DEF Moves, Stays, Books
  <2>3. Brought(new) = Brought(old) /\ Taken(new) = Taken(old)
    BY <2>1, <2>2, <1>3, SparedExpired, AmountsStay DEF Brought, Taken
  <2>. QED BY <1>1, <1>2, <2>3
<1>6. ASSUME NEW w \in Workers, Expire(w)
      PROVE  Brought(new) + Taken(new) >= 0
  <2>1. PICK d, rows : d = task[w].customer /\ rows = task[w].rows
    OBVIOUS
  <2>2. /\ d \in Customers /\ rows \subseteq Due(d)
        /\ \A x \in Customers \ {d} : ledger'[x] = ledger[x]
        /\ Expired(ledger'[d]) = Expired(ledger[d]) \cup rows
        /\ \E amount \in Int :
             /\ amount <= AmountOf(d, rows)
             /\ \/ amount = 0 /\ Kept(ledger'[d], ledger[d])
                \/ \E e : /\ Grown(ledger'[d], ledger[d], e)
                          /\ e.kind = "expire" /\ e.of = Nothing /\ e.amount = -amount
    BY <1>6, <2>1, ExpireBooks
  <2>3. CASE d # c
    BY <1>1, <1>2, <2>2, <2>3
  <2>4. CASE d = c
    <3>1. PICK amount \in Int :
            /\ amount <= AmountIn(old, rows)
            /\ \/ amount = 0 /\ Kept(new, old)
               \/ \E e : /\ Grown(new, old, e)
                         /\ e.kind = "expire" /\ e.of = Nothing /\ e.amount = -amount
      BY <1>1, <2>2, <2>4, AmountOfIsIn
    <3>2. rows \in SUBSET (DOMAIN old) /\ Expired(old) \cap rows = {}
          /\ Expired(new) = Expired(old) \cup rows
      BY <1>1, <2>2, <2>4 DEF Due, Expired
    <3>3. AmountIn(old, Expired(old) \cup rows) = Brought(old) + AmountIn(old, rows)
          /\ AmountIn(old, rows) \in Int
      BY <1>2, <1>3, <3>2, AmountOfBoth, RowsPriced DEF Brought
    <3>4. Expired(old) \cup rows \in SUBSET (DOMAIN old)
      BY <1>3, <3>2
    <3>5. \A i \in DOMAIN old : KeptEntry(new[i], old[i])
      BY <3>1 DEF Kept, Grown
    <3>6. Brought(new) = Brought(old) + AmountIn(old, rows)
      BY <3>2, <3>3, <3>4, <3>5, AmountsStay DEF Brought
    <3>7. Taken(new) = Taken(old) - amount
      <4>1. CASE amount = 0 /\ Kept(new, old)
        <5>1. In(new, "expire", Nothing) = In(old, "expire", Nothing)
          BY <4>1, <1>2, KeptIn
        <5>2. Taken(new) = Taken(old)
          BY <5>1, <1>3, <3>5, AmountsStay DEF Taken
        <5>. QED BY <5>2, <4>1, <1>3
      <4>2. ASSUME NEW e, Grown(new, old, e), e.kind = "expire", e.of = Nothing, e.amount = -amount
            PROVE  Taken(new) = Taken(old) - amount
        <5>1. PICK n, rs : n = Len(old) + 1 /\ rs = In(old, "expire", Nothing)
          OBVIOUS
        <5>2. /\ DOMAIN new = DOMAIN old \cup {n} /\ n \notin DOMAIN old
              /\ In(new, "expire", Nothing) = rs \cup {n}
          <6>1. In(new, "expire", Nothing) = In(old, "expire", Nothing) \cup {Len(old) + 1}
            BY <4>2, <1>2, GrownByIt
          <6>2. DOMAIN new = DOMAIN old \cup {Len(old) + 1} /\ Len(old) + 1 \notin DOMAIN old
            BY <4>2, <1>2, GrownRows
          <6>. QED BY <5>1, <4>2, <6>1, <6>2
        <5>3. new \in Seq(Entry) /\ new[n] = e
          BY <5>1, <4>2 DEF Grown
        <5>4. rs \in SUBSET (DOMAIN new) /\ n \in DOMAIN new /\ n \notin rs
          BY <5>1, <5>2, <1>3
        <5>5. AmountIn(new, rs \cup {n}) = AmountIn(new, rs) + new[n].amount
          BY <5>3, <5>4, AmountOfOneMore
        <5>6. AmountIn(new, rs) = Taken(old)
          BY <5>1, <1>3, <3>5, AmountsStay DEF Taken
        <5>7. Taken(new) = Taken(old) + (-amount)
          BY <5>2, <5>3, <5>5, <5>6, <4>2 DEF Taken
        <5>. QED BY <5>7, <1>3, <3>1
      <4>. QED BY <3>1, <4>1, <4>2
    <3>. QED BY <1>2, <1>3, <3>1, <3>3, <3>6, <3>7
  <2>. QED BY <2>3, <2>4
<1>. QED BY <1>1, <1>4, <1>5, <1>6, StepSpares

(* However many companies' points are expired, and whatever is earned and  *)
(* spent between the listing and the deduction, no entry expires twice.    *)
THEOREM EntriesExpireOnce == Spec => []ExpiresOnce
<1>1. Init => Types /\ Repaid
  BY TypesInit, RepaidInit
<1>2. (Types /\ Repaid) /\ [Next]_vars => (Types /\ Repaid)'
  BY TypesStep, RepaidStep
<1>3. Types /\ Repaid => ExpiresOnce
  <2>. SUFFICES ASSUME Types, Repaid, NEW c \in Customers
                PROVE  AmountOf(c, Expired(ledger[c])) + AmountOf(c, Entries(c, "expire", Nothing)) >= 0
    BY DEF ExpiresOnce, Expired
  <2>1. /\ AmountOf(c, Expired(ledger[c])) = Brought(ledger[c])
        /\ AmountOf(c, Entries(c, "expire", Nothing)) = Taken(ledger[c])
    BY LedgersTyped, AmountOfIsIn DEF Types, Brought, Taken
  <2>. QED BY <2>1 DEF Repaid
<1>. QED BY <1>1, <1>2, <1>3, PTL DEF Spec

-----------------------------------------------------------------------------
(* Redemptions and refunds                                                 *)

(* A copy that a step takes is of a row as it stands, and of a rejected    *)
(* one only by force, or while the row is on a job.                        *)
Fresh(s) == Copies(s) /\ (s.was.status = "REJECTED" => history'["forced"] \/ s.was.job \in Jobs)

(* What a worker carries into its next step.                               *)
Passes(w, t) ==
  /\ Goes(w, t)
  /\ \A s \in SavesOf(t) : s \in SavesOf(task[w]) \/ Fresh(s)
  /\ t.at = "payout" => OpenPayout(w) \/ LockReward(w)

LEMMA PlainPasses ==
  ASSUME NEW w, NEW t, Goes(w, t), t.at \notin {"save", "deny", "payout"}
  PROVE  Passes(w, t)
BY DEF Passes, SavesOf

LEMMA RequestPasses ==
  ASSUME Types, NEW w \in Workers, Request(w)
  PROVE  \E t : Passes(w, t)
<1>1. ASSUME NEW j \in Jobs, CompleteJob(w, j) PROVE \E t : Passes(w, t)
  <2>1. PICK t : t = [at |-> "settle", job |-> j]
    OBVIOUS
  <2>2. Goes(w, t) /\ t.at = "settle"
    BY <1>1, <2>1 DEF CompleteJob, Goes
  <2>. QED BY <2>2, PlainPasses
<1>2. ASSUME NEW j \in Jobs, OpenDenial(w, j) PROVE \E t : Passes(w, t)
  <2>1. PICK t \in Task : /\ Goes(w, t) /\ t.at = "deny"
                          /\ \A s \in SavesOf(t) : Copies(s) /\ s.was.job \in Jobs
    BY <1>2, DenialGoes
  <2>. QED BY <2>1 DEF Passes, Fresh
<1>3. ASSUME NEW t \in Task, Goes(w, t), t.at = "save",
             \A s \in SavesOf(t) : Copies(s) /\ (s.was.status = "REJECTED" => history'["forced"])
      PROVE  Passes(w, t)
  BY <1>3 DEF Passes, Fresh
<1>4. ASSUME NEW r \in Redemptions, Fulfil(w, r) \/ \E j \in Jobs : Apply(w, r, j)
      PROVE  \E t : Passes(w, t)
  <2>1. PICK t \in Task : /\ Goes(w, t) /\ t.at = "save"
                          /\ \A s \in SavesOf(t) : /\ Copies(s)
                                                   /\ s.was.status = "REJECTED" => history'["forced"]
    BY <1>4, FulfilGoes, ApplyGoes
  <2>. QED BY <2>1, <1>3
<1>5. ASSUME NEW r \in Redemptions, OpenCancel(w, r) PROVE \E t : Passes(w, t)
  <2>1. PICK t : t = [at |-> "cancel", id |-> r]
    OBVIOUS
  <2>2. Goes(w, t) /\ t.at = "cancel"
    BY <1>5, <2>1 DEF OpenCancel, Goes
  <2>. QED BY <2>2, PlainPasses
<1>6. ASSUME NEW c \in Customers, OpenExpiry(w, c) PROVE \E t : Passes(w, t)
  <2>1. PICK t : t = [at |-> "expire", customer |-> c, rows |-> Due(c)]
    OBVIOUS
  <2>2. Goes(w, t) /\ t.at = "expire"
    BY <1>6, <2>1 DEF OpenExpiry, Goes
  <2>. QED BY <2>2, PlainPasses
<1>7. ASSUME NEW c \in Customers, OpenFix(w, c) PROVE \E t : Passes(w, t)
  <2>1. PICK t : t = [at |-> "fix", customer |-> c, sum |-> AmountOf(c, DOMAIN ledger[c])]
    OBVIOUS
  <2>2. Goes(w, t) /\ t.at = "fix"
    BY <1>7, <2>1 DEF OpenFix, Goes
  <2>. QED BY <2>2, PlainPasses
<1>. QED BY <1>1, <1>2, <1>4, <1>5, <1>6, <1>7 DEF Request

LEMMA ProceedPasses ==
  ASSUME Types, NEW w \in Workers, Proceed(w)
  PROVE  \E t : Passes(w, t)
<1>1. ASSUME Settle(w) PROVE \E t : Passes(w, t)
  <2>1. PICK t \in Task : /\ Goes(w, t) /\ t.at \in {"earn", "save"}
                          /\ \A s \in SavesOf(t) : Copies(s) /\ s.was.status = "PENDING"
    BY <1>1, SettleGoes
  <2>. QED BY <2>1 DEF Passes, Fresh
<1>2. ASSUME Earn(w) PROVE \E t : Passes(w, t)
  <2>1. PICK t : t = [at |-> "milestone", job |-> task[w].job]
    OBVIOUS
  <2>2. Goes(w, t) /\ t.at = "milestone"
    BY <1>2, <2>1, EarnMoves
  <2>. QED BY <2>2, PlainPasses
<1>3. ASSUME EarnMilestone(w) PROVE \E t : Passes(w, t)
  <2>1. PICK t : t = [at |-> "refer", job |-> task[w].job]
    OBVIOUS
  <2>2. Goes(w, t) /\ t.at = "refer"
    BY <1>3, <2>1, MilestoneMoves
  <2>. QED BY <2>2, PlainPasses
<1>4. ASSUME OpenPayout(w) PROVE \E t : Passes(w, t)
  <2>1. PICK t : Goes(w, t) /\ t.at \in {"idle", "payout"}
    BY <1>4, OpenPayoutGoes, IdleCarries
  <2>. QED BY <1>4, <2>1 DEF Passes, SavesOf
<1>5. ASSUME LockReward(w) PROVE \E t : Passes(w, t)
  <2>1. PICK t : Goes(w, t) /\ t.at = "payout"
    BY <1>5, LockGoes
  <2>. QED BY <1>5, <2>1 DEF Passes, SavesOf
<1>6. ASSUME Save(w) PROVE \E t : Passes(w, t)
  <2>1. PICK t \in Task : /\ Goes(w, t) /\ t.at \in {"idle", "earn", "save"}
                          /\ SavesOf(t) \subseteq SavesOf(task[w])
    BY <1>6, SaveGoes
  <2>. QED BY <2>1 DEF Passes
<1>7. ASSUME CommitPayout(w) \/ CommitDenial(w) \/ CommitCancel(w) \/ Expire(w) \/ Fix(w)
      PROVE  \E t : Passes(w, t)
  <2>1. Goes(w, Idle)
    BY <1>7 DEF CommitPayout, CommitDenial, CommitCancel, Expire, Fix, Goes
  <2>. QED BY <2>1, PlainPasses, IdleCarries
<1>. QED BY <1>1, <1>2, <1>3, <1>4, <1>5, <1>6, <1>7 DEF Proceed

LEMMA StepPasses ==
  ASSUME Types, [Next]_vars
  PROVE  UNCHANGED task \/ \E w \in Workers : \E t : Passes(w, t)
<1>1. ASSUME NEW w \in Workers, Crash(w) \/ \E v \in Workers : BreakDeadlock(w, v)
      PROVE  \E t : Passes(w, t)
  <2>1. Goes(w, Idle)
    BY <1>1 DEF Crash, BreakDeadlock, Goes
  <2>. QED BY <2>1, PlainPasses, IdleCarries
<1>2. ASSUME \/ \E p \in Referrals : RecordReferral(p)
             \/ \E c \in Customers : \/ TimePasses(c)
                                     \/ \E r \in Redemptions : Redeem(c, r)
                                     \/ \E amount \in {-1, 1} : Adjust(c, amount)
             \/ SwitchProgram
      PROVE  UNCHANGED task
  BY <1>2 DEF RecordReferral, TimePasses, Redeem, Adjust, SwitchProgram
<1>. QED BY <1>1, <1>2, RequestPasses, ProceedPasses DEF Next, vars

(* What a step does to the redemptions, and to the entries about them.     *)
Quiet == Kinds \ {"redeem", "refund"}

Written(w) ==
  /\ UNCHANGED ledger
  /\ \A r \in Redemptions :
       \/ redemption'[r] = redemption[r]
       \/ \E s \in SavesOf(task[w]) : /\ s.id = r /\ redemption'[r] = s.now
                                      /\ redemption[r] # s.was => history'["stale"]

LEMMA StepRows ==
  ASSUME Types, [Next]_vars
  PROVE  \/ UNCHANGED redemption /\ (Moves(Quiet) \/ UNCHANGED ledger)
         \/ \E w \in Workers : Written(w) \/ CommitCancel(w)
         \/ \E c \in Customers, r \in Redemptions : Redeem(c, r)
<1>0. TypeOK
  BY DEF Types
<1>1. ASSUME NEW w \in Workers, Request(w) \/ Crash(w) \/ \E v \in Workers : BreakDeadlock(w, v)
      PROVE  UNCHANGED redemption /\ UNCHANGED ledger
  <2>1. Request(w) => UNCHANGED redemption
    BY DEF Request, CompleteJob, OpenDenial, OpenCancel, Fulfil, Apply, Hold, OpenExpiry, OpenFix
  <2>. QED BY <1>1, <2>1, RequestsQuiet DEF Crash, BreakDeadlock
<1>2. ASSUME NEW w \in Workers, Earn(w) \/ EarnMilestone(w) \/ CommitPayout(w) \/ Expire(w)
      PROVE  UNCHANGED redemption /\ Moves(Quiet)
  <2>1. Moves({"job"}) \/ Moves({"milestone"}) \/ Moves({"welcome", "referrer"}) \/ Moves({"expire"})
    BY <1>0, <1>2, EarnMoves, MilestoneMoves, PayoutBooks, ExpireBooks
  <2>2. /\ {"job"} \subseteq Quiet /\ {"milestone"} \subseteq Quiet
        /\ {"welcome", "referrer"} \subseteq Quiet /\ {"expire"} \subseteq Quiet
    BY DEF Kinds, Quiet
  <2>3. UNCHANGED redemption
    BY <1>2 DEF Earn, EarnMilestone, CommitPayout, Expire
  <2>. QED BY <2>1, <2>2, <2>3, MovesMore
<1>3. ASSUME NEW w \in Workers, Save(w) PROVE Written(w)
  <2>1. PICK s \in SavesOf(task[w]) : /\ s \in Saves /\ redemption' = [redemption EXCEPT ![s.id] = s.now]
                                      /\ redemption[s.id] # s.was => history'["stale"]
    BY <1>3, SaveGoes
  <2>2. UNCHANGED ledger
    BY <1>3 DEF Save
  <2>. QED BY <1>0, <2>1, <2>2 DEF TypeOK, Written, Saves
<1>4. ASSUME NEW w \in Workers, CommitDenial(w) PROVE Written(w)
  <2>1. UNCHANGED ledger
    BY <1>4 DEF CommitDenial
  <2>2. \A r \in Redemptions :
          \/ redemption'[r] = redemption[r]
          \/ \E s \in SavesOf(task[w]) : /\ s.id = r /\ redemption'[r] = s.now
                                         /\ redemption[r] # s.was => history'["stale"]
    BY <1>4, DenialCommits
  <2>. QED BY <2>1, <2>2 DEF Written
<1>5. ASSUME NEW w \in Workers, Settle(w) \/ OpenPayout(w) \/ LockReward(w) \/ Fix(w)
      PROVE  UNCHANGED redemption /\ UNCHANGED ledger
  BY <1>5 DEF Settle, OpenPayout, LockReward, Fix
<1>6. ASSUME NEW w \in Workers, Proceed(w)
      PROVE  \/ UNCHANGED redemption /\ (Moves(Quiet) \/ UNCHANGED ledger)
             \/ Written(w) \/ CommitCancel(w)
  BY <1>2, <1>3, <1>4, <1>5, <1>6 DEF Proceed
<1>7. ASSUME NEW c \in Customers, TimePasses(c) \/ \E amount \in {-1, 1} : Adjust(c, amount)
      PROVE  UNCHANGED redemption /\ Moves(Quiet)
  <2>1. Moves({}) \/ Moves({"adjust"})
    BY <1>0, <1>7, TimeBooks, AdjustMoves
  <2>2. {} \subseteq Quiet /\ {"adjust"} \subseteq Quiet
    BY DEF Kinds, Quiet
  <2>3. UNCHANGED redemption
    BY <1>7 DEF TimePasses, Adjust
  <2>. QED BY <2>1, <2>2, <2>3, MovesMore
<1>8. ASSUME SwitchProgram \/ \E p \in Referrals : RecordReferral(p)
      PROVE  UNCHANGED redemption /\ UNCHANGED ledger
  BY <1>8 DEF SwitchProgram, RecordReferral
<1>. QED BY <1>1, <1>6, <1>7, <1>8 DEF Next, vars

(* A redemption has been paid for by its customer, once, and nobody else;  *)
(* it is rejected, and on no job, if it was refunded, once.                *)
Entered(r) == \E c \in Customers : In(ledger[c], "redeem", r) # {} \/ In(ledger[c], "refund", r) # {}

Settled(r) ==
  /\ redemption[r].status = "none" => ~Entered(r)
  /\ redemption[r].status # "none" =>
       /\ Once(In(ledger[redemption[r].customer], "redeem", r))
       /\ IF redemption[r].status = "REJECTED"
          THEN redemption[r].job = Nothing /\ Once(In(ledger[redemption[r].customer], "refund", r))
          ELSE In(ledger[redemption[r].customer], "refund", r) = {}

(* A copy under way is of a paid and not a rejected redemption, and leaves *)
(* it so and its customer's.                                               *)
Sound(s) ==
  /\ s.was.status \notin {"none", "REJECTED"} /\ s.now.status \notin {"none", "REJECTED"}
  /\ s.now.customer = s.was.customer

Refunded ==
  ~history["stale"] /\ ~history["forced"] =>
    /\ \A r \in Redemptions : Settled(r)
    /\ \A w \in Workers : \A s \in SavesOf(task[w]) : Sound(s)

SameEntries(r) ==
  \A c \in Customers : /\ In(ledger'[c], "redeem", r) = In(ledger[c], "redeem", r)
                       /\ In(ledger'[c], "refund", r) = In(ledger[c], "refund", r)

LEMMA OthersEntries ==
  ASSUME TypeOK, NEW c \in Customers, NEW e, Books(c, e), NEW r,
         \A d \in Customers \ {c} : ledger'[d] = ledger[d],
         e.of # r \/ e.kind \notin {"redeem", "refund"}
  PROVE  SameEntries(r)
<1>1. Grown(ledger'[c], ledger[c], e) /\ ledger[c] \in Seq(Entry)
  BY LedgersTyped DEF Books
<1>2. In(ledger'[c], "redeem", r) = In(ledger[c], "redeem", r)
  BY <1>1, GrownByAnother
<1>3. In(ledger'[c], "refund", r) = In(ledger[c], "refund", r)
  BY <1>1, GrownByAnother
<1>. QED BY <1>2, <1>3 DEF SameEntries

(* No entry of a kind that a step does not write comes to be.              *)
LEMMA UnmovedEntries ==
  ASSUME TypeOK, NEW K, Moves(K) \/ UNCHANGED ledger, NEW kind, kind \notin K, NEW of,
         NEW c \in Customers
  PROVE  In(ledger'[c], kind, of) = In(ledger[c], kind, of)
<1>1. ledger[c] \in Seq(Entry)
  BY LedgersTyped
<1>2. CASE UNCHANGED ledger
  BY <1>2
<1>3. CASE Stays(c)
  BY <1>1, <1>3, KeptIn DEF Stays
<1>4. ASSUME NEW e, Books(c, e), e.kind \in K
      PROVE  In(ledger'[c], kind, of) = In(ledger[c], kind, of)
  <2>1. Grown(ledger'[c], ledger[c], e) /\ e.kind # kind
    BY <1>4 DEF Books
  <2>. QED BY <1>1, <2>1, GrownByAnother
<1>. QED BY <1>2, <1>3, <1>4 DEF Moves

LEMMA QuietEntries ==
  ASSUME TypeOK, Moves(Quiet) \/ UNCHANGED ledger, NEW r
  PROVE  SameEntries(r)
<1>1. "redeem" \notin Quiet /\ "refund" \notin Quiet
  BY DEF Quiet
<1>. QED BY <1>1, UnmovedEntries DEF SameEntries

LEMMA SettledStays ==
  ASSUME Types, NEW r \in Redemptions, Settled(r), redemption'[r] = redemption[r], SameEntries(r)
  PROVE  Settled(r)'
<1>1. redemption[r].status # "none" => redemption[r].customer \in Customers
  BY RowsTyped DEF Real
<1>. QED BY <1>1 DEF Settled, SameEntries, Entered, In, Once

LEMMA SettledWritten ==
  ASSUME Types, NEW r \in Redemptions, Settled(r), UNCHANGED ledger,
         NEW s, Sound(s), redemption[r] = s.was, redemption'[r] = s.now
  PROVE  Settled(r)'
BY DEF Settled, Sound, In, Once

LEMMA SettledRedeemed ==
  ASSUME Types, NEW c \in Customers, NEW r \in Redemptions, Redeem(c, r), Settled(r)
  PROVE  Settled(r)'
<1>1. PICK e : Books(c, e) /\ e.kind = "redeem" /\ e.of = r
  BY RedeemMoves
<1>2. PICK row \in Row : /\ redemption' = [redemption EXCEPT ![r] = row]
                         /\ row.customer = c /\ row.status \in {"PENDING", "FULFILLED"}
  BY RedeemMoves
<1>3. redemption'[r] = row
  BY <1>2 DEF Types, TypeOK
<1>4. Grown(ledger'[c], ledger[c], e) /\ ledger[c] \in Seq(Entry)
  BY <1>1, LedgersTyped DEF Books, Types
<1>5. In(ledger[c], "redeem", r) = {} /\ In(ledger[c], "refund", r) = {}
  <2>1. redemption[r].status = "none"
    BY DEF Redeem, NoRow
  <2>. QED BY <2>1 DEF Settled, Entered
<1>6. PICK n : In(ledger'[c], "redeem", r) = {n}
  <2>1. PICK old, new, kind : old = ledger[c] /\ new = ledger'[c] /\ kind = "redeem"
    OBVIOUS
  <2>2. e.kind = kind /\ e.of = r /\ Grown(new, old, e) /\ old \in Seq(Entry)
    BY <2>1, <1>1, <1>4
  <2>3. In(new, kind, r) = In(old, kind, r) \cup {Len(old) + 1}
    BY <2>2, GrownByIt
  <2>. QED BY <2>1, <2>3, <1>5
<1>7. In(ledger'[c], "refund", r) = {}
  <2>1. e.kind # "refund"
    BY <1>1
  <2>2. In(ledger'[c], "refund", r) = In(ledger[c], "refund", r)
    BY <2>1, <1>4, GrownByAnother
  <2>. QED BY <2>2, <1>5
<1>8. Once(In(ledger'[c], "redeem", r))
  BY <1>6 DEF Once
<1>9. /\ redemption'[r].customer = c
      /\ redemption'[r].status # "none" /\ redemption'[r].status # "REJECTED"
  BY <1>2, <1>3
<1>. QED BY <1>7, <1>8, <1>9 DEF Settled, In, Once

LEMMA SettledCancelled ==
  ASSUME Types, NEW w \in Workers, CommitCancel(w), active,
         NEW r, r = task[w].id, Settled(r)
  PROVE  Settled(r)'
<1>1. PICK c : c = redemption[r].customer
  OBVIOUS
<1>2. r \in Redemptions /\ c \in Customers /\ redemption[r].status = "PENDING"
  BY <1>1, CancelMoves
<1>3. PICK e : Books(c, e) /\ e.kind = "refund" /\ e.of = r
  BY <1>1, CancelMoves
<1>4. PICK row \in Row : /\ redemption' = [redemption EXCEPT ![r] = row]
                         /\ row.status = "REJECTED" /\ row.customer = c /\ row.job = Nothing
  BY <1>1, CancelMoves
<1>5. /\ redemption'[r].status = "REJECTED" /\ redemption'[r].status # "none"
      /\ redemption'[r].customer = c /\ redemption'[r].job = Nothing
  <2>1. redemption'[r] = row
    BY <1>2, <1>4 DEF Types, TypeOK
  <2>. QED BY <2>1, <1>4
<1>6. Grown(ledger'[c], ledger[c], e) /\ ledger[c] \in Seq(Entry)
  BY <1>2, <1>3, LedgersTyped DEF Books, Types
<1>7. Once(In(ledger[c], "redeem", r)) /\ In(ledger[c], "refund", r) = {}
  BY <1>1, <1>2 DEF Settled
<1>8. PICK n : In(ledger'[c], "refund", r) = {n}
  <2>1. PICK old, new, kind : old = ledger[c] /\ new = ledger'[c] /\ kind = "refund"
    OBVIOUS
  <2>2. e.kind = kind /\ e.of = r /\ Grown(new, old, e) /\ old \in Seq(Entry)
    BY <2>1, <1>3, <1>6
  <2>3. In(new, kind, r) = In(old, kind, r) \cup {Len(old) + 1}
    BY <2>2, GrownByIt
  <2>. QED BY <2>1, <2>3, <1>7
<1>9. Once(In(ledger'[c], "redeem", r))
  <2>1. e.kind # "redeem"
    BY <1>3
  <2>2. In(ledger'[c], "redeem", r) = In(ledger[c], "redeem", r)
    BY <2>1, <1>6, GrownByAnother
  <2>. QED BY <2>2, <1>7
<1>10. Once(In(ledger'[c], "refund", r))
  BY <1>8 DEF Once
<1>. QED BY <1>5, <1>9, <1>10 DEF Settled

(* Every redemption after a step.                                          *)
LEMMA SettledStep ==
  ASSUME Types, [Next]_vars, ~history'["stale"], \A r \in Redemptions : Settled(r),
         \A w \in Workers : \A s \in SavesOf(task[w]) : Sound(s)
  PROVE  \A r \in Redemptions : Settled(r)'
<1>0. TypeOK
  BY DEF Types
<1>1. ASSUME NEW r \in Redemptions, UNCHANGED redemption, Moves(Quiet) \/ UNCHANGED ledger
      PROVE  Settled(r)'
  BY <1>0, <1>1, QuietEntries, SettledStays
<1>2. ASSUME NEW w \in Workers, Written(w), NEW r \in Redemptions
      PROVE  Settled(r)'
  <2>1. CASE redemption'[r] = redemption[r]
    <3>1. UNCHANGED ledger
      BY <1>2 DEF Written
    <3>2. SameEntries(r)
      BY <3>1, <1>0, QuietEntries
    <3>. QED BY <2>1, <3>2, SettledStays
  <2>2. ASSUME NEW s \in SavesOf(task[w]), redemption'[r] = s.now, redemption[r] = s.was
        PROVE  Settled(r)'
    BY <1>2, <2>2, SettledWritten DEF Written
  <2>. QED BY <1>2, <2>1, <2>2 DEF Written
<1>3. ASSUME NEW c \in Customers, NEW r \in Redemptions, Redeem(c, r), NEW x \in Redemptions
      PROVE  Settled(x)'
  <2>1. CASE x = r
    BY <1>3, <2>1, SettledRedeemed
  <2>2. CASE x # r
    <3>1. PICK e : Books(c, e) /\ e.of = r
      BY <1>3, RedeemMoves
    <3>2. \A d \in Customers \ {c} : ledger'[d] = ledger[d]
      BY <1>3, RedeemMoves
    <3>3. SameEntries(x)
      BY <1>0, <2>2, <3>1, <3>2, OthersEntries
    <3>4. redemption'[x] = redemption[x]
      BY <1>0, <1>3, <2>2 DEF TypeOK, Redeem
    <3>. QED BY <3>3, <3>4, SettledStays
  <2>. QED BY <2>1, <2>2
<1>4. ASSUME NEW w \in Workers, CommitCancel(w), NEW x \in Redemptions
      PROVE  Settled(x)'
  <2>1. PICK r, c : r = task[w].id /\ c = redemption[r].customer
    OBVIOUS
  <2>2. CASE ~active
    BY <1>4, <2>1, <2>2, <1>1, CancelMoves
  <2>3. CASE active /\ x = r
    BY <1>4, <2>1, <2>3, SettledCancelled
  <2>4. CASE active /\ x # r
    <3>1. PICK e : Books(c, e) /\ e.of = r
      BY <1>4, <2>1, <2>4, CancelMoves
    <3>2. \A d \in Customers \ {c} : ledger'[d] = ledger[d]
      BY <1>4, <2>1, <2>4, CancelMoves
    <3>3. PICK row \in Row : redemption' = [redemption EXCEPT ![r] = row]
      BY <1>4, <2>1, <2>4, CancelMoves
    <3>4. c \in Customers
      BY <1>4, <2>1, CancelMoves
    <3>5. SameEntries(x)
      BY <1>0, <2>4, <3>1, <3>2, <3>4, OthersEntries
    <3>6. redemption'[x] = redemption[x]
      BY <1>0, <2>4, <3>3 DEF TypeOK
    <3>. QED BY <3>5, <3>6, SettledStays
  <2>. QED BY <2>2, <2>3, <2>4
<1>. QED BY <1>1, <1>2, <1>3, <1>4, StepRows

(* Every copy under way after a step.                                      *)
LEMMA SoundStep ==
  ASSUME Types, [Next]_vars, ~history'["forced"], \A r \in Redemptions : Settled(r),
         \A w \in Workers : \A s \in SavesOf(task[w]) : Sound(s)
  PROVE  \A w \in Workers : \A s \in SavesOf(task'[w]) : Sound(s)
<1>0. TypeOK
  BY DEF Types
<1>1. ASSUME NEW s, Fresh(s) PROVE Sound(s)
  <2>1. /\ s.id \in Redemptions /\ s.was = redemption[s.id] /\ Real(s.was)
        /\ s.now.customer = s.was.customer
        /\ s.now.status \in {s.was.status, "FULFILLED", "APPROVED"}
        /\ s.was.status = "REJECTED" => s.was.job \in Jobs
    BY <1>1, CopiesReal DEF Fresh, Copies
  <2>2. s.was.status # "REJECTED"
    BY <2>1, LoyaltyAssumption DEF Settled
  <2>. QED BY <2>1, <2>2 DEF Sound, Real
<1>2. ASSUME NEW w \in Workers, NEW t, Passes(w, t)
      PROVE  \A v \in Workers : \A s \in SavesOf(task'[v]) : Sound(s)
  <2>1. \A v \in Workers : task'[v] = IF v = w THEN t ELSE task[v]
    BY <1>0, <1>2, WorkerGoes DEF Passes
  <2>2. \A s \in SavesOf(t) : Sound(s)
    BY <1>1, <1>2 DEF Passes
  <2>. QED BY <2>1, <2>2
<1>. QED BY <1>2, StepPasses

LEMMA RefundedInit == Init => Refunded
BY DEF Init, Refunded, Settled, Entered, In, NoRow, SavesOf, Idle

LEMMA RefundedStep == Types /\ Refunded /\ [Next]_vars => Refunded'
<1>. SUFFICES ASSUME Types, Refunded, [Next]_vars, ~history'["stale"], ~history'["forced"]
              PROVE  /\ \A r \in Redemptions : Settled(r)'
                     /\ \A w \in Workers : \A s \in SavesOf(task'[w]) : Sound(s)
  BY DEF Refunded, Sound, SavesOf
<1>1. ~history["stale"] /\ ~history["forced"]
  BY HistoryGrows DEF Recalls
<1>. QED BY <1>1, SettledStep, SoundStep DEF Refunded

(* Unless a stale copy was saved, or a rejected reward used by force, each *)
(* redemption is paid for once, and is REJECTED exactly if its points were *)
(* refunded, once, whatever cancellations, denials and fulfilments overlap.*)
THEOREM RefundsOnce == Spec => []RefundMeansRejected
<1>1. Init => Types /\ Refunded
  BY TypesInit, RefundedInit
<1>2. (Types /\ Refunded) /\ [Next]_vars => (Types /\ Refunded)'
  BY TypesStep, RefundedStep
<1>3. Types /\ Refunded => RefundMeansRejected
  <2>. SUFFICES ASSUME Types, Refunded, ~history["stale"], ~history["forced"],
                       NEW r \in Redemptions, redemption[r].status # "none",
                       NEW c, c = redemption[r].customer
                PROVE  /\ Once(Entries(c, "redeem", r))
                       /\ IF redemption[r].status = "REJECTED"
                          THEN Once(Entries(c, "refund", r)) ELSE Entries(c, "refund", r) = {}
    BY DEF RefundMeansRejected
  <2>1. Entries(c, "redeem", r) = In(ledger[c], "redeem", r)
        /\ Entries(c, "refund", r) = In(ledger[c], "refund", r)
    BY DEF Entries, In
  <2>. QED BY <2>1 DEF Refunded, Settled
<1>. QED BY <1>1, <1>2, <1>3, PTL DEF Spec

-----------------------------------------------------------------------------
(* Referrals                                                               *)

(* A payout under way: the referrals it has locked are pending, it asks    *)
(* for those that are to be paid, and all it asks for get their bonus      *)
(* unless the program was off.                                             *)
Pays(t) ==
  t.at = "payout" =>
    /\ t.due # {} /\ \A p \in t.due : p[2] = t.customer /\ referral[p] = "PENDING"
    /\ t.locked \subseteq t.asked /\ t.asked \subseteq ToPay(t.customer, t.due)
    /\ ~history["off"] => t.asked = t.locked

OnePayout ==
  \A v, w \in Workers :
    task[v].at = "payout" /\ task[w].at = "payout" /\ task[v].customer = task[w].customer => v = w

Bonuses(p) == In(ledger[p[1]], "referrer", p[2])
Welcomes(c) == In(ledger[c], "welcome", c)

Owed(p) ==
  /\ Bonuses(p) = {} \/ (Once(Bonuses(p)) /\ referral[p] = "AWARDED")
  /\ Welcomes(p[2]) = {} \/ Once(Welcomes(p[2]))
  /\ referral[p] = "AWARDED" /\ ~history["off"] => Bonuses(p) # {} /\ Welcomes(p[2]) # {}

Referred ==
  /\ \A w \in Workers : Pays(task[w])
  /\ OnePayout
  /\ ~history["off"] => active
  /\ \A p \in Referrals : Owed(p)

LEMMA ReferredInit == Init => Referred
BY DEF Init, Referred, Pays, OnePayout, Owed, Bonuses, Welcomes, In, Idle, Referrals

(* What a step does to the referrals, and to the entries about them.       *)
Plain == Kinds \ {"referrer", "welcome"}

LEMMA StepReferrals ==
  ASSUME Types, [Next]_vars
  PROVE  \/ UNCHANGED referral /\ (Moves(Plain) \/ UNCHANGED ledger)
         \/ \E w \in Workers : CommitPayout(w)
         \/ \E p \in Referrals : RecordReferral(p)
<1>0. TypeOK
  BY DEF Types
<1>1. ASSUME NEW w \in Workers, Request(w) \/ Crash(w) \/ \E v \in Workers : BreakDeadlock(w, v)
      PROVE  UNCHANGED referral /\ UNCHANGED ledger
  <2>1. Request(w) => UNCHANGED referral
    BY DEF Request, CompleteJob, OpenDenial, OpenCancel, Fulfil, Apply, Hold, OpenExpiry, OpenFix
  <2>. QED BY <1>1, <2>1, RequestsQuiet DEF Crash, BreakDeadlock
<1>2. ASSUME NEW w \in Workers, Earn(w) \/ EarnMilestone(w) \/ CommitCancel(w) \/ Expire(w)
      PROVE  UNCHANGED referral /\ Moves(Plain)
  <2>1. Moves({"job"}) \/ Moves({"milestone"}) \/ Moves({"refund"}) \/ Moves({"expire"})
    BY <1>2, EarnMoves, MilestoneMoves, CancelMoves, ExpireBooks
  <2>2. /\ {"job"} \subseteq Plain /\ {"milestone"} \subseteq Plain
        /\ {"refund"} \subseteq Plain /\ {"expire"} \subseteq Plain
    BY DEF Kinds, Plain
  <2>3. UNCHANGED referral
    BY <1>2 DEF Earn, EarnMilestone, CommitCancel, Expire
  <2>. QED BY <2>1, <2>2, <2>3, MovesMore
<1>3. ASSUME NEW w \in Workers,
             Settle(w) \/ OpenPayout(w) \/ LockReward(w) \/ Fix(w) \/ Save(w) \/ CommitDenial(w)
      PROVE  UNCHANGED referral /\ UNCHANGED ledger
  BY <1>3 DEF Settle, OpenPayout, LockReward, Fix, Save, CommitDenial
<1>4. ASSUME NEW w \in Workers, Proceed(w)
      PROVE  \/ UNCHANGED referral /\ (Moves(Plain) \/ UNCHANGED ledger)
             \/ CommitPayout(w)
  BY <1>2, <1>3, <1>4 DEF Proceed
<1>5. ASSUME NEW c \in Customers, \/ TimePasses(c)
                                  \/ \E amount \in {-1, 1} : Adjust(c, amount)
                                  \/ \E r \in Redemptions : Redeem(c, r)
      PROVE  UNCHANGED referral /\ Moves(Plain)
  <2>1. Moves({}) \/ Moves({"adjust"}) \/ Moves({"redeem"})
    BY <1>0, <1>5, TimeBooks, AdjustMoves, RedeemMoves
  <2>2. {} \subseteq Plain /\ {"adjust"} \subseteq Plain /\ {"redeem"} \subseteq Plain
    BY DEF Kinds, Plain
  <2>3. UNCHANGED referral
    BY <1>5 DEF TimePasses, Adjust, Redeem
  <2>. QED BY <2>1, <2>2, <2>3, MovesMore
<1>6. ASSUME SwitchProgram
      PROVE  UNCHANGED referral /\ UNCHANGED ledger
  BY <1>6 DEF SwitchProgram
<1>. QED BY <1>1, <1>4, <1>5, <1>6 DEF Next, vars

LEMMA PlainEntries ==
  ASSUME TypeOK, Moves(Plain) \/ UNCHANGED ledger
  PROVE  /\ \A p \in Referrals : (Bonuses(p))' = Bonuses(p)
         /\ \A c \in Customers : (Welcomes(c))' = Welcomes(c)
<1>1. "referrer" \notin Plain /\ "welcome" \notin Plain
  BY DEF Plain
<1>2. \A c \in Customers : \A of : In(ledger'[c], "referrer", of) = In(ledger[c], "referrer", of)
  BY <1>1, UnmovedEntries
<1>3. \A c \in Customers : \A of : In(ledger'[c], "welcome", of) = In(ledger[c], "welcome", of)
  BY <1>1, UnmovedEntries
<1>4. ASSUME NEW p \in Referrals PROVE (Bonuses(p))' = Bonuses(p)
  <2>1. p[1] \in Customers
    BY DEF Referrals
  <2>. QED BY <2>1, <1>2 DEF Bonuses
<1>5. ASSUME NEW c \in Customers PROVE (Welcomes(c))' = Welcomes(c)
  BY <1>3 DEF Welcomes
<1>. QED BY <1>4, <1>5

(* What a payout writes.                                                   *)
Adds(new, old, kind, of) == \E n : In(new, kind, of) = In(old, kind, of) \cup {n}

LEMMA PayoutEntries ==
  ASSUME Types, NEW w \in Workers, CommitPayout(w),
         NEW a, a = task[w].customer, NEW L, L = task[w].locked, NEW c \in Customers, NEW of
  PROVE  /\ c \in L /\ c # a /\ of = a => Adds(ledger'[c], ledger[c], "referrer", of)
         /\ ~(c \in L /\ c # a /\ of = a) =>
              In(ledger'[c], "referrer", of) = In(ledger[c], "referrer", of)
         /\ c \in L /\ c = a /\ of = a => Adds(ledger'[c], ledger[c], "welcome", of)
         /\ ~(c \in L /\ c = a /\ of = a) =>
              In(ledger'[c], "welcome", of) = In(ledger[c], "welcome", of)
<1>1. ledger[c] \in Seq(Entry)
  BY LedgersTyped DEF Types
<1>2. CASE c \notin L
  <2>1. ledger'[c] = ledger[c]
    BY <1>2, PayoutBooks DEF Types
  <2>. QED BY <1>2, <2>1
<1>3. CASE c \in L
  <2>1. PICK e : Books(c, e) /\ e.of = a /\ e.kind = IF c = a THEN "welcome" ELSE "referrer"
    BY <1>3, PayoutBooks DEF Types
  <2>2. Grown(ledger'[c], ledger[c], e)
    BY <2>1 DEF Books
  <2>3. PICK old, new, n : old = ledger[c] /\ new = ledger'[c] /\ n = Len(old) + 1
    OBVIOUS
  <2>4. ASSUME NEW kind, e.kind = kind, of = a
        PROVE  Adds(new, old, kind, of)
    <3>0. e.of = of /\ e.kind = kind /\ old \in Seq(Entry) /\ Grown(new, old, e)
      BY <1>1, <2>1, <2>2, <2>3, <2>4
    <3>1. In(new, kind, of) = In(old, kind, of) \cup {n}
      <4>1. In(new, kind, of) = In(old, kind, of) \cup {Len(old) + 1}
        BY <3>0, GrownByIt
      <4>. QED BY <4>1, <2>3
    <3>. QED BY <3>1 DEF Adds
  <2>5. ASSUME NEW kind, e.kind # kind \/ of # a
        PROVE  In(new, kind, of) = In(old, kind, of)
    BY <1>1, <2>1, <2>2, <2>3, <2>5, GrownByAnother
  <2>6. CASE c = a
    <3>1. e.kind = "welcome" /\ e.kind # "referrer"
      BY <2>1, <2>6
    <3>2. In(new, "referrer", of) = In(old, "referrer", of)
      BY <3>1, <2>5
    <3>3. of = a => Adds(new, old, "welcome", of)
      BY <3>1, <2>4
    <3>4. of # a => In(new, "welcome", of) = In(old, "welcome", of)
      BY <2>5
    <3>. QED BY <1>3, <2>3, <2>6, <3>2, <3>3, <3>4
  <2>7. CASE c # a
    <3>1. e.kind = "referrer" /\ e.kind # "welcome"
      BY <2>1, <2>7
    <3>2. In(new, "welcome", of) = In(old, "welcome", of)
      BY <3>1, <2>5
    <3>3. of = a => Adds(new, old, "referrer", of)
      BY <3>1, <2>4
    <3>4. of # a => In(new, "referrer", of) = In(old, "referrer", of)
      BY <2>5
    <3>. QED BY <1>3, <2>3, <2>7, <3>2, <3>3, <3>4
  <2>. QED BY <2>6, <2>7
<1>. QED BY <1>2, <1>3

(* Who is to be paid.                                                      *)
LEMMA WhoIsPaid ==
  ASSUME NEW c, NEW D \in SUBSET Referrals, \A p \in D : p[2] = c
  PROVE  /\ c \in ToPay(c, D) <=> Welcomes(c) = {}
         /\ \A p \in Referrals : p[2] = c => (p[1] \in ToPay(c, D) <=> p \in D)
         /\ \A p \in D : p[1] \in ToPay(c, D) /\ p[1] # c
<1>1. Entries(c, "welcome", c) = Welcomes(c)
  BY DEF Entries, Welcomes, In
<1>2. \A p \in Referrals : p = <<p[1], p[2]>> /\ p[1] # p[2]
  BY DEF Referrals
<1>3. ToPay(c, D) = {p[1] : p \in D} \cup (IF Welcomes(c) = {} THEN {c} ELSE {})
  BY <1>1 DEF ToPay
<1>. QED BY <1>2, <1>3

(* Everybody has had their turn once nobody has one.                       *)
LEMMA TurnsEnd ==
  ASSUME Types, NEW w \in Workers, task[w].at = "payout", Pays(task[w]), Turn(task[w]) = {},
         ~history["off"]
  PROVE  task[w].locked = ToPay(task[w].customer, task[w].due)
<1>1. PICK c, D, A : c = task[w].customer /\ D = task[w].due /\ A = task[w].asked
  OBVIOUS
<1>2. /\ D \in SUBSET Referrals /\ D # {} /\ \A p \in D : p[2] = c
      /\ A \subseteq ToPay(c, D) /\ task[w].locked = A
  BY <1>1, PayoutTyped DEF Pays
<1>3. PICK left : left = ToPay(c, D) \ A
  OBVIOUS
<1>4. left \ {c} = {} /\ ~(A # {} /\ c \in left)
  BY <1>1, <1>3 DEF Turn
<1>5. PICK p \in D : p[1] \in ToPay(c, D) /\ p[1] # c
  BY <1>2, WhoIsPaid
<1>6. A # {}
  BY <1>3, <1>4, <1>5
<1>7. left = {}
  BY <1>4, <1>6
<1>8. ToPay(c, D) \subseteq A
  BY <1>3, <1>7
<1>9. A = ToPay(c, D)
  BY <1>2, <1>8
<1>. QED BY <1>1, <1>2, <1>9

LEMMA OwedCommitted ==
  ASSUME Types, Referred, NEW w \in Workers, CommitPayout(w), NEW p \in Referrals
  PROVE  Owed(p)'
<1>1. PICK c, D, L : c = task[w].customer /\ D = task[w].due /\ L = task[w].locked
  OBVIOUS
<1>2. task[w].at = "payout" /\ Turn(task[w]) = {} /\ Pays(task[w]) /\ Owed(p)
  BY DEF CommitPayout, Referred
<1>3. /\ D \in SUBSET Referrals /\ c \in Customers
      /\ \A q \in D : q[2] = c /\ referral[q] = "PENDING"
      /\ L \subseteq ToPay(c, D)
      /\ ~history["off"] => L = ToPay(c, D)
  BY <1>1, <1>2, PayoutTyped, TurnsEnd DEF Pays
<1>4. /\ c \in ToPay(c, D) <=> Welcomes(c) = {}
      /\ p[2] = c => (p[1] \in ToPay(c, D) <=> p \in D)
  BY <1>3, WhoIsPaid
<1>5. p[1] \in Customers /\ p[2] \in Customers /\ p[1] # p[2]
  BY DEF Referrals
<1>6. referral'[p] = IF p \in D THEN "AWARDED" ELSE referral[p]
  BY <1>1 DEF CommitPayout
<1>7. history' = history
  BY DEF CommitPayout
<1>8. /\ p[1] \in L /\ p[2] = c => \E n : (Bonuses(p))' = Bonuses(p) \cup {n}
      /\ ~(p[1] \in L /\ p[2] = c) => (Bonuses(p))' = Bonuses(p)
  <2>1. PICK d, of : d = p[1] /\ of = p[2] /\ d \in Customers
    BY <1>5
  <2>2. /\ d \in L /\ d # c /\ of = c => Adds(ledger'[d], ledger[d], "referrer", of)
        /\ ~(d \in L /\ d # c /\ of = c) =>
             In(ledger'[d], "referrer", of) = In(ledger[d], "referrer", of)
    BY <1>1, <2>1, PayoutEntries
  <2>3. Bonuses(p) = In(ledger[d], "referrer", of) /\ (Bonuses(p))' = In(ledger'[d], "referrer", of)
    BY <2>1 DEF Bonuses
  <2>. QED BY <1>5, <2>1, <2>2, <2>3 DEF Adds
<1>9. /\ p[2] \in L /\ p[2] = c => \E n : (Welcomes(p[2]))' = Welcomes(p[2]) \cup {n}
      /\ ~(p[2] \in L /\ p[2] = c) => (Welcomes(p[2]))' = Welcomes(p[2])
  <2>1. PICK d, of : d = p[2] /\ of = p[2] /\ d \in Customers
    BY <1>5
  <2>2. /\ d \in L /\ d = c /\ of = c => Adds(ledger'[d], ledger[d], "welcome", of)
        /\ ~(d \in L /\ d = c /\ of = c) =>
             In(ledger'[d], "welcome", of) = In(ledger[d], "welcome", of)
    BY <1>1, <2>1, PayoutEntries
  <2>3. Welcomes(d) = In(ledger[d], "welcome", d) /\ (Welcomes(d))' = In(ledger'[d], "welcome", d)
    BY DEF Welcomes
  <2>. QED BY <2>1, <2>2, <2>3 DEF Adds
<1>10. CASE p[2] # c
  <2>1. p \notin D
    BY <1>3, <1>10
  <2>. QED BY <2>1, <1>2, <1>6, <1>7, <1>8, <1>9, <1>10 DEF Owed
<1>11. CASE p[2] = c
  <2>1. /\ (Welcomes(c))' = {} \/ Once((Welcomes(c))')
        /\ ~history["off"] => (Welcomes(c))' # {}
    <3>1. CASE c \in L
      <4>1. Welcomes(c) = {}
        BY <3>1, <1>3, <1>4
      <4>2. PICK n : (Welcomes(c))' = {n}
        BY <3>1, <4>1, <1>9, <1>11
      <4>. QED BY <4>2 DEF Once
    <3>2. CASE c \notin L
      <4>1. (Welcomes(c))' = Welcomes(c)
        BY <3>2, <1>9, <1>11
      <4>2. ~history["off"] => Welcomes(c) # {}
        BY <3>2, <1>3, <1>4
      <4>. QED BY <4>1, <4>2, <1>2, <1>11 DEF Owed
    <3>. QED BY <3>1, <3>2
  <2>2. /\ (Bonuses(p))' = {} \/ (Once((Bonuses(p))') /\ referral'[p] = "AWARDED")
        /\ referral'[p] = "AWARDED" /\ ~history["off"] => (Bonuses(p))' # {}
    <3>1. CASE p[1] \in L
      <4>1. p \in D /\ referral[p] = "PENDING" /\ referral'[p] = "AWARDED"
        BY <3>1, <1>3, <1>4, <1>6, <1>11
      <4>2. Bonuses(p) = {}
        BY <4>1, <1>2 DEF Owed
      <4>3. PICK n : (Bonuses(p))' = {n}
        BY <3>1, <4>2, <1>8, <1>11
      <4>. QED BY <4>1, <4>3 DEF Once
    <3>2. CASE p[1] \notin L
      <4>1. (Bonuses(p))' = Bonuses(p)
        BY <3>2, <1>8
      <4>2. CASE p \in D
        <5>1. Bonuses(p) = {}
          BY <4>2, <1>2, <1>3 DEF Owed
        <5>2. history["off"]
          BY <3>2, <4>2, <1>3, <1>4, <1>11
        <5>. QED BY <4>1, <5>1, <5>2
      <4>3. CASE p \notin D
        BY <4>1, <4>3, <1>2, <1>6 DEF Owed
      <4>. QED BY <4>2, <4>3
    <3>. QED BY <3>1, <3>2
  <2>. QED BY <2>1, <2>2, <1>7, <1>11 DEF Owed
<1>. QED BY <1>10, <1>11

LEMMA OwedStep ==
  ASSUME Types, Referred, [Next]_vars, NEW p \in Referrals
  PROVE  Owed(p)'
<1>0. TypeOK /\ Owed(p) /\ (history["off"] => history'["off"]) /\ p[2] \in Customers
  BY HistoryGrows DEF Types, Referred, Recalls, Referrals
<1>1. CASE UNCHANGED referral /\ (Moves(Plain) \/ UNCHANGED ledger)
  <2>1. (Bonuses(p))' = Bonuses(p) /\ (Welcomes(p[2]))' = Welcomes(p[2])
    BY <1>0, <1>1, PlainEntries
  <2>. QED BY <2>1, <1>0, <1>1 DEF Owed
<1>2. ASSUME NEW q \in Referrals, RecordReferral(q) PROVE Owed(p)'
  <2>1. (Bonuses(p))' = Bonuses(p) /\ (Welcomes(p[2]))' = Welcomes(p[2])
    BY <1>2, <1>0, PlainEntries DEF RecordReferral
  <2>2. referral'[p] = referral[p] \/ (referral[p] = "none" /\ referral'[p] = "PENDING")
    BY <1>0, <1>2 DEF TypeOK, RecordReferral
  <2>. QED BY <2>1, <2>2, <1>0 DEF Owed
<1>. QED BY <1>1, <1>2, OwedCommitted, StepReferrals

(* What a payout under way relies on, after a step that is not its own.    *)
LEMMA PaysOn ==
  ASSUME Types, Recalls, NEW w \in Workers, task[w].at = "payout", Pays(task[w]),
         NEW c, c = task[w].customer, NEW D, D = task[w].due,
         \A p \in D : referral'[p] = referral[p],
         (Welcomes(c))' = Welcomes(c),
         NEW t, t = task[w]
  PROVE  Pays(t)'
<1>1. c = t.customer /\ D = t.due
  OBVIOUS
<1>2. D \in SUBSET Referrals /\ D # {} /\ \A p \in D : p[2] = c /\ referral'[p] = "PENDING"
  BY <1>1, PayoutTyped DEF Pays
<1>3. (ToPay(c, D))' = ToPay(c, D)
  <2>1. Entries(c, "welcome", c) = Welcomes(c) /\ (Entries(c, "welcome", c))' = (Welcomes(c))'
    BY DEF Entries, Welcomes, In
  <2>2. (Welcomes(c))' = Welcomes(c)
    BY <1>1
  <2>. QED BY <2>1, <2>2 DEF ToPay
<1>4. t.locked \subseteq t.asked /\ t.asked \subseteq (ToPay(c, D))'
      /\ (~history'["off"] => t.asked = t.locked)
  BY <1>1, <1>3 DEF Pays, Recalls
<1>. QED BY <1>1, <1>2, <1>4 DEF Pays

(* The referrals and the welcome of a company are its own payout's.        *)
LEMMA PayoutsApart ==
  ASSUME Types, Referred, [Next]_vars, NEW v \in Workers, task[v].at = "payout",
         \A w \in Workers \ {v} : task[w].at = "payout" => task[w].customer # task[v].customer,
         ~CommitPayout(v), NEW c, c = task[v].customer, NEW D, D = task[v].due
  PROVE  /\ \A p \in D : referral'[p] = referral[p]
         /\ (Welcomes(c))' = Welcomes(c)
<1>2. /\ c \in Customers /\ D \in SUBSET Referrals
      /\ \A p \in D : p[2] = c /\ referral[p] = "PENDING"
  BY PayoutTyped DEF Referred, Pays
<1>3. CASE UNCHANGED referral /\ (Moves(Plain) \/ UNCHANGED ledger)
  BY <1>2, <1>3, PlainEntries DEF Types
<1>4. ASSUME NEW w \in Workers, CommitPayout(w)
      PROVE  /\ \A p \in D : referral'[p] = referral[p]
             /\ (Welcomes(c))' = Welcomes(c)
  <2>1. PICK a, E : a = task[w].customer /\ E = task[w].due
    OBVIOUS
  <2>2. w # v /\ task[w].at = "payout" /\ a # c
    <3>1. task[w].at = "payout"
      BY <1>4 DEF CommitPayout
    <3>2. w # v
      BY <1>4
    <3>. QED BY <3>1, <3>2, <2>1
  <2>3. \A p \in E : p[2] = a
    BY <2>1, <2>2 DEF Referred, Pays
  <2>4. \A p \in D : referral'[p] = referral[p]
    BY <1>2, <1>4, <2>1, <2>2, <2>3 DEF CommitPayout
  <2>5. In(ledger'[c], "welcome", c) = In(ledger[c], "welcome", c)
    BY <1>2, <1>4, <2>1, <2>2, PayoutEntries
  <2>. QED BY <2>4, <2>5 DEF Welcomes
<1>5. ASSUME NEW q \in Referrals, RecordReferral(q)
      PROVE  /\ \A p \in D : referral'[p] = referral[p]
             /\ (Welcomes(c))' = Welcomes(c)
  BY <1>2, <1>5 DEF Types, TypeOK, RecordReferral, Welcomes
<1>. QED BY <1>3, <1>4, <1>5, StepReferrals

LEMMA PaysOpened ==
  ASSUME Types, NEW w \in Workers, OpenPayout(w), NEW t, Goes(w, t), t.at = "payout"
  PROVE  /\ Pays(t)'
         /\ \A v \in Workers : task[v].at = "payout" => task[v].customer # t.customer
<1>1. task'[w] = t
  BY WorkerGoes DEF Types
<1>2. PICK c \in Customers, due \in SUBSET Referrals, u \in Task :
        /\ Goes(w, u)
        /\ u = [at |-> "payout", customer |-> c, due |-> due, asked |-> {}, locked |-> {}]
        /\ due # {} /\ \A p \in due : p[2] = c /\ referral[p] = "PENDING"
        /\ MayPay(c)
  <2>1. ~Goes(w, Idle)
    <3>1. Goes(w, Idle) => task'[w] = Idle
      BY WorkerGoes DEF Types
    <3>. QED BY <3>1, <1>1, IdleCarries
  <2>. QED BY <2>1, OpenPayoutGoes
<1>3. u = t
  <2>1. task'[w] = u
    BY <1>2, WorkerGoes DEF Types
  <2>. QED BY <1>1, <2>1
<1>4. t.customer = c /\ t.due = due /\ t.asked = {} /\ t.locked = {}
  BY <1>2, <1>3
<1>5. UNCHANGED referral
  BY DEF OpenPayout
<1>. QED BY <1>2, <1>4, <1>5 DEF Pays, MayPay

LEMMA PaysLocked ==
  ASSUME Types, Referred, NEW w \in Workers, LockReward(w), NEW t, Goes(w, t)
  PROVE  Pays(t)' /\ task[w].at = "payout" /\ t.customer = task[w].customer
<1>1. task'[w] = t
  BY WorkerGoes DEF Types
<1>2. PICK c \in Turn(task[w]), u \in Task :
        /\ Goes(w, u)
        /\ u = [at |-> "payout", customer |-> task[w].customer, due |-> task[w].due,
                asked |-> task[w].asked \cup {c},
                locked |-> IF active THEN task[w].locked \cup {c} ELSE task[w].locked]
  BY LockGoes
<1>3. u = t
  <2>1. task'[w] = u
    BY <1>2, WorkerGoes DEF Types
  <2>. QED BY <1>1, <2>1
<1>4. PICK a, D, A, L : /\ a = task[w].customer /\ D = task[w].due
                        /\ A = task[w].asked /\ L = task[w].locked
  OBVIOUS
<1>5. task[w].at = "payout" /\ Pays(task[w]) /\ (~history["off"] => active)
  BY LockGoes DEF Referred
<1>6. /\ t.customer = a /\ t.due = D /\ t.asked = A \cup {c}
      /\ t.locked = IF active THEN L \cup {c} ELSE L
  BY <1>2, <1>3, <1>4
<1>7. c \in ToPay(a, D)
  BY <1>4, <1>5, PayoutTyped
<1>8. UNCHANGED referral /\ UNCHANGED ledger /\ UNCHANGED history
  BY DEF LockReward
<1>9. (ToPay(a, D))' = ToPay(a, D)
  BY <1>8 DEF ToPay, Entries
<1>10. /\ D # {} /\ \A p \in D : p[2] = a /\ referral[p] = "PENDING"
       /\ L \subseteq A /\ A \subseteq ToPay(a, D)
       /\ ~history["off"] => A = L
  BY <1>4, <1>5 DEF Pays
<1>11. /\ t.locked \subseteq t.asked /\ t.asked \subseteq (ToPay(a, D))'
       /\ ~history'["off"] => t.asked = t.locked
  BY <1>5, <1>6, <1>7, <1>8, <1>9, <1>10
<1>. QED BY <1>4, <1>5, <1>6, <1>8, <1>10, <1>11 DEF Pays

(* The payouts under way after a step.                                     *)
LEMMA PaysStep ==
  ASSUME Types, Referred, [Next]_vars
  PROVE  (\A w \in Workers : Pays(task[w]))' /\ OnePayout'
<1>0. TypeOK /\ Recalls
  BY HistoryGrows DEF Types
<1>1. ASSUME NEW v \in Workers, task[v].at = "payout", ~CommitPayout(v), NEW t, t = task[v]
      PROVE  Pays(t)'
  <2>1. \A w \in Workers \ {v} : task[w].at = "payout" => task[w].customer # task[v].customer
    BY <1>1 DEF Referred, OnePayout
  <2>2. Pays(task[v])
    BY DEF Referred
  <2>3. PICK c, D : c = task[v].customer /\ D = task[v].due
    OBVIOUS
  <2>4. (\A p \in D : referral'[p] = referral[p]) /\ (Welcomes(c))' = Welcomes(c)
    BY <1>1, <2>1, <2>3, PayoutsApart
  <2>. QED BY <1>0, <1>1, <2>2, <2>3, <2>4, PaysOn
<1>2. ASSUME NEW v \in Workers, task'[v] = task[v], NEW t, t = task'[v]
      PROVE  Pays(t)'
  <2>1. CASE t.at # "payout"
    BY <2>1 DEF Pays
  <2>2. CASE t.at = "payout"
    <3>1. ~CommitPayout(v)
      <4>1. CommitPayout(v) => task'[v] = Idle
        BY <1>0 DEF TypeOK, CommitPayout
      <4>. QED BY <4>1, <1>2, <2>2, IdleCarries
    <3>. QED BY <1>1, <1>2, <2>2, <3>1
  <2>. QED BY <2>1, <2>2
<1>3. CASE UNCHANGED task
  <2>1. \A v \in Workers : (Pays(task[v]))'
    <3>. SUFFICES ASSUME NEW v \in Workers PROVE (Pays(task[v]))'
      OBVIOUS
    <3>1. PICK t : t = task'[v]
      OBVIOUS
    <3>2. Pays(t)'
      BY <1>2, <1>3, <3>1
    <3>. QED BY <3>1, <3>2 DEF Pays
  <2>2. OnePayout'
    BY <1>3 DEF Referred, OnePayout
  <2>. QED BY <2>1, <2>2
<1>4. ASSUME NEW w \in Workers, NEW t, Passes(w, t)
      PROVE  (\A v \in Workers : Pays(task[v]))' /\ OnePayout'
  <2>1. \A v \in Workers : task'[v] = IF v = w THEN t ELSE task[v]
    BY <1>0, <1>4, WorkerGoes DEF Passes
  <2>2. /\ Pays(t)'
        /\ t.at = "payout" =>
             \A v \in Workers \ {w} : task[v].at = "payout" => task[v].customer # t.customer
    <3>1. CASE t.at # "payout"
      BY <3>1 DEF Pays
    <3>2. CASE t.at = "payout" /\ OpenPayout(w)
      BY <1>4, <3>2, PaysOpened DEF Passes
    <3>3. CASE t.at = "payout" /\ LockReward(w)
      BY <1>4, <3>3, PaysLocked DEF Passes, Referred, OnePayout
    <3>. QED BY <3>1, <3>2, <3>3, <1>4 DEF Passes
  <2>3. \A v \in Workers : (Pays(task[v]))'
    <3>. SUFFICES ASSUME NEW v \in Workers PROVE (Pays(task[v]))'
      OBVIOUS
    <3>1. PICK u : u = task'[v]
      OBVIOUS
    <3>2. Pays(u)'
      BY <1>2, <2>1, <2>2, <3>1
    <3>. QED BY <3>1, <3>2 DEF Pays
  <2>4. OnePayout'
    BY <2>1, <2>2 DEF Referred, OnePayout
  <2>. QED BY <2>3, <2>4
<1>. QED BY <1>3, <1>4, StepPasses

LEMMA ReferredStep == Types /\ Referred /\ [Next]_vars => Referred'
<1>. SUFFICES ASSUME Types, Referred, [Next]_vars PROVE Referred'
  OBVIOUS
<1>1. (~history["off"] => active)'
  <2>1. CASE SwitchProgram
    BY <2>1 DEF Types, TypeOK, SwitchProgram
  <2>2. CASE UNCHANGED active
    BY <2>2, HistoryGrows DEF Referred, Recalls
  <2>3. SwitchProgram \/ UNCHANGED active
    <3>1. ASSUME NEW w \in Workers, Request(w) PROVE UNCHANGED active
      BY <3>1 DEF Request, CompleteJob, OpenDenial, OpenCancel, Fulfil, Apply, Hold, OpenExpiry, OpenFix
    <3>2. ASSUME NEW w \in Workers, Proceed(w) PROVE UNCHANGED active
      BY <3>2 DEF Proceed, Settle, Earn, EarnMilestone, OpenPayout, LockReward, CommitPayout,
                  Save, CommitDenial, CommitCancel, Expire, Fix
    <3>. QED BY <3>1, <3>2 DEF Next, vars, Crash, BreakDeadlock, RecordReferral, TimePasses, Redeem, Adjust
  <2>. QED BY <2>1, <2>2, <2>3
<1>2. \A p \in Referrals : Owed(p)'
  BY OwedStep
<1>. QED BY <1>1, <1>2, PaysStep DEF Referred

(* However completions overlap, deadlock and crash, a referral pays its    *)
(* referrer once, and exactly if it is AWARDED while the program was never *)
(* off, and a company is welcomed once.                                    *)
THEOREM ReferralsPayOnce == Spec => []ReferralPaysOnce
<1>1. Init => Types /\ Referred
  BY TypesInit, ReferredInit
<1>2. (Types /\ Referred) /\ [Next]_vars => (Types /\ Referred)'
  BY TypesStep, ReferredStep
<1>3. Types /\ Referred => ReferralPaysOnce
  <2>. SUFFICES ASSUME Types, Referred, NEW p \in Referrals,
                       NEW paid, paid = Entries(p[1], "referrer", p[2]),
                       NEW welcome, welcome = Entries(p[2], "welcome", p[2])
                PROVE  /\ paid = {} \/ (Once(paid) /\ referral[p] = "AWARDED")
                       /\ welcome = {} \/ Once(welcome)
                       /\ referral[p] = "AWARDED" /\ ~history["off"] => paid # {} /\ welcome # {}
    BY DEF ReferralPaysOnce
  <2>1. paid = Bonuses(p) /\ welcome = Welcomes(p[2])
    BY DEF Entries, In, Bonuses, Welcomes
  <2>. QED BY <2>1 DEF Referred, Owed
<1>. QED BY <1>1, <1>2, <1>3, PTL DEF Spec
=============================================================================
