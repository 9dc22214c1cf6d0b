--------------------------- MODULE JobBilling_proofs ---------------------------
(***************************************************************************)
(* Proofs about JobBilling, for any jobs, batches, workers and bounds: a   *)
(* job is billed once, numbers in flight are free, SENT means mailed, and  *)
(* the purge takes only what it may.                                       *)
(***************************************************************************)
EXTENDS JobBilling, SequenceTheorems, NaturalsInduction, WellFoundedInduction, TLAPS

(* A nonempty set of numbers has a least one.                              *)
LEMMA MinIsLeast ==
  ASSUME NEW S \in SUBSET Nat, S # {}
  PROVE  Min(S) \in S /\ \A y \in S : Min(S) <= y
<1>1. OpToRel(<, Nat) = {ss \in Nat \X Nat : ss[1] < ss[2]}
  BY DEF OpToRel
<1>2. PICK x \in S : \A y \in S : ~(<<y, x>> \in OpToRel(<, Nat))
  BY NatLessThanWellFounded, WFMin
<1>3. ASSUME NEW y \in S PROVE x <= y
  <2>1. <<y, x>> \in Nat \X Nat /\ <<y, x>>[1] = y /\ <<y, x>>[2] = x
    OBVIOUS
  <2>2. <<y, x>> \notin {ss \in Nat \X Nat : ss[1] < ss[2]}
    BY <1>1, <1>2
  <2>3. ~(y < x)
    BY <2>1, <2>2
  <2>. QED BY <2>3
<1>. QED BY <1>3 DEF Min

-----------------------------------------------------------------------------
(* Rows                                                                    *)

Rows == 1..Len(invoices)

LEMMA RowsTyped ==
  ASSUME invoices \in Seq(Invoice)
  PROVE  /\ Len(invoices) \in Nat
         /\ DOMAIN invoices = Rows
         /\ \A i \in Rows : invoices[i] \in Invoice
BY LenProperties, ElementOfSeq DEF Rows

(* A row for every row, and none besides.                                  *)
LEMMA RowsRewritten ==
  ASSUME invoices \in Seq(Invoice),
         invoices' = [i \in DOMAIN invoices |-> invoices'[i]],
         \A i \in Rows : invoices'[i] \in Invoice
  PROVE  /\ invoices' \in Seq(Invoice)
         /\ Len(invoices') = Len(invoices)
<1>1. Len(invoices) \in Nat /\ DOMAIN invoices = 1..Len(invoices)
  BY RowsTyped DEF Rows
<1>2. invoices' \in [1..Len(invoices) -> Invoice]
  BY <1>1 DEF Rows
<1>3. invoices' \in Seq(Invoice)
  BY <1>1, <1>2, SeqDef
<1>4. Len(invoices') \in Nat /\ DOMAIN invoices' = 1..Len(invoices')
  BY <1>3, LenProperties
<1>5. 1..Len(invoices') = 1..Len(invoices)
  BY <1>2, <1>4
<1>. QED BY <1>1, <1>3, <1>4, <1>5

LEMMA RowAdded ==
  ASSUME invoices \in Seq(Invoice), NEW r \in Invoice, invoices' = Append(invoices, r)
  PROVE  /\ invoices' \in Seq(Invoice)
         /\ Len(invoices') = Len(invoices) + 1
         /\ \A i \in Rows : invoices'[i] = invoices[i]
         /\ invoices'[Len(invoices) + 1] = r
BY AppendProperties, RowsTyped DEF Rows

-----------------------------------------------------------------------------
(* Types                                                                   *)

Types ==
  /\ TypeOK
  /\ \A w \in Workers : Holding(w) => worker[w].number \in Numbers
  /\ \A w \in Workers : worker[w].rows \subseteq Rows /\ worker[w].saw <= Len(invoices)
  /\ \A v, w \in lock : v = w

LEMMA TypesInit == Init => Types
<1>. SUFFICES ASSUME Init PROVE Types
  OBVIOUS
<1>1. invoices \in Seq(Invoice) /\ Len(invoices) = 0
  BY EmptySeq DEF Init
<1>2. Idle \in Request /\ Idle.step = "idle" /\ Idle.rows = {} /\ Idle.saw = 0
  BY BoundAssumption DEF Idle, Request, Steps
<1>3. job \in [Jobs -> [done : BOOLEAN, deleted : 0..MaxDay, gone : BOOLEAN]]
  BY BoundAssumption DEF Init
<1>4. worker \in [Workers -> Request] /\ \A w \in Workers : worker[w] = Idle
  BY <1>2 DEF Init
<1>. QED BY <1>1, <1>2, <1>3, <1>4, BoundAssumption DEF Init, Types, TypeOK, Holding, Rows, Days

Own(t) == t.step \in {"creating", "open"} => t.number \in Numbers

(* One worker goes on.                                                     *)
LEMMA WorkerGoesOn ==
  ASSUME Types, NEW w \in Workers, NEW t, Becomes(w, t)
  PROVE  \A v \in Workers : worker'[v] = IF v = w THEN t ELSE worker[v]
BY DEF Types, TypeOK, Becomes

LEMMA TypesMove ==
  ASSUME Types, NEW w \in Workers, NEW t \in Request, Becomes(w, t), Own(t),
         t.rows \subseteq Rows', t.saw <= Len(invoices'),
         invoices' \in Seq(Invoice), Len(invoices) <= Len(invoices'), Len(invoices') <= MaxInvoices,
         lock' = IF t.step = "open" THEN {w} ELSE lock \ {w},
         t.step = "open" => lock \subseteq {w},
         job' \in [Jobs -> [done : BOOLEAN, deleted : 0..MaxDay, gone : BOOLEAN]],
         next' \in 1..(MaxNumber + 1), today' \in Days, crashes' \in 0..MaxCrashes
  PROVE  Types'
<1>1. \A v \in Workers : worker'[v] = IF v = w THEN t ELSE worker[v]
  BY WorkerGoesOn
<1>2. worker' \in [Workers -> Request]
  BY DEF Types, TypeOK, Becomes
<1>3. lock = {v \in Workers : worker[v].step = "open"}
  BY DEF Types, TypeOK
<1>4. lock' = {v \in Workers : worker'[v].step = "open"}
  BY <1>1, <1>3
<1>5. \A v \in Workers : Own(worker'[v])
  BY <1>1 DEF Types, Holding, Own
<1>6. Rows \subseteq Rows' /\ Len(invoices) \in Nat /\ Len(invoices') \in Nat
  BY LenProperties DEF Types, TypeOK, Rows
<1>7. \A v \in Workers : worker'[v].rows \subseteq Rows' /\ worker'[v].saw <= Len(invoices')
  <2>1. \A v \in Workers : worker[v].rows \subseteq Rows /\ worker[v].saw <= Len(invoices)
                             /\ worker[v].saw \in Nat
    BY BoundAssumption DEF Types, TypeOK, Request
  <2>. QED BY <1>1, <1>6, <2>1
<1>8. \A u, v \in lock' : u = v
  BY DEF Types
<1>9. TypeOK'
  BY <1>2, <1>4 DEF TypeOK
<1>. QED BY <1>5, <1>7, <1>8, <1>9 DEF Types, Holding, Own

-----------------------------------------------------------------------------
(* What may happen to a row                                                *)

(* The jobs an invoice bills, leaving out what the guarantees leave out.   *)
Firm(r) == IF Active(r) /\ ~r.revived THEN r.jobs \ r.added ELSE {}

Edit(r, q) ==
  /\ q \in Invoice
  /\ q.number = r.number /\ q.saw = r.saw
  /\ Firm(q) \subseteq Firm(r)
  /\ r.status = "GONE" => q.status = "GONE"
  /\ r.revived => q.revived
  /\ Expired(r.deleted) => Expired(q.deleted) \/ q.revived
  /\ r.mailed => q.mailed
  /\ q.status = "SENT" => r.status = "SENT" \/ q.mailed
  /\ Active(r) /\ q.status # "GONE" => r.jobs \subseteq q.jobs

NotPurged(r, q) == r.status # "GONE" => q.status # "GONE"

RowsEdited ==
  /\ invoices' \in Seq(Invoice)
  /\ Len(invoices') = Len(invoices)
  /\ \A i \in Rows : Edit(invoices[i], invoices'[i])

LEMMA NoEdit ==
  ASSUME NEW r \in Invoice
  PROVE  Edit(r, r) /\ NotPurged(r, r)
BY DEF Edit, NotPurged

LEMMA DeliverEdits ==
  ASSUME NEW r \in Invoice
  PROVE  /\ Edit(r, [r EXCEPT !.mailed = TRUE])
         /\ NotPurged(r, [r EXCEPT !.mailed = TRUE])
         /\ [r EXCEPT !.mailed = TRUE].mailed
BY DEF Edit, NotPurged, Invoice, Firm, Active

LEMMA SentEdits ==
  ASSUME NEW r \in Invoice, r.mailed, r.status # "GONE"
  PROVE  LET q == [r EXCEPT !.status = "SENT", !.revived = @ \/ r.status = "CANCELLED"]
         IN  Edit(r, q) /\ NotPurged(r, q)
<1> DEFINE q == [r EXCEPT !.status = "SENT", !.revived = @ \/ r.status = "CANCELLED"]
<1>0. /\ r.status \in Statuses /\ r.number \in Numbers /\ r.jobs \subseteq Jobs /\ r.deleted \in 0..MaxDay
      /\ r.mailed \in BOOLEAN /\ r.revived \in BOOLEAN /\ r.added \subseteq Jobs /\ r.saw \in 0..MaxInvoices
  BY DEF Invoice
<1>1. q.status = "SENT" /\ q.revived = (r.revived \/ r.status = "CANCELLED") /\ q.number = r.number
      /\ q.saw = r.saw /\ q.jobs = r.jobs /\ q.added = r.added /\ q.deleted = r.deleted
      /\ q.mailed = r.mailed
  BY DEF Invoice
<1>2. q \in Invoice
  BY <1>0 DEF Invoice, Statuses
<1> HIDE DEF q
<1>3. Firm(q) \subseteq Firm(r)
  BY <1>0, <1>1 DEF Firm, Active, Statuses
<1>4. Edit(r, q) /\ NotPurged(r, q)
  BY <1>1, <1>2, <1>3 DEF Edit, NotPurged
<1>. QED BY <1>4 DEF q

LEMMA VoidEdits ==
  ASSUME NEW r \in Invoice, Active(r)
  PROVE  Edit(r, [r EXCEPT !.status = "CANCELLED"]) /\ NotPurged(r, [r EXCEPT !.status = "CANCELLED"])
BY DEF Edit, NotPurged, Invoice, Statuses, Firm, Active

LEMMA TrashEdits ==
  ASSUME NEW r \in Invoice, r.deleted = 0, today \in Days
  PROVE  Edit(r, Trash(r)) /\ NotPurged(r, Trash(r))
BY BoundAssumption DEF Edit, NotPurged, Invoice, Firm, Active, Trash, Days, Expired

LEMMA ReviveEdits ==
  ASSUME NEW r \in Invoice, r.deleted # 0
  PROVE  Edit(r, Revive(r)) /\ NotPurged(r, Revive(r))
<1>1. 0 \in 0..MaxDay
  BY BoundAssumption
<1>. QED BY <1>1 DEF Edit, NotPurged, Invoice, Firm, Active, Revive

LEMMA AddEdits ==
  ASSUME NEW r \in Invoice, r.status # "GONE", NEW S \in SUBSET Jobs
  PROVE  LET q == [r EXCEPT !.jobs = @ \cup S, !.added = @ \cup S, !.status = "DRAFT",
                            !.deleted = 0, !.revived = @ \/ ~Active(r)]
         IN  Edit(r, q) /\ NotPurged(r, q)
<1> DEFINE q == [r EXCEPT !.jobs = @ \cup S, !.added = @ \cup S, !.status = "DRAFT",
                          !.deleted = 0, !.revived = @ \/ ~Active(r)]
<1>0. /\ r.status \in Statuses /\ r.number \in Numbers /\ r.jobs \subseteq Jobs /\ r.deleted \in 0..MaxDay
      /\ r.mailed \in BOOLEAN /\ r.revived \in BOOLEAN /\ r.added \subseteq Jobs /\ r.saw \in 0..MaxInvoices
  BY DEF Invoice
<1>1. q.status = "DRAFT" /\ q.revived = (r.revived \/ ~Active(r)) /\ q.number = r.number
      /\ q.saw = r.saw /\ q.jobs = r.jobs \cup S /\ q.added = r.added \cup S /\ q.deleted = 0
      /\ q.mailed = r.mailed
  BY DEF Invoice
<1>2. q \in Invoice
  <2>1. 0 \in 0..MaxDay
    BY BoundAssumption
  <2>2. (r.revived \/ ~Active(r)) \in BOOLEAN
    BY DEF Active
  <2> HIDE DEF Active
  <2>. QED BY <1>0, <2>1, <2>2 DEF Invoice, Statuses
<1> HIDE DEF q
<1>3. Firm(q) \subseteq Firm(r)
  BY <1>0, <1>1 DEF Firm
<1>4. Expired(r.deleted) => q.revived
  <2>1. r.deleted > 0 => ~Active(r)
    BY <1>0, BoundAssumption DEF Active
  <2>2. ~Active(r) => q.revived
    BY <1>1
  <2>. QED BY <2>1, <2>2 DEF Expired
<1>5. Edit(r, q) /\ NotPurged(r, q)
  BY <1>0, <1>1, <1>2, <1>3, <1>4 DEF Edit, NotPurged
<1>. QED BY <1>5 DEF q

(* A purged invoice was listed, a purged line was a deleted invoice's.     *)
LEMMA PurgeEdits ==
  ASSUME NEW r \in Invoice
  PROVE  /\ Edit(r, [r EXCEPT !.status = "GONE", !.jobs = {}, !.added = {}])
         /\ \A S \in SUBSET Jobs : r.deleted # 0 =>
              LET q == [r EXCEPT !.jobs = @ \ S, !.added = @ \ S]
              IN  Edit(r, q) /\ NotPurged(r, q)
<1>1. Edit(r, [r EXCEPT !.status = "GONE", !.jobs = {}, !.added = {}])
  BY DEF Edit, Invoice, Statuses, Firm, Active
<1>2. ASSUME NEW S \in SUBSET Jobs, r.deleted # 0
      PROVE  Edit(r, [r EXCEPT !.jobs = @ \ S, !.added = @ \ S])
             /\ NotPurged(r, [r EXCEPT !.jobs = @ \ S, !.added = @ \ S])
  BY <1>2 DEF Edit, NotPurged, Invoice, Statuses, Firm, Active
<1>. QED BY <1>1, <1>2

-----------------------------------------------------------------------------
(* Which writes are edits                                                  *)

Mailed ==
  /\ SentWasMailed
  /\ \A w \in Workers : worker[w].step = "marking" =>
       \A i \in worker[w].rows : invoices[i].mailed

NonePurged == \A i \in Rows : NotPurged(invoices[i], invoices'[i])

LEMMA EditedRows ==
  ASSUME Types,
         invoices' = [i \in DOMAIN invoices |-> invoices'[i]],
         \A i \in Rows : Edit(invoices[i], invoices'[i])
  PROVE  RowsEdited
BY RowsRewritten DEF Types, TypeOK, RowsEdited, Edit

LEMMA RowsAlike ==
  ASSUME Types, UNCHANGED invoices
  PROVE  RowsEdited /\ NonePurged
BY RowsTyped, NoEdit DEF Types, TypeOK, RowsEdited, NonePurged

(* One function applied to some of the rows.                               *)
LEMMA SomeRows ==
  ASSUME Types, NEW S, NEW F,
         invoices' = [i \in DOMAIN invoices |-> IF i \in S THEN F[i] ELSE invoices[i]],
         \A i \in Rows \cap S : Edit(invoices[i], F[i]) /\ NotPurged(invoices[i], F[i])
  PROVE  RowsEdited /\ NonePurged
<1>1. DOMAIN invoices = Rows /\ \A i \in Rows : invoices[i] \in Invoice
  BY RowsTyped DEF Types, TypeOK
<1>2. \A i \in Rows : invoices'[i] = IF i \in S THEN F[i] ELSE invoices[i]
  BY <1>1
<1>3. invoices' = [i \in DOMAIN invoices |-> invoices'[i]]
  BY <1>1
<1>4. \A i \in Rows : Edit(invoices[i], invoices'[i]) /\ NotPurged(invoices[i], invoices'[i])
  BY <1>1, <1>2, NoEdit
<1>. QED BY <1>3, <1>4, EditedRows DEF NonePurged

LEMMA AddBreaksEdits ==
  ASSUME Types, NEW w \in Workers, AddBreaks(w)
  PROVE  RowsEdited /\ NonePurged
<1> DEFINE S == worker[w].jobs
           Q(r) == [r EXCEPT !.jobs = @ \cup S, !.added = @ \cup S, !.status = "DRAFT",
                             !.deleted = 0, !.revived = @ \/ ~Active(r)]
<1>1. PICK i \in worker[w].rows :
        invoices' = [invoices EXCEPT ![i] = IF invoices[i].status = "GONE" THEN invoices[i]
                                            ELSE Q(invoices[i])]
  BY DEF AddBreaks
<1>2. i \in Rows /\ S \in SUBSET Jobs
  BY DEF Types, TypeOK, Request
<1>3. DOMAIN invoices = Rows /\ invoices[i] \in Invoice
  BY <1>2, RowsTyped DEF Types, TypeOK
<1>4. invoices[i].status # "GONE" => Edit(invoices[i], Q(invoices[i]))
                                     /\ NotPurged(invoices[i], Q(invoices[i]))
  BY <1>2, <1>3, AddEdits
<1>5. Edit(invoices[i], invoices[i]) /\ NotPurged(invoices[i], invoices[i])
  BY <1>3, NoEdit
<1> DEFINE q == IF invoices[i].status = "GONE" THEN invoices[i] ELSE Q(invoices[i])
           F == [k \in Rows |-> q]
<1>6. Edit(invoices[i], q) /\ NotPurged(invoices[i], q)
  BY <1>4, <1>5
<1>7. invoices' = [invoices EXCEPT ![i] = q]
  BY <1>1
<1> HIDE DEF q
<1>8. invoices' = [k \in DOMAIN invoices |-> IF k \in {i} THEN F[k] ELSE invoices[k]]
  BY <1>3, <1>7
<1>9. \A k \in Rows \cap {i} : Edit(invoices[k], F[k]) /\ NotPurged(invoices[k], F[k])
  BY <1>6
<1> HIDE DEF F
<1>. QED BY <1>8, <1>9, SomeRows

LEMMA DeliverEditsRows ==
  ASSUME Types, NEW w \in Workers, Deliver(w)
  PROVE  RowsEdited /\ NonePurged /\ \A i \in worker[w].rows : invoices'[i].mailed
<1> DEFINE F == [i \in Rows |-> [invoices[i] EXCEPT !.mailed = TRUE]]
<1>1. DOMAIN invoices = Rows /\ \A i \in Rows : invoices[i] \in Invoice
  BY RowsTyped DEF Types, TypeOK
<1>2. invoices' = [i \in DOMAIN invoices |-> IF i \in worker[w].rows THEN F[i] ELSE invoices[i]]
  BY <1>1 DEF Deliver
<1>3. \A i \in Rows : Edit(invoices[i], F[i]) /\ NotPurged(invoices[i], F[i]) /\ F[i].mailed
  BY <1>1, DeliverEdits
<1> HIDE DEF F
<1>4. worker[w].rows \subseteq Rows
  BY DEF Types
<1>5. RowsEdited /\ NonePurged
  BY <1>2, <1>3, SomeRows
<1>. QED BY <1>1, <1>2, <1>3, <1>4, <1>5

LEMMA MarkSentEdits ==
  ASSUME Types, Mailed, NEW w \in Workers, MarkSent(w)
  PROVE  RowsEdited /\ NonePurged
<1> DEFINE F == [i \in Rows |-> [invoices[i] EXCEPT !.status = "SENT",
                                   !.revived = @ \/ invoices[i].status = "CANCELLED"]]
           S == {i \in worker[w].rows : invoices[i].status # "GONE"}
<1>1. DOMAIN invoices = Rows /\ \A i \in Rows : invoices[i] \in Invoice
  BY RowsTyped DEF Types, TypeOK
<1>2. invoices' = [i \in DOMAIN invoices |-> IF i \in S THEN F[i] ELSE invoices[i]]
  BY <1>1 DEF MarkSent
<1>3. \A i \in Rows \cap S : invoices[i].mailed /\ invoices[i].status # "GONE"
  BY DEF MarkSent, Mailed
<1>4. \A i \in Rows \cap S : Edit(invoices[i], F[i]) /\ NotPurged(invoices[i], F[i])
  BY <1>1, <1>3, SentEdits
<1> HIDE DEF F, S
<1>. QED BY <1>2, <1>4, SomeRows

LEMMA VoidEditsRows ==
  ASSUME Types, NEW i \in Rows, Void(i)
  PROVE  RowsEdited /\ NonePurged
<1> DEFINE F == [k \in Rows |-> [invoices[i] EXCEPT !.status = "CANCELLED"]]
<1>1. DOMAIN invoices = Rows /\ \A k \in Rows : invoices[k] \in Invoice
  BY RowsTyped DEF Types, TypeOK
<1>2. invoices' = [k \in DOMAIN invoices |-> IF k \in {i} THEN F[k] ELSE invoices[k]]
  BY <1>1 DEF Void
<1>3. Edit(invoices[i], F[i]) /\ NotPurged(invoices[i], F[i])
  BY <1>1, VoidEdits DEF Void
<1>4. \A k \in Rows \cap {i} : Edit(invoices[k], F[k]) /\ NotPurged(invoices[k], F[k])
  BY <1>3
<1> HIDE DEF F
<1>. QED BY <1>2, <1>4, SomeRows

(* Putting rows in the bin, and taking them out.                           *)
LEMMA BinEdits ==
  ASSUME Types, NEW S,
         \/ S \subseteq Kept(Rows) /\ invoices' = Changed(S, Trash)
         \/ S \subseteq Binned(Rows) /\ invoices' = Changed(S, Revive)
  PROVE  RowsEdited /\ NonePurged
<1>1. DOMAIN invoices = Rows /\ \A k \in Rows : invoices[k] \in Invoice
  BY RowsTyped DEF Types, TypeOK
<1>2. CASE S \subseteq Kept(Rows) /\ invoices' = Changed(S, Trash)
  <2> DEFINE F == [k \in Rows |-> Trash(invoices[k])]
  <2>1. invoices' = [k \in DOMAIN invoices |-> IF k \in S THEN F[k] ELSE invoices[k]]
    BY <1>1, <1>2 DEF Changed
  <2>2. \A k \in Rows \cap S : Edit(invoices[k], F[k]) /\ NotPurged(invoices[k], F[k])
    BY <1>1, <1>2, TrashEdits DEF Kept, Types, TypeOK
  <2> HIDE DEF F
  <2>. QED BY <2>1, <2>2, SomeRows
<1>3. CASE S \subseteq Binned(Rows) /\ invoices' = Changed(S, Revive)
  <2> DEFINE F == [k \in Rows |-> Revive(invoices[k])]
  <2>1. invoices' = [k \in DOMAIN invoices |-> IF k \in S THEN F[k] ELSE invoices[k]]
    BY <1>1, <1>3 DEF Changed
  <2>2. \A k \in Rows \cap S : Edit(invoices[k], F[k]) /\ NotPurged(invoices[k], F[k])
    BY <1>1, <1>3, ReviveEdits DEF Binned
  <2> HIDE DEF F
  <2>. QED BY <2>1, <2>2, SomeRows
<1>. QED BY <1>2, <1>3

LEMMA PurgeEditsRows ==
  ASSUME Types, NEW w \in Workers, PurgeDelete(w)
  PROVE  /\ RowsEdited
         /\ \A i \in Rows \ worker[w].rows : NotPurged(invoices[i], invoices'[i])
<1> DEFINE S == worker[w].jobs
           after == [i \in DOMAIN invoices |-> Purged(i, worker[w].rows, S)]
<1>1. DOMAIN invoices = Rows /\ \A k \in Rows : invoices[k] \in Invoice
  BY RowsTyped DEF Types, TypeOK
<1>2. S \in SUBSET Jobs
  BY DEF Types, TypeOK, Request
<1>3. invoices' = after \/ UNCHANGED invoices
  BY DEF PurgeDelete
<1>4. CASE UNCHANGED invoices
  BY <1>4, RowsAlike DEF NonePurged
<1>5. CASE invoices' = after
  <2>1. invoices' = [i \in DOMAIN invoices |-> invoices'[i]]
    BY <1>5
  <2>2. ASSUME NEW i \in Rows
        PROVE  /\ Edit(invoices[i], invoices'[i])
               /\ i \notin worker[w].rows => NotPurged(invoices[i], invoices'[i])
    <3>1. invoices'[i] = Purged(i, worker[w].rows, S) /\ invoices[i] \in Invoice
      BY <1>1, <1>5
    <3>2. CASE i \in worker[w].rows
      BY <1>2, <3>1, <3>2, PurgeEdits DEF Purged
    <3>3. CASE i \in Binned(DOMAIN invoices) \ worker[w].rows
      <4>1. invoices'[i] = [invoices[i] EXCEPT !.jobs = @ \ S, !.added = @ \ S]
        BY <3>1, <3>3 DEF Purged
      <4>2. invoices[i].deleted # 0
        BY <3>3 DEF Binned
      <4>. QED BY <1>2, <3>1, <3>3, <4>1, <4>2, PurgeEdits
    <3>4. CASE i \notin worker[w].rows /\ i \notin Binned(DOMAIN invoices)
      BY <3>1, <3>4, NoEdit DEF Purged
    <3>. QED BY <3>2, <3>3, <3>4
  <2>. QED BY <2>1, <2>2, EditedRows
<1>. QED BY <1>3, <1>4, <1>5

-----------------------------------------------------------------------------
(* The invariant, part by part, and the steps that disturb none of it      *)

Checking == {"numbering", "creating", "listed", "open"}

(* Two invoices, one of which the creator of the other saw, share no job;  *)
(* and no invoice a request saw has a job the request is about to bill.    *)
Billed ==
  /\ \A i, k \in Rows :
       i < k /\ i <= invoices[k].saw => Firm(invoices[i]) \cap Firm(invoices[k]) = {}
  /\ \A w \in Workers : worker[w].step \in Checking =>
       \A i \in Rows : i <= worker[w].saw => Firm(invoices[i]) \cap worker[w].jobs = {}

(* The number of an open batch is not below the counter, that of a request *)
(* is below it unless the counter was moved; it is free and held once.     *)
Numbered ==
  \A w \in Workers :
    /\ worker[w].step = "open" => next <= worker[w].number
    /\ worker[w].step = "creating" /\ ~worker[w].moved => worker[w].number < next
    /\ Holding(w) /\ ~worker[w].moved =>
         /\ ~Taken(worker[w].number)
         /\ \A v \in Workers \ {w} : Holding(v) => worker[v].number # worker[w].number

(* What the purge listed is old enough for as long as it runs.             *)
Listed ==
  \A w \in Workers : worker[w].step = "purging" =>
    /\ \A i \in worker[w].rows : \/ invoices[i].status = "GONE"
                                 \/ Expired(invoices[i].deleted)
                                 \/ invoices[i].revived
    /\ \A j \in worker[w].jobs : job[j].gone \/ Expired(job[j].deleted)

BillingInv == Types /\ Billed /\ Numbered /\ Mailed /\ Listed

Resting == {"idle", "mailing", "marking", "adding"}

Same(t, u) ==
  /\ t.step = u.step /\ t.jobs = u.jobs /\ t.rows = u.rows
  /\ t.number = u.number /\ t.saw = u.saw /\ t.moved = u.moved

(* A worker does nothing that the others could notice.                     *)
Settles(w) == Same(worker[w], worker'[w]) \/ worker'[w].step \in Resting

JobsKept ==
  \A j \in Jobs :
    /\ job[j].gone => job'[j].gone
    /\ Expired(job[j].deleted) => job'[j].deleted = job[j].deleted

Quiet ==
  /\ RowsEdited
  /\ JobsKept
  /\ UNCHANGED <<next, today>>
  /\ \A w \in Workers : Settles(w)

LEMMA BilledQuiet ==
  ASSUME Types, Billed, RowsEdited, \A w \in Workers : Settles(w)
  PROVE  Billed'
<1>1. Rows' = Rows /\ \A i \in Rows : Firm(invoices'[i]) \subseteq Firm(invoices[i])
                                      /\ invoices'[i].saw = invoices[i].saw
  BY DEF RowsEdited, Edit, Rows
<1>2. ASSUME NEW i \in Rows, NEW k \in Rows, i < k, i <= invoices'[k].saw
      PROVE  Firm(invoices'[i]) \cap Firm(invoices'[k]) = {}
  <2>1. Firm(invoices[i]) \cap Firm(invoices[k]) = {}
    BY <1>1, <1>2 DEF Billed
  <2>. QED BY <1>1, <2>1
<1>3. ASSUME NEW w \in Workers, worker'[w].step \in Checking, NEW i \in Rows, i <= worker'[w].saw
      PROVE  Firm(invoices'[i]) \cap worker'[w].jobs = {}
  <2>1. worker[w].step \in Checking /\ worker[w].jobs = worker'[w].jobs
        /\ worker[w].saw = worker'[w].saw
    BY <1>3 DEF Settles, Same, Checking, Resting
  <2>2. Firm(invoices[i]) \cap worker[w].jobs = {}
    BY <1>3, <2>1 DEF Billed
  <2>. QED BY <1>1, <2>1, <2>2
<1>. QED BY <1>1, <1>2, <1>3 DEF Billed, Firm, Active

LEMMA TakenStays ==
  ASSUME Types, RowsEdited, NEW n, Taken(n)'
  PROVE  Taken(n)
<1>1. DOMAIN invoices = Rows /\ DOMAIN invoices' = Rows
  BY RowsTyped, LenProperties DEF Types, TypeOK, RowsEdited, Rows
<1>2. PICK i \in Rows : invoices'[i].status # "GONE" /\ invoices'[i].number = n
  BY <1>1 DEF Taken
<1>3. invoices[i].status # "GONE" /\ invoices[i].number = n
  BY <1>2 DEF RowsEdited, Edit
<1>. QED BY <1>1, <1>3 DEF Taken

LEMMA NumberedQuiet ==
  ASSUME Types, Numbered, Quiet
  PROVE  Numbered'
<1>1. \A w \in Workers : worker'[w].step \in {"creating", "open"} => Same(worker[w], worker'[w])
  BY DEF Quiet, Settles, Resting
<1>2. ASSUME NEW w \in Workers, Holding(w)', ~worker'[w].moved
      PROVE  /\ ~Taken(worker[w].number)'
             /\ \A v \in Workers \ {w} : Holding(v)' => worker'[v].number # worker'[w].number
  <2>1. Same(worker[w], worker'[w]) /\ Holding(w) /\ ~worker[w].moved
    BY <1>1, <1>2 DEF Holding, Same
  <2>2. ~Taken(worker[w].number)
    BY <2>1 DEF Numbered
  <2>3. ~Taken(worker'[w].number)
    BY <2>1, <2>2 DEF Same
  <2>4. ~Taken(worker[w].number)'
    <3>1. SUFFICES ASSUME NEW n, n = worker'[w].number, Taken(n)' PROVE FALSE
      BY DEF Taken
    <3>. QED BY <2>3, <3>1, TakenStays DEF Quiet
  <2>5. ASSUME NEW v \in Workers \ {w}, Holding(v)'
        PROVE  worker'[v].number # worker'[w].number
    BY <1>1, <2>1, <2>5 DEF Numbered, Holding, Same
  <2>. QED BY <2>4, <2>5
<1>3. ASSUME NEW w \in Workers
      PROVE  /\ worker'[w].step = "open" => next' <= worker'[w].number
             /\ worker'[w].step = "creating" /\ ~worker'[w].moved => worker'[w].number < next'
  BY <1>1 DEF Numbered, Quiet, Same
<1>. QED BY <1>2, <1>3 DEF Numbered, Holding, Taken

LEMMA ListedQuiet ==
  ASSUME Types, Listed, Quiet
  PROVE  Listed'
<1>1. SUFFICES ASSUME NEW w \in Workers, worker'[w].step = "purging"
               PROVE  /\ \A i \in worker'[w].rows : \/ invoices'[i].status = "GONE"
                                                    \/ Expired(invoices'[i].deleted)
                                                    \/ invoices'[i].revived
                      /\ \A j \in worker'[w].jobs : job'[j].gone \/ Expired(job'[j].deleted)
  BY DEF Listed, Expired, Quiet
<1>2. Same(worker[w], worker'[w]) /\ worker[w].rows \subseteq Rows /\ worker[w].jobs \subseteq Jobs
  BY <1>1 DEF Quiet, Settles, Resting, Same, Types, TypeOK, Request
<1>3. ASSUME NEW i \in worker'[w].rows
      PROVE  \/ invoices'[i].status = "GONE"
             \/ Expired(invoices'[i].deleted)
             \/ invoices'[i].revived
  <2>1. i \in Rows /\ (invoices[i].status = "GONE" \/ Expired(invoices[i].deleted) \/ invoices[i].revived)
    BY <1>1, <1>2 DEF Listed, Same
  <2>2. Edit(invoices[i], invoices'[i])
    BY <2>1 DEF Quiet, RowsEdited
  <2>. QED BY <2>1, <2>2 DEF Edit
<1>4. ASSUME NEW j \in worker'[w].jobs
      PROVE  job'[j].gone \/ Expired(job'[j].deleted)
  <2>1. j \in Jobs /\ (job[j].gone \/ Expired(job[j].deleted))
    BY <1>1, <1>2 DEF Listed, Same
  <2>. QED BY <2>1 DEF Quiet, JobsKept
<1>. QED BY <1>3, <1>4

LEMMA MailedEdited ==
  ASSUME Types, Mailed, RowsEdited,
         \A w \in Workers : worker'[w].step = "marking" =>
            \/ worker[w].step = "marking" /\ worker'[w].rows = worker[w].rows
            \/ \A i \in worker'[w].rows : invoices'[i].mailed
  PROVE  Mailed'
<1>1. DOMAIN invoices = Rows /\ DOMAIN invoices' = Rows /\ Rows' = Rows
  BY RowsTyped, LenProperties DEF Types, TypeOK, RowsEdited, Rows
<1>2. \A i \in Rows : Edit(invoices[i], invoices'[i])
  BY DEF RowsEdited
<1>3. \A i \in Rows : invoices'[i].status = "SENT" => invoices'[i].mailed
  BY <1>1, <1>2 DEF Mailed, SentWasMailed, Edit
<1>4. ASSUME NEW w \in Workers, worker'[w].step = "marking", NEW i \in worker'[w].rows
      PROVE  invoices'[i].mailed
  <2>1. CASE worker[w].step = "marking" /\ worker'[w].rows = worker[w].rows
    <3>1. i \in Rows /\ invoices[i].mailed
      BY <1>4, <2>1 DEF Types, Mailed
    <3>. QED BY <1>2, <3>1 DEF Edit
  <2>. QED BY <1>4, <2>1
<1>. QED BY <1>1, <1>3, <1>4 DEF Mailed, SentWasMailed

(* A row is added by a worker that was checking.                           *)
RowAdd(w, r) ==
  /\ r \in Invoice
  /\ invoices' = Append(invoices, r)
  /\ worker[w].step \in Checking
  /\ r.number = worker[w].number
  /\ r.jobs = worker[w].jobs
  /\ r.saw = worker[w].saw
  /\ r.status = "SENT" => r.mailed
  /\ worker'[w].step \in {"idle", "mailing"}
  /\ \A v \in Workers \ {w} : worker'[v] = worker[v]

LEMMA BilledAdd ==
  ASSUME Types, Billed, NEW w \in Workers, NEW r, RowAdd(w, r)
  PROVE  Billed'
<1> DEFINE n == Len(invoices) + 1
<1>1. /\ Len(invoices) \in Nat
      /\ \A i \in Rows : invoices'[i] = invoices[i]
      /\ invoices'[n] = r
      /\ Rows' = Rows \cup {n}
  BY RowAdded, RowsTyped DEF Types, TypeOK, RowAdd, Rows
<1>2. Firm(r) \subseteq worker[w].jobs
  BY DEF Firm, RowAdd
<1>3. worker[w].saw \in Nat
  BY BoundAssumption DEF Types, TypeOK, Request
<1>4. ASSUME NEW i \in Rows', NEW k \in Rows', i < k, i <= invoices'[k].saw
      PROVE  Firm(invoices'[i]) \cap Firm(invoices'[k]) = {}
  <2>1. i \in Rows
    BY <1>1, <1>4 DEF Rows
  <2>2. CASE k \in Rows
    BY <1>1, <1>4, <2>1, <2>2 DEF Billed
  <2>3. CASE k = n
    <3>1. i <= worker[w].saw /\ worker[w].step \in Checking
      BY <1>1, <1>4, <2>3 DEF RowAdd
    <3>2. Firm(invoices[i]) \cap worker[w].jobs = {}
      BY <2>1, <3>1 DEF Billed
    <3>. QED BY <1>1, <1>2, <2>1, <2>3, <3>2
  <2>. QED BY <1>1, <1>4, <2>2, <2>3
<1>5. ASSUME NEW v \in Workers, worker'[v].step \in Checking, NEW i \in Rows', i <= worker'[v].saw
      PROVE  Firm(invoices'[i]) \cap worker'[v].jobs = {}
  <2>1. v # w /\ worker'[v] = worker[v]
    BY <1>5 DEF RowAdd, Checking
  <2>2. worker[v].saw <= Len(invoices) /\ worker[v].saw \in Nat
    BY BoundAssumption DEF Types, TypeOK, Request
  <2>3. i \in Rows
    BY <1>1, <1>5, <2>1, <2>2 DEF Rows
  <2>. QED BY <1>1, <1>5, <2>1, <2>3 DEF Billed
<1>. QED BY <1>4, <1>5 DEF Billed, Firm, Active

LEMMA MailedAdd ==
  ASSUME Types, Mailed, NEW w \in Workers, NEW r, RowAdd(w, r)
  PROVE  Mailed'
<1> DEFINE n == Len(invoices) + 1
<1>1. /\ DOMAIN invoices = Rows
      /\ \A i \in Rows : invoices'[i] = invoices[i]
      /\ invoices'[n] = r
      /\ DOMAIN invoices' = Rows \cup {n}
  BY RowAdded, RowsTyped, LenProperties DEF Types, TypeOK, RowAdd, Rows
<1>2. \A v \in Workers : worker[v].rows \subseteq Rows
  BY DEF Types
<1>3. \A v \in Workers : worker'[v].step = "marking" => worker'[v] = worker[v]
  BY DEF RowAdd
<1>. QED BY <1>1, <1>2, <1>3 DEF Mailed, SentWasMailed, RowAdd

LEMMA ListedAdd ==
  ASSUME Types, Listed, NEW w \in Workers, NEW r, RowAdd(w, r), UNCHANGED <<job, today>>
  PROVE  Listed'
<1>1. \A i \in Rows : invoices'[i] = invoices[i]
  BY RowAdded DEF Types, TypeOK, RowAdd
<1>2. \A v \in Workers : worker[v].rows \subseteq Rows
  BY DEF Types
<1>3. \A v \in Workers : worker'[v].step = "purging" => worker'[v] = worker[v]
  BY DEF RowAdd
<1>. QED BY <1>1, <1>2, <1>3 DEF Listed, Expired

LEMMA NumberedAdd ==
  ASSUME Types, Numbered, NEW w \in Workers, NEW r, RowAdd(w, r), Holding(w),
         \/ UNCHANGED next
         \/ worker[w].step = "open" /\ next' = worker[w].number + 1
  PROVE  Numbered'
<1>1. /\ DOMAIN invoices = Rows
      /\ \A i \in Rows : invoices'[i] = invoices[i]
      /\ invoices'[Len(invoices) + 1] = r
      /\ DOMAIN invoices' = Rows \cup {Len(invoices) + 1}
  BY RowAdded, RowsTyped, LenProperties DEF Types, TypeOK, RowAdd, Rows
<1>2. ASSUME NEW v \in Workers, Holding(v)' \/ worker'[v].step = "open" \/ worker'[v].step = "creating"
      PROVE  v # w /\ worker'[v] = worker[v] /\ Holding(v)
  BY <1>2 DEF RowAdd, Holding
<1>3. ASSUME NEW v \in Workers, worker'[v].step = "open"
      PROVE  next' <= worker'[v].number
  <2>1. v # w /\ worker[v].step = "open" /\ worker'[v] = worker[v]
    BY <1>2, <1>3
  <2>2. worker[w].step # "open"
    BY <2>1 DEF Types, TypeOK
  <2>. QED BY <2>1, <2>2 DEF Numbered
<1>4. ASSUME NEW v \in Workers, worker'[v].step = "creating", ~worker'[v].moved
      PROVE  worker'[v].number < next'
  <2>1. worker'[v] = worker[v] /\ worker[v].number < next
    BY <1>2, <1>4 DEF Numbered
  <2>2. next' >= next /\ next \in Nat /\ next' \in Nat
    <3>1. next \in Nat /\ worker[w].number \in Nat
      BY BoundAssumption DEF Types, TypeOK, Numbers
    <3>. QED BY <3>1 DEF Numbered
  <2>3. worker[v].number \in Nat
    BY <1>2, <1>4 DEF Types, Numbers
  <2>. QED BY <2>1, <2>2, <2>3
<1>5. ASSUME NEW v \in Workers, Holding(v)', ~worker'[v].moved
      PROVE  /\ ~Taken(worker[v].number)'
             /\ \A u \in Workers \ {v} : Holding(u)' => worker'[u].number # worker'[v].number
  <2>1. v # w /\ worker'[v] = worker[v] /\ Holding(v) /\ ~worker[v].moved
    BY <1>2, <1>5
  <2>2. worker[w].number # worker[v].number /\ ~Taken(worker[v].number)
    BY <2>1 DEF Numbered
  <2>3. ~Taken(worker[v].number)'
    BY <1>1, <2>1, <2>2 DEF Taken, RowAdd
  <2>4. ASSUME NEW u \in Workers \ {v}, Holding(u)'
        PROVE  worker'[u].number # worker'[v].number
    BY <1>2, <2>1, <2>4 DEF Numbered
  <2>. QED BY <2>3, <2>4
<1>. QED BY <1>2, <1>3, <1>4, <1>5 DEF Numbered, Taken

-----------------------------------------------------------------------------
(* Types of the steps                                                      *)

JobsTyped == job \in [Jobs -> [done : BOOLEAN, deleted : 0..MaxDay, gone : BOOLEAN]]

LEMMA TypesEdit ==
  ASSUME Types, NEW w \in Workers, NEW t \in Request, Becomes(w, t), RowsEdited,
         worker[w].step # "open", t.step \notin {"creating", "open"},
         t.rows \subseteq Rows, t.saw <= Len(invoices),
         JobsTyped', UNCHANGED <<next, lock, today, crashes>>
  PROVE  Types'
<1>1. lock' = lock \ {w}
  BY DEF Types, TypeOK
<1>2. Rows' = Rows /\ invoices' \in Seq(Invoice) /\ Len(invoices') = Len(invoices)
  BY DEF Rows, RowsEdited
<1>3. Len(invoices) \in Nat /\ Len(invoices) <= MaxInvoices
  BY RowsTyped DEF Types, TypeOK
<1>4. Len(invoices) <= Len(invoices') /\ Len(invoices') <= MaxInvoices
      /\ t.rows \subseteq Rows' /\ t.saw <= Len(invoices')
  BY <1>2, <1>3
<1>5. next' \in 1..(MaxNumber + 1) /\ today' \in Days /\ crashes' \in 0..MaxCrashes
  BY DEF Types, TypeOK
<1>. QED BY <1>1, <1>2, <1>4, <1>5, TypesMove DEF Own, JobsTyped

LEMMA TypesStaff ==
  ASSUME Types, RowsEdited, JobsTyped', UNCHANGED <<next, lock, crashes, worker>>, today' \in Days
  PROVE  Types'
<1>1. Rows' = Rows /\ invoices' \in Seq(Invoice) /\ Len(invoices') = Len(invoices)
  BY DEF Rows, RowsEdited
<1>. QED BY <1>1 DEF Types, TypeOK, JobsTyped, Holding

LEMMA IdleIsARequest == Idle \in Request /\ Idle.step = "idle" /\ Idle.rows = {} /\ Idle.saw = 0
BY BoundAssumption DEF Idle, Request, Steps

LEMMA CheckedIsARequest ==
  ASSUME Types, NEW S \in SUBSET Jobs, NEW mails \in BOOLEAN
  PROVE  /\ Checked(S, mails) \in Request
         /\ Checked(S, mails).step = "numbering"
         /\ Checked(S, mails).jobs = S
         /\ Checked(S, mails).rows = {}
         /\ Checked(S, mails).saw = Len(invoices)
<1>1. Len(invoices) \in 0..MaxInvoices /\ 0 \in 0..MaxNumber
  BY BoundAssumption, RowsTyped DEF Types, TypeOK
<1>. QED BY <1>1 DEF Checked, Idle, Request, Steps


LEMMA WorkerRests ==
  ASSUME Types, NEW w \in Workers, Becomes(w, Idle)
  PROVE  /\ \A v \in Workers : Settles(v)
         /\ \A v \in Workers : worker'[v].step = "marking" =>
              worker[v].step = "marking" /\ worker'[v].rows = worker[v].rows
BY WorkerGoesOn, IdleIsARequest DEF Settles, Same, Resting

LEMMA TypesRest ==
  ASSUME Types, NEW w \in Workers, Becomes(w, Idle), RowsEdited, worker[w].step # "open",
         JobsTyped', UNCHANGED <<next, lock, today, crashes>>
  PROVE  Types'
<1>1. Idle.saw <= Len(invoices)
  BY IdleIsARequest, RowsTyped DEF Types, TypeOK
<1>. QED BY <1>1, IdleIsARequest, TypesEdit

LEMMA JobsAlike ==
  ASSUME Types, UNCHANGED job
  PROVE  JobsTyped' /\ JobsKept
BY DEF Types, TypeOK, JobsTyped, JobsKept

-----------------------------------------------------------------------------
(* The quiet steps                                                         *)

(* What a quiet step leaves.                                               *)
LEMMA QuietStep ==
  ASSUME BillingInv, Types', Quiet,
         \A w \in Workers : worker'[w].step = "marking" =>
            \/ worker[w].step = "marking" /\ worker'[w].rows = worker[w].rows
            \/ \A i \in worker'[w].rows : invoices'[i].mailed
  PROVE  BillingInv'
BY BilledQuiet, NumberedQuiet, ListedQuiet, MailedEdited DEF BillingInv, Quiet

LEMMA RestStep ==
  ASSUME BillingInv, NEW w \in Workers, Becomes(w, Idle), RowsEdited, worker[w].step # "open",
         JobsTyped', JobsKept, UNCHANGED <<next, lock, today, crashes>>
  PROVE  BillingInv'
<1>1. Types'
  BY TypesRest DEF BillingInv
<1>2. Quiet
  BY WorkerRests DEF Quiet, BillingInv
<1>. QED BY <1>1, <1>2, QuietStep, WorkerRests DEF BillingInv

LEMMA RestingStep ==
  ASSUME BillingInv, NEW w \in Workers,
         AddBreaks(w) \/ MarkSent(w) \/ DeliveryFails(w) \/ CreateRefused(w)
  PROVE  BillingInv'
<1>0. Types /\ Mailed
  BY DEF BillingInv
<1>1. RowsEdited
  BY <1>0, AddBreaksEdits, MarkSentEdits, RowsAlike DEF DeliveryFails, CreateRefused
<1>2. Becomes(w, Idle) /\ worker[w].step # "open" /\ UNCHANGED <<job, next, lock, today, crashes>>
  BY DEF AddBreaks, MarkSent, DeliveryFails, CreateRefused
<1>. QED BY <1>0, <1>1, <1>2, RestStep, JobsAlike

LEMMA PurgeJobs ==
  ASSUME Types, NEW w \in Workers, PurgeDelete(w)
  PROVE  JobsTyped' /\ JobsKept
<1>1. CASE UNCHANGED job
  BY <1>1, JobsAlike
<1>2. CASE job' = [j \in Jobs |-> IF j \in worker[w].jobs THEN [job[j] EXCEPT !.gone = TRUE] ELSE job[j]]
  <2>1. \A j \in Jobs : job'[j] = IF j \in worker[w].jobs THEN [job[j] EXCEPT !.gone = TRUE] ELSE job[j]
    BY <1>2
  <2>2. \A j \in Jobs : job[j] \in [done : BOOLEAN, deleted : 0..MaxDay, gone : BOOLEAN]
    BY DEF Types, TypeOK
  <2>3. \A j \in Jobs : /\ job'[j] \in [done : BOOLEAN, deleted : 0..MaxDay, gone : BOOLEAN]
                        /\ job'[j].deleted = job[j].deleted
                        /\ job[j].gone => job'[j].gone
    BY <2>1, <2>2
  <2>. QED BY <1>2, <2>3 DEF JobsTyped, JobsKept
<1>. QED BY <1>1, <1>2 DEF PurgeDelete

LEMMA PurgeStep ==
  ASSUME BillingInv, NEW w \in Workers, PurgeDelete(w)
  PROVE  BillingInv'
<1>0. Types
  BY DEF BillingInv
<1>1. Becomes(w, Idle) /\ worker[w].step # "open" /\ UNCHANGED <<next, lock, today, crashes>>
  BY DEF PurgeDelete
<1>. QED BY <1>0, <1>1, PurgeEditsRows, PurgeJobs, RestStep

LEMMA CrashStep ==
  ASSUME BillingInv, NEW w \in Workers, Crash(w)
  PROVE  BillingInv'
<1>0. Types /\ Becomes(w, Idle) /\ lock' = lock \ {w} /\ UNCHANGED <<job, invoices, next, today>>
  BY DEF BillingInv, Crash
<1>1. RowsEdited /\ JobsTyped' /\ JobsKept
  BY <1>0, RowsAlike, JobsAlike
<1>2. Len(invoices) \in Nat /\ Len(invoices) <= MaxInvoices
  BY <1>0, RowsTyped DEF Types, TypeOK
<1>3. crashes' \in 0..MaxCrashes
  BY <1>0, BoundAssumption DEF Crash, Types, TypeOK
<1>4. Types'
  <2>1. /\ Own(Idle) /\ Idle.rows \subseteq Rows' /\ Idle.saw <= Len(invoices')
        /\ invoices' \in Seq(Invoice) /\ Len(invoices) <= Len(invoices') /\ Len(invoices') <= MaxInvoices
        /\ next' \in 1..(MaxNumber + 1) /\ today' \in Days
    BY <1>0, <1>2, IdleIsARequest DEF Own, Types, TypeOK
  <2>. QED BY <1>0, <1>1, <1>3, <2>1, IdleIsARequest, TypesMove DEF JobsTyped
<1>5. Quiet
  BY <1>0, <1>1, WorkerRests DEF Quiet
<1>. QED BY <1>0, <1>4, <1>5, QuietStep, WorkerRests

LEMMA DeliverStep ==
  ASSUME BillingInv, NEW w \in Workers, Deliver(w)
  PROVE  BillingInv'
<1> DEFINE t == [worker[w] EXCEPT !.step = "marking"]
<1>0. Types /\ Becomes(w, t) /\ worker[w].step = "mailing" /\ UNCHANGED <<job, next, lock, today, crashes>>
  BY DEF BillingInv, Deliver
<1>1. worker[w] \in Request
  BY <1>0 DEF Types, TypeOK
<1>2. t \in Request /\ t.step = "marking" /\ t.rows = worker[w].rows /\ t.saw = worker[w].saw
  BY <1>1 DEF Request, Steps
<1> HIDE DEF t
<1>3. RowsEdited /\ \A i \in worker[w].rows : invoices'[i].mailed
  BY <1>0, DeliverEditsRows
<1>4. Types'
  <2>1. t.rows \subseteq Rows /\ t.saw <= Len(invoices)
    BY <1>0, <1>2 DEF Types
  <2>. QED BY <1>0, <1>2, <1>3, <2>1, TypesEdit, JobsAlike
<1>5. \A v \in Workers : worker'[v] = IF v = w THEN t ELSE worker[v]
  BY <1>0, WorkerGoesOn
<1>6. Quiet
  <2>1. \A v \in Workers : Settles(v)
    BY <1>2, <1>5 DEF Settles, Same, Resting
  <2>. QED BY <1>0, <1>3, <2>1, JobsAlike DEF Quiet
<1>7. \A v \in Workers : worker'[v].step = "marking" =>
         \/ worker[v].step = "marking" /\ worker'[v].rows = worker[v].rows
         \/ \A i \in worker'[v].rows : invoices'[i].mailed
  BY <1>2, <1>3, <1>5
<1>. QED BY <1>4, <1>6, <1>7, QuietStep

LEMMA BatchMailStep ==
  ASSUME BillingInv, NEW w \in Workers, BatchMail(w)
  PROVE  BillingInv'
<1> DEFINE t == [worker[w] EXCEPT !.mailed = TRUE]
<1>0. Types /\ Becomes(w, t) /\ worker[w].step = "open"
      /\ UNCHANGED <<job, invoices, next, lock, today, crashes>>
  BY DEF BillingInv, BatchMail
<1>1. worker[w] \in Request /\ lock = {v \in Workers : worker[v].step = "open"}
  BY <1>0 DEF Types, TypeOK
<1>2. t \in Request /\ Same(worker[w], t)
  BY <1>1 DEF Request, Steps, Same
<1> HIDE DEF t
<1>3. RowsEdited /\ JobsKept /\ JobsTyped'
  BY <1>0, RowsAlike, JobsAlike
<1>4. Types'
  <2>1. /\ Own(t) /\ t.rows \subseteq Rows' /\ t.saw <= Len(invoices')
    BY <1>0, <1>2 DEF Types, Own, Holding, Same, Rows
  <2>2. Len(invoices) \in Nat /\ Len(invoices) <= MaxInvoices /\ invoices' \in Seq(Invoice)
    BY <1>0, RowsTyped DEF Types, TypeOK
  <2>3. lock' = {w} /\ t.step = "open" /\ lock \subseteq {w}
    BY <1>0, <1>1, <1>2 DEF Types, Same
  <2>4. Len(invoices) <= Len(invoices') /\ Len(invoices') <= MaxInvoices
    BY <1>0, <2>2
  <2>5. next' \in 1..(MaxNumber + 1) /\ today' \in Days /\ crashes' \in 0..MaxCrashes
    BY <1>0 DEF Types, TypeOK
  <2>. QED BY <1>0, <1>2, <1>3, <2>1, <2>2, <2>3, <2>4, <2>5, TypesMove DEF JobsTyped
<1>5. \A v \in Workers : worker'[v] = IF v = w THEN t ELSE worker[v]
  BY <1>0, WorkerGoesOn
<1>6. Quiet
  <2>1. \A v \in Workers : Settles(v)
    BY <1>2, <1>5 DEF Settles, Same, Resting
  <2>. QED BY <1>0, <1>3, <2>1 DEF Quiet
<1>7. \A v \in Workers : worker'[v].step = "marking" =>
         worker[v].step = "marking" /\ worker'[v].rows = worker[v].rows
  BY <1>0, <1>2, <1>5 DEF Same
<1>. QED BY <1>4, <1>6, <1>7, QuietStep

(* A draft was found: it will be added to, or mailed.                      *)
LEMMA FindsDraftStep ==
  ASSUME BillingInv, NEW w \in Workers, NEW j \in Jobs, NEW i \in DOMAIN invoices,
         TicketFindsDraft(w, j, i) \/ SendFindsDraft(w, j, i)
  PROVE  BillingInv'
<1>0. Types /\ worker[w].step = "idle" /\ UNCHANGED <<job, invoices, next, lock, today, crashes>>
  BY DEF BillingInv, TicketFindsDraft, SendFindsDraft
<1>1. i \in Rows /\ Rows \subseteq 1..MaxInvoices /\ Len(invoices) \in Nat
  BY <1>0, RowsTyped, BoundAssumption DEF Types, TypeOK, Rows
<1>2. Batch(j) \subseteq Jobs
  BY BatchAssumption DEF Batch
<1>3. PICK t : Becomes(w, t) /\ \/ t = [Idle EXCEPT !.step = "adding", !.rows = {i},
                                                    !.jobs = Batch(j) \ invoices[i].jobs]
                                \/ t = [Idle EXCEPT !.step = "mailing", !.rows = {i}]
  BY DEF TicketFindsDraft, SendFindsDraft
<1>4. t \in Request /\ t.step \in {"adding", "mailing"} /\ t.rows = {i} /\ t.saw = 0
  <2>1. 0 \in 0..MaxNumber /\ 0 \in 0..MaxInvoices /\ {i} \in SUBSET (1..MaxInvoices)
    BY <1>1, BoundAssumption
  <2>2. CASE t = [Idle EXCEPT !.step = "mailing", !.rows = {i}]
    BY <2>1, <2>2 DEF Idle, Request, Steps
  <2>3. CASE t = [Idle EXCEPT !.step = "adding", !.rows = {i}, !.jobs = Batch(j) \ invoices[i].jobs]
    <3>1. PICK S \in SUBSET Jobs : t = [Idle EXCEPT !.step = "adding", !.rows = {i}, !.jobs = S]
      BY <1>2, <2>3
    <3>. QED BY <2>1, <3>1 DEF Idle, Request, Steps
  <2>. QED BY <1>3, <2>2, <2>3
<1>5. RowsEdited /\ JobsKept /\ JobsTyped'
  BY <1>0, RowsAlike, JobsAlike
<1>6. Types'
  BY <1>0, <1>1, <1>3, <1>4, <1>5, TypesEdit
<1>7. \A v \in Workers : worker'[v] = IF v = w THEN t ELSE worker[v]
  BY <1>0, <1>3, WorkerGoesOn
<1>8. Quiet
  <2>1. \A v \in Workers : Settles(v)
    BY <1>4, <1>7 DEF Settles, Same, Resting
  <2>. QED BY <1>0, <1>5, <2>1 DEF Quiet
<1>9. \A v \in Workers : worker'[v].step = "marking" =>
         worker[v].step = "marking" /\ worker'[v].rows = worker[v].rows
  BY <1>4, <1>7
<1>. QED BY <1>6, <1>8, <1>9, QuietStep

(* Staff touch no request.                                                 *)
LEMMA StaffStep ==
  ASSUME BillingInv, RowsEdited, JobsTyped', JobsKept,
         UNCHANGED <<next, lock, today, crashes, worker>>
  PROVE  BillingInv'
<1>1. Types'
  BY TypesStaff DEF BillingInv, Types, TypeOK
<1>2. Quiet
  BY DEF Quiet, Settles, Same
<1>. QED BY <1>1, <1>2, QuietStep

LEMMA StaffJobs ==
  ASSUME Types, NEW j \in Jobs, Complete(j) \/ DeleteJob(j) \/ RestoreJob(j)
  PROVE  JobsTyped' /\ JobsKept
<1>1. today \in 0..MaxDay /\ 0 \in 0..MaxDay
  BY BoundAssumption DEF Types, TypeOK, Days
<1>2. job[j] \in [done : BOOLEAN, deleted : 0..MaxDay, gone : BOOLEAN]
  BY DEF Types, TypeOK
<1>3. PICK q : job' = [job EXCEPT ![j] = q] /\ \/ job[j].deleted = 0 /\ q = [job[j] EXCEPT !.done = TRUE]
                                               \/ job[j].deleted = 0 /\ q = [job[j] EXCEPT !.deleted = today]
                                               \/ Restorable(job[j].deleted) /\ q = [job[j] EXCEPT !.deleted = 0]
  BY DEF Complete, DeleteJob, RestoreJob
<1>4. q \in [done : BOOLEAN, deleted : 0..MaxDay, gone : BOOLEAN] /\ q.gone = job[j].gone
  BY <1>1, <1>2, <1>3
<1>5. ~Expired(job[j].deleted)
  <2>1. job[j].deleted \in Nat /\ today \in Nat
    BY <1>1, <1>2, BoundAssumption
  <2>. QED BY <1>3, <2>1 DEF Expired, Restorable
<1>6. \A k \in Jobs : job'[k] = IF k = j THEN q ELSE job[k]
  BY <1>3 DEF Types, TypeOK
<1>7. JobsTyped'
  BY <1>3, <1>4 DEF JobsTyped, Types, TypeOK
<1>. QED BY <1>4, <1>5, <1>6, <1>7 DEF JobsKept

LEMMA BinSteps ==
  ASSUME Types, \/ \E i \in Rows : DeleteInvoice(i) \/ RestoreInvoice(i)
                \/ \E j \in Jobs : DeleteJob(j) \/ RestoreJob(j)
  PROVE  RowsEdited /\ NonePurged
<1>1. DOMAIN invoices = Rows
  BY RowsTyped DEF Types, TypeOK
<1>2. PICK S : \/ S \subseteq Kept(Rows) /\ invoices' = Changed(S, Trash)
               \/ S \subseteq Binned(Rows) /\ invoices' = Changed(S, Revive)
  <2>1. CASE \E i \in Rows : DeleteInvoice(i) \/ RestoreInvoice(i)
    <3>1. PICK i \in Rows : DeleteInvoice(i) \/ RestoreInvoice(i)
      BY <2>1
    <3>2. \/ {i} \subseteq Kept(Rows) /\ invoices' = Changed({i}, Trash)
          \/ {i} \subseteq Binned(Rows) /\ invoices' = Changed({i}, Revive)
      BY <1>1, <3>1 DEF DeleteInvoice, RestoreInvoice
    <3>. QED BY <3>2
  <2>2. CASE \E j \in Jobs : DeleteJob(j) \/ RestoreJob(j)
    <3>1. PICK j \in Jobs : DeleteJob(j) \/ RestoreJob(j)
      BY <2>2
    <3>2. \/ invoices' = Changed(Kept(WithLine(j)), Trash)
          \/ invoices' = Changed(Binned(WithLine(j)), Revive)
      BY <3>1 DEF DeleteJob, RestoreJob
    <3>3. Kept(WithLine(j)) \subseteq Kept(Rows) /\ Binned(WithLine(j)) \subseteq Binned(Rows)
      BY <1>1 DEF Kept, Binned, WithLine
    <3>. QED BY <3>2, <3>3
  <2>. QED BY <2>1, <2>2
<1>. QED BY <1>2, BinEdits

LEMMA StaffSteps ==
  ASSUME BillingInv,
         \/ \E j \in Jobs : Complete(j) \/ DeleteJob(j) \/ RestoreJob(j)
         \/ \E i \in DOMAIN invoices : Void(i) \/ DeleteInvoice(i) \/ RestoreInvoice(i)
  PROVE  BillingInv'
<1>0. Types /\ DOMAIN invoices = Rows
  BY RowsTyped DEF BillingInv, Types, TypeOK
<1>1. CASE \E j \in Jobs : Complete(j) \/ DeleteJob(j) \/ RestoreJob(j)
  <2>1. PICK j \in Jobs : Complete(j) \/ DeleteJob(j) \/ RestoreJob(j)
    BY <1>1
  <2>2. RowsEdited
    BY <1>0, <2>1, BinSteps, RowsAlike DEF Complete
  <2>3. UNCHANGED <<next, lock, today, crashes, worker>>
    BY <2>1 DEF Complete, DeleteJob, RestoreJob
  <2>. QED BY <1>0, <2>1, <2>2, <2>3, StaffJobs, StaffStep
<1>2. CASE \E i \in DOMAIN invoices : Void(i) \/ DeleteInvoice(i) \/ RestoreInvoice(i)
  <2>1. PICK i \in Rows : Void(i) \/ DeleteInvoice(i) \/ RestoreInvoice(i)
    BY <1>0, <1>2
  <2>2. RowsEdited
    BY <1>0, <2>1, BinSteps, VoidEditsRows
  <2>3. UNCHANGED <<job, next, lock, today, crashes, worker>>
    BY <2>1 DEF Void, DeleteInvoice, RestoreInvoice
  <2>. QED BY <1>0, <2>2, <2>3, JobsAlike, StaffStep
<1>. QED BY <1>1, <1>2

-----------------------------------------------------------------------------
(* Looking for work                                                        *)

(* A request that looked just now goes on to bill what it found unbilled.  *)
LEMMA LookStep ==
  ASSUME BillingInv, NEW w \in Workers, NEW t \in Request, Becomes(w, t),
         worker[w].step = "idle", t.step \in {"numbering", "listed"}, t.rows = {},
         t.saw = Len(invoices), \A i \in Rows : Active(invoices[i]) => invoices[i].jobs \cap t.jobs = {},
         UNCHANGED <<job, invoices, next, lock, today, crashes>>
  PROVE  BillingInv'
<1>0. Types /\ Billed /\ Numbered /\ Mailed /\ Listed
  BY DEF BillingInv
<1>1. RowsEdited /\ JobsKept /\ JobsTyped' /\ Len(invoices) \in Nat
  BY <1>0, RowsAlike, JobsAlike, RowsTyped DEF Types, TypeOK
<1>2. Types'
  BY <1>0, <1>1, TypesEdit
<1>3. \A v \in Workers : worker'[v] = IF v = w THEN t ELSE worker[v]
  BY <1>0, WorkerGoesOn
<1>4. Rows' = Rows /\ DOMAIN invoices = Rows
  BY <1>0, RowsTyped DEF Rows, Types, TypeOK
<1>5. Billed'
  <2>1. \A i \in Rows : Firm(invoices[i]) \cap t.jobs = {}
    BY DEF Firm
  <2>2. \A v \in Workers : worker'[v].step \in Checking =>
           \A i \in Rows : i <= worker'[v].saw => Firm(invoices[i]) \cap worker'[v].jobs = {}
    BY <1>0, <1>3, <2>1 DEF Billed
  <2>3. \A i, k \in Rows : i < k /\ i <= invoices[k].saw => Firm(invoices[i]) \cap Firm(invoices[k]) = {}
    BY <1>0 DEF Billed
  <2>. QED BY <1>4, <2>2, <2>3 DEF Billed, Firm, Active
<1>6. Numbered'
  <2>1. \A v \in Workers : worker'[v].step \in {"creating", "open"} => worker'[v] = worker[v]
    BY <1>3
  <2>2. \A v \in Workers : Holding(v)' => Holding(v) /\ worker'[v] = worker[v]
    BY <2>1 DEF Holding
  <2>3. \A v \in Workers : (worker'[v].step = "open" \/ worker'[v].step = "creating") => worker'[v] = worker[v]
    BY <2>1
  <2>. QED BY <1>0, <2>2, <2>3 DEF Numbered, Taken
<1>7. Mailed'
  BY <1>0, <1>1, <1>3, MailedEdited
<1>8. Listed'
  BY <1>0, <1>3 DEF Listed, Expired
<1>. QED BY <1>2, <1>5, <1>6, <1>7, <1>8 DEF BillingInv

LEMMA CheckSteps ==
  ASSUME BillingInv, NEW w \in Workers,
         \/ \E S \in SUBSET Jobs, mails \in BOOLEAN : Pick(w, S, mails)
         \/ \E j \in Jobs : Ticket(w, j) \/ Send(w, j)
  PROVE  BillingInv'
<1>0. Types /\ DOMAIN invoices = Rows
  BY RowsTyped DEF BillingInv, Types, TypeOK
<1>1. \A j \in Jobs : Batch(j) \in SUBSET Jobs
  BY BatchAssumption DEF Batch
<1>2. PICK S \in SUBSET Jobs, mails \in BOOLEAN :
        /\ worker[w].step = "idle" /\ Billing(S) = {} /\ Becomes(w, Checked(S, mails))
        /\ UNCHANGED <<job, invoices, next, lock, today, crashes>>
  BY <1>1 DEF Pick, Ticket, Send
<1>3. \A i \in Rows : Active(invoices[i]) => invoices[i].jobs \cap S = {}
  BY <1>0, <1>2 DEF Billing
<1>. QED BY <1>0, <1>2, <1>3, CheckedIsARequest, LookStep

LEMMA BatchListStep ==
  ASSUME BillingInv, NEW w \in Workers, BatchList(w)
  PROVE  BillingInv'
<1> DEFINE t == [Idle EXCEPT !.step = "listed", !.jobs = Unbilled, !.saw = Len(invoices)]
<1>0. Types /\ DOMAIN invoices = Rows /\ Len(invoices) \in 0..MaxInvoices
  BY RowsTyped, BoundAssumption DEF BillingInv, Types, TypeOK
<1>1. Unbilled \in SUBSET Jobs /\ 0 \in 0..MaxNumber
  BY BoundAssumption DEF Unbilled
<1>2. t \in Request /\ t.step = "listed" /\ t.rows = {} /\ t.saw = Len(invoices) /\ t.jobs = Unbilled
  <2> HIDE DEF Unbilled
  <2>. QED BY <1>0, <1>1 DEF Idle, Request, Steps
<1>3. \A i \in Rows : Active(invoices[i]) => invoices[i].jobs \cap Unbilled = {}
  BY <1>0 DEF Unbilled, Billing
<1>4. /\ worker[w].step = "idle" /\ Becomes(w, t)
      /\ UNCHANGED <<job, invoices, next, lock, today, crashes>>
  BY DEF BatchList
<1> HIDE DEF t
<1>. QED BY <1>2, <1>3, <1>4, LookStep

LEMMA PurgeListStep ==
  ASSUME BillingInv, NEW w \in Workers, PurgeList(w)
  PROVE  BillingInv'
<1> DEFINE t == [Idle EXCEPT !.step = "purging", !.rows = OldRows, !.jobs = SafeJobs]
<1>0. Types /\ Billed /\ Numbered /\ Mailed /\ Listed /\ DOMAIN invoices = Rows
      /\ Len(invoices) \in 0..MaxInvoices
  BY RowsTyped, BoundAssumption DEF BillingInv, Types, TypeOK
<1>1. SafeJobs \in SUBSET Jobs /\ OldRows \in SUBSET (1..MaxInvoices) /\ OldRows \subseteq Rows
      /\ 0 \in 0..MaxNumber /\ 0 \in 0..MaxInvoices
  BY <1>0, BoundAssumption DEF SafeJobs, OldJobs, OldRows, Binned, Rows
<1>2. t \in Request /\ t.step = "purging" /\ t.rows = OldRows /\ t.saw = 0 /\ t.jobs = SafeJobs
  <2> HIDE DEF OldRows, SafeJobs
  <2>. QED BY <1>1 DEF Idle, Request, Steps
<1>3. /\ worker[w].step = "idle" /\ Becomes(w, t)
      /\ UNCHANGED <<job, invoices, next, lock, today, crashes>>
  BY DEF PurgeList
<1> HIDE DEF t
<1>4. RowsEdited /\ JobsTyped'
  BY <1>0, <1>3, RowsAlike, JobsAlike
<1>5. Types'
  <2>1. t.saw <= Len(invoices) /\ t.rows \subseteq Rows /\ worker[w].step # "open"
        /\ t.step \notin {"creating", "open"}
    BY <1>0, <1>1, <1>2, <1>3
  <2>. QED BY <1>0, <1>2, <1>3, <1>4, <2>1, TypesEdit
<1>6. \A v \in Workers : worker'[v] = IF v = w THEN t ELSE worker[v]
  BY <1>0, <1>3, WorkerGoesOn
<1>7. Rows' = Rows
  BY <1>3 DEF Rows
<1>8. Billed'
  <2>1. \A v \in Workers : worker'[v].step \in Checking => worker'[v] = worker[v]
    BY <1>2, <1>6 DEF Checking
  <2>. QED BY <1>0, <1>3, <1>7, <2>1 DEF Billed, Firm, Active
<1>9. Numbered'
  <2>1. \A v \in Workers : Holding(v)' => Holding(v) /\ worker'[v] = worker[v]
    BY <1>2, <1>6 DEF Holding
  <2>2. \A v \in Workers : (worker'[v].step = "open" \/ worker'[v].step = "creating") => worker'[v] = worker[v]
    BY <1>2, <1>6
  <2>. QED BY <1>0, <1>3, <2>1, <2>2 DEF Numbered, Taken
<1>10. Mailed'
  BY <1>0, <1>2, <1>4, <1>6, MailedEdited
<1>11. Listed'
  <2>1. /\ \A i \in OldRows : Expired(invoices[i].deleted)
        /\ \A j \in SafeJobs : Expired(job[j].deleted)
    BY DEF OldRows, SafeJobs, OldJobs
  <2>. QED BY <1>0, <1>2, <1>3, <1>6, <2>1 DEF Listed, Expired
<1>. QED BY <1>5, <1>8, <1>9, <1>10, <1>11 DEF BillingInv

-----------------------------------------------------------------------------
(* Numbers                                                                 *)

LEMMA NextIsFree ==
  ASSUME Free # {}
  PROVE  NextNumber \in Free
BY MinIsLeast DEF NextNumber, Free, Numbers

(* With the row of the counter free, a worker takes a free number: nobody  *)
(* else holds it but one whom the owner moved past it.                     *)
LEMMA NumberTaken ==
  ASSUME Types, Numbered, NEW w \in Workers, NEW n \in Free, NEW t, Becomes(w, t),
         lock = {}, t.number = n, t.moved = Contested(n), ~Holding(w), UNCHANGED invoices,
         \/ t.step = "creating" /\ next' = n + 1
         \/ t.step = "open" /\ UNCHANGED next
  PROVE  Numbered'
<1>1. \A v \in Workers : worker'[v] = IF v = w THEN t ELSE worker[v]
  BY WorkerGoesOn
<1>2. n \in Nat /\ next \in Nat /\ next <= n /\ ~Taken(n)
  BY BoundAssumption DEF Types, TypeOK, Free, Numbers
<1>3. \A v \in Workers : worker[v].step # "open"
  BY DEF Types, TypeOK
<1>4. \A v \in Workers : Holding(v) => worker[v].number \in Nat /\ worker[v].step = "creating"
  BY <1>3 DEF Types, Numbers, Holding
<1>5. \A v \in Workers : Holding(v) /\ ~worker[v].moved => worker[v].number < n /\ worker[v].number < next'
  BY <1>2, <1>4 DEF Numbered
<1>6. \A v \in Workers : Holding(v) /\ worker[v].moved => worker[v].number # n \/ t.moved
  BY DEF Contested
<1>7. ASSUME NEW v \in Workers, v # w, Holding(v)', ~worker'[v].moved
      PROVE  /\ ~Taken(worker[v].number)
             /\ \A u \in Workers \ {v} : Holding(u)' => worker'[u].number # worker'[v].number
  <2>1. Holding(v) /\ ~worker[v].moved /\ worker'[v] = worker[v]
    BY <1>1, <1>7 DEF Holding
  <2>2. worker[v].number # n
    BY <1>2, <1>4, <1>5, <2>1
  <2>3. ASSUME NEW u \in Workers \ {v}, Holding(u)'
        PROVE  worker'[u].number # worker'[v].number
    BY <1>1, <2>1, <2>2, <2>3 DEF Numbered, Holding
  <2>. QED BY <2>1, <2>3 DEF Numbered
<1>8. ASSUME ~t.moved, NEW v \in Workers \ {w}, Holding(v)'
      PROVE  worker'[v].number # n
  <2>1. Holding(v) /\ worker'[v] = worker[v]
    BY <1>1, <1>8 DEF Holding
  <2>. QED BY <1>2, <1>4, <1>5, <1>6, <1>8, <2>1
<1>9. ASSUME NEW v \in Workers
      PROVE  /\ worker'[v].step = "open" => next' <= worker'[v].number
             /\ worker'[v].step = "creating" /\ ~worker'[v].moved => worker'[v].number < next'
  <2>1. CASE v = w
    BY <1>1, <1>2, <2>1
  <2>2. CASE v # w
    BY <1>1, <1>3, <1>5, <2>2 DEF Holding
  <2>. QED BY <2>1, <2>2
<1>10. ASSUME NEW v \in Workers, Holding(v)', ~worker'[v].moved
       PROVE  /\ ~Taken(worker'[v].number)
              /\ \A u \in Workers \ {v} : Holding(u)' => worker'[u].number # worker'[v].number
  <2>1. CASE v = w
    BY <1>1, <1>2, <1>8, <1>10, <2>1
  <2>2. CASE v # w
    BY <1>1, <1>7, <1>10, <2>2
  <2>. QED BY <2>1, <2>2
<1>. QED BY <1>9, <1>10 DEF Numbered, Taken, Holding

LEMMA TakesStep ==
  ASSUME BillingInv, NEW w \in Workers, Allocate(w) \/ BatchOpen(w)
  PROVE  BillingInv'
<1> DEFINE s == IF worker[w].step = "numbering" THEN "creating" ELSE "open"
           n == NextNumber
           c == Contested(n)
           t == [worker[w] EXCEPT !.step = s, !.number = n, !.moved = c]
<1>0. Types /\ Billed /\ Numbered /\ Mailed /\ Listed /\ worker[w] \in Request
      /\ lock = {v \in Workers : worker[v].step = "open"}
  BY DEF BillingInv, Types, TypeOK
<1>1. Becomes(w, t) /\ lock = {} /\ n \in Free /\ UNCHANGED <<job, invoices, today, crashes>>
  BY NextIsFree DEF Allocate, BatchOpen
<1>2. \/ worker[w].step = "numbering" /\ s = "creating" /\ next' = n + 1 /\ lock' = {}
      \/ worker[w].step = "listed" /\ s = "open" /\ UNCHANGED next /\ lock' = {w}
  BY DEF Allocate, BatchOpen
<1>3. n \in Numbers /\ c \in BOOLEAN
  BY <1>1 DEF Free, Contested
<1>4. t \in Request /\ t.step = s /\ t.number = n /\ t.moved = c /\ t.jobs = worker[w].jobs
      /\ t.saw = worker[w].saw /\ t.rows = worker[w].rows
  <2>1. s \in Steps /\ n \in 0..MaxNumber
    BY <1>2, <1>3, BoundAssumption DEF Steps, Numbers
  <2> HIDE DEF s, n, c
  <2>. QED BY <1>0, <1>3, <2>1 DEF Request
<1> HIDE DEF t, s, n, c
<1>5. \A v \in Workers : worker'[v] = IF v = w THEN t ELSE worker[v]
  BY <1>0, <1>1, WorkerGoesOn
<1>6. Types'
  <2>1. /\ Own(t) /\ t.rows \subseteq Rows' /\ t.saw <= Len(invoices')
    BY <1>0, <1>1, <1>3, <1>4 DEF Types, Own, Rows
  <2>2. Len(invoices) \in Nat /\ Len(invoices) <= MaxInvoices /\ invoices' \in Seq(Invoice)
    BY <1>0, <1>1, RowsTyped DEF Types, TypeOK
  <2>3. /\ lock' = IF t.step = "open" THEN {w} ELSE lock \ {w}
        /\ t.step = "open" => lock \subseteq {w}
    BY <1>1, <1>2, <1>4
  <2>4. Len(invoices) <= Len(invoices') /\ Len(invoices') <= MaxInvoices
    BY <1>1, <2>2
  <2>5. next' \in 1..(MaxNumber + 1)
    BY <1>0, <1>2, <1>3, BoundAssumption DEF Types, TypeOK, Numbers
  <2>6. today' \in Days /\ crashes' \in 0..MaxCrashes /\ JobsTyped'
    BY <1>0, <1>1, JobsAlike DEF Types, TypeOK
  <2>. QED BY <1>0, <1>1, <1>4, <2>1, <2>2, <2>3, <2>4, <2>5, <2>6, TypesMove DEF JobsTyped
<1>7. Numbered'
  <2>1. ~Holding(w)
    BY <1>2 DEF Holding
  <2>2. t.moved = Contested(n)
    BY <1>4 DEF c
  <2>. QED BY <1>0, <1>1, <1>2, <1>4, <2>1, <2>2, NumberTaken
<1>8. Rows' = Rows
  BY <1>1 DEF Rows
<1>9. Billed'
  <2>1. \A v \in Workers : worker'[v].jobs = worker[v].jobs /\ worker'[v].saw = worker[v].saw
    BY <1>4, <1>5
  <2>2. \A v \in Workers : worker'[v].step \in Checking => worker[v].step \in Checking
    BY <1>2, <1>5 DEF Checking
  <2>. QED BY <1>0, <1>1, <1>8, <2>1, <2>2 DEF Billed, Firm, Active
<1>10. Mailed'
  <2>1. \A v \in Workers : worker'[v].step = "marking" =>
           worker[v].step = "marking" /\ worker'[v].rows = worker[v].rows
    BY <1>2, <1>4, <1>5
  <2>. QED BY <1>0, <1>1, <2>1, RowsAlike, MailedEdited
<1>11. Listed'
  <2>1. \A v \in Workers : worker'[v].step = "purging" => worker'[v] = worker[v]
    BY <1>2, <1>4, <1>5
  <2>. QED BY <1>0, <1>1, <2>1 DEF Listed, Expired
<1>. QED BY <1>6, <1>7, <1>9, <1>10, <1>11 DEF BillingInv

LEMMA RenumberStep ==
  ASSUME BillingInv, NEW n \in Numbers, Renumber(n)
  PROVE  BillingInv'
<1>0. Types /\ Billed /\ Mailed /\ Listed /\ \A v \in Workers : worker[v] \in Request
  BY DEF BillingInv, Types, TypeOK
<1>1. \A v \in Workers : worker'[v] = IF worker[v].step = "creating"
                                      THEN [worker[v] EXCEPT !.moved = TRUE] ELSE worker[v]
  BY DEF Renumber
<1>2. \A v \in Workers :
        /\ worker'[v] \in Request
        /\ worker'[v].step = worker[v].step /\ worker'[v].jobs = worker[v].jobs
        /\ worker'[v].rows = worker[v].rows /\ worker'[v].number = worker[v].number
        /\ worker'[v].saw = worker[v].saw
        /\ worker[v].step = "creating" => worker'[v].moved
  <2>1. ASSUME NEW t \in Request
        PROVE  LET q == [t EXCEPT !.moved = TRUE]
               IN  /\ q \in Request
                   /\ q.step = t.step /\ q.jobs = t.jobs /\ q.rows = t.rows
                   /\ q.number = t.number /\ q.saw = t.saw /\ q.moved
    BY DEF Request
  <2>. QED BY <1>0, <1>1, <2>1
<1>3. UNCHANGED <<job, invoices, lock, today, crashes>> /\ lock = {} /\ next' = n /\ Rows' = Rows
  BY DEF Renumber, Rows
<1>4. \A v \in Workers : worker[v].step # "open"
  BY <1>0, <1>3 DEF Types, TypeOK
<1>5. Types'
  <2>1. worker' \in [Workers -> Request]
    BY <1>2 DEF Renumber
  <2>2. lock' = {v \in Workers : worker'[v].step = "open"}
    BY <1>2, <1>3, <1>4
  <2>3. next' \in 1..(MaxNumber + 1)
    BY <1>3, BoundAssumption DEF Numbers
  <2>4. TypeOK'
    BY <1>0, <1>3, <2>1, <2>2, <2>3 DEF Types, TypeOK
  <2>. QED BY <1>0, <1>2, <1>3, <2>4 DEF Types, Holding
<1>6. Billed'
  BY <1>0, <1>2, <1>3 DEF Billed, Firm, Active
<1>7. Numbered'
  BY <1>2, <1>4 DEF Numbered, Holding
<1>8. Mailed'
  BY <1>0, <1>2, <1>3 DEF Mailed, SentWasMailed
<1>9. Listed'
  BY <1>0, <1>2, <1>3 DEF Listed, Expired
<1>. QED BY <1>5, <1>6, <1>7, <1>8, <1>9 DEF BillingInv

LEMMA TickStep ==
  ASSUME BillingInv, Tick
  PROVE  BillingInv'
<1>0. Types /\ Billed /\ Numbered /\ Mailed /\ UNCHANGED <<job, invoices, next, lock, crashes, worker>>
      /\ \A w \in Workers : worker[w].step = "idle"
  BY DEF BillingInv, Tick
<1>1. today' \in Days
  BY <1>0, BoundAssumption DEF Tick, Types, TypeOK, Days
<1>2. Types'
  BY <1>0, <1>1, RowsAlike, JobsAlike, TypesStaff
<1>3. Billed' /\ Numbered'
  BY <1>0 DEF Billed, Numbered, Firm, Active, Taken, Holding, Rows
<1>4. Mailed'
  BY <1>0 DEF Mailed, SentWasMailed
<1>5. Listed'
  BY <1>0 DEF Listed
<1>. QED BY <1>2, <1>3, <1>4, <1>5 DEF BillingInv

-----------------------------------------------------------------------------
(* A new invoice                                                           *)

LEMMA NewIsARow ==
  ASSUME Types, NEW w \in Workers, Holding(w)
  PROVE  /\ New(worker[w]) \in Invoice
         /\ New(worker[w]).number = worker[w].number
         /\ New(worker[w]).jobs = worker[w].jobs
         /\ New(worker[w]).saw = worker[w].saw
         /\ New(worker[w]).mailed = worker[w].mailed
         /\ New(worker[w]).status = "DRAFT"
<1>1. worker[w] \in Request /\ worker[w].number \in Numbers /\ 0 \in 0..MaxDay
  BY BoundAssumption DEF Types, TypeOK
<1>. QED BY <1>1 DEF New, Request, Invoice, Statuses

(* What is left of the invariant once the row is there.                    *)
LEMMA AddStep ==
  ASSUME BillingInv, NEW w \in Workers, NEW r, RowAdd(w, r), Holding(w), Types',
         \/ UNCHANGED next
         \/ worker[w].step = "open" /\ next' = worker[w].number + 1,
         UNCHANGED <<job, today>>
  PROVE  BillingInv'
BY BilledAdd, NumberedAdd, MailedAdd, ListedAdd DEF BillingInv

LEMMA CreateStep ==
  ASSUME BillingInv, NEW w \in Workers, Create(w)
  PROVE  BillingInv'
<1> DEFINE r == New(worker[w])
           n == Len(invoices) + 1
           t == IF worker[w].mails THEN [Idle EXCEPT !.step = "mailing", !.rows = {n}] ELSE Idle
<1>0. Types /\ worker[w].step = "creating" /\ Holding(w) /\ Len(invoices) < MaxInvoices
      /\ Len(invoices) \in Nat
  BY RowsTyped DEF BillingInv, Types, TypeOK, Create, Holding
<1>1. invoices' = Append(invoices, r) /\ Becomes(w, t) /\ UNCHANGED <<job, next, lock, today, crashes>>
  BY DEF Create
<1>2. t \in Request /\ t.step \in {"idle", "mailing"} /\ t.rows \subseteq {n} /\ t.saw = 0
  <2>1. 0 \in 0..MaxNumber /\ 0 \in 0..MaxInvoices /\ {n} \in SUBSET (1..MaxInvoices)
    BY <1>0, BoundAssumption
  <2> HIDE DEF n
  <2>2. /\ [Idle EXCEPT !.step = "mailing", !.rows = {n}] \in Request
        /\ [Idle EXCEPT !.step = "mailing", !.rows = {n}].step = "mailing"
        /\ [Idle EXCEPT !.step = "mailing", !.rows = {n}].rows = {n}
        /\ [Idle EXCEPT !.step = "mailing", !.rows = {n}].saw = 0
    BY <2>1 DEF Idle, Request, Steps
  <2>. QED BY <2>2, IdleIsARequest
<1> HIDE DEF t
<1>3. \A v \in Workers : worker'[v] = IF v = w THEN t ELSE worker[v]
  BY <1>0, <1>1, WorkerGoesOn
<1>4. RowAdd(w, r)
  <2>1. r.status # "SENT" /\ r \in Invoice /\ r.number = worker[w].number /\ r.jobs = worker[w].jobs
        /\ r.saw = worker[w].saw
    BY <1>0, NewIsARow
  <2> HIDE DEF r
  <2>. QED BY <1>0, <1>1, <1>2, <1>3, <2>1 DEF RowAdd, Checking
<1>5. Types'
  <2>1. invoices' \in Seq(Invoice) /\ Len(invoices') = n
    BY <1>0, <1>1, <1>4, RowAdded DEF RowAdd, Types, TypeOK
  <2>2. n \in Rows' /\ Len(invoices) <= Len(invoices') /\ Len(invoices') <= MaxInvoices
    BY <1>0, <2>1, BoundAssumption DEF Rows
  <2>3. t.rows \subseteq Rows' /\ t.saw <= Len(invoices') /\ Own(t)
    BY <1>0, <1>2, <2>1, <2>2 DEF Own
  <2>4. lock' = lock \ {w} /\ t.step # "open"
    BY <1>0, <1>1, <1>2 DEF Types, TypeOK
  <2>5. JobsTyped' /\ next' \in 1..(MaxNumber + 1) /\ today' \in Days /\ crashes' \in 0..MaxCrashes
    BY <1>0, <1>1, JobsAlike DEF Types, TypeOK
  <2> HIDE DEF n, r
  <2>. QED BY <1>0, <1>1, <1>2, <2>1, <2>2, <2>3, <2>4, <2>5, TypesMove DEF JobsTyped
<1>. QED BY <1>0, <1>1, <1>4, <1>5, AddStep

LEMMA BatchCommitStep ==
  ASSUME BillingInv, NEW w \in Workers, BatchCommit(w)
  PROVE  BillingInv'
<1> DEFINE s == IF worker[w].mailed THEN "SENT" ELSE "DRAFT"
           r == [New(worker[w]) EXCEPT !.status = s]
<1>0. Types /\ worker[w].step = "open" /\ Holding(w) /\ Len(invoices) < MaxInvoices
      /\ Len(invoices) \in Nat
  BY RowsTyped DEF BillingInv, Types, TypeOK, BatchCommit, Holding
<1>1. invoices' = Append(invoices, r) /\ Becomes(w, Idle) /\ lock' = {}
      /\ next' = worker[w].number + 1 /\ UNCHANGED <<job, today, crashes>>
  BY DEF BatchCommit
<1>2. /\ r \in Invoice /\ r.number = worker[w].number /\ r.jobs = worker[w].jobs
      /\ r.saw = worker[w].saw /\ r.mailed = worker[w].mailed /\ r.status = s
  <2>1. s \in Statuses
    BY DEF Statuses
  <2> HIDE DEF s
  <2>. QED BY <1>0, <2>1, NewIsARow DEF Invoice
<1>3. r.status = "SENT" => r.mailed
  BY <1>2
<1>4. \A v \in Workers : worker'[v] = IF v = w THEN Idle ELSE worker[v]
  BY <1>0, <1>1, WorkerGoesOn
<1> HIDE DEF r, s
<1>5. RowAdd(w, r)
  BY <1>0, <1>1, <1>2, <1>3, <1>4, IdleIsARequest DEF RowAdd, Checking
<1>6. Types'
  <2>1. invoices' \in Seq(Invoice) /\ Len(invoices') = Len(invoices) + 1
    BY <1>0, <1>1, <1>2, RowAdded DEF Types, TypeOK
  <2>2. Len(invoices) <= Len(invoices') /\ Len(invoices') <= MaxInvoices
    BY <1>0, <2>1, BoundAssumption
  <2>3. Idle.rows \subseteq Rows' /\ Idle.saw <= Len(invoices') /\ Own(Idle)
    BY <1>0, <2>1, IdleIsARequest DEF Own
  <2>4. lock' = lock \ {w}
    BY <1>0, <1>1 DEF Types, TypeOK
  <2>5. next' \in 1..(MaxNumber + 1)
    BY <1>0, <1>1, BoundAssumption DEF Types, Numbers
  <2>6. JobsTyped' /\ today' \in Days /\ crashes' \in 0..MaxCrashes
    BY <1>0, <1>1, JobsAlike DEF Types, TypeOK
  <2>. QED BY <1>0, <1>1, <2>1, <2>2, <2>3, <2>4, <2>5, <2>6, IdleIsARequest, TypesMove DEF JobsTyped
<1>. QED BY <1>0, <1>1, <1>5, <1>6, AddStep

-----------------------------------------------------------------------------
LEMMA BillingInit == Init => BillingInv
<1>. SUFFICES ASSUME Init PROVE BillingInv
  OBVIOUS
<1>1. Types
  BY TypesInit
<1>2. DOMAIN invoices = Rows /\ Rows = {}
  BY RowsTyped DEF Init, Rows
<1>3. \A w \in Workers : worker[w].step = "idle"
  BY IdleIsARequest DEF Init
<1>4. Billed /\ Numbered /\ Mailed /\ Listed
  BY <1>2, <1>3 DEF Billed, Numbered, Mailed, SentWasMailed, Listed, Checking, Holding
<1>. QED BY <1>1, <1>4 DEF BillingInv

LEMMA BillingStep == BillingInv /\ [Next]_vars => BillingInv'
<1>. SUFFICES ASSUME BillingInv, [Next]_vars PROVE BillingInv'
  OBVIOUS
<1>1. CASE UNCHANGED vars
  BY <1>1 DEF vars, BillingInv, Types, TypeOK, Holding, Rows, Billed, Numbered, Taken, Mailed,
              SentWasMailed, Listed, Expired, Firm, Active
<1>2. ASSUME NEW w \in Workers, Begin(w) PROVE BillingInv'
  BY <1>2, CheckSteps, FindsDraftStep, BatchListStep, PurgeListStep DEF Begin
<1>3. ASSUME NEW w \in Workers, Progress(w) \/ Crash(w) PROVE BillingInv'
  BY <1>3, TakesStep, CreateStep, RestingStep, DeliverStep, BatchMailStep, BatchCommitStep,
     PurgeStep, CrashStep DEF Progress
<1>4. CASE Staff
  BY <1>4, StaffSteps, RenumberStep DEF Staff
<1>5. CASE Tick
  BY <1>5, TickStep
<1>. QED BY <1>1, <1>2, <1>3, <1>4, <1>5 DEF Next

LEMMA BillingAlways == Spec => []BillingInv
BY BillingInit, BillingStep, PTL DEF Spec

-----------------------------------------------------------------------------
(* What the invariant says of the system                                   *)

(* No job is on two invoices in force, unless the later one was checked    *)
(* before the earlier one existed, one was brought back, or the ticket     *)
(* button added the job (create_invoice_from_services,                     *)
(* process_batch_invoices, ticket_invoice).                                *)
THEOREM JobsBilledOnce == Spec => []BilledOnce
<1>1. ASSUME BillingInv PROVE BilledOnce
  <2>1. DOMAIN invoices = Rows
    BY <1>1, RowsTyped DEF BillingInv, Types, TypeOK
  <2>2. SUFFICES ASSUME NEW i \in Rows, NEW k \in Rows, i < k, i <= invoices[k].saw,
                        Active(invoices[i]), Active(invoices[k]),
                        ~invoices[i].revived, ~invoices[k].revived
                 PROVE  invoices[i].jobs \cap invoices[k].jobs
                          \subseteq invoices[i].added \cup invoices[k].added
    BY <2>1 DEF BilledOnce
  <2>3. Firm(invoices[i]) \cap Firm(invoices[k]) = {}
    BY <1>1, <2>2 DEF BillingInv, Billed
  <2>. QED BY <2>2, <2>3 DEF Firm
<1>. QED BY <1>1, BillingAlways, PTL

(* Unless the owner moved the counter back under it, a request in flight   *)
(* holds a number that no invoice and no other request has                 *)
(* (allocate_invoice_number and the row lock it takes).                    *)
THEOREM NumbersAreFree == Spec => []AllocatedIsFree
<1>1. BillingInv => AllocatedIsFree
  BY DEF BillingInv, Numbered, AllocatedIsFree
<1>. QED BY <1>1, BillingAlways, PTL

(* SENT means e-mailed, whatever happened to the invoice while the e-mail  *)
(* was on its way (InvoiceSendService.send, record_email_sent).            *)
THEOREM SentMeansMailed == Spec => []SentWasMailed
<1>1. BillingInv => SentWasMailed
  BY DEF BillingInv, Mailed
<1>. QED BY <1>1, BillingAlways, PTL

(* Every variable keeps its shape, and one open batch at most holds the    *)
(* lock of the counter.                                                    *)
THEOREM BillingTyped == Spec => []TypeOK
<1>1. BillingInv => TypeOK
  BY DEF BillingInv, Types
<1>. QED BY <1>1, BillingAlways, PTL

(* Every step edits the rows there were; only the purge removes one, and   *)
(* then one it had listed.                                                 *)
LEMMA RowSteps ==
  ASSUME BillingInv, [Next]_vars
  PROVE  \A i \in Rows :
           /\ Edit(invoices[i], invoices'[i])
           /\ ~NotPurged(invoices[i], invoices'[i]) =>
                 Expired(invoices[i].deleted) \/ invoices[i].revived
<1>0. Types /\ Mailed /\ Listed /\ DOMAIN invoices = Rows /\ \A i \in Rows : invoices[i] \in Invoice
  BY RowsTyped DEF BillingInv, Types, TypeOK
<1>1. CASE RowsEdited /\ NonePurged
  BY <1>1 DEF RowsEdited, NonePurged
<1>2. CASE \A i \in Rows : invoices'[i] = invoices[i]
  BY <1>0, <1>2, NoEdit
<1>3. CASE UNCHANGED vars \/ Tick
  BY <1>0, <1>1, <1>3, RowsAlike DEF vars, Tick
<1>4. ASSUME NEW w \in Workers, Begin(w) \/ Crash(w)
      PROVE  UNCHANGED invoices
  BY <1>4 DEF Begin, Pick, Ticket, Send, TicketFindsDraft, SendFindsDraft, BatchList, PurgeList, Crash
<1>5. ASSUME NEW w \in Workers, Create(w) \/ BatchCommit(w)
      PROVE  \A i \in Rows : invoices'[i] = invoices[i]
  <2>1. PICK r : invoices' = Append(invoices, r)
    BY <1>5 DEF Create, BatchCommit
  <2>2. invoices \in Seq(Invoice)
    BY <1>0 DEF Types, TypeOK
  <2>. QED BY <2>1, <2>2, AppendProperties, RowsTyped DEF Rows
<1>6. ASSUME NEW w \in Workers, PurgeDelete(w)
      PROVE  \A i \in Rows :
               /\ Edit(invoices[i], invoices'[i])
               /\ ~NotPurged(invoices[i], invoices'[i]) =>
                     Expired(invoices[i].deleted) \/ invoices[i].revived
  BY <1>0, <1>6, PurgeEditsRows DEF RowsEdited, NotPurged, Listed, PurgeDelete
<1>7. ASSUME NEW w \in Workers, Progress(w), ~Create(w), ~BatchCommit(w), ~PurgeDelete(w)
      PROVE  RowsEdited /\ NonePurged
  <2>1. CASE Allocate(w) \/ CreateRefused(w) \/ DeliveryFails(w) \/ BatchOpen(w) \/ BatchMail(w)
    BY <1>0, <2>1, RowsAlike DEF Allocate, CreateRefused, DeliveryFails, BatchOpen, BatchMail
  <2>2. CASE AddBreaks(w) \/ Deliver(w) \/ MarkSent(w)
    BY <1>0, <2>2, AddBreaksEdits, DeliverEditsRows, MarkSentEdits
  <2>. QED BY <1>7, <2>1, <2>2 DEF Progress
<1>8. CASE Staff
  <2>1. CASE (\E j \in Jobs : Complete(j)) \/ \E n \in Numbers : Renumber(n)
    BY <1>0, <1>1, <2>1, RowsAlike DEF Complete, Renumber
  <2>2. CASE \/ \E i \in Rows : Void(i) \/ DeleteInvoice(i) \/ RestoreInvoice(i)
             \/ \E j \in Jobs : DeleteJob(j) \/ RestoreJob(j)
    BY <1>0, <1>1, <2>2, BinSteps, VoidEditsRows
  <2>. QED BY <1>0, <1>8, <2>1, <2>2 DEF Staff
<1>9. CASE \E w \in Workers : Begin(w) \/ Crash(w)
  BY <1>0, <1>1, <1>4, <1>9, RowsAlike
<1>10. CASE \E w \in Workers : Progress(w)
  BY <1>1, <1>2, <1>5, <1>6, <1>7, <1>10
<1>. QED BY <1>3, <1>8, <1>9, <1>10 DEF Next

(* The purge takes no line from an invoice it leaves standing in force     *)
(* (purge_deleted_records, CODE-258), and neither does anything else.      *)
THEOREM BilledLinesStay == Spec => LinesStay
<1>1. ASSUME BillingInv, [Next]_vars
      PROVE  [\A i \in DOMAIN invoices :
                (Active(invoices[i]) /\ invoices'[i].status # "GONE")
                   => invoices[i].jobs \subseteq invoices'[i].jobs]_vars
  BY <1>1, RowSteps, RowsTyped DEF Edit, BillingInv, Types, TypeOK
<1>. QED BY <1>1, BillingAlways, PTL DEF Spec, LinesStay

(* What is purged was past the restore window, or came back with its job   *)
(* after the purge had listed it (purge_deleted_records).                  *)
THEOREM RestorableIsKept == Spec => RestorableStays
<1>1. ASSUME BillingInv, [Next]_vars
      PROVE  \A i \in DOMAIN invoices :
               (invoices[i].status # "GONE" /\ invoices'[i].status = "GONE")
                  => Expired(invoices[i].deleted) \/ invoices[i].revived
  BY <1>1, RowSteps, RowsTyped DEF NotPurged, BillingInv, Types, TypeOK
<1>2. ASSUME BillingInv, [Next]_vars
      PROVE  \A j \in Jobs : (~job[j].gone /\ job'[j].gone) => Expired(job[j].deleted)
  <2>1. CASE \E w \in Workers : PurgeDelete(w)
    <3>1. PICK w \in Workers : PurgeDelete(w)
      BY <2>1
    <3>2. \A j \in worker[w].jobs : job[j].gone \/ Expired(job[j].deleted)
      BY <1>2, <3>1 DEF BillingInv, Listed, PurgeDelete
    <3>3. \/ UNCHANGED job
          \/ job' = [j \in Jobs |-> IF j \in worker[w].jobs THEN [job[j] EXCEPT !.gone = TRUE] ELSE job[j]]
      BY <3>1 DEF PurgeDelete
    <3>. QED BY <3>2, <3>3
  <2>2. CASE \E j \in Jobs : Complete(j) \/ DeleteJob(j) \/ RestoreJob(j)
    <3>1. PICK k \in Jobs : Complete(k) \/ DeleteJob(k) \/ RestoreJob(k)
      BY <2>2
    <3>2. job[k] \in [done : BOOLEAN, deleted : 0..MaxDay, gone : BOOLEAN]
      BY <1>2 DEF BillingInv, Types, TypeOK
    <3>3. PICK q : job' = [job EXCEPT ![k] = q] /\ \/ q = [job[k] EXCEPT !.done = TRUE]
                                                   \/ q = [job[k] EXCEPT !.deleted = today]
                                                   \/ q = [job[k] EXCEPT !.deleted = 0]
      BY <3>1 DEF Complete, DeleteJob, RestoreJob
    <3>4. q.gone = job[k].gone
      BY <3>2, <3>3
    <3>. QED BY <1>2, <3>3, <3>4 DEF BillingInv, Types, TypeOK
  <2>3. CASE UNCHANGED job
    BY <2>3
  <2>4. \/ UNCHANGED job
        \/ \E w \in Workers : PurgeDelete(w)
        \/ \E j \in Jobs : Complete(j) \/ DeleteJob(j) \/ RestoreJob(j)
    BY <1>2, ZenonT(30) DEF Next, vars, Begin, Progress, Staff, Tick, Crash, Pick, Ticket, Send, TicketFindsDraft,
                SendFindsDraft, BatchList, PurgeList, Allocate, Create, CreateRefused, AddBreaks, Deliver,
                DeliveryFails, MarkSent, BatchOpen, BatchMail, BatchCommit, Void, DeleteInvoice,
                RestoreInvoice, Renumber
  <2>. QED BY <2>1, <2>2, <2>3, <2>4
<1>. QED BY <1>1, <1>2, BillingAlways, PTL DEF Spec, RestorableStays
=============================================================================
