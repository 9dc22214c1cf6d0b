-------------------------- MODULE ShopSchedule_proofs --------------------------
(***************************************************************************)
(* Proofs about ShopSchedule, for any numbers of workers, technicians and  *)
(* jobs: transactions that lock in the order of the keys never wait for    *)
(* each other in a circle, the breaks of a visit stay at one time, and a   *)
(* shop that rotates gives its technicians even shares.                    *)
(***************************************************************************)
EXTENDS ShopSchedule, FiniteSetTheorems, NaturalsInduction, WellFoundedInduction, TLAPS

LEMMA JobsAreNaturals == Jobs \subseteq Nat
BY ScheduleAssumption DEF Jobs

(* A nonempty set of keys has a least one.                                 *)
LEMMA LeastIsLeast ==
  ASSUME NEW S \in SUBSET Nat, S # {}
  PROVE  Least(S) \in S /\ \A y \in S : Least(S) <= y
<1>1. OpToRel(<, Nat) = {ss \in Nat \X Nat : ss[1] < ss[2]}
  BY DEF OpToRel
<1>2. PICK x \in S : \A y \in S : ~(<<y, x>> \in OpToRel(<, Nat))
  BY NatLessThanWellFounded, WFMin
<1>3. ASSUME NEW y \in S PROVE x <= y
  <2>1. <<y, x>> \in Nat \X Nat /\ <<y, x>>[1] = y /\ <<y, x>>[2] = x
    OBVIOUS
  <2>2. <<y, x>> \notin {ss \in Nat \X Nat : ss[1] < ss[2]}
    BY <1>1, <1>2
  <2>3. ~(y < x)
    BY <2>1, <2>2
  <2> QED BY <2>3
<1> QED BY <1>3 DEF Least

(* And, if it is bounded, a greatest one.                                  *)
LEMMA GreatestExists ==
  ASSUME NEW S \in SUBSET Jobs, S # {}
  PROVE  \E x \in S : \A y \in S : y <= x
<1> DEFINE T == {MaxJobs - x : x \in S}
<1>1. \A x \in S : x \in Nat /\ MaxJobs - x \in Nat
  BY ScheduleAssumption DEF Jobs
<1>2. T \in SUBSET Nat /\ T # {}
  BY <1>1
<1>3. Least(T) \in T /\ \A y \in T : Least(T) <= y
  <2> HIDE DEF T
  <2> QED BY <1>2, LeastIsLeast
<1>4. PICK x \in S : Least(T) = MaxJobs - x
  BY <1>3
<1>5. \A y \in S : MaxJobs - x <= MaxJobs - y
  BY <1>3, <1>4
<1>6. \A y \in S : y <= x
  BY <1>1, <1>5, ScheduleAssumption
<1> QED BY <1>6

-----------------------------------------------------------------------------
(* Locks                                                                   *)

HoldsOf(t) == IF t.at = "lock" THEN t.holds ELSE {}

InOrder(t) ==
  \A k \in t.jobs \ t.holds : t.next <= k /\ \A j \in t.holds : j < k

Fields(t) ==
  t = [at |-> "lock", op |-> t.op, jobs |-> t.jobs, holds |-> t.holds,
       next |-> t.next, named |-> t.named, copy |-> t.copy]

LockOK(t) ==
  t.at = "lock" =>
    /\ Fields(t)
    /\ t.jobs \subseteq Jobs
    /\ t.holds \subseteq t.jobs
    /\ t.next \in t.jobs
    /\ t.op \in Ordered => InOrder(t)
    /\ t.op \in Ordered /\ t.holds # t.jobs => t.next \notin t.holds

(* Rows are locked by one transaction, and an ordered one holds the keys   *)
(* below the one it asks for.                                              *)
LockInv ==
  /\ task = [w \in Workers |-> task[w]]
  /\ \A w \in Workers : LockOK(task[w])
  /\ \A w, v \in Workers : w # v => HoldsOf(task[w]) \cap HoldsOf(task[v]) = {}

LEMMA LockInit == Init => LockInv
BY DEF Init, LockInv, LockOK, HoldsOf, Idle

(* A worker goes on to something that holds no more than is free.          *)
LEMMA LockGoesOn ==
  ASSUME LockInv, NEW w \in Workers, NEW t, task' = [task EXCEPT ![w] = t],
         LockOK(t), \A v \in Workers \ {w} : HoldsOf(t) \cap HoldsOf(task[v]) = {}
  PROVE  LockInv'
<1>1. task' = [v \in Workers |-> IF v = w THEN t ELSE task[v]]
  BY DEF LockInv
<1>2. \A v \in Workers : task'[v] = IF v = w THEN t ELSE task[v]
  BY <1>1
<1>3. task' = [v \in Workers |-> task'[v]]
  BY <1>1
<1>4. \A v \in Workers : LockOK(task'[v])
  BY <1>2 DEF LockInv
<1>5. \A u, v \in Workers : u # v => HoldsOf(task'[u]) \cap HoldsOf(task'[v]) = {}
  BY <1>2 DEF LockInv
<1> QED BY <1>3, <1>4, <1>5 DEF LockInv, LockOK, HoldsOf, InOrder, Fields

(* A worker that is not locking.                                           *)
LEMMA LockIsElsewhere ==
  ASSUME LockInv, NEW w \in Workers, NEW t, task' = [task EXCEPT ![w] = t], t.at # "lock"
  PROVE  LockInv'
<1>1. LockOK(t)
  BY DEF LockOK
<1>2. \A v \in Workers \ {w} : HoldsOf(t) \cap HoldsOf(task[v]) = {}
  BY DEF HoldsOf
<1> QED BY <1>1, <1>2, LockGoesOn

LEMMA LockBegins ==
  ASSUME LockInv, NEW w \in Workers, NEW op, NEW S \in SUBSET Jobs, NEW named \in S,
         Lock(w, op, S, named)
  PROVE  LockInv'
<1> DEFINE t == [at |-> "lock", op |-> op, jobs |-> S, holds |-> {},
                 next |-> FirstLocked(op, S, named),
                 named |-> IF op = "dispatch" THEN named ELSE Least(S),
                 copy |-> [j \in S |-> IF op \in Unlocked THEN row[j] ELSE NoRow]]
<1>1. task' = [task EXCEPT ![w] = t]
  BY DEF Lock, Starting
<1>2. Least(S) \in S /\ \A y \in S : Least(S) <= y
  BY LeastIsLeast, JobsAreNaturals
<1>3. t.next \in S /\ (op \in Ordered => \A y \in S : t.next <= y)
  BY <1>2 DEF FirstLocked
<1>4. LockOK(t)
  BY <1>3 DEF LockOK, InOrder, Fields
<1>5. HoldsOf(t) = {}
  BY DEF HoldsOf
<1> HIDE DEF t
<1> QED BY <1>1, <1>4, <1>5, LockGoesOn

LEMMA LockGrows ==
  ASSUME LockInv, NEW w \in Workers, Acquire(w)
  PROVE  LockInv'
<1> DEFINE t == task[w]
           holds == t.holds \cup {t.next}
           rest == t.jobs \ holds
<1>1. LockOK(t) /\ t.at = "lock" /\ t.holds # t.jobs /\ ~LockedByOther(w, t.next)
  BY DEF Acquire, LockInv
<1>2. PICK j \in IF rest = {} THEN {t.next}
                 ELSE IF t.op \in Unlocked THEN rest ELSE {Least(rest)} :
             task' = [task EXCEPT ![w] = [[t EXCEPT !.holds = holds] EXCEPT !.next = j]]
  BY DEF Acquire, Become
<1> DEFINE u == [at |-> "lock", op |-> t.op, jobs |-> t.jobs, holds |-> holds,
                 next |-> j, named |-> t.named, copy |-> t.copy]
<1>3. /\ t.jobs \subseteq Jobs /\ t.holds \subseteq t.jobs /\ t.next \in t.jobs
      /\ Fields(t)
  BY <1>1 DEF LockOK
<1>4. rest # {} => Least(rest) \in rest /\ \A y \in rest : Least(rest) <= y
  BY <1>3, LeastIsLeast, JobsAreNaturals
<1>5. task' = [task EXCEPT ![w] = u]
  <2>1. t = [at |-> "lock", op |-> t.op, jobs |-> t.jobs, holds |-> t.holds,
             next |-> t.next, named |-> t.named, copy |-> t.copy]
    BY <1>3 DEF Fields
  <2>2. [[t EXCEPT !.holds = holds] EXCEPT !.next = j] = u
    <3> DEFINE op == t.op
               jobs == t.jobs
               held == t.holds
               next == t.next
               named == t.named
               copy == t.copy
    <3>1. t = [at |-> "lock", op |-> op, jobs |-> jobs, holds |-> held, next |-> next,
               named |-> named, copy |-> copy]
      BY <2>1
    <3> HIDE DEF t, holds, op, jobs, held, next, named, copy
    <3>2. [t EXCEPT !.holds = holds]
          = [at |-> "lock", op |-> op, jobs |-> jobs, holds |-> holds, next |-> next,
             named |-> named, copy |-> copy]
      BY <3>1
    <3>3. [[at |-> "lock", op |-> op, jobs |-> jobs, holds |-> holds, next |-> next,
            named |-> named, copy |-> copy] EXCEPT !.next = j]
          = [at |-> "lock", op |-> op, jobs |-> jobs, holds |-> holds, next |-> j,
             named |-> named, copy |-> copy]
      OBVIOUS
    <3>4. [[t EXCEPT !.holds = holds] EXCEPT !.next = j]
          = [at |-> "lock", op |-> op, jobs |-> jobs, holds |-> holds, next |-> j,
             named |-> named, copy |-> copy]
      BY <3>2, <3>3
    <3> QED BY <3>4 DEF op, jobs, named, copy
  <2> QED BY <1>2, <2>2
<1>6. HoldsOf(u) = holds /\ HoldsOf(t) = t.holds
  BY <1>1 DEF HoldsOf
<1>7. j \in t.jobs /\ (rest # {} => j \in rest)
  BY <1>2, <1>3, <1>4
<1>8. ASSUME t.op \in Ordered PROVE InOrder(u)
  <2>1. InOrder(t)
    BY <1>1, <1>8 DEF LockOK
  <2>2. ASSUME NEW k \in rest PROVE j <= k /\ \A i \in holds : i < k
    <3>1. j = Least(rest)
      BY <1>2, <1>8, <2>2 DEF Ordered, Unlocked
    <3>2. j <= k
      BY <1>4, <2>2, <3>1
    <3>3. \A i \in t.holds : i < k
      BY <2>1, <2>2 DEF InOrder
    <3>4. t.next <= k /\ t.next # k
      BY <2>1, <2>2 DEF InOrder
    <3>5. t.next \in Nat /\ k \in Nat
      BY <1>3, <2>2, JobsAreNaturals
    <3>6. t.next < k
      BY <3>4, <3>5
    <3> QED BY <3>2, <3>3, <3>6
  <2> QED BY <2>2 DEF InOrder
<1>9. LockOK(u)
  <2>1. Fields(u)
    BY DEF Fields
  <2>2. holds \subseteq t.jobs
    BY <1>3
  <2>3. holds # t.jobs => j \notin holds
    BY <1>7, <2>2
  <2> QED BY <1>3, <1>7, <1>8, <2>1, <2>2, <2>3 DEF LockOK
<1>10. \A v \in Workers \ {w} : HoldsOf(u) \cap HoldsOf(task[v]) = {}
  <2>1. \A v \in Workers \ {w} : t.next \notin HoldsOf(task[v])
    BY <1>1 DEF LockedByOther, Holds, HoldsOf
  <2>2. \A v \in Workers \ {w} : t.holds \cap HoldsOf(task[v]) = {}
    BY <1>6 DEF LockInv
  <2> QED BY <1>6, <2>1, <2>2
<1> HIDE DEF u
<1> QED BY <1>5, <1>9, <1>10, LockGoesOn

(* Every step keeps the locks in order.                                    *)
LEMMA LockStep ==
  ASSUME LockInv, [Next]_vars
  PROVE  LockInv'
<1>1. CASE UNCHANGED vars
  BY <1>1 DEF vars, LockInv, LockOK, HoldsOf, InOrder, Fields
<1>2. ASSUME NEW w \in Workers, NEW j \in Jobs, Book(w, j) \/ Dispatch(w, j)
      PROVE  LockInv'
  <2>1. Visit(j) \in SUBSET Jobs /\ j \in Visit(j)
    BY <1>2 DEF Book, Dispatch, Visit, Existing
  <2> QED BY <1>2, <2>1, LockBegins DEF Book, Dispatch
<1>3. ASSUME NEW w \in Workers, NEW j \in Jobs, NEW k \in Jobs, Swap(w, j, k)
      PROVE  LockInv'
  <2>1. Lock(w, "swap", {j, k}, j)
    BY <1>3 DEF Swap
  <2> QED BY <2>1, LockBegins
<1>4. ASSUME NEW w \in Workers, NEW S \in SUBSET Jobs, Bulk(w, S)
      PROVE  LockInv'
  BY <1>4, LockBegins DEF Bulk
<1>5. ASSUME NEW w \in Workers, Acquire(w)
      PROVE  LockInv'
  BY <1>5, LockGrows
<1>6. ASSUME NEW w \in Workers, \E breaks \in 1..2 : RequestRepair(w, breaks)
      PROVE  LockInv'
  <2>1. PICK breaks \in 1..2 : RequestRepair(w, breaks)
    BY <1>6
  <2> DEFINE t == [at |-> "insert", breaks |-> breaks, tech |-> LowestWorkload({})]
  <2>2. task' = [task EXCEPT ![w] = t] /\ t.at # "lock"
    BY <2>1 DEF RequestRepair, Starting
  <2> HIDE DEF t
  <2> QED BY <2>2, LockIsElsewhere
<1>7. ASSUME NEW w \in Workers, Insert(w)
      PROVE  LockInv'
  <2> DEFINE first == Cardinality(Existing) + 1
             mine == first..(first + task[w].breaks - 1)
             new == [NoRow EXCEPT !.status = "REQUESTED", !.tech = task[w].tech]
             t == [at |-> "select", todo |-> mine, copy |-> [j \in mine |-> new]]
  <2>1. task' = [task EXCEPT ![w] = t] /\ t.at # "lock"
    BY <1>7 DEF Insert, Become
  <2> HIDE DEF t
  <2> QED BY <2>1, LockIsElsewhere
<1>8. ASSUME NEW w \in Workers, Select(w)
      PROVE  LockInv'
  <2> DEFINE t == [at |-> "apply", todo |-> task[w].todo, copy |-> task[w].copy,
                   tech |-> Selected({Least(task[w].todo)})]
  <2>1. task' = [task EXCEPT ![w] = t] /\ t.at # "lock"
    BY <1>8 DEF Select, Become
  <2> HIDE DEF t
  <2> QED BY <2>1, LockIsElsewhere
<1>9. ASSUME NEW w \in Workers, Apply(w)
      PROVE  LockInv'
  <2> DEFINE j == Least(task[w].todo)
             assigned(r) == IF task[w].tech = NoTech THEN [r EXCEPT !.queued = TRUE]
                            ELSE [r EXCEPT !.tech = task[w].tech]
             rest == task[w].todo \ {j}
             copy == [task[w].copy EXCEPT ![j] = assigned(@)]
             t == IF rest # {} THEN [at |-> "select", todo |-> rest, copy |-> copy]
                  ELSE [at |-> "accept", todo |-> DOMAIN copy, copy |-> copy]
  <2>1. task' = [task EXCEPT ![w] = t] /\ t.at # "lock"
    BY <1>9 DEF Apply, Become
  <2> HIDE DEF t
  <2> QED BY <2>1, LockIsElsewhere
<1>10. ASSUME NEW w \in Workers, Accept(w)
       PROVE  LockInv'
  <2> DEFINE rest == task[w].todo \ {Least(task[w].todo)}
             t == IF rest = {} THEN Idle ELSE [task[w] EXCEPT !.todo = rest]
  <2>1. task' = [task EXCEPT ![w] = t] /\ task[w].at = "accept"
    BY <1>10 DEF Accept, Become
  <2>2. t.at # "lock"
    BY <2>1 DEF Idle
  <2> HIDE DEF t
  <2> QED BY <2>1, <2>2, LockIsElsewhere
<1>11. ASSUME NEW w \in Workers, NewJob(w)
       PROVE  LockInv'
  <2>1. PICK c \in Choices :
           task' = [task EXCEPT ![w] = [at |-> "create", tech |-> c.tech,
                                        queued |-> c.queued]]
    BY <1>11 DEF NewJob, Starting
  <2> DEFINE t == [at |-> "create", tech |-> c.tech, queued |-> c.queued]
  <2>2. task' = [task EXCEPT ![w] = t] /\ t.at # "lock"
    BY <2>1
  <2> HIDE DEF t
  <2> QED BY <2>2, LockIsElsewhere
<1>12. ASSUME NEW w \in Workers, NEW j \in Jobs, Read(w, j)
       PROVE  LockInv'
  <2> DEFINE t == [at |-> "save", job |-> j, copy |-> row[j]]
  <2>1. task' = [task EXCEPT ![w] = t] /\ t.at # "lock"
    BY <1>12 DEF Read, Starting
  <2> HIDE DEF t
  <2> QED BY <2>1, LockIsElsewhere
<1>13. ASSUME NEW w \in Workers, Become(w, Idle)
       PROVE  LockInv'
  <2>1. task' = [task EXCEPT ![w] = Idle]
    BY <1>13 DEF Become
  <2>2. Idle.at # "lock"
    BY DEF Idle
  <2> QED BY <2>1, <2>2, LockIsElsewhere
<1>14. ASSUME NEW w \in Workers,
              \/ InsertJob(w) \/ Save(w) \/ Confirm(w) \/ ApplyDispatch(w)
              \/ TradePlaces(w) \/ SaveBulk(w) \/ Refuse(w) \/ Deadlocked(w) \/ Crash(w)
       PROVE  Become(w, Idle)
  BY <1>14 DEF InsertJob, Save, Confirm, ApplyDispatch, TradePlaces, SaveBulk, Refuse,
               Deadlocked, Crash
<1> QED
  BY <1>1, <1>2, <1>3, <1>4, <1>5, <1>6, <1>7, <1>8, <1>9, <1>10, <1>11, <1>12,
     <1>13, <1>14 DEF Next

LEMMA NoCircle ==
  ASSUME LockInv
  PROVE  BookingsNeverDeadlock
<1>1. SUFFICES ASSUME NEW C \in SUBSET Workers, WaitingInCircle(C),
                      \A w \in C : task[w].op \in Ordered
               PROVE  FALSE
  BY DEF BookingsNeverDeadlock
<1>2. ASSUME NEW w \in C, NEW v \in Workers, WaitsFor(w, v)
      PROVE  /\ task[w].next \in Jobs
             /\ v \in C => task[v].next \in Jobs /\ task[w].next < task[v].next
  <2>1. LockOK(task[w]) /\ LockOK(task[v])
    BY <1>2 DEF LockInv
  <2>2. w # v /\ task[w].at = "lock" /\ task[w].next \in HoldsOf(task[v])
    BY <1>2 DEF WaitsFor, Holds, HoldsOf
  <2>3. task[w].next \in Jobs
    BY <2>1, <2>2 DEF LockOK
  <2>4. task[v].at = "lock" /\ task[w].next \in task[v].holds
    BY <2>2 DEF HoldsOf
  <2>5. ASSUME v \in C
        PROVE  task[v].next \in Jobs /\ task[w].next < task[v].next
    <3>1. task[v].op \in Ordered
      BY <1>1, <2>5
    <3>2. \E u \in C : WaitsFor(v, u)
      BY <1>1, <2>5 DEF WaitingInCircle
    <3>3. task[v].next \notin task[v].holds
      BY <3>2, <2>4, <1>1 DEF WaitsFor, Holds, HoldsOf, LockInv
    <3>4. task[v].next \in task[v].jobs \ task[v].holds /\ task[v].next \in Jobs
      BY <2>1, <2>4, <3>3 DEF LockOK
    <3>5. InOrder(task[v])
      BY <2>1, <2>4, <3>1 DEF LockOK
    <3> QED BY <2>4, <3>4, <3>5 DEF InOrder
  <2> QED BY <2>3, <2>5
<1> DEFINE N == {task[w].next : w \in C}
<1>3. C # {} /\ \A w \in C : \E v \in C : WaitsFor(w, v)
  BY <1>1 DEF WaitingInCircle
<1>4. N \in SUBSET Jobs /\ N # {}
  BY <1>2, <1>3
<1>5. PICK x \in N : \A y \in N : y <= x
  <2> HIDE DEF N
  <2> QED BY <1>4, GreatestExists
<1>6. PICK w \in C : x = task[w].next
  BY <1>5
<1>7. PICK v \in C : WaitsFor(w, v)
  BY <1>3
<1>8. task[v].next <= x /\ x < task[v].next /\ x \in Nat /\ task[v].next \in Nat
  BY <1>2, <1>4, <1>5, <1>6, <1>7, JobsAreNaturals
<1> QED BY <1>8

(* Bookings and swaps that wait for each other in a circle: none, whatever *)
(* else the workers do (schedule_booking.py, schedule_swap.py).            *)
THEOREM BookingsNeverDeadlockHolds == Spec => []BookingsNeverDeadlock
<1>1. Init => LockInv
  BY LockInit
<1>2. LockInv /\ [Next]_vars => LockInv'
  BY LockStep
<1>3. LockInv => BookingsNeverDeadlock
  BY NoCircle
<1> QED BY <1>1, <1>2, <1>3, PTL DEF Spec

-----------------------------------------------------------------------------
(* Visits                                                                  *)

Columns == {"status", "tech", "queued", "start", "end"}
IsJob(r) == DOMAIN r = Columns /\ r.status \in Status

(* Choosing a technician and changing the state leave the time alone.      *)
LEMMA SettledJob ==
  ASSUME NEW r, NEW t, IsJob(r)
  PROVE  /\ IsJob(Settled(r, t))
         /\ Settled(r, t).status = r.status
         /\ Settled(r, t).start = r.start /\ Settled(r, t).end = r.end
BY DEF IsJob, Columns, Settled

LEMMA JobGoesOn ==
  ASSUME NEW r, NEW s \in Status, IsJob(r)
  PROVE  LET b == [r EXCEPT !.status = s] IN
         IsJob(b) /\ b.start = r.start /\ b.end = r.end
BY DEF IsJob, Columns

(* Jobs are numbered as they come, and a job's visit is one of them.       *)
VisitsOK ==
  /\ row = [j \in Jobs |-> row[j]]
  /\ visit \in [Jobs -> Jobs]
  /\ \A j \in Jobs : DOMAIN row[j] = Columns /\ row[j].status \in Status \cup {"none"}
  /\ \E n \in Nat : Existing = 1..n
  /\ \A j \in Existing : visit[j] \in Existing
  /\ \A j \in Jobs \ Existing : visit[j] = j

(* What a request relies on from one of its steps to the next: its jobs    *)
(* exist, and a booking or a dispatch has the whole visit.                 *)
Keeps(t) ==
  /\ t.at = "insert" => t.breaks \in 1..2
  /\ t.at \in {"select", "apply", "accept"} =>
        /\ "todo" \in DOMAIN t
        /\ t.todo # {} /\ t.todo \subseteq DOMAIN t.copy /\ DOMAIN t.copy \subseteq Existing
        /\ \A j \in DOMAIN t.copy : IsJob(t.copy[j])
  /\ t.at = "save" => t.job \in Existing /\ IsJob(t.copy)
  /\ t.at = "lock" =>
        /\ t.jobs \subseteq Existing
        /\ t.op \in {"book", "dispatch"} => t.named \in Existing /\ t.jobs = Visit(t.named)
        /\ t.op \in Unlocked => \A j \in t.jobs : IsJob(t.copy[j])

VisitInv ==
  /\ VisitsOK
  /\ task = [w \in Workers |-> task[w]]
  /\ \A w \in Workers : Keeps(task[w])
  /\ VisitTogether

LEMMA VisitInit == Init => VisitInv
<1>. SUFFICES ASSUME Init PROVE VisitInv
  OBVIOUS
<1>1. Existing = {}
  BY DEF Init, Existing, NoRow
<1>2. 0 \in Nat /\ 1..0 = {}
  OBVIOUS
<1>3. VisitsOK
  BY <1>1, <1>2 DEF Init, VisitsOK, NoRow, Columns
<1>4. task = [w \in Workers |-> task[w]] /\ \A w \in Workers : Keeps(task[w])
  BY DEF Init, Keeps, Idle
<1>5. VisitTogether
  BY <1>1 DEF VisitTogether
<1>. QED BY <1>3, <1>4, <1>5 DEF VisitInv

LEMMA ExistingAreJobs == Existing \subseteq Jobs
BY DEF Existing

LEMMA LeastOfTodo ==
  ASSUME NEW S \in SUBSET Existing, S # {}
  PROVE  Least(S) \in S
BY LeastIsLeast, JobsAreNaturals, ExistingAreJobs

(* A worker goes on, and jobs stay where they are in their visits.         *)
LEMMA KeptByAll ==
  ASSUME VisitInv, NEW w \in Workers, NEW t, task' = [task EXCEPT ![w] = t], Keeps(t)',
         Existing \subseteq Existing',
         \A j \in Existing : Visit(j)' = Visit(j)
  PROVE  task' = [v \in Workers |-> task'[v]] /\ \A v \in Workers : Keeps(task[v])'
<1>1. task' = [v \in Workers |-> IF v = w THEN t ELSE task[v]]
  BY DEF VisitInv
<1>2. \A v \in Workers : task'[v] = IF v = w THEN t ELSE task[v]
  BY <1>1
<1>3. \A v \in Workers \ {w} : Keeps(task[v])
  BY DEF VisitInv
<1>4. \A v \in Workers \ {w} : Keeps(task[v])'
  BY <1>2, <1>3 DEF Keeps
<1>5. Keeps(task[w])'
  BY <1>2 DEF Keeps
<1>. QED BY <1>1, <1>2, <1>4, <1>5

(* The rows are left alone.                                                *)
LEMMA RowsAlone ==
  ASSUME VisitInv, UNCHANGED <<row, visit, apart>>,
         NEW w \in Workers, NEW t, task' = [task EXCEPT ![w] = t], Keeps(t)
  PROVE  VisitInv'
<1>1. Existing' = Existing /\ \A j \in Existing : Visit(j)' = Visit(j)
  BY DEF Existing, Visit
<1>2. Keeps(t)'
  BY <1>1 DEF Keeps
<1>3. VisitsOK'
  BY <1>1 DEF VisitInv, VisitsOK
<1>4. VisitTogether'
  BY <1>1 DEF VisitInv, VisitTogether
<1>. QED BY <1>1, <1>2, <1>3, <1>4, KeptByAll DEF VisitInv

(* Rows of existing jobs are written: of a whole visit alike, or without a *)
(* change of the time, or of a visit that is noted as apart.               *)
TogetherBut(moved, S, new) ==
  \A j \in S : visit[j] \notin moved =>
    \/ Visit(j) = {j}
    \/ new[j].start = row[j].start /\ new[j].end = row[j].end
    \/ /\ Visit(j) \subseteq S
       /\ \A k \in Visit(j) : new[k].start = new[j].start /\ new[k].end = new[j].end

AreJobs(S, new) == \A j \in S : IsJob(new[j])

LEMMA RowsMove ==
  ASSUME VisitInv, NEW S \in SUBSET Existing, NEW new,
         Overwrite(S, new), visit' = visit, apart \subseteq apart',
         AreJobs(S, new), TogetherBut(apart', S, new),
         NEW w \in Workers, NEW t, task' = [task EXCEPT ![w] = t], Keeps(t)
  PROVE  VisitInv'
<1>0. row' = [j \in Jobs |-> IF j \in S THEN new[j] ELSE row[j]]
  BY DEF Overwrite
<1>1. \A j \in Jobs : row'[j] = IF j \in S THEN new[j] ELSE row[j]
  BY <1>0
<1>2. Existing' = Existing
  <2>1. "none" \notin Status
    BY DEF Status
  <2>2. \A j \in Jobs : row'[j].status # "none" <=> row[j].status # "none"
    BY <1>1, <2>1 DEF Existing, AreJobs, IsJob
  <2>. QED BY <2>2 DEF Existing
<1>3. \A j \in Existing : Visit(j)' = Visit(j)
  BY <1>2 DEF Visit
<1>4. VisitsOK'
  <2>1. \A j \in Jobs : DOMAIN row'[j] = Columns /\ row'[j].status \in Status \cup {"none"}
    BY <1>1 DEF VisitInv, VisitsOK, AreJobs, IsJob
  <2>. QED BY <1>0, <1>2, <2>1 DEF VisitInv, VisitsOK
<1>5. VisitTogether'
  <2>1. SUFFICES ASSUME NEW j \in Existing, visit[j] \notin apart', NEW k \in Visit(j)
                 PROVE  row'[k].start = row'[j].start /\ row'[k].end = row'[j].end
    BY <1>2, <1>3 DEF VisitTogether
  <2>2. /\ j \in Jobs /\ k \in Jobs /\ k \in Existing /\ visit[k] = visit[j]
        /\ Visit(k) = Visit(j) /\ j \in Visit(j)
    BY <2>1, ExistingAreJobs DEF Visit
  <2>3. row[k].start = row[j].start /\ row[k].end = row[j].end
    BY <2>1 DEF VisitInv, VisitTogether
  <2>4. CASE Visit(j) = {j}
    BY <2>1, <2>4
  <2>5. CASE \E i \in S : /\ i \in {j, k} /\ Visit(i) \subseteq S
                         /\ \A l \in Visit(i) : new[l].start = new[i].start /\ new[l].end = new[i].end
    <3>1. j \in S /\ k \in S /\ new[k].start = new[j].start /\ new[k].end = new[j].end
      BY <2>1, <2>2, <2>5
    <3>. QED BY <1>1, <2>2, <3>1
  <2>6. CASE \A i \in S \cap {j, k} : new[i].start = row[i].start /\ new[i].end = row[i].end
    <3>1. \A i \in {j, k} : row'[i].start = row[i].start /\ row'[i].end = row[i].end
      BY <1>1, <2>2, <2>6
    <3>. QED BY <2>3, <3>1
  <2>. QED BY <2>1, <2>2, <2>4, <2>5, <2>6 DEF TogetherBut
<1>6. Keeps(t)'
  BY <1>2, <1>3 DEF Keeps
<1>. QED BY <1>2, <1>3, <1>4, <1>5, <1>6, KeptByAll DEF VisitInv

(* Full-row saves: what moves a break by itself is noted.                  *)
LEMMA SavesMove ==
  ASSUME VisitInv, NEW S \in SUBSET Existing, NEW new, Writes(S, new), visit' = visit, AreJobs(S, new),
         NEW w \in Workers, NEW t, task' = [task EXCEPT ![w] = t], Keeps(t)
  PROVE  VisitInv'
<1>1. Overwrite(S, new) /\ apart \subseteq apart'
  BY DEF Writes, Overwrite
<1>2. \A j \in S : visit[j] \notin apart' =>
         Visit(j) = {j} \/ (new[j].start = row[j].start /\ new[j].end = row[j].end)
  BY DEF Writes
<1>3. TogetherBut(apart', S, new)
  BY <1>2 DEF TogetherBut
<1>. QED BY <1>1, <1>3, RowsMove

(* A whole visit is booked for one time.                                   *)
BookedFor(S, new, s, e) == \A j \in S : IsJob(new[j]) /\ new[j].start = s /\ new[j].end = e

LEMMA BookingMoves ==
  ASSUME VisitInv, NEW named \in Existing, NEW s, NEW e, NEW new,
         Overwrite(Visit(named), new), visit' = visit, apart' = apart,
         BookedFor(Visit(named), new, s, e),
         NEW w \in Workers, NEW t, task' = [task EXCEPT ![w] = t], Keeps(t)
  PROVE  VisitInv'
<1>. DEFINE S == Visit(named)
<1>1. S \in SUBSET Existing /\ \A j \in S : Visit(j) = S
  BY DEF Visit
<1>2. TogetherBut(apart', S, new)
  BY <1>1 DEF TogetherBut, BookedFor
<1>3. AreJobs(S, new) /\ apart \subseteq apart'
  BY DEF AreJobs, BookedFor
<1>4. Overwrite(S, new)
  OBVIOUS
<1>. HIDE DEF S
<1>. QED BY <1>1, <1>2, <1>3, <1>4, RowsMove

LEMMA RowsExist ==
  ASSUME VisitInv, NEW j \in Existing
  PROVE  j \in Jobs /\ IsJob(row[j])
BY DEF VisitInv, VisitsOK, Existing, IsJob

LEMMA RequestBegins ==
  ASSUME VisitInv, NEW w \in Workers, NEW op, NEW S \in SUBSET Existing, NEW named,
         Lock(w, op, S, named),
         op \in {"book", "dispatch"} => named \in Existing /\ S = Visit(named)
  PROVE  VisitInv'
<1>. DEFINE who == IF op = "dispatch" THEN named ELSE Least(S)
            first == FirstLocked(op, S, named)
            copy == [j \in S |-> IF op \in Unlocked THEN row[j] ELSE NoRow]
            t == [at |-> "lock", op |-> op, jobs |-> S, holds |-> {}, next |-> first,
                  named |-> who, copy |-> copy]
<1>1. task' = [task EXCEPT ![w] = t] /\ UNCHANGED <<row, visit, apart>>
  BY DEF Lock, Starting
<1>2. op \in {"book", "dispatch"} => who \in Existing /\ S = Visit(who)
  <2>1. SUFFICES ASSUME op = "book" PROVE who \in Existing /\ S = Visit(who)
    OBVIOUS
  <2>2. named \in S
    BY <2>1 DEF Visit
  <2>3. who \in S
    BY <2>1, <2>2, LeastOfTodo
  <2>. QED BY <2>1, <2>3 DEF Visit
<1>3. op \in Unlocked => \A j \in S : IsJob(copy[j])
  BY RowsExist
<1>4. Keeps(t)
  <2>1. /\ t.at = "lock" /\ t.op = op /\ t.jobs = S /\ t.named = who /\ t.copy = copy
    OBVIOUS
  <2>. HIDE DEF t, who, copy
  <2>. QED BY <1>2, <1>3, <2>1 DEF Keeps
<1>. HIDE DEF t
<1>. QED BY <1>1, <1>4, RowsAlone

LEMMA WorkersRest ==
  ASSUME VisitInv, UNCHANGED <<row, visit, apart>>, NEW w \in Workers, Become(w, Idle) \/ task' = [task EXCEPT ![w] = Idle]
  PROVE  VisitInv'
<1>1. Keeps(Idle)
  BY DEF Keeps, Idle
<1>. QED BY <1>1, RowsAlone DEF Become

LEMMA SavesRest ==
  ASSUME VisitInv, NEW S \in SUBSET Existing, NEW new, Writes(S, new), visit' = visit, AreJobs(S, new),
         NEW w \in Workers, Become(w, Idle)
  PROVE  VisitInv'
<1>1. Keeps(Idle)
  BY DEF Keeps, Idle
<1>. QED BY <1>1, SavesMove DEF Become

(* A request that only goes on: nothing is written.                        *)
LEMMA GoesOnAlone ==
  ASSUME VisitInv, NEW w \in Workers,
         \/ \E breaks \in 1..2 : RequestRepair(w, breaks)
         \/ Select(w) \/ NewJob(w) \/ Acquire(w)
         \/ \E j \in Jobs : Read(w, j)
  PROVE  VisitInv'
<1>0. Keeps(task[w])
  BY DEF VisitInv
<1>1. ASSUME NEW breaks \in 1..2, RequestRepair(w, breaks) PROVE VisitInv'
  <2>. DEFINE t == [at |-> "insert", breaks |-> breaks, tech |-> LowestWorkload({})]
  <2>1. Keeps(t)
    BY DEF Keeps
  <2>2. task' = [task EXCEPT ![w] = t] /\ UNCHANGED <<row, visit, apart>>
    BY <1>1 DEF RequestRepair, Starting
  <2>. HIDE DEF t
  <2>. QED BY <2>1, <2>2, RowsAlone
<1>2. CASE Select(w)
  <2>. DEFINE tech == Selected({Least(task[w].todo)})
              t == [at |-> "apply", todo |-> task[w].todo, copy |-> task[w].copy, tech |-> tech]
  <2>1. task' = [task EXCEPT ![w] = t] /\ UNCHANGED <<row, visit, apart>> /\ task[w].at = "select"
    BY <1>2 DEF Select, Become
  <2>. HIDE DEF tech
  <2>2. Keeps(t)
    BY <1>0, <2>1 DEF Keeps
  <2>. HIDE DEF t
  <2>. QED BY <2>1, <2>2, RowsAlone
<1>3. CASE NewJob(w)
  <2>1. PICK c : /\ task' = [task EXCEPT ![w] = [at |-> "create", tech |-> c.tech, queued |-> c.queued]]
                 /\ UNCHANGED <<row, visit, apart>>
    BY <1>3 DEF NewJob, Starting
  <2>. DEFINE t == [at |-> "create", tech |-> c.tech, queued |-> c.queued]
  <2>2. Keeps(t)
    BY DEF Keeps
  <2>. HIDE DEF t
  <2>3. task' = [task EXCEPT ![w] = t]
    BY <2>1 DEF t
  <2>. QED BY <2>1, <2>2, <2>3, RowsAlone
<1>4. CASE Acquire(w)
  <2>. DEFINE held == [task[w] EXCEPT !.holds = task[w].holds \cup {task[w].next}]
  <2>1. PICK j : task' = [task EXCEPT ![w] = [held EXCEPT !.next = j]]
    BY <1>4 DEF Acquire, Become
  <2>. DEFINE t == [held EXCEPT !.next = j]
  <2>2. UNCHANGED <<row, visit, apart>> /\ task' = [task EXCEPT ![w] = t]
    BY <1>4, <2>1 DEF Acquire
  <2>3. /\ t.at = task[w].at /\ t.jobs = task[w].jobs /\ t.op = task[w].op
        /\ t.named = task[w].named /\ t.copy = task[w].copy
    OBVIOUS
  <2>4. task[w].at = "lock"
    BY <1>4 DEF Acquire
  <2>. HIDE DEF t
  <2>5. Keeps(t)
    BY <1>0, <2>3, <2>4 DEF Keeps
  <2>. QED BY <2>2, <2>5, RowsAlone
<1>5. ASSUME NEW j \in Jobs, Read(w, j) PROVE VisitInv'
  <2>. DEFINE t == [at |-> "save", job |-> j, copy |-> row[j]]
  <2>1. task' = [task EXCEPT ![w] = t] /\ UNCHANGED <<row, visit, apart>> /\ j \in Existing
    BY <1>5 DEF Read, Starting
  <2>2. Keeps(t)
    BY <2>1, RowsExist DEF Keeps
  <2>. HIDE DEF t
  <2>. QED BY <2>1, <2>2, RowsAlone
<1>. QED BY <1>1, <1>2, <1>3, <1>4, <1>5

(* The technician of a new job is saved, or the flag of the queue.         *)
LEMMA ApplyKeepsVisits ==
  ASSUME VisitInv, NEW w \in Workers, Apply(w)
  PROVE  VisitInv'
<1>. DEFINE todo == task[w].todo
            tech == task[w].tech
            old == task[w].copy
            j == Least(todo)
            assigned(r) == IF tech = NoTech THEN [r EXCEPT !.queued = TRUE] ELSE [r EXCEPT !.tech = tech]
            rest == todo \ {j}
            copy == [old EXCEPT ![j] = assigned(@)]
            t == IF rest # {} THEN [at |-> "select", todo |-> rest, copy |-> copy]
                 ELSE [at |-> "accept", todo |-> DOMAIN copy, copy |-> copy]
            new == [i \in {j} |-> assigned(row[j])]
<1>1. /\ task[w].at = "apply" /\ visit' = visit /\ apart' = apart
      /\ row' = [row EXCEPT ![j] = assigned(@)] /\ task' = [task EXCEPT ![w] = t]
  BY DEF Apply, Become
<1>2. /\ todo # {} /\ todo \subseteq DOMAIN old /\ DOMAIN old \subseteq Existing
      /\ \A i \in DOMAIN old : IsJob(old[i])
  BY <1>1 DEF VisitInv, Keeps
<1>3. j \in todo /\ j \in Existing
  <2>. HIDE DEF todo, old
  <2>. QED BY <1>2, LeastOfTodo
<1>4. Keeps(t)
  <2>1. DOMAIN copy = DOMAIN old /\ \A i \in DOMAIN copy : IsJob(copy[i])
    <3>. HIDE DEF old, todo
    <3>. QED BY <1>2 DEF IsJob, Columns
  <2>. HIDE DEF copy, old, j, todo
  <2>2. CASE rest # {}
    <3>1. t.at = "select" /\ t.todo = rest /\ t.copy = copy
      BY <2>2
    <3>. QED BY <1>2, <2>1, <2>2, <3>1 DEF Keeps
  <2>3. CASE rest = {}
    <3>1. t.at = "accept" /\ t.todo = DOMAIN copy /\ t.copy = copy
      BY <2>3
    <3>. QED BY <1>2, <2>1, <2>3, <3>1 DEF Keeps
  <2>. QED BY <2>2, <2>3
<1>5. IsJob(assigned(row[j]))
      /\ assigned(row[j]).start = row[j].start /\ assigned(row[j]).end = row[j].end
  BY <1>3, RowsExist DEF IsJob, Columns
<1>6. Overwrite({j}, new)
  <2>1. row = [i \in Jobs |-> row[i]]
    BY DEF VisitInv, VisitsOK
  <2>2. new[j] = assigned(row[j])
    OBVIOUS
  <2>3. row' = [i \in Jobs |-> IF i = j THEN assigned(row[j]) ELSE row[i]]
    BY <1>1, <2>1
  <2>. HIDE DEF new, assigned
  <2>. QED BY <2>2, <2>3 DEF Overwrite
<1>7. IsJob(new[j]) /\ new[j].start = row[j].start /\ new[j].end = row[j].end
  BY <1>3, <1>5, RowsExist
<1>. HIDE DEF new, j, t
<1>8. AreJobs({j}, new) /\ TogetherBut(apart', {j}, new)
  BY <1>7 DEF AreJobs, TogetherBut
<1>. QED BY <1>1, <1>3, <1>4, <1>6, <1>8, RowsMove

LEMMA AcceptKeepsVisits ==
  ASSUME VisitInv, NEW w \in Workers, Accept(w)
  PROVE  VisitInv'
<1>. DEFINE todo == task[w].todo
            old == task[w].copy
            j == Least(todo)
            rest == todo \ {j}
            new == [old EXCEPT ![j].status = "OPEN"]
            t == IF rest = {} THEN Idle ELSE [task[w] EXCEPT !.todo = rest]
<1>1. /\ task[w].at = "accept" /\ visit' = visit
      /\ Writes({j}, new) /\ task' = [task EXCEPT ![w] = t]
  BY DEF Accept, Become
<1>2. /\ todo # {} /\ todo \subseteq DOMAIN old /\ DOMAIN old \subseteq Existing
      /\ \A i \in DOMAIN old : IsJob(old[i])
  BY <1>1 DEF VisitInv, Keeps
<1>3. j \in todo /\ j \in Existing
  <2>. HIDE DEF todo, old
  <2>. QED BY <1>2, LeastOfTodo
<1>4. Keeps(t)
  <2>1. CASE rest = {}
    BY <2>1 DEF Keeps, Idle
  <2>2. CASE rest # {}
    <3>. DEFINE u == [task[w] EXCEPT !.todo = rest]
    <3>1. u.at = task[w].at /\ u.copy = task[w].copy
      OBVIOUS
    <3>2. "todo" \in DOMAIN task[w]
      BY <1>1 DEF VisitInv, Keeps
    <3>3. u.todo = rest /\ "todo" \in DOMAIN u
      BY <3>2
    <3>4. rest # {} /\ rest \subseteq DOMAIN old
      BY <1>2, <2>2
    <3>5. t = u
      BY <2>2
    <3>. HIDE DEF u, rest
    <3>6. Keeps(u)
      BY <1>1, <1>2, <3>1, <3>3, <3>4 DEF Keeps
    <3>. HIDE DEF t
    <3>. QED BY <3>5, <3>6
  <2>. QED BY <2>1, <2>2
<1>5. IsJob(new[j])
  <2>. HIDE DEF todo, j
  <2>1. new[j] = [old[j] EXCEPT !.status = "OPEN"] /\ IsJob(old[j])
    BY <1>2, <1>3
  <2>. QED BY <2>1, JobGoesOn DEF Status
<1>. HIDE DEF new, j, t
<1>6. AreJobs({j}, new)
  BY <1>5 DEF AreJobs
<1>. QED BY <1>1, <1>3, <1>4, <1>6, SavesMove

LEMMA EditedJob ==
  ASSUME NEW r, IsJob(r), NEW new \in Edited(r)
  PROVE  IsJob(new)
<1>1. NextStatus(r.status) \subseteq Status /\ r.status \in Status /\ "COMPLETED" \in Status
  BY DEF IsJob, Status, NextStatus
<1>2. \/ \E s \in NextStatus(r.status) : new = [r EXCEPT !.status = s]
      \/ \E t \in Techs, s \in Starts \cup {NoTime}, q \in FormStatuses(r) : new = FormSaved(r, t, s, q)
      \/ \E t \in Techs : new = [Settled(r, t) EXCEPT !.status = "OPEN"]
  BY DEF Edited
<1>3. ASSUME NEW s \in Status, new = [r EXCEPT !.status = s] PROVE IsJob(new)
  BY <1>3, JobGoesOn
<1>4. ASSUME NEW t, NEW s, NEW q \in Status, new = FormSaved(r, t, s, q)
      PROVE  IsJob(new)
  <2>1. IsJob(Settled(r, t))
    BY SettledJob
  <2>. QED BY <1>4, <2>1 DEF FormSaved, IsJob, Columns
<1>5. ASSUME NEW t \in Techs, new = [Settled(r, t) EXCEPT !.status = "OPEN"] PROVE IsJob(new)
  BY <1>5, SettledJob, JobGoesOn DEF Status
<1>6. FormStatuses(r) \subseteq Status
  BY <1>1 DEF FormStatuses
<1>. QED BY <1>1, <1>2, <1>3, <1>4, <1>5, <1>6

LEMMA SaveKeepsVisits ==
  ASSUME VisitInv, NEW w \in Workers, Save(w)
  PROVE  VisitInv'
<1>. DEFINE j == task[w].job
            copy == task[w].copy
<1>1. task[w].at = "save" /\ visit' = visit /\ Become(w, Idle)
  BY DEF Save
<1>2. j \in Existing /\ IsJob(copy)
  BY <1>1 DEF VisitInv, Keeps
<1>3. PICK r \in Edited(copy) : Writes({j}, [i \in {j} |-> r])
  BY DEF Save
<1>. DEFINE new == [i \in {j} |-> r]
<1>. HIDE DEF copy, j
<1>4. IsJob(r)
  BY <1>2, <1>3, EditedJob
<1>5. AreJobs({j}, new)
  BY <1>4 DEF AreJobs
<1>6. Writes({j}, new)
  BY <1>3
<1>. HIDE DEF new
<1>. QED BY <1>1, <1>2, <1>5, <1>6, SavesRest

LEMMA SaveBulkKeepsVisits ==
  ASSUME VisitInv, NEW w \in Workers, SaveBulk(w)
  PROVE  VisitInv'
<1>. DEFINE S == task[w].jobs
            copy == task[w].copy
<1>1. /\ task[w].at = "lock" /\ task[w].op \in Unlocked /\ visit' = visit /\ Become(w, Idle)
  BY DEF SaveBulk, Locked, Unlocked
<1>2. S \in SUBSET Existing /\ \A j \in S : IsJob(copy[j])
  BY <1>1 DEF VisitInv, Keeps
<1>3. \E new : Writes(S, new) /\ AreJobs(S, new)
  <2>1. ASSUME NEW t \in Techs, Writes(S, [j \in S |-> Settled(copy[j], t)])
        PROVE  \E new : Writes(S, new) /\ AreJobs(S, new)
    <3>. DEFINE new == [j \in S |-> Settled(copy[j], t)]
    <3>1. \A j \in S : IsJob(copy[j])
      BY <1>2
    <3>. HIDE DEF S, copy
    <3>2. AreJobs(S, new)
      BY <3>1, SettledJob DEF AreJobs
    <3>. QED BY <2>1, <3>2
  <2>2. ASSUME NEW base, NEW s \in {"OPEN", "DENIED"}, Writes(S, [j \in S |-> [base[j] EXCEPT !.status = s]]),
               \A j \in S : IsJob(base[j])
        PROVE  \E new : Writes(S, new) /\ AreJobs(S, new)
    <3>. DEFINE new == [j \in S |-> [base[j] EXCEPT !.status = s]]
    <3>1. s \in Status
      BY DEF Status
    <3>. HIDE DEF S
    <3>2. AreJobs(S, new)
      BY <2>2, <3>1, JobGoesOn DEF AreJobs
    <3>. QED BY <2>2, <3>2
  <2>3. ASSUME NEW t \in Techs \cup {NoTech},
               Writes(S, [j \in S |-> [(IF copy[j].queued /\ t # NoTech THEN Settled(copy[j], t)
                                                                      ELSE copy[j])
                                          EXCEPT !.status = "OPEN"]])
        PROVE  \E new : Writes(S, new) /\ AreJobs(S, new)
    <3>. DEFINE base == [j \in S |-> IF copy[j].queued /\ t # NoTech THEN Settled(copy[j], t)
                                                                     ELSE copy[j]]
    <3>0. \A j \in S : IsJob(copy[j])
      BY <1>2
    <3>1. \A j \in S : IsJob(base[j])
      <4>. HIDE DEF S, copy
      <4>. QED BY <3>0, SettledJob
    <3>2. [j \in S |-> [base[j] EXCEPT !.status = "OPEN"]]
          = [j \in S |-> [(IF copy[j].queued /\ t # NoTech THEN Settled(copy[j], t) ELSE copy[j])
                            EXCEPT !.status = "OPEN"]]
      OBVIOUS
    <3>. HIDE DEF base
    <3>. QED BY <2>2, <2>3, <3>1, <3>2
  <2>. HIDE DEF S, copy
  <2>4. ASSUME Writes(S, [j \in S |-> [copy[j] EXCEPT !.status = "OPEN"]])
               \/ Writes(S, [j \in S |-> [copy[j] EXCEPT !.status = "DENIED"]])
        PROVE  \E new : Writes(S, new) /\ AreJobs(S, new)
    BY <1>2, <2>2, <2>4
  <2>. USE DEF S, copy
  <2>. QED BY <2>1, <2>3, <2>4 DEF SaveBulk
<1>. HIDE DEF S
<1>. QED BY <1>1, <1>2, <1>3, SavesRest

LEMMA ConfirmKeepsVisits ==
  ASSUME VisitInv, NEW w \in Workers, Confirm(w)
  PROVE  VisitInv'
<1>. DEFINE S == task[w].jobs
            named == task[w].named
<1>1. /\ task[w].at = "lock" /\ task[w].op = "book" /\ UNCHANGED <<visit, apart>> /\ Become(w, Idle)
  BY DEF Confirm, Locked
<1>2. named \in Existing /\ S = Visit(named)
  BY <1>1 DEF VisitInv, Keeps
<1>3a. PICK s \in Starts : \E e \in WindowEnds(s) :
            Overwrite(S, InWindow([j \in S |-> row[j]], named, s, e))
  BY DEF Confirm
<1>3. PICK e : Overwrite(S, InWindow([j \in S |-> row[j]], named, s, e))
  BY <1>3a
<1>. DEFINE new == InWindow([j \in S |-> row[j]], named, s, e)
<1>4. \A j \in S : new[j] = [row[j] EXCEPT !.start = s, !.end = e]
  BY DEF InWindow
<1>5. BookedFor(S, new, s, e)
  <2>1. SUFFICES ASSUME NEW j \in S PROVE IsJob(new[j]) /\ new[j].start = s /\ new[j].end = e
    BY DEF BookedFor
  <2>2. IsJob(row[j])
    BY <1>2, RowsExist DEF Visit
  <2>3. new[j] = [row[j] EXCEPT !.start = s, !.end = e]
    BY <1>4
  <2>4. IsJob([row[j] EXCEPT !.start = s, !.end = e])
        /\ [row[j] EXCEPT !.start = s, !.end = e].start = s
        /\ [row[j] EXCEPT !.start = s, !.end = e].end = e
    BY <2>2 DEF IsJob, Columns
  <2>. HIDE DEF new
  <2>. QED BY <2>3, <2>4
<1>. DEFINE t == Idle
<1>6. Keeps(t) /\ task' = [task EXCEPT ![w] = t]
  BY <1>1 DEF Keeps, Idle, Become
<1>. HIDE DEF new
<1>7. Overwrite(Visit(named), new) /\ BookedFor(Visit(named), new, s, e)
  BY <1>2, <1>3, <1>5 DEF new
<1>. HIDE DEF named, t
<1>8. visit' = visit /\ apart' = apart
  BY <1>1
<1>. QED BY <1>2, <1>6, <1>7, <1>8, BookingMoves

LEMMA DispatchKeepsVisits ==
  ASSUME VisitInv, NEW w \in Workers, ApplyDispatch(w)
  PROVE  VisitInv'
<1>. DEFINE S == task[w].jobs
            named == task[w].named
            moved(tech) == tech # NoTech /\ tech # row[named].tech
            taken(tech) == tech = row[named].tech /\ row[named].queued
            given(tech) == [j \in S |-> IF moved(tech) THEN Settled(row[j], tech)
                                        ELSE [row[j] EXCEPT !.queued = @ /\ ~taken(tech)]]
            t == Idle
<1>1. /\ task[w].at = "lock" /\ task[w].op = "dispatch" /\ UNCHANGED <<visit, apart>> /\ Become(w, Idle)
  BY DEF ApplyDispatch, Locked
<1>2. named \in Existing /\ S = Visit(named)
  BY <1>1 DEF VisitInv, Keeps
<1>3. S \in SUBSET Existing
  BY <1>2 DEF Visit
<1>4. Keeps(t) /\ task' = [task EXCEPT ![w] = t] /\ visit' = visit /\ apart' = apart
  BY <1>1 DEF Keeps, Idle, Become
<1>5. \E tech : \/ Overwrite(S, given(tech))
                \/ \E s \in Starts : \E e \in WindowEnds(s) :
                      Overwrite(S, InWindow(given(tech), named, s, e))
  BY DEF ApplyDispatch
<1>6. PICK tech : \/ Overwrite(S, given(tech))
                  \/ \E s \in Starts : \E e \in WindowEnds(s) :
                        Overwrite(S, InWindow(given(tech), named, s, e))
  BY <1>5
<1>. DEFINE new == given(tech)
<1>7. ASSUME NEW j \in S
      PROVE  IsJob(new[j]) /\ new[j].start = row[j].start /\ new[j].end = row[j].end
  <2>1. IsJob(row[j])
    BY <1>3, RowsExist
  <2>2. CASE moved(tech)
    <3>1. new[j] = Settled(row[j], tech)
      BY <2>2
    <3>. HIDE DEF new
    <3>. QED BY <2>1, <3>1, SettledJob
  <2>3. CASE ~moved(tech)
    <3>. DEFINE q == row[j].queued /\ ~taken(tech)
    <3>1. new[j] = [row[j] EXCEPT !.queued = q]
      BY <2>3
    <3>. HIDE DEF new, q
    <3>. QED BY <2>1, <3>1 DEF IsJob, Columns
  <2>. QED BY <2>2, <2>3
<1>8. CASE Overwrite(S, new)
  <2>. HIDE DEF new, S, t
  <2>1. AreJobs(S, new) /\ TogetherBut(apart', S, new) /\ apart \subseteq apart'
    BY <1>4, <1>7 DEF AreJobs, TogetherBut
  <2>. QED BY <1>3, <1>4, <1>8, <2>1, RowsMove
<1>9. CASE \E s \in Starts : \E e \in WindowEnds(s) : Overwrite(S, InWindow(new, named, s, e))
  <2>1. PICK s, e : Overwrite(S, InWindow(new, named, s, e))
    BY <1>9
  <2>. DEFINE booked == InWindow(new, named, s, e)
  <2>2. DOMAIN new = S
    OBVIOUS
  <2>3. BookedFor(S, booked, s, e)
    <3>1. SUFFICES ASSUME NEW j \in S
                   PROVE  IsJob(booked[j]) /\ booked[j].start = s /\ booked[j].end = e
      BY DEF BookedFor
    <3>2. IsJob(new[j])
      BY <1>7
    <3>. HIDE DEF new
    <3>3. booked[j] = [new[j] EXCEPT !.start = s, !.end = e]
      BY <2>2 DEF InWindow
    <3>4. IsJob([new[j] EXCEPT !.start = s, !.end = e])
          /\ [new[j] EXCEPT !.start = s, !.end = e].start = s
          /\ [new[j] EXCEPT !.start = s, !.end = e].end = e
      BY <3>2 DEF IsJob, Columns
    <3>. HIDE DEF booked
    <3>. QED BY <3>3, <3>4
  <2>. HIDE DEF new
  <2>4. Overwrite(S, booked)
    BY <2>1
  <2>. HIDE DEF booked
  <2>5. Overwrite(Visit(named), booked) /\ BookedFor(Visit(named), booked, s, e)
    BY <1>2, <2>3, <2>4
  <2>. HIDE DEF named, t
  <2>. QED BY <1>2, <1>4, <2>5, BookingMoves
<1>. QED BY <1>6, <1>8, <1>9

LEMMA SwapKeepsVisits ==
  ASSUME VisitInv, NEW w \in Workers, TradePlaces(w)
  PROVE  VisitInv'
<1>1. PICK j \in task[w].jobs, k \in task[w].jobs :
        /\ j # k /\ Visit(j) = {j} /\ Visit(k) = {k}
        /\ row' = [row EXCEPT ![j] = MovedTo(@, row[k].start), ![k] = MovedTo(@, row[j].start)]
  BY DEF TradePlaces, Swappable
<1>. DEFINE S == {j, k}
            new == [i \in S |-> IF i = j THEN MovedTo(row[j], row[k].start)
                                ELSE MovedTo(row[k], row[j].start)]
            t == Idle
<1>2. task[w].at = "lock" /\ UNCHANGED <<visit, apart>> /\ Become(w, Idle)
  BY DEF TradePlaces, Locked
<1>3. S \in SUBSET Existing
  BY <1>2 DEF VisitInv, Keeps
<1>4. Overwrite(S, new)
  <2>1. row = [i \in Jobs |-> row[i]]
    BY DEF VisitInv, VisitsOK
  <2>2. row' = [i \in Jobs |-> IF i = j THEN MovedTo(row[j], row[k].start)
                               ELSE IF i = k THEN MovedTo(row[k], row[j].start) ELSE row[i]]
    BY <1>1, <2>1
  <2>. QED BY <2>2 DEF Overwrite
<1>5. AreJobs(S, new)
  <2>1. ASSUME NEW r, NEW s, IsJob(r) PROVE IsJob(MovedTo(r, s))
    BY <2>1 DEF MovedTo, IsJob, Columns
  <2>2. IsJob(row[j]) /\ IsJob(row[k])
    BY <1>3, RowsExist
  <2>. QED BY <2>1, <2>2 DEF AreJobs
<1>. HIDE DEF new
<1>6. TogetherBut(apart', S, new)
  BY <1>1 DEF TogetherBut
<1>7. Keeps(t) /\ task' = [task EXCEPT ![w] = t] /\ visit' = visit /\ apart \subseteq apart'
  BY <1>2 DEF Keeps, Idle, Become
<1>. HIDE DEF S, t
<1>. QED BY <1>3, <1>4, <1>5, <1>6, <1>7, RowsMove

(* A visit comes into being with the next numbers.                         *)
NextNumbers(S) == S \cap Existing = {} /\ \E m \in Nat : Existing \cup S = 1..m

Inserts(S, first, new) ==
  /\ row' = [j \in Jobs |-> IF j \in S THEN new[j] ELSE row[j]]
  /\ visit' = [j \in Jobs |-> IF j \in S THEN first ELSE visit[j]]
  /\ apart' = apart

SelectsNext(t, S, new) == t = Idle \/ t = [at |-> "select", todo |-> S, copy |-> new]

LEMMA VisitComes ==
  ASSUME VisitInv, NEW S \in SUBSET Jobs, NextNumbers(S),
         NEW first \in S, NEW new, DOMAIN new = S, NEW s, NEW e, BookedFor(S, new, s, e),
         Inserts(S, first, new),
         NEW w \in Workers, NEW t, task' = [task EXCEPT ![w] = t], SelectsNext(t, S, new)
  PROVE  VisitInv'
<1>0. PICK m \in Nat : Existing \cup S = 1..m
  BY DEF NextNumbers
<1>1. /\ S \cap Existing = {}
      /\ \A j \in Jobs : /\ row'[j] = (IF j \in S THEN new[j] ELSE row[j])
                         /\ visit'[j] = (IF j \in S THEN first ELSE visit[j])
  BY DEF Inserts, NextNumbers
<1>2. Existing' = Existing \cup S
  <2>1. \A j \in S : row'[j].status # "none"
    BY <1>1 DEF BookedFor, IsJob, Status
  <2>. QED BY <1>1, <2>1 DEF Existing
<1>3. \A j \in Existing : Visit(j)' = Visit(j)
  <2>1. \A j \in Existing : visit[j] \in Existing /\ visit'[j] = visit[j]
    BY <1>1, ExistingAreJobs DEF VisitInv, VisitsOK
  <2>. QED BY <1>1, <1>2, <2>1 DEF Visit
<1>4. VisitsOK'
  <2>1. \A j \in Jobs : DOMAIN row'[j] = Columns /\ row'[j].status \in Status \cup {"none"}
    BY <1>1 DEF VisitInv, VisitsOK, BookedFor, IsJob
  <2>2. visit' \in [Jobs -> Jobs]
    BY DEF VisitInv, VisitsOK, Inserts
  <2>3. \A j \in Existing' : visit'[j] \in Existing'
    BY <1>1, <1>2, ExistingAreJobs DEF VisitInv, VisitsOK
  <2>4. \A j \in Jobs \ Existing' : visit'[j] = j
    BY <1>1, <1>2 DEF VisitInv, VisitsOK
  <2>5. row' = [j \in Jobs |-> row'[j]]
    BY DEF Inserts
  <2>. QED BY <1>0, <1>2, <2>1, <2>2, <2>3, <2>4, <2>5 DEF VisitsOK
<1>5. VisitTogether'
  <2>1. SUFFICES ASSUME NEW j \in Existing', visit'[j] \notin apart', NEW k \in Visit(j)'
                 PROVE  row'[k].start = row'[j].start /\ row'[k].end = row'[j].end
    BY DEF VisitTogether
  <2>2. CASE j \in Existing
    <3>1. k \in Visit(j) /\ k \in Existing /\ j \in Jobs /\ k \in Jobs /\ visit'[j] = visit[j]
      BY <1>1, <1>3, <2>1, <2>2, ExistingAreJobs DEF Visit
    <3>2. row[k].start = row[j].start /\ row[k].end = row[j].end
      BY <2>1, <2>2, <3>1 DEF VisitInv, VisitTogether, Inserts
    <3>. QED BY <1>1, <2>2, <3>1, <3>2
  <2>3. CASE j \in S
    <3>1. k \in Existing' /\ visit'[k] = first
      BY <1>1, <2>1, <2>3 DEF Visit
    <3>2. k \notin Existing
      BY <1>1, <3>1, ExistingAreJobs DEF VisitInv, VisitsOK
    <3>3. k \in S
      BY <1>2, <3>1, <3>2
    <3>. QED BY <1>1, <2>3, <3>3 DEF BookedFor
  <2>. QED BY <1>2, <2>1, <2>2, <2>3
<1>6. Keeps(t)'
  <2>1. CASE t = Idle
    BY <2>1 DEF Keeps, Idle
  <2>2. CASE t = [at |-> "select", todo |-> S, copy |-> new]
    <3>1. t.at = "select" /\ t.todo = S /\ t.copy = new /\ "todo" \in DOMAIN t
      BY <2>2
    <3>2. \A j \in S : IsJob(new[j])
      BY DEF BookedFor
    <3>. QED BY <1>2, <3>1, <3>2 DEF Keeps
  <2>. QED BY <2>1, <2>2 DEF SelectsNext
<1>. QED BY <1>2, <1>3, <1>4, <1>5, <1>6, KeptByAll DEF VisitInv

LEMMA NumbersGoOn ==
  ASSUME VisitInv, NEW breaks \in 1..2
  PROVE  LET first == Cardinality(Existing) + 1
             mine == first..(first + breaks - 1) IN
         /\ first \in mine /\ mine \cap Existing = {}
         /\ \E m \in Nat : Existing \cup mine = 1..m
<1>1. PICK n \in Nat : Existing = 1..n
  BY DEF VisitInv, VisitsOK
<1>2. Cardinality(Existing) = n
  BY <1>1, FS_Interval
<1>3. (n + 1) \in (n + 1)..(n + breaks) /\ ((n + 1)..(n + breaks)) \cap (1..n) = {}
  OBVIOUS
<1>4. (1..n) \cup ((n + 1)..(n + breaks)) = 1..(n + breaks) /\ n + breaks \in Nat
  OBVIOUS
<1>5. n + 1 + breaks - 1 = n + breaks
  OBVIOUS
<1>. QED BY <1>1, <1>2, <1>3, <1>4, <1>5

LEMMA InsertKeepsVisits ==
  ASSUME VisitInv, NEW w \in Workers, Insert(w)
  PROVE  VisitInv'
<1>. DEFINE first == Cardinality(Existing) + 1
            S == first..(first + task[w].breaks - 1)
            job == [NoRow EXCEPT !.status = "REQUESTED", !.tech = task[w].tech]
            new == [j \in S |-> job]
            t == [at |-> "select", todo |-> S, copy |-> new]
<1>1. /\ task[w].at = "insert" /\ S \subseteq Jobs /\ apart' = apart
      /\ row' = [j \in Jobs |-> IF j \in S THEN job ELSE row[j]]
      /\ visit' = [j \in Jobs |-> IF j \in S THEN first ELSE visit[j]]
      /\ task' = [task EXCEPT ![w] = t]
  BY DEF Insert, Become
<1>2. task[w].breaks \in 1..2
  BY <1>1 DEF VisitInv, Keeps
<1>3. first \in S /\ S \cap Existing = {} /\ \E m \in Nat : Existing \cup S = 1..m
  BY <1>2, NumbersGoOn
<1>4. IsJob(job) /\ job.start = NoTime /\ job.end = NoTime
  BY DEF NoRow, IsJob, Columns, Status
<1>. HIDE DEF S, first, job
<1>5. BookedFor(S, new, NoTime, NoTime) /\ DOMAIN new = S
  BY <1>4 DEF BookedFor
<1>6. Inserts(S, first, new) /\ NextNumbers(S)
  BY <1>1, <1>3 DEF Inserts, NextNumbers
<1>. HIDE DEF new
<1>7. SelectsNext(t, S, new)
  BY DEF SelectsNext
<1>. HIDE DEF t
<1>. QED BY <1>1, <1>3, <1>5, <1>6, <1>7, VisitComes

LEMMA InsertJobKeepsVisits ==
  ASSUME VisitInv, NEW w \in Workers, InsertJob(w)
  PROVE  VisitInv'
<1>. DEFINE first == Cardinality(Existing) + 1
            S == {first}
            t == Idle
<1>1. first \in Jobs /\ visit' = visit /\ apart' = apart /\ task' = [task EXCEPT ![w] = t]
  BY DEF InsertJob, Become
<1>2. PICK s, e : row' = [row EXCEPT ![first] =
                            [status |-> "OPEN", tech |-> task[w].tech, queued |-> task[w].queued,
                             start |-> s, end |-> e]]
  BY DEF InsertJob
<1>. DEFINE job == [status |-> "OPEN", tech |-> task[w].tech, queued |-> task[w].queued,
                    start |-> s, end |-> e]
            new == [j \in S |-> job]
<1>3. S \cap Existing = {} /\ \E m \in Nat : Existing \cup S = 1..m
  <2>1. PICK n \in Nat : Existing = 1..n
    BY DEF VisitInv, VisitsOK
  <2>2. Cardinality(Existing) = n
    BY <2>1, FS_Interval
  <2>3. {n + 1} \cap (1..n) = {} /\ (1..n) \cup {n + 1} = 1..(n + 1) /\ n + 1 \in Nat
    OBVIOUS
  <2>. QED BY <2>1, <2>2, <2>3
<1>4. IsJob(job) /\ job.start = s /\ job.end = e
  BY DEF IsJob, Columns, Status
<1>. HIDE DEF first
<1>5. visit' = [j \in Jobs |-> IF j \in S THEN first ELSE visit[j]]
  <2>1. visit[first] = first /\ visit \in [Jobs -> Jobs]
    BY <1>1, <1>3 DEF VisitInv, VisitsOK
  <2>. QED BY <1>1, <2>1
<1>6. row' = [j \in Jobs |-> IF j \in S THEN new[j] ELSE row[j]]
  <2>1. row = [j \in Jobs |-> row[j]]
    BY DEF VisitInv, VisitsOK
  <2>2. row' = [row EXCEPT ![first] = job]
    BY <1>2
  <2>3. new[first] = job
    OBVIOUS
  <2>. HIDE DEF job, new
  <2>. QED BY <2>1, <2>2, <2>3
<1>. HIDE DEF job
<1>7. BookedFor(S, new, s, e) /\ DOMAIN new = S
  BY <1>4 DEF BookedFor
<1>8. first \in S /\ S \subseteq Jobs /\ SelectsNext(t, S, new) /\ NextNumbers(S)
  BY <1>1, <1>3 DEF SelectsNext, NextNumbers
<1>9. Inserts(S, first, new)
  BY <1>1, <1>5, <1>6 DEF Inserts
<1>. HIDE DEF S, t, new
<1>. QED BY <1>1, <1>7, <1>8, <1>9, VisitComes

LEMMA VisitStep == VisitInv /\ [Next]_vars => VisitInv'
<1>. SUFFICES ASSUME VisitInv, [Next]_vars PROVE VisitInv'
  OBVIOUS
<1>1. CASE UNCHANGED vars
  BY <1>1, ZenonT(30) DEF vars, VisitInv, VisitsOK, Keeps, VisitTogether, Visit, Existing
<1>2. CASE Next
  <2>0. PICK w \in Workers :
          \/ \E breaks \in 1..2 : RequestRepair(w, breaks)
          \/ Insert(w) \/ Select(w) \/ Apply(w) \/ Accept(w)
          \/ NewJob(w) \/ InsertJob(w)
          \/ \E j \in Jobs : Read(w, j) \/ Book(w, j) \/ Dispatch(w, j)
          \/ \E j, k \in Jobs : Swap(w, j, k)
          \/ \E S \in SUBSET Jobs : Bulk(w, S)
          \/ Save(w) \/ Acquire(w)
          \/ Confirm(w) \/ ApplyDispatch(w) \/ TradePlaces(w) \/ SaveBulk(w)
          \/ Refuse(w) \/ Deadlocked(w) \/ Crash(w)
    BY <1>2 DEF Next
  <2>1. CASE \/ \E breaks \in 1..2 : RequestRepair(w, breaks)
             \/ Select(w) \/ NewJob(w) \/ Acquire(w)
             \/ \E j \in Jobs : Read(w, j)
    BY <2>1, GoesOnAlone
  <2>2. CASE \E j \in Jobs : Book(w, j) \/ Dispatch(w, j)
    <3>1. PICK j \in Existing, op \in {"book", "dispatch"} : Lock(w, op, Visit(j), j)
      BY <2>2, ExistingAreJobs DEF Book, Dispatch
    <3>2. Visit(j) \in SUBSET Existing
      BY DEF Visit
    <3>. QED BY <3>1, <3>2, RequestBegins
  <2>3. CASE \E j, k \in Jobs : Swap(w, j, k)
    <3>1. PICK j \in Jobs, k \in Jobs : {j, k} \subseteq Existing /\ Lock(w, "swap", {j, k}, j)
      BY <2>3 DEF Swap
    <3>. QED BY <3>1, RequestBegins
  <2>4. CASE \E S \in SUBSET Jobs : Bulk(w, S)
    <3>1. PICK S \in SUBSET Jobs : Bulk(w, S)
      BY <2>4
    <3>2. PICK j \in S : \E op \in Unlocked : S \subseteq Existing /\ Lock(w, op, S, j)
      BY <3>1 DEF Bulk
    <3>. QED BY <3>2, RequestBegins DEF Unlocked
  <2>5. CASE Insert(w)
    BY <2>5, InsertKeepsVisits
  <2>6. CASE InsertJob(w)
    BY <2>6, InsertJobKeepsVisits
  <2>7. CASE Apply(w)
    BY <2>7, ApplyKeepsVisits
  <2>8. CASE Accept(w)
    BY <2>8, AcceptKeepsVisits
  <2>9. CASE Save(w)
    BY <2>9, SaveKeepsVisits
  <2>10. CASE SaveBulk(w)
    BY <2>10, SaveBulkKeepsVisits
  <2>11. CASE Confirm(w)
    BY <2>11, ConfirmKeepsVisits
  <2>12. CASE ApplyDispatch(w)
    BY <2>12, DispatchKeepsVisits
  <2>13. CASE TradePlaces(w)
    BY <2>13, SwapKeepsVisits
  <2>14. CASE Refuse(w) \/ Deadlocked(w) \/ Crash(w)
    BY <2>14, WorkersRest DEF Refuse, Deadlocked, Crash
  <2>. QED BY <2>0, <2>1, <2>2, <2>3, <2>4, <2>5, <2>6, <2>7, <2>8, <2>9, <2>10, <2>11, <2>12,
              <2>13, <2>14
<1>. QED BY <1>1, <1>2

(* The breaks of a visit stay at one time, however many bookings,          *)
(* dispatches, swaps and full-row saves overlap, unless such a save moved  *)
(* one of them by itself (apps/technician_portal/services/scheduling.py).  *)
THEOREM VisitsStayTogether == Spec => []VisitTogether
<1>1. VisitInv => VisitTogether
  BY DEF VisitInv
<1>. QED BY <1>1, VisitInit, VisitStep, PTL DEF Spec

-----------------------------------------------------------------------------
(* The rotation                                                            *)

Comes(t) == t.at \in {"insert", "select", "apply", "accept", "create"}
Doing(t) == IF t.at \in {"select", "apply"} THEN t.todo ELSE {}

(* The jobs that the strategy is through with.                             *)
Given == Existing \ InProgress

Newest(j) == \A k \in Existing : k <= j

(* What the only request that brings a job holds of the rotation.          *)
Turn(t) ==
  /\ t.at = "insert" => t.breaks = 1
  /\ t.at \in {"select", "apply"} => \E j \in Existing : t.todo = {j} /\ Newest(j)
  /\ t.at = "apply" => t.tech = TurnAfter(Existing \ t.todo)
  /\ t.at = "create" => t.tech = TurnAfter(Existing)

(* No copy of a row says that the job is queued.                           *)
Unqueued(t) ==
  /\ t.at = "create" => ~t.queued
  /\ t.at \in {"select", "apply", "accept"} => \A j \in DOMAIN t.copy : ~t.copy[j].queued
  /\ t.at = "save" => ~t.copy.queued
  /\ t.at = "lock" /\ t.op \in Unlocked => \A j \in t.jobs : ~t.copy[j].queued

(* The technicians up to the last that was given a job are one ahead.      *)
LastOf(S) == IF S = {} THEN NumTechs ELSE row[Greatest(S)].tech
Ahead(t, last) == IF t <= last THEN 1 ELSE 0
EvenTo(last) == \A t, u \in Techs : JobsOf(t) - Ahead(t, last) = JobsOf(u) - Ahead(u, last)

OneComes == \A v, w \in Workers : Comes(task[v]) /\ Comes(task[w]) => v = w

Fair ==
  /\ OneComes
  /\ \A w \in Workers : Turn(task[w]) /\ Unqueued(task[w])
  /\ \A j \in Existing : ~row[j].queued
  /\ \A j \in Given : row[j].tech \in Techs
  /\ EvenTo(LastOf(Given))

RoundInv == VisitInv /\ (shop.strategy = "round_robin" /\ ~uneven => Fair)

LEMMA TurnsInOrder ==
  ASSUME NEW last \in Techs
  PROVE  /\ (last % NumTechs) + 1 \in Techs
         /\ (last % NumTechs) + 1 = IF last = NumTechs THEN 1 ELSE last + 1
<1>1. NumTechs \in Nat \ {0} /\ last \in 1..NumTechs
  BY ScheduleAssumption DEF Techs
<1>2. CASE last = NumTechs
  <2>1. NumTechs % NumTechs = 0
    BY <1>1
  <2>. QED BY <1>1, <1>2, <2>1 DEF Techs
<1>3. CASE last < NumTechs
  <2>1. last % NumTechs = last
    BY <1>1, <1>3
  <2>. QED BY <1>1, <1>3, <2>1 DEF Techs
<1>. QED BY <1>1, <1>2, <1>3

LEMMA GreatestIs ==
  ASSUME NEW S \in SUBSET Jobs, NEW j \in S, \A k \in S : k <= j
  PROVE  Greatest(S) = j
<1>1. Greatest(S) \in S /\ \A k \in S : k <= Greatest(S)
  BY DEF Greatest
<1>2. j \in Nat /\ Greatest(S) \in Nat
  BY <1>1, JobsAreNaturals
<1>3. Greatest(S) <= j /\ j <= Greatest(S)
  BY <1>1
<1>. HIDE DEF Greatest
<1>. QED BY <1>2, <1>3

LEMMA GreatestIn ==
  ASSUME NEW S \in SUBSET Jobs, S # {}
  PROVE  Greatest(S) \in S
BY GreatestExists DEF Greatest

(* The next turn is that of the technician after the last.                 *)
LEMMA TurnFollows ==
  ASSUME NEW S \in SUBSET Jobs, \A j \in S : row[j].tech \in Techs
  PROVE  LastOf(S) \in Techs /\ TurnAfter(S) = (LastOf(S) % NumTechs) + 1
<1>1. NumTechs \in Techs
  BY ScheduleAssumption DEF Techs
<1>2. CASE S = {}
  <2>1. (NumTechs % NumTechs) + 1 = 1
    BY <1>1, TurnsInOrder
  <2>. QED BY <1>1, <1>2, <2>1 DEF LastOf, TurnAfter
<1>3. CASE S # {}
  BY <1>3, GreatestIn DEF LastOf, TurnAfter
<1>. QED BY <1>2, <1>3

(* What a new job adds to the shares.                                      *)
LEMMA OneMore ==
  ASSUME NEW last \in Techs, NEW share, NEW more,
         \A t \in Techs : share[t] \in Nat,
         \A t, u \in Techs : share[t] - Ahead(t, last) = share[u] - Ahead(u, last),
         NEW next \in Techs, next = IF last = NumTechs THEN 1 ELSE last + 1,
         \A t \in Techs : more[t] = IF t = next THEN share[t] + 1 ELSE share[t]
  PROVE  \A t, u \in Techs : more[t] - Ahead(t, next) = more[u] - Ahead(u, next)
<1>1. SUFFICES ASSUME NEW t \in Techs, NEW u \in Techs
               PROVE  more[t] - Ahead(t, next) = more[u] - Ahead(u, next)
  OBVIOUS
<1>2. Techs = 1..NumTechs /\ NumTechs \in Nat \ {0}
  BY ScheduleAssumption DEF Techs
<1>3. share[t] \in Nat /\ share[u] \in Nat /\ share[t] - Ahead(t, last) = share[u] - Ahead(u, last)
  OBVIOUS
<1>4. more[t] = (IF t = next THEN share[t] + 1 ELSE share[t])
      /\ more[u] = (IF u = next THEN share[u] + 1 ELSE share[u])
  OBVIOUS
<1>5. CASE last = NumTechs
  BY <1>2, <1>3, <1>4, <1>5 DEF Ahead
<1>6. CASE last # NumTechs
  BY <1>2, <1>3, <1>4, <1>6 DEF Ahead
<1>. QED BY <1>5, <1>6

LEMMA JobsAreFinite == IsFiniteSet(Jobs)
BY ScheduleAssumption, FS_Interval DEF Jobs

LEMMA GivenAreJobs == Given \subseteq Jobs /\ Given \subseteq Existing
BY DEF Given, Existing

LEMMA SharesAreNaturals == \A t \in Techs : JobsOf(t) \in Nat
<1>1. SUFFICES ASSUME NEW t \in Techs PROVE JobsOf(t) \in Nat
  OBVIOUS
<1>2. {j \in Existing \ InProgress : row[j].tech = t} \subseteq Jobs
  BY DEF Existing
<1>. QED BY <1>2, JobsAreFinite, FS_Subset, FS_CardinalityType DEF JobsOf

(* A turn stays what it was while no job comes or changes hands.           *)
LEMMA TurnStays ==
  ASSUME NEW t, Turn(t), Existing' = Existing, \A j \in Existing : row'[j].tech = row[j].tech
  PROVE  Turn(t)'
<1>. DEFINE after(S) == IF S = {} THEN 1 ELSE (row'[Greatest(S)].tech % NumTechs) + 1
<1>1. ASSUME NEW S \in SUBSET Existing PROVE after(S) = TurnAfter(S)
  <2>1. S # {} => Greatest(S) \in S
    BY GreatestIn, ExistingAreJobs
  <2>2. S # {} => row'[Greatest(S)].tech = row[Greatest(S)].tech
    BY <2>1
  <2>. HIDE DEF Greatest
  <2>. QED BY <2>2 DEF TurnAfter
<1>2. \A j : Newest(j)' <=> Newest(j)
  BY DEF Newest
<1>3. TurnAfter(Existing)' = after(Existing)
  BY DEF TurnAfter
<1>4. TurnAfter(Existing \ t.todo)' = after(Existing \ t.todo)
  BY DEF TurnAfter
<1>. HIDE DEF after
<1>. QED BY <1>1, <1>2, <1>3, <1>4 DEF Turn

(* The jobs under way are those of the request that brings one.            *)
LEMMA OnlyTheirs ==
  ASSUME OneComes, NEW w \in Workers, Comes(task[w])
  PROVE  InProgress = Doing(task[w])
<1>1. \A v \in Workers : v # w => Doing(task[v]) = {}
  BY DEF OneComes, Doing, Comes
<1>2. InProgress = UNION {Doing(task[v]) : v \in Workers}
  BY DEF InProgress, Doing
<1>. QED BY <1>1, <1>2

LEMMA SameInProgress ==
  ASSUME NEW w \in Workers, NEW t, task = [v \in Workers |-> task[v]],
         task' = [task EXCEPT ![w] = t], Doing(t) = Doing(task[w])
  PROVE  InProgress' = InProgress
<1>1. \A v \in Workers : task'[v] = IF v = w THEN t ELSE task[v]
  BY Zenon
<1>2. \A v \in Workers : Doing(task[v])' = Doing(task[v])
  BY <1>1 DEF Doing
<1>3. InProgress = UNION {Doing(task[v]) : v \in Workers}
  BY DEF InProgress, Doing
<1>4. InProgress' = UNION {Doing(task[v])' : v \in Workers}
  BY DEF InProgress, Doing
<1>. QED BY <1>2, <1>3, <1>4

ComesAlone(w, t) ==
  Comes(t) => Comes(task[w]) \/ \A v \in Workers \ {w} : ~Comes(task[v])

LEMMA StillOne ==
  ASSUME NEW w \in Workers, NEW t, task = [v \in Workers |-> task[v]],
         task' = [task EXCEPT ![w] = t], OneComes, ComesAlone(w, t)
  PROVE  OneComes'
<1>1. \A v \in Workers : task'[v] = IF v = w THEN t ELSE task[v]
  BY Zenon
<1>2. \A v \in Workers : Comes(task[v])' <=> IF v = w THEN Comes(t) ELSE Comes(task[v])
  BY <1>1 DEF Comes
<1>. QED BY <1>2 DEF OneComes, ComesAlone

(* The shares of the given jobs stay even when none is given and none of   *)
(* them changes hands.                                                     *)
LEMMA EvenStays ==
  ASSUME Given' = Given, \A j \in Given : row'[j].tech = row[j].tech,
         \A j \in Given : row[j].tech \in Techs, EvenTo(LastOf(Given))
  PROVE  /\ \A j \in Given' : row'[j].tech \in Techs
         /\ EvenTo(LastOf(Given))'
<1>1. \A t : JobsOf(t)' = JobsOf(t)
  <2>1. \A t : {j \in Given' : row'[j].tech = t} = {j \in Given : row[j].tech = t}
    OBVIOUS
  <2>2. \A t : /\ JobsOf(t)' = Cardinality({j \in Given' : row'[j].tech = t})
               /\ JobsOf(t) = Cardinality({j \in Given : row[j].tech = t})
    BY DEF JobsOf, Given
  <2>. QED BY <2>1, <2>2
<1>2. LastOf(Given)' = LastOf(Given)
  <2>1. Given # {} => Greatest(Given) \in Given
    BY GreatestIn, GivenAreJobs
  <2>2. Given # {} => row'[Greatest(Given)].tech = row[Greatest(Given)].tech
    BY <2>1
  <2>3. LastOf(Given)' = IF Given' = {} THEN NumTechs ELSE row'[Greatest(Given')].tech
    BY DEF LastOf, Greatest
  <2>. HIDE DEF Greatest
  <2>. QED BY <2>2, <2>3 DEF LastOf
<1>3. EvenTo(LastOf(Given))' <=>
        \A t, u \in Techs : JobsOf(t)' - Ahead(t, LastOf(Given)') = JobsOf(u)' - Ahead(u, LastOf(Given)')
  BY DEF EvenTo, Ahead
<1>. QED BY <1>1, <1>2, <1>3 DEF EvenTo

(* And they stay even when the next in turn gets the next job.             *)
LEMMA EvenGives ==
  ASSUME NEW j \in Jobs, j \notin Given, Given' = Given \cup {j}, \A k \in Given : k <= j,
         \A k \in Given : row'[k].tech = row[k].tech, row'[j].tech = TurnAfter(Given),
         \A k \in Given : row[k].tech \in Techs, EvenTo(LastOf(Given))
  PROVE  /\ \A k \in Given' : row'[k].tech \in Techs
         /\ EvenTo(LastOf(Given))'
<1>. DEFINE last == LastOf(Given)
            next == (last % NumTechs) + 1
            share == [t \in Techs |-> JobsOf(t)]
            more == [t \in Techs |-> JobsOf(t)']
            of(t) == {k \in Given : row[k].tech = t}
            ofNow(t) == {k \in Given' : row'[k].tech = t}
<1>1. last \in Techs /\ TurnAfter(Given) = next /\ next \in Techs
      /\ next = IF last = NumTechs THEN 1 ELSE last + 1
  BY TurnFollows, TurnsInOrder, GivenAreJobs
<1>2. row'[j].tech = next
  BY <1>1
<1>3. \A t \in Techs : share[t] \in Nat
  BY SharesAreNaturals
<1>4. LastOf(Given)' = next
  <2>1. LastOf(Given)' = IF Given' = {} THEN NumTechs ELSE row'[Greatest(Given')].tech
    BY DEF LastOf, Greatest
  <2>2. j \in Nat
    BY JobsAreNaturals
  <2>3. Greatest(Given \cup {j}) = j
    <3>1. \A k \in Given \cup {j} : k <= j
      BY <2>2
    <3>. QED BY <3>1, GreatestIs, GivenAreJobs
  <2>. HIDE DEF next
  <2>. QED BY <1>2, <2>1, <2>3
<1>. HIDE DEF next, last
<1>5. \A t \in Techs : more[t] = IF t = next THEN share[t] + 1 ELSE share[t]
  <2>1. SUFFICES ASSUME NEW t \in Techs
                 PROVE  JobsOf(t)' = IF t = next THEN JobsOf(t) + 1 ELSE JobsOf(t)
    OBVIOUS
  <2>2. JobsOf(t) = Cardinality(of(t)) /\ JobsOf(t)' = Cardinality(ofNow(t))
    BY DEF JobsOf, Given
  <2>3. ofNow(t) = IF t = next THEN of(t) \cup {j} ELSE of(t)
    BY <1>2
  <2>4. IsFiniteSet(of(t)) /\ j \notin of(t)
    BY JobsAreFinite, GivenAreJobs, FS_Subset
  <2>. HIDE DEF of, ofNow
  <2>. QED BY <2>2, <2>3, <2>4, FS_AddElement
<1>6. \A t, u \in Techs : share[t] - Ahead(t, last) = share[u] - Ahead(u, last)
  BY DEF EvenTo, last
<1>7. EvenTo(LastOf(Given))' <=>
        \A t, u \in Techs : JobsOf(t)' - Ahead(t, LastOf(Given)') = JobsOf(u)' - Ahead(u, LastOf(Given)')
  BY DEF EvenTo, Ahead
<1>8. \A t \in Techs : more[t] = JobsOf(t)'
  OBVIOUS
<1>9. \A k \in Given' : row'[k].tech \in Techs
  BY <1>1, <1>2
<1>. HIDE DEF share, more
<1>10. \A t, u \in Techs : more[t] - Ahead(t, next) = more[u] - Ahead(u, next)
  BY <1>1, <1>3, <1>5, <1>6, OneMore
<1>. QED BY <1>4, <1>7, <1>8, <1>9, <1>10

(* A request goes on, and no job comes or changes hands.                   *)
LEMMA FairRests ==
  ASSUME VisitInv, Fair, NEW w \in Workers, NEW t, task' = [task EXCEPT ![w] = t],
         Existing' = Existing,
         \A j \in Existing : row'[j].tech = row[j].tech /\ ~row'[j].queued,
         Doing(t) = Doing(task[w]), Turn(t), Unqueued(t), ComesAlone(w, t)
  PROVE  Fair'
<1>0. task = [v \in Workers |-> task[v]]
  BY DEF VisitInv
<1>1. \A v \in Workers : task'[v] = IF v = w THEN t ELSE task[v]
  BY <1>0, Zenon
<1>2. OneComes'
  BY <1>0, StillOne DEF Fair
<1>3. \A v \in Workers : Turn(task[v])'
  <2>1. \A v \in Workers : Turn(IF v = w THEN t ELSE task[v])
    BY DEF Fair
  <2>2. SUFFICES ASSUME NEW v \in Workers PROVE Turn(task[v])'
    OBVIOUS
  <2>3. PICK u : u = IF v = w THEN t ELSE task[v]
    OBVIOUS
  <2>4. Turn(u) /\ task'[v] = u
    BY <1>1, <2>1, <2>3
  <2>5. Turn(u)'
    BY <2>4, TurnStays
  <2>. QED BY <2>4, <2>5 DEF Turn
<1>4. \A v \in Workers : Unqueued(task[v])'
  BY <1>1 DEF Fair, Unqueued
<1>5. InProgress' = InProgress
  BY <1>0, SameInProgress
<1>6. Given' = Given
  BY <1>5 DEF Given
<1>7. \A j \in Given : row'[j].tech = row[j].tech
  BY GivenAreJobs
<1>8. (\A j \in Given' : row'[j].tech \in Techs) /\ EvenTo(LastOf(Given))'
  BY <1>6, <1>7, EvenStays DEF Fair
<1>9. \A j \in Existing' : ~row'[j].queued
  OBVIOUS
<1>. QED BY <1>2, <1>3, <1>4, <1>8, <1>9 DEF Fair

(* The request that brings a job inserts it, or the strategy is through    *)
(* with it: the jobs that are given are the old ones, or one more.         *)
GivesNone == Given' = Given

GivesNext(j) ==
  /\ j \in Jobs /\ j \notin Given /\ Given' = Given \cup {j} /\ \A k \in Given : k <= j
  /\ row'[j].tech = TurnAfter(Given)

LEMMA FairComes ==
  ASSUME VisitInv, Fair, NEW w \in Workers, NEW t, task' = [task EXCEPT ![w] = t],
         Comes(task[w]), Turn(t)', Unqueued(t),
         \A j \in Given : row'[j].tech = row[j].tech, \A j \in Existing' : ~row'[j].queued,
         GivesNone \/ \E j : GivesNext(j)
  PROVE  Fair'
<1>0. task = [v \in Workers |-> task[v]]
  BY DEF VisitInv
<1>1. \A v \in Workers : task'[v] = IF v = w THEN t ELSE task[v]
  BY <1>0, Zenon
<1>2. OneComes'
  BY <1>0, StillOne DEF Fair, ComesAlone
<1>3. \A v \in Workers : Turn(task[v])'
  <2>1. SUFFICES ASSUME NEW v \in Workers PROVE Turn(task[v])'
    OBVIOUS
  <2>2. CASE v = w
    BY <1>1, <2>2 DEF Turn
  <2>3. CASE v # w
    <3>1. ~Comes(task[v]) /\ task'[v] = task[v]
      BY <1>1, <2>3 DEF Fair, OneComes
    <3>. QED BY <3>1 DEF Comes, Turn
  <2>. QED BY <2>2, <2>3
<1>4. \A v \in Workers : Unqueued(task[v])'
  BY <1>1 DEF Fair, Unqueued
<1>5. (\A j \in Given' : row'[j].tech \in Techs) /\ EvenTo(LastOf(Given))'
  BY EvenStays, EvenGives DEF Fair, GivesNone, GivesNext
<1>. QED BY <1>2, <1>3, <1>4, <1>5 DEF Fair

LEMMA NothingWritten ==
  ASSUME VisitInv, Fair, NEW w \in Workers, NEW t, task' = [task EXCEPT ![w] = t], row' = row,
         Doing(t) = Doing(task[w]), Turn(t), Unqueued(t), ComesAlone(w, t)
  PROVE  Fair'
<1>1. Existing' = Existing /\ \A j \in Existing : row'[j].tech = row[j].tech /\ ~row'[j].queued
  BY DEF Existing, Fair
<1>. QED BY <1>1, FairRests

(* A request that brings no job stands at none of these steps.             *)
LEMMA Elsewhere ==
  ASSUME NEW t, t.at \in {"idle", "save", "lock"}
  PROVE  ~Comes(t) /\ Doing(t) = {} /\ Turn(t) /\ \A w : ComesAlone(w, t)
BY DEF Comes, Doing, Turn, ComesAlone

LEMMA IdleIsElsewhere == Idle.at = "idle" /\ Unqueued(Idle)
BY DEF Idle, Unqueued

(* Neither disturbed nor crossed: the rotation is noted as even.           *)
LEMMA Undisturbed ==
  ASSUME NEW w \in Workers, NEW disturbed, NotesRotation(w, disturbed), ~uneven'
  PROVE  ~disturbed /\ \A v \in Workers \ {w} : ~Comes(task[v])
<1>1. ~(uneven \/ disturbed \/ \E v \in Workers \ {w} : Creating(v))
  BY Zenon DEF NotesRotation
<1>2. ~disturbed
  BY <1>1, Zenon
<1>3. \A v \in Workers \ {w} : ~Creating(v)
  BY <1>1, Zenon
<1>. QED BY <1>2, <1>3 DEF Creating, Comes

LEMMA RequestRests ==
  ASSUME VisitInv, Fair, ~uneven', NEW w \in Workers, NEW breaks \in 1..2, RequestRepair(w, breaks)
  PROVE  Fair'
<1>. DEFINE t == [at |-> "insert", breaks |-> breaks, tech |-> LowestWorkload({})]
<1>1. task[w] = Idle /\ task' = [task EXCEPT ![w] = t] /\ row' = row
  BY DEF RequestRepair, Starting
<1>2. breaks = 1 /\ \A v \in Workers \ {w} : ~Comes(task[v])
  <2>1. NotesRotation(w, breaks > 1)
    BY DEF RequestRepair
  <2>2. ~(breaks > 1) /\ \A v \in Workers \ {w} : ~Comes(task[v])
    BY <2>1, Undisturbed
  <2>. QED BY <2>2
<1>3. Doing(task[w]) = {}
  BY <1>1, Elsewhere, IdleIsElsewhere
<1>4. t.at = "insert" /\ t.breaks = 1
  BY <1>2
<1>. HIDE DEF t
<1>5. Doing(t) = Doing(task[w]) /\ Turn(t) /\ Unqueued(t) /\ ComesAlone(w, t)
  BY <1>2, <1>3, <1>4 DEF Doing, Turn, Unqueued, ComesAlone
<1>. QED BY <1>1, <1>5, NothingWritten

(* A rotating shop never declines, and looks at all the other jobs.        *)
LEMMA NextInTurn ==
  ASSUME Fair, shop.strategy = "round_robin", NEW except
  PROVE  Selected(except) = TurnAfter(Existing \ except)
<1>1. Selected(except) = Rotation(except)
  BY DEF Selected
<1>2. {j \in Existing \ except : ~row[j].queued} = Existing \ except
  BY DEF Fair
<1>. QED BY <1>1, <1>2 DEF Rotation

LEMMA NewJobRests ==
  ASSUME VisitInv, Fair, ~uneven', shop.strategy = "round_robin", NEW w \in Workers, NewJob(w)
  PROVE  Fair'
<1>1. PICK c \in Choices :
         /\ Starting(w, [at |-> "create", tech |-> c.tech, queued |-> c.queued])
         /\ NotesRotation(w, c.byHand)
  BY DEF NewJob
<1>. DEFINE t == [at |-> "create", tech |-> c.tech, queued |-> c.queued]
<1>2. task[w] = Idle /\ task' = [task EXCEPT ![w] = t] /\ row' = row
  BY <1>1 DEF NewJob, Starting
<1>3. ~c.byHand /\ \A v \in Workers \ {w} : ~Comes(task[v])
  BY <1>1, Undisturbed
<1>4. Doing(task[w]) = {}
  BY <1>2, Elsewhere, IdleIsElsewhere
<1>5. Given = Existing
  <2>1. \A v \in Workers : Doing(task[v]) = {}
    BY <1>3, <1>4 DEF Doing, Comes
  <2>2. InProgress = UNION {Doing(task[v]) : v \in Workers}
    BY DEF InProgress, Doing
  <2>. QED BY <2>1, <2>2 DEF Given
<1>6. Selected({}) = TurnAfter(Existing) /\ Selected({}) \in Techs
  <2>1. Selected({}) = TurnAfter(Existing)
    BY NextInTurn
  <2>2. TurnAfter(Existing) \in Techs
    BY <1>5, TurnFollows, TurnsInOrder, ExistingAreJobs DEF Fair
  <2>. QED BY <2>1, <2>2
<1>7. c.tech = Selected({}) /\ ~c.queued
  <2>1. Selected({}) # NoTech
    BY <1>6, ScheduleAssumption DEF Techs, NoTech
  <2>2. \/ c \in [tech : Techs, queued : {FALSE}, byHand : {TRUE}]
        \/ c = [tech |-> Selected({}), queued |-> FALSE, byHand |-> FALSE]
    BY <2>1 DEF Choices
  <2>3. c \in [tech : Techs, queued : {FALSE}, byHand : {TRUE}] => c.byHand = TRUE
    OBVIOUS
  <2>4. c = [tech |-> Selected({}), queued |-> FALSE, byHand |-> FALSE]
    BY <1>3, <2>2, <2>3
  <2>. QED BY <2>4
<1>8. t.at = "create" /\ t.tech = TurnAfter(Existing) /\ ~t.queued
  BY <1>6, <1>7
<1>. HIDE DEF t
<1>9. Doing(t) = Doing(task[w]) /\ Turn(t) /\ Unqueued(t) /\ ComesAlone(w, t)
  BY <1>3, <1>4, <1>8 DEF Doing, Turn, Unqueued, ComesAlone
<1>. QED BY <1>2, <1>9, NothingWritten

LEMMA SelectRests ==
  ASSUME VisitInv, Fair, shop.strategy = "round_robin", NEW w \in Workers, Select(w)
  PROVE  Fair'
<1>1. PICK j \in Existing : task[w].at = "select" /\ task[w].todo = {j} /\ Newest(j)
  BY DEF Select, Fair, Turn
<1>2. Least({j}) = j
  BY DEF Least
<1>3. PICK tech : tech = Selected({j})
  OBVIOUS
<1>. DEFINE t == [at |-> "apply", todo |-> task[w].todo, copy |-> task[w].copy, tech |-> tech]
<1>4. task' = [task EXCEPT ![w] = t] /\ row' = row
  <2>. HIDE DEF Least, Selected
  <2>. QED BY <1>1, <1>2, <1>3 DEF Select, Become
<1>5. tech = TurnAfter(Existing \ {j})
  BY <1>3, NextInTurn
<1>6. t.at = "apply" /\ t.todo = {j} /\ t.tech = tech /\ t.copy = task[w].copy
  BY <1>1
<1>7. Unqueued(task[w])
  BY DEF Fair
<1>. HIDE DEF t
<1>8. Turn(t)
  BY <1>1, <1>5, <1>6 DEF Turn
<1>9. Doing(t) = Doing(task[w]) /\ Unqueued(t) /\ ComesAlone(w, t)
  BY <1>1, <1>6, <1>7 DEF Doing, Unqueued, ComesAlone, Comes
<1>. QED BY <1>4, <1>8, <1>9, NothingWritten

LEMMA ReadRests ==
  ASSUME VisitInv, Fair, NEW w \in Workers, NEW j \in Jobs, Read(w, j)
  PROVE  Fair'
<1>1. PICK copy : copy = row[j]
  OBVIOUS
<1>. DEFINE t == [at |-> "save", job |-> j, copy |-> copy]
<1>2. task[w] = Idle /\ task' = [task EXCEPT ![w] = t] /\ row' = row /\ ~copy.queued
  BY <1>1 DEF Read, Starting, Fair
<1>3. t.at = "save" /\ t.copy = copy
  OBVIOUS
<1>. HIDE DEF t
<1>4. Doing(t) = Doing(task[w]) /\ Turn(t) /\ ComesAlone(w, t)
  BY <1>2, <1>3, Elsewhere, IdleIsElsewhere
<1>5. Unqueued(t)
  BY <1>2, <1>3 DEF Unqueued
<1>. QED BY <1>2, <1>4, <1>5, NothingWritten

LEMMA LockRests ==
  ASSUME VisitInv, Fair, NEW w \in Workers, NEW op, NEW S \in SUBSET Existing, NEW named,
         Lock(w, op, S, named)
  PROVE  Fair'
<1>1. PICK who : who = IF op = "dispatch" THEN named ELSE Least(S)
  OBVIOUS
<1>2. PICK first : first = FirstLocked(op, S, named)
  OBVIOUS
<1>3. PICK copy : copy = [j \in S |-> IF op \in Unlocked THEN row[j] ELSE NoRow]
  OBVIOUS
<1>. DEFINE t == [at |-> "lock", op |-> op, jobs |-> S, holds |-> {}, next |-> first,
                  named |-> who, copy |-> copy]
<1>4. task[w] = Idle /\ task' = [task EXCEPT ![w] = t] /\ row' = row
  BY <1>1, <1>2, <1>3 DEF Lock, Starting
<1>5. t.at = "lock" /\ t.op = op /\ t.jobs = S /\ t.copy = copy
  OBVIOUS
<1>6. op \in Unlocked => \A j \in S : ~copy[j].queued
  BY <1>3 DEF Fair
<1>. HIDE DEF t
<1>7. Doing(t) = Doing(task[w]) /\ Turn(t) /\ ComesAlone(w, t)
  BY <1>4, <1>5, Elsewhere, IdleIsElsewhere
<1>8. Unqueued(t)
  BY <1>5, <1>6 DEF Unqueued
<1>. QED BY <1>4, <1>7, <1>8, NothingWritten

LEMMA AcquireRests ==
  ASSUME VisitInv, Fair, NEW w \in Workers, Acquire(w)
  PROVE  Fair'
<1>. DEFINE held == [task[w] EXCEPT !.holds = task[w].holds \cup {task[w].next}]
<1>1. PICK j : task' = [task EXCEPT ![w] = [held EXCEPT !.next = j]]
  BY DEF Acquire, Become
<1>2. PICK t : t = [held EXCEPT !.next = j]
  OBVIOUS
<1>3. task' = [task EXCEPT ![w] = t] /\ row' = row /\ task[w].at = "lock"
  BY <1>1, <1>2 DEF Acquire
<1>4. /\ t.at = task[w].at /\ t.jobs = task[w].jobs /\ t.op = task[w].op /\ t.copy = task[w].copy
  BY <1>2
<1>5. Unqueued(task[w])
  BY DEF Fair
<1>6. Unqueued(t)
  BY <1>3, <1>4, <1>5 DEF Unqueued
<1>7. Doing(t) = Doing(task[w]) /\ Turn(t) /\ ComesAlone(w, t)
  BY <1>3, <1>4, Elsewhere
<1>. QED BY <1>3, <1>6, <1>7, NothingWritten

(* A request is over that brought no job, or had given all of them.        *)
LEMMA IdleRests ==
  ASSUME VisitInv, Fair, NEW w \in Workers, task' = [task EXCEPT ![w] = Idle], row' = row,
         Doing(task[w]) = {}
  PROVE  Fair'
<1>1. Doing(Idle) = Doing(task[w]) /\ Turn(Idle) /\ Unqueued(Idle) /\ ComesAlone(w, Idle)
  BY Elsewhere, IdleIsElsewhere
<1>. QED BY <1>1, NothingWritten

LEMMA StopRests ==
  ASSUME VisitInv, Fair, ~uneven', NEW w \in Workers, Refuse(w) \/ Deadlocked(w) \/ Crash(w)
  PROVE  Fair'
<1>1. task' = [task EXCEPT ![w] = Idle] /\ row' = row
  BY DEF Refuse, Deadlocked, Crash, Become
<1>2. Doing(task[w]) = {}
  <2>1. CASE Refuse(w)
    BY <2>1 DEF Refuse, Locked, Doing
  <2>2. CASE Deadlocked(w)
    <3>1. PICK C : w \in C /\ WaitingInCircle(C)
      BY <2>2 DEF Deadlocked
    <3>. QED BY <3>1 DEF WaitingInCircle, WaitsFor, Doing
  <2>3. CASE Crash(w)
    BY <2>3 DEF Crash, Creating, Doing
  <2>. QED BY <2>1, <2>2, <2>3
<1>. QED BY <1>1, <1>2, IdleRests

-----------------------------------------------------------------------------
(* What is written leaves the jobs with their technicians, or is noted.    *)

KeepsTurns(S, new) ==
  \A j \in S : new[j].status # "none" /\ ~new[j].queued /\ new[j].tech = row[j].tech

LEMMA WritesRest ==
  ASSUME VisitInv, Fair, NEW S \in SUBSET Existing, NEW new, Overwrite(S, new), KeepsTurns(S, new),
         NEW w \in Workers, NEW t, task' = [task EXCEPT ![w] = t],
         Doing(t) = Doing(task[w]), Turn(t), Unqueued(t), ComesAlone(w, t)
  PROVE  Fair'
<1>1. \A j \in Jobs : row'[j] = IF j \in S THEN new[j] ELSE row[j]
  BY DEF Overwrite
<1>2. Existing' = Existing
  <2>1. \A j \in Jobs : row'[j].status # "none" <=> row[j].status # "none"
    BY <1>1 DEF Existing, KeepsTurns
  <2>. QED BY <2>1 DEF Existing
<1>3. \A j \in Existing : row'[j].tech = row[j].tech /\ ~row'[j].queued
  BY <1>1, ExistingAreJobs DEF KeepsTurns, Fair
<1>. QED BY <1>2, <1>3, FairRests

(* Copies that are saved without their job being anyone's turn.            *)
Clean(S, new) == \A j \in S : new[j].status # "none" /\ ~new[j].queued

LEMMA SavesRestFair ==
  ASSUME VisitInv, Fair, ~uneven', NEW S \in SUBSET Existing, NEW new, Writes(S, new), Clean(S, new),
         NEW w \in Workers, NEW t, task' = [task EXCEPT ![w] = t],
         Doing(t) = Doing(task[w]), Turn(t), Unqueued(t), ComesAlone(w, t)
  PROVE  Fair'
<1>1. Overwrite(S, new)
  BY DEF Writes, Overwrite
<1>2. \A j \in S : new[j].tech = row[j].tech
  BY DEF Writes
<1>. QED BY <1>1, <1>2, WritesRest DEF KeepsTurns, Clean

LEMMA SettledUnqueued ==
  ASSUME NEW r, NEW t, IsJob(r), ~r.queued
  PROVE  IsJob(Settled(r, t)) /\ ~Settled(r, t).queued
<1>1. IsJob(Settled(r, t))
  BY SettledJob
<1>2. Settled(r, t).queued = (r.queued /\ r.tech = t)
  BY DEF Settled, IsJob, Columns
<1>. QED BY <1>1, <1>2

LEMMA StatusUnqueued ==
  ASSUME NEW r, NEW s \in Status, IsJob(r), ~r.queued
  PROVE  IsJob([r EXCEPT !.status = s]) /\ ~[r EXCEPT !.status = s].queued
<1>1. [r EXCEPT !.status = s].queued = r.queued
  BY DEF IsJob, Columns
<1>. QED BY <1>1, JobGoesOn

LEMMA JobsAreClean ==
  ASSUME NEW r, IsJob(r)
  PROVE  r.status # "none"
BY DEF IsJob, Status

LEMMA AcceptRests ==
  ASSUME VisitInv, Fair, ~uneven', NEW w \in Workers, Accept(w)
  PROVE  Fair'
<1>. DEFINE todo == task[w].todo
            old == task[w].copy
            j == Least(todo)
            rest == todo \ {j}
            new == [old EXCEPT ![j].status = "OPEN"]
<1>1. /\ task[w].at = "accept" /\ Writes({j}, new)
      /\ task' = [task EXCEPT ![w] = IF rest = {} THEN Idle ELSE [task[w] EXCEPT !.todo = rest]]
  BY DEF Accept, Become
<1>2. /\ todo # {} /\ todo \subseteq DOMAIN old /\ DOMAIN old \subseteq Existing
      /\ \A i \in DOMAIN old : IsJob(old[i]) /\ ~old[i].queued
  BY <1>1 DEF VisitInv, Keeps, Fair, Unqueued
<1>3. j \in todo /\ j \in Existing
  <2>. HIDE DEF todo, old
  <2>. QED BY <1>2, LeastOfTodo
<1>4. new[j].status # "none" /\ ~new[j].queued
  <2>. HIDE DEF todo, j
  <2>1. new[j] = [old[j] EXCEPT !.status = "OPEN"] /\ IsJob(old[j]) /\ ~old[j].queued
    BY <1>2, <1>3
  <2>2. "OPEN" \in Status
    BY DEF Status
  <2>. HIDE DEF new, old
  <2>. QED BY <2>1, <2>2, StatusUnqueued, JobsAreClean
<1>5. PICK t : t = IF rest = {} THEN Idle ELSE [task[w] EXCEPT !.todo = rest]
  OBVIOUS
<1>6. t.at = "idle" \/ (t.at = "accept" /\ t.copy = old)
  BY <1>1, <1>5 DEF Idle
<1>7. Unqueued(t)
  BY <1>2, <1>6 DEF Unqueued
<1>8. Doing(t) = Doing(task[w]) /\ Turn(t) /\ ComesAlone(w, t)
  BY <1>1, <1>6 DEF Doing, Turn, ComesAlone, Comes
<1>9. task' = [task EXCEPT ![w] = t]
  BY <1>1, <1>5
<1>. HIDE DEF new, j, rest
<1>10. Clean({j}, new)
  BY <1>4 DEF Clean
<1>. QED BY <1>1, <1>3, <1>7, <1>8, <1>9, <1>10, SavesRestFair

(* A request that ends with its write.                                     *)
LEMMA SavesEnd ==
  ASSUME VisitInv, Fair, ~uneven', NEW S \in SUBSET Existing, NEW new, Writes(S, new), Clean(S, new),
         NEW w \in Workers, Become(w, Idle), Doing(task[w]) = {}
  PROVE  Fair'
<1>1. Doing(Idle) = Doing(task[w]) /\ Turn(Idle) /\ Unqueued(Idle) /\ ComesAlone(w, Idle)
  BY Elsewhere, IdleIsElsewhere
<1>2. task' = [task EXCEPT ![w] = Idle]
  BY DEF Become
<1>. QED BY <1>1, <1>2, SavesRestFair

LEMMA WritesEnd ==
  ASSUME VisitInv, Fair, NEW S \in SUBSET Existing, NEW new, Overwrite(S, new), KeepsTurns(S, new),
         NEW w \in Workers, Become(w, Idle), Doing(task[w]) = {}
  PROVE  Fair'
<1>1. Doing(Idle) = Doing(task[w]) /\ Turn(Idle) /\ Unqueued(Idle) /\ ComesAlone(w, Idle)
  BY Elsewhere, IdleIsElsewhere
<1>2. task' = [task EXCEPT ![w] = Idle]
  BY DEF Become
<1>. QED BY <1>1, <1>2, WritesRest

LEMMA EditedUnqueued ==
  ASSUME NEW r, IsJob(r), ~r.queued, NEW new \in Edited(r)
  PROVE  IsJob(new) /\ ~new.queued
<1>1. NextStatus(r.status) \subseteq Status /\ r.status \in Status /\ "COMPLETED" \in Status
      /\ "OPEN" \in Status
  BY DEF IsJob, Status, NextStatus
<1>2. \/ \E s \in NextStatus(r.status) : new = [r EXCEPT !.status = s]
      \/ \E t \in Techs, s \in Starts \cup {NoTime}, q \in FormStatuses(r) : new = FormSaved(r, t, s, q)
      \/ \E t \in Techs : new = [Settled(r, t) EXCEPT !.status = "OPEN"]
  BY DEF Edited
<1>3. ASSUME NEW s \in Status, new = [r EXCEPT !.status = s] PROVE ~new.queued
  BY <1>3, StatusUnqueued
<1>4. ASSUME NEW t, NEW s, NEW q, new = FormSaved(r, t, s, q) PROVE ~new.queued
  <2>1. IsJob(Settled(r, t)) /\ ~Settled(r, t).queued
    BY SettledUnqueued
  <2>2. new.queued = Settled(r, t).queued
    BY <1>4, <2>1 DEF FormSaved, IsJob, Columns
  <2>. QED BY <2>1, <2>2
<1>5. ASSUME NEW t \in Techs, new = [Settled(r, t) EXCEPT !.status = "OPEN"] PROVE ~new.queued
  BY <1>1, <1>5, SettledUnqueued, StatusUnqueued
<1>. QED BY <1>1, <1>2, <1>3, <1>4, <1>5, EditedJob

LEMMA SaveRests ==
  ASSUME VisitInv, Fair, ~uneven', NEW w \in Workers, Save(w)
  PROVE  Fair'
<1>. DEFINE j == task[w].job
            copy == task[w].copy
<1>1. task[w].at = "save" /\ Become(w, Idle)
  BY DEF Save
<1>2. j \in Existing /\ IsJob(copy) /\ ~copy.queued
  BY <1>1 DEF VisitInv, Keeps, Fair, Unqueued
<1>3. PICK r \in Edited(copy) : Writes({j}, [i \in {j} |-> r])
  BY DEF Save
<1>4. Doing(task[w]) = {}
  BY <1>1 DEF Doing
<1>. HIDE DEF copy, j
<1>5. IsJob(r) /\ ~r.queued
  BY <1>2, EditedUnqueued
<1>. DEFINE new == [i \in {j} |-> r]
<1>6. Clean({j}, new)
  BY <1>5, JobsAreClean DEF Clean
<1>7. Writes({j}, new)
  BY <1>3
<1>. HIDE DEF new
<1>. QED BY <1>1, <1>2, <1>4, <1>6, <1>7, SavesEnd

LEMMA SaveBulkRests ==
  ASSUME VisitInv, Fair, ~uneven', NEW w \in Workers, SaveBulk(w)
  PROVE  Fair'
<1>. DEFINE S == task[w].jobs
            copy == task[w].copy
            saved == \E new : Writes(S, new) /\ Clean(S, new)
<1>1. /\ task[w].at = "lock" /\ task[w].op \in Unlocked /\ Become(w, Idle)
  BY DEF SaveBulk, Locked, Unlocked
<1>2. S \in SUBSET Existing /\ \A j \in S : IsJob(copy[j]) /\ ~copy[j].queued
  BY <1>1 DEF VisitInv, Keeps, Fair, Unqueued
<1>3. saved
  <2>1. ASSUME NEW t \in Techs, Writes(S, [j \in S |-> Settled(copy[j], t)]) PROVE saved
    <3>. DEFINE new == [j \in S |-> Settled(copy[j], t)]
    <3>1. \A j \in S : IsJob(copy[j]) /\ ~copy[j].queued
      BY <1>2
    <3>. HIDE DEF S, copy
    <3>2. Clean(S, new)
      BY <3>1, SettledUnqueued, JobsAreClean DEF Clean
    <3>. QED BY <2>1, <3>2
  <2>2. ASSUME NEW base, NEW s \in {"OPEN", "DENIED"}, Writes(S, [j \in S |-> [base[j] EXCEPT !.status = s]]),
               \A j \in S : IsJob(base[j]) /\ ~base[j].queued
        PROVE  saved
    <3>. DEFINE new == [j \in S |-> [base[j] EXCEPT !.status = s]]
    <3>1. s \in Status
      BY DEF Status
    <3>. HIDE DEF S
    <3>2. Clean(S, new)
      BY <2>2, <3>1, StatusUnqueued, JobsAreClean DEF Clean
    <3>. QED BY <2>2, <3>2
  <2>3. ASSUME NEW t \in Techs \cup {NoTech},
               Writes(S, [j \in S |-> [(IF copy[j].queued /\ t # NoTech THEN Settled(copy[j], t)
                                                                      ELSE copy[j])
                                          EXCEPT !.status = "OPEN"]])
        PROVE  saved
    <3>. DEFINE base == [j \in S |-> IF copy[j].queued /\ t # NoTech THEN Settled(copy[j], t)
                                                                     ELSE copy[j]]
    <3>0. \A j \in S : IsJob(copy[j]) /\ ~copy[j].queued
      BY <1>2
    <3>1. \A j \in S : IsJob(base[j]) /\ ~base[j].queued
      <4>. HIDE DEF S, copy
      <4>. QED BY <3>0, SettledUnqueued
    <3>2. [j \in S |-> [base[j] EXCEPT !.status = "OPEN"]]
          = [j \in S |-> [(IF copy[j].queued /\ t # NoTech THEN Settled(copy[j], t) ELSE copy[j])
                            EXCEPT !.status = "OPEN"]]
      OBVIOUS
    <3>. HIDE DEF base, saved
    <3>. QED BY <2>2, <2>3, <3>1, <3>2
  <2>. HIDE DEF S, copy, saved
  <2>4. ASSUME Writes(S, [j \in S |-> [copy[j] EXCEPT !.status = "OPEN"]])
               \/ Writes(S, [j \in S |-> [copy[j] EXCEPT !.status = "DENIED"]])
        PROVE  saved
    BY <1>2, <2>2, <2>4
  <2>. USE DEF S, copy
  <2>. QED BY <2>1, <2>3, <2>4 DEF SaveBulk
<1>4. Doing(task[w]) = {}
  BY <1>1 DEF Doing
<1>. HIDE DEF S
<1>. QED BY <1>1, <1>2, <1>3, <1>4, SavesEnd

LEMMA WindowKeepsTurns ==
  ASSUME NEW S, NEW rows, DOMAIN rows = S, NEW named, NEW s, NEW e,
         \A j \in S : IsJob(rows[j]) /\ ~rows[j].queued /\ rows[j].tech = row[j].tech
  PROVE  KeepsTurns(S, InWindow(rows, named, s, e))
<1>1. SUFFICES ASSUME NEW j \in S
               PROVE  LET b == [rows[j] EXCEPT !.start = s, !.end = e] IN
                      b.status # "none" /\ ~b.queued /\ b.tech = row[j].tech
  BY DEF KeepsTurns, InWindow
<1>2. IsJob(rows[j]) /\ ~rows[j].queued /\ rows[j].tech = row[j].tech /\ rows[j].status # "none"
  BY JobsAreClean
<1>. QED BY <1>2 DEF IsJob, Columns

LEMMA ConfirmRests ==
  ASSUME VisitInv, Fair, NEW w \in Workers, Confirm(w)
  PROVE  Fair'
<1>. DEFINE S == task[w].jobs
            named == task[w].named
            rows == [j \in S |-> row[j]]
<1>1. /\ task[w].at = "lock" /\ Become(w, Idle)
  BY DEF Confirm, Locked
<1>2. S \in SUBSET Existing /\ Doing(task[w]) = {}
  BY <1>1 DEF VisitInv, Keeps, Doing
<1>3a. PICK s \in Starts : \E e \in WindowEnds(s) : Overwrite(S, InWindow(rows, named, s, e))
  BY DEF Confirm
<1>3. PICK e : Overwrite(S, InWindow(rows, named, s, e))
  BY <1>3a
<1>4. \A j \in S : IsJob(rows[j]) /\ ~rows[j].queued /\ rows[j].tech = row[j].tech
  BY <1>2, RowsExist DEF Fair
<1>5. DOMAIN rows = S
  OBVIOUS
<1>. HIDE DEF rows, named
<1>6. KeepsTurns(S, InWindow(rows, named, s, e))
  BY <1>4, <1>5, WindowKeepsTurns
<1>. HIDE DEF S
<1>. QED BY <1>1, <1>2, <1>3, <1>6, WritesEnd

LEMMA DispatchRests ==
  ASSUME VisitInv, Fair, ~uneven', NEW w \in Workers, ApplyDispatch(w)
  PROVE  Fair'
<1>. DEFINE S == task[w].jobs
            named == task[w].named
            moved(tech) == tech # NoTech /\ tech # row[named].tech
            taken(tech) == tech = row[named].tech /\ row[named].queued
            given(tech) == [j \in S |-> IF moved(tech) THEN Settled(row[j], tech)
                                        ELSE [row[j] EXCEPT !.queued = @ /\ ~taken(tech)]]
<1>1. /\ task[w].at = "lock" /\ Become(w, Idle)
  BY DEF ApplyDispatch, Locked
<1>2. S \in SUBSET Existing /\ Doing(task[w]) = {}
  BY <1>1 DEF VisitInv, Keeps, Doing
<1>3. \E tech \in Techs \cup {NoTech} :
         /\ \/ Overwrite(S, given(tech))
            \/ \E s \in Starts : \E e \in WindowEnds(s) :
                  Overwrite(S, InWindow(given(tech), named, s, e))
         /\ uneven' = (uneven \/ \E j \in S : given(tech)[j].tech # row[j].tech)
  BY DEF ApplyDispatch
<1>4a. PICK tech \in Techs \cup {NoTech} :
         /\ \/ Overwrite(S, given(tech))
            \/ \E s \in Starts : \E e \in WindowEnds(s) :
                  Overwrite(S, InWindow(given(tech), named, s, e))
         /\ uneven' = (uneven \/ \E j \in S : given(tech)[j].tech # row[j].tech)
  BY <1>3
<1>4b. \A j \in S : given(tech)[j].tech = row[j].tech
  <2>. HIDE DEF given, S
  <2>. QED BY <1>4a, Zenon
<1>4. /\ \/ Overwrite(S, given(tech))
      \/ \E s \in Starts : \E e \in WindowEnds(s) :
            Overwrite(S, InWindow(given(tech), named, s, e))
      /\ \A j \in S : given(tech)[j].tech = row[j].tech
  BY <1>4a, <1>4b
<1>. DEFINE new == given(tech)
<1>5. ASSUME NEW j \in S PROVE IsJob(new[j]) /\ ~new[j].queued
  <2>1. IsJob(row[j]) /\ ~row[j].queued
    BY <1>2, RowsExist DEF Fair
  <2>2. CASE moved(tech)
    <3>1. new[j] = Settled(row[j], tech)
      BY <2>2
    <3>. HIDE DEF new
    <3>. QED BY <2>1, <3>1, SettledUnqueued
  <2>3. CASE ~moved(tech)
    <3>. DEFINE q == row[j].queued /\ ~taken(tech)
    <3>1. new[j] = [row[j] EXCEPT !.queued = q]
      BY <2>3
    <3>2. ~q
      BY <2>1
    <3>. HIDE DEF new, q
    <3>. QED BY <2>1, <3>1, <3>2 DEF IsJob, Columns
  <2>. QED BY <2>2, <2>3
<1>6. ASSUME NEW j \in S PROVE new[j].tech = row[j].tech
  <2>1. given(tech)[j].tech = row[j].tech
    BY <1>4b
  <2>. QED BY <2>1
<1>6a. DOMAIN new = S
  OBVIOUS
<1>7. CASE Overwrite(S, new)
  <2>. HIDE DEF new, S
  <2>1. KeepsTurns(S, new)
    BY <1>5, <1>6, JobsAreClean DEF KeepsTurns
  <2>. QED BY <1>1, <1>2, <1>7, <2>1, WritesEnd
<1>8. CASE \E s \in Starts : \E e \in WindowEnds(s) : Overwrite(S, InWindow(new, named, s, e))
  <2>1. PICK s, e : Overwrite(S, InWindow(new, named, s, e))
    BY <1>8
  <2>. HIDE DEF new, named
  <2>2. KeepsTurns(S, InWindow(new, named, s, e))
    BY <1>5, <1>6, <1>6a, WindowKeepsTurns
  <2>. HIDE DEF S
  <2>. QED BY <1>1, <1>2, <2>1, <2>2, WritesEnd
<1>. QED BY <1>4, <1>7, <1>8

LEMMA SwapRests ==
  ASSUME VisitInv, Fair, NEW w \in Workers, TradePlaces(w)
  PROVE  Fair'
<1>1. PICK j \in task[w].jobs, k \in task[w].jobs :
        j # k /\ row' = [row EXCEPT ![j] = MovedTo(@, row[k].start), ![k] = MovedTo(@, row[j].start)]
  BY DEF TradePlaces
<1>. DEFINE S == {j, k}
            new == [i \in S |-> IF i = j THEN MovedTo(row[j], row[k].start)
                                ELSE MovedTo(row[k], row[j].start)]
<1>2. task[w].at = "lock" /\ Become(w, Idle)
  BY DEF TradePlaces, Locked
<1>3. S \in SUBSET Existing /\ Doing(task[w]) = {}
  BY <1>2 DEF VisitInv, Keeps, Doing
<1>4. Overwrite(S, new)
  <2>1. row = [i \in Jobs |-> row[i]]
    BY DEF VisitInv, VisitsOK
  <2>2. row' = [i \in Jobs |-> IF i = j THEN MovedTo(row[j], row[k].start)
                               ELSE IF i = k THEN MovedTo(row[k], row[j].start) ELSE row[i]]
    BY <1>1, <2>1
  <2>. QED BY <2>2 DEF Overwrite
<1>5. KeepsTurns(S, new)
  <2>1. ASSUME NEW r, NEW s, IsJob(r), ~r.queued
        PROVE  /\ MovedTo(r, s).status # "none" /\ ~MovedTo(r, s).queued
               /\ MovedTo(r, s).tech = r.tech
    BY <2>1, JobsAreClean DEF MovedTo, IsJob, Columns
  <2>2. \A i \in S : IsJob(row[i]) /\ ~row[i].queued
    BY <1>3, RowsExist DEF Fair
  <2>. QED BY <2>1, <2>2 DEF KeepsTurns
<1>. HIDE DEF new, S
<1>. QED BY <1>2, <1>3, <1>4, <1>5, WritesEnd

(* The request that gives a job.                                           *)
LEMMA ApplyGives ==
  ASSUME VisitInv, Fair, NEW w \in Workers, Apply(w)
  PROVE  Fair'
<1>1. PICK j \in Existing : task[w].at = "apply" /\ task[w].todo = {j} /\ Newest(j)
                            /\ task[w].tech = TurnAfter(Existing \ {j})
  BY DEF Apply, Fair, Turn
<1>2. Least({j}) = j
  BY DEF Least
<1>3. InProgress = {j} /\ Given = Existing \ {j}
  BY <1>1, OnlyTheirs DEF Fair, Comes, Doing, Given
<1>4. \A k \in Given : row[k].tech \in Techs
  BY DEF Fair
<1>5. task[w].tech # NoTech
  <2>1. TurnAfter(Given) \in Techs
    BY <1>4, TurnFollows, TurnsInOrder, GivenAreJobs
  <2>. QED BY <1>1, <1>3, <2>1, ScheduleAssumption DEF Techs, NoTech
<1>. DEFINE copy == [task[w].copy EXCEPT ![j] = [@ EXCEPT !.tech = task[w].tech]]
            new == [row[j] EXCEPT !.tech = task[w].tech]
            t == [at |-> "accept", todo |-> DOMAIN copy, copy |-> copy]
<1>6. row' = [row EXCEPT ![j] = new] /\ task' = [task EXCEPT ![w] = t]
  <2>1. task[w].todo \ {j} = {}
    BY <1>1
  <2>. HIDE DEF Least
  <2>. QED BY <1>1, <1>2, <1>5, <2>1 DEF Apply, Become
<1>7. \A i \in DOMAIN copy : ~copy[i].queued
  <2>1. \A i \in DOMAIN task[w].copy : ~task[w].copy[i].queued /\ IsJob(task[w].copy[i])
    BY <1>1 DEF Fair, Unqueued, VisitInv, Keeps
  <2>. QED BY <2>1 DEF IsJob, Columns
<1>8. new.tech = task[w].tech /\ ~new.queued /\ new.status # "none"
  <2>1. IsJob(row[j]) /\ ~row[j].queued /\ row[j].status # "none"
    BY RowsExist, JobsAreClean DEF Fair
  <2>. QED BY <2>1 DEF IsJob, Columns
<1>9. t.at = "accept" /\ t.copy = copy
  OBVIOUS
<1>10. PICK u : u = t
  OBVIOUS
<1>. HIDE DEF copy, new, t
<1>11. \A i \in Jobs : row'[i] = IF i = j THEN new ELSE row[i]
  <2>1. row = [i \in Jobs |-> row[i]]
    BY DEF VisitInv, VisitsOK
  <2>. QED BY <1>6, <2>1
<1>12. Existing' = Existing
  BY <1>8, <1>11 DEF Existing
<1>13. Turn(u)' /\ Unqueued(u) /\ Doing(u) = {} /\ ~(u.at \in {"select", "apply"})
  BY <1>7, <1>9, <1>10 DEF Turn, Unqueued, Doing
<1>14. InProgress' = {}
  <2>1. \A v \in Workers : task'[v] = IF v = w THEN u ELSE task[v]
    <3>1. task = [v \in Workers |-> task[v]]
      BY DEF VisitInv
    <3>. QED BY <1>6, <1>10, <3>1, Zenon
  <2>2. \A v \in Workers : v # w => Doing(task[v]) = {}
    BY <1>1 DEF Fair, OneComes, Doing, Comes
  <2>3. \A v \in Workers : Doing(task[v])' = {}
    BY <1>13, <2>1, <2>2 DEF Doing
  <2>4. InProgress' = UNION {Doing(task[v])' : v \in Workers}
    BY DEF InProgress, Doing
  <2>. QED BY <2>3, <2>4
<1>15. GivesNext(j)
  <2>1. Given' = Given \cup {j} /\ j \notin Given
    BY <1>3, <1>12, <1>14 DEF Given
  <2>2. j \in Jobs /\ \A k \in Given : k <= j
    BY <1>1, GivenAreJobs, ExistingAreJobs DEF Newest
  <2>3. row'[j].tech = TurnAfter(Given)
    BY <1>1, <1>3, <1>8, <1>11, <2>2
  <2>. QED BY <2>1, <2>2, <2>3 DEF GivesNext
<1>16. \A k \in Given : row'[k].tech = row[k].tech
  BY <1>3, <1>11, GivenAreJobs
<1>17. \A k \in Existing' : ~row'[k].queued
  BY <1>8, <1>11, <1>12, ExistingAreJobs DEF Fair
<1>18. Comes(task[w]) /\ task' = [task EXCEPT ![w] = u]
  BY <1>1, <1>6, <1>10 DEF Comes
<1>. QED BY <1>13, <1>15, <1>16, <1>17, <1>18, FairComes

(* The number of the next job is above all the others.                     *)
LEMMA NextIsNewest ==
  ASSUME VisitInv
  PROVE  LET first == Cardinality(Existing) + 1 IN
         first \notin Existing /\ (\A k \in Existing : k <= first) /\ first..(first + 1 - 1) = {first}
<1>1. PICK n \in Nat : Existing = 1..n
  BY DEF VisitInv, VisitsOK
<1>2. Cardinality(Existing) = n
  BY <1>1, FS_Interval
<1>3. n + 1 \notin 1..n /\ (\A k \in 1..n : k <= n + 1) /\ (n + 1)..(n + 1 + 1 - 1) = {n + 1}
  OBVIOUS
<1>. QED BY <1>1, <1>2, <1>3

LEMMA InsertGives ==
  ASSUME VisitInv, Fair, NEW w \in Workers, Insert(w)
  PROVE  Fair'
<1>1. PICK first : first = Cardinality(Existing) + 1
  OBVIOUS
<1>2. PICK job : job = [NoRow EXCEPT !.status = "REQUESTED", !.tech = task[w].tech]
  OBVIOUS
<1>. DEFINE new == [j \in {first} |-> job]
            t == [at |-> "select", todo |-> {first}, copy |-> new]
<1>3. task[w].at = "insert" /\ task[w].breaks = 1 /\ Comes(task[w])
  BY DEF Insert, Fair, Turn, Comes
<1>4. first \notin Existing /\ (\A k \in Existing : k <= first) /\ first..(first + 1 - 1) = {first}
  BY <1>1, NextIsNewest
<1>5. /\ first \in Jobs /\ row' = [j \in Jobs |-> IF j \in {first} THEN job ELSE row[j]]
      /\ task' = [task EXCEPT ![w] = t]
  BY <1>1, <1>2, <1>3, <1>4 DEF Insert, Become
<1>6. job.status # "none" /\ ~job.queued
  BY <1>2 DEF NoRow
<1>7. t.at = "select" /\ t.todo = {first} /\ t.copy = new /\ \A j \in DOMAIN new : ~new[j].queued
  BY <1>6
<1>8. PICK u : u = t
  OBVIOUS
<1>. HIDE DEF new, t
<1>9. Existing' = Existing \cup {first} /\ \A j \in Jobs : row'[j] = IF j = first THEN job ELSE row[j]
  BY <1>5, <1>6 DEF Existing
<1>10. Newest(first)'
  <2>1. first \in Nat
    BY <1>5, JobsAreNaturals
  <2>. QED BY <1>4, <1>9, <2>1 DEF Newest
<1>11. Turn(u)' /\ Unqueued(u)
  <2>1. first \in Existing'
    BY <1>9
  <2>2. u.at = "select" /\ u.todo = {first} /\ u.copy = new
    BY <1>7, <1>8
  <2>. QED BY <1>7, <1>10, <2>1, <2>2 DEF Turn, Unqueued
<1>12. InProgress = {} /\ InProgress' = {first}
  <2>1. \A v \in Workers : task'[v] = IF v = w THEN u ELSE task[v]
    <3>1. task = [v \in Workers |-> task[v]]
      BY DEF VisitInv
    <3>. QED BY <1>5, <1>8, <3>1, Zenon
  <2>2. \A v \in Workers : v # w => Doing(task[v]) = {}
    BY <1>3 DEF Fair, OneComes, Doing, Comes
  <2>3. Doing(u) = {first} /\ Doing(task[w]) = {}
    BY <1>3, <1>7, <1>8 DEF Doing
  <2>4. \A v \in Workers : Doing(task[v])' = IF v = w THEN {first} ELSE {}
    BY <2>1, <2>2, <2>3 DEF Doing
  <2>5. /\ InProgress = UNION {Doing(task[v]) : v \in Workers}
        /\ InProgress' = UNION {Doing(task[v])' : v \in Workers}
    BY DEF InProgress, Doing
  <2>6. InProgress = {}
    BY <2>2, <2>3, <2>5
  <2>7. InProgress' = {first}
    BY <2>4, <2>5
  <2>. QED BY <2>6, <2>7
<1>13. GivesNone
  BY <1>4, <1>9, <1>12 DEF Given, GivesNone
<1>14. \A k \in Given : row'[k].tech = row[k].tech
  BY <1>4, <1>9, GivenAreJobs
<1>15. \A k \in Existing' : ~row'[k].queued
  BY <1>6, <1>9, <1>5, ExistingAreJobs DEF Fair
<1>16. task' = [task EXCEPT ![w] = u]
  BY <1>5, <1>8
<1>. QED BY <1>3, <1>11, <1>13, <1>14, <1>15, <1>16, FairComes

LEMMA InsertJobGives ==
  ASSUME VisitInv, Fair, NEW w \in Workers, InsertJob(w)
  PROVE  Fair'
<1>1. PICK first : first = Cardinality(Existing) + 1
  OBVIOUS
<1>2. PICK s, e : row' = [row EXCEPT ![first] =
                            [status |-> "OPEN", tech |-> task[w].tech, queued |-> task[w].queued,
                             start |-> s, end |-> e]]
  BY <1>1 DEF InsertJob
<1>3. PICK job : job = [status |-> "OPEN", tech |-> task[w].tech, queued |-> task[w].queued,
                        start |-> s, end |-> e]
  OBVIOUS
<1>4. /\ task[w].at = "create" /\ Comes(task[w]) /\ first \in Jobs
      /\ task' = [task EXCEPT ![w] = Idle]
  BY <1>1 DEF InsertJob, Become, Comes
<1>5. task[w].tech = TurnAfter(Existing) /\ ~task[w].queued
  BY <1>4 DEF Fair, Turn, Unqueued
<1>6. job.status # "none" /\ ~job.queued /\ job.tech = TurnAfter(Existing)
  BY <1>3, <1>5
<1>7. first \notin Existing /\ \A k \in Existing : k <= first
  BY <1>1, NextIsNewest
<1>8. \A j \in Jobs : row'[j] = IF j = first THEN job ELSE row[j]
  <2>1. row = [j \in Jobs |-> row[j]]
    BY DEF VisitInv, VisitsOK
  <2>2. row' = [row EXCEPT ![first] = job]
    BY <1>2, <1>3
  <2>. QED BY <2>1, <2>2
<1>9. Existing' = Existing \cup {first}
  BY <1>4, <1>6, <1>8 DEF Existing
<1>10. InProgress = {}
  BY <1>4, OnlyTheirs DEF Fair, Doing
<1>11. InProgress' = InProgress
  <2>1. Doing(Idle) = Doing(task[w])
    BY <1>4 DEF Doing, Idle
  <2>. QED BY <1>4, <2>1, SameInProgress DEF VisitInv
<1>12. GivesNext(first)
  <2>1. Given = Existing /\ Given' = Given \cup {first}
    BY <1>9, <1>10, <1>11 DEF Given
  <2>. QED BY <1>4, <1>6, <1>7, <1>8, <2>1 DEF GivesNext
<1>13. \A k \in Given : row'[k].tech = row[k].tech
  BY <1>7, <1>8, GivenAreJobs
<1>14. \A k \in Existing' : ~row'[k].queued
  BY <1>4, <1>6, <1>8, <1>9, ExistingAreJobs DEF Fair
<1>15. Turn(Idle)' /\ Unqueued(Idle)
  BY DEF Turn, Unqueued, Idle
<1>. QED BY <1>4, <1>12, <1>13, <1>14, <1>15, FairComes

LEMMA RoundInit == Init => RoundInv
<1>. SUFFICES ASSUME Init PROVE RoundInv
  OBVIOUS
<1>1. Existing = {}
  BY DEF Init, Existing, NoRow
<1>2. \A w \in Workers : task[w] = Idle
  BY DEF Init
<1>3. \A w \in Workers : ~Comes(task[w]) /\ Turn(task[w]) /\ Unqueued(task[w])
  BY <1>2, Elsewhere, IdleIsElsewhere
<1>4. Given = {}
  BY <1>1 DEF Given
<1>5. \A t \in Techs : JobsOf(t) = 0 /\ Ahead(t, LastOf(Given)) = 1
  <2>1. ASSUME NEW t \in Techs PROVE JobsOf(t) = 0
    <3>1. {j \in Existing \ InProgress : row[j].tech = t} = {}
      BY <1>1
    <3>. QED BY <3>1, FS_EmptySet DEF JobsOf
  <2>2. LastOf(Given) = NumTechs
    BY <1>4 DEF LastOf
  <2>3. \A t \in Techs : Ahead(t, NumTechs) = 1
    BY ScheduleAssumption DEF Techs, Ahead
  <2>. QED BY <2>1, <2>2, <2>3
<1>6. EvenTo(LastOf(Given))
  BY <1>5 DEF EvenTo
<1>. QED BY <1>1, <1>3, <1>4, <1>6, VisitInit DEF RoundInv, Fair, OneComes

LEMMA FairStep ==
  ASSUME VisitInv, Fair, ~uneven', shop.strategy = "round_robin", Next
  PROVE  Fair'
<1>0. PICK w \in Workers :
        \/ \E breaks \in 1..2 : RequestRepair(w, breaks)
        \/ Insert(w) \/ Select(w) \/ Apply(w) \/ Accept(w)
        \/ NewJob(w) \/ InsertJob(w)
        \/ \E j \in Jobs : Read(w, j) \/ Book(w, j) \/ Dispatch(w, j)
        \/ \E j, k \in Jobs : Swap(w, j, k)
        \/ \E S \in SUBSET Jobs : Bulk(w, S)
        \/ Save(w) \/ Acquire(w)
        \/ Confirm(w) \/ ApplyDispatch(w) \/ TradePlaces(w) \/ SaveBulk(w)
        \/ Refuse(w) \/ Deadlocked(w) \/ Crash(w)
  BY DEF Next
<1>1. ASSUME NEW breaks \in 1..2, RequestRepair(w, breaks) PROVE Fair'
  BY <1>1, RequestRests
<1>2. CASE Insert(w)
  BY <1>2, InsertGives
<1>3. CASE Select(w)
  BY <1>3, SelectRests
<1>4. CASE Apply(w)
  BY <1>4, ApplyGives
<1>5. CASE Accept(w)
  BY <1>5, AcceptRests
<1>6. CASE NewJob(w)
  BY <1>6, NewJobRests
<1>7. CASE InsertJob(w)
  BY <1>7, InsertJobGives
<1>8. ASSUME NEW j \in Jobs, Read(w, j) PROVE Fair'
  BY <1>8, ReadRests
<1>9. ASSUME NEW j \in Jobs, Book(w, j) \/ Dispatch(w, j) PROVE Fair'
  <2>1. PICK op : Lock(w, op, Visit(j), j)
    BY <1>9 DEF Book, Dispatch
  <2>2. Visit(j) \in SUBSET Existing
    BY DEF Visit
  <2>. QED BY <2>1, <2>2, LockRests
<1>10. ASSUME NEW j \in Jobs, NEW k \in Jobs, Swap(w, j, k) PROVE Fair'
  <2>1. {j, k} \in SUBSET Existing /\ Lock(w, "swap", {j, k}, j)
    BY <1>10 DEF Swap
  <2>. QED BY <2>1, LockRests
<1>11. ASSUME NEW S \in SUBSET Jobs, Bulk(w, S) PROVE Fair'
  <2>1. PICK j \in S : \E op \in Unlocked : S \subseteq Existing /\ Lock(w, op, S, j)
    BY <1>11 DEF Bulk
  <2>. QED BY <2>1, LockRests
<1>12. CASE Save(w)
  BY <1>12, SaveRests
<1>13. CASE Acquire(w)
  BY <1>13, AcquireRests
<1>14. CASE Confirm(w)
  BY <1>14, ConfirmRests
<1>15. CASE ApplyDispatch(w)
  BY <1>15, DispatchRests
<1>16. CASE TradePlaces(w)
  BY <1>16, SwapRests
<1>17. CASE SaveBulk(w)
  BY <1>17, SaveBulkRests
<1>18. CASE Refuse(w) \/ Deadlocked(w) \/ Crash(w)
  BY <1>18, StopRests
<1>. QED BY <1>0, <1>1, <1>2, <1>3, <1>4, <1>5, <1>6, <1>7, <1>8, <1>9, <1>10, <1>11, <1>12,
            <1>13, <1>14, <1>15, <1>16, <1>17, <1>18

(* The strategy of a shop is not changed here, and what has disturbed the  *)
(* rotation stays noted.                                                   *)
LEMMA DisturbanceStays ==
  ASSUME Next
  PROVE  shop' = shop /\ (uneven => uneven')
<1>0. PICK w \in Workers :
        \/ \E breaks \in 1..2 : RequestRepair(w, breaks)
        \/ Insert(w) \/ Select(w) \/ Apply(w) \/ Accept(w)
        \/ NewJob(w) \/ InsertJob(w)
        \/ \E j \in Jobs : Read(w, j) \/ Book(w, j) \/ Dispatch(w, j)
        \/ \E j, k \in Jobs : Swap(w, j, k)
        \/ \E S \in SUBSET Jobs : Bulk(w, S)
        \/ Save(w) \/ Acquire(w)
        \/ Confirm(w) \/ ApplyDispatch(w) \/ TradePlaces(w) \/ SaveBulk(w)
        \/ Refuse(w) \/ Deadlocked(w) \/ Crash(w)
  BY DEF Next
<1>1. ASSUME NEW breaks \in 1..2, RequestRepair(w, breaks) PROVE shop' = shop /\ (uneven => uneven')
  BY <1>1, Zenon DEF RequestRepair, NotesRotation
<1>2. CASE Insert(w) \/ Select(w) \/ Apply(w) \/ InsertJob(w) \/ Acquire(w) \/ Confirm(w)
           \/ TradePlaces(w) \/ Refuse(w) \/ Deadlocked(w)
  <2>1. shop' = shop /\ uneven' = uneven
    BY <1>2 DEF Insert, Select, Apply, InsertJob, Acquire, Confirm, TradePlaces, Refuse, Deadlocked
  <2>. QED BY <2>1, Zenon
<1>3. CASE NewJob(w)
  BY <1>3, Zenon DEF NewJob, NotesRotation
<1>4. CASE Accept(w) \/ Save(w) \/ SaveBulk(w)
  <2>1. shop' = shop /\ \E S, new : Writes(S, new)
    BY <1>4, Zenon DEF Accept, Save, SaveBulk
  <2>. QED BY <2>1, Zenon DEF Writes
<1>5. CASE ApplyDispatch(w)
  <2>1. shop' = shop /\ \E b : uneven' = (uneven \/ b)
    BY <1>5, Zenon DEF ApplyDispatch
  <2>. QED BY <2>1, Zenon
<1>6. CASE Crash(w)
  BY <1>6, Zenon DEF Crash
<1>7. CASE \/ \E j \in Jobs : Read(w, j) \/ Book(w, j) \/ Dispatch(w, j)
           \/ \E j, k \in Jobs : Swap(w, j, k)
           \/ \E S \in SUBSET Jobs : Bulk(w, S)
  <2>1. (\E j \in Jobs : Read(w, j)) \/ \E op, S, named : Lock(w, op, S, named)
    BY <1>7, Zenon DEF Book, Dispatch, Swap, Bulk
  <2>2. shop' = shop /\ uneven' = uneven
    BY <2>1 DEF Read, Lock
  <2>. QED BY <2>2, Zenon
<1>. QED BY <1>0, <1>1, <1>2, <1>3, <1>4, <1>5, <1>6, <1>7

LEMMA RoundStep == RoundInv /\ [Next]_vars => RoundInv'
<1>. SUFFICES ASSUME RoundInv, [Next]_vars PROVE RoundInv'
  OBVIOUS
<1>1. VisitInv'
  BY VisitStep DEF RoundInv
<1>2. CASE UNCHANGED vars
  <2>1. row' = row /\ task' = task /\ shop' = shop /\ uneven' = uneven
    BY <1>2 DEF vars
  <2>2. SUFFICES ASSUME Fair PROVE Fair'
    BY <1>1, <2>1, Zenon DEF RoundInv
  <2>3. Existing' = Existing /\ Given' = Given
    BY <2>1 DEF Given, Existing, InProgress
  <2>4. (\A j \in Given' : row'[j].tech \in Techs) /\ EvenTo(LastOf(Given))'
    BY <2>1, <2>2, <2>3, EvenStays DEF Fair
  <2>5. ASSUME NEW w \in Workers PROVE Turn(task[w])' /\ Unqueued(task[w])'
    <3>1. PICK t : t = task[w]
      OBVIOUS
    <3>2. Turn(t) /\ Unqueued(t) /\ task'[w] = t
      BY <2>1, <2>2, <3>1 DEF Fair
    <3>3. Turn(t)'
      BY <2>1, <2>3, <3>2, TurnStays
    <3>. QED BY <3>2, <3>3 DEF Turn, Unqueued
  <2>6. OneComes'
    BY <2>1, <2>2 DEF Fair, OneComes, Comes
  <2>7. \A j \in Existing' : ~row'[j].queued
    BY <2>1, <2>2, <2>3 DEF Fair
  <2>. QED BY <2>4, <2>5, <2>6, <2>7 DEF Fair
<1>3. CASE Next
  BY <1>1, <1>3, FairStep, DisturbanceStays DEF RoundInv
<1>. QED BY <1>2, <1>3

(* If all are even up to the last, no share is two above another.          *)
LEMMA FairIsEven == RoundInv => RotationEven
<1>. SUFFICES ASSUME Fair, NEW t \in Techs, NEW u \in Techs PROVE JobsOf(t) <= JobsOf(u) + 1
  BY DEF RoundInv, RotationEven
<1>1. JobsOf(t) \in Nat /\ JobsOf(u) \in Nat
  BY SharesAreNaturals
<1>2. PICK a, b : a = Ahead(t, LastOf(Given)) /\ b = Ahead(u, LastOf(Given))
  OBVIOUS
<1>3. a \in 0..1 /\ b \in 0..1
  BY <1>2 DEF Ahead
<1>4. JobsOf(t) - a = JobsOf(u) - b
  BY <1>2 DEF Fair, EvenTo
<1>. HIDE DEF JobsOf
<1>. QED BY <1>1, <1>3, <1>4

(* A shop that rotates gives its technicians the same number of jobs, or   *)
(* one more, whatever is booked, dispatched, swapped and saved meanwhile,  *)
(* while jobs come one by one and nobody is picked                         *)
(* (apps/tenants/services/repair_assignment.py).                           *)
THEOREM RotationIsEven == Spec => []RotationEven
BY RoundInit, RoundStep, FairIsEven, PTL DEF Spec

-----------------------------------------------------------------------------
(* Types                                                                   *)

SelectTask(S) == [at : {"select", "accept"}, todo : SUBSET S, copy : [S -> Row]]
ApplyTask(S) == [at : {"apply"}, todo : SUBSET S, copy : [S -> Row], tech : Techs \cup {NoTech}]
LockTask(S) == [at : {"lock"}, op : {"book", "dispatch", "swap", "bulk", "reassign"},
                jobs : {S}, named : S, next : S, holds : SUBSET S, copy : [S -> Row]]

(* Where a request stands says what it carries.                            *)
LEMMA TaskKinds ==
  ASSUME NEW t, TaskOK(t)
  PROVE  /\ t.at = "insert" => t \in [at : {"insert"}, breaks : 1..2, tech : Techs]
         /\ t.at = "create" => t \in [at : {"create"}, tech : Techs, queued : BOOLEAN]
         /\ t.at = "save" => t \in [at : {"save"}, job : Jobs, copy : Row]
         /\ t.at \in {"select", "accept"} => \E S \in SUBSET Jobs : t \in SelectTask(S)
         /\ t.at = "apply" => \E S \in SUBSET Jobs : t \in ApplyTask(S)
         /\ t.at = "lock" => \E S \in SUBSET Jobs : t \in LockTask(S)
BY DEF TaskOK, Idle, SelectTask, ApplyTask, LockTask

LEMMA TasksOK ==
  ASSUME NEW t, NEW S \in SUBSET Jobs, t \in SelectTask(S) \cup ApplyTask(S) \cup LockTask(S)
  PROVE  TaskOK(t)
BY DEF TaskOK, SelectTask, ApplyTask, LockTask

LEMMA IdleOK == TaskOK(Idle)
BY DEF TaskOK

Moved(w, t) ==
  /\ task' = [task EXCEPT ![w] = t] /\ TaskOK(t)
  /\ requests' \in Nat

(* Only the request itself moves.                                          *)
LEMMA TypeMoves ==
  ASSUME TypeOK, NEW w \in Workers, NEW t, VisitInv, Moved(w, t),
         row' \in [Jobs -> Row], visit' \in [Jobs -> Jobs], shop' = shop,
         apart' \subseteq Jobs, uneven' \in BOOLEAN, faults' \in Nat
  PROVE  TypeOK'
<1>1. task = [v \in Workers |-> task[v]]
  BY DEF VisitInv
<1>2. task' = [v \in Workers |-> IF v = w THEN t ELSE task[v]]
  BY <1>1 DEF Moved
<1>3. \A v \in Workers : TaskOK(task'[v])
  BY <1>2 DEF Moved, TypeOK
<1>4. DOMAIN task' = Workers
  BY <1>2
<1>5. \A v \in Workers : TaskOK(task[v])'
  BY <1>3 DEF TaskOK
<1>. QED BY <1>4, <1>5 DEF TypeOK, Moved

LEMMA NothingTyped ==
  ASSUME TypeOK, NEW w \in Workers, NEW t, VisitInv, Moved(w, t),
         UNCHANGED <<row, visit, shop, apart>>, uneven' \in BOOLEAN, faults' \in Nat
  PROVE  TypeOK'
<1>1. row \in [Jobs -> Row] /\ visit \in [Jobs -> Jobs] /\ apart \subseteq Jobs
  BY DEF TypeOK
<1>. QED BY <1>1, TypeMoves

LEMMA RequestsNatural ==
  ASSUME TypeOK, NEW w, NEW t, Starting(w, t) \/ Become(w, t)
  PROVE  requests' \in Nat /\ task' = [task EXCEPT ![w] = t]
BY DEF TypeOK, Starting, Become

LEMMA OverwriteTyped ==
  ASSUME TypeOK, NEW S \in SUBSET Jobs, NEW new, \A j \in S : new[j] \in Row,
         row' = [j \in Jobs |-> IF j \in S THEN new[j] ELSE row[j]]
  PROVE  row' \in [Jobs -> Row]
BY DEF TypeOK

LEMMA WritesTyped ==
  ASSUME TypeOK, NEW S \in SUBSET Jobs, NEW new, \A j \in S : new[j] \in Row, Writes(S, new)
  PROVE  row' \in [Jobs -> Row] /\ apart' \subseteq Jobs /\ uneven' \in BOOLEAN
<1>1. row' \in [Jobs -> Row]
  BY OverwriteTyped DEF Writes
<1>2. apart' \subseteq Jobs
  BY DEF Writes, TypeOK
<1>3. uneven' \in BOOLEAN
  BY DEF Writes
<1>. QED BY <1>1, <1>2, <1>3

(* Somebody has the fewest open jobs, and the smallest id of those.        *)
LEMMA LowestIsTech ==
  ASSUME NEW except
  PROVE  LowestWorkload(except) \in Techs
<1>. DEFINE loads == {Load(t, except) : t \in Techs}
<1>1. Techs \subseteq Nat /\ Techs # {}
  BY ScheduleAssumption DEF Techs
<1>2. \A t \in Techs : Load(t, except) \in Nat
  <2>1. SUFFICES ASSUME NEW t \in Techs PROVE Load(t, except) \in Nat
    OBVIOUS
  <2>2. {j \in Active(except) : row[j].tech = t} \subseteq Jobs
    BY DEF Active, Existing
  <2>. QED BY <2>2, JobsAreFinite, FS_Subset, FS_CardinalityType DEF Load
<1>3. PICK least \in loads : \A l \in loads : least <= l
  <2>1. loads \in SUBSET Nat /\ loads # {}
    BY <1>1, <1>2
  <2>. HIDE DEF loads
  <2>. QED BY <2>1, LeastIsLeast
<1>. DEFINE those == {t \in Techs : Load(t, except) = least}
<1>4. PICK t \in those : \A u \in those : t <= u
  <2>1. those \in SUBSET Nat /\ those # {}
    BY <1>1, <1>3
  <2>. HIDE DEF those
  <2>. QED BY <2>1, LeastIsLeast
<1>5. \A u \in Techs : \/ Load(t, except) < Load(u, except)
                       \/ Load(t, except) = Load(u, except) /\ t <= u
  <2>1. SUFFICES ASSUME NEW u \in Techs, Load(u, except) # least
                 PROVE  Load(t, except) < Load(u, except)
    BY <1>4
  <2>2. Load(t, except) = least /\ least <= Load(u, except)
    BY <1>3, <1>4
  <2>3. Load(t, except) \in Nat /\ Load(u, except) \in Nat
    BY <1>2, <1>4
  <2>. QED BY <2>1, <2>2, <2>3
<1>. QED BY <1>4, <1>5 DEF LowestWorkload

LEMMA SelectedIsTech ==
  ASSUME TypeOK, NEW except
  PROVE  Selected(except) \in Techs \cup {NoTech}
<1>1. shop.primary \in Techs \cup {NoTech}
  BY ScheduleAssumption DEF TypeOK
<1>2. shop.strategy \in {"manual", "primary_first", "auto", "round_robin"}
  BY ScheduleAssumption DEF TypeOK, AllStrategies
<1>3. Rotation(except) \in Techs
  <2>. DEFINE given == {j \in Existing \ except : ~row[j].queued}
  <2>1. 1 \in Techs /\ NumTechs \in Nat \ {0}
    BY ScheduleAssumption DEF Techs
  <2>2. given # {} => row[Greatest(given)].tech \in Techs \cup {NoTech}
    <3>1. given # {} => Greatest(given) \in Jobs
      BY GreatestIn, ExistingAreJobs
    <3>2. \A j \in Jobs : row[j].tech \in Techs \cup {NoTech}
      BY DEF TypeOK, Row
    <3>. HIDE DEF given
    <3>. QED BY <3>1, <3>2
  <2>. HIDE DEF given
  <2>3. PICK n : n = row[Greatest(given)].tech
    OBVIOUS
  <2>4. n \in Techs \cup {NoTech} => (n % NumTechs) + 1 \in Techs
    <3>1. CASE n = NoTech
      <4>1. 0 % NumTechs = 0
        BY <2>1
      <4>. QED BY <2>1, <3>1, <4>1 DEF NoTech
    <3>2. CASE n \in Techs
      BY <3>2, TurnsInOrder
    <3>. QED BY <3>1, <3>2
  <2>5. TurnAfter(given) \in Techs
    BY <2>1, <2>2, <2>3, <2>4 DEF TurnAfter
  <2>. QED BY <2>5 DEF Rotation, given
<1>4. LowestWorkload(except) \in Techs
  BY LowestIsTech
<1>. QED BY <1>1, <1>2, <1>3, <1>4 DEF Selected

LEMMA NoteTyped ==
  ASSUME NEW w, NEW disturbed, NotesRotation(w, disturbed)
  PROVE  uneven' \in BOOLEAN
BY DEF NotesRotation

LEMMA RequestTyped ==
  ASSUME VisitInv, TypeOK, NEW w \in Workers, NEW breaks \in 1..2, RequestRepair(w, breaks)
  PROVE  TypeOK'
<1>1. PICK tech : tech = LowestWorkload({})
  OBVIOUS
<1>. DEFINE t == [at |-> "insert", breaks |-> breaks, tech |-> tech]
<1>2. Starting(w, t) /\ UNCHANGED <<row, visit, shop, apart, faults>>
  BY <1>1 DEF RequestRepair
<1>3. TaskOK(t)
  <2>1. t \in [at : {"insert"}, breaks : 1..2, tech : Techs]
    BY <1>1, LowestIsTech
  <2>. HIDE DEF t
  <2>. QED BY <2>1 DEF TaskOK
<1>4. uneven' \in BOOLEAN
  <2>1. NotesRotation(w, breaks > 1)
    BY DEF RequestRepair
  <2>. QED BY <2>1, NoteTyped
<1>. HIDE DEF t
<1>5. Moved(w, t)
  BY <1>2, <1>3, RequestsNatural DEF Moved
<1>. QED BY <1>2, <1>4, <1>5, NothingTyped DEF TypeOK

LEMMA InsertTyped ==
  ASSUME VisitInv, TypeOK, NEW w \in Workers, Insert(w)
  PROVE  TypeOK'
<1>1. PICK first : first = Cardinality(Existing) + 1
  OBVIOUS
<1>2. PICK S : S = first..(first + task[w].breaks - 1)
  OBVIOUS
<1>3. PICK job : job = [NoRow EXCEPT !.status = "REQUESTED", !.tech = task[w].tech]
  OBVIOUS
<1>. DEFINE new == [j \in S |-> job]
            t == [at |-> "select", todo |-> S, copy |-> new]
<1>4. /\ task[w].at = "insert" /\ S \subseteq Jobs /\ Become(w, t)
      /\ row' = [j \in Jobs |-> IF j \in S THEN job ELSE row[j]]
      /\ visit' = [j \in Jobs |-> IF j \in S THEN first ELSE visit[j]]
      /\ UNCHANGED <<shop, apart, uneven, faults>>
  BY <1>1, <1>2, <1>3 DEF Insert
<1>5. task[w].breaks \in 1..2 /\ task[w].tech \in Techs
  BY <1>4, TaskKinds DEF TypeOK
<1>6. first \in S
  BY <1>1, <1>2, <1>5, NumbersGoOn
<1>7. job \in Row
  BY <1>3, <1>5 DEF Row, NoRow, Status
<1>8. new \in [S -> Row] /\ \A j \in S : new[j] = job
  BY <1>7
<1>9. TaskOK(t)
  <2>1. t \in SelectTask(S)
    BY <1>8 DEF SelectTask
  <2>. HIDE DEF t, new
  <2>. QED BY <1>4, <2>1, TasksOK
<1>10. row' \in [Jobs -> Row] /\ visit' \in [Jobs -> Jobs]
  BY <1>4, <1>6, <1>7 DEF TypeOK
<1>. HIDE DEF t, new
<1>11. Moved(w, t)
  BY <1>4, <1>9, RequestsNatural DEF Moved
<1>. QED BY <1>4, <1>10, <1>11, TypeMoves DEF TypeOK

LEMMA SelectTyped ==
  ASSUME VisitInv, TypeOK, NEW w \in Workers, Select(w)
  PROVE  TypeOK'
<1>1. PICK tech : tech = Selected({Least(task[w].todo)})
  OBVIOUS
<1>. DEFINE t == [at |-> "apply", todo |-> task[w].todo, copy |-> task[w].copy, tech |-> tech]
<1>2. task[w].at = "select" /\ Become(w, t) /\ UNCHANGED <<row, visit, shop, apart, uneven, faults>>
  BY <1>1 DEF Select
<1>3. tech \in Techs \cup {NoTech}
  BY <1>1, SelectedIsTech
<1>4. PICK S \in SUBSET Jobs : task[w] \in SelectTask(S)
  BY <1>2, TaskKinds DEF TypeOK
<1>5. TaskOK(t)
  <2>1. t \in ApplyTask(S)
    BY <1>3, <1>4 DEF SelectTask, ApplyTask
  <2>. HIDE DEF t
  <2>. QED BY <2>1, TasksOK
<1>. HIDE DEF t
<1>6. Moved(w, t)
  BY <1>2, <1>5, RequestsNatural DEF Moved
<1>. QED BY <1>2, <1>6, NothingTyped DEF TypeOK

LEMMA ApplyTyped ==
  ASSUME VisitInv, TypeOK, NEW w \in Workers, Apply(w)
  PROVE  TypeOK'
<1>1. task[w].at = "apply" /\ UNCHANGED <<visit, shop, apart, uneven, faults>>
  BY DEF Apply
<1>2. PICK S \in SUBSET Jobs : task[w] \in ApplyTask(S)
  BY <1>1, TaskKinds DEF TypeOK
<1>3. PICK todo \in SUBSET S, old \in [S -> Row], tech \in Techs \cup {NoTech} :
        todo = task[w].todo /\ old = task[w].copy /\ tech = task[w].tech
  BY <1>2 DEF ApplyTask
<1>4. PICK j : j = Least(todo)
  OBVIOUS
<1>5. j \in S /\ j \in Jobs
  <2>1. todo # {} /\ todo \subseteq Existing
    BY <1>1, <1>3 DEF VisitInv, Keeps
  <2>. QED BY <1>3, <1>4, <2>1, LeastOfTodo
<1>. DEFINE assigned(r) == IF tech = NoTech THEN [r EXCEPT !.queued = TRUE] ELSE [r EXCEPT !.tech = tech]
            rest == todo \ {j}
            copy == [old EXCEPT ![j] = assigned(@)]
            t == IF rest # {} THEN [at |-> "select", todo |-> rest, copy |-> copy]
                 ELSE [at |-> "accept", todo |-> DOMAIN copy, copy |-> copy]
<1>6. Become(w, t) /\ row' = [row EXCEPT ![j] = assigned(@)]
  BY <1>3, <1>4 DEF Apply
<1>7. ASSUME NEW r \in Row PROVE assigned(r) \in Row
  BY DEF Row
<1>. HIDE DEF assigned
<1>8. copy \in [S -> Row] /\ row' \in [Jobs -> Row]
  BY <1>3, <1>5, <1>6, <1>7 DEF TypeOK
<1>9. TaskOK(t)
  <2>. HIDE DEF copy
  <2>1. t \in SelectTask(S)
    BY <1>3, <1>8 DEF SelectTask
  <2>. HIDE DEF t
  <2>. QED BY <2>1, TasksOK
<1>. HIDE DEF t
<1>10. Moved(w, t)
  BY <1>6, <1>9, RequestsNatural DEF Moved
<1>. QED BY <1>1, <1>8, <1>10, TypeMoves DEF TypeOK

LEMMA AcceptTyped ==
  ASSUME VisitInv, TypeOK, NEW w \in Workers, Accept(w)
  PROVE  TypeOK'
<1>1. task[w].at = "accept" /\ UNCHANGED <<visit, shop, faults>>
  BY DEF Accept
<1>2. PICK S \in SUBSET Jobs : task[w] \in SelectTask(S)
  BY <1>1, TaskKinds DEF TypeOK
<1>3. PICK todo \in SUBSET S, old \in [S -> Row] : todo = task[w].todo /\ old = task[w].copy
  BY <1>2 DEF SelectTask
<1>4. PICK j : j = Least(todo)
  OBVIOUS
<1>5. j \in S /\ j \in Jobs
  <2>1. todo # {} /\ todo \subseteq Existing
    BY <1>1, <1>3 DEF VisitInv, Keeps
  <2>. QED BY <1>3, <1>4, <2>1, LeastOfTodo
<1>. DEFINE new == [old EXCEPT ![j].status = "OPEN"]
            t == IF todo \ {j} = {} THEN Idle ELSE [task[w] EXCEPT !.todo = todo \ {j}]
<1>6. Writes({j}, new) /\ Become(w, t)
  BY <1>3, <1>4 DEF Accept
<1>7. new[j] \in Row
  <2>1. old[j] \in Row /\ "OPEN" \in Status
    BY <1>3, <1>5 DEF Status
  <2>2. new[j] = [old[j] EXCEPT !.status = "OPEN"]
    BY <1>3, <1>5
  <2>. HIDE DEF new
  <2>. QED BY <2>1, <2>2 DEF Row
<1>8. TaskOK(t)
  <2>1. CASE todo \ {j} = {}
    BY <2>1, IdleOK
  <2>2. CASE todo \ {j} # {}
    <3>1. t \in SelectTask(S)
      BY <1>2, <1>3, <2>2 DEF SelectTask
    <3>. HIDE DEF t
    <3>. QED BY <3>1, TasksOK
  <2>. QED BY <2>1, <2>2
<1>. HIDE DEF t, new
<1>9. Moved(w, t)
  BY <1>6, <1>8, RequestsNatural DEF Moved
<1>10. row' \in [Jobs -> Row] /\ apart' \subseteq Jobs /\ uneven' \in BOOLEAN
  BY <1>5, <1>6, <1>7, WritesTyped
<1>. QED BY <1>1, <1>9, <1>10, TypeMoves DEF TypeOK

LEMMA EndsTyped ==
  ASSUME TypeOK, NEW w, Become(w, Idle)
  PROVE  Moved(w, Idle)
BY IdleOK, RequestsNatural DEF Moved

LEMMA NewJobTyped ==
  ASSUME VisitInv, TypeOK, NEW w \in Workers, NewJob(w)
  PROVE  TypeOK'
<1>1. PICK c \in Choices :
        /\ Starting(w, [at |-> "create", tech |-> c.tech, queued |-> c.queued])
        /\ NotesRotation(w, c.byHand)
  BY DEF NewJob
<1>2. c.tech \in Techs /\ c.queued \in BOOLEAN
  <2>1. PICK tech : tech = Selected({})
    OBVIOUS
  <2>2. tech \in Techs \cup {NoTech}
    BY <2>1, SelectedIsTech
  <2>3. CASE c \in [tech : Techs, queued : {FALSE}, byHand : {TRUE}]
                   \cup [tech : Techs, queued : {TRUE}, byHand : {FALSE}]
    BY <2>3
  <2>4. CASE tech # NoTech /\ c = [tech |-> tech, queued |-> FALSE, byHand |-> FALSE]
    BY <2>2, <2>4
  <2>. QED BY <2>1, <2>3, <2>4 DEF Choices
<1>. DEFINE t == [at |-> "create", tech |-> c.tech, queued |-> c.queued]
<1>3. TaskOK(t)
  <2>1. t \in [at : {"create"}, tech : Techs, queued : BOOLEAN]
    BY <1>2
  <2>. HIDE DEF t
  <2>. QED BY <2>1 DEF TaskOK
<1>4. Starting(w, t) /\ UNCHANGED <<row, visit, shop, apart, faults>>
  BY <1>1 DEF NewJob
<1>5. uneven' \in BOOLEAN
  BY <1>1, NoteTyped
<1>. HIDE DEF t
<1>6. Moved(w, t)
  BY <1>3, <1>4, RequestsNatural DEF Moved
<1>. QED BY <1>4, <1>5, <1>6, NothingTyped DEF TypeOK

LEMMA WindowsAreTimes ==
  ASSUME NEW s \in Starts \cup {NoTime}
  PROVE  WindowEnds(s) \subseteq Int
<1>1. CASE s = NoTime
  BY <1>1 DEF WindowEnds
<1>2. CASE s # NoTime
  BY <1>2, ScheduleAssumption DEF WindowEnds
<1>. QED BY <1>1, <1>2

LEMMA InsertJobTyped ==
  ASSUME VisitInv, TypeOK, NEW w \in Workers, InsertJob(w)
  PROVE  TypeOK'
<1>1. PICK s \in Starts \cup {NoTime}, first \in Jobs :
        \E e \in WindowEnds(s) \cup {NoTime} :
          row' = [row EXCEPT ![first] =
                   [status |-> "OPEN", tech |-> task[w].tech, queued |-> task[w].queued,
                    start |-> s, end |-> e]]
  BY DEF InsertJob
<1>0. PICK e \in WindowEnds(s) \cup {NoTime} :
        row' = [row EXCEPT ![first] =
                 [status |-> "OPEN", tech |-> task[w].tech, queued |-> task[w].queued,
                  start |-> s, end |-> e]]
  BY <1>1
<1>2. /\ task[w].at = "create" /\ Become(w, Idle)
      /\ UNCHANGED <<visit, shop, apart, uneven, faults>>
  BY DEF InsertJob
<1>3. task[w].tech \in Techs /\ task[w].queued \in BOOLEAN
  BY <1>2, TaskKinds DEF TypeOK
<1>4. e \in Int \cup {NoTime}
  BY WindowsAreTimes
<1>5. row' \in [Jobs -> Row]
  <2>. DEFINE job == [status |-> "OPEN", tech |-> task[w].tech, queued |-> task[w].queued,
                      start |-> s, end |-> e]
  <2>1. job \in Row
    BY <1>3, <1>4 DEF Row, Status
  <2>2. row' = [row EXCEPT ![first] = job]
    BY <1>0
  <2>. HIDE DEF job
  <2>. QED BY <2>1, <2>2 DEF TypeOK
<1>6. Moved(w, Idle)
  BY <1>2, EndsTyped
<1>. QED BY <1>2, <1>5, <1>6, TypeMoves DEF TypeOK

LEMMA ReadTyped ==
  ASSUME VisitInv, TypeOK, NEW w \in Workers, NEW j \in Jobs, Read(w, j)
  PROVE  TypeOK'
<1>. DEFINE t == [at |-> "save", job |-> j, copy |-> row[j]]
<1>1. Starting(w, t) /\ UNCHANGED <<row, visit, shop, apart, uneven, faults>>
  BY DEF Read
<1>2. TaskOK(t)
  <2>1. row[j] \in Row
    BY DEF TypeOK
  <2>2. t \in [at : {"save"}, job : Jobs, copy : Row]
    BY <2>1
  <2>. HIDE DEF t
  <2>. QED BY <2>2 DEF TaskOK
<1>. HIDE DEF t
<1>3. Moved(w, t)
  BY <1>1, <1>2, RequestsNatural DEF Moved
<1>. QED BY <1>1, <1>3, NothingTyped DEF TypeOK

LEMMA LockTyped ==
  ASSUME VisitInv, TypeOK, NEW w \in Workers, NEW S \in SUBSET Existing, NEW j \in S,
         NEW op \in {"book", "dispatch", "swap", "bulk", "reassign"}, Lock(w, op, S, j)
  PROVE  TypeOK'
<1>0. S \in SUBSET Jobs
  BY ExistingAreJobs
<1>1. PICK first : first = FirstLocked(op, S, j)
  OBVIOUS
<1>2. Least(S) \in S
  BY LeastOfTodo
<1>3. first \in S
  BY <1>1, <1>2 DEF FirstLocked
<1>4. PICK named : named = IF op = "dispatch" THEN j ELSE Least(S)
  OBVIOUS
<1>5. named \in S
  BY <1>2, <1>4
<1>. DEFINE copy == [k \in S |-> IF op \in Unlocked THEN row[k] ELSE NoRow]
            t == [at |-> "lock", op |-> op, jobs |-> S, holds |-> {}, next |-> first,
                  named |-> named, copy |-> copy]
<1>6. Starting(w, t) /\ UNCHANGED <<row, visit, shop, apart, uneven, faults>>
  BY <1>1, <1>4 DEF Lock
<1>7. copy \in [S -> Row]
  <2>1. NoRow \in Row
    BY DEF NoRow, Row, Status
  <2>. QED BY <1>0, <2>1 DEF TypeOK
<1>8. TaskOK(t)
  <2>. HIDE DEF copy
  <2>1. t \in LockTask(S)
    BY <1>3, <1>5, <1>7 DEF LockTask
  <2>. HIDE DEF t
  <2>. QED BY <1>0, <2>1, TasksOK
<1>. HIDE DEF t
<1>9. Moved(w, t)
  BY <1>6, <1>8, RequestsNatural DEF Moved
<1>. QED BY <1>6, <1>9, NothingTyped DEF TypeOK

LEMMA AcquireTyped ==
  ASSUME VisitInv, TypeOK, NEW w \in Workers, Acquire(w)
  PROVE  TypeOK'
<1>1. PICK t : t = task[w]
  OBVIOUS
<1>2. t.at = "lock" /\ UNCHANGED <<row, visit, shop, apart, uneven, faults>>
  BY <1>1 DEF Acquire
<1>3. PICK S \in SUBSET Jobs : t \in LockTask(S)
  BY <1>1, <1>2, TaskKinds DEF TypeOK
<1>4. t.jobs = S /\ t.next \in S /\ t.holds \subseteq S
  BY <1>3 DEF LockTask
<1>5. PICK holds : holds = t.holds \cup {t.next}
  OBVIOUS
<1>6. PICK rest : rest = t.jobs \ holds
  OBVIOUS
<1>7. PICK j \in IF rest = {} THEN {t.next}
                ELSE IF t.op \in Unlocked THEN rest ELSE {Least(rest)} :
        Become(w, [[t EXCEPT !.holds = holds] EXCEPT !.next = j])
  BY <1>1, <1>5, <1>6 DEF Acquire
<1>8. j \in S
  <2>1. rest \subseteq Existing
    BY <1>1, <1>2, <1>6 DEF VisitInv, Keeps
  <2>2. rest # {} => Least(rest) \in rest
    BY <2>1, LeastOfTodo
  <2>. QED BY <1>4, <1>6, <1>7, <2>2
<1>. DEFINE u == [[t EXCEPT !.holds = holds] EXCEPT !.next = j]
<1>9. TaskOK(u)
  <2>1. u \in LockTask(S)
    BY <1>3, <1>4, <1>5, <1>8 DEF LockTask
  <2>. HIDE DEF u
  <2>. QED BY <2>1, TasksOK
<1>. HIDE DEF u
<1>10. Moved(w, u)
  BY <1>7, <1>9, RequestsNatural DEF Moved, u
<1>. QED BY <1>2, <1>10, NothingTyped DEF TypeOK

LEMMA SettledTyped ==
  ASSUME NEW r \in Row, NEW t \in Techs \cup {NoTech}
  PROVE  Settled(r, t) \in Row
<1>1. PICK q \in BOOLEAN : q = (r.queued /\ r.tech = t)
  OBVIOUS
<1>2. Settled(r, t) = [r EXCEPT !.tech = t, !.queued = q]
  BY <1>1 DEF Settled, Row
<1>. QED BY <1>2 DEF Row

LEMMA StatusTyped ==
  ASSUME NEW r \in Row, NEW s \in Status
  PROVE  [r EXCEPT !.status = s] \in Row
BY DEF Row

LEMMA WindowTyped ==
  ASSUME NEW r \in Row, NEW s \in Starts, NEW e \in WindowEnds(s)
  PROVE  [r EXCEPT !.start = s, !.end = e] \in Row
<1>1. e \in Int
  BY WindowsAreTimes
<1>. QED BY <1>1 DEF Row

LEMMA EditedTyped ==
  ASSUME NEW r \in Row, IsJob(r), NEW new \in Edited(r)
  PROVE  new \in Row
<1>1. NextStatus(r.status) \subseteq Status /\ FormStatuses(r) \subseteq Status
  BY DEF IsJob, Status, NextStatus, FormStatuses
<1>2. \/ \E s \in NextStatus(r.status) : new = [r EXCEPT !.status = s]
      \/ \E t \in Techs, s \in Starts \cup {NoTime}, q \in FormStatuses(r) : new = FormSaved(r, t, s, q)
      \/ \E t \in Techs : new = [Settled(r, t) EXCEPT !.status = "OPEN"]
  BY DEF Edited
<1>3. ASSUME NEW t \in Techs, NEW s \in Starts \cup {NoTime}, NEW q \in Status
      PROVE  FormSaved(r, t, s, q) \in Row
  <2>1. PICK a \in Row : a = Settled(r, t)
    BY SettledTyped
  <2>2. [a EXCEPT !.start = s, !.status = q] \in Row
    BY DEF Row
  <2>. QED BY <2>1, <2>2 DEF FormSaved
<1>4. ASSUME NEW t \in Techs PROVE [Settled(r, t) EXCEPT !.status = "OPEN"] \in Row
  BY SettledTyped, StatusTyped DEF Status
<1>. QED BY <1>1, <1>2, <1>3, <1>4, StatusTyped

LEMMA SaveTyped ==
  ASSUME VisitInv, TypeOK, NEW w \in Workers, Save(w)
  PROVE  TypeOK'
<1>1. task[w].at = "save" /\ Become(w, Idle) /\ UNCHANGED <<visit, shop, faults>>
  BY DEF Save
<1>2. PICK j \in Jobs, copy \in Row : j = task[w].job /\ copy = task[w].copy
  BY <1>1, TaskKinds DEF TypeOK
<1>3. IsJob(copy)
  BY <1>1, <1>2 DEF VisitInv, Keeps
<1>4. PICK r \in Edited(copy) : Writes({j}, [i \in {j} |-> r])
  BY <1>2 DEF Save
<1>5. r \in Row
  BY <1>3, EditedTyped
<1>. DEFINE new == [i \in {j} |-> r]
<1>6. \A i \in {j} : new[i] \in Row
  BY <1>5
<1>7. Writes({j}, new)
  BY <1>4
<1>. HIDE DEF new
<1>8. row' \in [Jobs -> Row] /\ apart' \subseteq Jobs /\ uneven' \in BOOLEAN
  BY <1>6, <1>7, WritesTyped
<1>9. Moved(w, Idle)
  BY <1>1, EndsTyped
<1>. QED BY <1>1, <1>8, <1>9, TypeMoves DEF TypeOK

LEMMA SaveBulkTyped ==
  ASSUME VisitInv, TypeOK, NEW w \in Workers, SaveBulk(w)
  PROVE  TypeOK'
<1>1. task[w].at = "lock" /\ Become(w, Idle) /\ UNCHANGED <<visit, shop, faults>>
  BY DEF SaveBulk, Locked
<1>2. PICK S \in SUBSET Jobs : task[w] \in LockTask(S)
  BY <1>1, TaskKinds DEF TypeOK
<1>3. PICK copy \in [S -> Row] : copy = task[w].copy
  BY <1>2 DEF LockTask
<1>4. task[w].jobs = S
  BY <1>2 DEF LockTask
<1>5. "OPEN" \in Status /\ "DENIED" \in Status
  BY DEF Status
<1>6. \/ \E t \in Techs : Writes(S, [j \in S |-> Settled(copy[j], t)])
      \/ \E t \in Techs \cup {NoTech} :
            Writes(S, [j \in S |-> [(IF copy[j].queued /\ t # NoTech THEN Settled(copy[j], t)
                                     ELSE copy[j]) EXCEPT !.status = "OPEN"]])
      \/ \E s \in {"OPEN", "DENIED"} : Writes(S, [j \in S |-> [copy[j] EXCEPT !.status = s]])
  BY <1>3, <1>4 DEF SaveBulk
<1>7. \E new : Writes(S, new) /\ \A j \in S : new[j] \in Row
  <2>1. ASSUME NEW t \in Techs, Writes(S, [j \in S |-> Settled(copy[j], t)])
        PROVE  \E new : Writes(S, new) /\ \A j \in S : new[j] \in Row
    <3>. DEFINE new == [j \in S |-> Settled(copy[j], t)]
    <3>1. \A j \in S : new[j] \in Row
      BY SettledTyped
    <3>. QED BY <2>1, <3>1
  <2>2. ASSUME NEW t \in Techs \cup {NoTech},
               Writes(S, [j \in S |-> [(IF copy[j].queued /\ t # NoTech THEN Settled(copy[j], t)
                                        ELSE copy[j]) EXCEPT !.status = "OPEN"]])
        PROVE  \E new : Writes(S, new) /\ \A j \in S : new[j] \in Row
    <3>. DEFINE base(j) == IF copy[j].queued /\ t # NoTech THEN Settled(copy[j], t) ELSE copy[j]
                new == [j \in S |-> [base(j) EXCEPT !.status = "OPEN"]]
    <3>1. \A j \in S : base(j) \in Row
      BY SettledTyped
    <3>2. Writes(S, new)
      BY <2>2
    <3>. HIDE DEF base
    <3>3. \A j \in S : new[j] \in Row
      BY <1>5, <3>1, StatusTyped
    <3>. QED BY <3>2, <3>3
  <2>3. ASSUME NEW s \in {"OPEN", "DENIED"}, Writes(S, [j \in S |-> [copy[j] EXCEPT !.status = s]])
        PROVE  \E new : Writes(S, new) /\ \A j \in S : new[j] \in Row
    <3>. DEFINE new == [j \in S |-> [copy[j] EXCEPT !.status = s]]
    <3>1. \A j \in S : new[j] \in Row
      BY <1>5, StatusTyped
    <3>. QED BY <2>3, <3>1
  <2>. QED BY <1>6, <2>1, <2>2, <2>3
<1>8. row' \in [Jobs -> Row] /\ apart' \subseteq Jobs /\ uneven' \in BOOLEAN
  BY <1>7, WritesTyped
<1>9. Moved(w, Idle)
  BY <1>1, EndsTyped
<1>. QED BY <1>1, <1>8, <1>9, TypeMoves DEF TypeOK

LEMMA WindowsTyped ==
  ASSUME NEW S, NEW rows \in [S -> Row], NEW named, NEW s \in Starts, NEW e \in WindowEnds(s)
  PROVE  \A j \in S : InWindow(rows, named, s, e)[j] \in Row
<1>1. SUFFICES ASSUME NEW j \in S PROVE InWindow(rows, named, s, e)[j] \in Row
  OBVIOUS
<1>2. InWindow(rows, named, s, e)[j] = [rows[j] EXCEPT !.start = s, !.end = e]
  BY DEF InWindow
<1>3. rows[j] \in Row
  OBVIOUS
<1>. QED BY <1>2, <1>3, WindowTyped

LEMMA ConfirmTyped ==
  ASSUME VisitInv, TypeOK, NEW w \in Workers, Confirm(w)
  PROVE  TypeOK'
<1>1. task[w].at = "lock" /\ Become(w, Idle) /\ UNCHANGED <<visit, shop, apart, uneven, faults>>
  BY DEF Confirm, Locked
<1>2. PICK S \in SUBSET Jobs : task[w].jobs = S
  BY <1>1, TaskKinds DEF TypeOK, LockTask
<1>. DEFINE rows == [j \in S |-> row[j]]
<1>3. rows \in [S -> Row]
  BY <1>2 DEF TypeOK
<1>4. PICK s \in Starts : \E e \in WindowEnds(s) : Overwrite(S, InWindow(rows, task[w].named, s, e))
  BY <1>2 DEF Confirm
<1>5. PICK e \in WindowEnds(s) : Overwrite(S, InWindow(rows, task[w].named, s, e))
  BY <1>4
<1>. HIDE DEF rows
<1>6. row' \in [Jobs -> Row]
  BY <1>3, <1>5, WindowsTyped, OverwriteTyped DEF Overwrite
<1>7. Moved(w, Idle)
  BY <1>1, EndsTyped
<1>. QED BY <1>1, <1>6, <1>7, TypeMoves DEF TypeOK

LEMMA DispatchTyped ==
  ASSUME VisitInv, TypeOK, NEW w \in Workers, ApplyDispatch(w)
  PROVE  TypeOK'
<1>1. task[w].at = "lock" /\ Become(w, Idle) /\ UNCHANGED <<visit, shop, apart, faults>>
  BY DEF ApplyDispatch, Locked
<1>2. PICK S \in SUBSET Jobs : task[w].jobs = S
  BY <1>1, TaskKinds DEF TypeOK, LockTask
<1>. DEFINE clicked == row[task[w].named]
            moved(t) == t # NoTech /\ t # clicked.tech
            taken(t) == t = clicked.tech /\ clicked.queued
            given(t) == [j \in S |-> IF moved(t) THEN Settled(row[j], t)
                                     ELSE [row[j] EXCEPT !.queued = @ /\ ~taken(t)]]
<1>3. PICK t \in Techs \cup {NoTech} :
        /\ \/ Overwrite(S, given(t))
           \/ \E s \in Starts : \E e \in WindowEnds(s) :
                 Overwrite(S, InWindow(given(t), task[w].named, s, e))
        /\ uneven' = (uneven \/ \E j \in S : given(t)[j].tech # row[j].tech)
  BY <1>2, ZenonT(40) DEF ApplyDispatch
<1>. DEFINE new == given(t)
<1>4. new \in [S -> Row]
  <2>1. ASSUME NEW j \in S
        PROVE  (IF moved(t) THEN Settled(row[j], t) ELSE [row[j] EXCEPT !.queued = @ /\ ~taken(t)]) \in Row
    <3>1. row[j] \in Row
      BY <1>2 DEF TypeOK
    <3>2. Settled(row[j], t) \in Row
      BY <3>1, SettledTyped
    <3>3. [row[j] EXCEPT !.queued = @ /\ ~taken(t)] \in Row
      <4>1. PICK q \in BOOLEAN : q = (row[j].queued /\ ~taken(t))
        OBVIOUS
      <4>2. [row[j] EXCEPT !.queued = q] \in Row
        BY <3>1 DEF Row
      <4>. QED BY <4>1, <4>2
    <3>. QED BY <3>2, <3>3
  <2>. HIDE DEF moved, taken
  <2>. QED BY <2>1
<1>5. uneven' \in BOOLEAN
  BY <1>3
<1>6. \/ Overwrite(S, new)
      \/ \E s \in Starts : \E e \in WindowEnds(s) : Overwrite(S, InWindow(new, task[w].named, s, e))
  BY <1>3
<1>. HIDE DEF new
<1>7. row' \in [Jobs -> Row]
  <2>1. CASE Overwrite(S, new)
    BY <1>4, <2>1, OverwriteTyped DEF Overwrite
  <2>2. ASSUME NEW s \in Starts, NEW e \in WindowEnds(s),
               Overwrite(S, InWindow(new, task[w].named, s, e))
        PROVE  row' \in [Jobs -> Row]
    <3>1. PICK booked : booked = InWindow(new, task[w].named, s, e)
      OBVIOUS
    <3>2. \A j \in S : booked[j] \in Row
      BY <1>4, <3>1, WindowsTyped
    <3>. QED BY <2>2, <3>1, <3>2, OverwriteTyped DEF Overwrite
  <2>. QED BY <1>6, <2>1, <2>2
<1>8. Moved(w, Idle)
  BY <1>1, EndsTyped
<1>. QED BY <1>1, <1>5, <1>7, <1>8, TypeMoves DEF TypeOK

LEMMA SwapTyped ==
  ASSUME VisitInv, TypeOK, NEW w \in Workers, TradePlaces(w)
  PROVE  TypeOK'
<1>1. PICK j \in task[w].jobs, k \in task[w].jobs :
        /\ row[j].start # NoTime /\ row[k].start # NoTime
        /\ row' = [row EXCEPT ![j] = MovedTo(@, row[k].start), ![k] = MovedTo(@, row[j].start)]
        /\ j # k
  BY DEF TradePlaces, Swappable
<1>2. task[w].at = "lock" /\ Become(w, Idle) /\ UNCHANGED <<visit, shop, apart, uneven, faults>>
  BY DEF TradePlaces, Locked
<1>3. j \in Jobs /\ k \in Jobs
  BY <1>2, TaskKinds DEF TypeOK, LockTask
<1>4. ASSUME NEW r \in Row, r.start # NoTime, NEW s \in Starts PROVE MovedTo(r, s) \in Row
  <2>1. r.start \in Int /\ s \in Int /\ r.end \in Int \cup {NoTime}
    BY <1>4, ScheduleAssumption DEF Row
  <2>2. PICK e \in Int \cup {NoTime} : e = IF r.end = NoTime THEN NoTime ELSE s + (r.end - r.start)
    <3>1. r.end # NoTime => s + (r.end - r.start) \in Int
      BY <2>1
    <3>. QED BY <3>1
  <2>3. MovedTo(r, s) = [r EXCEPT !.start = s, !.end = e]
    BY <2>2 DEF MovedTo, Row
  <2>. QED BY <2>3 DEF Row
<1>5. row[j] \in Row /\ row[k] \in Row /\ row[j].start \in Starts /\ row[k].start \in Starts
  BY <1>1, <1>3 DEF TypeOK, Row
<1>6. MovedTo(row[j], row[k].start) \in Row /\ MovedTo(row[k], row[j].start) \in Row
  BY <1>1, <1>4, <1>5
<1>7. row' = [[row EXCEPT ![j] = MovedTo(row[j], row[k].start)] EXCEPT ![k] = MovedTo(row[k], row[j].start)]
  BY <1>1, <1>3 DEF TypeOK
<1>8. row' \in [Jobs -> Row]
  BY <1>6, <1>7 DEF TypeOK
<1>9. Moved(w, Idle)
  BY <1>2, EndsTyped
<1>. QED BY <1>2, <1>8, <1>9, TypeMoves DEF TypeOK

LEMMA StopTyped ==
  ASSUME VisitInv, TypeOK, NEW w \in Workers, Refuse(w) \/ Deadlocked(w) \/ Crash(w)
  PROVE  TypeOK'
<1>1. Become(w, Idle) /\ UNCHANGED <<row, visit, shop, apart>>
  BY DEF Refuse, Deadlocked, Crash
<1>2. faults' = faults \/ faults' = faults + 1
  BY DEF Refuse, Deadlocked, Crash
<1>3. faults' \in Nat
  BY <1>2 DEF TypeOK
<1>4. uneven' \in BOOLEAN
  BY Zenon DEF TypeOK, Refuse, Deadlocked, Crash
<1>5. Moved(w, Idle)
  BY <1>1, EndsTyped
<1>. QED BY <1>1, <1>3, <1>4, <1>5, NothingTyped

LEMMA TypeInit == Init => TypeOK
<1>1. NoRow \in Row
  BY DEF NoRow, Row, Status
<1>2. Jobs \subseteq Nat /\ 0 \in Nat
  BY JobsAreNaturals
<1>. QED BY <1>1, <1>2, IdleOK DEF Init, TypeOK

LEMMA TypeStep == VisitInv /\ TypeOK /\ [Next]_vars => TypeOK'
<1>. SUFFICES ASSUME VisitInv, TypeOK, [Next]_vars PROVE TypeOK'
  OBVIOUS
<1>1. CASE UNCHANGED vars
  BY <1>1, ZenonT(30) DEF vars, TypeOK, TaskOK
<1>2. CASE Next
  <2>0. PICK w \in Workers :
          \/ \E breaks \in 1..2 : RequestRepair(w, breaks)
          \/ Insert(w) \/ Select(w) \/ Apply(w) \/ Accept(w)
          \/ NewJob(w) \/ InsertJob(w)
          \/ \E j \in Jobs : Read(w, j) \/ Book(w, j) \/ Dispatch(w, j)
          \/ \E j, k \in Jobs : Swap(w, j, k)
          \/ \E S \in SUBSET Jobs : Bulk(w, S)
          \/ Save(w) \/ Acquire(w)
          \/ Confirm(w) \/ ApplyDispatch(w) \/ TradePlaces(w) \/ SaveBulk(w)
          \/ Refuse(w) \/ Deadlocked(w) \/ Crash(w)
    BY <1>2 DEF Next
  <2>1. CASE \/ \E breaks \in 1..2 : RequestRepair(w, breaks)
             \/ Insert(w) \/ Select(w) \/ Apply(w) \/ Accept(w)
    BY <2>1, RequestTyped, InsertTyped, SelectTyped, ApplyTyped, AcceptTyped
  <2>2. CASE NewJob(w) \/ InsertJob(w) \/ \E j \in Jobs : Read(w, j)
    BY <2>2, NewJobTyped, InsertJobTyped, ReadTyped
  <2>3. CASE \E j \in Jobs : Book(w, j) \/ Dispatch(w, j)
    <3>1. PICK j \in Existing, op \in {"book", "dispatch"} : Lock(w, op, Visit(j), j)
      BY <2>3, ExistingAreJobs DEF Book, Dispatch
    <3>2. Visit(j) \in SUBSET Existing /\ j \in Visit(j)
      BY DEF Visit
    <3>. QED BY <3>1, <3>2, LockTyped
  <2>4. CASE \E j, k \in Jobs : Swap(w, j, k)
    <3>1. PICK j \in Jobs, k \in Jobs : {j, k} \subseteq Existing /\ Lock(w, "swap", {j, k}, j)
      BY <2>4 DEF Swap
    <3>. QED BY <3>1, LockTyped
  <2>5. CASE \E S \in SUBSET Jobs : Bulk(w, S)
    <3>1. PICK S \in SUBSET Jobs : Bulk(w, S)
      BY <2>5
    <3>2. PICK j \in S : \E op \in Unlocked : S \subseteq Existing /\ Lock(w, op, S, j)
      BY <3>1 DEF Bulk
    <3>. QED BY <3>2, LockTyped DEF Unlocked
  <2>6. CASE Save(w) \/ Acquire(w) \/ SaveBulk(w)
    BY <2>6, SaveTyped, AcquireTyped, SaveBulkTyped
  <2>7. CASE Confirm(w) \/ ApplyDispatch(w) \/ TradePlaces(w)
    BY <2>7, ConfirmTyped, DispatchTyped, SwapTyped
  <2>8. CASE Refuse(w) \/ Deadlocked(w) \/ Crash(w)
    BY <2>8, StopTyped
  <2>. QED BY <2>0, <2>1, <2>2, <2>3, <2>4, <2>5, <2>6, <2>7, <2>8
<1>. QED BY <1>1, <1>2

(* The rows, visits and requests of the schedule stay well formed: a       *)
(* technician of the shop or nobody, a time that can be booked and an end  *)
(* that is a time or none, and every request carries what its stage needs. *)
THEOREM ScheduleTyped == Spec => []TypeOK
<1>1. Init => VisitInv /\ TypeOK
  BY VisitInit, TypeInit
<1>2. (VisitInv /\ TypeOK) /\ [Next]_vars => (VisitInv /\ TypeOK)'
  BY VisitStep, TypeStep
<1>. QED BY <1>1, <1>2, PTL DEF Spec
===============================================================================
