----------------------------- MODULE ShopSchedule -----------------------------
(***************************************************************************)
(* Who does a repair and when (apps/technician_portal, apps/tenants,       *)
(* apps/customer_portal): the shop's assignment strategy gives new jobs to *)
(* technicians or leaves them in the Unassigned queue, managers book,      *)
(* dispatch and swap appointments, and every other screen saves whole rows.*)
(*                                                                         *)
(* Bookings, dispatches and swaps lock their rows one by one and then      *)
(* check, write and commit; the rest reads rows without a lock and saves   *)
(* every column of its copy later.  A job's number is its primary key.     *)
(* What a screen showed (the expected time, the expected technician) is    *)
(* any value that was on it: a request that does not match is refused.     *)
(***************************************************************************)
EXTENDS Integers, FiniteSets

CONSTANTS
    Workers,      \* web workers
    NumTechs,     \* technicians, in the order of their ids
    MaxJobs,      \* bound: repairs that come to exist
    Starts,       \* start times that can be booked
    SlotsPerDay,  \* the start times of a day are that many successive ones
    Lengths,      \* lengths of the windows that can be booked
    NoTime,       \* a NULL time
    Strategies,   \* assignment strategies the shop may have chosen
    Primaries,    \* the customer's primary technician, or NoTech
    Ops,          \* operations this instance has beside the customer's requests
    MaxRequests,  \* bound: requests
    MaxFaults     \* bound: processes that die

VARIABLES
    row,       \* the Repair rows
    visit,     \* the first job of the visit (repair_batch_id) a job is part of
    shop,      \* the assignment strategy and the customer's primary technician
    task,      \* what each worker is doing
    apart,     \* history: visits of which a break was moved by itself
    uneven,    \* history: jobs were given out by other means than in turn
    requests,  \* requests so far
    faults     \* processes that have died

vars == <<row, visit, shop, task, apart, uneven, requests, faults>>

Jobs == 1..MaxJobs
Techs == 1..NumTechs
NoTech == 0
AllStrategies == {"manual", "primary_first", "auto", "round_robin"}

ASSUME ScheduleAssumption ==
    /\ NumTechs \in Nat \ {0} /\ MaxJobs \in Nat
    /\ Starts \subseteq Int /\ Lengths \subseteq Int
    /\ SlotsPerDay \in Nat \ {0} /\ NoTime \notin Int
    /\ Strategies \subseteq AllStrategies /\ Primaries \subseteq Techs \cup {NoTech}
    /\ MaxRequests \in Nat /\ MaxFaults \in Nat

Status == {"REQUESTED", "OPEN", "COMPLETED", "DENIED"}
Row == [status : Status \cup {"none"}, tech : Techs \cup {NoTech}, queued : BOOLEAN,
        start : Starts \cup {NoTime}, end : Int \cup {NoTime}]
NoRow == [status |-> "none", tech |-> NoTech, queued |-> FALSE,
          start |-> NoTime, end |-> NoTime]

Idle == [at |-> "idle"]
DayOf(start) == start \div SlotsPerDay

Init ==
    /\ row = [j \in Jobs |-> NoRow]
    /\ visit = [j \in Jobs |-> j]
    /\ shop \in [strategy : Strategies, primary : Primaries]
    /\ task = [w \in Workers |-> Idle]
    /\ apart = {} /\ uneven = FALSE
    /\ requests = 0 /\ faults = 0

Existing == {j \in Jobs : row[j].status # "none"}
Visit(j) == {k \in Existing : visit[k] = visit[j]}
Least(S) == CHOOSE x \in S : \A y \in S : x <= y
Greatest(S) == CHOOSE x \in S : \A y \in S : y <= x

Starting(w, t) ==
    /\ task[w] = Idle /\ requests < MaxRequests
    /\ requests' = requests + 1
    /\ task' = [task EXCEPT ![w] = t]

Become(w, t) == task' = [task EXCEPT ![w] = t] /\ UNCHANGED requests

-----------------------------------------------------------------------------
(* The assignment service.                                                 *)

Active(except) == {j \in Existing \ except : row[j].status \in {"REQUESTED", "OPEN"}}

Load(t, except) == Cardinality({j \in Active(except) : row[j].tech = t})

LowestWorkload(except) ==
    CHOOSE t \in Techs : \A u \in Techs :
        \/ Load(t, except) < Load(u, except)
        \/ Load(t, except) = Load(u, except) /\ t <= u

TurnAfter(given) ==
    IF given = {} THEN 1 ELSE (row[Greatest(given)].tech % NumTechs) + 1

\* Mutant: the rotation goes on from the job that is being assigned (CODE-278).
RotationIncluding(except) == TurnAfter({j \in Existing : ~row[j].queued})

\* The technician after that of the newest job that somebody was given.
Rotation(except) == TurnAfter({j \in Existing \ except : ~row[j].queued})

\* select_technician: NoTech where the strategy declines.
Selected(except) ==
    CASE shop.strategy = "manual"        -> NoTech
      [] shop.strategy = "primary_first" -> shop.primary
      [] shop.strategy = "auto"          -> IF shop.primary # NoTech THEN shop.primary
                                            ELSE LowestWorkload(except)
      [] shop.strategy = "round_robin"   -> Rotation(except)

\* _settle_needs_assignment: choosing another technician takes a job off the queue.
Settled(r, tech) == [r EXCEPT !.tech = tech, !.queued = @ /\ r.tech = tech]

-----------------------------------------------------------------------------
(* Row locks.                                                              *)

Ordered == {"book", "swap"}         \* they lock their rows in the order of the keys
Unlocked == {"bulk", "reassign"}    \* they have read their rows before
Holds(w) == IF task[w].at = "lock" THEN task[w].holds ELSE {}
LockedByOther(w, j) == \E v \in Workers \ {w} : j \in Holds(v)
WaitsFor(w, v) == w # v /\ task[w].at = "lock" /\ task[w].next \in Holds(v)

\* Full-row saves of new rows over the rows they were made from.
Writes(S, new) ==
    /\ row' = [j \in Jobs |-> IF j \in S THEN new[j] ELSE row[j]]
    /\ apart' = apart \cup {visit[j] : j \in {k \in S :
          /\ Visit(k) # {k}
          /\ new[k].start # row[k].start \/ new[k].end # row[k].end}}
    /\ uneven' = (uneven \/ \E j \in S : new[j].tech # row[j].tech)

-----------------------------------------------------------------------------
(* A customer's request on the portal.                                     *)

Creating(w) == task[w].at \in {"insert", "select", "apply", "accept", "create"}

NotesRotation(w, disturbed) ==
    uneven' = (uneven \/ disturbed \/ \E v \in Workers \ {w} : Creating(v))

\* get_available_technician: somebody has to be on the row until the strategy decides.
RequestRepair(w, breaks) ==
    /\ Starting(w, [at |-> "insert", breaks |-> breaks, tech |-> LowestWorkload({})])
    /\ NotesRotation(w, breaks > 1)
    /\ UNCHANGED <<row, visit, shop, apart, faults>>

\* The rows of a request are inserted in one transaction.
Insert(w) ==
    LET first == Cardinality(Existing) + 1
        mine == first..(first + task[w].breaks - 1)
        new == [NoRow EXCEPT !.status = "REQUESTED", !.tech = task[w].tech] IN
    /\ task[w].at = "insert"
    /\ mine \subseteq Jobs
    /\ row' = [j \in Jobs |-> IF j \in mine THEN new ELSE row[j]]
    /\ visit' = [j \in Jobs |-> IF j \in mine THEN first ELSE visit[j]]
    /\ Become(w, [at |-> "select", todo |-> mine, copy |-> [j \in mine |-> new]])
    /\ UNCHANGED <<shop, apart, uneven, faults>>

\* auto_assign_repair, job by job: the strategy looks at the shop's other jobs, ...
Select(w) ==
    /\ task[w].at = "select"
    /\ LET j == Least(task[w].todo) IN
       Become(w, [at |-> "apply", todo |-> task[w].todo, copy |-> task[w].copy,
                  tech |-> Selected({j})])
    /\ UNCHANGED <<row, visit, shop, apart, uneven, faults>>

\* ... and then one column is saved: the technician, or the flag of the queue.
Apply(w) ==
    /\ task[w].at = "apply"
    /\ LET j == Least(task[w].todo)
           assigned(r) == IF task[w].tech = NoTech THEN [r EXCEPT !.queued = TRUE]
                          ELSE [r EXCEPT !.tech = task[w].tech]
           rest == task[w].todo \ {j}
           copy == [task[w].copy EXCEPT ![j] = assigned(@)] IN
       /\ ~LockedByOther(w, j)
       /\ row' = [row EXCEPT ![j] = assigned(@)]
       /\ Become(w, IF rest # {} THEN [at |-> "select", todo |-> rest, copy |-> copy]
                    ELSE [at |-> "accept", todo |-> DOMAIN copy, copy |-> copy])
    /\ UNCHANGED <<visit, shop, apart, uneven, faults>>

\* _auto_accept_customer_repair saves every column of the row as it was created.
Accept(w) ==
    /\ task[w].at = "accept"
    /\ LET j == Least(task[w].todo)
           rest == task[w].todo \ {j}
           new == [task[w].copy EXCEPT ![j].status = "OPEN"] IN
       /\ ~LockedByOther(w, j)
       /\ Writes({j}, new)
       /\ Become(w, IF rest = {} THEN Idle ELSE [task[w] EXCEPT !.todo = rest])
    /\ UNCHANGED <<visit, shop, faults>>

-----------------------------------------------------------------------------
(* Jobs created by the shop, or by accepting a quote.                      *)

\* A technician picked on the form or creating the job himself, else the strategy's,
\* else anybody, queued.
Choices ==
    [tech : Techs, queued : {FALSE}, byHand : {TRUE}]
    \cup IF Selected({}) # NoTech
         THEN {[tech |-> Selected({}), queued |-> FALSE, byHand |-> FALSE]}
         ELSE [tech : Techs, queued : {TRUE}, byHand : {FALSE}]

NewJob(w) ==
    /\ "create" \in Ops
    /\ \E c \in Choices :
          /\ Starting(w, [at |-> "create", tech |-> c.tech, queued |-> c.queued])
          /\ NotesRotation(w, c.byHand)
    /\ UNCHANGED <<row, visit, shop, apart, faults>>

\* window_bounds.
WindowEnds(s) == IF s = NoTime THEN {} ELSE {s + l : l \in Lengths}

\* The job form sets a start alone, the schedule's quick form books a window with
\* the insertion, in one transaction.
InsertJob(w) ==
    LET first == Cardinality(Existing) + 1 IN
    /\ task[w].at = "create"
    /\ first \in Jobs
    /\ \E s \in Starts \cup {NoTime} : \E e \in WindowEnds(s) \cup {NoTime} :
          /\ row' = [row EXCEPT ![first] =
                [status |-> "OPEN", tech |-> task[w].tech, queued |-> task[w].queued,
                 start |-> s, end |-> e]]
    /\ Become(w, Idle)
    /\ UNCHANGED <<visit, shop, apart, uneven, faults>>

-----------------------------------------------------------------------------
(* Screens that save a copy of the row: the job form, assign, reassign and *)
(* status changes.                                                         *)

Read(w, j) ==
    /\ "edit" \in Ops
    /\ j \in Existing
    /\ Starting(w, [at |-> "save", job |-> j, copy |-> row[j]])
    /\ UNCHANGED <<row, visit, shop, apart, uneven, faults>>

NextStatus(status) ==
    CASE status = "REQUESTED" -> {"OPEN", "COMPLETED", "DENIED"}
      [] status = "OPEN"      -> {"OPEN", "COMPLETED", "DENIED"}
      [] status = "COMPLETED" -> {}
      [] status = "DENIED"    -> {"OPEN"}

\* The job form moves the start but not the end of the window, and an after photo
\* completes the job.
FormSaved(r, tech, start, status) ==
    [Settled(r, tech) EXCEPT !.start = start, !.status = status]

FormStatuses(r) == {r.status} \cup (IF r.status = "OPEN" THEN {"COMPLETED"} ELSE {})

\* assign_repair accepts the request with the technician.
Edited(r) ==
         {[r EXCEPT !.status = s] : s \in NextStatus(r.status)}
    \cup {FormSaved(r, t, s, q) :
             t \in Techs, s \in Starts \cup {NoTime}, q \in FormStatuses(r)}
    \cup {[Settled(r, t) EXCEPT !.status = "OPEN"] :
             t \in {u \in Techs : r.status = "REQUESTED"}}

Save(w) ==
    /\ task[w].at = "save"
    /\ ~LockedByOther(w, task[w].job)
    /\ \E r \in Edited(task[w].copy) : Writes({task[w].job}, [j \in {task[w].job} |-> r])
    /\ Become(w, Idle)
    /\ UNCHANGED <<visit, shop, faults>>

-----------------------------------------------------------------------------
(* Requests that lock several rows.                                        *)

\* Mutant: the rows of a swap are locked in the order they were named.
FirstNamed(op, S, named) == IF op = "book" THEN Least(S) ELSE named

\* Bookings and swaps lock in the order of the keys; a dispatch locks the row that
\* was clicked before the others; the bulk updates come in the order of the query.
FirstLocked(op, S, named) == IF op \in Ordered THEN Least(S) ELSE named

Lock(w, op, S, named) ==
    LET first == FirstLocked(op, S, named) IN
    /\ op \in Ops
    /\ Starting(w, [at |-> "lock", op |-> op, jobs |-> S, holds |-> {}, next |-> first,
                    named |-> IF op = "dispatch" THEN named ELSE Least(S),
                    copy |-> [j \in S |-> IF op \in Unlocked THEN row[j] ELSE NoRow]])
    /\ UNCHANGED <<row, visit, shop, apart, uneven, faults>>

Book(w, j) == j \in Existing /\ Lock(w, "book", Visit(j), j)
Dispatch(w, j) == j \in Existing /\ Lock(w, "dispatch", Visit(j), j)
Swap(w, j, k) == {j, k} \subseteq Existing /\ j # k /\ Lock(w, "swap", {j, k}, j)

\* bulk_repair_action and portal_bulk_reassign read all rows, then save them in turn.
Bulk(w, S) ==
    \E j \in S, op \in Unlocked :
        S \subseteq Existing /\ Lock(w, op, S, j)

Acquire(w) ==
    LET t == task[w]
        holds == t.holds \cup {t.next}
        rest == t.jobs \ holds
        held == [t EXCEPT !.holds = holds] IN
    /\ t.at = "lock" /\ t.holds # t.jobs
    /\ ~LockedByOther(w, t.next)
    /\ \E j \in IF rest = {} THEN {t.next}
               ELSE IF t.op \in Unlocked THEN rest ELSE {Least(rest)} :
          Become(w, [held EXCEPT !.next = j])
    /\ UNCHANGED <<row, visit, shop, apart, uneven, faults>>

Locked(w, op) ==
    task[w].at = "lock" /\ task[w].op = op /\ task[w].holds = task[w].jobs

Bookable(S) == \A j \in S : row[j].status \in {"REQUESTED", "OPEN"}

\* All rows of the visit must have the time that the caller saw.
SeenAlike(S) == \E seen \in Starts \cup {NoTime} : \A j \in S : row[j].start = seen

Overwrite(S, new) == row' = [j \in Jobs |-> IF j \in S THEN new[j] ELSE row[j]]

\* Mutant: only the row that was clicked is booked.
InWindowAlone(rows, named, s, e) ==
    [rows EXCEPT ![named].start = s, ![named].end = e]

\* The columns of the time alone are updated, of every row of the visit.
InWindow(rows, named, s, e) ==
    [j \in DOMAIN rows |-> [rows[j] EXCEPT !.start = s, !.end = e]]

Confirm(w) ==
    LET S == task[w].jobs IN
    /\ Locked(w, "book")
    /\ Bookable(S) /\ SeenAlike(S)
    /\ \E s \in Starts : \E e \in WindowEnds(s) :
          Overwrite(S, InWindow([j \in S |-> row[j]], task[w].named, s, e))
    /\ Become(w, Idle)
    /\ UNCHANGED <<visit, shop, apart, uneven, faults>>

\* apply_dispatch: a technician, a time or both, for all rows or for none.  Keeping
\* the placeholder of a queued job is choosing him.
ApplyDispatch(w) ==
    LET S == task[w].jobs
        clicked == row[task[w].named] IN
    /\ Locked(w, "dispatch")
    /\ Bookable(S)
    /\ \E t \in Techs \cup {NoTech} :
       LET reassigned == t # NoTech /\ t # clicked.tech
           confirmed == t = clicked.tech /\ clicked.queued
           given == [j \in S |-> IF reassigned THEN Settled(row[j], t)
                                 ELSE [row[j] EXCEPT !.queued = @ /\ ~confirmed]] IN
       /\ \/ (reassigned \/ confirmed) /\ Overwrite(S, given)
          \/ /\ SeenAlike(S)
             /\ \E s \in Starts : \E e \in WindowEnds(s) :
                   Overwrite(S, InWindow(given, task[w].named, s, e))
       /\ uneven' = (uneven \/ \E j \in S : given[j].tech # row[j].tech)
    /\ Become(w, Idle)
    /\ UNCHANGED <<visit, shop, apart, faults>>

Swappable(j, k) ==
    /\ \A i \in {j, k} : row[i].start # NoTime /\ row[i].status = "OPEN"
    /\ \A i \in {j, k} : Visit(i) = {i}
    /\ row[j].tech = row[k].tech
    /\ DayOf(row[j].start) = DayOf(row[k].start)

\* _shifted_end: each job keeps the length of its own window.
MovedTo(r, start) ==
    [r EXCEPT !.start = start,
              !.end = IF @ = NoTime THEN NoTime ELSE start + (@ - r.start)]

TradePlaces(w) ==
    /\ Locked(w, "swap")
    /\ \E j \in task[w].jobs, k \in task[w].jobs :
          /\ j # k
          /\ Swappable(j, k)
          /\ row' = [row EXCEPT ![j] = MovedTo(@, row[k].start),
                                ![k] = MovedTo(@, row[j].start)]
    /\ Become(w, Idle)
    /\ UNCHANGED <<visit, shop, apart, uneven, faults>>

\* Approving a queued job takes it, for an approver who can do the work.
SaveBulk(w) ==
    LET S == task[w].jobs
        copy == task[w].copy
        allIn(statuses) == \A j \in S : copy[j].status \in statuses IN
    /\ \/ /\ Locked(w, "reassign") /\ allIn(Status \ {"COMPLETED"})
          /\ \E t \in Techs : Writes(S, [j \in S |-> Settled(copy[j], t)])
       \/ /\ Locked(w, "bulk") /\ allIn({"REQUESTED", "OPEN"})
          /\ \/ \E t \in Techs \cup {NoTech} :
                   LET taken(r) == IF r.queued /\ t # NoTech THEN Settled(r, t) ELSE r IN
                   Writes(S, [j \in S |-> [taken(copy[j]) EXCEPT !.status = "OPEN"]])
             \/ Writes(S, [j \in S |-> [copy[j] EXCEPT !.status = "DENIED"]])
       \/ /\ Locked(w, "bulk") /\ allIn(Status \ {"COMPLETED"})
          /\ Writes(S, [j \in S |-> [copy[j] EXCEPT !.status = "OPEN"]])
    /\ Become(w, Idle)
    /\ UNCHANGED <<visit, shop, faults>>

\* Refused, for the rows' sake or because the screen was out of date: rolled back.
Refuse(w) ==
    /\ \E op \in {"book", "dispatch", "swap"} : Locked(w, op)
    /\ Become(w, Idle)
    /\ UNCHANGED <<row, visit, shop, apart, uneven, faults>>

WaitingInCircle(C) == C # {} /\ \A w \in C : \E v \in C : WaitsFor(w, v)

\* The database rolls back a transaction of a deadlock.
Deadlocked(w) ==
    /\ \E C \in SUBSET Workers : w \in C /\ WaitingInCircle(C)
    /\ Become(w, Idle)
    /\ UNCHANGED <<row, visit, shop, apart, uneven, faults>>

\* The process dies; its transaction is rolled back.
Crash(w) ==
    /\ task[w] # Idle /\ faults < MaxFaults
    /\ faults' = faults + 1
    /\ uneven' = (uneven \/ Creating(w))
    /\ Become(w, Idle)
    /\ UNCHANGED <<row, visit, shop, apart>>

Next == \E w \in Workers :
    \/ \E breaks \in 1..2 : RequestRepair(w, breaks)
    \/ Insert(w) \/ Select(w) \/ Apply(w) \/ Accept(w)
    \/ NewJob(w) \/ InsertJob(w)
    \/ \E j \in Jobs : Read(w, j) \/ Book(w, j) \/ Dispatch(w, j)
    \/ \E j, k \in Jobs : Swap(w, j, k)
    \/ \E S \in SUBSET Jobs : Bulk(w, S)
    \/ Save(w) \/ Acquire(w)
    \/ Confirm(w) \/ ApplyDispatch(w) \/ TradePlaces(w) \/ SaveBulk(w)
    \/ Refuse(w) \/ Deadlocked(w) \/ Crash(w)

Spec == Init /\ [][Next]_vars

-----------------------------------------------------------------------------
(* Properties.                                                             *)

TaskOK(t) ==
    \/ t = Idle
    \/ t \in [at : {"insert"}, breaks : 1..2, tech : Techs]
    \/ t \in [at : {"create"}, tech : Techs, queued : BOOLEAN]
    \/ t \in [at : {"save"}, job : Jobs, copy : Row]
    \/ \E S \in SUBSET Jobs :
          \/ t \in [at : {"select", "accept"}, todo : SUBSET S, copy : [S -> Row]]
          \/ t \in [at : {"apply"}, todo : SUBSET S, copy : [S -> Row],
                    tech : Techs \cup {NoTech}]
          \/ t \in [at : {"lock"}, op : {"book", "dispatch", "swap", "bulk", "reassign"},
                    jobs : {S}, named : S, next : S, holds : SUBSET S, copy : [S -> Row]]

TypeOK ==
    /\ row \in [Jobs -> Row]
    /\ visit \in [Jobs -> Jobs]
    /\ shop \in [strategy : Strategies, primary : Primaries]
    /\ DOMAIN task = Workers /\ \A w \in Workers : TaskOK(task[w])
    /\ apart \subseteq Jobs /\ uneven \in BOOLEAN
    /\ requests \in Nat /\ faults \in Nat

\* Lock the whole visit, so that a batch half-moved by someone else refuses rather
\* than splitting: whatever bookings, dispatches and swaps overlap, the breaks of a
\* visit are at one time, unless a screen that saves a single row has moved one.
\* (It is such a visit that the refusal is for; what it saves then is not claimed.)
VisitTogether ==
    \A j \in Existing : visit[j] \notin apart =>
        \A k \in Visit(j) : row[k].start = row[j].start /\ row[k].end = row[j].end

\* "The whole deadlock guard": transactions wait for each other in a circle only
\* if one of them is a dispatch, which locks its anchor first, or a bulk update.
BookingsNeverDeadlock ==
    \A C \in SUBSET Workers :
        WaitingInCircle(C) => \E w \in C : task[w].op \notin Ordered

InProgress ==
    UNION {IF task[w].at \in {"select", "apply"} THEN task[w].todo ELSE {} : w \in Workers}
JobsOf(t) == Cardinality({j \in Existing \ InProgress : row[j].tech = t})

\* CODE-278: a rotating shop gives its technicians the same number of jobs, or one
\* more, as long as jobs are created one by one, singly, and nobody is picked.
\* (CODE-279, that a queued row is nobody's turn, does not come up: a shop keeps its
\* strategy here, and one that rotates finds somebody for every job.)
RotationEven ==
    shop.strategy = "round_robin" /\ ~uneven => \A t, u \in Techs : JobsOf(t) <= JobsOf(u) + 1
=============================================================================
