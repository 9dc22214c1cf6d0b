------------------------------- MODULE JobBoard -------------------------------
(***************************************************************************)
(* The repairs of one vehicle (apps/technician_portal, apps/customer_      *)
(* portal): staff move them along their queue status, the customer answers *)
(* on the portal or by the links of an e-mail, completion counts the       *)
(* repair for progressive pricing and awards loyalty points, the owner     *)
(* puts repairs in the trash and back.                                     *)
(*                                                                         *)
(* A staff request reads the rows it works on, without a lock, and saves   *)
(* every column of that copy later; Repair.save judges the change by the   *)
(* status of the copy.  The customer's answers lock the rows.  A price is  *)
(* represented by its tier, the repair's number on the vehicle.            *)
(***************************************************************************)
EXTENDS Integers, FiniteSets

CONSTANTS
    Workers,   \* web workers serving staff requests
    Jobs,      \* repairs that may come to exist
    MaxPairs,  \* bound: e-mails with a pair of links
    MaxFaults  \* bound: processes that die

VARIABLES
    row,      \* the Repair rows
    batch,    \* the repairs created together as the breaks of one windshield
    unit,     \* UnitRepairCount of the vehicle, or NoCount
    live,     \* emailed links not yet used
    issued,   \* pairs of links sent so far
    spent,    \* history: links that had an effect
    task,     \* what each worker is doing
    awarded,  \* history: how often a repair's completion has earned points
    history,  \* history: what has happened that the properties set apart
    faults    \* processes that have died

vars == <<row, batch, unit, live, issued, spent, task, awarded, history, faults>>

ASSUME BoardAssumption ==
    IsFiniteSet(Jobs) /\ MaxPairs \in Nat /\ MaxFaults \in Nat

NoCount == -1
Counts == Nat \cup {NoCount}
QueueStatus == {"REQUESTED", "PENDING", "APPROVED", "IN_PROGRESS", "COMPLETED", "DENIED"}
Row == [status : QueueStatus \cup {"none"}, deleted : BOOLEAN, tier : Nat]
Link == [job : Jobs, pair : 1..MaxPairs, answer : {"APPROVED", "DENIED"}]

\* What a single save is followed by: nothing, the breaks of the same batch,
\* or the automatic acceptance of a customer's request.
Sequels == {"done", "siblings", "accept"}

Task ==
         [at : {"idle"}]
    \cup [at : {"price", "save", "hooks"}, job : Jobs, held : Row, to : QueueStatus,
          tier : Nat, sequel : Sequels]
    \cup [at : {"siblings"}, job : Jobs, to : QueueStatus]
    \cup [at : {"commit"}, jobs : SUBSET Jobs, held : [Jobs -> Row], to : QueueStatus]
    \cup [at : {"trash"}, job : Jobs, held : Row, trashed : BOOLEAN]
    \cup [at : {"tally", "clear"}]
    \cup [at : {"recount"}, count : Nat]

TypeOK ==
    /\ row \in [Jobs -> Row]
    /\ batch \subseteq Jobs
    /\ unit \in Counts
    /\ live \subseteq Link /\ spent \subseteq Link /\ issued \in 0..MaxPairs
    /\ task \in [Workers -> Task]
    /\ awarded \in [Jobs -> Nat]
    /\ history \in [{"stale", "overlapped", "recounted", "replaced"} -> BOOLEAN]
    /\ faults \in Nat

Idle == [at |-> "idle"]
NoRow == [status |-> "none", deleted |-> FALSE, tier |-> 0]

Init ==
    /\ row = [j \in Jobs |-> NoRow]
    /\ batch \in {{}, Jobs}
    /\ unit = NoCount
    /\ live = {} /\ issued = 0 /\ spent = {}
    /\ task = [w \in Workers |-> Idle]
    /\ awarded = [j \in Jobs |-> 0]
    /\ history = [h \in {"stale", "overlapped", "recounted", "replaced"} |-> FALSE]
    /\ faults = 0

-----------------------------------------------------------------------------
(* Repair.save.                                                            *)

\* Mutant: a manager may send a completed repair back to work.
TransitionsWithRework(status) ==
    CASE status = "none"        -> QueueStatus
      [] status = "IN_PROGRESS" -> {"APPROVED", "COMPLETED"}
      [] status = "COMPLETED"   -> {"APPROVED"}
      [] status = "DENIED"      -> {"PENDING", "APPROVED"}
      [] OTHER                  -> {"APPROVED", "IN_PROGRESS", "COMPLETED", "DENIED"}

\* ALLOWED_STATUS_TRANSITIONS.  A new row starts as the form says (PENDING, unless
\* the customer wants to approve, becomes APPROVED), or REQUESTED by the customer.
Transitions(status) ==
    CASE status = "none"        -> QueueStatus
      [] status = "REQUESTED"   -> {"PENDING", "APPROVED", "IN_PROGRESS", "COMPLETED", "DENIED"}
      [] status = "PENDING"     -> {"APPROVED", "IN_PROGRESS", "COMPLETED", "DENIED"}
      [] status = "APPROVED"    -> {"PENDING", "IN_PROGRESS", "COMPLETED", "DENIED"}
      [] status = "IN_PROGRESS" -> {"APPROVED", "COMPLETED"}
      [] status = "COMPLETED"   -> {}
      [] status = "DENIED"      -> {"PENDING", "APPROVED"}

\* A repair counts once, on its first transition into COMPLETED.
FirstCompletion(held, to) == to = "COMPLETED" /\ held.status # "COMPLETED"

\* get_or_create: every save makes sure that the counter row exists.
Ensured == IF unit = NoCount THEN 0 ELSE unit

\* Mutant: the award is not tied to the transition.
EarnsOnEverySave(held, to) == to = "COMPLETED"

\* loyalty_hook: nothing for a repair that was COMPLETED when it was read.
Earns(held, to) == FirstCompletion(held, to)

\* handle_repair_status_change: the rows that a save moves to PENDING, judged
\* by the database, get an e-mail with a pair of links each, unless the
\* customer has no user or the links cannot be made, which is only logged.
Announced(S, to) ==
    {j \in S : to = "PENDING" /\ row[j].status # "PENDING" /\ ~row[j].deleted}

SendsLinks(S, to) ==
    \/ UNCHANGED <<live, issued>>
    \/ /\ Announced(S, to) # {} /\ issued < MaxPairs
       /\ issued' = issued + 1
       /\ live' = live \cup [job : Announced(S, to), pair : {issued + 1},
                             answer : {"APPROVED", "DENIED"}]

\* Full-row saves over rows that have changed since they were read.
NotesStale(S, held) ==
    history' = [history EXCEPT !["stale"] = @ \/ \E j \in S : held[j] # row[j]]

-----------------------------------------------------------------------------
(* Requests about one repair, in autocommit: read, price, save, hooks.     *)

\* A request that starts while another is under way.
NotesOverlap ==
    history' = [history EXCEPT !["overlapped"] = @ \/ \E v \in Workers : task[v] # Idle]

\* Where a request stands that is about to save copy `held` with status `to`.
ToSave(j, held, to, sequel) ==
    [at |-> IF FirstCompletion(held, to) THEN "price" ELSE "save",
     job |-> j, held |-> held, to |-> to, tier |-> held.tier, sequel |-> sequel]

\* The status buttons, the edit form, assigning, taking over and "complete":
\* each allows some of the transitions, or saves the row with its status.
OpenJob(w, j) ==
    /\ task[w] = Idle
    /\ row[j].status # "none" /\ ~row[j].deleted
    /\ \E to \in Transitions(row[j].status) \cup {row[j].status},
          sequel \in {"done", "siblings"} :
          /\ sequel = "siblings" =>
                j \in batch /\ row[j].status = "PENDING" /\ to \in {"APPROVED", "DENIED"}
          /\ task' = [task EXCEPT ![w] = ToSave(j, row[j], to, sequel)]
    /\ NotesOverlap
    /\ UNCHANGED <<row, batch, unit, live, issued, spent, awarded, faults>>

\* Staff enter a repair or a warranty claim; the customer's request is accepted at once.
CreateJob(w, j) ==
    /\ task[w] = Idle
    /\ j \notin batch /\ row[j].status = "none"
    /\ \A v \in Workers : task[v].at \in {"price", "save"} => task[v].job # j
    /\ \E to \in Transitions("none"), sequel \in {"done", "accept"} :
          /\ sequel = "accept" => to = "REQUESTED"
          /\ task' = [task EXCEPT ![w] = ToSave(j, NoRow, to, sequel)]
    /\ NotesOverlap
    /\ UNCHANGED <<row, batch, unit, live, issued, spent, awarded, faults>>

\* The counter is incremented under its row lock and committed before the row is saved.
Price(w) ==
    /\ task[w].at = "price"
    /\ unit' = Ensured + 1
    /\ task' = [task EXCEPT ![w].at = "save",
                            ![w].tier = IF task[w].job \in batch THEN @ ELSE Ensured + 1]
    /\ UNCHANGED <<row, batch, live, issued, spent, awarded, history, faults>>

\* Mutant: a completed repair is priced again when it is saved again.
TierByCounter(held, to, tier) == IF to = "COMPLETED" THEN Ensured ELSE 0

\* A COMPLETED repair keeps the price of its completion.
TierSaved(held, to, tier) == IF to = "COMPLETED" THEN tier ELSE 0

SaveJob(w) ==
    LET t == task[w]
        now == [status |-> t.to, deleted |-> t.held.deleted,
                tier |-> TierSaved(t.held, t.to, t.tier)]
    IN /\ t.at = "save"
       /\ row' = [row EXCEPT ![t.job] = now]
       /\ unit' = IF FirstCompletion(t.held, t.to) THEN unit ELSE Ensured
       /\ SendsLinks({t.job}, t.to)
       /\ NotesStale({t.job}, [k \in {t.job} |-> t.held])
       /\ task' = [task EXCEPT ![w] =
                     CASE t.to = "COMPLETED"      -> [t EXCEPT !.at = "hooks"]
                       [] t.sequel = "accept"   -> ToSave(t.job, now, "APPROVED", "done")
                       [] t.sequel = "siblings" -> [at |-> "siblings", job |-> t.job, to |-> t.to]
                       [] OTHER                 -> Idle]
       /\ UNCHANGED <<batch, spent, awarded, faults>>

RunHooks(w) ==
    /\ task[w].at = "hooks"
    /\ awarded' = [awarded EXCEPT ![task[w].job] =
                     IF Earns(task[w].held, task[w].to) THEN @ + 1 ELSE @]
    /\ task' = [task EXCEPT ![w] = Idle]
    /\ UNCHANGED <<row, batch, unit, live, issued, spent, history, faults>>

-----------------------------------------------------------------------------
(* Requests about several repairs: one transaction, without row locks.     *)

Present(S, statuses) == {j \in S : row[j].status \in statuses /\ ~row[j].deleted}

Take(w, S, to) ==
    /\ task' = [task EXCEPT ![w] = [at |-> "commit", jobs |-> S, to |-> to,
                      held |-> [j \in Jobs |-> IF j \in S THEN row[j] ELSE NoRow]]]
    /\ UNCHANGED <<row, batch, unit, live, issued, spent, awarded, faults>>

\* Accepting or refusing one break of a batch does so for those still PENDING.
TakeSiblings(w) ==
    /\ task[w].at = "siblings"
    /\ Take(w, Present(batch \ {task[w].job}, {"PENDING"}), task[w].to)
    /\ UNCHANGED history

\* The bulk actions of the job list and of the admin.  A reset that meets a
\* repair in progress raises, and nothing of it remains.
BulkAction(w) ==
    /\ task[w] = Idle
    /\ \/ \E S \in SUBSET Present(Jobs, {"PENDING", "REQUESTED"}) \ {{}},
             to \in {"APPROVED", "DENIED"} : Take(w, S, to)
       \/ \E S \in SUBSET Present(Jobs, QueueStatus \ {"COMPLETED", "IN_PROGRESS"}) \ {{}} :
             Take(w, S, "PENDING")
    /\ NotesOverlap

\* The buttons of the batch page: a technician's own breaks, or all of them.
BatchAction(w) ==
    /\ task[w] = Idle
    /\ \/ \E S \in SUBSET Present(batch, {"APPROVED"}) \ {{}} : Take(w, S, "IN_PROGRESS")
       \/ \E S \in SUBSET Present(batch, {"APPROVED", "IN_PROGRESS"}) \ {{}} :
             Take(w, S, "COMPLETED")
    /\ NotesOverlap

\* A multi-break repair: all breaks, or none.
CreateBatch(w) ==
    /\ task[w] = Idle
    /\ batch # {} /\ \A j \in batch : row[j].status = "none"
    /\ \A v \in Workers : task[v].at # "commit"
    /\ \E to \in {"PENDING", "APPROVED"} : Take(w, batch, to)
    /\ NotesOverlap

\* The breaks completed in this transaction count when it commits.
Commit(w) ==
    LET t == task[w]
        S == t.jobs
        first == {j \in S : FirstCompletion(t.held[j], t.to)}
        Now(j) == [t.held[j] EXCEPT !.status = t.to, !.tier = TierSaved(t.held[j], t.to, @)]
    IN /\ t.at = "commit"
       /\ row' = [j \in Jobs |-> IF j \in S THEN Now(j) ELSE row[j]]
       /\ unit' = IF S = {} THEN unit ELSE Ensured + Cardinality(first)
       /\ awarded' = [j \in Jobs |->
                        IF j \in S /\ Earns(t.held[j], t.to) THEN awarded[j] + 1 ELSE awarded[j]]
       /\ SendsLinks(S, t.to)
       /\ NotesStale(S, t.held)
       /\ task' = [task EXCEPT ![w] = Idle]
       /\ UNCHANGED <<batch, spent, faults>>

-----------------------------------------------------------------------------
(* The trash.                                                              *)

OpenTrash(w, j) ==
    /\ task[w] = Idle
    /\ row[j].status # "none"
    /\ task' = [task EXCEPT ![w] = [at |-> "trash", job |-> j, held |-> row[j],
                                    trashed |-> ~row[j].deleted]]
    /\ NotesOverlap
    /\ UNCHANGED <<row, batch, unit, live, issued, spent, awarded, faults>>

\* Mutant: only deletion rebuilds the counter.
RecountsOnDelete(held, trashed) == held.status = "COMPLETED" /\ trashed

\* delete_repair and restore_repair rebuild the counter for a completed repair.
Recounts(held, trashed) == held.status = "COMPLETED"

\* Only deleted_at is written; the save looks after the counter row as any other.
MoveToTrash(w) ==
    LET t == task[w] IN
    /\ t.at = "trash"
    /\ row' = [row EXCEPT ![t.job].deleted = t.trashed]
    /\ unit' = Ensured
    /\ task' = [task EXCEPT ![w] = IF Recounts(t.held, t.trashed) THEN [at |-> "tally"] ELSE Idle]
    /\ UNCHANGED <<batch, live, issued, spent, awarded, history, faults>>

\* rebuild_unit_repair_counts: count, delete the row, create it.
Tally(w) ==
    /\ task[w].at = "tally"
    /\ task' = [task EXCEPT ![w] = [at |-> "recount",
                                    count |-> Cardinality(Present(Jobs, {"COMPLETED"}))]]
    /\ unit' = NoCount
    /\ history' = [history EXCEPT !["recounted"] = TRUE]
    /\ UNCHANGED <<row, batch, live, issued, spent, awarded, faults>>

\* A row that another request has created meanwhile stays, the error is swallowed.
Recount(w) ==
    /\ task[w].at = "recount"
    /\ unit' = IF unit = NoCount /\ task[w].count > 0 THEN task[w].count ELSE unit
    /\ task' = [task EXCEPT ![w] = Idle]
    /\ UNCHANGED <<row, batch, live, issued, spent, awarded, history, faults>>

\* A new windshield starts the count over, if there is one.
ReplacementCompletes ==
    /\ unit # NoCount
    /\ unit' = 0
    /\ history' = [history EXCEPT !["replaced"] = TRUE]
    /\ UNCHANGED <<row, batch, live, issued, spent, task, awarded, faults>>

-----------------------------------------------------------------------------
(* The customer's answers: rows locked and looked at again.                *)

Answer(S, to) ==
    /\ row' = [j \in Jobs |-> IF j \in S THEN [row[j] EXCEPT !.status = to, !.tier = 0] ELSE row[j]]
    /\ unit' = Ensured
    /\ NotesOverlap
    /\ UNCHANGED <<batch, issued, task, awarded, faults>>

\* One repair with the pending breaks of its batch, a whole batch, or a selection.
CustomerAnswers ==
    /\ \E S \in SUBSET Present(Jobs, {"PENDING"}) \ {{}}, to \in {"APPROVED", "DENIED"} :
          Answer(S, to)
    /\ UNCHANGED <<live, spent>>

\* Mutant: the other link of the e-mail stays valid.
UsesUpItself(l) == {l}

\* mark_used, and every unused link of the other answer for this repair.
UsesUp(l) == {l} \cup {m \in live : m.job = l.job /\ m.answer # l.answer}

\* A link from an e-mail decides for its own repair only.  That links expire
\* after 72 hours is left out: one that is never followed has no effect.
FollowLink(l) ==
    /\ l \in live
    /\ l.job \in Present(Jobs, {"PENDING"})
    /\ Answer({l.job}, l.answer)
    /\ live' = live \ UsesUp(l)
    /\ spent' = spent \cup {l}

-----------------------------------------------------------------------------
\* An exception or a restart: what was committed stays.
Crash(w) ==
    /\ task[w] # Idle
    /\ faults < MaxFaults
    /\ faults' = faults + 1
    /\ task' = [task EXCEPT ![w] = Idle]
    /\ UNCHANGED <<row, batch, unit, live, issued, spent, awarded, history>>

Proceed(w) ==
    \/ Price(w) \/ SaveJob(w) \/ RunHooks(w) \/ TakeSiblings(w) \/ Commit(w)
    \/ MoveToTrash(w) \/ Tally(w) \/ Recount(w)

Next ==
    \/ \E w \in Workers :
          \/ \E j \in Jobs : OpenJob(w, j) \/ CreateJob(w, j) \/ OpenTrash(w, j)
          \/ BulkAction(w) \/ BatchAction(w) \/ CreateBatch(w)
          \/ Proceed(w) \/ Crash(w)
    \/ ReplacementCompletes
    \/ CustomerAnswers
    \/ \E l \in live : FollowLink(l)

Spec == Init /\ [][Next]_vars

-----------------------------------------------------------------------------
(* Properties.                                                             *)

Done(j) == row[j].status = "COMPLETED"

Quiet == \A w \in Workers : task[w] = Idle

\* A completed repair never leaves COMPLETED, whoever works on it, unless a
\* request saves a copy of a row that has changed since it was read: the
\* customer's answers, by whatever way, never do it.
CompletedIsTerminal ==
    [][\A j \in Jobs : Done(j) /\ ~Done(j)' => history'["stale"]]_vars

\* Without such a save a repair earns its points once: never twice, and in the
\* end exactly if it is completed (hooks.py, the CODE-166 cycle), crashes apart.
PointsFollowWork ==
    ~history["stale"] =>
        \A j \in Jobs :
            /\ awarded[j] <= 1
            /\ awarded[j] = 1 => Done(j)
            /\ Quiet /\ faults = 0 /\ Done(j) => awarded[j] = 1

\* As long as nothing was recounted and no new windshield was fitted, two
\* completed repairs of the vehicle are never priced at the same tier: overlaps,
\* crashes and even stale saves included (models.py, C5 and A1).
DistinctTiers ==
    ~history["recounted"] /\ ~history["replaced"] =>
        \A j, k \in Jobs \ batch : j # k /\ Done(j) /\ Done(k) => row[j].tier # row[k].tier

\* After complete requests, one at a time, the counter is the number of completed
\* repairs outside the trash, through any sequence of deletions and restorations
\* (CODE-068), until a new windshield starts the count over.
CountMatchesWork ==
    Quiet /\ faults = 0 /\ ~history["overlapped"] /\ ~history["replaced"] =>
        Ensured = Cardinality(Present(Jobs, {"COMPLETED"}))

\* An e-mail decides once: of a pair of links at most one ever has an effect,
\* and when one had, neither is live any more, however often the repair is
\* put back to PENDING and announced again.
LinkActsOnce ==
    \A l \in spent :
        \A m \in Link : m.job = l.job /\ m.pair = l.pair =>
            m \notin live /\ (m \in spent => m = l)
=============================================================================
