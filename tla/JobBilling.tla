----------------------------- MODULE JobBilling -----------------------------
(* How finished jobs become invoices: the ticket button, "complete and      *)
(* send", the hook that invoices a completed job, the lists of uninvoiced   *)
(* work billed from the dashboard, the API, the admin and the cron, the     *)
(* nightly batch, and what staff do to invoices and jobs meanwhile: void,   *)
(* delete, restore, renumber, purge.  Nothing but a check made before the   *)
(* transaction keeps a job off a second invoice.                            *)
EXTENDS Naturals, Sequences, FiniteSets, FiniteSetsExt

CONSTANTS
    Jobs,        \* the completed repairs and replacements of one customer
    BreaksOf,    \* the breaks of a job's batch, the job itself included
    Workers,     \* request threads and cron processes
    MaxInvoices, \* bound: invoices ever created
    MaxNumber,   \* bound: invoice numbers
    MaxDay,      \* bound: the clock, in steps of the restore window
    MaxCrashes,  \* bound: processes killed half way
    Ops          \* the operations an instance exercises

ASSUME BatchAssumption ==
    /\ BreaksOf \in [Jobs -> SUBSET Jobs]
    /\ \A j \in Jobs : j \in BreaksOf[j]
ASSUME BoundAssumption ==
    /\ MaxInvoices \in Nat
    /\ MaxNumber \in Nat \ {0}
    /\ MaxDay \in Nat \ {0}
    /\ MaxCrashes \in Nat

VARIABLES
    job,      \* [done, deleted, gone] of each job; deleted = 0 when it is not
    invoices, \* the invoices in the order of their ids
    next,     \* BillingConfig.next_invoice_number
    lock,     \* the worker whose transaction holds the BillingConfig row
    today,
    crashes,
    worker    \* what each request or process has read and not yet written

vars == <<job, invoices, next, lock, today, crashes, worker>>

Numbers == 1..MaxNumber
Days == 1..MaxDay

(* An invoice.  SENT also stands for PARTIAL, PAID and OVERDUE: every check *)
(* here treats them alike.  GONE is a row that was purged.  The last three  *)
(* fields are history: made live again after it was void or deleted; jobs   *)
(* added later by the ticket button; the invoices there were when the       *)
(* creator checked.                                                         *)
Statuses == {"DRAFT", "SENT", "CANCELLED", "GONE"}
Invoice == [number : Numbers, jobs : SUBSET Jobs, status : Statuses,
            deleted : 0..MaxDay, mailed : BOOLEAN,
            revived : BOOLEAN, added : SUBSET Jobs, saw : 0..MaxInvoices]

Steps == {"idle", "numbering", "creating", "mailing", "marking", "adding",
          "listed", "open", "purging"}
Request == [step : Steps, jobs : SUBSET Jobs, rows : SUBSET (1..MaxInvoices),
            number : 0..MaxNumber, mails : BOOLEAN, mailed : BOOLEAN,
            saw : 0..MaxInvoices, moved : BOOLEAN]
Idle == [step |-> "idle", jobs |-> {}, rows |-> {}, number |-> 0,
         mails |-> FALSE, mailed |-> FALSE, saw |-> 0, moved |-> FALSE]

Init ==
    /\ job = [j \in Jobs |-> [done |-> FALSE, deleted |-> 0, gone |-> FALSE]]
    /\ invoices = <<>>
    /\ next = 1
    /\ lock = {}
    /\ today = 1
    /\ crashes = 0
    /\ worker = [w \in Workers |-> Idle]

-----------------------------------------------------------------------------
(* An invoice that bills its jobs: the status list every check repeats.     *)
Active(r) == r.status \in {"DRAFT", "SENT"} /\ r.deleted = 0

Billing(S) == {i \in DOMAIN invoices :
                 Active(invoices[i]) /\ invoices[i].jobs \cap S # {}}
Billable(j) == job[j].done /\ job[j].deleted = 0 /\ ~job[j].gone
Batch(j) == {b \in BreaksOf[j] : Billable(b)}
\* Mutant: a draft does not count as billed.
UnbilledButDrafts == {j \in Jobs : Billable(j) /\
    \A i \in Billing({j}) : invoices[i].status = "DRAFT"}

Unbilled == {j \in Jobs : Billable(j) /\ Billing({j}) = {}}

(* A number is taken for as long as its row exists, deleted or not.         *)
Taken(n) == \E i \in DOMAIN invoices :
              invoices[i].status # "GONE" /\ invoices[i].number = n

\* Mutant: the counter is trusted.
FreeByCounter == {n \in Numbers : n >= next}

Free == {n \in Numbers : n >= next /\ ~Taken(n)}
NextNumber == Min(Free)

Restorable(d) == d > 0 /\ d + 1 >= today
Expired(d) == d > 0 /\ d + 1 < today

New(req) == [number |-> req.number, jobs |-> req.jobs, status |-> "DRAFT",
             deleted |-> 0, mailed |-> req.mailed, revived |-> FALSE,
             added |-> {}, saw |-> req.saw]

Becomes(w, req) == worker' = [worker EXCEPT ![w] = req]
Holding(w) == worker[w].step \in {"creating", "open"}
(* The owner moved the counter back while somebody held this number.        *)
Contested(n) == \E v \in Workers : Holding(v) /\ worker[v].number = n /\ worker[v].moved

-----------------------------------------------------------------------------
(* A technician finishes the work.                                          *)
Complete(j) ==
    /\ "complete" \in Ops
    /\ ~job[j].done /\ job[j].deleted = 0
    /\ job' = [job EXCEPT ![j].done = TRUE]
    /\ UNCHANGED <<invoices, next, lock, today, crashes, worker>>

Checked(S, mails) == [Idle EXCEPT !.step = "numbering", !.jobs = S, !.mails = mails,
                                  !.saw = Len(invoices)]

(* create_invoice_from_services for chosen jobs: the hook that invoices a   *)
(* completed job, the dashboard, the API, the admin and process_billing.    *)
Pick(w, S, mails) ==
    /\ "pick" \in Ops
    /\ worker[w].step = "idle"
    /\ S # {} /\ \A j \in S : Billable(j)
    /\ Billing(S) = {}
    /\ Becomes(w, Checked(S, mails))
    /\ UNCHANGED <<job, invoices, next, lock, today, crashes>>

(* The ticket button on work that is on no invoice yet.                     *)
Ticket(w, j) ==
    /\ "ticket" \in Ops
    /\ worker[w].step = "idle" /\ Billable(j)
    /\ Billing(Batch(j)) = {}
    /\ Becomes(w, Checked(Batch(j), FALSE))
    /\ UNCHANGED <<job, invoices, next, lock, today, crashes>>

(* The ticket button when a draft has some of the batch: the breaks it      *)
(* misses will be added to it, wherever else they are billed.               *)
TicketFindsDraft(w, j, i) ==
    /\ "ticket" \in Ops
    /\ worker[w].step = "idle" /\ Billable(j)
    /\ i \in Billing(Batch(j))
    /\ invoices[i].status = "DRAFT"
    /\ Batch(j) \ invoices[i].jobs # {}
    /\ Becomes(w, [Idle EXCEPT !.step = "adding", !.rows = {i},
                               !.jobs = Batch(j) \ invoices[i].jobs])
    /\ UNCHANGED <<job, invoices, next, lock, today, crashes>>

(* It creates the lines and saves the whole invoice as it read it: a draft  *)
(* that is not deleted.                                                     *)
AddBreaks(w) ==
    /\ worker[w].step = "adding"
    /\ \E i \in worker[w].rows :
         LET r == invoices[i] S == worker[w].jobs IN    \* a purged row refuses its lines
         invoices' = [invoices EXCEPT ![i] =
                        IF r.status = "GONE" THEN r
                        ELSE [r EXCEPT !.jobs = @ \cup S, !.added = @ \cup S,
                                       !.status = "DRAFT", !.deleted = 0,
                                       !.revived = @ \/ ~Active(r)]]
    /\ Becomes(w, Idle)
    /\ UNCHANGED <<job, next, lock, today, crashes>>

(* invoice_and_send: bill the batch and e-mail the new invoice, or e-mail   *)
(* the draft that already bills part of it.                                 *)
Send(w, j) ==
    /\ "send" \in Ops
    /\ worker[w].step = "idle" /\ Billable(j)
    /\ Billing(Batch(j)) = {}
    /\ Becomes(w, Checked(Batch(j), TRUE))
    /\ UNCHANGED <<job, invoices, next, lock, today, crashes>>

SendFindsDraft(w, j, i) ==
    /\ "send" \in Ops
    /\ worker[w].step = "idle" /\ Billable(j)
    /\ i \in Billing(Batch(j))
    /\ invoices[i].status = "DRAFT"
    /\ Becomes(w, [Idle EXCEPT !.step = "mailing", !.rows = {i}])
    /\ UNCHANGED <<job, invoices, next, lock, today, crashes>>

(* allocate_invoice_number: under the lock of the BillingConfig row.        *)
Allocate(w) ==
    /\ worker[w].step = "numbering"
    /\ lock = {} /\ Free # {}
    /\ Becomes(w, [worker[w] EXCEPT !.step = "creating", !.number = NextNumber,
                                    !.moved = Contested(NextNumber)])
    /\ next' = NextNumber + 1
    /\ UNCHANGED <<job, invoices, lock, today, crashes>>

(* The transaction that inserts the invoice and its lines.  It waits for    *)
(* the uncommitted row of a batch with the same number.                     *)
Create(w) ==
    /\ worker[w].step = "creating"
    /\ \A v \in lock : worker[v].number # worker[w].number
    /\ ~Taken(worker[w].number) /\ Len(invoices) < MaxInvoices
    /\ invoices' = Append(invoices, New(worker[w]))
    /\ Becomes(w, IF worker[w].mails
                  THEN [Idle EXCEPT !.step = "mailing", !.rows = {Len(invoices) + 1}]
                  ELSE Idle)
    /\ UNCHANGED <<job, next, lock, today, crashes>>

(* The unique constraint on (tenant, invoice_number).                       *)
CreateRefused(w) ==
    /\ worker[w].step = "creating"
    /\ Taken(worker[w].number)
    /\ Becomes(w, Idle)
    /\ UNCHANGED <<job, invoices, next, lock, today, crashes>>

(* InvoiceSendService.send: the invoice was a draft when it was read.       *)
Deliver(w) ==
    /\ worker[w].step = "mailing"
    /\ invoices' = [i \in DOMAIN invoices |->
                      IF i \in worker[w].rows THEN [invoices[i] EXCEPT !.mailed = TRUE]
                      ELSE invoices[i]]
    /\ Becomes(w, [worker[w] EXCEPT !.step = "marking"])
    /\ UNCHANGED <<job, next, lock, today, crashes>>

\* Mutant: the outcome of the delivery is not looked at.
DeliveryIgnored(w) ==
    /\ worker[w].step = "mailing"
    /\ Becomes(w, [worker[w] EXCEPT !.step = "marking"])
    /\ UNCHANGED <<job, invoices, next, lock, today, crashes>>

DeliveryFails(w) ==
    /\ worker[w].step = "mailing"
    /\ Becomes(w, Idle)
    /\ UNCHANGED <<job, invoices, next, lock, today, crashes>>

(* record_email_sent saves the status of the copy: SENT, whatever the row   *)
(* has become.                                                              *)
MarkSent(w) ==
    /\ worker[w].step = "marking"
    /\ invoices' = [i \in DOMAIN invoices |->
                      IF i \in worker[w].rows /\ invoices[i].status # "GONE"
                      THEN [invoices[i] EXCEPT !.status = "SENT",
                              !.revived = @ \/ invoices[i].status = "CANCELLED"]
                      ELSE invoices[i]]
    /\ Becomes(w, Idle)
    /\ UNCHANGED <<job, next, lock, today, crashes>>

-----------------------------------------------------------------------------
(* process_batch_invoices reads the uninvoiced jobs outside any transaction *)
BatchList(w) ==
    /\ "batch" \in Ops
    /\ worker[w].step = "idle" /\ Unbilled # {}
    /\ Becomes(w, [Idle EXCEPT !.step = "listed", !.jobs = Unbilled,
                               !.saw = Len(invoices)])
    /\ UNCHANGED <<job, invoices, next, lock, today, crashes>>

(* and, without looking again, inserts the invoice and e-mails it in one    *)
(* transaction, which keeps the lock on the counter until it commits.       *)
BatchOpen(w) ==
    /\ worker[w].step = "listed"
    /\ lock = {} /\ Free # {}
    /\ lock' = {w}
    /\ Becomes(w, [worker[w] EXCEPT !.step = "open", !.number = NextNumber,
                                    !.moved = Contested(NextNumber)])
    /\ UNCHANGED <<job, invoices, next, today, crashes>>

BatchMail(w) ==
    /\ worker[w].step = "open" /\ ~worker[w].mailed
    /\ Becomes(w, [worker[w] EXCEPT !.mailed = TRUE])
    /\ UNCHANGED <<job, invoices, next, lock, today, crashes>>

BatchCommit(w) ==
    /\ worker[w].step = "open" /\ Len(invoices) < MaxInvoices
    /\ invoices' = Append(invoices,
                     [New(worker[w]) EXCEPT !.status = IF worker[w].mailed THEN "SENT" ELSE "DRAFT"])
    /\ next' = worker[w].number + 1
    /\ lock' = {}
    /\ Becomes(w, Idle)
    /\ UNCHANGED <<job, today, crashes>>

(* A process is killed: its transaction is rolled back, the counter too.    *)
Crash(w) ==
    /\ worker[w].step # "idle" /\ crashes < MaxCrashes
    /\ crashes' = crashes + 1
    /\ lock' = lock \ {w}
    /\ Becomes(w, Idle)
    /\ UNCHANGED <<job, invoices, next, today>>

-----------------------------------------------------------------------------
(* Staff.                                                                   *)
Changed(S, f(_)) == [i \in DOMAIN invoices |-> IF i \in S THEN f(invoices[i]) ELSE invoices[i]]

Void(i) ==
    /\ "void" \in Ops
    /\ Active(invoices[i])
    /\ invoices' = [invoices EXCEPT ![i].status = "CANCELLED"]
    /\ UNCHANGED <<job, next, lock, today, crashes, worker>>

Kept(S) == {i \in S : invoices[i].status # "GONE" /\ invoices[i].deleted = 0}
Binned(S) == {i \in S : invoices[i].status # "GONE" /\ invoices[i].deleted # 0}
Trash(r) == [r EXCEPT !.deleted = today]
Revive(r) == [r EXCEPT !.deleted = 0, !.revived = TRUE]
WithLine(j) == {i \in DOMAIN invoices : j \in invoices[i].jobs}

DeleteInvoice(i) ==
    /\ "trash" \in Ops
    /\ i \in Kept(DOMAIN invoices)
    /\ invoices' = Changed({i}, Trash)
    /\ UNCHANGED <<job, next, lock, today, crashes, worker>>

RestoreInvoice(i) ==
    /\ "trash" \in Ops
    /\ i \in Binned(DOMAIN invoices) /\ Restorable(invoices[i].deleted)
    /\ invoices' = Changed({i}, Revive)
    /\ UNCHANGED <<job, next, lock, today, crashes, worker>>

(* Deleting a job deletes every invoice that has it, restoring it restores  *)
(* every one, whenever and why ever it was deleted.                         *)
DeleteJob(j) ==
    /\ "trash" \in Ops
    /\ job[j].deleted = 0 /\ ~job[j].gone
    /\ job' = [job EXCEPT ![j].deleted = today]
    /\ invoices' = Changed(Kept(WithLine(j)), Trash)
    /\ UNCHANGED <<next, lock, today, crashes, worker>>

RestoreJob(j) ==
    /\ "trash" \in Ops
    /\ ~job[j].gone /\ Restorable(job[j].deleted)
    /\ job' = [job EXCEPT ![j].deleted = 0]
    /\ invoices' = Changed(Binned(WithLine(j)), Revive)
    /\ UNCHANGED <<next, lock, today, crashes, worker>>

(* The owner types the next number.  The update waits for the lock.         *)
Renumber(n) ==
    /\ "renumber" \in Ops
    /\ lock = {}
    /\ next' = n
    /\ worker' = [w \in Workers |->
                    IF worker[w].step = "creating" THEN [worker[w] EXCEPT !.moved = TRUE]
                    ELSE worker[w]]
    /\ UNCHANGED <<job, invoices, lock, today, crashes>>

-----------------------------------------------------------------------------
\* Mutant: everything in the bin is old enough.
AnyRows == Binned(DOMAIN invoices)

(* purge_deleted_records: first it lists what is old enough, sparing the    *)
(* jobs that an invoice outside the bin still bills,                        *)
OldRows == {i \in Binned(DOMAIN invoices) : Expired(invoices[i].deleted)}
OldJobs == {j \in Jobs : ~job[j].gone /\ Expired(job[j].deleted)}
SafeJobs == {j \in OldJobs : Kept(WithLine(j)) = {}}

PurgeList(w) ==
    /\ "purge" \in Ops
    /\ worker[w].step = "idle"
    /\ OldRows \cup SafeJobs # {}
    /\ Becomes(w, [Idle EXCEPT !.step = "purging", !.rows = OldRows, !.jobs = SafeJobs])
    /\ UNCHANGED <<job, invoices, next, lock, today, crashes>>

\* Mutant: the lines of any invoice go with the listed jobs.
PurgedFromAll(i, rows, S) ==
    LET r == invoices[i] IN
    IF i \in rows THEN [r EXCEPT !.status = "GONE", !.jobs = {}, !.added = {}]
    ELSE [r EXCEPT !.jobs = @ \ S, !.added = @ \ S]

(* then it deletes: the listed invoices, the lines that deleted invoices    *)
(* have of the listed jobs, and the jobs.                                   *)
Purged(i, rows, S) ==
    LET r == invoices[i] IN
    CASE i \in rows -> [r EXCEPT !.status = "GONE", !.jobs = {}, !.added = {}]
      [] i \in Binned(DOMAIN invoices) \ rows -> [r EXCEPT !.jobs = @ \ S, !.added = @ \ S]
      [] OTHER -> r

(* A listed job that a line still names by then is protected by it: the     *)
(* whole purge is rolled back.                                              *)
PurgeDelete(w) ==
    /\ worker[w].step = "purging"
    /\ LET after == [i \in DOMAIN invoices |-> Purged(i, worker[w].rows, worker[w].jobs)]
           named == UNION {after[i].jobs : i \in DOMAIN after}
       IN IF worker[w].jobs \cap named = {}
          THEN /\ invoices' = after
               /\ job' = [j \in Jobs |-> IF j \in worker[w].jobs
                                         THEN [job[j] EXCEPT !.gone = TRUE] ELSE job[j]]
          ELSE UNCHANGED <<job, invoices>>
    /\ Becomes(w, Idle)
    /\ UNCHANGED <<next, lock, today, crashes>>

(* The days of the restore window pass; requests last seconds.              *)
Tick ==
    /\ today < MaxDay
    /\ \A w \in Workers : worker[w].step = "idle"
    /\ today' = today + 1
    /\ UNCHANGED <<job, invoices, next, lock, crashes, worker>>

-----------------------------------------------------------------------------
Begin(w) ==
    \/ \E S \in SUBSET Jobs, mails \in BOOLEAN : Pick(w, S, mails)
    \/ \E j \in Jobs : Ticket(w, j) \/ Send(w, j)
    \/ \E j \in Jobs, i \in DOMAIN invoices : TicketFindsDraft(w, j, i) \/ SendFindsDraft(w, j, i)
    \/ BatchList(w)
    \/ PurgeList(w)

Progress(w) ==
    \/ Allocate(w) \/ Create(w) \/ CreateRefused(w) \/ AddBreaks(w)
    \/ Deliver(w) \/ DeliveryFails(w) \/ MarkSent(w)
    \/ BatchOpen(w) \/ BatchMail(w) \/ BatchCommit(w) \/ PurgeDelete(w)

Staff ==
    \/ \E j \in Jobs : Complete(j) \/ DeleteJob(j) \/ RestoreJob(j)
    \/ \E i \in DOMAIN invoices : Void(i) \/ DeleteInvoice(i) \/ RestoreInvoice(i)
    \/ \E n \in Numbers : Renumber(n)

Next ==
    \/ \E w \in Workers : Begin(w) \/ Progress(w) \/ Crash(w)
    \/ Staff
    \/ Tick

Spec == Init /\ [][Next]_vars

-----------------------------------------------------------------------------
(* Every variable keeps its shape, and only an open batch holds the lock of *)
(* the counter.                                                             *)
TypeOK ==
    /\ job \in [Jobs -> [done : BOOLEAN, deleted : 0..MaxDay, gone : BOOLEAN]]
    /\ invoices \in Seq(Invoice) /\ Len(invoices) <= MaxInvoices
    /\ next \in 1..(MaxNumber + 1)
    /\ lock = {w \in Workers : worker[w].step = "open"}
    /\ today \in Days
    /\ crashes \in 0..MaxCrashes
    /\ worker \in [Workers -> Request]

(* "Cannot bill the same repair twice" (create_invoice_from_services): two  *)
(* invoices in force bill the same job only when the later one was checked  *)
(* before the earlier existed, when one was brought back after the job had  *)
(* been freed, or when the ticket button added the job unchecked.           *)
BilledOnce ==
    \A i, k \in DOMAIN invoices :
        LET a == invoices[i] b == invoices[k] IN
        (i < k /\ Active(a) /\ Active(b) /\ i <= b.saw /\ ~a.revived /\ ~b.revived)
            => a.jobs \cap b.jobs \subseteq a.added \cup b.added

(* The row lock and the walk past taken numbers: unless the owner moved the *)
(* counter back under it, a request in flight holds a number that no        *)
(* invoice, deleted or not, and no other request has.                       *)
AllocatedIsFree ==
    \A w \in Workers :
        Holding(w) /\ ~worker[w].moved =>
            /\ ~Taken(worker[w].number)
            /\ \A v \in Workers \ {w} :
                 Holding(v) /\ worker[v].number = worker[w].number => worker[v].moved

(* An invoice says SENT only when its e-mail was delivered, even if it was  *)
(* void, deleted or added to while the e-mail was on its way.               *)
SentWasMailed ==
    \A i \in DOMAIN invoices : invoices[i].status = "SENT" => invoices[i].mailed

(* The purge takes no line from an invoice it leaves standing in force,     *)
(* whatever is restored between its listing and its deleting (CODE-258).    *)
LinesStay ==
    [][\A i \in DOMAIN invoices :
          (Active(invoices[i]) /\ invoices'[i].status # "GONE")
              => invoices[i].jobs \subseteq invoices'[i].jobs]_vars

(* What staff can still restore is never purged: an invoice that goes was   *)
(* past the window, or came back with its job after it was listed.          *)
RestorableStays ==
    [][/\ \A i \in DOMAIN invoices :
            (invoices[i].status # "GONE" /\ invoices'[i].status = "GONE")
                => Expired(invoices[i].deleted) \/ invoices[i].revived
       /\ \A j \in Jobs : (~job[j].gone /\ job'[j].gone) => Expired(job[j].deleted)]_vars
=============================================================================
