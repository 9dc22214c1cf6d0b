------------------------------- MODULE Quotes -------------------------------
(* The life of a quote and its revisions: the shop writes, sends, edits,    *)
(* revises and deletes, the customer answers by the e-mailed link or on the *)
(* portal, and either may be in the middle of a request when the other      *)
(* acts.  Answers and revisions lock the row and look again; edits, sends   *)
(* and deletions act on the copy they read.                                 *)
EXTENDS Naturals, FiniteSets

CONSTANTS
    Workers,   \* request threads
    MaxQuotes, \* bound: quotes ever written
    MaxDay     \* bound: the calendar

ASSUME BoundAssumption == MaxQuotes \in Nat /\ MaxDay \in Nat \ {0}

VARIABLES
    quote,   \* the rows, by id
    jobs,    \* how often the jobs of each quote have been created
    request, \* what each worker has read and not yet written
    today,
    stale    \* history: quotes saved or deleted in a status they no longer had

vars == <<quote, jobs, request, today, stale>>

Quotes == 1..MaxQuotes
Days == 1..MaxDay

(* NONE and GONE are no rows: not written yet, and deleted.  sent is        *)
(* sent_at, `of` is supersedes (0: null).                                   *)
Statuses == {"NONE", "GONE", "DRAFT", "SENT", "ACCEPTED", "DECLINED", "EXPIRED", "SUPERSEDED"}
OpenStatuses == {"DRAFT", "SENT"}
Row == [status : Statuses, until : Days, sent : BOOLEAN, of : 0..MaxQuotes]

Request == [step : {"idle"}]
    \cup [step : {"edit", "send", "delete", "view"}, id : Quotes, copy : Row]
Idle == [step |-> "idle"]

TypeOK ==
    /\ quote \in [Quotes -> Row]
    /\ jobs \in [Quotes -> Nat]
    /\ request \in [Workers -> Request]
    /\ today \in Days
    /\ stale \subseteq Quotes

Init ==
    /\ quote = [q \in Quotes |-> [status |-> "NONE", until |-> 1, sent |-> FALSE, of |-> 0]]
    /\ jobs = [q \in Quotes |-> 0]
    /\ request = [w \in Workers |-> Idle]
    /\ today = 1
    /\ stale = {}

-----------------------------------------------------------------------------
Past(r) == r.until < today

\* Mutant: an accepted quote can be accepted again.
AcceptableTwice(r) == r.status \in OpenStatuses \cup {"ACCEPTED"} /\ ~Past(r)

Acceptable(r) == r.status \in OpenStatuses /\ ~Past(r)
Revisable(r) == r.status \in {"SENT", "DECLINED", "EXPIRED"}

\* Mutant: a revised quote stays as it is.
AfterRevisionAsBefore(status) == status

(* A declined quote keeps its answer.                                       *)
AfterRevision(status) == IF status = "DECLINED" THEN status ELSE "SUPERSEDED"

Deletable(r) == r.status = "DRAFT"

Draft(d, parent) == [status |-> "DRAFT", until |-> d, sent |-> FALSE, of |-> parent]
Fresh(q) == quote[q].status = "NONE" /\ \A p \in 1..(q - 1) : quote[p].status # "NONE"

Begin(w, step, q) ==
    /\ request[w] = Idle
    /\ request' = [request EXCEPT ![w] = [step |-> step, id |-> q, copy |-> quote[q]]]
    /\ UNCHANGED <<quote, jobs, today, stale>>
Doing(w, step, q) == request[w].step = step /\ request[w].id = q
End(w) == request' = [request EXCEPT ![w] = Idle]

(* What w writes to q replaces a status that w has not seen.                *)
Overwrites(w, q) ==
    stale' = IF quote[q].status = request[w].copy.status THEN stale ELSE stale \cup {q}

-----------------------------------------------------------------------------
(* The shop.  The form creates a quote,                                     *)
Write(q, d) ==
    /\ Fresh(q) /\ d >= today
    /\ quote' = [quote EXCEPT ![q] = Draft(d, 0)]
    /\ UNCHANGED <<jobs, request, today, stale>>

(* or edits one that was open when it was read: all columns are saved, a    *)
(* deleted row is inserted again (if what it supersedes is still there).    *)
BeginEdit(w, q) == quote[q].status \in OpenStatuses /\ Begin(w, "edit", q)

Edited(w, d) == [request[w].copy EXCEPT !.until = d]
Insertable(r) == r.of # 0 => quote[r.of].status # "GONE"

(* "Save and send" goes on to send_quote with the row just saved.           *)
SaveEdit(w, q, d, send) ==
    /\ Doing(w, "edit", q) /\ d >= today /\ Insertable(request[w].copy)
    /\ quote' = [quote EXCEPT ![q] = Edited(w, d)]
    /\ Overwrites(w, q)
    /\ request' = [request EXCEPT ![w] =
                     IF send THEN [step |-> "send", id |-> q, copy |-> Edited(w, d)]
                     ELSE Idle]
    /\ UNCHANGED <<jobs, today>>

(* send_quote: the e-mail goes out between the check and the save.          *)
BeginSend(w, q) ==
    /\ quote[q].status \in OpenStatuses /\ ~Past(quote[q])
    /\ Begin(w, "send", q)

MarkSent(w, q) ==
    /\ Doing(w, "send", q) /\ quote[q].status # "GONE"
    /\ quote' = [quote EXCEPT ![q].status = "SENT", ![q].sent = TRUE]
    /\ Overwrites(w, q)
    /\ End(w)
    /\ UNCHANGED <<jobs, today>>

BeginDelete(w, q) == Deletable(quote[q]) /\ Begin(w, "delete", q)

(* Its revisions forget it, its jobs too.                                   *)
Delete(w, q) ==
    /\ Doing(w, "delete", q)
    /\ quote' = [p \in Quotes |-> IF p = q THEN [quote[p] EXCEPT !.status = "GONE"]
                                  ELSE IF quote[p].of = q THEN [quote[p] EXCEPT !.of = 0]
                                  ELSE quote[p]]
    /\ Overwrites(w, q)
    /\ End(w)
    /\ UNCHANGED <<jobs, today>>

(* revise_quote: a new draft, and the old quote closed, under its lock.     *)
Revise(q, p, d) ==
    /\ Revisable(quote[q]) /\ Fresh(p) /\ d >= today
    /\ quote' = [quote EXCEPT ![p] = Draft(d, q), ![q].status = AfterRevision(@)]
    /\ UNCHANGED <<jobs, request, today, stale>>

-----------------------------------------------------------------------------
(* accept_quote and decline_quote: by the link, on the portal or recorded   *)
(* by the shop, under the lock of the row.                                  *)
Accept(q) ==
    /\ Acceptable(quote[q])
    /\ quote' = [quote EXCEPT ![q].status = "ACCEPTED"]
    /\ jobs' = [jobs EXCEPT ![q] = @ + 1]
    /\ UNCHANGED <<request, today, stale>>

Decline(q) ==
    /\ quote[q].status \in OpenStatuses
    /\ quote' = [quote EXCEPT ![q].status = "DECLINED"]
    /\ UNCHANGED <<jobs, request, today, stale>>

(* Every list and detail page stamps what is past its date; the customer's  *)
(* page stamps what it found past its date, if it is still SENT.            *)
ExpireStale ==
    /\ \E q \in Quotes : quote[q].status = "SENT" /\ Past(quote[q])
    /\ quote' = [q \in Quotes |-> IF quote[q].status = "SENT" /\ Past(quote[q])
                                  THEN [quote[q] EXCEPT !.status = "EXPIRED"] ELSE quote[q]]
    /\ UNCHANGED <<jobs, request, today, stale>>

BeginView(w, q) ==
    /\ quote[q].status = "SENT" /\ Past(quote[q])
    /\ Begin(w, "view", q)

ExpireViewed(w, q) ==
    /\ Doing(w, "view", q)
    /\ quote' = [quote EXCEPT ![q].status = IF @ = "SENT" THEN "EXPIRED" ELSE @]
    /\ End(w)
    /\ UNCHANGED <<jobs, today, stale>>

(* The e-mail is refused, the row is gone, or the process dies.             *)
GiveUp(w) ==
    /\ request[w] # Idle
    /\ End(w)
    /\ UNCHANGED <<quote, jobs, today, stale>>

Tomorrow ==
    /\ today < MaxDay
    /\ today' = today + 1
    /\ UNCHANGED <<quote, jobs, request, stale>>

-----------------------------------------------------------------------------
Shop ==
    \/ \E q \in Quotes, d \in Days : Write(q, d)
    \/ \E q, p \in Quotes, d \in Days : Revise(q, p, d)

Answer == \E q \in Quotes : Accept(q) \/ Decline(q)

Step(w, q) ==
    \/ BeginEdit(w, q) \/ BeginSend(w, q) \/ BeginDelete(w, q) \/ BeginView(w, q)
    \/ \E d \in Days, send \in BOOLEAN : SaveEdit(w, q, d, send)
    \/ MarkSent(w, q) \/ Delete(w, q) \/ ExpireViewed(w, q)

Next ==
    \/ Shop \/ Answer \/ ExpireStale \/ Tomorrow
    \/ \E w \in Workers : GiveUp(w) \/ \E q \in Quotes : Step(w, q)

Spec == Init /\ [][Next]_vars

-----------------------------------------------------------------------------
(* "Two clicks on the emailed link cannot create the jobs twice", whichever *)
(* doors they come through, before and after expiry and revision: a quote   *)
(* has its jobs once and exactly if it stands accepted, unless a request    *)
(* overwrote a status it had not seen (quote_service.accept_quote).         *)
JobsOnce ==
    \A q \in Quotes \ stale : jobs[q] = IF quote[q].status = "ACCEPTED" THEN 1 ELSE 0

(* "Revision is a supersede chain" (quote_models.py): the offer a revision   *)
(* was made from made no jobs and can not be accepted any more, and it has   *)
(* that one revision, through edits, expiry and deletions of drafts.  Not so *)
(* for a DECLINED quote, which keeps its answer and can be revised again:    *)
(* the customer may hold several offers for its work.  Set apart: a quote    *)
(* whose status a request overwrote unseen, which can be open again.         *)
OneOfferStands ==
    \A p \in Quotes : quote[p].of \in Quotes \ stale =>
        LET q == quote[p].of IN
        /\ quote[q].status \in {"SUPERSEDED", "DECLINED"} /\ jobs[q] = 0
        /\ quote[q].status = "SUPERSEDED" => \A r \in Quotes : quote[r].of = q => r = p
=============================================================================
