---------------------------- MODULE Quotes_proofs ----------------------------
(* Proofs about Quotes, for any number of workers, quotes and days.          *)
EXTENDS Quotes, TLAPS

(* What a request holds: it started from an open row (a deletion from a      *)
(* draft).                                                                   *)
CopiesOpen ==
    \A w \in Workers :
        LET c == request[w].copy IN
        /\ request[w].step \in {"edit", "send"} => c.status \in OpenStatuses
        /\ request[w].step = "delete" => c.status = "DRAFT"

(* What an edit holds of the chain is what stands, or was cut when the       *)
(* parent was deleted: then the parent is in the history.                    *)
SameParent(a, b) == a = b \/ (a = 0 /\ b \in stale) \/ (b = 0 /\ a \in stale)
Editing(w) == request[w].step = "edit"

CopiesChained ==
    \A w \in Workers : Editing(w) =>
        /\ quote[request[w].id].status # "NONE"
        /\ SameParent(request[w].copy.of, quote[request[w].id].of)
        /\ \A v \in Workers : (Editing(v) /\ request[v].id = request[w].id)
              => SameParent(request[w].copy.of, request[v].copy.of)

(* The chain of revisions.                                                   *)
ChainStands ==
    \A p \in Quotes : quote[p].of \in Quotes \ stale =>
        LET q == quote[p].of IN
        /\ quote[q].status \in {"SUPERSEDED", "DECLINED"}
        /\ quote[q].status = "SUPERSEDED" => \A r \in Quotes : quote[r].of = q => r = p

(* The inductive invariant: the jobs, the chain, and what the requests hold *)
IInv ==
    /\ TypeOK
    /\ JobsOnce
    /\ ChainStands
    /\ CopiesOpen
    /\ CopiesChained

USE DEF Statuses, OpenStatuses, Row

(* The initial state has no quotes, no jobs and no requests.                 *)
THEOREM Initially == Init => IInv
BY BoundAssumption DEF Init, IInv, TypeOK, JobsOnce, ChainStands,
                       CopiesOpen, CopiesChained, Editing, Request, Idle, Quotes, Days

(* The null of supersedes is not an id.                                      *)
LEMMA NullIsNoQuote == 0 \notin Quotes /\ 0 \in 0..MaxQuotes /\ Quotes \subseteq 0..MaxQuotes
BY BoundAssumption DEF Quotes

(* Whatever leaves the rows, the jobs and the history alone keeps the        *)
(* properties; what the requests hold is shown apart.                        *)
LEMMA RowsKept ==
    ASSUME IInv, UNCHANGED <<quote, jobs, stale>>
    PROVE  JobsOnce' /\ ChainStands'
BY DEF IInv, JobsOnce, ChainStands

(* A request begins with a copy of an open row (to delete: of a draft).      *)
LEMMA BeginStep ==
    ASSUME IInv, NEW w \in Workers, NEW q \in Quotes,
           NEW step \in {"edit", "send", "delete", "view"},
           Begin(w, step, q),
           step \in {"edit", "send"} => quote[q].status \in OpenStatuses,
           step = "delete" => quote[q].status = "DRAFT"
    PROVE  IInv'
<1>1. TypeOK' BY DEF IInv, TypeOK, Begin, Request
<1>2. CopiesOpen'
  BY DEF IInv, TypeOK, Begin, Request, CopiesOpen
<1>3. CopiesChained'
  BY DEF IInv, TypeOK, Begin, Request, CopiesChained, SameParent, Editing
<1>. QED BY <1>1, <1>2, <1>3, RowsKept DEF IInv, Begin

(* A worker whose request ends, while the rest stays.                        *)
LEMMA GiveUpStep ==
    ASSUME IInv, NEW w \in Workers, GiveUp(w)
    PROVE  IInv'
<1>1. TypeOK' BY DEF IInv, TypeOK, GiveUp, End, Idle, Request
<1>2. CopiesOpen' BY DEF IInv, TypeOK, GiveUp, End, Idle, Request, CopiesOpen
<1>3. CopiesChained'
  BY DEF IInv, TypeOK, GiveUp, End, Idle, Request, CopiesChained, SameParent, Editing
<1>. QED BY <1>1, <1>2, <1>3, RowsKept DEF IInv, GiveUp

(* Rows whose answer or revision is not touched keep their place in the chain *)
LEMMA ChainKept ==
    ASSUME IInv, quote' \in [Quotes -> Row], stale \subseteq stale',
           \A p \in Quotes : quote'[p].of = quote[p].of \/ quote'[p].of \in stale' \cup {0},
           \A p \in Quotes \ stale' :
               quote[p].status \in {"SUPERSEDED", "DECLINED"} => quote'[p].status = quote[p].status
    PROVE  ChainStands'
<1>. SUFFICES ASSUME NEW p \in Quotes, quote'[p].of \in Quotes \ stale'
              PROVE  LET q == quote'[p].of IN
                     /\ quote'[q].status \in {"SUPERSEDED", "DECLINED"}
                     /\ quote'[q].status = "SUPERSEDED"
                           => \A r \in Quotes : quote'[r].of = q => r = p
  BY DEF ChainStands
<1>. DEFINE q == quote'[p].of
<1>1. quote[p].of = q /\ q \in Quotes \ stale
  BY NullIsNoQuote
<1>2. /\ quote[q].status \in {"SUPERSEDED", "DECLINED"}
      /\ quote[q].status = "SUPERSEDED" => \A r \in Quotes : quote[r].of = q => r = p
  BY <1>1 DEF IInv, ChainStands
<1>3. quote'[q].status = quote[q].status
  BY <1>1, <1>2
<1>4. \A r \in Quotes : quote'[r].of = q => quote[r].of = q
  BY <1>1, NullIsNoQuote
<1>. QED BY <1>2, <1>3, <1>4

(* A change of rows by no request: the copies stay as they were              *)
LEMMA CopiesKept ==
    ASSUME IInv, UNCHANGED <<request, stale>>, quote' \in [Quotes -> Row],
           \A p \in Quotes : quote[p].status # "NONE" =>
               quote'[p].of = quote[p].of /\ quote'[p].status # "NONE"
    PROVE  CopiesOpen' /\ CopiesChained'
<1>1. CopiesOpen' BY DEF IInv, CopiesOpen
<1>2. \A w \in Workers : Editing(w) => request[w].id \in Quotes
  BY DEF IInv, TypeOK, Request, Editing
<1>3. CopiesChained'
  BY <1>2 DEF IInv, CopiesChained, SameParent, Editing
<1>. QED BY <1>1, <1>3

(* A request other than an edit ends, and keeps the chain but for what it    *)
(* cuts                                                                      *)
LEMMA ChainedKept ==
    ASSUME IInv, NEW w \in Workers, ~Editing(w), request' = [request EXCEPT ![w] = Idle],
           quote' \in [Quotes -> Row], stale \subseteq stale',
           \A p \in Quotes : quote[p].status # "NONE" =>
               /\ quote'[p].status # "NONE"
               /\ quote'[p].of = quote[p].of \/ (quote'[p].of = 0 /\ quote[p].of \in stale')
    PROVE  CopiesChained'
<1>1. \A v \in Workers : Editing(v)' => Editing(v) /\ request'[v] = request[v]
  BY DEF IInv, TypeOK, Editing, Idle
<1>2. \A v \in Workers : Editing(v) => request[v].id \in Quotes
  BY DEF IInv, TypeOK, Request, Editing
<1>. SUFFICES ASSUME NEW u \in Workers, Editing(u)'
              PROVE  /\ quote'[request'[u].id].status # "NONE"
                     /\ SameParent(request[u].copy.of, quote[request[u].id].of)'
                     /\ \A v \in Workers : (Editing(v)' /\ request'[v].id = request'[u].id)
                           => SameParent(request[u].copy.of, request[v].copy.of)'
  BY DEF CopiesChained
<1>3. /\ quote[request[u].id].status # "NONE"
      /\ SameParent(request[u].copy.of, quote[request[u].id].of)
      /\ \A v \in Workers : (Editing(v) /\ request[v].id = request[u].id)
            => SameParent(request[u].copy.of, request[v].copy.of)
  BY <1>1 DEF IInv, CopiesChained
<1>. QED BY <1>1, <1>2, <1>3 DEF SameParent

LEMMA WriteStep ==
    ASSUME IInv, NEW q \in Quotes, NEW d \in Days, Write(q, d)
    PROVE  IInv'
<1>0. quote' = [quote EXCEPT ![q] = [status |-> "DRAFT", until |-> d, sent |-> FALSE, of |-> 0]]
  BY DEF Write, Draft
<1>1. TypeOK'
  <2>. DEFINE r == [status |-> "DRAFT", until |-> d, sent |-> FALSE, of |-> 0]
  <2>1. r \in Row BY NullIsNoQuote
  <2>2. quote' = [quote EXCEPT ![q] = r] BY <1>0
  <2>. HIDE DEF r
  <2>3. quote' \in [Quotes -> Row] BY <2>1, <2>2 DEF IInv, TypeOK
  <2>. QED BY <2>3 DEF IInv, TypeOK, Write
<1>2. JobsOnce' BY <1>0 DEF Write, Fresh, IInv, TypeOK, JobsOnce
<1>3. ChainStands' BY <1>0, <1>1, ChainKept DEF Write, Fresh, IInv, TypeOK
<1>. QED BY <1>1, <1>2, <1>3, CopiesKept DEF IInv, TypeOK, Write, Fresh

LEMMA ReviseStep ==
    ASSUME IInv, NEW q \in Quotes, NEW p \in Quotes, NEW d \in Days, Revise(q, p, d)
    PROVE  IInv'
<1>. USE DEF Revise, Fresh, Draft, Revisable, AfterRevision
<1>0. p # q BY DEF IInv, TypeOK
<1>1. TypeOK'
  <2>. DEFINE r == [status |-> "DRAFT", until |-> d, sent |-> FALSE, of |-> q]
  <2>. DEFINE t == [quote[q] EXCEPT !.status = AfterRevision(@)]
  <2>1. r \in Row BY NullIsNoQuote
  <2>2. t \in Row BY DEF IInv, TypeOK
  <2>3. quote' = [quote EXCEPT ![p] = r, ![q] = t] BY <1>0 DEF IInv, TypeOK
  <2>. HIDE DEF r, t
  <2>4. quote' \in [Quotes -> Row] BY <2>1, <2>2, <2>3 DEF IInv, TypeOK
  <2>. QED BY <2>4 DEF IInv, TypeOK
<1>2. JobsOnce' BY <1>0 DEF IInv, TypeOK, JobsOnce
<1>3. ChainStands'
  <2>1. /\ quote'[p].of = q /\ quote'[p].status = "DRAFT" /\ quote'[q].of = quote[q].of
        /\ quote'[q].status = IF quote[q].status = "DECLINED" THEN "DECLINED" ELSE "SUPERSEDED"
        /\ \A r \in Quotes \ {p, q} : quote'[r] = quote[r]
    BY <1>0 DEF IInv, TypeOK
  <2>2. quote[q].status \in {"SENT", "DECLINED", "EXPIRED"} /\ quote[p].status = "NONE"
    OBVIOUS
  <2>3. ASSUME NEW r \in Quotes, NEW a \in Quotes \ stale, quote[r].of = a
        PROVE  /\ quote[a].status \in {"SUPERSEDED", "DECLINED"}
               /\ quote[a].status = "SUPERSEDED" => \A t \in Quotes : quote[t].of = a => t = r
    BY <2>3 DEF IInv, ChainStands
  <2>4. ASSUME NEW r \in Quotes, NEW a \in Quotes \ stale, quote'[r].of = a
        PROVE  /\ quote'[a].status \in {"SUPERSEDED", "DECLINED"}
               /\ quote'[a].status = "SUPERSEDED" => \A t \in Quotes : quote'[t].of = a => t = r
    <3>1. CASE r = p
      <4>1. a = q BY <3>1, <2>1, <2>4
      <4>2. ASSUME NEW t \in Quotes, t # p, quote'[t].of = q
            PROVE  quote'[q].status = "DECLINED"
        <5>1. quote[t].of = q BY <4>2, <2>1
        <5>. QED BY <4>1, <5>1, <2>1, <2>2, <2>3
      <4>. QED BY <3>1, <4>1, <4>2, <2>1
    <3>2. CASE r # p
      <4>1. quote[r].of = a BY <3>2, <2>1, <2>4
      <4>2. a # p /\ (a = q => quote[q].status = "DECLINED") BY <4>1, <2>2, <2>3
      <4>3. CASE a = q BY <4>2, <4>3, <2>1
      <4>4. CASE a # q
        <5>1. quote'[a] = quote[a] BY <4>2, <4>4, <2>1
        <5>2. \A t \in Quotes : quote'[t].of = a => quote[t].of = a BY <4>4, <2>1
        <5>. QED BY <4>1, <5>1, <5>2, <2>3
      <4>. QED BY <4>3, <4>4
    <3>. QED BY <3>1, <3>2
  <2>. QED BY <2>4 DEF ChainStands, Revise
<1>. QED BY <1>1, <1>2, <1>3, CopiesKept DEF IInv, TypeOK

LEMMA AnswerStep ==
    ASSUME IInv, NEW q \in Quotes, Accept(q) \/ Decline(q)
    PROVE  IInv'
<1>. USE DEF Accept, Decline, Acceptable
<1>1. TypeOK' BY SMTT(30) DEF IInv, TypeOK
<1>2. JobsOnce' BY DEF IInv, TypeOK, JobsOnce
<1>3. ChainStands' BY <1>1, ChainKept DEF IInv, TypeOK
<1>5. quote' \in [Quotes -> Row] /\ UNCHANGED <<request, stale>>
  BY <1>1 DEF TypeOK
<1>7. \A p \in Quotes : quote[p].status # "NONE" =>
          quote'[p].of = quote[p].of /\ quote'[p].status # "NONE"
  BY DEF IInv, TypeOK
<1>6. CopiesOpen' /\ CopiesChained' BY <1>5, <1>7, CopiesKept
<1>. QED BY <1>1, <1>2, <1>3, <1>6 DEF IInv

LEMMA ExpireStep ==
    ASSUME IInv, ExpireStale
    PROVE  IInv'
<1>. USE DEF ExpireStale
<1>1. TypeOK' BY DEF IInv, TypeOK
<1>2. JobsOnce' BY DEF IInv, TypeOK, JobsOnce
<1>3. ChainStands' BY <1>1, ChainKept DEF IInv, TypeOK
<1>. QED BY <1>1, <1>2, <1>3, CopiesKept DEF IInv, TypeOK

LEMMA ViewStep ==
    ASSUME IInv, NEW w \in Workers, NEW q \in Quotes, ExpireViewed(w, q)
    PROVE  IInv'
<1>. USE DEF ExpireViewed, Doing, End, Idle
<1>1. TypeOK' BY DEF IInv, TypeOK, Request
<1>2. JobsOnce' BY DEF IInv, TypeOK, JobsOnce
<1>3. ChainStands' BY <1>1, ChainKept DEF IInv, TypeOK
<1>5. CopiesOpen' BY DEF IInv, TypeOK, Request, CopiesOpen
<1>6. CopiesChained'
  <2>1. /\ ~Editing(w) /\ request' = [request EXCEPT ![w] = Idle]
        /\ quote' \in [Quotes -> Row] /\ stale \subseteq stale'
    BY <1>1 DEF TypeOK, Editing
  <2>2. \A p \in Quotes : quote[p].status # "NONE" =>
            quote'[p].status # "NONE" /\ quote'[p].of = quote[p].of
    BY DEF IInv, TypeOK
  <2>. QED BY <2>1, <2>2, ChainedKept
<1>. QED BY <1>1, <1>2, <1>3, <1>5, <1>6 DEF IInv

LEMMA MarkSentStep ==
    ASSUME IInv, NEW w \in Workers, NEW q \in Quotes, MarkSent(w, q)
    PROVE  IInv'
<1>. USE DEF MarkSent, Doing, End, Idle, Overwrites
<1>0. q \notin stale' => quote[q].status \in OpenStatuses
  BY DEF IInv, CopiesOpen
<1>1. TypeOK'
  <2>. DEFINE r == [quote[q] EXCEPT !.status = "SENT", !.sent = TRUE]
  <2>5. quote[q] \in Row BY DEF IInv, TypeOK
  <2>0. r \in Row BY <2>5
  <2>4. quote' = [quote EXCEPT ![q] = r] BY DEF IInv, TypeOK
  <2>. HIDE DEF r
  <2>1. quote' \in [Quotes -> Row] BY <2>0, <2>4 DEF IInv, TypeOK
  <2>2. request' \in [Workers -> Request] BY DEF IInv, TypeOK, Request
  <2>3. stale' \subseteq Quotes BY DEF IInv, TypeOK
  <2>. QED BY <2>1, <2>2, <2>3 DEF IInv, TypeOK
<1>2. JobsOnce' BY <1>0 DEF IInv, TypeOK, JobsOnce
<1>3. ChainStands' BY <1>0, <1>1, ChainKept DEF IInv, TypeOK
<1>5. CopiesOpen' BY DEF IInv, TypeOK, Request, CopiesOpen
<1>6. CopiesChained'
  <2>1. /\ ~Editing(w) /\ request' = [request EXCEPT ![w] = Idle]
        /\ quote' \in [Quotes -> Row] /\ stale \subseteq stale'
    BY <1>1 DEF TypeOK, Editing
  <2>2. \A p \in Quotes : quote[p].status # "NONE" =>
            quote'[p].status # "NONE" /\ quote'[p].of = quote[p].of
    BY DEF IInv, TypeOK
  <2>. QED BY <2>1, <2>2, ChainedKept
<1>. QED BY <1>1, <1>2, <1>3, <1>5, <1>6 DEF IInv

LEMMA DeleteStep ==
    ASSUME IInv, NEW w \in Workers, NEW q \in Quotes, Delete(w, q)
    PROVE  IInv'
<1>. USE DEF Delete, Doing, End, Idle, Overwrites
<1>0. q \notin stale' => quote[q].status = "DRAFT"
  BY DEF IInv, CopiesOpen
<1>1. TypeOK' BY NullIsNoQuote DEF IInv, TypeOK, Request
<1>2. JobsOnce' BY <1>0 DEF IInv, TypeOK, JobsOnce
<1>8. quote' \in [Quotes -> Row] /\ stale \subseteq stale'
  BY <1>1 DEF TypeOK
<1>7. \A p \in Quotes :
          /\ quote'[p].status = IF p = q THEN "GONE" ELSE quote[p].status
          /\ quote'[p].of = quote[p].of \/ (quote'[p].of = 0 /\ quote[p].of = q)
  BY DEF IInv, TypeOK
<1>3. ChainStands' BY <1>0, <1>7, <1>8, ChainKept
<1>5. CopiesOpen' BY DEF IInv, TypeOK, Request, CopiesOpen
<1>6. CopiesChained'
  <2>1. ~Editing(w) /\ request' = [request EXCEPT ![w] = Idle]
    BY DEF Editing
  <2>2. q \in stale' \/ \A p \in Quotes : quote[p].of # q
    BY <1>0 DEF IInv, ChainStands
  <2>3. \A p \in Quotes : quote[p].status # "NONE" =>
            /\ quote'[p].status # "NONE"
            /\ quote'[p].of = quote[p].of \/ (quote'[p].of = 0 /\ quote[p].of \in stale')
    BY <1>7, <2>2
  <2>. QED BY <1>8, <2>1, <2>3, ChainedKept
<1>. QED BY <1>1, <1>2, <1>3, <1>5, <1>6 DEF IInv

LEMMA SaveEditStep ==
    ASSUME IInv, NEW w \in Workers, NEW q \in Quotes, NEW d \in Days, NEW send \in BOOLEAN,
           SaveEdit(w, q, d, send)
    PROVE  IInv'
<1>. DEFINE c == request[w].copy
<1>. DEFINE r == [c EXCEPT !.until = d]
<1>1. /\ quote' = [quote EXCEPT ![q] = r]
      /\ request[w].step = "edit" /\ request[w].id = q
      /\ UNCHANGED <<jobs, today>>
      /\ stale' = IF quote[q].status = c.status THEN stale ELSE stale \cup {q}
      /\ request' = [request EXCEPT ![w] =
                       IF send THEN [step |-> "send", id |-> q, copy |-> r] ELSE Idle]
  BY DEF SaveEdit, Edited, Doing, Overwrites
<1>2. /\ c \in Row /\ quote[q] \in Row /\ c.status \in OpenStatuses
  BY <1>1 DEF IInv, TypeOK, Request, CopiesOpen
<1>3. /\ r \in Row /\ r.status = c.status /\ r.sent = c.sent /\ r.of = c.of
      /\ quote'[q] = r
      /\ \A p \in Quotes \ {q} : quote'[p] = quote[p]
  BY <1>1, <1>2 DEF IInv, TypeOK
<1>10. /\ SameParent(r.of, quote[q].of)
       /\ quote[q].status # "NONE"
       /\ \A v \in Workers : (Editing(v) /\ request[v].id = q) => SameParent(request[v].copy.of, r.of)
  BY <1>1, <1>3 DEF IInv, CopiesChained, SameParent, Editing
<1>11. stale \subseteq stale' BY <1>1
<1>4. q \notin stale' => q \notin stale /\ quote[q].status = r.status
  BY <1>1, <1>3
<1>. HIDE DEF r
<1>5. TypeOK' BY <1>1, <1>2, <1>3 DEF IInv, TypeOK, Request, Idle
<1>6. JobsOnce' BY <1>1, <1>2, <1>3, <1>4 DEF IInv, TypeOK, JobsOnce
<1>7. ChainStands'
  BY <1>2, <1>3, <1>4, <1>5, <1>10, <1>11, ChainKept DEF IInv, TypeOK, SameParent
<1>9. CopiesOpen' BY <1>1, <1>2, <1>3, <1>4 DEF IInv, TypeOK, Request, Idle, CopiesOpen
<1>12. CopiesChained'
  <2>1. \A v \in Workers : Editing(v)' => v # w /\ Editing(v) /\ request'[v] = request[v]
    BY <1>1 DEF IInv, TypeOK, Editing, Idle
  <2>2. \A v \in Workers : Editing(v) => request[v].id \in Quotes
    BY DEF IInv, TypeOK, Request, Editing
  <2>3. quote'[q].status # "NONE" BY <1>2, <1>3
  <2>4. ASSUME NEW u \in Workers, Editing(u)'
        PROVE  /\ quote'[request'[u].id].status # "NONE"
               /\ SameParent(request[u].copy.of, quote[request[u].id].of)'
               /\ \A v \in Workers : (Editing(v)' /\ request'[v].id = request'[u].id)
                     => SameParent(request[u].copy.of, request[v].copy.of)'
    <3>1. /\ quote[request[u].id].status # "NONE"
          /\ SameParent(request[u].copy.of, quote[request[u].id].of)
          /\ \A v \in Workers : (Editing(v) /\ request[v].id = request[u].id)
                => SameParent(request[u].copy.of, request[v].copy.of)
      BY <2>1, <2>4 DEF IInv, CopiesChained
    <3>. QED BY <2>1, <2>2, <2>3, <2>4, <3>1, <1>3, <1>10, <1>11 DEF SameParent
  <2>. QED BY <2>4 DEF CopiesChained
<1>. QED BY <1>5, <1>6, <1>7, <1>9, <1>12 DEF IInv

LEMMA TomorrowStep == ASSUME IInv, Tomorrow PROVE IInv'
<1>1. TypeOK' BY BoundAssumption DEF IInv, TypeOK, Tomorrow, Days
<1>. QED BY <1>1, RowsKept, CopiesKept DEF IInv, TypeOK, Tomorrow

(* Every step keeps the invariant.                                           *)
THEOREM Inductive == IInv /\ [Next]_vars => IInv'
<1>. SUFFICES ASSUME IInv, [Next]_vars PROVE IInv'
  OBVIOUS
<1>1. CASE Shop BY <1>1, WriteStep, ReviseStep DEF Shop
<1>2. CASE Answer BY <1>2, AnswerStep DEF Answer
<1>3. CASE ExpireStale BY <1>3, ExpireStep
<1>4. CASE Tomorrow BY <1>4, TomorrowStep
<1>5. CASE \E w \in Workers : GiveUp(w) BY <1>5, GiveUpStep
<1>6. ASSUME NEW w \in Workers, NEW q \in Quotes, Step(w, q) PROVE IInv'
  <2>1. CASE BeginEdit(w, q) BY <2>1, BeginStep DEF BeginEdit
  <2>2. CASE BeginSend(w, q) BY <2>2, BeginStep DEF BeginSend
  <2>3. CASE BeginDelete(w, q) BY <2>3, BeginStep DEF BeginDelete, Deletable
  <2>4. CASE BeginView(w, q) BY <2>4, BeginStep DEF BeginView
  <2>5. CASE \E d \in Days, send \in BOOLEAN : SaveEdit(w, q, d, send) BY <2>5, SaveEditStep
  <2>6. CASE MarkSent(w, q) BY <2>6, MarkSentStep
  <2>7. CASE Delete(w, q) BY <2>7, DeleteStep
  <2>8. CASE ExpireViewed(w, q) BY <2>8, ViewStep
  <2>. QED BY <1>6, <2>1, <2>2, <2>3, <2>4, <2>5, <2>6, <2>7, <2>8 DEF Step
<1>7. CASE UNCHANGED vars
  <2>1. TypeOK' BY <1>7 DEF IInv, TypeOK, vars
  <2>. QED BY <1>7, <2>1, RowsKept, CopiesKept DEF IInv, TypeOK, vars
<1>. QED BY <1>1, <1>2, <1>3, <1>4, <1>5, <1>6, <1>7 DEF Next

THEOREM Invariance == Spec => []IInv
BY Initially, Inductive, PTL DEF Spec

(* Rows, requests and history stay within their types.                       *)
THEOREM TypeCorrect == Spec => []TypeOK
<1>1. IInv => TypeOK BY DEF IInv
<1>. QED BY <1>1, Invariance, PTL

(* A quote's jobs are created once, whoever clicks, for any number of        *)
(* workers, quotes and days (quote_service.accept_quote).                    *)
THEOREM JobsCreatedOnce == Spec => []JobsOnce
<1>1. IInv => JobsOnce BY DEF IInv
<1>. QED BY <1>1, Invariance, PTL

(* What was revised makes no jobs any more, and it has one revision, in      *)
(* chains of any length: but a declined quote can have many, and a quote     *)
(* whose status was overwritten unseen is left out                           *)
(* (quote_service.revise_quote).                                             *)
THEOREM RevisionsReplace == Spec => []OneOfferStands
<1>1. IInv => OneOfferStands
  BY DEF IInv, TypeOK, ChainStands, OneOfferStands, JobsOnce
<1>. QED BY <1>1, Invariance, PTL
=============================================================================
