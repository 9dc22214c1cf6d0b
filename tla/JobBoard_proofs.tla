---------------------------- MODULE JobBoard_proofs ----------------------------
(***************************************************************************)
(* Proofs about JobBoard, for any repairs, workers and bounds: types, what *)
(* a request in flight relies on, that a completed repair stays so, earns  *)
(* its points once and has a price tier of its own, that the counter       *)
(* follows the work, and that a pair of links decides once.                *)
(***************************************************************************)
EXTENDS JobBoard, FiniteSetTheorems, TLAPS

-----------------------------------------------------------------------------
(* Tasks                                                                   *)

Saving == {"price", "save", "hooks"}
Steps == Saving \cup {"idle", "siblings", "commit", "trash", "tally", "clear", "recount"}

SavingTask == [at : Saving, job : Jobs, held : Row, to : QueueStatus,
               tier : Nat, sequel : Sequels]
SiblingsTask == [at : {"siblings"}, job : Jobs, to : QueueStatus]
CommitTask == [at : {"commit"}, jobs : SUBSET Jobs, held : [Jobs -> Row], to : QueueStatus]
TrashTask == [at : {"trash"}, job : Jobs, held : Row, trashed : BOOLEAN]

(* Where a request stands says what it carries.                            *)
LEMMA TaskKinds ==
  ASSUME NEW t \in Task
  PROVE  /\ t.at \in Steps
         /\ t.at \in Saving => t \in SavingTask
         /\ t.at = "siblings" => t \in SiblingsTask
         /\ t.at = "commit" => t \in CommitTask
         /\ t.at = "trash" => t \in TrashTask
         /\ t.at = "recount" => t \in [at : {"recount"}, count : Nat]
<1>1. CASE t \in [at : {"idle"}]
  BY <1>1 DEF Steps, Saving
<1>2. CASE t \in SavingTask
  BY <1>2 DEF SavingTask, Steps, Saving
<1>3. CASE t \in SiblingsTask
  BY <1>3 DEF SiblingsTask, Steps, Saving
<1>4. CASE t \in CommitTask
  BY <1>4 DEF CommitTask, Steps, Saving
<1>5. CASE t \in TrashTask
  BY <1>5 DEF TrashTask, Steps, Saving
<1>6. CASE t \in [at : {"tally", "clear"}]
  BY <1>6 DEF Steps, Saving
<1>7. CASE t \in [at : {"recount"}, count : Nat]
  BY <1>7 DEF Steps, Saving
<1>. QED BY <1>1, <1>2, <1>3, <1>4, <1>5, <1>6, <1>7
     DEF Task, SavingTask, SiblingsTask, CommitTask, TrashTask, Saving

(* What a request carries fits where it stands: a save follows the allowed *)
(* transitions, only a first completion is priced, several repairs are     *)
(* never completed twice, and outside a batch never together.              *)
TaskFits(t) ==
  /\ t.at \in Saving =>
       /\ t.to \in Transitions(t.held.status) \cup {t.held.status}
       /\ t.at = "price" => FirstCompletion(t.held, t.to)
       /\ t.at = "hooks" => t.to = "COMPLETED"
       /\ t.sequel = "accept" => t.to = "REQUESTED"
       /\ t.sequel = "siblings" => t.to \in {"APPROVED", "DENIED"}
  /\ t.at = "commit" =>
       /\ \A j \in t.jobs : t.held[j].status # "COMPLETED"
       /\ t.to = "COMPLETED" => t.jobs \subseteq batch
  /\ t.at = "siblings" => t.to # "COMPLETED"

Fits ==
  /\ TypeOK
  /\ \A w \in Workers : TaskFits(task[w])
  /\ \A w \in Workers : task[w].at = "recount" => history["recounted"]

-----------------------------------------------------------------------------
(* History                                                                 *)

Flags == {"stale", "overlapped", "recounted", "replaced"}

Busy == \E v \in Workers : task[v] # Idle

LEMMA OverlapNoted ==
  ASSUME history \in [Flags -> BOOLEAN], NotesOverlap
  PROVE  /\ history' \in [Flags -> BOOLEAN]
         /\ \A h \in Flags \ {"overlapped"} : history'[h] = history[h]
         /\ history["overlapped"] \/ Busy => history'["overlapped"]
<1> DEFINE b == history["overlapped"] \/ Busy
<1>1. history' = [history EXCEPT !["overlapped"] = b]
  BY Zenon DEF NotesOverlap, Busy
<1>2. b \in BOOLEAN
  OBVIOUS
<1> HIDE DEF b
<1>3. /\ history' \in [Flags -> BOOLEAN]
      /\ \A h \in Flags \ {"overlapped"} : history'[h] = history[h]
      /\ history'["overlapped"] = b
  BY <1>1, <1>2 DEF Flags
<1>. QED BY <1>3 DEF b

LEMMA StaleNoted ==
  ASSUME history \in [Flags -> BOOLEAN], NEW S, NEW held, NotesStale(S, held)
  PROVE  /\ history' \in [Flags -> BOOLEAN]
         /\ \A h \in Flags \ {"stale"} : history'[h] = history[h]
         /\ history["stale"] \/ (\E j \in S : held[j] # row[j]) => history'["stale"]
<1> DEFINE b == history["stale"] \/ \E j \in S : held[j] # row[j]
<1>1. history' = [history EXCEPT !["stale"] = b]
  BY Zenon DEF NotesStale
<1>2. b \in BOOLEAN
  OBVIOUS
<1> HIDE DEF b
<1>3. /\ history' \in [Flags -> BOOLEAN]
      /\ \A h \in Flags \ {"stale"} : history'[h] = history[h]
      /\ history'["stale"] = b
  BY <1>1, <1>2 DEF Flags
<1>. QED BY <1>3 DEF b

-----------------------------------------------------------------------------
(* Types                                                                   *)

(* One worker's request moves on, whatever else happens.                   *)
Becomes(w, t) == task' = [task EXCEPT ![w] = t]

LEMMA WorkerMoves ==
  ASSUME TypeOK, NEW w \in Workers, NEW t, Becomes(w, t)
  PROVE  \A v \in Workers : task'[v] = IF v = w THEN t ELSE task[v]
BY DEF TypeOK, Becomes

HistoryTyped == history' \in [Flags -> BOOLEAN] /\ (history["recounted"] => history'["recounted"])

LEMMA FitsMove ==
  ASSUME Fits, NEW w \in Workers, NEW t \in Task, Becomes(w, t), TaskFits(t),
         t.at = "recount" => history'["recounted"],
         row' \in [Jobs -> Row], batch' = batch, unit' \in Counts,
         live' \subseteq Link, spent' = spent, issued' \in 0..MaxPairs,
         awarded' \in [Jobs -> Nat], HistoryTyped, faults' \in Nat
  PROVE  Fits'
<1>1. \A v \in Workers : task'[v] = IF v = w THEN t ELSE task[v]
  BY WorkerMoves DEF Fits
<1>2. task' \in [Workers -> Task]
  BY DEF Fits, TypeOK, Becomes
<1>3. TypeOK'
  BY <1>2 DEF Fits, TypeOK, HistoryTyped, Flags
<1>4. \A v \in Workers : TaskFits(task[v])'
  <2>1. \A v \in Workers : TaskFits(task'[v])
    BY <1>1 DEF Fits
  <2>. QED BY <2>1 DEF TaskFits, Transitions, FirstCompletion
<1>5. \A v \in Workers : task'[v].at = "recount" => history'["recounted"]
  BY <1>1 DEF Fits, HistoryTyped
<1>. QED BY <1>3, <1>4, <1>5 DEF Fits

Begun == UNCHANGED <<row, batch, unit, live, issued, spent, awarded, faults>>

(* Only one worker's task and the notes about requests change.             *)
LEMMA FitsBegin ==
  ASSUME Fits, NEW w \in Workers, NEW t \in Task, Becomes(w, t), TaskFits(t),
         t.at # "recount", HistoryTyped, Begun
  PROVE  Fits'
BY FitsMove DEF Fits, TypeOK, Begun

LEMMA IdleFits == Idle \in Task /\ TaskFits(Idle) /\ Idle.at = "idle"
BY DEF Idle, Task, TaskFits, Saving

LEMMA ToSaveFits ==
  ASSUME NEW j \in Jobs, NEW held \in Row, NEW to \in QueueStatus, NEW sequel \in Sequels,
         to \in Transitions(held.status) \cup {held.status},
         sequel = "accept" => to = "REQUESTED",
         sequel = "siblings" => to \in {"APPROVED", "DENIED"}
  PROVE  LET t == ToSave(j, held, to, sequel)
         IN  /\ t \in SavingTask /\ t \in Task /\ TaskFits(t)
             /\ t.at \in {"price", "save"} /\ t.job = j /\ t.held = held /\ t.to = to
             /\ t.tier = held.tier /\ t.sequel = sequel
             /\ (t.at = "price" <=> FirstCompletion(held, to))
<1> DEFINE at == IF FirstCompletion(held, to) THEN "price" ELSE "save"
           t == [at |-> at, job |-> j, held |-> held, to |-> to, tier |-> held.tier,
                 sequel |-> sequel]
<1>1. at \in {"price", "save"} /\ (at = "price" <=> FirstCompletion(held, to))
  OBVIOUS
<1>2. held.tier \in Nat
  BY DEF Row
<1> HIDE DEF at
<1>3. t \in SavingTask
  BY <1>1, <1>2 DEF SavingTask, Saving
<1>4. t \in Task
  BY <1>3 DEF Task, SavingTask, Saving
<1>5. t.at = at /\ t.held = held /\ t.to = to /\ t.sequel = sequel
  OBVIOUS
<1>6. TaskFits(t)
  BY <1>1, <1>5 DEF TaskFits
<1>7. /\ t.at \in {"price", "save"} /\ t.job = j /\ t.held = held /\ t.to = to
      /\ t.tier = held.tier /\ t.sequel = sequel
      /\ (t.at = "price" <=> FirstCompletion(held, to))
  BY <1>1
<1>8. t = ToSave(j, held, to, sequel)
  BY Zenon DEF ToSave, at
<1> HIDE DEF t
<1>. QED BY <1>3, <1>4, <1>6, <1>7, <1>8

LEMMA TransitionsTyped ==
  ASSUME NEW s \in QueueStatus \cup {"none"}
  PROVE  Transitions(s) \subseteq QueueStatus /\ Transitions("COMPLETED") = {}
         /\ Transitions("none") = QueueStatus
BY DEF Transitions, QueueStatus

LEMMA NoRowTyped == NoRow \in Row /\ NoRow.status = "none" /\ ~NoRow.deleted /\ NoRow.tier = 0
BY DEF NoRow, Row

LEMMA RowTyped ==
  ASSUME TypeOK, NEW j \in Jobs
  PROVE  /\ row[j] \in Row /\ row[j].status \in QueueStatus \cup {"none"}
         /\ row[j].deleted \in BOOLEAN /\ row[j].tier \in Nat
BY DEF TypeOK, Row

LEMMA EnsuredTyped ==
  ASSUME unit \in Counts
  PROVE  Ensured \in Nat /\ Ensured + 1 \in Nat /\ Ensured \in Counts /\ Ensured + 1 \in Counts
BY DEF Ensured, Counts, NoCount

LEMMA LinksTyped ==
  ASSUME TypeOK, NEW S \in SUBSET Jobs, NEW to, SendsLinks(S, to)
  PROVE  live' \subseteq Link /\ issued' \in 0..MaxPairs
BY BoardAssumption DEF TypeOK, SendsLinks, Announced, Link

-----------------------------------------------------------------------------
(* What each request does next                                             *)

SavedRow(t) == [status |-> t.to, deleted |-> t.held.deleted,
                tier |-> TierSaved(t.held, t.to, t.tier)]

After(t) ==
  CASE t.to = "COMPLETED"      -> [t EXCEPT !.at = "hooks"]
    [] t.sequel = "accept"     -> ToSave(t.job, SavedRow(t), "APPROVED", "done")
    [] t.sequel = "siblings"   -> [at |-> "siblings", job |-> t.job, to |-> t.to]
    [] OTHER                   -> Idle

LEMMA SavedRowTyped ==
  ASSUME NEW t \in SavingTask
  PROVE  /\ SavedRow(t) \in Row
         /\ SavedRow(t).status = t.to /\ SavedRow(t).deleted = t.held.deleted
         /\ t.to = "COMPLETED" => SavedRow(t).tier = t.tier
<1>1. t.tier \in Nat /\ t.to \in QueueStatus /\ t.held.deleted \in BOOLEAN
  BY DEF SavingTask, Row
<1>2. TierSaved(t.held, t.to, t.tier) \in Nat
      /\ (t.to = "COMPLETED" => TierSaved(t.held, t.to, t.tier) = t.tier)
  BY <1>1 DEF TierSaved
<1> DEFINE n == TierSaved(t.held, t.to, t.tier)
           r == [status |-> t.to, deleted |-> t.held.deleted, tier |-> n]
<1>3. n \in Nat /\ (t.to = "COMPLETED" => n = t.tier)
  BY <1>2
<1>4. SavedRow(t) = r
  BY DEF SavedRow
<1> HIDE DEF n
<1>5. r \in Row /\ r.status = t.to /\ r.deleted = t.held.deleted /\ r.tier = n
  BY <1>1, <1>3 DEF Row
<1>. QED BY <1>3, <1>4, <1>5

(* After a save: the hooks if it completes the repair; else, one at most   *)
(* of the acceptance of a request and the other breaks of the batch.       *)
LEMMA AfterFits ==
  ASSUME NEW t \in SavingTask, TaskFits(t)
  PROVE  /\ After(t) \in Task /\ TaskFits(After(t))
         /\ t.to = "COMPLETED" => /\ After(t) = [t EXCEPT !.at = "hooks"]
                                  /\ After(t).at = "hooks" /\ After(t).job = t.job
                                  /\ After(t).held = t.held /\ After(t).to = t.to
         /\ t.to # "COMPLETED" =>
              \/ After(t) = Idle
              \/ After(t).at = "siblings"
              \/ /\ After(t).at = "save" /\ After(t).to = "APPROVED"
                 /\ After(t).job = t.job /\ After(t).held = SavedRow(t)
<1>0. /\ t.job \in Jobs /\ t.held \in Row /\ t.to \in QueueStatus /\ t.tier \in Nat
      /\ t.sequel \in Sequels /\ t.at \in Saving
  BY DEF SavingTask
<1>1. /\ t.sequel = "accept" => t.to = "REQUESTED"
      /\ t.sequel = "siblings" => t.to \in {"APPROVED", "DENIED"}
  BY <1>0 DEF TaskFits
<1>2. CASE t.to = "COMPLETED"
  <2> DEFINE u == [t EXCEPT !.at = "hooks"]
  <2>1. After(t) = u
    BY <1>1, <1>2 DEF After
  <2>2. /\ u \in SavingTask /\ u.at = "hooks" /\ u.job = t.job /\ u.held = t.held
        /\ u.to = t.to /\ u.sequel = t.sequel
    BY <1>0 DEF SavingTask, Saving
  <2> HIDE DEF u
  <2>3. u \in Task
    BY <2>2 DEF Task, SavingTask, Saving
  <2>4. TaskFits(u)
    BY <2>2, <1>2, <1>0 DEF TaskFits, Saving
  <2>. QED BY <1>2, <2>1, <2>2, <2>3, <2>4 DEF u
<1>3. CASE t.sequel = "accept"
  <2>1. t.to = "REQUESTED"
    BY <1>1, <1>3
  <2>2. After(t) = ToSave(t.job, SavedRow(t), "APPROVED", "done")
    BY <1>3, <2>1 DEF After
  <2>3. SavedRow(t) \in Row /\ SavedRow(t).status = "REQUESTED"
    BY <2>1, SavedRowTyped
  <2>4. "APPROVED" \in QueueStatus /\ "done" \in Sequels
        /\ "APPROVED" \in Transitions(SavedRow(t).status)
    BY <2>3 DEF QueueStatus, Sequels, Transitions
  <2> DEFINE r == SavedRow(t)
  <2> HIDE DEF r
  <2>5. r \in Row /\ "APPROVED" \in Transitions(r.status) \cup {r.status}
    BY <2>3, <2>4 DEF r
  <2>6. ~FirstCompletion(r, "APPROVED")
    BY DEF FirstCompletion
  <2>7. LET u == ToSave(t.job, r, "APPROVED", "done")
        IN  u \in Task /\ TaskFits(u) /\ u.at = "save" /\ u.to = "APPROVED" /\ u.job = t.job
            /\ u.held = r
    BY <1>0, <2>4, <2>5, <2>6, ToSaveFits
  <2>. QED BY <2>1, <2>2, <2>7 DEF r
<1>4. CASE t.sequel = "siblings"
  <2>1. t.to \in {"APPROVED", "DENIED"}
    BY <1>1, <1>4
  <2> DEFINE u == [at |-> "siblings", job |-> t.job, to |-> t.to]
  <2>2. After(t) = u
    BY <1>4, <2>1 DEF After
  <2>3. u \in Task
    BY <1>0 DEF Task
  <2>4. u.at = "siblings" /\ u.to = t.to
    OBVIOUS
  <2>5. TaskFits(u)
    BY <2>1, <2>4 DEF TaskFits, Saving
  <2>. QED BY <2>1, <2>2, <2>3, <2>4, <2>5
<1>5. CASE t.to # "COMPLETED" /\ t.sequel \notin {"accept", "siblings"}
  BY <1>5, IdleFits DEF After
<1>. QED BY <1>2, <1>3, <1>4, <1>5
(* A request about one repair begins with a copy of its row.               *)
Copies(w, j, held, t) ==
  /\ Becomes(w, t)
  /\ t \in SavingTask /\ t \in Task /\ TaskFits(t)
  /\ t.at \in {"price", "save"}
  /\ t.at = "price" <=> FirstCompletion(held, t.to)
  /\ t.job = j /\ t.held = held /\ t.tier = held.tier

LEMMA OpenCopies ==
  ASSUME Fits, NEW w \in Workers, NEW j \in Jobs, OpenJob(w, j)
  PROVE  \E t : Copies(w, j, row[j], t)
<1>1. PICK to \in Transitions(row[j].status) \cup {row[j].status}, sequel \in {"done", "siblings"} :
        /\ sequel = "siblings" => to \in {"APPROVED", "DENIED"}
        /\ Becomes(w, ToSave(j, row[j], to, sequel))
  BY DEF OpenJob, Becomes
<1>2. row[j] \in Row /\ to \in QueueStatus /\ sequel \in Sequels /\ sequel # "accept"
  BY RowTyped, TransitionsTyped DEF Fits, OpenJob, Sequels
<1>3. LET t == ToSave(j, row[j], to, sequel) IN Copies(w, j, row[j], t)
  <2> DEFINE r == row[j]
  <2>1. r \in Row /\ to \in Transitions(r.status) \cup {r.status}
        /\ Becomes(w, ToSave(j, r, to, sequel))
    BY <1>1, <1>2
  <2> HIDE DEF r
  <2>2. LET t == ToSave(j, r, to, sequel)
         IN  /\ t \in SavingTask /\ t \in Task /\ TaskFits(t)
             /\ t.at \in {"price", "save"} /\ t.job = j /\ t.held = r /\ t.to = to
             /\ t.tier = r.tier
             /\ (t.at = "price" <=> FirstCompletion(r, to))
    BY <1>1, <1>2, <2>1, ToSaveFits
  <2>3. LET t == ToSave(j, r, to, sequel) IN Copies(w, j, r, t)
    BY <2>1, <2>2 DEF Copies
  <2>. QED BY <2>3 DEF r
<1>. QED BY <1>3

LEMMA CreateCopies ==
  ASSUME Fits, NEW w \in Workers, NEW j \in Jobs, CreateJob(w, j)
  PROVE  \E t : Copies(w, j, NoRow, t)
<1>1. PICK to \in Transitions("none"), sequel \in {"done", "accept"} :
        /\ sequel = "accept" => to = "REQUESTED"
        /\ Becomes(w, ToSave(j, NoRow, to, sequel))
  BY DEF CreateJob, Becomes
<1>2. NoRow \in Row /\ to \in QueueStatus /\ sequel \in Sequels /\ sequel # "siblings"
      /\ to \in Transitions(NoRow.status) \cup {NoRow.status}
  BY NoRowTyped, TransitionsTyped, <1>1 DEF Sequels
<1>3. LET t == ToSave(j, NoRow, to, sequel)
      IN  /\ t \in SavingTask /\ t \in Task /\ TaskFits(t)
          /\ t.at \in {"price", "save"} /\ t.job = j /\ t.held = NoRow /\ t.to = to
          /\ t.tier = NoRow.tier
          /\ (t.at = "price" <=> FirstCompletion(NoRow, to))
  BY <1>1, <1>2, ToSaveFits
<1>4. LET t == ToSave(j, NoRow, to, sequel) IN Copies(w, j, NoRow, t)
  BY <1>1, <1>3 DEF Copies
<1>. QED BY <1>4

(* A request about several begins with copies of their rows.               *)
CopiesAll(w, S, t) ==
  /\ Becomes(w, t)
  /\ t \in CommitTask /\ t \in Task /\ TaskFits(t) /\ t.at = "commit"
  /\ t.jobs = S
  /\ \A j \in S : j \in Jobs /\ t.held[j] = row[j]

LEMMA TakeCopies ==
  ASSUME Fits, NEW w \in Workers, NEW S \in SUBSET Jobs, NEW to \in QueueStatus, Take(w, S, to),
         \A j \in S : row[j].status # "COMPLETED", to = "COMPLETED" => S \subseteq batch
  PROVE  (\E t : CopiesAll(w, S, t)) /\ Begun
<1> DEFINE copy == [j \in Jobs |-> IF j \in S THEN row[j] ELSE NoRow]
           t == [at |-> "commit", jobs |-> S, to |-> to, held |-> copy]
<1>1. Becomes(w, t)
  BY DEF Take, Becomes
<1>2. copy \in [Jobs -> Row] /\ \A j \in S : copy[j] = row[j]
  BY NoRowTyped DEF Fits, TypeOK
<1> HIDE DEF copy
<1>3. t \in CommitTask
  BY <1>2 DEF CommitTask
<1>4. t \in Task
  BY <1>3 DEF Task, CommitTask
<1>5. t.at = "commit" /\ t.jobs = S /\ t.held = copy /\ t.to = to
  OBVIOUS
<1>6. TaskFits(t)
  BY <1>2, <1>5 DEF TaskFits, Saving
<1> HIDE DEF t
<1>7. CopiesAll(w, S, t)
  BY <1>1, <1>2, <1>3, <1>4, <1>5, <1>6 DEF CopiesAll
<1>. QED BY <1>7 DEF Take, Begun

(* Whichever request takes them, none is completed, and none is in the     *)
(* trash unless it is new.                                                 *)
TakesSome(w) ==
  \E S \in SUBSET Jobs :
    /\ \A j \in S : row[j].status # "COMPLETED" /\ (~row[j].deleted \/ row[j].status = "none")
    /\ \E t : CopiesAll(w, S, t)

LEMMA BulkTakes ==
  ASSUME Fits, NEW w \in Workers,
         BulkAction(w) \/ BatchAction(w) \/ CreateBatch(w) \/ TakeSiblings(w)
  PROVE  TakesSome(w) /\ Begun
<1>0. batch \subseteq Jobs /\ task[w] \in Task /\ TaskFits(task[w])
  BY DEF Fits, TypeOK
<1>1. \E S \in SUBSET Jobs, to \in QueueStatus :
        /\ Take(w, S, to)
        /\ \A j \in S : row[j].status # "COMPLETED" /\ (~row[j].deleted \/ row[j].status = "none")
        /\ to = "COMPLETED" => S \subseteq batch
  <2>1. CASE BulkAction(w)
    <3>1. CASE \E S \in SUBSET Present(Jobs, {"PENDING", "REQUESTED"}) \ {{}},
                  to \in {"APPROVED", "DENIED"} : Take(w, S, to)
      BY <3>1 DEF Present, QueueStatus
    <3>2. CASE \E S \in SUBSET Present(Jobs, QueueStatus \ {"COMPLETED", "IN_PROGRESS"}) \ {{}} :
                  Take(w, S, "PENDING")
      BY <3>2 DEF Present, QueueStatus
    <3>. QED BY <2>1, <3>1, <3>2 DEF BulkAction
  <2>2. CASE BatchAction(w)
    <3>1. CASE \E S \in SUBSET Present(batch, {"APPROVED"}) \ {{}} : Take(w, S, "IN_PROGRESS")
      BY <3>1, <1>0 DEF Present, QueueStatus
    <3>2. CASE \E S \in SUBSET Present(batch, {"APPROVED", "IN_PROGRESS"}) \ {{}} :
                  Take(w, S, "COMPLETED")
      BY <3>2, <1>0 DEF Present, QueueStatus
    <3>. QED BY <2>2, <3>1, <3>2 DEF BatchAction
  <2>3. CASE CreateBatch(w)
    BY <2>3, <1>0 DEF CreateBatch, QueueStatus
  <2>4. CASE TakeSiblings(w)
    <3>1. task[w] \in SiblingsTask /\ task[w].to # "COMPLETED"
      BY <2>4, <1>0, TaskKinds DEF TakeSiblings, TaskFits
    <3>2. task[w].to \in QueueStatus
      BY <3>1 DEF SiblingsTask
    <3>. QED BY <2>4, <3>1, <3>2, <1>0 DEF TakeSiblings, Present
  <2>. QED BY <2>1, <2>2, <2>3, <2>4
<1>2. PICK S \in SUBSET Jobs, to \in QueueStatus :
        /\ Take(w, S, to)
        /\ \A j \in S : row[j].status # "COMPLETED" /\ (~row[j].deleted \/ row[j].status = "none")
        /\ to = "COMPLETED" => S \subseteq batch
  BY <1>1
<1>3. (\E t : CopiesAll(w, S, t)) /\ Begun
  BY <1>2, TakeCopies
<1>. QED BY <1>2, <1>3 DEF TakesSome
-----------------------------------------------------------------------------
(* The steps of a request                                                  *)

LEMMA PricedTask ==
  ASSUME Fits, NEW w \in Workers, Price(w)
  PROVE  LET s == task[w]
             t == [s EXCEPT !.at = "save", !.tier = IF s.job \in batch THEN @ ELSE Ensured + 1]
         IN  /\ Becomes(w, t) /\ t \in Task /\ TaskFits(t)
             /\ s \in SavingTask /\ FirstCompletion(s.held, s.to) /\ s.at = "price"
             /\ t.at = "save" /\ t.job = s.job /\ t.held = s.held /\ t.to = s.to
             /\ s.job \notin batch => t.tier = Ensured + 1
<1> DEFINE s == task[w]
           n == IF s.job \in batch THEN s.tier ELSE Ensured + 1
           t == [s EXCEPT !.at = "save", !.tier = n]
<1>0. s \in SavingTask /\ s \in Task /\ TaskFits(s) /\ s.at = "price"
  BY TaskKinds DEF Fits, TypeOK, Price, Saving
<1>1. Becomes(w, t)
  BY DEF Price, Becomes, Fits, TypeOK
<1>2. n \in Nat /\ (s.job \notin batch => n = Ensured + 1)
  BY <1>0, EnsuredTyped DEF Fits, TypeOK, SavingTask
<1>3. FirstCompletion(s.held, s.to)
  BY <1>0 DEF TaskFits, Saving
<1> HIDE DEF n
<1>4. /\ t \in SavingTask /\ t.at = "save" /\ t.job = s.job /\ t.held = s.held /\ t.to = s.to
      /\ t.tier = n /\ t.sequel = s.sequel
  BY <1>0, <1>2 DEF SavingTask, Saving
<1> HIDE DEF t
<1>5. t \in Task
  BY <1>4 DEF Task, SavingTask, Saving
<1>6. TaskFits(t)
  BY <1>0, <1>4 DEF TaskFits, Saving
<1>7. t = [s EXCEPT !.at = "save", !.tier = IF s.job \in batch THEN @ ELSE Ensured + 1]
  BY DEF t, n
<1>. QED BY <1>0, <1>1, <1>2, <1>3, <1>4, <1>5, <1>6, <1>7

LEMMA SavesTask ==
  ASSUME Fits, NEW w \in Workers, SaveJob(w)
  PROVE  /\ task[w] \in SavingTask /\ task[w].at = "save" /\ TaskFits(task[w])
         /\ task[w].job \in Jobs
         /\ Becomes(w, After(task[w]))
         /\ row' = [row EXCEPT ![task[w].job] = SavedRow(task[w])]
         /\ SendsLinks({task[w].job}, task[w].to)
         /\ NotesStale({task[w].job}, [k \in {task[w].job} |-> task[w].held])
         /\ UNCHANGED <<batch, spent, awarded, faults>>
         /\ unit' = IF FirstCompletion(task[w].held, task[w].to) THEN unit ELSE Ensured
<1>1. task[w] \in SavingTask /\ task[w].at = "save" /\ TaskFits(task[w])
  BY TaskKinds DEF Fits, TypeOK, SaveJob, Saving
<1>2. task[w].job \in Jobs
  BY <1>1 DEF SavingTask
<1>3. Becomes(w, After(task[w]))
  BY Zenon DEF SaveJob, Becomes, After, SavedRow
<1>4. row' = [row EXCEPT ![task[w].job] = SavedRow(task[w])]
  BY Zenon DEF SaveJob, SavedRow
<1>. QED BY <1>1, <1>2, <1>3, <1>4, Zenon DEF SaveJob

CommittedRow(t, j) ==
  [t.held[j] EXCEPT !.status = t.to, !.tier = TierSaved(t.held[j], t.to, @)]

LEMMA CommitsTask ==
  ASSUME Fits, NEW w \in Workers, Commit(w)
  PROVE  /\ task[w] \in CommitTask /\ task[w].at = "commit" /\ TaskFits(task[w])
         /\ task[w].jobs \subseteq Jobs /\ task[w].to \in QueueStatus
         /\ Becomes(w, Idle)
         /\ row' = [j \in Jobs |-> IF j \in task[w].jobs THEN CommittedRow(task[w], j) ELSE row[j]]
         /\ SendsLinks(task[w].jobs, task[w].to)
         /\ NotesStale(task[w].jobs, task[w].held)
         /\ UNCHANGED <<batch, spent, faults>>
         /\ \A j \in task[w].jobs :
              /\ task[w].held[j] \in Row
              /\ task[w].held[j].status # "COMPLETED"
              /\ CommittedRow(task[w], j) \in Row
              /\ CommittedRow(task[w], j).status = task[w].to
              /\ CommittedRow(task[w], j).deleted = task[w].held[j].deleted
<1>1. task[w] \in CommitTask /\ task[w].at = "commit" /\ TaskFits(task[w])
  BY TaskKinds DEF Fits, TypeOK, Commit
<1>2. task[w].jobs \subseteq Jobs /\ task[w].to \in QueueStatus /\ task[w].held \in [Jobs -> Row]
  BY <1>1 DEF CommitTask
<1>3. ASSUME NEW j \in task[w].jobs
      PROVE  /\ task[w].held[j] \in Row
             /\ task[w].held[j].status # "COMPLETED"
             /\ CommittedRow(task[w], j) \in Row
             /\ CommittedRow(task[w], j).status = task[w].to
             /\ CommittedRow(task[w], j).deleted = task[w].held[j].deleted
  <2> DEFINE r == task[w].held[j]
             n == TierSaved(r, task[w].to, r.tier)
             q == [r EXCEPT !.status = task[w].to, !.tier = n]
  <2>1. r \in Row /\ r.status # "COMPLETED"
    BY <1>1, <1>2 DEF TaskFits
  <2>2. n \in Nat
    BY <2>1 DEF TierSaved, Row
  <2>3. CommittedRow(task[w], j) = q
    BY DEF CommittedRow
  <2> HIDE DEF n, r
  <2>4. q \in Row /\ q.status = task[w].to /\ q.deleted = r.deleted
    BY <1>2, <2>1, <2>2 DEF Row
  <2>. QED BY <2>1, <2>3, <2>4 DEF r
<1>4. Becomes(w, Idle)
  BY Zenon DEF Commit, Becomes
<1>5. row' = [j \in Jobs |-> IF j \in task[w].jobs THEN CommittedRow(task[w], j) ELSE row[j]]
  BY Zenon DEF Commit, CommittedRow
<1>6. /\ SendsLinks(task[w].jobs, task[w].to)
      /\ NotesStale(task[w].jobs, task[w].held)
      /\ UNCHANGED <<batch, spent, faults>>
  BY Zenon DEF Commit
<1>. QED BY <1>1, <1>2, <1>3, <1>4, <1>5, <1>6

LEMMA HooksRun ==
  ASSUME Fits, NEW w \in Workers, RunHooks(w)
  PROVE  /\ task[w] \in SavingTask /\ task[w].job \in Jobs /\ task[w].to = "COMPLETED"
         /\ Becomes(w, Idle)
         /\ awarded' \in [Jobs -> Nat]
         /\ \A j \in Jobs : awarded'[j] = IF j = task[w].job /\ Earns(task[w].held, task[w].to)
                                          THEN awarded[j] + 1 ELSE awarded[j]
<1>1. task[w] \in SavingTask /\ task[w].to = "COMPLETED"
  BY TaskKinds DEF Fits, TypeOK, RunHooks, TaskFits, Saving
<1>2. task[w].job \in Jobs /\ awarded \in [Jobs -> Nat]
  BY <1>1 DEF SavingTask, Fits, TypeOK
<1>3. Becomes(w, Idle)
  BY Zenon DEF RunHooks, Becomes
<1>4. awarded' = [awarded EXCEPT ![task[w].job] =
                    IF Earns(task[w].held, task[w].to) THEN @ + 1 ELSE @]
  BY Zenon DEF RunHooks
<1>. QED BY <1>1, <1>2, <1>3, <1>4

LEMMA TrashMoves ==
  ASSUME Fits, NEW w \in Workers, MoveToTrash(w)
  PROVE  /\ task[w] \in TrashTask /\ task[w].job \in Jobs
         /\ row' \in [Jobs -> Row]
         /\ \A j \in Jobs : /\ row'[j].status = row[j].status /\ row'[j].tier = row[j].tier
                            /\ row'[j].deleted = IF j = task[w].job THEN task[w].trashed
                                                 ELSE row[j].deleted
         /\ \E t \in {[at |-> "tally"], Idle} :
              /\ Becomes(w, t) /\ t \in Task /\ TaskFits(t) /\ t.at \in {"idle", "tally"}
              /\ t.at = "tally" <=> task[w].held.status = "COMPLETED"
<1>1. task[w] \in TrashTask
  BY TaskKinds DEF Fits, TypeOK, MoveToTrash
<1>2. task[w].job \in Jobs /\ task[w].trashed \in BOOLEAN /\ row \in [Jobs -> Row]
  BY <1>1 DEF TrashTask, Fits, TypeOK
<1>3. row' = [row EXCEPT ![task[w].job].deleted = task[w].trashed]
  BY DEF MoveToTrash
<1>4. row' \in [Jobs -> Row]
      /\ \A j \in Jobs : /\ row'[j].status = row[j].status /\ row'[j].tier = row[j].tier
                         /\ row'[j].deleted = IF j = task[w].job THEN task[w].trashed
                                              ELSE row[j].deleted
  <2>1. ASSUME NEW j \in Jobs
        PROVE  row'[j] = IF j = task[w].job THEN [row[j] EXCEPT !.deleted = task[w].trashed]
                         ELSE row[j]
    BY <1>2, <1>3
  <2>2. ASSUME NEW r \in Row, NEW b \in BOOLEAN
        PROVE  LET q == [r EXCEPT !.deleted = b]
               IN q \in Row /\ q.status = r.status /\ q.tier = r.tier /\ q.deleted = b
    BY DEF Row
  <2>3. ASSUME NEW j \in Jobs
        PROVE  /\ row'[j] \in Row /\ row'[j].status = row[j].status /\ row'[j].tier = row[j].tier
               /\ row'[j].deleted = IF j = task[w].job THEN task[w].trashed ELSE row[j].deleted
    <3>1. row[j] \in Row
      BY <1>2
    <3> DEFINE q == [row[j] EXCEPT !.deleted = task[w].trashed]
    <3>2. q \in Row /\ q.status = row[j].status /\ q.tier = row[j].tier
          /\ q.deleted = task[w].trashed
      BY <3>1, <2>2, <1>2
    <3>3. row'[j] = IF j = task[w].job THEN q ELSE row[j]
      BY <2>1
    <3> HIDE DEF q
    <3>4. CASE j = task[w].job
      BY <3>2, <3>3, <3>4
    <3>5. CASE j # task[w].job
      BY <3>1, <3>3, <3>5
    <3>. QED BY <3>4, <3>5
  <2>4. row' = [j \in Jobs |-> row'[j]]
    BY <1>2, <1>3
  <2>. QED BY <2>3, <2>4
<1>5. PICK t \in {[at |-> "tally"], Idle} :
        Becomes(w, t) /\ (t = [at |-> "tally"] <=> task[w].held.status = "COMPLETED")
  BY DEF MoveToTrash, Becomes, Recounts, Idle
<1>6. [at |-> "tally"] \in Task /\ TaskFits([at |-> "tally"])
  BY DEF Task, TaskFits, Saving
<1>7. t \in Task /\ TaskFits(t) /\ t.at \in {"idle", "tally"} /\ (t.at = "tally" <=> t = [at |-> "tally"])
  BY <1>6, IdleFits DEF Idle
<1>. QED BY <1>1, <1>2, <1>4, <1>5, <1>7

LEMMA RowsAnswered ==
  ASSUME Fits, NEW S \in SUBSET Jobs, NEW to \in {"APPROVED", "DENIED"}, Answer(S, to)
  PROVE  /\ row' \in [Jobs -> Row]
         /\ \A j \in Jobs \ S : row'[j] = row[j]
         /\ \A j \in S : row'[j].status = to /\ row'[j].deleted = row[j].deleted
<1>1. ASSUME NEW r \in Row
      PROVE  LET q == [r EXCEPT !.status = to, !.tier = 0]
             IN  q \in Row /\ q.status = to /\ q.deleted = r.deleted
  BY DEF Row, QueueStatus
<1>2. row \in [Jobs -> Row]
  BY DEF Fits, TypeOK
<1>3. row' = [j \in Jobs |-> IF j \in S THEN [row[j] EXCEPT !.status = to, !.tier = 0] ELSE row[j]]
  BY DEF Answer
<1>. QED BY <1>1, <1>2, <1>3
LEMMA TrashOpens ==
  ASSUME Fits, NEW w \in Workers, NEW j \in Jobs, OpenTrash(w, j)
  PROVE  \E t \in TrashTask : /\ Becomes(w, t) /\ t \in Task /\ TaskFits(t) /\ t.at = "trash"
                              /\ t.job = j /\ t.held = row[j] /\ t.trashed = ~row[j].deleted
<1> DEFINE b == ~row[j].deleted
           r == row[j]
           t == [at |-> "trash", job |-> j, held |-> r, trashed |-> b]
<1>1. r \in Row /\ b \in BOOLEAN
  BY RowTyped DEF Fits
<1>2. Becomes(w, t)
  BY DEF OpenTrash, Becomes
<1> HIDE DEF b, r
<1>3. t \in TrashTask /\ t.at = "trash" /\ t.job = j /\ t.held = r /\ t.trashed = b
  BY <1>1 DEF TrashTask
<1> HIDE DEF t
<1>4. t \in Task /\ TaskFits(t)
  BY <1>3 DEF Task, TrashTask, TaskFits, Saving
<1>5. r = row[j] /\ b = ~row[j].deleted
  BY DEF r, b
<1>. QED BY <1>2, <1>3, <1>4, <1>5

(* The requests that only take copies.                                     *)
Begins(w) ==
  \/ \E j \in Jobs : OpenJob(w, j) \/ CreateJob(w, j) \/ OpenTrash(w, j)
  \/ BulkAction(w) \/ BatchAction(w) \/ CreateBatch(w)

LEMMA BeginningIsQuiet ==
  ASSUME Fits, NEW w \in Workers, Begins(w)
  PROVE  task[w] = Idle /\ NotesOverlap /\ Begun
<1>1. task[w] = Idle /\ NotesOverlap
  BY Zenon DEF Begins, OpenJob, CreateJob, OpenTrash, BulkAction, BatchAction, CreateBatch
<1>2. CASE \E j \in Jobs : OpenJob(w, j) \/ CreateJob(w, j) \/ OpenTrash(w, j)
  BY <1>1, <1>2 DEF OpenJob, CreateJob, OpenTrash, Begun
<1>3. CASE BulkAction(w) \/ BatchAction(w) \/ CreateBatch(w)
  BY <1>1, <1>3, BulkTakes
<1>. QED BY <1>2, <1>3 DEF Begins

(* A request that begins, in what it carries.                              *)
BeginsWith(w, t) ==
  \/ \E j \in Jobs : Copies(w, j, row[j], t) /\ ~row[j].deleted
  \/ \E j \in Jobs : /\ Copies(w, j, NoRow, t)
                     /\ j \notin batch /\ row[j].status = "none"
  \/ \E j \in Jobs : /\ t \in TrashTask /\ Becomes(w, t) /\ t \in Task /\ TaskFits(t)
                     /\ t.at = "trash" /\ row[j].status # "none"
                     /\ t.job = j /\ t.held = row[j] /\ t.trashed = ~row[j].deleted
  \/ \E S \in SUBSET Jobs :
       /\ CopiesAll(w, S, t)
       /\ \A j \in S : row[j].status # "COMPLETED" /\ (~row[j].deleted \/ row[j].status = "none")

LEMMA BeginningCopies ==
  ASSUME Fits, NEW w \in Workers, Begins(w)
  PROVE  \E t \in Task : BeginsWith(w, t) /\ Becomes(w, t) /\ TaskFits(t)
                         /\ t.at \in {"price", "save", "trash", "commit"}
<1>1. ASSUME NEW j \in Jobs, OpenJob(w, j) PROVE \E t : BeginsWith(w, t)
  BY <1>1, OpenCopies DEF BeginsWith, OpenJob
<1>2. ASSUME NEW j \in Jobs, CreateJob(w, j) PROVE \E t : BeginsWith(w, t)
  BY <1>2, CreateCopies DEF BeginsWith, CreateJob
<1>3. ASSUME NEW j \in Jobs, OpenTrash(w, j) PROVE \E t : BeginsWith(w, t)
  <2>1. PICK t \in TrashTask : /\ Becomes(w, t) /\ t \in Task /\ TaskFits(t) /\ t.at = "trash"
                               /\ t.job = j /\ t.held = row[j] /\ t.trashed = ~row[j].deleted
    BY <1>3, TrashOpens
  <2>2. row[j].status # "none"
    BY <1>3 DEF OpenTrash
  <2>3. BeginsWith(w, t)
    BY <2>1, <2>2 DEF BeginsWith
  <2>. QED BY <2>3
<1>4. ASSUME BulkAction(w) \/ BatchAction(w) \/ CreateBatch(w) PROVE \E t : BeginsWith(w, t)
  BY <1>4, BulkTakes DEF BeginsWith, TakesSome
<1>5. PICK t : BeginsWith(w, t)
  BY <1>1, <1>2, <1>3, <1>4 DEF Begins
<1>6. t \in Task /\ Becomes(w, t) /\ TaskFits(t) /\ t.at \in {"price", "save", "trash", "commit"}
  BY <1>5 DEF BeginsWith, Copies, CopiesAll
<1>. QED BY <1>5, <1>6

LEMMA FitsInit == Init => Fits
<1>. SUFFICES ASSUME Init PROVE Fits
  OBVIOUS
<1>1. 0 \in 0..MaxPairs
  BY BoardAssumption
<1>2. \A w \in Workers : task[w] = Idle
  BY DEF Init
<1>3. row \in [Jobs -> Row] /\ task \in [Workers -> Task]
  BY NoRowTyped, IdleFits DEF Init
<1>4. history \in [{"stale", "overlapped", "recounted", "replaced"} -> BOOLEAN]
  BY DEF Init
<1>5. TypeOK
  BY <1>1, <1>3, <1>4 DEF Init, TypeOK, Counts
<1>. QED BY <1>2, <1>5, IdleFits DEF Fits

LEMMA FitsNext == Fits /\ [Next]_vars => Fits'
<1>. SUFFICES ASSUME Fits, [Next]_vars PROVE Fits'
  OBVIOUS
<1>0. /\ history \in [Flags -> BOOLEAN] /\ batch \subseteq Jobs /\ unit \in Counts
      /\ row \in [Jobs -> Row] /\ awarded \in [Jobs -> Nat] /\ live \subseteq Link
      /\ spent \subseteq Link /\ issued \in 0..MaxPairs /\ faults \in Nat
      /\ task \in [Workers -> Task]
  BY DEF Fits, TypeOK, Flags
<1>a. NotesOverlap => HistoryTyped
  BY <1>0, OverlapNoted DEF HistoryTyped, Flags
<1>b. UNCHANGED history => HistoryTyped
  BY <1>0 DEF HistoryTyped
<1>c. \A S, held : NotesStale(S, held) => HistoryTyped
  BY <1>0, StaleNoted DEF HistoryTyped, Flags
<1>d. Ensured \in Counts /\ Ensured + 1 \in Counts /\ Ensured \in Nat
  BY <1>0, EnsuredTyped
<1>e. ASSUME NEW w \in Workers, Becomes(w, Idle), UNCHANGED <<batch, spent>>, row' \in [Jobs -> Row],
             unit' \in Counts, live' \subseteq Link, issued' \in 0..MaxPairs,
             awarded' \in [Jobs -> Nat], HistoryTyped, faults' \in Nat
      PROVE  Fits'
  <2>1. Idle \in Task /\ TaskFits(Idle) /\ Idle.at # "recount"
    BY IdleFits
  <2>. QED BY <1>e, <2>1, FitsMove
<1>1. ASSUME NEW w \in Workers, Begins(w) PROVE Fits'
  <2>1. PICK t \in Task : Becomes(w, t) /\ TaskFits(t) /\ t.at \in {"price", "save", "trash", "commit"}
    BY <1>1, BeginningCopies
  <2>2. HistoryTyped /\ Begun
    BY <1>1, <1>a, BeginningIsQuiet
  <2>. QED BY <2>1, <2>2, FitsBegin
<1>2. ASSUME NEW w \in Workers, Price(w) PROVE Fits'
  <2>1. PICK t \in Task : Becomes(w, t) /\ TaskFits(t) /\ t.at = "save"
    <3>. DEFINE s == task[w]
                u == [s EXCEPT !.at = "save", !.tier = IF s.job \in batch THEN @ ELSE Ensured + 1]
    <3>1. Becomes(w, u) /\ u \in Task /\ TaskFits(u) /\ u.at = "save"
      BY <1>2, PricedTask
    <3>. HIDE DEF u
    <3>. QED BY <3>1
  <2>2. UNCHANGED <<row, batch, live, issued, spent, awarded, history, faults>> /\ unit' \in Counts
    BY <1>2, <1>d DEF Price
  <2>. QED BY <2>1, <2>2, <1>0, <1>b, FitsMove
<1>3. ASSUME NEW w \in Workers, SaveJob(w) PROVE Fits'
  <2> DEFINE s == task[w]
  <2>1. /\ s \in SavingTask /\ TaskFits(s) /\ s.job \in Jobs
        /\ Becomes(w, After(s)) /\ row' = [row EXCEPT ![s.job] = SavedRow(s)]
        /\ SendsLinks({s.job}, s.to)
        /\ NotesStale({s.job}, [k \in {s.job} |-> s.held])
        /\ UNCHANGED <<batch, spent, awarded, faults>>
        /\ unit' = IF FirstCompletion(s.held, s.to) THEN unit ELSE Ensured
    BY <1>3, SavesTask
  <2> HIDE DEF s
  <2>2. /\ After(s) \in Task /\ TaskFits(After(s)) /\ After(s).at # "recount"
    BY <2>1, AfterFits, IdleFits
  <2>3. row' \in [Jobs -> Row]
    BY <2>1, <1>0, SavedRowTyped
  <2>4. live' \subseteq Link /\ issued' \in 0..MaxPairs
    BY <2>1, LinksTyped DEF Fits
  <2>5. unit' \in Counts
    BY <2>1, <1>0, <1>d
  <2>6. HistoryTyped
    BY <2>1, <1>c
  <2>. QED BY <2>1, <2>2, <2>3, <2>4, <2>5, <2>6, <1>0, FitsMove
<1>4. ASSUME NEW w \in Workers, RunHooks(w) PROVE Fits'
  <2>1. awarded' \in [Jobs -> Nat] /\ Becomes(w, Idle)
    BY <1>4, HooksRun
  <2>2. UNCHANGED <<row, batch, unit, live, issued, spent, history, faults>>
    BY <1>4 DEF RunHooks
  <2>. QED BY <2>1, <2>2, <1>0, <1>b, <1>e
<1>5. ASSUME NEW w \in Workers, TakeSiblings(w) PROVE Fits'
  <2>1. PICK S, t : S \in SUBSET Jobs /\ CopiesAll(w, S, t)
    BY <1>5, BulkTakes DEF TakesSome
  <2>2. t \in Task /\ Becomes(w, t) /\ TaskFits(t) /\ t.at # "recount"
    BY <2>1 DEF CopiesAll
  <2>3. Begun /\ HistoryTyped
    BY <1>5, <1>b, BulkTakes DEF TakeSiblings
  <2>. QED BY <2>2, <2>3, FitsBegin
<1>6. ASSUME NEW w \in Workers, Commit(w) PROVE Fits'
  <2> DEFINE S == task[w].jobs
             first == {j \in S : FirstCompletion(task[w].held[j], task[w].to)}
  <2>1. /\ S \subseteq Jobs /\ Becomes(w, Idle)
        /\ row' = [j \in Jobs |-> IF j \in S THEN CommittedRow(task[w], j) ELSE row[j]]
        /\ SendsLinks(S, task[w].to) /\ NotesStale(S, task[w].held)
        /\ UNCHANGED <<batch, spent, faults>>
        /\ \A j \in S : CommittedRow(task[w], j) \in Row
    BY <1>6, CommitsTask
  <2>2. row' \in [Jobs -> Row]
    BY <2>1, <1>0
  <2>3. first \subseteq Jobs /\ IsFiniteSet(first)
    BY <2>1, FS_Subset, BoardAssumption
  <2>4. Cardinality(first) \in Nat
    BY <2>3, FS_CardinalityType
  <2>5. unit' = IF S = {} THEN unit ELSE Ensured + Cardinality(first)
    BY <1>6, Zenon DEF Commit
  <2>6. unit' \in Counts
    BY <2>4, <2>5, <1>0, <1>d DEF Counts
  <2>7. awarded' = [j \in Jobs |-> IF j \in S /\ Earns(task[w].held[j], task[w].to)
                                   THEN awarded[j] + 1 ELSE awarded[j]]
    BY <1>6, Zenon DEF Commit
  <2>8. awarded' \in [Jobs -> Nat]
    BY <2>7, <1>0
  <2>9. live' \subseteq Link /\ issued' \in 0..MaxPairs
    BY <2>1, LinksTyped DEF Fits
  <2>. QED BY <2>1, <2>2, <2>6, <2>8, <2>9, <1>0, <1>c, <1>e
<1>7. ASSUME NEW w \in Workers, MoveToTrash(w) PROVE Fits'
  <2>1. row' \in [Jobs -> Row]
    BY <1>7, TrashMoves
  <2>2. PICK t \in Task : Becomes(w, t) /\ TaskFits(t) /\ t.at \in {"idle", "tally"}
    BY <1>7, TrashMoves
  <2>3. UNCHANGED <<batch, live, issued, spent, awarded, history, faults>> /\ unit' \in Counts
    BY <1>7, <1>d DEF MoveToTrash
  <2>. QED BY <2>1, <2>2, <2>3, <1>0, <1>b, FitsMove
<1>8. ASSUME NEW w \in Workers, Tally(w) PROVE Fits'
  <2> DEFINE n == Cardinality(Present(Jobs, {"COMPLETED"}))
             t == [at |-> "recount", count |-> n]
  <2>1. n \in Nat
    BY FS_Subset, FS_CardinalityType, BoardAssumption DEF Present
  <2>2. Becomes(w, t)
    BY <1>8 DEF Tally, Becomes
  <2> HIDE DEF n
  <2>3. t \in Task /\ TaskFits(t)
    BY <2>1 DEF Task, TaskFits, Saving
  <2>4. history' = [history EXCEPT !["recounted"] = TRUE]
    BY <1>8 DEF Tally
  <2>5. HistoryTyped /\ history'["recounted"]
    BY <2>4, <1>0 DEF HistoryTyped, Flags
  <2>6. UNCHANGED <<row, batch, live, issued, spent, awarded, faults>> /\ unit' \in Counts
    BY <1>8 DEF Tally, Counts
  <2>. QED BY <2>2, <2>3, <2>5, <2>6, <1>0, FitsMove
<1>9. ASSUME NEW w \in Workers, Recount(w) PROVE Fits'
  <2>1. task[w].count \in Nat
    BY <1>9, <1>0, TaskKinds DEF Recount
  <2>2. unit' \in Counts
    BY <1>9, <2>1, <1>0 DEF Recount, Counts
  <2>3. Becomes(w, Idle) /\ UNCHANGED <<row, batch, live, issued, spent, awarded, history, faults>>
    BY <1>9 DEF Recount, Becomes
  <2>. QED BY <2>2, <2>3, <1>0, <1>b, <1>e
<1>10. ASSUME NEW w \in Workers, Crash(w) PROVE Fits'
  <2>1. Becomes(w, Idle) /\ UNCHANGED <<row, batch, unit, live, issued, spent, awarded, history>>
        /\ faults' = faults + 1
    BY <1>10 DEF Crash, Becomes
  <2>. QED BY <2>1, <1>0, <1>b, <1>e
<1>f. ASSUME row' \in [Jobs -> Row], unit' \in Counts, HistoryTyped, live' \subseteq Link,
             spent' \subseteq Link, UNCHANGED <<batch, issued, task, awarded, faults>>
      PROVE  Fits'
  <2>1. TypeOK'
    BY <1>f, <1>0 DEF TypeOK, HistoryTyped, Flags
  <2>2. \A w \in Workers : TaskFits(task[w])'
    BY <1>f DEF Fits, TaskFits, Transitions, FirstCompletion
  <2>. QED BY <1>f, <2>1, <2>2 DEF Fits, HistoryTyped
<1>11. CASE ReplacementCompletes
  <2>1. history' = [history EXCEPT !["replaced"] = TRUE]
    BY <1>11 DEF ReplacementCompletes
  <2>2. HistoryTyped
    BY <2>1, <1>0 DEF HistoryTyped, Flags
  <2>. QED BY <1>11, <2>2, <1>0, <1>f DEF ReplacementCompletes, Counts
<1>12. ASSUME NEW S \in SUBSET Jobs, NEW to \in {"APPROVED", "DENIED"}, Answer(S, to),
              live' \subseteq live, spent' \subseteq spent \cup live
       PROVE  Fits'
  <2>1. row' \in [Jobs -> Row]
    BY <1>12, RowsAnswered
  <2>. QED BY <1>12, <2>1, <1>0, <1>a, <1>d, <1>f DEF Answer
<1>13. CASE CustomerAnswers
  <2>1. PICK S \in SUBSET Jobs, to \in {"APPROVED", "DENIED"} : Answer(S, to)
    BY <1>13 DEF CustomerAnswers, Present
  <2>. QED BY <1>13, <2>1, <1>12 DEF CustomerAnswers
<1>14. ASSUME NEW l \in live, FollowLink(l) PROVE Fits'
  <2>1. l \in Link /\ l.job \in Jobs /\ l.answer \in {"APPROVED", "DENIED"}
    BY <1>0 DEF Link
  <2>2. Answer({l.job}, l.answer) /\ live' \subseteq live /\ spent' = spent \cup {l}
    BY <1>14 DEF FollowLink
  <2>. QED BY <2>1, <2>2, <1>12
<1>15. CASE UNCHANGED vars
  <2>1. HistoryTyped
    BY <1>15, <1>b DEF vars
  <2>. QED BY <1>15, <2>1, <1>0, <1>f DEF vars
<1>. QED BY <1>1, <1>2, <1>3, <1>4, <1>5, <1>6, <1>7, <1>8, <1>9, <1>10, <1>11, <1>13, <1>14, <1>15
     DEF Next, Proceed, Begins
(* Everything in JobBoard has its type.                                    *)
THEOREM BoardTyped == Spec => []TypeOK
<1>1. Spec => []Fits
  BY FitsInit, FitsNext, PTL DEF Spec
<1>2. Fits => TypeOK
  BY DEF Fits
<1>. QED BY <1>1, <1>2, PTL

-----------------------------------------------------------------------------
(* Saves of rows that have not changed                                     *)

LEMMA SavesFresh ==
  ASSUME Fits, NEW w \in Workers, SaveJob(w), ~history'["stale"]
  PROVE  task[w].held = row[task[w].job] /\ ~history["stale"]
<1> DEFINE copies == [k \in {task[w].job} |-> task[w].held]
<1>1. NotesStale({task[w].job}, copies)
  BY SavesTask
<1>2. copies[task[w].job] = task[w].held
  OBVIOUS
<1> HIDE DEF copies
<1>3. history["stale"] \/ (\E j \in {task[w].job} : copies[j] # row[j]) => history'["stale"]
  BY <1>1, StaleNoted DEF Fits, TypeOK, Flags
<1>. QED BY <1>2, <1>3

LEMMA CommitsFresh ==
  ASSUME Fits, NEW w \in Workers, Commit(w), ~history'["stale"]
  PROVE  (\A j \in task[w].jobs : task[w].held[j] = row[j]) /\ ~history["stale"]
BY CommitsTask, StaleNoted DEF Fits, TypeOK, Flags

(* A save keeps COMPLETED what its copy says is completed.                 *)
LEMMA SaveKeepsCompleted ==
  ASSUME NEW t \in SavingTask, TaskFits(t), t.held.status = "COMPLETED"
  PROVE  t.to = "COMPLETED"
BY TransitionsTyped DEF SavingTask, TaskFits

-----------------------------------------------------------------------------
(* A completed repair stays completed                                      *)

LEMMA TerminalStep ==
  ASSUME Fits, [Next]_vars, NEW j \in Jobs, Done(j), ~Done(j)'
  PROVE  history'["stale"]
<1>. SUFFICES ASSUME ~history'["stale"] PROVE FALSE
  OBVIOUS
<1>0. row[j].status = "COMPLETED" /\ row'[j].status # "COMPLETED"
  BY DEF Done
<1>1. ASSUME NEW w \in Workers, Begins(w) PROVE FALSE
  BY <1>0, <1>1, BeginningIsQuiet DEF Begun
<1>2. ASSUME NEW w \in Workers, SaveJob(w) PROVE FALSE
  <2>1. /\ task[w] \in SavingTask /\ TaskFits(task[w]) /\ task[w].job \in Jobs
        /\ row' = [row EXCEPT ![task[w].job] = SavedRow(task[w])]
    BY <1>2, SavesTask
  <2>2. task[w].held = row[task[w].job]
    BY <1>2, SavesFresh
  <2>3. task[w].job = j
    BY <1>0, <2>1 DEF Fits, TypeOK
  <2>4. task[w].to = "COMPLETED"
    BY <1>0, <2>1, <2>2, <2>3, SaveKeepsCompleted
  <2>5. row'[j].status = task[w].to
    BY <2>1, <2>3, SavedRowTyped DEF Fits, TypeOK
  <2>. QED BY <1>0, <2>4, <2>5
<1>3. ASSUME NEW w \in Workers, Commit(w) PROVE FALSE
  <2>1. j \notin task[w].jobs
    BY <1>0, <1>3, CommitsFresh, CommitsTask
  <2>2. row'[j] = row[j]
    BY <1>3, <2>1, CommitsTask
  <2>. QED BY <1>0, <2>2
<1>4. ASSUME NEW w \in Workers, MoveToTrash(w) PROVE FALSE
  BY <1>0, <1>4, TrashMoves
<1>5. ASSUME NEW S \in SUBSET Present(Jobs, {"PENDING"}), NEW to \in {"APPROVED", "DENIED"},
             Answer(S, to)
      PROVE  FALSE
  <2>1. S \in SUBSET Jobs /\ j \notin S
    BY <1>0 DEF Present
  <2>. QED BY <1>0, <1>5, <2>1, RowsAnswered
<1>6. CASE CustomerAnswers
  BY <1>5, <1>6 DEF CustomerAnswers
<1>7. ASSUME NEW l \in live, FollowLink(l) PROVE FALSE
  <2>1. l.answer \in {"APPROVED", "DENIED"}
    BY DEF Fits, TypeOK, Link
  <2>2. {l.job} \in SUBSET Present(Jobs, {"PENDING"}) /\ Answer({l.job}, l.answer)
    BY <1>7 DEF FollowLink
  <2>. QED BY <2>1, <2>2, <1>5
<1>8. CASE ReplacementCompletes \/ UNCHANGED vars
  BY <1>0, <1>8 DEF ReplacementCompletes, vars
<1>9. ASSUME NEW w \in Workers,
             Price(w) \/ RunHooks(w) \/ TakeSiblings(w) \/ Tally(w) \/ Recount(w) \/ Crash(w)
      PROVE  FALSE
  BY <1>0, <1>9, BulkTakes DEF Price, RunHooks, Tally, Recount, Crash, Begun
<1>. QED BY <1>1, <1>2, <1>3, <1>4, <1>6, <1>7, <1>8, <1>9 DEF Next, Proceed, Begins

(* A completed repair never leaves COMPLETED unless a request saves a copy *)
(* of a row that has changed since it was read (ALLOWED_STATUS_TRANSITIONS *)
(* judged by the copy).                                                    *)
THEOREM CompletedStays == Spec => CompletedIsTerminal
<1>1. Spec => []Fits
  BY FitsInit, FitsNext, PTL DEF Spec
<1>2. Fits /\ [Next]_vars => [\A j \in Jobs : Done(j) /\ ~Done(j)' => history'["stale"]]_vars
  BY TerminalStep
<1>. QED BY <1>1, <1>2, PTL DEF Spec, CompletedIsTerminal

-----------------------------------------------------------------------------
(* A pair of links decides once                                            *)

(* No link was issued under a number that is still to come.                *)
LinkInv ==
  /\ LinkActsOnce
  /\ \A l \in live \cup spent : l.pair <= issued

LEMMA LinksSent ==
  ASSUME Fits, LinkInv, NEW S \in SUBSET Jobs, NEW to, SendsLinks(S, to), UNCHANGED spent
  PROVE  LinkInv'
<1>0. /\ live \subseteq Link /\ spent \subseteq Link /\ issued \in Nat
      /\ \A l \in Link : l.pair \in Nat
  BY BoardAssumption DEF Fits, TypeOK, Link
<1>1. CASE UNCHANGED <<live, issued>>
  BY <1>1 DEF LinkInv, LinkActsOnce
<1>2. CASE /\ issued' = issued + 1
           /\ live' = live \cup [job : Announced(S, to), pair : {issued + 1},
                                 answer : {"APPROVED", "DENIED"}]
  <2>1. \A m \in live' : m \in live \/ m.pair = issued + 1
    BY <1>2
  <2>2. \A l \in live' \cup spent' : l.pair <= issued'
    BY <1>0, <1>2, <2>1 DEF LinkInv
  <2>3. ASSUME NEW l \in spent', NEW m \in Link, m.job = l.job, m.pair = l.pair
        PROVE  m \notin live' /\ (m \in spent' => m = l)
    <3>1. l \in spent /\ l.pair <= issued /\ l.pair \in Nat
      BY <1>0 DEF LinkInv
    <3>2. m.pair # issued + 1
      BY <1>0, <2>3, <3>1
    <3>. QED BY <2>1, <2>3, <3>1, <3>2 DEF LinkInv, LinkActsOnce
  <2>. QED BY <2>2, <2>3 DEF LinkInv, LinkActsOnce
<1>. QED BY <1>1, <1>2 DEF SendsLinks

LEMMA LinkFollowed ==
  ASSUME Fits, LinkInv, NEW l \in live, FollowLink(l)
  PROVE  LinkInv'
<1>0. /\ live \subseteq Link /\ spent \subseteq Link /\ l \in Link /\ issued' = issued
      /\ live' = live \ UsesUp(l) /\ spent' = spent \cup {l}
  BY DEF Fits, TypeOK, FollowLink, Answer
<1>1. ASSUME NEW m \in Link, m.job = l.job, m.pair = l.pair
      PROVE  m \notin live' /\ (m \in spent' => m = l)
  <2>1. m.answer = l.answer => m = l
    BY <1>0, <1>1 DEF Link
  <2>2. m \in UsesUp(l) \/ m \notin live
    BY <1>1, <2>1 DEF UsesUp
  <2>3. m \notin spent
    BY <1>0, <1>1 DEF LinkInv, LinkActsOnce
  <2>. QED BY <1>0, <2>2, <2>3
<1>2. ASSUME NEW k \in spent, NEW m \in Link, m.job = k.job, m.pair = k.pair
      PROVE  m \notin live' /\ (m \in spent' => m = k)
  <2>1. m # l
    BY <1>0, <1>2 DEF LinkInv, LinkActsOnce
  <2>. QED BY <1>0, <1>2, <2>1 DEF LinkInv, LinkActsOnce
<1>3. \A k \in live' \cup spent' : k.pair <= issued'
  BY <1>0 DEF LinkInv
<1>. QED BY <1>0, <1>1, <1>2, <1>3 DEF LinkInv, LinkActsOnce

LEMMA LinkNext == Fits /\ LinkInv /\ [Next]_vars => LinkInv'
<1>. SUFFICES ASSUME Fits, LinkInv, [Next]_vars PROVE LinkInv'
  OBVIOUS
<1>1. ASSUME UNCHANGED <<live, issued, spent>> PROVE LinkInv'
  BY <1>1 DEF LinkInv, LinkActsOnce
<1>2. ASSUME NEW w \in Workers, Begins(w) PROVE LinkInv'
  BY <1>1, <1>2, BeginningIsQuiet DEF Begun
<1>3. ASSUME NEW w \in Workers, SaveJob(w) PROVE LinkInv'
  <2>1. /\ {task[w].job} \in SUBSET Jobs /\ UNCHANGED spent
        /\ SendsLinks({task[w].job}, task[w].to)
    BY <1>3, SavesTask
  <2>. QED BY <2>1, LinksSent
<1>4. ASSUME NEW w \in Workers, Commit(w) PROVE LinkInv'
  <2>1. /\ task[w].jobs \in SUBSET Jobs /\ UNCHANGED spent
        /\ SendsLinks(task[w].jobs, task[w].to)
    BY <1>4, CommitsTask
  <2>. QED BY <2>1, LinksSent
<1>5. ASSUME NEW w \in Workers, TakeSiblings(w) PROVE LinkInv'
  BY <1>1, <1>5, BulkTakes DEF Begun
<1>6. ASSUME NEW w \in Workers,
             Price(w) \/ RunHooks(w) \/ MoveToTrash(w) \/ Tally(w) \/ Recount(w) \/ Crash(w)
      PROVE  LinkInv'
  BY <1>1, <1>6 DEF Price, RunHooks, MoveToTrash, Tally, Recount, Crash
<1>7. CASE ReplacementCompletes \/ UNCHANGED vars
  BY <1>1, <1>7 DEF ReplacementCompletes, vars
<1>8. CASE CustomerAnswers
  BY <1>1, <1>8 DEF CustomerAnswers, Answer
<1>. QED BY <1>2, <1>3, <1>4, <1>5, <1>6, <1>7, <1>8, LinkFollowed DEF Next, Proceed, Begins

(* Of the pair of links in an e-mail at most one ever has an effect, and   *)
(* when one had, neither is live (mark_used and its sibling).              *)
THEOREM LinksDecideOnce == Spec => []LinkActsOnce
<1>1. Init => LinkInv
  BY DEF Init, LinkInv, LinkActsOnce
<1>2. Spec => []Fits
  BY FitsInit, FitsNext, PTL DEF Spec
<1>3. Spec => []LinkInv
  BY <1>1, <1>2, LinkNext, PTL DEF Spec
<1>4. LinkInv => LinkActsOnce
  BY DEF LinkInv
<1>. QED BY <1>3, <1>4, PTL
-----------------------------------------------------------------------------
(* Points follow the work                                                  *)

(* A request that has completed a repair and still has to award it.        *)
Owes(w, j) == task[w].at = "hooks" /\ task[w].job = j /\ Earns(task[w].held, task[w].to)

PointsOf(j) ==
  /\ awarded[j] = 0 \/ (awarded[j] = 1 /\ Done(j))
  /\ Done(j) /\ faults = 0 => awarded[j] = 1 \/ \E w \in Workers : Owes(w, j)
  /\ \A w \in Workers : Owes(w, j) =>
       Done(j) /\ awarded[j] = 0 /\ \A v \in Workers : Owes(v, j) => v = w

Pointed == ~history["stale"] => \A j \in Jobs : PointsOf(j)

LEMMA PointsSame ==
  ASSUME NEW j \in Jobs, PointsOf(j), Done(j)' <=> Done(j), awarded'[j] = awarded[j],
         \A w \in Workers : Owes(w, j)' => Owes(w, j),
         faults' = 0 => faults = 0 /\ \A w \in Workers : Owes(w, j) => Owes(w, j)'
  PROVE  PointsOf(j)'
<1> DEFINE owes(w) == Owes(w, j)
           done == Done(j)
<1>1. /\ awarded[j] = 0 \/ (awarded[j] = 1 /\ done)
      /\ done /\ faults = 0 => awarded[j] = 1 \/ \E w \in Workers : owes(w)
      /\ \A w \in Workers : owes(w) =>
           done /\ awarded[j] = 0 /\ \A v \in Workers : owes(v) => v = w
      /\ done' <=> done
      /\ \A w \in Workers : owes(w)' => owes(w)
      /\ faults' = 0 => faults = 0 /\ \A w \in Workers : owes(w) => owes(w)'
  BY DEF PointsOf
<1> HIDE DEF owes, done
<1>2. /\ awarded'[j] = 0 \/ (awarded'[j] = 1 /\ done')
      /\ done' /\ faults' = 0 => awarded'[j] = 1 \/ \E w \in Workers : owes(w)'
      /\ \A w \in Workers : owes(w)' =>
           done' /\ awarded'[j] = 0 /\ \A v \in Workers : owes(v)' => v = w
  BY <1>1
<1>. QED BY <1>2 DEF PointsOf, owes, done

(* A worker whose request neither owed an award nor comes to owe one.      *)
LEMMA OwingSame ==
  ASSUME Fits, NEW w \in Workers, NEW t, Becomes(w, t), NEW j,
         ~Owes(w, j), t.at = "hooks" => t.job # j \/ ~Earns(t.held, t.to)
  PROVE  \A v \in Workers : Owes(v, j)' <=> Owes(v, j)
<1>1. \A v \in Workers : task'[v] = IF v = w THEN t ELSE task[v]
  BY WorkerMoves DEF Fits
<1>2. ASSUME NEW v \in Workers, v # w PROVE Owes(v, j)' <=> Owes(v, j)
  BY <1>1, <1>2 DEF Owes, Earns, FirstCompletion
<1>3. ~Owes(w, j)'
  BY <1>1 DEF Owes, Earns, FirstCompletion
<1>. QED BY <1>2, <1>3

LEMMA SavePoints ==
  ASSUME Fits, Pointed, NEW w \in Workers, SaveJob(w), ~history'["stale"], NEW j \in Jobs
  PROVE  PointsOf(j)'
<1> DEFINE t == task[w]
<1>0. /\ t \in SavingTask /\ t.at = "save" /\ TaskFits(t) /\ t.job \in Jobs
      /\ Becomes(w, After(t)) /\ row' = [row EXCEPT ![t.job] = SavedRow(t)]
      /\ awarded' = awarded /\ faults' = faults
  BY SavesTask
<1>1. t.held = row[t.job] /\ PointsOf(j)
  BY SavesFresh DEF Pointed
<1>2. ~Owes(w, j)
  BY <1>0 DEF Owes
<1>r. \A v \in Workers : task'[v] = IF v = w THEN After(t) ELSE task[v]
  BY <1>0, WorkerMoves DEF Fits
<1> HIDE DEF t
<1>3. row'[t.job].status = t.to /\ \A k \in Jobs : k # t.job => row'[k] = row[k]
  BY <1>0, SavedRowTyped DEF Fits, TypeOK
<1>4. After(t).at = "hooks" => /\ t.to = "COMPLETED" /\ After(t).job = t.job
                               /\ After(t).held = t.held /\ After(t).to = t.to
  BY <1>0, AfterFits, IdleFits
<1>5. CASE j # t.job
  <2>1. Done(j)' <=> Done(j)
    BY <1>3, <1>5 DEF Done
  <2>2. \A v \in Workers : Owes(v, j)' <=> Owes(v, j)
    BY <1>0, <1>2, <1>4, <1>5, OwingSame
  <2>. QED BY <1>0, <1>1, <2>1, <2>2, PointsSame
<1>6. CASE j = t.job /\ t.to # "COMPLETED"
  <2>1. ~Done(j) /\ ~Done(j)'
    BY <1>0, <1>1, <1>3, <1>6, SaveKeepsCompleted DEF Done
  <2>2. \A v \in Workers : Owes(v, j)' <=> Owes(v, j)
    BY <1>0, <1>2, <1>4, <1>6, OwingSame
  <2>. QED BY <1>0, <1>1, <2>1, <2>2, PointsSame
<1>7. CASE j = t.job /\ t.to = "COMPLETED" /\ t.held.status = "COMPLETED"
  <2>1. Done(j) /\ Done(j)'
    BY <1>1, <1>3, <1>7 DEF Done
  <2>2. \A v \in Workers : Owes(v, j)' <=> Owes(v, j)
    BY <1>0, <1>2, <1>4, <1>7, OwingSame DEF Earns, FirstCompletion
  <2>. QED BY <1>0, <1>1, <2>1, <2>2, PointsSame
<1>8. CASE j = t.job /\ t.to = "COMPLETED" /\ t.held.status # "COMPLETED"
  <2>1. ~Done(j) /\ Done(j)'
    BY <1>1, <1>3, <1>8 DEF Done
  <2>2. awarded[j] = 0 /\ \A v \in Workers : ~Owes(v, j)
    BY <1>1, <2>1 DEF PointsOf
  <2>3. /\ After(t).at = "hooks" /\ After(t).job = t.job
        /\ After(t).held = t.held /\ After(t).to = t.to
    BY <1>0, <1>8, AfterFits
  <2>4. Owes(w, j)'
    BY <1>r, <1>8, <2>3 DEF Owes, Earns, FirstCompletion
  <2>5. \A v \in Workers : v # w => ~Owes(v, j)'
    BY <1>r, <2>2 DEF Owes, Earns, FirstCompletion
  <2>6. awarded'[j] = 0
    BY <1>0, <2>2
  <2>. QED BY <2>1, <2>4, <2>5, <2>6 DEF PointsOf
<1>. QED BY <1>5, <1>6, <1>7, <1>8

LEMMA HooksPoints ==
  ASSUME Fits, Pointed, NEW w \in Workers, RunHooks(w), ~history'["stale"], NEW j \in Jobs
  PROVE  PointsOf(j)'
<1> DEFINE t == task[w]
<1>0. /\ t \in SavingTask /\ t.job \in Jobs /\ t.to = "COMPLETED" /\ t.at = "hooks"
      /\ Becomes(w, Idle)
      /\ awarded'[j] = IF j = t.job /\ Earns(t.held, t.to) THEN awarded[j] + 1 ELSE awarded[j]
      /\ UNCHANGED <<row, faults, history>>
  BY HooksRun DEF RunHooks
<1>1. PointsOf(j)
  BY <1>0 DEF Pointed
<1>2. Done(j)' <=> Done(j)
  BY <1>0 DEF Done
<1>r. \A v \in Workers : task'[v] = IF v = w THEN Idle ELSE task[v]
  BY <1>0, WorkerMoves DEF Fits
<1>3. CASE ~Owes(w, j)
  <2>1. awarded'[j] = awarded[j]
    BY <1>0, <1>3 DEF Owes
  <2>2. \A v \in Workers : Owes(v, j)' <=> Owes(v, j)
    BY <1>0, <1>3, OwingSame, IdleFits
  <2>. QED BY <1>0, <1>1, <1>2, <2>1, <2>2, PointsSame
<1>4. CASE Owes(w, j)
  <2>1. Done(j) /\ awarded[j] = 0 /\ \A v \in Workers : Owes(v, j) => v = w
    BY <1>1, <1>4 DEF PointsOf
  <2>2. awarded'[j] = 1
    BY <1>0, <1>4, <2>1 DEF Owes
  <2>3. \A v \in Workers : ~Owes(v, j)'
    BY <1>r, <2>1, IdleFits DEF Owes, Earns, FirstCompletion
  <2>. QED BY <1>2, <2>1, <2>2, <2>3 DEF PointsOf
<1>. QED BY <1>3, <1>4

LEMMA CommitPoints ==
  ASSUME Fits, Pointed, NEW w \in Workers, Commit(w), ~history'["stale"], NEW j \in Jobs
  PROVE  PointsOf(j)'
<1> DEFINE t == task[w]
<1>0. /\ t.at = "commit" /\ t.jobs \subseteq Jobs /\ Becomes(w, Idle) /\ faults' = faults
      /\ row' = [k \in Jobs |-> IF k \in t.jobs THEN CommittedRow(t, k) ELSE row[k]]
      /\ \A k \in t.jobs : t.held[k].status # "COMPLETED" /\ CommittedRow(t, k).status = t.to
      /\ \A k \in t.jobs : t.held[k] = row[k]
  BY CommitsTask, CommitsFresh
<1>1. PointsOf(j)
  BY CommitsFresh DEF Pointed
<1>2. awarded' = [k \in Jobs |-> IF k \in t.jobs /\ Earns(t.held[k], t.to)
                                 THEN awarded[k] + 1 ELSE awarded[k]]
  BY Zenon DEF Commit
<1>3. \A v \in Workers : Owes(v, j)' <=> Owes(v, j)
  BY <1>0, OwingSame, IdleFits DEF Owes
<1>4. CASE j \notin t.jobs
  <2>1. awarded'[j] = awarded[j] /\ (Done(j)' <=> Done(j))
    BY <1>0, <1>2, <1>4 DEF Done
  <2>. QED BY <1>0, <1>1, <1>3, <2>1, PointsSame
<1>5. CASE j \in t.jobs
  <2>1. ~Done(j) /\ (Done(j)' <=> t.to = "COMPLETED")
    BY <1>0, <1>5 DEF Done
  <2>2. awarded[j] = 0 /\ \A v \in Workers : ~Owes(v, j)'
    BY <1>1, <1>3, <2>1 DEF PointsOf
  <2>3. awarded'[j] = IF t.to = "COMPLETED" THEN 1 ELSE 0
    BY <1>0, <1>2, <1>5, <2>2 DEF Earns, FirstCompletion
  <2>. QED BY <2>1, <2>2, <2>3 DEF PointsOf
<1>. QED BY <1>4, <1>5

LEMMA PointsNext == Fits /\ Pointed /\ [Next]_vars => Pointed'
<1>. SUFFICES ASSUME Fits, Pointed, [Next]_vars, ~history'["stale"], NEW j \in Jobs
              PROVE  PointsOf(j)'
  BY DEF Pointed
<1>0. history \in [Flags -> BOOLEAN]
  BY DEF Fits, TypeOK, Flags
<1>1. ASSUME ~history["stale"], Done(j)' <=> Done(j), awarded' = awarded,
             \A v \in Workers : Owes(v, j)' => Owes(v, j),
             faults' = 0 => faults = 0 /\ \A v \in Workers : Owes(v, j) => Owes(v, j)'
      PROVE  PointsOf(j)'
  <2>1. PointsOf(j)
    BY <1>1 DEF Pointed
  <2>. QED BY <1>1, <2>1, PointsSame
<1>2. ASSUME ~history["stale"], Done(j)' <=> Done(j), UNCHANGED <<awarded, faults>>,
             NEW w \in Workers, NEW t, Becomes(w, t), t.at # "hooks", task[w].at # "hooks"
      PROVE  PointsOf(j)'
  <2>1. \A v \in Workers : Owes(v, j)' <=> Owes(v, j)
    BY <1>2, OwingSame DEF Owes
  <2>. QED BY <1>1, <1>2, <2>1
<1>3. NotesOverlap => ~history["stale"]
  BY <1>0, OverlapNoted DEF Flags
<1>4. ASSUME NEW w \in Workers, Begins(w) PROVE PointsOf(j)'
  <2>1. PICK t \in Task : Becomes(w, t) /\ t.at \in {"price", "save", "trash", "commit"}
    BY <1>4, BeginningCopies
  <2>2. task[w].at # "hooks" /\ UNCHANGED <<row, awarded, faults>> /\ ~history["stale"]
    BY <1>3, <1>4, BeginningIsQuiet, IdleFits DEF Begun
  <2>. QED BY <1>2, <2>1, <2>2 DEF Done
<1>5. ASSUME NEW w \in Workers, Price(w) PROVE PointsOf(j)'
  <2>1. PICK t : Becomes(w, t) /\ t.at = "save"
    <3>. DEFINE s == task[w]
                u == [s EXCEPT !.at = "save", !.tier = IF s.job \in batch THEN @ ELSE Ensured + 1]
    <3>1. Becomes(w, u) /\ u.at = "save"
      BY <1>5, PricedTask
    <3>. HIDE DEF u
    <3>. QED BY <3>1
  <2>. QED BY <1>2, <1>5, <2>1 DEF Price, Done
<1>6. ASSUME NEW w \in Workers, TakeSiblings(w) PROVE PointsOf(j)'
  <2>1. PICK S, t : CopiesAll(w, S, t)
    BY <1>6, BulkTakes DEF TakesSome
  <2>2. Becomes(w, t) /\ t.at # "hooks"
    BY <2>1 DEF CopiesAll
  <2>3. task[w].at # "hooks" /\ UNCHANGED <<row, awarded, faults, history>>
    BY <1>6, BulkTakes DEF TakeSiblings, Begun
  <2>. QED BY <1>2, <2>2, <2>3 DEF Done
<1>7. ASSUME NEW w \in Workers, MoveToTrash(w) PROVE PointsOf(j)'
  <2>1. PICK t : Becomes(w, t) /\ t.at \in {"idle", "tally"}
    BY <1>7, TrashMoves
  <2>2. Done(j)' <=> Done(j)
    BY <1>7, TrashMoves DEF Done
  <2>. QED BY <1>2, <1>7, <2>1, <2>2 DEF MoveToTrash
<1>8. ASSUME NEW w \in Workers, Tally(w) PROVE PointsOf(j)'
  <2> DEFINE t == [at |-> "recount", count |-> Cardinality(Present(Jobs, {"COMPLETED"}))]
  <2>1. Becomes(w, t) /\ t.at = "recount"
    BY <1>8 DEF Tally, Becomes
  <2>2. history' = [history EXCEPT !["recounted"] = TRUE] /\ UNCHANGED <<row, awarded, faults>>
        /\ task[w].at = "tally"
    BY <1>8 DEF Tally
  <2>3. ~history["stale"]
    BY <1>0, <2>2 DEF Flags
  <2> HIDE DEF t
  <2>. QED BY <1>2, <2>1, <2>2, <2>3 DEF Done
<1>9. ASSUME NEW w \in Workers, Recount(w) PROVE PointsOf(j)'
  <2>1. Becomes(w, Idle) /\ Idle.at # "hooks"
    BY <1>9, IdleFits DEF Recount, Becomes
  <2>. QED BY <1>2, <1>9, <2>1 DEF Recount, Done
<1>10. ASSUME NEW w \in Workers, Crash(w) PROVE PointsOf(j)'
  <2>1. /\ task' = [task EXCEPT ![w] = Idle] /\ faults' = faults + 1
        /\ UNCHANGED <<row, awarded, history>>
    BY <1>10 DEF Crash
  <2>2. \A v \in Workers : task'[v] = task[v] \/ task'[v] = Idle
    BY <2>1 DEF Fits, TypeOK
  <2>3. \A v \in Workers : Owes(v, j)' => Owes(v, j)
    BY <2>2, IdleFits DEF Owes, Earns, FirstCompletion
  <2>4. faults' # 0
    BY <2>1 DEF Fits, TypeOK
  <2>. QED BY <1>1, <2>1, <2>3, <2>4 DEF Done
<1>11. ASSUME UNCHANGED <<task, awarded, faults>>, Done(j)' <=> Done(j), ~history["stale"]
       PROVE  PointsOf(j)'
  <2>1. \A v \in Workers : Owes(v, j)' <=> Owes(v, j)
    BY <1>11 DEF Owes, Earns, FirstCompletion
  <2>. QED BY <1>1, <1>11, <2>1
<1>12. CASE ReplacementCompletes
  <2>1. history' = [history EXCEPT !["replaced"] = TRUE]
    BY <1>12 DEF ReplacementCompletes
  <2>2. ~history["stale"]
    BY <1>0, <2>1 DEF Flags
  <2>. QED BY <1>11, <1>12, <2>2 DEF ReplacementCompletes, Done
<1>13. ASSUME NEW S \in SUBSET Present(Jobs, {"PENDING"}), NEW to \in {"APPROVED", "DENIED"},
              Answer(S, to)
       PROVE  PointsOf(j)'
  <2>1. S \in SUBSET Jobs /\ \A k \in S : row[k].status = "PENDING"
    BY DEF Present
  <2>2. Done(j)' <=> Done(j)
    BY <1>13, <2>1, RowsAnswered DEF Done
  <2>. QED BY <1>3, <1>11, <1>13, <2>2 DEF Answer
<1>14. CASE CustomerAnswers
  BY <1>13, <1>14 DEF CustomerAnswers
<1>15. ASSUME NEW l \in live, FollowLink(l) PROVE PointsOf(j)'
  <2>1. l.answer \in {"APPROVED", "DENIED"}
    BY DEF Fits, TypeOK, Link
  <2>2. {l.job} \in SUBSET Present(Jobs, {"PENDING"}) /\ Answer({l.job}, l.answer)
    BY <1>15 DEF FollowLink
  <2>. QED BY <2>1, <2>2, <1>13
<1>16. CASE UNCHANGED vars
  BY <1>11, <1>16 DEF vars, Done
<1>17. \A w \in Workers : SaveJob(w) \/ RunHooks(w) \/ Commit(w) => PointsOf(j)'
  BY SavePoints, HooksPoints, CommitPoints
<1>. QED BY <1>4, <1>5, <1>6, <1>7, <1>8, <1>9, <1>10, <1>12, <1>14, <1>15, <1>16, <1>17
     DEF Next, Proceed, Begins

(* Without a stale save a repair earns its points once, and in the end     *)
(* exactly if it is completed (loyalty_hook behind Repair.save).           *)
THEOREM PointsEarnedOnce == Spec => []PointsFollowWork
<1>1. Init => Pointed
  <2>. SUFFICES ASSUME Init, NEW j \in Jobs PROVE PointsOf(j)
    BY DEF Pointed
  <2>1. awarded[j] = 0 /\ row[j] = NoRow /\ \A w \in Workers : task[w] = Idle
    BY DEF Init
  <2>2. ~Done(j) /\ \A w \in Workers : ~Owes(w, j)
    BY <2>1, NoRowTyped, IdleFits DEF Done, Owes
  <2>. QED BY <2>1, <2>2 DEF PointsOf
<1>2. Spec => []Fits
  BY FitsInit, FitsNext, PTL DEF Spec
<1>3. Spec => []Pointed
  BY <1>1, <1>2, PointsNext, PTL DEF Spec
<1>4. Fits /\ Pointed => PointsFollowWork
  <2>. SUFFICES ASSUME Fits, Pointed, ~history["stale"], NEW j \in Jobs
                PROVE  /\ awarded[j] <= 1
                       /\ awarded[j] = 1 => Done(j)
                       /\ Quiet /\ faults = 0 /\ Done(j) => awarded[j] = 1
    BY DEF PointsFollowWork
  <2>1. PointsOf(j)
    BY DEF Pointed
  <2>2. Quiet => \A w \in Workers : ~Owes(w, j)
    BY IdleFits DEF Quiet, Owes
  <2>. QED BY <2>1, <2>2 DEF PointsOf
<1>. QED BY <1>2, <1>3, <1>4, PTL
-----------------------------------------------------------------------------
(* Price tiers are distinct                                                *)

(* A repair that has the tier, or a request that has drawn it for one.     *)
Drawn(w, j, n) ==
  task[w].at = "save" /\ task[w].to = "COMPLETED" /\ task[w].job = j /\ task[w].tier = n

HasTier(j, n) ==
  \/ Done(j) /\ row[j].tier = n
  \/ \E w \in Workers : Drawn(w, j, n)

Singles == Jobs \ batch

(* The tiers in use are distinct and none is above the counter.            *)
Tiered ==
  ~history["recounted"] /\ ~history["replaced"] =>
    \A j \in Singles, n \in Nat : HasTier(j, n) =>
      n <= Ensured /\ \A k \in Singles : HasTier(k, n) => k = j

Calm == ~history["recounted"] /\ ~history["replaced"]

(* Nobody comes by a tier he had not.                                      *)
LEMMA TiersShrink ==
  ASSUME Tiered, Calm' => Calm, batch' = batch, Ensured \in Nat, Ensured' \in Nat,
         Calm' => Ensured <= Ensured',
         Calm' => \A j \in Singles, n \in Nat : HasTier(j, n)' => HasTier(j, n)
  PROVE  Tiered'
<1>. SUFFICES ASSUME Calm', NEW j \in Singles, NEW n \in Nat, HasTier(j, n)'
              PROVE  n <= Ensured' /\ \A k \in Singles : HasTier(k, n)' => k = j
  BY DEF Tiered, Calm, Singles
<1>1. HasTier(j, n) /\ Calm
  OBVIOUS
<1>2. n <= Ensured /\ \A k \in Singles : HasTier(k, n) => k = j
  BY <1>1 DEF Tiered, Calm
<1>. QED BY <1>2

LEMMA DrawnBefore ==
  ASSUME Fits, NEW w \in Workers, NEW t, Becomes(w, t), NEW v \in Workers, NEW j, NEW n,
         Drawn(v, j, n)'
  PROVE  \/ Drawn(v, j, n)
         \/ v = w /\ t.at = "save" /\ t.to = "COMPLETED" /\ t.job = j /\ t.tier = n
<1>1. task'[v] = IF v = w THEN t ELSE task[v]
  BY WorkerMoves DEF Fits
<1>. QED BY <1>1 DEF Drawn

(* A request goes on without a tier of its own.                            *)
LEMMA NoTierDrawn ==
  ASSUME Fits, NEW w \in Workers, NEW t, Becomes(w, t),
         t.at # "save" \/ t.to # "COMPLETED",
         NEW j \in Jobs, NEW n, Done(j)' /\ row'[j].tier = n => HasTier(j, n), HasTier(j, n)'
  PROVE  HasTier(j, n)
<1>1. CASE Done(j)' /\ row'[j].tier = n
  BY <1>1
<1>2. CASE \E v \in Workers : Drawn(v, j, n)'
  BY <1>2, DrawnBefore DEF HasTier
<1>. QED BY <1>1, <1>2 DEF HasTier

LEMMA EnsuredGrows ==
  ASSUME unit \in Counts, unit' = unit \/ unit' = Ensured
  PROVE  Ensured \in Nat /\ Ensured' = Ensured
BY DEF Counts, NoCount, Ensured

LEMMA PriceTiers ==
  ASSUME Fits, Tiered, NEW w \in Workers, Price(w)
  PROVE  Tiered'
<1>0. batch' = batch /\ history' = history /\ unit' = Ensured + 1 /\ row' = row
  BY DEF Price
<1>1. Ensured \in Nat /\ Ensured' = Ensured + 1
  BY <1>0 DEF Fits, TypeOK, Counts, NoCount, Ensured
<1> DEFINE s == task[w]
           t == [s EXCEPT !.at = "save", !.tier = IF s.job \in batch THEN @ ELSE Ensured + 1]
<1>2. /\ Becomes(w, t) /\ t.job = s.job
      /\ s.job \notin batch => t.tier = Ensured + 1
  BY PricedTask
<1> HIDE DEF t, s
<1>. SUFFICES ASSUME Calm', NEW j \in Singles, NEW n \in Nat, HasTier(j, n)'
              PROVE  n <= Ensured' /\ \A k \in Singles : HasTier(k, n)' => k = j
  BY <1>0 DEF Tiered, Calm, Singles
<1>3. \A i \in Singles, m \in Nat :
        HasTier(i, m)' => HasTier(i, m) \/ (i = t.job /\ m = Ensured + 1)
  <2>. SUFFICES ASSUME NEW i \in Singles, NEW m \in Nat, HasTier(i, m)'
                PROVE  HasTier(i, m) \/ (i = t.job /\ m = Ensured + 1)
    OBVIOUS
  <2>1. CASE Done(i)' /\ row'[i].tier = m
    BY <1>0, <2>1 DEF Done, HasTier
  <2>2. ASSUME NEW v \in Workers, Drawn(v, i, m)'
        PROVE  HasTier(i, m) \/ (i = t.job /\ m = Ensured + 1)
    BY <1>2, <2>2, DrawnBefore DEF HasTier, Singles
  <2>. QED BY <2>1, <2>2 DEF HasTier
<1>4. \A i \in Singles, m \in Nat : HasTier(i, m) =>
        m <= Ensured /\ \A k \in Singles : HasTier(k, m) => k = i
  BY <1>0 DEF Tiered, Calm
<1>. QED BY <1>1, <1>3, <1>4

LEMMA TiersNext == Fits /\ Tiered /\ [Next]_vars => Tiered'
<1>. SUFFICES ASSUME Fits, Tiered, [Next]_vars PROVE Tiered'
  OBVIOUS
<1>0. history \in [Flags -> BOOLEAN] /\ unit \in Counts /\ batch \subseteq Jobs /\ row \in [Jobs -> Row]
  BY DEF Fits, TypeOK, Flags
<1>a. NotesOverlap \/ UNCHANGED history => (Calm' <=> Calm)
  BY <1>0, OverlapNoted DEF Flags, Calm
<1>s. \A S, held : NotesStale(S, held) => (Calm' <=> Calm)
  BY <1>0, StaleNoted DEF Flags, Calm
<1>h. ASSUME Calm' => Calm, batch' = batch, unit' = unit \/ unit' = Ensured,
             \A j \in Singles, n \in Nat : HasTier(j, n)' => HasTier(j, n)
      PROVE  Tiered'
  <2>1. Ensured \in Nat /\ Ensured' = Ensured
    BY <1>0, <1>h, EnsuredGrows
  <2>. QED BY <1>h, <2>1, TiersShrink
<1>n. ASSUME ~Calm' PROVE Tiered'
  BY <1>n DEF Tiered, Calm
<1>1. ASSUME NEW w \in Workers, Begins(w) PROVE Tiered'
  <2>1. PICK t \in Task : BeginsWith(w, t) /\ Becomes(w, t)
    BY <1>1, BeginningCopies
  <2>2. NotesOverlap /\ Begun
    BY <1>1, BeginningIsQuiet
  <2>3. ASSUME t.at = "save", t.to = "COMPLETED" PROVE Done(t.job) /\ row[t.job].tier = t.tier
    <3>1. ASSUME NEW j \in Jobs, Copies(w, j, row[j], t) PROVE Done(t.job) /\ row[t.job].tier = t.tier
      BY <2>3, <3>1 DEF Copies, FirstCompletion, Done
    <3>2. ASSUME NEW j \in Jobs, Copies(w, j, NoRow, t) PROVE FALSE
      BY <2>3, <3>2, NoRowTyped DEF Copies, FirstCompletion
    <3>. QED BY <2>1, <2>3, <3>1, <3>2 DEF BeginsWith, CopiesAll
  <2>4. ASSUME NEW j \in Singles, NEW n \in Nat, HasTier(j, n)' PROVE HasTier(j, n)
    <3>1. CASE Done(j)' /\ row'[j].tier = n
      BY <2>2, <3>1 DEF Done, HasTier, Begun
    <3>2. ASSUME NEW v \in Workers, Drawn(v, j, n)' PROVE HasTier(j, n)
      BY <2>1, <2>3, <3>2, DrawnBefore DEF HasTier
    <3>. QED BY <2>4, <3>1, <3>2 DEF HasTier
  <2>. QED BY <1>a, <1>h, <2>2, <2>4 DEF Begun
<1>2. ASSUME NEW w \in Workers, NEW t, Becomes(w, t), t.at # "save" \/ t.to # "COMPLETED",
             Calm' => Calm, batch' = batch, unit' = unit \/ unit' = Ensured,
             \A j \in Singles, n \in Nat : Done(j)' /\ row'[j].tier = n => HasTier(j, n)
      PROVE  Tiered'
  <2>1. \A j \in Singles, n \in Nat : HasTier(j, n)' => HasTier(j, n)
    BY <1>2, NoTierDrawn DEF Singles
  <2>. QED BY <1>2, <1>h, <2>1
<1>3. ASSUME row' = row \/ \A j \in Jobs : row'[j].status = row[j].status /\ row'[j].tier = row[j].tier
      PROVE  \A j \in Singles, n \in Nat : Done(j)' /\ row'[j].tier = n => HasTier(j, n)
  BY <1>3 DEF Done, HasTier, Singles
<1>4. ASSUME NEW w \in Workers, SaveJob(w) PROVE Tiered'
  <2> DEFINE t == task[w]
  <2>1. /\ t \in SavingTask /\ TaskFits(t) /\ t.job \in Jobs /\ t.at = "save"
        /\ Becomes(w, After(t)) /\ row' = [row EXCEPT ![t.job] = SavedRow(t)]
        /\ NotesStale({t.job}, [k \in {t.job} |-> t.held])
        /\ batch' = batch
        /\ unit' = IF FirstCompletion(t.held, t.to) THEN unit ELSE Ensured
    BY <1>4, SavesTask
  <2>d. \A j, n : t.to = "COMPLETED" /\ t.job = j /\ t.tier = n => HasTier(j, n)
    BY <2>1 DEF HasTier, Drawn
  <2> HIDE DEF t
  <2>2. After(t).at # "save" \/ After(t).to # "COMPLETED"
    BY <2>1, AfterFits, IdleFits
  <2>3. ASSUME NEW j \in Singles, NEW n \in Nat, Done(j)' /\ row'[j].tier = n PROVE HasTier(j, n)
    <3>1. CASE j = t.job
      BY <1>0, <2>1, <2>d, <2>3, <3>1, SavedRowTyped DEF Done
    <3>2. CASE j # t.job
      BY <1>0, <2>1, <2>3, <3>2 DEF Done, HasTier
    <3>. QED BY <3>1, <3>2
  <2>4. unit' = unit \/ unit' = Ensured
    BY <2>1
  <2>5. Calm' => Calm
    BY <1>s, <2>1
  <2>. QED BY <1>2, <2>1, <2>2, <2>3, <2>4, <2>5
<1>5. ASSUME NEW w \in Workers, RunHooks(w) PROVE Tiered'
  <2>1. Becomes(w, Idle) /\ Idle.at # "save" /\ UNCHANGED <<row, batch, unit, history>>
    BY <1>5, HooksRun, IdleFits DEF RunHooks
  <2>. QED BY <1>2, <1>3, <1>a, <2>1
<1>6. ASSUME NEW w \in Workers, TakeSiblings(w) PROVE Tiered'
  <2>1. PICK S, t : CopiesAll(w, S, t)
    BY <1>6, BulkTakes DEF TakesSome
  <2>2. Becomes(w, t) /\ t.at # "save"
    BY <2>1 DEF CopiesAll
  <2>3. UNCHANGED <<row, batch, unit, history>>
    BY <1>6, BulkTakes DEF TakeSiblings, Begun
  <2>. QED BY <1>2, <1>3, <1>a, <2>2, <2>3
<1>7. ASSUME NEW w \in Workers, Commit(w) PROVE Tiered'
  <2> DEFINE t == task[w]
             first == {j \in t.jobs : FirstCompletion(t.held[j], t.to)}
  <2>1. /\ t.jobs \subseteq Jobs /\ Becomes(w, Idle) /\ TaskFits(t) /\ t.at = "commit"
        /\ row' = [k \in Jobs |-> IF k \in t.jobs THEN CommittedRow(t, k) ELSE row[k]]
        /\ NotesStale(t.jobs, t.held)
        /\ batch' = batch
        /\ \A k \in t.jobs : CommittedRow(t, k).status = t.to
    BY <1>7, CommitsTask
  <2>2. unit' = IF t.jobs = {} THEN unit ELSE Ensured + Cardinality(first)
    BY <1>7, Zenon DEF Commit
  <2>3. Cardinality(first) \in Nat
    BY <2>1, FS_Subset, FS_CardinalityType, BoardAssumption
  <2>4. Ensured \in Nat /\ Ensured' \in Nat /\ Ensured <= Ensured'
    <3> HIDE DEF first
    <3>. QED BY <1>0, <2>2, <2>3 DEF Ensured, Counts, NoCount
  <2>5. ASSUME NEW j \in Singles, NEW n \in Nat, Done(j)' /\ row'[j].tier = n PROVE HasTier(j, n)
    <3>1. j \notin t.jobs
      BY <2>1, <2>5 DEF TaskFits, Done, Singles
    <3>. QED BY <2>1, <2>5, <3>1 DEF Done, HasTier, Singles
  <2>6. \A j \in Singles, n \in Nat : HasTier(j, n)' => HasTier(j, n)
    BY <2>1, <2>5, NoTierDrawn, IdleFits DEF Singles
  <2>7. Calm' => Calm
    BY <1>s, <2>1
  <2>. QED BY <2>1, <2>4, <2>6, <2>7, TiersShrink
<1>8. ASSUME NEW w \in Workers, MoveToTrash(w) PROVE Tiered'
  <2>1. PICK t : Becomes(w, t) /\ t.at \in {"idle", "tally"}
    BY <1>8, TrashMoves
  <2>2. \A j \in Jobs : row'[j].status = row[j].status /\ row'[j].tier = row[j].tier
    BY <1>8, TrashMoves
  <2>3. unit' = Ensured /\ UNCHANGED <<batch, history>>
    BY <1>8 DEF MoveToTrash
  <2>. QED BY <1>2, <1>3, <1>a, <2>1, <2>2, <2>3
<1>9. ASSUME NEW w \in Workers, Tally(w) PROVE Tiered'
  BY <1>0, <1>9, <1>n DEF Tally, Flags, Calm
<1>10. ASSUME NEW w \in Workers, Recount(w) PROVE Tiered'
  BY <1>10, <1>n DEF Recount, Fits, Calm
<1>11. ASSUME NEW w \in Workers, Crash(w) PROVE Tiered'
  <2>1. Becomes(w, Idle) /\ Idle.at # "save" /\ UNCHANGED <<row, batch, unit, history>>
    BY <1>11, IdleFits DEF Crash, Becomes
  <2>. QED BY <1>2, <1>3, <1>a, <2>1
<1>12. CASE ReplacementCompletes
  BY <1>0, <1>12, <1>n DEF ReplacementCompletes, Flags, Calm
<1>13. ASSUME Calm' => Calm, UNCHANGED <<batch, task>>, unit' = unit \/ unit' = Ensured,
              \A j \in Jobs : Done(j)' => row'[j] = row[j]
       PROVE  Tiered'
  <2>1. ASSUME NEW j \in Singles, NEW n \in Nat, HasTier(j, n)' PROVE HasTier(j, n)
    <3>1. CASE Done(j)' /\ row'[j].tier = n
      BY <1>13, <3>1 DEF Done, HasTier, Singles
    <3>2. CASE \E v \in Workers : Drawn(v, j, n)'
      BY <1>13, <3>2 DEF Drawn, HasTier
    <3>. QED BY <2>1, <3>1, <3>2 DEF HasTier
  <2>. QED BY <1>h, <1>13, <2>1
<1>14. ASSUME NEW S \in SUBSET Jobs, NEW to \in {"APPROVED", "DENIED"}, Answer(S, to)
       PROVE  Tiered'
  <2>1. \A j \in Jobs : Done(j)' => row'[j] = row[j]
    BY <1>14, RowsAnswered DEF Done
  <2>. QED BY <1>13, <1>14, <1>a, <2>1 DEF Answer
<1>15. CASE CustomerAnswers
  BY <1>14, <1>15 DEF CustomerAnswers, Present
<1>16. ASSUME NEW l \in live, FollowLink(l) PROVE Tiered'
  <2>1. l.answer \in {"APPROVED", "DENIED"} /\ l.job \in Jobs
    BY DEF Fits, TypeOK, Link
  <2>. QED BY <1>14, <1>16, <2>1 DEF FollowLink
<1>17. CASE UNCHANGED vars
  BY <1>13, <1>a, <1>17 DEF vars
<1>. QED BY <1>1, PriceTiers, <1>4, <1>5, <1>6, <1>7, <1>8, <1>9, <1>10, <1>11, <1>12, <1>15, <1>16, <1>17
     DEF Next, Proceed, Begins

(* As long as nothing was recounted and no new windshield was fitted, two  *)
(* completed repairs of the vehicle never share a tier (C5, A1).           *)
THEOREM TiersDiffer == Spec => []DistinctTiers
<1>1. Init => Tiered
  <2>. SUFFICES ASSUME Init, NEW j \in Singles, NEW n \in Nat PROVE ~HasTier(j, n)
    BY DEF Tiered
  <2>1. j \in Jobs => row[j] = NoRow
    BY DEF Init
  <2>2. \A w \in Workers : task[w] = Idle
    BY DEF Init
  <2>. QED BY <2>1, <2>2, NoRowTyped, IdleFits DEF HasTier, Drawn, Done, Singles
<1>2. Spec => []Fits
  BY FitsInit, FitsNext, PTL DEF Spec
<1>3. Spec => []Tiered
  BY <1>1, <1>2, TiersNext, PTL DEF Spec
<1>4. Fits /\ Tiered => DistinctTiers
  <2>. SUFFICES ASSUME Fits, Tiered, Calm, NEW j \in Singles, NEW k \in Singles, j # k,
                       Done(j), Done(k), row[j].tier = row[k].tier
                PROVE  FALSE
    BY DEF DistinctTiers, Calm, Singles
  <2>1. row[j].tier \in Nat
    BY RowTyped DEF Fits, Singles
  <2>2. HasTier(j, row[j].tier) /\ HasTier(k, row[j].tier)
    BY DEF HasTier
  <2>. QED BY <2>1, <2>2 DEF Tiered, Calm
<1>. QED BY <1>2, <1>3, <1>4, PTL
-----------------------------------------------------------------------------
(* The counter follows the work                                            *)

Finished == Present(Jobs, {"COMPLETED"})
Work == Cardinality(Finished)

LEMMA WorkTyped == Finished \subseteq Jobs /\ IsFiniteSet(Finished) /\ Work \in Nat
<1>1. Finished \subseteq Jobs
  BY DEF Finished, Present
<1>. QED BY <1>1, FS_Subset, FS_CardinalityType, BoardAssumption DEF Work

LEMMA FinishedAre == \A j : j \in Finished <=> j \in Jobs /\ Done(j) /\ ~row[j].deleted
BY DEF Finished, Present, Done

LEMMA WorkSame ==
  ASSUME \A j \in Jobs : Done(j)' /\ ~row'[j].deleted <=> Done(j) /\ ~row[j].deleted
  PROVE  Work' = Work
<1>1. Finished' = Finished
  BY DEF Finished, Present, Done
<1>. QED BY <1>1 DEF Work

(* Repairs that were not among them join the finished ones.                *)
LEMMA WorkGrows ==
  ASSUME NEW S \in SUBSET Jobs, \A j \in S : j \notin Finished, Finished' = Finished \cup S
  PROVE  Cardinality(S) \in Nat /\ Work' = Work + Cardinality(S)
<1>1. IsFiniteSet(S) /\ IsFiniteSet(Finished)
  BY FS_Subset, BoardAssumption, WorkTyped
<1>2. Finished \cap S = {}
  OBVIOUS
<1>3. Cardinality(Finished \cup S) = Cardinality(Finished) + Cardinality(S)
  <2>1. Cardinality(Finished \cup S)
          = Cardinality(Finished) + Cardinality(S) - Cardinality(Finished \cap S)
    BY <1>1, FS_Union
  <2>2. Cardinality(Finished \cap S) = 0
    BY <1>2, FS_EmptySet
  <2>3. Cardinality(Finished) \in Nat /\ Cardinality(S) \in Nat
    BY <1>1, FS_CardinalityType
  <2>. QED BY <2>1, <2>2, <2>3
<1>. QED BY <1>1, <1>3, FS_CardinalityType DEF Work

(* What one request alone may rely on at each of its steps.                *)
Fresh(t) ==
  /\ t.at \in {"hooks", "siblings", "price", "commit", "trash"} => Ensured = Work
  /\ t.at \in {"price", "save"} => t.held = row[t.job] /\ ~t.held.deleted
  /\ t.at = "save" =>
       Ensured = IF FirstCompletion(t.held, t.to) THEN Work + 1 ELSE Work
  /\ t.at = "commit" => \A j \in t.jobs : t.held[j] = row[j] /\ ~row[j].deleted
  /\ t.at = "trash" => t.held = row[t.job] /\ t.held.status # "none"
  /\ t.at = "recount" => unit = NoCount /\ t.count = Work

Untroubled == faults = 0 /\ ~history["overlapped"] /\ ~history["replaced"]

NewRows == \A j \in Jobs : row[j].status = "none" => row[j] = NoRow

Counted ==
  Untroubled =>
    /\ \A w \in Workers :
         task[w] = Idle \/ (Fresh(task[w]) /\ \A v \in Workers \ {w} : task[v] = Idle)
    /\ Quiet => Ensured = Work
    /\ NewRows

(* A request that is alone goes on.                                        *)
LEMMA AloneMoves ==
  ASSUME Fits, NEW w \in Workers, NEW t, Becomes(w, t),
         \A v \in Workers \ {w} : task[v] = Idle,
         t = Idle \/ Fresh(t)', t = Idle => Ensured' = Work', NewRows'
  PROVE  Counted'
<1>1. \A v \in Workers : task'[v] = IF v = w THEN t ELSE task[v]
  BY WorkerMoves DEF Fits
<1>2. task'[w] = t /\ \A v \in Workers \ {w} : task'[v] = Idle
  BY <1>1
<1>3. ASSUME NEW v \in Workers
      PROVE  task'[v] = Idle \/ (Fresh(task[v])' /\ \A u \in Workers \ {v} : task'[u] = Idle)
  <2>1. CASE v = w
    <3>1. CASE t = Idle
      BY <1>2, <2>1, <3>1
    <3>2. CASE Fresh(t)'
      <4>1. Fresh(task[w])'
        BY <1>2, <3>2 DEF Fresh
      <4>. QED BY <1>2, <2>1, <4>1
    <3>. QED BY <3>1, <3>2
  <2>2. CASE v # w
    BY <1>2, <2>2
  <2>. QED BY <2>1, <2>2
<1>4. Quiet' => Ensured' = Work'
  BY <1>2 DEF Quiet
<1>. QED BY <1>3, <1>4 DEF Counted

(* Before its step it was alone, and what it relies on holds.              *)
LEMMA WasAlone ==
  ASSUME Counted, Untroubled, NEW w \in Workers, task[w] # Idle
  PROVE  Fresh(task[w]) /\ (\A v \in Workers \ {w} : task[v] = Idle) /\ NewRows
BY DEF Counted

LEMMA SaveCounts ==
  ASSUME Fits, Counted, Untroubled, NEW w \in Workers, SaveJob(w)
  PROVE  Counted'
<1> DEFINE t == task[w]
<1>0. /\ t \in SavingTask /\ t.at = "save" /\ TaskFits(t) /\ t.job \in Jobs
      /\ Becomes(w, After(t)) /\ row' = [row EXCEPT ![t.job] = SavedRow(t)]
      /\ unit' = IF FirstCompletion(t.held, t.to) THEN unit ELSE Ensured
  BY SavesTask
<1>1. /\ t.held = row[t.job] /\ ~t.held.deleted
      /\ Ensured = IF FirstCompletion(t.held, t.to) THEN Work + 1 ELSE Work
      /\ \A v \in Workers \ {w} : task[v] = Idle
      /\ NewRows
  BY <1>0, WasAlone, IdleFits DEF Fresh
<1> HIDE DEF t
<1>2. row \in [Jobs -> Row] /\ unit \in Counts /\ t.to \in QueueStatus /\ t.to # "none"
  BY <1>0 DEF Fits, TypeOK, SavingTask, QueueStatus
<1>3. /\ SavedRow(t).status = t.to /\ SavedRow(t).deleted = t.held.deleted
      /\ row'[t.job] = SavedRow(t) /\ \A k \in Jobs : k # t.job => row'[k] = row[k]
  BY <1>0, <1>2, SavedRowTyped
<1>4. NewRows'
  BY <1>1, <1>2, <1>3 DEF NewRows
<1>5. Ensured \in Nat /\ Ensured' = Ensured
  BY <1>0, <1>2, EnsuredGrows
<1>6. Ensured' = Work'
  <2>1. CASE FirstCompletion(t.held, t.to)
    <3>1. t.job \notin Finished /\ Finished' = Finished \cup {t.job}
      BY <1>0, <1>1, <1>3, <2>1 DEF FirstCompletion, Finished, Present
    <3>2. Work' = Work + Cardinality({t.job})
      BY <1>0, <3>1, WorkGrows
    <3>. QED BY <1>1, <1>5, <2>1, <3>2, FS_Singleton
  <2>2. CASE ~FirstCompletion(t.held, t.to)
    <3>1. t.to = "COMPLETED" <=> t.held.status = "COMPLETED"
      BY <1>0, <2>2, SaveKeepsCompleted DEF FirstCompletion
    <3>2. \A j \in Jobs : Done(j)' /\ ~row'[j].deleted <=> Done(j) /\ ~row[j].deleted
      BY <1>1, <1>3, <3>1 DEF Done
    <3>3. Work' = Work
      BY <3>2, WorkSame
    <3>. QED BY <1>1, <1>5, <2>2, <3>3
  <2>. QED BY <2>1, <2>2
<1>7. PICK u : u = After(t)
  OBVIOUS
<1>8. u = Idle \/ Fresh(u)'
  <2>1. CASE t.to = "COMPLETED"
    BY <1>0, <1>6, <1>7, <2>1, AfterFits DEF Fresh
  <2>2. CASE t.to # "COMPLETED" /\ u.at = "siblings"
    BY <1>6, <2>2 DEF Fresh
  <2>3. CASE /\ u.at = "save" /\ u.to = "APPROVED"
             /\ u.job = t.job /\ u.held = SavedRow(t)
    <3>1. ~FirstCompletion(u.held, u.to)' /\ u.held = row'[u.job] /\ ~u.held.deleted
      BY <1>1, <1>3, <2>3 DEF FirstCompletion
    <3>. QED BY <1>6, <2>3, <3>1 DEF Fresh
  <2>. QED BY <1>0, <1>7, <2>1, <2>2, <2>3, AfterFits
<1>. QED BY <1>0, <1>1, <1>4, <1>6, <1>7, <1>8, AloneMoves

LEMMA CommitCounts ==
  ASSUME Fits, Counted, Untroubled, NEW w \in Workers, Commit(w)
  PROVE  Counted'
<1> DEFINE t == task[w]
           first == {j \in t.jobs : FirstCompletion(t.held[j], t.to)}
<1>0. /\ t.jobs \subseteq Jobs /\ t.to \in QueueStatus /\ Becomes(w, Idle) /\ t.at = "commit"
      /\ row' = [k \in Jobs |-> IF k \in t.jobs THEN CommittedRow(t, k) ELSE row[k]]
      /\ \A k \in t.jobs : /\ t.held[k].status # "COMPLETED"
                           /\ CommittedRow(t, k).status = t.to
                           /\ CommittedRow(t, k).deleted = t.held[k].deleted
  BY CommitsTask
<1>1. /\ Ensured = Work
      /\ \A k \in t.jobs : t.held[k] = row[k] /\ ~row[k].deleted
      /\ \A v \in Workers \ {w} : task[v] = Idle
      /\ NewRows
  BY <1>0, WasAlone, IdleFits DEF Fresh
<1>2. unit' = IF t.jobs = {} THEN unit ELSE Ensured + Cardinality(first)
  BY Zenon DEF Commit
<1>3. first = IF t.to = "COMPLETED" THEN t.jobs ELSE {}
  BY <1>0 DEF FirstCompletion
<1> HIDE DEF t, first
<1>4. row \in [Jobs -> Row] /\ unit \in Counts /\ t.to # "none"
  BY <1>0 DEF Fits, TypeOK, QueueStatus
<1>5. NewRows'
  BY <1>0, <1>1, <1>4 DEF NewRows
<1>6. Finished' = Finished \cup first /\ \A j \in first : j \notin Finished
  <2>1. \A j \in Jobs \ t.jobs : row'[j] = row[j]
    BY <1>0
  <2>2. \A j \in t.jobs : /\ row'[j].status = t.to /\ ~row'[j].deleted
                          /\ row[j].status # "COMPLETED"
    BY <1>0, <1>1
  <2>3. \A j \in t.jobs : j \notin Finished
    BY <2>2 DEF Finished, Present
  <2>4. CASE t.to = "COMPLETED"
    BY <1>0, <1>3, <2>1, <2>2, <2>3, <2>4 DEF Finished, Present
  <2>5. CASE t.to # "COMPLETED"
    BY <1>0, <1>3, <2>1, <2>2, <2>3, <2>5 DEF Finished, Present
  <2>. QED BY <2>4, <2>5
<1>7. first \in SUBSET Jobs
  BY <1>0, <1>3
<1>8. Cardinality(first) \in Nat /\ Work' = Work + Cardinality(first)
  BY <1>6, <1>7, WorkGrows
<1>9. Ensured' = Work'
  <2>1. Ensured \in Nat
    BY <1>4, EnsuredTyped
  <2>2. CASE t.jobs = {}
    <3>1. first = {} /\ Cardinality(first) = 0
      BY <1>3, <2>2, FS_EmptySet
    <3>2. Ensured' = Ensured
      BY <1>2, <2>2 DEF Ensured
    <3>. QED BY <1>1, <1>8, <2>1, <3>1, <3>2
  <2>3. CASE t.jobs # {}
    <3>1. Ensured' = Ensured + Cardinality(first)
      BY <1>2, <1>8, <2>1, <2>3 DEF Ensured, NoCount
    <3>. QED BY <1>1, <1>8, <3>1
  <2>. QED BY <2>2, <2>3
<1>. QED BY <1>0, <1>1, <1>5, <1>9, AloneMoves

LEMMA TrashCounts ==
  ASSUME Fits, Counted, Untroubled, NEW w \in Workers, MoveToTrash(w)
  PROVE  Counted'
<1> DEFINE t == task[w]
<1>0. /\ t \in TrashTask /\ t.job \in Jobs /\ t.at = "trash"
      /\ \A j \in Jobs : /\ row'[j].status = row[j].status /\ row'[j].tier = row[j].tier
                         /\ row'[j].deleted = IF j = t.job THEN t.trashed ELSE row[j].deleted
      /\ unit' = Ensured
  BY TrashMoves DEF MoveToTrash
<1>1. /\ t.held = row[t.job] /\ t.held.status # "none" /\ Ensured = Work
      /\ \A v \in Workers \ {w} : task[v] = Idle
      /\ NewRows
  BY <1>0, WasAlone, IdleFits DEF Fresh
<1>2. PICK u : Becomes(w, u) /\ u.at \in {"idle", "tally"} /\ (u = Idle \/ u = [at |-> "tally"])
               /\ (u.at = "tally" <=> t.held.status = "COMPLETED")
  BY TrashMoves
<1>3. \A j \in Jobs : j # t.job => row'[j] = row[j]
  BY DEF MoveToTrash, Fits, TypeOK
<1> HIDE DEF t
<1>4. NewRows'
  BY <1>0, <1>1, <1>3 DEF NewRows
<1>5. u = Idle \/ Fresh(u)'
  BY <1>2 DEF Fresh
<1>6. ASSUME u = Idle PROVE Ensured' = Work'
  <2>1. t.held.status # "COMPLETED"
    BY <1>2, <1>6, IdleFits
  <2>2. \A j \in Jobs : Done(j)' /\ ~row'[j].deleted <=> Done(j) /\ ~row[j].deleted
    BY <1>0, <1>1, <1>3, <2>1 DEF Done
  <2>3. Work' = Work
    BY <2>2, WorkSame
  <2>4. Ensured' = Ensured
    BY <1>0, EnsuredGrows DEF Fits, TypeOK
  <2>. QED BY <1>1, <2>3, <2>4
<1>. QED BY <1>1, <1>2, <1>4, <1>5, <1>6, AloneMoves

LEMMA CountNext == Fits /\ Counted /\ [Next]_vars => Counted'
<1>. SUFFICES ASSUME Fits, Counted, [Next]_vars, Untroubled' PROVE Counted'
  BY DEF Counted
<1>0. history \in [Flags -> BOOLEAN] /\ unit \in Counts /\ row \in [Jobs -> Row] /\ faults \in Nat
  BY DEF Fits, TypeOK, Flags
<1>a. NotesOverlap /\ UNCHANGED faults => Untroubled /\ ~Busy
  BY <1>0, OverlapNoted DEF Flags, Untroubled
<1>b. UNCHANGED <<history, faults>> => Untroubled
  BY DEF Untroubled
<1>c. \A S, held : NotesStale(S, held) /\ UNCHANGED faults => Untroubled
  BY <1>0, StaleNoted DEF Flags, Untroubled
<1>d. UNCHANGED row => Work' = Work /\ (NewRows' <=> NewRows)
  BY DEF Work, Finished, Present, NewRows
<1>e. UNCHANGED unit => Ensured' = Ensured
  BY DEF Ensured
<1>1. ASSUME NEW w \in Workers, Begins(w) PROVE Counted'
  <2>1. PICK t \in Task : BeginsWith(w, t) /\ Becomes(w, t) /\ t.at \in {"price", "save", "trash", "commit"}
    BY <1>1, BeginningCopies
  <2>2. Untroubled /\ (\A v \in Workers : task[v] = Idle) /\ Begun
    BY <1>1, <1>a, BeginningIsQuiet DEF Busy, Begun
  <2>3. Ensured = Work /\ NewRows
    BY <2>2 DEF Counted, Quiet
  <2>4. row' = row /\ Ensured' = Work' /\ NewRows' /\ Work' = Work
    BY <1>d, <1>e, <2>2, <2>3 DEF Begun
  <2>5. Fresh(t)'
    <3>1. ASSUME NEW j \in Jobs, NEW held, Copies(w, j, held, t), held = row[j], ~row[j].deleted
          PROVE  Fresh(t)'
      <4>1. t.at \in {"price", "save"} /\ t.job = j /\ t.held = held
            /\ (t.at = "price" <=> FirstCompletion(held, t.to))
        BY <3>1 DEF Copies
      <4>. QED BY <2>4, <3>1, <4>1 DEF Fresh, FirstCompletion
    <3>2. ASSUME NEW j \in Jobs, Copies(w, j, NoRow, t), row[j].status = "none"
          PROVE  Fresh(t)'
      <4>1. row[j] = NoRow
        BY <2>3, <3>2 DEF NewRows
      <4>. QED BY <3>1, <3>2, <4>1, NoRowTyped
    <3>3. ASSUME NEW j \in Jobs, t.at = "trash", row[j].status # "none", t.job = j, t.held = row[j]
          PROVE  Fresh(t)'
      BY <2>4, <3>3 DEF Fresh
    <3>4. ASSUME NEW S \in SUBSET Jobs, CopiesAll(w, S, t),
                 \A j \in S : row[j].status # "COMPLETED" /\ (~row[j].deleted \/ row[j].status = "none")
          PROVE  Fresh(t)'
      <4>1. \A j \in S : ~row[j].deleted
        BY <2>3, <3>4, NoRowTyped DEF NewRows
      <4>2. t.at = "commit" /\ t.jobs = S /\ \A j \in S : t.held[j] = row[j]
        BY <3>4 DEF CopiesAll
      <4>. QED BY <2>4, <4>1, <4>2 DEF Fresh
    <3>. QED BY <2>1, <3>1, <3>2, <3>3, <3>4 DEF BeginsWith
  <2>. QED BY <2>1, <2>2, <2>4, <2>5, AloneMoves, IdleFits
<1>2. ASSUME NEW w \in Workers, Price(w) PROVE Counted'
  <2> DEFINE s == task[w]
             p == [s EXCEPT !.at = "save", !.tier = IF s.job \in batch THEN @ ELSE Ensured + 1]
  <2>1. /\ Becomes(w, p) /\ FirstCompletion(s.held, s.to) /\ s.at = "price"
        /\ p.at = "save" /\ p.job = s.job /\ p.held = s.held /\ p.to = s.to
    BY <1>2, PricedTask
  <2>2. Untroubled /\ unit' = Ensured + 1 /\ row' = row
    BY <1>2, <1>b DEF Price
  <2>3. Fresh(s) /\ (\A v \in Workers \ {w} : task[v] = Idle) /\ NewRows
    BY <2>1, <2>2, WasAlone, IdleFits
  <2> HIDE DEF p
  <2>4. PICK t : t = p
    OBVIOUS
  <2>5. Ensured' = Ensured + 1 /\ Ensured = Work /\ Work' = Work /\ NewRows'
    BY <1>0, <1>d, <2>1, <2>2, <2>3 DEF Fresh, Ensured, Counts, NoCount
  <2>6. t.held = row'[t.job] /\ ~t.held.deleted /\ FirstCompletion(t.held, t.to)
    BY <2>1, <2>2, <2>3, <2>4 DEF Fresh
  <2>7. Fresh(t)'
    BY <2>1, <2>4, <2>5, <2>6 DEF Fresh, FirstCompletion
  <2>. QED BY <2>1, <2>3, <2>4, <2>5, <2>7, AloneMoves, IdleFits
<1>3. ASSUME NEW w \in Workers, SaveJob(w) PROVE Counted'
  BY <1>3, <1>c, SavesTask, SaveCounts
<1>4. ASSUME NEW w \in Workers, RunHooks(w) PROVE Counted'
  <2>1. Becomes(w, Idle) /\ task[w].at = "hooks" /\ UNCHANGED <<row, unit, history, faults>>
    BY <1>4, HooksRun DEF RunHooks
  <2>2. Fresh(task[w]) /\ (\A v \in Workers \ {w} : task[v] = Idle) /\ NewRows
    BY <2>1, <1>b, WasAlone, IdleFits
  <2>3. Ensured' = Work'
    BY <1>d, <1>e, <2>1, <2>2 DEF Fresh
  <2>. QED BY <1>d, <2>1, <2>2, <2>3, AloneMoves
<1>5. ASSUME NEW w \in Workers, TakeSiblings(w) PROVE Counted'
  <2>1. PICK S, t :
          /\ S \in SUBSET Jobs /\ CopiesAll(w, S, t)
          /\ \A j \in S : row[j].status # "COMPLETED" /\ (~row[j].deleted \/ row[j].status = "none")
    BY <1>5, BulkTakes DEF TakesSome
  <2>2. task[w].at = "siblings" /\ Begun /\ UNCHANGED history
    BY <1>5, BulkTakes DEF TakeSiblings
  <2>3. Fresh(task[w]) /\ (\A v \in Workers \ {w} : task[v] = Idle) /\ NewRows
    BY <2>2, <1>b, WasAlone, IdleFits DEF Begun
  <2>4. row' = row /\ Ensured' = Work' /\ NewRows'
    BY <1>d, <1>e, <2>2, <2>3 DEF Fresh, Begun
  <2>5. /\ Becomes(w, t) /\ t.at = "commit" /\ t.jobs = S
        /\ \A j \in S : t.held[j] = row[j] /\ ~row[j].deleted
    BY <2>1, <2>3, NoRowTyped DEF CopiesAll, NewRows
  <2>6. Fresh(t)'
    BY <2>4, <2>5 DEF Fresh
  <2>. QED BY <2>3, <2>4, <2>5, <2>6, AloneMoves, IdleFits
<1>6. ASSUME NEW w \in Workers, Commit(w) PROVE Counted'
  BY <1>6, <1>c, CommitsTask, CommitCounts
<1>7. ASSUME NEW w \in Workers, MoveToTrash(w) PROVE Counted'
  BY <1>7, <1>b, TrashCounts DEF MoveToTrash
<1>8. ASSUME NEW w \in Workers, Tally(w) PROVE Counted'
  <2>1. PICK t : t = [at |-> "recount", count |-> Work]
    OBVIOUS
  <2>2. Becomes(w, t) /\ unit' = NoCount /\ row' = row /\ faults' = faults /\ task[w].at = "tally"
    BY <1>8, <2>1 DEF Tally, Becomes, Work, Finished
  <2>3. history' = [history EXCEPT !["recounted"] = TRUE]
    BY <1>8 DEF Tally
  <2>4. Untroubled
    BY <1>0, <2>2, <2>3 DEF Untroubled, Flags
  <2>5. (\A v \in Workers \ {w} : task[v] = Idle) /\ NewRows
    BY <2>2, <2>4, WasAlone, IdleFits
  <2>6. Fresh(t)' /\ t # Idle
    BY <1>d, <2>1, <2>2, IdleFits DEF Fresh
  <2>. QED BY <1>d, <2>2, <2>5, <2>6, AloneMoves
<1>9. ASSUME NEW w \in Workers, Recount(w) PROVE Counted'
  <2>1. /\ task[w].at = "recount" /\ Becomes(w, Idle) /\ UNCHANGED <<row, history, faults>>
        /\ unit' = IF unit = NoCount /\ task[w].count > 0 THEN task[w].count ELSE unit
    BY <1>9 DEF Recount, Becomes
  <2>2. Fresh(task[w]) /\ (\A v \in Workers \ {w} : task[v] = Idle) /\ NewRows
    BY <2>1, <1>b, WasAlone, IdleFits
  <2>3. unit = NoCount /\ task[w].count = Work /\ Work \in Nat
    BY <2>1, <2>2, WorkTyped DEF Fresh
  <2>4. Ensured' = Work
    BY <2>1, <2>3 DEF Ensured, NoCount
  <2>. QED BY <1>d, <2>1, <2>2, <2>4, AloneMoves
<1>10. ASSUME NEW w \in Workers, Crash(w) PROVE Counted'
  BY <1>0, <1>10 DEF Crash, Untroubled
<1>11. CASE ReplacementCompletes
  BY <1>0, <1>11 DEF ReplacementCompletes, Untroubled, Flags
<1>12. ASSUME NEW S \in SUBSET Present(Jobs, {"PENDING"}), NEW to \in {"APPROVED", "DENIED"},
              Answer(S, to)
       PROVE  Counted'
  <2>1. Untroubled /\ (\A v \in Workers : task[v] = Idle) /\ unit' = Ensured /\ task' = task
    BY <1>12, <1>a DEF Answer, Busy
  <2>2. Ensured = Work /\ NewRows
    BY <2>1 DEF Counted, Quiet
  <2>3. S \in SUBSET Jobs /\ \A k \in S : row[k].status = "PENDING"
    BY DEF Present
  <2>4. /\ \A k \in Jobs \ S : row'[k] = row[k]
        /\ \A k \in S : row'[k].status = to
    BY <1>12, <2>3, RowsAnswered
  <2>5. \A k \in Jobs : Done(k)' /\ ~row'[k].deleted <=> Done(k) /\ ~row[k].deleted
    BY <2>3, <2>4 DEF Done
  <2>6. Work' = Work
    BY <2>5, WorkSame
  <2>7. NewRows'
    BY <2>2, <2>4 DEF NewRows
  <2>8. Ensured' = Ensured
    BY <1>0, <2>1, EnsuredGrows
  <2>9. \A v \in Workers : task'[v] = Idle
    BY <2>1
  <2>. QED BY <2>2, <2>6, <2>7, <2>8, <2>9 DEF Counted
<1>13. CASE CustomerAnswers
  BY <1>12, <1>13 DEF CustomerAnswers
<1>14. ASSUME NEW l \in live, FollowLink(l) PROVE Counted'
  <2>1. l.answer \in {"APPROVED", "DENIED"}
    BY DEF Fits, TypeOK, Link
  <2>2. {l.job} \in SUBSET Present(Jobs, {"PENDING"}) /\ Answer({l.job}, l.answer)
    BY <1>14 DEF FollowLink
  <2>. QED BY <2>1, <2>2, <1>12
<1>15. CASE UNCHANGED vars
  BY <1>15 DEF vars, Counted, Untroubled, Fresh, FirstCompletion, Ensured, Work, Finished, Present,
       Quiet, NewRows
<1>. QED BY <1>1, <1>2, <1>3, <1>4, <1>5, <1>6, <1>7, <1>8, <1>9, <1>10, <1>11, <1>13, <1>14, <1>15
     DEF Next, Proceed, Begins

(* After complete requests, one at a time, the counter is the number of    *)
(* completed repairs outside the trash (delete_repair, restore_repair).    *)
THEOREM CounterFollows == Spec => []CountMatchesWork
<1>1. Init => Counted
  <2>. SUFFICES ASSUME Init PROVE Counted
    OBVIOUS
  <2>1. (\A j \in Jobs : row[j] = NoRow) /\ (\A w \in Workers : task[w] = Idle) /\ unit = NoCount
    BY DEF Init
  <2>2. Finished = {}
    BY <2>1, NoRowTyped DEF Finished, Present
  <2>3. Work = 0 /\ Ensured = 0
    BY <2>1, <2>2, FS_EmptySet DEF Work, Ensured
  <2>. QED BY <2>1, <2>3 DEF Counted, NewRows
<1>2. Spec => []Fits
  BY FitsInit, FitsNext, PTL DEF Spec
<1>3. Spec => []Counted
  BY <1>1, <1>2, CountNext, PTL DEF Spec
<1>4. Counted => CountMatchesWork
  BY DEF Counted, CountMatchesWork, Untroubled, Work, Finished
<1>. QED BY <1>3, <1>4, PTL
=============================================================================
