---------------------------- MODULE MC_JobBilling ----------------------------
(* TLC instances of JobBilling: the two breaks of one batch.                 *)
EXTENDS JobBilling, TLC

CONSTANTS w1, w2, j1, j2

OneBatch == [j \in {j1, j2} |-> {j1, j2}]
Processes == Permutations(Workers) \cup Permutations(Jobs)

Renumbered == next < Max({1} \cup {invoices[i].number + 1 : i \in DOMAIN invoices})
                \/ \E w \in Workers : worker[w].moved

\* Invoices void or brought back; numbers set back; processes killed.
Upset == {i \in DOMAIN invoices : invoices[i].status = "CANCELLED" \/ invoices[i].revived}
Slips == (IF Renumbered THEN 1 ELSE 0) + crashes

InTheBin == (\E j \in Jobs : job[j].deleted > 0 \/ job[j].gone)
            \/ \E i \in DOMAIN invoices : invoices[i].deleted > 0 \/ invoices[i].status = "GONE"

Busy == {w \in Workers : worker[w].step # "idle"}

\* Bounds: at most one slip, and then no invoice void, brought back or added to;
\* while requests overlap, none void or brought back; with an unfinished job, nothing
\* else happens; while the bin is in use, no overlap, void, e-mail, batch or slip;
\* one job goes there, and something does on the first day.
Bounds ==
    /\ Slips <= 1
    /\ Slips = 1 => Upset = {} /\ \A i \in DOMAIN invoices : invoices[i].added = {}
    /\ Cardinality(Busy) > 1 => Upset = {}
    /\ (\E j \in Jobs : ~job[j].done) => Upset = {} /\ Slips = 0 /\ ~InTheBin
    /\ today > 1 => InTheBin \/ Upset # {}
    /\ InTheBin \/ today > 1 =>
         /\ \A w \in Busy : ~worker[w].mails /\ worker[w].step \notin {"listed", "open"}
         /\ Cardinality(Busy) <= 1 /\ Slips = 0 /\ Cardinality(Upset) <= 1
         /\ \A i \in DOMAIN invoices : invoices[i].status \in {"DRAFT", "GONE"}
         /\ Cardinality({j \in Jobs : job[j].deleted > 0}) <= 1
=============================================================================
