---------------------------- MODULE MC_JobBoard ----------------------------
(* Instances of JobBoard for TLC. *)
EXTENDS JobBoard, TLC

CONSTANTS w1, w2, j1, j2

TwoWorkers == {w1, w2}
TwoJobs == {j1, j2}
Symmetry == Permutations(TwoWorkers) \cup Permutations(TwoJobs)

\* Bounds: how high the counter goes; one of these at a time: a stale save, a
\* crash, a recount, a new windshield, e-mails with links; and requests overlap
\* while there are no e-mails and nothing is in the trash.
Disturbances ==
    {h \in {"stale", "recounted", "replaced"} : history[h]}
        \cup (IF faults > 0 THEN {"crashed"} ELSE {})
        \cup (IF issued > 0 THEN {"emailed"} ELSE {})

Bounds ==
    /\ unit <= 2
    /\ Cardinality(Disturbances) <= 1
    /\ batch # {} => ~history["stale"]
    /\ history["overlapped"] =>
         /\ issued = 0
         /\ ~history["recounted"] /\ ~history["replaced"]
         /\ \A w \in Workers : task[w].at # "trash"
         /\ \A j \in Jobs : ~row[j].deleted

=============================================================================
