---------------------------- MODULE MC_ShopSchedule ----------------------------
(* TLC instance of ShopSchedule. *)
EXTENDS ShopSchedule, TLC

CONSTANTS w1, w2

Concurrency == Permutations(Workers)

Closed == {j \in Existing : row[j].status \in {"COMPLETED", "DENIED"}}
Booked == {j \in Existing : row[j].start # NoTime}

(* Bounds: a fourth request only in a shop that rotates, where no job is closed    *)
(* and no process has died; more than two jobs only while the strategy alone gives *)
(* them out and none is booked or closed; one closed job; histories end where a    *)
(* break was moved by itself.                                                      *)
Bounds ==
  /\ requests + faults > 3 => shop.strategy = "round_robin" /\ faults = 0 /\ Closed = {}
  /\ Cardinality(Existing) > 2 => ~uneven /\ Booked = {} /\ Closed = {}
  /\ Cardinality(Closed) <= 1
  /\ apart = {}
=============================================================================
