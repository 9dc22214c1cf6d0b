----------------------------- MODULE MC_Quotes -----------------------------
(* Instance of Quotes for TLC: one quote and what it is revised to. *)
EXTENDS Quotes, TLC

CONSTANTS w1, w2

Symmetry == Permutations(Workers)

Written == {q \in Quotes : quote[q].status # "NONE"}

\* Bounds: later quotes are revisions; one status overwritten unseen, and then two
\* quotes at most; requests overlap while there are two quotes at most.
Bounds ==
    /\ \A q \in Written : q = 1 \/ quote[q].of # 0 \/ stale # {}
    /\ \A q \in Quotes : jobs[q] <= 2
    /\ Cardinality(stale) <= 1
    /\ stale # {} => Cardinality(Written) <= 2
    /\ Cardinality(Written) > 2 => \E w \in Workers : request[w] = Idle
=============================================================================
