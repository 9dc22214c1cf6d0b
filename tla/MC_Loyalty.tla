---------------------------- MODULE MC_Loyalty ----------------------------
(* Instances of Loyalty for TLC. *)
EXTENDS Loyalty, TLC

CONSTANTS w1, w2, c1, c2, c3, j1, j2, j3, r1, MaxRows

TwoWorkers == {w1, w2}
ThreeCustomers == {c1, c2, c3}
ThreeJobs == {j1, j2, j3}
OneRedemption == {r1}
TwoAndOne == (j1 :> c1) @@ (j2 :> c2) @@ (j3 :> c1)
AllOps == {"jobs", "refer", "redeem", "apply", "fulfil", "deny", "cancel", "adjust",
           "switch", "expire", "fix"}
Symmetry == Permutations(TwoWorkers)

Life(c) == {ledger[c][i].life : i \in DOMAIN ledger[c]}

Disturbances ==
    {h \in {"stale", "forced", "fixed", "off"} : history[h]}
        \cup (IF faults > 0 THEN {"crashed"} ELSE {})
        \cup (IF Life(c1) \cap {"due", "expired"} # {} THEN {"due"} ELSE {})

Referring == \E p \in Referrals : referral[p] # "none"

\* Bounds: one disturbance of each history, and either two companies that refer
\* each other and a job of each, or one with two jobs that two others refer, or one
\* company with two jobs, or a job and a redemption, and MaxRows rows in its ledger,
\* one of them by hand (by hand or a redemption, with a disturbance).
Bounds ==
    /\ Cardinality(Disturbances) <= 1
    /\ IF Referring
       THEN /\ redemption[r1].status = "none"
            /\ \A p \in Referrals \ {<<c1, c2>>, <<c2, c1>>, <<c3, c1>>} : referral[p] = "none"
            /\ \/ job[j3] = "open" /\ referral[<<c3, c1>>] = "none"
               \/ job[j2] = "open" /\ referral[<<c1, c2>>] = "none"
            /\ \A j \in ThreeJobs : job[j] # "denied"
            /\ \A w \in Workers : task[w].at \notin {"expire", "fix", "deny"}
            /\ \A c \in ThreeCustomers :
                  Life(c) \subseteq {"never"} /\ Entries(c, "adjust", Nothing) = {}
       ELSE /\ job[j2] = "open" /\ ledger[c2] = <<>> /\ ledger[c3] = <<>>
            /\ Len(ledger[c1]) <= MaxRows
            /\ Cardinality(Entries(c1, "adjust", Nothing)) <= 1
            /\ redemption[r1].status # "none" => job[j3] = "open" /\ redemption[r1].job \in {j1, Nothing}
            /\ Disturbances # {} =>
                  /\ "denied" \notin {job[j] : j \in ThreeJobs}
                  /\ redemption[r1].status = "none" \/ Entries(c1, "adjust", Nothing) = {}
=============================================================================
