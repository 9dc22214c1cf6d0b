----------------------- MODULE MC_TenantSubscription -----------------------
(* Instances of TenantSubscription for TLC. *)
EXTENDS TenantSubscription, TLC

CONSTANTS w1, w2, cron

OneHandler == {w1}
OneSweeper == {cron}
Symmetry == Permutations(Handlers)

=============================================================================
