--------------------------- MODULE MCTenantApps ---------------------------
(* Small instances of TenantApps for TLC.                                  *)
EXTENDS TenantApps, TLC

(* One plan of one app: the smallest limit that a race can overshoot.      *)
OneAppPerUser == [p \in Plan |-> 1]

(* Values TLC may exchange.                                                *)
Interchangeable ==
    Permutations(AppId) \cup Permutations(Subdomain) \cup Permutations(Request)
=============================================================================
