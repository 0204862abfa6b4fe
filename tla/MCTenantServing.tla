---------------------------- MODULE MCTenantServing ----------------------------
(* Small instances of TenantServing for TLC.                               *)
EXTENDS TenantServing, TLC

CONSTANTS n1, n2

(* Values TLC may exchange, where no temporal property is checked.         *)
Interchangeable ==
    Permutations(AppId) \cup Permutations(Subdomain) \cup Permutations(Request)

OneAppPerUser == [p \in Plan |-> 1]

Plain == [index |-> n1, spa |-> FALSE]
SinglePage == [index |-> n2, spa |-> TRUE]
SinglePages == {SinglePage}
Configs == {Plain, SinglePage}
=============================================================================
