----------------------------- MODULE MCAccounts -----------------------------
(* Small instances of Accounts for TLC.                                    *)
EXTENDS Accounts, TLC

CONSTANTS upper, lower

(* Two spellings of one address, beside addresses that are normal already. *)
Spellings == [e \in Email |-> IF e = upper THEN lower ELSE e]

(* Values TLC may exchange.                                                *)
Interchangeable == Permutations(UserId) \cup Permutations(Request)
=============================================================================
