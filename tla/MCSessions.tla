----------------------------- MODULE MCSessions -----------------------------
(* Small instances of Sessions for TLC.                                    *)
EXTENDS Sessions, TLC

(* Values TLC may exchange.                                                *)
Interchangeable == Permutations(User) \cup Permutations(Token) \cup Permutations(Request)
=============================================================================
