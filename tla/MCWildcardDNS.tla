---------------------------- MODULE MCWildcardDNS ----------------------------
(* Small instances of WildcardDNS for TLC.                                 *)
EXTENDS WildcardDNS

(* Values TLC may exchange.                                                *)
Interchangeable == Permutations(Caller) \cup Permutations(RecordId)
=============================================================================
