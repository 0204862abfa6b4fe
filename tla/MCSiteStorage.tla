---------------------------- MODULE MCSiteStorage ----------------------------
(* Small instances of SiteStorage for TLC.                                 *)
EXTENDS SiteLedger, TLC

CONSTANTS p1, p2

(* An archive of both files, and one with two entries that sanitising     *)
(* gives one name.                                                         *)
TwoFiles == {[path |-> p1, size |-> 1], [path |-> p2, size |-> 1]}
OneNameTwice == {[path |-> p1, size |-> 1], [path |-> p1, size |-> 2]}
Archives == {TwoFiles, OneNameTwice}

(* Values TLC may exchange.                                                *)
Interchangeable == Permutations(App) \cup Permutations(Request)
=============================================================================
