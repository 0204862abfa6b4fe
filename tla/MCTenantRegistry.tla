-------------------------- MODULE MCTenantRegistry --------------------------
(* Small instances of TenantRegistry for TLC.                              *)
EXTENDS MCTenantApps, TenantRegistry
=============================================================================
