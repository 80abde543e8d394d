---------------------------- MODULE MCTenantRegistry ----------------------------
(***************************************************************************)
(* A small instance of TenantRegistry: two builds, the second of which     *)
(* replaces the primary backend and makes the old one its secondary.       *)
(***************************************************************************)
EXTENDS TenantRegistry

BuildHosts == 1..3
BuildCatalogs == {<<1, 2>>, <<3, 1>>}
=============================================================================
