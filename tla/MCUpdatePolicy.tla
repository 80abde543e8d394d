---------------------------- MODULE MCUpdatePolicy ----------------------------
(***************************************************************************)
(* UpdatePolicy for TLC: tenants and refreshes are interchangeable.  The   *)
(* tenant served has no policy on disk yet, and the other one has the      *)
(* latest: what a refresh finds, writes or removes leads to the rest.      *)
(***************************************************************************)
EXTENDS UpdatePolicy, TLC

Symmetry == Permutations(Tenants) \cup Permutations(Refreshes)

MCInit == Init /\ cache = [t \in Tenants |-> IF t = tenant THEN NoPolicy ELSE MaxRevision]
MCSpec == MCInit /\ [][Next]_vars
=============================================================================
