------------------------- MODULE MCRefreshSession -------------------------
(***************************************************************************)
(* RefreshSession on small instances.                                      *)
(***************************************************************************)
EXTENDS RefreshSession, TLC

Symmetry == Permutations(Tokens) \cup Permutations(Requests)

=============================================================================
