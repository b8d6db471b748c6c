------------------------ MODULE MCAccountActivation ------------------------
(***************************************************************************)
(* AccountActivation on small instances.                                   *)
(***************************************************************************)
EXTENDS AccountActivation, TLC

Symmetry ==
    Permutations(Phones) \cup Permutations(Requests) \cup Permutations(Jobs)

=============================================================================
