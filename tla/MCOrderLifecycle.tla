------------------------- MODULE MCOrderLifecycle -------------------------
(***************************************************************************)
(* OrderLifecycle on small instances.                                      *)
(***************************************************************************)
EXTENDS OrderLifecycle, TLC

Symmetry ==
    Permutations(Orders) \cup Permutations(Users) \cup Permutations(Handlers)
        \cup Permutations(Jobs) \cup Permutations(Events)

=============================================================================
