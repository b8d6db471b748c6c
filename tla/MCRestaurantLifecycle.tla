----------------------- MODULE MCRestaurantLifecycle -----------------------
(***************************************************************************)
(* RestaurantLifecycle on small instances.                                 *)
(***************************************************************************)
EXTENDS RestaurantLifecycle, TLC

Symmetry == Permutations(Menus) \cup Permutations(Requests)

=============================================================================
