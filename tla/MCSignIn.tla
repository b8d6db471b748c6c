------------------------------- MODULE MCSignIn -------------------------------
(* Two identities, one address that both may have; a lock after two failures. *)
EXTENDS SignIn, TLC

Symmetry == Permutations(Accounts) \cup Permutations(Identities)
            \cup Permutations(Attempts)
=============================================================================
