------------------------ MODULE MCEnforcementTimer ------------------------
(***************************************************************************)
(* EnforcementTimer on small instances.                                    *)
(***************************************************************************)
EXTENDS EnforcementTimer

=============================================================================
