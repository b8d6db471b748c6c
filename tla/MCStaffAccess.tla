---------------------------- MODULE MCStaffAccess ----------------------------
(* Three sets of roles: of somebody who delivers, of a chef who also serves,  *)
(* of the superadmin.  One role to assign: a mapping is OWNER or CHEF.        *)
EXTENDS StaffAccess, TLC

MCRoleClaims == {{"user", "delivery_man"}, {"user", "staff", "chef"}, {"superadmin"}}
MCStaffRoles == {"CHEF"}
Symmetry == Permutations(Users) \cup Permutations(Restaurants)
            \cup Permutations(Calls)
=============================================================================
