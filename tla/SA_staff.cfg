SPECIFICATION Spec
CONSTANTS
    Users = {u1, u2}
    Restaurants = {ra, rb}
    Calls = {c1, c2}
    Services = {s1}
    RoleClaims <- MCRoleClaims
    StaffRoles <- MCStaffRoles
SYMMETRY Symmetry
INVARIANTS CopyIsAssigned ServedByStaff OwnerUnlessCutShort UnpaidBlocksTheNext AssignmentIsKnownOrUnderway
CHECK_DEADLOCK FALSE
