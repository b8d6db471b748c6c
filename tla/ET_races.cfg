SPECIFICATION Spec
CONSTANTS
    Slots = {m1, m2}
    MaxArrived = 1
    MaxScanned = 1
    MaxExpired = 1
    MaxCrashes = 1
    MaxErrors = 1
    PhoneGiven = TRUE
INVARIANTS
    ActiveHasDeadline
PROPERTIES
    ScannedStaysQuiet
    TimerDecides
CHECK_DEADLOCK FALSE
