\* One address, two tabs and an administrator; two UUIDs; calls may fail.
SPECIFICATION Spec
CONSTANTS
    m1 = m1
    g1 = g1  g2 = g2
    None = None
    Mail = {m1}
    Page = {g1, g2}
    MaxMade = 2
    MaxBusy = 2
    Faults = {"lost"}
SYMMETRY Symmetry
INVARIANTS
    SuccessTrue
    VerifiedOnce
    ResetLinksDie
    UsersKept
    InstancesOfSelected
CHECK_DEADLOCK FALSE
