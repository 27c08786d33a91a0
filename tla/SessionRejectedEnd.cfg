\* The time read from the row is not the event's, though nobody renewed.
SPECIFICATION Spec
CONSTANTS
    r1 = r1  r2 = r2
    i1 = i1  i2 = i2
    None = None
    Request = {r1}
    Instance = {i1}
    Duration = 2
    Window = 1
    ZoneShift = 1
    MaxTime = 5
    Faults = {}
PROPERTY EndChangedByRenewalOnly
