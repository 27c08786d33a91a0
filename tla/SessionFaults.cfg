\* Two requests at one instance, under fairness; anything may fail, and the
\* backend restart.
SPECIFICATION FairSpec
CONSTANTS
    r1 = r1  r2 = r2
    i1 = i1  i2 = i2
    None = None
    Request = {r1, r2}
    Instance = {i1}
    Duration = 2
    Window = 1
    ZoneShift = 1
    MaxTime = 5
    Faults = {"db", "mail", "vms", "crash"}
INVARIANTS
    EveryRunHasADeadline
    EventsMatchRows
    OneReminder
PROPERTIES
    NeverStoppedEarly
    StoppedEventually
