\* Two instances, a start, stop or delete and a request for a lab in flight,
\* and others acting on the instances.
SPECIFICATION Spec
CONSTANTS
    i1 = i1  i2 = i2
    None = None
    Instance = {i1, i2}
    MaxActions = 2
SYMMETRY Symmetry
INVARIANTS
    ActionsExclusive
    
PROPERTIES
    StartsWhenNoneRuns
    OneLabAsked
