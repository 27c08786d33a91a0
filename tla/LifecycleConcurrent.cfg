\* Two requests race over two subjects and one VLAN of two identifiers, under
\* fairness.
SPECIFICATION FairSpec
CONSTANTS
    r1 = r1  r2 = r2
    v1 = v1  v2 = v2
    s1 = s1  s2 = s2
    src = src
    None = None
    Request = {r1, r2}
    Vm = {v1, v2}
    Subject = {s1, s2}
    Source = {src}
    FIRST_VLAN = 100
    MAX_VLANS = 1
    MAX_VMS_PER_VLAN = 2
    Faults = {"forgotten"}
INVARIANTS
    AddressesUnique
    AddressesInRange
    DeletersExclusive
PROPERTIES
    ConfiguredOnlyIfApplied
    ImplementsPool
    RequestsAnswered
\* Peers left behind use up the instance identifiers of this instance.
CHECK_DEADLOCK FALSE
