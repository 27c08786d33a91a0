\* One request at a time, everything may fail and the service may stop anywhere.
SPECIFICATION Spec
CONSTANTS
    r1 = r1
    v1 = v1  v2 = v2  v3 = v3
    s1 = s1  s2 = s2
    src = src
    None = None
    Request = {r1}
    Vm = {v1, v2, v3}
    Subject = {s1, s2}
    Source = {src}
    FIRST_VLAN = 100
    MAX_VLANS = 2
    MAX_VMS_PER_VLAN = 2
    Faults = {"db", "agent", "router", "crash"}
INVARIANTS
    ServedReachable
    NothingLeaked
PROPERTY RowRemovedAfterAgents
SYMMETRY Symmetry
\* Leftovers of failures use up the instance identifiers of this instance.
CHECK_DEADLOCK FALSE
