\* A create loses its identifier to another: addVmToDb is refused.
SPECIFICATION Spec
CONSTANTS
    r1 = r1  r2 = r2
    v1 = v1  v2 = v2
    s1 = s1
    src = src
    None = None
    Request = {r1, r2}
    Vm = {v1, v2}
    Subject = {s1}
    Source = {src}
    FIRST_VLAN = 100
    MAX_VLANS = 1
    MAX_VMS_PER_VLAN = 2
    Faults = {}
INVARIANT AddVmCheckedBefore
