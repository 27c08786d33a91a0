\* Two requests, two identifiers and two agents that fail or fall silent.
SPECIFICATION Spec
CONSTANTS
    None = None
    Request = {r1, r2}
    Vm = {v1, v2}
    Agents = 2
SYMMETRY Symmetry
INVARIANTS
    InstancesKeepTheirImage
    TemplatesHaveTheirImage
    CopiesRest
PROPERTY NothingLeft
