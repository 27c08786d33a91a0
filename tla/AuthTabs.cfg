\* Two tabs, a student and an administrator; two calls overlap and may fail.
SPECIFICATION Spec
CONSTANTS
    t1 = t1  t2 = t2
    a = a  b = b
    None = None
    Tab = {t1, t2}
    User = {a, b}
    Admin = {b}
    MaxCalls = 2
    Faults = {"lost"}
SYMMETRY Symmetry
INVARIANTS
    IdentityAgrees
    OnlyAdmittedShown
    WantedPageShown
    LoadingAwaits
