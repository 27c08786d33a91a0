CONSTANTS
    None = None
    Mail = {p, s}
    Professor = {p}
    Registered = {p, s}
    Creator = p
    Manager = p
    Template = {t}
    MaxCalls = 1
SPECIFICATION FairSpec
INVARIANTS NoOrphans ListedAccounted JumpsFromDeleted
PROPERTIES SeenOwnersStay SheetEnds
CHECK_DEADLOCK FALSE
