\* Two requests at one instance and two agents, under fairness.
SPECIFICATION FairSpec
CONSTANTS
    None = None
    Vm = {v}
    Request = {r1, r2}
    Agents = 2
INVARIANTS
    RunsOnce
    StopsTheSameGuest
PROPERTIES
    AnswersTrue
    CallsEnd
