SPECIFICATION Spec
CONSTANTS
    Sessions = {s1}
    Root = Root
    Exprs = {e1}
    BadExprs = {}
    Scopes = {s1}
    Recurrences = {TRUE}
    NoJob = NoJob
    MaxCrons = 2
    MaxFires = 1
INVARIANTS
    NoOrphanJob
    RunningHasFire
PROPERTIES
    ScheduleSurvives
