SPECIFICATION Spec
CONSTANTS
    Sessions = {s1}
    Root = Root
    Exprs = {e1, e2}
    BadExprs = {b1}
    Scopes = {s1, Root}
    Recurrences = {TRUE,FALSE}
    NoJob = NoJob
    MaxCrons = 1
    MaxFires = 2
INVARIANTS
    TypeOK
    ActiveIsScheduled
    OverlapNeedsReactivation
PROPERTIES
    OverdueIsFired
