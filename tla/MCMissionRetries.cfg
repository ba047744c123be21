SPECIFICATION Spec
CONSTANTS
    a = a
    b = b
    c = c
    m1 = m1
    m2 = m2
    None = None
    Features = {a}
    Milestones = {m1}
    MilestoneOf <- SameMilestone
    Workers = {w1, w2}
    MaxAttempts = 1
    Planned <- OneFeature
    Extra = {}
    Reports = {"success", "failure"}
    SkipScrutiny = TRUE
    SkipUserTesting = TRUE
    Loops = {1}
    ResumeAny = FALSE
    Faults = {"exit", "usage402"}
    MaxEvents = 1
INVARIANTS
    TypeOK
    AttemptsWithinBudget
PROPERTIES
    LimitPauses
    RunEnds
