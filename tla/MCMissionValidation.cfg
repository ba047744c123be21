SPECIFICATION Spec
CONSTANTS
    a = a
    b = b
    c = c
    m1 = m1
    m2 = m2
    None = None
    Features = {a}
    Milestones = {m1}
    MilestoneOf <- SameMilestone
    Workers = {w1, w2, w3, w4}
    MaxAttempts = 2
    Planned <- OneFeature
    Extra = {}
    Reports = {"success", "return"}
    SkipScrutiny = FALSE
    SkipUserTesting = FALSE
    Loops = {1}
    ResumeAny = FALSE
    Faults = {"exit"}
    MaxEvents = 1
SYMMETRY WorkerSymmetry
INVARIANTS
    ValidatorsOnce
PROPERTIES
    ScrutinyFirst
    CompletedIsDone
    CompletedStays
    AutoPauseStands
