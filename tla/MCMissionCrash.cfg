SPECIFICATION Spec
CONSTANTS
    a = a
    b = b
    c = c
    m1 = m1
    m2 = m2
    None = None
    Features = {a}
    Milestones = {m1}
    MilestoneOf <- SameMilestone
    Workers = {w1, w2}
    MaxAttempts = 1
    Planned <- OneFeature
    Extra = {}
    Reports = {"items"}
    SkipScrutiny = TRUE
    SkipUserTesting = TRUE
    Loops = {1}
    ResumeAny = FALSE
    Faults = {"crash", "kill", "rpc"}
    MaxEvents = 1
SYMMETRY WorkerSymmetry
INVARIANTS
    OneActiveWorker
    RunningIsRun
