SPECIFICATION Spec
CONSTANTS
    a = a
    b = b
    c = c
    m1 = m1
    m2 = m2
    None = None
    Features = {a, b}
    Milestones = {m1}
    MilestoneOf <- SameMilestone
    Workers = {w1, w2}
    MaxAttempts = 1
    Planned <- OneFeature
    Extra = {b}
    Reports = {"success"}
    SkipScrutiny = TRUE
    SkipUserTesting = TRUE
    Loops = {1}
    ResumeAny = FALSE
    Faults = {"abort", "pause", "edit"}
    MaxEvents = 2
SYMMETRY WorkerSymmetry
INVARIANTS
    NoUnwatchedWorker
    OneInProgress
