\* The deployed relay, one process, which may die and whose subscriber may raise.
SPECIFICATION FairSpec
CONSTANTS
    ta = ta
    tb = tb
    r1 = r1
    r2 = r2
    None = None
    Tasks = {ta, tb}
    Relays = {r1}
    Submission <- ThreeSubmissions
    TaskOf <- TwoTasks
    Batch = 2
    MaxRuns = 3
    MaxFailures = 1
    MaxCrashes = 1
INVARIANTS
    MasteryFollows
    NothingLost
PROPERTIES
    SubmissionsAdvance
    EveryEventPublished
CHECK_DEADLOCK FALSE
