\* The sweep, a bulk finalization, a grader and the learners.
SPECIFICATION FairSpec
CONSTANTS
    a = a
    b = b
    sweep = sweep
    bulk = bulk
    g1 = g1
    Submissions = {a, b}
    Held = {b}
    Graceless = {b}
    Sweep = sweep
    Instructors = {bulk}
    Graders = {g1}
    Outcomes <- Kinds
    MaxRuns <- TwoAndOne
INVARIANTS
    RecordsAgree
    ClosedAsAllowed
PROPERTIES
    FinalForGood
    DueGradesClose
CHECK_DEADLOCK FALSE
