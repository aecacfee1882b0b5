SPECIFICATION Spec
CONSTANTS
    s1 = s1
    s2 = s2
    w1 = w1
    w2 = w2
    w3 = w3
    alice = alice
    carol = carol
    bob = bob
    None = None
    Submissions = {s1}
    Reasons = {"submission", "regrade"}
    Workers = {w1, w2}
    Instructors = {}
    Editors = {}
    PhasesOf <- AnyPhase
    LanesOf <- AnyLane
    NeedsTranscription = {}
    MaxAttempts = 2
    MaxClock = 8
    MaxStops = 0
    MaxPresses = 0
SYMMETRY Alike
INVARIANTS OneRunPerJob AiPhasePromised NoForkedHistory LatestIsCurrent NoConflict
CHECK_DEADLOCK FALSE
