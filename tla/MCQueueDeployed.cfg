SPECIFICATION FairSpec
CONSTANTS
    s1 = s1
    s2 = s2
    w1 = w1
    w2 = w2
    w3 = w3
    alice = alice
    carol = carol
    bob = bob
    None = None
    Submissions = {s2}
    Reasons = {"submission"}
    Workers = {w1, w2, w3}
    Instructors = {alice}
    Editors = {bob}
    PhasesOf <- DeployedPhases
    LanesOf <- DeployedLanes
    NeedsTranscription = {s2}
    MaxAttempts = 2
    MaxClock = 8
    MaxStops = 1
    MaxPresses = 2
PROPERTIES EveryJobSettles
CHECK_DEADLOCK FALSE
