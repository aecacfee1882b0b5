SPECIFICATION Spec
CONSTANTS
    s1 = s1
    s2 = s2
    w1 = w1
    w2 = w2
    w3 = w3
    alice = alice
    carol = carol
    bob = bob
    None = None
    Submissions = {s1}
    Reasons = {"submission"}
    Workers = {w1, w2}
    Instructors = {alice, carol}
    Editors = {bob}
    PhasesOf <- AnyPhase
    LanesOf <- AnyLane
    NeedsTranscription = {}
    MaxAttempts = 1
    MaxClock = 8
    MaxStops = 1
    MaxPresses = 1
SYMMETRY AlikeToo
INVARIANTS TypeOK RowsReadable AttemptsWithinLimit
PROPERTIES DoneIsFinal LeaseRespected ImplementsService
CHECK_DEADLOCK FALSE
