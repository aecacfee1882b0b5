\* Two requests at once beside the sweep; two crashes, two broken connections.
SPECIFICATION FairSpec
CONSTANTS
    a = a
    b = b
    r1 = r1
    r2 = r2
    r3 = r3
    None = None
    Sweep = Sweep
    Texts = {a, b}
    Calls = {r1, r2}
    MaxVersion = 2
    MaxEdits = 1
    MaxSent = 2
    MaxCrashes = 2
    MaxLost = 2
INVARIANTS SubmissionsSound MarksTell
PROPERTIES SavedIsHandedIn
CHECK_DEADLOCK FALSE
