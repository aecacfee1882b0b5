\* One session, two requests at once, one broken connection, one fault.
SPECIFICATION FairSpec
CONSTANTS
    u1 = u1
    u2 = u2
    k1 = k1
    k2 = k2
    k3 = k3
    r1 = r1
    r2 = r2
    t1 = t1
    t2 = t2
    None = None
    Whole = Whole
    Uploads = {u1}
    Keys = {k1, k2}
    Calls = {r1, r2}
    Tabs = {t1, t2}
    Size = 2
    Chunk = 1
    Limit = 2
    Cap = 1
    MaxLost = 1
    MaxFaults = 1
INVARIANTS VideoKept OneOfAnUpload NoOrphans VideoIsTheFile
PROPERTIES PurgeIsMarked
CHECK_DEADLOCK FALSE
