\* One session; one connection that breaks while the server writes.
SPECIFICATION Spec
CONSTANTS
    u1 = u1
    u2 = u2
    k1 = k1
    k2 = k2
    k3 = k3
    r1 = r1
    r2 = r2
    t1 = t1
    t2 = t2
    None = None
    Whole = Whole
    Uploads = {u1}
    Keys = {k1}
    Calls = {r1, r2}
    Tabs = {t1}
    Size = 2
    Chunk = 2
    Limit = 2
    Cap = 2
    MaxLost = 1
    MaxFaults = 0
INVARIANT NoOverlap
CHECK_DEADLOCK FALSE
