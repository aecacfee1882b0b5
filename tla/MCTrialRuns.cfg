SPECIFICATION FairSpec
CONSTANTS
    ann = ann
    ben = ben
    ta = ta
    tb = tb
    tc = tc
    r1 = r1
    r2 = r2
    None = None
    Learners = {ann, ben}
    Tabs = {ta, tb, tc}
    OwnerOf <- TabsOfTwo
    Runners = {r1, r2}
    MaxPosts = 2
    MaxCrashes = 1
INVARIANTS OneInFlight ExecutedOnce
PROPERTIES ImplementsRuns EveryRunEnds
CHECK_DEADLOCK FALSE
