SPECIFICATION FairSpec
CONSTANTS
    co1 = co1
    co2 = co2
    Co = {co1, co2}
    Main = co1
    Fd = {f1, f2}
    Delay = {0, 1, 3}
    WaitTimeout = 2
    None = None
INVARIANTS
    OneHome
    EpollAssertsHold
    BoundedLateness
PROPERTY EveryoneResumed
