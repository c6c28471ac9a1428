\* More buffers than threads, so that a thread comes back for a second message
\* while another is still busy.  No symmetry: the run has a refinement and a
\* liveness property.
SPECIFICATION FairSpec
CONSTANTS
    Thread = {t1, t2, t3}
    Msg = {m1, m2, m3}
    NoMsg = NoMsg
    MaxEintr = 1
INVARIANTS
    WokenFindsMessage
    SingleOwner
    AlertIsTruthful
PROPERTIES
    HandoffSpec
    EveryMessageHandled
\* An idle pool waits for ever, and destory_all may never return.
CHECK_DEADLOCK FALSE
