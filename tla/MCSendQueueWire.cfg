SPECIFICATION Spec
CONSTANTS
    m1 = m1
    m2 = m2
    m3 = m3
    c1 = c1
    c2 = c2
    Conn = {c1}
    Msg = {m1, m2}
    ConnOf <- MCConnOf
    PkgSize = 2
    None = None
    SemValueMax = 4
    MaxPartial = 1
    MaxClose = 0
INVARIANT WireIsPackages
\* Nothing obliges a peer to send another request.
CHECK_DEADLOCK FALSE
