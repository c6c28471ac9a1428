SPECIFICATION Spec
CONSTANTS
    Conn = {c1, c2}
    Job = {j1}
    None = None
    Wait = 1
    RecyWait = 1
    Packages <- MCPackages
    HeadGarbage = {0, 3}
    MaxTime = 6
    MaxAccept = 2
SYMMETRY Symmetry
INVARIANTS
    SilentIsRecycled
    
 
\* The clock stops at MaxTime.
CHECK_DEADLOCK FALSE
