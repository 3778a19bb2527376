CONSTANTS
    a = a
    b = b
    Contexts = {a, b}
    Keys = {k, j}
    CoreKeys = {j}
    Watchers = {w}
    Routines = {1, 2}
    MaxRoutines <- MCRoutines
    MaxRev = 1
    Default = Default
    None = None
SPECIFICATION FairSpec
CHECK_DEADLOCK FALSE
INVARIANTS
    WTypeOK
    
    OneInformerUnlessOverlapped
PROPERTIES
    NothingOutlivesSocket
    EndsWithCurrentState
