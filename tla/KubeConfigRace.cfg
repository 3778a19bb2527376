CONSTANTS
    a = a
    b = b
    c = c
    k1 = k1
    k2 = k2
    Contexts = {a}
    Defs = {k1}
    RefersTo <- OneContext
    Procs = {p1, p2}
    Empty = Empty
    None = None
SPECIFICATION FairSpec
INVARIANTS
    TypeOK
    
PROPERTY
    EveryRequestReturns
