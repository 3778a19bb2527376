CONSTANTS
    a = a
    b = b
    c = c
    k1 = k1
    k2 = k2
    Contexts = {a, b, c}
    Defs = {k1, k2}
    RefersTo <- ThreeContexts
    Procs = {p1}
    Empty = Empty
    None = None
SPECIFICATION Spec

    
PROPERTY
    EditsKept
