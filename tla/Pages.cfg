SPECIFICATION Spec
CONSTANTS
    a = a  b = b  x = x  y = y  z = z
    None = None  Failed = Failed
    Contexts = {a, b}
    Order <- MCOrder
    Conditioned = {x, y}
    Hits = {x, z}
    Worlds <- MCWorlds
    PageSize = 1
    Calls = {1, 2}
    MaxSteps = 3
    MaxPage = 3
CHECK_DEADLOCK FALSE
INVARIANTS PTypeOK ShowsLatestLoad EmptyOnlyIfNothingFound
