SPECIFICATION Spec
CONSTANTS
    a = a  b = b  p = p  q = q  r = r
    None = None
    Contexts = {a, b}
    Resources = {p, q, r}
    Relations <- MCRelations
    Loads = {1, 2}
    MaxSteps = 4
    MaxTrail = 2
CHECK_DEADLOCK FALSE
INVARIANTS  PanelShowsSelected
PROPERTY WatchesShown
