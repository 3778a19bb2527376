CONSTANTS
    None = None
    XRDs <- MCXRDs
    Compositions <- MCCompositions
    Functions = {"f"}
    XRs <- MCXRs
    Managed <- MCManaged
    Volatile <- MCVolatile
    Slots = 2
    MaxItems = 2
    MaxFaults = 1
    MaxChanges = 1
    Place <- MCPlace
    Types = {"XRD", "Composition", "XR", "Composed", "Function"}
    Namespaces = {"n"}
    Focusable <- MCFocusable
    LimitSteps = {1, 2, 9}
    MaxPicks = 3
SPECIFICATION FairPSpec
CHECK_DEADLOCK FALSE
INVARIANTS
    GTypeOK
    
    
    ViewKeepsWhatMatters
    ArrowsPointRight
PROPERTIES
    GraphReturns
