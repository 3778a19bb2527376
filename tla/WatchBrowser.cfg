CONSTANTS
    Contexts = {a, b}
    Keys = {x, y}
    Sockets = {1, 2, 3}
    MaxFaults = 1
    Fleeting = {x}
    MaxChanges = 1
    None = None
SPECIFICATION FairSpec
INVARIANTS
    BTypeOK
    OneSocketOfSelectedContext
PROPERTIES
    
    Resubscribes
