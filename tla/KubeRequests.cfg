CONSTANTS
    a = a
    b = b
    k1 = k1
    k2 = k2
    p1 = p1
    guess = guess
    Contexts = {a, b}
    Clusters = {k1, k2}
    Requests = {r1, r2}
    Plurals = {p1, guess}
    Guess = guess
    PluralIn <- MCPluralIn
    InCluster = InCluster
    Empty = Empty
    Absent = Absent
    Unusable = Unusable
    None = None
    Error = Error
    Offers <- MCOffers
SPECIFICATION FairRSpec
INVARIANTS
    RTypeOK
    
    
    CheckKeepsContext
    OnlyDefinedPluralsCached
PROPERTIES
    FailedNeverRebuilt
    StoreSpec
    CheckReturns
