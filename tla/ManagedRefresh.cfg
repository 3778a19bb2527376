CONSTANTS
    a = a
    b = b
    k1 = k1
    k2 = k2
    Contexts = {a}
    Clusters = {k1}
    Requests = {r1, r2}
    Owners = {provider}
    Kinds = {bucket, queue}
    MaxConcurrency = 1
    MaxWorld = 1
    InCluster = InCluster
    Empty = Empty
    Absent = Absent
    Unusable = Unusable
    None = None
    Offers <- OneOffer
SPECIFICATION MSpec
SYMMETRY RequestSymmetry
PROPERTY
    RefreshGoesForward
