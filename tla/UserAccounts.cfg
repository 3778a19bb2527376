CONSTANTS
    root = root
    ann = ann
    bob = bob
    rootMail = rootMail
    annMail = annMail
    annLocal = annLocal
    rootLocal = rootLocal
    Empty = Empty
    Procs = {p1, p2}
    Usernames = {root, ann, bob}
    Emails = {rootMail, annMail, annLocal, rootLocal}
    AdminName = root
    AdminEmail = rootMail
    LocalEmail <- MCLocalEmail
    Requests <- MCRequests
SPECIFICATION ASpec
SYMMETRY ProcSymmetry
INVARIANTS
    UTypeOK
    AdminUnlessDemoted
PROPERTIES
    RoleChangeExplained
    
