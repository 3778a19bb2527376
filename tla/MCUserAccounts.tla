--------------------------- MODULE MCUserAccounts ---------------------------
(* One account that people ask for beside the default administrator's, which *)
(* may be renamed, so that its name is free again and its address is not.    *)
EXTENDS UserAccounts, TLC

CONSTANTS root, ann, bob, rootMail, annMail, annLocal, rootLocal

MCLocalEmail == root :> rootLocal @@ ann :> annLocal @@ bob :> rootLocal

Asked(name, email, role) == [username |-> name, email |-> email, role |-> role]

MCRequests ==
    [op : {"start"}, form : {NoRow}] \cup
    [op : {"register"}, form : {Asked(ann, annMail, Empty)}] \cup
    [op : {"create"}, form : {Asked(ann, annMail, r) : r \in {"admin", Empty}}] \cup
    [op : {"update"}, form : {Asked(Empty, Empty, r) : r \in Roles} \cup
                             {Asked(bob, Empty, Empty), Asked(Empty, annMail, Empty)}] \cup
    [op : {"sso"}, form : {Asked(ann, e, Empty) : e \in {annMail, Empty}}]

ProcSymmetry == Permutations(Procs)
=============================================================================
