--------------------------- MODULE MCManagedCache ---------------------------
(* One owner list and one or two kinds; context b may fail to yield a client. *)
EXTENDS ManagedCache, TLC

CONSTANTS a, b, k1, k2

MCOffers == a :> {k1} @@ b :> {k2, Unusable} @@ InCluster :> {k1}

OneOffer == a :> {k1} @@ InCluster :> {Absent}

RequestSymmetry == Permutations(Requests)
============================================================================
