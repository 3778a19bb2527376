--------------------------- MODULE MCKubeRequests ---------------------------
(* Two requests, a context that works and one whose client may fail to build;
   the two clusters name the listed kind differently.                        *)
EXTENDS KubeRequests, TLC

CONSTANTS a, b, k1, k2, p1, guess

MCOffers == a :> {k1} @@ b :> {k2, Unusable} @@ InCluster :> {Absent}

MCPluralIn == k1 :> p1 @@ k2 :> None

============================================================================
