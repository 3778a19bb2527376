------------------------- MODULE MCKubeConfigStore -------------------------
(* One context for the runs with two goroutines; with one, three contexts, two
   of which share a cluster.                                                 *)
EXTENDS KubeConfigStore, TLC

CONSTANTS a, b, c, k1, k2

OneContext == a :> k1
ThreeContexts == a :> k1 @@ b :> k1 @@ c :> k2
============================================================================
