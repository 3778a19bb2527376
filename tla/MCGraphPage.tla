----------------------------- MODULE MCGraphPage -----------------------------
(* A small cluster behind the page.                          *)
EXTENDS GraphPage

Ref(kind, ns, name) == [kind |-> kind, ns |-> ns, name |-> name]
In(served) == [served |-> served, referenceable |-> TRUE]
P == Id("A", None, "p")
Q == Id("B", "n", "q")
R == Id("C", "n", "r")
M == Id("Bucket", "n", "m")
C == Id("Network", None, "c")

MCXRDs == <<[kind |-> "A", versions |-> <<In(FALSE), In(TRUE)>>],
            [kind |-> "B", versions |-> <<In(TRUE)>>],
            [kind |-> "C", versions |-> <<In(TRUE)>>],
            [kind |-> "D", versions |-> <<In(FALSE)>>]>>
MCCompositions == {[name |-> "ca", xr |-> "A", steps |-> {"f", "gone"}], [name |-> "cc", xr |-> "C", steps |-> {"f"}]}
MCXRs == {[id |-> P, composition |-> "ca", refs |-> <<Ref("B", "n", "q"), Ref("Bucket", "n", "m"), Ref("Pod", None, "w")>>],
          [id |-> Q, composition |-> "gone", refs |-> <<Ref("C", None, "r"), Ref("Network", None, "c"), Ref("Pod", None, "w")>>],
          [id |-> R, composition |-> "cc", refs |-> <<Ref("Bucket", None, "m"), Ref("A", None, "p"), Ref(None, None, "w")>>]}
MCManaged == {M, C, Id("Bucket", "n", "m2")}
MCPlace == FoldSet(LAMBDA x, f : f @@ (x :> Cardinality(DOMAIN f)), <<>>, Ids)
MCVolatile == {R, M}
MCFocusable == {P, R, M, CompositionId("ca")}
==============================================================================
