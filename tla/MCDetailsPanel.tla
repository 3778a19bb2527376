----------------------------- MODULE MCDetailsPanel -----------------------------
(***************************************************************************)
(* The panel over two contexts and three resources: one refers to the two  *)
(* others, of which one refers back.                                       *)
(***************************************************************************)
EXTENDS DetailsPanel, TLC

CONSTANTS a, b, p, q, r

MCRelations == (p :> {q, r}) @@ (q :> {p}) @@ (r :> {})
=============================================================================
