-------------------------------- MODULE MCPages --------------------------------
(***************************************************************************)
(* The list pages over two contexts: three objects, two of them with the   *)
(* condition and two of them found by the text; pages of one row.          *)
(***************************************************************************)
EXTENDS Pages

CONSTANTS a, b, x, y, z

MCOrder == <<x, y, z>>
MCWorlds == {(a :> {x, y, z}) @@ (b :> {y})}
=============================================================================
