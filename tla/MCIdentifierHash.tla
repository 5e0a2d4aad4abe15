------------------------- MODULE MCIdentifierHash -------------------------
(***************************************************************************)
(* Three declarations (five slots), four identifiers of which two collide  *)
(* in the last slot and two in the slot before it, so that chains run into *)
(* one another and wrap around.                                            *)
(***************************************************************************)
EXTENDS IdentifierHash, TLC

CONSTANTS a, b, c, d

MCKey == {a, b, c, d}
MCHash == (a :> 4) @@ (b :> 9) @@ (c :> 3) @@ (d :> 8)
===========================================================================
