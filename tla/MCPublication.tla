--------------------------- MODULE MCPublication ----------------------------
(***************************************************************************)
(* Finite instances of Publication for TLC: three builders, two of them of *)
(* one kind.                                                               *)
(***************************************************************************)
EXTENDS Publication

CONSTANT c1

KindOf == [b \in Builders |-> IF b = c1 THEN "charts" ELSE "lineage"]
=============================================================================
