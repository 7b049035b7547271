--------------------------- MODULE MCResultStream ---------------------------
(* Four values, two of them with the same hash, and every result of up to  *)
(* four rows, of which three are approved.                                 *)
EXTENDS ResultStream

MCHash == [v \in Values |-> CASE v = "b" -> 0 [] v = "c" -> 5 [] OTHER -> 3]
MCCanonicalBytes == [v \in Values |-> IF v = "b" THEN 2 ELSE 1]
MCRowBytes == [row \in Values \cup {Null} |-> IF row = "c" THEN 2 ELSE 1]
MCTables == UNION {[1..n -> Values \cup {Null}] : n \in 0..MaxRows+1}
=============================================================================
