---------------------------- MODULE MCRunControl ----------------------------
(***************************************************************************)
(* Finite instances of RunControl for TLC: the roles of the stage ids and  *)
(* the route plans each instance may propose.                              *)
(***************************************************************************)
EXTENDS RunControl

(* A route over all stages with the given dependencies.                    *)
FullRoute(g) == [status |-> [s \in Stages |-> "pending"], deps |-> g, missing |-> FALSE]

(* Every stage depends on the one before it.                               *)
Chain == [s \in Stages |-> {d \in Stages : d + 1 = s}]

(* The first stage feeds two independent ones.                             *)
Fork == [s \in Stages |-> IF s = 1 THEN {} ELSE {1}]

RoleReviewed == <<"business", "insight", "review">>
RoleReport   == <<"metrics", "review", "report">>
RoleQuery    == <<"sql", "review">>

OneChain == {FullRoute(Chain)}
ChainOrFork == {FullRoute(Chain), FullRoute(Fork)}

(* The chain; the chain, with an input that is required but not provided.   *)
ChainOrLacking == {FullRoute(Chain), [FullRoute(Chain) EXCEPT !.missing = TRUE]}

(* The whole chain; without its first stage; without its last, the Report. *)
ChainOrPart ==
    {FullRoute(Chain),
     [status |-> [s \in Stages |-> IF s = 1 THEN "skipped" ELSE "pending"],
      deps |-> [s \in Stages |-> IF s = 3 THEN {2} ELSE {}], missing |-> FALSE],
     [status |-> [s \in Stages |-> IF s = 3 THEN "absent" ELSE "pending"],
      deps |-> [s \in Stages |-> IF s = 2 THEN {1} ELSE {}], missing |-> FALSE]}
=============================================================================
