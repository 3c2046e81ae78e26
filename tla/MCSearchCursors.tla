--------------------------- MODULE MCSearchCursors ---------------------------
(* Paged searches over three rems of two types; one search reports a rem   *)
(* twice and one reports a single rem.                                     *)
EXTENDS SearchCursors, TLC

MCPriority == [r \in Rems |-> IF r = 3 THEN 0 ELSE 1]

MCFound == {<<2, 3, 2, 1>>, <<1>>}

Symmetry == Permutations(Calls) \cup Permutations(Ids)
=============================================================================
