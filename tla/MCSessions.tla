------------------------------ MODULE MCSessions ------------------------------
(* Sessions for the model checker: who comes, and from where. *)
EXTENDS Sessions, FiniteSetsExt, TLC

CONSTANTS c1, c2, c3, c4, c5, p1, p2, home, away

From == [s \in Streams |-> IF s = c5 THEN away ELSE home]

AtHome == {c1, c2, c3, c4}

\* A burst of streams, of two addresses; or two streams and two posts.
Comings ==
    {[who |-> Streams, permits |-> 3]} \cup
    {[who |-> pair \cup Posts, permits |-> 4] : pair \in kSubset(2, AtHome)}

Symmetry == Permutations(AtHome) \cup Permutations(Posts)

=============================================================================
