----------------------------- MODULE MCToolCall -----------------------------
(* ToolCall for the model checker: who calls what, under which id.         *)
EXTENDS ToolCall

CONSTANTS a, b, c, d, k1, k2, k3, cached, missing

\* a and b may use one id; all but d call the same cacheable tool.
Ids == [r \in Requests |-> IF r = c THEN k2 ELSE IF r = d THEN k3 ELSE k1]
Calls == [r \in Requests |-> IF r = d THEN missing ELSE cached]

=============================================================================
