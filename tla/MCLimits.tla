------------------------------ MODULE MCLimits ------------------------------
(* Limits for the model checker: what is called, and how a server is set up. *)
EXTENDS Limits, TLC

CONSTANTS w1, w2, sigX, sigY, sigZ, toolP, toolQ

Of == [s \in Signatures |-> IF s = sigZ THEN toolQ ELSE toolP]
Texts == {<<1, 2>>}

\* Servers with nothing but a policy, enforcing or not; with both rate limits;
\* with the guardrail's alone; with a loop breaker that bites; with a budget.
Off == [called |-> {sigX}, calls |-> 3,
        engine |-> FALSE, enforcing |-> TRUE, policyRate |-> 0,
        guardrail |-> FALSE, rate |-> 9, threshold |-> 9,
        budgeted |-> FALSE, budget |-> 0]

Policed == [Off EXCEPT !.engine = TRUE, !.policyRate = 2]
Guarded == [Off EXCEPT !.guardrail = TRUE]

Servers ==
    { [Policed EXCEPT !.called = {sigX, sigZ}, !.calls = 4],
      [Policed EXCEPT !.enforcing = FALSE],
      [Policed EXCEPT !.guardrail = TRUE, !.rate = 1],
      [Guarded EXCEPT !.called = {sigX, sigZ}, !.rate = 2],
      [Guarded EXCEPT !.called = {sigX, sigY}, !.calls = 4, !.threshold = 2],
      [Guarded EXCEPT !.calls = 2, !.budgeted = TRUE, !.budget = 4] }

Symmetry == Permutations(Threads)

=============================================================================
