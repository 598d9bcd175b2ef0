--------------------------- MODULE MCTokenBudget ---------------------------
(* Model-checking instance of TokenBudget: two prompts longer than the      *)
(* budget, one that fits, and a request that asks for no token.             *)
EXTENDS TokenBudget

CONSTANTS r1, r2, r3, r4

PromptOf == [r \in Requests |-> CASE r = r1 -> 7 [] r = r2 -> 4 [] r = r3 -> 2 [] OTHER -> 1]
OutputOf == [r \in Requests |-> CASE r = r1 -> 4 [] r = r2 -> 2 [] r = r3 -> 3 [] OTHER -> 0]
=============================================================================
