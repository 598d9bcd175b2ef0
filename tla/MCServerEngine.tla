--------------------------- MODULE MCServerEngine ---------------------------
(* Model-checking instance of ServerEngine: requests for three, two, one    *)
(* and no tokens on a scheduler with room for two.                          *)
EXTENDS ServerEngine

CONSTANTS r1, r2, r3, r4

TokensOf == [r \in Requests |-> CASE r = r1 -> 3 [] r = r2 -> 2 [] r = r3 -> 1 [] OTHER -> 0]
=============================================================================
