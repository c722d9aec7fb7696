----------------------------- MODULE MCTriggers -----------------------------
(* Two planes, one of which declares the webhook in its file.               *)
EXTENDS Triggers
CONSTANTS p1, p2
MCDeclaredOn == [p \in Planes |-> IF p = p2 THEN {"push"} ELSE {}]
MCPort == <<"string", "none">>
=============================================================================
