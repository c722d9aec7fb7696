----------------------------- MODULE MCBuiltins -----------------------------
(***************************************************************************)
(* Three pipelines a run may pin: a wait (1) and an approval (2) that both *)
(* hold back a model call (3); an agent that may park (4) feeding an       *)
(* engine step (5); and a loop (6) whose pass realises an engine step (7)  *)
(* and the controller of the next pass (8), which would realise step 9.    *)
(***************************************************************************)
EXTENDS Builtins, TLC

MCSteps == 1..9

MCKind == <<"timer", "approval", "model", "agent", "engine",
            "loop", "engine", "loop", "engine">>

MCPreds == <<{}, {}, {1, 2}, {}, {4}, {}, {}, {7}, {}>>

MCFrom == <<0, 0, 0, 0, 0, 0, 6, 6, 8>>

MCIteration == <<0, 0, 0, 0, 0, 1, 0, 2, 0>>

MCPipelines == {{1, 2, 3}, {4, 5}, {6}}

\* The steps declared PURE or IDEMPOTENT: the model call and, where a loop may
\* be repeated, its controllers.
ModelRepeats == {3}
LoopRepeats == {3, 6, 8}

PlaneSymmetry == Permutations(Planes)
==============================================================================
