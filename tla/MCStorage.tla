------------------------------ MODULE MCStorage ------------------------------
(* The instances of Storage that TLC explores. *)
EXTENDS Storage, TLC

Build == [plugin |-> "build", inputs |-> <<"a", "b">>, pure |-> TRUE]

\* Build with its two inputs swapped.
Swapped == [Build EXCEPT !.inputs = <<"b", "a">>]

\* The same plugin over the same inputs, declared with another effect class.
Effectful == [Build EXCEPT !.pure = FALSE]

TwoClasses == {Build, Effectful}
TwoOrders == {Build, Swapped}

\* Two runs of Build, or one beside an effectful step.
Served == ("r1" :> {Build}) @@ ("r2" :> TwoClasses)

Either == ("r1" :> TwoOrders) @@ ("r2" :> TwoOrders)

\* A file may have the bytes a step writes.
SharedFile == {<<Build, "e1">>}
==============================================================================
