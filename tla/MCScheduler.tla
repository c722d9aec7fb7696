----------------------------- MODULE MCScheduler -----------------------------
(* The instances of Scheduler that TLC explores. *)
EXTENDS Scheduler, TLC

\* Two steps in a row: the second needs the first.
Chain == (1 :> {}) @@ (2 :> {1})

\* Steps of two revisions, one step each.
Apart == (1 :> {}) @@ (2 :> {})
==============================================================================
