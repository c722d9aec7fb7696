------------------------------ MODULE MCEngine ------------------------------
(* Two engines, one with a single slot and one with two, on two queues: the *)
(* steps that need nothing, and the ones that need secrets.                 *)
EXTENDS Engine, TLC

CONSTANTS e1, e2, d1, d2, d3

MCSlots == (e1 :> 1) @@ (e2 :> 2)
MCCapsOf == (d1 :> {}) @@ (d2 :> {"secrets"}) @@ (d3 :> {})
MCTenantOf == (d1 :> "acme") @@ (d2 :> "umbra") @@ (d3 :> "acme")

=============================================================================
