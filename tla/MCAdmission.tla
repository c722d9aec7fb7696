----------------------------- MODULE MCAdmission -----------------------------
(* The instance of Admission that TLC explores. *)
EXTENDS Admission, TLC

CONSTANTS t1, t2, a, b, w1, w2, p1

\* Steps 1 and 2 are a run of tenant t1's pipeline a, step 3 a run of t2's b.
MCRunOf == (1 :> 1) @@ (2 :> 1) @@ (3 :> 2)
MCTenantOf == (1 :> t1) @@ (2 :> t2)
MCPipelineOf == (1 :> a) @@ (2 :> b)
MCLimit == (a :> 1) @@ (b :> 1)
MCQuota == (t1 :> 1) @@ (t2 :> 1)
MCTries == (1 :> 2) @@ (2 :> 1) @@ (3 :> 1)
MCWeight == (t1 :> 1) @@ (t2 :> 1)
MCPlaneOf == (w1 :> p1) @@ (w2 :> p1)

\* The two workers of the plane are alike.
Alike == Permutations({w1, w2})
==============================================================================
