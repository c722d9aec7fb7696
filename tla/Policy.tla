------------------------------- MODULE Policy -------------------------------
(***************************************************************************)
(* What is decided about a step before it is dispatched: which engines      *)
(* could take it (scheduler.Match), whose data reaches it                   *)
(* (scheduler.taintSources, internal/taint), and what the rules of its tier *)
(* say (internal/policy).                                                   *)
(*                                                                         *)
(* The platform of a deployment is one, so the requirement that an engine   *)
(* run on it is left out. A rule is a named predicate of the decision's     *)
(* input: the CEL text of the built-in ones is translated in Holds.         *)
(***************************************************************************)
EXTENDS Registry

CONSTANTS
    Steps,        \* the steps of the pinned revision
    Feeds,        \* step -> the steps an edge connects to one of its ports
    Arrives,      \* step -> the triggers whose marks are on the run values of its free ports
    Effect,       \* step -> its effect class
    Needs,        \* step -> the capabilities it declares
    WantsKind,    \* step -> the engine type it names, "" for none
    Declares,     \* step -> the secrets it declares, in order
    GateSteps,    \* the steps that run a sanitisation gate
    Builtin,      \* the steps the plane hosts itself
    Upstream,     \* step -> the registered upstream of its plugin's namespace, "" for none
    Lockfile,     \* step -> the digest the revision pins its plugin to, "" for none
    Accepted,     \* <<upstream, digest>> with a signature by a signer named for that upstream
    Tier,         \* the trust tier of this plane
    Engines,      \* the instances of the fleet
    Offers        \* instance -> what it advertises: caps, types, slots

\* Sources
Triggers == UNION {Arrives[s] : s \in Steps}
Secrets == UNION {Range(Declares[s]) : s \in Steps}
Capabilities == UNION {Offers[e].caps : e \in Engines}

ASSUME PolicyAssumption ==
    /\ IsFiniteSet(Steps) /\ "" \notin Steps
    /\ Feeds \in [Steps -> SUBSET Steps] /\ Declares \in [Steps -> Seq(Secrets)]
    /\ Effect \in [Steps -> {"PURE", "IDEMPOTENT", "AT_MOST_ONCE", "UNSPECIFIED"}]
    /\ Builtin \cup GateSteps \subseteq Steps
    /\ \A e \in Engines : Offers[e].slots \in Nat

--------------------------------------------------------------------------------
(* The fleet: the state of every instance's record in the registry.         *)

Instances(fleet) == {e \in Engines : fleet[e] \notin {"absent", "gone"}}

\* offersEngineType: naming no type accepts anything.
OffersType(s, e) == WantsKind[s] = "" \/ WantsKind[s] \in Offers[e].types

\* eligible
Eligible(s, e, fleet) ==
    /\ fleet[e] = "ready"
    /\ Offers[e].slots > 0
    /\ OffersType(s, e)
    /\ Needs[s] \subseteq Offers[e].caps

Match(s, fleet) == {e \in Engines : Eligible(s, e, fleet)}

(* Explain: the coarsest thing that would have to change. A capability is   *)
(* the one missing (the code names the first in the step's order).          *)
Explain(s, fleet) ==
    LET ready == {e \in Engines : fleet[e] = "ready"}
        typed == {e \in ready : OffersType(s, e)}
        missing == {c \in Needs[s] : \A e \in typed : c \notin Offers[e].caps}
    IN  CASE Instances(fleet) = {} -> "none registered"
          [] Instances(fleet) # {} /\ ready = {} ->
                IF \E e \in Engines : fleet[e] = "draining" THEN "draining" ELSE "none ready"
          [] ready # {} /\ typed = {} -> "no such type"
          [] typed # {} /\ missing # {} -> "no such capability"
          [] OTHER -> "no single engine"

(* reachableCapabilities: a queued dispatch may be taken by any engine that *)
(* matches, and a step the plane hosts reaches none.                        *)
ReachableCapabilities(s, fleet) ==
    IF s \in Builtin THEN {} ELSE UNION {Offers[e].caps : e \in Match(s, fleet)}

--------------------------------------------------------------------------------
(* Taint.                                                                   *)

\* Mutant: a gate clears by being in the graph.
PassesOnUngated(reach, f, sanitised) == IF f \in GateSteps THEN {} ELSE reach[f]

(* Propagate, and the record of a gate: what a step passes on is what       *)
(* reached it less what TAINT_SANITISED says was cleared on its behalf.     *)
PassesOn(reach, f, sanitised) == reach[f] \ sanitised[f]

(* The body of reaching: what the run itself binds to a step, and what      *)
(* comes over its edges besides, given what reaches the steps that feed it. *)
Arriving == [t \in Steps |-> Arrives[t]]
Hop(reach, sanitised) ==
    [t \in Steps |-> Arrives[t] \cup UNION {PassesOn(reach, f, sanitised) : f \in Feeds[t]}]

(* taintSources: every trigger whose data reaches s, over any number of     *)
(* hops. The recursion memoises per step; a path has at most |Steps| hops.  *)
TaintSources(s, sanitised) ==
    LET reach[n \in 0 .. Cardinality(Steps)] ==
            IF n = 0 THEN Arriving ELSE Hop(reach[n - 1], sanitised)
    IN  reach[Cardinality(Steps)][s]

(* Gate.Sanitise on the fields a gate declares: clears marks that are there *)
(* and no others, and names their triggers in its record.                   *)
Sanitises(s, sanitised) ==
    {cleared \in SUBSET TaintSources(s, sanitised) : cleared # {}}

--------------------------------------------------------------------------------
(* The rules. The floor is evaluated before the tier's own, whose rules the *)
(* operator writes: the default permits everything, and the others here are *)
(* two that default.yaml offers to tighten with.                            *)

FloorRules == {"taint.privileged-engine", "taint.effectful-step",
               "tier.untrusted-signed-plugins", "tier.untrusted-unprivileged-engines",
               "tier.untrusted-no-at-most-once"}
TierRules == {"default.permit", "no-secret-on-untrusted-data", "effect-class-must-be-declared"}

(* taint.BuiltinPolicy: untrusted data reaches no privileged engine, and no *)
(* step that acts on the world.                                             *)
TaintHolds(rule, in) ==
    /\ rule = "taint.privileged-engine" => ~in.tainted \/ "PRIVILEGED" \notin in.engineCaps
    /\ rule = "taint.effectful-step" => ~in.tainted \/ in.effect = "PURE"

(* policy.UntrustedTierRules.                                               *)
UntrustedTierHolds(rule, in) ==
    in.tier = "untrusted" =>
        /\ rule = "tier.untrusted-signed-plugins" => in.signed
        /\ rule = "tier.untrusted-unprivileged-engines" => "PRIVILEGED" \notin in.engineCaps
        /\ rule = "tier.untrusted-no-at-most-once" => in.effect # "AT_MOST_ONCE"

(* The rules of the shipped document.                                       *)
DocumentHolds(rule, in) ==
    /\ rule = "no-secret-on-untrusted-data" => ~in.tainted \/ in.secret = ""
    /\ rule = "effect-class-must-be-declared" => in.effect # "UNSPECIFIED"

Holds(rule, in) ==
    TaintHolds(rule, in) /\ UntrustedTierHolds(rule, in) /\ DocumentHolds(rule, in)

(* WithFloor: a tier without rules stays without a policy, and is denied.   *)
WithFloor(rules) == IF rules = {} THEN {} ELSE FloorRules \cup rules

(* CELEngine.decide: every rule has to permit; no rule denies.              *)
Allows(rules, in) == WithFloor(rules) # {} /\ \A r \in WithFloor(rules) : Holds(r, in)

(* plugins.Provenance: a reference of no registered upstream, or one the    *)
(* lockfile does not pin, has no bytes a signature could be over.           *)
Verified(upstream, digest) ==
    upstream # "" /\ digest # "" /\ <<upstream, digest>> \in Accepted

(* provenance: of the digest the run's revision pinned, never of the tag.   *)
Provenance(s) == Verified(Upstream[s], Lockfile[s])

\* permit's policy.Input for the step, or for one secret it declares.
Input(s, secret, sanitised, fleet) ==
    [tier |-> Tier, effect |-> Effect[s], signed |-> Provenance(s), secret |-> secret,
     tainted |-> TaintSources(s, sanitised) # {},
     engineCaps |-> ReachableCapabilities(s, fleet)]

(* permit: the step, and then each secret it declares, is a decision.       *)
Permits(s, rules, sanitised, fleet) ==
    \A secret \in {""} \cup Range(Declares[s]) :
        Allows(rules, Input(s, secret, sanitised, fleet))

--------------------------------------------------------------------------------
(* Reference: a trigger's data reaches s along a path of edges no step of   *)
(* which, s excepted, had it cleared.                                       *)
ReachesBy(path, t, s, sanitised) ==
    /\ t \in Arrives[path[1]]
    /\ Last(path) = s
    /\ \A i \in 1 .. Len(path) - 1 : /\ path[i] \in Feeds[path[i + 1]]
                                     /\ t \notin sanitised[path[i]]

Untrusted(s, sanitised) ==
    {t \in Triggers : \E path \in BoundedSeq(Steps, Cardinality(Steps)) :
                          path # <<>> /\ ReachesBy(path, t, s, sanitised)}

=============================================================================
