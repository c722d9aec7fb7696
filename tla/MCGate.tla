------------------------------- MODULE MCGate -------------------------------
(* A pipeline that scrubs what a webhook brought and acts on it with a      *)
(* credential, and then asks for one in a step the plane hosts; a plain     *)
(* engine and a privileged one, and two passes of planes alike.             *)
EXTENDS Gate, TLC

CONSTANTS p1, p2, r1

MCFeeds == ("scrub" :> {}) @@ ("act" :> {"scrub"}) @@ ("host" :> {"act"})
MCArrives == ("scrub" :> {"hook"}) @@ ("act" :> {}) @@ ("host" :> {})
MCEffect == ("scrub" :> "PURE") @@ ("act" :> "IDEMPOTENT") @@ ("host" :> "PURE")
MCNeeds == ("scrub" :> {}) @@ ("act" :> {"SECRETS"}) @@ ("host" :> {"SECRETS"})
MCWantsKind == [s \in Steps |-> ""]
MCDeclares == ("scrub" :> <<>>) @@ ("act" :> <<"key">>) @@ ("host" :> <<"key">>)
MCOffers == ("plain" :> [caps |-> {"SECRETS"}, types |-> {}, slots |-> 1])
            @@ ("root" :> [caps |-> {"SECRETS", "PRIVILEGED"}, types |-> {}, slots |-> 1])
MCUpstream == ("scrub" :> "acme") @@ ("act" :> "acme") @@ ("host" :> "")
MCLockfile == ("scrub" :> "d1") @@ ("act" :> "d2") @@ ("host" :> "")
MCHoldings == [p \in Passes |-> {"key"}]
MCTries == ("scrub" :> 1) @@ ("act" :> 2) @@ ("host" :> 1)
MCDocuments == {{"default.permit"}, {"no-secret-on-untrusted-data"}}
(* Every sequence of up to five messages about one engine, and every fleet  *)
(* of builds one version from its plane.                                    *)
FleetMessages ==
    {[kind |-> k] : k \in {"register", "drain", "age"}}
    \cup {[kind |-> "heartbeat", held |-> h] : h \in {{}, {<<"r1", "act", 1>>}, {<<"r2", "act", 1>>}}}

ASSUME RegistryHolds ==
    \A n \in 0 .. 5 : \A msgs \in [1 .. n -> FleetMessages] :
        ReadyIsProven(msgs) /\ DrainHolds(msgs) /\ HeldIsListed(msgs)

ASSUME VersionsAgree ==
    \A ours \in 1 .. 4 :
        \A builds \in SUBSET {ours - 1, ours} \cup SUBSET {ours, ours + 1} :
            0 \notin builds => EveryEngineReads(ours, builds)

AlikePasses == Permutations(Passes)

=============================================================================
