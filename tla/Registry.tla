------------------------------ MODULE Registry ------------------------------
(***************************************************************************)
(* The engine registry (internal/registry/kv.go), the wire versions agreed  *)
(* with an engine (internal/wire/negotiate.go) and the API over the fleet   *)
(* (internal/api/engines.go).                                               *)
(*                                                                         *)
(* modify writes a record only over the revision it read and reads again    *)
(* where it loses, so the messages of one engine take effect one at a time, *)
(* in some order: each is a function from the record to the record.         *)
(***************************************************************************)
EXTENDS Integers, Sequences, FiniteSets, SequencesExt, FiniteSetsExt

States == {"absent", "registering", "ready", "draining", "gone"}

(* What get answers for a key that is not there, or has aged out.           *)
NotHeld == [state |-> "absent", jobs |-> {}]

(* A registration changes the description and never the proof.              *)
stateAfterReannouncement(prev) ==
    IF prev \in {"ready", "draining"} THEN prev ELSE "registering"

Register(rec) == [rec EXCEPT !.state = stateAfterReannouncement(@)]

(* The state a heartbeat leaves: refused where nothing, or a tombstone, is  *)
(* held; the drain ends with the heartbeat that holds nothing.              *)
stateAfterHeartbeat(prev, held) ==
    CASE prev = "registering" -> "ready"
      [] prev = "draining" /\ held = {} -> "gone"
      [] OTHER -> prev

Heartbeat(rec, held) ==
    IF rec.state \in {"absent", "gone"} THEN rec
    ELSE [state |-> stateAfterHeartbeat(rec.state, held), jobs |-> held]

stateAfterDrain(prev) == IF prev \in {"registering", "ready"} THEN "draining" ELSE prev
Drain(rec) == [rec EXCEPT !.state = stateAfterDrain(@)]

(* The bucket's TTL passes without a write.                                 *)
AgeOut(rec) == NotHeld

(* modify: the message is applied to the record as it is when the write     *)
(* lands, and dropped when that many writers got in between.                *)
ModifyAttempts == 5
Modify(rec, m, lost) ==
    IF lost >= ModifyAttempts THEN rec
    ELSE CASE m.kind = "register" -> Register(rec)
           [] m.kind = "heartbeat" -> Heartbeat(rec, m.held)
           [] m.kind = "drain" -> Drain(rec)
           [] m.kind = "age" -> AgeOut(rec)

After(msgs) == FoldLeft(LAMBDA rec, m : Modify(rec, m, 0), NotHeld, msgs)

(* Instances: tombstones are filtered.                                      *)
Listed(fleet) == {e \in DOMAIN fleet : fleet[e].state \notin {"absent", "gone"}}

(* DrainEngine: refused for an engine the tenant's fleet does not hold, and *)
(* read back afterwards.                                                    *)
DrainEngine(fleet, e) ==
    IF e \notin Listed(fleet) THEN fleet ELSE [fleet EXCEPT ![e] = Drain(@)]

(* heldBy: where a cancellation is sent, from the in-flight lists alone.    *)
heldBy(fleet, run) ==
    {x \in Listed(fleet) \X UNION {fleet[e].jobs : e \in Listed(fleet)} :
        x[2] \in fleet[x[1]].jobs /\ x[2][1] = run}

-----------------------------------------------------------------------------
(* Wire versions.  NoVersion is a refusal.                                  *)
NoVersion == 0
SupportedWindow == 1

oldestAccepted(ours) == IF ours <= SupportedWindow THEN 1 ELSE ours - SupportedWindow

NegotiateAgainst(ours, versions) ==
    LET both == {v \in versions : oldestAccepted(ours) <= v /\ v <= ours}
    IN  IF both = {} THEN NoVersion ELSE Max(both)

(* What an engine of a build advertises.                                    *)
protocolVersions(build) == oldestAccepted(build) .. build

(* dispatchVersion: the lowest of what was agreed with each candidate.      *)
dispatchVersion(ours, engines) ==
    Min({ours} \cup ({NegotiateAgainst(ours, vs) : vs \in engines} \ {NoVersion}))

-----------------------------------------------------------------------------
(* An engine is dispatchable only while it is proven alive: it registered,  *)
(* a heartbeat followed, and it neither aged out nor was drained since.     *)
ReadyIsProven(msgs) ==
    After(msgs).state = "ready" =>
        \E i, j \in DOMAIN msgs :
            /\ i < j /\ msgs[i].kind = "register" /\ msgs[j].kind = "heartbeat"
            /\ \A k \in i .. Len(msgs) : msgs[k].kind # "age"
            /\ \A k \in j .. Len(msgs) : msgs[k].kind # "drain"

(* A drain holds while the engine has work: until it ages out or reports    *)
(* that it holds nothing, no message of its makes it ready.                 *)
DrainHolds(msgs) ==
    \A i \in DOMAIN msgs :
        /\ msgs[i].kind = "drain" /\ After(SubSeq(msgs, 1, i)).state = "draining"
        /\ \A k \in i + 1 .. Len(msgs) :
              msgs[k].kind # "age" /\ (msgs[k].kind = "heartbeat" => msgs[k].held # {})
        => After(msgs).state = "draining"

(* A cancellation finds the work: the record lists what the last heartbeat  *)
(* it took said, whatever was announced or drained since.                   *)
HeldIsListed(msgs) ==
    LET heard == {i \in DOMAIN msgs :
                    /\ msgs[i].kind = "heartbeat"
                    /\ After(SubSeq(msgs, 1, i - 1)).state \notin {"absent", "gone"}
                    /\ \A k \in i .. Len(msgs) : msgs[k].kind # "age"}
    IN  After(msgs).jobs = IF heard = {} THEN {} ELSE msgs[Max(heard)].held

(* In a fleet one version apart, every engine reads the dispatches.         *)
EveryEngineReads(ours, builds) ==
    LET v == dispatchVersion(ours, {protocolVersions(b) : b \in builds})
    IN  \A b \in builds : NegotiateAgainst(b, {v}) # NoVersion

(* kv.go says of a draining engine that announces itself again that it      *)
(* "must not become dispatchable again".  It does, once the heartbeat that  *)
(* holds nothing has made it gone.                                          *)
DrainSticks(msgs) ==
    \A i \in DOMAIN msgs :
        /\ msgs[i].kind = "drain" /\ After(SubSeq(msgs, 1, i)).state = "draining"
        /\ \A k \in i + 1 .. Len(msgs) : msgs[k].kind # "age"
        => After(msgs).state # "ready"

=============================================================================
