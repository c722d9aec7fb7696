------------------------------- MODULE Bodies -------------------------------
(***************************************************************************)
(* What the bodies of model steps (steps/llm) and agent steps              *)
(* (steps/agent, server/agent.go) do between the dispatch and the verdict  *)
(* that module Builtins describes: an agent's bounded loop over the        *)
(* contract, its park and its resumption, and a model step's calls, their  *)
(* records and its giving up.                                              *)
(*                                                                         *)
(* One step of one run. Body b runs its attempt b. A body goes on for a    *)
(* while after its lease was swept, beside the body that replaced it,      *)
(* until its renewal is refused and its context ends. The agent SDK is     *)
(* external: a turn is one model call, which answers, fails or asks for a  *)
(* batch of calls; a batch with a call that needs approval is suspended    *)
(* whole, and a resumed loop first makes the batch it was suspended on.    *)
(***************************************************************************)
EXTENDS Integers, Sequences, FiniteSets, SequencesExt

CONSTANTS
    StepKinds,      \* the steps looked at: [type, repeatable]
    MaxBodies,      \* the attempts the step's class and its gate allow
    GrantedSteps,   \* config.grants
    Untrusted,      \* the untrusted inputs an agent is told of; {} on a served plane
    Batches,        \* the batches of calls a model may ask for
    MaxSteps,       \* config.max_steps: an agent's ceiling
    MaxCalls,       \* Options.Attempts of a model step
    MaxTokens,      \* config.max_tokens: 0 is no ceiling
    MaxBodyFaults       \* bound: crashes, and leases swept under a living body

\* The contract's four actions, by effect class.
ContractCatalogue ==
    [read_run |-> "PURE", apply_operation |-> "IDEMPOTENT",
     start_run |-> "AT_MOST_ONCE", decide_approval |-> "AT_MOST_ONCE"]

ContractActions == DOMAIN ContractCatalogue

ASSUME BodiesAssumption ==
    /\ StepKinds \subseteq [type : {"model", "agent"}, repeatable : BOOLEAN]
    /\ GrantedSteps \subseteq ContractActions /\ GrantedSteps # {}
    /\ MaxBodies \in Nat \ {0} /\ MaxSteps \in Nat \ {0} /\ MaxCalls \in Nat \ {0}
    /\ \A batch \in Batches : batch \in Seq(Range(batch))
    /\ MaxTokens \in Nat /\ MaxBodyFaults \in Nat

VARIABLES
    step,       \* the step: its type, and whether its class lets it be repeated
    fold,       \* what the log says of the step
    gate,       \* the step's gate: "none", "open", "approved" or "denied"
    parks,      \* the AGENT_PARKED records in the log, in order
    answered,   \* how many of them were there when the gate was decided
    calls,      \* the rows of llm_calls: the number of a call -> the body that made it
    lease,      \* the body whose fence is current; 0: the key is gone
    body,       \* body -> where it is, and what it holds
    bodyFaults, \* how many faults have happened
    taken,      \* history: body -> how often it has taken each action
    unrecorded, \* history: the bodies that made a call they could not record
    beside      \* history: the bodies that ran beside another one

bodiesVars == <<step, fold, gate, parks, answered, calls, lease, body, bodyFaults,
          taken, unrecorded, beside>>

logged == <<step, fold, gate, parks, answered>>
history == <<taken, unrecorded, beside>>

Bodies == 1 .. MaxBodies
NoCalls == [a \in ContractActions |-> 0]

IdleBody == [pc |-> "idle", stopped |-> FALSE, from |-> 0, spent |-> 0, used |-> 0, ceiling |-> 0,
         batch |-> <<>>, window |-> NoCalls, refused |-> FALSE, base |-> 0, n |-> 0, out |-> "none"]

BodiesInit ==
    /\ step \in StepKinds
    /\ fold = [attempt |-> 0, verdict |-> "none", released |-> FALSE, closed |-> FALSE]
    /\ gate = "none" /\ parks = <<>> /\ answered = 0
    /\ calls = <<>> /\ lease = 0
    /\ body = [b \in Bodies |-> IdleBody]
    /\ bodyFaults = 0
    /\ taken = [b \in Bodies |-> NoCalls] /\ unrecorded = {} /\ beside = {}

Fault == bodyFaults < MaxBodyFaults /\ bodyFaults' = bodyFaults + 1

At(b, place) == body[b].pc = place
Become(b, state) == body' = [body EXCEPT ![b] = state]
Goto(b, place) == Become(b, [body[b] EXCEPT !.pc = place])

\* A body that is over leaves what the log and the properties know of it.
Leave(b, place) ==
    Become(b, [IdleBody EXCEPT !.pc = place, !.from = body[b].from, !.spent = body[b].spent,
                           !.refused = body[b].refused])

Over == {"idle", "gone", "parked", "stopped", "succeeded", "failed"}
Live == {b \in Bodies : body[b].pc \notin Over}

-----------------------------------------------------------------------------
(* Attempts. *)

\* The step is dispatched again when its class lets a failure be repeated, and
\* when the gate it parked at released it.
Ready ==
    /\ ~fold.closed /\ gate # "open"
    /\ \/ fold.attempt = 0
       \/ fold.released
       \/ fold.verdict = "failed" /\ step.repeatable

\* builtins.attempt: the claim supersedes what is left of an earlier attempt.
Dispatch ==
    LET b == fold.attempt + 1 IN
    /\ Ready /\ b \in Bodies
    /\ fold' = [fold EXCEPT !.attempt = b, !.verdict = "none", !.released = FALSE]
    /\ lease' = b
    /\ Become(b, [IdleBody EXCEPT !.pc = "start"])
    /\ beside' = IF Live = {} THEN beside ELSE beside \cup Live \cup {b}
    /\ UNCHANGED <<step, gate, parks, answered, calls, bodyFaults, taken, unrecorded>>

\* recordOrphan: the lease is swept and the attempt recorded as lost, unless the
\* step waits at its gate. The sweep of a living body is a missed renewal.
Sweep ==
    /\ lease # 0
    /\ IF lease \in Live THEN Fault ELSE UNCHANGED bodyFaults
    /\ lease' = 0
    /\ fold' = IF fold.verdict = "none" /\ gate # "open" /\ ~fold.released
               THEN [fold EXCEPT !.verdict = "failed"] ELSE fold
    /\ UNCHANGED <<step, gate, parks, answered, calls, body, history>>

\* renew: the refused renewal ends the body's context.
LoseLease(b) ==
    /\ b \in Live /\ lease # b /\ ~body[b].stopped
    /\ Become(b, [body[b] EXCEPT !.stopped = TRUE])
    /\ UNCHANGED <<logged, calls, lease, bodyFaults, history>>

Crash(b) ==
    /\ b \in Live /\ Fault
    /\ Leave(b, "gone")
    /\ UNCHANGED <<logged, calls, lease, history>>

\* attempt and terminal: nothing is recorded for a body that was stopped, and a
\* verdict only under the current fence.
End(b) ==
    /\ At(b, "succeed") \/ At(b, "fail")
    /\ IF body[b].stopped \/ lease # b
       THEN Leave(b, "stopped") /\ UNCHANGED fold
       ELSE LET verdict == IF At(b, "succeed") THEN "succeeded" ELSE "failed"
            IN fold' = [fold EXCEPT !.verdict = verdict] /\ Leave(b, verdict)
    /\ UNCHANGED <<step, gate, parks, answered, calls, lease, bodyFaults, history>>

-----------------------------------------------------------------------------
(* The model step. *)

\* What GenerateObject came back with: an error of its own, or a response that
\* names its model in its metadata, in its body or nowhere.
Responses ==
    [error : {"none", "noObject", "provider"}, finish : {"stop", "length"},
     tokens : 0 .. MaxTokens + 1, named : SUBSET {"metadata", "raw"}, valid : BOOLEAN]

\* Fingerprint: empty when the response does not name the model that answered.
Fingerprint(r) == r.named # {}

overCeiling(r) == MaxTokens > 0 /\ (r.finish = "length" \/ r.tokens > MaxTokens)

\* attemptOnce: the order in which an answer is judged, once it was recorded.
Judged(r) ==
    CASE r.error # "none" -> r.error
      [] r.error = "none" /\ overCeiling(r) -> "ceiling"
      [] r.error = "none" /\ ~overCeiling(r) /\ ~Fingerprint(r) -> "unattributable"
      [] r.error = "none" /\ ~overCeiling(r) /\ Fingerprint(r) /\ ~r.valid -> "invalid"
      [] OTHER -> "object"

retryable(out) == out \in {"noObject", "invalid"}

\* Mutant: each body numbers its calls from one.
callsMadeHere == 0

\* callsMade: the highest number recorded for the step.
callsMade == Len(calls)

\* answer and llm.New: a step that cannot be asked (no factory, no prompt, no
\* credential, no schema) fails; Run numbers its calls after those recorded.
StartModel(b) ==
    /\ At(b, "start") /\ step.type = "model"
    /\ \/ Goto(b, "fail")
       \/ Become(b, [body[b] EXCEPT !.pc = "calling", !.base = callsMade, !.n = 1])
    /\ UNCHANGED <<logged, calls, lease, bodyFaults, history>>

\* The call goes out and comes back.
CallModel(b) ==
    /\ At(b, "calling")
    /\ \E out \in {Judged(r) : r \in Responses} :
          Become(b, [body[b] EXCEPT !.pc = "recording", !.out = out])
    /\ UNCHANGED <<logged, calls, lease, bodyFaults, history>>

\* Where Run goes after one attempt.
AfterCall(b, out) ==
    CASE out = "object" -> "succeed"
      [] out # "object" /\ body[b].stopped -> "fail"
      [] retryable(out) /\ ~body[b].stopped /\ body[b].n < MaxCalls -> "calling"
      [] OTHER -> "givingUp"

\* Record, on a context of its own: one row per number, and a number another
\* body has used is an error no attempt can mend.
RecordCall(b) ==
    LET number == body[b].base + body[b].n
        free == number = Len(calls) + 1
        place == AfterCall(b, IF free THEN body[b].out ELSE "unrecorded")
    IN
    /\ At(b, "recording")
    /\ calls' = IF free THEN Append(calls, b) ELSE calls
    /\ unrecorded' = IF free THEN unrecorded ELSE unrecorded \cup {b}
    /\ Become(b, [body[b] EXCEPT !.pc = place, !.out = "none", !.n = IF place = "calling" THEN @ + 1 ELSE @])
    /\ UNCHANGED <<logged, lease, bodyFaults, taken, beside>>

\* giveUp: STEP_FAILED under no fence, unless its context has ended.
giveUp(b) ==
    /\ At(b, "givingUp")
    /\ fold' = IF body[b].stopped THEN fold ELSE [fold EXCEPT !.verdict = "failed"]
    /\ Goto(b, "fail")
    /\ UNCHANGED <<step, gate, parks, answered, calls, lease, bodyFaults, history>>

-----------------------------------------------------------------------------
(* The agent step: what one call may do. *)

\* NewActionSpace and Check: the granted actions and no others.
Check(a) == a \in GrantedSteps

\* toolsFor: what the model is offered.
toolsFor == {a \in ContractActions : Check(a)}

\* needsApproval: at-most-once, or of no known class.
needsApproval(a) == ContractCatalogue[a] = "AT_MOST_ONCE"

\* checkTaint, by the built-in rules: untrusted data reaches no effect.
checkTaint(a) == Untrusted = {} \/ ContractCatalogue[a] = "PURE"

\* What a contract call may come to: arguments that do not decode, a refusal, an
\* answer, or an effect whose answer was lost. A read has no effect to lose, and
\* what it has read when its time is up is its answer.
startRun == {"badArguments", "refused", "done", "unanswered"}
decideApproval == {"badArguments", "refused", "done", "unanswered"}
applyOperation == {"badArguments", "refused", "done", "unanswered"}
readRun == {"badArguments", "refused", "done"}

\* The closed switch of ContractInvoker.Invoke.
Invoke(a) ==
    CASE a = "start_run" -> startRun
      [] a = "decide_approval" -> decideApproval
      [] a = "apply_operation" -> applyOperation
      [] a = "read_run" -> readRun

\* The calls of a batch that need approval, at their places, and how often one is
\* among them.
Pending(batch) == [i \in {j \in DOMAIN batch : needsApproval(batch[j])} |-> batch[i]]
Count(actions, a) == Cardinality({i \in DOMAIN actions : actions[i] = a})

\* newResumeWindow: a decision answers each call it was made about once.
resumeWindow(actions) == [a \in ContractActions |-> Count(actions, a)]

-----------------------------------------------------------------------------
(* The agent step: its loop. *)

\* Mutant: a decision answers whatever the step parked at since.
parkedAtOnceDecided ==
    CASE parks = <<>> -> "fresh"
      [] parks # <<>> /\ gate \notin {"approved", "denied"} -> "undecided"
      [] OTHER -> gate

\* parkedAt: the last record, and the decision if it came after it.
parkedAt ==
    CASE parks = <<>> -> "fresh"
      [] parks # <<>> /\ (gate \notin {"approved", "denied"} \/ answered < Len(parks)) -> "undecided"
      [] OTHER -> gate

\* agentGrants, agentInvoker, agentSubject: no grants, a ceiling that is not one, no
\* API to act through, or nobody to act as.
CannotStart(b) == Goto(b, "fail")

\* runAgent: a step that cannot start, or that parked at a gate nobody has decided
\* or a person refused, fails; otherwise Run from the prompt, or Resume with what is left of the ceiling.
StartAgent(b) ==
    LET p == parks[Len(parks)] IN
    /\ At(b, "start") /\ step.type = "agent"
    /\ \/ CannotStart(b)
       \/ parkedAt \in {"undecided", "denied"} /\ Goto(b, "fail")
       \/ parkedAt = "approved" /\ p.used >= MaxSteps /\ Goto(b, "fail")
       \/ /\ parkedAt = "fresh"
          /\ Become(b, [body[b] EXCEPT !.pc = "turn", !.ceiling = MaxSteps])
       \/ /\ parkedAt = "approved" /\ p.used < MaxSteps
          /\ Become(b, [body[b] EXCEPT !.pc = "acting", !.from = Len(parks), !.spent = p.spent,
                                       !.ceiling = MaxSteps - p.used, !.batch = p.batch,
                                       !.window = resumeWindow(p.actions)])
    /\ UNCHANGED <<logged, calls, lease, bodyFaults, history>>

\* Where the loop goes when its batch is done. StopWhen is asked after a turn, so
\* a refusal in the batch a resumed loop begins with stops it one turn later.
AfterBatch(b, refused) ==
    CASE body[b].used = 0 -> "turn"
      [] body[b].used > 0 /\ refused -> "fail"
      [] body[b].used > 0 /\ ~refused /\ body[b].used >= body[b].ceiling -> "succeed"
      [] OTHER -> "turn"

\* One model call, which closes the window: an answer, an error, or a batch. A name
\* outside the action space ends the loop; a call that needs approval suspends it.
Turn(b) ==
    LET spent == [body[b] EXCEPT !.used = @ + 1, !.spent = @ + 1, !.window = NoCalls] IN
    /\ At(b, "turn")
    /\ \/ Become(b, [spent EXCEPT !.pc = "fail"])
       \/ Become(b, [spent EXCEPT !.pc = IF body[b].refused THEN "fail" ELSE "succeed"])
       \/ \E batch \in Batches :
            Become(b, [spent EXCEPT !.batch = batch,
                        !.pc = CASE ~(Range(batch) \subseteq toolsFor) -> "fail"
                                 [] Range(batch) \subseteq toolsFor /\ DOMAIN Pending(batch) # {}
                                      -> IF body[b].refused THEN "fail" ELSE "park"
                                 [] OTHER -> "acting"])
    /\ UNCHANGED <<logged, calls, lease, bodyFaults, history>>

\* invoke: the context, the grant, the taint and the approval, in that order.
MayInvoke(b, a) ==
    /\ ~body[b].stopped
    /\ Check(a) /\ checkTaint(a)
    /\ needsApproval(a) => body[b].window[a] > 0

\* Execute, of the next call of the batch: refused, or recorded and made. A refusal
\* or an error stays with the guard, and the rest of the batch goes on.
Execute(b) ==
    LET a == Head(body[b].batch)
        rest == Tail(body[b].batch)
        done(ok) ==
            LET refused == body[b].refused \/ ~ok
            IN [body[b] EXCEPT
                  !.batch = rest, !.refused = refused,
                  !.window[a] = IF @ > 0 /\ MayInvoke(b, a) THEN @ - 1 ELSE @,
                  !.pc = IF rest = <<>> THEN AfterBatch(b, refused) ELSE "acting"]
    IN
    /\ At(b, "acting")
    /\ IF ~MayInvoke(b, a)
       THEN Become(b, done(FALSE)) /\ UNCHANGED taken
       ELSE \E outcome \in Invoke(a) :
              /\ Become(b, done(outcome = "done"))
              /\ taken' = IF outcome \in {"done", "unanswered"}
                          THEN [taken EXCEPT ![b][a] = @ + 1] ELSE taken
    /\ UNCHANGED <<logged, calls, lease, bodyFaults, unrecorded, beside>>

\* What park records as spent: the record the loop came from, and this segment.
StepsUsed(b) == body[b].used + (IF body[b].from = 0 THEN 0 ELSE parks[body[b].from].used)

\* park: the position, first.
Park(b) ==
    /\ At(b, "park")
    /\ IF body[b].stopped
       THEN Goto(b, "fail") /\ UNCHANGED parks
       ELSE /\ parks' = Append(parks, [actions |-> Pending(body[b].batch), batch |-> body[b].batch,
                                       used |-> StepsUsed(b), spent |-> body[b].spent])
            /\ Goto(b, "ask")
    /\ UNCHANGED <<step, fold, gate, answered, calls, lease, bodyFaults, history>>

\* RequestPark: one gate per step, opened once and never after it was decided.
RequestPark(b) ==
    /\ At(b, "ask")
    /\ IF body[b].stopped \/ gate \in {"approved", "denied"}
       THEN Goto(b, "fail") /\ UNCHANGED gate
       ELSE Leave(b, "parked") /\ gate' = "open"
    /\ UNCHANGED <<step, fold, parks, answered, calls, lease, bodyFaults, history>>

\* Decide: an approval releases the parked step, a refusal fails it and the run.
Decide ==
    /\ gate = "open"
    /\ answered' = Len(parks)
    /\ \/ gate' = "approved" /\ fold' = [fold EXCEPT !.released = TRUE]
       \/ gate' = "denied" /\ fold' = [fold EXCEPT !.verdict = "failed", !.closed = TRUE]
    /\ UNCHANGED <<step, parks, calls, lease, body, bodyFaults, history>>

-----------------------------------------------------------------------------
BodiesNext ==
    \/ Dispatch \/ Sweep \/ Decide
    \/ \E b \in Bodies :
         \/ LoseLease(b) \/ Crash(b) \/ End(b)
         \/ StartModel(b) \/ CallModel(b) \/ RecordCall(b) \/ giveUp(b)
         \/ StartAgent(b) \/ Turn(b) \/ Execute(b) \/ Park(b) \/ RequestPark(b)

BodiesSpec == BodiesInit /\ [][BodiesNext]_bodiesVars

-----------------------------------------------------------------------------
(* Properties. *)

(* Whatever an agent does that may not be repeated, a person approved: the  *)
(* body that does it resumed from a record of the log that names the call   *)
(* that often, and the decision came after that record and before any other *)
(* (parkedAt, resumeWindow, RequestPark).                                   *)
ActsAsDecided ==
    \A b \in Bodies : \A a \in {x \in ContractActions : needsApproval(x)} :
        taken[b][a] > 0 =>
            /\ body[b].from > 0 /\ gate = "approved" /\ answered = body[b].from
            /\ taken[b][a] <= Count(parks[body[b].from].actions, a)

(* One conversation makes no more model calls than its ceiling, over every  *)
(* segment it was parked and resumed in (Resume, park).                     *)
WithinCeiling == \A b \in Bodies : body[b].spent <= MaxSteps

(* An agent that was refused anything does not end as if it had succeeded   *)
(* (guard).                                                                 *)
RefusedFails == \A b \in Bodies : At(b, "succeeded") => ~body[b].refused

(* The bounds of an agent's loop, together.                                 *)
StaysInBounds == ActsAsDecided /\ WithinCeiling /\ RefusedFails

(* A call that was made is in llm_calls, whatever bodies made calls before  *)
(* it, unless two bodies of the step ran side by side (callsMade, Record).  *)
CallsAreRecorded == unrecorded \subseteq beside

(* What Run says of a call: an unrecorded one is one nobody can audit. Two  *)
(* bodies that number from the same row use one number.                     *)
EveryCallRecorded == unrecorded = {}

(* What ParkRecord says: a decision cannot land on a call it was not made   *)
(* about. A gate already open when a second body parks shows the calls of   *)
(* the first, and its decision is read as being about the second.           *)
DecidedWhatWasAsked == gate \in {"approved", "denied"} => answered = 1
=============================================================================
