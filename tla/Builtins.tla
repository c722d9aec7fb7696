------------------------------ MODULE Builtins ------------------------------
(***************************************************************************)
(* The steps a control plane hosts itself: durable waits (internal/wait,   *)
(* steps/gate), human gates (steps/approval), model calls, agents that     *)
(* park at a gate (steps/agent) and loops that grow the run's graph        *)
(* (steps/loop, dynamic), as server.builtins runs them on several planes   *)
(* over one log and one lease bucket.                                      *)
(*                                                                         *)
(* Steps holds the ids of every pipeline the run may pin, and of every     *)
(* fragment its loops may realise; the run pins one of Pipelines. A loop's *)
(* iteration is realised by its controller step, and the fragment ends in  *)
(* the controller of the next pass.                                        *)
(*                                                                         *)
(* Lease operations are single steps (module Lease) and a transaction that *)
(* ends in Validate is one step. A plane's passes over the log, its jobs   *)
(* and its sweeper keep what they read across their later steps. Backoff,  *)
(* replay approval, policy and engines are left to module Scheduler: a     *)
(* step of kind "engine" is dispatched and reported in one step. A plane   *)
(* works on other runs too, so a job may wait in its queue for as long as  *)
(* it takes, and its queue may be full.                                    *)
(***************************************************************************)
EXTENDS RunState

LOCAL INSTANCE FiniteSetsExt

CONSTANTS
    Planes,         \* the control planes
    People,         \* who may be answering a gate at one time
    Pipelines,      \* the sets of authored steps a run may pin
    Kind,           \* step -> its step type
    From,           \* step -> the controller whose fragment holds it; 0: authored
    Iteration,      \* controller -> the pass it decides; 0 for other steps
    LoopMax,        \* config.max_iterations
    MaxFragments,   \* maxRunFragments (256 in the code)
    SlowPeople,     \* whether people answer after every pass that saw the gate shut is over
    MaxFaults,      \* bound: crashes and missed renewals
    MaxFence        \* bound: the last fence a claim may take

Kinds == {"timer", "approval", "model", "agent", "loop", "engine"}

ASSUME BuiltinsAssumption ==
    /\ Pipelines \subseteq SUBSET Steps
    /\ Kind \in [Steps -> Kinds]
    /\ From \in [Steps -> Steps \cup {0}]
    /\ Iteration \in [Steps -> Nat]
    /\ \A s \in Steps : Iteration[s] > 0 <=> Kind[s] = "loop"
    /\ LoopMax \in Nat \ {0} /\ MaxFragments \in Nat \ {0}
    /\ SlowPeople \in BOOLEAN /\ MaxFaults \in Nat /\ MaxFence \in Nat

VARIABLES
    run,            \* the fold of the log that module RunState describes
    gates,          \* the fold of the log's gate events
    realised,       \* controller -> the GENERATOR_FRAGMENT_REALISED events it has
    timers,         \* step -> its row of run_timers
    lease,          \* step -> the claim at its lease key; fence 0: no key
    lastFence,      \* the lease bucket's last revision
    pass,           \* plane -> its advancing pass: what it read and has yet to do
    jobs,           \* plane -> step -> the job taken for it (builtins.running)
    sweep,          \* plane -> the expired lease its sweeper has in hand
    person,         \* person -> the decision they are recording
    faults,         \* how many faults have happened
    bodies,         \* history: every STEP_DISPATCHED of a hosted step
    verdicts,       \* history: every verdict a job recorded, and the attempt in flight then
    fired,          \* history: step -> its STEP_TIMER_FIRED events
    decisions,      \* history: step -> its STEP_APPROVAL_DECIDED events
    acted           \* history: step -> how often its agent made an approved call

log == <<run, gates, realised, timers>>
leases == <<lease, lastFence>>
workers == <<pass, jobs, sweep, person>>
history == <<bodies, verdicts, fired, decisions, acted>>
vars == <<log, leases, workers, faults, history>>

------------------------------------------------------------------------------
Hosted == {s \in Steps : Kind[s] \in {"model", "agent", "loop"}}
Loops == {s \in Steps : Kind[s] = "loop"}

NoPass == [pc |-> "idle", todo |-> {}]
NoJob == [pc |-> "idle", attempt |-> 0, fence |-> 0, had |-> FALSE]
NoOrphan == [pc |-> "idle", step |-> 0, attempt |-> 0]
NoDecision == [step |-> 0, approved |-> FALSE]

JobPlaces == {"idle", "queued", "claimed", "fresh", "running", "acting", "asking",
              "graphed", "splice", "givingUp", "succeed", "fail"}

\* The places where a job's body runs under its renewed lease.
BodyPlaces == {"running", "acting", "asking", "graphed", "splice", "givingUp"}

TypeOK ==
    /\ run.pinned \in Pipelines
    /\ run \in [pinned : SUBSET Steps, attempts : [Steps -> Nat], fences : [Steps -> Nat], terminal : [Steps -> Verdicts],
                failedAt : SUBSET Steps, awaiting : SUBSET Steps,
                closed : Endings \cup {"cancelled"}]
    /\ gates \in [gated : SUBSET Steps, resumed : SUBSET Steps,
                  asked : [Steps -> {"none", "step", "parks"}],
                  decided : [Steps -> {"none", "approved", "denied"}],
                  parked : [Steps -> {"none", "open", "decided"}]]
    /\ realised \in [Steps -> Nat]
    /\ timers \in [Steps -> {"none", "armed", "due", "fired"}]
    /\ lease \in [Steps -> [fence : Nat, attempt : Nat]]
    /\ lastFence \in Nat
    /\ pass \in [Planes -> [pc : {"idle", "act", "fail", "complete"}, todo : SUBSET (Steps \X Nat)]]
    /\ jobs \in [Planes -> [Steps ->
                    [pc : JobPlaces, attempt : Nat, fence : Nat, had : BOOLEAN]]]
    /\ sweep \in [Planes -> [pc : {"idle", "load", "append"}, step : Steps \cup {0}, attempt : Nat]]
    /\ person \in [People -> [step : Steps \cup {0}, approved : BOOLEAN]]
    /\ faults \in Nat
    /\ bodies \subseteq [step : Steps, attempt : Nat, fence : Nat]
    /\ verdicts \subseteq [step : Steps, attempt : Nat, standing : Nat, done : BOOLEAN,
                       fenced : BOOLEAN]
    /\ fired \in [Steps -> Nat] /\ decisions \in [Steps -> Nat] /\ acted \in [Steps -> Nat]

Init ==
    /\ \E revision \in Pipelines : run = NewRun(revision)
    /\ gates = [gated |-> {}, resumed |-> {},
                asked |-> [s \in Steps |-> "none"],
                decided |-> [s \in Steps |-> "none"],
                parked |-> [s \in Steps |-> "none"]]
    /\ realised = [s \in Steps |-> 0]
    /\ timers = [s \in Steps |-> "none"]
    /\ lease = [s \in Steps |-> [fence |-> 0, attempt |-> 0]]
    /\ lastFence = 0
    /\ pass = [p \in Planes |-> NoPass]
    /\ jobs = [p \in Planes |-> [s \in Steps |-> NoJob]]
    /\ sweep = [p \in Planes |-> NoOrphan]
    /\ person = [h \in People |-> NoDecision]
    /\ faults = 0
    /\ bodies = {} /\ verdicts = {}
    /\ fired = [s \in Steps |-> 0]
    /\ decisions = [s \in Steps |-> 0]
    /\ acted = [s \in Steps |-> 0]

Fault == faults < MaxFaults /\ faults' = faults + 1

------------------------------------------------------------------------------
(* The graph the run has, and the plan made from its log. *)

\* spliceRealised: the authored steps and those of every fragment in the log.
Known == run.pinned \cup {s \in Steps : From[s] # 0 /\ realised[From[s]] > 0}

\* The replay, over the graph the run has grown to.
Grown == [run EXCEPT !.pinned = Known]

\* Splice refuses an id that is there already, and then nothing can advance.
Splices == \A s \in Steps : realised[s] <= 1

Waiting == {s \in Known : run.terminal[s] = "none" /\ s \in gates.gated}

\* Mutant: a step that waits does not hold back the steps behind it.
ReadyBehindGates ==
    {s \in Known : \/ s \in Retrying(Grown)
                   \/ /\ run.terminal[s] = "none" /\ s \notin gates.gated
                      /\ run.attempts[s] = 0
                      /\ \A q \in Preds[s] : run.terminal[q] = "succeeded" \/ q \in gates.gated}

\* plan: a retry, a step released from its gate, or a step everything feeding
\* which has succeeded.
ReadyNow ==
    {s \in Known : \/ s \in Retrying(Grown)
                   \/ /\ run.terminal[s] = "none" /\ s \notin gates.gated
                      /\ s \in gates.resumed \/ (run.attempts[s] = 0 /\ Satisfied(run, s))}

InFlightNow ==
    {s \in Known : /\ run.terminal[s] = "none"
                   /\ s \notin gates.gated \cup gates.resumed
                   /\ run.attempts[s] > 0}

Finished == ReadyNow = {} /\ InFlightNow = {} /\ Waiting = {}

------------------------------------------------------------------------------
(* Advance. *)

\* The replay and the plan made from it: each ready step, as its next attempt.
AdvanceLoad(p) ==
    /\ pass[p].pc = "idle"
    /\ run.closed = "open" /\ Splices
    /\ pass' = [pass EXCEPT ![p] =
          [pc |-> CASE ~Finished -> IF ReadyNow = {} THEN "idle" ELSE "act"
                    [] Finished /\ Exhausted(Grown) # {} -> "fail"
                    [] Finished /\ Exhausted(Grown) = {} /\ Blocked(Grown) # {} -> "idle"
                    [] OTHER -> "complete",
           todo |-> {<<s, run.attempts[s] + 1>> : s \in ReadyNow}]]
    /\ pass'[p] # NoPass
    /\ UNCHANGED <<log, leases, jobs, sweep, person, faults, history>>

CloseRun(p) ==
    /\ pass[p].pc \in {"fail", "complete"}
    /\ run' = FoldClosed(run, IF pass[p].pc = "complete" THEN "completed" ELSE "failed")
    /\ pass' = [pass EXCEPT ![p] = NoPass]
    /\ UNCHANGED <<gates, realised, timers, leases, jobs, sweep, person, faults, history>>

\* The pass has dealt with the first step of what it found ready.
Next1(p) == CHOOSE t \in pass[p].todo : \A u \in pass[p].todo : t[1] <= u[1]

PassOn(p) ==
    LET rest == pass[p].todo \ {Next1(p)} IN
    pass' = [pass EXCEPT ![p] = IF rest = {} THEN NoPass ELSE [@ EXCEPT !.todo = rest]]

\* arm: the gate's event and its timer row, once per step.
ArmTimer(s) ==
    IF timers[s] = "none"
    THEN /\ timers' = [timers EXCEPT ![s] = "armed"]
         /\ gates' = [gates EXCEPT !.gated = @ \cup {s}]
    ELSE UNCHANGED <<timers, gates>>

\* armGate: a ready step that waits is armed, in a transaction of its own.
Arm(p) ==
    LET s == Next1(p)[1] IN
    /\ pass[p].pc = "act" /\ Kind[s] = "timer"
    /\ ArmTimer(s)
    /\ PassOn(p)
    /\ UNCHANGED <<run, realised, leases, jobs, sweep, person, faults, history>>

\* Take: nothing is queued for a step this plane has taken already, or when
\* the jobs of other runs fill the queue.
Take(p) ==
    LET s == Next1(p)[1] IN
    /\ pass[p].pc = "act" /\ Kind[s] \in {"approval", "model", "agent", "loop"}
    /\ \/ UNCHANGED jobs
       \/ /\ jobs[p][s].pc = "idle"
          /\ jobs' = [jobs EXCEPT ![p][s] =
                         [NoJob EXCEPT !.pc = "queued", !.attempt = Next1(p)[2]]]
    /\ PassOn(p)
    /\ UNCHANGED <<log, leases, sweep, person, faults, history>>

\* A step an engine runs, from its dispatch to its report.
EngineRuns(p) ==
    LET s == Next1(p)[1]
        sent == FoldDispatched(run, s, run.attempts[s] + 1, 0)
    IN
    /\ pass[p].pc = "act" /\ Kind[s] = "engine"
    /\ run' = IF run.attempts[s] < Next1(p)[2] THEN FoldSucceeded(sent, s) ELSE run
    /\ PassOn(p)
    /\ UNCHANGED <<gates, realised, timers, leases, jobs, sweep, person, faults, history>>

------------------------------------------------------------------------------
(* Jobs: the human gate. *)

At(p, s, place) == jobs[p][s].pc = place

Goto(p, s, place) == jobs' = [jobs EXCEPT ![p][s].pc = place]

Drop(p, s) == jobs' = [jobs EXCEPT ![p][s] = NoJob]

\* approval.request, in a transaction: refused once the gate is decided, and
\* one question however often it is asked.
Ask(p, s, how) ==
    /\ IF gates.decided[s] # "none"
       THEN Goto(p, s, "fail") /\ UNCHANGED gates
       ELSE /\ Drop(p, s)
            /\ gates' = IF gates.asked[s] # "none" THEN gates
                        ELSE [gates EXCEPT !.asked[s] = how, !.gated = @ \cup {s}]

Request(p, s) ==
    /\ At(p, s, "queued") /\ Kind[s] = "approval"
    /\ Ask(p, s, "step")
    /\ UNCHANGED <<run, realised, timers, leases, pass, sweep, person, faults, history>>

------------------------------------------------------------------------------
(* Jobs: builtins.attempt, for the step types that execute. *)

Current(p, s) == lease[s].fence = jobs[p][s].fence

\* Claim: refused when the key carries this attempt or a later one.
Claim(p, s) ==
    /\ At(p, s, "queued") /\ s \in Hosted
    /\ IF lease[s].fence # 0 /\ lease[s].attempt >= jobs[p][s].attempt
       THEN Drop(p, s) /\ UNCHANGED leases
       ELSE /\ lastFence < MaxFence
            /\ lastFence' = lastFence + 1
            /\ lease' = [lease EXCEPT ![s] =
                            [fence |-> lastFence + 1, attempt |-> jobs[p][s].attempt]]
            /\ jobs' = [jobs EXCEPT ![p][s] = [@ EXCEPT !.pc = "claimed", !.fence = lastFence + 1]]
    /\ UNCHANGED <<log, pass, sweep, person, faults, history>>

\* Mutant: the log is not read again after the claim.
RereadNothing(p, s) ==
    /\ At(p, s, "claimed")
    /\ Goto(p, s, "fresh")
    /\ UNCHANGED <<log, leases, pass, sweep, person, faults, history>>

\* attemptOf, after the claim: an attempt the log has already is not run again.
Reread(p, s) ==
    /\ At(p, s, "claimed")
    /\ IF run.attempts[s] >= jobs[p][s].attempt THEN Drop(p, s) ELSE Goto(p, s, "fresh")
    /\ UNCHANGED <<log, leases, pass, sweep, person, faults, history>>

\* STEP_DISPATCHED, in a transaction that validates the fence last.
Dispatch(p, s) ==
    LET j == jobs[p][s] IN
    /\ At(p, s, "fresh")
    /\ IF Current(p, s)
       THEN /\ run' = FoldDispatched(run, s, j.attempt, j.fence)
            /\ gates' = [gates EXCEPT !.resumed = @ \ {s}]
            /\ bodies' = bodies \cup {[step |-> s, attempt |-> j.attempt, fence |-> j.fence]}
            /\ Goto(p, s, "running")
       ELSE Drop(p, s) /\ UNCHANGED <<run, gates, bodies>>
    /\ UNCHANGED <<realised, timers, leases, pass, sweep, person, faults,
                   verdicts, fired, decisions, acted>>

\* renew: the body is stopped when its renewal is refused, or when none got
\* through for a whole TTL. Nothing is recorded.
LoseLease(p, s) ==
    /\ jobs[p][s].pc \in BodyPlaces
    /\ IF Current(p, s) THEN Fault ELSE UNCHANGED faults
    /\ Drop(p, s)
    /\ UNCHANGED <<log, leases, pass, sweep, person, history>>

\* callModel: an answer, a step that cannot be asked at all, or one that
\* refused, overspent or answered off its schema until its attempts were gone.
CallModel(p, s) ==
    /\ At(p, s, "running") /\ Kind[s] = "model"
    /\ Goto(p, s, "succeed") \/ Goto(p, s, "fail") \/ Goto(p, s, "givingUp")
    /\ UNCHANGED <<log, leases, pass, sweep, person, faults, history>>

\* giveUp: the step type records the failure itself, under no attempt and no
\* fence, and its job then records one more.
GiveUp(p, s) ==
    /\ At(p, s, "givingUp")
    /\ run' = FoldFailed(run, s)
    /\ verdicts' = verdicts \cup
          {[step |-> s, attempt |-> jobs[p][s].attempt, standing |-> run.attempts[s],
            done |-> FALSE, fenced |-> FALSE]}
    /\ Goto(p, s, "fail")
    /\ UNCHANGED <<gates, realised, timers, leases, pass, sweep, person, faults,
                   bodies, fired, decisions, acted>>

\* Mutant: the verdict is written without asking who holds the step.
EndUnfenced(p, s) ==
    LET j == jobs[p][s] IN
    /\ At(p, s, "succeed") \/ At(p, s, "fail")
    /\ run' = IF At(p, s, "succeed") THEN FoldSucceeded(run, s) ELSE FoldFailed(run, s)
    /\ verdicts' = IF j.fence = 0 THEN verdicts
                   ELSE verdicts \cup
                        {[step |-> s, attempt |-> j.attempt, standing |-> run.attempts[s],
                          done |-> At(p, s, "succeed"), fenced |-> TRUE]}
    /\ Drop(p, s)
    /\ UNCHANGED <<gates, realised, timers, leases, pass, sweep, person, faults,
                   bodies, fired, decisions, acted>>

\* succeed and fail: the verdict, in a transaction that validates the fence
\* last. A gate has no lease, and its failure is appended as it is.
End(p, s) ==
    LET j == jobs[p][s] IN
    /\ At(p, s, "succeed") \/ At(p, s, "fail")
    /\ IF j.fence = 0 \/ Current(p, s)
       THEN /\ run' = IF At(p, s, "succeed") THEN FoldSucceeded(run, s) ELSE FoldFailed(run, s)
            /\ verdicts' = IF j.fence = 0 THEN verdicts
                           ELSE verdicts \cup
                                {[step |-> s, attempt |-> j.attempt, standing |-> run.attempts[s],
                                  done |-> At(p, s, "succeed"), fenced |-> TRUE]}
       ELSE UNCHANGED <<run, verdicts>>
    /\ Drop(p, s)
    /\ UNCHANGED <<gates, realised, timers, leases, pass, sweep, person, faults,
                   bodies, fired, decisions, acted>>

------------------------------------------------------------------------------
(* Jobs: the agent. *)

\* parkedAt finds the position the agent parked at and the approval of it.
Resumable(s) == gates.parked[s] = "decided" /\ gates.decided[s] = "approved"

\* A fresh loop; a step parked at an open or refused gate may not run.
RunAgent(p, s) ==
    /\ At(p, s, "running") /\ Kind[s] = "agent" /\ ~Resumable(s)
    /\ Goto(p, s, IF gates.parked[s] = "none" THEN "acting" ELSE "fail")
    /\ UNCHANGED <<log, leases, pass, sweep, person, faults, history>>

\* Resume: the loop is re-entered at the call a person approved, which is made.
ResumeAgent(p, s) ==
    /\ At(p, s, "running") /\ Kind[s] = "agent" /\ Resumable(s)
    /\ acted' = [acted EXCEPT ![s] = @ + 1]
    /\ Goto(p, s, "acting")
    /\ UNCHANGED <<log, leases, pass, sweep, person, faults,
                   bodies, verdicts, fired, decisions>>

\* The loop ends: an answer, an error or its step ceiling.
AgentEnds(p, s) ==
    /\ At(p, s, "acting")
    /\ Goto(p, s, "succeed") \/ Goto(p, s, "fail")
    /\ UNCHANGED <<log, leases, pass, sweep, person, faults, history>>

\* The loop asks for an at-most-once call: its position is recorded first.
Park(p, s) ==
    /\ At(p, s, "acting")
    /\ gates' = [gates EXCEPT !.parked[s] = "open"]
    /\ Goto(p, s, "asking")
    /\ UNCHANGED <<run, realised, timers, leases, pass, sweep, person, faults, history>>

\* RequestPark, in a transaction of its own; a parked job records no verdict.
AskPark(p, s) ==
    /\ At(p, s, "asking")
    /\ Ask(p, s, "parks")
    /\ UNCHANGED <<run, realised, timers, leases, pass, sweep, person, faults, history>>

------------------------------------------------------------------------------
(* Jobs: the loop controller. *)

\* iterate: past the first pass the exit condition is asked about the one that
\* has finished; then the ceiling; then the graph the run has is read.
Iterate(p, s) ==
    /\ At(p, s, "running") /\ Kind[s] = "loop"
    /\ \/ Iteration[s] > 1 /\ (Goto(p, s, "succeed") \/ Goto(p, s, "fail"))
       \/ Iteration[s] > LoopMax /\ Goto(p, s, "fail")
       \/ Iteration[s] <= LoopMax /\ Splices
          /\ jobs' = [jobs EXCEPT ![p][s] = [@ EXCEPT !.pc = "graphed", !.had = realised[s] > 0]]
       \/ Iteration[s] <= LoopMax /\ ~Splices /\ Goto(p, s, "fail")
    /\ UNCHANGED <<log, leases, pass, sweep, person, faults, history>>

Expansions == MapThenSumSet(LAMBDA s : realised[s], Steps)

\* Realise: a fragment in the log is spliced again into the graph just read,
\* which refuses it when that graph has it; otherwise the run-wide ceiling.
Realise(p, s) ==
    /\ At(p, s, "graphed")
    /\ Goto(p, s, IF realised[s] > 0 THEN (IF jobs[p][s].had THEN "fail" ELSE "succeed")
                  ELSE IF Expansions >= MaxFragments THEN "fail" ELSE "splice")
    /\ UNCHANGED <<log, leases, pass, sweep, person, faults, history>>

\* GENERATOR_FRAGMENT_REALISED: from here on the fragment is part of the graph.
RecordFragment(p, s) ==
    /\ At(p, s, "splice")
    /\ realised' = [realised EXCEPT ![s] = @ + 1]
    /\ Goto(p, s, "succeed")
    /\ UNCHANGED <<run, gates, timers, leases, pass, sweep, person, faults, history>>

------------------------------------------------------------------------------
(* Timers, people and cancellation. *)

\* Time passes.
BecomeDue(s) ==
    /\ timers[s] = "armed"
    /\ timers' = [timers EXCEPT ![s] = "due"]
    /\ UNCHANGED <<run, gates, realised, leases, workers, faults, history>>

\* retired: the run ended without this wait, or its step has a verdict.
Retired(s) == run.closed \in {"completed", "failed"} \/ run.terminal[s] # "none"

\* Due: claim, mark and resume in one transaction.
Due(s) ==
    /\ timers[s] = "due"
    /\ timers' = [timers EXCEPT ![s] = "fired"]
    /\ IF Retired(s) THEN UNCHANGED <<run, fired>>
       ELSE /\ run' = FoldSucceeded(run, s)
            /\ fired' = [fired EXCEPT ![s] = @ + 1]
    /\ UNCHANGED <<gates, realised, leases, workers, faults,
                   bodies, verdicts, decisions, acted>>

\* Whether some pass or job found the step ready and has not acted on it yet.
Pending(s) ==
    \E p \in Planes : jobs[p][s].pc = "queued" \/ \E t \in pass[p].todo : t[1] = s

\* Mutant: a standing decision is not looked for.
DecideReadBlind(h, s, approved) ==
    /\ person[h] = NoDecision
    /\ gates.asked[s] # "none"
    /\ decisions[s] < 2
    /\ person' = [person EXCEPT ![h] = [step |-> s, approved |-> approved]]
    /\ UNCHANGED <<log, leases, pass, jobs, sweep, faults, history>>

\* Decide reads the gate: it must have been asked for, and not decided.
DecideRead(h, s, approved) ==
    /\ person[h] = NoDecision
    /\ gates.asked[s] # "none" /\ gates.decided[s] = "none"
    /\ SlowPeople => ~Pending(s)
    /\ person' = [person EXCEPT ![h] = [step |-> s, approved |-> approved]]
    /\ UNCHANGED <<log, leases, pass, jobs, sweep, faults, history>>

\* And records the decision with what it implies: a parked step is released, an
\* approval step has succeeded, and a refusal fails the step and the run.
DecideRecord(h) ==
    LET s == person[h].step
        yes == person[h].approved
        released == yes /\ gates.asked[s] = "parks"
    IN
    /\ person[h] # NoDecision
    /\ gates' = [gates EXCEPT
            !.decided[s] = IF yes THEN "approved" ELSE "denied",
            !.parked[s]  = IF @ = "none" THEN @ ELSE "decided",
            !.gated      = IF released THEN @ \ {s} ELSE @,
            !.resumed    = IF released THEN @ \cup {s} ELSE @]
    /\ run' = IF released THEN run
              ELSE IF yes THEN FoldSucceeded(run, s)
              ELSE FoldClosed(FoldFailed(run, s), "failed")
    /\ decisions' = [decisions EXCEPT ![s] = @ + 1]
    /\ person' = [person EXCEPT ![h] = NoDecision]
    /\ UNCHANGED <<realised, timers, leases, pass, jobs, sweep, faults,
                   bodies, verdicts, fired, acted>>

\* CancelRun closes the log; the jobs of the planes go on.
Cancel ==
    /\ run.closed = "open"
    /\ run' = FoldClosed(run, "cancelled")
    /\ UNCHANGED <<gates, realised, timers, leases, workers, faults, history>>

------------------------------------------------------------------------------
(* The sweeper, and a plane that dies. *)

\* A job renews its lease from its claim until its verdict is written.
Renewing(s) ==
    \E p \in Planes : /\ jobs[p][s].pc \notin {"idle", "queued"}
                      /\ jobs[p][s].fence = lease[s].fence

\* Expire: nobody renews the lease, or its holder's renewals do not get through.
Expire(p, s) ==
    /\ sweep[p] = NoOrphan /\ lease[s].fence # 0
    /\ IF Renewing(s) THEN Fault ELSE UNCHANGED faults
    /\ lease' = [lease EXCEPT ![s] = [fence |-> 0, attempt |-> 0]]
    /\ sweep' = [sweep EXCEPT ![p] = [pc |-> "load", step |-> s, attempt |-> lease[s].attempt]]
    /\ UNCHANGED <<log, lastFence, pass, jobs, person, history>>

\* recordOrphan's guards. A step at its gate, or released from it, is no orphan.
OrphanLoad(p) ==
    LET s == sweep[p].step IN
    /\ sweep[p].pc = "load"
    /\ sweep' = [sweep EXCEPT ![p] =
          IF \/ run.closed # "open" \/ run.terminal[s] # "none"
             \/ run.attempts[s] # sweep[p].attempt
             \/ s \in gates.gated \cup gates.resumed
          THEN NoOrphan ELSE [@ EXCEPT !.pc = "append"]]
    /\ UNCHANGED <<log, leases, pass, jobs, person, faults, history>>

OrphanAppend(p) ==
    /\ sweep[p].pc = "append"
    /\ run' = FoldLost(run, sweep[p].step, sweep[p].attempt)
    /\ sweep' = [sweep EXCEPT ![p] = NoOrphan]
    /\ UNCHANGED <<gates, realised, timers, leases, pass, jobs, person, faults, history>>

Crash(p) ==
    /\ Fault
    /\ pass' = [pass EXCEPT ![p] = NoPass]
    /\ jobs' = [jobs EXCEPT ![p] = [s \in Steps |-> NoJob]]
    /\ sweep' = [sweep EXCEPT ![p] = NoOrphan]
    /\ UNCHANGED <<log, leases, person, history>>

------------------------------------------------------------------------------
PassStep(p) ==
    \/ AdvanceLoad(p) \/ CloseRun(p)
    \/ Arm(p) \/ Take(p) \/ EngineRuns(p)

JobStep(p, s) ==
    \/ Request(p, s)
    \/ Claim(p, s) \/ Reread(p, s) \/ Dispatch(p, s) \/ LoseLease(p, s)
    \/ CallModel(p, s) \/ GiveUp(p, s) \/ End(p, s)
    \/ RunAgent(p, s) \/ ResumeAgent(p, s) \/ AgentEnds(p, s) \/ Park(p, s) \/ AskPark(p, s)
    \/ Iterate(p, s) \/ Realise(p, s) \/ RecordFragment(p, s)

SweepStep(p) ==
    \/ \E s \in Steps : Expire(p, s)
    \/ OrphanLoad(p) \/ OrphanAppend(p)

PersonStep(h) ==
    \/ \E s \in Steps, approved \in BOOLEAN : DecideRead(h, s, approved)
    \/ DecideRecord(h)

Next ==
    \/ \E p \in Planes : PassStep(p) \/ SweepStep(p) \/ Crash(p)
    \/ \E p \in Planes, s \in Steps : JobStep(p, s)
    \/ \E h \in People : PersonStep(h)
    \/ \E s \in Steps : BecomeDue(s) \/ Due(s)
    \/ Cancel

Spec == Init /\ [][Next]_vars

------------------------------------------------------------------------------
(* Properties. *)

\* What lets the steps behind q start is in the log.
Opened(q) ==
    CASE Kind[q] = "timer" -> fired[q] = 1
      [] Kind[q] = "approval" -> gates.decided[q] = "approved"
      [] q \in Hosted -> \E v \in verdicts : v.step = q /\ v.done
      [] OTHER -> run.terminal[q] = "succeeded"

\* No step is armed, asked about or dispatched before everything feeding it is
\* through: a timer has fired, a gate was approved, a success was recorded. A wait is
\* never skipped, whichever plane and however stale the pass that found it ready.
WaitsHonoured ==
    \A s \in Steps :
        run.attempts[s] > 0 \/ s \in gates.gated \/ timers[s] # "none" =>
            \A q \in Preds[s] : Opened(q)

\* A gate has one decision, and the step's verdict is the one it implies: an
\* approval step never stands as anything but what the person said, and the call an
\* agent parked at is made once, after it was approved, unless the step repeats.
DecisionStands ==
    \A s \in Steps :
        /\ decisions[s] <= 1
        /\ s \notin Repeatable => acted[s] <= 1
        /\ acted[s] > 0 => gates.decided[s] = "approved"
        /\ Kind[s] = "approval" =>
              CASE gates.decided[s] = "approved" -> run.terminal[s] = "succeeded"
                [] gates.decided[s] = "denied" -> run.terminal[s] = "failed"
                [] OTHER -> run.terminal[s] = "none"

\* One attempt of a hosted step is dispatched, and so its body run, by one job
\* of one plane: the claim, the second reading of the log and the fence in the
\* transaction together.
OneBodyPerAttempt ==
    \A b, c \in bodies : b.step = c.step /\ b.attempt = c.attempt => b = c

\* A job's verdict is recorded while its own attempt is the one in the log, and
\* never over the attempt that replaced it.
VerdictOfItsAttempt == \A v \in verdicts : v.fenced => v.standing = v.attempt

\* What execute says of a failure: it is never recorded against a later attempt,
\* which is running. A model step that gives up records its own.
FailuresAreFenced == \A v \in verdicts : v.standing = v.attempt

\* A controller run again after a restart splices the fragment recorded for it,
\* and does not fail for having found it.
RerunResplices == \A s \in Loops : s \in run.failedAt => realised[s] = 0
==============================================================================
