------------------------------ MODULE Scheduler ------------------------------
(***************************************************************************)
(* One run moved by a control plane: scheduler.Advance and dispatch on the *)
(* open-run tick, OnStatus on the status consumer, SweepOrphans on the     *)
(* sweeper, over the run's log, the step leases, the outbox, the work      *)
(* queue and the engines. The scheduler is the one New builds without      *)
(* options: no cache, queue, gate, budget, policy or secrets.              *)
(*                                                                         *)
(* Every goroutine is a worker. A worker keeps what it read (a replay of   *)
(* the log, a validated fence, an offer) across its later steps, so each   *)
(* read of the log, each lease operation and each transaction is a step of *)
(* its own. Lease operations are single steps, as module Lease shows them  *)
(* to be; a renewal keeps its separate read and write.                     *)
(*                                                                         *)
(* Time is abstract. A held lease lapses, an offer grows old and a backoff *)
(* elapses by steps of their own.                                          *)
(***************************************************************************)
EXTENDS RunState

CONSTANTS
    Pipelines,      \* the revisions a run may pin: sets of steps
    Advancers,      \* goroutines of Server.advanceLoop
    Consumers,      \* goroutines of Server.consumeStatuses
    Sweepers,       \* goroutines of Server.sweepLoop
    Engines,        \* engines, with one slot each
    SlowCommits,    \* whether a commit may outlast the second half of offerGrace
    SweepsSurvive,  \* whether a sweeper lives to record the orphans it expired
    MaxFaults,      \* bound: crashes, lost answers and acks, missed heartbeats
    MaxFence        \* bound: the last fence an offer may take

ASSUME SchedulerAssumption ==
    /\ Pipelines \subseteq SUBSET Steps
    /\ \A revision \in Pipelines : \A s \in revision : Preds[s] \subseteq revision
    /\ SlowCommits \in BOOLEAN /\ SweepsSurvive \in BOOLEAN
    /\ MaxFaults \in Nat
    /\ MaxFence \in Nat
    /\ Advancers \cap Consumers = {}
    /\ Advancers \cap Sweepers = {}
    /\ Consumers \cap Sweepers = {}

Workers == Advancers \cup Consumers \cup Sweepers

VARIABLES
    run,            \* the fold of the run's log (RunState)
    resting,        \* the steps whose backoff has not elapsed
    lease,          \* step -> the claim at its lease key; fence 0: no key
    renewed,        \* step -> the renewal at its renewal key; fence 0: no key
    lastFence,      \* the lease bucket's last revision
    outbox,         \* the dispatches owed to the bus
    queue,          \* the dispatches an engine may fetch
    job,            \* engine -> what it is doing, with which dispatch
    statuses,       \* the terminal reports not yet acknowledged by a plane
    work,           \* worker -> where it is and what it has read
    faults,         \* how many faults have happened
    dispatched,     \* history: every STEP_DISPATCHED committed
    started,        \* history: step -> how often an engine has started it
    everDone        \* history: the steps that have ever folded to succeeded

leases == <<lease, renewed, lastFence>>
bus == <<outbox, queue, job, statuses>>
history == <<dispatched, started, everDone>>
vars == <<run, resting, leases, bus, work, faults, history>>

------------------------------------------------------------------------------
Dispatches == [step : Steps, attempt : Nat, fence : Nat]
Ages == {"fresh", "stale", "abandoned"}
NoLease == [fence |-> 0, attempt |-> 0, age |-> "fresh"]
NoRenewal == [fence |-> 0, late |-> FALSE]
NoDispatch == [step |-> 0, attempt |-> 0, fence |-> 0]
FreeSlot == [phase |-> "free", d |-> NoDispatch]

Phases == {"free", "fetched", "granted", "running", "reported"}

Places == {"idle", "advance", "await", "fail", "complete",
           "dispatch", "reload", "begin", "commit",
           "statusLoad", "statusAppend",
           "surface", "withdraw", "orphanLoad", "orphanAppend"}

\* What a worker carries: the steps it found ready with the attempt each would
\* be, the blocked steps it still has to record, what follows them, the step,
\* attempt and fence in hand, and what the operation in hand was called from.
IdleWork == [pc |-> "idle", todo |-> {}, blocked |-> {}, next |-> "idle",
             d |-> NoDispatch, outcome |-> "none", aged |-> FALSE]

Work == [pc : Places, todo : SUBSET (Steps \X Nat), blocked : SUBSET Steps,
         next : {"idle", "advance", "dispatch", "fail", "complete"},
         d : Dispatches \cup {NoDispatch}, outcome : Verdicts, aged : BOOLEAN]

TypeOK ==
    /\ run \in RunStates
    /\ resting \subseteq Steps
    /\ lease \in [Steps -> [fence : Nat, attempt : Nat, age : Ages]]
    /\ renewed \in [Steps -> [fence : Nat, late : BOOLEAN]]
    /\ lastFence \in Nat
    /\ outbox \subseteq Dispatches /\ queue \subseteq Dispatches
    /\ job \in [Engines -> [phase : Phases, d : Dispatches \cup {NoDispatch}]]
    /\ \A e \in Engines : job[e].phase # "free" => job[e].d \in Dispatches
    /\ statuses \subseteq [d : Dispatches, outcome : Verdicts]
    /\ work \in [Workers -> Work]
    /\ faults \in Nat
    /\ dispatched \subseteq Dispatches
    /\ started \in [Steps -> Nat]
    /\ everDone \subseteq Steps

Init ==
    /\ \E revision \in Pipelines : run = NewRun(revision)
    /\ resting = {}
    /\ lease = [s \in Steps |-> NoLease]
    /\ renewed = [s \in Steps |-> NoRenewal]
    /\ lastFence = 0
    /\ outbox = {} /\ queue = {} /\ statuses = {}
    /\ job = [e \in Engines |-> FreeSlot]
    /\ work = [w \in Workers |-> IdleWork]
    /\ faults = 0
    /\ dispatched = {}
    /\ started = [s \in Steps |-> 0]
    /\ everDone = {}

------------------------------------------------------------------------------
(* Leases, as lease.Manager answers them. *)

Current(d) == lease[d.step].fence = d.fence

Held(s) == lease[s].fence # 0 /\ renewed[s].fence = lease[s].fence

\* The Put of a renewal, whatever the claim key holds by now.
PutRenewal(d) == renewed' = [renewed EXCEPT ![d.step] = [fence |-> d.fence, late |-> FALSE]]

Fault == faults < MaxFaults /\ faults' = faults + 1

------------------------------------------------------------------------------
(* Control of a worker. *)

At(w, place) == work[w].pc = place

Become(w, r) == work' = [work EXCEPT ![w] = r]

\* Go on with what is left of the ready steps, or finish.
NextStep(w) ==
    Become(w, [IdleWork EXCEPT !.pc = IF work[w].todo = {} THEN "idle" ELSE "dispatch",
                               !.todo = work[w].todo])

AdvanceAgain(w) == Become(w, [IdleWork EXCEPT !.pc = "advance"])

Append(r) ==
    /\ run' = r
    /\ everDone' = everDone \cup {s \in Steps : r.terminal[s] = "succeeded"}

------------------------------------------------------------------------------
(* Advance. *)

\* The replay and the plan made from it. A step is dispatched as the attempt
\* after the one in the replay.
AdvanceLoad(w) ==
    LET ready == Ready(run, resting)
        verdict == CASE ~Quiet(run) -> "dispatch"
                     [] Quiet(run) /\ Exhausted(run) # {} -> "fail"
                     [] Quiet(run) /\ Exhausted(run) = {} /\ Blocked(run) # {} -> "idle"
                     [] OTHER -> "complete"
        blocked == Blocked(run) \ run.awaiting
    IN
    /\ At(w, "advance") \/ (w \in Advancers /\ At(w, "idle"))
    /\ IF run.closed # "open"
       THEN Become(w, IdleWork)
       ELSE Become(w, [IdleWork EXCEPT
                !.pc = IF blocked # {} THEN "await"
                       ELSE IF verdict = "dispatch" /\ ready = {} THEN "idle" ELSE verdict,
                !.todo = {<<s, run.attempts[s] + 1>> : s \in ready},
                !.blocked = blocked,
                !.next = IF blocked # {} THEN verdict ELSE "idle"])
    /\ UNCHANGED <<run, resting, leases, bus, faults, history>>

\* recordAwaitingReplay, one blocked step at a time.
RecordAwaiting(w) ==
    /\ At(w, "await")
    /\ \E s \in work[w].blocked :
          LET left == work[w].blocked \ {s} IN
          /\ Append(FoldAwaiting(run, s))
          /\ IF left # {} THEN Become(w, [work[w] EXCEPT !.blocked = left])
             ELSE IF work[w].next = "dispatch" THEN NextStep(w)
             ELSE Become(w, [IdleWork EXCEPT !.pc = work[w].next])
    /\ UNCHANGED <<resting, leases, bus, faults, dispatched, started>>

\* complete and fail.
CloseRun(w) ==
    /\ At(w, "complete") \/ At(w, "fail")
    /\ Append(FoldClosed(run, IF At(w, "complete") THEN "completed" ELSE "failed"))
    /\ Become(w, IdleWork)
    /\ UNCHANGED <<resting, leases, bus, faults, dispatched, started>>

------------------------------------------------------------------------------
(* dispatch, for the ready steps in the order of their ids. *)

\* Mutant: an offer for the attempt the key carries goes through.
DispatchOfferAgain(w) ==
    LET pick == CHOOSE t \in work[w].todo : \A u \in work[w].todo : t[1] <= u[1]
        s == pick[1]
    IN
    /\ At(w, "dispatch") /\ lastFence < MaxFence
    /\ lastFence' = lastFence + 1
    /\ lease' = [lease EXCEPT ![s] =
                    [fence |-> lastFence + 1, attempt |-> pick[2], age |-> "fresh"]]
    /\ Become(w, [work[w] EXCEPT !.pc = "reload", !.todo = @ \ {pick},
                  !.d = [step |-> s, attempt |-> pick[2], fence |-> lastFence + 1]])
    /\ UNCHANGED <<run, resting, renewed, bus, faults, history>>

\* Offer: refused when the key carries this attempt or a later one.
DispatchOffer(w) ==
    LET pick == CHOOSE t \in work[w].todo : \A u \in work[w].todo : t[1] <= u[1]
        s == pick[1]
        a == pick[2]
        rest == [work[w] EXCEPT !.todo = @ \ {pick}]
    IN
    /\ At(w, "dispatch")
    /\ IF lease[s].fence # 0 /\ lease[s].attempt >= a
       THEN /\ Become(w, IF rest.todo = {} THEN IdleWork ELSE rest)
            /\ UNCHANGED <<lease, lastFence>>
       ELSE /\ lastFence < MaxFence
            /\ lastFence' = lastFence + 1
            /\ lease' = [lease EXCEPT ![s] =
                            [fence |-> lastFence + 1, attempt |-> a, age |-> "fresh"]]
            /\ Become(w, [rest EXCEPT !.pc = "reload",
                          !.d = [step |-> s, attempt |-> a, fence |-> lastFence + 1]])
    /\ UNCHANGED <<run, resting, renewed, bus, faults, history>>

\* The log read again after the offer. An attempt dispatched meanwhile under an
\* older fence is recorded as lost (recordFencedOut). An at-most-once step
\* proves its lease here; a fence that has moved never comes back.
DispatchReload(w) ==
    LET d == work[w].d
        s == d.step
        sent == run.fences[s]
    IN
    /\ At(w, "reload")
    /\ CASE run.attempts[s] >= d.attempt /\ sent # 0 /\ sent < d.fence ->
              Become(w, [work[w] EXCEPT !.pc = "orphanLoad", !.next = "dispatch",
                         !.d = [step |-> s, attempt |-> run.attempts[s], fence |-> sent]])
         [] run.attempts[s] >= d.attempt /\ ~(sent # 0 /\ sent < d.fence) -> NextStep(w)
         [] run.attempts[s] < d.attempt /\ s \notin Repeatable /\ ~Current(d) -> NextStep(w)
         [] OTHER -> Become(w, [work[w] EXCEPT !.pc = "begin"])
    /\ UNCHANGED <<run, resting, leases, bus, faults, history>>

\* Inside the transaction: an offer older than half of offerGrace is abandoned,
\* and Validate comes last.
DispatchBegin(w) ==
    LET d == work[w].d IN
    /\ At(w, "begin")
    /\ IF Current(d) /\ lease[d.step].age = "fresh"
       THEN Become(w, [work[w] EXCEPT !.pc = "commit"])
       ELSE NextStep(w)
    /\ UNCHANGED <<run, resting, leases, bus, faults, history>>

\* The transaction commits: the event and the outbox row, together.
DispatchCommit(w) ==
    LET d == work[w].d IN
    /\ At(w, "commit")
    /\ Append(FoldDispatched(run, d.step, d.attempt, d.fence))
    /\ resting' = IF d.step \in run.failedAt THEN resting \cup {d.step} ELSE resting
    /\ outbox' = outbox \cup {d}
    /\ dispatched' = dispatched \cup {d}
    /\ NextStep(w)
    /\ UNCHANGED <<leases, queue, job, statuses, faults, started>>

------------------------------------------------------------------------------
(* OnStatus, for a terminal phase. *)

\* Validate: a report whose fence is not current is discarded.
StatusValidate(w, m) ==
    /\ w \in Consumers /\ At(w, "idle")
    /\ m \in statuses
    /\ IF Current(m.d)
       THEN /\ Become(w, [IdleWork EXCEPT !.pc = "statusLoad", !.d = m.d, !.outcome = m.outcome])
            /\ UNCHANGED statuses
       ELSE /\ statuses' = statuses \ {m}
            /\ UNCHANGED work
    /\ UNCHANGED <<run, resting, leases, outbox, queue, job, faults, history>>

\* A step that already has a verdict keeps it, and the run is advanced.
StatusLoad(w) ==
    LET m == [d |-> work[w].d, outcome |-> work[w].outcome] IN
    /\ At(w, "statusLoad")
    /\ IF run.terminal[m.d.step] # "none"
       THEN AdvanceAgain(w) /\ statuses' = statuses \ {m}
       ELSE Become(w, [work[w] EXCEPT !.pc = "statusAppend"]) /\ UNCHANGED statuses
    /\ UNCHANGED <<run, resting, leases, outbox, queue, job, faults, history>>

\* The verdict is appended. The report is acknowledged only once the whole
\* handler returns, so it may come again.
StatusAppend(w) ==
    LET d == work[w].d
        m == [d |-> d, outcome |-> work[w].outcome]
    IN
    /\ At(w, "statusAppend")
    /\ IF m.outcome = "succeeded"
       THEN Append(FoldSucceeded(run, d.step)) /\ UNCHANGED resting
       ELSE Append(FoldFailed(run, d.step)) /\ resting' = resting \cup {d.step}
    /\ \/ statuses' = statuses \ {m} /\ UNCHANGED faults
       \/ Fault /\ UNCHANGED statuses
    /\ AdvanceAgain(w)
    /\ UNCHANGED <<leases, outbox, queue, job, dispatched, started>>

------------------------------------------------------------------------------
(* SweepOrphans: Expire and recordOrphan, then surfaceStranded. *)

\* Expire deletes a lease whose holder let it lapse, and its renewal.
Expire(w, s) ==
    /\ w \in Sweepers /\ At(w, "idle")
    /\ Held(s) /\ renewed[s].late
    /\ lease' = [lease EXCEPT ![s] = NoLease]
    /\ renewed' = [renewed EXCEPT ![s] = NoRenewal]
    /\ Become(w, [IdleWork EXCEPT !.pc = "orphanLoad", !.next = "idle",
                  !.d = [step |-> s, attempt |-> lease[s].attempt, fence |-> lease[s].fence]])
    /\ UNCHANGED <<run, resting, lastFence, bus, faults, history>>

\* Mutant: the attempt in the log counts as superseded.
OrphanLoadSkips(w) ==
    LET d == work[w].d IN
    /\ At(w, "orphanLoad")
    /\ IF run.attempts[d.step] >= d.attempt
       THEN Become(w, IdleWork)
       ELSE Become(w, [work[w] EXCEPT !.pc = "orphanAppend"])
    /\ UNCHANGED <<run, resting, leases, bus, faults, history>>

\* recordOrphan's guards: a closed run, a step with a verdict and a superseded
\* attempt are left alone.
OrphanLoad(w) ==
    LET d == work[w].d IN
    /\ At(w, "orphanLoad")
    /\ IF run.closed # "open" \/ run.terminal[d.step] # "none" \/ run.attempts[d.step] # d.attempt
       THEN IF work[w].next = "dispatch" THEN NextStep(w)
            ELSE Become(w, [IdleWork EXCEPT !.pc = work[w].next])
       ELSE Become(w, [work[w] EXCEPT !.pc = "orphanAppend"])
    /\ UNCHANGED <<run, resting, leases, bus, faults, history>>

\* STEP_ATTEMPT_LOST. A sweep then advances the run; recordFencedOut inside a
\* dispatch goes on with the next ready step.
OrphanAppend(w) ==
    LET d == work[w].d IN
    /\ At(w, "orphanAppend")
    /\ Append(FoldLost(run, d.step, d.attempt))
    /\ IF work[w].next = "dispatch" THEN NextStep(w) ELSE AdvanceAgain(w)
    /\ UNCHANGED <<resting, leases, bus, faults, dispatched, started>>

\* surfaceOne takes an unaccepted offer, and its age before the log is read.
Surface(w, s) ==
    /\ w \in Sweepers /\ At(w, "idle")
    /\ lease[s].fence # 0 /\ ~Held(s)
    /\ Become(w, [IdleWork EXCEPT !.pc = "surface", !.aged = (lease[s].age = "abandoned"),
                  !.d = [step |-> s, attempt |-> lease[s].attempt, fence |-> lease[s].fence]])
    /\ UNCHANGED <<run, resting, leases, bus, faults, history>>

\* Mutant: an offer whose dispatch never reached the log is left standing.
SurfaceLoadNever(w) ==
    /\ At(w, "surface")
    /\ Become(w, IdleWork)
    /\ UNCHANGED <<run, resting, leases, bus, faults, history>>

SurfaceLoad(w) ==
    LET d == work[w].d
        s == d.step
        sent == run.fences[s]
    IN
    /\ At(w, "surface")
    /\ CASE run.attempts[s] < d.attempt ->
              Become(w, IF work[w].aged /\ Current(d) /\ ~Held(s)
                        THEN [work[w] EXCEPT !.pc = "withdraw"] ELSE IdleWork)
         [] /\ run.attempts[s] = d.attempt /\ run.closed = "open" /\ run.terminal[s] = "none"
            /\ sent # 0 /\ sent < d.fence ->
              Become(w, [IdleWork EXCEPT !.pc = "orphanLoad", !.next = "advance",
                         !.d = [step |-> s, attempt |-> run.attempts[s], fence |-> sent]])
         [] OTHER -> Become(w, IdleWork)
    /\ UNCHANGED <<run, resting, leases, bus, faults, history>>

\* The delete of Withdraw, at the revision it was checked at; then Advance.
WithdrawAbandoned(w) ==
    LET d == work[w].d IN
    /\ At(w, "withdraw")
    /\ IF Current(d)
       THEN lease' = [lease EXCEPT ![d.step] = NoLease] /\ AdvanceAgain(w)
       ELSE UNCHANGED lease /\ Become(w, IdleWork)
    /\ UNCHANGED <<run, resting, renewed, lastFence, bus, faults, history>>

------------------------------------------------------------------------------
(* The outbox and the engines. *)

\* Mutant: a row is marked sent before its publish, which may then fail.
DrainMarksFirst(d) ==
    /\ d \in outbox
    /\ outbox' = outbox \ {d}
    /\ \/ queue' = queue \cup {d} /\ UNCHANGED faults
       \/ Fault /\ UNCHANGED queue
    /\ UNCHANGED <<run, resting, leases, job, statuses, work, history>>

\* Drain publishes a row and marks it sent, or publishes it and loses the
\* transaction that would have marked it.
Drain(d) ==
    /\ d \in outbox
    /\ queue' = queue \cup {d}
    /\ \/ outbox' = outbox \ {d} /\ UNCHANGED faults
       \/ Fault /\ UNCHANGED outbox
    /\ UNCHANGED <<run, resting, leases, job, statuses, work, history>>

Fetch(e, d) ==
    /\ job[e].phase = "free" /\ d \in queue
    /\ queue' = queue \ {d}
    /\ job' = [job EXCEPT ![e] = [phase |-> "fetched", d |-> d]]
    /\ UNCHANGED <<run, resting, leases, outbox, statuses, work, faults, history>>

\* The engine asks and Accept reads the lease. FENCED: the dispatch is
\* acknowledged and never started.
Ask(e) ==
    /\ job[e].phase = "fetched"
    /\ job' = [job EXCEPT ![e] = IF Current(@.d) THEN [@ EXCEPT !.phase = "granted"] ELSE FreeSlot]
    /\ UNCHANGED <<run, resting, leases, outbox, queue, statuses, work, faults, history>>

\* CURRENT: the renewal is written, the answer arrives, the step starts.
Start(e) ==
    LET d == job[e].d IN
    /\ job[e].phase = "granted"
    /\ PutRenewal(d)
    /\ job' = [job EXCEPT ![e].phase = "running"]
    /\ started' = [started EXCEPT ![d.step] = @ + 1]
    /\ UNCHANGED <<run, resting, lease, lastFence, outbox, queue, statuses, work, faults,
                   dispatched, everDone>>

\* No answer in time: a repeatable step starts anyway, any other goes back to
\* the queue. The plane may or may not have written the renewal.
NoAnswer(e) ==
    LET d == job[e].d IN
    /\ job[e].phase \in {"fetched", "granted"}
    /\ Fault
    /\ IF job[e].phase = "granted" THEN PutRenewal(d) ELSE UNCHANGED renewed
    /\ IF d.step \in Repeatable
       THEN /\ job' = [job EXCEPT ![e].phase = "running"]
            /\ started' = [started EXCEPT ![d.step] = @ + 1]
            /\ UNCHANGED queue
       ELSE /\ job' = [job EXCEPT ![e] = FreeSlot]
            /\ queue' = queue \cup {d}
            /\ UNCHANGED started
    /\ UNCHANGED <<run, resting, lease, lastFence, outbox, statuses, work, dispatched, everDone>>

\* A heartbeat, or the ACCEPTED status, renews the lease of a running job.
Heartbeat(e) ==
    LET d == job[e].d IN
    /\ job[e].phase = "running" /\ Current(d)
    /\ renewed[d.step] # [fence |-> d.fence, late |-> FALSE]
    /\ PutRenewal(d)
    /\ UNCHANGED <<run, resting, lease, lastFence, bus, work, faults, history>>

\* A heartbeat under a superseded fence is answered with a Cancel, and the
\* CANCELLED report of that fence is discarded.
FenceOut(e) ==
    /\ job[e].phase = "running" /\ ~Current(job[e].d)
    /\ job' = [job EXCEPT ![e].phase = "reported"]
    /\ UNCHANGED <<run, resting, leases, outbox, queue, statuses, work, faults, history>>

\* The terminal status goes out before the dispatch is acknowledged.
Finish(e, outcome) ==
    /\ job[e].phase = "running"
    /\ statuses' = statuses \cup {[d |-> job[e].d, outcome |-> outcome]}
    /\ job' = [job EXCEPT ![e].phase = "reported"]
    /\ UNCHANGED <<run, resting, leases, outbox, queue, work, faults, history>>

Ack(e) ==
    /\ job[e].phase = "reported"
    /\ job' = [job EXCEPT ![e] = FreeSlot]
    /\ UNCHANGED <<run, resting, leases, outbox, queue, statuses, work, faults, history>>

\* The engine dies, its publish fails or its ack is lost: the queue delivers
\* the dispatch again once the ack wait has passed.
Redeliver(e) ==
    /\ job[e].phase # "free"
    /\ Fault
    /\ queue' = queue \cup {job[e].d}
    /\ job' = [job EXCEPT ![e] = FreeSlot]
    /\ UNCHANGED <<run, resting, leases, outbox, statuses, work, history>>

------------------------------------------------------------------------------
(* Time, and planes that die. *)

Running(s, f) ==
    \E e \in Engines : job[e].phase = "running" /\ job[e].d.step = s /\ job[e].d.fence = f

\* The heartbeat window of a held lease passes. While an engine runs the step
\* that takes several missed heartbeats.
Lapse(s) ==
    /\ Held(s) /\ ~renewed[s].late
    /\ renewed' = [renewed EXCEPT ![s].late = TRUE]
    /\ IF Running(s, lease[s].fence) THEN Fault ELSE UNCHANGED faults
    /\ UNCHANGED <<run, resting, lease, lastFence, bus, work, history>>

UnderDispatch(s, places) ==
    \E w \in Workers : work[w].pc \in places /\ work[w].d.step = s /\ work[w].d.fence = lease[s].fence

\* An offer whose dispatch is not in the log passes half of offerGrace, then
\* all of it. A dispatch that slow is a fault, and one that begins to commit in
\* time also commits in time unless SlowCommits.
Age(s) ==
    /\ lease[s].attempt > run.attempts[s] /\ lease[s].age # "abandoned"
    /\ lease' = [lease EXCEPT ![s].age = IF @ = "fresh" THEN "stale" ELSE "abandoned"]
    /\ lease[s].age = "stale" => SlowCommits \/ ~UnderDispatch(s, {"commit"})
    /\ IF UnderDispatch(s, {"reload", "begin", "commit"}) THEN Fault ELSE UNCHANGED faults
    /\ UNCHANGED <<run, resting, renewed, lastFence, bus, work, history>>

Elapse(s) ==
    /\ s \in resting
    /\ resting' = resting \ {s}
    /\ UNCHANGED <<run, leases, bus, work, faults, history>>

\* A sweeper between deleting a lease and recording the attempt it was for.
HoldsOrphan(w) == work[w].pc \in {"orphanLoad", "orphanAppend"} /\ work[w].next = "idle"

\* The plane dies, or an error ends the call. An open transaction rolls back.
Die(w) ==
    /\ ~At(w, "idle")
    /\ SweepsSurvive => ~HoldsOrphan(w)
    /\ Fault
    /\ Become(w, IdleWork)
    /\ UNCHANGED <<run, resting, leases, bus, history>>

------------------------------------------------------------------------------
\* One worker going on with what it is doing.
Continue(w) ==
    \/ AdvanceLoad(w) \/ RecordAwaiting(w) \/ CloseRun(w)
    \/ DispatchOffer(w) \/ DispatchReload(w) \/ DispatchBegin(w) \/ DispatchCommit(w)
    \/ StatusLoad(w) \/ StatusAppend(w)
    \/ OrphanLoad(w) \/ OrphanAppend(w) \/ SurfaceLoad(w) \/ WithdrawAbandoned(w)

Begin(w) ==
    \/ \E m \in statuses : StatusValidate(w, m)
    \/ \E s \in Steps : Expire(w, s) \/ Surface(w, s)

EngineStep(e) ==
    \/ \E d \in queue : Fetch(e, d)
    \/ Ask(e) \/ Start(e) \/ Heartbeat(e) \/ FenceOut(e) \/ Ack(e)
    \/ \E o \in {"succeeded", "failed"} : Finish(e, o)

Next ==
    \/ \E w \in Workers : Continue(w) \/ Begin(w) \/ Die(w)
    \/ \E d \in outbox : Drain(d)
    \/ \E e \in Engines : EngineStep(e) \/ NoAnswer(e) \/ Redeliver(e)
    \/ \E s \in Steps : Lapse(s) \/ Age(s) \/ Elapse(s)

Spec == Init /\ [][Next]_vars

\* Every goroutine and every engine keeps going, a sweep looks at every lease,
\* the outbox is drained and time passes.
Fairness ==
    /\ \A w \in Workers : WF_vars(Continue(w))
    /\ \A w \in Consumers : WF_vars(Begin(w))
    /\ \A w \in Sweepers : /\ SF_vars(\E s \in Steps : Expire(w, s))
                           /\ SF_vars(\E s \in Steps : Surface(w, s))
    /\ WF_vars(\E d \in outbox : Drain(d))
    /\ \A e \in Engines : WF_vars(EngineStep(e))
    /\ WF_vars(\E s \in Steps : Lapse(s))
    /\ WF_vars(\E s \in Steps : Age(s))
    /\ WF_vars(\E s \in Steps : Elapse(s))

FairSpec == Spec /\ Fairness

------------------------------------------------------------------------------
(* Properties. *)

(***************************************************************************)
(* An attempt of a step is dispatched once: however many goroutines find a *)
(* step ready, at most one STEP_DISPATCHED commits for each attempt. Only  *)
(* the offer and the fence check stand between two Advances that replayed  *)
(* the same log (dispatch). Assumes commits that begin in time end in time.*)
(***************************************************************************)
OneDispatchPerAttempt ==
    \A d, e \in dispatched : d.step = e.step /\ d.attempt = e.attempt => d = e

(***************************************************************************)
(* No step is dispatched more often than its effect class allows, over     *)
(* every retry, lost attempt, withdrawn offer and stale plan: an           *)
(* at-most-once step once, a repeatable one MaxTries times (classify).     *)
(***************************************************************************)
NeverOverDispatched ==
    /\ OneDispatchPerAttempt
    /\ \A s \in Steps : Cardinality({d \in dispatched : d.step = s}) <= MaxAttempts(s)

(***************************************************************************)
(* A run is closed as what it was: completed only when every step has      *)
(* succeeded at some time, failed only when a repeatable step has used up  *)
(* its attempts, although both are decided on a replay that may be old by  *)
(* the time RUN_COMPLETED or RUN_FAILED is appended (Advance).             *)
(***************************************************************************)
ClosedHonestly ==
    /\ run.closed = "completed" => everDone = run.pinned
    /\ run.closed = "failed" => \E s \in Repeatable : run.attempts[s] = MaxTries

InSomebodysHands(d) ==
    \/ d \in outbox \/ d \in queue
    \/ \E e \in Engines : job[e].phase # "free" /\ job[e].d = d
    \/ \E m \in statuses : m.d = d

(***************************************************************************)
(* A dispatch the run waits for is never lost: while its fence is current  *)
(* and it has no verdict it is owed by the outbox, on the queue, with an   *)
(* engine, or its report is still to be applied. The outbox row commits    *)
(* with the event, is marked sent after the publish, and an engine         *)
(* acknowledges after it has reported (dispatch, Outbox.Drain, handle).    *)
(***************************************************************************)
NoDispatchLost ==
    \A d \in dispatched :
        (Current(d) /\ run.attempts[d.step] = d.attempt /\ run.terminal[d.step] = "none")
            => InSomebodysHands(d)

Recording(s) ==
    \E w \in Workers :
        /\ work[w].pc \in {"orphanLoad", "orphanAppend"}
        /\ work[w].d.step = s /\ work[w].d.attempt = run.attempts[s]

(***************************************************************************)
(* A step in flight is covered: the fence its engine reports under is the  *)
(* current lease, or somebody is about to record the attempt as lost.      *)
(* Nothing else would ever bring the step out of flight, since plan counts *)
(* it as running and a report under any other fence is discarded.          *)
(***************************************************************************)
InFlightIsCovered ==
    run.closed = "open" =>
        \A s \in InFlight(run) : lease[s].fence = run.fences[s] \/ Recording(s)

Settled ==
    \/ run.closed # "open"
    \/ Quiet(run) /\ Blocked(run) # {} /\ Blocked(run) \subseteq run.awaiting

(***************************************************************************)
(* Every run ends, or stops at a step that only a person may repeat and    *)
(* says so in the log, whatever engines die and messages are lost.         *)
(***************************************************************************)
RunSettles == <>[]Settled

(***************************************************************************)
(* What recordOrphan's comment says: a step that has finished is never     *)
(* failed by the sweep of the lease it left behind. The verdict is checked *)
(* in a replay and written later, and a success may be appended between.   *)
(***************************************************************************)
FinishedNeverLost ==
    [][\A s \in Steps : run.terminal[s] = "succeeded" => run'.terminal[s] # "failed"]_vars

(***************************************************************************)
(* What effects.go says of AT_MOST_ONCE: the step's work is never begun a  *)
(* second time without a person. A redelivered dispatch carries the same   *)
(* fence, and Accept answers CURRENT to it while the lease still stands.   *)
(***************************************************************************)
AtMostOnceStarted == \A s \in Steps \ Repeatable : started[s] <= 1
==============================================================================
