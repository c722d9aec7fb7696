# Dhole in TLA+

Dhole is a CI/CD system: control planes advance runs over an append-only log,
engines pull work from a bus and report back, and everything that must survive
a dead process is in the log, in key-value buckets or in a content-addressed
store. This directory models the parts of it that are hard to test, checks
them with TLC on small instances and proves what it can for all of them with
TLAPS.

## The system

| Part | State it keeps | Operations | Interacts with |
| --- | --- | --- | --- |
| step leases (`internal/lease`) | two keys per step: the claim, whose bucket revision is the fence, and the renewal | Claim, Offer, Renew, Expire, Withdraw, Validate | scheduler, hosted steps, sweeper |
| run log (`runstore`) | events of a run, in order; unique indexes for one-time events | Append, Replay, WithTx | everything; the outbox shares its transactions |
| scheduler (`scheduler`) | none of its own: folds the log on every pass | Advance, dispatch, OnStatus, Accept, SweepOrphans | log, leases, outbox, cache, policy, secrets |
| effect classes (`effects`) | none | RetryPolicy, AllowsRetry, Backoff | scheduler |
| outbox and bus (`outbox`, `bus`) | rows owed, messages on a work queue | Drain, publish, fetch, ack, redeliver | log, engines |
| engine agent (`engine`) | pumps, room, slots, deliveries in hand | fetch, ask for acceptance, run, cancel, report, ack, drain | bus, executors, registry |
| executors (`executor`) | sandboxes, process trees, a pool of warm sandboxes | Acquire, Put, Run, Terminate, Release | engine agent |
| registry and wire (`registry`, `wire`) | one record per engine, with a TTL | Register, Heartbeat, Drain, Instances, NegotiateAgainst | matcher, cache key, API |
| control plane (`server`) | goroutines: advance tick, status consumer, sweeper | the loops above; heartbeats renew leases | scheduler, leases |
| partitions (`server/partition.go`) | membership and ownership keys | ClaimPartitions, Owns | planes |
| triggers (`trigger`, `server/triggers.go`) | the triggers table, a row per schedule, live triggers of a plane | poll, deliver, reconcile, sink | API, definitions, runs |
| hosted steps (`server/builtins.go`, `server/agent.go`) | an in-memory queue and the set of steps taken | Take, attempt, renew, terminal, park, resume | log, leases, gates, graph |
| model and agent steps (`steps/llm`, `steps/agent`) | `llm_calls`, park records | Run, Record, giveUp, invoke, park, Resume | hosted steps, API contract |
| waits (`wait`, `steps/gate`, `scheduler/gate.go`) | `run_timers` | Arm, Due | log |
| approvals (`steps/approval`) | events in the log | Request, RequestPark, Decide | log, API, agents |
| loops and generators (`steps/loop`, `dynamic`) | fragments recorded in the log | iterate, Realise, Splice | log, the run's graph |
| content store and collector (`cas`) | blobs; `blob_refs`, `definition_blobs` | Put, Reference, Collect | cache, API, runs, ledger |
| step cache (`cache`) | `cache_entries` | Key, Eligible, Lookup, record | scheduler, registry, collector |
| definitions and API (`defstore`, `api`) | revisions, heads | CreatePipeline, ApplyOperation, Approve, StartRun, PlanRun, Validate | content store, catalog, log |
| graph and catalog (`dag`, `catalog`) | published manifests | Build, TopoLevels, TypeCheck, FileInputs, Publish, Resolve | definitions, scheduler |
| admission, quotas, fairness, ledger (`scheduler/admission.go`, `budget.go`, `fairness.go`, `tenancy`) | slots, queues, usage events | admit, queue, hold, release, charge, credit | scheduler, content store |
| secrets, policy, taint | handles, rules, marks | issue, redeem, revoke, permit, sanitise | dispatch |
| plugins, importers, identity, mirror, web, CLI | documents | | engines and users |

`PROJECT.json` lists every component with what is modelled of it.

What is hard about this code is what happens between two steps of one
function. Every goroutine of every plane replays the log, decides, and writes
later; leases, claims and handles are compare-and-set operations over buckets
that other planes write too; a message may come again; a process may stop
anywhere; and a lease may be swept under a process that is alive. The
correctness of each part is a statement about those interleavings:

* leases: one holder per attempt, fenced for good, an orphan handed over once;
* scheduler: one dispatch per attempt, none lost, no step repeated beyond its
  effect class, every run ends;
* engines: a dispatch is in one engine at a time, a full engine takes nothing,
  an ended step leaves nothing running, a sandbox is one step's;
* storage: what the cache serves is what running would have written, what a
  revision or a run points at is there, what is stored is accounted for;
* hosted steps: waits hold, decisions stand, a body runs once per attempt and
  its verdict is about that attempt; an agent does what was decided, within its
  ceiling, and a model's calls are on record;
* admission: no pipeline is over its budget, no slot is given away under a step
  in flight or kept for one that is over, and a step marked as queued is queued;
* dispatch: nothing with an effect goes out on untrusted data, a secret handle
  is redeemed once, dies with its run and lives as long as its dispatch;
* definitions: no edit is lost, none lands on what its author has not seen, an
  undo undoes, a run was reviewed by a second person; a plan predicts the run;
* planes: a partition has one owner and the ring settles; a missed schedule
  window fires once, and a deleted trigger starts nothing.

The hazards behind these statements are listed, each at its line, in
`PROJECT.json`.

## Modules

| Module | Models | Builds on |
| --- | --- | --- |
| `Fencing` | what a lease manager promises (`lease.Manager`): an atomic table of grants | |
| `Lease` | `lease/kv.go`: each Get, Create, Update, Put and Delete of each call | implements `Fencing` |
| `LeaseInv`, `LeaseProofs` | the inductive invariant and the proofs | `Lease`, `Fencing` |
| `RunState` | the fold of the log and the classification of steps that `plan` makes from it | |
| `Scheduler` | Advance, dispatch, OnStatus, Accept, the sweeper, the outbox, the queue, the engines | `RunState`; lease operations as the single steps `Lease` shows them to be |
| `Builtins` | the steps a plane hosts: timers, approvals, model calls, agents, loops | `RunState` |
| `Bodies` | what a model step and an agent step do between dispatch and verdict | the dispatch and gate of `Builtins`, as one step each |
| `Storage` | the content store, the collector, definition files, the step cache, the fleet's identity, the byte ledger | |
| `FairQueue` | the weighted round-robin of `scheduler/fairness.go` as functions of a queue | |
| `Admission` | `scheduler/admission.go`, `budget.go`, and `AdmitRun` and `AdmitStep` of `tenancy/quota.go` | `FairQueue`; dispatch as one commit |
| `Partitions` | the ring of `server/partition.go`, every read and write of a pass | |
| `Triggers` | the triggers table, schedules, webhooks, reconciliation, the sink | |
| `Operations` | the edits of `api/operations.go` and what an edit touches, as functions of a definition | |
| `Dag` | what is computed from a definition: order, types, files, inputs, cache keys, plan, validation, catalog | |
| `Definitions` | revisions, heads, lockfiles, approval and the start of runs | `Operations` |
| `Sandboxes` | the five executors, the process tree and the pool, as functions of a sandbox | |
| `Engine` | the agent: pumps, room, slots, deliveries, attempts | `Sandboxes` |
| `Registry` | the registry's record transitions and wire versions | |
| `Policy` | matching, taint, the rules and provenance | `Registry` |
| `Gate` | a ready step's way through a pass: permit, offer, secrets, commit; the handles' life | `Policy` |
| `SchedulerProofs`, `GateProofs`, `StorageProofs`, `BuiltinsProofs`, `EngineProofs` | the inductive invariant of the module each is named for, and the proofs | that module |
| `ControlPlaneProofs` | the same for what the planes of a deployment share | `Triggers`, `Partitions`, `Admission` |
| `ServiceProofs` | the same for the API's edits and for the bodies of hosted steps | `Definitions`, `Bodies` |
| `MC*` | instances for TLC | |

### Lease

`claim` and `renewal` are the two keys of a step; `rev` is the bucket's
revision, which every write and delete advances, so a fence is never used
twice. A caller (`pc`, `arg`) is a goroutine inside one call and carries what
it read. `TakeGet`/`TakeWrite`/`TakeLost` are `take` with its bounded retry of
a lost compare-and-set, `RenewGet`/`RenewPut` are `Renew`, whose Put is
unconditional, `ExpireGet`/`ExpireRenewal`/`ExpireDelete`/`ExpireClear` are
`Expire` and `expireOne`, `Withdraw*` are `Withdraw`. A caller may stop at any
point. `HasHolder` and `Deadline` are the code's `deadline`: an offer counts as
held only by a renewal of its own fence.

### RunState, Scheduler

`run` is what `load` folds the log into; `FoldX` is the fold of one event, and
`Ready`, `Retrying`, `Blocked`, `Exhausted` are what `plan` and `classify` make
of it. A worker is a goroutine: the open-run tick (`Advancers`), the status
consumer and the sweeper. Its record `work[w]` holds the replay it planned
from, the fence it validated or the offer it made, and each later step uses
that copy. An action stands for the code from one read or write of shared state
to the next. A dispatch commits (event, outbox row and fence check) in one
step; `Drain` publishes and marks, and may publish without marking; an engine
fetches, asks for acceptance, starts, heartbeats, reports and acknowledges,
and the bus redelivers what is not acknowledged.

### Builtins, Bodies

A plane has one advancing pass, a job per step it has taken and a sweeper.
`Take` queues a job (the queue is shared with other runs, so it may refuse);
`Claim`, `Reread`, `Dispatch` are `attempt`; the body is `CallModel`, the
agent's `RunAgent`, `ResumeAgent`, `AgentEnds`, `Park`, `AskPark`, or the loop
controller's `Iterate`, `Realise`, `RecordFragment`; `End` is the verdict under
the fence, and a model step that gives up writes its own. `Arm` and `Due` are
the timer; `DecideRead`, `DecideRecord` are a person. `Known` is the graph of
the run: the pinned steps and every fragment in the log. Steps on engines are
dispatched and reported in one step here, since `Scheduler` has them in detail.

`Bodies` opens the bodies up. One step of one run; body `b` runs attempt `b` and
may go on beside the one that replaced it. A model step calls, judges the
answer, records the call under the next number and gives up at its bounds; an
agent takes turns, each a model call that answers, fails or asks for a batch of
contract calls, and a batch with a call that needs approval parks whole. The
agent SDK and the model are external.

### Storage

One tenant's blobs and the tables that point at them. A run looks its step
up, references the hit, records it, or executes, produces, reports and records
an entry under a key computed again; an editor uploads a file, records it,
checks it and saves a revision; every Put goes through the quota gate (read the
total, write the bytes, charge); the collector lists runs, classifies each by
age, opens its transaction, deletes blobs one by one, commits or rolls back,
and credits what it deleted.

### Admission, FairQueue

A worker is a goroutine of a plane inside Advance, OnStatus or the sweeper.
`OpenRunTick` and `Plan` are Advance's replay, `EnqueueReady` is `enqueueReady` with
its mark in `pending`, `Drain` takes a batch from the queue, and `TakeItem`,
`CountInFlight`, `Acquire`, `Commit`, `Hold` are one item's way out: the log
again, the count of the tenant's keys, a Create for each budget index in turn,
the dispatch, and the hold. `ReleaseSlot` deletes a key at the revision the plane
last wrote. `Leave` and `ReleaseHold` are a verdict and what follows it, on this
plane; `LeaveElsewhere` is a verdict applied by a plane that holds nothing for
the step, which the shared status consumer makes ordinary. The bucket drops a
key nobody renews (`AgeOut`); a renewal that fails ends its goroutine
(`RenewFails`). Revisions are compared for equality only, so a new one is any
number nobody remembers. `covered` is the slot the attempt in flight was given,
until that slot ages out; `stranded` and `missed` name the two ways of going
wrong described under Findings, so that the properties say there is no third.

### Partitions

A plane announces itself, lists the members, reads every claim, gives back what
is beyond its share, renews what it keeps and takes what is free, one
revision-checked write at a time, and only then publishes its local view, which
is what `Owns` consults. Time is what a deadline has left; a plane that misses a
tick is a fault.

### Triggers

A row of the table is a version, because rows are created and deleted but never
edited. A plane starts what the table and its own file declare, reconciles the
difference and stops. A schedule claims an occurrence of its shared row (seed,
skip, take) and marks it busy until the fire returns; a delivery to a webhook
is read, mapped, identified and verified in the code's order. The sink resolves
the active revision, checks the values against it and submits, in two steps.

### Operations, Dag, Definitions

`Operations` is each edit as a function to the next definition and the inverse,
with the lists of a definition kept as lists, because their order is part of
the content hash. `Definitions` interleaves requests of several planes at
statement level, with the isolation PostgreSQL has by default: an edit reads
the head, rebases, applies, resolves the lockfile, saves, and moves the head by
compare-and-set; an approval demotes and promotes in one transaction that waits
for row locks. `Dag` holds the functions of a definition and the references
they are checked against: `OrderIsSound` (an order is found exactly when there
is one, and respects every edge; a cycle reported is a cycle), `PlanPredicts`
(a dry run says what the scheduler will serve and run), `KeyIsOfTheDispatch`
(the cache key is made of the digests the step is dispatched with) and
`CleanDispatches` (what validates without a diagnostic can be dispatched).

### Sandboxes, Engine

A pump per queue holds room, fetches and hands over; the room closes when the
slots are taken and reopens with one. A dispatch is held, given a slot, owned
once it was accepted, given a sandbox, its inputs, its command, its verdict and
its publication, after which the delivery is acknowledged. `Sandboxes` is, per
backend, what acquiring, copying, ending, vanishing and releasing can come to,
and the pool's `Manager` whole. The engine's backend is chosen in the initial
state, so one run covers the five.

### Registry, Policy, Gate

`Registry` has each message of an engine as a function from its record to its
record, since `modify` serialises them, and the wire versions. `Policy` has the
fleet matcher and its explanation, the taint of a step over every edge and the
decision of a tier's rules above the floor that no document can lower. `Gate`
runs passes against each other: a pass reads the log, permits, takes the offer,
issues a handle per declared secret, commits or discards; engines present
handles to any plane, which reads and deletes the record in two steps;
revocations follow the ends of attempts and runs, may fail, and are made good
by the sweep of closed runs. Engines register, prove themselves, drain and age
out, and the policy document is replaced, between any two steps.

## Runs

| Run | Instance | States | Checks |
| --- | --- | --- | --- |
| `lease` | 2 callers, 1 step, 2 attempts, 5 revisions, clock to 2 | 0.94 M | `OneLeasePerAttempt`, `OrphanHandedOnce`, `UnacceptedNeverOrphaned`, `FirstWindowHonoured`, and `ImplementsFencing`, the refinement |
| `core` | revisions of 1 step that repeats, with 2 tries, or does not; one worker of each kind, 1 engine, 1 fault, 5 fences | 0.63 M | `NeverOverDispatched`, `ClosedHonestly`, `NoDispatchLost`, `InFlightIsCovered`, and `RunSettles` under `FairSpec` |
| `storage` | 2 runs of 2 works, 2 environments, 1 editor, 1 upload, a quota of 2, 1 fault | 5.65 M | `ServedItsOwnWork`, `NamedIsReadable`, `StoredIsAccounted` |
| `hosted` | 2 planes, 1 person, 3 pipelines, 1 fault, 3 fences | 1.01 M | `WaitsHonoured`, `DecisionStands`, `OneBodyPerAttempt`, `VerdictOfItsAttempt` |
| `bodies` | model and agent steps that may and may not be repeated, 3 bodies, 4 batches, ceilings of 2 calls and 2 turns, 2 faults | 4.98 M | `StaysInBounds`, `CallsAreRecorded` |
| `admission` | 2 workers of a plane, 2 tenants, 3 steps, one with 2 tries, budgets and quotas of 1, 1 fault | 1.74 M | `BudgetHonoured`, `PendingAccounted`, `SlotsFollowFlight`, `DrainServesInTurn` |
| `partitions` | 2 planes, 3 partitions, a TTL of 2 ticks, 2 faults | 1.12 M | `OneOwner`, and `RingSettles` under `FairSpec` |
| `triggers` | 2 planes, a schedule, a webhook one of them declares, 2 revisions, clock to 3, 1 fault | 1.99 M | `ScheduleHonoured`, `RunsFitTheirRevision`, `DeletedStaysSilent` |
| `definitions` | 2 people, 12 operations on 2 steps, 2 edits, 2 approvals, 1 run, a tag that moves, 1 fault | 2.59 M | `NoEditLost`, `MergedUnseen`, `UndoRestoresContent`, `RunsWereReviewed` |
| `execution` | 2 engines of 1 and 2 slots on 2 queues, 3 dispatches of 2 tenants, each of the 5 backends, 1 fault | 1.38 M | `OneHolder`, `RoomIsOffered`, `CancelKillsTheTree`, `SandboxesSound` |
| `gate` | 2 passes, 1 run of 3 steps fed by a webhook, 2 engines, 2 handles, 2 policy documents, 1 fault | 1.88 M | `KeepsItsHandles`, `RedeemedOnce`, `HandlesDieInOneTick`, `NothingUntrustedActs` |
| `give_up` | as `hosted` | | `FailuresAreFenced` is violated; see Findings |

The functions have assumptions that TLC evaluates before the run that extends
their module. In `MCDefinitions`: `EveryOrder` (`OrderIsSound` on every graph
of three steps, loops included, and every subset of eight edges over four),
`EveryPlan` (`PlanPredicts` on every subset of seven edges over three typed
steps, with every cache and fleet listed) and `EveryDispatch`
(`CleanDispatches`, `KeyIsOfTheDispatch`). In `MCGate`: `RegistryHolds`
(`ReadyIsProven`, `DrainHolds`, `HeldIsListed` on every sequence of up to five
messages of an engine) and `VersionsAgree` (`EveryEngineReads` on every fleet
one version apart).

Bounds. Two callers are enough for every race on one lease key, because a race
is between one write and one other; two attempts let a fence be superseded and
come back; `MaxOfferRaces` is 2 in place of 8 so that giving up happens. In
`core` a single fault reaches each recovery path: the plane dies between any
two steps, an answer, an acknowledgement or heartbeats are lost, a commit is
slow; five fences allow an offer withdrawn on each of two attempts.
In `hosted` the pipelines are a wait and an approval before a model call, an
agent before an engine step, and a loop with the controller of its second pass;
three fences allow a claim swept and claimed again, or parked and resumed and
claimed once more. Three bodies let one be resumed after another was replaced.
In `storage` the two works differ in effect class only, a
file has the digest of a step's output, and the fleet rolls from one
environment to the other; the quota of 2 is reached. In `admission` two workers
reach every race for a key or a mark, budgets and quotas of 1 are the tightest,
the steps of two tenants meet in one queue, and a drain takes one or two of
them. The weights are the default 1 the server configures, so an interrupted
turn does not occur; the proofs are for any weights. In `partitions` three partitions over two planes make the
share uneven, so that a join takes one away; two faults are a stop and a late
plane, or both. In `triggers` a lease of two ticks and a clock of three let a
fire outlast its lease. In `definitions` two edits are what a race needs, and
the third revision is the rebase. In `execution` a slot of one fills with the
first dispatch, and the pool's limit is one. In `gate` the step that acts may be
tried twice, so a handle of a first attempt can be presented during the second.
Callers, workers, planes, passes, people and digests that are alike are
symmetric; no run with a liveness property uses symmetry.

Deadlock. `core` and `storage` are checked for it. Elsewhere the system really
may stop: a lease caller may idle, a run ends, the editors have edited.

Fairness. `Scheduler.FairSpec`: every loop of a plane is a ticker or a blocking
consumer, so a worker that can go on does (weak fairness of `Continue`, and of
`Begin` for the consumer). A sweep lists every lease on each tick, so a lease
that is expired again and again is swept (strong fairness of `Expire` and
`Surface`). The outbox is drained by a ticker, engines are live processes once
restarted, and time passes. `Partitions.FairSpec`: a plane's renewal ticker and
the pass it starts go on, and the clock does. Faults have no fairness, and there
are finitely many.

Assumptions that are constants, with what happens without them:

* `SlowCommits = FALSE`: a dispatch that begins to commit within half of
  `offerGrace` ends before all of it has passed. `dispatch` says it relies on
  this. `Builtins` treats `Validate` and the commit that follows as one step,
  which is the same assumption.
* `SweepsSurvive = TRUE`: a sweeper lives to record what it expired. With
  `FALSE`, `RunSettles` is violated.
* `LongPauses = FALSE`: no run or edit pauses for the whole retention window
  between two of its steps. With `TRUE`, `NamedIsReadable` is violated: the blob
  is collected between the reference and the success.
* `DrainedRollout = TRUE`: an engine leaves after its reports are applied. With
  `FALSE`, `ServedItsOwnWork` is violated, since the key of an entry is worked
  out when the result is recorded, from the fleet as it is then.
* `WriteLock = TRUE`: the collector's transaction holds SQLite's write lock.
  With `FALSE`, which is PostgreSQL, `NamedIsReadable` is violated.
* `SlowPeople = TRUE`: a person answers a gate after the passes and queued jobs
  that saw it shut are through. With `FALSE`, `DecisionStands` is violated.
* One person at a time. `Decide` reads and records in one transaction, which
  SQLite serialises; with two people in `People` the model shows the two
  transactions of PostgreSQL's default isolation, and `DecisionStands` is
  violated.
* `Elapse` of `Admission`: the backoff of a failed attempt, five seconds or
  more, outlasts the few instructions between a commit and its `hold` and
  between an append and its `releaseHold`.
* `Untrusted = {}` in `bodies`: what a served plane tells an agent.

## Proofs

The proofs are for every value of the constants: any number of planes, passes,
engines, runs, steps and faults, any graph, any TTL. Each module's last part
holds its theorems; before them come its inductive invariant, the effect of
each action, and a lemma for each part of the invariant. The inductive
invariants were checked with TLC on the instances of the runs first.

| Module | Theorems | Property of a run they state |
|---|---|---|
| `LeaseProofs` | `TypeCorrect`, `Invariance`; `OneLease`, `HandedOnce`, `OffersWait`, `WindowHonoured`; `Permanent`; `Refinement` | `OneLeasePerAttempt`, `OrphanHandedOnce`, `UnacceptedNeverOrphaned`, `FirstWindowHonoured`; `ImplementsFencing` |
| `SchedulerProofs` | `SchedulerTypeOK`, `Invariance`; `ClosesHonestly`, `DispatchesAreBounded`, `DispatchesAreKept`, `FlightsAreCovered` | `ClosedHonestly`, `NeverOverDispatched`, `NoDispatchLost`, `InFlightIsCovered` |
| `ControlPlaneProofs`: partitions | `PartitionsTypeOK`, `PlanesAgree`; `OneOwnerHolds`, `DeadlinesExclude` | `OneOwner` |
| `ControlPlaneProofs`: triggers | `TriggersTypeOK`, `SourcesAgree`; `SchedulesAreHonoured`, `RunsFit`, `DeletedIsSilent` | `ScheduleHonoured`, `RunsFitTheirRevision`, `DeletedStaysSilent` |
| `ControlPlaneProofs`: admission | `AdmissionTypesHold`; `BudgetsAreHonoured`, `SlotsAreLetGo`, `PendingIsAccounted`, `DrainsServeInTurn` | `BudgetHonoured`, `SlotsFollowFlight`, `PendingAccounted`, `DrainServesInTurn` |
| `ServiceProofs`: definitions | `DefinitionsTypeOK`; `NoEditIsLost`, `MergesAreSeen`, `UndoRestores`, `RunsAreReviewed` | `NoEditLost`, `MergedUnseen`, `UndoRestoresContent`, `RunsWereReviewed` |
| `ServiceProofs`: bodies | `AgentsStayInBounds`, `ModelCallsAreRecorded` | `StaysInBounds`, `CallsAreRecorded` |
| `GateProofs` | `GateTypeOK`, `HandlesAgree`; `HandlesAreKept`, `HandlesAreSpentOnce`, `HandlesDie`, `UntrustedNeverActs` | `KeepsItsHandles`, `RedeemedOnce`, `HandlesDieInOneTick`, `NothingUntrustedActs` |
| `StorageProofs` | `StorageTypeOK`, `StoresAgree`; `ServesItsOwnWork`, `NamedStaysReadable`, `StoredIsMetered`, `StoredStaysAccounted` | `ServedItsOwnWork`, `NamedIsReadable`, `StoredIsAccounted` |
| `BuiltinsProofs` | `BuiltinsTypeOK`, `BuiltinsAgree`; `AttemptsHaveOneBody`, `VerdictsAreOfTheirAttempt`, `WaitsAreHonoured`, `DecisionsStand` | `OneBodyPerAttempt`, `VerdictOfItsAttempt`, `WaitsHonoured`, `DecisionStands` |
| `EngineProofs` | `EngineTypeOK`; `HeldByOneEngine`, `RoomHonoured`, `TreesAreKilled`, `SandboxesAreSound` | `OneHolder`, `RoomIsOffered`, `CancelKillsTheTree`, `SandboxesSound` |

**Leases.** None of the invariants is inductive alone. `Inv` adds what the
bucket says about the histories (`TokensInv`: a fence names one token and the
claim at a key is the last token of its step; `AcceptedInv`; `GoneInv`: the last
token of a step that is not current was swept or withdrawn), what a caller in
the middle of a call knows (`CallTokens`: a writer has seen that every token
under the revision it read is for an earlier attempt; `CallWindows`: a sweep
about to delete has seen the expiry of that very claim pass), and that a renewal
never shortens its claim (`WindowInv`). The argument is that each
compare-and-set carries the revision of the value the caller's knowledge is
about, so either the knowledge still holds or the write is refused. The
refinement maps the table of `Fencing` to the claims; granting is the
compare-and-set that lands and revoking the delete that lands, and every other
step is a stutter. Assumed (`LeaseAssumption`): the bounds are naturals and the
TTL and the number of races are positive.

**Scheduler.** A pass, a status and a sweep act on a replay of the log that may
be old. `PlanOK` says what of it is still true: what ever succeeded stays so,
an attempt that is used up stays used up, a planned attempt is at most the
next. That suffices for `ClosesHonestly`. The other three need `TimelyInv`,
which holds while a commit that begins in time ends in time (`~SlowCommits`,
a hypothesis of those theorems and no assumption of the module): an offer not
yet committed is under its own lease or refused, the dispatches of a step are as
many as its attempts (`CountInv`), and whatever the run waits for is in the
outbox, on the bus, with an engine or in a status (`HandedInv`).
`FlightsAreCovered` needs that a sweeper lives to record the orphans it expired
besides (`SweepsSurvive`); without it the property is false, as the findings
say. `SchedulerAssumption` says that the predecessors of a step of a revision
are steps of it, which a plan relies on (`dag.Build` refuses an edge to a step
that is not there).

**Partitions.** What a plane holds is `Backed` by the key in the bucket or by a
whole TTL that passed since its last write. A pass that has read a key and not
seen it moved has read what the key says (`SeenIsCurrent`), so what it decides
to keep and to renew is what is in the bucket; the last write of a plane on a
key it still owns is what the key says (`LeaseFollows`). `DeadlinesExclude` is
what a run relies on: two planes never both act within their deadlines.
Assumed: the planes are finitely many, and there is a partition and a TTL.

**Triggers.** A claim moves the row past now, so of two fires of one schedule
one is for a boundary that had not come when the other was claimed (`Apart`),
and the mark is the mark of the one fire under way while none outlasts its lease
(`FlightInv`). What runs on a plane is what is live there, and a version the
plane has seen gone is never used again (`LiveInv`). Assumed: revisions are
numbered and the first one exists.

**Gate.** `IInv` relates a pass that is being built to the log it read
(`ReadInv`, `BuildInv`), the offer it holds to the attempts that carry handles
(`OwedInv`, `GivenInv`), the handles to the dispatches that carry them (`IdsInv`,
`QueueInv`), and a sweep to the runs it listed (`SweepInv`).
`UntrustedNeverActs` is proved against the definition of the property by paths
of the pipeline, not against the analysis: `TaintReaches` shows that the
analysis misses no trigger on any path that no gate cleared, in
however large a graph. It is an induction over the number of hops, done by the
least counterexample (`LeastOf`, from the well-foundedness of `<`), since the
induction principles themselves take an operator and are out of the provers'
reach; `TableExists` shows first that the recursive function of `TaintSources`
exists. `ClearingIsMonotone` carries the result over the events recorded between
the reading of the log and the dispatch. Assumed (`PolicyAssumption`,
`GateAssumption`): the steps are finitely many, an id is not empty
(`api/operations.go:94`), and secrets are declared as a sequence.

**Storage.** The three properties rest on different facts, and each theorem
names only its own. `ServesItsOwnWork` needs that engines are drained before
they leave (`DrainedRollout`): the key of an entry is computed from the fleet
when the report is applied, not when the step ran. It also needs that no two
cacheable works differ only in the order of their inputs (`KeysTellApart`),
since `cache.Key` sorts them. `NamedStaysReadable` and `StoredStaysAccounted`
need that the collector's transaction excludes other statements (`WriteLock`, as
SQLite's lock does), and the first that nothing pauses for the retain window
(`~LongPauses`): then what the collector has doomed stays unpinned, uncarried and
old until it commits (`SweepInv`), and what a run is served or a revision
carries is pinned and there (`PinnedInv`). An upload has its row, or is about to
write it (`Landing`), even for bytes whose row a sweep is about to drop
(`LeakInv`). `StoredIsMetered` needs nothing: each writer past the limit was
admitted before the charge that reached it, so the overshoot is less than the
number of writers (`MeterInv` counts the admitted ones against the slack).
Assumed: runs, editors and files are finitely many, there is a run, and the
store starts within its quota.

**Builtins.** A fence is one job's (`OwnFences`), and while the lease of a step
carries a job's fence nobody else adds to the step's attempts (`FenceOK`). So
the attempt a job found missing from the log under its claim is still missing
when its dispatch commits, and still the last one when its verdict does:
`AttemptsHaveOneBody` and `VerdictsAreOfTheirAttempt` hold with no hypothesis.
(`giveUp` writes without a fence, and the second property is of fenced verdicts;
the run `give_up` shows the rest.) The other two say more of people than the
code enforces, and name it. `WaitsAreHonoured` needs that nobody answers while
another does (`OnePerson`), for an approval can otherwise be overwritten by a
refusal after the steps behind it started; then a success in the log has opened
its step for good (`OpenedInv`), and what a stale pass or a queued job was
planned for is still fed (`AttemptOK`). `DecisionsStand` needs besides that a
person answers after every pass and queued job that saw the gate shut is over
(`SlowPeople`), or the late `Request` fails the step over the decision. That the
approved call is made once rests on a count: an agent that may not be repeated
is dispatched once, and once more when its gate was decided (`DecidedInv`); its
first body finds no parked position and its second no call made (`ResumeOK`).
Assumed (`BuiltinsAssumption`): the types of the constants, and that a step has
an iteration number just when it is a loop's controller.

**Engine.** Four things hold together. Whoever works on a dispatch is alone and
has its delivery (`HolderInv`), except that a delivery may be acknowledged under
it: an engine that was stopped while it published gives its delivery up, a
second one takes the dispatch, and then the first one's acknowledgement lands.
It cannot be handed out a third time, so `OneHolder` survives. The room
(`RoomIsOffered`) is inductive as it stands. What an engine knows of its
attempts, its sandboxes and its pool is its own, so the rest is one predicate
`Sound` over those three values and the backend, and one lemma about plain
values for each thing that can happen to them: a sandbox is made, fails to be
made, leaks, is claimed, used, given back warm or torn down, or reaped. `Sound`
says that an attempt has a sandbox from its Acquire to its Release, its own alone
and of its tenant (`Leases`); that what is idle is whole, listed once and leased
to nobody (`Idles`); that `live` counts what stands and what is being made
(`Counted`), which is what keeps the pool within its limit although `mk` runs
outside the lock; that an ended tree has nothing in its sandbox that is not
spared (`Trees`); and that a running command has its whole input (`Inputs`,
from `PutWhole`: a Put that succeeded on any try sent everything). Each action is
then one of those things at one engine (`Local`). Assumed (`EngineAssumption`):
engines, dispatches and capabilities are finitely many, the limits are positive,
a dispatch is on a queue that its engines serve, and no engine is named like a
state of a delivery.

**Admission.** `AdmissionIInv` has five parts. `LogTypes` and `WorkersGood` say
what a worker may carry where it is. `SlotInv` says that a revision is in one
pair of hands: no two keys, workers or holds share one (`KeysDistinct`,
`SlotsDistinct`); that the slot an attempt in flight counts on still has its key
and is held, or about to be held, for that step (`CoverGood`, `FlightGood`); that a
revision is renewed only where it was taken and for a worker or a hold
(`RenewGood`, `RenewedForSomeone`); and that a hold whose step is not in flight is
about to be released or was missed (`SeenToLeave`). `ItemsFresh` says that a
queued attempt is the next one of a ready step, or is over, which is why a stale
item of a batch is never dispatched over a newer attempt. `PendInv` says that a
marked step is in one place: the queue, one worker's batch, or `stranded`.
`BudgetsAreHonoured` then maps the covered steps of a pipeline one to one into
its budget indices and counts. The queue is a lemma of its own: a pass of `Next`
keeps it coherent (`TurnGood`), and the passes of one call, however many, take
each item once and in turn (`TakeNextGood`). For the turns (`InTurn`), a tenant
that waited and has had nothing is ahead, from the cursor on, of everyone who was
served, so nobody is reached twice before it; the order survives both the cursor
moving on (`AheadMoves`) and a tenant leaving the rotation (`AheadShrinks`). It
needs that an open turn has credit left, or a tenant would be passed over with
nothing (`Rotation`). The induction over the passes is by the least
counterexample, and `PassesExist` shows first that the recursive function of
`TakeNext` exists. Assumed (`AdmissionAssumption`, `WeightAssumption`): steps, runs
and workers are finitely many, the limits and weights are positive, and a
pipeline has one tenant.

**Definitions.** `IInv` says that every revision saved is well formed; that an
edit in flight, and each entry of the log, is its base with its operation applied
(`EditsGood`); that the log is a chain, each entry's base the result of the one
before, that ends in the head (`LogGood`); and that a revision is approved by
another person than its author, through every statement of an approval
(`ApprovalsGood`, `RunsGood`). `NoEditIsLost` follows since the compare-and-set of
the head names the revision the edit was rebased on. `UndoRestores` is a lemma
for each kind of operation about the lists of a definition: that what a removal
took out and its inverse puts back are the same steps, edges and files, although
not in the same places. Assumed (`DefinitionsAssumption`): the operations have
their shape, and the definition a pipeline is created with is well formed
(`CreatePipeline` itself checks only its files, so a client that creates one with
two steps of one id is outside the theorems).

**Bodies.** `BodiesIInv` ties a body to the records of the log. The turns an agent
has used are counted from those of the park it resumed from (`WithinBudget`), so
that a step may park and be resumed and still stays within one ceiling. What a
body has done of an action that needs approval is at most what the park it
resumed from asked for, and only once the gate was approved (`AsDecided`). While
no other body of the step runs beside it, the number of a model step's next call
is that of the next row of `llm_calls` (`Numbered`), and two bodies that are alive
are both counted as `beside` (`AttemptsGood`). Assumed (`BodiesAssumption`): the
types of the constants and that the bounds are positive.

What stays with TLC: liveness (`RunSettles`, `RingSettles`), since TLAPS does not
reason about fairness, and what the recursive operators of `Dag` compute, since
the prover loses its SMT backend in a module that reaches one. Every invariant
and every action property of a passing run is stated by a theorem.

## Findings

The run `give_up` shows the code doing what its own words exclude:
`llm.giveUp` appends STEP_FAILED without the fence, so a body whose lease was
swept fails the attempt that replaced it. `PROJECT.json` quotes the lines.

The others below are reproduced by naming the property in the cfg of the run of
that module, with the constants given; the properties are in the modules, with
the words of the code they come from, and are not part of a passing run.

Runs and leases:

* `FinishedNeverLost` (`Scheduler`): `recordOrphan` replays, a success is
  appended, and the `STEP_ATTEMPT_LOST` that follows fails the finished step,
  which `scheduler.go:1374` says it must not.
* `RunSettles` with `SweepsSurvive = FALSE`: `SweepOrphans` deletes a lease
  before it records the lost attempt; a plane that stops in between leaves the
  run open for ever (`docs/upgrades.md:91`: "a non-event").
* `AtMostOnceStarted` (`Scheduler`): a dispatch redelivered while its lease
  stands is accepted again, and an at-most-once step is started twice
  (`docs/wire-contract.md:358`, `effects/effects.go:12`).
* `DeniedNeverRan` (`Gate`): two passes decide on two listings of the fleet or
  on two policy documents, and one refuses the step the other dispatches.
* `RunsCanBeOrdered` (`MCDefinitions`): nothing on the way from an edit to a run
  calls `dag.Build`. A cyclic definition, a self-edge for one, can be saved,
  approved and started; every Advance of its run then fails.

Storage and cache:

* `ServedItsOwnWork` with `Works <- TwoOrders` and `WorksOf <- Either`:
  `cache.Key` leaves out which port an input is bound to.
* `KeyNamesWhatRan` (`Engine`): an engine announces the image digest it resolved
  at start; the sandbox of a later step is made from what the tag means then.
* `HeldIsCounted` (`Storage`): a digest is charged once and credited once, ever,
  so bytes stored again after they were collected are free.
* `GoneIsCredited` (`Storage`): a sweep that rolls back, or dies between its
  commit and the credit, leaves the tenant charged for bytes that are gone.
* `NamedIsReadable` with `WriteLock = FALSE`: see the assumptions.

Hosted steps:

* `DecisionStands` with `SlowPeople = FALSE`: a job still queued when its gate is
  approved fails the approved step (`builtins.go:215`, `docs/steps/approval.md:53`).
* `RerunResplices` with `Repeatable <- LoopRepeats`: a loop controller run again
  after its plane died cannot splice the fragment it recorded.
* `EveryCallRecorded` (`Bodies`): two bodies of one step side by side number a
  call alike, and the second is not recorded.
* `DecidedWhatWasAsked` (`Bodies`): a gate left open by a body that was replaced
  is decided on the calls it showed, and read as about those of the next.
* A step's second park in one run always fails, since the gate is decided for
  good, and a refused call does not keep the rest of its batch from being made.

Definitions:

* `OneActive`: two approvals that lock disjoint rows leave two revisions active.
* `UndoRestoresRevision`: the inverse of a removal appends at the end, so the
  content comes back and the revision does not.

Engines, registry, planes:

* `DrainSticks` (`Registry`, as an assumption over `FleetMessages`): a drained
  engine whose agent keeps announcing itself is ready again once it was gone;
  `kv.go` says it "must not become dispatchable again". The agent ignores the
  control message Drain, and `DrainEngine` only marks the record.
* `ServesItsQueues` (`Engine`): a fetch that fails ends its pump, and the engine
  goes on without that queue.
* `TimedOutWasKilled` (`Engine`): a command that ended by itself as its timeout
  fell due is reported as timed out, and one that succeeded before a Cancel
  reached it as cancelled.
* Giving back a sandbox of the process backend leaves what left the process
  group running; containerd and Kubernetes mark a sandbox released before the
  deletion that may fail, and nothing sweeps what a crashed engine left.
* A schedule's occurrence is claimed before it fires: a plane that stops in
  between loses it. A plane's view of its partitions has no deadline of its own:
  a plane that cannot reach the bus goes on acting until it can (`OneOwner`
  says: no sooner than a whole TTL).

Admission, where the properties name these as the only exceptions:

* `missed`: `releaseHold` knows this plane's slots only, and statuses go to
  whichever plane's consumer takes them. A verdict applied elsewhere, or before
  its dispatch reaches `hold`, or an attempt swept in a run already closed,
  leaves a slot that its plane renews for as long as it lives, although
  `admission.go` calls `releaseHold` on "EVERY way a step can leave flight".
* `stranded`: `drain` clears the mark of an item when it reaches it; an error
  before that returns with the rest of the batch taken from the queue and still
  marked, and this plane never queues those steps again.
* `DrainServesInTurn` is about one call of Next. From one call to the next it
  does not extend: a tenant whose queue empties as the slots run out leaves the
  cursor past the end, and joins again at the cursor, ahead of one that waited.

Code with no caller in the served plane, found while mapping it:
`tenancy.Meter`, `taint.Propagate`, `SaveGuard` and `taint.Gate.Sanitise`, the
mirror's `Push`, the pool's manager, `llm.Recorder.Purge`, and completion
triggers. The rules of the untrusted tier are never evaluated by one.

## Not modelled

SQL, migrations, encodings and the bus's set-up; the requests behind an
executor's outcomes; CEL; plugin downloads and signatures; importers; identity
providers; observability; the CLI and the web client; generated code and the
conformance suite. The reasons are in `PROJECT.json`. The options of the
scheduler are looked at one module at a time, since their product is beyond
TLC: a dispatch that meets budgets, policy, secrets and the cache in one pass is
not.

## What could follow

1. A second loop in `hosted`, for the run-wide ceiling on fragments.
2. The engine's log stream; start-up and shutdown of a plane.
3. The functions of `Dag` as recursive functions, so that `OrderIsSound` and
   `PlanPredicts` can be proved for any graph.
