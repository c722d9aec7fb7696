----------------------------- MODULE Admission -----------------------------
(***************************************************************************)
(* What stands between a ready step and its dispatch: the tenant's daily   *)
(* run limit (tenancy.Enforcer), the fair queue of each control plane, the *)
(* tenant's concurrency quota and the pipeline's budget, a semaphore of    *)
(* one key per slot in a bucket every plane shares (scheduler.Budgets).    *)
(*                                                                         *)
(* A worker is a goroutine of a plane: the open-run tick, the status       *)
(* consumer, the sweeper, or a request that starts a run. The lease, the   *)
(* commit and the engine are those of module Scheduler: here an attempt is *)
(* committed by at most one worker, and a report of it may reach any plane.*)
(*                                                                         *)
(* Time is abstract. A key whose holder renews it is not dropped unless a  *)
(* fault says the renewal did not get through.                             *)
(***************************************************************************)
EXTENDS FairQueue

CONSTANTS
    Runs,           \* the runs tenants ask for
    Steps,          \* their steps, all ready from the start
    RunOf,          \* step -> its run
    TenantOf,       \* run -> its tenant
    PipelineOf,     \* run -> its pipeline; pipelines of two tenants differ
    Limit,          \* pipeline -> its budget
    Quota,          \* tenant -> max_concurrent_steps
    RunsPerDay,     \* max_runs_per_day, the same for every tenant
    Workers,        \* goroutines
    PlaneOf,        \* worker -> its control plane
    Tries,          \* step -> the attempts its retry policy allows
    MaxSlots,       \* bound: the capacity the fleet may advertise
    MaxAdmissionFaults \* bound: crashes, errors, missed renewals, cancellations

Schedulers == {PlaneOf[w] : w \in Workers}
Pipelines == {PipelineOf[r] : r \in Runs}

ASSUME AdmissionAssumption ==
    /\ Steps \subseteq Nat /\ IsFiniteSet(Steps) /\ IsFiniteSet(Runs) /\ IsFiniteSet(Workers)
    /\ RunOf \in [Steps -> Runs] /\ TenantOf \in [Runs -> Tenants]
    /\ Limit \in [Pipelines -> Nat \ {0}] /\ Quota \in [Tenants -> Nat \ {0}]
    /\ \A r1, r2 \in Runs : PipelineOf[r1] = PipelineOf[r2] => TenantOf[r1] = TenantOf[r2]
    /\ Tries \in [Steps -> Nat \ {0}]
    /\ {RunsPerDay, MaxSlots} \subseteq Nat \ {0} /\ MaxAdmissionFaults \in Nat

VARIABLES
    counted,        \* the runs with a run_started row in the usage ledger
    created,        \* the runs with a RUN_CREATED event
    closed,         \* the runs cancelled
    step,           \* step -> where its log says it is, and its last attempt
    bucket,         \* slot key -> the revision it is at; 0: no key
    renewing,       \* plane -> the revisions its renew goroutines keep alive
    queue,          \* plane -> its fair queue
    pending,        \* plane -> the steps it believes are in its queue
    held,           \* plane -> step -> the slot it holds for it
    work,           \* worker -> where it is and what it carries
    admissionFaults, \* how many faults have happened
    covered,        \* history: step -> the slot its attempt in flight was given
    stranded,       \* history: plane -> the steps an aborted drain dropped
    missed          \* history: the slots whose step left flight unseen

log == <<counted, created, closed, step>>
slots == <<bucket, renewing, held>>
waiting == <<queue, pending>>
history == <<covered, stranded, missed>>
admissionVars == <<log, slots, waiting, work, admissionFaults, history>>

------------------------------------------------------------------------------
Tenant(s) == TenantOf[RunOf[s]]
Pipeline(s) == PipelineOf[RunOf[s]]

\* budgetKey: the tenant is part of the pipeline here.
Keys == UNION {{p} \X (1..Limit[p]) : p \in Pipelines}

Items == [step : Steps, attempt : Nat \ {0}]
NoItem == [step |-> 0, attempt |-> 0]
NoSlot == [key |-> <<>>, rev |-> 0]
SlotSet == [key : Keys, rev : Nat \ {0}] \cup {NoSlot}

Places == {"idle", "admit", "enqueue", "take", "count", "acquire", "commit", "hold", "release"}

\* What a worker carries: the run it starts, the ready steps it has not
\* queued, the items it drained, the item in hand, the budget index it tries
\* and the slot it took.
IdleWork == [pc |-> "idle", run |-> 0, todo |-> {}, batch |-> <<>>, item |-> NoItem,
             index |-> 0, slot |-> NoSlot]

AdmissionTypeOK ==
    /\ counted \subseteq Runs /\ created \subseteq Runs /\ closed \subseteq Runs
    /\ step \in [Steps -> [phase : {"ready", "out", "resting", "done"}, attempt : Nat]]
    /\ bucket \in [Keys -> Nat]
    /\ renewing \in [Schedulers -> SUBSET Nat]
    /\ queue \in [Schedulers -> Queues(Items)]
    /\ pending \in [Schedulers -> SUBSET Steps]
    /\ held \in [Schedulers -> [Steps -> SlotSet]]
    /\ work \in [Workers -> [pc : Places, run : Runs \cup {0}, todo : SUBSET Items,
                             batch : Seq(Items), item : Items \cup {NoItem},
                             index : Nat, slot : SlotSet]]
    /\ \A w \in Workers : /\ work[w].pc = "take" => work[w].batch # <<>>
                           /\ (work[w].pc \in {"commit", "hold"}) = (work[w].slot # NoSlot)
    /\ admissionFaults \in 0..MaxAdmissionFaults
    /\ covered \in [Steps -> Nat] /\ stranded \in [Schedulers -> SUBSET Steps]
    /\ missed \subseteq Nat

AdmissionInit ==
    /\ counted = {} /\ created = {} /\ closed = {}
    /\ step = [s \in Steps |-> [phase |-> "ready", attempt |-> 0]]
    /\ bucket = [k \in Keys |-> 0]
    /\ renewing = [p \in Schedulers |-> {}]
    /\ queue = [p \in Schedulers |-> NewQueue]
    /\ pending = [p \in Schedulers |-> {}]
    /\ held = [p \in Schedulers |-> [s \in Steps |-> NoSlot]]
    /\ work = [w \in Workers |-> IdleWork]
    /\ admissionFaults = 0
    /\ covered = [s \in Steps |-> 0]
    /\ stranded = [p \in Schedulers |-> {}]
    /\ missed = {}

------------------------------------------------------------------------------
At(w, place) == work[w].pc = place

Become(w, r) == work' = [work EXCEPT ![w] = r]

Goto(w, place) == Become(w, [work[w] EXCEPT !.pc = place])

Fault == admissionFaults < MaxAdmissionFaults /\ admissionFaults' = admissionFaults + 1

\* The next item of the batch, or the end of Advance.
NextItem(w) ==
    Become(w, IF work[w].batch = <<>> THEN IdleWork
              ELSE [IdleWork EXCEPT !.pc = "take", !.batch = work[w].batch])

\* Budgets.release of one slot by plane p: it is renewed no more, and its key is
\* deleted at the revision p last wrote.
ReleaseSlot(p, slot) ==
    /\ renewing' = [renewing EXCEPT ![p] = @ \ {slot.rev}]
    /\ bucket' = [k \in Keys |-> IF k = slot.key /\ bucket[k] = slot.rev THEN 0 ELSE bucket[k]]

\* The ready steps of a run, with the attempt each would be.
ReadySteps(r) ==
    {[step |-> s, attempt |-> step[s].attempt + 1] :
       s \in {x \in Steps : RunOf[x] = r /\ step[x].phase = "ready"}}

Finished(r) == \A s \in Steps : RunOf[s] = r => step[s].phase = "done"

\* The replay Advance plans from. A closed or finished run goes no further.
Plan(w, r) ==
    Become(w, IF r \in closed \/ Finished(r) THEN IdleWork
              ELSE [IdleWork EXCEPT !.pc = "enqueue", !.todo = ReadySteps(r)])

------------------------------------------------------------------------------
(* Starting a run. *)

StartedToday(t) == {r \in counted : TenantOf[r] = t}

\* Enforcer.AdmitRun up to its read of the day's count.
AdmitRun(w, r) ==
    /\ At(w, "idle") /\ r \notin counted
    /\ \A v \in Workers : work[v].run # r
    /\ Cardinality(StartedToday(TenantOf[r])) < RunsPerDay
    /\ Become(w, [IdleWork EXCEPT !.pc = "admit", !.run = r])
    /\ UNCHANGED <<log, slots, waiting, admissionFaults, history>>

\* The usage row, RUN_CREATED, and the Advance of whoever started the run.
CreateRun(w) ==
    /\ At(w, "admit")
    /\ counted' = counted \cup {work[w].run}
    /\ created' = created \cup {work[w].run}
    /\ Plan(w, work[w].run)
    /\ UNCHANGED <<closed, step, slots, waiting, admissionFaults, history>>

\* A plane that stops between the two has charged a run that never was.
CreateFails(w) ==
    /\ At(w, "admit") /\ Fault
    /\ counted' = counted \cup {work[w].run}
    /\ Become(w, IdleWork)
    /\ UNCHANGED <<created, closed, step, slots, waiting, history>>

CancelRun(r) ==
    /\ r \in created \ closed
    /\ Fault
    /\ closed' = closed \cup {r}
    /\ UNCHANGED <<counted, created, step, slots, waiting, work, history>>

------------------------------------------------------------------------------
(* Advance: what is ready goes into the plane's queue. *)

\* The open-run tick takes up a run. With nothing ready it only drains the queue,
\* which is then left out when the queue is empty too.
OpenRunTick(w, r) ==
    /\ At(w, "idle") /\ r \in created
    /\ ReadySteps(r) # {} \/ queue[PlaneOf[w]].active # <<>>
    /\ Plan(w, r)
    /\ UNCHANGED <<log, slots, waiting, admissionFaults, history>>

\* Mutant: a step still ready is queued again.
EnqueueReadyAgain(w) ==
    /\ At(w, "enqueue")
    /\ work[w].todo # {}
    /\ LET p == PlaneOf[w]
           i == CHOOSE x \in work[w].todo : \A y \in work[w].todo : x.step <= y.step
       IN /\ pending' = [pending EXCEPT ![p] = @ \cup {i.step}]
          /\ queue' = [queue EXCEPT ![p] = Enqueue(@, Tenant(i.step), i)]
          /\ Become(w, [work[w] EXCEPT !.todo = @ \ {i}])
    /\ UNCHANGED <<log, slots, admissionFaults, history>>

\* enqueueReady: a step this plane has queued already is left alone.
EnqueueReady(w) ==
    /\ At(w, "enqueue")
    /\ work[w].todo # {}
    /\ LET p == PlaneOf[w]
           i == CHOOSE x \in work[w].todo : \A y \in work[w].todo : x.step <= y.step
       IN /\ pending' = [pending EXCEPT ![p] = @ \cup {i.step}]
          /\ queue' = [queue EXCEPT ![p] = IF i.step \in pending[p] THEN @
                                           ELSE Enqueue(@, Tenant(i.step), i)]
          /\ Become(w, [work[w] EXCEPT !.todo = @ \ {i}])
    /\ UNCHANGED <<log, slots, admissionFaults, history>>

\* The caller's context ends: the step is not marked and the rest is not queued.
EnqueueFails(w) ==
    /\ At(w, "enqueue") /\ Fault
    /\ Become(w, IdleWork)
    /\ UNCHANGED <<log, slots, waiting, history>>

------------------------------------------------------------------------------
(* drain: what the queue gives back is admitted and dispatched. *)

\* The slots asked for are what the tenant's ready engines advertise, or one.
Drain(w) ==
    /\ At(w, "enqueue") /\ work[w].todo = {}
    /\ \E n \in 1..MaxSlots :
         LET r == TakeNext(queue[PlaneOf[w]], n) IN
         /\ queue' = [queue EXCEPT ![PlaneOf[w]] = r.queue]
         /\ Become(w, IF r.taken = <<>> THEN IdleWork
                      ELSE [IdleWork EXCEPT !.pc = "take", !.batch = r.taken])
    /\ UNCHANGED <<log, slots, pending, admissionFaults, history>>

\* dispatchQueued: the item leaves pending, and the log decides whether it is
\* still wanted.
TakeItem(w) ==
    /\ At(w, "take")
    /\ LET i == Head(work[w].batch)
           rest == [work[w] EXCEPT !.batch = Tail(@)]
       IN /\ pending' = [pending EXCEPT ![PlaneOf[w]] = @ \ {i.step}]
          /\ Become(w, CASE RunOf[i.step] \notin closed /\ step[i.step].attempt < i.attempt ->
                              [rest EXCEPT !.pc = "count", !.item = i]
                         [] rest.batch = <<>> -> IdleWork
                         [] OTHER -> rest)
    /\ UNCHANGED <<log, slots, queue, admissionFaults, history>>

\* Budgets.InFlight: the tenant's keys, whichever plane holds them.
InFlight(t) == {k \in Keys : bucket[k] # 0 /\ \E r \in Runs : TenantOf[r] = t /\ PipelineOf[r] = k[1]}

\* Enforcer.AdmitStep against the count.
AdmitStep(t) == Cardinality(InFlight(t)) < Quota[t]

CountInFlight(w) ==
    /\ At(w, "count")
    /\ IF AdmitStep(Tenant(work[w].item.step))
       THEN Become(w, [work[w] EXCEPT !.pc = "acquire", !.index = 1])
       ELSE NextItem(w)
    /\ UNCHANGED <<log, slots, waiting, admissionFaults, history>>

\* Revisions are only ever compared for equality: the next one is a number that
\* nobody still remembers.
Remembered ==
    {bucket[k] : k \in Keys} \cup (UNION {renewing[p] : p \in Schedulers})
      \cup {work[w].slot.rev : w \in Workers}
      \cup (UNION {{held[p][s].rev : s \in Steps} : p \in Schedulers})

NewRevision == CHOOSE n \in 1..(Cardinality(Remembered) + 1) : n \notin Remembered

\* Mutant: the slot is put, and not created.
AcquirePuts(w) ==
    /\ At(w, "acquire")
    /\ LET k == <<Pipeline(work[w].item.step), work[w].index>> IN
         /\ bucket' = [bucket EXCEPT ![k] = NewRevision]
         /\ renewing' = [renewing EXCEPT ![PlaneOf[w]] = @ \cup {NewRevision}]
         /\ Become(w, [work[w] EXCEPT !.pc = "commit", !.index = 0,
                                      !.slot = [key |-> k, rev |-> NewRevision]])
    /\ UNCHANGED <<log, held, waiting, admissionFaults, history>>

\* One Create of Acquire's loop. A key that is there refuses it.
Acquire(w) ==
    /\ At(w, "acquire")
    /\ LET k == <<Pipeline(work[w].item.step), work[w].index>> IN
       IF k \notin Keys THEN NextItem(w) /\ UNCHANGED slots
       ELSE IF bucket[k] # 0
       THEN Become(w, [work[w] EXCEPT !.index = @ + 1]) /\ UNCHANGED slots
       ELSE /\ bucket' = [bucket EXCEPT ![k] = NewRevision]
            /\ renewing' = [renewing EXCEPT ![PlaneOf[w]] = @ \cup {NewRevision}]
            /\ Become(w, [work[w] EXCEPT !.pc = "commit", !.index = 0,
                                         !.slot = [key |-> k, rev |-> NewRevision]])
            /\ UNCHANGED held
    /\ UNCHANGED <<log, waiting, admissionFaults, history>>

\* The dispatch commits (Scheduler!DispatchCommit).
Commit(w) ==
    /\ At(w, "commit")
    /\ LET i == work[w].item IN
         /\ step[i.step].attempt < i.attempt
         /\ step' = [step EXCEPT ![i.step] = [phase |-> "out", attempt |-> i.attempt]]
         /\ covered' = [covered EXCEPT ![i.step] =
              IF bucket[work[w].slot.key] = work[w].slot.rev THEN work[w].slot.rev ELSE 0]
    /\ Goto(w, "hold")
    /\ UNCHANGED <<counted, created, closed, slots, waiting, admissionFaults, stranded, missed>>

\* Another worker has offered or dispatched this attempt: dispatch returns and
\* its deferred release gives the slot back.
NotOurs(w) ==
    /\ At(w, "commit")
    /\ LET i == work[w].item IN
         \/ step[i.step].attempt >= i.attempt
         \/ \E v \in Workers \ {w} : At(v, "commit") /\ work[v].item = i
    /\ ReleaseSlot(PlaneOf[w], work[w].slot)
    /\ NextItem(w)
    /\ UNCHANGED <<log, held, waiting, admissionFaults, history>>

\* An error below dispatchQueued ends the drain: the slot goes back, and the
\* items after the one in hand are dropped with their marks in pending.
Abort(w) ==
    /\ work[w].pc \in {"count", "commit"} /\ Fault
    /\ ReleaseSlot(PlaneOf[w], work[w].slot)
    /\ stranded' = [stranded EXCEPT ![PlaneOf[w]] =
                      @ \cup {i.step : i \in ToSet(work[w].batch)}]
    /\ Become(w, IdleWork)
    /\ UNCHANGED <<log, held, waiting, covered, missed>>

\* Scheduler.hold: a slot this plane already holds for the step goes back.
Hold(w) ==
    /\ At(w, "hold")
    /\ LET p == PlaneOf[w]
           s == work[w].item.step
       IN /\ ReleaseSlot(p, held[p][s])
          /\ held' = [held EXCEPT ![p][s] = work[w].slot]
          /\ missed' = missed \ {held[p][s].rev}
    /\ NextItem(w)
    /\ UNCHANGED <<log, waiting, admissionFaults, covered, stranded>>

------------------------------------------------------------------------------
(* A step leaves flight. *)

\* The slots of a step in the hands of a dispatch that has committed and not yet
\* reached hold, and all its slots that the planes of here cannot release.
Unheld(s) == {work[w].slot.rev : w \in {x \in Workers : At(x, "hold") /\ work[x].item.step = s}}
OutOfReach(here, s) ==
    (Unheld(s) \cup {held[x][s].rev : x \in Schedulers \ here}) \cap UNION {renewing[x] : x \in Schedulers}

\* A failed attempt may rest before another; one that succeeded, or failed for the
\* last time, is over.
Verdict(s) == {"done"} \cup (IF step[s].attempt < Tries[s] THEN {"resting"} ELSE {})

\* The verdict of the attempt in flight is appended: OnStatus, on whichever
\* plane took the status, or recordOrphan.
Leave(w, s) ==
    /\ At(w, "idle") /\ step[s].phase = "out"
    /\ \E phase \in Verdict(s) : step' = [step EXCEPT ![s].phase = phase]
    /\ covered' = [covered EXCEPT ![s] = 0]
    /\ Become(w, [IdleWork EXCEPT !.pc = "release",
                                  !.item = [step |-> s, attempt |-> step[s].attempt]])
    /\ missed' = missed \cup OutOfReach({PlaneOf[w]}, s)
    /\ UNCHANGED <<counted, created, closed, slots, waiting, admissionFaults, stranded>>

\* The same on a plane that holds nothing for the step and places nothing next.
LeaveElsewhere(s) ==
    /\ step[s].phase = "out"
    /\ \E phase \in Verdict(s) : step' = [step EXCEPT ![s].phase = phase]
    /\ covered' = [covered EXCEPT ![s] = 0]
    /\ missed' = missed \cup OutOfReach({}, s)
    /\ UNCHANGED <<counted, created, closed, slots, waiting, work, admissionFaults, stranded>>

\* A status delivered again: its verdict stands, and the slot this plane still
\* holds is given back. With none it is a Tick.
Redelivered(w, s) ==
    /\ At(w, "idle") /\ step[s].phase \in {"resting", "done"} /\ Fault
    /\ held[PlaneOf[w]][s] # NoSlot
    /\ Become(w, [IdleWork EXCEPT !.pc = "release",
                                  !.item = [step |-> s, attempt |-> step[s].attempt]])
    /\ UNCHANGED <<log, slots, waiting, history>>

\* recordOrphan of a run that is closed writes nothing and releases nothing.
OrphanOfClosed(w, s) ==
    /\ At(w, "idle") /\ step[s].phase = "out" /\ RunOf[s] \in closed
    /\ step' = [step EXCEPT ![s].phase = "done"]
    /\ covered' = [covered EXCEPT ![s] = 0]
    /\ missed' = missed \cup OutOfReach({}, s)
    /\ UNCHANGED <<counted, created, closed, slots, waiting, work, admissionFaults, stranded>>

\* Mutant: the slot goes back only when the step is over.
ReleaseHoldOnSuccess(w) ==
    /\ At(w, "release")
    /\ LET p == PlaneOf[w]
           s == work[w].item.step
       IN IF step[s].phase = "done"
          THEN /\ ReleaseSlot(p, held[p][s])
               /\ held' = [held EXCEPT ![p][s] = NoSlot]
               /\ missed' = missed \ {held[p][s].rev}
          ELSE UNCHANGED <<slots, missed>>
    /\ Plan(w, RunOf[work[w].item.step])
    /\ UNCHANGED <<log, waiting, admissionFaults, covered, stranded>>

\* releaseHold, then the Advance both callers end with.
ReleaseHold(w) ==
    /\ At(w, "release")
    /\ LET p == PlaneOf[w]
           s == work[w].item.step
       IN /\ ReleaseSlot(p, held[p][s])
          /\ held' = [held EXCEPT ![p][s] = NoSlot]
          /\ missed' = missed \ {held[p][s].rev}
    /\ Plan(w, RunOf[work[w].item.step])
    /\ UNCHANGED <<log, waiting, admissionFaults, covered, stranded>>

\* The backoff of a failed attempt runs out. It is five seconds or more, and hold
\* and releaseHold follow the commit and the append before them at once.
Elapse(s) ==
    /\ step[s].phase = "resting"
    /\ \A w \in Workers : work[w].pc \in {"hold", "release"} => work[w].item.step # s
    /\ step' = [step EXCEPT ![s].phase = "ready"]
    /\ UNCHANGED <<counted, created, closed, slots, waiting, work, admissionFaults, history>>

------------------------------------------------------------------------------
(* The bucket and the planes. *)

Dropped(k) ==
    /\ bucket' = [bucket EXCEPT ![k] = 0]
    /\ covered' = [s \in Steps |-> IF covered[s] = bucket[k] THEN 0 ELSE covered[s]]

\* The server drops a key nobody has renewed for the bucket's max age.
AgeOut(k) ==
    /\ bucket[k] # 0 /\ \A p \in Schedulers : bucket[k] \notin renewing[p]
    /\ Dropped(k)
    /\ UNCHANGED <<log, renewing, held, waiting, work, admissionFaults, stranded, missed>>

\* A renewal that did not get through, or was applied and not answered: renewOnce
\* returns false and the goroutine ends, whatever the step is doing.
RenewFails(p, rev) ==
    /\ rev \in renewing[p] /\ Fault
    /\ renewing' = [renewing EXCEPT ![p] = @ \ {rev}] /\ missed' = missed \ {rev}
    /\ UNCHANGED <<log, bucket, held, waiting, work, covered, stranded>>

\* A plane dies and comes back: its memory is gone, its slots age out.
Crash(p) ==
    /\ Fault
    /\ queue' = [queue EXCEPT ![p] = NewQueue] /\ pending' = [pending EXCEPT ![p] = {}]
    /\ held' = [held EXCEPT ![p] = [s \in Steps |-> NoSlot]]
    /\ renewing' = [renewing EXCEPT ![p] = {}] /\ missed' = missed \ renewing[p]
    /\ stranded' = [stranded EXCEPT ![p] = {}]
    /\ work' = [w \in Workers |-> IF PlaneOf[w] = p THEN IdleWork ELSE work[w]]
    /\ UNCHANGED <<log, bucket, covered>>

AdmissionNext ==
    \/ \E w \in Workers :
         \/ \E r \in Runs : AdmitRun(w, r) \/ OpenRunTick(w, r)
         \/ CreateRun(w) \/ CreateFails(w)
         \/ EnqueueReady(w) \/ EnqueueFails(w)
         \/ Drain(w) \/ TakeItem(w) \/ CountInFlight(w) \/ Acquire(w)
         \/ Commit(w) \/ NotOurs(w) \/ Abort(w) \/ Hold(w)
         \/ \E s \in Steps : Leave(w, s) \/ Redelivered(w, s) \/ OrphanOfClosed(w, s)
         \/ ReleaseHold(w)
    \/ \E r \in Runs : CancelRun(r)
    \/ \E s \in Steps : LeaveElsewhere(s) \/ Elapse(s)
    \/ \E k \in Keys : AgeOut(k)
    \/ \E p \in Schedulers : Crash(p) \/ \E rev \in renewing[p] : RenewFails(p, rev)

AdmissionSpec == AdmissionInit /\ [][AdmissionNext]_admissionVars

------------------------------------------------------------------------------
(* Properties. *)

\* Budgets: of one pipeline's steps in flight, those whose slot has not aged out
\* never outnumber its budget, whichever planes dispatched them and released
\* beside them (budget.go: Acquire, release).
BudgetHonoured ==
    \A p \in Pipelines :
      Cardinality({s \in Steps : Pipeline(s) = p /\ step[s].phase = "out" /\ covered[s] # 0}) <= Limit[p]

\* The steps of a plane's queue, and those its workers have in hand.
InQueue(p) == {i.step : i \in UNION {ToSet(queue[p].items[t]) : t \in Tenants}}
InHand(p) ==
    LET mine == {w \in Workers : PlaneOf[w] = p}
    IN {i.step : i \in UNION {ToSet(work[w].batch) : w \in mine}}

\* enqueueReady's dedupe and drain agree: a plane marks as pending exactly the
\* steps that are in its queue or in the hands of a drain, apart from those an
\* aborted drain dropped, and no step is in its queue twice.
PendingAccounted ==
    \A p \in Schedulers :
      /\ pending[p] = InQueue(p) \cup InHand(p) \cup stranded[p]
      /\ \A t \in Tenants : IsInjective([n \in DOMAIN queue[p].items[t] |-> queue[p].items[t][n].step])
      /\ Coherent(queue[p])

\* Nothing is kept alive for a step that is not running: a slot a plane renews is
\* that of a dispatch in progress, of a step in flight or about to be released, or
\* of a step that left flight where this plane could not see it (admission.go:
\* releaseHold "is called on EVERY way a step can leave flight").
SlotsFollowFlight ==
    \A p \in Schedulers : \A rev \in renewing[p] \ missed :
      \/ \E w \in Workers : work[w].pc \in {"commit", "hold"} /\ work[w].slot.rev = rev
      \/ \E s \in Steps : held[p][s].rev = rev /\
           \/ step[s].phase = "out"
           \/ \E w \in Workers : At(w, "release") /\ work[w].item.step = s

\* One drain serves in turn: a tenant it leaves without an item was waiting while
\* no other got more than one turn's credit (fairness.go: Next).
DrainServesInTurn ==
    [][\A w \in Workers : At(w, "enqueue") /\ work'[w].pc = "take" =>
         \A t, u \in Tenants :
           LET got(x) == Cardinality({n \in DOMAIN work'[w].batch : Tenant(work'[w].batch[n].step) = x})
           IN queue[PlaneOf[w]].items[t] # <<>> /\ got(t) = 0 => got(u) <= Weight[u]]_admissionVars
==============================================================================
