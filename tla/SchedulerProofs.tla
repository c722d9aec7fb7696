--------------------------- MODULE SchedulerProofs ---------------------------
(***************************************************************************)
(* Proofs about one run moved by a control plane, for any revision, any    *)
(* number of goroutines and engines and any number of faults: what the log *)
(* says is what happened (ClosedHonestly), no attempt is dispatched twice  *)
(* and no step too often (NeverOverDispatched), no dispatch the run waits  *)
(* for is lost (NoDispatchLost) and no step in flight is left without a    *)
(* lease or a sweeper (InFlightIsCovered).                                 *)
(***************************************************************************)
EXTENDS Scheduler, TLAPS, FiniteSetTheorems, NaturalsInduction, WellFoundedInduction

------------------------------------------------------------------------------
(* The inductive invariant, first what holds whatever commits may take.     *)

Offering == {"reload", "begin", "commit"}
Applying == {"statusLoad", "statusAppend"}
Orphaning == {"orphanLoad", "orphanAppend"}
Surfacing == {"surface", "withdraw"}

DispatchesOf(s) == {d \in dispatched : d.step = s}

\* What the lease keys say: no fence runs ahead of the bucket, and a lease or a
\* renewal under the fence of a dispatch is that dispatch's.
LeaseInv ==
    \A s \in Steps :
        /\ lease[s].fence <= lastFence
        /\ \A d \in dispatched : d.step = s /\ Current(d) => lease[s].attempt = d.attempt
        /\ renewed[s].fence # 0 =>
              \E d \in dispatched : d.step = s /\ d.fence = renewed[s].fence

\* What the log says of the dispatches it holds, and of the latest of a step.
LogInv ==
    /\ \A d \in dispatched : /\ d.step \in run.pinned /\ d.attempt \in 1 .. run.attempts[d.step]
                             /\ d.fence \in 1 .. lastFence
    /\ \A s \in Steps : /\ run.attempts[s] <= MaxAttempts(s)
                        /\ run.fences[s] # 0 => run.attempts[s] # 0
                        /\ run.attempts[s] # 0 =>
                              [step |-> s, attempt |-> run.attempts[s], fence |-> run.fences[s]]
                                  \in dispatched
                        /\ run.terminal[s] = "succeeded" => s \in everDone
    /\ everDone \subseteq run.pinned
    /\ run.pinned \in Pipelines

\* Only what was dispatched is on its way.
BusInv ==
    /\ outbox \subseteq dispatched /\ queue \subseteq dispatched
    /\ \A e \in Engines : job[e].phase # "free" => job[e].d \in dispatched
    /\ \A m \in statuses : m.d \in dispatched

\* A run may be closed as `how`.
Earned(how) ==
    /\ how \in {"complete", "completed"} => run.pinned \subseteq everDone
    /\ how \in {"fail", "failed"} => \E s \in Repeatable : run.attempts[s] = MaxTries

\* A step planned or offered: at most the next attempt, and one its class allows.
Allowed(s, a) ==
    /\ s \in run.pinned
    /\ a \in 1 .. MaxAttempts(s) /\ a <= run.attempts[s] + 1

\* What a worker knows, with r in hand, whatever happened since it read.
PlanOK(r) ==
    /\ r.pc = "dispatch" => r.todo # {}
    /\ \A t \in r.todo : Allowed(t[1], t[2])
    /\ Earned(r.pc) /\ Earned(r.next)
    /\ r.pc \in Offering \cup Applying \cup Orphaning \cup Surfacing =>
          r.d \in Dispatches /\ r.d.fence \in 1 .. lastFence
    /\ r.pc \in Applying => r.d \in dispatched
    /\ r.pc \in Offering =>
          /\ Allowed(r.d.step, r.d.attempt)
          /\ \A e \in dispatched : e.fence # r.d.fence
    /\ r.pc \in Offering \cup Surfacing /\ Current(r.d) => lease[r.d.step].attempt = r.d.attempt
    /\ r.pc = "withdraw" => r.aged
    /\ r.pc \in Surfacing /\ r.aged /\ Current(r.d) => lease[r.d.step].age = "abandoned"

\* No two workers dispatch under one fence.
FencesApart ==
    \A v, w \in Workers : work[v].pc \in Offering /\ work[w].pc \in Offering /\ v # w
                              => work[v].d.fence # work[w].d.fence

BaseInv ==
    /\ LeaseInv /\ LogInv /\ BusInv /\ FencesApart
    /\ \A w \in Workers : PlanOK(work[w])
    /\ Earned(run.closed)

------------------------------------------------------------------------------
(* What holds when commits that begin in time end in time.                  *)

\* The fence of a dispatch that commits stands until it has committed, and its
\* attempt is a new one; an offer is withdrawn only if its attempt is not out;
\* a step planned as the next attempt is not in flight.
TimelyOK(r) ==
    /\ r.pc \in {"begin", "commit", "withdraw"} /\ Current(r.d)
          => run.attempts[r.d.step] < r.d.attempt
    /\ r.pc = "commit" => Current(r.d) /\ lease[r.d.step].age # "abandoned"
    /\ \A t \in r.todo : t[2] = run.attempts[t[1]] + 1
                             => run.terminal[t[1]] # "none" \/ run.attempts[t[1]] = 0

CountInv ==
    \A s \in Steps : /\ IsFiniteSet(DispatchesOf(s))
                     /\ Cardinality(DispatchesOf(s)) <= run.attempts[s]

Waiting(d) == Current(d) /\ run.attempts[d.step] = d.attempt /\ run.terminal[d.step] = "none"

\* A reported job is no longer good for its dispatch: the report is.
Handed(d) ==
    \/ d \in outbox \/ d \in queue
    \/ \E e \in Engines : job[e].phase \in {"fetched", "granted", "running"} /\ job[e].d = d
    \/ \E m \in statuses : m.d = d

HandedInv == \A d \in dispatched : Waiting(d) => Handed(d)

TimelyInv ==
    /\ OneDispatchPerAttempt /\ CountInv /\ HandedInv
    /\ \A w \in Workers : TimelyOK(work[w])

------------------------------------------------------------------------------
(* And when a sweeper lives to record the orphans it expired.               *)

Sweeps(r, s) == r.pc \in Orphaning /\ r.next = "idle" /\ r.d.step = s
                    /\ r.d.attempt = run.attempts[s]

CoveredInv ==
    run.closed = "open" =>
        \A s \in InFlight(run) :
            lease[s].fence = run.fences[s] \/ \E w \in Workers : Sweeps(work[w], s)

Inv ==
    /\ TypeOK /\ BaseInv
    /\ ~SlowCommits => TimelyInv
    /\ ~SlowCommits /\ SweepsSurvive => CoveredInv

------------------------------------------------------------------------------
(* The events of the log: what each leaves of a run and what it changes.    *)

(* Every event but STEP_DISPATCHED leaves the attempts and the fences       *)
(* alone, and puts no step back in flight.                                  *)
Appended(n, r) ==
    /\ n \in RunStates
    /\ n.pinned = r.pinned /\ n.attempts = r.attempts /\ n.fences = r.fences
    /\ \A t \in Steps : n.terminal[t] = "none" => r.terminal[t] = "none"

LEMMA VerdictFolds ==
    ASSUME NEW r \in RunStates, NEW s \in Steps
    PROVE  /\ Appended(FoldSucceeded(r, s), r) /\ FoldSucceeded(r, s).closed = r.closed
           /\ FoldSucceeded(r, s).terminal = [r.terminal EXCEPT ![s] = "succeeded"]
           /\ Appended(FoldFailed(r, s), r) /\ FoldFailed(r, s).closed = r.closed
           /\ FoldFailed(r, s).terminal = [r.terminal EXCEPT ![s] = "failed"]
           /\ Appended(FoldAwaiting(r, s), r) /\ FoldAwaiting(r, s).closed = r.closed
           /\ FoldAwaiting(r, s).terminal = r.terminal
BY DEF FoldSucceeded, FoldFailed, FoldAwaiting, RunStates, Verdicts, Appended

LEMMA LostFold ==
    ASSUME NEW r \in RunStates, NEW s \in Steps, NEW a \in Nat
    PROVE  LET n == FoldLost(r, s, a) IN
           /\ Appended(n, r) /\ n.closed = r.closed
           /\ a >= r.attempts[s] => n.terminal = [r.terminal EXCEPT ![s] = "failed"]
           /\ ~(a >= r.attempts[s]) => n.terminal = r.terminal
BY DEF FoldLost, RunStates, Verdicts, Appended

LEMMA ClosedFold ==
    ASSUME NEW r \in RunStates, NEW how \in Endings
    PROVE  /\ Appended(FoldClosed(r, how), r) /\ FoldClosed(r, how).terminal = r.terminal
           /\ FoldClosed(r, how).closed = IF r.closed = "open" THEN how ELSE r.closed
BY DEF FoldClosed, RunStates, Endings, Appended

------------------------------------------------------------------------------
(* What every step has in common.                                           *)

\* The log only grows, and a fence of the past is the current one only as long
\* as it stays so; an abandoned offer is never fresh again.
Forward ==
    /\ run'.pinned = run.pinned /\ everDone \subseteq everDone'
    /\ \A s \in Steps : run'.attempts[s] \in run.attempts[s] .. MaxAttempts(s)
    /\ dispatched \subseteq dispatched' /\ lastFence' >= lastFence
    /\ \A s \in Steps : lease'[s].fence \in 1 .. lastFence =>
          /\ lease'[s].fence = lease[s].fence /\ lease'[s].attempt = lease[s].attempt
          /\ lease[s].age = "abandoned" => lease'[s].age = "abandoned"

(* What a run may be closed as, it may still be closed as later.            *)
LEMMA EarnedForward ==
    ASSUME TypeOK, TypeOK', Forward, NEW how, Earned(how)
    PROVE  Earned(how)'
<1>1. \A s \in Repeatable : MaxAttempts(s) = MaxTries /\ s \in Steps
  BY RunStateAssumption DEF MaxAttempts
<1>2. \A s \in Steps : run.attempts[s] \in Nat /\ run'.attempts[s] \in Nat
  BY DEF TypeOK, RunStates
<1>3. ASSUME NEW s \in Repeatable, run.attempts[s] = MaxTries PROVE run'.attempts[s] = MaxTries
  <2>1. run'.attempts[s] \in run.attempts[s] .. MaxAttempts(s)
    BY <1>1 DEF Forward
  <2> QED BY <1>1, <1>2, <1>3, <2>1, RunStateAssumption
<1> QED BY <1>3 DEF Earned, Forward

(* What a worker knows stays true while others take steps.                  *)
LEMMA PlanForward ==
    ASSUME TypeOK, TypeOK', Forward, NEW r \in Work, PlanOK(r),
           r.pc \in Offering => \A e \in dispatched' \ dispatched : e.fence # r.d.fence
    PROVE  PlanOK(r)'
<1>1. Earned(r.pc)' /\ Earned(r.next)'
  BY EarnedForward DEF PlanOK
<1>2. ASSUME NEW s \in Steps, NEW a \in Nat, Allowed(s, a) PROVE Allowed(s, a)'
  <2>1. run.attempts[s] \in Nat /\ run'.attempts[s] \in Nat
    BY DEF TypeOK, RunStates
  <2> QED BY <1>2, <2>1 DEF Allowed, Forward
<1>3. \A t \in r.todo : t[1] \in Steps /\ t[2] \in Nat
  BY DEF Work
<1>4. lastFence \in Nat /\ lastFence' \in Nat /\ lastFence' >= lastFence
  BY DEF TypeOK, Forward
<1>5. r.d \in Dispatches /\ r.d.fence \in 1 .. lastFence /\ Current(r.d)' =>
          /\ Current(r.d) /\ lease'[r.d.step].attempt = lease[r.d.step].attempt
          /\ lease[r.d.step].age = "abandoned" => lease'[r.d.step].age = "abandoned"
  BY DEF Forward, Current, Dispatches
<1>6. \A t \in r.todo : Allowed(t[1], t[2])'
  BY <1>2, <1>3 DEF PlanOK
<1>7. r.pc \in Offering => Allowed(r.d.step, r.d.attempt)'
  BY <1>2 DEF PlanOK, Dispatches
<1> QED BY <1>1, <1>4, <1>5, <1>6, <1>7 DEF PlanOK, Forward

(* A step of the log that is not a dispatch leaves what is known of the     *)
(* leases and the bus as it is.                                             *)
LEMMA AppendForward ==
    ASSUME Inv, Appended(run', run), UNCHANGED <<leases, dispatched>>, everDone \subseteq everDone'
    PROVE  Forward
<1>1. \A s \in Steps : run.attempts[s] \in Nat /\ MaxAttempts(s) \in Nat
  BY RunStateAssumption DEF Inv, TypeOK, RunStates, MaxAttempts
<1>2. \A s \in Steps : run.attempts[s] <= MaxAttempts(s)
  BY DEF Inv, BaseInv, LogInv
<1>3. \A s \in Steps : run'.attempts[s] \in run.attempts[s] .. MaxAttempts(s)
  BY <1>1, <1>2 DEF Appended
<1>4. lastFence' >= lastFence
  BY DEF leases, Inv, TypeOK
<1> QED BY <1>3, <1>4 DEF Appended, Forward, leases

SameOffer(w, r) == r.pc \in Offering => work[w].pc \in Offering /\ r.d = work[w].d

\* What the worker was to sweep it still is to sweep, or it is not in flight.
StillSwept(w, r) ==
    \A s \in InFlight(run') : SweepsSurvive /\ run'.closed = "open" /\ Sweeps(work[w], s)
                                  => Sweeps(r, s)

\* Worker w goes on to r, and r says nothing that is not so.
Moves(w, r) ==
    /\ r \in Work /\ work' = [work EXCEPT ![w] = r]
    /\ PlanOK(r) /\ SameOffer(w, r)
    /\ ~SlowCommits => TimelyOK(r)

(* A worker that goes on to r, and may append an event other than a         *)
(* dispatch and drop reports that the run does not wait for.                *)
LEMMA WorkerStep ==
    ASSUME Inv, NEW w \in Workers, NEW r, Moves(w, r),
           Appended(run', run), run'.closed = run.closed \/ Earned(run'.closed),
           run'.closed = "open" => run.closed = "open",
           resting' \subseteq Steps,
           everDone' = everDone \cup {s \in Steps : run'.terminal[s] = "succeeded"},
           \A s \in Steps : run'.terminal[s] = "succeeded" => s \in run.pinned,
           statuses' \subseteq statuses,
           \A m \in statuses \ statuses' : ~Waiting(m.d)',
           UNCHANGED <<leases, outbox, queue, job, dispatched, started>>, faults' \in Nat,
           StillSwept(w, r)
    PROVE  Inv'
<1>0. /\ r \in Work /\ work' = [work EXCEPT ![w] = r]
      /\ PlanOK(r) /\ SameOffer(w, r) /\ (~SlowCommits => TimelyOK(r))
  BY DEF Moves
<1>1. TypeOK /\ BaseInv
  BY DEF Inv
<1>2. TypeOK'
  BY <1>0, <1>1 DEF TypeOK, Appended, leases
<1>3. Forward
  BY AppendForward
<1>4. UNCHANGED <<lease, renewed, lastFence>>
  BY DEF leases
<1>5. \A v \in Workers : work'[v] = IF v = w THEN r ELSE work[v]
  BY <1>0, <1>1 DEF TypeOK
<1>6. BaseInv'
  <2>1. \A v \in Workers : PlanOK(work[v])
    BY <1>1 DEF BaseInv
  <2>2. ASSUME NEW v \in Workers PROVE PlanOK(work[v])'
    <3>1. work'[v] \in Work /\ PlanOK(work'[v])
      BY <1>0, <1>2, <1>5, <2>1 DEF TypeOK
    <3>2. PICK q \in Work : q = work'[v] /\ PlanOK(q)
      BY <3>1
    <3>3. PlanOK(q)'
      BY <1>1, <1>2, <1>3, <3>2, PlanForward
    <3> QED BY <3>2, <3>3
  <2>3. FencesApart'
    BY <1>0, <1>1, <1>5 DEF BaseInv, FencesApart, SameOffer
  <2>4. LeaseInv'
    BY <1>1, <1>4 DEF BaseInv, LeaseInv, Current
  <2>5. BusInv'
    BY <1>1 DEF BaseInv, BusInv
  <2>6. LogInv'
    BY <1>1, <1>4 DEF BaseInv, LogInv, Appended
  <2>7. Earned(run.closed)'
    <3>1. PICK how : how = run'.closed /\ Earned(how)
      BY <1>1 DEF BaseInv
    <3>2. Earned(how)'
      BY <1>1, <1>2, <1>3, <3>1, EarnedForward
    <3> QED BY <3>1, <3>2
  <2> QED BY <2>2, <2>3, <2>4, <2>5, <2>6, <2>7 DEF BaseInv
<1>7. ASSUME ~SlowCommits PROVE TimelyInv'
  <2>1. TimelyInv
    BY <1>7 DEF Inv
  <2>2. ASSUME NEW v \in Workers PROVE TimelyOK(work[v])'
    <3>1. PICK q \in Work : q = work'[v] /\ TimelyOK(q)
      BY <1>0, <1>2, <1>5, <1>7, <2>1 DEF TypeOK, TimelyInv
    <3>2. \A t \in q.todo : t[1] \in Steps
      BY DEF Work
    <3>3. TimelyOK(q)'
      BY <1>4, <3>1, <3>2 DEF TimelyOK, Appended, Current
    <3> QED BY <3>1, <3>3
  <2>3. OneDispatchPerAttempt' /\ CountInv'
    BY <2>1 DEF TimelyInv, OneDispatchPerAttempt, CountInv, DispatchesOf, Appended
  <2>4. HandedInv'
    <3> SUFFICES ASSUME NEW d \in dispatched, Waiting(d)' PROVE Handed(d)'
      BY DEF HandedInv
    <3>1. d \in Dispatches
      BY <1>1 DEF TypeOK
    <3>2. Waiting(d)
      BY <1>4, <3>1 DEF Waiting, Current, Appended, Dispatches
    <3>3. Handed(d)
      BY <2>1, <3>2 DEF TimelyInv, HandedInv
    <3>4. \A m \in statuses : m.d = d => m \in statuses'
      OBVIOUS
    <3> QED BY <3>3, <3>4 DEF Handed
  <2> QED BY <2>2, <2>3, <2>4 DEF TimelyInv
<1>8. ASSUME ~SlowCommits, SweepsSurvive PROVE CoveredInv'
  <2> SUFFICES ASSUME run'.closed = "open", NEW s \in InFlight(run'),
                      lease'[s].fence # run'.fences[s]
               PROVE  \E v \in Workers : Sweeps(work[v], s)'
    BY DEF CoveredInv
  <2>1. s \in InFlight(run) /\ lease[s].fence # run.fences[s] /\ run.closed = "open" /\ s \in Steps
    BY <1>1, <1>4 DEF InFlight, Appended, TypeOK, RunStates
  <2>2. PICK v \in Workers : Sweeps(work[v], s)
    BY <1>8, <2>1 DEF Inv, CoveredInv
  <2>3. PICK q \in Work : q = work'[v] /\ Sweeps(q, s)
    BY <1>2, <1>5, <1>8, <2>2 DEF StillSwept, TypeOK
  <2>4. Sweeps(q, s)'
    BY <2>3 DEF Sweeps, Appended
  <2> QED BY <2>3, <2>4
<1> QED BY <1>2, <1>6, <1>7, <1>8 DEF Inv

(* The same with nothing appended.                                          *)
LEMMA QuietStep ==
    ASSUME Inv, NEW w \in Workers, NEW r, Moves(w, r),
           UNCHANGED <<run, resting, leases, outbox, queue, job, history>>,
           statuses' \subseteq statuses,
           \A m \in statuses \ statuses' : ~Waiting(m.d),
           faults' \in Nat,
           work[w].pc \in Orphaning => StillSwept(w, r)
    PROVE  Inv'
<1>1. Appended(run', run)
  BY DEF Inv, TypeOK, Appended
<1>2. /\ everDone' = everDone \cup {s \in Steps : run'.terminal[s] = "succeeded"}
      /\ \A s \in Steps : run'.terminal[s] = "succeeded" => s \in run.pinned
  BY DEF Inv, BaseInv, LogInv, history
<1>3. \A m \in statuses \ statuses' : ~Waiting(m.d)'
  BY DEF Waiting, Current, leases
<1>4. StillSwept(w, r)
  BY DEF StillSwept, Sweeps
<1>5. resting' \subseteq Steps /\ UNCHANGED <<dispatched, started>>
  BY DEF Inv, TypeOK, history
<1> QED BY <1>1, <1>2, <1>3, <1>4, <1>5, WorkerStep

\* A worker with nothing in hand but the rest T of its plan.
Rest(p, T) == [pc |-> p, todo |-> T, blocked |-> {}, next |-> "idle",
               d |-> NoDispatch, outcome |-> "none", aged |-> FALSE]

(* Where the steps of a worker leave it once they are done.                 *)
LEMMA RestForms ==
    /\ IdleWork = Rest("idle", {})
    /\ \A p \in Places : [IdleWork EXCEPT !.pc = p] = Rest(p, {})
    /\ \A p \in Places : \A T : [IdleWork EXCEPT !.pc = p, !.todo = T] = Rest(p, T)
<1>1. IdleWork = Rest("idle", {})
  BY DEF IdleWork, Rest
<1>2. ASSUME NEW p \in Places, NEW r, r = [IdleWork EXCEPT !.pc = p]
      PROVE  r = Rest(p, {})
  BY <1>2 DEF IdleWork, Rest
<1>3. ASSUME NEW p \in Places, NEW T, NEW r, r = [IdleWork EXCEPT !.pc = p, !.todo = T]
      PROVE  r = Rest(p, T)
  BY <1>3 DEF IdleWork, Rest
<1> QED BY <1>1, <1>2, <1>3, Zenon

(* A worker that goes on with the rest of its plan, or starts over.         *)
LEMMA RestOK ==
    ASSUME Inv, NEW w \in Workers, NEW T \in SUBSET work[w].todo,
           NEW p \in {"idle", "advance", "dispatch", "fail", "complete"},
           p = "dispatch" => T # {}, Earned(p)
    PROVE  /\ Rest(p, T) \in Work /\ PlanOK(Rest(p, T)) /\ SameOffer(w, Rest(p, T))
           /\ ~SlowCommits => TimelyOK(Rest(p, T))
<1>1. PICK r : r = Rest(p, T)
  OBVIOUS
<1>2. /\ r.pc = p /\ r.todo = T /\ r.blocked = {} /\ r.next = "idle" /\ r.d = NoDispatch
      /\ r.outcome = "none" /\ r.aged = FALSE
  BY <1>1 DEF Rest
<1>3. r \in Work
  <2>1. T \in SUBSET (Steps \X Nat) /\ p \in Places
    BY DEF Inv, TypeOK, Work, Places
  <2> QED BY <1>1, <2>1 DEF Rest, Work, Verdicts
<1>4. PlanOK(work[w]) /\ (~SlowCommits => TimelyOK(work[w]))
  BY DEF Inv, BaseInv, TimelyInv
<1>5. \A t \in T : Allowed(t[1], t[2])
  BY <1>4 DEF PlanOK
<1>6. p \notin Offering \cup Applying \cup Orphaning \cup Surfacing
  BY DEF Offering, Applying, Orphaning, Surfacing
<1>7. PlanOK(r)
  BY <1>2, <1>5, <1>6 DEF PlanOK, Earned, Surfacing
<1>8. ~SlowCommits => TimelyOK(r)
  BY <1>2, <1>4 DEF TimelyOK
<1> QED BY <1>1, <1>2, <1>3, <1>6, <1>7, <1>8 DEF SameOffer

(* What the workers do when they are done with a step.                      *)
LEMMA DoneMoves ==
    ASSUME Inv, NEW w \in Workers,
           NextStep(w) \/ AdvanceAgain(w) \/ Become(w, IdleWork)
    PROVE  \E r : Moves(w, r) /\ r.pc \in {"idle", "advance", "dispatch"}
<1>1. {} \in SUBSET work[w].todo /\ work[w].todo \in SUBSET work[w].todo
  OBVIOUS
<1>2. {"idle", "advance", "dispatch"} \subseteq Places
  BY DEF Places
<1>3. ASSUME NEW p \in {"idle", "advance", "dispatch"}, NEW T \in SUBSET work[w].todo,
             p = "dispatch" => T # {}, work' = [work EXCEPT ![w] = Rest(p, T)]
      PROVE  Moves(w, Rest(p, T)) /\ Rest(p, T).pc = p
  BY <1>3, RestOK DEF Moves, Rest, Earned
<1>4. CASE NextStep(w)
  <2> DEFINE p == IF work[w].todo = {} THEN "idle" ELSE "dispatch"
  <2>1. work' = [work EXCEPT ![w] = [IdleWork EXCEPT !.pc = p, !.todo = work[w].todo]]
    BY <1>4 DEF NextStep, Become
  <2>2. p \in {"idle", "advance", "dispatch"} /\ (p = "dispatch" => work[w].todo # {})
    OBVIOUS
  <2> HIDE DEF p
  <2>3. work' = [work EXCEPT ![w] = Rest(p, work[w].todo)]
    BY <1>2, <2>1, <2>2, RestForms, Zenon
  <2> QED BY <1>1, <1>3, <2>2, <2>3
<1>5. CASE AdvanceAgain(w)
  <2>1. work' = [work EXCEPT ![w] = Rest("advance", {})]
    BY <1>2, <1>5, RestForms, Zenon DEF AdvanceAgain, Become
  <2> QED BY <1>1, <1>3, <2>1
<1>6. CASE Become(w, IdleWork)
  <2>1. work' = [work EXCEPT ![w] = Rest("idle", {})]
    BY <1>6, RestForms, Zenon DEF Become
  <2> QED BY <1>1, <1>3, <2>1
<1> QED BY <1>4, <1>5, <1>6

(* The same when what follows is the verdict the plan came to.              *)
LEMMA NextMoves ==
    ASSUME Inv, NEW w \in Workers, work[w].next # "dispatch",
           Become(w, [IdleWork EXCEPT !.pc = work[w].next])
    PROVE  \E r : Moves(w, r) /\ r.pc \notin Orphaning
<1>1. /\ work[w].next \in {"idle", "advance", "fail", "complete"} /\ Earned(work[w].next)
      /\ {} \in SUBSET work[w].todo
  BY DEF Inv, TypeOK, Work, BaseInv, PlanOK
<1>2. PICK p : p = work[w].next
  OBVIOUS
<1>3. work' = [work EXCEPT ![w] = Rest(p, {})]
  <2>1. p \in Places
    BY <1>1, <1>2 DEF Places
  <2> QED BY <1>2, <2>1, RestForms, Zenon DEF Become
<1>4. Rest(p, {}).pc = p /\ p \notin Orphaning
  BY <1>1, <1>2 DEF Rest, Orphaning
<1>5. Moves(w, Rest(p, {}))
  BY <1>1, <1>2, <1>3, RestOK DEF Moves
<1> QED BY <1>4, <1>5

(* A worker that only moves on from one place to the next.                  *)
LEMMA SameWork ==
    ASSUME Inv, NEW w \in Workers, NEW p \in Places, NEW r, r = [work[w] EXCEPT !.pc = p]
    PROVE  /\ r \in Work /\ r.pc = p /\ r.todo = work[w].todo /\ r.next = work[w].next
           /\ r.d = work[w].d /\ r.aged = work[w].aged /\ r.outcome = work[w].outcome
BY DEF Inv, TypeOK, Work

------------------------------------------------------------------------------
(* The plan.                                                                *)

(* A step is ready only as an attempt its class allows, and never while an  *)
(* attempt is in flight.                                                    *)
LEMMA ReadyFacts ==
    ASSUME Inv, NEW s \in Ready(run, resting)
    PROVE  /\ s \in Steps /\ Allowed(s, run.attempts[s] + 1)
           /\ run.terminal[s] # "none" \/ run.attempts[s] = 0
<1>1. s \in run.pinned /\ s \in Steps /\ run.attempts[s] \in Nat /\ MaxAttempts(s) \in Nat \ {0}
  BY RunStateAssumption DEF Inv, TypeOK, RunStates, Ready, Retrying, Failed, MaxAttempts
<1>2. run.attempts[s] < MaxAttempts(s)
  BY <1>1 DEF Ready, Retrying, AllowsRetry
<1> QED BY <1>1, <1>2 DEF Allowed, Ready, Retrying, Failed

(* A set of steps that is not empty has a least one.                        *)
LEMMA LeastStep ==
    ASSUME NEW S \in SUBSET Nat, S # {}
    PROVE  \E x \in S : \A y \in S : x =< y
<1>1. PICK x \in S : \A y \in S : ~(<<y, x>> \in OpToRel(<, Nat))
  BY WFMin, NatLessThanWellFounded
<1>2. ASSUME NEW y \in S PROVE x =< y
  <2>1. y < x => <<y, x>> \in OpToRel(<, Nat)
    <3>1. <<y, x>> \in Nat \X Nat /\ <<y, x>>[1] = y /\ <<y, x>>[2] = x
      OBVIOUS
    <3> QED BY <3>1 DEF OpToRel
  <2>2. ~(y < x)
    BY <1>1, <2>1
  <2> QED BY <2>2
<1> QED BY <1>2

(* A quiet run without a failed step has succeeded in every step: the least *)
(* step that had not would be ready or in flight.                           *)
LEMMA QuietIsDone ==
    ASSUME Inv, Quiet(run), Exhausted(run) = {}, Blocked(run) = {}
    PROVE  run.pinned \subseteq everDone
<1> DEFINE open == {s \in run.pinned : run.terminal[s] # "succeeded"}
<1>1. run \in RunStates /\ run.pinned \in Pipelines /\ run.pinned \subseteq Steps
  BY DEF Inv, TypeOK, BaseInv, LogInv, RunStates
<1>2. SUFFICES ASSUME open # {} PROVE FALSE
  BY <1>1 DEF Inv, BaseInv, LogInv
<1>3. open \in SUBSET Nat
  BY <1>1, RunStateAssumption
<1>4. PICK s \in open : \A t \in open : s =< t
  BY <1>2, <1>3, LeastStep
<1>5. s \in Steps /\ run.terminal[s] \in Verdicts /\ run.attempts[s] \in Nat
  BY <1>1 DEF RunStates
<1>6. CASE run.terminal[s] = "failed"
  <2>1. s \in Failed(run)
    BY <1>6 DEF Failed
  <2>2. MaxAttempts(s) \in Nat
    BY RunStateAssumption DEF MaxAttempts
  <2>3. s \in Retrying(run)
    BY <2>1, <2>2 DEF Retrying, Blocked, Exhausted
  <2> QED BY <2>3 DEF Quiet, Ready
<1>7. CASE run.terminal[s] = "none"
  <2>1. run.attempts[s] = 0
    BY <1>5, <1>7 DEF Quiet, InFlight
  <2>2. PICK p \in Preds[s] : run.terminal[p] # "succeeded"
    BY <1>7, <2>1 DEF Quiet, Ready, Satisfied
  <2>3. p \in run.pinned /\ p < s
    BY <1>1, <1>5, RunStateAssumption, SchedulerAssumption
  <2>4. p \in open /\ p \in Nat /\ s \in Nat
    BY <1>3, <2>2, <2>3
  <2> QED BY <1>4, <2>3, <2>4
<1> QED BY <1>5, <1>6, <1>7 DEF Verdicts

(* An exhausted step has used up the attempts its class allows.             *)
LEMMA ExhaustedIsSpent ==
    ASSUME Inv, NEW s \in Exhausted(run)
    PROVE  s \in Repeatable /\ run.attempts[s] = MaxTries
<1>1. s \in Steps /\ run.attempts[s] \in Nat /\ MaxAttempts(s) \in Nat
  BY RunStateAssumption DEF Inv, TypeOK, RunStates, Exhausted, Failed, MaxAttempts
<1>2. run.attempts[s] <= MaxAttempts(s)
  BY <1>1 DEF Inv, BaseInv, LogInv
<1>3. MaxAttempts(s) > 1 /\ ~(run.attempts[s] < MaxAttempts(s))
  BY DEF Exhausted, AllowsRetry
<1> QED BY <1>1, <1>2, <1>3 DEF MaxAttempts

------------------------------------------------------------------------------
(* Advance.                                                                 *)

(* A step of a worker that leaves everything but its own work alone.        *)
LEMMA JustMoves ==
    ASSUME Inv, NEW w \in Workers, NEW r, Moves(w, r),
           UNCHANGED <<run, resting, leases, bus, history>>, faults' \in Nat,
           work[w].pc \in Orphaning => StillSwept(w, r)
    PROVE  Inv'
<1>1. UNCHANGED <<run, resting, leases, outbox, queue, job, history>> /\ statuses' = statuses
  BY DEF bus
<1> QED BY <1>1, QuietStep

(* The replay and the plan made from it.                                    *)
LEMMA AdvanceLoadStep ==
    ASSUME Inv, NEW w \in Workers, AdvanceLoad(w)
    PROVE  Inv'
<1> DEFINE ready == Ready(run, resting)
           verdict == CASE ~Quiet(run) -> "dispatch"
                        [] Quiet(run) /\ Exhausted(run) # {} -> "fail"
                        [] Quiet(run) /\ Exhausted(run) = {} /\ Blocked(run) # {} -> "idle"
                        [] OTHER -> "complete"
           blocked == Blocked(run) \ run.awaiting
           todo == {<<s, run.attempts[s] + 1>> : s \in ready}
           pc == IF blocked # {} THEN "await"
                 ELSE IF verdict = "dispatch" /\ ready = {} THEN "idle" ELSE verdict
           next == IF blocked # {} THEN verdict ELSE "idle"
<1>1. UNCHANGED <<run, resting, leases, bus, history>> /\ faults' \in Nat
      /\ work[w].pc \notin Orphaning
  BY DEF AdvanceLoad, Inv, TypeOK, At, Orphaning
<1>2. CASE run.closed # "open"
  <2>1. Become(w, IdleWork)
    BY <1>2 DEF AdvanceLoad
  <2> QED BY <1>1, <2>1, DoneMoves, JustMoves
<1>3. CASE run.closed = "open"
  <2>1. PICK r : /\ r = [IdleWork EXCEPT !.pc = pc, !.todo = todo, !.blocked = blocked, !.next = next]
                 /\ work' = [work EXCEPT ![w] = r]
    BY <1>3, Zenon DEF AdvanceLoad, Become
  <2>2. \A s \in ready : /\ s \in Steps /\ Allowed(s, run.attempts[s] + 1)
                         /\ run.terminal[s] # "none" \/ run.attempts[s] = 0
    BY ReadyFacts
  <2>3. todo \in SUBSET (Steps \X Nat)
    <3>1. \A s \in Steps : run.attempts[s] + 1 \in Nat
      BY DEF Inv, TypeOK, RunStates
    <3> QED BY <2>2, <3>1
  <2>4. blocked \in SUBSET Steps
    BY DEF Blocked, Failed, Inv, TypeOK, RunStates
  <2>5. verdict \in {"dispatch", "fail", "idle", "complete"} /\ Earned(verdict)
    <3>1. verdict = "complete" => Quiet(run) /\ Exhausted(run) = {} /\ Blocked(run) = {}
      OBVIOUS
    <3>2. verdict = "fail" => Exhausted(run) # {}
      OBVIOUS
    <3>3. verdict \in {"dispatch", "fail", "idle", "complete"}
      OBVIOUS
    <3> HIDE DEF verdict
    <3> QED BY <3>1, <3>2, <3>3, QuietIsDone, ExhaustedIsSpent DEF Earned
  <2>6. Earned("idle") /\ Earned("await")
    BY DEF Earned
  <2>7. /\ pc \in {"await", "dispatch", "fail", "idle", "complete"} /\ Earned(pc)
        /\ next \in {"dispatch", "fail", "idle", "complete"} /\ Earned(next)
        /\ pc = "dispatch" => ready # {}
    <3> HIDE DEF verdict
    <3> QED BY <2>5, <2>6
  <2>8. \A t \in todo : \E s \in ready : t[1] = s /\ t[2] = run.attempts[s] + 1
    OBVIOUS
  <2>9. ready # {} => todo # {}
    OBVIOUS
  <2> HIDE DEF ready, verdict, blocked, todo, pc, next
  <2>10. r = [pc |-> pc, todo |-> todo, blocked |-> blocked, next |-> next,
              d |-> NoDispatch, outcome |-> "none", aged |-> FALSE]
    BY <2>1 DEF IdleWork
  <2>11. r \in Work
    BY <2>3, <2>4, <2>7, <2>10 DEF Work, Places, Verdicts
  <2>12. /\ r.pc = pc /\ r.todo = todo /\ r.next = next
         /\ pc \notin Offering \cup Applying \cup Orphaning \cup Surfacing
    BY <2>7, <2>10 DEF Offering, Applying, Orphaning, Surfacing
  <2>13. PlanOK(r)
    BY <2>2, <2>7, <2>8, <2>9, <2>12 DEF PlanOK, Surfacing
  <2>14. TimelyOK(r)
    BY <2>2, <2>7, <2>8, <2>12 DEF TimelyOK
  <2>15. Moves(w, r)
    BY <2>1, <2>11, <2>12, <2>13, <2>14 DEF Moves, SameOffer
  <2> QED BY <1>1, <2>15, JustMoves
<1> QED BY <1>2, <1>3

(* recordAwaitingReplay: the blocked steps, one by one.                     *)
LEMMA RecordAwaitingStep ==
    ASSUME Inv, NEW w \in Workers, RecordAwaiting(w)
    PROVE  Inv'
<1>1. PICK s \in work[w].blocked :
          /\ Append(FoldAwaiting(run, s))
          /\ IF work[w].blocked \ {s} # {} THEN Become(w, [work[w] EXCEPT !.blocked = work[w].blocked \ {s}])
             ELSE IF work[w].next = "dispatch" THEN NextStep(w)
             ELSE Become(w, [IdleWork EXCEPT !.pc = work[w].next])
  BY DEF RecordAwaiting
<1>2. /\ UNCHANGED <<resting, leases, bus, faults, dispatched, started>>
      /\ work[w].pc = "await" /\ s \in Steps /\ run \in RunStates /\ resting \subseteq Steps
      /\ work[w] \in Work /\ faults \in Nat
      /\ PlanOK(work[w]) /\ (~SlowCommits => TimelyOK(work[w]))
  BY <1>1 DEF RecordAwaiting, At, Inv, TypeOK, BaseInv, TimelyInv, Work
<1>3. /\ Appended(run', run) /\ run'.closed = run.closed /\ run'.terminal = run.terminal
      /\ everDone' = everDone \cup {t \in Steps : run'.terminal[t] = "succeeded"}
  BY <1>1, <1>2, VerdictFolds DEF Append
<1>4. \A t \in Steps : run'.terminal[t] = "succeeded" => t \in run.pinned
  BY <1>3 DEF Inv, BaseInv, LogInv
<1>5. \E r : Moves(w, r)
  <2>1. CASE work[w].blocked \ {s} # {}
    <3>1. PICK r : /\ r = [work[w] EXCEPT !.blocked = work[w].blocked \ {s}]
                   /\ work' = [work EXCEPT ![w] = r]
      BY <1>1, <2>1 DEF Become
    <3>2. /\ r \in Work /\ r.pc = "await" /\ r.todo = work[w].todo /\ r.next = work[w].next
      BY <1>2, <3>1 DEF Work
    <3> QED BY <1>2, <3>1, <3>2 DEF Moves, PlanOK, TimelyOK, SameOffer, Offering, Applying,
                                   Orphaning, Surfacing
  <2>2. CASE work[w].blocked \ {s} = {}
    BY <1>1, <2>2, DoneMoves, NextMoves
  <2> QED BY <2>1, <2>2
<1>6. \A r : StillSwept(w, r)
  BY <1>2 DEF StillSwept, Sweeps, Orphaning
<1>7. UNCHANGED <<leases, outbox, queue, job, dispatched, started>> /\ statuses' = statuses
      /\ faults' \in Nat /\ resting' \subseteq Steps
  BY <1>2 DEF bus
<1> QED BY <1>3, <1>4, <1>5, <1>6, <1>7, WorkerStep

(* complete and fail.                                                       *)
LEMMA CloseRunStep ==
    ASSUME Inv, NEW w \in Workers, CloseRun(w)
    PROVE  Inv'
<1> DEFINE how == IF At(w, "complete") THEN "completed" ELSE "failed"
<1>1. /\ Append(FoldClosed(run, how)) /\ Become(w, IdleWork)
      /\ UNCHANGED <<resting, leases, bus, faults, dispatched, started>>
      /\ work[w].pc \in {"complete", "fail"}
  BY DEF CloseRun, At
<1>2. run \in RunStates /\ resting \subseteq Steps /\ faults \in Nat /\ PlanOK(work[w])
  BY DEF Inv, TypeOK, BaseInv
<1>3. how \in Endings /\ how # "open" /\ Earned(how)
  BY <1>1, <1>2 DEF At, Endings, PlanOK, Earned
<1> HIDE DEF how
<1>4. /\ Appended(run', run) /\ run'.terminal = run.terminal
      /\ run'.closed = IF run.closed = "open" THEN how ELSE run.closed
      /\ everDone' = everDone \cup {t \in Steps : run'.terminal[t] = "succeeded"}
  BY <1>1, <1>2, <1>3, ClosedFold DEF Append
<1>5. \A t \in Steps : run'.terminal[t] = "succeeded" => t \in run.pinned
  BY <1>4 DEF Inv, BaseInv, LogInv
<1>6. PICK r : Moves(w, r)
  BY <1>1, DoneMoves
<1>7. StillSwept(w, r)
  BY <1>1 DEF StillSwept, Sweeps, Orphaning
<1>8. UNCHANGED <<leases, outbox, queue, job, dispatched, started>> /\ statuses' = statuses
      /\ faults' \in Nat /\ resting' \subseteq Steps
  BY <1>1, <1>2 DEF bus
<1> QED BY <1>3, <1>4, <1>5, <1>6, <1>7, <1>8, WorkerStep

------------------------------------------------------------------------------
(* dispatch, up to the commit.                                              *)

(* The log read again after the offer.                                      *)
LEMMA DispatchReloadStep ==
    ASSUME Inv, NEW w \in Workers, DispatchReload(w)
    PROVE  Inv'
<1> DEFINE d == work[w].d
           s == d.step
           sent == run.fences[s]
<1>1. /\ UNCHANGED <<run, resting, leases, bus, history>> /\ faults' \in Nat
      /\ work[w].pc = "reload" /\ work[w].pc \notin Orphaning /\ work[w] \in Work
      /\ PlanOK(work[w]) /\ (~SlowCommits => TimelyOK(work[w]))
  BY DEF DispatchReload, At, Inv, TypeOK, BaseInv, TimelyInv, Orphaning
<1>2. /\ d \in Dispatches /\ s \in Steps /\ d.attempt \in Nat \ {0} /\ run.attempts[s] \in Nat
      /\ Allowed(s, d.attempt)
  BY <1>1 DEF PlanOK, Offering, Dispatches, Allowed, Inv, TypeOK, RunStates
<1>3. CASE run.attempts[s] >= d.attempt /\ sent # 0 /\ sent < d.fence
  <2> DEFINE lost == [step |-> s, attempt |-> run.attempts[s], fence |-> sent]
  <2>1. PICK r : /\ r = [work[w] EXCEPT !.pc = "orphanLoad", !.next = "dispatch", !.d = lost]
                 /\ work' = [work EXCEPT ![w] = r]
    <3>1. ~(run.attempts[s] < d.attempt)
      BY <1>2, <1>3
    <3> QED BY <1>3, <3>1, Zenon DEF DispatchReload, Become
  <2>2. lost \in Dispatches /\ lost.fence \in 1 .. lastFence
    BY <1>2, <1>3 DEF Inv, TypeOK, BaseInv, LogInv
  <2> HIDE DEF lost
  <2>3. /\ r \in Work /\ r.pc = "orphanLoad" /\ r.todo = work[w].todo /\ r.next = "dispatch"
        /\ r.d = lost
    BY <1>1, <2>1, <2>2 DEF Work, Places
  <2>4. Moves(w, r)
    BY <1>1, <2>1, <2>2, <2>3 DEF Moves, PlanOK, TimelyOK, Earned, SameOffer, Offering, Applying,
                                  Surfacing
  <2> QED BY <1>1, <2>4, JustMoves
<1>4. CASE NextStep(w)
  BY <1>1, <1>4, DoneMoves, JustMoves
<1>5. CASE run.attempts[s] < d.attempt /\ Become(w, [work[w] EXCEPT !.pc = "begin"])
  <2>1. PICK r : r = [work[w] EXCEPT !.pc = "begin"] /\ work' = [work EXCEPT ![w] = r]
    BY <1>5 DEF Become
  <2>2. r \in Work /\ r.pc = "begin" /\ r.todo = work[w].todo /\ r.next = work[w].next /\ r.d = d
    BY <2>1, SameWork DEF Places
  <2>3. Moves(w, r)
    BY <1>1, <1>5, <2>1, <2>2 DEF Moves, PlanOK, TimelyOK, Earned, SameOffer, Offering, Applying,
                                  Orphaning, Surfacing
  <2> QED BY <1>1, <2>3, JustMoves
<1>6. \/ run.attempts[s] >= d.attempt /\ sent # 0 /\ sent < d.fence
      \/ NextStep(w)
      \/ ~(run.attempts[s] >= d.attempt) /\ Become(w, [work[w] EXCEPT !.pc = "begin"])
  BY Zenon DEF DispatchReload
<1> QED BY <1>2, <1>3, <1>4, <1>5, <1>6

(* Half of offerGrace and the fence, checked inside the transaction.        *)
LEMMA DispatchBeginStep ==
    ASSUME Inv, NEW w \in Workers, DispatchBegin(w)
    PROVE  Inv'
<1>1. /\ UNCHANGED <<run, resting, leases, bus, history>> /\ faults' \in Nat
      /\ work[w].pc = "begin" /\ work[w].pc \notin Orphaning
      /\ PlanOK(work[w]) /\ (~SlowCommits => TimelyOK(work[w]))
  BY DEF DispatchBegin, At, Inv, TypeOK, BaseInv, TimelyInv, Orphaning
<1>2. CASE NextStep(w)
  BY <1>1, <1>2, DoneMoves, JustMoves
<1>3. CASE /\ Current(work[w].d) /\ lease[work[w].d.step].age = "fresh"
           /\ Become(w, [work[w] EXCEPT !.pc = "commit"])
  <2>1. PICK r : r = [work[w] EXCEPT !.pc = "commit"] /\ work' = [work EXCEPT ![w] = r]
    BY <1>3 DEF Become
  <2>2. /\ r \in Work /\ r.pc = "commit" /\ r.todo = work[w].todo /\ r.next = work[w].next
        /\ r.d = work[w].d
    BY <2>1, SameWork DEF Places
  <2>3. Moves(w, r)
    BY <1>1, <1>3, <2>1, <2>2 DEF Moves, PlanOK, TimelyOK, Earned, SameOffer, Offering, Applying,
                                  Orphaning, Surfacing
  <2> QED BY <1>1, <2>3, JustMoves
<1> QED BY <1>2, <1>3 DEF DispatchBegin

------------------------------------------------------------------------------
(* OnStatus.                                                                *)

(* A report whose fence is not current is one the run does not wait for.    *)
LEMMA StatusValidateStep ==
    ASSUME Inv, NEW w \in Workers, NEW m \in statuses, StatusValidate(w, m)
    PROVE  Inv'
<1>1. /\ UNCHANGED <<run, resting, leases, outbox, queue, job, faults, history>>
      /\ faults' \in Nat /\ work[w].pc = "idle" /\ work[w].pc \notin Orphaning
  BY DEF StatusValidate, At, Inv, TypeOK, Orphaning
<1>2. /\ m.d \in dispatched /\ m.d \in Dispatches /\ m.outcome \in Verdicts
      /\ m.d.fence \in 1 .. lastFence
  BY DEF Inv, BaseInv, BusInv, TypeOK, LogInv
<1>3. CASE Current(m.d)
  <2>1. PICK r : /\ r = [IdleWork EXCEPT !.pc = "statusLoad", !.d = m.d, !.outcome = m.outcome]
                 /\ work' = [work EXCEPT ![w] = r]
    BY <1>3 DEF StatusValidate, Become
  <2>2. r = [pc |-> "statusLoad", todo |-> {}, blocked |-> {}, next |-> "idle",
             d |-> m.d, outcome |-> m.outcome, aged |-> FALSE]
    BY <2>1 DEF IdleWork
  <2>3. r \in Work
    BY <1>2, <2>2 DEF Work, Places
  <2>4. r.pc = "statusLoad" /\ r.todo = {} /\ r.next = "idle" /\ r.d = m.d
    BY <2>2
  <2>6. Moves(w, r)
    BY <1>2, <2>1, <2>3, <2>4 DEF Moves, PlanOK, TimelyOK, Earned, SameOffer, Offering, Applying,
                                  Surfacing
  <2>5. statuses' = statuses
    BY <1>3 DEF StatusValidate
  <2> QED BY <1>1, <2>5, <2>6, QuietStep
<1>4. CASE ~Current(m.d)
  <2>1. statuses' = statuses \ {m} /\ work' = work
    BY <1>4 DEF StatusValidate
  <2>2. PICK r : r = work[w]
    OBVIOUS
  <2>3. Moves(w, r)
    BY <2>1, <2>2 DEF Moves, SameOffer, Inv, TypeOK, BaseInv, TimelyInv
  <2>4. \A n \in statuses \ statuses' : ~Waiting(n.d)
    BY <1>4, <2>1 DEF Waiting
  <2> QED BY <1>1, <2>1, <2>3, <2>4, QuietStep
<1> QED BY <1>3, <1>4

(* A step that already has a verdict keeps it.                              *)
LEMMA StatusLoadStep ==
    ASSUME Inv, NEW w \in Workers, StatusLoad(w)
    PROVE  Inv'
<1> DEFINE m == [d |-> work[w].d, outcome |-> work[w].outcome]
<1>1. /\ UNCHANGED <<run, resting, leases, outbox, queue, job, faults, history>>
      /\ faults' \in Nat /\ work[w].pc = "statusLoad" /\ work[w].pc \notin Orphaning
      /\ PlanOK(work[w]) /\ (~SlowCommits => TimelyOK(work[w]))
  BY DEF StatusLoad, At, Inv, TypeOK, Orphaning, BaseInv, TimelyInv
<1>2. CASE run.terminal[work[w].d.step] # "none"
  <2>1. AdvanceAgain(w) /\ statuses' = statuses \ {m}
    BY <1>2 DEF StatusLoad
  <2>2. \A n \in statuses \ statuses' : ~Waiting(n.d)
    BY <1>2, <2>1 DEF Waiting
  <2>3. statuses' \subseteq statuses
    BY <2>1
  <2> QED BY <1>1, <2>1, <2>2, <2>3, DoneMoves, QuietStep
<1>3. CASE run.terminal[work[w].d.step] = "none"
  <2>1. PICK r : r = [work[w] EXCEPT !.pc = "statusAppend"] /\ work' = [work EXCEPT ![w] = r]
    BY <1>3 DEF StatusLoad, Become
  <2>2. /\ r \in Work /\ r.pc = "statusAppend" /\ r.todo = work[w].todo /\ r.next = work[w].next
        /\ r.d = work[w].d
    BY <2>1, SameWork DEF Places
  <2>3. Moves(w, r)
    BY <1>1, <2>1, <2>2 DEF Moves, PlanOK, TimelyOK, Earned, SameOffer, Offering, Applying,
                            Orphaning, Surfacing
  <2>4. statuses' = statuses
    BY <1>3 DEF StatusLoad
  <2> QED BY <1>1, <2>3, <2>4, QuietStep
<1> QED BY <1>2, <1>3

(* The verdict is appended, and the report acknowledged or not.             *)
LEMMA StatusAppendStep ==
    ASSUME Inv, NEW w \in Workers, StatusAppend(w)
    PROVE  Inv'
<1> DEFINE d == work[w].d
           m == [d |-> d, outcome |-> work[w].outcome]
<1>1. /\ UNCHANGED <<leases, outbox, queue, job, dispatched, started>> /\ AdvanceAgain(w)
      /\ work[w].pc = "statusAppend" /\ PlanOK(work[w])
      /\ run \in RunStates /\ resting \subseteq Steps /\ faults \in Nat /\ MaxFaults \in Nat
  BY SchedulerAssumption DEF StatusAppend, At, Inv, TypeOK, BaseInv
<1>2. d \in dispatched /\ d.step \in Steps /\ d.step \in run.pinned
  BY <1>1 DEF PlanOK, Applying, Inv, BaseInv, LogInv, TypeOK, Dispatches
<1>3. /\ run' = FoldSucceeded(run, d.step) \/ run' = FoldFailed(run, d.step)
      /\ everDone' = everDone \cup {t \in Steps : run'.terminal[t] = "succeeded"}
      /\ resting' \subseteq Steps
  BY <1>1, <1>2 DEF StatusAppend, Append
<1>4. /\ Appended(run', run) /\ run'.closed = run.closed
      /\ \E v \in {"succeeded", "failed"} : run'.terminal = [run.terminal EXCEPT ![d.step] = v]
      /\ run.terminal \in [Steps -> Verdicts]
  BY <1>1, <1>2, <1>3, VerdictFolds DEF RunStates
<1>5. \A t \in Steps : run'.terminal[t] = "succeeded" => t \in run.pinned
  BY <1>2, <1>4 DEF Inv, BaseInv, LogInv
<1>6. /\ statuses' \subseteq statuses /\ faults' \in Nat
      /\ \A n \in statuses \ statuses' : n = m
  BY <1>1 DEF StatusAppend, Fault
<1>7. \A n \in statuses \ statuses' : ~Waiting(n.d)'
  BY <1>2, <1>4, <1>6 DEF Waiting
<1>8. PICK r : Moves(w, r)
  BY <1>1, DoneMoves
<1>9. StillSwept(w, r)
  BY <1>1 DEF StillSwept, Sweeps, Orphaning
<1> QED BY <1>1, <1>3, <1>4, <1>5, <1>6, <1>7, <1>8, <1>9, WorkerStep

------------------------------------------------------------------------------
(* SweepOrphans, without the steps that touch a lease.                      *)

(* recordOrphan's guards let an attempt go only if it is not in flight.     *)
LEMMA OrphanLoadStep ==
    ASSUME Inv, NEW w \in Workers, OrphanLoad(w)
    PROVE  Inv'
<1> DEFINE d == work[w].d
           gone == run.closed # "open" \/ run.terminal[d.step] # "none" \/ run.attempts[d.step] # d.attempt
<1>1. /\ UNCHANGED <<run, resting, leases, bus, history>> /\ faults' \in Nat
      /\ work[w].pc = "orphanLoad"
      /\ PlanOK(work[w]) /\ (~SlowCommits => TimelyOK(work[w]))
  BY DEF OrphanLoad, At, Inv, TypeOK, BaseInv, TimelyInv
<1>2. CASE gone
  <2>1. \A r : StillSwept(w, r)
    BY <1>1, <1>2 DEF StillSwept, Sweeps, InFlight
  <2>2. \E r : Moves(w, r)
    BY <1>2, DoneMoves, NextMoves DEF OrphanLoad
  <2> QED BY <1>1, <2>1, <2>2, JustMoves
<1>3. CASE ~gone
  <2>1. PICK r : r = [work[w] EXCEPT !.pc = "orphanAppend"] /\ work' = [work EXCEPT ![w] = r]
    BY <1>3 DEF OrphanLoad, Become
  <2>2. /\ r \in Work /\ r.pc = "orphanAppend" /\ r.todo = work[w].todo /\ r.next = work[w].next
        /\ r.d = work[w].d
    BY <2>1, SameWork DEF Places
  <2>3. Moves(w, r)
    BY <1>1, <2>1, <2>2 DEF Moves, PlanOK, TimelyOK, Earned, SameOffer, Offering, Applying,
                            Orphaning, Surfacing
  <2>4. StillSwept(w, r)
    BY <2>2 DEF StillSwept, Sweeps, Orphaning
  <2> QED BY <1>1, <2>3, <2>4, JustMoves
<1> QED BY <1>2, <1>3

(* STEP_ATTEMPT_LOST takes the attempt out of flight.                       *)
LEMMA OrphanAppendStep ==
    ASSUME Inv, NEW w \in Workers, OrphanAppend(w)
    PROVE  Inv'
<1> DEFINE d == work[w].d
<1>1. /\ UNCHANGED <<resting, leases, bus, faults, dispatched, started>>
      /\ NextStep(w) \/ AdvanceAgain(w)
      /\ work[w].pc = "orphanAppend" /\ PlanOK(work[w])
      /\ run \in RunStates /\ resting \subseteq Steps /\ faults \in Nat
  BY DEF OrphanAppend, At, Inv, TypeOK, BaseInv
<1>2. d \in Dispatches /\ d.step \in Steps /\ d.attempt \in Nat
  BY <1>1 DEF PlanOK, Orphaning, Dispatches
<1>3. /\ run' = FoldLost(run, d.step, d.attempt)
      /\ everDone' = everDone \cup {t \in Steps : run'.terminal[t] = "succeeded"}
  BY DEF OrphanAppend, Append
<1>4. /\ Appended(run', run) /\ run'.closed = run.closed
      /\ d.attempt >= run.attempts[d.step] => run'.terminal = [run.terminal EXCEPT ![d.step] = "failed"]
      /\ ~(d.attempt >= run.attempts[d.step]) => run'.terminal = run.terminal
      /\ run.terminal \in [Steps -> Verdicts] /\ run.attempts \in [Steps -> Nat]
      /\ run.pinned \subseteq Steps
  BY <1>1, <1>2, <1>3, LostFold DEF RunStates
<1>5. \A t \in Steps : run'.terminal[t] = "succeeded" => t \in run.pinned
  BY <1>2, <1>4 DEF Inv, BaseInv, LogInv
<1>6. PICK r : Moves(w, r)
  BY <1>1, DoneMoves
<1>7. StillSwept(w, r)
  BY <1>2, <1>4 DEF StillSwept, Sweeps, InFlight, Appended
<1>8. UNCHANGED <<leases, outbox, queue, job, dispatched, started>> /\ statuses' = statuses
      /\ faults' \in Nat /\ resting' \subseteq Steps
  BY <1>1 DEF bus
<1> QED BY <1>3, <1>4, <1>5, <1>6, <1>7, <1>8, WorkerStep

(* surfaceOne takes an offer in hand.                                       *)
LEMMA SurfaceStep ==
    ASSUME Inv, NEW w \in Workers, NEW s \in Steps, Surface(w, s)
    PROVE  Inv'
<1> DEFINE d == [step |-> s, attempt |-> lease[s].attempt, fence |-> lease[s].fence]
<1>1. /\ UNCHANGED <<run, resting, leases, bus, history>> /\ faults' \in Nat
      /\ work[w].pc = "idle" /\ work[w].pc \notin Orphaning
  BY DEF Surface, At, Inv, TypeOK, Orphaning
<1>2. PICK r : /\ r = [IdleWork EXCEPT !.pc = "surface", !.aged = (lease[s].age = "abandoned"), !.d = d]
               /\ work' = [work EXCEPT ![w] = r]
  BY DEF Surface, Become
<1>3. /\ d \in Dispatches /\ d.fence \in 1 .. lastFence
      /\ d.step = s /\ d.attempt = lease[s].attempt
  BY DEF Surface, Inv, TypeOK, BaseInv, LeaseInv, Dispatches
<1> HIDE DEF d
<1>4. r = [pc |-> "surface", todo |-> {}, blocked |-> {}, next |-> "idle",
           d |-> d, outcome |-> "none", aged |-> (lease[s].age = "abandoned")]
  BY <1>2 DEF IdleWork
<1>5. r \in Work
  BY <1>3, <1>4 DEF Work, Places, Verdicts
<1>6. /\ r.pc = "surface" /\ r.todo = {} /\ r.next = "idle" /\ r.d = d
      /\ r.aged = (lease[s].age = "abandoned")
  BY <1>4
<1>7. Moves(w, r)
  BY <1>2, <1>3, <1>5, <1>6 DEF Moves, PlanOK, TimelyOK, Earned, SameOffer, Offering, Applying,
                                Orphaning, Surfacing
<1> QED BY <1>1, <1>7, JustMoves

(* It is to be withdrawn only if its attempt is not in the log.             *)
LEMMA SurfaceLoadStep ==
    ASSUME Inv, NEW w \in Workers, SurfaceLoad(w)
    PROVE  Inv'
<1> DEFINE d == work[w].d
           s == d.step
           sent == run.fences[s]
           lost == [step |-> s, attempt |-> run.attempts[s], fence |-> sent]
<1>1. /\ UNCHANGED <<run, resting, leases, bus, history>> /\ faults' \in Nat
      /\ work[w].pc = "surface" /\ work[w].pc \notin Orphaning
      /\ PlanOK(work[w]) /\ (~SlowCommits => TimelyOK(work[w]))
  BY DEF SurfaceLoad, At, Inv, TypeOK, BaseInv, TimelyInv, Orphaning
<1>2. d \in Dispatches /\ s \in Steps /\ d.attempt \in Nat /\ run.attempts[s] \in Nat /\ sent \in Nat
  BY <1>1 DEF PlanOK, Surfacing, Dispatches, Inv, TypeOK, RunStates
<1>3. CASE Become(w, IdleWork)
  BY <1>1, <1>3, DoneMoves, JustMoves
<1>4. CASE /\ run.attempts[s] < d.attempt /\ work[w].aged
           /\ Become(w, [work[w] EXCEPT !.pc = "withdraw"])
  <2>1. PICK r : r = [work[w] EXCEPT !.pc = "withdraw"] /\ work' = [work EXCEPT ![w] = r]
    BY <1>4 DEF Become
  <2>2. /\ r \in Work /\ r.pc = "withdraw" /\ r.todo = work[w].todo /\ r.next = work[w].next
        /\ r.d = work[w].d /\ r.aged = work[w].aged
    BY <2>1, SameWork DEF Places
  <2>3. Moves(w, r)
    BY <1>1, <1>4, <2>1, <2>2 DEF Moves, PlanOK, TimelyOK, Earned, SameOffer, Offering, Applying,
                                  Orphaning, Surfacing
  <2> QED BY <1>1, <2>3, JustMoves
<1>5. CASE /\ sent # 0 /\ run.attempts[s] = d.attempt
           /\ Become(w, [IdleWork EXCEPT !.pc = "orphanLoad", !.next = "advance", !.d = lost])
  <2>1. PICK r : /\ r = [IdleWork EXCEPT !.pc = "orphanLoad", !.next = "advance", !.d = lost]
                 /\ work' = [work EXCEPT ![w] = r]
    BY <1>5 DEF Become
  <2>2. lost \in Dispatches /\ lost.fence \in 1 .. lastFence
    BY <1>2, <1>5 DEF Inv, TypeOK, BaseInv, LogInv
  <2> HIDE DEF lost
  <2>3. r = [pc |-> "orphanLoad", todo |-> {}, blocked |-> {}, next |-> "advance",
             d |-> lost, outcome |-> "none", aged |-> FALSE]
    BY <2>1 DEF IdleWork
  <2>4. r \in Work
    BY <2>2, <2>3 DEF Work, Places, Verdicts
  <2>5. r.pc = "orphanLoad" /\ r.todo = {} /\ r.next = "advance" /\ r.d = lost
    BY <2>3
  <2>6. Moves(w, r)
    BY <2>1, <2>2, <2>4, <2>5 DEF Moves, PlanOK, TimelyOK, Earned, SameOffer, Offering, Applying,
                                  Orphaning, Surfacing
  <2> QED BY <1>1, <2>6, JustMoves
<1>6. \/ Become(w, IdleWork)
      \/ /\ run.attempts[s] < d.attempt /\ work[w].aged
         /\ Become(w, [work[w] EXCEPT !.pc = "withdraw"])
      \/ /\ sent # 0 /\ run.attempts[s] = d.attempt
         /\ Become(w, [IdleWork EXCEPT !.pc = "orphanLoad", !.next = "advance", !.d = lost])
  BY Zenon DEF SurfaceLoad
<1> QED BY <1>3, <1>4, <1>5, <1>6

(* A worker that dies holds no orphan, if sweepers survive.                 *)
LEMMA DieStep ==
    ASSUME Inv, NEW w \in Workers, Die(w)
    PROVE  Inv'
<1>1. /\ UNCHANGED <<run, resting, leases, bus, history>> /\ faults' \in Nat /\ Become(w, IdleWork)
      /\ SweepsSurvive => ~HoldsOrphan(w)
  BY SchedulerAssumption DEF Die, Fault, Inv, TypeOK
<1>2. \A r : StillSwept(w, r)
  BY <1>1 DEF StillSwept, Sweeps, HoldsOrphan, Orphaning
<1> QED BY <1>1, <1>2, DoneMoves, JustMoves

------------------------------------------------------------------------------
(* The outbox, the engines and the clock.                                   *)

(* A step that is not a worker's: the log and the fences stay, a renewal is *)
(* one of a dispatch, and what the run waits for stays in somebody's hands. *)
LEMMA OutsideStep ==
    ASSUME Inv, TypeOK', UNCHANGED <<run, work, lastFence, dispatched, everDone>>,
           \A s \in Steps : /\ lease'[s].fence = lease[s].fence
                            /\ lease'[s].attempt = lease[s].attempt
                            /\ lease[s].age = "abandoned" => lease'[s].age = "abandoned"
                            /\ \/ renewed'[s].fence = renewed[s].fence
                               \/ \E d \in dispatched : d.step = s /\ d.fence = renewed'[s].fence,
           BusInv',
           \A d \in dispatched : Waiting(d) /\ Handed(d) => Handed(d)',
           ~SlowCommits => \A w \in Workers :
               work[w].pc = "commit" => lease'[work[w].d.step].age # "abandoned"
    PROVE  Inv'
<1>1. TypeOK /\ BaseInv
  BY DEF Inv
<1>2. \A d \in Dispatches : Current(d)' <=> Current(d)
  BY DEF Current, Dispatches
<1>3. dispatched \subseteq Dispatches
  BY <1>1 DEF TypeOK
<1>4. Forward
  <2>1. \A s \in Steps : run'.attempts[s] \in run.attempts[s] .. MaxAttempts(s)
    <3>1. \A s \in Steps : run.attempts[s] \in Nat /\ MaxAttempts(s) \in Nat
      BY <1>1, RunStateAssumption DEF TypeOK, RunStates, MaxAttempts
    <3>2. \A s \in Steps : run.attempts[s] <= MaxAttempts(s)
      BY <1>1 DEF BaseInv, LogInv
    <3> QED BY <3>1, <3>2
  <2>2. lastFence' >= lastFence
    BY <1>1 DEF TypeOK
  <2> QED BY <2>1, <2>2 DEF Forward
<1>5. BaseInv'
  <2>1. ASSUME NEW w \in Workers PROVE PlanOK(work[w])'
    <3>1. PICK r \in Work : r = work[w] /\ PlanOK(r)
      BY <1>1 DEF TypeOK, BaseInv
    <3>2. PlanOK(r)'
      BY <1>1, <1>4, <3>1, PlanForward
    <3> QED BY <3>1, <3>2
  <2>2. LeaseInv'
    BY <1>1, <1>2, <1>3 DEF BaseInv, LeaseInv
  <2>3. FencesApart' /\ LogInv' /\ Earned(run.closed)'
    BY <1>1 DEF BaseInv, FencesApart, LogInv, Earned
  <2> QED BY <2>1, <2>2, <2>3 DEF BaseInv
<1>6. ASSUME ~SlowCommits PROVE TimelyInv'
  <2>1. TimelyInv
    BY <1>6 DEF Inv
  <2>2. ASSUME NEW w \in Workers PROVE TimelyOK(work[w])'
    <3>1. /\ work[w].pc \in {"begin", "commit", "withdraw"} => work[w].d \in Dispatches
          /\ TimelyOK(work[w])
      BY <1>1, <2>1 DEF TimelyInv, BaseInv, PlanOK, Offering, Surfacing
    <3>2. work[w].pc \in {"begin", "commit", "withdraw"} => (Current(work[w].d)' <=> Current(work[w].d))
      BY <3>1 DEF Current, Dispatches
    <3> QED BY <1>6, <3>1, <3>2 DEF TimelyOK
  <2>3. HandedInv'
    <3> SUFFICES ASSUME NEW d \in dispatched, Waiting(d)' PROVE Handed(d)'
      BY DEF HandedInv
    <3>1. Waiting(d)
      BY <1>2, <1>3 DEF Waiting
    <3> QED BY <2>1, <3>1 DEF TimelyInv, HandedInv
  <2>4. OneDispatchPerAttempt' /\ CountInv'
    BY <2>1 DEF TimelyInv, OneDispatchPerAttempt, CountInv, DispatchesOf
  <2> QED BY <2>2, <2>3, <2>4 DEF TimelyInv
<1>7. ASSUME ~SlowCommits, SweepsSurvive PROVE CoveredInv'
  <2>1. CoveredInv
    BY <1>7 DEF Inv
  <2>2. InFlight(run) \subseteq Steps
    BY <1>1 DEF InFlight, TypeOK, RunStates
  <2> QED BY <2>1, <2>2 DEF CoveredInv, Sweeps
<1> QED BY <1>5, <1>6, <1>7 DEF Inv

(* Drain publishes a row before it marks it sent.                           *)
LEMMA DrainStep ==
    ASSUME Inv, NEW d \in outbox, Drain(d)
    PROVE  Inv'
<1>1. TypeOK /\ BaseInv /\ d \in dispatched
  BY DEF Inv, BaseInv, BusInv
<1>2. /\ queue' = queue \cup {d} /\ outbox' \subseteq outbox /\ outbox \ {d} \subseteq outbox'
      /\ faults' \in Nat
      /\ UNCHANGED <<run, resting, leases, job, statuses, work, history>>
  BY <1>1 DEF Drain, Fault, TypeOK
<1>3. UNCHANGED <<lease, renewed, lastFence, dispatched, started, everDone>>
  BY <1>2 DEF leases, history
<1>4. TypeOK'
  BY <1>1, <1>2, <1>3 DEF TypeOK
<1>5. BusInv'
  BY <1>1, <1>2, <1>3 DEF BaseInv, BusInv
<1>6. \A x \in dispatched : Handed(x) => Handed(x)'
  BY <1>2 DEF Handed
<1>7. ~SlowCommits => \A w \in Workers :
          work[w].pc = "commit" => lease'[work[w].d.step].age # "abandoned"
  BY <1>3 DEF Inv, TimelyInv, TimelyOK
<1> QED BY <1>2, <1>3, <1>4, <1>5, <1>6, <1>7, OutsideStep

(* A step of an engine: what it works on, or puts back, was dispatched.     *)
LEMMA EngineMoves ==
    ASSUME Inv, NEW e \in Engines, NEW j \in [phase : Phases, d : Dispatches \cup {NoDispatch}],
           j.phase # "free" => j.d \in dispatched,
           job' = [job EXCEPT ![e] = j],
           queue' \subseteq dispatched, statuses' \subseteq [d : dispatched, outcome : Verdicts],
           renewed' = renewed \/ \E d \in dispatched : PutRenewal(d),
           UNCHANGED <<run, resting, lease, lastFence, outbox, work, dispatched, everDone>>,
           faults' \in Nat, started' \in [Steps -> Nat],
           \A d \in dispatched : Waiting(d) /\ Handed(d) => Handed(d)'
    PROVE  Inv'
<1>1. TypeOK /\ BaseInv /\ dispatched \subseteq Dispatches
  BY DEF Inv, TypeOK
<1>2. /\ renewed' \in [Steps -> [fence : Nat, late : BOOLEAN]]
      /\ \A s \in Steps : \/ renewed'[s].fence = renewed[s].fence
                          \/ \E d \in dispatched : d.step = s /\ d.fence = renewed'[s].fence
  <2>1. CASE renewed' = renewed
    BY <1>1, <2>1 DEF TypeOK
  <2>2. ASSUME NEW d \in dispatched, PutRenewal(d)
        PROVE  /\ renewed' \in [Steps -> [fence : Nat, late : BOOLEAN]]
               /\ \A s \in Steps : \/ renewed'[s].fence = renewed[s].fence
                                   \/ s = d.step /\ d.fence = renewed'[s].fence
    <3>1. d.step \in Steps /\ d.fence \in Nat
      BY <1>1 DEF Dispatches
    <3>2. renewed \in [Steps -> [fence : Nat, late : BOOLEAN]]
      BY <1>1 DEF TypeOK
    <3> QED BY <2>2, <3>1, <3>2 DEF PutRenewal
  <2> QED BY <2>1, <2>2
<1>3. /\ \A x \in Engines : job'[x] = IF x = e THEN j ELSE job[x]
      /\ job' \in [Engines -> [phase : Phases, d : Dispatches \cup {NoDispatch}]]
  BY <1>1 DEF TypeOK
<1>4. TypeOK'
  BY <1>1, <1>2, <1>3 DEF TypeOK
<1>5. BusInv'
  BY <1>1, <1>3 DEF BaseInv, BusInv
<1>6. ~SlowCommits => \A w \in Workers :
          work[w].pc = "commit" => lease'[work[w].d.step].age # "abandoned"
  BY DEF Inv, TimelyInv, TimelyOK
<1> QED BY <1>2, <1>4, <1>5, <1>6, OutsideStep

(* Every step of an engine, and of the queue that redelivers to it.         *)
LEMMA EngineSteps ==
    ASSUME Inv, NEW e \in Engines, EngineStep(e) \/ NoAnswer(e) \/ Redeliver(e)
    PROVE  Inv'
<1>1. /\ dispatched \subseteq Dispatches /\ queue \subseteq dispatched
      /\ statuses \subseteq [d : dispatched, outcome : Verdicts]
      /\ job[e].phase # "free" => job[e].d \in dispatched
      /\ job \in [Engines -> [phase : Phases, d : Dispatches \cup {NoDispatch}]]
      /\ faults \in Nat /\ started \in [Steps -> Nat]
  BY DEF Inv, TypeOK, BaseInv, BusInv
<1>2. FreeSlot \in [phase : Phases, d : Dispatches \cup {NoDispatch}] /\ FreeSlot.phase = "free"
  BY DEF FreeSlot, Phases
<1>3. ASSUME NEW p \in Phases
      PROVE  [job EXCEPT ![e].phase = p] = [job EXCEPT ![e] = [phase |-> p, d |-> job[e].d]]
  <2>1. [job[e] EXCEPT !.phase = p] = [phase |-> p, d |-> job[e].d]
    <3>1. PICK j : j = job[e]
      OBVIOUS
    <3>2. j \in [phase : Phases, d : Dispatches \cup {NoDispatch}]
      BY <1>1, <3>1
    <3>3. ASSUME NEW i, i = [j EXCEPT !.phase = p] PROVE i = [phase |-> p, d |-> j.d]
      BY <3>2, <3>3
    <3> QED BY <3>1, <3>3, Zenon
  <2> QED BY <2>1, Zenon
<1>4. ASSUME NEW j \in [phase : Phases, d : Dispatches \cup {NoDispatch}],
             job' = [job EXCEPT ![e] = j]
      PROVE  \A x \in Engines : job'[x] = IF x = e THEN j ELSE job[x]
  BY <1>1, <1>4
<1>5. ASSUME NEW d \in queue, Fetch(e, d) PROVE Inv'
  <2>1. PICK j : j = [phase |-> "fetched", d |-> d]
    OBVIOUS
  <2>2. /\ j \in [phase : Phases, d : Dispatches \cup {NoDispatch}] /\ j.phase = "fetched"
        /\ j.d = d /\ d \in dispatched
    BY <1>1, <2>1 DEF Phases
  <2>3. /\ job' = [job EXCEPT ![e] = j] /\ queue' = queue \ {d} /\ job[e].phase = "free"
        /\ UNCHANGED <<run, resting, leases, outbox, statuses, work, faults, history>>
    BY <1>5, <2>1 DEF Fetch
  <2>4. ASSUME NEW x \in dispatched, Handed(x) PROVE Handed(x)'
    <3>1. \A y \in Engines : job'[y] = IF y = e THEN j ELSE job[y]
      BY <1>4, <2>2, <2>3
    <3>2. CASE x \in queue
      BY <2>2, <2>3, <3>1, <3>2 DEF Handed
    <3>3. CASE x \notin queue
      BY <2>3, <2>4, <3>1, <3>3 DEF Handed
    <3> QED BY <3>2, <3>3
  <2> QED BY <1>1, <2>2, <2>3, <2>4, EngineMoves DEF leases, history
<1>6. ASSUME Ask(e) PROVE Inv'
  <2>1. /\ job[e].phase = "fetched" /\ job[e].d \in dispatched
        /\ UNCHANGED <<run, resting, leases, outbox, queue, statuses, work, faults, history>>
    BY <1>1, <1>6 DEF Ask
  <2>2. PICK j : j = IF Current(job[e].d) THEN [phase |-> "granted", d |-> job[e].d] ELSE FreeSlot
    OBVIOUS
  <2>3. job' = [job EXCEPT ![e] = j]
    <3>1. CASE Current(job[e].d)
      <4>1. job' = [job EXCEPT ![e].phase = "granted"]
        BY <1>6, <3>1 DEF Ask
      <4> QED BY <1>3, <2>2, <3>1, <4>1 DEF Phases
    <3>2. CASE ~Current(job[e].d)
      BY <1>6, <2>2, <3>2 DEF Ask
    <3> QED BY <3>1, <3>2
  <2>4. /\ j \in [phase : Phases, d : Dispatches \cup {NoDispatch}]
        /\ j.phase # "free" => j.d \in dispatched
        /\ Current(job[e].d) => j.phase = "granted" /\ j.d = job[e].d
    BY <1>1, <1>2, <2>1, <2>2 DEF Phases
  <2>5. \A x \in dispatched : Waiting(x) /\ Handed(x) => Handed(x)'
    BY <1>4, <2>1, <2>3, <2>4 DEF Handed, Waiting
  <2> QED BY <1>1, <2>1, <2>3, <2>4, <2>5, EngineMoves DEF leases, history
<1>7. ASSUME Start(e) PROVE Inv'
  <2>1. /\ job[e].phase = "granted" /\ job[e].d \in dispatched /\ job[e].d.step \in Steps
        /\ PutRenewal(job[e].d) /\ started' = [started EXCEPT ![job[e].d.step] = @ + 1]
        /\ job' = [job EXCEPT ![e].phase = "running"]
        /\ UNCHANGED <<run, resting, lease, lastFence, outbox, queue, statuses, work, faults,
                       dispatched, everDone>>
    BY <1>1, <1>7 DEF Start, Dispatches
  <2>2. PICK j : j = [phase |-> "running", d |-> job[e].d]
    OBVIOUS
  <2>3. job' = [job EXCEPT ![e] = j]
    BY <1>3, <2>1, <2>2 DEF Phases
  <2>4. /\ j \in [phase : Phases, d : Dispatches \cup {NoDispatch}]
        /\ j.phase = "running" /\ j.d = job[e].d
    BY <1>1, <2>1, <2>2 DEF Phases
  <2>5. started' \in [Steps -> Nat]
    BY <1>1, <2>1
  <2>6. \A x \in dispatched : Handed(x) => Handed(x)'
    BY <1>4, <2>1, <2>3, <2>4 DEF Handed
  <2> QED BY <1>1, <2>1, <2>3, <2>4, <2>5, <2>6, EngineMoves
<1>8. ASSUME NoAnswer(e) PROVE Inv'
  <2>1. /\ job[e].phase \in {"fetched", "granted"} /\ job[e].d \in dispatched
        /\ job[e].d.step \in Steps /\ faults' \in Nat
        /\ renewed' = renewed \/ PutRenewal(job[e].d)
        /\ UNCHANGED <<run, resting, lease, lastFence, outbox, statuses, work, dispatched, everDone>>
    BY <1>1, <1>8 DEF NoAnswer, Fault, Dispatches
  <2>2. CASE job[e].d.step \in Repeatable
    <3>1. /\ job' = [job EXCEPT ![e].phase = "running"] /\ queue' = queue
          /\ started' = [started EXCEPT ![job[e].d.step] = @ + 1]
      BY <1>8, <2>2 DEF NoAnswer
    <3>2. PICK j : j = [phase |-> "running", d |-> job[e].d]
      OBVIOUS
    <3>3. job' = [job EXCEPT ![e] = j]
      BY <1>3, <3>1, <3>2 DEF Phases
    <3>4. /\ j \in [phase : Phases, d : Dispatches \cup {NoDispatch}]
          /\ j.phase = "running" /\ j.d = job[e].d
      BY <1>1, <2>1, <3>2 DEF Phases
    <3>5. started' \in [Steps -> Nat]
      BY <1>1, <2>1, <3>1
    <3>6. \A x \in dispatched : Handed(x) => Handed(x)'
      BY <1>4, <2>1, <3>1, <3>3, <3>4 DEF Handed
    <3> QED BY <1>1, <2>1, <3>1, <3>3, <3>4, <3>5, <3>6, EngineMoves
  <2>3. CASE job[e].d.step \notin Repeatable
    <3>1. /\ job' = [job EXCEPT ![e] = FreeSlot] /\ queue' = queue \cup {job[e].d}
          /\ started' = started
      BY <1>8, <2>3 DEF NoAnswer
    <3>2. \A x \in dispatched : Handed(x) => Handed(x)'
      BY <1>2, <1>4, <2>1, <3>1 DEF Handed
    <3> QED BY <1>1, <1>2, <2>1, <3>1, <3>2, EngineMoves
  <2> QED BY <2>2, <2>3
<1>9. ASSUME Heartbeat(e) PROVE Inv'
  <2>1. /\ job[e].phase = "running" /\ job[e].d \in dispatched /\ PutRenewal(job[e].d)
        /\ UNCHANGED <<run, resting, lease, lastFence, bus, work, faults, history>>
    BY <1>1, <1>9 DEF Heartbeat
  <2>2. PICK j : j = job[e]
    OBVIOUS
  <2>3. /\ j \in [phase : Phases, d : Dispatches \cup {NoDispatch}] /\ j.d \in dispatched
        /\ job' = [job EXCEPT ![e] = j]
    BY <1>1, <2>1, <2>2 DEF bus
  <2>4. \A x \in dispatched : Handed(x) => Handed(x)'
    BY <2>1 DEF Handed, bus
  <2> QED BY <1>1, <2>1, <2>3, <2>4, EngineMoves DEF bus, history
<1>10. ASSUME FenceOut(e) PROVE Inv'
  <2>1. /\ job[e].phase = "running" /\ job[e].d \in dispatched /\ ~Current(job[e].d)
        /\ job' = [job EXCEPT ![e].phase = "reported"]
        /\ UNCHANGED <<run, resting, leases, outbox, queue, statuses, work, faults, history>>
    BY <1>1, <1>10 DEF FenceOut
  <2>2. PICK j : j = [phase |-> "reported", d |-> job[e].d]
    OBVIOUS
  <2>3. job' = [job EXCEPT ![e] = j]
    BY <1>3, <2>1, <2>2 DEF Phases
  <2>4. /\ j \in [phase : Phases, d : Dispatches \cup {NoDispatch}]
        /\ j.phase = "reported" /\ j.d = job[e].d
    BY <1>1, <2>1, <2>2 DEF Phases
  <2>5. \A x \in dispatched : Waiting(x) /\ Handed(x) => Handed(x)'
    BY <1>4, <2>1, <2>3, <2>4 DEF Handed, Waiting
  <2> QED BY <1>1, <2>1, <2>3, <2>4, <2>5, EngineMoves DEF leases, history
<1>11. ASSUME NEW o \in {"succeeded", "failed"}, Finish(e, o) PROVE Inv'
  <2>1. /\ job[e].phase = "running" /\ job[e].d \in dispatched
        /\ job' = [job EXCEPT ![e].phase = "reported"]
        /\ statuses' = statuses \cup {[d |-> job[e].d, outcome |-> o]}
        /\ UNCHANGED <<run, resting, leases, outbox, queue, work, faults, history>>
    BY <1>1, <1>11 DEF Finish
  <2>2. PICK j : j = [phase |-> "reported", d |-> job[e].d]
    OBVIOUS
  <2>3. job' = [job EXCEPT ![e] = j]
    BY <1>3, <2>1, <2>2 DEF Phases
  <2>4. /\ j \in [phase : Phases, d : Dispatches \cup {NoDispatch}]
        /\ j.phase = "reported" /\ j.d = job[e].d
    BY <1>1, <2>1, <2>2 DEF Phases
  <2>5. /\ statuses' \subseteq [d : dispatched, outcome : Verdicts]
        /\ \E m \in statuses' : m.d = job[e].d
    <3>1. PICK m : m = [d |-> job[e].d, outcome |-> o]
      OBVIOUS
    <3>2. m \in [d : dispatched, outcome : Verdicts] /\ m.d = job[e].d
      BY <2>1, <3>1 DEF Verdicts
    <3> QED BY <1>1, <2>1, <3>1, <3>2
  <2>6. \A x \in dispatched : Handed(x) => Handed(x)'
    BY <1>4, <2>1, <2>3, <2>4, <2>5 DEF Handed
  <2> QED BY <1>1, <2>1, <2>3, <2>4, <2>5, <2>6, EngineMoves DEF leases, history
<1>12. ASSUME Ack(e) PROVE Inv'
  <2>1. /\ job[e].phase = "reported" /\ job' = [job EXCEPT ![e] = FreeSlot]
        /\ UNCHANGED <<run, resting, leases, outbox, queue, statuses, work, faults, history>>
    BY <1>12 DEF Ack
  <2>2. \A x \in dispatched : Handed(x) => Handed(x)'
    BY <1>2, <1>4, <2>1 DEF Handed
  <2> QED BY <1>1, <1>2, <2>1, <2>2, EngineMoves DEF leases, history
<1>13. ASSUME Redeliver(e) PROVE Inv'
  <2>1. /\ job[e].phase # "free" /\ job' = [job EXCEPT ![e] = FreeSlot]
        /\ queue' = queue \cup {job[e].d} /\ faults' \in Nat
        /\ UNCHANGED <<run, resting, leases, outbox, statuses, work, history>>
    BY <1>1, <1>13 DEF Redeliver, Fault
  <2>2. \A x \in dispatched : Handed(x) => Handed(x)'
    BY <1>2, <1>4, <2>1 DEF Handed
  <2> QED BY <1>1, <1>2, <2>1, <2>2, EngineMoves DEF leases, history
<1> QED BY <1>5, <1>6, <1>7, <1>8, <1>9, <1>10, <1>11, <1>12, <1>13 DEF EngineStep

(* The clock: a lease lapses, an offer ages, a backoff elapses. An offer    *)
(* under a commit that began in time is not abandoned.                      *)
LEMMA ClockSteps ==
    ASSUME Inv, NEW s \in Steps, Lapse(s) \/ Age(s) \/ Elapse(s)
    PROVE  Inv'
<1>1. TypeOK /\ BaseInv /\ MaxFaults \in Nat
  BY SchedulerAssumption DEF Inv
<1>2. /\ UNCHANGED <<run, work, lastFence, dispatched, everDone, started, outbox, queue, job, statuses>>
      /\ faults' \in Nat /\ resting' \subseteq Steps
  BY <1>1 DEF Lapse, Age, Elapse, Fault, leases, bus, history, TypeOK
<1>3. \A t \in Steps : renewed'[t].fence = renewed[t].fence
  BY <1>1 DEF Lapse, Age, Elapse, leases, TypeOK
<1>4. renewed' \in [Steps -> [fence : Nat, late : BOOLEAN]]
  BY <1>1 DEF Lapse, Age, Elapse, leases, TypeOK
<1>5. \A t \in Steps : /\ lease'[t].fence = lease[t].fence /\ lease'[t].attempt = lease[t].attempt
                       /\ lease[t].age = "abandoned" => lease'[t].age = "abandoned"
  BY <1>1 DEF Lapse, Age, Elapse, leases, TypeOK
<1>6. lease' \in [Steps -> [fence : Nat, attempt : Nat, age : Ages]]
  BY <1>1 DEF Lapse, Age, Elapse, leases, TypeOK, Ages
<1>7. TypeOK'
  BY <1>1, <1>2, <1>4, <1>6 DEF TypeOK
<1>8. BusInv' /\ \A d \in dispatched : Handed(d) => Handed(d)'
  BY <1>1, <1>2 DEF BaseInv, BusInv, Handed
<1>9. ASSUME ~SlowCommits, NEW w \in Workers, work[w].pc = "commit"
      PROVE  lease'[work[w].d.step].age # "abandoned"
  <2>1. /\ TimelyOK(work[w]) /\ Current(work[w].d) /\ lease[work[w].d.step].age # "abandoned"
        /\ work[w].d.step \in Steps
    BY <1>1, <1>9 DEF Inv, TimelyInv, TimelyOK, BaseInv, PlanOK, Offering, Dispatches
  <2>2. CASE Age(s) /\ work[w].d.step = s
    <3>1. UnderDispatch(s, {"commit"})
      BY <1>9, <2>1, <2>2 DEF UnderDispatch, Current
    <3>2. lease[s].age # "stale" /\ lease[s].age \in Ages
      BY <1>1, <1>9, <2>2, <3>1 DEF Age, TypeOK
    <3> QED BY <1>1, <2>1, <2>2, <3>2 DEF Age, Ages, TypeOK
  <2>3. CASE ~(Age(s) /\ work[w].d.step = s)
    BY <1>1, <2>1, <2>3 DEF Lapse, Age, Elapse, leases, TypeOK
  <2> QED BY <2>2, <2>3
<1> QED BY <1>2, <1>3, <1>5, <1>7, <1>8, <1>9, OutsideStep

------------------------------------------------------------------------------
(* The steps that take a lease away.                                        *)

(* The lease under the fence of the latest dispatch is that attempt's.      *)
LEMMA LatestLease ==
    ASSUME Inv, NEW s \in InFlight(run), lease[s].fence = run.fences[s]
    PROVE  lease[s].attempt = run.attempts[s] /\ lease[s].fence # 0
<1>1. s \in Steps /\ run.attempts[s] # 0
  BY DEF InFlight, Inv, TypeOK, RunStates
<1>2. PICK d : d = [step |-> s, attempt |-> run.attempts[s], fence |-> run.fences[s]]
  OBVIOUS
<1>3. d \in dispatched /\ d.step = s /\ d.attempt = run.attempts[s] /\ d.fence = run.fences[s]
  BY <1>1, <1>2 DEF Inv, BaseInv, LogInv
<1>4. Current(d) /\ d.fence # 0
  BY <1>3 DEF Current, Inv, BaseInv, LogInv
<1> QED BY <1>1, <1>3, <1>4 DEF Inv, BaseInv, LeaseInv

(* Nobody commits under a lease that goes, and the attempt it covered is    *)
(* swept by the worker that takes it.                                       *)
LEMMA LeaseGone ==
    ASSUME Inv, NEW w \in Workers, NEW r, Moves(w, r), NEW s \in Steps,
           lease' = [lease EXCEPT ![s] = NoLease],
           renewed' = renewed \/ renewed' = [renewed EXCEPT ![s] = NoRenewal],
           UNCHANGED <<run, resting, lastFence, bus, faults, history>>,
           work[w].pc \notin Orphaning, r.pc # "commit",
           ~SlowCommits => \A v \in Workers : work[v].pc = "commit" => work[v].d.step # s,
           ~SlowCommits /\ s \in InFlight(run) /\ lease[s].fence = run.fences[s] => Sweeps(r, s)
    PROVE  Inv'
<1>1. TypeOK /\ BaseInv
  BY DEF Inv
<1>2. /\ r \in Work /\ work' = [work EXCEPT ![w] = r] /\ PlanOK(r) /\ SameOffer(w, r)
      /\ ~SlowCommits => TimelyOK(r)
  BY DEF Moves
<1>3. /\ UNCHANGED <<run, resting, lastFence, outbox, queue, job, statuses, faults>>
      /\ UNCHANGED <<dispatched, started, everDone>>
  BY DEF bus, history
<1>4. /\ \A v \in Workers : work'[v] = IF v = w THEN r ELSE work[v]
      /\ \A t \in Steps : lease'[t] = IF t = s THEN NoLease ELSE lease[t]
      /\ \A t \in Steps : renewed'[t] = renewed[t] \/ renewed'[t].fence = 0
      /\ NoLease.fence = 0
  BY <1>1, <1>2 DEF TypeOK, NoLease, NoRenewal
<1>5. TypeOK'
  <2>1. lease' \in [Steps -> [fence : Nat, attempt : Nat, age : Ages]]
    BY <1>1 DEF TypeOK, NoLease, Ages
  <2>2. renewed' \in [Steps -> [fence : Nat, late : BOOLEAN]]
    <3>1. NoRenewal \in [fence : Nat, late : BOOLEAN]
      BY DEF NoRenewal
    <3> QED BY <1>1, <3>1 DEF TypeOK
  <2> QED BY <1>1, <1>2, <1>3, <2>1, <2>2 DEF TypeOK
<1>6. \A d \in Dispatches : d.fence # 0 /\ Current(d)' => Current(d) /\ d.step # s
  BY <1>4 DEF Current, Dispatches
<1>7. Forward
  <2>1. \A t \in Steps : run'.attempts[t] \in run.attempts[t] .. MaxAttempts(t)
    <3>1. \A t \in Steps : run.attempts[t] \in Nat /\ MaxAttempts(t) \in Nat
      BY <1>1, RunStateAssumption DEF TypeOK, RunStates, MaxAttempts
    <3>2. \A t \in Steps : run.attempts[t] <= MaxAttempts(t)
      BY <1>1 DEF BaseInv, LogInv
    <3> QED BY <1>3, <3>1, <3>2
  <2>2. lastFence' >= lastFence
    BY <1>1, <1>3 DEF TypeOK
  <2> QED BY <1>3, <1>4, <2>1, <2>2 DEF Forward
<1>8. BaseInv'
  <2>1. ASSUME NEW v \in Workers PROVE PlanOK(work[v])'
    <3>1. PICK q \in Work : q = work'[v] /\ PlanOK(q)
      BY <1>1, <1>2, <1>4, <1>5 DEF BaseInv, TypeOK
    <3>2. PlanOK(q)'
      BY <1>1, <1>3, <1>5, <1>7, <3>1, PlanForward
    <3> QED BY <3>1, <3>2
  <2>2. LeaseInv'
    <3>1. \A d \in dispatched : d \in Dispatches /\ d.fence # 0
      BY <1>1 DEF TypeOK, BaseInv, LogInv
    <3> QED BY <1>1, <1>3, <1>4, <1>6, <3>1 DEF BaseInv, LeaseInv, TypeOK, Current
  <2>3. FencesApart'
    BY <1>1, <1>2, <1>4 DEF BaseInv, FencesApart, SameOffer
  <2>4. LogInv' /\ BusInv' /\ Earned(run.closed)'
    BY <1>1, <1>3 DEF BaseInv, LogInv, BusInv, Earned
  <2> QED BY <2>1, <2>2, <2>3, <2>4 DEF BaseInv
<1>9. ASSUME ~SlowCommits PROVE TimelyInv'
  <2>1. TimelyInv
    BY <1>9 DEF Inv
  <2>2. ASSUME NEW v \in Workers PROVE TimelyOK(work[v])'
    <3>1. PICK q \in Work : q = work'[v] /\ TimelyOK(q) /\ PlanOK(q)
      BY <1>1, <1>2, <1>4, <1>5, <1>9, <2>1 DEF TimelyInv, BaseInv, TypeOK
    <3>2. q.pc \in {"begin", "commit", "withdraw"} => q.d \in Dispatches /\ q.d.fence # 0
      BY <1>1, <3>1 DEF PlanOK, Offering, Surfacing, TypeOK
    <3>3. q = work[v] \/ q = r
      BY <1>4, <3>1
    <3>4. q.pc = "commit" => q.d.step # s
      BY <1>9, <3>3
    <3>5. q.pc = "commit" => Current(q.d)' /\ lease'[q.d.step] = lease[q.d.step]
      BY <1>4, <3>1, <3>2, <3>4 DEF TimelyOK, Current, Dispatches
    <3>6. TimelyOK(q)'
      BY <1>3, <1>6, <3>1, <3>2, <3>5 DEF TimelyOK
    <3> QED BY <3>1, <3>6
  <2>3. HandedInv'
    <3> SUFFICES ASSUME NEW d \in dispatched, Waiting(d)' PROVE Handed(d)'
      BY <1>3 DEF HandedInv
    <3>1. d \in Dispatches /\ d.fence # 0
      BY <1>1 DEF TypeOK, BaseInv, LogInv
    <3>2. Waiting(d)
      BY <1>3, <1>6, <3>1 DEF Waiting
    <3> QED BY <1>3, <2>1, <3>2 DEF TimelyInv, HandedInv, Handed
  <2>4. OneDispatchPerAttempt' /\ CountInv'
    BY <1>3, <2>1 DEF TimelyInv, OneDispatchPerAttempt, CountInv, DispatchesOf
  <2> QED BY <2>2, <2>3, <2>4 DEF TimelyInv
<1>10. ASSUME ~SlowCommits, SweepsSurvive PROVE CoveredInv'
  <2> SUFFICES ASSUME run.closed = "open", NEW t \in InFlight(run), lease'[t].fence # run.fences[t]
               PROVE  \E v \in Workers : Sweeps(work[v], t)'
    BY <1>3 DEF CoveredInv
  <2>1. t \in Steps
    BY <1>1 DEF InFlight, TypeOK, RunStates
  <2>2. CASE lease[t].fence = run.fences[t]
    <3>1. t = s /\ Sweeps(r, t)
      BY <1>4, <1>10, <2>1, <2>2
    <3> QED BY <1>3, <1>4, <3>1 DEF Sweeps
  <2>3. CASE lease[t].fence # run.fences[t]
    <3>1. PICK v \in Workers : Sweeps(work[v], t)
      BY <1>10, <2>3 DEF Inv, CoveredInv
    <3>2. v # w
      BY <3>1 DEF Sweeps
    <3> QED BY <1>3, <1>4, <3>1, <3>2 DEF Sweeps
  <2> QED BY <2>2, <2>3
<1> QED BY <1>5, <1>8, <1>9, <1>10 DEF Inv

(* Expire: a held lease is one of a dispatch, so nobody is committing under *)
(* it, and the sweeper that deleted it records its attempt.                 *)
LEMMA ExpireStep ==
    ASSUME Inv, NEW w \in Workers, NEW s \in Steps, Expire(w, s)
    PROVE  Inv'
<1> DEFINE d == [step |-> s, attempt |-> lease[s].attempt, fence |-> lease[s].fence]
<1>1. /\ lease' = [lease EXCEPT ![s] = NoLease] /\ renewed' = [renewed EXCEPT ![s] = NoRenewal]
      /\ UNCHANGED <<run, resting, lastFence, bus, faults, history>>
      /\ lease[s].fence # 0 /\ renewed[s].fence = lease[s].fence
      /\ work[w].pc = "idle" /\ work[w].pc \notin Orphaning
  BY DEF Expire, At, Held, Orphaning
<1>2. PICK r : /\ r = [IdleWork EXCEPT !.pc = "orphanLoad", !.next = "idle", !.d = d]
               /\ work' = [work EXCEPT ![w] = r]
  BY DEF Expire, Become
<1>3. /\ d \in Dispatches /\ d.fence \in 1 .. lastFence
      /\ d.step = s /\ d.attempt = lease[s].attempt
  BY <1>1 DEF Inv, TypeOK, BaseInv, LeaseInv, Dispatches
<1> HIDE DEF d
<1>4. r = [pc |-> "orphanLoad", todo |-> {}, blocked |-> {}, next |-> "idle",
           d |-> d, outcome |-> "none", aged |-> FALSE]
  BY <1>2 DEF IdleWork
<1>5. r \in Work
  BY <1>3, <1>4 DEF Work, Places, Verdicts
<1>6. r.pc = "orphanLoad" /\ r.todo = {} /\ r.next = "idle" /\ r.d = d
  BY <1>4
<1>7. Moves(w, r)
  BY <1>2, <1>3, <1>5, <1>6 DEF Moves, PlanOK, TimelyOK, Earned, SameOffer, Offering, Applying,
                                Orphaning, Surfacing
<1>8. ASSUME ~SlowCommits, NEW v \in Workers, work[v].pc = "commit" PROVE work[v].d.step # s
  <2>1. Current(work[v].d) /\ \A e \in dispatched : e.fence # work[v].d.fence
    BY <1>8 DEF Inv, BaseInv, TimelyInv, PlanOK, TimelyOK, Offering
  <2>2. \E e \in dispatched : e.fence = lease[s].fence
    BY <1>1 DEF Inv, BaseInv, LeaseInv
  <2> QED BY <2>1, <2>2 DEF Current
<1>9. ASSUME s \in InFlight(run), lease[s].fence = run.fences[s] PROVE Sweeps(r, s)
  <2>1. lease[s].attempt = run.attempts[s]
    BY <1>9, LatestLease
  <2> QED BY <1>3, <1>6, <2>1 DEF Sweeps, Orphaning
<1> QED BY <1>1, <1>6, <1>7, <1>8, <1>9, LeaseGone

(* Withdraw: an offer nobody has committed within offerGrace, whose attempt *)
(* is not in the log.                                                       *)
LEMMA WithdrawStep ==
    ASSUME Inv, NEW w \in Workers, WithdrawAbandoned(w)
    PROVE  Inv'
<1> DEFINE d == work[w].d
<1>1. /\ UNCHANGED <<run, resting, renewed, lastFence, bus, faults, history>> /\ faults \in Nat
      /\ work[w].pc = "withdraw" /\ work[w].pc \notin Orphaning
      /\ PlanOK(work[w]) /\ (~SlowCommits => TimelyOK(work[w]))
  BY DEF WithdrawAbandoned, At, Inv, TypeOK, BaseInv, TimelyInv, Orphaning
<1>2. CASE ~Current(d)
  <2>1. Become(w, IdleWork) /\ UNCHANGED leases
    BY <1>1, <1>2 DEF WithdrawAbandoned, leases
  <2> QED BY <1>1, <2>1, DoneMoves, JustMoves
<1>3. CASE Current(d)
  <2>1. lease' = [lease EXCEPT ![d.step] = NoLease] /\ AdvanceAgain(w)
    BY <1>3 DEF WithdrawAbandoned
  <2>2. PICK r : Moves(w, r) /\ r.pc \in {"idle", "advance", "dispatch"}
    BY <2>1, DoneMoves
  <2>3. /\ d.step \in Steps /\ d.attempt \in Nat /\ lease[d.step].age = "abandoned"
        /\ lease[d.step].attempt = d.attempt
        /\ ~SlowCommits => run.attempts[d.step] < d.attempt
    BY <1>1, <1>3 DEF PlanOK, TimelyOK, Surfacing, Dispatches
  <2>4. ~SlowCommits => \A v \in Workers : work[v].pc = "commit" => work[v].d.step # d.step
    BY <2>3 DEF Inv, TimelyInv, TimelyOK
  <2>5. ~(~SlowCommits /\ d.step \in InFlight(run) /\ lease[d.step].fence = run.fences[d.step])
    <3>1. run.attempts[d.step] \in Nat
      BY <2>3 DEF Inv, TypeOK, RunStates
    <3> QED BY <2>3, <3>1, LatestLease
  <2> QED BY <1>1, <2>1, <2>2, <2>3, <2>4, <2>5, LeaseGone
<1> QED BY <1>2, <1>3

------------------------------------------------------------------------------
(* The offer and the commit.                                                *)

(* The step that is offered is one of the plan.                             *)
LEMMA PickInPlan ==
    ASSUME Inv, NEW w \in Workers, work[w].pc = "dispatch",
           NEW pick, pick = CHOOSE t \in work[w].todo : \A u \in work[w].todo : t[1] <= u[1]
    PROVE  pick \in work[w].todo
<1> DEFINE ids == {t[1] : t \in work[w].todo}
<1>1. work[w].todo # {} /\ work[w].todo \subseteq Steps \X Nat
  BY DEF Inv, TypeOK, Work, BaseInv, PlanOK
<1>2. ids \in SUBSET Nat /\ ids # {}
  BY <1>1, RunStateAssumption
<1>3. PICK x \in ids : \A y \in ids : x =< y
  BY <1>2, LeastStep
<1>4. \E t \in work[w].todo : \A u \in work[w].todo : t[1] <= u[1]
  BY <1>3
<1> QED BY <1>4

(* An offer that is granted takes a fence of its own. It goes over a claim  *)
(* of an earlier attempt only: not over one under which somebody commits,   *)
(* nor over the one of a step in flight.                                    *)
LEMMA OfferGranted ==
    ASSUME Inv, NEW w \in Workers, work[w].pc = "dispatch", NEW pick \in work[w].todo,
           NEW s, NEW a, s = pick[1], a = pick[2],
           ~(lease[s].fence # 0 /\ lease[s].attempt >= a),
           NEW r, r.d = [step |-> s, attempt |-> a, fence |-> lastFence + 1],
           r \in Work, r.pc = "reload", r.todo \subseteq work[w].todo, r.next = work[w].next,
           work' = [work EXCEPT ![w] = r],
           lease' = [lease EXCEPT ![s] = [fence |-> lastFence + 1, attempt |-> a, age |-> "fresh"]],
           lastFence' = lastFence + 1,
           UNCHANGED <<run, resting, renewed, bus, faults, history>>
    PROVE  Inv'
<1>1. /\ TypeOK /\ BaseInv /\ lastFence \in Nat /\ s \in Steps /\ a \in Nat
      /\ run.attempts[s] \in Nat /\ Allowed(s, a) /\ PlanOK(work[w])
  BY DEF Inv, TypeOK, Work, RunStates, BaseInv, PlanOK
<1>2. /\ UNCHANGED <<run, resting, renewed, outbox, queue, job, statuses, faults>>
      /\ UNCHANGED <<dispatched, started, everDone>>
  BY DEF bus, history
<1>3. /\ \A v \in Workers : work'[v] = IF v = w THEN r ELSE work[v]
      /\ lease'[s].fence = lastFence + 1 /\ lease'[s].attempt = a
      /\ \A t \in Steps \ {s} : lease'[t] = lease[t]
      /\ r.d.step = s /\ r.d.attempt = a /\ r.d.fence = lastFence + 1
  BY <1>1 DEF TypeOK
<1>4. TypeOK'
  <2>1. [fence |-> lastFence + 1, attempt |-> a, age |-> "fresh"] \in [fence : Nat, attempt : Nat, age : Ages]
    BY <1>1 DEF Ages
  <2>2. lease' \in [Steps -> [fence : Nat, attempt : Nat, age : Ages]]
    BY <1>1, <2>1 DEF TypeOK
  <2> QED BY <1>1, <1>2, <2>2 DEF TypeOK
<1>5. \A d \in Dispatches : d.fence \in 1 .. lastFence /\ Current(d)' => Current(d) /\ d.step # s
  BY <1>1, <1>3 DEF Current, Dispatches
<1>6. Forward
  <2>1. \A t \in Steps : run'.attempts[t] \in run.attempts[t] .. MaxAttempts(t)
    <3>1. \A t \in Steps : run.attempts[t] \in Nat /\ MaxAttempts(t) \in Nat
      BY <1>1, RunStateAssumption DEF TypeOK, RunStates, MaxAttempts
    <3>2. \A t \in Steps : run.attempts[t] <= MaxAttempts(t)
      BY <1>1 DEF BaseInv, LogInv
    <3> QED BY <1>2, <3>1, <3>2
  <2>2. lastFence' >= lastFence
    BY <1>1
  <2>3. \A t \in Steps : lease'[t].fence \in 1 .. lastFence => lease'[t] = lease[t]
    BY <1>1, <1>3
  <2> QED BY <1>2, <2>1, <2>2, <2>3 DEF Forward
<1>7. PlanOK(r)'
  <2>1. /\ \A t \in r.todo : Allowed(t[1], t[2])'
        /\ Earned(r.next)'
    BY <1>1, <1>2 DEF PlanOK, Allowed, Earned
  <2>2. r.d \in Dispatches /\ r.d.fence \in 1 .. lastFence'
    BY <1>1, <1>3 DEF Dispatches
  <2>3. Allowed(r.d.step, r.d.attempt)'
    BY <1>1, <1>2, <1>3 DEF Allowed
  <2>4. \A e \in dispatched' : e.fence # r.d.fence
    BY <1>1, <1>2, <1>3 DEF BaseInv, LogInv
  <2>5. lease'[r.d.step].attempt = r.d.attempt
    BY <1>3
  <2>6. Earned(r.pc)' /\ r.pc \notin Applying \cup Surfacing /\ r.pc \notin {"dispatch", "withdraw"}
    BY DEF Earned, Applying, Surfacing
  <2> QED BY <2>1, <2>2, <2>3, <2>4, <2>5, <2>6 DEF PlanOK
<1>8. BaseInv'
  <2>1. ASSUME NEW v \in Workers PROVE PlanOK(work[v])'
    <3>1. CASE v = w
      BY <1>3, <1>7, <3>1
    <3>2. CASE v # w
      <4>1. PICK q \in Work : q = work[v] /\ PlanOK(q)
        BY <1>1 DEF BaseInv, TypeOK
      <4>2. PlanOK(q)'
        BY <1>1, <1>2, <1>4, <1>6, <4>1, PlanForward
      <4>3. q = work'[v]
        BY <1>3, <3>2, <4>1
      <4> QED BY <4>2, <4>3
    <3> QED BY <3>1, <3>2
  <2>2. LeaseInv'
    <3>1. \A d \in dispatched : d \in Dispatches /\ d.fence \in 1 .. lastFence
      BY <1>1 DEF TypeOK, BaseInv, LogInv
    <3>2. \A t \in Steps : lease'[t].fence <= lastFence'
      BY <1>1, <1>3 DEF BaseInv, LeaseInv, TypeOK
    <3>3. \A d \in dispatched : Current(d)' => lease'[d.step].attempt = d.attempt
      BY <1>1, <1>3, <1>5, <3>1 DEF BaseInv, LeaseInv, Dispatches
    <3> QED BY <1>1, <1>2, <3>2, <3>3 DEF BaseInv, LeaseInv
  <2>3. FencesApart'
    <3>1. \A v \in Workers : work[v].pc \in Offering => work[v].d.fence # r.d.fence
      BY <1>1, <1>3 DEF BaseInv, PlanOK
    <3> QED BY <1>1, <1>3, <3>1 DEF BaseInv, FencesApart
  <2>4. LogInv'
    BY <1>1, <1>2 DEF BaseInv, LogInv
  <2>5. BusInv' /\ Earned(run.closed)'
    BY <1>1, <1>2 DEF BaseInv, BusInv, Earned
  <2> QED BY <2>1, <2>2, <2>3, <2>4, <2>5 DEF BaseInv
<1>9. ASSUME ~SlowCommits PROVE TimelyInv'
  <2>1. TimelyInv
    BY <1>9 DEF Inv
  <2>2. ASSUME NEW v \in Workers, work[v].pc = "commit" PROVE work[v].d.step # s
    <3>1. /\ TimelyOK(work[v]) /\ PlanOK(work[v])
      BY <1>1, <2>1 DEF TimelyInv, BaseInv
    <3>2. /\ work[v].d.attempt \in Nat /\ work[v].d.fence # 0 /\ Current(work[v].d)
          /\ lease[work[v].d.step].attempt = work[v].d.attempt
          /\ run.attempts[work[v].d.step] < work[v].d.attempt
      BY <1>1, <2>2, <3>1 DEF PlanOK, TimelyOK, Offering, Dispatches
    <3> QED BY <1>1, <3>2 DEF Current, Allowed
  <2>3. ASSUME NEW v \in Workers PROVE TimelyOK(work[v])'
    <3>1. CASE v = w
      <4>1. TimelyOK(work[w])
        BY <2>1 DEF TimelyInv
      <4>2. TimelyOK(r)'
        BY <1>2, <4>1 DEF TimelyOK
      <4> QED BY <1>3, <3>1, <4>2
    <3>2. CASE v # w
      <4>1. PICK q \in Work : q = work[v] /\ TimelyOK(q) /\ PlanOK(q)
        BY <1>1, <2>1 DEF TimelyInv, BaseInv, TypeOK
      <4>2. q.pc \in {"begin", "commit", "withdraw"} => q.d \in Dispatches /\ q.d.fence \in 1 .. lastFence
        BY <1>1, <4>1 DEF PlanOK, Offering, Surfacing, TypeOK
      <4>3. q.pc = "commit" => Current(q.d)' /\ lease'[q.d.step] = lease[q.d.step]
        BY <1>3, <2>2, <4>1, <4>2 DEF TimelyOK, Current, Dispatches
      <4>4. TimelyOK(q)'
        BY <1>2, <1>5, <4>1, <4>2, <4>3 DEF TimelyOK
      <4>5. q = work'[v]
        BY <1>3, <3>2, <4>1
      <4> QED BY <4>4, <4>5
    <3> QED BY <3>1, <3>2
  <2>4. HandedInv'
    <3> SUFFICES ASSUME NEW d \in dispatched, Waiting(d)' PROVE Handed(d)'
      BY <1>2 DEF HandedInv
    <3>1. d \in Dispatches /\ d.fence \in 1 .. lastFence
      BY <1>1 DEF TypeOK, BaseInv, LogInv
    <3>2. Waiting(d)
      BY <1>2, <1>5, <3>1 DEF Waiting
    <3> QED BY <1>2, <2>1, <3>2 DEF TimelyInv, HandedInv, Handed
  <2>5. OneDispatchPerAttempt' /\ CountInv'
    BY <1>2, <2>1 DEF TimelyInv, OneDispatchPerAttempt, CountInv, DispatchesOf
  <2> QED BY <2>3, <2>4, <2>5 DEF TimelyInv
<1>10. ASSUME ~SlowCommits, SweepsSurvive PROVE CoveredInv'
  <2> SUFFICES ASSUME run.closed = "open", NEW t \in InFlight(run), lease'[t].fence # run.fences[t]
               PROVE  \E v \in Workers : Sweeps(work[v], t)'
    BY <1>2 DEF CoveredInv
  <2>1. t \in Steps
    BY <1>1 DEF InFlight, TypeOK, RunStates
  <2>2. lease[t].fence # run.fences[t]
    <3> SUFFICES ASSUME lease[t].fence = run.fences[t] PROVE FALSE
      OBVIOUS
    <3>1. t = s
      BY <1>3, <2>1
    <3>2. lease[s].attempt = run.attempts[s] /\ lease[s].fence # 0
      BY <3>1, LatestLease
    <3>3. a = run.attempts[s] + 1
      BY <1>1, <3>2 DEF Allowed
    <3>4. run.terminal[s] # "none" \/ run.attempts[s] = 0
      BY <1>10, <3>3 DEF Inv, TimelyInv, TimelyOK
    <3> QED BY <3>1, <3>4 DEF InFlight
  <2>3. PICK v \in Workers : Sweeps(work[v], t)
    BY <1>10, <2>2 DEF Inv, CoveredInv
  <2>4. v # w
    BY <2>3 DEF Sweeps, Orphaning
  <2> QED BY <1>2, <1>3, <2>3, <2>4 DEF Sweeps
<1> QED BY <1>4, <1>8, <1>9, <1>10 DEF Inv

(* Offer, granted or refused.                                               *)
LEMMA DispatchOfferStep ==
    ASSUME Inv, NEW w \in Workers, DispatchOffer(w)
    PROVE  Inv'
<1>1. PICK pick : pick = CHOOSE t \in work[w].todo : \A u \in work[w].todo : t[1] <= u[1]
  OBVIOUS
<1>2. /\ work[w].pc = "dispatch" /\ work[w].pc \notin Orphaning /\ work[w] \in Work
      /\ UNCHANGED <<run, resting, renewed, bus, faults, history>> /\ faults \in Nat
      /\ lastFence \in Nat
  BY DEF DispatchOffer, At, Orphaning, Inv, TypeOK
<1>3. pick \in work[w].todo /\ pick[1] \in Steps /\ pick[2] \in Nat
  BY <1>1, <1>2, PickInPlan DEF Work
<1>4. CASE lease[pick[1]].fence # 0 /\ lease[pick[1]].attempt >= pick[2]
  <2>1. PICK rest : rest = [work[w] EXCEPT !.todo = @ \ {pick}]
    OBVIOUS
  <2>2. /\ rest \in Work /\ rest.pc = "dispatch" /\ rest.todo = work[w].todo \ {pick}
        /\ rest.next = work[w].next
    BY <1>2, <2>1 DEF Work
  <2>3. /\ Become(w, IF rest.todo = {} THEN IdleWork ELSE rest)
        /\ UNCHANGED <<lease, lastFence>>
    BY <1>1, <1>4, <2>1 DEF DispatchOffer
  <2>4. UNCHANGED leases
    BY <1>2, <2>3 DEF leases
  <2>5. CASE rest.todo = {}
    BY <1>2, <2>3, <2>4, <2>5, DoneMoves, JustMoves
  <2>6. CASE rest.todo # {}
    <3>1. PlanOK(work[w]) /\ (~SlowCommits => TimelyOK(work[w]))
      BY DEF Inv, BaseInv, TimelyInv
    <3>2. work' = [work EXCEPT ![w] = rest]
      BY <2>3, <2>6 DEF Become
    <3>3. rest.pc \notin Offering \cup Applying \cup Orphaning \cup Surfacing
          /\ rest.pc \notin {"begin", "commit", "withdraw"}
      BY <2>2 DEF Offering, Applying, Orphaning, Surfacing
    <3>4. PlanOK(rest)
      BY <1>2, <2>2, <2>6, <3>1, <3>3 DEF PlanOK
    <3>5. ~SlowCommits => TimelyOK(rest)
      BY <2>2, <3>1, <3>3 DEF TimelyOK
    <3>6. Moves(w, rest)
      BY <2>2, <3>2, <3>3, <3>4, <3>5 DEF Moves, SameOffer
    <3> QED BY <1>2, <2>4, <3>6, JustMoves
  <2> QED BY <2>5, <2>6
<1>5. CASE ~(lease[pick[1]].fence # 0 /\ lease[pick[1]].attempt >= pick[2])
  <2> DEFINE d == [step |-> pick[1], attempt |-> pick[2], fence |-> lastFence + 1]
  <2>1. PICK rest : rest = [work[w] EXCEPT !.todo = @ \ {pick}]
    OBVIOUS
  <2>2. PICK r : r = [rest EXCEPT !.pc = "reload", !.d = d]
    OBVIOUS
  <2>3. /\ work' = [work EXCEPT ![w] = r] /\ lastFence' = lastFence + 1
        /\ lease' = [lease EXCEPT ![pick[1]] =
                        [fence |-> lastFence + 1, attempt |-> pick[2], age |-> "fresh"]]
    BY <1>1, <1>5, <2>1, <2>2 DEF DispatchOffer, Become
  <2>4. d \in Dispatches
    BY <1>2, <1>3 DEF Dispatches
  <2>5. /\ rest \in Work /\ rest.pc = "dispatch" /\ rest.todo = work[w].todo \ {pick}
        /\ rest.next = work[w].next
    BY <1>2, <2>1 DEF Work
  <2>6. r.d = d
    BY <2>2, <2>5 DEF Work
  <2> HIDE DEF d
  <2>7. r \in Work /\ r.pc = "reload" /\ r.todo \subseteq work[w].todo /\ r.next = work[w].next
    BY <2>2, <2>4, <2>5 DEF Work, Places
  <2> QED BY <1>2, <1>3, <1>5, <2>3, <2>6, <2>7, OfferGranted DEF d
<1> QED BY <1>4, <1>5

(* A commit under a fence that stands is of a new attempt: the one dispatch *)
(* of that attempt, owed by the outbox.                                     *)
LEMMA TimelyCommit ==
    ASSUME Inv, ~SlowCommits, NEW w \in Workers, NEW d, d = work[w].d, NEW s, s = d.step,
           work[w].pc = "commit", d \in Dispatches,
           NEW r, Moves(w, r), r.pc \in {"idle", "advance", "dispatch"},
           run' \in RunStates, run'.pinned = run.pinned, run'.closed = run.closed,
           run'.attempts[s] = IF d.attempt > run.attempts[s] THEN d.attempt ELSE run.attempts[s],
           run'.fences[s] = IF d.attempt >= run.attempts[s] THEN d.fence ELSE run.fences[s],
           run'.terminal[s] = "none",
           \A t \in Steps \ {s} : /\ run'.attempts[t] = run.attempts[t] /\ run'.fences[t] = run.fences[t]
                                  /\ run'.terminal[t] = run.terminal[t],
           outbox' = outbox \cup {d}, dispatched' = dispatched \cup {d},
           UNCHANGED <<lease, renewed, lastFence, queue, job, statuses>>
    PROVE  TimelyInv' /\ (SweepsSurvive => CoveredInv')
<1>1. TypeOK /\ BaseInv /\ TimelyInv
  BY DEF Inv
<1>2. /\ s \in Steps /\ run.attempts[s] \in Nat /\ d.attempt \in Nat
      /\ Current(d) /\ lease[s].age # "abandoned" /\ run.attempts[s] < d.attempt
      /\ d.attempt <= run.attempts[s] + 1
  BY <1>1 DEF TypeOK, RunStates, Dispatches, BaseInv, PlanOK, Allowed, TimelyInv, TimelyOK, Offering
<1>3. run'.attempts[s] = d.attempt /\ run'.fences[s] = d.fence /\ d.attempt = run.attempts[s] + 1
  BY <1>2
<1>4. \A v \in Workers : work'[v] = IF v = w THEN r ELSE work[v]
  BY <1>1 DEF Moves, TypeOK
<1>5. \A e \in dispatched : e \in Dispatches /\ (e.step = s => e.attempt # d.attempt)
  BY <1>1, <1>2 DEF TypeOK, BaseInv, LogInv
<1>6. ASSUME NEW q \in Work, PlanOK(q), TimelyOK(q),
             q.pc \in {"begin", "commit", "withdraw"} /\ Current(q.d) => q.d.step # s
      PROVE  TimelyOK(q)'
  <2>1. \A t \in q.todo : t[1] \in Steps /\ (t[1] = s => t[2] # run'.attempts[s] + 1)
    BY <1>2, <1>3, <1>6 DEF PlanOK, Allowed, Work
  <2>2. q.pc \in {"begin", "commit", "withdraw"} => q.d.step \in Steps
    BY <1>6 DEF PlanOK, Offering, Surfacing, Dispatches
  <2>3. Current(q.d)' <=> Current(q.d)
    BY DEF Current
  <2> QED BY <1>6, <2>1, <2>2, <2>3 DEF TimelyOK
<1>7. ASSUME NEW v \in Workers PROVE TimelyOK(work[v])'
  <2>1. PICK q \in Work : q = work'[v] /\ PlanOK(q) /\ TimelyOK(q)
    BY <1>1, <1>4 DEF Moves, TypeOK, BaseInv, TimelyInv
  <2>2. q.pc \in {"begin", "commit", "withdraw"} => v # w /\ q = work[v]
    BY <1>4, <2>1
  <2>3. ASSUME q.pc \in {"begin", "commit", "withdraw"}, Current(q.d) PROVE q.d.step # s
    <3>1. q.d.step = s => q.d.fence = d.fence
      BY <1>2, <2>3 DEF Current
    <3>2. q.pc \in Offering => q.d.fence # d.fence
      BY <1>1, <2>2, <2>3 DEF BaseInv, FencesApart, Offering
    <3>3. q.pc = "withdraw" => lease[q.d.step].age = "abandoned"
      BY <2>1, <2>3 DEF PlanOK, Surfacing
    <3> QED BY <1>2, <2>3, <3>1, <3>2, <3>3 DEF Offering
  <2>4. TimelyOK(q)'
    BY <1>6, <2>1, <2>3
  <2> QED BY <2>1, <2>4
<1>8. OneDispatchPerAttempt'
  BY <1>1, <1>5 DEF TimelyInv, OneDispatchPerAttempt
<1>9. CountInv'
  <2>1. ASSUME NEW t \in Steps
        PROVE  IsFiniteSet(DispatchesOf(t)') /\ Cardinality(DispatchesOf(t)') <= run'.attempts[t]
    <3>1. IsFiniteSet(DispatchesOf(t)) /\ Cardinality(DispatchesOf(t)) <= run.attempts[t]
      BY <1>1 DEF TimelyInv, CountInv
    <3>2. CASE t # s
      <4>1. DispatchesOf(t)' = DispatchesOf(t)
        BY <3>2 DEF DispatchesOf
      <4> QED BY <3>1, <3>2, <4>1
    <3>3. CASE t = s
      <4>1. DispatchesOf(t)' = DispatchesOf(t) \cup {d} /\ d \notin DispatchesOf(t)
        BY <1>5, <3>3 DEF DispatchesOf
      <4>2. /\ IsFiniteSet(DispatchesOf(t) \cup {d})
            /\ Cardinality(DispatchesOf(t) \cup {d}) = Cardinality(DispatchesOf(t)) + 1
        BY <3>1, <4>1, FS_AddElement
      <4>3. Cardinality(DispatchesOf(t)) \in Nat
        BY <3>1, FS_CardinalityType
      <4> QED BY <1>2, <1>3, <3>1, <3>3, <4>1, <4>2, <4>3
    <3> QED BY <3>2, <3>3
  <2> QED BY <2>1 DEF CountInv
<1>10. HandedInv'
  <2> SUFFICES ASSUME NEW e \in dispatched, Waiting(e)' PROVE Handed(e)'
    BY DEF HandedInv, Handed
  <2>1. e.step \in Steps /\ e.step # s
    BY <1>3, <1>5 DEF Waiting, Dispatches
  <2>2. Waiting(e)
    BY <2>1 DEF Waiting, Current
  <2> QED BY <1>1, <2>2 DEF TimelyInv, HandedInv, Handed
<1>11. ASSUME SweepsSurvive PROVE CoveredInv'
  <2> SUFFICES ASSUME run'.closed = "open", NEW t \in InFlight(run'),
                      lease'[t].fence # run'.fences[t]
               PROVE  \E v \in Workers : Sweeps(work[v], t)'
    BY DEF CoveredInv
  <2>1. t \in Steps /\ t # s
    BY <1>2, <1>3 DEF InFlight, RunStates, Current
  <2>2. t \in InFlight(run) /\ lease[t].fence # run.fences[t] /\ run.closed = "open"
    BY <2>1 DEF InFlight
  <2>3. PICK v \in Workers : Sweeps(work[v], t)
    BY <1>11, <2>2 DEF Inv, CoveredInv
  <2>4. v # w
    BY <2>3 DEF Sweeps, Orphaning
  <2> QED BY <1>4, <2>1, <2>3, <2>4 DEF Sweeps
<1> QED BY <1>7, <1>8, <1>9, <1>10, <1>11 DEF TimelyInv

(* The transaction of dispatch.                                             *)
LEMMA DispatchCommitStep ==
    ASSUME Inv, NEW w \in Workers, DispatchCommit(w)
    PROVE  Inv'
<1>1. PICK d : d = work[w].d
  OBVIOUS
<1>2. PICK s : s = d.step
  OBVIOUS
<1>3. /\ work[w].pc = "commit" /\ NextStep(w)
      /\ run' = FoldDispatched(run, s, d.attempt, d.fence)
      /\ everDone' = everDone \cup {t \in Steps : run'.terminal[t] = "succeeded"}
      /\ resting' \subseteq resting \cup {s}
      /\ outbox' = outbox \cup {d} /\ dispatched' = dispatched \cup {d}
      /\ UNCHANGED <<leases, queue, job, statuses, faults, started>>
  BY <1>1, <1>2 DEF DispatchCommit, At, Append
<1>4. UNCHANGED <<lease, renewed, lastFence>>
  BY <1>3 DEF leases
<1>5. /\ TypeOK /\ BaseInv /\ PlanOK(work[w]) /\ run \in RunStates
      /\ d \in Dispatches /\ s \in Steps /\ d.attempt \in Nat /\ d.fence \in Nat
      /\ d.fence \in 1 .. lastFence /\ Allowed(s, d.attempt) /\ run.attempts[s] \in Nat
      /\ Current(d) => lease[s].attempt = d.attempt
  BY <1>1, <1>2, <1>3 DEF Inv, TypeOK, BaseInv, PlanOK, Offering, Dispatches, RunStates
<1>6. /\ run' \in RunStates /\ run'.pinned = run.pinned /\ run'.closed = run.closed
      /\ run'.attempts[s] = IF d.attempt > run.attempts[s] THEN d.attempt ELSE run.attempts[s]
      /\ run'.fences[s] = IF d.attempt >= run.attempts[s] THEN d.fence ELSE run.fences[s]
      /\ run'.terminal[s] = "none"
      /\ \A t \in Steps \ {s} : /\ run'.attempts[t] = run.attempts[t] /\ run'.fences[t] = run.fences[t]
                                /\ run'.terminal[t] = run.terminal[t]
  <2>1. PICK n : n = FoldDispatched(run, s, d.attempt, d.fence)
    OBVIOUS
  <2>2. /\ n \in RunStates /\ n.pinned = run.pinned /\ n.closed = run.closed
        /\ n.attempts[s] = IF d.attempt > run.attempts[s] THEN d.attempt ELSE run.attempts[s]
        /\ n.fences[s] = IF d.attempt >= run.attempts[s] THEN d.fence ELSE run.fences[s]
        /\ n.terminal[s] = "none"
        /\ \A t \in Steps \ {s} : /\ n.attempts[t] = run.attempts[t] /\ n.fences[t] = run.fences[t]
                                  /\ n.terminal[t] = run.terminal[t]
    <3>1. run \in RunStates /\ s \in Steps /\ d.attempt \in Nat /\ d.fence \in Nat
      BY <1>5
    <3>2. PICK a, f : a = d.attempt /\ f = d.fence
      OBVIOUS
    <3>3. n = FoldDispatched(run, s, a, f) /\ a \in Nat /\ f \in Nat
      BY <2>1, <3>1, <3>2
    <3> QED BY <3>1, <3>2, <3>3 DEF FoldDispatched, RunStates, Verdicts
  <2> QED BY <1>3, <2>1, <2>2
<1>7. PICK r : Moves(w, r) /\ r.pc \in {"idle", "advance", "dispatch"}
  BY <1>3, DoneMoves
<1>8. /\ r \in Work /\ PlanOK(r) /\ r.pc \notin Offering
      /\ \A v \in Workers : work'[v] = IF v = w THEN r ELSE work[v]
      /\ work' \in [Workers -> Work]
  BY <1>5, <1>7 DEF Moves, TypeOK, Offering
<1>9. TypeOK'
  BY <1>3, <1>4, <1>5, <1>6, <1>8 DEF TypeOK
<1>10. \A t \in Steps : /\ run.attempts[t] \in Nat /\ run'.attempts[t] \in Nat /\ MaxAttempts(t) \in Nat
                        /\ run.attempts[t] <= MaxAttempts(t)
  BY <1>5, <1>6, RunStateAssumption DEF BaseInv, LogInv, RunStates, MaxAttempts
<1>11. \A t \in Steps : run'.attempts[t] \in run.attempts[t] .. MaxAttempts(t)
  BY <1>5, <1>6, <1>10 DEF Allowed
<1>12. Forward
  <2>1. lastFence' >= lastFence
    BY <1>4, <1>5 DEF TypeOK
  <2> QED BY <1>3, <1>4, <1>6, <1>11, <2>1 DEF Forward
<1>13. \A v \in Workers \ {w} : work[v].pc \in Offering => work[v].d.fence # d.fence
  BY <1>1, <1>3, <1>5 DEF BaseInv, FencesApart, Offering
<1>14. BaseInv'
  <2>1. ASSUME NEW v \in Workers PROVE PlanOK(work[v])'
    <3>1. PICK q \in Work : q = work'[v] /\ PlanOK(q)
      BY <1>5, <1>8 DEF BaseInv, TypeOK
    <3>2. q.pc \in Offering => \A e \in dispatched' \ dispatched : e.fence # q.d.fence
      BY <1>3, <1>8, <1>13, <3>1
    <3>3. PlanOK(q)'
      BY <1>5, <1>9, <1>12, <3>1, <3>2, PlanForward
    <3> QED BY <3>1, <3>3
  <2>2. LeaseInv'
    BY <1>2, <1>3, <1>4, <1>5 DEF BaseInv, LeaseInv, Current
  <2>3. FencesApart'
    BY <1>5, <1>8 DEF BaseInv, FencesApart
  <2>4. LogInv'
    <3>1. /\ \A e \in dispatched' : /\ e.step \in run'.pinned /\ e.attempt \in 1 .. run'.attempts[e.step]
                                    /\ e.fence \in 1 .. lastFence'
      <4>1. ASSUME NEW e \in dispatched
            PROVE  /\ e.step \in run'.pinned /\ e.attempt \in 1 .. run'.attempts[e.step]
                   /\ e.fence \in 1 .. lastFence'
        <5>1. /\ e.step \in run.pinned /\ e.attempt \in 1 .. run.attempts[e.step]
              /\ e.fence \in 1 .. lastFence /\ e.step \in Steps
          BY <1>5 DEF BaseInv, LogInv, TypeOK, Dispatches
        <5> QED BY <1>4, <1>6, <1>10, <1>11, <5>1
      <4>2. /\ d.step \in run'.pinned /\ d.attempt \in 1 .. run'.attempts[d.step]
            /\ d.fence \in 1 .. lastFence'
        BY <1>2, <1>4, <1>5, <1>6 DEF Allowed
      <4> QED BY <1>3, <4>1, <4>2
    <3>2. \A t \in Steps : run'.attempts[t] <= MaxAttempts(t)
      BY <1>10, <1>11
    <3>3. ASSUME NEW t \in Steps
          PROVE  /\ run'.fences[t] # 0 => run'.attempts[t] # 0
                 /\ run'.attempts[t] # 0 =>
                       [step |-> t, attempt |-> run'.attempts[t], fence |-> run'.fences[t]]
                           \in dispatched'
      <4>1. CASE t # s
        BY <1>3, <1>5, <1>6, <4>1 DEF BaseInv, LogInv
      <4>2. CASE t = s /\ ~(d.attempt >= run.attempts[s])
        BY <1>3, <1>5, <1>6, <4>2 DEF BaseInv, LogInv
      <4>3. CASE t = s /\ d.attempt >= run.attempts[s]
        <5>1. /\ run'.attempts[t] = d.attempt /\ run'.fences[t] = d.fence /\ d.step = t
              /\ d.attempt # 0
          BY <1>2, <1>5, <1>6, <4>3 DEF Allowed
        <5>2. d = [step |-> d.step, attempt |-> d.attempt, fence |-> d.fence]
          BY <1>5 DEF Dispatches
        <5> QED BY <1>3, <5>1, <5>2
      <4> QED BY <4>1, <4>2, <4>3
    <3>4. \A t \in Steps : run'.terminal[t] = "succeeded" => t \in everDone' /\ t \in run.pinned
      BY <1>3, <1>5, <1>6 DEF BaseInv, LogInv
    <3>5. everDone' \subseteq run'.pinned /\ run'.pinned \in Pipelines
      BY <1>3, <1>5, <1>6, <3>4 DEF BaseInv, LogInv
    <3> QED BY <3>1, <3>2, <3>3, <3>4, <3>5 DEF LogInv
  <2>5. BusInv'
    BY <1>3, <1>5 DEF BaseInv, BusInv
  <2>6. Earned(run.closed)'
    <3>1. PICK how : how = run'.closed /\ Earned(how)
      BY <1>5, <1>6 DEF BaseInv
    <3>2. Earned(how)'
      BY <1>5, <1>9, <1>12, <3>1, EarnedForward
    <3> QED BY <3>1, <3>2
  <2> QED BY <2>1, <2>2, <2>3, <2>4, <2>5, <2>6 DEF BaseInv
<1>15. ~SlowCommits => TimelyInv' /\ (SweepsSurvive => CoveredInv')
  BY <1>1, <1>2, <1>3, <1>4, <1>5, <1>6, <1>7, TimelyCommit
<1> QED BY <1>9, <1>14, <1>15 DEF Inv

------------------------------------------------------------------------------
(* The theorems.                                                            *)

(* A run begins with nothing dispatched.                                    *)
LEMMA InitInv == Init => Inv
<1> SUFFICES ASSUME Init PROVE Inv
  OBVIOUS
<1>1. PICK revision \in Pipelines : run = NewRun(revision)
  BY DEF Init
<1>2. /\ run \in RunStates /\ run.pinned = revision /\ run.closed = "open"
      /\ \A s \in Steps : run.attempts[s] = 0 /\ run.fences[s] = 0 /\ run.terminal[s] = "none"
  BY <1>1, SchedulerAssumption DEF NewRun, RunStates, Verdicts, Endings
<1>3. NoLease \in [fence : Nat, attempt : Nat, age : Ages] /\ NoLease.fence = 0
  BY DEF NoLease, Ages
<1>4. NoRenewal \in [fence : Nat, late : BOOLEAN] /\ NoRenewal.fence = 0
  BY DEF NoRenewal
<1>5. FreeSlot \in [phase : Phases, d : Dispatches \cup {NoDispatch}] /\ FreeSlot.phase = "free"
  BY DEF FreeSlot, Phases
<1>6. /\ IdleWork \in Work /\ IdleWork.pc = "idle" /\ IdleWork.next = "idle" /\ IdleWork.todo = {}
  BY DEF IdleWork, Work, Places, Verdicts
<1>7. TypeOK
  BY <1>2, <1>3, <1>4, <1>5, <1>6 DEF Init, TypeOK
<1>8. /\ dispatched = {} /\ everDone = {} /\ outbox = {} /\ queue = {} /\ statuses = {}
      /\ lastFence = 0
      /\ \A s \in Steps : lease[s].fence = 0 /\ renewed[s].fence = 0
      /\ \A e \in Engines : job[e].phase = "free"
      /\ \A w \in Workers : work[w] = IdleWork
  BY <1>3, <1>4, <1>5 DEF Init
<1>9. PlanOK(IdleWork) /\ TimelyOK(IdleWork) /\ IdleWork.pc \notin Offering
  BY <1>6 DEF PlanOK, TimelyOK, Earned, Offering, Applying, Orphaning, Surfacing
<1>10. BaseInv
  <2>1. LogInv
    <3>1. \A s \in Steps : 0 <= MaxAttempts(s)
      BY RunStateAssumption DEF MaxAttempts
    <3> QED BY <1>2, <1>8, <3>1 DEF LogInv
  <2>2. LeaseInv /\ BusInv
    BY <1>8 DEF LeaseInv, BusInv
  <2>3. FencesApart /\ Earned(run.closed)
    BY <1>2, <1>8, <1>9 DEF FencesApart, Earned
  <2> QED BY <1>8, <1>9, <2>1, <2>2, <2>3 DEF BaseInv
<1>11. TimelyInv
  <2>1. CountInv
    <3>1. \A s \in Steps : DispatchesOf(s) = {}
      BY <1>8 DEF DispatchesOf
    <3>2. IsFiniteSet({}) /\ Cardinality({}) = 0
      BY FS_EmptySet
    <3> QED BY <1>2, <3>1, <3>2 DEF CountInv
  <2> QED BY <1>8, <1>9, <2>1 DEF TimelyInv, OneDispatchPerAttempt, HandedInv
<1>12. CoveredInv
  BY <1>2 DEF CoveredInv, InFlight, RunStates
<1> QED BY <1>7, <1>10, <1>11, <1>12 DEF Inv

(***************************************************************************)
(* The inductive invariant: what the log, the leases, the bus and every    *)
(* goroutine hold between them, kept by every step of every actor.         *)
(***************************************************************************)
THEOREM Invariance == Spec => []Inv
<1>1. ASSUME Inv, [Next]_vars PROVE Inv'
  <2>1. CASE \E w \in Workers : Continue(w) \/ Begin(w) \/ Die(w)
    <3>1. PICK w \in Workers : Continue(w) \/ Begin(w) \/ Die(w)
      BY <2>1
    <3>2. CASE Continue(w)
      BY <1>1, <3>2, AdvanceLoadStep, RecordAwaitingStep, CloseRunStep, DispatchOfferStep,
         DispatchReloadStep, DispatchBeginStep, DispatchCommitStep, StatusLoadStep,
         StatusAppendStep, OrphanLoadStep, OrphanAppendStep, SurfaceLoadStep, WithdrawStep
      DEF Continue
    <3>3. CASE Begin(w)
      BY <1>1, <3>3, StatusValidateStep, ExpireStep, SurfaceStep DEF Begin
    <3>4. CASE Die(w)
      BY <1>1, <3>4, DieStep
    <3> QED BY <3>1, <3>2, <3>3, <3>4
  <2>2. CASE \E d \in outbox : Drain(d)
    BY <1>1, <2>2, DrainStep
  <2>3. CASE \E e \in Engines : EngineStep(e) \/ NoAnswer(e) \/ Redeliver(e)
    BY <1>1, <2>3, EngineSteps
  <2>4. CASE \E s \in Steps : Lapse(s) \/ Age(s) \/ Elapse(s)
    BY <1>1, <2>4, ClockSteps
  <2>5. CASE UNCHANGED vars
    <3>1. UNCHANGED <<run, resting, lease, renewed, lastFence, outbox, queue, job, statuses,
                      work, faults, dispatched, started, everDone>>
      BY <2>5 DEF vars, leases, bus, history
    <3>2. TypeOK' /\ BusInv' /\ \A d \in dispatched : Handed(d) => Handed(d)'
      BY <1>1, <3>1 DEF Inv, TypeOK, BaseInv, BusInv, Handed
    <3>3. ~SlowCommits => \A w \in Workers :
              work[w].pc = "commit" => lease'[work[w].d.step].age # "abandoned"
      BY <1>1, <3>1 DEF Inv, TimelyInv, TimelyOK
    <3> QED BY <1>1, <3>1, <3>2, <3>3, OutsideStep
  <2> QED BY <1>1, <2>1, <2>2, <2>3, <2>4, <2>5 DEF Next
<1> QED BY <1>1, InitInv, PTL DEF Spec

(***************************************************************************)
(* Every variable keeps its type.                                          *)
(***************************************************************************)
THEOREM SchedulerTypeOK == Spec => []TypeOK
<1>1. Inv => TypeOK
  BY DEF Inv
<1> QED BY <1>1, Invariance, PTL

(***************************************************************************)
(* A run is closed as what it was, however old the replay it was decided   *)
(* on: the steps that have ever succeeded only grow and an attempt that is *)
(* used up stays so, so what Advance found stays true until it is written. *)
(***************************************************************************)
THEOREM ClosesHonestly == Spec => []ClosedHonestly
<1>1. Inv => ClosedHonestly
  BY DEF Inv, BaseInv, LogInv, Earned, ClosedHonestly
<1> QED BY <1>1, Invariance, PTL

(***************************************************************************)
(* While commits that begin in time end in time, an attempt is dispatched  *)
(* once and a step as often as its effect class allows: the offer refuses  *)
(* a second claim of an attempt, and an offer that is replaced or          *)
(* withdrawn is never committed.                                           *)
(***************************************************************************)
THEOREM DispatchesAreBounded ==
    ASSUME ~SlowCommits PROVE Spec => []NeverOverDispatched
<1>1. ASSUME Inv PROVE NeverOverDispatched
  <2>1. TimelyInv /\ TypeOK /\ LogInv
    BY <1>1 DEF Inv, BaseInv
  <2>2. ASSUME NEW s \in Steps PROVE Cardinality({d \in dispatched : d.step = s}) <= MaxAttempts(s)
    <3>1. /\ IsFiniteSet(DispatchesOf(s)) /\ Cardinality(DispatchesOf(s)) <= run.attempts[s]
          /\ run.attempts[s] <= MaxAttempts(s)
          /\ run.attempts[s] \in Nat /\ MaxAttempts(s) \in Nat
      BY <2>1, RunStateAssumption DEF TimelyInv, CountInv, LogInv, TypeOK, RunStates, MaxAttempts
    <3>2. Cardinality(DispatchesOf(s)) \in Nat
      BY <3>1, FS_CardinalityType
    <3>3. Cardinality(DispatchesOf(s)) <= MaxAttempts(s)
      BY <3>1, <3>2
    <3> QED BY <3>3 DEF DispatchesOf
  <2> QED BY <2>1, <2>2 DEF TimelyInv, NeverOverDispatched
<1> QED BY <1>1, Invariance, PTL

(***************************************************************************)
(* While commits that begin in time end in time, a dispatch the run waits  *)
(* for is always in somebody's hands.                                      *)
(***************************************************************************)
THEOREM DispatchesAreKept ==
    ASSUME ~SlowCommits PROVE Spec => []NoDispatchLost
<1>1. ASSUME Inv PROVE NoDispatchLost
  <2>1. HandedInv
    BY <1>1 DEF Inv, TimelyInv
  <2>2. \A d : Handed(d) => InSomebodysHands(d)
    BY DEF Handed, InSomebodysHands
  <2> QED BY <2>1, <2>2 DEF HandedInv, Waiting, NoDispatchLost
<1> QED BY <1>1, Invariance, PTL

(***************************************************************************)
(* If besides a sweeper lives to record the orphans it expired, every step *)
(* in flight is under its own lease or about to be recorded as lost.       *)
(***************************************************************************)
THEOREM FlightsAreCovered ==
    ASSUME ~SlowCommits, SweepsSurvive PROVE Spec => []InFlightIsCovered
<1>1. ASSUME Inv PROVE InFlightIsCovered
  <2>1. CoveredInv
    BY <1>1 DEF Inv
  <2>2. \A s : (\E w \in Workers : Sweeps(work[w], s)) => Recording(s)
    BY DEF Sweeps, Recording, Orphaning
  <2> QED BY <2>1, <2>2 DEF CoveredInv, InFlightIsCovered
<1> QED BY <1>1, Invariance, PTL

==============================================================================
