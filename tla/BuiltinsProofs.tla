--------------------------- MODULE BuiltinsProofs ---------------------------
(***************************************************************************)
(* Proofs about the steps a control plane hosts, for any number of planes, *)
(* steps, pipelines, fragments and faults: an attempt has one body         *)
(* (OneBodyPerAttempt), a job's verdict is of its own attempt              *)
(* (VerdictOfItsAttempt), no wait is skipped (WaitsHonoured), and what a   *)
(* person decided stands (DecisionStands).                                 *)
(***************************************************************************)
EXTENDS Builtins, TLAPS, WellFoundedInduction

------------------------------------------------------------------------------
(* The inductive invariant.                                                 *)

\* The places of a job whose attempt has been dispatched.
Dispatched == BodyPlaces \cup {"succeed", "fail"}

\* The places of a job that has claimed its step.
Holding == {"claimed", "fresh"} \cup Dispatched

\* What the gates' own events say of one another.
GateInv ==
    \A s \in Steps :
        /\ timers[s] # "none" => Kind[s] = "timer"
        /\ timers[s] # "fired" => fired[s] = 0
        /\ gates.asked[s] = "step" => Kind[s] = "approval" /\ s \in gates.gated
        /\ gates.asked[s] = "parks" => Kind[s] = "agent" /\ run.attempts[s] > 0 /\ gates.parked[s] # "none"
        /\ gates.decided[s] # "none" => gates.asked[s] # "none"
        /\ s \in gates.resumed => gates.asked[s] = "parks" /\ gates.decided[s] # "none"
        /\ gates.parked[s] # "none" => run.attempts[s] > 0

\* Nobody answers while another does.
OnePerson == \A h, i \in People : h = i

\* An agent that may not be repeated.
OneShot(s) == Kind[s] = "agent" /\ s \notin Repeatable

\* Everything feeding the step is through.
Fed(s) == \A q \in Preds[s] : Opened(q)

\* The step is decided, or somebody is deciding it.
Shut(s) ==
    gates.decided[s] # "none" \/ \E h \in People : person[h] # NoDecision /\ person[h].step = s

\* What made the attempt a of s the one to run still holds.
AttemptOK(s, a) ==
    /\ a > 0
    /\ OnePerson => Fed(s)
    /\ OnePerson /\ OneShot(s) => a <= 2 /\ (a = 2 => gates.decided[s] # "none")

TodoOK(t) ==
    /\ AttemptOK(t[1], t[2])
    /\ OnePerson /\ SlowPeople /\ Kind[t[1]] = "approval" => ~Shut(t[1])

PassOK(r) == (r.pc = "act" => r.todo # {}) /\ \A t \in r.todo : TodoOK(t)

\* Where a job of s may be, and under which lease.
PlaceOK(s, j) ==
    /\ j.pc # "idle" => AttemptOK(s, j.attempt)
    /\ j.pc = "queued" => Kind[s] \in {"approval", "model", "agent", "loop"}
    /\ j.pc \in {"acting", "asking"} => Kind[s] = "agent"
    /\ j.pc = "asking" => gates.parked[s] # "none"
    /\ j.pc \in {"idle", "queued"} => j.fence = 0
    /\ j.pc \in Holding =>
          \/ s \in Hosted /\ j.fence > 0
          \/ Kind[s] = "approval" /\ j.fence = 0 /\ j.pc = "fail" /\ gates.decided[s] # "none"

\* While the lease of s carries the fence of j, only j adds to the attempts of s.
FenceOK(s, j) ==
    /\ j.fence <= lastFence
    /\ j.pc = "fresh" /\ lease[s].fence = j.fence => run.attempts[s] < j.attempt
    /\ j.pc \in Dispatched /\ j.fence # 0 =>
          /\ [step |-> s, attempt |-> j.attempt, fence |-> j.fence] \in bodies
          /\ lease[s].fence = j.fence => run.attempts[s] = j.attempt

\* The first body of a one-shot agent starts before it parks, the second before it acts.
ResumeOK(s, j) ==
    OnePerson /\ OneShot(s) /\ j.pc = "running" =>
        /\ j.attempt = 1 => gates.parked[s] = "none"
        /\ j.attempt = 2 => acted[s] = 0

\* No job has a gate in hand that is being decided.
GateOK(s, j) ==
    OnePerson /\ SlowPeople /\ Kind[s] = "approval" =>
        j.pc \in {"idle", "queued"} /\ (j.pc = "queued" => ~Shut(s))

JobOK(s, j) == PlaceOK(s, j) /\ FenceOK(s, j) /\ ResumeOK(s, j) /\ GateOK(s, j)

LeaseOK(s) ==
    lease[s].fence <= lastFence /\ (lease[s].fence # 0 => s \in Hosted /\ lease[s].attempt > 0)

SweepOK(r) ==
    r.pc # "idle" =>
        /\ r.step \in Hosted /\ r.attempt > 0
        /\ r.pc = "append" => run.attempts[r.step] > 0

PersonOK(r) ==
    r # NoDecision =>
        /\ r.step \in Steps /\ gates.asked[r.step] # "none"
        /\ OnePerson => gates.decided[r.step] = "none"

WorkersInv ==
    /\ \A p \in Planes : PassOK(pass[p]) /\ SweepOK(sweep[p])
    /\ \A p \in Planes, s \in Steps : JobOK(s, jobs[p][s])
    /\ \A s \in Steps : LeaseOK(s)
    /\ \A h \in People : PersonOK(person[h])

\* A fence is one job's.
OwnFences ==
    \A p, q \in Planes, s \in Steps :
        jobs[p][s].fence # 0 /\ jobs[q][s].fence = jobs[p][s].fence => p = q

BodiesInv ==
    /\ \A b \in bodies : b.attempt <= run.attempts[b.step]
    /\ OneBodyPerAttempt /\ VerdictOfItsAttempt

\* A one-shot agent is dispatched once, and once more when the call it parked at
\* has been approved.
DecidedInv ==
    \A s \in Steps :
        /\ gates.decided[s] = "none" => decisions[s] = 0
        /\ decisions[s] <= 1
        /\ acted[s] > 0 => Kind[s] = "agent" /\ gates.decided[s] = "approved"
        /\ OneShot(s) =>
              /\ run.attempts[s] <= 2 /\ acted[s] <= 1
              /\ gates.decided[s] = "none" => run.attempts[s] <= 1
              /\ run.attempts[s] = 2 => s \notin gates.resumed
              /\ run.attempts[s] <= 1 => acted[s] = 0

\* A success in the log has opened its step, and what was started was fed.
OpenedInv ==
    /\ WaitsHonoured
    /\ \A s \in Steps :
          /\ run.terminal[s] = "succeeded" => Opened(s)
          /\ run.terminal[s] = "failed" => run.attempts[s] > 0 \/ s \in gates.gated

\* The verdict of an approval step is what the person said.
SaidInv ==
    \A s \in Steps : Kind[s] = "approval" =>
        /\ gates.decided[s] = "approved" => run.terminal[s] = "succeeded"
        /\ gates.decided[s] = "denied" => run.terminal[s] = "failed" /\ run.closed # "open"
        /\ gates.decided[s] = "none" => run.terminal[s] = "none"

IInv ==
    /\ TypeOK /\ GateInv /\ WorkersInv /\ OwnFences /\ BodiesInv
    /\ OnePerson => DecidedInv /\ OpenedInv
    /\ OnePerson /\ SlowPeople => SaidInv

------------------------------------------------------------------------------
(* Records, and the events of the log.                                      *)

RunRec == [pinned : SUBSET Steps, attempts : [Steps -> Nat], fences : [Steps -> Nat],
           terminal : [Steps -> Verdicts], failedAt : SUBSET Steps, awaiting : SUBSET Steps,
           closed : Endings \cup {"cancelled"}]
GatesRec == [gated : SUBSET Steps, resumed : SUBSET Steps,
             asked : [Steps -> {"none", "step", "parks"}],
             decided : [Steps -> {"none", "approved", "denied"}],
             parked : [Steps -> {"none", "open", "decided"}]]
PassRec == [pc : {"idle", "act", "fail", "complete"}, todo : SUBSET (Steps \X Nat)]
JobRec == [pc : JobPlaces, attempt : Nat, fence : Nat, had : BOOLEAN]
SweepRec == [pc : {"idle", "load", "append"}, step : Steps \cup {0}, attempt : Nat]
PersonRec == [step : Steps \cup {0}, approved : BOOLEAN]

LogTypes == run.pinned \in Pipelines /\ run \in RunRec /\ gates \in GatesRec
WorkerTypes ==
    /\ pass \in [Planes -> PassRec] /\ jobs \in [Planes -> [Steps -> JobRec]]
    /\ sweep \in [Planes -> SweepRec] /\ person \in [People -> PersonRec]

LEMMA Types ==
    ASSUME TypeOK
    PROVE  LogTypes /\ WorkerTypes
BY DEF TypeOK, LogTypes, WorkerTypes, RunRec, GatesRec, PassRec, JobRec, SweepRec, PersonRec

(* What is typed in a state that leaves the other variables alone.          *)
LEMMA TypesKept ==
    ASSUME TypeOK, LogTypes', WorkerTypes', realised' \in [Steps -> Nat],
           UNCHANGED <<timers, leases, history>>, faults' \in Nat
    PROVE  TypeOK'
BY DEF TypeOK, LogTypes, WorkerTypes, RunRec, GatesRec, PassRec, JobRec, SweepRec, PersonRec,
       leases, history

LEMMA Idle ==
    /\ NoPass \in PassRec /\ NoPass.pc = "idle" /\ NoPass.todo = {}
    /\ NoJob \in JobRec /\ NoJob.pc = "idle" /\ NoJob.attempt = 0 /\ NoJob.fence = 0
    /\ NoOrphan.pc = "idle" /\ NoOrphan \in SweepRec
    /\ NoDecision \in PersonRec
BY DEF NoPass, NoJob, NoOrphan, NoDecision, PassRec, JobRec, SweepRec, PersonRec, JobPlaces

\* Every event but STEP_DISPATCHED leaves the attempts alone.
Appended(n, r) == n \in RunRec /\ n.pinned = r.pinned /\ n.attempts = r.attempts

LEMMA VerdictFolds ==
    ASSUME NEW r \in RunRec, NEW s \in Steps
    PROVE  /\ Appended(FoldSucceeded(r, s), r) /\ FoldSucceeded(r, s).closed = r.closed
           /\ FoldSucceeded(r, s).terminal = [r.terminal EXCEPT ![s] = "succeeded"]
           /\ Appended(FoldFailed(r, s), r) /\ FoldFailed(r, s).closed = r.closed
           /\ FoldFailed(r, s).terminal = [r.terminal EXCEPT ![s] = "failed"]
<1>1. PICK n : n = FoldSucceeded(r, s)
  OBVIOUS
<1>2. n \in RunRec /\ n.pinned = r.pinned /\ n.attempts = r.attempts /\ n.closed = r.closed
      /\ n.terminal = [r.terminal EXCEPT ![s] = "succeeded"]
  BY <1>1 DEF FoldSucceeded, RunRec, Verdicts
<1>3. PICK m : m = FoldFailed(r, s)
  OBVIOUS
<1>4. m.pinned = r.pinned /\ m.attempts = r.attempts /\ m.closed = r.closed
      /\ m.terminal = [r.terminal EXCEPT ![s] = "failed"]
  BY <1>3 DEF FoldFailed, RunRec, Verdicts
<1>5. m \in RunRec
  <2>1. [r.terminal EXCEPT ![s] = "failed"] \in [Steps -> Verdicts] /\ r.failedAt \cup {s} \in SUBSET Steps
    BY DEF RunRec, Verdicts
  <2> QED BY <1>3, <2>1 DEF FoldFailed, RunRec
<1> QED BY <1>1, <1>2, <1>3, <1>4, <1>5 DEF Appended

LEMMA LostFold ==
    ASSUME NEW r \in RunRec, NEW s \in Steps, NEW a \in Nat
    PROVE  /\ Appended(FoldLost(r, s, a), r) /\ FoldLost(r, s, a).closed = r.closed
           /\ \/ FoldLost(r, s, a).terminal = [r.terminal EXCEPT ![s] = "failed"]
              \/ FoldLost(r, s, a).terminal = r.terminal
BY DEF FoldLost, RunRec, Verdicts, Appended

LEMMA ClosedFold ==
    ASSUME NEW r \in RunRec, NEW how \in {"completed", "failed", "cancelled"}
    PROVE  /\ Appended(FoldClosed(r, how), r) /\ FoldClosed(r, how).terminal = r.terminal
           /\ FoldClosed(r, how).closed # "open"
BY DEF FoldClosed, RunRec, Endings, Appended

LEMMA DispatchedFold ==
    ASSUME NEW r \in RunRec, NEW s \in Steps, NEW a \in Nat, NEW f \in Nat, a > r.attempts[s]
    PROVE  LET n == FoldDispatched(r, s, a, f) IN
           /\ n \in RunRec /\ n.pinned = r.pinned /\ n.closed = r.closed
           /\ n.attempts = [r.attempts EXCEPT ![s] = a]
           /\ n.terminal = [r.terminal EXCEPT ![s] = "none"]
BY DEF FoldDispatched, RunRec, Verdicts

(* One worker's record changes.                                             *)
LEMMA OneJob ==
    ASSUME TypeOK, NEW p \in Planes, NEW s \in Steps, NEW n \in JobRec,
           jobs' = [jobs EXCEPT ![p][s] = n]
    PROVE  /\ jobs' \in [Planes -> [Steps -> JobRec]] /\ jobs'[p][s] = n
           /\ \A q \in Planes, t \in Steps : q # p \/ t # s => jobs'[q][t] = jobs[q][t]
BY Types DEF WorkerTypes

LEMMA OnePass ==
    ASSUME TypeOK, NEW p \in Planes, NEW n \in PassRec, pass' = [pass EXCEPT ![p] = n]
    PROVE  /\ pass' \in [Planes -> PassRec] /\ pass'[p] = n
           /\ \A q \in Planes : q # p => pass'[q] = pass[q]
BY Types DEF WorkerTypes

LEMMA OneSweep ==
    ASSUME TypeOK, NEW p \in Planes, NEW n \in SweepRec, sweep' = [sweep EXCEPT ![p] = n]
    PROVE  /\ sweep' \in [Planes -> SweepRec] /\ sweep'[p] = n
           /\ \A q \in Planes : q # p => sweep'[q] = sweep[q]
BY Types DEF WorkerTypes

LEMMA OneAnswer ==
    ASSUME TypeOK, NEW h \in People, NEW n \in PersonRec, person' = [person EXCEPT ![h] = n]
    PROVE  /\ person' \in [People -> PersonRec] /\ person'[h] = n
           /\ \A i \in People : i # h => person'[i] = person[i]
BY Types DEF WorkerTypes

(* A job that goes on to another place keeps its attempt and its fence.     *)
LEMMA Going ==
    ASSUME TypeOK, NEW p \in Planes, NEW s \in Steps, NEW place \in JobPlaces, Goto(p, s, place)
    PROVE  \E n \in JobRec :
              /\ n.pc = place /\ n.attempt = jobs[p][s].attempt /\ n.fence = jobs[p][s].fence
              /\ jobs' = [jobs EXCEPT ![p][s] = n]
<1>1. jobs[p][s] \in JobRec /\ jobs \in [Planes -> [Steps -> JobRec]]
  BY Types DEF WorkerTypes
<1>2. PICK n : n = [jobs[p][s] EXCEPT !.pc = place]
  OBVIOUS
<1>3. n \in JobRec /\ n.pc = place /\ n.attempt = jobs[p][s].attempt /\ n.fence = jobs[p][s].fence
  BY <1>1, <1>2 DEF JobRec
<1>4. jobs' = [jobs EXCEPT ![p][s] = n]
  BY <1>1, <1>2 DEF Goto
<1> QED BY <1>3, <1>4

(* The first of what a pass has to do, and what is left after it.           *)
LEMMA LeastOf ==
    ASSUME NEW T, T \subseteq Nat, T # {}
    PROVE  \E x \in T : \A y \in T : x <= y
<1> DEFINE R == {ss \in Nat \X Nat : ss[1] < ss[2]}
<1>1. IsWellFoundedOn(R, Nat)
  BY NatLessThanWellFounded DEF OpToRel
<1>2. \A m, n \in Nat : m < n => <<m, n>> \in R
  OBVIOUS
<1> HIDE DEF R
<1>3. PICK x \in T : \A y \in T : ~(<<y, x>> \in R)
  BY <1>1, WFMin
<1>4. ASSUME NEW y \in T PROVE x <= y
  <2>1. x \in Nat /\ y \in Nat /\ ~(y < x)
    BY <1>2, <1>3
  <2> QED BY <2>1
<1> QED BY <1>4

LEMMA FirstTodo ==
    ASSUME TypeOK, NEW p \in Planes, pass[p].todo # {}
    PROVE  Next1(p) \in pass[p].todo /\ Next1(p)[1] \in Steps /\ Next1(p)[2] \in Nat
<1>1. pass[p].todo \subseteq Steps \X Nat
  BY Types DEF WorkerTypes, PassRec
<1> DEFINE T == {t[1] : t \in pass[p].todo}
<1>2. T \subseteq Nat /\ T # {}
  BY <1>1, RunStateAssumption
<1>3. \E x \in T : \A y \in T : x <= y
  <2> HIDE DEF T
  <2> QED BY <1>2, LeastOf
<1>4. \E t \in pass[p].todo : \A u \in pass[p].todo : t[1] <= u[1]
  BY <1>3
<1>5. Next1(p) \in pass[p].todo
  BY <1>4 DEF Next1
<1> QED BY <1>1, <1>5

LEMMA PassingOn ==
    ASSUME TypeOK, NEW p \in Planes, pass[p].pc = "act", PassOn(p)
    PROVE  \E n \in PassRec :
              /\ pass' = [pass EXCEPT ![p] = n] /\ n.todo \subseteq pass[p].todo
              /\ n.pc = "act" => n.todo # {}
<1>1. pass[p] \in PassRec /\ pass \in [Planes -> PassRec]
  BY Types DEF WorkerTypes
<1>2. PICK rest : rest = pass[p].todo \ {Next1(p)}
  OBVIOUS
<1>3. pass' = [pass EXCEPT ![p] = IF rest = {} THEN NoPass ELSE [@ EXCEPT !.todo = rest]]
  BY <1>2 DEF PassOn
<1>4. PICK n : n = IF rest = {} THEN NoPass ELSE [pass[p] EXCEPT !.todo = rest]
  OBVIOUS
<1>5. n \in PassRec /\ n.todo = rest /\ (n.pc = "act" => rest # {})
  <2>1. CASE rest = {}
    BY <1>4, <2>1, Idle
  <2>2. CASE rest # {}
    BY <1>1, <1>2, <1>4, <2>2 DEF PassRec
  <2> QED BY <2>1, <2>2
<1>6. pass' = [pass EXCEPT ![p] = n]
  BY <1>1, <1>3, <1>4
<1> QED BY <1>2, <1>5, <1>6

------------------------------------------------------------------------------
(* What every step has in common.                                           *)

\* The log only grows, a decision stays, and a fence that is gone does not return.
Forward ==
    /\ \A s \in Steps :
          /\ run'.attempts[s] >= run.attempts[s]
          /\ gates.asked[s] # "none" => gates'.asked[s] # "none"
          /\ gates.decided[s] # "none" => gates'.decided[s] # "none"
          /\ gates.parked[s] # "none" => gates'.parked[s] # "none"
          /\ OnePerson /\ gates.decided[s] = "approved" => gates'.decided[s] = "approved"
          /\ fired[s] = 1 => fired'[s] = 1
          /\ Kind[s] = "engine" /\ run.terminal[s] = "succeeded" => run'.terminal[s] = "succeeded"
          /\ lease'[s].fence \in {0, lease[s].fence} \/ lease'[s].fence > lastFence
    /\ bodies \subseteq bodies' /\ verdicts \subseteq verdicts' /\ lastFence' >= lastFence

LEMMA SixKinds ==
    ASSUME NEW q \in Steps
    PROVE  Kind[q] \in Kinds
BY BuiltinsAssumption

LEMMA OpenStays ==
    ASSUME OnePerson, Forward, NEW q \in Steps, Opened(q)
    PROVE  Opened(q)'
<1>1. CASE Kind[q] = "timer"
  BY <1>1 DEF Opened, Forward
<1>2. CASE Kind[q] = "approval"
  BY <1>2 DEF Opened, Forward
<1>3. CASE q \in Hosted
  BY <1>3 DEF Opened, Forward, Hosted
<1>4. CASE Kind[q] = "engine"
  BY <1>4 DEF Opened, Forward, Hosted
<1> QED BY <1>1, <1>2, <1>3, <1>4, SixKinds DEF Kinds, Hosted

LEMMA FedStays ==
    ASSUME OnePerson, Forward, NEW s \in Steps, Fed(s)
    PROVE  Fed(s)'
<1>1. Preds[s] \subseteq Steps
  BY RunStateAssumption
<1> QED BY <1>1, OpenStays DEF Fed

LEMMA AttemptStays ==
    ASSUME Forward, NEW s \in Steps, NEW a \in Nat, AttemptOK(s, a)
    PROVE  AttemptOK(s, a)'
<1>1. OnePerson => Fed(s)'
  BY FedStays DEF AttemptOK
<1>2. OnePerson /\ OneShot(s) => a <= 2 /\ (a = 2 => gates'.decided[s] # "none")
  BY DEF AttemptOK, Forward
<1>3. a > 0
  BY DEF AttemptOK
<1> QED BY <1>1, <1>2, <1>3 DEF AttemptOK, OnePerson, OneShot

\* What somebody starts to decide nobody has in hand.
GatesLeft == SlowPeople => \A s \in Steps : Shut(s)' => Shut(s) \/ ~Pending(s)

LEMMA PassStays ==
    ASSUME TypeOK, Forward, GatesLeft, NEW p \in Planes, PassOK(pass[p]),
           NEW r \in PassRec, r.todo \subseteq pass[p].todo, r.pc = "act" => r.todo # {}
    PROVE  PassOK(r)'
<1>1. ASSUME NEW t \in r.todo PROVE TodoOK(t)'
  <2>1. t \in Steps \X Nat /\ t \in pass[p].todo /\ TodoOK(t)
    BY <1>1, Types DEF WorkerTypes, PassRec, PassOK
  <2>2. PICK s \in Steps, a \in Nat : t[1] = s /\ t[2] = a
    BY <2>1
  <2>3. AttemptOK(s, a)
    BY <2>1, <2>2 DEF TodoOK
  <2>4. AttemptOK(s, a)'
    BY <2>3, AttemptStays
  <2>5. Pending(s)
    BY <2>1, <2>2 DEF Pending
  <2>6. OnePerson /\ SlowPeople /\ Kind[s] = "approval" => ~Shut(s)
    BY <2>1, <2>2 DEF TodoOK
  <2>7. OnePerson /\ SlowPeople /\ Kind[s] = "approval" => ~Shut(s)'
    BY <2>5, <2>6 DEF GatesLeft
  <2> QED BY <2>2, <2>4, <2>7 DEF TodoOK, OnePerson
<1> QED BY <1>1 DEF PassOK

\* Nobody else adds to the attempts of a step whose job holds it, and a one-shot
\* agent that has not begun finds its gate and its calls as they were.
Undisturbed(s, j) ==
    /\ j.fence # 0 /\ lease'[s].fence = j.fence => run'.attempts[s] = run.attempts[s]
    /\ j.pc = "running" /\ OneShot(s) /\ OnePerson =>
          /\ j.attempt = 1 /\ gates.parked[s] = "none" => gates'.parked[s] = "none"
          /\ j.attempt = 2 /\ acted[s] = 0 => acted'[s] = 0

LEMMA JobStays ==
    ASSUME TypeOK, TypeOK', Forward, GatesLeft, NEW s \in Steps, NEW j \in JobRec,
           JobOK(s, j), j.pc = "queued" => Pending(s), Undisturbed(s, j)
    PROVE  JobOK(s, j)'
<1>1. j \in JobRec /\ JobOK(s, j)
  OBVIOUS
<1>2. PlaceOK(s, j)'
  <2>1. j.pc # "idle" => AttemptOK(s, j.attempt)'
    <3>1. PICK a \in Nat : a = j.attempt
      BY <1>1 DEF JobRec
    <3>2. j.pc # "idle" => AttemptOK(s, a)
      BY <1>1, <3>1 DEF JobOK, PlaceOK
    <3>3. j.pc # "idle" => AttemptOK(s, a)'
      BY <3>2, AttemptStays
    <3> QED BY <3>1, <3>3
  <2>2. /\ gates.decided[s] # "none" => gates'.decided[s] # "none"
        /\ gates.parked[s] # "none" => gates'.parked[s] # "none"
    BY DEF Forward
  <2>3. /\ j.pc = "queued" => Kind[s] \in {"approval", "model", "agent", "loop"}
        /\ j.pc \in {"acting", "asking"} => Kind[s] = "agent"
        /\ j.pc = "asking" => gates'.parked[s] # "none"
        /\ j.pc \in {"idle", "queued"} => j.fence = 0
        /\ j.pc \in Holding =>
              \/ s \in Hosted /\ j.fence > 0
              \/ Kind[s] = "approval" /\ j.fence = 0 /\ j.pc = "fail" /\ gates'.decided[s] # "none"
    BY <1>1, <2>2 DEF JobOK, PlaceOK
  <2> QED BY <2>1, <2>3 DEF PlaceOK, Holding, Hosted
<1>3. FenceOK(s, j)'
  <2>1. /\ j.fence \in Nat /\ lease[s].fence \in Nat /\ lease'[s].fence \in Nat
        /\ lastFence \in Nat /\ lastFence' \in Nat
    BY <1>1 DEF JobRec, TypeOK
  <2>2. j.fence <= lastFence /\ j.fence <= lastFence'
    BY <1>1, <2>1 DEF JobOK, FenceOK, Forward
  <2>3. j.fence # 0 /\ lease'[s].fence = j.fence =>
            lease[s].fence = j.fence /\ run'.attempts[s] = run.attempts[s]
    BY <2>1, <2>2 DEF Forward, Undisturbed
  <2>4. j.pc = "fresh" => j.fence # 0
    BY <1>1 DEF JobOK, PlaceOK, Holding
  <2>5. bodies \subseteq bodies'
    BY DEF Forward
  <2>6. j.pc = "fresh" /\ lease'[s].fence = j.fence => run'.attempts[s] < j.attempt
    BY <1>1, <2>3, <2>4 DEF JobOK, FenceOK
  <2>7. j.pc \in Dispatched /\ j.fence # 0 =>
            /\ [step |-> s, attempt |-> j.attempt, fence |-> j.fence] \in bodies'
            /\ lease'[s].fence = j.fence => run'.attempts[s] = j.attempt
    BY <1>1, <2>3, <2>5 DEF JobOK, FenceOK
  <2> QED BY <2>2, <2>6, <2>7 DEF FenceOK, Dispatched, BodyPlaces
<1>4. ResumeOK(s, j)'
  BY <1>1 DEF JobOK, ResumeOK, Undisturbed, OnePerson, OneShot
<1>5. GateOK(s, j)'
  <2>1. GateOK(s, j)
    BY <1>1 DEF JobOK
  <2> QED BY <2>1 DEF GateOK, GatesLeft, OnePerson
<1> QED BY <1>2, <1>3, <1>4, <1>5 DEF JobOK

(* The workers are as they should be after a step that leaves the others    *)
(* alone and its own as they should be.                                     *)
LEMMA WorkersStep ==
    ASSUME IInv, TypeOK', Forward, GatesLeft,
           \A p \in Planes : pass'[p] = pass[p] \/ PassOK(pass[p])',
           \A p \in Planes : sweep'[p] = sweep[p] \/ SweepOK(sweep[p])',
           \A p \in Planes, s \in Steps :
               (jobs'[p][s] = jobs[p][s] /\ Undisturbed(s, jobs[p][s])) \/ JobOK(s, jobs[p][s])',
           \A s \in Steps : lease'[s] = lease[s] \/ LeaseOK(s)',
           \A h \in People :
               \/ person'[h] = person[h] /\ gates'.decided = gates.decided
               \/ person'[h] = person[h] /\ ~OnePerson
               \/ person'[h] = NoDecision
               \/ PersonOK(person[h])'
    PROVE  WorkersInv'
<1>0. TypeOK /\ WorkersInv
  BY DEF IInv
<1>1. ASSUME NEW p \in Planes PROVE PassOK(pass[p])'
  <2>1. CASE pass'[p] = pass[p]
    <3>1. PICK r \in PassRec : r = pass[p]
      BY <1>0, Types DEF WorkerTypes
    <3>2. PassOK(pass[p])
      BY <1>0 DEF WorkersInv
    <3>3. r.todo \subseteq pass[p].todo /\ (r.pc = "act" => r.todo # {})
      BY <3>1, <3>2 DEF PassOK
    <3>4. PassOK(r)'
      BY <1>0, <3>2, <3>3, PassStays
    <3> QED BY <2>1, <3>1, <3>4 DEF PassOK
  <2> QED BY <2>1
<1>2. ASSUME NEW p \in Planes PROVE SweepOK(sweep[p])'
  <2>1. CASE sweep'[p] = sweep[p]
    <3>1. SweepOK(sweep[p]) /\ sweep[p] \in SweepRec
      BY <1>0, Types DEF WorkersInv, WorkerTypes
    <3>2. sweep[p].step \in Steps => run'.attempts[sweep[p].step] >= run.attempts[sweep[p].step]
             /\ run'.attempts[sweep[p].step] \in Nat /\ run.attempts[sweep[p].step] \in Nat
      BY <1>0, Types DEF Forward, TypeOK, LogTypes, RunRec
    <3>3. sweep[p].step \in Hosted => sweep[p].step \in Steps
      BY DEF Hosted
    <3> QED BY <2>1, <3>1, <3>2, <3>3 DEF SweepOK, Hosted
  <2> QED BY <2>1
<1>3. ASSUME NEW p \in Planes, NEW s \in Steps PROVE JobOK(s, jobs[p][s])'
  <2>1. CASE jobs'[p][s] = jobs[p][s] /\ Undisturbed(s, jobs[p][s])
    <3>1. PICK j : j = jobs[p][s]
      OBVIOUS
    <3>2. Undisturbed(s, j) /\ JobOK(s, j) /\ j \in JobRec /\ (j.pc = "queued" => Pending(s))
      BY <1>0, <2>1, <3>1, Types DEF WorkersInv, WorkerTypes, Pending
    <3>3. JobOK(s, j)'
      BY <1>0, <3>1, <3>2, JobStays
    <3> QED BY <2>1, <3>1, <3>3 DEF JobOK, PlaceOK, FenceOK, ResumeOK, GateOK
  <2> QED BY <2>1
<1>4. ASSUME NEW s \in Steps PROVE LeaseOK(s)'
  <2>1. CASE lease'[s] = lease[s]
    <3>1. lease[s].fence \in Nat /\ lastFence \in Nat /\ lastFence' \in Nat /\ lastFence' >= lastFence
      BY <1>0 DEF TypeOK, Forward
    <3>2. LeaseOK(s)
      BY <1>0 DEF WorkersInv
    <3> QED BY <2>1, <3>1, <3>2 DEF LeaseOK, Hosted
  <2> QED BY <2>1
<1>5. ASSUME NEW h \in People PROVE PersonOK(person[h])'
  <2>1. PersonOK(person[h])
    BY <1>0 DEF WorkersInv
  <2>2. CASE person'[h] = person[h] /\ gates'.decided = gates.decided
    BY <2>1, <2>2 DEF PersonOK, Forward, OnePerson, NoDecision
  <2>3. CASE person'[h] = person[h] /\ ~OnePerson
    BY <2>1, <2>3 DEF PersonOK, Forward, OnePerson, NoDecision
  <2>4. CASE person'[h] = NoDecision
    BY <2>4 DEF PersonOK, NoDecision
  <2> QED BY <2>2, <2>3, <2>4
<1> QED BY <1>1, <1>2, <1>3, <1>4, <1>5 DEF WorkersInv

------------------------------------------------------------------------------
(* Steps that leave the log and the leases alone.                           *)

LEMMA GatesAsTheyWere ==
    ASSUME gates'.decided = gates.decided, UNCHANGED person
    PROVE  GatesLeft
BY DEF GatesLeft, Shut

\* The log says what it said, but that the run may have been closed.
SameRun ==
    /\ run' \in RunRec /\ run'.pinned = run.pinned
    /\ run'.attempts = run.attempts /\ run'.terminal = run.terminal
    /\ run'.closed = run.closed \/ run'.closed # "open"

LEMMA LogAsItWas ==
    ASSUME IInv, SameRun, UNCHANGED <<gates, timers, history>>
    PROVE  /\ GateInv' /\ BodiesInv'
           /\ OnePerson => DecidedInv' /\ OpenedInv'
           /\ OnePerson /\ SlowPeople => SaidInv'
<1>1. gates' = gates /\ timers' = timers /\ bodies' = bodies /\ verdicts' = verdicts
      /\ fired' = fired /\ decisions' = decisions /\ acted' = acted
      /\ run'.attempts = run.attempts /\ run'.terminal = run.terminal
      /\ (run'.closed = run.closed \/ run'.closed # "open")
  BY DEF history, SameRun
<1>2. GateInv' /\ BodiesInv'
  BY <1>1 DEF IInv, GateInv, BodiesInv, OneBodyPerAttempt, VerdictOfItsAttempt
<1>3. OnePerson => DecidedInv'
  BY <1>1 DEF IInv, DecidedInv, OneShot
<1>4. \A q : Opened(q)' <=> Opened(q)
  BY <1>1 DEF Opened, Hosted
<1>5. OnePerson => OpenedInv'
  BY <1>1, <1>4 DEF IInv, OpenedInv, WaitsHonoured
<1>6. OnePerson /\ SlowPeople => SaidInv'
  BY <1>1 DEF IInv, SaidInv
<1> QED BY <1>2, <1>3, <1>5, <1>6

LEMMA RunUnchanged ==
    ASSUME IInv, UNCHANGED run
    PROVE  SameRun
BY Types DEF IInv, LogTypes, SameRun

LEMMA QuietStep ==
    ASSUME IInv, SameRun, UNCHANGED <<gates, timers, leases, history>>,
           WorkerTypes', realised' \in [Steps -> Nat], faults' \in Nat, GatesLeft,
           \A p \in Planes : pass'[p] = pass[p] \/ PassOK(pass[p])',
           \A p \in Planes : sweep'[p] = sweep[p] \/ SweepOK(sweep[p])',
           \A p \in Planes, s \in Steps : jobs'[p][s] = jobs[p][s] \/ JobOK(s, jobs[p][s])',
           \A p \in Planes, s \in Steps : jobs'[p][s].fence \in {0, jobs[p][s].fence},
           \A h \in People : person'[h] = person[h] \/ PersonOK(person[h])'
    PROVE  IInv'
<1>1. gates' = gates /\ lease' = lease /\ lastFence' = lastFence /\ bodies' = bodies
      /\ verdicts' = verdicts /\ fired' = fired /\ acted' = acted
      /\ run'.attempts = run.attempts /\ run'.terminal = run.terminal
  BY DEF history, leases, SameRun
<1>2. TypeOK'
  <2>1. LogTypes /\ LogTypes'
    BY <1>1, Types DEF IInv, LogTypes, SameRun
  <2> QED BY <2>1, TypesKept DEF IInv
<1>3. Forward
  <2>1. lastFence \in Nat /\ \A s \in Steps : run.attempts[s] \in Nat
    BY Types DEF IInv, TypeOK, LogTypes, RunRec
  <2> QED BY <1>1, <2>1 DEF Forward
<1>4. ASSUME NEW s \in Steps, NEW j PROVE Undisturbed(s, j)
  BY <1>1 DEF Undisturbed
<1>5. WorkersInv'
  BY <1>1, <1>2, <1>3, <1>4, WorkersStep
<1>6. OwnFences'
  <2>1. \A p \in Planes, s \in Steps : jobs'[p][s].fence # 0 => jobs'[p][s].fence = jobs[p][s].fence
    OBVIOUS
  <2> QED BY <2>1 DEF IInv, OwnFences
<1> QED BY <1>2, <1>5, <1>6, LogAsItWas DEF IInv, OnePerson

(* A job may be dropped, and a body may go on to any of its later places.   *)
LEMMA DropOK ==
    ASSUME TypeOK, NEW s \in Steps
    PROVE  JobOK(s, NoJob)
BY DEF TypeOK, JobOK, PlaceOK, FenceOK, ResumeOK, GateOK, NoJob, Holding, Dispatched, BodyPlaces

LEMMA GoesOn ==
    ASSUME NEW s \in Steps, NEW j, JobOK(s, j), j.pc \in BodyPlaces,
           NEW n, n.attempt = j.attempt, n.fence = j.fence,
           n.pc \in Dispatched \ {"running", "asking"}, n.pc = "acting" => Kind[s] = "agent"
    PROVE  JobOK(s, n)
<1>1. s \in Hosted /\ j.fence > 0 /\ AttemptOK(s, j.attempt)
  BY DEF JobOK, PlaceOK, Holding, Dispatched, BodyPlaces
<1>2. n.pc # "idle" /\ n.pc # "queued" /\ n.pc # "fresh" /\ n.pc # "running" /\ n.pc # "asking"
      /\ j.pc \in Dispatched
  BY DEF Dispatched, BodyPlaces
<1>3. PlaceOK(s, n)
  BY <1>1, <1>2 DEF PlaceOK
<1>4. FenceOK(s, n)
  BY <1>2 DEF JobOK, FenceOK
<1>5. GateOK(s, n)
  BY <1>1 DEF GateOK, Hosted
<1> QED BY <1>2, <1>3, <1>4, <1>5 DEF JobOK, ResumeOK

LEMMA SameJob ==
    ASSUME UNCHANGED <<run, gates, leases, person, history>>, NEW s, NEW j, JobOK(s, j)
    PROVE  JobOK(s, j)'
<1>1. run' = run /\ gates' = gates /\ lease' = lease /\ lastFence' = lastFence /\ person' = person
      /\ bodies' = bodies /\ verdicts' = verdicts /\ fired' = fired /\ acted' = acted
  BY DEF history, leases
<1>2. \A q : Opened(q)' <=> Opened(q)
  BY <1>1 DEF Opened, Hosted
<1>3. PlaceOK(s, j)'
  BY <1>1, <1>2 DEF JobOK, PlaceOK, AttemptOK, OnePerson, OneShot, Fed, Holding, Hosted
<1>4. FenceOK(s, j)' /\ ResumeOK(s, j)'
  BY <1>1 DEF JobOK, FenceOK, ResumeOK, OnePerson, OneShot
<1>5. GateOK(s, j)'
  BY <1>1 DEF JobOK, GateOK, Shut, OnePerson
<1> QED BY <1>3, <1>4, <1>5 DEF JobOK

LEMMA JobOnly ==
    ASSUME IInv, NEW p \in Planes, NEW s \in Steps, NEW n \in JobRec, JobOK(s, n),
           jobs' = [jobs EXCEPT ![p][s] = n], n.fence \in {0, jobs[p][s].fence},
           UNCHANGED <<run, gates, timers, leases, pass, sweep, person, history>>,
           realised' \in [Steps -> Nat], faults' \in Nat
    PROVE  IInv'
<1>1. /\ jobs' \in [Planes -> [Steps -> JobRec]] /\ jobs'[p][s] = n
      /\ \A q \in Planes, t \in Steps : q # p \/ t # s => jobs'[q][t] = jobs[q][t]
  BY OneJob DEF IInv
<1>2. WorkerTypes'
  BY <1>1, Types DEF IInv, WorkerTypes
<1>3. JobOK(s, n)'
  BY SameJob
<1>4. JobOK(s, jobs[p][s])'
  BY <1>1, <1>3 DEF JobOK, PlaceOK, FenceOK, ResumeOK, GateOK
<1>5. \A q \in Planes, t \in Steps : jobs'[q][t] = jobs[q][t] \/ JobOK(t, jobs[q][t])'
  BY <1>1, <1>4
<1>6. \A q \in Planes, t \in Steps : jobs'[q][t].fence \in {0, jobs[q][t].fence}
  BY <1>1
<1>7. GatesLeft
  BY GatesAsTheyWere
<1> QED BY <1>2, <1>5, <1>6, <1>7, RunUnchanged, QuietStep

\* The job is over, or its body goes on.
BodyMoves(p, s) ==
    \/ Drop(p, s)
    \/ /\ jobs[p][s].pc \in BodyPlaces
       /\ \E n \in JobRec :
             /\ n.attempt = jobs[p][s].attempt /\ n.fence = jobs[p][s].fence
             /\ n.pc \in Dispatched \ {"running", "asking"} /\ (n.pc = "acting" => Kind[s] = "agent")
             /\ jobs' = [jobs EXCEPT ![p][s] = n]

LEMMA BodyStep ==
    ASSUME IInv, NEW p \in Planes, NEW s \in Steps, BodyMoves(p, s),
           UNCHANGED <<run, gates, timers, leases, pass, sweep, person, history>>,
           realised' \in [Steps -> Nat], faults' \in Nat
    PROVE  IInv'
<1>1. CASE Drop(p, s)
  <2>1. JobOK(s, NoJob) /\ NoJob \in JobRec /\ NoJob.fence = 0
    BY DropOK, Idle DEF IInv
  <2> QED BY <1>1, <2>1, JobOnly DEF Drop
<1>2. CASE ~Drop(p, s)
  <2>1. jobs[p][s].pc \in BodyPlaces
    BY <1>2 DEF BodyMoves
  <2>2. PICK n \in JobRec :
             /\ n.attempt = jobs[p][s].attempt /\ n.fence = jobs[p][s].fence
             /\ n.pc \in Dispatched \ {"running", "asking"} /\ (n.pc = "acting" => Kind[s] = "agent")
             /\ jobs' = [jobs EXCEPT ![p][s] = n]
    BY <1>2 DEF BodyMoves
  <2>3. PICK j : j = jobs[p][s]
    OBVIOUS
  <2>4. JobOK(s, j)
    BY <2>3 DEF IInv, WorkersInv
  <2>5. JobOK(s, n)
    BY <2>1, <2>2, <2>3, <2>4, GoesOn
  <2> QED BY <2>2, <2>5, JobOnly
<1> QED BY <1>1, <1>2

LEMMA GoingOn ==
    ASSUME TypeOK, NEW p \in Planes, NEW s \in Steps, jobs[p][s].pc \in BodyPlaces,
           NEW place \in Dispatched \ {"running", "asking"}, Goto(p, s, place),
           place = "acting" => Kind[s] = "agent"
    PROVE  BodyMoves(p, s)
<1>1. place \in JobPlaces
  BY DEF Dispatched, BodyPlaces, JobPlaces
<1>2. PICK n \in JobRec :
          /\ n.pc = place /\ n.attempt = jobs[p][s].attempt /\ n.fence = jobs[p][s].fence
          /\ jobs' = [jobs EXCEPT ![p][s] = n]
  BY <1>1, Going
<1> QED BY <1>2 DEF BodyMoves

(* The steps of a body that only move it.                                   *)
LEMMA BodySteps ==
    ASSUME IInv, NEW p \in Planes, NEW s \in Steps,
           \/ LoseLease(p, s) \/ CallModel(p, s) \/ RunAgent(p, s) \/ AgentEnds(p, s)
           \/ Realise(p, s) \/ RecordFragment(p, s)
    PROVE  IInv'
<1>1. TypeOK /\ faults \in Nat /\ realised \in [Steps -> Nat]
  BY DEF IInv, TypeOK
<1> USE DEF log, At
<1>2. CASE LoseLease(p, s)
  <2>1. faults' \in Nat
    BY <1>1, <1>2 DEF LoseLease, Fault
  <2>2. BodyMoves(p, s) /\ UNCHANGED <<run, gates, timers, realised, leases, pass, sweep, person, history>>
    BY <1>2 DEF LoseLease, BodyMoves
  <2> QED BY <1>1, <2>1, <2>2, BodyStep
<1>3. CASE CallModel(p, s)
  <2>1. jobs[p][s].pc \in BodyPlaces
    BY <1>3 DEF CallModel, BodyPlaces
  <2>2. \E place \in {"succeed", "fail", "givingUp"} : Goto(p, s, place)
    BY <1>3 DEF CallModel
  <2>3. BodyMoves(p, s)
    BY <1>1, <2>1, <2>2, GoingOn DEF Dispatched, BodyPlaces
  <2>4. UNCHANGED <<run, gates, timers, realised, leases, pass, sweep, person, faults, history>>
    BY <1>3 DEF CallModel
  <2> QED BY <1>1, <2>3, <2>4, BodyStep
<1>4. CASE RunAgent(p, s)
  <2>1. jobs[p][s].pc \in BodyPlaces /\ Kind[s] = "agent"
    BY <1>4 DEF RunAgent, BodyPlaces
  <2>2. \E place \in {"acting", "fail"} : Goto(p, s, place)
    BY <1>4 DEF RunAgent
  <2>3. BodyMoves(p, s)
    BY <1>1, <2>1, <2>2, GoingOn DEF Dispatched, BodyPlaces
  <2>4. UNCHANGED <<run, gates, timers, realised, leases, pass, sweep, person, faults, history>>
    BY <1>4 DEF RunAgent
  <2> QED BY <1>1, <2>3, <2>4, BodyStep
<1>5. CASE AgentEnds(p, s)
  <2>1. jobs[p][s].pc \in BodyPlaces
    BY <1>5 DEF AgentEnds, BodyPlaces
  <2>2. \E place \in {"succeed", "fail"} : Goto(p, s, place)
    BY <1>5 DEF AgentEnds
  <2>3. BodyMoves(p, s)
    BY <1>1, <2>1, <2>2, GoingOn DEF Dispatched, BodyPlaces
  <2>4. UNCHANGED <<run, gates, timers, realised, leases, pass, sweep, person, faults, history>>
    BY <1>5 DEF AgentEnds
  <2> QED BY <1>1, <2>3, <2>4, BodyStep
<1>6. CASE Realise(p, s)
  <2>1. jobs[p][s].pc \in BodyPlaces
    BY <1>6 DEF Realise, BodyPlaces
  <2>2. \E place \in {"succeed", "fail", "splice"} : Goto(p, s, place)
    BY <1>6 DEF Realise
  <2>3. BodyMoves(p, s)
    BY <1>1, <2>1, <2>2, GoingOn DEF Dispatched, BodyPlaces
  <2>4. UNCHANGED <<run, gates, timers, realised, leases, pass, sweep, person, faults, history>>
    BY <1>6 DEF Realise
  <2> QED BY <1>1, <2>3, <2>4, BodyStep
<1>7. CASE RecordFragment(p, s)
  <2>1. jobs[p][s].pc \in BodyPlaces
    BY <1>7 DEF RecordFragment, BodyPlaces
  <2>2. Goto(p, s, "succeed")
    BY <1>7 DEF RecordFragment
  <2>3. BodyMoves(p, s)
    BY <1>1, <2>1, <2>2, GoingOn DEF Dispatched, BodyPlaces
  <2>4. UNCHANGED <<run, gates, timers, leases, pass, sweep, person, faults, history>>
    BY <1>7 DEF RecordFragment
  <2>5. realised' \in [Steps -> Nat]
    BY <1>1, <1>7 DEF RecordFragment
  <2> QED BY <1>1, <2>3, <2>4, <2>5, BodyStep
<1> QED BY <1>2, <1>3, <1>4, <1>5, <1>6, <1>7

(* The loop's iterate, which also notes whether the graph has the fragment. *)
LEMMA IterateStep ==
    ASSUME IInv, NEW p \in Planes, NEW s \in Steps, Iterate(p, s)
    PROVE  IInv'
<1>1. TypeOK /\ faults \in Nat /\ realised \in [Steps -> Nat]
  BY DEF IInv, TypeOK
<1>2. jobs[p][s].pc \in BodyPlaces
  BY DEF Iterate, At, BodyPlaces
<1>3. UNCHANGED <<run, gates, timers, realised, leases, pass, sweep, person, faults, history>>
  BY DEF Iterate, log
<1>4. \/ \E place \in {"succeed", "fail"} : Goto(p, s, place)
      \/ jobs' = [jobs EXCEPT ![p][s] = [@ EXCEPT !.pc = "graphed", !.had = realised[s] > 0]]
  BY DEF Iterate
<1>5. CASE \E place \in {"succeed", "fail"} : Goto(p, s, place)
  BY <1>1, <1>2, <1>3, <1>5, GoingOn, BodyStep DEF Dispatched, BodyPlaces
<1>6. CASE jobs' = [jobs EXCEPT ![p][s] = [@ EXCEPT !.pc = "graphed", !.had = realised[s] > 0]]
  <2>1. jobs[p][s] \in JobRec /\ jobs \in [Planes -> [Steps -> JobRec]]
    BY <1>1, Types DEF WorkerTypes
  <2>2. (realised[s] > 0) \in BOOLEAN
    OBVIOUS
  <2>3. PICK n : n = [jobs[p][s] EXCEPT !.pc = "graphed", !.had = realised[s] > 0]
    OBVIOUS
  <2>4. n \in JobRec /\ n.pc = "graphed" /\ n.attempt = jobs[p][s].attempt /\ n.fence = jobs[p][s].fence
    BY <2>1, <2>2, <2>3 DEF JobRec, JobPlaces
  <2>5. jobs' = [jobs EXCEPT ![p][s] = n]
    BY <1>6, <2>1, <2>2, <2>3
  <2>6. BodyMoves(p, s)
    BY <1>2, <2>4, <2>5 DEF BodyMoves, Dispatched, BodyPlaces
  <2> QED BY <1>1, <1>3, <2>6, BodyStep
<1> QED BY <1>4, <1>5, <1>6

(* A pass and a sweep that are as they should be stay so.                   *)
LEMMA SamePass ==
    ASSUME UNCHANGED <<run, gates, person, history>>, NEW r, PassOK(r)
    PROVE  PassOK(r)'
<1>1. run' = run /\ gates' = gates /\ person' = person /\ verdicts' = verdicts /\ fired' = fired
  BY DEF history
<1>2. \A q : Opened(q)' <=> Opened(q)
  BY <1>1 DEF Opened, Hosted
<1>3. ASSUME NEW t, TodoOK(t) PROVE TodoOK(t)'
  <2>1. AttemptOK(t[1], t[2])'
    BY <1>1, <1>2, <1>3 DEF TodoOK, AttemptOK, OnePerson, OneShot, Fed
  <2>2. Shut(t[1])' <=> Shut(t[1])
    BY <1>1 DEF Shut
  <2> QED BY <1>3, <2>1, <2>2 DEF TodoOK, OnePerson
<1> QED BY <1>3 DEF PassOK

(* A pass goes on.                                                          *)
LEMMA PassOnly ==
    ASSUME IInv, NEW p \in Planes, NEW r \in PassRec, PassOK(r), pass' = [pass EXCEPT ![p] = r],
           UNCHANGED <<log, leases, jobs, sweep, person, faults, history>>
    PROVE  IInv'
<1>1. UNCHANGED <<run, gates, timers, realised>> /\ faults \in Nat /\ realised \in [Steps -> Nat]
  BY DEF log, IInv, TypeOK
<1>2. /\ pass' \in [Planes -> PassRec] /\ pass'[p] = r
      /\ \A q \in Planes : q # p => pass'[q] = pass[q]
  BY OnePass DEF IInv
<1>3. PassOK(r)'
  BY <1>1, SamePass
<1>4. PassOK(pass[p])'
  BY <1>2, <1>3 DEF PassOK
<1>5. WorkerTypes'
  BY <1>2, Types DEF IInv, WorkerTypes
<1>6. \A q \in Planes : pass'[q] = pass[q] \/ PassOK(pass[q])'
  BY <1>2, <1>4
<1>7. GatesLeft
  BY <1>1, GatesAsTheyWere
<1> QED BY <1>1, <1>5, <1>6, <1>7, RunUnchanged, QuietStep

(* What the plan finds ready may be run.                                    *)
LEMMA ReadyOK ==
    ASSUME IInv, run.closed = "open", NEW s \in ReadyNow
    PROVE  s \in Steps /\ TodoOK(<<s, run.attempts[s] + 1>>)
<1>0. TypeOK /\ GateInv /\ WorkersInv /\ (OnePerson => DecidedInv /\ OpenedInv)
      /\ (OnePerson /\ SlowPeople => SaidInv)
  BY DEF IInv
<1>1. run \in RunRec /\ run.pinned \in SUBSET Steps
  BY <1>0, Types DEF LogTypes, RunRec
<1>2. s \in Steps
  BY <1>1 DEF ReadyNow, Known
<1>3. run.attempts[s] \in Nat
  BY <1>1, <1>2 DEF RunRec
<1>4. \/ run.terminal[s] = "failed" /\ s \in Repeatable
      \/ run.terminal[s] = "none" /\ s \notin gates.gated /\ s \in gates.resumed
      \/ run.terminal[s] = "none" /\ s \notin gates.gated /\ run.attempts[s] = 0 /\ Satisfied(run, s)
  <2>1. CASE s \in Retrying(Grown)
    <3>1. Grown.terminal = run.terminal
      BY <1>1 DEF Grown, RunRec
    <3>2. Grown.terminal[s] = "failed" /\ MaxAttempts(s) > 1
      BY <2>1 DEF Retrying, Failed, AllowsRetry
    <3> QED BY <3>1, <3>2 DEF MaxAttempts
  <2>2. CASE s \notin Retrying(Grown)
    BY <2>2 DEF ReadyNow
  <2> QED BY <2>1, <2>2
<1>5. ASSUME OnePerson PROVE Fed(s)
  <2>1. run.terminal[s] = "failed" \/ s \in gates.resumed => Fed(s)
    <3>1. s \in gates.resumed => run.attempts[s] > 0
      BY <1>0, <1>2 DEF GateInv
    <3>2. run.terminal[s] = "failed" => run.attempts[s] > 0 \/ s \in gates.gated
      BY <1>0, <1>2, <1>5 DEF OpenedInv
    <3> QED BY <1>0, <1>2, <1>5, <3>1, <3>2 DEF OpenedInv, WaitsHonoured, Fed
  <2>2. Preds[s] \subseteq Steps
    BY <1>2, RunStateAssumption
  <2>3. Satisfied(run, s) => Fed(s)
    BY <1>0, <1>5, <2>2 DEF Satisfied, Fed, OpenedInv
  <2> QED BY <1>4, <2>1, <2>3
<1>6. ASSUME OnePerson, OneShot(s)
      PROVE  run.attempts[s] + 1 <= 2 /\ (run.attempts[s] + 1 = 2 => gates.decided[s] # "none")
  <2>1. run.attempts[s] <= 2 /\ (run.attempts[s] = 2 => s \notin gates.resumed)
    BY <1>0, <1>2, <1>6 DEF DecidedInv
  <2>2. s \in gates.resumed \/ run.attempts[s] = 0
    BY <1>4, <1>6 DEF OneShot
  <2>3. s \in gates.resumed => gates.decided[s] # "none"
    BY <1>0, <1>2 DEF GateInv
  <2> QED BY <1>3, <2>1, <2>2, <2>3
<1>7. ASSUME OnePerson, SlowPeople, Kind[s] = "approval" PROVE ~Shut(s)
  <2>1. gates.decided[s] \in {"none", "approved", "denied"} /\ gates.asked[s] \in {"none", "step", "parks"}
    BY <1>0, <1>2, Types DEF LogTypes, GatesRec
  <2>2. s \notin gates.gated
    BY <1>0, <1>2, <1>4, <1>7, <2>1 DEF SaidInv
  <2>3. gates.asked[s] = "none" /\ gates.decided[s] = "none"
    BY <1>0, <1>2, <1>7, <2>1, <2>2 DEF GateInv
  <2>4. ASSUME NEW h \in People, person[h] # NoDecision PROVE person[h].step # s
    <3>1. PersonOK(person[h])
      BY <1>0 DEF WorkersInv
    <3> QED BY <2>3, <2>4, <3>1 DEF PersonOK
  <2> QED BY <2>3, <2>4 DEF Shut
<1>8. PICK a \in Nat : a = run.attempts[s] + 1
  BY <1>3
<1>9. AttemptOK(s, a)
  BY <1>3, <1>5, <1>6, <1>8 DEF AttemptOK
<1> QED BY <1>2, <1>7, <1>8, <1>9 DEF TodoOK

LEMMA AdvanceLoadStep ==
    ASSUME IInv, NEW p \in Planes, AdvanceLoad(p)
    PROVE  IInv'
<1>1. PICK todo : todo = {<<s, run.attempts[s] + 1>> : s \in ReadyNow}
  OBVIOUS
<1>2. PICK pc : pc = CASE ~Finished -> IF ReadyNow = {} THEN "idle" ELSE "act"
                      [] Finished /\ Exhausted(Grown) # {} -> "fail"
                      [] Finished /\ Exhausted(Grown) = {} /\ Blocked(Grown) # {} -> "idle"
                      [] OTHER -> "complete"
  OBVIOUS
<1>3. PICK r : r = [pc |-> pc, todo |-> todo]
  OBVIOUS
<1>4. pass' = [pass EXCEPT ![p] = r]
  BY <1>1, <1>2, <1>3 DEF AdvanceLoad
<1>5. pc \in {"idle", "act", "fail", "complete"} /\ (pc = "act" => ReadyNow # {})
  BY <1>2
<1>6. \A t \in todo : t \in Steps \X Nat /\ TodoOK(t)
  <2>1. \A s \in ReadyNow : s \in Steps /\ TodoOK(<<s, run.attempts[s] + 1>>)
    BY ReadyOK DEF AdvanceLoad
  <2>2. \A s \in Steps : run.attempts[s] \in Nat
    BY Types DEF IInv, LogTypes, RunRec
  <2> QED BY <1>1, <2>1, <2>2
<1>7. r \in PassRec /\ PassOK(r)
  BY <1>1, <1>3, <1>5, <1>6 DEF PassRec, PassOK
<1> QED BY <1>4, <1>7, PassOnly DEF AdvanceLoad

LEMMA RereadStep ==
    ASSUME IInv, NEW p \in Planes, NEW s \in Steps, Reread(p, s)
    PROVE  IInv'
<1>1. UNCHANGED <<run, gates, timers, realised, leases, pass, sweep, person, faults, history>>
  BY DEF Reread, log
<1>2. TypeOK /\ faults \in Nat /\ realised \in [Steps -> Nat]
  BY DEF IInv, TypeOK
<1>3. CASE Drop(p, s)
  BY <1>1, <1>2, <1>3, BodyStep DEF BodyMoves
<1>4. CASE Goto(p, s, "fresh") /\ ~(run.attempts[s] >= jobs[p][s].attempt)
  <2>1. PICK n \in JobRec :
          /\ n.pc = "fresh" /\ n.attempt = jobs[p][s].attempt /\ n.fence = jobs[p][s].fence
          /\ jobs' = [jobs EXCEPT ![p][s] = n]
    BY <1>2, <1>4, Going DEF JobPlaces
  <2>2. PICK j : j = jobs[p][s]
    OBVIOUS
  <2>3. JobOK(s, j) /\ j.pc = "claimed" /\ j \in JobRec /\ run.attempts[s] \in Nat
    BY <1>2, <2>2, Types DEF IInv, WorkersInv, Reread, At, WorkerTypes, LogTypes, RunRec
  <2>4. s \in Hosted /\ j.fence > 0 /\ AttemptOK(s, j.attempt) /\ j.fence <= lastFence
    BY <2>3 DEF JobOK, PlaceOK, FenceOK, Holding
  <2>5. PlaceOK(s, n)
    BY <2>1, <2>2, <2>4 DEF PlaceOK
  <2>6. FenceOK(s, n)
    BY <1>4, <2>1, <2>2, <2>3, <2>4 DEF FenceOK, Dispatched, BodyPlaces, JobRec
  <2>7. ResumeOK(s, n) /\ GateOK(s, n)
    BY <2>1, <2>4 DEF ResumeOK, GateOK, Hosted
  <2>8. JobOK(s, n)
    BY <2>5, <2>6, <2>7 DEF JobOK
  <2> QED BY <1>1, <1>2, <2>1, <2>8, JobOnly
<1> QED BY <1>3, <1>4 DEF Reread

LEMMA TakeStep ==
    ASSUME IInv, NEW p \in Planes, Take(p)
    PROVE  IInv'
<1>1. UNCHANGED <<run, gates, timers, realised, leases, sweep, person, faults, history>>
  BY DEF Take, log
<1>2. TypeOK /\ faults \in Nat /\ realised \in [Steps -> Nat]
  BY DEF IInv, TypeOK
<1>3. pass[p].pc = "act" /\ PassOK(pass[p])
  BY DEF Take, IInv, WorkersInv
<1>4. pass[p].todo # {} /\ \A t \in pass[p].todo : TodoOK(t)
  BY <1>3 DEF PassOK
<1>5. PICK r \in PassRec : /\ pass' = [pass EXCEPT ![p] = r] /\ r.todo \subseteq pass[p].todo
                           /\ r.pc = "act" => r.todo # {}
  BY <1>2, <1>3, PassingOn DEF Take
<1>6. PassOK(r)
  BY <1>4, <1>5 DEF PassOK
<1>7. CASE UNCHANGED jobs
  BY <1>1, <1>5, <1>6, <1>7, PassOnly DEF log
<1>8. CASE ~UNCHANGED jobs
  <2>1. PICK s \in Steps, a \in Nat : Next1(p) \in pass[p].todo /\ Next1(p)[1] = s /\ Next1(p)[2] = a
    BY <1>2, <1>4, FirstTodo
  <2>2. /\ Kind[s] \in {"approval", "model", "agent", "loop"}
        /\ jobs[p][s].pc = "idle"
        /\ jobs' = [jobs EXCEPT ![p][s] = [NoJob EXCEPT !.pc = "queued", !.attempt = a]]
    BY <1>8, <2>1 DEF Take
  <2>3. PICK n : n = [NoJob EXCEPT !.pc = "queued", !.attempt = a]
    OBVIOUS
  <2>4. n \in JobRec /\ n.pc = "queued" /\ n.attempt = a /\ n.fence = 0
    BY <2>3 DEF NoJob, JobRec, JobPlaces
  <2>5. TodoOK(Next1(p))
    BY <1>4, <2>1
  <2>6. AttemptOK(s, a) /\ (OnePerson /\ SlowPeople /\ Kind[s] = "approval" => ~Shut(s))
    BY <2>1, <2>5 DEF TodoOK
  <2>7. PlaceOK(s, n)
    BY <2>2, <2>4, <2>6 DEF PlaceOK, Holding, Dispatched, BodyPlaces
  <2>8. JobOK(s, n)
    <3>1. n.pc # "fresh" /\ n.pc # "running" /\ n.pc \notin Dispatched
      BY <2>4 DEF Dispatched, BodyPlaces
    <3>2. FenceOK(s, n)
      BY <1>2, <2>4, <3>1 DEF FenceOK, TypeOK
    <3>3. ResumeOK(s, n) /\ GateOK(s, n)
      BY <2>4, <2>6, <3>1 DEF ResumeOK, GateOK
    <3> QED BY <2>7, <3>2, <3>3 DEF JobOK
  <2>9. JobOK(s, n)' /\ PassOK(r)'
    BY <1>1, <1>6, <2>8, SameJob, SamePass
  <2>10. /\ jobs' \in [Planes -> [Steps -> JobRec]] /\ jobs'[p][s] = n
         /\ \A q \in Planes, t \in Steps : q # p \/ t # s => jobs'[q][t] = jobs[q][t]
    <3>1. jobs' = [jobs EXCEPT ![p][s] = n]
      BY <2>2, <2>3
    <3> QED BY <1>2, <2>4, <3>1, OneJob
  <2>11. /\ pass' \in [Planes -> PassRec] /\ pass'[p] = r
         /\ \A q \in Planes : q # p => pass'[q] = pass[q]
    BY <1>2, <1>5, OnePass
  <2>12. JobOK(s, jobs[p][s])' /\ PassOK(pass[p])'
    BY <2>9, <2>10, <2>11 DEF JobOK, PlaceOK, FenceOK, ResumeOK, GateOK, PassOK
  <2>13. WorkerTypes' /\ GatesLeft
    BY <1>1, <1>2, <2>10, <2>11, Types, GatesAsTheyWere DEF WorkerTypes
  <2>14. /\ \A q \in Planes : pass'[q] = pass[q] \/ PassOK(pass[q])'
         /\ \A q \in Planes, t \in Steps : jobs'[q][t] = jobs[q][t] \/ JobOK(t, jobs[q][t])'
    BY <2>10, <2>11, <2>12
  <2>15. \A q \in Planes, t \in Steps : jobs'[q][t].fence \in {0, jobs[q][t].fence}
    BY <2>4, <2>10
  <2> QED BY <1>1, <1>2, <2>13, <2>14, <2>15, RunUnchanged, QuietStep
<1> QED BY <1>7, <1>8

LEMMA OrphanLoadStep ==
    ASSUME IInv, NEW p \in Planes, OrphanLoad(p)
    PROVE  IInv'
<1>1. UNCHANGED <<run, gates, timers, realised, leases, pass, jobs, person, faults, history>>
  BY DEF OrphanLoad, log
<1>2. TypeOK /\ faults \in Nat /\ realised \in [Steps -> Nat]
  BY DEF IInv, TypeOK
<1>3. PICK r : r = sweep[p]
  OBVIOUS
<1>4. r \in SweepRec /\ r.pc = "load" /\ r.step \in Hosted /\ r.attempt > 0
  BY <1>2, <1>3, Types DEF OrphanLoad, WorkerTypes, IInv, WorkersInv, SweepOK
<1>5. \E n \in SweepRec :
          /\ sweep' = [sweep EXCEPT ![p] = n]
          /\ n.pc # "idle" => n.step \in Hosted /\ n.attempt > 0 /\ run.attempts[n.step] > 0
  <2>1. CASE sweep' = [sweep EXCEPT ![p] = NoOrphan]
    BY <2>1, Idle
  <2>2. CASE sweep' # [sweep EXCEPT ![p] = NoOrphan]
    <3>1. sweep' = [sweep EXCEPT ![p] = [r EXCEPT !.pc = "append"]] /\ run.attempts[r.step] = r.attempt
      BY <1>2, <1>3, <2>2, Types DEF OrphanLoad, WorkerTypes
    <3>2. PICK n : n = [r EXCEPT !.pc = "append"]
      OBVIOUS
    <3>3. n \in SweepRec /\ n.step = r.step /\ n.attempt = r.attempt
      BY <1>4, <3>2 DEF SweepRec
    <3> QED BY <1>4, <3>1, <3>2, <3>3
  <2> QED BY <2>1, <2>2
<1>6. PICK n \in SweepRec :
          /\ sweep' = [sweep EXCEPT ![p] = n]
          /\ n.pc # "idle" => n.step \in Hosted /\ n.attempt > 0 /\ run.attempts[n.step] > 0
  BY <1>5
<1>7. /\ sweep' \in [Planes -> SweepRec] /\ sweep'[p] = n
      /\ \A q \in Planes : q # p => sweep'[q] = sweep[q]
  BY <1>2, <1>6, OneSweep
<1>8. SweepOK(sweep[p])'
  BY <1>1, <1>6, <1>7 DEF SweepOK, Hosted
<1>9. WorkerTypes' /\ GatesLeft
  BY <1>1, <1>2, <1>7, Types, GatesAsTheyWere DEF WorkerTypes
<1>10. \A q \in Planes : sweep'[q] = sweep[q] \/ SweepOK(sweep[q])'
  BY <1>7, <1>8
<1> QED BY <1>1, <1>2, <1>9, <1>10, RunUnchanged, QuietStep

LEMMA CrashStep ==
    ASSUME IInv, NEW p \in Planes, Crash(p)
    PROVE  IInv'
<1>1. UNCHANGED <<run, gates, timers, realised, leases, person, history>>
  BY DEF Crash, log
<1>2. TypeOK /\ faults' \in Nat /\ realised \in [Steps -> Nat]
  <2>1. TypeOK /\ faults \in Nat /\ realised \in [Steps -> Nat]
    BY DEF IInv, TypeOK
  <2> QED BY <2>1 DEF Crash, Fault
<1>3. /\ pass' = [pass EXCEPT ![p] = NoPass] /\ sweep' = [sweep EXCEPT ![p] = NoOrphan]
      /\ jobs' = [jobs EXCEPT ![p] = [s \in Steps |-> NoJob]]
  BY DEF Crash
<1>4. WorkerTypes /\ NoPass \in PassRec /\ NoJob \in JobRec /\ NoOrphan \in SweepRec
  BY <1>2, Types, Idle
<1>5. /\ pass' \in [Planes -> PassRec] /\ pass'[p] = NoPass
      /\ \A q \in Planes : q # p => pass'[q] = pass[q]
  BY <1>2, <1>3, <1>4, OnePass
<1>6. /\ sweep' \in [Planes -> SweepRec] /\ sweep'[p] = NoOrphan
      /\ \A q \in Planes : q # p => sweep'[q] = sweep[q]
  BY <1>2, <1>3, <1>4, OneSweep
<1>7. /\ jobs' \in [Planes -> [Steps -> JobRec]] /\ \A s \in Steps : jobs'[p][s] = NoJob
      /\ \A q \in Planes, s \in Steps : q # p => jobs'[q][s] = jobs[q][s]
  BY <1>3, <1>4 DEF WorkerTypes
<1>8. PassOK(pass[p])'
  BY <1>5, Idle DEF PassOK
<1>9. SweepOK(sweep[p])'
  BY <1>6, Idle DEF SweepOK
<1>10. ASSUME NEW s \in Steps PROVE JobOK(s, jobs[p][s])'
  <2>1. PICK n : n = NoJob
    OBVIOUS
  <2>2. JobOK(s, n)
    BY <1>2, <2>1, DropOK
  <2>3. JobOK(s, n)'
    BY <1>1, <2>2, SameJob
  <2> QED BY <1>7, <2>1, <2>3 DEF JobOK, PlaceOK, FenceOK, ResumeOK, GateOK
<1>11. WorkerTypes' /\ GatesLeft
  BY <1>1, <1>4, <1>5, <1>6, <1>7, GatesAsTheyWere DEF WorkerTypes
<1>12. /\ \A q \in Planes : pass'[q] = pass[q] \/ PassOK(pass[q])'
       /\ \A q \in Planes : sweep'[q] = sweep[q] \/ SweepOK(sweep[q])'
       /\ \A q \in Planes, s \in Steps : jobs'[q][s] = jobs[q][s] \/ JobOK(s, jobs[q][s])'
  BY <1>5, <1>6, <1>7, <1>8, <1>9, <1>10
<1>13. \A q \in Planes, s \in Steps : jobs'[q][s].fence \in {0, jobs[q][s].fence}
  BY <1>7, Idle
<1> QED BY <1>1, <1>2, <1>11, <1>12, <1>13, RunUnchanged, QuietStep

LEMMA DecideReadStep ==
    ASSUME IInv, NEW h \in People, NEW s \in Steps, NEW approved \in BOOLEAN, DecideRead(h, s, approved)
    PROVE  IInv'
<1>1. UNCHANGED <<run, gates, timers, realised, leases, pass, jobs, sweep, faults, history>>
  BY DEF DecideRead, log
<1>2. TypeOK /\ faults \in Nat /\ realised \in [Steps -> Nat]
  BY DEF IInv, TypeOK
<1>3. PICK n : n = [step |-> s, approved |-> approved]
  OBVIOUS
<1>4. n \in PersonRec /\ n.step = s /\ person' = [person EXCEPT ![h] = n]
  BY <1>3 DEF PersonRec, DecideRead
<1>5. /\ person' \in [People -> PersonRec] /\ person'[h] = n
      /\ \A i \in People : i # h => person'[i] = person[i]
  BY <1>2, <1>4, OneAnswer
<1>6. PersonOK(person[h])'
  BY <1>1, <1>4, <1>5 DEF PersonOK, DecideRead
<1>7. GatesLeft
  <2>1. SlowPeople => ~Pending(s)
    BY DEF DecideRead
  <2>2. ASSUME NEW t \in Steps, t # s, Shut(t)' PROVE Shut(t)
    BY <1>1, <1>4, <1>5, <2>2 DEF Shut
  <2> QED BY <2>1, <2>2 DEF GatesLeft
<1>8. WorkerTypes'
  BY <1>1, <1>2, <1>5, Types DEF WorkerTypes
<1>9. \A i \in People : person'[i] = person[i] \/ PersonOK(person[i])'
  BY <1>5, <1>6
<1> QED BY <1>1, <1>2, <1>7, <1>8, <1>9, RunUnchanged, QuietStep

(* A run is closed.                                                         *)
LEMMA CloseRunStep ==
    ASSUME IInv, NEW p \in Planes, CloseRun(p)
    PROVE  IInv'
<1>1. UNCHANGED <<gates, timers, realised, leases, jobs, sweep, person, faults, history>>
  BY DEF CloseRun
<1>2. TypeOK /\ run \in RunRec /\ faults \in Nat /\ realised \in [Steps -> Nat]
  BY Types DEF IInv, TypeOK, LogTypes
<1>3. PICK how \in {"completed", "failed"} : run' = FoldClosed(run, how)
  BY DEF CloseRun
<1>4. SameRun
  BY <1>2, <1>3, ClosedFold DEF SameRun, Appended
<1>5. /\ pass' \in [Planes -> PassRec] /\ pass'[p] = NoPass
      /\ \A q \in Planes : q # p => pass'[q] = pass[q]
  BY <1>2, Idle, OnePass DEF CloseRun
<1>6. PassOK(pass[p])'
  BY <1>5, Idle DEF PassOK
<1>7. WorkerTypes' /\ GatesLeft
  BY <1>1, <1>2, <1>5, Types, GatesAsTheyWere DEF WorkerTypes
<1>8. \A q \in Planes : pass'[q] = pass[q] \/ PassOK(pass[q])'
  BY <1>5, <1>6
<1> QED BY <1>1, <1>2, <1>4, <1>7, <1>8, QuietStep

LEMMA CancelStep ==
    ASSUME IInv, Cancel
    PROVE  IInv'
<1>1. UNCHANGED <<gates, timers, realised, leases, pass, jobs, sweep, person, faults, history>>
  BY DEF Cancel, workers
<1>2. TypeOK /\ run \in RunRec /\ faults \in Nat /\ realised \in [Steps -> Nat]
  BY Types DEF IInv, TypeOK, LogTypes
<1>3. SameRun
  BY <1>2, ClosedFold DEF SameRun, Appended, Cancel
<1>4. WorkerTypes' /\ GatesLeft
  BY <1>1, <1>2, Types, GatesAsTheyWere DEF WorkerTypes
<1> QED BY <1>1, <1>2, <1>3, <1>4, QuietStep

------------------------------------------------------------------------------
(* Leases are claimed and expire.                                           *)

LEMMA LeaseStep ==
    ASSUME IInv, UNCHANGED <<run, gates, timers, realised, pass, person, history>>,
           WorkerTypes', faults' \in Nat,
           lease' \in [Steps -> [fence : Nat, attempt : Nat]], lastFence' \in Nat, lastFence' >= lastFence,
           \A s \in Steps : lease'[s] = lease[s] \/ LeaseOK(s)',
           \A s \in Steps : lease'[s].fence \in {0, lease[s].fence} \/ lease'[s].fence > lastFence,
           \A p \in Planes : sweep'[p] = sweep[p] \/ SweepOK(sweep[p])',
           \A p \in Planes, s \in Steps : jobs'[p][s] = jobs[p][s] \/ JobOK(s, jobs[p][s])',
           OwnFences'
    PROVE  IInv'
<1>1. bodies' = bodies /\ verdicts' = verdicts /\ fired' = fired /\ acted' = acted /\ decisions' = decisions
  BY DEF history
<1>2. TypeOK'
  <2>1. LogTypes'
    BY Types DEF IInv, LogTypes
  <2> QED BY <1>1, <2>1 DEF IInv, TypeOK, LogTypes, WorkerTypes, RunRec, GatesRec, PassRec, JobRec,
               SweepRec, PersonRec
<1>3. Forward
  <2>1. \A s \in Steps : run.attempts[s] \in Nat
    BY Types DEF IInv, LogTypes, RunRec
  <2> QED BY <1>1, <2>1 DEF Forward
<1>4. GatesLeft
  BY GatesAsTheyWere
<1>5. ASSUME NEW s \in Steps, NEW j PROVE Undisturbed(s, j)
  BY <1>1 DEF Undisturbed
<1>6. WorkersInv'
  BY <1>2, <1>3, <1>4, <1>5, WorkersStep
<1> QED BY <1>2, <1>6, RunUnchanged, LogAsItWas DEF IInv, OnePerson

LEMMA ClaimStep ==
    ASSUME IInv, NEW p \in Planes, NEW s \in Steps, Claim(p, s)
    PROVE  IInv'
<1>1. UNCHANGED <<run, gates, timers, realised, pass, sweep, person, faults, history>>
  BY DEF Claim, log
<1>2. TypeOK /\ faults \in Nat /\ realised \in [Steps -> Nat] /\ lastFence \in Nat
      /\ lease \in [Steps -> [fence : Nat, attempt : Nat]]
  BY DEF IInv, TypeOK
<1>3. CASE Drop(p, s) /\ UNCHANGED leases
  BY <1>1, <1>2, <1>3, BodyStep DEF BodyMoves
<1>4. CASE ~(Drop(p, s) /\ UNCHANGED leases)
  <2>1. /\ s \in Hosted /\ jobs[p][s].pc = "queued" /\ lastFence' = lastFence + 1
        /\ lease' = [lease EXCEPT ![s] = [fence |-> lastFence + 1, attempt |-> jobs[p][s].attempt]]
        /\ jobs' = [jobs EXCEPT ![p][s] = [@ EXCEPT !.pc = "claimed", !.fence = lastFence + 1]]
    BY <1>4 DEF Claim, At
  <2>2. PICK j : j = jobs[p][s]
    OBVIOUS
  <2>3. j \in JobRec /\ JobOK(s, j) /\ jobs \in [Planes -> [Steps -> JobRec]]
    BY <1>2, <2>2, Types DEF IInv, WorkersInv, WorkerTypes
  <2>4. PICK a \in Nat : a = j.attempt
    BY <2>3 DEF JobRec
  <2>5. AttemptOK(s, a) /\ a > 0
    BY <2>1, <2>2, <2>3, <2>4 DEF JobOK, PlaceOK, AttemptOK
  <2>6. PICK n : n = [j EXCEPT !.pc = "claimed", !.fence = lastFence + 1]
    OBVIOUS
  <2>7. n \in JobRec /\ n.pc = "claimed" /\ n.fence = lastFence + 1 /\ n.attempt = a
    <3>1. lastFence + 1 \in Nat
      BY <1>2
    <3> QED BY <2>3, <2>4, <2>6, <3>1 DEF JobRec, JobPlaces
  <2>8. jobs' = [jobs EXCEPT ![p][s] = n]
    BY <2>1, <2>2, <2>3, <2>6
  <2>9. /\ jobs' \in [Planes -> [Steps -> JobRec]] /\ jobs'[p][s] = n
        /\ \A q \in Planes, t \in Steps : q # p \/ t # s => jobs'[q][t] = jobs[q][t]
    BY <1>2, <2>7, <2>8, OneJob
  <2>10. lease' = [lease EXCEPT ![s] = [fence |-> lastFence + 1, attempt |-> a]]
    BY <2>1, <2>2, <2>4
  <2>11. /\ lease' \in [Steps -> [fence : Nat, attempt : Nat]]
         /\ lease'[s].fence = lastFence + 1 /\ lease'[s].attempt = a
         /\ \A t \in Steps : t # s => lease'[t] = lease[t]
    BY <1>2, <2>10
  <2>12. LeaseOK(s)'
    BY <1>2, <2>1, <2>5, <2>11 DEF LeaseOK, Hosted
  <2>13. ASSUME NEW q \in Planes, NEW t \in Steps PROVE jobs[q][t].fence <= lastFence
    BY DEF IInv, WorkersInv, JobOK, FenceOK
  <2>14. OwnFences'
    <3>1. ASSUME NEW q \in Planes, NEW o \in Planes, NEW t \in Steps,
                 jobs'[q][t].fence # 0, jobs'[o][t].fence = jobs'[q][t].fence
          PROVE  q = o
      <4>1. jobs[q][t].fence \in Nat /\ jobs[o][t].fence \in Nat
        BY <2>3 DEF JobRec
      <4>2. jobs[q][t].fence <= lastFence /\ jobs[o][t].fence <= lastFence
        BY <2>13
      <4>3. jobs[q][t].fence # 0 /\ jobs[o][t].fence = jobs[q][t].fence => q = o
        BY DEF IInv, OwnFences
      <4> QED BY <1>2, <2>7, <2>9, <3>1, <4>1, <4>2, <4>3
    <3> QED BY <3>1 DEF OwnFences
  <2>15. JobOK(s, jobs[p][s])'
    <3>1. AttemptOK(s, a)'
      <4>1. \A q : Opened(q)' <=> Opened(q)
        BY <1>1 DEF Opened, Hosted, history
      <4> QED BY <1>1, <2>5, <4>1 DEF AttemptOK, OnePerson, OneShot, Fed
    <3>2. PICK m : m = n
      OBVIOUS
    <3>3. PlaceOK(s, m)'
      BY <1>2, <2>1, <2>4, <2>7, <3>1, <3>2 DEF PlaceOK, Hosted
    <3>4. FenceOK(s, m)'
      BY <1>2, <2>1, <2>7, <3>2 DEF FenceOK, Dispatched, BodyPlaces
    <3>5. ResumeOK(s, m)' /\ GateOK(s, m)'
      BY <2>1, <2>7, <3>2 DEF ResumeOK, GateOK, Hosted
    <3> QED BY <2>9, <3>2, <3>3, <3>4, <3>5 DEF JobOK, PlaceOK, FenceOK, ResumeOK, GateOK
  <2>16. WorkerTypes'
    BY <1>1, <1>2, <2>9, Types DEF WorkerTypes
  <2>17. lastFence' \in Nat /\ lastFence' >= lastFence
    BY <1>2, <2>1
  <2>18. /\ \A t \in Steps : lease'[t] = lease[t] \/ LeaseOK(t)'
         /\ \A t \in Steps : lease'[t].fence \in {0, lease[t].fence} \/ lease'[t].fence > lastFence
    BY <1>2, <2>11, <2>12
  <2>19. \A q \in Planes, t \in Steps : jobs'[q][t] = jobs[q][t] \/ JobOK(t, jobs[q][t])'
    BY <2>9, <2>15
  <2> QED BY <1>1, <1>2, <2>11, <2>14, <2>16, <2>17, <2>18, <2>19, LeaseStep
<1> QED BY <1>3, <1>4

LEMMA ExpireStep ==
    ASSUME IInv, NEW p \in Planes, NEW s \in Steps, Expire(p, s)
    PROVE  IInv'
<1>1. UNCHANGED <<run, gates, timers, realised, pass, jobs, person, history>> /\ lastFence' = lastFence
  BY DEF Expire, log
<1>2. TypeOK /\ faults \in Nat /\ lastFence \in Nat /\ lease \in [Steps -> [fence : Nat, attempt : Nat]]
  BY DEF IInv, TypeOK
<1>3. faults' \in Nat
  BY <1>2 DEF Expire, Fault
<1>4. /\ lease[s].fence # 0 /\ lease' = [lease EXCEPT ![s] = [fence |-> 0, attempt |-> 0]]
      /\ sweep' = [sweep EXCEPT ![p] = [pc |-> "load", step |-> s, attempt |-> lease[s].attempt]]
  BY DEF Expire
<1>5. s \in Hosted /\ lease[s].attempt > 0 /\ lease[s].attempt \in Nat
  BY <1>2, <1>4 DEF IInv, WorkersInv, LeaseOK
<1>6. PICK n : n = [pc |-> "load", step |-> s, attempt |-> lease[s].attempt]
  OBVIOUS
<1>7. n \in SweepRec /\ n.pc = "load" /\ n.step = s /\ n.attempt = lease[s].attempt
  BY <1>5, <1>6 DEF SweepRec
<1>8. /\ sweep' \in [Planes -> SweepRec] /\ sweep'[p] = n
      /\ \A q \in Planes : q # p => sweep'[q] = sweep[q]
  <2>1. sweep' = [sweep EXCEPT ![p] = n]
    BY <1>4, <1>6
  <2> QED BY <1>2, <1>7, <2>1, OneSweep
<1>9. SweepOK(sweep[p])'
  BY <1>5, <1>7, <1>8 DEF SweepOK, Hosted
<1>10. /\ lease' \in [Steps -> [fence : Nat, attempt : Nat]] /\ lease'[s].fence = 0
       /\ \A t \in Steps : t # s => lease'[t] = lease[t]
  BY <1>2, <1>4
<1>11. LeaseOK(s)'
  BY <1>1, <1>2, <1>10 DEF LeaseOK
<1>12. WorkerTypes' /\ OwnFences'
  BY <1>1, <1>2, <1>8, Types DEF WorkerTypes, IInv, OwnFences
<1>13. /\ \A t \in Steps : lease'[t] = lease[t] \/ LeaseOK(t)'
       /\ \A t \in Steps : lease'[t].fence \in {0, lease[t].fence} \/ lease'[t].fence > lastFence
       /\ \A q \in Planes : sweep'[q] = sweep[q] \/ SweepOK(sweep[q])'
  BY <1>8, <1>9, <1>10, <1>11
<1>14. lastFence' >= lastFence
  BY <1>1, <1>2
<1> QED BY <1>1, <1>2, <1>3, <1>10, <1>12, <1>13, <1>14, LeaseStep

------------------------------------------------------------------------------
(* Verdicts.                                                                *)

StateTypes ==
    /\ realised \in [Steps -> Nat] /\ timers \in [Steps -> {"none", "armed", "due", "fired"}]
    /\ lease \in [Steps -> [fence : Nat, attempt : Nat]] /\ lastFence \in Nat /\ faults \in Nat
    /\ bodies \subseteq [step : Steps, attempt : Nat, fence : Nat]
    /\ verdicts \subseteq [step : Steps, attempt : Nat, standing : Nat, done : BOOLEAN, fenced : BOOLEAN]
    /\ fired \in [Steps -> Nat] /\ decisions \in [Steps -> Nat] /\ acted \in [Steps -> Nat]

LEMMA TypesThen ==
    ASSUME LogTypes', WorkerTypes', StateTypes'
    PROVE  TypeOK'
BY DEF TypeOK, LogTypes, WorkerTypes, StateTypes, RunRec, GatesRec, PassRec, JobRec, SweepRec, PersonRec

LEMMA VerdictStep ==
    ASSUME IInv, TypeOK', NEW s \in Steps, NEW v \in {"succeeded", "failed"},
           Appended(run', run), run'.closed = run.closed,
           run'.terminal = [run.terminal EXCEPT ![s] = v] \/ run'.terminal = run.terminal,
           Kind[s] # "engine", Kind[s] = "approval" => ~(OnePerson /\ SlowPeople),
           v = "succeeded" /\ OnePerson => Opened(s)',
           v = "failed" => run.attempts[s] > 0 \/ s \in gates.gated,
           UNCHANGED <<gates, leases, pass, person, bodies, decisions, acted>>,
           verdicts \subseteq verdicts', VerdictOfItsAttempt',
           \A t \in Steps : fired[t] = 1 => fired'[t] = 1,
           \A t \in Steps : timers'[t] # "fired" => fired'[t] = 0,
           \A t \in Steps : timers'[t] # "none" => timers[t] # "none",
           \A p \in Planes : sweep'[p] = sweep[p] \/ SweepOK(sweep[p])',
           \A p \in Planes, t \in Steps : jobs'[p][t] = jobs[p][t] \/ JobOK(t, jobs[p][t])',
           \A p \in Planes, t \in Steps : jobs'[p][t].fence \in {0, jobs[p][t].fence}
    PROVE  IInv'
<1>1. /\ TypeOK /\ run \in RunRec /\ run'.attempts = run.attempts
      /\ lease' = lease /\ lastFence' = lastFence
  BY Types DEF IInv, LogTypes, Appended, leases
<1>2. \A t \in Steps : run'.terminal[t] = run.terminal[t] \/ (t = s /\ run'.terminal[t] = v)
  BY <1>1 DEF RunRec
<1>3. Forward
  <2>1. lastFence \in Nat /\ \A t \in Steps : run.attempts[t] \in Nat
    BY <1>1 DEF TypeOK, RunRec
  <2> QED BY <1>1, <1>2, <2>1 DEF Forward
<1>4. GatesLeft
  BY GatesAsTheyWere
<1>5. ASSUME NEW t \in Steps, NEW j PROVE Undisturbed(t, j)
  BY <1>1 DEF Undisturbed
<1>6. WorkersInv'
  BY <1>1, <1>3, <1>4, <1>5, WorkersStep
<1>7. GateInv'
  BY <1>1 DEF IInv, GateInv
<1>8. OwnFences'
  <2>1. \A p \in Planes, t \in Steps : jobs'[p][t].fence # 0 => jobs'[p][t].fence = jobs[p][t].fence
    OBVIOUS
  <2> QED BY <2>1 DEF IInv, OwnFences
<1>9. BodiesInv'
  BY <1>1 DEF IInv, BodiesInv, OneBodyPerAttempt
<1>10. OnePerson => DecidedInv'
  BY <1>1 DEF IInv, DecidedInv, OneShot
<1>11. ASSUME OnePerson PROVE OpenedInv'
  <2>1. OpenedInv
    BY <1>11 DEF IInv
  <2>2. \A q \in Steps : Opened(q) => Opened(q)'
    BY <1>3, <1>11, OpenStays
  <2>3. \A t \in Steps : Preds[t] \subseteq Steps
    BY RunStateAssumption
  <2>4. WaitsHonoured'
    BY <1>1, <2>1, <2>2, <2>3 DEF OpenedInv, WaitsHonoured
  <2>5. ASSUME NEW t \in Steps
        PROVE  /\ run'.terminal[t] = "succeeded" => Opened(t)'
               /\ run'.terminal[t] = "failed" => run'.attempts[t] > 0 \/ t \in gates'.gated
    BY <1>1, <1>2, <1>11, <2>1, <2>2 DEF OpenedInv
  <2> QED BY <1>11, <2>4, <2>5 DEF OpenedInv
<1>12. OnePerson /\ SlowPeople => SaidInv'
  BY <1>1, <1>2 DEF IInv, SaidInv
<1> QED BY <1>6, <1>7, <1>8, <1>9, <1>10, <1>11, <1>12 DEF IInv, OnePerson

(* A job with a body has been dispatched, as an attempt in the log.         *)
LEMMA BodyFacts ==
    ASSUME IInv, NEW p \in Planes, NEW s \in Steps, jobs[p][s].pc \in Dispatched, jobs[p][s].fence # 0
    PROVE  /\ s \in Hosted /\ jobs[p][s].attempt \in Nat /\ jobs[p][s].attempt > 0
           /\ jobs[p][s].attempt <= run.attempts[s] /\ run.attempts[s] \in Nat
           /\ [step |-> s, attempt |-> jobs[p][s].attempt, fence |-> jobs[p][s].fence] \in bodies
           /\ lease[s].fence = jobs[p][s].fence => run.attempts[s] = jobs[p][s].attempt
<1>1. PICK j : j = jobs[p][s]
  OBVIOUS
<1>2. j \in JobRec /\ JobOK(s, j) /\ run.attempts[s] \in Nat
  BY <1>1, Types DEF IInv, WorkersInv, WorkerTypes, LogTypes, RunRec
<1>3. j.pc \in Holding /\ j.pc # "idle"
  BY <1>1 DEF Holding, Dispatched, BodyPlaces
<1>4. s \in Hosted /\ AttemptOK(s, j.attempt)
  BY <1>1, <1>2, <1>3 DEF JobOK, PlaceOK
<1>5. /\ [step |-> s, attempt |-> j.attempt, fence |-> j.fence] \in bodies
      /\ lease[s].fence = j.fence => run.attempts[s] = j.attempt
  BY <1>1, <1>2 DEF JobOK, FenceOK
<1>6. PICK b \in bodies : b = [step |-> s, attempt |-> j.attempt, fence |-> j.fence]
  BY <1>5
<1>7. b.attempt <= run.attempts[b.step] /\ b.attempt = j.attempt /\ b.step = s
  BY <1>6 DEF IInv, BodiesInv
<1> QED BY <1>1, <1>2, <1>4, <1>5, <1>7 DEF AttemptOK, JobRec

LEMMA EndStep ==
    ASSUME IInv, NEW p \in Planes, NEW s \in Steps, End(p, s)
    PROVE  IInv'
<1>0. TypeOK /\ LogTypes /\ WorkerTypes /\ StateTypes
  BY Types DEF IInv, TypeOK, StateTypes
<1>1. UNCHANGED <<gates, realised, timers, leases, pass, sweep, person, faults,
                  bodies, fired, decisions, acted>> /\ Drop(p, s)
  BY DEF End
<1>2. PICK j : j = jobs[p][s]
  OBVIOUS
<1>3. j \in JobRec /\ JobOK(s, j) /\ j.pc \in {"succeed", "fail"}
  BY <1>0, <1>2 DEF IInv, WorkersInv, WorkerTypes, End, At
<1>4. CASE UNCHANGED <<run, verdicts>>
  BY <1>0, <1>1, <1>4, BodyStep DEF BodyMoves, history, StateTypes
<1>5. CASE ~UNCHANGED <<run, verdicts>>
  <2>1. /\ j.fence = 0 \/ lease[s].fence = j.fence
        /\ run' = IF j.pc = "succeed" THEN FoldSucceeded(run, s) ELSE FoldFailed(run, s)
        /\ verdicts' = IF j.fence = 0 THEN verdicts
                       ELSE verdicts \cup
                            {[step |-> s, attempt |-> j.attempt, standing |-> run.attempts[s],
                              done |-> j.pc = "succeed", fenced |-> TRUE]}
    BY <1>2, <1>5 DEF End, At, Current
  <2>2. PICK v \in {"succeeded", "failed"} : v = IF j.pc = "succeed" THEN "succeeded" ELSE "failed"
    OBVIOUS
  <2>3. Appended(run', run) /\ run'.closed = run.closed /\ run'.terminal = [run.terminal EXCEPT ![s] = v]
    BY <1>0, <2>1, <2>2, VerdictFolds DEF LogTypes
  <2>4. j.fence # 0 =>
            /\ s \in Hosted /\ j.attempt \in Nat /\ run.attempts[s] = j.attempt /\ run.attempts[s] > 0
    BY <1>2, <1>3, <2>1, BodyFacts DEF Dispatched
  <2>5. j.fence = 0 => Kind[s] = "approval" /\ v = "failed" /\ s \in gates.gated /\ ~(OnePerson /\ SlowPeople)
    <3>1. SUFFICES ASSUME j.fence = 0 PROVE Kind[s] = "approval" /\ v = "failed" /\ s \in gates.gated
                                            /\ ~(OnePerson /\ SlowPeople)
      OBVIOUS
    <3>2. j.pc \in Holding
      BY <1>3 DEF Holding, Dispatched
    <3>3. Kind[s] = "approval" /\ j.pc = "fail" /\ gates.decided[s] # "none"
      BY <1>3, <3>1, <3>2 DEF JobOK, PlaceOK
    <3>4. ~(OnePerson /\ SlowPeople)
      BY <1>3, <3>3 DEF JobOK, GateOK
    <3>5. gates.asked[s] \in {"none", "step", "parks"}
      BY <1>0 DEF LogTypes, GatesRec
    <3>6. s \in gates.gated
      BY <3>3, <3>5 DEF IInv, GateInv
    <3> QED BY <2>2, <3>3, <3>4, <3>6
  <2>6. verdicts \subseteq verdicts' /\ VerdictOfItsAttempt'
        /\ verdicts' \subseteq [step : Steps, attempt : Nat, standing : Nat, done : BOOLEAN, fenced : BOOLEAN]
    <3>1. CASE j.fence = 0
      BY <1>0, <2>1, <3>1 DEF IInv, BodiesInv, VerdictOfItsAttempt, StateTypes
    <3>2. CASE j.fence # 0
      <4>1. PICK x : x = [step |-> s, attempt |-> j.attempt, standing |-> run.attempts[s],
                          done |-> j.pc = "succeed", fenced |-> TRUE]
        OBVIOUS
      <4>2. x \in [step : Steps, attempt : Nat, standing : Nat, done : BOOLEAN, fenced : BOOLEAN]
            /\ x.standing = x.attempt
        <5>1. (j.pc = "succeed") \in BOOLEAN /\ j.attempt \in Nat /\ run.attempts[s] = j.attempt
          BY <2>4, <3>2
        <5> QED BY <4>1, <5>1
      <4>3. verdicts' = verdicts \cup {x}
        BY <2>1, <3>2, <4>1
      <4> QED BY <1>0, <4>2, <4>3 DEF IInv, BodiesInv, VerdictOfItsAttempt, StateTypes
    <3> QED BY <3>1, <3>2
  <2>7. v = "succeeded" => Opened(s)'
    <3>1. SUFFICES ASSUME v = "succeeded" PROVE Opened(s)'
      OBVIOUS
    <3>2. j.pc = "succeed" /\ j.fence # 0 /\ s \in Hosted
      BY <2>2, <2>4, <2>5, <3>1
    <3>3. \E x \in verdicts' : x.step = s /\ x.done
      <4>1. PICK x : x = [step |-> s, attempt |-> j.attempt, standing |-> run.attempts[s],
                          done |-> j.pc = "succeed", fenced |-> TRUE]
        OBVIOUS
      <4>2. x \in verdicts'
        BY <2>1, <3>2, <4>1
      <4>3. x.step = s /\ x.done
        BY <3>2, <4>1
      <4> QED BY <4>2, <4>3
    <3> QED BY <3>2, <3>3 DEF Opened, Hosted
  <2>8. /\ jobs' \in [Planes -> [Steps -> JobRec]] /\ jobs'[p][s] = NoJob
        /\ \A q \in Planes, t \in Steps : q # p \/ t # s => jobs'[q][t] = jobs[q][t]
    BY <1>0, <1>1, Idle, OneJob DEF Drop
  <2>9. TypeOK'
    <3>1. LogTypes'
      BY <1>0, <1>1, <2>3 DEF LogTypes, Appended
    <3>2. WorkerTypes'
      BY <1>0, <1>1, <2>8 DEF WorkerTypes
    <3>3. StateTypes'
      BY <1>0, <1>1, <2>6 DEF StateTypes, leases
    <3> QED BY <3>1, <3>2, <3>3, TypesThen
  <2>10. JobOK(s, jobs[p][s])'
    BY <2>8, <2>9, Idle DEF TypeOK, JobOK, PlaceOK, FenceOK, ResumeOK, GateOK, Holding, Dispatched, BodyPlaces
  <2>11. /\ \A q \in Planes, t \in Steps : jobs'[q][t] = jobs[q][t] \/ JobOK(t, jobs[q][t])'
         /\ \A q \in Planes, t \in Steps : jobs'[q][t].fence \in {0, jobs[q][t].fence}
    BY <2>8, <2>10, Idle
  <2>12. /\ \A t \in Steps : fired[t] = 1 => fired'[t] = 1
         /\ \A t \in Steps : timers'[t] # "fired" => fired'[t] = 0
         /\ \A t \in Steps : timers'[t] # "none" => timers[t] # "none"
    BY <1>1 DEF IInv, GateInv
  <2>13. Kind[s] # "engine" /\ (Kind[s] = "approval" => ~(OnePerson /\ SlowPeople))
    BY <2>4, <2>5 DEF Hosted
  <2>14. run.attempts[s] > 0 \/ s \in gates.gated
    BY <2>4, <2>5
  <2> QED BY <1>1, <2>3, <2>6, <2>7, <2>9, <2>11, <2>12, <2>13, <2>14, VerdictStep
<1> QED BY <1>4, <1>5

LEMMA GiveUpStep ==
    ASSUME IInv, NEW p \in Planes, NEW s \in Steps, GiveUp(p, s)
    PROVE  IInv'
<1>0. TypeOK /\ LogTypes /\ WorkerTypes /\ StateTypes
  BY Types DEF IInv, TypeOK, StateTypes
<1>1. UNCHANGED <<gates, realised, timers, leases, pass, sweep, person, faults,
                  bodies, fired, decisions, acted>>
  BY DEF GiveUp
<1>2. PICK j : j = jobs[p][s]
  OBVIOUS
<1>3. j \in JobRec /\ JobOK(s, j) /\ j.pc = "givingUp" /\ j.pc \in BodyPlaces /\ j.pc \in Dispatched
  BY <1>0, <1>2 DEF IInv, WorkersInv, WorkerTypes, GiveUp, At, BodyPlaces, Dispatched
<1>4. j.fence # 0 /\ j.fence \in Nat /\ j.attempt \in Nat
  BY <1>3 DEF JobOK, PlaceOK, Holding, JobRec
<1>5. s \in Hosted /\ run.attempts[s] > 0 /\ run.attempts[s] \in Nat
  <2>1. jobs[p][s].pc \in Dispatched /\ jobs[p][s].fence # 0
    BY <1>2, <1>3, <1>4
  <2>2. s \in Hosted /\ jobs[p][s].attempt \in Nat /\ jobs[p][s].attempt > 0
        /\ jobs[p][s].attempt <= run.attempts[s] /\ run.attempts[s] \in Nat
    BY <2>1, BodyFacts
  <2> QED BY <2>2
<1>6. PICK n \in JobRec :
          /\ n.pc = "fail" /\ n.attempt = jobs[p][s].attempt /\ n.fence = jobs[p][s].fence
          /\ jobs' = [jobs EXCEPT ![p][s] = n]
  BY <1>0, Going DEF GiveUp, JobPlaces
<1>7. JobOK(s, n)
  BY <1>2, <1>3, <1>6, GoesOn DEF Dispatched
<1>8. Appended(run', run) /\ run'.closed = run.closed /\ run'.terminal = [run.terminal EXCEPT ![s] = "failed"]
  BY <1>0, VerdictFolds DEF LogTypes, GiveUp
<1>9. verdicts \subseteq verdicts' /\ VerdictOfItsAttempt'
      /\ verdicts' \subseteq [step : Steps, attempt : Nat, standing : Nat, done : BOOLEAN, fenced : BOOLEAN]
  <2>1. PICK x : x = [step |-> s, attempt |-> j.attempt, standing |-> run.attempts[s],
                      done |-> FALSE, fenced |-> FALSE]
    OBVIOUS
  <2>2. x \in [step : Steps, attempt : Nat, standing : Nat, done : BOOLEAN, fenced : BOOLEAN] /\ ~x.fenced
    BY <1>4, <1>5, <2>1
  <2>3. verdicts' = verdicts \cup {x}
    BY <1>2, <2>1 DEF GiveUp
  <2> QED BY <1>0, <2>2, <2>3 DEF IInv, BodiesInv, VerdictOfItsAttempt, StateTypes
<1>10. /\ jobs' \in [Planes -> [Steps -> JobRec]] /\ jobs'[p][s] = n
       /\ \A q \in Planes, t \in Steps : q # p \/ t # s => jobs'[q][t] = jobs[q][t]
  BY <1>0, <1>6, OneJob
<1>11. TypeOK'
  <2>1. LogTypes'
    BY <1>0, <1>1, <1>8 DEF LogTypes, Appended
  <2>2. WorkerTypes'
    BY <1>0, <1>1, <1>10 DEF WorkerTypes
  <2>3. StateTypes'
    BY <1>0, <1>1, <1>9 DEF StateTypes, leases
  <2> QED BY <2>1, <2>2, <2>3, TypesThen
<1>12. Kind[s] # "engine" /\ Kind[s] # "approval"
  BY <1>5 DEF Hosted
<1>13. Forward
  <2>1. /\ \A t \in Steps : run.attempts[t] \in Nat /\ (t # s => run'.terminal[t] = run.terminal[t])
        /\ run'.attempts = run.attempts /\ lease' = lease /\ lastFence' = lastFence /\ lastFence \in Nat
    BY <1>0, <1>1, <1>8 DEF LogTypes, RunRec, Appended, leases, StateTypes
  <2> QED BY <1>1, <1>9, <1>12, <2>1 DEF Forward
<1>14. JobOK(s, jobs[p][s])'
  <2>1. Undisturbed(s, n) /\ GatesLeft
    BY <1>1, <1>8, GatesAsTheyWere DEF Undisturbed, Appended
  <2>2. JobOK(s, n)'
    BY <1>0, <1>6, <1>7, <1>11, <1>13, <2>1, JobStays
  <2> QED BY <1>10, <2>2 DEF JobOK, PlaceOK, FenceOK, ResumeOK, GateOK
<1>15. /\ \A q \in Planes, t \in Steps : jobs'[q][t] = jobs[q][t] \/ JobOK(t, jobs[q][t])'
       /\ \A q \in Planes, t \in Steps : jobs'[q][t].fence \in {0, jobs[q][t].fence}
  BY <1>6, <1>10, <1>14
<1>16. /\ \A t \in Steps : fired[t] = 1 => fired'[t] = 1
       /\ \A t \in Steps : timers'[t] # "fired" => fired'[t] = 0
       /\ \A t \in Steps : timers'[t] # "none" => timers[t] # "none"
  BY <1>1 DEF IInv, GateInv
<1>17. PICK v \in {"succeeded", "failed"} : v = "failed"
  OBVIOUS
<1> QED BY <1>1, <1>5, <1>8, <1>9, <1>11, <1>12, <1>15, <1>16, <1>17, VerdictStep

LEMMA OrphanAppendStep ==
    ASSUME IInv, NEW p \in Planes, OrphanAppend(p)
    PROVE  IInv'
<1>0. TypeOK /\ LogTypes /\ WorkerTypes /\ StateTypes
  BY Types DEF IInv, TypeOK, StateTypes
<1>1. UNCHANGED <<gates, realised, timers, leases, pass, jobs, person, faults, history>>
  BY DEF OrphanAppend
<1>2. SweepOK(sweep[p]) /\ sweep[p] \in SweepRec /\ sweep[p].pc = "append"
  BY <1>0 DEF IInv, WorkersInv, WorkerTypes, OrphanAppend
<1>3. PICK s \in Steps : s = sweep[p].step
  BY <1>2 DEF SweepOK, Hosted
<1>4. s \in Hosted /\ run.attempts[s] > 0 /\ sweep[p].attempt \in Nat
  BY <1>2, <1>3 DEF SweepOK, SweepRec
<1>5. run' = FoldLost(run, s, sweep[p].attempt)
  BY <1>3 DEF OrphanAppend
<1>6. /\ Appended(run', run) /\ run'.closed = run.closed
      /\ run'.terminal = [run.terminal EXCEPT ![s] = "failed"] \/ run'.terminal = run.terminal
  BY <1>0, <1>4, <1>5, LostFold DEF LogTypes
<1>7. /\ sweep' \in [Planes -> SweepRec] /\ sweep'[p] = NoOrphan
      /\ \A q \in Planes : q # p => sweep'[q] = sweep[q]
  BY <1>0, Idle, OneSweep DEF OrphanAppend
<1>8. \A q \in Planes : sweep'[q] = sweep[q] \/ SweepOK(sweep[q])'
  BY <1>7, Idle DEF SweepOK
<1>9. UNCHANGED <<bodies, verdicts, fired, decisions, acted>>
  BY <1>1 DEF history
<1>10. TypeOK'
  <2>1. LogTypes'
    BY <1>0, <1>1, <1>6 DEF LogTypes, Appended
  <2>2. WorkerTypes'
    BY <1>0, <1>1, <1>7 DEF WorkerTypes
  <2>3. StateTypes'
    BY <1>0, <1>1, <1>9 DEF StateTypes, leases
  <2> QED BY <2>1, <2>2, <2>3, TypesThen
<1>11. Kind[s] # "engine" /\ Kind[s] # "approval"
  BY <1>4 DEF Hosted
<1>12. /\ \A t \in Steps : fired[t] = 1 => fired'[t] = 1
       /\ \A t \in Steps : timers'[t] # "fired" => fired'[t] = 0
       /\ \A t \in Steps : timers'[t] # "none" => timers[t] # "none"
       /\ VerdictOfItsAttempt' /\ verdicts \subseteq verdicts'
  BY <1>1, <1>9 DEF IInv, GateInv, BodiesInv, VerdictOfItsAttempt
<1>13. PICK v \in {"succeeded", "failed"} : v = "failed"
  OBVIOUS
<1>14. /\ \A q \in Planes, t \in Steps : jobs'[q][t] = jobs[q][t]
       /\ \A q \in Planes, t \in Steps : jobs'[q][t].fence \in {0, jobs[q][t].fence}
  BY <1>1
<1> QED BY <1>1, <1>4, <1>6, <1>8, <1>9, <1>10, <1>11, <1>12, <1>13, <1>14, VerdictStep

------------------------------------------------------------------------------
(* Timers.                                                                  *)

LEMMA TimersMove ==
    ASSUME IInv, timers' \in [Steps -> {"none", "armed", "due", "fired"}],
           \A t \in Steps : /\ timers'[t] # "none" => timers[t] # "none"
                            /\ timers'[t] # "fired" => timers[t] # "fired",
           UNCHANGED <<run, gates, realised, leases, pass, jobs, sweep, person, faults, history>>
    PROVE  IInv'
<1>0. TypeOK /\ LogTypes /\ WorkerTypes /\ StateTypes
  BY Types DEF IInv, TypeOK, StateTypes
<1>1. /\ lease' = lease /\ lastFence' = lastFence /\ bodies' = bodies /\ verdicts' = verdicts
      /\ fired' = fired /\ acted' = acted /\ decisions' = decisions
  BY DEF leases, history
<1>2. TypeOK'
  <2>1. LogTypes' /\ WorkerTypes' /\ StateTypes'
    BY <1>0, <1>1 DEF LogTypes, WorkerTypes, StateTypes
  <2> QED BY <2>1, TypesThen
<1>3. Forward
  <2>1. lastFence \in Nat /\ \A t \in Steps : run.attempts[t] \in Nat
    BY <1>0 DEF LogTypes, RunRec, StateTypes
  <2> QED BY <1>1, <2>1 DEF Forward
<1>4. ASSUME NEW t \in Steps, NEW j PROVE Undisturbed(t, j)
  BY <1>1 DEF Undisturbed
<1>5. WorkersInv'
  BY <1>1, <1>2, <1>3, <1>4, GatesAsTheyWere, WorkersStep
<1>6. GateInv' /\ OwnFences' /\ BodiesInv'
  BY <1>1 DEF IInv, GateInv, OwnFences, BodiesInv, OneBodyPerAttempt, VerdictOfItsAttempt
<1>7. OnePerson => DecidedInv'
  BY <1>1 DEF IInv, DecidedInv, OneShot
<1>8. OnePerson => OpenedInv'
  <2>1. \A q : Opened(q)' <=> Opened(q)
    BY <1>1 DEF Opened, Hosted
  <2> QED BY <2>1 DEF IInv, OpenedInv, WaitsHonoured
<1>9. OnePerson /\ SlowPeople => SaidInv'
  BY DEF IInv, SaidInv
<1> QED BY <1>2, <1>5, <1>6, <1>7, <1>8, <1>9 DEF IInv, OnePerson

LEMMA BecomeDueStep ==
    ASSUME IInv, NEW s \in Steps, BecomeDue(s)
    PROVE  IInv'
<1>1. UNCHANGED <<run, gates, realised, leases, pass, jobs, sweep, person, faults, history>>
  BY DEF BecomeDue, workers
<1>2. timers[s] = "armed" /\ timers' = [timers EXCEPT ![s] = "due"]
      /\ timers \in [Steps -> {"none", "armed", "due", "fired"}]
  BY DEF BecomeDue, IInv, TypeOK
<1>3. /\ timers' \in [Steps -> {"none", "armed", "due", "fired"}]
      /\ \A t \in Steps : /\ timers'[t] # "none" => timers[t] # "none"
                          /\ timers'[t] # "fired" => timers[t] # "fired"
  BY <1>2
<1> QED BY <1>1, <1>3, TimersMove

LEMMA DueStep ==
    ASSUME IInv, NEW s \in Steps, Due(s)
    PROVE  IInv'
<1>0. TypeOK /\ LogTypes /\ WorkerTypes /\ StateTypes
  BY Types DEF IInv, TypeOK, StateTypes
<1>1. UNCHANGED <<gates, realised, leases, pass, jobs, sweep, person, faults,
                  bodies, verdicts, decisions, acted>>
  BY DEF Due, workers
<1>2. timers[s] = "due" /\ timers' = [timers EXCEPT ![s] = "fired"]
  BY DEF Due
<1>3. Kind[s] = "timer"
  BY <1>2 DEF IInv, GateInv
<1>4. timers' \in [Steps -> {"none", "armed", "due", "fired"}]
      /\ \A t \in Steps : (timers'[t] # "none" => timers[t] # "none")
                          /\ (timers'[t] # "fired" => t # s /\ timers[t] # "fired")
  BY <1>0, <1>2 DEF StateTypes
<1>5. fired[s] = 0 /\ \A t \in Steps : timers[t] # "fired" => fired[t] = 0
  BY <1>2 DEF IInv, GateInv
<1>6. PICK v \in {"succeeded", "failed"} : v = "succeeded"
  OBVIOUS
<1>7. VerdictOfItsAttempt' /\ verdicts \subseteq verdicts'
  BY <1>1 DEF IInv, BodiesInv, VerdictOfItsAttempt
<1>8. /\ \A q \in Planes : sweep'[q] = sweep[q]
      /\ \A q \in Planes, t \in Steps : jobs'[q][t] = jobs[q][t]
      /\ \A q \in Planes, t \in Steps : jobs'[q][t].fence \in {0, jobs[q][t].fence}
  BY <1>1
<1>9. WorkerTypes'
  BY <1>0, <1>1 DEF WorkerTypes
<1>10. CASE run' = run /\ fired' = fired
  <2>1. UNCHANGED history
    BY <1>1, <1>10 DEF history
  <2> QED BY <1>1, <1>4, <1>10, <2>1, TimersMove
<1>11. CASE run' = FoldSucceeded(run, s) /\ fired' = [fired EXCEPT ![s] = @ + 1]
  <2>1. Appended(run', run) /\ run'.closed = run.closed
        /\ run'.terminal = [run.terminal EXCEPT ![s] = "succeeded"]
    BY <1>0, <1>11, VerdictFolds DEF LogTypes
  <2>2. fired' \in [Steps -> Nat] /\ fired'[s] = fired[s] + 1 /\ fired[s] \in Nat
        /\ \A t \in Steps : t # s => fired'[t] = fired[t]
    BY <1>0, <1>11 DEF StateTypes
  <2>3. TypeOK'
    <3>1. LogTypes' /\ StateTypes'
      BY <1>0, <1>1, <1>4, <2>1, <2>2 DEF LogTypes, StateTypes, leases, Appended
    <3> QED BY <1>9, <3>1, TypesThen
  <2>4. Opened(s)'
    <3>1. fired'[s] = 1
      BY <1>5, <2>2
    <3> QED BY <1>3, <3>1 DEF Opened, Hosted
  <2>5. \A t \in Steps : timers'[t] # "fired" => fired'[t] = 0
    BY <1>4, <1>5, <2>2
  <2>6. \A t \in Steps : fired[t] = 1 => fired'[t] = 1
    BY <1>5, <2>2
  <2> QED BY <1>1, <1>3, <1>4, <1>6, <1>7, <1>8, <2>1, <2>3, <2>4, <2>5, <2>6, VerdictStep
<1> QED BY <1>10, <1>11 DEF Due

------------------------------------------------------------------------------
(* A pass deals with a step.                                                *)

\* The pass of p has dealt with its first step s, planned as attempt a, and goes on as r.
DealsWith(p, s, a, r) ==
    /\ r \in PassRec /\ pass' = [pass EXCEPT ![p] = r] /\ r.todo \subseteq pass[p].todo
    /\ r.pc = "act" => r.todo # {}
    /\ Next1(p)[1] = s /\ Next1(p)[2] = a
    /\ AttemptOK(s, a)

LEMMA Dealing ==
    ASSUME IInv, NEW p \in Planes, pass[p].pc = "act", PassOn(p)
    PROVE  /\ PassOK(pass[p])
           /\ \E s \in Steps, a \in Nat, r \in PassRec : DealsWith(p, s, a, r) /\ PassOK(r)
<1>1. TypeOK /\ PassOK(pass[p])
  BY DEF IInv, WorkersInv
<1>2. pass[p].todo # {} /\ \A t \in pass[p].todo : TodoOK(t)
  BY <1>1 DEF PassOK
<1>3. PICK r \in PassRec : /\ pass' = [pass EXCEPT ![p] = r] /\ r.todo \subseteq pass[p].todo
                           /\ r.pc = "act" => r.todo # {}
  BY <1>1, PassingOn
<1>4. PassOK(r)
  BY <1>2, <1>3 DEF PassOK
<1>5. PICK s \in Steps, a \in Nat : Next1(p) \in pass[p].todo /\ Next1(p)[1] = s /\ Next1(p)[2] = a
  BY <1>1, <1>2, FirstTodo
<1>6. AttemptOK(s, a)
  BY <1>2, <1>5 DEF TodoOK
<1> QED BY <1>1, <1>3, <1>4, <1>5, <1>6 DEF DealsWith

(* What such a step keeps of the workers.                                   *)
LEMMA PassWorkers ==
    ASSUME IInv, TypeOK', Forward, NEW p \in Planes, NEW r \in PassRec, pass' = [pass EXCEPT ![p] = r],
           PassOK(pass[p]), r.todo \subseteq pass[p].todo, r.pc = "act" => r.todo # {},
           gates'.decided = gates.decided, gates'.parked = gates.parked, acted' = acted,
           \A t \in Hosted : run'.attempts[t] = run.attempts[t],
           UNCHANGED <<leases, jobs, sweep, person>>
    PROVE  WorkersInv' /\ OwnFences'
<1>1. TypeOK /\ WorkersInv /\ OwnFences /\ lease' = lease /\ lastFence' = lastFence
  BY DEF IInv, leases
<1>2. GatesLeft
  BY GatesAsTheyWere
<1>3. PassOK(r)'
  BY <1>1, <1>2, PassStays
<1>4. /\ pass'[p] = r /\ \A q \in Planes : q # p => pass'[q] = pass[q]
  BY <1>1, OnePass
<1>5. \A q \in Planes : pass'[q] = pass[q] \/ PassOK(pass[q])'
  BY <1>3, <1>4 DEF PassOK
<1>6. ASSUME NEW q \in Planes, NEW t \in Steps PROVE Undisturbed(t, jobs[q][t])
  <2>1. lease[t].fence # 0 => t \in Hosted
    BY <1>1 DEF WorkersInv, LeaseOK
  <2> QED BY <1>1, <2>1 DEF Undisturbed
<1>7. OwnFences'
  BY <1>1 DEF OwnFences
<1> QED BY <1>1, <1>2, <1>5, <1>6, <1>7, WorkersStep

LEMMA EngineRunsStep ==
    ASSUME IInv, NEW p \in Planes, EngineRuns(p)
    PROVE  IInv'
<1>0. TypeOK /\ LogTypes /\ WorkerTypes /\ StateTypes
  BY Types DEF IInv, TypeOK, StateTypes
<1>1. UNCHANGED <<gates, realised, timers, leases, jobs, sweep, person, faults, history>>
      /\ pass[p].pc = "act" /\ PassOn(p)
  BY DEF EngineRuns
<1>2. PassOK(pass[p]) /\ \E s \in Steps, a \in Nat, r \in PassRec : DealsWith(p, s, a, r) /\ PassOK(r)
  BY <1>1, Dealing
<1>3. PICK s \in Steps, a \in Nat, r \in PassRec : DealsWith(p, s, a, r) /\ PassOK(r)
  BY <1>2
<1>4. /\ r \in PassRec /\ pass' = [pass EXCEPT ![p] = r] /\ r.todo \subseteq pass[p].todo
      /\ r.pc = "act" => r.todo # {}
  BY <1>3 DEF DealsWith
<1>5. CASE UNCHANGED run
  BY <1>1, <1>3, <1>4, <1>5, PassOnly DEF log
<1>6. CASE ~UNCHANGED run
  <2>1. /\ Kind[s] = "engine" /\ run.attempts[s] \in Nat
        /\ run' = FoldSucceeded(FoldDispatched(run, s, run.attempts[s] + 1, 0), s)
    BY <1>0, <1>3, <1>6 DEF EngineRuns, DealsWith, LogTypes, RunRec
  <2>2. PICK m : m = FoldDispatched(run, s, run.attempts[s] + 1, 0)
    OBVIOUS
  <2>3. /\ m \in RunRec /\ m.pinned = run.pinned /\ m.closed = run.closed
        /\ m.attempts = [run.attempts EXCEPT ![s] = run.attempts[s] + 1]
        /\ m.terminal = [run.terminal EXCEPT ![s] = "none"]
    <3>1. PICK c \in Nat : c = run.attempts[s]
      BY <2>1
    <3>2. PICK b \in Nat : b = c + 1 /\ b > c
      OBVIOUS
    <3> QED BY <1>0, <2>2, <3>1, <3>2, DispatchedFold DEF LogTypes
  <2>4. /\ run' \in RunRec /\ run'.pinned = run.pinned /\ run'.closed = run.closed
        /\ run'.attempts = m.attempts /\ run'.terminal = [m.terminal EXCEPT ![s] = "succeeded"]
    BY <2>1, <2>2, <2>3, VerdictFolds DEF Appended
  <2>5. /\ run'.attempts[s] = run.attempts[s] + 1 /\ run'.terminal[s] = "succeeded"
        /\ \A t \in Steps : /\ run.attempts[t] \in Nat
                            /\ t # s => run'.attempts[t] = run.attempts[t] /\ run'.terminal[t] = run.terminal[t]
    BY <1>0, <2>3, <2>4 DEF LogTypes, RunRec
  <2>6. \A t \in Steps : run'.attempts[t] \in Nat /\ run'.attempts[t] >= run.attempts[t]
    BY <2>1, <2>5
  <2>7. /\ bodies' = bodies /\ verdicts' = verdicts /\ fired' = fired /\ acted' = acted
        /\ decisions' = decisions /\ lease' = lease /\ lastFence' = lastFence
    BY <1>1 DEF history, leases
  <2>8. Forward
    <3>1. lastFence \in Nat
      BY <1>0 DEF StateTypes
    <3>2. \A t \in Steps : /\ run'.attempts[t] >= run.attempts[t]
                           /\ run.terminal[t] = "succeeded" => run'.terminal[t] = "succeeded"
      BY <2>5, <2>6
    <3>3. gates' = gates
      BY <1>1
    <3>4. \A t \in Steps : lease'[t].fence \in {0, lease[t].fence}
      BY <2>7
    <3>5. lastFence' >= lastFence
      BY <2>7, <3>1
    <3> QED BY <2>7, <3>2, <3>3, <3>4, <3>5 DEF Forward
  <2>9. TypeOK'
    <3>1. LogTypes' /\ StateTypes'
      BY <1>0, <1>1, <2>4, <2>7 DEF LogTypes, StateTypes
    <3>2. WorkerTypes'
      BY <1>0, <1>1, <1>4, OnePass DEF WorkerTypes
    <3> QED BY <3>1, <3>2, TypesThen
  <2>10. \A t \in Hosted : run'.attempts[t] = run.attempts[t]
    BY <2>1, <2>5 DEF Hosted
  <2>11. WorkersInv' /\ OwnFences'
    BY <1>1, <1>2, <1>4, <2>7, <2>8, <2>9, <2>10, PassWorkers
  <2>12. GateInv'
    BY <1>1, <2>5, <2>6, <2>7 DEF IInv, GateInv
  <2>13. BodiesInv'
    <3>1. \A b \in bodies : b.attempt \in Nat /\ b.step \in Steps /\ b.attempt <= run.attempts[b.step]
      BY <1>0 DEF IInv, BodiesInv, StateTypes
    <3>2. \A b \in bodies : b.attempt <= run'.attempts[b.step]
      BY <2>5, <2>6, <3>1
    <3> QED BY <2>7, <3>2 DEF IInv, BodiesInv, OneBodyPerAttempt, VerdictOfItsAttempt
  <2>14. OnePerson => DecidedInv'
    BY <1>1, <2>1, <2>5, <2>7 DEF IInv, DecidedInv, OneShot
  <2>15. ASSUME OnePerson PROVE OpenedInv'
    <3>1. OpenedInv /\ Fed(s)
      BY <1>3, <2>15 DEF IInv, DealsWith, AttemptOK
    <3>2. \A q \in Steps : Opened(q) => Opened(q)'
      BY <2>8, <2>15, OpenStays
    <3>3. \A t \in Steps : Preds[t] \subseteq Steps
      BY RunStateAssumption
    <3>4. WaitsHonoured'
      <4>1. ASSUME NEW t \in Steps, t # s,
                   run'.attempts[t] > 0 \/ t \in gates'.gated \/ timers'[t] # "none", NEW q \in Preds[t]
            PROVE  Opened(q)'
        BY <1>1, <2>5, <3>1, <3>2, <3>3, <4>1 DEF OpenedInv, WaitsHonoured
      <4>2. ASSUME NEW q \in Preds[s] PROVE Opened(q)'
        BY <3>1, <3>2, <3>3, <4>2 DEF Fed
      <4> QED BY <4>1, <4>2 DEF WaitsHonoured
    <3>5. Opened(s)'
      BY <2>1, <2>5 DEF Opened, Hosted
    <3>6. ASSUME NEW t \in Steps
          PROVE  /\ run'.terminal[t] = "succeeded" => Opened(t)'
                 /\ run'.terminal[t] = "failed" => run'.attempts[t] > 0 \/ t \in gates'.gated
      BY <1>1, <2>5, <3>1, <3>2, <3>5 DEF OpenedInv
    <3> QED BY <3>4, <3>6 DEF OpenedInv
  <2>16. OnePerson /\ SlowPeople => SaidInv'
    BY <1>1, <2>1, <2>4, <2>5 DEF IInv, SaidInv
  <2> QED BY <2>9, <2>11, <2>12, <2>13, <2>14, <2>15, <2>16 DEF IInv, OnePerson
<1> QED BY <1>5, <1>6

(* A gate is opened: its event is in the log, and its step was fed.         *)
LEMMA GateOpens ==
    ASSUME IInv, TypeOK', Forward, NEW s \in Steps, OnePerson => Fed(s), GateInv',
           gates'.gated = gates.gated \cup {s}, gates'.resumed = gates.resumed,
           gates'.decided = gates.decided,
           \A t \in Steps : t # s /\ timers'[t] # "none" => timers[t] # "none",
           WorkersInv', OwnFences', UNCHANGED <<run, history>>
    PROVE  IInv'
<1>1. /\ bodies' = bodies /\ verdicts' = verdicts /\ fired' = fired /\ acted' = acted /\ decisions' = decisions
  BY DEF history
<1>2. BodiesInv'
  BY <1>1 DEF IInv, BodiesInv, OneBodyPerAttempt, VerdictOfItsAttempt
<1>3. OnePerson => DecidedInv'
  BY <1>1 DEF IInv, DecidedInv, OneShot
<1>4. ASSUME OnePerson PROVE OpenedInv'
  <2>1. OpenedInv /\ Fed(s)
    BY <1>4 DEF IInv
  <2>2. \A q \in Steps : Opened(q) => Opened(q)'
    BY <1>4, OpenStays
  <2>3. \A t \in Steps : Preds[t] \subseteq Steps
    BY RunStateAssumption
  <2>4. WaitsHonoured'
    <3>1. ASSUME NEW t \in Steps, t # s,
                 run'.attempts[t] > 0 \/ t \in gates'.gated \/ timers'[t] # "none", NEW q \in Preds[t]
          PROVE  Opened(q)'
      BY <2>1, <2>2, <2>3, <3>1 DEF OpenedInv, WaitsHonoured
    <3>2. ASSUME NEW q \in Preds[s] PROVE Opened(q)'
      BY <2>1, <2>2, <2>3, <3>2 DEF Fed
    <3> QED BY <3>1, <3>2 DEF WaitsHonoured
  <2>5. ASSUME NEW t \in Steps
        PROVE  /\ run'.terminal[t] = "succeeded" => Opened(t)'
               /\ run'.terminal[t] = "failed" => run'.attempts[t] > 0 \/ t \in gates'.gated
    BY <2>1, <2>2 DEF OpenedInv
  <2> QED BY <2>4, <2>5 DEF OpenedInv
<1>5. OnePerson /\ SlowPeople => SaidInv'
  BY DEF IInv, SaidInv
<1> QED BY <1>2, <1>3, <1>4, <1>5 DEF IInv, OnePerson

LEMMA ArmStep ==
    ASSUME IInv, NEW p \in Planes, Arm(p)
    PROVE  IInv'
<1>0. TypeOK /\ LogTypes /\ WorkerTypes /\ StateTypes
  BY Types DEF IInv, TypeOK, StateTypes
<1>1. UNCHANGED <<run, realised, leases, jobs, sweep, person, faults, history>>
      /\ pass[p].pc = "act" /\ PassOn(p)
  BY DEF Arm
<1>2. PassOK(pass[p]) /\ \E s \in Steps, a \in Nat, r \in PassRec : DealsWith(p, s, a, r) /\ PassOK(r)
  BY <1>1, Dealing
<1>3. PICK s \in Steps, a \in Nat, r \in PassRec : DealsWith(p, s, a, r) /\ PassOK(r)
  BY <1>2
<1>4. /\ r \in PassRec /\ pass' = [pass EXCEPT ![p] = r] /\ r.todo \subseteq pass[p].todo
      /\ r.pc = "act" => r.todo # {}
  BY <1>3 DEF DealsWith
<1>5. Kind[s] = "timer" /\ ArmTimer(s) /\ (OnePerson => Fed(s))
  BY <1>3 DEF Arm, DealsWith, AttemptOK
<1>6. CASE UNCHANGED <<timers, gates>>
  BY <1>1, <1>3, <1>4, <1>6, PassOnly DEF log
<1>7. CASE ~UNCHANGED <<timers, gates>>
  <2>1. /\ timers[s] = "none" /\ timers' = [timers EXCEPT ![s] = "armed"]
        /\ gates' = [gates EXCEPT !.gated = @ \cup {s}]
    BY <1>5, <1>7 DEF ArmTimer
  <2>2. timers' \in [Steps -> {"none", "armed", "due", "fired"}] /\ timers'[s] = "armed"
        /\ \A t \in Steps : t # s => timers'[t] = timers[t]
    BY <1>0, <2>1 DEF StateTypes
  <2>3. /\ gates' \in GatesRec /\ gates'.gated = gates.gated \cup {s} /\ gates'.resumed = gates.resumed
        /\ gates'.asked = gates.asked /\ gates'.decided = gates.decided /\ gates'.parked = gates.parked
    BY <1>0, <2>1 DEF LogTypes, GatesRec
  <2>4. /\ bodies' = bodies /\ verdicts' = verdicts /\ fired' = fired /\ acted' = acted
        /\ decisions' = decisions /\ lease' = lease /\ lastFence' = lastFence
    BY <1>1 DEF history, leases
  <2>5. Forward
    <3>1. lastFence \in Nat /\ \A t \in Steps : run.attempts[t] \in Nat
      BY <1>0 DEF LogTypes, RunRec, StateTypes
    <3> QED BY <1>1, <2>3, <2>4, <3>1 DEF Forward
  <2>6. TypeOK'
    <3>1. LogTypes' /\ StateTypes'
      BY <1>0, <1>1, <2>2, <2>3, <2>4 DEF LogTypes, StateTypes
    <3>2. WorkerTypes'
      BY <1>0, <1>1, <1>4, OnePass DEF WorkerTypes
    <3> QED BY <3>1, <3>2, TypesThen
  <2>7. WorkersInv' /\ OwnFences'
    BY <1>1, <1>2, <1>4, <2>3, <2>4, <2>5, <2>6, PassWorkers
  <2>8. GateInv'
    BY <1>1, <1>5, <2>1, <2>2, <2>3, <2>4 DEF IInv, GateInv
  <2> QED BY <1>1, <1>5, <2>2, <2>3, <2>5, <2>6, <2>7, <2>8, GateOpens
<1> QED BY <1>6, <1>7

------------------------------------------------------------------------------
(* Gates are asked for.                                                     *)

(* The job's place is empty, and the others go on undisturbed.              *)
LEMMA JobGone ==
    ASSUME IInv, TypeOK', Forward, NEW p \in Planes, NEW s \in Steps, Drop(p, s),
           gates'.decided = gates.decided, gates'.parked = gates.parked,
           UNCHANGED <<run, leases, pass, sweep, person, history>>
    PROVE  WorkersInv' /\ OwnFences'
<1>1. TypeOK /\ OwnFences /\ lease' = lease /\ lastFence' = lastFence /\ acted' = acted
  BY DEF IInv, leases, history
<1>2. GatesLeft
  BY GatesAsTheyWere
<1>3. /\ jobs'[p][s] = NoJob
      /\ \A q \in Planes, t \in Steps : q # p \/ t # s => jobs'[q][t] = jobs[q][t]
  BY <1>1, Idle, OneJob DEF Drop
<1>4. JobOK(s, jobs[p][s])'
  BY <1>3, Idle DEF TypeOK, JobOK, PlaceOK, FenceOK, ResumeOK, GateOK, Holding, Dispatched, BodyPlaces
<1>5. ASSUME NEW t \in Steps, NEW j PROVE Undisturbed(t, j)
  BY <1>1 DEF Undisturbed
<1>6. \A q \in Planes, t \in Steps :
          (jobs'[q][t] = jobs[q][t] /\ Undisturbed(t, jobs[q][t])) \/ JobOK(t, jobs[q][t])'
  BY <1>3, <1>4, <1>5
<1>7. OwnFences'
  <2>1. \A q \in Planes, t \in Steps : jobs'[q][t].fence # 0 => jobs'[q][t].fence = jobs[q][t].fence
    BY <1>3, Idle
  <2> QED BY <1>1, <2>1 DEF OwnFences
<1> QED BY <1>1, <1>2, <1>6, <1>7, WorkersStep

LEMMA AskStep ==
    ASSUME IInv, NEW p \in Planes, NEW s \in Steps, NEW how \in {"step", "parks"},
           Drop(p, s), gates' = [gates EXCEPT !.asked[s] = how, !.gated = @ \cup {s}],
           gates.decided[s] = "none", gates.asked[s] = "none", OnePerson => Fed(s),
           how = "step" => Kind[s] = "approval",
           how = "parks" => Kind[s] = "agent" /\ run.attempts[s] > 0 /\ gates.parked[s] # "none",
           UNCHANGED <<run, realised, timers, leases, pass, sweep, person, faults, history>>
    PROVE  IInv'
<1>0. TypeOK /\ LogTypes /\ WorkerTypes /\ StateTypes
  BY Types DEF IInv, TypeOK, StateTypes
<1>1. /\ gates' \in GatesRec /\ gates'.gated = gates.gated \cup {s} /\ gates'.resumed = gates.resumed
      /\ gates'.decided = gates.decided /\ gates'.parked = gates.parked
      /\ gates'.asked = [gates.asked EXCEPT ![s] = how]
  BY <1>0 DEF LogTypes, GatesRec
<1>2. gates'.asked[s] = how /\ how # "none" /\ \A t \in Steps : t # s => gates'.asked[t] = gates.asked[t]
  BY <1>0, <1>1 DEF LogTypes, GatesRec
<1>3. /\ bodies' = bodies /\ verdicts' = verdicts /\ fired' = fired /\ acted' = acted
      /\ decisions' = decisions /\ lease' = lease /\ lastFence' = lastFence
  BY DEF history, leases
<1>4. Forward
  <2>1. lastFence \in Nat /\ \A t \in Steps : run.attempts[t] \in Nat
    BY <1>0 DEF LogTypes, RunRec, StateTypes
  <2> QED BY <1>1, <1>2, <1>3, <2>1 DEF Forward
<1>5. TypeOK'
  <2>1. LogTypes' /\ StateTypes'
    BY <1>0, <1>1, <1>3 DEF LogTypes, StateTypes
  <2>2. WorkerTypes'
    BY <1>0, Idle, OneJob DEF WorkerTypes, Drop
  <2> QED BY <2>1, <2>2, TypesThen
<1>6. WorkersInv' /\ OwnFences'
  BY <1>1, <1>4, <1>5, JobGone
<1>7. GateInv'
  BY <1>1, <1>2, <1>3 DEF IInv, GateInv
<1> QED BY <1>1, <1>4, <1>5, <1>6, <1>7, GateOpens

LEMMA RequestStep ==
    ASSUME IInv, NEW p \in Planes, NEW s \in Steps, Request(p, s)
    PROVE  IInv'
<1>1. TypeOK /\ faults \in Nat /\ realised \in [Steps -> Nat]
  BY DEF IInv, TypeOK
<1>2. /\ UNCHANGED <<run, realised, timers, leases, pass, sweep, person, faults, history>>
      /\ jobs[p][s].pc = "queued" /\ Kind[s] = "approval" /\ Ask(p, s, "step")
  BY DEF Request, At
<1>3. PICK j : j = jobs[p][s]
  OBVIOUS
<1>4. j \in JobRec /\ JobOK(s, j) /\ j.pc = "queued"
  BY <1>1, <1>2, <1>3, Types DEF IInv, WorkersInv, WorkerTypes
<1>5. AttemptOK(s, j.attempt) /\ j.fence = 0
      /\ (OnePerson /\ SlowPeople => ~Shut(s))
  BY <1>2, <1>4 DEF JobOK, PlaceOK, GateOK
<1>6. CASE gates.decided[s] # "none"
  <2>1. Goto(p, s, "fail") /\ UNCHANGED gates
    BY <1>2, <1>6 DEF Ask
  <2>2. PICK n \in JobRec :
          /\ n.pc = "fail" /\ n.attempt = jobs[p][s].attempt /\ n.fence = jobs[p][s].fence
          /\ jobs' = [jobs EXCEPT ![p][s] = n]
    BY <1>1, <2>1, Going DEF JobPlaces
  <2>3. PlaceOK(s, n)
    BY <1>2, <1>3, <1>5, <1>6, <2>2 DEF PlaceOK
  <2>4. FenceOK(s, n) /\ ResumeOK(s, n)
    BY <1>1, <1>3, <1>5, <2>2 DEF FenceOK, ResumeOK, TypeOK
  <2>5. GateOK(s, n)
    BY <1>5, <1>6 DEF GateOK, Shut
  <2>6. JobOK(s, n)
    BY <2>3, <2>4, <2>5 DEF JobOK
  <2> QED BY <1>1, <1>2, <2>1, <2>2, <2>6, JobOnly
<1>7. CASE gates.decided[s] = "none" /\ gates.asked[s] # "none"
  <2>1. Drop(p, s) /\ UNCHANGED gates
    BY <1>2, <1>7 DEF Ask
  <2> QED BY <1>1, <1>2, <2>1, BodyStep DEF BodyMoves
<1>8. CASE gates.decided[s] = "none" /\ gates.asked[s] = "none"
  <2>1. Drop(p, s) /\ gates' = [gates EXCEPT !.asked[s] = "step", !.gated = @ \cup {s}]
    BY <1>2, <1>8 DEF Ask
  <2>2. OnePerson => Fed(s)
    BY <1>5 DEF AttemptOK
  <2>3. PICK how \in {"step", "parks"} : how = "step"
    OBVIOUS
  <2>4. gates' = [gates EXCEPT !.asked[s] = how, !.gated = @ \cup {s}]
        /\ (how = "step" => Kind[s] = "approval") /\ how # "parks"
    BY <1>2, <2>1, <2>3
  <2> QED BY <1>2, <1>8, <2>1, <2>2, <2>4, AskStep
<1> QED BY <1>6, <1>7, <1>8

LEMMA AskParkStep ==
    ASSUME IInv, NEW p \in Planes, NEW s \in Steps, AskPark(p, s)
    PROVE  IInv'
<1>1. TypeOK /\ faults \in Nat /\ realised \in [Steps -> Nat]
  BY DEF IInv, TypeOK
<1>2. /\ UNCHANGED <<run, realised, timers, leases, pass, sweep, person, faults, history>>
      /\ jobs[p][s].pc = "asking" /\ Ask(p, s, "parks")
  BY DEF AskPark, At
<1>3. jobs[p][s].pc \in BodyPlaces /\ jobs[p][s].pc \in Dispatched
  BY <1>2 DEF BodyPlaces, Dispatched
<1>4. JobOK(s, jobs[p][s])
  BY DEF IInv, WorkersInv
<1>5. /\ Kind[s] = "agent" /\ gates.parked[s] # "none" /\ jobs[p][s].fence # 0
      /\ AttemptOK(s, jobs[p][s].attempt)
  BY <1>2, <1>3, <1>4 DEF JobOK, PlaceOK, Holding
<1>6. run.attempts[s] > 0
  <2>1. /\ jobs[p][s].attempt \in Nat /\ jobs[p][s].attempt > 0
        /\ jobs[p][s].attempt <= run.attempts[s] /\ run.attempts[s] \in Nat
    BY <1>3, <1>5, BodyFacts
  <2> QED BY <2>1
<1>7. CASE gates.decided[s] # "none"
  <2>1. Goto(p, s, "fail") /\ UNCHANGED gates
    BY <1>2, <1>7 DEF Ask
  <2>2. BodyMoves(p, s)
    BY <1>1, <1>3, <2>1, GoingOn DEF Dispatched, BodyPlaces
  <2> QED BY <1>1, <1>2, <2>1, <2>2, BodyStep
<1>8. CASE gates.decided[s] = "none" /\ gates.asked[s] # "none"
  <2>1. Drop(p, s) /\ UNCHANGED gates
    BY <1>2, <1>8 DEF Ask
  <2> QED BY <1>1, <1>2, <2>1, BodyStep DEF BodyMoves
<1>9. CASE gates.decided[s] = "none" /\ gates.asked[s] = "none"
  <2>1. Drop(p, s) /\ gates' = [gates EXCEPT !.asked[s] = "parks", !.gated = @ \cup {s}]
    BY <1>2, <1>9 DEF Ask
  <2>2. OnePerson => Fed(s)
    BY <1>5 DEF AttemptOK
  <2>3. PICK how \in {"step", "parks"} : how = "parks"
    OBVIOUS
  <2>4. gates' = [gates EXCEPT !.asked[s] = how, !.gated = @ \cup {s}]
        /\ (how = "parks" => Kind[s] = "agent" /\ run.attempts[s] > 0 /\ gates.parked[s] # "none")
        /\ how # "step"
    BY <1>5, <1>6, <2>1, <2>3
  <2> QED BY <1>2, <1>9, <2>1, <2>2, <2>4, AskStep
<1> QED BY <1>7, <1>8, <1>9

------------------------------------------------------------------------------
(* An agent parks, and makes the call it was allowed.                       *)

(* An attempt in hand is one plane's.                                       *)
LEMMA SameAttempt ==
    ASSUME IInv, NEW p \in Planes, NEW q \in Planes, NEW s \in Steps,
           jobs[p][s].pc \in BodyPlaces, jobs[q][s].pc \in BodyPlaces,
           jobs[p][s].attempt = jobs[q][s].attempt
    PROVE  p = q
<1>1. ASSUME NEW o \in Planes, jobs[o][s].pc \in BodyPlaces
      PROVE  /\ jobs[o][s].fence # 0
             /\ [step |-> s, attempt |-> jobs[o][s].attempt, fence |-> jobs[o][s].fence] \in bodies
  <2>1. JobOK(s, jobs[o][s]) /\ jobs[o][s].pc \in Dispatched /\ jobs[o][s].pc \in Holding
        /\ jobs[o][s].pc # "fail"
    BY <1>1 DEF IInv, WorkersInv, Dispatched, Holding, BodyPlaces
  <2>2. jobs[o][s].fence # 0
    BY <2>1 DEF JobOK, PlaceOK
  <2> QED BY <2>1, <2>2, BodyFacts
<1>2. PICK b \in bodies : b = [step |-> s, attempt |-> jobs[p][s].attempt, fence |-> jobs[p][s].fence]
  BY <1>1
<1>3. PICK c \in bodies : c = [step |-> s, attempt |-> jobs[q][s].attempt, fence |-> jobs[q][s].fence]
  BY <1>1
<1>4. b = c
  <2>1. b.step = c.step /\ b.attempt = c.attempt
    BY <1>2, <1>3
  <2> QED BY <2>1 DEF IInv, BodiesInv, OneBodyPerAttempt
<1>5. jobs[p][s].fence = jobs[q][s].fence
  BY <1>2, <1>3, <1>4
<1> QED BY <1>1, <1>5 DEF IInv, OwnFences

LEMMA BodyActs ==
    ASSUME IInv, TypeOK', Forward, NEW p \in Planes, NEW s \in Steps, NEW n \in JobRec,
           JobOK(s, n)', jobs' = [jobs EXCEPT ![p][s] = n], n.fence = jobs[p][s].fence,
           UNCHANGED <<run, timers, leases, pass, sweep, person, bodies, verdicts, fired, decisions>>,
           gates'.gated = gates.gated, gates'.resumed = gates.resumed, gates'.decided = gates.decided,
           \A q \in Planes, t \in Steps : q # p \/ t # s => Undisturbed(t, jobs[q][t]),
           GateInv', OnePerson => DecidedInv'
    PROVE  IInv'
<1>1. TypeOK /\ OwnFences /\ lease' = lease /\ lastFence' = lastFence
  BY DEF IInv, leases
<1>2. GatesLeft
  BY GatesAsTheyWere
<1>3. /\ jobs'[p][s] = n
      /\ \A q \in Planes, t \in Steps : q # p \/ t # s => jobs'[q][t] = jobs[q][t]
  BY <1>1, OneJob
<1>4. JobOK(s, jobs[p][s])'
  BY <1>3 DEF JobOK, PlaceOK, FenceOK, ResumeOK, GateOK
<1>5. \A q \in Planes, t \in Steps :
          (jobs'[q][t] = jobs[q][t] /\ Undisturbed(t, jobs[q][t])) \/ JobOK(t, jobs[q][t])'
  BY <1>3, <1>4
<1>6. WorkersInv'
  BY <1>1, <1>2, <1>5, WorkersStep
<1>7. OwnFences'
  <2>1. \A q \in Planes, t \in Steps : jobs'[q][t].fence = jobs[q][t].fence
    BY <1>3
  <2> QED BY <1>1, <2>1 DEF OwnFences
<1>8. BodiesInv'
  BY DEF IInv, BodiesInv, OneBodyPerAttempt, VerdictOfItsAttempt
<1>9. OnePerson => OpenedInv'
  <2>1. \A q : Opened(q)' <=> Opened(q)
    BY DEF Opened, Hosted
  <2> QED BY <2>1 DEF IInv, OpenedInv, WaitsHonoured
<1>10. OnePerson /\ SlowPeople => SaidInv'
  BY DEF IInv, SaidInv
<1> QED BY <1>6, <1>7, <1>8, <1>9, <1>10 DEF IInv, OnePerson

LEMMA ParkStep ==
    ASSUME IInv, NEW p \in Planes, NEW s \in Steps, Park(p, s)
    PROVE  IInv'
<1>0. TypeOK /\ LogTypes /\ WorkerTypes /\ StateTypes
  BY Types DEF IInv, TypeOK, StateTypes
<1>1. /\ UNCHANGED <<run, realised, timers, leases, pass, sweep, person, faults, history>>
      /\ jobs[p][s].pc = "acting" /\ Goto(p, s, "asking")
      /\ gates' = [gates EXCEPT !.parked[s] = "open"]
  BY DEF Park, At
<1>2. PICK j : j = jobs[p][s]
  OBVIOUS
<1>3. j \in JobRec /\ JobOK(s, j) /\ j.pc = "acting" /\ j.pc \in BodyPlaces /\ j.pc \in Dispatched
  BY <1>0, <1>1, <1>2 DEF IInv, WorkersInv, WorkerTypes, BodyPlaces, Dispatched
<1>4. /\ Kind[s] = "agent" /\ s \in Hosted /\ j.fence > 0 /\ j.fence # 0
      /\ j.attempt \in Nat /\ AttemptOK(s, j.attempt)
  BY <1>3 DEF JobOK, PlaceOK, Holding, JobRec
<1>5. run.attempts[s] > 0
  <2>1. /\ j.attempt > 0 /\ j.attempt <= run.attempts[s] /\ run.attempts[s] \in Nat
    BY <1>2, <1>3, <1>4, BodyFacts
  <2> QED BY <1>4, <2>1
<1>6. PICK n \in JobRec :
          /\ n.pc = "asking" /\ n.attempt = j.attempt /\ n.fence = j.fence
          /\ jobs' = [jobs EXCEPT ![p][s] = n]
  BY <1>0, <1>1, <1>2, Going DEF JobPlaces
<1>7. /\ gates' \in GatesRec /\ gates'.gated = gates.gated /\ gates'.resumed = gates.resumed
      /\ gates'.decided = gates.decided /\ gates'.asked = gates.asked
      /\ gates'.parked = [gates.parked EXCEPT ![s] = "open"]
  BY <1>0, <1>1 DEF LogTypes, GatesRec
<1>8. gates'.parked[s] = "open" /\ \A t \in Steps : t # s => gates'.parked[t] = gates.parked[t]
  BY <1>0, <1>7 DEF LogTypes, GatesRec
<1>9. /\ bodies' = bodies /\ verdicts' = verdicts /\ fired' = fired /\ acted' = acted
      /\ decisions' = decisions /\ lease' = lease /\ lastFence' = lastFence
  BY <1>1 DEF history, leases
<1>10. Forward
  <2>1. lastFence \in Nat /\ \A t \in Steps : run.attempts[t] \in Nat
    BY <1>0 DEF LogTypes, RunRec, StateTypes
  <2> QED BY <1>1, <1>7, <1>8, <1>9, <2>1 DEF Forward
<1>11. TypeOK'
  <2>1. LogTypes' /\ StateTypes'
    BY <1>0, <1>1, <1>7, <1>9 DEF LogTypes, StateTypes
  <2>2. WorkerTypes'
    BY <1>0, <1>1, <1>6, OneJob DEF WorkerTypes
  <2> QED BY <2>1, <2>2, TypesThen
<1>12. JobOK(s, n)'
  <2>1. PICK a \in Nat : a = j.attempt
    BY <1>4
  <2>2. AttemptOK(s, a)'
    BY <1>4, <1>10, <2>1, AttemptStays
  <2>3. PlaceOK(s, n)'
    BY <1>4, <1>6, <1>8, <2>1, <2>2 DEF PlaceOK, Hosted
  <2>4. FenceOK(s, n)'
    BY <1>1, <1>3, <1>4, <1>6, <1>9 DEF JobOK, FenceOK, Dispatched, BodyPlaces
  <2>5. ResumeOK(s, n)' /\ GateOK(s, n)'
    BY <1>4, <1>6 DEF ResumeOK, GateOK
  <2> QED BY <2>3, <2>4, <2>5 DEF JobOK
<1>13. ASSUME NEW q \in Planes, NEW t \in Steps, q # p \/ t # s
       PROVE  Undisturbed(t, jobs[q][t])
  <2>1. CASE t # s
    BY <1>1, <1>8, <1>9, <2>1 DEF Undisturbed
  <2>2. CASE t = s /\ q # p
    <3>1. ASSUME jobs[q][s].pc = "running", OneShot(s), OnePerson, jobs[q][s].attempt = 1,
                 gates.parked[s] = "none"
          PROVE  FALSE
      <4>1. j.attempt # 1
        BY <1>2, <1>3, <2>2, <3>1, SameAttempt DEF BodyPlaces
      <4>2. j.attempt = 2
        BY <1>4, <3>1, <4>1 DEF AttemptOK
      <4>3. gates.decided[s] # "none"
        BY <1>4, <3>1, <4>2 DEF AttemptOK
      <4>4. gates.asked[s] \in {"none", "step", "parks"}
        BY <1>0 DEF LogTypes, GatesRec
      <4> QED BY <1>4, <3>1, <4>3, <4>4 DEF IInv, GateInv
    <3> QED BY <1>1, <1>9, <2>2, <3>1 DEF Undisturbed
  <2> QED BY <1>13, <2>1, <2>2
<1>14. GateInv'
  BY <1>1, <1>5, <1>7, <1>8, <1>9 DEF IInv, GateInv
<1>15. OnePerson => DecidedInv'
  BY <1>1, <1>7, <1>9 DEF IInv, DecidedInv, OneShot
<1> QED BY <1>1, <1>2, <1>6, <1>7, <1>9, <1>10, <1>11, <1>12, <1>13, <1>14, <1>15, BodyActs

LEMMA ResumeAgentStep ==
    ASSUME IInv, NEW p \in Planes, NEW s \in Steps, ResumeAgent(p, s)
    PROVE  IInv'
<1>0. TypeOK /\ LogTypes /\ WorkerTypes /\ StateTypes
  BY Types DEF IInv, TypeOK, StateTypes
<1>1. /\ UNCHANGED <<run, gates, realised, timers, leases, pass, sweep, person, faults,
                     bodies, verdicts, fired, decisions>>
      /\ jobs[p][s].pc = "running" /\ Kind[s] = "agent" /\ Goto(p, s, "acting")
      /\ acted' = [acted EXCEPT ![s] = @ + 1]
      /\ gates.parked[s] = "decided" /\ gates.decided[s] = "approved"
  BY DEF ResumeAgent, At, log, Resumable
<1>2. PICK j : j = jobs[p][s]
  OBVIOUS
<1>3. j \in JobRec /\ JobOK(s, j) /\ j.pc = "running" /\ j.pc \in BodyPlaces /\ j.pc \in Dispatched
  BY <1>0, <1>1, <1>2 DEF IInv, WorkersInv, WorkerTypes, BodyPlaces, Dispatched
<1>4. j.fence # 0 /\ j.attempt \in Nat /\ AttemptOK(s, j.attempt)
  BY <1>3 DEF JobOK, PlaceOK, Holding, JobRec
<1>5. PICK n \in JobRec :
          /\ n.pc = "acting" /\ n.attempt = j.attempt /\ n.fence = j.fence
          /\ jobs' = [jobs EXCEPT ![p][s] = n]
  BY <1>0, <1>1, <1>2, Going DEF JobPlaces
<1>6. acted' \in [Steps -> Nat] /\ acted[s] \in Nat /\ acted'[s] = acted[s] + 1
      /\ \A t \in Steps : t # s => acted'[t] = acted[t]
  BY <1>0, <1>1 DEF StateTypes
<1>7. lease' = lease /\ lastFence' = lastFence
  BY <1>1 DEF leases
<1>8. Forward
  <2>1. lastFence \in Nat /\ \A t \in Steps : run.attempts[t] \in Nat
    BY <1>0 DEF LogTypes, RunRec, StateTypes
  <2> QED BY <1>1, <1>7, <2>1 DEF Forward
<1>9. TypeOK'
  <2>1. LogTypes' /\ StateTypes'
    BY <1>0, <1>1, <1>6, <1>7 DEF LogTypes, StateTypes
  <2>2. WorkerTypes'
    BY <1>0, <1>1, <1>5, OneJob DEF WorkerTypes
  <2> QED BY <2>1, <2>2, TypesThen
<1>10. JobOK(s, n)'
  <2>1. JobOK(s, n)
    BY <1>1, <1>3, <1>5, GoesOn DEF Dispatched, BodyPlaces
  <2>2. Undisturbed(s, n) /\ GatesLeft
    BY <1>1, <1>5, GatesAsTheyWere DEF Undisturbed
  <2> QED BY <1>0, <1>5, <1>8, <1>9, <2>1, <2>2, JobStays
<1>11. ASSUME OnePerson, OneShot(s)
       PROVE  j.attempt = 2 /\ acted[s] = 0 /\ run.attempts[s] = 2
  <2>1. j.attempt # 1 /\ (j.attempt = 2 => acted[s] = 0)
    BY <1>1, <1>3, <1>11 DEF JobOK, ResumeOK
  <2>2. j.attempt = 2
    BY <1>4, <1>11, <2>1 DEF AttemptOK
  <2>3. j.attempt <= run.attempts[s] /\ run.attempts[s] \in Nat
    BY <1>2, <1>3, <1>4, BodyFacts
  <2>4. run.attempts[s] <= 2
    BY <1>11 DEF IInv, DecidedInv
  <2> QED BY <2>1, <2>2, <2>3, <2>4
<1>12. ASSUME NEW q \in Planes, NEW t \in Steps, q # p \/ t # s
       PROVE  Undisturbed(t, jobs[q][t])
  <2>1. CASE t # s
    BY <1>1, <1>6, <2>1 DEF Undisturbed
  <2>2. CASE t = s /\ q # p
    <3>1. ASSUME jobs[q][s].pc = "running", OneShot(s), OnePerson, jobs[q][s].attempt = 2
          PROVE  FALSE
      BY <1>2, <1>3, <1>11, <2>2, <3>1, SameAttempt DEF BodyPlaces
    <3> QED BY <1>1, <2>2, <3>1 DEF Undisturbed
  <2> QED BY <1>12, <2>1, <2>2
<1>13. GateInv'
  BY <1>1 DEF IInv, GateInv
<1>14. ASSUME OnePerson PROVE DecidedInv'
  <2>1. DecidedInv
    BY <1>14 DEF IInv
  <2>2. OneShot(s) => acted'[s] = 1 /\ run.attempts[s] = 2
    BY <1>6, <1>11, <1>14
  <2>3. ASSUME NEW t \in Steps, t # s
        PROVE  /\ gates'.decided[t] = "none" => decisions'[t] = 0
               /\ decisions'[t] <= 1
               /\ acted'[t] > 0 => Kind[t] = "agent" /\ gates'.decided[t] = "approved"
               /\ OneShot(t) =>
                     /\ run'.attempts[t] <= 2 /\ acted'[t] <= 1
                     /\ gates'.decided[t] = "none" => run'.attempts[t] <= 1
                     /\ run'.attempts[t] = 2 => t \notin gates'.resumed
                     /\ run'.attempts[t] <= 1 => acted'[t] = 0
    BY <1>1, <1>6, <2>1, <2>3 DEF DecidedInv
  <2>4. /\ gates'.decided[s] = "none" => decisions'[s] = 0
        /\ decisions'[s] <= 1
        /\ acted'[s] > 0 => Kind[s] = "agent" /\ gates'.decided[s] = "approved"
        /\ OneShot(s) =>
              /\ run'.attempts[s] <= 2 /\ acted'[s] <= 1
              /\ gates'.decided[s] = "none" => run'.attempts[s] <= 1
              /\ run'.attempts[s] = 2 => s \notin gates'.resumed
              /\ run'.attempts[s] <= 1 => acted'[s] = 0
    BY <1>1, <2>1, <2>2 DEF DecidedInv
  <2> QED BY <2>3, <2>4 DEF DecidedInv, OneShot
<1> QED BY <1>1, <1>2, <1>5, <1>8, <1>9, <1>10, <1>12, <1>13, <1>14, BodyActs

------------------------------------------------------------------------------
(* An attempt is dispatched under its fence.                                *)

LEMMA DispatchStep ==
    ASSUME IInv, NEW p \in Planes, NEW s \in Steps, Dispatch(p, s)
    PROVE  IInv'
<1>0. TypeOK /\ LogTypes /\ WorkerTypes /\ StateTypes
  BY Types DEF IInv, TypeOK, StateTypes
<1>1. /\ UNCHANGED <<realised, timers, leases, pass, sweep, person, faults, verdicts, fired, decisions, acted>>
      /\ jobs[p][s].pc = "fresh"
  BY DEF Dispatch, At
<1>2. CASE ~Current(p, s)
  <2>1. Drop(p, s) /\ UNCHANGED <<run, gates, bodies>>
    BY <1>2 DEF Dispatch
  <2> QED BY <1>0, <1>1, <2>1, BodyStep DEF BodyMoves, history, StateTypes
<1>3. CASE Current(p, s)
  <2>1. PICK j : j = jobs[p][s]
    OBVIOUS
  <2>2. j \in JobRec /\ JobOK(s, j) /\ j.pc = "fresh" /\ lease[s].fence = j.fence
    BY <1>0, <1>1, <1>3, <2>1 DEF IInv, WorkersInv, WorkerTypes, Current
  <2>3. /\ s \in Hosted /\ j.fence # 0 /\ j.fence > 0 /\ j.fence <= lastFence /\ j.attempt \in Nat
        /\ j.fence \in Nat /\ AttemptOK(s, j.attempt) /\ run.attempts[s] < j.attempt
    BY <2>2 DEF JobOK, PlaceOK, FenceOK, Holding, JobRec
  <2>4. PICK a \in Nat : a = j.attempt
    BY <2>3
  <2>5. AttemptOK(s, a) /\ run.attempts[s] < a /\ run.attempts[s] \in Nat /\ a > 0
    BY <1>0, <2>3, <2>4 DEF LogTypes, RunRec, AttemptOK
  <2>6. PICK b : b = [step |-> s, attempt |-> a, fence |-> j.fence]
    OBVIOUS
  <2>7. b \in [step : Steps, attempt : Nat, fence : Nat] /\ b.step = s /\ b.attempt = a
    BY <2>3, <2>6
  <2>8. /\ run' = FoldDispatched(run, s, a, j.fence)
        /\ gates' = [gates EXCEPT !.resumed = @ \ {s}]
        /\ bodies' = bodies \cup {b} /\ Goto(p, s, "running")
    BY <1>3, <2>1, <2>4, <2>6 DEF Dispatch
  <2>9. /\ run' \in RunRec /\ run'.pinned = run.pinned /\ run'.closed = run.closed
        /\ run'.attempts = [run.attempts EXCEPT ![s] = a]
        /\ run'.terminal = [run.terminal EXCEPT ![s] = "none"]
    BY <1>0, <2>3, <2>5, <2>8, DispatchedFold DEF LogTypes
  <2>10. /\ run'.attempts[s] = a /\ run'.terminal[s] = "none"
         /\ \A t \in Steps : /\ run.attempts[t] \in Nat
                             /\ t # s => run'.attempts[t] = run.attempts[t] /\ run'.terminal[t] = run.terminal[t]
    BY <1>0, <2>9 DEF LogTypes, RunRec
  <2>11. \A t \in Steps : run'.attempts[t] \in Nat /\ run'.attempts[t] >= run.attempts[t]
    BY <2>5, <2>10
  <2>12. /\ gates' \in GatesRec /\ gates'.gated = gates.gated /\ gates'.resumed = gates.resumed \ {s}
         /\ gates'.decided = gates.decided /\ gates'.asked = gates.asked /\ gates'.parked = gates.parked
    BY <1>0, <2>8 DEF LogTypes, GatesRec
  <2>13. lease' = lease /\ lastFence' = lastFence /\ lastFence \in Nat
    BY <1>0, <1>1 DEF leases, StateTypes
  <2>14. PICK n \in JobRec :
          /\ n.pc = "running" /\ n.attempt = a /\ n.fence = j.fence
          /\ jobs' = [jobs EXCEPT ![p][s] = n]
    BY <1>0, <2>1, <2>4, <2>8, Going DEF JobPlaces
  <2>15. /\ jobs' \in [Planes -> [Steps -> JobRec]] /\ jobs'[p][s] = n
         /\ \A q \in Planes, t \in Steps : q # p \/ t # s => jobs'[q][t] = jobs[q][t]
    BY <1>0, <2>14, OneJob
  <2>16. Kind[s] = "agent" \/ Kind[s] = "model" \/ Kind[s] = "loop"
    BY <2>3 DEF Hosted
  <2>17. Forward
    <3>1. \A t \in Steps : Kind[t] = "engine" /\ run.terminal[t] = "succeeded" => run'.terminal[t] = "succeeded"
      BY <2>10, <2>16
    <3>2. /\ \A t \in Steps : lease'[t].fence \in {0, lease[t].fence}
          /\ lastFence' >= lastFence /\ bodies \subseteq bodies'
      BY <2>8, <2>13
    <3> QED BY <1>1, <2>11, <2>12, <3>1, <3>2 DEF Forward
  <2>18. TypeOK'
    <3>1. LogTypes'
      BY <1>0, <2>9, <2>12 DEF LogTypes
    <3>2. StateTypes'
      BY <1>0, <1>1, <2>7, <2>8, <2>13 DEF StateTypes
    <3>3. WorkerTypes'
      BY <1>0, <1>1, <2>15 DEF WorkerTypes
    <3> QED BY <3>1, <3>2, <3>3, TypesThen
  <2>19. JobOK(s, n)'
    <3>1. AttemptOK(s, a)'
      BY <2>5, <2>17, AttemptStays
    <3>2. PlaceOK(s, n)'
      BY <2>3, <2>14, <3>1 DEF PlaceOK, Hosted
    <3>3. FenceOK(s, n)'
      BY <2>3, <2>6, <2>8, <2>10, <2>13, <2>14 DEF FenceOK
    <3>4. ASSUME OnePerson, OneShot(s)
          PROVE  /\ a = 1 => gates'.parked[s] = "none"
                 /\ a = 2 => acted'[s] = 0
      <4>1. gates.parked[s] # "none" => run.attempts[s] > 0
        BY DEF IInv, GateInv
      <4>2. run.attempts[s] <= 1 => acted[s] = 0
        BY <3>4 DEF IInv, DecidedInv
      <4> QED BY <1>1, <2>5, <2>12, <4>1, <4>2
    <3>5. ResumeOK(s, n)'
      BY <2>14, <3>4 DEF ResumeOK, OnePerson, OneShot
    <3>6. GateOK(s, n)'
      BY <2>16 DEF GateOK
    <3> QED BY <3>2, <3>3, <3>5, <3>6 DEF JobOK
  <2>20. ASSUME NEW q \in Planes, NEW t \in Steps, q # p \/ t # s
         PROVE  Undisturbed(t, jobs[q][t])
    <3>1. jobs[q][t].fence # 0 /\ lease'[t].fence = jobs[q][t].fence => t # s
      <4>1. jobs[q][s].fence = j.fence => p = q
        BY <2>1, <2>3 DEF IInv, OwnFences
      <4> QED BY <2>2, <2>13, <2>20, <4>1
    <3> QED BY <1>1, <2>10, <2>12, <3>1 DEF Undisturbed
  <2>21. WorkersInv'
    <3>1. GatesLeft
      BY <1>1, <2>12, GatesAsTheyWere
    <3>2. JobOK(s, jobs[p][s])'
      BY <2>15, <2>19 DEF JobOK, PlaceOK, FenceOK, ResumeOK, GateOK
    <3>3. \A q \in Planes, t \in Steps :
              (jobs'[q][t] = jobs[q][t] /\ Undisturbed(t, jobs[q][t])) \/ JobOK(t, jobs[q][t])'
      BY <2>15, <2>20, <3>2
    <3> QED BY <1>1, <2>12, <2>13, <2>17, <2>18, <3>1, <3>3, WorkersStep
  <2>22. OwnFences'
    <3>1. \A q \in Planes, t \in Steps : jobs'[q][t].fence = jobs[q][t].fence
      BY <2>1, <2>14, <2>15
    <3> QED BY <3>1 DEF IInv, OwnFences
  <2>23. GateInv'
    <3>1. \A t \in Steps : run.attempts[t] > 0 => run'.attempts[t] > 0
      BY <2>5, <2>10
    <3> QED BY <1>1, <2>12, <3>1 DEF IInv, GateInv
  <2>24. BodiesInv'
    <3>1. \A c \in bodies : c.attempt \in Nat /\ c.step \in Steps /\ c.attempt <= run.attempts[c.step]
      BY <1>0 DEF IInv, BodiesInv, StateTypes
    <3>2. \A c \in bodies : c.attempt <= run'.attempts[c.step] /\ ~(c.step = s /\ c.attempt = a)
      BY <2>5, <2>10, <2>11, <3>1
    <3>3. \A c \in bodies' : c.attempt <= run'.attempts[c.step]
      BY <2>7, <2>8, <2>10, <3>2
    <3>4. OneBodyPerAttempt'
      BY <2>7, <2>8, <3>2 DEF IInv, BodiesInv, OneBodyPerAttempt
    <3>5. VerdictOfItsAttempt'
      BY <1>1 DEF IInv, BodiesInv, VerdictOfItsAttempt
    <3> QED BY <3>3, <3>4, <3>5 DEF BodiesInv
  <2>25. ASSUME OnePerson PROVE DecidedInv'
    <3>1. DecidedInv
      BY <2>25 DEF IInv
    <3>2. OneShot(s) => a <= 2 /\ (a = 2 => gates.decided[s] # "none")
      BY <2>5, <2>25 DEF AttemptOK
    <3>3. OneShot(s) => (run.attempts[s] <= 1 => acted[s] = 0) /\ acted[s] <= 1
      BY <3>1 DEF DecidedInv
    <3>4. OneShot(s) => /\ run'.attempts[s] <= 2 /\ acted'[s] <= 1
                        /\ gates'.decided[s] = "none" => run'.attempts[s] <= 1
                        /\ run'.attempts[s] = 2 => s \notin gates'.resumed
                        /\ run'.attempts[s] <= 1 => acted'[s] = 0
      BY <1>1, <2>5, <2>10, <2>12, <3>2, <3>3
    <3>5. ASSUME NEW t \in Steps, t # s, OneShot(t)
          PROVE  /\ run'.attempts[t] <= 2 /\ acted'[t] <= 1
                 /\ gates'.decided[t] = "none" => run'.attempts[t] <= 1
                 /\ run'.attempts[t] = 2 => t \notin gates'.resumed
                 /\ run'.attempts[t] <= 1 => acted'[t] = 0
      BY <1>1, <2>10, <2>12, <3>1, <3>5 DEF DecidedInv
    <3>6. ASSUME NEW t \in Steps
          PROVE  /\ gates'.decided[t] = "none" => decisions'[t] = 0
                 /\ decisions'[t] <= 1
                 /\ acted'[t] > 0 => Kind[t] = "agent" /\ gates'.decided[t] = "approved"
      BY <1>1, <2>12, <3>1 DEF DecidedInv
    <3> QED BY <3>4, <3>5, <3>6 DEF DecidedInv, OneShot
  <2>26. ASSUME OnePerson PROVE OpenedInv'
    <3>1. OpenedInv /\ Fed(s)
      BY <2>5, <2>26 DEF IInv, AttemptOK
    <3>2. \A q \in Steps : Opened(q) => Opened(q)'
      BY <2>17, <2>26, OpenStays
    <3>3. \A t \in Steps : Preds[t] \subseteq Steps
      BY RunStateAssumption
    <3>4. WaitsHonoured'
      <4>1. ASSUME NEW t \in Steps, t # s,
                   run'.attempts[t] > 0 \/ t \in gates'.gated \/ timers'[t] # "none", NEW q \in Preds[t]
            PROVE  Opened(q)'
        BY <1>1, <2>10, <2>12, <3>1, <3>2, <3>3, <4>1 DEF OpenedInv, WaitsHonoured
      <4>2. ASSUME NEW q \in Preds[s] PROVE Opened(q)'
        BY <3>1, <3>2, <3>3, <4>2 DEF Fed
      <4> QED BY <4>1, <4>2 DEF WaitsHonoured
    <3>5. ASSUME NEW t \in Steps
          PROVE  /\ run'.terminal[t] = "succeeded" => Opened(t)'
                 /\ run'.terminal[t] = "failed" => run'.attempts[t] > 0 \/ t \in gates'.gated
      BY <2>10, <2>12, <3>1, <3>2 DEF OpenedInv
    <3> QED BY <3>4, <3>5 DEF OpenedInv
  <2>27. OnePerson /\ SlowPeople => SaidInv'
    BY <2>9, <2>10, <2>12, <2>16 DEF IInv, SaidInv
  <2> QED BY <2>18, <2>21, <2>22, <2>23, <2>24, <2>25, <2>26, <2>27 DEF IInv, OnePerson
<1> QED BY <1>2, <1>3

------------------------------------------------------------------------------
(* A person's decision is recorded.                                         *)

\* What recording the answer v to s did to the log.
Answered(s, v) ==
    /\ Appended(run', run) /\ (run'.closed = run.closed \/ run'.closed # "open")
    /\ \A t \in Steps : t # s => run'.terminal[t] = run.terminal[t]
    /\ \/ gates.asked[s] = "parks" /\ v = "approved" /\ run'.terminal = run.terminal
       \/ gates.asked[s] = "step" /\ v = "approved" /\ run'.terminal[s] = "succeeded"
       \/ v = "denied" /\ run'.terminal[s] = "failed" /\ run'.closed # "open"
    /\ gates' \in GatesRec /\ gates'.asked = gates.asked
    /\ gates'.decided[s] = v /\ \A t \in Steps : t # s => gates'.decided[t] = gates.decided[t]
    /\ \A t \in Steps : gates'.parked[t] = "none" <=> gates.parked[t] = "none"
    /\ \/ gates'.gated = gates.gated /\ gates'.resumed = gates.resumed
       \/ /\ gates.asked[s] = "parks"
          /\ gates'.gated = gates.gated \ {s} /\ gates'.resumed = gates.resumed \cup {s}

LEMMA Recording ==
    ASSUME TypeOK, NEW h \in People, DecideRecord(h), NEW s \in Steps, s = person[h].step,
           gates.asked[s] # "none"
    PROVE  \E v \in {"approved", "denied"} : Answered(s, v)
<1>1. run \in RunRec /\ gates \in GatesRec /\ person[h].approved \in BOOLEAN
      /\ gates.asked[s] \in {"step", "parks"}
  BY Types DEF LogTypes, WorkerTypes, PersonRec, GatesRec
<1>2. PICK v \in {"approved", "denied"} : v = IF person[h].approved THEN "approved" ELSE "denied"
  OBVIOUS
<1>3. PICK released \in BOOLEAN : released <=> person[h].approved /\ gates.asked[s] = "parks"
  <2>1. (person[h].approved /\ gates.asked[s] = "parks") \in BOOLEAN
    OBVIOUS
  <2> QED BY <2>1
<1>4. /\ gates' = [gates EXCEPT !.decided[s] = v,
                                !.parked[s]  = IF @ = "none" THEN @ ELSE "decided",
                                !.gated      = IF released THEN @ \ {s} ELSE @,
                                !.resumed    = IF released THEN @ \cup {s} ELSE @]
      /\ run' = IF released THEN run
                ELSE IF v = "approved" THEN FoldSucceeded(run, s)
                ELSE FoldClosed(FoldFailed(run, s), "failed")
  BY <1>1, <1>2, <1>3 DEF DecideRecord
<1>5. /\ gates' \in GatesRec /\ gates'.asked = gates.asked
      /\ gates'.decided = [gates.decided EXCEPT ![s] = v]
      /\ gates'.parked = [gates.parked EXCEPT ![s] = IF @ = "none" THEN @ ELSE "decided"]
      /\ gates'.gated = (IF released THEN gates.gated \ {s} ELSE gates.gated)
      /\ gates'.resumed = (IF released THEN gates.resumed \cup {s} ELSE gates.resumed)
  <2>1. /\ [gates.decided EXCEPT ![s] = v] \in [Steps -> {"none", "approved", "denied"}]
        /\ [gates.parked EXCEPT ![s] = IF @ = "none" THEN @ ELSE "decided"]
              \in [Steps -> {"none", "open", "decided"}]
        /\ (IF released THEN gates.gated \ {s} ELSE gates.gated) \in SUBSET Steps
        /\ (IF released THEN gates.resumed \cup {s} ELSE gates.resumed) \in SUBSET Steps
    BY <1>1 DEF GatesRec
  <2> QED BY <1>1, <1>4, <2>1 DEF GatesRec
<1>6. /\ gates'.decided[s] = v /\ \A t \in Steps : t # s => gates'.decided[t] = gates.decided[t]
      /\ \A t \in Steps : gates'.parked[t] = "none" <=> gates.parked[t] = "none"
  BY <1>1, <1>5 DEF GatesRec
<1>7. \/ gates'.gated = gates.gated /\ gates'.resumed = gates.resumed
      \/ /\ gates.asked[s] = "parks"
         /\ gates'.gated = gates.gated \ {s} /\ gates'.resumed = gates.resumed \cup {s}
  BY <1>3, <1>5
<1>8. /\ Appended(run', run) /\ (run'.closed = run.closed \/ run'.closed # "open")
      /\ \A t \in Steps : t # s => run'.terminal[t] = run.terminal[t]
      /\ \/ gates.asked[s] = "parks" /\ v = "approved" /\ run'.terminal = run.terminal
         \/ gates.asked[s] = "step" /\ v = "approved" /\ run'.terminal[s] = "succeeded"
         \/ v = "denied" /\ run'.terminal[s] = "failed" /\ run'.closed # "open"
  <2>1. CASE released
    <3>1. v = "approved" /\ gates.asked[s] = "parks" /\ run' = run
      BY <1>2, <1>3, <1>4, <2>1
    <3> QED BY <1>1, <3>1 DEF Appended
  <2>2. CASE ~released /\ v = "approved"
    <3>1. run' = FoldSucceeded(run, s) /\ gates.asked[s] = "step"
      BY <1>1, <1>2, <1>3, <1>4, <2>2
    <3>2. Appended(run', run) /\ run'.closed = run.closed
          /\ run'.terminal = [run.terminal EXCEPT ![s] = "succeeded"]
      BY <1>1, <3>1, VerdictFolds
    <3> QED BY <1>1, <2>2, <3>1, <3>2 DEF RunRec
  <2>3. CASE v = "denied"
    <3>1. ~released
      BY <1>2, <1>3, <2>3
    <3>2. PICK m : m = FoldFailed(run, s)
      OBVIOUS
    <3>3. Appended(m, run) /\ m.terminal = [run.terminal EXCEPT ![s] = "failed"]
      BY <1>1, <3>2, VerdictFolds
    <3>4. run' = FoldClosed(m, "failed")
      BY <1>4, <2>3, <3>1, <3>2
    <3>5. m \in RunRec
      BY <3>3 DEF Appended
    <3>6. Appended(run', m) /\ run'.terminal = m.terminal /\ run'.closed # "open"
      BY <3>4, <3>5, ClosedFold
    <3> QED BY <1>1, <2>3, <3>3, <3>6 DEF RunRec, Appended
  <2> QED BY <2>1, <2>2, <2>3
<1> QED BY <1>5, <1>6, <1>7, <1>8 DEF Answered

LEMMA DecideRecordStep ==
    ASSUME IInv, NEW h \in People, DecideRecord(h)
    PROVE  IInv'
<1>0. TypeOK /\ LogTypes /\ WorkerTypes /\ StateTypes
  BY Types DEF IInv, TypeOK, StateTypes
<1>1. /\ UNCHANGED <<realised, timers, leases, pass, jobs, sweep, faults, bodies, verdicts, fired, acted>>
      /\ person[h] # NoDecision /\ person' = [person EXCEPT ![h] = NoDecision]
      /\ decisions' = [decisions EXCEPT ![person[h].step] = @ + 1]
  BY DEF DecideRecord
<1>2. PersonOK(person[h])
  BY DEF IInv, WorkersInv
<1>3. PICK s \in Steps : s = person[h].step
  BY <1>1, <1>2 DEF PersonOK
<1>4. gates.asked[s] # "none" /\ (OnePerson => gates.decided[s] = "none")
  BY <1>1, <1>2, <1>3 DEF PersonOK
<1>5. PICK v \in {"approved", "denied"} : Answered(s, v)
  BY <1>0, <1>3, <1>4, Recording
<1>6. gates.asked[s] \in {"step", "parks"}
  BY <1>0, <1>4 DEF LogTypes, GatesRec
<1>7. /\ gates.asked[s] = "step" => Kind[s] = "approval" /\ s \in gates.gated
      /\ gates.asked[s] = "parks" => Kind[s] = "agent" /\ run.attempts[s] > 0
  BY DEF IInv, GateInv
<1>8. /\ person' \in [People -> PersonRec] /\ person'[h] = NoDecision
      /\ \A i \in People : i # h => person'[i] = person[i]
  BY <1>0, <1>1, Idle, OneAnswer
<1>9. decisions' \in [Steps -> Nat] /\ decisions[s] \in Nat /\ decisions'[s] = decisions[s] + 1
      /\ \A t \in Steps : t # s => decisions'[t] = decisions[t]
  BY <1>0, <1>1, <1>3 DEF StateTypes
<1>10. /\ run' \in RunRec /\ run'.pinned = run.pinned /\ run'.attempts = run.attempts
       /\ lease' = lease /\ lastFence' = lastFence
  BY <1>1, <1>5 DEF Answered, Appended, leases
<1>11. Forward
  <2>1. lastFence \in Nat /\ \A t \in Steps : run.attempts[t] \in Nat
    BY <1>0 DEF LogTypes, RunRec, StateTypes
  <2>2. \A t \in Steps : Kind[t] = "engine" => run'.terminal[t] = run.terminal[t]
    BY <1>5, <1>6, <1>7 DEF Answered
  <2>3. \A t \in Steps :
            /\ gates.asked[t] # "none" => gates'.asked[t] # "none"
            /\ gates.decided[t] # "none" => gates'.decided[t] # "none"
            /\ gates.parked[t] # "none" => gates'.parked[t] # "none"
            /\ OnePerson /\ gates.decided[t] = "approved" => gates'.decided[t] = "approved"
    BY <1>4, <1>5 DEF Answered
  <2> QED BY <1>1, <1>10, <2>1, <2>2, <2>3 DEF Forward
<1>12. TypeOK'
  <2>1. LogTypes'
    BY <1>0, <1>5, <1>10 DEF LogTypes, Answered
  <2>2. WorkerTypes'
    BY <1>0, <1>1, <1>8 DEF WorkerTypes
  <2>3. StateTypes'
    BY <1>0, <1>1, <1>9, <1>10 DEF StateTypes
  <2> QED BY <2>1, <2>2, <2>3, TypesThen
<1>13. WorkersInv'
  <2>1. GatesLeft
    <3>1. Shut(s)
      BY <1>1, <1>3 DEF Shut
    <3>2. ASSUME NEW t \in Steps, t # s, Shut(t)' PROVE Shut(t)
      BY <1>5, <1>8, <3>2 DEF Shut, Answered
    <3> QED BY <3>1, <3>2 DEF GatesLeft
  <2>2. ASSUME NEW t \in Steps, NEW j PROVE Undisturbed(t, j)
    BY <1>1, <1>5, <1>10 DEF Undisturbed, Answered
  <2>3. \A i \in People : person'[i] = NoDecision \/ (person'[i] = person[i] /\ ~OnePerson)
    BY <1>8 DEF OnePerson
  <2> QED BY <1>1, <1>10, <1>11, <1>12, <2>1, <2>2, <2>3, WorkersStep
<1>14. OwnFences' /\ BodiesInv'
  BY <1>1, <1>10 DEF IInv, OwnFences, BodiesInv, OneBodyPerAttempt, VerdictOfItsAttempt
<1>15. GateInv'
  <2>1. ASSUME NEW t \in Steps
        PROVE  /\ timers'[t] # "none" => Kind[t] = "timer"
               /\ timers'[t] # "fired" => fired'[t] = 0
               /\ gates'.asked[t] = "step" => Kind[t] = "approval" /\ t \in gates'.gated
               /\ gates'.asked[t] = "parks" => Kind[t] = "agent" /\ run'.attempts[t] > 0 /\ gates'.parked[t] # "none"
               /\ gates'.decided[t] # "none" => gates'.asked[t] # "none"
               /\ t \in gates'.resumed => gates'.asked[t] = "parks" /\ gates'.decided[t] # "none"
               /\ gates'.parked[t] # "none" => run'.attempts[t] > 0
    <3>1. /\ timers[t] # "none" => Kind[t] = "timer"
          /\ timers[t] # "fired" => fired[t] = 0
          /\ gates.asked[t] = "step" => Kind[t] = "approval" /\ t \in gates.gated
          /\ gates.asked[t] = "parks" => Kind[t] = "agent" /\ run.attempts[t] > 0 /\ gates.parked[t] # "none"
          /\ gates.decided[t] # "none" => gates.asked[t] # "none"
          /\ t \in gates.resumed => gates.asked[t] = "parks" /\ gates.decided[t] # "none"
          /\ gates.parked[t] # "none" => run.attempts[t] > 0
      BY DEF IInv, GateInv
    <3> QED BY <1>1, <1>4, <1>5, <1>10, <3>1 DEF Answered
  <2> QED BY <2>1 DEF GateInv
<1>16. ASSUME OnePerson PROVE DecidedInv'
  <2>1. DecidedInv /\ gates.decided[s] = "none"
    BY <1>4, <1>16 DEF IInv
  <2>2. decisions[s] = 0 /\ acted[s] = 0 /\ (OneShot(s) => run.attempts[s] <= 1)
    <3>1. acted[s] \in Nat
      BY <1>0 DEF StateTypes
    <3> QED BY <2>1, <3>1 DEF DecidedInv
  <2>3. run.attempts[s] \in Nat
    BY <1>0 DEF LogTypes, RunRec
  <2>4. /\ gates'.decided[s] # "none" /\ decisions'[s] <= 1 /\ acted'[s] = 0
        /\ OneShot(s) => run'.attempts[s] <= 1
    BY <1>1, <1>5, <1>9, <1>10, <2>2 DEF Answered
  <2>5. ASSUME NEW t \in Steps, t # s
        PROVE  /\ gates'.decided[t] = "none" => decisions'[t] = 0
               /\ decisions'[t] <= 1
               /\ acted'[t] > 0 => Kind[t] = "agent" /\ gates'.decided[t] = "approved"
               /\ OneShot(t) =>
                     /\ run'.attempts[t] <= 2 /\ acted'[t] <= 1
                     /\ gates'.decided[t] = "none" => run'.attempts[t] <= 1
                     /\ run'.attempts[t] = 2 => t \notin gates'.resumed
                     /\ run'.attempts[t] <= 1 => acted'[t] = 0
    <3>1. gates'.decided[t] = gates.decided[t] /\ (t \in gates'.resumed => t \in gates.resumed)
      BY <1>5, <2>5 DEF Answered
    <3> QED BY <1>1, <1>9, <1>10, <2>1, <2>5, <3>1 DEF DecidedInv
  <2>6. OneShot(s) =>
            /\ run'.attempts[s] <= 2 /\ acted'[s] <= 1
            /\ gates'.decided[s] = "none" => run'.attempts[s] <= 1
            /\ run'.attempts[s] = 2 => s \notin gates'.resumed
            /\ run'.attempts[s] <= 1 => acted'[s] = 0
    BY <1>10, <2>3, <2>4
  <2>7. ~(acted'[s] > 0)
    BY <2>4
  <2> QED BY <2>4, <2>5, <2>6, <2>7 DEF DecidedInv, OneShot
<1>17. ASSUME OnePerson PROVE OpenedInv'
  <2>1. OpenedInv
    BY <1>17 DEF IInv
  <2>2. \A q \in Steps : Opened(q) => Opened(q)'
    BY <1>11, <1>17, OpenStays
  <2>3. \A t \in Steps : Preds[t] \subseteq Steps
    BY RunStateAssumption
  <2>4. gates'.gated \subseteq gates.gated
    BY <1>5 DEF Answered
  <2>5. WaitsHonoured'
    BY <1>1, <1>10, <2>1, <2>2, <2>3, <2>4 DEF OpenedInv, WaitsHonoured
  <2>6. run'.terminal[s] = "succeeded" => Opened(s)'
    <3>1. CASE gates.asked[s] = "step" /\ v = "approved"
      <4>1. Kind[s] = "approval" /\ gates'.decided[s] = "approved"
        BY <1>5, <1>7, <3>1 DEF Answered
      <4> QED BY <4>1 DEF Opened, Hosted
    <3>2. CASE run'.terminal = run.terminal
      BY <2>1, <2>2, <3>2 DEF OpenedInv
    <3> QED BY <1>5, <3>1, <3>2 DEF Answered
  <2>7. run'.attempts[s] > 0 \/ s \in gates'.gated
    BY <1>5, <1>6, <1>7, <1>10 DEF Answered
  <2>8. ASSUME NEW t \in Steps, t # s
        PROVE  /\ run'.terminal[t] = "succeeded" => Opened(t)'
               /\ run'.terminal[t] = "failed" => run'.attempts[t] > 0 \/ t \in gates'.gated
    <3>1. run'.terminal[t] = run.terminal[t] /\ (t \in gates.gated => t \in gates'.gated)
      BY <1>5, <2>8 DEF Answered
    <3> QED BY <1>10, <2>1, <2>2, <3>1 DEF OpenedInv
  <2> QED BY <2>5, <2>6, <2>7, <2>8 DEF OpenedInv
<1>18. ASSUME OnePerson, SlowPeople PROVE SaidInv'
  <2>1. SaidInv
    BY <1>18 DEF IInv
  <2>2. ASSUME NEW t \in Steps, t # s, Kind[t] = "approval"
        PROVE  /\ gates'.decided[t] = "approved" => run'.terminal[t] = "succeeded"
               /\ gates'.decided[t] = "denied" => run'.terminal[t] = "failed" /\ run'.closed # "open"
               /\ gates'.decided[t] = "none" => run'.terminal[t] = "none"
    <3>1. /\ run'.terminal[t] = run.terminal[t] /\ gates'.decided[t] = gates.decided[t]
          /\ run'.closed = run.closed \/ run'.closed # "open"
      BY <1>5, <2>2 DEF Answered
    <3> QED BY <2>1, <2>2, <3>1 DEF SaidInv
  <2>3. ASSUME Kind[s] = "approval"
        PROVE  /\ gates'.decided[s] = "approved" => run'.terminal[s] = "succeeded"
               /\ gates'.decided[s] = "denied" => run'.terminal[s] = "failed" /\ run'.closed # "open"
               /\ gates'.decided[s] # "none"
    BY <1>5, <1>7, <2>3 DEF Answered
  <2> QED BY <2>2, <2>3 DEF SaidInv
<1> QED BY <1>12, <1>13, <1>14, <1>15, <1>16, <1>17, <1>18 DEF IInv, OnePerson

------------------------------------------------------------------------------
(* The invariant holds.                                                     *)

LEMMA InitIInv == Init => IInv
<1> SUFFICES ASSUME Init PROVE IInv
  OBVIOUS
<1>1. PICK revision \in Pipelines : run = NewRun(revision)
  BY DEF Init
<1>2. revision \in SUBSET Steps
  BY BuiltinsAssumption
<1>3. /\ gates = [gated |-> {}, resumed |-> {},
                  asked |-> [s \in Steps |-> "none"],
                  decided |-> [s \in Steps |-> "none"],
                  parked |-> [s \in Steps |-> "none"]]
      /\ realised = [s \in Steps |-> 0] /\ timers = [s \in Steps |-> "none"]
      /\ lease = [s \in Steps |-> [fence |-> 0, attempt |-> 0]] /\ lastFence = 0
      /\ pass = [p \in Planes |-> NoPass] /\ jobs = [p \in Planes |-> [s \in Steps |-> NoJob]]
      /\ sweep = [p \in Planes |-> NoOrphan] /\ person = [h \in People |-> NoDecision]
      /\ faults = 0 /\ bodies = {} /\ verdicts = {}
      /\ fired = [s \in Steps |-> 0] /\ decisions = [s \in Steps |-> 0] /\ acted = [s \in Steps |-> 0]
  BY DEF Init
<1>4. /\ run \in RunRec /\ run.pinned = revision
      /\ \A s \in Steps : run.attempts[s] = 0 /\ run.terminal[s] = "none"
  BY <1>1, <1>2 DEF NewRun, RunRec, Verdicts, Endings
<1>5. /\ gates \in GatesRec /\ gates.gated = {} /\ gates.resumed = {}
      /\ \A s \in Steps : gates.asked[s] = "none" /\ gates.decided[s] = "none" /\ gates.parked[s] = "none"
  BY <1>3 DEF GatesRec
<1>6. TypeOK
  <2>1. LogTypes
    BY <1>4, <1>5 DEF LogTypes
  <2>2. WorkerTypes
    BY <1>3, Idle DEF WorkerTypes
  <2>3. StateTypes
    BY <1>3 DEF StateTypes
  <2> QED BY <2>1, <2>2, <2>3 DEF TypeOK, LogTypes, WorkerTypes, StateTypes,
                                  RunRec, GatesRec, PassRec, JobRec, SweepRec, PersonRec
<1>7. GateInv
  BY <1>3, <1>4, <1>5 DEF GateInv
<1>8. WorkersInv
  <2>1. \A p \in Planes : PassOK(pass[p]) /\ SweepOK(sweep[p])
    BY <1>3, Idle DEF PassOK, SweepOK
  <2>2. \A p \in Planes, s \in Steps : JobOK(s, jobs[p][s])
    BY <1>3, <1>6, DropOK
  <2>3. \A s \in Steps : LeaseOK(s)
    BY <1>3 DEF LeaseOK
  <2>4. \A h \in People : PersonOK(person[h])
    BY <1>3 DEF PersonOK
  <2> QED BY <2>1, <2>2, <2>3, <2>4 DEF WorkersInv
<1>9. OwnFences
  BY <1>3, Idle DEF OwnFences
<1>10. BodiesInv
  BY <1>3 DEF BodiesInv, OneBodyPerAttempt, VerdictOfItsAttempt
<1>11. DecidedInv
  BY <1>3, <1>4, <1>5 DEF DecidedInv
<1>12. OpenedInv
  BY <1>3, <1>4, <1>5 DEF OpenedInv, WaitsHonoured
<1>13. SaidInv
  BY <1>4, <1>5 DEF SaidInv
<1> QED BY <1>6, <1>7, <1>8, <1>9, <1>10, <1>11, <1>12, <1>13 DEF IInv

LEMMA Stutter == IInv /\ UNCHANGED vars => IInv'
<1> SUFFICES ASSUME IInv, UNCHANGED vars PROVE IInv'
  OBVIOUS
<1>1. UNCHANGED <<run, gates, timers, realised, leases, pass, jobs, sweep, person, faults, history>>
  BY DEF vars, log, workers
<1>2. faults \in Nat /\ realised \in [Steps -> Nat]
  BY DEF IInv, TypeOK
<1>3. WorkerTypes' /\ GatesLeft
  BY <1>1, Types, GatesAsTheyWere DEF IInv, WorkerTypes
<1>4. /\ \A p \in Planes : pass'[p] = pass[p] /\ sweep'[p] = sweep[p]
      /\ \A p \in Planes, s \in Steps : jobs'[p][s] = jobs[p][s]
      /\ \A h \in People : person'[h] = person[h]
  BY <1>1
<1>5. \A p \in Planes, s \in Steps : jobs'[p][s].fence \in {0, jobs[p][s].fence}
  BY <1>4
<1> QED BY <1>1, <1>2, <1>3, <1>4, <1>5, RunUnchanged, QuietStep

LEMMA NextIInv == IInv /\ [Next]_vars => IInv'
<1> SUFFICES ASSUME IInv, [Next]_vars PROVE IInv'
  OBVIOUS
<1>1. ASSUME NEW p \in Planes, PassStep(p) PROVE IInv'
  BY <1>1, AdvanceLoadStep, CloseRunStep, ArmStep, TakeStep, EngineRunsStep DEF PassStep
<1>2. ASSUME NEW p \in Planes, SweepStep(p) PROVE IInv'
  BY <1>2, ExpireStep, OrphanLoadStep, OrphanAppendStep DEF SweepStep
<1>3. ASSUME NEW p \in Planes, NEW s \in Steps, JobStep(p, s) PROVE IInv'
  <2>1. CASE Request(p, s) \/ Claim(p, s) \/ Reread(p, s) \/ Dispatch(p, s)
    BY <2>1, RequestStep, ClaimStep, RereadStep, DispatchStep
  <2>2. CASE \/ LoseLease(p, s) \/ CallModel(p, s) \/ RunAgent(p, s) \/ AgentEnds(p, s)
             \/ Realise(p, s) \/ RecordFragment(p, s)
    BY <2>2, BodySteps
  <2>3. CASE GiveUp(p, s) \/ End(p, s) \/ Iterate(p, s)
    BY <2>3, GiveUpStep, EndStep, IterateStep
  <2>4. CASE ResumeAgent(p, s) \/ Park(p, s) \/ AskPark(p, s)
    BY <2>4, ResumeAgentStep, ParkStep, AskParkStep
  <2> QED BY <1>3, <2>1, <2>2, <2>3, <2>4 DEF JobStep
<1>4. ASSUME NEW h \in People, PersonStep(h) PROVE IInv'
  BY <1>4, DecideReadStep, DecideRecordStep DEF PersonStep
<1>5. ASSUME NEW p \in Planes, Crash(p) PROVE IInv'
  BY <1>5, CrashStep
<1>6. ASSUME NEW s \in Steps, BecomeDue(s) \/ Due(s) PROVE IInv'
  BY <1>6, BecomeDueStep, DueStep
<1>7. CASE Cancel
  BY <1>7, CancelStep
<1>8. CASE UNCHANGED vars
  BY <1>8, Stutter
<1> QED BY <1>1, <1>2, <1>3, <1>4, <1>5, <1>6, <1>7, <1>8 DEF Next

(***************************************************************************)
(* The log, the leases and what the planes and the people hold in hand     *)
(* agree, whatever the planes, the crashes and the late renewals.          *)
(***************************************************************************)
THEOREM BuiltinsAgree == Spec => []IInv
<1> QED BY InitIInv, NextIInv, PTL DEF Spec

(***************************************************************************)
(* Every variable keeps its type.                                          *)
(***************************************************************************)
THEOREM BuiltinsTypeOK == Spec => []TypeOK
<1>1. IInv => TypeOK
  BY DEF IInv
<1> QED BY <1>1, BuiltinsAgree, PTL

(***************************************************************************)
(* One attempt of a hosted step is dispatched by one job of one plane: the *)
(* log is read again under the claim, and the transaction of the dispatch  *)
(* validates the fence last.                                               *)
(***************************************************************************)
THEOREM AttemptsHaveOneBody == Spec => []OneBodyPerAttempt
<1>1. IInv => OneBodyPerAttempt
  BY DEF IInv, BodiesInv
<1> QED BY <1>1, BuiltinsAgree, PTL

(***************************************************************************)
(* A job's fenced verdict is recorded while its own attempt is the one in  *)
(* the log: while the lease carries its fence nobody else adds an attempt. *)
(***************************************************************************)
THEOREM VerdictsAreOfTheirAttempt == Spec => []VerdictOfItsAttempt
<1>1. IInv => VerdictOfItsAttempt
  BY DEF IInv, BodiesInv
<1> QED BY <1>1, BuiltinsAgree, PTL

(***************************************************************************)
(* While nobody answers a gate another is answering, no step is armed,     *)
(* asked about or dispatched before everything feeding it is through,      *)
(* however stale the pass that found it ready.                             *)
(***************************************************************************)
THEOREM WaitsAreHonoured == ASSUME OnePerson PROVE Spec => []WaitsHonoured
<1>1. IInv => WaitsHonoured
  BY DEF IInv, OpenedInv
<1> QED BY <1>1, BuiltinsAgree, PTL

(***************************************************************************)
(* While nobody answers a gate another is answering, or one that a pass or *)
(* a queued job still takes for shut, what a person said stands: a gate    *)
(* has one decision, its step's verdict is the one it implies, and the     *)
(* call an agent parked at is made once, after its approval.               *)
(***************************************************************************)
THEOREM DecisionsStand == ASSUME OnePerson, SlowPeople PROVE Spec => []DecisionStands
<1>1. ASSUME IInv PROVE DecisionStands
  <2>1. TypeOK /\ DecidedInv /\ SaidInv
    BY <1>1 DEF IInv
  <2>2. ASSUME NEW s \in Steps
        PROVE  /\ decisions[s] <= 1
               /\ s \notin Repeatable => acted[s] <= 1
               /\ acted[s] > 0 => gates.decided[s] = "approved"
    <3>1. acted[s] \in Nat
      BY <2>1 DEF TypeOK
    <3>2. /\ decisions[s] <= 1 /\ (acted[s] > 0 => Kind[s] = "agent" /\ gates.decided[s] = "approved")
          /\ OneShot(s) => acted[s] <= 1
      BY <2>1 DEF DecidedInv
    <3> QED BY <3>1, <3>2 DEF OneShot
  <2>3. ASSUME NEW s \in Steps, Kind[s] = "approval"
        PROVE  CASE gates.decided[s] = "approved" -> run.terminal[s] = "succeeded"
                 [] gates.decided[s] = "denied" -> run.terminal[s] = "failed"
                 [] OTHER -> run.terminal[s] = "none"
    <3>1. gates.decided[s] \in {"none", "approved", "denied"}
      BY <2>1, Types DEF LogTypes, GatesRec
    <3> QED BY <2>1, <2>3, <3>1 DEF SaidInv
  <2> QED BY <2>2, <2>3 DEF DecisionStands
<1> QED BY <1>1, BuiltinsAgree, PTL
==============================================================================
