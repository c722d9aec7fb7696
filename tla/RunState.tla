------------------------------ MODULE RunState ------------------------------
(***************************************************************************)
(* What a control plane knows of a run: the fold of its event log          *)
(* (scheduler.load), and the decision made from it (plan, classify).       *)
(*                                                                         *)
(* The log is replayed from the start on every decision and the fold is    *)
(* deterministic, so the model keeps the fold instead of the log: to       *)
(* append an event is to apply its Fold operator. STEP_UNSCHEDULABLE,      *)
(* STEP_WAITING and STEP_READY decide nothing that is modelled here and    *)
(* are left out, as are gates, fragments and taint records.                *)
(***************************************************************************)
EXTENDS Integers, FiniteSets

CONSTANTS
    Steps,            \* the steps of every revision, numbered in the order of their ids
    Preds,            \* step -> the steps feeding it
    Repeatable,       \* the steps whose effect class is PURE or IDEMPOTENT
    MaxTries          \* dispatches a repeatable step is allowed (3 in the code)

ASSUME RunStateAssumption ==
    /\ Steps \subseteq Nat /\ IsFiniteSet(Steps)
    /\ Preds \in [Steps -> SUBSET Steps]
    /\ \A s \in Steps : \A p \in Preds[s] : p < s
    /\ Repeatable \subseteq Steps
    /\ MaxTries \in Nat \ {0, 1}

Verdicts == {"none", "succeeded", "failed"}
Endings == {"open", "completed", "failed"}

RunStates ==
    [pinned   : SUBSET Steps,        \* the steps of the revision the run was created with
     attempts : [Steps -> Nat],      \* the latest attempt dispatched
     fences   : [Steps -> Nat],      \* the fence that attempt went out under
     terminal : [Steps -> Verdicts],
     failedAt : SUBSET Steps,        \* the steps with a STEP_FAILED in the log
     awaiting : SUBSET Steps,        \* the steps recorded as awaiting a replay
     closed   : Endings]

\* The log of a run that holds nothing but RUN_CREATED, which pins a revision.
NewRun(revision) ==
    [pinned   |-> revision,
     attempts |-> [s \in Steps |-> 0],
     fences   |-> [s \in Steps |-> 0],
     terminal |-> [s \in Steps |-> "none"],
     failedAt |-> {}, awaiting |-> {}, closed |-> "open"]

------------------------------------------------------------------------------
(* load: one operator per event type. *)

\* STEP_DISPATCHED: a retry supersedes the verdict that justified it.
FoldDispatched(r, s, a, f) ==
    [r EXCEPT !.attempts[s] = IF a > @ THEN a ELSE @,
              !.fences[s]   = IF a >= r.attempts[s] THEN f ELSE @,
              !.terminal[s] = "none"]

FoldSucceeded(r, s) == [r EXCEPT !.terminal[s] = "succeeded"]

FoldFailed(r, s) ==
    [r EXCEPT !.terminal[s] = "failed", !.failedAt = @ \cup {s}]

\* STEP_ATTEMPT_LOST: out of flight, unless a later attempt is out already.
FoldLost(r, s, a) ==
    [r EXCEPT !.terminal[s] = IF a >= r.attempts[s] THEN "failed" ELSE @]

\* STEP_AWAITING_REPLAY, unique per step (migration 0021).
FoldAwaiting(r, s) == [r EXCEPT !.awaiting = @ \cup {s}]

\* RUN_COMPLETED or RUN_FAILED: a run's terminal event is unique, and a second
\* one is the no-op a redelivery is (migration 0020).
FoldClosed(r, how) == [r EXCEPT !.closed = IF @ = "open" THEN how ELSE @]

------------------------------------------------------------------------------
(* effects.RetryPolicy, and the readiness rule of plan and classify. The    *)
(* set `resting` holds the steps whose backoff has not elapsed yet.         *)

MaxAttempts(s) == IF s \in Repeatable THEN MaxTries ELSE 1

AllowsRetry(r, s) == MaxAttempts(s) > 1 /\ r.attempts[s] < MaxAttempts(s)

Failed(r) == {s \in r.pinned : r.terminal[s] = "failed"}

Blocked(r) == {s \in Failed(r) : ~AllowsRetry(r, s) /\ MaxAttempts(s) <= 1}

Exhausted(r) == {s \in Failed(r) : ~AllowsRetry(r, s) /\ MaxAttempts(s) > 1}

Retrying(r) == {s \in Failed(r) : AllowsRetry(r, s)}

InFlight(r) == {s \in r.pinned : r.terminal[s] = "none" /\ r.attempts[s] > 0}

Satisfied(r, s) == \A p \in Preds[s] : r.terminal[p] = "succeeded"

Ready(r, resting) ==
    (Retrying(r) \ resting) \cup
    {s \in r.pinned : r.terminal[s] = "none" /\ r.attempts[s] = 0 /\ Satisfied(r, s)}

\* Mutant: what is in flight does not keep a run open.
QuietNothingReady(r) == Ready(r, {}) = {}

\* Nothing ready, nothing in flight, nothing waiting for its backoff.
Quiet(r) == Ready(r, {}) = {} /\ InFlight(r) = {}
==============================================================================
