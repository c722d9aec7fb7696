------------------------------ MODULE Triggers ------------------------------
(***************************************************************************)
(* Event sources (internal/trigger, internal/server/triggers.go): the table *)
(* of stored triggers, what each plane runs of it, the row a schedule's     *)
(* planes share, the webhook endpoints, and the sink that turns an event    *)
(* into a run of the pipeline's active revision.                            *)
(*                                                                         *)
(* One tenant and one pipeline, and triggers that bind one of its inputs (a *)
(* trigger that binds none is never refused).  A stored row is a version:   *)
(* rows are created and deleted, never edited, so a changed fingerprint is  *)
(* another version under the same id.                                       *)
(***************************************************************************)
EXTENDS Integers, FiniteSets

CONSTANTS
    Planes,        \* control planes over one database
    Schedules,     \* ids of schedule triggers
    Hooks,         \* ids of webhook triggers, http or git
    Git,           \* the webhooks that verify a signature and taint always
    DeclaredOn,    \* per plane, the ids its --triggers file declares
    Port,          \* per revision, the input a trigger may bind: "string",
                   \* "object" (declared, and no event value fits) or "none"
    Period,        \* ticks between two boundaries of the cron expression
    Lease,         \* DefaultActiveLease in ticks
    MaxTime, MaxVersions, MaxFires, MaxFaults   \* bounds

ASSUME TriggersAssumption ==
    /\ Schedules \cap Hooks = {} /\ Git \subseteq Hooks
    /\ DeclaredOn \in [Planes -> SUBSET Hooks]
    /\ DOMAIN Port \subseteq Nat /\ 1 \in DOMAIN Port
    /\ Period \in Nat \ {0} /\ Lease \in Nat \ {0}
    /\ MaxTime \in Nat /\ MaxVersions \in Nat /\ MaxFires \in Nat /\ MaxFaults \in Nat

Ids == Schedules \cup Hooks
Revisions == DOMAIN Port
None == -1
NoRow == None
FileVer == 0   \* the version of what a --triggers file declares
Rows == 0 .. MaxVersions
NotLive == [ver |-> None, declared |-> FALSE, rev |-> None]

VARIABLES
    now,       \* the clock
    active,    \* the pipeline's active revision
    table,     \* the triggers table: per id, a row
    due,       \* trigger_schedules.due_at, None before the first poll
    mark,      \* trigger_schedules.active_at, None when clear
    up,        \* the planes that run
    live,      \* per plane and id, the liveTrigger
    mux,       \* per plane, the endpoints served
    loops,     \* per plane, the schedule loops that are not cancelled
    firing,    \* fires under way
    runs,      \* the runs started by triggers
    versions,  \* versions used up
    fires,     \* fires begun
    dropped,   \* history: the versions a plane has seen gone from the table
    overran,   \* history: some fire has outlasted the lease of its mark
    faults     \* faults left

vars == <<now, active, table, due, mark, up, live, mux, loops, firing, runs,
          versions, fires, dropped, overran, faults>>
rowVars == <<due, mark, overran>>
planeVars == <<up, live, mux, loops, dropped>>
counts == <<fires, faults>>

TypeOK ==
    /\ now \in 0 .. MaxTime /\ active \in Revisions
    /\ table \in [Ids -> Rows \cup {NoRow}]
    /\ due \in [Schedules -> {None} \cup 1 .. MaxTime + Period]
    /\ mark \in [Schedules -> {None} \cup 0 .. MaxTime]
    /\ up \subseteq Planes
    /\ live \in [Planes -> [Ids -> [ver : Rows \cup {None}, declared : BOOLEAN,
                                   rev : Revisions \cup {None}]]]
    /\ mux \in [Planes -> SUBSET (Hooks \X Rows \X Revisions)]
    /\ loops \in [Planes -> SUBSET (Schedules \X Rows)]
    /\ firing \subseteq [plane : Planes, id : Ids, ver : Rows, occ : Int, at : Int,
                         stage : {"fired", "checked", "done"}, rev : Revisions \cup {None},
                         cancelled : BOOLEAN, ghost : BOOLEAN]
    /\ runs \subseteq [id : Ids, occ : Int, at : Int, rev : Revisions \cup {None}, ghost : BOOLEAN]
    /\ dropped \in [Planes -> SUBSET (1 .. MaxVersions)]
    /\ overran \in BOOLEAN
    /\ versions \in 0 .. MaxVersions /\ fires \in 0 .. MaxFires /\ faults \in 0 .. MaxFaults

-----------------------------------------------------------------------------
(* ValidateBinding: the pipeline declares the input, as a structured port.  *)
ValidateBinding(rev) == Port[rev] # "none"

(* ValidateInputs: the values the event produced fit their ports.           *)
ValidateInputs(rev) == Port[rev] = "string"

(* spec.Next: the first boundary after t.                                   *)
NextDue(t) == ((t \div Period) + 1) * Period

(* rebuildTriggerMuxLocked: the endpoints are those of what is live.        *)
MuxOf(l) == {<<id, l[id].ver, l[id].rev>> : id \in {h \in Hooks : l[h] # NotLive}}

Init ==
    /\ now = 0 /\ active = 1
    /\ table = [id \in Ids |-> NoRow]
    /\ due = [s \in Schedules |-> None] /\ mark = [s \in Schedules |-> None]
    /\ up = {}
    /\ live = [p \in Planes |-> [id \in Ids |-> NotLive]]
    /\ mux = [p \in Planes |-> {}] /\ loops = [p \in Planes |-> {}]
    /\ firing = {} /\ runs = {} /\ versions = 0 /\ fires = 0
    /\ dropped = [p \in Planes |-> {}]
    /\ overran = FALSE /\ faults = MaxFaults

-----------------------------------------------------------------------------
(* Operators and editors.                                                   *)

Approve(r) ==
    /\ r > active /\ active' = r
    /\ UNCHANGED <<now, table, rowVars, planeVars, firing, runs, versions, counts>>

(* The store: Create under the primary key, List, Delete.  A deleted        *)
(* schedule leaves its row of trigger_schedules behind.                     *)
Create(id) == table[id] = NoRow /\ table' = [table EXCEPT ![id] = versions + 1]
List == table
Delete(id) == List[id] # NoRow /\ table' = [table EXCEPT ![id] = NoRow]

(* What this process's --triggers file declares is not the API's to change. *)
Declares(p, id) == id \in DeclaredOn[p]

(* CreateTrigger: the binding is checked against the active revision.       *)
CreateTrigger(p, id) ==
    /\ p \in up /\ ~Declares(p, id) /\ versions < MaxVersions
    /\ ValidateBinding(active)
    /\ Create(id)
    /\ versions' = versions + 1
    /\ UNCHANGED <<now, active, rowVars, planeVars, firing, runs, counts>>

DeleteTrigger(p, id) ==
    /\ p \in up /\ ~Declares(p, id)
    /\ Delete(id)
    /\ UNCHANGED <<now, active, rowVars, planeVars, firing, runs, versions, counts>>

-----------------------------------------------------------------------------
(* Planes: start, reconcile, stop.                                          *)

(* startTrigger against the active revision: a loop for a schedule, an      *)
(* endpoint for a webhook, and nothing where the binding is refused.        *)
StartTrigger(ver, declared) ==
    IF ValidateBinding(active)
    THEN [ver |-> ver, declared |-> declared, rev |-> active]
    ELSE NotLive

(* startTriggers: every declared trigger or none, and a plane that cannot   *)
(* start one does not start.                                                *)
StartPlane(p) ==
    /\ p \notin up
    /\ LET l == [id \in Ids |-> IF Declares(p, id)
                                THEN StartTrigger(FileVer, TRUE)
                                ELSE NotLive]
       IN  /\ \A id \in DeclaredOn[p] : l[id] # NotLive
           /\ live' = [live EXCEPT ![p] = l]
           /\ mux' = [mux EXCEPT ![p] = MuxOf(l)]
    /\ up' = up \cup {p}
    /\ UNCHANGED <<now, active, table, rowVars, loops, dropped, firing, runs,
                   versions, counts>>

\* Mutant: a trigger that is stopped keeps its loop and its endpoint.
AfterStopLeaky(p, l) ==
    /\ mux' = [mux EXCEPT ![p] = @ \cup MuxOf(l)]
    /\ loops' = [loops EXCEPT ![p] =
          @ \cup {<<s, l[s].ver>> : s \in {x \in Schedules : l[x] # NotLive}}]

(* startTrigger and stopTrigger leave the endpoints and the loops of what   *)
(* is live: a loop that is stopped is cancelled.                            *)
AfterStop(p, l) ==
    /\ mux' = [mux EXCEPT ![p] = MuxOf(l)]
    /\ loops' = [loops EXCEPT ![p] =
          {<<s, l[s].ver>> : s \in {x \in Schedules : l[x] # NotLive}}]

(* reconcileTriggers: a declared trigger is left alone, an unchanged one    *)
(* too, a changed one is stopped and started, a missing one is stopped.     *)
(* The pass is one step at its read of the table: only the plane's own      *)
(* reconciler changes what is live there, and a row that changes during the *)
(* pass is found by the next one.                                           *)
Reconcile(p) ==
    /\ p \in up
    /\ LET wanted == List
           l == [id \in Ids |->
                   CASE live[p][id].declared -> live[p][id]
                     [] ~live[p][id].declared /\ wanted[id] = NoRow -> NotLive
                     [] ~live[p][id].declared /\ wanted[id] # NoRow
                           /\ live[p][id].ver = wanted[id] -> live[p][id]
                     [] OTHER -> StartTrigger(wanted[id], FALSE)]
           gone == {v \in 1 .. versions : \A id \in Ids : wanted[id] # v}
       IN  /\ live' = [live EXCEPT ![p] = l]
           /\ AfterStop(p, l)
           /\ dropped' = [dropped EXCEPT ![p] = @ \cup {v \in gone :
                             \E id \in Ids : live[p][id].ver = v}]
           /\ firing' = {IF f.plane = p /\ f.id \in Schedules /\ l[f.id].ver # f.ver
                         THEN [f EXCEPT !.cancelled = TRUE] ELSE f : f \in firing}
    /\ UNCHANGED <<now, active, table, rowVars, up, runs, versions, counts>>

(* A plane stops.  In a crash the fires under way end where they are; in    *)
(* Stop, with stopAllTriggers, they go on under a cancelled context.        *)
StopPlane(p) ==
    /\ p \in up /\ faults > 0 /\ faults' = faults - 1
    /\ up' = up \ {p}
    /\ live' = [live EXCEPT ![p] = [id \in Ids |-> NotLive]]
    /\ mux' = [mux EXCEPT ![p] = {}] /\ loops' = [loops EXCEPT ![p] = {}]
    /\ \/ firing' = {f \in firing : f.plane # p}
       \/ firing' = {IF f.plane = p THEN [f EXCEPT !.cancelled = TRUE] ELSE f : f \in firing}
    /\ UNCHANGED <<now, active, table, rowVars, dropped, runs, versions, fires>>

-----------------------------------------------------------------------------
(* Fires.                                                                   *)

Fire(p, id, ver, occ) ==
    [plane |-> p, id |-> id, ver |-> ver, occ |-> occ, at |-> IF occ = None THEN None ELSE now,
     stage |-> "fired", rev |-> None, cancelled |-> FALSE,
     ghost |-> ver \in dropped[p]]

(* skip: the occurrence is passed over; the mark belongs to the run still   *)
(* in flight and stays.                                                     *)
Skip(s) ==
    /\ due' = [due EXCEPT ![s] = NextDue(now)]
    /\ UNCHANGED mark

\* Mutant: the next occurrence is the boundary after the one just served.
TakeOneBoundary(s) ==
    /\ due' = [due EXCEPT ![s] = NextDue(due[s])]
    /\ mark' = [mark EXCEPT ![s] = now]

(* take: the row moves past everything that has elapsed, and is marked, in  *)
(* the transaction of the claim.                                            *)
Take(s) ==
    /\ due' = [due EXCEPT ![s] = NextDue(now)]
    /\ mark' = [mark EXCEPT ![s] = now]

(* seed: the first poll sets the clock and fires nothing.                   *)
Seed(s) == due' = [due EXCEPT ![s] = NextDue(now)] /\ UNCHANGED mark

(* row: due, and busy while the mark of an earlier fire is within its lease.*)
Due(s) == due[s] # None /\ due[s] =< now
Busy(s) == mark[s] # None /\ now - mark[s] < Lease

(* claim, in one transaction: seed, skip or take.  A row another plane has  *)
(* locked is not waited for, which is no step.                              *)
Claim(s) ==
    \/ due[s] = None /\ Seed(s)
    \/ Due(s) /\ Busy(s) /\ Skip(s)
    \/ Due(s) /\ ~Busy(s) /\ Take(s)

(* Tick: one poll of a schedule.  What is taken is fired.                   *)
PollSchedule(p) ==
    \E loop \in loops[p] :
        LET s == loop[1] IN
        /\ Claim(s)
        /\ IF Due(s) /\ ~Busy(s)
           THEN /\ fires < MaxFires /\ fires' = fires + 1
                /\ firing' = firing \cup {Fire(p, s, loop[2], due[s])}
           ELSE UNCHANGED <<firing, fires>>
        /\ UNCHANGED <<now, active, table, planeVars, runs, versions, overran, faults>>

(* What may be wrong with a delivery: one thing, or nothing.                *)
Defects == {"not a post", "too large", "not an object", "field missing",
            "no event header", "unsigned", "not a push"}
Deliveries == {{}} \cup {{x} : x \in Defects}

(* ReadBounded: the body is read up to the limit and no further.            *)
ReadBounded(d) == "too large" \notin d

(* inputs: every field the binding names is in the payload.                 *)
Mapped(d) == "field missing" \notin d

(* identify and verifySignature: the forge's own headers name the event,    *)
(* and the signature covers the raw body.                                   *)
Identify(d) == "no event header" \notin d
VerifySignature(d) == "unsigned" \notin d

(* parse: the payload of a push, once it is known whose it is.              *)
Parse(d) == "not an object" \notin d

(* The http endpoint: a POST, read, decoded, mapped.                        *)
HttpAccepts(d) ==
    "not a post" \notin d /\ ReadBounded(d) /\ Parse(d) /\ Mapped(d)

(* The git endpoint: an event other than a push is answered and dropped.    *)
GitAccepts(d) ==
    /\ "not a post" \notin d /\ Identify(d) /\ ReadBounded(d) /\ VerifySignature(d)
    /\ "not a push" \notin d /\ Parse(d) /\ Mapped(d)

(* serveTrigger and the handler of one endpoint: an accepted delivery whose *)
(* inputs fit the pipeline the trigger was configured with is fired.        *)
Deliver(p, d) ==
    \E e \in mux[p] :
        /\ IF e[1] \in Git THEN GitAccepts(d) ELSE HttpAccepts(d)
        /\ ValidateInputs(e[3])
        /\ fires < MaxFires /\ fires' = fires + 1
        /\ firing' = firing \cup {Fire(p, e[1], e[2], None)}
        /\ UNCHANGED <<now, active, table, rowVars, planeVars, runs, versions, faults>>

\* Mutant: the values were checked when the trigger was configured.
CheckTriggerInputsOnce(f) == TRUE

(* checkTriggerInputs, against the revision the run is about to pin.        *)
CheckTriggerInputs(f) == ValidateInputs(active)

(* Fire has returned: a schedule still has its mark to clear.               *)
Returned(f) ==
    IF f.id \in Schedules THEN {[f EXCEPT !.stage = "done", !.rev = None]} ELSE {}

(* triggerSink: the active revision is resolved now and the values checked  *)
(* against it.  A refusal starts nothing.                                   *)
ResolveActive(f) ==
    /\ f.stage = "fired" /\ ~f.cancelled
    /\ firing' = (firing \ {f}) \cup
          IF CheckTriggerInputs(f) THEN {[f EXCEPT !.stage = "checked", !.rev = active]}
                                   ELSE Returned(f)
    /\ UNCHANGED <<now, active, table, rowVars, planeVars, runs, versions, counts>>

(* SubmitWithInputs: admission, the revision pinned, RUN_CREATED appended.  *)
(* A context cancelled on the way may or may not reach the store in time.   *)
Submit(f) ==
    /\ f.stage = "checked"
    /\ runs' = runs \cup {[id |-> f.id, occ |-> f.occ, at |-> f.at, rev |-> f.rev,
                           ghost |-> f.ghost]}
    /\ firing' = (firing \ {f}) \cup Returned(f)
    /\ UNCHANGED <<now, active, table, rowVars, planeVars, versions, counts>>

(* A fire ends without a run: its context is cancelled, the store does not  *)
(* answer, a quota refuses.  The occurrence is not offered again.           *)
FireFails(f) ==
    /\ f.stage \in {"fired", "checked"}
    /\ \/ f.cancelled /\ UNCHANGED faults
       \/ ~f.cancelled /\ faults > 0 /\ faults' = faults - 1
    /\ firing' = (firing \ {f}) \cup Returned(f)
    /\ UNCHANGED <<now, active, table, rowVars, planeVars, runs, versions, fires>>

(* release: the schedule clears its mark, whosever it is by now.            *)
Release(f) ==
    /\ f.stage = "done"
    /\ mark' = [mark EXCEPT ![f.id] = None]
    /\ firing' = firing \ {f}
    /\ UNCHANGED <<now, active, table, due, overran, planeVars, runs, versions, counts>>

Tick ==
    /\ now < MaxTime /\ now' = now + 1
    /\ overran' = (overran \/ \E f \in firing : f.id \in Schedules /\ now + 1 - f.at >= Lease)
    /\ UNCHANGED <<active, table, due, mark, planeVars, firing, runs, versions, counts>>

Next ==
    \/ \E r \in Revisions : Approve(r)
    \/ \E p \in Planes :
          \/ \E id \in Ids : CreateTrigger(p, id)
          \/ \E id \in Ids : DeleteTrigger(p, id)
          \/ StartPlane(p) \/ Reconcile(p) \/ StopPlane(p)
          \/ PollSchedule(p) \/ \E d \in Deliveries : Deliver(p, d)
    \/ \E f \in firing : ResolveActive(f) \/ Submit(f) \/ FireFails(f) \/ Release(f)
    \/ Tick

Spec == Init /\ [][Next]_vars

-----------------------------------------------------------------------------
(* A missed window fires once: of two runs of one schedule, one is for a    *)
(* boundary that had not come when the other was claimed, whatever planes   *)
(* poll, stop, delete and create the trigger again in between.              *)
MissedWindowOnce ==
    \A r, o \in {x \in runs : x.id \in Schedules} :
        r.id = o.id /\ r # o => r.occ > o.at \/ o.occ > r.at

(* As long as no fire outlasts its lease, a schedule has one fire under way *)
(* over all planes, so an occurrence never overtakes the one before it.     *)
OneFireInFlight ==
    ~overran => \A s \in Schedules : Cardinality({f \in firing : f.id = s}) =< 1

(* The two together: a schedule runs once per missed window and in order,   *)
(* over every plane that polls its row.                                     *)
ScheduleHonoured == MissedWindowOnce /\ OneFireInFlight

(* What a trigger put on the ports of a run fits the revision the run has   *)
(* pinned, however old the configuration of the trigger is.                 *)
RunsFitTheirRevision == \A r \in runs : ValidateInputs(r.rev)

(* A plane that has seen a trigger gone from the table starts no run of it. *)
DeletedStaysSilent == \A r \in runs : ~r.ghost

=============================================================================
