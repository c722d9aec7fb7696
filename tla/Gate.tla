-------------------------------- MODULE Gate --------------------------------
(***************************************************************************)
(* The way of a ready step through one pass of a control plane, from the    *)
(* log it was read in to the dispatch it becomes (scheduler.permit and      *)
(* dispatch), and the secret handles it carries (internal/secrets): issued  *)
(* for one attempt, redeemed once by whichever plane answers, revoked when  *)
(* the attempt or its run ends.                                             *)
(*                                                                         *)
(* A pass is a process: planes, and the ticks and statuses of one plane,    *)
(* advance a run at the same time and share the log, the offers, the fleet  *)
(* and the handles. What a pass read at its start is kept in its record and *)
(* may be stale at every later step. The lease is reduced to the offer of   *)
(* an attempt: who holds it; module Lease has it whole.                     *)
(***************************************************************************)
EXTENDS Policy

CONSTANTS
    Passes,       \* the passes that may be under way at once
    Runs,
    Holdings,     \* pass -> the step secrets its plane was given
    Registered,   \* the instances that are there at the start
    Documents,    \* the policy documents an operator may install: sets of rules
    Tries,        \* bound: step -> how often it is dispatched
    MaxHandles,   \* bound: handles issued
    MaxFaults     \* bound: crashes, failing stores, expiries, changes of the fleet and the policy

Handles == 1 .. MaxHandles

ASSUME GateAssumption ==
    /\ Holdings \in [Passes -> SUBSET Secrets]
    /\ Registered \subseteq Engines
    /\ {} \notin Documents /\ Documents \subseteq SUBSET TierRules
    /\ Tries \in [Steps -> Nat \ {0}] /\ MaxHandles \in Nat \ {0} /\ MaxFaults \in Nat

VARIABLES
    log,       \* run -> the fold of its events: state, attempts, flying, done, sanitised, refused, stuck
    offer,     \* run -> step -> the pass that holds the offer of its next attempt, or "none"
    fleet,     \* instance -> the state of its record in the registry
    rules,     \* the tier's rules in force
    pass,      \* pass -> where it is, and what it read
    handle,    \* handle -> its fate, and the Record it was put with
    queue,     \* the dispatches that were committed, with the handles they carry
    reading,   \* redemptions that have read a record and not yet deleted it
    given,     \* values answered: <<handle, redemption>>
    owed,      \* revocations that an attempt's or a run's end still owes
    sweep,     \* the sweep: under way or not, the runs its listing saw, and those settled by then
    tidied,    \* the runs a sweep has been over since they were settled
    faults

vars == <<log, offer, fleet, rules, pass, handle, queue, reading, given, owed, sweep, tidied, faults>>

NewRun ==
    [state |-> "absent", attempts |-> [s \in Steps |-> 0], flying |-> [s \in Steps |-> 0],
     done |-> {}, sanitised |-> [s \in Steps |-> {}], refused |-> {}, stuck |-> [s \in Steps |-> ""]]

Idle == [at |-> "idle"]
NoRecord == [fate |-> "unissued"]
NoSweep == [on |-> FALSE, runs |-> {}, settled |-> {}]

Init ==
    /\ log = [r \in Runs |-> NewRun]
    /\ offer = [r \in Runs |-> [s \in Steps |-> "none"]]
    /\ fleet = [e \in Engines |-> IF e \in Registered THEN "ready" ELSE "registering"]
    /\ rules = {"default.permit"}
    /\ pass = [p \in Passes |-> Idle]
    /\ handle = [h \in Handles |-> NoRecord]
    /\ queue = {} /\ reading = {} /\ given = {} /\ owed = {}
    /\ sweep = NoSweep /\ tidied = {} /\ faults = MaxFaults

Live == {h \in Handles : handle[h].fate = "live"}

Reasons ==
    {"", "none registered", "draining", "none ready", "no such type", "no such capability",
     "no single engine"}
LogRecord ==
    [state : {"absent", "open", "closed"}, attempts : [Steps -> Nat], flying : [Steps -> Nat],
     done : SUBSET Steps, sanitised : [Steps -> SUBSET Triggers],
     refused : SUBSET (Steps \X {"policy", "secret"}), stuck : [Steps -> Reasons]]
Busy ==
    [at : {"permit", "place", "issue", "fail"}, run : Runs, step : Steps,
     attempt : Nat \ {0}, saw : [Steps -> SUBSET Triggers], ids : SUBSET Handles]
Record ==
    [fate : {"live", "spent", "dropped", "expired"}, run : Runs, step : Steps,
     attempt : Nat \ {0}, secret : Secrets]
Dispatch == [run : Runs, step : Steps, attempt : Nat \ {0}, ids : SUBSET Handles]
Filter == [run : Runs, step : Steps \cup {""}, attempt : Nat]

TypeOK ==
    /\ log \in [Runs -> LogRecord]
    /\ \A r \in Runs, s \in Steps :
          log[r].attempts[s] <= Tries[s] /\ log[r].flying[s] \in {0, log[r].attempts[s]}
    /\ offer \in [Runs -> [Steps -> {"none"} \cup Passes]]
    /\ fleet \in [Engines -> States] /\ rules \in SUBSET TierRules
    /\ pass \in [Passes -> {Idle} \cup Busy]
    /\ \A p \in Passes : pass[p] # Idle => pass[p].attempt <= Tries[pass[p].step]
    /\ handle \in [Handles -> {NoRecord} \cup Record]
    /\ queue \subseteq Dispatch /\ owed \subseteq Filter
    /\ reading \subseteq Engines \X Handles /\ given \subseteq Handles \X Engines
    /\ sweep \in [on : BOOLEAN, runs : SUBSET Runs, settled : SUBSET Runs]
    /\ tidied \subseteq Runs /\ faults \in 0 .. MaxFaults

--------------------------------------------------------------------------------
(* Handles.                                                                 *)

(* Filter.matches: what a filter leaves empty it does not compare.          *)
Matches(f, rec) ==
    /\ f.run = rec.run
    /\ f.step \in {"", rec.step}
    /\ f.attempt \in {0, rec.attempt}

(* Handles.Drop of what a filter selects: a record already gone is gone.    *)
Dropped(hs) == [h \in Handles |-> IF h \in hs /\ h \in Live
                                  THEN [handle[h] EXCEPT !.fate = "dropped"] ELSE handle[h]]

RevokeAttempt(r, s, a) ==
    Dropped({h \in Live : Matches([run |-> r, step |-> s, attempt |-> a], handle[h])})
RevokeRun(r) == Dropped({h \in Live : Matches([run |-> r, step |-> "", attempt |-> 0], handle[h])})

\* By handle, whatever attempt they were issued for.
RevokeHandles(hs) == Dropped(hs)

\* Mutant: the handles of the attempt the pass was building.
DiscardAttempt(p) == RevokeAttempt(pass[p].run, pass[p].step, pass[p].attempt)

(* discardSecrets: by handle, since the attempt may be another pass's.      *)
Discard(p) == RevokeHandles(pass[p].ids)

(* Broker.Issue of one handle for an attempt of a step.                     *)
Put(h, r, s, a, secret) ==
    [handle EXCEPT ![h] = [fate |-> "live", run |-> r, step |-> s, attempt |-> a, secret |-> secret]]

(* A record is created, never overwritten: its handle is the first nobody   *)
(* was issued.                                                              *)
Fresh(h) == handle[h] = NoRecord /\ \A x \in Handles : x < h => handle[x] # NoRecord

(* An expired record is refused as an unknown one is, whenever the bucket   *)
(* forgets it.                                                              *)
Expire(h) ==
    /\ h \in Live /\ faults > 0 /\ faults' = faults - 1
    /\ handle' = [handle EXCEPT ![h].fate = "expired"]
    /\ UNCHANGED <<log, offer, fleet, rules, pass, queue, reading, given, owed, sweep, tidied>>

(* KVHandles.Spend reads the record and then deletes it at the revision it  *)
(* was read at. An engine presents the handles of a dispatch it was         *)
(* delivered; a redelivered one is presented again.                         *)
Present(e, d, h) ==
    /\ fleet[e] \in {"ready", "draining"} /\ d \in queue /\ e \in Match(d.step, [x \in Engines |-> "ready"])
    /\ h \in d.ids /\ h \in Live /\ <<e, h>> \notin reading
    /\ reading' = reading \cup {<<e, h>>}
    /\ UNCHANGED <<log, offer, fleet, rules, pass, handle, queue, given, owed, sweep, tidied, faults>>

\* Mutant: deletes whatever revision is there.
SpendsAlways(h) == TRUE

(* The delete is refused if the record moved since it was read.             *)
Spends(h) == h \in Live

(* MapSource.Value of the plane that answers.                               *)
Answers(p, h) == handle[h].secret \in Holdings[p]

(* redeem: spent by being presented, and the value then read from the       *)
(* source of the plane that answers, which may not have it.                 *)
Answer(e, h, p) ==
    /\ <<e, h>> \in reading
    /\ reading' = reading \ {<<e, h>>}
    /\ IF Spends(h)
       THEN /\ handle' = [handle EXCEPT ![h].fate = "spent"]
            /\ given' = IF Answers(p, h) THEN given \cup {<<h, e>>} ELSE given
       ELSE UNCHANGED <<handle, given>>
    /\ UNCHANGED <<log, offer, fleet, rules, pass, queue, owed, sweep, tidied, faults>>

--------------------------------------------------------------------------------
(* One pass.                                                                *)

Goes(p, at) == pass' = [pass EXCEPT ![p].at = at]
Ends(p) == pass' = [pass EXCEPT ![p] = Idle]

(* plan: ready once what feeds it is done, until its attempts are used up.  *)
Ready(r, s) ==
    /\ log[r].state = "open"
    /\ s \notin log[r].done /\ log[r].flying[s] = 0
    /\ Feeds[s] \subseteq log[r].done
    /\ log[r].attempts[s] < Tries[s]

(* Advance: the log is loaded once, and every later decision about the step *)
(* is made on it until dispatch loads it again.                             *)
Begin(p, r, s) ==
    /\ pass[p] = Idle
    /\ Ready(r, s)
    /\ pass' = [pass EXCEPT ![p] = [at |-> "permit", run |-> r, step |-> s,
                                    attempt |-> log[r].attempts[s] + 1,
                                    saw |-> log[r].sanitised, ids |-> {}]]
    /\ UNCHANGED <<log, offer, fleet, rules, handle, queue, reading, given, owed, sweep, tidied, faults>>

(* denyFor: at most one refusal of a step (migration 0021), and then, in a  *)
(* second write, the run fails.                                             *)
Refuses(p) ==
    /\ log' = [log EXCEPT ![pass[p].run].refused = @ \cup {<<pass[p].step, "policy">>}]
    /\ Goes(p, "fail")

\* recordSecretRefusal: the same, of its own kind (migration 0026).
RefusesSecrets(p) ==
    /\ log' = [log EXCEPT ![pass[p].run].refused = @ \cup {<<pass[p].step, "secret">>}]
    /\ Goes(p, "fail")

(* permit: the fleet is listed now, the taint is the log's as it was read.  *)
(* With faults, the provenance or the audit trail cannot be had: a denial.  *)
Permit(p) ==
    /\ pass[p].at = "permit"
    /\ \/ /\ IF Permits(pass[p].step, rules, pass[p].saw, fleet)
             THEN Goes(p, "place") /\ UNCHANGED log
             ELSE Refuses(p)
          /\ UNCHANGED faults
       \/ /\ faults > 0 /\ faults' = faults - 1
          /\ Refuses(p)
    /\ UNCHANGED <<offer, fleet, rules, handle, queue, reading, given, owed, sweep, tidied>>

(* ValidateDeclarations: a step with secrets also needs an engine for them. *)
Declarable(s) == Declares[s] # <<>> => "SECRETS" \in Needs[s]

(* StepIssuer.Check: and every secret it declares is one this plane was     *)
(* given.                                                                   *)
Given(p, s) == Declarable(s) /\ Range(Declares[s]) \subseteq Holdings[p]

(* refuseSecrets asks that; refuseBuiltinSecrets: a step the plane hosts is *)
(* given none.                                                              *)
CanIssue(p, s) == IF s \in Builtin THEN Declares[s] = <<>> ELSE Given(p, s)

(* recordUnschedulable: said once while the reason stays the same.          *)
Sticks(p) ==
    /\ log' = [log EXCEPT ![pass[p].run].stuck[pass[p].step] = Explain(pass[p].step, fleet)]
    /\ Ends(p)

(* The head of dispatch: the fleet is listed again and, when something      *)
(* matches, the attempt is offered to this pass unless another has it.      *)
Place(p) ==
    LET r == pass[p].run  s == pass[p].step IN
    /\ pass[p].at = "place"
    /\ \/ ~CanIssue(p, s) /\ RefusesSecrets(p) /\ UNCHANGED offer
       \/ CanIssue(p, s) /\ Match(s, fleet) = {} /\ Sticks(p) /\ UNCHANGED offer
       \/ /\ CanIssue(p, s) /\ Match(s, fleet) # {}
          /\ IF offer[r][s] = "none"
             THEN Goes(p, "issue") /\ offer' = [offer EXCEPT ![r][s] = p]
             ELSE Ends(p) /\ UNCHANGED offer
          /\ UNCHANGED log
    /\ UNCHANGED <<fleet, rules, handle, queue, reading, given, owed, sweep, tidied, faults>>

(* The log is loaded again under the offer: another pass may have committed *)
(* this very attempt, and the offer is then left to the sweeper. Otherwise  *)
(* StepIssuer.Issue: one handle per declaration, in order; one that cannot  *)
(* be recorded discards the ones before it.                                 *)
Issue(p) ==
    LET s == pass[p].step  n == Cardinality(pass[p].ids) IN
    /\ pass[p].at = "issue" /\ n < Len(Declares[s])
    /\ \/ /\ log[pass[p].run].attempts[s] >= pass[p].attempt
          /\ Ends(p) /\ UNCHANGED <<handle, faults>>
       \/ /\ log[pass[p].run].attempts[s] < pass[p].attempt
          /\ \E h \in Handles :
                /\ Fresh(h)
                /\ handle' = Put(h, pass[p].run, s, pass[p].attempt, Declares[s][n + 1])
                /\ pass' = [pass EXCEPT ![p].ids = @ \cup {h}]
          /\ UNCHANGED faults
       \/ /\ faults > 0 /\ faults' = faults - 1
          /\ handle' = Discard(p)
          /\ Ends(p)
    /\ UNCHANGED <<log, offer, fleet, rules, queue, reading, given, owed, sweep, tidied>>

Built(p) == pass[p].at = "issue" /\ Cardinality(pass[p].ids) = Len(Declares[pass[p].step])

(* The transaction: the event, the outbox row, and the proof that the offer *)
(* is still this pass's. Otherwise nothing is written, and what the pass    *)
(* issued is discarded. It does not ask whether the run is still open. (A   *)
(* step without secrets has its second reading of the log here.)            *)
Commit(p) ==
    LET r == pass[p].run  s == pass[p].step IN
    /\ Built(p)
    /\ IF offer[r][s] = p /\ log[r].attempts[s] < pass[p].attempt
       THEN /\ log' = [log EXCEPT ![r].attempts[s] = pass[p].attempt, ![r].flying[s] = pass[p].attempt]
            /\ queue' = queue \cup {[run |-> r, step |-> s, attempt |-> pass[p].attempt, ids |-> pass[p].ids]}
            /\ UNCHANGED handle
       ELSE handle' = Discard(p) /\ UNCHANGED <<log, queue>>
    /\ Ends(p)
    /\ UNCHANGED <<offer, fleet, rules, reading, given, owed, sweep, tidied, faults>>

(* errOfferAbandoned: the offer is older than half its grace.               *)
Abandon(p) ==
    /\ Built(p) /\ faults > 0 /\ faults' = faults - 1
    /\ handle' = Discard(p)
    /\ Ends(p)
    /\ UNCHANGED <<log, offer, fleet, rules, queue, reading, given, owed, sweep, tidied>>

(* fail, after a refusal: the terminal event is unique, and the run's       *)
(* handles are revoked after it.                                            *)
Fail(p) ==
    /\ pass[p].at = "fail"
    /\ log' = [log EXCEPT ![pass[p].run].state = "closed"]
    /\ owed' = owed \cup {[run |-> pass[p].run, step |-> "", attempt |-> 0]}
    /\ Ends(p)
    /\ UNCHANGED <<offer, fleet, rules, handle, queue, reading, given, sweep, tidied, faults>>

Crash(p) ==
    /\ pass[p] # Idle /\ faults > 0 /\ faults' = faults - 1
    /\ Ends(p)
    /\ UNCHANGED <<log, offer, fleet, rules, handle, queue, reading, given, owed, sweep, tidied>>

--------------------------------------------------------------------------------
(* Around the passes.                                                       *)

Create(r) ==
    /\ log[r].state = "absent"
    /\ log' = [log EXCEPT ![r].state = "open"]
    /\ UNCHANGED <<offer, fleet, rules, pass, handle, queue, reading, given, owed, sweep, tidied, faults>>

(* Gate.Sanitise, by a gate while its step runs: the record is an event of  *)
(* the run's log.                                                           *)
Sanitise(r, s) ==
    /\ s \in GateSteps /\ log[r].flying[s] # 0
    /\ \E cleared \in Sanitises(s, log[r].sanitised) :
          log' = [log EXCEPT ![r].sanitised[s] = @ \cup cleared]
    /\ UNCHANGED <<offer, fleet, rules, pass, handle, queue, reading, given, owed, sweep, tidied, faults>>

(* OnStatus with a terminal phase, or recordOrphan: the event first, the    *)
(* revocation of the attempt's handles owed after it.                       *)
AttemptEnds(r, s, ok) ==
    /\ log[r].flying[s] # 0
    /\ log' = [log EXCEPT ![r].flying[s] = 0, ![r].done = IF ok THEN @ \cup {s} ELSE @]
    /\ offer' = [offer EXCEPT ![r][s] = "none"]
    /\ owed' = IF Declares[s] = <<>> THEN owed
               ELSE owed \cup {[run |-> r, step |-> s, attempt |-> log[r].flying[s]]}
    /\ UNCHANGED <<fleet, rules, pass, handle, queue, reading, given, sweep, tidied, faults>>

(* A run that completed or used its attempts up, or that the API cancelled, *)
(* owes its revocation; one closed by another writer (an approval denied, a *)
(* halting model step) is left to the sweep.                                *)
Close(r, revokes) ==
    /\ log[r].state = "open"
    /\ log' = [log EXCEPT ![r].state = "closed"]
    /\ owed' = IF revokes THEN owed \cup {[run |-> r, step |-> "", attempt |-> 0]} ELSE owed
    /\ UNCHANGED <<offer, fleet, rules, pass, handle, queue, reading, given, sweep, tidied, faults>>

(* Revoke and RevokeRun; a store that fails, or a plane that stops first,   *)
(* leaves the handles to the sweep and to their expiry.                     *)
Revoke(f) ==
    /\ f \in owed /\ owed' = owed \ {f}
    /\ \/ /\ handle' = IF f.step = "" THEN RevokeRun(f.run) ELSE RevokeAttempt(f.run, f.step, f.attempt)
          /\ UNCHANGED faults
       \/ faults > 0 /\ faults' = faults - 1 /\ UNCHANGED handle
    /\ UNCHANGED <<log, offer, fleet, rules, pass, queue, reading, given, sweep, tidied>>

(* withdrawAbandoned: an offer whose attempt the log does not show.         *)
Withdraw(r, s) ==
    /\ offer[r][s] # "none" /\ log[r].flying[s] = 0
    /\ offer' = [offer EXCEPT ![r][s] = "none"]
    /\ UNCHANGED <<log, fleet, rules, pass, handle, queue, reading, given, owed, sweep, tidied, faults>>

\* The runs of the handles that are listed: the index is read after this.
Candidates == {handle[h].run : h \in Live}

\* Mutant: a run with a step in flight is taken for open.
ClosedAndLanded == {r \in sweep.runs : /\ log[r].state # "open"
                                       /\ \A s \in Steps : log[r].flying[s] = 0}
\* RevokeClosedRuns, with the index of open runs as it is now.
Closed == {r \in sweep.runs : log[r].state # "open"}

(* The closed runs no pass is still working on.                             *)
Settled == {r \in Runs : /\ log[r].state = "closed"
                         /\ \A p \in Passes : pass[p] = Idle \/ pass[p].run # r}

SweepLists ==
    /\ ~sweep.on /\ Candidates # {}
    /\ sweep' = [on |-> TRUE, runs |-> Candidates, settled |-> Settled]
    /\ UNCHANGED <<log, offer, fleet, rules, pass, handle, queue, reading, given, owed, tidied, faults>>

SweepRevokes ==
    /\ sweep.on /\ sweep' = NoSweep /\ tidied' = tidied \cup sweep.settled
    /\ handle' = Dropped({h \in Live : handle[h].run \in Closed})
    /\ UNCHANGED <<log, offer, fleet, rules, pass, queue, reading, given, owed, faults>>

(* A message of an engine, an operator's drain or the TTL moves the record  *)
(* of an instance.  The moves between two states that are not ready are     *)
(* left out: no decision tells them apart.                                  *)
FleetMoves(e) ==
    /\ faults > 0 /\ faults' = faults - 1
    /\ \E to \in {stateAfterReannouncement(fleet[e]), stateAfterHeartbeat(fleet[e], {}),
                  stateAfterDrain(fleet[e]), NotHeld.state} \ {fleet[e]} :
          "ready" \in {fleet[e], to} /\ fleet' = [fleet EXCEPT ![e] = to]
    /\ UNCHANGED <<log, offer, rules, pass, handle, queue, reading, given, owed, sweep, tidied>>

(* SetPolicy installs a reloaded document, which is never without rules.    *)
SetPolicy ==
    /\ faults > 0 /\ faults' = faults - 1
    /\ \E doc \in Documents \ {rules} : rules' = doc
    /\ UNCHANGED <<log, offer, fleet, pass, handle, queue, reading, given, owed, sweep, tidied>>

PassSteps(p) == Permit(p) \/ Place(p) \/ Issue(p) \/ Commit(p) \/ Fail(p)

Next ==
    \/ \E p \in Passes : PassSteps(p) \/ Abandon(p) \/ Crash(p)
    \/ \E p \in Passes, r \in Runs, s \in Steps : Begin(p, r, s)
    \/ \E h \in Handles : Expire(h)
    \/ \E e \in Engines, d \in queue, h \in Handles : Present(e, d, h)
    \/ \E x \in reading, p \in Passes : Answer(x[1], x[2], p)
    \/ \E r \in Runs : Create(r) \/ \E b \in BOOLEAN : Close(r, b)
    \/ \E r \in Runs, s \in Steps :
          Sanitise(r, s) \/ Withdraw(r, s) \/ \E ok \in BOOLEAN : AttemptEnds(r, s, ok)
    \/ \E f \in owed : Revoke(f)
    \/ SweepLists \/ SweepRevokes
    \/ \E e \in Engines : FleetMoves(e)
    \/ SetPolicy


Spec == Init /\ [][Next]_vars

--------------------------------------------------------------------------------
(* Properties.                                                              *)

(* The attempt in flight of an open run keeps the handles its dispatch      *)
(* carries: the late end of an earlier attempt, a pass that lost the race   *)
(* for this one, and a sweep that raced the run's creation revoke others.   *)
KeepsItsHandles ==
    \A d \in queue :
        log[d.run].state = "open" /\ log[d.run].flying[d.step] = d.attempt
            => \A h \in d.ids : handle[h].fate # "dropped"

(* A handle is answered with a value once, however many engines present it  *)
(* to however many planes: a redelivered dispatch, a superseded attempt.    *)
RedeemedOnce == \A x, y \in given : x[1] = y[1] => x = y

(* No step with an effect goes out on data a trigger outside brought in,    *)
(* over any path of edges, unless a gate recorded that it cleared it: the   *)
(* decision was made on an older reading of the log.                        *)
NothingUntrustedActs ==
    [][\A d \in queue' \ queue :
          Effect[d.step] # "PURE" => Untrusted(d.step, log[d.run].sanitised) = {}]_vars

(* A run that has ended, whoever ended it, and that no pass is working on   *)
(* has no live handle one tick of the sweep later: not the ones a crashed   *)
(* pass issued and never dispatched, those a dispatch committed after the   *)
(* end, or those whose revocation failed.                                   *)
HandlesDieInOneTick == \A r \in tidied : \A h \in Live : handle[h].run # r

(* What the code says of a refused step: it was never dispatched. Two       *)
(* passes decide on two listings of the fleet, and the one that permits     *)
(* does not look for the other's refusal when it commits.                   *)
DeniedNeverRan ==
    \A r \in Runs, s \in Steps :
        <<s, "policy">> \in log[r].refused => log[r].attempts[s] = 0

=============================================================================
