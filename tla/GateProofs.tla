----------------------------- MODULE GateProofs -----------------------------
(***************************************************************************)
(* Proofs about module Gate, for any number of passes, runs and steps, any  *)
(* pipeline, fleet and policy, and any number of handles and faults.        *)
(*                                                                         *)
(* The first part is about the taint analysis, a recursive function over    *)
(* the pipeline's edges.  The induction theorems of the library take an     *)
(* operator as a parameter, which the provers cannot instantiate; the least *)
(* element of a set of naturals, which they can, does the same work.        *)
(***************************************************************************)
EXTENDS Gate, TLAPS, WellFoundedInduction, FiniteSetTheorems

LEMMA LeastOf ==
    ASSUME NEW T, T \subseteq Nat, T # {}
    PROVE  \E x \in T : \A y \in T : x <= y
  <1> DEFINE R == {ss \in Nat \X Nat : ss[1] < ss[2]}
  <1>1. IsWellFoundedOn(R, Nat)
    BY NatLessThanWellFounded DEF OpToRel
  <1>2. \E x \in T : \A y \in T : ~ (<<y, x>> \in R)
    <2> HIDE DEF R
    <2> QED BY <1>1, WFMin
  <1>3. PICK x \in T : \A y \in T : ~ (<<y, x>> \in R)
    BY <1>2
  <1>4. ASSUME NEW y \in T PROVE x <= y
    <2>1. \A m, n \in Nat : m < n => <<m, n>> \in R
      OBVIOUS
    <2>2. x \in Nat /\ y \in Nat /\ ~ (y < x)
      BY <1>3, <2>1
    <2> QED BY <2>2
  <1> QED BY <1>4

--------------------------------------------------------------------------------
(* Taint.                                                                   *)

Bound == Cardinality(Steps)

LEMMA BoundType == Bound \in Nat
  BY PolicyAssumption, FS_CardinalityType DEF Bound

(* f is the table of what reaches each step over at most k hops.            *)
IsTable(f, k, sanitised) ==
    f = [n \in 0 .. k |-> IF n = 0 THEN Arriving ELSE Hop(f[n - 1], sanitised)]

(* The table exists, however long: a shorter one is extended by one hop.    *)
LEMMA TableExists ==
    ASSUME NEW sanitised, NEW k \in Nat
    PROVE  \E f : IsTable(f, k, sanitised)
  <1> DEFINE T == {n \in Nat : ~ \E f : IsTable(f, n, sanitised)}
  <1>1. SUFFICES ASSUME T # {} PROVE FALSE
    OBVIOUS
  <1>2. PICK m \in T : \A y \in T : m <= y
    BY <1>1, LeastOf
  <1>3. CASE m = 0
    <2> DEFINE f == [n \in 0 .. 0 |-> Arriving]
    <2>1. IsTable(f, 0, sanitised)
      BY DEF IsTable
    <2> QED BY <2>1, <1>3
  <1>4. CASE m # 0
    <2>1. m - 1 \in Nat /\ m - 1 \notin T
      BY <1>2, <1>4
    <2>2. PICK f : IsTable(f, m - 1, sanitised)
      BY <2>1
    <2> DEFINE g == [n \in 0 .. m |-> IF n = m THEN Hop(f[m - 1], sanitised) ELSE f[n]]
    <2>3. \A n \in 0 .. m - 1 : f[n] = IF n = 0 THEN Arriving ELSE Hop(f[n - 1], sanitised)
      BY <2>2 DEF IsTable
    <2>4. \A n \in 0 .. m - 1 : g[n] = f[n]
      BY <2>1
    <2>5. \A n \in 0 .. m : g[n] = IF n = 0 THEN Arriving ELSE Hop(g[n - 1], sanitised)
      <3> TAKE n \in 0 .. m
      <3>1. CASE n = m
        <4>1. g[m - 1] = f[m - 1]
          BY <2>1, <2>4
        <4>2. g[m] = Hop(f[m - 1], sanitised)
          BY <2>1
        <4> HIDE DEF g
        <4> QED BY <3>1, <4>1, <4>2, <1>4
      <3>2. CASE n # m
        <4>1. n \in 0 .. m - 1 /\ g[n] = f[n]
          BY <2>1, <2>4, <3>2
        <4>2. n # 0 => g[n - 1] = f[n - 1]
          BY <2>1, <2>4, <4>1
        <4> HIDE DEF g
        <4> QED BY <4>1, <4>2, <2>3
      <3> QED BY <3>1, <3>2
    <2>6. g = [n \in 0 .. m |-> g[n]]
      OBVIOUS
    <2>7. IsTable(g, m, sanitised)
      <3> HIDE DEF g
      <3> QED BY <2>5, <2>6 DEF IsTable
    <2> QED BY <2>7
  <1> QED BY <1>3, <1>4

(* What TaintSources reads is such a table.                                 *)
LEMMA TaintTable ==
    ASSUME NEW sanitised
    PROVE  \E f : /\ f[0] = Arriving
                  /\ \A n \in 1 .. Bound : f[n] = Hop(f[n - 1], sanitised)
                  /\ \A s \in Steps : TaintSources(s, sanitised) = f[Bound][s]
  <1> DEFINE f == CHOOSE f : IsTable(f, Bound, sanitised)
  <1>1. IsTable(f, Bound, sanitised)
    BY BoundType, TableExists
  <1>2. \A s \in Steps : TaintSources(s, sanitised) = f[Bound][s]
    BY DEF TaintSources, Bound, IsTable
  <1> HIDE DEF f
  <1>3. \A n \in 0 .. Bound : f[n] = IF n = 0 THEN Arriving ELSE Hop(f[n - 1], sanitised)
    BY <1>1 DEF IsTable
  <1>4. f[0] = Arriving /\ \A n \in 1 .. Bound : f[n] = Hop(f[n - 1], sanitised)
    BY <1>3, BoundType
  <1> QED BY <1>2, <1>4

(* Only triggers are named as sources.                                      *)
LEMMA TaintIsTriggers ==
    ASSUME NEW sanitised, NEW s \in Steps
    PROVE  TaintSources(s, sanitised) \subseteq Triggers
  <1>1. PICK f : /\ f[0] = Arriving
                 /\ \A n \in 1 .. Bound : f[n] = Hop(f[n - 1], sanitised)
                 /\ \A t \in Steps : TaintSources(t, sanitised) = f[Bound][t]
    BY TaintTable
  <1> DEFINE T == {n \in 0 .. Bound : ~ \A t \in Steps : f[n][t] \subseteq Triggers}
  <1>2. ASSUME T # {} PROVE FALSE
    <2>0. T \subseteq Nat
      BY BoundType
    <2>1. PICK m \in T : \A y \in T : m <= y
      <3> HIDE DEF T
      <3> QED BY <1>2, <2>0, LeastOf
    <2>2. ASSUME NEW t \in Steps PROVE Arrives[t] \subseteq Triggers
      BY DEF Triggers
    <2>3. CASE m = 0
      BY <1>1, <2>1, <2>2, <2>3 DEF Arriving
    <2>4. CASE m # 0
      <3>1. m - 1 \in 0 .. Bound /\ m \in 1 .. Bound /\ m - 1 \notin T
        BY <2>1, <2>4, BoundType
      <3>2. \A t \in Steps : f[m - 1][t] \subseteq Triggers
        BY <3>1
      <3>3. f[m] = Hop(f[m - 1], sanitised)
        BY <1>1, <3>1
      <3>4. ASSUME NEW t \in Steps PROVE f[m][t] \subseteq Triggers
        <4>1. f[m][t] = Arrives[t] \cup UNION {PassesOn(f[m - 1], g, sanitised) : g \in Feeds[t]}
          BY <3>3 DEF Hop
        <4>2. ASSUME NEW g \in Feeds[t] PROVE PassesOn(f[m - 1], g, sanitised) \subseteq Triggers
          BY <3>2, PolicyAssumption DEF PassesOn
        <4> QED BY <4>1, <4>2, <2>2
      <3> QED BY <3>4, <2>1
    <2> QED BY <2>3, <2>4
  <1>3. Bound \notin T /\ Bound \in 0 .. Bound
    BY <1>2, BoundType
  <1> QED BY <1>1, <1>3

(* A path of at most Bound steps has its places, and no more.               *)
LEMMA PathShape ==
    ASSUME NEW path \in BoundedSeq(Steps, Bound), path # <<>>
    PROVE  /\ Len(path) \in 1 .. Bound
           /\ \A i \in 1 .. Len(path) : path[i] \in Steps
  <1>1. PICK m \in 0 .. Bound : path \in [1 .. m -> Steps]
    BY DEF BoundedSeq, SeqOf
  <1>2. path \in Seq(Steps) /\ Len(path) = m
    BY <1>1, BoundType
  <1>3. Len(path) # 0
    BY <1>2
  <1> QED BY <1>1, <1>2, <1>3, BoundType

(* The analysis misses nothing: a trigger whose data comes to s along some  *)
(* path of edges, no step of which had it cleared, is among the sources.    *)
LEMMA TaintReaches ==
    ASSUME NEW sanitised, NEW s \in Steps
    PROVE  Untrusted(s, sanitised) \subseteq TaintSources(s, sanitised)
  <1>1. PICK f : /\ f[0] = Arriving
                 /\ \A n \in 1 .. Bound : f[n] = Hop(f[n - 1], sanitised)
                 /\ \A t \in Steps : TaintSources(t, sanitised) = f[Bound][t]
    BY TaintTable
  <1>2. ASSUME NEW n \in 0 .. Bound, NEW t \in Steps PROVE Arrives[t] \subseteq f[n][t]
    <2>1. CASE n = 0
      BY <1>1, <2>1 DEF Arriving
    <2>2. CASE n # 0
      <3>1. f[n] = Hop(f[n - 1], sanitised)
        BY <1>1, <2>2, BoundType
      <3> QED BY <3>1 DEF Hop
    <2> QED BY <2>1, <2>2
  <1>3. SUFFICES ASSUME NEW src \in Untrusted(s, sanitised) PROVE src \in f[Bound][s]
    BY <1>1
  <1>4. PICK path \in BoundedSeq(Steps, Bound) : path # <<>> /\ ReachesBy(path, src, s, sanitised)
    BY <1>3 DEF Untrusted, Bound
  <1> DEFINE L == Len(path)
  <1>5. L \in 1 .. Bound /\ \A i \in 1 .. L : path[i] \in Steps
    BY <1>4, PathShape
  <1>6. src \in Arrives[path[1]] /\ path[L] = s
    BY <1>4, <1>5 DEF ReachesBy, Last
  <1>7. \A i \in 1 .. L - 1 : path[i] \in Feeds[path[i + 1]] /\ src \notin sanitised[path[i]]
    BY <1>4 DEF ReachesBy
  <1> HIDE DEF L
  <1> DEFINE T == {i \in 1 .. L : ~ \A n \in i - 1 .. Bound : src \in f[n][path[i]]}
  <1>8. ASSUME T # {} PROVE FALSE
    <2>0. T \subseteq Nat
      BY <1>5
    <2>1. PICK m \in T : \A y \in T : m <= y
      <3> HIDE DEF T
      <3> QED BY <1>8, <2>0, LeastOf
    <2>2. PICK n \in m - 1 .. Bound : src \notin f[n][path[m]]
      BY <2>1
    <2>3. CASE m = 1
      BY <1>2, <1>5, <1>6, <2>2, <2>3, BoundType
    <2>4. CASE m # 1
      <3>1. /\ m - 1 \in 1 .. L /\ m - 1 \in 1 .. L - 1 /\ m - 1 \notin T
            /\ n \in 1 .. Bound /\ n - 1 \in (m - 1) - 1 .. Bound /\ (m - 1) + 1 = m
        BY <1>5, <2>1, <2>2, <2>4, BoundType
      <3>2. src \in f[n - 1][path[m - 1]]
        BY <3>1
      <3>3. path[m - 1] \in Feeds[path[m]] /\ src \notin sanitised[path[m - 1]]
        BY <1>7, <3>1
      <3>4. src \in PassesOn(f[n - 1], path[m - 1], sanitised)
        BY <3>2, <3>3 DEF PassesOn
      <3>5. f[n] = Hop(f[n - 1], sanitised) /\ path[m] \in Steps
        BY <1>1, <1>5, <3>1, <2>1
      <3>6. f[n][path[m]] = Arrives[path[m]]
                \cup UNION {PassesOn(f[n - 1], g, sanitised) : g \in Feeds[path[m]]}
        BY <3>5 DEF Hop
      <3> QED BY <3>3, <3>4, <3>6, <2>2
    <2> QED BY <2>3, <2>4
  <1>9. L \notin T /\ L \in 1 .. L /\ Bound \in L - 1 .. Bound
    BY <1>8, <1>5, BoundType
  <1> QED BY <1>6, <1>9

(* A record of more cleared marks lets no more data through.                *)
LEMMA ClearingIsMonotone ==
    ASSUME NEW s \in Steps, NEW before, NEW after,
           \A t \in Steps : before[t] \subseteq after[t]
    PROVE  Untrusted(s, after) \subseteq Untrusted(s, before)
  <1> SUFFICES ASSUME NEW src \in Untrusted(s, after) PROVE src \in Untrusted(s, before)
    OBVIOUS
  <1>1. PICK path \in BoundedSeq(Steps, Bound) : path # <<>> /\ ReachesBy(path, src, s, after)
    BY DEF Untrusted, Bound
  <1>2. Len(path) \in 1 .. Bound /\ \A i \in 1 .. Len(path) : path[i] \in Steps
    BY <1>1, PathShape
  <1>3. ReachesBy(path, src, s, before)
    BY <1>1, <1>2 DEF ReachesBy
  <1>4. src \in Triggers
    BY DEF Untrusted
  <1> QED BY <1>1, <1>3, <1>4 DEF Untrusted, Bound

(* The floor: what permit lets through with an effect, nothing untrusted    *)
(* reaches, whatever the tier's own rules and whatever the fleet.           *)
LEMMA PermittedIsTrusted ==
    ASSUME NEW s \in Steps, NEW doc, NEW sanitised, NEW fl,
           Permits(s, doc, sanitised, fl), Effect[s] # "PURE"
    PROVE  Untrusted(s, sanitised) = {}
  <1> DEFINE in == Input(s, "", sanitised, fl)
  <1>1. Allows(doc, in)
    BY DEF Permits
  <1>2. "taint.effectful-step" \in WithFloor(doc)
    BY <1>1 DEF Allows, WithFloor, FloorRules
  <1>3. TaintHolds("taint.effectful-step", in)
    BY <1>1, <1>2 DEF Allows, Holds
  <1>4. ~in.tainted \/ in.effect = "PURE"
    BY <1>3 DEF TaintHolds
  <1>5. TaintSources(s, sanitised) = {}
    BY <1>4 DEF Input
  <1> QED BY <1>5, TaintReaches

--------------------------------------------------------------------------------
(* The inductive invariant.                                                 *)

(* h was issued for the attempt that x, a pass or a dispatch, is about.     *)
IssuedFor(h, x) ==
    /\ handle[h] # NoRecord
    /\ handle[h].run = x.run /\ handle[h].step = x.step /\ handle[h].attempt = x.attempt

(* A pass under way works on a run that was created, and on a reading of    *)
(* its sanitisations that the log has only added to since.                  *)
ReadInv ==
    \A p \in Passes : pass[p] # Idle =>
        /\ log[pass[p].run].state # "absent"
        /\ \A t \in Steps : pass[p].saw[t] \subseteq log[pass[p].run].sanitised[t]

(* Past permit, the step was trusted on what the pass had read.             *)
TrustInv ==
    \A p \in Passes :
        pass[p].at \in {"place", "issue"} /\ Effect[pass[p].step] # "PURE"
            => Untrusted(pass[p].step, pass[p].saw) = {}

(* What was committed is in the log.                                        *)
QueueInv ==
    \A d \in queue : /\ log[d.run].state # "absent"
                      /\ d.attempt <= log[d.run].attempts[d.step]

(* Handles are those of one attempt, and of one pass or dispatch.           *)
IdsInv ==
    /\ \A p \in Passes : pass[p] # Idle => \A h \in pass[p].ids : IssuedFor(h, pass[p])
    /\ \A d \in queue : \A h \in d.ids : IssuedFor(h, d)
    /\ \A p, q \in Passes :
          p # q /\ pass[p] # Idle /\ pass[q] # Idle => \A h \in pass[p].ids : h \notin pass[q].ids
    /\ \A p \in Passes, d \in queue : pass[p] # Idle => \A h \in pass[p].ids : h \notin d.ids

(* A revocation is owed for what has ended: an attempt the log has taken    *)
(* out of flight, a run it has closed.                                      *)
OwedInv ==
    \A f \in owed :
        /\ f.step = "" => log[f.run].state = "closed"
        /\ f.step # "" => /\ f.attempt \in 1 .. log[f.run].attempts[f.step]
                          /\ log[f.run].flying[f.step] # f.attempt

(* Nobody revokes what a pass is still building for an open run, unless     *)
(* another has committed the attempt.                                       *)
BuildInv ==
    \A p \in Passes :
        pass[p] # Idle /\ log[pass[p].run].state = "open"
        /\ log[pass[p].run].attempts[pass[p].step] < pass[p].attempt
            => \A h \in pass[p].ids : handle[h].fate # "dropped"

(* A value is answered only for a handle that is spent.                     *)
GivenInv == \A x \in given : handle[x[1]].fate = "spent"

(* A sweep under way has every live handle of the runs settled when it      *)
(* listed; those it has been over have none.                                *)
SweepInv ==
    /\ \A r \in sweep.settled : /\ r \in Settled
                                 /\ \A h \in Live : handle[h].run = r => r \in sweep.runs
    /\ \A r \in tidied : r \in Settled

IInv ==
    /\ TypeOK /\ ReadInv /\ TrustInv /\ QueueInv /\ IdsInv /\ OwedInv /\ BuildInv
    /\ GivenInv /\ SweepInv /\ KeepsItsHandles /\ RedeemedOnce /\ HandlesDieInOneTick

--------------------------------------------------------------------------------
(* What the pieces of the actions do.                                       *)

(* The parts of a pass that never change while it is under way.             *)
Stands(p) ==
    /\ pass[p] # Idle /\ pass'[p] # Idle
    /\ pass'[p].run = pass[p].run /\ pass'[p].step = pass[p].step
    /\ pass'[p].attempt = pass[p].attempt /\ pass'[p].saw = pass[p].saw

Others(p) == \A q \in Passes : q # p => pass'[q] = pass[q]

LogStands ==
    \A r \in Runs :
        /\ log'[r].state = log[r].state /\ log'[r].attempts = log[r].attempts
        /\ log'[r].flying = log[r].flying /\ log'[r].sanitised = log[r].sanitised

PassType == pass \in [Passes -> {Idle} \cup Busy]
LogType == log \in [Runs -> LogRecord]
HandleType == handle \in [Handles -> {NoRecord} \cup Record]

LEMMA WorkingPass ==
    ASSUME PassType, NEW p \in Passes
    PROVE  /\ pass[p] # Idle => pass[p] \in Busy
           /\ pass[p].at # "idle" => pass[p] # Idle
           /\ pass[p] \in Busy => pass[p] # Idle
  BY DEF PassType, Busy, Idle

LEMMA GoesFx ==
    ASSUME PassType, NEW p \in Passes, pass[p] # Idle,
           NEW at \in {"permit", "place", "issue", "fail"}, Goes(p, at)
    PROVE  /\ PassType' /\ Stands(p) /\ Others(p)
           /\ pass'[p].at = at /\ pass'[p].ids = pass[p].ids
  <1>1. PICK b \in Busy : b = pass[p]
    BY WorkingPass
  <1>2. PICK c : c = [b EXCEPT !.at = at]
    OBVIOUS
  <1>3. /\ c \in Busy /\ c.at = at /\ c.run = b.run /\ c.step = b.step
        /\ c.attempt = b.attempt /\ c.saw = b.saw /\ c.ids = b.ids
    BY <1>2 DEF Busy
  <1>4. pass' = [pass EXCEPT ![p] = c]
    BY <1>1, <1>2 DEF Goes
  <1>5. pass'[p] = c /\ Others(p)
    BY <1>4 DEF PassType, Others
  <1>6. PassType'
    BY <1>3, <1>4 DEF PassType
  <1>7. c # Idle
    BY <1>3 DEF Idle
  <1> QED BY <1>1, <1>3, <1>5, <1>6, <1>7 DEF Stands

LEMMA EndsFx ==
    ASSUME PassType, NEW p \in Passes, Ends(p)
    PROVE  PassType' /\ pass'[p] = Idle /\ Others(p)
  BY DEF PassType, Ends, Others

LEMMA RefusedFx ==
    ASSUME LogType, NEW r \in Runs, NEW s \in Steps, NEW k \in {"policy", "secret"},
           log' = [log EXCEPT ![r].refused = @ \cup {<<s, k>>}]
    PROVE  LogType' /\ LogStands
  <1>1. PICK l \in LogRecord : l = log[r]
    BY DEF LogType
  <1>2. PICK m : m = [l EXCEPT !.refused = @ \cup {<<s, k>>}]
    OBVIOUS
  <1>3. /\ m \in LogRecord /\ m.state = l.state /\ m.attempts = l.attempts
        /\ m.flying = l.flying /\ m.sanitised = l.sanitised
    BY <1>2 DEF LogRecord
  <1>4. log' = [log EXCEPT ![r] = m]
    BY <1>1, <1>2
  <1> QED BY <1>1, <1>3, <1>4 DEF LogType, LogStands

LEMMA StuckFx ==
    ASSUME LogType, NEW r \in Runs, NEW s \in Steps, NEW why \in Reasons,
           log' = [log EXCEPT ![r].stuck[s] = why]
    PROVE  LogType' /\ LogStands
  <1>1. PICK l \in LogRecord : l = log[r]
    BY DEF LogType
  <1>2. PICK m : m = [l EXCEPT !.stuck = [l.stuck EXCEPT ![s] = why]]
    OBVIOUS
  <1>3. /\ m \in LogRecord /\ m.state = l.state /\ m.attempts = l.attempts
        /\ m.flying = l.flying /\ m.sanitised = l.sanitised
    BY <1>2 DEF LogRecord
  <1>4. log' = [log EXCEPT ![r] = m]
    BY <1>1, <1>2
  <1> QED BY <1>1, <1>3, <1>4 DEF LogType, LogStands

LEMMA ExplainType == ASSUME NEW s, NEW fl PROVE Explain(s, fl) \in Reasons
  <1> DEFINE ready == {e \in Engines : fl[e] = "ready"}
             typed == {e \in ready : OffersType(s, e)}
             missing == {c \in Needs[s] : \A e \in typed : c \notin Offers[e].caps}
             none == Instances(fl) = {}
             idle == IF \E e \in Engines : fl[e] = "draining" THEN "draining" ELSE "none ready"
  <1>1. Explain(s, fl) = CASE none -> "none registered"
                           [] ~none /\ ready = {} -> idle
                           [] ready # {} /\ typed = {} -> "no such type"
                           [] typed # {} /\ missing # {} -> "no such capability"
                           [] OTHER -> "no single engine"
    BY DEF Explain
  <1>2. idle \in Reasons
    BY DEF Reasons
  <1> HIDE DEF ready, typed, missing, none, idle
  <1> QED BY <1>1, <1>2 DEF Reasons

(* A run's state moves, and nothing else of it.                             *)
LEMMA StateFx ==
    ASSUME LogType, NEW r \in Runs, NEW to \in {"open", "closed"},
           log' = [log EXCEPT ![r].state = to]
    PROVE  /\ LogType' /\ log'[r].state = to
           /\ \A x \in Runs : /\ x # r => log'[x].state = log[x].state
                              /\ log'[x].attempts = log[x].attempts
                              /\ log'[x].flying = log[x].flying
                              /\ log'[x].sanitised = log[x].sanitised
  <1>1. PICK l \in LogRecord : l = log[r]
    BY DEF LogType
  <1>2. PICK m : m = [l EXCEPT !.state = to]
    OBVIOUS
  <1>3. /\ m \in LogRecord /\ m.state = to /\ m.attempts = l.attempts
        /\ m.flying = l.flying /\ m.sanitised = l.sanitised
    BY <1>2 DEF LogRecord
  <1>4. log' = [log EXCEPT ![r] = m]
    BY <1>1, <1>2
  <1> QED BY <1>1, <1>3, <1>4 DEF LogType

(* The attempt s of r is now a, f of it in flight; the rest of the log is   *)
(* as it was.                                                               *)
Flies(r, s, a, f) ==
    /\ \A x \in Runs : /\ log'[x].state = log[x].state
                       /\ log'[x].sanitised = log[x].sanitised
                       /\ \A t \in Steps : x # r \/ t # s =>
                             /\ log'[x].attempts[t] = log[x].attempts[t]
                             /\ log'[x].flying[t] = log[x].flying[t]
    /\ log'[r].attempts[s] = a /\ log'[r].flying[s] = f

LEMMA FlightFx ==
    ASSUME LogType, NEW r \in Runs, NEW s \in Steps, NEW a \in Nat, NEW f \in Nat, NEW m,
           /\ m.state = log[r].state /\ m.sanitised = log[r].sanitised
           /\ m.attempts = [log[r].attempts EXCEPT ![s] = a]
           /\ m.flying = [log[r].flying EXCEPT ![s] = f],
           m \in LogRecord, log' = [log EXCEPT ![r] = m]
    PROVE  LogType' /\ Flies(r, s, a, f)
  <1>1. PICK l \in LogRecord : l = log[r]
    BY DEF LogType
  <1>2. l.attempts \in [Steps -> Nat] /\ l.flying \in [Steps -> Nat]
    BY DEF LogRecord
  <1>3. /\ m.attempts[s] = a /\ m.flying[s] = f
        /\ \A t \in Steps : t # s => m.attempts[t] = l.attempts[t] /\ m.flying[t] = l.flying[t]
    BY <1>1, <1>2
  <1>4. log'[r] = m /\ (\A x \in Runs : x # r => log'[x] = log[x]) /\ LogType'
    BY DEF LogType
  <1>5. ASSUME NEW x \in Runs
        PROVE  /\ log'[x].state = log[x].state /\ log'[x].sanitised = log[x].sanitised
               /\ \A t \in Steps : x # r \/ t # s => /\ log'[x].attempts[t] = log[x].attempts[t]
                                                    /\ log'[x].flying[t] = log[x].flying[t]
    <2>1. CASE x = r
      <3>1. log'[x] = m /\ log[x] = l
        BY <1>1, <1>4, <2>1
      <3> QED BY <1>1, <1>3, <2>1, <3>1
    <2>2. CASE x # r
      BY <1>4, <2>2
    <2> QED BY <2>1, <2>2
  <1>6. log'[r].attempts[s] = a /\ log'[r].flying[s] = f
    BY <1>3, <1>4
  <1> QED BY <1>4, <1>5, <1>6 DEF Flies

(* A record of cleared marks is added to.                                   *)
LEMMA SanitiseFx ==
    ASSUME LogType, NEW r \in Runs, NEW s \in Steps, NEW cleared \in SUBSET Triggers,
           log' = [log EXCEPT ![r].sanitised[s] = @ \cup cleared]
    PROVE  /\ LogType'
           /\ \A x \in Runs : /\ log'[x].state = log[x].state
                              /\ log'[x].attempts = log[x].attempts
                              /\ log'[x].flying = log[x].flying
                              /\ \A t \in Steps : log[x].sanitised[t] \subseteq log'[x].sanitised[t]
  <1>1. PICK l \in LogRecord : l = log[r]
    BY DEF LogType
  <1>2. PICK c \in [Steps -> SUBSET Triggers] : c = l.sanitised
    BY DEF LogRecord
  <1>3. PICK n : n = [c EXCEPT ![s] = @ \cup cleared]
    OBVIOUS
  <1>4. n \in [Steps -> SUBSET Triggers] /\ \A t \in Steps : c[t] \subseteq n[t]
    BY <1>3
  <1>5. PICK m : m = [l EXCEPT !.sanitised = n]
    OBVIOUS
  <1>6. /\ m \in LogRecord /\ m.state = l.state /\ m.attempts = l.attempts
        /\ m.flying = l.flying /\ m.sanitised = n
    BY <1>4, <1>5 DEF LogRecord
  <1>7. log' = [log EXCEPT ![r] = m]
    BY <1>1, <1>2, <1>3, <1>5
  <1>8. log'[r] = m /\ (\A x \in Runs : x # r => log'[x] = log[x]) /\ LogType'
    BY <1>6, <1>7 DEF LogType
  <1>9. ASSUME NEW x \in Runs
        PROVE  /\ log'[x].state = log[x].state /\ log'[x].attempts = log[x].attempts
               /\ log'[x].flying = log[x].flying
               /\ \A t \in Steps : log[x].sanitised[t] \subseteq log'[x].sanitised[t]
    <2>1. CASE x = r
      <3>1. log'[x] = m /\ log[x] = l
        BY <1>1, <1>8, <2>1
      <3> QED BY <1>2, <1>4, <1>6, <3>1
    <2>2. CASE x # r
      BY <1>8, <2>2
    <2> QED BY <2>1, <2>2
  <1> QED BY <1>8, <1>9

(* A live handle's fate is settled.                                         *)
Settles(h, to) ==
    /\ handle'[h] # NoRecord /\ handle'[h].fate = to
    /\ handle'[h].run = handle[h].run /\ handle'[h].step = handle[h].step
    /\ handle'[h].attempt = handle[h].attempt

LEMMA LiveRecord ==
    ASSUME HandleType, NEW h \in Handles
    PROVE  /\ handle[h] # NoRecord => handle[h] \in Record
           /\ h \in Live => handle[h] # NoRecord
           /\ handle[h].fate \in {"live", "spent", "dropped", "expired"} => handle[h] # NoRecord
  BY DEF HandleType, Live, NoRecord, Record

LEMMA FateFx ==
    ASSUME HandleType, NEW h \in Handles, h \in Live, NEW to \in {"spent", "expired"},
           handle' = [handle EXCEPT ![h].fate = to]
    PROVE  /\ HandleType' /\ Settles(h, to)
           /\ \A x \in Handles : x # h => handle'[x] = handle[x]
  <1>1. PICK l \in Record : l = handle[h]
    BY LiveRecord
  <1>2. PICK m : m = [l EXCEPT !.fate = to]
    OBVIOUS
  <1>3. m \in Record /\ m.fate = to /\ m.run = l.run /\ m.step = l.step /\ m.attempt = l.attempt
    BY <1>2 DEF Record
  <1>4. handle' = [handle EXCEPT ![h] = m]
    BY <1>1, <1>2
  <1>5. handle'[h] = m /\ (\A x \in Handles : x # h => handle'[x] = handle[x]) /\ HandleType'
    BY <1>3, <1>4 DEF HandleType
  <1>6. m # NoRecord
    BY <1>3 DEF NoRecord
  <1> QED BY <1>1, <1>3, <1>5, <1>6 DEF Settles

LEMMA DroppedFx ==
    ASSUME HandleType, NEW hs, handle' = Dropped(hs)
    PROVE  /\ HandleType'
           /\ \A h \in Handles : IF h \in hs /\ h \in Live THEN Settles(h, "dropped")
                                 ELSE handle'[h] = handle[h]
  <1>1. ASSUME NEW h \in Handles, h \in hs, h \in Live
        PROVE  Settles(h, "dropped") /\ handle'[h] \in Record
    <2>1. PICK l \in Record : l = handle[h]
      BY <1>1, LiveRecord
    <2>2. PICK m : m = [l EXCEPT !.fate = "dropped"]
      OBVIOUS
    <2>3. /\ m \in Record /\ m.fate = "dropped" /\ m.run = l.run /\ m.step = l.step
          /\ m.attempt = l.attempt
      BY <2>2 DEF Record
    <2>4. handle'[h] = m
      BY <1>1, <2>1, <2>2 DEF Dropped
    <2>5. m # NoRecord
      BY <2>3 DEF NoRecord
    <2> QED BY <2>1, <2>3, <2>4, <2>5 DEF Settles
  <1>2. ASSUME NEW h \in Handles, ~ (h \in hs /\ h \in Live) PROVE handle'[h] = handle[h]
    BY <1>2 DEF Dropped
  <1>3. ASSUME NEW h \in Handles PROVE handle'[h] \in {NoRecord} \cup Record
    BY <1>1, <1>2 DEF HandleType
  <1>4. handle' = [h \in Handles |-> handle'[h]]
    BY DEF Dropped
  <1> QED BY <1>1, <1>2, <1>3, <1>4 DEF HandleType

LEMMA PutFx ==
    ASSUME HandleType, NEW h \in Handles, handle[h] = NoRecord, NEW r \in Runs, NEW s \in Steps,
           NEW a \in Nat \ {0}, NEW secret \in Secrets, handle' = Put(h, r, s, a, secret)
    PROVE  /\ HandleType' /\ handle'[h] # NoRecord /\ handle'[h].fate = "live"
           /\ handle'[h].run = r /\ handle'[h].step = s /\ handle'[h].attempt = a
           /\ \A x \in Handles : x # h => handle'[x] = handle[x]
  <1>1. PICK m : m = [fate |-> "live", run |-> r, step |-> s, attempt |-> a, secret |-> secret]
    OBVIOUS
  <1>2. m \in Record /\ m.fate = "live" /\ m.run = r /\ m.step = s /\ m.attempt = a
    BY <1>1 DEF Record
  <1>3. handle'[h] = m /\ (\A x \in Handles : x # h => handle'[x] = handle[x]) /\ HandleType'
    BY <1>1, <1>2 DEF Put, HandleType
  <1>4. m # NoRecord
    BY <1>2 DEF NoRecord
  <1> QED BY <1>2, <1>3, <1>4

--------------------------------------------------------------------------------
(* What the actions do.                                                     *)

LEMMA Types == ASSUME TypeOK PROVE LogType /\ PassType /\ HandleType
  BY DEF TypeOK, LogType, PassType, HandleType

LEMMA RefusesFx ==
    ASSUME TypeOK, NEW p \in Passes, pass[p] # Idle, Refuses(p) \/ RefusesSecrets(p)
    PROVE  /\ LogType' /\ LogStands /\ PassType' /\ Stands(p) /\ Others(p)
           /\ pass'[p].at = "fail" /\ pass'[p].ids = pass[p].ids
  <1>1. pass[p].run \in Runs /\ pass[p].step \in Steps
    BY Types, WorkingPass DEF Busy
  <1>2. Goes(p, "fail")
    BY DEF Refuses, RefusesSecrets
  <1>3. LogType' /\ LogStands
    <2>1. CASE Refuses(p)
      BY <1>1, <2>1, Types, RefusedFx DEF Refuses
    <2>2. CASE RefusesSecrets(p)
      BY <1>1, <2>2, Types, RefusedFx DEF RefusesSecrets
    <2> QED BY <2>1, <2>2
  <1> QED BY <1>2, <1>3, Types, GoesFx

LEMMA PermitFx ==
    ASSUME TypeOK, NEW p \in Passes, Permit(p)
    PROVE  /\ LogType' /\ LogStands /\ PassType' /\ Stands(p) /\ Others(p)
           /\ pass'[p].ids = pass[p].ids /\ pass'[p].at \in {"place", "fail"}
           /\ pass'[p].at = "place" => Permits(pass[p].step, rules, pass[p].saw, fleet)
  <1>1. pass[p] # Idle
    BY Types, WorkingPass DEF Permit
  <1>2. CASE Refuses(p)
    BY <1>1, <1>2, RefusesFx
  <1>3. CASE /\ Goes(p, "place") /\ UNCHANGED log
             /\ Permits(pass[p].step, rules, pass[p].saw, fleet)
    BY <1>1, <1>3, Types, GoesFx DEF LogStands, LogType
  <1> QED BY <1>2, <1>3 DEF Permit

LEMMA PlaceFx ==
    ASSUME TypeOK, NEW p \in Passes, Place(p)
    PROVE  /\ LogType' /\ LogStands /\ PassType' /\ Others(p)
           /\ \/ pass'[p] = Idle
              \/ /\ Stands(p) /\ pass'[p].ids = pass[p].ids
                 /\ pass'[p].at \in {"issue", "fail"} /\ pass[p].at = "place"
           /\ offer' \in [Runs -> [Steps -> {"none"} \cup Passes]]
  <1>1. pass[p] # Idle /\ pass[p].at = "place" /\ pass[p].run \in Runs /\ pass[p].step \in Steps
    BY Types, WorkingPass DEF Place, Busy
  <1> DEFINE r == pass[p].run
             s == pass[p].step
  <1>2. CASE RefusesSecrets(p) /\ UNCHANGED offer
    BY <1>1, <1>2, RefusesFx DEF TypeOK
  <1>3. CASE Sticks(p) /\ UNCHANGED offer
    <2>1. PICK why \in Reasons : why = Explain(s, fleet)
      BY ExplainType
    <2>2. log' = [log EXCEPT ![r].stuck[s] = why]
      BY <1>3, <2>1 DEF Sticks
    <2>3. LogType' /\ LogStands
      BY <1>1, <2>2, Types, StuckFx
    <2> QED BY <1>3, <2>3, Types, EndsFx DEF Sticks, TypeOK
  <1>4. CASE Goes(p, "issue") /\ offer' = [offer EXCEPT ![r][s] = p] /\ UNCHANGED log
    <2>1. offer' \in [Runs -> [Steps -> {"none"} \cup Passes]]
      BY <1>1, <1>4 DEF TypeOK
    <2> QED BY <1>1, <1>4, <2>1, Types, GoesFx DEF LogStands, LogType
  <1>5. CASE Ends(p) /\ UNCHANGED offer /\ UNCHANGED log
    BY <1>5, Types, EndsFx DEF LogStands, LogType, TypeOK
  <1> QED BY <1>2, <1>3, <1>4, <1>5 DEF Place

LEMMA DiscardFx ==
    ASSUME TypeOK, NEW p \in Passes, pass[p] # Idle, handle' = Discard(p)
    PROVE  /\ HandleType'
           /\ \A h \in Handles : IF h \in pass[p].ids /\ h \in Live THEN Settles(h, "dropped")
                                 ELSE handle'[h] = handle[h]
  BY Types, DroppedFx DEF Discard, RevokeHandles

(* The three ways an issue ends: another pass has committed the attempt, a  *)
(* handle is put, or one cannot be and those before it are discarded.       *)
LEMMA IssueFx ==
    ASSUME TypeOK, NEW p \in Passes, Issue(p)
    PROVE  /\ pass[p].at = "issue" /\ pass[p] # Idle /\ PassType' /\ HandleType' /\ Others(p)
           /\ \/ pass'[p] = Idle /\ handle' = handle
              \/ /\ Stands(p) /\ pass'[p].at = "issue"
                 /\ log[pass[p].run].attempts[pass[p].step] < pass[p].attempt
                 /\ \E h \in Handles :
                       /\ handle[h] = NoRecord /\ pass'[p].ids = pass[p].ids \cup {h}
                       /\ handle'[h] # NoRecord /\ handle'[h].fate = "live"
                       /\ handle'[h].run = pass[p].run /\ handle'[h].step = pass[p].step
                       /\ handle'[h].attempt = pass[p].attempt
                       /\ \A x \in Handles : x # h => handle'[x] = handle[x]
              \/ pass'[p] = Idle /\ handle' = Discard(p)
  <1>1. PICK b \in Busy : b = pass[p] /\ b.at = "issue"
    BY Types, WorkingPass DEF Issue
  <1>2. /\ b.run \in Runs /\ b.step \in Steps /\ b.attempt \in Nat \ {0} /\ b.ids \in SUBSET Handles
        /\ pass[p] # Idle
    BY <1>1, Types, WorkingPass DEF Busy
  <1>3. CASE Ends(p) /\ UNCHANGED handle
    BY <1>1, <1>2, <1>3, Types, EndsFx DEF HandleType
  <1>4. CASE handle' = Discard(p) /\ Ends(p)
    BY <1>1, <1>2, <1>4, Types, EndsFx, DiscardFx
  <1>5. CASE /\ log[b.run].attempts[b.step] < b.attempt
             /\ \E h \in Handles :
                   /\ Fresh(h)
                   /\ handle' = Put(h, b.run, b.step, b.attempt,
                                    Declares[b.step][Cardinality(b.ids) + 1])
                   /\ pass' = [pass EXCEPT ![p].ids = @ \cup {h}]
    <2>1. PICK h \in Handles :
             /\ Fresh(h)
             /\ handle' = Put(h, b.run, b.step, b.attempt, Declares[b.step][Cardinality(b.ids) + 1])
             /\ pass' = [pass EXCEPT ![p].ids = @ \cup {h}]
      BY <1>5
    <2>2. Cardinality(b.ids) \in Nat
      <3>1. IsFiniteSet(Handles)
        BY GateAssumption, FS_Interval DEF Handles
      <3>2. IsFiniteSet(b.ids)
        BY <1>2, <3>1, FS_Subset
      <3> QED BY <3>2, FS_CardinalityType
    <2>3. PICK secret \in Secrets : secret = Declares[b.step][Cardinality(b.ids) + 1]
      <3>1. PICK d \in Seq(Secrets) : d = Declares[b.step]
        BY <1>2, PolicyAssumption
      <3>2. Cardinality(b.ids) + 1 \in 1 .. Len(d)
        BY <1>1, <2>2, <3>1 DEF Issue
      <3> QED BY <3>1, <3>2
    <2>4. PICK c : c = [b EXCEPT !.ids = b.ids \cup {h}]
      OBVIOUS
    <2>5. /\ c \in Busy /\ c.at = "issue" /\ c.run = b.run /\ c.step = b.step
          /\ c.attempt = b.attempt /\ c.saw = b.saw /\ c.ids = b.ids \cup {h}
      BY <1>1, <2>4 DEF Busy
    <2>6. pass' = [pass EXCEPT ![p] = c]
      BY <1>1, <2>1, <2>4
    <2>7. pass'[p] = c /\ Others(p) /\ PassType'
      BY <2>5, <2>6, Types DEF Others, PassType
    <2>8. c # Idle
      BY <2>5 DEF Idle
    <2>9. Stands(p) /\ pass'[p].at = "issue" /\ pass'[p].ids = pass[p].ids \cup {h}
      BY <1>1, <1>2, <2>5, <2>7, <2>8 DEF Stands
    <2>10. handle[h] = NoRecord
      BY <2>1 DEF Fresh
    <2>11. /\ HandleType' /\ handle'[h] # NoRecord /\ handle'[h].fate = "live"
           /\ handle'[h].run = b.run /\ handle'[h].step = b.step /\ handle'[h].attempt = b.attempt
           /\ \A x \in Handles : x # h => handle'[x] = handle[x]
      BY <1>2, <2>1, <2>3, <2>10, Types, PutFx
    <2> QED BY <1>1, <1>2, <1>5, <2>7, <2>9, <2>10, <2>11
  <1> QED BY <1>1, <1>3, <1>4, <1>5 DEF Issue

LEMMA CommitFx ==
    ASSUME TypeOK, NEW p \in Passes, Commit(p)
    PROVE  /\ pass[p].at = "issue" /\ pass[p] # Idle
           /\ PassType' /\ pass'[p] = Idle /\ Others(p) /\ LogType' /\ HandleType'
           /\ \/ /\ log[pass[p].run].attempts[pass[p].step] < pass[p].attempt
                 /\ Flies(pass[p].run, pass[p].step, pass[p].attempt, pass[p].attempt)
                 /\ \E d \in Dispatch :
                       /\ d.run = pass[p].run /\ d.step = pass[p].step
                       /\ d.attempt = pass[p].attempt /\ d.ids = pass[p].ids
                       /\ queue' = queue \cup {d}
                 /\ UNCHANGED handle
              \/ handle' = Discard(p) /\ UNCHANGED <<log, queue>>
  <1>1. PICK b \in Busy : b = pass[p] /\ b.at = "issue"
    BY Types, WorkingPass DEF Commit, Built
  <1>2. /\ b.run \in Runs /\ b.step \in Steps /\ b.attempt \in Nat \ {0} /\ b.ids \in SUBSET Handles
        /\ pass[p] # Idle
    BY <1>1, Types, WorkingPass DEF Busy
  <1>3. Ends(p)
    BY DEF Commit
  <1>4. PassType' /\ pass'[p] = Idle /\ Others(p)
    BY <1>3, Types, EndsFx
  <1>5. CASE /\ log[b.run].attempts[b.step] < b.attempt
             /\ log' = [log EXCEPT ![b.run].attempts[b.step] = b.attempt,
                                   ![b.run].flying[b.step] = b.attempt]
             /\ queue' = queue \cup {[run |-> b.run, step |-> b.step, attempt |-> b.attempt, ids |-> b.ids]}
             /\ UNCHANGED handle
    <2>1. PICK d : d = [run |-> b.run, step |-> b.step, attempt |-> b.attempt, ids |-> b.ids]
      OBVIOUS
    <2>2. d \in Dispatch /\ d.run = b.run /\ d.step = b.step /\ d.attempt = b.attempt /\ d.ids = b.ids
      BY <1>2, <2>1 DEF Dispatch
    <2>3. PICK l \in LogRecord : l = log[b.run]
      BY <1>2, Types DEF LogType
    <2>4. PICK m : m = [l EXCEPT !.attempts = [l.attempts EXCEPT ![b.step] = b.attempt],
                                 !.flying = [l.flying EXCEPT ![b.step] = b.attempt]]
      OBVIOUS
    <2>5. /\ m \in LogRecord /\ m.state = l.state /\ m.sanitised = l.sanitised
          /\ m.attempts = [l.attempts EXCEPT ![b.step] = b.attempt]
          /\ m.flying = [l.flying EXCEPT ![b.step] = b.attempt]
      BY <1>2, <2>4 DEF LogRecord
    <2>6. log' = [log EXCEPT ![b.run] = m]
      BY <1>2, <1>5, <2>3, <2>4, Types DEF LogType
    <2>7. LogType' /\ Flies(b.run, b.step, b.attempt, b.attempt)
      <3>1. PICK r \in Runs, s \in Steps, a \in Nat : r = b.run /\ s = b.step /\ a = b.attempt
        BY <1>2
      <3>2. /\ m.state = log[r].state /\ m.sanitised = log[r].sanitised
            /\ m.attempts = [log[r].attempts EXCEPT ![s] = a]
            /\ m.flying = [log[r].flying EXCEPT ![s] = a]
            /\ log' = [log EXCEPT ![r] = m]
        BY <2>3, <2>5, <2>6, <3>1
      <3>3. LogType' /\ Flies(r, s, a, a)
        BY <2>5, <3>2, Types, FlightFx
      <3> QED BY <3>1, <3>3
    <2>8. HandleType'
      BY <1>5, Types DEF HandleType
    <2>9. queue' = queue \cup {d}
      BY <1>5, <2>1
    <2> QED BY <1>1, <1>2, <1>4, <1>5, <2>2, <2>7, <2>8, <2>9
  <1>6. CASE handle' = Discard(p) /\ UNCHANGED <<log, queue>>
    BY <1>1, <1>2, <1>4, <1>6, Types, DiscardFx DEF LogType
  <1> QED BY <1>1, <1>5, <1>6 DEF Commit

LEMMA AttemptEndsFx ==
    ASSUME TypeOK, NEW r \in Runs, NEW s \in Steps, NEW ok \in BOOLEAN, AttemptEnds(r, s, ok)
    PROVE  /\ LogType' /\ Flies(r, s, log[r].attempts[s], 0)
           /\ log[r].flying[s] \in 1 .. log[r].attempts[s]
           /\ \/ owed' = owed
              \/ \E f \in Filter : /\ f.run = r /\ f.step = s /\ f.attempt = log[r].flying[s]
                                   /\ owed' = owed \cup {f}
           /\ offer' \in [Runs -> [Steps -> {"none"} \cup Passes]]
  <1>1. PICK l \in LogRecord : l = log[r]
    BY Types DEF LogType
  <1>2. /\ l.attempts \in [Steps -> Nat] /\ l.flying \in [Steps -> Nat] /\ l.done \in SUBSET Steps
        /\ l.flying[s] \in {0, l.attempts[s]} /\ l.flying[s] # 0
    BY <1>1 DEF LogRecord, TypeOK, AttemptEnds
  <1>3. l.flying[s] \in 1 .. l.attempts[s]
    BY <1>2
  <1>4. PICK done \in SUBSET Steps : done = IF ok THEN l.done \cup {s} ELSE l.done
    BY <1>2
  <1>5. PICK m : m = [l EXCEPT !.flying = [l.flying EXCEPT ![s] = 0], !.done = done]
    OBVIOUS
  <1>6. /\ m \in LogRecord /\ m.state = l.state /\ m.sanitised = l.sanitised
        /\ m.attempts = l.attempts /\ m.flying = [l.flying EXCEPT ![s] = 0]
    BY <1>2, <1>5 DEF LogRecord
  <1>7. l.attempts = [l.attempts EXCEPT ![s] = l.attempts[s]]
    BY <1>2
  <1>8. log' = [log EXCEPT ![r].flying[s] = 0, ![r].done = done]
    BY <1>1, <1>4, Types DEF AttemptEnds, LogType
  <1>9. log' = [log EXCEPT ![r] = m]
    BY <1>1, <1>5, <1>8, Types DEF LogType
  <1>10. LogType' /\ Flies(r, s, log[r].attempts[s], 0)
    <2>1. PICK a \in Nat : a = l.attempts[s]
      BY <1>2
    <2>2. m.attempts = [log[r].attempts EXCEPT ![s] = a]
      BY <1>1, <1>6, <1>7, <2>1
    <2>3. /\ m.state = log[r].state /\ m.sanitised = log[r].sanitised
          /\ m.flying = [log[r].flying EXCEPT ![s] = 0]
      BY <1>1, <1>6
    <2>4. LogType' /\ Flies(r, s, a, 0)
      BY <1>6, <1>9, <2>2, <2>3, Types, FlightFx
    <2> QED BY <1>1, <2>1, <2>4
  <1>11. PICK f : f = [run |-> r, step |-> s, attempt |-> log[r].flying[s]]
    OBVIOUS
  <1>12. f \in Filter /\ f.run = r /\ f.step = s /\ f.attempt = log[r].flying[s]
    BY <1>1, <1>2, <1>11 DEF Filter
  <1>13. owed' = owed \/ owed' = owed \cup {f}
    BY <1>11 DEF AttemptEnds
  <1>14. offer' \in [Runs -> [Steps -> {"none"} \cup Passes]]
    BY DEF AttemptEnds, TypeOK
  <1> QED BY <1>1, <1>3, <1>10, <1>12, <1>13, <1>14

(* The run is closed, and owes the revocation of its handles or does not.   *)
Closes(r) ==
    /\ LogType' /\ log'[r].state = "closed"
    /\ \A x \in Runs : /\ x # r => log'[x].state = log[x].state
                       /\ log'[x].attempts = log[x].attempts
                       /\ log'[x].flying = log[x].flying
                       /\ log'[x].sanitised = log[x].sanitised
    /\ \/ owed' = owed
       \/ \E f \in Filter : f.run = r /\ f.step = "" /\ owed' = owed \cup {f}

LEMMA FailFx ==
    ASSUME TypeOK, NEW p \in Passes, Fail(p)
    PROVE  /\ pass[p] # Idle /\ PassType' /\ pass'[p] = Idle /\ Others(p)
           /\ Closes(pass[p].run)
  <1>1. PICK r \in Runs : r = pass[p].run /\ pass[p] # Idle
    BY Types, WorkingPass DEF Fail, Busy
  <1>2. PICK f : f = [run |-> r, step |-> "", attempt |-> 0]
    OBVIOUS
  <1>3. f \in Filter /\ f.run = r /\ f.step = ""
    BY <1>2 DEF Filter
  <1>4. owed' = owed \cup {f} /\ log' = [log EXCEPT ![r].state = "closed"]
    BY <1>1, <1>2 DEF Fail
  <1>5. Closes(r)
    BY <1>3, <1>4, Types, StateFx DEF Closes
  <1> QED BY <1>1, <1>5, Types, EndsFx DEF Fail

LEMMA CloseFx ==
    ASSUME TypeOK, NEW r \in Runs, NEW revokes \in BOOLEAN, Close(r, revokes)
    PROVE  Closes(r)
  <1>2. PICK f : f = [run |-> r, step |-> "", attempt |-> 0]
    OBVIOUS
  <1>3. f \in Filter /\ f.run = r /\ f.step = ""
    BY <1>2 DEF Filter
  <1>4. /\ owed' = owed \cup {f} \/ owed' = owed
        /\ log' = [log EXCEPT ![r].state = "closed"]
    BY <1>2 DEF Close
  <1> QED BY <1>3, <1>4, Types, StateFx DEF Closes

LEMMA BeginFx ==
    ASSUME TypeOK, NEW p \in Passes, NEW r \in Runs, NEW s \in Steps, Begin(p, r, s)
    PROVE  /\ PassType' /\ Others(p) /\ pass[p] = Idle /\ pass'[p] # Idle
           /\ pass'[p].at = "permit" /\ pass'[p].run = r /\ pass'[p].step = s
           /\ pass'[p].attempt = log[r].attempts[s] + 1 /\ log[r].attempts[s] < Tries[s]
           /\ pass'[p].saw = log[r].sanitised /\ pass'[p].ids = {} /\ log[r].state = "open"
  <1>1. PICK l \in LogRecord : l = log[r]
    BY Types DEF LogType
  <1>2. l.attempts[s] \in Nat /\ l.sanitised \in [Steps -> SUBSET Triggers]
    BY DEF LogRecord
  <1>3. PICK b : b = [at |-> "permit", run |-> r, step |-> s, attempt |-> l.attempts[s] + 1,
                      saw |-> l.sanitised, ids |-> {}]
    OBVIOUS
  <1>4. /\ b \in Busy /\ b.at = "permit" /\ b.run = r /\ b.step = s
        /\ b.attempt = l.attempts[s] + 1 /\ b.saw = l.sanitised /\ b.ids = {}
    BY <1>2, <1>3 DEF Busy
  <1>5. pass' = [pass EXCEPT ![p] = b]
    BY <1>1, <1>3 DEF Begin
  <1>6. pass'[p] = b /\ Others(p) /\ PassType'
    BY <1>4, <1>5, Types DEF PassType, Others
  <1>7. b # Idle
    BY <1>4 DEF Idle
  <1> QED BY <1>1, <1>4, <1>6, <1>7 DEF Begin, Ready

--------------------------------------------------------------------------------
(* Types.                                                                   *)

(* What TypeOK says beyond the shape of each variable.                      *)
LogBound ==
    \A r \in Runs, s \in Steps :
        log[r].attempts[s] <= Tries[s] /\ log[r].flying[s] \in {0, log[r].attempts[s]}
PassBound == \A p \in Passes : pass[p] # Idle => pass[p].attempt <= Tries[pass[p].step]
RestType ==
    /\ offer \in [Runs -> [Steps -> {"none"} \cup Passes]]
    /\ fleet \in [Engines -> States] /\ rules \in SUBSET TierRules
    /\ queue \subseteq Dispatch /\ owed \subseteq Filter
    /\ reading \subseteq Engines \X Handles /\ given \subseteq Handles \X Engines
    /\ sweep \in [on : BOOLEAN, runs : SUBSET Runs, settled : SUBSET Runs]
    /\ tidied \subseteq Runs /\ faults \in 0 .. MaxFaults

LEMMA TypeParts ==
    TypeOK <=> LogType /\ LogBound /\ PassType /\ PassBound /\ HandleType /\ RestType
  BY DEF TypeOK, LogType, LogBound, PassType, PassBound, HandleType, RestType

LEMMA InitType == Init => TypeOK
  <1> SUFFICES ASSUME Init PROVE TypeOK
    OBVIOUS
  <1>1. NewRun \in LogRecord /\ NewRun.attempts = [s \in Steps |-> 0] /\ NewRun.flying = [s \in Steps |-> 0]
    BY DEF NewRun, LogRecord, Reasons
  <1>2. LogType
    BY <1>1 DEF Init, LogType
  <1>3. LogBound
    BY <1>1, GateAssumption DEF Init, LogBound
  <1>4. PassType /\ PassBound /\ HandleType
    BY DEF Init, PassType, PassBound, HandleType
  <1>5. RestType
    <2>1. fleet \in [Engines -> States]
      BY DEF Init, States
    <2>2. sweep \in [on : BOOLEAN, runs : SUBSET Runs, settled : SUBSET Runs]
      BY DEF Init, NoSweep
    <2>3. offer \in [Runs -> [Steps -> {"none"} \cup Passes]] /\ rules \in SUBSET TierRules
      BY DEF Init, TierRules
    <2>4. faults \in 0 .. MaxFaults
      BY GateAssumption DEF Init
    <2> QED BY <2>1, <2>2, <2>3, <2>4 DEF Init, RestType
  <1> QED BY <1>2, <1>3, <1>4, <1>5, TypeParts

LEMMA BoundsStand ==
    ASSUME LogBound, PassBound, LogStands,
           NEW p \in Passes, Others(p), pass'[p] = Idle \/ Stands(p)
    PROVE  LogBound' /\ PassBound'
  <1>1. LogBound'
    BY DEF LogBound, LogStands
  <1>2. ASSUME NEW q \in Passes, pass'[q] # Idle PROVE pass'[q].attempt <= Tries[pass'[q].step]
    <2>1. CASE q = p
      BY <1>2, <2>1 DEF PassBound, Stands
    <2>2. CASE q # p
      BY <1>2, <2>2 DEF PassBound, Others
    <2> QED BY <2>1, <2>2
  <1> QED BY <1>1, <1>2 DEF PassBound

LEMMA FliesBound ==
    ASSUME TypeOK, NEW r \in Runs, NEW s \in Steps, NEW a \in 0 .. Tries[s], NEW f \in {0, a},
           Flies(r, s, a, f)
    PROVE  LogBound'
  <1> SUFFICES ASSUME NEW x \in Runs, NEW t \in Steps
               PROVE  log'[x].attempts[t] <= Tries[t] /\ log'[x].flying[t] \in {0, log'[x].attempts[t]}
    BY DEF LogBound
  <1>1. CASE x = r /\ t = s
    BY <1>1, GateAssumption DEF Flies
  <1>2. CASE x # r \/ t # s
    BY <1>2, TypeParts DEF LogBound, Flies
  <1> QED BY <1>1, <1>2

LEMMA RevokeFx ==
    ASSUME TypeOK, NEW f \in owed, Revoke(f)
    PROVE  /\ HandleType' /\ owed' \subseteq owed
           /\ \A h \in Handles :
                 \/ handle'[h] = handle[h]
                 \/ /\ h \in Live /\ Settles(h, "dropped") /\ handle[h].run = f.run
                    /\ f.step # "" => f.step = handle[h].step /\ f.attempt \in {0, handle[h].attempt}
  <1>1. CASE UNCHANGED handle
    BY <1>1, Types DEF Revoke, HandleType
  <1>2. CASE f.step = "" /\ handle' = RevokeRun(f.run)
    <2> DEFINE hs == {h \in Live : Matches([run |-> f.run, step |-> "", attempt |-> 0], handle[h])}
    <2>1. handle' = Dropped(hs)
      BY <1>2 DEF RevokeRun
    <2>2. \A h \in hs : handle[h].run = f.run
      BY DEF Matches
    <2> HIDE DEF hs
    <2> QED BY <1>2, <2>1, <2>2, Types, DroppedFx DEF Revoke
  <1>3. CASE f.step # "" /\ handle' = RevokeAttempt(f.run, f.step, f.attempt)
    <2> DEFINE hs == {h \in Live : Matches([run |-> f.run, step |-> f.step, attempt |-> f.attempt], handle[h])}
    <2>1. handle' = Dropped(hs)
      BY <1>3 DEF RevokeAttempt
    <2>2. \A h \in hs : /\ handle[h].run = f.run /\ f.step = handle[h].step
                        /\ f.attempt \in {0, handle[h].attempt}
      BY <1>3 DEF Matches
    <2> HIDE DEF hs
    <2> QED BY <1>3, <2>1, <2>2, Types, DroppedFx DEF Revoke
  <1> QED BY <1>1, <1>2, <1>3 DEF Revoke

LEMMA SweepFx ==
    ASSUME TypeOK, SweepRevokes
    PROVE  /\ HandleType' /\ sweep.on
           /\ \A h \in Handles :
                 /\ h \in Live /\ handle[h].run \in Closed => Settles(h, "dropped")
                 /\ h \notin Live => handle'[h] = handle[h]
                 /\ handle[h].run \notin Closed => handle'[h] = handle[h]
  <1> DEFINE hs == {h \in Live : handle[h].run \in Closed}
  <1>1. handle' = Dropped(hs) /\ sweep.on
    BY DEF SweepRevokes
  <1>2. \A h \in Handles : h \in hs /\ h \in Live <=> h \in Live /\ handle[h].run \in Closed
    OBVIOUS
  <1> HIDE DEF hs
  <1>3. /\ HandleType'
        /\ \A h \in Handles : IF h \in hs /\ h \in Live THEN Settles(h, "dropped")
                              ELSE handle'[h] = handle[h]
    BY <1>1, Types, DroppedFx
  <1> QED BY <1>1, <1>2, <1>3

LEMMA FleetFx ==
    ASSUME TypeOK, NEW e \in Engines, FleetMoves(e)
    PROVE  fleet' \in [Engines -> States]
  <1>1. PICK prev \in States : prev = fleet[e]
    BY DEF TypeOK
  <1>2. stateAfterReannouncement(prev) \in States /\ stateAfterDrain(prev) \in States
    BY DEF stateAfterReannouncement, stateAfterDrain, States
  <1>3. stateAfterHeartbeat(prev, {}) \in States
    BY DEF stateAfterHeartbeat, States
  <1>4. NotHeld.state \in States
    BY DEF NotHeld, States
  <1>5. PICK to \in {stateAfterReannouncement(prev), stateAfterHeartbeat(prev, {}),
                     stateAfterDrain(prev), NotHeld.state} : fleet' = [fleet EXCEPT ![e] = to]
    BY <1>1 DEF FleetMoves
  <1>6. to \in States
    BY <1>2, <1>3, <1>4, <1>5
  <1> QED BY <1>5, <1>6 DEF TypeOK

LEMMA SanitiseStep ==
    ASSUME TypeOK, NEW r \in Runs, NEW s \in Steps, Sanitise(r, s)
    PROVE  /\ LogType'
           /\ \A x \in Runs : /\ log'[x].state = log[x].state
                              /\ log'[x].attempts = log[x].attempts
                              /\ log'[x].flying = log[x].flying
                              /\ \A t \in Steps : log[x].sanitised[t] \subseteq log'[x].sanitised[t]
  <1>1. PICK cleared \in Sanitises(s, log[r].sanitised) :
            log' = [log EXCEPT ![r].sanitised[s] = @ \cup cleared]
    BY DEF Sanitise
  <1>2. cleared \in SUBSET Triggers
    <2>1. cleared \subseteq TaintSources(s, log[r].sanitised)
      BY <1>1 DEF Sanitises
    <2>2. TaintSources(s, log[r].sanitised) \subseteq Triggers
      BY TaintIsTriggers
    <2> QED BY <2>1, <2>2
  <1> QED BY <1>1, <1>2, Types, SanitiseFx

LEMMA FaultsFall ==
    ASSUME faults \in 0 .. MaxFaults, faults' = faults \/ (faults > 0 /\ faults' = faults - 1)
    PROVE  faults' \in 0 .. MaxFaults
  BY GateAssumption

LEMMA TypeStep == TypeOK /\ [Next]_vars => TypeOK'
  <1> SUFFICES ASSUME TypeOK, [Next]_vars PROVE TypeOK'
    OBVIOUS
  <1>0. LogType /\ LogBound /\ PassType /\ PassBound /\ HandleType /\ RestType
    BY TypeParts
  <1> DEFINE G == LogType' /\ LogBound' /\ PassType' /\ PassBound' /\ HandleType' /\ RestType'
  <1> SUFFICES G
    BY DEF TypeOK, LogType, LogBound, PassType, PassBound, HandleType, RestType
  <1>a. UNCHANGED log => LogType' /\ LogBound'
    BY <1>0 DEF LogType, LogBound
  <1>b. UNCHANGED pass => PassType' /\ PassBound'
    BY <1>0 DEF PassType, PassBound
  <1>c. UNCHANGED handle => HandleType'
    BY <1>0 DEF HandleType
  <1>d. \A p \in Passes : Ends(p) => PassType' /\ PassBound'
    BY <1>0, EndsFx DEF PassBound, Others
  <1>e. faults' = faults \/ (faults > 0 /\ faults' = faults - 1) => faults' \in 0 .. MaxFaults
    BY <1>0, FaultsFall DEF RestType
  <1>1. ASSUME NEW p \in Passes, Permit(p) PROVE G
    <2>1. LogBound' /\ PassBound'
      BY <1>0, <1>1, PermitFx, BoundsStand
    <2>2. RestType'
      BY <1>0, <1>1, <1>e DEF Permit, RestType
    <2> QED BY <1>1, <1>c, <2>1, <2>2, PermitFx DEF Permit
  <1>2. ASSUME NEW p \in Passes, Place(p) PROVE G
    <2>1. LogBound' /\ PassBound'
      BY <1>0, <1>2, PlaceFx, BoundsStand
    <2>2. RestType'
      BY <1>0, <1>2, PlaceFx DEF Place, RestType
    <2> QED BY <1>2, <1>c, <2>1, <2>2, PlaceFx DEF Place
  <1>3. ASSUME NEW p \in Passes, Issue(p) PROVE G
    <2>1. PassType' /\ HandleType' /\ Others(p) /\ (pass'[p] = Idle \/ Stands(p))
      BY <1>3, IssueFx
    <2>2. LogStands /\ LogType'
      BY <1>3, <1>a DEF Issue, LogStands
    <2>3. LogBound' /\ PassBound'
      BY <1>0, <2>1, <2>2, BoundsStand
    <2>4. RestType'
      BY <1>0, <1>3, <1>e DEF Issue, RestType
    <2> QED BY <2>1, <2>2, <2>3, <2>4
  <1>4. ASSUME NEW p \in Passes, Commit(p) PROVE G
    <2>1. PassType' /\ PassBound' /\ LogType' /\ HandleType'
      BY <1>4, <1>d, CommitFx DEF Commit
    <2>2. LogBound'
      <3>1. CASE UNCHANGED log
        BY <1>a, <3>1
      <3>2. CASE Flies(pass[p].run, pass[p].step, pass[p].attempt, pass[p].attempt)
        <4>1. /\ pass[p].run \in Runs /\ pass[p].step \in Steps
              /\ pass[p].attempt \in 0 .. Tries[pass[p].step]
          BY <1>0, <1>4, CommitFx, WorkingPass, GateAssumption DEF Busy, PassBound
        <4> QED BY <3>2, <4>1, FliesBound
      <3> QED BY <1>4, <3>1, <3>2, CommitFx
    <2>3. queue' \subseteq Dispatch
      BY <1>0, <1>4, CommitFx DEF RestType
    <2>4. RestType'
      BY <1>0, <1>4, <2>3 DEF Commit, RestType
    <2> QED BY <2>1, <2>2, <2>4
  <1>5. ASSUME NEW r \in Runs, Closes(r),
               UNCHANGED <<offer, fleet, rules, handle, queue, reading, given, sweep, tidied, faults>>,
               PassType', PassBound'
        PROVE  G
    <2>1. LogType' /\ LogBound'
      BY <1>0, <1>5 DEF Closes, LogBound
    <2>2. owed' \subseteq Filter
      BY <1>0, <1>5 DEF Closes, RestType
    <2>3. RestType'
      BY <1>0, <1>5, <2>2 DEF RestType
    <2> QED BY <1>5, <1>c, <2>1, <2>3
  <1>6. ASSUME NEW p \in Passes, Fail(p) PROVE G
    <2>1. pass[p].run \in Runs
      BY <1>0, <1>6, FailFx, WorkingPass DEF Busy
    <2> QED BY <1>5, <1>6, <1>d, <2>1, FailFx DEF Fail
  <1>7. ASSUME NEW p \in Passes, Abandon(p) PROVE G
    <2>1. pass[p] # Idle
      BY <1>0, <1>7, WorkingPass DEF Abandon, Built
    <2>2. HandleType'
      BY <1>7, <2>1, DiscardFx DEF Abandon
    <2>3. RestType'
      BY <1>0, <1>7, <1>e DEF Abandon, RestType
    <2> QED BY <1>7, <1>a, <1>d, <2>2, <2>3 DEF Abandon
  <1>8. ASSUME NEW p \in Passes, Crash(p) PROVE G
    <2>1. RestType'
      BY <1>0, <1>8, <1>e DEF Crash, RestType
    <2> QED BY <1>8, <1>a, <1>c, <1>d, <2>1 DEF Crash
  <1>9. ASSUME NEW p \in Passes, NEW r \in Runs, NEW s \in Steps, Begin(p, r, s) PROVE G
    <2>1. log[r].attempts[s] \in Nat
      BY <1>0 DEF LogType, LogRecord
    <2>2. ASSUME NEW q \in Passes, pass'[q] # Idle PROVE pass'[q].attempt <= Tries[pass'[q].step]
      <3>1. CASE q = p
        BY <1>9, <2>1, <3>1, BeginFx, GateAssumption
      <3>2. CASE q # p
        BY <1>0, <1>9, <2>2, <3>2, BeginFx DEF PassBound, Others
      <3> QED BY <3>1, <3>2
    <2>3. PassBound'
      BY <2>2 DEF PassBound
    <2>4. RestType'
      BY <1>0, <1>9 DEF Begin, RestType
    <2> QED BY <1>9, <1>a, <1>c, <2>3, <2>4, BeginFx DEF Begin
  <1>10. ASSUME NEW h \in Handles, Expire(h) PROVE G
    <2>1. HandleType'
      BY <1>0, <1>10, FateFx DEF Expire
    <2>2. RestType'
      BY <1>0, <1>10, <1>e DEF Expire, RestType
    <2> QED BY <1>10, <1>a, <1>b, <2>1, <2>2 DEF Expire
  <1>11. ASSUME NEW e \in Engines, NEW d \in queue, NEW h \in Handles, Present(e, d, h) PROVE G
    <2>1. reading' \subseteq Engines \X Handles
      BY <1>0, <1>11 DEF Present, RestType
    <2>2. RestType'
      BY <1>0, <1>11, <2>1 DEF Present, RestType
    <2> QED BY <1>11, <1>a, <1>b, <1>c, <2>2 DEF Present
  <1>12. ASSUME NEW x \in reading, NEW p \in Passes, Answer(x[1], x[2], p) PROVE G
    <2>1. x[1] \in Engines /\ x[2] \in Handles
      BY <1>0 DEF RestType
    <2>2. HandleType'
      BY <1>0, <1>12, <1>c, <2>1, FateFx DEF Answer, Spends
    <2>3. given' \subseteq Handles \X Engines /\ reading' \subseteq Engines \X Handles
      BY <1>0, <1>12, <2>1 DEF Answer, RestType
    <2>4. RestType'
      BY <1>0, <1>12, <2>3 DEF Answer, RestType
    <2> QED BY <1>12, <1>a, <1>b, <2>2, <2>4 DEF Answer
  <1>13. ASSUME NEW r \in Runs, Create(r) PROVE G
    <2>1. LogType' /\ LogBound'
      BY <1>0, <1>13, StateFx DEF Create, LogBound
    <2>2. RestType'
      BY <1>0, <1>13 DEF Create, RestType
    <2> QED BY <1>13, <1>b, <1>c, <2>1, <2>2 DEF Create
  <1>14. ASSUME NEW r \in Runs, NEW b \in BOOLEAN, Close(r, b) PROVE G
    BY <1>5, <1>14, <1>b, CloseFx DEF Close
  <1>15. ASSUME NEW r \in Runs, NEW s \in Steps, Sanitise(r, s) PROVE G
    <2>1. LogType' /\ LogBound'
      BY <1>0, <1>15, SanitiseStep DEF LogBound
    <2>2. RestType'
      BY <1>0, <1>15 DEF Sanitise, RestType
    <2> QED BY <1>15, <1>b, <1>c, <2>1, <2>2 DEF Sanitise
  <1>16. ASSUME NEW r \in Runs, NEW s \in Steps, Withdraw(r, s) PROVE G
    <2>1. RestType'
      BY <1>0, <1>16 DEF Withdraw, RestType
    <2> QED BY <1>16, <1>a, <1>b, <1>c, <2>1 DEF Withdraw
  <1>17. ASSUME NEW r \in Runs, NEW s \in Steps, NEW ok \in BOOLEAN, AttemptEnds(r, s, ok) PROVE G
    <2>1. log[r].attempts[s] \in 0 .. Tries[s]
      BY <1>0, GateAssumption DEF LogType, LogRecord, LogBound
    <2>2. LogType' /\ LogBound'
      BY <1>17, <2>1, AttemptEndsFx, FliesBound
    <2>3. owed' \subseteq Filter /\ offer' \in [Runs -> [Steps -> {"none"} \cup Passes]]
      BY <1>0, <1>17, AttemptEndsFx DEF RestType
    <2>4. RestType'
      BY <1>0, <1>17, <2>3 DEF AttemptEnds, RestType
    <2> QED BY <1>17, <1>b, <1>c, <2>2, <2>4 DEF AttemptEnds
  <1>18. ASSUME NEW f \in owed, Revoke(f) PROVE G
    <2>1. HandleType' /\ owed' \subseteq Filter
      BY <1>0, <1>18, RevokeFx DEF RestType
    <2>2. RestType'
      BY <1>0, <1>18, <1>e, <2>1 DEF Revoke, RestType
    <2> QED BY <1>18, <1>a, <1>b, <2>1, <2>2 DEF Revoke
  <1>19. ASSUME SweepLists PROVE G
    <2>1. Settled \subseteq Runs
      BY DEF Settled
    <2>2. Candidates \subseteq Runs
      BY <1>0, LiveRecord DEF Candidates, Live, Record
    <2>3. sweep' \in [on : BOOLEAN, runs : SUBSET Runs, settled : SUBSET Runs]
      BY <1>19, <2>1, <2>2 DEF SweepLists
    <2>4. RestType'
      BY <1>0, <1>19, <2>3 DEF SweepLists, RestType
    <2> QED BY <1>19, <1>a, <1>b, <1>c, <2>4 DEF SweepLists
  <1>20. ASSUME SweepRevokes PROVE G
    <2>1. HandleType'
      BY <1>20, SweepFx
    <2>2. sweep' \in [on : BOOLEAN, runs : SUBSET Runs, settled : SUBSET Runs]
      BY <1>20 DEF SweepRevokes, NoSweep
    <2>3. tidied' \subseteq Runs
      BY <1>0, <1>20 DEF SweepRevokes, RestType
    <2>4. RestType'
      BY <1>0, <1>20, <2>2, <2>3 DEF SweepRevokes, RestType
    <2> QED BY <1>20, <1>a, <1>b, <2>1, <2>4 DEF SweepRevokes
  <1>21. ASSUME NEW e \in Engines, FleetMoves(e) PROVE G
    <2>1. RestType'
      BY <1>0, <1>21, <1>e, FleetFx DEF FleetMoves, RestType
    <2> QED BY <1>21, <1>a, <1>b, <1>c, <2>1 DEF FleetMoves
  <1>22. ASSUME SetPolicy PROVE G
    <2>1. rules' \in SUBSET TierRules
      BY <1>22, GateAssumption DEF SetPolicy
    <2>2. RestType'
      BY <1>0, <1>22, <1>e, <2>1 DEF SetPolicy, RestType
    <2> QED BY <1>22, <1>a, <1>b, <1>c, <2>2 DEF SetPolicy
  <1>23. ASSUME UNCHANGED vars PROVE G
    <2>1. RestType'
      BY <1>0, <1>23 DEF vars, RestType
    <2> QED BY <1>23, <1>a, <1>b, <1>c, <2>1 DEF vars
  <1> HIDE DEF G
  <1> QED BY <1>1, <1>2, <1>3, <1>4, <1>6, <1>7, <1>8, <1>9, <1>10, <1>11, <1>12, <1>13, <1>14,
             <1>15, <1>16, <1>17, <1>18, <1>19, <1>20, <1>21, <1>22, <1>23 DEF Next, PassSteps

--------------------------------------------------------------------------------
(* What every step leaves as it was.                                        *)

Core == <<log, pass, handle, queue, given, owed, sweep, tidied>>

(* The step is of one of these kinds; the others do not touch Core.         *)
LEMMA StepCases ==
    ASSUME TypeOK, [Next]_vars
    PROVE  \/ UNCHANGED Core
           \/ \E p \in Passes : \/ Permit(p) \/ Place(p) \/ Issue(p) \/ Commit(p)
                               \/ Fail(p) \/ Abandon(p) \/ Crash(p)
           \/ \E p \in Passes, r \in Runs, s \in Steps : Begin(p, r, s)
           \/ \E h \in Handles : Expire(h)
           \/ \E e \in Engines, h \in Handles, p \in Passes : Answer(e, h, p)
           \/ \E r \in Runs : Create(r)
           \/ \E r \in Runs, b \in BOOLEAN : Close(r, b)
           \/ \E r \in Runs, s \in Steps : Sanitise(r, s)
           \/ \E r \in Runs, s \in Steps, ok \in BOOLEAN : AttemptEnds(r, s, ok)
           \/ \E f \in owed : Revoke(f)
           \/ SweepLists
           \/ SweepRevokes
  <1>1. CASE UNCHANGED vars
    BY <1>1 DEF vars, Core
  <1>2. CASE \E e \in Engines, d \in queue, h \in Handles : Present(e, d, h)
    BY <1>2 DEF Present, Core
  <1>3. CASE \E x \in reading, p \in Passes : Answer(x[1], x[2], p)
    BY <1>3 DEF TypeOK
  <1>4. CASE \E r \in Runs, s \in Steps : Withdraw(r, s)
    BY <1>4 DEF Withdraw, Core
  <1>5. CASE \E e \in Engines : FleetMoves(e)
    BY <1>5 DEF FleetMoves, Core
  <1>6. CASE SetPolicy
    BY <1>6 DEF SetPolicy, Core
  <1> QED BY <1>1, <1>2, <1>3, <1>4, <1>5, <1>6 DEF Next, PassSteps

(* The log only grows: a run is not created twice or reopened, attempts are *)
(* not taken back, nor is what a gate has cleared; an attempt that goes     *)
(* into flight is a new one.                                                *)
LogGrows ==
    \A r \in Runs :
        /\ log[r].state # "absent" => log'[r].state # "absent"
        /\ log[r].state = "closed" => log'[r].state = "closed"
        /\ \A s \in Steps : /\ log[r].attempts[s] <= log'[r].attempts[s]
                            /\ log[r].sanitised[s] \subseteq log'[r].sanitised[s]
                            /\ \/ log'[r].flying[s] \in {0, log[r].flying[s]}
                               \/ log[r].attempts[s] < log'[r].flying[s]

LEMMA LogStep == ASSUME TypeOK, [Next]_vars PROVE LogGrows
  <1>0. ASSUME NEW r \in Runs, NEW s \in Steps
        PROVE  log[r].attempts[s] \in Nat /\ log[r].state \in {"absent", "open", "closed"}
    BY Types DEF LogType, LogRecord
  <1>1. UNCHANGED log => LogGrows
    BY <1>0 DEF LogGrows
  <1>2. LogStands => LogGrows
    BY <1>0 DEF LogGrows, LogStands
  <1>3. ASSUME NEW r \in Runs, Closes(r) PROVE LogGrows
    <2>1. /\ log'[r].state = "closed"
          /\ \A x \in Runs : /\ x # r => log'[x].state = log[x].state
                             /\ log'[x].attempts = log[x].attempts
                             /\ log'[x].flying = log[x].flying
                             /\ log'[x].sanitised = log[x].sanitised
      BY <1>3 DEF Closes
    <2>2. \A x \in Runs : /\ log[x].state # "absent" => log'[x].state # "absent"
                          /\ log[x].state = "closed" => log'[x].state = "closed"
      BY <2>1
    <2> QED BY <1>0, <2>1, <2>2 DEF LogGrows
  <1>4. ASSUME NEW p \in Passes, Commit(p) PROVE LogGrows
    <2>1. CASE UNCHANGED log
      BY <1>1, <2>1
    <2>2. CASE /\ log[pass[p].run].attempts[pass[p].step] < pass[p].attempt
               /\ Flies(pass[p].run, pass[p].step, pass[p].attempt, pass[p].attempt)
      <3>1. pass[p].run \in Runs /\ pass[p].step \in Steps /\ pass[p].attempt \in Nat
        BY <1>4, Types, CommitFx, WorkingPass DEF Busy
      <3>2. ASSUME NEW x \in Runs, NEW t \in Steps
            PROVE  /\ log[x].attempts[t] <= log'[x].attempts[t]
                   /\ \/ log'[x].flying[t] \in {0, log[x].flying[t]}
                      \/ log[x].attempts[t] < log'[x].flying[t]
        <4>1. CASE x = pass[p].run /\ t = pass[p].step
          BY <1>0, <2>2, <3>1, <4>1 DEF Flies
        <4>2. CASE x # pass[p].run \/ t # pass[p].step
          BY <1>0, <2>2, <4>2 DEF Flies
        <4> QED BY <4>1, <4>2
      <3> QED BY <1>0, <2>2, <3>2 DEF LogGrows, Flies
    <2> QED BY <1>4, <2>1, <2>2, CommitFx
  <1>5. ASSUME NEW r \in Runs, NEW s \in Steps, NEW ok \in BOOLEAN, AttemptEnds(r, s, ok)
        PROVE  LogGrows
    <2>1. Flies(r, s, log[r].attempts[s], 0)
      BY <1>5, AttemptEndsFx
    <2> QED BY <1>0, <2>1 DEF LogGrows, Flies
  <1>6. ASSUME NEW r \in Runs, Create(r) PROVE LogGrows
    <2>1. /\ log[r].state = "absent" /\ log'[r].state = "open"
          /\ \A x \in Runs : /\ x # r => log'[x].state = log[x].state
                             /\ log'[x].attempts = log[x].attempts
                             /\ log'[x].flying = log[x].flying
                             /\ log'[x].sanitised = log[x].sanitised
      BY <1>6, Types, StateFx DEF Create
    <2> QED BY <1>0, <2>1 DEF LogGrows
  <1>7. ASSUME NEW r \in Runs, NEW s \in Steps, Sanitise(r, s) PROVE LogGrows
    BY <1>0, <1>7, SanitiseStep DEF LogGrows
  <1>8. ASSUME NEW p \in Passes, Fail(p) PROVE LogGrows
    <2>1. pass[p].run \in Runs
      BY <1>8, Types, FailFx, WorkingPass DEF Busy
    <2> QED BY <1>3, <1>8, <2>1, FailFx
  <1>9. ASSUME NEW p \in Passes, Permit(p) \/ Place(p) \/ Issue(p) \/ Abandon(p) \/ Crash(p)
        PROVE  LogGrows
    BY <1>1, <1>2, <1>9, PermitFx, PlaceFx DEF Issue, Abandon, Crash
  <1>10. ASSUME NEW r \in Runs, NEW b \in BOOLEAN, Close(r, b) PROVE LogGrows
    BY <1>3, <1>10, CloseFx
  <1>11. ASSUME NEW p \in Passes, NEW r \in Runs, NEW s \in Steps, Begin(p, r, s) PROVE LogGrows
    BY <1>1, <1>11 DEF Begin
  <1>12. ASSUME NEW e \in Engines, NEW h \in Handles, NEW p \in Passes, Answer(e, h, p) PROVE LogGrows
    BY <1>1, <1>12 DEF Answer
  <1>13. ASSUME NEW h \in Handles, Expire(h) PROVE LogGrows
    BY <1>1, <1>13 DEF Expire
  <1>14. ASSUME NEW f \in owed, Revoke(f) PROVE LogGrows
    BY <1>1, <1>14 DEF Revoke
  <1>15. SweepLists \/ SweepRevokes \/ UNCHANGED Core => LogGrows
    BY <1>1 DEF SweepLists, SweepRevokes, Core
  <1> HIDE DEF LogGrows
  <1> QED BY <1>4, <1>5, <1>6, <1>7, <1>8, <1>9, <1>10, <1>11, <1>12, <1>13, <1>14, <1>15, StepCases

(* A record keeps the attempt it was issued for, and its fate is final.     *)
HandlesKept ==
    \A h \in Handles :
        handle[h] # NoRecord =>
            /\ handle'[h] # NoRecord
            /\ handle'[h].run = handle[h].run /\ handle'[h].step = handle[h].step
            /\ handle'[h].attempt = handle[h].attempt
            /\ handle[h].fate # "live" => handle'[h].fate = handle[h].fate

LEMMA HandleStep == ASSUME TypeOK, [Next]_vars PROVE HandlesKept
  <1>1. UNCHANGED handle => HandlesKept
    BY DEF HandlesKept
  <1>2. ASSUME \A h \in Handles :
                  \/ handle'[h] = handle[h]
                  \/ h \in Live /\ \E to \in {"spent", "dropped", "expired"} : Settles(h, to)
        PROVE  HandlesKept
    BY <1>2 DEF HandlesKept, Settles, Live
  <1>3. ASSUME NEW p \in Passes, pass[p] # Idle, handle' = Discard(p) PROVE HandlesKept
    BY <1>2, <1>3, DiscardFx
  <1>4. ASSUME NEW p \in Passes, Issue(p) PROVE HandlesKept
    <2>1. CASE \E h \in Handles : /\ handle[h] = NoRecord
                                  /\ \A x \in Handles : x # h => handle'[x] = handle[x]
      BY <2>1 DEF HandlesKept
    <2> QED BY <1>1, <1>3, <1>4, <2>1, IssueFx
  <1>5. ASSUME NEW p \in Passes, Commit(p) PROVE HandlesKept
    BY <1>1, <1>3, <1>5, CommitFx
  <1>6. ASSUME NEW p \in Passes, Abandon(p) PROVE HandlesKept
    BY <1>3, <1>6, Types, WorkingPass DEF Abandon, Built
  <1>7. ASSUME NEW p \in Passes, Permit(p) \/ Place(p) \/ Fail(p) \/ Crash(p) PROVE HandlesKept
    BY <1>1, <1>7 DEF Permit, Place, Fail, Crash
  <1>8. ASSUME NEW h \in Handles, Expire(h) PROVE HandlesKept
    BY <1>2, <1>8, Types, FateFx DEF Expire
  <1>9. ASSUME NEW e \in Engines, NEW h \in Handles, NEW p \in Passes, Answer(e, h, p)
        PROVE  HandlesKept
    BY <1>1, <1>2, <1>9, Types, FateFx DEF Answer, Spends
  <1>10. ASSUME NEW f \in owed, Revoke(f) PROVE HandlesKept
    BY <1>2, <1>10, RevokeFx
  <1>11. ASSUME SweepRevokes PROVE HandlesKept
    <2>1. ASSUME NEW h \in Handles
          PROVE  handle'[h] = handle[h] \/ (h \in Live /\ Settles(h, "dropped"))
      <3>1. CASE h \in Live /\ handle[h].run \in Closed
        BY <1>11, <3>1, SweepFx
      <3>2. CASE h \notin Live \/ handle[h].run \notin Closed
        <4>1. /\ h \notin Live => handle'[h] = handle[h]
              /\ handle[h].run \notin Closed => handle'[h] = handle[h]
          BY <1>11, SweepFx
        <4> QED BY <3>2, <4>1
      <3> QED BY <3>1, <3>2
    <2> QED BY <1>2, <2>1
  <1>12. ASSUME NEW p \in Passes, NEW r \in Runs, NEW s \in Steps, Begin(p, r, s) PROVE HandlesKept
    BY <1>1, <1>12 DEF Begin
  <1>13. ASSUME NEW r \in Runs, NEW s \in Steps, NEW b \in BOOLEAN,
                Create(r) \/ Close(r, b) \/ Sanitise(r, s) \/ AttemptEnds(r, s, b)
         PROVE  HandlesKept
    BY <1>1, <1>13 DEF Create, Close, Sanitise, AttemptEnds
  <1>13a. ASSUME NEW r \in Runs, NEW b \in BOOLEAN, Create(r) \/ Close(r, b) PROVE HandlesKept
    BY <1>1, <1>13a DEF Create, Close
  <1>14. SweepLists \/ UNCHANGED Core => HandlesKept
    BY <1>1 DEF SweepLists, Core
  <1> HIDE DEF HandlesKept
  <1> QED BY <1>4, <1>5, <1>6, <1>7, <1>8, <1>9, <1>10, <1>11, <1>12, <1>13, <1>13a, <1>14, StepCases

(* A pass under way stays with its attempt and its reading of the log; it   *)
(* is past permit because it was permitted; a new one has just read.        *)
Began(p) ==
    /\ pass[p] = Idle /\ UNCHANGED log /\ log[pass'[p].run].state = "open"
    /\ pass'[p].run \in Runs /\ pass'[p].at = "permit" /\ pass'[p].ids = {}
    /\ pass'[p].saw = log[pass'[p].run].sanitised

Moved(p) ==
    /\ Stands(p)
    /\ pass'[p].at \in {"place", "issue"} =>
          \/ pass[p].at \in {"place", "issue"}
          \/ Permits(pass[p].step, rules, pass[p].saw, fleet)
    /\ pass'[p].ids = pass[p].ids \/ Issue(p)

LEMMA PassStep ==
    ASSUME TypeOK, [Next]_vars
    PROVE  \A p \in Passes : pass'[p] # Idle => Began(p) \/ Moved(p)
  <1> DEFINE G == \A p \in Passes : pass'[p] # Idle => Began(p) \/ Moved(p)
  <1>1. UNCHANGED pass => G
    BY DEF Moved, Stands
  <1>2. ASSUME NEW p \in Passes, Others(p), pass'[p] = Idle \/ Began(p) \/ Moved(p) PROVE G
    <2> SUFFICES ASSUME NEW q \in Passes, pass'[q] # Idle PROVE Began(q) \/ Moved(q)
      OBVIOUS
    <2>1. CASE q = p
      BY <1>2, <2>1
    <2>2. CASE q # p
      BY <1>2, <2>2 DEF Others, Moved, Stands
    <2> QED BY <2>1, <2>2
  <1>3. ASSUME NEW p \in Passes, Permit(p) PROVE G
    BY <1>2, <1>3, PermitFx DEF Moved
  <1>4. ASSUME NEW p \in Passes, Place(p) PROVE G
    BY <1>2, <1>4, PlaceFx DEF Moved
  <1>5. ASSUME NEW p \in Passes, Issue(p) PROVE G
    BY <1>2, <1>5, IssueFx DEF Moved
  <1>6. ASSUME NEW p \in Passes, Ends(p) PROVE G
    BY <1>2, <1>6, Types, EndsFx
  <1>7. ASSUME NEW p \in Passes, NEW r \in Runs, NEW s \in Steps, Begin(p, r, s) PROVE G
    <2>1. /\ Others(p) /\ pass[p] = Idle /\ pass'[p].at = "permit" /\ pass'[p].run = r
          /\ pass'[p].saw = log[r].sanitised /\ pass'[p].ids = {} /\ log[r].state = "open"
      BY <1>7, BeginFx
    <2>2. UNCHANGED log
      BY <1>7 DEF Begin
    <2>3. Began(p)
      BY <2>1, <2>2 DEF Began
    <2> QED BY <1>2, <2>1, <2>3
  <1>8. ASSUME NEW p \in Passes, Commit(p) \/ Fail(p) \/ Abandon(p) \/ Crash(p) PROVE G
    BY <1>6, <1>8 DEF Commit, Fail, Abandon, Crash
  <1>9. ASSUME NEW h \in Handles, Expire(h) PROVE G
    BY <1>1, <1>9 DEF Expire
  <1>10. ASSUME NEW e \in Engines, NEW h \in Handles, NEW p \in Passes, Answer(e, h, p) PROVE G
    BY <1>1, <1>10 DEF Answer
  <1>11. ASSUME NEW r \in Runs, NEW b \in BOOLEAN, Create(r) \/ Close(r, b) PROVE G
    BY <1>1, <1>11 DEF Create, Close
  <1>12. ASSUME NEW r \in Runs, NEW s \in Steps, NEW ok \in BOOLEAN,
                Sanitise(r, s) \/ AttemptEnds(r, s, ok)
         PROVE  G
    BY <1>1, <1>12 DEF Sanitise, AttemptEnds
  <1>13. ASSUME NEW f \in owed, Revoke(f) PROVE G
    BY <1>1, <1>13 DEF Revoke
  <1>14. SweepLists \/ SweepRevokes \/ UNCHANGED Core => G
    BY <1>1 DEF SweepLists, SweepRevokes, Core
  <1>15. ASSUME NEW r \in Runs, NEW s \in Steps, Sanitise(r, s) PROVE G
    BY <1>1, <1>15 DEF Sanitise
  <1>16. ASSUME NEW r \in Runs, Create(r) PROVE G
    BY <1>1, <1>16 DEF Create
  <1> HIDE DEF G
  <1>17. G
    BY <1>3, <1>4, <1>5, <1>7, <1>8, <1>9, <1>10, <1>11, <1>12, <1>13, <1>14, <1>15, <1>16, StepCases
  <1> QED BY <1>17 DEF G

LEMMA ReadStep == ASSUME TypeOK, ReadInv, [Next]_vars PROVE ReadInv'
  <1> SUFFICES ASSUME NEW p \in Passes, pass'[p] # Idle
               PROVE  /\ log'[pass'[p].run].state # "absent"
                      /\ \A t \in Steps : pass'[p].saw[t] \subseteq log'[pass'[p].run].sanitised[t]
    BY DEF ReadInv
  <1>1. CASE Began(p)
    BY <1>1 DEF Began
  <1>2. CASE Moved(p)
    <2>1. pass[p].run \in Runs
      BY <1>2, Types, WorkingPass DEF Moved, Stands, Busy
    <2> QED BY <1>2, <2>1, LogStep DEF ReadInv, Moved, Stands, LogGrows
  <1> QED BY <1>1, <1>2, PassStep

LEMMA TrustStep == ASSUME TypeOK, TrustInv, [Next]_vars PROVE TrustInv'
  <1> SUFFICES ASSUME NEW p \in Passes, pass'[p].at \in {"place", "issue"},
                      Effect[pass'[p].step] # "PURE"
               PROVE  Untrusted(pass'[p].step, pass'[p].saw) = {}
    BY DEF TrustInv
  <1>1. pass'[p] # Idle
    BY DEF Idle
  <1>2. Moved(p)
    BY <1>1, PassStep DEF Began
  <1>3. PICK s \in Steps, saw \in [Steps -> SUBSET Triggers] : s = pass[p].step /\ saw = pass[p].saw
    BY <1>2, Types, WorkingPass DEF Moved, Stands, Busy
  <1>4. pass'[p].step = s /\ pass'[p].saw = saw /\ Effect[s] # "PURE"
    BY <1>2, <1>3 DEF Moved, Stands
  <1>5. Untrusted(s, saw) = {}
    <2>1. CASE pass[p].at \in {"place", "issue"}
      BY <1>3, <1>4, <2>1 DEF TrustInv
    <2>2. CASE Permits(s, rules, saw, fleet)
      BY <1>4, <2>2, PermittedIsTrusted
    <2> QED BY <1>2, <1>3, <2>1, <2>2 DEF Moved
  <1> QED BY <1>4, <1>5

LEMMA QueueKept == ASSUME TypeOK, [Next]_vars PROVE queue' = queue \/ \E p \in Passes : Commit(p)
  <1>1. ASSUME NEW p \in Passes, \/ Permit(p) \/ Place(p) \/ Issue(p) \/ Fail(p) \/ Abandon(p) \/ Crash(p)
        PROVE  queue' = queue
    BY <1>1 DEF Permit, Place, Issue, Fail, Abandon, Crash
  <1>2. ASSUME NEW p \in Passes, NEW r \in Runs, NEW s \in Steps, Begin(p, r, s) PROVE queue' = queue
    BY <1>2 DEF Begin
  <1>3. ASSUME NEW e \in Engines, NEW h \in Handles, NEW p \in Passes, Answer(e, h, p) PROVE queue' = queue
    BY <1>3 DEF Answer
  <1>4. ASSUME NEW r \in Runs, NEW s \in Steps, NEW b \in BOOLEAN,
               Sanitise(r, s) \/ AttemptEnds(r, s, b)
        PROVE  queue' = queue
    BY <1>4 DEF Sanitise, AttemptEnds
  <1>5. ASSUME NEW r \in Runs, NEW b \in BOOLEAN, Create(r) \/ Close(r, b) PROVE queue' = queue
    BY <1>5 DEF Create, Close
  <1>6. ASSUME NEW h \in Handles, Expire(h) PROVE queue' = queue
    BY <1>6 DEF Expire
  <1>7. ASSUME NEW f \in owed, Revoke(f) PROVE queue' = queue
    BY <1>7 DEF Revoke
  <1>8. SweepLists \/ SweepRevokes \/ UNCHANGED Core => queue' = queue
    BY DEF SweepLists, SweepRevokes, Core
  <1>9. ASSUME NEW r \in Runs, NEW s \in Steps, Sanitise(r, s) PROVE queue' = queue
    BY <1>9 DEF Sanitise
  <1>10. ASSUME NEW r \in Runs, Create(r) PROVE queue' = queue
    BY <1>10 DEF Create
  <1> QED BY <1>1, <1>2, <1>3, <1>4, <1>5, <1>6, <1>7, <1>8, <1>9, <1>10, StepCases

(* A dispatch is an old one, or the one a pass that ends commits.           *)
Dispatches(p, d) ==
    /\ Commit(p) /\ pass[p] # Idle /\ pass[p].at = "issue" /\ pass'[p] = Idle /\ Others(p)
    /\ d.run = pass[p].run /\ d.step = pass[p].step /\ d.attempt = pass[p].attempt
    /\ d.ids = pass[p].ids /\ UNCHANGED handle
    /\ log[d.run].attempts[d.step] < d.attempt /\ Flies(d.run, d.step, d.attempt, d.attempt)

LEMMA QueueFx ==
    ASSUME TypeOK, [Next]_vars, NEW d \in queue'
    PROVE  d \in queue \/ \E p \in Passes : Dispatches(p, d)
  <1>1. SUFFICES ASSUME NEW p \in Passes, Commit(p), d \notin queue PROVE Dispatches(p, d)
    BY QueueKept
  <1>2. PICK x \in Dispatch : /\ x.run = pass[p].run /\ x.step = pass[p].step
                              /\ x.attempt = pass[p].attempt /\ x.ids = pass[p].ids
                              /\ queue' = queue \cup {x}
    BY <1>1, CommitFx
  <1>3. d = x
    BY <1>1, <1>2
  <1>4. /\ log[x.run].attempts[x.step] < x.attempt /\ Flies(x.run, x.step, x.attempt, x.attempt)
        /\ UNCHANGED handle /\ pass[p] # Idle /\ pass[p].at = "issue" /\ pass'[p] = Idle /\ Others(p)
    BY <1>1, <1>2, <1>3, CommitFx
  <1> QED BY <1>1, <1>2, <1>3, <1>4 DEF Dispatches

LEMMA QueueStep == ASSUME TypeOK, ReadInv, QueueInv, [Next]_vars PROVE QueueInv'
  <1> SUFFICES ASSUME NEW d \in queue'
               PROVE  log'[d.run].state # "absent" /\ d.attempt <= log'[d.run].attempts[d.step]
    BY DEF QueueInv
  <1>1. CASE d \in queue
    <2>1. PICK r \in Runs, s \in Steps, a \in Nat : r = d.run /\ s = d.step /\ a = d.attempt
      BY <1>1 DEF TypeOK, Dispatch
    <2>2. log[r].state # "absent" /\ a <= log[r].attempts[s]
      BY <1>1, <2>1 DEF QueueInv
    <2>3. log[r].attempts[s] \in Nat /\ log'[r].attempts[s] \in Nat
      BY TypeStep, Types DEF TypeOK, LogRecord
    <2>4. log'[r].state # "absent" /\ log[r].attempts[s] <= log'[r].attempts[s]
      BY <2>2, LogStep DEF LogGrows
    <2>5. a <= log'[r].attempts[s]
      BY <2>2, <2>3, <2>4
    <2> QED BY <2>1, <2>4, <2>5
  <1>2. ASSUME NEW p \in Passes, Dispatches(p, d)
        PROVE  log'[d.run].state # "absent" /\ d.attempt <= log'[d.run].attempts[d.step]
    <2>1. d.run \in Runs /\ d.step \in Steps /\ d.attempt \in Nat
      BY <1>2, Types, WorkingPass DEF Dispatches, Busy
    <2>2. log[d.run].state # "absent"
      BY <1>2 DEF Dispatches, ReadInv
    <2>3. log'[d.run].state = log[d.run].state /\ log'[d.run].attempts[d.step] = d.attempt
      BY <1>2, <2>1 DEF Dispatches, Flies
    <2> QED BY <2>1, <2>2, <2>3
  <1> QED BY <1>1, <1>2, QueueFx

(* A handle of a pass is an old one, or the one it has just been issued.    *)
Issued(p, h) ==
    /\ Issue(p) /\ pass[p] # Idle /\ Others(p) /\ Stands(p)
    /\ handle[h] = NoRecord /\ handle'[h].fate = "live" /\ IssuedFor(h, pass[p])'

LEMMA IdsFx ==
    ASSUME TypeOK, [Next]_vars, NEW p \in Passes, pass'[p] # Idle, NEW h \in pass'[p].ids
    PROVE  \/ h \in pass[p].ids /\ Stands(p)
           \/ Issued(p, h)
  <1>1. Moved(p)
    BY PassStep DEF Began
  <1>2. Stands(p)
    BY <1>1 DEF Moved
  <1>3. CASE pass'[p].ids = pass[p].ids
    BY <1>2, <1>3
  <1>4. CASE Issue(p)
    <2>1. SUFFICES ASSUME h \notin pass[p].ids PROVE Issued(p, h)
      BY <1>2
    <2>2. PICK x \in Handles : /\ handle[x] = NoRecord /\ pass'[p].ids = pass[p].ids \cup {x}
                               /\ handle'[x] # NoRecord /\ handle'[x].fate = "live"
                               /\ handle'[x].run = pass[p].run /\ handle'[x].step = pass[p].step
                               /\ handle'[x].attempt = pass[p].attempt
      BY <1>4, IssueFx
    <2>3. h = x
      BY <2>1, <2>2
    <2>4. Others(p)
      BY <1>4, IssueFx
    <2> QED BY <1>2, <1>4, <2>2, <2>3, <2>4 DEF Issued, IssuedFor, Stands
  <1> QED BY <1>1, <1>3, <1>4 DEF Moved

LEMMA HandlesTyped ==
    ASSUME TypeOK
    PROVE  /\ \A p \in Passes : pass[p] # Idle => pass[p].ids \subseteq Handles
           /\ \A d \in queue : d.ids \subseteq Handles
  <1>1. ASSUME NEW p \in Passes, pass[p] # Idle PROVE pass[p].ids \subseteq Handles
    BY <1>1, Types, WorkingPass DEF Busy
  <1>2. ASSUME NEW d \in queue PROVE d.ids \subseteq Handles
    BY DEF TypeOK, Dispatch
  <1> QED BY <1>1, <1>2

LEMMA IdsStep == ASSUME TypeOK, IdsInv, [Next]_vars PROVE IdsInv'
  <1>1. ASSUME NEW p \in Passes, pass'[p] # Idle, NEW h \in pass'[p].ids
        PROVE  IssuedFor(h, pass[p])'
    <2>1. CASE Issued(p, h)
      BY <2>1 DEF Issued
    <2>2. CASE h \in pass[p].ids /\ Stands(p)
      <3>1. pass[p] # Idle /\ h \in Handles
        BY <2>2, HandlesTyped DEF Stands
      <3>2. IssuedFor(h, pass[p])
        BY <2>2, <3>1 DEF IdsInv
      <3> QED BY <2>2, <3>1, <3>2, HandleStep DEF IssuedFor, HandlesKept, Stands
    <2> QED BY <1>1, <2>1, <2>2, IdsFx
  <1>2. ASSUME NEW d \in queue', NEW h \in d.ids PROVE IssuedFor(h, d)'
    <2>1. CASE d \in queue
      <3>1. IssuedFor(h, d) /\ h \in Handles
        BY <2>1, HandlesTyped DEF IdsInv
      <3> QED BY <3>1, HandleStep DEF IssuedFor, HandlesKept
    <2>2. ASSUME NEW p \in Passes, Dispatches(p, d) PROVE IssuedFor(h, d)'
      <3>1. IssuedFor(h, pass[p])
        BY <2>2 DEF Dispatches, IdsInv
      <3> QED BY <2>2, <3>1 DEF Dispatches, IssuedFor
    <2> QED BY <2>1, <2>2, QueueFx
  <1>3. ASSUME NEW p \in Passes, NEW q \in Passes, p # q, pass'[p] # Idle, pass'[q] # Idle,
               NEW h \in pass'[p].ids, h \in pass'[q].ids
        PROVE  FALSE
    <2>1. CASE Issued(p, h)
      <3>1. pass[q] = pass'[q] /\ handle[h] = NoRecord
        BY <1>3, <2>1 DEF Issued, Others
      <3> QED BY <1>3, <3>1 DEF IdsInv, IssuedFor
    <2>2. CASE Issued(q, h)
      <3>1. pass[p] = pass'[p] /\ handle[h] = NoRecord
        BY <1>3, <2>2 DEF Issued, Others
      <3> QED BY <1>3, <3>1 DEF IdsInv, IssuedFor
    <2>3. CASE h \in pass[p].ids /\ Stands(p) /\ h \in pass[q].ids /\ Stands(q)
      BY <1>3, <2>3 DEF IdsInv, Stands
    <2> QED BY <1>3, <2>1, <2>2, <2>3, IdsFx
  <1>4. ASSUME NEW p \in Passes, NEW d \in queue', pass'[p] # Idle, NEW h \in pass'[p].ids, h \in d.ids
        PROVE  FALSE
    <2>1. CASE d \in queue
      <3>1. IssuedFor(h, d)
        BY <1>4, <2>1 DEF IdsInv
      <3>2. CASE Issued(p, h)
        BY <3>1, <3>2 DEF Issued, IssuedFor
      <3>3. CASE h \in pass[p].ids /\ Stands(p)
        BY <1>4, <2>1, <3>3 DEF IdsInv, Stands
      <3> QED BY <1>4, <3>2, <3>3, IdsFx
    <2>2. ASSUME NEW q \in Passes, Dispatches(q, d) PROVE FALSE
      <3>1. p # q /\ pass'[p] = pass[p] /\ h \in pass[q].ids /\ pass[q] # Idle
        BY <1>4, <2>2 DEF Dispatches, Others
      <3> QED BY <1>4, <3>1 DEF IdsInv
    <2> QED BY <2>1, <2>2, QueueFx
  <1> QED BY <1>1, <1>2, <1>3, <1>4 DEF IdsInv

LEMMA OwedStep == ASSUME TypeOK, OwedInv, [Next]_vars PROVE OwedInv'
  <1> DEFINE Fine(f) ==
        /\ f.step = "" => log'[f.run].state = "closed"
        /\ f.step # "" => /\ f.attempt \in 1 .. log'[f.run].attempts[f.step]
                          /\ log'[f.run].flying[f.step] # f.attempt
  <1>1. ASSUME NEW f \in owed PROVE Fine(f)
    <2>1. /\ f.run \in Runs /\ f.step \in Steps \cup {""} /\ f.attempt \in Nat
      BY DEF TypeOK, Filter
    <2>2. CASE f.step = ""
      <3>1. log'[f.run].state = "closed"
        BY <2>1, <2>2, LogStep DEF OwedInv, LogGrows
      <3> QED BY <2>2, <3>1
    <2>3. CASE f.step # ""
      <3>1. PICK r \in Runs, s \in Steps, a \in Nat : r = f.run /\ s = f.step /\ a = f.attempt
        BY <2>1, <2>3
      <3>2. a \in 1 .. log[r].attempts[s] /\ log[r].flying[s] # a
        BY <2>3, <3>1 DEF OwedInv
      <3>3. /\ log[r].attempts[s] <= log'[r].attempts[s]
            /\ \/ log'[r].flying[s] \in {0, log[r].flying[s]}
               \/ log[r].attempts[s] < log'[r].flying[s]
        BY LogStep DEF LogGrows
      <3>4. log[r].attempts[s] \in Nat /\ log'[r].attempts[s] \in Nat /\ log'[r].flying[s] \in Nat
        BY TypeStep DEF TypeOK, LogRecord
      <3>5. a \in 1 .. log'[r].attempts[s] /\ log'[r].flying[s] # a
        BY <3>2, <3>3, <3>4
      <3> QED BY <2>3, <3>1, <3>5
    <2> QED BY <2>2, <2>3
  <1> SUFFICES \A f \in owed' : Fine(f)
    BY DEF OwedInv
  <1>2. owed' \subseteq owed => \A f \in owed' : Fine(f)
    BY <1>1
  <1>3. ASSUME NEW r \in Runs, Closes(r) PROVE \A f \in owed' : Fine(f)
    <2>1. CASE owed' = owed
      BY <1>2, <2>1
    <2>2. ASSUME NEW f \in Filter, f.run = r, f.step = "", owed' = owed \cup {f}
          PROVE  \A g \in owed' : Fine(g)
      <3>1. Fine(f)
        BY <1>3, <2>2 DEF Closes
      <3> HIDE DEF Fine
      <3> QED BY <1>1, <2>2, <3>1
    <2> QED BY <1>3, <2>1, <2>2 DEF Closes
  <1>4. ASSUME NEW r \in Runs, NEW s \in Steps, NEW ok \in BOOLEAN, AttemptEnds(r, s, ok)
        PROVE  \A f \in owed' : Fine(f)
    <2>1. CASE owed' = owed
      BY <1>2, <2>1
    <2>2. CASE owed' # owed
      <3>0. PICK f \in Filter : /\ f.run = r /\ f.step = s /\ f.attempt = log[r].flying[s]
                               /\ owed' = owed \cup {f}
        BY <1>4, <2>2, AttemptEndsFx
      <3>1. /\ log'[r].attempts[s] = log[r].attempts[s] /\ log'[r].flying[s] = 0
            /\ log[r].flying[s] \in 1 .. log[r].attempts[s]
        BY <1>4, AttemptEndsFx DEF Flies
      <3>2. s # ""
        BY PolicyAssumption
      <3>3. /\ f.attempt \in 1 .. log'[f.run].attempts[f.step]
            /\ log'[f.run].flying[f.step] = 0 /\ f.attempt # 0
        BY <3>0, <3>1
      <3>4. Fine(f)
        BY <3>0, <3>2, <3>3
      <3> HIDE DEF Fine
      <3> QED BY <1>1, <3>0, <3>4
    <2> QED BY <2>1, <2>2
  <1> HIDE DEF Fine
  <1>5. ASSUME NEW p \in Passes, Fail(p) PROVE \A f \in owed' : Fine(f)
    <2>1. pass[p].run \in Runs
      BY <1>5, Types, FailFx, WorkingPass DEF Busy
    <2> QED BY <1>3, <1>5, <2>1, FailFx
  <1>6. ASSUME NEW r \in Runs, NEW b \in BOOLEAN, Close(r, b) PROVE \A f \in owed' : Fine(f)
    BY <1>3, <1>6, CloseFx
  <1>7. ASSUME NEW f \in owed, Revoke(f) PROVE \A g \in owed' : Fine(g)
    BY <1>2, <1>7, RevokeFx
  <1>8. ASSUME NEW p \in Passes,
               \/ Permit(p) \/ Place(p) \/ Issue(p) \/ Commit(p) \/ Abandon(p) \/ Crash(p)
        PROVE  owed' = owed
    BY <1>8 DEF Permit, Place, Issue, Commit, Abandon, Crash
  <1>9. ASSUME NEW p \in Passes, NEW r \in Runs, NEW s \in Steps, Begin(p, r, s) PROVE owed' = owed
    BY <1>9 DEF Begin
  <1>10. ASSUME NEW e \in Engines, NEW h \in Handles, NEW p \in Passes, Answer(e, h, p) PROVE owed' = owed
    BY <1>10 DEF Answer
  <1>11. ASSUME NEW h \in Handles, Expire(h) PROVE owed' = owed
    BY <1>11 DEF Expire
  <1>12. ASSUME NEW r \in Runs, Create(r) PROVE owed' = owed
    BY <1>12 DEF Create
  <1>13. ASSUME NEW r \in Runs, NEW s \in Steps, Sanitise(r, s) PROVE owed' = owed
    BY <1>13 DEF Sanitise
  <1>14. SweepLists \/ SweepRevokes \/ UNCHANGED Core => owed' = owed
    BY DEF SweepLists, SweepRevokes, Core
  <1> QED BY <1>2, <1>4, <1>5, <1>6, <1>7, <1>8, <1>9, <1>10, <1>11, <1>12, <1>13, <1>14, StepCases

(* The attempt a handle was issued for is over: its run is not open, or the *)
(* log has had the attempt and does not have it in flight.                  *)
Over(h) ==
    \/ log[handle[h].run].state # "open"
    \/ /\ handle[h].attempt <= log[handle[h].run].attempts[handle[h].step]
       /\ log[handle[h].run].flying[handle[h].step] # handle[h].attempt

(* The only ways to be revoked: with the pass that holds the handle and has *)
(* not committed it, or after the end of the attempt.                       *)
LEMMA DropFx ==
    ASSUME TypeOK, OwedInv, [Next]_vars, NEW h \in Handles,
           handle[h] # NoRecord, handle[h].fate # "dropped", handle'[h].fate = "dropped"
    PROVE  \/ \E p \in Passes : /\ pass[p] # Idle /\ h \in pass[p].ids /\ pass'[p] = Idle
                                /\ UNCHANGED <<log, queue>>
           \/ Over(h) /\ UNCHANGED <<log, queue, pass>>
  <1> DEFINE G == \/ \E p \in Passes : /\ pass[p] # Idle /\ h \in pass[p].ids /\ pass'[p] = Idle
                                       /\ UNCHANGED <<log, queue>>
                  \/ Over(h) /\ UNCHANGED <<log, queue, pass>>
  <1>1. handle'[h] # handle[h]
    OBVIOUS
  <1>2. ASSUME NEW p \in Passes, pass[p] # Idle, handle' = Discard(p), pass'[p] = Idle, UNCHANGED <<log, queue>>
        PROVE  G
    BY <1>1, <1>2, DiscardFx
  <1>3. ASSUME NEW p \in Passes, Issue(p) PROVE G
    <2>1. CASE pass'[p] = Idle /\ handle' = Discard(p)
      BY <1>2, <1>3, <2>1, IssueFx DEF Issue
    <2>2. CASE \E x \in Handles : /\ handle[x] = NoRecord
                                  /\ \A y \in Handles : y # x => handle'[y] = handle[y]
      BY <1>1, <2>2
    <2> QED BY <1>1, <1>3, <2>1, <2>2, IssueFx
  <1>4. ASSUME NEW p \in Passes, Commit(p) PROVE G
    BY <1>1, <1>2, <1>4, CommitFx
  <1>5. ASSUME NEW p \in Passes, Abandon(p) PROVE G
    <2>1. pass[p] # Idle /\ pass'[p] = Idle
      BY <1>5, Types, WorkingPass, EndsFx DEF Abandon, Built
    <2> QED BY <1>2, <1>5, <2>1 DEF Abandon
  <1>6. ASSUME NEW x \in Handles, Expire(x) PROVE FALSE
    BY <1>1, <1>6, Types, FateFx DEF Expire, Settles
  <1>7. ASSUME NEW e \in Engines, NEW x \in Handles, NEW p \in Passes, Answer(e, x, p) PROVE FALSE
    BY <1>1, <1>7, Types, FateFx DEF Answer, Spends, Settles
  <1>8. ASSUME NEW f \in owed, Revoke(f) PROVE G
    <2>1. /\ handle[h].run = f.run
          /\ f.step # "" => f.step = handle[h].step /\ f.attempt \in {0, handle[h].attempt}
      BY <1>1, <1>8, RevokeFx
    <2>2. Over(h)
      <3>1. CASE f.step = ""
        BY <2>1, <3>1 DEF OwedInv, Over
      <3>2. CASE f.step # ""
        <4>0. PICK r \in Runs, s \in Steps, a \in Nat : r = f.run /\ s = f.step /\ a = f.attempt
          BY <3>2 DEF TypeOK, Filter
        <4>1. PICK n \in Nat : n = log[r].attempts[s]
          BY DEF TypeOK, LogRecord
        <4>2. a \in 1 .. n /\ log[r].flying[s] # a
          BY <3>2, <4>0, <4>1 DEF OwedInv
        <4>3. handle[h].run = r /\ s = handle[h].step /\ a \in {0, handle[h].attempt}
          BY <2>1, <3>2, <4>0
        <4>4. a = handle[h].attempt /\ a <= n
          BY <4>2, <4>3
        <4> QED BY <4>1, <4>2, <4>3, <4>4 DEF Over
      <3> QED BY <3>1, <3>2
    <2> QED BY <1>8, <2>2 DEF Revoke
  <1>9. ASSUME SweepRevokes PROVE G
    <2>1. handle[h].run \in Closed
      BY <1>1, <1>9, SweepFx
    <2> QED BY <1>9, <2>1 DEF SweepRevokes, Closed, Over
  <1>10. ASSUME NEW p \in Passes, Permit(p) \/ Place(p) \/ Fail(p) \/ Crash(p) PROVE FALSE
    BY <1>1, <1>10 DEF Permit, Place, Fail, Crash
  <1>11. ASSUME NEW p \in Passes, NEW r \in Runs, NEW s \in Steps, Begin(p, r, s) PROVE FALSE
    BY <1>1, <1>11 DEF Begin
  <1>12. ASSUME NEW r \in Runs, Create(r) PROVE FALSE
    BY <1>1, <1>12 DEF Create
  <1>13. ASSUME NEW r \in Runs, NEW b \in BOOLEAN, Close(r, b) PROVE FALSE
    BY <1>1, <1>13 DEF Close
  <1>14. ASSUME NEW r \in Runs, NEW s \in Steps, Sanitise(r, s) PROVE FALSE
    BY <1>1, <1>14 DEF Sanitise
  <1>15. ASSUME NEW r \in Runs, NEW s \in Steps, NEW ok \in BOOLEAN, AttemptEnds(r, s, ok) PROVE FALSE
    BY <1>1, <1>15 DEF AttemptEnds
  <1>16. ~ (SweepLists \/ UNCHANGED Core)
    BY <1>1 DEF SweepLists, Core
  <1> HIDE DEF G
  <1>17. G
    BY <1>3, <1>4, <1>5, <1>6, <1>7, <1>8, <1>9, <1>10, <1>11, <1>12, <1>13, <1>14, <1>15, <1>16, StepCases
  <1> QED BY <1>17 DEF G

(* The run of an old pass or dispatch that is open after a step was open    *)
(* before it.                                                               *)
LEMMA WasOpen ==
    ASSUME TypeOK, [Next]_vars, NEW r \in Runs, log[r].state # "absent", log'[r].state = "open"
    PROVE  log[r].state = "open"
  <1>1. log[r].state \in {"absent", "open", "closed"}
    BY DEF TypeOK, LogRecord
  <1> QED BY <1>1, LogStep DEF LogGrows

LEMMA BuildStep ==
    ASSUME TypeOK, ReadInv, IdsInv, OwedInv, BuildInv, [Next]_vars
    PROVE  BuildInv'
  <1> SUFFICES ASSUME NEW p \in Passes, pass'[p] # Idle, log'[pass'[p].run].state = "open",
                      log'[pass'[p].run].attempts[pass'[p].step] < pass'[p].attempt,
                      NEW h \in pass'[p].ids
               PROVE  handle'[h].fate # "dropped"
    BY DEF BuildInv
  <1>1. CASE Issued(p, h)
    BY <1>1 DEF Issued
  <1>2. CASE h \in pass[p].ids /\ Stands(p)
    <2>1. pass[p] # Idle /\ pass[p] \in Busy
      BY <1>2, Types, WorkingPass DEF Stands
    <2>2. PICK r \in Runs, s \in Steps, a \in Nat : r = pass[p].run /\ s = pass[p].step /\ a = pass[p].attempt
      BY <2>1 DEF Busy
    <2>3. log'[r].state = "open" /\ log'[r].attempts[s] < a
      BY <1>2, <2>2 DEF Stands
    <2>4. log[r].state = "open"
      BY <2>1, <2>2, <2>3, WasOpen DEF ReadInv
    <2>5. log[r].attempts[s] < a
      <3>1. log[r].attempts[s] \in Nat /\ log'[r].attempts[s] \in Nat
        BY TypeStep DEF TypeOK, LogRecord
      <3> QED BY <2>3, <3>1, LogStep DEF LogGrows
    <2>6. handle[h].fate # "dropped" /\ IssuedFor(h, pass[p]) /\ h \in Handles
      BY <1>2, <2>1, <2>2, <2>4, <2>5, HandlesTyped DEF BuildInv, IdsInv
    <2>7. SUFFICES ASSUME handle'[h].fate = "dropped" PROVE FALSE
      OBVIOUS
    <2>8. ASSUME NEW q \in Passes, pass[q] # Idle, h \in pass[q].ids, pass'[q] = Idle PROVE FALSE
      <3>1. q # p
        BY <2>8
      <3> QED BY <1>2, <2>1, <2>8, <3>1 DEF IdsInv
    <2>9. ~Over(h)
      <3>1. handle[h].run = r /\ handle[h].step = s /\ handle[h].attempt = a
        BY <2>2, <2>6 DEF IssuedFor
      <3>2. log[r].attempts[s] \in Nat
        BY DEF TypeOK, LogRecord
      <3> QED BY <2>4, <2>5, <3>1, <3>2 DEF Over
    <2> QED BY <2>6, <2>7, <2>8, <2>9, DropFx DEF IssuedFor
  <1> QED BY <1>1, <1>2, IdsFx

LEMMA KeepsStep ==
    ASSUME TypeOK, ReadInv, QueueInv, IdsInv, OwedInv, BuildInv, KeepsItsHandles, [Next]_vars
    PROVE  KeepsItsHandles'
  <1> SUFFICES ASSUME NEW d \in queue', log'[d.run].state = "open",
                      log'[d.run].flying[d.step] = d.attempt, NEW h \in d.ids
               PROVE  handle'[h].fate # "dropped"
    BY DEF KeepsItsHandles
  <1>1. CASE d \in queue
    <2>1. PICK r \in Runs, s \in Steps, a \in Nat \ {0} : r = d.run /\ s = d.step /\ a = d.attempt
      BY <1>1 DEF TypeOK, Dispatch
    <2>2. log[r].state = "open"
      BY <1>1, <2>1, WasOpen DEF QueueInv
    <2>3. log[r].flying[s] = a
      <3>1. log[r].attempts[s] \in Nat /\ log'[r].flying[s] \in Nat /\ log[r].flying[s] \in Nat
        BY TypeStep DEF TypeOK, LogRecord
      <3>2. a <= log[r].attempts[s]
        BY <1>1, <2>1 DEF QueueInv
      <3>3. \/ log'[r].flying[s] \in {0, log[r].flying[s]}
            \/ log[r].attempts[s] < log'[r].flying[s]
        BY LogStep DEF LogGrows
      <3> QED BY <2>1, <3>1, <3>2, <3>3
    <2>4. handle[h].fate # "dropped" /\ IssuedFor(h, d) /\ h \in Handles
      BY <1>1, <2>1, <2>2, <2>3, HandlesTyped DEF KeepsItsHandles, IdsInv
    <2>5. SUFFICES ASSUME handle'[h].fate = "dropped" PROVE FALSE
      OBVIOUS
    <2>6. ASSUME NEW q \in Passes, pass[q] # Idle, h \in pass[q].ids PROVE FALSE
      BY <1>1, <2>6 DEF IdsInv
    <2>7. ~Over(h)
      <3>1. handle[h].run = r /\ handle[h].step = s /\ handle[h].attempt = a
        BY <2>1, <2>4 DEF IssuedFor
      <3> QED BY <2>2, <2>3, <3>1 DEF Over
    <2> QED BY <2>4, <2>5, <2>6, <2>7, DropFx DEF IssuedFor
  <1>2. ASSUME NEW p \in Passes, Dispatches(p, d) PROVE handle'[h].fate # "dropped"
    <2>1. pass[p] # Idle /\ pass[p].run \in Runs
      BY <1>2, Types, WorkingPass DEF Dispatches, Busy
    <2>2. log[pass[p].run].state = "open" /\ log[pass[p].run].attempts[pass[p].step] < pass[p].attempt
      BY <1>2, <2>1 DEF Dispatches, Flies
    <2>3. handle[h].fate # "dropped"
      BY <1>2, <2>1, <2>2 DEF BuildInv, Dispatches
    <2> QED BY <1>2, <2>3 DEF Dispatches
  <1> QED BY <1>1, <1>2, QueueFx

(* What only redemptions, issues and sweeps touch.                          *)
LEMMA GivenKept ==
    ASSUME TypeOK, [Next]_vars
    PROVE  /\ \/ given' = given
              \/ \E e \in Engines, h \in Handles, p \in Passes : Answer(e, h, p)
           /\ \/ sweep' = sweep /\ tidied' = tidied
              \/ SweepLists \/ SweepRevokes
  <1> DEFINE Same == given' = given /\ sweep' = sweep /\ tidied' = tidied
  <1>1. ASSUME NEW p \in Passes, \/ Permit(p) \/ Place(p) \/ Issue(p) \/ Commit(p)
                                 \/ Fail(p) \/ Abandon(p) \/ Crash(p)
        PROVE  Same
    BY <1>1 DEF Permit, Place, Issue, Commit, Fail, Abandon, Crash
  <1>2. ASSUME NEW p \in Passes, NEW r \in Runs, NEW s \in Steps, Begin(p, r, s) PROVE Same
    BY <1>2 DEF Begin
  <1>3. ASSUME NEW e \in Engines, NEW h \in Handles, NEW p \in Passes, Answer(e, h, p)
        PROVE  sweep' = sweep /\ tidied' = tidied
    BY <1>3 DEF Answer
  <1>4. ASSUME NEW r \in Runs, NEW s \in Steps, NEW ok \in BOOLEAN, AttemptEnds(r, s, ok) PROVE Same
    BY <1>4 DEF AttemptEnds
  <1>5. ASSUME NEW r \in Runs, NEW b \in BOOLEAN, Close(r, b) PROVE Same
    BY <1>5 DEF Close
  <1>6. ASSUME NEW h \in Handles, Expire(h) PROVE Same
    BY <1>6 DEF Expire
  <1>7. ASSUME NEW f \in owed, Revoke(f) PROVE Same
    BY <1>7 DEF Revoke
  <1>8. UNCHANGED Core => Same
    BY DEF Core
  <1>9. ASSUME NEW r \in Runs, NEW s \in Steps, Sanitise(r, s) PROVE Same
    BY <1>9 DEF Sanitise
  <1>10. ASSUME NEW r \in Runs, Create(r) PROVE Same
    BY <1>10 DEF Create
  <1>11. SweepLists \/ SweepRevokes => given' = given
    BY DEF SweepLists, SweepRevokes
  <1> QED BY <1>1, <1>2, <1>3, <1>4, <1>5, <1>6, <1>7, <1>8, <1>9, <1>10, <1>11, StepCases

LEMMA GivenFx ==
    ASSUME TypeOK, [Next]_vars, NEW x \in given', x \notin given
    PROVE  /\ x[1] \in Live /\ handle'[x[1]].fate = "spent"
           /\ given' = given \cup {x}
  <1>1. PICK e \in Engines, h \in Handles, p \in Passes : Answer(e, h, p)
    BY GivenKept
  <1>2. /\ h \in Live /\ handle' = [handle EXCEPT ![h].fate = "spent"]
        /\ given' = given \cup {<<h, e>>} /\ x = <<h, e>>
    BY <1>1 DEF Answer, Spends
  <1>3. handle'[h].fate = "spent"
    BY <1>2, Types, FateFx DEF Settles
  <1> QED BY <1>2, <1>3

LEMMA GivenStep == ASSUME TypeOK, GivenInv, [Next]_vars PROVE GivenInv'
  <1> SUFFICES ASSUME NEW x \in given' PROVE handle'[x[1]].fate = "spent"
    BY DEF GivenInv
  <1>1. CASE x \in given
    <2>1. PICK h \in Handles : h = x[1] /\ handle[h].fate = "spent"
      BY <1>1 DEF TypeOK, GivenInv
    <2>2. handle[h] # NoRecord
      BY <2>1, Types, LiveRecord
    <2> QED BY <2>1, <2>2, HandleStep DEF HandlesKept
  <1>2. CASE x \notin given
    BY <1>2, GivenFx
  <1> QED BY <1>1, <1>2

LEMMA RedeemedStep == ASSUME TypeOK, GivenInv, RedeemedOnce, [Next]_vars PROVE RedeemedOnce'
  <1> SUFFICES ASSUME NEW x \in given', NEW y \in given', x[1] = y[1] PROVE x = y
    BY DEF RedeemedOnce
  <1>1. CASE x \in given /\ y \in given
    BY <1>1 DEF RedeemedOnce
  <1>2. CASE x \notin given /\ y \notin given
    BY <1>2, GivenFx
  <1>3. ASSUME NEW u \in given', NEW v \in given', u \in given, v \notin given, u[1] = v[1] PROVE FALSE
    BY <1>3, GivenFx DEF GivenInv, Live
  <1> QED BY <1>1, <1>2, <1>3

(* A run that is settled stays so, and gets no new live handle.             *)
LEMMA SettledStays == ASSUME TypeOK, [Next]_vars, NEW r \in Settled PROVE r \in Settled'
  <1>1. r \in Runs /\ log[r].state = "closed"
    BY DEF Settled
  <1>2. log'[r].state = "closed"
    BY <1>1, LogStep DEF LogGrows
  <1>3. ASSUME NEW p \in Passes, pass'[p] # Idle PROVE pass'[p].run # r
    <2>1. CASE Began(p)
      BY <1>1, <2>1 DEF Began
    <2>2. CASE Moved(p)
      BY <2>2 DEF Moved, Stands, Settled
    <2> QED BY <1>3, <2>1, <2>2, PassStep
  <1> QED BY <1>1, <1>2, <1>3 DEF Settled

LEMMA BornFx ==
    ASSUME TypeOK, [Next]_vars, NEW h \in Handles, handle[h] = NoRecord, handle'[h] # NoRecord
    PROVE  \E p \in Passes : pass[p] # Idle /\ handle'[h].run = pass[p].run
  <1> DEFINE G == \E p \in Passes : pass[p] # Idle /\ handle'[h].run = pass[p].run
  <1>0. h \notin Live /\ handle'[h] # handle[h]
    BY Types, LiveRecord
  <1>1. ASSUME NEW p \in Passes, pass[p] # Idle, handle' = Discard(p) PROVE FALSE
    BY <1>0, <1>1, DiscardFx
  <1>2. ASSUME NEW p \in Passes, Issue(p) PROVE G
    <2>1. pass[p] # Idle
      BY <1>2, IssueFx
    <2>2. CASE \E x \in Handles : /\ handle'[x].run = pass[p].run
                                  /\ \A y \in Handles : y # x => handle'[y] = handle[y]
      BY <1>0, <2>1, <2>2
    <2> QED BY <1>0, <1>1, <1>2, <2>1, <2>2, IssueFx
  <1>3. ASSUME NEW p \in Passes, Commit(p) PROVE FALSE
    BY <1>0, <1>1, <1>3, CommitFx
  <1>4. ASSUME NEW p \in Passes, Abandon(p) PROVE FALSE
    BY <1>1, <1>4, Types, WorkingPass DEF Abandon, Built
  <1>5. ASSUME NEW x \in Handles, Expire(x) PROVE FALSE
    BY <1>0, <1>5, Types, FateFx DEF Expire
  <1>6. ASSUME NEW e \in Engines, NEW x \in Handles, NEW p \in Passes, Answer(e, x, p) PROVE FALSE
    BY <1>0, <1>6, Types, FateFx DEF Answer, Spends
  <1>7. ASSUME NEW f \in owed, Revoke(f) PROVE FALSE
    BY <1>0, <1>7, RevokeFx
  <1>8. ASSUME SweepRevokes PROVE FALSE
    BY <1>0, <1>8, SweepFx
  <1>9. ASSUME NEW p \in Passes, Permit(p) \/ Place(p) \/ Fail(p) \/ Crash(p) PROVE FALSE
    BY <1>0, <1>9 DEF Permit, Place, Fail, Crash
  <1>10. ASSUME NEW p \in Passes, NEW r \in Runs, NEW s \in Steps, Begin(p, r, s) PROVE FALSE
    BY <1>0, <1>10 DEF Begin
  <1>11. ASSUME NEW r \in Runs, Create(r) PROVE FALSE
    BY <1>0, <1>11 DEF Create
  <1>12. ASSUME NEW r \in Runs, NEW b \in BOOLEAN, Close(r, b) PROVE FALSE
    BY <1>0, <1>12 DEF Close
  <1>13. ASSUME NEW r \in Runs, NEW s \in Steps, Sanitise(r, s) PROVE FALSE
    BY <1>0, <1>13 DEF Sanitise
  <1>14. ASSUME NEW r \in Runs, NEW s \in Steps, NEW ok \in BOOLEAN, AttemptEnds(r, s, ok) PROVE FALSE
    BY <1>0, <1>14 DEF AttemptEnds
  <1>15. ~ (SweepLists \/ UNCHANGED Core)
    BY <1>0 DEF SweepLists, Core
  <1> HIDE DEF G
  <1>16. G
    BY <1>2, <1>3, <1>4, <1>5, <1>6, <1>7, <1>8, <1>9, <1>10, <1>11, <1>12, <1>13, <1>14, <1>15, StepCases
  <1> QED BY <1>16 DEF G

LEMMA LiveWas ==
    ASSUME TypeOK, [Next]_vars, NEW r \in Settled, NEW h \in Live', handle'[h].run = r
    PROVE  h \in Live /\ handle[h].run = r
  <1>1. h \in Handles /\ handle'[h].fate = "live"
    BY DEF Live
  <1>2. CASE handle[h] = NoRecord
    <2>1. handle'[h] # NoRecord
      BY <1>1 DEF NoRecord
    <2>2. PICK p \in Passes : pass[p] # Idle /\ pass[p].run = r
      BY <1>1, <1>2, <2>1, BornFx
    <2> QED BY <2>2 DEF Settled
  <1>3. CASE handle[h] # NoRecord
    BY <1>1, <1>3, HandleStep DEF HandlesKept, Live
  <1> QED BY <1>2, <1>3

LEMMA SweepStep ==
    ASSUME TypeOK, SweepInv, HandlesDieInOneTick, [Next]_vars
    PROVE  SweepInv' /\ HandlesDieInOneTick'
  <1>1. ASSUME NEW r \in tidied, NEW h \in Live', handle'[h].run = r PROVE FALSE
    <2>1. r \in Settled
      BY DEF SweepInv
    <2>2. h \in Live /\ handle[h].run = r
      BY <1>1, <2>1, LiveWas
    <2> QED BY <2>2 DEF HandlesDieInOneTick
  <1>2. \A r \in tidied : r \in Settled'
    BY SettledStays DEF SweepInv
  <1>3. CASE sweep' = sweep /\ tidied' = tidied
    <2>1. ASSUME NEW r \in sweep.settled
          PROVE  r \in Settled' /\ \A h \in Live' : handle'[h].run = r => r \in sweep.runs
      <3>1. r \in Settled /\ \A h \in Live : handle[h].run = r => r \in sweep.runs
        BY DEF SweepInv
      <3> QED BY <3>1, SettledStays, LiveWas
    <2> QED BY <1>1, <1>2, <1>3, <2>1 DEF SweepInv, HandlesDieInOneTick
  <1>4. CASE SweepLists
    <2>1. tidied' = tidied /\ sweep'.settled = Settled /\ sweep'.runs = Candidates
      BY <1>4 DEF SweepLists
    <2>2. Settled' = Settled /\ Live' = Live /\ handle' = handle
      BY <1>4 DEF SweepLists, Settled, Live
    <2>3. \A h \in Live : handle[h].run \in Candidates
      BY DEF Candidates
    <2> QED BY <1>1, <1>2, <2>1, <2>2, <2>3 DEF SweepInv, HandlesDieInOneTick
  <1>5. CASE SweepRevokes
    <2>1. tidied' = tidied \cup sweep.settled /\ sweep'.settled = {}
      BY <1>5 DEF SweepRevokes, NoSweep
    <2>2. ASSUME NEW r \in sweep.settled PROVE r \in Settled' /\ \A h \in Live' : handle'[h].run # r
      <3>1. r \in Settled /\ \A h \in Live : handle[h].run = r => r \in sweep.runs
        BY DEF SweepInv
      <3>2. ASSUME NEW h \in Live', handle'[h].run = r PROVE FALSE
        <4>1. h \in Live /\ handle[h].run = r
          BY <3>1, <3>2, LiveWas
        <4>2. r \in Closed
          BY <3>1, <4>1 DEF Closed, Settled
        <4>3. handle'[h].fate = "dropped"
          BY <1>5, <4>1, <4>2, SweepFx DEF Settles, Live
        <4> QED BY <3>2, <4>3 DEF Live
      <3> QED BY <3>1, <3>2, SettledStays
    <2> QED BY <1>1, <1>2, <2>1, <2>2 DEF SweepInv, HandlesDieInOneTick
  <1> QED BY <1>3, <1>4, <1>5, GivenKept

--------------------------------------------------------------------------------
(* The theorems.                                                            *)

LEMMA InitInv == Init => IInv
  <1> SUFFICES ASSUME Init PROVE IInv
    OBVIOUS
  <1>1. TypeOK
    BY InitType
  <1>2. \A p \in Passes : pass[p] = Idle /\ pass[p].at = "idle"
    BY DEF Init, Idle
  <1>3. sweep.settled = {}
    BY DEF Init, NoSweep
  <1>4. queue = {} /\ owed = {} /\ given = {} /\ tidied = {}
    BY DEF Init
  <1>5. ReadInv /\ TrustInv /\ IdsInv /\ BuildInv
    BY <1>2, <1>4 DEF ReadInv, TrustInv, IdsInv, BuildInv
  <1>6. QueueInv /\ OwedInv /\ GivenInv /\ SweepInv
    BY <1>3, <1>4 DEF QueueInv, OwedInv, GivenInv, SweepInv
  <1>7. KeepsItsHandles /\ RedeemedOnce /\ HandlesDieInOneTick
    BY <1>4 DEF KeepsItsHandles, RedeemedOnce, HandlesDieInOneTick
  <1> QED BY <1>1, <1>5, <1>6, <1>7 DEF IInv

LEMMA StepInv == IInv /\ [Next]_vars => IInv'
  <1> SUFFICES ASSUME IInv, [Next]_vars PROVE IInv'
    OBVIOUS
  <1>1. TypeOK' /\ ReadInv' /\ TrustInv' /\ QueueInv'
    BY TypeStep, ReadStep, TrustStep, QueueStep DEF IInv
  <1>2. IdsInv' /\ OwedInv' /\ BuildInv' /\ KeepsItsHandles'
    BY IdsStep, OwedStep, BuildStep, KeepsStep DEF IInv
  <1>3. GivenInv' /\ RedeemedOnce' /\ SweepInv' /\ HandlesDieInOneTick'
    BY GivenStep, RedeemedStep, SweepStep DEF IInv
  <1> QED BY <1>1, <1>2, <1>3 DEF IInv

(* The passes, the log, the handles and the sweeps of any number of planes  *)
(* stay in step: IInv is an invariant.                                      *)
THEOREM HandlesAgree == Spec => []IInv
  BY InitInv, StepInv, PTL DEF Spec

(* Every variable keeps its type, an attempt never exceeds its tries, and   *)
(* what is in flight is the last attempt.                                   *)
THEOREM GateTypeOK == Spec => []TypeOK
  <1>1. IInv => TypeOK
    BY DEF IInv
  <1> QED BY <1>1, HandlesAgree, PTL

(* The attempt in flight of an open run keeps the handles its dispatch      *)
(* carries, whoever revokes what: dispatch, discardSecrets, revokeSecrets   *)
(* and RevokeClosedRuns.                                                    *)
THEOREM HandlesAreKept == Spec => []KeepsItsHandles
  <1>1. IInv => KeepsItsHandles
    BY DEF IInv
  <1> QED BY <1>1, HandlesAgree, PTL

(* A handle is answered with a value once: KVHandles.Spend.                 *)
THEOREM HandlesAreSpentOnce == Spec => []RedeemedOnce
  <1>1. IInv => RedeemedOnce
    BY DEF IInv
  <1> QED BY <1>1, HandlesAgree, PTL

(* A closed run no pass works on has no live handle after a sweep that      *)
(* listed since: RevokeClosedRuns.                                          *)
THEOREM HandlesDie == Spec => []HandlesDieInOneTick
  <1>1. IInv => HandlesDieInOneTick
    BY DEF IInv
  <1> QED BY <1>1, HandlesAgree, PTL

(* Whatever the pipeline, the fleet and the tier's own rules, no step with  *)
(* an effect is dispatched on data of a trigger that no gate cleared on the *)
(* way: permit, taintSources and the policy's floor.                        *)
THEOREM UntrustedNeverActs == Spec => NothingUntrustedActs
  <1> DEFINE Acts == \A d \in queue' \ queue :
                        Effect[d.step] # "PURE" => Untrusted(d.step, log[d.run].sanitised) = {}
  <1>1. IInv /\ [Next]_vars => [Acts]_vars
    <2> SUFFICES ASSUME IInv, [Next]_vars, NEW d \in queue' \ queue, Effect[d.step] # "PURE"
                 PROVE  Untrusted(d.step, log[d.run].sanitised) = {}
      OBVIOUS
    <2>0. TypeOK /\ ReadInv /\ TrustInv
      BY DEF IInv
    <2>1. PICK p \in Passes : Dispatches(p, d)
      BY <2>0, QueueFx
    <2>2. /\ pass[p] # Idle /\ pass[p].at = "issue"
          /\ d.run = pass[p].run /\ d.step = pass[p].step
      BY <2>1 DEF Dispatches
    <2>3. PICK s \in Steps, saw \in [Steps -> SUBSET Triggers] : s = pass[p].step /\ saw = pass[p].saw
      BY <2>0, <2>2, Types, WorkingPass DEF Busy
    <2>4. Untrusted(s, saw) = {}
      BY <2>0, <2>2, <2>3 DEF TrustInv
    <2>5. \A t \in Steps : saw[t] \subseteq log[d.run].sanitised[t]
      BY <2>0, <2>2, <2>3 DEF ReadInv
    <2>6. Untrusted(s, log[d.run].sanitised) \subseteq Untrusted(s, saw)
      BY <2>5, ClearingIsMonotone
    <2> QED BY <2>2, <2>3, <2>4, <2>6
  <1>2. NothingUntrustedActs <=> [][Acts]_vars
    BY DEF NothingUntrustedActs
  <1> QED BY <1>1, <1>2, HandlesAgree, PTL DEF Spec

=============================================================================
