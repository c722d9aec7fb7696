------------------------- MODULE ControlPlaneProofs -------------------------
(***************************************************************************)
(* Proofs about what the control planes of one deployment share.            *)
(*                                                                         *)
(* The event sources (Triggers), for any number of planes, triggers and     *)
(* revisions, any period and any lease: a schedule runs once per missed     *)
(* window and in order, a run's inputs fit the revision it has pinned, and  *)
(* a deleted trigger starts nothing more on a plane that has seen it gone.  *)
(*                                                                         *)
(* The ring of partitions (Partitions), for any number of planes and        *)
(* partitions, any TTL and any number of faults: one plane advances the     *)
(* runs of a partition at a time.                                           *)
(*                                                                         *)
(* Admission (Admission, FairQueue), for any number of planes, workers,     *)
(* runs, steps and slots: covered dispatches never outnumber a pipeline's   *)
(* budget, a slot kept alive is one somebody still answers for, and what a  *)
(* plane marks as pending is what it has queued or in hand.                 *)
(***************************************************************************)
EXTENDS Triggers, Partitions, Admission, TLAPS, SequenceTheorems, FiniteSetTheorems,
        NaturalsInduction, WellFoundedInduction


-----------------------------------------------------------------------------
(* The inductive invariant.                                                 *)

\* What runs on a plane is what is live there, and never a version the plane
\* has seen gone: versions are not used again.
LiveInv ==
    /\ \A id \in Ids : table[id] <= versions
    /\ \A p \in Planes : \A v \in dropped[p] : v <= versions /\ \A id \in Ids : table[id] # v
    /\ \A p \in Planes, id \in Ids :
          /\ live[p][id].ver \notin dropped[p]
          /\ live[p][id].declared => live[p][id].ver = FileVer
          /\ live[p][id] # NotLive => live[p][id].ver \in Rows /\ live[p][id].rev \in Revisions
    /\ \A p \in Planes : \A x \in loops[p] : live[p][x[1]].ver = x[2]
    /\ \A p \in Planes : \A x \in mux[p] : live[p][x[1]].ver = x[2]
    /\ \A p \in Planes \ up : loops[p] = {}

SilentInv ==
    /\ \A f \in firing : ~f.ghost
    /\ \A r \in runs : ~r.ghost

FitInv ==
    /\ \A f \in firing : f.stage = "checked" => ValidateInputs(f.rev)
    /\ \A r \in runs : ValidateInputs(r.rev)

\* One of the two is for a boundary that had not come when the other was claimed.
Apart(x, y) == x.occ > y.at \/ y.occ > x.at

\* Claimed at a boundary that had come, with the row since moved past the claim.
Claimed(x) == x.occ <= x.at /\ x.at \in 0 .. now /\ x.at < due[x.id]

Pending(f) == f.stage \in {"fired", "checked"}

WindowInv ==
    /\ \A f \in firing : f.id \in Schedules => Claimed(f)
    /\ \A r \in runs : r.id \in Schedules => Claimed(r)
    /\ \A r, o \in runs : r.id \in Schedules /\ r.id = o.id /\ r # o => Apart(r, o)
    /\ \A f \in firing, r \in runs : Pending(f) /\ f.id \in Schedules /\ f.id = r.id => Apart(f, r)
    /\ \A f, g \in firing : Pending(f) /\ Pending(g) /\ f.id \in Schedules /\ f.id = g.id /\ f # g
                                => Apart(f, g)

\* While no fire outlasts its lease, the mark is the one fire's under way.
FlightInv ==
    ~overran =>
        /\ \A f \in firing : f.id \in Schedules => mark[f.id] = f.at /\ now - f.at < Lease
        /\ \A f, g \in firing : f.id \in Schedules /\ f.id = g.id => f = g

IInv == TypeOK /\ LiveInv /\ SilentInv /\ FitInv /\ WindowInv /\ FlightInv

FireInv == SilentInv /\ FitInv /\ WindowInv /\ FlightInv

-----------------------------------------------------------------------------
(* The next boundary is after now and at most a period away.                *)
LEMMA NextBoundary ==
    ASSUME NEW t \in Nat
    PROVE  NextDue(t) \in t + 1 .. t + Period
<1>1. Period \in Nat \ {0}
  BY TriggersAssumption
<1>2. /\ t \div Period \in Nat /\ Period * (t \div Period) <= t
      /\ t < Period * (t \div Period) + Period
  BY <1>1
<1> QED BY <1>1, <1>2 DEF NextDue

\* The fires under way are those that were: some have ended, some have moved on.
Carried ==
    \A f, g \in firing' : \E x, y \in firing :
        /\ f.id = x.id /\ f.occ = x.occ /\ f.at = x.at /\ f.ghost = x.ghost
        /\ g.id = y.id /\ g.occ = y.occ /\ g.at = y.at /\ g.ghost = y.ghost
        /\ Pending(f) => Pending(x)
        /\ Pending(g) => Pending(y)
        /\ f # g => x # y

(* A step in which fires move on, and no other is begun.                    *)
LEMMA FiresKept ==
    ASSUME IInv, Carried, UNCHANGED <<now, due, mark, overran, runs>>,
           \A f \in firing' : f.stage = "checked" => ValidateInputs(f.rev)
    PROVE  FireInv'
<1>1. \A f \in firing' : \E x \in firing :
          /\ f.id = x.id /\ f.occ = x.occ /\ f.at = x.at /\ f.ghost = x.ghost
          /\ Pending(f) => Pending(x)
  BY DEF Carried
<1>2. SilentInv'
  BY <1>1 DEF IInv, SilentInv
<1>3. FitInv'
  BY DEF IInv, FitInv
<1>4. WindowInv'
  <2>1. \A f \in firing' : f.id \in Schedules => Claimed(f)'
    BY <1>1 DEF IInv, WindowInv, Claimed
  <2>2. \A r \in runs : r.id \in Schedules => Claimed(r)'
    BY DEF IInv, WindowInv, Claimed
  <2>3. \A f \in firing', r \in runs : Pending(f) /\ f.id \in Schedules /\ f.id = r.id => Apart(f, r)
    BY <1>1 DEF IInv, WindowInv, Apart
  <2>4. ASSUME NEW f \in firing', NEW g \in firing', Pending(f), Pending(g), f.id \in Schedules,
               f.id = g.id, f # g
        PROVE  Apart(f, g)
    <3>1. PICK x \in firing, y \in firing :
              /\ f.id = x.id /\ f.occ = x.occ /\ f.at = x.at
              /\ g.id = y.id /\ g.occ = y.occ /\ g.at = y.at
              /\ Pending(x) /\ Pending(y) /\ x # y
      BY <2>4 DEF Carried
    <3> QED BY <2>4, <3>1 DEF IInv, WindowInv, Apart
  <2> QED BY <2>1, <2>2, <2>3, <2>4 DEF IInv, WindowInv
<1>5. FlightInv'
  <2> SUFFICES ASSUME ~overran
               PROVE  /\ \A f \in firing' : f.id \in Schedules => mark[f.id] = f.at /\ now - f.at < Lease
                      /\ \A f, g \in firing' : f.id \in Schedules /\ f.id = g.id => f = g
    BY DEF FlightInv
  <2>1. \A f \in firing' : f.id \in Schedules => mark[f.id] = f.at /\ now - f.at < Lease
    BY <1>1 DEF IInv, FlightInv
  <2>2. \A f, g \in firing' : f.id \in Schedules /\ f.id = g.id => f = g
    BY DEF IInv, FlightInv, Carried
  <2> QED BY <2>1, <2>2
<1> QED BY <1>2, <1>3, <1>4, <1>5 DEF FireInv

(* Nothing about fires changes.                                             *)
LEMMA FiresSame ==
    ASSUME IInv, UNCHANGED <<now, due, mark, overran, runs, firing>>
    PROVE  FireInv'
<1>1. Carried
  BY DEF Carried
<1>2. \A f \in firing' : f.stage = "checked" => ValidateInputs(f.rev)
  BY DEF IInv, FitInv
<1> QED BY <1>1, <1>2, FiresKept

-----------------------------------------------------------------------------
(* Operators, editors and planes.                                           *)

LEMMA ApproveStep ==
    ASSUME IInv, NEW r \in Revisions, Approve(r)
    PROVE  IInv'
<1>1. TypeOK'
  BY DEF Approve, IInv, TypeOK, rowVars, planeVars, counts
<1>2. LiveInv'
  BY DEF Approve, IInv, LiveInv, planeVars
<1>3. FireInv'
  BY FiresSame DEF Approve, rowVars
<1> QED BY <1>1, <1>2, <1>3 DEF IInv, FireInv

(* A new row takes a version nobody has had.                                *)
LEMMA CreateTriggerStep ==
    ASSUME IInv, NEW p \in Planes, NEW id \in Ids, CreateTrigger(p, id)
    PROVE  IInv'
<1>1. /\ versions < MaxVersions /\ versions' = versions + 1 /\ versions \in 0 .. MaxVersions
      /\ table' = [table EXCEPT ![id] = versions + 1] /\ MaxVersions \in Nat
      /\ UNCHANGED <<now, active, rowVars, planeVars, firing, runs, counts>>
  BY TriggersAssumption DEF CreateTrigger, Create, IInv, TypeOK
<1>2. TypeOK'
  <2>1. versions' \in 0 .. MaxVersions /\ table' \in [Ids -> Rows \cup {NoRow}]
    BY <1>1 DEF IInv, TypeOK, Rows
  <2> QED BY <1>1, <2>1 DEF IInv, TypeOK, rowVars, planeVars, counts
<1>3. LiveInv'
  <2>1. \A x \in Ids : table'[x] = IF x = id THEN versions + 1 ELSE table[x]
    BY <1>1 DEF IInv, TypeOK
  <2>2. \A x \in Ids : table[x] \in Int
    BY <1>1 DEF IInv, TypeOK, Rows, NoRow, None
  <2>3. \A x \in Ids : table'[x] <= versions'
    BY <1>1, <2>1, <2>2 DEF IInv, LiveInv
  <2>4. \A q \in Planes : \A v \in dropped[q] : v <= versions' /\ \A x \in Ids : table'[x] # v
    <3>1. \A q \in Planes : \A v \in dropped[q] : v \in Nat
      BY <1>1 DEF IInv, TypeOK
    <3> QED BY <1>1, <2>1, <3>1 DEF IInv, LiveInv
  <2> QED BY <1>1, <2>3, <2>4 DEF IInv, LiveInv, planeVars
<1>4. FireInv'
  BY <1>1, FiresSame DEF rowVars
<1> QED BY <1>2, <1>3, <1>4 DEF IInv, FireInv

LEMMA DeleteTriggerStep ==
    ASSUME IInv, NEW p \in Planes, NEW id \in Ids, DeleteTrigger(p, id)
    PROVE  IInv'
<1>1. /\ table' = [table EXCEPT ![id] = NoRow] /\ versions \in 0 .. MaxVersions
      /\ UNCHANGED <<now, active, rowVars, planeVars, firing, runs, versions, counts>>
  BY DEF DeleteTrigger, Delete, IInv, TypeOK
<1>2. TypeOK'
  BY <1>1 DEF IInv, TypeOK, rowVars, planeVars, counts
<1>3. LiveInv'
  <2>1. \A x \in Ids : table'[x] = IF x = id THEN None ELSE table[x]
    BY <1>1 DEF IInv, TypeOK, NoRow
  <2>2. \A x \in Ids : table'[x] <= versions
    BY <1>1, <2>1 DEF IInv, LiveInv, None
  <2>3. \A q \in Planes : \A v \in dropped[q] : v # None
    BY DEF IInv, TypeOK, None
  <2>4. \A q \in Planes : \A v \in dropped[q] : \A x \in Ids : table'[x] # v
    BY <2>1, <2>3 DEF IInv, LiveInv
  <2> QED BY <1>1, <2>2, <2>4 DEF IInv, LiveInv, planeVars
<1>4. FireInv'
  BY <1>1, FiresSame DEF rowVars
<1> QED BY <1>2, <1>3, <1>4 DEF IInv, FireInv

\* What may be live on a plane that has seen the versions D gone.
GoodLive(l, D) ==
    /\ l \in [Ids -> [ver : Rows \cup {None}, declared : BOOLEAN, rev : Revisions \cup {None}]]
    /\ \A id \in Ids : /\ l[id].ver \notin D
                       /\ l[id].declared => l[id].ver = FileVer
                       /\ l[id] # NotLive => l[id].ver \in Rows /\ l[id].rev \in Revisions

LoopsOf(l) == {<<s, l[s].ver>> : s \in {x \in Schedules : l[x] # NotLive}}

(* What is live on one plane, its endpoints and its loops change together.  *)
LEMMA PlaneChanges ==
    ASSUME IInv, NEW p \in Planes, NEW l, NEW M, NEW L, NEW D \in SUBSET (1 .. versions),
           GoodLive(l, dropped[p] \cup D), \A v \in D : \A id \in Ids : table[id] # v,
           M \in {{}, MuxOf(l)}, L \in {{}, LoopsOf(l)},
           live' = [live EXCEPT ![p] = l], mux' = [mux EXCEPT ![p] = M],
           loops' = [loops EXCEPT ![p] = L], dropped' = [dropped EXCEPT ![p] = @ \cup D],
           up' \in SUBSET Planes, up \ {p} \subseteq up', p \in up' \/ L = {},
           UNCHANGED <<table, versions>>
    PROVE  /\ LiveInv'
           /\ live' \in [Planes -> [Ids -> [ver : Rows \cup {None}, declared : BOOLEAN,
                                            rev : Revisions \cup {None}]]]
           /\ mux' \in [Planes -> SUBSET (Hooks \X Rows \X Revisions)]
           /\ loops' \in [Planes -> SUBSET (Schedules \X Rows)]
           /\ dropped' \in [Planes -> SUBSET (1 .. MaxVersions)]
<1>1. TypeOK /\ LiveInv /\ versions \in 0 .. MaxVersions /\ MaxVersions \in Nat
  BY TriggersAssumption DEF IInv, TypeOK
<1>2. Schedules \subseteq Ids /\ Hooks \subseteq Ids
  BY DEF Ids
<1>3. /\ M \in SUBSET (Hooks \X Rows \X Revisions)
      /\ \A x \in M : l[x[1]].ver = x[2]
  <2>1. \A id \in {h \in Hooks : l[h] # NotLive} : l[id].ver \in Rows /\ l[id].rev \in Revisions
    BY <1>2 DEF GoodLive
  <2> QED BY <2>1 DEF MuxOf
<1>4. /\ L \in SUBSET (Schedules \X Rows)
      /\ \A x \in L : l[x[1]].ver = x[2]
  <2>1. \A id \in {s \in Schedules : l[s] # NotLive} : l[id].ver \in Rows
    BY <1>2 DEF GoodLive
  <2> QED BY <2>1 DEF LoopsOf
<1>5. D \in SUBSET (1 .. MaxVersions)
  BY <1>1
<1>6. /\ \A q \in Planes : live'[q] = IF q = p THEN l ELSE live[q]
      /\ \A q \in Planes : mux'[q] = IF q = p THEN M ELSE mux[q]
      /\ \A q \in Planes : loops'[q] = IF q = p THEN L ELSE loops[q]
      /\ \A q \in Planes : dropped'[q] = IF q = p THEN dropped[p] \cup D ELSE dropped[q]
  BY <1>1 DEF TypeOK
<1>7. /\ live' \in [Planes -> [Ids -> [ver : Rows \cup {None}, declared : BOOLEAN,
                                       rev : Revisions \cup {None}]]]
      /\ mux' \in [Planes -> SUBSET (Hooks \X Rows \X Revisions)]
      /\ loops' \in [Planes -> SUBSET (Schedules \X Rows)]
      /\ dropped' \in [Planes -> SUBSET (1 .. MaxVersions)]
  BY <1>1, <1>3, <1>4, <1>5 DEF TypeOK, GoodLive
<1>8. LiveInv'
  <2>1. \A q \in Planes : \A v \in dropped'[q] : v <= versions /\ \A id \in Ids : table[id] # v
    <3>1. \A v \in D : v <= versions
      BY <1>1
    <3>2. ASSUME NEW q \in Planes, NEW v \in dropped'[q]
          PROVE  v <= versions /\ \A id \in Ids : table[id] # v
      <4>1. v \in dropped[q] \/ v \in D
        BY <1>6, <3>2
      <4> QED BY <1>1, <3>1, <4>1 DEF LiveInv
    <3> QED BY <3>2
  <2>2. \A q \in Planes, id \in Ids :
          /\ live'[q][id].ver \notin dropped'[q]
          /\ live'[q][id].declared => live'[q][id].ver = FileVer
          /\ live'[q][id] # NotLive => live'[q][id].ver \in Rows /\ live'[q][id].rev \in Revisions
    BY <1>1, <1>6 DEF LiveInv, GoodLive
  <2>3. \A q \in Planes : \A x \in loops'[q] : live'[q][x[1]].ver = x[2]
    BY <1>1, <1>4, <1>6 DEF LiveInv
  <2>4. \A q \in Planes : \A x \in mux'[q] : live'[q][x[1]].ver = x[2]
    BY <1>1, <1>3, <1>6 DEF LiveInv
  <2>5. \A q \in Planes \ up' : loops'[q] = {}
    BY <1>1, <1>6 DEF LiveInv
  <2> QED BY <1>1, <2>1, <2>2, <2>3, <2>4, <2>5 DEF LiveInv
<1> QED BY <1>7, <1>8

(* startTrigger leaves what may be live.                                    *)
LEMMA StartedIsGood ==
    ASSUME TypeOK, NEW ver \in Rows, NEW declared \in BOOLEAN,
           NEW x, x = StartTrigger(ver, declared)
    PROVE  /\ x \in [ver : Rows \cup {None}, declared : BOOLEAN, rev : Revisions \cup {None}]
           /\ x = NotLive \/ (x.ver = ver /\ x.declared = declared /\ x.rev \in Revisions)
BY DEF StartTrigger, NotLive, TypeOK

LEMMA NotLiveType ==
    /\ NotLive \in [ver : Rows \cup {None}, declared : BOOLEAN, rev : Revisions \cup {None}]
    /\ NotLive.ver = None /\ ~NotLive.declared
BY DEF NotLive

(* startTriggers: what a file declares was never a row of the table.        *)
LEMMA StartPlaneStep ==
    ASSUME IInv, NEW p \in Planes, StartPlane(p)
    PROVE  IInv'
<1>1. PICK l : /\ l = [id \in Ids |-> IF Declares(p, id) THEN StartTrigger(FileVer, TRUE) ELSE NotLive]
               /\ live' = [live EXCEPT ![p] = l] /\ mux' = [mux EXCEPT ![p] = MuxOf(l)]
  BY DEF StartPlane
<1>2. /\ p \notin up /\ up' = up \cup {p}
      /\ UNCHANGED <<now, active, table, rowVars, loops, dropped, firing, runs, versions, counts>>
  BY DEF StartPlane
<1>3. TypeOK /\ LiveInv /\ FileVer \in Rows /\ TRUE \in BOOLEAN
  BY TriggersAssumption DEF IInv, FileVer, Rows
<1>4. \A v \in dropped[p] : v # FileVer /\ v # None
  BY <1>3 DEF TypeOK, FileVer, None
<1>5. ASSUME NEW id \in Ids
      PROVE  /\ l[id] \in [ver : Rows \cup {None}, declared : BOOLEAN, rev : Revisions \cup {None}]
             /\ l[id] = NotLive \/ (l[id].ver = FileVer /\ l[id].rev \in Revisions)
  <2>1. l[id] = NotLive \/ l[id] = StartTrigger(FileVer, TRUE)
    BY <1>1
  <2> QED BY <1>3, <2>1, StartedIsGood, NotLiveType
<1>6. GoodLive(l, dropped[p] \cup {})
  BY <1>1, <1>3, <1>4, <1>5, NotLiveType DEF GoodLive
<1>7. /\ loops[p] = {} /\ loops' = [loops EXCEPT ![p] = {}]
      /\ dropped' = [dropped EXCEPT ![p] = @ \cup {}]
  BY <1>2, <1>3 DEF LiveInv, TypeOK
<1>8. up' \in SUBSET Planes /\ up \ {p} \subseteq up' /\ {} \in SUBSET (1 .. versions)
  BY <1>2, <1>3 DEF TypeOK
<1>9. /\ LiveInv'
      /\ live' \in [Planes -> [Ids -> [ver : Rows \cup {None}, declared : BOOLEAN,
                                       rev : Revisions \cup {None}]]]
      /\ mux' \in [Planes -> SUBSET (Hooks \X Rows \X Revisions)]
  BY <1>1, <1>2, <1>6, <1>7, <1>8, PlaneChanges
<1>10. TypeOK'
  BY <1>2, <1>3, <1>8, <1>9 DEF TypeOK, rowVars, counts
<1>11. FireInv'
  BY <1>2, FiresSame DEF rowVars
<1> QED BY <1>9, <1>10, <1>11 DEF IInv, FireInv

\* The fire x once its context is cancelled.
CancelledOf(x) == [x EXCEPT !.cancelled = TRUE]

(* Fires of which some are cancelled.                                       *)
LEMMA CancelledFires ==
    ASSUME IInv, NEW C, firing' = {IF x \in C THEN CancelledOf(x) ELSE x : x \in firing}
    PROVE  /\ Carried
           /\ \A f \in firing' : f.stage = "checked" => ValidateInputs(f.rev)
           /\ firing' \subseteq [plane : Planes, id : Ids, ver : Rows, occ : Int, at : Int,
                                 stage : {"fired", "checked", "done"}, rev : Revisions \cup {None},
                                 cancelled : BOOLEAN, ghost : BOOLEAN]
<1>1. firing \subseteq [plane : Planes, id : Ids, ver : Rows, occ : Int, at : Int,
                        stage : {"fired", "checked", "done"}, rev : Revisions \cup {None},
                        cancelled : BOOLEAN, ghost : BOOLEAN]
  BY DEF IInv, TypeOK
<1>2. ASSUME NEW x \in firing, NEW f, f = CancelledOf(x)
      PROVE  /\ f.id = x.id /\ f.occ = x.occ /\ f.at = x.at /\ f.ghost = x.ghost
             /\ f.stage = x.stage /\ f.rev = x.rev
             /\ f \in [plane : Planes, id : Ids, ver : Rows, occ : Int, at : Int,
                       stage : {"fired", "checked", "done"}, rev : Revisions \cup {None},
                       cancelled : BOOLEAN, ghost : BOOLEAN]
  BY <1>1, <1>2 DEF CancelledOf
<1>3. \A f \in firing' : \E x \in firing :
          f = (IF x \in C THEN CancelledOf(x) ELSE x)
  OBVIOUS
<1>4. \A f, g \in firing' : \E x, y \in firing :
          /\ f = (IF x \in C THEN CancelledOf(x) ELSE x)
          /\ g = (IF y \in C THEN CancelledOf(y) ELSE y)
  BY <1>3
<1>5. \A x \in firing : LET f == IF x \in C THEN CancelledOf(x) ELSE x IN
          /\ f.id = x.id /\ f.occ = x.occ /\ f.at = x.at /\ f.ghost = x.ghost
          /\ f.stage = x.stage /\ f.rev = x.rev
          /\ f \in [plane : Planes, id : Ids, ver : Rows, occ : Int, at : Int,
                    stage : {"fired", "checked", "done"}, rev : Revisions \cup {None},
                    cancelled : BOOLEAN, ghost : BOOLEAN]
  BY <1>1, <1>2
<1>6. Carried
  <2> SUFFICES ASSUME NEW f \in firing', NEW g \in firing'
               PROVE  \E x, y \in firing :
                          /\ f.id = x.id /\ f.occ = x.occ /\ f.at = x.at /\ f.ghost = x.ghost
                          /\ g.id = y.id /\ g.occ = y.occ /\ g.at = y.at /\ g.ghost = y.ghost
                          /\ Pending(f) => Pending(x)
                          /\ Pending(g) => Pending(y)
                          /\ f # g => x # y
    BY DEF Carried
  <2>1. PICK x \in firing, y \in firing :
          /\ f = (IF x \in C THEN CancelledOf(x) ELSE x)
          /\ g = (IF y \in C THEN CancelledOf(y) ELSE y)
    BY <1>4
  <2>2. /\ f.id = x.id /\ f.occ = x.occ /\ f.at = x.at /\ f.ghost = x.ghost /\ f.stage = x.stage
        /\ g.id = y.id /\ g.occ = y.occ /\ g.at = y.at /\ g.ghost = y.ghost /\ g.stage = y.stage
    BY <1>5, <2>1
  <2>3. f # g => x # y
    BY <2>1
  <2> QED BY <2>2, <2>3 DEF Pending
<1>7. ASSUME NEW f \in firing'
      PROVE  /\ f.stage = "checked" => ValidateInputs(f.rev)
             /\ f \in [plane : Planes, id : Ids, ver : Rows, occ : Int, at : Int,
                       stage : {"fired", "checked", "done"}, rev : Revisions \cup {None},
                       cancelled : BOOLEAN, ghost : BOOLEAN]
  <2>1. PICK x \in firing : f = (IF x \in C THEN CancelledOf(x) ELSE x)
    BY <1>3
  <2> QED BY <1>5, <2>1 DEF IInv, FitInv
<1> QED BY <1>6, <1>7

(* reconcileTriggers: what it starts or keeps has a row in the table.       *)
LEMMA ReconcileStep ==
    ASSUME IInv, NEW p \in Planes, Reconcile(p)
    PROVE  IInv'
<1> DEFINE D == {v \in {v \in 1 .. versions : \A id \in Ids : table[id] # v} :
                    \E id \in Ids : live[p][id].ver = v}
           C(l) == {f \in firing : f.plane = p /\ f.id \in Schedules /\ l[f.id].ver # f.ver}
<1>1. PICK l :
        /\ l = [id \in Ids |->
                   CASE live[p][id].declared -> live[p][id]
                     [] ~live[p][id].declared /\ table[id] = NoRow -> NotLive
                     [] ~live[p][id].declared /\ table[id] # NoRow
                           /\ live[p][id].ver = table[id] -> live[p][id]
                     [] OTHER -> StartTrigger(table[id], FALSE)]
        /\ live' = [live EXCEPT ![p] = l] /\ AfterStop(p, l)
        /\ dropped' = [dropped EXCEPT ![p] = @ \cup D]
        /\ firing' = {IF f.plane = p /\ f.id \in Schedules /\ l[f.id].ver # f.ver
                      THEN [f EXCEPT !.cancelled = TRUE] ELSE f : f \in firing}
  BY DEF Reconcile, List
<1>2. /\ p \in up
      /\ UNCHANGED <<now, active, table, rowVars, up, runs, versions, counts>>
  BY DEF Reconcile
<1>3. TypeOK /\ LiveInv /\ FALSE \in BOOLEAN
  BY DEF IInv
<1>4. /\ live[p] \in [Ids -> [ver : Rows \cup {None}, declared : BOOLEAN, rev : Revisions \cup {None}]]
      /\ dropped[p] \subseteq 1 .. MaxVersions /\ \A id \in Ids : table[id] \in Rows \cup {NoRow}
  BY <1>3 DEF TypeOK
<1>5. ASSUME NEW id \in Ids
      PROVE  /\ l[id] \in [ver : Rows \cup {None}, declared : BOOLEAN, rev : Revisions \cup {None}]
             /\ l[id].ver \notin dropped[p] \cup D
             /\ l[id].declared => l[id].ver = FileVer
             /\ l[id] # NotLive => l[id].ver \in Rows /\ l[id].rev \in Revisions
  <2>1. \/ l[id] = live[p][id] /\ live[p][id].declared
        \/ l[id] = NotLive
        \/ l[id] = live[p][id] /\ live[p][id].ver = table[id] /\ table[id] # NoRow
        \/ l[id] = StartTrigger(table[id], FALSE) /\ table[id] # NoRow
    <3>1. l[id] = CASE live[p][id].declared -> live[p][id]
                    [] ~live[p][id].declared /\ table[id] = NoRow -> NotLive
                    [] ~live[p][id].declared /\ table[id] # NoRow
                          /\ live[p][id].ver = table[id] -> live[p][id]
                    [] OTHER -> StartTrigger(table[id], FALSE)
      BY <1>1
    <3> QED BY <3>1
  <2>2. FileVer \notin dropped[p] \cup D /\ None \notin dropped[p] \cup D
    BY <1>4 DEF FileVer, None
  <2>3. table[id] \notin dropped[p] \cup D
    BY <1>3 DEF LiveInv
  <2>4. /\ live[p][id] \in [ver : Rows \cup {None}, declared : BOOLEAN, rev : Revisions \cup {None}]
        /\ live[p][id].declared => live[p][id].ver = FileVer
        /\ live[p][id] # NotLive => live[p][id].ver \in Rows /\ live[p][id].rev \in Revisions
    BY <1>3, <1>4 DEF LiveInv
  <2> HIDE DEF D
  <2>5. CASE /\ l[id] = live[p][id]
             /\ live[p][id].declared \/ live[p][id].ver = table[id]
    BY <2>2, <2>3, <2>4, <2>5
  <2>6. CASE l[id] = NotLive
    BY <2>2, <2>6, NotLiveType
  <2>7. CASE l[id] = StartTrigger(table[id], FALSE) /\ table[id] # NoRow
    <3>1. table[id] \in Rows
      BY <1>4, <2>7
    <3>2. /\ l[id] \in [ver : Rows \cup {None}, declared : BOOLEAN, rev : Revisions \cup {None}]
          /\ l[id] = NotLive \/ (l[id].ver = table[id] /\ l[id].declared = FALSE /\ l[id].rev \in Revisions)
      BY <1>3, <2>7, <3>1, StartedIsGood
    <3> QED BY <2>2, <2>3, <3>1, <3>2, NotLiveType
  <2> QED BY <2>1, <2>5, <2>6, <2>7
<1>6. D \in SUBSET (1 .. versions) /\ \A v \in D : \A id \in Ids : table[id] # v
  OBVIOUS
<1>7. firing' = {IF f \in C(l) THEN CancelledOf(f) ELSE f : f \in firing}
  BY <1>1 DEF CancelledOf
<1> HIDE DEF D, C
<1>8. l \in [Ids -> [ver : Rows \cup {None}, declared : BOOLEAN, rev : Revisions \cup {None}]]
  BY <1>1, <1>5
<1>9. GoodLive(l, dropped[p] \cup D)
  BY <1>5, <1>8 DEF GoodLive
<1>10. mux' = [mux EXCEPT ![p] = MuxOf(l)] /\ loops' = [loops EXCEPT ![p] = LoopsOf(l)]
  BY <1>1 DEF AfterStop, LoopsOf
<1>11. up' \in SUBSET Planes /\ up \ {p} \subseteq up' /\ p \in up' /\ UNCHANGED <<table, versions>>
  BY <1>2, <1>3 DEF TypeOK
<1>12. /\ LiveInv'
       /\ live' \in [Planes -> [Ids -> [ver : Rows \cup {None}, declared : BOOLEAN,
                                        rev : Revisions \cup {None}]]]
       /\ mux' \in [Planes -> SUBSET (Hooks \X Rows \X Revisions)]
       /\ loops' \in [Planes -> SUBSET (Schedules \X Rows)]
       /\ dropped' \in [Planes -> SUBSET (1 .. MaxVersions)]
  BY <1>1, <1>6, <1>9, <1>10, <1>11, PlaneChanges
<1>13. /\ Carried
       /\ \A f \in firing' : f.stage = "checked" => ValidateInputs(f.rev)
       /\ firing' \subseteq [plane : Planes, id : Ids, ver : Rows, occ : Int, at : Int,
                             stage : {"fired", "checked", "done"}, rev : Revisions \cup {None},
                             cancelled : BOOLEAN, ghost : BOOLEAN]
  BY <1>7, CancelledFires
<1>14. TypeOK'
  BY <1>2, <1>3, <1>12, <1>13 DEF TypeOK, rowVars, counts
<1>15. FireInv'
  BY <1>2, <1>13, FiresKept DEF rowVars
<1> QED BY <1>12, <1>14, <1>15 DEF IInv, FireInv

(* A plane that stops or crashes serves nothing.                            *)
LEMMA StopPlaneStep ==
    ASSUME IInv, NEW p \in Planes, StopPlane(p)
    PROVE  IInv'
<1>1. PICK l : l = [id \in Ids |-> NotLive] /\ live' = [live EXCEPT ![p] = l]
  BY DEF StopPlane
<1>2. /\ up' = up \ {p} /\ faults > 0 /\ faults' = faults - 1
      /\ mux' = [mux EXCEPT ![p] = {}] /\ loops' = [loops EXCEPT ![p] = {}]
      /\ \/ firing' = {f \in firing : f.plane # p}
         \/ firing' = {IF f.plane = p THEN [f EXCEPT !.cancelled = TRUE] ELSE f : f \in firing}
      /\ UNCHANGED <<now, active, table, rowVars, dropped, runs, versions, fires>>
  BY DEF StopPlane
<1>3. TypeOK
  BY DEF IInv
<1>4. GoodLive(l, dropped[p] \cup {})
  <2>1. None \notin dropped[p]
    BY <1>3 DEF TypeOK, None
  <2> QED BY <1>1, <2>1, NotLiveType DEF GoodLive
<1>5. /\ dropped' = [dropped EXCEPT ![p] = @ \cup {}] /\ {} \in SUBSET (1 .. versions)
      /\ up' \in SUBSET Planes /\ up \ {p} \subseteq up' /\ UNCHANGED <<table, versions>>
  BY <1>2, <1>3 DEF TypeOK
<1>6. /\ LiveInv'
      /\ live' \in [Planes -> [Ids -> [ver : Rows \cup {None}, declared : BOOLEAN,
                                       rev : Revisions \cup {None}]]]
      /\ mux' \in [Planes -> SUBSET (Hooks \X Rows \X Revisions)]
      /\ loops' \in [Planes -> SUBSET (Schedules \X Rows)]
  <2>1. PICK M, L, D : M = {} /\ L = {} /\ D = {}
    OBVIOUS
  <2>2. /\ M \in {{}, MuxOf(l)} /\ L \in {{}, LoopsOf(l)} /\ D \in SUBSET (1 .. versions)
        /\ \A v \in D : \A id \in Ids : table[id] # v
        /\ mux' = [mux EXCEPT ![p] = M] /\ loops' = [loops EXCEPT ![p] = L]
        /\ dropped' = [dropped EXCEPT ![p] = @ \cup D] /\ GoodLive(l, dropped[p] \cup D)
        /\ p \in up' \/ L = {}
    BY <1>2, <1>4, <1>5, <2>1
  <2> QED BY <1>1, <1>5, <2>2, PlaneChanges
<1>7. /\ Carried
      /\ \A f \in firing' : f.stage = "checked" => ValidateInputs(f.rev)
      /\ firing' \subseteq [plane : Planes, id : Ids, ver : Rows, occ : Int, at : Int,
                            stage : {"fired", "checked", "done"}, rev : Revisions \cup {None},
                            cancelled : BOOLEAN, ghost : BOOLEAN]
  <2>1. CASE firing' = {f \in firing : f.plane # p}
    <3>1. firing' \subseteq firing
      BY <2>1
    <3>2. Carried
      BY <3>1 DEF Carried
    <3> QED BY <1>3, <3>1, <3>2 DEF IInv, FitInv, TypeOK
  <2>2. CASE firing' = {IF f.plane = p THEN [f EXCEPT !.cancelled = TRUE] ELSE f : f \in firing}
    <3> DEFINE C == {f \in firing : f.plane = p}
    <3>1. firing' = {IF f \in C THEN CancelledOf(f) ELSE f : f \in firing}
      BY <2>2 DEF CancelledOf
    <3> HIDE DEF C
    <3> QED BY <3>1, CancelledFires
  <2> QED BY <1>2, <2>1, <2>2
<1>8. faults' \in 0 .. MaxFaults
  BY <1>2, <1>3, TriggersAssumption DEF TypeOK
<1>9. TypeOK'
  BY <1>2, <1>3, <1>5, <1>6, <1>7, <1>8 DEF TypeOK, rowVars
<1>10. FireInv'
  BY <1>2, <1>7, FiresKept DEF rowVars
<1> QED BY <1>6, <1>9, <1>10 DEF IInv, FireInv

-----------------------------------------------------------------------------
(* Fires.                                                                   *)

Firings == [plane : Planes, id : Ids, ver : Rows, occ : Int, at : Int,
            stage : {"fired", "checked", "done"}, rev : Revisions \cup {None},
            cancelled : BOOLEAN, ghost : BOOLEAN]

(* A step of the fires alone leaves what is live as it is.                  *)
LEMMA LiveSame ==
    ASSUME IInv, UNCHANGED <<table, versions, planeVars>>
    PROVE  LiveInv'
BY DEF IInv, LiveInv, planeVars

(* A fire of something that is live.                                        *)
LEMMA FireFacts ==
    ASSUME IInv, NEW p \in Planes, NEW id \in Ids, NEW ver \in Rows, NEW occ \in Int,
           live[p][id].ver = ver, NEW f, f = Fire(p, id, ver, occ)
    PROVE  /\ f \in Firings /\ f.id = id /\ f.occ = occ /\ f.stage = "fired" /\ ~f.ghost
           /\ f.at = IF occ = None THEN None ELSE now
<1>1. now \in Int /\ ver \notin dropped[p] /\ None \in Int
  BY TriggersAssumption DEF IInv, TypeOK, LiveInv, None
<1>2. PICK a : a = IF occ = None THEN None ELSE now
  OBVIOUS
<1>3. (ver \in dropped[p]) = FALSE
  BY <1>1
<1>4. a \in Int
  BY <1>1, <1>2
<1>5. f = [plane |-> p, id |-> id, ver |-> ver, occ |-> occ, at |-> a, stage |-> "fired",
           rev |-> None, cancelled |-> FALSE, ghost |-> FALSE]
  BY <1>2, <1>3, Zenon DEF Fire
<1> QED BY <1>2, <1>4, <1>5 DEF Firings

(* An endpoint fires: no schedule is concerned.                             *)
LEMMA DeliverStep ==
    ASSUME IInv, NEW p \in Planes, NEW d \in Deliveries, Deliver(p, d)
    PROVE  IInv'
<1>1. PICK e \in mux[p] :
        /\ fires < MaxFires /\ fires' = fires + 1
        /\ firing' = firing \cup {Fire(p, e[1], e[2], None)}
        /\ UNCHANGED <<now, active, table, rowVars, planeVars, runs, versions, faults>>
  BY DEF Deliver
<1>2. TypeOK /\ FireInv /\ firing \subseteq Firings
  BY DEF IInv, FireInv, TypeOK, Firings
<1>3. /\ e[1] \in Hooks /\ e[1] \in Ids /\ e[1] \notin Schedules /\ e[2] \in Rows
      /\ live[p][e[1]].ver = e[2]
  <2>1. e \in Hooks \X Rows \X Revisions
    BY <1>2 DEF TypeOK
  <2> QED BY <2>1, TriggersAssumption DEF IInv, LiveInv, Ids
<1>4. PICK f : f = Fire(p, e[1], e[2], None)
  OBVIOUS
<1>5. f \in Firings /\ f.id \notin Schedules /\ f.stage = "fired" /\ ~f.ghost
  BY <1>3, <1>4, FireFacts DEF None
<1>6. firing' = firing \cup {f}
  BY <1>1, <1>4
<1>7. TypeOK'
  <2>1. fires' \in 0 .. MaxFires
    BY <1>1, <1>2, TriggersAssumption DEF TypeOK
  <2> QED BY <1>1, <1>2, <1>5, <1>6, <2>1 DEF TypeOK, Firings, rowVars, planeVars
<1>8. LiveInv'
  BY <1>1, LiveSame
<1>9. SilentInv' /\ FitInv'
  BY <1>1, <1>2, <1>5, <1>6 DEF FireInv, SilentInv, FitInv
<1>10. UNCHANGED <<now, due, mark, overran, runs>>
  BY <1>1 DEF rowVars
<1>11. WindowInv'
  BY <1>2, <1>5, <1>6, <1>10 DEF FireInv, WindowInv, Claimed
<1>12. FlightInv'
  BY <1>2, <1>5, <1>6, <1>10 DEF FireInv, FlightInv
<1> QED BY <1>7, <1>8, <1>9, <1>11, <1>12 DEF IInv

(* The row of a schedule moves past now.                                    *)
LEMMA RowMoves ==
    ASSUME IInv, NEW s \in Schedules, due' = [due EXCEPT ![s] = NextDue(now)], UNCHANGED now
    PROVE  /\ due' \in [Schedules -> {None} \cup 1 .. MaxTime + Period]
           /\ now < due'[s]
           /\ \A x : x.id \in Schedules /\ Claimed(x) => Claimed(x)'
<1>1. /\ now \in 0 .. MaxTime /\ Period \in Nat \ {0} /\ MaxTime \in Nat
      /\ due \in [Schedules -> {None} \cup 1 .. MaxTime + Period]
  BY TriggersAssumption DEF IInv, TypeOK
<1>2. NextDue(now) \in now + 1 .. now + Period
  BY <1>1, NextBoundary
<1>3. due'[s] = NextDue(now) /\ \A t \in Schedules \ {s} : due'[t] = due[t]
  BY <1>1
<1>4. ASSUME NEW x, x.id \in Schedules, Claimed(x) PROVE Claimed(x)'
  <2>1. x.occ <= x.at /\ x.at \in 0 .. now /\ x.at < due[x.id]
    BY <1>4 DEF Claimed
  <2>2. x.at < due'[x.id]
    BY <1>1, <1>2, <1>3, <1>4, <2>1
  <2> QED BY <2>1, <2>2 DEF Claimed
<1> QED BY <1>1, <1>2, <1>3, <1>4

(* One poll: the claim moves the row past everything that has elapsed, and  *)
(* a row is claimed only when the fire before has given up its mark.        *)
LEMMA PollScheduleStep ==
    ASSUME IInv, NEW p \in Planes, PollSchedule(p)
    PROVE  IInv'
<1>1. PICK loop \in loops[p] :
        /\ Claim(loop[1])
        /\ IF Due(loop[1]) /\ ~Busy(loop[1])
           THEN /\ fires < MaxFires /\ fires' = fires + 1
                /\ firing' = firing \cup {Fire(p, loop[1], loop[2], due[loop[1]])}
           ELSE UNCHANGED <<firing, fires>>
        /\ UNCHANGED <<now, active, table, planeVars, runs, versions, overran, faults>>
  BY DEF PollSchedule
<1>2. PICK s, v : s = loop[1] /\ v = loop[2]
  OBVIOUS
<1>3. TypeOK /\ FireInv /\ firing \subseteq Firings /\ s \in Schedules /\ s \in Ids /\ v \in Rows
      /\ live[p][s].ver = v
  BY <1>2 DEF IInv, FireInv, TypeOK, Firings, Ids, LiveInv
<1>4. /\ now \in 0 .. MaxTime /\ MaxTime \in Nat /\ Period \in Nat /\ Lease \in Nat \ {0}
      /\ mark \in [Schedules -> {None} \cup 0 .. MaxTime]
      /\ due \in [Schedules -> {None} \cup 1 .. MaxTime + Period] /\ None \in Int
  BY <1>3, TriggersAssumption DEF TypeOK, None
<1>5. due' = [due EXCEPT ![s] = NextDue(now)]
  BY <1>1, <1>2 DEF Claim, Seed, Skip, Take
<1>6. /\ due' \in [Schedules -> {None} \cup 1 .. MaxTime + Period] /\ now < due'[s]
      /\ \A x : x.id \in Schedules /\ Claimed(x) => Claimed(x)'
  BY <1>1, <1>3, <1>5, RowMoves
<1>7. LiveInv'
  BY <1>1, LiveSame
<1>8. CASE ~(Due(s) /\ ~Busy(s))
  <2>1. UNCHANGED <<now, mark, overran, runs, firing, fires>>
    BY <1>1, <1>2, <1>8 DEF Claim, Seed, Skip
  <2>2. TypeOK'
    BY <1>1, <1>3, <1>6, <2>1 DEF TypeOK, planeVars
  <2>3. WindowInv'
    BY <1>3, <1>6, <2>1 DEF FireInv, WindowInv
  <2>4. SilentInv' /\ FitInv' /\ FlightInv'
    BY <1>3, <2>1 DEF FireInv, SilentInv, FitInv, FlightInv
  <2> QED BY <1>7, <2>2, <2>3, <2>4 DEF IInv
<1>9. CASE Due(s) /\ ~Busy(s)
  <2>1. /\ fires < MaxFires /\ fires' = fires + 1
        /\ mark' = [mark EXCEPT ![s] = now] /\ UNCHANGED <<now, overran, runs>>
    BY <1>1, <1>2, <1>9 DEF Claim, Take, Due
  <2>2. due[s] \in Int /\ due[s] # None /\ due[s] <= now
    BY <1>3, <1>4, <1>9 DEF Due
  <2>3. PICK f : f = Fire(p, s, v, due[s])
    OBVIOUS
  <2>4. /\ f \in Firings /\ f.id = s /\ f.occ = due[s] /\ f.stage = "fired" /\ ~f.ghost /\ f.at = now
    BY <1>3, <2>2, <2>3, FireFacts
  <2>5. firing' = firing \cup {f}
    BY <1>1, <1>2, <1>9, <2>3
  <2>6. /\ mark' \in [Schedules -> {None} \cup 0 .. MaxTime]
        /\ mark'[s] = now /\ \A t \in Schedules \ {s} : mark'[t] = mark[t]
    BY <1>3, <1>4, <2>1
  <2>7. fires' \in 0 .. MaxFires
    BY <1>3, <2>1, TriggersAssumption DEF TypeOK
  <2>8. TypeOK'
    BY <1>1, <1>3, <1>6, <2>4, <2>5, <2>6, <2>7 DEF TypeOK, Firings, planeVars
  <2>9. SilentInv' /\ FitInv'
    BY <1>3, <2>1, <2>4, <2>5 DEF FireInv, SilentInv, FitInv
  <2>10. WindowInv'
    <3>1. Claimed(f)'
      BY <1>4, <1>6, <2>1, <2>2, <2>4 DEF Claimed
    <3>2. \A x : x.id = s /\ Claimed(x) => Apart(f, x) /\ Apart(x, f)
      BY <2>4 DEF Claimed, Apart
    <3>3. /\ \A g \in firing' : g.id \in Schedules => Claimed(g)'
          /\ \A r \in runs' : r.id \in Schedules => Claimed(r)'
      BY <1>3, <1>6, <2>1, <2>5, <3>1 DEF FireInv, WindowInv
    <3>4. \A g \in firing', r \in runs' : Pending(g) /\ g.id \in Schedules /\ g.id = r.id => Apart(g, r)
      BY <1>3, <2>1, <2>4, <2>5, <3>2 DEF FireInv, WindowInv
    <3>5. \A g, h \in firing' : Pending(g) /\ Pending(h) /\ g.id \in Schedules /\ g.id = h.id /\ g # h
                                    => Apart(g, h)
      BY <1>3, <2>1, <2>4, <2>5, <3>2 DEF FireInv, WindowInv
    <3>6. \A r, o \in runs' : r.id \in Schedules /\ r.id = o.id /\ r # o => Apart(r, o)
      BY <1>3, <2>1 DEF FireInv, WindowInv
    <3> QED BY <3>3, <3>4, <3>5, <3>6 DEF WindowInv
  <2>11. FlightInv'
    <3> SUFFICES ASSUME ~overran
                 PROVE  /\ \A g \in firing' : g.id \in Schedules => mark'[g.id] = g.at /\ now - g.at < Lease
                        /\ \A g, h \in firing' : g.id \in Schedules /\ g.id = h.id => g = h
      BY <2>1 DEF FlightInv
    <3>1. \A g \in firing : g.id # s
      <4> SUFFICES ASSUME NEW g \in firing, g.id = s PROVE FALSE
        OBVIOUS
      <4>1. mark[s] = g.at /\ now - g.at < Lease /\ g.at \in 0 .. now
        BY <1>3 DEF FireInv, FlightInv, WindowInv, Claimed
      <4> QED BY <1>4, <1>9, <4>1 DEF Busy, None
    <3>2. now - now < Lease
      BY <1>4
    <3> QED BY <1>3, <2>4, <2>5, <2>6, <3>1, <3>2 DEF FireInv, FlightInv
  <2> QED BY <1>7, <2>8, <2>9, <2>10, <2>11 DEF IInv
<1> QED BY <1>8, <1>9

(* What Fire leaves of a fire when it returns.                              *)
LEMMA ReturnedFacts ==
    ASSUME IInv, NEW f \in firing, NEW g \in Returned(f)
    PROVE  /\ g \in Firings /\ g.id = f.id /\ g.occ = f.occ /\ g.at = f.at /\ g.ghost = f.ghost
           /\ g.stage = "done" /\ f.id \in Schedules
<1>1. f \in Firings
  BY DEF IInv, TypeOK, Firings
<1>2. f.id \in Schedules /\ g = [f EXCEPT !.stage = "done", !.rev = None]
  BY DEF Returned
<1> QED BY <1>1, <1>2 DEF Firings

(* One fire moves on, or ends.                                              *)
LEMMA OneMoves ==
    ASSUME IInv, NEW f \in firing, NEW G, firing' = (firing \ {f}) \cup G,
           \A g, h \in G : g = h,
           \A g \in G : /\ g \in Firings
                        /\ g.id = f.id /\ g.occ = f.occ /\ g.at = f.at /\ g.ghost = f.ghost
                        /\ Pending(g) => Pending(f)
                        /\ g.stage = "checked" => ValidateInputs(g.rev)
    PROVE  /\ Carried /\ firing' \subseteq Firings
           /\ \A g \in firing' : g.stage = "checked" => ValidateInputs(g.rev)
<1>1. firing \subseteq Firings
  BY DEF IInv, TypeOK, Firings
<1>2. \A g \in firing' : \E x \in firing :
          /\ g.id = x.id /\ g.occ = x.occ /\ g.at = x.at /\ g.ghost = x.ghost
          /\ Pending(g) => Pending(x)
          /\ IF g \in G THEN x = f ELSE x = g /\ x # f
  OBVIOUS
<1>3. Carried
  <2> SUFFICES ASSUME NEW g \in firing', NEW h \in firing'
               PROVE  \E x, y \in firing :
                          /\ g.id = x.id /\ g.occ = x.occ /\ g.at = x.at /\ g.ghost = x.ghost
                          /\ h.id = y.id /\ h.occ = y.occ /\ h.at = y.at /\ h.ghost = y.ghost
                          /\ Pending(g) => Pending(x)
                          /\ Pending(h) => Pending(y)
                          /\ g # h => x # y
    BY DEF Carried
  <2>1. PICK x \in firing :
          /\ g.id = x.id /\ g.occ = x.occ /\ g.at = x.at /\ g.ghost = x.ghost
          /\ Pending(g) => Pending(x)
          /\ IF g \in G THEN x = f ELSE x = g /\ x # f
    BY <1>2
  <2>2. PICK y \in firing :
          /\ h.id = y.id /\ h.occ = y.occ /\ h.at = y.at /\ h.ghost = y.ghost
          /\ Pending(h) => Pending(y)
          /\ IF h \in G THEN y = f ELSE y = h /\ y # f
    BY <1>2
  <2>3. g # h => x # y
    BY <2>1, <2>2
  <2> QED BY <2>1, <2>2, <2>3
<1> QED BY <1>1, <1>3 DEF IInv, FitInv

(* triggerSink resolves the revision and checks the values against it.      *)
LEMMA ResolveActiveStep ==
    ASSUME IInv, NEW f \in firing, ResolveActive(f)
    PROVE  IInv'
<1>1. /\ f.stage = "fired" /\ UNCHANGED <<now, active, table, rowVars, planeVars, runs, versions, counts>>
  BY DEF ResolveActive
<1>2. TypeOK /\ f \in Firings
  BY DEF IInv, TypeOK, Firings
<1>3. PICK c : c = [f EXCEPT !.stage = "checked", !.rev = active]
  OBVIOUS
<1>4. /\ c \in Firings /\ c.id = f.id /\ c.occ = f.occ /\ c.at = f.at /\ c.ghost = f.ghost
      /\ c.stage = "checked" /\ c.rev = active
  BY <1>2, <1>3 DEF Firings, TypeOK
<1>5. PICK G : /\ G = IF CheckTriggerInputs(f) THEN {c} ELSE Returned(f)
               /\ firing' = (firing \ {f}) \cup G
  BY <1>3 DEF ResolveActive
<1>6. \A g, h \in G : g = h
  BY <1>5 DEF Returned
<1>7. \A g \in G : /\ g \in Firings
                   /\ g.id = f.id /\ g.occ = f.occ /\ g.at = f.at /\ g.ghost = f.ghost
                   /\ Pending(g) => Pending(f)
                   /\ g.stage = "checked" => ValidateInputs(g.rev)
  BY <1>1, <1>4, <1>5, ReturnedFacts DEF CheckTriggerInputs, Pending
<1>8. /\ Carried /\ firing' \subseteq Firings
      /\ \A g \in firing' : g.stage = "checked" => ValidateInputs(g.rev)
  BY <1>5, <1>6, <1>7, OneMoves
<1>9. TypeOK'
  BY <1>1, <1>2, <1>8 DEF TypeOK, Firings, rowVars, planeVars, counts
<1>10. LiveInv'
  BY <1>1, LiveSame
<1>11. FireInv'
  BY <1>1, <1>8, FiresKept DEF rowVars
<1> QED BY <1>9, <1>10, <1>11 DEF IInv, FireInv

(* Fire returns, for whatever reason.                                       *)
LEMMA Returns ==
    ASSUME IInv, NEW f \in firing, firing' = (firing \ {f}) \cup Returned(f)
    PROVE  /\ Carried /\ firing' \subseteq Firings
           /\ \A g \in firing' : g.stage = "checked" => ValidateInputs(g.rev)
           /\ \A g \in firing' : Pending(g) => g \in firing /\ g # f
<1>1. \A g, h \in Returned(f) : g = h
  BY DEF Returned
<1>2. \A g \in Returned(f) : /\ g \in Firings /\ ~Pending(g) /\ g.stage # "checked"
                             /\ g.id = f.id /\ g.occ = f.occ /\ g.at = f.at /\ g.ghost = f.ghost
  BY ReturnedFacts DEF Pending
<1>3. PICK G : G = Returned(f)
  OBVIOUS
<1> QED BY <1>1, <1>2, <1>3, OneMoves

LEMMA FireFailsStep ==
    ASSUME IInv, NEW f \in firing, FireFails(f)
    PROVE  IInv'
<1>1. /\ firing' = (firing \ {f}) \cup Returned(f) /\ faults' \in {faults, faults - 1}
      /\ faults' = faults \/ faults > 0
      /\ UNCHANGED <<now, active, table, rowVars, planeVars, runs, versions, fires>>
  BY DEF FireFails
<1>2. TypeOK
  BY DEF IInv
<1>3. /\ Carried /\ firing' \subseteq Firings
      /\ \A g \in firing' : g.stage = "checked" => ValidateInputs(g.rev)
  BY <1>1, Returns
<1>4. faults' \in 0 .. MaxFaults
  BY <1>1, <1>2, TriggersAssumption DEF TypeOK
<1>5. TypeOK'
  BY <1>1, <1>2, <1>3, <1>4 DEF TypeOK, Firings, rowVars, planeVars
<1>6. LiveInv'
  BY <1>1, LiveSame
<1>7. FireInv'
  BY <1>1, <1>3, FiresKept DEF rowVars
<1> QED BY <1>5, <1>6, <1>7 DEF IInv, FireInv

(* The run of a fire is as far from the others as the fire was.             *)
LEMMA SubmitStep ==
    ASSUME IInv, NEW f \in firing, Submit(f)
    PROVE  IInv'
<1>1. PICK n : /\ n = [id |-> f.id, occ |-> f.occ, at |-> f.at, rev |-> f.rev, ghost |-> f.ghost]
               /\ runs' = runs \cup {n}
  BY DEF Submit
<1>2. /\ f.stage = "checked" /\ firing' = (firing \ {f}) \cup Returned(f)
      /\ UNCHANGED <<now, active, table, rowVars, planeVars, versions, counts>>
  BY DEF Submit
<1>3. TypeOK /\ FireInv /\ f \in Firings
  BY DEF IInv, FireInv, TypeOK, Firings
<1>4. /\ n.id = f.id /\ n.occ = f.occ /\ n.at = f.at /\ n.rev = f.rev /\ n.ghost = f.ghost
      /\ n \in [id : Ids, occ : Int, at : Int, rev : Revisions \cup {None}, ghost : BOOLEAN]
  BY <1>1, <1>3 DEF Firings
<1>5. /\ Carried /\ firing' \subseteq Firings
      /\ \A g \in firing' : g.stage = "checked" => ValidateInputs(g.rev)
      /\ \A g \in firing' : Pending(g) => g \in firing /\ g # f
  BY <1>2, Returns
<1>6. TypeOK'
  BY <1>1, <1>2, <1>3, <1>4, <1>5 DEF TypeOK, Firings, rowVars, planeVars, counts
<1>7. LiveInv'
  BY <1>2, LiveSame
<1>8. UNCHANGED <<now, due, mark, overran>>
  BY <1>2 DEF rowVars
<1>9. \A g \in firing' : \E x \in firing :
          g.id = x.id /\ g.occ = x.occ /\ g.at = x.at /\ g.ghost = x.ghost
  BY <1>5 DEF Carried
<1>10. SilentInv' /\ FitInv'
  BY <1>1, <1>2, <1>3, <1>4, <1>5, <1>9 DEF FireInv, SilentInv, FitInv
<1>11. FlightInv'
  BY <1>3, <1>5, <1>8, <1>9 DEF FireInv, FlightInv, Carried
<1>12. WindowInv'
  <2>1. Pending(f) /\ (f.id \in Schedules => Claimed(f))
    BY <1>2, <1>3 DEF FireInv, WindowInv, Pending
  <2>2. /\ \A g \in firing' : g.id \in Schedules => Claimed(g)'
        /\ \A r \in runs' : r.id \in Schedules => Claimed(r)'
    BY <1>1, <1>3, <1>4, <1>8, <1>9, <2>1 DEF FireInv, WindowInv, Claimed
  <2>3. \A r \in runs : n.id \in Schedules /\ n.id = r.id => Apart(n, r) /\ Apart(r, n)
    BY <1>3, <1>4, <2>1 DEF FireInv, WindowInv, Apart
  <2>4. \A r, o \in runs' : r.id \in Schedules /\ r.id = o.id /\ r # o => Apart(r, o)
    BY <1>1, <1>3, <2>3 DEF FireInv, WindowInv
  <2>5. \A g \in firing' : Pending(g) /\ g.id \in Schedules /\ g.id = n.id => Apart(g, n)
    BY <1>3, <1>4, <1>5, <2>1 DEF FireInv, WindowInv, Apart
  <2>6. \A g \in firing', r \in runs' : Pending(g) /\ g.id \in Schedules /\ g.id = r.id => Apart(g, r)
    BY <1>1, <1>3, <1>5, <2>5 DEF FireInv, WindowInv
  <2>7. \A g, h \in firing' : Pending(g) /\ Pending(h) /\ g.id \in Schedules /\ g.id = h.id /\ g # h
                                  => Apart(g, h)
    BY <1>3, <1>5 DEF FireInv, WindowInv
  <2> QED BY <2>2, <2>4, <2>6, <2>7 DEF WindowInv
<1> QED BY <1>6, <1>7, <1>10, <1>11, <1>12 DEF IInv

(* The mark that is cleared is this fire's, as long as none has overrun.    *)
LEMMA ReleaseStep ==
    ASSUME IInv, NEW f \in firing, Release(f)
    PROVE  IInv'
<1>1. /\ mark' = [mark EXCEPT ![f.id] = None] /\ firing' = firing \ {f}
      /\ UNCHANGED <<now, active, table, due, overran, planeVars, runs, versions, counts>>
  BY DEF Release
<1>2. TypeOK /\ FireInv /\ mark \in [Schedules -> {None} \cup 0 .. MaxTime]
  BY DEF IInv, FireInv, TypeOK
<1>3. /\ mark' \in [Schedules -> {None} \cup 0 .. MaxTime]
      /\ \A s \in Schedules : s # f.id => mark'[s] = mark[s]
  BY <1>1, <1>2
<1>4. TypeOK'
  BY <1>1, <1>2, <1>3 DEF TypeOK, planeVars, counts
<1>5. LiveInv'
  BY <1>1, LiveSame
<1>6. SilentInv' /\ FitInv'
  BY <1>1, <1>2 DEF FireInv, SilentInv, FitInv
<1>7. WindowInv'
  BY <1>1, <1>2 DEF FireInv, WindowInv, Claimed
<1>8. FlightInv'
  <2> SUFFICES ASSUME ~overran
               PROVE  /\ \A g \in firing' : g.id \in Schedules => mark'[g.id] = g.at /\ now - g.at < Lease
                      /\ \A g, h \in firing' : g.id \in Schedules /\ g.id = h.id => g = h
    BY <1>1 DEF FlightInv
  <2> QED BY <1>1, <1>2, <1>3 DEF FireInv, FlightInv
<1> QED BY <1>4, <1>5, <1>6, <1>7, <1>8 DEF IInv

LEMMA TickStep ==
    ASSUME IInv, Tick
    PROVE  IInv'
<1>1. /\ now < MaxTime /\ now' = now + 1
      /\ overran' = (overran \/ \E f \in firing : f.id \in Schedules /\ now + 1 - f.at >= Lease)
      /\ UNCHANGED <<active, table, due, mark, planeVars, firing, runs, versions, counts>>
  BY DEF Tick
<1>2. TypeOK /\ FireInv /\ now \in 0 .. MaxTime /\ MaxTime \in Nat /\ Lease \in Nat
      /\ \A f \in firing : f.at \in Int
  BY TriggersAssumption DEF IInv, FireInv, TypeOK
<1>3. now' \in 0 .. MaxTime /\ overran' \in BOOLEAN
  BY <1>1, <1>2
<1>4. TypeOK'
  BY <1>1, <1>2, <1>3 DEF TypeOK, planeVars, counts
<1>5. LiveInv'
  BY <1>1, LiveSame
<1>6. SilentInv' /\ FitInv'
  BY <1>1, <1>2 DEF FireInv, SilentInv, FitInv
<1>7. WindowInv'
  <2>1. \A x : Claimed(x) => Claimed(x)'
    BY <1>1, <1>2 DEF Claimed
  <2> QED BY <1>1, <1>2, <2>1 DEF FireInv, WindowInv
<1>8. FlightInv'
  <2> SUFFICES ASSUME ~overran'
               PROVE  /\ \A g \in firing : g.id \in Schedules => mark[g.id] = g.at /\ now' - g.at < Lease
                      /\ \A g, h \in firing : g.id \in Schedules /\ g.id = h.id => g = h
    BY <1>1 DEF FlightInv
  <2>1. ~overran /\ \A f \in firing : f.id \in Schedules => ~(now + 1 - f.at >= Lease)
    BY <1>1
  <2> QED BY <1>1, <1>2, <2>1 DEF FireInv, FlightInv
<1> QED BY <1>4, <1>5, <1>6, <1>7, <1>8 DEF IInv

-----------------------------------------------------------------------------
(* The theorems.                                                            *)

LEMMA InitIInv == Init => IInv
<1> SUFFICES ASSUME Init PROVE IInv
  OBVIOUS
<1>1. TypeOK
  <2>1. /\ now \in 0 .. MaxTime /\ active \in Revisions /\ versions \in 0 .. MaxVersions
        /\ fires \in 0 .. MaxFires /\ faults \in 0 .. MaxFaults
    BY TriggersAssumption DEF Init, Revisions
  <2>2. live \in [Planes -> [Ids -> [ver : Rows \cup {None}, declared : BOOLEAN,
                                     rev : Revisions \cup {None}]]]
    BY NotLiveType DEF Init
  <2> QED BY <2>1, <2>2 DEF Init, TypeOK
<1>2. LiveInv
  BY NotLiveType DEF Init, LiveInv, NoRow, None
<1>3. FireInv
  BY DEF Init, FireInv, SilentInv, FitInv, WindowInv, FlightInv
<1> QED BY <1>1, <1>2, <1>3 DEF IInv, FireInv

(***************************************************************************)
(* The inductive invariant: the row of a schedule, its fires and its runs, *)
(* and what every plane has live, kept by every step.                      *)
(***************************************************************************)
THEOREM SourcesAgree == Spec => []IInv
<1>1. ASSUME IInv, [Next]_vars PROVE IInv'
  <2>1. CASE \E r \in Revisions : Approve(r)
    BY <1>1, <2>1, ApproveStep
  <2>2. ASSUME NEW p \in Planes,
               \/ \E id \in Ids : CreateTrigger(p, id)
               \/ \E id \in Ids : DeleteTrigger(p, id)
               \/ StartPlane(p) \/ Reconcile(p) \/ StopPlane(p)
               \/ PollSchedule(p) \/ \E d \in Deliveries : Deliver(p, d)
        PROVE  IInv'
    BY <1>1, <2>2, CreateTriggerStep, DeleteTriggerStep, StartPlaneStep, ReconcileStep,
       StopPlaneStep, PollScheduleStep, DeliverStep
  <2>3. ASSUME NEW f \in firing, ResolveActive(f) \/ Submit(f) \/ FireFails(f) \/ Release(f)
        PROVE  IInv'
    BY <1>1, <2>3, ResolveActiveStep, SubmitStep, FireFailsStep, ReleaseStep
  <2>4. CASE Tick
    BY <1>1, <2>4, TickStep
  <2>5. CASE UNCHANGED vars
    <3>1. TypeOK' /\ LiveInv'
      BY <1>1, <2>5 DEF vars, IInv, TypeOK, LiveInv
    <3>2. FireInv'
      BY <1>1, <2>5, FiresSame DEF vars
    <3> QED BY <3>1, <3>2 DEF IInv, FireInv
  <2> QED BY <1>1, <2>1, <2>2, <2>3, <2>4, <2>5 DEF Next
<1> QED BY <1>1, InitIInv, PTL DEF Spec

(***************************************************************************)
(* Every variable keeps its type.                                          *)
(***************************************************************************)
THEOREM TriggersTypeOK == Spec => []TypeOK
<1>1. IInv => TypeOK
  BY DEF IInv
<1> QED BY <1>1, SourcesAgree, PTL

(***************************************************************************)
(* A schedule runs once per missed window and, while no fire outlasts its  *)
(* lease, one fire at a time, over every plane that polls its row: a claim *)
(* moves the row past now, so the next occurrence is after every earlier   *)
(* claim, and the mark keeps the row while its fire is under way.          *)
(***************************************************************************)
THEOREM SchedulesAreHonoured == Spec => []ScheduleHonoured
<1>1. ASSUME IInv PROVE ScheduleHonoured
  <2>1. MissedWindowOnce
    BY <1>1 DEF IInv, WindowInv, MissedWindowOnce, Apart
  <2>2. ASSUME ~overran, NEW s \in Schedules PROVE Cardinality({f \in firing : f.id = s}) =< 1
    <3>1. CASE {f \in firing : f.id = s} = {}
      BY <3>1, FS_EmptySet
    <3>2. CASE {f \in firing : f.id = s} # {}
      <4>1. PICK f \in firing : f.id = s
        BY <3>2
      <4>2. {g \in firing : g.id = s} = {f}
        BY <1>1, <2>2, <4>1 DEF IInv, FlightInv
      <4> QED BY <4>2, FS_Singleton
    <3> QED BY <3>1, <3>2
  <2> QED BY <2>1, <2>2 DEF ScheduleHonoured, OneFireInFlight
<1> QED BY <1>1, SourcesAgree, PTL

(***************************************************************************)
(* The inputs of a run fit the revision it has pinned: they are checked    *)
(* against the revision that is resolved with them, and that one is pinned.*)
(***************************************************************************)
THEOREM RunsFit == Spec => []RunsFitTheirRevision
<1>1. IInv => RunsFitTheirRevision
  BY DEF IInv, FitInv, RunsFitTheirRevision
<1> QED BY <1>1, SourcesAgree, PTL

(***************************************************************************)
(* A plane that has seen a trigger gone starts no run of it, although the  *)
(* id may be created again: what fires there is a row of another version.  *)
(***************************************************************************)
THEOREM DeletedIsSilent == Spec => []DeletedStaysSilent
<1>1. IInv => DeletedStaysSilent
  BY DEF IInv, SilentInv, DeletedStaysSilent
<1> QED BY <1>1, SourcesAgree, PTL

-----------------------------------------------------------------------------
(* The ring of partitions.                                                  *)

Reading == {"owners", "surplus", "renew", "take"}
Deciding == {"surplus", "renew", "take"}

-----------------------------------------------------------------------------
(* The inductive invariant.                                                 *)

(* What a plane last wrote on a key it still owns is what the key says.     *)
LeaseFollows ==
    \A p \in Instances, q \in Parts : claim[q].owner = p => lease[p][q] = claim[q].left

(* The claim is p's, or p has gone a TTL without writing it.                *)
Backed(p, q) == claim[q].owner = p \/ lease[p][q] = Lapsed

(* A key read and not moved since is as it was read.                        *)
SeenIsCurrent(p) ==
    pc[p] \in Reading =>
        \A q \in Parts : q \notin pass[p].unread /\ q \notin pass[p].moved
                             => pass[p].seen[q] = claim[q]

(* A pass counts its own plane among the members it divides the ring by,    *)
(* and decides once every key has been read.                                *)
CountsItself(p) == pc[p] \in Reading => p \in pass[p].members
ReadFirst(p) == pc[p] \in Deciding => pass[p].unread = {}

(* What is released or renewed was read as the plane's own.                 *)
SeenAsOwn(p) ==
    /\ pc[p] = "surplus" => \A q \in pass[p].mine : pass[p].seen[q].owner = p
    /\ pc[p] = "renew" => \A q \in pass[p].todo : pass[p].seen[q].owner = p

(* What was read as the plane's own, what it has decided to keep and what   *)
(* it holds are backed.                                                     *)
ReadBacked(p) ==
    pc[p] = "owners" =>
        \A q \in Parts : q \notin pass[p].unread /\ pass[p].seen[q].owner = p => Backed(p, q)
MineBacked(p) == pc[p] \in Deciding => \A q \in pass[p].mine : Backed(p, q)
HeldBacked(p) == \A q \in owned[p] : Backed(p, q)

PlaneInv(p) ==
    /\ SeenIsCurrent(p) /\ CountsItself(p) /\ ReadFirst(p) /\ SeenAsOwn(p)
    /\ ReadBacked(p) /\ MineBacked(p) /\ HeldBacked(p)

RingIInv == RingTypeOK /\ LeaseFollows /\ \A p \in Instances : PlaneInv(p)

-----------------------------------------------------------------------------
(* The operators the pass computes with.                                    *)

(* A set of numbers that is not empty has a least element.                  *)
LEMMA LeastOfNat ==
    ASSUME NEW S \in SUBSET Nat, S # {}
    PROVE  \E x \in S : \A y \in S : x =< y
<1>1. PICK x \in S : \A y \in S : ~(<<y, x>> \in OpToRel(<, Nat))
  BY WFMin, NatLessThanWellFounded
<1>2. ASSUME NEW y \in S PROVE x =< y
  <2>1. y < x => <<y, x>> \in OpToRel(<, Nat)
    <3>1. <<y, x>> \in Nat \X Nat /\ <<y, x>>[1] = y /\ <<y, x>>[2] = x
      OBVIOUS
    <3> QED BY <3>1 DEF OpToRel
  <2>2. ~(y < x)
    BY <1>1, <2>1
  <2> QED BY <2>2
<1> QED BY <1>2

(* Min of a set of partitions that is not empty is one of them.             *)
LEMMA MinOfParts ==
    ASSUME NEW S \in SUBSET Parts, S # {}
    PROVE  Min(S) \in S
<1>1. S \subseteq Nat
  BY PartitionsAssumption DEF Parts
<1>2. \E x \in S : \A y \in S : x =< y
  BY <1>1, LeastOfNat
<1> QED BY <1>2 DEF Min

(* And so is Max: the one at the least distance from Count.                 *)
LEMMA MaxOfParts ==
    ASSUME NEW S \in SUBSET Parts, S # {}
    PROVE  Max(S) \in S
<1> DEFINE T == {Count - s : s \in S}
<1>1. \A s \in S : s \in Nat /\ Count - s \in Nat
  BY PartitionsAssumption DEF Parts
<1>2. T \in SUBSET Nat /\ T # {}
  BY <1>1
<1>3. PICK x \in T : \A y \in T : x =< y
  <2> HIDE DEF T
  <2> QED BY <1>2, LeastOfNat
<1>4. PICK m \in S : x = Count - m
  OBVIOUS
<1>5. \A y \in S : m >= y
  <2> TAKE y \in S
  <2>1. Count - y \in T
    OBVIOUS
  <2>2. x =< Count - y
    BY <1>3, <2>1
  <2> QED BY <1>1, <1>4, <2>2, PartitionsAssumption
<1> QED BY <1>5 DEF Max

(* The partition a plane reaches for is one of the ring, wherever it starts. *)
LEMMA ReachesForAPart ==
    ASSUME RingIInv, NEW p \in Instances, pc[p] = "take"
    PROVE  (Start(p) + pass[p].offset) % Count \in Parts
<1>1. p \in pass[p].members /\ pass[p].members \subseteq Instances /\ pass[p].offset \in Int
  BY PartitionsAssumption DEF RingIInv, PlaneInv, CountsItself, RingTypeOK, Passes, Reading
<1>2. IsFiniteSet(pass[p].members)
  BY <1>1, FS_Subset, PartitionsAssumption
<1>3. /\ Cardinality(pass[p].members) \in Nat
      /\ Cardinality(pass[p].members) # 0
  BY <1>1, <1>2, FS_CardinalityType, FS_EmptySet
<1>4. Cardinality({o \in pass[p].members : o < p}) \in Nat
  BY <1>2, FS_Subset, FS_CardinalityType
<1>5. Start(p) \in Int
  <2>1. \A a, b \in Nat, c \in Nat \ {0} : (a * b) \div c \in Int
    OBVIOUS
  <2> QED BY <2>1, <1>3, <1>4, PartitionsAssumption DEF Start
<1>6. \A a \in Int, c \in Nat \ {0} : a % c \in 0 .. c - 1
  OBVIOUS
<1>7. Start(p) + pass[p].offset \in Int
  BY <1>1, <1>5
<1> QED BY <1>6, <1>7, PartitionsAssumption DEF Parts

(* The share a pass computes is a number, so a surplus is not empty.        *)
LEMMA SurplusNotEmpty ==
    ASSUME RingIInv, NEW p \in Instances, pc[p] = "surplus", Cardinality(pass[p].mine) > Share(p)
    PROVE  pass[p].mine # {}
<1>1. p \in pass[p].members /\ pass[p].members \subseteq Instances
  BY DEF RingIInv, PlaneInv, CountsItself, RingTypeOK, Passes, Reading
<1>2. IsFiniteSet(pass[p].members)
  BY <1>1, FS_Subset, PartitionsAssumption
<1>3. Cardinality(pass[p].members) \in Nat \ {0}
  BY <1>1, <1>2, FS_CardinalityType, FS_EmptySet
<1>4. \A a, c \in Nat \ {0} : (a + c - 1) \div c \in Nat
  <2> TAKE a, c \in Nat \ {0}
  <2>1. a + c - 1 \in Nat
    OBVIOUS
  <2>2. \A b \in Nat : b \div c \in Nat
    OBVIOUS
  <2> QED BY <2>1, <2>2
<1>5. Share(p) \in Nat
  BY <1>3, <1>4, PartitionsAssumption DEF Share
<1>6. Cardinality({}) = 0
  BY FS_EmptySet
<1> QED BY <1>5, <1>6

-----------------------------------------------------------------------------
(* Init and every action keep the inductive invariant.                      *)

(* Nothing has been claimed when the first plane starts.                    *)
LEMMA RingInitIInv == RingInit => RingIInv
BY PartitionsAssumption
DEF RingInit, RingIInv, RingTypeOK, LeaseFollows, PlaneInv, SeenIsCurrent, ReadFirst, SeenAsOwn,
    ReadBacked, MineBacked, HeldBacked, CountsItself, Backed, Passes, Claims, RingSteps, NoPass,
    NoClaim, Left, Lapsed, Reading, Deciding, Parts

(* A write moves a key for every pass that has read keys and does nothing   *)
(* else to any pass.                                                        *)
LEMMA MovedFacts ==
    ASSUME RingTypeOK, NEW q \in Parts
    PROVE  /\ Moved(q) \in [Instances -> Passes]
           /\ \A r \in Instances :
                 /\ Moved(q)[r].members = pass[r].members /\ Moved(q)[r].unread = pass[r].unread
                 /\ Moved(q)[r].seen = pass[r].seen /\ Moved(q)[r].mine = pass[r].mine
                 /\ Moved(q)[r].todo = pass[r].todo /\ Moved(q)[r].offset = pass[r].offset
                 /\ pc[r] \in Reading => Moved(q)[r].moved = pass[r].moved \cup {q}
                 /\ pc[r] \notin Reading => Moved(q)[r] = pass[r]
<1>1. \A r \in Instances : pass[r] \in Passes
  BY DEF RingTypeOK
<1>2. Moved(q) = [r \in Instances |-> IF pc[r] \in Reading
                                   THEN [pass[r] EXCEPT !.moved = @ \cup {q}] ELSE pass[r]]
  BY DEF Moved, Reading
<1>3. \A r \in Instances : [pass[r] EXCEPT !.moved = @ \cup {q}] \in Passes
  BY <1>1 DEF Passes
<1>4. Moved(q) \in [Instances -> Passes]
  BY <1>1, <1>2, <1>3
<1>5. \A r \in Instances : Moved(q)[r] =
          IF pc[r] \in Reading THEN [pass[r] EXCEPT !.moved = @ \cup {q}] ELSE pass[r]
  BY <1>2
<1> QED BY <1>1, <1>4, <1>5 DEF Passes

(* A plane is not disturbed by a step that leaves the bucket and what the   *)
(* plane itself keeps alone.                                                *)
LEMMA Undisturbed ==
    ASSUME NEW p \in Instances, PlaneInv(p), UNCHANGED <<claim, lease>>,
           pc'[p] = pc[p], pass'[p] = pass[p], owned'[p] = owned[p]
    PROVE  PlaneInv(p)'
BY DEF PlaneInv, SeenIsCurrent, ReadFirst, SeenAsOwn, ReadBacked, MineBacked, HeldBacked,
       CountsItself, Backed

(* The steps of a pass that only read or only decide: announcing itself,    *)
(* listing the members, reading a key, and publishing what the pass ends    *)
(* with; the pass that fails and the process that ends.                     *)
LEMMA LocalStepKeeps ==
    ASSUME RingIInv, NEW p \in Instances,
           \/ Announce(p) \/ LiveMembers(p) \/ ReadOwner(p) \/ Mine(p) \/ Surplusless(p)
           \/ Renewed(p) \/ Publish(p) \/ PassFails(p) \/ Dies(p)
    PROVE  RingIInv'
<1> USE PartitionsAssumption DEF RingIInv
<1>1. NoPass \in Passes
  BY DEF NoPass, Passes, Claims, NoClaim, Left, Lapsed, Parts
<1>2. pass[p] \in Passes
  BY DEF RingTypeOK
<1>3. UNCHANGED <<claim, lease>>
  BY DEF Announce, LiveMembers, ReadOwner, Mine, Surplusless, Renewed, Publish, PassFails, Dies
<1>4. \A r \in Instances \ {p} : pc'[r] = pc[r] /\ pass'[r] = pass[r] /\ owned'[r] = owned[r]
  BY DEF Announce, LiveMembers, ReadOwner, Mine, Surplusless, Renewed, Publish, PassFails,
         Dies, RingTypeOK
<1>5. \A r \in Instances \ {p} : PlaneInv(r)'
  BY <1>3, <1>4, Undisturbed
<1>6. LeaseFollows'
  BY <1>3 DEF LeaseFollows
<1>7. CASE Announce(p)
  <2>1. RingTypeOK'
    BY <1>7, <1>1 DEF Announce, RingTypeOK, RingSteps, Left, Lapsed
  <2>2. PlaneInv(p)'
    BY <1>7 DEF Announce, RingTypeOK, Passes, PlaneInv, SeenIsCurrent, ReadFirst, SeenAsOwn, ReadBacked,
        MineBacked, HeldBacked, CountsItself, Backed, Reading, Deciding, NoPass
  <2> QED BY <2>1, <2>2, <1>5, <1>6
<1>8. CASE LiveMembers(p)
  <2> DEFINE new == [pass[p] EXCEPT !.members = {p} \cup {o \in Instances : member[o] # Lapsed},
                                    !.unread = Parts]
  <2>1. new \in Passes
    BY <1>2, Zenon DEF Passes, RingTypeOK
  <2>2. pass' = [pass EXCEPT ![p] = new]
    BY <1>8 DEF LiveMembers, RingTypeOK
  <2>3. RingTypeOK'
    <3> HIDE DEF new
    <3> QED BY <1>8, <2>1, <2>2, ZenonT(60) DEF LiveMembers, RingTypeOK, RingSteps
  <2>9. pass'[p] = new
    BY <2>2 DEF RingTypeOK
  <2>4. /\ pass'[p].unread = Parts /\ p \in pass'[p].members
        /\ pc'[p] = "owners" /\ owned'[p] = owned[p]
    BY <1>8, <1>2, <2>9 DEF LiveMembers, RingTypeOK, Passes
  <2>5. PlaneInv(p)'
    BY <1>3, <2>4 DEF PlaneInv, SeenIsCurrent, ReadFirst, SeenAsOwn, ReadBacked, MineBacked,
        HeldBacked, CountsItself, Backed, Reading, Deciding
  <2> QED BY <2>3, <2>5, <1>5, <1>6
<1>9. CASE ReadOwner(p)
  <2> DEFINE new(q) == [pass[p] EXCEPT !.unread = @ \ {q}, !.seen = [@ EXCEPT ![q] = claim[q]],
                                       !.moved = @ \ {q}]
  <2>0. PICK q \in pass[p].unread : pass' = [pass EXCEPT ![p] = new(q)]
    BY <1>9 DEF ReadOwner
  <2>1. new(q) \in Passes
    BY <1>2, <2>0, Zenon DEF Passes, RingTypeOK
  <2>3. RingTypeOK'
    <3> HIDE DEF new
    <3> QED BY <1>9, <2>1, <2>0 DEF ReadOwner, RingTypeOK, RingSteps
  <2>9. pass'[p] = new(q)
    BY <2>0 DEF RingTypeOK
  <2>4. /\ pass'[p].unread = pass[p].unread \ {q} /\ pass'[p].moved = pass[p].moved \ {q}
        /\ pass'[p].members = pass[p].members
        /\ pass'[p].seen = [pass[p].seen EXCEPT ![q] = claim[q]]
        /\ pc'[p] = "owners" /\ pc[p] = "owners" /\ owned'[p] = owned[p]
    BY <1>9, <1>2, <2>9 DEF ReadOwner, RingTypeOK, Passes
  <2>5. pass[p].seen \in [Parts -> Claims]
    BY <1>2 DEF Passes
  <2>6. PlaneInv(p)'
    BY <1>3, <2>4, <2>5 DEF PlaneInv, SeenIsCurrent, ReadFirst, SeenAsOwn, ReadBacked,
        MineBacked, HeldBacked, CountsItself, Backed, Reading, Deciding
  <2> QED BY <2>3, <2>6, <1>5, <1>6
<1>10. CASE Mine(p)
  <2> DEFINE new == [pass[p] EXCEPT !.mine = {q \in Parts : /\ pass[p].seen[q].owner = p
                                                      /\ pass[p].seen[q].left # Lapsed}]
  <2>1. new \in Passes
    BY <1>2, Zenon DEF Passes, RingTypeOK
  <2>2. pass' = [pass EXCEPT ![p] = new]
    BY <1>10 DEF Mine, RingTypeOK
  <2>3. RingTypeOK'
    <3> HIDE DEF new
    <3> QED BY <1>10, <2>1, <2>2, ZenonT(60) DEF Mine, RingTypeOK, RingSteps
  <2>4. PlaneInv(p)'
    BY <1>10, <2>1, <2>2, SMTT(60) DEF Mine, RingTypeOK, Passes, PlaneInv, SeenIsCurrent, ReadFirst, SeenAsOwn, ReadBacked,
        MineBacked, HeldBacked, CountsItself, Backed, Reading, Deciding
  <2> QED BY <2>3, <2>4, <1>5, <1>6
<1>11. CASE Surplusless(p)
  <2> DEFINE new == [pass[p] EXCEPT !.todo = pass[p].mine]
  <2>1. new \in Passes
    BY <1>2, Zenon DEF Passes, RingTypeOK
  <2>2. pass' = [pass EXCEPT ![p] = new]
    BY <1>11 DEF Surplusless, RingTypeOK
  <2>3. RingTypeOK'
    <3> HIDE DEF new
    <3> QED BY <1>11, <2>1, <2>2 DEF Surplusless, RingTypeOK, RingSteps
  <2>4. PlaneInv(p)'
    BY <1>11, <2>1, <2>2 DEF Surplusless, RingTypeOK, Passes, PlaneInv, SeenIsCurrent, ReadFirst, SeenAsOwn, ReadBacked,
        MineBacked, HeldBacked, CountsItself, Backed, Reading, Deciding
  <2> QED BY <2>3, <2>4, <1>5, <1>6
<1>12. CASE Renewed(p)
  <2>1. RingTypeOK'
    BY <1>12 DEF Renewed, RingTypeOK, RingSteps
  <2>2. PlaneInv(p)'
    BY <1>12 DEF Renewed, RingTypeOK, Passes, PlaneInv, SeenIsCurrent, ReadFirst, SeenAsOwn, ReadBacked,
        MineBacked, HeldBacked, CountsItself, Backed, Reading, Deciding
  <2> QED BY <2>1, <2>2, <1>5, <1>6
<1>13. CASE Publish(p)
  <2>1. RingTypeOK'
    BY <1>13, <1>1, <1>2 DEF Publish, RingTypeOK, RingSteps, Passes
  <2>2. PlaneInv(p)'
    BY <1>13 DEF Publish, RingTypeOK, Passes, PlaneInv, SeenIsCurrent, ReadFirst, SeenAsOwn, ReadBacked,
        MineBacked, HeldBacked, CountsItself, Backed, Reading, Deciding, NoPass
  <2> QED BY <2>1, <2>2, <1>5, <1>6
<1>14. CASE PassFails(p)
  <2>1. RingTypeOK'
    BY <1>14, <1>1 DEF PassFails, RingTypeOK, RingSteps, Left, Lapsed
  <2>2. PlaneInv(p)'
    BY <1>14 DEF PassFails, RingTypeOK, Passes, PlaneInv, SeenIsCurrent, ReadFirst, SeenAsOwn, ReadBacked,
        MineBacked, HeldBacked, CountsItself, Backed, Reading, Deciding, NoPass
  <2> QED BY <2>1, <2>2, <1>5, <1>6
<1>15. CASE Dies(p)
  <2>1. RingTypeOK'
    BY <1>15, <1>1 DEF Dies, RingTypeOK, RingSteps, Left, Lapsed
  <2>2. PlaneInv(p)'
    BY <1>15 DEF Dies, RingTypeOK, Passes, PlaneInv, SeenIsCurrent, ReadFirst, SeenAsOwn, ReadBacked,
        MineBacked, HeldBacked, CountsItself, Backed, Reading, Deciding, NoPass
  <2> QED BY <2>1, <2>2, <1>5, <1>6
<1> QED BY <1>7, <1>8, <1>9, <1>10, <1>11, <1>12, <1>13, <1>14, <1>15

(* A write on a key whose claim another plane does not hold, or holds no    *)
(* longer than its deadline, takes nothing from that plane.                 *)
LEMMA Outwritten ==
    ASSUME RingTypeOK, NEW r \in Instances, NEW q \in Parts, PlaneInv(r),
           pc'[r] = pc[r], owned'[r] = owned[r], pass'[r] = Moved(q)[r],
           \A k \in Parts \ {q} : claim'[k] = claim[k],
           lease'[r] = lease[r],
           claim[q].owner = r => lease[r][q] = Lapsed
    PROVE  PlaneInv(r)'
<1>1. /\ pass'[r].members = pass[r].members /\ pass'[r].unread = pass[r].unread
      /\ pass'[r].seen = pass[r].seen /\ pass'[r].mine = pass[r].mine
      /\ pass'[r].todo = pass[r].todo
      /\ pc[r] \in Reading => pass'[r].moved = pass[r].moved \cup {q}
  BY MovedFacts
<1>2. \A k \in Parts : Backed(r, k) => Backed(r, k)'
  BY DEF Backed
<1>3. pass[r].mine \subseteq Parts /\ owned[r] \subseteq Parts
  BY DEF RingTypeOK, Passes
<1> QED BY <1>1, <1>2, <1>3 DEF PlaneInv, SeenIsCurrent, ReadFirst, SeenAsOwn, ReadBacked,
        MineBacked, HeldBacked, CountsItself, Reading, Deciding

(* Whoever else holds the claim of a key lets a lapsed claim be taken.      *)
LEMMA LapsedIsNobodys ==
    ASSUME RingIInv, NEW q \in Parts, NEW r \in Instances, claim[q].left = Lapsed
    PROVE  claim[q].owner = r => lease[r][q] = Lapsed
BY DEF RingIInv, LeaseFollows

(* Giving a partition of the surplus back deletes a key that is the plane's *)
(* own, or one that has moved and is left alone.                            *)
LEMMA ReleaseSurplusKeeps ==
    ASSUME RingIInv, NEW p \in Instances, ReleaseSurplus(p), pass[p].mine # {}
    PROVE  RingIInv'
<1> DEFINE q == Max(pass[p].mine)
<1> USE PartitionsAssumption
<1>1. /\ pass \in [Instances -> Passes] /\ pass[p] \in Passes /\ owned \in [Instances -> SUBSET Parts]
      /\ pc[p] = "surplus" /\ pc' = pc /\ UNCHANGED <<member, lease, beaten, ringFaults>>
      /\ PlaneInv(p)
  BY DEF RingIInv, RingTypeOK, ReleaseSurplus
<1>2. q \in pass[p].mine /\ q \in Parts
  BY <1>1, MaxOfParts DEF Passes
<1>3. owned' = [owned EXCEPT ![p] = @ \ {q}]
  BY DEF ReleaseSurplus
<1>4. CASE q \in pass[p].moved
  <2> DEFINE new == [pass[p] EXCEPT !.mine = @ \ {q}]
  <2>1. pass' = [pass EXCEPT ![p] = new] /\ claim' = claim
    BY <1>4, <1>1 DEF ReleaseSurplus
  <2>2. new \in Passes
    BY <1>1 DEF Passes
  <2>3. RingTypeOK'
    <3> HIDE DEF new, q
    <3> QED BY <1>1, <1>3, <2>1, <2>2 DEF RingIInv, RingTypeOK
  <2>4. PlaneInv(p)'
    <3>1. pass'[p] = new /\ owned'[p] = owned[p] \ {q}
      BY <1>1, <1>3, <2>1
    <3> QED BY <1>1, <2>1, <3>1 DEF Passes, PlaneInv, SeenIsCurrent, ReadFirst, SeenAsOwn,
        ReadBacked, MineBacked, HeldBacked, CountsItself, Backed, Reading, Deciding
  <2>5. \A r \in Instances \ {p} : PlaneInv(r)'
    BY <1>1, <1>3, <2>1, Undisturbed DEF RingIInv
  <2>6. LeaseFollows'
    BY <1>1, <2>1 DEF RingIInv, LeaseFollows
  <2> QED BY <2>3, <2>4, <2>5, <2>6 DEF RingIInv
<1>5. CASE q \notin pass[p].moved
  <2> DEFINE new == [Moved(q)[p] EXCEPT !.mine = @ \ {q}]
  <2>1. pass' = [Moved(q) EXCEPT ![p] = new] /\ claim' = [claim EXCEPT ![q] = NoClaim]
    BY <1>5, <1>1 DEF ReleaseSurplus
  <2>2. Moved(q) \in [Instances -> Passes]
    BY <1>2, MovedFacts DEF RingIInv
  <2>3. new \in Passes
    BY <2>2 DEF Passes
  <2>4. RingTypeOK'
    <3>1. NoClaim \in Claims
      BY DEF NoClaim, Claims, Left, Lapsed
    <3> HIDE DEF new, q
    <3> QED BY <1>1, <1>3, <2>1, <2>2, <2>3, <3>1 DEF RingIInv, RingTypeOK
  <2>5. claim[q].owner = p
    BY <1>1, <1>2, <1>5 DEF PlaneInv, SeenAsOwn, SeenIsCurrent, ReadFirst, Reading, Deciding
  <2>6. pass'[p] = new /\ owned'[p] = owned[p] \ {q}
    BY <1>1, <1>3, <2>1, <2>2
  <2>7. \A k \in Parts \ {q} : claim'[k] = claim[k]
    BY <2>1 DEF RingIInv, RingTypeOK
  <2>8. PlaneInv(p)'
    <3>1. /\ pass'[p].members = pass[p].members /\ pass'[p].unread = pass[p].unread
          /\ pass'[p].seen = pass[p].seen /\ pass'[p].mine = pass[p].mine \ {q}
          /\ pass'[p].moved = pass[p].moved \cup {q}
      BY <1>1, <1>2, <2>2, <2>6, MovedFacts DEF RingIInv, Passes, Reading
    <3>2. pass[p].mine \subseteq Parts /\ owned[p] \subseteq Parts
      BY <1>1 DEF Passes
    <3> HIDE DEF new, q
    <3> QED BY <1>1, <2>6, <2>7, <3>1, <3>2 DEF PlaneInv, SeenIsCurrent, ReadFirst, SeenAsOwn,
        ReadBacked, MineBacked, HeldBacked, CountsItself, Backed, Reading, Deciding
  <2>9. ASSUME NEW r \in Instances \ {p} PROVE PlaneInv(r)'
    <3>1. pass'[r] = Moved(q)[r] /\ owned'[r] = owned[r]
      BY <1>1, <1>3, <2>1, <2>2
    <3> HIDE DEF q
    <3> QED BY <1>1, <1>2, <2>5, <2>7, <3>1, Outwritten DEF RingIInv
  <2>10. LeaseFollows'
    BY <1>1, <2>1, <2>7 DEF RingIInv, LeaseFollows, RingTypeOK, NoClaim
  <2> QED BY <2>4, <2>8, <2>9, <2>10 DEF RingIInv
<1> QED BY <1>4, <1>5

(* A write of p's claim on a key that no other plane holds within its       *)
(* deadline.                                                                *)
LEMMA WriteKeeps ==
    ASSUME RingIInv, NEW p \in Instances, NEW q \in Parts, NEW new \in Passes,
           pc[p] \in {"renew", "take"}, Write(p, q),
           pass' = [Moved(q) EXCEPT ![p] = new],
           UNCHANGED <<member, pc, owned, beaten, ringFaults>>,
           \A r \in Instances \ {p} : claim[q].owner = r => lease[r][q] = Lapsed,
           new.members = pass[p].members, new.unread = pass[p].unread,
           new.seen = pass[p].seen, new.moved = pass[p].moved \cup {q},
           new.mine \subseteq pass[p].mine \cup {q}, new.todo \subseteq pass[p].todo
    PROVE  RingIInv'
<1> USE PartitionsAssumption
<1>1. Moved(q) \in [Instances -> Passes]
  BY MovedFacts DEF RingIInv
<1>2. /\ claim \in [Parts -> Claims] /\ lease \in [Instances -> [Parts -> Left]]
      /\ pass[p] \in Passes /\ PlaneInv(p) /\ owned[p] \subseteq Parts
  BY DEF RingIInv, RingTypeOK
<1>3. /\ claim' = [claim EXCEPT ![q] = [owner |-> p, left |-> TTL]]
      /\ lease' = [lease EXCEPT ![p][q] = TTL]
  BY DEF Write
<1>4. RingTypeOK'
  <2>1. [owner |-> p, left |-> TTL] \in Claims /\ TTL \in Left
    BY DEF Claims, Left, Lapsed
  <2>2. claim' \in [Parts -> Claims] /\ lease' \in [Instances -> [Parts -> Left]]
    BY <1>2, <1>3, <2>1
  <2>3. pass' \in [Instances -> Passes]
    BY <1>1
  <2> QED BY <2>2, <2>3 DEF RingIInv, RingTypeOK
<1>5. /\ \A k \in Parts \ {q} : claim'[k] = claim[k] /\ lease'[p][k] = lease[p][k]
      /\ claim'[q].owner = p /\ claim'[q].left = TTL /\ lease'[p][q] = TTL
      /\ \A r \in Instances \ {p} : lease'[r] = lease[r]
  BY <1>2, <1>3
<1>6. LeaseFollows'
  BY <1>5 DEF RingIInv, LeaseFollows
<1>7. PlaneInv(p)'
  <2>1. pass'[p] = new
    BY <1>1
  <2>2. pass[p].mine \subseteq Parts
    BY <1>2 DEF Passes
  <2> QED BY <1>2, <1>5, <2>1, <2>2 DEF PlaneInv, SeenIsCurrent, ReadFirst, SeenAsOwn,
        ReadBacked, MineBacked, HeldBacked, CountsItself, Backed, Reading, Deciding
<1>8. ASSUME NEW r \in Instances \ {p} PROVE PlaneInv(r)'
  <2>1. pass'[r] = Moved(q)[r]
    BY <1>1
  <2> QED BY <1>5, <2>1, Outwritten DEF RingIInv
<1> QED BY <1>4, <1>6, <1>7, <1>8 DEF RingIInv

(* A renewal writes a key that is still the plane's own; refused, the plane *)
(* forgets the partition.                                                   *)
LEMMA RenewKeeps ==
    ASSUME RingIInv, NEW p \in Instances, Renew(p)
    PROVE  RingIInv'
<1> DEFINE q == Min(pass[p].todo)
<1> USE PartitionsAssumption
<1>1. /\ pass \in [Instances -> Passes] /\ pass[p] \in Passes /\ owned \in [Instances -> SUBSET Parts]
      /\ pc[p] = "renew" /\ UNCHANGED <<member, pc, beaten, ringFaults>>
      /\ pass[p].todo # {} /\ PlaneInv(p)
  BY DEF RingIInv, RingTypeOK, Renew
<1>2. q \in pass[p].todo /\ q \in Parts
  BY <1>1, MinOfParts DEF Passes
<1>3. CASE q \notin pass[p].moved
  <2> DEFINE new == [Moved(q)[p] EXCEPT !.todo = @ \ {q}]
  <2>1. pass' = [Moved(q) EXCEPT ![p] = new] /\ Write(p, q) /\ owned' = owned
    BY <1>3, <1>1 DEF Renew
  <2>2. Moved(q)[p] \in Passes
    BY <1>2, MovedFacts DEF RingIInv
  <2>3. new \in Passes
    BY <2>2 DEF Passes
  <2>4. claim[q].owner = p
    BY <1>1, <1>2, <1>3 DEF PlaneInv, SeenAsOwn, SeenIsCurrent, ReadFirst, Reading, Deciding
  <2>5. /\ new.members = pass[p].members /\ new.unread = pass[p].unread
        /\ new.seen = pass[p].seen /\ new.moved = pass[p].moved \cup {q}
        /\ new.mine \subseteq pass[p].mine \cup {q} /\ new.todo \subseteq pass[p].todo
    BY <1>1, <1>2, <2>2, MovedFacts DEF RingIInv, Passes, Reading
  <2> HIDE DEF new, q
  <2> QED BY <1>1, <1>2, <2>1, <2>3, <2>4, <2>5, WriteKeeps
<1>4. CASE q \in pass[p].moved
  <2> DEFINE new == [pass[p] EXCEPT !.todo = @ \ {q}, !.mine = @ \ {q}]
  <2>1. /\ pass' = [pass EXCEPT ![p] = new] /\ UNCHANGED <<claim, lease>>
        /\ owned' = [owned EXCEPT ![p] = @ \ {q}]
    BY <1>4, <1>1 DEF Renew
  <2>2. new \in Passes
    BY <1>1 DEF Passes
  <2>3. RingTypeOK'
    <3> HIDE DEF new, q
    <3> QED BY <1>1, <2>1, <2>2 DEF RingIInv, RingTypeOK
  <2>4. PlaneInv(p)'
    <3>1. pass'[p] = new /\ owned'[p] = owned[p] \ {q}
      BY <1>1, <2>1
    <3> QED BY <1>1, <2>1, <3>1 DEF Passes, PlaneInv, SeenIsCurrent, ReadFirst, SeenAsOwn,
        ReadBacked, MineBacked, HeldBacked, CountsItself, Backed, Reading, Deciding
  <2>5. \A r \in Instances \ {p} : PlaneInv(r)'
    BY <1>1, <2>1, Undisturbed DEF RingIInv
  <2>6. LeaseFollows'
    BY <2>1 DEF RingIInv, LeaseFollows
  <2> QED BY <2>3, <2>4, <2>5, <2>6 DEF RingIInv
<1> QED BY <1>3, <1>4

(* A partition is taken where no key was seen and none is there, or where   *)
(* the key seen had lapsed and has not moved.                               *)
LEMMA TakeKeeps ==
    ASSUME RingIInv, NEW p \in Instances, TakeFree(p)
    PROVE  RingIInv'
<1> DEFINE q == (Start(p) + pass[p].offset) % Count
<1> USE PartitionsAssumption
<1>1. /\ pass \in [Instances -> Passes] /\ pass[p] \in Passes /\ owned \in [Instances -> SUBSET Parts]
      /\ pc[p] = "take" /\ UNCHANGED <<member, pc, owned, beaten, ringFaults>>
      /\ pass[p].offset < Count /\ pass[p].offset \in 0 .. Count /\ PlaneInv(p)
  BY DEF RingIInv, RingTypeOK, TakeFree, Passes
<1>2. q \in Parts
  BY <1>1, ReachesForAPart
<1>3. CASE /\ Free(p, q) /\ Lands(p, q) /\ Write(p, q)
           /\ pass' = [Moved(q) EXCEPT ![p].mine = @ \cup {q}, ![p].offset = @ + 1]
  <2> DEFINE new == [Moved(q)[p] EXCEPT !.mine = @ \cup {q}, !.offset = @ + 1]
  <2>1. Moved(q) \in [Instances -> Passes] /\ Moved(q)[p].offset = pass[p].offset
    BY <1>2, MovedFacts DEF RingIInv
  <2>2. new \in Passes
    <3>1. pass[p].offset + 1 \in 0 .. Count
      BY <1>1
    <3>2. Moved(q)[p] \in Passes /\ q \in Parts
      BY <1>2, <2>1
    <3> HIDE DEF q
    <3> QED BY <2>1, <3>1, <3>2, Zenon DEF Passes
  <2>3. pass' = [Moved(q) EXCEPT ![p] = new]
    BY <1>3, <2>1
  <2>4. ASSUME NEW r \in Instances \ {p}, claim[q].owner = r PROVE lease[r][q] = Lapsed
    <3>1. claim[q].left = Lapsed
      BY <1>1, <1>2, <1>3 DEF Free, Lands, NoClaim, PlaneInv, SeenIsCurrent, ReadFirst,
         Reading, Deciding
    <3> QED BY <1>2, <2>4, <3>1, LapsedIsNobodys
  <2>5. /\ new.members = pass[p].members /\ new.unread = pass[p].unread
        /\ new.seen = pass[p].seen /\ new.moved = pass[p].moved \cup {q}
        /\ new.mine \subseteq pass[p].mine \cup {q} /\ new.todo \subseteq pass[p].todo
    BY <1>1, <1>2, <2>1, MovedFacts DEF RingIInv, Passes, Reading
  <2> HIDE DEF new, q
  <2> QED BY <1>1, <1>2, <1>3, <2>2, <2>3, <2>4, <2>5, WriteKeeps
<1>4. CASE pass' = [pass EXCEPT ![p].offset = @ + 1] /\ UNCHANGED <<claim, lease>>
  <2> DEFINE new == [pass[p] EXCEPT !.offset = @ + 1]
  <2>1. pass' = [pass EXCEPT ![p] = new]
    BY <1>4, <1>1
  <2>2. new \in Passes
    <3>1. pass[p].offset + 1 \in 0 .. Count
      BY <1>1
    <3> QED BY <1>1, <3>1, Zenon DEF Passes
  <2>3. RingTypeOK'
    <3> HIDE DEF new, q
    <3> QED BY <1>1, <1>4, <2>1, <2>2 DEF RingIInv, RingTypeOK
  <2>4. PlaneInv(p)'
    <3>1. pass'[p] = new
      BY <1>1, <2>1
    <3> QED BY <1>1, <1>4, <3>1 DEF Passes, PlaneInv, SeenIsCurrent, ReadFirst, SeenAsOwn,
        ReadBacked, MineBacked, HeldBacked, CountsItself, Backed, Reading, Deciding
  <2>5. \A r \in Instances \ {p} : PlaneInv(r)'
    BY <1>1, <1>4, <2>1, Undisturbed DEF RingIInv
  <2>6. LeaseFollows'
    BY <1>4 DEF RingIInv, LeaseFollows
  <2> QED BY <2>3, <2>4, <2>5, <2>6 DEF RingIInv
<1> QED BY <1>3, <1>4 DEF TakeFree

(* The clock takes the same off what a key says, what was read of it and    *)
(* what its owner wrote; a lapsed deadline stays lapsed.                    *)
LEMMA TickKeeps ==
    ASSUME RingIInv, RingTick
    PROVE  RingIInv'
<1> USE PartitionsAssumption
<1>1. \A l \in Left : Older(l) \in Left
  BY DEF Older, Left, Lapsed
<1>2. Older(Lapsed) = Lapsed
  BY DEF Older
<1>3. /\ claim \in [Parts -> Claims] /\ lease \in [Instances -> [Parts -> Left]]
      /\ pass \in [Instances -> Passes] /\ member \in [Instances -> Left] /\ ringFaults \in 0 .. MaxRingFaults
  BY DEF RingIInv, RingTypeOK
<1>4. ASSUME NEW c \in Claims
      PROVE  Aged(c) \in Claims /\ Aged(c).owner = c.owner /\ Aged(c).left = Older(c.left)
  BY <1>1 DEF Claims, Aged
<1>5. /\ claim' = [q \in Parts |-> Aged(claim[q])]
      /\ lease' = [p \in Instances |-> [q \in Parts |-> Older(lease[p][q])]]
      /\ UNCHANGED <<pc, owned>>
  BY DEF RingTick
<1>6. ASSUME NEW p \in Instances
      PROVE  /\ pass'[p] \in Passes
             /\ pass'[p].seen = [q \in Parts |-> Aged(pass[p].seen[q])]
             /\ pass'[p].members = pass[p].members /\ pass'[p].unread = pass[p].unread
             /\ pass'[p].moved = pass[p].moved /\ pass'[p].mine = pass[p].mine
             /\ pass'[p].todo = pass[p].todo
  <2> DEFINE aged == [q \in Parts |-> Aged(pass[p].seen[q])]
  <2>1. pass[p] \in Passes /\ pass[p].seen \in [Parts -> Claims]
    BY <1>3 DEF Passes
  <2>2. aged \in [Parts -> Claims]
    BY <1>4, <2>1
  <2>3. pass'[p] = [pass[p] EXCEPT !.seen = aged]
    BY DEF RingTick
  <2>4. /\ pass'[p] \in Passes /\ pass'[p].seen = aged
        /\ pass'[p].members = pass[p].members /\ pass'[p].unread = pass[p].unread
        /\ pass'[p].moved = pass[p].moved /\ pass'[p].mine = pass[p].mine
        /\ pass'[p].todo = pass[p].todo
    <3> HIDE DEF aged
    <3> QED BY <2>1, <2>2, <2>3 DEF Passes
  <2> QED BY <2>4
<1>7. RingTypeOK'
  <2>1. claim' \in [Parts -> Claims]
    BY <1>3, <1>4, <1>5
  <2>2. lease' \in [Instances -> [Parts -> Left]]
    BY <1>1, <1>3, <1>5
  <2>3. member' \in [Instances -> Left]
    BY <1>1, <1>3 DEF RingTick
  <2>4. pass' \in [Instances -> Passes]
    BY <1>6 DEF RingTick
  <2>5. ringFaults' \in 0 .. MaxRingFaults /\ beaten' \subseteq Instances
    BY <1>3 DEF RingTick
  <2> QED BY <1>5, <2>1, <2>2, <2>3, <2>4, <2>5 DEF RingIInv, RingTypeOK
<1>8. \A q \in Parts : claim'[q].owner = claim[q].owner /\ claim'[q].left = Older(claim[q].left)
  BY <1>3, <1>4, <1>5
<1>9. \A p \in Instances, q \in Parts : lease'[p][q] = Older(lease[p][q])
  BY <1>5
<1>10. LeaseFollows'
  BY <1>8, <1>9 DEF RingIInv, LeaseFollows
<1>11. ASSUME NEW p \in Instances PROVE PlaneInv(p)'
  <2>1. \A q \in Parts : Backed(p, q) => Backed(p, q)'
    BY <1>2, <1>8, <1>9 DEF Backed
  <2>2. \A q \in Parts : /\ pass[p].seen[q] = claim[q] => pass'[p].seen[q] = claim'[q]
                         /\ pass'[p].seen[q].owner = pass[p].seen[q].owner
    <3>1. pass[p].seen \in [Parts -> Claims]
      BY <1>3 DEF Passes
    <3>2. \A q \in Parts : pass'[p].seen[q] = Aged(pass[p].seen[q]) /\ claim'[q] = Aged(claim[q])
      BY <1>5, <1>6
    <3> QED BY <1>4, <3>1, <3>2
  <2>3. PlaneInv(p) /\ pass[p].mine \subseteq Parts /\ pass[p].todo \subseteq Parts
                    /\ owned[p] \subseteq Parts
    BY DEF RingIInv, RingTypeOK, Passes
  <2> QED BY <1>5, <1>6, <2>1, <2>2, <2>3 DEF PlaneInv, SeenIsCurrent, ReadFirst, SeenAsOwn,
        ReadBacked, MineBacked, HeldBacked, CountsItself
<1> QED BY <1>7, <1>10, <1>11 DEF RingIInv

(* The inductive invariant holds in every reachable state: the keys of the  *)
(* bucket, what the passes have read of them and what the planes hold agree. *)
THEOREM PlanesAgree == RingSpec => []RingIInv
<1>1. RingIInv /\ [RingNext]_ringVars => RingIInv'
  <2> SUFFICES ASSUME RingIInv, [RingNext]_ringVars PROVE RingIInv'
    OBVIOUS
  <2>1. ASSUME NEW p \in Instances, Announce(p) \/ Claiming(p) \/ PassFails(p) \/ Dies(p)
        PROVE  RingIInv'
    <3>1. CASE ReleaseSurplus(p)
      BY <3>1, SurplusNotEmpty, ReleaseSurplusKeeps DEF ReleaseSurplus
    <3>2. CASE Renew(p)
      BY <3>2, RenewKeeps
    <3>3. CASE TakeFree(p)
      BY <3>3, TakeKeeps
    <3>4. CASE \/ Announce(p) \/ LiveMembers(p) \/ ReadOwner(p) \/ Mine(p) \/ Surplusless(p)
               \/ Renewed(p) \/ Publish(p) \/ PassFails(p) \/ Dies(p)
      BY <3>4, LocalStepKeeps
    <3> QED BY <2>1, <3>1, <3>2, <3>3, <3>4 DEF Claiming
  <2>2. CASE RingTick
    BY <2>2, TickKeeps
  <2>3. CASE UNCHANGED ringVars
    BY <2>3 DEF ringVars, RingIInv, RingTypeOK, LeaseFollows, PlaneInv, SeenIsCurrent, ReadFirst, SeenAsOwn,
        ReadBacked, MineBacked, HeldBacked, CountsItself, Backed
  <2> QED BY <2>1, <2>2, <2>3 DEF RingNext
<1> QED BY <1>1, RingInitIInv, PTL DEF RingSpec

(* Type correctness of the ring (partition.go's keys, views and passes).    *)
THEOREM PartitionsTypeOK == RingSpec => []RingTypeOK
<1>1. RingIInv => RingTypeOK
  BY DEF RingIInv
<1> QED BY <1>1, PlanesAgree, PTL

(* OneOwner for any ring: a plane that acts on a partition has its claim in *)
(* the bucket or has gone a whole TTL without renewing it, whoever joins,   *)
(* stops, or loses the bus between two steps of ClaimPartitions.            *)
THEOREM OneOwnerHolds == RingSpec => []OneOwner
<1>1. RingIInv => OneOwner
  BY DEF RingIInv, PlaneInv, HeldBacked, Backed, OneOwner, Owns
<1> QED BY <1>1, PlanesAgree, PTL

(* Two planes that both act on a partition: at most one of them is still    *)
(* within the deadline of a claim it wrote.                                 *)
NeverBothWithinDeadline ==
    \A p, r \in Instances, q \in Parts :
        Owns(p, q) /\ Owns(r, q) /\ lease[p][q] # Lapsed /\ lease[r][q] # Lapsed => p = r

(* What OneOwner is for: no two planes act on a partition within their      *)
(* deadlines, so what they both do to a run is a matter of fencing alone.   *)
THEOREM DeadlinesExclude == RingSpec => []NeverBothWithinDeadline
<1>1. OneOwner => NeverBothWithinDeadline
  BY DEF OneOwner, NeverBothWithinDeadline
<1> QED BY <1>1, OneOwnerHolds, PTL

-----------------------------------------------------------------------------
(* The fair queue.                                                          *)

(* The numbers up to n are finitely many, and n of them.                    *)
LEMMA UpToFinite ==
    ASSUME NEW n \in Nat
    PROVE  IsFiniteSet(1 .. n) /\ Cardinality(1 .. n) = n
  <1>1. IsFiniteSet(1 .. n) /\ Cardinality(1 .. n) = IF 1 > n THEN 0 ELSE n - 1 + 1
    BY FS_Interval
  <1> QED BY <1>1

(* What a pass takes is bounded by credit, queue and room.                  *)
LEMMA MinOfThree ==
    ASSUME NEW a \in Nat, NEW b \in Nat, NEW c \in Nat
    PROVE  /\ Min({a, b, c}) \in Nat /\ Min({a, b, c}) <= a /\ Min({a, b, c}) <= b
           /\ Min({a, b, c}) <= c /\ Min({a, b, c}) \in {a, b, c}
  <1>1. \E x \in {a, b, c} : \A y \in {a, b, c} : x =< y
    OBVIOUS
  <1>2. Min({a, b, c}) \in {a, b, c} /\ \A y \in {a, b, c} : Min({a, b, c}) =< y
    BY <1>1 DEF Min
  <1> QED BY <1>2

(* A list cut in two after its n-th element.                                *)
LEMMA SubSeqParts ==
    ASSUME NEW S, NEW l \in Seq(S), NEW n \in 0 .. Len(l)
    PROVE  /\ SubSeq(l, 1, n) \in Seq(S) /\ Len(SubSeq(l, 1, n)) = n
           /\ \A i \in 1 .. n : SubSeq(l, 1, n)[i] = l[i]
           /\ SubSeq(l, n + 1, Len(l)) \in Seq(S) /\ Len(SubSeq(l, n + 1, Len(l))) = Len(l) - n
           /\ \A i \in 1 .. Len(l) - n : SubSeq(l, n + 1, Len(l))[i] = l[n + i]
  <1>0. Len(l) \in Nat
    OBVIOUS
  <1>1. \A j \in 1 .. n : l[j] \in S
    BY <1>0
  <1>2. \A j \in n + 1 .. Len(l) : l[j] \in S
    BY <1>0
  <1> QED BY <1>0, <1>1, <1>2

(* A list without its i-th element: those behind it move up.                *)
LEMMA WithoutOne ==
    ASSUME NEW S, NEW s \in Seq(S), NEW i \in 1 .. Len(s)
    PROVE  /\ RemoveAt(s, i) \in Seq(S) /\ Len(RemoveAt(s, i)) = Len(s) - 1
           /\ \A j \in 1 .. Len(s) - 1 : RemoveAt(s, i)[j] = s[IF j < i THEN j ELSE j + 1]
  <1> DEFINE l == SubSeq(s, 1, i - 1)
             r == SubSeq(s, i + 1, Len(s))
  <1>0. Len(s) \in Nat
    OBVIOUS
  <1>1. l \in Seq(S) /\ Len(l) = i - 1 /\ \A j \in 1 .. i - 1 : l[j] = s[j]
    <2>1. \A j \in 1 .. i - 1 : s[j] \in S
      BY <1>0
    <2> QED BY <1>0, <2>1
  <1>2. r \in Seq(S) /\ Len(r) = Len(s) - i /\ \A j \in 1 .. Len(s) - i : r[j] = s[i + j]
    <2>1. \A j \in i + 1 .. Len(s) : s[j] \in S
      BY <1>0
    <2> QED BY <1>0, <2>1
  <1> HIDE DEF l, r
  <1>3. RemoveAt(s, i) = l \o r
    BY DEF RemoveAt, l, r
  <1>4. /\ l \o r \in Seq(S) /\ Len(l \o r) = Len(l) + Len(r)
        /\ \A j \in 1 .. Len(l) + Len(r) :
              (l \o r)[j] = IF j <= Len(l) THEN l[j] ELSE r[j - Len(l)]
    BY <1>1, <1>2, ConcatProperties
  <1>5. ASSUME NEW j \in 1 .. Len(s) - 1
        PROVE  (l \o r)[j] = s[IF j < i THEN j ELSE j + 1]
    <2>1. CASE j < i
      BY <1>0, <1>1, <1>2, <1>4, <2>1
    <2>2. CASE ~(j < i)
      <3>1. j - (i - 1) \in 1 .. Len(s) - i /\ i + (j - (i - 1)) = j + 1
        BY <1>0, <2>2
      <3>2. (l \o r)[j] = r[j - (i - 1)]
        BY <1>0, <1>1, <1>2, <1>4, <2>2
      <3> QED BY <1>2, <2>2, <3>1, <3>2
    <2> QED BY <2>1, <2>2
  <1> QED BY <1>0, <1>1, <1>2, <1>3, <1>4, <1>5

(* A list of items in which no step is twice.                               *)
OneEach(l) == \A m, n \in DOMAIN l : l[m].step = l[n].step => m = n

(* What a queue keeps: each tenant's own items, each step once, and in the  *)
(* rotation the tenants that wait, each once. The turn that is open is that *)
(* of the one tenant with credit left.                                      *)
Rotation(q) ==
    /\ ToSet(q.active) = Waiting(q)
    /\ \A m, n \in DOMAIN q.active : q.active[m] = q.active[n] => m = n
    /\ \A t \in Tenants : q.deficit[t] < Weight[t] \/ ~q.turnOpen
    /\ \A t \in Tenants : q.deficit[t] > 0 =>
         q.turnOpen /\ q.cursor <= Len(q.active) /\ q.active[q.cursor] = t
    /\ q.turnOpen => q.cursor <= Len(q.active) /\ q.deficit[q.active[q.cursor]] > 0

QueueGood(q) ==
    /\ q \in Queues(Items) /\ Rotation(q)
    /\ \A t \in Tenants :
          OneEach(q.items[t]) /\ \A i \in ToSet(q.items[t]) : Tenant(i.step) = t

QueueItems(q) == UNION {ToSet(q.items[t]) : t \in Tenants}
StepsOf(items) == {i.step : i \in items}

(* An empty queue is a good one.                                            *)
LEMMA NewQueueGood == QueueGood(NewQueue) /\ QueueItems(NewQueue) = {}
  <1>0. \A S : <<>> \in Seq(S) /\ DOMAIN <<>> = {} /\ Len(<<>>) = 0
    OBVIOUS
  <1>q. PICK q : q = NewQueue
    OBVIOUS
  <1>1. /\ q.items = [t \in Tenants |-> <<>>] /\ q.deficit = [t \in Tenants |-> 0]
        /\ q.active = <<>> /\ q.cursor = 1 /\ q.turnOpen = FALSE
    BY <1>q DEF NewQueue
  <1>2. NewQueue \in Queues(Items)
    <2>1. [t \in Tenants |-> <<>>] \in [Tenants -> Seq(Items)] /\ <<>> \in Seq(Tenants)
      BY <1>0
    <2> QED BY <2>1 DEF NewQueue, Queues
  <1>3. \A t \in Tenants : q.items[t] = <<>> /\ q.deficit[t] = 0 /\ ToSet(q.items[t]) = {}
    BY <1>1, <1>0 DEF ToSet
  <1>4. QueueItems(q) = {}
    BY <1>3 DEF QueueItems
  <1>5. Waiting(q) = {} /\ ToSet(q.active) = {}
    BY <1>0, <1>1, <1>3 DEF Waiting, ToSet
  <1>6. Rotation(q)
    BY <1>0, <1>1, <1>3, <1>5 DEF Rotation
  <1>7. \A t \in Tenants : OneEach(q.items[t])
    BY <1>3, <1>0 DEF OneEach
  <1> QED BY <1>q, <1>2, <1>3, <1>4, <1>6, <1>7 DEF QueueGood

(* Cutting a list of items loses none and repeats none.                     *)
LEMMA ListCut ==
    ASSUME NEW l \in Seq(Items), NEW n \in 0 .. Len(l), OneEach(l)
    PROVE  /\ ToSet(l) = ToSet(SubSeq(l, 1, n)) \cup ToSet(SubSeq(l, n + 1, Len(l)))
           /\ OneEach(SubSeq(l, 1, n)) /\ OneEach(SubSeq(l, n + 1, Len(l)))
           /\ \A i \in ToSet(SubSeq(l, 1, n)), j \in ToSet(SubSeq(l, n + 1, Len(l))) : i.step # j.step
  <1>a. PICK a : a = SubSeq(l, 1, n)
    OBVIOUS
  <1>b. PICK b : b = SubSeq(l, n + 1, Len(l))
    OBVIOUS
  <1>0. Len(l) \in Nat /\ DOMAIN l = 1 .. Len(l)
    OBVIOUS
  <1>1. /\ a \in Seq(Items) /\ Len(a) = n /\ \A i \in 1 .. n : a[i] = l[i]
        /\ b \in Seq(Items) /\ Len(b) = Len(l) - n /\ \A i \in 1 .. Len(l) - n : b[i] = l[n + i]
    BY <1>a, <1>b, SubSeqParts
  <1>2. DOMAIN a = 1 .. n /\ DOMAIN b = 1 .. Len(l) - n
    BY <1>0, <1>1
  <1>3. ToSet(l) = ToSet(a) \cup ToSet(b)
    <2>1. ASSUME NEW k \in 1 .. Len(l) PROVE l[k] \in ToSet(a) \cup ToSet(b)
      <3>1. CASE k <= n
        <4>1. k \in 1 .. n
          BY <1>0, <3>1
        <4>2. a[k] = l[k] /\ k \in DOMAIN a
          BY <1>1, <1>2, <4>1
        <4> QED BY <4>2 DEF ToSet
      <3>2. CASE ~(k <= n)
        <4>1. k - n \in 1 .. Len(l) - n /\ n + (k - n) = k
          BY <1>0, <3>2
        <4>2. b[k - n] = l[k]
          BY <1>1, <4>1
        <4> QED BY <1>2, <4>1, <4>2 DEF ToSet
      <3> QED BY <3>1, <3>2
    <2>2. ASSUME NEW k \in 1 .. n PROVE a[k] \in ToSet(l)
      <3>1. k \in 1 .. Len(l) /\ a[k] = l[k]
        BY <1>0, <1>1
      <3> QED BY <1>0, <3>1 DEF ToSet
    <2>3. ASSUME NEW k \in 1 .. Len(l) - n PROVE b[k] \in ToSet(l)
      <3>1. n + k \in 1 .. Len(l)
        BY <1>0
      <3> QED BY <1>0, <1>1, <3>1 DEF ToSet
    <2>4. ToSet(l) \subseteq ToSet(a) \cup ToSet(b)
      BY <1>0, <2>1 DEF ToSet
    <2>5. ToSet(a) \subseteq ToSet(l)
      BY <1>2, <2>2 DEF ToSet
    <2>6. ToSet(b) \subseteq ToSet(l)
      BY <1>2, <2>3 DEF ToSet
    <2> QED BY <2>4, <2>5, <2>6
  <1>4. OneEach(a)
    BY <1>0, <1>1, <1>2 DEF OneEach
  <1>5. OneEach(b)
    <2>1. ASSUME NEW j \in 1 .. Len(l) - n, NEW k \in 1 .. Len(l) - n, b[j].step = b[k].step
          PROVE  j = k
      <3>1. n + j \in 1 .. Len(l) /\ n + k \in 1 .. Len(l)
        BY <1>0
      <3>2. l[n + j].step = l[n + k].step
        BY <1>1, <2>1
      <3>3. n + j = n + k
        BY <1>0, <3>1, <3>2 DEF OneEach
      <3> QED BY <1>0, <3>3
    <2> QED BY <1>2, <2>1 DEF OneEach
  <1>6. ASSUME NEW j \in 1 .. n, NEW k \in 1 .. Len(l) - n
        PROVE  a[j].step # b[k].step
    <2>1. n + k \in 1 .. Len(l) /\ j \in 1 .. Len(l) /\ j # n + k
      BY <1>0
    <2> QED BY <1>0, <1>1, <2>1, SMTT(60) DEF OneEach
  <1>7. \A i \in ToSet(a), j \in ToSet(b) : i.step # j.step
    BY <1>2, <1>6 DEF ToSet
  <1> QED BY <1>a, <1>b, <1>3, <1>4, <1>5, <1>7

(* Joining two lists with no step in common repeats none.                   *)
LEMMA ListJoined ==
    ASSUME NEW S, NEW a \in Seq(S), NEW b \in Seq(S)
    PROVE  /\ a \o b \in Seq(S) /\ ToSet(a \o b) = ToSet(a) \cup ToSet(b)
           /\ OneEach(a) /\ OneEach(b) /\ (\A i \in ToSet(a), j \in ToSet(b) : i.step # j.step) =>
                OneEach(a \o b)
  <1>c. PICK c : c = a \o b
    OBVIOUS
  <1>1. /\ c \in Seq(S) /\ Len(c) = Len(a) + Len(b)
        /\ \A i \in 1 .. Len(a) + Len(b) : c[i] = IF i <= Len(a) THEN a[i] ELSE b[i - Len(a)]
    BY <1>c, ConcatProperties
  <1>2. /\ Len(a) \in Nat /\ Len(b) \in Nat /\ DOMAIN a = 1 .. Len(a) /\ DOMAIN b = 1 .. Len(b)
        /\ DOMAIN c = 1 .. Len(a) + Len(b)
    BY <1>1
  <1>3. \A i \in 1 .. Len(a) : i \in DOMAIN c /\ c[i] = a[i]
    BY <1>1, <1>2
  <1>4. \A i \in 1 .. Len(b) : Len(a) + i \in DOMAIN c /\ c[Len(a) + i] = b[i]
    <2>1. ASSUME NEW i \in 1 .. Len(b) PROVE Len(a) + i \in DOMAIN c /\ c[Len(a) + i] = b[i]
      <3>1. Len(a) + i \in 1 .. Len(a) + Len(b) /\ ~(Len(a) + i <= Len(a)) /\ Len(a) + i - Len(a) = i
        BY <1>2
      <3> QED BY <1>1, <1>2, <3>1
    <2> QED BY <2>1
  <1>5. \A i \in DOMAIN c : \/ i \in 1 .. Len(a) /\ c[i] = a[i]
                            \/ \E j \in 1 .. Len(b) : i = Len(a) + j /\ c[i] = b[j]
    <2>1. ASSUME NEW i \in 1 .. Len(a) + Len(b), ~(i <= Len(a))
          PROVE  \E j \in 1 .. Len(b) : i = Len(a) + j /\ c[i] = b[j]
      <3>1. i - Len(a) \in 1 .. Len(b) /\ i = Len(a) + (i - Len(a))
        BY <1>2, <2>1
      <3> QED BY <1>1, <2>1, <3>1
    <2> QED BY <1>1, <1>2, <2>1
  <1>6. ToSet(c) = ToSet(a) \cup ToSet(b)
    <2>1. ToSet(c) \subseteq ToSet(a) \cup ToSet(b)
      BY <1>2, <1>5 DEF ToSet
    <2>2. ToSet(a) \subseteq ToSet(c)
      BY <1>2, <1>3 DEF ToSet
    <2>3. ToSet(b) \subseteq ToSet(c)
      BY <1>2, <1>4 DEF ToSet
    <2> QED BY <2>1, <2>2, <2>3
  <1>7. ASSUME OneEach(a), OneEach(b), \A i \in ToSet(a), j \in ToSet(b) : i.step # j.step
        PROVE  OneEach(c)
    <2>1. \A i \in 1 .. Len(a), j \in 1 .. Len(b) : a[i].step # b[j].step
      BY <1>2, <1>7 DEF ToSet
    <2>2. ASSUME NEW i \in DOMAIN c, NEW j \in DOMAIN c, c[i].step = c[j].step PROVE i = j
      <3>1. CASE i \in 1 .. Len(a) /\ c[i] = a[i] /\ j \in 1 .. Len(a) /\ c[j] = a[j]
        BY <1>2, <1>7, <2>2, <3>1 DEF OneEach
      <3>2. CASE ~(i \in 1 .. Len(a) /\ c[i] = a[i]) /\ ~(j \in 1 .. Len(a) /\ c[j] = a[j])
        <4>1. PICK x \in 1 .. Len(b) : i = Len(a) + x /\ c[i] = b[x]
          BY <1>5, <3>2
        <4>2. PICK y \in 1 .. Len(b) : j = Len(a) + y /\ c[j] = b[y]
          BY <1>5, <3>2
        <4> QED BY <1>2, <1>7, <2>2, <4>1, <4>2 DEF OneEach
      <3>3. CASE i \in 1 .. Len(a) /\ c[i] = a[i] /\ ~(j \in 1 .. Len(a) /\ c[j] = a[j])
        BY <1>5, <2>1, <2>2, <3>3
      <3>4. CASE ~(i \in 1 .. Len(a) /\ c[i] = a[i]) /\ j \in 1 .. Len(a) /\ c[j] = a[j]
        BY <1>5, <2>1, <2>2, <3>4
      <3> QED BY <3>1, <3>2, <3>3, <3>4
    <2> QED BY <2>2 DEF OneEach
  <1> QED BY <1>c, <1>1, <1>6, <1>7

(* A queue, field by field.                                                 *)
LEMMA QueueFields ==
    ASSUME NEW q, q \in Queues(Items)
    PROVE  /\ q = [items |-> q.items, deficit |-> q.deficit, active |-> q.active,
                   cursor |-> q.cursor, turnOpen |-> q.turnOpen]
           /\ q.items \in [Tenants -> Seq(Items)] /\ q.deficit \in [Tenants -> Nat]
           /\ q.active \in Seq(Tenants) /\ q.cursor \in Nat \ {0} /\ q.turnOpen \in BOOLEAN
  BY DEF Queues

(* An item joins the queue of its tenant.                                   *)
LEMMA EnqueueGood ==
    ASSUME NEW q, QueueGood(q), NEW t \in Tenants, NEW i \in Items, Tenant(i.step) = t,
           i.step \notin StepsOf(QueueItems(q))
    PROVE  QueueGood(Enqueue(q, t, i)) /\ QueueItems(Enqueue(q, t, i)) = QueueItems(q) \cup {i}
  <1>e. PICK e : e = Enqueue(q, t, i)
    OBVIOUS
  <1>l. PICK l : l = Append(q.items[t], i)
    OBVIOUS
  <1>0. /\ q.items \in [Tenants -> Seq(Items)] /\ q.deficit \in [Tenants -> Nat]
        /\ q.active \in Seq(Tenants) /\ q.cursor \in Nat \ {0} /\ q.turnOpen \in BOOLEAN
    BY QueueFields DEF QueueGood
  <1>a. PICK act : act = IF q.items[t] = <<>> THEN Append(q.active, t) ELSE q.active
    OBVIOUS
  <1>1. e = [items |-> [q.items EXCEPT ![t] = l], deficit |-> q.deficit, active |-> act,
             cursor |-> q.cursor, turnOpen |-> q.turnOpen]
    <2>1. q = [items |-> q.items, deficit |-> q.deficit, active |-> q.active,
               cursor |-> q.cursor, turnOpen |-> q.turnOpen]
      BY QueueFields DEF QueueGood
    <2> QED BY <1>e, <1>l, <1>a, <2>1 DEF Enqueue
  <1>2. /\ e.items = [q.items EXCEPT ![t] = l] /\ e.deficit = q.deficit /\ e.active = act
        /\ e.cursor = q.cursor /\ e.turnOpen = q.turnOpen
    BY <1>1
  <1>3. /\ q.items[t] \in Seq(Items) /\ l \in Seq(Items) /\ Len(l) = Len(q.items[t]) + 1
        /\ Len(q.items[t]) \in Nat /\ DOMAIN q.items[t] = 1 .. Len(q.items[t])
        /\ DOMAIN l = 1 .. Len(q.items[t]) + 1
        /\ l[Len(q.items[t]) + 1] = i /\ \A k \in 1 .. Len(q.items[t]) : l[k] = q.items[t][k]
    BY <1>0, <1>l
  <1>4. ToSet(l) = ToSet(q.items[t]) \cup {i}
    <2>1. \A k \in DOMAIN l : (k \in DOMAIN q.items[t] /\ l[k] = q.items[t][k]) \/ l[k] = i
      BY <1>3
    <2>2. ToSet(l) \subseteq ToSet(q.items[t]) \cup {i}
      BY <2>1 DEF ToSet
    <2>3. ToSet(q.items[t]) \subseteq ToSet(l) /\ i \in ToSet(l)
      BY <1>3 DEF ToSet
    <2> QED BY <2>2, <2>3
  <1>5. e.items[t] = l /\ \A u \in Tenants : u # t => e.items[u] = q.items[u]
    BY <1>0, <1>2
  <1>6. QueueItems(e) = QueueItems(q) \cup {i}
    BY <1>4, <1>5 DEF QueueItems
  <1>7. OneEach(l)
    <2>1. \A k \in 1 .. Len(q.items[t]) : q.items[t][k].step # i.step
      <3>1. \A k \in 1 .. Len(q.items[t]) : q.items[t][k] \in QueueItems(q)
        BY <1>3 DEF QueueItems, ToSet
      <3> QED BY <3>1 DEF StepsOf
    <2>2. OneEach(q.items[t])
      BY DEF QueueGood
    <2>3. \A k, m \in 1 .. Len(q.items[t]) : q.items[t][k].step = q.items[t][m].step => k = m
      BY <1>3, <2>2 DEF OneEach
    <2>4. ASSUME NEW k \in DOMAIN l, NEW m \in DOMAIN l, l[k].step = l[m].step PROVE k = m
      <3>1. CASE k = Len(q.items[t]) + 1
        BY <1>3, <2>1, <2>4, <3>1
      <3>2. CASE m = Len(q.items[t]) + 1
        BY <1>3, <2>1, <2>4, <3>2
      <3>3. CASE k # Len(q.items[t]) + 1 /\ m # Len(q.items[t]) + 1
        <4>n. PICK N \in Nat : N = Len(q.items[t])
          BY <1>3
        <4>0. k \in 1 .. N + 1 /\ m \in 1 .. N + 1 /\ k # N + 1 /\ m # N + 1
          BY <1>3, <3>3, <4>n
        <4>2. k \in 1 .. N /\ m \in 1 .. N
          BY <4>0
        <4>1. k \in 1 .. Len(q.items[t]) /\ m \in 1 .. Len(q.items[t])
          BY <4>n, <4>2
        <4> QED BY <1>3, <2>3, <2>4, <4>1
      <3> QED BY <3>1, <3>2, <3>3
    <2> QED BY <2>4 DEF OneEach
  <1>8. \A u \in Tenants : OneEach(e.items[u]) /\ \A j \in ToSet(e.items[u]) : Tenant(j.step) = u
    BY <1>4, <1>5, <1>7 DEF QueueGood
  <1>9. e.items \in [Tenants -> Seq(Items)]
    BY <1>0, <1>2, <1>3
  <1>10. Waiting(e) = Waiting(q) \cup {t}
    <2>1. l # <<>>
      BY <1>3
    <2> QED BY <1>5, <2>1 DEF Waiting
  <1>11. Rotation(q)
    BY DEF QueueGood
  <1>12. CASE q.items[t] = <<>>
    <2>1. /\ act = Append(q.active, t) /\ act \in Seq(Tenants) /\ Len(q.active) \in Nat
          /\ DOMAIN q.active = 1 .. Len(q.active) /\ DOMAIN act = 1 .. Len(q.active) + 1
          /\ Len(act) = Len(q.active) + 1
          /\ act[Len(q.active) + 1] = t /\ \A k \in 1 .. Len(q.active) : act[k] = q.active[k]
      BY <1>0, <1>a, <1>12
    <2>2. t \notin ToSet(q.active)
      BY <1>11, <1>12 DEF Rotation, Waiting
    <2>3. \A k \in 1 .. Len(q.active) : q.active[k] # t
      BY <2>1, <2>2 DEF ToSet
    <2>4. ToSet(act) = Waiting(e)
      <3>1. \A k \in DOMAIN act : (k \in DOMAIN q.active /\ act[k] = q.active[k]) \/ act[k] = t
        BY <2>1
      <3>2. ToSet(act) \subseteq ToSet(q.active) \cup {t}
        BY <3>1 DEF ToSet
      <3>3. ToSet(q.active) \subseteq ToSet(act) /\ t \in ToSet(act)
        BY <2>1 DEF ToSet
      <3> QED BY <3>2, <3>3, <1>10, <1>11 DEF Rotation
    <2>5. \A m, n \in DOMAIN act : act[m] = act[n] => m = n
      BY <1>11, <2>1, <2>3 DEF Rotation
    <2>6. \A u \in Tenants : q.deficit[u] > 0 => q.cursor <= Len(act) /\ act[q.cursor] = u
      BY <1>0, <1>11, <2>1 DEF Rotation
    <2>o. q.turnOpen => q.cursor <= Len(act) /\ q.deficit[act[q.cursor]] > 0
      BY <1>0, <1>11, <2>1 DEF Rotation
    <2>7. Rotation(e)
      BY <1>2, <1>11, <2>4, <2>5, <2>6, <2>o DEF Rotation
    <2>8. e \in Queues(Items)
      BY <1>0, <1>1, <1>2, <1>9, <2>1 DEF Queues
    <2> QED BY <1>e, <1>6, <1>8, <2>7, <2>8 DEF QueueGood
  <1>13. CASE q.items[t] # <<>>
    <2>1. act = q.active /\ Waiting(e) = Waiting(q)
      BY <1>a, <1>10, <1>13 DEF Waiting
    <2>2. Rotation(e)
      BY <1>2, <1>11, <2>1 DEF Rotation
    <2>3. e \in Queues(Items)
      BY <1>0, <1>1, <1>2, <1>9, <2>1 DEF Queues
    <2> QED BY <1>e, <1>6, <1>8, <2>2, <2>3 DEF QueueGood
  <1> QED BY <1>12, <1>13

(* What a drain has taken, with what it has left in the queue.              *)
PassGood(r, q) ==
    /\ QueueGood(r.queue) /\ r.taken \in Seq(Items) /\ r.room \in Nat
    /\ OneEach(r.taken)
    /\ \A i \in ToSet(r.taken), j \in QueueItems(r.queue) : i.step # j.step
    /\ QueueItems(q) = QueueItems(r.queue) \cup ToSet(r.taken)

(* The rotation once tenant t, at its place, was served.                    *)
Served(q, e, at, t, rest) ==
    \/ /\ rest = <<>> /\ e.deficit = [q.deficit EXCEPT ![t] = 0]
       /\ e.active = RemoveAt(q.active, at) /\ e.cursor = at /\ ~e.turnOpen
    \/ /\ rest # <<>> /\ e.deficit = [q.deficit EXCEPT ![t] = 0]
       /\ e.active = q.active /\ e.cursor = at + 1 /\ ~e.turnOpen
    \/ /\ rest # <<>> /\ e.active = q.active /\ e.cursor = at /\ e.turnOpen
       /\ \E left \in Nat \ {0} : left < Weight[t] /\ e.deficit = [q.deficit EXCEPT ![t] = left]

(* The rotation stays coherent when the tenant at the cursor is served.     *)
LEMMA ServedRotation ==
    ASSUME NEW q, q \in Queues(Items), Rotation(q), NEW e, NEW at \in 1 .. Len(q.active),
           NEW t \in Tenants, t = q.active[at], NEW rest \in Seq(Items), Served(q, e, at, t, rest),
           e.items = [q.items EXCEPT ![t] = rest],
           at = IF q.cursor > Len(q.active) THEN 1 ELSE q.cursor
    PROVE  Rotation(e) /\ e.active \in Seq(Tenants) /\ e.deficit \in [Tenants -> Nat] /\ e.cursor \in Nat \ {0}
  <1>0. /\ q.items \in [Tenants -> Seq(Items)] /\ q.deficit \in [Tenants -> Nat]
        /\ q.active \in Seq(Tenants) /\ q.cursor \in Nat \ {0} /\ q.turnOpen \in BOOLEAN
    BY QueueFields
  <1>n. PICK N \in Nat : N = Len(q.active) /\ DOMAIN q.active = 1 .. N
    BY <1>0
  <1>1. \A u \in Tenants : u # t => q.deficit[u] = 0
    <2>1. ASSUME NEW u \in Tenants, q.deficit[u] > 0 PROVE u = t
      <3>1. q.cursor <= N /\ q.active[q.cursor] = u
        BY <1>n, <2>1 DEF Rotation
      <3>2. at = q.cursor
        BY <1>0, <1>n, <3>1
      <3> QED BY <3>1, <3>2
    <2> QED BY <1>0, <2>1
  <1>2. \A u \in Tenants : u # t => e.deficit[u] = 0
    BY <1>0, <1>1, ZenonT(60) DEF Served
  <1>3. \A u \in Tenants : Weight[u] \in Nat \ {0}
    BY WeightAssumption
  <1>4. e.deficit \in [Tenants -> Nat] /\ e.cursor \in Nat \ {0}
    <2>1. at \in Nat \ {0} /\ at + 1 \in Nat \ {0}
      BY <1>n
    <2>2. e.cursor \in Nat \ {0}
      BY <2>1 DEF Served
    <2>3. \E left \in Nat : e.deficit = [q.deficit EXCEPT ![t] = left]
      BY DEF Served
    <2>4. e.deficit \in [Tenants -> Nat]
      BY <1>0, <2>3
    <2> QED BY <2>2, <2>4
  <1>5. e.items[t] = rest /\ \A u \in Tenants : u # t => e.items[u] = q.items[u]
    BY <1>0
  <1>6. t \in Waiting(q)
    BY <1>n DEF Rotation, ToSet
  <1>7. CASE rest = <<>>
    <2>a. PICK act : act = RemoveAt(q.active, at)
      OBVIOUS
    <2>1. /\ e.active = act /\ ~e.turnOpen /\ e.deficit = [q.deficit EXCEPT ![t] = 0]
      BY <1>7, <2>a DEF Served
    <2>2. /\ act \in Seq(Tenants) /\ Len(act) = N - 1
          /\ \A j \in 1 .. N - 1 : act[j] = q.active[IF j < at THEN j ELSE j + 1]
      <3>a. PICK a \in Seq(Tenants) : a = q.active
        BY <1>0
      <3>1. at \in 1 .. Len(a)
        BY <3>a
      <3>2. /\ RemoveAt(a, at) \in Seq(Tenants) /\ Len(RemoveAt(a, at)) = Len(a) - 1
            /\ \A j \in 1 .. Len(a) - 1 : RemoveAt(a, at)[j] = a[IF j < at THEN j ELSE j + 1]
        BY ONLY a \in Seq(Tenants), <3>1, WithoutOne
      <3> QED BY <1>n, <2>a, <3>a, <3>2
    <2>3. DOMAIN act = 1 .. N - 1
      BY <1>n, <2>2
    <2>4. Waiting(e) = Waiting(q) \ {t}
      BY <1>5, <1>7 DEF Waiting
    <2>5. ASSUME NEW j \in 1 .. N - 1
          PROVE  act[j] # t /\ act[j] \in ToSet(q.active)
      <3>1. PICK k \in 1 .. N : k # at /\ act[j] = q.active[k]
        <4>1. CASE j < at
          <5>1. j \in 1 .. N /\ j # at /\ act[j] = q.active[j]
            BY <1>n, <2>2, <4>1
          <5> QED BY <5>1
        <4>2. CASE ~(j < at)
          <5>1. j + 1 \in 1 .. N /\ j + 1 # at /\ act[j] = q.active[j + 1]
            BY <1>n, <2>2, <4>2
          <5> QED BY <5>1
        <4> QED BY <4>1, <4>2
      <3> QED BY <1>n, <3>1 DEF Rotation, ToSet
    <2>6. ASSUME NEW k \in 1 .. N, k # at
          PROVE  \E j \in 1 .. N - 1 : act[j] = q.active[k]
      <3>1. CASE k < at
        <4>1. k \in 1 .. N - 1
          BY <1>n, <3>1
        <4> QED BY <2>2, <3>1, <4>1
      <3>2. CASE ~(k < at)
        <4>1. k - 1 \in 1 .. N - 1 /\ ~(k - 1 < at) /\ (k - 1) + 1 = k
          BY <1>n, <2>6, <3>2
        <4> QED BY <2>2, <4>1
      <3> QED BY <3>1, <3>2
    <2>7. ToSet(act) = Waiting(e)
      <3>1. ToSet(act) \subseteq ToSet(q.active) \ {t}
        BY <2>3, <2>5 DEF ToSet
      <3>2. ToSet(q.active) \ {t} \subseteq ToSet(act)
        <4>1. ASSUME NEW u \in ToSet(q.active), u # t PROVE u \in ToSet(act)
          <5>1. PICK k \in 1 .. N : u = q.active[k]
            BY <1>n DEF ToSet
          <5>2. PICK j \in 1 .. N - 1 : act[j] = q.active[k]
            BY <2>6, <4>1, <5>1
          <5> QED BY <2>3, <5>1, <5>2 DEF ToSet
        <4> QED BY <4>1
      <3> QED BY <2>4, <3>1, <3>2 DEF Rotation
    <2>8. \A j, k \in DOMAIN act : act[j] = act[k] => j = k
      <3>1. ASSUME NEW j \in 1 .. N - 1, NEW k \in 1 .. N - 1, act[j] = act[k] PROVE j = k
        <4>1. /\ (IF j < at THEN j ELSE j + 1) \in 1 .. N /\ (IF k < at THEN k ELSE k + 1) \in 1 .. N
          BY <1>n
        <4>2. (IF j < at THEN j ELSE j + 1) = (IF k < at THEN k ELSE k + 1)
          <5>1. \A m, n \in 1 .. N : q.active[m] = q.active[n] => m = n
            BY <1>n DEF Rotation
          <5>2. q.active[IF j < at THEN j ELSE j + 1] = q.active[IF k < at THEN k ELSE k + 1]
            BY <2>2, <3>1
          <5> QED BY <4>1, <5>1, <5>2
        <4> QED BY <1>n, <4>2
      <3> QED BY <2>3, <3>1
    <2>9. \A u \in Tenants : e.deficit[u] = 0
      BY <1>0, <1>2, <2>1
    <2>10. Rotation(e)
      BY <2>1, <2>7, <2>8, <2>9 DEF Rotation
    <2> QED BY <1>4, <2>1, <2>2, <2>10
  <1>8. CASE rest # <<>>
    <2>1. e.active = q.active
      BY <1>8 DEF Served
    <2>2. Waiting(e) = Waiting(q)
      BY <1>5, <1>6, <1>8 DEF Waiting
    <2>3. \A u \in Tenants : e.deficit[u] < Weight[u] \/ ~e.turnOpen
      <3>1. e.deficit[t] < Weight[t] \/ ~e.turnOpen
        BY <1>0, <1>8 DEF Served
      <3>2. \A u \in Tenants : u # t => e.deficit[u] < Weight[u]
        BY <1>2, <1>3
      <3> QED BY <3>1, <3>2
    <2>4. \A u \in Tenants : e.deficit[u] > 0 =>
              e.turnOpen /\ e.cursor <= Len(e.active) /\ e.active[e.cursor] = u
      <3>1. ASSUME NEW u \in Tenants, e.deficit[u] > 0
            PROVE  e.turnOpen /\ e.cursor <= Len(e.active) /\ e.active[e.cursor] = u
        <4>1. u = t
          BY <1>2, <3>1
        <4>2. e.turnOpen /\ e.cursor = at
          BY <1>0, <1>8, <3>1, <4>1 DEF Served
        <4> QED BY <1>n, <2>1, <4>1, <4>2
      <3> QED BY <3>1
    <2>o. e.turnOpen => e.cursor <= Len(e.active) /\ e.deficit[e.active[e.cursor]] > 0
      <3>1. ASSUME e.turnOpen PROVE e.cursor = at /\ e.deficit[t] > 0
        <4>1. /\ e.cursor = at
              /\ \E left \in Nat \ {0} : left < Weight[t] /\ e.deficit = [q.deficit EXCEPT ![t] = left]
          BY <1>8, <3>1 DEF Served
        <4>2. PICK left \in Nat \ {0} : e.deficit = [q.deficit EXCEPT ![t] = left]
          BY <4>1
        <4>3. e.deficit[t] = left
          BY <1>0, <4>2
        <4> QED BY <4>1, <4>3
      <3>2. at <= Len(e.active) /\ e.active[at] = t
        BY <1>n, <2>1
      <3> QED BY <3>1, <3>2
    <2>5. Rotation(e)
      BY <2>1, <2>2, <2>3, <2>4, <2>o DEF Rotation
    <2> QED BY <1>0, <1>4, <2>1, <2>5
  <1> QED BY <1>7, <1>8

(* What a pass does: the tenant at the cursor gives its first n items, at   *)
(* least one and no more than a turn's credit, and the cursor moves on      *)
(* unless the drain is full.                                                *)
Serves(r, y, at, t, n) ==
    /\ at \in 1 .. Len(r.queue.active)
    /\ at = IF r.queue.cursor > Len(r.queue.active) THEN 1 ELSE r.queue.cursor
    /\ t = r.queue.active[at] /\ n \in 1 .. Len(r.queue.items[t]) /\ n <= Weight[t]
    /\ y.taken = r.taken \o SubSeq(r.queue.items[t], 1, n)
    /\ \A u \in Tenants : u # t => y.queue.items[u] = r.queue.items[u]
    /\ \/ y.queue.active = RemoveAt(r.queue.active, at) /\ y.queue.cursor = at
       \/ y.queue.active = r.queue.active /\ y.queue.cursor = at + 1
       \/ y.room = 0

(* A pass of Queue.Next: no item is lost or repeated.                       *)
LEMMA TurnGood ==
    ASSUME NEW r, NEW q0, PassGood(r, q0)
    PROVE  /\ PassGood(Turn(r), q0)
           /\ Turn(r) = r \/ \E at, t, n : Serves(r, Turn(r), at, t, n)
  <1>1. CASE r.room = 0 \/ r.queue.active = <<>>
    BY <1>1 DEF Turn
  <1>2. CASE ~(r.room = 0 \/ r.queue.active = <<>>)
    <2> DEFINE q == r.queue
               at == IF q.cursor > Len(q.active) THEN 1 ELSE q.cursor
               t == q.active[at]
               l == q.items[t]
               credit == q.deficit[t] + (IF q.turnOpen THEN 0 ELSE Weight[t])
               n == Min({credit, Len(l), r.room})
               first == SubSeq(l, 1, n)
               rest == SubSeq(l, n + 1, Len(l))
               s == [q EXCEPT !.items[t] = rest]
               e == IF rest = <<>>
                    THEN [s EXCEPT !.deficit[t] = 0, !.active = RemoveAt(q.active, at),
                                   !.cursor = at, !.turnOpen = FALSE]
                    ELSE IF credit = n
                    THEN [s EXCEPT !.deficit[t] = 0, !.cursor = at + 1, !.turnOpen = FALSE]
                    ELSE [s EXCEPT !.deficit[t] = credit - n, !.cursor = at, !.turnOpen = TRUE]
    <2>6. Turn(r) = [queue |-> e, taken |-> r.taken \o first, room |-> r.room - n]
      BY <1>2 DEF Turn
    <2>q. q = r.queue
      OBVIOUS
    <2>at. at = IF q.cursor > Len(q.active) THEN 1 ELSE q.cursor
      OBVIOUS
    <2>t. t = q.active[at] /\ l = q.items[t]
      OBVIOUS
    <2>c. credit = q.deficit[t] + (IF q.turnOpen THEN 0 ELSE Weight[t])
      OBVIOUS
    <2>n. n = Min({credit, Len(l), r.room})
      OBVIOUS
    <2>a. first = SubSeq(l, 1, n) /\ rest = SubSeq(l, n + 1, Len(l))
      OBVIOUS
    <2>s. s = [q EXCEPT !.items[t] = rest]
      OBVIOUS
    <2>e. e = IF rest = <<>>
              THEN [s EXCEPT !.deficit[t] = 0, !.active = RemoveAt(q.active, at),
                             !.cursor = at, !.turnOpen = FALSE]
              ELSE IF credit = n
              THEN [s EXCEPT !.deficit[t] = 0, !.cursor = at + 1, !.turnOpen = FALSE]
              ELSE [s EXCEPT !.deficit[t] = credit - n, !.cursor = at, !.turnOpen = TRUE]
      OBVIOUS
    <2> HIDE DEF q, at, t, l, credit, n, first, rest, s, e
    <2>0. /\ q \in Queues(Items) /\ Rotation(q) /\ QueueGood(q)
          /\ q.items \in [Tenants -> Seq(Items)] /\ q.deficit \in [Tenants -> Nat]
          /\ q.active \in Seq(Tenants) /\ q.cursor \in Nat \ {0} /\ q.turnOpen \in BOOLEAN
      BY <2>q, QueueFields DEF PassGood, QueueGood
    <2>1. at \in 1 .. Len(q.active)
      <3>1. q.active # <<>> /\ Len(q.active) \in Nat
        BY <1>2, <2>q, <2>0
      <3>2. Len(q.active) # 0
        BY <2>0, <3>1
      <3> QED BY <2>0, <2>at, <3>1, <3>2
    <2>tt. t \in Tenants
      BY <2>0, <2>1, <2>t
    <2>l. l \in Seq(Items) /\ l = q.items[t]
      BY <2>0, <2>t, <2>tt
    <2>cc. credit \in Nat
      <3>1. q.deficit[t] \in Nat /\ Weight[t] \in Nat
        BY <2>0, <2>tt, WeightAssumption
      <3> QED BY <2>c, <3>1
    <2>2. n \in 0 .. Len(l) /\ n <= credit /\ n <= r.room /\ n \in {credit, Len(l), r.room}
      <3>1. Len(l) \in Nat /\ r.room \in Nat
        BY <2>l DEF PassGood
      <3> QED BY <2>n, <2>cc, <3>1, MinOfThree
    <2>3. first \in Seq(Items) /\ rest \in Seq(Items) /\ Len(rest) = Len(l) - n
      BY <2>2, <2>a, <2>l, SubSeqParts
    <2>o. OneEach(l) /\ \A i \in ToSet(l) : Tenant(i.step) = t
      BY <2>0, <2>l, <2>tt DEF QueueGood
    <2>4. /\ ToSet(l) = ToSet(first) \cup ToSet(rest) /\ OneEach(first) /\ OneEach(rest)
          /\ \A i \in ToSet(first), j \in ToSet(rest) : i.step # j.step
      BY <2>2, <2>a, <2>l, <2>o, ListCut
    <2>5. s = [items |-> [q.items EXCEPT ![t] = rest], deficit |-> q.deficit,
               active |-> q.active, cursor |-> q.cursor, turnOpen |-> q.turnOpen]
      <3>1. q = [items |-> q.items, deficit |-> q.deficit, active |-> q.active,
                 cursor |-> q.cursor, turnOpen |-> q.turnOpen]
        BY <2>0, QueueFields
      <3>2. \A it, d, ac, c, o :
               q = [items |-> it, deficit |-> d, active |-> ac, cursor |-> c, turnOpen |-> o] =>
                 [q EXCEPT !.items[t] = rest] =
                   [items |-> [it EXCEPT ![t] = rest], deficit |-> d, active |-> ac, cursor |-> c, turnOpen |-> o]
        OBVIOUS
      <3> QED BY <2>s, <3>1, <3>2
    <2>7. \/ /\ rest = <<>>
             /\ e = [items |-> [q.items EXCEPT ![t] = rest], deficit |-> [q.deficit EXCEPT ![t] = 0],
                     active |-> RemoveAt(q.active, at), cursor |-> at, turnOpen |-> FALSE]
          \/ /\ rest # <<>>
             /\ e = [items |-> [q.items EXCEPT ![t] = rest], deficit |-> [q.deficit EXCEPT ![t] = 0],
                     active |-> q.active, cursor |-> at + 1, turnOpen |-> FALSE]
          \/ /\ rest # <<>> /\ credit # n
             /\ e = [items |-> [q.items EXCEPT ![t] = rest],
                     deficit |-> [q.deficit EXCEPT ![t] = credit - n],
                     active |-> q.active, cursor |-> at, turnOpen |-> TRUE]
      BY <2>e, <2>5
    <2>8. e.items = [q.items EXCEPT ![t] = rest] /\ e.turnOpen \in BOOLEAN
          /\ e = [items |-> e.items, deficit |-> e.deficit, active |-> e.active,
                  cursor |-> e.cursor, turnOpen |-> e.turnOpen]
      <3>1. TRUE \in BOOLEAN /\ FALSE \in BOOLEAN
        OBVIOUS
      <3>2. \E d, ac, c, o : o \in BOOLEAN /\ e = [items |-> [q.items EXCEPT ![t] = rest],
                deficit |-> d, active |-> ac, cursor |-> c, turnOpen |-> o]
        BY <2>7, <3>1
      <3>3. PICK d, ac, c, o : o \in BOOLEAN /\ e = [items |-> [q.items EXCEPT ![t] = rest],
                deficit |-> d, active |-> ac, cursor |-> c, turnOpen |-> o]
        BY <3>2
      <3>4. o \in BOOLEAN
        BY <3>3
      <3>5. /\ e.items = [q.items EXCEPT ![t] = rest] /\ e.deficit = d /\ e.active = ac
            /\ e.cursor = c /\ e.turnOpen = o
        BY <3>3
      <3> QED BY <3>3, <3>4, <3>5
    <2>9. credit # n /\ rest # <<>> => credit - n \in Nat \ {0} /\ credit - n < Weight[t]
      <3>1. /\ Weight[t] \in Nat \ {0} /\ q.deficit[t] \in Nat /\ Len(l) \in Nat /\ r.room \in Nat
            /\ r.room # 0
        BY <1>2, <2>0, <2>l, <2>tt, WeightAssumption DEF PassGood
      <3>2. CASE q.turnOpen
        <4>1. q.deficit[t] < Weight[t] /\ credit = q.deficit[t]
          BY <2>0, <2>c, <2>tt, <3>1, <3>2 DEF Rotation
        <4> QED BY <2>2, <2>cc, <3>1, <4>1
      <3>3. CASE ~q.turnOpen
        <4>1. q.deficit[t] = 0
          BY <2>0, <2>tt, <3>1, <3>3 DEF Rotation
        <4>2. credit = Weight[t]
          BY <2>c, <3>1, <3>3, <4>1
        <4>3. rest # <<>> => Len(l) # n
          BY <2>3, <3>1
        <4> QED BY <2>2, <2>cc, <3>1, <4>2, <4>3
      <3> QED BY <3>2, <3>3
    <2>10. Served(q, e, at, t, rest)
      BY <2>7, <2>9 DEF Served
    <2>11. Rotation(e) /\ e.active \in Seq(Tenants) /\ e.deficit \in [Tenants -> Nat] /\ e.cursor \in Nat \ {0}
      BY <2>0, <2>1, <2>t, <2>tt, <2>3, <2>8, <2>10, <2>at, ServedRotation
    <2>12. e \in Queues(Items)
      <3>1. e.items \in [Tenants -> Seq(Items)]
        BY <2>0, <2>3, <2>tt, <2>8
      <3> QED BY <2>8, <2>11, <3>1 DEF Queues
    <2>13. e.items[t] = rest /\ \A u \in Tenants : u # t => e.items[u] = q.items[u]
      BY <2>0, <2>tt, <2>8
    <2>14. \A u \in Tenants : OneEach(e.items[u]) /\ \A i \in ToSet(e.items[u]) : Tenant(i.step) = u
      BY <2>0, <2>4, <2>13, <2>o DEF QueueGood
    <2>15. QueueGood(e)
      BY <2>11, <2>12, <2>14 DEF QueueGood
    <2>16. QueueItems(q) = QueueItems(e) \cup ToSet(first)
      <3>1. \A u \in Tenants : ToSet(q.items[u]) \subseteq QueueItems(e) \cup ToSet(first)
        BY <2>4, <2>13, <2>l, <2>tt DEF QueueItems
      <3>2. \A u \in Tenants : ToSet(e.items[u]) \subseteq QueueItems(q)
        BY <2>4, <2>13, <2>l, <2>tt DEF QueueItems
      <3>3. ToSet(first) \subseteq QueueItems(q)
        BY <2>4, <2>l, <2>tt DEF QueueItems
      <3> QED BY <3>1, <3>2, <3>3 DEF QueueItems
    <2>17. \A i \in ToSet(first), j \in QueueItems(e) : i.step # j.step
      <3>1. ASSUME NEW i \in ToSet(first), NEW u \in Tenants, NEW j \in ToSet(e.items[u])
            PROVE  i.step # j.step
        <4>1. CASE u = t
          BY <2>4, <2>13, <4>1
        <4>2. CASE u # t
          <5>1. Tenant(i.step) = t /\ Tenant(j.step) = u
            BY <2>4, <2>o, <2>14
          <5> QED BY <4>2, <5>1
        <4> QED BY <4>1, <4>2
      <3> QED BY <3>1 DEF QueueItems
    <2>18. /\ r.taken \in Seq(Items) /\ OneEach(r.taken) /\ r.room \in Nat
           /\ \A i \in ToSet(r.taken), j \in QueueItems(q) : i.step # j.step
           /\ QueueItems(q0) = QueueItems(q) \cup ToSet(r.taken)
      BY <2>q DEF PassGood
    <2>19. \A i \in ToSet(r.taken), j \in ToSet(first) : i.step # j.step
      BY <2>16, <2>18
    <2>k. PICK tk : tk = r.taken \o first
      OBVIOUS
    <2>20. tk \in Seq(Items) /\ ToSet(tk) = ToSet(r.taken) \cup ToSet(first) /\ OneEach(tk)
      BY <2>3, <2>4, <2>18, <2>19, <2>k, ListJoined
    <2>21. \A i \in ToSet(tk), j \in QueueItems(e) : i.step # j.step
      BY <2>16, <2>17, <2>18, <2>20
    <2>22. QueueItems(q0) = QueueItems(e) \cup ToSet(tk)
      BY <2>16, <2>18, <2>20
    <2>23. r.room - n \in Nat
      BY <2>2, <2>cc, <2>l, <2>18
    <2>y. PICK y : y = Turn(r)
      OBVIOUS
    <2>24. y.queue = e /\ y.taken = tk /\ y.room = r.room - n
      BY <2>6, <2>k, <2>y
    <2>25. PassGood(y, q0)
      BY <2>15, <2>20, <2>21, <2>22, <2>23, <2>24 DEF PassGood
    <2>26. Len(l) \in Nat \ {0} /\ r.room \in Nat \ {0} /\ Weight[t] \in Nat \ {0} /\ q.deficit[t] \in Nat
      <3>1. t \in ToSet(q.active)
        BY <2>0, <2>1, <2>t DEF ToSet
      <3>2. l # <<>>
        BY <2>0, <2>l, <3>1 DEF Rotation, Waiting
      <3> QED BY <1>2, <2>0, <2>l, <2>tt, <2>18, <3>2, WeightAssumption
    <2>27. credit >= 1 /\ credit <= Weight[t]
      <3>1. CASE q.turnOpen
        <4>1. q.cursor <= Len(q.active) /\ q.deficit[q.active[q.cursor]] > 0 /\ q.deficit[t] < Weight[t]
          BY <2>0, <2>tt, <3>1 DEF Rotation
        <4>2. at = q.cursor
          BY <2>0, <2>at, <4>1
        <4>3. q.deficit[t] > 0 /\ credit = q.deficit[t]
          BY <2>c, <2>t, <2>26, <3>1, <4>1, <4>2
        <4> QED BY <2>26, <4>1, <4>3
      <3>2. CASE ~q.turnOpen
        <4>1. q.deficit[t] = 0
          BY <2>0, <2>tt, <2>26, <3>2 DEF Rotation
        <4> QED BY <2>c, <2>26, <3>2, <4>1
      <3> QED BY <3>1, <3>2
    <2>28. n \in 1 .. Len(l) /\ n <= Weight[t]
      BY <2>2, <2>cc, <2>26, <2>27
    <2>29. \/ e.active = RemoveAt(q.active, at) /\ e.cursor = at
           \/ e.active = q.active /\ e.cursor = at + 1
           \/ r.room - n = 0
      <3>1. CASE rest # <<>> /\ credit # n
        <4>1. Len(l) # n
          BY <2>3, <2>26, <3>1
        <4> QED BY <2>2, <2>26, <3>1, <4>1
      <3>2. CASE ~(rest # <<>> /\ credit # n)
        BY <2>7, <3>2
      <3> QED BY <3>1, <3>2
    <2>30. Serves(r, y, at, t, n)
      BY <2>q, <2>at, <2>t, <2>a, <2>k, <2>1, <2>13, <2>24, <2>28, <2>29 DEF Serves
    <2> QED BY <2>y, <2>25, <2>30
  <1> QED BY <1>1, <1>2

(* The passes of a drain: the first n of them are a function.               *)
Passed(q, k, n, f) ==
    f = [m \in 0 .. n |-> IF m = 0 THEN [queue |-> q, taken |-> <<>>, room |-> k]
                          ELSE Turn(f[m - 1])]

(* The recursive function of TakeNext exists, for any number of passes.     *)
LEMMA PassesExist ==
    ASSUME NEW q, NEW k
    PROVE  \A n \in Nat : \E f : Passed(q, k, n, f)
  <1> DEFINE Bad == {n \in Nat : ~\E f : Passed(q, k, n, f)}
  <1>1. SUFFICES ASSUME Bad # {} PROVE FALSE
    OBVIOUS
  <1>2. PICK n \in Bad : \A m \in Bad : n <= m
    <2>1. Bad \subseteq Nat
      OBVIOUS
    <2> HIDE DEF Bad
    <2> QED BY <1>1, <2>1, LeastOfNat
  <1>3. n \in Nat /\ ~\E f : Passed(q, k, n, f)
    BY <1>2
  <1>4. CASE n = 0
    <2>1. PICK f : f = [m \in 0 .. 0 |-> [queue |-> q, taken |-> <<>>, room |-> k]]
      OBVIOUS
    <2>2. Passed(q, k, 0, f)
      BY <2>1 DEF Passed
    <2> QED BY <1>3, <1>4, <2>2
  <1>5. CASE n # 0
    <2>1. n - 1 \in Nat /\ n - 1 \notin Bad
      BY <1>2, <1>3, <1>5
    <2>2. PICK f : Passed(q, k, n - 1, f)
      BY <2>1
    <2>3. PICK g : g = [m \in 0 .. n |-> IF m = n THEN Turn(f[n - 1]) ELSE f[m]]
      OBVIOUS
    <2>4. \A m \in 0 .. n - 1 : g[m] = f[m]
      BY <1>3, <2>3
    <2>5. ASSUME NEW m \in 0 .. n
          PROVE  g[m] = IF m = 0 THEN [queue |-> q, taken |-> <<>>, room |-> k] ELSE Turn(g[m - 1])
      <3>1. CASE m = n
        <4>1. n - 1 \in 0 .. n - 1 /\ g[m - 1] = f[n - 1]
          BY <1>3, <1>5, <2>4, <3>1
        <4> QED BY <1>5, <2>3, <3>1, <4>1
      <3>2. CASE m # n
        <4>1. m \in 0 .. n - 1 /\ g[m] = f[m]
          BY <1>3, <2>4, <3>2
        <4>2. f[m] = IF m = 0 THEN [queue |-> q, taken |-> <<>>, room |-> k] ELSE Turn(f[m - 1])
          BY <2>2, <4>1 DEF Passed
        <4>3. m # 0 => m - 1 \in 0 .. n - 1
          BY <1>3, <4>1
        <4>4. m # 0 => g[m - 1] = f[m - 1]
          BY <2>4, <4>3
        <4> QED BY <4>1, <4>2, <4>4
      <3> QED BY <3>1, <3>2
    <2>6. Passed(q, k, n, g)
      <3>1. DOMAIN g = 0 .. n /\ g = [m \in 0 .. n |-> g[m]]
        BY <2>3
      <3> QED BY <2>5, <3>1 DEF Passed
    <2> QED BY <1>3, <2>6
  <1> QED BY <1>4, <1>5

(* The items of a tenant in a list, and the order of the rotation from a    *)
(* position of it on.                                                       *)
OfTenant(l, x) == {k \in DOMAIN l : Tenant(l[k].step) = x}
Ahead(at, i, j) == IF i >= at THEN j < at \/ i < j ELSE j < at /\ i < j
CursorOf(q) == IF q.cursor > Len(q.active) THEN 1 ELSE q.cursor

(* A drain serves in turn: a tenant that waited when it began and has had   *)
(* nothing yet waits still, ahead of everyone who has been served, and no   *)
(* one has had more than the credit of a turn.                              *)
Unserved(r, q0) ==
    \A t \in Waiting(q0) : OfTenant(r.taken, t) = {} => t \in Waiting(r.queue)
OneTurnEach(r, q0) ==
    \A t \in Waiting(q0), u \in Tenants :
      OfTenant(r.taken, t) = {} => Cardinality(OfTenant(r.taken, u)) <= Weight[u]
InOrder(r) ==
    r.room # 0 => \A i, j \in 1 .. Len(r.queue.active) :
      OfTenant(r.taken, r.queue.active[i]) = {} /\ OfTenant(r.taken, r.queue.active[j]) # {} =>
        Ahead(CursorOf(r.queue), i, j)
InTurn(r, q0) == Unserved(r, q0) /\ OneTurnEach(r, q0) /\ InOrder(r)

(* The order from the next position on.                                     *)
LEMMA AheadMoves ==
    ASSUME NEW N \in Nat, NEW at \in 1 .. N, NEW i \in 1 .. N, NEW j \in 1 .. N, i # at,
           j = at \/ Ahead(at, i, j)
    PROVE  Ahead(IF at + 1 > N THEN 1 ELSE at + 1, i, j)
  BY DEF Ahead

(* The order once the position itself is gone.                              *)
LEMMA AheadShrinks ==
    ASSUME NEW N \in Nat, NEW at \in 1 .. N, NEW i \in 1 .. N - 1, NEW j \in 1 .. N - 1,
           Ahead(at, IF i < at THEN i ELSE i + 1, IF j < at THEN j ELSE j + 1)
    PROVE  Ahead(IF at > N - 1 THEN 1 ELSE at, i, j)
  BY DEF Ahead

(* What the first n items of tenant t add to what a drain has taken.        *)
LEMMA TakenOf ==
    ASSUME NEW a \in Seq(Items), NEW b \in Seq(Items), NEW t, b # <<>>,
           \A i \in 1 .. Len(b) : Tenant(b[i].step) = t
    PROVE  /\ \A x : x # t => OfTenant(a \o b, x) = OfTenant(a, x)
           /\ OfTenant(a \o b, t) # {}
           /\ OfTenant(a, t) = {} => Cardinality(OfTenant(a \o b, t)) = Len(b)
  <1>c. PICK c : c = a \o b
    OBVIOUS
  <1>m. PICK m \in Nat, n \in Nat : m = Len(a) /\ n = Len(b) /\ n # 0
    OBVIOUS
  <1>1. /\ c \in Seq(Items) /\ Len(c) = m + n
        /\ \A i \in 1 .. m + n : c[i] = IF i <= m THEN a[i] ELSE b[i - m]
    BY <1>c, <1>m, ConcatProperties
  <1>2. DOMAIN a = 1 .. m /\ DOMAIN c = 1 .. m + n
    BY <1>m, <1>1
  <1>3. \A i \in 1 .. m : i \in 1 .. m + n /\ c[i] = a[i]
    BY <1>1
  <1>4. \A i \in m + 1 .. m + n : i \in 1 .. m + n /\ Tenant(c[i].step) = t
    <2>1. ASSUME NEW i \in m + 1 .. m + n PROVE i \in 1 .. m + n /\ Tenant(c[i].step) = t
      <3>1. i \in 1 .. m + n /\ ~(i <= m) /\ i - m \in 1 .. n
        OBVIOUS
      <3>2. c[i] = b[i - m]
        BY <1>1, <3>1
      <3> QED BY <1>m, <3>1, <3>2
    <2> QED BY <2>1
  <1>5. \A i \in 1 .. m + n : i \in 1 .. m \/ i \in m + 1 .. m + n
    OBVIOUS
  <1>6. ASSUME NEW x, x # t PROVE OfTenant(c, x) = OfTenant(a, x)
    BY <1>2, <1>3, <1>4, <1>5, <1>6 DEF OfTenant
  <1>7. m + 1 \in m + 1 .. m + n
    BY <1>m
  <1>8. OfTenant(c, t) # {}
    BY <1>2, <1>4, <1>7 DEF OfTenant
  <1>9. ASSUME OfTenant(a, t) = {} PROVE Cardinality(OfTenant(c, t)) = n
    <2>1. \A i \in 1 .. m : Tenant(c[i].step) # t
      BY <1>2, <1>3, <1>9 DEF OfTenant
    <2>2. OfTenant(c, t) = m + 1 .. m + n
      BY <1>2, <1>4, <1>5, <2>1 DEF OfTenant
    <2>3. Cardinality(m + 1 .. m + n) = IF m + 1 > m + n THEN 0 ELSE m + n - (m + 1) + 1
      BY FS_Interval
    <2> QED BY <1>m, <2>2, <2>3
  <1> QED BY <1>c, <1>m, <1>6, <1>8, <1>9

(* A pass keeps the turns.                                                  *)
LEMMA TurnKeepsTurns ==
    ASSUME NEW r, NEW q0, PassGood(r, q0), InTurn(r, q0), r.room # 0, NEW y, PassGood(y, q0),
           NEW at, NEW t, NEW n, Serves(r, y, at, t, n)
    PROVE  InTurn(y, q0)
  <1>q. PICK q : q = r.queue /\ QueueGood(q)
    BY DEF PassGood
  <1>e. PICK e : e = y.queue /\ QueueGood(e)
    BY DEF PassGood
  <1>0. /\ q.items \in [Tenants -> Seq(Items)] /\ q.active \in Seq(Tenants) /\ Rotation(q)
        /\ r.taken \in Seq(Items)
    BY <1>q, QueueFields DEF QueueGood, PassGood
  <1>a. PICK act \in Seq(Tenants) : act = q.active
    BY <1>0
  <1>n. PICK N \in Nat : N = Len(act) /\ DOMAIN act = 1 .. N
    OBVIOUS
  <1>1. /\ at \in 1 .. N /\ at = CursorOf(q) /\ t = act[at] /\ t \in Tenants
        /\ n \in 1 .. Len(q.items[t]) /\ n <= Weight[t]
        /\ y.taken = r.taken \o SubSeq(q.items[t], 1, n)
        /\ \A u \in Tenants : u # t => e.items[u] = q.items[u]
    BY <1>q, <1>e, <1>a, <1>n, SMTT(60) DEF Serves, CursorOf
  <1>2. \/ e.active = RemoveAt(act, at) /\ e.cursor = at
        \/ e.active = act /\ e.cursor = at + 1
        \/ y.room = 0
    BY <1>q, <1>e, <1>a DEF Serves
  <1>l. PICK l \in Seq(Items) : l = q.items[t]
    BY <1>0, <1>1
  <1>b. PICK b : b = SubSeq(l, 1, n)
    OBVIOUS
  <1>3. b \in Seq(Items) /\ Len(b) = n /\ \A i \in 1 .. n : b[i] = l[i]
    <2>1. n \in 0 .. Len(l)
      BY <1>1, <1>l
    <2> QED BY <1>b, <2>1, SubSeqParts
  <1>4. \A i \in 1 .. Len(b) : Tenant(b[i].step) = t
    <2>1. \A i \in ToSet(l) : Tenant(i.step) = t
      BY <1>q, <1>1, <1>l DEF QueueGood
    <2>2. \A i \in 1 .. n : i \in DOMAIN l
      BY <1>1, <1>l
    <2>3. \A i \in 1 .. n : l[i] \in ToSet(l)
      BY <2>2 DEF ToSet
    <2> QED BY <1>3, <2>1, <2>3
  <1>5. b # <<>>
    BY <1>1, <1>3
  <1>6. /\ \A x : x # t => OfTenant(y.taken, x) = OfTenant(r.taken, x)
        /\ OfTenant(y.taken, t) # {}
        /\ OfTenant(r.taken, t) = {} => Cardinality(OfTenant(y.taken, t)) = n
    <2>1. PICK a \in Seq(Items) : a = r.taken
      BY <1>0
    <2>2. /\ \A x : x # t => OfTenant(a \o b, x) = OfTenant(a, x)
          /\ OfTenant(a \o b, t) # {}
          /\ OfTenant(a, t) = {} => Cardinality(OfTenant(a \o b, t)) = Len(b)
      BY ONLY a \in Seq(Items), <1>3, <1>4, <1>5, TakenOf
    <2>3. y.taken = a \o b
      BY <1>1, <1>l, <1>b, <2>1
    <2> QED BY <1>3, <2>1, <2>2, <2>3
  <1>7. \A i, j \in 1 .. N : act[i] = act[j] => i = j
    BY <1>0, <1>a, <1>n DEF Rotation
  <1>8. \A i, j \in 1 .. N : OfTenant(r.taken, act[i]) = {} /\ OfTenant(r.taken, act[j]) # {} => Ahead(at, i, j)
    BY <1>q, <1>a, <1>n, <1>1 DEF InTurn, InOrder
  <1>9. Unserved(y, q0)
    <2>1. ASSUME NEW x \in Waiting(q0), OfTenant(y.taken, x) = {} PROVE x \in Waiting(e)
      <3>1. x # t /\ x \in Waiting(q)
        BY <1>q, <1>6, <2>1 DEF InTurn, Unserved
      <3> QED BY <1>1, <3>1 DEF Waiting
    <2> QED BY <1>e, <2>1 DEF Unserved
  <1>10. OneTurnEach(y, q0)
    <2>1. ASSUME NEW x \in Waiting(q0), NEW u \in Tenants, OfTenant(y.taken, x) = {}
          PROVE  Cardinality(OfTenant(y.taken, u)) <= Weight[u]
      <3>1. x # t /\ x \in Waiting(q) /\ OfTenant(r.taken, x) = {}
        BY <1>q, <1>6, <2>1 DEF InTurn, Unserved
      <3>2. CASE u # t
        BY <1>6, <3>1, <3>2 DEF InTurn, OneTurnEach
      <3>3. CASE u = t
        <4>1. x \in ToSet(act)
          BY <1>0, <1>a, <3>1 DEF Rotation
        <4>2. PICK i \in 1 .. N : act[i] = x
          BY <1>n, <4>1 DEF ToSet
        <4>3. ~Ahead(at, i, at)
          BY <1>1 DEF Ahead
        <4>4. OfTenant(r.taken, t) = {}
          BY <1>1, <1>8, <3>1, <4>2, <4>3
        <4> QED BY <1>1, <1>6, <3>3, <4>4
      <3> QED BY <3>2, <3>3
    <2> QED BY <2>1 DEF OneTurnEach
  <1>11. InOrder(y)
    <2> SUFFICES ASSUME y.room # 0, NEW i \in 1 .. Len(e.active), NEW j \in 1 .. Len(e.active),
                        OfTenant(y.taken, e.active[i]) = {}, OfTenant(y.taken, e.active[j]) # {}
                 PROVE  Ahead(CursorOf(e), i, j)
      BY <1>e DEF InOrder
    <2>1. CASE e.active = act /\ e.cursor = at + 1
      <3>1. i \in 1 .. N /\ j \in 1 .. N /\ CursorOf(e) = IF at + 1 > N THEN 1 ELSE at + 1
        BY <1>n, <2>1 DEF CursorOf
      <3>2. i # at /\ OfTenant(r.taken, act[i]) = {}
        BY <1>1, <1>6, <2>1
      <3>3. j # at => OfTenant(r.taken, act[j]) # {}
        BY <1>1, <1>6, <1>7, <2>1, <3>1
      <3>4. j = at \/ Ahead(at, i, j)
        BY <1>8, <3>1, <3>2, <3>3
      <3> QED BY <1>1, <3>1, <3>2, <3>4, AheadMoves
    <2>2. CASE e.active = RemoveAt(act, at) /\ e.cursor = at
      <3>0. at \in 1 .. Len(act)
        BY <1>n, <1>1
      <3>1. /\ Len(RemoveAt(act, at)) = N - 1
            /\ \A k \in 1 .. N - 1 : RemoveAt(act, at)[k] = act[IF k < at THEN k ELSE k + 1]
        BY <1>n, <3>0, WithoutOne
      <3>2. i \in 1 .. N - 1 /\ j \in 1 .. N - 1 /\ CursorOf(e) = IF at > N - 1 THEN 1 ELSE at
        BY <2>2, <3>1 DEF CursorOf
      <3>3. PICK k \in 1 .. N, m \in 1 .. N :
               /\ k = (IF i < at THEN i ELSE i + 1) /\ m = (IF j < at THEN j ELSE j + 1)
               /\ k # at /\ m # at
        BY <1>1, <3>2
      <3>4. e.active[i] = act[k] /\ e.active[j] = act[m]
        BY <2>2, <3>1, <3>2, <3>3
      <3>5. act[k] # t /\ act[m] # t
        BY <1>1, <1>7, <3>3
      <3>6. Ahead(at, k, m)
        BY <1>6, <1>8, <3>4, <3>5
      <3>7. Ahead(at, IF i < at THEN i ELSE i + 1, IF j < at THEN j ELSE j + 1)
        BY <3>3, <3>6
      <3>8. Ahead(IF at > N - 1 THEN 1 ELSE at, i, j)
        BY <1>1, <3>2, <3>7, AheadShrinks
      <3> QED BY <3>2, <3>8
    <2> QED BY <1>2, <2>1, <2>2
  <1> QED BY <1>9, <1>10, <1>11 DEF InTurn

(* Both, for the pass the code makes.                                       *)
LEMMA TurnInTurn ==
    ASSUME NEW r, NEW q0, PassGood(r, q0), InTurn(r, q0)
    PROVE  PassGood(Turn(r), q0) /\ InTurn(Turn(r), q0)
  <1>y. PICK y : y = Turn(r)
    OBVIOUS
  <1>1. PassGood(y, q0) /\ (y = r \/ \E at, t, n : Serves(r, y, at, t, n))
    BY <1>y, TurnGood
  <1>2. CASE y = r
    BY <1>y, <1>1, <1>2
  <1>3. CASE y # r
    <2>1. r.room # 0
      BY <1>y, <1>3 DEF Turn
    <2>2. PICK at, t, n : Serves(r, y, at, t, n)
      BY <1>1, <1>3
    <2> QED BY <1>y, <1>1, <2>1, <2>2, TurnKeepsTurns
  <1> QED BY <1>2, <1>3

(* One call of Queue.Next loses no item and serves in turn.                 *)
LEMMA TakeNextGood ==
    ASSUME NEW q, QueueGood(q), NEW k \in Nat
    PROVE  PassGood(TakeNext(q, k), q) /\ InTurn(TakeNext(q, k), q)
  <1>f. PICK f : f = CHOOSE g : Passed(q, k, k, g)
    OBVIOUS
  <1>1. Passed(q, k, k, f)
    BY <1>f, PassesExist
  <1>2. TakeNext(q, k) = f[k]
    BY <1>f DEF TakeNext, Passed
  <1> DEFINE Bad == {n \in 0 .. k : ~(PassGood(f[n], q) /\ InTurn(f[n], q))}
  <1>3. SUFFICES ASSUME Bad # {} PROVE FALSE
    BY <1>2
  <1>4. PICK n \in Bad : \A m \in Bad : n <= m
    <2>1. Bad \subseteq Nat
      OBVIOUS
    <2> HIDE DEF Bad
    <2> QED BY <1>3, <2>1, LeastOfNat
  <1>5. n \in 0 .. k /\ ~(PassGood(f[n], q) /\ InTurn(f[n], q))
    BY <1>4
  <1>6. CASE n = 0
    <2>1. f[0] = [queue |-> q, taken |-> <<>>, room |-> k]
      BY <1>1, <1>5, <1>6 DEF Passed
    <2>2. f[0].queue = q /\ f[0].taken = <<>> /\ f[0].room = k
      BY <2>1
    <2>3. <<>> \in Seq(Items) /\ ToSet(<<>>) = {} /\ OneEach(<<>>)
      BY DEF ToSet, OneEach
    <2>4. \A x : OfTenant(<<>>, x) = {}
      BY DEF OfTenant
    <2>5. Cardinality({}) = 0 /\ \A u \in Tenants : Weight[u] \in Nat
      BY FS_EmptySet, WeightAssumption
    <2>6. PassGood(f[0], q)
      BY <2>2, <2>3 DEF PassGood
    <2>7. InTurn(f[0], q)
      <3>1. \A x : OfTenant(f[0].taken, x) = {}
        BY <2>2, <2>4
      <3>2. Unserved(f[0], q)
        BY <2>2 DEF Unserved
      <3>3. OneTurnEach(f[0], q)
        BY <2>5, <3>1 DEF OneTurnEach
      <3>4. InOrder(f[0])
        BY <3>1 DEF InOrder
      <3> QED BY <3>2, <3>3, <3>4 DEF InTurn
    <2> QED BY <1>5, <1>6, <2>6, <2>7
  <1>7. CASE n # 0
    <2>1. n - 1 \in 0 .. k /\ n - 1 \notin Bad
      BY <1>4, <1>5, <1>7
    <2>2. PassGood(f[n - 1], q) /\ InTurn(f[n - 1], q)
      BY <2>1
    <2>3. f[n] = Turn(f[n - 1])
      BY <1>1, <1>5, <1>7 DEF Passed
    <2> QED BY <1>5, <2>2, <2>3, TurnInTurn
  <1> QED BY <1>6, <1>7

-----------------------------------------------------------------------------
(* What a worker may carry, where it is.                                    *)

WorkSet == [pc : Places, run : Runs \cup {0}, todo : SUBSET Items, batch : Seq(Items),
            item : Items \cup {NoItem}, index : Nat, slot : SlotSet]

Outside == {"idle", "admit", "enqueue", "release"}
Carrying == {"count", "acquire", "commit", "hold", "release"}
Slotted == {"commit", "hold"}

RecordGood(r) ==
    /\ r \in WorkSet
    /\ r.pc = "take" => r.batch # <<>>
    /\ r.pc \in Slotted => r.slot \in [key : Keys, rev : Nat \ {0}] /\ r.slot.key[1] = Pipeline(r.item.step)
    /\ r.pc \notin Slotted => r.slot = NoSlot
    /\ r.pc \in Carrying => r.item \in Items
    /\ r.pc = "admit" => r.run \in Runs
    /\ r.pc \in Outside => r.batch = <<>>

WorkersGood == DOMAIN work = Workers /\ work = [w \in Workers |-> work[w]] /\ \A w \in Workers : RecordGood(work[w])

LogTypes ==
    /\ counted \subseteq Runs /\ created \subseteq Runs /\ closed \subseteq Runs
    /\ step \in [Steps -> [phase : {"ready", "out", "resting", "done"}, attempt : Nat]]
    /\ \A s \in Steps : step[s].phase # "ready" => step[s].attempt # 0
    /\ admissionFaults \in 0 .. MaxAdmissionFaults

SlotTypes ==
    /\ bucket \in [Keys -> Nat] /\ renewing \in [Schedulers -> SUBSET Nat]
    /\ held \in [Schedulers -> [Steps -> SlotSet]]
    /\ covered \in [Steps -> Nat] /\ missed \subseteq Nat

(* A slot key is a pipeline and an index within its budget.                 *)
LEMMA KeysArePairs ==
    /\ \A k \in Keys : k = <<k[1], k[2]>> /\ k[1] \in Pipelines /\ k[2] \in 1 .. Limit[k[1]]
    /\ <<>> \notin Keys
  <1>1. ASSUME NEW k \in Keys
        PROVE  \E p \in Pipelines : \E n \in 1 .. Limit[p] : k = <<p, n>>
    <2>1. PICK p \in Pipelines : k \in {p} \X (1 .. Limit[p])
      BY DEF Keys
    <2> QED BY <2>1
  <1>2. ASSUME <<>> \in Keys PROVE FALSE
    <2>1. \E p, n : <<>> = <<p, n>>
      BY <1>1, <1>2
    <2> QED BY <2>1
  <1> QED BY <1>1, <1>2

(* A slot is none just when its revision is 0.                              *)
LEMMA SlotFacts ==
    ASSUME NEW x \in SlotSet
    PROVE  x.rev \in Nat /\ (x.rev = 0 <=> x = NoSlot) /\ (x # NoSlot => x.key \in Keys /\ x \in [key : Keys, rev : Nat \ {0}])
  BY DEF SlotSet, NoSlot

LEMMA NoSlotFacts == NoSlot \in SlotSet /\ NoSlot.rev = 0 /\ NoSlot.key = <<>>
  BY DEF SlotSet, NoSlot

LEMMA EmptyList == <<>> \in Seq(Items) /\ ToSet(<<>>) = {} /\ OneEach(<<>>)
  BY DEF ToSet, OneEach

LEMMA IdleGood ==
    /\ RecordGood(IdleWork) /\ IdleWork.pc = "idle" /\ IdleWork.run = 0 /\ IdleWork.todo = {}
    /\ IdleWork.batch = <<>> /\ IdleWork.item = NoItem /\ IdleWork.index = 0 /\ IdleWork.slot = NoSlot
  <1>1. /\ IdleWork.pc = "idle" /\ IdleWork.run = 0 /\ IdleWork.todo = {}
        /\ IdleWork.batch = <<>> /\ IdleWork.item = NoItem /\ IdleWork.index = 0
        /\ IdleWork.slot = NoSlot
    BY DEF IdleWork
  <1>2. IdleWork \in WorkSet
    BY EmptyList, NoSlotFacts DEF IdleWork, WorkSet, Places
  <1> QED BY <1>1, <1>2 DEF RecordGood, Slotted, Carrying
  
(* A worker of the invariant, field by field.                               *)
LEMMA RecordFacts ==
    ASSUME NEW r, RecordGood(r)
    PROVE  /\ r = [pc |-> r.pc, run |-> r.run, todo |-> r.todo, batch |-> r.batch, item |-> r.item,
                   index |-> r.index, slot |-> r.slot]
           /\ r.pc \in Places /\ r.run \in Runs \cup {0} /\ r.todo \subseteq Items
           /\ r.batch \in Seq(Items) /\ r.item \in Items \cup {NoItem} /\ r.index \in Nat
           /\ r.slot \in SlotSet
  BY DEF RecordGood, WorkSet

(* A record made of fields of their types, and its fields.                  *)
LEMMA MakeRecord ==
    ASSUME NEW r, NEW place \in Places, NEW run \in Runs \cup {0}, NEW todo \in SUBSET Items,
           NEW batch \in Seq(Items), NEW item \in Items \cup {NoItem}, NEW index \in Nat,
           NEW slot \in SlotSet,
           r = [pc |-> place, run |-> run, todo |-> todo, batch |-> batch, item |-> item,
                index |-> index, slot |-> slot]
    PROVE  /\ r \in WorkSet
           /\ r.pc = place /\ r.run = run /\ r.todo = todo /\ r.batch = batch /\ r.item = item
           /\ r.index = index /\ r.slot = slot
  BY DEF WorkSet

(* One worker moves, and the others stay where they are.                    *)
LEMMA WorkerMoves ==
    ASSUME WorkersGood, NEW w \in Workers, NEW r, RecordGood(r), work' = [work EXCEPT ![w] = r]
    PROVE  /\ WorkersGood' /\ work'[w] = r /\ \A v \in Workers : v # w => work'[v] = work[v]
  BY DEF WorkersGood

-----------------------------------------------------------------------------
(* The slots.                                                               *)

KeysDistinct == \A k, l \in Keys : bucket[k] # 0 /\ bucket[k] = bucket[l] => k = l

(* A slot is in one pair of hands.                                          *)
SlotsDistinct ==
    /\ \A w, v \in Workers : work[w].slot.rev # 0 /\ work[w].slot.rev = work[v].slot.rev => w = v
    /\ \A w \in Workers, p \in Schedulers, s \in Steps :
          work[w].slot.rev # 0 => work[w].slot.rev # held[p][s].rev
    /\ \A p, q \in Schedulers, s, x \in Steps :
          held[p][s].rev # 0 /\ held[p][s].rev = held[q][x].rev => p = q /\ s = x

(* The slot a step in flight was given has its key, is nobody else's, and   *)
(* is held for it or on its way to be.                                      *)
Covers(s) ==
    /\ step[s].phase = "out"
    /\ \E k \in Keys : k[1] = Pipeline(s) /\ bucket[k] = covered[s]
    /\ \A x \in Steps : covered[x] = covered[s] => x = s
    /\ \A w \in Workers :
          work[w].slot.rev = covered[s] => At(w, "hold") /\ work[w].item.step = s
    /\ \A p \in Schedulers, x \in Steps :
          held[p][x].rev = covered[s] =>
              x = s /\ \A w \in Workers : At(w, "hold") => work[w].item.step # s

CoverGood == \A s \in Steps : covered[s] # 0 => Covers(s)

(* A step whose dispatch, or whose release, is under way is not ready.      *)
FlightGood ==
    /\ \A w \in Workers : At(w, "hold") => step[work[w].item.step].phase # "ready"
    /\ \A w \in Workers : At(w, "release") => step[work[w].item.step].phase \in {"resting", "done"}
    /\ \A w, v \in Workers :
          At(w, "hold") /\ At(v, "hold") /\ work[w].item.step = work[v].item.step => w = v

(* A slot is renewed where it was taken, for somebody.                      *)
RenewGood ==
    /\ \A p \in Schedulers : IsFiniteSet(renewing[p]) /\ 0 \notin renewing[p]
    /\ \A p, q \in Schedulers : p # q => renewing[p] \cap renewing[q] = {}
    /\ \A w \in Workers, p \in Schedulers : work[w].slot.rev \in renewing[p] => PlaneOf[w] = p
    /\ \A p, q \in Schedulers, s \in Steps : held[p][s].rev \in renewing[q] => p = q

RenewedForSomeone ==
    \A p \in Schedulers : \A rev \in renewing[p] \ missed :
        \/ \E w \in Workers : work[w].slot.rev = rev
        \/ \E s \in Steps : held[p][s].rev = rev

(* A step that has left flight is about to be released on the plane that    *)
(* renews its slot, or left where that plane could not see it.              *)
SeenToLeave ==
    /\ \A w \in Workers :
          At(w, "hold") /\ step[work[w].item.step].phase # "out" =>
              work[w].slot.rev \notin renewing[PlaneOf[w]] \ missed
    /\ \A p \in Schedulers, s \in Steps :
          held[p][s].rev \in renewing[p] \ missed /\ step[s].phase # "out" =>
              \E w \in Workers : At(w, "release") /\ work[w].item.step = s /\ PlaneOf[w] = p

SlotInv ==
    /\ SlotTypes /\ KeysDistinct /\ SlotsDistinct /\ CoverGood /\ FlightGood
    /\ RenewGood /\ RenewedForSomeone /\ SeenToLeave

(* An attempt that is queued is the next one of a ready step, or is over.   *)
Fresh(i, steps) ==
    /\ i.attempt <= steps[i.step].attempt + 1
    /\ steps[i.step].phase # "ready" => i.attempt <= steps[i.step].attempt

CarriedItems(r) ==
    r.todo \cup ToSet(r.batch)
      \cup (IF r.pc \in {"count", "acquire", "commit"} THEN {r.item} ELSE {})

ItemsFresh ==
    /\ \A w \in Workers : \A i \in CarriedItems(work[w]) : Fresh(i, step)
    /\ \A p \in Schedulers : \A i \in QueueItems(queue[p]) : Fresh(i, step)

(* A step that is marked is in one place.                                   *)
BatchSteps(r) == StepsOf(ToSet(r.batch))
Marked(p) ==
    /\ QueueGood(queue[p])
    /\ pending[p] = InQueue(p) \cup InHand(p) \cup stranded[p]
    /\ \A s \in stranded[p] : s \notin InQueue(p) /\ s \notin InHand(p)
    /\ \A w \in Workers : PlaneOf[w] = p =>
          OneEach(work[w].batch) /\ \A s \in BatchSteps(work[w]) : s \notin InQueue(p)
    /\ \A w, v \in Workers : PlaneOf[w] = p /\ PlaneOf[v] = p /\ w # v =>
          \A s \in BatchSteps(work[w]) : s \notin BatchSteps(work[v])

PendInv ==
    /\ DOMAIN queue = Schedulers /\ queue = [p \in Schedulers |-> queue[p]]
    /\ pending \in [Schedulers -> SUBSET Steps] /\ stranded \in [Schedulers -> SUBSET Steps]
    /\ \A p \in Schedulers : Marked(p)

AdmissionIInv == LogTypes /\ WorkersGood /\ SlotInv /\ ItemsFresh /\ PendInv

(* A worker moves that has no slot and releases none.                       *)
LEMMA QuietSlots ==
    ASSUME WorkersGood, SlotInv, NEW w \in Workers, NEW r, RecordGood(r),
           work' = [work EXCEPT ![w] = r],
           work[w].pc \notin Slotted \cup {"release"}, r.pc \notin Slotted \cup {"release"},
           UNCHANGED <<step, bucket, renewing, held, covered, missed>>
    PROVE  SlotInv'
  <1>1. work'[w] = r /\ \A v \in Workers : v # w => work'[v] = work[v]
    BY WorkerMoves
  <1>2. work[w].slot.rev = 0 /\ work'[w].slot.rev = 0
    BY <1>1, NoSlotFacts DEF WorkersGood, RecordGood
  <1>3. /\ work[w].pc # "hold" /\ work'[w].pc # "hold" /\ work[w].pc # "release" /\ work'[w].pc # "release"
    BY <1>1 DEF Slotted
  <1>4. \A v \in Workers : /\ work'[v].slot.rev = work[v].slot.rev
                           /\ At(v, "hold")' <=> At(v, "hold")
                           /\ At(v, "release")' <=> At(v, "release")
                           /\ At(v, "hold") \/ At(v, "release") => work'[v].item.step = work[v].item.step
    BY <1>1, <1>2, <1>3 DEF At
  <1>5. SlotTypes' /\ KeysDistinct'
    BY DEF SlotInv, SlotTypes, KeysDistinct
  <1>6. SlotsDistinct'
    BY <1>4 DEF SlotInv, SlotsDistinct
  <1>7. CoverGood'
    <2>1. ASSUME NEW s \in Steps, covered'[s] # 0 PROVE Covers(s)'
      <3>1. Covers(s)
        BY <2>1 DEF SlotInv, CoverGood
      <3> QED BY <1>4, <3>1 DEF Covers
    <2> QED BY <2>1 DEF CoverGood
  <1>8. FlightGood'
    BY <1>4 DEF SlotInv, FlightGood
  <1>9. RenewGood'
    BY <1>4 DEF SlotInv, RenewGood
  <1>10. RenewedForSomeone'
    BY <1>4 DEF SlotInv, RenewedForSomeone
  <1>11. SeenToLeave'
    BY <1>4 DEF SlotInv, SeenToLeave
  <1> QED BY <1>5, <1>6, <1>7, <1>8, <1>9, <1>10, <1>11 DEF SlotInv

(* A worker moves, with nothing in its batch that was not there.            *)
LEMMA BatchesKept ==
    ASSUME PendInv, UNCHANGED <<queue, pending, stranded>>,
           \A v \in Workers : work'[v].batch = work[v].batch
    PROVE  PendInv'
  <1>1. ASSUME NEW p \in Schedulers PROVE Marked(p)'
    <2>1. InQueue(p)' = InQueue(p)
      BY DEF InQueue
    <2>2. InHand(p)' = InHand(p)
      BY DEF InHand
    <2>3. \A v \in Workers : BatchSteps(work'[v]) = BatchSteps(work[v])
      BY DEF BatchSteps
    <2>4. Marked(p)
      BY DEF PendInv
    <2> QED BY <2>1, <2>2, <2>3, <2>4 DEF Marked
  <1> QED BY <1>1 DEF PendInv

(* Items stay fresh when a worker takes up fresh ones.                      *)
LEMMA FreshKept ==
    ASSUME WorkersGood, ItemsFresh, NEW w \in Workers, NEW r, RecordGood(r),
           work' = [work EXCEPT ![w] = r], \A i \in CarriedItems(r) : Fresh(i, step), UNCHANGED <<step, queue>>
    PROVE  ItemsFresh'
  <1>1. work'[w] = r /\ \A v \in Workers : v # w => work'[v] = work[v]
    BY WorkerMoves
  <1> QED BY <1>1 DEF ItemsFresh

(* A step of one worker that touches neither the slots nor the queue, and   *)
(* takes up nothing but what is fresh.                                      *)
LEMMA QuietStep ==
    ASSUME AdmissionIInv, NEW w \in Workers, NEW r, RecordGood(r), work' = [work EXCEPT ![w] = r],
           work[w].pc \notin Slotted \cup {"release"}, r.pc \notin Slotted \cup {"release"},
           \A i \in CarriedItems(r) : Fresh(i, step), r.batch = work[w].batch, LogTypes',
           UNCHANGED <<step, bucket, renewing, held, covered, missed, queue, pending, stranded>>
    PROVE  AdmissionIInv'
  <1>1. WorkersGood' /\ work'[w] = r /\ \A v \in Workers : v # w => work'[v] = work[v]
    BY WorkerMoves DEF AdmissionIInv
  <1>2. SlotInv'
    BY QuietSlots DEF AdmissionIInv
  <1>3. PendInv'
    BY <1>1, BatchesKept DEF AdmissionIInv
  <1>4. ItemsFresh'
    BY FreshKept DEF AdmissionIInv
  <1> QED BY <1>1, <1>2, <1>3, <1>4 DEF AdmissionIInv

(* What Plan carries: the ready steps of the run.                           *)
LEMMA PlanGood ==
    ASSUME AdmissionIInv, NEW w \in Workers, NEW run, Plan(w, run)
    PROVE  \E r : /\ RecordGood(r) /\ work' = [work EXCEPT ![w] = r] /\ r.batch = <<>>
                  /\ r.pc \in {"idle", "enqueue"} /\ \A i \in CarriedItems(r) : Fresh(i, step)
  <1>1. CASE run \in closed \/ Finished(run)
    <2>1. work' = [work EXCEPT ![w] = IdleWork]
      BY <1>1 DEF Plan, Become
    <2>2. \A i \in CarriedItems(IdleWork) : Fresh(i, step)
      BY IdleGood, EmptyList DEF CarriedItems
    <2> QED BY <2>1, <2>2, IdleGood
  <1>2. CASE ~(run \in closed \/ Finished(run))
    <2>r. PICK r : r = [IdleWork EXCEPT !.pc = "enqueue", !.todo = ReadySteps(run)]
      OBVIOUS
    <2>1. work' = [work EXCEPT ![w] = r]
      BY <1>2, <2>r DEF Plan, Become
    <2>2. step \in [Steps -> [phase : {"ready", "out", "resting", "done"}, attempt : Nat]]
      BY DEF AdmissionIInv, LogTypes
    <2>3. \A i \in ReadySteps(run) : i \in Items /\ Fresh(i, step)
      <3>1. ASSUME NEW s \in Steps, step[s].phase = "ready", NEW i, i = [step |-> s, attempt |-> step[s].attempt + 1]
            PROVE  i \in Items /\ Fresh(i, step)
        <4>1. step[s].attempt \in Nat
          BY <2>2
        <4>2. step[s].attempt + 1 \in Nat \ {0}
          BY <4>1
        <4>3. i.step = s /\ i.attempt = step[s].attempt + 1
          BY <3>1
        <4> QED BY <3>1, <4>1, <4>2, <4>3 DEF Items, Fresh
      <3> QED BY <3>1 DEF ReadySteps
    <2>t. PICK todo \in SUBSET Items : todo = ReadySteps(run) /\ \A i \in todo : Fresh(i, step)
      BY <2>3
    <2>4. r = [pc |-> "enqueue", run |-> 0, todo |-> todo, batch |-> <<>>, item |-> NoItem,
               index |-> 0, slot |-> NoSlot]
      BY <2>r, <2>t DEF IdleWork
    <2>5. /\ r \in WorkSet /\ r.pc = "enqueue" /\ r.todo = todo /\ r.batch = <<>> /\ r.slot = NoSlot
      <3>1. /\ "enqueue" \in Places /\ 0 \in Runs \cup {0} /\ <<>> \in Seq(Items)
            /\ NoItem \in Items \cup {NoItem} /\ 0 \in Nat /\ NoSlot \in SlotSet
        BY EmptyList, NoSlotFacts DEF Places
      <3> QED BY <2>4, <3>1 DEF WorkSet
    <2>6. RecordGood(r)
      BY <2>5 DEF RecordGood, Slotted, Carrying
    <2>7. \A i \in CarriedItems(r) : Fresh(i, step)
      BY <2>5, <2>t, EmptyList DEF CarriedItems
    <2> QED BY <2>1, <2>5, <2>6, <2>7
  <1> QED BY <1>1, <1>2

(* What is left of the records a worker passes through.                     *)
LEMMA Outsider ==
    ASSUME AdmissionIInv, NEW w \in Workers, work[w].pc \in Outside
    PROVE  work[w].batch = <<>> /\ work[w].slot = NoSlot /\ RecordGood(work[w])
  BY DEF AdmissionIInv, WorkersGood, RecordGood, Outside, Slotted

LEMMA AdmitRunKeeps ==
    ASSUME AdmissionIInv, NEW w \in Workers, NEW run \in Runs, AdmitRun(w, run) PROVE AdmissionIInv'
  <1>r. PICK r : r = [IdleWork EXCEPT !.pc = "admit", !.run = run]
    OBVIOUS
  <1>1. r = [pc |-> "admit", run |-> run, todo |-> {}, batch |-> <<>>, item |-> NoItem,
             index |-> 0, slot |-> NoSlot]
    BY <1>r DEF IdleWork
  <1>2. /\ r \in WorkSet /\ r.pc = "admit" /\ r.run = run /\ r.todo = {} /\ r.batch = <<>>
        /\ r.slot = NoSlot
    <2>1. /\ "admit" \in Places /\ run \in Runs \cup {0} /\ {} \in SUBSET Items
          /\ <<>> \in Seq(Items) /\ NoItem \in Items \cup {NoItem} /\ 0 \in Nat /\ NoSlot \in SlotSet
      BY EmptyList, NoSlotFacts DEF Places
    <2> QED BY <1>1, <2>1 DEF WorkSet
  <1>3. RecordGood(r)
    BY <1>2 DEF RecordGood, Slotted, Carrying
  <1>4. work[w].pc = "idle" /\ work' = [work EXCEPT ![w] = r]
    BY <1>r DEF AdmitRun, Become, At
  <1>5. r.batch = work[w].batch
    BY <1>2, <1>4, Outsider DEF Outside
  <1>6. \A i \in CarriedItems(r) : Fresh(i, step)
    BY <1>2, EmptyList DEF CarriedItems
  <1>7. UNCHANGED <<step, bucket, renewing, held, covered, missed, queue, pending, stranded>> /\ LogTypes'
    BY DEF AdmitRun, log, slots, waiting, history, AdmissionIInv, LogTypes
  <1>8. work[w].pc \notin Slotted \cup {"release"} /\ r.pc \notin Slotted \cup {"release"}
    BY <1>2, <1>4 DEF Slotted
  <1> QED BY <1>3, <1>4, <1>5, <1>6, <1>7, <1>8, QuietStep

LEMMA OpenRunTickKeeps ==
    ASSUME AdmissionIInv, NEW w \in Workers, NEW run \in Runs, OpenRunTick(w, run) PROVE AdmissionIInv'
  <1>1. work[w].pc = "idle" /\ Plan(w, run)
    BY DEF OpenRunTick, At
  <1>2. PICK r : /\ RecordGood(r) /\ work' = [work EXCEPT ![w] = r] /\ r.batch = <<>>
                 /\ r.pc \in {"idle", "enqueue"} /\ \A i \in CarriedItems(r) : Fresh(i, step)
    BY <1>1, PlanGood
  <1>5. r.batch = work[w].batch
    BY <1>1, <1>2, Outsider DEF Outside
  <1>7. UNCHANGED <<step, bucket, renewing, held, covered, missed, queue, pending, stranded>> /\ LogTypes'
    BY DEF OpenRunTick, log, slots, waiting, history, AdmissionIInv, LogTypes
  <1>8. work[w].pc \notin Slotted \cup {"release"} /\ r.pc \notin Slotted \cup {"release"}
    BY <1>1, <1>2 DEF Slotted
  <1> QED BY <1>2, <1>5, <1>7, <1>8, QuietStep

LEMMA CreateRunKeeps ==
    ASSUME AdmissionIInv, NEW w \in Workers, CreateRun(w) PROVE AdmissionIInv'
  <1>1. work[w].pc = "admit" /\ Plan(w, work[w].run)
    BY DEF CreateRun, At
  <1>2. PICK r : /\ RecordGood(r) /\ work' = [work EXCEPT ![w] = r] /\ r.batch = <<>>
                 /\ r.pc \in {"idle", "enqueue"} /\ \A i \in CarriedItems(r) : Fresh(i, step)
    BY <1>1, PlanGood
  <1>5. r.batch = work[w].batch /\ work[w].run \in Runs
    BY <1>1, <1>2, Outsider DEF Outside, RecordGood
  <1>7. UNCHANGED <<step, bucket, renewing, held, covered, missed, queue, pending, stranded>> /\ LogTypes'
    BY <1>5 DEF CreateRun, slots, waiting, history, AdmissionIInv, LogTypes
  <1>8. work[w].pc \notin Slotted \cup {"release"} /\ r.pc \notin Slotted \cup {"release"}
    BY <1>1, <1>2 DEF Slotted
  <1> QED BY <1>2, <1>5, <1>7, <1>8, QuietStep

(* A worker with nothing in hand may stop anywhere.                         *)
LEMMA ToIdle ==
    ASSUME AdmissionIInv, NEW w \in Workers, work[w].pc \in {"idle", "admit", "enqueue"},
           work' = [work EXCEPT ![w] = IdleWork], LogTypes',
           UNCHANGED <<step, bucket, renewing, held, covered, missed, queue, pending, stranded>>
    PROVE  AdmissionIInv'
  <1>1. IdleWork.batch = work[w].batch
    BY IdleGood, Outsider DEF Outside
  <1>2. \A i \in CarriedItems(IdleWork) : Fresh(i, step)
    BY IdleGood, EmptyList DEF CarriedItems
  <1>3. work[w].pc \notin Slotted \cup {"release"} /\ IdleWork.pc \notin Slotted \cup {"release"}
    BY IdleGood DEF Slotted
  <1> QED BY <1>1, <1>2, <1>3, IdleGood, QuietStep

LEMMA FaultCounted ==
    ASSUME LogTypes, Fault PROVE admissionFaults' \in 0 .. MaxAdmissionFaults
  BY AdmissionAssumption DEF LogTypes, Fault

LEMMA CreateFailsKeeps ==
    ASSUME AdmissionIInv, NEW w \in Workers, CreateFails(w) PROVE AdmissionIInv'
  <1>1. work[w].pc = "admit" /\ work' = [work EXCEPT ![w] = IdleWork] /\ work[w].run \in Runs
    BY Outsider DEF CreateFails, At, Become, Outside, RecordGood
  <1>2. UNCHANGED <<step, bucket, renewing, held, covered, missed, queue, pending, stranded>> /\ LogTypes'
    BY <1>1, FaultCounted DEF CreateFails, slots, waiting, history, AdmissionIInv, LogTypes
  <1> QED BY <1>1, <1>2, ToIdle

LEMMA EnqueueFailsKeeps ==
    ASSUME AdmissionIInv, NEW w \in Workers, EnqueueFails(w) PROVE AdmissionIInv'
  <1>1. work[w].pc = "enqueue" /\ work' = [work EXCEPT ![w] = IdleWork]
    BY DEF EnqueueFails, At, Become
  <1>2. UNCHANGED <<step, bucket, renewing, held, covered, missed, queue, pending, stranded>> /\ LogTypes'
    BY FaultCounted DEF EnqueueFails, log, slots, waiting, history, AdmissionIInv, LogTypes
  <1> QED BY <1>1, <1>2, ToIdle

(* Steps that leave the workers where they are.                             *)
LEMMA CancelRunKeeps ==
    ASSUME AdmissionIInv, NEW run \in Runs, CancelRun(run) PROVE AdmissionIInv'
  <1>1. UNCHANGED <<counted, created, step, bucket, renewing, held, queue, pending, work, covered, stranded, missed>>
    BY DEF CancelRun, slots, waiting, history
  <1>2. LogTypes'
    BY <1>1, FaultCounted DEF CancelRun, AdmissionIInv, LogTypes
  <1>3. WorkersGood' /\ ItemsFresh'
    BY <1>1 DEF AdmissionIInv, WorkersGood, ItemsFresh
  <1>4. PendInv'
    BY <1>1, BatchesKept DEF AdmissionIInv
  <1>5. SlotInv'
    BY <1>1 DEF AdmissionIInv, SlotInv, SlotTypes, KeysDistinct, SlotsDistinct, CoverGood, Covers,
                FlightGood, RenewGood, RenewedForSomeone, SeenToLeave, At
  <1> QED BY <1>2, <1>3, <1>4, <1>5 DEF AdmissionIInv

-----------------------------------------------------------------------------
(* The item in hand is left, and the next one of the batch follows.         *)
LEMMA NextItemGood ==
    ASSUME AdmissionIInv, NEW w \in Workers, NextItem(w)
    PROVE  \E r : /\ RecordGood(r) /\ work' = [work EXCEPT ![w] = r] /\ r.batch = work[w].batch
                  /\ r.pc \in {"idle", "take"} /\ CarriedItems(r) = ToSet(work[w].batch)
                  /\ r.slot = NoSlot
  <1>0. RecordGood(work[w]) /\ work[w].batch \in Seq(Items)
    BY RecordFacts DEF AdmissionIInv, WorkersGood
  <1>1. CASE work[w].batch = <<>>
    <2>1. work' = [work EXCEPT ![w] = IdleWork]
      BY <1>1 DEF NextItem, Become
    <2>2. CarriedItems(IdleWork) = ToSet(work[w].batch)
      BY <1>1, IdleGood, EmptyList DEF CarriedItems
    <2> QED BY <1>1, <2>1, <2>2, IdleGood
  <1>2. CASE work[w].batch # <<>>
    <2>b. PICK batch \in Seq(Items) : batch = work[w].batch
      BY <1>0
    <2>r. PICK r : r = [IdleWork EXCEPT !.pc = "take", !.batch = batch]
      OBVIOUS
    <2>1. work' = [work EXCEPT ![w] = r]
      BY <1>2, <2>b, <2>r DEF NextItem, Become
    <2>2. r = [pc |-> "take", run |-> 0, todo |-> {}, batch |-> batch, item |-> NoItem,
               index |-> 0, slot |-> NoSlot]
      BY <2>r DEF IdleWork
    <2>3. /\ r \in WorkSet /\ r.pc = "take" /\ r.todo = {} /\ r.batch = batch /\ r.slot = NoSlot
      <3>1. /\ "take" \in Places /\ 0 \in Runs \cup {0} /\ {} \in SUBSET Items
            /\ NoItem \in Items \cup {NoItem} /\ 0 \in Nat /\ NoSlot \in SlotSet
        BY NoSlotFacts DEF Places
      <3> QED BY <2>2, <3>1 DEF WorkSet
    <2>4. RecordGood(r)
      BY <1>2, <2>b, <2>3 DEF RecordGood, Slotted, Carrying, Outside
    <2>5. CarriedItems(r) = ToSet(batch)
      BY <2>3 DEF CarriedItems
    <2> QED BY <2>b, <2>1, <2>3, <2>4, <2>5
  <1> QED BY <1>1, <1>2

(* The worker's item, and its batch, are fresh.                             *)
LEMMA InHandIsFresh ==
    ASSUME AdmissionIInv, NEW w \in Workers
    PROVE  /\ \A i \in ToSet(work[w].batch) : Fresh(i, step)
           /\ work[w].pc \in {"count", "acquire", "commit"} => Fresh(work[w].item, step)
  BY DEF AdmissionIInv, ItemsFresh, CarriedItems

LEMMA CountInFlightKeeps ==
    ASSUME AdmissionIInv, NEW w \in Workers, CountInFlight(w) PROVE AdmissionIInv'
  <1>0. work[w].pc = "count" /\ RecordGood(work[w])
    BY DEF CountInFlight, At, AdmissionIInv, WorkersGood
  <1>1. UNCHANGED <<step, bucket, renewing, held, covered, missed, queue, pending, stranded>> /\ LogTypes'
    BY DEF CountInFlight, log, slots, waiting, history, AdmissionIInv, LogTypes
  <1>2. CASE NextItem(w)
    <2>1. PICK r : /\ RecordGood(r) /\ work' = [work EXCEPT ![w] = r] /\ r.batch = work[w].batch
                   /\ r.pc \in {"idle", "take"} /\ CarriedItems(r) = ToSet(work[w].batch)
                   /\ r.slot = NoSlot
      BY <1>2, NextItemGood
    <2>2. \A i \in CarriedItems(r) : Fresh(i, step)
      BY <2>1, InHandIsFresh
    <2>3. work[w].pc \notin Slotted \cup {"release"} /\ r.pc \notin Slotted \cup {"release"}
      BY <1>0, <2>1 DEF Slotted
    <2> QED BY <1>1, <2>1, <2>2, <2>3, QuietStep
  <1>3. CASE Become(w, [work[w] EXCEPT !.pc = "acquire", !.index = 1])
    <2>r. PICK r : r = [work[w] EXCEPT !.pc = "acquire", !.index = 1]
      OBVIOUS
    <2>1. work' = [work EXCEPT ![w] = r]
      BY <1>3, <2>r DEF Become
    <2>2. /\ r \in WorkSet /\ r.pc = "acquire" /\ r.todo = work[w].todo /\ r.batch = work[w].batch
          /\ r.item = work[w].item /\ r.slot = work[w].slot
      <3>1. "acquire" \in Places /\ 1 \in Nat
        BY DEF Places
      <3> QED BY <1>0, <2>r, <3>1 DEF RecordGood, WorkSet
    <2>3. RecordGood(r)
      BY <1>0, <2>2 DEF RecordGood, Slotted, Carrying, Outside
    <2>4. \A i \in CarriedItems(r) : Fresh(i, step)
      BY <1>0, <2>2 DEF CarriedItems, AdmissionIInv, ItemsFresh
    <2>5. work[w].pc \notin Slotted \cup {"release"} /\ r.pc \notin Slotted \cup {"release"}
      BY <1>0, <2>2 DEF Slotted
    <2> QED BY <1>1, <2>1, <2>2, <2>3, <2>4, <2>5, QuietStep
  <1> QED BY <1>2, <1>3 DEF CountInFlight

-----------------------------------------------------------------------------
(* A revision nobody remembers.                                             *)
LEMMA ImageFinite ==
    ASSUME NEW S, IsFiniteSet(S), NEW f, f = [x \in S |-> f[x]]
    PROVE  IsFiniteSet({f[x] : x \in S})
  <1>1. PICK T : T = {f[x] : x \in S}
    OBVIOUS
  <1>2. f \in Surjection(S, T)
    BY <1>1 DEF Surjection
  <1> QED BY <1>1, <1>2, FS_Surjection

(* The keys and the planes are finitely many.                               *)
LEMMA KeysFinite == IsFiniteSet(Keys) /\ IsFiniteSet(Schedulers)
  <1>1. IsFiniteSet(Runs) /\ IsFiniteSet(Workers) /\ Limit \in [Pipelines -> Nat \ {0}]
    BY AdmissionAssumption
  <1>2. IsFiniteSet(Pipelines)
    <2>1. PICK f : f = [r \in Runs |-> PipelineOf[r]]
      OBVIOUS
    <2>2. f = [r \in Runs |-> f[r]] /\ {f[r] : r \in Runs} = Pipelines
      BY <2>1 DEF Pipelines
    <2> QED BY <1>1, <2>2, ImageFinite
  <1>3. IsFiniteSet(Schedulers)
    <2>1. PICK f : f = [w \in Workers |-> PlaneOf[w]]
      OBVIOUS
    <2>2. f = [w \in Workers |-> f[w]] /\ {f[w] : w \in Workers} = Schedulers
      BY <2>1 DEF Schedulers
    <2> QED BY <1>1, <2>2, ImageFinite
  <1>4. PICK f : f = [p \in Pipelines |-> {p} \X (1 .. Limit[p])]
    OBVIOUS
  <1>5. PICK F : F = {f[p] : p \in Pipelines}
    OBVIOUS
  <1>6. IsFiniteSet(F)
    <2>1. f = [p \in Pipelines |-> f[p]]
      BY <1>4
    <2> QED BY <1>2, <1>5, <2>1, ImageFinite
  <1>7. \A T \in F : IsFiniteSet(T)
    <2>1. ASSUME NEW p \in Pipelines PROVE IsFiniteSet({p} \X (1 .. Limit[p]))
      <3>1. PICK n \in Int : n = Limit[p]
        BY <1>1
      <3>2. IsFiniteSet(1 .. n)
        BY FS_Interval
      <3>3. IsFiniteSet({p})
        BY FS_Singleton
      <3> QED BY <3>1, <3>2, <3>3, FS_Product
    <2> QED BY <1>4, <1>5, <2>1
  <1>8. Keys = UNION F
    BY <1>4, <1>5 DEF Keys
  <1> QED BY <1>3, <1>6, <1>7, <1>8, FS_UNION

(* Finitely many revisions are remembered.                                  *)
LEMMA RememberedFinite ==
    ASSUME SlotInv PROVE IsFiniteSet(Remembered)
  <1>0. IsFiniteSet(Steps) /\ IsFiniteSet(Workers)
    BY AdmissionAssumption
  <1>1. IsFiniteSet({bucket[k] : k \in Keys})
    <2>1. PICK f : f = [k \in Keys |-> bucket[k]]
      OBVIOUS
    <2>2. f = [k \in Keys |-> f[k]] /\ {f[k] : k \in Keys} = {bucket[k] : k \in Keys}
      BY <2>1
    <2>3. IsFiniteSet({f[k] : k \in Keys})
      BY <2>2, KeysFinite, ImageFinite
    <2> QED BY <2>2, <2>3
  <1>2. IsFiniteSet(UNION {renewing[p] : p \in Schedulers})
    <2>1. PICK f : f = [p \in Schedulers |-> renewing[p]]
      OBVIOUS
    <2>2. f = [p \in Schedulers |-> f[p]] /\ {f[p] : p \in Schedulers} = {renewing[p] : p \in Schedulers}
      BY <2>1
    <2>3. IsFiniteSet({f[p] : p \in Schedulers})
      BY <2>2, KeysFinite, ImageFinite
    <2>4. \A T \in {renewing[p] : p \in Schedulers} : IsFiniteSet(T)
      BY DEF SlotInv, RenewGood
    <2> QED BY <2>2, <2>3, <2>4, FS_UNION
  <1>3. IsFiniteSet({work[w].slot.rev : w \in Workers})
    <2>1. PICK f : f = [w \in Workers |-> work[w].slot.rev]
      OBVIOUS
    <2>2. f = [w \in Workers |-> f[w]] /\ {f[w] : w \in Workers} = {work[w].slot.rev : w \in Workers}
      BY <2>1
    <2>3. IsFiniteSet({f[w] : w \in Workers})
      BY <1>0, <2>2, ImageFinite
    <2> QED BY <2>2, <2>3
  <1>4. IsFiniteSet(UNION {{held[p][s].rev : s \in Steps} : p \in Schedulers})
    <2>1. PICK f : f = [p \in Schedulers |-> {held[p][s].rev : s \in Steps}]
      OBVIOUS
    <2>2. f = [p \in Schedulers |-> f[p]]
      BY <2>1
    <2>3. IsFiniteSet({f[p] : p \in Schedulers})
      BY <2>2, KeysFinite, ImageFinite
    <2>4. ASSUME NEW p \in Schedulers PROVE IsFiniteSet(f[p])
      <3>1. PICK g : g = [s \in Steps |-> held[p][s].rev]
        OBVIOUS
      <3>2. g = [s \in Steps |-> g[s]] /\ {g[s] : s \in Steps} = f[p]
        BY <2>1, <3>1
      <3>3. IsFiniteSet({g[s] : s \in Steps})
        BY <1>0, <3>2, ImageFinite
      <3> QED BY <3>2, <3>3
    <2>5. IsFiniteSet(UNION {f[p] : p \in Schedulers})
      BY <2>3, <2>4, FS_UNION
    <2>6. UNION {f[p] : p \in Schedulers} = UNION {{held[p][s].rev : s \in Steps} : p \in Schedulers}
      BY <2>1
    <2> QED BY <2>5, <2>6
  <1>a. PICK A : A = {bucket[k] : k \in Keys}
    OBVIOUS
  <1>b. PICK B : B = UNION {renewing[p] : p \in Schedulers}
    OBVIOUS
  <1>c. PICK C : C = {work[w].slot.rev : w \in Workers}
    OBVIOUS
  <1>d. PICK D : D = UNION {{held[p][s].rev : s \in Steps} : p \in Schedulers}
    OBVIOUS
  <1>5. IsFiniteSet(A) /\ IsFiniteSet(B) /\ IsFiniteSet(C) /\ IsFiniteSet(D)
    BY <1>1, <1>2, <1>3, <1>4, <1>a, <1>b, <1>c, <1>d
  <1>6. IsFiniteSet(A \cup B)
    BY <1>5, FS_Union
  <1>7. IsFiniteSet((A \cup B) \cup C)
    BY <1>5, <1>6, FS_Union
  <1>8. IsFiniteSet(((A \cup B) \cup C) \cup D)
    BY <1>5, <1>7, FS_Union
  <1>9. Remembered = ((A \cup B) \cup C) \cup D
    BY <1>a, <1>b, <1>c, <1>d DEF Remembered
  <1> QED BY <1>8, <1>9

(* So there is a revision nobody remembers.                                 *)
LEMMA NewRevisionIsNew ==
    ASSUME SlotInv PROVE NewRevision \in Nat \ {0} /\ NewRevision \notin Remembered
  <1>r. PICK R : R = Remembered
    OBVIOUS
  <1>1. IsFiniteSet(R)
    BY <1>r, RememberedFinite
  <1>2. PICK c \in Nat : c = Cardinality(R)
    BY <1>1, FS_CardinalityType
  <1>3. \E n \in 1 .. c + 1 : n \notin R
    <2>1. SUFFICES ASSUME \A n \in 1 .. c + 1 : n \in R PROVE FALSE
      OBVIOUS
    <2>2. 1 .. c + 1 \in SUBSET R
      BY <2>1
    <2>3. Cardinality(1 .. c + 1) <= Cardinality(R)
      BY <1>1, <2>2, FS_Subset
    <2>4. PICK m \in Int : m = c + 1
      OBVIOUS
    <2>5. Cardinality(1 .. m) = IF 1 > m THEN 0 ELSE m - 1 + 1
      BY FS_Interval
    <2>6. Cardinality(1 .. c + 1) = c + 1
      BY <2>4, <2>5
    <2> QED BY <1>2, <2>3, <2>6
  <1>4. NewRevision = CHOOSE n \in 1 .. c + 1 : n \notin R
    BY <1>r, <1>2 DEF NewRevision
  <1>5. NewRevision \in 1 .. c + 1 /\ NewRevision \notin R
    BY <1>3, <1>4
  <1> QED BY <1>r, <1>5

(* What is new to everybody.                                                *)
LEMMA NewIsNobodys ==
    ASSUME SlotInv, NEW n, n \notin Remembered
    PROVE  /\ \A k \in Keys : bucket[k] # n
           /\ \A p \in Schedulers : n \notin renewing[p]
           /\ \A w \in Workers : work[w].slot.rev # n
           /\ \A p \in Schedulers, s \in Steps : held[p][s].rev # n
           /\ \A s \in Steps : covered[s] # 0 => covered[s] # n
  <1>1. /\ \A k \in Keys : bucket[k] # n
        /\ \A p \in Schedulers : n \notin renewing[p]
        /\ \A w \in Workers : work[w].slot.rev # n
        /\ \A p \in Schedulers, s \in Steps : held[p][s].rev # n
    BY DEF Remembered
  <1> QED BY <1>1 DEF SlotInv, CoverGood, Covers

LEMMA PlaneOfWorker == \A w \in Workers : PlaneOf[w] \in Schedulers
  BY DEF Schedulers

(* A slot that was created is in the hands of the worker alone.             *)
LEMMA SlotCreated ==
    ASSUME AdmissionIInv, NEW w \in Workers, NEW k \in Keys, NEW n \in Nat \ {0}, n \notin Remembered,
           bucket[k] = 0, work[w].pc = "acquire", NEW r, RecordGood(r), r.pc = "commit",
           r.slot = [key |-> k, rev |-> n], work' = [work EXCEPT ![w] = r],
           bucket' = [bucket EXCEPT ![k] = n],
           renewing' = [renewing EXCEPT ![PlaneOf[w]] = @ \cup {n}],
           UNCHANGED <<step, held, covered, missed>>
    PROVE  SlotInv'
  <1>p. PICK p \in Schedulers : p = PlaneOf[w]
    BY PlaneOfWorker
  <1>0. SlotInv /\ WorkersGood
    BY DEF AdmissionIInv
  <1>n. /\ \A l \in Keys : bucket[l] # n
        /\ \A q \in Schedulers : n \notin renewing[q]
        /\ \A v \in Workers : work[v].slot.rev # n
        /\ \A q \in Schedulers, s \in Steps : held[q][s].rev # n
        /\ \A s \in Steps : covered[s] # 0 => covered[s] # n
    BY <1>0, NewIsNobodys
  <1>1. work'[w] = r /\ \A v \in Workers : v # w => work'[v] = work[v]
    BY <1>0, WorkerMoves
  <1>2. work[w].slot.rev = 0 /\ work'[w].slot.rev = n /\ work'[w].pc = "commit"
    BY <1>0, <1>1, NoSlotFacts DEF WorkersGood, RecordGood, Slotted
  <1>t. SlotTypes
    BY <1>0 DEF SlotInv
  <1>3. bucket'[k] = n /\ \A l \in Keys : l # k => bucket'[l] = bucket[l]
    BY <1>t DEF SlotTypes
  <1>4. renewing'[p] = renewing[p] \cup {n} /\ \A q \in Schedulers : q # p => renewing'[q] = renewing[q]
    BY <1>p, <1>t DEF SlotTypes
  <1>5. SlotTypes'
    <2>1. bucket' \in [Keys -> Nat]
      BY <1>t DEF SlotTypes
    <2>2. renewing' \in [Schedulers -> SUBSET Nat]
      BY <1>t, <1>p DEF SlotTypes
    <2> QED BY <1>t, <2>1, <2>2 DEF SlotTypes
  <1>6. KeysDistinct'
    BY <1>0, <1>3, <1>n DEF SlotInv, KeysDistinct
  <1>7. SlotsDistinct'
    BY <1>0, <1>1, <1>2, <1>n DEF SlotInv, SlotsDistinct
  <1>8. CoverGood'
    <2>1. ASSUME NEW s \in Steps, covered'[s] # 0 PROVE Covers(s)'
      <3>1. Covers(s) /\ covered[s] # 0 /\ covered[s] # n
        BY <1>0, <1>n, <2>1 DEF SlotInv, CoverGood
      <3>2. \E l \in Keys : l[1] = Pipeline(s) /\ bucket'[l] = covered'[s]
        BY <1>3, <3>1 DEF Covers
      <3>3. \A v \in Workers :
              work'[v].slot.rev = covered'[s] => At(v, "hold")' /\ work'[v].item.step = s
        BY <1>1, <1>2, <3>1 DEF Covers, At
      <3>4. \A v \in Workers : At(v, "hold")' => At(v, "hold") /\ work'[v].item.step = work[v].item.step
        BY <1>1, <1>2 DEF At
      <3> QED BY <3>1, <3>2, <3>3, <3>4 DEF Covers
    <2> QED BY <2>1 DEF CoverGood
  <1>9. FlightGood'
    BY <1>0, <1>1, <1>2 DEF SlotInv, FlightGood, At
  <1>10. RenewGood'
    <2>1. \A q \in Schedulers : IsFiniteSet(renewing'[q]) /\ 0 \notin renewing'[q]
      <3>1. IsFiniteSet(renewing[p]) /\ 0 \notin renewing[p]
        BY <1>0 DEF SlotInv, RenewGood
      <3>2. IsFiniteSet(renewing[p] \cup {n})
        BY <3>1, FS_AddElement
      <3> QED BY <1>0, <1>4, <3>1, <3>2 DEF SlotInv, RenewGood
    <2>2. \A q, u \in Schedulers : q # u => renewing'[q] \cap renewing'[u] = {}
      BY <1>0, <1>4, <1>n DEF SlotInv, RenewGood
    <2>3. \A v \in Workers, q \in Schedulers : work'[v].slot.rev \in renewing'[q] => PlaneOf[v] = q
      BY <1>0, <1>p, <1>1, <1>2, <1>4, <1>n DEF SlotInv, RenewGood
    <2>4. \A q, u \in Schedulers, s \in Steps : held'[q][s].rev \in renewing'[u] => q = u
      BY <1>0, <1>4, <1>n DEF SlotInv, RenewGood
    <2> QED BY <2>1, <2>2, <2>3, <2>4 DEF RenewGood
  <1>11. RenewedForSomeone'
    <2>1. ASSUME NEW q \in Schedulers, NEW rev \in renewing'[q] \ missed'
          PROVE  (\E v \in Workers : work'[v].slot.rev = rev) \/ (\E s \in Steps : held'[q][s].rev = rev)
      <3>1. CASE rev = n
        BY <1>2, <3>1
      <3>2. CASE rev # n
        <4>1. rev \in renewing[q] \ missed /\ rev # 0
          BY <1>0, <1>4, <2>1, <3>2 DEF SlotInv, RenewGood
        <4>2. (\E v \in Workers : work[v].slot.rev = rev) \/ (\E s \in Steps : held[q][s].rev = rev)
          BY <1>0, <4>1 DEF SlotInv, RenewedForSomeone
        <4> QED BY <1>1, <1>2, <4>1, <4>2
      <3> QED BY <3>1, <3>2
    <2> QED BY <2>1 DEF RenewedForSomeone
  <1>12. SeenToLeave'
    <2>1. \A v \in Workers :
            At(v, "hold")' /\ step'[work'[v].item.step].phase # "out" =>
              work'[v].slot.rev \notin renewing'[PlaneOf[v]] \ missed'
      <3>1. ASSUME NEW v \in Workers, At(v, "hold")', step'[work'[v].item.step].phase # "out",
                   work'[v].slot.rev \in renewing'[PlaneOf[v]] \ missed'
            PROVE  FALSE
        <4>1. v # w /\ work'[v] = work[v]
          BY <1>1, <1>2, <3>1 DEF At
        <4>2. At(v, "hold") /\ step[work[v].item.step].phase # "out"
          BY <3>1, <4>1 DEF At
        <4>3. work[v].slot.rev \in renewing[PlaneOf[v]] \ missed
          BY <1>4, <1>n, <3>1, <4>1, PlaneOfWorker
        <4> QED BY <1>0, <4>2, <4>3 DEF SlotInv, SeenToLeave
      <3> QED BY <3>1
    <2>2. ASSUME NEW q \in Schedulers, NEW s \in Steps, held'[q][s].rev \in renewing'[q] \ missed',
                 step'[s].phase # "out"
          PROVE  \E v \in Workers : At(v, "release")' /\ work'[v].item.step = s /\ PlaneOf[v] = q
      <3>1. held[q][s].rev \in renewing[q] \ missed /\ step[s].phase # "out"
        BY <1>4, <1>n, <2>2
      <3>2. PICK v \in Workers : At(v, "release") /\ work[v].item.step = s /\ PlaneOf[v] = q
        BY <1>0, <3>1 DEF SlotInv, SeenToLeave
      <3> QED BY <1>1, <3>2 DEF At
    <2> QED BY <2>1, <2>2 DEF SeenToLeave
  <1> QED BY <1>5, <1>6, <1>7, <1>8, <1>9, <1>10, <1>11, <1>12 DEF SlotInv

LEMMA AcquireKeeps ==
    ASSUME AdmissionIInv, NEW w \in Workers, Acquire(w) PROVE AdmissionIInv'
  <1>0. work[w].pc = "acquire" /\ RecordGood(work[w]) /\ SlotInv
    BY DEF Acquire, At, AdmissionIInv, WorkersGood
  <1>1. UNCHANGED <<step, covered, missed, queue, pending, stranded>> /\ LogTypes'
    BY DEF Acquire, log, waiting, history, AdmissionIInv, LogTypes
  <1>k. PICK k : k = <<Pipeline(work[w].item.step), work[w].index>>
    OBVIOUS
  <1>2. CASE NextItem(w) /\ UNCHANGED slots
    <2>1. PICK r : /\ RecordGood(r) /\ work' = [work EXCEPT ![w] = r] /\ r.batch = work[w].batch
                   /\ r.pc \in {"idle", "take"} /\ CarriedItems(r) = ToSet(work[w].batch)
                   /\ r.slot = NoSlot
      BY <1>2, NextItemGood
    <2>2. \A i \in CarriedItems(r) : Fresh(i, step)
      BY <2>1, InHandIsFresh
    <2>3. work[w].pc \notin Slotted \cup {"release"} /\ r.pc \notin Slotted \cup {"release"}
      BY <1>0, <2>1 DEF Slotted
    <2>4. UNCHANGED <<bucket, renewing, held>>
      BY <1>2 DEF slots
    <2> QED BY <1>1, <2>1, <2>2, <2>3, <2>4, QuietStep
  <1>3. CASE Become(w, [work[w] EXCEPT !.index = @ + 1]) /\ UNCHANGED slots
    <2>r. PICK r : r = [work[w] EXCEPT !.index = @ + 1]
      OBVIOUS
    <2>1. work' = [work EXCEPT ![w] = r]
      BY <1>3, <2>r DEF Become
    <2>2. /\ r \in WorkSet /\ r.pc = "acquire" /\ r.todo = work[w].todo /\ r.batch = work[w].batch
          /\ r.item = work[w].item /\ r.slot = work[w].slot
      <3>1. work[w].index + 1 \in Nat
        BY <1>0 DEF RecordGood, WorkSet
      <3> QED BY <1>0, <2>r, <3>1 DEF RecordGood, WorkSet
    <2>3. RecordGood(r)
      BY <1>0, <2>2 DEF RecordGood, Slotted, Carrying, Outside
    <2>4. \A i \in CarriedItems(r) : Fresh(i, step)
      BY <1>0, <2>2 DEF CarriedItems, AdmissionIInv, ItemsFresh
    <2>5. work[w].pc \notin Slotted \cup {"release"} /\ r.pc \notin Slotted \cup {"release"}
      BY <1>0, <2>2 DEF Slotted
    <2>6. UNCHANGED <<bucket, renewing, held>>
      BY <1>3 DEF slots
    <2> QED BY <1>1, <2>1, <2>2, <2>3, <2>4, <2>5, <2>6, QuietStep
  <1>4. CASE /\ k \in Keys /\ bucket[k] = 0 /\ bucket' = [bucket EXCEPT ![k] = NewRevision]
             /\ renewing' = [renewing EXCEPT ![PlaneOf[w]] = @ \cup {NewRevision}]
             /\ Become(w, [work[w] EXCEPT !.pc = "commit", !.index = 0,
                                          !.slot = [key |-> k, rev |-> NewRevision]])
             /\ UNCHANGED held
    <2>n. PICK n \in Nat \ {0} : n = NewRevision /\ n \notin Remembered
      BY <1>0, NewRevisionIsNew
    <2>s. PICK slot : slot = [key |-> k, rev |-> n]
      OBVIOUS
    <2>r. PICK r : r = [work[w] EXCEPT !.pc = "commit", !.index = 0, !.slot = slot]
      OBVIOUS
    <2>1. work' = [work EXCEPT ![w] = r]
      BY <1>4, <2>n, <2>s, <2>r DEF Become
    <2>2. /\ slot \in [key : Keys, rev : Nat \ {0}] /\ slot \in SlotSet
          /\ slot.key[1] = Pipeline(work[w].item.step) /\ slot.rev = n
      BY <1>k, <1>4, <2>s DEF SlotSet
    <2>3. /\ r \in WorkSet /\ r.pc = "commit" /\ r.todo = work[w].todo /\ r.batch = work[w].batch
          /\ r.item = work[w].item /\ r.slot = slot
      <3>1. "commit" \in Places /\ 0 \in Nat
        BY DEF Places
      <3> QED BY <1>0, <2>2, <2>r, <3>1 DEF RecordGood, WorkSet
    <2>4. RecordGood(r)
      BY <1>0, <2>2, <2>3 DEF RecordGood, Slotted, Carrying, Outside
    <2>5. \A i \in CarriedItems(r) : Fresh(i, step)
      BY <1>0, <2>3 DEF CarriedItems, AdmissionIInv, ItemsFresh
    <2>6. WorkersGood' /\ work'[w] = r /\ \A v \in Workers : v # w => work'[v] = work[v]
      BY <2>1, <2>4, WorkerMoves DEF AdmissionIInv
    <2>7. SlotInv'
      BY <1>0, <1>1, <1>4, <2>n, <2>s, <2>1, <2>3, <2>4, SlotCreated
    <2>8. PendInv'
      BY <1>1, <2>3, <2>6, BatchesKept DEF AdmissionIInv
    <2>9. ItemsFresh'
      BY <1>1, <2>1, <2>4, <2>5, FreshKept DEF AdmissionIInv
    <2> QED BY <1>1, <2>6, <2>7, <2>8, <2>9 DEF AdmissionIInv
  <1> QED BY <1>k, <1>2, <1>3, <1>4 DEF Acquire

-----------------------------------------------------------------------------
(* Items stay fresh while the log moves on.                                 *)
LEMMA StillFresh ==
    ASSUME AdmissionIInv, \A v \in Workers : CarriedItems(work'[v]) \subseteq CarriedItems(work[v]),
           \A p \in Schedulers : QueueItems(queue'[p]) \subseteq QueueItems(queue[p]),
           \A i \in Items : Fresh(i, step) => Fresh(i, step')
    PROVE  ItemsFresh'
  <1>1. \A v \in Workers : CarriedItems(work[v]) \subseteq Items
    <2>1. ASSUME NEW v \in Workers PROVE CarriedItems(work[v]) \subseteq Items
      <3>1. RecordGood(work[v]) /\ work[v].todo \subseteq Items /\ work[v].batch \in Seq(Items)
        BY RecordFacts DEF AdmissionIInv, WorkersGood
      <3>2. ToSet(work[v].batch) \subseteq Items
        BY <3>1 DEF ToSet
      <3> QED BY <3>1, <3>2 DEF CarriedItems, RecordGood, Carrying
    <2> QED BY <2>1
  <1>2. \A p \in Schedulers : QueueItems(queue[p]) \subseteq Items
    <2>1. ASSUME NEW p \in Schedulers, NEW t \in Tenants PROVE ToSet(queue[p].items[t]) \subseteq Items
      <3>1. queue[p].items[t] \in Seq(Items)
        BY DEF AdmissionIInv, PendInv, Marked, QueueGood, Queues
      <3> QED BY <3>1 DEF ToSet
    <2> QED BY <2>1 DEF QueueItems
  <1> QED BY <1>1, <1>2 DEF AdmissionIInv, ItemsFresh

(* Releasing a slot that is no step's: its key may go, and no other.        *)
LEMMA Released ==
    ASSUME SlotInv, NEW p \in Schedulers, NEW x \in SlotSet, ReleaseSlot(p, x),
           \A s \in Steps : covered[s] # 0 => covered[s] # x.rev
    PROVE  /\ bucket' \in [Keys -> Nat] /\ renewing' \in [Schedulers -> SUBSET Nat]
           /\ \A k \in Keys : bucket'[k] = bucket[k] \/ bucket'[k] = 0
           /\ \A k \in Keys, s \in Steps : covered[s] # 0 /\ bucket[k] = covered[s] => bucket'[k] = bucket[k]
           /\ renewing'[p] = renewing[p] \ {x.rev}
           /\ \A q \in Schedulers : q # p => renewing'[q] = renewing[q]
           /\ \A q \in Schedulers : IsFiniteSet(renewing'[q])
           /\ KeysDistinct'
  <1>t. SlotTypes
    BY DEF SlotInv
  <1>1. bucket' = [k \in Keys |-> IF k = x.key /\ bucket[k] = x.rev THEN 0 ELSE bucket[k]]
    BY DEF ReleaseSlot
  <1>2. bucket' \in [Keys -> Nat]
    BY <1>t, <1>1 DEF SlotTypes
  <1>3. renewing' \in [Schedulers -> SUBSET Nat] /\ renewing'[p] = renewing[p] \ {x.rev}
        /\ \A q \in Schedulers : q # p => renewing'[q] = renewing[q]
    BY <1>t DEF SlotTypes, ReleaseSlot
  <1>4. \A q \in Schedulers : IsFiniteSet(renewing'[q])
    <2>1. \A q \in Schedulers : IsFiniteSet(renewing[q])
      BY DEF SlotInv, RenewGood
    <2>2. renewing[p] \ {x.rev} \in SUBSET renewing[p]
      OBVIOUS
    <2>3. IsFiniteSet(renewing[p] \ {x.rev})
      BY <2>1, <2>2, FS_Subset
    <2> QED BY <1>3, <2>1, <2>3
  <1>5. KeysDistinct'
    BY <1>1 DEF SlotInv, KeysDistinct
  <1> QED BY <1>1, <1>2, <1>3, <1>4, <1>5

(* A dispatch that does not commit gives its slot back.                     *)
LEMMA GivesBack ==
    ASSUME AdmissionIInv, NEW w \in Workers, work[w].pc \in {"count", "commit"},
           NEW r, RecordGood(r), r.pc \in {"idle", "take"}, work' = [work EXCEPT ![w] = r],
           ReleaseSlot(PlaneOf[w], work[w].slot), UNCHANGED <<step, held, covered, missed>>
    PROVE  SlotInv'
  <1>p. PICK p \in Schedulers : p = PlaneOf[w]
    BY PlaneOfWorker
  <1>0. SlotInv /\ WorkersGood /\ RecordGood(work[w])
    BY DEF AdmissionIInv, WorkersGood
  <1>x. PICK x \in SlotSet : x = work[w].slot
    BY <1>0, RecordFacts
  <1>c. \A s \in Steps : covered[s] # 0 => covered[s] # x.rev
    BY <1>0, <1>x DEF SlotInv, CoverGood, Covers, At
  <1>1. work'[w] = r /\ \A v \in Workers : v # w => work'[v] = work[v]
    BY <1>0, WorkerMoves
  <1>2. work'[w].slot.rev = 0 /\ work'[w].pc \notin {"hold", "release"} /\ work[w].pc \notin {"hold", "release"}
    BY <1>1, NoSlotFacts DEF RecordGood, Slotted
  <1>3. /\ bucket' \in [Keys -> Nat] /\ renewing' \in [Schedulers -> SUBSET Nat]
        /\ \A k \in Keys : bucket'[k] = bucket[k] \/ bucket'[k] = 0
        /\ \A k \in Keys, s \in Steps : covered[s] # 0 /\ bucket[k] = covered[s] => bucket'[k] = bucket[k]
        /\ renewing'[p] = renewing[p] \ {x.rev}
        /\ \A q \in Schedulers : q # p => renewing'[q] = renewing[q]
        /\ \A q \in Schedulers : IsFiniteSet(renewing'[q])
        /\ KeysDistinct'
    BY <1>0, <1>p, <1>x, <1>c, Released
  <1>4. \A q \in Schedulers : renewing'[q] \subseteq renewing[q]
    BY <1>3
  <1>5. SlotTypes' /\ KeysDistinct'
    BY <1>0, <1>3 DEF SlotInv, SlotTypes
  <1>7. SlotsDistinct'
    BY <1>0, <1>1, <1>2 DEF SlotInv, SlotsDistinct
  <1>8. CoverGood'
    <2>1. ASSUME NEW s \in Steps, covered'[s] # 0 PROVE Covers(s)'
      <3>1. Covers(s) /\ covered[s] # 0
        BY <1>0, <2>1 DEF SlotInv, CoverGood
      <3>2. \E l \in Keys : l[1] = Pipeline(s) /\ bucket'[l] = covered'[s]
        BY <1>3, <3>1 DEF Covers
      <3>3. \A v \in Workers :
              work'[v].slot.rev = covered'[s] => At(v, "hold")' /\ work'[v].item.step = s
        BY <1>1, <1>2, <3>1 DEF Covers, At
      <3>4. \A v \in Workers : At(v, "hold")' => At(v, "hold") /\ work'[v].item.step = work[v].item.step
        BY <1>1, <1>2 DEF At
      <3> QED BY <3>1, <3>2, <3>3, <3>4 DEF Covers
    <2> QED BY <2>1 DEF CoverGood
  <1>9. FlightGood'
    BY <1>0, <1>1, <1>2 DEF SlotInv, FlightGood, At
  <1>10. RenewGood'
    <2>1. \A q \in Schedulers : 0 \notin renewing'[q]
      BY <1>0, <1>4 DEF SlotInv, RenewGood
    <2>2. \A q, u \in Schedulers : q # u => renewing'[q] \cap renewing'[u] = {}
      BY <1>0, <1>4 DEF SlotInv, RenewGood
    <2>3. \A v \in Workers, q \in Schedulers : work'[v].slot.rev \in renewing'[q] => PlaneOf[v] = q
      BY <1>0, <1>1, <1>2, <1>4, <2>1 DEF SlotInv, RenewGood
    <2>4. \A q, u \in Schedulers, s \in Steps : held'[q][s].rev \in renewing'[u] => q = u
      BY <1>0, <1>4 DEF SlotInv, RenewGood
    <2> QED BY <1>3, <2>1, <2>2, <2>3, <2>4 DEF RenewGood
  <1>11. RenewedForSomeone'
    <2>1. ASSUME NEW q \in Schedulers, NEW rev \in renewing'[q] \ missed'
          PROVE  (\E v \in Workers : work'[v].slot.rev = rev) \/ (\E s \in Steps : held'[q][s].rev = rev)
      <3>1. rev \in renewing[q] \ missed
        BY <1>4, <2>1
      <3>2. (\E v \in Workers : work[v].slot.rev = rev) \/ (\E s \in Steps : held[q][s].rev = rev)
        BY <1>0, <3>1 DEF SlotInv, RenewedForSomeone
      <3>3. CASE work[w].slot.rev = rev
        <4>1. p = q
          BY <1>0, <1>p, <3>1, <3>3 DEF SlotInv, RenewGood
        <4> QED BY <1>3, <1>x, <2>1, <3>3, <4>1
      <3> QED BY <1>1, <3>2, <3>3
    <2> QED BY <2>1 DEF RenewedForSomeone
  <1>12. SeenToLeave'
    <2>1. \A v \in Workers :
            At(v, "hold")' /\ step'[work'[v].item.step].phase # "out" =>
              work'[v].slot.rev \notin renewing'[PlaneOf[v]] \ missed'
      <3>1. ASSUME NEW v \in Workers, At(v, "hold")', step'[work'[v].item.step].phase # "out",
                   work'[v].slot.rev \in renewing'[PlaneOf[v]] \ missed'
            PROVE  FALSE
        <4>1. v # w /\ work'[v] = work[v]
          BY <1>1, <1>2, <3>1 DEF At
        <4>2. At(v, "hold") /\ step[work[v].item.step].phase # "out"
          BY <3>1, <4>1 DEF At
        <4>3. work[v].slot.rev \in renewing[PlaneOf[v]] \ missed
          BY <1>4, <3>1, <4>1, PlaneOfWorker
        <4> QED BY <1>0, <4>2, <4>3 DEF SlotInv, SeenToLeave
      <3> QED BY <3>1
    <2>2. ASSUME NEW q \in Schedulers, NEW s \in Steps, held'[q][s].rev \in renewing'[q] \ missed',
                 step'[s].phase # "out"
          PROVE  \E v \in Workers : At(v, "release")' /\ work'[v].item.step = s /\ PlaneOf[v] = q
      <3>1. held[q][s].rev \in renewing[q] \ missed /\ step[s].phase # "out"
        BY <1>4, <2>2
      <3>2. PICK v \in Workers : At(v, "release") /\ work[v].item.step = s /\ PlaneOf[v] = q
        BY <1>0, <3>1 DEF SlotInv, SeenToLeave
      <3> QED BY <1>1, <1>2, <3>2 DEF At
    <2> QED BY <2>1, <2>2 DEF SeenToLeave
  <1> QED BY <1>5, <1>7, <1>8, <1>9, <1>10, <1>11, <1>12 DEF SlotInv

LEMMA NotOursKeeps ==
    ASSUME AdmissionIInv, NEW w \in Workers, NotOurs(w) PROVE AdmissionIInv'
  <1>0. work[w].pc = "commit" /\ NextItem(w) /\ ReleaseSlot(PlaneOf[w], work[w].slot)
    BY DEF NotOurs, At
  <1>1. UNCHANGED <<step, held, covered, missed, queue, pending, stranded>> /\ LogTypes'
    BY DEF NotOurs, log, waiting, history, AdmissionIInv, LogTypes
  <1>2. PICK r : /\ RecordGood(r) /\ work' = [work EXCEPT ![w] = r] /\ r.batch = work[w].batch
                 /\ r.pc \in {"idle", "take"} /\ CarriedItems(r) = ToSet(work[w].batch)
                 /\ r.slot = NoSlot
    BY <1>0, NextItemGood
  <1>3. \A i \in CarriedItems(r) : Fresh(i, step)
    BY <1>2, InHandIsFresh
  <1>4. SlotInv'
    BY <1>0, <1>1, <1>2, GivesBack
  <1>5. WorkersGood' /\ work'[w] = r /\ \A v \in Workers : v # w => work'[v] = work[v]
    BY <1>2, WorkerMoves DEF AdmissionIInv
  <1>6. PendInv'
    BY <1>1, <1>2, <1>5, BatchesKept DEF AdmissionIInv
  <1>7. ItemsFresh'
    BY <1>1, <1>2, <1>3, FreshKept DEF AdmissionIInv
  <1> QED BY <1>1, <1>4, <1>5, <1>6, <1>7 DEF AdmissionIInv

-----------------------------------------------------------------------------
(* The commit: the attempt is the next of a ready step, so nobody else has  *)
(* it in hand, and its slot becomes the step's.                             *)
LEMMA CommitSlots ==
    ASSUME AdmissionIInv, NEW w \in Workers, work[w].pc = "commit", NEW s \in Steps, s = work[w].item.step,
           step[s].phase = "ready", NEW c \in {0, work[w].slot.rev},
           c # 0 => bucket[work[w].slot.key] = c,
           NEW e, step' = [step EXCEPT ![s] = e], e.phase = "out",
           covered' = [covered EXCEPT ![s] = c],
           NEW r, RecordGood(r), r.pc = "hold", r.item = work[w].item, r.slot = work[w].slot,
           work' = [work EXCEPT ![w] = r],
           UNCHANGED <<bucket, renewing, held, missed>>
    PROVE  SlotInv'
  <1>0. SlotInv /\ WorkersGood /\ RecordGood(work[w]) /\ LogTypes
    BY DEF AdmissionIInv, WorkersGood
  <1>x. PICK x \in [key : Keys, rev : Nat \ {0}] : x = work[w].slot /\ x.key[1] = Pipeline(s)
    BY <1>0 DEF RecordGood, Slotted
  <1>1. work'[w] = r /\ \A v \in Workers : v # w => work'[v] = work[v]
    BY <1>0, WorkerMoves
  <1>2. \A v \in Workers : work'[v].slot = work[v].slot /\ work'[v].item = work[v].item
    BY <1>1
  <1>3. work'[w].pc = "hold" /\ \A v \in Workers : v # w => work'[v].pc = work[v].pc
    BY <1>1
  <1>4. step'[s].phase = "out" /\ \A y \in Steps : y # s => step'[y] = step[y]
    BY <1>0 DEF LogTypes
  <1>5. covered'[s] = c /\ \A y \in Steps : y # s => covered'[y] = covered[y]
    BY <1>0 DEF SlotInv, SlotTypes
  <1>6. SlotTypes' /\ KeysDistinct'
    BY <1>0, <1>x DEF SlotInv, SlotTypes, KeysDistinct
  <1>7. SlotsDistinct'
    BY <1>0, <1>2 DEF SlotInv, SlotsDistinct
  <1>8. \A v \in Workers : work[v].pc \in {"hold", "release"} => work[v].item.step # s
    BY <1>0 DEF SlotInv, FlightGood, At
  <1>9. \A y \in Steps : covered[y] # 0 => y # s /\ covered[y] # x.rev
    BY <1>0, <1>x DEF SlotInv, CoverGood, Covers, At
  <1>10. CoverGood'
    <2>1. ASSUME NEW y \in Steps, y # s, covered'[y] # 0 PROVE Covers(y)'
      <3>1. Covers(y) /\ covered[y] # 0 /\ covered[y] # x.rev /\ covered'[y] = covered[y]
        BY <1>0, <1>5, <1>9, <2>1 DEF SlotInv, CoverGood
      <3>2. step'[y].phase = "out"
        BY <1>4, <2>1, <3>1 DEF Covers
      <3>3. \A z \in Steps : covered'[z] = covered'[y] => z = y
        BY <1>5, <1>x, <3>1 DEF Covers
      <3>4. \A v \in Workers :
              work'[v].slot.rev = covered'[y] => At(v, "hold")' /\ work'[v].item.step = y
        BY <1>2, <1>3, <3>1, <1>x DEF Covers, At
      <3>5. \A q \in Schedulers, z \in Steps :
              held'[q][z].rev = covered'[y] =>
                 z = y /\ \A v \in Workers : At(v, "hold")' => work'[v].item.step # y
        BY <1>2, <1>3, <2>1, <3>1 DEF Covers, At
      <3> QED BY <3>1, <3>2, <3>3, <3>4, <3>5 DEF Covers
    <2>2. ASSUME covered'[s] # 0 PROVE Covers(s)'
      <3>1. c = x.rev /\ covered'[s] = c /\ c # 0
        BY <1>5, <1>x, <2>2
      <3>2. \E k \in Keys : k[1] = Pipeline(s) /\ bucket'[k] = covered'[s]
        BY <1>x, <3>1
      <3>3. \A z \in Steps : covered'[z] = covered'[s] => z = s
        BY <1>5, <1>9, <3>1
      <3>4. \A v \in Workers :
              work'[v].slot.rev = covered'[s] => At(v, "hold")' /\ work'[v].item.step = s
        BY <1>0, <1>2, <1>3, <1>x, <3>1 DEF SlotInv, SlotsDistinct, At
      <3>5. \A q \in Schedulers, z \in Steps : held'[q][z].rev # covered'[s]
        BY <1>0, <1>x, <3>1 DEF SlotInv, SlotsDistinct
      <3> QED BY <1>4, <3>2, <3>3, <3>4, <3>5 DEF Covers
    <2> QED BY <2>1, <2>2 DEF CoverGood
  <1>11. FlightGood'
    <2>1. \A v \in Workers : At(v, "hold")' => step'[work'[v].item.step].phase # "ready"
      <3>1. ASSUME NEW v \in Workers, work'[v].pc = "hold" PROVE step'[work'[v].item.step].phase # "ready"
        <4>1. CASE v = w
          BY <1>2, <1>4, <4>1
        <4>2. CASE v # w
          <5>1. work[v].pc = "hold" /\ RecordGood(work[v])
            BY <1>0, <1>3, <3>1, <4>2 DEF WorkersGood
          <5>2. work[v].item.step \in Steps
            BY <5>1 DEF RecordGood, Carrying, Items
          <5> QED BY <1>0, <1>2, <1>4, <1>8, <5>1, <5>2 DEF SlotInv, FlightGood, At
        <4> QED BY <4>1, <4>2
      <3> QED BY <3>1 DEF At
    <2>2. \A v \in Workers : At(v, "release")' => step'[work'[v].item.step].phase \in {"resting", "done"}
      <3>1. ASSUME NEW v \in Workers, work'[v].pc = "release"
            PROVE  step'[work'[v].item.step].phase \in {"resting", "done"}
        <4>1. v # w /\ work[v].pc = "release" /\ RecordGood(work[v])
          BY <1>0, <1>3, <3>1 DEF WorkersGood
        <4>2. work[v].item.step \in Steps
          BY <4>1 DEF RecordGood, Carrying, Items
        <4> QED BY <1>0, <1>2, <1>4, <1>8, <4>1, <4>2 DEF SlotInv, FlightGood, At
      <3> QED BY <3>1 DEF At
    <2>3. \A u, v \in Workers :
            At(u, "hold")' /\ At(v, "hold")' /\ work'[u].item.step = work'[v].item.step => u = v
      BY <1>0, <1>2, <1>3, <1>8 DEF SlotInv, FlightGood, At
    <2> QED BY <2>1, <2>2, <2>3 DEF FlightGood
  <1>12. RenewGood'
    BY <1>0, <1>2 DEF SlotInv, RenewGood
  <1>13. RenewedForSomeone'
    BY <1>0, <1>2 DEF SlotInv, RenewedForSomeone
  <1>14. SeenToLeave'
    <2>1. ASSUME NEW v \in Workers, work'[v].pc = "hold", step'[work'[v].item.step].phase # "out"
          PROVE  work'[v].slot.rev \notin renewing'[PlaneOf[v]] \ missed'
      <3>1. v # w
        BY <1>2, <1>4, <2>1
      <3>2. work[v].pc = "hold" /\ RecordGood(work[v])
        BY <1>0, <1>3, <2>1, <3>1 DEF WorkersGood
      <3>3. work[v].item.step \in Steps /\ work[v].item.step # s
        BY <1>8, <3>2 DEF RecordGood, Carrying, Items
      <3>4. step[work[v].item.step].phase # "out"
        BY <1>2, <1>4, <2>1, <3>3
      <3> QED BY <1>0, <1>2, <3>2, <3>4 DEF SlotInv, SeenToLeave, At
    <2>2. ASSUME NEW q \in Schedulers, NEW y \in Steps, held'[q][y].rev \in renewing'[q] \ missed',
                 step'[y].phase # "out"
          PROVE  \E v \in Workers : At(v, "release")' /\ work'[v].item.step = y /\ PlaneOf[v] = q
      <3>1. y # s /\ step[y].phase # "out"
        BY <1>4, <2>2
      <3>2. PICK v \in Workers : At(v, "release") /\ work[v].item.step = y /\ PlaneOf[v] = q
        BY <1>0, <2>2, <3>1 DEF SlotInv, SeenToLeave
      <3> QED BY <1>1, <3>2 DEF At
    <2> QED BY <2>1, <2>2 DEF SeenToLeave, At
  <1> QED BY <1>6, <1>7, <1>10, <1>11, <1>12, <1>13, <1>14 DEF SlotInv

LEMMA CommitKeeps ==
    ASSUME AdmissionIInv, NEW w \in Workers, Commit(w) PROVE AdmissionIInv'
  <1>0. work[w].pc = "commit" /\ RecordGood(work[w]) /\ LogTypes /\ SlotInv /\ WorkersGood
    BY DEF Commit, At, AdmissionIInv, WorkersGood
  <1>i. PICK i \in Items : i = work[w].item
    BY <1>0 DEF RecordGood, Carrying
  <1>s. PICK s \in Steps : s = i.step
    BY DEF Items
  <1>a. PICK a \in Nat : a = i.attempt
    BY DEF Items
  <1>b. PICK b \in Nat : b = step[s].attempt
    BY <1>0 DEF LogTypes
  <1>1. /\ b < a
        /\ step' = [step EXCEPT ![s] = [phase |-> "out", attempt |-> a]]
        /\ covered' = [covered EXCEPT ![s] =
              IF bucket[work[w].slot.key] = work[w].slot.rev THEN work[w].slot.rev ELSE 0]
    BY <1>i, <1>s, <1>a, <1>b DEF Commit
  <1>2. UNCHANGED <<counted, created, closed, bucket, renewing, held, queue, pending, stranded, missed, admissionFaults>>
    BY DEF Commit, slots, waiting
  <1>3. a <= b + 1 /\ (step[s].phase # "ready" => a <= b)
    BY <1>0, <1>i, <1>s, <1>a, <1>b, InHandIsFresh DEF Fresh
  <1>4. a = b + 1 /\ step[s].phase = "ready"
    BY <1>1, <1>3
  <1>e. PICK e : e = [phase |-> "out", attempt |-> a]
    OBVIOUS
  <1>5. step' = [step EXCEPT ![s] = e] /\ e.phase = "out" /\ e.attempt = a
    BY <1>1, <1>e
  <1>r. PICK r : r = [work[w] EXCEPT !.pc = "hold"]
    OBVIOUS
  <1>6. work' = [work EXCEPT ![w] = r]
    BY <1>r DEF Commit, Goto, Become
  <1>7. /\ r \in WorkSet /\ r.pc = "hold" /\ r.todo = work[w].todo /\ r.batch = work[w].batch
        /\ r.item = work[w].item /\ r.slot = work[w].slot
    <2>1. "hold" \in Places
      BY DEF Places
    <2> QED BY <1>0, <1>r, <2>1 DEF RecordGood, WorkSet
  <1>8. RecordGood(r)
    BY <1>0, <1>7 DEF RecordGood, Slotted, Carrying, Outside
  <1>9. WorkersGood' /\ work'[w] = r /\ \A v \in Workers : v # w => work'[v] = work[v]
    BY <1>0, <1>6, <1>8, WorkerMoves
  <1>10. SlotInv'
    <2>c. PICK c : c = IF bucket[work[w].slot.key] = work[w].slot.rev THEN work[w].slot.rev ELSE 0
      OBVIOUS
    <2>1. c \in {0, work[w].slot.rev} /\ (c # 0 => bucket[work[w].slot.key] = c)
      BY <2>c
    <2>2. covered' = [covered EXCEPT ![s] = c]
      BY <1>1, <2>c
    <2>3. s = work[w].item.step
      BY <1>i, <1>s
    <2> QED BY <1>0, <1>2, <1>4, <1>5, <1>6, <1>7, <1>8, <2>1, <2>2, <2>3, CommitSlots
  <1>11. LogTypes'
    <2>1. e \in [phase : {"ready", "out", "resting", "done"}, attempt : Nat]
      BY <1>e
    <2>2. step' \in [Steps -> [phase : {"ready", "out", "resting", "done"}, attempt : Nat]]
      BY <1>0, <1>5, <2>1 DEF LogTypes
    <2>3. \A y \in Steps : step'[y].phase # "ready" => step'[y].attempt # 0
      BY <1>0, <1>4, <1>5 DEF LogTypes
    <2> QED BY <1>0, <1>2, <2>2, <2>3 DEF LogTypes
  <1>12. PendInv'
    BY <1>2, <1>7, <1>9, BatchesKept DEF AdmissionIInv
  <1>13. ItemsFresh'
    <2>1. \A v \in Workers : CarriedItems(work'[v]) \subseteq CarriedItems(work[v])
      BY <1>0, <1>7, <1>9 DEF CarriedItems
    <2>2. ASSUME NEW j \in Items, Fresh(j, step) PROVE Fresh(j, step')
      <3>1. CASE j.step = s
        <4>1. step'[j.step].attempt = a
          BY <1>0, <1>5, <3>1 DEF LogTypes
        <4>2. j.attempt <= b + 1 /\ j.attempt \in Nat
          BY <1>b, <2>2, <3>1 DEF Fresh, Items
        <4> QED BY <1>4, <4>1, <4>2 DEF Fresh
      <3>2. CASE j.step # s
        <4>1. step'[j.step] = step[j.step]
          BY <1>0, <1>5, <3>2 DEF LogTypes, Items
        <4> QED BY <2>2, <4>1 DEF Fresh
      <3> QED BY <3>1, <3>2
    <2> QED BY <1>2, <2>1, <2>2, StillFresh
  <1> QED BY <1>9, <1>10, <1>11, <1>12, <1>13 DEF AdmissionIInv

-----------------------------------------------------------------------------
(* What a plane holds for a step goes back, and what the worker has in hand *)
(* takes its place: hold with a slot, releaseHold with none.                *)
LEMMA HeldChanges ==
    ASSUME AdmissionIInv, NEW w \in Workers, work[w].pc \in {"hold", "release"},
           NEW s \in Steps, s = work[w].item.step, NEW p \in Schedulers, p = PlaneOf[w],
           ReleaseSlot(p, held[p][s]), held' = [held EXCEPT ![p][s] = work[w].slot],
           missed' = missed \ {held[p][s].rev},
           NEW r, RecordGood(r), r.pc \notin {"commit", "hold", "release"}, work' = [work EXCEPT ![w] = r],
           UNCHANGED <<step, covered>>
    PROVE  SlotInv'
  <1>0. SlotInv /\ WorkersGood /\ RecordGood(work[w]) /\ SlotTypes
    BY DEF AdmissionIInv, WorkersGood, SlotInv
  <1>x. PICK x \in SlotSet : x = held[p][s]
    BY <1>0 DEF SlotTypes
  <1>y. PICK y \in SlotSet : y = work[w].slot /\ (work[w].pc = "release" => y.rev = 0)
    BY <1>0, RecordFacts, NoSlotFacts DEF RecordGood, Slotted
  <1>c. \A z \in Steps : covered[z] # 0 => covered[z] # x.rev
    <2>1. ASSUME NEW z \in Steps, covered[z] # 0, covered[z] = x.rev PROVE FALSE
      <3>1. Covers(z)
        BY <1>0, <2>1 DEF SlotInv, CoverGood
      <3>2. z = s /\ step[s].phase = "out" /\ \A v \in Workers : At(v, "hold") => work[v].item.step # s
        BY <1>x, <2>1, <3>1 DEF Covers
      <3>3. work[w].pc = "release"
        BY <3>2 DEF At
      <3> QED BY <1>0, <3>2, <3>3 DEF SlotInv, FlightGood, At
    <2> QED BY <2>1
  <1>1. work'[w] = r /\ \A v \in Workers : v # w => work'[v] = work[v]
    BY <1>0, WorkerMoves
  <1>2. work'[w].slot.rev = 0 /\ work'[w].pc \notin {"hold", "release"}
    BY <1>1, NoSlotFacts DEF RecordGood, Slotted
  <1>3. /\ bucket' \in [Keys -> Nat] /\ renewing' \in [Schedulers -> SUBSET Nat]
        /\ \A k \in Keys : bucket'[k] = bucket[k] \/ bucket'[k] = 0
        /\ \A k \in Keys, z \in Steps : covered[z] # 0 /\ bucket[k] = covered[z] => bucket'[k] = bucket[k]
        /\ renewing'[p] = renewing[p] \ {x.rev}
        /\ \A q \in Schedulers : q # p => renewing'[q] = renewing[q]
        /\ \A q \in Schedulers : IsFiniteSet(renewing'[q])
        /\ KeysDistinct'
    BY <1>0, <1>x, <1>c, Released
  <1>4. \A q \in Schedulers : renewing'[q] \subseteq renewing[q]
    BY <1>3
  <1>h. /\ held' \in [Schedulers -> [Steps -> SlotSet]] /\ held'[p][s] = y
        /\ \A q \in Schedulers, z \in Steps : q # p \/ z # s => held'[q][z] = held[q][z]
    BY <1>0, <1>y DEF SlotTypes
  <1>5. SlotTypes' /\ KeysDistinct'
    BY <1>0, <1>3, <1>h DEF SlotTypes
  <1>6. SlotsDistinct'
    <2>1. \A u, v \in Workers : work'[u].slot.rev # 0 /\ work'[u].slot.rev = work'[v].slot.rev => u = v
      BY <1>0, <1>1, <1>2 DEF SlotInv, SlotsDistinct
    <2>2. \A v \in Workers, q \in Schedulers, z \in Steps :
            work'[v].slot.rev # 0 => work'[v].slot.rev # held'[q][z].rev
      BY <1>0, <1>1, <1>2, <1>h, <1>y DEF SlotInv, SlotsDistinct
    <2>3. \A q, u \in Schedulers, z, t \in Steps :
            held'[q][z].rev # 0 /\ held'[q][z].rev = held'[u][t].rev => q = u /\ z = t
      <3>1. ASSUME NEW q \in Schedulers, NEW z \in Steps, q # p \/ z # s, held'[q][z].rev # 0
            PROVE  held'[q][z].rev # y.rev
        BY <1>0, <1>h, <1>y, <3>1 DEF SlotInv, SlotsDistinct
      <3> QED BY <1>0, <1>h, <3>1, SMTT(60) DEF SlotInv, SlotsDistinct
    <2> QED BY <2>1, <2>2, <2>3 DEF SlotsDistinct
  <1>7. CoverGood'
    <2>1. ASSUME NEW z \in Steps, covered'[z] # 0 PROVE Covers(z)'
      <3>1. Covers(z) /\ covered[z] # 0
        BY <1>0, <2>1 DEF SlotInv, CoverGood
      <3>2. \E l \in Keys : l[1] = Pipeline(z) /\ bucket'[l] = covered'[z]
        BY <1>3, <3>1 DEF Covers
      <3>3. \A v \in Workers :
              work'[v].slot.rev = covered'[z] => At(v, "hold")' /\ work'[v].item.step = z
        BY <1>1, <1>2, <3>1 DEF Covers, At
      <3>4. \A v \in Workers : At(v, "hold")' => v # w /\ At(v, "hold") /\ work'[v].item.step = work[v].item.step
        BY <1>1, <1>2 DEF At
      <3>5. ASSUME NEW q \in Schedulers, NEW t \in Steps, held'[q][t].rev = covered'[z]
            PROVE  t = z /\ \A v \in Workers : At(v, "hold")' => work'[v].item.step # z
        <4>1. CASE q = p /\ t = s
          <5>1. work[w].slot.rev = covered[z]
            BY <1>h, <1>y, <3>5, <4>1
          <5>2. At(w, "hold") /\ s = z
            BY <3>1, <5>1 DEF Covers
          <5>3. \A v \in Workers : At(v, "hold") /\ work[v].item.step = s => v = w
            BY <1>0, <5>2 DEF SlotInv, FlightGood
          <5> QED BY <3>4, <4>1, <5>2, <5>3
        <4>2. CASE q # p \/ t # s
          <5>1. held[q][t].rev = covered[z]
            BY <1>h, <3>5, <4>2
          <5> QED BY <3>1, <3>4, <5>1 DEF Covers
        <4> QED BY <4>1, <4>2
      <3> QED BY <3>1, <3>2, <3>3, <3>5 DEF Covers
    <2> QED BY <2>1 DEF CoverGood
  <1>8. FlightGood'
    BY <1>0, <1>1, <1>2, SMTT(60) DEF SlotInv, FlightGood, At
  <1>9. \A q \in Schedulers : renewing'[q] \ missed' \subseteq renewing[q] \ missed
    <2>1. ASSUME NEW q \in Schedulers, NEW rev \in renewing'[q] \ missed', rev \in missed PROVE FALSE
      <3>1. rev = x.rev /\ rev \in renewing[q]
        BY <1>4, <1>x, <2>1
      <3>2. q # p
        BY <1>3, <2>1, <3>1
      <3> QED BY <1>0, <1>x, <3>1, <3>2 DEF SlotInv, RenewGood
    <2> QED BY <1>4, <2>1
  <1>10. RenewGood'
    <2>1. \A q \in Schedulers : 0 \notin renewing'[q]
      BY <1>0, <1>4 DEF SlotInv, RenewGood
    <2>2. \A q, u \in Schedulers : q # u => renewing'[q] \cap renewing'[u] = {}
      BY <1>0, <1>4 DEF SlotInv, RenewGood
    <2>3. \A v \in Workers, q \in Schedulers : work'[v].slot.rev \in renewing'[q] => PlaneOf[v] = q
      BY <1>0, <1>1, <1>2, <1>4, <2>1 DEF SlotInv, RenewGood
    <2>4. ASSUME NEW q \in Schedulers, NEW u \in Schedulers, NEW z \in Steps, held'[q][z].rev \in renewing'[u]
          PROVE  q = u
      <3>1. CASE q = p /\ z = s
        <4>1. work[w].slot.rev \in renewing[u]
          BY <1>4, <1>h, <1>y, <2>4, <3>1
        <4> QED BY <1>0, <3>1, <4>1 DEF SlotInv, RenewGood
      <3>2. CASE q # p \/ z # s
        BY <1>0, <1>4, <1>h, <2>4, <3>2 DEF SlotInv, RenewGood
      <3> QED BY <3>1, <3>2
    <2> QED BY <1>3, <2>1, <2>2, <2>3, <2>4 DEF RenewGood
  <1>11. RenewedForSomeone'
    <2>1. ASSUME NEW q \in Schedulers, NEW rev \in renewing'[q] \ missed'
          PROVE  (\E v \in Workers : work'[v].slot.rev = rev) \/ (\E z \in Steps : held'[q][z].rev = rev)
      <3>1. rev \in renewing[q] \ missed
        BY <1>9, <2>1
      <3>2. (\E v \in Workers : work[v].slot.rev = rev) \/ (\E z \in Steps : held[q][z].rev = rev)
        BY <1>0, <3>1 DEF SlotInv, RenewedForSomeone
      <3>3. CASE work[w].slot.rev = rev
        <4>1. p = q
          BY <1>0, <3>1, <3>3 DEF SlotInv, RenewGood
        <4> QED BY <1>h, <1>y, <3>3, <4>1
      <3>4. ASSUME NEW v \in Workers, v # w, work[v].slot.rev = rev PROVE \E u \in Workers : work'[u].slot.rev = rev
        BY <1>1, <3>4
      <3>5. ASSUME NEW z \in Steps, held[q][z].rev = rev PROVE held'[q][z].rev = rev
        <4>1. q # p \/ z # s
          BY <1>3, <1>x, <2>1, <3>5
        <4> QED BY <1>h, <3>5, <4>1
      <3> QED BY <3>2, <3>3, <3>4, <3>5
    <2> QED BY <2>1 DEF RenewedForSomeone
  <1>12. SeenToLeave'
    <2>1. ASSUME NEW v \in Workers, At(v, "hold")', step'[work'[v].item.step].phase # "out",
                 work'[v].slot.rev \in renewing'[PlaneOf[v]] \ missed'
          PROVE  FALSE
      <3>1. v # w /\ work'[v] = work[v]
        BY <1>1, <1>2, <2>1 DEF At
      <3>2. At(v, "hold") /\ step[work[v].item.step].phase # "out"
        BY <2>1, <3>1 DEF At
      <3>3. work[v].slot.rev \in renewing[PlaneOf[v]] \ missed
        BY <1>9, <2>1, <3>1, PlaneOfWorker
      <3> QED BY <1>0, <3>2, <3>3 DEF SlotInv, SeenToLeave
    <2>2. ASSUME NEW q \in Schedulers, NEW z \in Steps, held'[q][z].rev \in renewing'[q] \ missed',
                 step'[z].phase # "out"
          PROVE  \E v \in Workers : At(v, "release")' /\ work'[v].item.step = z /\ PlaneOf[v] = q
      <3>0. held'[q][z].rev \in renewing[q] \ missed /\ 0 \notin renewing[q] /\ step[z].phase # "out"
        <4>1. held'[q][z].rev \in renewing[q] \ missed
          BY <1>9, <2>2
        <4>2. 0 \notin renewing[q]
          BY <1>0 DEF SlotInv, RenewGood
        <4> QED BY <2>2, <4>1, <4>2
      <3>1. CASE q = p /\ z = s
        <4>1. y.rev \in renewing[p] \ missed /\ y.rev # 0
          BY <1>h, <3>0, <3>1
        <4>2. work[w].pc = "hold"
          BY <1>y, <4>1
        <4> QED BY <1>0, <1>y, <3>0, <3>1, <4>1, <4>2 DEF SlotInv, SeenToLeave, At
      <3>2. CASE q # p \/ z # s
        <4>1. held[q][z].rev \in renewing[q] \ missed
          BY <1>h, <3>0, <3>2
        <4>2. PICK v \in Workers : At(v, "release") /\ work[v].item.step = z /\ PlaneOf[v] = q
          BY <1>0, <3>0, <4>1 DEF SlotInv, SeenToLeave
        <4>3. v # w
          BY <3>2, <4>2
        <4> QED BY <1>1, <4>2, <4>3 DEF At
      <3> QED BY <3>1, <3>2
    <2>3. \A v \in Workers : At(v, "hold")' /\ step'[work'[v].item.step].phase # "out" =>
              work'[v].slot.rev \notin renewing'[PlaneOf[v]] \ missed'
      BY <2>1
    <2>4. \A q \in Schedulers, z \in Steps :
            held'[q][z].rev \in renewing'[q] \ missed' /\ step'[z].phase # "out" =>
              \E v \in Workers : At(v, "release")' /\ work'[v].item.step = z /\ PlaneOf[v] = q
      BY ONLY <2>2
    <2> QED BY ONLY <2>3, <2>4 DEF SeenToLeave
  <1> QED BY <1>5, <1>6, <1>7, <1>8, <1>10, <1>11, <1>12 DEF SlotInv

LEMMA HoldKeeps ==
    ASSUME AdmissionIInv, NEW w \in Workers, Hold(w) PROVE AdmissionIInv'
  <1>0. work[w].pc = "hold" /\ NextItem(w) /\ RecordGood(work[w])
    BY DEF Hold, At, AdmissionIInv, WorkersGood
  <1>s. PICK s \in Steps : s = work[w].item.step
    BY <1>0 DEF RecordGood, Carrying, Items
  <1>p. PICK p \in Schedulers : p = PlaneOf[w]
    BY PlaneOfWorker
  <1>1. /\ ReleaseSlot(p, held[p][s]) /\ held' = [held EXCEPT ![p][s] = work[w].slot]
        /\ missed' = missed \ {held[p][s].rev}
    BY <1>s, <1>p DEF Hold
  <1>2. UNCHANGED <<step, covered, queue, pending, stranded>> /\ LogTypes'
    BY DEF Hold, log, waiting, AdmissionIInv, LogTypes
  <1>3. PICK r : /\ RecordGood(r) /\ work' = [work EXCEPT ![w] = r] /\ r.batch = work[w].batch
                 /\ r.pc \in {"idle", "take"} /\ CarriedItems(r) = ToSet(work[w].batch)
                 /\ r.slot = NoSlot
    BY <1>0, NextItemGood
  <1>4. \A i \in CarriedItems(r) : Fresh(i, step)
    BY <1>3, InHandIsFresh
  <1>5. SlotInv'
    <2>1. r.pc \notin {"commit", "hold", "release"} /\ work[w].pc \in {"hold", "release"}
      BY <1>0, <1>3
    <2> QED BY <1>s, <1>p, <1>1, <1>2, <1>3, <2>1, HeldChanges
  <1>6. WorkersGood' /\ work'[w] = r /\ \A v \in Workers : v # w => work'[v] = work[v]
    BY <1>3, WorkerMoves DEF AdmissionIInv
  <1>7. PendInv'
    BY <1>2, <1>3, <1>6, BatchesKept DEF AdmissionIInv
  <1>8. ItemsFresh'
    BY <1>2, <1>3, <1>4, FreshKept DEF AdmissionIInv
  <1> QED BY <1>2, <1>5, <1>6, <1>7, <1>8 DEF AdmissionIInv

LEMMA ReleaseHoldKeeps ==
    ASSUME AdmissionIInv, NEW w \in Workers, ReleaseHold(w) PROVE AdmissionIInv'
  <1>0. /\ work[w].pc = "release" /\ RecordGood(work[w]) /\ Plan(w, RunOf[work[w].item.step])
        /\ work[w].slot = NoSlot /\ work[w].batch = <<>>
    BY DEF ReleaseHold, At, AdmissionIInv, WorkersGood, RecordGood, Slotted, Outside
  <1>s. PICK s \in Steps : s = work[w].item.step
    BY <1>0 DEF RecordGood, Carrying, Items
  <1>p. PICK p \in Schedulers : p = PlaneOf[w]
    BY PlaneOfWorker
  <1>1. /\ ReleaseSlot(p, held[p][s]) /\ held' = [held EXCEPT ![p][s] = work[w].slot]
        /\ missed' = missed \ {held[p][s].rev}
    BY <1>0, <1>s, <1>p DEF ReleaseHold
  <1>2. UNCHANGED <<step, covered, queue, pending, stranded>> /\ LogTypes'
    BY DEF ReleaseHold, log, waiting, AdmissionIInv, LogTypes
  <1>3. PICK r : /\ RecordGood(r) /\ work' = [work EXCEPT ![w] = r] /\ r.batch = <<>>
                 /\ r.pc \in {"idle", "enqueue"} /\ \A i \in CarriedItems(r) : Fresh(i, step)
    BY <1>0, PlanGood
  <1>5. SlotInv'
    <2>1. r.pc \notin {"commit", "hold", "release"} /\ work[w].pc \in {"hold", "release"}
      BY <1>0, <1>3
    <2> QED BY <1>s, <1>p, <1>1, <1>2, <1>3, <2>1, HeldChanges
  <1>6. WorkersGood' /\ work'[w] = r /\ \A v \in Workers : v # w => work'[v] = work[v]
    BY <1>3, WorkerMoves DEF AdmissionIInv
  <1>7. PendInv'
    BY <1>0, <1>2, <1>3, <1>6, BatchesKept DEF AdmissionIInv
  <1>8. ItemsFresh'
    BY <1>2, <1>3, FreshKept DEF AdmissionIInv
  <1> QED BY <1>2, <1>5, <1>6, <1>7, <1>8 DEF AdmissionIInv

-----------------------------------------------------------------------------
(* A step leaves flight. Planes of here are about to release what they hold *)
(* for it, and what is out of their reach is missed.                        *)
OnlyReleases(here, s) ==
    /\ \A v \in Workers : work'[v].slot = work[v].slot
    /\ \A v \in Workers : (work'[v].pc = "hold") <=> (work[v].pc = "hold")
    /\ \A v \in Workers : work[v].pc \in {"hold", "release"} => work'[v] = work[v]
    /\ \A v \in Workers : work'[v].pc = "release" => work'[v] = work[v] \/ work'[v].item.step = s
    /\ \A q \in here : \E v \in Workers : work'[v].pc = "release" /\ work'[v].item.step = s /\ PlaneOf[v] = q

(* A step leaves flight: its slots are in reach, or missed.                 *)
LEMMA LeavesSlots ==
    ASSUME AdmissionIInv, NEW s \in Steps, NEW here, OnlyReleases(here, s),
           NEW phase \in {"resting", "done"}, step[s].phase = "out",
           step' = [step EXCEPT ![s].phase = phase], covered' = [covered EXCEPT ![s] = 0],
           missed' = missed \cup OutOfReach(here, s), UNCHANGED <<bucket, renewing, held>>
    PROVE  SlotInv'
  <1>0. SlotInv /\ WorkersGood /\ SlotTypes /\ LogTypes
    BY DEF AdmissionIInv, WorkersGood, SlotInv
  <1>1. step'[s].phase = phase /\ \A y \in Steps : y # s => step'[y] = step[y]
    BY <1>0 DEF LogTypes
  <1>2. covered'[s] = 0 /\ \A y \in Steps : y # s => covered'[y] = covered[y]
    BY <1>0 DEF SlotTypes
  <1>w. /\ \A v \in Workers : work'[v].slot = work[v].slot
        /\ \A v \in Workers : (work'[v].pc = "hold") <=> (work[v].pc = "hold")
        /\ \A v \in Workers : work[v].pc \in {"hold", "release"} => work'[v] = work[v]
        /\ \A v \in Workers : work'[v].pc = "release" => work'[v] = work[v] \/ work'[v].item.step = s
    BY DEF OnlyReleases
  <1>i. \A v \in Workers : work[v].pc \in {"hold", "release"} => work[v].item.step \in Steps
    BY <1>0 DEF WorkersGood, RecordGood, Carrying, Items
  <1>3. SlotTypes' /\ KeysDistinct'
    <2>1. OutOfReach(here, s) \subseteq Nat
      BY <1>0 DEF OutOfReach, SlotTypes
    <2> QED BY <1>0, <2>1 DEF SlotInv, SlotTypes, KeysDistinct
  <1>4. SlotsDistinct'
    BY <1>0, <1>w DEF SlotInv, SlotsDistinct
  <1>5. CoverGood'
    <2>1. ASSUME NEW z \in Steps, covered'[z] # 0 PROVE Covers(z)'
      <3>1. z # s /\ covered'[z] = covered[z] /\ Covers(z) /\ covered[z] # 0
        BY <1>0, <1>2, <2>1 DEF SlotInv, CoverGood
      <3>2. step'[z].phase = "out"
        BY <1>1, <3>1 DEF Covers
      <3>3. \A y \in Steps : covered'[y] = covered'[z] => y = z
        BY <1>2, <3>1 DEF Covers
      <3>4. \A v \in Workers :
              work'[v].slot.rev = covered'[z] => At(v, "hold")' /\ work'[v].item.step = z
        BY <1>w, <3>1 DEF Covers, At
      <3>5. \A q \in Schedulers, y \in Steps :
              held'[q][y].rev = covered'[z] =>
                 y = z /\ \A v \in Workers : At(v, "hold")' => work'[v].item.step # z
        BY <1>w, <3>1 DEF Covers, At
      <3> QED BY <3>1, <3>2, <3>3, <3>4, <3>5 DEF Covers
    <2> QED BY <2>1 DEF CoverGood
  <1>6. FlightGood'
    <2>1. ASSUME NEW v \in Workers, work'[v].pc = "hold" PROVE step'[work'[v].item.step].phase # "ready"
      <3>1. work[v].pc = "hold" /\ work'[v] = work[v] /\ work[v].item.step \in Steps
        BY <1>w, <1>i, <2>1
      <3> QED BY <1>0, <1>1, <3>1 DEF SlotInv, FlightGood, At
    <2>2. ASSUME NEW v \in Workers, work'[v].pc = "release"
          PROVE  step'[work'[v].item.step].phase \in {"resting", "done"}
      <3>1. CASE work'[v] = work[v]
        <4>1. work[v].pc = "release" /\ work[v].item.step \in Steps
          BY <1>i, <2>2, <3>1
        <4> QED BY <1>0, <1>1, <3>1, <4>1 DEF SlotInv, FlightGood, At
      <3>2. CASE work'[v].item.step = s
        BY <1>1, <3>2
      <3> QED BY <1>w, <2>2, <3>1, <3>2
    <2>3. \A u, v \in Workers :
            At(u, "hold")' /\ At(v, "hold")' /\ work'[u].item.step = work'[v].item.step => u = v
      BY <1>0, <1>w DEF SlotInv, FlightGood, At
    <2> QED BY <2>1, <2>2, <2>3 DEF FlightGood, At
  <1>7. RenewGood'
    BY <1>0, <1>w DEF SlotInv, RenewGood
  <1>8. RenewedForSomeone'
    BY <1>0, <1>w DEF SlotInv, RenewedForSomeone
  <1>9. SeenToLeave'
    <2>1. ASSUME NEW v \in Workers, work'[v].pc = "hold", step'[work'[v].item.step].phase # "out",
                 work'[v].slot.rev \in renewing'[PlaneOf[v]] \ missed'
          PROVE  FALSE
      <3>1. work[v].pc = "hold" /\ work'[v] = work[v] /\ work[v].item.step \in Steps
        BY <1>w, <1>i, <2>1
      <3>2. CASE work[v].item.step = s
        <4>1. work[v].slot.rev \in Unheld(s)
          BY <3>1, <3>2 DEF Unheld, At
        <4>2. work[v].slot.rev \in UNION {renewing[x] : x \in Schedulers}
          BY <2>1, <3>1, PlaneOfWorker
        <4> QED BY <2>1, <3>1, <4>1, <4>2 DEF OutOfReach
      <3>3. CASE work[v].item.step # s
        <4>1. step[work[v].item.step].phase # "out" /\ work[v].slot.rev \in renewing[PlaneOf[v]] \ missed
          BY <1>1, <2>1, <3>1, <3>3
        <4> QED BY <1>0, <3>1, <4>1 DEF SlotInv, SeenToLeave, At
      <3> QED BY <3>2, <3>3
    <2>2. ASSUME NEW q \in Schedulers, NEW z \in Steps, held'[q][z].rev \in renewing'[q] \ missed',
                 step'[z].phase # "out"
          PROVE  \E v \in Workers : work'[v].pc = "release" /\ work'[v].item.step = z /\ PlaneOf[v] = q
      <3>0. held[q][z].rev \in renewing[q] \ missed /\ held[q][z].rev \notin OutOfReach(here, s)
        BY <2>2
      <3>1. CASE z = s
        <4>1. held[q][s].rev \in UNION {renewing[x] : x \in Schedulers}
          BY <3>0, <3>1
        <4>2. q \in here
          BY <3>0, <3>1, <4>1 DEF OutOfReach
        <4> QED BY <3>1, <4>2 DEF OnlyReleases
      <3>2. CASE z # s
        <4>1. step[z].phase # "out"
          BY <1>1, <2>2, <3>2
        <4>2. PICK v \in Workers : work[v].pc = "release" /\ work[v].item.step = z /\ PlaneOf[v] = q
          BY <1>0, <3>0, <4>1 DEF SlotInv, SeenToLeave, At
        <4> QED BY <1>w, <4>2
      <3> QED BY <3>1, <3>2
    <2>3. \A v \in Workers : At(v, "hold")' /\ step'[work'[v].item.step].phase # "out" =>
              work'[v].slot.rev \notin renewing'[PlaneOf[v]] \ missed'
      BY <2>1 DEF At
    <2>4. \A q \in Schedulers, z \in Steps :
            held'[q][z].rev \in renewing'[q] \ missed' /\ step'[z].phase # "out" =>
              \E v \in Workers : At(v, "release")' /\ work'[v].item.step = z /\ PlaneOf[v] = q
      BY ONLY <2>2 DEF At
    <2> QED BY ONLY <2>3, <2>4 DEF SeenToLeave
  <1> QED BY <1>3, <1>4, <1>5, <1>6, <1>7, <1>8, <1>9 DEF SlotInv

(* The log of a step that leaves flight.                                    *)
LEMMA LeavesLog ==
    ASSUME AdmissionIInv, NEW s \in Steps, step[s].phase # "ready", NEW phase \in {"resting", "done"},
           step' = [step EXCEPT ![s].phase = phase], UNCHANGED <<counted, created, closed, admissionFaults>>
    PROVE  LogTypes' /\ \A i \in Items : Fresh(i, step) => Fresh(i, step')
  <1>0. LogTypes
    BY DEF AdmissionIInv
  <1>1. /\ step'[s].phase = phase /\ step'[s].attempt = step[s].attempt
        /\ \A y \in Steps : y # s => step'[y] = step[y]
    BY <1>0 DEF LogTypes
  <1>2. step' \in [Steps -> [phase : {"ready", "out", "resting", "done"}, attempt : Nat]]
    BY <1>0 DEF LogTypes
  <1>3. \A y \in Steps : step'[y].phase # "ready" => step'[y].attempt # 0
    BY <1>0, <1>1 DEF LogTypes
  <1>4. LogTypes'
    BY <1>0, <1>2, <1>3 DEF LogTypes
  <1>5. ASSUME NEW i \in Items, Fresh(i, step) PROVE Fresh(i, step')
    <2>1. i.step \in Steps
      BY DEF Items
    <2> QED BY <1>1, <1>5, <2>1 DEF Fresh
  <1> QED BY <1>4, <1>5

(* The record of a worker about to release what its plane holds.            *)
ReleaseRecord(s) == [IdleWork EXCEPT !.pc = "release", !.item = [step |-> s, attempt |-> step[s].attempt]]

(* The worker that will release the slots of a step.                        *)
LEMMA ReleaseRecordGood ==
    ASSUME LogTypes, NEW s \in Steps, step[s].phase # "ready"
    PROVE  /\ RecordGood(ReleaseRecord(s)) /\ ReleaseRecord(s).pc = "release"
           /\ ReleaseRecord(s).item.step = s /\ ReleaseRecord(s).batch = <<>>
           /\ ReleaseRecord(s).slot = NoSlot /\ CarriedItems(ReleaseRecord(s)) = {}
  <1>i. PICK i : i = [step |-> s, attempt |-> step[s].attempt]
    OBVIOUS
  <1>1. i \in Items /\ i.step = s
    BY <1>i DEF Items, LogTypes
  <1>r. PICK r : r = ReleaseRecord(s)
    OBVIOUS
  <1>2. r = [pc |-> "release", run |-> 0, todo |-> {}, batch |-> <<>>, item |-> i,
             index |-> 0, slot |-> NoSlot]
    BY <1>i, <1>r DEF ReleaseRecord, IdleWork
  <1>3. /\ r \in WorkSet /\ r.pc = "release" /\ r.todo = {} /\ r.batch = <<>> /\ r.slot = NoSlot
        /\ r.item = i
    <2>1. /\ "release" \in Places /\ 0 \in Runs \cup {0} /\ {} \in SUBSET Items
          /\ <<>> \in Seq(Items) /\ i \in Items \cup {NoItem} /\ 0 \in Nat /\ NoSlot \in SlotSet
      BY <1>1, NoSlotFacts, EmptyList DEF Places
    <2> QED BY <1>2, <2>1 DEF WorkSet
  <1>4. RecordGood(r)
    BY <1>1, <1>3 DEF RecordGood, Slotted, Carrying, Outside
  <1>5. CarriedItems(r) = {}
    BY <1>3, EmptyList DEF CarriedItems
  <1> QED BY <1>r, <1>1, <1>3, <1>4, <1>5

LEMMA LeaveKeeps ==
    ASSUME AdmissionIInv, NEW w \in Workers, NEW s \in Steps, Leave(w, s) PROVE AdmissionIInv'
  <1>0. work[w].pc = "idle" /\ step[s].phase = "out" /\ work[w].slot = NoSlot /\ work[w].batch = <<>>
    BY Outsider DEF Leave, At, Outside
  <1>r. PICK r : r = ReleaseRecord(s)
    OBVIOUS
  <1>1. work' = [work EXCEPT ![w] = r]
    BY <1>r DEF Leave, Become, ReleaseRecord
  <1>2. /\ RecordGood(r) /\ r.pc = "release" /\ r.item.step = s /\ r.batch = <<>>
        /\ r.slot = NoSlot /\ CarriedItems(r) = {}
    BY <1>0, <1>r, ReleaseRecordGood DEF AdmissionIInv
  <1>3. PICK phase \in {"resting", "done"} : step' = [step EXCEPT ![s].phase = phase]
    BY DEF Leave, Verdict
  <1>4. covered' = [covered EXCEPT ![s] = 0] /\ missed' = missed \cup OutOfReach({PlaneOf[w]}, s)
    BY DEF Leave
  <1>5. UNCHANGED <<counted, created, closed, bucket, renewing, held, queue, pending, admissionFaults, stranded>>
    BY DEF Leave, slots, waiting
  <1>6. WorkersGood' /\ work'[w] = r /\ \A v \in Workers : v # w => work'[v] = work[v]
    BY <1>1, <1>2, WorkerMoves DEF AdmissionIInv
  <1>7. OnlyReleases({PlaneOf[w]}, s)
    BY <1>0, <1>2, <1>6 DEF OnlyReleases
  <1>8. SlotInv'
    BY <1>0, <1>3, <1>4, <1>5, <1>7, LeavesSlots
  <1>9. LogTypes' /\ \A i \in Items : Fresh(i, step) => Fresh(i, step')
    BY <1>0, <1>3, <1>5, LeavesLog
  <1>10. PendInv'
    BY <1>0, <1>2, <1>5, <1>6, BatchesKept DEF AdmissionIInv
  <1>11. ItemsFresh'
    BY <1>2, <1>5, <1>6, <1>9, StillFresh
  <1> QED BY <1>6, <1>8, <1>9, <1>10, <1>11 DEF AdmissionIInv

(* A step leaves flight, and nobody releases anything.                      *)
LEMMA LeavesUnseen ==
    ASSUME AdmissionIInv, NEW s \in Steps, step[s].phase = "out", NEW phase \in {"resting", "done"},
           step' = [step EXCEPT ![s].phase = phase], covered' = [covered EXCEPT ![s] = 0],
           missed' = missed \cup OutOfReach({}, s),
           UNCHANGED <<counted, created, closed, slots, waiting, work, admissionFaults, stranded>>
    PROVE  AdmissionIInv'
  <1>1. UNCHANGED <<counted, created, closed, bucket, renewing, held, queue, pending, work, admissionFaults, stranded>>
    BY DEF slots, waiting
  <1>2. OnlyReleases({}, s)
    BY <1>1 DEF OnlyReleases
  <1>3. SlotInv'
    BY <1>1, <1>2, LeavesSlots
  <1>4. LogTypes' /\ \A i \in Items : Fresh(i, step) => Fresh(i, step')
    BY <1>1, LeavesLog
  <1>5. PendInv'
    BY <1>1, BatchesKept DEF AdmissionIInv
  <1>6. ItemsFresh'
    BY <1>1, <1>4, StillFresh
  <1>7. WorkersGood'
    BY <1>1 DEF AdmissionIInv, WorkersGood
  <1> QED BY <1>3, <1>4, <1>5, <1>6, <1>7 DEF AdmissionIInv

LEMMA LeaveElsewhereKeeps ==
    ASSUME AdmissionIInv, NEW s \in Steps, LeaveElsewhere(s) PROVE AdmissionIInv'
  <1>1. PICK phase \in {"resting", "done"} : step' = [step EXCEPT ![s].phase = phase]
    BY DEF LeaveElsewhere, Verdict
  <1> QED BY <1>1, LeavesUnseen DEF LeaveElsewhere

LEMMA OrphanOfClosedKeeps ==
    ASSUME AdmissionIInv, NEW w \in Workers, NEW s \in Steps, OrphanOfClosed(w, s) PROVE AdmissionIInv'
  <1>1. "done" \in {"resting", "done"} /\ step' = [step EXCEPT ![s].phase = "done"]
    BY DEF OrphanOfClosed
  <1> QED BY <1>1, LeavesUnseen DEF OrphanOfClosed

LEMMA RedeliveredKeeps ==
    ASSUME AdmissionIInv, NEW w \in Workers, NEW s \in Steps, Redelivered(w, s) PROVE AdmissionIInv'
  <1>0. work[w].pc = "idle" /\ work[w].slot = NoSlot /\ work[w].batch = <<>>
    BY Outsider DEF Redelivered, At, Outside
  <1>a. step[s].phase \in {"resting", "done"} /\ SlotInv /\ WorkersGood /\ LogTypes
    BY DEF Redelivered, AdmissionIInv
  <1>r. PICK r : r = ReleaseRecord(s)
    OBVIOUS
  <1>1. work' = [work EXCEPT ![w] = r]
    BY <1>r DEF Redelivered, Become, ReleaseRecord
  <1>2. /\ RecordGood(r) /\ r.pc = "release" /\ r.item.step = s /\ r.batch = <<>>
        /\ r.slot = NoSlot /\ CarriedItems(r) = {}
    BY <1>a, <1>r, ReleaseRecordGood
  <1>5. /\ UNCHANGED <<counted, created, closed, step, bucket, renewing, held, queue, pending>>
        /\ UNCHANGED <<covered, stranded, missed>> /\ Fault
    BY DEF Redelivered, log, slots, waiting, history
  <1>6. WorkersGood' /\ work'[w] = r /\ \A v \in Workers : v # w => work'[v] = work[v]
    BY <1>1, <1>2, WorkerMoves DEF AdmissionIInv
  <1>7. LogTypes'
    BY <1>a, <1>5, FaultCounted DEF LogTypes
  <1>w. /\ \A v \in Workers : work'[v].slot = work[v].slot
        /\ \A v \in Workers : (work'[v].pc = "hold") <=> (work[v].pc = "hold")
        /\ \A v \in Workers : work[v].pc \in {"hold", "release"} => work'[v] = work[v]
        /\ \A v \in Workers : work'[v].pc = "release" => work'[v] = work[v] \/ work'[v].item.step = s
    BY <1>0, <1>2, <1>6
  <1>8. SlotInv'
    <2>1. SlotTypes' /\ KeysDistinct'
      BY <1>a, <1>5 DEF SlotInv, SlotTypes, KeysDistinct
    <2>2. SlotsDistinct'
      BY <1>a, <1>5, <1>w DEF SlotInv, SlotsDistinct
    <2>3. CoverGood'
      <3>1. ASSUME NEW z \in Steps, covered'[z] # 0 PROVE Covers(z)'
        <4>1. Covers(z)
          BY <1>a, <1>5, <3>1 DEF SlotInv, CoverGood
        <4> QED BY <1>5, <1>w, <4>1 DEF Covers, At
      <3> QED BY <3>1 DEF CoverGood
    <2>4. FlightGood'
      BY <1>a, <1>5, <1>w DEF SlotInv, FlightGood, At
    <2>5. RenewGood'
      BY <1>a, <1>5, <1>w DEF SlotInv, RenewGood
    <2>6. RenewedForSomeone'
      BY <1>a, <1>5, <1>w DEF SlotInv, RenewedForSomeone
    <2>7. SeenToLeave'
      BY <1>a, <1>5, <1>w DEF SlotInv, SeenToLeave, At
    <2> QED BY <2>1, <2>2, <2>3, <2>4, <2>5, <2>6, <2>7 DEF SlotInv
  <1>10. PendInv'
    BY <1>0, <1>2, <1>5, <1>6, BatchesKept DEF AdmissionIInv
  <1>11. ItemsFresh'
    BY <1>1, <1>2, <1>5, FreshKept DEF AdmissionIInv
  <1> QED BY <1>6, <1>7, <1>8, <1>10, <1>11 DEF AdmissionIInv

(* The backoff runs out.                                                    *)
LEMMA ElapseKeeps ==
    ASSUME AdmissionIInv, NEW s \in Steps, Elapse(s) PROVE AdmissionIInv'
  <1>a. step[s].phase = "resting" /\ SlotInv /\ WorkersGood /\ LogTypes
    BY DEF Elapse, AdmissionIInv
  <1>b. \A v \in Workers : work[v].pc \in {"hold", "release"} => work[v].item.step # s
    BY DEF Elapse
  <1>1. step' = [step EXCEPT ![s].phase = "ready"]
    BY DEF Elapse
  <1>2. UNCHANGED <<counted, created, closed, bucket, renewing, held, queue, pending, work, admissionFaults, covered, stranded, missed>>
    BY DEF Elapse, slots, waiting, history
  <1>3. /\ step'[s].phase = "ready" /\ step'[s].attempt = step[s].attempt
        /\ \A y \in Steps : y # s => step'[y] = step[y]
    BY <1>a, <1>1 DEF LogTypes
  <1>4. LogTypes'
    <2>1. step' \in [Steps -> [phase : {"ready", "out", "resting", "done"}, attempt : Nat]]
      BY <1>a, <1>1 DEF LogTypes
    <2>2. \A y \in Steps : step'[y].phase # "ready" => step'[y].attempt # 0
      BY <1>a, <1>3 DEF LogTypes
    <2> QED BY <1>a, <1>2, <2>1, <2>2 DEF LogTypes
  <1>5. WorkersGood'
    BY <1>a, <1>2 DEF WorkersGood
  <1>6. PendInv'
    BY <1>2, BatchesKept DEF AdmissionIInv
  <1>7. ItemsFresh'
    <2>1. ASSUME NEW i \in Items, Fresh(i, step) PROVE Fresh(i, step')
      <3>1. i.step \in Steps
        BY DEF Items
      <3> QED BY <1>a, <1>3, <2>1, <3>1 DEF Fresh
    <2> QED BY <1>2, <2>1, StillFresh
  <1>8. SlotInv'
    <2>1. SlotTypes' /\ KeysDistinct' /\ SlotsDistinct' /\ RenewGood' /\ RenewedForSomeone'
      BY <1>a, <1>2 DEF SlotInv, SlotTypes, KeysDistinct, SlotsDistinct, RenewGood, RenewedForSomeone
    <2>2. CoverGood'
      <3>1. ASSUME NEW z \in Steps, covered'[z] # 0 PROVE Covers(z)'
        <4>1. Covers(z)
          BY <1>a, <1>2, <3>1 DEF SlotInv, CoverGood
        <4>2. z # s
          BY <1>a, <4>1 DEF Covers
        <4> QED BY <1>2, <1>3, <4>1, <4>2 DEF Covers, At
      <3> QED BY <3>1 DEF CoverGood
    <2>i. \A v \in Workers : work[v].pc \in {"hold", "release"} => work[v].item.step \in Steps
      BY <1>a DEF WorkersGood, RecordGood, Carrying, Items
    <2>3. FlightGood'
      BY <1>a, <1>b, <1>2, <1>3, <2>i DEF SlotInv, FlightGood, At
    <2>4. SeenToLeave'
      <3>1. \A v \in Workers : At(v, "hold")' /\ step'[work'[v].item.step].phase # "out" =>
                work'[v].slot.rev \notin renewing'[PlaneOf[v]] \ missed'
        BY <1>a, <1>b, <1>2, <1>3, <2>i DEF SlotInv, SeenToLeave, At
      <3>2. \A q \in Schedulers, z \in Steps :
              held'[q][z].rev \in renewing'[q] \ missed' /\ step'[z].phase # "out" =>
                \E v \in Workers : At(v, "release")' /\ work'[v].item.step = z /\ PlaneOf[v] = q
        BY <1>a, <1>2, <1>3 DEF SlotInv, SeenToLeave, At
      <3> QED BY ONLY <3>1, <3>2 DEF SeenToLeave
    <2> QED BY <2>1, <2>2, <2>3, <2>4 DEF SlotInv
  <1> QED BY <1>4, <1>5, <1>6, <1>7, <1>8 DEF AdmissionIInv

(* A key nobody renews is dropped, and covers nothing any more.             *)
LEMMA AgeOutKeeps ==
    ASSUME AdmissionIInv, NEW k \in Keys, AgeOut(k) PROVE AdmissionIInv'
  <1>a. SlotInv /\ WorkersGood /\ LogTypes /\ SlotTypes
    BY DEF AdmissionIInv, SlotInv
  <1>1. /\ bucket[k] # 0 /\ bucket' = [bucket EXCEPT ![k] = 0]
        /\ covered' = [s \in Steps |-> IF covered[s] = bucket[k] THEN 0 ELSE covered[s]]
    BY DEF AgeOut, Dropped
  <1>2. UNCHANGED <<counted, created, closed, step, renewing, held, queue, pending, work, admissionFaults, stranded, missed>>
    BY DEF AgeOut, log, waiting
  <1>3. LogTypes' /\ WorkersGood' /\ ItemsFresh'
    BY <1>2 DEF AdmissionIInv, LogTypes, WorkersGood, ItemsFresh
  <1>6. PendInv'
    BY <1>2, BatchesKept DEF AdmissionIInv
  <1>8. SlotInv'
    <2>0. bucket'[k] = 0 /\ \A l \in Keys : l # k => bucket'[l] = bucket[l]
      BY <1>a, <1>1 DEF SlotTypes
    <2>c. \A s \in Steps : covered'[s] # 0 => covered'[s] = covered[s] /\ covered[s] # bucket[k]
      BY <1>1
    <2>1. SlotTypes'
      BY <1>a, <1>1, <1>2 DEF SlotTypes
    <2>2. KeysDistinct'
      BY <1>a, <2>0 DEF SlotInv, KeysDistinct
    <2>3. SlotsDistinct' /\ RenewGood' /\ RenewedForSomeone' /\ FlightGood' /\ SeenToLeave'
      BY <1>a, <1>2 DEF SlotInv, SlotsDistinct, RenewGood, RenewedForSomeone, FlightGood, SeenToLeave, At
    <2>4. CoverGood'
      <3>1. ASSUME NEW z \in Steps, covered'[z] # 0 PROVE Covers(z)'
        <4>1. Covers(z) /\ covered'[z] = covered[z] /\ covered[z] # bucket[k] /\ covered[z] # 0
          BY <1>a, <2>c, <3>1 DEF SlotInv, CoverGood
        <4>2. \E l \in Keys : l[1] = Pipeline(z) /\ bucket'[l] = covered'[z]
          BY <2>0, <4>1 DEF Covers
        <4>3. \A y \in Steps : covered'[y] = covered'[z] => y = z
          BY <2>c, <3>1, <4>1 DEF Covers
        <4> QED BY <1>2, <4>1, <4>2, <4>3 DEF Covers, At
      <3> QED BY <3>1 DEF CoverGood
    <2> QED BY <2>1, <2>2, <2>3, <2>4 DEF SlotInv
  <1> QED BY <1>3, <1>6, <1>8 DEF AdmissionIInv

LEMMA RenewFailsKeeps ==
    ASSUME AdmissionIInv, NEW p \in Schedulers, NEW rev \in renewing[p], RenewFails(p, rev) PROVE AdmissionIInv'
  <1>a. SlotInv /\ WorkersGood /\ LogTypes /\ SlotTypes
    BY DEF AdmissionIInv, SlotInv
  <1>1. Fault /\ renewing' = [renewing EXCEPT ![p] = @ \ {rev}] /\ missed' = missed \ {rev}
    BY DEF RenewFails
  <1>2. UNCHANGED <<counted, created, closed, step, bucket, held, queue, pending, work, covered, stranded>>
    BY DEF RenewFails, log, waiting
  <1>3. LogTypes' /\ WorkersGood' /\ ItemsFresh'
    BY <1>1, <1>2, FaultCounted DEF AdmissionIInv, LogTypes, WorkersGood, ItemsFresh
  <1>6. PendInv'
    BY <1>2, BatchesKept DEF AdmissionIInv
  <1>8. SlotInv'
    <2>0. renewing'[p] = renewing[p] \ {rev} /\ \A q \in Schedulers : q # p => renewing'[q] = renewing[q]
      BY <1>a, <1>1 DEF SlotTypes
    <2>s. \A q \in Schedulers : renewing'[q] \subseteq renewing[q]
      BY <2>0
    <2>m. \A q \in Schedulers : renewing'[q] \ missed' \subseteq renewing[q] \ missed
      BY <1>a, <1>1, <2>0 DEF SlotInv, RenewGood
    <2>1. SlotTypes' /\ KeysDistinct' /\ SlotsDistinct' /\ FlightGood'
      BY <1>a, <1>1, <1>2 DEF SlotInv, SlotTypes, KeysDistinct, SlotsDistinct, FlightGood, At
    <2>2. CoverGood'
      <3>1. ASSUME NEW z \in Steps, covered'[z] # 0 PROVE Covers(z)'
        <4>1. Covers(z)
          BY <1>a, <1>2, <3>1 DEF SlotInv, CoverGood
        <4> QED BY <1>2, <4>1 DEF Covers, At
      <3> QED BY <3>1 DEF CoverGood
    <2>3. RenewGood'
      <3>1. \A q \in Schedulers : IsFiniteSet(renewing'[q])
        <4>1. ASSUME NEW q \in Schedulers PROVE IsFiniteSet(renewing'[q])
          <5>1. IsFiniteSet(renewing[q]) /\ renewing'[q] \in SUBSET renewing[q]
            BY <1>a, <2>s DEF SlotInv, RenewGood
          <5> QED BY <5>1, FS_Subset
        <4> QED BY <4>1
      <3> QED BY <1>a, <1>2, <2>s, <3>1 DEF SlotInv, RenewGood
    <2>4. RenewedForSomeone'
      BY <1>a, <1>2, <2>m DEF SlotInv, RenewedForSomeone
    <2>5. SeenToLeave'
      <3>1. \A v \in Workers : At(v, "hold")' /\ step'[work'[v].item.step].phase # "out" =>
                work'[v].slot.rev \notin renewing'[PlaneOf[v]] \ missed'
        BY <1>a, <1>2, <2>m, PlaneOfWorker DEF SlotInv, SeenToLeave, At
      <3>2. \A q \in Schedulers, z \in Steps :
              held'[q][z].rev \in renewing'[q] \ missed' /\ step'[z].phase # "out" =>
                \E v \in Workers : At(v, "release")' /\ work'[v].item.step = z /\ PlaneOf[v] = q
        BY <1>a, <1>2, <2>m DEF SlotInv, SeenToLeave, At
      <3> QED BY ONLY <3>1, <3>2 DEF SeenToLeave
    <2> QED BY <2>1, <2>2, <2>3, <2>4, <2>5 DEF SlotInv
  <1> QED BY <1>3, <1>6, <1>8 DEF AdmissionIInv

-----------------------------------------------------------------------------
(* The marks of one plane, over what its workers have in hand.              *)
Batches(f) == [w \in Workers |-> f[w].batch]

InBatch(b, p, s) == \E w \in Workers : PlaneOf[w] = p /\ s \in StepsOf(ToSet(b[w]))

MarkedIn(q, pend, lost, b, p) ==
    /\ QueueGood(q)
    /\ \A s : s \in pend <=> s \in StepsOf(QueueItems(q)) \/ InBatch(b, p, s) \/ s \in lost
    /\ \A s \in lost : s \notin StepsOf(QueueItems(q)) /\ ~InBatch(b, p, s)
    /\ \A w \in Workers : PlaneOf[w] = p =>
          OneEach(b[w]) /\ \A s \in StepsOf(ToSet(b[w])) : s \notin StepsOf(QueueItems(q))
    /\ \A w, v \in Workers : PlaneOf[w] = p /\ PlaneOf[v] = p /\ w # v =>
          \A s \in StepsOf(ToSet(b[w])) : s \notin StepsOf(ToSet(b[v]))

(* The marks of a plane as a predicate of plain values.                     *)
LEMMA MarkedIs ==
    ASSUME NEW p
    PROVE  Marked(p) <=> MarkedIn(queue[p], pending[p], stranded[p], Batches(work), p)
  <1>1. InQueue(p) = StepsOf(QueueItems(queue[p]))
    BY DEF InQueue, StepsOf, QueueItems
  <1>2. \A w \in Workers : BatchSteps(work[w]) = StepsOf(ToSet(Batches(work)[w])) /\ Batches(work)[w] = work[w].batch
    BY DEF BatchSteps, Batches
  <1>3. \A s : s \in InHand(p) <=> InBatch(Batches(work), p, s)
    BY <1>2 DEF InHand, InBatch, StepsOf
  <1>4. ASSUME Marked(p) PROVE MarkedIn(queue[p], pending[p], stranded[p], Batches(work), p)
    BY <1>1, <1>2, <1>3, <1>4 DEF Marked, MarkedIn
  <1>5. ASSUME MarkedIn(queue[p], pending[p], stranded[p], Batches(work), p) PROVE Marked(p)
    <2>1. pending[p] = InQueue(p) \cup InHand(p) \cup stranded[p]
      BY <1>1, <1>3, <1>5 DEF MarkedIn
    <2> QED BY <1>1, <1>2, <1>3, <1>5, <2>1 DEF Marked, MarkedIn
  <1> QED BY <1>4, <1>5

LEMMA MarkedIsNext ==
    ASSUME NEW p
    PROVE  Marked(p)' <=> MarkedIn(queue'[p], pending'[p], stranded'[p], Batches(work'), p)
  <1>1. InQueue(p)' = StepsOf(QueueItems(queue'[p]))
    BY DEF InQueue, StepsOf, QueueItems
  <1>2. \A w \in Workers : BatchSteps(work'[w]) = StepsOf(ToSet(Batches(work')[w])) /\ Batches(work')[w] = work'[w].batch
    BY DEF BatchSteps, Batches
  <1>3. \A s : s \in InHand(p)' <=> InBatch(Batches(work'), p, s)
    BY <1>2 DEF InHand, InBatch, StepsOf
  <1>4. ASSUME Marked(p)' PROVE MarkedIn(queue'[p], pending'[p], stranded'[p], Batches(work'), p)
    BY <1>1, <1>2, <1>3, <1>4 DEF Marked, MarkedIn
  <1>5. ASSUME MarkedIn(queue'[p], pending'[p], stranded'[p], Batches(work'), p) PROVE Marked(p)'
    <2>1. pending'[p] = InQueue(p)' \cup InHand(p)' \cup stranded'[p]
      BY <1>1, <1>3, <1>5 DEF MarkedIn
    <2> QED BY <1>1, <1>2, <1>3, <1>5, <2>1 DEF Marked, MarkedIn
  <1> QED BY <1>4, <1>5

(* What happens on another plane leaves the marks of this one.              *)
LEMMA MarkedElsewhere ==
    ASSUME NEW q, NEW pend, NEW lost, NEW b, NEW c, NEW p, MarkedIn(q, pend, lost, b, p),
           \A w \in Workers : PlaneOf[w] = p => c[w] = b[w]
    PROVE  MarkedIn(q, pend, lost, c, p)
  <1>1. \A s : InBatch(c, p, s) <=> InBatch(b, p, s)
    BY DEF InBatch
  <1> QED BY <1>1 DEF MarkedIn

(* A step that is not marked is queued.                                     *)
LEMMA MarkedQueued ==
    ASSUME NEW q, NEW pend, NEW lost, NEW b, NEW p, MarkedIn(q, pend, lost, b, p),
           NEW i \in Items, i.step \notin pend
    PROVE  MarkedIn(Enqueue(q, Tenant(i.step), i), pend \cup {i.step}, lost, b, p)
  <1>t. PICK t \in Tenants : t = Tenant(i.step)
    BY AdmissionAssumption DEF Tenant, Items
  <1>0. PICK e : e = Enqueue(q, t, i)
    OBVIOUS
  <1>1. i.step \notin StepsOf(QueueItems(q)) /\ ~InBatch(b, p, i.step) /\ i.step \notin lost
    BY DEF MarkedIn
  <1>2. QueueGood(e) /\ QueueItems(e) = QueueItems(q) \cup {i}
    BY <1>0, <1>1, <1>t, EnqueueGood DEF MarkedIn
  <1>3. \A s : s \in StepsOf(QueueItems(e)) <=> s \in StepsOf(QueueItems(q)) \/ s = i.step
    BY <1>2 DEF StepsOf
  <1>4. \A w \in Workers : PlaneOf[w] = p => i.step \notin StepsOf(ToSet(b[w]))
    BY <1>1 DEF InBatch
  <1>5. MarkedIn(e, pend \cup {i.step}, lost, b, p)
    BY <1>1, <1>2, <1>3, <1>4 DEF MarkedIn
  <1> QED BY <1>0, <1>5, <1>t

(* What a pass takes goes from the queue into a worker's hands.             *)
LEMMA MarkedDrained ==
    ASSUME NEW q, NEW pend, NEW lost, NEW b, NEW p, MarkedIn(q, pend, lost, b, p),
           NEW w \in Workers, PlaneOf[w] = p, b[w] = <<>>, NEW r, PassGood(r, q), NEW c, c[w] = r.taken,
           \A v \in Workers : v # w => c[v] = b[v]
    PROVE  MarkedIn(r.queue, pend, lost, c, p)
  <1>1. /\ QueueGood(r.queue) /\ OneEach(r.taken)
        /\ \A i \in ToSet(r.taken), j \in QueueItems(r.queue) : i.step # j.step
        /\ QueueItems(q) = QueueItems(r.queue) \cup ToSet(r.taken)
    BY DEF PassGood
  <1>2. \A s : s \in StepsOf(QueueItems(q)) <=> s \in StepsOf(QueueItems(r.queue)) \/ s \in StepsOf(ToSet(r.taken))
    BY <1>1 DEF StepsOf
  <1>3. \A s \in StepsOf(ToSet(r.taken)) : s \notin StepsOf(QueueItems(r.queue))
    BY <1>1 DEF StepsOf
  <1>4. StepsOf(ToSet(b[w])) = {}
    BY EmptyList DEF StepsOf
  <1>5. \A s : InBatch(c, p, s) <=> InBatch(b, p, s) \/ s \in StepsOf(ToSet(r.taken))
    BY <1>4 DEF InBatch
  <1>6. \A s : s \in pend <=> s \in StepsOf(QueueItems(r.queue)) \/ InBatch(c, p, s) \/ s \in lost
    BY <1>2, <1>5 DEF MarkedIn
  <1>7. \A s \in lost : s \notin StepsOf(QueueItems(r.queue)) /\ ~InBatch(c, p, s)
    BY <1>2, <1>5 DEF MarkedIn
  <1>8. \A v \in Workers : PlaneOf[v] = p =>
          OneEach(c[v]) /\ \A s \in StepsOf(ToSet(c[v])) : s \notin StepsOf(QueueItems(r.queue))
    BY <1>1, <1>2, <1>3 DEF MarkedIn
  <1>9. \A u, v \in Workers : PlaneOf[u] = p /\ PlaneOf[v] = p /\ u # v =>
          \A s \in StepsOf(ToSet(c[u])) : s \notin StepsOf(ToSet(c[v]))
    BY <1>2 DEF MarkedIn
  <1> QED BY <1>1, <1>6, <1>7, <1>8, <1>9 DEF MarkedIn

(* The first item of a batch is not in the rest of it.                      *)
LEMMA BatchCut ==
    ASSUME NEW l \in Seq(Items), l # <<>>, OneEach(l)
    PROVE  /\ Head(l) \in Items /\ Tail(l) \in Seq(Items) /\ OneEach(Tail(l))
           /\ ToSet(l) = {Head(l)} \cup ToSet(Tail(l))
           /\ Head(l).step \notin StepsOf(ToSet(Tail(l)))
  <1>0. PICK n \in Nat : n = Len(l) /\ n > 0
    OBVIOUS
  <1>1. Head(l) = l[1] /\ Tail(l) \in Seq(Items) /\ Len(Tail(l)) = n - 1 /\ l[1] \in Items
    BY <1>0
  <1>2. \A m \in 1 .. n - 1 : Tail(l)[m] = l[m + 1] /\ m + 1 \in 1 .. n
    BY <1>0
  <1>3. DOMAIN l = 1 .. n /\ DOMAIN Tail(l) = 1 .. n - 1
    BY <1>0, <1>1
  <1>4. OneEach(Tail(l))
    <2>1. ASSUME NEW m \in 1 .. n - 1, NEW k \in 1 .. n - 1, Tail(l)[m].step = Tail(l)[k].step PROVE m = k
      <3>1. m + 1 = k + 1
        BY <1>2, <1>3, <2>1 DEF OneEach
      <3> QED BY <3>1
    <2> QED BY <1>3, <2>1 DEF OneEach
  <1>5. ToSet(l) = {Head(l)} \cup ToSet(Tail(l))
    <2>1. ASSUME NEW k \in 1 .. n, k # 1 PROVE k - 1 \in 1 .. n - 1 /\ Tail(l)[k - 1] = l[k]
      <3>1. k - 1 \in 1 .. n - 1 /\ (k - 1) + 1 = k
        BY <2>1
      <3> QED BY <1>2, <3>1
    <2>2. 1 \in 1 .. n
      BY <1>0
    <2>3. ASSUME NEW x \in ToSet(l) PROVE x \in {Head(l)} \cup ToSet(Tail(l))
      <3>1. PICK k \in 1 .. n : x = l[k]
        BY <1>3, <2>3 DEF ToSet
      <3>2. CASE k = 1
        BY <1>1, <3>1, <3>2
      <3>3. CASE k # 1
        BY <1>3, <2>1, <3>1, <3>3 DEF ToSet
      <3> QED BY <3>2, <3>3
    <2>4. ASSUME NEW x \in ToSet(Tail(l)) PROVE x \in ToSet(l)
      <3>1. PICK m \in 1 .. n - 1 : x = Tail(l)[m]
        BY <1>3, <2>4 DEF ToSet
      <3> QED BY <1>2, <1>3, <3>1 DEF ToSet
    <2>5. Head(l) \in ToSet(l)
      BY <1>1, <1>3, <2>2 DEF ToSet
    <2> QED BY <2>3, <2>4, <2>5
  <1>6. Head(l).step \notin StepsOf(ToSet(Tail(l)))
    <2>1. ASSUME NEW m \in 1 .. n - 1, Tail(l)[m].step = l[1].step PROVE FALSE
      <3>1. m + 1 = 1
        BY <1>0, <1>2, <1>3, <2>1 DEF OneEach
      <3> QED BY <3>1
    <2> QED BY <1>1, <1>3, <2>1 DEF StepsOf, ToSet
  <1> QED BY <1>1, <1>4, <1>5, <1>6

(* The first item of a batch is looked at.                                  *)
LEMMA MarkedTaken ==
    ASSUME NEW q, NEW pend, NEW lost, NEW b, NEW p, MarkedIn(q, pend, lost, b, p),
           NEW w \in Workers, PlaneOf[w] = p, b[w] \in Seq(Items), b[w] # <<>>,
           NEW c, c[w] = Tail(b[w]), \A v \in Workers : v # w => c[v] = b[v]
    PROVE  MarkedIn(q, pend \ {Head(b[w]).step}, lost, c, p)
  <1>h. PICK h : h = Head(b[w]).step
    OBVIOUS
  <1>1. /\ OneEach(Tail(b[w])) /\ h \notin StepsOf(ToSet(Tail(b[w])))
        /\ ToSet(b[w]) = {Head(b[w])} \cup ToSet(Tail(b[w]))
    BY <1>h, BatchCut DEF MarkedIn
  <1>2. \A s : s \in StepsOf(ToSet(b[w])) <=> s = h \/ s \in StepsOf(ToSet(c[w]))
    BY <1>h, <1>1 DEF StepsOf
  <1>3. h \notin StepsOf(ToSet(c[w])) /\ h \in StepsOf(ToSet(b[w]))
    BY <1>1, <1>2
  <1>4. \A v \in Workers : v # w /\ PlaneOf[v] = p => h \notin StepsOf(ToSet(b[v]))
    BY <1>3 DEF MarkedIn
  <1>5. \A s : InBatch(c, p, s) <=> InBatch(b, p, s) /\ s # h
    BY <1>2, <1>3, <1>4 DEF InBatch
  <1>6. h \notin StepsOf(QueueItems(q)) /\ h \notin lost
    BY <1>3 DEF MarkedIn, InBatch
  <1>7. \A s : s \in pend \ {h} <=> s \in StepsOf(QueueItems(q)) \/ InBatch(c, p, s) \/ s \in lost
    BY <1>5, <1>6 DEF MarkedIn
  <1>8. \A s \in lost : s \notin StepsOf(QueueItems(q)) /\ ~InBatch(c, p, s)
    BY <1>5 DEF MarkedIn
  <1>9. \A v \in Workers : PlaneOf[v] = p =>
          OneEach(c[v]) /\ \A s \in StepsOf(ToSet(c[v])) : s \notin StepsOf(QueueItems(q))
    BY <1>1, <1>2 DEF MarkedIn
  <1>10. \A u, v \in Workers : PlaneOf[u] = p /\ PlaneOf[v] = p /\ u # v =>
          \A s \in StepsOf(ToSet(c[u])) : s \notin StepsOf(ToSet(c[v]))
    BY <1>2 DEF MarkedIn
  <1>11. QueueGood(q)
    BY DEF MarkedIn
  <1> QED BY <1>h, <1>7, <1>8, <1>9, <1>10, <1>11 DEF MarkedIn

(* A batch is dropped with its marks.                                       *)
LEMMA MarkedDropped ==
    ASSUME NEW q, NEW pend, NEW lost, NEW b, NEW p, MarkedIn(q, pend, lost, b, p),
           NEW w \in Workers, PlaneOf[w] = p, NEW c, c[w] = <<>>, \A v \in Workers : v # w => c[v] = b[v]
    PROVE  MarkedIn(q, pend, lost \cup StepsOf(ToSet(b[w])), c, p)
  <1>1. StepsOf(ToSet(c[w])) = {} /\ OneEach(c[w])
    BY EmptyList DEF StepsOf
  <1>2. \A s : InBatch(b, p, s) <=> InBatch(c, p, s) \/ s \in StepsOf(ToSet(b[w]))
    BY <1>1 DEF InBatch
  <1>3. \A s \in StepsOf(ToSet(b[w])) : ~InBatch(c, p, s) /\ s \notin StepsOf(QueueItems(q))
    BY <1>1 DEF InBatch, MarkedIn
  <1>4. PICK given : given = StepsOf(ToSet(b[w]))
    OBVIOUS
  <1>5. \A s : s \in pend <=> s \in StepsOf(QueueItems(q)) \/ InBatch(c, p, s) \/ s \in lost \cup given
    BY <1>2, <1>4 DEF MarkedIn
  <1>6. \A s \in lost \cup given : s \notin StepsOf(QueueItems(q)) /\ ~InBatch(c, p, s)
    BY <1>2, <1>3, <1>4 DEF MarkedIn
  <1>7. \A v \in Workers : PlaneOf[v] = p =>
          OneEach(c[v]) /\ \A s \in StepsOf(ToSet(c[v])) : s \notin StepsOf(QueueItems(q))
    BY <1>1 DEF MarkedIn
  <1>8. \A u, v \in Workers : PlaneOf[u] = p /\ PlaneOf[v] = p /\ u # v =>
          \A s \in StepsOf(ToSet(c[u])) : s \notin StepsOf(ToSet(c[v]))
    BY <1>1 DEF MarkedIn
  <1>9. QueueGood(q)
    BY DEF MarkedIn
  <1> QED BY <1>4, <1>5, <1>6, <1>7, <1>8, <1>9 DEF MarkedIn

(* A plane that starts has nothing.                                         *)
LEMMA MarkedAnew ==
    ASSUME NEW b, NEW p, \A w \in Workers : PlaneOf[w] = p => b[w] = <<>>
    PROVE  MarkedIn(NewQueue, {}, {}, b, p)
  <1>1. \A w \in Workers : PlaneOf[w] = p => StepsOf(ToSet(b[w])) = {} /\ OneEach(b[w])
    BY EmptyList DEF StepsOf
  <1>2. StepsOf(QueueItems(NewQueue)) = {} /\ QueueGood(NewQueue)
    BY NewQueueGood DEF StepsOf
  <1>3. \A s : ~InBatch(b, p, s)
    BY <1>1 DEF InBatch
  <1> QED BY <1>1, <1>2, <1>3 DEF MarkedIn

-----------------------------------------------------------------------------
(* The queue and the hands.                                                 *)
LEMMA MarksOf ==
    ASSUME PendInv, NEW p \in Schedulers
    PROVE  MarkedIn(queue[p], pending[p], stranded[p], Batches(work), p)
  BY MarkedIs DEF PendInv

(* Only the batch of the worker that moves can change.                      *)
LEMMA BatchesOf ==
    ASSUME NEW w \in Workers, \A v \in Workers : v # w => work'[v] = work[v]
    PROVE  /\ Batches(work)[w] = work[w].batch /\ Batches(work')[w] = work'[w].batch
           /\ \A v \in Workers : v # w => Batches(work')[v] = Batches(work)[v]
  BY DEF Batches

(* One worker moves, on plane p: the marks of the other planes stay.        *)
LEMMA OtherMarks ==
    ASSUME PendInv, NEW w \in Workers, \A v \in Workers : v # w => work'[v] = work[v],
           NEW p \in Schedulers, p = PlaneOf[w],
           \A q \in Schedulers : q # p => queue'[q] = queue[q] /\ pending'[q] = pending[q] /\ stranded'[q] = stranded[q]
    PROVE  \A q \in Schedulers : q # p => Marked(q)'
  <1>1. SUFFICES ASSUME NEW q \in Schedulers, q # p PROVE Marked(q)'
    OBVIOUS
  <1>2. MarkedIn(queue[q], pending[q], stranded[q], Batches(work), q)
    BY MarksOf
  <1>3. \A v \in Workers : PlaneOf[v] = q => Batches(work')[v] = Batches(work)[v]
    BY <1>1, BatchesOf
  <1>4. MarkedIn(queue[q], pending[q], stranded[q], Batches(work'), q)
    BY <1>2, <1>3, MarkedElsewhere
  <1> QED BY <1>1, <1>4, MarkedIsNext

LEMMA EnqueueReadyKeeps ==
    ASSUME AdmissionIInv, NEW w \in Workers, EnqueueReady(w) PROVE AdmissionIInv'
  <1>0. work[w].pc = "enqueue" /\ RecordGood(work[w]) /\ work[w].todo # {} /\ work[w].todo \subseteq Items
    BY RecordFacts DEF EnqueueReady, At, AdmissionIInv, WorkersGood
  <1>p. PICK p \in Schedulers : p = PlaneOf[w]
    BY PlaneOfWorker
  <1>t. PICK todo \in SUBSET Items : todo = work[w].todo /\ todo # {}
    BY <1>0
  <1>i. PICK i : i = CHOOSE x \in todo : \A y \in todo : x.step <= y.step
    OBVIOUS
  <1>1. i \in todo /\ i \in Items /\ i.step \in Steps
    <2>1. \A x \in todo : x.step \in Nat
      BY AdmissionAssumption DEF Items
    <2>2. PICK S : S = {x.step : x \in todo}
      OBVIOUS
    <2>3. S \subseteq Nat /\ S # {}
      BY <1>t, <2>1, <2>2
    <2>4. PICK n \in S : \A m \in S : n <= m
      BY <2>3, LeastOfNat
    <2>5. \E x \in todo : \A y \in todo : x.step <= y.step
      BY <2>2, <2>4
    <2> QED BY <1>i, <2>5 DEF Items
  <1>r. PICK r : r = [work[w] EXCEPT !.todo = @ \ {i}]
    OBVIOUS
  <1>2. /\ pending' = [pending EXCEPT ![p] = @ \cup {i.step}]
        /\ queue' = [queue EXCEPT ![p] = IF i.step \in pending[p] THEN @ ELSE Enqueue(@, Tenant(i.step), i)]
        /\ work' = [work EXCEPT ![w] = r]
    BY <1>p, <1>t, <1>i, <1>r DEF EnqueueReady, Become
  <1>3. UNCHANGED <<step, bucket, renewing, held, covered, missed, stranded>> /\ LogTypes'
    BY DEF EnqueueReady, log, slots, history, AdmissionIInv, LogTypes
  <1>4. /\ r \in WorkSet /\ r.pc = "enqueue" /\ r.todo = todo \ {i} /\ r.batch = work[w].batch
        /\ r.item = work[w].item /\ r.slot = work[w].slot
    BY <1>0, <1>r, <1>t DEF RecordGood, WorkSet
  <1>5. RecordGood(r)
    BY <1>0, <1>4 DEF RecordGood, Slotted, Carrying, Outside
  <1>6. WorkersGood' /\ work'[w] = r /\ \A v \in Workers : v # w => work'[v] = work[v]
    BY <1>2, <1>5, WorkerMoves DEF AdmissionIInv
  <1>7. SlotInv'
    <2>1. work[w].pc \notin Slotted \cup {"release"} /\ r.pc \notin Slotted \cup {"release"}
      BY <1>0, <1>4 DEF Slotted
    <2> QED BY <1>2, <1>3, <1>5, <2>1, QuietSlots DEF AdmissionIInv
  <1>8. PendInv /\ DOMAIN queue = Schedulers
    BY DEF AdmissionIInv, PendInv
  <1>9. /\ queue'[p] = (IF i.step \in pending[p] THEN queue[p] ELSE Enqueue(queue[p], Tenant(i.step), i))
        /\ pending'[p] = pending[p] \cup {i.step}
        /\ \A q \in Schedulers : q # p => queue'[q] = queue[q] /\ pending'[q] = pending[q]
    BY <1>2, <1>8 DEF PendInv
  <1>10. Batches(work') = Batches(work)
    BY <1>4, <1>6 DEF Batches
  <1>11. MarkedIn(queue[p], pending[p], stranded[p], Batches(work), p)
    BY <1>8, MarksOf
  <1>12. MarkedIn(queue'[p], pending'[p], stranded[p], Batches(work), p)
    <2>1. CASE i.step \in pending[p]
      <3>1. pending'[p] = pending[p] /\ queue'[p] = queue[p]
        BY <1>9, <2>1
      <3> QED BY <1>11, <3>1
    <2>2. CASE i.step \notin pending[p]
      BY <1>1, <1>9, <1>11, <2>2, MarkedQueued
    <2> QED BY <2>1, <2>2
  <1>13. Marked(p)'
    BY <1>3, <1>10, <1>12, MarkedIsNext
  <1>14. \A q \in Schedulers : q # p => Marked(q)'
    BY <1>p, <1>3, <1>6, <1>8, <1>9, OtherMarks
  <1>15. PendInv'
    <2>1. pending' \in [Schedulers -> SUBSET Steps] /\ stranded' \in [Schedulers -> SUBSET Steps]
      BY <1>1, <1>2, <1>3, <1>8 DEF PendInv
    <2>2. DOMAIN queue' = Schedulers /\ queue' = [q \in Schedulers |-> queue'[q]]
      BY <1>2, <1>8 DEF PendInv
    <2> QED BY <1>13, <1>14, <2>1, <2>2 DEF PendInv
  <1>16. ItemsFresh'
    <2>1. \A j \in CarriedItems(r) : Fresh(j, step)
      BY <1>0, <1>4, <1>t DEF AdmissionIInv, ItemsFresh, CarriedItems
    <2>2. Fresh(i, step)
      BY <1>1, <1>t DEF AdmissionIInv, ItemsFresh, CarriedItems
    <2>3. \A j \in QueueItems(queue'[p]) : j \in QueueItems(queue[p]) \/ j = i
      <3>1. CASE i.step \in pending[p]
        BY <1>9, <3>1
      <3>2. CASE i.step \notin pending[p]
        <4>1. i.step \notin StepsOf(QueueItems(queue[p])) /\ QueueGood(queue[p])
          BY <1>11, <3>2 DEF MarkedIn
        <4>t. PICK t \in Tenants : t = Tenant(i.step)
          BY <1>1, AdmissionAssumption DEF Tenant
        <4>2. QueueItems(Enqueue(queue[p], t, i)) = QueueItems(queue[p]) \cup {i}
          BY <1>1, <4>1, <4>t, EnqueueGood
        <4> QED BY <1>9, <3>2, <4>2, <4>t
      <3> QED BY <3>1, <3>2
    <2> QED BY <1>3, <1>6, <1>9, <2>1, <2>2, <2>3 DEF AdmissionIInv, ItemsFresh
  <1> QED BY <1>3, <1>6, <1>7, <1>15, <1>16 DEF AdmissionIInv

LEMMA DrainKeeps ==
    ASSUME AdmissionIInv, NEW w \in Workers, Drain(w) PROVE AdmissionIInv'
  <1>0. work[w].pc = "enqueue" /\ RecordGood(work[w]) /\ work[w].batch = <<>> /\ PendInv
    BY Outsider DEF Drain, At, AdmissionIInv, WorkersGood, Outside
  <1>p. PICK p \in Schedulers : p = PlaneOf[w]
    BY PlaneOfWorker
  <1>n. PICK n \in 1 .. MaxSlots :
          LET r == TakeNext(queue[PlaneOf[w]], n) IN
          /\ queue' = [queue EXCEPT ![PlaneOf[w]] = r.queue]
          /\ Become(w, IF r.taken = <<>> THEN IdleWork
                       ELSE [IdleWork EXCEPT !.pc = "take", !.batch = r.taken])
    BY DEF Drain
  <1>t. PICK r : r = TakeNext(queue[p], n)
    OBVIOUS
  <1>1. PassGood(r, queue[p])
    <2>1. QueueGood(queue[p])
      BY <1>0 DEF PendInv, Marked
    <2>2. n \in Nat
      BY <1>n, AdmissionAssumption
    <2> QED BY <1>t, <2>1, <2>2, TakeNextGood
  <1>b. PICK batch \in Seq(Items) : batch = r.taken
    BY <1>1 DEF PassGood
  <1>w. PICK e : e = IF batch = <<>> THEN IdleWork ELSE [IdleWork EXCEPT !.pc = "take", !.batch = batch]
    OBVIOUS
  <1>2. queue' = [queue EXCEPT ![p] = r.queue] /\ work' = [work EXCEPT ![w] = e]
    BY <1>n, <1>t, <1>p, <1>b, <1>w DEF Become
  <1>3. UNCHANGED <<step, bucket, renewing, held, covered, missed, stranded, pending>> /\ LogTypes'
    BY DEF Drain, log, slots, history, AdmissionIInv, LogTypes
  <1>4. RecordGood(e) /\ e.pc \in {"idle", "take"} /\ e.batch = batch /\ CarriedItems(e) = ToSet(batch)
    <2>1. CASE batch = <<>>
      BY <1>w, <2>1, IdleGood, EmptyList DEF CarriedItems
    <2>2. CASE batch # <<>>
      <3>1. e = [pc |-> "take", run |-> 0, todo |-> {}, batch |-> batch, item |-> NoItem,
                 index |-> 0, slot |-> NoSlot]
        BY <1>w, <2>2 DEF IdleWork
      <3>2. /\ e \in WorkSet /\ e.pc = "take" /\ e.todo = {} /\ e.batch = batch /\ e.slot = NoSlot
        <4>1. /\ "take" \in Places /\ 0 \in Runs \cup {0} /\ {} \in SUBSET Items
              /\ NoItem \in Items \cup {NoItem} /\ 0 \in Nat /\ NoSlot \in SlotSet
          BY NoSlotFacts DEF Places
        <4> QED BY <3>1, <4>1 DEF WorkSet
      <3>3. RecordGood(e)
        BY <2>2, <3>2 DEF RecordGood, Slotted, Carrying, Outside
      <3>4. CarriedItems(e) = ToSet(batch)
        BY <3>2 DEF CarriedItems
      <3> QED BY <3>2, <3>3, <3>4
    <2> QED BY <2>1, <2>2
  <1>6. WorkersGood' /\ work'[w] = e /\ \A v \in Workers : v # w => work'[v] = work[v]
    BY <1>2, <1>4, WorkerMoves DEF AdmissionIInv
  <1>7. SlotInv'
    <2>1. work[w].pc \notin Slotted \cup {"release"} /\ e.pc \notin Slotted \cup {"release"}
      BY <1>0, <1>4 DEF Slotted
    <2> QED BY <1>2, <1>3, <1>4, <2>1, QuietSlots DEF AdmissionIInv
  <1>9. queue'[p] = r.queue /\ \A q \in Schedulers : q # p => queue'[q] = queue[q]
    BY <1>0, <1>2 DEF PendInv
  <1>10. /\ Batches(work)[w] = <<>> /\ Batches(work')[w] = r.taken
         /\ \A v \in Workers : v # w => Batches(work')[v] = Batches(work)[v]
    BY <1>0, <1>b, <1>4, <1>6, BatchesOf
  <1>11. MarkedIn(queue[p], pending[p], stranded[p], Batches(work), p)
    BY <1>0, MarksOf
  <1>12. MarkedIn(r.queue, pending[p], stranded[p], Batches(work'), p)
    BY <1>p, <1>1, <1>10, <1>11, MarkedDrained
  <1>13. Marked(p)'
    BY <1>3, <1>9, <1>12, MarkedIsNext
  <1>14. \A q \in Schedulers : q # p => Marked(q)'
    BY <1>0, <1>p, <1>3, <1>6, <1>9, OtherMarks
  <1>15. PendInv'
    <2>2. DOMAIN queue' = Schedulers /\ queue' = [q \in Schedulers |-> queue'[q]]
      BY <1>0, <1>2 DEF PendInv
    <2> QED BY <1>0, <1>3, <1>13, <1>14, <2>2 DEF PendInv
  <1>16. ItemsFresh'
    <2>1. ToSet(batch) \subseteq QueueItems(queue[p]) /\ QueueItems(r.queue) \subseteq QueueItems(queue[p])
      BY <1>1, <1>b DEF PassGood
    <2>2. \A j \in QueueItems(queue[p]) : Fresh(j, step)
      BY DEF AdmissionIInv, ItemsFresh
    <2> QED BY <1>3, <1>4, <1>6, <1>9, <2>1, <2>2 DEF AdmissionIInv, ItemsFresh
  <1> QED BY <1>3, <1>6, <1>7, <1>15, <1>16 DEF AdmissionIInv

LEMMA TakeItemKeeps ==
    ASSUME AdmissionIInv, NEW w \in Workers, TakeItem(w) PROVE AdmissionIInv'
  <1>0. work[w].pc = "take" /\ RecordGood(work[w]) /\ PendInv /\ work[w].slot = NoSlot
    BY DEF TakeItem, At, AdmissionIInv, WorkersGood, RecordGood, Slotted
  <1>p. PICK p \in Schedulers : p = PlaneOf[w]
    BY PlaneOfWorker
  <1>l. PICK l \in Seq(Items) : l = work[w].batch /\ l # <<>>
    BY <1>0, RecordFacts DEF RecordGood
  <1>1. OneEach(l)
    BY <1>0, <1>l, <1>p DEF PendInv, Marked
  <1>i. PICK i \in Items : i = Head(l)
    BY <1>l, <1>1, BatchCut
  <1>b. PICK tail \in Seq(Items) : tail = Tail(l) /\ ToSet(l) = {i} \cup ToSet(tail)
    BY <1>i, <1>l, <1>1, BatchCut
  <1>r. PICK rest : rest = [work[w] EXCEPT !.batch = Tail(@)]
    OBVIOUS
  <1>2. /\ rest \in WorkSet /\ rest.pc = "take" /\ rest.todo = work[w].todo /\ rest.batch = tail
        /\ rest.slot = NoSlot
    BY <1>0, <1>b, <1>l, <1>r DEF RecordGood, WorkSet
  <1>c. PICK counting : counting = [rest EXCEPT !.pc = "count", !.item = i]
    OBVIOUS
  <1>3. /\ counting \in WorkSet /\ counting.pc = "count" /\ counting.todo = work[w].todo
        /\ counting.batch = tail /\ counting.item = i /\ counting.slot = NoSlot
    <2>1. "count" \in Places /\ i \in Items \cup {NoItem}
      BY DEF Places
    <2> QED BY <1>2, <1>c, <2>1 DEF WorkSet
  <1>4. PICK e : /\ work' = [work EXCEPT ![w] = e] /\ pending' = [pending EXCEPT ![p] = @ \ {i.step}]
                 /\ \/ e = counting
                    \/ tail = <<>> /\ e = IdleWork
                    \/ tail # <<>> /\ e = rest
    <2>e. PICK e : e = CASE RunOf[i.step] \notin closed /\ step[i.step].attempt < i.attempt -> counting
                         [] rest.batch = <<>> -> IdleWork
                         [] OTHER -> rest
      OBVIOUS
    <2>1. pending' = [pending EXCEPT ![p] = @ \ {i.step}] /\ work' = [work EXCEPT ![w] = e]
      BY <1>p, <1>i, <1>l, <1>r, <1>c, <2>e DEF TakeItem, Become
    <2>2. \/ e = counting
          \/ rest.batch = <<>> /\ e = IdleWork
          \/ rest.batch # <<>> /\ e = rest
      BY <2>e
    <2> QED BY <1>2, <2>1, <2>2
  <1>5. UNCHANGED <<step, bucket, renewing, held, covered, missed, stranded, queue>> /\ LogTypes'
    BY DEF TakeItem, log, slots, history, AdmissionIInv, LogTypes
  <1>6. /\ RecordGood(e) /\ e.batch = tail /\ e.pc \in {"idle", "take", "count"}
        /\ CarriedItems(e) \subseteq CarriedItems(work[w])
    <2>0. CarriedItems(work[w]) = work[w].todo \cup {i} \cup ToSet(tail)
      BY <1>0, <1>b, <1>l DEF CarriedItems
    <2>1. CASE e = counting
      <3>1. RecordGood(counting)
        BY <1>3 DEF RecordGood, Slotted, Carrying, Outside
      <3>2. CarriedItems(counting) \subseteq CarriedItems(work[w])
        BY <1>3, <2>0 DEF CarriedItems
      <3> QED BY <1>3, <2>1, <3>1, <3>2
    <2>2. CASE tail = <<>> /\ e = IdleWork
      <3>1. CarriedItems(IdleWork) = {}
        BY IdleGood, EmptyList DEF CarriedItems
      <3> QED BY <2>2, <3>1, IdleGood
    <2>3. CASE tail # <<>> /\ e = rest
      <3>1. RecordGood(rest)
        BY <1>2, <2>3 DEF RecordGood, Slotted, Carrying, Outside
      <3>2. CarriedItems(rest) \subseteq CarriedItems(work[w])
        BY <1>2, <2>0 DEF CarriedItems
      <3> QED BY <1>2, <2>3, <3>1, <3>2
    <2> QED BY <1>4, <2>1, <2>2, <2>3
  <1>7. WorkersGood' /\ work'[w] = e /\ \A v \in Workers : v # w => work'[v] = work[v]
    BY <1>4, <1>6, WorkerMoves DEF AdmissionIInv
  <1>8. SlotInv'
    <2>1. work[w].pc \notin Slotted \cup {"release"} /\ e.pc \notin Slotted \cup {"release"}
      BY <1>0, <1>6 DEF Slotted
    <2> QED BY <1>4, <1>5, <1>6, <2>1, QuietSlots DEF AdmissionIInv
  <1>9. pending'[p] = pending[p] \ {i.step} /\ \A q \in Schedulers : q # p => pending'[q] = pending[q]
    BY <1>0, <1>4 DEF PendInv
  <1>10. /\ Batches(work)[w] = l /\ Batches(work')[w] = Tail(l)
         /\ \A v \in Workers : v # w => Batches(work')[v] = Batches(work)[v]
    BY <1>b, <1>l, <1>6, <1>7, BatchesOf
  <1>11. MarkedIn(queue[p], pending[p], stranded[p], Batches(work), p)
    BY <1>0, MarksOf
  <1>12. MarkedIn(queue[p], pending[p] \ {i.step}, stranded[p], Batches(work'), p)
    <2>1. PICK b, c : b = Batches(work) /\ c = Batches(work')
      OBVIOUS
    <2>2. /\ MarkedIn(queue[p], pending[p], stranded[p], b, p) /\ b[w] \in Seq(Items) /\ b[w] # <<>>
          /\ c[w] = Tail(b[w]) /\ \A v \in Workers : v # w => c[v] = b[v]
      BY <1>l, <1>10, <1>11, <2>1
    <2>3. MarkedIn(queue[p], pending[p] \ {Head(b[w]).step}, stranded[p], c, p)
      BY <1>p, <2>2, MarkedTaken
    <2>4. Head(b[w]) = i
      BY <1>i, <1>10, <2>1
    <2> QED BY <2>1, <2>3, <2>4
  <1>13. Marked(p)'
    BY <1>5, <1>9, <1>12, MarkedIsNext
  <1>14. \A q \in Schedulers : q # p => Marked(q)'
    BY <1>0, <1>p, <1>5, <1>7, <1>9, OtherMarks
  <1>15. PendInv'
    <2>1. pending' \in [Schedulers -> SUBSET Steps]
      BY <1>0, <1>4 DEF PendInv
    <2> QED BY <1>0, <1>5, <1>13, <1>14, <2>1 DEF PendInv
  <1>16. ItemsFresh'
    <2>1. \A v \in Workers : CarriedItems(work'[v]) \subseteq CarriedItems(work[v])
      BY <1>6, <1>7
    <2> QED BY <1>5, <2>1 DEF AdmissionIInv, ItemsFresh
  <1> QED BY <1>5, <1>7, <1>8, <1>15, <1>16 DEF AdmissionIInv

LEMMA AbortKeeps ==
    ASSUME AdmissionIInv, NEW w \in Workers, Abort(w) PROVE AdmissionIInv'
  <1>0. work[w].pc \in {"count", "commit"} /\ RecordGood(work[w]) /\ PendInv /\ Fault
    BY DEF Abort, At, AdmissionIInv, WorkersGood
  <1>p. PICK p \in Schedulers : p = PlaneOf[w]
    BY PlaneOfWorker
  <1>1. /\ ReleaseSlot(PlaneOf[w], work[w].slot) /\ work' = [work EXCEPT ![w] = IdleWork]
        /\ stranded' = [stranded EXCEPT ![p] = @ \cup StepsOf(ToSet(work[w].batch))]
    BY <1>p DEF Abort, Become, StepsOf
  <1>2. UNCHANGED <<counted, created, closed, step, held, queue, pending, covered, missed>>
    BY DEF Abort, log, waiting
  <1>3. LogTypes'
    BY <1>0, <1>2, FaultCounted DEF AdmissionIInv, LogTypes
  <1>4. RecordGood(IdleWork) /\ IdleWork.pc \in {"idle", "take"} /\ IdleWork.batch = <<>> /\ CarriedItems(IdleWork) = {}
    BY IdleGood, EmptyList DEF CarriedItems
  <1>5. SlotInv'
    BY <1>0, <1>1, <1>2, <1>4, GivesBack
  <1>6. WorkersGood' /\ work'[w] = IdleWork /\ \A v \in Workers : v # w => work'[v] = work[v]
    BY <1>1, <1>4, WorkerMoves DEF AdmissionIInv
  <1>7. ItemsFresh'
    BY <1>1, <1>2, <1>4, FreshKept DEF AdmissionIInv
  <1>s. StepsOf(ToSet(work[w].batch)) \subseteq Steps
    <2>1. work[w].batch \in Seq(Items)
      BY <1>0, RecordFacts
    <2>2. ToSet(work[w].batch) \subseteq Items
      BY <2>1 DEF ToSet
    <2> QED BY <2>2 DEF StepsOf, Items
  <1>9. /\ stranded'[p] = stranded[p] \cup StepsOf(ToSet(work[w].batch))
        /\ \A q \in Schedulers : q # p => stranded'[q] = stranded[q]
    BY <1>0, <1>1 DEF PendInv
  <1>10. /\ Batches(work)[w] = work[w].batch /\ Batches(work')[w] = <<>>
         /\ \A v \in Workers : v # w => Batches(work')[v] = Batches(work)[v]
    BY <1>4, <1>6, BatchesOf
  <1>11. MarkedIn(queue[p], pending[p], stranded[p], Batches(work), p)
    BY <1>0, MarksOf
  <1>12. MarkedIn(queue[p], pending[p], stranded'[p], Batches(work'), p)
    <2>1. PICK b, c : b = Batches(work) /\ c = Batches(work')
      OBVIOUS
    <2>2. /\ MarkedIn(queue[p], pending[p], stranded[p], b, p)
          /\ c[w] = <<>> /\ \A v \in Workers : v # w => c[v] = b[v]
      BY <1>10, <1>11, <2>1
    <2>3. MarkedIn(queue[p], pending[p], stranded[p] \cup StepsOf(ToSet(b[w])), c, p)
      BY <1>p, <2>2, MarkedDropped
    <2>4. stranded'[p] = stranded[p] \cup StepsOf(ToSet(b[w]))
      BY <1>9, <1>10, <2>1
    <2> QED BY <2>1, <2>3, <2>4
  <1>13. Marked(p)'
    BY <1>2, <1>12, MarkedIsNext
  <1>14. \A q \in Schedulers : q # p => Marked(q)'
    BY <1>0, <1>p, <1>2, <1>6, <1>9, OtherMarks
  <1>15. PendInv'
    <2>1. stranded' \in [Schedulers -> SUBSET Steps]
      BY <1>0, <1>1, <1>s DEF PendInv
    <2> QED BY <1>0, <1>2, <1>13, <1>14, <2>1 DEF PendInv
  <1> QED BY <1>3, <1>5, <1>6, <1>7, <1>15 DEF AdmissionIInv

(* A plane dies and comes back with nothing in hand.                        *)
LEMMA CrashKeeps ==
    ASSUME AdmissionIInv, NEW p \in Schedulers, Crash(p) PROVE AdmissionIInv'
  <1>0. SlotInv /\ WorkersGood /\ LogTypes /\ SlotTypes /\ PendInv /\ ItemsFresh
    BY DEF AdmissionIInv, SlotInv
  <1>1. /\ queue' = [queue EXCEPT ![p] = NewQueue] /\ pending' = [pending EXCEPT ![p] = {}]
        /\ held' = [held EXCEPT ![p] = [s \in Steps |-> NoSlot]]
        /\ renewing' = [renewing EXCEPT ![p] = {}] /\ missed' = missed \ renewing[p]
        /\ stranded' = [stranded EXCEPT ![p] = {}]
        /\ work' = [w \in Workers |-> IF PlaneOf[w] = p THEN IdleWork ELSE work[w]]
        /\ Fault
    BY DEF Crash
  <1>2. UNCHANGED <<counted, created, closed, step, bucket, covered>>
    BY DEF Crash, log
  <1>3. LogTypes'
    BY <1>0, <1>1, <1>2, FaultCounted DEF LogTypes
  <1>w. /\ \A w \in Workers : PlaneOf[w] = p => work'[w] = IdleWork
        /\ \A w \in Workers : PlaneOf[w] # p => work'[w] = work[w]
    BY <1>1
  <1>4. WorkersGood'
    BY <1>0, <1>1, <1>w, IdleGood DEF WorkersGood
  <1>q. /\ queue'[p] = NewQueue /\ pending'[p] = {} /\ stranded'[p] = {}
        /\ \A q \in Schedulers : q # p => queue'[q] = queue[q] /\ pending'[q] = pending[q] /\ stranded'[q] = stranded[q]
    BY <1>0, <1>1 DEF PendInv
  <1>h. /\ held' \in [Schedulers -> [Steps -> SlotSet]]
        /\ \A s \in Steps : held'[p][s] = NoSlot
        /\ \A q \in Schedulers : q # p => held'[q] = held[q]
    BY <1>0, <1>1, NoSlotFacts DEF SlotTypes
  <1>r. /\ renewing' \in [Schedulers -> SUBSET Nat] /\ renewing'[p] = {}
        /\ \A q \in Schedulers : q # p => renewing'[q] = renewing[q]
    BY <1>0, <1>1 DEF SlotTypes
  <1>i. \A w \in Workers : PlaneOf[w] = p => work'[w].slot.rev = 0 /\ work'[w].pc = "idle" /\ CarriedItems(work'[w]) = {} /\ work'[w].batch = <<>>
    BY <1>w, IdleGood, NoSlotFacts, EmptyList DEF CarriedItems
  <1>5. PendInv'
    <2>1. ASSUME NEW q \in Schedulers PROVE Marked(q)'
      <3>1. CASE q = p
        <4>1. \A w \in Workers : PlaneOf[w] = p => Batches(work')[w] = <<>>
          BY <1>i DEF Batches
        <4>2. MarkedIn(NewQueue, {}, {}, Batches(work'), p)
          BY <4>1, MarkedAnew
        <4> QED BY <1>q, <3>1, <4>2, MarkedIsNext
      <3>2. CASE q # p
        <4>1. \A w \in Workers : PlaneOf[w] = q => Batches(work')[w] = Batches(work)[w]
          BY <1>w, <3>2 DEF Batches
        <4>2. MarkedIn(queue[q], pending[q], stranded[q], Batches(work), q)
          BY <1>0, MarksOf
        <4>3. MarkedIn(queue[q], pending[q], stranded[q], Batches(work'), q)
          BY <4>1, <4>2, MarkedElsewhere
        <4> QED BY <1>q, <3>2, <4>3, MarkedIsNext
      <3> QED BY <3>1, <3>2
    <2>2. pending' \in [Schedulers -> SUBSET Steps] /\ stranded' \in [Schedulers -> SUBSET Steps]
      BY <1>0, <1>1 DEF PendInv
    <2>3. DOMAIN queue' = Schedulers /\ queue' = [q \in Schedulers |-> queue'[q]]
      BY <1>0, <1>1 DEF PendInv
    <2> QED BY <2>1, <2>2, <2>3 DEF PendInv
  <1>6. ItemsFresh'
    <2>1. \A w \in Workers : \A i \in CarriedItems(work'[w]) : Fresh(i, step')
      BY <1>0, <1>2, <1>i, <1>w DEF ItemsFresh
    <2>2. \A q \in Schedulers : \A i \in QueueItems(queue'[q]) : Fresh(i, step')
      BY <1>0, <1>2, <1>q, NewQueueGood DEF ItemsFresh
    <2> QED BY <2>1, <2>2 DEF ItemsFresh
  <1>7. SlotInv'
    <2>h. \A q \in Schedulers, s \in Steps : held'[q][s].rev # 0 => q # p /\ held'[q][s] = held[q][s]
      BY <1>h, NoSlotFacts
    <2>w. \A w \in Workers : work'[w].slot.rev # 0 => PlaneOf[w] # p /\ work'[w] = work[w]
      BY <1>i, <1>w
    <2>p. \A w \in Workers : work'[w].pc \in {"hold", "release"} => PlaneOf[w] # p /\ work'[w] = work[w]
      BY <1>i, <1>w
    <2>1. SlotTypes'
      BY <1>0, <1>1, <1>2, <1>h, <1>r DEF SlotTypes
    <2>2. KeysDistinct'
      BY <1>0, <1>2 DEF SlotInv, KeysDistinct
    <2>3. SlotsDistinct'
      <3>1. \A u, v \in Workers : work'[u].slot.rev # 0 /\ work'[u].slot.rev = work'[v].slot.rev => u = v
        BY <1>0, <2>w DEF SlotInv, SlotsDistinct
      <3>2. \A v \in Workers, q \in Schedulers, z \in Steps :
              work'[v].slot.rev # 0 => work'[v].slot.rev # held'[q][z].rev
        BY <1>0, <2>w, <2>h DEF SlotInv, SlotsDistinct
      <3>3. \A q, u \in Schedulers, z, t \in Steps :
              held'[q][z].rev # 0 /\ held'[q][z].rev = held'[u][t].rev => q = u /\ z = t
        BY <1>0, <2>h DEF SlotInv, SlotsDistinct
      <3> QED BY <3>1, <3>2, <3>3 DEF SlotsDistinct
    <2>4. CoverGood'
      <3>1. ASSUME NEW z \in Steps, covered'[z] # 0 PROVE Covers(z)'
        <4>1. Covers(z) /\ covered'[z] = covered[z] /\ covered[z] # 0
          BY <1>0, <1>2, <3>1 DEF SlotInv, CoverGood
        <4>2. \A v \in Workers :
                work'[v].slot.rev = covered'[z] => At(v, "hold")' /\ work'[v].item.step = z
          BY <2>w, <4>1 DEF Covers, At
        <4>3. \A q \in Schedulers, y \in Steps :
                held'[q][y].rev = covered'[z] =>
                   y = z /\ \A v \in Workers : At(v, "hold")' => work'[v].item.step # z
          BY <2>h, <2>p, <4>1 DEF Covers, At
        <4> QED BY <1>2, <4>1, <4>2, <4>3 DEF Covers
      <3> QED BY <3>1 DEF CoverGood
    <2>5. FlightGood'
      BY <1>0, <1>2, <2>p DEF SlotInv, FlightGood, At
    <2>m. \A q \in Schedulers : renewing'[q] \ missed' \subseteq renewing[q] \ missed
      <3>1. ASSUME NEW q \in Schedulers, NEW rev \in renewing'[q] \ missed' PROVE rev \in renewing[q] \ missed
        <4>1. q # p /\ rev \in renewing[q]
          BY <1>r, <3>1
        <4>2. rev \notin renewing[p]
          BY <1>0, <4>1 DEF SlotInv, RenewGood
        <4> QED BY <1>1, <3>1, <4>1, <4>2
      <3> QED BY <3>1
    <2>6. RenewGood'
      <3>1. \A q \in Schedulers : IsFiniteSet(renewing'[q]) /\ 0 \notin renewing'[q]
        BY <1>0, <1>r, FS_EmptySet DEF SlotInv, RenewGood
      <3>2. \A q, u \in Schedulers : q # u => renewing'[q] \cap renewing'[u] = {}
        BY <1>0, <1>r DEF SlotInv, RenewGood
      <3>3. ASSUME NEW v \in Workers, NEW q \in Schedulers, work'[v].slot.rev \in renewing'[q] PROVE PlaneOf[v] = q
        <4>1. work'[v].slot.rev # 0 /\ work'[v].slot.rev \in renewing[q]
          BY <1>r, <3>1, <3>3
        <4> QED BY <1>0, <2>w, <4>1 DEF SlotInv, RenewGood
      <3>4. ASSUME NEW q \in Schedulers, NEW u \in Schedulers, NEW s \in Steps, held'[q][s].rev \in renewing'[u]
            PROVE  q = u
        <4>1. held'[q][s].rev # 0 /\ held'[q][s].rev \in renewing[u]
          BY <1>r, <3>1, <3>4
        <4> QED BY <1>0, <2>h, <4>1 DEF SlotInv, RenewGood
      <3> QED BY <3>1, <3>2, <3>3, <3>4 DEF RenewGood
    <2>7. RenewedForSomeone'
      <3>1. ASSUME NEW q \in Schedulers, NEW rev \in renewing'[q] \ missed'
            PROVE  (\E v \in Workers : work'[v].slot.rev = rev) \/ (\E z \in Steps : held'[q][z].rev = rev)
        <4>1. q # p /\ rev \in renewing[q] \ missed
          BY <1>r, <2>m, <3>1
        <4>2. CASE \E v \in Workers : work[v].slot.rev = rev
          <5>1. PICK v \in Workers : work[v].slot.rev = rev
            BY <4>2
          <5>2. PlaneOf[v] = q
            BY <1>0, <4>1, <5>1 DEF SlotInv, RenewGood
          <5> QED BY <1>w, <4>1, <5>1, <5>2
        <4>3. CASE \E z \in Steps : held[q][z].rev = rev
          BY <1>h, <4>1, <4>3
        <4> QED BY <1>0, <4>1, <4>2, <4>3 DEF SlotInv, RenewedForSomeone
      <3> QED BY <3>1 DEF RenewedForSomeone
    <2>8. SeenToLeave'
      <3>1. ASSUME NEW v \in Workers, work'[v].pc = "hold", step'[work'[v].item.step].phase # "out",
                   work'[v].slot.rev \in renewing'[PlaneOf[v]] \ missed'
            PROVE  FALSE
        <4>1. work'[v] = work[v] /\ work[v].slot.rev \in renewing[PlaneOf[v]] \ missed
          BY <2>m, <2>p, <3>1, PlaneOfWorker
        <4> QED BY <1>0, <1>2, <3>1, <4>1 DEF SlotInv, SeenToLeave, At
      <3>2. ASSUME NEW q \in Schedulers, NEW z \in Steps, held'[q][z].rev \in renewing'[q] \ missed',
                   step'[z].phase # "out"
            PROVE  \E v \in Workers : work'[v].pc = "release" /\ work'[v].item.step = z /\ PlaneOf[v] = q
        <4>1. q # p
          BY <1>r, <3>2
        <4>2. held[q][z].rev \in renewing[q] \ missed /\ step[z].phase # "out"
          BY <1>2, <1>h, <2>m, <3>2, <4>1
        <4>3. PICK v \in Workers : work[v].pc = "release" /\ work[v].item.step = z /\ PlaneOf[v] = q
          BY <1>0, <4>2 DEF SlotInv, SeenToLeave, At
        <4> QED BY <1>w, <4>1, <4>3
      <3>3. \A v \in Workers : At(v, "hold")' /\ step'[work'[v].item.step].phase # "out" =>
                work'[v].slot.rev \notin renewing'[PlaneOf[v]] \ missed'
        BY ONLY <3>1 DEF At
      <3>4. \A q \in Schedulers, z \in Steps :
              held'[q][z].rev \in renewing'[q] \ missed' /\ step'[z].phase # "out" =>
                \E v \in Workers : At(v, "release")' /\ work'[v].item.step = z /\ PlaneOf[v] = q
        BY ONLY <3>2 DEF At
      <3> QED BY ONLY <3>3, <3>4 DEF SeenToLeave
    <2> QED BY <2>1, <2>2, <2>3, <2>4, <2>5, <2>6, <2>7, <2>8 DEF SlotInv
  <1> QED BY <1>3, <1>4, <1>5, <1>6, <1>7 DEF AdmissionIInv

-----------------------------------------------------------------------------
LEMMA AdmissionInitInv == ASSUME AdmissionInit PROVE AdmissionIInv
  <1>0. /\ counted = {} /\ created = {} /\ closed = {} /\ missed = {} /\ admissionFaults = 0
        /\ step = [s \in Steps |-> [phase |-> "ready", attempt |-> 0]]
        /\ bucket = [k \in Keys |-> 0] /\ renewing = [p \in Schedulers |-> {}]
        /\ queue = [p \in Schedulers |-> NewQueue] /\ pending = [p \in Schedulers |-> {}]
        /\ held = [p \in Schedulers |-> [s \in Steps |-> NoSlot]]
        /\ work = [w \in Workers |-> IdleWork]
        /\ covered = [s \in Steps |-> 0] /\ stranded = [p \in Schedulers |-> {}]
    BY DEF AdmissionInit
  <1>1. LogTypes
    BY <1>0, AdmissionAssumption DEF LogTypes
  <1>w. \A w \in Workers : work[w] = IdleWork
    BY <1>0
  <1>2. WorkersGood
    BY <1>0, <1>w, IdleGood DEF WorkersGood
  <1>i. \A w \in Workers : /\ work[w].slot.rev = 0 /\ work[w].pc = "idle" /\ CarriedItems(work[w]) = {}
                           /\ work[w].batch = <<>>
    BY <1>w, IdleGood, NoSlotFacts, EmptyList DEF CarriedItems
  <1>3. PendInv
    <2>1. ASSUME NEW p \in Schedulers PROVE Marked(p)
      <3>1. \A w \in Workers : PlaneOf[w] = p => Batches(work)[w] = <<>>
        BY <1>i DEF Batches
      <3>2. MarkedIn(NewQueue, {}, {}, Batches(work), p)
        BY <3>1, MarkedAnew
      <3>3. queue[p] = NewQueue /\ pending[p] = {} /\ stranded[p] = {}
        BY <1>0
      <3> QED BY <3>2, <3>3, MarkedIs
    <2> QED BY <1>0, <2>1 DEF PendInv
  <1>4. ItemsFresh
    <2>1. \A p \in Schedulers : QueueItems(queue[p]) = {}
      BY <1>0, NewQueueGood
    <2> QED BY <1>i, <2>1 DEF ItemsFresh
  <1>5. SlotInv
    <2>h. \A p \in Schedulers, s \in Steps : held[p][s].rev = 0
      BY <1>0, NoSlotFacts
    <2>r. \A p \in Schedulers : renewing[p] = {}
      BY <1>0
    <2>1. SlotTypes
      BY <1>0, NoSlotFacts DEF SlotTypes
    <2>2. KeysDistinct /\ CoverGood
      BY <1>0 DEF KeysDistinct, CoverGood
    <2>3. SlotsDistinct /\ FlightGood
      BY <1>i, <2>h DEF SlotsDistinct, FlightGood, At
    <2>4. RenewGood /\ RenewedForSomeone
      BY <2>r, FS_EmptySet DEF RenewGood, RenewedForSomeone
    <2>5. SeenToLeave
      BY <1>i, <2>r DEF SeenToLeave, At
    <2> QED BY <2>1, <2>2, <2>3, <2>4, <2>5 DEF SlotInv
  <1> QED BY <1>1, <1>2, <1>3, <1>4, <1>5 DEF AdmissionIInv

LEMMA AdmissionStutters == ASSUME AdmissionIInv, UNCHANGED admissionVars PROVE AdmissionIInv'
  <1>1. UNCHANGED <<counted, created, closed, step, bucket, renewing, held, queue, pending, work, admissionFaults, covered, stranded, missed>>
    BY DEF admissionVars, log, slots, waiting, history
  <1>2. LogTypes' /\ WorkersGood' /\ ItemsFresh'
    BY <1>1 DEF AdmissionIInv, LogTypes, WorkersGood, ItemsFresh
  <1>3. PendInv'
    BY <1>1, BatchesKept DEF AdmissionIInv
  <1>4. SlotInv'
    BY <1>1 DEF AdmissionIInv, SlotInv, SlotTypes, KeysDistinct, SlotsDistinct, CoverGood, Covers,
                FlightGood, RenewGood, RenewedForSomeone, SeenToLeave, At
  <1> QED BY <1>2, <1>3, <1>4 DEF AdmissionIInv

(* Every step keeps the inductive invariant.                                *)
LEMMA AdmissionStep == ASSUME AdmissionIInv, [AdmissionNext]_admissionVars PROVE AdmissionIInv'
  <1>1. ASSUME NEW w \in Workers,
               \/ \E r \in Runs : AdmitRun(w, r) \/ OpenRunTick(w, r)
               \/ CreateRun(w) \/ CreateFails(w)
               \/ EnqueueReady(w) \/ EnqueueFails(w)
        PROVE  AdmissionIInv'
    BY <1>1, AdmitRunKeeps, OpenRunTickKeeps, CreateRunKeeps, CreateFailsKeeps, EnqueueReadyKeeps,
       EnqueueFailsKeeps
  <1>2. ASSUME NEW w \in Workers,
               \/ Drain(w) \/ TakeItem(w) \/ CountInFlight(w) \/ Acquire(w)
               \/ Commit(w) \/ NotOurs(w) \/ Abort(w) \/ Hold(w)
        PROVE  AdmissionIInv'
    BY <1>2, DrainKeeps, TakeItemKeeps, CountInFlightKeeps, AcquireKeeps, CommitKeeps, NotOursKeeps,
       AbortKeeps, HoldKeeps
  <1>3. ASSUME NEW w \in Workers,
               \/ \E s \in Steps : Leave(w, s) \/ Redelivered(w, s) \/ OrphanOfClosed(w, s)
               \/ ReleaseHold(w)
        PROVE  AdmissionIInv'
    BY <1>3, LeaveKeeps, RedeliveredKeeps, OrphanOfClosedKeeps, ReleaseHoldKeeps
  <1>4. ASSUME NEW r \in Runs, CancelRun(r) PROVE AdmissionIInv'
    BY <1>4, CancelRunKeeps
  <1>5. ASSUME NEW s \in Steps, LeaveElsewhere(s) \/ Elapse(s) PROVE AdmissionIInv'
    BY <1>5, LeaveElsewhereKeeps, ElapseKeeps
  <1>6. ASSUME NEW k \in Keys, AgeOut(k) PROVE AdmissionIInv'
    BY <1>6, AgeOutKeeps
  <1>7. ASSUME NEW p \in Schedulers, Crash(p) \/ \E rev \in renewing[p] : RenewFails(p, rev) PROVE AdmissionIInv'
    BY <1>7, CrashKeeps, RenewFailsKeeps
  <1> QED BY <1>1, <1>2, <1>3, <1>4, <1>5, <1>6, <1>7, AdmissionStutters DEF AdmissionNext

(* The inductive invariant of admission holds throughout.                   *)
LEMMA AdmissionInvariance == AdmissionSpec => []AdmissionIInv
  <1>1. AdmissionInit => AdmissionIInv
    BY AdmissionInitInv
  <1>2. AdmissionIInv /\ [AdmissionNext]_admissionVars => AdmissionIInv'
    BY AdmissionStep
  <1> QED BY <1>1, <1>2, PTL DEF AdmissionSpec

(* Types: every run, item, slot, queue and worker stays within its type, a  *)
(* worker with a batch in hand has an item in it, and one that is           *)
(* dispatching has a slot.                                                  *)
THEOREM AdmissionTypesHold == AdmissionSpec => []AdmissionTypeOK
  <1>1. ASSUME AdmissionIInv PROVE AdmissionTypeOK
    <2>0. LogTypes /\ WorkersGood /\ SlotTypes /\ PendInv
      BY <1>1 DEF AdmissionIInv, SlotInv
    <2>1. work \in [Workers -> [pc : Places, run : Runs \cup {0}, todo : SUBSET Items,
                                batch : Seq(Items), item : Items \cup {NoItem},
                                index : Nat, slot : SlotSet]]
      BY <2>0 DEF WorkersGood, RecordGood, WorkSet
    <2>2. queue \in [Schedulers -> Queues(Items)]
      BY <2>0 DEF PendInv, Marked, QueueGood
    <2>3. ASSUME NEW w \in Workers
          PROVE  /\ work[w].pc = "take" => work[w].batch # <<>>
                 /\ (work[w].pc \in {"commit", "hold"}) = (work[w].slot # NoSlot)
      <3>1. RecordGood(work[w])
        BY <2>0 DEF WorkersGood
      <3>2. work[w].pc \in Slotted => work[w].slot # NoSlot
        BY <3>1, NoSlotFacts DEF RecordGood
      <3>3. work[w].pc \notin Slotted => work[w].slot = NoSlot
        BY <3>1 DEF RecordGood
      <3> QED BY <3>1, <3>2, <3>3 DEF RecordGood, Slotted
    <2> QED BY <2>0, <2>1, <2>2, <2>3 DEF AdmissionTypeOK, LogTypes, SlotTypes, PendInv
  <1> QED BY <1>1, AdmissionInvariance, PTL

(* Budgets: the steps of a pipeline that are in flight under a slot that    *)
(* has not aged out never outnumber its budget, for any number of planes,   *)
(* workers, steps and slots.                                                *)
THEOREM BudgetsAreHonoured == AdmissionSpec => []BudgetHonoured
  <1>1. ASSUME AdmissionIInv, NEW p \in Pipelines
        PROVE  Cardinality({s \in Steps : Pipeline(s) = p /\ step[s].phase = "out" /\ covered[s] # 0}) <= Limit[p]
    <2>0. CoverGood
      BY <1>1 DEF AdmissionIInv, SlotInv
    <2>s. PICK S : S = {s \in Steps : Pipeline(s) = p /\ step[s].phase = "out" /\ covered[s] # 0}
      OBVIOUS
    <2>n. PICK n \in Nat : n = Limit[p]
      BY AdmissionAssumption
    <2>1. \A s \in S : \E k \in Keys : k[1] = p /\ bucket[k] = covered[s]
      BY <2>0, <2>s DEF CoverGood, Covers
    <2>f. PICK f : f = [s \in S |-> (CHOOSE k \in Keys : k[1] = p /\ bucket[k] = covered[s])[2]]
      OBVIOUS
    <2>2. ASSUME NEW s \in S
          PROVE  <<p, f[s]>> \in Keys /\ bucket[<<p, f[s]>>] = covered[s] /\ f[s] \in 1 .. n
      <3>1. PICK k \in Keys : k = CHOOSE l \in Keys : l[1] = p /\ bucket[l] = covered[s]
        BY <2>1
      <3>2. k[1] = p /\ bucket[k] = covered[s] /\ f[s] = k[2]
        BY <2>1, <2>f, <3>1
      <3>3. k = <<p, k[2]>> /\ k[2] \in 1 .. Limit[p]
        BY <3>2, KeysArePairs
      <3> QED BY <2>n, <3>2, <3>3
    <2>3. f \in Injection(S, 1 .. n)
      <3>1. f \in [S -> 1 .. n]
        BY <2>2, <2>f
      <3>2. ASSUME NEW s \in S, NEW t \in S, f[s] = f[t] PROVE s = t
        <4>1. covered[s] = covered[t]
          BY <2>2, <3>2
        <4> QED BY <2>0, <2>s, <4>1 DEF CoverGood, Covers
      <3>3. \A s, t \in S : f[s] = f[t] => s = t
        BY ONLY <3>2
      <3>4. DOMAIN f = S
        BY <3>1
      <3> QED BY <3>1, <3>3, <3>4 DEF Injection, IsInjective
    <2>4. IsFiniteSet(1 .. n) /\ Cardinality(1 .. n) = n
      BY UpToFinite
    <2>5. Cardinality(S) <= Cardinality(1 .. n)
      BY <2>3, <2>4, FS_Injection
    <2> QED BY <2>n, <2>s, <2>4, <2>5
  <1>2. AdmissionIInv => BudgetHonoured
    BY <1>1 DEF BudgetHonoured
  <1> QED BY <1>2, AdmissionInvariance, PTL

(* A slot a plane keeps alive is that of a dispatch in progress, of a step  *)
(* in flight or about to be released, or of one that left flight unseen.    *)
THEOREM SlotsAreLetGo == AdmissionSpec => []SlotsFollowFlight
  <1>1. ASSUME AdmissionIInv, NEW p \in Schedulers, NEW rev \in renewing[p] \ missed
        PROVE  \/ \E w \in Workers : work[w].pc \in {"commit", "hold"} /\ work[w].slot.rev = rev
               \/ \E s \in Steps : held[p][s].rev = rev /\
                    \/ step[s].phase = "out"
                    \/ \E w \in Workers : At(w, "release") /\ work[w].item.step = s
    <2>0. SlotInv /\ WorkersGood
      BY <1>1 DEF AdmissionIInv
    <2>1. rev # 0
      BY <2>0 DEF SlotInv, RenewGood
    <2>2. ASSUME NEW w \in Workers, work[w].slot.rev = rev PROVE work[w].pc \in {"commit", "hold"}
      BY <2>0, <2>1, <2>2, NoSlotFacts DEF WorkersGood, RecordGood, Slotted
    <2>3. ASSUME NEW s \in Steps, held[p][s].rev = rev, step[s].phase # "out"
          PROVE  \E w \in Workers : At(w, "release") /\ work[w].item.step = s
      BY <2>0, <2>3 DEF SlotInv, SeenToLeave
    <2>4. (\E w \in Workers : work[w].slot.rev = rev) \/ (\E s \in Steps : held[p][s].rev = rev)
      BY <2>0 DEF SlotInv, RenewedForSomeone
    <2> QED BY <2>2, <2>3, <2>4
  <1>2. AdmissionIInv => SlotsFollowFlight
    BY <1>1 DEF SlotsFollowFlight
  <1> QED BY <1>2, AdmissionInvariance, PTL

(* A plane marks as pending exactly what is in its queue or in the hands of *)
(* a drain, apart from what an aborted drain dropped; nothing is queued     *)
(* twice, and the rotation holds exactly the tenants that wait.             *)
THEOREM PendingIsAccounted == AdmissionSpec => []PendingAccounted
  <1>1. ASSUME AdmissionIInv, NEW p \in Schedulers
        PROVE  /\ pending[p] = InQueue(p) \cup InHand(p) \cup stranded[p]
               /\ \A t \in Tenants : IsInjective([n \in DOMAIN queue[p].items[t] |-> queue[p].items[t][n].step])
               /\ Coherent(queue[p])
    <2>0. Marked(p)
      BY <1>1 DEF AdmissionIInv, PendInv
    <2>1. QueueGood(queue[p]) /\ pending[p] = InQueue(p) \cup InHand(p) \cup stranded[p]
      BY <2>0 DEF Marked
    <2>2. ASSUME NEW t \in Tenants
          PROVE  IsInjective([n \in DOMAIN queue[p].items[t] |-> queue[p].items[t][n].step])
      BY <2>1 DEF QueueGood, OneEach, IsInjective
    <2>q. PICK q : q = queue[p] /\ QueueGood(q)
      BY <2>1
    <2>3. Coherent(q)
      <3>1. q.active \in Seq(Tenants) /\ Rotation(q)
        BY <2>q DEF QueueGood, Queues
      <3>2. PICK l \in Seq(Tenants) : l = q.active
        BY <3>1
      <3>n. PICK n \in Nat : n = Len(l)
        OBVIOUS
      <3>3. ToSet(l) = Waiting(q) /\ \A i, j \in 1 .. n : l[i] = l[j] => i = j
        BY <3>1, <3>2, <3>n DEF Rotation
      <3>4. l \in Bijection(1 .. n, ToSet(l))
        <4>1. DOMAIN l = 1 .. n /\ l = [i \in 1 .. n |-> l[i]]
          BY <3>n
        <4>2. ToSet(l) = {l[i] : i \in 1 .. n}
          BY <4>1 DEF ToSet
        <4>3. l \in [1 .. n -> ToSet(l)]
          BY <4>1, <4>2
        <4> QED BY <3>3, <4>1, <4>2, <4>3 DEF Bijection, Injection, Surjection, IsInjective
      <3>5. IsFiniteSet(1 .. n) /\ Cardinality(1 .. n) = n
        BY UpToFinite
      <3>6. Cardinality(ToSet(l)) = n
        <4>1. ExistsBijection(1 .. n, ToSet(l))
          BY <3>4 DEF ExistsBijection
        <4> QED BY <3>5, <4>1, FS_Bijection
      <3> QED BY <3>1, <3>2, <3>n, <3>3, <3>6 DEF Coherent, Rotation
    <2> QED BY <2>1, <2>2, <2>3, <2>q
  <1>2. AdmissionIInv => PendingAccounted
    BY <1>1 DEF PendingAccounted
  <1> QED BY <1>2, AdmissionInvariance, PTL

(* Only a drain takes what is queued into a worker's hands.                 *)
LEMMA OnlyDrainTakes ==
    ASSUME AdmissionIInv, [AdmissionNext]_admissionVars, NEW w \in Workers, At(w, "enqueue"),
           work'[w].pc = "take"
    PROVE  Drain(w)
  <1>0. WorkersGood
    BY DEF AdmissionIInv
  <1>1. DOMAIN work = Workers /\ work[w].pc = "enqueue" /\ RecordGood(work[w])
    BY <1>0 DEF WorkersGood, At
  <1>2. work'[w] # work[w]
    BY <1>1
  <1>3. ASSUME NEW v \in Workers, NEW x, Become(v, x) PROVE v = w /\ x.pc = "take"
    BY <1>1, <1>2, <1>3 DEF Become
  <1>4. ASSUME NEW v \in Workers, NEW r, Plan(v, r) PROVE FALSE
    <2>1. PICK x : Become(v, x) /\ x = IF r \in closed \/ Finished(r) THEN IdleWork
                        ELSE [IdleWork EXCEPT !.pc = "enqueue", !.todo = ReadySteps(r)]
      BY <1>4 DEF Plan
    <2>2. x.pc \in {"idle", "enqueue"}
      BY <2>1 DEF IdleWork
    <2> QED BY <1>3, <2>1, <2>2
  <1>5. ASSUME NEW v \in Workers, NextItem(v) PROVE v = w
    BY <1>3, <1>5 DEF NextItem
  <1>6. IdleWork.pc # "take"
    BY DEF IdleWork
  <1>7. CASE UNCHANGED admissionVars
    BY <1>2, <1>7 DEF admissionVars
  <1>8. ASSUME NEW v \in Workers, NEW r \in Runs, AdmitRun(v, r) \/ OpenRunTick(v, r) PROVE FALSE
    <2>1. CASE AdmitRun(v, r)
      <3>1. At(v, "idle") /\ Become(v, [IdleWork EXCEPT !.pc = "admit", !.run = r])
        BY <2>1 DEF AdmitRun
      <3> QED BY <1>1, <1>3, <3>1 DEF At
    <2>2. CASE OpenRunTick(v, r)
      BY <1>4, <2>2 DEF OpenRunTick
    <2> QED BY <1>8, <2>1, <2>2
  <1>9. ASSUME NEW v \in Workers, CreateRun(v) \/ CreateFails(v) \/ EnqueueFails(v) PROVE FALSE
    <2>1. CASE CreateRun(v)
      BY <1>4, <2>1 DEF CreateRun
    <2>2. CASE CreateFails(v) \/ EnqueueFails(v)
      BY <1>3, <1>6, <2>2 DEF CreateFails, EnqueueFails
    <2> QED BY <1>9, <2>1, <2>2
  <1>10. ASSUME NEW v \in Workers, EnqueueReady(v) PROVE FALSE
    <2>1. PICK i : Become(v, [work[v] EXCEPT !.todo = @ \ {i}])
      BY <1>10 DEF EnqueueReady
    <2>2. v = w
      BY <1>3, <2>1
    <2>3. [work[w] EXCEPT !.todo = @ \ {i}].pc = "enqueue"
      BY <1>1, RecordFacts
    <2> QED BY <1>3, <2>1, <2>2, <2>3
  <1>11. ASSUME NEW v \in Workers, TakeItem(v) \/ CountInFlight(v) \/ Acquire(v) PROVE FALSE
    <2>1. v # w
      BY <1>1, <1>11 DEF TakeItem, CountInFlight, Acquire, At
    <2>2. \E x : Become(v, x)
      <3>1. CASE TakeItem(v)
        BY <3>1 DEF TakeItem
      <3>2. CASE CountInFlight(v)
        BY <3>2 DEF CountInFlight, NextItem
      <3>3. CASE Acquire(v)
        BY <3>3 DEF Acquire, NextItem
      <3> QED BY <1>11, <3>1, <3>2, <3>3
    <2> QED BY <1>3, <2>1, <2>2
  <1>12. ASSUME NEW v \in Workers, Commit(v) \/ NotOurs(v) \/ Abort(v) \/ Hold(v) PROVE FALSE
    <2>1. v # w
      BY <1>1, <1>12 DEF Commit, NotOurs, Abort, Hold, At
    <2>2. \E x : Become(v, x)
      BY <1>12 DEF Commit, NotOurs, Abort, Hold, Goto, NextItem
    <2> QED BY <1>3, <2>1, <2>2
  <1>13. ASSUME NEW v \in Workers, NEW s \in Steps, Leave(v, s) \/ Redelivered(v, s) \/ OrphanOfClosed(v, s)
         PROVE  FALSE
    <2>1. CASE Leave(v, s) \/ Redelivered(v, s)
      <3>1. At(v, "idle") /\ \E x : Become(v, x)
        BY <2>1 DEF Leave, Redelivered
      <3> QED BY <1>1, <1>3, <3>1 DEF At
    <2>2. CASE OrphanOfClosed(v, s)
      BY <1>2, <2>2 DEF OrphanOfClosed
    <2> QED BY <1>13, <2>1, <2>2
  <1>14. ASSUME NEW v \in Workers, ReleaseHold(v) PROVE FALSE
    BY <1>4, <1>14 DEF ReleaseHold
  <1>15. ASSUME NEW v \in Workers, Drain(v) PROVE v = w
    BY <1>3, <1>15 DEF Drain
  <1>16. ASSUME NEW r \in Runs, CancelRun(r) PROVE FALSE
    BY <1>2, <1>16 DEF CancelRun
  <1>17. ASSUME NEW s \in Steps, LeaveElsewhere(s) \/ Elapse(s) PROVE FALSE
    BY <1>2, <1>17 DEF LeaveElsewhere, Elapse
  <1>18. ASSUME NEW k \in Keys, AgeOut(k) PROVE FALSE
    BY <1>2, <1>18 DEF AgeOut
  <1>19. ASSUME NEW p \in Schedulers, Crash(p) PROVE FALSE
    <2>1. work'[w] \in {IdleWork, work[w]}
      BY <1>19 DEF Crash
    <2> QED BY <1>2, <1>6, <2>1
  <1>20. ASSUME NEW p \in Schedulers, NEW rev \in renewing[p], RenewFails(p, rev) PROVE FALSE
    BY <1>2, <1>20 DEF RenewFails
  <1> QED BY <1>7, <1>8, <1>9, <1>10, <1>11, <1>12, <1>13, <1>14, <1>15, <1>16, <1>17, <1>18, <1>19, <1>20
         DEF AdmissionNext

(* One drain serves in turn: while a tenant that was waiting has had no     *)
(* item of it, no other has had more than the credit of one turn, whatever  *)
(* the weights and the number of slots (fairness.go: Next).                 *)
THEOREM DrainsServeInTurn == AdmissionSpec => DrainServesInTurn
  <1> DEFINE Fair == \A w \in Workers : At(w, "enqueue") /\ work'[w].pc = "take" =>
         \A t, u \in Tenants :
           LET got(x) == Cardinality({n \in DOMAIN work'[w].batch : Tenant(work'[w].batch[n].step) = x})
           IN queue[PlaneOf[w]].items[t] # <<>> /\ got(t) = 0 => got(u) <= Weight[u]
  <1>1. AdmissionIInv /\ [AdmissionNext]_admissionVars => [Fair]_admissionVars
    <2> SUFFICES ASSUME AdmissionIInv, [AdmissionNext]_admissionVars, NEW w \in Workers,
                        At(w, "enqueue"), work'[w].pc = "take",
                        NEW t \in Tenants, NEW u \in Tenants, queue[PlaneOf[w]].items[t] # <<>>,
                        Cardinality({n \in DOMAIN work'[w].batch : Tenant(work'[w].batch[n].step) = t}) = 0
                 PROVE  Cardinality({n \in DOMAIN work'[w].batch : Tenant(work'[w].batch[n].step) = u}) <= Weight[u]
      OBVIOUS
    <2>0. WorkersGood /\ DOMAIN work = Workers
      BY DEF AdmissionIInv, WorkersGood
    <2>1. Drain(w)
      BY OnlyDrainTakes
    <2>q. PICK q : q = queue[PlaneOf[w]] /\ QueueGood(q)
      BY DEF AdmissionIInv, PendInv, Marked, Schedulers
    <2>k. PICK k \in 1 .. MaxSlots :
             Become(w, IF TakeNext(q, k).taken = <<>> THEN IdleWork
                       ELSE [IdleWork EXCEPT !.pc = "take", !.batch = TakeNext(q, k).taken])
      BY <2>1, <2>q DEF Drain
    <2>2. PICK r, x : /\ r = TakeNext(q, k) /\ Become(w, x)
                      /\ x = IF r.taken = <<>> THEN IdleWork
                             ELSE [IdleWork EXCEPT !.pc = "take", !.batch = r.taken]
      BY <2>k
    <2>3. work'[w] = x /\ x.pc = "take"
      BY <2>0, <2>2 DEF Become
    <2>4. x.batch = r.taken
      BY <2>2, <2>3 DEF IdleWork
    <2>5. k \in Nat
      BY AdmissionAssumption
    <2>6. PassGood(r, q) /\ InTurn(r, q)
      BY <2>q, <2>2, <2>5, TakeNextGood
    <2>7. \A y : {n \in DOMAIN work'[w].batch : Tenant(work'[w].batch[n].step) = y} = OfTenant(r.taken, y)
      BY <2>3, <2>4 DEF OfTenant
    <2>8. OfTenant(r.taken, t) = {}
      <3>1. PICK N \in Nat : DOMAIN r.taken = 1 .. N
        BY <2>6 DEF PassGood
      <3>2. IsFiniteSet(1 .. N)
        BY UpToFinite
      <3>3. OfTenant(r.taken, t) \subseteq 1 .. N
        BY <3>1 DEF OfTenant
      <3>4. IsFiniteSet(OfTenant(r.taken, t))
        BY <3>2, <3>3, FS_Subset
      <3>5. Cardinality(OfTenant(r.taken, t)) = 0
        BY <2>7
      <3> QED BY <3>4, <3>5, FS_EmptySet
    <2>9. t \in Waiting(q)
      BY <2>q DEF Waiting
    <2> QED BY <2>6, <2>7, <2>8, <2>9 DEF InTurn, OneTurnEach
  <1>2. DrainServesInTurn <=> [][Fair]_admissionVars
    BY DEF DrainServesInTurn
  <1> QED BY <1>1, <1>2, AdmissionInvariance, PTL DEF AdmissionSpec
==============================================================================
