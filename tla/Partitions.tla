----------------------------- MODULE Partitions -----------------------------
(***************************************************************************)
(* The partition ring (internal/server/partition.go).  Every run belongs to *)
(* a partition, and a plane advances the runs of the partitions it holds.   *)
(* Claims and memberships are keys of one bucket with a deadline inside;    *)
(* planes agree only through revision-checked writes.                       *)
(*                                                                         *)
(* A plane is one PROCESS: its instance id is drawn when it starts, so one  *)
(* that stops never comes back under that id.  Time is relative: what is    *)
(* kept of a deadline is the time left, Lapsed once it has passed.          *)
(***************************************************************************)
EXTENDS Integers, FiniteSets, FiniteSetsExt

CONSTANTS
    Instances,     \* instance ids, as naturals: the code sorts them
    Count,         \* PartitionCount
    TTL,           \* defaultPartitionTTL in ticks of the clock
    MaxRingFaults  \* bound: processes that stop, passes that fail or come late

ASSUME PartitionsAssumption ==
    /\ Instances \subseteq Nat /\ IsFiniteSet(Instances)
    /\ Count \in Nat \ {0} /\ TTL \in Nat \ {0} /\ MaxRingFaults \in Nat

Parts == 0 .. Count - 1
Lapsed == -1
Left == Lapsed .. TTL
NoClaim == [owner |-> -1, left |-> Lapsed]
Claims == [owner : Instances \cup {-1}, left : Left]

VARIABLES
    member,     \* per plane, the time its membership key has left
    claim,      \* per partition, the claim key: its owner and the time left
    pc,         \* where the plane is in ClaimPartitions
    pass,       \* what it has read and decided in this pass
    owned,      \* the partitions it believes it owns: what Owns consults
    lease,      \* history: time left of the last claim a plane wrote on a partition
    beaten,     \* history: the planes that finished a pass since the clock moved
    ringFaults  \* faults left

ringVars == <<member, claim, pc, pass, owned, lease, beaten, ringFaults>>

NoPass == [members |-> {}, unread |-> {}, seen |-> [q \in Parts |-> NoClaim],
           moved |-> {}, mine |-> {}, todo |-> {}, offset |-> 0]
Passes == [members : SUBSET Instances, unread : SUBSET Parts, seen : [Parts -> Claims],
           moved : SUBSET Parts, mine : SUBSET Parts, todo : SUBSET Parts, offset : 0 .. Count]
RingSteps == {"new", "idle", "members", "owners", "surplus", "renew", "take", "dead"}

RingTypeOK ==
    /\ member \in [Instances -> Left]
    /\ claim \in [Parts -> Claims]
    /\ pc \in [Instances -> RingSteps]
    /\ pass \in [Instances -> Passes]
    /\ owned \in [Instances -> SUBSET Parts]
    /\ lease \in [Instances -> [Parts -> Left]]
    /\ beaten \subseteq Instances
    /\ ringFaults \in 0 .. MaxRingFaults

RingInit ==
    /\ member = [p \in Instances |-> Lapsed]
    /\ claim = [q \in Parts |-> NoClaim]
    /\ pc = [p \in Instances |-> "new"]
    /\ pass = [p \in Instances |-> NoPass]
    /\ owned = [p \in Instances |-> {}]
    /\ lease = [p \in Instances |-> [q \in Parts |-> Lapsed]]
    /\ beaten = {}
    /\ ringFaults = MaxRingFaults

Alive(p) == pc[p] \notin {"new", "dead"}

(* A write moves the key's revision, so every pass that read it before, the *)
(* writer's own included, can no longer update or delete it.                *)
Moved(q) ==
    [p \in Instances |-> IF pc[p] \in {"owners", "surplus", "renew", "take"}
                      THEN [pass[p] EXCEPT !.moved = @ \cup {q}] ELSE pass[p]]

-----------------------------------------------------------------------------
(* One pass of ClaimPartitions, read by read and write by write.            *)

(* startPartitioning and the tick of renewLoop, once per tick of the clock: *)
(* announce's Put of the plane's own membership.                            *)
Announce(p) ==
    /\ pc[p] \in {"new", "idle"} /\ p \notin beaten
    /\ member' = [member EXCEPT ![p] = TTL]
    /\ pc' = [pc EXCEPT ![p] = "members"]
    /\ pass' = [pass EXCEPT ![p] = NoPass]
    /\ UNCHANGED <<claim, owned, lease, beaten, ringFaults>>

(* liveMembers: every membership not lapsed, and always this instance.      *)
LiveMembers(p) ==
    /\ pc[p] = "members"
    /\ pass' = [pass EXCEPT ![p].members = {p} \cup {o \in Instances : member[o] # Lapsed},
                            ![p].unread = Parts]
    /\ pc' = [pc EXCEPT ![p] = "owners"]
    /\ UNCHANGED <<member, claim, owned, lease, beaten, ringFaults>>

\* Mutant: floor in place of ceiling, shares that do not cover the ring.
ShareRoundedDown(p) == Count \div Cardinality(pass[p].members)

Share(p) == (Count + Cardinality(pass[p].members) - 1) \div Cardinality(pass[p].members)

(* owners and records: one Get per key the listing named, in its order.  An *)
(* expired claim is kept, since taking it over is a write against its key.  *)
ReadOwner(p) ==
    /\ pc[p] = "owners"
    /\ \E q \in pass[p].unread :
          pass' = [pass EXCEPT ![p] = [pass[p] EXCEPT
                       !.unread = @ \ {q}, !.seen = [@ EXCEPT ![q] = claim[q]], !.moved = @ \ {q}]]
    /\ UNCHANGED <<member, claim, pc, owned, lease, beaten, ringFaults>>

(* The claims that are this plane's and have not expired.                   *)
Mine(p) ==
    /\ pc[p] = "owners" /\ pass[p].unread = {}
    /\ LET mine == {q \in Parts : pass[p].seen[q].owner = p /\ pass[p].seen[q].left # Lapsed}
       IN  pass' = [pass EXCEPT ![p].mine = mine]
    /\ pc' = [pc EXCEPT ![p] = "surplus"]
    /\ UNCHANGED <<member, claim, owned, lease, beaten, ringFaults>>

(* Beyond its share the plane forgets the last partition, and deletes its   *)
(* key at the revision it read.                                             *)
ReleaseSurplus(p) ==
    /\ pc[p] = "surplus" /\ Cardinality(pass[p].mine) > Share(p)
    /\ LET q == Max(pass[p].mine) IN
       /\ owned' = [owned EXCEPT ![p] = @ \ {q}]
       /\ IF q \in pass[p].moved
          THEN /\ pass' = [pass EXCEPT ![p].mine = @ \ {q}]
               /\ UNCHANGED claim
          ELSE /\ pass' = [Moved(q) EXCEPT ![p].mine = @ \ {q}]
               /\ claim' = [claim EXCEPT ![q] = NoClaim]
    /\ UNCHANGED <<member, pc, lease, beaten, ringFaults>>

Surplusless(p) ==
    /\ pc[p] = "surplus" /\ Cardinality(pass[p].mine) =< Share(p)
    /\ pc' = [pc EXCEPT ![p] = "renew"]
    /\ pass' = [pass EXCEPT ![p].todo = pass[p].mine]
    /\ UNCHANGED <<member, claim, owned, lease, beaten, ringFaults>>

(* write: a claim of p on q, with a deadline a TTL away.                    *)
Write(p, q) ==
    /\ claim' = [claim EXCEPT ![q] = [owner |-> p, left |-> TTL]]
    /\ lease' = [lease EXCEPT ![p][q] = TTL]

(* Renewal in order, each an Update at the revision read.  Refused, the key *)
(* moved: the plane forgets the partition.                                  *)
Renew(p) ==
    /\ pc[p] = "renew" /\ pass[p].todo # {}
    /\ LET q == Min(pass[p].todo) IN
       \/ /\ q \notin pass[p].moved
          /\ Write(p, q)
          /\ pass' = [Moved(q) EXCEPT ![p].todo = @ \ {q}]
          /\ UNCHANGED owned
       \/ /\ q \in pass[p].moved
          /\ owned' = [owned EXCEPT ![p] = @ \ {q}]
          /\ pass' = [pass EXCEPT ![p].todo = @ \ {q}, ![p].mine = @ \ {q}]
          /\ UNCHANGED <<claim, lease>>
    /\ UNCHANGED <<member, pc, beaten, ringFaults>>

Renewed(p) ==
    /\ pc[p] = "renew" /\ pass[p].todo = {}
    /\ pc' = [pc EXCEPT ![p] = "take"]
    /\ UNCHANGED <<member, claim, pass, owned, lease, beaten, ringFaults>>

(* Where this plane starts to reach for free partitions.                    *)
Start(p) ==
    (Cardinality({o \in pass[p].members : o < p}) * Count) \div Cardinality(pass[p].members)

\* Mutant: a claim is free already at its deadline.
FreeAtDeadline(p, q) == pass[p].seen[q].left =< 0

(* The claim key was seen missing or expired (by the clock as it is now).   *)
Free(p, q) == pass[p].seen[q].left = Lapsed

(* Create where no key was seen, Update at the revision read where one was. *)
Lands(p, q) ==
    IF pass[p].seen[q] = NoClaim THEN claim[q] = NoClaim ELSE q \notin pass[p].moved

TakeFree(p) ==
    /\ pc[p] = "take" /\ pass[p].offset < Count /\ Cardinality(pass[p].mine) < Share(p)
    /\ LET q == (Start(p) + pass[p].offset) % Count IN
       \/ /\ q \notin pass[p].mine /\ Free(p, q) /\ Lands(p, q)
          /\ Write(p, q)
          /\ pass' = [Moved(q) EXCEPT ![p].mine = @ \cup {q}, ![p].offset = @ + 1]
       \/ /\ q \in pass[p].mine \/ ~Free(p, q) \/ ~Lands(p, q)
          /\ pass' = [pass EXCEPT ![p].offset = @ + 1]
          /\ UNCHANGED <<claim, lease>>
    /\ UNCHANGED <<member, pc, owned, beaten, ringFaults>>

(* publish: the local view is replaced by what the pass ends with.          *)
Publish(p) ==
    /\ pc[p] = "take"
    /\ pass[p].offset = Count \/ Cardinality(pass[p].mine) >= Share(p)
    /\ owned' = [owned EXCEPT ![p] = pass[p].mine]
    /\ pc' = [pc EXCEPT ![p] = "idle"]
    /\ pass' = [pass EXCEPT ![p] = NoPass]
    /\ beaten' = beaten \cup {p}
    /\ UNCHANGED <<member, claim, lease, ringFaults>>

-----------------------------------------------------------------------------
(* The bus does not answer: a Put or a read fails, ClaimPartitions returns, *)
(* renewLoop logs it, and what the plane holds stays as it was.             *)
PassFails(p) ==
    /\ pc[p] \in {"idle", "members", "owners"} /\ p \notin beaten /\ ringFaults > 0
    /\ ringFaults' = ringFaults - 1
    /\ pc' = [pc EXCEPT ![p] = "idle"]
    /\ pass' = [pass EXCEPT ![p] = NoPass]
    /\ beaten' = beaten \cup {p}
    /\ UNCHANGED <<member, claim, owned, lease>>

(* The process ends, in a crash or in Stop: neither gives anything back.    *)
Dies(p) ==
    /\ Alive(p) /\ ringFaults > 0
    /\ ringFaults' = ringFaults - 1
    /\ pc' = [pc EXCEPT ![p] = "dead"]
    /\ pass' = [pass EXCEPT ![p] = NoPass]
    /\ owned' = [owned EXCEPT ![p] = {}]
    /\ beaten' = beaten \ {p}
    /\ UNCHANGED <<member, claim, lease>>

Older(l) == IF l = Lapsed THEN Lapsed ELSE l - 1
Aged(c) == [c EXCEPT !.left = Older(@)]

(* Time passes.  A plane renews three times a TTL, so in the ordinary case  *)
(* every plane finishes a pass from one tick to the next; a plane that does *)
(* not is a fault.                                                          *)
RingTick ==
    LET late == {p \in Instances : Alive(p) /\ ~(p \in beaten /\ pc[p] = "idle")} IN
    /\ \/ late = {} /\ UNCHANGED ringFaults
       \/ late # {} /\ ringFaults > 0 /\ ringFaults' = ringFaults - 1
    /\ member' = [p \in Instances |-> Older(member[p])]
    /\ claim' = [q \in Parts |-> Aged(claim[q])]
    /\ lease' = [p \in Instances |-> [q \in Parts |-> Older(lease[p][q])]]
    /\ pass' = [p \in Instances |-> [pass[p] EXCEPT
                   !.seen = [q \in Parts |-> Aged(pass[p].seen[q])]]]
    /\ beaten' = {}
    /\ UNCHANGED <<pc, owned>>

Claiming(p) ==
    \/ LiveMembers(p) \/ ReadOwner(p) \/ Mine(p) \/ ReleaseSurplus(p) \/ Surplusless(p)
    \/ Renew(p) \/ Renewed(p) \/ TakeFree(p) \/ Publish(p)

RingNext ==
    \/ \E p \in Instances : Announce(p) \/ Claiming(p) \/ PassFails(p) \/ Dies(p)
    \/ RingTick

RingSpec == RingInit /\ [][RingNext]_ringVars

(* Every pass ends, the tickers of the planes and the clock go on.          *)
FairSpec ==
    /\ RingSpec
    /\ \A p \in Instances : WF_ringVars(Announce(p)) /\ WF_ringVars(Claiming(p))
    /\ WF_ringVars(RingTick)

-----------------------------------------------------------------------------
(* Who may advance a run: a plane whose local view has its partition.       *)
Owns(p, q) == Alive(p) /\ q \in owned[p]

(* One plane advances a run at a time: a plane that acts on a partition has *)
(* its claim in the bucket, or has gone a whole TTL without renewing it.    *)
(* Two planes therefore never both act within their deadlines, whoever      *)
(* joins, stops or loses the bus in the middle of a pass.                   *)
OneOwner ==
    \A p \in Instances, q \in Parts :
        Owns(p, q) => claim[q].owner = p \/ lease[p][q] = Lapsed

(* The ring settles: once planes stop failing, every partition is held by   *)
(* exactly one plane, no plane holds more than its share, and it stays so.  *)
RingSettles ==
    LET live == {p \in Instances : Alive(p)}
        settled ==
            /\ \A q \in Parts : Cardinality({p \in live : Owns(p, q)}) = 1
            /\ \A p \in live : Cardinality(owned[p]) * Cardinality(live) < Count + Cardinality(live)
    IN  <>[](settled \/ live = {})

=============================================================================
