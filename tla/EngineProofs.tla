---------------------------- MODULE EngineProofs ----------------------------
(***************************************************************************)
(* Proofs about modules Engine and Sandboxes, for any number of engines,    *)
(* dispatches, queues, slots and sandboxes, every backend, and any number   *)
(* of faults.                                                               *)
(*                                                                         *)
(* What an engine knows of its sandboxes is its own: the attempts a, the    *)
(* sandboxes x and the pool p of one engine under one backend k.  The first *)
(* part is about these as plain values, one lemma for each thing that can   *)
(* happen to them; the second part shows that every action of the engine is *)
(* one of those things, or leaves them alone.                               *)
(***************************************************************************)
EXTENDS Engine, TLAPS, WellFoundedInduction, FiniteSetTheorems, SequenceTheorems

(* The stages of a dispatch that is in an engine until its command has      *)
(* ended, those in which it has a sandbox, and those with nothing of either *)
(* the pool's or a sandbox's.                                               *)
Working == {"held", "slot", "owned", "making", "boxed", "running"}
Leased == {"boxed", "running", "exited"}
Apart == {"none", "held", "slot", "owned", "publishing"}

(* Whoever works on a dispatch is alone, and has its delivery, unless an    *)
(* engine that was stopped while it published has acknowledged it since.    *)
HolderInv ==
    \A d \in Dispatches, e \in Engines : Stage(e, d) \in Working =>
        /\ msg[d] \in {e, "acked"}
        /\ \A f \in Engines : Stage(f, d) \in Working => f = e

(* An attempt has a sandbox from its Acquire to its Release: one that is    *)
(* up, is its own alone and, in a pool, its tenant's.                       *)
Leases(k, a, x) ==
    \A d \in Dispatches :
        /\ a[d].stage \in Leased => a[d].box \in Boxes /\ x[a[d].box].up = "yes"
        /\ a[d].stage \notin Leased => a[d].box = 0
        /\ a[d].stage = "making" => k = "pool"
        /\ k = "pool" /\ a[d].stage \in Leased => x[a[d].box].tenant = TenantOf[d]
        /\ \A c \in Dispatches :
              a[d].stage \in Leased /\ a[c].stage \in Leased /\ a[c].box = a[d].box => c = d

(* What is idle is up, whole, listed once and leased to nobody.             *)
Idles(k, a, x, p) ==
    /\ k # "pool" => p = EmptyPool
    /\ \A i \in 1 .. Len(p.idle) :
          /\ x[p.idle[i]].up = "yes" /\ ~x[p.idle[i]].broken
          /\ \A j \in 1 .. Len(p.idle) : p.idle[i] = p.idle[j] => i = j
          /\ \A d \in Dispatches : a[d].stage \in Leased => a[d].box # p.idle[i]

Standing(x) == {b \in Boxes : x[b].up = "yes"}
Making(a) == {d \in Dispatches : a[d].stage = "making"}

(* The pool's count is of the sandboxes there are and those being made.     *)
Counted(k, a, x, p) ==
    k = "pool" => p.live = Cardinality(Standing(x)) + Cardinality(Making(a))

(* What ending a command may leave running.                                 *)
Spared(k) == IF k \in {"process", "pool"} THEN {"daemon"} ELSE {}

(* A command that was ended is over, and of its tree nothing is left in the *)
(* sandbox, and then behind it, that is not spared.                         *)
Trees(k, a, x) ==
    \A d \in Dispatches : a[d].killed =>
        /\ a[d].stage \in {"exited", "publishing"}
        /\ a[d].stage = "exited" /\ k \in {"process", "pool"} =>
              \A r \in Roles : <<d, r>> \in x[a[d].box].procs => r = "daemon"
        /\ a[d].stage = "publishing" => a[d].left \subseteq Spared(k)

Inputs(a, x) ==
    \A d \in Dispatches : a[d].stage = "running" => x[a[d].box].input = Source

Typed(a, x, p) ==
    a \in [Dispatches -> AttemptType] /\ x \in [Boxes -> BoxType] /\ p \in PoolType

(* The inductive invariant of one engine's attempts, sandboxes and pool.    *)
Sound(k, a, x, p) ==
    /\ Typed(a, x, p) /\ Leases(k, a, x) /\ Idles(k, a, x, p) /\ Counted(k, a, x, p)
    /\ Trees(k, a, x) /\ Inputs(a, x)

--------------------------------------------------------------------------------
(* Least and greatest elements, and counting.                               *)

(* A set of naturals has a least element.                                   *)
LEMMA LeastOf ==
    ASSUME NEW T, T \subseteq Nat, T # {}
    PROVE  \E x \in T : \A y \in T : x <= y
  <1> DEFINE R == {ss \in Nat \X Nat : ss[1] < ss[2]}
  <1>1. IsWellFoundedOn(R, Nat)
    BY NatLessThanWellFounded DEF OpToRel
  <1>2. \E x \in T : \A y \in T : ~ (<<y, x>> \in R)
    <2> HIDE DEF R
    <2> QED BY <1>1, WFMin
  <1>3. PICK x \in T : \A y \in T : ~ (<<y, x>> \in R)
    BY <1>2
  <1>4. ASSUME NEW y \in T PROVE x <= y
    <2>1. \A m, n \in Nat : m < n => <<m, n>> \in R
      OBVIOUS
    <2>2. x \in Nat /\ y \in Nat /\ ~ (y < x)
      BY <1>3, <2>1
    <2> QED BY <2>2
  <1> QED BY <1>4

LEMMA MinIsMember ==
    ASSUME NEW T, T \subseteq Nat, T # {}
    PROVE  Min(T) \in T
  BY LeastOf DEF Min

(* The greatest of a set within 1 .. n is the one with the least distance   *)
(* to n.                                                                    *)
LEMMA MaxIsMember ==
    ASSUME NEW n \in Nat, NEW T, T \subseteq 1 .. n, T # {}
    PROVE  Max(T) \in T
  <1> DEFINE D == {m \in Nat : n - m \in T}
  <1>1. D # {}
    <2>1. PICK t \in T : TRUE
      OBVIOUS
    <2>2. n - t \in Nat /\ n - (n - t) = t
      BY <2>1
    <2> QED BY <2>1, <2>2
  <1>2. PICK m \in D : \A y \in D : m <= y
    <2> HIDE DEF D
    <2>1. D \subseteq Nat
      BY DEF D
    <2> QED BY <1>1, <2>1, LeastOf
  <1>3. ASSUME NEW t \in T PROVE n - m >= t
    <2>1. n - t \in Nat /\ n - (n - t) = t
      OBVIOUS
    <2>2. n - t \in D
      BY <2>1
    <2> QED BY <2>1, <2>2, <1>2
  <1>4. n - m \in T
    BY <1>2
  <1> QED BY <1>3, <1>4 DEF Max

(* A sequence without repetition has as many elements as it is long.        *)
LEMMA CountOfSequence ==
    ASSUME NEW n \in Nat, NEW T, NEW f \in [1 .. n -> T],
           \A t \in T : \E i \in 1 .. n : f[i] = t,
           \A i, j \in 1 .. n : f[i] = f[j] => i = j
    PROVE  IsFiniteSet(T) /\ Cardinality(T) = n
  <1>1. f \in Bijection(1 .. n, T)
    BY DEF Bijection, Injection, Surjection, IsInjective
  <1>2. ExistsBijection(1 .. n, T)
    BY <1>1 DEF ExistsBijection
  <1> QED BY <1>2, FS_CountingElements, FS_NatBijection

(* What the pool counts are natural numbers.                                *)
LEMMA CountsAreNat ==
    ASSUME NEW a, NEW x
    PROVE  /\ IsFiniteSet(Standing(x)) /\ Cardinality(Standing(x)) \in Nat
           /\ IsFiniteSet(Making(a)) /\ Cardinality(Making(a)) \in Nat
  <1>1. IsFiniteSet(Boxes)
    BY EngineAssumption, FS_Interval DEF Boxes
  <1>2. IsFiniteSet(Dispatches)
    BY EngineAssumption
  <1>3. Standing(x) \in SUBSET Boxes /\ Making(a) \in SUBSET Dispatches
    BY DEF Standing, Making
  <1> QED BY <1>1, <1>2, <1>3, FS_Subset, FS_CardinalityType

--------------------------------------------------------------------------------
(* What can happen to an engine's attempts, sandboxes and pool.             *)

(* Nothing that a sandbox or the pool would notice.                         *)
LEMMA QuietSound ==
    ASSUME NEW k, NEW a, NEW x, NEW p, NEW a2 \in [Dispatches -> AttemptType],
           Sound(k, a, x, p),
           \A d \in Dispatches :
              \/ /\ a2[d].stage = a[d].stage /\ a2[d].box = a[d].box
                 /\ a2[d].killed = a[d].killed /\ a2[d].left = a[d].left
              \/ /\ a[d].stage \in Apart /\ a2[d].stage \in Apart
                 /\ a2[d].box = 0 /\ ~a2[d].killed
    PROVE  Sound(k, a2, x, p)
  <1>1. Typed(a2, x, p)
    BY DEF Sound, Typed
  <1>2. Leases(k, a2, x)
    BY DEF Sound, Leases, Apart, Leased
  <1>3. Idles(k, a2, x, p)
    BY DEF Sound, Idles, Apart, Leased
  <1>4. Counted(k, a2, x, p)
    <2>1. Making(a2) = Making(a)
      BY DEF Making, Apart
    <2> QED BY <2>1 DEF Sound, Counted
  <1>5. Trees(k, a2, x)
    BY DEF Sound, Trees, Apart
  <1>6. Inputs(a2, x)
    BY DEF Sound, Inputs, Apart
  <1> QED BY <1>1, <1>2, <1>3, <1>4, <1>5, <1>6 DEF Sound

(* Only one attempt, one sandbox, is another.                               *)
OnlyAt(a, a2, d) ==
    a2 \in [Dispatches -> AttemptType] /\ \A c \in Dispatches : c # d => a2[c] = a[c]
OnlyBox(x, x2, b) ==
    x2 \in [Boxes -> BoxType] /\ \A w \in Boxes : w # b => x2[w] = x[w]

PoolIs(p2, live, idle, closed) == p2 = [live |-> live, idle |-> idle, closed |-> closed]

(* A sandbox was made for an attempt: by a backend, or in the slot that the *)
(* pool had reserved.                                                       *)
LEMMA MadeSound ==
    ASSUME NEW k, NEW a, NEW x, NEW p, Sound(k, a, x, p),
           NEW d \in Dispatches, NEW b \in Boxes,
           NEW a2, NEW x2, OnlyAt(a, a2, d), OnlyBox(x, x2, b),
           a[d].stage = IF k = "pool" THEN "making" ELSE "owned",
           x[b].up = "no",
           a2[d].stage = "boxed", a2[d].box = b, a2[d].killed = FALSE,
           x2[b].up = "yes", x2[b].tenant = TenantOf[d]
    PROVE  Sound(k, a2, x2, p)
  <1>t. Typed(a, x, p)
    BY DEF Sound
  <1>n. PICK n \in AttemptType : n = a2[d]
    BY DEF OnlyAt
  <1>a. /\ a2 \in [Dispatches -> AttemptType] /\ a2[d] = n
        /\ \A c \in Dispatches : c # d => a2[c] = a[c]
    BY <1>n DEF OnlyAt
  <1>y. PICK y \in BoxType : y = x2[b]
    BY DEF OnlyBox
  <1>x. /\ x2 \in [Boxes -> BoxType] /\ x2[b] = y
        /\ \A w \in Boxes : w # b => x2[w] = x[w]
    BY <1>y DEF OnlyBox
  <1>l. \A c \in Dispatches :
           a[c].stage \in Leased => a[c].box \in Boxes /\ a[c].box # b /\ c # d
    BY DEF Sound, Leases, Leased
  <1>1. Typed(a2, x2, p)
    BY <1>a, <1>x, <1>t DEF Typed
  <1>2. Leases(k, a2, x2)
    BY <1>a, <1>x, <1>l DEF Sound, Leases, Leased
  <1>3. Idles(k, a2, x2, p)
    <2>1. \A i \in 1 .. Len(p.idle) : p.idle[i] \in Boxes /\ p.idle[i] # b
      BY <1>t DEF Sound, Idles, Typed, PoolType
    <2> QED BY <2>1, <1>a, <1>x, <1>l DEF Sound, Idles, Leased
  <1>4. Counted(k, a2, x2, p)
    <2>1. SUFFICES ASSUME k = "pool"
                   PROVE  p.live = Cardinality(Standing(x2)) + Cardinality(Making(a2))
      BY DEF Counted
    <2>2. Standing(x2) = Standing(x) \cup {b} /\ b \notin Standing(x)
      BY <1>x DEF Standing
    <2>3. Making(a2) = Making(a) \ {d} /\ d \in Making(a)
      BY <1>a, <2>1 DEF Making
    <2>4. Cardinality(Standing(x2)) = Cardinality(Standing(x)) + 1
      BY <2>2, CountsAreNat, FS_AddElement
    <2>5. Cardinality(Making(a2)) = Cardinality(Making(a)) - 1
      BY <2>3, CountsAreNat, FS_RemoveElement
    <2> QED BY <2>1, <2>4, <2>5, CountsAreNat DEF Sound, Counted
  <1>5. Trees(k, a2, x2)
    <2> SUFFICES ASSUME NEW c \in Dispatches, a2[c].killed
                 PROVE  /\ a2[c].stage \in {"exited", "publishing"}
                        /\ a2[c].stage = "exited" /\ k \in {"process", "pool"} =>
                              \A r \in Roles : <<c, r>> \in x2[a2[c].box].procs => r = "daemon"
                        /\ a2[c].stage = "publishing" => a2[c].left \subseteq Spared(k)
      BY DEF Trees
    <2>1. c # d /\ a2[c] = a[c]
      BY <1>a
    <2>2. a[c].stage = "exited" => x2[a[c].box] = x[a[c].box]
      BY <1>x, <1>l DEF Leased
    <2> QED BY <2>1, <2>2 DEF Sound, Trees
  <1>6. Inputs(a2, x2)
    BY <1>a, <1>x, <1>l DEF Sound, Inputs, Leased
  <1> QED BY <1>1, <1>2, <1>3, <1>4, <1>5, <1>6 DEF Sound

(* The making failed: its slot is free.                                     *)
LEMMA UnmadeSound ==
    ASSUME NEW a, NEW x, NEW p, Sound("pool", a, x, p),
           NEW d \in Dispatches, NEW a2, NEW p2, OnlyAt(a, a2, d),
           a[d].stage = "making", a2[d].stage = "publishing", a2[d].box = 0, a2[d].killed = FALSE,
           PoolIs(p2, p.live - 1, p.idle, p.closed)
    PROVE  Sound("pool", a2, x, p2)
  <1>t. Typed(a, x, p)
    BY DEF Sound
  <1>n. PICK n \in AttemptType : n = a2[d]
    BY DEF OnlyAt
  <1>a. /\ a2 \in [Dispatches -> AttemptType] /\ a2[d] = n
        /\ \A c \in Dispatches : c # d => a2[c] = a[c]
    BY <1>n DEF OnlyAt
  <1>p. p2 = [live |-> p.live - 1, idle |-> p.idle, closed |-> p.closed]
    BY DEF PoolIs
  <1>3. Making(a2) = Making(a) \ {d} /\ d \in Making(a)
    BY <1>a DEF Making
  <1>4. Cardinality(Making(a2)) = Cardinality(Making(a)) - 1
    BY <1>3, CountsAreNat, FS_RemoveElement
  <1>5. p2.live = Cardinality(Standing(x)) + Cardinality(Making(a2))
    BY <1>4, <1>p, CountsAreNat DEF Sound, Counted
  <1>6. p2.live \in 0 .. MaxLive
    <2>1. p.live \in 0 .. MaxLive /\ MaxLive \in Nat
      BY <1>t, EngineAssumption DEF Typed, PoolType
    <2>2. PICK s \in Nat : s = Cardinality(Standing(x))
      BY CountsAreNat
    <2>3. PICK m \in Nat : m = Cardinality(Making(a2))
      BY CountsAreNat
    <2>4. p2.live = s + m /\ p2.live = p.live - 1
      BY <1>5, <1>p, <2>2, <2>3
    <2> QED BY <2>1, <2>4
  <1>7. Typed(a2, x, p2)
    BY <1>a, <1>p, <1>6, <1>t DEF Typed, PoolType
  <1>8. Leases("pool", a2, x)
    BY <1>a DEF Sound, Leases, Leased
  <1>9. Idles("pool", a2, x, p2)
    BY <1>a, <1>p DEF Sound, Idles, Leased
  <1>10. Trees("pool", a2, x)
    BY <1>a DEF Sound, Trees
  <1>11. Inputs(a2, x)
    BY <1>a DEF Sound, Inputs
  <1> QED BY <1>5, <1>7, <1>8, <1>9, <1>10, <1>11 DEF Sound, Counted

(* A sandbox that could not be released again stays; a pool's never does.   *)
LEMMA LeakedSound ==
    ASSUME NEW k, NEW a, NEW x, NEW p, Sound(k, a, x, p), k # "pool",
           NEW b \in Boxes, NEW x2, OnlyBox(x, x2, b), x[b].up = "no"
    PROVE  Sound(k, a, x2, p)
  <1>t. Typed(a, x, p)
    BY DEF Sound
  <1>x. /\ x2 \in [Boxes -> BoxType]
        /\ \A w \in Boxes : w # b => x2[w] = x[w]
    BY DEF OnlyBox
  <1>l. \A c \in Dispatches : a[c].stage \in Leased => a[c].box \in Boxes /\ a[c].box # b
    BY DEF Sound, Leases, Leased
  <1>1. Typed(a, x2, p)
    BY <1>x, <1>t DEF Typed
  <1>2. Leases(k, a, x2)
    BY <1>x, <1>l DEF Sound, Leases, Leased
  <1>3. Idles(k, a, x2, p)
    <2>1. p.idle = <<>>
      BY DEF Sound, Idles, EmptyPool
    <2> QED BY <2>1 DEF Sound, Idles
  <1>4. Trees(k, a, x2)
    <2>1. \A c \in Dispatches : a[c].stage = "exited" => x2[a[c].box] = x[a[c].box]
      BY <1>x, <1>l DEF Leased
    <2> QED BY <2>1 DEF Sound, Trees
  <1>5. Inputs(a, x2)
    BY <1>x, <1>l DEF Sound, Inputs, Leased
  <1> QED BY <1>1, <1>2, <1>3, <1>4, <1>5 DEF Sound, Counted

(* The pool reserves a slot for a sandbox to be made.                       *)
LEMMA ReserveSound ==
    ASSUME NEW a, NEW x, NEW p, Sound("pool", a, x, p), p.live < MaxLive,
           NEW d \in Dispatches, NEW a2, NEW p2, OnlyAt(a, a2, d),
           a[d].stage = "owned", a2[d].stage = "making", a2[d].box = 0, a2[d].killed = FALSE,
           PoolIs(p2, p.live + 1, p.idle, p.closed)
    PROVE  Sound("pool", a2, x, p2)
  <1>t. Typed(a, x, p)
    BY DEF Sound
  <1>n. PICK n \in AttemptType : n = a2[d]
    BY DEF OnlyAt
  <1>a. /\ a2 \in [Dispatches -> AttemptType] /\ a2[d] = n
        /\ \A c \in Dispatches : c # d => a2[c] = a[c]
    BY <1>n DEF OnlyAt
  <1>p. p2 = [live |-> p.live + 1, idle |-> p.idle, closed |-> p.closed]
    BY DEF PoolIs
  <1>3. Making(a2) = Making(a) \cup {d} /\ d \notin Making(a)
    BY <1>a DEF Making
  <1>4. Cardinality(Making(a2)) = Cardinality(Making(a)) + 1
    BY <1>3, CountsAreNat, FS_AddElement
  <1>5. p2.live = Cardinality(Standing(x)) + Cardinality(Making(a2))
    BY <1>4, <1>p, CountsAreNat DEF Sound, Counted
  <1>6. p2.live \in 0 .. MaxLive
    <2>1. p.live \in 0 .. MaxLive /\ MaxLive \in Nat
      BY <1>t, EngineAssumption DEF Typed, PoolType
    <2> QED BY <2>1, <1>p
  <1>7. Typed(a2, x, p2)
    BY <1>a, <1>p, <1>6, <1>t DEF Typed, PoolType
  <1>8. Leases("pool", a2, x)
    BY <1>a DEF Sound, Leases, Leased
  <1>9. Idles("pool", a2, x, p2)
    BY <1>a, <1>p DEF Sound, Idles, Leased
  <1>10. Trees("pool", a2, x)
    BY <1>a DEF Sound, Trees
  <1>11. Inputs(a2, x)
    BY <1>a DEF Sound, Inputs
  <1> QED BY <1>5, <1>7, <1>8, <1>9, <1>10, <1>11 DEF Sound, Counted

(* RemoveAt keeps the others, in order.                                     *)
LEMMA RemoveAtElements ==
    ASSUME NEW S, NEW s \in Seq(S), NEW i \in 1 .. Len(s)
    PROVE  /\ RemoveAt(s, i) \in Seq(S) /\ Len(RemoveAt(s, i)) = Len(s) - 1
           /\ \A j \in 1 .. Len(s) - 1 : RemoveAt(s, i)[j] = s[IF j < i THEN j ELSE j + 1]
  <1> DEFINE l == SubSeq(s, 1, i - 1)
             r == SubSeq(s, i + 1, Len(s))
  <1>0. Len(s) \in Nat
    OBVIOUS
  <1>1. l \in Seq(S) /\ Len(l) = i - 1 /\ \A j \in 1 .. i - 1 : l[j] = s[j]
    <2>1. \A j \in 1 .. i - 1 : s[j] \in S
      BY <1>0
    <2> QED BY <1>0, <2>1
  <1>2. r \in Seq(S) /\ Len(r) = Len(s) - i /\ \A j \in 1 .. Len(s) - i : r[j] = s[i + j]
    <2>1. \A j \in i + 1 .. Len(s) : s[j] \in S
      BY <1>0
    <2> QED BY <1>0, <2>1
  <1> HIDE DEF l, r
  <1>3. RemoveAt(s, i) = l \o r
    BY DEF RemoveAt, l, r
  <1>4. /\ l \o r \in Seq(S) /\ Len(l \o r) = Len(s) - 1
        /\ \A j \in 1 .. Len(s) - 1 : (l \o r)[j] = IF j < i THEN l[j] ELSE r[j - (i - 1)]
    <2>1. /\ l \o r \in Seq(S) /\ Len(l \o r) = Len(l) + Len(r)
          /\ \A j \in 1 .. Len(l) + Len(r) :
                (l \o r)[j] = IF j <= Len(l) THEN l[j] ELSE r[j - Len(l)]
      BY <1>1, <1>2, ConcatProperties
    <2>2. Len(l) + Len(r) = Len(s) - 1
      BY <1>0, <1>1, <1>2
    <2>3. \A j \in 1 .. Len(s) - 1 : (j <= Len(l)) <=> (j < i)
      BY <1>0, <1>1
    <2> QED BY <1>1, <2>1, <2>2, <2>3
  <1>5. ASSUME NEW j \in 1 .. Len(s) - 1
        PROVE  (l \o r)[j] = s[IF j < i THEN j ELSE j + 1]
    <2>1. CASE j < i
      BY <1>0, <1>1, <1>4, <2>1
    <2>2. CASE ~(j < i)
      <3>1. j - (i - 1) \in 1 .. Len(s) - i /\ i + (j - (i - 1)) = j + 1
        BY <1>0, <2>2
      <3> QED BY <1>2, <1>4, <2>2, <3>1
    <2> QED BY <2>1, <2>2
  <1> QED BY <1>3, <1>4, <1>5

(* A warm sandbox of its tenant goes to an attempt.                         *)
LEMMA ClaimSound ==
    ASSUME NEW a, NEW x, NEW p, Sound("pool", a, x, p),
           NEW d \in Dispatches, NEW a2, NEW p2, OnlyAt(a, a2, d), NEW i \in 1 .. Len(p.idle),
           a[d].stage = "owned", x[p.idle[i]].tenant = TenantOf[d],
           a2[d].stage = "boxed", a2[d].box = p.idle[i], a2[d].killed = FALSE,
           PoolIs(p2, p.live, RemoveAt(p.idle, i), p.closed)
    PROVE  Sound("pool", a2, x, p2)
  <1>t. Typed(a, x, p)
    BY DEF Sound
  <1>s. p.idle \in Seq(Boxes) /\ Len(p.idle) \in Nat
    BY <1>t DEF Typed, PoolType
  <1>n. PICK n \in AttemptType : n = a2[d]
    BY DEF OnlyAt
  <1>a. /\ a2 \in [Dispatches -> AttemptType] /\ a2[d] = n
        /\ \A c \in Dispatches : c # d => a2[c] = a[c]
    BY <1>n DEF OnlyAt
  <1>r. PICK r \in Seq(Boxes) :
           /\ r = RemoveAt(p.idle, i) /\ Len(r) = Len(p.idle) - 1
           /\ \A j \in 1 .. Len(p.idle) - 1 : r[j] = p.idle[IF j < i THEN j ELSE j + 1]
    BY <1>s, RemoveAtElements
  <1>p. p2 = [live |-> p.live, idle |-> r, closed |-> p.closed]
    BY <1>r DEF PoolIs
  <1>b. p.idle[i] \in Boxes
    BY <1>s
  <1>1. Typed(a2, x, p2)
    BY <1>a, <1>p, <1>t DEF Typed, PoolType
  <1>2. Leases("pool", a2, x)
    <2>1. x[p.idle[i]].up = "yes"
      BY DEF Sound, Idles
    <2>2. \A c \in Dispatches : a[c].stage \in Leased => a[c].box # p.idle[i]
      BY DEF Sound, Idles
    <2> QED BY <1>a, <1>b, <2>1, <2>2 DEF Sound, Leases, Leased
  <1>3. Idles("pool", a2, x, p2)
    <2>1. p2.idle = r
      BY <1>p
    <2>2. ASSUME NEW j \in 1 .. Len(r)
          PROVE  \E m \in 1 .. Len(p.idle) : m # i /\ r[j] = p.idle[m]
                                             /\ m = IF j < i THEN j ELSE j + 1
      <3>1. PICK m : m = IF j < i THEN j ELSE j + 1
        OBVIOUS
      <3>2. m \in 1 .. Len(p.idle) /\ m # i /\ j \in 1 .. Len(p.idle) - 1
        BY <1>r, <1>s, <3>1
      <3>3. r[j] = p.idle[m]
        BY <1>r, <3>1, <3>2
      <3> QED BY <3>1, <3>2, <3>3
    <2>3. ASSUME NEW j \in 1 .. Len(r), NEW g \in 1 .. Len(r), r[j] = r[g] PROVE j = g
      <3>1. PICK m \in 1 .. Len(p.idle) : r[j] = p.idle[m] /\ m = IF j < i THEN j ELSE j + 1
        BY <2>2
      <3>2. PICK o \in 1 .. Len(p.idle) : r[g] = p.idle[o] /\ o = IF g < i THEN g ELSE g + 1
        BY <2>2
      <3>3. m = o
        BY <2>3, <3>1, <3>2 DEF Sound, Idles
      <3> QED BY <3>1, <3>2, <3>3, <1>r, <1>s
    <2>4. ASSUME NEW j \in 1 .. Len(r)
          PROVE  /\ x[r[j]].up = "yes" /\ ~x[r[j]].broken
                 /\ \A c \in Dispatches : a2[c].stage \in Leased => a2[c].box # r[j]
      <3>1. PICK m \in 1 .. Len(p.idle) : m # i /\ r[j] = p.idle[m]
        BY <2>2
      <3>2. /\ x[p.idle[m]].up = "yes" /\ ~x[p.idle[m]].broken
            /\ \A c \in Dispatches : a[c].stage \in Leased => a[c].box # p.idle[m]
            /\ p.idle[m] # p.idle[i]
        BY <3>1 DEF Sound, Idles
      <3> QED BY <3>1, <3>2, <1>a
    <2> QED BY <2>1, <2>3, <2>4 DEF Idles
  <1>4. Counted("pool", a2, x, p2)
    <2>1. Making(a2) = Making(a)
      BY <1>a DEF Making
    <2> QED BY <2>1, <1>p DEF Sound, Counted
  <1>5. Trees("pool", a2, x)
    BY <1>a DEF Sound, Trees
  <1>6. Inputs(a2, x)
    BY <1>a DEF Sound, Inputs
  <1> QED BY <1>1, <1>2, <1>3, <1>4, <1>5, <1>6 DEF Sound

(* The oldest m of the idle sandboxes are torn down; the pool may be closed *)
(* with it.                                                                 *)
Reaped(x, y, p, m, s) ==
    /\ y \in [Boxes -> BoxType]
    /\ \A b \in Boxes : y[b] = IF \E i \in 1 .. m : p.idle[i] = b THEN NoBox ELSE x[b]
    /\ s \in Seq(Boxes) /\ Len(s) = Len(p.idle) - m
    /\ \A i \in 1 .. Len(s) : s[i] = p.idle[m + i]

LEMMA ReapSound ==
    ASSUME NEW a, NEW x, NEW p, NEW y, NEW q, NEW s, NEW m \in 0 .. Len(p.idle),
           NEW closed \in BOOLEAN, Sound("pool", a, x, p), Reaped(x, y, p, m, s),
           PoolIs(q, p.live - m, s, closed)
    PROVE  Sound("pool", a, y, q)
  <1>0. SUFFICES ASSUME y \in [Boxes -> BoxType],
                        \A b \in Boxes :
                           y[b] = IF \E i \in 1 .. m : p.idle[i] = b THEN NoBox ELSE x[b],
                        s \in Seq(Boxes), Len(s) = Len(p.idle) - m,
                        \A i \in 1 .. Len(s) : s[i] = p.idle[m + i]
                 PROVE  Sound("pool", a, y, q)
    BY DEF Reaped
  <1>q. q = [live |-> p.live - m, idle |-> s, closed |-> closed]
    BY DEF PoolIs
  <1>t. Typed(a, x, p)
    BY DEF Sound
  <1>s. p.idle \in Seq(Boxes) /\ Len(p.idle) \in Nat /\ p.live \in 0 .. MaxLive
    BY <1>t DEF Typed, PoolType
  <1>i. \A i, j \in 1 .. Len(p.idle) : p.idle[i] = p.idle[j] => i = j
    BY DEF Sound, Idles
  <1>l. ASSUME NEW c \in Dispatches, a[c].stage \in Leased
        PROVE  a[c].box \in Boxes /\ y[a[c].box] = x[a[c].box]
    <2>1. a[c].box \in Boxes /\ \A i \in 1 .. Len(p.idle) : a[c].box # p.idle[i]
      BY <1>l DEF Sound, Leases, Idles
    <2>2. PICK w \in Boxes : w = a[c].box
      BY <2>1
    <2>3. \A i \in 1 .. m : i \in 1 .. Len(p.idle)
      BY <1>s
    <2>4. ~ \E i \in 1 .. m : p.idle[i] = w
      BY <2>1, <2>2, <2>3
    <2>5. y[w] = x[w]
      BY <1>0, <2>4
    <2> QED BY <2>2, <2>5
  <1> DEFINE T == {p.idle[i] : i \in 1 .. m}
  <1>1. Cardinality(Standing(y)) = Cardinality(Standing(x)) - m
    <2>1. IsFiniteSet(T) /\ Cardinality(T) = m
      <3>1. m \in Nat /\ \A i \in 1 .. m : p.idle[i] \in Boxes
        BY <1>s
      <3>2. \A i, j \in 1 .. m : p.idle[i] = p.idle[j] => i = j
        BY <1>i, <1>s
      <3>3. (\A i \in 1 .. m : p.idle[i] \in T) /\ (\A t \in T : \E i \in 1 .. m : p.idle[i] = t)
        OBVIOUS
      <3>4. PICK f, U : f = [i \in 1 .. m |-> p.idle[i]] /\ U = T
        OBVIOUS
      <3> HIDE DEF T
      <3>5. /\ f \in [1 .. m -> U]
            /\ \A t \in U : \E i \in 1 .. m : f[i] = t
            /\ \A i, j \in 1 .. m : f[i] = f[j] => i = j
        BY <3>2, <3>3, <3>4
      <3>6. IsFiniteSet(U) /\ Cardinality(U) = m
        BY <3>1, <3>5, CountOfSequence
      <3> QED BY <3>4, <3>6
    <2>2. T \subseteq Standing(x)
      <3>1. ASSUME NEW i \in 1 .. m PROVE p.idle[i] \in Boxes /\ x[p.idle[i]].up = "yes"
        <4>1. i \in 1 .. Len(p.idle)
          BY <1>s
        <4> QED BY <4>1, <1>s DEF Sound, Idles
      <3> QED BY <3>1 DEF Standing
    <2>3. Standing(y) = Standing(x) \ T
      <3>1. NoBox.up = "no"
        BY DEF NoBox
      <3> QED BY <1>0, <3>1 DEF Standing
    <2> HIDE DEF T
    <2>4. Cardinality(Standing(x) \ T) = Cardinality(Standing(x)) - Cardinality(Standing(x) \cap T)
      BY CountsAreNat, <2>1, FS_Difference
    <2>5. Standing(x) \cap T = T
      BY <2>2
    <2> QED BY <2>1, <2>3, <2>4, <2>5
  <1>2. q.live = Cardinality(Standing(y)) + Cardinality(Making(a))
    <2>1. p.live = Cardinality(Standing(x)) + Cardinality(Making(a))
      BY DEF Sound, Counted
    <2>2. m \in Nat
      BY <1>s
    <2>3. q.live = p.live - m
      BY <1>q
    <2> QED BY <2>1, <2>2, <2>3, <1>1, CountsAreNat
  <1>3. q.live \in 0 .. MaxLive
    <2>1. MaxLive \in Nat /\ m \in Nat
      BY <1>s, EngineAssumption
    <2>2. PICK u \in Nat : u = Cardinality(Standing(y))
      BY CountsAreNat
    <2>3. PICK v \in Nat : v = Cardinality(Making(a))
      BY CountsAreNat
    <2>4. q.live = u + v
      BY <1>2, <2>2, <2>3
    <2>5. q.live = p.live - m
      BY <1>q
    <2> QED BY <2>1, <2>4, <2>5, <1>s
  <1>4. Typed(a, y, q)
    BY <1>0, <1>t, <1>3, <1>q DEF Typed, PoolType
  <1>5. Leases("pool", a, y)
    BY <1>l DEF Sound, Leases
  <1>6. Idles("pool", a, y, q)
    <2>1. ASSUME NEW i \in 1 .. Len(s)
          PROVE  /\ s[i] \in Boxes /\ y[s[i]] = x[s[i]] /\ m + i \in 1 .. Len(p.idle)
                 /\ s[i] = p.idle[m + i]
      <3>1. m + i \in 1 .. Len(p.idle) /\ s[i] = p.idle[m + i] /\ p.idle[m + i] \in Boxes
        BY <1>0, <1>s
      <3>2. \A j \in 1 .. m : p.idle[j] # p.idle[m + i]
        BY <1>i, <1>s, <3>1
      <3> QED BY <1>0, <3>1, <3>2
    <2>2. ASSUME NEW i \in 1 .. Len(s), NEW j \in 1 .. Len(s), s[i] = s[j] PROVE i = j
      <3>1. m + i \in 1 .. Len(p.idle) /\ m + j \in 1 .. Len(p.idle)
        BY <2>1
      <3>2. p.idle[m + i] = p.idle[m + j]
        BY <2>1, <2>2
      <3>3. m + i = m + j
        BY <1>i, <3>1, <3>2
      <3> QED BY <1>0, <3>3, <1>s
    <2>3. ASSUME NEW i \in 1 .. Len(s)
          PROVE  /\ y[s[i]].up = "yes" /\ ~y[s[i]].broken
                 /\ \A d \in Dispatches : a[d].stage \in Leased => a[d].box # s[i]
      BY <2>1 DEF Sound, Idles
    <2>4. q.idle = s
      BY <1>q
    <2> QED BY <2>2, <2>3, <2>4 DEF Idles
  <1>7. Trees("pool", a, y)
    BY <1>l DEF Sound, Trees, Leased
  <1>8. Inputs(a, y)
    BY <1>l DEF Sound, Inputs, Leased
  <1> QED BY <1>q, <1>2, <1>4, <1>5, <1>6, <1>7, <1>8 DEF Sound, Counted

(* What ending a command has to see to, while it has its sandbox and after. *)
EndsClean(k, d, n, y) ==
    n.killed => /\ n.stage = "exited"
                /\ k \in {"process", "pool"} =>
                      \A r \in Roles : <<d, r>> \in y.procs => r = "daemon"
LeavesClean(k, n) == n.killed => n.left \subseteq Spared(k)

(* An attempt uses the sandbox it has: the command is started in it, ends   *)
(* in it or is ended in it.                                                 *)
LEMMA UseSound ==
    ASSUME NEW k, NEW a, NEW x, NEW p, Sound(k, a, x, p),
           NEW d \in Dispatches, NEW b \in Boxes, NEW a2, NEW x2, OnlyAt(a, a2, d), OnlyBox(x, x2, b),
           a[d].stage \in Leased, a[d].box = b, a2[d].stage \in Leased, a2[d].box = b,
           x2[b].up = x[b].up, x2[b].tenant = x[b].tenant,
           a2[d].stage = "running" => x2[b].input = Source,
           EndsClean(k, d, a2[d], x2[b])
    PROVE  Sound(k, a2, x2, p)
  <1>b. b = a[d].box
    OBVIOUS
  <1>t. Typed(a, x, p)
    BY DEF Sound
  <1>n. PICK n \in AttemptType : n = a2[d]
    BY DEF OnlyAt
  <1>a. /\ a2 \in [Dispatches -> AttemptType] /\ a2[d] = n
        /\ \A c \in Dispatches : c # d => a2[c] = a[c]
    BY <1>n DEF OnlyAt
  <1>y. PICK y \in BoxType : y = x2[b]
    BY DEF OnlyBox
  <1>x. /\ x2 \in [Boxes -> BoxType] /\ x2[b] = y
        /\ \A w \in Boxes : w # b => x2[w] = x[w]
    BY <1>y DEF OnlyBox
  <1>l. \A c \in Dispatches : c # d /\ a[c].stage \in Leased => a[c].box \in Boxes /\ a[c].box # b
    BY <1>b DEF Sound, Leases
  <1>u. x[b].up = "yes" /\ y.up = "yes" /\ y.tenant = x[b].tenant
    BY <1>b, <1>y DEF Sound, Leases
  <1>1. Typed(a2, x2, p)
    BY <1>a, <1>x, <1>t DEF Typed
  <1>2. Leases(k, a2, x2)
    <2> SUFFICES ASSUME NEW c \in Dispatches
                 PROVE  /\ a2[c].stage \in Leased => a2[c].box \in Boxes /\ x2[a2[c].box].up = "yes"
                        /\ a2[c].stage \notin Leased => a2[c].box = 0
                        /\ a2[c].stage = "making" => k = "pool"
                        /\ k = "pool" /\ a2[c].stage \in Leased => x2[a2[c].box].tenant = TenantOf[c]
                        /\ \A h \in Dispatches : a2[c].stage \in Leased /\ a2[h].stage \in Leased
                                                   /\ a2[h].box = a2[c].box => h = c
      BY DEF Leases
    <2>1. CASE c = d
      <3>1. n.stage # "making"
        BY <1>n DEF Leased
      <3>2. k = "pool" => y.tenant = TenantOf[d]
        BY <1>b, <1>u DEF Sound, Leases
      <3> QED BY <2>1, <1>a, <1>b, <1>x, <1>l, <1>u, <3>1, <3>2
    <2>2. CASE c # d
      <3>1. a2[c] = a[c] /\ (a[c].stage \in Leased => x2[a[c].box] = x[a[c].box])
        BY <2>2, <1>a, <1>x, <1>l
      <3> QED BY <2>2, <3>1, <1>a, <1>b, <1>l DEF Sound, Leases
    <2> QED BY <2>1, <2>2
  <1>3. Idles(k, a2, x2, p)
    <2>1. \A i \in 1 .. Len(p.idle) : p.idle[i] \in Boxes /\ p.idle[i] # b
      BY <1>t, <1>b DEF Sound, Idles, Typed, PoolType
    <2> QED BY <2>1, <1>a, <1>b, <1>x, <1>l DEF Sound, Idles
  <1>4. Counted(k, a2, x2, p)
    <2>1. Standing(x2) = Standing(x)
      BY <1>x, <1>u DEF Standing
    <2>2. Making(a2) = Making(a)
      BY <1>a DEF Making, Leased
    <2> QED BY <2>1, <2>2 DEF Sound, Counted
  <1>5. Trees(k, a2, x2)
    <2> SUFFICES ASSUME NEW c \in Dispatches, a2[c].killed
                 PROVE  /\ a2[c].stage \in {"exited", "publishing"}
                        /\ a2[c].stage = "exited" /\ k \in {"process", "pool"} =>
                              \A r \in Roles : <<c, r>> \in x2[a2[c].box].procs => r = "daemon"
                        /\ a2[c].stage = "publishing" => a2[c].left \subseteq Spared(k)
      BY DEF Trees
    <2>1. CASE c = d
      BY <2>1, <1>a, <1>b, <1>x DEF EndsClean
    <2>2. CASE c # d
      <3>1. a2[c] = a[c] /\ (a[c].stage = "exited" => x2[a[c].box] = x[a[c].box])
        BY <2>2, <1>a, <1>x, <1>l DEF Leased
      <3> QED BY <3>1 DEF Sound, Trees
    <2> QED BY <2>1, <2>2
  <1>6. Inputs(a2, x2)
    <2> SUFFICES ASSUME NEW c \in Dispatches, a2[c].stage = "running"
                 PROVE  x2[a2[c].box].input = Source
      BY DEF Inputs
    <2>1. CASE c = d
      BY <2>1, <1>a, <1>b, <1>x
    <2>2. CASE c # d
      <3>1. a2[c] = a[c] /\ x2[a[c].box] = x[a[c].box]
        BY <2>2, <1>a, <1>x, <1>l DEF Leased
      <3> QED BY <3>1 DEF Sound, Inputs
    <2> QED BY <2>1, <2>2
  <1> QED BY <1>b, <1>1, <1>2, <1>3, <1>4, <1>5, <1>6 DEF Sound

(* An attempt gives its sandbox back, and ends: what holds of all others.   *)
GivesBack(k, a, a2, x, x2, d, b) ==
    /\ d \in Dispatches /\ b \in Boxes /\ OnlyAt(a, a2, d) /\ OnlyBox(x, x2, b)
    /\ a[d].stage \in Leased /\ a[d].box = b
    /\ a2[d].stage = "publishing" /\ a2[d].box = 0 /\ LeavesClean(k, a2[d])

OthersKept(k, a, a2, x, x2, p, b) ==
    /\ a2 \in [Dispatches -> AttemptType] /\ x2 \in [Boxes -> BoxType]
    /\ b \in Boxes /\ x[b].up = "yes" /\ \A w \in Boxes : w # b => x2[w] = x[w]
    /\ Leases(k, a2, x2) /\ Trees(k, a2, x2) /\ Inputs(a2, x2) /\ Making(a2) = Making(a)
    /\ \A i \in 1 .. Len(p.idle) : p.idle[i] # b /\ x2[p.idle[i]] = x[p.idle[i]]
    /\ \A c \in Dispatches : a2[c].stage \in Leased => a2[c] = a[c] /\ a[c].box # b

LEMMA OthersSound ==
    ASSUME NEW k, NEW a, NEW x, NEW p, NEW d, NEW b, NEW a2, NEW x2,
           Sound(k, a, x, p), GivesBack(k, a, a2, x, x2, d, b)
    PROVE  OthersKept(k, a, a2, x, x2, p, b)
  <1>0. SUFFICES ASSUME d \in Dispatches, b \in Boxes, OnlyAt(a, a2, d), OnlyBox(x, x2, b),
                        a[d].stage \in Leased, a[d].box = b,
                        a2[d].stage = "publishing", a2[d].box = 0, LeavesClean(k, a2[d])
                 PROVE  OthersKept(k, a, a2, x, x2, p, b)
    BY DEF GivesBack
  <1>t. Typed(a, x, p)
    BY DEF Sound
  <1>n. PICK n \in AttemptType : n = a2[d]
    BY <1>0 DEF OnlyAt
  <1>a. /\ a2 \in [Dispatches -> AttemptType] /\ a2[d] = n
        /\ \A c \in Dispatches : c # d => a2[c] = a[c]
    BY <1>0, <1>n DEF OnlyAt
  <1>y. PICK y \in BoxType : y = x2[b]
    BY <1>0 DEF OnlyBox
  <1>x. /\ x2 \in [Boxes -> BoxType] /\ x2[b] = y
        /\ \A w \in Boxes : w # b => x2[w] = x[w]
    BY <1>0, <1>y DEF OnlyBox
  <1>l. \A c \in Dispatches : c # d /\ a[c].stage \in Leased => a[c].box \in Boxes /\ a[c].box # b
    BY <1>0 DEF Sound, Leases
  <1>m. n.stage \notin Leased /\ n.stage # "making"
    BY <1>0, <1>n DEF Leased
  <1>1. Leases(k, a2, x2)
    <2> SUFFICES ASSUME NEW c \in Dispatches
                 PROVE  /\ a2[c].stage \in Leased => a2[c].box \in Boxes /\ x2[a2[c].box].up = "yes"
                        /\ a2[c].stage \notin Leased => a2[c].box = 0
                        /\ a2[c].stage = "making" => k = "pool"
                        /\ k = "pool" /\ a2[c].stage \in Leased => x2[a2[c].box].tenant = TenantOf[c]
                        /\ \A h \in Dispatches : a2[c].stage \in Leased /\ a2[h].stage \in Leased
                                                   /\ a2[h].box = a2[c].box => h = c
      BY DEF Leases
    <2>1. CASE c = d
      BY <1>0, <2>1, <1>a, <1>m
    <2>2. CASE c # d
      <3>1. a2[c] = a[c] /\ (a[c].stage \in Leased => x2[a[c].box] = x[a[c].box])
        BY <2>2, <1>a, <1>x, <1>l
      <3> QED BY <2>2, <3>1, <1>a, <1>m DEF Sound, Leases
    <2> QED BY <2>1, <2>2
  <1>2. Trees(k, a2, x2)
    <2> SUFFICES ASSUME NEW c \in Dispatches, a2[c].killed
                 PROVE  /\ a2[c].stage \in {"exited", "publishing"}
                        /\ a2[c].stage = "exited" /\ k \in {"process", "pool"} =>
                              \A r \in Roles : <<c, r>> \in x2[a2[c].box].procs => r = "daemon"
                        /\ a2[c].stage = "publishing" => a2[c].left \subseteq Spared(k)
      BY DEF Trees
    <2>1. CASE c = d
      BY <2>1, <1>a, <1>0, <1>n DEF LeavesClean
    <2>2. CASE c # d
      <3>1. a2[c] = a[c] /\ (a[c].stage = "exited" => x2[a[c].box] = x[a[c].box])
        BY <2>2, <1>a, <1>x, <1>l DEF Leased
      <3> QED BY <3>1 DEF Sound, Trees
    <2> QED BY <2>1, <2>2
  <1>3. Inputs(a2, x2)
    <2> SUFFICES ASSUME NEW c \in Dispatches, a2[c].stage = "running"
                 PROVE  x2[a2[c].box].input = Source
      BY DEF Inputs
    <2>1. c # d /\ a2[c] = a[c]
      BY <1>0, <1>a
    <2>2. x2[a[c].box] = x[a[c].box]
      BY <2>1, <1>x, <1>l DEF Leased
    <2> QED BY <2>1, <2>2 DEF Sound, Inputs
  <1>4. Making(a2) = Making(a)
    BY <1>0, <1>a, <1>m DEF Making, Leased
  <1>5. \A i \in 1 .. Len(p.idle) : p.idle[i] \in Boxes /\ p.idle[i] # b
    BY <1>0, <1>t DEF Sound, Idles, Typed, PoolType
  <1>6. \A i \in 1 .. Len(p.idle) : x2[p.idle[i]] = x[p.idle[i]]
    BY <1>5, <1>x
  <1>7. \A c \in Dispatches : a2[c].stage \in Leased => c # d /\ a2[c] = a[c] /\ a[c].box # b
    BY <1>a, <1>m, <1>l
  <1>8. x[b].up = "yes"
    BY <1>0 DEF Sound, Leases
  <1> QED BY <1>0, <1>a, <1>x, <1>1, <1>2, <1>3, <1>4, <1>5, <1>6, <1>7, <1>8 DEF OthersKept

(* What becomes of the sandbox, y, and the pool: gone or given up, or idle. *)
Dropped(k, y, p, p2) ==
    y.up # "yes" /\ PoolIs(p2, IF k = "pool" THEN p.live - 1 ELSE p.live, p.idle, p.closed)
Kept(k, y, p, p2, b) ==
    /\ k = "pool" /\ y.up = "yes" /\ y.broken = FALSE
    /\ PoolIs(p2, p.live, Append(p.idle, b), p.closed)

(* It is torn down, or stays behind nobody's.                               *)
LEMMA TornDownSound ==
    ASSUME NEW k, NEW a, NEW x, NEW p, NEW d, NEW b, NEW a2, NEW x2, NEW p2,
           Sound(k, a, x, p), GivesBack(k, a, a2, x, x2, d, b), x2[b].up # "yes",
           PoolIs(p2, IF k = "pool" THEN p.live - 1 ELSE p.live, p.idle, p.closed)
    PROVE  Sound(k, a2, x2, p2)
  <1>0. OthersKept(k, a, a2, x, x2, p, b)
    BY OthersSound
  <1>1. /\ a2 \in [Dispatches -> AttemptType] /\ x2 \in [Boxes -> BoxType]
        /\ Leases(k, a2, x2) /\ Trees(k, a2, x2) /\ Inputs(a2, x2) /\ Making(a2) = Making(a)
        /\ \A i \in 1 .. Len(p.idle) : x2[p.idle[i]] = x[p.idle[i]]
        /\ \A c \in Dispatches : a2[c].stage \in Leased => a2[c] = a[c]
    BY <1>0 DEF OthersKept
  <1>t. Typed(a, x, p)
    BY DEF Sound
  <1>i. Idles(k, a2, x2, p)
    BY <1>1 DEF Sound, Idles
  <1>2. CASE k # "pool"
    <2>1. Typed(a2, x2, p)
      BY <1>1, <1>t DEF Typed
    <2>2. p2 = p
      BY <1>2, <1>t DEF PoolIs, Typed, PoolType
    <2> QED BY <1>1, <1>2, <1>i, <2>1, <2>2 DEF Sound, Counted
  <1>3. CASE k = "pool"
    <2>p. p2 = [live |-> p.live - 1, idle |-> p.idle, closed |-> p.closed]
      BY <1>3 DEF PoolIs
    <2>1. Standing(x2) = Standing(x) \ {b} /\ b \in Standing(x)
      <3>1. x[b].up = "yes" /\ \A w \in Boxes : w # b => x2[w] = x[w]
        BY <1>0 DEF OthersKept
      <3> QED BY <1>0, <3>1 DEF Standing, OthersKept
    <2>2. Cardinality(Standing(x2)) = Cardinality(Standing(x)) - 1
      <3>1. IsFiniteSet(Standing(x))
        BY CountsAreNat
      <3>2. PICK S : S = Standing(x)
        OBVIOUS
      <3>3. IsFiniteSet(S) /\ b \in S
        BY <2>1, <3>1, <3>2
      <3>4. Cardinality(S \ {b}) = Cardinality(S) - 1
        BY <3>3, FS_RemoveElement
      <3> QED BY <2>1, <3>2, <3>4
    <2>3. p2.live = Cardinality(Standing(x2)) + Cardinality(Making(a2))
      BY <1>1, <1>3, <2>2, <2>p, CountsAreNat DEF Sound, Counted
    <2>4. p2.live \in 0 .. MaxLive
      <3>1. p.live \in 0 .. MaxLive /\ MaxLive \in Nat
        BY <1>t, EngineAssumption DEF Typed, PoolType
      <3>2. PICK u \in Nat : u = Cardinality(Standing(x2))
        BY CountsAreNat
      <3>3. PICK v \in Nat : v = Cardinality(Making(a2))
        BY CountsAreNat
      <3>4. p2.live = u + v /\ p2.live = p.live - 1
        BY <2>3, <2>p, <3>2, <3>3
      <3> QED BY <3>1, <3>4
    <2>5. Typed(a2, x2, p2)
      BY <1>1, <1>t, <2>4, <2>p DEF Typed, PoolType
    <2>6. Idles(k, a2, x2, p2)
      BY <1>i, <1>3, <2>p DEF Idles
    <2> QED BY <1>1, <1>3, <2>3, <2>5, <2>6 DEF Sound, Counted
  <1> QED BY <1>2, <1>3

(* It goes back to the pool, whole.                                         *)
LEMMA WarmSound ==
    ASSUME NEW a, NEW x, NEW p, NEW d, NEW b, NEW a2, NEW x2, NEW p2,
           Sound("pool", a, x, p), GivesBack("pool", a, a2, x, x2, d, b),
           Kept("pool", x2[b], p, p2, b)
    PROVE  Sound("pool", a2, x2, p2)
  <1>k. /\ x2[b].up = "yes" /\ x2[b].broken = FALSE
        /\ PoolIs(p2, p.live, Append(p.idle, b), p.closed)
    BY DEF Kept
  <1>0. OthersKept("pool", a, a2, x, x2, p, b)
    BY OthersSound
  <1>1. /\ a2 \in [Dispatches -> AttemptType] /\ x2 \in [Boxes -> BoxType] /\ b \in Boxes
        /\ Leases("pool", a2, x2) /\ Trees("pool", a2, x2) /\ Inputs(a2, x2)
        /\ Making(a2) = Making(a)
        /\ \A i \in 1 .. Len(p.idle) : p.idle[i] # b /\ x2[p.idle[i]] = x[p.idle[i]]
        /\ \A c \in Dispatches : a2[c].stage \in Leased => a2[c] = a[c] /\ a[c].box # b
    BY <1>0 DEF OthersKept
  <1>t. Typed(a, x, p)
    BY DEF Sound
  <1>s. p.idle \in Seq(Boxes) /\ Len(p.idle) \in Nat
    BY <1>t DEF Typed, PoolType
  <1>r. PICK r \in Seq(Boxes) :
           /\ r = Append(p.idle, b) /\ Len(r) = Len(p.idle) + 1 /\ r[Len(p.idle) + 1] = b
           /\ \A j \in 1 .. Len(p.idle) : r[j] = p.idle[j]
    <2>1. PICK s \in Seq(Boxes) : s = p.idle
      BY <1>s
    <2>2. /\ Append(s, b) \in Seq(Boxes) /\ Len(Append(s, b)) = Len(s) + 1
          /\ \A j \in 1 .. Len(s) : Append(s, b)[j] = s[j]
          /\ Append(s, b)[Len(s) + 1] = b
      BY <1>1, AppendProperties
    <2> QED BY <2>1, <2>2
  <1>p. p2 = [live |-> p.live, idle |-> r, closed |-> p.closed]
    BY <1>k, <1>r DEF PoolIs
  <1>2. Typed(a2, x2, p2)
    BY <1>1, <1>t, <1>p DEF Typed, PoolType
  <1>b. x[b].up = "yes" /\ \A w \in Boxes : w # b => x2[w] = x[w]
    BY <1>0 DEF OthersKept
  <1>3. Counted("pool", a2, x2, p2)
    <2>1. Standing(x2) = Standing(x)
      BY <1>k, <1>b DEF Standing
    <2> QED BY <2>1, <1>1, <1>p DEF Sound, Counted
  <1>4. Idles("pool", a2, x2, p2)
    <2>1. ASSUME NEW j \in 1 .. Len(r) PROVE j \in 1 .. Len(p.idle) \/ j = Len(p.idle) + 1
      BY <1>r, <1>s
    <2>2. ASSUME NEW j \in 1 .. Len(r)
          PROVE  /\ x2[r[j]].up = "yes" /\ ~x2[r[j]].broken
                 /\ \A c \in Dispatches : a2[c].stage \in Leased => a2[c].box # r[j]
      <3>1. CASE j \in 1 .. Len(p.idle)
        <4>1. r[j] = p.idle[j] /\ x2[p.idle[j]] = x[p.idle[j]]
          BY <3>1, <1>1, <1>r
        <4>2. /\ x[p.idle[j]].up = "yes" /\ ~x[p.idle[j]].broken
              /\ \A c \in Dispatches : a[c].stage \in Leased => a[c].box # p.idle[j]
          BY <3>1 DEF Sound, Idles
        <4> QED BY <1>1, <4>1, <4>2
      <3>2. CASE j = Len(p.idle) + 1
        BY <3>2, <1>1, <1>r, <1>b, <1>k
      <3> QED BY <2>1, <3>1, <3>2
    <2>3. ASSUME NEW j \in 1 .. Len(r), NEW g \in 1 .. Len(r), r[j] = r[g] PROVE j = g
      <3>1. CASE j \in 1 .. Len(p.idle) /\ g \in 1 .. Len(p.idle)
        BY <2>3, <3>1, <1>r DEF Sound, Idles
      <3> QED BY <2>1, <2>3, <3>1, <1>r, <1>1
    <2>4. p2.idle = r
      BY <1>p
    <2> QED BY <2>2, <2>3, <2>4 DEF Idles
  <1> QED BY <1>1, <1>2, <1>3, <1>4 DEF Sound

(* An engine that has just started has nothing.                             *)
LEMMA EmptySound ==
    ASSUME NEW k
    PROVE  Sound(k, [d \in Dispatches |-> NoAttempt], [b \in Boxes |-> NoBox], EmptyPool)
  <1>0. PICK a, x : a = [d \in Dispatches |-> NoAttempt] /\ x = [b \in Boxes |-> NoBox]
    OBVIOUS
  <1>a. /\ NoAttempt.stage = "none" /\ NoAttempt.box = 0 /\ NoAttempt.killed = FALSE
        /\ NoBox.up = "no" /\ NoAttempt \in AttemptType /\ NoBox \in BoxType
    BY EngineAssumption DEF NoAttempt, NoBox, AttemptType, BoxType, Stages
  <1>p. EmptyPool \in PoolType /\ EmptyPool.live = 0 /\ Len(EmptyPool.idle) = 0
    BY EngineAssumption DEF EmptyPool, PoolType
  <1>1. Typed(a, x, EmptyPool)
    BY <1>0, <1>a, <1>p DEF Typed
  <1>2. Leases(k, a, x) /\ Trees(k, a, x) /\ Inputs(a, x)
    BY <1>0, <1>a DEF Leases, Trees, Inputs, Leased
  <1>3. Idles(k, a, x, EmptyPool)
    BY <1>p DEF Idles
  <1>4. Counted(k, a, x, EmptyPool)
    <2>1. Standing(x) = {} /\ Making(a) = {}
      BY <1>0, <1>a DEF Standing, Making
    <2> QED BY <2>1, <1>p, FS_EmptySet DEF Counted
  <1> QED BY <1>0, <1>1, <1>2, <1>3, <1>4 DEF Sound

--------------------------------------------------------------------------------
(* The actions.  A step of engine e is local: of the attempts, sandboxes    *)
(* and pools it changes only e's own, and those soundly.                    *)

IInv ==
    /\ TypeOK /\ HolderInv /\ RoomIsOffered
    /\ \A e \in Engines : Sound(kind, at[e], box[e], pool[e])

Local(e) ==
    /\ kind' = kind
    /\ \E a2, x2, p2 :
          /\ at' = [at EXCEPT ![e] = a2] /\ box' = [box EXCEPT ![e] = x2]
          /\ pool' = [pool EXCEPT ![e] = p2] /\ Sound(kind, a2, x2, p2)

(* The attempt at d moves on, its delivery and the room are as they were.   *)
Moves(e, d) ==
    /\ UNCHANGED <<msg, up, pump>> /\ Stage(e, d) # "none"
    /\ \E n \in AttemptType :
          /\ at' = [at EXCEPT ![e] = [at[e] EXCEPT ![d] = n]]
          /\ n.stage # "none" /\ (n.stage \in Working => Stage(e, d) \in Working)

(* What is left of the state.                                               *)
Rest == image' \in 1 .. 2 /\ faults' \in 0 .. MaxFaults

(* The bound on faults is never overrun.                                    *)
LEMMA FaultLeft ==
    ASSUME TypeOK, Fault \/ UNCHANGED faults
    PROVE  faults' \in 0 .. MaxFaults
  <1>1. faults \in 0 .. MaxFaults /\ MaxFaults \in Nat
    BY EngineAssumption DEF TypeOK
  <1> QED BY <1>1 DEF Fault

(* A local step keeps every engine sound.                                   *)
LEMMA LocalSound ==
    ASSUME IInv, NEW e \in Engines, Local(e)
    PROVE  /\ kind' \in Kinds /\ at' \in [Engines -> [Dispatches -> AttemptType]]
           /\ box' \in [Engines -> [Boxes -> BoxType]] /\ pool' \in [Engines -> PoolType]
           /\ (\A f \in Engines : Sound(kind, at[f], box[f], pool[f]))'
  <1>1. PICK a2, x2, p2 :
           /\ at' = [at EXCEPT ![e] = a2] /\ box' = [box EXCEPT ![e] = x2]
           /\ pool' = [pool EXCEPT ![e] = p2] /\ Sound(kind, a2, x2, p2)
    BY DEF Local
  <1>k. kind' = kind
    BY DEF Local
  <1>2. a2 \in [Dispatches -> AttemptType] /\ x2 \in [Boxes -> BoxType] /\ p2 \in PoolType
    BY <1>1 DEF Sound, Typed
  <1>3. /\ at \in [Engines -> [Dispatches -> AttemptType]]
        /\ box \in [Engines -> [Boxes -> BoxType]] /\ pool \in [Engines -> PoolType]
        /\ kind \in Kinds
    BY DEF IInv, TypeOK
  <1>4. ASSUME NEW f \in Engines
        PROVE  Sound(kind, at[f], box[f], pool[f])'
    <2>1. CASE f = e
      <3>1. at'[f] = a2 /\ box'[f] = x2 /\ pool'[f] = p2
        BY <1>1, <1>3, <2>1
      <3> QED BY <1>1, <1>k, <3>1
    <2>2. CASE f # e
      <3>1. at'[f] = at[f] /\ box'[f] = box[f] /\ pool'[f] = pool[f]
        BY <1>1, <1>3, <2>2
      <3>2. Sound(kind, at[f], box[f], pool[f])
        BY DEF IInv
      <3> QED BY <3>1, <3>2, <1>k
    <2> QED BY <2>1, <2>2
  <1> QED BY <1>1, <1>k, <1>2, <1>3, <1>4

(* A step no sandbox and no pool notices is local.                          *)
LEMMA QuietLocal ==
    ASSUME IInv, NEW e \in Engines, NEW d \in Dispatches, NEW n \in AttemptType,
           at' = [at EXCEPT ![e] = [at[e] EXCEPT ![d] = n]], UNCHANGED <<kind, box, pool>>,
           \/ /\ n.stage = at[e][d].stage /\ n.box = at[e][d].box
              /\ n.killed = at[e][d].killed /\ n.left = at[e][d].left
           \/ at[e][d].stage \in Apart /\ n.stage \in Apart /\ n.box = 0 /\ n.killed = FALSE
    PROVE  Local(e)
  <1>1. /\ at \in [Engines -> [Dispatches -> AttemptType]]
        /\ box \in [Engines -> [Boxes -> BoxType]] /\ pool \in [Engines -> PoolType]
    BY DEF IInv, TypeOK
  <1>2. PICK a2 : a2 = [at[e] EXCEPT ![d] = n]
    OBVIOUS
  <1>3. a2 \in [Dispatches -> AttemptType] /\ a2[d] = n
        /\ \A c \in Dispatches : c # d => a2[c] = at[e][c]
    BY <1>1, <1>2
  <1>4. Sound(kind, at[e], box[e], pool[e])
    BY DEF IInv
  <1>5. Sound(kind, a2, box[e], pool[e])
    <2>1. \A c \in Dispatches :
              \/ /\ a2[c].stage = at[e][c].stage /\ a2[c].box = at[e][c].box
                 /\ a2[c].killed = at[e][c].killed /\ a2[c].left = at[e][c].left
              \/ /\ at[e][c].stage \in Apart /\ a2[c].stage \in Apart
                 /\ a2[c].box = 0 /\ ~a2[c].killed
      BY <1>3
    <2> QED BY <1>3, <1>4, <2>1, QuietSound
  <1>6. box' = [box EXCEPT ![e] = box[e]] /\ pool' = [pool EXCEPT ![e] = pool[e]]
    BY <1>1
  <1> QED BY <1>2, <1>5, <1>6 DEF Local

LEMMA HeldCount ==
    ASSUME NEW e \in Engines
    PROVE  IsFiniteSet(Held(e)) /\ Cardinality(Held(e)) \in Nat
  <1>1. Held(e) \in SUBSET Dispatches
    BY DEF Held
  <1> QED BY <1>1, EngineAssumption, FS_Subset, FS_CardinalityType

(* Moving on changes neither who holds a dispatch nor the room.             *)
LEMMA MovesKeeps ==
    ASSUME IInv, NEW e \in Engines, NEW d \in Dispatches, Moves(e, d)
    PROVE  HolderInv' /\ RoomIsOffered'
  <1>1. PICK n \in AttemptType :
           /\ at' = [at EXCEPT ![e] = [at[e] EXCEPT ![d] = n]]
           /\ n.stage # "none" /\ (n.stage \in Working => Stage(e, d) \in Working)
    BY DEF Moves
  <1>2. at \in [Engines -> [Dispatches -> AttemptType]]
    BY DEF IInv, TypeOK
  <1>3. \A f \in Engines, c \in Dispatches :
           /\ Stage(f, c)' = IF f = e /\ c = d THEN n.stage ELSE Stage(f, c)
    BY <1>1, <1>2 DEF Stage
  <1>4. msg' = msg /\ pump' = pump /\ Stage(e, d) # "none"
    BY DEF Moves
  <1>5. HolderInv'
    BY <1>1, <1>3, <1>4 DEF IInv, HolderInv
  <1>6. \A f \in Engines : Held(f)' = Held(f)
    BY <1>1, <1>3, <1>4 DEF Held
  <1>7. RoomIsOffered'
    BY <1>4, <1>6 DEF IInv, RoomIsOffered
  <1> QED BY <1>5, <1>7

PumpStates == {"blocked", "fetching", "abandoned", "holding", "ended"}

(* A local step keeps the invariant when what engines share is kept too.    *)
LEMMA Assemble ==
    ASSUME IInv, NEW e \in Engines, Local(e), Rest,
           msg' \in [Dispatches -> {"queued", "acked"} \cup Engines],
           up' \in [Engines -> {"up", "stopping", "down"}],
           pump' \in [Engines -> [Queues -> PumpStates]],
           HolderInv', RoomIsOffered'
    PROVE  IInv'
  <1>1. TypeOK'
    BY LocalSound DEF TypeOK, Rest, PumpStates
  <1>2. (\A f \in Engines : Sound(kind, at[f], box[f], pool[f]))'
    BY LocalSound
  <1> QED BY <1>1, <1>2 DEF IInv

LEMMA SharedTypes ==
    ASSUME IInv
    PROVE  /\ msg \in [Dispatches -> {"queued", "acked"} \cup Engines]
           /\ up \in [Engines -> {"up", "stopping", "down"}]
           /\ pump \in [Engines -> [Queues -> PumpStates]]
           /\ at \in [Engines -> [Dispatches -> AttemptType]]
           /\ box \in [Engines -> [Boxes -> BoxType]] /\ pool \in [Engines -> PoolType]
           /\ image \in 1 .. 2 /\ faults \in 0 .. MaxFaults
  BY DEF IInv, TypeOK, PumpStates

(* An attempt that moves on locally keeps the invariant.                    *)
LEMMA MovesIInv ==
    ASSUME IInv, NEW e \in Engines, NEW d \in Dispatches, Moves(e, d), Local(e), Rest
    PROVE  IInv'
  <1>1. HolderInv' /\ RoomIsOffered'
    BY MovesKeeps
  <1>2. /\ msg' \in [Dispatches -> {"queued", "acked"} \cup Engines]
        /\ up' \in [Engines -> {"up", "stopping", "down"}]
        /\ pump' \in [Engines -> [Queues -> PumpStates]]
    BY SharedTypes DEF Moves
  <1> QED BY <1>1, <1>2, Assemble

(* The room when an attempt ends: the dispatch leaves, and if that makes    *)
(* room every pump that waited for it goes round.                           *)
LEMMA FinishIInv ==
    ASSUME IInv, NEW e \in Engines, NEW d \in Dispatches,
           NEW w \in {"queued", "acked"} \cup Engines,
           Finish(e, d, w), Stage(e, d) \in Apart \ {"none"},
           w = "acked" \/ w = msg[d] \/ Stage(e, d) \in Working,
           UNCHANGED <<kind, image, up, box, pool>>, Fault \/ UNCHANGED faults
    PROVE  IInv'
  <1>t. /\ msg \in [Dispatches -> {"queued", "acked"} \cup Engines]
        /\ up \in [Engines -> {"up", "stopping", "down"}]
        /\ pump \in [Engines -> [Queues -> PumpStates]]
        /\ at \in [Engines -> [Dispatches -> AttemptType]]
    BY SharedTypes
  <1>n. NoAttempt \in AttemptType /\ NoAttempt.stage = "none" /\ NoAttempt.box = 0
        /\ NoAttempt.killed = FALSE
    BY EngineAssumption DEF NoAttempt, AttemptType, Stages
  <1>1. msg' = [msg EXCEPT ![d] = w] /\ at' = [at EXCEPT ![e] = [at[e] EXCEPT ![d] = NoAttempt]]
    BY DEF Finish
  <1>2. \A f \in Engines, c \in Dispatches :
           /\ Stage(f, c)' = IF f = e /\ c = d THEN "none" ELSE Stage(f, c)
    BY <1>1, <1>t, <1>n DEF Stage
  <1>3. Local(e)
    <2>1. at[e][d].stage \in Apart /\ NoAttempt.stage \in Apart
      BY <1>n DEF Stage, Apart
    <2> QED BY <1>1, <1>n, <2>1, QuietLocal
  <1>4. Rest
    BY SharedTypes, FaultLeft DEF IInv, Rest
  <1>5. HolderInv'
    <2> SUFFICES ASSUME NEW c \in Dispatches, NEW f \in Engines, Stage(f, c)' \in Working
                 PROVE  /\ msg'[c] \in {f, "acked"}
                        /\ \A g \in Engines : Stage(g, c)' \in Working => g = f
      BY DEF HolderInv
    <2>1. Stage(f, c) \in Working /\ ~(f = e /\ c = d)
      BY <1>2 DEF Working
    <2>2. \A g \in Engines : Stage(g, c)' \in Working => Stage(g, c) \in Working
      BY <1>2 DEF Working
    <2>3. \A g \in Engines : Stage(g, c)' \in Working => g = f
      BY <2>1, <2>2 DEF IInv, HolderInv
    <2>4. msg'[c] \in {f, "acked"}
      <3>1. CASE c # d
        BY <1>1, <1>t, <2>1, <3>1 DEF IInv, HolderInv
      <3>2. CASE c = d
        <4>1. f # e /\ Stage(e, d) \notin Working
          BY <2>1, <3>2 DEF IInv, HolderInv
        <4>2. msg'[c] = w /\ (w = "acked" \/ w = msg[d])
          BY <1>1, <1>t, <3>2, <4>1
        <4> QED BY <2>1, <3>2, <4>2 DEF IInv, HolderInv
      <3> QED BY <3>1, <3>2
    <2> QED BY <2>3, <2>4
  <1>6. PICK reopened : reopened = [q \in Queues |->
                  IF pump[e][q] = "blocked" /\ Reopens(e)
                  THEN RoomWait(e, Cardinality(Held(e)) - 1) ELSE pump[e][q]]
    OBVIOUS
  <1>7. pump' = [pump EXCEPT ![e] = reopened]
    BY <1>6 DEF Finish
  <1>8. reopened \in [Queues -> PumpStates]
    BY <1>6, <1>t DEF RoomWait, PumpStates
  <1>9. pump' \in [Engines -> [Queues -> PumpStates]] /\ pump'[e] = reopened
        /\ \A f \in Engines : f # e => pump'[f] = pump[f]
    BY <1>7, <1>8, <1>t
  <1>10. Held(e)' = Held(e) \ {d} /\ d \in Held(e)
    BY <1>2 DEF Held, Apart
  <1>11. \A f \in Engines : f # e => Held(f)' = Held(f)
    BY <1>2 DEF Held
  <1>12. PICK h \in Nat : h = Cardinality(Held(e))
    BY HeldCount
  <1>13. Cardinality(Held(e)') = h - 1
    <2>1. PICK H : H = Held(e)
      OBVIOUS
    <2>2. IsFiniteSet(H) /\ d \in H
      BY <2>1, <1>10, HeldCount
    <2>3. Cardinality(H \ {d}) = Cardinality(H) - 1
      BY <2>2, FS_RemoveElement
    <2> QED BY <2>1, <2>3, <1>10, <1>12
  <1>14. Slots[e] \in Nat
    BY EngineAssumption
  <1>15. \A q \in Queues : /\ pump[e][q] = "fetching" => h < Slots[e]
                           /\ pump[e][q] = "blocked" => h >= Slots[e]
    BY <1>12 DEF IInv, RoomIsOffered
  <1>16. ASSUME NEW q \in Queues
         PROVE  /\ reopened[q] = "fetching" => h - 1 < Slots[e]
                /\ reopened[q] = "blocked" => h - 1 >= Slots[e]
    <2>1. CASE pump[e][q] = "blocked" /\ h = Slots[e]
      <3>1. reopened[q] = IF h - 1 < Slots[e] THEN "fetching" ELSE "blocked"
        BY <1>6, <1>12, <2>1 DEF Reopens, RoomWait
      <3> QED BY <3>1, <1>14, <2>1
    <2>2. CASE ~(pump[e][q] = "blocked" /\ h = Slots[e])
      <3>1. reopened[q] = pump[e][q]
        BY <1>6, <1>12, <2>2 DEF Reopens
      <3> QED BY <3>1, <1>14, <1>15, <2>2
    <2> QED BY <2>1, <2>2
  <1>17. RoomIsOffered'
    <2> SUFFICES ASSUME NEW f \in Engines, NEW q \in Queues
                 PROVE  /\ pump'[f][q] = "fetching" => Cardinality(Held(f)') < Slots[f]
                        /\ pump'[f][q] = "blocked" => Cardinality(Held(f)') >= Slots[f]
      BY DEF RoomIsOffered
    <2>1. CASE f = e
      BY <2>1, <1>9, <1>13, <1>16
    <2>2. CASE f # e
      BY <2>2, <1>9, <1>11 DEF IInv, RoomIsOffered
    <2> QED BY <2>1, <2>2
  <1>18. msg' \in [Dispatches -> {"queued", "acked"} \cup Engines]
         /\ up' \in [Engines -> {"up", "stopping", "down"}]
    BY <1>1, <1>t
  <1> QED BY <1>3, <1>4, <1>5, <1>9, <1>17, <1>18, Assemble

--------------------------------------------------------------------------------
(* The pumps, and what takes a dispatch from an engine.                     *)

LEMMA Restaged ==
    ASSUME NEW r \in AttemptType, NEW s \in Stages, NEW n, n = [r EXCEPT !.stage = s]
    PROVE  /\ n \in AttemptType /\ n.stage = s /\ n.box = r.box /\ n.killed = r.killed
           /\ n.left = r.left
  BY DEF AttemptType

(* The pumps.                                                               *)

LEMMA FetchIInv ==
    ASSUME IInv, NEW e \in Engines, NEW d \in Dispatches, Fetch(e, d)
    PROVE  IInv'
  <1>t. /\ msg \in [Dispatches -> {"queued", "acked"} \cup Engines]
        /\ up \in [Engines -> {"up", "stopping", "down"}]
        /\ pump \in [Engines -> [Queues -> PumpStates]]
        /\ at \in [Engines -> [Dispatches -> AttemptType]]
    BY SharedTypes
  <1>g. msg[d] = "queued" /\ at[e][d].stage = "none"
    BY DEF Fetch, Stage
  <1>q. PICK k \in Queues : k = QueueOf(d)
    BY EngineAssumption
  <1>n. PICK n : n = [at[e][d] EXCEPT !.stage = "held"]
    OBVIOUS
  <1>m. n \in AttemptType /\ n.stage = "held" /\ n.box = at[e][d].box
        /\ n.killed = at[e][d].killed
    <2>1. at[e][d] \in AttemptType /\ "held" \in Stages
      BY <1>t DEF Stages
    <2> QED BY <2>1, <1>n, Restaged
  <1>1. msg' = [msg EXCEPT ![d] = e] /\ at' = [at EXCEPT ![e] = [at[e] EXCEPT ![d] = n]]
    BY <1>n DEF Fetch
  <1>2. \A f \in Engines, c \in Dispatches :
           /\ Stage(f, c)' = IF f = e /\ c = d THEN "held" ELSE Stage(f, c)
    BY <1>1, <1>t, <1>m DEF Stage
  <1>3. Local(e)
    <2>1. at[e][d].stage \in Apart /\ n.stage \in Apart
      BY <1>g, <1>m DEF Apart
    <2>2. Sound(kind, at[e], box[e], pool[e])
      BY DEF IInv
    <2>3. n.box = 0 /\ n.killed = FALSE
      <3>1. at[e][d].box = 0
        BY <2>2, <1>g DEF Sound, Leases, Leased
      <3>2. ~at[e][d].killed
        BY <2>2, <1>g DEF Sound, Trees
      <3>3. at[e][d].killed \in BOOLEAN
        BY <1>t DEF AttemptType
      <3> QED BY <3>1, <3>2, <3>3, <1>m
    <2>4. UNCHANGED <<kind, box, pool>>
      BY DEF Fetch
    <2> QED BY <1>1, <1>m, <2>1, <2>3, <2>4, QuietLocal
  <1>4. Rest
    BY SharedTypes, FaultLeft DEF IInv, Rest, Fetch
  <1>5. HolderInv'
    <2> SUFFICES ASSUME NEW c \in Dispatches, NEW f \in Engines, Stage(f, c)' \in Working
                 PROVE  /\ msg'[c] \in {f, "acked"}
                        /\ \A g \in Engines : Stage(g, c)' \in Working => g = f
      BY DEF HolderInv
    <2>0. "queued" \notin Engines
      BY EngineAssumption
    <2>1. CASE c # d
      BY <1>1, <1>2, <1>t, <2>1 DEF IInv, HolderInv
    <2>2. CASE c = d
      <3>1. \A g \in Engines : Stage(g, d) \notin Working
        BY <2>0, <1>g DEF IInv, HolderInv
      <3>2. \A g \in Engines : Stage(g, d)' \in Working => g = e
        BY <3>1, <1>2
      <3>3. msg'[d] = e
        BY <1>1, <1>t
      <3> QED BY <2>2, <3>2, <3>3
    <2> QED BY <2>1, <2>2
  <1>6. PICK held : held = Hold(e, k)
    OBVIOUS
  <1>7. pump' = [pump EXCEPT ![e] = held]
    BY <1>6, <1>q DEF Fetch
  <1>8. PICK h \in Nat : h = Cardinality(Held(e))
    BY HeldCount
  <1>9. held = [p \in Queues |->
        CASE p = k -> "holding"
          [] p # k /\ pump[e][p] = "fetching" /\ h + 1 = Slots[e] -> "abandoned"
          [] OTHER -> pump[e][p]]
    BY <1>6, <1>8 DEF Hold
  <1>10. /\ held \in [Queues -> PumpStates]
         /\ \A p \in Queues : /\ held[p] = "fetching" => pump[e][p] = "fetching" /\ h + 1 # Slots[e]
                              /\ held[p] = "blocked" => pump[e][p] = "blocked"
    BY <1>9, <1>t DEF PumpStates
  <1>11. pump' \in [Engines -> [Queues -> PumpStates]] /\ pump'[e] = held
        /\ \A f \in Engines : f # e => pump'[f] = pump[f]
    BY <1>7, <1>10, <1>t
  <1>12. Held(e)' = Held(e) \cup {d} /\ d \notin Held(e)
    BY <1>2, <1>g DEF Held, Stage
  <1>13. \A f \in Engines : f # e => Held(f)' = Held(f)
    BY <1>2 DEF Held
  <1>14. Cardinality(Held(e)') = h + 1
    <2>1. PICK H : H = Held(e)
      OBVIOUS
    <2>2. IsFiniteSet(H) /\ d \notin H
      BY <2>1, <1>12, HeldCount
    <2>3. Cardinality(H \cup {d}) = Cardinality(H) + 1
      BY <2>2, FS_AddElement
    <2> QED BY <2>1, <2>3, <1>12, <1>8
  <1>15. \A q \in Queues : /\ pump[e][q] = "fetching" => h < Slots[e]
                           /\ pump[e][q] = "blocked" => h >= Slots[e]
    BY <1>8 DEF IInv, RoomIsOffered
  <1>16. ASSUME NEW q \in Queues
         PROVE  /\ held[q] = "fetching" => h + 1 < Slots[e]
                /\ held[q] = "blocked" => h + 1 >= Slots[e]
    <2>1. Slots[e] \in Nat
      BY EngineAssumption
    <2> QED BY <2>1, <1>10, <1>15
  <1>17. RoomIsOffered'
    <2> SUFFICES ASSUME NEW f \in Engines, NEW q \in Queues
                 PROVE  /\ pump'[f][q] = "fetching" => Cardinality(Held(f)') < Slots[f]
                        /\ pump'[f][q] = "blocked" => Cardinality(Held(f)') >= Slots[f]
      BY DEF RoomIsOffered
    <2>1. CASE f = e
      BY <2>1, <1>11, <1>14, <1>16
    <2>2. CASE f # e
      BY <2>2, <1>11, <1>13 DEF IInv, RoomIsOffered
    <2> QED BY <2>1, <2>2
  <1>18. msg' \in [Dispatches -> {"queued", "acked"} \cup Engines]
         /\ up' \in [Engines -> {"up", "stopping", "down"}]
    BY <1>1, <1>t DEF Fetch
  <1> QED BY <1>3, <1>4, <1>5, <1>11, <1>17, <1>18, Assemble

(* Nobody's attempt is another: the delivery and the rooms decide.          *)
LEMMA NobodyMoves ==
    ASSUME IInv, NEW e \in Engines, UNCHANGED <<kind, at, box, pool>>
    PROVE  /\ Local(e)
           /\ \A f \in Engines, c \in Dispatches : Stage(f, c)' = Stage(f, c)
           /\ \A f \in Engines : Held(f)' = Held(f)
  <1>1. /\ at \in [Engines -> [Dispatches -> AttemptType]]
        /\ box \in [Engines -> [Boxes -> BoxType]] /\ pool \in [Engines -> PoolType]
    BY SharedTypes
  <1>2. /\ at' = [at EXCEPT ![e] = at[e]] /\ box' = [box EXCEPT ![e] = box[e]]
        /\ pool' = [pool EXCEPT ![e] = pool[e]]
    BY <1>1
  <1>3. Sound(kind, at[e], box[e], pool[e])
    BY DEF IInv
  <1>4. Local(e)
    BY <1>2, <1>3 DEF Local
  <1>5. \A f \in Engines, c \in Dispatches : Stage(f, c)' = Stage(f, c)
    BY DEF Stage
  <1> QED BY <1>4, <1>5 DEF Held

(* A pump goes round, or ends.                                              *)
LEMMA PumpIInv ==
    ASSUME IInv, NEW e \in Engines, NEW q \in Queues, NEW s,
           s = RoomWait(e, Cardinality(Held(e))) \/ s = "ended",
           pump' = [pump EXCEPT ![e][q] = s], UNCHANGED <<kind, image, msg, up, at, box, pool>>,
           Fault \/ UNCHANGED faults
    PROVE  IInv'
  <1>t. /\ msg \in [Dispatches -> {"queued", "acked"} \cup Engines]
        /\ up \in [Engines -> {"up", "stopping", "down"}]
        /\ pump \in [Engines -> [Queues -> PumpStates]]
    BY SharedTypes
  <1>1. /\ Local(e)
        /\ \A f \in Engines, c \in Dispatches : Stage(f, c)' = Stage(f, c)
        /\ \A f \in Engines : Held(f)' = Held(f)
    BY NobodyMoves
  <1>2. Rest
    BY SharedTypes, FaultLeft DEF IInv, Rest
  <1>3. HolderInv'
    BY <1>1 DEF IInv, HolderInv
  <1>4. s \in PumpStates
    BY DEF RoomWait, PumpStates
  <1>5. /\ pump' \in [Engines -> [Queues -> PumpStates]]
        /\ \A f \in Engines, p \in Queues :
              pump'[f][p] = IF f = e /\ p = q THEN s ELSE pump[f][p]
    BY <1>4, <1>t
  <1>6. RoomIsOffered'
    <2> SUFFICES ASSUME NEW f \in Engines, NEW p \in Queues
                 PROVE  /\ pump'[f][p] = "fetching" => Cardinality(Held(f)') < Slots[f]
                        /\ pump'[f][p] = "blocked" => Cardinality(Held(f)') >= Slots[f]
      BY DEF RoomIsOffered
    <2>1. CASE f = e /\ p = q
      <3>1. PICK h \in Nat : h = Cardinality(Held(e))
        BY HeldCount
      <3>2. Slots[e] \in Nat
        BY EngineAssumption
      <3>3. pump'[f][p] = s /\ Cardinality(Held(f)') = h
        BY <1>1, <1>5, <2>1, <3>1
      <3> QED BY <2>1, <3>1, <3>2, <3>3 DEF RoomWait
    <2>2. CASE ~(f = e /\ p = q)
      BY <2>2, <1>1, <1>5 DEF IInv, RoomIsOffered
    <2> QED BY <2>1, <2>2
  <1>7. /\ msg' \in [Dispatches -> {"queued", "acked"} \cup Engines]
        /\ up' \in [Engines -> {"up", "stopping", "down"}]
    BY <1>t
  <1> QED BY <1>1, <1>2, <1>3, <1>5, <1>6, <1>7, Assemble

LEMMA AbandonIInv ==
    ASSUME IInv, NEW e \in Engines, NEW q \in Queues, Abandon(e, q) \/ FetchFails(e, q)
    PROVE  IInv'
  <1>1. CASE Abandon(e, q)
    BY <1>1, PumpIInv DEF Abandon
  <1>2. CASE FetchFails(e, q)
    BY <1>2, PumpIInv DEF FetchFails
  <1> QED BY <1>1, <1>2

LEMMA TakeSlotIInv ==
    ASSUME IInv, NEW e \in Engines, NEW d \in Dispatches, TakeSlot(e, d)
    PROVE  IInv'
  <1>t. /\ msg \in [Dispatches -> {"queued", "acked"} \cup Engines]
        /\ up \in [Engines -> {"up", "stopping", "down"}]
        /\ pump \in [Engines -> [Queues -> PumpStates]]
        /\ at \in [Engines -> [Dispatches -> AttemptType]]
    BY SharedTypes
  <1>g. at[e][d].stage = "held"
    BY DEF TakeSlot, Stage
  <1>q. PICK q \in Queues : q = QueueOf(d)
    BY EngineAssumption
  <1>n. PICK n : n = [at[e][d] EXCEPT !.stage = "slot"]
    OBVIOUS
  <1>m. n \in AttemptType /\ n.stage = "slot" /\ n.box = at[e][d].box
        /\ n.killed = at[e][d].killed
    <2>1. at[e][d] \in AttemptType /\ "slot" \in Stages
      BY <1>t DEF Stages
    <2> QED BY <2>1, <1>n, Restaged
  <1>1. at' = [at EXCEPT ![e] = [at[e] EXCEPT ![d] = n]]
    BY <1>n DEF TakeSlot
  <1>2. \A f \in Engines, c \in Dispatches :
           /\ Stage(f, c)' = IF f = e /\ c = d THEN "slot" ELSE Stage(f, c)
    BY <1>1, <1>t, <1>m DEF Stage
  <1>3. Local(e)
    <2>1. at[e][d].stage \in Apart /\ n.stage \in Apart
      BY <1>g, <1>m DEF Apart
    <2>2. Sound(kind, at[e], box[e], pool[e])
      BY DEF IInv
    <2>3. n.box = 0 /\ n.killed = FALSE
      <3>1. at[e][d].box = 0
        BY <2>2, <1>g DEF Sound, Leases, Leased
      <3>2. ~at[e][d].killed
        BY <2>2, <1>g DEF Sound, Trees
      <3>3. at[e][d].killed \in BOOLEAN
        BY <1>t DEF AttemptType
      <3> QED BY <3>1, <3>2, <3>3, <1>m
    <2>4. UNCHANGED <<kind, box, pool>>
      BY DEF TakeSlot
    <2> QED BY <1>1, <1>m, <2>1, <2>3, <2>4, QuietLocal
  <1>4. Rest
    BY SharedTypes, FaultLeft DEF IInv, Rest, TakeSlot
  <1>5. HolderInv'
    <2>1. \A f \in Engines, c \in Dispatches : Stage(f, c)' \in Working <=> Stage(f, c) \in Working
      BY <1>2, <1>g DEF Stage, Working
    <2>2. msg' = msg
      BY DEF TakeSlot
    <2> QED BY <2>1, <2>2 DEF IInv, HolderInv
  <1>6. \A f \in Engines : Held(f)' = Held(f)
    BY <1>2, <1>g DEF Held, Stage
  <1>7. PICK h \in Nat : h = Cardinality(Held(e))
    BY HeldCount
  <1>8. PICK s : s = RoomWait(e, h)
    OBVIOUS
  <1>9. s \in PumpStates
    BY <1>8 DEF RoomWait, PumpStates
  <1>10. pump' = [pump EXCEPT ![e][q] = s]
    BY <1>7, <1>8, <1>q DEF TakeSlot
  <1>11. /\ pump' \in [Engines -> [Queues -> PumpStates]]
         /\ \A f \in Engines, p \in Queues :
              pump'[f][p] = IF f = e /\ p = q THEN s ELSE pump[f][p]
    BY <1>9, <1>10, <1>t
  <1>12. RoomIsOffered'
    <2> SUFFICES ASSUME NEW f \in Engines, NEW p \in Queues
                 PROVE  /\ pump'[f][p] = "fetching" => Cardinality(Held(f)') < Slots[f]
                        /\ pump'[f][p] = "blocked" => Cardinality(Held(f)') >= Slots[f]
      BY DEF RoomIsOffered
    <2>1. CASE f = e /\ p = q
      <3>1. Slots[e] \in Nat
        BY EngineAssumption
      <3>2. pump'[f][p] = s /\ Cardinality(Held(f)') = h
        BY <1>6, <1>7, <1>11, <2>1
      <3> QED BY <2>1, <3>1, <3>2, <1>7, <1>8 DEF RoomWait
    <2>2. CASE ~(f = e /\ p = q)
      BY <2>2, <1>6, <1>11 DEF IInv, RoomIsOffered
    <2> QED BY <2>1, <2>2
  <1>13. msg' \in [Dispatches -> {"queued", "acked"} \cup Engines]
         /\ up' \in [Engines -> {"up", "stopping", "down"}]
    BY <1>t DEF TakeSlot
  <1> QED BY <1>3, <1>4, <1>5, <1>11, <1>12, <1>13, Assemble

(* A delivery that nobody renews goes back: nobody works on it any more.    *)
LEMMA RedeliverIInv ==
    ASSUME IInv, NEW d \in Dispatches, Redeliver(d)
    PROVE  IInv'
  <1>t. /\ msg \in [Dispatches -> {"queued", "acked"} \cup Engines]
        /\ up \in [Engines -> {"up", "stopping", "down"}]
        /\ pump \in [Engines -> [Queues -> PumpStates]]
    BY SharedTypes
  <1>e. PICK e \in Engines : e = msg[d] /\ ~Renewed(e, d)
    BY DEF Redeliver
  <1>u. UNCHANGED <<kind, at, box, pool>> /\ pump' = pump /\ up' = up
        /\ msg' = [msg EXCEPT ![d] = "queued"]
    BY DEF Redeliver
  <1>1. /\ Local(e)
        /\ \A f \in Engines, c \in Dispatches : Stage(f, c)' = Stage(f, c)
        /\ \A f \in Engines : Held(f)' = Held(f)
    BY <1>u, NobodyMoves
  <1>2. Rest
    BY SharedTypes, FaultLeft DEF IInv, Rest, Redeliver
  <1>3. Stage(e, d) \notin Working
    BY <1>e DEF Renewed, Held, Working
  <1>4. HolderInv'
    <2>1. e # "acked"
      BY EngineAssumption
    <2>2. \A f \in Engines : Stage(f, d) \notin Working
      BY <1>3, <1>e, <2>1 DEF IInv, HolderInv
    <2>3. \A c \in Dispatches : c # d => msg'[c] = msg[c]
      BY <1>u, <1>t
    <2> QED BY <1>1, <2>2, <2>3 DEF IInv, HolderInv
  <1>5. RoomIsOffered'
    BY <1>1, <1>u DEF IInv, RoomIsOffered
  <1>6. /\ msg' \in [Dispatches -> {"queued", "acked"} \cup Engines]
        /\ up' \in [Engines -> {"up", "stopping", "down"}]
        /\ pump' \in [Engines -> [Queues -> PumpStates]]
    BY <1>u, <1>t
  <1> QED BY <1>1, <1>2, <1>4, <1>5, <1>6, Assemble

LEMMA RepublishedIInv ==
    ASSUME IInv, Republished
    PROVE  IInv'
  <1>u. UNCHANGED <<kind, msg, up, pump, at, box, pool>>
    BY DEF Republished
  <1>1. TypeOK'
    <2>1. faults' \in 0 .. MaxFaults
      BY FaultLeft DEF IInv, Republished
    <2> QED BY <2>1 DEF IInv, TypeOK, Republished
  <1>2. \A f \in Engines, c \in Dispatches : Stage(f, c)' = Stage(f, c)
    BY <1>u DEF Stage
  <1>3. HolderInv'
    BY <1>u, <1>2 DEF IInv, HolderInv
  <1>4. \A f \in Engines : Held(f)' = Held(f)
    BY <1>2 DEF Held
  <1>5. RoomIsOffered'
    BY <1>u, <1>4 DEF IInv, RoomIsOffered
  <1>6. (\A e \in Engines : Sound(kind, at[e], box[e], pool[e]))'
    BY <1>u DEF IInv
  <1> QED BY <1>1, <1>3, <1>5, <1>6 DEF IInv

(* What an engine that stops waits with goes back; an engine that dies has  *)
(* nothing.  Their pumps have ended, so their rooms offer nothing.          *)
LEMMA StopIInv ==
    ASSUME IInv, NEW e \in Engines, Stop(e)
    PROVE  IInv'
  <1>t. /\ msg \in [Dispatches -> {"queued", "acked"} \cup Engines]
        /\ up \in [Engines -> {"up", "stopping", "down"}]
        /\ pump \in [Engines -> [Queues -> PumpStates]]
        /\ at \in [Engines -> [Dispatches -> AttemptType]]
        /\ box \in [Engines -> [Boxes -> BoxType]] /\ pool \in [Engines -> PoolType]
    BY SharedTypes
  <1>n. NoAttempt \in AttemptType /\ NoAttempt.stage = "none" /\ NoAttempt.box = 0
        /\ NoAttempt.killed = FALSE
    BY EngineAssumption DEF NoAttempt, AttemptType, Stages
  <1>a. PICK a2 : a2 = [d \in Dispatches |-> IF at[e][d].stage = "held" THEN NoAttempt ELSE at[e][d]]
    OBVIOUS
  <1>1. at' = [at EXCEPT ![e] = a2]
    BY <1>a DEF Stop, Stage
  <1>b. a2 \in [Dispatches -> AttemptType]
    BY <1>a, <1>n, <1>t
  <1>c. \A c \in Dispatches : a2[c] = IF at[e][c].stage = "held" THEN NoAttempt ELSE at[e][c]
    BY <1>a
  <1>2. \A f \in Engines, c \in Dispatches :
           Stage(f, c)' = IF f = e /\ Stage(e, c) = "held" THEN "none" ELSE Stage(f, c)
    BY <1>1, <1>c, <1>t, <1>n DEF Stage
  <1>3. Local(e)
    <2>1. Sound(kind, at[e], box[e], pool[e])
      BY DEF IInv
    <2>2. \A c \in Dispatches :
              \/ /\ a2[c].stage = at[e][c].stage /\ a2[c].box = at[e][c].box
                 /\ a2[c].killed = at[e][c].killed /\ a2[c].left = at[e][c].left
              \/ /\ at[e][c].stage \in Apart /\ a2[c].stage \in Apart
                 /\ a2[c].box = 0 /\ ~a2[c].killed
      BY <1>c, <1>n DEF Apart
    <2>3. Sound(kind, a2, box[e], pool[e])
      BY <1>b, <2>1, <2>2, QuietSound
    <2>4. /\ box' = [box EXCEPT ![e] = box[e]] /\ pool' = [pool EXCEPT ![e] = pool[e]]
          /\ kind' = kind
      BY <1>t DEF Stop
    <2> QED BY <1>1, <2>3, <2>4 DEF Local
  <1>4. Rest
    BY SharedTypes, FaultLeft DEF IInv, Rest, Stop
  <1>5. \A c \in Dispatches : msg'[c] = IF Stage(e, c) = "held" THEN "queued" ELSE msg[c]
    BY DEF Stop
  <1>6. HolderInv'
    <2> SUFFICES ASSUME NEW c \in Dispatches, NEW f \in Engines, Stage(f, c)' \in Working
                 PROVE  /\ msg'[c] \in {f, "acked"}
                        /\ \A g \in Engines : Stage(g, c)' \in Working => g = f
      BY DEF HolderInv
    <2>1. Stage(f, c) \in Working /\ ~(f = e /\ Stage(e, c) = "held")
      BY <1>2 DEF Working
    <2>2. \A g \in Engines : Stage(g, c)' \in Working => Stage(g, c) \in Working
      BY <1>2 DEF Working
    <2>3. \A g \in Engines : Stage(g, c) \in Working => g = f
      BY <2>1 DEF IInv, HolderInv
    <2>4. Stage(e, c) # "held"
      BY <2>1, <2>3 DEF Working
    <2> QED BY <2>1, <2>2, <2>3, <2>4, <1>5 DEF IInv, HolderInv
  <1>7. \A f \in Engines : f # e => Held(f)' = Held(f)
    BY <1>2 DEF Held
  <1>8. /\ pump' \in [Engines -> [Queues -> PumpStates]]
        /\ \A f \in Engines, q \in Queues : pump'[f][q] = IF f = e THEN "ended" ELSE pump[f][q]
    BY <1>t DEF Stop, PumpStates
  <1>9. RoomIsOffered'
    <2> SUFFICES ASSUME NEW f \in Engines, NEW p \in Queues
                 PROVE  /\ pump'[f][p] = "fetching" => Cardinality(Held(f)') < Slots[f]
                        /\ pump'[f][p] = "blocked" => Cardinality(Held(f)') >= Slots[f]
      BY DEF RoomIsOffered
    <2>1. CASE f = e
      BY <1>8, <2>1
    <2>2. CASE f # e
      BY <1>7, <1>8, <2>2 DEF IInv, RoomIsOffered
    <2> QED BY <2>1, <2>2
  <1>10. /\ msg' \in [Dispatches -> {"queued", "acked"} \cup Engines]
         /\ up' \in [Engines -> {"up", "stopping", "down"}]
    BY <1>t DEF Stop
  <1> QED BY <1>3, <1>4, <1>6, <1>8, <1>9, <1>10, Assemble

LEMMA CrashIInv ==
    ASSUME IInv, NEW e \in Engines, Crash(e)
    PROVE  IInv'
  <1>t. /\ msg \in [Dispatches -> {"queued", "acked"} \cup Engines]
        /\ up \in [Engines -> {"up", "stopping", "down"}]
        /\ pump \in [Engines -> [Queues -> PumpStates]]
        /\ at \in [Engines -> [Dispatches -> AttemptType]]
    BY SharedTypes
  <1>n. NoAttempt.stage = "none"
    BY DEF NoAttempt
  <1>1. at' = [at EXCEPT ![e] = [d \in Dispatches |-> NoAttempt]] /\ msg' = msg
    BY DEF Crash
  <1>2. \A f \in Engines, c \in Dispatches :
           Stage(f, c)' = IF f = e THEN "none" ELSE Stage(f, c)
    BY <1>1, <1>t, <1>n DEF Stage
  <1>3. Local(e)
    <2>1. Sound(kind, [d \in Dispatches |-> NoAttempt], [b \in Boxes |-> NoBox], EmptyPool)
      BY EmptySound
    <2> QED BY <2>1 DEF Local, Crash
  <1>4. Rest
    BY SharedTypes, FaultLeft DEF IInv, Rest, Crash
  <1>5. HolderInv'
    <2>1. \A f \in Engines, c \in Dispatches :
             Stage(f, c)' \in Working => Stage(f, c) \in Working
      BY <1>2 DEF Working
    <2> QED BY <2>1, <1>1 DEF IInv, HolderInv
  <1>6. \A f \in Engines : f # e => Held(f)' = Held(f)
    BY <1>2 DEF Held
  <1>7. /\ pump' \in [Engines -> [Queues -> PumpStates]]
        /\ \A f \in Engines, q \in Queues : pump'[f][q] = IF f = e THEN "ended" ELSE pump[f][q]
    BY <1>t DEF Crash, PumpStates
  <1>8. RoomIsOffered'
    <2> SUFFICES ASSUME NEW f \in Engines, NEW p \in Queues
                 PROVE  /\ pump'[f][p] = "fetching" => Cardinality(Held(f)') < Slots[f]
                        /\ pump'[f][p] = "blocked" => Cardinality(Held(f)') >= Slots[f]
      BY DEF RoomIsOffered
    <2>1. CASE f = e
      BY <1>7, <2>1
    <2>2. CASE f # e
      BY <1>6, <1>7, <2>2 DEF IInv, RoomIsOffered
    <2> QED BY <2>1, <2>2
  <1>9. /\ msg' \in [Dispatches -> {"queued", "acked"} \cup Engines]
        /\ up' \in [Engines -> {"up", "stopping", "down"}]
    BY <1>t DEF Crash
  <1> QED BY <1>3, <1>4, <1>5, <1>7, <1>8, <1>9, Assemble

--------------------------------------------------------------------------------
(* handle and run, up to the sandbox.                                       *)

LEMMA Unleased ==
    ASSUME IInv, NEW e \in Engines, NEW d \in Dispatches
    PROVE  /\ at[e][d] \in AttemptType
           /\ at[e][d].stage \notin Leased => at[e][d].box = 0
           /\ at[e][d].stage \notin {"exited", "publishing"} => at[e][d].killed = FALSE
           /\ Sound(kind, at[e], box[e], pool[e])
  <1>1. at \in [Engines -> [Dispatches -> AttemptType]]
    BY SharedTypes
  <1>2. Sound(kind, at[e], box[e], pool[e])
    BY DEF IInv
  <1>3. at[e][d].stage \notin Leased => at[e][d].box = 0
    BY <1>2 DEF Sound, Leases
  <1>4. at[e][d].stage \notin {"exited", "publishing"} => ~at[e][d].killed
    BY <1>2 DEF Sound, Trees
  <1>5. at[e][d] \in AttemptType
    BY <1>1
  <1>6. at[e][d].killed \in BOOLEAN
    BY <1>5 DEF AttemptType
  <1> QED BY <1>2, <1>3, <1>4, <1>5, <1>6

LEMMA FailsMove ==
    ASSUME IInv, NEW e \in Engines, NEW d \in Dispatches, Fails(e, d),
           Stage(e, d) \in {"slot", "owned", "making"}
    PROVE  \E n \in AttemptType : /\ at' = [at EXCEPT ![e] = [at[e] EXCEPT ![d] = n]]
                                  /\ n.stage = "publishing" /\ n.box = 0 /\ n.killed = FALSE
  <1>1. PICK r \in AttemptType : r = at[e][d] /\ r.box = 0 /\ r.killed = FALSE
    <2>1. at[e][d].stage \notin Leased /\ at[e][d].stage \notin {"exited", "publishing"}
      BY DEF Stage, Leased
    <2> QED BY <2>1, Unleased
  <1>2. PICK n : n = [r EXCEPT !.stage = "publishing", !.status = "failed"]
    OBVIOUS
  <1>3. n \in AttemptType /\ n.stage = "publishing" /\ n.box = 0 /\ n.killed = FALSE
    BY <1>1, <1>2 DEF AttemptType, Stages
  <1>4. at' = [at EXCEPT ![e] = [at[e] EXCEPT ![d] = n]]
    <2>1. at \in [Engines -> [Dispatches -> AttemptType]]
      BY SharedTypes
    <2> QED BY <1>1, <1>2, <2>1 DEF Fails
  <1> QED BY <1>3, <1>4

(* An attempt that has nothing yet moves on, or fails.                      *)
LEMMA QuietIInv ==
    ASSUME IInv, NEW e \in Engines, NEW d \in Dispatches, NEW n \in AttemptType,
           at' = [at EXCEPT ![e] = [at[e] EXCEPT ![d] = n]],
           UNCHANGED <<kind, image, msg, up, pump, box, pool>>, Fault \/ UNCHANGED faults,
           \/ /\ n.stage = at[e][d].stage /\ n.box = at[e][d].box
              /\ n.killed = at[e][d].killed /\ n.left = at[e][d].left
              /\ n.stage # "none"
           \/ /\ at[e][d].stage \in {"slot", "owned"} /\ n.stage \in {"owned", "publishing"}
              /\ n.box = 0 /\ n.killed = FALSE
    PROVE  IInv'
  <1>1. Local(e)
    <2>1. CASE n.stage = at[e][d].stage /\ n.box = at[e][d].box
              /\ n.killed = at[e][d].killed /\ n.left = at[e][d].left
      BY <2>1, QuietLocal
    <2>2. CASE at[e][d].stage \in {"slot", "owned"} /\ n.stage \in {"owned", "publishing"}
              /\ n.box = 0 /\ n.killed = FALSE
      <3>1. at[e][d].stage \in Apart /\ n.stage \in Apart
        BY <2>2 DEF Apart
      <3> QED BY <2>2, <3>1, QuietLocal
    <2> QED BY <2>1, <2>2
  <1>2. Moves(e, d)
    BY DEF Moves, Stage, Working
  <1>3. Rest
    BY SharedTypes, FaultLeft DEF IInv, Rest
  <1> QED BY <1>1, <1>2, <1>3, MovesIInv

LEMMA FinishersIInv ==
    ASSUME IInv, NEW e \in Engines, NEW d \in Dispatches,
           \/ Unparseable(e, d) \/ Superseded(e, d) \/ Unconfirmed(e, d) \/ Publish(e, d)
    PROVE  IInv'
  <1>t. {"queued", "acked"} \subseteq {"queued", "acked"} \cup Engines
        /\ msg[d] \in {"queued", "acked"} \cup Engines
    BY SharedTypes
  <1>w. "slot" \in Apart \ {"none"} /\ "slot" \in Working /\ "publishing" \in Apart \ {"none"}
    BY DEF Apart, Working
  <1>1. CASE Unparseable(e, d)
    BY <1>1, <1>t, <1>w, FinishIInv DEF Unparseable
  <1>2. CASE Superseded(e, d)
    BY <1>2, <1>t, <1>w, FinishIInv DEF Superseded
  <1>3. CASE Unconfirmed(e, d)
    BY <1>3, <1>t, <1>w, FinishIInv DEF Unconfirmed
  <1>4. CASE Publish(e, d)
    <2>1. UNCHANGED <<kind, image, up, box, pool>> /\ Stage(e, d) = "publishing"
      BY <1>4 DEF Publish
    <2>2. CASE Finish(e, d, "acked") /\ UNCHANGED faults
      BY <2>1, <2>2, <1>t, <1>w, FinishIInv
    <2>3. CASE Finish(e, d, msg[d]) /\ Fault
      BY <2>1, <2>3, <1>t, <1>w, FinishIInv
    <2> QED BY <1>4, <2>2, <2>3 DEF Publish
  <1> QED BY <1>1, <1>2, <1>3, <1>4

LEMMA ConfirmIInv ==
    ASSUME IInv, NEW e \in Engines, NEW d \in Dispatches,
           Refuse(e, d) \/ Own(e, d) \/ Cancel(e, d) \/ Deadline(e, d)
    PROVE  IInv'
  <1>t. at[e][d] \in AttemptType /\ at \in [Engines -> [Dispatches -> AttemptType]]
    BY SharedTypes
  <1>1. CASE Refuse(e, d)
    <2>1. PICK n \in AttemptType : /\ at' = [at EXCEPT ![e] = [at[e] EXCEPT ![d] = n]]
                                   /\ n.stage = "publishing" /\ n.box = 0 /\ n.killed = FALSE
      BY <1>1, FailsMove DEF Refuse
    <2> QED BY <1>1, <2>1, QuietIInv DEF Refuse, Stage
  <1>2. CASE Own(e, d)
    <2>0. /\ UNCHANGED <<kind, image, msg, up, pump, box, pool>> /\ at[e][d].stage = "slot"
          /\ Stage(e, d) = "slot"
      BY <1>2 DEF Own, Stage
    <2>1. CASE at' = [at EXCEPT ![e][d].stage = "owned"] /\ UNCHANGED faults
      <3>1. PICK n : n = [at[e][d] EXCEPT !.stage = "owned"]
        OBVIOUS
      <3>2. n \in AttemptType /\ n.stage = "owned" /\ n.box = at[e][d].box
            /\ n.killed = at[e][d].killed
        <4>1. "owned" \in Stages
          BY DEF Stages
        <4> QED BY <4>1, <3>1, <1>t, Restaged
      <3>3. n.box = 0 /\ n.killed = FALSE
        <4>1. at[e][d].stage \notin Leased
          BY <2>0 DEF Leased
        <4> QED BY <2>0, <3>2, <4>1, Unleased
      <3>4. at' = [at EXCEPT ![e] = [at[e] EXCEPT ![d] = n]]
        BY <2>1, <3>1
      <3> QED BY <2>0, <2>1, <3>2, <3>3, <3>4, QuietIInv
    <2>2. CASE Fails(e, d) /\ Fault
      <3>1. PICK n \in AttemptType : /\ at' = [at EXCEPT ![e] = [at[e] EXCEPT ![d] = n]]
                                     /\ n.stage = "publishing" /\ n.box = 0 /\ n.killed = FALSE
        BY <2>0, <2>2, FailsMove
      <3> QED BY <2>0, <2>2, <3>1, QuietIInv
    <2> QED BY <1>2, <2>1, <2>2 DEF Own
  <1>3. CASE Cancel(e, d)
    <2>1. PICK r \in AttemptType : r = at[e][d]
      BY <1>t
    <2>2. PICK n : n = [r EXCEPT !.cancelled = TRUE]
      OBVIOUS
    <2>3. n \in AttemptType /\ n.stage = r.stage /\ n.box = r.box /\ n.killed = r.killed
          /\ n.left = r.left
      BY <2>1, <2>2 DEF AttemptType
    <2>4. at' = [at EXCEPT ![e] = [at[e] EXCEPT ![d] = n]]
      BY <1>3, <2>1, <2>2 DEF Cancel
    <2>5. r.stage # "none"
      BY <1>3, <2>1 DEF Cancel, InFlight, Running, Held, Stage
    <2>6. UNCHANGED <<kind, image, msg, up, pump, box, pool>> /\ Fault
      BY <1>3 DEF Cancel
    <2> QED BY <2>1, <2>3, <2>4, <2>5, <2>6, QuietIInv
  <1>4. CASE Deadline(e, d)
    <2>1. PICK r \in AttemptType : r = at[e][d]
      BY <1>t
    <2>2. PICK n : n = [r EXCEPT !.late = TRUE]
      OBVIOUS
    <2>3. n \in AttemptType /\ n.stage = r.stage /\ n.box = r.box /\ n.killed = r.killed
          /\ n.left = r.left
      BY <2>1, <2>2 DEF AttemptType
    <2>4. at' = [at EXCEPT ![e] = [at[e] EXCEPT ![d] = n]]
      BY <1>4, <2>1, <2>2 DEF Deadline
    <2>5. r.stage # "none"
      BY <1>4, <2>1 DEF Deadline, Stage
    <2>6. UNCHANGED <<kind, image, msg, up, pump, box, pool>> /\ Fault
      BY <1>4 DEF Deadline
    <2> QED BY <2>1, <2>3, <2>4, <2>5, <2>6, QuietIInv
  <1> QED BY <1>1, <1>2, <1>3, <1>4

--------------------------------------------------------------------------------
(* Sandboxes are made.                                                      *)

LEMMA ImageType == ASSUME IInv PROVE ImageOf(kind, image) \in 0 .. 2
  BY SharedTypes DEF IInv, TypeOK, ImageOf, Kinds, ProcessImage, ContainerdImage,
     KubernetesImage, VMImage

(* What MakeBox can come to: the attempt has its sandbox, or has failed.    *)
MakeBoxTo(e, d, n, x2) ==
    /\ at' = [at EXCEPT ![e] = [at[e] EXCEPT ![d] = n]]
    /\ box' = [box EXCEPT ![e] = x2]
    /\ \/ n.stage = "boxed" /\ Sound(kind, [at[e] EXCEPT ![d] = n], x2, pool[e])
       \/ /\ n.stage = "publishing" /\ n.box = 0 /\ n.killed = FALSE
          /\ Sound(kind, at[e], x2, pool[e]) /\ (kind = "pool" => x2 = box[e])
    /\ Fault \/ UNCHANGED faults

LEMMA MakeBoxEnds ==
    ASSUME IInv, NEW e \in Engines, NEW d \in Dispatches, MakeBox(e, d),
           Stage(e, d) = IF kind = "pool" THEN "making" ELSE "owned"
    PROVE  \E n \in AttemptType, x2 \in [Boxes -> BoxType] : MakeBoxTo(e, d, n, x2)
  <1>t. /\ at \in [Engines -> [Dispatches -> AttemptType]]
        /\ box \in [Engines -> [Boxes -> BoxType]] /\ kind \in Kinds
    BY SharedTypes DEF IInv, TypeOK
  <1>s. Sound(kind, at[e], box[e], pool[e]) /\ at[e][d] \in AttemptType
    BY Unleased
  <1>b. PICK b \in Boxes : b = Min(Free(e)) /\ box[e][b].up = "no"
    <2>1. Free(e) \subseteq Nat /\ Free(e) # {}
      BY EngineAssumption DEF Free, Boxes, MakeBox
    <2>2. Min(Free(e)) \in Free(e)
      BY <2>1, MinIsMember
    <2> QED BY <2>2 DEF Free
  <1>o. PICK o \in AcquireOutcomes(kind, d) :
          \/ /\ o = "up"
             /\ box' = [box EXCEPT ![e][b] = [NoBox EXCEPT
                          !.up = "yes", !.tenant = KeyFor(d), !.image = ImageOf(kind, image)]]
             /\ at' = [at EXCEPT ![e][d].stage = "boxed", ![e][d].box = b]
             /\ UNCHANGED faults
          \/ o = "failed" /\ Fails(e, d) /\ UNCHANGED <<box, faults>>
          \/ /\ o = "leaked" /\ Fault
             /\ box' = [box EXCEPT ![e][b].up = "leaked"]
             /\ Fails(e, d)
    BY <1>b DEF MakeBox
  <1>1. CASE o = "up"
    <2>1. /\ box' = [box EXCEPT ![e][b] = [NoBox EXCEPT
                          !.up = "yes", !.tenant = KeyFor(d), !.image = ImageOf(kind, image)]]
          /\ at' = [at EXCEPT ![e][d].stage = "boxed", ![e][d].box = b]
          /\ UNCHANGED faults
      BY <1>o, <1>1
    <2>y. PICK y : y = [NoBox EXCEPT
                          !.up = "yes", !.tenant = KeyFor(d), !.image = ImageOf(kind, image)]
      OBVIOUS
    <2>2. y \in BoxType /\ y.up = "yes" /\ y.tenant = TenantOf[d]
      <3>1. PICK i \in 0 .. 2 : i = ImageOf(kind, image)
        BY ImageType
      <3>2. y = [up |-> "yes", tenant |-> TenantOf[d], image |-> i, broken |-> FALSE,
                 input |-> <<>>, procs |-> {}]
        BY <2>y, <3>1 DEF NoBox, KeyFor
      <3> QED BY <3>1, <3>2 DEF BoxType
    <2>n. PICK r \in AttemptType : r = at[e][d]
      BY <1>s
    <2>m. PICK n : n = [r EXCEPT !.stage = "boxed", !.box = b]
      OBVIOUS
    <2>3. n \in AttemptType /\ n.stage = "boxed" /\ n.box = b /\ n.killed = r.killed
      <3>1. b \in 0 .. MaxBoxes
        BY EngineAssumption DEF Boxes
      <3> QED BY <2>n, <2>m, <3>1 DEF AttemptType, Stages
    <2>4. n.killed = FALSE
      BY <2>3, <2>n, Unleased DEF Stage
    <2>5. PICK a2 : a2 = [at[e] EXCEPT ![d] = n]
      OBVIOUS
    <2>6. PICK x2 : x2 = [box[e] EXCEPT ![b] = y]
      OBVIOUS
    <2>7. at' = [at EXCEPT ![e] = a2]
      BY <1>t, <2>1, <2>n, <2>m, <2>5
    <2>8. box' = [box EXCEPT ![e] = x2]
      BY <1>t, <2>1, <2>y, <2>6
    <2>9. OnlyAt(at[e], a2, d) /\ a2[d] = n /\ OnlyBox(box[e], x2, b) /\ x2[b] = y
      BY <1>t, <2>2, <2>3, <2>5, <2>6 DEF OnlyAt, OnlyBox
    <2>10. Sound(kind, a2, x2, pool[e])
      <3>1. /\ at[e][d].stage = IF kind = "pool" THEN "making" ELSE "owned"
            /\ a2[d].stage = "boxed" /\ a2[d].box = b /\ a2[d].killed = FALSE
            /\ x2[b].up = "yes" /\ x2[b].tenant = TenantOf[d]
        BY <2>2, <2>3, <2>4, <2>9 DEF Stage
      <3> QED BY <1>b, <1>s, <2>9, <3>1, MadeSound
    <2>11. x2 \in [Boxes -> BoxType]
      BY <2>9 DEF OnlyBox
    <2> QED BY <2>1, <2>3, <2>5, <2>7, <2>8, <2>10, <2>11 DEF MakeBoxTo
  <1>2. CASE o # "up"
    <2>1. PICK n \in AttemptType : /\ at' = [at EXCEPT ![e] = [at[e] EXCEPT ![d] = n]]
                                   /\ n.stage = "publishing" /\ n.box = 0 /\ n.killed = FALSE
      BY <1>o, <1>2, FailsMove
    <2>2. CASE UNCHANGED <<box, faults>>
      <3>1. box' = [box EXCEPT ![e] = box[e]]
        BY <1>t, <2>2
      <3>2. MakeBoxTo(e, d, n, box[e]) /\ box[e] \in [Boxes -> BoxType]
        BY <1>s, <1>t, <2>1, <2>2, <3>1 DEF MakeBoxTo
      <3> QED BY <3>2
    <2>3. CASE o = "leaked" /\ Fault /\ box' = [box EXCEPT ![e][b].up = "leaked"]
      <3>1. kind # "pool"
        BY <2>3, <1>o DEF AcquireOutcomes, ProcessAcquire
      <3>2. PICK z \in BoxType : z = box[e][b]
        BY <1>t
      <3>3. PICK y : y = [z EXCEPT !.up = "leaked"]
        OBVIOUS
      <3>4. y \in BoxType
        BY <3>2, <3>3 DEF BoxType
      <3>5. PICK x2 : x2 = [box[e] EXCEPT ![b] = y]
        OBVIOUS
      <3>6. box' = [box EXCEPT ![e] = x2]
        BY <1>t, <2>3, <3>2, <3>3, <3>5
      <3>7. OnlyBox(box[e], x2, b)
        BY <1>t, <3>4, <3>5 DEF OnlyBox
      <3>8. Sound(kind, at[e], x2, pool[e])
        BY <1>b, <1>s, <3>1, <3>7, LeakedSound
      <3>9. x2 \in [Boxes -> BoxType]
        BY <3>7 DEF OnlyBox
      <3> QED BY <2>1, <2>3, <3>1, <3>6, <3>8, <3>9 DEF MakeBoxTo
    <2> QED BY <1>o, <1>2, <2>2, <2>3
  <1> QED BY <1>o, <1>1, <1>2

LEMMA AcquireIInv ==
    ASSUME IInv, NEW e \in Engines, NEW d \in Dispatches, Acquire(e, d)
    PROVE  IInv'
  <1>t. at \in [Engines -> [Dispatches -> AttemptType]] /\ pool \in [Engines -> PoolType]
    BY SharedTypes
  <1>0. kind # "pool" /\ Stage(e, d) = "owned" /\ MakeBox(e, d)
        /\ UNCHANGED <<kind, image, msg, up, pump, pool>>
    BY DEF Acquire
  <1>m. PICK n \in AttemptType, x2 \in [Boxes -> BoxType] : MakeBoxTo(e, d, n, x2)
    BY <1>0, MakeBoxEnds
  <1>1. /\ at' = [at EXCEPT ![e] = [at[e] EXCEPT ![d] = n]]
        /\ box' = [box EXCEPT ![e] = x2]
        /\ \/ n.stage = "boxed" /\ Sound(kind, [at[e] EXCEPT ![d] = n], x2, pool[e])
           \/ /\ n.stage = "publishing" /\ n.box = 0 /\ n.killed = FALSE
              /\ Sound(kind, at[e], x2, pool[e])
        /\ Fault \/ UNCHANGED faults
    BY <1>m DEF MakeBoxTo
  <1>2. Moves(e, d)
    BY <1>0, <1>1 DEF Moves, Working
  <1>3. Rest
    BY <1>0, <1>1, SharedTypes, FaultLeft DEF IInv, Rest
  <1>4. pool' = [pool EXCEPT ![e] = pool[e]]
    BY <1>0, <1>t
  <1>5. Local(e)
    <2>1. CASE n.stage = "boxed" /\ Sound(kind, [at[e] EXCEPT ![d] = n], x2, pool[e])
      BY <2>1, <1>0, <1>1, <1>4 DEF Local
    <2>2. CASE n.stage = "publishing" /\ n.box = 0 /\ n.killed = FALSE
               /\ Sound(kind, at[e], x2, pool[e])
      <3>1. PICK a2 : a2 = [at[e] EXCEPT ![d] = n]
        OBVIOUS
      <3>2. OnlyAt(at[e], a2, d) /\ a2[d] = n
        BY <1>t, <3>1 DEF OnlyAt
      <3>3. a2 \in [Dispatches -> AttemptType]
        BY <3>2 DEF OnlyAt
      <3>4. \A c \in Dispatches :
              \/ /\ a2[c].stage = at[e][c].stage /\ a2[c].box = at[e][c].box
                 /\ a2[c].killed = at[e][c].killed /\ a2[c].left = at[e][c].left
              \/ /\ at[e][c].stage \in Apart /\ a2[c].stage \in Apart
                 /\ a2[c].box = 0 /\ ~a2[c].killed
        BY <1>0, <2>2, <3>2 DEF OnlyAt, Apart, Stage
      <3>5. Sound(kind, a2, x2, pool[e])
        BY <2>2, <3>3, <3>4, QuietSound
      <3> QED BY <1>0, <1>1, <1>4, <3>1, <3>5 DEF Local
    <2> QED BY <1>1, <2>1, <2>2
  <1> QED BY <1>2, <1>3, <1>5, MovesIInv

LEMMA PoolMadeIInv ==
    ASSUME IInv, NEW e \in Engines, NEW d \in Dispatches, PoolMade(e, d)
    PROVE  IInv'
  <1>t. /\ at \in [Engines -> [Dispatches -> AttemptType]] /\ pool \in [Engines -> PoolType]
        /\ box \in [Engines -> [Boxes -> BoxType]]
    BY SharedTypes
  <1>s. Sound(kind, at[e], box[e], pool[e])
    BY Unleased
  <1>0. /\ Stage(e, d) = "making" /\ UNCHANGED <<kind, image, msg, up, pump>>
        /\ pool' = IF at'[e][d].stage = "boxed" THEN pool ELSE [pool EXCEPT ![e].live = @ - 1]
    BY DEF PoolMade
  <1>k. kind = "pool"
    BY <1>0, <1>s DEF Sound, Leases, Stage
  <1>m. PICK n \in AttemptType, x2 \in [Boxes -> BoxType] : MakeBoxTo(e, d, n, x2)
    <2>1. CASE MakeBox(e, d)
      BY <1>0, <1>k, <2>1, MakeBoxEnds
    <2>2. CASE Fails(e, d) /\ UNCHANGED <<box, faults>>
      <3>1. PICK n \in AttemptType : /\ at' = [at EXCEPT ![e] = [at[e] EXCEPT ![d] = n]]
                                     /\ n.stage = "publishing" /\ n.box = 0 /\ n.killed = FALSE
        BY <1>0, <2>2, FailsMove
      <3>2. box' = [box EXCEPT ![e] = box[e]] /\ box[e] \in [Boxes -> BoxType]
        BY <1>t, <2>2
      <3>3. MakeBoxTo(e, d, n, box[e])
        BY <1>s, <2>2, <3>1, <3>2 DEF MakeBoxTo
      <3> QED BY <3>2, <3>3
    <2> QED BY <2>1, <2>2 DEF PoolMade
  <1>1. /\ at' = [at EXCEPT ![e] = [at[e] EXCEPT ![d] = n]]
        /\ box' = [box EXCEPT ![e] = x2]
        /\ \/ n.stage = "boxed" /\ Sound(kind, [at[e] EXCEPT ![d] = n], x2, pool[e])
           \/ n.stage = "publishing" /\ n.box = 0 /\ n.killed = FALSE /\ x2 = box[e]
        /\ Fault \/ UNCHANGED faults
    BY <1>m, <1>k DEF MakeBoxTo
  <1>2. Moves(e, d)
    BY <1>0, <1>1 DEF Moves, Working
  <1>3. Rest
    BY <1>0, <1>1, SharedTypes, FaultLeft DEF IInv, Rest
  <1>4. at'[e][d].stage = n.stage
    BY <1>1, <1>t
  <1>5. Local(e)
    <2>1. CASE n.stage = "boxed" /\ Sound(kind, [at[e] EXCEPT ![d] = n], x2, pool[e])
      <3>1. pool' = [pool EXCEPT ![e] = pool[e]]
        BY <1>0, <1>4, <1>t, <2>1
      <3> QED BY <2>1, <3>1, <1>0, <1>1 DEF Local
    <2>2. CASE n.stage = "publishing" /\ n.box = 0 /\ n.killed = FALSE /\ x2 = box[e]
      <3>1. PICK a2 : a2 = [at[e] EXCEPT ![d] = n]
        OBVIOUS
      <3>2. OnlyAt(at[e], a2, d) /\ a2[d] = n
        BY <1>t, <3>1 DEF OnlyAt
      <3>3. PICK p \in PoolType : p = pool[e]
        BY <1>t
      <3>4. PICK p2 : p2 = [p EXCEPT !.live = @ - 1]
        OBVIOUS
      <3>5. PoolIs(p2, p.live - 1, p.idle, p.closed)
        BY <3>3, <3>4 DEF PoolIs, PoolType
      <3>6. pool' = [pool EXCEPT ![e] = p2]
        BY <1>0, <1>4, <1>t, <2>2, <3>3, <3>4
      <3>7. Sound("pool", at[e], box[e], p)
        BY <1>s, <1>k, <3>3
      <3>8. at[e][d].stage = "making" /\ a2[d].stage = "publishing" /\ a2[d].box = 0
            /\ a2[d].killed = FALSE
        BY <1>0, <2>2, <3>2 DEF Stage
      <3>9. Sound("pool", a2, box[e], p2)
        BY <3>2, <3>5, <3>7, <3>8, UnmadeSound
      <3> QED BY <1>0, <1>1, <1>k, <2>2, <3>1, <3>6, <3>9 DEF Local
    <2> QED BY <1>1, <2>1, <2>2
  <1> QED BY <1>2, <1>3, <1>5, MovesIInv

LEMMA EmptyBoxType == NoBox \in BoxType
  BY DEF NoBox, BoxType

(* The oldest m of the idle sandboxes of engine e, in the terms of the      *)
(* actions.                                                                 *)
LEMMA ReapAt ==
    ASSUME IInv, NEW e \in Engines, kind = "pool", NEW p \in PoolType, p = pool[e],
           NEW m \in 0 .. Len(p.idle), NEW x2, NEW p2, NEW s, NEW closed \in BOOLEAN,
           x2 = [b \in Boxes |-> IF \E i \in 1 .. m : p.idle[i] = b THEN NoBox ELSE box[e][b]],
           s = SubSeq(p.idle, m + 1, Len(p.idle)), PoolIs(p2, p.live - m, s, closed)
    PROVE  Sound("pool", at[e], x2, p2)
  <1>t. box \in [Engines -> [Boxes -> BoxType]]
    BY SharedTypes
  <1>1. x2 \in [Boxes -> BoxType]
    BY <1>t, EmptyBoxType
  <1>2. \A b \in Boxes : x2[b] = IF \E i \in 1 .. m : p.idle[i] = b THEN NoBox ELSE box[e][b]
    OBVIOUS
  <1>3. p.idle \in Seq(Boxes) /\ Len(p.idle) \in Nat
    BY DEF PoolType
  <1>4. s \in Seq(Boxes) /\ Len(s) = Len(p.idle) - m /\ \A i \in 1 .. Len(s) : s[i] = p.idle[m + i]
    <2>1. PICK q \in Seq(Boxes) : q = p.idle
      BY <1>3
    <2>2. m \in Nat /\ m <= Len(q) /\ Len(q) \in Nat
      BY <2>1, <1>3
    <2>3. \A i \in m + 1 .. Len(q) : q[i] \in Boxes
      BY <2>1, <2>2
    <2>4. /\ SubSeq(q, m + 1, Len(q)) \in Seq(Boxes)
          /\ Len(SubSeq(q, m + 1, Len(q))) = Len(q) - m
          /\ \A i \in 1 .. Len(q) - m : SubSeq(q, m + 1, Len(q))[i] = q[m + i]
      BY <2>2, <2>3
    <2> QED BY <2>1, <2>4
  <1>5. Sound("pool", at[e], box[e], p)
    BY DEF IInv
  <1>6. Reaped(box[e], x2, p, m, s)
    BY <1>1, <1>2, <1>4 DEF Reaped
  <1> QED BY <1>5, <1>6, ReapSound

LEMMA PoolAcquireIInv ==
    ASSUME IInv, NEW e \in Engines, NEW d \in Dispatches, PoolAcquire(e, d)
    PROVE  IInv'
  <1>t. /\ at \in [Engines -> [Dispatches -> AttemptType]] /\ pool \in [Engines -> PoolType]
        /\ box \in [Engines -> [Boxes -> BoxType]]
    BY SharedTypes
  <1>0. kind = "pool" /\ Stage(e, d) = "owned" /\ UNCHANGED <<kind, image, msg, up, pump, faults>>
        /\ at[e][d].stage = "owned"
    BY DEF PoolAcquire, Stage
  <1>p. PICK p \in PoolType : p = pool[e]
    BY <1>t
  <1>s. Sound("pool", at[e], box[e], p)
    BY <1>0, <1>p DEF IInv
  <1>i. p.idle \in Seq(Boxes) /\ Len(p.idle) \in Nat /\ p.live \in 0 .. MaxLive
    BY DEF PoolType
  <1>r. PICK r \in AttemptType : r = at[e][d] /\ r.box = 0 /\ r.killed = FALSE
    <2>1. at[e][d].stage \notin Leased
      BY <1>0 DEF Leased
    <2> QED BY <1>0, <2>1, Unleased
  <1>k. Rest
    BY <1>0, SharedTypes, FaultLeft DEF IInv, Rest
  <1>1. CASE /\ Matching(p, box[e], d) # {}
             /\ at' = [at EXCEPT ![e][d].stage = "boxed", ![e][d].box = Claimed(p, box[e], d)]
             /\ pool' = [pool EXCEPT ![e] = AfterClaim(p, box[e], d)]
             /\ UNCHANGED box
    <2>1. PICK i \in 1 .. Len(p.idle) : /\ i = Max(Matching(p, box[e], d))
                                        /\ box[e][p.idle[i]].tenant = TenantOf[d]
      <3>1. DOMAIN p.idle = 1 .. Len(p.idle)
        BY <1>i
      <3>2. Matching(p, box[e], d) \subseteq 1 .. Len(p.idle)
        BY <3>1 DEF Matching
      <3>3. Max(Matching(p, box[e], d)) \in Matching(p, box[e], d)
        BY <1>1, <1>i, <3>2, MaxIsMember
      <3> QED BY <3>2, <3>3 DEF Matching, KeyFor
    <2>2. PICK b \in Boxes : b = p.idle[i] /\ b = Claimed(p, box[e], d)
      BY <1>i, <2>1 DEF Claimed
    <2>m. PICK n : n = [r EXCEPT !.stage = "boxed", !.box = b]
      OBVIOUS
    <2>3. n \in AttemptType /\ n.stage = "boxed" /\ n.box = b /\ n.killed = FALSE
      <3>1. b \in 0 .. MaxBoxes
        BY EngineAssumption DEF Boxes
      <3> QED BY <1>r, <2>m, <3>1 DEF AttemptType, Stages
    <2>5. PICK a2 : a2 = [at[e] EXCEPT ![d] = n]
      OBVIOUS
    <2>6. at' = [at EXCEPT ![e] = a2]
      BY <1>t, <1>1, <1>r, <2>m, <2>2, <2>5
    <2>7. OnlyAt(at[e], a2, d) /\ a2[d] = n
      BY <1>t, <2>3, <2>5 DEF OnlyAt
    <2>8. PICK p2 : p2 = AfterClaim(p, box[e], d)
      OBVIOUS
    <2>9. PoolIs(p2, p.live, RemoveAt(p.idle, i), p.closed)
      <3>1. PICK q : q = RemoveAt(p.idle, i)
        OBVIOUS
      <3>2. p2 = [p EXCEPT !.idle = q]
        BY <2>1, <2>8, <3>1 DEF AfterClaim
      <3>3. p2 = [live |-> p.live, idle |-> q, closed |-> p.closed]
        BY <3>2 DEF PoolType
      <3> QED BY <3>1, <3>3 DEF PoolIs
    <2>10. Sound("pool", a2, box[e], p2)
      <3>1. /\ a2[d].stage = "boxed" /\ a2[d].box = p.idle[i] /\ a2[d].killed = FALSE
        BY <2>2, <2>3, <2>7
      <3> QED BY <1>0, <1>s, <2>1, <2>7, <2>9, <3>1, ClaimSound
    <2>11. Local(e)
      <3>1. box' = [box EXCEPT ![e] = box[e]] /\ pool' = [pool EXCEPT ![e] = p2]
        BY <1>t, <1>1, <2>8
      <3> QED BY <1>0, <2>6, <2>10, <3>1 DEF Local
    <2>12. Moves(e, d)
      BY <1>0, <2>3, <2>5, <2>6 DEF Moves, Working
    <2> QED BY <1>k, <2>11, <2>12, MovesIInv
  <1>m. PICK n : n = [r EXCEPT !.stage = "making"]
    OBVIOUS
  <1>n. n \in AttemptType /\ n.stage = "making" /\ n.box = 0 /\ n.killed = FALSE
    <2>1. "making" \in Stages
      BY DEF Stages
    <2> QED BY <2>1, <1>m, <1>r, Restaged
  <1>a. PICK a2 : a2 = [at[e] EXCEPT ![d] = n]
    OBVIOUS
  <1>b. OnlyAt(at[e], a2, d) /\ a2[d].stage = "making" /\ a2[d].box = 0 /\ a2[d].killed = FALSE
    BY <1>t, <1>n, <1>a DEF OnlyAt
  <1>2. CASE /\ p.live < MaxLive
             /\ pool' = [pool EXCEPT ![e] = Reserve(p)]
             /\ at' = [at EXCEPT ![e][d].stage = "making"]
             /\ UNCHANGED box
    <2>6. at' = [at EXCEPT ![e] = a2]
      BY <1>t, <1>2, <1>r, <1>m, <1>a
    <2>8. PICK p2 : p2 = Reserve(p)
      OBVIOUS
    <2>9. PoolIs(p2, p.live + 1, p.idle, p.closed)
      BY <2>8 DEF PoolIs, PoolType, Reserve
    <2>10. Sound("pool", a2, box[e], p2)
      BY <1>0, <1>s, <1>b, <1>2, <2>9, ReserveSound
    <2>11. Local(e)
      <3>1. box' = [box EXCEPT ![e] = box[e]] /\ pool' = [pool EXCEPT ![e] = p2]
        BY <1>t, <1>2, <2>8
      <3> QED BY <1>0, <2>6, <2>10, <3>1 DEF Local
    <2>12. Moves(e, d)
      BY <1>0, <1>n, <1>a, <2>6 DEF Moves, Working
    <2> QED BY <1>k, <2>11, <2>12, MovesIInv
  <1>3. CASE /\ p.live >= MaxLive /\ p.idle # <<>>
             /\ pool' = [pool EXCEPT ![e] = Reserve(AfterEvict(p))]
             /\ box' = [box EXCEPT ![e][Head(p.idle)] = NoBox]
             /\ at' = [at EXCEPT ![e][d].stage = "making"]
    <2>1. 1 \in 0 .. Len(p.idle) /\ Head(p.idle) = p.idle[1] /\ p.idle[1] \in Boxes
          /\ Tail(p.idle) = SubSeq(p.idle, 1 + 1, Len(p.idle))
      <3>1. PICK q \in Seq(Boxes) : q = p.idle /\ q # <<>>
        BY <1>i, <1>3
      <3>2. Len(q) \in Nat /\ Len(q) >= 1 /\ Head(q) = q[1] /\ q[1] \in Boxes
        BY <3>1
      <3>3. Tail(q) = SubSeq(q, 2, Len(q))
        BY <3>1, <3>2, TailIsSubSeq
      <3> QED BY <3>1, <3>2, <3>3
    <2>2. PICK x2 : x2 = [b \in Boxes |->
                            IF \E i \in 1 .. 1 : p.idle[i] = b THEN NoBox ELSE box[e][b]]
      OBVIOUS
    <2>3. box' = [box EXCEPT ![e] = x2]
      <3>1. x2 = [box[e] EXCEPT ![p.idle[1]] = NoBox]
        BY <1>t, <2>1, <2>2
      <3> QED BY <1>3, <2>1, <3>1
    <2>4. PICK s : s = SubSeq(p.idle, 1 + 1, Len(p.idle))
      OBVIOUS
    <2>5. PICK p1 : p1 = AfterEvict(p)
      OBVIOUS
    <2>6. PoolIs(p1, p.live - 1, s, p.closed) /\ p.closed \in BOOLEAN
      <3>1. p1 = [p EXCEPT !.idle = s, !.live = @ - 1]
        BY <2>1, <2>4, <2>5 DEF AfterEvict
      <3> QED BY <3>1 DEF PoolIs, PoolType
    <2>7. Sound("pool", at[e], x2, p1)
      BY <1>0, <1>p, <2>1, <2>2, <2>4, <2>6, ReapAt
    <2>8. PICK p2 : p2 = Reserve(p1)
      OBVIOUS
    <2>9. p1.live < MaxLive /\ PoolIs(p2, p1.live + 1, p1.idle, p1.closed)
      <3>1. p1.live = p.live - 1 /\ MaxLive \in Nat
        BY <2>6, EngineAssumption DEF PoolIs
      <3>2. PoolIs(p2, p1.live + 1, p1.idle, p1.closed)
        BY <2>6, <2>8 DEF PoolIs, Reserve
      <3> QED BY <3>1, <3>2, <1>i
    <2>10. Sound("pool", a2, x2, p2)
      BY <1>0, <1>b, <2>7, <2>9, ReserveSound
    <2>11. at' = [at EXCEPT ![e] = a2]
      BY <1>t, <1>3, <1>r, <1>m, <1>a
    <2>12. Local(e)
      <3>1. pool' = [pool EXCEPT ![e] = p2]
        BY <1>3, <2>5, <2>8
      <3> QED BY <1>0, <2>3, <2>10, <2>11, <3>1 DEF Local
    <2>13. Moves(e, d)
      BY <1>0, <1>n, <1>a, <2>11 DEF Moves, Working
    <2> QED BY <1>k, <2>12, <2>13, MovesIInv
  <1>4. CASE Fails(e, d) /\ UNCHANGED <<box, pool>>
    <2>1. PICK v \in AttemptType : /\ at' = [at EXCEPT ![e] = [at[e] EXCEPT ![d] = v]]
                                   /\ v.stage = "publishing" /\ v.box = 0 /\ v.killed = FALSE
      BY <1>0, <1>4, FailsMove
    <2> QED BY <1>0, <1>4, <2>1, QuietIInv
  <1> QED BY <1>p, <1>1, <1>2, <1>3, <1>4 DEF PoolAcquire

(* What the pool tears down by itself.                                      *)
LEMMA PoolTrimIInv ==
    ASSUME IInv, NEW e \in Engines, NEW x2, NEW p2, Sound("pool", at[e], x2, p2), kind = "pool",
           box' = [box EXCEPT ![e] = x2], pool' = [pool EXCEPT ![e] = p2],
           UNCHANGED <<kind, image, msg, up, pump, at>>, Fault \/ UNCHANGED faults
    PROVE  IInv'
  <1>t. /\ msg \in [Dispatches -> {"queued", "acked"} \cup Engines]
        /\ up \in [Engines -> {"up", "stopping", "down"}]
        /\ pump \in [Engines -> [Queues -> PumpStates]]
        /\ at \in [Engines -> [Dispatches -> AttemptType]]
    BY SharedTypes
  <1>1. Local(e)
    <2>1. at' = [at EXCEPT ![e] = at[e]]
      BY <1>t
    <2> QED BY <2>1 DEF Local
  <1>2. \A f \in Engines, c \in Dispatches : Stage(f, c)' = Stage(f, c)
    BY DEF Stage
  <1>3. \A f \in Engines : Held(f)' = Held(f)
    BY <1>2 DEF Held
  <1>4. HolderInv'
    BY <1>2 DEF IInv, HolderInv
  <1>5. RoomIsOffered'
    BY <1>3 DEF IInv, RoomIsOffered
  <1>6. Rest
    BY SharedTypes, FaultLeft DEF IInv, Rest
  <1>7. /\ msg' \in [Dispatches -> {"queued", "acked"} \cup Engines]
        /\ up' \in [Engines -> {"up", "stopping", "down"}]
        /\ pump' \in [Engines -> [Queues -> PumpStates]]
    BY <1>t
  <1> QED BY <1>1, <1>4, <1>5, <1>6, <1>7, Assemble

LEMMA PoolReapIInv ==
    ASSUME IInv, NEW e \in Engines, NEW n \in 1 .. MaxLive, PoolReap(e, n)
    PROVE  IInv'
  <1>t. pool \in [Engines -> PoolType]
    BY SharedTypes
  <1>p. PICK p \in PoolType : p = pool[e]
    BY <1>t
  <1>i. p.idle \in Seq(Boxes) /\ Len(p.idle) \in Nat /\ p.closed \in BOOLEAN
    BY DEF PoolType
  <1>n. n \in 1 .. Len(p.idle) /\ n \in 0 .. Len(p.idle)
    BY <1>p, <1>i DEF PoolReap
  <1>k. kind = "pool"
    <2>1. Sound(kind, at[e], box[e], p)
      BY <1>p DEF IInv
    <2>2. EmptyPool.idle = <<>>
      BY DEF EmptyPool
    <2> QED BY <1>n, <1>i, <2>1, <2>2 DEF Sound, Idles
  <1>1. PICK x2 : x2 = [b \in Boxes |-> IF \E i \in 1 .. n : p.idle[i] = b THEN NoBox ELSE box[e][b]]
    OBVIOUS
  <1>2. PICK s : s = SubSeq(p.idle, n + 1, Len(p.idle))
    OBVIOUS
  <1>3. PICK p2 : p2 = AfterReap(p, n)
    OBVIOUS
  <1>4. PoolIs(p2, p.live - n, s, p.closed)
    <2>1. p2 = [p EXCEPT !.idle = s, !.live = @ - n]
      BY <1>2, <1>3 DEF AfterReap
    <2> QED BY <2>1 DEF PoolIs, PoolType
  <1>5. Sound("pool", at[e], x2, p2)
    BY <1>k, <1>p, <1>i, <1>n, <1>1, <1>2, <1>4, ReapAt
  <1>6. box' = [box EXCEPT ![e] = x2] /\ pool' = [pool EXCEPT ![e] = p2]
        /\ UNCHANGED <<kind, image, msg, up, pump, at, faults>>
    BY <1>p, <1>1, <1>3 DEF PoolReap
  <1> QED BY <1>k, <1>5, <1>6, PoolTrimIInv

LEMMA PoolCloseIInv ==
    ASSUME IInv, NEW e \in Engines, PoolClose(e)
    PROVE  IInv'
  <1>t. pool \in [Engines -> PoolType]
    BY SharedTypes
  <1>p. PICK p \in PoolType : p = pool[e]
    BY <1>t
  <1>i. p.idle \in Seq(Boxes) /\ Len(p.idle) \in Nat
    BY DEF PoolType
  <1>k. kind = "pool"
    BY DEF PoolClose
  <1>m. PICK m \in 0 .. Len(p.idle) : m = Len(p.idle)
    BY <1>i
  <1>1. PICK x2 : x2 = [b \in Boxes |-> IF \E i \in 1 .. m : p.idle[i] = b THEN NoBox ELSE box[e][b]]
    OBVIOUS
  <1>2. PICK s : s = SubSeq(p.idle, m + 1, Len(p.idle))
    OBVIOUS
  <1>3. PICK p2 : p2 = AfterClose(p)
    OBVIOUS
  <1>4. PoolIs(p2, p.live - m, s, TRUE)
    <2>1. p2 = [[p EXCEPT !.idle = s, !.live = @ - m] EXCEPT !.closed = TRUE]
      BY <1>m, <1>2, <1>3 DEF AfterClose, AfterReap
    <2> QED BY <2>1 DEF PoolIs, PoolType
  <1>5. Sound("pool", at[e], x2, p2)
    BY <1>k, <1>p, <1>i, <1>1, <1>2, <1>4, ReapAt
  <1>6. \A b : b \in ToSet(p.idle) <=> \E i \in 1 .. m : p.idle[i] = b
    <2>1. DOMAIN p.idle = 1 .. m
      BY <1>i, <1>m
    <2> QED BY <2>1 DEF ToSet
  <1>7. x2 = [b \in Boxes |-> IF b \in ToSet(p.idle) THEN NoBox ELSE box[e][b]]
    BY <1>1, <1>6
  <1>8. box' = [box EXCEPT ![e] = x2] /\ pool' = [pool EXCEPT ![e] = p2] /\ Fault
        /\ UNCHANGED <<kind, image, msg, up, pump, at>>
    BY <1>p, <1>3, <1>7 DEF PoolClose
  <1> QED BY <1>k, <1>5, <1>8, PoolTrimIInv

--------------------------------------------------------------------------------
(* Inputs are put, commands run.                                            *)

LEMMA PutOnceWhole ==
    ASSUME NEW drop \in 0 .. Chunks, PutOnce(0, drop).ok
    PROVE  PutOnce(0, drop).file = Source
  <1>1. Chunks \in Nat /\ Chunks # 0
    BY EngineAssumption
  <1>2. PICK upto : upto = IF drop > 0 THEN drop - 1 ELSE Chunks
    OBVIOUS
  <1>3. /\ PutOnce(0, drop).ok = (upto = Chunks)
        /\ PutOnce(0, drop).file = SubSeq(Source, 0 + 1, upto)
    BY <1>2 DEF PutOnce
  <1>4. upto = Chunks
    BY <1>3
  <1>5. Source \in Seq(Nat) /\ Len(Source) = Chunks
    BY <1>1 DEF Source
  <1>6. SubSeq(Source, 1, Len(Source)) = Source
    BY <1>5, SubSeqFull
  <1> QED BY <1>3, <1>4, <1>5, <1>6

(* However often the exec stream dropped a chunk, and whichever try it was, *)
(* a Put that says so delivered all of its source.                          *)
LEMMA PutWhole ==
    ASSUME NEW k \in Kinds, NEW put \in PutOutcomes(k), put.ok
    PROVE  put.file = Source
  <1>1. CASE k # "kubernetes"
    <2>1. put \in {Delivered, NotDelivered}
      BY <1>1 DEF PutOutcomes, Kinds, ProcessPut, ContainerdPut, VMPut
    <2> QED BY <2>1 DEF Delivered, NotDelivered
  <1>2. CASE k = "kubernetes"
    <2>1. put \in KubernetesPut
      BY <1>2 DEF PutOutcomes
    <2>2. PICK drop \in 0 .. Chunks :
             put = [file |-> PutOnce(0, drop).file, ok |-> PutOnce(0, drop).ok]
      <3> DEFINE Tries(drops) ==
                   LET first == PutOnce(0, drops[1])
                       second == PutOnce(Rewind(0, first), drops[2])
                       third == PutOnce(Rewind(0, second), drops[3])
                   IN  CASE first.ok -> first [] second.ok -> second [] OTHER -> third
                 results == {Tries(drops) : drops \in [1 .. 3 -> 0 .. Chunks]}
                              \cup {PutOnce(0, drop) : drop \in 0 .. Chunks}
      <3>1. PICK r \in results : put = [file |-> r.file, ok |-> r.ok]
        BY <2>1 DEF KubernetesPut
      <3>2. ASSUME NEW drops \in [1 .. 3 -> 0 .. Chunks]
            PROVE  \E drop \in 0 .. Chunks : Tries(drops) = PutOnce(0, drop)
        <4>1. drops[1] \in 0 .. Chunks /\ drops[2] \in 0 .. Chunks /\ drops[3] \in 0 .. Chunks
          OBVIOUS
        <4>2. Tries(drops) \in {PutOnce(0, drops[1]), PutOnce(0, drops[2]), PutOnce(0, drops[3])}
          BY DEF Rewind
        <4> HIDE DEF Tries
        <4> QED BY <4>1, <4>2
      <3>3. \E drop \in 0 .. Chunks : r = PutOnce(0, drop)
        <4> HIDE DEF Tries
        <4> QED BY <3>2
      <3> HIDE DEF results
      <3> QED BY <3>1, <3>3
    <2>3. PutOnce(0, drop).ok
      BY <2>2
    <2>4. PutOnce(0, drop).file = Source
      BY <2>3, PutOnceWhole
    <2> QED BY <2>2, <2>4
  <1> QED BY <1>1, <1>2

(* An attempt that has a sandbox, and the sandbox.                          *)
LEMMA HasBox ==
    ASSUME IInv, NEW e \in Engines, NEW d \in Dispatches, Stage(e, d) \in Leased
    PROVE  /\ at[e][d].box \in Boxes /\ box[e][at[e][d].box] \in BoxType
           /\ box[e][at[e][d].box].up = "yes"
  <1>1. Sound(kind, at[e], box[e], pool[e])
    BY DEF IInv
  <1>2. at[e][d].box \in Boxes /\ box[e][at[e][d].box].up = "yes"
    BY <1>1 DEF Sound, Leases, Stage
  <1>3. box \in [Engines -> [Boxes -> BoxType]]
    BY SharedTypes
  <1> QED BY <1>2, <1>3

LEMMA UseIInv ==
    ASSUME IInv, NEW e \in Engines, NEW d \in Dispatches, NEW n \in AttemptType,
           NEW b \in Boxes, NEW y \in BoxType, b = at[e][d].box,
           at' = [at EXCEPT ![e] = [at[e] EXCEPT ![d] = n]],
           box' = [box EXCEPT ![e] = [box[e] EXCEPT ![b] = y]],
           UNCHANGED <<kind, image, msg, up, pump, pool>>, Fault \/ UNCHANGED faults,
           \/ Stage(e, d) = "boxed" /\ n.stage = "running" /\ y.input = Source
           \/ Stage(e, d) = "running" /\ n.stage = "exited",
           n.box = b, y.up = box[e][b].up, y.tenant = box[e][b].tenant, EndsClean(kind, d, n, y)
    PROVE  IInv'
  <1>t. /\ at \in [Engines -> [Dispatches -> AttemptType]] /\ pool \in [Engines -> PoolType]
        /\ box \in [Engines -> [Boxes -> BoxType]]
    BY SharedTypes
  <1>1. PICK a2 : a2 = [at[e] EXCEPT ![d] = n]
    OBVIOUS
  <1>2. PICK x2 : x2 = [box[e] EXCEPT ![b] = y]
    OBVIOUS
  <1>3. OnlyAt(at[e], a2, d) /\ a2[d] = n
    BY <1>t, <1>1 DEF OnlyAt
  <1>4. OnlyBox(box[e], x2, b) /\ x2[b] = y
    BY <1>t, <1>2 DEF OnlyBox
  <1>5. Sound(kind, at[e], box[e], pool[e])
    BY DEF IInv
  <1>6. /\ at[e][d].stage \in Leased /\ at[e][d].box = b /\ a2[d].stage \in Leased /\ a2[d].box = b
        /\ x2[b].up = box[e][b].up /\ x2[b].tenant = box[e][b].tenant
        /\ a2[d].stage = "running" => x2[b].input = Source
        /\ EndsClean(kind, d, a2[d], x2[b])
    BY <1>3, <1>4 DEF Stage, Leased
  <1>7. Sound(kind, a2, x2, pool[e])
    BY <1>3, <1>4, <1>5, <1>6, UseSound
  <1>8. pool' = [pool EXCEPT ![e] = pool[e]]
    BY <1>t
  <1>9. Local(e)
    BY <1>1, <1>2, <1>7, <1>8 DEF Local
  <1>10. Moves(e, d)
    BY DEF Moves, Working
  <1>11. Rest
    BY SharedTypes, FaultLeft DEF IInv, Rest
  <1> QED BY <1>9, <1>10, <1>11, MovesIInv

LEMMA WithTreeType ==
    ASSUME NEW e \in Engines, NEW d \in Dispatches, NEW z \in BoxType,
           z = box[e][at[e][d].box], NEW tree \in SUBSET Roles
    PROVE  /\ WithTree(e, d, tree) \in SUBSET (Dispatches \X Roles)
           /\ \A r \in Roles : <<d, r>> \in WithTree(e, d, tree) => r \in tree
  <1>1. z.procs \in SUBSET (Dispatches \X Roles)
    BY DEF BoxType
  <1> QED BY <1>1 DEF WithTree

LEMMA ExitIInv ==
    ASSUME IInv, NEW e \in Engines, NEW d \in Dispatches,
           Exit(e, d) \/ Terminate(e, d) \/ Vanish(e, d)
    PROVE  IInv'
  <1>0. Stage(e, d) = "running" /\ UNCHANGED <<kind, image, msg, up, pump, pool>>
        /\ at[e][d].stage = "running"
    BY DEF Exit, Terminate, Vanish, Stage
  <1>t. at \in [Engines -> [Dispatches -> AttemptType]] /\ kind \in Kinds
        /\ box \in [Engines -> [Boxes -> BoxType]]
    BY SharedTypes DEF IInv, TypeOK
  <1>r. PICK r \in AttemptType : r = at[e][d] /\ r.killed = FALSE
    BY <1>0, Unleased
  <1>b. PICK b \in Boxes : b = at[e][d].box
    BY <1>0, HasBox DEF Leased
  <1>z. PICK z \in BoxType : z = box[e][b]
    BY <1>t
  <1>1. CASE Exit(e, d)
    <2>1. PICK code \in {"ok", "bad"} :
             at' = [at EXCEPT ![e][d].stage = "exited", ![e][d].exit = code]
      BY <1>1 DEF Exit
    <2>2. PICK n : n = [r EXCEPT !.stage = "exited", !.exit = code]
      OBVIOUS
    <2>3. n \in AttemptType /\ n.stage = "exited" /\ n.box = r.box /\ n.killed = FALSE
      BY <1>r, <2>2 DEF AttemptType, Stages
    <2>4. PICK T \in SUBSET (Dispatches \X Roles) : T = WithTree(e, d, Tree(e, d) \ {"leader"})
      <3>1. Tree(e, d) \ {"leader"} \in SUBSET Roles
        BY DEF Tree
      <3> QED BY <1>b, <1>z, <3>1, WithTreeType
    <2>5. PICK y : y = [z EXCEPT !.procs = T]
      OBVIOUS
    <2>6. y \in BoxType /\ y.up = z.up /\ y.tenant = z.tenant
      BY <1>z, <2>4, <2>5 DEF BoxType
    <2>7. at' = [at EXCEPT ![e] = [at[e] EXCEPT ![d] = n]]
      BY <1>t, <1>r, <2>1, <2>2
    <2>8. box' = [box EXCEPT ![e] = [box[e] EXCEPT ![b] = y]]
      BY <1>1, <1>b, <1>z, <2>4, <2>5 DEF Exit
    <2>9. EndsClean(kind, d, n, y)
      BY <2>3 DEF EndsClean
    <2>10. UNCHANGED faults
      BY <1>1 DEF Exit
    <2> QED BY <1>0, <1>b, <1>r, <1>z, <2>3, <2>6, <2>7, <2>8, <2>9, <2>10, UseIInv
  <1>2. CASE Terminate(e, d)
    <2>1. PICK tree \in Terminated(kind, Tree(e, d)), code \in EndedExit(kind) :
          /\ at' = [at EXCEPT ![e][d].stage = "exited", ![e][d].killed = TRUE,
                              ![e][d].exit = IF code = "ok" THEN "ok" ELSE "bad"]
          /\ box' = [box EXCEPT ![e][at[e][d].box].procs = WithTree(e, d, tree),
                                ![e][at[e][d].box].broken = Breaks(@, code = "error")]
      BY <1>2 DEF Terminate
    <2>2. PICK exit \in {"ok", "bad"} : exit = IF code = "ok" THEN "ok" ELSE "bad"
      OBVIOUS
    <2>3. PICK n : n = [r EXCEPT !.stage = "exited", !.killed = TRUE, !.exit = exit]
      OBVIOUS
    <2>4. n \in AttemptType /\ n.stage = "exited" /\ n.box = r.box
      BY <1>r, <2>2, <2>3 DEF AttemptType, Stages
    <2>5. tree \in SUBSET Roles /\ (kind \in {"process", "pool"} => tree \subseteq {"daemon"})
      <3>1. Tree(e, d) \in SUBSET Roles
        BY DEF Tree
      <3>2. tree \subseteq Tree(e, d)
        BY <1>t, <2>1 DEF Terminated, Kinds, ProcessTerminate, ContainerdTerminate,
           KubernetesTerminate, GuestTerminate
      <3>3. kind \in {"process", "pool"} => tree = Tree(e, d) \ Group
        BY <2>1 DEF Terminated, ProcessTerminate
      <3> QED BY <3>1, <3>2, <3>3 DEF Roles, Group
    <2>6. PICK T \in SUBSET (Dispatches \X Roles) :
             T = WithTree(e, d, tree) /\ \A role \in Roles : <<d, role>> \in T => role \in tree
      BY <1>b, <1>z, <2>5, WithTreeType
    <2>7. PICK broken \in BOOLEAN : broken = Breaks(z.broken, code = "error")
      BY DEF Breaks
    <2>8. PICK y : y = [z EXCEPT !.procs = T, !.broken = broken]
      OBVIOUS
    <2>9. y \in BoxType /\ y.up = z.up /\ y.tenant = z.tenant /\ y.procs = T
      BY <1>z, <2>6, <2>7, <2>8 DEF BoxType
    <2>10. at' = [at EXCEPT ![e] = [at[e] EXCEPT ![d] = n]]
      BY <1>t, <1>r, <2>1, <2>2, <2>3
    <2>11. box' = [box EXCEPT ![e] = [box[e] EXCEPT ![b] = y]]
      BY <1>t, <1>b, <1>z, <2>1, <2>6, <2>7, <2>8
    <2>12. EndsClean(kind, d, n, y)
      BY <2>4, <2>5, <2>6, <2>9 DEF EndsClean
    <2>13. UNCHANGED faults
      BY <1>2 DEF Terminate
    <2> QED BY <1>0, <1>b, <1>r, <1>z, <2>4, <2>9, <2>10, <2>11, <2>12, <2>13, UseIInv
  <1>3. CASE Vanish(e, d)
    <2>2. PICK n : n = [r EXCEPT !.stage = "exited", !.exit = "bad"]
      OBVIOUS
    <2>3. n \in AttemptType /\ n.stage = "exited" /\ n.box = r.box /\ n.killed = FALSE
      BY <1>r, <2>2 DEF AttemptType, Stages
    <2>5. PICK y : y = [z EXCEPT !.procs = {}]
      OBVIOUS
    <2>6. y \in BoxType /\ y.up = z.up /\ y.tenant = z.tenant
      BY <1>z, <2>5 DEF BoxType
    <2>7. at' = [at EXCEPT ![e] = [at[e] EXCEPT ![d] = n]]
      BY <1>3, <1>t, <1>r, <2>2 DEF Vanish
    <2>8. box' = [box EXCEPT ![e] = [box[e] EXCEPT ![b] = y]]
      BY <1>3, <1>b, <1>z, <2>5 DEF Vanish
    <2>9. EndsClean(kind, d, n, y)
      BY <2>3 DEF EndsClean
    <2>10. Fault
      BY <1>3 DEF Vanish
    <2> QED BY <1>0, <1>b, <1>r, <1>z, <2>3, <2>6, <2>7, <2>8, <2>9, <2>10, UseIInv
  <1> QED BY <1>1, <1>2, <1>3

--------------------------------------------------------------------------------
(* Sandboxes are given back.                                                *)

LEMMA GivesBackIInv ==
    ASSUME IInv, NEW e \in Engines, NEW d \in Dispatches, NEW n \in AttemptType,
           NEW b \in Boxes, NEW y \in BoxType, NEW p2, b = at[e][d].box,
           at' = [at EXCEPT ![e] = [at[e] EXCEPT ![d] = n]],
           box' = [box EXCEPT ![e] = [box[e] EXCEPT ![b] = y]],
           pool' = [pool EXCEPT ![e] = p2],
           UNCHANGED <<kind, image, msg, up, pump>>, Fault \/ UNCHANGED faults,
           Stage(e, d) \in Leased, n.stage = "publishing", n.box = 0, LeavesClean(kind, n),
           Dropped(kind, y, pool[e], p2) \/ Kept(kind, y, pool[e], p2, b)
    PROVE  IInv'
  <1>t. /\ at \in [Engines -> [Dispatches -> AttemptType]] /\ pool \in [Engines -> PoolType]
        /\ box \in [Engines -> [Boxes -> BoxType]]
    BY SharedTypes
  <1>1. PICK a2 : a2 = [at[e] EXCEPT ![d] = n]
    OBVIOUS
  <1>2. PICK x2 : x2 = [box[e] EXCEPT ![b] = y]
    OBVIOUS
  <1>3. OnlyAt(at[e], a2, d) /\ a2[d] = n
    BY <1>t, <1>1 DEF OnlyAt
  <1>4. OnlyBox(box[e], x2, b) /\ x2[b] = y
    BY <1>t, <1>2 DEF OnlyBox
  <1>5. Sound(kind, at[e], box[e], pool[e])
    BY DEF IInv
  <1>6. GivesBack(kind, at[e], a2, box[e], x2, d, b)
    BY <1>3, <1>4 DEF GivesBack, Stage
  <1>7. Sound(kind, a2, x2, p2)
    <2>1. CASE Dropped(kind, y, pool[e], p2)
      <3>1. /\ x2[b].up # "yes"
            /\ PoolIs(p2, IF kind = "pool" THEN pool[e].live - 1 ELSE pool[e].live,
                      pool[e].idle, pool[e].closed)
        BY <2>1, <1>4 DEF Dropped
      <3> QED BY <1>5, <1>6, <3>1, TornDownSound
    <2>2. CASE Kept(kind, y, pool[e], p2, b)
      <3>1. kind = "pool" /\ Kept("pool", x2[b], pool[e], p2, b)
        BY <2>2, <1>4 DEF Kept
      <3>2. Sound("pool", at[e], box[e], pool[e]) /\ GivesBack("pool", at[e], a2, box[e], x2, d, b)
        BY <1>5, <1>6, <3>1
      <3>3. Sound("pool", a2, x2, p2)
        BY <3>1, <3>2, WarmSound
      <3> QED BY <3>1, <3>3
    <2> QED BY <2>1, <2>2
  <1>8. Local(e)
    BY <1>1, <1>2, <1>7 DEF Local
  <1>9. Moves(e, d)
    <2>1. Stage(e, d) # "none"
      BY DEF Leased
    <2> QED BY <2>1 DEF Moves, Working
  <1>10. Rest
    BY SharedTypes, FaultLeft DEF IInv, Rest
  <1> QED BY <1>8, <1>9, <1>10, MovesIInv

(* What an ended attempt leaves behind: its verdict, and what lived on of a *)
(* tree that was ended.                                                     *)
Behind(killed, status, left) ==
    [NoAttempt EXCEPT !.stage = "publishing", !.status = status, !.killed = killed,
                      !.left = IF killed THEN left ELSE {}]

LEMMA BehindType ==
    ASSUME NEW killed \in BOOLEAN, NEW left \in SUBSET Roles,
           NEW status \in {"none", "succeeded", "failed", "timedout", "cancelled"}
    PROVE  /\ Behind(killed, status, left) \in AttemptType
           /\ Behind(killed, status, left).stage = "publishing"
           /\ Behind(killed, status, left).box = 0
           /\ Behind(killed, status, left).killed = killed
           /\ killed => Behind(killed, status, left).left = left
  <1>1. MaxBoxes \in Nat
    BY EngineAssumption
  <1>2. PICK l \in SUBSET Roles : l = (IF killed THEN left ELSE {}) /\ (killed => l = left)
    <2>1. CASE killed
      BY <2>1
    <2>2. CASE ~killed
      <3>1. {} \in SUBSET Roles /\ {} = IF killed THEN left ELSE {}
        BY <2>2
      <3> QED BY <2>2, <3>1
    <2> QED BY <2>1, <2>2
  <1>3. PICK n : n = [NoAttempt EXCEPT !.stage = "publishing", !.status = status,
                                       !.killed = killed, !.left = l]
    OBVIOUS
  <1>4. Behind(killed, status, left) = n
    BY <1>2, <1>3 DEF Behind
  <1>5. n = [stage |-> "publishing", box |-> 0, cancelled |-> FALSE, late |-> FALSE,
             killed |-> killed, exit |-> "none", status |-> status, left |-> l]
    BY <1>3 DEF NoAttempt
  <1>6. /\ n.stage = "publishing" /\ n.box = 0 /\ n.killed = killed /\ n.left = l
    BY <1>5
  <1>7. n \in AttemptType
    BY <1>1, <1>5 DEF AttemptType, Stages
  <1> QED BY <1>2, <1>4, <1>6, <1>7

(* Of a tree that was ended, what a sandbox still has of it when it is      *)
(* given back, and what outlives the sandbox.                               *)
LEMMA LeftOfTree ==
    ASSUME IInv, NEW e \in Engines, NEW d \in Dispatches, Stage(e, d) \in {"boxed", "exited"},
           NEW b, b = at[e][d].box, NEW warm \in BOOLEAN, warm => kind = "pool"
    PROVE  LET left == {r \in Roles : <<d, r>> \in
                          IF warm THEN box[e][b].procs ELSE Outliving(kind, box[e][b].procs)}
           IN  left \in SUBSET Roles /\ (at[e][d].killed => left \subseteq Spared(kind))
  <1>1. Sound(kind, at[e], box[e], pool[e])
    BY DEF IInv
  <1>k. kind \in Kinds
    BY DEF IInv, TypeOK
  <1>2. ASSUME at[e][d].killed, kind \in {"process", "pool"}
        PROVE  \A r \in Roles : <<d, r>> \in box[e][b].procs => r = "daemon"
    BY <1>1, <1>2 DEF Sound, Trees, Stage
  <1>3. CASE kind \in {"process", "pool"}
    <2>1. Outliving(kind, box[e][b].procs) = box[e][b].procs
      BY <1>3 DEF Outliving, ProcessRelease
    <2>2. Spared(kind) = {"daemon"}
      BY <1>3 DEF Spared
    <2> QED BY <1>2, <1>3, <2>1, <2>2
  <1>4. CASE kind \notin {"process", "pool"}
    <2>1. Outliving(kind, box[e][b].procs) = {}
      BY <1>4, <1>k DEF Kinds, Outliving, ContainerdRelease, KubernetesRelease, VMRelease
    <2>2. ~warm
      BY <1>4
    <2> QED BY <2>1, <2>2
  <1> QED BY <1>3, <1>4

(* A pool keeps what is not broken, and a lease that is not said to be      *)
(* broken has a sandbox that is not.                                        *)
HonestLease(e, d, broken) ==
    kind = "pool" /\ ~broken => box[e][at[e][d].box].broken = FALSE

LEMMA LeavesIInv ==
    ASSUME IInv, NEW e \in Engines, NEW d \in Dispatches, NEW broken \in BOOLEAN,
           NEW v \in {"failed", "succeeded", "timedout"},
           Stage(e, d) \in {"boxed", "exited"}, Leaves(e, d, v, broken),
           HonestLease(e, d, broken), UNCHANGED <<kind, image, msg, up, pump>>
    PROVE  IInv'
  <1>t. /\ at \in [Engines -> [Dispatches -> AttemptType]] /\ pool \in [Engines -> PoolType]
        /\ box \in [Engines -> [Boxes -> BoxType]] /\ kind \in Kinds
    BY SharedTypes DEF IInv, TypeOK
  <1>l. Stage(e, d) \in Leased
    BY DEF Leased
  <1>b. PICK b \in Boxes : b = at[e][d].box
    BY <1>l, HasBox
  <1>z. PICK z \in BoxType : z = box[e][b] /\ z.up = "yes"
    BY <1>b, <1>l, HasBox
  <1>p. PICK p \in PoolType : p = pool[e]
    BY <1>t
  <1>c. PICK killed \in BOOLEAN : killed = at[e][d].killed
    BY <1>t DEF AttemptType
  <1>s. PICK status \in {"none", "succeeded", "failed", "timedout", "cancelled"} :
           status = IF at[e][d].cancelled /\ up[e] = "up" THEN "cancelled" ELSE v
    <2>1. CASE at[e][d].cancelled /\ up[e] = "up"
      BY <2>1
    <2>2. CASE ~(at[e][d].cancelled /\ up[e] = "up")
      BY <2>2
    <2> QED BY <2>1, <2>2
  <1> DEFINE warm == kind = "pool" /\ ~TornDown(pool[e], broken)
             left == {r \in Roles : <<d, r>> \in
                        IF warm THEN box[e][b].procs ELSE Outliving(kind, box[e][b].procs)}
  <1>f. left \in SUBSET Roles /\ (killed => left \subseteq Spared(kind))
    <2> HIDE DEF warm
    <2>1. warm \in BOOLEAN /\ (warm => kind = "pool")
      BY DEF warm
    <2> QED BY <1>b, <1>c, <2>1, LeftOfTree
  <1>1. /\ \/ /\ at' = [at EXCEPT ![e][d] = Behind(killed, status, left)]
              /\ box' = [box EXCEPT ![e][b] =
                           IF warm THEN [@ EXCEPT !.input = <<>>, !.procs = {}] ELSE NoBox]
              /\ UNCHANGED faults
           \/ /\ CanLeak(kind) /\ Fault
              /\ at' = [at EXCEPT ![e][d] = Behind(killed, status, {})]
              /\ box' = [box EXCEPT ![e][b].up = "leaked"]
        /\ pool' = IF kind = "pool" THEN [pool EXCEPT ![e] = AfterPut(p, b, broken)] ELSE pool
    BY <1>b, <1>c, <1>p, <1>s DEF Leaves, Behind
  <1> HIDE DEF warm, left
  <1>2. PICK p2 : /\ pool' = [pool EXCEPT ![e] = p2]
                  /\ p2 = IF kind = "pool" THEN AfterPut(p, b, broken) ELSE p
    <2>1. CASE kind = "pool"
      BY <1>1, <2>1
    <2>2. CASE kind # "pool"
      BY <1>1, <1>t, <1>p, <2>2
    <2> QED BY <2>1, <2>2
  <1>3. /\ ~warm => PoolIs(p2, IF kind = "pool" THEN p.live - 1 ELSE p.live, p.idle, p.closed)
        /\ warm => PoolIs(p2, p.live, Append(p.idle, b), p.closed)
    <2>1. CASE kind = "pool" /\ TornDown(p, broken)
      BY <1>2, <1>p, <2>1 DEF AfterPut, PoolIs, PoolType, warm
    <2>2. CASE kind = "pool" /\ ~TornDown(p, broken)
      BY <1>2, <1>p, <2>2 DEF AfterPut, PoolIs, PoolType, warm
    <2>3. CASE kind # "pool"
      BY <1>2, <1>p, <2>3 DEF PoolIs, PoolType, warm
    <2> QED BY <2>1, <2>2, <2>3
  <1>4. ASSUME NEW l \in SUBSET Roles, killed => l \subseteq Spared(kind),
               NEW y \in BoxType, Dropped(kind, y, p, p2) \/ Kept(kind, y, p, p2, b),
               at' = [at EXCEPT ![e][d] = Behind(killed, status, l)],
               box' = [box EXCEPT ![e][b] = y], Fault \/ UNCHANGED faults
        PROVE  IInv'
    <2>1. PICK n \in AttemptType : /\ n = Behind(killed, status, l)
                                   /\ n.stage = "publishing" /\ n.box = 0
                                   /\ n.killed = killed /\ (killed => n.left = l)
      BY BehindType
    <2>2. LeavesClean(kind, n)
      BY <1>4, <2>1 DEF LeavesClean
    <2>3. at' = [at EXCEPT ![e] = [at[e] EXCEPT ![d] = n]]
      BY <1>4, <2>1
    <2>4. box' = [box EXCEPT ![e] = [box[e] EXCEPT ![b] = y]]
      BY <1>4
    <2>5. Dropped(kind, y, pool[e], p2) \/ Kept(kind, y, pool[e], p2, b)
      BY <1>4, <1>p
    <2> QED BY <1>b, <1>l, <1>2, <1>4, <2>1, <2>2, <2>3, <2>4, <2>5, GivesBackIInv
  <1>5. CASE /\ at' = [at EXCEPT ![e][d] = Behind(killed, status, left)]
             /\ box' = [box EXCEPT ![e][b] =
                          IF warm THEN [@ EXCEPT !.input = <<>>, !.procs = {}] ELSE NoBox]
             /\ UNCHANGED faults
    <2>1. CASE warm
      <3>1. PICK y : y = [z EXCEPT !.input = <<>>, !.procs = {}]
        OBVIOUS
      <3>2. y \in BoxType /\ y.up = "yes" /\ y.broken = z.broken
        BY <1>z, <3>1 DEF BoxType
      <3>3. box' = [box EXCEPT ![e][b] = y]
        BY <1>5, <1>t, <1>z, <2>1, <3>1
      <3>4. z.broken = FALSE /\ kind = "pool"
        BY <1>b, <1>z, <2>1 DEF HonestLease, warm, TornDown
      <3>5. Kept(kind, y, p, p2, b)
        BY <1>3, <2>1, <3>2, <3>4 DEF Kept
      <3> QED BY <1>f, <1>4, <1>5, <3>2, <3>3, <3>5
    <2>2. CASE ~warm
      <3>1. box' = [box EXCEPT ![e][b] = NoBox]
        BY <1>5, <2>2
      <3>2. Dropped(kind, NoBox, p, p2)
        BY <1>3, <2>2 DEF Dropped, NoBox
      <3> QED BY <1>f, <1>4, <1>5, <3>1, <3>2, EmptyBoxType
    <2> QED BY <2>1, <2>2
  <1>6. CASE /\ CanLeak(kind) /\ Fault
             /\ at' = [at EXCEPT ![e][d] = Behind(killed, status, {})]
             /\ box' = [box EXCEPT ![e][b].up = "leaked"]
    <2>1. PICK y : y = [z EXCEPT !.up = "leaked"]
      OBVIOUS
    <2>2. y \in BoxType /\ y.up = "leaked"
      BY <1>z, <2>1 DEF BoxType
    <2>3. box' = [box EXCEPT ![e][b] = y]
      BY <1>6, <1>t, <1>z, <2>1
    <2>4. ~warm
      BY <1>6 DEF CanLeak, warm
    <2>5. Dropped(kind, y, p, p2)
      BY <1>3, <2>2, <2>4 DEF Dropped
    <2>6. {} \in SUBSET Roles /\ {} \subseteq Spared(kind)
      OBVIOUS
    <2> QED BY <1>4, <1>6, <2>2, <2>3, <2>5, <2>6
  <1> QED BY <1>1, <1>5, <1>6

LEMMA MaterialiseIInv ==
    ASSUME IInv, NEW e \in Engines, NEW d \in Dispatches, Materialise(e, d)
    PROVE  IInv'
  <1>0. Stage(e, d) = "boxed" /\ UNCHANGED <<kind, image, msg, up, pump>>
        /\ at[e][d].stage = "boxed"
    BY DEF Materialise, Stage
  <1>t. at \in [Engines -> [Dispatches -> AttemptType]] /\ kind \in Kinds
        /\ box \in [Engines -> [Boxes -> BoxType]]
    BY SharedTypes DEF IInv, TypeOK
  <1>r. PICK r \in AttemptType : r = at[e][d] /\ r.killed = FALSE
    BY <1>0, Unleased
  <1>b. PICK b \in Boxes : b = at[e][d].box
    BY <1>0, HasBox DEF Leased
  <1>z. PICK z \in BoxType : z = box[e][b]
    BY <1>t
  <1>1. PICK put \in PutOutcomes(kind), redeemed \in Redeemed(d) :
          IF put.ok /\ redeemed
          THEN /\ at' = [at EXCEPT ![e][d].stage = "running"]
               /\ box' = [box EXCEPT ![e][at[e][d].box].input = put.file,
                                     ![e][at[e][d].box].procs = WithTree(e, d, IF d \in Forking THEN Roles ELSE {"leader"})]
               /\ UNCHANGED <<pool, faults>>
          ELSE Leaves(e, d, "failed", Breaks(box[e][at[e][d].box].broken, ~put.ok))
    BY DEF Materialise
  <1>2. CASE put.ok /\ redeemed
    <2>1. put.file = Source
      BY <1>t, <1>2, PutWhole
    <2>2. PICK n : n = [r EXCEPT !.stage = "running"]
      OBVIOUS
    <2>3. n \in AttemptType /\ n.stage = "running" /\ n.box = r.box /\ n.killed = FALSE
      BY <1>r, <2>2 DEF AttemptType, Stages
    <2>4. PICK T \in SUBSET (Dispatches \X Roles) :
             T = WithTree(e, d, IF d \in Forking THEN Roles ELSE {"leader"})
      <3>1. (IF d \in Forking THEN Roles ELSE {"leader"}) \in SUBSET Roles
        BY DEF Roles
      <3> QED BY <1>b, <1>z, <3>1, WithTreeType
    <2>5. PICK y : y = [z EXCEPT !.input = Source, !.procs = T]
      OBVIOUS
    <2>6. y \in BoxType /\ y.up = z.up /\ y.tenant = z.tenant /\ y.input = Source
      BY <1>z, <2>4, <2>5 DEF BoxType
    <2>7. at' = [at EXCEPT ![e] = [at[e] EXCEPT ![d] = n]]
      BY <1>t, <1>r, <1>1, <1>2, <2>2
    <2>8. box' = [box EXCEPT ![e] = [box[e] EXCEPT ![b] = y]]
      <3>1. box' = [box EXCEPT ![e][b].input = Source, ![e][b].procs = T]
        BY <1>b, <1>1, <1>2, <2>1, <2>4
      <3> QED BY <1>t, <1>z, <2>5, <3>1
    <2>9. EndsClean(kind, d, n, y)
      BY <2>3 DEF EndsClean
    <2>10. UNCHANGED <<pool, faults>>
      BY <1>1, <1>2
    <2> QED BY <1>0, <1>b, <1>r, <1>z, <2>3, <2>6, <2>7, <2>8, <2>9, <2>10, UseIInv
  <1>3. CASE ~(put.ok /\ redeemed)
    <2>1. PICK broken \in BOOLEAN : broken = Breaks(box[e][at[e][d].box].broken, ~put.ok)
      BY DEF Breaks
    <2>2. Leaves(e, d, "failed", broken)
      BY <1>1, <1>3, <2>1
    <2>3. HonestLease(e, d, broken)
      <3>1. z.broken \in BOOLEAN
        BY <1>z DEF BoxType
      <3> QED BY <1>b, <1>z, <2>1, <3>1 DEF HonestLease, Breaks
    <2> QED BY <1>0, <2>2, <2>3, LeavesIInv
  <1> QED BY <1>2, <1>3

LEMMA ConcludeIInv ==
    ASSUME IInv, NEW e \in Engines, NEW d \in Dispatches, Conclude(e, d)
    PROVE  IInv'
  <1>0. Stage(e, d) = "exited" /\ UNCHANGED <<kind, image, msg, up, pump>>
    BY DEF Conclude
  <1>b. PICK b \in Boxes : b = at[e][d].box /\ box[e][b] \in BoxType
    BY <1>0, HasBox DEF Leased
  <1>1. PICK v \in Verdicts(at[e][d], Ended(e, d)) :
           Leaves(e, d, v, box[e][at[e][d].box].broken)
    BY DEF Conclude
  <1>2. v \in {"failed", "succeeded", "timedout"}
    BY DEF Verdicts
  <1>3. PICK broken \in BOOLEAN : broken = box[e][at[e][d].box].broken
    BY <1>b DEF BoxType
  <1>4. Leaves(e, d, v, broken)
    BY <1>1, <1>3
  <1>5. HonestLease(e, d, broken)
    BY <1>3 DEF HonestLease
  <1> QED BY <1>0, <1>2, <1>4, <1>5, LeavesIInv

--------------------------------------------------------------------------------
(* The specification.                                                       *)

LEMMA InitIInv == ASSUME Init PROVE IInv
  <1>a. NoAttempt \in AttemptType /\ NoAttempt.stage = "none" /\ NoBox \in BoxType
    BY EngineAssumption, EmptyBoxType DEF NoAttempt, AttemptType, Stages
  <1>p. EmptyPool \in PoolType
    BY EngineAssumption DEF EmptyPool, PoolType
  <1>1. TypeOK
    BY <1>a, <1>p, EngineAssumption DEF Init, TypeOK
  <1>s. \A e \in Engines, d \in Dispatches : Stage(e, d) = "none"
    BY <1>a DEF Init, Stage
  <1>2. HolderInv
    BY <1>s DEF HolderInv, Working
  <1>3. RoomIsOffered
    <2>1. \A e \in Engines : Held(e) = {}
      BY <1>s DEF Held
    <2>2. \A e \in Engines : Cardinality(Held(e)) = 0
      BY <2>1, FS_EmptySet
    <2>3. \A e \in Engines : Slots[e] \in Nat /\ Slots[e] # 0
      BY EngineAssumption
    <2>4. \A e \in Engines, q \in Queues : pump[e][q] = "fetching"
      BY DEF Init
    <2> QED BY <2>2, <2>3, <2>4 DEF RoomIsOffered
  <1>4. ASSUME NEW e \in Engines PROVE Sound(kind, at[e], box[e], pool[e])
    <2>1. /\ at[e] = [d \in Dispatches |-> NoAttempt] /\ box[e] = [b \in Boxes |-> NoBox]
          /\ pool[e] = EmptyPool
      BY DEF Init
    <2>2. Sound(kind, [d \in Dispatches |-> NoAttempt], [b \in Boxes |-> NoBox], EmptyPool)
      BY EmptySound
    <2> QED BY <2>1, <2>2
  <1> QED BY <1>1, <1>2, <1>3, <1>4 DEF IInv

LEMMA HandleIInv ==
    ASSUME IInv, NEW e \in Engines, NEW d \in Dispatches, Handle(e, d)
    PROVE  IInv'
  <1>1. CASE Unparseable(e, d) \/ Superseded(e, d) \/ Unconfirmed(e, d) \/ Publish(e, d)
    BY <1>1, FinishersIInv
  <1>2. CASE Refuse(e, d) \/ Own(e, d) \/ Cancel(e, d) \/ Deadline(e, d)
    BY <1>2, ConfirmIInv
  <1>3. CASE Acquire(e, d)
    BY <1>3, AcquireIInv
  <1>4. CASE PoolAcquire(e, d)
    BY <1>4, PoolAcquireIInv
  <1>5. CASE PoolMade(e, d)
    BY <1>5, PoolMadeIInv
  <1>6. CASE Materialise(e, d)
    BY <1>6, MaterialiseIInv
  <1>7. CASE Exit(e, d) \/ Terminate(e, d) \/ Vanish(e, d)
    BY <1>7, ExitIInv
  <1>8. CASE Conclude(e, d)
    BY <1>8, ConcludeIInv
  <1> QED BY <1>1, <1>2, <1>3, <1>4, <1>5, <1>6, <1>7, <1>8 DEF Handle

LEMMA NextIInv == ASSUME IInv, [Next]_vars PROVE IInv'
  <1>1. ASSUME NEW e \in Engines, NEW q \in Queues, Abandon(e, q) \/ FetchFails(e, q)
        PROVE  IInv'
    BY <1>1, AbandonIInv
  <1>2. ASSUME NEW e \in Engines, NEW d \in Dispatches,
               Fetch(e, d) \/ TakeSlot(e, d) \/ Handle(e, d)
        PROVE  IInv'
    BY <1>2, FetchIInv, TakeSlotIInv, HandleIInv
  <1>3. ASSUME NEW e \in Engines, NEW n \in 1 .. MaxLive, PoolReap(e, n)
        PROVE  IInv'
    BY <1>3, PoolReapIInv
  <1>4. ASSUME NEW e \in Engines, PoolClose(e) \/ Stop(e) \/ Crash(e)
        PROVE  IInv'
    BY <1>4, PoolCloseIInv, StopIInv, CrashIInv
  <1>5. ASSUME NEW d \in Dispatches, Redeliver(d)
        PROVE  IInv'
    BY <1>5, RedeliverIInv
  <1>6. CASE Republished
    BY <1>6, RepublishedIInv
  <1>7. CASE UNCHANGED vars
    BY <1>7 DEF vars, IInv, TypeOK, HolderInv, RoomIsOffered, Held, Stage
  <1> QED BY <1>1, <1>2, <1>3, <1>4, <1>5, <1>6, <1>7 DEF Next

(* The inductive invariant.                                                 *)
LEMMA Inductive == Spec => []IInv
  BY InitIInv, NextIInv, PTL DEF Spec

(* The state of an engine's code has its types, whatever its engines,       *)
(* backends and faults do: in particular no attempt, sandbox or count of    *)
(* the pool ever leaves its bounds.                                         *)
THEOREM EngineTypeOK == Spec => []TypeOK
  <1>1. IInv => TypeOK
    BY DEF IInv
  <1> QED BY <1>1, Inductive, PTL

(* A dispatch is in one engine at a time from its fetch until its command   *)
(* has ended, however deliveries run out of their ack wait, engines stop,   *)
(* crash or fail to publish: renewDelivery covers every stage in which the  *)
(* agent still works on it.                                                 *)
THEOREM HeldByOneEngine == Spec => []OneHolder
  <1>1. IInv => OneHolder
    <2> SUFFICES ASSUME IInv, NEW d \in Dispatches
                 PROVE  Cardinality({e \in Engines : Stage(e, d) \in Working}) =< 1
      BY DEF OneHolder, Working
    <2> DEFINE S == {e \in Engines : Stage(e, d) \in Working}
    <2>1. CASE S = {}
      <3>1. Cardinality(S) = 0
        BY <2>1, FS_EmptySet
      <3> HIDE DEF S
      <3> QED BY <3>1 DEF S
    <2>2. CASE S # {}
      <3>1. PICK e \in S : TRUE
        BY <2>2
      <3>2. S = {e}
        BY <3>1 DEF IInv, HolderInv
      <3>3. Cardinality(S) = 1
        BY <3>2, FS_Singleton
      <3> QED BY <3>3
    <2> QED BY <2>1, <2>2
  <1> QED BY <1>1, Inductive, PTL

(* The room (internal/engine's room) is what the pumps act on: no fetch     *)
(* stays open on an engine that is full, and no pump sleeps through the     *)
(* release that made room, for any number of pumps, slots and dispatches.   *)
THEOREM RoomHonoured == Spec => []RoomIsOffered
  <1>1. IInv => RoomIsOffered
    BY DEF IInv
  <1> QED BY <1>1, Inductive, PTL

(* A command that was ended leaves nothing running once its sandbox has     *)
(* been given back, under every backend; where only the process group is    *)
(* signalled, nothing but what left that group.                             *)
THEOREM TreesAreKilled == Spec => []CancelKillsTheTree
  <1>1. IInv => CancelKillsTheTree
    <2> SUFFICES ASSUME IInv, NEW e \in Engines, NEW d \in Dispatches,
                        at[e][d].killed, Stage(e, d) = "publishing"
                 PROVE  at[e][d].left \subseteq Spared(kind)
      BY DEF CancelKillsTheTree, Spared
    <2>1. Trees(kind, at[e], box[e])
      BY DEF IInv, Sound
    <2> QED BY <2>1 DEF Trees, Stage
  <1> QED BY <1>1, Inductive, PTL

(* What a command finds in its sandbox is its own step's.  A warm sandbox   *)
(* of the pool (internal/executor/pool) is leased to one step at a time, of *)
(* the tenant it was made for, never one that failed; sandboxes standing    *)
(* and being made stay within MaxSize, though making one happens outside    *)
(* the Manager's lock; and the input is whole, however often the exec       *)
(* stream of the Kubernetes backend dropped some of it.                     *)
THEOREM SandboxesAreSound == Spec => []SandboxesSound
  <1>1. IInv => InputsAreWhole
    BY DEF IInv, Sound, Inputs, InputsAreWhole, Stage
  <1>2. IInv => PoolSound
    <2> SUFFICES ASSUME IInv, kind = "pool", NEW e \in Engines
                 PROVE  LET Leasing == {d \in Held(e) : at[e][d].box # 0}
                            Owned == {b \in Boxes : box[e][b].up = "yes"}
                            Made == {d \in Held(e) : Stage(e, d) = "making"}
                        IN  /\ \A d \in Leasing :
                                  /\ box[e][at[e][d].box].tenant = TenantOf[d]
                                  /\ at[e][d].box \notin ToSet(pool[e].idle)
                                  /\ \A c \in Leasing \ {d} : at[e][c].box # at[e][d].box
                            /\ \A b \in ToSet(pool[e].idle) : ~box[e][b].broken
                            /\ Cardinality(Owned) + Cardinality(Made) =< MaxLive
      BY DEF PoolSound
    <2> DEFINE Leasing == {d \in Held(e) : at[e][d].box # 0}
    <2>0. Sound("pool", at[e], box[e], pool[e])
      BY DEF IInv
    <2>1. /\ Typed(at[e], box[e], pool[e]) /\ Leases("pool", at[e], box[e])
          /\ Idles("pool", at[e], box[e], pool[e]) /\ Counted("pool", at[e], box[e], pool[e])
      BY <2>0 DEF Sound
    <2>2. \A d \in Leasing : d \in Dispatches /\ at[e][d].stage \in Leased
      BY <2>1 DEF Held, Leases
    <2>3. ToSet(pool[e].idle) = {pool[e].idle[i] : i \in 1 .. Len(pool[e].idle)}
      BY <2>1 DEF ToSet, Typed, PoolType
    <2>4. ASSUME NEW d \in Leasing
          PROVE  /\ box[e][at[e][d].box].tenant = TenantOf[d]
                 /\ at[e][d].box \notin ToSet(pool[e].idle)
                 /\ \A c \in Leasing \ {d} : at[e][c].box # at[e][d].box
      <3>1. d \in Dispatches /\ at[e][d].stage \in Leased
        BY <2>2
      <3>2. box[e][at[e][d].box].tenant = TenantOf[d]
        BY <2>1, <3>1 DEF Leases
      <3>3. at[e][d].box \notin ToSet(pool[e].idle)
        BY <2>1, <2>3, <3>1 DEF Idles
      <3>4. ASSUME NEW c \in Leasing \ {d} PROVE at[e][c].box # at[e][d].box
        BY <2>1, <2>2, <3>1 DEF Leases
      <3> QED BY <3>2, <3>3, <3>4
    <2>5. \A b \in ToSet(pool[e].idle) : ~box[e][b].broken
      BY <2>1, <2>3 DEF Idles
    <2>6. Cardinality({b \in Boxes : box[e][b].up = "yes"})
            + Cardinality({d \in Held(e) : Stage(e, d) = "making"}) =< MaxLive
      <3>1. {d \in Held(e) : Stage(e, d) = "making"} = Making(at[e])
        BY DEF Held, Stage, Making
      <3>2. {b \in Boxes : box[e][b].up = "yes"} = Standing(box[e])
        BY DEF Standing
      <3>3. pool[e].live = Cardinality(Standing(box[e])) + Cardinality(Making(at[e]))
        BY <2>1 DEF Counted
      <3>4. pool[e].live =< MaxLive
        BY <2>1, EngineAssumption DEF Typed, PoolType
      <3> QED BY <3>1, <3>2, <3>3, <3>4
    <2> QED BY <2>4, <2>5, <2>6
  <1> QED BY <1>1, <1>2, Inductive, PTL DEF SandboxesSound
=============================================================================
