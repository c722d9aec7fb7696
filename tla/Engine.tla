------------------------------- MODULE Engine -------------------------------
(***************************************************************************)
(* The engine agent (internal/engine): the pumps that fetch dispatches, the *)
(* room and the slots that bound them, and one dispatch's way from delivery *)
(* to acknowledgement, through a sandbox of module Sandboxes.               *)
(*                                                                         *)
(* The work queues are shared by the engines and external: a dispatch is    *)
(* queued, delivered to an engine, or acknowledged, and one delivered and   *)
(* not renewed goes back after the ack wait.                                *)
(***************************************************************************)
EXTENDS Sandboxes

CONSTANTS
    Engines,        \* the engines of one tier
    Redeems,        \* Config.Secrets is there: the agent can redeem secrets
    Named,          \* the executor has a kind, and so queues of its own
    Slots,          \* Config.Slots of each engine
    Targeted,       \* the dispatches published for the engine's kind alone
    Invalid,        \* the dispatches that fail the checks before anything starts
    AtMostOnce,     \* those of that effect class
    Timed,          \* those whose step has a timeout
    Forking,        \* those whose command starts other processes
    MaxFaults       \* bound: cancels, timeouts, crashes, shutdowns, what the bus or a backend refuses

(* advertisedCapabilities: the backend's, and SECRETS when there is a       *)
(* redeemer.                                                                *)
Advertised == Granted \cup (IF Redeems THEN {"secrets"} ELSE {})

(* satisfiableCapsHashes and workQueues: for every capability set the       *)
(* engine can serve, the plain queue and the one of its executor's kind.    *)
Queues == (SUBSET Advertised) \X (IF Named THEN {"any", "kind"} ELSE {"any"})

(* The subject a dispatch was published on: CapsHash of what its step needs *)
(* and the kind it asked for.                                               *)
QueueOf(d) == <<CapsOf[d], IF d \in Targeted THEN "kind" ELSE "any">>

ASSUME EngineAssumption ==
    /\ IsFiniteSet(Dispatches) /\ IsFiniteSet(Engines) /\ IsFiniteSet(Granted)
    /\ "secrets" \notin Granted /\ {Redeems, Named} \subseteq BOOLEAN
    /\ Slots \in [Engines -> Nat \ {0}]
    /\ \A d \in Dispatches : QueueOf(d) \in Queues
    /\ Invalid \cup AtMostOnce \cup Timed \cup Forking \cup Targeted \subseteq Dispatches
    /\ {MaxBoxes, MaxLive, Chunks} \subseteq Nat \ {0} /\ MaxFaults \in Nat
    /\ {"queued", "acked"} \cap Engines = {}

VARIABLES
    kind,     \* the executor every engine was configured with
    msg,      \* where each dispatch is: "queued", "acked", or the engine it is delivered to
    up,       \* per engine: "up", "stopping", "down"
    pump,     \* per engine and queue, what the pump is at
    at,       \* per engine and dispatch, how far the attempt got
    box,      \* per engine, its sandboxes
    pool,     \* per engine, the pool's Manager
    image,    \* what the configured image or rootfs is now: 1, or 2 once it was replaced
    faults    \* faults left

vars == <<kind, msg, up, pump, at, box, pool, image, faults>>

Stages == {"none", "held", "slot", "owned", "making", "boxed", "running", "exited",
           "publishing"}
NoAttempt == [stage |-> "none", box |-> 0, cancelled |-> FALSE, late |-> FALSE,
              killed |-> FALSE, exit |-> "none", status |-> "none", left |-> {}]

AttemptType ==
    [stage : Stages, box : 0 .. MaxBoxes, cancelled : BOOLEAN, late : BOOLEAN, killed : BOOLEAN,
     exit : {"none", "ok", "bad"},
     status : {"none", "succeeded", "failed", "timedout", "cancelled"}, left : SUBSET Roles]
BoxType ==
    [up : {"no", "yes", "leaked"}, tenant : {"none"} \cup {TenantOf[d] : d \in Dispatches},
     image : 0 .. 2, broken : BOOLEAN, input : {<<>>, Source}, procs : SUBSET (Dispatches \X Roles)]
PoolType == [live : 0 .. MaxLive, idle : Seq(Boxes), closed : BOOLEAN]

TypeOK ==
    /\ kind \in Kinds
    /\ msg \in [Dispatches -> {"queued", "acked"} \cup Engines]
    /\ up \in [Engines -> {"up", "stopping", "down"}]
    /\ pump \in [Engines -> [Queues -> {"blocked", "fetching", "abandoned", "holding", "ended"}]]
    /\ at \in [Engines -> [Dispatches -> AttemptType]]
    /\ box \in [Engines -> [Boxes -> BoxType]]
    /\ pool \in [Engines -> PoolType]
    /\ image \in 1 .. 2 /\ faults \in 0 .. MaxFaults

Init ==
    /\ kind \in Kinds
    /\ msg = [d \in Dispatches |-> "queued"]
    /\ up = [e \in Engines |-> "up"]
    /\ pump = [e \in Engines |-> [q \in Queues |-> "fetching"]]
    /\ at = [e \in Engines |-> [d \in Dispatches |-> NoAttempt]]
    /\ box = [e \in Engines |-> [b \in Boxes |-> NoBox]]
    /\ pool = [e \in Engines |-> EmptyPool]
    /\ image = 1 /\ faults = MaxFaults

Stage(e, d) == at[e][d].stage
Held(e) == {d \in Dispatches : Stage(e, d) # "none"}
Running(e) == {d \in Held(e) : Stage(e, d) # "held"}

(* The attempt's context: the job's own cancel, or the engine stopping.     *)
Ended(e, d) == at[e][d].cancelled \/ up[e] = "stopping"

Fault == faults > 0 /\ faults' = faults - 1

-----------------------------------------------------------------------------
(* pump: room first, then the fetch, and a slot once there is a message.    *)

(* room.wait, as a pump goes round: an open fetch while fewer than the limit *)
(* are held, else wait for reopened.                                        *)
RoomWait(e, held) == IF held < Slots[e] THEN "fetching" ELSE "blocked"

\* Mutant: the room never closes, and open fetches stay open.
HoldOpen(e, q) == [pump[e] EXCEPT ![q] = "holding"]

(* room.hold: the dispatch that fills the engine abandons every fetch.      *)
Hold(e, q) ==
    [p \in Queues |->
        CASE p = q -> "holding"
          [] p # q /\ pump[e][p] = "fetching" /\ Cardinality(Held(e)) + 1 = Slots[e] -> "abandoned"
          [] OTHER -> pump[e][p]]

(* A message lands, on an abandoned fetch too when it was already on its    *)
(* way.  It is held, and renewed from here on.                              *)
Fetch(e, d) ==
    LET q == QueueOf(d) IN
    /\ up[e] = "up" /\ msg[d] = "queued" /\ Stage(e, d) = "none"
    /\ pump[e][q] \in {"fetching", "abandoned"}
    /\ msg' = [msg EXCEPT ![d] = e]
    /\ pump' = [pump EXCEPT ![e] = Hold(e, q)]
    /\ at' = [at EXCEPT ![e][d].stage = "held"]
    /\ UNCHANGED <<kind, image, up, box, pool, faults>>

(* The abandoned fetch ends, whatever lands on it is nacked (giveBack), and *)
(* the pump goes round.                                                     *)
Abandon(e, q) ==
    /\ up[e] = "up" /\ pump[e][q] = "abandoned"
    /\ pump' = [pump EXCEPT ![e][q] = RoomWait(e, Cardinality(Held(e)))]
    /\ UNCHANGED <<kind, image, msg, up, at, box, pool, faults>>

(* Any other error of a fetch ends the pump: Run collects it, and reports   *)
(* it when every other pump and the heartbeats have ended.                  *)
FetchFails(e, q) ==
    /\ up[e] = "up" /\ pump[e][q] = "fetching" /\ Fault
    /\ pump' = [pump EXCEPT ![e][q] = "ended"]
    /\ UNCHANGED <<kind, image, msg, up, at, box, pool>>

TakeSlot(e, d) ==
    /\ up[e] = "up" /\ Stage(e, d) = "held" /\ Cardinality(Running(e)) < Slots[e]
    /\ at' = [at EXCEPT ![e][d].stage = "slot"]
    /\ pump' = [pump EXCEPT ![e][QueueOf(d)] = RoomWait(e, Cardinality(Held(e)))]
    /\ UNCHANGED <<kind, image, msg, up, box, pool, faults>>

(* room.release: the release that makes room wakes the pumps.               *)
Reopens(e) == Cardinality(Held(e)) = Slots[e]

(* The attempt is over: slot, then room, are free again.                    *)
Finish(e, d, where) ==
    /\ msg' = [msg EXCEPT ![d] = where]
    /\ at' = [at EXCEPT ![e][d] = NoAttempt]
    /\ pump' = [pump EXCEPT ![e] = [q \in Queues |->
                  IF pump[e][q] = "blocked" /\ Reopens(e)
                  THEN RoomWait(e, Cardinality(Held(e)) - 1) ELSE pump[e][q]]]

\* Mutant: the renewal starts with the step, not with the fetch.
RenewedOnceRunning(e, d) == d \in Running(e)

(* renewDelivery, from the fetch to the end of handle, or to the engine     *)
(* being stopped.  The ack wait outlasts the grace in which the command is  *)
(* ended, but not all that follows it.                                      *)
Renewed(e, d) ==
    d \in Held(e) /\ ~(up[e] = "stopping" /\ Stage(e, d) \in {"exited", "publishing"})

(* The ack wait of a delivery nobody renews runs out.                       *)
Redeliver(d) ==
    /\ msg[d] \in Engines /\ ~Renewed(msg[d], d)
    /\ msg' = [msg EXCEPT ![d] = "queued"]
    /\ UNCHANGED <<kind, image, up, pump, at, box, pool, faults>>

-----------------------------------------------------------------------------
(* handle and run, up to the sandbox.                                       *)

(* Bytes that do not parse are acknowledged and dropped.                    *)
Unparseable(e, d) ==
    /\ Stage(e, d) = "slot" /\ Fault
    /\ Finish(e, d, "acked")
    /\ UNCHANGED <<kind, image, up, box, pool>>

Fails(e, d) == at' = [at EXCEPT ![e][d].stage = "publishing", ![e][d].status = "failed"]

(* The checks that need nobody: version, tenant, secrets, command.          *)
Refuse(e, d) ==
    /\ Stage(e, d) = "slot" /\ d \in Invalid
    /\ Fails(e, d)
    /\ UNCHANGED <<kind, image, msg, up, pump, box, pool, faults>>

(* confirm answered FENCED: acknowledged, no status.                        *)
Superseded(e, d) ==
    /\ Stage(e, d) = "slot" /\ d \notin Invalid
    /\ Finish(e, d, "acked")
    /\ UNCHANGED <<kind, image, up, box, pool, faults>>

(* No answer.  The engine stopping gives the delivery back, and so does an  *)
(* at-most-once step, after a delay.                                        *)
Unconfirmed(e, d) ==
    /\ Stage(e, d) = "slot" /\ d \notin Invalid
    /\ up[e] = "stopping" \/ d \in AtMostOnce
    /\ Finish(e, d, "queued")
    /\ UNCHANGED <<kind, image, up, box, pool, faults>>

(* CURRENT, or no answer to a step of another class: the engine owns the    *)
(* step, lists it in its heartbeats and publishes ACCEPTED, or fails to.    *)
Own(e, d) ==
    /\ Stage(e, d) = "slot" /\ d \notin Invalid
    /\ \/ at' = [at EXCEPT ![e][d].stage = "owned"] /\ UNCHANGED faults
       \/ Fails(e, d) /\ Fault
    /\ UNCHANGED <<kind, image, msg, up, pump, box, pool>>

(* registry: what a heartbeat declares.                                     *)
InFlight(e) == {d \in Running(e) : Stage(e, d) \notin {"slot", "publishing"}}

(* watchControl and jobs.stop: a Cancel reaches the job that holds the      *)
(* fence it quotes; one for a job not there yet is lost.                    *)
Cancel(e, d) ==
    /\ d \in InFlight(e) /\ ~at[e][d].cancelled /\ Fault
    /\ at' = [at EXCEPT ![e][d].cancelled = TRUE]
    /\ UNCHANGED <<kind, image, msg, up, pump, box, pool>>

-----------------------------------------------------------------------------
(* execute: acquire, put, exec, flush, collect, release.                    *)

Free(e) == {b \in Boxes : box[e][b].up = "no"}

MakeBox(e, d) ==
    LET b == Min(Free(e)) IN
    /\ Free(e) # {}
    /\ \E o \in AcquireOutcomes(kind, d) :
          \/ /\ o = "up"
             /\ box' = [box EXCEPT ![e][b] = [NoBox EXCEPT
                          !.up = "yes", !.tenant = KeyFor(d), !.image = ImageOf(kind, image)]]
             /\ at' = [at EXCEPT ![e][d].stage = "boxed", ![e][d].box = b]
             /\ UNCHANGED faults
          \/ o = "failed" /\ Fails(e, d) /\ UNCHANGED <<box, faults>>
          \/ /\ o = "leaked" /\ Fault
             /\ box' = [box EXCEPT ![e][b].up = "leaked"]
             /\ Fails(e, d)

Acquire(e, d) ==
    /\ Stage(e, d) = "owned" /\ kind # "pool"
    /\ MakeBox(e, d)
    /\ UNCHANGED <<kind, image, msg, up, pump, pool>>

(* Manager.Acquire: a warm sandbox of the key; a new one, in a slot         *)
(* reserved for it; the least recently used one evicted to make room; or    *)
(* ErrPoolFull.  A closed pool refuses.                                     *)
PoolAcquire(e, d) ==
    LET p == pool[e] IN
    /\ Stage(e, d) = "owned" /\ kind = "pool"
    /\ \/ /\ ~p.closed /\ Matching(p, box[e], d) # {}
          /\ at' = [at EXCEPT ![e][d].stage = "boxed", ![e][d].box = Claimed(p, box[e], d)]
          /\ pool' = [pool EXCEPT ![e] = AfterClaim(p, box[e], d)]
          /\ UNCHANGED box
       \/ /\ ~p.closed /\ Matching(p, box[e], d) = {} /\ p.live < MaxLive
          /\ pool' = [pool EXCEPT ![e] = Reserve(p)]
          /\ at' = [at EXCEPT ![e][d].stage = "making"]
          /\ UNCHANGED box
       \/ /\ ~p.closed /\ Matching(p, box[e], d) = {} /\ p.live >= MaxLive /\ p.idle # <<>>
          /\ pool' = [pool EXCEPT ![e] = Reserve(AfterEvict(p))]
          /\ box' = [box EXCEPT ![e][Head(p.idle)] = NoBox]
          /\ at' = [at EXCEPT ![e][d].stage = "making"]
       \/ /\ p.closed \/ (Matching(p, box[e], d) = {} /\ p.live >= MaxLive /\ p.idle = <<>>)
          /\ Fails(e, d) /\ UNCHANGED <<box, pool>>
    /\ UNCHANGED <<kind, image, msg, up, pump, faults>>

(* mk returned.  Failed, or closed meanwhile: the slot is given up, and the *)
(* sandbox released.                                                        *)
PoolMade(e, d) ==
    /\ Stage(e, d) = "making"
    /\ \/ ~pool[e].closed /\ MakeBox(e, d)
       \/ pool[e].closed /\ Fails(e, d) /\ UNCHANGED <<box, faults>>
    /\ pool' = IF at'[e][d].stage = "boxed" THEN pool
               ELSE [pool EXCEPT ![e].live = @ - 1]
    /\ UNCHANGED <<kind, image, msg, up, pump>>

PoolReap(e, n) ==
    /\ n \in 1 .. Len(pool[e].idle)
    /\ pool' = [pool EXCEPT ![e] = AfterReap(@, n)]
    /\ box' = [box EXCEPT ![e] = [b \in Boxes |->
                 IF \E i \in 1 .. n : pool[e].idle[i] = b THEN NoBox ELSE box[e][b]]]
    /\ UNCHANGED <<kind, image, msg, up, pump, at, faults>>

PoolClose(e) ==
    /\ kind = "pool" /\ ~pool[e].closed /\ Fault
    /\ pool' = [pool EXCEPT ![e] = AfterClose(@)]
    /\ box' = [box EXCEPT ![e] = [b \in Boxes |->
                 IF b \in ToSet(pool[e].idle) THEN NoBox ELSE box[e][b]]]
    /\ UNCHANGED <<kind, image, msg, up, pump, at>>

Tree(e, d) == {r \in Roles : <<d, r>> \in box[e][at[e][d].box].procs}
WithTree(e, d, tree) ==
    {p \in box[e][at[e][d].box].procs : p[1] # d} \cup {<<d, r>> : r \in tree}

(* markBroken: a lease of the pool remembers that its sandbox failed.       *)
Breaks(broken, failed) == kind = "pool" /\ (broken \/ failed)

(* Release, then the end of run: a job cancelled while its engine lives is  *)
(* CANCELLED whatever its verdict was; the job leaves the heartbeats.  A    *)
(* cancel between the two is as good as one before them.                    *)
Leaves(e, d, verdict, broken) ==
    LET b == at[e][d].box
        p == pool[e]
        warm == kind = "pool" /\ ~TornDown(p, broken)
        status == IF at[e][d].cancelled /\ up[e] = "up" THEN "cancelled" ELSE verdict
        killed == at[e][d].killed
        gone(left) == [at EXCEPT ![e][d] = [NoAttempt EXCEPT !.stage = "publishing",
                         !.status = status, !.killed = killed, !.left = IF killed THEN left ELSE {}]]
    IN
    /\ \/ /\ at' = gone({r \in Roles : <<d, r>> \in
                           IF warm THEN box[e][b].procs ELSE Outliving(kind, box[e][b].procs)})
          /\ box' = [box EXCEPT ![e][b] =
                       IF warm THEN [@ EXCEPT !.input = <<>>, !.procs = {}] ELSE NoBox]
          /\ UNCHANGED faults
       \/ /\ CanLeak(kind) /\ Fault
          /\ at' = gone({})
          /\ box' = [box EXCEPT ![e][b].up = "leaked"]
    /\ pool' = IF kind = "pool" THEN [pool EXCEPT ![e] = AfterPut(p, b, broken)] ELSE pool

(* redeem: every value, or the attempt fails.                               *)
Redeemed(d) == IF "secrets" \in CapsOf[d] THEN BOOLEAN ELSE {TRUE}

(* materialise and redeem: Mkdir, a Put per input, the secrets, the log     *)
(* sink.  Then Exec starts the command.  What fails leaves a broken lease   *)
(* when it was the sandbox, and the attempt failed.                         *)
Materialise(e, d) ==
    /\ Stage(e, d) = "boxed"
    /\ \E put \in PutOutcomes(kind), redeemed \in Redeemed(d) :
          IF put.ok /\ redeemed
          THEN /\ at' = [at EXCEPT ![e][d].stage = "running"]
               /\ box' = [box EXCEPT ![e][at[e][d].box].input = put.file,
                                     ![e][at[e][d].box].procs = WithTree(e, d, IF d \in Forking THEN Roles ELSE {"leader"})]
               /\ UNCHANGED <<pool, faults>>
          ELSE Leaves(e, d, "failed", Breaks(box[e][at[e][d].box].broken, ~put.ok))
    /\ UNCHANGED <<kind, image, msg, up, pump>>

(* The timeout of the step's own context, which runs until execute returns. *)
Deadline(e, d) ==
    /\ d \in Timed /\ Stage(e, d) \in {"running", "exited"} /\ ~at[e][d].late /\ Fault
    /\ at' = [at EXCEPT ![e][d].late = TRUE]
    /\ UNCHANGED <<kind, image, msg, up, pump, box, pool>>

(* The leader ends and Exec returns its code: whatever holds no pipe of the *)
(* command is left running.                                                 *)
Exit(e, d) ==
    /\ Stage(e, d) = "running"
    /\ \E code \in {"ok", "bad"} :
          at' = [at EXCEPT ![e][d].stage = "exited", ![e][d].exit = code]
    /\ box' = [box EXCEPT ![e][at[e][d].box].procs = WithTree(e, d, Tree(e, d) \ {"leader"})]
    /\ UNCHANGED <<kind, image, msg, up, pump, pool, faults>>

(* The context ends under the command.                                      *)
Terminate(e, d) ==
    /\ Stage(e, d) = "running"
    /\ Ended(e, d) \/ at[e][d].late
    /\ \E tree \in Terminated(kind, Tree(e, d)), code \in EndedExit(kind) :
          /\ at' = [at EXCEPT ![e][d].stage = "exited", ![e][d].killed = TRUE,
                              ![e][d].exit = IF code = "ok" THEN "ok" ELSE "bad"]
          /\ box' = [box EXCEPT ![e][at[e][d].box].procs = WithTree(e, d, tree),
                                ![e][at[e][d].box].broken = Breaks(@, code = "error")]
    /\ UNCHANGED <<kind, image, msg, up, pump, pool, faults>>

(* The sandbox disappears under the command: an error, never a pass.        *)
Vanish(e, d) ==
    /\ Stage(e, d) = "running" /\ CanVanish(kind) /\ Fault
    /\ at' = [at EXCEPT ![e][d].stage = "exited", ![e][d].exit = "bad"]
    /\ box' = [box EXCEPT ![e][at[e][d].box].procs = {}]
    /\ UNCHANGED <<kind, image, msg, up, pump, pool>>

(* flush the log, then the verdict in this order: the log could not be      *)
(* written; the timeout has passed; Exec failed; the code; the outputs.     *)
Verdicts(a, ended) ==
    {"failed"} \cup
    (CASE a.late /\ ~ended -> {"timedout"}
       [] ~(a.late /\ ~ended) /\ a.exit = "ok" -> {"succeeded"}
       [] OTHER -> {})

Conclude(e, d) ==
    /\ Stage(e, d) = "exited"
    /\ \E v \in Verdicts(at[e][d], Ended(e, d)) : Leaves(e, d, v, box[e][at[e][d].box].broken)
    /\ UNCHANGED <<kind, image, msg, up, pump>>

(* The terminal status first, then the acknowledgement; not published, the  *)
(* dispatch stays outstanding.                                              *)
Publish(e, d) ==
    /\ Stage(e, d) = "publishing"
    /\ \/ Finish(e, d, "acked") /\ UNCHANGED faults
       \/ Finish(e, d, msg[d]) /\ Fault
    /\ UNCHANGED <<kind, image, up, box, pool>>

-----------------------------------------------------------------------------
(* The engine is asked to stop: its pumps end, a dispatch waiting for a     *)
(* slot goes straight back, what runs is ended.                             *)
Stop(e) ==
    /\ up[e] = "up" /\ Fault
    /\ up' = [up EXCEPT ![e] = "stopping"]
    /\ pump' = [pump EXCEPT ![e] = [q \in Queues |-> "ended"]]
    /\ msg' = [d \in Dispatches |-> IF Stage(e, d) = "held" THEN "queued" ELSE msg[d]]
    /\ at' = [at EXCEPT ![e] = [d \in Dispatches |->
                IF Stage(e, d) = "held" THEN NoAttempt ELSE at[e][d]]]
    /\ UNCHANGED <<kind, image, box, pool>>

(* The process dies: what it held is gone, its sandboxes are swept by       *)
(* nobody.                                                                  *)
Crash(e) ==
    /\ up[e] # "down" /\ Fault
    /\ up' = [up EXCEPT ![e] = "down"]
    /\ pump' = [pump EXCEPT ![e] = [q \in Queues |-> "ended"]]
    /\ at' = [at EXCEPT ![e] = [d \in Dispatches |-> NoAttempt]]
    /\ box' = [box EXCEPT ![e] = [b \in Boxes |-> NoBox]]
    /\ pool' = [pool EXCEPT ![e] = EmptyPool]
    /\ UNCHANGED <<kind, image, msg>>

(* The tag is pushed again, the rootfs rebuilt in place.                    *)
Republished ==
    /\ image = 1 /\ Fault
    /\ image' = 2
    /\ UNCHANGED <<kind, msg, up, pump, at, box, pool>>

Handle(e, d) ==
    \/ Unparseable(e, d) \/ Refuse(e, d) \/ Superseded(e, d) \/ Unconfirmed(e, d) \/ Own(e, d)
    \/ Acquire(e, d) \/ PoolAcquire(e, d) \/ PoolMade(e, d) \/ Materialise(e, d)
    \/ Deadline(e, d) \/ Exit(e, d) \/ Terminate(e, d) \/ Vanish(e, d)
    \/ Conclude(e, d) \/ Publish(e, d) \/ Cancel(e, d)

Next ==
    \/ \E e \in Engines :
          \/ \E q \in Queues : Abandon(e, q) \/ FetchFails(e, q)
          \/ \E d \in Dispatches : Fetch(e, d) \/ TakeSlot(e, d) \/ Handle(e, d)
          \/ \E n \in 1 .. MaxLive : PoolReap(e, n)
          \/ PoolClose(e) \/ Stop(e) \/ Crash(e)
    \/ \E d \in Dispatches : Redeliver(d)
    \/ Republished

Spec == Init /\ [][Next]_vars

-----------------------------------------------------------------------------
(* A dispatch is in one engine at a time from its fetch until its command   *)
(* has ended: waiting for a slot, being confirmed, or running.  An engine   *)
(* that is full or slow never lets the server hand its step to a second one *)
(* while the first still works on it.                                       *)
OneHolder ==
    \A d \in Dispatches :
        Cardinality({e \in Engines : Stage(e, d) \in {"held", "slot", "owned", "making", "boxed",
                                                      "running"}}) =< 1

(* The room a full engine closes and a freed slot reopens is what its pumps *)
(* act on, however fetches, landings and finishes interleave: no fetch      *)
(* stays open on a full engine, which would take a step from one that is    *)
(* not, and no pump sleeps through the signal while there is room.          *)
RoomIsOffered ==
    \A e \in Engines, q \in Queues :
        /\ pump[e][q] = "fetching" => Cardinality(Held(e)) < Slots[e]
        /\ pump[e][q] = "blocked" => Cardinality(Held(e)) >= Slots[e]

(* A step that was ended, by a Cancel, its timeout or a shutdown, leaves    *)
(* nothing running once its sandbox is given back, however its tree forked: *)
(* under the process backend all but what left the process group.           *)
CancelKillsTheTree ==
    \A e \in Engines, d \in Dispatches :
        at[e][d].killed /\ Stage(e, d) = "publishing" =>
            at[e][d].left \subseteq (IF kind \in {"process", "pool"} THEN {"daemon"} ELSE {})

(* A warm sandbox is one step's at a time, of its own tenant, never one     *)
(* that failed; and there are never more than the limit, those being made   *)
(* included.                                                                *)
PoolSound ==
    kind = "pool" => \A e \in Engines :
        LET Leasing == {d \in Held(e) : at[e][d].box # 0}
            Owned == {b \in Boxes : box[e][b].up = "yes"}
            Making == {d \in Held(e) : Stage(e, d) = "making"}
        IN  /\ \A d \in Leasing : /\ box[e][at[e][d].box].tenant = TenantOf[d]
                                  /\ at[e][d].box \notin ToSet(pool[e].idle)
                                  /\ \A c \in Leasing \ {d} : at[e][c].box # at[e][d].box
            /\ \A b \in ToSet(pool[e].idle) : ~box[e][b].broken
            /\ Cardinality(Owned) + Cardinality(Making) =< MaxLive

(* A command runs against the whole of its input, whatever the exec stream  *)
(* dropped on the way and however often it was sent again.                  *)
InputsAreWhole ==
    \A e \in Engines, d \in Dispatches :
        Stage(e, d) = "running" => box[e][at[e][d].box].input = Source

(* What a command finds in its sandbox is its own step's: a warm sandbox of *)
(* its tenant that nothing broke, holding the whole of its input.           *)
SandboxesSound == PoolSound /\ InputsAreWhole

(* The environment a result is cached under is the one it ran in.           *)
KeyNamesWhatRan ==
    \A e \in Engines, d \in Dispatches :
        Stage(e, d) = "running" =>
            Announced(kind) \in {0, box[e][at[e][d].box].image}

(* An engine that is up takes work from every queue it binds.               *)
ServesItsQueues ==
    \A e \in Engines, q \in Queues : up[e] = "up" => pump[e][q] # "ended"

(* A step reported as timed out was killed by its timeout.                  *)
TimedOutWasKilled ==
    \A e \in Engines, d \in Dispatches : at[e][d].status = "timedout" => at[e][d].killed

=============================================================================
