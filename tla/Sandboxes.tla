----------------------------- MODULE Sandboxes -----------------------------
(***************************************************************************)
(* The executors (internal/executor): where a command runs, what ending it  *)
(* reaches, and what giving its sandbox back leaves behind.                 *)
(*                                                                         *)
(* A command is a TREE of processes: its leader, a child that stayed in the *)
(* leader's process group, and a daemon that left it (setsid) but inherited *)
(* its environment.  A process that ends by itself is one that was never    *)
(* forked, as far as these properties can tell, so only the leader does.    *)
(* A pool hands sandboxes of the process backend from step to step.         *)
(***************************************************************************)
EXTENDS Naturals, Sequences, FiniteSets, FiniteSetsExt, SequencesExt

CONSTANTS
    Dispatches,     \* the dispatches, whose attempts run the commands
    TenantOf,       \* the tenant of each
    CapsOf,         \* the capabilities the step of each needs
    Granted,        \* the capabilities the configured backend advertises
    MaxBoxes,       \* bound: sandboxes an engine can have at once
    MaxLive,        \* pool: Options.MaxSize
    Chunks          \* the size of an input, in chunks of putChunkBytes

Kinds == {"process", "containerd", "kubernetes", "vm", "pool"}
Roles == {"leader", "child", "daemon"}
Group == {"leader", "child"}
Boxes == 1 .. MaxBoxes
NoBox == [up |-> "no", tenant |-> "none", image |-> 0, broken |-> FALSE, input |-> <<>>,
          procs |-> {}]

-----------------------------------------------------------------------------
(* What a sandbox is made of.  An image is named by a tag, and a rootfs by  *)
(* a path, that can come to mean something else; 1 is what it meant when    *)
(* the engine registered.                                                   *)

(* The host itself: nothing a digest names.                                 *)
ProcessImage(now) == 0

(* prepare asks the registry again for every sandbox and pulls that digest. *)
ContainerdImage(now) == now

(* The pod is given the tag, which the node resolves when it pulls.         *)
KubernetesImage(now) == now

(* The file is opened at boot.                                              *)
VMImage(now) == now

ImageOf(k, now) ==
    CASE k \in {"process", "pool"} -> ProcessImage(now)
      [] k = "containerd" -> ContainerdImage(now)
      [] k = "kubernetes" -> KubernetesImage(now)
      [] k = "vm" -> VMImage(now)

(* EnvironmentIdentity, as the registration carries it: resolved once when  *)
(* the engine starts and repeated with every registration.                  *)
Announced(k) == IF k \in {"process", "pool"} THEN 0 ELSE 1

-----------------------------------------------------------------------------
(* Acquire, by backend: what asking for a sandbox can end in.  Whatever a   *)
(* failing Acquire has created it releases again; "leaked" is that release  *)
(* failing too.                                                             *)

(* sandboxCapabilities: redeeming secrets is the agent's to do, so the      *)
(* backend is not asked for it.                                             *)
SandboxCapabilities(d) == CapsOf[d] \ {"secrets"}

(* A directory under the temporary one; no capability is checked.           *)
ProcessAcquire(d) == {"up", "failed"}

(* requireCapabilities.                                                     *)
ContainerdGrants(d) == SandboxCapabilities(d) \subseteq Granted

(* The container is created from the image, a lazy snapshotter demoted when *)
(* it cannot; then its task is started and waited for.                      *)
ContainerdAcquire(d) == IF ContainerdGrants(d) THEN {"up", "failed", "leaked"} ELSE {"failed"}

(* A pod and waitReady; no capability is checked.                           *)
KubernetesAcquire(d) == {"up", "failed", "leaked"}

VMGrants(d) == SandboxCapabilities(d) \subseteq Granted

(* Boot: the hypervisor and what it is told, stopped again when any of it   *)
(* fails.                                                                   *)
QemuBoot == {"up", "failed"}
FirecrackerBoot == {"up", "failed"}

(* connect: the guest's agent is dialled until it answers or the boot's     *)
(* budget is gone, and then the machine is stopped.                         *)
GuestAnswers(booted) == IF booted = "up" THEN {"up", "failed"} ELSE {"failed"}

VMAcquire(d) ==
    IF VMGrants(d) THEN UNION {GuestAnswers(b) : b \in QemuBoot \cup FirecrackerBoot}
    ELSE {"failed"}

AcquireOutcomes(k, d) ==
    CASE k \in {"process", "pool"} -> ProcessAcquire(d)
      [] k = "containerd" -> ContainerdAcquire(d)
      [] k = "kubernetes" -> KubernetesAcquire(d)
      [] k = "vm" -> VMAcquire(d)

-----------------------------------------------------------------------------
(* Put, by backend: the files an input can become, and whether Put says so. *)

Source == [i \in 1 .. Chunks |-> i]

Delivered == [file |-> Source, ok |-> TRUE]
NotDelivered == [file |-> <<>>, ok |-> FALSE]

(* io.Copy to a file.                                                       *)
ProcessPut == {Delivered, NotDelivered}

(* cat, reading to the EOF that CloseIO delivers.                           *)
ContainerdPut == {Delivered, NotDelivered}

(* Frames up to FrameEOF, and the guest's answer.                           *)
VMPut == {Delivered, NotDelivered}

(* putOnce, reading the source from a position: the file is truncated, then *)
(* every chunk is appended and the size asked for.  The exec stream may     *)
(* drop chunk `drop` (0 for none), and then the size gives it away.         *)
PutOnce(from, drop) ==
    LET upto == IF drop > from THEN drop - 1 ELSE Chunks
    IN  [file |-> SubSeq(Source, from + 1, upto), ok |-> upto = Chunks,
         read |-> IF upto = Chunks THEN Chunks ELSE drop]

(* Before it tries again, Put seeks the source back to where it started.    *)
Rewind(from, once) == from

(* Put: a source that can be rewound is sent again after a short write, and *)
(* putAttempts times in all; any other source once.                         *)
KubernetesPut ==
    LET Tries(drops) ==
            LET first == PutOnce(0, drops[1])
                second == PutOnce(Rewind(0, first), drops[2])
                third == PutOnce(Rewind(0, second), drops[3])
            IN  CASE first.ok -> first [] second.ok -> second [] OTHER -> third
        results == {Tries(drops) : drops \in [1 .. 3 -> 0 .. Chunks]}
                     \cup {PutOnce(0, drop) : drop \in 0 .. Chunks}
    IN  {[file |-> r.file, ok |-> r.ok] : r \in results}

PutOutcomes(k) ==
    CASE k \in {"process", "pool"} -> ProcessPut
      [] k = "containerd" -> ContainerdPut
      [] k = "kubernetes" -> KubernetesPut
      [] k = "vm" -> VMPut

-----------------------------------------------------------------------------
(* Exec, when its context ends under the command: what of the tree can live *)
(* on when Exec returns.                                                    *)

\* Mutant: the signal goes to the started process instead of to its group.
TerminateLeader(tree) == {tree \ {"leader"}}

(* terminate: SIGTERM to the group, SIGKILL once the grace is over.         *)
ProcessTerminate(tree) == {tree \ Group}

(* terminateGroup in the guest; a guest that does not answer is given up    *)
(* after cancelGrace, with its tree still there.                            *)
GuestTerminate(tree) == {tree \ Group, tree}

(* The command is killed and killTree sweeps by the marker at the same      *)
(* time.  Either may fail, and the sweep reads /proc once: what it misses   *)
(* of a tree that forks behind it is here as a sweep that found nothing.    *)
ContainerdTerminate(tree) == {{}, tree \ {"leader"}, tree}

(* The stream is dropped, which the pod never hears of; then killTree, one  *)
(* sweep that may fail.                                                     *)
KubernetesTerminate(tree) == {{}, tree \ {"leader"}, tree}

Terminated(k, tree) ==
    CASE k \in {"process", "pool"} -> ProcessTerminate(tree)
      [] k = "containerd" -> ContainerdTerminate(tree)
      [] k = "kubernetes" -> KubernetesTerminate(tree)
      [] k = "vm" -> GuestTerminate(tree)

(* What Exec can answer for a command that was ended.  The code the leader  *)
(* left, 0 when it trapped SIGTERM; the drain of its output may fail.       *)
ProcessExit == {"ok", "nonzero", "error"}

(* The exec process was killed: its code, or no answer from containerd.     *)
ContainerdExit == {"ok", "nonzero", "error"}

(* The stream was dropped with the command still there, or its code came    *)
(* just ahead of the drop.                                                  *)
KubernetesExit == {"ok", "nonzero", "error"}

(* A context that ended is an error whatever frame came last.               *)
VMExit == {"error"}

EndedExit(k) ==
    CASE k \in {"process", "pool"} -> ProcessExit
      [] k = "containerd" -> ContainerdExit
      [] k = "kubernetes" -> KubernetesExit
      [] k = "vm" -> VMExit

(* podGone, a lost guest, a stream that breaks: Exec fails under a command  *)
(* nobody ended.  The pod or the guest is gone with its processes.          *)
CanVanish(k) == k \in {"kubernetes", "vm"}

-----------------------------------------------------------------------------
(* Release, by backend: the processes that live on once it has succeeded.   *)

(* Only the directory is removed.                                           *)
ProcessRelease(procs) == procs

(* The whole cgroup is killed, then task, container and snapshot deleted.   *)
ContainerdRelease(procs) == {}

(* The pod is deleted with no grace period.                                 *)
KubernetesRelease(procs) == {}

(* The hypervisor is stopped.                                               *)
VMRelease(procs) == {}

Outliving(k, procs) ==
    CASE k \in {"process", "pool"} -> ProcessRelease(procs)
      [] k = "containerd" -> ContainerdRelease(procs)
      [] k = "kubernetes" -> KubernetesRelease(procs)
      [] k = "vm" -> VMRelease(procs)

(* A release that fails is not tried again: released is already set, and    *)
(* the error is dropped.  The sandbox stays.                                *)
CanLeak(k) == k \in {"containerd", "kubernetes"}

-----------------------------------------------------------------------------
(* The pool's Manager: live counts what it is responsible for, idle lists   *)
(* the sandboxes not leased, least recently returned first.                 *)

EmptyPool == [live |-> 0, idle |-> <<>>, closed |-> FALSE]

(* KeyFor: the tenant first, then what the sandbox is.                      *)
KeyFor(d) == TenantOf[d]

Matching(p, box, d) == {i \in DOMAIN p.idle : box[p.idle[i]].tenant = KeyFor(d)}

(* claimIdleLocked: the most recently returned sandbox of the key.          *)
Claimed(p, box, d) == p.idle[Max(Matching(p, box, d))]
AfterClaim(p, box, d) == [p EXCEPT !.idle = RemoveAt(@, Max(Matching(p, box, d)))]

(* evictOneIdleLocked: the least recently used, across all keys.            *)
AfterEvict(p) == [p EXCEPT !.idle = Tail(@), !.live = @ - 1]

\* Mutant: the slot is taken only once the sandbox has been made.
ReserveNothing(p) == p

(* The slot is reserved before the lock is dropped: making one is slow.     *)
Reserve(p) == [p EXCEPT !.live = @ + 1]

(* put: torn down when the sandbox is broken or the pool closed, else idle  *)
(* and the warmest.                                                         *)
TornDown(p, broken) == broken \/ p.closed
AfterPut(p, b, broken) ==
    IF TornDown(p, broken) THEN [p EXCEPT !.live = @ - 1] ELSE [p EXCEPT !.idle = Append(@, b)]

(* Reap: every sandbox idle for long enough, the oldest n.                  *)
AfterReap(p, n) == [p EXCEPT !.idle = SubSeq(@, n + 1, Len(@)), !.live = @ - n]

(* Close: nothing idle is kept, and nothing will be.                        *)
AfterClose(p) == [AfterReap(p, Len(p.idle)) EXCEPT !.closed = TRUE]

=============================================================================
