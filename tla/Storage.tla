------------------------------- MODULE Storage -------------------------------
(***************************************************************************)
(* One tenant's content-addressed store and everything that decides what   *)
(* stays in it: the reference index and the collector (cas.GC), the files  *)
(* definitions carry (cas.DefinitionFiles, checkDefinitionFiles), the step *)
(* cache with the runs it serves (cache.Cache, serveFromCache,             *)
(* recordCacheEntry), and the quota gate in front of the store with the    *)
(* ledger it charges and the collector credits (tenancy.GuardCAS,          *)
(* Reclaimer).                                                             *)
(*                                                                         *)
(* On SQLite a transaction of the collector holds the write lock from its  *)
(* first statement to its commit, and the handle has one connection, so    *)
(* every other statement waits for it (WriteLock); on PostgreSQL nothing   *)
(* waits. The blobs are outside of the database, and are deleted before    *)
(* the transaction commits. A run has one step. What the step writes is a  *)
(* function of the work it does and of the environment it ran in, so       *)
(* <<work, environment>> also stands for the digest of those bytes. A blob *)
(* has the size 1.                                                         *)
(***************************************************************************)
EXTENDS Integers, FiniteSets, Functions

CONSTANTS
    Works,          \* [plugin, inputs, pure]: what a step runs, on what, with which class
    Envs,           \* the environment identities engines report
    Runs,           \* runs
    WorksOf,        \* run -> the works its step may be
    Editors,        \* callers of PutDefinitionFile and ApplyOperation
    Files,          \* the digests an editor may upload
    LongPauses,     \* whether a run or an edit may pause for the retain window
    DrainedRollout, \* whether an engine leaves only after its reports are applied
    WriteLock,      \* whether the collector's transaction excludes every other statement
    MaxCASBytes,    \* the tenant's quota
    NoEnv,          \* what TierEnvironmentIdentity answers when there is no identity
    None,           \* no digest
    MaxUploads,     \* bound: uploads
    MaxFaults       \* bound: failed deletions, crashes, refused claims

Digests == Works \X Envs

ASSUME StorageAssumption ==
    /\ WorksOf \in [Runs -> SUBSET Works]
    /\ Files \subseteq Digests /\ IsFiniteSet(Files)
    /\ Runs # {} /\ IsFiniteSet(Runs) /\ IsFiniteSet(Editors) /\ Runs \cap Editors = {}
    /\ NoEnv \notin Envs /\ None \notin Digests
    /\ LongPauses \in BOOLEAN /\ DrainedRollout \in BOOLEAN /\ WriteLock \in BOOLEAN
    /\ MaxCASBytes \in Nat \ {0}
    /\ MaxUploads \in Nat /\ MaxFaults \in Nat

VARIABLES
    blobs,          \* the digests whose bytes are stored
    refs,           \* blob_refs: <<digest, run>>
    row,            \* definition_blobs: digest -> "none", "young" or "old"
    carried,        \* the digests some revision carries as a file
    entries,        \* cache_entries: key -> digest, or None
    fleet,          \* the environments of the registered engines
    run,            \* run -> where its step is and what its log says
    editor,         \* editor -> where it is, with which file
    gate,           \* writer -> where its Put is in the quota gate, and the number it holds
    ledger,         \* usage_records: the digests charged, and the digests credited
    sweep,          \* the collector
    uploads, faults, \* how many have happened
    publisher       \* history: digest -> who made its bytes visible

db == <<refs, row, carried, entries>>
meter == <<gate, ledger>>
vars == <<blobs, db, fleet, run, editor, meter, sweep, uploads, faults, publisher>>

Writers == Runs \cup Editors

------------------------------------------------------------------------------
(* Cache keys. *)

\* The inputs are sorted before they are hashed: which port each arrived on is
\* forgotten, how often each arrived is not.
Sorted(inputs) ==
    [c \in Range(inputs) |-> Cardinality({p \in DOMAIN inputs : inputs[p] = c})]

Key(w, env) == [plugin |-> w.plugin, env |-> env, inputs |-> Sorted(w.inputs)]

Keys == {Key(w, env) : w \in Works, env \in Envs}

\* What every engine of the tier agrees on.
TierEnvironmentIdentity ==
    IF \E e \in Envs : fleet = {e} THEN CHOOSE e \in Envs : fleet = {e} ELSE NoEnv

\* A registry that cannot be read is a cold cache, not a wrong one.
tierIdentity(readable) == IF readable THEN TierEnvironmentIdentity ELSE NoEnv

\* Mutant: the effect class does not matter.
EligibleAnyClass(w, env) == env # NoEnv

Eligible(w, env) == w.pure /\ env # NoEnv

\* May the step be cached, and under what key: from one reading of the identity.
cacheKey(w, env) == IF Eligible(w, env) THEN Key(w, env) ELSE None

\* cache.Lookup: no key, or no row, is a miss.
CacheLookup(key) == IF key = None THEN None ELSE entries[key]

\* cache.Record: the row of the key is written or refreshed.
CacheRecord(key, d) == entries' = IF key = None THEN entries ELSE [entries EXCEPT ![key] = d]

------------------------------------------------------------------------------
NewRun(w) ==
    [work |-> w, pc |-> "ready", last |-> "recent", at |-> NoEnv, hit |-> None, output |-> None]
IdleEditor == [pc |-> "idle", file |-> None]
IdleSweep ==
    [pc |-> "idle", listed |-> {}, expired |-> {}, doomed |-> {}, gone |-> {}, freed |-> {}]
Outside == [at |-> "outside", n |-> 0]

TypeOK ==
    /\ blobs \subseteq Digests
    /\ refs \subseteq Digests \X Runs
    /\ row \in [Files -> {"none", "young", "old"}]
    /\ carried \subseteq Files
    /\ entries \in [Keys -> Digests \cup {None}]
    /\ fleet \in (SUBSET Envs) \ {{}}
    /\ run \in [Runs -> [work : Works,
                         pc : {"ready", "pin", "serve", "execute", "running", "stored", "entry", "done"},
                         last : {"recent", "old"}, at : Envs \cup {NoEnv},
                         hit : Digests \cup {None}, output : Digests \cup {None}]]
    /\ \A r \in Runs : run[r].pc \in {"pin", "serve"} => run[r].hit \in Digests
    /\ editor \in [Editors -> [pc : {"idle", "put", "record", "uploaded", "save"}, file : Files \cup {None}]]
    /\ gate \in [Writers -> [at : {"outside", "put", "charge"}, n : Nat]]
    /\ ledger \in [charged : SUBSET Digests, released : SUBSET Digests]
    /\ ledger.released \subseteq ledger.charged
    /\ sweep \in [pc : {"idle", "age", "delete", "credit"}, listed : SUBSET Runs, expired : SUBSET Runs,
                  doomed : SUBSET Digests, gone : SUBSET Digests, freed : SUBSET Digests]
    /\ sweep.gone \subseteq sweep.doomed
    /\ uploads \in Nat /\ faults \in Nat
    /\ publisher \in [Digests -> {"nobody", "engine", "editor"}]

\* An earlier run has left what it wrote in the cache, and earlier uploads, long
\* ago, files that no revision carries, all of it within the quota.
Init ==
    /\ \E w \in Works, e \in Envs, earlier \in SUBSET Files :
          /\ w.pure
          /\ fleet = {e}
          /\ blobs = {<<w, e>>} \cup earlier /\ Cardinality(blobs) <= MaxCASBytes
          /\ row = [f \in Files |-> IF f \in earlier THEN "old" ELSE "none"]
          /\ publisher = [d \in Digests |-> IF d = <<w, e>> THEN "engine"
                                           ELSE IF d \in earlier THEN "editor" ELSE "nobody"]
          /\ entries = [k \in Keys |-> IF k = Key(w, e) THEN <<w, e>> ELSE None]
    /\ refs = {} /\ carried = {}
    /\ \E job \in [Runs -> Works] :
          /\ \A r \in Runs : job[r] \in WorksOf[r]
          /\ run = [r \in Runs |-> NewRun(job[r])]
    /\ editor = [x \in Editors |-> IdleEditor]
    /\ gate = [w \in Writers |-> Outside]
    /\ ledger = [charged |-> blobs, released |-> {}]
    /\ sweep = IdleSweep
    /\ uploads = 0 /\ faults = 0

Fault == faults < MaxFaults /\ faults' = faults + 1

\* No transaction of the collector is in the way of a statement.
Unlocked == WriteLock => sweep.pc # "delete"

\* Store.Has.
Has(d) == d \in blobs

\* Store.Put: bytes already there are not written again.
Put(d, who) ==
    /\ blobs' = blobs \cup {d}
    /\ publisher' = IF Has(d) THEN publisher ELSE [publisher EXCEPT ![d] = who]

\* Store.Delete.
Delete(d) == blobs' = blobs \ {d}

Goto(r, place) == run' = [run EXCEPT ![r].pc = place]

------------------------------------------------------------------------------
(* A run's step: from the cache, or by an engine. *)

\* serveFromCache, up to the answer of the cache. Only a reachable registry says
\* which environment the key is for.
Lookup(r, readable) ==
    LET env == tierIdentity(readable)
        outputs == CacheLookup(cacheKey(run[r].work, env)) IN
    /\ run[r].pc = "ready" /\ Unlocked
    /\ IF readable THEN UNCHANGED faults ELSE Fault
    /\ run' = IF outputs # None
              THEN [run EXCEPT ![r].pc = "pin", ![r].at = env, ![r].hit = outputs]
              ELSE [run EXCEPT ![r].pc = "execute", ![r].at = NoEnv, ![r].hit = None]
    /\ UNCHANGED <<blobs, db, fleet, editor, sweep, uploads, publisher, meter>>

\* Reference: the bytes are looked for inside the transaction that records the
\* row. Without them the step is run for real.
Reference(r) ==
    LET d == run[r].hit IN
    /\ run[r].pc = "pin" /\ Unlocked
    /\ IF Has(d)
       THEN refs' = refs \cup {<<d, r>>} /\ Goto(r, "serve")
       ELSE /\ run' = [run EXCEPT ![r].pc = "execute", ![r].at = NoEnv, ![r].hit = None]
            /\ UNCHANGED refs
    /\ UNCHANGED <<blobs, row, carried, entries, fleet, editor, sweep, uploads, faults, publisher, meter>>

\* recordCacheHit: the history of a dispatch and of its success, in one
\* transaction. It writes nothing when the attempt is somebody else's or the
\* plane dies, and the next advance begins again.
RecordHit(r) ==
    /\ run[r].pc = "serve" /\ Unlocked
    /\ \/ /\ run' = [run EXCEPT ![r].pc = "done", ![r].last = "recent", ![r].output = run[r].hit]
          /\ UNCHANGED faults
       \/ /\ Fault
          /\ run' = [run EXCEPT ![r].pc = "ready", ![r].at = NoEnv, ![r].hit = None]
    /\ UNCHANGED <<blobs, db, fleet, editor, sweep, uploads, publisher, meter>>

\* The step is dispatched and an engine takes it, in the environment it has.
Execute(r, e) ==
    /\ run[r].pc = "execute" /\ Unlocked
    /\ e \in fleet
    /\ run' = [run EXCEPT ![r].pc = "running", ![r].last = "recent", ![r].at = e]
    /\ UNCHANGED <<blobs, db, fleet, editor, sweep, uploads, faults, publisher, meter>>

\* OnStatus appends the success.
Report(r) ==
    /\ run[r].pc = "stored" /\ Unlocked
    /\ run' = [run EXCEPT ![r].pc = "entry", ![r].last = "recent",
                          ![r].output = <<run[r].work, run[r].at>>]
    /\ UNCHANGED <<blobs, db, fleet, editor, sweep, uploads, faults, publisher, meter>>

\* recordCacheEntry: the key is computed again, from the fleet as it is now. A
\* plane that dies before it records nothing, since the step is already done.
RecordEntry(r) ==
    /\ run[r].pc = "entry" /\ Unlocked
    /\ \/ /\ CacheRecord(cacheKey(run[r].work, tierIdentity(TRUE)), run[r].output)
          /\ UNCHANGED faults
       \/ Fault /\ UNCHANGED entries
    /\ Goto(r, "done")
    /\ UNCHANGED <<blobs, refs, row, carried, fleet, editor, sweep, uploads, publisher, meter>>

------------------------------------------------------------------------------
(* The quota gate: an engine stores what a step wrote, an editor a file. *)

DigestOf(w) == IF w \in Runs THEN <<run[w].work, run[w].at>> ELSE editor[w].file

\* The engine has collected an output, or the upload has arrived.
CanWrite(w) == IF w \in Runs THEN run[w].pc = "running" ELSE editor[w].pc = "put"

\* The Put failed: the engine reports the step failed, and it is tried again or
\* is over; the caller of PutDefinitionFile is told.
PutFails(w) ==
    /\ gate' = [gate EXCEPT ![w] = Outside]
    /\ IF w \in Runs
       THEN /\ \E pc \in {"ready", "done"} : run' = [run EXCEPT ![w] = [NewRun(run[w].work) EXCEPT !.pc = pc]]
            /\ UNCHANGED editor
       ELSE editor' = [editor EXCEPT ![w] = IdleEditor] /\ UNCHANGED run

\* CASBytes: what was charged less what was released. Its two queries are read as
\* one, so the total is never negative here.
CASBytes == Cardinality(ledger.charged) - Cardinality(ledger.released)

\* AdmitCASBytes for zero bytes: what is left is the limit of the reader.
AdmitCASBytes(w) ==
    LET used == CASBytes IN
    /\ CanWrite(w) /\ gate[w].at = "outside" /\ Unlocked
    /\ IF used > MaxCASBytes THEN PutFails(w)
       ELSE /\ gate' = [gate EXCEPT ![w] = [at |-> "put", n |-> MaxCASBytes - used]]
            /\ UNCHANGED <<run, editor>>
    /\ UNCHANGED <<blobs, db, fleet, ledger, sweep, uploads, faults, publisher>>

\* quotaReader: the blob is read up to the limit, and published only when all of
\* it could be.
PutBlob(w) ==
    /\ gate[w].at = "put"
    /\ IF gate[w].n < 1 THEN PutFails(w) /\ UNCHANGED <<blobs, publisher>>
       ELSE /\ Put(DigestOf(w), IF w \in Runs THEN "engine" ELSE "editor")
            /\ gate' = [gate EXCEPT ![w].at = "charge"]
            /\ UNCHANGED <<run, editor>>
    /\ UNCHANGED <<db, fleet, ledger, sweep, uploads, faults>>

\* RecordUsage: a digest is charged once and for all. When the row cannot be
\* written the Put fails, with the bytes stored.
Charge(w) ==
    /\ gate[w].at = "charge" /\ Unlocked
    /\ \/ /\ ledger' = [ledger EXCEPT !.charged = @ \cup {DigestOf(w)}]
          /\ gate' = [gate EXCEPT ![w] = Outside]
          /\ IF w \in Runs THEN Goto(w, "stored") /\ UNCHANGED editor
             ELSE editor' = [editor EXCEPT ![w].pc = "record"] /\ UNCHANGED run
          /\ UNCHANGED <<publisher, faults>>
       \/ /\ Fault
          /\ PutFails(w)
          /\ publisher' = [publisher EXCEPT ![DigestOf(w)] = "nobody"]
          /\ UNCHANGED ledger
    /\ UNCHANGED <<blobs, db, fleet, sweep, uploads>>

------------------------------------------------------------------------------
(* The files a definition carries. *)

\* PutDefinitionFile stores the bytes first, through the gate.
PutFile(x, d) ==
    /\ editor[x].pc = "idle" /\ uploads < MaxUploads
    /\ editor' = [editor EXCEPT ![x] = [pc |-> "put", file |-> d]]
    /\ uploads' = uploads + 1
    /\ UNCHANGED <<blobs, db, fleet, run, meter, sweep, faults, publisher>>

\* record: the row, with the time refreshed. When it fails the caller is told
\* that the upload failed, and the bytes are nobody's.
RecordFile(x) ==
    LET f == editor[x].file IN
    /\ editor[x].pc = "record" /\ Unlocked
    /\ \/ /\ row' = [row EXCEPT ![f] = "young"]
          /\ editor' = [editor EXCEPT ![x].pc = "uploaded"]
          /\ UNCHANGED <<publisher, faults>>
       \/ /\ Fault
          /\ publisher' = [publisher EXCEPT ![f] = "nobody"]
          /\ editor' = [editor EXCEPT ![x] = IdleEditor]
          /\ UNCHANGED row
    /\ UNCHANGED <<blobs, refs, carried, entries, fleet, run, sweep, uploads, meter>>

\* checkDefinitionFiles: an edit naming bytes that are not stored is refused.
CheckFile(x) ==
    /\ editor[x].pc = "uploaded"
    /\ editor' = IF Has(editor[x].file) THEN [editor EXCEPT ![x].pc = "save"]
                 ELSE [editor EXCEPT ![x] = IdleEditor]
    /\ UNCHANGED <<blobs, db, fleet, run, sweep, uploads, faults, publisher, meter>>

\* The revision is saved. It is immutable: what it carries it carries for ever.
SaveRevision(x) ==
    /\ editor[x].pc = "save" /\ Unlocked
    /\ carried' = carried \cup {editor[x].file}
    /\ editor' = [editor EXCEPT ![x] = IdleEditor]
    /\ UNCHANGED <<blobs, refs, row, entries, fleet, run, sweep, uploads, faults, publisher, meter>>

\* The edit that would have declared the file never comes, or is refused.
AbandonEdit(x) ==
    /\ editor[x].pc \in {"uploaded", "save"}
    /\ editor' = [editor EXCEPT ![x] = IdleEditor]
    /\ UNCHANGED <<blobs, db, fleet, run, sweep, uploads, faults, publisher, meter>>

------------------------------------------------------------------------------
(* Collect. *)

\* expiredRuns, first the runs holding references.
ListRuns ==
    /\ sweep.pc = "idle"
    /\ sweep' = [IdleSweep EXCEPT !.pc = "age", !.listed = {r \in Runs : \E d \in Digests : <<d, r>> \in refs}]
    /\ UNCHANGED <<blobs, db, fleet, run, editor, uploads, faults, publisher, meter>>

\* Then each run's log, one after the other.
AgeOf(r) ==
    /\ sweep.pc = "age" /\ r \in sweep.listed
    /\ sweep' = [sweep EXCEPT !.listed = @ \ {r},
                              !.expired = IF run[r].last = "old" THEN @ \cup {r} ELSE @]
    /\ UNCHANGED <<blobs, db, fleet, run, editor, uploads, faults, publisher, meter>>

\* Mutant: one expired reference is enough.
UnpinnedByOne(expired) ==
    {d \in Digests : /\ \E r \in expired : <<d, r>> \in refs
                     /\ d \notin carried}

\* unpinnedDigests: the blobs of either table that no retained run references,
\* no recent upload vouches for and no revision carries.
Unpinned(expired) ==
    {d \in Digests : /\ \/ \E r \in Runs : <<d, r>> \in refs
                        \/ d \in Files /\ row[d] # "none"
                     /\ \A r \in Runs : <<d, r>> \in refs => r \in expired
                     /\ d \in Files => row[d] # "young"
                     /\ d \notin carried}

\* The transaction begins, and the candidates are judged under its lock.
BeginCollect ==
    /\ sweep.pc = "age" /\ sweep.listed = {}
    /\ sweep' = [sweep EXCEPT !.pc = "delete", !.doomed = Unpinned(sweep.expired)]
    /\ UNCHANGED <<blobs, db, fleet, run, editor, uploads, faults, publisher, meter>>

\* One blob is deleted, or was gone already.
DeleteBlob(d) ==
    /\ sweep.pc = "delete" /\ d \in sweep.doomed \ sweep.gone
    /\ Delete(d)
    /\ sweep' = [sweep EXCEPT !.gone = @ \cup {d}, !.freed = IF Has(d) THEN @ \cup {d} ELSE @]
    /\ UNCHANGED <<db, fleet, run, editor, uploads, faults, publisher, meter>>

\* The cache entries that name a candidate, whether its bytes go or not.
dropCacheEntries(doomed) ==
    entries' = [k \in Keys |-> IF entries[k] \in doomed THEN None ELSE entries[k]]

\* After a failed deletion nothing is credited.
AfterCommit(all) ==
    IF all /\ sweep.freed # {} THEN [IdleSweep EXCEPT !.pc = "credit", !.freed = sweep.freed] ELSE IdleSweep

\* Mutant: the rows of every candidate are dropped, deleted or not.
CommitDropsAll(all) ==
    /\ sweep.pc = "delete"
    /\ IF all THEN sweep.gone = sweep.doomed /\ UNCHANGED faults
       ELSE sweep.gone # sweep.doomed /\ Fault
    /\ refs' = {x \in refs : x[2] \notin sweep.expired}
    /\ dropCacheEntries(sweep.doomed)
    /\ row' = [f \in Files |-> IF f \in sweep.doomed THEN "none" ELSE row[f]]
    /\ sweep' = AfterCommit(all)
    /\ UNCHANGED <<blobs, carried, fleet, run, editor, uploads, publisher, meter>>

\* The commit, after the last blob or after a deletion failed: the references
\* of the expired runs, the cache entries of every candidate, and the rows of
\* the blobs that are gone.
Commit(all) ==
    /\ sweep.pc = "delete"
    /\ IF all THEN sweep.gone = sweep.doomed /\ UNCHANGED faults
       ELSE sweep.gone # sweep.doomed /\ Fault
    /\ refs' = {x \in refs : x[2] \notin sweep.expired}
    /\ dropCacheEntries(sweep.doomed)
    /\ row' = [f \in Files |-> IF f \in sweep.gone THEN "none" ELSE row[f]]
    /\ sweep' = AfterCommit(all)
    /\ UNCHANGED <<blobs, carried, fleet, run, editor, uploads, publisher, meter>>

\* Collected: after the commit, the bytes this sweep deleted are credited with
\* what was charged for them. An error, or a crash, leaves the rest uncredited.
Credit(d) ==
    /\ sweep.pc = "credit" /\ d \in sweep.freed
    /\ \/ /\ ledger' = [ledger EXCEPT !.released = @ \cup ({d} \cap ledger.charged)]
          /\ sweep' = IF sweep.freed = {d} THEN IdleSweep ELSE [sweep EXCEPT !.freed = @ \ {d}]
          /\ UNCHANGED faults
       \/ Fault /\ sweep' = IdleSweep /\ UNCHANGED ledger
    /\ UNCHANGED <<blobs, db, fleet, run, editor, gate, uploads, publisher>>

\* The plane dies inside the transaction: every row is back, no blob is.
Rollback ==
    /\ sweep.pc = "delete"
    /\ Fault
    /\ sweep' = IdleSweep
    /\ UNCHANGED <<blobs, db, fleet, run, editor, uploads, publisher, meter>>

------------------------------------------------------------------------------
(* Time, and the fleet. *)

\* The retain window passes since a run's last event. A run that is not over
\* can only be that silent with LongPauses.
RunAges(r) ==
    /\ run[r].last = "recent"
    /\ LongPauses \/ run[r].pc = "done"
    /\ run' = [run EXCEPT ![r].last = "old"]
    /\ UNCHANGED <<blobs, db, fleet, editor, sweep, uploads, faults, publisher, meter>>

\* The retain window passes since an upload.
FileAges(f) ==
    /\ row[f] = "young"
    /\ LongPauses \/ \A x \in Editors : editor[x].file = f => editor[x].pc \in {"idle", "record"}
    /\ row' = [row EXCEPT ![f] = "old"]
    /\ UNCHANGED <<blobs, refs, carried, entries, fleet, run, editor, sweep, uploads, faults, publisher, meter>>

EngineJoins(e) ==
    /\ e \notin fleet
    /\ fleet' = fleet \cup {e}
    /\ UNCHANGED <<blobs, db, run, editor, sweep, uploads, faults, publisher, meter>>

\* The last engine with this environment leaves.
EngineLeaves(e) ==
    /\ e \in fleet /\ fleet # {e}
    /\ DrainedRollout => \A r \in Runs : run[r].pc \in {"running", "stored", "entry"} => run[r].at # e
    /\ fleet' = fleet \ {e}
    /\ UNCHANGED <<blobs, db, run, editor, sweep, uploads, faults, publisher, meter>>

------------------------------------------------------------------------------
RunStep(r) ==
    \/ \E readable \in BOOLEAN : Lookup(r, readable)
    \/ Reference(r) \/ RecordHit(r)
    \/ \E e \in fleet : Execute(r, e)
    \/ Report(r) \/ RecordEntry(r)

GateStep(w) == AdmitCASBytes(w) \/ PutBlob(w) \/ Charge(w)

EditorStep(x) == RecordFile(x) \/ CheckFile(x) \/ SaveRevision(x) \/ AbandonEdit(x)

SweepStep ==
    \/ ListRuns \/ BeginCollect
    \/ \E r \in Runs : AgeOf(r)
    \/ \E d \in Digests : DeleteBlob(d)
    \/ \E all \in BOOLEAN : Commit(all)
    \/ \E d \in Digests : Credit(d)

Next ==
    \/ \E r \in Runs : RunStep(r) \/ RunAges(r)
    \/ \E x \in Editors : EditorStep(x) \/ \E f \in Files : PutFile(x, f)
    \/ \E w \in Writers : GateStep(w)
    \/ SweepStep \/ Rollback
    \/ \E f \in Files : FileAges(f)
    \/ \E e \in Envs : EngineJoins(e) \/ EngineLeaves(e)

Spec == Init /\ [][Next]_vars

------------------------------------------------------------------------------
(* Properties. *)

(***************************************************************************)
(* A step served from the cache got the bytes that running it, in the      *)
(* environment it was keyed on, would have written: not another work's     *)
(* outputs, not those of an effectful step, not those of an environment    *)
(* the fleet has left. Lookup and record compute the key at different      *)
(* times from a fleet that changes (cacheKey, cache.Key, Eligible).        *)
(***************************************************************************)
ServedItsOwnWork ==
    \A r \in Runs : run[r].hit # None => run[r].hit = <<run[r].work, run[r].at>>

(***************************************************************************)
(* A run that succeeded from the cache can read its outputs for as long as *)
(* it is retained, whatever the collector was doing when it was served:    *)
(* Reference finds the bytes and pins them, or the step is run.            *)
(***************************************************************************)
HitsReadable ==
    \A r \in Runs :
        (run[r].pc = "done" /\ run[r].hit # None /\ run[r].last = "recent") => run[r].output \in blobs

(***************************************************************************)
(* Every revision ever saved can read the files it carries, although the   *)
(* upload, the check and the save are separate calls and a sweep may run   *)
(* between any two of them (checkDefinitionFiles, definitionCandidates).   *)
(***************************************************************************)
FilesReadable == carried \subseteq blobs

(***************************************************************************)
(* What the log and the revisions name can be read: neither a hit nor a    *)
(* file is swept from under what carries it.                               *)
(***************************************************************************)
NamedIsReadable == HitsReadable /\ FilesReadable

(***************************************************************************)
(* An uploaded file is never lost to the collector: while its bytes are    *)
(* stored there is a row that makes them a candidate, or the upload is     *)
(* about to write it. A row dropped beside bytes that are still there is   *)
(* the leak migration 0025 was written against.                            *)
(***************************************************************************)
NoLeakedUpload ==
    \A f \in Files :
        (f \in blobs /\ publisher[f] = "editor") =>
            \/ row[f] # "none"
            \/ \E x \in Editors : editor[x].file = f /\ (editor[x].pc = "record" \/ gate[x].at = "charge")

(***************************************************************************)
(* Bytes that a caller was given the digest of have been charged for, and  *)
(* the total the quota is applied to passes the limit only by the blobs of *)
(* the writers that read it before any of them was charged (casGate.Put,   *)
(* AdmitCASBytes): the cap slips, it does not fail open.                   *)
(***************************************************************************)
Metered ==
    /\ \A d \in blobs : \/ d \in ledger.charged
                        \/ publisher[d] = "nobody"
                        \/ \E w \in Writers : gate[w].at = "charge" /\ DigestOf(w) = d
    /\ Cardinality(ledger.charged \ ledger.released) < MaxCASBytes + Cardinality(Writers)

(***************************************************************************)
(* What is stored is accounted for, to the collector and to the tenant's   *)
(* ledger.                                                                 *)
(***************************************************************************)
StoredIsAccounted == NoLeakedUpload /\ Metered

(***************************************************************************)
(* Bytes the tenant holds count against its quota. Not so: a digest is     *)
(* charged once and credited once, ever, so bytes stored again after they  *)
(* were collected are free (RecordUsage, Reclaimer.Collected).             *)
(***************************************************************************)
HeldIsCounted == \A d \in blobs : d \notin ledger.released \/ publisher[d] = "nobody"

(***************************************************************************)
(* Bytes that are gone are not charged for once the sweep that deleted     *)
(* them is over. Not so: a sweep that rolls back, or fails between the     *)
(* commit and the credit, leaves them charged, and the next one finds them *)
(* gone and credits nothing (Collect).                                     *)
(***************************************************************************)
GoneIsCredited == sweep.pc = "idle" => ledger.charged \ blobs \subseteq ledger.released
==============================================================================
