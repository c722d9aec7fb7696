---------------------------- MODULE StorageProofs ----------------------------
(***************************************************************************)
(* Proofs about a tenant's store, for any works, environments, runs,       *)
(* editors and files, any quota and any number of faults: a hit of the     *)
(* cache is the step's own work (ServedItsOwnWork), what the log and the   *)
(* revisions name can be read (NamedIsReadable), and what is stored is     *)
(* known to the collector and to the ledger (StoredIsAccounted).           *)
(***************************************************************************)
EXTENDS Storage, TLAPS, FiniteSetTheorems

------------------------------------------------------------------------------
(* The inductive invariant.                                                 *)

\* What a run and an editor have in hand at each of their places.
PlaceInv ==
    /\ \A r \in Runs :
          /\ run[r].pc \in {"running", "stored", "entry"} =>
                run[r].at \in Envs /\ (DrainedRollout => run[r].at \in fleet)
          /\ run[r].pc = "entry" => run[r].output = <<run[r].work, run[r].at>>
          /\ run[r].pc \notin {"pin", "serve", "done"} => run[r].hit = None
          /\ run[r].pc = "done" /\ run[r].hit # None => run[r].output = run[r].hit
    /\ \A x \in Editors : editor[x].pc # "idle" => editor[x].file \in Files
    /\ \A w \in Writers : gate[w].at # "outside" => CanWrite(w)
    /\ sweep.pc = "age" => sweep.gone = {}

\* No two works that may be cached differ only in the order of their inputs.
KeysTellApart ==
    \A v, w \in Works :
        v.pure /\ w.pure /\ v.plugin = w.plugin /\ Sorted(v.inputs) = Sorted(w.inputs) => v = w

\* The entry of a key is what the work of that key writes.
EntriesInv ==
    \A w \in Works, e \in Envs :
        w.pure /\ entries[Key(w, e)] # None => entries[Key(w, e)] = <<w, e>>

\* The writers that were let in while there was room.
Admitted == {w \in Writers : gate[w].at # "outside" /\ gate[w].n > 0}

Counted == ledger.charged \ ledger.released

MeterInv ==
    /\ \A d \in blobs : \/ d \in ledger.charged
                        \/ publisher[d] = "nobody"
                        \/ \E w \in Writers : gate[w].at = "charge" /\ DigestOf(w) = d
    /\ \A w \in Writers : gate[w].at = "charge" => gate[w].n > 0
    /\ IsFiniteSet(ledger.charged)
    /\ \/ Cardinality(Counted) < MaxCASBytes
       \/ Cardinality(Counted) + Cardinality(Admitted) < MaxCASBytes + Cardinality(Writers)

\* An upload of f has stored its bytes and not yet written its row.
Landing(f) ==
    \E x \in Editors : editor[x].file = f /\ (editor[x].pc = "record" \/ gate[x].at = "charge")

LeakInv ==
    /\ NoLeakedUpload
    /\ sweep.pc = "delete" =>
          \A f \in Files : f \in sweep.gone /\ f \in blobs /\ publisher[f] = "editor" => Landing(f)

\* What the collector has decided stays decided while it holds the lock.
SweepInv ==
    /\ \A r \in sweep.expired : run[r].pc = "done" /\ run[r].last = "old"
    /\ sweep.pc = "delete" =>
          \A d \in sweep.doomed :
              /\ d \notin carried
              /\ \A r \in Runs : <<d, r>> \in refs => r \in sweep.expired
              /\ d \in Files => row[d] # "young"

\* What a run is served, an edit declares and a revision carries is pinned and there.
PinnedInv ==
    /\ \A r \in Runs : run[r].pc # "done" => run[r].last = "recent"
    /\ \A r \in Runs :
          (run[r].pc = "serve" \/ (run[r].pc = "done" /\ run[r].hit # None)) /\ run[r].last = "recent" =>
              <<run[r].hit, r>> \in refs /\ run[r].hit \in blobs
    /\ \A x \in Editors :
          /\ editor[x].pc \in {"uploaded", "save"} => row[editor[x].file] = "young"
          /\ editor[x].pc = "save" => editor[x].file \in blobs
    /\ carried \subseteq blobs

IInv ==
    /\ TypeOK /\ PlaceInv /\ MeterInv
    /\ DrainedRollout /\ KeysTellApart => EntriesInv /\ ServedItsOwnWork
    /\ WriteLock => LeakInv
    /\ WriteLock /\ ~LongPauses => SweepInv /\ PinnedInv

------------------------------------------------------------------------------
(* What each action does.                                                   *)

RunRecord == [work : Works,
              pc : {"ready", "pin", "serve", "execute", "running", "stored", "entry", "done"},
              last : {"recent", "old"}, at : Envs \cup {NoEnv},
              hit : Digests \cup {None}, output : Digests \cup {None}]
EditorRecord == [pc : {"idle", "put", "record", "uploaded", "save"}, file : Files \cup {None}]
GateRecord == [at : {"outside", "put", "charge"}, n : Nat]
SweepRecord == [pc : {"idle", "age", "delete", "credit"}, listed : SUBSET Runs, expired : SUBSET Runs,
                doomed : SUBSET Digests, gone : SUBSET Digests, freed : SUBSET Digests]

\* One run, one editor, one writer moves.
Moves(r, n) == n \in RunRecord /\ run' = [run EXCEPT ![r] = n] /\ n.work = run[r].work
Edits(x, n) == n \in EditorRecord /\ editor' = [editor EXCEPT ![x] = n]
Passes(w, n) == n \in GateRecord /\ gate' = [gate EXCEPT ![w] = n]

\* The step is to be tried again, run for real, or is over without an output.
Reset(n) == n.at = NoEnv /\ n.hit = None

(* An identity is the one environment of the fleet.                         *)
LEMMA Identity ==
    ASSUME TypeOK, NEW readable \in BOOLEAN
    PROVE  /\ tierIdentity(readable) \in Envs \cup {NoEnv}
           /\ tierIdentity(readable) # NoEnv => fleet = {tierIdentity(readable)}
<1>1. TierEnvironmentIdentity \in Envs \cup {NoEnv}
      /\ (TierEnvironmentIdentity # NoEnv => fleet = {TierEnvironmentIdentity})
  BY DEF TierEnvironmentIdentity
<1> QED BY <1>1 DEF tierIdentity

(* What the cache answers: nothing, or the entry of the step's own key.     *)
LEMMA Answers ==
    ASSUME TypeOK, NEW w \in Works, NEW env \in Envs \cup {NoEnv}
    PROVE  \/ CacheLookup(cacheKey(w, env)) = None
           \/ /\ w.pure /\ env \in Envs
              /\ CacheLookup(cacheKey(w, env)) = entries[Key(w, env)]
              /\ entries[Key(w, env)] \in Digests
<1>1. CASE w.pure /\ env # NoEnv /\ Key(w, env) # None
  <2>1. Key(w, env) \in Keys
    BY <1>1 DEF Keys
  <2>2. entries[Key(w, env)] \in Digests \cup {None}
    BY <2>1 DEF TypeOK
  <2>3. CacheLookup(cacheKey(w, env)) = entries[Key(w, env)]
    BY <1>1 DEF CacheLookup, cacheKey, Eligible
  <2> QED BY <1>1, <2>2, <2>3
<1>2. CASE ~(w.pure /\ env # NoEnv /\ Key(w, env) # None)
  BY <1>2 DEF CacheLookup, cacheKey, Eligible
<1> QED BY <1>1, <1>2

(* Lookup: a hit is the entry of the step's key in the one environment.     *)
LEMMA LookupFx ==
    ASSUME TypeOK, NEW r \in Runs, NEW readable \in BOOLEAN, Lookup(r, readable)
    PROVE  /\ \E n \in RunRecord :
                 /\ Moves(r, n) /\ run[r].pc = "ready"
                 /\ n.last = run[r].last /\ n.output = run[r].output
                 /\ \/ /\ n.pc = "pin" /\ run[r].work.pure /\ n.at \in Envs
                       /\ n.hit \in Digests /\ n.hit = entries[Key(run[r].work, n.at)]
                    \/ n.pc = "execute" /\ Reset(n)
           /\ UNCHANGED <<blobs, refs, row, carried, entries, fleet, editor, gate, ledger, sweep,
                          uploads, publisher>>
           /\ faults' \in Nat
<1>1. PICK env \in Envs \cup {NoEnv} : env = tierIdentity(readable)
  BY Identity
<1>2. PICK outputs : outputs = CacheLookup(cacheKey(run[r].work, env))
  OBVIOUS
<1>3. run[r].work \in Works /\ run[r] \in RunRecord
  BY DEF TypeOK, RunRecord
<1>4. \/ outputs = None
      \/ run[r].work.pure /\ env \in Envs /\ outputs = entries[Key(run[r].work, env)] /\ outputs \in Digests
  BY <1>2, <1>3, Answers
<1>5. run' = IF outputs # None
              THEN [run EXCEPT ![r].pc = "pin", ![r].at = env, ![r].hit = outputs]
              ELSE [run EXCEPT ![r].pc = "execute", ![r].at = NoEnv, ![r].hit = None]
  BY <1>1, <1>2 DEF Lookup
<1>9. /\ UNCHANGED <<blobs, refs, row, carried, entries, fleet, editor, gate, ledger, sweep,
                     uploads, publisher>>
      /\ faults' \in Nat /\ run[r].pc = "ready"
  <2>1. faults \in Nat
    BY DEF TypeOK
  <2> QED BY <2>1 DEF Lookup, db, meter, Fault
<1>6. CASE outputs # None
  <2>1. PICK n : n = [run[r] EXCEPT !.pc = "pin", !.at = env, !.hit = outputs]
    OBVIOUS
  <2>2. n \in RunRecord /\ n.pc = "pin" /\ n.at = env /\ n.hit = outputs /\ n.work = run[r].work
        /\ n.last = run[r].last /\ n.output = run[r].output
    BY <1>3, <1>4, <1>6, <2>1 DEF RunRecord
  <2>3. run' = [run EXCEPT ![r] = n]
    BY <1>5, <1>6, <2>1 DEF TypeOK
  <2> QED BY <1>4, <1>6, <1>9, <2>2, <2>3 DEF Moves
<1>7. CASE outputs = None
  <2>1. PICK n : n = [run[r] EXCEPT !.pc = "execute", !.at = NoEnv, !.hit = None]
    OBVIOUS
  <2>2. n \in RunRecord /\ n.pc = "execute" /\ Reset(n) /\ n.work = run[r].work
        /\ n.last = run[r].last /\ n.output = run[r].output
    BY <1>3, <2>1 DEF RunRecord, Reset
  <2>3. run' = [run EXCEPT ![r] = n]
    BY <1>5, <1>7, <2>1 DEF TypeOK
  <2> QED BY <1>9, <2>2, <2>3 DEF Moves
<1> QED BY <1>6, <1>7

(* Reference: what is there is pinned; what is not, is run.                 *)
LEMMA ReferenceFx ==
    ASSUME TypeOK, NEW r \in Runs, Reference(r)
    PROVE  /\ \E n \in RunRecord :
                 /\ Moves(r, n) /\ run[r].pc = "pin" /\ Unlocked
                 /\ n.last = run[r].last /\ n.output = run[r].output
                 /\ \/ /\ n.pc = "serve" /\ n.at = run[r].at /\ n.hit = run[r].hit
                       /\ n.hit \in blobs /\ refs' = refs \cup {<<n.hit, r>>}
                    \/ n.pc = "execute" /\ Reset(n) /\ refs' = refs
           /\ UNCHANGED <<blobs, row, carried, entries, fleet, editor, gate, ledger, sweep,
                          uploads, faults, publisher>>
<1>1. run[r] \in RunRecord
  BY DEF TypeOK, RunRecord
<1>2. CASE Has(run[r].hit)
  <2>1. PICK n : n = [run[r] EXCEPT !.pc = "serve"]
    OBVIOUS
  <2>2. n \in RunRecord /\ n.pc = "serve" /\ n.at = run[r].at /\ n.hit = run[r].hit
        /\ n.work = run[r].work /\ n.last = run[r].last /\ n.output = run[r].output
    BY <1>1, <2>1 DEF RunRecord
  <2>3. run' = [run EXCEPT ![r] = n]
    BY <1>2, <2>1 DEF TypeOK, Reference, Goto
  <2> QED BY <1>2, <2>2, <2>3 DEF Reference, Moves, Has, meter
<1>3. CASE ~Has(run[r].hit)
  <2>1. PICK n : n = [run[r] EXCEPT !.pc = "execute", !.at = NoEnv, !.hit = None]
    OBVIOUS
  <2>2. n \in RunRecord /\ n.pc = "execute" /\ Reset(n) /\ n.work = run[r].work
        /\ n.last = run[r].last /\ n.output = run[r].output
    BY <1>1, <2>1 DEF RunRecord, Reset
  <2>3. run' = [run EXCEPT ![r] = n]
    BY <1>3, <2>1 DEF TypeOK, Reference
  <2> QED BY <1>3, <2>2, <2>3 DEF Reference, Moves, meter
<1> QED BY <1>2, <1>3

(* RecordHit: the run is over with what it was served, or begins again.     *)
LEMMA RecordHitFx ==
    ASSUME TypeOK, NEW r \in Runs, RecordHit(r)
    PROVE  /\ \E n \in RunRecord :
                 /\ Moves(r, n) /\ run[r].pc = "serve"
                 /\ \/ /\ n.pc = "done" /\ n.at = run[r].at /\ n.hit = run[r].hit
                       /\ n.output = n.hit /\ n.last = "recent"
                    \/ n.pc = "ready" /\ Reset(n) /\ n.last = run[r].last
           /\ UNCHANGED <<blobs, refs, row, carried, entries, fleet, editor, gate, ledger, sweep,
                          uploads, publisher>>
           /\ faults' \in Nat
<1>1. run[r] \in RunRecord
  BY DEF TypeOK, RunRecord
<1>4. /\ UNCHANGED <<blobs, refs, row, carried, entries, fleet, editor, gate, ledger, sweep,
                     uploads, publisher>>
      /\ faults' \in Nat /\ run[r].pc = "serve"
  <2>1. faults \in Nat
    BY DEF TypeOK
  <2> QED BY <2>1 DEF RecordHit, db, meter, Fault
<1>2. CASE run' = [run EXCEPT ![r].pc = "done", ![r].last = "recent", ![r].output = run[r].hit]
           /\ UNCHANGED faults
  <2>1. PICK n : n = [run[r] EXCEPT !.pc = "done", !.last = "recent", !.output = run[r].hit]
    OBVIOUS
  <2>2. n \in RunRecord /\ n.pc = "done" /\ n.at = run[r].at /\ n.hit = run[r].hit
        /\ n.work = run[r].work /\ n.last = "recent" /\ n.output = run[r].hit
    BY <1>1, <2>1 DEF RunRecord
  <2>3. run' = [run EXCEPT ![r] = n]
    BY <1>2, <2>1 DEF TypeOK
  <2> QED BY <1>4, <2>2, <2>3 DEF Moves
<1>3. CASE Fault /\ run' = [run EXCEPT ![r].pc = "ready", ![r].at = NoEnv, ![r].hit = None]
  <2>1. PICK n : n = [run[r] EXCEPT !.pc = "ready", !.at = NoEnv, !.hit = None]
    OBVIOUS
  <2>2. n \in RunRecord /\ n.pc = "ready" /\ Reset(n) /\ n.work = run[r].work
        /\ n.last = run[r].last
    BY <1>1, <2>1 DEF RunRecord, Reset
  <2>3. run' = [run EXCEPT ![r] = n]
    BY <1>3, <2>1 DEF TypeOK
  <2> QED BY <1>4, <2>2, <2>3 DEF Moves
<1> QED BY <1>2, <1>3 DEF RecordHit

LEMMA ExecuteFx ==
    ASSUME TypeOK, NEW r \in Runs, NEW e \in fleet, Execute(r, e)
    PROVE  /\ \E n \in RunRecord :
                 /\ Moves(r, n) /\ run[r].pc = "execute"
                 /\ n.pc = "running" /\ n.at = e /\ e \in Envs /\ n.last = "recent"
                 /\ n.hit = run[r].hit
           /\ UNCHANGED <<blobs, refs, row, carried, entries, fleet, editor, gate, ledger, sweep,
                          uploads, faults, publisher>>
<1>1. run[r] \in RunRecord /\ e \in Envs
  BY DEF TypeOK, RunRecord
<1>2. PICK n : n = [run[r] EXCEPT !.pc = "running", !.last = "recent", !.at = e]
  OBVIOUS
<1>3. n \in RunRecord /\ n.pc = "running" /\ n.at = e /\ n.last = "recent" /\ n.hit = run[r].hit
      /\ n.work = run[r].work
  BY <1>1, <1>2 DEF RunRecord
<1>4. run' = [run EXCEPT ![r] = n]
  BY <1>2 DEF TypeOK, Execute
<1> QED BY <1>1, <1>3, <1>4 DEF Execute, Moves, db, meter

LEMMA ReportFx ==
    ASSUME TypeOK, PlaceInv, NEW r \in Runs, Report(r)
    PROVE  /\ \E n \in RunRecord :
                 /\ Moves(r, n) /\ run[r].pc = "stored"
                 /\ n.pc = "entry" /\ n.at = run[r].at /\ n.last = "recent" /\ n.hit = run[r].hit
                 /\ n.output = <<n.work, n.at>>
           /\ UNCHANGED <<blobs, refs, row, carried, entries, fleet, editor, gate, ledger, sweep,
                          uploads, faults, publisher>>
<1>1. run[r] \in RunRecord /\ run[r].at \in Envs
  BY DEF TypeOK, RunRecord, PlaceInv, Report
<1>2. PICK n : n = [run[r] EXCEPT !.pc = "entry", !.last = "recent", !.output = <<run[r].work, run[r].at>>]
  OBVIOUS
<1>3. n \in RunRecord /\ n.pc = "entry" /\ n.at = run[r].at /\ n.last = "recent" /\ n.hit = run[r].hit
      /\ n.work = run[r].work /\ n.output = <<run[r].work, run[r].at>>
  BY <1>1, <1>2 DEF RunRecord, Digests
<1>4. run' = [run EXCEPT ![r] = n]
  BY <1>2 DEF TypeOK, Report
<1> QED BY <1>3, <1>4 DEF Report, Moves, db, meter

(* RecordEntry: the entry of the key is what the run wrote where it ran.    *)
LEMMA RecordEntryFx ==
    ASSUME TypeOK, PlaceInv, NEW r \in Runs, RecordEntry(r)
    PROVE  /\ \E n \in RunRecord :
                 /\ Moves(r, n) /\ run[r].pc = "entry" /\ Unlocked
                 /\ n.pc = "done" /\ n.at = run[r].at /\ n.last = run[r].last /\ n.hit = run[r].hit
                 /\ n.output = run[r].output
           /\ \/ entries' = entries
              \/ \E e \in Envs : /\ fleet = {e} /\ run[r].work.pure
                                 /\ entries' = [entries EXCEPT ![Key(run[r].work, e)] = <<run[r].work, run[r].at>>]
           /\ entries' \in [Keys -> Digests \cup {None}]
           /\ UNCHANGED <<blobs, refs, row, carried, fleet, editor, gate, ledger, sweep,
                          uploads, publisher>>
           /\ faults' \in Nat
<1>1. run[r] \in RunRecord /\ run[r].at \in Envs /\ run[r].output = <<run[r].work, run[r].at>>
  BY DEF TypeOK, RunRecord, PlaceInv, RecordEntry
<1>2. PICK n : n = [run[r] EXCEPT !.pc = "done"]
  OBVIOUS
<1>3. n \in RunRecord /\ n.pc = "done" /\ n.at = run[r].at /\ n.last = run[r].last
      /\ n.hit = run[r].hit /\ n.work = run[r].work /\ n.output = run[r].output
  BY <1>1, <1>2 DEF RunRecord
<1>4. run' = [run EXCEPT ![r] = n]
  BY <1>2 DEF TypeOK, RecordEntry, Goto
<1>5. PICK env \in Envs \cup {NoEnv} : env = tierIdentity(TRUE) /\ (env # NoEnv => fleet = {env})
  BY Identity
<1>6. \/ entries' = entries
      \/ /\ env \in Envs /\ run[r].work.pure
         /\ entries' = [entries EXCEPT ![Key(run[r].work, env)] = <<run[r].work, run[r].at>>]
  BY <1>1, <1>5 DEF RecordEntry, CacheRecord, cacheKey, Eligible
<1>7. entries' \in [Keys -> Digests \cup {None}]
  <2>1. <<run[r].work, run[r].at>> \in Digests
    BY <1>1 DEF RunRecord, Digests
  <2> QED BY <1>6, <2>1 DEF TypeOK
<1>8. UNCHANGED <<blobs, refs, row, carried, fleet, editor, gate, ledger, sweep, uploads, publisher>>
      /\ faults' \in Nat /\ run[r].pc = "entry" /\ Unlocked
  <2>1. faults \in Nat
    BY DEF TypeOK
  <2>2. faults' = faults \/ faults' = faults + 1
    BY DEF RecordEntry, Fault
  <2>3. faults' \in Nat
    BY <2>1, <2>2
  <2> QED BY <2>3 DEF RecordEntry, meter
<1>9. env \in Envs => fleet = {env}
  BY <1>5, StorageAssumption
<1> QED BY <1>3, <1>4, <1>6, <1>7, <1>8, <1>9 DEF Moves

(* What counts against the quota is what was charged and not released.      *)
LEMMA Used ==
    ASSUME TypeOK, MeterInv
    PROVE  /\ CASBytes = Cardinality(Counted) /\ Cardinality(Counted) \in Nat
           /\ IsFiniteSet(Counted)
<1>1. IsFiniteSet(ledger.charged) /\ ledger.released \in SUBSET ledger.charged
  BY DEF MeterInv, TypeOK
<1>2. ledger.charged \cap ledger.released = ledger.released
  BY <1>1
<1>3. IsFiniteSet(Counted)
      /\ Cardinality(Counted) = Cardinality(ledger.charged) - Cardinality(ledger.released)
  BY <1>1, <1>2, FS_Difference DEF Counted
<1>4. Cardinality(Counted) \in Nat
  BY <1>3, FS_CardinalityType
<1> QED BY <1>3, <1>4 DEF CASBytes

\* The writer is out of the gate, and its run or its editor with it.
Failed(w) ==
    /\ Passes(w, Outside)
    /\ \/ /\ w \in Runs /\ editor' = editor
          /\ \E n \in RunRecord : /\ Moves(w, n) /\ n.pc \in {"ready", "done"} /\ Reset(n)
                                  /\ n.last = "recent"
       \/ w \in Editors /\ w \notin Runs /\ Edits(w, IdleEditor) /\ run' = run

LEMMA PutFailsFx ==
    ASSUME TypeOK, NEW w \in Writers, PutFails(w)
    PROVE  Failed(w)
<1>1. Outside \in GateRecord /\ IdleEditor \in EditorRecord
  BY DEF Outside, IdleEditor, GateRecord, EditorRecord
<1>2. CASE w \in Runs
  <2>1. PICK pc \in {"ready", "done"} : run' = [run EXCEPT ![w] = [NewRun(run[w].work) EXCEPT !.pc = pc]]
    BY <1>2 DEF PutFails
  <2>2. run[w].work \in Works
    BY <1>2 DEF TypeOK
  <2>3. PICK n : n = [NewRun(run[w].work) EXCEPT !.pc = pc]
    OBVIOUS
  <2>4. n \in RunRecord /\ n.pc \in {"ready", "done"} /\ Reset(n) /\ n.last = "recent"
        /\ n.work = run[w].work
    BY <2>1, <2>2, <2>3 DEF NewRun, RunRecord, Reset
  <2>5. run' = [run EXCEPT ![w] = n]
    BY <2>1, <2>3
  <2> QED BY <1>1, <1>2, <2>4, <2>5 DEF PutFails, Failed, Passes, Moves
<1>3. CASE w \notin Runs
  BY <1>1, <1>3 DEF PutFails, Failed, Passes, Edits, Writers
<1> QED BY <1>2, <1>3

(* AdmitCASBytes: what is left of the quota is the limit of the reader.     *)
LEMMA AdmitFx ==
    ASSUME TypeOK, MeterInv, NEW w \in Writers, AdmitCASBytes(w)
    PROVE  /\ CanWrite(w) /\ gate[w].at = "outside"
           /\ \/ Failed(w)
              \/ /\ UNCHANGED <<run, editor>>
                 /\ \E n \in GateRecord : /\ Passes(w, n) /\ n.at = "put"
                                          /\ n.n > 0 => Cardinality(Counted) < MaxCASBytes
           /\ UNCHANGED <<blobs, refs, row, carried, entries, fleet, ledger, sweep, uploads, faults,
                          publisher>>
<1>1. PICK used \in Nat : used = CASBytes /\ used = Cardinality(Counted)
  BY Used
<1>2. /\ CanWrite(w) /\ gate[w].at = "outside"
      /\ UNCHANGED <<blobs, refs, row, carried, entries, fleet, ledger, sweep, uploads, faults,
                          publisher>>
  BY DEF AdmitCASBytes, db
<1>3. CASE used > MaxCASBytes
  BY <1>1, <1>2, <1>3, PutFailsFx DEF AdmitCASBytes
<1>4. CASE ~(used > MaxCASBytes)
  <2>1. PICK n : n = [at |-> "put", n |-> MaxCASBytes - used]
    OBVIOUS
  <2>2. n \in GateRecord /\ n.at = "put" /\ n.n = MaxCASBytes - used
    BY <1>1, <1>4, <2>1, StorageAssumption DEF GateRecord
  <2>3. gate' = [gate EXCEPT ![w] = n] /\ UNCHANGED <<run, editor>>
    BY <1>1, <1>4, <2>1 DEF AdmitCASBytes
  <2>4. n.n > 0 => Cardinality(Counted) < MaxCASBytes
    BY <1>1, <2>2, StorageAssumption
  <2> QED BY <1>2, <2>2, <2>3, <2>4 DEF Passes
<1> QED BY <1>3, <1>4

(* The digest a writer is storing.                                          *)
LEMMA WritersDigest ==
    ASSUME TypeOK, PlaceInv, NEW w \in Writers, gate[w].at # "outside"
    PROVE  DigestOf(w) \in Digests /\ (w \notin Runs => DigestOf(w) \in Files /\ w \in Editors)
<1>1. CanWrite(w)
  BY DEF PlaceInv
<1>2. CASE w \in Runs
  <2>1. run[w].work \in Works /\ run[w].at \in Envs
    BY <1>1, <1>2 DEF PlaceInv, CanWrite, TypeOK
  <2> QED BY <1>2, <2>1 DEF DigestOf, Digests
<1>3. CASE w \notin Runs
  BY <1>1, <1>3, StorageAssumption DEF DigestOf, Writers, CanWrite, PlaceInv
<1> QED BY <1>2, <1>3

LEMMA PutBlobFx ==
    ASSUME TypeOK, PlaceInv, NEW w \in Writers, PutBlob(w)
    PROVE  /\ gate[w].at = "put"
           /\ \/ Failed(w) /\ UNCHANGED <<blobs, publisher>>
              \/ /\ UNCHANGED <<run, editor>>
                 /\ \E n \in GateRecord : Passes(w, n) /\ n.at = "charge" /\ n.n = gate[w].n /\ n.n > 0
                 /\ blobs' = blobs \cup {DigestOf(w)}
                 /\ publisher' \in [Digests -> {"nobody", "engine", "editor"}]
                 /\ \A d \in Digests : \/ publisher'[d] = publisher[d] /\ (d \in blobs \/ d # DigestOf(w))
                                       \/ d = DigestOf(w) /\ publisher'[d] = "engine"
                                       \/ d = DigestOf(w) /\ publisher'[d] = "editor" /\ w \notin Runs
           /\ UNCHANGED <<refs, row, carried, entries, fleet, ledger, sweep, uploads, faults>>
<1>1. /\ gate[w].at = "put"
      /\ UNCHANGED <<refs, row, carried, entries, fleet, ledger, sweep, uploads, faults>>
  BY DEF PutBlob, db
<1>2. CASE gate[w].n < 1
  BY <1>1, <1>2, PutFailsFx DEF PutBlob
<1>3. CASE ~(gate[w].n < 1)
  <2>1. PICK n : n = [gate[w] EXCEPT !.at = "charge"]
    OBVIOUS
  <2>2. gate[w] \in GateRecord
    BY DEF TypeOK, GateRecord
  <2>3. n \in GateRecord /\ n.at = "charge" /\ n.n = gate[w].n /\ n.n > 0
    BY <1>3, <2>1, <2>2 DEF GateRecord
  <2>4. gate' = [gate EXCEPT ![w] = n] /\ UNCHANGED <<run, editor>>
    BY <1>3, <2>1 DEF PutBlob, TypeOK
  <2>5. PICK d : d = DigestOf(w)
    OBVIOUS
  <2>6. d \in Digests
    BY <1>1, <2>5, WritersDigest
  <2>7. /\ blobs' = blobs \cup {d}
        /\ publisher' = IF d \in blobs THEN publisher
                        ELSE [publisher EXCEPT ![d] = IF w \in Runs THEN "engine" ELSE "editor"]
    BY <1>3, <2>5 DEF PutBlob, Put, Has
  <2>8. /\ publisher' \in [Digests -> {"nobody", "engine", "editor"}]
        /\ \A c \in Digests : \/ publisher'[c] = publisher[c] /\ (c \in blobs \/ c # d)
                              \/ c = d /\ publisher'[c] = "engine"
                              \/ c = d /\ publisher'[c] = "editor" /\ w \notin Runs
    BY <2>6, <2>7 DEF TypeOK
  <2> QED BY <1>1, <2>3, <2>4, <2>5, <2>7, <2>8 DEF Passes
<1> QED BY <1>2, <1>3

\* The charge is written, and the writer goes on.
Stored(w) ==
    /\ Passes(w, Outside)
    /\ \/ /\ w \in Runs /\ editor' = editor
          /\ \E n \in RunRecord : /\ Moves(w, n) /\ n.pc = "stored" /\ n.at = run[w].at
                                  /\ n.hit = run[w].hit /\ n.last = run[w].last
       \/ /\ w \in Editors /\ w \notin Runs /\ run' = run
          /\ \E n \in EditorRecord : Edits(w, n) /\ n.pc = "record" /\ n.file = editor[w].file

LEMMA ChargeFx ==
    ASSUME TypeOK, PlaceInv, NEW w \in Writers, Charge(w)
    PROVE  /\ gate[w].at = "charge" /\ Unlocked
           /\ \/ /\ Stored(w) /\ UNCHANGED publisher
                 /\ ledger'.charged = ledger.charged \cup {DigestOf(w)}
                 /\ ledger'.released = ledger.released
              \/ /\ Failed(w) /\ UNCHANGED ledger
                 /\ publisher' = [publisher EXCEPT ![DigestOf(w)] = "nobody"]
           /\ ledger' \in [charged : SUBSET Digests, released : SUBSET Digests]
           /\ UNCHANGED <<blobs, refs, row, carried, entries, fleet, sweep, uploads>>
           /\ faults' \in Nat
<1>1. /\ gate[w].at = "charge" /\ Unlocked
      /\ UNCHANGED <<blobs, refs, row, carried, entries, fleet, sweep, uploads>>
  BY DEF Charge, db
<1>2. faults' \in Nat
  <2>1. faults \in Nat
    BY DEF TypeOK
  <2> QED BY <2>1 DEF Charge, Fault
<1>3. PICK d \in Digests : d = DigestOf(w)
  BY <1>1, WritersDigest
<1>4. ledger \in [charged : SUBSET Digests, released : SUBSET Digests]
  BY DEF TypeOK
<1>5. CASE /\ ledger' = [ledger EXCEPT !.charged = @ \cup {d}]
           /\ gate' = [gate EXCEPT ![w] = Outside]
           /\ IF w \in Runs THEN Goto(w, "stored") /\ UNCHANGED editor
              ELSE editor' = [editor EXCEPT ![w].pc = "record"] /\ UNCHANGED run
           /\ UNCHANGED <<publisher, faults>>
  <2>1. /\ ledger'.charged = ledger.charged \cup {d} /\ ledger'.released = ledger.released
        /\ ledger' \in [charged : SUBSET Digests, released : SUBSET Digests]
    BY <1>4, <1>5
  <2>2. Passes(w, Outside)
    BY <1>5 DEF Passes, Outside, GateRecord
  <2>3. CASE w \in Runs
    <3>1. run[w] \in RunRecord
      BY <2>3 DEF TypeOK, RunRecord
    <3>2. PICK n : n = [run[w] EXCEPT !.pc = "stored"]
      OBVIOUS
    <3>3. n \in RunRecord /\ n.pc = "stored" /\ n.at = run[w].at /\ n.hit = run[w].hit
          /\ n.last = run[w].last /\ n.work = run[w].work
      BY <3>1, <3>2 DEF RunRecord
    <3>4. run' = [run EXCEPT ![w] = n]
      BY <1>5, <2>3, <3>2 DEF Goto, TypeOK
    <3> QED BY <1>1, <1>2, <1>3, <1>5, <2>1, <2>2, <2>3, <3>3, <3>4 DEF Stored, Moves
  <2>4. CASE w \notin Runs
    <3>1. w \in Editors /\ editor[w] \in EditorRecord
      BY <2>4 DEF TypeOK, EditorRecord, Writers
    <3>2. PICK n : n = [editor[w] EXCEPT !.pc = "record"]
      OBVIOUS
    <3>3. n \in EditorRecord /\ n.pc = "record" /\ n.file = editor[w].file
      BY <3>1, <3>2 DEF EditorRecord
    <3>4. editor' = [editor EXCEPT ![w] = n]
      BY <1>5, <2>4, <3>2, <3>1 DEF TypeOK
    <3> QED BY <1>1, <1>2, <1>3, <1>5, <2>1, <2>2, <2>4, <3>1, <3>3, <3>4 DEF Stored, Edits
  <2> QED BY <2>3, <2>4
<1>6. CASE /\ PutFails(w) /\ UNCHANGED ledger
           /\ publisher' = [publisher EXCEPT ![d] = "nobody"]
  BY <1>1, <1>2, <1>3, <1>4, <1>6, PutFailsFx
<1> QED BY <1>3, <1>5, <1>6 DEF Charge

(* The editors: an upload, its row, the check and the save.                 *)
LEMMA PutFileFx ==
    ASSUME TypeOK, NEW x \in Editors, NEW f \in Files, PutFile(x, f)
    PROVE  /\ editor[x].pc = "idle"
           /\ \E n \in EditorRecord : Edits(x, n) /\ n.pc = "put" /\ n.file = f
           /\ UNCHANGED <<blobs, refs, row, carried, entries, fleet, run, gate, ledger, sweep, faults,
                          publisher>>
           /\ uploads' \in Nat
<1>1. PICK n : n = [pc |-> "put", file |-> f]
  OBVIOUS
<1>2. n \in EditorRecord /\ n.pc = "put" /\ n.file = f
  BY <1>1 DEF EditorRecord
<1>3. uploads' \in Nat
  BY DEF PutFile, TypeOK
<1> QED BY <1>1, <1>2, <1>3 DEF PutFile, Edits, db, meter

LEMMA RecordFileFx ==
    ASSUME TypeOK, PlaceInv, NEW x \in Editors, RecordFile(x)
    PROVE  /\ editor[x].pc = "record" /\ Unlocked /\ editor[x].file \in Files
           /\ \E n \in EditorRecord :
                 /\ Edits(x, n)
                 /\ \/ /\ n.pc = "uploaded" /\ n.file = editor[x].file
                       /\ row' = [row EXCEPT ![n.file] = "young"] /\ UNCHANGED publisher
                    \/ /\ n.pc = "idle" /\ UNCHANGED row
                       /\ publisher' = [publisher EXCEPT ![editor[x].file] = "nobody"]
           /\ UNCHANGED <<blobs, refs, carried, entries, fleet, run, gate, ledger, sweep, uploads>>
           /\ faults' \in Nat
<1>1. /\ editor[x].pc = "record" /\ Unlocked /\ editor[x].file \in Files
      /\ UNCHANGED <<blobs, refs, carried, entries, fleet, run, gate, ledger, sweep, uploads>>
  BY DEF RecordFile, meter, PlaceInv
<1>2. faults' \in Nat
  <2>1. faults \in Nat
    BY DEF TypeOK
  <2> QED BY <2>1 DEF RecordFile, Fault
<1>3. editor[x] \in EditorRecord
  BY DEF TypeOK, EditorRecord
<1>4. CASE /\ row' = [row EXCEPT ![editor[x].file] = "young"]
           /\ editor' = [editor EXCEPT ![x].pc = "uploaded"]
           /\ UNCHANGED <<publisher, faults>>
  <2>1. PICK n : n = [editor[x] EXCEPT !.pc = "uploaded"]
    OBVIOUS
  <2>2. n \in EditorRecord /\ n.pc = "uploaded" /\ n.file = editor[x].file
    BY <1>3, <2>1 DEF EditorRecord
  <2>3. editor' = [editor EXCEPT ![x] = n]
    BY <1>4, <2>1 DEF TypeOK
  <2> QED BY <1>1, <1>2, <1>4, <2>2, <2>3 DEF Edits
<1>5. CASE /\ publisher' = [publisher EXCEPT ![editor[x].file] = "nobody"]
           /\ editor' = [editor EXCEPT ![x] = IdleEditor]
           /\ UNCHANGED row
  <2>1. IdleEditor \in EditorRecord /\ IdleEditor.pc = "idle"
    BY DEF IdleEditor, EditorRecord
  <2> QED BY <1>1, <1>2, <1>5, <2>1 DEF Edits
<1> QED BY <1>4, <1>5 DEF RecordFile

LEMMA CheckFileFx ==
    ASSUME TypeOK, NEW x \in Editors, CheckFile(x) \/ AbandonEdit(x)
    PROVE  /\ editor[x].pc \in {"uploaded", "save"}
           /\ \E n \in EditorRecord :
                 /\ Edits(x, n)
                 /\ \/ /\ n.pc = "save" /\ n.file = editor[x].file /\ n.file \in blobs
                    \/ n.pc = "idle"
           /\ UNCHANGED <<blobs, refs, row, carried, entries, fleet, run, gate, ledger, sweep, uploads,
                          faults, publisher>>
<1>1. /\ editor[x].pc \in {"uploaded", "save"}
      /\ UNCHANGED <<blobs, refs, row, carried, entries, fleet, run, gate, ledger, sweep, uploads,
                          faults, publisher>>
  BY DEF CheckFile, AbandonEdit, db, meter
<1>2. editor[x] \in EditorRecord
  BY DEF TypeOK, EditorRecord
<1>3. CASE Has(editor[x].file) /\ editor' = [editor EXCEPT ![x].pc = "save"]
  <2>1. PICK n : n = [editor[x] EXCEPT !.pc = "save"]
    OBVIOUS
  <2>2. n \in EditorRecord /\ n.pc = "save" /\ n.file = editor[x].file
    BY <1>2, <2>1 DEF EditorRecord
  <2>3. editor' = [editor EXCEPT ![x] = n]
    BY <1>3, <2>1 DEF TypeOK
  <2> QED BY <1>1, <1>3, <2>2, <2>3 DEF Edits, Has
<1>4. CASE editor' = [editor EXCEPT ![x] = IdleEditor]
  <2>1. IdleEditor \in EditorRecord /\ IdleEditor.pc = "idle"
    BY DEF IdleEditor, EditorRecord
  <2> QED BY <1>1, <1>4, <2>1 DEF Edits
<1> QED BY <1>3, <1>4 DEF CheckFile, AbandonEdit

LEMMA SaveRevisionFx ==
    ASSUME TypeOK, NEW x \in Editors, SaveRevision(x)
    PROVE  /\ editor[x].pc = "save" /\ Unlocked
           /\ \E n \in EditorRecord : Edits(x, n) /\ n.pc = "idle"
           /\ carried' = carried \cup {editor[x].file}
           /\ UNCHANGED <<blobs, refs, row, entries, fleet, run, gate, ledger, sweep, uploads,
                          faults, publisher>>
<1>1. IdleEditor \in EditorRecord /\ IdleEditor.pc = "idle"
  BY DEF IdleEditor, EditorRecord
<1> QED BY <1>1 DEF SaveRevision, Edits, meter

(* The collector.                                                           *)
LEMMA IdleSweepType ==
    /\ IdleSweep \in SweepRecord /\ IdleSweep.pc = "idle" /\ IdleSweep.expired = {}
    /\ IdleSweep.gone = {} /\ IdleSweep.doomed = {} /\ IdleSweep.freed = {} /\ IdleSweep.listed = {}
  BY DEF IdleSweep, SweepRecord

LEMMA ListRunsFx ==
    ASSUME TypeOK, ListRuns
    PROVE  /\ sweep' \in SweepRecord /\ sweep'.pc = "age" /\ sweep'.expired = {}
           /\ sweep'.gone = {} /\ sweep'.doomed = {}
           /\ UNCHANGED <<blobs, refs, row, carried, entries, fleet, run, editor, gate, ledger,
                          uploads, faults, publisher>>
<1>1. PICK held \in SUBSET Runs : held = {r \in Runs : \E d \in Digests : <<d, r>> \in refs}
  OBVIOUS
<1>2. sweep' = [IdleSweep EXCEPT !.pc = "age", !.listed = held]
  BY <1>1 DEF ListRuns
<1>3. sweep' \in SweepRecord /\ sweep'.pc = "age" /\ sweep'.expired = {}
      /\ sweep'.gone = {} /\ sweep'.doomed = {}
  BY <1>2 DEF IdleSweep, SweepRecord
<1> QED BY <1>3 DEF ListRuns, db, meter

LEMMA AgeOfFx ==
    ASSUME TypeOK, NEW r \in Runs, AgeOf(r)
    PROVE  /\ sweep' \in SweepRecord /\ sweep.pc = "age" /\ sweep'.pc = "age"
           /\ \/ sweep'.expired = sweep.expired
              \/ sweep'.expired = sweep.expired \cup {r} /\ run[r].last = "old"
           /\ sweep'.gone = sweep.gone /\ sweep'.doomed = sweep.doomed
           /\ UNCHANGED <<blobs, refs, row, carried, entries, fleet, run, editor, gate, ledger,
                          uploads, faults, publisher>>
<1>1. sweep \in SweepRecord
  BY DEF TypeOK, SweepRecord
<1>2. PICK out \in SUBSET Runs :
          /\ out = IF run[r].last = "old" THEN sweep.expired \cup {r} ELSE sweep.expired
  BY <1>1 DEF SweepRecord
<1>3. sweep' = [sweep EXCEPT !.listed = sweep.listed \ {r}, !.expired = out]
  BY <1>1, <1>2 DEF AgeOf, SweepRecord
<1>4. sweep' \in SweepRecord /\ sweep'.pc = sweep.pc /\ sweep'.expired = out
      /\ sweep'.gone = sweep.gone /\ sweep'.doomed = sweep.doomed
  BY <1>1, <1>3 DEF SweepRecord
<1> QED BY <1>2, <1>4 DEF AgeOf, db, meter

LEMMA BeginCollectFx ==
    ASSUME TypeOK, BeginCollect
    PROVE  /\ sweep' \in SweepRecord /\ sweep.pc = "age" /\ sweep'.pc = "delete"
           /\ sweep'.expired = sweep.expired
           /\ sweep'.gone = sweep.gone /\ sweep'.doomed = Unpinned(sweep.expired)
           /\ UNCHANGED <<blobs, refs, row, carried, entries, fleet, run, editor, gate, ledger,
                          uploads, faults, publisher>>
<1>1. sweep \in SweepRecord
  BY DEF TypeOK, SweepRecord
<1>2. PICK doomed \in SUBSET Digests : doomed = Unpinned(sweep.expired)
  BY DEF Unpinned
<1>3. sweep' = [sweep EXCEPT !.pc = "delete", !.doomed = doomed]
  BY <1>2 DEF BeginCollect
<1>4. sweep' \in SweepRecord /\ sweep'.pc = "delete" /\ sweep'.expired = sweep.expired
      /\ sweep'.gone = sweep.gone /\ sweep'.doomed = doomed
  BY <1>1, <1>3 DEF SweepRecord
<1> QED BY <1>2, <1>4 DEF BeginCollect, db, meter

LEMMA DeleteBlobFx ==
    ASSUME TypeOK, NEW d \in Digests, DeleteBlob(d)
    PROVE  /\ sweep' \in SweepRecord /\ sweep.pc = "delete" /\ sweep'.pc = "delete"
           /\ d \in sweep.doomed /\ blobs' = blobs \ {d}
           /\ sweep'.expired = sweep.expired /\ sweep'.doomed = sweep.doomed
           /\ sweep'.gone = sweep.gone \cup {d}
           /\ UNCHANGED <<refs, row, carried, entries, fleet, run, editor, gate, ledger,
                          uploads, faults, publisher>>
<1>1. sweep \in SweepRecord
  BY DEF TypeOK, SweepRecord
<1>2. PICK freed \in SUBSET Digests : freed = IF Has(d) THEN sweep.freed \cup {d} ELSE sweep.freed
  BY <1>1 DEF SweepRecord
<1>3. sweep' = [sweep EXCEPT !.gone = sweep.gone \cup {d}, !.freed = freed]
  BY <1>1, <1>2 DEF DeleteBlob, SweepRecord
<1>4. sweep' \in SweepRecord /\ sweep'.pc = sweep.pc /\ sweep'.expired = sweep.expired
      /\ sweep'.gone = sweep.gone \cup {d} /\ sweep'.doomed = sweep.doomed
  BY <1>1, <1>3 DEF SweepRecord
<1> QED BY <1>4 DEF DeleteBlob, Delete, db, meter

LEMMA CommitFx ==
    ASSUME TypeOK, NEW all \in BOOLEAN, Commit(all)
    PROVE  /\ sweep' \in SweepRecord /\ sweep.pc = "delete" /\ sweep'.pc # "delete"
           /\ sweep'.expired = {} /\ sweep'.gone = {}
           /\ refs' = {y \in refs : y[2] \notin sweep.expired}
           /\ entries' = [k \in Keys |-> IF entries[k] \in sweep.doomed THEN None ELSE entries[k]]
           /\ row' = [f \in Files |-> IF f \in sweep.gone THEN "none" ELSE row[f]]
           /\ UNCHANGED <<blobs, carried, fleet, run, editor, gate, ledger, uploads, publisher>>
           /\ faults' \in Nat
<1>1. sweep \in SweepRecord /\ sweep.freed \subseteq Digests
  BY DEF TypeOK, SweepRecord
<1>2. AfterCommit(all) \in SweepRecord /\ AfterCommit(all).pc # "delete"
      /\ AfterCommit(all).expired = {} /\ AfterCommit(all).gone = {}
  BY <1>1 DEF AfterCommit, IdleSweep, SweepRecord
<1>3. faults' \in Nat
  <2>1. faults \in Nat
    BY DEF TypeOK
  <2> QED BY <2>1 DEF Commit, Fault
<1> QED BY <1>2, <1>3 DEF Commit, dropCacheEntries, meter

LEMMA CreditFx ==
    ASSUME TypeOK, NEW d \in Digests, Credit(d)
    PROVE  /\ sweep' \in SweepRecord /\ sweep.pc = "credit" /\ sweep'.pc # "delete"
           /\ sweep'.expired \subseteq sweep.expired /\ sweep'.gone \subseteq sweep'.doomed
           /\ ledger' \in [charged : SUBSET Digests, released : SUBSET Digests]
           /\ ledger'.charged = ledger.charged
           /\ ledger.released \subseteq ledger'.released /\ ledger'.released \subseteq ledger'.charged
           /\ UNCHANGED <<blobs, refs, row, carried, entries, fleet, run, editor, gate,
                          uploads, publisher>>
           /\ faults' \in Nat
<1>1. sweep \in SweepRecord /\ sweep.gone \subseteq sweep.doomed
      /\ ledger \in [charged : SUBSET Digests, released : SUBSET Digests]
      /\ ledger.released \subseteq ledger.charged
  BY DEF TypeOK, SweepRecord
<1>2. faults' \in Nat
  <2>1. faults \in Nat
    BY DEF TypeOK
  <2> QED BY <2>1 DEF Credit, Fault
<1>3. PICK less : less = [sweep EXCEPT !.freed = sweep.freed \ {d}]
  OBVIOUS
<1>4. less \in SweepRecord /\ less.pc = sweep.pc /\ less.expired = sweep.expired
      /\ less.gone = sweep.gone /\ less.doomed = sweep.doomed
  BY <1>1, <1>3 DEF SweepRecord
<1>5. sweep' = IdleSweep \/ sweep' = less
  BY <1>3, <1>1 DEF Credit, SweepRecord
<1>6. \/ ledger' = ledger
      \/ ledger' = [ledger EXCEPT !.released = ledger.released \cup ({d} \cap ledger.charged)]
  BY <1>1 DEF Credit
<1>7. /\ ledger' \in [charged : SUBSET Digests, released : SUBSET Digests]
      /\ ledger'.charged = ledger.charged
      /\ ledger.released \subseteq ledger'.released /\ ledger'.released \subseteq ledger'.charged
  BY <1>1, <1>6
<1>8. UNCHANGED <<blobs, refs, row, carried, entries, fleet, run, editor, gate, uploads, publisher>>
      /\ sweep.pc = "credit"
  BY DEF Credit, db
<1> QED BY <1>1, <1>2, <1>4, <1>5, <1>7, <1>8, IdleSweepType

LEMMA RollbackFx ==
    ASSUME TypeOK, Rollback
    PROVE  /\ sweep' = IdleSweep
           /\ UNCHANGED <<blobs, refs, row, carried, entries, fleet, run, editor, gate, ledger,
                          uploads, publisher>>
           /\ faults' \in Nat
  BY DEF Rollback, Fault, db, meter, TypeOK

(* Time, and the fleet.                                                     *)
LEMMA RunAgesFx ==
    ASSUME TypeOK, NEW r \in Runs, RunAges(r)
    PROVE  /\ \E n \in RunRecord :
                 /\ Moves(r, n) /\ n.pc = run[r].pc /\ n.at = run[r].at /\ n.hit = run[r].hit
                 /\ n.output = run[r].output /\ n.last = "old"
                 /\ LongPauses \/ n.pc = "done"
           /\ UNCHANGED <<blobs, refs, row, carried, entries, fleet, editor, gate, ledger, sweep,
                          uploads, faults, publisher>>
<1>1. run[r] \in RunRecord
  BY DEF TypeOK, RunRecord
<1>2. PICK n : n = [run[r] EXCEPT !.last = "old"]
  OBVIOUS
<1>3. n \in RunRecord /\ n.pc = run[r].pc /\ n.at = run[r].at /\ n.hit = run[r].hit
      /\ n.output = run[r].output /\ n.last = "old" /\ n.work = run[r].work
  BY <1>1, <1>2 DEF RunRecord
<1>4. run' = [run EXCEPT ![r] = n]
  BY <1>2 DEF RunAges, TypeOK
<1> QED BY <1>3, <1>4 DEF RunAges, Moves, db, meter

LEMMA FileAgesFx ==
    ASSUME TypeOK, NEW f \in Files, FileAges(f)
    PROVE  /\ row' = [row EXCEPT ![f] = "old"]
           /\ ~LongPauses => \A x \in Editors : editor[x].file = f => editor[x].pc \in {"idle", "record"}
           /\ row[f] = "young"
           /\ UNCHANGED <<blobs, refs, carried, entries, fleet, run, editor, gate, ledger, sweep,
                          uploads, faults, publisher>>
  BY DEF FileAges, meter

LEMMA FleetFx ==
    ASSUME TypeOK, NEW e \in Envs, EngineJoins(e) \/ EngineLeaves(e)
    PROVE  /\ fleet' \in (SUBSET Envs) \ {{}}
           /\ \A r \in Runs :
                 DrainedRollout /\ run[r].pc \in {"running", "stored", "entry"} /\ run[r].at \in fleet
                     => run[r].at \in fleet'
           /\ UNCHANGED <<blobs, refs, row, carried, entries, run, editor, gate, ledger, sweep,
                          uploads, faults, publisher>>
<1>1. fleet' \in (SUBSET Envs) \ {{}}
  BY DEF TypeOK, EngineJoins, EngineLeaves
<1>2. ASSUME NEW r \in Runs, DrainedRollout, run[r].pc \in {"running", "stored", "entry"},
             run[r].at \in fleet
      PROVE  run[r].at \in fleet'
  BY <1>2 DEF EngineJoins, EngineLeaves
<1>3. UNCHANGED <<blobs, refs, row, carried, entries, run, editor, gate, ledger, sweep,
                          uploads, faults, publisher>>
  BY DEF EngineJoins, EngineLeaves, db, meter
<1>4. \A r \in Runs : DrainedRollout /\ run[r].pc \in {"running", "stored", "entry"} /\ run[r].at \in fleet
                       => run[r].at \in fleet'
  BY <1>2
<1> QED BY <1>1, <1>3, <1>4

------------------------------------------------------------------------------
(* The invariant, action by action: first the runs.                         *)

\* What a run may be after it moved.
FitsPlace(n) ==
    /\ n.pc \in {"running", "stored", "entry"} => n.at \in Envs /\ (DrainedRollout => n.at \in fleet)
    /\ n.pc = "entry" => n.output = <<n.work, n.at>>
    /\ n.pc \in {"pin", "serve"} => n.hit \in Digests
    /\ n.pc \notin {"pin", "serve", "done"} => n.hit = None
    /\ n.pc = "done" /\ n.hit # None => n.output = n.hit

(* The ledger is as good as it was when nothing is stored or charged.       *)
LEMMA MeterKept ==
    ASSUME MeterInv, UNCHANGED <<blobs, ledger, publisher, gate>>,
           \A w \in Writers : gate[w].at = "charge" => DigestOf(w)' = DigestOf(w)
    PROVE  MeterInv'
<1>1. Counted' = Counted /\ Admitted' = Admitted
  BY DEF Counted, Admitted
<1> QED BY <1>1 DEF MeterInv

LEMMA RunMoves ==
    ASSUME IInv, NEW r \in Runs, NEW n \in RunRecord, Moves(r, n), FitsPlace(n),
           UNCHANGED <<fleet, editor, gate, blobs, ledger, publisher, sweep>>,
           gate[r].at # "outside" => n.pc = "running" /\ n.at = run[r].at
    PROVE  /\ PlaceInv' /\ MeterInv'
           /\ run' \in [Runs -> RunRecord]
           /\ \A q \in Runs : run'[q].pc \in {"pin", "serve"} => run'[q].hit \in Digests
<1>1. run \in [Runs -> RunRecord] /\ r \in Writers
  BY DEF IInv, TypeOK, RunRecord, Writers
<1>2. run'[r] = n /\ \A q \in Runs : q # r => run'[q] = run[q]
  BY <1>1 DEF Moves
<1>3. run' \in [Runs -> RunRecord]
  BY <1>1 DEF Moves
<1>4. \A q \in Runs : run'[q].pc \in {"pin", "serve"} => run'[q].hit \in Digests
  BY <1>2 DEF FitsPlace, IInv, TypeOK
<1>5. \A w \in Writers : gate[w].at # "outside" => DigestOf(w)' = DigestOf(w) /\ CanWrite(w)'
  <2> TAKE w \in Writers
  <2> HAVE gate[w].at # "outside"
  <2>1. CanWrite(w)
    BY DEF IInv, PlaceInv
  <2>2. CASE w = r
    BY <1>2, <2>2 DEF DigestOf, CanWrite, Moves
  <2>3. CASE w # r /\ w \in Runs
    BY <1>2, <2>1, <2>3 DEF DigestOf, CanWrite
  <2>4. CASE w \notin Runs
    BY <2>1, <2>4 DEF DigestOf, CanWrite
  <2> QED BY <2>2, <2>3, <2>4
<1>6. PlaceInv'
  BY <1>2, <1>5 DEF IInv, PlaceInv, FitsPlace
<1>7. MeterInv'
  BY <1>5, MeterKept DEF IInv
<1> QED BY <1>3, <1>4, <1>6, <1>7

\* Entries, hits and the pins of a run that moved, with nothing else of these changed.
LEMMA LeakKept ==
    ASSUME LeakInv, UNCHANGED <<blobs, publisher, row, editor, gate, sweep>>
    PROVE  LeakInv'
  BY DEF LeakInv, NoLeakedUpload, Landing

LEMMA RunPins ==
    ASSUME IInv, WriteLock /\ ~LongPauses, NEW r \in Runs, NEW n \in RunRecord, Moves(r, n),
           UNCHANGED <<blobs, row, carried, editor, sweep>>,
           \/ refs' = refs
           \/ Unlocked /\ \E d \in Digests : refs' = refs \cup {<<d, r>>},
           run[r].pc = "done" => n.pc = "done" /\ n.last = "old",
           n.pc # "done" => n.last = "recent",
           (n.pc = "serve" \/ (n.pc = "done" /\ n.hit # None)) /\ n.last = "recent" =>
               <<n.hit, r>> \in refs' /\ n.hit \in blobs
    PROVE  SweepInv' /\ PinnedInv'
<1>1. run \in [Runs -> RunRecord]
  BY DEF IInv, TypeOK, RunRecord
<1>2. run'[r] = n /\ \A q \in Runs : q # r => run'[q] = run[q]
  BY <1>1 DEF Moves
<1>3. SweepInv /\ PinnedInv
  BY DEF IInv
<1>4. sweep.expired \subseteq Runs /\ sweep.doomed \subseteq Digests
  BY DEF IInv, TypeOK
<1>5. SweepInv'
  <2>1. \A q \in sweep.expired : run'[q].pc = "done" /\ run'[q].last = "old"
    BY <1>2, <1>3, <1>4 DEF SweepInv
  <2>2. sweep.pc = "delete" => refs' = refs
    BY DEF Unlocked
  <2> QED BY <1>3, <2>1, <2>2 DEF SweepInv
<1>6. PinnedInv'
  <2>1. refs \subseteq refs'
    OBVIOUS
  <2>2. \A q \in Runs : run'[q].pc # "done" => run'[q].last = "recent"
    BY <1>2, <1>3 DEF PinnedInv
  <2>3. \A q \in Runs :
          (run'[q].pc = "serve" \/ (run'[q].pc = "done" /\ run'[q].hit # None)) /\ run'[q].last = "recent"
              => <<run'[q].hit, q>> \in refs' /\ run'[q].hit \in blobs
    BY <1>2, <1>3, <2>1 DEF PinnedInv
  <2> QED BY <1>3, <2>2, <2>3 DEF PinnedInv
<1> QED BY <1>5, <1>6

\* The cache and what was served from it, when a run moves and no entry is written.
LEMMA RunServed ==
    ASSUME IInv, DrainedRollout /\ KeysTellApart, NEW r \in Runs, NEW n \in RunRecord, Moves(r, n),
           UNCHANGED entries,
           n.hit # None => n.hit = <<n.work, n.at>>
    PROVE  EntriesInv' /\ ServedItsOwnWork'
<1>1. run \in [Runs -> RunRecord]
  BY DEF IInv, TypeOK, RunRecord
<1>2. run'[r] = n /\ \A q \in Runs : q # r => run'[q] = run[q]
  BY <1>1 DEF Moves
<1> QED BY <1>2 DEF IInv, EntriesInv, ServedItsOwnWork

LEMMA LookupStep ==
    ASSUME IInv, NEW r \in Runs, NEW readable \in BOOLEAN, Lookup(r, readable)
    PROVE  IInv'
<1>1. TypeOK /\ PlaceInv /\ r \in Writers
  BY DEF IInv, Writers
<1>2. /\ UNCHANGED <<blobs, refs, row, carried, entries, fleet, editor, gate, ledger, sweep,
                     uploads, publisher>>
      /\ faults' \in Nat
  BY <1>1, LookupFx
<1>3. PICK n \in RunRecord :
          /\ Moves(r, n) /\ run[r].pc = "ready"
          /\ n.last = run[r].last /\ n.output = run[r].output
          /\ \/ /\ n.pc = "pin" /\ run[r].work.pure /\ n.at \in Envs
                /\ n.hit \in Digests /\ n.hit = entries[Key(run[r].work, n.at)]
             \/ n.pc = "execute" /\ Reset(n)
  BY <1>1, LookupFx
<1>4. gate[r].at = "outside"
  BY <1>1, <1>3 DEF PlaceInv, CanWrite
<1>5. FitsPlace(n)
  BY <1>3 DEF FitsPlace, Reset
<1>6. PlaceInv' /\ MeterInv' /\ run' \in [Runs -> RunRecord]
      /\ \A q \in Runs : run'[q].pc \in {"pin", "serve"} => run'[q].hit \in Digests
  BY <1>2, <1>3, <1>4, <1>5, RunMoves
<1>7. TypeOK'
  BY <1>1, <1>2, <1>6 DEF TypeOK, RunRecord
<1>8. ASSUME DrainedRollout /\ KeysTellApart PROVE EntriesInv' /\ ServedItsOwnWork'
  <2>1. n.hit # None => n.hit = <<n.work, n.at>>
    <3>1. run[r].work \in Works /\ n.work = run[r].work
      BY <1>1, <1>3 DEF TypeOK, Moves
    <3> QED BY <1>3, <1>8, <3>1, StorageAssumption DEF IInv, EntriesInv, Reset
  <2> QED BY <1>2, <1>3, <1>8, <2>1, RunServed
<1>9. WriteLock => LeakInv'
  BY <1>2, LeakKept DEF IInv
<1>10. ASSUME WriteLock /\ ~LongPauses PROVE SweepInv' /\ PinnedInv'
  <2>1. n.last = "recent"
    BY <1>3, <1>10 DEF IInv, PinnedInv
  <2> QED BY <1>2, <1>3, <1>10, <2>1, RunPins
<1> QED BY <1>6, <1>7, <1>8, <1>9, <1>10 DEF IInv, KeysTellApart

LEMMA ReferenceStep ==
    ASSUME IInv, NEW r \in Runs, Reference(r)
    PROVE  IInv'
<1>1. TypeOK /\ PlaceInv /\ r \in Writers
  BY DEF IInv, Writers
<1>2. UNCHANGED <<blobs, row, carried, entries, fleet, editor, gate, ledger, sweep,
                  uploads, faults, publisher>>
  BY <1>1, ReferenceFx
<1>3. PICK n \in RunRecord :
          /\ Moves(r, n) /\ run[r].pc = "pin" /\ Unlocked
          /\ n.last = run[r].last /\ n.output = run[r].output
          /\ \/ /\ n.pc = "serve" /\ n.at = run[r].at /\ n.hit = run[r].hit
                /\ n.hit \in blobs /\ refs' = refs \cup {<<n.hit, r>>}
             \/ n.pc = "execute" /\ Reset(n) /\ refs' = refs
  BY <1>1, ReferenceFx
<1>4. gate[r].at = "outside" /\ run[r].hit \in Digests
  BY <1>1, <1>3 DEF PlaceInv, CanWrite, TypeOK
<1>5. FitsPlace(n)
  BY <1>3, <1>4 DEF FitsPlace, Reset
<1>6. PlaceInv' /\ MeterInv' /\ run' \in [Runs -> RunRecord]
      /\ \A q \in Runs : run'[q].pc \in {"pin", "serve"} => run'[q].hit \in Digests
  BY <1>2, <1>3, <1>4, <1>5, RunMoves
<1>7. TypeOK'
  <2>1. refs' \subseteq Digests \X Runs
    BY <1>1, <1>3, <1>4 DEF TypeOK
  <2> QED BY <1>1, <1>2, <1>6, <2>1 DEF TypeOK, RunRecord
<1>8. ASSUME DrainedRollout /\ KeysTellApart PROVE EntriesInv' /\ ServedItsOwnWork'
  <2>1. n.hit # None => n.hit = <<n.work, n.at>>
    BY <1>3, <1>8 DEF IInv, ServedItsOwnWork, Reset, Moves
  <2> QED BY <1>2, <1>3, <1>8, <2>1, RunServed
<1>9. WriteLock => LeakInv'
  BY <1>2, LeakKept DEF IInv
<1>10. ASSUME WriteLock /\ ~LongPauses PROVE SweepInv' /\ PinnedInv'
  <2>1. n.last = "recent"
    BY <1>3, <1>10 DEF IInv, PinnedInv
  <2> QED BY <1>2, <1>3, <1>4, <1>10, <2>1, RunPins
<1> QED BY <1>6, <1>7, <1>8, <1>9, <1>10 DEF IInv, KeysTellApart

LEMMA RecordHitStep ==
    ASSUME IInv, NEW r \in Runs, RecordHit(r)
    PROVE  IInv'
<1>1. TypeOK /\ PlaceInv /\ r \in Writers
  BY DEF IInv, Writers
<1>2. /\ UNCHANGED <<blobs, refs, row, carried, entries, fleet, editor, gate, ledger, sweep,
                     uploads, publisher>>
      /\ faults' \in Nat
  BY <1>1, RecordHitFx
<1>3. PICK n \in RunRecord :
          /\ Moves(r, n) /\ run[r].pc = "serve"
          /\ \/ /\ n.pc = "done" /\ n.at = run[r].at /\ n.hit = run[r].hit
                /\ n.output = n.hit /\ n.last = "recent"
             \/ n.pc = "ready" /\ Reset(n) /\ n.last = run[r].last
  BY <1>1, RecordHitFx
<1>4. gate[r].at = "outside" /\ run[r].hit \in Digests
  BY <1>1, <1>3 DEF PlaceInv, CanWrite, TypeOK
<1>5. FitsPlace(n)
  BY <1>3, <1>4 DEF FitsPlace, Reset
<1>6. PlaceInv' /\ MeterInv' /\ run' \in [Runs -> RunRecord]
      /\ \A q \in Runs : run'[q].pc \in {"pin", "serve"} => run'[q].hit \in Digests
  BY <1>2, <1>3, <1>4, <1>5, RunMoves
<1>7. TypeOK'
  BY <1>1, <1>2, <1>6 DEF TypeOK, RunRecord
<1>8. ASSUME DrainedRollout /\ KeysTellApart PROVE EntriesInv' /\ ServedItsOwnWork'
  <2>1. n.hit # None => n.hit = <<n.work, n.at>>
    BY <1>3, <1>8 DEF IInv, ServedItsOwnWork, Reset, Moves
  <2> QED BY <1>2, <1>3, <1>8, <2>1, RunServed
<1>9. WriteLock => LeakInv'
  BY <1>2, LeakKept DEF IInv
<1>10. ASSUME WriteLock /\ ~LongPauses PROVE SweepInv' /\ PinnedInv'
  <2>1. run[r].last = "recent" /\ <<run[r].hit, r>> \in refs /\ run[r].hit \in blobs
    BY <1>3, <1>10 DEF IInv, PinnedInv
  <2> QED BY <1>2, <1>3, <1>10, <2>1, RunPins
<1> QED BY <1>6, <1>7, <1>8, <1>9, <1>10 DEF IInv, KeysTellApart

LEMMA ExecuteStep ==
    ASSUME IInv, NEW r \in Runs, NEW e \in fleet, Execute(r, e)
    PROVE  IInv'
<1>1. TypeOK /\ PlaceInv /\ r \in Writers
  BY DEF IInv, Writers
<1>2. UNCHANGED <<blobs, refs, row, carried, entries, fleet, editor, gate, ledger, sweep,
                  uploads, faults, publisher>>
  BY <1>1, ExecuteFx
<1>3. PICK n \in RunRecord :
          /\ Moves(r, n) /\ run[r].pc = "execute"
          /\ n.pc = "running" /\ n.at = e /\ e \in Envs /\ n.last = "recent"
          /\ n.hit = run[r].hit
  BY <1>1, ExecuteFx
<1>4. gate[r].at = "outside" /\ n.hit = None
  BY <1>1, <1>3 DEF PlaceInv, CanWrite
<1>5. FitsPlace(n)
  BY <1>3, <1>4 DEF FitsPlace
<1>6. PlaceInv' /\ MeterInv' /\ run' \in [Runs -> RunRecord]
      /\ \A q \in Runs : run'[q].pc \in {"pin", "serve"} => run'[q].hit \in Digests
  BY <1>2, <1>3, <1>4, <1>5, RunMoves
<1>7. TypeOK'
  BY <1>1, <1>2, <1>6 DEF TypeOK, RunRecord
<1>8. ASSUME DrainedRollout /\ KeysTellApart PROVE EntriesInv' /\ ServedItsOwnWork'
  BY <1>2, <1>3, <1>4, <1>8, RunServed
<1>9. WriteLock => LeakInv'
  BY <1>2, LeakKept DEF IInv
<1>10. ASSUME WriteLock /\ ~LongPauses PROVE SweepInv' /\ PinnedInv'
  BY <1>2, <1>3, <1>10, RunPins
<1> QED BY <1>6, <1>7, <1>8, <1>9, <1>10 DEF IInv, KeysTellApart

LEMMA ReportStep ==
    ASSUME IInv, NEW r \in Runs, Report(r)
    PROVE  IInv'
<1>1. TypeOK /\ PlaceInv /\ r \in Writers
  BY DEF IInv, Writers
<1>2. UNCHANGED <<blobs, refs, row, carried, entries, fleet, editor, gate, ledger, sweep,
                  uploads, faults, publisher>>
  BY <1>1, ReportFx
<1>3. PICK n \in RunRecord :
          /\ Moves(r, n) /\ run[r].pc = "stored"
          /\ n.pc = "entry" /\ n.at = run[r].at /\ n.last = "recent" /\ n.hit = run[r].hit
          /\ n.output = <<n.work, n.at>>
  BY <1>1, ReportFx
<1>4. gate[r].at = "outside" /\ n.hit = None /\ n.at \in Envs /\ (DrainedRollout => n.at \in fleet)
  BY <1>1, <1>3 DEF PlaceInv, CanWrite
<1>5. FitsPlace(n)
  BY <1>3, <1>4 DEF FitsPlace
<1>6. PlaceInv' /\ MeterInv' /\ run' \in [Runs -> RunRecord]
      /\ \A q \in Runs : run'[q].pc \in {"pin", "serve"} => run'[q].hit \in Digests
  BY <1>2, <1>3, <1>4, <1>5, RunMoves
<1>7. TypeOK'
  BY <1>1, <1>2, <1>6 DEF TypeOK, RunRecord
<1>8. ASSUME DrainedRollout /\ KeysTellApart PROVE EntriesInv' /\ ServedItsOwnWork'
  BY <1>2, <1>3, <1>4, <1>8, RunServed
<1>9. WriteLock => LeakInv'
  BY <1>2, LeakKept DEF IInv
<1>10. ASSUME WriteLock /\ ~LongPauses PROVE SweepInv' /\ PinnedInv'
  BY <1>2, <1>3, <1>10, RunPins
<1> QED BY <1>6, <1>7, <1>8, <1>9, <1>10 DEF IInv, KeysTellApart

(* The key is computed from the fleet as it is now: while the step ran its  *)
(* engine cannot have left, so a fleet of one environment is the one it ran *)
(* in, and the entry of a key is what the work of that key writes.          *)
LEMMA RecordEntryStep ==
    ASSUME IInv, NEW r \in Runs, RecordEntry(r)
    PROVE  IInv'
<1>1. TypeOK /\ PlaceInv /\ r \in Writers
  BY DEF IInv, Writers
<1>2. /\ UNCHANGED <<blobs, refs, row, carried, fleet, editor, gate, ledger, sweep,
                     uploads, publisher>>
      /\ faults' \in Nat /\ entries' \in [Keys -> Digests \cup {None}]
  BY <1>1, RecordEntryFx
<1>3. PICK n \in RunRecord :
          /\ Moves(r, n) /\ run[r].pc = "entry" /\ Unlocked
          /\ n.pc = "done" /\ n.at = run[r].at /\ n.last = run[r].last /\ n.hit = run[r].hit
          /\ n.output = run[r].output
  BY <1>1, RecordEntryFx
<1>4. gate[r].at = "outside" /\ n.hit = None
  BY <1>1, <1>3 DEF PlaceInv, CanWrite
<1>5. FitsPlace(n)
  BY <1>3, <1>4 DEF FitsPlace
<1>6. PlaceInv' /\ MeterInv' /\ run' \in [Runs -> RunRecord]
      /\ \A q \in Runs : run'[q].pc \in {"pin", "serve"} => run'[q].hit \in Digests
  BY <1>2, <1>3, <1>4, <1>5, RunMoves
<1>7. TypeOK'
  BY <1>1, <1>2, <1>6 DEF TypeOK, RunRecord
<1>8. ASSUME DrainedRollout /\ KeysTellApart PROVE EntriesInv' /\ ServedItsOwnWork'
  <2>1. run \in [Runs -> RunRecord]
    BY <1>1 DEF TypeOK, RunRecord
  <2>2. run'[r] = n /\ \A q \in Runs : q # r => run'[q] = run[q]
    BY <1>3, <2>1 DEF Moves
  <2>3. ServedItsOwnWork'
    BY <1>4, <1>8, <2>2 DEF IInv, ServedItsOwnWork
  <2>4. CASE entries' = entries
    BY <1>8, <2>3, <2>4 DEF IInv, EntriesInv
  <2>5. ASSUME NEW e \in Envs, fleet = {e}, run[r].work.pure,
               entries' = [entries EXCEPT ![Key(run[r].work, e)] = <<run[r].work, run[r].at>>]
        PROVE  EntriesInv'
    <3>1. run[r].at = e /\ run[r].work \in Works
      BY <1>1, <1>3, <1>8, <2>5 DEF PlaceInv, TypeOK
    <3>2. ASSUME NEW w \in Works, NEW f \in Envs, w.pure, entries'[Key(w, f)] # None
          PROVE  entries'[Key(w, f)] = <<w, f>>
      <4>1. Key(w, f) \in Keys /\ Key(run[r].work, e) \in Keys
        BY <3>1 DEF Keys
      <4>2. CASE Key(w, f) = Key(run[r].work, e)
        <5>1. w.plugin = run[r].work.plugin /\ f = e /\ Sorted(w.inputs) = Sorted(run[r].work.inputs)
          BY <4>2 DEF Key
        <5>2. w = run[r].work
          BY <1>8, <2>5, <3>1, <3>2, <5>1 DEF KeysTellApart
        <5> QED BY <1>1, <2>5, <3>1, <4>1, <4>2, <5>1, <5>2 DEF TypeOK
      <4>3. CASE Key(w, f) # Key(run[r].work, e)
        <5>1. entries'[Key(w, f)] = entries[Key(w, f)]
          BY <1>1, <2>5, <4>1, <4>3 DEF TypeOK
        <5> QED BY <1>8, <3>2, <5>1 DEF IInv, EntriesInv
      <4> QED BY <4>2, <4>3
    <3> QED BY <3>2 DEF EntriesInv
  <2> QED BY <1>1, <2>3, <2>4, <2>5, RecordEntryFx
<1>9. WriteLock => LeakInv'
  BY <1>2, LeakKept DEF IInv
<1>10. ASSUME WriteLock /\ ~LongPauses PROVE SweepInv' /\ PinnedInv'
  BY <1>2, <1>3, <1>4, <1>10, RunPins
<1> QED BY <1>6, <1>7, <1>8, <1>9, <1>10 DEF IInv, KeysTellApart

LEMMA RunAgesStep ==
    ASSUME IInv, NEW r \in Runs, RunAges(r)
    PROVE  IInv'
<1>1. TypeOK /\ PlaceInv /\ r \in Writers
  BY DEF IInv, Writers
<1>2. UNCHANGED <<blobs, refs, row, carried, entries, fleet, editor, gate, ledger, sweep,
                  uploads, faults, publisher>>
  BY <1>1, RunAgesFx
<1>3. PICK n \in RunRecord :
          /\ Moves(r, n) /\ n.pc = run[r].pc /\ n.at = run[r].at /\ n.hit = run[r].hit
          /\ n.output = run[r].output /\ n.last = "old"
          /\ LongPauses \/ n.pc = "done"
  BY <1>1, RunAgesFx
<1>4. gate[r].at # "outside" => n.pc = "running"
  BY <1>1, <1>3 DEF PlaceInv, CanWrite
<1>5. FitsPlace(n)
  BY <1>1, <1>3 DEF FitsPlace, PlaceInv, TypeOK, Moves
<1>6. PlaceInv' /\ MeterInv' /\ run' \in [Runs -> RunRecord]
      /\ \A q \in Runs : run'[q].pc \in {"pin", "serve"} => run'[q].hit \in Digests
  BY <1>2, <1>3, <1>4, <1>5, RunMoves
<1>7. TypeOK'
  BY <1>1, <1>2, <1>6 DEF TypeOK, RunRecord
<1>8. ASSUME DrainedRollout /\ KeysTellApart PROVE EntriesInv' /\ ServedItsOwnWork'
  <2>1. n.hit # None => n.hit = <<n.work, n.at>>
    BY <1>3, <1>8 DEF IInv, ServedItsOwnWork, Moves
  <2> QED BY <1>2, <1>3, <1>8, <2>1, RunServed
<1>9. WriteLock => LeakInv'
  BY <1>2, LeakKept DEF IInv
<1>10. ASSUME WriteLock /\ ~LongPauses PROVE SweepInv' /\ PinnedInv'
  BY <1>2, <1>3, <1>10, RunPins
<1> QED BY <1>6, <1>7, <1>8, <1>9, <1>10 DEF IInv, KeysTellApart

------------------------------------------------------------------------------
(* The gate.                                                                *)

(* Dropping writers from those admitted leaves the total within the slack.  *)
LEMMA SlackKept ==
    ASSUME TypeOK, MeterInv, IsFiniteSet(Counted'), Counted' \subseteq Counted, Admitted' \subseteq Admitted
    PROVE  \/ Cardinality(Counted') < MaxCASBytes
           \/ Cardinality(Counted') + Cardinality(Admitted') < MaxCASBytes + Cardinality(Writers)
<1>1. IsFiniteSet(Writers) /\ Cardinality(Writers) \in Nat
  BY StorageAssumption, FS_Union, FS_CardinalityType DEF Writers
<1>2. Admitted \in SUBSET Writers /\ Admitted' \in SUBSET Admitted /\ Counted' \in SUBSET Counted
  BY DEF Admitted
<1>3. IsFiniteSet(Admitted) /\ IsFiniteSet(Counted)
  BY <1>1, <1>2, Used, FS_Subset
<1>4. IsFiniteSet(Admitted') /\ Cardinality(Admitted') <= Cardinality(Admitted)
      /\ Cardinality(Counted') <= Cardinality(Counted)
  BY <1>2, <1>3, FS_Subset
<1>5. /\ Cardinality(Admitted) \in Nat /\ Cardinality(Admitted') \in Nat
      /\ Cardinality(Counted) \in Nat /\ Cardinality(Counted') \in Nat
  BY <1>3, <1>4, FS_CardinalityType
<1> QED BY <1>1, <1>4, <1>5, StorageAssumption DEF MeterInv

(* Every way out of the gate without storing anything to be charged for.    *)
LEMMA FailedStep ==
    ASSUME IInv, NEW w \in Writers, CanWrite(w), Failed(w),
           UNCHANGED <<blobs, refs, row, carried, entries, fleet, ledger, sweep, uploads>>,
           faults' \in Nat,
           gate[w].at = "charge" => publisher' = [publisher EXCEPT ![DigestOf(w)] = "nobody"],
           gate[w].at # "charge" => publisher' = publisher
    PROVE  IInv'
<1>1. TypeOK /\ PlaceInv /\ MeterInv
  BY DEF IInv
<1>2. gate'[w] = Outside /\ \A v \in Writers : v # w => gate'[v] = gate[v]
  BY <1>1 DEF Failed, Passes, TypeOK
<1>3. Outside.at = "outside" /\ Outside.n = 0 /\ Outside \in GateRecord
  BY DEF Outside, GateRecord
<1>4. gate' \in [Writers -> GateRecord]
  BY <1>1, <1>3 DEF Failed, Passes, TypeOK, GateRecord
<1>5. publisher' \in [Digests -> {"nobody", "engine", "editor"}]
      /\ \A d \in Digests : \/ publisher'[d] = publisher[d] /\ (gate[w].at = "charge" => d # DigestOf(w))
                            \/ publisher'[d] = "nobody"
  <2>1. CASE gate[w].at = "charge"
    <3>1. PICK d \in Digests : d = DigestOf(w)
      BY <1>1, <2>1, WritersDigest
    <3> QED BY <1>1, <2>1, <3>1 DEF TypeOK
  <2>2. CASE gate[w].at # "charge"
    BY <1>1, <2>2 DEF TypeOK
  <2> QED BY <2>1, <2>2
<1>6. PICK n \in RunRecord, m \in EditorRecord :
          \/ /\ w \in Runs /\ editor' = editor
             /\ Moves(w, n) /\ n.pc \in {"ready", "done"} /\ Reset(n) /\ n.last = "recent"
             /\ run[w].pc = "running"
          \/ /\ w \in Editors /\ w \notin Runs /\ Edits(w, m) /\ m.pc = "idle" /\ run' = run
             /\ editor[w].pc = "put"
  <2>1. IdleEditor \in EditorRecord /\ IdleEditor.pc = "idle"
    BY DEF IdleEditor, EditorRecord
  <2>2. PICK r \in Runs : TRUE
    BY StorageAssumption
  <2>3. run[r] \in RunRecord
    BY <1>1 DEF TypeOK, RunRecord
  <2> QED BY <2>1, <2>3 DEF Failed, CanWrite
<1>7. run \in [Runs -> RunRecord] /\ editor \in [Editors -> EditorRecord]
  BY <1>1 DEF TypeOK, RunRecord, EditorRecord
<1>8. \/ /\ w \in Runs /\ w \notin Editors /\ editor' = editor
         /\ run'[w] = n /\ (\A q \in Runs : q # w => run'[q] = run[q])
      \/ /\ w \in Editors /\ w \notin Runs /\ run' = run
         /\ editor'[w] = m /\ (\A x \in Editors : x # w => editor'[x] = editor[x])
  BY <1>6, <1>7, StorageAssumption DEF Moves, Edits
<1>9. \A v \in Writers : gate'[v].at # "outside" =>
          v # w /\ DigestOf(v)' = DigestOf(v) /\ CanWrite(v)'
  <2> TAKE v \in Writers
  <2> HAVE gate'[v].at # "outside"
  <2>1. v # w /\ CanWrite(v)
    BY <1>1, <1>2, <1>3 DEF PlaceInv
  <2>2. CASE v \in Runs
    <3>1. run'[v] = run[v]
      BY <1>8, <2>1, <2>2
    <3> QED BY <2>1, <2>2, <3>1 DEF DigestOf, CanWrite
  <2>3. CASE v \notin Runs
    <3>1. editor'[v] = editor[v]
      BY <1>8, <2>1, <2>3 DEF Writers
    <3> QED BY <2>1, <2>3, <3>1 DEF DigestOf, CanWrite
  <2> QED BY <2>2, <2>3
<1>10. PlaceInv'
  <2>1. \A r \in Runs :
          /\ run'[r].pc \in {"running", "stored", "entry"} =>
                run'[r].at \in Envs /\ (DrainedRollout => run'[r].at \in fleet)
          /\ run'[r].pc = "entry" => run'[r].output = <<run'[r].work, run'[r].at>>
          /\ run'[r].pc \notin {"pin", "serve", "done"} => run'[r].hit = None
          /\ run'[r].pc = "done" /\ run'[r].hit # None => run'[r].output = run'[r].hit
    <3>1. CASE w \in Runs
      BY <1>1, <1>6, <1>8, <3>1 DEF PlaceInv, Reset
    <3>2. CASE w \notin Runs
      BY <1>1, <1>8, <3>2 DEF PlaceInv
    <3> QED BY <3>1, <3>2
  <2>2. \A x \in Editors : editor'[x].pc # "idle" => editor'[x].file \in Files
    BY <1>1, <1>6, <1>8 DEF PlaceInv
  <2> QED BY <1>1, <1>9, <2>1, <2>2 DEF PlaceInv
<1>11. MeterInv'
  <2>1. Counted' = Counted /\ Admitted' \subseteq Admitted
    BY <1>2, <1>3 DEF Counted, Admitted
  <2>2. \/ Cardinality(Counted') < MaxCASBytes
        \/ Cardinality(Counted') + Cardinality(Admitted') < MaxCASBytes + Cardinality(Writers)
    BY <1>1, <2>1, Used, SlackKept
  <2>3. \A d \in blobs : \/ d \in ledger.charged
                         \/ publisher'[d] = "nobody"
                         \/ \E v \in Writers : gate'[v].at = "charge" /\ DigestOf(v)' = d
    <3> TAKE d \in blobs
    <3>1. d \in Digests
      BY <1>1 DEF TypeOK
    <3>2. CASE d \in ledger.charged \/ publisher[d] = "nobody"
      BY <1>5, <3>1, <3>2
    <3>3. ASSUME NEW v \in Writers, gate[v].at = "charge", DigestOf(v) = d
          PROVE  publisher'[d] = "nobody" \/ (gate'[v].at = "charge" /\ DigestOf(v)' = d)
      BY <1>2, <1>5, <1>9, <3>1, <3>3
    <3> QED BY <1>1, <3>2, <3>3 DEF MeterInv
  <2>4. \A v \in Writers : gate'[v].at = "charge" => gate'[v].n > 0
    BY <1>1, <1>2, <1>3 DEF MeterInv
  <2> QED BY <1>1, <2>2, <2>3, <2>4 DEF MeterInv
<1>12. TypeOK'
  <2>1. run' \in [Runs -> RunRecord] /\ editor' \in [Editors -> EditorRecord]
    BY <1>6, <1>7 DEF Moves, Edits
  <2>2. \A r \in Runs : run'[r].pc \in {"pin", "serve"} => run'[r].hit \in Digests
    BY <1>1, <1>6, <1>8 DEF TypeOK
  <2> QED BY <1>1, <1>4, <1>5, <2>1, <2>2 DEF TypeOK, RunRecord, EditorRecord, GateRecord
<1>13. ASSUME DrainedRollout /\ KeysTellApart PROVE EntriesInv' /\ ServedItsOwnWork'
  <2>1. CASE w \in Runs
    BY <1>6, <1>13, <2>1, RunServed DEF Reset
  <2>2. CASE w \notin Runs
    BY <1>8, <1>13, <2>2 DEF IInv, EntriesInv, ServedItsOwnWork
  <2> QED BY <2>1, <2>2
<1>14. ASSUME WriteLock PROVE LeakInv'
  <2>1. LeakInv /\ blobs \subseteq Digests /\ Files \subseteq Digests
    BY <1>1, <1>14, StorageAssumption DEF IInv, TypeOK
  <2>2. ASSUME NEW f \in Files, publisher'[f] = "editor", Landing(f) PROVE Landing(f)'
    <3>1. PICK x \in Editors : editor[x].file = f /\ (editor[x].pc = "record" \/ gate[x].at = "charge")
      BY <2>2 DEF Landing
    <3>2. x \in Writers /\ f \in Digests
      BY <2>1 DEF Writers
    <3>3. x # w
      <4>1. CASE w \in Runs
        BY <1>8, <4>1
      <4>2. CASE w \notin Runs /\ gate[w].at = "charge"
        BY <1>5, <1>6, <2>2, <3>1, <3>2, <4>2 DEF DigestOf
      <4>3. CASE w \notin Runs /\ gate[w].at # "charge"
        BY <1>6, <3>1, <4>3
      <4> QED BY <4>1, <4>2, <4>3
    <3>4. editor'[x] = editor[x] /\ gate'[x] = gate[x]
      BY <1>2, <1>8, <3>2, <3>3
    <3> QED BY <3>1, <3>4 DEF Landing
  <2>3. \A f \in Files : publisher'[f] = "editor" => publisher[f] = "editor"
    BY <1>5, <2>1
  <2>4. NoLeakedUpload'
    <3> SUFFICES ASSUME NEW f \in Files, f \in blobs, publisher'[f] = "editor", row[f] = "none"
                 PROVE  Landing(f)'
      BY DEF NoLeakedUpload, Landing
    <3> QED BY <2>1, <2>2, <2>3 DEF LeakInv, NoLeakedUpload, Landing
  <2> QED BY <2>1, <2>2, <2>3, <2>4 DEF LeakInv
<1>15. ASSUME WriteLock /\ ~LongPauses PROVE SweepInv' /\ PinnedInv'
  <2>1. CASE w \in Runs
    BY <1>6, <1>15, <2>1, RunPins DEF Reset
  <2>2. CASE w \notin Runs
    <3>1. SweepInv /\ PinnedInv
      BY <1>15 DEF IInv
    <3>2. SweepInv'
      BY <1>8, <2>2, <3>1 DEF SweepInv
    <3>3. PinnedInv'
      BY <1>6, <1>8, <2>2, <3>1 DEF PinnedInv
    <3> QED BY <3>2, <3>3
  <2> QED BY <2>1, <2>2
<1> QED BY <1>10, <1>11, <1>12, <1>13, <1>14, <1>15 DEF IInv, KeysTellApart

LEMMA AdmitStep ==
    ASSUME IInv, NEW w \in Writers, AdmitCASBytes(w)
    PROVE  IInv'
<1>1. TypeOK /\ PlaceInv /\ MeterInv
  BY DEF IInv
<1>2. /\ CanWrite(w) /\ gate[w].at = "outside"
      /\ UNCHANGED <<blobs, refs, row, carried, entries, fleet, ledger, sweep, uploads, faults,
                     publisher>>
  BY <1>1, AdmitFx
<1>3. CASE Failed(w)
  <2>1. faults' \in Nat
    BY <1>1, <1>2 DEF TypeOK
  <2> QED BY <1>2, <1>3, <2>1, FailedStep
<1>4. ASSUME UNCHANGED <<run, editor>>, NEW n \in GateRecord, Passes(w, n), n.at = "put",
             n.n > 0 => Cardinality(Counted) < MaxCASBytes
      PROVE  IInv'
  <2>1. gate' \in [Writers -> GateRecord] /\ gate'[w] = n /\ \A v \in Writers : v # w => gate'[v] = gate[v]
    BY <1>1, <1>4 DEF Passes, TypeOK, GateRecord
  <2>2. TypeOK'
    BY <1>1, <1>2, <1>4, <2>1 DEF TypeOK, GateRecord
  <2>3. \A v \in Writers : DigestOf(v)' = DigestOf(v) /\ CanWrite(v)' = CanWrite(v)
    BY <1>4 DEF DigestOf, CanWrite
  <2>4. PlaceInv'
    BY <1>1, <1>2, <1>4, <2>1, <2>3 DEF PlaceInv
  <2>5. \A v \in Writers : gate'[v].at = "charge" <=> gate[v].at = "charge"
    BY <1>2, <1>4, <2>1
  <2>6. MeterInv'
    <3>1. Counted' = Counted
      BY <1>2 DEF Counted
    <3>2. n.n > 0 \/ Admitted' \subseteq Admitted
      BY <1>4, <2>1 DEF Admitted, GateRecord
    <3>3. \/ Cardinality(Counted') < MaxCASBytes
          \/ Cardinality(Counted') + Cardinality(Admitted') < MaxCASBytes + Cardinality(Writers)
      BY <1>1, <1>4, <3>1, <3>2, Used, SlackKept
    <3>4. \A d \in blobs : \/ d \in ledger.charged
                           \/ publisher[d] = "nobody"
                           \/ \E v \in Writers : gate'[v].at = "charge" /\ DigestOf(v)' = d
      BY <1>1, <2>3, <2>5 DEF MeterInv
    <3>5. \A v \in Writers : gate'[v].at = "charge" => gate'[v].n > 0
      BY <1>1, <1>4, <2>1 DEF MeterInv
    <3> QED BY <1>1, <1>2, <3>3, <3>4, <3>5 DEF MeterInv
  <2>7. DrainedRollout /\ KeysTellApart => EntriesInv' /\ ServedItsOwnWork'
    BY <1>2, <1>4 DEF IInv, EntriesInv, ServedItsOwnWork
  <2>8. WriteLock => LeakInv'
    <3>1. \A x \in Editors : x \in Writers
      BY DEF Writers
    <3>2. \A f \in Files : Landing(f)' <=> Landing(f)
      BY <1>4, <2>5, <3>1 DEF Landing
    <3> QED BY <1>2, <1>4, <3>2 DEF IInv, LeakInv, NoLeakedUpload, Landing
  <2>9. WriteLock /\ ~LongPauses => SweepInv' /\ PinnedInv'
    BY <1>2, <1>4 DEF IInv, SweepInv, PinnedInv
  <2> QED BY <2>2, <2>4, <2>6, <2>7, <2>8, <2>9 DEF IInv, KeysTellApart
<1> QED BY <1>1, <1>3, <1>4, AdmitFx

LEMMA PutBlobStep ==
    ASSUME IInv, NEW w \in Writers, PutBlob(w)
    PROVE  IInv'
<1>1. TypeOK /\ PlaceInv /\ MeterInv
  BY DEF IInv
<1>2. /\ gate[w].at = "put" /\ CanWrite(w)
      /\ UNCHANGED <<refs, row, carried, entries, fleet, ledger, sweep, uploads, faults>>
  BY <1>1, PutBlobFx DEF PlaceInv
<1>3. CASE Failed(w) /\ UNCHANGED <<blobs, publisher>>
  <2>1. faults' \in Nat
    BY <1>1, <1>2 DEF TypeOK
  <2> QED BY <1>2, <1>3, <2>1, FailedStep
<1>4. ASSUME UNCHANGED <<run, editor>>, blobs' = blobs \cup {DigestOf(w)},
             NEW n \in GateRecord, Passes(w, n), n.at = "charge", n.n = gate[w].n, n.n > 0,
             publisher' \in [Digests -> {"nobody", "engine", "editor"}],
             \A d \in Digests : \/ publisher'[d] = publisher[d] /\ (d \in blobs \/ d # DigestOf(w))
                                \/ d = DigestOf(w) /\ publisher'[d] = "engine"
                                \/ d = DigestOf(w) /\ publisher'[d] = "editor" /\ w \notin Runs
      PROVE  IInv'
  <2>1. gate' \in [Writers -> GateRecord] /\ gate'[w] = n /\ \A v \in Writers : v # w => gate'[v] = gate[v]
    BY <1>1, <1>4 DEF Passes, TypeOK, GateRecord
  <2>2. DigestOf(w) \in Digests /\ (w \notin Runs => w \in Editors)
    BY <1>1, <1>2, WritersDigest
  <2>3. TypeOK'
    BY <1>1, <1>2, <1>4, <2>1, <2>2 DEF TypeOK, GateRecord
  <2>4. \A v \in Writers : DigestOf(v)' = DigestOf(v) /\ CanWrite(v)' = CanWrite(v)
    BY <1>4 DEF DigestOf, CanWrite
  <2>5. PlaceInv'
    BY <1>1, <1>2, <1>4, <2>1, <2>4 DEF PlaceInv
  <2>6. \A v \in Writers : gate[v].at = "charge" => gate'[v].at = "charge"
    BY <1>2, <1>4, <2>1
  <2>7. MeterInv'
    <3>1. Counted' = Counted /\ Admitted' \subseteq Admitted
      BY <1>2, <1>4, <2>1 DEF Counted, Admitted
    <3>2. \/ Cardinality(Counted') < MaxCASBytes
          \/ Cardinality(Counted') + Cardinality(Admitted') < MaxCASBytes + Cardinality(Writers)
      BY <1>1, <3>1, Used, SlackKept
    <3>3. ASSUME NEW d \in blobs'
          PROVE  \/ d \in ledger.charged
                 \/ publisher'[d] = "nobody"
                 \/ \E v \in Writers : gate'[v].at = "charge" /\ DigestOf(v)' = d
      <4>1. CASE d = DigestOf(w)
        BY <1>4, <2>1, <2>4, <4>1
      <4>2. CASE d # DigestOf(w)
        <5>1. d \in blobs /\ d \in Digests
          BY <1>1, <1>4, <3>3, <4>2 DEF TypeOK
        <5>2. publisher'[d] = publisher[d]
          BY <1>4, <4>2, <5>1
        <5> QED BY <1>1, <2>4, <2>6, <5>1, <5>2 DEF MeterInv
      <4> QED BY <4>1, <4>2
    <3>4. \A v \in Writers : gate'[v].at = "charge" => gate'[v].n > 0
      BY <1>1, <1>4, <2>1 DEF MeterInv
    <3> QED BY <1>1, <1>2, <3>2, <3>3, <3>4 DEF MeterInv
  <2>8. DrainedRollout /\ KeysTellApart => EntriesInv' /\ ServedItsOwnWork'
    BY <1>2, <1>4 DEF IInv, EntriesInv, ServedItsOwnWork
  <2>9. ASSUME WriteLock PROVE LeakInv'
    <3>1. LeakInv /\ Files \subseteq Digests /\ \A x \in Editors : x \in Writers
      BY <2>9, StorageAssumption DEF IInv, Writers
    <3>2. \A f \in Files : Landing(f) => Landing(f)'
      BY <1>4, <2>6, <3>1 DEF Landing
    <3>3. ASSUME NEW f \in Files, f \in blobs', publisher'[f] = "editor"
          PROVE  Landing(f)' \/ (f \in blobs /\ publisher[f] = "editor")
      <4>1. CASE f = DigestOf(w) /\ w \notin Runs
        <5>1. w \in Editors /\ editor'[w].file = f /\ gate'[w].at = "charge"
          BY <1>4, <2>1, <2>2, <4>1 DEF DigestOf
        <5> QED BY <5>1 DEF Landing
      <4>2. CASE f # DigestOf(w)
        BY <1>4, <3>1, <3>3, <4>2
      <4>3. CASE f = DigestOf(w) /\ w \in Runs
        BY <1>4, <3>1, <3>3, <4>3
      <4> QED BY <4>1, <4>2, <4>3
    <3>4. NoLeakedUpload'
      <4> SUFFICES ASSUME NEW f \in Files, f \in blobs', publisher'[f] = "editor", row'[f] = "none"
                   PROVE  Landing(f)'
        BY DEF NoLeakedUpload, Landing
      <4> QED BY <1>2, <3>1, <3>2, <3>3 DEF LeakInv, NoLeakedUpload, Landing
    <3> QED BY <1>2, <3>1, <3>2, <3>3, <3>4 DEF LeakInv
  <2>10. WriteLock /\ ~LongPauses => SweepInv' /\ PinnedInv'
    BY <1>2, <1>4 DEF IInv, SweepInv, PinnedInv
  <2> QED BY <2>3, <2>5, <2>7, <2>8, <2>9, <2>10 DEF IInv, KeysTellApart
<1> QED BY <1>1, <1>3, <1>4, PutBlobFx

(* One more blob is charged for, by a writer that was let in before it was: *)
(* the total is a blob nearer to the limit and a writer short.              *)
LEMMA SlackCharged ==
    ASSUME TypeOK, MeterInv, NEW w \in Writers, NEW d \in Digests, gate[w].at = "charge",
           ledger'.charged = ledger.charged \cup {d}, ledger'.released = ledger.released,
           Admitted' = Admitted \ {w}
    PROVE  /\ IsFiniteSet(ledger'.charged)
           /\ \/ Cardinality(Counted') < MaxCASBytes
              \/ Cardinality(Counted') + Cardinality(Admitted') < MaxCASBytes + Cardinality(Writers)
<1>1. IsFiniteSet(ledger'.charged)
  BY FS_AddElement DEF MeterInv
<1>2. CASE d \in ledger.charged
  <2>1. Counted' = Counted /\ Admitted' \subseteq Admitted
    BY <1>2 DEF Counted
  <2> QED BY <1>1, <2>1, Used, SlackKept
<1>3. CASE d \notin ledger.charged
  <2>1. Counted' = Counted \cup {d} /\ d \notin Counted
    BY <1>3 DEF Counted, TypeOK
  <2>2. IsFiniteSet(Counted) /\ Cardinality(Counted) \in Nat
    BY Used
  <2>3. Cardinality(Counted') = Cardinality(Counted) + 1
    BY <2>1, <2>2, FS_AddElement
  <2>4. IsFiniteSet(Writers)
    BY StorageAssumption, FS_Union DEF Writers
  <2>5. w \in Admitted /\ Admitted \in SUBSET Writers
    BY DEF Admitted, MeterInv
  <2>6. IsFiniteSet(Admitted) /\ Cardinality(Admitted) <= Cardinality(Writers)
    BY <2>4, <2>5, FS_Subset
  <2>7. Cardinality(Admitted') = Cardinality(Admitted) - 1
    BY <2>5, <2>6, FS_RemoveElement
  <2>8. Cardinality(Admitted) \in Nat /\ Cardinality(Writers) \in Nat
    BY <2>4, <2>6, FS_CardinalityType
  <2> QED BY <1>1, <2>2, <2>3, <2>6, <2>7, <2>8, StorageAssumption DEF MeterInv
<1> QED BY <1>2, <1>3

LEMMA ChargeStep ==
    ASSUME IInv, NEW w \in Writers, Charge(w)
    PROVE  IInv'
<1>1. TypeOK /\ PlaceInv /\ MeterInv
  BY DEF IInv
<1>2. /\ gate[w].at = "charge" /\ Unlocked /\ CanWrite(w)
      /\ ledger' \in [charged : SUBSET Digests, released : SUBSET Digests]
      /\ UNCHANGED <<blobs, refs, row, carried, entries, fleet, sweep, uploads>>
      /\ faults' \in Nat
  BY <1>1, ChargeFx DEF PlaceInv
<1>3. CASE Failed(w) /\ UNCHANGED ledger /\ publisher' = [publisher EXCEPT ![DigestOf(w)] = "nobody"]
  BY <1>2, <1>3, FailedStep
<1>4. ASSUME Stored(w), UNCHANGED publisher,
             ledger'.charged = ledger.charged \cup {DigestOf(w)}, ledger'.released = ledger.released
      PROVE  IInv'
  <2>1. Outside.at = "outside" /\ Outside.n = 0 /\ Outside \in GateRecord
    BY DEF Outside, GateRecord
  <2>2. gate' \in [Writers -> GateRecord] /\ gate'[w] = Outside
        /\ \A v \in Writers : v # w => gate'[v] = gate[v]
    BY <1>1, <1>4, <2>1 DEF Stored, Passes, TypeOK, GateRecord
  <2>3. PICK n \in RunRecord, m \in EditorRecord :
            \/ /\ w \in Runs /\ editor' = editor
               /\ Moves(w, n) /\ n.pc = "stored" /\ n.at = run[w].at
               /\ n.hit = run[w].hit /\ n.last = run[w].last /\ run[w].pc = "running"
            \/ /\ w \in Editors /\ w \notin Runs /\ run' = run
               /\ Edits(w, m) /\ m.pc = "record" /\ m.file = editor[w].file /\ editor[w].pc = "put"
    <3>1. PICK r \in Runs : TRUE
      BY StorageAssumption
    <3>2. run[r] \in RunRecord /\ IdleEditor \in EditorRecord
      BY <1>1 DEF TypeOK, RunRecord, EditorRecord, IdleEditor
    <3> QED BY <1>2, <1>4, <3>2 DEF Stored, CanWrite
  <2>4. run \in [Runs -> RunRecord] /\ editor \in [Editors -> EditorRecord]
    BY <1>1 DEF TypeOK, RunRecord, EditorRecord
  <2>5. \/ /\ w \in Runs /\ w \notin Editors /\ editor' = editor
           /\ run'[w] = n /\ (\A q \in Runs : q # w => run'[q] = run[q])
        \/ /\ w \in Editors /\ w \notin Runs /\ run' = run
           /\ editor'[w] = m /\ (\A x \in Editors : x # w => editor'[x] = editor[x])
    BY <2>3, <2>4, StorageAssumption DEF Moves, Edits
  <2>6. \A v \in Writers : v # w /\ gate[v].at # "outside" =>
            DigestOf(v)' = DigestOf(v) /\ CanWrite(v)'
    <3> TAKE v \in Writers
    <3> HAVE v # w /\ gate[v].at # "outside"
    <3>1. CanWrite(v)
      BY <1>1 DEF PlaceInv
    <3>2. CASE v \in Runs
      <4>1. run'[v] = run[v]
        BY <2>5, <3>2
      <4> QED BY <3>1, <3>2, <4>1 DEF DigestOf, CanWrite
    <3>3. CASE v \notin Runs
      <4>1. editor'[v] = editor[v]
        BY <2>5, <3>3 DEF Writers
      <4> QED BY <3>1, <3>3, <4>1 DEF DigestOf, CanWrite
    <3> QED BY <3>2, <3>3
  <2>7. PlaceInv'
    <3>1. \A r \in Runs :
            /\ run'[r].pc \in {"running", "stored", "entry"} =>
                  run'[r].at \in Envs /\ (DrainedRollout => run'[r].at \in fleet)
            /\ run'[r].pc = "entry" => run'[r].output = <<run'[r].work, run'[r].at>>
            /\ run'[r].pc \notin {"pin", "serve", "done"} => run'[r].hit = None
            /\ run'[r].pc = "done" /\ run'[r].hit # None => run'[r].output = run'[r].hit
      <4>1. CASE w \in Runs
        BY <1>1, <2>3, <2>5, <4>1 DEF PlaceInv
      <4>2. CASE w \notin Runs
        BY <1>1, <2>5, <4>2 DEF PlaceInv
      <4> QED BY <4>1, <4>2
    <3>2. \A x \in Editors : editor'[x].pc # "idle" => editor'[x].file \in Files
      BY <1>1, <2>3, <2>5 DEF PlaceInv
    <3>3. \A v \in Writers : gate'[v].at # "outside" => CanWrite(v)'
      BY <2>1, <2>2, <2>6
    <3> QED BY <1>1, <1>2, <3>1, <3>2, <3>3 DEF PlaceInv
  <2>8. PICK d \in Digests : d = DigestOf(w)
    BY <1>1, <1>2, WritersDigest
  <2>9. MeterInv'
    <3>1. Admitted' = Admitted \ {w}
      BY <2>1, <2>2 DEF Admitted
    <3>2. /\ IsFiniteSet(ledger'.charged)
          /\ \/ Cardinality(Counted') < MaxCASBytes
             \/ Cardinality(Counted') + Cardinality(Admitted') < MaxCASBytes + Cardinality(Writers)
      BY <1>1, <1>2, <1>4, <2>8, <3>1, SlackCharged
    <3>3. \A c \in blobs : \/ c \in ledger'.charged
                           \/ publisher'[c] = "nobody"
                           \/ \E v \in Writers : gate'[v].at = "charge" /\ DigestOf(v)' = c
      <4> TAKE c \in blobs
      <4>1. CASE c \in ledger.charged \/ publisher[c] = "nobody"
        BY <1>4, <4>1
      <4>2. ASSUME NEW v \in Writers, gate[v].at = "charge", DigestOf(v) = c
            PROVE  c \in ledger'.charged \/ (gate'[v].at = "charge" /\ DigestOf(v)' = c)
        BY <1>4, <2>2, <2>6, <4>2
      <4> QED BY <1>1, <4>1, <4>2 DEF MeterInv
    <3>4. \A v \in Writers : gate'[v].at = "charge" => gate'[v].n > 0
      BY <1>1, <2>1, <2>2 DEF MeterInv
    <3> QED BY <1>2, <3>2, <3>3, <3>4 DEF MeterInv
  <2>10. TypeOK'
    <3>1. run' \in [Runs -> RunRecord] /\ editor' \in [Editors -> EditorRecord]
      BY <2>3, <2>4 DEF Moves, Edits
    <3>2. \A r \in Runs : run'[r].pc \in {"pin", "serve"} => run'[r].hit \in Digests
      BY <1>1, <2>3, <2>5 DEF TypeOK
    <3>3. ledger'.released \subseteq ledger'.charged
      BY <1>1, <1>4 DEF TypeOK
    <3> QED BY <1>1, <1>2, <1>4, <2>2, <3>1, <3>2, <3>3 DEF TypeOK, RunRecord, EditorRecord, GateRecord
  <2>11. ASSUME DrainedRollout /\ KeysTellApart PROVE EntriesInv' /\ ServedItsOwnWork'
    <3>1. CASE w \in Runs
      <4>1. n.hit = None
        BY <1>1, <2>3, <3>1 DEF PlaceInv
      <4> QED BY <1>2, <2>3, <2>11, <3>1, <4>1, RunServed
    <3>2. CASE w \notin Runs
      BY <1>2, <2>5, <2>11, <3>2 DEF IInv, EntriesInv, ServedItsOwnWork
    <3> QED BY <3>1, <3>2
  <2>12. ASSUME WriteLock PROVE LeakInv'
    <3>1. LeakInv /\ sweep.pc # "delete" /\ \A x \in Editors : x \in Writers
      BY <1>2, <2>12 DEF IInv, Unlocked, Writers
    <3>2. ASSUME NEW f \in Files, Landing(f) PROVE Landing(f)'
      <4>1. PICK x \in Editors : editor[x].file = f /\ (editor[x].pc = "record" \/ gate[x].at = "charge")
        BY <3>2 DEF Landing
      <4>2. CASE x = w
        BY <2>3, <2>5, <4>1, <4>2 DEF Landing
      <4>3. CASE x # w
        BY <2>2, <2>5, <3>1, <4>1, <4>3 DEF Landing
      <4> QED BY <4>2, <4>3
    <3>3. NoLeakedUpload'
      <4> SUFFICES ASSUME NEW f \in Files, f \in blobs, publisher[f] = "editor", row[f] = "none"
                   PROVE  Landing(f)'
        BY <1>2, <1>4 DEF NoLeakedUpload, Landing
      <4> QED BY <3>1, <3>2 DEF LeakInv, NoLeakedUpload, Landing
    <3> QED BY <1>2, <3>1, <3>3 DEF LeakInv
  <2>13. ASSUME WriteLock /\ ~LongPauses PROVE SweepInv' /\ PinnedInv'
    <3>1. SweepInv /\ PinnedInv
      BY <2>13 DEF IInv
    <3>2. CASE w \in Runs
      <4>1. n.last = "recent"
        BY <2>3, <3>1, <3>2 DEF PinnedInv
      <4> QED BY <1>2, <2>3, <2>13, <3>2, <4>1, RunPins
    <3>3. CASE w \notin Runs
      <4>1. SweepInv'
        BY <1>2, <2>5, <3>1, <3>3 DEF SweepInv
      <4>2. PinnedInv'
        BY <1>2, <2>3, <2>5, <3>1, <3>3 DEF PinnedInv
      <4> QED BY <4>1, <4>2
    <3> QED BY <3>2, <3>3
  <2> QED BY <2>7, <2>9, <2>10, <2>11, <2>12, <2>13 DEF IInv, KeysTellApart
<1> QED BY <1>1, <1>3, <1>4, ChargeFx

------------------------------------------------------------------------------
(* The editors.                                                             *)

\* What an editor may be after it moved.
LEMMA EditMoves ==
    ASSUME IInv, NEW x \in Editors, NEW n \in EditorRecord, Edits(x, n),
           UNCHANGED <<run, gate, fleet, blobs, ledger, entries, refs, sweep>>,
           publisher' \in [Digests -> {"nobody", "engine", "editor"}],
           \A d \in Digests : publisher'[d] = publisher[d] \/ publisher'[d] = "nobody",
           editor[x].pc # "put",
           n.pc # "idle" => n.file \in Files
    PROVE  /\ PlaceInv' /\ MeterInv' /\ editor' \in [Editors -> EditorRecord]
           /\ editor'[x] = n /\ \A y \in Editors : y # x => editor'[y] = editor[y]
           /\ gate[x].at = "outside"
           /\ DrainedRollout /\ KeysTellApart => EntriesInv' /\ ServedItsOwnWork'
<1>1. TypeOK /\ PlaceInv /\ MeterInv /\ x \in Writers /\ x \notin Runs
  BY StorageAssumption DEF IInv, Writers
<1>2. editor \in [Editors -> EditorRecord]
  BY <1>1 DEF TypeOK, EditorRecord
<1>3. editor' \in [Editors -> EditorRecord] /\ editor'[x] = n
      /\ \A y \in Editors : y # x => editor'[y] = editor[y]
  BY <1>2 DEF Edits
<1>4. gate[x].at = "outside"
  BY <1>1 DEF PlaceInv, CanWrite
<1>5. \A w \in Writers : gate[w].at # "outside" => DigestOf(w)' = DigestOf(w) /\ CanWrite(w)'
  <2> TAKE w \in Writers
  <2> HAVE gate[w].at # "outside"
  <2>1. CanWrite(w) /\ w # x
    BY <1>1, <1>4 DEF PlaceInv
  <2>2. CASE w \in Runs
    BY <2>1, <2>2 DEF DigestOf, CanWrite
  <2>3. CASE w \notin Runs
    <3>1. editor'[w] = editor[w]
      BY <1>3, <2>1, <2>3 DEF Writers
    <3> QED BY <2>1, <2>3, <3>1 DEF DigestOf, CanWrite
  <2> QED BY <2>2, <2>3
<1>6. PlaceInv'
  BY <1>1, <1>3, <1>5 DEF PlaceInv
<1>7. MeterInv'
  <2>1. Counted' = Counted /\ Admitted' = Admitted
    BY DEF Counted, Admitted
  <2>2. \A d \in blobs : \/ d \in ledger.charged
                         \/ publisher'[d] = "nobody"
                         \/ \E w \in Writers : gate[w].at = "charge" /\ DigestOf(w)' = d
    <3> TAKE d \in blobs
    <3>1. d \in Digests
      BY <1>1 DEF TypeOK
    <3> QED BY <1>1, <1>5, <3>1 DEF MeterInv
  <2> QED BY <1>1, <2>1, <2>2 DEF MeterInv
<1>8. DrainedRollout /\ KeysTellApart => EntriesInv' /\ ServedItsOwnWork'
  BY DEF IInv, EntriesInv, ServedItsOwnWork
<1> QED BY <1>3, <1>4, <1>6, <1>7, <1>8

\* An upload that has not yet written its row is still landing, unless it is x's.
LEMMA LandingOthers ==
    ASSUME NEW x \in Editors, NEW f \in Files, Landing(f), UNCHANGED gate,
           \A y \in Editors : y # x => editor'[y] = editor[y],
           gate[x].at = "outside"
    PROVE  Landing(f)' \/ (editor[x].pc = "record" /\ editor[x].file = f)
  BY DEF Landing

LEMMA PutFileStep ==
    ASSUME IInv, NEW x \in Editors, NEW f \in Files, PutFile(x, f)
    PROVE  IInv'
<1>1. TypeOK /\ PlaceInv
  BY DEF IInv
<1>2. /\ editor[x].pc = "idle" /\ uploads' \in Nat
      /\ UNCHANGED <<blobs, refs, row, carried, entries, fleet, run, gate, ledger, sweep, faults,
                     publisher>>
  BY <1>1, PutFileFx
<1>3. PICK n \in EditorRecord : Edits(x, n) /\ n.pc = "put" /\ n.file = f
  BY <1>1, PutFileFx
<1>4. /\ PlaceInv' /\ MeterInv' /\ editor' \in [Editors -> EditorRecord]
      /\ editor'[x] = n /\ \A y \in Editors : y # x => editor'[y] = editor[y]
      /\ gate[x].at = "outside"
      /\ DrainedRollout /\ KeysTellApart => EntriesInv' /\ ServedItsOwnWork'
  BY <1>1, <1>2, <1>3, EditMoves DEF TypeOK
<1>5. TypeOK'
  BY <1>1, <1>2, <1>4 DEF TypeOK, EditorRecord
<1>6. WriteLock => LeakInv'
  <2>1. \A g \in Files : Landing(g) => Landing(g)'
    BY <1>2, <1>4, LandingOthers
  <2> QED BY <1>2, <2>1 DEF IInv, LeakInv, NoLeakedUpload, Landing
<1>7. WriteLock /\ ~LongPauses => SweepInv' /\ PinnedInv'
  BY <1>2, <1>3, <1>4 DEF IInv, SweepInv, PinnedInv
<1> QED BY <1>4, <1>5, <1>6, <1>7 DEF IInv, KeysTellApart

LEMMA RecordFileStep ==
    ASSUME IInv, NEW x \in Editors, RecordFile(x)
    PROVE  IInv'
<1>1. TypeOK /\ PlaceInv
  BY DEF IInv
<1>2. /\ editor[x].pc = "record" /\ Unlocked /\ editor[x].file \in Files
      /\ UNCHANGED <<blobs, refs, carried, entries, fleet, run, gate, ledger, sweep, uploads>>
      /\ faults' \in Nat
  BY <1>1, RecordFileFx
<1>3. PICK n \in EditorRecord :
          /\ Edits(x, n)
          /\ \/ /\ n.pc = "uploaded" /\ n.file = editor[x].file
                /\ row' = [row EXCEPT ![n.file] = "young"] /\ UNCHANGED publisher
             \/ /\ n.pc = "idle" /\ UNCHANGED row
                /\ publisher' = [publisher EXCEPT ![editor[x].file] = "nobody"]
  BY <1>1, RecordFileFx
<1>4. PICK g \in Files : g = editor[x].file
  BY <1>2
<1>5. g \in Digests
  BY StorageAssumption
<1>6. /\ publisher' \in [Digests -> {"nobody", "engine", "editor"}]
      /\ \A d \in Digests : publisher'[d] = publisher[d] \/ publisher'[d] = "nobody"
      /\ row' \in [Files -> {"none", "young", "old"}]
  BY <1>1, <1>3, <1>4, <1>5 DEF TypeOK
<1>7. /\ PlaceInv' /\ MeterInv' /\ editor' \in [Editors -> EditorRecord]
      /\ editor'[x] = n /\ \A y \in Editors : y # x => editor'[y] = editor[y]
      /\ gate[x].at = "outside"
      /\ DrainedRollout /\ KeysTellApart => EntriesInv' /\ ServedItsOwnWork'
  BY <1>2, <1>3, <1>6, EditMoves
<1>8. TypeOK'
  BY <1>1, <1>2, <1>6, <1>7 DEF TypeOK, EditorRecord
<1>9. ASSUME WriteLock PROVE LeakInv'
  <2>1. LeakInv /\ sweep.pc # "delete"
    BY <1>2, <1>9 DEF IInv, Unlocked
  <2>2. ASSUME NEW f \in Files, f \in blobs, publisher'[f] = "editor", row'[f] = "none"
        PROVE  Landing(f)'
    <3>1. f \in Digests
      BY StorageAssumption
    <3>2. publisher[f] = "editor" /\ f # g /\ row[f] = "none"
      BY <1>1, <1>3, <1>4, <1>5, <1>6, <2>2, <3>1 DEF TypeOK
    <3>3. Landing(f)
      BY <2>1, <2>2, <3>2 DEF LeakInv, NoLeakedUpload, Landing
    <3> QED BY <1>2, <1>4, <1>7, <3>2, <3>3, LandingOthers
  <2> QED BY <1>2, <2>1, <2>2 DEF LeakInv, NoLeakedUpload, Landing
<1>10. ASSUME WriteLock /\ ~LongPauses PROVE SweepInv' /\ PinnedInv'
  <2>1. SweepInv /\ PinnedInv /\ sweep.pc # "delete"
    BY <1>2, <1>10 DEF IInv, Unlocked
  <2>2. SweepInv'
    BY <1>2, <2>1 DEF SweepInv
  <2>3. \A f \in Files : row[f] = "young" => row'[f] = "young"
    BY <1>1, <1>3, <1>4 DEF TypeOK
  <2>4. \A y \in Editors : editor[y].pc \in {"uploaded", "save"} => editor[y].file \in Files
    BY <1>1 DEF PlaceInv
  <2>5. \A y \in Editors : editor'[y].pc \in {"uploaded", "save"} => row'[editor'[y].file] = "young"
    <3> TAKE y \in Editors
    <3>1. CASE y = x
      BY <1>1, <1>3, <1>4, <1>7, <3>1 DEF TypeOK
    <3>2. CASE y # x
      BY <1>7, <2>1, <2>3, <2>4, <3>2 DEF PinnedInv
    <3> QED BY <3>1, <3>2
  <2>6. \A y \in Editors : editor'[y].pc = "save" => editor'[y].file \in blobs
    BY <1>3, <1>7, <2>1 DEF PinnedInv
  <2>7. PinnedInv'
    BY <1>2, <2>1, <2>5, <2>6 DEF PinnedInv
  <2> QED BY <2>2, <2>7
<1> QED BY <1>7, <1>8, <1>9, <1>10 DEF IInv, KeysTellApart

LEMMA CheckFileStep ==
    ASSUME IInv, NEW x \in Editors, CheckFile(x) \/ AbandonEdit(x)
    PROVE  IInv'
<1>1. TypeOK /\ PlaceInv
  BY DEF IInv
<1>2. /\ editor[x].pc \in {"uploaded", "save"} /\ editor[x].file \in Files
      /\ UNCHANGED <<blobs, refs, row, carried, entries, fleet, run, gate, ledger, sweep, uploads,
                     faults, publisher>>
  BY <1>1, CheckFileFx DEF PlaceInv
<1>3. PICK n \in EditorRecord :
          /\ Edits(x, n)
          /\ \/ /\ n.pc = "save" /\ n.file = editor[x].file /\ n.file \in blobs
             \/ n.pc = "idle"
  BY <1>1, CheckFileFx
<1>4. /\ PlaceInv' /\ MeterInv' /\ editor' \in [Editors -> EditorRecord]
      /\ editor'[x] = n /\ \A y \in Editors : y # x => editor'[y] = editor[y]
      /\ gate[x].at = "outside"
      /\ DrainedRollout /\ KeysTellApart => EntriesInv' /\ ServedItsOwnWork'
  BY <1>1, <1>2, <1>3, EditMoves DEF TypeOK
<1>5. TypeOK'
  BY <1>1, <1>2, <1>4 DEF TypeOK, EditorRecord
<1>6. WriteLock => LeakInv'
  <2>1. \A g \in Files : Landing(g) => Landing(g)'
    BY <1>2, <1>4, LandingOthers
  <2> QED BY <1>2, <2>1 DEF IInv, LeakInv, NoLeakedUpload, Landing
<1>7. WriteLock /\ ~LongPauses => SweepInv' /\ PinnedInv'
  BY <1>2, <1>3, <1>4 DEF IInv, SweepInv, PinnedInv
<1> QED BY <1>4, <1>5, <1>6, <1>7 DEF IInv, KeysTellApart

LEMMA SaveRevisionStep ==
    ASSUME IInv, NEW x \in Editors, SaveRevision(x)
    PROVE  IInv'
<1>1. TypeOK /\ PlaceInv
  BY DEF IInv
<1>2. /\ editor[x].pc = "save" /\ Unlocked /\ editor[x].file \in Files
      /\ carried' = carried \cup {editor[x].file}
      /\ UNCHANGED <<blobs, refs, row, entries, fleet, run, gate, ledger, sweep, uploads,
                     faults, publisher>>
  BY <1>1, SaveRevisionFx DEF PlaceInv
<1>3. PICK n \in EditorRecord : Edits(x, n) /\ n.pc = "idle"
  BY <1>1, SaveRevisionFx
<1>4. /\ PlaceInv' /\ MeterInv' /\ editor' \in [Editors -> EditorRecord]
      /\ editor'[x] = n /\ \A y \in Editors : y # x => editor'[y] = editor[y]
      /\ gate[x].at = "outside"
      /\ DrainedRollout /\ KeysTellApart => EntriesInv' /\ ServedItsOwnWork'
  BY <1>1, <1>2, <1>3, EditMoves DEF TypeOK
<1>5. TypeOK'
  <2>1. carried' \subseteq Files
    BY <1>1, <1>2 DEF TypeOK
  <2> QED BY <1>1, <1>2, <1>4, <2>1 DEF TypeOK, EditorRecord
<1>6. WriteLock => LeakInv'
  <2>1. \A g \in Files : Landing(g) => Landing(g)'
    BY <1>2, <1>4, LandingOthers
  <2> QED BY <1>2, <2>1 DEF IInv, LeakInv, NoLeakedUpload, Landing
<1>7. ASSUME WriteLock /\ ~LongPauses PROVE SweepInv' /\ PinnedInv'
  <2>1. SweepInv /\ PinnedInv /\ sweep.pc # "delete"
    BY <1>2, <1>7 DEF IInv, Unlocked
  <2>2. SweepInv'
    BY <1>2, <2>1 DEF SweepInv
  <2>3. PinnedInv'
    BY <1>2, <1>3, <1>4, <2>1 DEF PinnedInv
  <2> QED BY <2>2, <2>3
<1> QED BY <1>4, <1>5, <1>6, <1>7 DEF IInv, KeysTellApart

------------------------------------------------------------------------------
(* The collector, time and the fleet.                                       *)

(* A step of the collector, or of the fleet, that moves no run, no editor   *)
(* and no writer.                                                           *)
LEMMA StillMetered ==
    ASSUME IInv, UNCHANGED <<run, editor, gate, publisher>>, blobs' \subseteq blobs,
           ledger'.charged = ledger.charged, ledger.released \subseteq ledger'.released
    PROVE  MeterInv'
<1>1. TypeOK /\ MeterInv
  BY DEF IInv
<1>2. Counted' \in SUBSET Counted /\ Admitted' = Admitted
  BY DEF Counted, Admitted
<1>3. IsFiniteSet(Counted')
  BY <1>1, <1>2, Used, FS_Subset
<1>4. \/ Cardinality(Counted') < MaxCASBytes
      \/ Cardinality(Counted') + Cardinality(Admitted') < MaxCASBytes + Cardinality(Writers)
  BY <1>1, <1>2, <1>3, SlackKept
<1>5. \A w \in Writers : DigestOf(w)' = DigestOf(w)
  BY DEF DigestOf
<1> QED BY <1>1, <1>4, <1>5 DEF MeterInv

LEMMA StillPlaced ==
    ASSUME IInv, UNCHANGED <<run, editor, gate>>,
           \A r \in Runs :
               DrainedRollout /\ run[r].pc \in {"running", "stored", "entry"} /\ run[r].at \in fleet
                   => run[r].at \in fleet',
           sweep'.pc = "age" => sweep'.gone = {}
    PROVE  PlaceInv'
<1>1. \A w \in Writers : CanWrite(w)' = CanWrite(w)
  BY DEF CanWrite
<1> QED BY <1>1 DEF IInv, PlaceInv

(* ListRuns, AgeOf, BeginCollect and Rollback change nothing but the sweep. *)
LEMMA SweepOnlyStep ==
    ASSUME IInv, ListRuns \/ (\E r \in Runs : AgeOf(r)) \/ BeginCollect \/ Rollback
    PROVE  IInv'
<1>1. TypeOK /\ PlaceInv
  BY DEF IInv
<1>2. UNCHANGED <<blobs, refs, row, carried, entries, fleet, run, editor, gate, ledger,
                  uploads, publisher>>
      /\ faults' \in Nat
  BY <1>1, ListRunsFx, AgeOfFx, BeginCollectFx, RollbackFx DEF TypeOK
<1>3. /\ sweep' \in SweepRecord /\ sweep'.gone = {}
      /\ \A r \in sweep'.expired : r \in sweep.expired \/ run[r].last = "old"
      /\ sweep'.pc = "delete" => /\ sweep'.doomed = Unpinned(sweep.expired)
                                 /\ sweep'.expired = sweep.expired
  <2>1. CASE ListRuns
    BY <1>1, <2>1, ListRunsFx
  <2>2. CASE \E r \in Runs : AgeOf(r)
    <3>1. PICK r \in Runs : AgeOf(r)
      BY <2>2
    <3>2. /\ sweep' \in SweepRecord /\ sweep.pc = "age" /\ sweep'.pc = "age"
          /\ \/ sweep'.expired = sweep.expired
             \/ sweep'.expired = sweep.expired \cup {r} /\ run[r].last = "old"
          /\ sweep'.gone = sweep.gone
      BY <1>1, <3>1, AgeOfFx
    <3> QED BY <1>1, <3>2 DEF PlaceInv
  <2>3. CASE BeginCollect
    <3>1. /\ sweep' \in SweepRecord /\ sweep.pc = "age"
          /\ sweep'.expired = sweep.expired
          /\ sweep'.gone = sweep.gone /\ sweep'.doomed = Unpinned(sweep.expired)
      BY <1>1, <2>3, BeginCollectFx
    <3> QED BY <1>1, <3>1 DEF PlaceInv
  <2>4. CASE Rollback
    BY <1>1, <2>4, RollbackFx, IdleSweepType
  <2> QED BY <2>1, <2>2, <2>3, <2>4
<1>4. PlaceInv'
  BY <1>2, <1>3, StillPlaced
<1>5. MeterInv'
  BY <1>2, StillMetered
<1>6. TypeOK'
  BY <1>1, <1>2, <1>3 DEF TypeOK, SweepRecord
<1>7. DrainedRollout /\ KeysTellApart => EntriesInv' /\ ServedItsOwnWork'
  BY <1>2 DEF IInv, EntriesInv, ServedItsOwnWork
<1>8. WriteLock => LeakInv'
  BY <1>2, <1>3 DEF IInv, LeakInv, NoLeakedUpload
<1>9. ASSUME WriteLock /\ ~LongPauses PROVE SweepInv' /\ PinnedInv'
  <2>1. SweepInv /\ PinnedInv
    BY <1>9 DEF IInv
  <2>2. sweep'.expired \subseteq Runs
    BY <1>3 DEF SweepRecord
  <2>3. \A r \in sweep'.expired : run'[r].pc = "done" /\ run'[r].last = "old"
    BY <1>2, <1>3, <2>1, <2>2 DEF SweepInv, PinnedInv
  <2>4. sweep'.pc = "delete" =>
          \A d \in sweep'.doomed :
              /\ d \notin carried'
              /\ \A r \in Runs : <<d, r>> \in refs' => r \in sweep'.expired
              /\ d \in Files => row'[d] # "young"
    BY <1>2, <1>3 DEF Unpinned
  <2>5. SweepInv'
    BY <2>3, <2>4 DEF SweepInv
  <2>6. PinnedInv'
    BY <1>2, <2>1 DEF PinnedInv
  <2> QED BY <2>5, <2>6
<1> QED BY <1>4, <1>5, <1>6, <1>7, <1>8, <1>9 DEF IInv, KeysTellApart

(* What is doomed is pinned by nobody: the collector judged it under its    *)
(* lock, and a run that is served, an edit and a revision came before.      *)
LEMMA DeleteBlobStep ==
    ASSUME IInv, NEW d \in Digests, DeleteBlob(d)
    PROVE  IInv'
<1>1. TypeOK /\ PlaceInv
  BY DEF IInv
<1>2. /\ sweep' \in SweepRecord /\ sweep.pc = "delete" /\ sweep'.pc = "delete"
      /\ d \in sweep.doomed /\ blobs' = blobs \ {d}
      /\ sweep'.expired = sweep.expired /\ sweep'.doomed = sweep.doomed
      /\ sweep'.gone = sweep.gone \cup {d}
      /\ UNCHANGED <<refs, row, carried, entries, fleet, run, editor, gate, ledger,
                     uploads, faults, publisher>>
  BY <1>1, DeleteBlobFx
<1>3. PlaceInv'
  BY <1>2, StillPlaced
<1>4. MeterInv'
  BY <1>2, StillMetered
<1>5. TypeOK'
  BY <1>1, <1>2 DEF TypeOK, SweepRecord
<1>6. DrainedRollout /\ KeysTellApart => EntriesInv' /\ ServedItsOwnWork'
  BY <1>2 DEF IInv, EntriesInv, ServedItsOwnWork
<1>7. WriteLock => LeakInv'
  BY <1>2 DEF IInv, LeakInv, NoLeakedUpload, Landing
<1>8. ASSUME WriteLock /\ ~LongPauses PROVE SweepInv' /\ PinnedInv'
  <2>1. SweepInv /\ PinnedInv
    BY <1>8 DEF IInv
  <2>2. SweepInv'
    BY <1>2, <2>1 DEF SweepInv
  <2>3. \A r \in Runs :
          (run[r].pc = "serve" \/ (run[r].pc = "done" /\ run[r].hit # None)) /\ run[r].last = "recent" =>
              run[r].hit # d
    BY <1>2, <2>1 DEF SweepInv, PinnedInv
  <2>4. \A x \in Editors : editor[x].pc = "save" => editor[x].file # d
    BY <1>1, <1>2, <2>1 DEF SweepInv, PinnedInv, PlaceInv
  <2>5. d \notin carried
    BY <1>2, <2>1 DEF SweepInv
  <2>6. PinnedInv'
    BY <1>2, <2>1, <2>3, <2>4, <2>5 DEF PinnedInv
  <2> QED BY <2>2, <2>6
<1> QED BY <1>3, <1>4, <1>5, <1>6, <1>7, <1>8 DEF IInv, KeysTellApart

LEMMA CommitStep ==
    ASSUME IInv, NEW all \in BOOLEAN, Commit(all)
    PROVE  IInv'
<1>1. TypeOK /\ PlaceInv
  BY DEF IInv
<1>2. /\ sweep' \in SweepRecord /\ sweep.pc = "delete" /\ sweep'.pc # "delete"
      /\ sweep'.expired = {} /\ sweep'.gone = {}
      /\ refs' = {y \in refs : y[2] \notin sweep.expired}
      /\ entries' = [k \in Keys |-> IF entries[k] \in sweep.doomed THEN None ELSE entries[k]]
      /\ row' = [f \in Files |-> IF f \in sweep.gone THEN "none" ELSE row[f]]
      /\ UNCHANGED <<blobs, carried, fleet, run, editor, gate, ledger, uploads, publisher>>
      /\ faults' \in Nat
  BY <1>1, CommitFx
<1>3. PlaceInv'
  BY <1>2, StillPlaced
<1>4. MeterInv'
  BY <1>2, StillMetered
<1>5. TypeOK'
  <2>1. refs' \subseteq Digests \X Runs
    BY <1>1, <1>2 DEF TypeOK
  <2>2. entries' \in [Keys -> Digests \cup {None}]
    BY <1>1, <1>2 DEF TypeOK
  <2>3. row' \in [Files -> {"none", "young", "old"}]
    BY <1>1, <1>2 DEF TypeOK
  <2> QED BY <1>1, <1>2, <2>1, <2>2, <2>3 DEF TypeOK, SweepRecord
<1>6. ASSUME DrainedRollout /\ KeysTellApart PROVE EntriesInv' /\ ServedItsOwnWork'
  <2>1. EntriesInv /\ ServedItsOwnWork
    BY <1>6 DEF IInv
  <2>2. ServedItsOwnWork'
    BY <1>2, <2>1 DEF ServedItsOwnWork
  <2>3. ASSUME NEW w \in Works, NEW e \in Envs, w.pure, entries'[Key(w, e)] # None
        PROVE  entries'[Key(w, e)] = <<w, e>>
    <3>1. Key(w, e) \in Keys
      BY DEF Keys
    <3>2. entries'[Key(w, e)] = entries[Key(w, e)]
      BY <1>2, <2>3, <3>1
    <3> QED BY <2>1, <2>3, <3>2 DEF EntriesInv
  <2> QED BY <2>2, <2>3 DEF EntriesInv
<1>7. ASSUME WriteLock PROVE LeakInv'
  <2>1. LeakInv
    BY <1>7 DEF IInv
  <2>2. ASSUME NEW f \in Files, f \in blobs, publisher[f] = "editor", row'[f] = "none"
        PROVE  Landing(f)'
    <3>1. f \in sweep.gone \/ row[f] = "none"
      BY <1>2, <2>2
    <3>2. Landing(f)
      BY <1>2, <2>1, <2>2, <3>1 DEF LeakInv, NoLeakedUpload, Landing
    <3> QED BY <1>2, <3>2 DEF Landing
  <2> QED BY <1>2, <2>2 DEF LeakInv, NoLeakedUpload, Landing
<1>8. ASSUME WriteLock /\ ~LongPauses PROVE SweepInv' /\ PinnedInv'
  <2>1. SweepInv /\ PinnedInv
    BY <1>8 DEF IInv
  <2>2. SweepInv'
    BY <1>2 DEF SweepInv
  <2>3. \A r \in Runs, c \in Digests : <<c, r>> \in refs /\ r \notin sweep.expired => <<c, r>> \in refs'
    BY <1>2
  <2>4. \A r \in Runs : run[r].hit # None => run[r].hit \in Digests
    BY <1>1 DEF TypeOK
  <2>5. \A r \in Runs :
          (run[r].pc = "serve" \/ (run[r].pc = "done" /\ run[r].hit # None)) /\ run[r].last = "recent" =>
              <<run[r].hit, r>> \in refs' /\ run[r].hit \in blobs
    <3> TAKE r \in Runs
    <3> HAVE (run[r].pc = "serve" \/ (run[r].pc = "done" /\ run[r].hit # None)) /\ run[r].last = "recent"
    <3>1. r \notin sweep.expired /\ <<run[r].hit, r>> \in refs /\ run[r].hit \in blobs
      BY <2>1 DEF SweepInv, PinnedInv
    <3>2. run[r].hit \in Digests
      BY <1>1, <3>1 DEF TypeOK
    <3> QED BY <2>3, <3>1, <3>2
  <2>6. \A x \in Editors : editor[x].pc \in {"uploaded", "save"} => row'[editor[x].file] = "young"
    <3> TAKE x \in Editors
    <3> HAVE editor[x].pc \in {"uploaded", "save"}
    <3>1. editor[x].file \in Files /\ row[editor[x].file] = "young"
      BY <1>1, <2>1 DEF PlaceInv, PinnedInv
    <3>2. editor[x].file \notin sweep.gone
      BY <1>1, <1>2, <2>1, <3>1 DEF SweepInv, TypeOK
    <3> QED BY <1>2, <3>1, <3>2
  <2>7. PinnedInv'
    BY <1>2, <2>1, <2>5, <2>6 DEF PinnedInv
  <2> QED BY <2>2, <2>7
<1> QED BY <1>3, <1>4, <1>5, <1>6, <1>7, <1>8 DEF IInv, KeysTellApart

LEMMA CreditStep ==
    ASSUME IInv, NEW d \in Digests, Credit(d)
    PROVE  IInv'
<1>1. TypeOK /\ PlaceInv
  BY DEF IInv
<1>2. /\ sweep' \in SweepRecord /\ sweep.pc = "credit" /\ sweep'.pc # "delete"
      /\ sweep'.expired \subseteq sweep.expired /\ sweep'.gone \subseteq sweep'.doomed
      /\ ledger' \in [charged : SUBSET Digests, released : SUBSET Digests]
      /\ ledger'.charged = ledger.charged
      /\ ledger.released \subseteq ledger'.released /\ ledger'.released \subseteq ledger'.charged
      /\ UNCHANGED <<blobs, refs, row, carried, entries, fleet, run, editor, gate,
                     uploads, publisher>>
      /\ faults' \in Nat
  BY <1>1, CreditFx
<1>3. sweep'.pc # "age"
  <2>1. sweep' = IdleSweep \/ sweep' = [sweep EXCEPT !.freed = @ \ {d}]
    BY DEF Credit
  <2>2. sweep \in SweepRecord
    BY <1>1 DEF TypeOK, SweepRecord
  <2> QED BY <1>2, <2>1, <2>2, IdleSweepType DEF SweepRecord
<1>4. PlaceInv'
  BY <1>2, <1>3, StillPlaced
<1>5. MeterInv'
  BY <1>2, StillMetered
<1>6. TypeOK'
  BY <1>1, <1>2 DEF TypeOK, SweepRecord
<1>7. DrainedRollout /\ KeysTellApart => EntriesInv' /\ ServedItsOwnWork'
  BY <1>2 DEF IInv, EntriesInv, ServedItsOwnWork
<1>8. WriteLock => LeakInv'
  BY <1>2 DEF IInv, LeakInv, NoLeakedUpload
<1>9. WriteLock /\ ~LongPauses => SweepInv' /\ PinnedInv'
  BY <1>2 DEF IInv, SweepInv, PinnedInv
<1> QED BY <1>4, <1>5, <1>6, <1>7, <1>8, <1>9 DEF IInv, KeysTellApart

LEMMA FileAgesStep ==
    ASSUME IInv, NEW f \in Files, FileAges(f)
    PROVE  IInv'
<1>1. TypeOK /\ PlaceInv
  BY DEF IInv
<1>2. /\ row' = [row EXCEPT ![f] = "old"]
      /\ ~LongPauses => \A x \in Editors : editor[x].file = f => editor[x].pc \in {"idle", "record"}
      /\ row[f] = "young"
      /\ UNCHANGED <<blobs, refs, carried, entries, fleet, run, editor, gate, ledger, sweep,
                     uploads, faults, publisher>>
  BY <1>1, FileAgesFx
<1>3. PlaceInv' /\ MeterInv'
  BY <1>1, <1>2, StillPlaced, StillMetered DEF PlaceInv
<1>4. row' \in [Files -> {"none", "young", "old"}] /\ row'[f] = "old"
      /\ \A g \in Files : g # f => row'[g] = row[g]
  BY <1>1, <1>2 DEF TypeOK
<1>5. TypeOK'
  BY <1>1, <1>2, <1>4 DEF TypeOK
<1>6. DrainedRollout /\ KeysTellApart => EntriesInv' /\ ServedItsOwnWork'
  BY <1>2 DEF IInv, EntriesInv, ServedItsOwnWork
<1>7. WriteLock => LeakInv'
  <2>1. \A g \in Files : row'[g] = "none" => row[g] = "none"
    BY <1>2, <1>4
  <2> QED BY <1>2, <2>1 DEF IInv, LeakInv, NoLeakedUpload, Landing
<1>8. ASSUME WriteLock /\ ~LongPauses PROVE SweepInv' /\ PinnedInv'
  <2>1. SweepInv /\ PinnedInv
    BY <1>8 DEF IInv
  <2>2. SweepInv'
    BY <1>2, <1>4, <2>1 DEF SweepInv
  <2>3. \A x \in Editors : editor[x].pc \in {"uploaded", "save"} => row'[editor[x].file] = "young"
    BY <1>1, <1>2, <1>4, <1>8, <2>1 DEF PinnedInv, PlaceInv
  <2>4. PinnedInv'
    BY <1>2, <2>1, <2>3 DEF PinnedInv
  <2> QED BY <2>2, <2>4
<1> QED BY <1>3, <1>5, <1>6, <1>7, <1>8 DEF IInv, KeysTellApart

LEMMA FleetStep ==
    ASSUME IInv, NEW e \in Envs, EngineJoins(e) \/ EngineLeaves(e)
    PROVE  IInv'
<1>1. TypeOK /\ PlaceInv
  BY DEF IInv
<1>2. /\ fleet' \in (SUBSET Envs) \ {{}}
      /\ \A r \in Runs :
            DrainedRollout /\ run[r].pc \in {"running", "stored", "entry"} /\ run[r].at \in fleet
                => run[r].at \in fleet'
      /\ UNCHANGED <<blobs, refs, row, carried, entries, run, editor, gate, ledger, sweep,
                     uploads, faults, publisher>>
  BY <1>1, FleetFx
<1>3. PlaceInv' /\ MeterInv'
  BY <1>1, <1>2, StillPlaced, StillMetered DEF PlaceInv
<1>4. TypeOK'
  BY <1>1, <1>2 DEF TypeOK
<1>5. DrainedRollout /\ KeysTellApart => EntriesInv' /\ ServedItsOwnWork'
  BY <1>2 DEF IInv, EntriesInv, ServedItsOwnWork
<1>6. WriteLock => LeakInv'
  BY <1>2, LeakKept DEF IInv
<1>7. WriteLock /\ ~LongPauses => SweepInv' /\ PinnedInv'
  BY <1>2 DEF IInv, SweepInv, PinnedInv
<1> QED BY <1>3, <1>4, <1>5, <1>6, <1>7 DEF IInv, KeysTellApart

LEMMA StutterStep ==
    ASSUME IInv, UNCHANGED vars
    PROVE  IInv'
<1>1. UNCHANGED <<blobs, refs, row, carried, entries, fleet, run, editor, gate, ledger, sweep,
                  uploads, faults, publisher>>
  BY DEF vars, db, meter
<1>2. TypeOK'
  BY <1>1 DEF IInv, TypeOK
<1>3. PlaceInv' /\ MeterInv'
  BY <1>1, StillPlaced, StillMetered DEF IInv, PlaceInv
<1>4. DrainedRollout /\ KeysTellApart => EntriesInv' /\ ServedItsOwnWork'
  BY <1>1 DEF IInv, EntriesInv, ServedItsOwnWork
<1>5. WriteLock => LeakInv'
  BY <1>1, LeakKept DEF IInv
<1>6. WriteLock /\ ~LongPauses => SweepInv' /\ PinnedInv'
  BY <1>1 DEF IInv, SweepInv, PinnedInv
<1> QED BY <1>2, <1>3, <1>4, <1>5, <1>6 DEF IInv, KeysTellApart

------------------------------------------------------------------------------
(* The invariant holds at first.                                            *)
LEMMA InitIInv ==
    ASSUME Init
    PROVE  IInv
<1>1. PICK w \in Works, e \in Envs, earlier \in SUBSET Files :
          /\ w.pure
          /\ fleet = {e}
          /\ blobs = {<<w, e>>} \cup earlier /\ Cardinality(blobs) <= MaxCASBytes
          /\ row = [f \in Files |-> IF f \in earlier THEN "old" ELSE "none"]
          /\ publisher = [d \in Digests |-> IF d = <<w, e>> THEN "engine"
                                           ELSE IF d \in earlier THEN "editor" ELSE "nobody"]
          /\ entries = [k \in Keys |-> IF k = Key(w, e) THEN <<w, e>> ELSE None]
  BY DEF Init
<1>2. PICK job \in [Runs -> Works] : run = [r \in Runs |-> NewRun(job[r])]
  BY DEF Init
<1>3. /\ <<w, e>> \in Digests /\ Files \subseteq Digests /\ blobs \subseteq Digests
  BY <1>1, StorageAssumption DEF Digests
<1>4. /\ \A r \in Runs : /\ run[r] \in RunRecord /\ run[r].pc = "ready" /\ run[r].hit = None
                         /\ run[r].last = "recent"
      /\ run \in [Runs -> RunRecord]
  BY <1>2 DEF NewRun, RunRecord
<1>5. /\ editor \in [Editors -> EditorRecord] /\ \A x \in Editors : editor[x].pc = "idle"
      /\ gate \in [Writers -> GateRecord] /\ \A v \in Writers : gate[v].at = "outside" /\ gate[v].n = 0
  BY DEF Init, IdleEditor, Outside, EditorRecord, GateRecord
<1>6. ledger.charged = blobs /\ ledger.released = {}
      /\ ledger \in [charged : SUBSET Digests, released : SUBSET Digests]
  BY <1>3 DEF Init
<1>7. /\ sweep \in SweepRecord /\ sweep.pc = "idle" /\ sweep.expired = {} /\ sweep.gone = {}
  BY IdleSweepType DEF Init
<1>8. TypeOK
  <2>1. entries \in [Keys -> Digests \cup {None}]
    BY <1>1, <1>3
  <2>2. publisher \in [Digests -> {"nobody", "engine", "editor"}] /\ row \in [Files -> {"none", "young", "old"}]
    BY <1>1
  <2>3. fleet \in (SUBSET Envs) \ {{}} /\ refs = {} /\ carried = {} /\ uploads = 0 /\ faults = 0
    BY <1>1 DEF Init
  <2> QED BY <1>3, <1>4, <1>5, <1>6, <1>7, <2>1, <2>2, <2>3
        DEF TypeOK, RunRecord, EditorRecord, GateRecord, SweepRecord
<1>9. PlaceInv
  BY <1>4, <1>5, <1>7 DEF PlaceInv
<1>10. MeterInv
  <2>1. Counted = blobs /\ Admitted = {}
    BY <1>5, <1>6 DEF Counted, Admitted
  <2>2. IsFiniteSet(earlier)
    BY <1>1, StorageAssumption, FS_Subset
  <2>3. blobs = earlier \cup {<<w, e>>}
    BY <1>1
  <2>4. IsFiniteSet(blobs)
    BY <2>2, <2>3, FS_AddElement
  <2>5. Cardinality(blobs) \in Nat
    BY <2>4, FS_CardinalityType
  <2>6. IsFiniteSet(Writers) /\ Writers # {}
    BY StorageAssumption, FS_Union DEF Writers
  <2>7. Cardinality(Writers) \in Nat /\ Cardinality(Writers) # 0 /\ Cardinality(Admitted) = 0
    BY <2>1, <2>6, FS_CardinalityType, FS_EmptySet
  <2>8. Cardinality(Counted) + Cardinality(Admitted) < MaxCASBytes + Cardinality(Writers)
    BY <1>1, <2>1, <2>5, <2>7, StorageAssumption
  <2> QED BY <1>5, <1>6, <2>4, <2>8 DEF MeterInv
<1>11. DrainedRollout /\ KeysTellApart => EntriesInv /\ ServedItsOwnWork
  <2>1. ServedItsOwnWork
    BY <1>4 DEF ServedItsOwnWork
  <2>2. ASSUME KeysTellApart, NEW v \in Works, NEW f \in Envs, v.pure, entries[Key(v, f)] # None
        PROVE  entries[Key(v, f)] = <<v, f>>
    <3>1. Key(v, f) \in Keys
      BY DEF Keys
    <3>2. Key(v, f) = Key(w, e) /\ entries[Key(v, f)] = <<w, e>>
      BY <1>1, <2>2, <3>1
    <3>3. v.plugin = w.plugin /\ f = e /\ Sorted(v.inputs) = Sorted(w.inputs)
      BY <3>2 DEF Key
    <3> QED BY <1>1, <2>2, <3>2, <3>3 DEF KeysTellApart
  <2> QED BY <2>1, <2>2 DEF EntriesInv
<1>12. LeakInv
  <2>1. \A f \in Files : publisher[f] = "editor" => row[f] # "none"
    BY <1>1, <1>3
  <2> QED BY <1>7, <2>1 DEF LeakInv, NoLeakedUpload
<1>13. SweepInv /\ PinnedInv
  <2>1. carried = {}
    BY DEF Init
  <2> QED BY <1>4, <1>5, <1>7, <2>1 DEF SweepInv, PinnedInv
<1> QED BY <1>8, <1>9, <1>10, <1>11, <1>12, <1>13 DEF IInv

------------------------------------------------------------------------------
(***************************************************************************)
(* The inductive invariant: the places of runs, editors and writers, the   *)
(* rows, the bytes, the ledger and what the collector has decided, kept by *)
(* every step of every one of them.                                        *)
(***************************************************************************)
THEOREM StoresAgree == Spec => []IInv
<1>1. ASSUME IInv, [Next]_vars PROVE IInv'
  <2>1. ASSUME NEW r \in Runs, RunStep(r) \/ RunAges(r) PROVE IInv'
    BY <1>1, <2>1, LookupStep, ReferenceStep, RecordHitStep, ExecuteStep, ReportStep,
       RecordEntryStep, RunAgesStep DEF RunStep
  <2>2. ASSUME NEW x \in Editors, EditorStep(x) \/ \E f \in Files : PutFile(x, f) PROVE IInv'
    BY <1>1, <2>2, RecordFileStep, CheckFileStep, SaveRevisionStep, PutFileStep DEF EditorStep
  <2>3. ASSUME NEW w \in Writers, GateStep(w) PROVE IInv'
    BY <1>1, <2>3, AdmitStep, PutBlobStep, ChargeStep DEF GateStep
  <2>4. CASE SweepStep \/ Rollback
    BY <1>1, <2>4, SweepOnlyStep, DeleteBlobStep, CommitStep, CreditStep DEF SweepStep
  <2>5. CASE \E f \in Files : FileAges(f)
    BY <1>1, <2>5, FileAgesStep
  <2>6. CASE \E e \in Envs : EngineJoins(e) \/ EngineLeaves(e)
    BY <1>1, <2>6, FleetStep
  <2>7. CASE UNCHANGED vars
    BY <1>1, <2>7, StutterStep
  <2> QED BY <1>1, <2>1, <2>2, <2>3, <2>4, <2>5, <2>6, <2>7 DEF Next
<1> QED BY <1>1, InitIInv, PTL DEF Spec

(***************************************************************************)
(* Every variable keeps its type.                                          *)
(***************************************************************************)
THEOREM StorageTypeOK == Spec => []TypeOK
<1>1. IInv => TypeOK
  BY DEF IInv
<1> QED BY <1>1, StoresAgree, PTL

(***************************************************************************)
(* A hit is the step's own work: lookup and record compute the key at      *)
(* different times, but an engine that has not been drained of its reports *)
(* is still in the fleet when recordCacheEntry reads it, and the key tells *)
(* the works apart unless they differ in the order of their inputs only.   *)
(***************************************************************************)
THEOREM ServesItsOwnWork ==
    ASSUME DrainedRollout, KeysTellApart PROVE Spec => []ServedItsOwnWork
<1>1. IInv => ServedItsOwnWork
  BY DEF IInv
<1> QED BY <1>1, StoresAgree, PTL

(***************************************************************************)
(* While the collector's transaction excludes every other statement and    *)
(* nothing pauses for the retain window, what the log and the revisions    *)
(* name can be read: Reference and checkDefinitionFiles find bytes that no *)
(* sweep under way has judged, and the next one finds them pinned.         *)
(***************************************************************************)
THEOREM NamedStaysReadable ==
    ASSUME WriteLock, ~LongPauses PROVE Spec => []NamedIsReadable
<1>1. ASSUME IInv PROVE NamedIsReadable
  <2>1. PlaceInv /\ PinnedInv
    BY <1>1 DEF IInv
  <2>2. HitsReadable
    BY <2>1 DEF HitsReadable, PlaceInv, PinnedInv
  <2>3. FilesReadable
    BY <2>1 DEF FilesReadable, PinnedInv
  <2> QED BY <2>2, <2>3 DEF NamedIsReadable
<1> QED BY <1>1, StoresAgree, PTL

(***************************************************************************)
(* What is stored is metered, whatever the database: bytes a caller was    *)
(* given the digest of have been charged for, and the total passes the     *)
(* limit by less than a blob for each writer.                              *)
(***************************************************************************)
THEOREM StoredIsMetered == Spec => []Metered
<1>1. ASSUME IInv PROVE Metered
  <2>1. TypeOK /\ MeterInv
    BY <1>1 DEF IInv
  <2>2. IsFiniteSet(Writers) /\ Runs # {}
    BY StorageAssumption, FS_Union DEF Writers
  <2>3. Writers # {} /\ Admitted \in SUBSET Writers
    BY <2>2 DEF Writers, Admitted
  <2>4. Cardinality(Writers) \in Nat /\ Cardinality(Writers) # 0 /\ Cardinality(Admitted) \in Nat
    BY <2>2, <2>3, FS_CardinalityType, FS_EmptySet, FS_Subset
  <2>5. Cardinality(Counted) < MaxCASBytes + Cardinality(Writers)
    BY <2>1, <2>4, Used, StorageAssumption DEF MeterInv
  <2> QED BY <2>1, <2>5 DEF Metered, MeterInv, Counted
<1> QED BY <1>1, StoresAgree, PTL

(***************************************************************************)
(* While the collector's transaction excludes every other statement, what  *)
(* is stored is known to the collector and to the ledger.                  *)
(***************************************************************************)
THEOREM StoredStaysAccounted ==
    ASSUME WriteLock PROVE Spec => []StoredIsAccounted
<1>1. IInv => NoLeakedUpload
  BY DEF IInv, LeakInv
<1>2. NoLeakedUpload /\ Metered => StoredIsAccounted
  BY DEF StoredIsAccounted
<1> QED BY <1>1, <1>2, StoresAgree, StoredIsMetered, PTL
==============================================================================
