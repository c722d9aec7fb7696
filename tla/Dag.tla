-------------------------------- MODULE Dag --------------------------------
(***************************************************************************)
(* What is computed from a definition alone: the order of its steps         *)
(* (internal/dag), what connects to what (dag.TypeCheck, dag.FileInputs,    *)
(* scheduler.inputsFor), what a dry run answers (internal/api/plan.go) and  *)
(* what an author is told (internal/api/validate.go, internal/catalog).     *)
(*                                                                         *)
(* A pipeline is steps, edges [from, out, to, in] and files <<path,         *)
(* digest>>.  A step has its input and output ports, lists of [name, type], *)
(* the files it binds to ports, <<path, port>>, and what placement and the  *)
(* cache ask of it.  "" stands for what was left out.                       *)
(***************************************************************************)
EXTENDS Integers, Sequences, FiniteSets, SequencesExt, FiniteSetsExt

Ids(p) == [i \in DOMAIN p.steps |-> p.steps[i].id]
Pairs(p) == {<<e.from, e.to>> : e \in Range(p.edges)}

(* The graph: two edges between one pair of steps are one dependency.       *)
Dependents(pairs, id) == {e[2] : e \in {x \in pairs : x[1] = id}}
Indegree(pairs, id) == Cardinality({x \in pairs : x[2] = id})

(* findCycle: a depth-first search in a fixed order.  A step on the path is *)
(* grey, one that is finished black; the cycle is the tail of the path from *)
(* the grey step that was met, which is repeated at its end.                *)
RECURSIVE Visit(_, _, _, _)
Visit(pairs, id, path, black) ==
    LET grey == Append(path, id)
        Look(acc, d) ==
            CASE acc.cycle # <<>> \/ d \in acc.black -> acc
              [] acc.cycle = <<>> /\ d \in Range(grey) ->
                    [acc EXCEPT !.cycle = Append(SubSeq(grey, SelectInSeq(grey, LAMBDA x : x = d),
                                                        Len(grey)), d)]
              [] OTHER -> Visit(pairs, d, grey, acc.black)
        looked == FoldLeft(Look, [cycle |-> <<>>, black |-> black],
                           SetToSeq(Dependents(pairs, id)))
    IN  IF looked.cycle # <<>> THEN looked ELSE [looked EXCEPT !.black = @ \cup {id}]

findCycle(ids, pairs) ==
    FoldLeft(LAMBDA acc, id : IF acc.cycle # <<>> \/ id \in acc.black THEN acc
                              ELSE Visit(pairs, id, <<>>, acc.black),
             [cycle |-> <<>>, black |-> {}], SetToSeq(Range(ids))).cycle

(* Build: why there is no graph, "" when there is one.                      *)
Build(ids, pairs) ==
    CASE "" \in Range(ids) -> "empty id"
      [] ~IsInjective(ids) -> "duplicate step"
      [] \E e \in pairs : {e[1], e[2]} \ Range(ids) # {} -> "unknown step"
      [] OTHER -> IF findCycle(ids, pairs) # <<>> THEN "cycle" ELSE ""

(* TopoLevels: Kahn's algorithm, a wave of steps at a time.                 *)
RECURSIVE Waves(_, _, _)
Waves(pairs, remaining, level) ==
    IF level = {} THEN <<>>
    ELSE LET met(d) == Cardinality({id \in level : d \in Dependents(pairs, id)})
             left == [d \in DOMAIN remaining |-> remaining[d] - met(d)]
         IN  <<level>> \o Waves(pairs, left, {d \in DOMAIN left : met(d) > 0 /\ left[d] = 0})

TopoLevels(ids, pairs) ==
    LET indegree == [id \in Range(ids) |-> Indegree(pairs, id)]
    IN  Waves(pairs, indegree, {id \in Range(ids) : indegree[id] = 0})

-----------------------------------------------------------------------------
(* Types.  A port's type is [kind, schema]: "blob", "structured" with the   *)
(* id of its schema, or "untyped".                                          *)
NoPort == [name |-> "", type |-> [kind |-> "none", schema |-> ""]]

findPort(ports, name) ==
    LET i == SelectInSeq(ports, LAMBDA p : p.name = name) IN IF i = 0 THEN NoPort ELSE ports[i]

Incompatible(out, in) ==
    \/ out.kind # in.kind
    \/ out.kind = "structured" /\ out.schema # in.schema
    \/ out.kind = "untyped"

StepByID(p, id) ==
    LET i == SelectInSeq(p.steps, LAMBDA s : s.id = id) IN p.steps[i]

Defined(p, id) == id \in Range(Ids(p))

Diagnostic(step, port, why) == [step |-> step, port |-> port, why |-> why]

(* One finding for an edge that cannot carry data, on the end to change.    *)
EdgeDiagnostic(p, e) ==
    IF ~Defined(p, e.from) THEN {Diagnostic(e.from, e.out, "no such step")}
    ELSE IF ~Defined(p, e.to) THEN {Diagnostic(e.to, e.in, "no such step")}
    ELSE LET out == findPort(StepByID(p, e.from).outs, e.out)
             in == findPort(StepByID(p, e.to).ins, e.in)
         IN  IF out = NoPort THEN {Diagnostic(e.from, e.out, "no such port")}
             ELSE IF in = NoPort THEN {Diagnostic(e.to, e.in, "no such port")}
             ELSE IF Incompatible(out.type, in.type) THEN {Diagnostic(e.to, e.in, "types")}
             ELSE {}

Carried(p) == {f[1] : f \in Range(p.files)}

checkFileBindings(p) ==
    UNION {UNION {IF b[1] \notin Carried(p) THEN {Diagnostic(s.id, b[2], "no such file")}
                  ELSE IF findPort(s.ins, b[2]) = NoPort THEN {Diagnostic(s.id, b[2], "no such port")}
                  ELSE {} : b \in Range(s.binds)} : s \in Range(p.steps)}

TypeCheck(p) == UNION {EdgeDiagnostic(p, e) : e \in Range(p.edges)} \cup checkFileBindings(p)

-----------------------------------------------------------------------------
(* Inputs.  What a step reported is outputs[step], a list of <<port,        *)
(* digest>>.  An input is <<port, digest>>.                                 *)
Failed == [ok |-> FALSE]
Resolved(inputs) == [ok |-> TRUE, inputs |-> inputs]

\* The last file of a path counts.
DigestOf(p, path) ==
    LET at == {i \in DOMAIN p.files : p.files[i][1] = path} IN p.files[Max(at)][2]

FileInputs(p, s) ==
    IF \E b \in Range(s.binds) : b[1] \notin Carried(p) \/ DigestOf(p, b[1]) = ""
    THEN Failed
    ELSE Resolved([i \in DOMAIN s.binds |-> <<s.binds[i][2], DigestOf(p, s.binds[i][1])>>])

EdgesTo(p, s) == SelectSeq(p.edges, LAMBDA e : e.to = s.id)
Reported(outputs, id) == IF id \in DOMAIN outputs THEN outputs[id] ELSE <<>>
OnPort(outs, port) == SelectSeq(outs, LAMBDA o : o[1] = port)

(* inputsFor: the files, then every output an edge names, in edge order.    *)
inputsFor(p, s, outputs) ==
    LET files == FileInputs(p, s)
        over(e) == LET found == OnPort(Reported(outputs, e.from), e.out)
                   IN  [i \in DOMAIN found |-> <<e.in, found[i][2]>>]
    IN  IF ~files.ok THEN Failed
        ELSE Resolved(FoldLeft(LAMBDA acc, e : acc \o over(e), files.inputs, EdgesTo(p, s)))

(* inputDigests of the scheduler: all of them, or none.  One edge whose     *)
(* source port reported nothing leaves the step without a key.              *)
inputDigests(p, s, outputs) ==
    LET files == FileInputs(p, s)
        found(e) == OnPort(Reported(outputs, e.from), e.out)
    IN  IF ~files.ok \/ \E e \in Range(EdgesTo(p, s)) : found(e) = <<>> THEN Failed
        ELSE Resolved([i \in DOMAIN files.inputs |-> files.inputs[i][2]]
                      \o [i \in DOMAIN EdgesTo(p, s) |-> Head(found(EdgesTo(p, s)[i]))[2]])

-----------------------------------------------------------------------------
(* Keys and placement.                                                      *)

(* StepEnvironment: the image the step pins, nothing for one that is only   *)
(* tagged, and else what the engines it may reach agree on.                 *)
StepEnvironment(s, tier) ==
    CASE s.image = "" -> tier [] s.image = "tag" -> "" [] OTHER -> s.image

Reaches(fleet, kind) == {e \in fleet : kind = "" \/ kind \in Range(e.kinds)}

TierIdentity(fleet, kind) ==
    LET seen == {e.env : e \in Reaches(fleet, kind)}
    IN  IF Cardinality(seen) = 1 THEN CHOOSE x \in seen : TRUE ELSE ""

(* leaseScopeOf and executorLeaseScope: only a sandbox made for the step    *)
(* holds no earlier occupant's state.                                       *)
Shared(s) == s.scope \notin {"", "step"}

Cacheable(s, env) == s.effect = "PURE" /\ ~Shared(s) /\ env # ""

(* cache.Key, whose inputs are sorted.                                      *)
KeyOf(s, env, digests) ==
    [plugin |-> s.plugin, env |-> env,
     inputs |-> [d \in Range(digests) |-> Cardinality({i \in DOMAIN digests : digests[i] = d})]]

Matched(fleet, s) == {e \in Reaches(fleet, s.kind) : e.ready /\ s.caps \subseteq e.caps}

(* kindOf: the first kind the instance that matched names.                  *)
kindOf(e) == IF e.kinds = <<>> THEN "" ELSE Head(e.kinds)

-----------------------------------------------------------------------------
(* Plan, over the steps a level at a time.  entries is the cache, from keys *)
(* to outputs; known the outputs of the steps that would be hits.           *)
NoEntry == <<>>
Lookup(entries, key) == IF key \in DOMAIN entries THEN [hit |-> TRUE, outputs |-> entries[key]]
                        ELSE [hit |-> FALSE]

digestsByPort(outputs) ==
    LET ports == {o[1] : o \in Range(outputs)}
    IN  [x \in ports |-> outputs[Max({i \in DOMAIN outputs : outputs[i][1] = x})][2]]

(* plan.go's inputDigests: no key below a step that would really run.       *)
PlannedDigests(p, s, known) ==
    LET files == FileInputs(p, s)
        missing(e) == e.from \notin DOMAIN known \/ e.out \notin DOMAIN known[e.from]
    IN  IF ~files.ok \/ \E e \in Range(EdgesTo(p, s)) : missing(e) THEN Failed
        ELSE Resolved([i \in DOMAIN files.inputs |-> files.inputs[i][2]]
                      \o [i \in DOMAIN EdgesTo(p, s) |->
                            LET e == EdgesTo(p, s)[i] IN known[e.from][e.out]])

PlannedLookup(p, s, env, entries, known) ==
    LET digests == PlannedDigests(p, s, known)
    IN  IF digests.ok THEN Lookup(entries, KeyOf(s, env, digests.inputs)) ELSE [hit |-> FALSE]

PlanStep(p, s, fleet, entries, known) ==
    LET env == StepEnvironment(s, TierIdentity(fleet, s.kind))
        found == PlannedLookup(p, s, env, entries, known)
    IN  IF Cacheable(s, env) /\ found.hit
        THEN [x \in DOMAIN known \cup {s.id} |->
                IF x = s.id THEN digestsByPort(found.outputs) ELSE known[x]]
        ELSE known

(* The steps a plan reports as hits.                                        *)
Plan(p, fleet, entries) ==
    DOMAIN FoldLeft(LAMBDA known, level :
                        FoldLeft(LAMBDA k, id : PlanStep(p, StepByID(p, id), fleet, entries, k),
                                 known, SetToSeq(level)),
                    NoEntry, TopoLevels(Ids(p), Pairs(p)))

-----------------------------------------------------------------------------
(* Validate.  A manifest of the catalog has the effect class and the kind   *)
(* of a plugin; published is from references to manifests.                  *)
effectRank(class) ==
    CASE class = "PURE" -> 1 [] class = "IDEMPOTENT" -> 2 [] class = "AT_MOST_ONCE" -> 3 [] OTHER -> 0

(* A half-declared manifest is refused: the effect class is mandatory and   *)
(* both schemas compile.                                                    *)
ValidManifest(m) == effectRank(m.effect) > 0 /\ m.compiles

(* Publish: a version is immutable, and the same manifest again is no error.*)
Publish(published, ref, m) ==
    IF ~ValidManifest(m) \/ ref \in DOMAIN published THEN published
    ELSE [r \in DOMAIN published \cup {ref} |-> IF r = ref THEN m ELSE published[r]]

(* ResolveStep: silence inherits, and only claiming a weaker class than the *)
(* plugin's is warned of.                                                   *)
ResolveStep(published, s) ==
    IF s.plugin \notin DOMAIN published THEN [found |-> FALSE]
    ELSE LET plugin == published[s.plugin].effect
         IN  [found |-> TRUE, effect |-> IF s.effect = "" THEN plugin ELSE s.effect,
              warned |-> s.effect # "" /\ effectRank(s.effect) < effectRank(plugin)]

pluginDiagnostics(p, published) ==
    UNION {LET entry == ResolveStep(published, s) IN
           CASE s.plugin = "" -> {}
             [] s.plugin # "" /\ ~entry.found -> {Diagnostic(s.id, "", "no such plugin")}
             [] OTHER -> IF entry.warned THEN {Diagnostic(s.id, "", "widened")} ELSE {}
           : s \in Range(p.steps)}

schedulabilityDiagnostics(p, fleet) ==
    {Diagnostic(s.id, "", "no engine") : s \in {x \in Range(p.steps) : Matched(fleet, x) = {}}}

Validate(p, published, fleet) ==
    TypeCheck(p)
    \cup (IF Build(Ids(p), Pairs(p)) # "" THEN {Diagnostic("", "", "no order")} ELSE {})
    \cup {Diagnostic(s.id, "", "secrets") : s \in {x \in Range(p.steps) : ~x.declarable}}
    \cup pluginDiagnostics(p, published) \cup schedulabilityDiagnostics(p, fleet)

-----------------------------------------------------------------------------
(* What Build, findCycle and TopoLevels owe each other, against the closure *)
(* of the edges: a cycle is reported exactly when some step reaches itself, *)
(* and it is one; else every step is in one level, the earliest that its    *)
(* predecessors allow.                                                      *)
LOCAL Rel == INSTANCE Relation
OrderIsSound(ids, pairs) ==
    LET steps == Range(ids)
        reach == Rel!TransitiveClosure([x \in steps \X steps |-> x \in pairs], steps)
        cycle == findCycle(ids, pairs)
        levels == TopoLevels(ids, pairs)
        level(id) == CHOOSE n \in DOMAIN levels : id \in levels[n]
    IN  IF \E id \in steps : reach[id, id]
        THEN /\ Build(ids, pairs) = "cycle" /\ cycle[1] = cycle[Len(cycle)]
             /\ \A i \in 1 .. Len(cycle) - 1 : <<cycle[i], cycle[i + 1]>> \in pairs
             /\ UNION Range(levels) # steps
        ELSE /\ Build(ids, pairs) = ""
             /\ \A id \in steps : Cardinality({n \in DOMAIN levels : id \in levels[n]}) = 1
             /\ \A id \in steps :
                   level(id) = 1 + Max({0} \cup {level(e[1]) : e \in {x \in pairs : x[2] = id}})

(* The scheduler, from the first pass on, while no step has to run: a step  *)
(* whose predecessors have their outputs is served when its key is there.   *)
RECURSIVE Serves(_, _, _, _)
Serves(p, fleet, entries, outputs) ==
    LET env(s) == StepEnvironment(s, TierIdentity(fleet, s.kind))
        found(s) == LET digests == inputDigests(p, s, outputs)
                    IN  IF digests.ok THEN Lookup(entries, KeyOf(s, env(s), digests.inputs))
                        ELSE [hit |-> FALSE]
        now == {s \in Range(p.steps) :
                  /\ s.id \notin DOMAIN outputs
                  /\ \A e \in Range(EdgesTo(p, s)) : e.from \in DOMAIN outputs
                  /\ Cacheable(s, env(s)) /\ found(s).hit}
    IN  IF now = {} THEN DOMAIN outputs
        ELSE Serves(p, fleet, entries,
                [x \in DOMAIN outputs \cup {s.id : s \in now} |->
                    IF x \in DOMAIN outputs THEN outputs[x] ELSE found(StepByID(p, x)).outputs])

(* A plan predicts what a run finds: the steps it calls hits are the ones   *)
(* the scheduler would serve, which computes its keys by other code.        *)
PlanPredicts(p, fleet, entries) ==
    Build(Ids(p), Pairs(p)) = "" => Plan(p, fleet, entries) = Serves(p, fleet, entries, NoEntry)

(* The key and the dispatch are of one mind: where a step has a key, it is  *)
(* hashed over the digests the engine is handed, in the same order.         *)
KeyIsOfTheDispatch(p, s, outputs) ==
    LET digests == inputDigests(p, s, outputs)
        given == inputsFor(p, s, outputs)
    IN  digests.ok => given.ok /\ digests.inputs = [i \in DOMAIN given.inputs |-> given.inputs[i][2]]

(* A definition no diagnostic speaks of dispatches whole: once its          *)
(* predecessors have reported what they declare, every port of a step that  *)
(* an edge or a file is bound to has an input.                              *)
CleanDispatches(p, published, fleet, digest) ==
    Validate(p, published, fleet) = {} =>
        LET outputs == [id \in Range(Ids(p)) |->
                          [i \in DOMAIN StepByID(p, id).outs |-> <<StepByID(p, id).outs[i].name, digest>>]]
        IN  \A s \in Range(p.steps) :
                LET given == inputsFor(p, s, outputs)
                IN  /\ given.ok
                    /\ {x[1] : x \in Range(given.inputs)}
                         = {b[2] : b \in Range(s.binds)} \cup {e.in : e \in Range(EdgesTo(p, s))}
                    /\ \A x \in Range(given.inputs) : findPort(s.ins, x[1]) # NoPort

=============================================================================
