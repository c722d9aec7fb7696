--------------------------- MODULE MCDefinitions ---------------------------
(* Two people edit, approve and run a pipeline of two steps.                *)
EXTENDS Definitions, Dag, TLC
Symmetry == Permutations(Principals) \cup Permutations(Digests)
MCSeed == [steps |-> <<Step("a", "x", "n", Absent, <<<<"net", "net">>, <<"TOKEN", "s1">>>>, {}),
                       Step("b", "x", "n", "u", <<>>, {})>>,
           edges |-> <<>>, files |-> <<>>]
MCOps == {[kind |-> "remove_step", id |-> "a"],
          [kind |-> "add_step", step |-> Step("a", "x", "n", Absent, <<>>, {})],
          [kind |-> "connect", edge |-> <<"a", "b">>], [kind |-> "connect", edge |-> <<"b", "b">>],
          [kind |-> "remove_edge", edge |-> <<"a", "b">>],
          [kind |-> "set_property", id |-> "a", value |-> "y"],
          [kind |-> "rename", id |-> "b", value |-> "y"],
          [kind |-> "set_step_secret", id |-> "a", item |-> <<"TOKEN", "s2">>, remove |-> FALSE,
           index |-> NoIndex],
          [kind |-> "set_step_capability", id |-> "b", item |-> <<"net", "net">>,
           remove |-> FALSE, index |-> NoIndex],
          [kind |-> "set_step_config", id |-> "b", value |-> "v"],
          [kind |-> "set_step_capability", id |-> "a", item |-> <<"net", "net">>, remove |-> TRUE,
           index |-> NoIndex],
          [kind |-> "set_file", path |-> "f", digest |-> "d1"]}

(* A run is of a definition that has an order: "a cyclic pipeline has no    *)
(* valid execution order at all", dag.Build says, and every advance of such *)
(* a run fails.  Nothing on the way to a run calls it.                      *)
RunsCanBeOrdered ==
    \A d \in runs : Build([i \in DOMAIN d.steps |-> d.steps[i].id], Range(d.edges)) = ""

-----------------------------------------------------------------------------
(* Every graph of three steps, and every one of four with two edges back.   *)
Three == {"a", "b", "c"}
Forward == {<<"a", "b">>, <<"a", "c">>, <<"a", "d">>, <<"b", "c">>, <<"b", "d">>, <<"c", "d">>}
ASSUME EveryOrder ==
    /\ \A pairs \in SUBSET (Three \X Three) : OrderIsSound(<<"c", "a", "b">>, pairs)
    /\ \A pairs \in SUBSET (Forward \cup {<<"d", "a">>, <<"c", "b">>}) :
          OrderIsSound(<<"a", "d", "b", "c">>, pairs)

Blob == [kind |-> "blob", schema |-> ""]
Report == [kind |-> "structured", schema |-> "report"]
Untyped == [kind |-> "untyped", schema |-> ""]
Port(name, type) == [name |-> name, type |-> type]
Task(id, ins, outs, binds) ==
    [id |-> id, ins |-> ins, outs |-> outs, binds |-> binds, plugin |-> id, effect |-> "PURE",
     scope |-> "", image |-> "", kind |-> "", caps |-> {}, declarable |-> TRUE]
Edge(from, out, to, in) == [from |-> from, out |-> out, to |-> to, in |-> in]

\* fetch feeds build and test, build feeds test, and test may feed fetch.
Fetch == Task("fetch", <<Port("in", Untyped)>>, <<Port("src", Blob), Port("log", Report)>>, <<>>)
BuildStep == Task("build", <<Port("src", Blob), Port("cfg", Blob)>>, <<Port("bin", Blob)>>,
                  <<<<"f", "cfg">>>>)
Test == Task("test", <<Port("bin", Blob), Port("log", Report)>>, <<Port("ok", Untyped)>>, <<>>)
Edges == {Edge("fetch", "src", "build", "src"), Edge("fetch", "log", "test", "log"),
          Edge("build", "bin", "test", "bin"), Edge("fetch", "src", "test", "bin"),
          Edge("fetch", "log", "build", "src"), Edge("build", "lib", "test", "bin"),
          Edge("test", "ok", "fetch", "in")}
Pipeline(steps, edges, files) == [steps |-> steps, edges |-> SetToSeq(edges), files |-> files]
Pipelines == {Pipeline(<<Test, BuildStep, Fetch>>, es, fs) : es \in SUBSET Edges,
                 fs \in {<<>>, <<<<"f", "d0">>>>, <<<<"f", "d1">>, <<"f", "d0">>>>}}

\* Engines that agree, that do not, and one of a kind of its own.
Worker(kinds, env) == [kinds |-> kinds, env |-> env, ready |-> TRUE, caps |-> {}]
Fleets == {{}, {Worker(<<"vm">>, "e1")}, {Worker(<<"vm">>, "e1"), Worker(<<"k8s">>, "e2")},
           {Worker(<<"vm">>, "")}}
Catalog == [r \in {"fetch", "build", "test"} |-> [effect |-> "PURE", compiles |-> TRUE]]

\* What may be recorded: the outputs of a step whole, and short of a port.
Recorded(key, outputs) == <<key, outputs>>
Entries ==
    {Recorded(KeyOf(Fetch, "e1", <<>>), <<<<"src", "d1">>, <<"log", "d2">>>>),
     Recorded(KeyOf(Fetch, "e1", <<>>), <<<<"src", "d1">>>>),
     Recorded(KeyOf(BuildStep, "e1", <<"d0", "d1">>), <<<<"bin", "d3">>>>),
     Recorded(KeyOf(BuildStep, "e1", <<"d0">>), <<<<"bin", "d4">>>>),
     Recorded(KeyOf(Test, "e1", <<"d3", "d2">>), <<<<"ok", "d5">>>>),
     Recorded(KeyOf(Test, "e1", <<"d2">>), <<<<"ok", "d6">>>>)}
Caches == {[k \in {x[1] : x \in es} |-> (CHOOSE x \in es : x[1] = k)[2]] : es \in SUBSET Entries}

ASSUME EveryPlan ==
    \A p \in Pipelines, fleet \in Fleets, entries \in Caches : PlanPredicts(p, fleet, entries)

ASSUME EveryDispatch ==
    \A p \in Pipelines :
        /\ \A fleet \in Fleets : CleanDispatches(p, Catalog, fleet, "d1")
        /\ \A outs \in {<<>>, <<<<"src", "d1">>>>, <<<<"log", "d2">>, <<"src", "d1">>>>}, s \in Range(p.steps) :
              KeyIsOfTheDispatch(p, s, [id \in {"fetch"} |-> outs])

=============================================================================
