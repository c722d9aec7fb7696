----------------------------- MODULE Operations -----------------------------
(***************************************************************************)
(* The edits of internal/api/operations.go: each is a function from a       *)
(* definition to the next one and to the operation that undoes it, or a     *)
(* refusal.                                                                 *)
(*                                                                         *)
(* A definition keeps its lists as lists, because their order is part of    *)
(* the content hash.  Of a step it keeps its id, one scalar for what        *)
(* set_property changes, its name, one config value (Absent when unset),    *)
(* the list set_step_secret and set_step_capability edit, whose items are   *)
(* <<env, secret>> and <<capability, capability>>, and the files its ports  *)
(* read.                                                                    *)
(***************************************************************************)
EXTENDS Integers, Sequences, FiniteSets, SequencesExt

Absent == "absent"
Unparsable == "unparsable"
NoIndex == 0

Step(id, scalar, name, config, list, reads) ==
    [id |-> id, scalar |-> scalar, name |-> name, config |-> config, list |-> list,
     reads |-> reads]

(* The results: a refusal, or the edited definition and the inverse.        *)
Refused == [ok |-> FALSE]
Edited(d, inverse) == [ok |-> TRUE, next |-> d, inverse |-> inverse]

(* findStep: the position of a step, 0 where there is none.                 *)
FindStep(d, id) ==
    IF \E i \in DOMAIN d.steps : d.steps[i].id = id
    THEN CHOOSE i \in DOMAIN d.steps : d.steps[i].id = id ELSE 0

Place(list, x) ==
    IF \E i \in DOMAIN list : list[i] = x THEN CHOOSE i \in DOMAIN list : list[i] = x ELSE 0

StepIds(d) == {s.id : s \in Range(d.steps)}

WithStep(d, i, s) == [d EXCEPT !.steps[i] = s]

-----------------------------------------------------------------------------
ApplyAddStep(d, op) ==
    IF FindStep(d, op.step.id) # 0 THEN Refused
    ELSE Edited([d EXCEPT !.steps = Append(@, op.step)],
                [kind |-> "remove_step", id |-> op.step.id])

(* A step that is still connected is not removed.                           *)
ApplyRemoveStep(d, op) ==
    LET i == FindStep(d, op.id) IN
    IF i = 0 \/ \E e \in Range(d.edges) : op.id \in {e[1], e[2]} THEN Refused
    ELSE Edited([d EXCEPT !.steps = RemoveAt(@, i)],
                [kind |-> "add_step", step |-> d.steps[i]])

CheckEdgeEndpoints(d, e) == FindStep(d, e[1]) # 0 /\ FindStep(d, e[2]) # 0

ApplyConnect(d, op) ==
    IF ~CheckEdgeEndpoints(d, op.edge) \/ Place(d.edges, op.edge) # 0 THEN Refused
    ELSE Edited([d EXCEPT !.edges = Append(@, op.edge)],
                [kind |-> "remove_edge", edge |-> op.edge])

ApplyRemoveEdge(d, op) ==
    LET i == Place(d.edges, op.edge) IN
    IF i = 0 THEN Refused
    ELSE Edited([d EXCEPT !.edges = RemoveAt(@, i)],
                [kind |-> "connect", edge |-> op.edge])

(* set_property parses the value as the property's type; rename takes any.  *)
ApplySetProperty(d, op) ==
    LET i == FindStep(d, op.id) IN
    IF i = 0 \/ op.value = Unparsable THEN Refused
    ELSE Edited(WithStep(d, i, [d.steps[i] EXCEPT !.scalar = op.value]),
                [op EXCEPT !.value = d.steps[i].scalar])

ApplyRename(d, op) ==
    LET i == FindStep(d, op.id) IN
    IF i = 0 THEN Refused
    ELSE Edited(WithStep(d, i, [d.steps[i] EXCEPT !.name = op.value]),
                [op EXCEPT !.value = d.steps[i].name])

\* Mutant: undoing a change of a key removes it.
ApplySetStepConfigRemoved(d, op) ==
    LET i == FindStep(d, op.id) IN
    IF i = 0 \/ (op.value = Absent /\ d.steps[i].config = Absent) THEN Refused
    ELSE Edited(WithStep(d, i, [d.steps[i] EXCEPT !.config = op.value]),
                [op EXCEPT !.value = Absent])

(* Absent as the value removes the key; what is not there is not removed.   *)
ApplySetStepConfig(d, op) ==
    LET i == FindStep(d, op.id) IN
    IF i = 0 \/ (op.value = Absent /\ d.steps[i].config = Absent) THEN Refused
    ELSE Edited(WithStep(d, i, [d.steps[i] EXCEPT !.config = op.value]),
                [op EXCEPT !.value = d.steps[i].config])

(* The first place of a list whose item has the key, and whether there is   *)
(* another one.                                                             *)
KeyPlace(list, key) ==
    IF \E i \in DOMAIN list : list[i][1] = key
    THEN CHOOSE i \in DOMAIN list : list[i][1] = key ELSE 0

Twice(list, key) ==
    \E i, j \in DOMAIN list : i # j /\ list[i][1] = key /\ list[j][1] = key

(* One item of a list that is edited by place: the inverse of a removal     *)
(* inserts at the index the item held, and an item that rebinds its key     *)
(* takes the place of the one there.  An index past the end or for a        *)
(* rebinding, a key that is there twice and a removal of nothing are        *)
(* refused.                                                                 *)
ApplyListEdit(d, op, rebinds) ==
    LET i == FindStep(d, op.id)
        list == d.steps[i].list
        at == KeyPlace(list, op.item[1])
        position == IF op.index = NoIndex THEN Len(list) + 1 ELSE op.index
        edited(l) == WithStep(d, i, [d.steps[i] EXCEPT !.list = l])
    IN  CASE i = 0 -> Refused
          [] i # 0 /\ Twice(list, op.item[1]) -> Refused
          [] i # 0 /\ ~Twice(list, op.item[1]) /\ op.remove /\ at # 0 ->
                Edited(edited(RemoveAt(list, at)),
                       [op EXCEPT !.remove = FALSE, !.index = at, !.item = list[at]])
          [] i # 0 /\ ~Twice(list, op.item[1]) /\ ~op.remove /\ at # 0
                   /\ rebinds /\ op.index = NoIndex ->
                Edited(edited([list EXCEPT ![at] = op.item]), [op EXCEPT !.item = list[at]])
          [] i # 0 /\ ~Twice(list, op.item[1]) /\ ~op.remove /\ at = 0
                   /\ position =< Len(list) + 1 ->
                Edited(edited(InsertAt(list, position, op.item)),
                       [op EXCEPT !.remove = TRUE, !.index = NoIndex])
          [] OTHER -> Refused

ApplySetStepSecret(d, op) == ApplyListEdit(d, op, TRUE)
ApplySetStepCapability(d, op) == ApplyListEdit(d, op, FALSE)

(* A file is <<path, digest>>.  Absent detaches, which is refused while a   *)
(* step reads the path.                                                     *)
ApplySetFile(d, op) ==
    LET at == {i \in DOMAIN d.files : d.files[i][1] = op.path}
        inverse == [op EXCEPT !.digest = IF at = {} THEN Absent
                                         ELSE d.files[CHOOSE i \in at : TRUE][2]]
    IN  CASE op.digest = Absent
                /\ (at = {} \/ \E s \in Range(d.steps) : op.path \in s.reads) -> Refused
          [] op.digest = Absent
                /\ ~(at = {} \/ \E s \in Range(d.steps) : op.path \in s.reads) ->
                Edited([d EXCEPT !.files = RemoveAt(@, CHOOSE i \in at : TRUE)], inverse)
          [] op.digest # Absent /\ at # {} ->
                Edited([d EXCEPT !.files[CHOOSE i \in at : TRUE] = <<op.path, op.digest>>], inverse)
          [] OTHER -> Edited([d EXCEPT !.files = Append(@, <<op.path, op.digest>>)], inverse)

(* Apply: over a copy, so the definition handed in is never touched.        *)
Apply(d, op) ==
    CASE op.kind = "add_step" -> ApplyAddStep(d, op)
      [] op.kind = "remove_step" -> ApplyRemoveStep(d, op)
      [] op.kind = "connect" -> ApplyConnect(d, op)
      [] op.kind = "remove_edge" -> ApplyRemoveEdge(d, op)
      [] op.kind = "set_property" -> ApplySetProperty(d, op)
      [] op.kind = "rename" -> ApplyRename(d, op)
      [] op.kind = "set_step_config" -> ApplySetStepConfig(d, op)
      [] op.kind = "set_step_secret" -> ApplySetStepSecret(d, op)
      [] op.kind = "set_step_capability" -> ApplySetStepCapability(d, op)
      [] op.kind = "set_file" -> ApplySetFile(d, op)

-----------------------------------------------------------------------------
(* Rebasing (internal/api/presence.go): what an operation claims and what   *)
(* the edits between two definitions changed, in one vocabulary.            *)
TouchedBy(op) ==
    CASE op.kind = "add_step" -> {<<"life", op.step.id>>, <<"step", op.step.id>>}
      [] op.kind = "remove_step" -> {<<"life", op.id>>, <<"step", op.id>>}
      [] op.kind \in {"connect", "remove_edge"} ->
            {<<"edge", op.edge>>, <<"life", op.edge[1]>>, <<"life", op.edge[2]>>}
      [] op.kind = "set_file" -> {<<"pipeline">>}
      [] OTHER -> {<<"step", op.id>>}

StepOf(d, id) == d.steps[FindStep(d, id)]

\* Mutant: only steps that come and go are noticed, not steps that change.
ChangedForgetsEdits(before, after) ==
    LET both == StepIds(before) \cap StepIds(after)
        lives == (StepIds(before) \cup StepIds(after)) \ both
    IN  {<<"pipeline">>} \cup {<<"life", id>> : id \in lives}
            \cup {<<"edge", e>> : e \in Range(after.edges) \ Range(before.edges)}

ChangedBetween(before, after) ==
    LET both == StepIds(before) \cap StepIds(after)
        lives == (StepIds(before) \cup StepIds(after)) \ both
        edges == (Range(before.edges) \cup Range(after.edges))
                    \ (Range(before.edges) \cap Range(after.edges))
    IN  {<<"pipeline">>}
            \cup {<<"life", id>> : id \in lives} \cup {<<"step", id>> : id \in lives}
            \cup {<<"step", id>> : id \in {x \in both : StepOf(before, x) # StepOf(after, x)}}
            \cup {<<"edge", e>> : e \in edges}

Disjoint(before, after, op) == TouchedBy(op) \cap ChangedBetween(before, after) = {}

-----------------------------------------------------------------------------
(* The shape of a step, of a definition and of an operation.  A definition  *)
(* names each step, edge and path once, its edges join steps it has, and it *)
(* carries the files its steps read.                                        *)
IsList(l) == l \in Seq(Range(l))

StepShape(s) ==
    /\ s = Step(s.id, s.scalar, s.name, s.config, s.list, s.reads)
    /\ s.scalar # Unparsable /\ IsList(s.list)

FilesAgree(d) ==
    /\ \A i, j \in DOMAIN d.files : d.files[i][1] = d.files[j][1] => i = j
    /\ \A s \in Range(d.steps) : s.reads \subseteq {f[1] : f \in Range(d.files)}

WellFormed(d) ==
    /\ d = [steps |-> d.steps, edges |-> d.edges, files |-> d.files]
    /\ IsList(d.steps) /\ IsList(d.edges) /\ IsList(d.files)
    /\ \A s \in Range(d.steps) : StepShape(s)
    /\ \A i, j \in DOMAIN d.steps : d.steps[i].id = d.steps[j].id => i = j
    /\ \A i, j \in DOMAIN d.edges : d.edges[i] = d.edges[j] => i = j
    /\ \A e \in Range(d.edges) : e[1] \in StepIds(d) /\ e[2] \in StepIds(d)
    /\ \A f \in Range(d.files) : f = <<f[1], f[2]>> /\ f[2] # Absent
    /\ FilesAgree(d)

ValueKinds == {"set_property", "rename", "set_step_config"}
ListKinds == {"set_step_secret", "set_step_capability"}

OpShape(op) ==
    \/ op.kind = "add_step" /\ StepShape(op.step)
    \/ op.kind \in {"remove_step", "connect", "remove_edge"}
    \/ op.kind \in ValueKinds /\ op = [kind |-> op.kind, id |-> op.id, value |-> op.value]
    \/ /\ op.kind \in ListKinds /\ op.remove \in BOOLEAN /\ op.index \in Nat
       /\ op = [kind |-> op.kind, id |-> op.id, item |-> op.item, remove |-> op.remove,
                index |-> op.index]
    \/ op.kind = "set_file" /\ op = [kind |-> op.kind, path |-> op.path, digest |-> op.digest]

-----------------------------------------------------------------------------
(* The elements of a definition, whatever their order.                      *)
Content(d) == [steps |-> Range(d.steps), edges |-> Range(d.edges), files |-> Range(d.files)]

(* The element of a definition a key names: what a reader of it sees there. *)
Element(d, key) ==
    CASE key[1] = "step" -> {s \in Range(d.steps) : s.id = key[2]}
      [] key[1] = "edge" -> {e \in Range(d.edges) : e = key[2]}
      [] key[1] = "file" -> {f \in Range(d.files) : f[1] = key[2]}

Elements(d) ==
    {<<"step", id>> : id \in StepIds(d)} \cup {<<"edge", e>> : e \in Range(d.edges)}
        \cup {<<"file", f[1]>> : f \in Range(d.files)}

Differ(before, after) ==
    {k \in Elements(before) \cup Elements(after) : Element(before, k) # Element(after, k)}

=============================================================================
