---------------------------- MODULE Definitions ----------------------------
(***************************************************************************)
(* The definition store and the API over it (internal/defstore,             *)
(* internal/api/server.go, presence.go): revisions that are their own       *)
(* content, the editing head moved by compare-and-set, plugin references    *)
(* pinned at save time, approval, and the runs that pin a revision.         *)
(*                                                                         *)
(* One pipeline.  Several planes serve its editors, so a request is a       *)
(* sequence of statements that others interleave with.  Transactions are    *)
(* those of PostgreSQL at its default isolation; SQLite's behaviours, which *)
(* run one writing transaction at a time, are among them.                   *)
(***************************************************************************)
EXTENDS Operations

CONSTANTS
    Principals,   \* editors and approvers, by the subject of their credential
    Ops,          \* the operations editors send
    Seed,         \* the definition the pipeline is created with
    Uploaded,     \* digests PutDefinitionFile has stored
    Digests,      \* what the tag of the pipeline's plugin may resolve to
    MaxEdits, MaxApprovals, MaxRuns, MaxFaults   \* bounds

System == "system"
None == "none"
NoOp == [kind |-> "create"]
NoDef == [none |-> TRUE]   \* no definition, not even the empty one

ASSUME DefinitionsAssumption ==
    /\ WellFormed(Seed) /\ \A op \in Ops : OpShape(op)
    /\ None \notin Principals
    /\ MaxEdits \in Nat /\ MaxApprovals \in Nat /\ MaxRuns \in Nat /\ MaxFaults \in Nat

VARIABLES
    revs,      \* the revisions table: content -> state, author, approver, lock
    head,      \* pipeline_heads: a definition, or None
    tag,       \* what the registry resolves the plugin reference to now
    edit,      \* per principal, the ApplyOperation or CreatePipeline under way
    approval,  \* per principal, the Approve transaction under way
    starting,  \* per principal, the StartRun that has chosen its revision
    runs,      \* the revisions runs have pinned
    log,       \* history: the edits accepted, in the order the head moved
    edits,     \* edits begun
    approvals, \* approvals begun
    faults     \* faults left

vars == <<revs, head, tag, edit, approval, starting, runs, log, edits, approvals, faults>>

Idle == [stage |-> "idle"]
Saved == DOMAIN revs

TypeOK ==
    /\ \A d \in Saved :
          /\ revs[d].state \in {"draft", "reviewed", "active"}
          /\ revs[d].author \in Principals \cup {System}
          /\ revs[d].approver \in Principals \cup {None}
          /\ revs[d].lock \in Digests
    /\ head \in Saved \cup {NoDef} /\ tag \in Digests
    /\ \A p \in Principals :
          /\ edit[p].stage \in {"idle", "resolve", "save", "move"}
          /\ approval[p].stage \in {"idle", "demote", "promote"}
          /\ starting[p] \in Saved \cup {NoDef}
    /\ runs \subseteq Saved /\ edits \in 0 .. MaxEdits
    /\ approvals \in 0 .. MaxApprovals /\ faults \in 0 .. MaxFaults

(* The pipeline may exist before anybody edits it: a submission saves the   *)
(* definition it was given and records no head.                             *)
Init ==
    /\ tag \in Digests
    /\ \/ revs = <<>>
       \/ revs = [d \in {Seed} |-> [state |-> "draft", author |-> System, approver |-> None,
                                  lock |-> tag]]
    /\ head = NoDef
    /\ edit = [p \in Principals |-> Idle] /\ approval = [p \in Principals |-> Idle]
    /\ starting = [p \in Principals |-> NoDef]
    /\ runs = {} /\ log = <<>> /\ edits = 0 /\ approvals = 0 /\ faults = MaxFaults

-----------------------------------------------------------------------------
(* checkDefinitionFiles: the bytes of every file are stored, no path is     *)
(* carried twice, and every path a step reads is carried.                   *)
CheckDefinitionFiles(d) == (\A f \in Range(d.files) : f[2] \in Uploaded) /\ FilesAgree(d)

(* CreatePipeline: refused where a revision exists, which is a read; the    *)
(* seeding of the head is what decides.                                     *)
CreatePipeline(p) ==
    /\ edit[p] = Idle /\ edits < MaxEdits
    /\ Saved = {}
    /\ CheckDefinitionFiles(Seed)
    /\ edit' = [edit EXCEPT ![p] = [stage |-> "resolve", op |-> NoOp, base |-> NoDef,
                                    from |-> NoDef, onto |-> NoDef, next |-> Seed, lock |-> None]]
    /\ edits' = edits + 1
    /\ UNCHANGED <<revs, head, tag, approval, starting, runs, log, approvals, faults>>

(* Head: a pipeline nobody has edited has none.                             *)
KnownHead == head # NoDef

(* rebaseOnto: the caller's base while the head is still there, and the     *)
(* head when what moved it is disjoint from this edit.                      *)
ApplyTo(base, op) ==
    IF ~KnownHead \/ head = base THEN base
    ELSE IF Disjoint(base, head, op) THEN head ELSE NoDef

(* ApplyOperation up to its first write: the head is read, the edit rebased *)
(* and applied, the result checked.  A refusal changes nothing.             *)
ApplyOperation(p, base, op) ==
    /\ edit[p] = Idle /\ edits < MaxEdits
    /\ LET onto == ApplyTo(base, op) IN
       /\ onto # NoDef
       /\ LET applied == Apply(onto, op) IN
          /\ applied.ok /\ CheckDefinitionFiles(applied.next)
          /\ edit' = [edit EXCEPT ![p] =
                [stage |-> "resolve", op |-> op, base |-> base,
                 from |-> IF KnownHead THEN onto ELSE NoDef, onto |-> onto,
                 next |-> applied.next, lock |-> None]]
    /\ edits' = edits + 1
    /\ UNCHANGED <<revs, head, tag, approval, starting, runs, log, approvals, faults>>

(* ResolveLockfile: every reference is pinned before a row is written.      *)
ResolveLockfile(p) ==
    /\ edit[p].stage = "resolve"
    /\ edit' = [edit EXCEPT ![p].stage = "save", ![p].lock = tag]
    /\ UNCHANGED <<revs, head, tag, approval, starting, runs, log, edits, approvals, faults>>

(* Save: the first save of a content is the revision, and another one       *)
(* returns it as it is, its author, state and pins included.                *)
SavedAs(d, row) == [x \in Saved \cup {d} |-> IF x \in Saved THEN revs[x] ELSE row]

Save(p) ==
    /\ edit[p].stage = "save"
    /\ revs' = SavedAs(edit[p].next,
                  [state |-> "draft", author |-> p, approver |-> None, lock |-> edit[p].lock])
    /\ edit' = [edit EXCEPT ![p].stage = "move"]
    /\ UNCHANGED <<head, tag, approval, starting, runs, log, edits, approvals, faults>>

\* Mutant: the head is written whatever it is by now.
HeadIsAnywhere(from) == TRUE

(* CompareAndSetHead: an update from the head that was read, or an insert   *)
(* that loses to whoever inserted first.                                    *)
HeadIsStill(from) == head = from

MoveHead(p) ==
    /\ edit[p].stage = "move"
    /\ edit' = [edit EXCEPT ![p] = Idle]
    /\ IF HeadIsStill(edit[p].from)
       THEN /\ head' = edit[p].next
            /\ log' = Append(log, [op |-> edit[p].op, base |-> edit[p].base,
                                   onto |-> edit[p].onto, next |-> edit[p].next])
       ELSE UNCHANGED <<head, log>>
    /\ UNCHANGED <<revs, tag, approval, starting, runs, edits, approvals, faults>>

(* A transaction ends, and those that wait for its rows go on.              *)
Ended(p) ==
    [o \in Principals |->
        IF o = p THEN Idle
        ELSE IF approval[o].stage = "promote" THEN [approval[o] EXCEPT !.behind = @ \ {p}]
        ELSE approval[o]]

(* The plane serving a request stops, or its store does, before the next    *)
(* statement: what was committed stays.                                     *)
Abandon(p) ==
    /\ faults > 0 /\ faults' = faults - 1
    /\ edit[p] # Idle \/ approval[p] # Idle
    /\ edit' = [edit EXCEPT ![p] = Idle] /\ approval' = Ended(p)
    /\ UNCHANGED <<revs, head, tag, starting, runs, log, edits, approvals>>

(* Somebody pushes another artifact under the plugin's tag.                 *)
Retag(v) ==
    /\ v # tag /\ faults > 0 /\ faults' = faults - 1
    /\ tag' = v
    /\ UNCHANGED <<revs, head, edit, approval, starting, runs, log, edits, approvals>>

-----------------------------------------------------------------------------
(* Approve, statement by statement.                                         *)

Active == {d \in Saved : revs[d].state = "active"}

\* Mutant: the author may approve as well.
MayApproveAnyone(p, d) == revs[d].state # "active"

(* The revision that is active already keeps its approver, and the author   *)
(* does not approve.                                                        *)
MayApprove(p, d) == revs[d].state # "active" /\ revs[d].author # p

ApproveRead(p, d) ==
    /\ approval[p] = Idle /\ approvals < MaxApprovals /\ MayApprove(p, d)
    /\ approvals' = approvals + 1
    /\ approval' = [approval EXCEPT ![p] = [stage |-> "demote", rev |-> d, rows |-> {}, behind |-> {}]]
    /\ UNCHANGED <<revs, head, tag, edit, starting, runs, log, edits, faults>>

(* The demoting UPDATE finds its rows when it starts.  It holds them until  *)
(* its transaction ends, and waits for whoever holds them already.          *)
Demote(p) ==
    /\ approval[p].stage = "demote"
    /\ approval' = [approval EXCEPT ![p].stage = "promote", ![p].rows = Active,
          ![p].behind = {o \in Principals \ {p} : approval[o].stage = "promote"
                                                   /\ approval[o].rows \cap Active # {}}]
    /\ UNCHANGED <<revs, head, tag, edit, starting, runs, log, edits, approvals, faults>>

(* The rows it waited for are read again and demoted where they are still   *)
(* active; then the promotion and the commit.                               *)
Promote(p) ==
    /\ approval[p].stage = "promote" /\ approval[p].behind = {}
    /\ revs' = [d \in Saved |->
          IF d = approval[p].rev THEN [revs[d] EXCEPT !.state = "active", !.approver = p]
          ELSE IF d \in approval[p].rows /\ revs[d].state = "active"
          THEN [revs[d] EXCEPT !.state = "reviewed"] ELSE revs[d]]
    /\ approval' = Ended(p)
    /\ UNCHANGED <<head, tag, edit, starting, runs, log, edits, approvals, faults>>

-----------------------------------------------------------------------------
(* StartRun: the revision is resolved, and refused unless it is active;     *)
(* admission and the first event come later.                                *)
RunnableRevision(p, d) ==
    /\ starting[p] = NoDef
    /\ Cardinality(runs) + Cardinality({q \in Principals : starting[q] # NoDef}) < MaxRuns
    /\ revs[d].state = "active"
    /\ starting' = [starting EXCEPT ![p] = d]
    /\ UNCHANGED <<revs, head, tag, edit, approval, runs, log, edits, approvals, faults>>

StartRun(p) ==
    /\ starting[p] # NoDef
    /\ runs' = runs \cup {starting[p]}
    /\ starting' = [starting EXCEPT ![p] = NoDef]
    /\ UNCHANGED <<revs, head, tag, edit, approval, log, edits, approvals, faults>>

Next ==
    \/ \E p \in Principals :
          \/ CreatePipeline(p) \/ \E d \in Saved, op \in Ops : ApplyOperation(p, d, op)
          \/ ResolveLockfile(p) \/ Save(p) \/ MoveHead(p) \/ Abandon(p)
          \/ \E d \in Saved : ApproveRead(p, d) \/ RunnableRevision(p, d)
          \/ Demote(p) \/ Promote(p) \/ StartRun(p)
    \/ \E v \in Digests : Retag(v)

Spec == Init /\ [][Next]_vars

-----------------------------------------------------------------------------
(* No edit is lost: every accepted edit was applied to the revision the one *)
(* before it made the head, and the head is the last of them, over planes   *)
(* that read it and write it in separate statements.                        *)
NoEditLost ==
    /\ \A i \in 2 .. Len(log) : log[i].onto = log[i - 1].next
    /\ log # <<>> => head = log[Len(log)].next

(* An edit that lands on a revision its author has not seen changes nothing *)
(* its author has not seen: every step, edge and file it changes was the    *)
(* same in the author's base as in the revision it was applied to.          *)
MergedUnseen ==
    \A i \in DOMAIN log :
        log[i].base # NoDef =>
            \A k \in Differ(log[i].onto, log[i].next) :
                Element(log[i].base, k) = Element(log[i].onto, k)

(* Undoing an accepted edit brings back every element of the definition it  *)
(* was applied to, whoever else edited in between its base and that.        *)
UndoRestoresContent ==
    \A i \in DOMAIN log :
        log[i].op # NoOp =>
            LET undone == Apply(log[i].next, Apply(log[i].onto, log[i].op).inverse)
            IN  undone.ok /\ Content(undone.next) = Content(log[i].onto)

(* A run pins a revision that a second person approved, whoever saves the   *)
(* same content again later.                                                *)
RunsWereReviewed ==
    \A d \in runs : revs[d].approver \notin {None, revs[d].author}

(* At most one revision of the pipeline is active, as Approve says.         *)
OneActive == Cardinality(Active) =< 1

(* The inverse of an operation restores precisely the definition that went  *)
(* in, and so the revision: what Apply says of every operation.             *)
UndoRestoresRevision ==
    \A i \in DOMAIN log :
        log[i].op # NoOp =>
            Apply(log[i].next, Apply(log[i].onto, log[i].op).inverse).next = log[i].onto

=============================================================================
