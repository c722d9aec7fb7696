------------------------------ MODULE FairQueue ------------------------------
(***************************************************************************)
(* The weighted fair queue of one control plane (scheduler.Queue): a FIFO  *)
(* for every tenant and a deficit round-robin over the tenants that have   *)
(* something waiting. Both operations run under the queue's mutex, so each *)
(* is a function from the queue to the queue.                              *)
(***************************************************************************)
EXTENDS Integers, Sequences, FiniteSets, SequencesExt, FiniteSetsExt

CONSTANTS
    Tenants,    \* the tenants of the deployment
    Weight      \* tenant -> the credit a turn grants it

ASSUME WeightAssumption == Weight \in [Tenants -> Nat \ {0}]

------------------------------------------------------------------------------
\* Nothing waits. The cursor is a position of active, from 1.
NewQueue == [items |-> [t \in Tenants |-> <<>>], deficit |-> [t \in Tenants |-> 0],
             active |-> <<>>, cursor |-> 1, turnOpen |-> FALSE]

Queues(Item) ==
    [items : [Tenants -> Seq(Item)], deficit : [Tenants -> Nat],
     active : Seq(Tenants), cursor : Nat \ {0}, turnOpen : BOOLEAN]

\* A tenant with nothing queued joins at the back of active.
Enqueue(q, t, item) ==
    [q EXCEPT !.items[t] = Append(@, item),
              !.active = IF q.items[t] = <<>> THEN Append(@, t) ELSE @]

------------------------------------------------------------------------------
\* Mutant: the turn passes to nobody, and the same tenant is credited again.
TurnStays(r) ==
    IF r.room = 0 \/ r.queue.active = <<>> THEN r
    ELSE LET q == r.queue
             at == IF q.cursor > Len(q.active) THEN 1 ELSE q.cursor
             t == q.active[at]
             n == Min({q.deficit[t] + Weight[t], Len(q.items[t]), r.room})
             rest == SubSeq(q.items[t], n + 1, Len(q.items[t]))
         IN [queue |-> [q EXCEPT !.items[t] = rest, !.cursor = at,
                                 !.active = IF rest = <<>> THEN RemoveAt(q.active, at) ELSE q.active],
             taken |-> r.taken \o SubSeq(q.items[t], 1, n),
             room |-> r.room - n]

\* One pass of the loop of Queue.Next, over the queue, what it has taken and the slots
\* that are left.
Turn(r) ==
    IF r.room = 0 \/ r.queue.active = <<>> THEN r
    ELSE LET q == r.queue
             at == IF q.cursor > Len(q.active) THEN 1 ELSE q.cursor
             t == q.active[at]
             credit == q.deficit[t] + (IF q.turnOpen THEN 0 ELSE Weight[t])
             n == Min({credit, Len(q.items[t]), r.room})
             rest == SubSeq(q.items[t], n + 1, Len(q.items[t]))
             served == [q EXCEPT !.items[t] = rest]
             idle == [served EXCEPT !.deficit[t] = 0, !.active = RemoveAt(q.active, at),
                                    !.cursor = at, !.turnOpen = FALSE]
             spent == [served EXCEPT !.deficit[t] = 0, !.cursor = at + 1, !.turnOpen = FALSE]
             cut == [served EXCEPT !.deficit[t] = credit - n, !.cursor = at, !.turnOpen = TRUE]
         IN [queue |-> IF rest = <<>> THEN idle ELSE IF credit = n THEN spent ELSE cut,
             taken |-> r.taken \o SubSeq(q.items[t], 1, n),
             room |-> r.room - n]

\* Queue.Next: up to slots items in round-robin order. Every pass takes an item, so slots
\* passes are enough.
TakeNext(q, slots) ==
    LET turns[n \in 0 .. slots] ==
          IF n = 0 THEN [queue |-> q, taken |-> <<>>, room |-> slots] ELSE Turn(turns[n - 1])
    IN turns[slots]

------------------------------------------------------------------------------
\* The tenants that have an item waiting.
Waiting(q) == {t \in Tenants : q.items[t] # <<>>}

\* The rotation holds exactly the tenants with something waiting, each once,
\* and only an interrupted turn has credit left.
Coherent(q) ==
    /\ ToSet(q.active) = Waiting(q) /\ Len(q.active) = Cardinality(Waiting(q))
    /\ \A t \in Tenants : q.deficit[t] < Weight[t] \/ ~q.turnOpen
    /\ \A t \in Tenants : q.deficit[t] > 0 =>
         q.turnOpen /\ q.cursor <= Len(q.active) /\ q.active[q.cursor] = t
==============================================================================
