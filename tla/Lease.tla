-------------------------------- MODULE Lease --------------------------------
(***************************************************************************)
(* The lease manager of internal/lease/kv.go, over one NATS key-value      *)
(* bucket. Two keys per step: the claim, whose bucket revision IS the      *)
(* fence, and the renewal, which names the fence it belongs to.            *)
(*                                                                         *)
(* Every Get, Create, Update, Put and Delete is a step of its own, because *)
(* several planes and several goroutines of one plane call the manager at  *)
(* the same time. A caller may also stop between any two of them: its      *)
(* process dies, or a request fails and the call returns an error.         *)
(***************************************************************************)
EXTENDS Naturals, FiniteSets

CONSTANTS
    Steps,          \* the leased steps, a tenant/run/step triple each
    NoStep,         \* no step: the argument of an idle caller
    Callers,        \* the goroutines, on any plane, that call the manager
    MaxAttempt,     \* bound: the attempts a caller may lease
    TTL,            \* the heartbeat window, in ticks
    MaxOfferRaces,  \* lost compare-and-sets one take re-reads through (8 in the code)
    MaxRev,         \* bound: the bucket's last revision
    Horizon         \* bound: nobody leases or renews when now + TTL > Horizon

ASSUME LeaseAssumption ==
    /\ NoStep \notin Steps
    /\ MaxAttempt \in Nat
    /\ TTL \in Nat \ {0}
    /\ MaxOfferRaces \in Nat \ {0}
    /\ MaxRev \in Nat
    /\ Horizon \in Nat

VARIABLES
    claim,          \* step -> the claim record at its key; fence 0: no key
    renewal,        \* step -> the renewal record at its key; fence 0: no key
    rev,            \* the bucket's last revision: every write and delete takes one
    now,            \* the clock the planes share
    pc,             \* caller -> where it is inside a call
    arg,            \* caller -> what it carries inside a call
    issued,         \* history: every token a take has returned
    accepted,       \* history: the tokens a renewal has been written for
    orphans,        \* history: the tokens Expire has deleted and by whom
    withdrawn       \* history: the tokens Withdraw has deleted

bucket == <<claim, renewal, rev>>
history == <<issued, accepted, orphans, withdrawn>>
vars == <<bucket, now, pc, arg, history>>

------------------------------------------------------------------------------
NoClaim == [fence |-> 0, attempt |-> 0, expires |-> 0, offered |-> FALSE]
NoRenewal == [fence |-> 0, expires |-> 0]

Claims == [fence : Nat, attempt : Nat, expires : Nat, offered : BOOLEAN]
Renewals == [fence : Nat, expires : Nat]
Tokens == [step : Steps, fence : Nat \ {0}, attempt : Nat, offered : BOOLEAN]

\* What a caller carries: the step and attempt it leases or the token it
\* presents, the revision it read, the expiry it will write, the races it lost.
Blank == [step |-> NoStep, attempt |-> 0, offered |-> FALSE,
          fence |-> 0, expires |-> 0, races |-> 0]
Args == [step : Steps \cup {NoStep}, attempt : Nat, offered : BOOLEAN,
         fence : Nat, expires : Nat, races : Nat]

Places == {"idle", "takeGet", "takeWrite", "renewPut",
           "expireRenewal", "expireDelete", "expireClear",
           "withdrawRenewal", "withdrawDelete"}

TypeOK ==
    /\ claim \in [Steps -> Claims]
    /\ renewal \in [Steps -> Renewals]
    /\ rev \in Nat
    /\ now \in Nat
    /\ pc \in [Callers -> Places]
    /\ arg \in [Callers -> Args]
    /\ \A c \in Callers : pc[c] # "idle" => arg[c].step \in Steps
    /\ issued \subseteq Tokens
    /\ accepted \subseteq Tokens
    /\ orphans \subseteq Tokens \X Callers
    /\ withdrawn \subseteq Tokens

Init ==
    /\ claim = [s \in Steps |-> NoClaim]
    /\ renewal = [s \in Steps |-> NoRenewal]
    /\ rev = 0
    /\ now = 0
    /\ pc = [c \in Callers |-> "idle"]
    /\ arg = [c \in Callers |-> Blank]
    /\ issued = {} /\ accepted = {} /\ orphans = {} /\ withdrawn = {}

------------------------------------------------------------------------------
(* Control of a call. *)

Return(c) ==
    /\ pc' = [pc EXCEPT ![c] = "idle"]
    /\ arg' = [arg EXCEPT ![c] = Blank]

Goto(c, place, a) ==
    /\ pc' = [pc EXCEPT ![c] = place]
    /\ arg' = [arg EXCEPT ![c] = a]

TokenOf(a) == [step |-> a.step, fence |-> a.fence,
               attempt |-> a.attempt, offered |-> a.offered]

\* current(t): the token is the claim its key holds now.
Current(t) == claim[t.step].fence = t.fence

\* Mutant: any renewal at the key counts, whoever wrote it.
HasHolderAnyRenewal(rec, ren) == ~rec.offered \/ ren.fence # 0

\* Mutant: an earlier holder's renewal sets the deadline.
DeadlineAnyRenewal(rec, ren) == IF ren.fence # 0 THEN ren.expires ELSE rec.expires

\* deadline: whether a claim record, read at revision f, has a holder, and
\* until when, given the renewal record read after it.
HasHolder(rec, ren) == ~rec.offered \/ ren.fence = rec.fence

Deadline(rec, ren) ==
    IF ren.fence = rec.fence /\ (rec.offered \/ ren.expires >= rec.expires)
    THEN ren.expires
    ELSE rec.expires

\* Unaccepted lists exactly the steps of which this is true.
Unaccepted(s) == claim[s].fence # 0 /\ ~HasHolder(claim[s], renewal[s])

------------------------------------------------------------------------------
(* Claim and Offer: the compare-and-set loop of take. *)

\* record() reads the clock once, before the loop.
TakeBegin(c, s, a, offered) ==
    /\ pc[c] = "idle"
    /\ now + TTL <= Horizon
    /\ Goto(c, "takeGet", [Blank EXCEPT !.step = s, !.attempt = a,
                           !.offered = offered, !.expires = now + TTL])
    /\ UNCHANGED <<bucket, now, history>>

\* Mutant: only a later attempt refuses the take.
TakeGetSameAttempt(c) ==
    LET s == arg[c].step IN
    /\ pc[c] = "takeGet"
    /\ IF claim[s].fence # 0 /\ claim[s].attempt > arg[c].attempt
       THEN Return(c)
       ELSE Goto(c, "takeWrite", [arg[c] EXCEPT !.fence = claim[s].fence])
    /\ UNCHANGED <<bucket, now, history>>

\* Get; ErrAlreadyOffered when the key carries this attempt or a later one.
TakeGet(c) ==
    LET s == arg[c].step IN
    /\ pc[c] = "takeGet"
    /\ IF claim[s].fence # 0 /\ claim[s].attempt >= arg[c].attempt
       THEN Return(c)
       ELSE Goto(c, "takeWrite", [arg[c] EXCEPT !.fence = claim[s].fence])
    /\ UNCHANGED <<bucket, now, history>>

\* The claim of a take's arguments at the step's key, under the fence f.
PutClaim(a, f) ==
    /\ claim' = [claim EXCEPT ![a.step] =
                    [fence |-> f, attempt |-> a.attempt,
                     expires |-> a.expires, offered |-> a.offered]]
    /\ rev' = rev + 1
    /\ issued' = issued \cup {TokenOf([a EXCEPT !.fence = f])}
    /\ UNCHANGED <<renewal, now, accepted, orphans, withdrawn>>

\* Mutant: a Put that is not conditional on the revision read.
TakeWriteBlind(c) ==
    /\ pc[c] = "takeWrite" /\ rev < MaxRev
    /\ PutClaim(arg[c], rev + 1)
    /\ Return(c)

\* Create over no key, or Update at the revision read.
TakeWrite(c) ==
    /\ pc[c] = "takeWrite"
    /\ claim[arg[c].step].fence = arg[c].fence
    /\ rev < MaxRev
    /\ PutClaim(arg[c], rev + 1)
    /\ Return(c)

\* The write lost the race: read again, or give up after MaxOfferRaces.
TakeLost(c) ==
    LET a == arg[c] IN
    /\ pc[c] = "takeWrite"
    /\ claim[a.step].fence # a.fence
    /\ IF a.races + 1 < MaxOfferRaces
       THEN Goto(c, "takeGet", [a EXCEPT !.fence = 0, !.races = @ + 1])
       ELSE Return(c)
    /\ UNCHANGED <<bucket, now, history>>

------------------------------------------------------------------------------
(* Renew: read the claim, then Put the renewal unconditionally. *)

\* A token that is not current is refused (ErrFenced) before anything is
\* written; the clock is read between the Get and the Put.
RenewGet(c, t) ==
    /\ pc[c] = "idle"
    /\ Current(t)
    /\ now + TTL <= Horizon
    /\ Goto(c, "renewPut", [Blank EXCEPT !.step = t.step, !.attempt = t.attempt,
                            !.offered = t.offered, !.fence = t.fence,
                            !.expires = now + TTL])
    /\ UNCHANGED <<bucket, now, history>>

RenewPut(c) ==
    LET a == arg[c] IN
    /\ pc[c] = "renewPut"
    /\ rev < MaxRev
    /\ renewal' = [renewal EXCEPT ![a.step] = [fence |-> a.fence, expires |-> a.expires]]
    /\ rev' = rev + 1
    /\ accepted' = accepted \cup {TokenOf(a)}
    /\ Return(c)
    /\ UNCHANGED <<claim, now, issued, orphans, withdrawn>>

------------------------------------------------------------------------------
(* Expire: one key of the listing at a time (expireOne). *)

ExpireGet(c, s) ==
    LET r == claim[s] IN
    /\ pc[c] = "idle"
    /\ r.fence # 0
    /\ Goto(c, "expireRenewal", [Blank EXCEPT !.step = s, !.attempt = r.attempt,
                                 !.offered = r.offered, !.fence = r.fence,
                                 !.expires = r.expires])
    /\ UNCHANGED <<bucket, now, history>>

\* No holder, or not past the deadline: left alone.
ExpireRenewal(c) ==
    LET a == arg[c]
        ren == renewal[a.step]
    IN
    /\ pc[c] = "expireRenewal"
    /\ IF HasHolder(a, ren) /\ now > Deadline(a, ren)
       THEN Goto(c, "expireDelete", a)
       ELSE Return(c)
    /\ UNCHANGED <<bucket, now, history>>

\* Mutant: a Delete that is not conditional on the revision read.
ExpireDeleteBlind(c) ==
    LET a == arg[c] IN
    /\ pc[c] = "expireDelete" /\ rev < MaxRev
    /\ claim' = [claim EXCEPT ![a.step] = NoClaim]
    /\ rev' = rev + 1
    /\ orphans' = orphans \cup {<<TokenOf(a), c>>}
    /\ Goto(c, "expireClear", a)
    /\ UNCHANGED <<renewal, now, issued, accepted, withdrawn>>

\* Delete at the revision read; the sweep that loses the race stays quiet.
ExpireDelete(c) ==
    LET a == arg[c] IN
    /\ pc[c] = "expireDelete"
    /\ IF claim[a.step].fence = a.fence
       THEN /\ rev < MaxRev
            /\ claim' = [claim EXCEPT ![a.step] = NoClaim]
            /\ rev' = rev + 1
            /\ orphans' = orphans \cup {<<TokenOf(a), c>>}
            /\ Goto(c, "expireClear", a)
       ELSE /\ Return(c)
            /\ UNCHANGED <<claim, rev, orphans>>
    /\ UNCHANGED <<renewal, now, issued, accepted, withdrawn>>

\* The renewal key goes too, whatever it holds by now. Then the orphan is
\* reported.
ExpireClear(c) ==
    /\ pc[c] = "expireClear"
    /\ rev < MaxRev
    /\ renewal' = [renewal EXCEPT ![arg[c].step] = NoRenewal]
    /\ rev' = rev + 1
    /\ Return(c)
    /\ UNCHANGED <<claim, now, history>>

------------------------------------------------------------------------------
(* Withdraw: an unaccepted offer is taken back. *)

WithdrawGet(c, t) ==
    /\ pc[c] = "idle"
    /\ Current(t)
    /\ Goto(c, "withdrawRenewal", [Blank EXCEPT !.step = t.step, !.attempt = t.attempt,
                                   !.offered = t.offered, !.fence = t.fence])
    /\ UNCHANGED <<bucket, now, history>>

\* A claim, and an offer with a renewal for its fence, are refused.
WithdrawRenewal(c) ==
    LET a == arg[c] IN
    /\ pc[c] = "withdrawRenewal"
    /\ IF HasHolder(a, renewal[a.step])
       THEN Return(c)
       ELSE Goto(c, "withdrawDelete", a)
    /\ UNCHANGED <<bucket, now, history>>

WithdrawDelete(c) ==
    LET a == arg[c] IN
    /\ pc[c] = "withdrawDelete"
    /\ IF claim[a.step].fence = a.fence
       THEN /\ rev < MaxRev
            /\ claim' = [claim EXCEPT ![a.step] = NoClaim]
            /\ rev' = rev + 1
            /\ withdrawn' = withdrawn \cup {TokenOf(a)}
       ELSE UNCHANGED <<claim, rev, withdrawn>>
    /\ Return(c)
    /\ UNCHANGED <<renewal, now, issued, accepted, orphans>>

------------------------------------------------------------------------------
\* The process dies, or a request of the call fails.
Abandon(c) ==
    /\ pc[c] # "idle"
    /\ Return(c)
    /\ UNCHANGED <<bucket, now, history>>

Tick ==
    /\ now <= Horizon
    /\ now' = now + 1
    /\ UNCHANGED <<bucket, pc, arg, history>>

\* One caller going on with the call it is in.
Continue(c) ==
    \/ TakeGet(c) \/ TakeWrite(c) \/ TakeLost(c)
    \/ RenewPut(c)
    \/ ExpireRenewal(c) \/ ExpireDelete(c) \/ ExpireClear(c)
    \/ WithdrawRenewal(c) \/ WithdrawDelete(c)

Next ==
    \/ \E c \in Callers :
          \/ \E s \in Steps :
                \/ \E a \in 1..MaxAttempt, o \in BOOLEAN : TakeBegin(c, s, a, o)
                \/ ExpireGet(c, s)
          \/ \E t \in issued : RenewGet(c, t) \/ WithdrawGet(c, t)
          \/ Continue(c)
          \/ Abandon(c)
    \/ Tick

Spec == Init /\ [][Next]_vars

------------------------------------------------------------------------------
(* Properties. *)

Swept(t) == \E c \in Callers : <<t, c>> \in orphans

\* u is the grant on a step that follows the grant t.
Follows(t, u) ==
    /\ t.step = u.step /\ t.fence < u.fence
    /\ \A v \in issued : v.step = t.step => ~(t.fence < v.fence /\ v.fence < u.fence)

(***************************************************************************)
(* One lease per attempt: a grant that follows another on its step is for  *)
(* a later attempt, unless the earlier lease was swept or withdrawn first. *)
(* Two planes that dispatch one attempt at once cannot both get a fence    *)
(* (KV.take, whichever order their reads and writes interleave in).        *)
(***************************************************************************)
OneLeasePerAttempt ==
    \A t, u \in issued :
        Follows(t, u) => t.attempt < u.attempt \/ Swept(t) \/ t \in withdrawn

(***************************************************************************)
(* A dead lease is handed to exactly one plane: no two sweeps report the   *)
(* same token, and none reports a token that was withdrawn (the Delete at  *)
(* LastRevision in expireOne and Withdraw).                                *)
(***************************************************************************)
OrphanHandedOnce ==
    /\ \A o, q \in orphans : o[1] = q[1] => o[2] = q[2]
    /\ \A o \in orphans : o[1] \notin withdrawn

(***************************************************************************)
(* An offer that nobody has accepted is never swept as lost, however long  *)
(* it waits and whatever renewal an earlier holder left at its key         *)
(* (deadline's fence comparison).                                          *)
(***************************************************************************)
UnacceptedNeverOrphaned ==
    \A o \in orphans : o[1].offered => o[1] \in accepted

(***************************************************************************)
(* No lease is swept inside the window it was granted with: at the moment  *)
(* Expire deletes a claim, the claim's own expiry has passed, even when    *)
(* the deadline that was compared came from a renewal (expireOne).         *)
(***************************************************************************)
FirstWindowHonoured ==
    [][\A s \in Steps :
          (\E o \in orphans' \ orphans : o[1].step = s) => now > claim[s].expires]_vars

(***************************************************************************)
(* Fencing is permanent: a token that was issued and is no longer the      *)
(* current lease of its step (superseded, swept or withdrawn) never        *)
(* becomes current again, which is what lets a plane refuse a resurrected  *)
(* engine's late report by comparing one revision (KV.current).            *)
(***************************************************************************)
FencedForGood ==
    [][\A t \in issued : ~Current(t) => ~Current(t)']_vars

(***************************************************************************)
(* The manager implements Fencing: a current lease is what its key holds,  *)
(* a won compare-and-set is a grant with a fresh fence, a conditional      *)
(* delete is a revocation, and everything else leaves the leases alone.    *)
(***************************************************************************)
Fence == INSTANCE Fencing WITH
    Attempts <- 1..MaxAttempt,
    Fences <- 1..MaxRev,
    lease <- [s \in Steps |-> [fence |-> claim[s].fence, attempt |-> claim[s].attempt]],
    granted <- {[step |-> t.step, fence |-> t.fence, attempt |-> t.attempt] : t \in issued}

ImplementsFencing == Fence!Spec
==============================================================================
