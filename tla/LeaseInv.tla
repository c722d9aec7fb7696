------------------------------ MODULE LeaseInv ------------------------------
(***************************************************************************)
(* The inductive invariant behind the theorems of LeaseProofs, in named    *)
(* parts: what the bucket and the histories say of each other, and what a  *)
(* caller in the middle of a call knows.                                   *)
(***************************************************************************)
EXTENDS Lease

ClaimToken(s) == [step |-> s, fence |-> claim[s].fence,
                  attempt |-> claim[s].attempt, offered |-> claim[s].offered]

\* A fence is a revision the bucket has reached, names one token, and the
\* claim at a key is the last token issued for its step.
TokensInv ==
    /\ \A t \in issued : t.fence <= rev
    /\ \A t, u \in issued : t.fence = u.fence => t = u
    /\ \A s \in Steps : claim[s].fence # 0 =>
          /\ ClaimToken(s) \in issued
          /\ \A t \in issued : t.step = s => t.fence <= claim[s].fence

\* The callers that act on a token, and not on a step and an attempt.
Holding == {"renewPut", "expireRenewal", "expireDelete", "expireClear",
            "withdrawRenewal", "withdrawDelete"}

\* What a caller in the middle of a call knows of the token it acts on.
CallToken(c) ==
    /\ arg[c].fence <= rev
    /\ pc[c] \in {"takeGet", "takeWrite"} => arg[c].attempt \in 1..MaxAttempt
    /\ pc[c] = "takeWrite" =>
          \A t \in issued : t.step = arg[c].step /\ t.fence = arg[c].fence
                                => t.attempt < arg[c].attempt
    /\ pc[c] \in Holding => TokenOf(arg[c]) \in issued
    /\ pc[c] = "expireDelete" /\ arg[c].offered => TokenOf(arg[c]) \in accepted

CallTokens == \A c \in Callers : CallToken(c)

\* A renewal belongs to a token that was accepted.
AcceptedInv ==
    /\ accepted \subseteq issued
    /\ \A s \in Steps : renewal[s].fence # 0 =>
          \E t \in accepted : t.step = s /\ t.fence = renewal[s].fence

\* Swept and withdrawn tokens are fenced, and a token that is the last of its
\* step without being current was swept or withdrawn.
GoneInv ==
    /\ \A o \in orphans : o[1] \in issued /\ ~Current(o[1])
    /\ \A t \in withdrawn : t \in issued /\ ~Current(t)
    /\ \A t \in issued :
          (\A u \in issued : u.step = t.step => u.fence <= t.fence)
              => Current(t) \/ Swept(t) \/ t \in withdrawn

\* A renewal never ends before the claim it renews.
WindowInv ==
    \A s \in Steps :
        /\ claim[s].expires <= now + TTL
        /\ claim[s].fence # 0 /\ renewal[s].fence = claim[s].fence
              => claim[s].expires <= renewal[s].expires

\* What a caller knows of the window of the claim it read, while that claim
\* stands: a sweep about to delete it has seen its expiry pass.
CallWindow(c) ==
    /\ pc[c] \in {"takeGet", "takeWrite"} => arg[c].expires <= now + TTL
    /\ pc[c] \in Holding /\ claim[arg[c].step].fence = arg[c].fence =>
          /\ pc[c] = "renewPut" => claim[arg[c].step].expires <= arg[c].expires
          /\ pc[c] = "expireRenewal" => claim[arg[c].step].expires = arg[c].expires
          /\ pc[c] = "expireDelete" => claim[arg[c].step].expires < now

CallWindows == \A c \in Callers : CallWindow(c)

Inv ==
    /\ TypeOK
    /\ TokensInv /\ CallTokens /\ AcceptedInv /\ GoneInv
    /\ WindowInv /\ CallWindows
    /\ OneLeasePerAttempt /\ OrphanHandedOnce /\ UnacceptedNeverOrphaned
==============================================================================
