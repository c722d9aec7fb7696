----------------------------- MODULE LeaseProofs -----------------------------
(* Theorems about Lease, for any steps, callers, bounds and window. *)
EXTENDS LeaseInv, TLAPS

------------------------------------------------------------------------------
(* Type correctness. *)

CallsOK ==
    /\ pc \in [Callers -> Places]
    /\ arg \in [Callers -> Args]
    /\ \A c \in Callers : pc[c] # "idle" => arg[c].step \in Steps

\* A call that returns leaves its caller idle and well typed.
LEMMA ReturnOK ==
    ASSUME CallsOK, NEW c \in Callers, Return(c) PROVE CallsOK'
  BY DEF CallsOK, Return, Blank, Args, Places

\* A call that goes on carries well-typed arguments for some step.
LEMMA GotoOK ==
    ASSUME CallsOK, NEW c \in Callers, NEW p \in Places, NEW a \in Args,
           a.step \in Steps, Goto(c, p, a)
    PROVE  CallsOK'
  BY DEF CallsOK, Goto, Places

StoreOK ==
    /\ claim \in [Steps -> Claims]
    /\ renewal \in [Steps -> Renewals]
    /\ rev \in Nat
    /\ now \in Nat
    /\ issued \subseteq Tokens
    /\ accepted \subseteq Tokens
    /\ orphans \subseteq Tokens \X Callers
    /\ withdrawn \subseteq Tokens

\* Type correctness is that of the store and that of the calls.
LEMMA TypeSplit == TypeOK <=> StoreOK /\ CallsOK
  BY DEF TypeOK, StoreOK, CallsOK

\* Five actions write the bucket; every other step leaves it, and what the
\* calls have returned so far, alone.
LEMMA StoreSteps ==
    ASSUME [Next]_vars
    PROVE  \/ UNCHANGED <<bucket, history>>
           \/ \E c \in Callers :
                 \/ TakeWrite(c) \/ RenewPut(c)
                 \/ ExpireDelete(c) \/ ExpireClear(c) \/ WithdrawDelete(c)
  BY DEF Next, Continue, vars, TakeBegin, TakeGet, TakeLost, RenewGet, ExpireGet,
         ExpireRenewal, WithdrawGet, WithdrawRenewal, Abandon, Tick

\* The clock only moves forward.
LEMMA ClockStep ==
    ASSUME now \in Nat, [Next]_vars PROVE now' \in Nat /\ now' >= now
  <1>1. UNCHANGED now \/ Tick
    BY DEF Next, Continue, vars, TakeBegin, TakeGet, TakeLost, RenewGet, ExpireGet,
           ExpireRenewal, WithdrawGet, WithdrawRenewal, Abandon,
           TakeWrite, PutClaim, RenewPut, ExpireDelete, ExpireClear, WithdrawDelete
  <1> QED
    BY <1>1 DEF Tick

\* What is stored stays well typed.
LEMMA StoreStep == ASSUME Inv, [Next]_vars PROVE StoreOK'
  <1> USE DEF StoreOK
  <1>0. StoreOK /\ CallsOK /\ CallTokens
    BY TypeSplit DEF Inv
  <1>1. now' \in Nat
    BY <1>0, ClockStep
  <1>2. CASE UNCHANGED <<bucket, history>>
    BY <1>0, <1>1, <1>2 DEF bucket, history
  <1>3. ASSUME NEW c \in Callers PROVE arg[c] \in Args /\ pc[c] \in Places
    BY <1>0 DEF CallsOK
  <1>4. ASSUME NEW c \in Callers, pc[c] \in Holding
        PROVE  TokenOf(arg[c]) \in Tokens /\ arg[c].step \in Steps
    BY <1>0, <1>4 DEF CallTokens, CallToken, CallsOK, Holding
  <1>5. ASSUME NEW c \in Callers, TakeWrite(c) PROVE StoreOK'
    <2>1. arg[c].step \in Steps
      BY <1>0, <1>5 DEF TakeWrite, PutClaim, CallsOK
    <2>2. TokenOf([arg[c] EXCEPT !.fence = rev + 1]) \in Tokens
      BY <1>0, <1>3, <2>1 DEF TokenOf, Args, Tokens
    <2> QED
      BY <1>0, <1>1, <1>3, <1>5, <2>1, <2>2 DEF TakeWrite, PutClaim, Args, Claims
  <1>6. ASSUME NEW c \in Callers, RenewPut(c) PROVE StoreOK'
    <2>1. TokenOf(arg[c]) \in Tokens /\ arg[c].step \in Steps
      BY <1>4, <1>6 DEF RenewPut, Holding
    <2> QED
      BY <1>0, <1>1, <1>3, <1>6, <2>1 DEF RenewPut, Args, Renewals
  <1>7. ASSUME NEW c \in Callers, ExpireDelete(c) PROVE StoreOK'
    <2>1. TokenOf(arg[c]) \in Tokens /\ arg[c].step \in Steps
      BY <1>4, <1>7 DEF ExpireDelete, Holding
    <2>2. NoClaim \in Claims
      BY DEF NoClaim, Claims
    <2>3. CASE claim[arg[c].step].fence = arg[c].fence
      BY <1>0, <1>1, <1>7, <2>1, <2>2, <2>3 DEF ExpireDelete
    <2>4. CASE claim[arg[c].step].fence # arg[c].fence
      BY <1>0, <1>1, <1>7, <2>4 DEF ExpireDelete
    <2> QED
      BY <2>3, <2>4
  <1>8. ASSUME NEW c \in Callers, ExpireClear(c) PROVE StoreOK'
    <2>1. arg[c].step \in Steps
      BY <1>4, <1>8 DEF ExpireClear, Holding
    <2> QED
      BY <1>0, <1>1, <1>8, <2>1 DEF ExpireClear, Renewals, NoRenewal, history
  <1>9. ASSUME NEW c \in Callers, WithdrawDelete(c) PROVE StoreOK'
    <2>1. TokenOf(arg[c]) \in Tokens /\ arg[c].step \in Steps
      BY <1>4, <1>9 DEF WithdrawDelete, Holding
    <2>2. NoClaim \in Claims
      BY DEF NoClaim, Claims
    <2>3. CASE claim[arg[c].step].fence = arg[c].fence
      BY <1>0, <1>1, <1>9, <2>1, <2>2, <2>3 DEF WithdrawDelete
    <2>4. CASE claim[arg[c].step].fence # arg[c].fence
      BY <1>0, <1>1, <1>9, <2>4 DEF WithdrawDelete
    <2> QED
      BY <2>3, <2>4
  <1> QED
    BY <1>2, <1>5, <1>6, <1>7, <1>8, <1>9, StoreSteps

\* Calls stay well typed: each step ends a call, takes it to its next place,
\* or is not of a call.
LEMMA CallsStep == ASSUME Inv, [Next]_vars PROVE CallsOK'
  <1> USE DEF Places
  <1>0. StoreOK /\ CallsOK
    BY TypeSplit DEF Inv
  <1>1. ASSUME NEW c \in Callers PROVE arg[c] \in Args /\ (pc[c] # "idle" => arg[c].step \in Steps)
    BY <1>0 DEF CallsOK
  <1>2. Blank \in Args
    BY DEF Blank, Args
  <1>3. \A c \in Callers : Return(c) => CallsOK'
    BY <1>0, ReturnOK
  <1>4. ASSUME NEW c \in Callers, NEW s \in Steps, NEW a \in 1..MaxAttempt, NEW o \in BOOLEAN,
               TakeBegin(c, s, a, o)
        PROVE  CallsOK'
    <2> DEFINE e == now + TTL
               b == [Blank EXCEPT !.step = s, !.attempt = a, !.offered = o, !.expires = e]
    <2>1. e \in Nat /\ a \in Nat
      BY <1>0, LeaseAssumption DEF LeaseAssumption, StoreOK
    <2>2. Goto(c, "takeGet", b)
      BY <1>4 DEF TakeBegin
    <2> HIDE DEF e
    <2>3. b \in Args /\ b.step \in Steps
      BY <1>2, <2>1 DEF Args
    <2> HIDE DEF b
    <2> QED
      BY <1>0, <2>2, <2>3, GotoOK
  <1>5. ASSUME NEW c \in Callers, TakeGet(c) PROVE CallsOK'
    <2> DEFINE b == [arg[c] EXCEPT !.fence = claim[arg[c].step].fence]
    <2>1. arg[c].step \in Steps
      BY <1>1, <1>5 DEF TakeGet
    <2>2. b \in Args /\ b.step \in Steps
      BY <1>0, <1>1, <2>1 DEF StoreOK, Claims, Args
    <2>3. Return(c) \/ Goto(c, "takeWrite", b)
      BY <1>5 DEF TakeGet
    <2> HIDE DEF b
    <2> QED
      BY <1>0, <1>3, <2>2, <2>3, GotoOK
  <1>6. ASSUME NEW c \in Callers, TakeLost(c) PROVE CallsOK'
    <2> DEFINE r == arg[c].races + 1
               b == [arg[c] EXCEPT !.fence = 0, !.races = r]
    <2>0. arg[c] \in Args /\ arg[c].step \in Steps
      BY <1>1, <1>6 DEF TakeLost
    <2>1. b \in Args /\ b.step \in Steps
      <3>1. r \in Nat
        BY <2>0 DEF Args
      <3> HIDE DEF r
      <3> QED
        BY <2>0, <3>1 DEF Args
    <2>2. Return(c) \/ Goto(c, "takeGet", b)
      BY <1>6 DEF TakeLost
    <2> HIDE DEF b
    <2> QED
      BY <1>0, <1>3, <2>1, <2>2, GotoOK
  <1>7. ASSUME NEW c \in Callers, NEW t \in issued, RenewGet(c, t) PROVE CallsOK'
    <2> DEFINE e == now + TTL
               b == [Blank EXCEPT !.step = t.step, !.attempt = t.attempt,
                       !.offered = t.offered, !.fence = t.fence, !.expires = e]
    <2>1. e \in Nat /\ t \in Tokens
      BY <1>0, LeaseAssumption DEF LeaseAssumption, StoreOK
    <2>2. Goto(c, "renewPut", b)
      BY <1>7 DEF RenewGet
    <2> HIDE DEF e
    <2>3. b \in Args /\ b.step \in Steps
      BY <1>2, <2>1 DEF Args, Tokens
    <2> HIDE DEF b
    <2> QED
      BY <1>0, <2>2, <2>3, GotoOK
  <1>8. ASSUME NEW c \in Callers, NEW s \in Steps, ExpireGet(c, s) PROVE CallsOK'
    BY <1>0, <1>8, GotoOK DEF ExpireGet, StoreOK, Claims, Blank, Args
  <1>9. ASSUME NEW c \in Callers, ExpireRenewal(c) PROVE CallsOK'
    BY <1>0, <1>1, <1>3, <1>9, GotoOK DEF ExpireRenewal
  <1>10. ASSUME NEW c \in Callers, ExpireDelete(c) PROVE CallsOK'
    BY <1>0, <1>1, <1>3, <1>10, GotoOK DEF ExpireDelete
  <1>11. ASSUME NEW c \in Callers, NEW t \in issued, WithdrawGet(c, t) PROVE CallsOK'
    BY <1>0, <1>11, GotoOK DEF WithdrawGet, StoreOK, Tokens, Blank, Args
  <1>12. ASSUME NEW c \in Callers, WithdrawRenewal(c) PROVE CallsOK'
    BY <1>0, <1>1, <1>3, <1>12, GotoOK DEF WithdrawRenewal
  <1>13. ASSUME NEW c \in Callers,
                TakeWrite(c) \/ RenewPut(c) \/ ExpireClear(c) \/ WithdrawDelete(c) \/ Abandon(c)
         PROVE  CallsOK'
    BY <1>3, <1>13 DEF TakeWrite, PutClaim, RenewPut, ExpireClear, WithdrawDelete, Abandon
  <1>14. CASE Tick \/ UNCHANGED vars
    BY <1>0, <1>14 DEF Tick, vars, CallsOK
  <1> QED
    BY <1>4, <1>5, <1>6, <1>7, <1>8, <1>9, <1>10, <1>11, <1>12, <1>13, <1>14
       DEF Next, Continue

------------------------------------------------------------------------------
(* Tokens and what callers know of them. *)

\* A take that goes through issues one token, whose fence is the bucket's
\* next revision, and puts it at the step's key.
LEMMA Granted ==
    ASSUME Inv, NEW c \in Callers, TakeWrite(c)
    PROVE  \E t \in Tokens :
              /\ t.step = arg[c].step /\ t.attempt = arg[c].attempt
              /\ t.offered = arg[c].offered /\ t.fence = rev' /\ rev' = rev + 1
              /\ issued' = issued \cup {t}
              /\ claim' = [claim EXCEPT ![t.step] =
                              [fence |-> t.fence, attempt |-> t.attempt,
                               expires |-> arg[c].expires, offered |-> t.offered]]
  <1> DEFINE f == rev + 1
             t == TokenOf([arg[c] EXCEPT !.fence = f])
  <1>1. StoreOK /\ CallsOK /\ arg[c] \in Args /\ arg[c].step \in Steps
    BY TypeSplit DEF Inv, CallsOK, TakeWrite, PutClaim
  <1>2. f \in Nat \ {0} /\ rev' = f
    BY <1>1 DEF StoreOK, TakeWrite, PutClaim
  <1>3. issued' = issued \cup {t}
    BY DEF TakeWrite, PutClaim
  <1>4. claim' = [claim EXCEPT ![arg[c].step] =
                     [fence |-> f, attempt |-> arg[c].attempt,
                      expires |-> arg[c].expires, offered |-> arg[c].offered]]
    BY DEF TakeWrite, PutClaim
  <1> HIDE DEF f
  <1>5. /\ t \in Tokens /\ t.step = arg[c].step /\ t.attempt = arg[c].attempt
        /\ t.offered = arg[c].offered /\ t.fence = f
    BY <1>1, <1>2 DEF TokenOf, Args, Tokens
  <1>6. rev' = rev + 1
    BY <1>2 DEF f
  <1> HIDE DEF t
  <1> QED
    BY <1>2, <1>3, <1>4, <1>5, <1>6

\* Revisions and histories only grow, and a new token's fence is new.
LEMMA Grows ==
    ASSUME Inv, [Next]_vars
    PROVE  /\ rev' \in Nat /\ rev' >= rev
           /\ issued \subseteq issued' /\ accepted \subseteq accepted'
           /\ \A t \in issued' : t \in issued \/ (t.fence = rev' /\ rev' = rev + 1)
  <1>1. rev \in Nat
    BY DEF Inv, TypeOK
  <1>2. CASE UNCHANGED <<bucket, history>>
    BY <1>1, <1>2 DEF bucket, history
  <1>3. ASSUME NEW c \in Callers, TakeWrite(c)
        PROVE  /\ rev' \in Nat /\ rev' >= rev
               /\ issued \subseteq issued' /\ accepted \subseteq accepted'
               /\ \A t \in issued' : t \in issued \/ (t.fence = rev' /\ rev' = rev + 1)
    <2>1. PICK u \in Tokens : u.fence = rev' /\ rev' = rev + 1 /\ issued' = issued \cup {u}
      BY <1>3, Granted
    <2>2. accepted' = accepted
      BY <1>3 DEF TakeWrite, PutClaim
    <2> QED
      BY <1>1, <2>1, <2>2
  <1>4. ASSUME NEW c \in Callers,
               RenewPut(c) \/ ExpireDelete(c) \/ ExpireClear(c) \/ WithdrawDelete(c)
        PROVE  /\ rev' \in Nat /\ rev' >= rev
               /\ issued' = issued /\ accepted \subseteq accepted'
    BY <1>1, <1>4 DEF RenewPut, ExpireDelete, ExpireClear, WithdrawDelete, history
  <1> QED
    BY <1>2, <1>3, <1>4, StoreSteps

\* Fences stay unique, and the claim at a key stays the last token issued.
LEMMA TokensStep == ASSUME Inv, [Next]_vars PROVE TokensInv'
  <1>0. StoreOK /\ CallsOK /\ TokensInv
    BY TypeSplit DEF Inv
  <1>1. CASE UNCHANGED <<bucket, history>>
    BY <1>0, <1>1 DEF TokensInv, ClaimToken, bucket, history
  <1>2. ASSUME NEW c \in Callers, TakeWrite(c) PROVE TokensInv'
    <2>1. PICK u \in Tokens :
              /\ u.fence = rev' /\ rev' = rev + 1
              /\ issued' = issued \cup {u}
              /\ claim' = [claim EXCEPT ![u.step] =
                              [fence |-> u.fence, attempt |-> u.attempt,
                               expires |-> arg[c].expires, offered |-> u.offered]]
      BY <1>2, Granted
    <2>2. rev \in Nat /\ issued \subseteq Tokens /\ claim \in [Steps -> Claims]
      BY <1>0 DEF StoreOK
    <2>3. \A t \in issued : t.fence \in Nat /\ t.fence <= rev /\ t.fence < u.fence
      BY <1>0, <2>1, <2>2 DEF TokensInv, Tokens
    <2>4. \A t \in issued' : t.fence <= rev'
      BY <2>1, <2>2, <2>3
    <2>5. \A t, v \in issued' : t.fence = v.fence => t = v
      BY <1>0, <2>1, <2>2, <2>3 DEF TokensInv
    <2>6. ASSUME NEW s \in Steps, claim'[s].fence # 0
          PROVE  /\ ClaimToken(s)' \in issued'
                 /\ \A t \in issued' : t.step = s => t.fence <= claim'[s].fence
      <3>1. CASE s = u.step
        <4>1. /\ claim'[s].fence = u.fence /\ claim'[s].attempt = u.attempt
              /\ claim'[s].offered = u.offered
          BY <2>1, <2>2, <3>1
        <4>2. ClaimToken(s)' = u
          BY <3>1, <4>1 DEF ClaimToken, Tokens
        <4> QED
          BY <2>1, <2>2, <2>3, <4>1, <4>2 DEF Tokens
      <3>2. CASE s # u.step
        <4>1. claim'[s] = claim[s]
          BY <2>1, <2>2, <3>2
        <4> QED
          BY <1>0, <2>1, <2>6, <3>2, <4>1 DEF TokensInv, ClaimToken
      <3> QED
        BY <3>1, <3>2
    <2> QED
      BY <2>4, <2>5, <2>6 DEF TokensInv
  <1>3. ASSUME NEW c \in Callers, RenewPut(c) \/ ExpireClear(c) PROVE TokensInv'
    <2>1. rev' = rev + 1 /\ UNCHANGED <<claim, issued>>
      BY <1>3 DEF RenewPut, ExpireClear, history
    <2> QED
      BY <1>0, <2>1 DEF TokensInv, ClaimToken, StoreOK, Tokens
  <1>4. ASSUME NEW c \in Callers, ExpireDelete(c) \/ WithdrawDelete(c) PROVE TokensInv'
    <2>1. /\ rev' >= rev /\ UNCHANGED issued
          /\ claim' = claim \/ claim' = [claim EXCEPT ![arg[c].step] = NoClaim]
      BY <1>0, <1>4 DEF ExpireDelete, WithdrawDelete, StoreOK
    <2>2. rev' \in Nat
      BY Grows
    <2>3. \A s \in Steps : claim'[s] = claim[s] \/ claim'[s].fence = 0
      BY <1>0, <2>1 DEF StoreOK, NoClaim
    <2> QED
      BY <1>0, <2>1, <2>2, <2>3 DEF TokensInv, ClaimToken, StoreOK, Tokens
  <1> QED
    BY <1>1, <1>2, <1>3, <1>4, StoreSteps

\* A token is determined by its fence, whoever carries it.
LEMMA SameToken ==
    ASSUME Inv, NEW t \in issued, NEW s \in Steps, claim[s].fence = t.fence
    PROVE  t = ClaimToken(s)
  BY DEF Inv, TypeOK, TokensInv, ClaimToken, Tokens

\* A caller that a step leaves alone still knows what it knew.
LEMMA OthersTokens ==
    ASSUME Inv, [Next]_vars, NEW d \in Callers, UNCHANGED <<pc[d], arg[d]>>
    PROVE  CallToken(d)'
  <1>1. CallToken(d) /\ arg[d] \in Args /\ rev \in Nat
    BY DEF Inv, TypeOK, CallTokens
  <1>2. /\ rev' \in Nat /\ rev' >= rev
        /\ issued \subseteq issued' /\ accepted \subseteq accepted'
        /\ \A t \in issued' : t \in issued \/ (t.fence = rev' /\ rev' = rev + 1)
    BY Grows
  <1>3. arg[d].fence \in Nat /\ arg[d].fence <= rev /\ arg'[d].fence <= rev'
    BY <1>1, <1>2 DEF CallToken, Args
  <1>4. ASSUME pc[d] = "takeWrite", NEW t \in issued', t.step = arg[d].step, t.fence = arg[d].fence
        PROVE  t.attempt < arg[d].attempt
    <2>1. t \in issued
      BY <1>1, <1>2, <1>3, <1>4
    <2> QED
      BY <1>1, <1>4, <2>1 DEF CallToken
  <1> QED
    BY <1>1, <1>2, <1>3, <1>4 DEF CallToken, TokenOf

\* A call that returns knows nothing.
LEMMA ReturnTokens ==
    ASSUME Inv, [Next]_vars, NEW c \in Callers, Return(c) PROVE CallTokens'
  <1>1. rev' \in Nat
    BY Grows
  <1>2. ASSUME NEW d \in Callers PROVE CallToken(d)'
    <2>1. CASE d = c
      BY <1>1, <2>1 DEF Return, Inv, TypeOK, CallToken, Blank, Holding
    <2>2. CASE d # c
      BY <2>2, OthersTokens DEF Return, Inv, TypeOK
    <2> QED
      BY <2>1, <2>2
  <1> QED
    BY <1>2 DEF CallTokens

\* A call that goes on, and whose caller knows what its new place needs.
LEMMA GotoTokens ==
    ASSUME Inv, [Next]_vars, NEW c \in Callers, NEW p, NEW a, Goto(c, p, a),
           a.fence <= rev',
           p \in {"takeGet", "takeWrite"} => a.attempt \in 1..MaxAttempt,
           p = "takeWrite" =>
              \A t \in issued' : t.step = a.step /\ t.fence = a.fence
                                    => t.attempt < a.attempt,
           p \in Holding => TokenOf(a) \in issued',
           p = "expireDelete" /\ a.offered => TokenOf(a) \in accepted'
    PROVE  CallTokens'
  <1>1. ASSUME NEW d \in Callers PROVE CallToken(d)'
    <2>1. CASE d = c
      <3>1. pc'[d] = p /\ arg'[d] = a
        BY <2>1 DEF Goto, Inv, TypeOK
      <3> QED
        BY <3>1 DEF CallToken, TokenOf
    <2>2. CASE d # c
      BY <2>2, OthersTokens DEF Goto, Inv, TypeOK
    <2> QED
      BY <2>1, <2>2
  <1> QED
    BY <1>1 DEF CallTokens

\* Each step of a call takes along what its next step relies on.
LEMMA CallTokensStep == ASSUME Inv, [Next]_vars PROVE CallTokens'
  <1>0. StoreOK /\ CallsOK /\ TokensInv /\ CallTokens /\ AcceptedInv
    BY TypeSplit DEF Inv
  <1>1. ASSUME NEW c \in Callers
        PROVE  /\ CallToken(c) /\ arg[c] \in Args
               /\ pc[c] # "idle" => arg[c].step \in Steps
    BY <1>0 DEF CallTokens, CallsOK
  <1>2. \A c \in Callers : Return(c) => CallTokens'
    BY ReturnTokens
  <1>3. /\ rev \in Nat /\ rev' \in Nat /\ rev' >= rev
        /\ issued \subseteq issued' /\ accepted \subseteq accepted' /\ issued \subseteq Tokens
    BY <1>0, Grows DEF StoreOK
  <1>4. ASSUME NEW c \in Callers, NEW s \in Steps, NEW a \in 1..MaxAttempt, NEW o \in BOOLEAN,
               TakeBegin(c, s, a, o)
        PROVE  CallTokens'
    <2> DEFINE e == now + TTL
               b == [Blank EXCEPT !.step = s, !.attempt = a, !.offered = o, !.expires = e]
    <2>1. Goto(c, "takeGet", b)
      BY <1>4 DEF TakeBegin
    <2> HIDE DEF e
    <2>2. b.fence = 0 /\ b.attempt = a
      BY DEF Blank
    <2> HIDE DEF b
    <2> QED
      BY <1>3, <2>1, <2>2, GotoTokens DEF Holding
  <1>5. ASSUME NEW c \in Callers, TakeGet(c) PROVE CallTokens'
    <2> DEFINE s == arg[c].step
               b == [arg[c] EXCEPT !.fence = claim[s].fence]
    <2>1. UNCHANGED <<issued, rev>> /\ s \in Steps
      BY <1>1, <1>5 DEF TakeGet, bucket, history
    <2>2. CASE claim[s].fence # 0 /\ claim[s].attempt >= arg[c].attempt
      BY <1>2, <1>5, <2>2 DEF TakeGet
    <2>3. CASE ~(claim[s].fence # 0 /\ claim[s].attempt >= arg[c].attempt)
      <3>1. Goto(c, "takeWrite", b)
        BY <1>5, <2>3 DEF TakeGet
      <3>2. /\ b.fence = claim[s].fence /\ b.step = s
            /\ b.attempt = arg[c].attempt /\ b.attempt \in 1..MaxAttempt
        BY <1>1, <1>5 DEF Args, TakeGet, CallToken
      <3>3. claim[s] \in Claims /\ arg[c].attempt \in Nat
        BY <1>0, <1>1, <2>1 DEF StoreOK, Args
      <3>4. b.fence <= rev
        <4>1. CASE claim[s].fence = 0
          BY <1>3, <3>2, <4>1
        <4>2. CASE claim[s].fence # 0
          <5>1. ClaimToken(s) \in issued /\ ClaimToken(s).fence = claim[s].fence
            BY <1>0, <2>1, <4>2 DEF TokensInv, ClaimToken
          <5> QED
            BY <1>0, <3>2, <5>1 DEF TokensInv
        <4> QED
          BY <4>1, <4>2
      <3>5. ASSUME NEW t \in issued, t.step = s, t.fence = claim[s].fence
            PROVE  t.attempt < arg[c].attempt
        <4>1. t = ClaimToken(s) /\ claim[s].fence # 0
          BY <1>3, <2>1, <3>5, SameToken DEF Tokens
        <4> QED
          BY <2>3, <3>3, <4>1 DEF ClaimToken, Claims
      <3> HIDE DEF b
      <3> QED
        BY <2>1, <3>1, <3>2, <3>4, <3>5, GotoTokens DEF Holding
    <2> QED
      BY <2>2, <2>3
  <1>6. ASSUME NEW c \in Callers, TakeLost(c) PROVE CallTokens'
    <2> DEFINE r == arg[c].races + 1
               b == [arg[c] EXCEPT !.fence = 0, !.races = r]
    <2>1. Return(c) \/ Goto(c, "takeGet", b)
      BY <1>6 DEF TakeLost
    <2> HIDE DEF r
    <2>2. b.fence = 0 /\ b.attempt = arg[c].attempt /\ b.attempt \in 1..MaxAttempt
      BY <1>1, <1>6 DEF Args, TakeLost, CallToken
    <2> HIDE DEF b
    <2> QED
      BY <1>2, <1>3, <2>1, <2>2, GotoTokens DEF Holding
  <1>7. ASSUME NEW c \in Callers, NEW t \in issued, RenewGet(c, t) PROVE CallTokens'
    <2> DEFINE e == now + TTL
               b == [Blank EXCEPT !.step = t.step, !.attempt = t.attempt,
                       !.offered = t.offered, !.fence = t.fence, !.expires = e]
    <2>1. Goto(c, "renewPut", b)
      BY <1>7 DEF RenewGet
    <2> HIDE DEF e
    <2>2. TokenOf(b) = t /\ b.fence = t.fence
      BY <1>3 DEF TokenOf, Blank, Tokens
    <2>3. b.fence <= rev /\ rev' = rev
      BY <1>0, <1>7, <2>2 DEF TokensInv, RenewGet, bucket
    <2> HIDE DEF b
    <2> QED
      BY <1>3, <2>1, <2>2, <2>3, GotoTokens
  <1>8. ASSUME NEW c \in Callers, NEW s \in Steps, ExpireGet(c, s) PROVE CallTokens'
    <2> DEFINE b == [Blank EXCEPT !.step = s, !.attempt = claim[s].attempt,
                       !.offered = claim[s].offered, !.fence = claim[s].fence,
                       !.expires = claim[s].expires]
    <2>1. Goto(c, "expireRenewal", b) /\ claim[s].fence # 0 /\ rev' = rev
      BY <1>8 DEF ExpireGet, bucket
    <2>2. TokenOf(b) = ClaimToken(s) /\ b.fence = claim[s].fence
      BY DEF TokenOf, Blank, ClaimToken
    <2>3. ClaimToken(s) \in issued /\ b.fence <= rev
      BY <1>0, <2>1, <2>2 DEF TokensInv, ClaimToken
    <2> HIDE DEF b
    <2> QED
      BY <1>3, <2>1, <2>2, <2>3, GotoTokens
  <1>9. ASSUME NEW c \in Callers, ExpireRenewal(c) PROVE CallTokens'
    <2> DEFINE a == arg[c]
    <2>1. CASE HasHolder(a, renewal[a.step]) /\ now > Deadline(a, renewal[a.step])
      <3>1. Goto(c, "expireDelete", a) /\ UNCHANGED <<bucket, history>>
        BY <1>9, <2>1 DEF ExpireRenewal
      <3>2. TokenOf(a) \in issued /\ a.fence <= rev /\ a.step \in Steps
        BY <1>1, <1>9 DEF ExpireRenewal, CallToken, Holding
      <3>3. ASSUME a.offered PROVE TokenOf(a) \in accepted
        <4>1. renewal[a.step].fence = a.fence /\ TokenOf(a).fence = a.fence
          BY <2>1, <3>3 DEF HasHolder, TokenOf
        <4>2. a.fence # 0
          BY <1>3, <3>2, <4>1 DEF Tokens
        <4>3. PICK t \in accepted : t.fence = renewal[a.step].fence
          BY <1>0, <3>2, <4>1, <4>2 DEF AcceptedInv
        <4> QED
          BY <1>0, <3>2, <4>1, <4>3 DEF AcceptedInv, TokensInv
      <3> HIDE DEF a
      <3> QED
        BY <3>1, <3>2, <3>3, GotoTokens DEF bucket, history
    <2>2. CASE ~(HasHolder(a, renewal[a.step]) /\ now > Deadline(a, renewal[a.step]))
      BY <1>2, <1>9, <2>2 DEF ExpireRenewal
    <2> QED
      BY <2>1, <2>2
  <1>10. ASSUME NEW c \in Callers, ExpireDelete(c) PROVE CallTokens'
    <2>1. Return(c) \/ Goto(c, "expireClear", arg[c])
      BY <1>10 DEF ExpireDelete
    <2>2. TokenOf(arg[c]) \in issued /\ arg[c].fence <= rev /\ arg[c].fence \in Nat
      BY <1>1, <1>10 DEF ExpireDelete, CallToken, Holding, Args
    <2>3. arg[c].fence <= rev'
      BY <1>3, <2>2
    <2> QED
      BY <1>2, <1>3, <2>1, <2>2, <2>3, GotoTokens
  <1>11. ASSUME NEW c \in Callers, NEW t \in issued, WithdrawGet(c, t) PROVE CallTokens'
    <2> DEFINE b == [Blank EXCEPT !.step = t.step, !.attempt = t.attempt,
                       !.offered = t.offered, !.fence = t.fence]
    <2>1. Goto(c, "withdrawRenewal", b)
      BY <1>11 DEF WithdrawGet
    <2>2. TokenOf(b) = t /\ b.fence = t.fence
      BY <1>3 DEF TokenOf, Blank, Tokens
    <2>3. b.fence <= rev /\ rev' = rev
      BY <1>0, <1>11, <2>2 DEF TokensInv, WithdrawGet, bucket
    <2> HIDE DEF b
    <2> QED
      BY <1>3, <2>1, <2>2, <2>3, GotoTokens
  <1>12. ASSUME NEW c \in Callers, WithdrawRenewal(c) PROVE CallTokens'
    <2>1. Return(c) \/ Goto(c, "withdrawDelete", arg[c])
      BY <1>12 DEF WithdrawRenewal
    <2>2. TokenOf(arg[c]) \in issued /\ arg[c].fence <= rev /\ rev' = rev
      BY <1>1, <1>12 DEF WithdrawRenewal, CallToken, Holding, bucket
    <2> QED
      BY <1>2, <1>3, <2>1, <2>2, GotoTokens
  <1>13. ASSUME NEW c \in Callers,
                TakeWrite(c) \/ RenewPut(c) \/ ExpireClear(c) \/ WithdrawDelete(c) \/ Abandon(c)
         PROVE  CallTokens'
    BY <1>2, <1>13 DEF TakeWrite, PutClaim, RenewPut, ExpireClear, WithdrawDelete, Abandon
  <1>14. CASE Tick \/ UNCHANGED vars
    BY <1>14, OthersTokens DEF Tick, vars, CallTokens
  <1> QED
    BY <1>4, <1>5, <1>6, <1>7, <1>8, <1>9, <1>10, <1>11, <1>12, <1>13, <1>14
       DEF Next, Continue

\* Renewals stay those of accepted tokens, and accepted tokens issued ones.
LEMMA AcceptedStep == ASSUME Inv, [Next]_vars PROVE AcceptedInv'
  <1>0. StoreOK /\ CallsOK /\ CallTokens /\ AcceptedInv
    BY TypeSplit DEF Inv
  <1>1. CASE UNCHANGED <<accepted, renewal>>
    BY <1>0, <1>1, Grows DEF AcceptedInv
  <1>2. ASSUME NEW c \in Callers, RenewPut(c) PROVE AcceptedInv'
    <2> DEFINE t == TokenOf(arg[c])
    <2>1. t \in issued /\ t.step = arg[c].step /\ t.fence = arg[c].fence
      BY <1>0, <1>2 DEF CallTokens, CallToken, RenewPut, Holding, TokenOf
    <2>2. accepted' = accepted \cup {t} /\ issued' = issued
      BY <1>2 DEF RenewPut
    <2>3. \A s \in Steps : renewal'[s] = renewal[s] \/ (s = t.step /\ renewal'[s].fence = t.fence)
      BY <1>0, <1>2, <2>1 DEF RenewPut, StoreOK
    <2> HIDE DEF t
    <2> QED
      BY <1>0, <2>1, <2>2, <2>3 DEF AcceptedInv
  <1>3. ASSUME NEW c \in Callers, ExpireClear(c) PROVE AcceptedInv'
    <2>1. \A s \in Steps : renewal'[s] = renewal[s] \/ renewal'[s].fence = 0
      BY <1>0, <1>3 DEF ExpireClear, StoreOK, NoRenewal
    <2>2. UNCHANGED <<accepted, issued>>
      BY <1>3 DEF ExpireClear, history
    <2> QED
      BY <1>0, <2>1, <2>2 DEF AcceptedInv
  <1> QED
    BY <1>1, <1>2, <1>3, StoreSteps
       DEF bucket, history, TakeWrite, PutClaim, ExpireDelete, WithdrawDelete

------------------------------------------------------------------------------
(* Leases that are gone. *)

\* A conditional delete removes the lease its caller presents, and only it.
LEMMA Removed ==
    ASSUME Inv, NEW c \in Callers, pc[c] \in Holding,
           claim[arg[c].step].fence = arg[c].fence,
           claim' = [claim EXCEPT ![arg[c].step] = NoClaim]
    PROVE  /\ TokenOf(arg[c]) \in issued /\ Current(TokenOf(arg[c]))
           /\ \A t \in issued : Current(t)' <=> Current(t) /\ t # TokenOf(arg[c])
  <1> DEFINE r == TokenOf(arg[c])
  <1>1. /\ claim \in [Steps -> Claims] /\ issued \subseteq Tokens /\ TokensInv
        /\ arg[c].step \in Steps /\ r \in issued
    BY DEF Inv, TypeOK, CallTokens, CallToken, Holding
  <1>2. r.step = arg[c].step /\ r.fence = arg[c].fence
    BY DEF TokenOf
  <1>3. claim'[r.step].fence = 0 /\ \A s \in Steps \ {r.step} : claim'[s] = claim[s]
    BY <1>1, <1>2 DEF NoClaim
  <1>4. Current(r)
    BY <1>2 DEF Current
  <1> HIDE DEF r
  <1>5. ASSUME NEW t \in issued PROVE Current(t)' <=> Current(t) /\ t # r
    <2>1. t.step \in Steps /\ t.fence # 0
      BY <1>1 DEF Tokens
    <2>2. CASE t.step = r.step
      BY <1>1, <1>3, <1>4, <2>1, <2>2 DEF Current, TokensInv
    <2>3. CASE t.step # r.step
      BY <1>3, <2>1, <2>3 DEF Current
    <2> QED
      BY <2>2, <2>3
  <1> QED
    BY <1>1, <1>4, <1>5 DEF r

\* A delete that goes through, in both of its callers.
LEMMA Deletes ==
    ASSUME Inv, NEW c \in Callers, ExpireDelete(c) \/ WithdrawDelete(c)
    PROVE  \/ UNCHANGED <<claim, issued, orphans, withdrawn>>
           \/ /\ TokenOf(arg[c]) \in issued /\ Current(TokenOf(arg[c]))
              /\ \A t \in issued : Current(t)' <=> Current(t) /\ t # TokenOf(arg[c])
              /\ issued' = issued
              /\ \/ /\ orphans' = orphans \cup {<<TokenOf(arg[c]), c>>}
                    /\ pc[c] = "expireDelete" /\ UNCHANGED withdrawn
                 \/ withdrawn' = withdrawn \cup {TokenOf(arg[c])} /\ UNCHANGED orphans
  <1>1. CASE claim[arg[c].step].fence = arg[c].fence
    <2>1. pc[c] \in Holding /\ claim' = [claim EXCEPT ![arg[c].step] = NoClaim]
      BY <1>1 DEF ExpireDelete, WithdrawDelete, Holding
    <2>2. /\ TokenOf(arg[c]) \in issued /\ Current(TokenOf(arg[c]))
          /\ \A t \in issued : Current(t)' <=> Current(t) /\ t # TokenOf(arg[c])
      BY <1>1, <2>1, Removed
    <2> QED
      BY <1>1, <2>2 DEF ExpireDelete, WithdrawDelete
  <1>2. CASE claim[arg[c].step].fence # arg[c].fence
    BY <1>2 DEF ExpireDelete, WithdrawDelete
  <1> QED
    BY <1>1, <1>2

\* The steps that leave the leases and their fate alone.
LEMMA LeaseSteps ==
    ASSUME Inv, [Next]_vars
    PROVE  \/ UNCHANGED <<claim, issued, orphans, withdrawn>>
           \/ \E c \in Callers : TakeWrite(c) \/ ExpireDelete(c) \/ WithdrawDelete(c)
  BY StoreSteps DEF bucket, history, RenewPut, ExpireClear

\* A grant fences every token issued before it on its step and no other.
LEMMA GrantFences ==
    ASSUME Inv, NEW c \in Callers, TakeWrite(c)
    PROVE  \E u \in Tokens :
              /\ u.step = arg[c].step /\ u.attempt = arg[c].attempt
              /\ issued' = issued \cup {u} /\ Current(u)'
              /\ \A t \in issued : t.fence \in Nat /\ t.fence < u.fence
              /\ \A t \in issued : Current(t)' <=> Current(t) /\ t.step # u.step
  <1>1. PICK u \in Tokens :
            /\ u.step = arg[c].step /\ u.attempt = arg[c].attempt
            /\ u.fence = rev' /\ rev' = rev + 1
            /\ issued' = issued \cup {u}
            /\ claim' = [claim EXCEPT ![u.step] =
                            [fence |-> u.fence, attempt |-> u.attempt,
                             expires |-> arg[c].expires, offered |-> u.offered]]
    BY Granted
  <1>2. /\ claim \in [Steps -> Claims] /\ issued \subseteq Tokens /\ rev \in Nat
        /\ \A t \in issued : t.fence <= rev
    BY DEF Inv, TypeOK, TokensInv
  <1>3. \A t \in issued : t.fence \in Nat /\ t.fence < u.fence
    BY <1>1, <1>2 DEF Tokens
  <1>4. /\ u.step \in Steps /\ claim'[u.step].fence = u.fence
        /\ \A s \in Steps \ {u.step} : claim'[s] = claim[s]
    BY <1>1, <1>2 DEF Tokens
  <1>5. ASSUME NEW t \in issued PROVE Current(t)' <=> Current(t) /\ t.step # u.step
    <2>1. t.step \in Steps /\ t.fence # u.fence
      BY <1>2, <1>3 DEF Tokens
    <2> QED
      BY <1>4, <2>1 DEF Current
  <1>6. Current(u)'
    BY <1>4 DEF Current
  <1> QED
    BY <1>1, <1>3, <1>5, <1>6

\* What is swept or withdrawn stays fenced, and nothing else is.
LEMMA GoneStep == ASSUME Inv, [Next]_vars PROVE GoneInv'
  <1>0. GoneInv /\ issued \subseteq Tokens
    BY DEF Inv, TypeOK
  <1>1. CASE UNCHANGED <<claim, issued, orphans, withdrawn>>
    BY <1>0, <1>1 DEF GoneInv, Current, Swept
  <1>2. ASSUME NEW c \in Callers, TakeWrite(c) PROVE GoneInv'
    <2>1. PICK u \in Tokens :
              /\ issued' = issued \cup {u} /\ Current(u)'
              /\ \A t \in issued : t.fence \in Nat /\ t.fence < u.fence
              /\ \A t \in issued : Current(t)' <=> Current(t) /\ t.step # u.step
      BY <1>2, GrantFences
    <2>2. UNCHANGED <<orphans, withdrawn>>
      BY <1>2 DEF TakeWrite, PutClaim
    <2>3. /\ \A o \in orphans' : o[1] \in issued' /\ ~Current(o[1])'
          /\ \A t \in withdrawn' : t \in issued' /\ ~Current(t)'
      BY <1>0, <2>1, <2>2 DEF GoneInv
    <2>4. ASSUME NEW t \in issued', \A v \in issued' : v.step = t.step => v.fence <= t.fence
          PROVE  Current(t)' \/ Swept(t)' \/ t \in withdrawn'
      <3>1. CASE t = u
        BY <2>1, <3>1
      <3>2. CASE t # u
        <4>1. t \in issued /\ t.step # u.step
          BY <2>1, <2>4, <3>2 DEF Tokens
        <4>2. Current(t) \/ Swept(t) \/ t \in withdrawn
          BY <1>0, <2>1, <2>4, <4>1 DEF GoneInv
        <4> QED
          BY <2>1, <2>2, <4>1, <4>2 DEF Swept
      <3> QED
        BY <3>1, <3>2
    <2> QED
      BY <2>3, <2>4 DEF GoneInv
  <1>3. ASSUME NEW c \in Callers, ExpireDelete(c) \/ WithdrawDelete(c) PROVE GoneInv'
    <2> DEFINE r == TokenOf(arg[c])
    <2>1. SUFFICES ASSUME /\ r \in issued /\ Current(r)
                          /\ \A t \in issued : Current(t)' <=> Current(t) /\ t # r
                          /\ issued' = issued
                          /\ \/ orphans' = orphans \cup {<<r, c>>} /\ UNCHANGED withdrawn
                             \/ withdrawn' = withdrawn \cup {r} /\ UNCHANGED orphans
                   PROVE  GoneInv'
      BY <1>1, <1>3, Deletes
    <2> HIDE DEF r
    <2>2. /\ \A o \in orphans' : o[1] \in issued' /\ ~Current(o[1])'
          /\ \A t \in withdrawn' : t \in issued' /\ ~Current(t)'
      BY <1>0, <2>1 DEF GoneInv
    <2>3. /\ orphans \subseteq orphans' /\ withdrawn \subseteq withdrawn'
          /\ (\E d \in Callers : <<r, d>> \in orphans') \/ r \in withdrawn'
      BY <2>1
    <2>4. ASSUME NEW t \in issued, \A u \in issued : u.step = t.step => u.fence <= t.fence
          PROVE  Current(t)' \/ Swept(t)' \/ t \in withdrawn'
      <3>1. Current(t) \/ Swept(t) \/ t \in withdrawn
        BY <1>0, <2>4 DEF GoneInv
      <3> QED
        BY <2>1, <2>3, <3>1 DEF Swept
    <2> QED
      BY <2>1, <2>2, <2>4 DEF GoneInv
  <1> QED
    BY <1>1, <1>2, <1>3, LeaseSteps

\* The grant that follows a standing lease is for a later attempt.
LEMMA OneLeaseStep == ASSUME Inv, [Next]_vars PROVE OneLeasePerAttempt'
  <1>0. GoneInv /\ OneLeasePerAttempt /\ issued \subseteq Tokens
    BY DEF Inv, TypeOK
  <1>1. CASE UNCHANGED <<claim, issued, orphans, withdrawn>>
    BY <1>0, <1>1 DEF OneLeasePerAttempt, Follows, Swept
  <1>2. ASSUME NEW c \in Callers, TakeWrite(c) PROVE OneLeasePerAttempt'
    <2>1. PICK u \in Tokens :
              /\ u.step = arg[c].step /\ u.attempt = arg[c].attempt
              /\ issued' = issued \cup {u}
              /\ \A t \in issued : t.fence \in Nat /\ t.fence < u.fence
      BY <1>2, GrantFences
    <2>2. UNCHANGED <<orphans, withdrawn>>
      BY <1>2 DEF TakeWrite, PutClaim
    <2>3. ASSUME NEW t \in issued', NEW w \in issued', Follows(t, w)'
          PROVE  t.attempt < w.attempt \/ Swept(t)' \/ t \in withdrawn'
      <3>1. t \in issued
        <4>1. t.fence < w.fence /\ w.fence \in Nat /\ u.fence \in Nat
          BY <2>1, <2>3 DEF Follows, Tokens
        <4> QED
          BY <2>1, <4>1
      <3>2. CASE w \in issued
        <4>1. Follows(t, w)
          BY <2>1, <2>3 DEF Follows
        <4> QED
          BY <1>0, <2>2, <3>1, <3>2, <4>1 DEF OneLeasePerAttempt, Swept
      <3>3. CASE w = u
        <4>1. t.step = u.step
          BY <2>3, <3>3 DEF Follows
        <4>2. \A v \in issued : v.step = t.step => v.fence <= t.fence
          BY <2>1, <2>3, <3>1, <3>3 DEF Follows
        <4>3. Current(t) \/ Swept(t) \/ t \in withdrawn
          BY <1>0, <3>1, <4>2 DEF GoneInv
        <4>4. ASSUME Current(t) PROVE t.attempt < u.attempt
          <5>1. t.fence = arg[c].fence /\ pc[c] = "takeWrite"
            BY <1>2, <2>1, <4>1, <4>4 DEF Current, TakeWrite, PutClaim
          <5> QED
            BY <2>1, <3>1, <4>1, <5>1 DEF Inv, CallTokens, CallToken
        <4> QED
          BY <2>2, <3>3, <4>3, <4>4 DEF Swept
      <3> QED
        BY <2>1, <3>2, <3>3
    <2> QED
      BY <2>3 DEF OneLeasePerAttempt
  <1>3. ASSUME NEW c \in Callers, ExpireDelete(c) \/ WithdrawDelete(c)
        PROVE  OneLeasePerAttempt'
    <2>1. issued' = issued /\ orphans \subseteq orphans' /\ withdrawn \subseteq withdrawn'
      BY <1>3 DEF ExpireDelete, WithdrawDelete
    <2>2. ASSUME NEW t \in issued, NEW w \in issued, Follows(t, w)'
          PROVE  t.attempt < w.attempt \/ Swept(t)' \/ t \in withdrawn'
      <3>1. Follows(t, w)
        BY <2>1, <2>2 DEF Follows
      <3>2. t.attempt < w.attempt \/ Swept(t) \/ t \in withdrawn
        BY <1>0, <3>1 DEF OneLeasePerAttempt
      <3> QED
        BY <2>1, <3>2 DEF Swept
    <2> QED
      BY <2>1, <2>2 DEF OneLeasePerAttempt
  <1> QED
    BY <1>1, <1>2, <1>3, LeaseSteps

\* A token that a delete removes was current, so it was not gone before.
LEMMA OrphanStep ==
    ASSUME Inv, [Next]_vars PROVE OrphanHandedOnce' /\ UnacceptedNeverOrphaned'
  <1>0. GoneInv /\ OrphanHandedOnce /\ UnacceptedNeverOrphaned
    BY DEF Inv
  <1>1. accepted \subseteq accepted'
    BY Grows
  <1>2. CASE UNCHANGED <<orphans, withdrawn>>
    BY <1>0, <1>1, <1>2 DEF OrphanHandedOnce, UnacceptedNeverOrphaned
  <1>3. ASSUME NEW c \in Callers, ExpireDelete(c) \/ WithdrawDelete(c)
        PROVE  OrphanHandedOnce' /\ UnacceptedNeverOrphaned'
    <2> DEFINE r == TokenOf(arg[c])
    <2>1. SUFFICES ASSUME /\ Current(r)
                          /\ \/ /\ orphans' = orphans \cup {<<r, c>>}
                                /\ pc[c] = "expireDelete" /\ UNCHANGED withdrawn
                             \/ withdrawn' = withdrawn \cup {r} /\ UNCHANGED orphans
                   PROVE  OrphanHandedOnce' /\ UnacceptedNeverOrphaned'
      BY <1>2, <1>3, Deletes
    <2>2. r \notin withdrawn /\ \A o \in orphans : o[1] # r
      BY <1>0, <2>1 DEF GoneInv
    <2>3. pc[c] = "expireDelete" /\ r.offered => r \in accepted
      BY DEF Inv, CallTokens, CallToken, TokenOf
    <2> HIDE DEF r
    <2>4. OrphanHandedOnce'
      BY <1>0, <2>1, <2>2 DEF OrphanHandedOnce
    <2>5. UnacceptedNeverOrphaned'
      BY <1>0, <1>1, <2>1, <2>3 DEF UnacceptedNeverOrphaned
    <2> QED
      BY <2>4, <2>5
  <1> QED
    BY <1>2, <1>3, LeaseSteps DEF TakeWrite, PutClaim

------------------------------------------------------------------------------
(* Windows. *)

\* A renewal written for the standing claim does not shorten its window, and
\* a new claim starts with no renewal of its own.
LEMMA WindowStep == ASSUME Inv, [Next]_vars PROVE WindowInv'
  <1>0. /\ StoreOK /\ CallsOK /\ TokensInv /\ CallTokens /\ AcceptedInv
        /\ WindowInv /\ CallWindows
    BY TypeSplit DEF Inv
  <1>1. /\ now \in Nat /\ now' \in Nat /\ now' >= now /\ TTL \in Nat
        /\ claim \in [Steps -> Claims] /\ renewal \in [Steps -> Renewals]
    BY <1>0, ClockStep, LeaseAssumption DEF StoreOK, LeaseAssumption
  <1>2. \A s \in Steps : claim[s].expires \in Nat /\ claim[s].expires <= now' + TTL
    BY <1>0, <1>1 DEF WindowInv, Claims
  <1>3. CASE UNCHANGED <<claim, renewal>>
    BY <1>0, <1>2, <1>3 DEF WindowInv
  <1>4. ASSUME NEW c \in Callers, TakeWrite(c) PROVE WindowInv'
    <2>1. PICK u \in Tokens :
              /\ u.step = arg[c].step /\ u.fence = rev' /\ rev' = rev + 1
              /\ claim' = [claim EXCEPT ![u.step] =
                              [fence |-> u.fence, attempt |-> u.attempt,
                               expires |-> arg[c].expires, offered |-> u.offered]]
      BY <1>4, Granted
    <2>2. renewal' = renewal /\ now' = now /\ arg[c].expires <= now + TTL
      BY <1>0, <1>4 DEF TakeWrite, PutClaim, CallWindows, CallWindow
    <2>3. ASSUME NEW s \in Steps PROVE renewal[s].fence # u.fence
      <3>1. rev \in Nat /\ renewal[s].fence \in Nat /\ u.fence = rev + 1
        BY <1>0, <1>1, <2>1 DEF StoreOK, Renewals
      <3>2. renewal[s].fence # 0 => renewal[s].fence <= rev
        BY <1>0 DEF AcceptedInv, TokensInv
      <3> QED
        BY <3>1, <3>2
    <2>4. ASSUME NEW s \in Steps
          PROVE  /\ claim'[s].expires <= now' + TTL
                 /\ claim'[s].fence # 0 /\ renewal'[s].fence = claim'[s].fence
                       => claim'[s].expires <= renewal'[s].expires
      <3>1. CASE s = u.step
        BY <1>1, <2>1, <2>2, <2>3, <3>1
      <3>2. CASE s # u.step
        BY <1>0, <1>1, <2>1, <2>2, <3>2 DEF WindowInv
      <3> QED
        BY <3>1, <3>2
    <2> QED
      BY <2>4 DEF WindowInv
  <1>5. ASSUME NEW c \in Callers, RenewPut(c) PROVE WindowInv'
    <2>1. /\ claim' = claim /\ arg[c].step \in Steps
          /\ renewal'[arg[c].step] = [fence |-> arg[c].fence, expires |-> arg[c].expires]
          /\ \A s \in Steps \ {arg[c].step} : renewal'[s] = renewal[s]
      BY <1>0, <1>1, <1>5 DEF RenewPut, CallsOK
    <2>2. claim[arg[c].step].fence = arg[c].fence
             => claim[arg[c].step].expires <= arg[c].expires
      BY <1>0, <1>5 DEF RenewPut, CallWindows, CallWindow, Holding
    <2> QED
      BY <1>0, <1>2, <2>1, <2>2 DEF WindowInv
  <1>6. ASSUME NEW c \in Callers, ExpireClear(c) PROVE WindowInv'
    <2>1. claim' = claim
      BY <1>6 DEF ExpireClear
    <2>2. \A s \in Steps : renewal'[s] = renewal[s] \/ renewal'[s].fence = 0
      BY <1>1, <1>6 DEF ExpireClear, NoRenewal
    <2> QED
      BY <1>0, <1>2, <2>1, <2>2 DEF WindowInv
  <1>7. ASSUME NEW c \in Callers, ExpireDelete(c) \/ WithdrawDelete(c) PROVE WindowInv'
    <2>1. /\ renewal' = renewal
          /\ claim' = claim \/ claim' = [claim EXCEPT ![arg[c].step] = NoClaim]
      BY <1>7 DEF ExpireDelete, WithdrawDelete
    <2>2. \A s \in Steps : \/ claim'[s] = claim[s]
                           \/ claim'[s].fence = 0 /\ claim'[s].expires = 0
      BY <1>1, <2>1 DEF NoClaim
    <2> QED
      BY <1>0, <1>1, <1>2, <2>1, <2>2 DEF WindowInv
  <1> QED
    BY <1>3, <1>4, <1>5, <1>6, <1>7, StoreSteps DEF bucket

\* A claim that stands across a step at the fence a caller holds is the same
\* claim before and after it.
LEMMA ClaimStands ==
    ASSUME Inv, [Next]_vars, NEW s \in Steps, NEW f \in Nat \ {0}, f <= rev, claim'[s].fence = f
    PROVE  claim'[s] = claim[s]
  <1>1. claim \in [Steps -> Claims] /\ rev \in Nat
    BY DEF Inv, TypeOK
  <1>2. ASSUME NEW c \in Callers, TakeWrite(c) PROVE claim'[s] = claim[s]
    <2>1. PICK u \in Tokens :
              /\ u.fence = rev + 1
              /\ claim' = [claim EXCEPT ![u.step] =
                              [fence |-> u.fence, attempt |-> u.attempt,
                               expires |-> arg[c].expires, offered |-> u.offered]]
      BY <1>2, Granted
    <2>2. s = u.step => claim'[s].fence = rev + 1
      BY <1>1, <2>1
    <2> QED
      BY <1>1, <2>1, <2>2
  <1>3. ASSUME NEW c \in Callers, ExpireDelete(c) \/ WithdrawDelete(c)
        PROVE  claim'[s] = claim[s]
    <2>1. claim' = claim \/ claim' = [claim EXCEPT ![arg[c].step] = NoClaim]
      BY <1>3 DEF ExpireDelete, WithdrawDelete
    <2> QED
      BY <1>1, <2>1 DEF NoClaim
  <1> QED
    BY <1>2, <1>3, LeaseSteps

\* What the caller c knows of the window, stated of a place and arguments.
KnowsWindow(p, a) ==
    /\ p \in {"takeGet", "takeWrite"} => a.expires <= now + TTL
    /\ p \in Holding /\ claim[a.step].fence = a.fence =>
          /\ p = "renewPut" => claim[a.step].expires <= a.expires
          /\ p = "expireRenewal" => claim[a.step].expires = a.expires
          /\ p = "expireDelete" => claim[a.step].expires < now

\* A caller that a step leaves alone.
LEMMA OthersWindow ==
    ASSUME Inv, [Next]_vars, NEW d \in Callers, UNCHANGED <<pc[d], arg[d]>>
    PROVE  CallWindow(d)'
  <1>0. CallWindow(d) /\ CallToken(d) /\ arg[d] \in Args /\ issued \subseteq Tokens
    BY DEF Inv, TypeOK, CallWindows, CallTokens
  <1>1. now \in Nat /\ now' \in Nat /\ now' >= now /\ TTL \in Nat
    BY ClockStep, LeaseAssumption DEF LeaseAssumption, Inv, TypeOK
  <1>2. pc[d] \in {"takeGet", "takeWrite"} => arg[d].expires <= now' + TTL
    BY <1>0, <1>1 DEF CallWindow, Args
  <1>3. ASSUME pc[d] \in Holding, claim'[arg[d].step].fence = arg[d].fence
        PROVE  /\ pc[d] = "renewPut" => claim'[arg[d].step].expires <= arg[d].expires
               /\ pc[d] = "expireRenewal" => claim'[arg[d].step].expires = arg[d].expires
               /\ pc[d] = "expireDelete" => claim'[arg[d].step].expires < now'
    <2>1. TokenOf(arg[d]) \in Tokens /\ arg[d].fence <= rev
      BY <1>0, <1>3 DEF CallToken
    <2>2. arg[d].step \in Steps /\ arg[d].fence \in Nat \ {0}
      BY <2>1 DEF TokenOf, Tokens
    <2>3. claim'[arg[d].step] = claim[arg[d].step] /\ claim[arg[d].step].expires \in Nat
      BY <1>3, <2>1, <2>2, ClaimStands DEF Inv, TypeOK, Claims
    <2> QED
      BY <1>0, <1>1, <1>3, <2>3 DEF CallWindow
  <1> QED
    BY <1>2, <1>3 DEF CallWindow

\* A call that returns or goes on.
LEMMA MoveWindow ==
    ASSUME Inv, [Next]_vars, NEW c \in Callers, NEW p, NEW a,
           Goto(c, p, a), KnowsWindow(p, a)'
    PROVE  CallWindows'
  <1>1. ASSUME NEW d \in Callers PROVE CallWindow(d)'
    <2>1. CASE d = c
      <3>1. pc'[d] = p /\ arg'[d] = a
        BY <2>1 DEF Goto, Inv, TypeOK
      <3> QED
        BY <3>1 DEF CallWindow, KnowsWindow
    <2>2. CASE d # c
      BY <2>2, OthersWindow DEF Goto, Inv, TypeOK
    <2> QED
      BY <2>1, <2>2
  <1> QED
    BY <1>1 DEF CallWindows

\* Each step of a call takes along what it read of the window.
LEMMA CallWindowsStep == ASSUME Inv, [Next]_vars PROVE CallWindows'
  <1>0. StoreOK /\ CallsOK /\ CallTokens /\ WindowInv /\ CallWindows
    BY TypeSplit DEF Inv
  <1>1. ASSUME NEW c \in Callers
        PROVE  /\ CallToken(c) /\ CallWindow(c) /\ arg[c] \in Args
               /\ pc[c] # "idle" => arg[c].step \in Steps
    BY <1>0 DEF CallTokens, CallWindows, CallsOK
  <1>2. /\ now \in Nat /\ TTL \in Nat /\ issued \subseteq Tokens
        /\ claim \in [Steps -> Claims] /\ renewal \in [Steps -> Renewals]
    BY <1>0, LeaseAssumption DEF StoreOK, LeaseAssumption
  <1>3. \A c \in Callers : Return(c) => CallWindows'
    BY MoveWindow DEF Return, Goto, KnowsWindow, Holding
  <1>4. ASSUME NEW c \in Callers, NEW s \in Steps, NEW a \in 1..MaxAttempt, NEW o \in BOOLEAN,
               TakeBegin(c, s, a, o)
        PROVE  CallWindows'
    <2> DEFINE e == now + TTL
               b == [Blank EXCEPT !.step = s, !.attempt = a, !.offered = o, !.expires = e]
    <2>1. Goto(c, "takeGet", b) /\ now' = now /\ e \in Nat
      BY <1>2, <1>4 DEF TakeBegin
    <2> SUFFICES b.expires <= now' + TTL
      BY <2>1, MoveWindow DEF KnowsWindow, Holding
    <2>2. e <= now' + TTL
      BY <1>2, <2>1
    <2> HIDE DEF e
    <2> QED
      BY <2>2 DEF Blank
  <1>5. ASSUME NEW c \in Callers, TakeGet(c) PROVE CallWindows'
    <2> DEFINE b == [arg[c] EXCEPT !.fence = claim[arg[c].step].fence]
    <2>1. Return(c) \/ Goto(c, "takeWrite", b)
      BY <1>5 DEF TakeGet
    <2>2. b.expires <= now' + TTL
      BY <1>1, <1>5 DEF TakeGet, CallWindow, Args
    <2> HIDE DEF b
    <2> QED
      BY <1>3, <2>1, <2>2, MoveWindow DEF KnowsWindow, Holding
  <1>6. ASSUME NEW c \in Callers, TakeLost(c) PROVE CallWindows'
    <2> DEFINE r == arg[c].races + 1
               b == [arg[c] EXCEPT !.fence = 0, !.races = r]
    <2>1. Return(c) \/ Goto(c, "takeGet", b)
      BY <1>6 DEF TakeLost
    <2> HIDE DEF r
    <2>2. b.expires <= now' + TTL
      BY <1>1, <1>6 DEF TakeLost, CallWindow, Args
    <2> HIDE DEF b
    <2> QED
      BY <1>3, <2>1, <2>2, MoveWindow DEF KnowsWindow, Holding
  <1>7. ASSUME NEW c \in Callers, NEW t \in issued, RenewGet(c, t) PROVE CallWindows'
    <2> DEFINE e == now + TTL
               b == [Blank EXCEPT !.step = t.step, !.attempt = t.attempt,
                       !.offered = t.offered, !.fence = t.fence, !.expires = e]
    <2>1. Goto(c, "renewPut", b) /\ UNCHANGED <<claim, now>> /\ t.step \in Steps
      BY <1>2, <1>7 DEF RenewGet, bucket, Tokens
    <2>2. claim'[t.step].expires <= e
      BY <1>0, <2>1 DEF WindowInv
    <2> HIDE DEF e
    <2>3. b.step = t.step /\ b.expires = e
      BY DEF Blank
    <2> HIDE DEF b
    <2> QED
      BY <2>1, <2>2, <2>3, MoveWindow DEF KnowsWindow
  <1>8. ASSUME NEW c \in Callers, NEW s \in Steps, ExpireGet(c, s) PROVE CallWindows'
    <2> DEFINE b == [Blank EXCEPT !.step = s, !.attempt = claim[s].attempt,
                       !.offered = claim[s].offered, !.fence = claim[s].fence,
                       !.expires = claim[s].expires]
    <2>1. Goto(c, "expireRenewal", b) /\ UNCHANGED claim
      BY <1>8 DEF ExpireGet, bucket
    <2>2. b.step = s /\ b.expires = claim[s].expires
      BY DEF Blank
    <2> HIDE DEF b
    <2> QED
      BY <2>1, <2>2, MoveWindow DEF KnowsWindow
  <1>9. ASSUME NEW c \in Callers, ExpireRenewal(c) PROVE CallWindows'
    <2> DEFINE a == arg[c]
    <2>1. CASE HasHolder(a, renewal[a.step]) /\ now > Deadline(a, renewal[a.step])
      <3>1. Goto(c, "expireDelete", a) /\ UNCHANGED <<claim, now>> /\ a.step \in Steps
        BY <1>1, <1>9, <2>1 DEF ExpireRenewal, bucket
      <3>2. ASSUME claim[a.step].fence = a.fence PROVE claim[a.step].expires < now
        <4>1. claim[a.step].expires = a.expires
          BY <1>1, <1>9, <3>2 DEF ExpireRenewal, CallWindow, Holding
        <4>2. a.fence # 0
          <5>1. TokenOf(a) \in Tokens
            BY <1>1, <1>2, <1>9 DEF ExpireRenewal, CallToken, Holding
          <5> QED
            BY <5>1 DEF TokenOf, Tokens
        <4>3. renewal[a.step].fence = a.fence => claim[a.step].expires <= renewal[a.step].expires
          BY <1>0, <3>1, <3>2, <4>2 DEF WindowInv
        <4>4. claim[a.step].expires \in Nat /\ renewal[a.step].expires \in Nat
          BY <1>2, <3>1 DEF Claims, Renewals
        <4> QED
          BY <1>2, <2>1, <4>1, <4>3, <4>4 DEF Deadline
      <3> HIDE DEF a
      <3> QED
        BY <3>1, <3>2, MoveWindow DEF KnowsWindow
    <2>2. CASE ~(HasHolder(a, renewal[a.step]) /\ now > Deadline(a, renewal[a.step]))
      BY <1>3, <1>9, <2>2 DEF ExpireRenewal
    <2> QED
      BY <2>1, <2>2
  <1>10. ASSUME NEW c \in Callers, ExpireDelete(c) PROVE CallWindows'
    BY <1>3, <1>10, MoveWindow DEF ExpireDelete, KnowsWindow
  <1>11. ASSUME NEW c \in Callers, NEW t \in issued, WithdrawGet(c, t) PROVE CallWindows'
    BY <1>11, MoveWindow DEF WithdrawGet, KnowsWindow
  <1>12. ASSUME NEW c \in Callers, WithdrawRenewal(c) PROVE CallWindows'
    BY <1>3, <1>12, MoveWindow DEF WithdrawRenewal, KnowsWindow
  <1>13. ASSUME NEW c \in Callers,
                TakeWrite(c) \/ RenewPut(c) \/ ExpireClear(c) \/ WithdrawDelete(c) \/ Abandon(c)
         PROVE  CallWindows'
    BY <1>3, <1>13 DEF TakeWrite, PutClaim, RenewPut, ExpireClear, WithdrawDelete, Abandon
  <1>14. CASE Tick \/ UNCHANGED vars
    BY <1>14, OthersWindow DEF Tick, vars, CallWindows
  <1> QED
    BY <1>4, <1>5, <1>6, <1>7, <1>8, <1>9, <1>10, <1>11, <1>12, <1>13, <1>14
       DEF Next, Continue

------------------------------------------------------------------------------
(* Theorems. *)

\* The inductive invariant holds initially.
LEMMA InvInit == Init => Inv
  <1> SUFFICES ASSUME Init PROVE Inv
    OBVIOUS
  <1> USE DEF Init
  <1>1. TypeOK
    BY DEF TypeOK, NoClaim, NoRenewal, Claims, Renewals, Blank, Args, Places
  <1>2. TokensInv /\ AcceptedInv /\ GoneInv
    BY DEF TokensInv, AcceptedInv, GoneInv, NoClaim, NoRenewal
  <1>3. CallTokens
    BY DEF CallTokens, CallToken, Blank, Holding
  <1>4. WindowInv
    BY LeaseAssumption DEF LeaseAssumption, WindowInv, NoClaim
  <1>5. CallWindows
    BY DEF CallWindows, CallWindow, Holding
  <1>6. OneLeasePerAttempt /\ OrphanHandedOnce /\ UnacceptedNeverOrphaned
    BY DEF OneLeasePerAttempt, OrphanHandedOnce, UnacceptedNeverOrphaned
  <1> QED
    BY <1>1, <1>2, <1>3, <1>4, <1>5, <1>6 DEF Inv

\* Every step preserves it.
LEMMA InvStep == Inv /\ [Next]_vars => Inv'
  <1> SUFFICES ASSUME Inv, [Next]_vars PROVE Inv'
    OBVIOUS
  <1>1. StoreOK' /\ CallsOK'
    BY StoreStep, CallsStep
  <1>2. TypeOK'
    BY <1>1 DEF TypeOK, StoreOK, CallsOK
  <1> QED
    BY <1>2, TokensStep, CallTokensStep, AcceptedStep, GoneStep, WindowStep,
       CallWindowsStep, OneLeaseStep, OrphanStep
       DEF Inv

\* Inv is an invariant of the lease manager, for any number of steps, callers
\* and attempts, any window, and any bounds.
THEOREM Invariance == Spec => []Inv
  BY InvInit, InvStep, PTL DEF Spec

\* The bucket, the calls and the histories stay well typed.
THEOREM TypeCorrect == Spec => []TypeOK
  <1>1. Inv => TypeOK
    BY DEF Inv
  <1> QED
    BY <1>1, Invariance, PTL

\* KV.take: two planes leasing one attempt of a step at the same time never
\* both get a fence, whichever order their reads and writes interleave in.
THEOREM OneLease == Spec => []OneLeasePerAttempt
  <1>1. Inv => OneLeasePerAttempt
    BY DEF Inv
  <1> QED
    BY <1>1, Invariance, PTL

\* KV.Expire and KV.Withdraw: a lease is taken away once, by one sweep.
THEOREM HandedOnce == Spec => []OrphanHandedOnce
  <1>1. Inv => OrphanHandedOnce
    BY DEF Inv
  <1> QED
    BY <1>1, Invariance, PTL

\* deadline(): an offer nobody accepted is never swept as a lost attempt.
THEOREM OffersWait == Spec => []UnacceptedNeverOrphaned
  <1>1. Inv => UnacceptedNeverOrphaned
    BY DEF Inv
  <1> QED
    BY <1>1, Invariance, PTL

\* expireOne: a sweep never deletes a claim inside its own first window.
THEOREM WindowHonoured == Spec => FirstWindowHonoured
  <1>1. ASSUME Inv, [Next]_vars, NEW s \in Steps, NEW o \in orphans' \ orphans, o[1].step = s
        PROVE  now > claim[s].expires
    <2>1. PICK c \in Callers : ExpireDelete(c) \/ WithdrawDelete(c)
      BY <1>1, LeaseSteps DEF TakeWrite, PutClaim
    <2>2. /\ orphans' = orphans \cup {<<TokenOf(arg[c]), c>>} /\ pc[c] = "expireDelete"
          /\ Current(TokenOf(arg[c]))
      BY <1>1, <2>1, Deletes
    <2>3. s = arg[c].step /\ claim[s].fence = arg[c].fence
      BY <1>1, <2>2 DEF TokenOf, Current
    <2>4. now \in Nat /\ claim[s].expires \in Nat
      BY <1>1 DEF Inv, TypeOK, Claims
    <2> QED
      BY <1>1, <2>2, <2>3, <2>4 DEF Inv, CallWindows, CallWindow, Holding
  <1>2. Inv /\ [Next]_vars
           => [\A s \in Steps :
                  (\E o \in orphans' \ orphans : o[1].step = s) => now > claim[s].expires]_vars
    BY <1>1
  <1> QED
    BY <1>2, Invariance, PTL DEF Spec, FirstWindowHonoured

\* KV.current: a token that is fenced out stays fenced out.
THEOREM Permanent == Spec => FencedForGood
  <1>1. ASSUME Inv, [Next]_vars, NEW t \in issued, ~Current(t) PROVE ~Current(t)'
    <2>1. CASE UNCHANGED claim
      BY <1>1, <2>1 DEF Current
    <2>2. ASSUME NEW c \in Callers, TakeWrite(c) PROVE ~Current(t)'
      BY <1>1, <2>2, GrantFences
    <2>3. ASSUME NEW c \in Callers, ExpireDelete(c) \/ WithdrawDelete(c) PROVE ~Current(t)'
      BY <1>1, <2>1, <2>3, Deletes
    <2> QED
      BY <1>1, <2>1, <2>2, <2>3, LeaseSteps
  <1>2. Inv /\ [Next]_vars => [\A t \in issued : ~Current(t) => ~Current(t)']_vars
    BY <1>1
  <1> QED
    BY <1>2, Invariance, PTL DEF Spec, FencedForGood

\* The lease table of Fencing, as the claims show it.
Leases == [s \in Steps |-> [fence |-> claim[s].fence, attempt |-> claim[s].attempt]]

\* The tokens of Fencing, as the histories show them.
Shown(t) == [step |-> t.step, fence |-> t.fence, attempt |-> t.attempt]

\* A take that goes through is a grant.
LEMMA TakeGrants ==
    ASSUME Inv, NEW c \in Callers, TakeWrite(c) PROVE Fence!Next
  <1>1. PICK u \in Tokens :
            /\ u.step = arg[c].step /\ u.attempt = arg[c].attempt
            /\ u.fence = rev' /\ rev' = rev + 1
            /\ issued' = issued \cup {u}
            /\ claim' = [claim EXCEPT ![u.step] =
                            [fence |-> u.fence, attempt |-> u.attempt,
                             expires |-> arg[c].expires, offered |-> u.offered]]
    BY Granted
  <1>2. /\ claim \in [Steps -> Claims] /\ issued \subseteq Tokens /\ rev \in Nat
        /\ TokensInv /\ CallToken(c)
    BY DEF Inv, TypeOK, CallTokens
  <1>3. /\ u.step \in Steps /\ u.attempt \in 1..MaxAttempt /\ u.fence \in 1..MaxRev
        /\ pc[c] = "takeWrite" /\ claim[u.step].fence = arg[c].fence
    BY <1>1, <1>2, LeaseAssumption DEF LeaseAssumption, Tokens, TakeWrite, PutClaim, CallToken
  <1>4. Leases[u.step].fence # 0 => Leases[u.step].attempt < u.attempt
    <2>1. SUFFICES ASSUME claim[u.step].fence # 0
                   PROVE  claim[u.step].attempt < u.attempt
      BY <1>3 DEF Leases
    <2>2. /\ ClaimToken(u.step) \in issued
          /\ ClaimToken(u.step).step = u.step
          /\ ClaimToken(u.step).fence = claim[u.step].fence
          /\ ClaimToken(u.step).attempt = claim[u.step].attempt
      BY <1>2, <1>3, <2>1 DEF TokensInv, ClaimToken
    <2> QED
      BY <1>1, <1>2, <1>3, <2>2 DEF CallToken
  <1>5. \A t \in issued : t.fence < u.fence
    BY <1>1, <1>2 DEF TokensInv, Tokens
  <1>6. Leases' = [Leases EXCEPT ![u.step] = [fence |-> u.fence, attempt |-> u.attempt]]
    <2> DEFINE new == [Leases EXCEPT ![u.step] = [fence |-> u.fence, attempt |-> u.attempt]]
    <2>1. ASSUME NEW s \in Steps PROVE Leases'[s] = new[s]
      <3>1. CASE s = u.step
        BY <1>1, <1>2, <1>3, <3>1 DEF Leases
      <3>2. CASE s # u.step
        BY <1>1, <1>2, <1>3, <3>2 DEF Leases
      <3> QED
        BY <3>1, <3>2
    <2> QED
      BY <2>1 DEF Leases
  <1>7. {Shown(t) : t \in issued'} = {Shown(t) : t \in issued} \cup {Shown(u)}
    BY <1>1
  <1>8. \A t \in {Shown(v) : v \in issued} : t.fence < u.fence
    BY <1>5 DEF Shown
  <1>9. Fence!Grant(u.step, u.attempt, u.fence)
    <2>1. {Shown(t) : t \in issued'}
             = {Shown(t) : t \in issued}
                  \cup {[step |-> u.step, fence |-> u.fence, attempt |-> u.attempt]}
      BY <1>7 DEF Shown
    <2> QED
      BY <1>4, <1>6, <1>8, <2>1, Zenon DEF Fence!Grant, Leases, Shown
  <1> QED
    BY <1>3, <1>9 DEF Fence!Next

\* A conditional delete that goes through is a revocation, one that does not
\* is no step of Fencing.
LEMMA DeleteRevokes ==
    ASSUME Inv, NEW c \in Callers, ExpireDelete(c) \/ WithdrawDelete(c)
    PROVE  Fence!Next \/ UNCHANGED <<claim, issued>>
  <1> DEFINE s == arg[c].step
  <1>1. /\ claim \in [Steps -> Claims] /\ issued \subseteq Tokens
        /\ s \in Steps /\ TokenOf(arg[c]) \in issued
    BY DEF Inv, TypeOK, CallTokens, CallToken, ExpireDelete, WithdrawDelete, Holding
  <1>2. issued' = issued
    BY DEF ExpireDelete, WithdrawDelete
  <1>3. CASE claim[s].fence # arg[c].fence
    BY <1>3 DEF ExpireDelete, WithdrawDelete
  <1>4. CASE claim[s].fence = arg[c].fence
    <2>1. claim' = [claim EXCEPT ![s] = NoClaim]
      BY <1>4 DEF ExpireDelete, WithdrawDelete
    <2>2. Leases[s].fence # 0
      BY <1>1, <1>4 DEF TokenOf, Tokens, Leases
    <2>3. Leases' = [Leases EXCEPT ![s] = Fence!NoLease]
      <3> HIDE DEF s
      <3> DEFINE new == [Leases EXCEPT ![s] = Fence!NoLease]
      <3>1. ASSUME NEW q \in Steps PROVE Leases'[q] = new[q]
        <4>1. CASE q = s
          BY <1>1, <2>1, <4>1 DEF Leases, NoClaim, Fence!NoLease
        <4>2. CASE q # s
          BY <1>1, <2>1, <4>2 DEF Leases
        <4> QED
          BY <4>1, <4>2
      <3> QED
        BY <3>1 DEF Leases
    <2> QED
      BY <1>1, <1>2, <2>2, <2>3 DEF Fence!Next, Fence!Revoke, Leases
  <1> QED
    BY <1>3, <1>4

\* The manager implements its abstract specification: every interleaving of
\* the bucket's requests is, seen through the claims, a sequence of grants
\* with fresh, growing fences and of revocations.
THEOREM Refinement == Spec => ImplementsFencing
  <1>1. Init => Fence!Init
    BY DEF Init, Fence!Init, Fence!NoLease, NoClaim
  <1>2. ASSUME Inv, [Next]_vars PROVE [Fence!Next]_(Fence!fencingVars)
    <2>1. CASE UNCHANGED <<claim, issued>>
      BY <2>1 DEF Fence!fencingVars
    <2>2. ASSUME NEW c \in Callers, TakeWrite(c) PROVE Fence!Next
      BY <1>2, <2>2, TakeGrants
    <2>3. ASSUME NEW c \in Callers, ExpireDelete(c) \/ WithdrawDelete(c)
          PROVE  Fence!Next \/ UNCHANGED <<claim, issued>>
      BY <1>2, <2>3, DeleteRevokes
    <2> QED
      BY <1>2, <2>1, <2>2, <2>3, LeaseSteps
  <1> QED
    BY <1>1, <1>2, Invariance, PTL DEF Spec, ImplementsFencing, Fence!Spec

==============================================================================
