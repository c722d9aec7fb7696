------------------------------ MODULE Fencing ------------------------------
(***************************************************************************)
(* What lease.Manager promises (internal/lease/lease.go): at any moment a  *)
(* step has at most one current lease, a lease is granted only over no     *)
(* lease or over one for an earlier attempt, and each grant carries a      *)
(* fence larger than every fence granted before it. Renewals, deadlines,   *)
(* and the compare-and-set that implements a grant are not visible here.   *)
(***************************************************************************)
EXTENDS Naturals

CONSTANTS
    Steps,                \* the leased steps, a tenant/run/step triple each
    Attempts,             \* the attempt numbers a lease may be for
    Fences                \* the fences a grant may carry

VARIABLES
    lease,                \* step -> its current lease, fence 0 when it has none
    granted               \* history: every token a grant has returned

fencingVars == <<lease, granted>>

NoLease == [fence |-> 0, attempt |-> 0]

Init ==
    /\ lease = [s \in Steps |-> NoLease]
    /\ granted = {}

\* Claim or Offer going through.
Grant(s, a, f) ==
    /\ lease[s].fence # 0 => lease[s].attempt < a
    /\ \A t \in granted : t.fence < f
    /\ lease' = [lease EXCEPT ![s] = [fence |-> f, attempt |-> a]]
    /\ granted' = granted \cup {[step |-> s, fence |-> f, attempt |-> a]}

\* Expire or Withdraw taking the lease away.
Revoke(s) ==
    /\ lease[s].fence # 0
    /\ lease' = [lease EXCEPT ![s] = NoLease]
    /\ UNCHANGED granted

Next ==
    \E s \in Steps :
        \/ \E a \in Attempts, f \in Fences : Grant(s, a, f)
        \/ Revoke(s)

Spec == Init /\ [][Next]_fencingVars
=============================================================================
