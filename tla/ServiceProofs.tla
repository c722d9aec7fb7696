----------------------------- MODULE ServiceProofs ----------------------------
(***************************************************************************)
(* Theorems of module Definitions: what optimistic concurrency loses,      *)
(* merges and undoes, and which definitions a run may be started on; and   *)
(* of module Bodies: the bounds of an agent's loop and the records of a    *)
(* model step's calls.                                                     *)
(*                                                                         *)
(* Both rest on an inductive invariant. That of Definitions (IInv) says    *)
(* that what is saved is well formed, that every edit in flight or in the  *)
(* log is its base with its operation applied, and its inverse undoes it,  *)
(* that the log is a chain that ends in the head, and that who approved a  *)
(* revision is not its author. That of Bodies (BodiesIInv) ties what a     *)
(* body has spent, and what it may still do undecided, to the record of    *)
(* the log it resumed from, and the number of its next call to the rows.   *)
(***************************************************************************)
EXTENDS Definitions, Bodies, TLAPS, SequenceTheorems, FiniteSetTheorems

-----------------------------------------------------------------------------
(* Lists.                                                                   *)

(* A list without its i-th element: those behind it move up.                *)
LEMMA RemoveAtElements ==
    ASSUME NEW S, NEW s \in Seq(S), NEW i \in 1 .. Len(s)
    PROVE  /\ RemoveAt(s, i) \in Seq(S) /\ Len(RemoveAt(s, i)) = Len(s) - 1
           /\ \A j \in 1 .. Len(s) - 1 : RemoveAt(s, i)[j] = s[IF j < i THEN j ELSE j + 1]
  <1> DEFINE l == SubSeq(s, 1, i - 1)
             r == SubSeq(s, i + 1, Len(s))
  <1>0. Len(s) \in Nat
    OBVIOUS
  <1>1. l \in Seq(S) /\ Len(l) = i - 1 /\ \A j \in 1 .. i - 1 : l[j] = s[j]
    <2>1. \A j \in 1 .. i - 1 : s[j] \in S
      BY <1>0
    <2> QED BY <1>0, <2>1
  <1>2. r \in Seq(S) /\ Len(r) = Len(s) - i /\ \A j \in 1 .. Len(s) - i : r[j] = s[i + j]
    <2>1. \A j \in i + 1 .. Len(s) : s[j] \in S
      BY <1>0
    <2> QED BY <1>0, <2>1
  <1> HIDE DEF l, r
  <1>3. RemoveAt(s, i) = l \o r
    BY DEF RemoveAt, l, r
  <1>4. /\ l \o r \in Seq(S) /\ Len(l \o r) = Len(s) - 1
        /\ \A j \in 1 .. Len(s) - 1 : (l \o r)[j] = IF j < i THEN l[j] ELSE r[j - (i - 1)]
    <2>1. /\ l \o r \in Seq(S) /\ Len(l \o r) = Len(l) + Len(r)
          /\ \A j \in 1 .. Len(l) + Len(r) :
                (l \o r)[j] = IF j <= Len(l) THEN l[j] ELSE r[j - Len(l)]
      BY <1>1, <1>2, ConcatProperties
    <2>2. Len(l) + Len(r) = Len(s) - 1
      BY <1>0, <1>1, <1>2
    <2>3. \A j \in 1 .. Len(s) - 1 : (j <= Len(l)) <=> (j < i)
      BY <1>0, <1>1
    <2> QED BY <1>1, <2>1, <2>2, <2>3
  <1>5. ASSUME NEW j \in 1 .. Len(s) - 1
        PROVE  (l \o r)[j] = s[IF j < i THEN j ELSE j + 1]
    <2>1. CASE j < i
      BY <1>0, <1>1, <1>4, <2>1
    <2>2. CASE ~(j < i)
      <3>1. j - (i - 1) \in 1 .. Len(s) - i /\ i + (j - (i - 1)) = j + 1
        BY <1>0, <2>2
      <3> QED BY <1>2, <1>4, <2>2, <3>1
    <2> QED BY <2>1, <2>2
  <1> QED BY <1>3, <1>4, <1>5

(* InsertAt keeps the others, in order, around the new element.             *)
LEMMA InsertAtElements ==
    ASSUME NEW S, NEW s \in Seq(S), NEW i \in 1 .. Len(s) + 1, NEW x \in S
    PROVE  /\ InsertAt(s, i, x) \in Seq(S) /\ Len(InsertAt(s, i, x)) = Len(s) + 1
           /\ InsertAt(s, i, x)[i] = x
           /\ \A j \in 1 .. i - 1 : InsertAt(s, i, x)[j] = s[j]
           /\ \A j \in i .. Len(s) : InsertAt(s, i, x)[j + 1] = s[j]
  <1> DEFINE l == SubSeq(s, 1, i - 1)
             r == SubSeq(s, i, Len(s))
             m == l \o <<x>>
  <1>0. Len(s) \in Nat
    OBVIOUS
  <1>1. l \in Seq(S) /\ Len(l) = i - 1 /\ \A j \in 1 .. i - 1 : l[j] = s[j]
    <2>1. \A j \in 1 .. i - 1 : s[j] \in S
      BY <1>0
    <2> QED BY <1>0, <2>1
  <1>2. r \in Seq(S) /\ Len(r) = Len(s) - i + 1 /\ \A j \in 1 .. Len(s) - i + 1 : r[j] = s[i + j - 1]
    <2>1. \A j \in i .. Len(s) : s[j] \in S
      BY <1>0
    <2> QED BY <1>0, <2>1
  <1> HIDE DEF l, r
  <1>3. m \in Seq(S) /\ Len(m) = i /\ m[i] = x /\ \A j \in 1 .. i - 1 : m[j] = s[j]
    <2>1. <<x>> \in Seq(S) /\ Len(<<x>>) = 1 /\ <<x>>[1] = x
      OBVIOUS
    <2>2. /\ m \in Seq(S) /\ Len(m) = Len(l) + 1
          /\ \A j \in 1 .. Len(l) + 1 : m[j] = IF j <= Len(l) THEN l[j] ELSE <<x>>[j - Len(l)]
      BY <1>1, <2>1, ConcatProperties
    <2>3. Len(m) = i
      BY <1>0, <1>1, <2>2
    <2>4. m[i] = x
      <3>1. i \in 1 .. Len(l) + 1 /\ ~(i <= Len(l)) /\ i - Len(l) = 1
        BY <1>0, <1>1
      <3> QED BY <2>1, <2>2, <3>1
    <2>5. ASSUME NEW j \in 1 .. i - 1 PROVE m[j] = s[j]
      <3>1. j \in 1 .. Len(l) + 1 /\ j <= Len(l)
        BY <1>0, <1>1
      <3> QED BY <1>1, <2>2, <3>1
    <2> QED BY <2>2, <2>3, <2>4, <2>5
  <1>4. InsertAt(s, i, x) = m \o r
    BY DEF InsertAt, l, r
  <1> HIDE DEF m
  <1>5. /\ m \o r \in Seq(S) /\ Len(m \o r) = Len(s) + 1
        /\ \A j \in 1 .. Len(s) + 1 : (m \o r)[j] = IF j <= i THEN m[j] ELSE r[j - i]
    <2>1. /\ m \o r \in Seq(S) /\ Len(m \o r) = Len(m) + Len(r)
          /\ \A j \in 1 .. Len(m) + Len(r) :
                (m \o r)[j] = IF j <= Len(m) THEN m[j] ELSE r[j - Len(m)]
      BY <1>2, <1>3, ConcatProperties
    <2>2. Len(m) + Len(r) = Len(s) + 1
      BY <1>0, <1>2, <1>3
    <2> QED BY <1>3, <2>1, <2>2
  <1>6. (m \o r)[i] = x
    BY <1>0, <1>3, <1>5
  <1>7. ASSUME NEW j \in 1 .. i - 1 PROVE (m \o r)[j] = s[j]
    BY <1>0, <1>3, <1>5
  <1>8. ASSUME NEW j \in i .. Len(s) PROVE (m \o r)[j + 1] = s[j]
    <2>1. j + 1 \in 1 .. Len(s) + 1 /\ ~(j + 1 <= i) /\ j + 1 - i \in 1 .. Len(s) - i + 1
          /\ i + (j + 1 - i) - 1 = j
      BY <1>0
    <2> QED BY <1>2, <1>5, <2>1
  <1> QED BY <1>4, <1>5, <1>6, <1>7, <1>8

(* Putting back what was removed, and removing what was put in.             *)
LEMMA InsertRemoved ==
    ASSUME NEW S, NEW s \in Seq(S), NEW i \in 1 .. Len(s)
    PROVE  InsertAt(RemoveAt(s, i), i, s[i]) = s
  <1>1. PICK r \in Seq(S) : /\ r = RemoveAt(s, i) /\ Len(r) = Len(s) - 1
                            /\ \A j \in 1 .. Len(s) - 1 : r[j] = s[IF j < i THEN j ELSE j + 1]
    BY RemoveAtElements
  <1>2. s[i] \in S /\ Len(s) \in Nat /\ i \in 1 .. Len(r) + 1
    BY <1>1
  <1>t. PICK t : t = InsertAt(r, i, s[i])
    OBVIOUS
  <1>3. /\ t \in Seq(S) /\ Len(t) = Len(r) + 1 /\ t[i] = s[i]
        /\ \A j \in 1 .. i - 1 : t[j] = r[j]
        /\ \A j \in i .. Len(r) : t[j + 1] = r[j]
    BY <1>t, <1>2, InsertAtElements
  <1>4. ASSUME NEW j \in 1 .. Len(s) PROVE t[j] = s[j]
    <2>1. CASE j < i
      <3>1. j \in 1 .. i - 1 /\ j \in 1 .. Len(s) - 1
        BY <1>2, <2>1
      <3>2. t[j] = r[j] /\ r[j] = s[j]
        BY <1>1, <1>3, <2>1, <3>1
      <3> QED BY <3>2
    <2>2. CASE j = i
      BY <1>3, <2>2
    <2>3. CASE j > i
      <3>1. j - 1 \in i .. Len(r) /\ (j - 1) + 1 = j /\ j - 1 \in 1 .. Len(s) - 1 /\ ~(j - 1 < i)
        BY <1>1, <1>2, <2>3
      <3>2. t[j] = r[j - 1] /\ r[j - 1] = s[j]
        BY <1>1, <1>3, <3>1
      <3> QED BY <3>2
    <2> QED BY <1>2, <2>1, <2>2, <2>3
  <1>5. Len(t) = Len(s)
    BY <1>1, <1>2, <1>3
  <1>6. t = s
    BY <1>3, <1>4, <1>5, SeqEqual
  <1> QED BY <1>1, <1>t, <1>6

(* Removing what was inserted gives the list back.                          *)
LEMMA RemoveInserted ==
    ASSUME NEW S, NEW s \in Seq(S), NEW i \in 1 .. Len(s) + 1, NEW x \in S
    PROVE  RemoveAt(InsertAt(s, i, x), i) = s
  <1>t. PICK t : t = InsertAt(s, i, x)
    OBVIOUS
  <1>1. /\ t \in Seq(S) /\ Len(t) = Len(s) + 1 /\ t[i] = x
        /\ \A j \in 1 .. i - 1 : t[j] = s[j]
        /\ \A j \in i .. Len(s) : t[j + 1] = s[j]
    BY <1>t, InsertAtElements
  <1>2. Len(s) \in Nat /\ i \in 1 .. Len(t)
    BY <1>1
  <1>r. PICK r : r = RemoveAt(t, i)
    OBVIOUS
  <1>3. /\ r \in Seq(S) /\ Len(r) = Len(t) - 1
        /\ \A j \in 1 .. Len(t) - 1 : r[j] = t[IF j < i THEN j ELSE j + 1]
    BY <1>r, <1>1, <1>2, RemoveAtElements
  <1>4. ASSUME NEW j \in 1 .. Len(s) PROVE r[j] = s[j]
    <2>1. CASE j < i
      BY <1>1, <1>2, <1>3, <2>1
    <2>2. CASE ~(j < i)
      <3>1. j \in i .. Len(s) /\ j \in 1 .. Len(t) - 1
        BY <1>1, <1>2, <2>2
      <3> QED BY <1>1, <1>3, <2>2, <3>1
    <2> QED BY <2>1, <2>2
  <1>5. Len(r) = Len(s)
    BY <1>1, <1>2, <1>3
  <1>6. r = s
    BY <1>3, <1>4, <1>5, SeqEqual
  <1> QED BY <1>t, <1>r, <1>6

(* What a list holds, and what it holds once an element is added at the end *)
(* or taken out.                                                            *)
LEMMA ListFacts ==
    ASSUME NEW l, IsList(l)
    PROVE  /\ l \in Seq(Range(l)) /\ Len(l) \in Nat /\ DOMAIN l = 1 .. Len(l)
           /\ \A i \in DOMAIN l : l[i] \in Range(l)
           /\ \A x \in Range(l) : \E i \in DOMAIN l : l[i] = x
  BY DEF IsList, Range

LEMMA SeqIsList ==
    ASSUME NEW S, NEW l \in Seq(S)
    PROVE  IsList(l)
  <1>1. \A i \in 1 .. Len(l) : l[i] \in Range(l)
    BY DEF Range
  <1>2. l \in Seq(Range(l))
    BY <1>1, IsASeq
  <1> QED BY <1>2 DEF IsList

(* A list with one more element, and that one removed again.                *)
LEMMA Appended ==
    ASSUME NEW l, IsList(l), NEW x
    PROVE  /\ IsList(Append(l, x)) /\ DOMAIN Append(l, x) = 1 .. Len(l) + 1
           /\ Len(Append(l, x)) = Len(l) + 1 /\ Append(l, x)[Len(l) + 1] = x
           /\ \A i \in DOMAIN l : Append(l, x)[i] = l[i]
           /\ Range(Append(l, x)) = Range(l) \cup {x}
           /\ RemoveAt(Append(l, x), Len(l) + 1) = l
  <1>s. PICK S : S = Range(l) \cup {x}
    OBVIOUS
  <1>0. l \in Seq(S) /\ Len(l) \in Nat /\ DOMAIN l = 1 .. Len(l) /\ x \in S
    BY <1>s, ListFacts
  <1>a. PICK a : a = Append(l, x)
    OBVIOUS
  <1>1. /\ a \in Seq(S) /\ Len(a) = Len(l) + 1 /\ a[Len(l) + 1] = x
        /\ \A i \in 1 .. Len(l) : a[i] = l[i]
    BY <1>0, <1>a, AppendProperties
  <1>2. IsList(a)
    BY <1>1, SeqIsList
  <1>3. Range(a) = Range(l) \cup {x}
    <2>1. DOMAIN a = 1 .. Len(l) + 1
      BY <1>0, <1>1
    <2>2. \A i \in DOMAIN a : i \in DOMAIN l \/ i = Len(l) + 1
      BY <1>0, <2>1
    <2>3. \A i \in DOMAIN l : i \in DOMAIN a
      BY <1>0, <2>1
    <2>4. Len(l) + 1 \in DOMAIN a
      BY <1>0, <2>1
    <2> QED BY <1>0, <1>1, <2>2, <2>3, <2>4 DEF Range
  <1>4. RemoveAt(a, Len(l) + 1) = l
    <2>1. Len(l) + 1 \in 1 .. Len(a)
      BY <1>0, <1>1
    <2>2. PICK r : r = RemoveAt(a, Len(l) + 1)
      OBVIOUS
    <2>3. /\ r \in Seq(S) /\ Len(r) = Len(a) - 1
          /\ \A j \in 1 .. Len(a) - 1 : r[j] = a[IF j < Len(l) + 1 THEN j ELSE j + 1]
      BY <1>1, <2>1, <2>2, RemoveAtElements
    <2>4. Len(r) = Len(l)
      BY <1>0, <1>1, <2>3
    <2>5. ASSUME NEW j \in 1 .. Len(l) PROVE r[j] = l[j]
      <3>1. j \in 1 .. Len(a) - 1 /\ j < Len(l) + 1
        BY <1>0, <1>1
      <3> QED BY <1>1, <2>3, <3>1
    <2> QED BY <1>0, <2>2, <2>3, <2>4, <2>5, SeqEqual
  <1> QED BY <1>0, <1>1, <1>2, <1>3, <1>4, <1>a

OnceEach(l) == \A j, k \in DOMAIN l : l[j] = l[k] => j = k

(* A list without one of its elements.                                      *)
LEMMA Removed ==
    ASSUME NEW l, IsList(l), NEW i \in DOMAIN l, OnceEach(l)
    PROVE  /\ IsList(RemoveAt(l, i)) /\ Range(RemoveAt(l, i)) = Range(l) \ {l[i]}
           /\ \A j \in DOMAIN RemoveAt(l, i) :
                 \E m \in DOMAIN l : /\ m # i /\ RemoveAt(l, i)[j] = l[m]
                                     /\ m = IF j < i THEN j ELSE j + 1
  <1>s. PICK S : S = Range(l)
    OBVIOUS
  <1>0. l \in Seq(S) /\ Len(l) \in Nat /\ DOMAIN l = 1 .. Len(l)
    BY <1>s, ListFacts
  <1>1. PICK r : r = RemoveAt(l, i)
    OBVIOUS
  <1>2. /\ r \in Seq(S) /\ Len(r) = Len(l) - 1
        /\ \A j \in 1 .. Len(l) - 1 : r[j] = l[IF j < i THEN j ELSE j + 1]
    <2>1. i \in 1 .. Len(l)
      BY <1>0
    <2> QED BY <1>0, <1>1, <2>1, RemoveAtElements
  <1>3. ASSUME NEW j \in DOMAIN r
        PROVE  \E m \in DOMAIN l : /\ m # i /\ r[j] = l[m]
                                   /\ m = IF j < i THEN j ELSE j + 1
    <2>1. PICK m : m = IF j < i THEN j ELSE j + 1
      OBVIOUS
    <2>2. m \in DOMAIN l /\ m # i /\ j \in 1 .. Len(l) - 1
      BY <1>0, <1>2, <2>1
    <2> QED BY <1>2, <2>1, <2>2
  <1>4. ASSUME NEW m \in DOMAIN l, m # i PROVE \E j \in DOMAIN r : r[j] = l[m]
    <2>1. CASE m < i
      <3>1. m \in 1 .. Len(l) - 1 /\ m \in DOMAIN r
        BY <1>0, <1>2, <2>1
      <3> QED BY <1>2, <2>1, <3>1
    <2>2. CASE m > i
      <3>1. m - 1 \in 1 .. Len(l) - 1 /\ m - 1 \in DOMAIN r /\ ~(m - 1 < i) /\ (m - 1) + 1 = m
        BY <1>0, <1>2, <2>2
      <3>2. r[m - 1] = l[m]
        BY <1>2, <3>1
      <3> QED BY <3>1, <3>2
    <2> QED BY <1>0, <1>4, <2>1, <2>2
  <1>5. Range(r) = Range(l) \ {l[i]}
    BY <1>3, <1>4 DEF Range, OnceEach
  <1>6. IsList(r)
    BY <1>2, SeqIsList
  <1> QED BY <1>1, <1>3, <1>5, <1>6

(* A list with one element replaced, and put back.                          *)
LEMMA Replaced ==
    ASSUME NEW l, IsList(l), NEW i \in DOMAIN l, NEW x
    PROVE  /\ IsList([l EXCEPT ![i] = x]) /\ DOMAIN [l EXCEPT ![i] = x] = DOMAIN l
           /\ [l EXCEPT ![i] = x][i] = x
           /\ \A j \in DOMAIN l : j # i => [l EXCEPT ![i] = x][j] = l[j]
           /\ Len([l EXCEPT ![i] = x]) = Len(l)
           /\ [[l EXCEPT ![i] = x] EXCEPT ![i] = l[i]] = l
  <1>0. l \in Seq(Range(l)) /\ Len(l) \in Nat /\ DOMAIN l = 1 .. Len(l)
    BY ListFacts
  <1>1. l \in Seq(Range(l) \cup {x}) /\ x \in Range(l) \cup {x} /\ l[i] \in Range(l) \cup {x}
    BY <1>0
  <1>2. PICK r : r = [l EXCEPT ![i] = x]
    OBVIOUS
  <1>3. /\ r \in Seq(Range(l) \cup {x}) /\ Len(r) = Len(l) /\ DOMAIN r = DOMAIN l
        /\ r[i] = x /\ \A j \in DOMAIN l : j # i => r[j] = l[j]
    BY <1>0, <1>1, <1>2
  <1>4. IsList(r)
    BY <1>3, SeqIsList
  <1>5. [r EXCEPT ![i] = l[i]] = l
    <2>1. PICK b : b = [r EXCEPT ![i] = l[i]]
      OBVIOUS
    <2>2. b \in Seq(Range(l) \cup {x}) /\ Len(b) = Len(l) /\ \A j \in 1 .. Len(l) : b[j] = l[j]
      BY <1>0, <1>1, <1>3, <2>1
    <2> QED BY <1>1, <2>1, <2>2, SeqEqual
  <1> QED BY <1>2, <1>3, <1>4, <1>5

-----------------------------------------------------------------------------
(* Operations.                                                              *)

Def(steps, edges, files) == [steps |-> steps, edges |-> edges, files |-> files]

StepsNamed(d) ==
    IsList(d.steps) /\ \A i, j \in DOMAIN d.steps : d.steps[i].id = d.steps[j].id => i = j

(* A definition with one of its lists replaced.                             *)
LEMMA DefParts ==
    ASSUME NEW d, WellFormed(d), NEW x
    PROVE  /\ [d EXCEPT !.steps = x] = Def(x, d.edges, d.files)
           /\ [d EXCEPT !.edges = x] = Def(d.steps, x, d.files)
           /\ [d EXCEPT !.files = x] = Def(d.steps, d.edges, x)
           /\ d = Def(d.steps, d.edges, d.files)
           /\ StepsNamed(d)
  <1>1. d = Def(d.steps, d.edges, d.files)
    BY DEF WellFormed, Def
  <1>2. StepsNamed(d)
    BY DEF WellFormed, StepsNamed
  <1>3. PICK s, e, f : d = Def(s, e, f) /\ d.steps = s /\ d.edges = e /\ d.files = f
    BY <1>1
  <1>4. /\ [d EXCEPT !.steps = x] = Def(x, e, f)
        /\ [d EXCEPT !.edges = x] = Def(s, x, f)
        /\ [d EXCEPT !.files = x] = Def(s, e, x)
    BY <1>3 DEF Def
  <1> QED BY <1>1, <1>2, <1>3, <1>4

(* A definition, field by field.                                            *)
LEMMA DefFields ==
    ASSUME NEW s, NEW e, NEW f
    PROVE  /\ Def(s, e, f).steps = s /\ Def(s, e, f).edges = e /\ Def(s, e, f).files = f
           /\ Content(Def(s, e, f)) = [steps |-> Range(s), edges |-> Range(e), files |-> Range(f)]
           /\ Def(s, e, f) = Def(Def(s, e, f).steps, Def(s, e, f).edges, Def(s, e, f).files)
  BY DEF Def, Content

(* Finding a step by its id.                                                *)
LEMMA FindStepFacts ==
    ASSUME NEW d, StepsNamed(d), NEW id
    PROVE  /\ FindStep(d, id) = 0 <=> id \notin StepIds(d)
           /\ FindStep(d, id) # 0 => /\ FindStep(d, id) \in DOMAIN d.steps
                                     /\ d.steps[FindStep(d, id)].id = id
           /\ \A i \in DOMAIN d.steps : d.steps[i].id = id => FindStep(d, id) = i
  <1>1. DOMAIN d.steps = 1 .. Len(d.steps) /\ Len(d.steps) \in Nat
    BY ListFacts DEF StepsNamed
  <1>2. 0 \notin DOMAIN d.steps
    BY <1>1
  <1>3. id \in StepIds(d) <=> \E i \in DOMAIN d.steps : d.steps[i].id = id
    BY DEF StepIds, Range
  <1>4. CASE \E i \in DOMAIN d.steps : d.steps[i].id = id
    <2>1. FindStep(d, id) = CHOOSE i \in DOMAIN d.steps : d.steps[i].id = id
      BY <1>4 DEF FindStep
    <2>2. FindStep(d, id) \in DOMAIN d.steps /\ d.steps[FindStep(d, id)].id = id
      BY <1>4, <2>1
    <2> QED BY <1>2, <1>3, <1>4, <2>2 DEF StepsNamed
  <1>5. CASE ~\E i \in DOMAIN d.steps : d.steps[i].id = id
    BY <1>3, <1>5 DEF FindStep
  <1> QED BY <1>4, <1>5

LEMMA WithStepIs ==
    ASSUME NEW r, NEW e, NEW f, NEW i, NEW x
    PROVE  WithStep(Def(r, e, f), i, x) = Def([r EXCEPT ![i] = x], e, f)
  BY DEF WithStep, Def

(* A definition whose step i is s, which has the id of the step there.      *)
LEMMA StepEdited ==
    ASSUME NEW d, WellFormed(d), NEW i \in DOMAIN d.steps, NEW old, old = d.steps[i],
           NEW s, s.id = old.id, NEW n, n = WithStep(d, i, s), NEW id, id = old.id
    PROVE  /\ n = Def(n.steps, d.edges, d.files) /\ StepsNamed(n)
           /\ n.edges = d.edges /\ n.files = d.files
           /\ FindStep(n, id) = i /\ n.steps[i] = s
           /\ DOMAIN n.steps = DOMAIN d.steps
           /\ \A j \in DOMAIN d.steps : j # i => n.steps[j] = d.steps[j]
           /\ WithStep(n, i, old) = d
  <1>1. IsList(d.steps) /\ StepsNamed(d) /\ d = Def(d.steps, d.edges, d.files)
    BY DefParts DEF StepsNamed
  <1>2. PICK q : q = d.steps
    OBVIOUS
  <1>3. PICK r : r = [q EXCEPT ![i] = s]
    OBVIOUS
  <1>4. /\ IsList(r) /\ DOMAIN r = DOMAIN q /\ r[i] = s
        /\ \A j \in DOMAIN q : j # i => r[j] = q[j]
        /\ [r EXCEPT ![i] = q[i]] = q
    BY <1>1, <1>2, <1>3, Replaced
  <1>5. n = Def(r, d.edges, d.files)
    BY <1>1, <1>2, <1>3, WithStepIs
  <1>6. \A j, k \in DOMAIN r : r[j].id = r[k].id => j = k
    BY <1>1, <1>2, <1>4 DEF StepsNamed
  <1>8. n.steps = r /\ n.edges = d.edges /\ n.files = d.files
    BY <1>5, DefFields
  <1>9. StepsNamed(n)
    BY <1>4, <1>6, <1>8 DEF StepsNamed
  <1>10. FindStep(n, id) = i
    BY <1>2, <1>4, <1>8, <1>9, FindStepFacts
  <1>11. WithStep(n, i, old) = d
    <2>2. WithStep(n, i, q[i]) = Def([r EXCEPT ![i] = q[i]], d.edges, d.files)
      BY <1>5, WithStepIs
    <2> QED BY <1>1, <1>2, <1>4, <2>2
  <1> QED BY <1>2, <1>4, <1>5, <1>8, <1>9, <1>10, <1>11

(* Undoing one operation: what UndoRestoresContent says of each.            *)
Undone(d, op) ==
    LET undone == Apply(Apply(d, op).next, Apply(d, op).inverse)
    IN  undone.ok /\ Content(undone.next) = Content(d)

(* An edit that was accepted, field by field.                               *)
LEMMA EditedFields ==
    ASSUME NEW d, NEW inverse
    PROVE  /\ Edited(d, inverse).ok /\ Edited(d, inverse).next = d
           /\ Edited(d, inverse).inverse = inverse /\ Edited(d, inverse) # Refused
           /\ ~Refused.ok
  BY DEF Edited, Refused

(* An operation is undone when its inverse gives the content back.          *)
LEMMA UndoneBy ==
    ASSUME NEW d, NEW op, NEW n, NEW inverse, Apply(d, op) = Edited(n, inverse),
           NEW b, NEW again, Apply(n, inverse) = Edited(b, again), Content(b) = Content(d)
    PROVE  Undone(d, op)
  BY EditedFields DEF Undone

(* What an operation leaves alone: all but one step, all but one edge, or   *)
(* all but the files; and what it makes is well formed as far as that goes. *)
ChangesStep(d, n, id) ==
    /\ n = Def(n.steps, d.edges, d.files) /\ StepsNamed(n)
    /\ \A s \in Range(n.steps) : StepShape(s)
    /\ \A s : s.id # id => (s \in Range(n.steps) <=> s \in Range(d.steps))
    /\ \A e \in Range(d.edges) : e[1] \in StepIds(n) /\ e[2] \in StepIds(n)

ChangesEdge(d, n, edge) ==
    /\ n = Def(d.steps, n.edges, d.files) /\ IsList(n.edges) /\ OnceEach(n.edges)
    /\ \A e : e # edge => (e \in Range(n.edges) <=> e \in Range(d.edges))
    /\ \A e \in Range(n.edges) : e[1] \in StepIds(d) /\ e[2] \in StepIds(d)

ChangesFiles(d, n) ==
    /\ n = Def(d.steps, d.edges, n.files) /\ IsList(n.files)
    /\ \A f \in Range(n.files) : f = <<f[1], f[2]>> /\ f[2] # Absent

LEMMA NextIs ==
    ASSUME NEW d, NEW op, NEW n, NEW inverse, Apply(d, op) = Edited(n, inverse)
    PROVE  Apply(d, op).next = n
  BY EditedFields

(* Replacing a step under its own id changes that step only.                *)
LEMMA StepSet ==
    ASSUME NEW d, WellFormed(d), NEW i \in DOMAIN d.steps, NEW old, old = d.steps[i],
           NEW s, s.id = old.id, StepShape(s), NEW n, n = WithStep(d, i, s), NEW id, id = old.id
    PROVE  ChangesStep(d, n, id)
  <1>1. /\ n = Def(n.steps, d.edges, d.files) /\ StepsNamed(n)
        /\ n.steps[i] = s /\ DOMAIN n.steps = DOMAIN d.steps
        /\ \A j \in DOMAIN d.steps : j # i => n.steps[j] = d.steps[j]
    BY StepEdited
  <1>2. PICK q, r : q = d.steps /\ r = n.steps
    OBVIOUS
  <1>3. /\ i \in DOMAIN q /\ DOMAIN r = DOMAIN q /\ r[i] = s /\ q[i] = old
        /\ \A j \in DOMAIN q : j # i => r[j] = q[j]
    BY <1>1, <1>2
  <1>4. \A x \in Range(r) : x = s \/ x \in Range(q)
    BY <1>3 DEF Range
  <1>5. \A x : x.id # id => (x \in Range(r) <=> x \in Range(q))
    BY <1>3 DEF Range
  <1>6. \A x \in Range(q) : \E y \in Range(r) : y.id = x.id
    BY <1>3 DEF Range
  <1>7. StepIds(d) \subseteq StepIds(n)
    BY <1>2, <1>6 DEF StepIds
  <1>8. \A x \in Range(q) : StepShape(x)
    BY <1>2 DEF WellFormed
  <1>9. \A e \in Range(d.edges) : e[1] \in StepIds(d) /\ e[2] \in StepIds(d)
    BY DEF WellFormed
  <1> QED BY <1>1, <1>2, <1>4, <1>5, <1>7, <1>8, <1>9 DEF ChangesStep

LEMMA UndoAddStep ==
    ASSUME NEW d, WellFormed(d), NEW op, op.kind = "add_step", StepShape(op.step),
           Apply(d, op).ok
    PROVE  Undone(d, op) /\ ChangesStep(d, Apply(d, op).next, op.step.id)
  <1> DEFINE s == op.step
             n == Def(Append(d.steps, s), d.edges, d.files)
             inv == [kind |-> "remove_step", id |-> s.id]
  <1>1. FindStep(d, s.id) = 0 /\ Apply(d, op) = Edited(n, inv)
    BY DefParts, EditedFields DEF Apply, ApplyAddStep
  <1>2. s.id \notin StepIds(d) /\ IsList(d.steps) /\ StepsNamed(d)
    BY <1>1, FindStepFacts, DefParts DEF StepsNamed
  <1>3. /\ n.steps = Append(d.steps, s) /\ n.edges = d.edges /\ n.files = d.files
        /\ n = Def(n.steps, n.edges, n.files)
    BY DEF Def
  <1>4. /\ IsList(n.steps) /\ DOMAIN n.steps = 1 .. Len(d.steps) + 1
        /\ n.steps[Len(d.steps) + 1] = s /\ \A i \in DOMAIN d.steps : n.steps[i] = d.steps[i]
        /\ RemoveAt(n.steps, Len(d.steps) + 1) = d.steps
        /\ Len(d.steps) \in Nat /\ DOMAIN d.steps = 1 .. Len(d.steps)
    <2>1. PICK l, q : l = d.steps /\ q = n.steps /\ q = Append(l, s)
      BY <1>3
    <2>2. /\ IsList(q) /\ DOMAIN q = 1 .. Len(l) + 1 /\ q[Len(l) + 1] = s
          /\ \A i \in DOMAIN l : q[i] = l[i]
          /\ RemoveAt(q, Len(l) + 1) = l
      BY <1>2, <2>1, Appended
    <2>3. Len(l) \in Nat /\ DOMAIN l = 1 .. Len(l)
      BY <1>2, <2>1, ListFacts
    <2> QED BY <2>1, <2>2, <2>3
  <1> HIDE DEF n
  <1>5. StepsNamed(n)
    <2>1. \A i \in DOMAIN d.steps : d.steps[i].id # s.id
      BY <1>2 DEF StepIds, Range
    <2>2. \A i \in DOMAIN n.steps : i \in DOMAIN d.steps \/ i = Len(d.steps) + 1
      BY <1>4
    <2> QED BY <1>2, <1>4, <2>1, <2>2 DEF StepsNamed
  <1>6. FindStep(n, s.id) = Len(d.steps) + 1 /\ FindStep(n, s.id) # 0
    <2>1. Len(d.steps) + 1 \in DOMAIN n.steps /\ Len(d.steps) + 1 # 0
      BY <1>4
    <2> QED BY <1>4, <1>5, <2>1, FindStepFacts
  <1>7. ~\E e \in Range(n.edges) : s.id \in {e[1], e[2]}
    BY <1>2, <1>3 DEF WellFormed
  <1>8. inv.kind = "remove_step" /\ inv.id = s.id
    OBVIOUS
  <1> HIDE DEF inv
  <1>9. Apply(n, inv) = Edited([n EXCEPT !.steps = RemoveAt(@, Len(d.steps) + 1)],
                               [kind |-> "add_step", step |-> n.steps[Len(d.steps) + 1]])
    BY <1>6, <1>7, <1>8 DEF Apply, ApplyRemoveStep
  <1>10. [n EXCEPT !.steps = RemoveAt(@, Len(d.steps) + 1)] = d
    <2>1. [n EXCEPT !.steps = RemoveAt(@, Len(d.steps) + 1)] = Def(d.steps, d.edges, d.files)
      BY <1>3, <1>4 DEF Def
    <2> QED BY <2>1, DefParts
  <1>11. ChangesStep(d, n, s.id)
    <2>1. PICK q, r : q = d.steps /\ r = n.steps
      OBVIOUS
    <2>2. Range(r) = Range(q) \cup {s}
      BY <1>2, <1>3, <2>1, Appended
    <2>3. \A x \in Range(r) : StepShape(x)
      BY <2>1, <2>2 DEF WellFormed
    <2>4. StepIds(d) \subseteq StepIds(n)
      BY <2>1, <2>2 DEF StepIds
    <2>5. \A e \in Range(d.edges) : e[1] \in StepIds(d) /\ e[2] \in StepIds(d)
      BY DEF WellFormed
    <2>6. \A x : x.id # s.id => (x \in Range(r) <=> x \in Range(q))
      BY <2>2
    <2> QED BY <1>3, <1>5, <2>1, <2>3, <2>4, <2>5, <2>6 DEF ChangesStep
  <1> QED BY <1>11, <1>1, <1>9, <1>10, UndoneBy, NextIs

LEMMA UndoRemoveStep ==
    ASSUME NEW d, WellFormed(d), NEW op, op.kind = "remove_step", Apply(d, op).ok
    PROVE  Undone(d, op) /\ ChangesStep(d, Apply(d, op).next, op.id)
  <1>i. PICK i : i = FindStep(d, op.id)
    OBVIOUS
  <1> DEFINE s == d.steps[i]
             n == Def(RemoveAt(d.steps, i), d.edges, d.files)
             inv == [kind |-> "add_step", step |-> s]
  <1>1. i # 0 /\ Apply(d, op) = Edited(n, inv)
    BY <1>i, DefParts, EditedFields DEF Apply, ApplyRemoveStep
  <1>2. IsList(d.steps) /\ StepsNamed(d) /\ OnceEach(d.steps)
    BY DefParts DEF StepsNamed, OnceEach
  <1>3. i \in DOMAIN d.steps /\ s.id = op.id
    BY <1>1, <1>2, <1>i, FindStepFacts
  <1>4. /\ n.steps = RemoveAt(d.steps, i) /\ n.edges = d.edges /\ n.files = d.files
        /\ n = Def(n.steps, n.edges, n.files)
    BY DefFields
  <1>5. /\ IsList(n.steps) /\ Range(n.steps) = Range(d.steps) \ {s}
        /\ \A j \in DOMAIN n.steps :
              \E m \in DOMAIN d.steps : /\ m # i /\ n.steps[j] = d.steps[m]
                                        /\ m = IF j < i THEN j ELSE j + 1
    BY <1>2, <1>3, <1>4, Removed
  <1> HIDE DEF n
  <1>6. StepsNamed(n)
    <2>1. ASSUME NEW j \in DOMAIN n.steps, NEW k \in DOMAIN n.steps, n.steps[j].id = n.steps[k].id
          PROVE  j = k
      <3>1. PICK a \in DOMAIN d.steps : a # i /\ n.steps[j] = d.steps[a] /\ a = IF j < i THEN j ELSE j + 1
        BY <1>5
      <3>2. PICK b \in DOMAIN d.steps : b # i /\ n.steps[k] = d.steps[b] /\ b = IF k < i THEN k ELSE k + 1
        BY <1>5
      <3>3. a = b
        BY <1>2, <2>1, <3>1, <3>2 DEF StepsNamed
      <3>4. j \in Nat /\ k \in Nat /\ i \in Nat
        <4>1. DOMAIN n.steps = 1 .. Len(n.steps) /\ DOMAIN d.steps = 1 .. Len(d.steps)
          BY <1>2, <1>5, ListFacts
        <4>2. Len(n.steps) \in Nat /\ Len(d.steps) \in Nat
          BY <1>2, <1>5, ListFacts
        <4> QED BY <1>3, <4>1, <4>2
      <3> QED BY <3>1, <3>2, <3>3, <3>4
    <2> QED BY <1>5, <2>1 DEF StepsNamed
  <1>7. FindStep(n, s.id) = 0
    <2>1. \A j \in DOMAIN n.steps : n.steps[j].id # s.id
      BY <1>2, <1>3, <1>5 DEF StepsNamed
    <2> QED BY <2>1 DEF FindStep
  <1>8. inv.kind = "add_step" /\ inv.step = s
    OBVIOUS
  <1> HIDE DEF inv, s
  <1>9. Apply(n, inv) = Edited([n EXCEPT !.steps = Append(@, s)],
                               [kind |-> "remove_step", id |-> s.id])
    BY <1>7, <1>8 DEF Apply, ApplyAddStep
  <1>10. [n EXCEPT !.steps = Append(@, s)] = Def(Append(n.steps, s), d.edges, d.files)
    <2>1. PICK p, q, f, r : p = n.steps /\ q = d.edges /\ f = d.files /\ r = Append(p, s)
      OBVIOUS
    <2>2. n = Def(p, q, f)
      BY <1>4, <2>1
    <2>3. [n EXCEPT !.steps = r] = Def(r, q, f)
      BY <2>2 DEF Def
    <2> QED BY <2>1, <2>3
  <1>11. Range(Append(n.steps, s)) = Range(d.steps)
    <2>1. s \in Range(d.steps)
      <3>1. d.steps[i] \in Range(d.steps)
        BY <1>3 DEF Range
      <3> QED BY <3>1 DEF s
    <2>2. PICK q : q = n.steps /\ IsList(q) /\ Range(q) = Range(d.steps) \ {s}
      BY <1>5
    <2>3. Range(Append(q, s)) = Range(q) \cup {s}
      BY <2>2, Appended
    <2> QED BY <2>1, <2>2, <2>3
  <1>12. Content(Def(Append(n.steps, s), d.edges, d.files)) = Content(d)
    <2>1. PICK a : a = Append(n.steps, s)
      OBVIOUS
    <2>2. Content(Def(a, d.edges, d.files)) = Content(Def(d.steps, d.edges, d.files))
      BY <1>11, <2>1, DefFields
    <2> QED BY <2>1, <2>2, DefParts
  <1>13. ChangesStep(d, n, op.id)
    <2>1. PICK q, r : q = d.steps /\ r = n.steps
      OBVIOUS
    <2>2. Range(r) = Range(q) \ {s}
      BY <1>5, <2>1
    <2>3. \A x \in Range(r) : StepShape(x)
      BY <2>1, <2>2 DEF WellFormed
    <2>4. \A x : x.id # op.id => (x \in Range(r) <=> x \in Range(q))
      BY <1>3, <2>2 DEF s
    <2>5. \A id \in StepIds(d) : id # op.id => id \in StepIds(n)
      BY <2>1, <2>4 DEF StepIds
    <2>6. ~\E e \in Range(d.edges) : op.id \in {e[1], e[2]}
      BY <1>i, <1>1, EditedFields DEF Apply, ApplyRemoveStep
    <2>7. \A e \in Range(d.edges) : e[1] \in StepIds(d) /\ e[2] \in StepIds(d)
      BY DEF WellFormed
    <2> QED BY <1>4, <1>6, <2>1, <2>3, <2>4, <2>5, <2>6, <2>7 DEF ChangesStep
  <1> QED BY <1>13, <1>1, <1>9, <1>10, <1>12, UndoneBy, NextIs

(* Finding an edge.                                                         *)
LEMMA PlaceFacts ==
    ASSUME NEW l, IsList(l), NEW x
    PROVE  /\ Place(l, x) = 0 <=> x \notin Range(l)
           /\ Place(l, x) # 0 => Place(l, x) \in DOMAIN l /\ l[Place(l, x)] = x
           /\ OnceEach(l) => \A i \in DOMAIN l : l[i] = x => Place(l, x) = i
  <1>1. 0 \notin DOMAIN l
    BY ListFacts
  <1>2. x \in Range(l) <=> \E i \in DOMAIN l : l[i] = x
    BY DEF Range
  <1>3. CASE \E i \in DOMAIN l : l[i] = x
    <2>1. Place(l, x) = CHOOSE i \in DOMAIN l : l[i] = x
      BY <1>3 DEF Place
    <2>2. Place(l, x) \in DOMAIN l /\ l[Place(l, x)] = x
      BY <1>3, <2>1
    <2> QED BY <1>1, <1>2, <1>3, <2>2 DEF OnceEach
  <1>4. CASE ~\E i \in DOMAIN l : l[i] = x
    BY <1>2, <1>4 DEF Place
  <1> QED BY <1>3, <1>4

LEMMA UndoConnect ==
    ASSUME NEW d, WellFormed(d), NEW op, op.kind = "connect", Apply(d, op).ok
    PROVE  Undone(d, op) /\ ChangesEdge(d, Apply(d, op).next, op.edge)
  <1> DEFINE e == op.edge
             n == Def(d.steps, Append(d.edges, e), d.files)
             inv == [kind |-> "remove_edge", edge |-> e]
  <1>1. Place(d.edges, e) = 0 /\ Apply(d, op) = Edited(n, inv)
    BY DefParts, EditedFields DEF Apply, ApplyConnect
  <1>2. IsList(d.edges) /\ OnceEach(d.edges)
    BY DEF WellFormed, OnceEach
  <1>3. /\ n.steps = d.steps /\ n.edges = Append(d.edges, e) /\ n.files = d.files
        /\ n = Def(n.steps, n.edges, n.files)
    BY DEF Def
  <1>4. /\ IsList(n.edges) /\ DOMAIN n.edges = 1 .. Len(d.edges) + 1
        /\ n.edges[Len(d.edges) + 1] = e /\ \A i \in DOMAIN d.edges : n.edges[i] = d.edges[i]
        /\ RemoveAt(n.edges, Len(d.edges) + 1) = d.edges
        /\ Len(d.edges) \in Nat /\ DOMAIN d.edges = 1 .. Len(d.edges)
    <2>1. PICK l, q : l = d.edges /\ q = n.edges /\ q = Append(l, e)
      BY <1>3
    <2>2. /\ IsList(q) /\ DOMAIN q = 1 .. Len(l) + 1 /\ q[Len(l) + 1] = e
          /\ \A i \in DOMAIN l : q[i] = l[i]
          /\ RemoveAt(q, Len(l) + 1) = l
      BY <1>2, <2>1, Appended
    <2>3. Len(l) \in Nat /\ DOMAIN l = 1 .. Len(l)
      BY <1>2, <2>1, ListFacts
    <2> QED BY <2>1, <2>2, <2>3
  <1> HIDE DEF n
  <1>5. OnceEach(n.edges)
    <2>1. \A i \in DOMAIN d.edges : d.edges[i] # e
      BY <1>1, <1>2, PlaceFacts DEF Range
    <2>2. \A i \in DOMAIN n.edges : i \in DOMAIN d.edges \/ i = Len(d.edges) + 1
      BY <1>4
    <2> QED BY <1>2, <1>4, <2>1, <2>2 DEF OnceEach
  <1>6. Place(n.edges, e) = Len(d.edges) + 1 /\ Place(n.edges, e) # 0
    <2>1. Len(d.edges) + 1 \in DOMAIN n.edges /\ Len(d.edges) + 1 # 0
      BY <1>4
    <2> QED BY <1>4, <1>5, <2>1, PlaceFacts
  <1>8. inv.kind = "remove_edge" /\ inv.edge = e
    OBVIOUS
  <1> HIDE DEF inv, e
  <1>9. Apply(n, inv) = Edited([n EXCEPT !.edges = RemoveAt(@, Len(d.edges) + 1)],
                               [kind |-> "connect", edge |-> e])
    BY <1>6, <1>8 DEF Apply, ApplyRemoveEdge
  <1>10. [n EXCEPT !.edges = RemoveAt(@, Len(d.edges) + 1)] = d
    <2>1. [n EXCEPT !.edges = RemoveAt(@, Len(d.edges) + 1)] = Def(d.steps, d.edges, d.files)
      BY <1>3, <1>4 DEF Def
    <2> QED BY <2>1, DefParts
  <1>11. ChangesEdge(d, n, e)
    <2>1. PICK q, r : q = d.edges /\ r = n.edges
      OBVIOUS
    <2>2. Range(r) = Range(q) \cup {e}
      BY <1>2, <1>3, <2>1, Appended
    <2>3. e[1] \in StepIds(d) /\ e[2] \in StepIds(d)
      <3>1. CheckEdgeEndpoints(d, e)
        BY EditedFields DEF Apply, ApplyConnect, e
      <3>2. StepsNamed(d)
        BY DefParts
      <3> QED BY <3>1, <3>2, FindStepFacts DEF CheckEdgeEndpoints
    <2>4. \A x \in Range(r) : x[1] \in StepIds(d) /\ x[2] \in StepIds(d)
      BY <2>1, <2>2, <2>3 DEF WellFormed
    <2> QED BY <1>3, <1>4, <1>5, <2>1, <2>2, <2>4 DEF ChangesEdge
  <1>12. e = op.edge
    BY DEF e
  <1> QED BY <1>11, <1>12, <1>1, <1>9, <1>10, UndoneBy, NextIs

LEMMA UndoRemoveEdge ==
    ASSUME NEW d, WellFormed(d), NEW op, op.kind = "remove_edge", Apply(d, op).ok
    PROVE  Undone(d, op) /\ ChangesEdge(d, Apply(d, op).next, op.edge)
  <1>i. PICK i : i = Place(d.edges, op.edge)
    OBVIOUS
  <1> DEFINE e == op.edge
             n == Def(d.steps, RemoveAt(d.edges, i), d.files)
             inv == [kind |-> "connect", edge |-> e]
  <1>1. i # 0 /\ Apply(d, op) = Edited(n, inv)
    BY <1>i, DefParts, EditedFields DEF Apply, ApplyRemoveEdge
  <1>2. IsList(d.edges) /\ OnceEach(d.edges) /\ StepsNamed(d)
    BY DefParts DEF WellFormed, OnceEach
  <1>3. i \in DOMAIN d.edges /\ d.edges[i] = e
    BY <1>1, <1>2, <1>i, PlaceFacts
  <1>4. /\ n.edges = RemoveAt(d.edges, i) /\ n.steps = d.steps /\ n.files = d.files
        /\ n = Def(n.steps, n.edges, n.files)
    BY DefFields
  <1>5. IsList(n.edges) /\ Range(n.edges) = Range(d.edges) \ {e}
    BY <1>2, <1>3, <1>4, Removed
  <1> HIDE DEF n
  <1>6. Place(n.edges, e) = 0
    BY <1>5, PlaceFacts
  <1>7. CheckEdgeEndpoints(n, e)
    <2>1. e \in Range(d.edges)
      BY <1>3 DEF Range
    <2>2. e[1] \in StepIds(d) /\ e[2] \in StepIds(d)
      BY <2>1 DEF WellFormed
    <2>3. StepsNamed(n) /\ StepIds(n) = StepIds(d)
      BY <1>2, <1>4 DEF StepsNamed, StepIds
    <2> QED BY <2>2, <2>3, FindStepFacts DEF CheckEdgeEndpoints
  <1>8. inv.kind = "connect" /\ inv.edge = e
    OBVIOUS
  <1> HIDE DEF inv, e
  <1>9. Apply(n, inv) = Edited([n EXCEPT !.edges = Append(@, e)],
                               [kind |-> "remove_edge", edge |-> e])
    BY <1>6, <1>7, <1>8 DEF Apply, ApplyConnect
  <1>10. [n EXCEPT !.edges = Append(@, e)] = Def(d.steps, Append(n.edges, e), d.files)
    <2>1. PICK p, q, f, r : p = d.steps /\ q = n.edges /\ f = d.files /\ r = Append(q, e)
      OBVIOUS
    <2>2. n = Def(p, q, f)
      BY <1>4, <2>1
    <2>3. [n EXCEPT !.edges = r] = Def(p, r, f)
      BY <2>2 DEF Def
    <2> QED BY <2>1, <2>3
  <1>11. Range(Append(n.edges, e)) = Range(d.edges)
    <2>1. e \in Range(d.edges)
      BY <1>3 DEF Range
    <2>2. PICK q : q = n.edges /\ IsList(q) /\ Range(q) = Range(d.edges) \ {e}
      BY <1>5
    <2>3. Range(Append(q, e)) = Range(q) \cup {e}
      BY <2>2, Appended
    <2> QED BY <2>1, <2>2, <2>3
  <1>12. Content(Def(d.steps, Append(n.edges, e), d.files)) = Content(d)
    <2>1. PICK a : a = Append(n.edges, e)
      OBVIOUS
    <2>2. Content(Def(d.steps, a, d.files)) = Content(Def(d.steps, d.edges, d.files))
      BY <1>11, <2>1, DefFields
    <2> QED BY <2>1, <2>2, DefParts
  <1>13. ChangesEdge(d, n, e)
    <2>1. PICK q, r : q = d.edges /\ r = n.edges
      OBVIOUS
    <2>2. Range(r) = Range(q) \ {e}
      BY <1>5, <2>1
    <2>3. \A x \in Range(r) : x[1] \in StepIds(d) /\ x[2] \in StepIds(d)
      BY <2>1, <2>2 DEF WellFormed
    <2>4. OnceEach(r)
      <3>1. ASSUME NEW j \in DOMAIN r, NEW k \in DOMAIN r, r[j] = r[k] PROVE j = k
        <4>0. /\ Len(q) \in Nat /\ DOMAIN q = 1 .. Len(q) /\ Len(r) \in Nat /\ DOMAIN r = 1 .. Len(r)
              /\ IsList(q) /\ OnceEach(q) /\ r = RemoveAt(q, i) /\ i \in DOMAIN q
          BY <1>2, <1>3, <1>4, <1>5, <2>1, ListFacts
        <4>m. \A x \in DOMAIN r : \E m \in DOMAIN q : /\ m # i /\ r[x] = q[m]
                                                     /\ m = IF x < i THEN x ELSE x + 1
          BY <4>0, Removed
        <4>1. PICK a \in DOMAIN q : a # i /\ r[j] = q[a] /\ a = IF j < i THEN j ELSE j + 1
          BY <4>m
        <4>2. PICK b \in DOMAIN q : b # i /\ r[k] = q[b] /\ b = IF k < i THEN k ELSE k + 1
          BY <4>m
        <4>3. a = b
          BY <3>1, <4>0, <4>1, <4>2 DEF OnceEach
        <4> QED BY <4>0, <4>1, <4>2, <4>3
      <3> QED BY <3>1 DEF OnceEach
    <2> QED BY <1>4, <1>5, <2>1, <2>2, <2>3, <2>4 DEF ChangesEdge
  <1>14. e = op.edge
    BY DEF e
  <1> QED BY <1>13, <1>14, <1>1, <1>9, <1>10, <1>12, UndoneBy, NextIs

(* The operations that set one value of a step.                             *)
ValueOp(op) == [kind |-> op.kind, id |-> op.id, value |-> op.value]

(* The inverse of setting a value sets the old one.                         *)
LEMMA ValueInverse ==
    ASSUME NEW op, op = ValueOp(op), NEW v
    PROVE  /\ [op EXCEPT !.value = v].kind = op.kind /\ [op EXCEPT !.value = v].id = op.id
           /\ [op EXCEPT !.value = v].value = v
  <1>1. PICK k, i, w : op = [kind |-> k, id |-> i, value |-> w]
    BY DEF ValueOp
  <1> QED BY <1>1

LEMMA UndoSetProperty ==
    ASSUME NEW d, WellFormed(d), NEW op, op = ValueOp(op), op.kind = "set_property",
           Apply(d, op).ok
    PROVE  Undone(d, op) /\ ChangesStep(d, Apply(d, op).next, op.id)
  <1>i. PICK i : i = FindStep(d, op.id)
    OBVIOUS
  <1>o. PICK old : old = d.steps[i]
    OBVIOUS
  <1>s. PICK s : s = [old EXCEPT !.scalar = op.value]
    OBVIOUS
  <1>v. PICK inv : inv = [op EXCEPT !.value = old.scalar]
    OBVIOUS
  <1>n. PICK n : n = WithStep(d, i, s)
    OBVIOUS
  <1>1. i # 0 /\ Apply(d, op) = Edited(n, inv)
    BY <1>i, <1>o, <1>s, <1>v, <1>n, EditedFields DEF Apply, ApplySetProperty
  <1>2. i \in DOMAIN d.steps /\ old.id = op.id /\ StepShape(old)
    <2>1. i \in DOMAIN d.steps /\ old.id = op.id
      <3>1. StepsNamed(d)
        BY DefParts
      <3> QED BY <1>1, <1>i, <1>o, <3>1, FindStepFacts
    <2>2. old \in Range(d.steps)
      BY <2>1, <1>o DEF Range
    <2> QED BY <2>1, <2>2 DEF WellFormed
  <1>3. s.id = old.id /\ [s EXCEPT !.scalar = old.scalar] = old
    <2>1. PICK a, b, c, e, f, g : old = Step(a, b, c, e, f, g)
      BY <1>2 DEF StepShape
    <2> QED BY <2>1, <1>s DEF Step
  <1>4. FindStep(n, op.id) = i /\ n.steps[i] = s /\ WithStep(n, i, old) = d
    BY <1>2, <1>3, <1>n, <1>o, StepEdited
  <1>5. inv.kind = "set_property" /\ inv.id = op.id /\ inv.value = old.scalar
    BY <1>v, ValueInverse
  <1>6. old.scalar # Unparsable
    BY <1>2 DEF StepShape
  <1>7. Apply(n, inv) = Edited(WithStep(n, i, [s EXCEPT !.scalar = old.scalar]),
                               [inv EXCEPT !.value = s.scalar])
    BY <1>1, <1>4, <1>5, <1>6 DEF Apply, ApplySetProperty
  <1>8. Apply(n, inv) = Edited(d, [inv EXCEPT !.value = s.scalar])
    BY <1>3, <1>4, <1>7
  <1>0. op.value # Unparsable
    BY EditedFields DEF Apply, ApplySetProperty
  <1>9. StepShape(s)
    <2>1. PICK a, b, c, e, f, g : old = Step(a, b, c, e, f, g) /\ b # Unparsable /\ IsList(f)
      BY <1>2 DEF StepShape, Step
    <2> QED BY <1>0, <2>1, <1>s DEF Step, StepShape
  <1>10. ChangesStep(d, n, op.id)
    BY <1>2, <1>3, <1>9, <1>n, <1>o, StepSet
  <1> QED BY <1>10, <1>1, <1>8, UndoneBy, NextIs

LEMMA UndoRename ==
    ASSUME NEW d, WellFormed(d), NEW op, op = ValueOp(op), op.kind = "rename", Apply(d, op).ok
    PROVE  Undone(d, op) /\ ChangesStep(d, Apply(d, op).next, op.id)
  <1>i. PICK i : i = FindStep(d, op.id)
    OBVIOUS
  <1>o. PICK old : old = d.steps[i]
    OBVIOUS
  <1>s. PICK s : s = [old EXCEPT !.name = op.value]
    OBVIOUS
  <1>v. PICK inv : inv = [op EXCEPT !.value = old.name]
    OBVIOUS
  <1>n. PICK n : n = WithStep(d, i, s)
    OBVIOUS
  <1>1. i # 0 /\ Apply(d, op) = Edited(n, inv)
    BY <1>i, <1>o, <1>s, <1>v, <1>n, EditedFields DEF Apply, ApplyRename
  <1>2. i \in DOMAIN d.steps /\ old.id = op.id /\ StepShape(old)
    <2>1. i \in DOMAIN d.steps /\ old.id = op.id
      <3>1. StepsNamed(d)
        BY DefParts
      <3> QED BY <1>1, <1>i, <1>o, <3>1, FindStepFacts
    <2>2. old \in Range(d.steps)
      BY <2>1, <1>o DEF Range
    <2> QED BY <2>1, <2>2 DEF WellFormed
  <1>3. s.id = old.id /\ [s EXCEPT !.name = old.name] = old
    <2>1. PICK a, b, c, e, f, g : old = Step(a, b, c, e, f, g)
      BY <1>2 DEF StepShape
    <2> QED BY <2>1, <1>s DEF Step
  <1>4. FindStep(n, op.id) = i /\ n.steps[i] = s /\ WithStep(n, i, old) = d
    BY <1>2, <1>3, <1>n, <1>o, StepEdited
  <1>5. inv.kind = "rename" /\ inv.id = op.id /\ inv.value = old.name
    BY <1>v, ValueInverse
  <1>7. Apply(n, inv) = Edited(WithStep(n, i, [s EXCEPT !.name = old.name]),
                               [inv EXCEPT !.value = s.name])
    BY <1>1, <1>4, <1>5 DEF Apply, ApplyRename
  <1>8. Apply(n, inv) = Edited(d, [inv EXCEPT !.value = s.name])
    BY <1>3, <1>4, <1>7
  <1>9. StepShape(s)
    <2>1. PICK a, b, c, e, f, g : old = Step(a, b, c, e, f, g) /\ b # Unparsable /\ IsList(f)
      BY <1>2 DEF StepShape, Step
    <2> QED BY <2>1, <1>s DEF Step, StepShape
  <1>10. ChangesStep(d, n, op.id)
    BY <1>2, <1>3, <1>9, <1>n, <1>o, StepSet
  <1> QED BY <1>10, <1>1, <1>8, UndoneBy, NextIs

LEMMA UndoSetStepConfig ==
    ASSUME NEW d, WellFormed(d), NEW op, op = ValueOp(op), op.kind = "set_step_config",
           Apply(d, op).ok
    PROVE  Undone(d, op) /\ ChangesStep(d, Apply(d, op).next, op.id)
  <1>i. PICK i : i = FindStep(d, op.id)
    OBVIOUS
  <1>o. PICK old : old = d.steps[i]
    OBVIOUS
  <1>s. PICK s : s = [old EXCEPT !.config = op.value]
    OBVIOUS
  <1>v. PICK inv : inv = [op EXCEPT !.value = old.config]
    OBVIOUS
  <1>n. PICK n : n = WithStep(d, i, s)
    OBVIOUS
  <1>1. /\ i # 0 /\ ~(op.value = Absent /\ old.config = Absent)
        /\ Apply(d, op) = Edited(n, inv)
    <2>1. Apply(d, op) = ApplySetStepConfig(d, op) /\ Apply(d, op) # Refused
      BY EditedFields DEF Apply
    <2>2. i # 0 /\ ~(op.value = Absent /\ old.config = Absent)
      BY <1>i, <1>o, <2>1 DEF ApplySetStepConfig
    <2> QED BY <1>i, <1>o, <1>s, <1>v, <1>n, <2>1, <2>2 DEF ApplySetStepConfig
  <1>2. i \in DOMAIN d.steps /\ old.id = op.id /\ StepShape(old)
    <2>1. i \in DOMAIN d.steps /\ old.id = op.id
      <3>1. StepsNamed(d)
        BY DefParts
      <3> QED BY <1>1, <1>i, <1>o, <3>1, FindStepFacts
    <2>2. old \in Range(d.steps)
      BY <2>1, <1>o DEF Range
    <2> QED BY <2>1, <2>2 DEF WellFormed
  <1>3. s.id = old.id /\ s.config = op.value /\ [s EXCEPT !.config = old.config] = old
    <2>1. PICK a, b, c, e, f, g : old = Step(a, b, c, e, f, g)
      BY <1>2 DEF StepShape
    <2> QED BY <2>1, <1>s DEF Step
  <1>4. FindStep(n, op.id) = i /\ n.steps[i] = s /\ WithStep(n, i, old) = d
    BY <1>2, <1>3, <1>n, <1>o, StepEdited
  <1>5. inv.kind = "set_step_config" /\ inv.id = op.id /\ inv.value = old.config
    BY <1>v, ValueInverse
  <1>7. Apply(n, inv) = Edited(WithStep(n, i, [s EXCEPT !.config = old.config]),
                               [inv EXCEPT !.value = s.config])
    BY <1>1, <1>3, <1>4, <1>5 DEF Apply, ApplySetStepConfig
  <1>8. Apply(n, inv) = Edited(d, [inv EXCEPT !.value = s.config])
    BY <1>3, <1>4, <1>7
  <1>9. StepShape(s)
    <2>1. PICK a, b, c, e, f, g : old = Step(a, b, c, e, f, g) /\ b # Unparsable /\ IsList(f)
      BY <1>2 DEF StepShape, Step
    <2> QED BY <2>1, <1>s DEF Step, StepShape
  <1>10. ChangesStep(d, n, op.id)
    BY <1>2, <1>3, <1>9, <1>n, <1>o, StepSet
  <1> QED BY <1>10, <1>1, <1>8, UndoneBy, NextIs

(* The operations that edit one item of a list of a step.                   *)
ListOp(op) ==
    [kind |-> op.kind, id |-> op.id, item |-> op.item, remove |-> op.remove, index |-> op.index]

PutBackItem(op, at, x) == [op EXCEPT !.remove = FALSE, !.index = at, !.item = x]
TakeOutItem(op) == [op EXCEPT !.remove = TRUE, !.index = NoIndex]
SwapItem(op, x) == [op EXCEPT !.item = x]

(* The inverses of an edit of a list of a step.                             *)
LEMMA ListInverse ==
    ASSUME NEW op, op = ListOp(op)
    PROVE  /\ \A at, x : /\ PutBackItem(op, at, x).kind = op.kind
                         /\ PutBackItem(op, at, x).id = op.id
                         /\ PutBackItem(op, at, x).item = x
                         /\ PutBackItem(op, at, x).index = at
                         /\ ~PutBackItem(op, at, x).remove
           /\ TakeOutItem(op).kind = op.kind /\ TakeOutItem(op).id = op.id
           /\ TakeOutItem(op).item = op.item /\ TakeOutItem(op).index = NoIndex
           /\ TakeOutItem(op).remove
           /\ \A x : /\ SwapItem(op, x).kind = op.kind /\ SwapItem(op, x).id = op.id
                     /\ SwapItem(op, x).item = x /\ SwapItem(op, x).index = op.index
                     /\ SwapItem(op, x).remove = op.remove
  <1>1. PICK k, i, m, r, w :
            op = [kind |-> k, id |-> i, item |-> m, remove |-> r, index |-> w]
    BY DEF ListOp
  <1>2. ASSUME NEW at, NEW x
        PROVE  /\ PutBackItem(op, at, x).kind = op.kind /\ PutBackItem(op, at, x).id = op.id
               /\ PutBackItem(op, at, x).item = x /\ PutBackItem(op, at, x).index = at
               /\ ~PutBackItem(op, at, x).remove
    BY <1>1 DEF PutBackItem
  <1>3. /\ TakeOutItem(op).kind = op.kind /\ TakeOutItem(op).id = op.id
        /\ TakeOutItem(op).item = op.item /\ TakeOutItem(op).index = NoIndex
        /\ TakeOutItem(op).remove
    BY <1>1 DEF TakeOutItem
  <1>4. ASSUME NEW x
        PROVE  /\ SwapItem(op, x).kind = op.kind /\ SwapItem(op, x).id = op.id
               /\ SwapItem(op, x).item = x /\ SwapItem(op, x).index = op.index
               /\ SwapItem(op, x).remove = op.remove
    BY <1>1 DEF SwapItem
  <1> QED BY <1>2, <1>3, <1>4

(* Where a key is in a list, when it is there once.                         *)
LEMMA KeyPlaceFacts ==
    ASSUME NEW l, IsList(l), NEW key
    PROVE  /\ KeyPlace(l, key) = 0 <=> \A i \in DOMAIN l : l[i][1] # key
           /\ KeyPlace(l, key) # 0 => /\ KeyPlace(l, key) \in DOMAIN l
                                      /\ l[KeyPlace(l, key)][1] = key
           /\ ~Twice(l, key) => \A i \in DOMAIN l : l[i][1] = key => KeyPlace(l, key) = i
           /\ KeyPlace(l, key) = 0 => ~Twice(l, key)
  <1>1. 0 \notin DOMAIN l
    BY ListFacts
  <1>3. CASE \E i \in DOMAIN l : l[i][1] = key
    <2>1. KeyPlace(l, key) = CHOOSE i \in DOMAIN l : l[i][1] = key
      BY <1>3 DEF KeyPlace
    <2>2. KeyPlace(l, key) \in DOMAIN l /\ l[KeyPlace(l, key)][1] = key
      BY <1>3, <2>1
    <2> QED BY <1>1, <1>3, <2>2 DEF Twice
  <1>4. CASE ~\E i \in DOMAIN l : l[i][1] = key
    BY <1>4 DEF KeyPlace, Twice
  <1> QED BY <1>3, <1>4

(* Where an item with a new key goes.                                       *)
Position(l, op) == IF op.index = NoIndex THEN Len(l) + 1 ELSE op.index

(* An edited step keeps its id and the rest, and takes its list back.       *)
WithList(s, l) == [s EXCEPT !.list = l]

(* Giving a step its old list back gives the step back.                     *)
LEMMA ListPutBack ==
    ASSUME NEW old, StepShape(old), NEW m
    PROVE  /\ WithList(old, m).id = old.id /\ WithList(old, m).list = m
           /\ WithList(WithList(old, m), old.list) = old
           /\ IsList(m) => StepShape(WithList(old, m))
  <1>1. PICK a, b, c, e, f, g : old = Step(a, b, c, e, f, g) /\ b # Unparsable
    BY DEF StepShape, Step
  <1>2. WithList(old, m) = Step(a, b, c, e, m, g)
    BY <1>1 DEF Step, WithList
  <1>3. IsList(m) => StepShape(Step(a, b, c, e, m, g))
    BY <1>1 DEF Step, StepShape
  <1>4. WithList(Step(a, b, c, e, m, g), f) = old /\ old.list = f /\ old.id = a
    BY <1>1 DEF Step, WithList
  <1>5. Step(a, b, c, e, m, g).id = a /\ Step(a, b, c, e, m, g).list = m
    BY DEF Step
  <1> QED BY <1>2, <1>3, <1>4, <1>5

(* The list after each edit: the key is where the edit put it, or nowhere.  *)
PutAt(l, i, x) == [l EXCEPT ![i] = x]

(* A list after an edit of one key, and after the inverse.                  *)
LEMMA ListAfter ==
    ASSUME NEW l, IsList(l), NEW key, ~Twice(l, key), NEW at, at = KeyPlace(l, key)
    PROVE  /\ at # 0 =>
                 /\ KeyPlace(RemoveAt(l, at), key) = 0 /\ IsList(RemoveAt(l, at))
                 /\ Len(RemoveAt(l, at)) = Len(l) - 1
                 /\ InsertAt(RemoveAt(l, at), at, l[at]) = l /\ at \in 1 .. Len(l)
           /\ \A x : at # 0 /\ x[1] = key =>
                 /\ KeyPlace(PutAt(l, at, x), key) = at /\ IsList(PutAt(l, at, x))
                 /\ ~Twice(PutAt(l, at, x), key) /\ PutAt(l, at, x)[at] = x
                 /\ PutAt(PutAt(l, at, x), at, l[at]) = l
           /\ \A x, p : at = 0 /\ x[1] = key /\ p \in 1 .. Len(l) + 1 =>
                 /\ KeyPlace(InsertAt(l, p, x), key) = p /\ IsList(InsertAt(l, p, x))
                 /\ ~Twice(InsertAt(l, p, x), key) /\ RemoveAt(InsertAt(l, p, x), p) = l
  <1>s. PICK S : S = Range(l)
    OBVIOUS
  <1>0. l \in Seq(S) /\ Len(l) \in Nat /\ DOMAIN l = 1 .. Len(l)
    BY <1>s, ListFacts
  <1>k. /\ at = 0 <=> \A i \in DOMAIN l : l[i][1] # key
        /\ at # 0 => at \in DOMAIN l /\ l[at][1] = key
        /\ \A i \in DOMAIN l : l[i][1] = key => at = i
    BY KeyPlaceFacts
  <1>1. ASSUME at # 0
        PROVE  /\ KeyPlace(RemoveAt(l, at), key) = 0 /\ IsList(RemoveAt(l, at))
               /\ Len(RemoveAt(l, at)) = Len(l) - 1
               /\ InsertAt(RemoveAt(l, at), at, l[at]) = l /\ at \in 1 .. Len(l)
    <2>1. at \in 1 .. Len(l)
      BY <1>0, <1>1, <1>k
    <2>2. PICK r : r = RemoveAt(l, at)
      OBVIOUS
    <2>3. /\ r \in Seq(S) /\ Len(r) = Len(l) - 1
          /\ \A j \in 1 .. Len(l) - 1 : r[j] = l[IF j < at THEN j ELSE j + 1]
      BY <1>0, <2>1, <2>2, RemoveAtElements
    <2>4. InsertAt(r, at, l[at]) = l
      BY <1>0, <2>1, <2>2, InsertRemoved
    <2>5. IsList(r)
      BY <2>3, SeqIsList
    <2>6. ASSUME NEW j \in DOMAIN r PROVE r[j][1] # key
      <3>1. PICK m : m = IF j < at THEN j ELSE j + 1
        OBVIOUS
      <3>2. j \in 1 .. Len(l) - 1 /\ m \in DOMAIN l /\ m # at
        BY <1>0, <2>1, <2>3, <3>1
      <3>3. r[j] = l[m]
        BY <2>3, <3>1, <3>2
      <3> QED BY <1>k, <3>2, <3>3
    <2>7. KeyPlace(r, key) = 0
      BY <2>5, <2>6, KeyPlaceFacts
    <2> QED BY <2>1, <2>2, <2>3, <2>4, <2>5, <2>7
  <1>2. ASSUME NEW x, at # 0, x[1] = key
        PROVE  /\ KeyPlace(PutAt(l, at, x), key) = at /\ IsList(PutAt(l, at, x))
               /\ ~Twice(PutAt(l, at, x), key) /\ PutAt(l, at, x)[at] = x
               /\ PutAt(PutAt(l, at, x), at, l[at]) = l
    <2>1. at \in DOMAIN l
      BY <1>2, <1>k
    <2>2. PICK r : r = PutAt(l, at, x)
      OBVIOUS
    <2>3. /\ IsList(r) /\ DOMAIN r = DOMAIN l /\ r[at] = x
          /\ \A j \in DOMAIN l : j # at => r[j] = l[j]
          /\ PutAt(r, at, l[at]) = l
      BY <2>1, <2>2, Replaced DEF PutAt
    <2>4. \A j \in DOMAIN r : r[j][1] = key => j = at
      BY <1>k, <2>3
    <2>5. ~Twice(r, key)
      BY <2>4 DEF Twice
    <2>6. KeyPlace(r, key) = at
      BY <1>2, <2>1, <2>3, <2>5, KeyPlaceFacts
    <2> QED BY <2>2, <2>3, <2>5, <2>6
  <1>3. ASSUME NEW x, NEW p, at = 0, x[1] = key, p \in 1 .. Len(l) + 1
        PROVE  /\ KeyPlace(InsertAt(l, p, x), key) = p /\ IsList(InsertAt(l, p, x))
               /\ ~Twice(InsertAt(l, p, x), key) /\ RemoveAt(InsertAt(l, p, x), p) = l
    <2>t. PICK T : T = S \cup {x}
      OBVIOUS
    <2>1. l \in Seq(T) /\ x \in T
      BY <1>0, <2>t
    <2>2. PICK r : r = InsertAt(l, p, x)
      OBVIOUS
    <2>3. /\ r \in Seq(T) /\ Len(r) = Len(l) + 1 /\ r[p] = x
          /\ \A j \in 1 .. p - 1 : r[j] = l[j]
          /\ \A j \in p .. Len(l) : r[j + 1] = l[j]
      BY <1>3, <2>1, <2>2, InsertAtElements
    <2>4. RemoveAt(r, p) = l
      BY <1>3, <2>1, <2>2, RemoveInserted
    <2>5. IsList(r)
      BY <2>3, SeqIsList
    <2>6. ASSUME NEW j \in DOMAIN r, j # p PROVE r[j][1] # key
      <3>1. CASE j < p
        <4>1. j \in 1 .. p - 1 /\ j \in DOMAIN l
          BY <1>0, <1>3, <2>3, <3>1
        <4> QED BY <1>3, <1>k, <2>3, <4>1
      <3>2. CASE j > p
        <4>1. j - 1 \in p .. Len(l) /\ (j - 1) + 1 = j /\ j - 1 \in DOMAIN l
          BY <1>0, <1>3, <2>3, <3>2
        <4>2. r[j] = l[j - 1]
          BY <2>3, <4>1
        <4> QED BY <1>3, <1>k, <4>1, <4>2
      <3> QED BY <1>0, <1>3, <2>3, <2>6, <3>1, <3>2
    <2>7. ~Twice(r, key)
      BY <2>6 DEF Twice
    <2>8. p \in DOMAIN r
      BY <1>0, <1>3, <2>3
    <2>9. KeyPlace(r, key) = p
      BY <1>3, <2>3, <2>5, <2>7, <2>8, KeyPlaceFacts
    <2> QED BY <2>2, <2>4, <2>5, <2>7, <2>9
  <1> QED BY <1>1, <1>2, <1>3

(* An edit of a list is undone by its inverse, and changes its step only.   *)
LEMMA UndoListEdit ==
    ASSUME NEW d, WellFormed(d), NEW op, op = ListOp(op), op.remove \in BOOLEAN, op.index \in Nat,
           NEW rebinds \in BOOLEAN, ApplyListEdit(d, op, rebinds).ok
    PROVE  \E n, inv, again :
              /\ ApplyListEdit(d, op, rebinds) = Edited(n, inv) /\ inv.kind = op.kind
              /\ ApplyListEdit(n, inv, rebinds) = Edited(d, again)
              /\ ChangesStep(d, n, op.id)
  <1>i. PICK i : i = FindStep(d, op.id)
    OBVIOUS
  <1>o. PICK old : old = d.steps[i]
    OBVIOUS
  <1>l. PICK l : l = old.list
    OBVIOUS
  <1>k. PICK key : key = op.item[1]
    OBVIOUS
  <1>a. PICK at : at = KeyPlace(l, key)
    OBVIOUS
  <1>1. /\ i # 0 /\ ~Twice(l, key)
        /\ \/ op.remove /\ at # 0
           \/ ~op.remove /\ at # 0 /\ rebinds /\ op.index = NoIndex
           \/ ~op.remove /\ at = 0 /\ Position(l, op) =< Len(l) + 1
    <2>1. PICK r : r = ApplyListEdit(d, op, rebinds) /\ r # Refused
      BY EditedFields
    <2>2. i # 0
      BY <1>i, <2>1 DEF ApplyListEdit
    <2>3. ~Twice(l, key)
      BY <1>i, <1>o, <1>l, <1>k, <2>1 DEF ApplyListEdit
    <2>4. CASE /\ ~(op.remove /\ at # 0)
               /\ ~(~op.remove /\ at # 0 /\ rebinds /\ op.index = NoIndex)
               /\ ~(~op.remove /\ at = 0 /\ Position(l, op) =< Len(l) + 1)
      BY <1>i, <1>o, <1>l, <1>k, <1>a, <2>1, <2>2, <2>3, <2>4 DEF ApplyListEdit, Position
    <2> QED BY <2>2, <2>3, <2>4
  <1>2. i \in DOMAIN d.steps /\ old.id = op.id /\ StepShape(old)
    <2>1. i \in DOMAIN d.steps /\ old.id = op.id
      <3>1. StepsNamed(d)
        BY DefParts
      <3> QED BY <1>1, <1>i, <1>o, <3>1, FindStepFacts
    <2>2. old \in Range(d.steps)
      BY <2>1, <1>o DEF Range
    <2> QED BY <2>1, <2>2 DEF WellFormed
  <1>3. IsList(l)
    BY <1>2, <1>l DEF StepShape
  <1>4. CASE op.remove /\ at # 0
    <2>m. PICK m : m = RemoveAt(l, at)
      OBVIOUS
    <2>s. PICK s : s = WithList(old, m)
      OBVIOUS
    <2>n. PICK n : n = WithStep(d, i, s)
      OBVIOUS
    <2>v. PICK inv : inv = PutBackItem(op, at, l[at])
      OBVIOUS
    <2>1. ApplyListEdit(d, op, rebinds) = Edited(n, inv)
      BY <1>1, <1>4, <1>i, <1>o, <1>l, <1>k, <1>a, <2>m, <2>s, <2>n, <2>v DEF ApplyListEdit, Position, WithList, PutAt, PutBackItem, SwapItem, TakeOutItem
    <2>2. /\ inv.kind = op.kind /\ inv.id = op.id /\ inv.item = l[at] /\ ~inv.remove
          /\ inv.index = at
      BY <2>v, ListInverse
    <2>3. /\ KeyPlace(m, key) = 0 /\ IsList(m) /\ Len(m) = Len(l) - 1
          /\ InsertAt(m, at, l[at]) = l /\ at \in 1 .. Len(l)
      BY <1>1, <1>3, <1>4, <1>a, <2>m, ListAfter
    <2>4. ~Twice(m, key) /\ inv.item[1] = key
      BY <1>3, <1>4, <1>a, <2>2, <2>3, KeyPlaceFacts
    <2>5. s.id = old.id /\ s.list = m /\ WithList(s, l) = old
      BY <1>2, <1>l, <2>s, ListPutBack
    <2>6. FindStep(n, inv.id) = i /\ n.steps[i] = s /\ WithStep(n, i, old) = d
      BY <1>2, <1>o, <2>2, <2>5, <2>n, StepEdited
    <2>7. Position(m, inv) = at /\ at =< Len(m) + 1
      <3>1. Len(l) \in Nat
        BY <1>3, ListFacts
      <3> QED BY <1>4, <2>2, <2>3, <3>1 DEF Position, NoIndex
    <2>8. \E again : ApplyListEdit(n, inv, rebinds) =
                        Edited(WithStep(n, i, WithList(s, InsertAt(m, Position(m, inv), inv.item))), again)
      BY <1>1, <2>2, <2>3, <2>4, <2>5, <2>6, <2>7 DEF ApplyListEdit, Position, WithList, PutAt
    <2>9. InsertAt(m, Position(m, inv), inv.item) = l
      BY <2>2, <2>3, <2>7
    <2>10. ChangesStep(d, n, op.id)
      <3>1. StepShape(s)
        BY <1>2, <2>3, <2>s, ListPutBack
      <3> QED BY <1>2, <1>o, <2>5, <2>n, <3>1, StepSet
    <2> QED BY <2>1, <2>2, <2>5, <2>6, <2>8, <2>9, <2>10
  <1>5. CASE ~op.remove /\ at # 0 /\ rebinds /\ op.index = NoIndex
    <2>m. PICK m : m = PutAt(l, at, op.item)
      OBVIOUS
    <2>s. PICK s : s = WithList(old, m)
      OBVIOUS
    <2>n. PICK n : n = WithStep(d, i, s)
      OBVIOUS
    <2>v. PICK inv : inv = SwapItem(op, l[at])
      OBVIOUS
    <2>1. ApplyListEdit(d, op, rebinds) = Edited(n, inv)
      BY <1>1, <1>5, <1>i, <1>o, <1>l, <1>k, <1>a, <2>m, <2>s, <2>n, <2>v DEF ApplyListEdit, Position, WithList, PutAt, PutBackItem, SwapItem, TakeOutItem
    <2>2. /\ inv.kind = op.kind /\ inv.id = op.id /\ inv.item = l[at]
          /\ inv.remove = op.remove /\ inv.index = op.index
      BY <2>v, ListInverse
    <2>3. /\ KeyPlace(m, key) = at /\ IsList(m) /\ ~Twice(m, key) /\ m[at] = op.item
          /\ PutAt(m, at, l[at]) = l
      BY <1>1, <1>3, <1>5, <1>a, <1>k, <2>m, ListAfter
    <2>4. inv.item[1] = key
      BY <1>3, <1>5, <1>a, <2>2, KeyPlaceFacts
    <2>5. s.id = old.id /\ s.list = m /\ WithList(s, l) = old
      BY <1>2, <1>l, <2>s, ListPutBack
    <2>6. FindStep(n, inv.id) = i /\ n.steps[i] = s /\ WithStep(n, i, old) = d
      BY <1>2, <1>o, <2>2, <2>5, <2>n, StepEdited
    <2>7. ~inv.remove /\ inv.index = NoIndex
      BY <1>5, <2>2
    <2>8. \E again : ApplyListEdit(n, inv, rebinds) =
                        Edited(WithStep(n, i, WithList(s, PutAt(m, at, inv.item))), again)
      BY <1>1, <1>5, <2>3, <2>4, <2>5, <2>6, <2>7 DEF ApplyListEdit, Position, WithList, PutAt
    <2>9. PutAt(m, at, inv.item) = l
      BY <2>2, <2>3
    <2>10. ChangesStep(d, n, op.id)
      <3>1. StepShape(s)
        BY <1>2, <2>3, <2>s, ListPutBack
      <3> QED BY <1>2, <1>o, <2>5, <2>n, <3>1, StepSet
    <2> QED BY <2>1, <2>2, <2>5, <2>6, <2>8, <2>9, <2>10
  <1>6. CASE ~op.remove /\ at = 0 /\ Position(l, op) =< Len(l) + 1
    <2>p. PICK p : p = Position(l, op)
      OBVIOUS
    <2>m. PICK m : m = InsertAt(l, p, op.item)
      OBVIOUS
    <2>s. PICK s : s = WithList(old, m)
      OBVIOUS
    <2>n. PICK n : n = WithStep(d, i, s)
      OBVIOUS
    <2>v. PICK inv : inv = TakeOutItem(op)
      OBVIOUS
    <2>1. ApplyListEdit(d, op, rebinds) = Edited(n, inv)
      BY <1>1, <1>6, <1>i, <1>o, <1>l, <1>k, <1>a, <2>p, <2>m, <2>s, <2>n, <2>v DEF ApplyListEdit, Position, WithList, PutAt, PutBackItem, SwapItem, TakeOutItem
    <2>2. /\ inv.kind = op.kind /\ inv.id = op.id /\ inv.item = op.item /\ inv.remove
          /\ inv.index = NoIndex
      BY <2>v, ListInverse
    <2>0. p \in 1 .. Len(l) + 1
      <3>1. Len(l) \in Nat
        BY <1>3, ListFacts
      <3> QED BY <1>6, <2>p, <3>1 DEF Position, NoIndex
    <2>3. /\ KeyPlace(m, key) = p /\ IsList(m) /\ ~Twice(m, key) /\ RemoveAt(m, p) = l
      BY <1>1, <1>3, <1>6, <1>a, <1>k, <2>0, <2>m, ListAfter
    <2>4. inv.item[1] = key /\ p # 0
      BY <1>k, <2>0, <2>2
    <2>5. s.id = old.id /\ s.list = m /\ WithList(s, l) = old
      BY <1>2, <1>l, <2>s, ListPutBack
    <2>6. FindStep(n, inv.id) = i /\ n.steps[i] = s /\ WithStep(n, i, old) = d
      BY <1>2, <1>o, <2>2, <2>5, <2>n, StepEdited
    <2>8. \E again : ApplyListEdit(n, inv, rebinds) =
                        Edited(WithStep(n, i, WithList(s, RemoveAt(m, p))), again)
      BY <1>1, <2>2, <2>3, <2>4, <2>5, <2>6 DEF ApplyListEdit, Position, WithList, PutAt
    <2>10. ChangesStep(d, n, op.id)
      <3>1. StepShape(s)
        BY <1>2, <2>3, <2>s, ListPutBack
      <3> QED BY <1>2, <1>o, <2>5, <2>n, <3>1, StepSet
    <2> QED BY <2>1, <2>2, <2>3, <2>5, <2>6, <2>8, <2>10
  <1> QED BY <1>1, <1>4, <1>5, <1>6

LEMMA UndoSetList ==
    ASSUME NEW d, WellFormed(d), NEW op, op = ListOp(op), op.remove \in BOOLEAN, op.index \in Nat,
           op.kind \in ListKinds, Apply(d, op).ok
    PROVE  Undone(d, op) /\ ChangesStep(d, Apply(d, op).next, op.id)
  <1>1. CASE op.kind = "set_step_secret"
    <2>0. PICK b : b = TRUE /\ b \in BOOLEAN
      OBVIOUS
    <2>b. b \in BOOLEAN
      BY <2>0
    <2>1. \A x, o : o.kind = op.kind => Apply(x, o) = ApplyListEdit(x, o, b)
      BY <1>1, <2>0 DEF Apply, ApplySetStepSecret
    <2>2. ApplyListEdit(d, op, b).ok
      BY <2>1
    <2>3. PICK n, inv, again :
              /\ ApplyListEdit(d, op, b) = Edited(n, inv) /\ inv.kind = op.kind
              /\ ApplyListEdit(n, inv, b) = Edited(d, again)
              /\ ChangesStep(d, n, op.id)
      BY <2>b, <2>2, UndoListEdit
    <2>4. Apply(d, op) = Edited(n, inv) /\ Apply(n, inv) = Edited(d, again)
      BY <2>1, <2>3
    <2> QED BY <2>3, <2>4, UndoneBy, NextIs
  <1>2. CASE op.kind = "set_step_capability"
    <2>0. PICK b : b = FALSE /\ b \in BOOLEAN
      OBVIOUS
    <2>b. b \in BOOLEAN
      BY <2>0
    <2>1. \A x, o : o.kind = op.kind => Apply(x, o) = ApplyListEdit(x, o, b)
      BY <1>2, <2>0 DEF Apply, ApplySetStepCapability
    <2>2. ApplyListEdit(d, op, b).ok
      BY <2>1
    <2>3. PICK n, inv, again :
              /\ ApplyListEdit(d, op, b) = Edited(n, inv) /\ inv.kind = op.kind
              /\ ApplyListEdit(n, inv, b) = Edited(d, again)
              /\ ChangesStep(d, n, op.id)
      BY <2>b, <2>2, UndoListEdit
    <2>4. Apply(d, op) = Edited(n, inv) /\ Apply(n, inv) = Edited(d, again)
      BY <2>1, <2>3
    <2> QED BY <2>3, <2>4, UndoneBy, NextIs
  <1> QED BY <1>1, <1>2 DEF ListKinds

(* Attaching, replacing and detaching a file.                               *)
FileOp(op) == [kind |-> op.kind, path |-> op.path, digest |-> op.digest]
FileInverse(op, x) == [op EXCEPT !.digest = x]

LEMMA FileInverseFields ==
    ASSUME NEW op, op = FileOp(op), NEW x
    PROVE  /\ FileInverse(op, x).kind = op.kind /\ FileInverse(op, x).path = op.path
           /\ FileInverse(op, x).digest = x
  <1>1. PICK k, q, w : op = [kind |-> k, path |-> q, digest |-> w]
    BY DEF FileOp
  <1> QED BY <1>1 DEF FileInverse

(* The place of a path: the one that carries it, 0 where none does.         *)
PathAt(l, path, j) ==
    \/ j = 0 /\ \A i \in DOMAIN l : l[i][1] # path
    \/ j \in DOMAIN l /\ \A i \in DOMAIN l : l[i][1] = path <=> i = j

Reading(d, path) == \E s \in Range(d.steps) : path \in s.reads

(* What set_file makes of each case.                                        *)
LEMMA SetFileMakes ==
    ASSUME NEW d, NEW op, op.kind = "set_file", NEW j, PathAt(d.files, op.path, j),
           0 \notin DOMAIN d.files
    PROVE  /\ op.digest = Absent /\ (j = 0 \/ Reading(d, op.path)) => Apply(d, op) = Refused
           /\ op.digest = Absent /\ j # 0 /\ ~Reading(d, op.path) =>
                 Apply(d, op) = Edited([d EXCEPT !.files = RemoveAt(@, j)],
                                       FileInverse(op, d.files[j][2]))
           /\ op.digest # Absent /\ j # 0 =>
                 Apply(d, op) = Edited([d EXCEPT !.files = PutAt(@, j, <<op.path, op.digest>>)],
                                       FileInverse(op, d.files[j][2]))
           /\ op.digest # Absent /\ j = 0 =>
                 Apply(d, op) = Edited([d EXCEPT !.files = Append(@, <<op.path, op.digest>>)],
                                       FileInverse(op, Absent))
  <1>a. PICK at : at = {i \in DOMAIN d.files : d.files[i][1] = op.path}
    OBVIOUS
  <1>1. Apply(d, op) = ApplySetFile(d, op)
    BY DEF Apply
  <1>2. CASE j = 0
    <2>1. at = {}
      BY <1>2, <1>a DEF PathAt
    <2>2. op.digest = Absent => ApplySetFile(d, op) = Refused
      BY <1>a, <2>1 DEF ApplySetFile
    <2>3. op.digest # Absent =>
             ApplySetFile(d, op) = Edited([d EXCEPT !.files = Append(@, <<op.path, op.digest>>)],
                                          FileInverse(op, Absent))
      BY <1>a, <2>1 DEF ApplySetFile, FileInverse
    <2> QED BY <1>1, <1>2, <2>2, <2>3
  <1>3. CASE j # 0
    <2>1. at = {j}
      BY <1>3, <1>a DEF PathAt
    <2>2. (CHOOSE i \in at : TRUE) = j /\ at # {}
      BY <2>1
    <2>3. op.digest = Absent /\ Reading(d, op.path) => ApplySetFile(d, op) = Refused
      BY <1>a, <2>2 DEF ApplySetFile, Reading
    <2>4. op.digest = Absent /\ ~Reading(d, op.path) =>
             ApplySetFile(d, op) = Edited([d EXCEPT !.files = RemoveAt(@, j)],
                                          FileInverse(op, d.files[j][2]))
      BY <1>a, <2>2 DEF ApplySetFile, Reading, FileInverse
    <2>5. op.digest # Absent =>
             ApplySetFile(d, op) = Edited([d EXCEPT !.files[j] = <<op.path, op.digest>>],
                                          FileInverse(op, d.files[j][2]))
      BY <1>a, <2>2 DEF ApplySetFile, FileInverse
    <2>6. [d EXCEPT !.files[j] = <<op.path, op.digest>>] =
             [d EXCEPT !.files = PutAt(@, j, <<op.path, op.digest>>)]
      BY DEF PutAt
    <2> QED BY <1>1, <1>3, <2>3, <2>4, <2>5, <2>6
  <1> QED BY <1>2, <1>3

(* A path has one place in the files of a well-formed definition.           *)
LEMMA PathPlace ==
    ASSUME NEW d, WellFormed(d), NEW path
    PROVE  /\ \E j : PathAt(d.files, path, j)
           /\ IsList(d.files) /\ OnceEach(d.files) /\ 0 \notin DOMAIN d.files
  <1>1. IsList(d.files) /\ \A i, j \in DOMAIN d.files : d.files[i][1] = d.files[j][1] => i = j
    BY DEF WellFormed, FilesAgree
  <1>2. 0 \notin DOMAIN d.files
    BY <1>1, ListFacts
  <1>3. CASE \E j \in DOMAIN d.files : d.files[j][1] = path
    BY <1>1, <1>2, <1>3 DEF PathAt, OnceEach
  <1>4. CASE ~\E j \in DOMAIN d.files : d.files[j][1] = path
    BY <1>1, <1>2, <1>4 DEF PathAt, OnceEach
  <1> QED BY <1>3, <1>4

LEMMA UndoSetFile ==
    ASSUME NEW d, WellFormed(d), NEW op, op = FileOp(op), op.kind = "set_file", Apply(d, op).ok
    PROVE  Undone(d, op) /\ ChangesFiles(d, Apply(d, op).next)
  <1>p. PICK path : path = op.path
    OBVIOUS
  <1>l. PICK l : l = d.files
    OBVIOUS
  <1>j. PICK j : PathAt(l, path, j)
    BY <1>p, <1>l, PathPlace
  <1>0. /\ IsList(l) /\ OnceEach(l) /\ 0 \notin DOMAIN l /\ d = Def(d.steps, d.edges, l)
        /\ Len(l) \in Nat /\ DOMAIN l = 1 .. Len(l)
    BY <1>l, PathPlace, DefParts, ListFacts
  <1>f. \A i \in DOMAIN l : l[i] = <<l[i][1], l[i][2]>> /\ l[i][2] # Absent
    BY <1>l DEF WellFormed, Range
  <1>1. Apply(d, op) # Refused
    BY EditedFields
  <1>2. CASE op.digest = Absent
    <2>1. j # 0 /\ ~Reading(d, path)
      BY <1>0, <1>1, <1>2, <1>j, <1>l, <1>p, SetFileMakes
    <2>2. j \in DOMAIN l /\ l[j][1] = path
      BY <2>1, <1>j DEF PathAt
    <2>m. PICK m : m = RemoveAt(l, j)
      OBVIOUS
    <2>n. PICK n : n = Def(d.steps, d.edges, m)
      OBVIOUS
    <2>v. PICK inv : inv = FileInverse(op, l[j][2])
      OBVIOUS
    <2>3. Apply(d, op) = Edited(n, inv)
      <3>1. Apply(d, op) = Edited([d EXCEPT !.files = RemoveAt(@, j)], FileInverse(op, l[j][2]))
        BY <1>0, <1>2, <1>j, <1>l, <1>p, <2>1, SetFileMakes
      <3>2. [d EXCEPT !.files = RemoveAt(@, j)] = n
        <4>1. [d EXCEPT !.files = m] = Def(d.steps, d.edges, m)
          BY DefParts
        <4>2. RemoveAt(d.files, j) = m
          BY <1>l, <2>m
        <4> QED BY <2>n, <4>1, <4>2
      <3> QED BY <3>1, <3>2, <2>v
    <2>4. /\ IsList(m) /\ Range(m) = Range(l) \ {l[j]}
      BY <1>0, <2>2, <2>m, Removed
    <2>5. n.files = m /\ n.steps = d.steps /\ n.edges = d.edges
      BY <2>n, DefFields
    <2>6. inv.kind = "set_file" /\ inv.path = path /\ inv.digest = l[j][2] /\ inv.digest # Absent
      BY <1>f, <1>p, <2>2, <2>v, FileInverseFields
    <2>7. PathAt(m, path, 0)
      <3>1. ASSUME NEW i \in DOMAIN m PROVE m[i][1] # path
        <4>1. m[i] \in Range(l) /\ m[i] # l[j]
          BY <2>4 DEF Range
        <4>2. PICK k \in DOMAIN l : l[k] = m[i]
          BY <4>1 DEF Range
        <4> QED BY <1>j, <2>1, <2>2, <4>1, <4>2 DEF PathAt
      <3> QED BY <3>1 DEF PathAt
    <2>8. 0 \notin DOMAIN m
      BY <2>4, ListFacts
    <2>x. PICK x : x = <<inv.path, inv.digest>>
      OBVIOUS
    <2>9. \E again : Apply(n, inv) = Edited([n EXCEPT !.files = Append(@, x)], again)
      BY <2>5, <2>6, <2>7, <2>8, <2>x, SetFileMakes
    <2>10. x = l[j]
      BY <1>f, <2>2, <2>6, <2>x
    <2>11. [n EXCEPT !.files = Append(@, x)] = Def(d.steps, d.edges, Append(m, x))
      <3>1. PICK q : q = Append(m, x)
        OBVIOUS
      <3>2. [n EXCEPT !.files = q] = Def(d.steps, d.edges, q)
        <4>1. PICK s, e : s = d.steps /\ e = d.edges
          OBVIOUS
        <4>2. n = Def(s, e, m)
          BY <2>n, <4>1
        <4>3. [n EXCEPT !.files = q] = Def(s, e, q)
          BY <4>2 DEF Def
        <4> QED BY <4>1, <4>3
      <3>3. Append(n.files, x) = q
        BY <2>5, <3>1
      <3> QED BY <3>1, <3>2, <3>3
    <2>12. Range(Append(m, x)) = Range(l)
      <3>1. Range(Append(m, x)) = Range(m) \cup {x}
        BY <2>4, Appended
      <3>2. l[j] \in Range(l)
        BY <2>2 DEF Range
      <3> QED BY <2>4, <2>10, <3>1, <3>2
    <2>13. Content(Def(d.steps, d.edges, Append(m, x))) = Content(d)
      <3>1. PICK q : q = Append(m, x)
        OBVIOUS
      <3>2. Content(Def(d.steps, d.edges, q)) = Content(Def(d.steps, d.edges, l))
        BY <2>12, <3>1, DefFields
      <3> QED BY <1>0, <3>1, <3>2
    <2>14. ChangesFiles(d, n)
      <3>1. \A w \in Range(m) : w \in Range(l)
        BY <2>4
      <3>2. \A w \in Range(l) : w = <<w[1], w[2]>> /\ w[2] # Absent
        BY <1>f DEF Range
      <3> QED BY <2>4, <2>5, <2>n, <3>1, <3>2 DEF ChangesFiles
    <2> QED BY <2>3, <2>9, <2>11, <2>13, UndoneBy, <2>14, NextIs
  <1>3. CASE op.digest # Absent /\ j # 0
    <2>2. j \in DOMAIN l /\ l[j][1] = path
      BY <1>3, <1>j DEF PathAt
    <2>y. PICK y : y = <<path, op.digest>>
      OBVIOUS
    <2>m. PICK m : m = PutAt(l, j, y)
      OBVIOUS
    <2>n. PICK n : n = Def(d.steps, d.edges, m)
      OBVIOUS
    <2>v. PICK inv : inv = FileInverse(op, l[j][2])
      OBVIOUS
    <2>3. Apply(d, op) = Edited(n, inv)
      <3>1. Apply(d, op) = Edited([d EXCEPT !.files = PutAt(@, j, y)], FileInverse(op, l[j][2]))
        BY <1>0, <1>3, <1>j, <1>l, <1>p, <2>y, SetFileMakes
      <3>2. [d EXCEPT !.files = PutAt(@, j, y)] = n
        <4>1. [d EXCEPT !.files = m] = Def(d.steps, d.edges, m)
          BY DefParts
        <4>2. PutAt(d.files, j, y) = m
          BY <1>l, <2>m
        <4> QED BY <2>n, <4>1, <4>2
      <3> QED BY <3>1, <3>2, <2>v
    <2>4. /\ IsList(m) /\ DOMAIN m = DOMAIN l /\ m[j] = y
          /\ \A i \in DOMAIN l : i # j => m[i] = l[i]
          /\ PutAt(m, j, l[j]) = l
      BY <1>0, <2>2, <2>m, Replaced DEF PutAt
    <2>5. n.files = m /\ n.steps = d.steps /\ n.edges = d.edges
      BY <2>n, DefFields
    <2>6. inv.kind = "set_file" /\ inv.path = path /\ inv.digest = l[j][2] /\ inv.digest # Absent
      BY <1>f, <1>p, <2>2, <2>v, FileInverseFields
    <2>7. PathAt(m, path, j)
      <3>1. y[1] = path
        BY <2>y
      <3> QED BY <1>3, <1>j, <2>2, <2>4, <3>1 DEF PathAt
    <2>x. PICK x : x = <<inv.path, inv.digest>>
      OBVIOUS
    <2>a. PathAt(n.files, inv.path, j) /\ 0 \notin DOMAIN n.files
      BY <1>0, <2>4, <2>5, <2>6, <2>7
    <2>8a. Apply(n, inv) = Edited([n EXCEPT !.files = PutAt(@, j, x)], FileInverse(inv, n.files[j][2]))
      BY <1>3, <2>6, <2>a, <2>x, SetFileMakes
    <2>9. PICK again : Apply(n, inv) = Edited([n EXCEPT !.files = PutAt(@, j, x)], again)
      BY <2>8a
    <2>10. x = l[j]
      BY <1>f, <2>2, <2>6, <2>x
    <2>11. [n EXCEPT !.files = PutAt(@, j, x)] = Def(d.steps, d.edges, PutAt(m, j, x))
      <3>1. PICK q : q = PutAt(m, j, x)
        OBVIOUS
      <3>2. [n EXCEPT !.files = q] = Def(d.steps, d.edges, q)
        <4>1. PICK s, e : s = d.steps /\ e = d.edges
          OBVIOUS
        <4>2. n = Def(s, e, m)
          BY <2>n, <4>1
        <4>3. [n EXCEPT !.files = q] = Def(s, e, q)
          BY <4>2 DEF Def
        <4> QED BY <4>1, <4>3
      <3>3. PutAt(n.files, j, x) = q
        BY <2>5, <3>1
      <3> QED BY <3>1, <3>2, <3>3
    <2>12. [n EXCEPT !.files = PutAt(@, j, x)] = d
      BY <1>0, <2>4, <2>10, <2>11
    <2>14. ChangesFiles(d, n)
      <3>1. \A w \in Range(m) : w \in Range(l) \/ w = y
        BY <2>2, <2>4 DEF Range
      <3>2. \A w \in Range(l) : w = <<w[1], w[2]>> /\ w[2] # Absent
        BY <1>f DEF Range
      <3>3. y = <<y[1], y[2]>> /\ y[2] # Absent
        BY <1>3, <2>y
      <3> QED BY <2>4, <2>5, <2>n, <3>1, <3>2, <3>3 DEF ChangesFiles
    <2> QED BY <2>3, <2>9, <2>12, UndoneBy, <2>14, NextIs
  <1>4. CASE op.digest # Absent /\ j = 0
    <2>y. PICK y : y = <<path, op.digest>>
      OBVIOUS
    <2>m. PICK m : m = Append(l, y)
      OBVIOUS
    <2>n. PICK n : n = Def(d.steps, d.edges, m)
      OBVIOUS
    <2>v. PICK inv : inv = FileInverse(op, Absent)
      OBVIOUS
    <2>3. Apply(d, op) = Edited(n, inv)
      <3>1. Apply(d, op) = Edited([d EXCEPT !.files = Append(@, y)], FileInverse(op, Absent))
        BY <1>0, <1>4, <1>j, <1>l, <1>p, <2>y, SetFileMakes
      <3>2. [d EXCEPT !.files = Append(@, y)] = n
        <4>1. [d EXCEPT !.files = m] = Def(d.steps, d.edges, m)
          BY DefParts
        <4>2. Append(d.files, y) = m
          BY <1>l, <2>m
        <4> QED BY <2>n, <4>1, <4>2
      <3> QED BY <3>1, <3>2, <2>v
    <2>k. PICK k : k = Len(l) + 1
      OBVIOUS
    <2>4. /\ IsList(m) /\ DOMAIN m = 1 .. k /\ m[k] = y /\ \A i \in DOMAIN l : m[i] = l[i]
          /\ RemoveAt(m, k) = l
      BY <1>0, <2>m, <2>k, Appended
    <2>5. n.files = m /\ n.steps = d.steps /\ n.edges = d.edges
      BY <2>n, DefFields
    <2>6. inv.kind = "set_file" /\ inv.path = path /\ inv.digest = Absent
      BY <1>p, <2>v, FileInverseFields
    <2>7. PathAt(m, path, k) /\ k # 0 /\ 0 \notin DOMAIN m
      <3>1. y[1] = path
        BY <2>y
      <3>2. k \in DOMAIN m /\ k # 0 /\ 0 \notin DOMAIN m /\ \A i \in DOMAIN m : i \in DOMAIN l \/ i = k
        BY <1>0, <2>k, <2>4
      <3>3. \A i \in DOMAIN l : l[i][1] # path
        BY <1>0, <1>4, <1>j DEF PathAt
      <3> QED BY <2>4, <3>1, <3>2, <3>3 DEF PathAt
    <2>8. ~Reading(n, path)
      <3>1. ASSUME NEW s \in Range(d.steps), path \in s.reads PROVE FALSE
        <4>1. path \in {f[1] : f \in Range(l)}
          BY <1>l, <3>1 DEF WellFormed, FilesAgree
        <4>2. PICK i \in DOMAIN l : l[i][1] = path
          BY <4>1 DEF Range
        <4> QED BY <1>0, <1>4, <1>j, <4>2 DEF PathAt
      <3> QED BY <2>5, <3>1 DEF Reading
    <2>a. PathAt(n.files, inv.path, k) /\ 0 \notin DOMAIN n.files /\ ~Reading(n, inv.path)
      BY <2>5, <2>6, <2>7, <2>8
    <2>8a. Apply(n, inv) = Edited([n EXCEPT !.files = RemoveAt(@, k)], FileInverse(inv, n.files[k][2]))
      BY <2>6, <2>7, <2>a, SetFileMakes
    <2>9. PICK again : Apply(n, inv) = Edited([n EXCEPT !.files = RemoveAt(@, k)], again)
      BY <2>8a
    <2>11. [n EXCEPT !.files = RemoveAt(@, k)] = Def(d.steps, d.edges, RemoveAt(m, k))
      <3>1. PICK q : q = RemoveAt(m, k)
        OBVIOUS
      <3>2. [n EXCEPT !.files = q] = Def(d.steps, d.edges, q)
        <4>1. PICK s, e : s = d.steps /\ e = d.edges
          OBVIOUS
        <4>2. n = Def(s, e, m)
          BY <2>n, <4>1
        <4>3. [n EXCEPT !.files = q] = Def(s, e, q)
          BY <4>2 DEF Def
        <4> QED BY <4>1, <4>3
      <3>3. RemoveAt(n.files, k) = q
        BY <2>5, <3>1
      <3> QED BY <3>1, <3>2, <3>3
    <2>12. [n EXCEPT !.files = RemoveAt(@, k)] = d
      BY <1>0, <2>4, <2>11
    <2>14. ChangesFiles(d, n)
      <3>1. \A w \in Range(m) : w \in Range(l) \/ w = y
        BY <1>0, <2>m, Appended
      <3>2. \A w \in Range(l) : w = <<w[1], w[2]>> /\ w[2] # Absent
        BY <1>f DEF Range
      <3>3. y = <<y[1], y[2]>> /\ y[2] # Absent
        BY <1>4, <2>y
      <3> QED BY <2>4, <2>5, <2>n, <3>1, <3>2, <3>3 DEF ChangesFiles
    <2> QED BY <2>3, <2>9, <2>12, UndoneBy, <2>14, NextIs
  <1> QED BY <1>2, <1>3, <1>4

(* Whatever the operation, the inverse Apply returned brings back every     *)
(* element of a well-formed definition, and it changes what it claims only. *)
LEMMA OperationTaken ==
    ASSUME NEW d, WellFormed(d), NEW op, OpShape(op), Apply(d, op).ok
    PROVE  /\ Undone(d, op)
           /\ op.kind = "add_step" => ChangesStep(d, Apply(d, op).next, op.step.id)
           /\ op.kind \in {"connect", "remove_edge"} => ChangesEdge(d, Apply(d, op).next, op.edge)
           /\ op.kind = "set_file" => ChangesFiles(d, Apply(d, op).next)
           /\ op.kind \notin {"add_step", "connect", "remove_edge", "set_file"} =>
                 ChangesStep(d, Apply(d, op).next, op.id)
  <1>1. CASE op.kind = "add_step"
    <2>1. StepShape(op.step)
      BY <1>1 DEF OpShape, ValueKinds, ListKinds
    <2> QED BY <1>1, <2>1, UndoAddStep
  <1>2. CASE op.kind = "remove_step"
    BY <1>2, UndoRemoveStep
  <1>3. CASE op.kind = "connect"
    BY <1>3, UndoConnect
  <1>4. CASE op.kind = "remove_edge"
    BY <1>4, UndoRemoveEdge
  <1>5. CASE op.kind \in ValueKinds
    <2>1. op = ValueOp(op)
      BY <1>5 DEF OpShape, ValueOp, ValueKinds, ListKinds
    <2> QED BY <1>5, <2>1, UndoSetProperty, UndoRename, UndoSetStepConfig DEF ValueKinds
  <1>6. CASE op.kind \in ListKinds
    <2>1. op = ListOp(op) /\ op.remove \in BOOLEAN /\ op.index \in Nat
      BY <1>6 DEF OpShape, ListOp, ValueKinds, ListKinds
    <2>2. Undone(d, op) /\ ChangesStep(d, Apply(d, op).next, op.id)
      BY <1>6, <2>1, UndoSetList
    <2> QED BY <1>6, <2>2 DEF ListKinds
  <1>7. CASE op.kind = "set_file"
    <2>1. op = FileOp(op)
      BY <1>7 DEF OpShape, FileOp, ValueKinds, ListKinds
    <2> QED BY <1>7, <2>1, UndoSetFile
  <1> QED BY <1>1, <1>2, <1>3, <1>4, <1>5, <1>6, <1>7 DEF OpShape

(* A definition an operation made is well formed once its files agree.      *)
LEMMA OperationKeepsShape ==
    ASSUME NEW d, WellFormed(d), NEW op, OpShape(op), Apply(d, op).ok,
           NEW n, n = Apply(d, op).next, FilesAgree(n)
    PROVE  WellFormed(n)
  <1>s. PICK a, b, c : a = d.steps /\ b = d.edges /\ c = d.files
    OBVIOUS
  <1>0. /\ IsList(a) /\ IsList(b) /\ IsList(c) /\ \A s \in Range(a) : StepShape(s)
        /\ StepsNamed(d) /\ OnceEach(b)
        /\ \A e \in Range(b) : e[1] \in StepIds(d) /\ e[2] \in StepIds(d)
        /\ \A f \in Range(c) : f = <<f[1], f[2]>> /\ f[2] # Absent
    BY <1>s DEF WellFormed, StepsNamed, OnceEach
  <1>1. ASSUME NEW id, ChangesStep(d, n, id) PROVE WellFormed(n)
    <2>1. n = Def(n.steps, n.edges, n.files) /\ n.edges = b /\ n.files = c
      BY <1>1, <1>s, DefFields DEF ChangesStep
    <2> QED BY <1>0, <1>1, <1>s, <2>1 DEF ChangesStep, WellFormed, StepsNamed, OnceEach, Def
  <1>2. ASSUME NEW edge, ChangesEdge(d, n, edge) PROVE WellFormed(n)
    <2>1. n = Def(n.steps, n.edges, n.files) /\ n.steps = a /\ n.files = c
      BY <1>2, <1>s, DefFields DEF ChangesEdge
    <2>2. StepIds(n) = StepIds(d)
      BY <1>s, <2>1 DEF StepIds
    <2> QED BY <1>0, <1>2, <1>s, <2>1, <2>2 DEF ChangesEdge, WellFormed, StepsNamed, OnceEach, Def
  <1>3. ASSUME ChangesFiles(d, n) PROVE WellFormed(n)
    <2>1. n = Def(n.steps, n.edges, n.files) /\ n.steps = a /\ n.edges = b
      BY <1>3, <1>s, DefFields DEF ChangesFiles
    <2>2. StepIds(n) = StepIds(d)
      BY <1>s, <2>1 DEF StepIds
    <2> QED BY <1>0, <1>3, <1>s, <2>1, <2>2 DEF ChangesFiles, WellFormed, StepsNamed, OnceEach, Def
  <1> QED BY <1>1, <1>2, <1>3, OperationTaken

-----------------------------------------------------------------------------
(* Rebasing.                                                                *)

(* A step, or an edge, no edit in between changed is the same in both.      *)
LEMMA SameStep ==
    ASSUME NEW d, WellFormed(d), NEW n, WellFormed(n), NEW id,
           <<"step", id>> \notin ChangedBetween(d, n)
    PROVE  Element(d, <<"step", id>>) = Element(n, <<"step", id>>)
  <1>1. StepsNamed(d) /\ StepsNamed(n)
    BY DefParts
  <1>2. id \in StepIds(d) <=> id \in StepIds(n)
    BY DEF ChangedBetween
  <1>3. CASE id \notin StepIds(d)
    BY <1>2, <1>3 DEF Element, StepIds
  <1>4. CASE id \in StepIds(d)
    <2>1. StepOf(d, id) = StepOf(n, id)
      BY <1>2, <1>4 DEF ChangedBetween
    <2>2. ASSUME NEW x, StepsNamed(x), id \in StepIds(x)
          PROVE  Element(x, <<"step", id>>) = {StepOf(x, id)}
      <3>1. /\ FindStep(x, id) \in DOMAIN x.steps /\ x.steps[FindStep(x, id)].id = id
            /\ \A i \in DOMAIN x.steps : x.steps[i].id = id => FindStep(x, id) = i
        BY <2>2, FindStepFacts
      <3> QED BY <3>1 DEF Element, StepOf, Range
    <2> QED BY <1>1, <1>2, <1>4, <2>1, <2>2
  <1> QED BY <1>3, <1>4

(* An edge that is not changed between two definitions is the same.         *)
LEMMA SameEdge ==
    ASSUME NEW d, NEW n, NEW e, <<"edge", e>> \notin ChangedBetween(d, n)
    PROVE  Element(d, <<"edge", e>>) = Element(n, <<"edge", e>>)
  <1>1. e \in Range(d.edges) <=> e \in Range(n.edges)
    BY DEF ChangedBetween
  <1> QED BY <1>1 DEF Element

(* What differs after an operation is the one step or the one edge.         *)
LEMMA StepDiffers ==
    ASSUME NEW d, NEW n, NEW id, ChangesStep(d, n, id), NEW k \in Differ(d, n)
    PROVE  k = <<"step", id>>
  <1>1. n.edges = d.edges /\ n.files = d.files
    BY DefFields DEF ChangesStep
  <1>2. PICK a, b : a = Range(d.steps) /\ b = Range(n.steps)
    OBVIOUS
  <1>3. \A s : s.id # id => (s \in b <=> s \in a)
    BY <1>2 DEF ChangesStep
  <1>4. Element(d, k) # Element(n, k) /\ k \in Elements(d) \cup Elements(n)
    BY DEF Differ
  <1>5. k[1] # "edge" /\ k[1] # "file"
    BY <1>1, <1>4 DEF Element
  <1>6. PICK x : k = <<"step", x>>
    BY <1>4, <1>5 DEF Elements
  <1>7. {s \in a : s.id = x} # {s \in b : s.id = x}
    BY <1>2, <1>4, <1>6 DEF Element
  <1> QED BY <1>3, <1>6, <1>7

(* Of an operation on an edge, only the edge differs.                       *)
LEMMA EdgeDiffers ==
    ASSUME NEW d, NEW n, NEW edge, ChangesEdge(d, n, edge), NEW k \in Differ(d, n)
    PROVE  k = <<"edge", edge>>
  <1>1. n.steps = d.steps /\ n.files = d.files
    BY DefFields DEF ChangesEdge
  <1>2. PICK a, b : a = Range(d.edges) /\ b = Range(n.edges)
    OBVIOUS
  <1>3. \A e : e # edge => (e \in b <=> e \in a)
    BY <1>2 DEF ChangesEdge
  <1>4. Element(d, k) # Element(n, k) /\ k \in Elements(d) \cup Elements(n)
    BY DEF Differ
  <1>5. k[1] # "step" /\ k[1] # "file"
    BY <1>1, <1>4 DEF Element
  <1>6. PICK x : k = <<"edge", x>>
    BY <1>4, <1>5 DEF Elements
  <1>7. {e \in a : e = x} # {e \in b : e = x}
    BY <1>2, <1>4, <1>6 DEF Element
  <1> QED BY <1>3, <1>6, <1>7

(* An edit rebased onto a revision it is disjoint from changes elements     *)
(* that are the same in its author's base.                                  *)
LEMMA MergeIsSeen ==
    ASSUME NEW base, WellFormed(base), NEW onto, WellFormed(onto), NEW op, OpShape(op),
           Apply(onto, op).ok, NEW n, n = Apply(onto, op).next, Disjoint(base, onto, op),
           NEW k \in Differ(onto, n)
    PROVE  Element(base, k) = Element(onto, k)
  <1>0. \A x \in TouchedBy(op) : x \notin ChangedBetween(base, onto)
    BY DEF Disjoint
  <1>1. CASE op.kind = "add_step"
    <2>1. ChangesStep(onto, n, op.step.id)
      BY <1>1, OperationTaken
    <2>2. <<"step", op.step.id>> \in TouchedBy(op)
      BY <1>1 DEF TouchedBy
    <2> QED BY <1>0, <2>1, <2>2, StepDiffers, SameStep
  <1>2. CASE op.kind \in {"connect", "remove_edge"}
    <2>1. ChangesEdge(onto, n, op.edge)
      BY <1>2, OperationTaken
    <2>2. <<"edge", op.edge>> \in TouchedBy(op)
      BY <1>2 DEF TouchedBy
    <2> QED BY <1>0, <2>1, <2>2, EdgeDiffers, SameEdge
  <1>3. CASE op.kind = "set_file"
    <2>1. <<"pipeline">> \in TouchedBy(op)
      BY <1>3 DEF TouchedBy
    <2>2. <<"pipeline">> \in ChangedBetween(base, onto)
      BY DEF ChangedBetween
    <2> QED BY <1>0, <2>1, <2>2
  <1>4. CASE op.kind \notin {"add_step", "connect", "remove_edge", "set_file"}
    <2>1. ChangesStep(onto, n, op.id)
      BY <1>4, OperationTaken
    <2>2. <<"step", op.id>> \in TouchedBy(op)
      BY <1>4 DEF TouchedBy
    <2> QED BY <1>0, <2>1, <2>2, StepDiffers, SameStep
  <1> QED BY <1>1, <1>2, <1>3, <1>4

-----------------------------------------------------------------------------
(* The inductive invariant.                                                 *)

(* What an edit under way carries, and what the log remembers of it: a      *)
(* creation, or an operation applied to the base or to a head it is         *)
(* disjoint from.                                                           *)
EntryGood(e) ==
    \/ e.op = NoOp /\ e.base = NoDef /\ e.onto = NoDef /\ WellFormed(e.next)
    \/ /\ e.op \in Ops /\ WellFormed(e.base) /\ WellFormed(e.onto) /\ WellFormed(e.next)
       /\ Apply(e.onto, e.op).ok /\ e.next = Apply(e.onto, e.op).next
       /\ e.onto = e.base \/ Disjoint(e.base, e.onto, e.op)

EditShape(e) ==
    e = [stage |-> e.stage, op |-> e.op, base |-> e.base, from |-> e.from, onto |-> e.onto,
         next |-> e.next, lock |-> e.lock]

(* A row of the revisions table: once past draft, somebody else approved.   *)
RowGood(row) ==
    /\ row = [state |-> row.state, author |-> row.author, approver |-> row.approver,
              lock |-> row.lock]
    /\ row.state \in {"draft", "reviewed", "active"}
    /\ row.author \in Principals \cup {System} /\ row.approver \in Principals \cup {None}
    /\ row.lock \in Digests
    /\ row.state # "draft" => row.approver \notin {None, row.author}

RowsGood == \A d \in Saved : WellFormed(d) /\ RowGood(revs[d])

GoodEdit(e, saved) ==
    \/ e = Idle
    \/ /\ EditShape(e) /\ EntryGood(e) /\ e.from \in {NoDef, e.onto}
       /\ e.stage \in {"resolve", "save", "move"}
       /\ e.stage = "save" => e.lock \in Digests
       /\ e.stage = "move" => e.next \in saved

EditsGood == edit = [p \in Principals |-> edit[p]] /\ \A p \in Principals : GoodEdit(edit[p], Saved)

(* An approval under way is by somebody other than the author.              *)
GoodApproval(a, p, rows) ==
    \/ a = Idle
    \/ /\ a = [stage |-> a.stage, rev |-> a.rev, rows |-> a.rows, behind |-> a.behind]
       /\ a.stage \in {"demote", "promote"}
       /\ a.rev \in DOMAIN rows /\ rows[a.rev].author # p

ApprovalsGood ==
    /\ approval = [p \in Principals |-> approval[p]]
    /\ \A p \in Principals : GoodApproval(approval[p], p, revs)

(* The log is a chain that ends in the head.                                *)
LogGood ==
    /\ IsList(log) /\ \A e \in Range(log) : EntryGood(e)
    /\ log = <<>> <=> head = NoDef
    /\ head \in Saved \cup {NoDef}
    /\ NoEditLost

(* A run, and one about to start, has a revision that was reviewed.         *)
RunsGood ==
    /\ starting = [p \in Principals |-> starting[p]]
    /\ runs \subseteq Saved /\ \A d \in runs : revs[d].state # "draft"
    /\ \A p \in Principals :
          starting[p] # NoDef => starting[p] \in Saved /\ revs[starting[p]].state # "draft"

CountersGood ==
    /\ tag \in Digests /\ edits \in 0 .. MaxEdits /\ approvals \in 0 .. MaxApprovals
    /\ faults \in 0 .. MaxFaults

IInv == RowsGood /\ EditsGood /\ ApprovalsGood /\ LogGood /\ RunsGood /\ CountersGood

LEMMA NoDefIsNone ==
    /\ ~WellFormed(NoDef)
    /\ Idle.stage = "idle"
  <1>1. ASSUME WellFormed(NoDef) PROVE FALSE
    <2>1. PICK a, b, c : NoDef = [steps |-> a, edges |-> b, files |-> c]
      BY <1>1 DEF WellFormed
    <2>2. "steps" \in DOMAIN NoDef
      BY <2>1
    <2>3. "steps" \notin DOMAIN NoDef
      BY DEF NoDef
    <2> QED BY <2>2, <2>3
  <1> QED BY <1>1 DEF Idle

LEMMA InitIInv == Init => IInv
  <1> SUFFICES ASSUME Init PROVE IInv
    OBVIOUS
  <1>1. RowsGood
    <2>1. CASE revs = <<>>
      <3>1. Saved = {}
        BY <2>1 DEF Saved
      <3> QED BY <3>1 DEF RowsGood
    <2>2. CASE revs = [d \in {Seed} |-> [state |-> "draft", author |-> System, approver |-> None,
                                         lock |-> tag]]
      <3>1. Saved = {Seed} /\ revs[Seed] = [state |-> "draft", author |-> System, approver |-> None,
                                            lock |-> tag]
        BY <2>2 DEF Saved
      <3>2. WellFormed(Seed)
        BY DefinitionsAssumption
      <3>3. RowGood(revs[Seed])
        BY <3>1 DEF RowGood, Init
      <3> QED BY <3>1, <3>2, <3>3 DEF RowsGood
    <2> QED BY <2>1, <2>2 DEF Init
  <1>2. EditsGood /\ ApprovalsGood
    BY DEF Init, EditsGood, ApprovalsGood, GoodEdit, GoodApproval
  <1>3. LogGood
    <2>1. log = <<>> /\ head = NoDef
      BY DEF Init
    <2>2. IsList(<<>>) /\ Range(<<>>) = {} /\ Len(<<>>) = 0
      BY DEF IsList, Range
    <2>3. NoEditLost
      <3>1. \A i \in 2 .. Len(log) : FALSE
        BY <2>1, <2>2
      <3> QED BY <2>1, <3>1 DEF NoEditLost
    <2> QED BY <2>1, <2>2, <2>3 DEF LogGood
  <1>4. RunsGood /\ CountersGood
    BY DefinitionsAssumption DEF Init, RunsGood, CountersGood
  <1> QED BY <1>1, <1>2, <1>3, <1>4 DEF IInv

(* What one step of an edit leaves of the others.                           *)
LEMMA EditSet ==
    ASSUME EditsGood, NEW p \in Principals, NEW e, edit' = [edit EXCEPT ![p] = e],
           GoodEdit(e, Saved'), Saved \subseteq Saved'
    PROVE  EditsGood'
  <1>1. \A q \in Principals : edit'[q] = IF q = p THEN e ELSE edit[q]
    BY DEF EditsGood
  <1>2. edit' = [q \in Principals |-> edit'[q]]
    BY DEF EditsGood
  <1>3. \A q \in Principals : GoodEdit(edit[q], Saved')
    BY DEF EditsGood, GoodEdit
  <1> QED BY <1>1, <1>2, <1>3 DEF EditsGood

LEMMA EditsKept ==
    ASSUME EditsGood, edit' = edit, Saved \subseteq Saved'
    PROVE  EditsGood'
  BY DEF EditsGood, GoodEdit

LEMMA ApprovalSet ==
    ASSUME ApprovalsGood, NEW p \in Principals, NEW a, approval' = [approval EXCEPT ![p] = a],
           GoodApproval(a, p, revs'), revs' = revs
    PROVE  ApprovalsGood'
  <1>1. \A q \in Principals : approval'[q] = IF q = p THEN a ELSE approval[q]
    BY DEF ApprovalsGood
  <1>2. approval' = [q \in Principals |-> approval'[q]]
    BY DEF ApprovalsGood
  <1> QED BY <1>1, <1>2 DEF ApprovalsGood

(* The rows after a step: the ones that were there keep their author, and   *)
(* do not go back to draft.                                                 *)
RowsGrow ==
    /\ Saved \subseteq Saved'
    /\ \A d \in Saved : /\ revs'[d].author = revs[d].author
                        /\ revs[d].state # "draft" => revs'[d].state # "draft"

(* While rows are only added or approved, the rest stands.                  *)
LEMMA GrowKeeps ==
    ASSUME IInv, RowsGrow
    PROVE  /\ approval' = approval => ApprovalsGood'
           /\ runs' = runs /\ starting' = starting => RunsGood'
           /\ log' = log /\ head' = head => LogGood'
           /\ edit' = edit => EditsGood'
  <1>0. EditsGood /\ ApprovalsGood /\ LogGood /\ RunsGood
    BY DEF IInv
  <1>1. ASSUME approval' = approval PROVE ApprovalsGood'
    <2>1. \A p \in Principals : GoodApproval(approval[p], p, revs')
      BY <1>0 DEF ApprovalsGood, GoodApproval, RowsGrow, Saved
    <2> QED BY <1>0, <1>1, <2>1 DEF ApprovalsGood
  <1>2. ASSUME runs' = runs, starting' = starting PROVE RunsGood'
    BY <1>0, <1>2 DEF RunsGood, RowsGrow
  <1>3. ASSUME log' = log, head' = head PROVE LogGood'
    BY <1>0, <1>3 DEF LogGood, RowsGrow, NoEditLost
  <1>4. ASSUME edit' = edit PROVE EditsGood'
    BY <1>0, <1>4, EditsKept DEF RowsGrow
  <1> QED BY <1>1, <1>2, <1>3, <1>4

(* Rows that do not change are a case of it.                                *)
LEMMA RowsStay ==
    ASSUME IInv, revs' = revs
    PROVE  RowsGrow /\ RowsGood' /\ Saved' = Saved
  BY DEF IInv, RowsGood, RowsGrow, Saved

LEMMA StepCreatePipeline ==
    ASSUME IInv, NEW p \in Principals, CreatePipeline(p)
    PROVE  IInv'
  <1>1. RowsGrow /\ RowsGood' /\ Saved' = Saved
    BY RowsStay DEF CreatePipeline
  <1>e. PICK e : e = [stage |-> "resolve", op |-> NoOp, base |-> NoDef, from |-> NoDef,
                      onto |-> NoDef, next |-> Seed, lock |-> None]
    OBVIOUS
  <1>2. GoodEdit(e, Saved')
    <2>1. WellFormed(Seed)
      BY DefinitionsAssumption
    <2> QED BY <1>e, <2>1 DEF GoodEdit, EditShape, EntryGood
  <1>3. EditsGood'
    <2>1. edit' = [edit EXCEPT ![p] = e]
      BY <1>e DEF CreatePipeline
    <2> QED BY <1>1, <1>2, <2>1, EditSet DEF IInv
  <1>4. ApprovalsGood' /\ RunsGood' /\ LogGood'
    BY <1>1, GrowKeeps DEF CreatePipeline
  <1>5. CountersGood'
    BY DefinitionsAssumption DEF IInv, CountersGood, CreatePipeline
  <1> QED BY <1>1, <1>3, <1>4, <1>5 DEF IInv

LEMMA StepApplyOperation ==
    ASSUME IInv, NEW p \in Principals, NEW base \in Saved, NEW op \in Ops,
           ApplyOperation(p, base, op)
    PROVE  IInv'
  <1>1. RowsGrow /\ RowsGood' /\ Saved' = Saved
    BY RowsStay DEF ApplyOperation
  <1>o. PICK onto : onto = ApplyTo(base, op)
    OBVIOUS
  <1>n. PICK n : n = Apply(onto, op).next
    OBVIOUS
  <1>f. PICK from : from = IF KnownHead THEN onto ELSE NoDef
    OBVIOUS
  <1>e. PICK e : e = [stage |-> "resolve", op |-> op, base |-> base, from |-> from,
                      onto |-> onto, next |-> n, lock |-> None]
    OBVIOUS
  <1>2. /\ onto # NoDef /\ Apply(onto, op).ok /\ FilesAgree(n)
        /\ edit' = [edit EXCEPT ![p] = e]
    BY <1>o, <1>n, <1>f, <1>e DEF ApplyOperation, CheckDefinitionFiles
  <1>3. OpShape(op)
    BY DefinitionsAssumption
  <1>4. WellFormed(base) /\ WellFormed(onto) /\ (onto = base \/ Disjoint(base, onto, op))
    <2>1. \A d \in Saved : WellFormed(d)
      BY DEF IInv, RowsGood
    <2>2. head \in Saved \cup {NoDef}
      BY DEF IInv, LogGood
    <2>3. onto = base \/ (onto = head /\ Disjoint(base, head, op))
      BY <1>o, <1>2 DEF ApplyTo
    <2> QED BY <1>2, <2>1, <2>2, <2>3
  <1>5. WellFormed(n)
    BY <1>2, <1>3, <1>4, <1>n, OperationKeepsShape
  <1>6. GoodEdit(e, Saved')
    <2>1. /\ e.stage = "resolve" /\ e.op = op /\ e.base = base /\ e.from = from
          /\ e.onto = onto /\ e.next = n /\ EditShape(e)
      BY <1>e DEF EditShape
    <2>2. EntryGood(e)
      BY <1>2, <1>4, <1>5, <1>n, <2>1 DEF EntryGood
    <2> QED BY <1>f, <2>1, <2>2 DEF GoodEdit
  <1>7. EditsGood'
    BY <1>1, <1>2, <1>6, EditSet DEF IInv
  <1>8. ApprovalsGood' /\ RunsGood' /\ LogGood'
    BY <1>1, GrowKeeps DEF ApplyOperation
  <1>9. CountersGood'
    BY DefinitionsAssumption DEF IInv, CountersGood, ApplyOperation
  <1> QED BY <1>1, <1>7, <1>8, <1>9 DEF IInv

(* An edit at its next stage.                                               *)
Staged(e, stage, lock) == [e EXCEPT !.stage = stage, !.lock = lock]

LEMMA StagedIs ==
    ASSUME NEW e, EditShape(e), NEW stage, NEW lock, NEW x, x = Staged(e, stage, lock)
    PROVE  /\ EditShape(x) /\ x.stage = stage /\ x.lock = lock /\ x.op = e.op
           /\ x.base = e.base /\ x.from = e.from /\ x.onto = e.onto /\ x.next = e.next
  <1>1. PICK a, b, c, d, f, g, h :
            e = [stage |-> a, op |-> b, base |-> c, from |-> d, onto |-> f, next |-> g, lock |-> h]
    BY DEF EditShape
  <1>2. PICK y : y = [e EXCEPT !.stage = stage]
    OBVIOUS
  <1>3. y = [stage |-> stage, op |-> b, base |-> c, from |-> d, onto |-> f, next |-> g, lock |-> h]
    BY <1>1, <1>2
  <1>4. x = [y EXCEPT !.lock = lock]
    BY <1>2 DEF Staged
  <1>5. x = [stage |-> stage, op |-> b, base |-> c, from |-> d, onto |-> f, next |-> g,
             lock |-> lock]
    BY <1>3, <1>4
  <1>6. e.op = b /\ e.base = c /\ e.from = d /\ e.onto = f /\ e.next = g
    BY <1>1
  <1>7. EditShape(x)
    BY <1>5 DEF EditShape
  <1> QED BY <1>5, <1>6, <1>7

LEMMA StagedOnly ==
    ASSUME NEW e, EditShape(e), NEW stage
    PROVE  [e EXCEPT !.stage = stage] = Staged(e, stage, e.lock)
  <1>1. PICK a, b, c, d, f, g, h :
            e = [stage |-> a, op |-> b, base |-> c, from |-> d, onto |-> f, next |-> g, lock |-> h]
    BY DEF EditShape
  <1>2. PICK y : y = [e EXCEPT !.stage = stage]
    OBVIOUS
  <1>3. y = [stage |-> stage, op |-> b, base |-> c, from |-> d, onto |-> f, next |-> g, lock |-> h]
    BY <1>1, <1>2
  <1>4. [y EXCEPT !.lock = h] = y
    BY <1>3
  <1>5. Staged(e, stage, h) = [y EXCEPT !.lock = h] /\ e.lock = h
    BY <1>1, <1>2 DEF Staged
  <1> QED BY <1>2, <1>4, <1>5

LEMMA StepResolveLockfile ==
    ASSUME IInv, NEW p \in Principals, ResolveLockfile(p)
    PROVE  IInv'
  <1>1. RowsGrow /\ RowsGood' /\ Saved' = Saved
    BY RowsStay DEF ResolveLockfile
  <1>e. PICK e : e = edit[p]
    OBVIOUS
  <1>x. PICK x : x = Staged(e, "save", tag)
    OBVIOUS
  <1>2. /\ EditShape(e) /\ EntryGood(e) /\ e.from \in {NoDef, e.onto} /\ tag \in Digests
    <2>1. GoodEdit(e, Saved) /\ e.stage = "resolve" /\ tag \in Digests
      BY <1>e DEF IInv, EditsGood, CountersGood, ResolveLockfile
    <2> QED BY <2>1, NoDefIsNone DEF GoodEdit
  <1>3. /\ EditShape(x) /\ x.stage = "save" /\ x.lock = tag /\ x.op = e.op /\ x.base = e.base
        /\ x.from = e.from /\ x.onto = e.onto /\ x.next = e.next
    BY <1>2, <1>x, StagedIs
  <1>4. EntryGood(x)
    BY <1>2, <1>3 DEF EntryGood
  <1>5. GoodEdit(x, Saved')
    BY <1>2, <1>3, <1>4 DEF GoodEdit
  <1>6. edit' = [edit EXCEPT ![p] = x]
    BY <1>e, <1>x DEF ResolveLockfile, Staged, IInv, EditsGood
  <1>7. EditsGood'
    BY <1>1, <1>5, <1>6, EditSet DEF IInv
  <1>8. ApprovalsGood' /\ RunsGood' /\ LogGood'
    BY <1>1, GrowKeeps DEF ResolveLockfile
  <1>9. CountersGood'
    BY DEF IInv, CountersGood, ResolveLockfile
  <1> QED BY <1>1, <1>7, <1>8, <1>9 DEF IInv

LEMMA StepSave ==
    ASSUME IInv, NEW p \in Principals, Save(p)
    PROVE  IInv'
  <1>e. PICK e : e = edit[p]
    OBVIOUS
  <1>x. PICK x : x = Staged(e, "move", e.lock)
    OBVIOUS
  <1>r. PICK row : row = [state |-> "draft", author |-> p, approver |-> None, lock |-> e.lock]
    OBVIOUS
  <1>2. EditShape(e) /\ EntryGood(e) /\ e.from \in {NoDef, e.onto} /\ e.lock \in Digests
    <2>1. GoodEdit(e, Saved) /\ e.stage = "save"
      BY <1>e DEF IInv, EditsGood, Save
    <2> QED BY <2>1, NoDefIsNone DEF GoodEdit
  <1>1. /\ Saved' = Saved \cup {e.next}
        /\ \A d \in Saved' : revs'[d] = IF d \in Saved THEN revs[d] ELSE row
    BY <1>e, <1>r DEF Save, SavedAs, Saved
  <1>3. RowsGrow
    BY <1>1 DEF RowsGrow
  <1>4. RowGood(row)
    BY <1>2, <1>r DEF RowGood
  <1>5. WellFormed(e.next)
    BY <1>2 DEF EntryGood
  <1>6. RowsGood'
    <2>1. \A d \in Saved' : WellFormed(d) /\ RowGood(revs'[d])
      BY <1>1, <1>4, <1>5 DEF IInv, RowsGood
    <2> QED BY <2>1 DEF RowsGood
  <1>7. /\ EditShape(x) /\ x.stage = "move" /\ x.op = e.op /\ x.base = e.base
        /\ x.from = e.from /\ x.onto = e.onto /\ x.next = e.next
    BY <1>2, <1>x, StagedIs
  <1>8. EntryGood(x)
    BY <1>2, <1>7 DEF EntryGood
  <1>9. GoodEdit(x, Saved')
    BY <1>1, <1>2, <1>7, <1>8 DEF GoodEdit
  <1>10. edit' = [edit EXCEPT ![p] = x]
    <2>1. [e EXCEPT !.stage = "move"] = x
      BY <1>2, <1>x, StagedOnly
    <2> QED BY <1>e, <2>1 DEF Save
  <1>11. EditsGood'
    BY <1>1, <1>9, <1>10, EditSet DEF IInv
  <1>12. ApprovalsGood' /\ RunsGood' /\ LogGood'
    BY <1>3, GrowKeeps DEF Save
  <1>13. CountersGood'
    BY DEF IInv, CountersGood, Save
  <1> QED BY <1>6, <1>11, <1>12, <1>13 DEF IInv

LEMMA StepMoveHead ==
    ASSUME IInv, NEW p \in Principals, MoveHead(p)
    PROVE  IInv'
  <1>1. RowsGrow /\ RowsGood' /\ Saved' = Saved
    BY RowsStay DEF MoveHead
  <1>e. PICK e : e = edit[p]
    OBVIOUS
  <1>2. EntryGood(e) /\ e.from \in {NoDef, e.onto} /\ e.next \in Saved
    <2>1. GoodEdit(e, Saved) /\ e.stage = "move"
      BY <1>e DEF IInv, EditsGood, MoveHead
    <2> QED BY <2>1, NoDefIsNone DEF GoodEdit
  <1>3. EditsGood'
    <2>1. GoodEdit(Idle, Saved')
      BY DEF GoodEdit
    <2> QED BY <1>1, <2>1, EditSet DEF IInv, MoveHead
  <1>4. ApprovalsGood' /\ RunsGood'
    BY <1>1, GrowKeeps DEF MoveHead
  <1>5. CountersGood'
    BY DEF IInv, CountersGood, MoveHead
  <1>6. LogGood'
    <2>1. CASE ~HeadIsStill(e.from)
      BY <1>1, <1>e, <2>1, GrowKeeps DEF MoveHead
    <2>2. CASE HeadIsStill(e.from)
      <3>x. PICK x : x = [op |-> e.op, base |-> e.base, onto |-> e.onto, next |-> e.next]
        OBVIOUS
      <3>0. /\ x.op = e.op /\ x.base = e.base /\ x.onto = e.onto /\ x.next = e.next
        BY <3>x
      <3>1. head = e.from /\ head' = e.next /\ log' = Append(log, x)
        BY <1>e, <2>2, <3>x DEF MoveHead, HeadIsStill
      <3>2. EntryGood(x)
        BY <1>2, <3>0 DEF EntryGood
      <3>n. PICK n : n = Len(log)
        OBVIOUS
      <3>3. /\ IsList(log) /\ \A y \in Range(log) : EntryGood(y)
            /\ log = <<>> <=> head = NoDef
            /\ \A i \in 2 .. n : log[i].onto = log[i - 1].next
            /\ log # <<>> => head = log[n].next
            /\ n \in Nat /\ DOMAIN log = 1 .. n
        BY <3>n, ListFacts DEF IInv, LogGood, NoEditLost
      <3>4. /\ IsList(log') /\ DOMAIN log' = 1 .. n + 1 /\ Len(log') = n + 1
            /\ log'[n + 1] = x /\ \A i \in 1 .. n : log'[i] = log[i]
            /\ Range(log') = Range(log) \cup {x}
        BY <3>1, <3>3, <3>n, Appended
      <3>5. log' # <<>> /\ head' # NoDef
        <4>1. e.next # NoDef
          BY <1>2, NoDefIsNone DEF EntryGood
        <4>2. Len(<<>>) = 0
          OBVIOUS
        <4> QED BY <3>1, <3>3, <3>4, <4>1, <4>2
      <3>6. n = 0 <=> log = <<>>
        BY <3>3, <3>n, EmptySeq
      <3>7. ASSUME NEW i \in 2 .. n + 1 PROVE log'[i].onto = log'[i - 1].next
        <4>1. CASE i \in 2 .. n
          <5>1. i \in 1 .. n /\ i - 1 \in 1 .. n
            BY <3>3, <4>1
          <5> QED BY <3>3, <3>4, <4>1, <5>1
        <4>2. CASE i = n + 1
          <5>1. n \in 1 .. n /\ i - 1 = n /\ n # 0
            BY <3>3, <4>2
          <5>2. log # <<>> /\ head # NoDef /\ head = log[n].next
            BY <3>3, <3>6, <5>1
          <5>3. e.onto = head
            BY <1>2, <3>1, <5>2
          <5> QED BY <3>0, <3>4, <4>2, <5>1, <5>2, <5>3
        <4> QED BY <3>3, <4>1, <4>2
      <3>8. NoEditLost'
        BY <3>0, <3>1, <3>4, <3>7 DEF NoEditLost
      <3> QED BY <1>1, <1>2, <3>1, <3>2, <3>3, <3>4, <3>5, <3>8 DEF LogGood
    <2> QED BY <2>1, <2>2
  <1> QED BY <1>1, <1>3, <1>4, <1>5, <1>6 DEF IInv

(* The approvals that are left when one of them ends.                       *)
LEMMA EndedKeeps ==
    ASSUME ApprovalsGood, NEW p \in Principals, approval' = Ended(p),
           \A d \in Saved : d \in Saved' /\ revs'[d].author = revs[d].author
    PROVE  ApprovalsGood'
  <1>1. approval' = [o \in Principals |-> approval'[o]]
    BY DEF Ended
  <1>2. ASSUME NEW o \in Principals PROVE GoodApproval(approval'[o], o, revs')
    <2>a. PICK a : a = approval[o]
      OBVIOUS
    <2>0. GoodApproval(a, o, revs)
      BY <2>a DEF ApprovalsGood
    <2>1. CASE o = p \/ a = Idle
      <3>1. approval'[o] = Idle
        BY <2>1, <2>a, NoDefIsNone DEF Ended
      <3> QED BY <3>1 DEF GoodApproval
    <2>2. CASE o # p /\ a # Idle
      <3>1. PICK x, y, z, w : a = [stage |-> x, rev |-> y, rows |-> z, behind |-> w]
        BY <2>0, <2>2 DEF GoodApproval
      <3>2. x \in {"demote", "promote"} /\ y \in Saved /\ revs[y].author # o
        BY <2>0, <2>2, <3>1 DEF GoodApproval, Saved
      <3>3. PICK v : approval'[o] = [stage |-> x, rev |-> y, rows |-> z, behind |-> v]
        <4>1. CASE a.stage = "promote"
          <5>1. approval'[o] = [a EXCEPT !.behind = @ \ {p}]
            BY <2>2, <2>a, <4>1 DEF Ended
          <5>2. [a EXCEPT !.behind = @ \ {p}] = [stage |-> x, rev |-> y, rows |-> z, behind |-> w \ {p}]
            BY <3>1
          <5> QED BY <5>1, <5>2
        <4>2. CASE a.stage # "promote"
          <5>1. approval'[o] = a
            BY <2>2, <2>a, <4>2 DEF Ended
          <5> QED BY <3>1, <5>1
        <4> QED BY <4>1, <4>2
      <3>4. y \in Saved' /\ revs'[y].author # o
        BY <3>2
      <3> QED BY <3>2, <3>3, <3>4 DEF GoodApproval, Saved
    <2> QED BY <2>1, <2>2
  <1> QED BY <1>1, <1>2 DEF ApprovalsGood

LEMMA StepAbandon ==
    ASSUME IInv, NEW p \in Principals, Abandon(p)
    PROVE  IInv'
  <1>1. RowsGrow /\ RowsGood' /\ Saved' = Saved /\ revs' = revs
    BY RowsStay DEF Abandon
  <1>2. EditsGood'
    <2>1. GoodEdit(Idle, Saved')
      BY DEF GoodEdit
    <2> QED BY <1>1, <2>1, EditSet DEF IInv, Abandon
  <1>3. ApprovalsGood'
    BY <1>1, EndedKeeps DEF IInv, Abandon
  <1>4. RunsGood' /\ LogGood'
    BY <1>1, GrowKeeps DEF Abandon
  <1>5. CountersGood'
    BY DefinitionsAssumption DEF IInv, CountersGood, Abandon
  <1> QED BY <1>1, <1>2, <1>3, <1>4, <1>5 DEF IInv

LEMMA StepRetag ==
    ASSUME IInv, NEW v \in Digests, Retag(v)
    PROVE  IInv'
  <1>1. RowsGrow /\ RowsGood' /\ Saved' = Saved
    BY RowsStay DEF Retag
  <1>2. EditsGood' /\ ApprovalsGood' /\ RunsGood' /\ LogGood'
    BY <1>1, GrowKeeps DEF Retag
  <1>3. CountersGood'
    BY DefinitionsAssumption DEF IInv, CountersGood, Retag
  <1> QED BY <1>1, <1>2, <1>3 DEF IInv

LEMMA StepApproveRead ==
    ASSUME IInv, NEW p \in Principals, NEW d \in Saved, ApproveRead(p, d)
    PROVE  IInv'
  <1>1. RowsGrow /\ RowsGood' /\ Saved' = Saved /\ revs' = revs
    BY RowsStay DEF ApproveRead
  <1>a. PICK a : a = [stage |-> "demote", rev |-> d, rows |-> {}, behind |-> {}]
    OBVIOUS
  <1>2. GoodApproval(a, p, revs')
    BY <1>1, <1>a DEF GoodApproval, ApproveRead, MayApprove, Saved
  <1>3. ApprovalsGood'
    <2>1. approval' = [approval EXCEPT ![p] = a]
      BY <1>a DEF ApproveRead
    <2> QED BY <1>1, <1>2, <2>1, ApprovalSet DEF IInv
  <1>4. EditsGood' /\ RunsGood' /\ LogGood'
    BY <1>1, GrowKeeps DEF ApproveRead
  <1>5. CountersGood'
    BY DefinitionsAssumption DEF IInv, CountersGood, ApproveRead
  <1> QED BY <1>1, <1>3, <1>4, <1>5 DEF IInv

LEMMA StepDemote ==
    ASSUME IInv, NEW p \in Principals, Demote(p)
    PROVE  IInv'
  <1>1. RowsGrow /\ RowsGood' /\ Saved' = Saved /\ revs' = revs
    BY RowsStay DEF Demote
  <1>a. PICK a : a = approval[p]
    OBVIOUS
  <1>w. PICK w : w = {o \in Principals \ {p} : approval[o].stage = "promote"
                                               /\ approval[o].rows \cap Active # {}}
    OBVIOUS
  <1>2. PICK x, y, z, b : /\ a = [stage |-> x, rev |-> y, rows |-> z, behind |-> b]
                          /\ y \in Saved /\ revs[y].author # p
    <2>1. GoodApproval(a, p, revs) /\ a.stage = "demote"
      BY <1>a DEF IInv, ApprovalsGood, Demote
    <2> QED BY <2>1, NoDefIsNone DEF GoodApproval, Saved
  <1>n. PICK n : n = [stage |-> "promote", rev |-> y, rows |-> Active, behind |-> w]
    OBVIOUS
  <1>3. approval' = [approval EXCEPT ![p] = n]
    <2>1. approval' = [approval EXCEPT ![p].stage = "promote", ![p].rows = Active, ![p].behind = w]
      BY <1>w DEF Demote
    <2>2. p \in DOMAIN approval
      BY DEF IInv, ApprovalsGood
    <2>3. [[[a EXCEPT !.stage = "promote"] EXCEPT !.rows = Active] EXCEPT !.behind = w] = n
      <3>1. [a EXCEPT !.stage = "promote"] = [stage |-> "promote", rev |-> y, rows |-> z, behind |-> b]
        BY <1>2
      <3>2. [[stage |-> "promote", rev |-> y, rows |-> z, behind |-> b] EXCEPT !.rows = Active] =
               [stage |-> "promote", rev |-> y, rows |-> Active, behind |-> b]
        OBVIOUS
      <3>3. [[stage |-> "promote", rev |-> y, rows |-> Active, behind |-> b] EXCEPT !.behind = w] = n
        BY <1>n
      <3> QED BY <3>1, <3>2, <3>3
    <2>4. approval' = [approval EXCEPT ![p] =
              [[[a EXCEPT !.stage = "promote"] EXCEPT !.rows = Active] EXCEPT !.behind = w]]
      BY <1>a, <2>1, <2>2
    <2> QED BY <2>3, <2>4
  <1>4. GoodApproval(n, p, revs')
    BY <1>1, <1>2, <1>n DEF GoodApproval, Saved
  <1>5. ApprovalsGood'
    BY <1>1, <1>3, <1>4, ApprovalSet DEF IInv
  <1>6. EditsGood' /\ RunsGood' /\ LogGood'
    BY <1>1, GrowKeeps DEF Demote
  <1>7. CountersGood'
    BY DEF IInv, CountersGood, Demote
  <1> QED BY <1>1, <1>5, <1>6, <1>7 DEF IInv

(* The promoted row is approved by somebody who is not its author, and a    *)
(* demoted one was.                                                         *)
LEMMA StepPromote ==
    ASSUME IInv, NEW p \in Principals, Promote(p)
    PROVE  IInv'
  <1>v. PICK v : v = approval[p].rev
    OBVIOUS
  <1>1. v \in Saved /\ revs[v].author # p
    <2>1. GoodApproval(approval[p], p, revs) /\ approval[p].stage = "promote"
      BY DEF IInv, ApprovalsGood, Promote
    <2> QED BY <1>v, <2>1, NoDefIsNone DEF GoodApproval, Saved
  <1>2. /\ Saved' = Saved
        /\ \A d \in Saved :
              revs'[d] = IF d = v THEN [revs[d] EXCEPT !.state = "active", !.approver = p]
                         ELSE IF d \in approval[p].rows /\ revs[d].state = "active"
                         THEN [revs[d] EXCEPT !.state = "reviewed"] ELSE revs[d]
    BY <1>v DEF Promote, Saved
  <1>3. ASSUME NEW d \in Saved
        PROVE  /\ RowGood(revs'[d]) /\ revs'[d].author = revs[d].author
               /\ revs[d].state # "draft" => revs'[d].state # "draft"
    <2>1. PICK r : r = revs[d] /\ RowGood(r)
      BY DEF IInv, RowsGood
    <2>2. PICK a, b, c, e : r = [state |-> a, author |-> b, approver |-> c, lock |-> e]
      BY <2>1 DEF RowGood
    <2>3. CASE d = v
      <3>1. revs'[d] = [r EXCEPT !.state = "active", !.approver = p]
        BY <1>2, <2>1, <2>3
      <3>2. revs'[d] = [state |-> "active", author |-> b, approver |-> p, lock |-> e]
        BY <2>2, <3>1
      <3>3. p # None /\ p # b
        <4>1. r.author = b
          BY <2>2
        <4>2. p # None
          BY DefinitionsAssumption
        <4> QED BY <1>1, <2>1, <2>3, <4>1, <4>2
      <3> QED BY <2>1, <2>2, <3>2, <3>3 DEF RowGood
    <2>4. CASE d # v /\ d \in approval[p].rows /\ revs[d].state = "active"
      <3>1. revs'[d] = [r EXCEPT !.state = "reviewed"]
        BY <1>2, <2>1, <2>4
      <3>2. revs'[d] = [state |-> "reviewed", author |-> b, approver |-> c, lock |-> e]
        BY <2>2, <3>1
      <3> QED BY <2>1, <2>2, <2>4, <3>2 DEF RowGood
    <2>5. CASE d # v /\ ~(d \in approval[p].rows /\ revs[d].state = "active")
      BY <1>2, <2>1, <2>5
    <2> QED BY <2>3, <2>4, <2>5
  <1>4. RowsGrow
    BY <1>2, <1>3 DEF RowsGrow
  <1>5. RowsGood'
    BY <1>2, <1>3 DEF IInv, RowsGood
  <1>6. ApprovalsGood'
    BY <1>2, <1>3, EndedKeeps DEF IInv, Promote
  <1>7. EditsGood' /\ RunsGood' /\ LogGood'
    BY <1>4, GrowKeeps DEF Promote
  <1>8. CountersGood'
    BY DEF IInv, CountersGood, Promote
  <1> QED BY <1>5, <1>6, <1>7, <1>8 DEF IInv

LEMMA StepRunnableRevision ==
    ASSUME IInv, NEW p \in Principals, NEW d \in Saved, RunnableRevision(p, d)
    PROVE  IInv'
  <1>1. RowsGrow /\ RowsGood' /\ Saved' = Saved /\ revs' = revs
    BY RowsStay DEF RunnableRevision
  <1>2. EditsGood' /\ ApprovalsGood' /\ LogGood'
    BY <1>1, GrowKeeps DEF RunnableRevision
  <1>3. RunsGood'
    BY <1>1 DEF IInv, RunsGood, RunnableRevision
  <1>4. CountersGood'
    BY DEF IInv, CountersGood, RunnableRevision
  <1> QED BY <1>1, <1>2, <1>3, <1>4 DEF IInv

LEMMA StepStartRun ==
    ASSUME IInv, NEW p \in Principals, StartRun(p)
    PROVE  IInv'
  <1>1. RowsGrow /\ RowsGood' /\ Saved' = Saved /\ revs' = revs
    BY RowsStay DEF StartRun
  <1>2. EditsGood' /\ ApprovalsGood' /\ LogGood'
    BY <1>1, GrowKeeps DEF StartRun
  <1>3. RunsGood'
    BY <1>1 DEF IInv, RunsGood, StartRun
  <1>4. CountersGood'
    BY DEF IInv, CountersGood, StartRun
  <1> QED BY <1>1, <1>2, <1>3, <1>4 DEF IInv

LEMMA NextKeepsIInv == IInv /\ [Next]_vars => IInv'
  <1> SUFFICES ASSUME IInv, [Next]_vars PROVE IInv'
    OBVIOUS
  <1>1. CASE Next
    <2>1. ASSUME NEW p \in Principals,
                 \/ CreatePipeline(p) \/ \E d \in Saved, op \in Ops : ApplyOperation(p, d, op)
                 \/ ResolveLockfile(p) \/ Save(p) \/ MoveHead(p) \/ Abandon(p)
                 \/ \E d \in Saved : ApproveRead(p, d) \/ RunnableRevision(p, d)
                 \/ Demote(p) \/ Promote(p) \/ StartRun(p)
          PROVE  IInv'
      <3>1. ASSUME NEW d \in Saved, NEW op \in Ops, ApplyOperation(p, d, op) PROVE IInv'
        BY <3>1, StepApplyOperation
      <3>2. ASSUME NEW d \in Saved, ApproveRead(p, d) \/ RunnableRevision(p, d) PROVE IInv'
        BY <3>2, StepApproveRead, StepRunnableRevision
      <3> QED BY <2>1, <3>1, <3>2, StepCreatePipeline, StepResolveLockfile, StepSave, StepMoveHead,
                 StepAbandon, StepDemote, StepPromote, StepStartRun
    <2> QED BY <1>1, <2>1, StepRetag DEF Next
  <1>2. CASE UNCHANGED vars
    <2>1. RowsGrow /\ RowsGood' /\ Saved' = Saved
      BY <1>2, RowsStay DEF vars
    <2>2. EditsGood' /\ ApprovalsGood' /\ RunsGood' /\ LogGood'
      BY <1>2, <2>1, GrowKeeps DEF vars
    <2>3. CountersGood'
      BY <1>2 DEF IInv, CountersGood, vars
    <2> QED BY <2>1, <2>2, <2>3 DEF IInv
  <1> QED BY <1>1, <1>2

(* The inductive invariant of the definitions holds throughout.             *)
LEMMA AlwaysIInv == Spec => []IInv
  BY InitIInv, NextKeepsIInv, PTL DEF Spec

-----------------------------------------------------------------------------
(* The store's rows, its head and the requests under way keep their types.  *)
THEOREM DefinitionsTypeOK == Spec => []TypeOK
  <1>1. ASSUME IInv PROVE TypeOK
    <2>1. \A d \in Saved :
             /\ revs[d].state \in {"draft", "reviewed", "active"}
             /\ revs[d].author \in Principals \cup {System}
             /\ revs[d].approver \in Principals \cup {None} /\ revs[d].lock \in Digests
      BY <1>1 DEF IInv, RowsGood, RowGood
    <2>2. \A p \in Principals : edit[p].stage \in {"idle", "resolve", "save", "move"}
      BY <1>1, NoDefIsNone DEF IInv, EditsGood, GoodEdit
    <2>3. \A p \in Principals : approval[p].stage \in {"idle", "demote", "promote"}
      BY <1>1, NoDefIsNone DEF IInv, ApprovalsGood, GoodApproval
    <2>4. \A p \in Principals : starting[p] \in Saved \cup {NoDef}
      BY <1>1 DEF IInv, RunsGood
    <2>5. head \in Saved \cup {NoDef} /\ runs \subseteq Saved
      BY <1>1 DEF IInv, LogGood, RunsGood
    <2> QED BY <1>1, <2>1, <2>2, <2>3, <2>4, <2>5 DEF TypeOK, IInv, CountersGood
  <1> QED BY <1>1, AlwaysIInv, PTL

(* No accepted edit is lost: each was applied to what the one before it     *)
(* left as the head, however the statements of CompareAndSetHead and of     *)
(* ApplyOperation interleave over the planes.                               *)
THEOREM NoEditIsLost == Spec => []NoEditLost
  <1>1. IInv => NoEditLost
    BY DEF IInv, LogGood
  <1> QED BY <1>1, AlwaysIInv, PTL

(* An entry of the log is its base with its operation applied.              *)
LEMMA LoggedEdit ==
    ASSUME IInv, NEW i \in DOMAIN log
    PROVE  EntryGood(log[i])
  <1>1. log[i] \in Range(log)
    BY DEF Range
  <1> QED BY <1>1 DEF IInv, LogGood

(* A rebased edit changes nothing its author has not seen: rebaseOnto lets  *)
(* through what the edits in between left alone, whatever the operation.    *)
THEOREM MergesAreSeen == Spec => []MergedUnseen
  <1>1. ASSUME IInv PROVE MergedUnseen
    <2>1. ASSUME NEW i \in DOMAIN log, log[i].base # NoDef,
                 NEW k \in Differ(log[i].onto, log[i].next)
          PROVE  Element(log[i].base, k) = Element(log[i].onto, k)
      <3>e. PICK e : e = log[i] /\ EntryGood(e)
        BY <1>1, LoggedEdit
      <3>1. /\ e.op \in Ops /\ WellFormed(e.base) /\ WellFormed(e.onto)
            /\ Apply(e.onto, e.op).ok /\ e.next = Apply(e.onto, e.op).next
            /\ e.onto = e.base \/ Disjoint(e.base, e.onto, e.op)
        BY <2>1, <3>e DEF EntryGood
      <3>2. OpShape(e.op)
        BY <3>1, DefinitionsAssumption
      <3>3. k \in Differ(e.onto, e.next)
        BY <3>e
      <3>4. Element(e.base, k) = Element(e.onto, k)
        BY <3>1, <3>2, <3>3, MergeIsSeen
      <3> QED BY <3>4, <3>e
    <2> QED BY <2>1 DEF MergedUnseen
  <1> QED BY <1>1, AlwaysIInv, PTL

(* Undoing an accepted edit with the inverse Apply returned is accepted and *)
(* brings back every element, whichever of the ten operations it was.       *)
THEOREM UndoRestores == Spec => []UndoRestoresContent
  <1>1. ASSUME IInv PROVE UndoRestoresContent
    <2>1. ASSUME NEW i \in DOMAIN log, log[i].op # NoOp
          PROVE  LET undone == Apply(log[i].next, Apply(log[i].onto, log[i].op).inverse)
                 IN  undone.ok /\ Content(undone.next) = Content(log[i].onto)
      <3>e. PICK e : e = log[i] /\ EntryGood(e)
        BY <1>1, LoggedEdit
      <3>1. /\ e.op \in Ops /\ WellFormed(e.onto) /\ Apply(e.onto, e.op).ok
            /\ e.next = Apply(e.onto, e.op).next
        BY <2>1, <3>e DEF EntryGood
      <3>2. OpShape(e.op)
        BY <3>1, DefinitionsAssumption
      <3>3. Undone(e.onto, e.op)
        BY <3>1, <3>2, OperationTaken
      <3> QED BY <3>1, <3>3, <3>e DEF Undone
    <2> QED BY <2>1 DEF UndoRestoresContent
  <1> QED BY <1>1, AlwaysIInv, PTL

(* A run pins a revision somebody other than its author approved, through   *)
(* demotions and saves of the same content by others (MayApprove, Save).    *)
THEOREM RunsAreReviewed == Spec => []RunsWereReviewed
  <1>1. ASSUME IInv PROVE RunsWereReviewed
    BY <1>1 DEF IInv, RowsGood, RowGood, RunsGood, RunsWereReviewed
  <1> QED BY <1>1, AlwaysIInv, PTL

-----------------------------------------------------------------------------
(* The bodies of model steps and agent steps.                               *)

Fields == {"pc", "stopped", "from", "spent", "used", "ceiling", "batch", "window", "refused",
           "base", "n", "out"}

(* Where an agent's loop is, and where a body has been refused nothing.     *)
Looping == {"turn", "acting", "park", "ask"}
Unrefused == {"start", "calling", "recording", "givingUp", "succeed", "succeeded"}

(* What the record a body resumed from had spent, and what it lets be done. *)
SpentAt(from, recs) == IF from = 0 THEN 0 ELSE recs[from].used
Approved(from, a, recs) == IF from = 0 THEN 0 ELSE Count(recs[from].actions, a)

BodyTypes(r) ==
    /\ DOMAIN r = Fields
    /\ r.from \in Nat /\ r.spent \in Nat /\ r.used \in Nat /\ r.ceiling \in Nat
    /\ r.base \in Nat /\ r.n \in Nat /\ r.window \in [ContractActions -> Nat]
    /\ r.pc = "park" => r.batch \in Batches
    /\ r.pc \in Unrefused => ~r.refused
    /\ r.pc = "start" => r.from = 0 /\ r.spent = 0 /\ r.used = 0

(* A loop has spent what its record had and what it has used of what the    *)
(* ceiling left.                                                            *)
WithinBudget(r, recs) ==
    /\ r.from <= Len(recs) /\ r.spent <= MaxSteps
    /\ r.pc \in Looping => /\ r.spent = r.used + SpentAt(r.from, recs)
                           /\ r.ceiling = MaxSteps - SpentAt(r.from, recs)
                           /\ r.used <= r.ceiling /\ r.ceiling > 0
    /\ r.pc = "turn" => r.used < r.ceiling

(* A resumed body holds a window of what is left of the decision.           *)
AsDecided(r, done, recs, g, n) ==
    /\ r.from > 0 => g = "approved" /\ n = r.from
    /\ \A a \in ContractActions :
          needsApproval(a) => done[a] + r.window[a] <= Approved(r.from, a, recs)

(* Alone, a model step's next number is the next row.                       *)
Numbered(b, r, rows, together) ==
    r.pc \in {"calling", "recording"} /\ b \notin together => r.base + r.n = Len(rows) + 1

BodiesGood ==
    /\ DOMAIN body = Bodies /\ taken \in [Bodies -> [ContractActions -> Nat]]
    /\ \A b \in Bodies : /\ BodyTypes(body[b]) /\ WithinBudget(body[b], parks)
                         /\ AsDecided(body[b], taken[b], parks, gate, answered)
                         /\ Numbered(b, body[b], calls, beside)

ParkRecords ==
    {[actions |-> Pending(q), batch |-> q, used |-> u, spent |-> u] :
        q \in Batches, u \in 0 .. MaxSteps}

RecordsGood ==
    /\ parks \in Seq(ParkRecords) /\ calls \in Seq(Bodies)
    /\ answered \in Nat /\ answered <= Len(parks)

(* Bodies past the attempt have not begun, and no two live ones are alone.  *)
AttemptsGood ==
    /\ DOMAIN fold = {"attempt", "verdict", "released", "closed"} /\ fold.attempt \in Nat
    /\ \A b \in Bodies : b > fold.attempt => body[b].pc = "idle" /\ taken[b] = NoCalls
    /\ \A b, c \in Live : b # c => b \in beside
    /\ unrecorded \subseteq beside

BodiesIInv == BodiesGood /\ RecordsGood /\ AttemptsGood

LEMMA CountNat ==
    ASSUME NEW q \in Batches, NEW a
    PROVE  Count(Pending(q), a) \in Nat
  <1>1. PICK S : q \in Seq(S)
    BY BodiesAssumption
  <1>2. IsFiniteSet(1 .. Len(q)) /\ DOMAIN q = 1 .. Len(q)
    BY <1>1, FS_Interval
  <1>3. {i \in DOMAIN Pending(q) : Pending(q)[i] = a} \subseteq 1 .. Len(q)
    BY <1>2 DEF Pending
  <1>4. IsFiniteSet({i \in DOMAIN Pending(q) : Pending(q)[i] = a})
    BY <1>2, <1>3, FS_Subset
  <1> QED BY <1>4, FS_CardinalityType DEF Count

(* A record of a park, field by field.                                      *)
LEMMA ParkFacts ==
    ASSUME NEW recs \in Seq(ParkRecords), NEW k \in 1 .. Len(recs)
    PROVE  /\ recs[k].used \in Nat /\ recs[k].spent = recs[k].used /\ recs[k].used <= MaxSteps
           /\ \A a : Count(recs[k].actions, a) \in Nat
           /\ recs[k].batch \in Batches /\ recs[k].actions = Pending(recs[k].batch)
  <1>1. recs[k] \in ParkRecords
    OBVIOUS
  <1>2. PICK q \in Batches, u \in 0 .. MaxSteps :
            recs[k] = [actions |-> Pending(q), batch |-> q, used |-> u, spent |-> u]
    BY <1>1 DEF ParkRecords
  <1>3. recs[k].used = u /\ recs[k].spent = u /\ recs[k].actions = Pending(q) /\ recs[k].batch = q
    BY <1>2
  <1>4. \A a : Count(Pending(q), a) \in Nat
    BY CountNat
  <1>5. u \in Nat /\ u <= MaxSteps
    BY BodiesAssumption
  <1> QED BY <1>3, <1>4, <1>5

(* What a resumed body starts with is within the ceiling.                   *)
LEMMA SpentFacts ==
    ASSUME NEW recs \in Seq(ParkRecords), NEW from \in Nat, from <= Len(recs)
    PROVE  /\ SpentAt(from, recs) \in Nat /\ SpentAt(from, recs) <= MaxSteps
           /\ \A a : Approved(from, a, recs) \in Nat
  <1>0. Len(recs) \in Nat
    OBVIOUS
  <1>1. CASE from = 0
    BY <1>1, BodiesAssumption DEF SpentAt, Approved
  <1>2. CASE from # 0
    <2>1. from \in 1 .. Len(recs)
      BY <1>0, <1>2
    <2> QED BY <1>2, <2>1, ParkFacts DEF SpentAt, Approved
  <1> QED BY <1>1, <1>2

(* What a step leaves of the bodies that do not take it.                    *)
BudgetKept == \A r : r.from \in Nat /\ WithinBudget(r, parks) => WithinBudget(r, parks')
DecidedKept ==
    \A r, done :
        r.from \in Nat /\ WithinBudget(r, parks) /\ AsDecided(r, done, parks, gate, answered) =>
            AsDecided(r, done, parks', gate', answered')

LEMMA NothingDecided ==
    ASSUME UNCHANGED <<parks, gate, answered>>
    PROVE  BudgetKept /\ DecidedKept
  BY DEF BudgetKept, DecidedKept

(* Of two bodies that are alive, both ran beside another.                   *)
LEMMA LiveFacts ==
    ASSUME BodiesIInv, NEW b \in Bodies, body[b].pc \notin Over
    PROVE  /\ b \in Live /\ ~(b > fold.attempt)
           /\ \A c \in Live : c # b => c \in beside /\ b \in beside
  <1>1. b \in Live /\ body[b].pc # "idle"
    BY DEF Live, Over
  <1> QED BY <1>1 DEF BodiesIInv, AttemptsGood

(* A step of one live body.                                                 *)
GoodBody(b, r, done) ==
    /\ BodyTypes(r) /\ WithinBudget(r, parks') /\ AsDecided(r, done, parks', gate', answered')
    /\ Numbered(b, r, calls', beside')

(* A live body moves, and the others stand.                                 *)
LEMMA BodyStep ==
    ASSUME BodiesIInv, NEW b \in Bodies, body[b].pc \notin Over,
           NEW r, body' = [body EXCEPT ![b] = r], GoodBody(b, r, taken'[b]),
           RecordsGood', fold'.attempt = fold.attempt, DOMAIN fold' = DOMAIN fold,
           taken' \in [Bodies -> [ContractActions -> Nat]],
           \A c \in Bodies : c # b => taken'[c] = taken[c],
           BudgetKept, DecidedKept, beside' = beside, unrecorded' \subseteq beside'
    PROVE  BodiesIInv'
  <1>1. /\ b \in Live /\ ~(b > fold.attempt)
        /\ \A c \in Live : c # b => c \in beside /\ b \in beside
    BY LiveFacts
  <1>2. DOMAIN body' = Bodies /\ body'[b] = r /\ \A c \in Bodies : c # b => body'[c] = body[c]
    BY DEF BodiesIInv, BodiesGood
  <1>3. ASSUME NEW c \in Bodies, c # b
        PROVE  GoodBody(c, body'[c], taken'[c])
    <2>x. PICK x : x = body[c] /\ x = body'[c]
      BY <1>2, <1>3
    <2>d. PICK d : d = taken[c] /\ d = taken'[c]
      BY <1>3
    <2>1. /\ BodyTypes(x) /\ WithinBudget(x, parks) /\ AsDecided(x, d, parks, gate, answered)
      BY <2>x, <2>d DEF BodiesIInv, BodiesGood
    <2>2. WithinBudget(x, parks')
      BY <2>1 DEF BudgetKept, BodyTypes
    <2>3. AsDecided(x, d, parks', gate', answered')
      BY <2>1 DEF DecidedKept, BodyTypes
    <2>4. Numbered(c, x, calls', beside')
      <3>1. CASE c \in Live
        BY <1>1, <1>3, <3>1 DEF Numbered
      <3>2. CASE c \notin Live
        BY <2>x, <3>2 DEF Numbered, Live, Over
      <3> QED BY <3>1, <3>2
    <2> QED BY <2>x, <2>d, <2>1, <2>2, <2>3, <2>4 DEF GoodBody
  <1>4. BodiesGood'
    <2>1. \A c \in Bodies : GoodBody(c, body'[c], taken'[c])
      BY <1>2, <1>3
    <2> QED BY <1>2, <2>1 DEF BodiesGood, GoodBody
  <1>5. AttemptsGood'
    <2>1. \A c \in Live' : c \in Live
      BY <1>1, <1>2 DEF Live
    <2>2. \A c \in Bodies : c > fold'.attempt => body'[c].pc = "idle" /\ taken'[c] = NoCalls
      BY <1>1, <1>2 DEF BodiesIInv, AttemptsGood
    <2>3. \A c, d \in Live' : c # d => c \in beside'
      BY <2>1 DEF BodiesIInv, AttemptsGood
    <2> QED BY <2>2, <2>3 DEF BodiesIInv, AttemptsGood
  <1> QED BY <1>4, <1>5 DEF BodiesIInv

LEMMA BodiesInitIInv == BodiesInit => BodiesIInv
  <1> SUFFICES ASSUME BodiesInit PROVE BodiesIInv
    OBVIOUS
  <1>i. DOMAIN IdleBody = Fields
    BY DEF IdleBody, Fields
  <1>n. NoCalls \in [ContractActions -> Nat] /\ \A a \in ContractActions : NoCalls[a] = 0
    BY DEF NoCalls
  <1>f. /\ IdleBody.pc = "idle" /\ IdleBody.from = 0 /\ IdleBody.spent = 0 /\ IdleBody.used = 0
        /\ IdleBody.ceiling = 0 /\ IdleBody.window = NoCalls /\ IdleBody.base = 0 /\ IdleBody.n = 0
    BY DEF IdleBody
  <1>1. RecordsGood
    BY DEF BodiesInit, RecordsGood
  <1>2. BodyTypes(IdleBody)
    BY <1>i, <1>n, <1>f DEF BodyTypes, Unrefused
  <1>3. WithinBudget(IdleBody, parks)
    BY <1>f, BodiesAssumption DEF WithinBudget, Looping, BodiesInit
  <1>4. AsDecided(IdleBody, NoCalls, parks, gate, answered)
    BY <1>f, <1>n DEF AsDecided, Approved
  <1>5. \A b \in Bodies : body[b] = IdleBody /\ taken[b] = NoCalls
    BY DEF BodiesInit
  <1>6. \A b \in Bodies : Numbered(b, IdleBody, calls, beside)
    BY <1>f DEF Numbered
  <1>7. BodiesGood
    BY <1>n, <1>2, <1>3, <1>4, <1>5, <1>6 DEF BodiesGood, BodiesInit
  <1>8. Live = {}
    BY <1>5, <1>f DEF Live, Over
  <1>9. AttemptsGood
    BY <1>5, <1>f, <1>8 DEF AttemptsGood, BodiesInit
  <1> QED BY <1>1, <1>7, <1>9 DEF BodiesIInv

(* What is known of a body of the invariant.                                *)
LEMMA Known ==
    ASSUME BodiesIInv, NEW b \in Bodies
    PROVE  /\ BodyTypes(body[b]) /\ WithinBudget(body[b], parks) /\ Numbered(b, body[b], calls, beside)
           /\ AsDecided(body[b], taken[b], parks, gate, answered)
           /\ taken \in [Bodies -> [ContractActions -> Nat]] /\ taken[b] \in [ContractActions -> Nat]
           /\ DOMAIN body = Bodies
  BY DEF BodiesIInv, BodiesGood

(* A body that leaves its loop, or its calls, is good if it takes nothing   *)
(* with it that it did not hold.                                            *)
LEMMA Outward ==
    ASSUME BodiesIInv, NEW b \in Bodies, NEW r, BodyTypes(r),
           r.from = body[b].from, r.spent <= MaxSteps,
           \A a \in ContractActions : r.window[a] <= body[b].window[a],
           r.pc \notin Looping \cup {"calling", "recording"},
           BudgetKept, DecidedKept, RecordsGood', UNCHANGED taken
    PROVE  GoodBody(b, r, taken'[b])
  <1>x. PICK x : x = body[b]
    OBVIOUS
  <1>d. PICK d : d = taken[b] /\ d = taken'[b] /\ d \in [ContractActions -> Nat]
    BY Known
  <1>1. BodyTypes(x) /\ WithinBudget(x, parks) /\ AsDecided(x, d, parks, gate, answered)
    BY <1>x, <1>d, Known
  <1>2. WithinBudget(x, parks')
    BY <1>1 DEF BudgetKept, BodyTypes
  <1>3. AsDecided(x, d, parks', gate', answered')
    BY <1>1 DEF DecidedKept, BodyTypes
  <1>4. WithinBudget(r, parks')
    BY <1>2, <1>x DEF WithinBudget, Looping
  <1>5. \A a \in ContractActions : Approved(x.from, a, parks') \in Nat
    <2>1. x.from \in Nat /\ x.from <= Len(parks') /\ parks' \in Seq(ParkRecords)
      BY <1>1, <1>2 DEF BodyTypes, WithinBudget, RecordsGood
    <2> QED BY <2>1, SpentFacts
  <1>6. AsDecided(r, d, parks', gate', answered')
    <2>1. ASSUME NEW a \in ContractActions, needsApproval(a)
          PROVE  d[a] + r.window[a] <= Approved(r.from, a, parks')
      <3>1. /\ d[a] \in Nat /\ r.window[a] \in Nat /\ x.window[a] \in Nat
            /\ r.window[a] <= x.window[a] /\ Approved(x.from, a, parks') \in Nat
        BY <1>d, <1>1, <1>5, <1>x DEF BodyTypes
      <3>2. d[a] + x.window[a] <= Approved(x.from, a, parks')
        BY <1>3, <2>1 DEF AsDecided
      <3>3. r.from = x.from
        BY <1>x
      <3> QED BY <3>1, <3>2, <3>3
    <2> QED BY <1>3, <1>x, <2>1 DEF AsDecided
  <1>7. Numbered(b, r, calls', beside')
    BY DEF Numbered
  <1> QED BY <1>d, <1>4, <1>6, <1>7 DEF GoodBody

(* What the steps of one body leave alone.                                  *)
Apart ==
    /\ fold'.attempt = fold.attempt /\ DOMAIN fold' = DOMAIN fold
    /\ beside' = beside /\ unrecorded' \subseteq beside'
    /\ BudgetKept /\ DecidedKept /\ RecordsGood'

(* A live body moves and does nothing of an action.                         *)
LEMMA Moved ==
    ASSUME BodiesIInv, NEW b \in Bodies, body[b].pc \notin Over,
           NEW r, body' = [body EXCEPT ![b] = r], GoodBody(b, r, taken'[b]),
           Apart, UNCHANGED taken
    PROVE  BodiesIInv'
  BY BodyStep, Known DEF Apart

(* A live body ends.                                                        *)
LEMMA LeaveStep ==
    ASSUME BodiesIInv, NEW b \in Bodies, body[b].pc \notin Over,
           NEW place \in Over, Leave(b, place), place = "succeeded" => ~body[b].refused,
           Apart, UNCHANGED taken
    PROVE  BodiesIInv'
  <1>x. PICK x : x = body[b]
    OBVIOUS
  <1>0. BodyTypes(x) /\ WithinBudget(x, parks)
    BY <1>x, Known
  <1>r. PICK r : r = [IdleBody EXCEPT !.pc = place, !.from = x.from, !.spent = x.spent,
                                      !.refused = x.refused]
    OBVIOUS
  <1>1. body' = [body EXCEPT ![b] = r]
    BY <1>r, <1>x DEF Leave, Become
  <1>2. /\ DOMAIN r = Fields /\ r.pc = place /\ r.from = x.from /\ r.spent = x.spent
        /\ r.refused = x.refused /\ r.used = 0 /\ r.ceiling = 0 /\ r.base = 0 /\ r.n = 0
        /\ r.window = NoCalls
    BY <1>r DEF IdleBody, Fields
  <1>3. NoCalls \in [ContractActions -> Nat] /\ \A a \in ContractActions : NoCalls[a] = 0
    BY DEF NoCalls
  <1>4. place \in Unrefused => ~x.refused
    BY <1>x DEF Over, Unrefused
  <1>5. BodyTypes(r)
    BY <1>0, <1>2, <1>3, <1>4 DEF BodyTypes, Over
  <1>6. r.spent <= MaxSteps
    BY <1>0, <1>2 DEF WithinBudget
  <1>7. \A a \in ContractActions : r.window[a] <= x.window[a]
    BY <1>0, <1>2, <1>3 DEF BodyTypes
  <1>8. r.pc \notin Looping \cup {"calling", "recording"}
    BY <1>2 DEF Over, Looping
  <1>9. GoodBody(b, r, taken'[b])
    BY <1>x, <1>2, <1>5, <1>6, <1>7, <1>8, Outward DEF Apart
  <1> QED BY <1>1, <1>9, Moved

LEMMA FailStep ==
    ASSUME BodiesIInv, NEW b \in Bodies, body[b].pc \notin Over, Goto(b, "fail"),
           Apart, UNCHANGED taken
    PROVE  BodiesIInv'
  <1>x. PICK x : x = body[b]
    OBVIOUS
  <1>0. BodyTypes(x) /\ WithinBudget(x, parks)
    BY <1>x, Known
  <1>r. PICK r : r = [x EXCEPT !.pc = "fail"]
    OBVIOUS
  <1>1. body' = [body EXCEPT ![b] = r]
    BY <1>r, <1>x DEF Goto, Become
  <1>2. /\ DOMAIN r = Fields /\ r.pc = "fail" /\ r.from = x.from /\ r.spent = x.spent
        /\ r.used = x.used /\ r.ceiling = x.ceiling /\ r.base = x.base /\ r.n = x.n
        /\ r.window = x.window
    BY <1>r, <1>0 DEF BodyTypes, Fields
  <1>5. BodyTypes(r)
    BY <1>0, <1>2 DEF BodyTypes, Unrefused
  <1>6. r.spent <= MaxSteps /\ \A a \in ContractActions : r.window[a] <= x.window[a]
    BY <1>0, <1>2 DEF WithinBudget, BodyTypes
  <1>8. r.pc \notin Looping \cup {"calling", "recording"}
    BY <1>2 DEF Looping
  <1>9. GoodBody(b, r, taken'[b])
    BY <1>x, <1>2, <1>5, <1>6, <1>8, Outward DEF Apart
  <1> QED BY <1>1, <1>9, Moved

LEMMA Alone ==
    ASSUME BodiesIInv, UNCHANGED <<parks, gate, answered, calls, unrecorded, beside>>,
           fold'.attempt = fold.attempt, DOMAIN fold' = DOMAIN fold
    PROVE  Apart
  <1>1. BudgetKept /\ DecidedKept
    BY NothingDecided
  <1>2. RecordsGood'
    BY DEF BodiesIInv, RecordsGood
  <1> QED BY <1>1, <1>2 DEF Apart, BodiesIInv, AttemptsGood

LEMMA LoseLeaseKeeps ==
    ASSUME BodiesIInv, NEW b \in Bodies, LoseLease(b) PROVE BodiesIInv'
  <1>l. body[b].pc \notin Over
    BY DEF LoseLease, Live
  <1>u. UNCHANGED <<step, fold, gate, parks, answered, calls, taken, unrecorded, beside>>
    BY DEF LoseLease, logged, history
  <1>a. Apart
    BY <1>u, Alone
  <1>x. PICK x : x = body[b]
    OBVIOUS
  <1>0. /\ BodyTypes(x) /\ WithinBudget(x, parks) /\ Numbered(b, x, calls, beside)
        /\ AsDecided(x, taken[b], parks, gate, answered)
    BY <1>x, Known
  <1>r. PICK r : r = [x EXCEPT !.stopped = TRUE]
    OBVIOUS
  <1>1. body' = [body EXCEPT ![b] = r]
    BY <1>r, <1>x DEF LoseLease, Become
  <1>2. /\ DOMAIN r = Fields /\ r.pc = x.pc /\ r.from = x.from /\ r.spent = x.spent
        /\ r.used = x.used /\ r.ceiling = x.ceiling /\ r.base = x.base /\ r.n = x.n
        /\ r.window = x.window /\ r.refused = x.refused /\ r.batch = x.batch
    BY <1>r, <1>0 DEF BodyTypes, Fields
  <1>3. BodyTypes(r)
    BY <1>0, <1>2 DEF BodyTypes
  <1>4. WithinBudget(r, parks) /\ Numbered(b, r, calls, beside)
    BY <1>0, <1>2 DEF WithinBudget, Numbered
  <1>5. AsDecided(r, taken[b], parks, gate, answered)
    BY <1>0, <1>2 DEF AsDecided
  <1>6. GoodBody(b, r, taken'[b])
    BY <1>3, <1>4, <1>5, <1>u DEF GoodBody
  <1> QED BY <1>l, <1>a, <1>1, <1>6, <1>u, Moved

LEMMA CrashKeeps ==
    ASSUME BodiesIInv, NEW b \in Bodies, Crash(b) PROVE BodiesIInv'
  <1>l. body[b].pc \notin Over
    BY DEF Crash, Live
  <1>u. UNCHANGED <<step, fold, gate, parks, answered, calls, taken, unrecorded, beside>>
    BY DEF Crash, logged, history
  <1>a. Apart
    BY <1>u, Alone
  <1>1. Leave(b, "gone") /\ "gone" \in Over
    BY DEF Crash, Over
  <1> QED BY <1>l, <1>a, <1>1, <1>u, LeaveStep

LEMMA EndKeeps ==
    ASSUME BodiesIInv, NEW b \in Bodies, End(b) PROVE BodiesIInv'
  <1>l. body[b].pc \notin Over
    BY DEF End, At, Over
  <1>u. UNCHANGED <<step, gate, parks, answered, calls, taken, unrecorded, beside>>
    BY DEF End, history
  <1>f. fold'.attempt = fold.attempt /\ DOMAIN fold' = DOMAIN fold
    BY DEF End, BodiesIInv, AttemptsGood
  <1>a. Apart
    BY <1>u, <1>f, Alone
  <1>1. \E place \in Over : Leave(b, place) /\ (place = "succeeded" => body[b].pc = "succeed")
    BY DEF End, Over, At
  <1>2. body[b].pc = "succeed" => ~body[b].refused
    BY Known DEF BodyTypes, Unrefused
  <1> QED BY <1>l, <1>a, <1>1, <1>2, <1>u, LeaveStep

LEMMA StartModelKeeps ==
    ASSUME BodiesIInv, NEW b \in Bodies, StartModel(b) PROVE BodiesIInv'
  <1>l. body[b].pc \notin Over
    BY DEF StartModel, At, Over
  <1>u. UNCHANGED <<step, fold, gate, parks, answered, calls, taken, unrecorded, beside>>
    BY DEF StartModel, logged, history
  <1>a. Apart
    BY <1>u, Alone
  <1>x. PICK x : x = body[b]
    OBVIOUS
  <1>0. /\ BodyTypes(x) /\ WithinBudget(x, parks) /\ AsDecided(x, taken[b], parks, gate, answered)
        /\ x.pc = "start"
    BY <1>x, Known DEF StartModel, At
  <1>n. Len(calls) \in Nat
    BY DEF BodiesIInv, RecordsGood
  <1>1. CASE Goto(b, "fail")
    BY <1>l, <1>a, <1>u, <1>1, FailStep
  <1>2. CASE Become(b, [body[b] EXCEPT !.pc = "calling", !.base = callsMade, !.n = 1])
    <2>r. PICK r : r = [x EXCEPT !.pc = "calling", !.base = Len(calls), !.n = 1]
      OBVIOUS
    <2>1. body' = [body EXCEPT ![b] = r]
      BY <1>2, <2>r, <1>x DEF Become, callsMade
    <2>2. /\ DOMAIN r = Fields /\ r.pc = "calling" /\ r.from = x.from /\ r.spent = x.spent
          /\ r.used = x.used /\ r.ceiling = x.ceiling /\ r.base = Len(calls) /\ r.n = 1
          /\ r.window = x.window /\ r.refused = x.refused
      BY <2>r, <1>0 DEF BodyTypes, Fields
    <2>3. BodyTypes(r)
      BY <1>0, <1>n, <2>2 DEF BodyTypes, Unrefused
    <2>4. WithinBudget(r, parks) /\ Numbered(b, r, calls, beside)
      BY <1>0, <1>n, <2>2 DEF WithinBudget, Numbered, Looping
    <2>5. AsDecided(r, taken[b], parks, gate, answered)
      BY <1>0, <2>2 DEF AsDecided
    <2>6. GoodBody(b, r, taken'[b])
      BY <2>3, <2>4, <2>5, <1>u DEF GoodBody
    <2> QED BY <1>l, <1>a, <2>1, <2>6, <1>u, Moved
  <1> QED BY <1>1, <1>2 DEF StartModel

LEMMA CallModelKeeps ==
    ASSUME BodiesIInv, NEW b \in Bodies, CallModel(b) PROVE BodiesIInv'
  <1>l. body[b].pc \notin Over
    BY DEF CallModel, At, Over
  <1>u. UNCHANGED <<step, fold, gate, parks, answered, calls, taken, unrecorded, beside>>
    BY DEF CallModel, logged, history
  <1>a. Apart
    BY <1>u, Alone
  <1>x. PICK x : x = body[b]
    OBVIOUS
  <1>0. /\ BodyTypes(x) /\ WithinBudget(x, parks) /\ AsDecided(x, taken[b], parks, gate, answered)
        /\ Numbered(b, x, calls, beside) /\ x.pc = "calling"
    BY <1>x, Known DEF CallModel, At
  <1>o. PICK out : Become(b, [body[b] EXCEPT !.pc = "recording", !.out = out])
    BY DEF CallModel
  <1>r. PICK r : r = [x EXCEPT !.pc = "recording", !.out = out]
    OBVIOUS
  <1>1. body' = [body EXCEPT ![b] = r]
    BY <1>o, <1>r, <1>x DEF Become
  <1>2. /\ DOMAIN r = Fields /\ r.pc = "recording" /\ r.from = x.from /\ r.spent = x.spent
        /\ r.used = x.used /\ r.ceiling = x.ceiling /\ r.base = x.base /\ r.n = x.n
        /\ r.window = x.window /\ r.refused = x.refused
    BY <1>r, <1>0 DEF BodyTypes, Fields
  <1>3. BodyTypes(r)
    BY <1>0, <1>2 DEF BodyTypes, Unrefused
  <1>4. WithinBudget(r, parks) /\ Numbered(b, r, calls, beside)
    BY <1>0, <1>2 DEF WithinBudget, Numbered, Looping
  <1>5. AsDecided(r, taken[b], parks, gate, answered)
    BY <1>0, <1>2 DEF AsDecided
  <1>6. GoodBody(b, r, taken'[b])
    BY <1>3, <1>4, <1>5, <1>u DEF GoodBody
  <1> QED BY <1>l, <1>a, <1>1, <1>6, <1>u, Moved

LEMMA RecordCallKeeps ==
    ASSUME BodiesIInv, NEW b \in Bodies, RecordCall(b) PROVE BodiesIInv'
  <1>l. body[b].pc \notin Over
    BY DEF RecordCall, At, Over
  <1>u. UNCHANGED <<step, fold, gate, parks, answered, taken, beside>>
    BY DEF RecordCall, logged
  <1>x. PICK x : x = body[b]
    OBVIOUS
  <1>0. /\ BodyTypes(x) /\ WithinBudget(x, parks) /\ AsDecided(x, taken[b], parks, gate, answered)
        /\ Numbered(b, x, calls, beside) /\ x.pc = "recording"
    BY <1>x, Known DEF RecordCall, At
  <1>n. Len(calls) \in Nat /\ calls \in Seq(Bodies) /\ x.base \in Nat /\ x.n \in Nat
    BY <1>0 DEF BodiesIInv, RecordsGood, BodyTypes
  <1>b. b \notin beside => x.base + x.n = Len(calls) + 1
    BY <1>0 DEF Numbered
  <1>p. PICK place : /\ place = AfterCall(b, IF x.base + x.n = Len(calls) + 1 THEN x.out ELSE "unrecorded")
                     /\ place \in {"succeed", "fail", "calling", "givingUp"}
    BY DEF AfterCall
  <1>k. PICK k : k \in Nat /\ k = IF place = "calling" THEN x.n + 1 ELSE x.n
    BY <1>n
  <1>r. PICK r : r = [x EXCEPT !.pc = place, !.out = "none", !.n = k]
    OBVIOUS
  <1>1. body' = [body EXCEPT ![b] = r]
    BY <1>p, <1>k, <1>r, <1>x DEF RecordCall, Become
  <1>2. /\ DOMAIN r = Fields /\ r.pc = place /\ r.from = x.from /\ r.spent = x.spent
        /\ r.used = x.used /\ r.ceiling = x.ceiling /\ r.base = x.base /\ r.n = k
        /\ r.window = x.window /\ r.refused = x.refused
    BY <1>r, <1>0 DEF BodyTypes, Fields
  <1>c. /\ calls' = IF x.base + x.n = Len(calls) + 1 THEN Append(calls, b) ELSE calls
        /\ unrecorded' = IF x.base + x.n = Len(calls) + 1 THEN unrecorded ELSE unrecorded \cup {b}
    BY <1>x DEF RecordCall
  <1>d. /\ calls' \in Seq(Bodies)
        /\ x.base + x.n = Len(calls) + 1 => Len(calls') = Len(calls) + 1
    BY <1>c, <1>n
  <1>e. unrecorded' \subseteq beside'
    BY <1>b, <1>c, <1>u DEF BodiesIInv, AttemptsGood
  <1>a. Apart
    <2>1. BudgetKept /\ DecidedKept
      BY <1>u, NothingDecided
    <2>2. RecordsGood'
      BY <1>u, <1>d DEF BodiesIInv, RecordsGood
    <2> QED BY <1>u, <1>e, <2>1, <2>2 DEF Apart
  <1>3. BodyTypes(r)
    BY <1>0, <1>2, <1>k, <1>p DEF BodyTypes, Unrefused
  <1>4. WithinBudget(r, parks)
    BY <1>0, <1>2, <1>p DEF WithinBudget, Looping
  <1>7. Numbered(b, r, calls', beside')
    BY <1>b, <1>d, <1>n, <1>k, <1>p, <1>2, <1>u DEF Numbered
  <1>5. AsDecided(r, taken[b], parks, gate, answered)
    BY <1>0, <1>2 DEF AsDecided
  <1>6. GoodBody(b, r, taken'[b])
    BY <1>3, <1>4, <1>5, <1>7, <1>u DEF GoodBody
  <1> QED BY <1>l, <1>a, <1>1, <1>6, <1>u, Moved

LEMMA GiveUpKeeps ==
    ASSUME BodiesIInv, NEW b \in Bodies, giveUp(b) PROVE BodiesIInv'
  <1>l. body[b].pc \notin Over
    BY DEF giveUp, At, Over
  <1>u. UNCHANGED <<step, gate, parks, answered, calls, taken, unrecorded, beside>>
    BY DEF giveUp, history
  <1>f. fold'.attempt = fold.attempt /\ DOMAIN fold' = DOMAIN fold
    BY DEF giveUp, BodiesIInv, AttemptsGood
  <1>a. Apart
    BY <1>u, <1>f, Alone
  <1> QED BY <1>l, <1>a, <1>u, FailStep DEF giveUp

LEMMA StartAgentKeeps ==
    ASSUME BodiesIInv, NEW b \in Bodies, StartAgent(b) PROVE BodiesIInv'
  <1>l. body[b].pc \notin Over
    BY DEF StartAgent, At, Over
  <1>u. UNCHANGED <<step, fold, gate, parks, answered, calls, taken, unrecorded, beside>>
    BY DEF StartAgent, logged, history
  <1>a. Apart
    BY <1>u, Alone
  <1>x. PICK x : x = body[b]
    OBVIOUS
  <1>0. /\ BodyTypes(x) /\ WithinBudget(x, parks) /\ AsDecided(x, taken[b], parks, gate, answered)
        /\ x.pc = "start"
    BY <1>x, Known DEF StartAgent, At
  <1>1. CASE Goto(b, "fail")
    BY <1>l, <1>a, <1>u, <1>1, FailStep
  <1>2. CASE Become(b, [body[b] EXCEPT !.pc = "turn", !.ceiling = MaxSteps])
    <2>r. PICK r : r = [x EXCEPT !.pc = "turn", !.ceiling = MaxSteps]
      OBVIOUS
    <2>1. body' = [body EXCEPT ![b] = r]
      BY <1>2, <2>r, <1>x DEF Become
    <2>2. /\ DOMAIN r = Fields /\ r.pc = "turn" /\ r.from = x.from /\ r.spent = x.spent
          /\ r.used = x.used /\ r.ceiling = MaxSteps /\ r.base = x.base /\ r.n = x.n
          /\ r.window = x.window
      BY <2>r, <1>0 DEF BodyTypes, Fields
    <2>3. BodyTypes(r)
      BY <1>0, BodiesAssumption, <2>2 DEF BodyTypes, Unrefused
    <2>4. WithinBudget(r, parks)
      <3>1. Len(parks) \in Nat /\ SpentAt(0, parks) = 0 /\ MaxSteps \in Nat \ {0}
        BY BodiesAssumption DEF BodiesIInv, RecordsGood, SpentAt
      <3>2. x.from = 0 /\ x.spent = 0 /\ x.used = 0
        BY <1>0 DEF BodyTypes
      <3> QED BY <2>2, <3>1, <3>2 DEF WithinBudget
    <2>5. AsDecided(r, taken[b], parks, gate, answered)
      BY <1>0, <2>2 DEF AsDecided
    <2>7. Numbered(b, r, calls, beside)
      BY <2>2 DEF Numbered
    <2>6. GoodBody(b, r, taken'[b])
      BY <2>3, <2>4, <2>5, <2>7, <1>u DEF GoodBody
    <2> QED BY <1>l, <1>a, <2>1, <2>6, <1>u, Moved
  <1>3. ASSUME parkedAt = "approved", NEW p, p = parks[Len(parks)], p.used < MaxSteps,
               Become(b, [body[b] EXCEPT !.pc = "acting", !.from = Len(parks), !.spent = p.spent,
                                         !.ceiling = MaxSteps - p.used, !.batch = p.batch,
                                         !.window = resumeWindow(p.actions)])
        PROVE  BodiesIInv'
    <2>1. parks # <<>> /\ gate = "approved" /\ ~(answered < Len(parks))
      BY <1>3 DEF parkedAt
    <2>2. /\ parks \in Seq(ParkRecords) /\ Len(parks) \in Nat /\ answered \in Nat
          /\ answered <= Len(parks)
      BY DEF BodiesIInv, RecordsGood
    <2>3. Len(parks) \in 1 .. Len(parks) /\ answered = Len(parks)
      BY <2>1, <2>2
    <2>k. PICK k : k = Len(parks) /\ k \in Nat /\ k > 0 /\ answered = k
      BY <2>2, <2>3
    <2>4. /\ p.used \in Nat /\ p.spent = p.used /\ p.used <= MaxSteps
          /\ \A a : Count(p.actions, a) \in Nat
      BY <2>2, <2>3, <1>3, ParkFacts
    <2>5. SpentAt(k, parks) = p.used /\ \A a : Approved(k, a, parks) = Count(p.actions, a)
      BY <2>k, <1>3 DEF SpentAt, Approved
    <2>c. PICK c : c = MaxSteps - p.used /\ c \in Nat /\ c > 0
      BY <1>3, <2>4, BodiesAssumption
    <2>w. PICK w : /\ w = resumeWindow(p.actions) /\ w \in [ContractActions -> Nat]
                   /\ \A a \in ContractActions : w[a] = Count(p.actions, a)
      <3>1. PICK q : q = p.actions
        OBVIOUS
      <3>2. \A a : Count(q, a) \in Nat
        BY <2>4, <3>1
      <3>3. /\ resumeWindow(q) \in [ContractActions -> Nat]
            /\ \A a \in ContractActions : resumeWindow(q)[a] = Count(q, a)
        BY <3>2 DEF resumeWindow
      <3> QED BY <3>1, <3>3
    <2>r. PICK r : r = [x EXCEPT !.pc = "acting", !.from = k, !.spent = p.spent, !.ceiling = c,
                                 !.batch = p.batch, !.window = w]
      OBVIOUS
    <2>6. body' = [body EXCEPT ![b] = r]
      BY <1>3, <2>r, <2>k, <2>c, <2>w, <1>x DEF Become
    <2>7. /\ DOMAIN r = Fields /\ r.pc = "acting" /\ r.from = k /\ r.spent = p.spent
          /\ r.used = x.used /\ r.ceiling = c /\ r.base = x.base /\ r.n = x.n
          /\ r.window = w
      BY <2>r, <1>0 DEF BodyTypes, Fields
    <2>8. x.used = 0 /\ x.from = 0
      BY <1>0 DEF BodyTypes
    <2>9. BodyTypes(r)
      BY <1>0, <2>k, <2>c, <2>w, <2>4, <2>7 DEF BodyTypes, Unrefused
    <2>10. WithinBudget(r, parks) /\ Numbered(b, r, calls, beside)
      BY <2>k, <2>c, <2>4, <2>5, <2>7, <2>8 DEF WithinBudget, Numbered
    <2>11. AsDecided(r, taken[b], parks, gate, answered)
      <3>1. ASSUME NEW a \in ContractActions, needsApproval(a)
            PROVE  taken[b][a] + r.window[a] <= Approved(r.from, a, parks)
        <4>1. taken[b][a] + x.window[a] <= 0
          BY <1>0, <2>8, <3>1 DEF AsDecided, Approved
        <4>2. taken[b][a] \in Nat /\ x.window[a] \in Nat
          BY <1>0, Known DEF BodyTypes
        <4>3. taken[b][a] = 0
          BY <4>1, <4>2
        <4>4. r.window[a] = Count(p.actions, a) /\ Approved(r.from, a, parks) = Count(p.actions, a)
          BY <2>w, <2>5, <2>7
        <4> QED BY <4>3, <4>4, <2>4
      <3> QED BY <2>1, <2>k, <2>7, <3>1 DEF AsDecided
    <2>12. GoodBody(b, r, taken'[b])
      BY <2>9, <2>10, <2>11, <1>u DEF GoodBody
    <2> QED BY <1>l, <1>a, <2>6, <2>12, <1>u, Moved
  <1> QED BY <1>1, <1>2, <1>3 DEF StartAgent, CannotStart

LEMMA TurnKeeps ==
    ASSUME BodiesIInv, NEW b \in Bodies, Turn(b) PROVE BodiesIInv'
  <1>l. body[b].pc \notin Over
    BY DEF Turn, At, Over
  <1>u. UNCHANGED <<step, fold, gate, parks, answered, calls, taken, unrecorded, beside>>
    BY DEF Turn, logged, history
  <1>a. Apart
    BY <1>u, Alone
  <1>x. PICK x : x = body[b]
    OBVIOUS
  <1>0. /\ BodyTypes(x) /\ WithinBudget(x, parks) /\ AsDecided(x, taken[b], parks, gate, answered)
        /\ x.pc = "turn"
    BY <1>x, Known DEF Turn, At
  <1>1. /\ x.used < x.ceiling /\ x.spent = x.used + SpentAt(x.from, parks) /\ x.from <= Len(parks)
        /\ x.ceiling = MaxSteps - SpentAt(x.from, parks)
        /\ x.used \in Nat /\ x.spent \in Nat /\ x.ceiling \in Nat /\ x.from \in Nat
    BY <1>0 DEF WithinBudget, Looping, BodyTypes
  <1>2. SpentAt(x.from, parks) \in Nat /\ \A a : Approved(x.from, a, parks) \in Nat
    BY <1>1, SpentFacts DEF BodiesIInv, RecordsGood
  <1>y. PICK y : y = [x EXCEPT !.used = @ + 1, !.spent = @ + 1, !.window = NoCalls]
    OBVIOUS
  <1>3. \E q, place : /\ body' = [body EXCEPT ![b] = [y EXCEPT !.batch = q, !.pc = place]]
                      /\ place \in {"fail", "succeed", "park", "acting"}
                      /\ place = "succeed" => ~x.refused
                      /\ place = "park" => q \in Batches
    <2>d. DOMAIN y = Fields
      BY <1>0, <1>y DEF BodyTypes, Fields
    <2>e. \A place : [y EXCEPT !.pc = place] = [y EXCEPT !.batch = y.batch, !.pc = place]
      BY <2>d DEF Fields
    <2>1. CASE Become(b, [y EXCEPT !.pc = "fail"])
      BY <2>1, <2>e DEF Become
    <2>2. CASE Become(b, [y EXCEPT !.pc = IF body[b].refused THEN "fail" ELSE "succeed"])
      BY <2>2, <2>e, <1>x DEF Become
    <2>3. ASSUME NEW q \in Batches, NEW place \in {"fail", "park", "acting"},
                 Become(b, [y EXCEPT !.batch = q, !.pc = place])
          PROVE  \E p, at : /\ body' = [body EXCEPT ![b] = [y EXCEPT !.batch = p, !.pc = at]]
                            /\ at \in {"fail", "succeed", "park", "acting"}
                            /\ at = "succeed" => ~x.refused
                            /\ at = "park" => p \in Batches
      BY <2>3 DEF Become
    <2>4. ASSUME NEW q \in Batches
          PROVE  (CASE ~(Range(q) \subseteq toolsFor) -> "fail"
                    [] Range(q) \subseteq toolsFor /\ DOMAIN Pending(q) # {}
                         -> IF body[b].refused THEN "fail" ELSE "park"
                    [] OTHER -> "acting") \in {"fail", "park", "acting"}
      OBVIOUS
    <2> QED BY <2>1, <2>2, <2>3, <2>4, <1>x, <1>y DEF Turn
  <1>4. PICK q, place : /\ body' = [body EXCEPT ![b] = [y EXCEPT !.batch = q, !.pc = place]]
                        /\ place \in {"fail", "succeed", "park", "acting"}
                        /\ place = "succeed" => ~x.refused
                        /\ place = "park" => q \in Batches
    BY <1>3
  <1>5. /\ DOMAIN y = Fields /\ y.from = x.from /\ y.spent = x.spent + 1
        /\ y.used = x.used + 1 /\ y.ceiling = x.ceiling /\ y.base = x.base /\ y.n = x.n
        /\ y.window = NoCalls /\ y.refused = x.refused
    BY <1>y, <1>0 DEF BodyTypes, Fields
  <1>r. PICK r : r = [y EXCEPT !.batch = q, !.pc = place]
    OBVIOUS
  <1>6. /\ DOMAIN r = Fields /\ r.pc = place /\ r.from = x.from /\ r.spent = x.spent + 1
        /\ r.used = x.used + 1 /\ r.ceiling = x.ceiling /\ r.base = x.base /\ r.n = x.n
        /\ r.window = NoCalls /\ r.refused = x.refused /\ r.batch = q
    BY <1>r, <1>5 DEF Fields
  <1>7. NoCalls \in [ContractActions -> Nat] /\ \A a \in ContractActions : NoCalls[a] = 0
    BY DEF NoCalls
  <1>8. BodyTypes(r)
    BY <1>0, <1>1, <1>4, <1>6, <1>7 DEF BodyTypes, Unrefused
  <1>9. WithinBudget(r, parks) /\ Numbered(b, r, calls, beside)
    <2>1. /\ x.spent + 1 <= MaxSteps /\ x.used + 1 <= x.ceiling /\ x.ceiling > 0
          /\ x.spent + 1 = x.used + 1 + SpentAt(x.from, parks)
      BY <1>1, <1>2, BodiesAssumption
    <2> QED BY <2>1, <1>1, <1>4, <1>6 DEF WithinBudget, Numbered
  <1>10. AsDecided(r, taken[b], parks, gate, answered)
    <2>1. ASSUME NEW a \in ContractActions, needsApproval(a)
          PROVE  taken[b][a] + r.window[a] <= Approved(r.from, a, parks)
      <3>1. taken[b][a] + x.window[a] <= Approved(x.from, a, parks)
        BY <1>0, <2>1 DEF AsDecided
      <3>2. taken[b][a] \in Nat /\ x.window[a] \in Nat /\ Approved(x.from, a, parks) \in Nat
        BY <1>0, <1>2, Known DEF BodyTypes
      <3>3. r.window[a] = 0 /\ r.from = x.from
        BY <1>6, <1>7
      <3> QED BY <3>1, <3>2, <3>3
    <2> QED BY <1>0, <1>6, <2>1 DEF AsDecided
  <1>11. GoodBody(b, r, taken'[b])
    BY <1>8, <1>9, <1>10, <1>u DEF GoodBody
  <1> QED BY <1>l, <1>a, <1>r, <1>4, <1>11, <1>u, Moved

(* The window of a call once it was made, or refused.                       *)
Used(window, a, may) == [window EXCEPT ![a] = IF @ > 0 /\ may THEN @ - 1 ELSE @]

(* Using an approved call takes it from the window.                         *)
LEMMA UsedWindow ==
    ASSUME NEW w \in [ContractActions -> Nat], NEW a, NEW may
    PROVE  /\ Used(w, a, may) \in [ContractActions -> Nat]
           /\ \A c \in ContractActions : c # a \/ ~may => Used(w, a, may)[c] = w[c]
           /\ a \in ContractActions /\ may /\ w[a] > 0 => Used(w, a, may)[a] = w[a] - 1
           /\ \A c \in ContractActions : Used(w, a, may)[c] <= w[c]
  <1>1. CASE a \in ContractActions
    <2>1. w[a] \in Nat
      BY <1>1
    <2>2. w[a] > 0 => w[a] - 1 \in Nat
      BY <2>1
    <2> QED BY <1>1, <2>1, <2>2 DEF Used
  <1>2. CASE a \notin ContractActions
    <2>1. Used(w, a, may) = w
      BY <1>2 DEF Used
    <2> QED BY <1>2, <2>1
  <1> QED BY <1>1, <1>2

LEMMA ExecuteKeeps ==
    ASSUME BodiesIInv, NEW b \in Bodies, Execute(b) PROVE BodiesIInv'
  <1>l. body[b].pc \notin Over
    BY DEF Execute, At, Over
  <1>u. UNCHANGED <<step, fold, gate, parks, answered, calls, unrecorded, beside>>
    BY DEF Execute, logged
  <1>a. Apart
    BY <1>u, Alone
  <1>x. PICK x : x = body[b]
    OBVIOUS
  <1>0. /\ BodyTypes(x) /\ WithinBudget(x, parks) /\ AsDecided(x, taken[b], parks, gate, answered)
        /\ x.pc = "acting"
    BY <1>x, Known DEF Execute, At
  <1>h. PICK a : a = Head(x.batch)
    OBVIOUS
  <1>m. PICK may : may = MayInvoke(b, a) /\ may \in BOOLEAN
    BY DEF MayInvoke
  <1>w. PICK w : w = Used(x.window, a, may)
    OBVIOUS
  <1>1. MayInvoke(b, a) => /\ a \in ContractActions
                           /\ needsApproval(a) => x.window[a] > 0
    BY <1>x, BodiesAssumption DEF MayInvoke, Check
  <1>2. \E q, refused, place :
            /\ body' = [body EXCEPT ![b] = [x EXCEPT !.batch = q, !.refused = refused,
                                                     !.window = w, !.pc = place]]
            /\ place = "acting" \/ place = AfterBatch(b, refused)
    <2> DEFINE done(ok) ==
            [x EXCEPT !.batch = Tail(x.batch), !.refused = (x.refused \/ ~ok),
                      !.window[a] = IF @ > 0 /\ MayInvoke(b, a) THEN @ - 1 ELSE @,
                      !.pc = IF Tail(x.batch) = <<>> THEN AfterBatch(b, x.refused \/ ~ok)
                             ELSE "acting"]
    <2>1. \E ok \in BOOLEAN : body' = [body EXCEPT ![b] = done(ok)]
      <3>1. CASE ~MayInvoke(b, a)
        <4>1. body' = [body EXCEPT ![b] = done(FALSE)]
          BY <1>x, <1>h, <3>1 DEF Execute, Become
        <4> QED BY <4>1
      <3>2. CASE MayInvoke(b, a)
        <4>1. \E outcome \in Invoke(a) : body' = [body EXCEPT ![b] = done(outcome = "done")]
          BY <1>x, <1>h, <3>2, ZenonT(60) DEF Execute, Become
        <4> HIDE DEF done
        <4>2. PICK outcome \in Invoke(a) : body' = [body EXCEPT ![b] = done(outcome = "done")]
          BY <4>1
        <4>3. (outcome = "done") \in BOOLEAN
          OBVIOUS
        <4> QED BY <4>2, <4>3
      <3> QED BY <3>1, <3>2
    <2>2. PICK ok \in BOOLEAN : body' = [body EXCEPT ![b] = done(ok)]
      BY <2>1
    <2>3. PICK refused : refused = (x.refused \/ ~ok)
      OBVIOUS
    <2>4. PICK place : place = IF Tail(x.batch) = <<>> THEN AfterBatch(b, refused) ELSE "acting"
      OBVIOUS
    <2>5. done(ok) = [x EXCEPT !.batch = Tail(x.batch), !.refused = refused, !.window = w, !.pc = place]
      BY <1>m, <1>w, <2>3, <2>4 DEF Used
    <2>6. place = "acting" \/ place = AfterBatch(b, refused)
      BY <2>4
    <2> HIDE DEF done
    <2> QED BY <2>2, <2>5, <2>6
  <1>q. PICK q, refused, place :
            /\ body' = [body EXCEPT ![b] = [x EXCEPT !.batch = q, !.refused = refused,
                                                     !.window = w, !.pc = place]]
            /\ place = "acting" \/ place = AfterBatch(b, refused)
    BY <1>2
  <1>3. /\ x.used \in Nat /\ x.ceiling \in Nat /\ x.used <= x.ceiling /\ x.ceiling > 0
        /\ x.window \in [ContractActions -> Nat] /\ x.from \in Nat /\ x.from <= Len(parks)
    BY <1>0 DEF BodyTypes, WithinBudget, Looping
  <1>4. /\ place \in {"acting", "turn", "fail", "succeed"}
        /\ place = "turn" => x.used < x.ceiling
        /\ place = "succeed" => ~refused
    BY <1>q, <1>3, <1>x DEF AfterBatch
  <1>r. PICK r : r = [x EXCEPT !.batch = q, !.refused = refused, !.window = w, !.pc = place]
    OBVIOUS
  <1>5. /\ DOMAIN r = Fields /\ r.pc = place /\ r.from = x.from /\ r.spent = x.spent
        /\ r.used = x.used /\ r.ceiling = x.ceiling /\ r.base = x.base /\ r.n = x.n
        /\ r.window = w /\ r.refused = refused
    BY <1>r, <1>0 DEF BodyTypes, Fields
  <1>6. /\ w \in [ContractActions -> Nat]
        /\ \A c \in ContractActions : c # a => w[c] = x.window[c]
        /\ ~may => \A c \in ContractActions : w[c] = x.window[c]
        /\ a \in ContractActions /\ may /\ x.window[a] > 0 => w[a] = x.window[a] - 1
        /\ \A c \in ContractActions : w[c] <= x.window[c]
    BY <1>w, <1>3, UsedWindow
  <1>7. BodyTypes(r)
    BY <1>0, <1>4, <1>5, <1>6 DEF BodyTypes, Unrefused
  <1>8. WithinBudget(r, parks) /\ Numbered(b, r, calls, beside)
    BY <1>0, <1>4, <1>5 DEF WithinBudget, Numbered, Looping
  <1>t. taken \in [Bodies -> [ContractActions -> Nat]] /\ taken[b] \in [ContractActions -> Nat]
    BY Known
  <1>9. \/ taken' = taken
        \/ may /\ taken' = [taken EXCEPT ![b] = [taken[b] EXCEPT ![a] = taken[b][a] + 1]]
    BY <1>h, <1>x, <1>m DEF Execute
  <1>10. /\ taken' \in [Bodies -> [ContractActions -> Nat]]
         /\ \A c \in Bodies : c # b => taken'[c] = taken[c]
         /\ \A c \in ContractActions :
                taken'[b][c] = taken[b][c] \/ (may /\ c = a /\ taken'[b][c] = taken[b][c] + 1)
    <2>1. CASE taken' = taken
      BY <1>t, <2>1
    <2>2. CASE may /\ taken' = [taken EXCEPT ![b] = [taken[b] EXCEPT ![a] = taken[b][a] + 1]]
      <3>1. a \in ContractActions
        BY <1>1, <1>m, <2>2
      <3>2. taken[b][a] + 1 \in Nat
        BY <1>t, <3>1
      <3>3. PICK d : d = [taken[b] EXCEPT ![a] = taken[b][a] + 1]
        OBVIOUS
      <3>4. /\ d \in [ContractActions -> Nat] /\ d[a] = taken[b][a] + 1
            /\ \A c \in ContractActions : c # a => d[c] = taken[b][c]
        BY <1>t, <3>1, <3>2, <3>3
      <3>5. taken' = [taken EXCEPT ![b] = d]
        BY <2>2, <3>3
      <3> QED BY <1>t, <2>2, <3>4, <3>5
    <2> QED BY <1>9, <2>1, <2>2
  <1>11. \A c \in ContractActions : Approved(x.from, c, parks) \in Nat
    BY <1>3, SpentFacts DEF BodiesIInv, RecordsGood
  <1>12. AsDecided(r, taken'[b], parks, gate, answered)
    <2>1. ASSUME NEW c \in ContractActions, needsApproval(c)
          PROVE  taken'[b][c] + r.window[c] <= Approved(r.from, c, parks)
      <3>1. taken[b][c] + x.window[c] <= Approved(x.from, c, parks)
        BY <1>0, <2>1 DEF AsDecided
      <3>2. /\ taken[b][c] \in Nat /\ x.window[c] \in Nat /\ Approved(x.from, c, parks) \in Nat
            /\ w[c] \in Nat /\ w[c] <= x.window[c]
        BY <1>t, <1>3, <1>6, <1>11
      <3>3. CASE taken'[b][c] = taken[b][c]
        BY <3>1, <3>2, <3>3, <1>5
      <3>4. CASE may /\ c = a /\ taken'[b][c] = taken[b][c] + 1
        <4>1. x.window[c] > 0 /\ w[c] = x.window[c] - 1
          BY <1>1, <1>m, <1>6, <2>1, <3>4
        <4> QED BY <3>1, <3>2, <3>4, <4>1, <1>5
      <3> QED BY <1>10, <3>3, <3>4
    <2> QED BY <1>0, <1>5, <2>1 DEF AsDecided
  <1>13. GoodBody(b, r, taken'[b])
    BY <1>7, <1>8, <1>12, <1>u DEF GoodBody
  <1>14. body' = [body EXCEPT ![b] = r]
    BY <1>q, <1>r
  <1> QED BY <1>l, <1>a, <1>10, <1>13, <1>14, BodyStep DEF Apart

LEMMA ParkKeeps ==
    ASSUME BodiesIInv, NEW b \in Bodies, Park(b) PROVE BodiesIInv'
  <1>l. body[b].pc \notin Over
    BY DEF Park, At, Over
  <1>u. UNCHANGED <<step, fold, gate, answered, calls, taken, unrecorded, beside>>
    BY DEF Park, history
  <1>x. PICK x : x = body[b]
    OBVIOUS
  <1>0. /\ BodyTypes(x) /\ WithinBudget(x, parks) /\ AsDecided(x, taken[b], parks, gate, answered)
        /\ x.pc = "park"
    BY <1>x, Known DEF Park, At
  <1>1. CASE x.stopped
    <2>1. Goto(b, "fail") /\ UNCHANGED parks
      BY <1>1, <1>x DEF Park
    <2>2. Apart
      BY <1>u, <2>1, Alone
    <2> QED BY <1>l, <1>u, <2>1, <2>2, FailStep
  <1>2. CASE ~x.stopped
    <2>1. /\ x.from \in Nat /\ x.from <= Len(parks) /\ x.used \in Nat /\ x.spent \in Nat
          /\ x.spent = x.used + SpentAt(x.from, parks) /\ x.spent <= MaxSteps /\ x.batch \in Batches
      BY <1>0 DEF BodyTypes, WithinBudget, Looping
    <2>2. parks \in Seq(ParkRecords) /\ SpentAt(x.from, parks) \in Nat /\ Len(parks) \in Nat
      BY <2>1, SpentFacts DEF BodiesIInv, RecordsGood
    <2>3. StepsUsed(b) = x.spent
      BY <1>x, <2>1, <2>2 DEF StepsUsed, SpentAt
    <2>4. PICK rec : /\ rec = [actions |-> Pending(x.batch), batch |-> x.batch,
                               used |-> x.spent, spent |-> x.spent]
                     /\ rec \in ParkRecords
      <3>1. x.spent \in 0 .. MaxSteps /\ x.batch \in Batches
        BY <2>1, BodiesAssumption
      <3>2. ASSUME NEW q \in Batches, NEW u \in 0 .. MaxSteps
            PROVE  [actions |-> Pending(q), batch |-> q, used |-> u, spent |-> u] \in ParkRecords
        BY DEF ParkRecords
      <3> QED BY <3>1, <3>2
    <2>5. parks' = Append(parks, rec) /\ Goto(b, "ask")
      BY <1>2, <1>x, <2>3, <2>4 DEF Park
    <2>6. /\ parks' \in Seq(ParkRecords) /\ Len(parks') = Len(parks) + 1
          /\ \A k \in 1 .. Len(parks) : parks'[k] = parks[k]
      BY <2>2, <2>4, <2>5
    <2>7. \A k \in Nat : k <= Len(parks) => /\ SpentAt(k, parks') = SpentAt(k, parks)
                                            /\ \A a : Approved(k, a, parks') = Approved(k, a, parks)
      BY <2>2, <2>6 DEF SpentAt, Approved
    <2>8. BudgetKept
      <3>1. ASSUME NEW r, r.from \in Nat, WithinBudget(r, parks) PROVE WithinBudget(r, parks')
        <4>1. r.from <= Len(parks) /\ r.from <= Len(parks') /\ SpentAt(r.from, parks') = SpentAt(r.from, parks)
          BY <3>1, <2>2, <2>6, <2>7 DEF WithinBudget
        <4> QED BY <3>1, <4>1 DEF WithinBudget
      <3> QED BY <3>1 DEF BudgetKept
    <2>9. DecidedKept
      <3>1. ASSUME NEW r, NEW done, r.from \in Nat, WithinBudget(r, parks),
                   AsDecided(r, done, parks, gate, answered)
            PROVE  AsDecided(r, done, parks', gate', answered')
        <4>1. \A a : Approved(r.from, a, parks') = Approved(r.from, a, parks)
          BY <3>1, <2>7 DEF WithinBudget
        <4> QED BY <3>1, <4>1, <1>u DEF AsDecided
      <3> QED BY <3>1 DEF DecidedKept
    <2>10. Apart
      <3>1. RecordsGood'
        BY <1>u, <2>2, <2>6 DEF BodiesIInv, RecordsGood
      <3> QED BY <1>u, <2>8, <2>9, <3>1 DEF Apart, BodiesIInv, AttemptsGood
    <2>r. PICK r : r = [x EXCEPT !.pc = "ask"]
      OBVIOUS
    <2>11. body' = [body EXCEPT ![b] = r]
      BY <2>5, <2>r, <1>x DEF Goto, Become
    <2>12. /\ DOMAIN r = Fields /\ r.pc = "ask" /\ r.from = x.from /\ r.spent = x.spent
           /\ r.used = x.used /\ r.ceiling = x.ceiling /\ r.base = x.base /\ r.n = x.n
           /\ r.window = x.window
      BY <2>r, <1>0 DEF BodyTypes, Fields
    <2>13. BodyTypes(r)
      BY <1>0, <2>12 DEF BodyTypes, Unrefused
    <2>14. WithinBudget(r, parks) /\ Numbered(b, r, calls', beside')
      BY <1>0, <2>12 DEF WithinBudget, Numbered, Looping
    <2>15. AsDecided(r, taken[b], parks, gate, answered)
      BY <1>0, <2>12 DEF AsDecided
    <2>16. r.from \in Nat
      BY <2>1, <2>12
    <2>17. WithinBudget(r, parks')
      BY <2>8, <2>14, <2>16 DEF BudgetKept
    <2>18. AsDecided(r, taken[b], parks', gate', answered')
      BY <2>9, <2>14, <2>15, <2>16 DEF DecidedKept
    <2>19. GoodBody(b, r, taken'[b])
      BY <2>13, <2>14, <2>17, <2>18, <1>u DEF GoodBody
    <2> QED BY <1>l, <1>u, <2>10, <2>11, <2>19, Moved
  <1> QED BY <1>1, <1>2

LEMMA RequestParkKeeps ==
    ASSUME BodiesIInv, NEW b \in Bodies, RequestPark(b) PROVE BodiesIInv'
  <1>l. body[b].pc \notin Over
    BY DEF RequestPark, At, Over
  <1>u. UNCHANGED <<step, fold, parks, answered, calls, taken, unrecorded, beside>>
    BY DEF RequestPark, history
  <1>1. CASE Goto(b, "fail") /\ UNCHANGED gate
    <2>1. Apart
      BY <1>u, <1>1, Alone
    <2> QED BY <1>l, <1>u, <1>1, <2>1, FailStep
  <1>2. CASE Leave(b, "parked") /\ gate \notin {"approved", "denied"} /\ gate' = "open"
    <2>1. BudgetKept
      BY <1>u DEF BudgetKept
    <2>2. DecidedKept
      <3>1. ASSUME NEW r, NEW done, r.from \in Nat, AsDecided(r, done, parks, gate, answered)
            PROVE  AsDecided(r, done, parks', gate', answered')
        <4>1. ~(r.from > 0)
          BY <1>2, <3>1 DEF AsDecided
        <4> QED BY <1>u, <3>1, <4>1 DEF AsDecided
      <3> QED BY <3>1 DEF DecidedKept
    <2>3. RecordsGood'
      BY <1>u DEF BodiesIInv, RecordsGood
    <2>4. Apart
      BY <1>u, <2>1, <2>2, <2>3 DEF Apart, BodiesIInv, AttemptsGood
    <2>5. "parked" \in Over
      BY DEF Over
    <2> QED BY <1>l, <1>u, <1>2, <2>4, <2>5, LeaveStep
  <1> QED BY <1>1, <1>2 DEF RequestPark

(* Steps that leave every body where it is.                                 *)
LEMMA BodiesStay ==
    ASSUME BodiesIInv, UNCHANGED <<body, taken, calls, beside, unrecorded, parks>>,
           fold'.attempt = fold.attempt, DOMAIN fold' = DOMAIN fold,
           answered' \in Nat, answered' <= Len(parks), DecidedKept
    PROVE  BodiesIInv'
  <1>1. RecordsGood'
    BY DEF BodiesIInv, RecordsGood
  <1>2. ASSUME NEW b \in Bodies
        PROVE  GoodBody(b, body'[b], taken'[b])
    <2>x. PICK x : x = body[b] /\ x = body'[b]
      OBVIOUS
    <2>d. PICK d : d = taken[b] /\ d = taken'[b]
      OBVIOUS
    <2>1. /\ BodyTypes(x) /\ WithinBudget(x, parks) /\ AsDecided(x, d, parks, gate, answered)
          /\ Numbered(b, x, calls, beside)
      BY <2>x, <2>d, Known
    <2>2. AsDecided(x, d, parks', gate', answered')
      BY <2>1 DEF DecidedKept, BodyTypes
    <2> QED BY <2>x, <2>d, <2>1, <2>2 DEF GoodBody
  <1>3. BodiesGood'
    <2>1. DOMAIN body' = Bodies /\ taken' \in [Bodies -> [ContractActions -> Nat]]
      BY DEF BodiesIInv, BodiesGood
    <2> QED BY <1>2, <2>1 DEF BodiesGood, GoodBody
  <1>4. Live' = Live
    BY DEF Live
  <1>5. AttemptsGood'
    BY <1>4 DEF BodiesIInv, AttemptsGood
  <1> QED BY <1>1, <1>3, <1>5 DEF BodiesIInv

LEMMA SweepKeeps == ASSUME BodiesIInv, Sweep PROVE BodiesIInv'
  <1>1. UNCHANGED <<body, taken, calls, beside, unrecorded, parks, gate, answered>>
    BY DEF Sweep, history
  <1>2. fold'.attempt = fold.attempt /\ DOMAIN fold' = DOMAIN fold
    BY DEF Sweep, BodiesIInv, AttemptsGood
  <1>3. DecidedKept
    BY <1>1, NothingDecided
  <1> QED BY <1>1, <1>2, <1>3, BodiesStay DEF BodiesIInv, RecordsGood

LEMMA DecideKeeps == ASSUME BodiesIInv, Decide PROVE BodiesIInv'
  <1>1. UNCHANGED <<body, taken, calls, beside, unrecorded, parks>> /\ answered' = Len(parks)
    BY DEF Decide, history
  <1>2. fold'.attempt = fold.attempt /\ DOMAIN fold' = DOMAIN fold
    BY DEF Decide, BodiesIInv, AttemptsGood
  <1>3. DecidedKept
    <2>1. ASSUME NEW r, NEW done, r.from \in Nat, AsDecided(r, done, parks, gate, answered)
          PROVE  AsDecided(r, done, parks', gate', answered')
      <3>1. ~(r.from > 0)
        BY <2>1 DEF AsDecided, Decide
      <3> QED BY <1>1, <2>1, <3>1 DEF AsDecided
    <2> QED BY <2>1 DEF DecidedKept
  <1>4. Len(parks) \in Nat
    BY DEF BodiesIInv, RecordsGood
  <1> QED BY <1>1, <1>2, <1>3, <1>4, BodiesStay

LEMMA DispatchKeeps == ASSUME BodiesIInv, Dispatch PROVE BodiesIInv'
  <1>u. UNCHANGED <<step, gate, parks, answered, calls, taken, unrecorded>>
    BY DEF Dispatch
  <1>b. PICK b \in Bodies : b = fold.attempt + 1
    BY DEF Dispatch
  <1>r. PICK r : r = [IdleBody EXCEPT !.pc = "start"]
    OBVIOUS
  <1>1. /\ body' = [body EXCEPT ![b] = r] /\ fold'.attempt = b
        /\ DOMAIN fold' = {"attempt", "verdict", "released", "closed"}
        /\ beside' = IF Live = {} THEN beside ELSE beside \cup Live \cup {b}
    BY <1>b, <1>r DEF Dispatch, Become, BodiesIInv, AttemptsGood
  <1>2. DOMAIN body' = Bodies /\ body'[b] = r /\ \A c \in Bodies : c # b => body'[c] = body[c]
    BY <1>1, Known
  <1>3. taken[b] = NoCalls /\ body[b].pc = "idle" /\ fold.attempt \in Nat /\ b \in Nat
    BY <1>b DEF BodiesIInv, AttemptsGood
  <1>4. /\ DOMAIN r = Fields /\ r.pc = "start" /\ r.from = 0 /\ r.spent = 0 /\ r.used = 0
        /\ r.ceiling = 0 /\ r.base = 0 /\ r.n = 0 /\ r.window = NoCalls /\ ~r.refused
    BY <1>r DEF IdleBody, Fields
  <1>5. NoCalls \in [ContractActions -> Nat] /\ \A a \in ContractActions : NoCalls[a] = 0
    BY DEF NoCalls
  <1>6. RecordsGood' /\ Len(parks) \in Nat
    BY <1>u DEF BodiesIInv, RecordsGood
  <1>7. GoodBody(b, r, taken'[b])
    <2>1. BodyTypes(r)
      BY <1>4, <1>5 DEF BodyTypes
    <2>2. WithinBudget(r, parks) /\ Numbered(b, r, calls', beside')
      BY <1>4, <1>6, BodiesAssumption DEF WithinBudget, Numbered, Looping
    <2>3. AsDecided(r, NoCalls, parks, gate, answered)
      BY <1>4, <1>5 DEF AsDecided, Approved
    <2> QED BY <1>u, <1>3, <2>1, <2>2, <2>3 DEF GoodBody
  <1>8. ASSUME NEW c \in Bodies, c # b
        PROVE  GoodBody(c, body'[c], taken'[c])
    <2>x. PICK x : x = body[c] /\ x = body'[c]
      BY <1>2, <1>8
    <2>1. /\ BodyTypes(x) /\ WithinBudget(x, parks) /\ AsDecided(x, taken[c], parks, gate, answered)
          /\ Numbered(c, x, calls, beside)
      BY <2>x, Known
    <2>2. Numbered(c, x, calls', beside')
      BY <1>1, <1>u, <2>1 DEF Numbered
    <2> QED BY <1>u, <2>x, <2>1, <2>2 DEF GoodBody
  <1>9. BodiesGood'
    <2>1. \A c \in Bodies : GoodBody(c, body'[c], taken'[c])
      BY <1>2, <1>7, <1>8
    <2>2. taken' \in [Bodies -> [ContractActions -> Nat]]
      BY <1>u, Known
    <2> QED BY <1>2, <2>1, <2>2 DEF BodiesGood, GoodBody
  <1>10. AttemptsGood'
    <2>1. Live' \subseteq Live \cup {b}
      BY <1>2 DEF Live
    <2>2. \A c, d \in Live' : c # d => c \in beside'
      BY <1>1, <2>1
    <2>3. \A c \in Bodies : c > fold'.attempt => c > fold.attempt /\ c # b
      BY <1>1, <1>b, <1>3 DEF Bodies
    <2>4. \A c \in Bodies : c > fold'.attempt => body'[c].pc = "idle" /\ taken'[c] = NoCalls
      BY <1>2, <1>u, <2>3 DEF BodiesIInv, AttemptsGood
    <2>5. unrecorded' \subseteq beside'
      BY <1>u, <1>1 DEF BodiesIInv, AttemptsGood
    <2> QED BY <1>1, <1>3, <2>2, <2>4, <2>5 DEF AttemptsGood
  <1> QED BY <1>6, <1>9, <1>10 DEF BodiesIInv

LEMMA BodiesNextKeeps == BodiesIInv /\ [BodiesNext]_bodiesVars => BodiesIInv'
  <1> SUFFICES ASSUME BodiesIInv, [BodiesNext]_bodiesVars PROVE BodiesIInv'
    OBVIOUS
  <1>1. CASE Dispatch
    BY <1>1, DispatchKeeps
  <1>2. CASE Sweep
    BY <1>2, SweepKeeps
  <1>3. CASE Decide
    BY <1>3, DecideKeeps
  <1>4. ASSUME NEW b \in Bodies,
               \/ LoseLease(b) \/ Crash(b) \/ End(b)
               \/ StartModel(b) \/ CallModel(b) \/ RecordCall(b) \/ giveUp(b)
               \/ StartAgent(b) \/ Turn(b) \/ Execute(b) \/ Park(b) \/ RequestPark(b)
        PROVE  BodiesIInv'
    BY <1>4, LoseLeaseKeeps, CrashKeeps, EndKeeps, StartModelKeeps, CallModelKeeps, RecordCallKeeps,
       GiveUpKeeps, StartAgentKeeps, TurnKeeps, ExecuteKeeps, ParkKeeps, RequestParkKeeps
  <1>5. CASE UNCHANGED bodiesVars
    <2>1. UNCHANGED <<fold, body, taken, calls, beside, unrecorded, parks, gate, answered>>
      BY <1>5 DEF bodiesVars
    <2>2. DecidedKept
      BY <2>1, NothingDecided
    <2> QED BY <2>1, <2>2, BodiesStay DEF BodiesIInv, RecordsGood
  <1> QED BY <1>1, <1>2, <1>3, <1>4, <1>5 DEF BodiesNext

(* The inductive invariant of the bodies holds throughout.                  *)
LEMMA AlwaysBodiesIInv == BodiesSpec => []BodiesIInv
  BY BodiesInitIInv, BodiesNextKeeps, PTL DEF BodiesSpec

(* An agent does what may not be repeated only as a person decided about it *)
(* (parkedAt, resumeWindow), spends no more model calls than its ceiling in *)
(* all its segments (Resume, park), and does not end well once it has been  *)
(* refused anything (guard).                                                *)
THEOREM AgentsStayInBounds == BodiesSpec => []StaysInBounds
  <1>1. BodiesIInv => StaysInBounds
    <2> SUFFICES ASSUME BodiesIInv PROVE StaysInBounds
      OBVIOUS
    <2>1. ASSUME NEW b \in Bodies, NEW a \in ContractActions, needsApproval(a), taken[b][a] > 0
          PROVE  /\ body[b].from > 0 /\ gate = "approved" /\ answered = body[b].from
                 /\ taken[b][a] <= Count(parks[body[b].from].actions, a)
      <3>x. PICK x : x = body[b]
        OBVIOUS
      <3>1. /\ BodyTypes(x) /\ WithinBudget(x, parks) /\ AsDecided(x, taken[b], parks, gate, answered)
            /\ taken[b][a] \in Nat
        BY <3>x, Known
      <3>2. taken[b][a] + x.window[a] <= Approved(x.from, a, parks)
        BY <2>1, <3>1 DEF AsDecided
      <3>3. x.from \in Nat /\ x.from <= Len(parks) /\ x.window[a] \in Nat
        BY <3>1 DEF BodyTypes, WithinBudget
      <3>4. Approved(x.from, a, parks) \in Nat
        BY <3>3, SpentFacts DEF BodiesIInv, RecordsGood
      <3>5. x.from > 0 /\ taken[b][a] <= Approved(x.from, a, parks)
        <4>1. taken[b][a] <= Approved(x.from, a, parks)
          BY <3>1, <3>2, <3>3, <3>4
        <4>2. Approved(x.from, a, parks) # 0
          BY <4>1, <2>1, <3>1, <3>4
        <4> QED BY <3>3, <4>1, <4>2 DEF Approved
      <3>6. gate = "approved" /\ answered = x.from
        BY <3>1, <3>5 DEF AsDecided
      <3> QED BY <3>x, <3>3, <3>5, <3>6 DEF Approved
    <2>2. ActsAsDecided
      BY <2>1 DEF ActsAsDecided
    <2>3. WithinCeiling
      BY Known DEF WithinCeiling, WithinBudget
    <2>4. RefusedFails
      BY Known DEF RefusedFails, At, BodyTypes, Unrefused
    <2> QED BY <2>2, <2>3, <2>4 DEF StaysInBounds
  <1> QED BY <1>1, AlwaysBodiesIInv, PTL

(* A model step's call is in llm_calls, however often the step was tried    *)
(* before, unless two of its bodies ran side by side (callsMade, Record).   *)
THEOREM ModelCallsAreRecorded == BodiesSpec => []CallsAreRecorded
  <1>1. BodiesIInv => CallsAreRecorded
    BY DEF BodiesIInv, AttemptsGood, CallsAreRecorded
  <1> QED BY <1>1, AlwaysBodiesIInv, PTL
===============================================================================
