------------------------------- MODULE Folding -------------------------------
(***************************************************************************)
(* What the proofs know of a fold over a sequence: it is the last of a     *)
(* row of values, each made of the one before it and the next element.     *)
(* The other modules write the loops of the code as folds                  *)
(* (SequencesExt!FoldLeft), and a proof about a loop is an induction over  *)
(* that row.                                                               *)
(*                                                                         *)
(* Op(p, a, x) is one round of the loop: a is what the rounds before it    *)
(* made, x the next element, and p what the loop reads and leaves alone.   *)
(* A module that has a proof about a loop INSTANCEs this one with its own  *)
(* operator for Op.                                                        *)
(***************************************************************************)
EXTENDS Integers, SequencesExt, WellFoundedInduction, TLAPS

CONSTANT Op(_, _, _)

Fold(p, base, s) == FoldLeft(LAMBDA a, x : Op(p, a, x), base, s)

-----------------------------------------------------------------------------
(***************************************************************************)
(* Induction, with a set in the place of the predicate.                    *)
(***************************************************************************)
\* Every set of numbers that is not empty has a least one.
LEMMA Least ==
    ASSUME NEW T \in SUBSET Nat, T # {}
    PROVE  \E n \in T : \A m \in T : n <= m
<1> DEFINE R == OpToRel(<, Nat)
<1>1. IsWellFoundedOn(R, Nat)
  BY NatLessThanWellFounded
<1>2. \A m, n \in Nat : <<m, n>> \in R <=> m < n
  BY DEF R, OpToRel
<1> HIDE DEF R
<1>3. PICK n \in T : \A m \in T : ~(<<m, n>> \in R)
  BY <1>1, WFMin
<1>4. ASSUME NEW m \in T PROVE n <= m
  <2>1. ~(m < n)
    BY <1>2, <1>3
  <2> QED BY <2>1
<1> QED BY <1>4

\* A set with 0 and with the next of each of its numbers has all of them.
LEMMA NatIsIn ==
    ASSUME NEW T, 0 \in T, \A n \in Nat : n \in T => n + 1 \in T
    PROVE  Nat \subseteq T
<1>1. SUFFICES ASSUME Nat \ T # {} PROVE FALSE
  OBVIOUS
<1>2. PICK n \in Nat \ T : \A m \in Nat \ T : n <= m
  BY <1>1, Least
<1>3. n - 1 \in Nat /\ n - 1 + 1 = n
  OBVIOUS
<1>4. ~(n <= n - 1)
  BY <1>3
<1> QED BY <1>2, <1>3, <1>4

\* The same for the numbers from 0 to n.
LEMMA IntervalIsIn ==
    ASSUME NEW n \in Nat, NEW T, 0 \in T, \A k \in 1 .. n : k - 1 \in T => k \in T
    PROVE  0 .. n \subseteq T
<1> DEFINE U == {k \in Nat : k <= n => k \in T}
<1>1. 0 \in U
  OBVIOUS
<1>2. ASSUME NEW k \in Nat, k \in U PROVE k + 1 \in U
  <2>1. CASE k + 1 <= n
    <3>1. k + 1 \in 1 .. n /\ k + 1 - 1 = k /\ k \in T
      BY <1>2, <2>1
    <3>2. k + 1 \in T
      BY <3>1
    <3> QED BY <3>2
  <2>2. CASE ~(k + 1 <= n)
    BY <2>2
  <2> QED BY <2>1, <2>2
<1>3. Nat \subseteq U
  BY <1>1, <1>2, NatIsIn
<1> QED BY <1>3

\* And for sequences: a set with the empty one and with every longer one by an element.
LEMMA SeqIsIn ==
    ASSUME NEW S, NEW T, <<>> \in T,
           \A s \in Seq(S) : \A x \in S : s \in T => Append(s, x) \in T
    PROVE  Seq(S) \subseteq T
<1> DEFINE U == {n \in Nat : \A s \in Seq(S) : Len(s) = n => s \in T}
<1>1. 0 \in U
  <2>1. \A s \in Seq(S) : Len(s) = 0 => s = <<>>
    OBVIOUS
  <2> QED BY <2>1
<1>2. ASSUME NEW n \in Nat, n \in U PROVE n + 1 \in U
  <2> SUFFICES ASSUME NEW s \in Seq(S), Len(s) = n + 1 PROVE s \in T
    OBVIOUS
  <2> DEFINE t == SubSeq(s, 1, n)
  <2>1. t \in Seq(S) /\ Len(t) = n /\ s[n + 1] \in S
    OBVIOUS
  <2>2. s = Append(t, s[n + 1])
    OBVIOUS
  <2>3. t \in T
    BY <1>2, <2>1
  <2> HIDE DEF t
  <2> QED BY <2>1, <2>2, <2>3
<1>3. Nat \subseteq U
  BY <1>1, <1>2, NatIsIn
<1> QED BY <1>3

-----------------------------------------------------------------------------
(***************************************************************************)
(* The function that FoldLeft is defined by recurs on the indices of the   *)
(* sequence, the largest taken out first.  That there is such a function   *)
(* is what has to be shown: each is made of the one for an index less.     *)
(***************************************************************************)
IsIter(g, p, base, s, n) ==
    g = [t \in SUBSET (1 .. n) |-> IF t = {} THEN base ELSE Op(p, g[t \ {Max(t)}], s[Max(t)])]

\* The largest of some numbers up to n + 1, with n + 1 among them.
LEMMA MaxOfInterval ==
    ASSUME NEW n \in Nat, NEW t \in SUBSET (1 .. n + 1), n + 1 \in t
    PROVE  Max(t) = n + 1
<1>1. \A y \in t : y <= n + 1
  OBVIOUS
<1>2. \A x \in t : (\A y \in t : x >= y) => x = n + 1
  OBVIOUS
<1> QED BY <1>1, <1>2 DEF Max

\* The function for one index more.
LEMMA NextIter ==
    ASSUME NEW p, NEW base, NEW s, NEW n \in Nat, NEW h, IsIter(h, p, base, s, n)
    PROVE  \E g : IsIter(g, p, base, s, n + 1)
<1> DEFINE g == [t \in SUBSET (1 .. n + 1) |->
                    IF n + 1 \in t THEN Op(p, h[t \ {n + 1}], s[n + 1]) ELSE h[t]]
<1>1. \A t \in SUBSET (1 .. n) : n + 1 \notin t /\ t \in SUBSET (1 .. n + 1)
  OBVIOUS
<1>2. ASSUME NEW t \in SUBSET (1 .. n + 1), n + 1 \notin t PROVE t \in SUBSET (1 .. n)
  <2>1. ASSUME NEW x \in t PROVE x \in 1 .. n
    BY <1>2
  <2> QED BY <2>1
<1>3. \A t \in SUBSET (1 .. n) : g[t] = h[t]
  BY <1>1
<1>4. ASSUME NEW t \in SUBSET (1 .. n + 1)
      PROVE  g[t] = IF t = {} THEN base ELSE Op(p, g[t \ {Max(t)}], s[Max(t)])
  <2>1. CASE n + 1 \in t
    <3>1. Max(t) = n + 1
      BY <2>1, MaxOfInterval
    <3>2. t \ {n + 1} \in SUBSET (1 .. n)
      BY <1>2
    <3>3. g[t] = Op(p, h[t \ {n + 1}], s[n + 1])
      BY <2>1
    <3> QED BY <2>1, <3>1, <3>2, <3>3, <1>3
  <2>2. CASE n + 1 \notin t
    <3>1. t \in SUBSET (1 .. n)
      BY <2>2, <1>2
    <3>2. h[t] = IF t = {} THEN base ELSE Op(p, h[t \ {Max(t)}], s[Max(t)])
      BY <3>1 DEF IsIter
    <3>3. t \ {Max(t)} \in SUBSET (1 .. n)
      BY <3>1
    <3> QED BY <3>1, <3>2, <3>3, <1>3
  <2> QED BY <2>1, <2>2
<1> HIDE DEF g
<1>5. g = [t \in SUBSET (1 .. n + 1) |-> g[t]]
  BY DEF g
<1>6. IsIter(g, p, base, s, n + 1)
  BY <1>4, <1>5 DEF IsIter
<1> QED BY <1>6

\* The function exists for every length.
LEMMA IterExists ==
    ASSUME NEW p, NEW base, NEW s
    PROVE  \A n \in Nat : \E g : IsIter(g, p, base, s, n)
<1> DEFINE T == {n \in Nat : \E g : IsIter(g, p, base, s, n)}
<1>1. 0 \in T
  <2> DEFINE g == [t \in SUBSET (1 .. 0) |-> base]
  <2>1. \A t \in SUBSET (1 .. 0) : t = {}
    OBVIOUS
  <2>2. IsIter(g, p, base, s, 0)
    BY <2>1 DEF IsIter
  <2> HIDE DEF g
  <2> QED BY <2>2
<1>2. ASSUME NEW n \in Nat, n \in T PROVE n + 1 \in T
  BY <1>2, NextIter
<1> HIDE DEF T
<1>3. Nat \subseteq T
  BY <1>1, <1>2, NatIsIn
<1> QED BY <1>3 DEF T

\* The values that a fold over s, of length n, goes through.
IsTrace(a, p, base, s, n) ==
    /\ a[0] = base
    /\ \A k \in 1 .. n : a[k] = Op(p, a[k - 1], s[k])
    /\ Fold(p, base, s) = a[n]

\* Every fold has such a row of values.
LEMMA FoldTrace ==
    ASSUME NEW p, NEW base, NEW n \in Nat, NEW s, DOMAIN s = 1 .. n
    PROVE  \E a : IsTrace(a, p, base, s, n)
<1> DEFINE g == CHOOSE g : g = [t \in SUBSET (1 .. n) |->
                   IF t = {} THEN base ELSE Op(p, g[t \ {Max(t)}], s[Max(t)])]
           F == Fold(p, base, s)
<1>1. IsIter(g, p, base, s, n)
  <2>1. \E h : IsIter(h, p, base, s, n)
    BY IterExists
  <2>2. \E h : h = [t \in SUBSET (1 .. n) |->
                        IF t = {} THEN base ELSE Op(p, h[t \ {Max(t)}], s[Max(t)])]
    BY <2>1 DEF IsIter
  <2>3. g = [t \in SUBSET (1 .. n) |-> IF t = {} THEN base ELSE Op(p, g[t \ {Max(t)}], s[Max(t)])]
    BY <2>2, Zenon
  <2> QED BY <2>3 DEF IsIter
<1>2. F = g[1 .. n]
  BY DEF Fold, FoldLeft, MapThenFoldSet
<1> HIDE DEF g, F
<1> DEFINE a == [k \in 0 .. n |-> g[1 .. k]]
<1>3. a[0] = base
  <2>1. (1 .. 0) \in SUBSET (1 .. n) /\ 1 .. 0 = {}
    OBVIOUS
  <2>2. g[1 .. 0] = base
    BY <1>1, <2>1 DEF IsIter
  <2> QED BY <2>2
<1>4. ASSUME NEW k \in 1 .. n PROVE a[k] = Op(p, a[k - 1], s[k])
  <2>1. k \in Nat /\ k - 1 \in Nat /\ k - 1 + 1 = k /\ k \in 0 .. n /\ k - 1 \in 0 .. n
    OBVIOUS
  <2>2. 1 .. k \in SUBSET (1 .. n) /\ k \in 1 .. k
    OBVIOUS
  <2>3. Max(1 .. k) = k
    <3>1. 1 .. k \in SUBSET (1 .. k - 1 + 1) /\ k - 1 + 1 \in 1 .. k
      BY <2>1, <2>2
    <3> QED BY <2>1, <3>1, MaxOfInterval
  <2>4. (1 .. k) \ {k} = 1 .. k - 1
    OBVIOUS
  <2>5. g[1 .. k] = Op(p, g[(1 .. k) \ {k}], s[k])
    <3>1. 1 .. k # {}
      BY <2>2
    <3> QED BY <1>1, <2>2, <2>3, <3>1 DEF IsIter
  <2> QED BY <2>1, <2>4, <2>5
<1>5. F = a[n]
  BY <1>2
<1> HIDE DEF a
<1>6. IsTrace(a, p, base, s, n)
  BY <1>3, <1>4, <1>5 DEF IsTrace, F
<1> QED BY <1>6

-----------------------------------------------------------------------------
\* A fold over nothing is what it began with.
LEMMA FoldEmpty == ASSUME NEW p, NEW base PROVE Fold(p, base, <<>>) = base
<1>1. 0 \in Nat /\ DOMAIN <<>> = 1 .. 0
  OBVIOUS
<1>2. PICK a : IsTrace(a, p, base, <<>>, 0)
  BY <1>1, FoldTrace
<1> QED BY <1>2 DEF IsTrace

\* The last element goes into a fold last.
LEMMA FoldAppend ==
    ASSUME NEW p, NEW base, NEW S, NEW s \in Seq(S), NEW x \in S
    PROVE  Fold(p, base, Append(s, x)) = Op(p, Fold(p, base, s), x)
<1> DEFINE n == Len(s)
           m == n + 1
           u == Append(s, x)
<1>1. /\ n \in Nat /\ m \in Nat /\ m - 1 = n /\ m \in 1 .. m /\ 1 .. n \subseteq 1 .. m
      /\ DOMAIN s = 1 .. n /\ DOMAIN u = 1 .. m
  OBVIOUS
<1>2. (\A k \in 1 .. n : u[k] = s[k]) /\ u[m] = x
  OBVIOUS
<1> HIDE DEF n, m, u
<1>3. PICK a : IsTrace(a, p, base, s, n)
  BY <1>1, FoldTrace
<1>4. PICK b : IsTrace(b, p, base, u, m)
  BY <1>1, FoldTrace
<1> DEFINE T == {k \in 0 .. n : a[k] = b[k]}
<1>5. 0 \in T
  BY <1>1, <1>3, <1>4 DEF IsTrace
<1>6. ASSUME NEW k \in 1 .. n, k - 1 \in T PROVE k \in T
  <2>1. k \in 1 .. m /\ k \in 0 .. n
    BY <1>1
  <2>2. a[k] = Op(p, a[k - 1], s[k]) /\ b[k] = Op(p, b[k - 1], s[k])
    BY <1>2, <1>3, <1>4, <2>1 DEF IsTrace
  <2> QED BY <1>6, <2>1, <2>2
<1> HIDE DEF T
<1>7. n \in T
  BY <1>1, <1>5, <1>6, IntervalIsIn
<1>8. a[n] = b[n]
  BY <1>7 DEF T
<1>9. b[m] = Op(p, b[n], x)
  <2>1. b[m] = Op(p, b[m - 1], u[m])
    BY <1>1, <1>4 DEF IsTrace
  <2> QED BY <1>1, <1>2, <2>1
<1> QED BY <1>3, <1>4, <1>8, <1>9 DEF IsTrace, u

\* A fold over two sequences goes on with the second where the first ended.
LEMMA FoldConcat ==
    ASSUME NEW p, NEW base, NEW S, NEW s \in Seq(S), NEW t \in Seq(S)
    PROVE  Fold(p, base, s \o t) = Fold(p, Fold(p, base, s), t)
<1> DEFINE a == Fold(p, base, s)
           T == {u \in Seq(S) : Fold(p, base, s \o u) = Fold(p, a, u)}
<1>1. <<>> \in T
  <2>1. s \o <<>> = s /\ <<>> \in Seq(S)
    OBVIOUS
  <2> HIDE DEF a
  <2>2. Fold(p, a, <<>>) = a
    BY FoldEmpty
  <2> QED BY <2>1, <2>2 DEF a
<1>2. ASSUME NEW u \in Seq(S), NEW x \in S, u \in T PROVE Append(u, x) \in T
  <2> DEFINE w == s \o u
  <2>1. w \in Seq(S) /\ Append(u, x) \in Seq(S) /\ s \o Append(u, x) = Append(w, x)
    OBVIOUS
  <2> HIDE DEF a, w
  <2>2. Fold(p, base, Append(w, x)) = Op(p, Fold(p, base, w), x)
    BY <2>1, FoldAppend
  <2>3. Fold(p, a, Append(u, x)) = Op(p, Fold(p, a, u), x)
    BY FoldAppend
  <2>4. Fold(p, base, w) = Fold(p, a, u)
    BY <1>2 DEF w
  <2> QED BY <2>1, <2>2, <2>3, <2>4
<1> HIDE DEF T
<1>3. t \in T
  BY <1>1, <1>2, SeqIsIn
<1> QED BY <1>3 DEF T, a

\* What the beginning has and every round keeps, the result has.
LEMMA FoldIsIn ==
    ASSUME NEW p, NEW T, NEW base \in T, NEW S, NEW s \in Seq(S),
           \A a \in T, x \in S : Op(p, a, x) \in T
    PROVE  Fold(p, base, s) \in T
<1> DEFINE U == {t \in Seq(S) : Fold(p, base, t) \in T}
<1>1. <<>> \in U
  BY FoldEmpty
<1>2. ASSUME NEW t \in Seq(S), NEW x \in S, t \in U PROVE Append(t, x) \in U
  <2>1. Append(t, x) \in Seq(S)
    OBVIOUS
  <2>2. Fold(p, base, Append(t, x)) = Op(p, Fold(p, base, t), x)
    BY FoldAppend
  <2> QED BY <1>2, <2>1, <2>2
<1> HIDE DEF U
<1>3. Seq(S) \subseteq U
  BY <1>1, <1>2, SeqIsIn
<1> QED BY <1>3 DEF U
=============================================================================
