---------------------------- MODULE FoldTheorems ----------------------------
(***************************************************************************)
(* What the folds of the models compute.  The induction theorems of the      *)
(* library take an operator, which the provers cannot instantiate; here a    *)
(* property of numbers is the set of those that have it, and the step of a   *)
(* fold is a function on the values that occur in it.                        *)
(*                                                                          *)
(* FoldLeft is MapThenFoldSet over the indexes of a sequence, from the       *)
(* largest down: a function iter on sets of indexes.  FoldOf says that there *)
(* is one, so that the CHOOSE that defines it is well defined, and FoldWalk  *)
(* that such a function is a walk along the sequence from the left.          *)
(***************************************************************************)
EXTENDS Integers, Retaining, WellFoundedInduction, SequenceTheorems, TLAPS

Smaller == {p \in Nat \X Nat : p[1] < p[2]}

\* Of every set of natural numbers one is the least.
THEOREM Least ==
  ASSUME NEW T \in SUBSET Nat, T # {}
  PROVE  \E x \in T : \A y \in T : x <= y
<1>1. OpToRel(<, Nat) = Smaller
  BY Zenon DEF OpToRel, Smaller
<1>2. IsWellFoundedOn(Smaller, Nat)
  BY <1>1, NatLessThanWellFounded
<1>3. PICK x \in T : \A y \in T : ~(<<y, x>> \in Smaller)
  BY <1>2, WFMin
<1>4. \A y \in T : <<y, x>> \in Smaller <=> y < x
  BY DEF Smaller
<1>6. ASSUME NEW y \in T PROVE x <= y
  <2>1. ~(y < x)
    BY <1>3, <1>4, Zenon
  <2>2. x \in Nat /\ y \in Nat
    OBVIOUS
  <2> QED
    BY <2>1, <2>2
<1> QED
  BY <1>6

\* Induction, for the set of numbers that have a property.
THEOREM Induction ==
  ASSUME NEW P \in SUBSET Nat, 0 \in P, \A n \in P : n + 1 \in P
  PROVE  P = Nat
<1>1. SUFFICES ASSUME Nat \ P # {} PROVE FALSE
  OBVIOUS
<1>2. PICK x \in Nat \ P : \A y \in Nat \ P : x <= y
  BY <1>1, Least
<1>3. x # 0 /\ x - 1 \in Nat /\ x - 1 \in P /\ (x - 1) + 1 = x
  BY <1>2
<1> QED
  BY <1>2, <1>3

\* The same along a walk of bounded length.
THEOREM InductionUpTo ==
  ASSUME NEW len \in Nat, NEW P \in SUBSET Nat, 0 \in P,
         \A n \in 1..len : n - 1 \in P => n \in P
  PROVE  \A n \in 0..len : n \in P
<1> DEFINE Q == {n \in Nat : n <= len => n \in P}
<1>1. ASSUME NEW n \in Q PROVE n + 1 \in Q
  <2>1. SUFFICES ASSUME n + 1 <= len PROVE n + 1 \in P
    OBVIOUS
  <2>2. n + 1 \in 1..len /\ (n + 1) - 1 = n /\ n \in P
    BY <2>1
  <2> QED
    BY <2>2
<1>2. Q \in SUBSET Nat /\ 0 \in Q
  OBVIOUS
<1> HIDE DEF Q
<1>3. Q = Nat
  BY <1>1, <1>2, Induction
<1> QED
  BY <1>3 DEF Q

\* And of every set of bounded numbers one is the greatest.
THEOREM Greatest ==
  ASSUME NEW n \in Nat, NEW T \in SUBSET (0..n), T # {}
  PROVE  \E x \in T : \A y \in T : y <= x
<1> DEFINE R == {n - y : y \in T}
<1>1. R \in SUBSET Nat /\ R # {}
  <2>1. \A y \in T : n - y \in Nat
    OBVIOUS
  <2> QED
    BY <2>1
<1> HIDE DEF R
<1>2. PICK r \in R : \A y \in R : r <= y
  BY <1>1, Least
<1>3. PICK x \in T : r = n - x
  BY DEF R
<1>4. ASSUME NEW y \in T PROVE y <= x
  <2>1. n - y \in R /\ y \in 0..n /\ x \in 0..n
    BY DEF R
  <2> QED
    BY <1>2, <1>3, <2>1
<1> QED
  BY <1>4

LEMMA MaxIs ==
  ASSUME NEW n \in Nat, NEW t \in SUBSET (1..n), n \in t
  PROVE  Max(t) = n
<1>1. n \in t /\ \A y \in t : n >= y
  OBVIOUS
<1>2. Max(t) \in t /\ \A y \in t : Max(t) >= y
  BY <1>1, Zenon DEF Max
<1>3. Max(t) >= n /\ n >= Max(t)
  BY <1>1, <1>2, Zenon
<1>4. t \subseteq 1..n /\ Max(t) \in 1..n
  BY <1>2
<1>5. Max(t) \in Int
  BY <1>4
<1> HIDE DEF Max
<1> QED
  BY <1>3, <1>5

LEMMA FunctionIsSeq ==
  ASSUME NEW S, NEW n \in Nat, NEW f \in [1..n -> S]
  PROVE  f \in Seq(S) /\ Len(f) = n /\ DOMAIN f = 1..n
  OBVIOUS

\* iter computes a fold over any of the first n indexes.
Folds(iter, n, A, base, step) ==
  /\ iter \in [SUBSET (1..n) -> A]
  /\ iter[{}] = base
  /\ \A t \in SUBSET (1..n) :
       t # {} => Max(t) \in t /\ iter[t] = step[<<iter[t \ {Max(t)}], Max(t)>>]

LEMMA FoldLonger ==
  ASSUME NEW n \in Nat, NEW A, NEW base, NEW step,
         \A a \in A : step[<<a, n + 1>>] \in A,
         NEW g, Folds(g, n, A, base, step)
  PROVE  \E h : Folds(h, n + 1, A, base, step)
<1> DEFINE h == [t \in SUBSET (1..(n + 1)) |->
                   IF n + 1 \in t THEN step[<<g[t \ {n + 1}], n + 1>>] ELSE g[t]]
<1>1. \A t \in SUBSET (1..(n + 1)) :
        /\ t \ {n + 1} \in SUBSET (1..n)
        /\ n + 1 \notin t => t \in SUBSET (1..n)
  OBVIOUS
<1>2. h \in [SUBSET (1..(n + 1)) -> A]
  <2>1. \A t \in SUBSET (1..(n + 1)) : h[t] \in A
    BY <1>1 DEF Folds
  <2> QED
    BY <2>1
<1>3. h[{}] = base
  <2>1. {} \in SUBSET (1..(n + 1)) /\ n + 1 \notin {}
    OBVIOUS
  <2> QED
    BY <2>1 DEF Folds
<1>4. ASSUME NEW t \in SUBSET (1..(n + 1)), t # {}
      PROVE  Max(t) \in t /\ h[t] = step[<<h[t \ {Max(t)}], Max(t)>>]
  <2>1. CASE n + 1 \in t
    <3>1. Max(t) = n + 1
      BY <2>1, MaxIs
    <3>2. t \ {n + 1} \in SUBSET (1..(n + 1)) /\ h[t \ {n + 1}] = g[t \ {n + 1}]
      BY <1>1
    <3> QED
      BY <2>1, <3>1, <3>2
  <2>2. CASE n + 1 \notin t
    <3>1. t \in SUBSET (1..n)
      BY <1>1, <2>2
    <3>2. Max(t) \in t /\ g[t] = step[<<g[t \ {Max(t)}], Max(t)>>]
      BY <1>4, <3>1 DEF Folds
    <3>3. /\ t \ {Max(t)} \in SUBSET (1..(n + 1)) /\ n + 1 \notin t \ {Max(t)}
      BY <2>2
    <3> QED
      BY <2>2, <3>2, <3>3
  <2> QED
    BY <2>1, <2>2
<1> HIDE DEF h
<1>5. Folds(h, n + 1, A, base, step)
  BY <1>2, <1>3, <1>4 DEF Folds
<1> QED
  BY <1>5

\* There is such a function for every sequence.
THEOREM FoldOf ==
  ASSUME NEW len \in Nat, NEW A, NEW base \in A, NEW step \in [A \X (1..len) -> A]
  PROVE  \E iter : Folds(iter, len, A, base, step)
<1> DEFINE P == {n \in Nat : n <= len => \E g : Folds(g, n, A, base, step)}
<1>1. 0 \in P
  <2> DEFINE g == [t \in SUBSET (1..0) |-> base]
  <2>1. 1..0 = {} /\ SUBSET (1..0) = {{}}
    OBVIOUS
  <2>2. Folds(g, 0, A, base, step)
    BY <2>1 DEF Folds
  <2> QED
    BY <2>2
<1>2. ASSUME NEW n \in P PROVE n + 1 \in P
  <2>1. SUFFICES ASSUME n + 1 <= len PROVE \E h : Folds(h, n + 1, A, base, step)
    OBVIOUS
  <2>2. PICK g : Folds(g, n, A, base, step)
    BY <2>1
  <2>3. n \in Nat /\ n + 1 \in 1..len
    BY <2>1
  <2>4. \A a \in A : step[<<a, n + 1>>] \in A
    BY <2>3
  <2> QED
    BY <2>2, <2>3, <2>4, FoldLonger
<1> HIDE DEF P
<1>3. P = Nat
  <2>1. P \in SUBSET Nat
    BY DEF P
  <2> QED
    BY <1>1, <1>2, <2>1, Induction
<1> QED
  BY <1>3 DEF P

\* iter satisfies the equations of a fold as far as its values are in A.
Solves(iter, n, A, base, step) ==
  /\ iter[{}] = base
  /\ \A t \in SUBSET (1..n) :
       t # {} /\ Max(t) \in 1..n /\ iter[t \ {Max(t)}] \in A =>
         iter[t] = step[<<iter[t \ {Max(t)}], Max(t)>>]

\* A walk in A by the steps, from base to last.
WalksTo(last, n, A, base, step) ==
  \E f \in [0..n -> A] :
    /\ f[0] = base /\ f[n] = last
    /\ \A k \in 1..n : f[k] = step[<<f[k - 1], k>>]

\* So it walks to its value at the whole sequence.
THEOREM FoldWalk ==
  ASSUME NEW len \in Nat, NEW A, NEW base \in A, NEW step \in [A \X (1..len) -> A],
         NEW iter, Solves(iter, len, A, base, step)
  PROVE  WalksTo(iter[1..len], len, A, base, step)
<1> DEFINE P == {n \in Nat : n <= len => iter[1..n] \in A}
           f == [n \in 0..len |-> iter[1..n]]
<1>1. ASSUME NEW n \in 1..len
      PROVE  /\ 1..n \in SUBSET (1..len) /\ 1..n # {} /\ Max(1..n) = n
             /\ (1..n) \ {n} = 1..(n - 1)
  <2>1. 1..n \in SUBSET (1..len) /\ n \in 1..n /\ n \in Nat
    OBVIOUS
  <2>2. Max(1..n) = n
    BY <2>1, MaxIs
  <2>3. (1..n) \ {n} = 1..(n - 1)
    OBVIOUS
  <2> QED
    BY <2>1, <2>2, <2>3
<1>2. 0 \in P
  <2>1. 1..0 = {}
    OBVIOUS
  <2> QED
    BY <2>1 DEF Solves
<1>3. ASSUME NEW n \in P PROVE n + 1 \in P
  <2>1. SUFFICES ASSUME n + 1 <= len PROVE iter[1..(n + 1)] \in A
    OBVIOUS
  <2>2. n + 1 \in 1..len /\ (n + 1) - 1 = n /\ iter[1..n] \in A
    BY <2>1
  <2>3. iter[1..(n + 1)] = step[<<iter[1..n], n + 1>>]
    BY <1>1, <2>2 DEF Solves
  <2> QED
    BY <2>2, <2>3
<1>4. \A n \in 0..len : iter[1..n] \in A
  <2> HIDE DEF P
  <2>1. P \in SUBSET Nat
    BY DEF P
  <2>2. P = Nat
    BY <1>2, <1>3, <2>1, Induction
  <2> QED
    BY <2>2 DEF P
<1>5. f \in [0..len -> A]
  BY <1>4
<1>6. f[0] = base /\ f[len] = iter[1..len]
  <2>1. 1..0 = {}
    OBVIOUS
  <2> QED
    BY <2>1 DEF Solves
<1>7. ASSUME NEW n \in 1..len PROVE f[n] = step[<<f[n - 1], n>>]
  <2>1. n - 1 \in 0..len /\ n \in 0..len
    OBVIOUS
  <2>2. iter[1..n] = step[<<iter[1..(n - 1)], n>>]
    BY <1>1, <1>4, <2>1 DEF Solves
  <2> QED
    BY <2>1, <2>2
<1> HIDE DEF f
<1> QED
  BY <1>5, <1>6, <1>7 DEF WalksTo

\* Any steps can be walked.
THEOREM Walk ==
  ASSUME NEW len \in Nat, NEW A, NEW base \in A, NEW step \in [A \X (1..len) -> A]
  PROVE  \E last : WalksTo(last, len, A, base, step)
<1>1. PICK iter : Folds(iter, len, A, base, step)
  BY FoldOf
<1>2. Solves(iter, len, A, base, step)
  BY <1>1 DEF Folds, Solves
<1>3. WalksTo(iter[1..len], len, A, base, step)
  BY <1>2, FoldWalk
<1> QED
  BY <1>3

\* Two walks that make the same steps come to the same end.
LEMMA OneEnd ==
  ASSUME NEW len \in Nat, NEW f, NEW g, f[0] = g[0],
         \A n \in 1..len : f[n - 1] = g[n - 1] => f[n] = g[n]
  PROVE  f[len] = g[len]
<1> DEFINE P == {n \in 0..len : f[n] = g[n]}
<1>1. P \in SUBSET Nat /\ 0 \in P /\ \A n \in 1..len : n - 1 \in P => n \in P
  OBVIOUS
<1> HIDE DEF P
<1>2. \A n \in 0..len : n \in P
  BY <1>1, InductionUpTo
<1>3. len \in P
  BY <1>2
<1> QED
  BY <1>3 DEF P

-----------------------------------------------------------------------------
(* Retain *)

\* A walk along s that keeps what is in S.
Retaining(f, s, S) ==
  /\ f[0] = <<>>
  /\ \A n \in 1..Len(s) :
       f[n] = IF s[n] \in S THEN Append(f[n - 1], s[n]) ELSE f[n - 1]

LEMMA RetainWalks ==
  ASSUME NEW E, NEW s \in Seq(E), NEW S
  PROVE  \E f \in [0..Len(s) -> Seq(E)] : Retaining(f, s, S) /\ f[Len(s)] = Retain(s, S)
<1> DEFINE Op(kept, e) == IF e \in S THEN Append(kept, e) ELSE kept
           Is(iter) == iter = [t \in SUBSET (DOMAIN s) |->
                         IF t = {} THEN <<>> ELSE Op(iter[t \ {Max(t)}], s[Max(t)])]
           step == [p \in Seq(E) \X (1..Len(s)) |-> Op(p[1], s[p[2]])]
<1>1. Retain(s, S) = (CHOOSE iter : Is(iter))[DOMAIN s]
  BY DEF Retain, FoldLeft, MapThenFoldSet
<1>2. /\ Len(s) \in Nat /\ DOMAIN s = 1..Len(s) /\ \A i \in 1..Len(s) : s[i] \in E
      /\ <<>> \in Seq(E)
  OBVIOUS
<1>3. step \in [Seq(E) \X (1..Len(s)) -> Seq(E)]
  <2>1. ASSUME NEW a \in Seq(E), NEW i \in 1..Len(s) PROVE Op(a, s[i]) \in Seq(E)
    BY <1>2
  <2> QED
    BY <2>1
<1>4. \A a \in Seq(E), i \in 1..Len(s) : step[<<a, i>>] = Op(a, s[i])
  OBVIOUS
<1> HIDE DEF step
<1>5. \E iter : Is(iter)
  <2>1. PICK iter : Folds(iter, Len(s), Seq(E), <<>>, step)
    BY <1>2, <1>3, FoldOf
  <2>2. ASSUME NEW t \in SUBSET (1..Len(s))
        PROVE  iter[t] = IF t = {} THEN <<>> ELSE Op(iter[t \ {Max(t)}], s[Max(t)])
    <3>1. CASE t = {}
      BY <2>1, <3>1 DEF Folds
    <3>2. CASE t # {}
      <4>1. Max(t) \in t /\ iter[t] = step[<<iter[t \ {Max(t)}], Max(t)>>]
        BY <2>1, <3>2 DEF Folds
      <4>2. t \ {Max(t)} \in SUBSET (1..Len(s)) /\ Max(t) \in 1..Len(s)
        BY <4>1
      <4>3. iter[t \ {Max(t)}] \in Seq(E)
        BY <2>1, <4>2 DEF Folds
      <4> QED
        BY <1>4, <3>2, <4>1, <4>2, <4>3
    <3> QED
      BY <3>1, <3>2
  <2> HIDE DEF Op
  <2>3. Is(iter)
    BY <1>2, <2>1, <2>2 DEF Folds
  <2> QED
    BY <2>3
<1> DEFINE it == CHOOSE iter : Is(iter)
<1>6. Is(it)
  BY <1>5, Zenon
<1> HIDE DEF it
<1>7. Solves(it, Len(s), Seq(E), <<>>, step)
  <2> HIDE DEF Op
  <2>1. \A t \in SUBSET (1..Len(s)) :
          it[t] = IF t = {} THEN <<>> ELSE Op(it[t \ {Max(t)}], s[Max(t)])
    BY <1>2, <1>6
  <2> QED
    BY <1>4, <2>1 DEF Solves
<1>8. WalksTo(it[1..Len(s)], Len(s), Seq(E), <<>>, step)
  BY <1>2, <1>3, <1>7, FoldWalk
<1>9. PICK f \in [0..Len(s) -> Seq(E)] :
        /\ f[0] = <<>> /\ f[Len(s)] = it[1..Len(s)]
        /\ \A n \in 1..Len(s) : f[n] = step[<<f[n - 1], n>>]
  BY <1>8 DEF WalksTo
<1>10. f[Len(s)] = Retain(s, S)
  BY <1>1, <1>2, <1>9 DEF it
<1>11. Retaining(f, s, S)
  <2>1. ASSUME NEW n \in 1..Len(s) PROVE f[n] = Op(f[n - 1], s[n])
    <3>1. n - 1 \in 0..Len(s) /\ f[n - 1] \in Seq(E)
      BY <1>2
    <3> QED
      BY <1>4, <1>9, <3>1
  <2> QED
    BY <1>9, <2>1 DEF Retaining
<1> QED
  BY <1>10, <1>11

\* r is in S, no longer than s, and has all that s has in S.
Keeps(r, s, E, S) ==
  /\ r \in Seq(E \intersect S) /\ Len(r) <= Len(s)
  /\ \A j \in 1..Len(s) : s[j] \in S => \E k \in 1..Len(r) : r[k] = s[j]

THEOREM Retained ==
  ASSUME NEW E, NEW s \in Seq(E), NEW S
  PROVE  Keeps(Retain(s, S), s, E, S)
<1>1. PICK f \in [0..Len(s) -> Seq(E)] : Retaining(f, s, S) /\ f[Len(s)] = Retain(s, S)
  BY RetainWalks
<1> DEFINE Has(n) == /\ f[n] \in Seq(E \intersect S) /\ Len(f[n]) <= n
                     /\ \A j \in 1..n : s[j] \in S =>
                          \E k \in 1..Len(f[n]) : f[n][k] = s[j]
           P == {n \in 0..Len(s) : Has(n)}
<1>2. 0 \in P
  BY <1>1 DEF Retaining
<1>3. ASSUME NEW n \in 1..Len(s), n - 1 \in P PROVE n \in P
  <2>1. Has(n - 1) /\ n \in Nat /\ n - 1 \in Nat
    BY <1>3
  <2>2. f[n] = IF s[n] \in S THEN Append(f[n - 1], s[n]) ELSE f[n - 1]
    BY <1>1 DEF Retaining
  <2>3. CASE s[n] \in S
    <3>1. s[n] \in E \intersect S
      BY <2>3
    <3>2. /\ f[n] \in Seq(E \intersect S) /\ Len(f[n]) = Len(f[n - 1]) + 1
          /\ f[n][Len(f[n])] = s[n]
          /\ \A k \in 1..Len(f[n - 1]) : f[n][k] = f[n - 1][k]
      BY <2>1, <2>2, <2>3, <3>1
    <3>3. ASSUME NEW j \in 1..n, s[j] \in S
          PROVE  \E k \in 1..Len(f[n]) : f[n][k] = s[j]
      <4>1. CASE j = n
        BY <2>1, <3>2, <4>1
      <4>2. CASE j # n
        <5>1. PICK k \in 1..Len(f[n - 1]) : f[n - 1][k] = s[j]
          BY <2>1, <3>3, <4>2
        <5>2. k \in 1..Len(f[n]) /\ f[n][k] = s[j]
          BY <2>1, <3>2, <5>1
        <5> QED
          BY <5>2
      <4> QED
        BY <4>1, <4>2
    <3>4. Len(f[n]) <= n
      BY <2>1, <3>2
    <3> QED
      BY <3>2, <3>3, <3>4
  <2>4. CASE s[n] \notin S
    <3>1. ASSUME NEW j \in 1..n, s[j] \in S
          PROVE  \E k \in 1..Len(f[n]) : f[n][k] = s[j]
      <4>1. j \in 1..(n - 1)
        BY <2>1, <2>4, <3>1
      <4> QED
        BY <2>1, <2>2, <2>4, <3>1, <4>1
    <3>2. Len(f[n]) <= n
      BY <2>1, <2>2, <2>4
    <3> QED
      BY <2>1, <2>2, <2>4, <3>1, <3>2
  <2> QED
    BY <2>3, <2>4
<1>4. Len(s) \in Nat /\ P \in SUBSET Nat
  OBVIOUS
<1> HIDE DEF P
<1>5. \A n \in 0..Len(s) : n \in P
  BY <1>2, <1>3, <1>4, InductionUpTo
<1>6. Has(Len(s))
  BY <1>4, <1>5 DEF P
<1> QED
  BY <1>1, <1>6 DEF Keeps
=============================================================================
