------------------------------- MODULE Folding -------------------------------
(***************************************************************************)
(* What a fold from the left computes, for any operator, base and sequence *)
(* (FoldLeft of the community modules).  The theorem modules instantiate   *)
(* this one with the operator of each fold they reason about.              *)
(***************************************************************************)
EXTENDS Integers, Sequences, FiniteSets, FiniteSetTheorems

CONSTANTS
    Op(_,_),    \* the operator of the fold: a value and an element to a value
    X           \* the elements

last(S) == CHOOSE x \in S : \A y \in S : x >= y

\* The value FoldLeft has once its definition is expanded.
fold(b, s) ==
  (CHOOSE g : g = [S \in SUBSET DOMAIN s |->
     IF S = {} THEN b ELSE Op(g[S \ {last(S)}], s[last(S)])])[DOMAIN s]

\* A set of naturals that is not empty has a least member.
LEMMA Least ==
  ASSUME NEW T \in SUBSET Nat, T # {}
  PROVE  \E x \in T : \A y \in T : x <= y
<1>. DEFINE R == {ss \in Nat \X Nat : ss[1] < ss[2]}
<1>1. IsWellFoundedOn(R, Nat)
  BY NatLessThanWellFounded DEF OpToRel
<1>2. PICK x \in T : \A y \in T : <<y, x>> \notin R
  <2>. HIDE DEF R
  <2>. QED BY <1>1, WFMin
<1>3. \A y \in T : ~(y < x)
  BY <1>2
<1>. QED BY <1>3

\* Induction, over the set of numbers that have a property.
LEMMA Induct ==
  ASSUME NEW S \in SUBSET Nat, 0 \in S, \A n \in S : n + 1 \in S
  PROVE  S = Nat
<1>1. SUFFICES ASSUME Nat \ S # {} PROVE FALSE
  OBVIOUS
<1>2. PICK x \in Nat \ S : \A y \in Nat \ S : x <= y
  BY Least, <1>1
<1>3. x # 0 /\ x - 1 \in Nat
  BY <1>2
<1>4. x - 1 \in S
  BY <1>2, <1>3
<1>. QED BY <1>2, <1>3, <1>4

-----------------------------------------------------------------------------
\* The equation FoldLeft solves for s, on the indices up to n.
solves(g, b, s, n) ==
  g = [S \in SUBSET (1..n) |->
         IF S = {} THEN b ELSE Op(g[S \ {last(S)}], s[last(S)])]

\* FoldLeft is such a solution, if there is one.
LEMMA FoldIsSolution ==
  \A b, s : fold(b, s) = (CHOOSE g : g = [S \in SUBSET DOMAIN s |->
         IF S = {} THEN b ELSE Op(g[S \ {last(S)}], s[last(S)])])[DOMAIN s]
BY DEF fold

\* The last of a set of positions up to n + 1 that holds n + 1.
LEMMA LastOf ==
  ASSUME NEW n \in Nat, NEW S \in SUBSET (1..(n + 1)), n + 1 \in S
  PROVE  last(S) = n + 1 /\ S \ {n + 1} \in SUBSET (1..n)
<1>1. \A y \in S : n + 1 >= y
  OBVIOUS
<1>2. \A x \in S : (\A y \in S : x >= y) => x = n + 1
  <2>. TAKE x \in S
  <2>. HAVE \A y \in S : x >= y
  <2>1. x >= n + 1 /\ x <= n + 1 /\ x \in Int
    OBVIOUS
  <2>. QED BY <2>1
<1>3. last(S) = n + 1
  BY <1>1, <1>2 DEF last
<1>. QED BY <1>3

\* With S within 1..n and not empty, last(S) is a member.
LEMMA LastIn ==
  ASSUME NEW n \in Nat
  PROVE  \A S \in SUBSET (1..n) : S # {} => last(S) \in S
<1>. DEFINE P == {m \in Nat : \A S \in SUBSET (1..m) : S # {} => last(S) \in S}
<1>1. 0 \in P
  <2>1. 1..0 = {}
    OBVIOUS
  <2>. QED BY <2>1
<1>2. \A m \in P : m + 1 \in P
  <2>. SUFFICES ASSUME NEW m \in P, NEW S \in SUBSET (1..(m + 1)), S # {} PROVE last(S) \in S
    OBVIOUS
  <2>1. CASE m + 1 \in S
    BY <2>1, LastOf
  <2>2. CASE m + 1 \notin S
    BY <2>2
  <2>. QED BY <2>1, <2>2
<1>3. P \in SUBSET Nat
  OBVIOUS
<1>4. P = Nat
  <2>. HIDE DEF P
  <2>. QED BY <1>1, <1>2, <1>3, Induct
<1>. QED BY <1>4

\* There is a solution.
LEMMA SolutionExists ==
  ASSUME NEW b, NEW s, NEW n \in Nat
  PROVE  \E g : solves(g, b, s, n)
<1>. DEFINE P == {m \in Nat : \E g : solves(g, b, s, m)}
<1>1. 0 \in P
  <2>. DEFINE g == [S \in SUBSET (1..0) |-> b]
  <2>1. solves(g, b, s, 0)
    BY DEF solves
  <2>. QED BY <2>1
<1>2. \A m \in P : m + 1 \in P
  <2>. SUFFICES ASSUME NEW m \in P PROVE \E h : solves(h, b, s, m + 1)
    OBVIOUS
  <2>1. PICK g : solves(g, b, s, m)
    OBVIOUS
  <2>. DEFINE h == [S \in SUBSET (1..(m + 1)) |->
                      IF m + 1 \in S THEN Op(g[S \ {m + 1}], s[m + 1]) ELSE g[S]]
  <2>2. ASSUME NEW S \in SUBSET (1..(m + 1))
        PROVE  h[S] = IF S = {} THEN b ELSE Op(h[S \ {last(S)}], s[last(S)])
    <3>1. CASE m + 1 \in S
      <4>1. last(S) = m + 1 /\ S \ {m + 1} \in SUBSET (1..m)
        BY <3>1, LastOf
      <4>2. h[S \ {m + 1}] = g[S \ {m + 1}]
        BY <4>1
      <4>. QED BY <3>1, <4>1, <4>2
    <3>2. CASE m + 1 \notin S
      <4>1. S \in SUBSET (1..m)
        BY <3>2
      <4>2. CASE S = {}
        BY <4>1, <4>2, <2>1 DEF solves
      <4>3. CASE S # {}
        <5>1. last(S) \in S /\ S \ {last(S)} \in SUBSET (1..m)
          BY <4>1, <4>3, LastIn
        <5>2. h[S \ {last(S)}] = g[S \ {last(S)}]
          BY <5>1
        <5>3. g[S] = Op(g[S \ {last(S)}], s[last(S)])
          BY <4>1, <4>3, <2>1 DEF solves
        <5>. QED BY <3>2, <4>3, <5>2, <5>3
      <4>. QED BY <4>2, <4>3
    <3>. QED BY <3>1, <3>2
  <2>3. solves(h, b, s, m + 1)
    <3>1. h = [S \in SUBSET (1..(m + 1)) |-> h[S]]
      OBVIOUS
    <3>. HIDE DEF h
    <3>. QED BY <2>2, <3>1 DEF solves
  <2>. QED BY <2>3
<1>3. P \in SUBSET Nat
  OBVIOUS
<1>4. P = Nat
  <2>. HIDE DEF P
  <2>. QED BY <1>1, <1>2, <1>3, Induct
<1>. QED BY <1>4

\* Sequences agree on the indices up to m; solutions agree on their subsets.
agreeUpTo(s, t, m) == \A i \in 1..m : s[i] = t[i]
agreeWithin(g, h, m) == \A S \in SUBSET (1..m) : g[S] = h[S]

\* Solutions for sequences that agree up to m agree up to m.
LEMMA SolutionsAgree ==
  ASSUME NEW b, NEW s, NEW t, NEW n \in Nat, NEW k \in Nat, NEW m \in Nat, NEW g, NEW h,
         solves(g, b, s, n), solves(h, b, t, k), m <= n, m <= k, agreeUpTo(s, t, m)
  PROVE  agreeWithin(g, h, m)
<1>. DEFINE P == {j \in Nat : j <= m => \A S \in SUBSET (1..j) : g[S] = h[S]}
<1>1. 0 \in P
  BY DEF solves
<1>2. \A j \in P : j + 1 \in P
  <2>. SUFFICES ASSUME NEW j \in P, j + 1 <= m, NEW S \in SUBSET (1..(j + 1)) PROVE g[S] = h[S]
    OBVIOUS
  <2>1. CASE j + 1 \in S
    <3>1. last(S) = j + 1 /\ S \ {j + 1} \in SUBSET (1..j)
      BY <2>1, LastOf
    <3>2. g[S \ {j + 1}] = h[S \ {j + 1}] /\ s[j + 1] = t[j + 1]
      BY <3>1 DEF agreeUpTo
    <3>3. S # {} /\ S \in SUBSET (1..n) /\ S \in SUBSET (1..k)
      BY <2>1
    <3>4. g[S] = Op(g[S \ {last(S)}], s[last(S)]) /\ h[S] = Op(h[S \ {last(S)}], t[last(S)])
      BY <3>3 DEF solves
    <3>. QED BY <3>1, <3>2, <3>4
  <2>2. CASE j + 1 \notin S
    BY <2>2
  <2>. QED BY <2>1, <2>2
<1>3. P \in SUBSET Nat
  OBVIOUS
<1>4. P = Nat
  <2>. HIDE DEF P
  <2>. QED BY <1>1, <1>2, <1>3, Induct
<1>. QED BY <1>4 DEF agreeWithin

\* FoldLeft is the value of any solution.
LEMMA FoldSolved ==
  ASSUME NEW b, NEW s \in Seq(X), NEW n \in Nat, n >= Len(s), NEW t, NEW g, solves(g, b, t, n),
         \A i \in 1..Len(s) : t[i] = s[i]
  PROVE  fold(b, s) = g[1..Len(s)]
<1>1. DOMAIN s = 1..Len(s) /\ Len(s) \in Nat
  OBVIOUS
<1>. DEFINE it == CHOOSE f : solves(f, b, s, Len(s))
<1>2. solves(it, b, s, Len(s))
  BY SolutionExists, <1>1
<1>3. fold(b, s) = it[1..Len(s)]
  BY FoldIsSolution, <1>1 DEF solves
<1>. HIDE DEF it
<1>4. agreeUpTo(t, s, Len(s)) /\ Len(s) <= n /\ Len(s) <= Len(s)
  BY <1>1 DEF agreeUpTo
<1>5. agreeWithin(g, it, Len(s))
  BY <1>1, <1>2, <1>4, SolutionsAgree
<1>6. 1..Len(s) \in SUBSET (1..Len(s))
  OBVIOUS
<1>. QED BY <1>3, <1>5, <1>6 DEF agreeWithin

-----------------------------------------------------------------------------
\* What the fold of an empty sequence is.
THEOREM FoldEmpty == \A b : fold(b, <<>>) = b
<1>. TAKE b
<1>. DEFINE e == <<>>
<1>1. e \in Seq(X) /\ Len(e) = 0
  OBVIOUS
<1>. HIDE DEF e
<1>2. PICK g : solves(g, b, e, 0)
  BY SolutionExists
<1>3. fold(b, e) = g[1..Len(e)]
  <2>1. Len(e) \in Nat /\ Len(e) >= Len(e) /\ \A i \in 1..Len(e) : e[i] = e[i]
    BY <1>1
  <2>2. solves(g, b, e, Len(e))
    BY <1>1, <1>2
  <2>. QED BY <1>1, <2>1, <2>2, FoldSolved
<1>4. 1..0 = {} /\ {} \in SUBSET (1..0)
  OBVIOUS
<1>5. g[{}] = b
  BY <1>2, <1>4 DEF solves
<1>. QED BY <1>1, <1>3, <1>4, <1>5 DEF e

\* One more element.
THEOREM FoldAppend ==
  ASSUME NEW b, NEW s \in Seq(X), NEW x \in X
  PROVE  fold(b, Append(s, x)) = Op(fold(b, s), x)
<1>. DEFINE n == Len(s)
            t == Append(s, x)
<1>1. n \in Nat /\ t \in Seq(X) /\ Len(t) = n + 1 /\ t[n + 1] = x /\ \A i \in 1..n : t[i] = s[i]
  OBVIOUS
<1>. HIDE DEF n, t
<1>2. PICK g : solves(g, b, t, n + 1)
  <2>1. n + 1 \in Nat
    BY <1>1
  <2>. QED BY <2>1, SolutionExists
<1>3. fold(b, t) = g[1..(n + 1)]
  BY <1>1, <1>2, FoldSolved
<1>4. fold(b, s) = g[1..n]
  BY <1>1, <1>2, FoldSolved DEF n
<1>5. last(1..(n + 1)) = n + 1 /\ (1..(n + 1)) \ {n + 1} = 1..n
  BY <1>1, LastOf
<1>6. g[1..(n + 1)] = Op(g[1..n], t[n + 1])
  <2>. DEFINE S == 1..(n + 1)
  <2>1. S \in SUBSET (1..(n + 1)) /\ S # {} /\ S \ {last(S)} = 1..n /\ last(S) = n + 1
    <3>1. n + 1 \in S
      BY <1>1
    <3>2. last(S) = n + 1 /\ S \ {n + 1} = 1..n
      BY <1>5
    <3>. QED BY <3>1, <3>2
  <2>. HIDE DEF S
  <2>2. g[S] = Op(g[S \ {last(S)}], t[last(S)])
    BY <1>2, <2>1 DEF solves
  <2>. QED BY <2>1, <2>2 DEF S
<1>. QED BY <1>1, <1>3, <1>4, <1>6 DEF t

-----------------------------------------------------------------------------
\* Induction over sequences: a set that holds the empty sequence and, with a
\* sequence, the one of one more element, holds them all.
THEOREM SequenceInduct ==
  ASSUME NEW S, <<>> \in S, \A s \in Seq(X), x \in X : s \in S => Append(s, x) \in S
  PROVE  Seq(X) \subseteq S
<1>. DEFINE P == {m \in Nat : \A u \in Seq(X) : Len(u) = m => u \in S}
<1>1. 0 \in P
  <2>. SUFFICES ASSUME NEW u \in Seq(X), Len(u) = 0 PROVE u \in S
    OBVIOUS
  <2>1. u = <<>>
    OBVIOUS
  <2>. QED BY <2>1
<1>2. \A m \in P : m + 1 \in P
  <2>. SUFFICES ASSUME NEW m \in P, NEW u \in Seq(X), Len(u) = m + 1 PROVE u \in S
    OBVIOUS
  <2>. DEFINE v == SubSeq(u, 1, m)
  <2>1. v \in Seq(X) /\ Len(v) = m /\ u[m + 1] \in X /\ u = Append(v, u[m + 1])
    OBVIOUS
  <2>. HIDE DEF v
  <2>2. v \in S
    BY <2>1
  <2>. QED BY <2>1, <2>2
<1>3. P \in SUBSET Nat
  OBVIOUS
<1>4. P = Nat
  <2>. HIDE DEF P
  <2>. QED BY <1>1, <1>2, <1>3, Induct
<1>. QED BY <1>4

\* A fold stays in every set its operator does not leave.
THEOREM FoldStays ==
  ASSUME NEW V, \A v \in V, x \in X : Op(v, x) \in V, NEW b \in V, NEW s \in Seq(X)
  PROVE  fold(b, s) \in V
<1>. DEFINE S == {u \in Seq(X) : fold(b, u) \in V}
<1>1. <<>> \in S
  BY FoldEmpty
<1>2. \A u \in Seq(X), x \in X : u \in S => Append(u, x) \in S
  <2>. SUFFICES ASSUME NEW u \in Seq(X), NEW x \in X, fold(b, u) \in V
                PROVE  fold(b, Append(u, x)) \in V
    OBVIOUS
  <2>. QED BY FoldAppend
<1>3. Seq(X) \subseteq S
  <2>. HIDE DEF S
  <2>. QED BY <1>1, <1>2, SequenceInduct
<1>. QED BY <1>3

\* A fold over two sequences starts the second where the first ends.
THEOREM FoldConcat ==
  ASSUME NEW b, NEW s \in Seq(X), NEW t \in Seq(X)
  PROVE  fold(b, s \o t) = fold(fold(b, s), t)
<1>. DEFINE S == {u \in Seq(X) : fold(b, s \o u) = fold(fold(b, s), u)}
<1>1. <<>> \in S
  <2>1. s \o <<>> = s
    OBVIOUS
  <2>. QED BY <2>1, FoldEmpty
<1>2. \A u \in Seq(X), x \in X : u \in S => Append(u, x) \in S
  <2>. SUFFICES ASSUME NEW u \in Seq(X), NEW x \in X, fold(b, s \o u) = fold(fold(b, s), u)
                PROVE  fold(b, s \o Append(u, x)) = fold(fold(b, s), Append(u, x))
    OBVIOUS
  <2>1. s \o Append(u, x) = Append(s \o u, x) /\ s \o u \in Seq(X)
    OBVIOUS
  <2>2. fold(b, Append(s \o u, x)) = Op(fold(b, s \o u), x)
    BY <2>1, FoldAppend
  <2>3. fold(fold(b, s), Append(u, x)) = Op(fold(fold(b, s), u), x)
    BY FoldAppend
  <2>. QED BY <2>1, <2>2, <2>3
<1>3. Seq(X) \subseteq S
  <2>. HIDE DEF S
  <2>. QED BY <1>1, <1>2, SequenceInduct
<1>. QED BY <1>3

\* A fold takes the first element first.
THEOREM FoldHead ==
  ASSUME NEW b, NEW s \in Seq(X), s # <<>>
  PROVE  fold(b, s) = fold(Op(b, Head(s)), Tail(s))
<1>. DEFINE h == Head(s)
            t == Tail(s)
            e == <<>>
            a == Append(e, h)
<1>1. h \in X /\ t \in Seq(X) /\ e \in Seq(X) /\ a \in Seq(X) /\ s = a \o t
  OBVIOUS
<1>2. fold(b, a) = Op(b, h)
  <2>. HIDE DEF h
  <2>1. fold(b, a) = Op(fold(b, e), h)
    <3>. HIDE DEF e
    <3>. QED BY <1>1, FoldAppend
  <2>. QED BY <2>1, FoldEmpty
<1>. HIDE DEF h, t, a
<1>3. fold(b, a \o t) = fold(fold(b, a), t)
  BY <1>1, FoldConcat
<1>. QED BY <1>1, <1>2, <1>3 DEF h, t

-----------------------------------------------------------------------------
(***************************************************************************)
(* Sums over finite sets (MapThenSumSet of the community modules).         *)
(***************************************************************************)

pick(S) == CHOOSE x \in S : TRUE

\* The equation a sum solves, on the subsets of S.
sums(g, w, S) ==
  g = [T \in SUBSET S |-> IF T = {} THEN 0 ELSE w[pick(T)] + g[T \ {pick(T)}]]

sum(w, S) == (CHOOSE g : sums(g, w, S))[S]

\* A sum is the chosen solution of its equations.
LEMMA SumIsSolution == \A w, S : sum(w, S) = (CHOOSE g : sums(g, w, S))[S]
BY DEF sum

\* Induction on the subsets of a finite set by their size: if C holds every one
\* whose smaller ones it holds, it holds them all.
LEMMA SizeInduct ==
  ASSUME NEW U, IsFiniteSet(U), NEW C,
         \A S \in SUBSET U :
            (\A T \in SUBSET U : Cardinality(T) < Cardinality(S) => T \in C) => S \in C
  PROVE  SUBSET U \subseteq C
<1>. DEFINE P == {n \in Nat : \A S \in SUBSET U : Cardinality(S) < n => S \in C}
<1>0. \A S \in SUBSET U : Cardinality(S) \in Nat
  BY FS_Subset, FS_CardinalityType
<1>1. 0 \in P
  BY <1>0
<1>2. \A n \in P : n + 1 \in P
  <2>. SUFFICES ASSUME NEW n \in P, NEW S \in SUBSET U, Cardinality(S) < n + 1 PROVE S \in C
    OBVIOUS
  <2>1. \A T \in SUBSET U : Cardinality(T) < Cardinality(S) => Cardinality(T) < n
    BY <1>0
  <2>2. \A T \in SUBSET U : Cardinality(T) < Cardinality(S) => T \in C
    BY <2>1
  <2>. QED BY <2>2
<1>3. P \in SUBSET Nat
  OBVIOUS
<1>4. P = Nat
  <2>. HIDE DEF P
  <2>. QED BY <1>1, <1>2, <1>3, Induct
<1>5. ASSUME NEW S \in SUBSET U PROVE S \in C
  <2>1. Cardinality(S) + 1 \in P /\ Cardinality(S) < Cardinality(S) + 1
    BY <1>0, <1>4
  <2>. QED BY <2>1
<1>. QED BY <1>5

\* What is left of a finite set without a member of it.
LEMMA Without ==
  ASSUME NEW S, IsFiniteSet(S), NEW x \in S
  PROVE  IsFiniteSet(S \ {x}) /\ Cardinality(S \ {x}) < Cardinality(S)
<1>1. IsFiniteSet(S \ {x}) /\ Cardinality(S \ {x}) = Cardinality(S) - 1 /\ Cardinality(S) \in Nat
  BY FS_RemoveElement, FS_CardinalityType
<1>. QED BY <1>1

\* What is picked from a set is in it.
LEMMA PickIn == \A S : S # {} => pick(S) \in S
BY DEF pick

\* Solutions for weights that agree on a set agree on it.
LEMMA SumsAgree ==
  ASSUME NEW R, IsFiniteSet(R), NEW g, NEW h, NEW w, NEW v, NEW S, NEW T,
         sums(g, w, S), sums(h, v, T), R \subseteq S, R \subseteq T, \A k \in R : w[k] = v[k]
  PROVE  g[R] = h[R]
<1>. DEFINE A == {n \in Nat : \A Q \in SUBSET R : IsFiniteSet(Q) /\ Cardinality(Q) = n => g[Q] = h[Q]}
<1>1. 0 \in A
  <2>. SUFFICES ASSUME NEW Q \in SUBSET R, IsFiniteSet(Q), Cardinality(Q) = 0 PROVE g[Q] = h[Q]
    OBVIOUS
  <2>1. Q = {} /\ Q \in SUBSET S /\ Q \in SUBSET T
    BY FS_EmptySet
  <2>. QED BY <2>1 DEF sums
<1>2. \A n \in A : n + 1 \in A
  <2>. SUFFICES ASSUME NEW n \in A, NEW Q \in SUBSET R, IsFiniteSet(Q), Cardinality(Q) = n + 1
                PROVE  g[Q] = h[Q]
    OBVIOUS
  <2>1. Q # {} /\ Q \in SUBSET S /\ Q \in SUBSET T
    BY FS_EmptySet
  <2>2. pick(Q) \in Q
    BY <2>1, PickIn
  <2>3. IsFiniteSet(Q \ {pick(Q)}) /\ Cardinality(Q \ {pick(Q)}) = n
    <3>1. IsFiniteSet(Q \ {pick(Q)}) /\ Cardinality(Q \ {pick(Q)}) = Cardinality(Q) - 1
      BY <2>2, FS_RemoveElement
    <3>. QED BY <3>1
  <2>4. g[Q \ {pick(Q)}] = h[Q \ {pick(Q)}] /\ w[pick(Q)] = v[pick(Q)]
    BY <2>2, <2>3
  <2>5. g[Q] = w[pick(Q)] + g[Q \ {pick(Q)}]
    BY <2>1 DEF sums
  <2>6. h[Q] = v[pick(Q)] + h[Q \ {pick(Q)}]
    BY <2>1 DEF sums
  <2>. QED BY <2>4, <2>5, <2>6
<1>3. A \in SUBSET Nat
  OBVIOUS
<1>4. A = Nat
  <2>. HIDE DEF A
  <2>. QED BY <1>1, <1>2, <1>3, Induct
<1>5. Cardinality(R) \in A /\ R \in SUBSET R
  BY <1>4, FS_CardinalityType
<1>. QED BY <1>5

\* The equations of a sum have a solution over every finite set.
LEMMA SumsExist ==
  ASSUME NEW U, IsFiniteSet(U), NEW w
  PROVE  \E g : sums(g, w, U)
<1>. DEFINE C == {S \in SUBSET U : \E g : sums(g, w, S)}
            h(T) == (CHOOSE g : sums(g, w, T))[T]
<1>1. ASSUME NEW S \in SUBSET U,
             \A T \in SUBSET U : Cardinality(T) < Cardinality(S) => T \in C
      PROVE  S \in C
  <2>0. IsFiniteSet(S) /\ \A T \in SUBSET S : IsFiniteSet(T)
    BY FS_Subset
  <2>1. \A T \in SUBSET S : T # S => sums(CHOOSE g : sums(g, w, T), w, T)
    <3>. SUFFICES ASSUME NEW T \in SUBSET S, T # S PROVE \E g : sums(g, w, T)
      OBVIOUS
    <3>1. Cardinality(T) <= Cardinality(S) /\ Cardinality(T) # Cardinality(S)
      BY <2>0, FS_Subset
    <3>2. Cardinality(T) \in Nat /\ Cardinality(S) \in Nat
      BY <2>0, FS_CardinalityType
    <3>3. Cardinality(T) < Cardinality(S)
      BY <3>1, <3>2
    <3>. QED BY <1>1, <3>3
  <2>. DEFINE k == pick(S)
              g == [T \in SUBSET S |-> IF T = {} THEN 0
                                       ELSE IF T = S THEN w[k] + h(S \ {k}) ELSE h(T)]
  <2>2. \A T \in SUBSET S : T # S /\ T # {} => h(T) = w[pick(T)] + h(T \ {pick(T)})
    <3>. SUFFICES ASSUME NEW T \in SUBSET S, T # S, T # {}
                  PROVE  h(T) = w[pick(T)] + h(T \ {pick(T)})
      OBVIOUS
    <3>. DEFINE R == T \ {pick(T)}
                a == CHOOSE f : sums(f, w, T)
                b == CHOOSE f : sums(f, w, R)
    <3>1. sums(a, w, T)
      BY <2>1
    <3>2. pick(T) \in T
      BY PickIn
    <3>3. R \in SUBSET S /\ R # S /\ R \in SUBSET T /\ R \in SUBSET R /\ IsFiniteSet(R)
      BY <2>0, <3>2
    <3>4. sums(b, w, R)
      BY <2>1, <3>3
    <3>. HIDE DEF R, a, b
    <3>5. a[R] = b[R]
      BY <3>1, <3>3, <3>4, SumsAgree
    <3>6. a[T] = w[pick(T)] + a[T \ {pick(T)}]
      BY <3>1 DEF sums
    <3>. QED BY <3>5, <3>6 DEF R, a, b
  <2>3. \A T \in SUBSET S : h({}) = 0 \/ S = {}
    <3>. SUFFICES ASSUME S # {} PROVE h({}) = 0
      OBVIOUS
    <3>1. sums(CHOOSE f : sums(f, w, {}), w, {})
      BY <2>1
    <3>. QED BY <3>1 DEF sums
  <2>4. \A T \in SUBSET S : g[T] = IF T = {} THEN 0 ELSE w[pick(T)] + g[T \ {pick(T)}]
    <3>. TAKE T \in SUBSET S
    <3>a. CASE T = {}
      BY <3>a
    <3>. SUFFICES ASSUME T # {}
                  PROVE  g[T] = w[pick(T)] + g[T \ {pick(T)}]
      BY <3>a
    <3>. DEFINE R == T \ {pick(T)}
    <3>1. pick(T) \in T /\ R \in SUBSET S /\ R # S /\ S # {}
      BY PickIn
    <3>2. g[R] = h(R)
      BY <2>3, <3>1
    <3>3. CASE T = S
      BY <3>2, <3>3
    <3>4. CASE T # S
      BY <2>2, <3>2, <3>4
    <3>. QED BY <3>3, <3>4
  <2>5. g = [T \in SUBSET S |-> g[T]]
    OBVIOUS
  <2>6. sums(g, w, S)
    <3>. HIDE DEF g
    <3>. QED BY <2>4, <2>5 DEF sums
  <2>. QED BY <2>6
<1>2. SUBSET U \subseteq C
  <2>. HIDE DEF C
  <2>. QED BY <1>1, SizeInduct
<1>. QED BY <1>2

\* A sum is the value of any solution.
LEMMA SumSolved ==
  ASSUME NEW w, NEW S, IsFiniteSet(S), NEW T \in SUBSET S, NEW g, sums(g, w, S)
  PROVE  sum(w, T) = g[T]
<1>1. IsFiniteSet(T) /\ T \subseteq T
  BY FS_Subset
<1>. DEFINE h == CHOOSE f : sums(f, w, T)
<1>2. sums(h, w, T)
  BY <1>1, SumsExist
<1>. HIDE DEF h
<1>3. h[T] = g[T]
  BY <1>1, <1>2, SumsAgree
<1>. QED BY <1>3, SumIsSolution DEF h

\* A sum takes one element off at a time.
LEMMA SumPick ==
  ASSUME NEW w, NEW S, IsFiniteSet(S)
  PROVE  sum(w, S) = IF S = {} THEN 0 ELSE w[pick(S)] + sum(w, S \ {pick(S)})
<1>1. PICK g : sums(g, w, S)
  BY SumsExist
<1>2. sum(w, S) = g[S] /\ sum(w, S \ {pick(S)}) = g[S \ {pick(S)}]
  BY <1>1, SumSolved
<1>. QED BY <1>1, <1>2 DEF sums

WeightsOn(w, S) == \A k \in S : w[k] \in Int

\* What a sum of integers is.
THEOREM SumType ==
  ASSUME NEW w, NEW U, IsFiniteSet(U), WeightsOn(w, U)
  PROVE  sum(w, U) \in Int /\ ((\A k \in U : w[k] >= 0) => sum(w, U) >= 0)
<1>. DEFINE C == {S \in SUBSET U : sum(w, S) \in Int /\ ((\A k \in S : w[k] >= 0) => sum(w, S) >= 0)}
<1>1. ASSUME NEW S \in SUBSET U,
             \A T \in SUBSET U : Cardinality(T) < Cardinality(S) => T \in C
      PROVE  S \in C
  <2>0. IsFiniteSet(S)
    BY FS_Subset
  <2>1. CASE S = {}
    <3>1. sum(w, S) = 0
      BY <2>0, <2>1, SumPick
    <3>. QED BY <3>1
  <2>2. CASE S # {}
    <3>1. pick(S) \in S /\ S \ {pick(S)} \in SUBSET U /\ w[pick(S)] \in Int
      BY <2>2, PickIn DEF WeightsOn
    <3>2. Cardinality(S \ {pick(S)}) < Cardinality(S)
      BY <2>0, <3>1, Without
    <3>3. S \ {pick(S)} \in C
      BY <1>1, <3>1, <3>2
    <3>4. sum(w, S) = w[pick(S)] + sum(w, S \ {pick(S)})
      BY <2>0, <2>2, SumPick
    <3>. QED BY <3>1, <3>3, <3>4
  <2>. QED BY <2>1, <2>2
<1>2. SUBSET U \subseteq C
  <2>. HIDE DEF C
  <2>. QED BY <1>1, SizeInduct
<1>. QED BY <1>2

\* A sum over nothing is zero, so empty ledgers hold nothing (charges).
THEOREM SumEmpty == \A w : sum(w, {}) = 0
BY FS_EmptySet, SumPick

\* Any member may be taken out.
THEOREM SumWithout ==
  ASSUME NEW w, NEW U, IsFiniteSet(U), WeightsOn(w, U)
  PROVE  \A x \in U : sum(w, U) = w[x] + sum(w, U \ {x})
<1>. DEFINE C == {S \in SUBSET U : \A x \in S : sum(w, S) = w[x] + sum(w, S \ {x})}
<1>1. ASSUME NEW S \in SUBSET U,
             \A T \in SUBSET U : Cardinality(T) < Cardinality(S) => T \in C,
             NEW x \in S
      PROVE  sum(w, S) = w[x] + sum(w, S \ {x})
  <2>. DEFINE p == pick(S)
              R == S \ {p, x}
  <2>0. IsFiniteSet(S) /\ p \in S
    BY FS_Subset, PickIn
  <2>1. sum(w, S) = w[p] + sum(w, S \ {p})
    BY <2>0, SumPick
  <2>2. CASE p = x
    BY <2>1, <2>2
  <2>3. CASE p # x
    <3>1. S \ {p} \in SUBSET U /\ x \in S \ {p} /\ S \ {x} \in SUBSET U /\ p \in S \ {x}
          /\ (S \ {p}) \ {x} = R /\ (S \ {x}) \ {p} = R /\ R \in SUBSET U
      BY <2>0, <2>3
    <3>2. Cardinality(S \ {p}) < Cardinality(S) /\ Cardinality(S \ {x}) < Cardinality(S)
      BY <2>0, Without
    <3>3. S \ {p} \in C /\ S \ {x} \in C
      BY <1>1, <3>1, <3>2
    <3>4. sum(w, S \ {p}) = w[x] + sum(w, R) /\ sum(w, S \ {x}) = w[p] + sum(w, R)
      BY <3>1, <3>3
    <3>5. w[x] \in Int /\ w[p] \in Int
      BY <2>0 DEF WeightsOn
    <3>6. sum(w, R) \in Int
      BY <3>1, FS_Subset, SumType DEF WeightsOn
    <3>. QED BY <2>1, <3>4, <3>5, <3>6
  <2>. QED BY <2>2, <2>3
<1>2. SUBSET U \subseteq C
  <2>1. \A S \in SUBSET U :
           (\A T \in SUBSET U : Cardinality(T) < Cardinality(S) => T \in C) => S \in C
    BY <1>1
  <2>. HIDE DEF C
  <2>. QED BY <2>1, SizeInduct
<1>. QED BY <1>2

\* Only the weights of the members count.
THEOREM SumSame ==
  ASSUME NEW w, NEW v, NEW S, IsFiniteSet(S), \A k \in S : w[k] = v[k]
  PROVE  sum(w, S) = sum(v, S)
<1>1. PICK g : sums(g, w, S)
  BY SumsExist
<1>2. PICK h : sums(h, v, S)
  BY SumsExist
<1>3. S \in SUBSET S
  OBVIOUS
<1>4. g[S] = h[S]
  BY <1>1, <1>2, SumsAgree
<1>. QED BY <1>1, <1>2, <1>3, <1>4, SumSolved

\* A member more, or less, or of another weight.
THEOREM SumInsert ==
  ASSUME NEW w, NEW S, IsFiniteSet(S), NEW x, x \notin S, WeightsOn(w, S \cup {x})
  PROVE  sum(w, S \cup {x}) = w[x] + sum(w, S)
<1>1. IsFiniteSet(S \cup {x}) /\ x \in S \cup {x} /\ (S \cup {x}) \ {x} = S
  BY FS_AddElement
<1>. QED BY <1>1, SumWithout

\* A sum moves by what its one changed term moves (an entry of the ledgers
\* charged or refunded).
THEOREM SumChange ==
  ASSUME NEW w, NEW v, NEW S, IsFiniteSet(S), NEW x \in S, WeightsOn(w, S), WeightsOn(v, S),
         \A k \in S \ {x} : v[k] = w[k]
  PROVE  sum(v, S) = sum(w, S) + v[x] - w[x]
<1>1. IsFiniteSet(S \ {x}) /\ WeightsOn(w, S \ {x})
  BY FS_RemoveElement DEF WeightsOn
<1>2. sum(v, S \ {x}) = sum(w, S \ {x})
  BY <1>1, SumSame
<1>3. sum(v, S) = v[x] + sum(v, S \ {x}) /\ sum(w, S) = w[x] + sum(w, S \ {x})
  BY SumWithout
<1>4. v[x] \in Int /\ w[x] \in Int /\ sum(w, S \ {x}) \in Int
  BY <1>1, SumType DEF WeightsOn
<1>. QED BY <1>2, <1>3, <1>4


\* The sum of the sums of two weights, member by member.
THEOREM SumPlus ==
  ASSUME NEW u, NEW v, NEW w, NEW U, IsFiniteSet(U), WeightsOn(v, U), WeightsOn(w, U),
         \A k \in U : u[k] = v[k] + w[k]
  PROVE  sum(u, U) = sum(v, U) + sum(w, U)
<1>. DEFINE C == {S \in SUBSET U : sum(u, S) = sum(v, S) + sum(w, S)}
<1>1. ASSUME NEW S \in SUBSET U,
             \A T \in SUBSET U : Cardinality(T) < Cardinality(S) => T \in C
      PROVE  S \in C
  <2>0. IsFiniteSet(S)
    BY FS_Subset
  <2>1. CASE S = {}
    <3>1. sum(u, S) = 0 /\ sum(v, S) = 0 /\ sum(w, S) = 0
      BY <2>0, <2>1, SumPick
    <3>. QED BY <3>1
  <2>2. CASE S # {}
    <3>. DEFINE p == pick(S)
                R == S \ {p}
    <3>1. p \in S /\ p \in U /\ R \in SUBSET U /\ IsFiniteSet(R) /\ Cardinality(R) < Cardinality(S)
      BY <2>0, <2>2, PickIn, Without
    <3>2. R \in C
      BY <1>1, <3>1
    <3>3. /\ sum(u, S) = u[p] + sum(u, R) /\ sum(v, S) = v[p] + sum(v, R)
          /\ sum(w, S) = w[p] + sum(w, R)
      BY <2>0, <2>2, SumPick
    <3>4. WeightsOn(v, R) /\ WeightsOn(w, R) /\ u[p] = v[p] + w[p] /\ v[p] \in Int /\ w[p] \in Int
      BY <3>1 DEF WeightsOn
    <3>5. sum(v, R) \in Int /\ sum(w, R) \in Int
      BY <3>1, <3>4, SumType
    <3>. HIDE DEF p, R
    <3>6. sum(u, R) = sum(v, R) + sum(w, R)
      BY <3>2
    <3>7. sum(u, S) = sum(v, S) + sum(w, S)
      BY <3>3, <3>4, <3>5, <3>6
    <3>. QED BY <3>7
  <2>. QED BY <2>1, <2>2
<1>2. SUBSET U \subseteq C
  <2>. HIDE DEF C
  <2>. QED BY <1>1, SizeInduct
<1>. QED BY <1>2

\* A weight that is the same on all members.
THEOREM SumConst ==
  ASSUME NEW w, NEW U, IsFiniteSet(U), NEW c \in Int, \A k \in U : w[k] = c
  PROVE  sum(w, U) = Cardinality(U) * c
<1>. DEFINE C == {S \in SUBSET U : sum(w, S) = Cardinality(S) * c}
<1>1. ASSUME NEW S \in SUBSET U,
             \A T \in SUBSET U : Cardinality(T) < Cardinality(S) => T \in C
      PROVE  S \in C
  <2>0. IsFiniteSet(S)
    BY FS_Subset
  <2>1. CASE S = {}
    <3>1. sum(w, S) = 0 /\ Cardinality(S) = 0
      BY <2>0, <2>1, SumPick, FS_EmptySet
    <3>. QED BY <3>1
  <2>2. CASE S # {}
    <3>. DEFINE p == pick(S)
                R == S \ {p}
    <3>1. p \in S /\ p \in U /\ R \in SUBSET U /\ IsFiniteSet(R) /\ Cardinality(R) < Cardinality(S)
      BY <2>0, <2>2, PickIn, Without
    <3>2. R \in C
      BY <1>1, <3>1
    <3>3. sum(w, S) = w[p] + sum(w, R) /\ w[p] = c
      BY <2>0, <2>2, <3>1, SumPick
    <3>4. Cardinality(R) = Cardinality(S) - 1 /\ Cardinality(S) \in Nat
      BY <2>0, <3>1, FS_RemoveElement, FS_CardinalityType
    <3>. HIDE DEF p, R
    <3>. DEFINE n == Cardinality(S)
                m == Cardinality(R)
    <3>. HIDE DEF n, m
    <3>5. sum(w, R) = m * c
      BY <3>2 DEF m
    <3>6. n \in Nat /\ m = n - 1
      BY <3>4 DEF n, m
    <3>7. m * c = n * c - c
      BY <3>6
    <3>8. n * c \in Int
      BY <3>6
    <3>9. sum(w, S) = n * c
      BY <3>3, <3>5, <3>7, <3>8
    <3>. QED BY <3>9 DEF n
  <2>. QED BY <2>1, <2>2
<1>2. SUBSET U \subseteq C
  <2>. HIDE DEF C
  <2>. QED BY <1>1, SizeInduct
<1>. QED BY <1>2

\* Members that weigh nothing do not count.
THEOREM SumRestrict ==
  ASSUME NEW w, NEW U, IsFiniteSet(U), NEW T \in SUBSET U, WeightsOn(w, T),
         \A k \in U \ T : w[k] = 0
  PROVE  sum(w, U) = sum(w, T)
<1>. DEFINE C == {S \in SUBSET U : sum(w, S) = sum(w, S \cap T)}
<1>1. ASSUME NEW S \in SUBSET U,
             \A R \in SUBSET U : Cardinality(R) < Cardinality(S) => R \in C
      PROVE  S \in C
  <2>0. IsFiniteSet(S)
    BY FS_Subset
  <2>1. CASE S = {}
    <3>1. S \cap T = S
      BY <2>1
    <3>. QED BY <3>1
  <2>2. CASE S # {}
    <3>. DEFINE p == pick(S)
                R == S \ {p}
    <3>1. p \in S /\ p \in U /\ R \in SUBSET U /\ IsFiniteSet(R) /\ Cardinality(R) < Cardinality(S)
      BY <2>0, <2>2, PickIn, Without
    <3>2. R \in C
      BY <1>1, <3>1
    <3>3. sum(w, S) = w[p] + sum(w, R)
      BY <2>0, <2>2, SumPick
    <3>4. IsFiniteSet(S \cap T) /\ IsFiniteSet(R \cap T)
      BY <2>0, <3>1, FS_Subset
    <3>5. WeightsOn(w, S \cap T) /\ WeightsOn(w, R \cap T)
      BY DEF WeightsOn
    <3>6. sum(w, R \cap T) \in Int
      BY <3>4, <3>5, SumType
    <3>7. CASE p \in T
      <4>1. p \in S \cap T /\ (S \cap T) \ {p} = R \cap T
        BY <3>1, <3>7
      <4>2. sum(w, S \cap T) = w[p] + sum(w, R \cap T)
        BY <3>4, <3>5, <4>1, SumWithout
      <4>. HIDE DEF R, p
      <4>. QED BY <3>2, <3>3, <4>2
    <3>8. CASE p \notin T
      <4>1. S \cap T = R \cap T /\ w[p] = 0
        BY <3>1, <3>8
      <4>. HIDE DEF R, p
      <4>2. sum(w, S) = sum(w, R)
        BY <3>2, <3>3, <3>6, <4>1
      <4>. QED BY <3>2, <4>1, <4>2
    <3>. QED BY <3>7, <3>8
  <2>. QED BY <2>1, <2>2
<1>2. SUBSET U \subseteq C
  <2>. HIDE DEF C
  <2>. QED BY <1>1, SizeInduct
<1>3. U \in C /\ U \cap T = T
  BY <1>2
<1>. QED BY <1>3

\* The lighter the members, the smaller the sum.
THEOREM SumMonotone ==
  ASSUME NEW w, NEW v, NEW U, IsFiniteSet(U), WeightsOn(w, U), WeightsOn(v, U),
         \A k \in U : w[k] <= v[k]
  PROVE  sum(w, U) <= sum(v, U)
<1>. DEFINE d == [k \in U |-> v[k] - w[k]]
<1>1. \A k \in U : d[k] \in Int /\ d[k] >= 0 /\ v[k] = w[k] + d[k]
  BY DEF WeightsOn
<1>2. WeightsOn(d, U)
  BY <1>1 DEF WeightsOn
<1>. HIDE DEF d
<1>3. sum(v, U) = sum(w, U) + sum(d, U)
  BY <1>1, <1>2, SumPlus
<1>4. sum(d, U) \in Int /\ sum(d, U) >= 0 /\ sum(w, U) \in Int
  BY <1>1, <1>2, SumType
<1>. QED BY <1>3, <1>4
=============================================================================
