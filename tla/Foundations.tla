---------------------------- MODULE Foundations ----------------------------
(***************************************************************************)
(* Facts about numbers and folds that the proofs of several modules use.   *)
(***************************************************************************)
EXTENDS Integers, FiniteSetsExt, FiniteSetTheorems, TLAPS

-----------------------------------------------------------------------------
(* Induction, in the form of a least counterexample: a set of naturals or of *)
(* subsets of a finite set takes the place of the predicate.                 *)

LEMMA NatSetInduction ==
  ASSUME NEW S, 0 \in S, \A n \in Nat : n \in S => n + 1 \in S
  PROVE  \A n \in Nat : n \in S
<1> SUFFICES ASSUME Nat \ S # {} PROVE FALSE
  OBVIOUS
<1>1. PICK m \in Nat \ S : \A y \in Nat \ S : ~ (<<y, m>> \in OpToRel(<, Nat))
  BY NatLessThanWellFounded, WFMin
<1>2. m # 0 /\ m - 1 \in Nat OBVIOUS
<1>3. <<m - 1, m>> \in OpToRel(<, Nat) BY <1>2 DEF OpToRel
<1>4. m - 1 \in S BY <1>1, <1>2, <1>3
<1> QED BY <1>2, <1>4

LEMMA LeastSubset ==
  ASSUME NEW S, IsFiniteSet(S), NEW C \in SUBSET (SUBSET S), C # {}
  PROVE  \E T \in C : \A U \in C : ~(U \subseteq T /\ U # T)
<1>1. IsWellFoundedOn(StrictSubsetOrdering(S), SUBSET S)
  BY FS_StrictSubsetOrderingWellFounded, FS_FiniteSubsetsOfFinite
<1>2. PICK T \in C : \A U \in C : ~(<<U, T>> \in StrictSubsetOrdering(S))
  BY <1>1, WFMin
<1>3. ASSUME NEW U \in C, U \subseteq T, U # T PROVE FALSE
  <2>1. <<U, T>> \in StrictSubsetOrdering(S) BY <1>3 DEF StrictSubsetOrdering
  <2> QED BY <1>2, <2>1
<1> QED BY <1>3

-----------------------------------------------------------------------------
(* Powers of two, as cardinalities of powersets *)

LEMMA PowZero == 2^0 = 1
<1>1. Cardinality(SUBSET {}) = 2^0 BY FS_EmptySet, FS_SUBSET
<1>2. SUBSET {} = {{}} OBVIOUS
<1> QED BY <1>1, <1>2, FS_Singleton

LEMMA PowNat ==
  ASSUME NEW n \in Nat
  PROVE  2^n \in Nat
<1>1. IsFiniteSet(1..n) /\ Cardinality(1..n) = n BY FS_Interval
<1>2. IsFiniteSet(SUBSET (1..n)) /\ Cardinality(SUBSET (1..n)) = 2^n BY <1>1, FS_SUBSET
<1> QED BY <1>2, FS_CardinalityType

LEMMA PowStep ==
  ASSUME NEW n \in Nat
  PROVE  2^(n + 1) = 2 * 2^n
<1> DEFINE A == SUBSET (1..n)
           B == {T \cup {n + 1} : T \in A}
           f == [T \in A |-> T \cup {n + 1}]
<1>1. IsFiniteSet(1..n) /\ Cardinality(1..n) = n
      /\ IsFiniteSet(1..(n + 1)) /\ Cardinality(1..(n + 1)) = n + 1
  BY FS_Interval
<1>2. IsFiniteSet(A) /\ Cardinality(A) = 2^n
      /\ Cardinality(SUBSET (1..(n + 1))) = 2^(n + 1)
  BY <1>1, FS_SUBSET
<1>3. \A T \in A : n + 1 \notin T OBVIOUS
<1>4. f \in Bijection(A, B)
  <2>1. f \in [A -> B] OBVIOUS
  <2>2. ASSUME NEW T \in A, NEW U \in A, f[T] = f[U] PROVE T = U
    <3>1. T \cup {n + 1} = U \cup {n + 1} BY <2>2
    <3> QED BY <1>3, <3>1
  <2>3. \A U \in B : \E T \in A : f[T] = U OBVIOUS
  <2> QED BY <2>1, <2>2, <2>3 DEF Bijection, Injection, Surjection, IsInjective
<1>5. IsFiniteSet(B) /\ Cardinality(B) = 2^n
  <2>1. ExistsBijection(A, B) BY <1>4 DEF ExistsBijection
  <2> QED BY <1>2, <2>1, FS_Bijection
<1>6. A \cap B = {} BY <1>3
<1>7. A \cup B = SUBSET (1..(n + 1))
  <2>1. 1..(n + 1) = (1..n) \cup {n + 1} OBVIOUS
  <2>2. A \cup B \subseteq SUBSET (1..(n + 1)) BY <2>1
  <2>3. ASSUME NEW T \in SUBSET (1..(n + 1)) PROVE T \in A \cup B
    <3>1. CASE n + 1 \notin T BY <2>1, <3>1
    <3>2. CASE n + 1 \in T
      <4>1. T \ {n + 1} \in A BY <2>1
      <4>2. T = (T \ {n + 1}) \cup {n + 1} BY <3>2
      <4> QED BY <4>1, <4>2
    <3> QED BY <3>1, <3>2
  <2> QED BY <2>2, <2>3
<1>8. Cardinality(A \cup B) = Cardinality(A) + Cardinality(B) - 0
  <2>1. Cardinality(A \cup B) = Cardinality(A) + Cardinality(B) - Cardinality(A \cap B)
    BY <1>2, <1>5, FS_Union
  <2> QED BY <1>6, <2>1, FS_EmptySet
<1> DEFINE p == 2^n
           q == 2^(n + 1)
<1>9. p \in Nat /\ Cardinality(A) = p /\ Cardinality(B) = p /\ Cardinality(A \cup B) = q
  BY <1>2, <1>5, <1>7, PowNat
<1> HIDE DEF A, B, p, q
<1>10. q = 2 * p BY <1>8, <1>9
<1> QED BY <1>10 DEF p, q

LEMMA PowPos ==
  ASSUME NEW n \in Nat
  PROVE  2^n \in Nat /\ 2^n >= 1
<1>1. IsFiniteSet(1..n) /\ Cardinality(1..n) = n BY FS_Interval
<1>2. IsFiniteSet(SUBSET (1..n)) /\ Cardinality(SUBSET (1..n)) = 2^n BY <1>1, FS_SUBSET
<1>3. SUBSET (1..n) # {} OBVIOUS
<1>4. Cardinality(SUBSET (1..n)) # 0 BY <1>2, <1>3, FS_EmptySet
<1> DEFINE p == 2^n
<1>5. p \in Nat /\ p # 0 BY <1>2, <1>4, PowNat
<1> HIDE DEF p
<1>6. p >= 1 BY <1>5
<1> QED BY <1>5, <1>6 DEF p

LEMMA ModSmall ==
  ASSUME NEW m \in Nat, NEW d \in Nat, m < d
  PROVE  m % d = m
OBVIOUS

\* A number within the range of w bits is left alone by the wrap-around.
LEMMA WrapFits ==
  ASSUME NEW w \in Nat \ {0}, NEW n \in Int, -(2^(w - 1)) <= n, n < 2^(w - 1)
  PROVE  ((n + 2^(w - 1)) % 2^w) - 2^(w - 1) = n
<1> DEFINE h == 2^(w - 1)
           d == 2^w
<1>1. h \in Nat /\ d = 2 * h
  <2>1. w - 1 \in Nat /\ (w - 1) + 1 = w OBVIOUS
  <2> QED BY <2>1, PowNat, PowStep
<1>2. -h <= n /\ n < h OBVIOUS
<1> HIDE DEF h, d
<1>3. n + h \in Nat /\ d \in Nat /\ n + h < d BY <1>1, <1>2
<1>4. (n + h) % d = n + h BY <1>3, ModSmall
<1>5. ((n + h) % d) - h = n BY <1>1, <1>4
<1> QED BY <1>5 DEF h, d

LEMMA WrapInt ==
  ASSUME NEW w \in Nat \ {0}, NEW n \in Int
  PROVE  ((n + 2^(w - 1)) % 2^w) - 2^(w - 1) \in Int
<1> DEFINE h == 2^(w - 1)
           d == 2^w
<1>1. h \in Nat /\ d \in Nat /\ d >= 1
  <2>1. w - 1 \in Nat OBVIOUS
  <2> QED BY <2>1, PowNat, PowPos
<1> HIDE DEF h, d
<1>2. (n + h) % d \in Int BY <1>1
<1>3. ((n + h) % d) - h \in Int BY <1>1, <1>2
<1> QED BY <1>3 DEF h, d

-----------------------------------------------------------------------------
(* Folds: MapThenFoldSet of module Folds is a recursive function on the      *)
(* subsets of a finite set, which takes one element out of its argument.     *)

\* g is that function, with ch and op in place of the operators.
IsFold(g, S, base, ch, op) ==
  \A T \in SUBSET S : g[T] = IF T = {} THEN base ELSE op[ch[T]][g[T \ {ch[T]}]]

LEMMA FoldExists ==
  ASSUME NEW S, IsFiniteSet(S), NEW V, NEW base \in V,
         NEW ch, \A T \in SUBSET S : T # {} => ch[T] \in T,
         NEW op, \A x \in S, v \in V : op[x][v] \in V
  PROVE  \E g \in [SUBSET S -> V] : IsFold(g, S, base, ch, op)
<1> DEFINE Upto(n) == {T \in SUBSET S : Cardinality(T) <= n}
           Eqn(g, T) == g[T] = IF T = {} THEN base ELSE op[ch[T]][g[T \ {ch[T]}]]
           Good == {n \in Nat : \E g \in [Upto(n) -> V] : \A T \in Upto(n) : Eqn(g, T)}
<1>1. \A T \in SUBSET S : IsFiniteSet(T) /\ Cardinality(T) \in Nat /\ (Cardinality(T) = 0 <=> T = {})
  BY FS_Subset, FS_CardinalityType, FS_EmptySet
<1>2. \A T \in SUBSET S : T # {} =>
        T \ {ch[T]} \in SUBSET S /\ Cardinality(T \ {ch[T]}) = Cardinality(T) - 1
  BY <1>1, FS_RemoveElement
<1>3. 0 \in Good
  <2>1. \A T \in Upto(0) : T = {} BY <1>1
  <2>2. [T \in Upto(0) |-> base] \in [Upto(0) -> V] OBVIOUS
  <2>3. \A T \in Upto(0) : Eqn([U \in Upto(0) |-> base], T) BY <2>1
  <2> QED BY <2>2, <2>3
<1>4. ASSUME NEW n \in Nat, n \in Good PROVE n + 1 \in Good
  <2>1. PICK g \in [Upto(n) -> V] : \A T \in Upto(n) : Eqn(g, T) BY <1>4
  <2> DEFINE h == [T \in Upto(n + 1) |->
                     IF T \in Upto(n) THEN g[T] ELSE op[ch[T]][g[T \ {ch[T]}]]]
  <2>2. \A T \in Upto(n + 1) : T # {} => T \ {ch[T]} \in Upto(n) BY <1>1, <1>2
  <2>3. {} \in Upto(n) BY <1>1
  <2>4. \A T \in Upto(n) : T \in Upto(n + 1) BY <1>1
  <2>5. h \in [Upto(n + 1) -> V]
    <3>1. ASSUME NEW T \in Upto(n + 1), T \notin Upto(n)
          PROVE  op[ch[T]][g[T \ {ch[T]}]] \in V
      <4>1. T # {} BY <2>3, <3>1
      <4>2. ch[T] \in S /\ g[T \ {ch[T]}] \in V BY <2>2, <4>1
      <4> QED BY <4>2
    <3> QED BY <3>1
  <2>6. ASSUME NEW T \in Upto(n + 1) PROVE Eqn(h, T)
    <3>1. CASE T = {} BY <2>1, <2>3, <2>4, <3>1
    <3>2. CASE T # {}
      <4>1. h[T \ {ch[T]}] = g[T \ {ch[T]}] BY <2>2, <2>4, <3>2
      <4>2. h[T] = op[ch[T]][g[T \ {ch[T]}]]
        <5>1. CASE T \notin Upto(n) BY <5>1
        <5>2. CASE T \in Upto(n)
          <6>1. h[T] = g[T] BY <2>4, <5>2
          <6>2. Eqn(g, T) BY <2>1, <5>2
          <6> QED BY <3>2, <6>1, <6>2
        <5> QED BY <5>1, <5>2
      <4> QED BY <3>2, <4>1, <4>2
    <3> QED BY <3>1, <3>2
  <2>7. \E k \in [Upto(n + 1) -> V] : \A T \in Upto(n + 1) : Eqn(k, T)
    <3> HIDE DEF h, Eqn, Upto
    <3> QED BY <2>5, <2>6
  <2>8. n + 1 \in Nat OBVIOUS
  <2> HIDE DEF h, Eqn, Upto
  <2> QED BY <2>7, <2>8
<1>5. Cardinality(S) \in Good
  <2>1. Cardinality(S) \in Nat BY FS_CardinalityType
  <2> HIDE DEF Good
  <2>2. \A n \in Nat : n \in Good BY <1>3, <1>4, NatSetInduction
  <2> QED BY <2>1, <2>2
<1>6. Upto(Cardinality(S)) = SUBSET S BY FS_Subset
<1> QED BY <1>5, <1>6 DEF IsFold

-----------------------------------------------------------------------------
(* Sums over finite sets: SumFunctionOnSet of module Functions *)

Pick(T) == CHOOSE x \in T : TRUE

\* g computes the sums of f over the subsets of S.
Sums(g, f, S) == g = [T \in SUBSET S |-> IF T = {} THEN 0 ELSE f[Pick(T)] + g[T \ {Pick(T)}]]

LEMMA SumsExist ==
  ASSUME NEW S, IsFiniteSet(S), NEW f, \A x \in S : f[x] \in Int
  PROVE  \E g \in [SUBSET S -> Int] : Sums(g, f, S)
<1> DEFINE ch == [T \in SUBSET S |-> Pick(T)]
           op == [x \in S |-> [v \in Int |-> f[x] + v]]
<1>1. \A T \in SUBSET S : T # {} => ch[T] \in T BY DEF Pick
<1>2. \A x \in S, v \in Int : op[x][v] = f[x] + v OBVIOUS
<1>3. \A x \in S, v \in Int : op[x][v] \in Int OBVIOUS
<1>4. 0 \in Int OBVIOUS
<1>5. \A T \in SUBSET S : ch[T] = Pick(T) OBVIOUS
<1> HIDE DEF ch, op
<1>6. PICK g \in [SUBSET S -> Int] : IsFold(g, S, 0, ch, op)
  BY <1>1, <1>3, <1>4, FoldExists
<1>7. ASSUME NEW T \in SUBSET S
      PROVE  g[T] = IF T = {} THEN 0 ELSE f[Pick(T)] + g[T \ {Pick(T)}]
  <2>1. CASE T = {} BY <1>6, <2>1 DEF IsFold
  <2>2. CASE T # {}
    <3>1. Pick(T) \in S /\ g[T \ {Pick(T)}] \in Int BY <1>1, <1>5, <2>2
    <3> QED BY <1>2, <1>5, <1>6, <2>2, <3>1 DEF IsFold
  <2> QED BY <2>1, <2>2
<1> QED BY <1>7 DEF Sums

LEMMA SumsAgree ==
  ASSUME NEW T, IsFiniteSet(T), NEW R, NEW S, T \subseteq R, T \subseteq S,
         NEW f, NEW e, \A x \in T : f[x] = e[x],
         NEW g, Sums(g, f, R), NEW h, Sums(h, e, S)
  PROVE  g[T] = h[T]
<1> DEFINE C == {U \in SUBSET T : g[U] # h[U]}
<1> SUFFICES ASSUME C # {} PROVE FALSE
  OBVIOUS
<1>1. PICK U \in C : \A W \in C : ~(W \subseteq U /\ W # U)
  <2>1. C \in SUBSET (SUBSET T) OBVIOUS
  <2> HIDE DEF C
  <2> QED BY <2>1, LeastSubset
<1>2. /\ g[U] = IF U = {} THEN 0 ELSE f[Pick(U)] + g[U \ {Pick(U)}]
      /\ h[U] = IF U = {} THEN 0 ELSE e[Pick(U)] + h[U \ {Pick(U)}]
  BY DEF Sums
<1>3. U # {} BY <1>2
<1>4. Pick(U) \in U BY <1>3 DEF Pick
<1>5. U \ {Pick(U)} \notin C BY <1>1, <1>4
<1> QED BY <1>2, <1>3, <1>4, <1>5

LEMMA SumsUnfold ==
  ASSUME NEW S, IsFiniteSet(S), NEW f, \A x \in S : f[x] \in Int, NEW g, Sums(g, f, S)
  PROVE  SumFunctionOnSet(f, S) = g[S]
<1> DEFINE iter == CHOOSE h : Sums(h, f, S)
<1>1. SumFunctionOnSet(f, S) = iter[S]
  BY DEF SumFunctionOnSet, FoldFunctionOnSet, MapThenFoldSet, Sums, Pick
<1>2. Sums(iter, f, S) OBVIOUS
<1> HIDE DEF iter
<1> QED BY <1>1, <1>2, SumsAgree

LEMMA SumInt ==
  ASSUME NEW S, IsFiniteSet(S), NEW f, \A x \in S : f[x] \in Int
  PROVE  SumFunctionOnSet(f, S) \in Int
<1>1. PICK g \in [SUBSET S -> Int] : Sums(g, f, S) BY SumsExist
<1>2. SumFunctionOnSet(f, S) = g[S] BY <1>1, SumsUnfold
<1> QED BY <1>2

LEMMA SumEmpty ==
  ASSUME NEW f
  PROVE  SumFunctionOnSet(f, {}) = 0
<1>1. IsFiniteSet({}) BY FS_EmptySet
<1>2. PICK g \in [SUBSET {} -> Int] : Sums(g, f, {}) BY <1>1, SumsExist
<1>3. SumFunctionOnSet(f, {}) = g[{}] BY <1>1, <1>2, SumsUnfold
<1>4. g[{}] = 0 BY <1>2 DEF Sums
<1> QED BY <1>3, <1>4

\* The sum depends on the values on S only.
LEMMA SumSame ==
  ASSUME NEW S, IsFiniteSet(S), NEW f, NEW e, \A x \in S : f[x] \in Int /\ e[x] = f[x]
  PROVE  SumFunctionOnSet(e, S) = SumFunctionOnSet(f, S)
<1>1. PICK g \in [SUBSET S -> Int] : Sums(g, f, S) BY SumsExist
<1>2. PICK h \in [SUBSET S -> Int] : Sums(h, e, S) BY SumsExist
<1>3. SumFunctionOnSet(f, S) = g[S] /\ SumFunctionOnSet(e, S) = h[S] BY <1>1, <1>2, SumsUnfold
<1>4. g[S] = h[S] BY <1>1, <1>2, SumsAgree
<1> QED BY <1>3, <1>4

\* Whichever element is taken out first, the sum is the same.
InAnyOrder(g, f, S) == \A T \in SUBSET S : \A x \in T : g[T] = f[x] + g[T \ {x}]

LEMMA SumsTakeOut ==
  ASSUME NEW S, IsFiniteSet(S), NEW f, \A x \in S : f[x] \in Int,
         NEW g \in [SUBSET S -> Int], Sums(g, f, S)
  PROVE  InAnyOrder(g, f, S)
<1> DEFINE C == {T \in SUBSET S : \E x \in T : g[T] # f[x] + g[T \ {x}]}
<1> SUFFICES ASSUME C # {} PROVE FALSE
  BY DEF InAnyOrder
<1>1. PICK T \in C : \A U \in C : ~(U \subseteq T /\ U # T)
  <2>1. C \in SUBSET (SUBSET S) OBVIOUS
  <2> HIDE DEF C
  <2> QED BY <2>1, LeastSubset
<1>2. PICK x \in T : g[T] # f[x] + g[T \ {x}] OBVIOUS
<1> DEFINE c == Pick(T)
<1>3. c \in T /\ T \in SUBSET S BY <1>2 DEF Pick
<1>4. g[T] = f[c] + g[T \ {c}] BY <1>3 DEF Sums
<1> HIDE DEF c
<1>5. c # x BY <1>2, <1>4
<1>6. g[T \ {c}] = f[x] + g[(T \ {c}) \ {x}]
  <2>1. T \ {c} \notin C BY <1>1, <1>3
  <2> QED BY <1>2, <1>3, <1>5, <2>1
<1>7. g[T \ {x}] = f[c] + g[(T \ {x}) \ {c}]
  <2>1. T \ {x} \notin C BY <1>1, <1>2
  <2> QED BY <1>2, <1>3, <1>5, <2>1
<1>8. (T \ {c}) \ {x} = (T \ {x}) \ {c} OBVIOUS
<1> DEFINE p == g[(T \ {x}) \ {c}]
<1>9. f[c] \in Int /\ f[x] \in Int /\ p \in Int BY <1>2, <1>3
<1>10. g[T \ {c}] = f[x] + p /\ g[T \ {x}] = f[c] + p BY <1>6, <1>7, <1>8
<1> HIDE DEF p, C
<1>11. f[c] + (f[x] + p) = f[x] + (f[c] + p) BY <1>9
<1> QED BY <1>2, <1>4, <1>10, <1>11

LEMMA SumAdd ==
  ASSUME NEW S, IsFiniteSet(S), NEW e, e \notin S, NEW f, \A x \in S \cup {e} : f[x] \in Int
  PROVE  SumFunctionOnSet(f, S \cup {e}) = f[e] + SumFunctionOnSet(f, S)
<1> DEFINE T == S \cup {e}
<1>1. IsFiniteSet(T) BY FS_AddElement
<1>2. PICK g \in [SUBSET T -> Int] : Sums(g, f, T) BY <1>1, SumsExist
<1>3. PICK h \in [SUBSET S -> Int] : Sums(h, f, S) BY SumsExist
<1>4. SumFunctionOnSet(f, T) = g[T] BY <1>1, <1>2, SumsUnfold
<1>5. SumFunctionOnSet(f, S) = h[S] BY <1>3, SumsUnfold
<1>6. g[T] = f[e] + g[T \ {e}]
  <2>1. e \in T /\ T \in SUBSET T OBVIOUS
  <2>2. \A x \in T : f[x] \in Int OBVIOUS
  <2> HIDE DEF T
  <2>3. InAnyOrder(g, f, T) BY <1>1, <1>2, <2>2, SumsTakeOut
  <2> QED BY <2>1, <2>3 DEF InAnyOrder
<1>7. T \ {e} = S OBVIOUS
<1>8. g[S] = h[S]
  <2>1. S \subseteq T OBVIOUS
  <2> HIDE DEF T
  <2> QED BY <1>2, <1>3, <2>1, SumsAgree
<1> QED BY <1>4, <1>5, <1>6, <1>7, <1>8
=============================================================================
