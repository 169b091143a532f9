----------------------------- MODULE SumLemmas -----------------------------
(***************************************************************************)
(* Sums of functions over finite sets, as the ledgers take them over their *)
(* rows.  SumFunctionOnSet is a fold whose recursion picks its elements in *)
(* an order nobody chose; these lemmas say that the order does not matter. *)
(* Inductions are over sets instead of predicates: the induction theorems  *)
(* of the library take an operator.                                        *)
(***************************************************************************)
EXTENDS Functions, FiniteSetTheorems, WellFoundedInduction, TLAPS

LEMMA NatSetInduction ==
  ASSUME NEW P \in SUBSET Nat, 0 \in P, \A n \in P : n + 1 \in P
  PROVE  P = Nat
<1> SUFFICES ASSUME Nat \ P # {} PROVE FALSE OBVIOUS
<1>1. PICK n \in Nat \ P : \A m \in Nat \ P : ~(<<m, n>> \in OpToRel(<, Nat))
  <2> DEFINE T == Nat \ P
             R == OpToRel(<, Nat)
  <2>1. IsWellFoundedOn(R, Nat) BY NatLessThanWellFounded
  <2>2. T \subseteq Nat /\ T # {} OBVIOUS
  <2> HIDE DEF T, R
  <2>3. \E n \in T : \A m \in T : ~(<<m, n>> \in R) BY <2>1, <2>2, WFMin
  <2>4. QED BY <2>3 DEF T, R
<1>2. \A m \in Nat \ P : ~(m < n) BY <1>1 DEF OpToRel
<1>3. n - 1 \in Nat /\ n - 1 \in P /\ n = (n - 1) + 1 BY <1>2
<1>4. QED BY <1>3

\* What holds of the empty set and stays when an element is added holds of
\* every finite set.
LEMMA FiniteSetInduction ==
  ASSUME NEW S, IsFiniteSet(S), NEW P \in SUBSET SUBSET S, {} \in P,
         \A T \in P : \A x \in S \ T : T \cup {x} \in P
  PROVE  S \in P
<1> DEFINE N == {n \in Nat : \A T \in SUBSET S : Cardinality(T) = n => T \in P}
<1>1. \A T \in SUBSET S : IsFiniteSet(T) /\ Cardinality(T) \in Nat
  BY FS_Subset, FS_CardinalityType
<1>2. 0 \in N BY <1>1, FS_EmptySet
<1>3. ASSUME NEW n \in N, NEW T \in SUBSET S, Cardinality(T) = n + 1 PROVE T \in P
  <2>0. n \in Nat /\ n + 1 # 0 OBVIOUS
  <2>1. T # {}
    <3>1. Cardinality({}) = 0 BY FS_EmptySet
    <3>2. QED BY <1>3, <2>0, <3>1
  <2>2. PICK x \in T : TRUE BY <2>1
  <2>3. Cardinality(T \ {x}) = n BY <1>1, <1>3, <2>2, FS_RemoveElement, SMTT(60)
  <2>4. T \ {x} \in P /\ x \in S \ (T \ {x}) BY <2>2, <2>3
  <2>5. (T \ {x}) \cup {x} = T BY <2>2
  <2>6. QED BY <2>4, <2>5
<1>4. \A n \in N : n + 1 \in N BY <1>3
<1>5. N \in SUBSET Nat OBVIOUS
<1> HIDE DEF N
<1>6. N = Nat BY <1>2, <1>4, <1>5, NatSetInduction
<1>7. QED BY <1>1, <1>6 DEF N

-----------------------------------------------------------------------------
\* The recursion of the fold, as one step of it.
anyOf(s) == CHOOSE x \in s : TRUE

IsSum(f, S, g) == g = [s \in SUBSET S |-> IF s = {} THEN 0 ELSE f[anyOf(s)] + g[s \ {anyOf(s)}]]

LEMMA SumIsFold ==
  ASSUME NEW f, NEW S
  PROVE  SumFunctionOnSet(f, S) = (CHOOSE g : IsSum(f, S, g))[S]
BY Zenon DEF SumFunctionOnSet, FoldFunctionOnSet, MapThenFoldSet, IsSum, anyOf

\* There is such a function: it is built by the size of its arguments.
LEMMA FoldExists == ASSUME NEW f, NEW S, IsFiniteSet(S) PROVE \E g : IsSum(f, S, g)
<1> DEFINE upTo(n) == {s \in SUBSET S : Cardinality(s) <= n}
           body(g, s) == IF s = {} THEN 0 ELSE f[anyOf(s)] + g[s \ {anyOf(s)}]
           N == {n \in Nat : \E g : g = [s \in upTo(n) |-> body(g, s)]}
<1>1. \A s \in SUBSET S : IsFiniteSet(s) /\ Cardinality(s) \in Nat
  BY FS_Subset, FS_CardinalityType
<1>2. ASSUME NEW n \in Nat, NEW s \in upTo(n + 1), s # {} PROVE s \ {anyOf(s)} \in upTo(n)
  <2>1. anyOf(s) \in s BY <1>2 DEF anyOf
  <2>2. Cardinality(s \ {anyOf(s)}) = Cardinality(s) - 1 BY <1>1, <2>1, FS_RemoveElement
  <2>3. QED BY <1>1, <2>2
<1>3. 0 \in N
  <2> DEFINE g == [s \in upTo(0) |-> 0]
  <2>1. \A s \in upTo(0) : s = {} BY <1>1, FS_EmptySet
  <2>2. g = [s \in upTo(0) |-> body(g, s)] BY <2>1
  <2>3. QED BY <2>2
<1>4. ASSUME NEW n \in N PROVE n + 1 \in N
  <2>1. PICK g : g = [s \in upTo(n) |-> body(g, s)] OBVIOUS
  <2> DEFINE h == [s \in upTo(n + 1) |-> body(g, s)]
  <2>2. n \in Nat /\ upTo(n) \subseteq upTo(n + 1) BY <1>1
  <2>3. ASSUME NEW s \in upTo(n) PROVE h[s] = g[s]
    <3>1. g[s] = body(g, s) BY <2>1
    <3>2. QED BY <2>2, <3>1
  <2>4. ASSUME NEW s \in upTo(n + 1) PROVE h[s] = body(h, s)
    <3>1. h[s] = body(g, s) OBVIOUS
    <3> HIDE DEF h, upTo
    <3>2. CASE s = {} BY <3>1, <3>2
    <3>3. CASE s # {}
      <4>1. h[s \ {anyOf(s)}] = g[s \ {anyOf(s)}] BY <1>2, <2>2, <2>3, <3>3
      <4>2. QED BY <3>1, <3>3, <4>1
    <3>4. QED BY <3>2, <3>3
  <2>5. h = [s \in upTo(n + 1) |-> body(h, s)] BY <2>4
  <2> HIDE DEF h
  <2>6. n + 1 \in Nat BY <2>2
  <2> HIDE DEF upTo, body
  <2>7. QED BY <2>5, <2>6
<1>5. N \in SUBSET Nat OBVIOUS
<1> HIDE DEF N
<1>6. Cardinality(S) \in N BY <1>1, <1>3, <1>4, <1>5, NatSetInduction
<1>7. PICK g : g = [s \in upTo(Cardinality(S)) |-> body(g, s)] BY <1>6 DEF N
<1>8. upTo(Cardinality(S)) = SUBSET S BY <1>1, FS_Subset
<1>9. IsSum(f, S, g) BY <1>7, <1>8 DEF IsSum
<1>10. QED BY <1>9

-----------------------------------------------------------------------------
\* Whatever function the recursion makes, its value does not depend on which
\* element is taken first.
LEMMA FoldRemoves ==
  ASSUME NEW f, NEW S, IsFiniteSet(S), \A x \in S : f[x] \in Int,
         NEW g, IsSum(f, S, g)
  PROVE  \A T \in SUBSET S : g[T] \in Int /\ \A x \in T : g[T] = f[x] + g[T \ {x}]
<1> DEFINE good(T) == g[T] \in Int /\ \A x \in T : g[T] = f[x] + g[T \ {x}]
           N == {n \in Nat : \A T \in SUBSET S : Cardinality(T) <= n => good(T)}
<1>1. \A T \in SUBSET S : IsFiniteSet(T) /\ Cardinality(T) \in Nat
  BY FS_Subset, FS_CardinalityType
<1>2. \A T \in SUBSET S : g[T] = IF T = {} THEN 0 ELSE f[anyOf(T)] + g[T \ {anyOf(T)}]
  BY DEF IsSum
<1>3. 0 \in N
  <2>1. \A T \in SUBSET S : Cardinality(T) <= 0 => T = {} BY <1>1, FS_EmptySet
  <2>2. good({})
    <3>1. g[{}] = 0 BY <1>2
    <3>2. QED BY <3>1
  <2> HIDE DEF good
  <2>3. QED BY <2>1, <2>2
<1>4. ASSUME NEW n \in N, NEW T \in SUBSET S, Cardinality(T) <= n + 1, T # {} PROVE good(T)
  <2>1. anyOf(T) \in T BY <1>4 DEF anyOf
  <2>2. \A x \in T : T \ {x} \in SUBSET S /\ Cardinality(T \ {x}) <= n
    <3>1. \A x \in T : Cardinality(T \ {x}) = Cardinality(T) - 1 BY <1>1, FS_RemoveElement
    <3>2. QED BY <1>1, <1>4, <3>1
  <2>3. \A x \in T : good(T \ {x}) BY <2>2
  <2>4. g[T] = f[anyOf(T)] + g[T \ {anyOf(T)}] BY <1>2, <1>4
  <2>5. g[T] \in Int
    <3>1. f[anyOf(T)] \in Int BY <2>1
    <3>2. g[T \ {anyOf(T)}] \in Int BY <2>1, <2>3
    <3>3. QED BY ONLY <2>4, <3>1, <3>2
  <2>6. ASSUME NEW x \in T PROVE g[T] = f[x] + g[T \ {x}]
    <3>1. CASE x = anyOf(T) BY <2>4, <3>1
    <3>2. CASE x # anyOf(T)
      <4> DEFINE y == anyOf(T)
      <4>1. g[T \ {y}] = f[x] + g[(T \ {y}) \ {x}] BY <2>1, <2>3, <3>2
      <4>2. g[T \ {x}] = f[y] + g[(T \ {x}) \ {y}] BY <2>1, <2>3, <3>2
      <4>3. (T \ {y}) \ {x} = (T \ {x}) \ {y} OBVIOUS
      <4>4. g[(T \ {x}) \ {y}] \in Int
        <5>1. (T \ {x}) \ {y} \in SUBSET S OBVIOUS
        <5>2. Cardinality((T \ {x}) \ {y}) <= n
          <6>1. IsFiniteSet(T \ {x}) /\ Cardinality(T \ {x}) <= n /\ y \in T \ {x}
            BY <1>1, <2>1, <2>2, <3>2
          <6>2. Cardinality((T \ {x}) \ {y}) = Cardinality(T \ {x}) - 1
            BY <6>1, FS_RemoveElement
          <6>3. n \in Nat /\ Cardinality(T \ {x}) \in Nat BY <1>1
          <6>4. QED BY <6>1, <6>2, <6>3
        <5>3. QED BY <5>1, <5>2
      <4>5. f[x] \in Int /\ f[y] \in Int BY <2>1
      <4>6. ASSUME NEW rest, rest = g[(T \ {x}) \ {y}] PROVE g[T] = f[x] + g[T \ {x}]
        <5>1. rest \in Int BY <4>4, <4>6
        <5>2. g[T \ {x}] = f[y] + rest BY <4>2, <4>6
        <5>3. g[T] = f[y] + (f[x] + rest) BY <2>4, <4>1, <4>3, <4>6
        <5> HIDE DEF y
        <5>4. QED BY <4>5, <5>1, <5>2, <5>3
      <4>7. QED BY <4>6
    <3>3. QED BY <3>1, <3>2
  <2>7. QED BY <2>5, <2>6
<1>5. ASSUME NEW n \in N PROVE n + 1 \in N
  <2>1. good({})
    <3>1. g[{}] = 0 BY <1>2
    <3>2. QED BY <3>1
  <2> HIDE DEF good
  <2>2. \A T \in SUBSET S : Cardinality(T) <= n + 1 => good(T) BY <1>4, <2>1
  <2>3. QED BY <2>2
<1>6. N \in SUBSET Nat OBVIOUS
<1> HIDE DEF N
<1>7. N = Nat BY <1>3, <1>5, <1>6, NatSetInduction
<1> HIDE DEF good
<1>8. \A T \in SUBSET S : good(T) BY <1>1, <1>7 DEF N
<1>9. QED BY <1>8 DEF good

\* Sums of functions that agree are equal, whatever else the functions do.
LEMMA FoldsAgree ==
  ASSUME NEW f, NEW g, NEW S, IsFiniteSet(S), \A x \in S : f[x] \in Int /\ f[x] = g[x],
         NEW A, S \subseteq A, IsFiniteSet(A), NEW h, IsSum(f, A, h), \A x \in A : f[x] \in Int,
         NEW B, S \subseteq B, IsFiniteSet(B), NEW k, IsSum(g, B, k), \A x \in B : g[x] \in Int
  PROVE  h[S] = k[S]
<1> DEFINE P == {T \in SUBSET S : h[T] = k[T]}
<1>1. h[{}] = 0 /\ k[{}] = 0 BY DEF IsSum
<1>2. {} \in P BY <1>1
<1>3. ASSUME NEW T \in P, NEW x \in S \ T PROVE T \cup {x} \in P
  <2> DEFINE U == T \cup {x}
  <2>1. U \in SUBSET S /\ U \in SUBSET A /\ U \in SUBSET B /\ x \in U /\ U \ {x} = T OBVIOUS
  <2>2. h[U] = f[x] + h[U \ {x}] BY <2>1, FoldRemoves
  <2>3. k[U] = g[x] + k[U \ {x}] BY <2>1, FoldRemoves
  <2>4. h[U] = k[U] BY <2>1, <2>2, <2>3
  <2>5. QED BY <2>1, <2>4
<1>4. P \in SUBSET SUBSET S OBVIOUS
<1> HIDE DEF P
<1>5. S \in P BY <1>2, <1>3, <1>4, FiniteSetInduction
<1>6. QED BY <1>5 DEF P

-----------------------------------------------------------------------------
LEMMA SumFolds ==
  ASSUME NEW f, NEW S, IsFiniteSet(S)
  PROVE  \E g : IsSum(f, S, g) /\ SumFunctionOnSet(f, S) = g[S]
<1>1. \E g : IsSum(f, S, g) BY FoldExists
<1> DEFINE g == CHOOSE g : IsSum(f, S, g)
<1>2. IsSum(f, S, g) BY <1>1
<1>3. SumFunctionOnSet(f, S) = g[S] BY SumIsFold
<1> HIDE DEF g
<1>4. QED BY <1>2, <1>3

LEMMA SumEmpty == ASSUME NEW f PROVE SumFunctionOnSet(f, {}) = 0
<1>1. IsFiniteSet({}) BY FS_EmptySet
<1>2. PICK g : IsSum(f, {}, g) /\ SumFunctionOnSet(f, {}) = g[{}] BY <1>1, SumFolds
<1>3. QED BY <1>2 DEF IsSum

LEMMA SumInt ==
  ASSUME NEW f, NEW S, IsFiniteSet(S), \A x \in S : f[x] \in Int
  PROVE  SumFunctionOnSet(f, S) \in Int
<1>1. PICK g : IsSum(f, S, g) /\ SumFunctionOnSet(f, S) = g[S] BY SumFolds
<1>2. S \in SUBSET S OBVIOUS
<1>3. QED BY <1>1, <1>2, FoldRemoves

LEMMA SumAgrees ==
  ASSUME NEW f, NEW g, NEW S, IsFiniteSet(S), \A x \in S : f[x] \in Int /\ f[x] = g[x]
  PROVE  SumFunctionOnSet(f, S) = SumFunctionOnSet(g, S)
<1>1. PICK h : IsSum(f, S, h) /\ SumFunctionOnSet(f, S) = h[S] BY SumFolds
<1>2. PICK k : IsSum(g, S, k) /\ SumFunctionOnSet(g, S) = k[S] BY SumFolds
<1>3. \A x \in S : g[x] \in Int OBVIOUS
<1>4. h[S] = k[S] BY <1>1, <1>2, <1>3, FoldsAgree
<1>5. QED BY <1>1, <1>2, <1>4

LEMMA SumRemoves ==
  ASSUME NEW f, NEW S, IsFiniteSet(S), \A x \in S : f[x] \in Int, NEW x \in S
  PROVE  SumFunctionOnSet(f, S) = f[x] + SumFunctionOnSet(f, S \ {x})
<1> DEFINE T == S \ {x}
<1>1. IsFiniteSet(T) BY FS_RemoveElement
<1>2. PICK h : IsSum(f, S, h) /\ SumFunctionOnSet(f, S) = h[S] BY SumFolds
<1>3. PICK k : IsSum(f, T, k) /\ SumFunctionOnSet(f, T) = k[T] BY <1>1, SumFolds
<1>4. h[S] = f[x] + h[T]
  <2>1. S \in SUBSET S OBVIOUS
  <2>2. QED BY <1>2, <2>1, FoldRemoves
<1>5. h[T] = k[T]
  <2>1. T \subseteq S /\ \A y \in T : f[y] \in Int OBVIOUS
  <2> HIDE DEF T
  <2>2. QED BY <1>1, <1>2, <1>3, <2>1, FoldsAgree
<1>6. QED BY <1>2, <1>3, <1>4, <1>5

-----------------------------------------------------------------------------
\* What the proofs of the ledgers use.

LEMMA SumZero ==
  ASSUME NEW f, NEW S, IsFiniteSet(S), \A x \in S : f[x] = 0
  PROVE  SumFunctionOnSet(f, S) = 0
<1> DEFINE P == {T \in SUBSET S : SumFunctionOnSet(f, T) = 0}
<1>1. {} \in P BY SumEmpty
<1>2. ASSUME NEW T \in P, NEW x \in S \ T PROVE T \cup {x} \in P
  <2> DEFINE U == T \cup {x}
  <2>1. U \in SUBSET S /\ x \in U /\ U \ {x} = T OBVIOUS
  <2>2. IsFiniteSet(U) BY <2>1, FS_Subset
  <2>3. \A y \in U : f[y] = 0 /\ f[y] \in Int BY <2>1
  <2>4. SumFunctionOnSet(f, U) = f[x] + SumFunctionOnSet(f, T) BY <2>1, <2>2, <2>3, SumRemoves
  <2>5. QED BY <2>1, <2>3, <2>4
<1>3. P \in SUBSET SUBSET S OBVIOUS
<1> HIDE DEF P
<1>4. S \in P BY <1>1, <1>2, <1>3, FiniteSetInduction
<1>5. QED BY <1>4 DEF P

LEMMA SumNat ==
  ASSUME NEW f, NEW S, IsFiniteSet(S), \A x \in S : f[x] \in Nat
  PROVE  SumFunctionOnSet(f, S) \in Nat
<1> DEFINE P == {T \in SUBSET S : SumFunctionOnSet(f, T) \in Nat}
<1>1. {} \in P BY SumEmpty
<1>2. ASSUME NEW T \in P, NEW x \in S \ T PROVE T \cup {x} \in P
  <2> DEFINE U == T \cup {x}
  <2>1. U \in SUBSET S /\ x \in U /\ U \ {x} = T OBVIOUS
  <2>2. IsFiniteSet(U) BY <2>1, FS_Subset
  <2>3. \A y \in U : f[y] \in Nat /\ f[y] \in Int BY <2>1
  <2>4. SumFunctionOnSet(f, U) = f[x] + SumFunctionOnSet(f, T) BY <2>1, <2>2, <2>3, SumRemoves
  <2>5. QED BY <2>1, <2>3, <2>4
<1>3. P \in SUBSET SUBSET S OBVIOUS
<1> HIDE DEF P
<1>4. S \in P BY <1>1, <1>2, <1>3, FiniteSetInduction
<1>5. QED BY <1>4 DEF P

\* A set of integers that holds 0 and is closed under + holds its sums.
LEMMA SumClosed ==
  ASSUME NEW W, W \subseteq Int, 0 \in W, \A v, w \in W : v + w \in W,
         NEW f, NEW S, IsFiniteSet(S), \A x \in S : f[x] \in W
  PROVE  SumFunctionOnSet(f, S) \in W
<1> DEFINE P == {T \in SUBSET S : SumFunctionOnSet(f, T) \in W}
<1>1. {} \in P BY SumEmpty
<1>2. ASSUME NEW T \in P, NEW x \in S \ T PROVE T \cup {x} \in P
  <2> DEFINE U == T \cup {x}
  <2>1. U \in SUBSET S /\ x \in U /\ U \ {x} = T OBVIOUS
  <2>2. IsFiniteSet(U) BY <2>1, FS_Subset
  <2>3. \A y \in U : f[y] \in W /\ f[y] \in Int BY <2>1
  <2>4. SumFunctionOnSet(f, U) = f[x] + SumFunctionOnSet(f, T) BY <2>1, <2>2, <2>3, SumRemoves
  <2>5. x \in U /\ SumFunctionOnSet(f, T) \in W BY <1>2, <2>1
  <2>6. f[x] + SumFunctionOnSet(f, T) \in W BY <2>3, <2>5
  <2>7. QED BY <2>1, <2>4, <2>6
<1>3. P \in SUBSET SUBSET S OBVIOUS
<1> HIDE DEF P
<1>4. S \in P BY <1>1, <1>2, <1>3, FiniteSetInduction
<1>5. QED BY <1>4 DEF P

\* Two functions that agree on S except at x.
DifferAt(f, g, S, x) ==
  /\ IsFiniteSet(S) /\ x \in S
  /\ \A y \in S : f[y] \in Int /\ g[y] \in Int
  /\ \A y \in S \ {x} : g[y] = f[y]

LEMMA SumChanges ==
  ASSUME NEW S, NEW f, NEW g, NEW x, DifferAt(f, g, S, x)
  PROVE  SumFunctionOnSet(g, S) = SumFunctionOnSet(f, S) - f[x] + g[x]
<1> DEFINE T == S \ {x}
<1> USE DEF DifferAt
<1>1. IsFiniteSet(T) BY FS_RemoveElement
<1>2. \A y \in S : f[y] \in Int OBVIOUS
<1>3. \A y \in S : g[y] \in Int OBVIOUS
<1>4. SumFunctionOnSet(f, S) = f[x] + SumFunctionOnSet(f, T) BY <1>2, SumRemoves
<1>5. SumFunctionOnSet(g, S) = g[x] + SumFunctionOnSet(g, T) BY <1>3, SumRemoves
<1>6. SumFunctionOnSet(f, T) = SumFunctionOnSet(g, T) BY <1>1, SumAgrees
<1>7. SumFunctionOnSet(f, T) \in Int BY <1>1, SumInt
<1> HIDE DEF T
<1>8. QED BY <1>4, <1>5, <1>6, <1>7

\* n elements of S that were 0 become the differences of a running total.
Inserts(f, g, S, n, ids, total) ==
  /\ IsFiniteSet(S) /\ n \in Nat
  /\ \A y \in S : f[y] \in Int /\ g[y] \in Int
  /\ \A i \in 1 .. n : ids[i] \in S
  /\ \A i, j \in 1 .. n : ids[i] = ids[j] => i = j
  /\ \A i \in 0 .. n : total[i] \in Int
  /\ \A i \in 1 .. n : f[ids[i]] = 0 /\ g[ids[i]] = total[i] - total[i - 1]
  /\ \A y \in S : (\A i \in 1 .. n : ids[i] # y) => g[y] = f[y]

LEMMA SumInserts ==
  ASSUME NEW S, NEW f, NEW g, NEW n, NEW ids, NEW total, Inserts(f, g, S, n, ids, total)
  PROVE  SumFunctionOnSet(g, S) = SumFunctionOnSet(f, S) + (total[n] - total[0])
<1> USE DEF Inserts
<1> DEFINE made(k) == {ids[i] : i \in 1 .. k}
           mid(k) == [y \in S |-> IF y \in made(k) THEN g[y] ELSE f[y]]
           N == {k \in Nat : k <= n =>
                   SumFunctionOnSet(mid(k), S) = SumFunctionOnSet(f, S) + (total[k] - total[0])}
<1>1. SumFunctionOnSet(f, S) \in Int BY SumInt
<1>2. 0 \in N
  <2>1. \A y \in S : mid(0)[y] \in Int /\ mid(0)[y] = f[y] OBVIOUS
  <2> HIDE DEF mid
  <2>2. SumFunctionOnSet(mid(0), S) = SumFunctionOnSet(f, S) BY <2>1, SumAgrees
  <2>3. total[0] \in Int OBVIOUS
  <2>4. QED BY <1>1, <2>2, <2>3
<1>3. ASSUME NEW k \in N, k + 1 <= n PROVE k + 1 \in N
  <2> DEFINE x == ids[k + 1]
  <2>1. k \in Nat /\ k + 1 \in 1 .. n /\ k \in 0 .. n /\ k <= n BY <1>3
  <2>2. x \in S BY <2>1
  <2>3. x \notin made(k)
    <3>1. \A i \in 1 .. k : i \in 1 .. n /\ i # k + 1 BY <2>1
    <3>2. QED BY <2>1, <3>1
  <2>4. made(k + 1) = made(k) \cup {x}
    <3>1. 1 .. (k + 1) = (1 .. k) \cup {k + 1} BY <2>1
    <3>2. QED BY <3>1
  <2>5. \A y \in S : mid(k)[y] \in Int /\ mid(k + 1)[y] \in Int OBVIOUS
  <2>6. \A y \in S \ {x} : mid(k + 1)[y] = mid(k)[y] BY <2>4
  <2>7. mid(k)[x] = 0 /\ mid(k + 1)[x] = total[k + 1] - total[(k + 1) - 1]
    BY <2>1, <2>2, <2>3, <2>4
  <2>8. (k + 1) - 1 = k /\ total[k] \in Int /\ total[k + 1] \in Int /\ total[0] \in Int BY <2>1
  <2>9. SumFunctionOnSet(mid(k), S) = SumFunctionOnSet(f, S) + (total[k] - total[0]) BY <2>1
  <2> HIDE DEF mid, x, made
  <2>10. SumFunctionOnSet(mid(k + 1), S)
           = SumFunctionOnSet(mid(k), S) - mid(k)[x] + mid(k + 1)[x]
    <3>1. DifferAt(mid(k), mid(k + 1), S, x) BY <2>2, <2>5, <2>6 DEF DifferAt
    <3>2. QED BY <3>1, SumChanges
  <2>11. SumFunctionOnSet(mid(k + 1), S) = SumFunctionOnSet(f, S) + (total[k + 1] - total[0])
    BY <1>1, <2>7, <2>8, <2>9, <2>10
  <2>12. QED BY <2>1, <2>11
<1>4. ASSUME NEW k \in N PROVE k + 1 \in N
  <2>1. k \in Nat OBVIOUS
  <2>2. CASE k + 1 <= n BY <1>3, <2>2
  <2>3. CASE ~(k + 1 <= n) BY <2>1, <2>3
  <2>4. QED BY <2>2, <2>3
<1>5. N \in SUBSET Nat OBVIOUS
<1> HIDE DEF N
<1>6. n \in N BY <1>2, <1>4, <1>5, NatSetInduction
<1>7. SumFunctionOnSet(mid(n), S) = SumFunctionOnSet(f, S) + (total[n] - total[0])
  BY <1>6 DEF N
<1>8. \A y \in S : mid(n)[y] \in Int /\ mid(n)[y] = g[y] OBVIOUS
<1> HIDE DEF mid
<1>9. SumFunctionOnSet(mid(n), S) = SumFunctionOnSet(g, S) BY <1>8, SumAgrees
<1>10. QED BY <1>7, <1>9

-----------------------------------------------------------------------------
\* What the proofs of the task's accounts use.

LEMMA SumOrdered ==
  ASSUME NEW f, NEW g, NEW S, IsFiniteSet(S),
         \A x \in S : f[x] \in Int /\ g[x] \in Int /\ f[x] <= g[x]
  PROVE  SumFunctionOnSet(f, S) <= SumFunctionOnSet(g, S)
<1> DEFINE P == {T \in SUBSET S : SumFunctionOnSet(f, T) <= SumFunctionOnSet(g, T)}
<1>1. {} \in P BY SumEmpty
<1>2. ASSUME NEW T \in P, NEW x \in S \ T PROVE T \cup {x} \in P
  <2> DEFINE U == T \cup {x}
  <2>1. U \in SUBSET S /\ x \in U /\ U \ {x} = T OBVIOUS
  <2>2. IsFiniteSet(U) /\ IsFiniteSet(T) BY <2>1, FS_Subset
  <2>3. \A y \in U : f[y] \in Int BY <2>1
  <2>4. \A y \in U : g[y] \in Int BY <2>1
  <2>5. SumFunctionOnSet(f, U) = f[x] + SumFunctionOnSet(f, T) BY <2>1, <2>2, <2>3, SumRemoves
  <2>6. SumFunctionOnSet(g, U) = g[x] + SumFunctionOnSet(g, T) BY <2>1, <2>2, <2>4, SumRemoves
  <2>7. SumFunctionOnSet(f, T) \in Int BY <2>2, <2>3, SumInt
  <2>8. SumFunctionOnSet(g, T) \in Int BY <2>2, <2>4, SumInt
  <2>9. f[x] \in Int /\ g[x] \in Int /\ f[x] <= g[x]
        /\ SumFunctionOnSet(f, T) <= SumFunctionOnSet(g, T)
    OBVIOUS
  <2> HIDE DEF U
  <2>10. SumFunctionOnSet(f, U) <= SumFunctionOnSet(g, U) BY <2>5, <2>6, <2>7, <2>8, <2>9
  <2>11. QED BY <2>1, <2>10 DEF U
<1>3. P \in SUBSET SUBSET S OBVIOUS
<1> HIDE DEF P
<1>4. S \in P BY <1>1, <1>2, <1>3, FiniteSetInduction
<1>5. QED BY <1>4 DEF P

\* h is f plus g on S.
AddsUp(f, g, h, S) ==
  /\ IsFiniteSet(S)
  /\ \A x \in S : f[x] \in Int /\ g[x] \in Int /\ h[x] = f[x] + g[x]

LEMMA SumPlus ==
  ASSUME NEW f, NEW g, NEW h, NEW S, AddsUp(f, g, h, S)
  PROVE  SumFunctionOnSet(h, S) = SumFunctionOnSet(f, S) + SumFunctionOnSet(g, S)
<1> USE DEF AddsUp
<1> DEFINE P == {T \in SUBSET S :
                  SumFunctionOnSet(h, T) = SumFunctionOnSet(f, T) + SumFunctionOnSet(g, T)}
<1>1. {} \in P BY SumEmpty
<1>2. ASSUME NEW T \in P, NEW x \in S \ T PROVE T \cup {x} \in P
  <2> DEFINE U == T \cup {x}
  <2>1. U \in SUBSET S /\ x \in U /\ U \ {x} = T OBVIOUS
  <2>2. IsFiniteSet(U) /\ IsFiniteSet(T) BY <2>1, FS_Subset
  <2>3. \A y \in U : f[y] \in Int BY <2>1
  <2>4. \A y \in U : g[y] \in Int BY <2>1
  <2>5. \A y \in U : h[y] \in Int BY <2>1
  <2>6. SumFunctionOnSet(f, U) = f[x] + SumFunctionOnSet(f, T) BY <2>1, <2>2, <2>3, SumRemoves
  <2>7. SumFunctionOnSet(g, U) = g[x] + SumFunctionOnSet(g, T) BY <2>1, <2>2, <2>4, SumRemoves
  <2>8. SumFunctionOnSet(h, U) = h[x] + SumFunctionOnSet(h, T) BY <2>1, <2>2, <2>5, SumRemoves
  <2>9. SumFunctionOnSet(f, T) \in Int BY <2>2, <2>3, SumInt
  <2>10. SumFunctionOnSet(g, T) \in Int BY <2>2, <2>4, SumInt
  <2>11. f[x] \in Int /\ g[x] \in Int /\ h[x] = f[x] + g[x]
         /\ SumFunctionOnSet(h, T) = SumFunctionOnSet(f, T) + SumFunctionOnSet(g, T)
    OBVIOUS
  <2> HIDE DEF U
  <2>12. SumFunctionOnSet(h, U) = SumFunctionOnSet(f, U) + SumFunctionOnSet(g, U)
    BY <2>6, <2>7, <2>8, <2>9, <2>10, <2>11
  <2>13. QED BY <2>1, <2>12 DEF U
<1>3. P \in SUBSET SUBSET S OBVIOUS
<1> HIDE DEF P
<1>4. S \in P BY <1>1, <1>2, <1>3, FiniteSetInduction
<1>5. QED BY <1>4 DEF P

\* g is f on the part A of S, and 0 elsewhere.
OnPart(f, g, A, S) ==
  /\ IsFiniteSet(S) /\ A \subseteq S
  /\ \A x \in S : g[x] = IF x \in A THEN f[x] ELSE 0
  /\ \A x \in A : f[x] \in Int

LEMMA SumPart ==
  ASSUME NEW f, NEW g, NEW A, NEW S, OnPart(f, g, A, S)
  PROVE  SumFunctionOnSet(g, S) = SumFunctionOnSet(f, A)
<1> USE DEF OnPart
<1>0. IsFiniteSet(A) BY FS_Subset
<1>9. SumFunctionOnSet(g, A) = SumFunctionOnSet(f, A)
  <2>1. \A x \in A : g[x] \in Int /\ g[x] = f[x] OBVIOUS
  <2>2. QED BY <1>0, <2>1, SumAgrees
<1> DEFINE P == {T \in SUBSET (S \ A) :
                  SumFunctionOnSet(g, A \cup T) = SumFunctionOnSet(f, A)}
<1>1. {} \in P
  <2>1. A \cup {} = A OBVIOUS
  <2>2. QED BY <1>9, <2>1
<1>2. ASSUME NEW T \in P, NEW x \in (S \ A) \ T PROVE T \cup {x} \in P
  <2> DEFINE U == A \cup (T \cup {x})
             V == A \cup T
  <2>1. U \in SUBSET S /\ x \in U /\ U \ {x} = V /\ T \cup {x} \in SUBSET (S \ A) OBVIOUS
  <2>2. IsFiniteSet(U) BY <2>1, FS_Subset
  <2>3. \A y \in U : g[y] \in Int BY <2>1
  <2>4. g[x] = 0 OBVIOUS
  <2>5. SumFunctionOnSet(g, V) = SumFunctionOnSet(f, A) OBVIOUS
  <2>6. SumFunctionOnSet(f, A) \in Int BY <1>0, SumInt
  <2>7. SumFunctionOnSet(g, U) = g[x] + SumFunctionOnSet(g, U \ {x})
    <3> HIDE DEF U, V
    <3>1. QED BY <2>1, <2>2, <2>3, SumRemoves
  <2>8. SumFunctionOnSet(g, U) = SumFunctionOnSet(f, A)
    <3>1. U \ {x} = V BY <2>1
    <3> HIDE DEF U, V
    <3>2. SumFunctionOnSet(g, U) = 0 + SumFunctionOnSet(g, V) BY ONLY <2>4, <2>7, <3>1
    <3>3. PICK all \in Int : all = SumFunctionOnSet(f, A) BY <2>6
    <3>4. 0 + all = all OBVIOUS
    <3>5. QED BY ONLY <2>5, <3>2, <3>3, <3>4
  <2>9. QED BY <2>1, <2>8
<1>3. P \in SUBSET SUBSET (S \ A) OBVIOUS
<1>4. IsFiniteSet(S \ A) BY FS_Subset
<1> HIDE DEF P
<1>5. S \ A \in P BY <1>1, <1>2, <1>3, <1>4, FiniteSetInduction
<1>6. A \cup (S \ A) = S OBVIOUS
<1>7. QED BY <1>5, <1>6 DEF P

-----------------------------------------------------------------------------
\* What the proofs of the replies' prices use.

LEMMA Distributes ==
  ASSUME NEW k \in Int, NEW u \in Int, NEW v \in Int
  PROVE  (u + v) * k = u * k + v * k
OBVIOUS

LEMMA Ordered ==
  ASSUME NEW u \in Int, NEW v \in Int, u <= v, NEW k \in Nat PROVE u * k <= v * k
<1>1. PICK d \in Nat : v = u + d
  <2>1. v - u \in Nat /\ v = u + (v - u) OBVIOUS
  <2>2. QED BY <2>1
<1>2. (u + d) * k = u * k + d * k BY Distributes
<1>3. u * k \in Int /\ d * k \in Nat OBVIOUS
<1>4. QED BY <1>1, <1>2, <1>3

\* Scaled by k, f is below g.
Scaled(f, g, k, S) ==
  /\ IsFiniteSet(S) /\ k \in Int
  /\ \A x \in S : f[x] \in Int /\ g[x] \in Int /\ f[x] * k <= g[x]

LEMMA SumScaled ==
  ASSUME NEW f, NEW g, NEW k, NEW S, Scaled(f, g, k, S)
  PROVE  SumFunctionOnSet(f, S) * k <= SumFunctionOnSet(g, S)
<1> USE DEF Scaled
<1> DEFINE P == {T \in SUBSET S : SumFunctionOnSet(f, T) * k <= SumFunctionOnSet(g, T)}
<1>1. {} \in P
  <2>1. 0 * k = 0 OBVIOUS
  <2>2. QED BY <2>1, SumEmpty
<1>2. ASSUME NEW T \in P, NEW x \in S \ T PROVE T \cup {x} \in P
  <2> DEFINE U == T \cup {x}
  <2>1. U \in SUBSET S /\ x \in U /\ U \ {x} = T OBVIOUS
  <2>2. IsFiniteSet(U) /\ IsFiniteSet(T) BY <2>1, FS_Subset
  <2>3. \A y \in U : f[y] \in Int BY <2>1
  <2>4. \A y \in U : g[y] \in Int BY <2>1
  <2>5. SumFunctionOnSet(f, U) = f[x] + SumFunctionOnSet(f, T) BY <2>1, <2>2, <2>3, SumRemoves
  <2>6. SumFunctionOnSet(g, U) = g[x] + SumFunctionOnSet(g, T) BY <2>1, <2>2, <2>4, SumRemoves
  <2>7. SumFunctionOnSet(f, T) \in Int BY <2>2, <2>3, SumInt
  <2>8. SumFunctionOnSet(g, T) \in Int BY <2>2, <2>4, SumInt
  <2>9. f[x] \in Int /\ g[x] \in Int /\ f[x] * k <= g[x]
        /\ SumFunctionOnSet(f, T) * k <= SumFunctionOnSet(g, T)
    OBVIOUS
  <2> HIDE DEF U
  <2>10. SumFunctionOnSet(f, U) * k <= SumFunctionOnSet(g, U)
    <3>1. PICK fx, ft, gx, gt : fx = f[x] /\ ft = SumFunctionOnSet(f, T)
                                /\ gx = g[x] /\ gt = SumFunctionOnSet(g, T)
      OBVIOUS
    <3>2. fx \in Int /\ ft \in Int /\ gx \in Int /\ gt \in Int BY <2>7, <2>8, <2>9, <3>1
    <3>3. (fx + ft) * k = fx * k + ft * k BY <3>2, Distributes
    <3>4. fx * k \in Int /\ ft * k \in Int BY <3>2
    <3>5. fx * k <= gx /\ ft * k <= gt BY <2>9, <3>1
    <3>6. (fx + ft) * k <= gx + gt BY ONLY <3>2, <3>3, <3>4, <3>5
    <3>7. QED BY <2>5, <2>6, <3>1, <3>6
  <2>11. QED BY <2>1, <2>10 DEF U
<1>3. P \in SUBSET SUBSET S OBVIOUS
<1> HIDE DEF P
<1>4. S \in P BY <1>1, <1>2, <1>3, FiniteSetInduction
<1>5. QED BY <1>4 DEF P

\* n times b is the sum of b over n elements.
LEMMA SumConstant ==
  ASSUME NEW S, IsFiniteSet(S), NEW b \in Int
  PROVE  SumFunctionOnSet([x \in S |-> b], S) = Cardinality(S) * b
<1> DEFINE f == [x \in S |-> b]
           P == {T \in SUBSET S : SumFunctionOnSet(f, T) = Cardinality(T) * b}
<1>1. {} \in P
  <2>1. Cardinality({}) = 0 /\ 0 * b = 0 BY FS_EmptySet
  <2>2. QED BY <2>1, SumEmpty
<1>2. ASSUME NEW T \in P, NEW x \in S \ T PROVE T \cup {x} \in P
  <2> DEFINE U == T \cup {x}
  <2>1. U \in SUBSET S /\ x \in U /\ U \ {x} = T OBVIOUS
  <2>2. IsFiniteSet(U) /\ IsFiniteSet(T) BY <2>1, FS_Subset
  <2>3. \A y \in U : f[y] = b /\ f[y] \in Int BY <2>1
  <2>4. SumFunctionOnSet(f, U) = f[x] + SumFunctionOnSet(f, T) BY <2>1, <2>2, <2>3, SumRemoves
  <2>5. Cardinality(U) = Cardinality(T) + 1 /\ Cardinality(T) \in Nat
    BY <2>2, FS_AddElement, FS_CardinalityType
  <2>6. SumFunctionOnSet(f, T) = Cardinality(T) * b OBVIOUS
  <2>7. PICK n \in Int : n = Cardinality(T) BY <2>5
  <2>8. (n + 1) * b = n * b + 1 * b /\ 1 * b = b /\ n * b \in Int BY Distributes
  <2> HIDE DEF U, f
  <2>9. SumFunctionOnSet(f, U) = b + n * b BY <2>1, <2>3, <2>4, <2>6, <2>7
  <2>10. b + n * b = (n + 1) * b BY <2>8
  <2>11. QED BY <2>1, <2>5, <2>7, <2>9, <2>10 DEF U
<1>3. P \in SUBSET SUBSET S OBVIOUS
<1> HIDE DEF P
<1>4. S \in P BY <1>1, <1>2, <1>3, FiniteSetInduction
<1>5. QED BY <1>4 DEF P

LEMMA SumSubset ==
  ASSUME NEW f, NEW S, IsFiniteSet(S), \A x \in S : f[x] \in Nat, NEW T \in SUBSET S
  PROVE  SumFunctionOnSet(f, T) <= SumFunctionOnSet(f, S)
<1> DEFINE g == [x \in S |-> IF x \in T THEN f[x] ELSE 0]
<1>1. OnPart(f, g, T, S) BY DEF OnPart
<1>2. SumFunctionOnSet(g, S) = SumFunctionOnSet(f, T) BY <1>1, SumPart
<1>3. \A x \in S : g[x] \in Int /\ f[x] \in Int /\ g[x] <= f[x] OBVIOUS
<1> HIDE DEF g
<1>4. SumFunctionOnSet(g, S) <= SumFunctionOnSet(f, S) BY <1>3, SumOrdered
<1>5. QED BY <1>2, <1>4

\* A running total, as a recursion over 0 .. n.
IsRun(g, n, c, f) == g = [i \in 0 .. n |-> IF i = 0 THEN c ELSE g[i - 1] + f[i]]

LEMMA RunAdds ==
  ASSUME NEW n \in Nat, NEW f, \A i \in 1 .. n : f[i] \in Int, NEW i \in 1 .. n
  PROVE  /\ SumFunctionOnSet(f, 1 .. (i - 1)) \in Int
         /\ SumFunctionOnSet(f, 1 .. i) = f[i] + SumFunctionOnSet(f, 1 .. (i - 1))
<1>1. i \in 1 .. i /\ (1 .. i) \ {i} = 1 .. (i - 1) /\ 1 .. i \subseteq 1 .. n
      /\ 1 .. (i - 1) \subseteq 1 .. n
  OBVIOUS
<1>2. IsFiniteSet(1 .. i) /\ IsFiniteSet(1 .. (i - 1)) BY FS_Interval
<1>3. \A x \in 1 .. i : f[x] \in Int BY <1>1
<1>4. SumFunctionOnSet(f, 1 .. i) = f[i] + SumFunctionOnSet(f, (1 .. i) \ {i})
  BY <1>1, <1>2, <1>3, SumRemoves
<1>5. SumFunctionOnSet(f, 1 .. (i - 1)) \in Int BY <1>1, <1>2, SumInt
<1>6. QED BY <1>1, <1>4, <1>5

LEMMA RunExists ==
  ASSUME NEW n \in Nat, NEW c \in Int, NEW f, \A i \in 1 .. n : f[i] \in Int
  PROVE  \E g : IsRun(g, n, c, f)
<1> DEFINE g == [i \in 0 .. n |-> c + SumFunctionOnSet(f, 1 .. i)]
<1>1. g[0] = c
  <2>1. 1 .. 0 = {} OBVIOUS
  <2>2. QED BY <2>1, SumEmpty
<1>2. ASSUME NEW i \in 0 .. n, i # 0 PROVE g[i] = g[i - 1] + f[i]
  <2>1. i \in 1 .. n /\ i - 1 \in 0 .. n BY <1>2
  <2>2. f[i] \in Int BY <2>1
  <2>3. PICK before, all : /\ before = SumFunctionOnSet(f, 1 .. (i - 1))
                           /\ all = SumFunctionOnSet(f, 1 .. i)
    OBVIOUS
  <2>4. before \in Int /\ all = f[i] + before BY <2>1, <2>3, RunAdds
  <2>5. g[i] = c + all /\ g[i - 1] = c + before BY <2>1, <2>3
  <2> HIDE DEF g
  <2>6. QED BY <2>2, <2>4, <2>5
<1>3. g = [i \in 0 .. n |-> IF i = 0 THEN c ELSE g[i - 1] + f[i]]
  <2>1. g = [i \in 0 .. n |-> g[i]] OBVIOUS
  <2> HIDE DEF g
  <2>2. QED BY <1>1, <1>2, <2>1
<1> HIDE DEF g
<1>4. QED BY <1>3 DEF IsRun

LEMMA RunSums ==
  ASSUME NEW n \in Nat, NEW c \in Int, NEW f, \A i \in 1 .. n : f[i] \in Int,
         NEW g, IsRun(g, n, c, f)
  PROVE  \A i \in 0 .. n : g[i] = c + SumFunctionOnSet(f, 1 .. i)
<1> DEFINE N == {i \in Nat : i <= n => g[i] = c + SumFunctionOnSet(f, 1 .. i)}
<1>1. \A i \in 0 .. n : g[i] = IF i = 0 THEN c ELSE g[i - 1] + f[i] BY DEF IsRun
<1>2. 0 \in N
  <2>1. 1 .. 0 = {} OBVIOUS
  <2>2. g[0] = c BY <1>1
  <2>3. QED BY <2>1, <2>2, SumEmpty
<1>3. ASSUME NEW i \in N, i + 1 <= n PROVE i + 1 \in N
  <2>1. i \in Nat /\ i + 1 \in 1 .. n /\ (i + 1) - 1 = i /\ i + 1 # 0 BY <1>3
  <2>2. g[i + 1] = g[i] + f[i + 1] BY <1>1, <2>1
  <2>3. f[i + 1] \in Int BY <2>1
  <2>4. PICK before, all : /\ before = SumFunctionOnSet(f, 1 .. i)
                           /\ all = SumFunctionOnSet(f, 1 .. (i + 1))
    OBVIOUS
  <2>5. before \in Int /\ all = f[i + 1] + before
    <3>1. PICK j : j = i + 1 OBVIOUS
    <3>2. SumFunctionOnSet(f, 1 .. (j - 1)) \in Int
          /\ SumFunctionOnSet(f, 1 .. j) = f[j] + SumFunctionOnSet(f, 1 .. (j - 1))
      BY <2>1, <3>1, RunAdds
    <3>3. j - 1 = i BY <2>1, <3>1
    <3>4. QED BY <2>4, <3>1, <3>2, <3>3
  <2>6. g[i] = c + before BY <1>3, <2>1, <2>4
  <2>7. g[i + 1] = c + all BY <2>2, <2>3, <2>5, <2>6
  <2>8. QED BY <2>1, <2>4, <2>7
<1>4. ASSUME NEW i \in N PROVE i + 1 \in N
  <2>1. i + 1 \in Nat OBVIOUS
  <2>2. CASE i + 1 <= n BY <1>3, <2>2
  <2>3. CASE ~(i + 1 <= n) BY <2>1, <2>3
  <2>4. QED BY <2>2, <2>3
<1>5. N \in SUBSET Nat OBVIOUS
<1> HIDE DEF N
<1>6. N = Nat BY <1>2, <1>4, <1>5, NatSetInduction
<1>7. QED BY <1>6 DEF N
=============================================================================
