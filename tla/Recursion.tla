----------------------------- MODULE Recursion -----------------------------
(***************************************************************************)
(* Recursion over numbers and over finite sets, as first-order lemmas: the *)
(* induction theorems of the library take a predicate, these take a set.   *)
(***************************************************************************)
EXTENDS Integers, FiniteSets, Functions, FiniteSetTheorems, WellFoundedInduction, TLAPS

\* A set of naturals that is not empty has a least element.
LEMMA LeastElement ==
  ASSUME NEW T \in SUBSET Nat, T # {}
  PROVE  \E m \in T : \A n \in T : m <= n
<1>1. PICK m \in T : \A n \in T : ~(<<n, m>> \in OpToRel(<, Nat))
  <2>1. IsWellFoundedOn(OpToRel(<, Nat), Nat) BY NatLessThanWellFounded
  <2> QED BY <2>1, WFMin
<1>2. \A n \in T : ~(n < m)
  BY <1>1 DEF OpToRel
<1> QED BY <1>2

\* g is the recursion on 0..N that starts with d and takes the given steps.
IsRun(g, S, d, N, step) ==
  /\ g \in [0..N -> S] /\ g[0] = d
  /\ \A i \in 1..N : g[i] = step[<<g[i-1], i>>]

\* A recursion whose values stay in S has a solution on every initial segment.
LEMMA RunExists ==
  ASSUME NEW S, NEW d \in S, NEW N \in Nat, NEW step \in [S \X (1..N) -> S]
  PROVE  \E g : IsRun(g, S, d, N, step)
<1> USE DEF IsRun
<1> DEFINE Runs(n) == {g \in [0..n -> S] :
                         g[0] = d /\ \A i \in 1..n : g[i] = step[<<g[i-1], i>>]}
           Bad == {n \in 0..N : Runs(n) = {}}
<1>1. SUFFICES Bad = {} OBVIOUS
<1>2. SUFFICES ASSUME Bad # {} PROVE FALSE OBVIOUS
<1>3. PICK m \in Bad : \A n \in Bad : m <= n
  <2>1. Bad \in SUBSET Nat OBVIOUS
  <2> HIDE DEF Bad
  <2> QED BY <1>2, <2>1, LeastElement
<1>4. m # 0
  <2>1. [i \in 0..0 |-> d] \in Runs(0) OBVIOUS
  <2> QED BY <2>1
<1>5. m - 1 \in 0..N /\ m - 1 \notin Bad BY <1>3, <1>4
<1>6. PICK g \in Runs(m - 1) : TRUE BY <1>5
<1> DEFINE h == [i \in 0..m |-> IF i = m THEN step[<<g[m-1], m>>] ELSE g[i]]
<1>7. m \in 1..N /\ g[m-1] \in S BY <1>4, <1>6
<1>8. h \in [0..m -> S] BY <1>6, <1>7
<1>9. \A i \in 1..m : h[i] = step[<<h[i-1], i>>]
  <2> TAKE i \in 1..m
  <2>1. CASE i = m
    <3>1. h[m] = step[<<g[m-1], m>>] BY <1>7
    <3>2. h[m-1] = g[m-1] BY <1>7
    <3> QED BY <2>1, <3>1, <3>2
  <2>2. CASE i # m
    <3>1. i \in 1..(m-1) /\ i - 1 \in 0..(m-1) BY <1>7, <2>2
    <3>2. g[i] = step[<<g[i-1], i>>] BY <1>6, <3>1
    <3> QED BY <1>7, <3>1, <3>2
  <2> QED BY <2>1, <2>2
<1>10. h[0] = d BY <1>4, <1>6, <1>7
<1>11. h \in Runs(m) BY <1>8, <1>9, <1>10
<1> QED BY <1>3, <1>11

\* Two functions that agree at 0 and keep agreeing are equal.
LEMMA RunsAgree ==
  ASSUME NEW N \in Nat, NEW f, NEW g, f[0] = g[0],
         \A i \in 1..N : f[i-1] = g[i-1] => f[i] = g[i]
  PROVE  \A i \in 0..N : f[i] = g[i]
<1> DEFINE Bad == {i \in 0..N : f[i] # g[i]}
<1>1. SUFFICES ASSUME Bad # {} PROVE FALSE OBVIOUS
<1>2. PICK m \in Bad : \A n \in Bad : m <= n
  <2>1. Bad \in SUBSET Nat OBVIOUS
  <2> HIDE DEF Bad
  <2> QED BY <1>1, <2>1, LeastElement
<1>3. m \in 1..N OBVIOUS
<1>4. m - 1 \notin Bad BY <1>2, <1>3
<1> QED BY <1>3, <1>4

-----------------------------------------------------------------------------
(* Sums over finite sets.  g is the sum of f over each subset of S, taken  *)
(* element by element in whatever order.                                   *)

SumsUp(f, S, g) ==
  /\ g \in [SUBSET S -> Int] /\ g[{}] = 0
  /\ \A T \in SUBSET S : \A x \in T : g[T] = f[x] + g[T \ {x}]

LEMMA SumsExist ==
  ASSUME NEW U, IsFiniteSet(U), NEW f, \A x \in U : f[x] \in Int
  PROVE  \E g : SumsUp(f, U, g)
<1> DEFINE Bad == {n \in Nat : \E S \in SUBSET U :
                     Cardinality(S) = n /\ \A g : ~SumsUp(f, S, g)}
<1>1. IsFiniteSet(U) /\ Cardinality(U) \in Nat BY FS_CardinalityType
<1>2. SUFFICES ASSUME Bad # {} PROVE FALSE BY <1>1
<1>3. PICK n \in Bad : \A k \in Bad : n <= k
  <2>1. Bad \in SUBSET Nat OBVIOUS
  <2> HIDE DEF Bad
  <2> QED BY <1>2, <2>1, LeastElement
<1>4. PICK S \in SUBSET U : Cardinality(S) = n /\ \A g : ~SumsUp(f, S, g)
  OBVIOUS
<1>5. IsFiniteSet(S) BY <1>1, FS_Subset
<1>6. S # {}
  <2>1. SumsUp(f, {}, [T \in SUBSET {} |-> 0]) BY DEF SumsUp
  <2> QED BY <1>4, <2>1
<1>7. PICK a \in S : TRUE BY <1>6
<1>8. Cardinality(S \ {a}) = n - 1 /\ n - 1 \in Nat
  <2>1. IsFiniteSet(S \ {a}) /\ Cardinality(S \ {a}) = Cardinality(S) - 1
    BY <1>5, <1>7, FS_RemoveElement
  <2> QED BY <1>4, <2>1, FS_CardinalityType
<1>9. PICK g : SumsUp(f, S \ {a}, g)
  <2>1. n - 1 \notin Bad BY <1>3, <1>8
  <2> QED BY <1>8, <2>1
<1> DEFINE h == [T \in SUBSET S |-> g[T \ {a}] + IF a \in T THEN f[a] ELSE 0]
<1>10. f[a] \in Int /\ \A T \in SUBSET S : T \ {a} \in SUBSET (S \ {a}) /\ g[T \ {a}] \in Int
  BY <1>9 DEF SumsUp
<1>11. h \in [SUBSET S -> Int] BY <1>10
<1>12. h[{}] = 0
  <2>1. {} \ {a} = {} OBVIOUS
  <2> QED BY <1>9, <2>1 DEF SumsUp
<1>13. ASSUME NEW T \in SUBSET S, NEW x \in T PROVE h[T] = f[x] + h[T \ {x}]
  <2>0. h[T] = g[T \ {a}] + (IF a \in T THEN f[a] ELSE 0)
        /\ h[T \ {x}] = g[(T \ {x}) \ {a}] + (IF a \in T \ {x} THEN f[a] ELSE 0)
    OBVIOUS
  <2>1. CASE x = a
    <3>1. (T \ {x}) \ {a} = T \ {a} BY <2>1
    <3>2. h[T] = g[T \ {a}] + f[a] /\ h[T \ {x}] = g[T \ {a}] + 0
      BY <1>13, <2>0, <2>1, <3>1
    <3> HIDE DEF h
    <3> QED BY <1>10, <2>1, <3>2
  <2>2. CASE x # a
    <3>1. (T \ {x}) \ {a} = (T \ {a}) \ {x} /\ x \in T \ {a} BY <2>2
    <3>2. g[T \ {a}] = f[x] + g[(T \ {a}) \ {x}]
      BY <1>9, <1>10, <3>1 DEF SumsUp
    <3>3. f[x] \in Int /\ g[(T \ {a}) \ {x}] \in Int BY <1>10, <3>1
    <3>4. \E c \in Int : /\ h[T] = g[T \ {a}] + c
                        /\ h[T \ {x}] = g[(T \ {a}) \ {x}] + c
      <4>1. CASE a \in T BY <1>10, <2>0, <2>2, <3>1, <4>1
      <4>2. CASE a \notin T
        <5>1. h[T] = g[T \ {a}] + 0 /\ h[T \ {x}] = g[(T \ {a}) \ {x}] + 0
          BY <2>0, <3>1, <4>2
        <5> HIDE DEF h
        <5> QED BY <5>1
      <4> QED BY <4>1, <4>2
    <3> HIDE DEF h
    <3> QED BY <1>10, <3>2, <3>3, <3>4
  <2> QED BY <2>1, <2>2
<1>14. SumsUp(f, S, h)
  <2> HIDE DEF h
  <2> QED BY <1>11, <1>12, <1>13 DEF SumsUp
<1> QED BY <1>4, <1>14

\* The sum of the community modules, which picks the elements in some order.
LEMMA SumIsSum ==
  ASSUME NEW S, IsFiniteSet(S), NEW f, NEW g, SumsUp(f, S, g)
  PROVE  SumFunctionOnSet(f, S) = g[S]
<1> DEFINE F(h) == [T \in SUBSET S |->
                      IF T = {} THEN 0
                      ELSE f[CHOOSE x \in T : TRUE] + h[T \ {CHOOSE x \in T : TRUE}]]
           iter == CHOOSE h : h = F(h)
<1>1. SumFunctionOnSet(f, S) = iter[S]
  BY DEF SumFunctionOnSet, FoldFunctionOnSet, MapThenFoldSet
<1>2. g = F(g)
  <2>1. \A T \in SUBSET S : T # {} => (CHOOSE x \in T : TRUE) \in T OBVIOUS
  <2> QED BY <2>1 DEF SumsUp
<1>3. iter = F(iter) BY <1>2
<1> HIDE DEF iter
<1> DEFINE Bad == {n \in Nat : \E T \in SUBSET S : Cardinality(T) = n /\ iter[T] # g[T]}
<1>4. IsFiniteSet(S) /\ Cardinality(S) \in Nat BY FS_CardinalityType
<1>5. SUFFICES ASSUME Bad # {} PROVE FALSE BY <1>1, <1>4
<1>6. PICK n \in Bad : \A k \in Bad : n <= k
  <2>1. Bad \in SUBSET Nat OBVIOUS
  <2> HIDE DEF Bad
  <2> QED BY <1>5, <2>1, LeastElement
<1>7. PICK T \in SUBSET S : Cardinality(T) = n /\ iter[T] # g[T] OBVIOUS
<1>8. T # {} BY <1>2, <1>3, <1>7
<1> DEFINE y == CHOOSE x \in T : TRUE
<1>9. y \in T BY <1>8
<1>10. Cardinality(T \ {y}) = n - 1 /\ n - 1 \in Nat
  <2>0. IsFiniteSet(T) BY <1>4, FS_Subset
  <2>1. IsFiniteSet(T \ {y}) /\ Cardinality(T \ {y}) = Cardinality(T) - 1
    BY <1>9, <2>0, FS_RemoveElement
  <2> QED BY <1>7, <2>1, FS_CardinalityType
<1>11. iter[T \ {y}] = g[T \ {y}]
  <2>1. n - 1 \notin Bad BY <1>6, <1>10
  <2>2. T \ {y} \in SUBSET S OBVIOUS
  <2> HIDE DEF y
  <2> QED BY <1>10, <2>1, <2>2
<1>12. iter[T] = f[y] + iter[T \ {y}] BY <1>3, <1>8
<1>13. g[T] = f[y] + g[T \ {y}] BY <1>2, <1>8
<1> QED BY <1>7, <1>11, <1>12, <1>13

\* What the proofs use: the sum is a number, and one element can be split off.
LEMMA SumSplits ==
  ASSUME NEW S, IsFiniteSet(S), NEW f, \A x \in S : f[x] \in Int
  PROVE  /\ SumFunctionOnSet(f, S) \in Int
         /\ SumFunctionOnSet(f, {}) = 0
         /\ \A x \in S : SumFunctionOnSet(f, S) = f[x] + SumFunctionOnSet(f, S \ {x})
<1>1. PICK g : SumsUp(f, S, g) BY SumsExist
<1>2. ASSUME NEW T \in SUBSET S PROVE SumFunctionOnSet(f, T) = g[T]
  <2> DEFINE h == [U \in SUBSET T |-> g[U]]
  <2>1. SumsUp(f, T, h) BY <1>1 DEF SumsUp
  <2>2. IsFiniteSet(T) BY FS_Subset
  <2>3. SumFunctionOnSet(f, T) = h[T]
    <3> HIDE DEF h
    <3> QED BY <2>1, <2>2, SumIsSum
  <2> QED BY <2>3
<1>3. \A x \in S : g[S] = f[x] + g[S \ {x}] BY <1>1 DEF SumsUp
<1>4. g[S] \in Int /\ g[{}] = 0 BY <1>1 DEF SumsUp
<1>5. \A x \in S : S \ {x} \in SUBSET S OBVIOUS
<1> QED BY <1>2, <1>3, <1>4, <1>5

\* A sum is the same over a set that is mapped one to one onto the other.
LEMMA SumOfImage ==
  ASSUME NEW S, IsFiniteSet(S), NEW f, \A x \in S : f[x] \in Int,
         NEW T, IsFiniteSet(T), NEW g, NEW m \in [T -> S],
         \A s, t \in T : m[s] = m[t] => s = t,
         \A x \in S : \E t \in T : m[t] = x,
         \A t \in T : g[t] = f[m[t]]
  PROVE  SumFunctionOnSet(g, T) = SumFunctionOnSet(f, S)
<1> DEFINE To(U) == {m[t] : t \in U}
<1>1. PICK h : SumsUp(f, S, h) BY SumsExist
<1> DEFINE k == [U \in SUBSET T |-> h[To(U)]]
<1>2. k \in [SUBSET T -> Int] BY <1>1 DEF SumsUp
<1>3. k[{}] = 0
  <2>1. To({}) = {} OBVIOUS
  <2> QED BY <1>1, <2>1 DEF SumsUp
<1>4. ASSUME NEW U \in SUBSET T, NEW x \in U PROVE k[U] = g[x] + k[U \ {x}]
  <2>1. To(U \ {x}) = To(U) \ {m[x]} OBVIOUS
  <2>2. To(U) \in SUBSET S /\ m[x] \in To(U) OBVIOUS
  <2>3. h[To(U)] = f[m[x]] + h[To(U) \ {m[x]}] BY <1>1, <2>2 DEF SumsUp
  <2> QED BY <2>1, <2>3
<1>5. SumsUp(g, T, k)
  <2> HIDE DEF k
  <2> QED BY <1>2, <1>3, <1>4 DEF SumsUp
<1>6. SumFunctionOnSet(g, T) = k[T]
  <2> HIDE DEF k
  <2> QED BY <1>5, SumIsSum
<1>7. To(T) = S OBVIOUS
<1>8. SumFunctionOnSet(f, S) = h[S] BY <1>1, SumIsSum
<1> QED BY <1>6, <1>7, <1>8

LEMMA SumOfEqual ==
  ASSUME NEW S, IsFiniteSet(S), NEW f, NEW g, \A x \in S : f[x] \in Int /\ f[x] = g[x]
  PROVE  SumFunctionOnSet(f, S) = SumFunctionOnSet(g, S)
<1> DEFINE id == [x \in S |-> x]
<1>1. /\ id \in [S -> S] /\ \A x \in S : id[x] = x
      /\ \A s, t \in S : id[s] = id[t] => s = t
      /\ \A x \in S : \E t \in S : id[t] = x
  OBVIOUS
<1> HIDE DEF id
<1> QED BY <1>1, SumOfImage
=============================================================================
