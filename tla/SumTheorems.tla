------------------------------ MODULE SumTheorems ------------------------------
(******************************************************************************)
(* Sums over finite sets: SumFunctionOnSet of the community modules.  It is a *)
(* recursive function on subsets, so what it comes to is shown by induction   *)
(* over the subsets, and that by the least number that is no member's.  Also  *)
(* what a loop over an interval computes.                                     *)
(******************************************************************************)
EXTENDS Integers, FiniteSets, Functions, FiniteSetTheorems, TLAPS

(* The least number of a set: the intervals 1..n of its members are finite, and *)
(* strict inclusion between finite sets is well founded.                      *)
LEMMA LeastNumber ==
  ASSUME NEW T \in SUBSET Nat, T # {}
  PROVE  \E n \in T : \A m \in T : n <= m
<1> DEFINE Below == {1..n : n \in T}
           R == StrictSubsetOrdering(Nat)
           S == FiniteSubsetsOf(Nat)
<1>1. IsWellFoundedOn(R, S)
  BY FS_StrictSubsetOrderingWellFounded
<1>2. Below \subseteq S /\ Below # {}
  <2>1. \A n \in T : IsFiniteSet(1..n) /\ 1..n \in SUBSET Nat
    BY FS_Interval
  <2> QED BY <2>1 DEF FiniteSubsetsOf
<1> HIDE DEF R, S
<1>3. PICK I \in Below : \A J \in Below : ~(<<J, I>> \in R)
  BY <1>1, <1>2, WFMin
<1>4. PICK n \in T : I = 1..n
  BY <1>3
<1>5. ASSUME NEW m \in T, m < n PROVE FALSE
  <2>1. 1..m \subseteq 1..n /\ 1..m # 1..n /\ 1..m \in SUBSET Nat /\ 1..n \in SUBSET Nat
    BY <1>5
  <2>2. <<1..m, 1..n>> \in R
    BY <2>1 DEF StrictSubsetOrdering, R
  <2> QED BY <1>3, <1>4, <2>2
<1> QED BY <1>5

(* Induction: a set of numbers with 0 and the successor of each is all of them. *)
LEMMA SetInduction ==
  ASSUME NEW T \in SUBSET Nat, 0 \in T, \A n \in T : n + 1 \in T
  PROVE  T = Nat
<1> SUFFICES ASSUME Nat \ T # {} PROVE FALSE
  OBVIOUS
<1>1. PICK n \in Nat \ T : \A m \in Nat \ T : n <= m
  BY LeastNumber
<1>2. n # 0 /\ n - 1 \in Nat /\ n - 1 \in T
  BY <1>1
<1> QED BY <1>1, <1>2

(* Induction up to a number.                                                  *)
LEMMA InductionTo ==
  ASSUME NEW N \in Nat, NEW T, 0 \in T, \A k \in 1..N : k - 1 \in T => k \in T
  PROVE  \A k \in 0..N : k \in T
<1> DEFINE R == {k \in Nat : k <= N => k \in T}
<1>1. 0 \in R
  OBVIOUS
<1>2. ASSUME NEW k \in R PROVE k + 1 \in R
  <2>1. CASE k + 1 <= N
    <3>1. k \in T /\ k + 1 \in 1..N /\ (k + 1) - 1 = k
      BY <1>2, <2>1
    <3> QED BY <3>1
  <2>2. CASE ~(k + 1 <= N)
    BY <2>2
  <2> QED BY <2>1, <2>2
<1>3. R \in SUBSET Nat
  OBVIOUS
<1> HIDE DEF R
<1>4. R = Nat
  BY <1>1, <1>2, <1>3, SetInduction
<1> QED BY <1>4 DEF R

\* A loop over an interval.
StaysIn(S, step, N) == \A k \in 1..N, y \in S : step[k][y] \in S
IsRun(f, N, S, x, step) ==
  /\ f = [k \in 0..N |-> f[k]] /\ f[0] = x
  /\ \A k \in 0..N : f[k] \in S
  /\ \A k \in 1..N : f[k] = step[k][f[k - 1]]

(* What a loop over an interval makes of a value.                             *)
LEMMA RunExists ==
  ASSUME NEW N \in Nat, NEW S, NEW x \in S, NEW step, StaysIn(S, step, N)
  PROVE  \E f : IsRun(f, N, S, x, step)
<1> DEFINE Goes(f, j) == f[0] = x /\ \A k \in 1..j : f[k] = step[k][f[k - 1]]
           T == {j \in 0..N : \E f \in [0..j -> S] : Goes(f, j)}
<1>1. 0 \in T
  <2> DEFINE f == [k \in 0..0 |-> x]
  <2>1. f \in [0..0 -> S] /\ Goes(f, 0)
    OBVIOUS
  <2> HIDE DEF Goes, f
  <2> QED BY <2>1
<1>2. ASSUME NEW j \in 1..N, j - 1 \in T PROVE j \in T
  <2>1. PICK f \in [0..j - 1 -> S] : Goes(f, j - 1)
    BY <1>2
  <2> DEFINE y == step[j][f[j - 1]]
             g == [k \in 0..j |-> IF k = j THEN y ELSE f[k]]
  <2>2. f[j - 1] \in S /\ y \in S
    <3>1. f[j - 1] \in S
      OBVIOUS
    <3> QED BY <3>1 DEF StaysIn
  <2> HIDE DEF y
  <2>3. g \in [0..j -> S]
    BY <2>2
  <2>4. g[0] = x
    BY <2>1
  <2>5. ASSUME NEW k \in 1..j PROVE g[k] = step[k][g[k - 1]]
    <3>1. g[k - 1] = f[k - 1]
      OBVIOUS
    <3>2. CASE k = j
      BY <3>1, <3>2 DEF y
    <3>3. CASE k # j
      <4>1. k \in 1..j - 1 /\ g[k] = f[k]
        BY <3>3
      <4>2. f[k] = step[k][f[k - 1]]
        BY <2>1, <4>1
      <4> HIDE DEF g
      <4> QED BY <3>1, <4>1, <4>2
    <3> QED BY <3>2, <3>3
  <2> HIDE DEF g
  <2>6. Goes(g, j)
    BY <2>4, <2>5
  <2> HIDE DEF Goes
  <2> QED BY <2>3, <2>6
<1> HIDE DEF T
<1>3. \A k \in 0..N : k \in T
  BY <1>1, <1>2, InductionTo
<1>4. N \in T
  BY <1>3
<1>5. PICK f \in [0..N -> S] : Goes(f, N)
  BY <1>4 DEF T
<1> QED BY <1>5 DEF IsRun

AnyOf(s) == CHOOSE x \in s : TRUE

(* Induction over the subsets of a finite set, by taking away any element.    *)
LEMMA SubsetInduction ==
  ASSUME NEW S, IsFiniteSet(S), NEW T \in SUBSET SUBSET S, {} \in T,
         \A s \in SUBSET S : s # {} /\ s \ {AnyOf(s)} \in T => s \in T
  PROVE  T = SUBSET S
<1> DEFINE Sizes == {k \in Nat : \A s \in SUBSET S : Cardinality(s) = k => s \in T}
<1>1. 0 \in Sizes
  <2>1. ASSUME NEW s \in SUBSET S, Cardinality(s) = 0 PROVE s = {}
    BY <2>1, FS_Subset, FS_EmptySet
  <2> QED BY <2>1
<1>2. ASSUME NEW k \in Sizes PROVE k + 1 \in Sizes
  <2> SUFFICES ASSUME NEW s \in SUBSET S, Cardinality(s) = k + 1 PROVE s \in T
    OBVIOUS
  <2>1. IsFiniteSet(s) /\ s # {}
    BY FS_Subset, FS_EmptySet
  <2>2. AnyOf(s) \in s
    BY <2>1 DEF AnyOf
  <2>3. Cardinality(s \ {AnyOf(s)}) = k
    <3>1. k \in Nat /\ Cardinality(s \ {AnyOf(s)}) = Cardinality(s) - 1
      BY <2>1, <2>2, FS_RemoveElement
    <3> QED BY <3>1
  <2>4. s \ {AnyOf(s)} \in SUBSET S
    OBVIOUS
  <2> QED BY <2>1, <2>3, <2>4
<1>3. Sizes \in SUBSET Nat
  OBVIOUS
<1> HIDE DEF Sizes
<1>4. Sizes = Nat
  BY <1>1, <1>2, <1>3, SetInduction
<1>5. ASSUME NEW s \in SUBSET S PROVE s \in T
  <2>1. Cardinality(s) \in Nat
    BY FS_Subset, FS_CardinalityType
  <2> QED BY <1>4, <2>1 DEF Sizes
<1> QED BY <1>5

\* What the sum of some of the indices is, from the sums of fewer.
Adds(fun, sum, s) == IF s = {} THEN 0 ELSE fun[AnyOf(s)] + sum[s \ {AnyOf(s)}]
SumsOf(fun, sum, SS) == sum = [s \in SS |-> Adds(fun, sum, s)]

(* The sums of all subsets exist: those of n elements follow from those of fewer. *)
LEMMA SumsExist ==
  ASSUME NEW fun, NEW S, IsFiniteSet(S)
  PROVE  \E sum : SumsOf(fun, sum, SUBSET S)
<1> DEFINE Upto(n) == {s \in SUBSET S : Cardinality(s) <= n}
           T == {n \in Nat : \E sum : SumsOf(fun, sum, Upto(n))}
<1>0. \A s \in SUBSET S : IsFiniteSet(s) /\ Cardinality(s) \in Nat
  BY FS_Subset, FS_CardinalityType
<1>1. ASSUME NEW n \in Nat, NEW s \in Upto(n + 1), s # {} PROVE s \ {AnyOf(s)} \in Upto(n)
  <2>1. AnyOf(s) \in s /\ IsFiniteSet(s) /\ Cardinality(s) \in Nat /\ Cardinality(s) <= n + 1
    BY <1>0, <1>1 DEF AnyOf
  <2>2. Cardinality(s \ {AnyOf(s)}) = Cardinality(s) - 1
    BY <2>1, FS_RemoveElement
  <2> QED BY <2>1, <2>2
<1>2. 0 \in T
  <2> DEFINE sum == [s \in Upto(0) |-> 0]
  <2>1. \A s \in Upto(0) : s = {}
    BY <1>0, FS_EmptySet
  <2>2. SumsOf(fun, sum, Upto(0))
    BY <2>1 DEF SumsOf, Adds
  <2> HIDE DEF sum, Upto
  <2> QED BY <2>2
<1>3. ASSUME NEW n \in T PROVE n + 1 \in T
  <2>1. PICK sum : SumsOf(fun, sum, Upto(n))
    OBVIOUS
  <2> DEFINE more == [s \in Upto(n + 1) |-> Adds(fun, sum, s)]
  <2>2. n \in Nat /\ Upto(n) \subseteq Upto(n + 1)
    BY <1>0
  <2> HIDE DEF Upto
  <2>3. \A s \in Upto(n) : more[s] = sum[s]
    BY <2>1, <2>2 DEF SumsOf
  <2>4. \A s \in Upto(n + 1) : Adds(fun, sum, s) = Adds(fun, more, s)
    BY <1>1, <2>2, <2>3 DEF Adds
  <2>5. SumsOf(fun, more, Upto(n + 1))
    BY <2>4 DEF SumsOf
  <2> HIDE DEF more
  <2>6. n + 1 \in Nat
    BY <2>2
  <2> QED BY <2>5, <2>6
<1>4. T \in SUBSET Nat
  OBVIOUS
<1>5. Cardinality(S) \in Nat /\ Upto(Cardinality(S)) = SUBSET S
  BY <1>0, FS_Subset
<1> HIDE DEF T
<1>6. T = Nat
  BY <1>2, <1>3, <1>4, SetInduction
<1>7. PICK n \in T : n = Cardinality(S)
  BY <1>5, <1>6
<1>8. PICK sum : SumsOf(fun, sum, Upto(n))
  BY DEF T
<1> QED BY <1>5, <1>7, <1>8

(* What SumFunctionOnSet computes.                                            *)
LEMMA SumIsOne ==
  ASSUME NEW fun, NEW S, IsFiniteSet(S)
  PROVE  \E sum : SumsOf(fun, sum, SUBSET S) /\ SumFunctionOnSet(fun, S) = sum[S]
<1> DEFINE sum == CHOOSE sum : SumsOf(fun, sum, SUBSET S)
<1>1. SumFunctionOnSet(fun, S) = sum[S]
  BY DEF SumFunctionOnSet, FoldFunctionOnSet, MapThenFoldSet, SumsOf, Adds, AnyOf
<1>2. SumsOf(fun, sum, SUBSET S)
  BY SumsExist
<1> QED BY <1>1, <1>2

Sum(fun, S) == SumFunctionOnSet(fun, S)

(* Nothing sums up to 0, and something to what any element adds to the rest.  *)
LEMMA SumOfNone == ASSUME NEW fun PROVE Sum(fun, {}) = 0
<1>1. PICK sum : SumsOf(fun, sum, SUBSET {}) /\ Sum(fun, {}) = sum[{}]
  BY SumIsOne, FS_EmptySet DEF Sum
<1> QED BY <1>1 DEF SumsOf, Adds

(* So does what any element adds to the rest.                                 *)
LEMMA SumOfSome ==
  ASSUME NEW fun, NEW S, IsFiniteSet(S), S # {}
  PROVE  Sum(fun, S) = fun[AnyOf(S)] + Sum(fun, S \ {AnyOf(S)})
<1> DEFINE R == S \ {AnyOf(S)}
<1>1. PICK sum : SumsOf(fun, sum, SUBSET S) /\ Sum(fun, S) = sum[S]
  BY SumIsOne DEF Sum
<1>2. IsFiniteSet(R) /\ SUBSET R \subseteq SUBSET S
  BY FS_Subset
<1>3. PICK less : SumsOf(fun, less, SUBSET R) /\ Sum(fun, R) = less[R]
  BY <1>2, SumIsOne DEF Sum
<1> DEFINE T == {s \in SUBSET R : sum[s] = less[s]}
<1> HIDE DEF R
<1>4. {} \in T
  BY <1>1, <1>2, <1>3 DEF SumsOf, Adds
<1>5. ASSUME NEW s \in SUBSET R, s # {}, s \ {AnyOf(s)} \in T PROVE s \in T
  BY <1>1, <1>2, <1>3, <1>5 DEF SumsOf, Adds
<1>6. T \in SUBSET SUBSET R
  OBVIOUS
<1> HIDE DEF T
<1>7. T = SUBSET R
  BY <1>2, <1>4, <1>5, <1>6, SubsetInduction
<1>8. sum[R] = less[R]
  BY <1>7 DEF T
<1>9. sum[S] = fun[AnyOf(S)] + sum[R]
  BY <1>1 DEF SumsOf, Adds, R
<1> QED BY <1>1, <1>3, <1>8, <1>9 DEF R

(* Sums of integers are integers, and depend on the summands only.            *)
LEMMA SumIsInt ==
  ASSUME NEW fun, NEW S, IsFiniteSet(S), \A x \in S : fun[x] \in Int
  PROVE  Sum(fun, S) \in Int
<1> DEFINE T == {s \in SUBSET S : Sum(fun, s) \in Int}
<1>1. {} \in T
  BY SumOfNone
<1>2. ASSUME NEW s \in SUBSET S, s # {}, s \ {AnyOf(s)} \in T PROVE s \in T
  <2>1. IsFiniteSet(s) /\ AnyOf(s) \in S
    BY <1>2, FS_Subset DEF AnyOf
  <2>2. Sum(fun, s) = fun[AnyOf(s)] + Sum(fun, s \ {AnyOf(s)})
    BY <1>2, <2>1, SumOfSome
  <2> QED BY <1>2, <2>1, <2>2
<1>3. T \in SUBSET SUBSET S
  OBVIOUS
<1> HIDE DEF T
<1>4. T = SUBSET S
  BY <1>1, <1>2, <1>3, SubsetInduction
<1> QED BY <1>4 DEF T

(* Equal summands give equal sums.                                            *)
LEMMA SumsAreEqual ==
  ASSUME NEW f, NEW g, NEW S, IsFiniteSet(S), \A x \in S : f[x] = g[x]
  PROVE  Sum(f, S) = Sum(g, S)
<1> DEFINE T == {s \in SUBSET S : Sum(f, s) = Sum(g, s)}
<1>1. {} \in T
  BY SumOfNone
<1>2. ASSUME NEW s \in SUBSET S, s # {}, s \ {AnyOf(s)} \in T PROVE s \in T
  <2>1. IsFiniteSet(s) /\ AnyOf(s) \in S
    BY <1>2, FS_Subset DEF AnyOf
  <2>2. Sum(f, s) = f[AnyOf(s)] + Sum(f, s \ {AnyOf(s)}) /\ Sum(g, s) = g[AnyOf(s)] + Sum(g, s \ {AnyOf(s)})
    BY <1>2, <2>1, SumOfSome
  <2> QED BY <1>2, <2>1, <2>2
<1>3. T \in SUBSET SUBSET S
  OBVIOUS
<1> HIDE DEF T
<1>4. T = SUBSET S
  BY <1>1, <1>2, <1>3, SubsetInduction
<1> QED BY <1>4 DEF T

(* The sum of sums.                                                           *)
LEMMA SumOfSums ==
  ASSUME NEW f, NEW g, NEW h, NEW S, IsFiniteSet(S),
         \A x \in S : f[x] \in Int /\ g[x] \in Int /\ h[x] = f[x] + g[x]
  PROVE  Sum(h, S) = Sum(f, S) + Sum(g, S)
<1> DEFINE T == {s \in SUBSET S : Sum(h, s) = Sum(f, s) + Sum(g, s)}
<1>1. {} \in T
  BY SumOfNone
<1>2. ASSUME NEW s \in SUBSET S, s # {}, s \ {AnyOf(s)} \in T PROVE s \in T
  <2>1. IsFiniteSet(s) /\ AnyOf(s) \in S
    BY <1>2, FS_Subset DEF AnyOf
  <2>2. /\ Sum(f, s) = f[AnyOf(s)] + Sum(f, s \ {AnyOf(s)}) /\ Sum(g, s) = g[AnyOf(s)] + Sum(g, s \ {AnyOf(s)})
        /\ Sum(h, s) = h[AnyOf(s)] + Sum(h, s \ {AnyOf(s)})
    BY <1>2, <2>1, SumOfSome
  <2>3. IsFiniteSet(s \ {AnyOf(s)}) /\ s \ {AnyOf(s)} \subseteq S
    BY <2>1, FS_Subset
  <2>4. Sum(f, s \ {AnyOf(s)}) \in Int /\ Sum(g, s \ {AnyOf(s)}) \in Int
    BY <2>3, SumIsInt
  <2>5. Sum(h, s \ {AnyOf(s)}) = Sum(f, s \ {AnyOf(s)}) + Sum(g, s \ {AnyOf(s)})
    BY <1>2
  <2>6. Sum(h, s) = Sum(f, s) + Sum(g, s)
    BY <2>1, <2>2, <2>4, <2>5
  <2> QED BY <2>6
<1>3. T \in SUBSET SUBSET S
  OBVIOUS
<1> HIDE DEF T
<1>4. T = SUBSET S
  BY <1>1, <1>2, <1>3, SubsetInduction
<1> QED BY <1>4 DEF T

(* Equal summands.                                                            *)
LEMMA SumOfEquals ==
  ASSUME NEW f, NEW S, IsFiniteSet(S), NEW c \in Int, \A x \in S : f[x] = c
  PROVE  Sum(f, S) = c * Cardinality(S)
<1> DEFINE T == {s \in SUBSET S : Sum(f, s) = c * Cardinality(s)}
<1>1. {} \in T
  BY SumOfNone, FS_EmptySet
<1>2. ASSUME NEW s \in SUBSET S, s # {}, s \ {AnyOf(s)} \in T PROVE s \in T
  <2>1. IsFiniteSet(s) /\ AnyOf(s) \in S /\ AnyOf(s) \in s
    BY <1>2, FS_Subset DEF AnyOf
  <2>2. Sum(f, s) = c + Sum(f, s \ {AnyOf(s)})
    BY <1>2, <2>1, SumOfSome
  <2>3. PICK n \in Nat : n = Cardinality(s)
    BY <2>1, FS_CardinalityType
  <2>4. Cardinality(s \ {AnyOf(s)}) = n - 1
    BY <2>1, <2>3, FS_RemoveElement
  <2>5. Sum(f, s \ {AnyOf(s)}) = c * (n - 1)
    BY <1>2, <2>4
  <2>6. c + c * (n - 1) = c * n
    OBVIOUS
  <2> QED BY <2>2, <2>3, <2>5, <2>6
<1>3. T \in SUBSET SUBSET S
  OBVIOUS
<1> HIDE DEF T
<1>4. T = SUBSET S
  BY <1>1, <1>2, <1>3, SubsetInduction
<1> QED BY <1>4 DEF T

(* Any element may be the first.                                              *)
LEMMA SumWithout ==
  ASSUME NEW f, NEW S, IsFiniteSet(S), \A x \in S : f[x] \in Int, NEW x \in S
  PROVE  Sum(f, S) = f[x] + Sum(f, S \ {x})
<1> DEFINE First(s) == \A y \in s : Sum(f, s) = f[y] + Sum(f, s \ {y})
           T == {n \in Nat : \A s \in SUBSET S : Cardinality(s) <= n => First(s)}
<1>0. \A s \in SUBSET S : IsFiniteSet(s) /\ Cardinality(s) \in Nat
  BY FS_Subset, FS_CardinalityType
<1>1. 0 \in T
  <2>1. \A s \in SUBSET S : Cardinality(s) <= 0 => s = {}
    BY <1>0, FS_EmptySet
  <2> QED BY <2>1
<1>2. ASSUME NEW n \in T PROVE n + 1 \in T
  <2> SUFFICES ASSUME NEW s \in SUBSET S, Cardinality(s) <= n + 1, NEW y \in s
               PROVE  Sum(f, s) = f[y] + Sum(f, s \ {y})
    OBVIOUS
  <2>1. PICK a : a = AnyOf(s) /\ a \in s
    BY DEF AnyOf
  <2>2. n \in Nat /\ IsFiniteSet(s) /\ Cardinality(s) \in Nat
    BY <1>0
  <2>3. Sum(f, s) = f[a] + Sum(f, s \ {a})
    BY <2>1, <2>2, SumOfSome
  <2>4. CASE y = a
    BY <2>3, <2>4
  <2>5. CASE y # a
    <3>1. /\ Cardinality(s \ {a}) = Cardinality(s) - 1 /\ Cardinality(s \ {y}) = Cardinality(s) - 1
          /\ s \ {a} \in SUBSET S /\ s \ {y} \in SUBSET S
      BY <2>1, <2>2, FS_RemoveElement
    <3>2. First(s \ {a}) /\ First(s \ {y})
      BY <2>2, <3>1
    <3>3. Sum(f, s \ {a}) = f[y] + Sum(f, (s \ {a}) \ {y}) /\ Sum(f, s \ {y}) = f[a] + Sum(f, (s \ {y}) \ {a})
      BY <2>1, <2>5, <3>2
    <3>4. (s \ {y}) \ {a} = (s \ {a}) \ {y} /\ IsFiniteSet((s \ {a}) \ {y}) /\ (s \ {a}) \ {y} \subseteq S
      BY <2>2, FS_Subset
    <3>5. Sum(f, (s \ {a}) \ {y}) \in Int /\ f[a] \in Int /\ f[y] \in Int
      BY <2>1, <3>4, SumIsInt
    <3>6. PICK i \in Int, j \in Int, k \in Int : i = f[a] /\ j = f[y] /\ k = Sum(f, (s \ {a}) \ {y})
      BY <3>5
    <3>7. Sum(f, s) = i + (j + k) /\ Sum(f, s \ {y}) = i + k
      BY <2>3, <3>3, <3>4, <3>6
    <3>8. i + (j + k) = j + (i + k)
      OBVIOUS
    <3> QED BY <3>6, <3>7, <3>8
  <2> QED BY <2>4, <2>5
<1>3. T \in SUBSET Nat
  OBVIOUS
<1> HIDE DEF T
<1>4. T = Nat
  BY <1>1, <1>2, <1>3, SetInduction
<1>5. PICK n \in T : n = Cardinality(S)
  BY <1>0, <1>4
<1>6. First(S)
  BY <1>0, <1>5 DEF T
<1> QED BY <1>6

(* The sum of two sets that have no element in common.                        *)
LEMMA SumOfUnion ==
  ASSUME NEW f, NEW A, NEW B, IsFiniteSet(A), IsFiniteSet(B), A \cap B = {},
         \A x \in A \cup B : f[x] \in Int
  PROVE  Sum(f, A \cup B) = Sum(f, A) + Sum(f, B)
<1> DEFINE T == {s \in SUBSET B : Sum(f, A \cup s) = Sum(f, A) + Sum(f, s)}
<1>1. {} \in T
  <2>1. A \cup {} = A /\ Sum(f, A) \in Int
    BY SumIsInt
  <2> QED BY <2>1, SumOfNone
<1>2. ASSUME NEW s \in SUBSET B, s # {}, s \ {AnyOf(s)} \in T PROVE s \in T
  <2>1. PICK a : a = AnyOf(s) /\ a \in s
    BY <1>2 DEF AnyOf
  <2>2. IsFiniteSet(s) /\ IsFiniteSet(A \cup s) /\ IsFiniteSet(s \ {a})
    BY FS_Subset, FS_Union
  <2>3. Sum(f, A \cup s) = f[a] + Sum(f, (A \cup s) \ {a})
    BY <2>1, <2>2, SumWithout
  <2>4. Sum(f, s) = f[a] + Sum(f, s \ {a})
    BY <2>1, <2>2, SumWithout
  <2>5. (A \cup s) \ {a} = A \cup (s \ {a})
    BY <2>1
  <2>6. Sum(f, A \cup (s \ {a})) = Sum(f, A) + Sum(f, s \ {a})
    BY <1>2, <2>1
  <2>7. Sum(f, A) \in Int /\ Sum(f, s \ {a}) \in Int /\ f[a] \in Int
    BY <2>1, <2>2, SumIsInt
  <2>8. PICK i \in Int, j \in Int, k \in Int : i = f[a] /\ j = Sum(f, A) /\ k = Sum(f, s \ {a})
    BY <2>7
  <2>9. Sum(f, A \cup s) = i + (j + k) /\ Sum(f, A) + Sum(f, s) = j + (i + k)
    BY <2>3, <2>4, <2>5, <2>6, <2>8
  <2>10. i + (j + k) = j + (i + k)
    OBVIOUS
  <2> QED BY <2>9, <2>10
<1>3. T \in SUBSET SUBSET B
  OBVIOUS
<1> HIDE DEF T
<1>4. T = SUBSET B
  BY <1>1, <1>2, <1>3, SubsetInduction
<1> QED BY <1>4 DEF T

(* The sum over one element.                                                  *)
LEMMA SumOfOne == ASSUME NEW f, NEW x, f[x] \in Int PROVE Sum(f, {x}) = f[x]
<1>1. IsFiniteSet({x}) /\ {x} \ {x} = {}
  BY FS_Singleton
<1>2. Sum(f, {x}) = f[x] + Sum(f, {})
  BY <1>1, SumWithout
<1> QED BY <1>2, SumOfNone

(* A sum of multiples is the multiple of the sum.                             *)
LEMMA SumOfMultiples ==
  ASSUME NEW f, NEW h, NEW S, IsFiniteSet(S), NEW c \in Int, \A x \in S : f[x] \in Int /\ h[x] = c * f[x]
  PROVE  Sum(h, S) = c * Sum(f, S)
<1> DEFINE T == {s \in SUBSET S : Sum(h, s) = c * Sum(f, s)}
<1>1. {} \in T
  BY SumOfNone
<1>2. ASSUME NEW s \in SUBSET S, s # {}, s \ {AnyOf(s)} \in T PROVE s \in T
  <2> DEFINE a == AnyOf(s)
             p == s \ {a}
             x == Sum(f, p)
             z == f[a]
  <2>1. IsFiniteSet(s) /\ IsFiniteSet(p) /\ a \in S /\ p \subseteq S
    BY <1>2, FS_Subset DEF AnyOf
  <2>2. Sum(h, s) = h[a] + Sum(h, p) /\ Sum(f, s) = z + x
    BY <1>2, <2>1, SumOfSome
  <2>3. Sum(h, p) = c * x
    BY <1>2
  <2>4. z \in Int /\ h[a] = c * z
    BY <2>1
  <2>5. x \in Int
    BY <2>1, SumIsInt
  <2> HIDE DEF p, x, z, a
  <2>6. c * z + c * x = c * (z + x)
    BY <2>4, <2>5
  <2>7. Sum(h, s) = c * Sum(f, s)
    BY <2>2, <2>3, <2>4, <2>6
  <2> QED BY <2>7
<1>3. T \in SUBSET SUBSET S
  OBVIOUS
<1> HIDE DEF T
<1>4. T = SUBSET S
  BY <1>1, <1>2, <1>3, SubsetInduction
<1> QED BY <1>4 DEF T

(* A sum over some of a set, where the rest is nothing.                       *)
LEMMA SumOfPart ==
  ASSUME NEW S, IsFiniteSet(S), NEW P \in SUBSET S, NEW f, NEW g, \A x \in P : f[x] \in Int /\ g[x] = f[x],
         \A x \in S \ P : f[x] = 0
  PROVE  Sum(f, S) = Sum(g, P) /\ Sum(g, P) \in Int
<1> DEFINE Q == S \ P
<1>1. IsFiniteSet(P) /\ IsFiniteSet(Q) /\ P \cap Q = {} /\ P \cup Q = S
  BY FS_Subset
<1>2. (\A x \in P \cup Q : f[x] \in Int) /\ \A x \in Q : f[x] = 0
  BY <1>1
<1> HIDE DEF Q
<1>3. Sum(f, P \cup Q) = Sum(f, P) + Sum(f, Q)
  BY <1>1, <1>2, SumOfUnion
<1>4. Sum(f, P) = Sum(g, P)
  BY <1>1, SumsAreEqual
<1>5. Sum(f, P) \in Int
  BY <1>1, SumIsInt
<1>6. Sum(f, Q) = 0
  <2>1. Sum(f, Q) = 0 * Cardinality(Q)
    BY <1>1, <1>2, SumOfEquals
  <2>2. Cardinality(Q) \in Nat
    BY <1>1, FS_CardinalityType
  <2> QED BY <2>1, <2>2
<1>7. Sum(f, S) = Sum(f, P) + 0
  BY <1>1, <1>3, <1>6
<1> QED BY <1>4, <1>5, <1>7

(* Summing over what a one-to-one function makes of a set.                    *)
LEMMA SumOfImage ==
  ASSUME NEW N, IsFiniteSet(N), NEW e, \A x, y \in N : e[x] = e[y] => x = y,
         NEW f, NEW h, \A x \in N : h[x] \in Int /\ f[e[x]] = h[x]
  PROVE  Sum(f, {e[x] : x \in N}) = Sum(h, N)
<1> DEFINE image(s) == {e[x] : x \in s}
           T == {s \in SUBSET N : IsFiniteSet(image(s)) /\ Sum(f, image(s)) = Sum(h, s)}
<1>1. {} \in T
  <2>1. image({}) = {}
    OBVIOUS
  <2> QED BY <2>1, SumOfNone, FS_EmptySet
<1>2. ASSUME NEW s \in SUBSET N, s # {}, s \ {AnyOf(s)} \in T PROVE s \in T
  <2>1. PICK a \in s : a = AnyOf(s)
    BY <1>2 DEF AnyOf
  <2>2. PICK less : less = image(s \ {a}) /\ IsFiniteSet(less) /\ Sum(f, less) = Sum(h, s \ {a})
    BY <1>2, <2>1
  <2>3. image(s) = less \cup {e[a]} /\ e[a] \notin less
    BY <2>1, <2>2
  <2>4. IsFiniteSet(image(s)) /\ e[a] \in image(s) /\ image(s) \ {e[a]} = less
    <3>1. IsFiniteSet(less \cup {e[a]})
      BY <2>2, FS_AddElement
    <3> HIDE DEF image
    <3> QED BY <2>3, <3>1
  <2>5. \A y \in image(s) : f[y] \in Int
    OBVIOUS
  <2> HIDE DEF image
  <2>6. Sum(f, image(s)) = f[e[a]] + Sum(f, less)
    BY <2>4, <2>5, SumWithout
  <2>7. Sum(h, s) = h[a] + Sum(h, s \ {a})
    <3>1. IsFiniteSet(s) /\ \A x \in s : h[x] \in Int
      BY FS_Subset
    <3> QED BY <2>1, <3>1, SumWithout
  <2> QED BY <2>2, <2>4, <2>6, <2>7
<1>3. T \in SUBSET SUBSET N
  OBVIOUS
<1> HIDE DEF T
<1>4. T = SUBSET N
  BY <1>1, <1>2, <1>3, SubsetInduction
<1> QED BY <1>4 DEF T

================================================================================
