---------------------------- MODULE OzonLedgerProofs ----------------------------
(******************************************************************************)
(* What the operations of OzonLedger make of a ledger, for any ledgers, SKUs  *)
(* and amounts.  An operation done to what two ledgers hold together leaves   *)
(* what the one and the changed other hold together; and a piece of an accrual *)
(* is a ledger of its own, of which it is said what it tells.                 *)
(******************************************************************************)
EXTENDS OzonLedger, SumTheorems

--------------------------------------------------------------------------------
(* Amounts: a sum is unknown when one of its parts is.                        *)

(* What is known is one number.                                               *)
LEMMA AmountIs ==
  ASSUME NEW o
  PROVE  o \in Amount <=> o = {} \/ \E x \in Int : o = {x}
<1>1. ASSUME o \in Amount, o # {} PROVE \E x \in Int : o = {x}
  <2>1. PICK x : x \in o
    BY <1>1
  <2>2. o = {x} /\ x \in Int
    BY <1>1, <2>1 DEF Amount, IsAmount
  <2> QED BY <2>2
<1>2. {} \in Amount
  BY DEF Amount, IsAmount
<1>3. \A x \in Int : {x} \in Amount
  BY DEF Amount, IsAmount
<1> QED BY <1>1, <1>2, <1>3

(* The number that is known.                                                  *)
LEMMA TheIs == \A x : The({x}) = x
BY DEF The

(* What two amounts come to, if both are known.                               *)
LEMMA BothIs ==
  /\ \A b : Both({}, b) = {} /\ Both(b, {}) = {}
  /\ \A x, y \in Int : Both({x}, {y}) = {x + y}
BY DEF Both

(* Amounts are added in any order, and one that is unknown makes all unknown. *)
LEMMA BothLaws ==
  ASSUME NEW a \in Amount, NEW b \in Amount
  PROVE  /\ Both(a, b) \in Amount
         /\ Both(a, b) = {} <=> a = {} \/ b = {}
         /\ Both(a, b) = Both(b, a)
         /\ Both(a, {0}) = a /\ Both({0}, a) = a
<1>1. CASE a = {} \/ b = {}
  <2>1. Both(a, b) = {} /\ Both(b, a) = {}
    BY <1>1, BothIs
  <2>2. CASE a = {}
    BY <2>1, <2>2, AmountIs, BothIs
  <2>3. CASE a # {}
    <3>1. PICK x \in Int : a = {x}
      BY <2>3, AmountIs
    <3>2. Both(a, {0}) = a /\ Both({0}, a) = a
      BY <3>1 DEF Both
    <3> QED BY <1>1, <2>1, <3>1, <3>2, AmountIs
  <2> QED BY <2>2, <2>3
<1>2. CASE a # {} /\ b # {}
  <2>1. PICK x \in Int, y \in Int : a = {x} /\ b = {y}
    BY <1>2, AmountIs
  <2>2. Both(a, b) = {x + y} /\ Both(b, a) = {x + y} /\ x + y \in Int
    BY <2>1 DEF Both
  <2>3. Both(a, {0}) = a /\ Both({0}, a) = a
    BY <2>1 DEF Both
  <2> QED BY <1>2, <2>1, <2>2, <2>3, AmountIs
<1> QED BY <1>1, <1>2

(* Three amounts.                                                             *)
LEMMA BothTwice ==
  ASSUME NEW a \in Amount, NEW b \in Amount, NEW c \in Amount
  PROVE  Both(Both(a, b), c) = Both(a, Both(b, c))
<1>1. CASE a = {} \/ b = {} \/ c = {}
  BY <1>1, BothIs
<1>2. CASE a # {} /\ b # {} /\ c # {}
  <2>1. PICK x \in Int, y \in Int, z \in Int : a = {x} /\ b = {y} /\ c = {z}
    BY <1>2, AmountIs
  <2>2. Both(a, b) = {x + y} /\ Both(b, c) = {y + z}
    BY <2>1 DEF Both
  <2>3. Both({x + y}, {z}) = {(x + y) + z} /\ Both({x}, {y + z}) = {x + (y + z)}
    BY DEF Both
  <2>4. (x + y) + z = x + (y + z)
    OBVIOUS
  <2> QED BY <2>1, <2>2, <2>3, <2>4
<1> QED BY <1>1, <1>2

(* Four amounts.                                                              *)
LEMMA BothOfFour ==
  ASSUME NEW a \in Amount, NEW b \in Amount, NEW c \in Amount, NEW d \in Amount
  PROVE  Both(Both(a, b), Both(c, d)) = Both(Both(a, c), Both(b, d))
<1>1. Both(Both(a, b), Both(c, d)) = Both(a, Both(b, Both(c, d)))
  BY BothTwice, BothLaws
<1>2. Both(Both(a, c), Both(b, d)) = Both(a, Both(c, Both(b, d)))
  BY BothTwice, BothLaws
<1>3. Both(b, Both(c, d)) = Both(Both(b, c), d) /\ Both(c, Both(b, d)) = Both(Both(c, b), d)
  BY BothTwice
<1>4. Both(b, c) = Both(c, b)
  BY BothLaws
<1> QED BY <1>1, <1>2, <1>3, <1>4

(* _sum adds a known amount.                                                  *)
LEMMA PlusIsBoth ==
  ASSUME NEW a \in Amount, NEW x \in Int
  PROVE  Plus(a, x) = Both(a, {x})
<1>1. CASE a = {}
  BY <1>1, BothIs DEF Plus
<1>2. CASE a # {}
  <2>1. PICK y \in Int : a = {y}
    BY <1>2, AmountIs
  <2> QED BY <2>1 DEF Plus, Both
<1> QED BY <1>1, <1>2

(* A known amount may be added to either of two.                              *)
LEMMA PlusOfBoth ==
  ASSUME NEW a \in Amount, NEW b \in Amount, NEW x \in Int
  PROVE  Plus(b, x) \in Amount /\ Plus(Both(a, b), x) = Both(a, Plus(b, x))
<1>1. {x} \in Amount
  BY AmountIs
<1>2. Both(a, b) \in Amount
  BY BothLaws
<1>3. Plus(b, x) = Both(b, {x}) /\ Plus(Both(a, b), x) = Both(Both(a, b), {x})
  BY <1>2, PlusIsBoth
<1>4. Both(Both(a, b), {x}) = Both(a, Both(b, {x}))
  BY <1>1, BothTwice
<1>5. Both(b, {x}) \in Amount
  BY <1>1, BothLaws
<1> QED BY <1>3, <1>4, <1>5

(* A total is unknown when one of its amounts is, and else their sum.         *)
LEMMA TotalIs ==
  ASSUME NEW S, IsFiniteSet(S), NEW f \in [S -> Amount]
  PROVE  /\ Total(f) \in Amount
         /\ Total(f) = {} <=> \E x \in S : f[x] = {}
         /\ \A g : (\A x \in S : f[x] = {g[x]} /\ g[x] \in Int) => Total(f) = {Sum(g, S)}
<1> DEFINE h == [x \in S |-> The(f[x])]
<1>1. DOMAIN f = S /\ SumOf(h) = Sum(h, S)
  BY DEF SumOf, Sum
<1>2. Total(f) = IF \E x \in S : f[x] = {} THEN {} ELSE {Sum(h, S)}
  BY <1>1 DEF Total, Unknown
<1>3. ASSUME ~\E x \in S : f[x] = {} PROVE Sum(h, S) \in Int
  <2> SUFFICES ASSUME NEW x \in S PROVE The(f[x]) \in Int
    <3>1. (\A x \in S : h[x] \in Int) => Sum(h, S) \in Int
      <4> HIDE DEF h
      <4> QED BY SumIsInt
    <3> QED BY <3>1
  <2>1. PICK z \in Int : f[x] = {z}
    BY <1>3, AmountIs
  <2> QED BY <2>1, TheIs
<1>4. ASSUME NEW g, \A x \in S : f[x] = {g[x]} /\ g[x] \in Int PROVE Sum(h, S) = Sum(g, S)
  <2>1. \A x \in S : h[x] = g[x]
    BY <1>4, TheIs
  <2> HIDE DEF h
  <2> QED BY <2>1, SumsAreEqual
<1>5. \A g : (\A x \in S : f[x] = {g[x]} /\ g[x] \in Int) => ~\E x \in S : f[x] = {}
  OBVIOUS
<1> HIDE DEF h
<1>6. CASE \E x \in S : f[x] = {}
  BY <1>2, <1>5, <1>6, AmountIs
<1>7. CASE ~\E x \in S : f[x] = {}
  BY <1>2, <1>3, <1>4, <1>7, AmountIs
<1> QED BY <1>6, <1>7

(* Known amounts as numbers.                                                  *)
LEMMA KnownAmounts ==
  ASSUME NEW S, NEW f \in [S -> Amount], ~\E x \in S : f[x] = {}
  PROVE  \A x \in S : f[x] = {[y \in S |-> The(f[y])][x]} /\ [y \in S |-> The(f[y])][x] \in Int
<1> SUFFICES ASSUME NEW x \in S PROVE f[x] = {The(f[x])} /\ The(f[x]) \in Int
  OBVIOUS
<1>1. PICK z \in Int : f[x] = {z}
  BY AmountIs
<1> QED BY <1>1, TheIs

(* The total of no amounts is zero.                                           *)
LEMMA TotalOfNone == ASSUME NEW f \in [{} -> Amount] PROVE Total(f) = {0}
<1>1. IsFiniteSet({})
  BY FS_EmptySet
<1>2. Total(f) = {Sum([x \in {} |-> 0], {})}
  BY <1>1, TotalIs
<1> QED BY <1>2, SumOfNone

(* The total of amounts with one more.                                        *)
LEMMA TotalWith ==
  ASSUME NEW S, IsFiniteSet(S), NEW x, x \notin S, NEW f \in [S -> Amount],
         NEW h \in [S \cup {x} -> Amount], \A y \in S : h[y] = f[y]
  PROVE  Total(h) = Both(Total(f), h[x])
<1>1. IsFiniteSet(S \cup {x})
  BY FS_AddElement
<1>2. h[x] \in Amount
  OBVIOUS
<1>3. CASE \E y \in S \cup {x} : h[y] = {}
  <2>1. Total(h) = {}
    BY <1>1, <1>3, TotalIs
  <2>2. Total(f) \in Amount /\ (Total(f) = {} \/ h[x] = {})
    BY <1>3, TotalIs
  <2> QED BY <1>2, <2>1, <2>2, BothLaws
<1>4. CASE ~\E y \in S \cup {x} : h[y] = {}
  <2> DEFINE g == [y \in S \cup {x} |-> The(h[y])]
  <2>1. \A y \in S \cup {x} : h[y] = {g[y]} /\ g[y] \in Int
    BY <1>4, KnownAmounts
  <2> HIDE DEF g
  <2>2. Total(h) = {Sum(g, S \cup {x})}
    BY <1>1, <2>1, TotalIs
  <2>3. Total(f) = {Sum(g, S)}
    BY <2>1, TotalIs
  <2>4. (S \cup {x}) \ {x} = S /\ x \in S \cup {x}
    OBVIOUS
  <2>5. Sum(g, S \cup {x}) = g[x] + Sum(g, S)
    BY <1>1, <2>1, <2>4, SumWithout
  <2>6. Sum(g, S) \in Int /\ g[x] \in Int
    BY <2>1, SumIsInt
  <2>7. Both(Total(f), h[x]) = {Sum(g, S) + g[x]}
    BY <2>1, <2>3, <2>6, BothIs
  <2> QED BY <2>2, <2>5, <2>6, <2>7
<1> QED BY <1>3, <1>4

(* The total of what pairs of amounts come to.                                *)
LEMMA TotalOfBoth ==
  ASSUME NEW S, IsFiniteSet(S), NEW f \in [S -> Amount], NEW g \in [S -> Amount],
         NEW h \in [S -> Amount], \A x \in S : h[x] = Both(f[x], g[x])
  PROVE  Total(h) = Both(Total(f), Total(g))
<1>1. \A x \in S : h[x] = {} <=> f[x] = {} \/ g[x] = {}
  BY BothLaws
<1>2. Total(f) \in Amount /\ Total(g) \in Amount
  BY TotalIs
<1>3. CASE \E x \in S : h[x] = {}
  <2>1. Total(h) = {}
    BY <1>3, TotalIs
  <2>2. (\E x \in S : f[x] = {}) \/ (\E x \in S : g[x] = {})
    BY <1>1, <1>3
  <2>3. Total(f) = {} \/ Total(g) = {}
    BY <2>2, TotalIs
  <2> QED BY <1>2, <2>1, <2>3, BothLaws
<1>4. CASE ~\E x \in S : h[x] = {}
  <2> DEFINE F == [x \in S |-> The(f[x])]
             G == [x \in S |-> The(g[x])]
             H == [x \in S |-> The(h[x])]
  <2>1. \A x \in S : f[x] = {F[x]} /\ F[x] \in Int
    BY <1>1, <1>4, KnownAmounts
  <2>2. \A x \in S : g[x] = {G[x]} /\ G[x] \in Int
    BY <1>1, <1>4, KnownAmounts
  <2>3. \A x \in S : h[x] = {H[x]} /\ H[x] \in Int
    BY <1>4, KnownAmounts
  <2> HIDE DEF F, G, H
  <2>4. \A x \in S : H[x] = F[x] + G[x]
    <3> SUFFICES ASSUME NEW x \in S PROVE H[x] = F[x] + G[x]
      OBVIOUS
    <3>1. h[x] = {F[x] + G[x]}
      BY <2>1, <2>2, BothIs
    <3> QED BY <2>3, <3>1
  <2>5. Sum(H, S) = Sum(F, S) + Sum(G, S)
    BY <2>1, <2>2, <2>4, SumOfSums
  <2>6. Total(f) = {Sum(F, S)} /\ Total(g) = {Sum(G, S)} /\ Total(h) = {Sum(H, S)}
    BY <2>1, <2>2, <2>3, TotalIs
  <2>7. Sum(F, S) \in Int /\ Sum(G, S) \in Int
    BY <2>1, <2>2, SumIsInt
  <2>8. Both({Sum(F, S)}, {Sum(G, S)}) = {Sum(F, S) + Sum(G, S)}
    BY <2>7, BothIs, Zenon
  <2> QED BY <2>5, <2>6, <2>8
<1> QED BY <1>3, <1>4

(* A total of which all but one are zero.                                     *)
LEMMA TotalOfOne ==
  ASSUME NEW S, IsFiniteSet(S), NEW f \in [S -> Amount], NEW x \in S, \A y \in S : y # x => f[y] = {0}
  PROVE  Total(f) = f[x]
<1> DEFINE R == S \ {x}
           g == [y \in R |-> {0}]
           z == [y \in R |-> 0]
<1>1. IsFiniteSet(R) /\ x \notin R /\ R \cup {x} = S
  BY FS_RemoveElement
<1>2. g \in [R -> Amount] /\ \A y \in R : f[y] = g[y]
  BY AmountIs
<1>3. \A y \in R : g[y] = {z[y]} /\ z[y] = 0 /\ z[y] \in Int
  OBVIOUS
<1> HIDE DEF R, g, z
<1>4. Total(f) = Both(Total(g), f[x])
  BY <1>1, <1>2, TotalWith
<1>5. Total(g) = {Sum(z, R)}
  BY <1>1, <1>2, <1>3, TotalIs
<1>6. Sum(z, R) = 0 * Cardinality(R)
  BY <1>1, <1>3, SumOfEquals
<1>7. Cardinality(R) \in Nat
  BY <1>1, FS_CardinalityType
<1>8. Total(g) = {0} /\ f[x] \in Amount
  BY <1>5, <1>6, <1>7
<1> QED BY <1>4, <1>8, BothLaws

(* The total of zeros.                                                        *)
LEMMA TotalOfZeros ==
  ASSUME NEW S, IsFiniteSet(S), NEW f \in [S -> Amount], \A y \in S : f[y] = {0}
  PROVE  Total(f) = {0}
<1>1. CASE S = {}
  BY <1>1, TotalOfNone
<1>2. CASE S # {}
  BY <1>2, TotalOfOne
<1> QED BY <1>1, <1>2

--------------------------------------------------------------------------------
(* Rows and ledgers that hold what two of them hold together.                 *)

Ids == {a.id : a \in Accruals}
RowType ==
  [money : [Fields -> Amount], unallocated : Int, counted : SUBSET Fields, gaps : SUBSET Fields,
   uncertain : SUBSET (Fields \cup {"cogs"}), sold : Amount, returned : Amount, unitsKnown : BOOLEAN,
   classified : BOOLEAN, returns : BOOLEAN, from : SUBSET Ids]
LedgerType ==
  [day : RowType, sku : [Skus -> RowType], net : Int, mismatch : Amount, allocated : BOOLEAN,
   skuUnitsKnown : BOOLEAN, unknownSku : BOOLEAN, sale : BOOLEAN, reconciled : SUBSET Ids,
   raw : Int, complete : BOOLEAN]

\* Row m holds what rows r and d hold together: c and u tell if that goes for its class and units.
RowAdds(r, d, m) ==
  /\ \A f \in Fields : m.money[f] = Both(r.money[f], d.money[f])
  /\ m.unallocated = r.unallocated + d.unallocated
  /\ m.counted = r.counted \cup d.counted /\ m.gaps = r.gaps \cup d.gaps
  /\ m.uncertain = r.uncertain \cup d.uncertain /\ m.from = r.from \cup d.from
  /\ m.returns <=> r.returns \/ d.returns
UnitsAdd(r, d, m) ==
  /\ m.sold = Both(r.sold, d.sold) /\ m.returned = Both(r.returned, d.returned)
  /\ m.unitsKnown <=> r.unitsKnown /\ d.unitsKnown
RowJoins(r, d, m, c, u) ==
  /\ r \in RowType /\ d \in RowType /\ m \in RowType
  /\ RowAdds(r, d, m)
  /\ c => (m.classified <=> r.classified /\ d.classified)
  /\ u => UnitsAdd(r, d, m)

(* The empty row and the empty ledger.                                        *)
LEMMA EmptyIs ==
  /\ EmptyRow \in RowType /\ EmptyLedger \in LedgerType
<1>1. {0} \in Amount
  BY AmountIs
<1>2. EmptyRow \in RowType
  BY <1>1 DEF EmptyRow, RowType
<1> QED BY <1>1, <1>2 DEF EmptyLedger, LedgerType

(* A row joined by an empty one.                                              *)
LEMMA RowJoinsNothing == ASSUME NEW r \in RowType PROVE RowJoins(r, EmptyRow, r, TRUE, TRUE)
<1>1. (\A f \in Fields : r.money[f] \in Amount) /\ r.sold \in Amount /\ r.returned \in Amount
  BY DEF RowType
<1>2. \A f \in Fields : r.money[f] = Both(r.money[f], EmptyRow.money[f])
  BY <1>1, BothLaws, AmountIs DEF EmptyRow
<1>3. r.sold = Both(r.sold, EmptyRow.sold) /\ r.returned = Both(r.returned, EmptyRow.returned)
  BY <1>1, BothLaws, AmountIs DEF EmptyRow
<1>4. RowAdds(r, EmptyRow, r)
  BY <1>2 DEF RowAdds, EmptyRow, RowType
<1>5. UnitsAdd(r, EmptyRow, r)
  BY <1>3 DEF UnitsAdd, EmptyRow
<1> QED BY <1>4, <1>5, EmptyIs DEF RowJoins, EmptyRow

(* What changes a row and what changes the one that joins it: a mark.         *)
LEMMA RowMarks ==
  ASSUME NEW r, NEW d, NEW m, NEW c, NEW u, RowJoins(r, d, m, c, u)
  PROVE  /\ \A id \in Ids : RowJoins(r, [d EXCEPT !.from = @ \cup {id}], [m EXCEPT !.from = @ \cup {id}], c, u)
         /\ \A a \in Int : RowJoins(r, [d EXCEPT !.unallocated = @ + a], [m EXCEPT !.unallocated = @ + a], c, u)
         /\ RowJoins(r, [d EXCEPT !.classified = FALSE], [m EXCEPT !.classified = FALSE], c, u)
         /\ \A f \in Fields : RowJoins(r, [d EXCEPT !.gaps = @ \cup {f}], [m EXCEPT !.gaps = @ \cup {f}], c, u)
         /\ \A fs \in SUBSET (Fields \cup {"cogs"}) :
              RowJoins(r, [d EXCEPT !.uncertain = @ \cup fs], [m EXCEPT !.uncertain = @ \cup fs], c, u)
         /\ RowJoins(r, [d EXCEPT !.returns = TRUE], [m EXCEPT !.returns = TRUE], c, u)
<1>0. r \in RowType /\ d \in RowType /\ m \in RowType
  BY DEF RowJoins
<1>1. ASSUME NEW id \in Ids
      PROVE  RowJoins(r, [d EXCEPT !.from = @ \cup {id}], [m EXCEPT !.from = @ \cup {id}], c, u)
  BY <1>0 DEF RowJoins, RowType, RowAdds, UnitsAdd
<1>2. ASSUME NEW a \in Int
      PROVE  RowJoins(r, [d EXCEPT !.unallocated = @ + a], [m EXCEPT !.unallocated = @ + a], c, u)
  BY <1>0 DEF RowJoins, RowType, RowAdds, UnitsAdd
<1>3. RowJoins(r, [d EXCEPT !.classified = FALSE], [m EXCEPT !.classified = FALSE], c, u)
  BY <1>0 DEF RowJoins, RowType, RowAdds, UnitsAdd
<1>4. ASSUME NEW f \in Fields
      PROVE  RowJoins(r, [d EXCEPT !.gaps = @ \cup {f}], [m EXCEPT !.gaps = @ \cup {f}], c, u)
  BY <1>0 DEF RowJoins, RowType, RowAdds, UnitsAdd
<1>5. ASSUME NEW fs \in SUBSET (Fields \cup {"cogs"})
      PROVE  RowJoins(r, [d EXCEPT !.uncertain = @ \cup fs], [m EXCEPT !.uncertain = @ \cup fs], c, u)
  BY <1>0 DEF RowJoins, RowType, RowAdds, UnitsAdd
<1>6. RowJoins(r, [d EXCEPT !.returns = TRUE], [m EXCEPT !.returns = TRUE], c, u)
  BY <1>0 DEF RowJoins, RowType, RowAdds, UnitsAdd
<1> QED BY <1>1, <1>2, <1>3, <1>4, <1>5, <1>6

(* Units that are unknown, or more of them.                                   *)
LEMMA RowUnits ==
  ASSUME NEW r, NEW d, NEW m, NEW c, NEW u, RowJoins(r, d, m, c, u)
  PROVE  /\ RowJoins(r, WithoutUnits(d), WithoutUnits(m), c, u)
         /\ \A q \in Int : RowJoins(r, [d EXCEPT !.sold = Plus(@, q)], [m EXCEPT !.sold = Plus(@, q)], c, u)
         /\ \A q \in Int : RowJoins(r, [d EXCEPT !.returned = Plus(@, q)], [m EXCEPT !.returned = Plus(@, q)], c, u)
<1>0. r \in RowType /\ d \in RowType /\ m \in RowType
  BY DEF RowJoins
<1>1. RowJoins(r, WithoutUnits(d), WithoutUnits(m), c, u)
  <2>1. {} \in Amount
    BY AmountIs
  <2>2. Both(r.sold, {}) = {} /\ Both(r.returned, {}) = {}
    BY BothIs
  <2>3. WithoutUnits(d) \in RowType /\ WithoutUnits(m) \in RowType
    BY <1>0, <2>1 DEF WithoutUnits, Unknown, RowType
  <2>4. UnitsAdd(r, WithoutUnits(d), WithoutUnits(m))
    BY <1>0, <2>2 DEF WithoutUnits, Unknown, RowType, UnitsAdd
  <2>5. RowAdds(r, WithoutUnits(d), WithoutUnits(m))
    BY <1>0 DEF WithoutUnits, RowType, RowAdds, RowJoins
  <2>6. (WithoutUnits(d).classified <=> d.classified) /\ (WithoutUnits(m).classified <=> m.classified)
    BY <1>0 DEF WithoutUnits, RowType
  <2> QED BY <1>0, <2>3, <2>4, <2>5, <2>6 DEF RowJoins
<1>3. ASSUME NEW q \in Int
      PROVE  RowJoins(r, [d EXCEPT !.sold = Plus(@, q)], [m EXCEPT !.sold = Plus(@, q)], c, u)
  <2>1. d.sold \in Amount /\ m.sold \in Amount /\ r.sold \in Amount
    BY <1>0 DEF RowType
  <2>2. Plus(d.sold, q) \in Amount /\ Plus(m.sold, q) \in Amount
        /\ (m.sold = Both(r.sold, d.sold) => Plus(m.sold, q) = Both(r.sold, Plus(d.sold, q)))
    <3>1. Plus(d.sold, q) \in Amount /\ Plus(Both(r.sold, d.sold), q) = Both(r.sold, Plus(d.sold, q))
      BY <2>1, PlusOfBoth
    <3>2. Plus(m.sold, q) \in Amount
      BY <2>1, PlusOfBoth
    <3> QED BY <3>1, <3>2
  <2> QED BY <1>0, <2>2 DEF RowJoins, RowType, RowAdds, UnitsAdd
<1>4. ASSUME NEW q \in Int
      PROVE  RowJoins(r, [d EXCEPT !.returned = Plus(@, q)], [m EXCEPT !.returned = Plus(@, q)], c, u)
  <2>1. d.returned \in Amount /\ m.returned \in Amount /\ r.returned \in Amount
    BY <1>0 DEF RowType
  <2>2. Plus(d.returned, q) \in Amount /\ Plus(m.returned, q) \in Amount
        /\ (m.returned = Both(r.returned, d.returned) => Plus(m.returned, q) = Both(r.returned, Plus(d.returned, q)))
    <3>1. Plus(d.returned, q) \in Amount /\ Plus(Both(r.returned, d.returned), q) = Both(r.returned, Plus(d.returned, q))
      BY <2>1, PlusOfBoth
    <3>2. Plus(m.returned, q) \in Amount
      BY <2>1, PlusOfBoth
    <3> QED BY <3>1, <3>2
  <2> QED BY <1>0, <2>2 DEF RowJoins, RowType, RowAdds, UnitsAdd
<1> QED BY <1>1, <1>3, <1>4

(* Fields that are unknown, or an amount booked.                              *)
LEMMA RowMoney ==
  ASSUME NEW r, NEW d, NEW m, NEW c, NEW u, RowJoins(r, d, m, c, u)
  PROVE  /\ \A fs : RowJoins(r, Blank(d, fs), Blank(m, fs), c, u)
         /\ \A f \in Fields, a \in Int : RowJoins(r, Booked(d, f, a), Booked(m, f, a), c, u)
<1>0. /\ r \in RowType /\ d \in RowType /\ m \in RowType
      /\ \A g \in Fields : r.money[g] \in Amount /\ d.money[g] \in Amount /\ m.money[g] \in Amount
      /\ \A g \in Fields : m.money[g] = Both(r.money[g], d.money[g])
  BY DEF RowJoins, RowType, RowAdds
<1>1. ASSUME NEW K \in [Fields -> Amount], NEW J \in [Fields -> Amount], \A g \in Fields : K[g] = Both(r.money[g], J[g])
      PROVE  RowJoins(r, [d EXCEPT !.money = J], [m EXCEPT !.money = K], c, u)
  BY <1>0, <1>1 DEF RowJoins, RowType, RowAdds, UnitsAdd
<1>2. ASSUME NEW fs PROVE RowJoins(r, Blank(d, fs), Blank(m, fs), c, u)
  <2> DEFINE J == [f \in Fields |-> IF f \in fs THEN {} ELSE d.money[f]]
             K == [f \in Fields |-> IF f \in fs THEN {} ELSE m.money[f]]
  <2>1. Blank(d, fs) = [d EXCEPT !.money = J] /\ Blank(m, fs) = [m EXCEPT !.money = K]
    BY <1>0 DEF Blank, Unknown, RowType
  <2>2. J \in [Fields -> Amount] /\ K \in [Fields -> Amount]
    BY <1>0, AmountIs
  <2>3. \A g \in Fields : K[g] = Both(r.money[g], J[g])
    BY <1>0, BothIs
  <2> HIDE DEF J, K
  <2> QED BY <1>1, <2>1, <2>2, <2>3
<1>3. ASSUME NEW f \in Fields, NEW a \in Int PROVE RowJoins(r, Booked(d, f, a), Booked(m, f, a), c, u)
  <2> DEFINE x == Sign(f) * a
             J == [d.money EXCEPT ![f] = Plus(@, x)]
             K == [m.money EXCEPT ![f] = Plus(@, x)]
  <2>0. x \in Int
    BY DEF Sign
  <2>1. Booked(d, f, a) = [[d EXCEPT !.money = J] EXCEPT !.counted = @ \cup {f}]
        /\ Booked(m, f, a) = [[m EXCEPT !.money = K] EXCEPT !.counted = @ \cup {f}]
    BY <1>0 DEF Booked, RowType
  <2>2. d.money \in [Fields -> Amount] /\ m.money \in [Fields -> Amount]
    BY <1>0 DEF RowType
  <2> HIDE DEF x
  <2>3. {x} \in Amount /\ Plus(d.money[f], x) \in Amount /\ Plus(m.money[f], x) \in Amount
        /\ Plus(m.money[f], x) = Both(r.money[f], Plus(d.money[f], x))
    <3>1. {x} \in Amount
      BY <2>0, AmountIs
    <3>2. r.money[f] \in Amount /\ d.money[f] \in Amount /\ m.money[f] \in Amount /\ m.money[f] = Both(r.money[f], d.money[f])
      BY <1>0
    <3>3. Plus(d.money[f], x) \in Amount /\ Plus(Both(r.money[f], d.money[f]), x) = Both(r.money[f], Plus(d.money[f], x))
      BY <2>0, <3>2, PlusOfBoth
    <3>4. Plus(m.money[f], x) \in Amount
      BY <2>0, <3>2, PlusOfBoth
    <3> QED BY <3>1, <3>2, <3>3, <3>4
  <2>4. J \in [Fields -> Amount] /\ K \in [Fields -> Amount]
    BY <2>2, <2>3
  <2>5. \A g \in Fields : K[g] = Both(r.money[g], J[g])
    BY <1>0, <2>2, <2>3
  <2> HIDE DEF J, K
  <2>6. RowJoins(r, [d EXCEPT !.money = J], [m EXCEPT !.money = K], c, u)
    BY <1>1, <2>4, <2>5
  <2>7. ASSUME NEW D, NEW M, RowJoins(r, D, M, c, u)
        PROVE  RowJoins(r, [D EXCEPT !.counted = @ \cup {f}], [M EXCEPT !.counted = @ \cup {f}], c, u)
    <3>1. r \in RowType /\ D \in RowType /\ M \in RowType
      BY <2>7 DEF RowJoins
    <3> QED BY <2>7, <3>1 DEF RowJoins, RowType, RowAdds, UnitsAdd
  <2> DEFINE D == [d EXCEPT !.money = J]
             M == [m EXCEPT !.money = K]
  <2>8. RowJoins(r, D, M, c, u)
    BY <2>6
  <2> HIDE DEF D, M
  <2>9. RowJoins(r, [D EXCEPT !.counted = @ \cup {f}], [M EXCEPT !.counted = @ \cup {f}], c, u)
    BY <2>7, <2>8
  <2> QED BY <2>1, <2>9 DEF D, M
<1> QED BY <1>2, <1>3

\* The units of SKUs of which nobody is told: they depend on the order of the accruals.
Lost(n) == ~n.skuUnitsKnown /\ (n.unknownSku \/ "cogs" \in n.day.uncertain)

\* Ledger m holds what ledgers n and e hold together.
MarksAdd(n, e, m) ==
  /\ m.allocated <=> n.allocated /\ e.allocated
  /\ m.skuUnitsKnown <=> n.skuUnitsKnown /\ e.skuUnitsKnown
  /\ m.unknownSku <=> n.unknownSku \/ e.unknownSku
  /\ m.sale <=> n.sale \/ e.sale
Joins(n, e, m) ==
  /\ n \in LedgerType /\ e \in LedgerType /\ m \in LedgerType
  /\ RowJoins(n.day, e.day, m.day, TRUE, TRUE)
  /\ \A s \in Skus : RowJoins(n.sku[s], e.sku[s], m.sku[s], m.allocated, ~Lost(m))
  /\ MarksAdd(n, e, m)
  /\ m.net = n.net + e.net /\ m.mismatch = Both(n.mismatch, e.mismatch)
  /\ m.reconciled = n.reconciled \cup e.reconciled
RawAdds(n, e, m) == m.raw = n.raw + e.raw /\ (m.complete <=> n.complete /\ e.complete)
Merges(n, e, m) == Joins(n, e, m) /\ RawAdds(n, e, m)

(* Less is claimed of a row.                                                  *)
LEMMA RowJoinsLess ==
  ASSUME NEW r, NEW d, NEW m, NEW c, NEW u, RowJoins(r, d, m, c, u), NEW c2, NEW u2, c2 => c, u2 => u
  PROVE  RowJoins(r, d, m, c2, u2)
BY DEF RowJoins

(* A ledger with an empty one.                                                *)
LEMMA MergesNothing ==
  ASSUME NEW n \in LedgerType
  PROVE  Merges(n, EmptyLedger, n)
<1>1. RowJoins(n.day, EmptyRow, n.day, TRUE, TRUE)
  BY RowJoinsNothing DEF LedgerType
<1>2. \A s \in Skus : RowJoins(n.sku[s], EmptyRow, n.sku[s], n.allocated, ~Lost(n))
  <2> SUFFICES ASSUME NEW s \in Skus PROVE RowJoins(n.sku[s], EmptyRow, n.sku[s], n.allocated, ~Lost(n))
    OBVIOUS
  <2>1. RowJoins(n.sku[s], EmptyRow, n.sku[s], TRUE, TRUE)
    BY RowJoinsNothing DEF LedgerType
  <2> QED BY <2>1, RowJoinsLess
<1>3. /\ EmptyLedger.day = EmptyRow /\ (\A s \in Skus : EmptyLedger.sku[s] = EmptyRow)
      /\ EmptyLedger.allocated /\ EmptyLedger.skuUnitsKnown /\ ~EmptyLedger.unknownSku /\ ~EmptyLedger.sale
      /\ EmptyLedger.net = 0 /\ EmptyLedger.mismatch = {0} /\ EmptyLedger.reconciled = {} /\ EmptyLedger.raw = 0
      /\ EmptyLedger.complete
  BY DEF EmptyLedger
<1>4. n.net \in Int /\ n.mismatch \in Amount /\ n.raw \in Int
  BY DEF LedgerType
<1>5. Both(n.mismatch, {0}) = n.mismatch /\ n.net = n.net + 0 /\ n.raw = n.raw + 0
  BY <1>4, BothLaws
<1>6. MarksAdd(n, EmptyLedger, n) /\ RawAdds(n, EmptyLedger, n)
  BY <1>3, <1>5 DEF MarksAdd, RawAdds
<1>7. n.net = n.net + EmptyLedger.net /\ n.mismatch = Both(n.mismatch, EmptyLedger.mismatch)
      /\ n.reconciled = n.reconciled \cup EmptyLedger.reconciled
  BY <1>3, <1>5
<1>8. RowJoins(n.day, EmptyLedger.day, n.day, TRUE, TRUE)
      /\ \A s \in Skus : RowJoins(n.sku[s], EmptyLedger.sku[s], n.sku[s], n.allocated, ~Lost(n))
  BY <1>1, <1>2, <1>3
<1>9. EmptyLedger \in LedgerType
  BY EmptyIs
<1> HIDE DEF EmptyLedger
<1> QED BY <1>6, <1>7, <1>8, <1>9 DEF Merges, Joins

\* What an operation makes of a ledger: the row of the day, that of one SKU, and the marks.
Change ==
  [allocated : BOOLEAN, skuUnitsKnown : BOOLEAN, unknownSku : BOOLEAN, sale : BOOLEAN, raw : Int, complete : BOOLEAN]
DoesToDay(x, y, drow, w) ==
  /\ y \in LedgerType /\ y.day = drow
  /\ y.allocated <=> x.allocated /\ w.allocated
  /\ y.skuUnitsKnown <=> x.skuUnitsKnown /\ w.skuUnitsKnown
  /\ y.unknownSku <=> x.unknownSku \/ w.unknownSku
  /\ y.sale <=> x.sale \/ w.sale
  /\ y.net = x.net /\ y.mismatch = x.mismatch /\ y.reconciled = x.reconciled
  /\ y.raw = x.raw + w.raw /\ (y.complete <=> x.complete /\ w.complete)
Does(x, y, s, drow, row, w) ==
  /\ DoesToDay(x, y, drow, w)
  /\ \A t \in Skus : y.sku[t] = IF t = s THEN row ELSE x.sku[t]

(* The same operation on two ledgers, of which the second holds the first.    *)
LEMMA DoneToAll ==
  ASSUME NEW n, NEW e, NEW m, Merges(n, e, m), NEW w \in Change,
         NEW e2, NEW m2, NEW D, NEW D2, DoesToDay(e, e2, D, w), DoesToDay(m, m2, D2, w),
         RowJoins(n.day, D, D2, TRUE, TRUE),
         \A t \in Skus : RowJoins(n.sku[t], e2.sku[t], m2.sku[t], m2.allocated, ~Lost(m2))
  PROVE  Merges(n, e2, m2)
<1>3. MarksAdd(n, e2, m2)
  BY DEF DoesToDay, MarksAdd, Merges, Joins
<1>4. RawAdds(n, e2, m2)
  <2>1. n.raw \in Int /\ e.raw \in Int /\ w.raw \in Int /\ m.raw = n.raw + e.raw /\ e2.raw = e.raw + w.raw /\ m2.raw = m.raw + w.raw
    BY DEF DoesToDay, Merges, Joins, RawAdds, Change, LedgerType
  <2>2. m2.raw = n.raw + e2.raw
    BY <2>1
  <2> QED BY <2>2 DEF DoesToDay, Merges, RawAdds
<1>5. /\ n \in LedgerType /\ e2 \in LedgerType /\ m2 \in LedgerType
      /\ RowJoins(n.day, e2.day, m2.day, TRUE, TRUE)
      /\ m2.net = n.net + e2.net /\ m2.mismatch = Both(n.mismatch, e2.mismatch)
      /\ m2.reconciled = n.reconciled \cup e2.reconciled
  BY DEF DoesToDay, Merges, Joins
<1> QED BY <1>3, <1>4, <1>5 DEF Merges, Joins

(* An operation that changes the row of one SKU.                              *)
LEMMA DoneToBoth ==
  ASSUME NEW n, NEW e, NEW m, Merges(n, e, m), NEW s, NEW w \in Change,
         NEW e2, NEW m2, NEW D, NEW R, NEW D2, NEW R2,
         Does(e, e2, s, D, R, w), Does(m, m2, s, D2, R2, w),
         RowJoins(n.day, D, D2, TRUE, TRUE),
         "cogs" \in m.day.uncertain => "cogs" \in D2.uncertain,
         s \in Skus => RowJoins(n.sku[s], R, R2, m2.allocated, ~Lost(m2))
  PROVE  Merges(n, e2, m2)
<1>1. Lost(m) => Lost(m2)
  BY DEF Lost, Does, DoesToDay
<1>2. \A t \in Skus : RowJoins(n.sku[t], e2.sku[t], m2.sku[t], m2.allocated, ~Lost(m2))
  <2> SUFFICES ASSUME NEW t \in Skus PROVE RowJoins(n.sku[t], e2.sku[t], m2.sku[t], m2.allocated, ~Lost(m2))
    OBVIOUS
  <2>1. CASE t = s
    BY <2>1 DEF Does
  <2>2. CASE t # s
    <3>1. RowJoins(n.sku[t], e.sku[t], m.sku[t], m.allocated, ~Lost(m))
      BY DEF Merges, Joins
    <3>2. e2.sku[t] = e.sku[t] /\ m2.sku[t] = m.sku[t] /\ (m2.allocated => m.allocated)
      BY <2>2 DEF Does, DoesToDay
    <3> QED BY <1>1, <3>1, <3>2, RowJoinsLess
  <2> QED BY <2>1, <2>2
<1> QED BY <1>2, DoneToAll DEF Does

--------------------------------------------------------------------------------
(* What the operations on a ledger change, and that they change a ledger as   *)
(* they change an empty one beside it.                                        *)

Still == [allocated |-> TRUE, skuUnitsKnown |-> TRUE, unknownSku |-> FALSE, sale |-> FALSE, raw |-> 0, complete |-> TRUE]
Shared == [allocated |-> FALSE, skuUnitsKnown |-> TRUE, unknownSku |-> FALSE, sale |-> FALSE, raw |-> 0, complete |-> TRUE]
Of(s) == IF s = NoSku THEN Shared ELSE Still

(* What changes a row leaves it one.                                          *)
LEMMA RowsAreTyped ==
  ASSUME NEW r \in RowType
  PROVE  /\ \A fs : Blank(r, fs) \in RowType
         /\ \A f \in Fields, a \in Int : Booked(r, f, a) \in RowType
         /\ WithoutUnits(r) \in RowType
         /\ \A id \in Ids : [r EXCEPT !.from = @ \cup {id}] \in RowType
<1>1. RowJoins(r, EmptyRow, r, TRUE, TRUE)
  BY RowJoinsNothing
<1>2. \A fs : RowJoins(r, Blank(EmptyRow, fs), Blank(r, fs), TRUE, TRUE)
  BY <1>1, RowMoney
<1>3. \A f \in Fields, a \in Int : RowJoins(r, Booked(EmptyRow, f, a), Booked(r, f, a), TRUE, TRUE)
  BY <1>1, RowMoney
<1>4. RowJoins(r, WithoutUnits(EmptyRow), WithoutUnits(r), TRUE, TRUE)
  BY <1>1, RowUnits
<1>5. \A id \in Ids : [r EXCEPT !.from = @ \cup {id}] \in RowType
  BY DEF RowType
<1> QED BY <1>2, <1>3, <1>4, <1>5 DEF RowJoins

(* Nothing is changed but where a line without a SKU may belong.              *)
LEMMA OfIs ==
  ASSUME NEW s
  PROVE  /\ Of(s) \in Change /\ Still \in Change /\ (Of(s).allocated <=> s # NoSku) /\ Of(s).skuUnitsKnown
         /\ ~Of(s).unknownSku /\ ~Of(s).sale /\ Of(s).raw = 0 /\ Of(s).complete
<1>1. /\ Still \in Change /\ Still.allocated /\ Still.skuUnitsKnown /\ ~Still.unknownSku /\ ~Still.sale
      /\ Still.raw = 0 /\ Still.complete
  BY DEF Still, Change
<1>2. /\ Shared \in Change /\ ~Shared.allocated /\ Shared.skuUnitsKnown /\ ~Shared.unknownSku /\ ~Shared.sale
      /\ Shared.raw = 0 /\ Shared.complete
  BY DEF Shared, Change
<1> QED BY <1>1, <1>2 DEF Of

(* What is known of the day alone.                                            *)
LEMMA DoesDay ==
  ASSUME NEW n \in LedgerType, NEW d \in RowType, NEW s, s = NoSku, NEW row,
         NEW y, y = [n EXCEPT !.day = d, !.allocated = FALSE]
  PROVE  Does(n, y, s, d, row, Of(s))
<1>1. y \in LedgerType
  BY DEF LedgerType
<1>2. /\ y.day = d /\ y.sku = n.sku /\ y.allocated = FALSE /\ (y.skuUnitsKnown = n.skuUnitsKnown)
      /\ (y.unknownSku = n.unknownSku) /\ (y.sale = n.sale) /\ y.net = n.net /\ y.mismatch = n.mismatch
      /\ y.reconciled = n.reconciled /\ y.raw = n.raw /\ (y.complete = n.complete)
  BY DEF LedgerType
<1>3. n.raw \in Int /\ NoSku \notin Skus
  BY AccrualAssumption DEF LedgerType
<1> QED BY <1>1, <1>2, <1>3, OfIs DEF Does, DoesToDay

(* What is known of the day and of one SKU.                                   *)
LEMMA DoesSku ==
  ASSUME NEW n \in LedgerType, NEW d \in RowType, NEW s \in Skus, NEW row \in RowType,
         NEW y, y = [n EXCEPT !.day = d, !.sku[s] = row]
  PROVE  Does(n, y, s, d, row, Of(s))
<1>1. y \in LedgerType
  BY DEF LedgerType
<1>2. /\ y.day = d /\ y.sku = [n.sku EXCEPT ![s] = row] /\ (y.allocated = n.allocated)
      /\ (y.skuUnitsKnown = n.skuUnitsKnown)
      /\ (y.unknownSku = n.unknownSku) /\ (y.sale = n.sale) /\ y.net = n.net /\ y.mismatch = n.mismatch
      /\ y.reconciled = n.reconciled /\ y.raw = n.raw /\ (y.complete = n.complete)
  BY DEF LedgerType
<1>3. n.raw \in Int /\ NoSku \notin Skus /\ n.sku \in [Skus -> RowType]
  BY AccrualAssumption DEF LedgerType
<1>4. \A t \in Skus : y.sku[t] = IF t = s THEN row ELSE n.sku[t]
  BY <1>2, <1>3
<1> QED BY <1>1, <1>2, <1>3, <1>4, OfIs DEF Does, DoesToDay

(* The same operation on two ledgers, of which the second holds the first.    *)
LEMMA SameOperation ==
  ASSUME NEW n, NEW e, NEW m, Merges(n, e, m), NEW s, NEW w \in Change,
         NEW e2, NEW m2, NEW D, NEW R, NEW D2, NEW R2,
         Does(e, e2, s, D, R, w), Does(m, m2, s, D2, R2, w),
         RowJoins(n.day, D, D2, TRUE, TRUE),
         "cogs" \in m.day.uncertain => "cogs" \in D2.uncertain,
         \A c, u : s \in Skus /\ RowJoins(n.sku[s], e.sku[s], m.sku[s], c, u) => RowJoins(n.sku[s], R, R2, c, u)
  PROVE  Merges(n, e2, m2)
<1>1. (m2.allocated => m.allocated) /\ (Lost(m) => Lost(m2))
  BY DEF Does, DoesToDay, Lost
<1>2. ASSUME s \in Skus PROVE RowJoins(n.sku[s], R, R2, m2.allocated, ~Lost(m2))
  <2>1. RowJoins(n.sku[s], e.sku[s], m.sku[s], m.allocated, ~Lost(m))
    BY <1>2 DEF Merges, Joins
  <2>2. RowJoins(n.sku[s], R, R2, m.allocated, ~Lost(m))
    BY <1>2, <2>1
  <2> QED BY <1>1, <2>2, RowJoinsLess
<1> QED BY <1>2, DoneToBoth

(* _add_component                                                             *)
DayBooked(r, f, a, s) == IF s = NoSku THEN Aside(Booked(r, f, a), a) ELSE Booked(r, f, a)
SkuBooked(r, f, a, id) == Booked([r EXCEPT !.from = @ \cup {id}], f, a)

(* An amount changes the row of the day and that of its SKU.                  *)
LEMMA AddComponentDoes ==
  ASSUME NEW n \in LedgerType, NEW f \in Fields, NEW a \in Int, NEW s \in Skus \cup {NoSku}, NEW id \in Ids
  PROVE  Does(n, AddComponent(n, f, a, s, id), s, DayBooked(n.day, f, a, s), SkuBooked(n.sku[s], f, a, id), Of(s))
<1>1. n.day \in RowType /\ n.sku \in [Skus -> RowType] /\ NoSku \notin Skus
  BY AccrualAssumption DEF LedgerType
<1> DEFINE b == Booked(n.day, f, a)
<1>2. b \in RowType
  BY <1>1, RowsAreTyped
<1>3. CASE s = NoSku
  <2> DEFINE d == Aside(b, a)
  <2>1. AddComponent(n, f, a, s, id) = [n EXCEPT !.day = d, !.allocated = FALSE]
    BY <1>1, <1>2, <1>3 DEF AddComponent, LedgerType, RowType
  <2>2. d \in RowType
    BY <1>2 DEF RowType, Aside
  <2>3. DayBooked(n.day, f, a, s) = d
    BY <1>3 DEF DayBooked
  <2> HIDE DEF b, d
  <2> QED BY <1>3, <2>1, <2>2, <2>3, DoesDay
<1>4. CASE s \in Skus
  <2> DEFINE c == [n.sku[s] EXCEPT !.from = @ \cup {id}]
             d == Booked(c, f, a)
  <2>1. c \in RowType
    BY <1>1, <1>4, RowsAreTyped
  <2>2. d \in RowType
    BY <2>1, RowsAreTyped
  <2>3. AddComponent(n, f, a, s, id) = [n EXCEPT !.day = b, !.sku[s] = d]
    BY <1>1, <1>4, <2>1 DEF AddComponent, LedgerType, Touch
  <2>4. DayBooked(n.day, f, a, s) = b /\ SkuBooked(n.sku[s], f, a, id) = d
    BY <1>1, <1>4 DEF DayBooked, SkuBooked
  <2> HIDE DEF b, c, d
  <2> QED BY <1>2, <1>4, <2>2, <2>3, <2>4, DoesSku
<1> QED BY <1>3, <1>4

(* It is the same amount beside other accruals.                               *)
LEMMA AddComponentMerges ==
  ASSUME NEW n, NEW e, NEW m, Merges(n, e, m),
         NEW f \in Fields, NEW a \in Int, NEW s \in Skus \cup {NoSku}, NEW id \in Ids
  PROVE  Merges(n, AddComponent(e, f, a, s, id), AddComponent(m, f, a, s, id))
<1>1. e \in LedgerType /\ m \in LedgerType
  BY DEF Merges, Joins
<1>2. /\ Does(e, AddComponent(e, f, a, s, id), s, DayBooked(e.day, f, a, s), SkuBooked(e.sku[s], f, a, id), Of(s))
      /\ Does(m, AddComponent(m, f, a, s, id), s, DayBooked(m.day, f, a, s), SkuBooked(m.sku[s], f, a, id), Of(s))
  BY <1>1, AddComponentDoes
<1>3. RowJoins(n.day, DayBooked(e.day, f, a, s), DayBooked(m.day, f, a, s), TRUE, TRUE)
  <2>1. RowJoins(n.day, Booked(e.day, f, a), Booked(m.day, f, a), TRUE, TRUE)
    BY RowMoney DEF Merges, Joins
  <2> DEFINE d == Booked(e.day, f, a)
             k == Booked(m.day, f, a)
  <2>2. RowJoins(n.day, d, k, TRUE, TRUE)
    BY <2>1
  <2> HIDE DEF d, k
  <2>3. RowJoins(n.day, Aside(d, a), Aside(k, a), TRUE, TRUE)
    BY <2>2, RowMarks DEF Aside
  <2> QED BY <2>1, <2>3 DEF DayBooked, d, k
<1>4. ASSUME s \in Skus, NEW c, NEW u, RowJoins(n.sku[s], e.sku[s], m.sku[s], c, u)
      PROVE  RowJoins(n.sku[s], SkuBooked(e.sku[s], f, a, id), SkuBooked(m.sku[s], f, a, id), c, u)
  <2> DEFINE d == [e.sku[s] EXCEPT !.from = @ \cup {id}]
             k == [m.sku[s] EXCEPT !.from = @ \cup {id}]
  <2>1. RowJoins(n.sku[s], d, k, c, u)
    BY <1>4, RowMarks
  <2> HIDE DEF d, k
  <2>2. RowJoins(n.sku[s], Booked(d, f, a), Booked(k, f, a), c, u)
    BY <2>1, RowMoney
  <2> QED BY <2>2 DEF SkuBooked, d, k
<1>5. "cogs" \in m.day.uncertain => "cogs" \in DayBooked(m.day, f, a, s).uncertain
  BY DEF DayBooked, Booked, Aside, RowType
<1> QED BY <1>2, <1>3, <1>4, <1>5, SameOperation, OfIs

(* _mark_unknown                                                              *)
DayUnknown(r, fs, s) ==
  LET b == Unclassified(Blank(r, fs)) IN IF s = NoSku THEN [b EXCEPT !.uncertain = @ \cup fs] ELSE b
SkuUnknown(r, fs, id) == Doubted([r EXCEPT !.from = @ \cup {id}], fs \ {"other_expenses"})

(* A row of which something is unknown is a row.                              *)
LEMMA DoubtedIs ==
  ASSUME NEW r \in RowType, NEW fs \in SUBSET (Fields \cup {"cogs"})
  PROVE  Unclassified(Blank(r, fs)) \in RowType /\ Doubted(r, fs) \in RowType
<1>1. Blank(r, fs) \in RowType
  BY RowsAreTyped
<1>2. Unclassified(Blank(r, fs)) \in RowType
  BY <1>1 DEF Unclassified, RowType
<1>3. Doubted(r, fs) \in RowType
  BY <1>2 DEF Doubted, RowType
<1> QED BY <1>2, <1>3

(* What is unknown changes the row of the day and that of its SKU.            *)
LEMMA MarkUnknownDoes ==
  ASSUME NEW n \in LedgerType, NEW fs \in SUBSET (Fields \cup {"cogs"}), NEW s \in Skus \cup {NoSku}, NEW id \in Ids
  PROVE  Does(n, MarkUnknown(n, fs, s, id), s, DayUnknown(n.day, fs, s), SkuUnknown(n.sku[s], fs, id), Of(s))
<1>1. n.day \in RowType /\ n.sku \in [Skus -> RowType] /\ NoSku \notin Skus
  BY AccrualAssumption DEF LedgerType
<1> DEFINE b == Unclassified(Blank(n.day, fs))
<1>2. b \in RowType
  BY <1>1, DoubtedIs
<1>3. CASE s = NoSku
  <2> DEFINE d == [b EXCEPT !.uncertain = @ \cup fs]
  <2>1. MarkUnknown(n, fs, s, id) = [n EXCEPT !.day = d, !.allocated = FALSE]
    BY <1>1, <1>2, <1>3 DEF MarkUnknown, LedgerType, RowType
  <2>2. d \in RowType
    BY <1>2 DEF RowType
  <2>3. DayUnknown(n.day, fs, s) = d
    BY <1>3 DEF DayUnknown
  <2> HIDE DEF b, d
  <2> QED BY <1>3, <2>1, <2>2, <2>3, DoesDay
<1>4. CASE s \in Skus
  <2> DEFINE c == [n.sku[s] EXCEPT !.from = @ \cup {id}]
             d == Doubted(c, fs \ {"other_expenses"})
  <2>1. c \in RowType
    BY <1>1, <1>4, RowsAreTyped
  <2>2. d \in RowType
    BY <2>1, DoubtedIs
  <2>3. MarkUnknown(n, fs, s, id) = [n EXCEPT !.day = b, !.sku[s] = d]
    BY <1>1, <1>4, <2>1 DEF MarkUnknown, LedgerType, Touch
  <2>4. DayUnknown(n.day, fs, s) = b /\ SkuUnknown(n.sku[s], fs, id) = d
    BY <1>1, <1>4 DEF DayUnknown, SkuUnknown
  <2> HIDE DEF b, c, d
  <2> QED BY <1>2, <1>4, <2>2, <2>3, <2>4, DoesSku
<1> QED BY <1>3, <1>4

(* It is unknown beside other accruals too.                                   *)
LEMMA MarkUnknownMerges ==
  ASSUME NEW n, NEW e, NEW m, Merges(n, e, m),
         NEW fs \in SUBSET (Fields \cup {"cogs"}), NEW s \in Skus \cup {NoSku}, NEW id \in Ids
  PROVE  Merges(n, MarkUnknown(e, fs, s, id), MarkUnknown(m, fs, s, id))
<1>1. e \in LedgerType /\ m \in LedgerType
  BY DEF Merges, Joins
<1>2. /\ Does(e, MarkUnknown(e, fs, s, id), s, DayUnknown(e.day, fs, s), SkuUnknown(e.sku[s], fs, id), Of(s))
      /\ Does(m, MarkUnknown(m, fs, s, id), s, DayUnknown(m.day, fs, s), SkuUnknown(m.sku[s], fs, id), Of(s))
  BY <1>1, MarkUnknownDoes
<1>3. ASSUME NEW r, NEW d, NEW k, NEW c, NEW u, RowJoins(r, d, k, c, u), NEW gs \in SUBSET (Fields \cup {"cogs"})
      PROVE  /\ RowJoins(r, Unclassified(Blank(d, gs)), Unclassified(Blank(k, gs)), c, u)
             /\ RowJoins(r, Doubted(d, gs), Doubted(k, gs), c, u)
  <2> DEFINE d1 == Blank(d, gs)
             k1 == Blank(k, gs)
             d2 == Unclassified(d1)
             k2 == Unclassified(k1)
  <2>1. RowJoins(r, d1, k1, c, u)
    BY <1>3, RowMoney
  <2> HIDE DEF d1, k1
  <2>2. RowJoins(r, d2, k2, c, u)
    BY <2>1, RowMarks DEF Unclassified
  <2> HIDE DEF d2, k2
  <2>3. RowJoins(r, [d2 EXCEPT !.uncertain = @ \cup gs], [k2 EXCEPT !.uncertain = @ \cup gs], c, u)
    BY <2>2, RowMarks
  <2> QED BY <2>2, <2>3 DEF d1, k1, d2, k2, Doubted
<1>4. RowJoins(n.day, DayUnknown(e.day, fs, s), DayUnknown(m.day, fs, s), TRUE, TRUE)
  <2>1. RowJoins(n.day, e.day, m.day, TRUE, TRUE)
    BY DEF Merges, Joins
  <2>2. /\ RowJoins(n.day, Unclassified(Blank(e.day, fs)), Unclassified(Blank(m.day, fs)), TRUE, TRUE)
        /\ RowJoins(n.day, Doubted(e.day, fs), Doubted(m.day, fs), TRUE, TRUE)
    BY <2>1, <1>3
  <2> QED BY <2>2 DEF DayUnknown, Doubted
<1>5. ASSUME s \in Skus, NEW c, NEW u, RowJoins(n.sku[s], e.sku[s], m.sku[s], c, u)
      PROVE  RowJoins(n.sku[s], SkuUnknown(e.sku[s], fs, id), SkuUnknown(m.sku[s], fs, id), c, u)
  <2> DEFINE d == [e.sku[s] EXCEPT !.from = @ \cup {id}]
             k == [m.sku[s] EXCEPT !.from = @ \cup {id}]
  <2>1. RowJoins(n.sku[s], d, k, c, u)
    BY <1>5, RowMarks
  <2> HIDE DEF d, k
  <2>2. RowJoins(n.sku[s], Doubted(d, fs \ {"other_expenses"}), Doubted(k, fs \ {"other_expenses"}), c, u)
    BY <2>1, <1>3
  <2> QED BY <2>2 DEF SkuUnknown, d, k
<1>6. "cogs" \in m.day.uncertain => "cogs" \in DayUnknown(m.day, fs, s).uncertain
  <2>1. m.day \in RowType
    BY <1>1 DEF LedgerType
  <2> QED BY <2>1 DEF DayUnknown, Unclassified, Blank, RowType
<1> QED BY <1>2, <1>4, <1>5, <1>6, SameOperation, OfIs

NoUnits == [allocated |-> TRUE, skuUnitsKnown |-> FALSE, unknownSku |-> FALSE, sale |-> FALSE, raw |-> 0, complete |-> TRUE]

(* The changes that only mark a ledger.                                       *)
LEMMA NoUnitsIs ==
  /\ NoUnits \in Change /\ NoUnits.allocated /\ ~NoUnits.skuUnitsKnown /\ ~NoUnits.unknownSku /\ ~NoUnits.sale
  /\ NoUnits.raw = 0 /\ NoUnits.complete
  /\ Still \in Change /\ Still.allocated /\ Still.skuUnitsKnown /\ ~Still.unknownSku /\ ~Still.sale
  /\ Still.raw = 0 /\ Still.complete
  /\ Shared \in Change /\ ~Shared.allocated /\ Shared.skuUnitsKnown /\ ~Shared.unknownSku /\ ~Shared.sale
  /\ Shared.raw = 0 /\ Shared.complete
<1>1. /\ NoUnits \in Change /\ NoUnits.allocated /\ ~NoUnits.skuUnitsKnown /\ ~NoUnits.unknownSku /\ ~NoUnits.sale
      /\ NoUnits.raw = 0 /\ NoUnits.complete
  BY DEF NoUnits, Change
<1>2. /\ Still \in Change /\ Still.allocated /\ Still.skuUnitsKnown /\ ~Still.unknownSku /\ ~Still.sale
      /\ Still.raw = 0 /\ Still.complete
  BY DEF Still, Change
<1>3. /\ Shared \in Change /\ ~Shared.allocated /\ Shared.skuUnitsKnown /\ ~Shared.unknownSku /\ ~Shared.sale
      /\ Shared.raw = 0 /\ Shared.complete
  BY DEF Shared, Change
<1> QED BY <1>1, <1>2, <1>3

(* The rows of a ledger are changed, and nothing else.                        *)
LEMMA RowsStill ==
  ASSUME NEW n \in LedgerType, NEW d \in RowType, NEW S \in [Skus -> RowType], NEW y, y = [n EXCEPT !.day = d, !.sku = S]
  PROVE  DoesToDay(n, y, d, Still)
<1>1. y \in LedgerType /\ n.raw \in Int
  BY DEF LedgerType
<1>2. /\ y.day = d /\ y.sku = S /\ (y.allocated = n.allocated)
      /\ (y.skuUnitsKnown = n.skuUnitsKnown)
      /\ (y.unknownSku = n.unknownSku) /\ (y.sale = n.sale) /\ y.net = n.net /\ y.mismatch = n.mismatch
      /\ y.reconciled = n.reconciled /\ y.raw = n.raw /\ (y.complete = n.complete)
  BY DEF LedgerType
<1> QED BY <1>1, <1>2, NoUnitsIs DEF DoesToDay

(* They are changed by what has no SKU.                                       *)
LEMMA RowsShared ==
  ASSUME NEW n \in LedgerType, NEW d \in RowType, NEW S \in [Skus -> RowType], NEW y, y = [n EXCEPT !.day = d, !.sku = S, !.allocated = FALSE]
  PROVE  DoesToDay(n, y, d, Shared)
<1>1. y \in LedgerType /\ n.raw \in Int
  BY DEF LedgerType
<1>2. /\ y.day = d /\ y.sku = S /\ (y.allocated = FALSE)
      /\ (y.skuUnitsKnown = n.skuUnitsKnown)
      /\ (y.unknownSku = n.unknownSku) /\ (y.sale = n.sale) /\ y.net = n.net /\ y.mismatch = n.mismatch
      /\ y.reconciled = n.reconciled /\ y.raw = n.raw /\ (y.complete = n.complete)
  BY DEF LedgerType
<1> QED BY <1>1, <1>2, NoUnitsIs DEF DoesToDay

(* They are changed, and units are lost.                                      *)
LEMMA RowsNoUnits ==
  ASSUME NEW n \in LedgerType, NEW d \in RowType, NEW S \in [Skus -> RowType], NEW y, y = [n EXCEPT !.day = d, !.sku = S, !.skuUnitsKnown = FALSE]
  PROVE  DoesToDay(n, y, d, NoUnits)
<1>1. y \in LedgerType /\ n.raw \in Int
  BY DEF LedgerType
<1>2. /\ y.day = d /\ y.sku = S /\ (y.allocated = n.allocated)
      /\ (y.skuUnitsKnown = FALSE)
      /\ (y.unknownSku = n.unknownSku) /\ (y.sale = n.sale) /\ y.net = n.net /\ y.mismatch = n.mismatch
      /\ y.reconciled = n.reconciled /\ y.raw = n.raw /\ (y.complete = n.complete)
  BY DEF LedgerType
<1> QED BY <1>1, <1>2, NoUnitsIs DEF DoesToDay

(* A missing detail, of a row that joins another.                             *)
LEMMA GappedJoins ==
  ASSUME NEW r, NEW d, NEW k, NEW c, NEW u, RowJoins(r, d, k, c, u), NEW f \in Fields
  PROVE  RowJoins(r, Gapped(d, f), Gapped(k, f), c, u)
<1> DEFINE d1 == Unclassified(d)
           k1 == Unclassified(k)
<1>1. RowJoins(r, d1, k1, c, u)
  BY RowMarks DEF Unclassified
<1> HIDE DEF d1, k1
<1>2. RowJoins(r, [d1 EXCEPT !.gaps = @ \cup {f}], [k1 EXCEPT !.gaps = @ \cup {f}], c, u)
  BY <1>1, RowMarks
<1> QED BY <1>2 DEF d1, k1, Gapped

(* Whose class is not told, any of them may be unclassified.                  *)
LEMMA UnclassifiedJoins ==
  ASSUME NEW r, NEW d, NEW k, NEW c, NEW u, RowJoins(r, d, k, c, u),
         NEW D \in {d, Unclassified(d)}, NEW K \in {k, Unclassified(k)}
  PROVE  RowJoins(r, D, K, FALSE, u)
<1>1. r \in RowType /\ d \in RowType /\ k \in RowType
  BY DEF RowJoins
<1>2. ASSUME NEW x \in RowType, NEW X \in {x, Unclassified(x)}
      PROVE  /\ X \in RowType /\ X.money = x.money /\ X.unallocated = x.unallocated /\ X.counted = x.counted
             /\ X.gaps = x.gaps /\ X.uncertain = x.uncertain /\ X.from = x.from /\ (X.returns = x.returns)
             /\ X.sold = x.sold /\ X.returned = x.returned /\ (X.unitsKnown = x.unitsKnown)
  BY <1>2 DEF Unclassified, RowType
<1>3. /\ D \in RowType /\ D.money = d.money /\ D.unallocated = d.unallocated /\ D.counted = d.counted
      /\ D.gaps = d.gaps /\ D.uncertain = d.uncertain /\ D.from = d.from /\ (D.returns = d.returns)
      /\ D.sold = d.sold /\ D.returned = d.returned /\ (D.unitsKnown = d.unitsKnown)
  BY <1>1, <1>2
<1>4. /\ K \in RowType /\ K.money = k.money /\ K.unallocated = k.unallocated /\ K.counted = k.counted
      /\ K.gaps = k.gaps /\ K.uncertain = k.uncertain /\ K.from = k.from /\ (K.returns = k.returns)
      /\ K.sold = k.sold /\ K.returned = k.returned /\ (K.unitsKnown = k.unitsKnown)
  BY <1>1, <1>2
<1>5. RowAdds(r, d, k) => RowAdds(r, D, K)
  BY <1>3, <1>4 DEF RowAdds
<1>6. UnitsAdd(r, d, k) => UnitsAdd(r, D, K)
  BY <1>3, <1>4 DEF UnitsAdd
<1> QED BY <1>1, <1>3, <1>4, <1>5, <1>6 DEF RowJoins

(* Whose units are not told, any of them may have lost its units.             *)
LEMMA WithoutUnitsJoins ==
  ASSUME NEW r, NEW d, NEW k, NEW c, NEW u, RowJoins(r, d, k, c, u),
         NEW D \in {d, WithoutUnits(d)}, NEW K \in {k, WithoutUnits(k)}
  PROVE  RowJoins(r, D, K, c, FALSE)
<1>1. r \in RowType /\ d \in RowType /\ k \in RowType
  BY DEF RowJoins
<1>2. ASSUME NEW x \in RowType, NEW X \in {x, WithoutUnits(x)}
      PROVE  /\ X \in RowType /\ X.money = x.money /\ X.unallocated = x.unallocated /\ X.counted = x.counted
             /\ X.gaps = x.gaps /\ X.uncertain = x.uncertain /\ X.from = x.from /\ (X.returns = x.returns)
             /\ (X.classified = x.classified)
  <2>1. {} \in Amount
    BY AmountIs
  <2> QED BY <1>2, <2>1 DEF WithoutUnits, Unknown, RowType
<1>3. /\ D \in RowType /\ D.money = d.money /\ D.unallocated = d.unallocated /\ D.counted = d.counted
      /\ D.gaps = d.gaps /\ D.uncertain = d.uncertain /\ D.from = d.from /\ (D.returns = d.returns)
      /\ (D.classified = d.classified)
  BY <1>1, <1>2
<1>4. /\ K \in RowType /\ K.money = k.money /\ K.unallocated = k.unallocated /\ K.counted = k.counted
      /\ K.gaps = k.gaps /\ K.uncertain = k.uncertain /\ K.from = k.from /\ (K.returns = k.returns)
      /\ (K.classified = k.classified)
  BY <1>1, <1>2
<1>5. RowAdds(r, d, k) => RowAdds(r, D, K)
  BY <1>3, <1>4 DEF RowAdds
<1> QED BY <1>1, <1>3, <1>4, <1>5 DEF RowJoins

(* _mark_gap                                                                  *)
SkuGap(r, f, id) == Gapped([r EXCEPT !.from = @ \cup {id}], f)

(* What a missing detail of a SKU does.                                       *)
LEMMA MarkGapDoes ==
  ASSUME NEW n \in LedgerType, NEW f \in Fields, NEW s \in Skus, NEW id \in Ids
  PROVE  Does(n, MarkGap(n, f, s, id), s, Gapped(n.day, f), SkuGap(n.sku[s], f, id), Of(s))
<1>1. n.day \in RowType /\ n.sku \in [Skus -> RowType] /\ NoSku \notin Skus
  BY AccrualAssumption DEF LedgerType
<1>0. ASSUME NEW r \in RowType PROVE Gapped(r, f) \in RowType
  BY <1>0, RowJoinsNothing, GappedJoins DEF RowJoins
<1> DEFINE b == Gapped(n.day, f)
           c == [n.sku[s] EXCEPT !.from = @ \cup {id}]
           d == Gapped(c, f)
<1>2. b \in RowType
  BY <1>0, <1>1
<1>3. c \in RowType
  BY <1>1, RowsAreTyped
<1>4. d \in RowType
  BY <1>0, <1>3
<1>5. MarkGap(n, f, s, id) = [n EXCEPT !.day = b, !.sku[s] = d]
  BY <1>1, <1>3 DEF MarkGap, LedgerType, Touch
<1>6. SkuGap(n.sku[s], f, id) = d
  BY DEF SkuGap
<1> HIDE DEF b, c, d
<1> QED BY <1>2, <1>4, <1>5, <1>6, DoesSku DEF b

(* A missing detail in a ledger and in one that it joins.                     *)
LEMMA MarkGapMerges ==
  ASSUME NEW n, NEW e, NEW m, Merges(n, e, m),
         NEW f \in Fields, NEW s \in Skus \cup {NoSku}, NEW id \in Ids
  PROVE  Merges(n, MarkGap(e, f, s, id), MarkGap(m, f, s, id))
<1>1. n \in LedgerType /\ e \in LedgerType /\ m \in LedgerType
  BY DEF Merges, Joins
<1>2. RowJoins(n.day, Gapped(e.day, f), Gapped(m.day, f), TRUE, TRUE)
  BY GappedJoins DEF Merges, Joins
<1>3. "cogs" \in m.day.uncertain => "cogs" \in Gapped(m.day, f).uncertain
  BY <1>1 DEF Gapped, Unclassified, RowType, LedgerType
<1>4. CASE s \in Skus
  <2>1. /\ Does(e, MarkGap(e, f, s, id), s, Gapped(e.day, f), SkuGap(e.sku[s], f, id), Of(s))
        /\ Does(m, MarkGap(m, f, s, id), s, Gapped(m.day, f), SkuGap(m.sku[s], f, id), Of(s))
    BY <1>1, <1>4, MarkGapDoes
  <2>2. ASSUME NEW c, NEW u, RowJoins(n.sku[s], e.sku[s], m.sku[s], c, u)
        PROVE  RowJoins(n.sku[s], SkuGap(e.sku[s], f, id), SkuGap(m.sku[s], f, id), c, u)
    <3> DEFINE d == [e.sku[s] EXCEPT !.from = @ \cup {id}]
               k == [m.sku[s] EXCEPT !.from = @ \cup {id}]
    <3>1. RowJoins(n.sku[s], d, k, c, u)
      BY <2>2, RowMarks
    <3> HIDE DEF d, k
    <3>2. RowJoins(n.sku[s], Gapped(d, f), Gapped(k, f), c, u)
      BY <3>1, GappedJoins
    <3> QED BY <3>2 DEF SkuGap, d, k
  <2> QED BY <1>2, <1>3, <2>1, <2>2, SameOperation, OfIs
<1>5. CASE s = NoSku
  <2>1. ASSUME NEW x \in LedgerType
        PROVE  /\ DoesToDay(x, MarkGap(x, f, s, id), Gapped(x.day, f), Shared)
               /\ \A t \in Skus : MarkGap(x, f, s, id).sku[t] \in {x.sku[t], Unclassified(x.sku[t])}
    <3> DEFINE S == [t \in Skus |-> IF t \in Named(x) THEN Unclassified(x.sku[t]) ELSE x.sku[t]]
               b == Gapped(x.day, f)
    <3>1. b \in RowType
      BY <2>1, RowJoinsNothing, GappedJoins DEF RowJoins, LedgerType
    <3>2. S \in [Skus -> RowType]
      <4>1. x.sku \in [Skus -> RowType]
        BY <2>1 DEF LedgerType
      <4>2. \A r \in RowType : Unclassified(r) \in RowType
        BY DEF Unclassified, RowType
      <4> QED BY <4>1, <4>2
    <3>3. MarkGap(x, f, s, id) = [x EXCEPT !.day = b, !.sku = S, !.allocated = FALSE]
      BY <1>5, <2>1 DEF MarkGap, LedgerType
    <3>4. \A t \in Skus : S[t] \in {x.sku[t], Unclassified(x.sku[t])}
      OBVIOUS
    <3> HIDE DEF S, b
    <3>5. DoesToDay(x, MarkGap(x, f, s, id), b, Shared)
      BY <2>1, <3>1, <3>2, <3>3, RowsShared
    <3>6. MarkGap(x, f, s, id).sku = S
      BY <2>1, <3>3 DEF LedgerType
    <3> QED BY <3>4, <3>5, <3>6 DEF b
  <2> DEFINE e2 == MarkGap(e, f, s, id)
             m2 == MarkGap(m, f, s, id)
  <2>2. /\ DoesToDay(e, e2, Gapped(e.day, f), Shared) /\ DoesToDay(m, m2, Gapped(m.day, f), Shared)
        /\ \A t \in Skus : e2.sku[t] \in {e.sku[t], Unclassified(e.sku[t])}
                             /\ m2.sku[t] \in {m.sku[t], Unclassified(m.sku[t])}
    BY <1>1, <2>1
  <2> HIDE DEF e2, m2
  <2>3. ~m2.allocated /\ (Lost(m) => Lost(m2))
    BY <1>3, <2>2, NoUnitsIs DEF DoesToDay, Lost
  <2>4. ASSUME NEW t \in Skus PROVE RowJoins(n.sku[t], e2.sku[t], m2.sku[t], m2.allocated, ~Lost(m2))
    <3>1. RowJoins(n.sku[t], e.sku[t], m.sku[t], m.allocated, ~Lost(m))
      BY DEF Merges, Joins
    <3>2. RowJoins(n.sku[t], e2.sku[t], m2.sku[t], FALSE, ~Lost(m))
      BY <2>2, <3>1, UnclassifiedJoins
    <3> QED BY <2>3, <3>2, RowJoinsLess
  <2> QED BY <1>2, <2>2, <2>4, DoneToAll, NoUnitsIs DEF e2, m2
<1> QED BY <1>4, <1>5

(* _mark_units_unknown                                                        *)
SkuWithoutUnits(r, id) == WithoutUnits([r EXCEPT !.from = @ \cup {id}])

(* What units that cannot be told do, of a SKU and of none.                   *)
LEMMA MarkUnitsUnknownDoes ==
  ASSUME NEW n \in LedgerType, NEW s \in Skus \cup {NoSku}, NEW id \in Ids
  PROVE  /\ DoesToDay(n, MarkUnitsUnknown(n, s, id), WithoutUnits(n.day), NoUnits)
         /\ s \in Skus => \A t \in Skus : MarkUnitsUnknown(n, s, id).sku[t]
                            = IF t = s THEN SkuWithoutUnits(n.sku[s], id) ELSE n.sku[t]
         /\ s = NoSku => \A t \in Skus : MarkUnitsUnknown(n, s, id).sku[t] \in {n.sku[t], WithoutUnits(n.sku[t])}
<1>1. n.day \in RowType /\ n.sku \in [Skus -> RowType] /\ NoSku \notin Skus
  BY AccrualAssumption DEF LedgerType
<1> DEFINE b == WithoutUnits(n.day)
           S == [t \in Skus |-> IF t \in Named(n) THEN WithoutUnits(n.sku[t]) ELSE n.sku[t]]
           c == [n.sku[s] EXCEPT !.from = @ \cup {id}]
           d == WithoutUnits(c)
           T == [n.sku EXCEPT ![s] = d]
<1>2. b \in RowType
  BY <1>1, RowsAreTyped
<1>3. CASE s = NoSku
  <2>1. S \in [Skus -> RowType]
    BY <1>1, RowsAreTyped
  <2>2. MarkUnitsUnknown(n, s, id) = [n EXCEPT !.day = b, !.sku = S, !.skuUnitsKnown = FALSE]
    BY <1>3 DEF MarkUnitsUnknown, LedgerType
  <2>3. \A t \in Skus : S[t] \in {n.sku[t], WithoutUnits(n.sku[t])}
    OBVIOUS
  <2> HIDE DEF S, b
  <2>4. DoesToDay(n, MarkUnitsUnknown(n, s, id), b, NoUnits)
    BY <1>2, <2>1, <2>2, RowsNoUnits
  <2>9. MarkUnitsUnknown(n, s, id).sku = S
    BY <2>2 DEF LedgerType
  <2> QED BY <1>1, <1>3, <2>3, <2>4, <2>9 DEF b
<1>4. CASE s \in Skus
  <2>1. c \in RowType
    BY <1>1, <1>4, RowsAreTyped
  <2>2. d \in RowType
    BY <2>1, RowsAreTyped
  <2>3. T \in [Skus -> RowType] /\ \A t \in Skus : T[t] = IF t = s THEN d ELSE n.sku[t]
    BY <1>1, <2>2
  <2>4. MarkUnitsUnknown(n, s, id) = [n EXCEPT !.day = b, !.sku = T, !.skuUnitsKnown = FALSE]
    BY <1>1, <1>4, <2>1 DEF MarkUnitsUnknown, LedgerType, Touch
  <2>5. SkuWithoutUnits(n.sku[s], id) = d
    BY DEF SkuWithoutUnits
  <2> HIDE DEF T, b, c, d
  <2>6. DoesToDay(n, MarkUnitsUnknown(n, s, id), b, NoUnits)
    BY <1>2, <2>3, <2>4, RowsNoUnits
  <2>9. MarkUnitsUnknown(n, s, id).sku = T
    BY <2>4 DEF LedgerType
  <2> QED BY <1>1, <1>4, <2>3, <2>5, <2>6, <2>9 DEF b
<1> QED BY <1>3, <1>4

(* Units that cannot be told, in a ledger and in one that it joins: those of  *)
(* nobody known are told of nobody.                                           *)
LEMMA MarkUnitsUnknownMerges ==
  ASSUME NEW n, NEW e, NEW m, Merges(n, e, m), NEW s \in Skus \cup {NoSku}, NEW id \in Ids,
         s = NoSku => e.unknownSku \/ "cogs" \in e.day.uncertain
  PROVE  Merges(n, MarkUnitsUnknown(e, s, id), MarkUnitsUnknown(m, s, id))
<1>1. n \in LedgerType /\ e \in LedgerType /\ m \in LedgerType /\ NoSku \notin Skus
  BY AccrualAssumption DEF Merges, Joins
<1> DEFINE e2 == MarkUnitsUnknown(e, s, id)
           m2 == MarkUnitsUnknown(m, s, id)
<1>2. DoesToDay(e, e2, WithoutUnits(e.day), NoUnits) /\ DoesToDay(m, m2, WithoutUnits(m.day), NoUnits)
  BY <1>1, MarkUnitsUnknownDoes
<1>3. RowJoins(n.day, WithoutUnits(e.day), WithoutUnits(m.day), TRUE, TRUE)
  BY RowUnits DEF Merges, Joins
<1>4. m.day \in RowType /\ WithoutUnits(m.day).uncertain = m.day.uncertain
  BY <1>1 DEF WithoutUnits, RowType, LedgerType
<1>5. s = NoSku => m.unknownSku \/ "cogs" \in m.day.uncertain
  BY DEF Merges, Joins, MarksAdd, RowJoins, RowAdds
<1>6. ASSUME NEW t \in Skus PROVE RowJoins(n.sku[t], e.sku[t], m.sku[t], m.allocated, ~Lost(m))
  BY DEF Merges, Joins
<1>7. s = NoSku => \A t \in Skus : e2.sku[t] \in {e.sku[t], WithoutUnits(e.sku[t])}
                                    /\ m2.sku[t] \in {m.sku[t], WithoutUnits(m.sku[t])}
  BY <1>1, MarkUnitsUnknownDoes
<1>8. s \in Skus => \A t \in Skus :
        /\ e2.sku[t] = IF t = s THEN SkuWithoutUnits(e.sku[s], id) ELSE e.sku[t]
        /\ m2.sku[t] = IF t = s THEN SkuWithoutUnits(m.sku[s], id) ELSE m.sku[t]
  BY <1>1, MarkUnitsUnknownDoes
<1>9. ASSUME s \in Skus, NEW c, NEW u, RowJoins(n.sku[s], e.sku[s], m.sku[s], c, u)
      PROVE  RowJoins(n.sku[s], SkuWithoutUnits(e.sku[s], id), SkuWithoutUnits(m.sku[s], id), c, u)
  <2> DEFINE d == [e.sku[s] EXCEPT !.from = @ \cup {id}]
             k == [m.sku[s] EXCEPT !.from = @ \cup {id}]
  <2>1. RowJoins(n.sku[s], d, k, c, u)
    BY <1>9, RowMarks
  <2> HIDE DEF d, k
  <2>2. RowJoins(n.sku[s], WithoutUnits(d), WithoutUnits(k), c, u)
    BY <2>1, RowUnits
  <2> QED BY <2>2 DEF SkuWithoutUnits, d, k
<1> HIDE DEF e2, m2
<1>10. (m2.allocated => m.allocated) /\ (Lost(m) => Lost(m2)) /\ (s = NoSku => Lost(m2))
  BY <1>2, <1>4, <1>5, NoUnitsIs DEF DoesToDay, Lost
<1>11. ASSUME NEW t \in Skus PROVE RowJoins(n.sku[t], e2.sku[t], m2.sku[t], m2.allocated, ~Lost(m2))
  <2>1. CASE s = NoSku
    <3>1. RowJoins(n.sku[t], e2.sku[t], m2.sku[t], m.allocated, FALSE)
      BY <1>6, <1>7, <2>1, WithoutUnitsJoins
    <3> QED BY <1>10, <2>1, <3>1, RowJoinsLess
  <2>2. CASE s \in Skus
    <3>1. RowJoins(n.sku[t], e2.sku[t], m2.sku[t], m.allocated, ~Lost(m))
      BY <1>6, <1>8, <1>9, <2>2
    <3> QED BY <1>10, <3>1, RowJoinsLess
  <2> QED BY <2>1, <2>2
<1> QED BY <1>2, <1>3, <1>11, DoneToAll, NoUnitsIs DEF e2, m2

(* Only marks of two ledgers change, to what they hold together.              *)
LEMMA OnlyMarks ==
  ASSUME NEW n, NEW e, NEW m, Merges(n, e, m), NEW e2 \in LedgerType, NEW m2 \in LedgerType,
         e2.day = e.day, m2.day = m.day, e2.sku = e.sku, m2.sku = m.sku,
         e2.net = e.net, m2.net = m.net, e2.mismatch = e.mismatch, m2.mismatch = m.mismatch,
         e2.reconciled = e.reconciled, m2.reconciled = m.reconciled,
         MarksAdd(n, e2, m2), RawAdds(n, e2, m2), m2.allocated => m.allocated, Lost(m) => Lost(m2)
  PROVE  Merges(n, e2, m2)
<1>1. ASSUME NEW s \in Skus PROVE RowJoins(n.sku[s], e2.sku[s], m2.sku[s], m2.allocated, ~Lost(m2))
  <2>1. RowJoins(n.sku[s], e.sku[s], m.sku[s], m.allocated, ~Lost(m))
    BY DEF Merges, Joins
  <2> QED BY <2>1, RowJoinsLess
<1>2. n \in LedgerType /\ RowJoins(n.day, e2.day, m2.day, TRUE, TRUE)
      /\ m2.net = n.net + e2.net /\ m2.mismatch = Both(n.mismatch, e2.mismatch)
      /\ m2.reconciled = n.reconciled \cup e2.reconciled
  BY DEF Merges, Joins
<1> QED BY <1>1, <1>2 DEF Merges, Joins

(* Only the row of the day changes.                                           *)
LEMMA DayAlone ==
  ASSUME NEW n, NEW e, NEW m, Merges(n, e, m), NEW D, NEW D2, RowJoins(n.day, D, D2, TRUE, TRUE),
         "cogs" \in m.day.uncertain => "cogs" \in D2.uncertain,
         NEW e2, e2 = [e EXCEPT !.day = D], NEW m2, m2 = [m EXCEPT !.day = D2]
  PROVE  Merges(n, e2, m2)
<1>1. e \in LedgerType /\ m \in LedgerType /\ D \in RowType /\ D2 \in RowType
  BY DEF Merges, Joins, RowJoins
<1>2. /\ e2 \in LedgerType /\ e2.day = D /\ e2.sku = e.sku /\ (e2.allocated = e.allocated)
      /\ (e2.skuUnitsKnown = e.skuUnitsKnown)
      /\ (e2.unknownSku = e.unknownSku) /\ (e2.sale = e.sale) /\ e2.net = e.net /\ e2.mismatch = e.mismatch
      /\ e2.reconciled = e.reconciled /\ e2.raw = e.raw /\ (e2.complete = e.complete)
  BY <1>1 DEF LedgerType
<1>3. /\ m2 \in LedgerType /\ m2.day = D2 /\ m2.sku = m.sku /\ (m2.allocated = m.allocated)
      /\ (m2.skuUnitsKnown = m.skuUnitsKnown)
      /\ (m2.unknownSku = m.unknownSku) /\ (m2.sale = m.sale) /\ m2.net = m.net /\ m2.mismatch = m.mismatch
      /\ m2.reconciled = m.reconciled /\ m2.raw = m.raw /\ (m2.complete = m.complete)
  BY <1>1 DEF LedgerType
<1>4. Lost(m) => Lost(m2)
  BY <1>3 DEF Lost
<1>5. ASSUME NEW s \in Skus PROVE RowJoins(n.sku[s], e2.sku[s], m2.sku[s], m2.allocated, ~Lost(m2))
  <2>1. RowJoins(n.sku[s], e.sku[s], m.sku[s], m.allocated, ~Lost(m))
    BY DEF Merges, Joins
  <2>2. (m2.allocated => m.allocated) /\ (~Lost(m2) => ~Lost(m))
    BY <1>3, <1>4
  <2>3. e2.sku[s] = e.sku[s] /\ m2.sku[s] = m.sku[s]
    BY <1>2, <1>3
  <2> QED BY <2>1, <2>2, <2>3, RowJoinsLess
<1>6. MarksAdd(n, e2, m2) /\ RawAdds(n, e2, m2)
  BY <1>2, <1>3 DEF Merges, Joins, MarksAdd, RawAdds
<1>7. n \in LedgerType /\ RowJoins(n.day, e2.day, m2.day, TRUE, TRUE)
      /\ m2.net = n.net + e2.net /\ m2.mismatch = Both(n.mismatch, e2.mismatch)
      /\ m2.reconciled = n.reconciled \cup e2.reconciled
  BY <1>2, <1>3 DEF Merges, Joins
<1> QED BY <1>2, <1>3, <1>5, <1>6, <1>7 DEF Merges, Joins

(* Only the row of one SKU changes.                                           *)
LEMMA SkuAlone ==
  ASSUME NEW n, NEW e, NEW m, Merges(n, e, m), NEW s \in Skus, NEW R, NEW R2,
         \A c, u : RowJoins(n.sku[s], e.sku[s], m.sku[s], c, u) => RowJoins(n.sku[s], R, R2, c, u),
         NEW e2, e2 = [e EXCEPT !.sku[s] = R], NEW m2, m2 = [m EXCEPT !.sku[s] = R2]
  PROVE  Merges(n, e2, m2)
<1>0. RowJoins(n.sku[s], e.sku[s], m.sku[s], m.allocated, ~Lost(m)) /\ e \in LedgerType /\ m \in LedgerType
  BY DEF Merges, Joins
<1>1. RowJoins(n.sku[s], R, R2, m.allocated, ~Lost(m)) /\ R \in RowType /\ R2 \in RowType
  BY <1>0 DEF RowJoins
<1>2. /\ e2 \in LedgerType /\ e2.day = e.day /\ e2.sku = [e.sku EXCEPT ![s] = R] /\ (e2.allocated = e.allocated)
      /\ (e2.skuUnitsKnown = e.skuUnitsKnown)
      /\ (e2.unknownSku = e.unknownSku) /\ (e2.sale = e.sale) /\ e2.net = e.net /\ e2.mismatch = e.mismatch
      /\ e2.reconciled = e.reconciled /\ e2.raw = e.raw /\ (e2.complete = e.complete)
  BY <1>0, <1>1 DEF LedgerType
<1>3. /\ m2 \in LedgerType /\ m2.day = m.day /\ m2.sku = [m.sku EXCEPT ![s] = R2] /\ (m2.allocated = m.allocated)
      /\ (m2.skuUnitsKnown = m.skuUnitsKnown)
      /\ (m2.unknownSku = m.unknownSku) /\ (m2.sale = m.sale) /\ m2.net = m.net /\ m2.mismatch = m.mismatch
      /\ m2.reconciled = m.reconciled /\ m2.raw = m.raw /\ (m2.complete = m.complete)
  BY <1>0, <1>1 DEF LedgerType
<1>4. Lost(m) <=> Lost(m2)
  BY <1>3 DEF Lost
<1>5. ASSUME NEW t \in Skus PROVE RowJoins(n.sku[t], e2.sku[t], m2.sku[t], m2.allocated, ~Lost(m2))
  <2>1. RowJoins(n.sku[t], e.sku[t], m.sku[t], m.allocated, ~Lost(m))
    BY DEF Merges, Joins
  <2>2. RowJoins(n.sku[t], e2.sku[t], m2.sku[t], m.allocated, ~Lost(m))
    <3>1. e.sku \in [Skus -> RowType] /\ m.sku \in [Skus -> RowType]
      BY <1>0 DEF LedgerType
    <3>2. t # s => e2.sku[t] = e.sku[t] /\ m2.sku[t] = m.sku[t]
      BY <1>2, <1>3, <3>1
    <3>3. t = s => e2.sku[t] = R /\ m2.sku[t] = R2
      BY <1>2, <1>3, <3>1
    <3> QED BY <1>1, <2>1, <3>2, <3>3
  <2> QED BY <1>3, <1>4, <2>2, RowJoinsLess
<1>6. MarksAdd(n, e2, m2) /\ RawAdds(n, e2, m2)
  BY <1>2, <1>3 DEF Merges, Joins, MarksAdd, RawAdds
<1>7. n \in LedgerType /\ RowJoins(n.day, e2.day, m2.day, TRUE, TRUE)
      /\ m2.net = n.net + e2.net /\ m2.mismatch = Both(n.mismatch, e2.mismatch)
      /\ m2.reconciled = n.reconciled \cup e2.reconciled
  BY <1>2, <1>3 DEF Merges, Joins
<1> QED BY <1>2, <1>3, <1>5, <1>6, <1>7 DEF Merges, Joins

(* _product                                                                   *)
LEMMA TouchMerges ==
  ASSUME NEW n, NEW e, NEW m, Merges(n, e, m), NEW s \in Skus \cup {NoSku}, NEW id \in Ids
  PROVE  Merges(n, Touch(e, s, id), Touch(m, s, id))
<1>0. e \in LedgerType /\ m \in LedgerType
  BY DEF Merges, Joins
<1>1. CASE s = NoSku
  BY <1>1 DEF Touch
<1>2. CASE s \in Skus
  <2> DEFINE R == [e.sku[s] EXCEPT !.from = @ \cup {id}]
             R2 == [m.sku[s] EXCEPT !.from = @ \cup {id}]
  <2>1. \A c, u : RowJoins(n.sku[s], e.sku[s], m.sku[s], c, u) => RowJoins(n.sku[s], R, R2, c, u)
    BY RowMarks
  <2>2. Touch(e, s, id) = [e EXCEPT !.sku[s] = R] /\ Touch(m, s, id) = [m EXCEPT !.sku[s] = R2]
    BY <1>0, <1>2, AccrualAssumption DEF Touch, LedgerType
  <2> HIDE DEF R, R2
  <2> QED BY <1>2, <2>1, <2>2, SkuAlone
<1> QED BY <1>1, <1>2

(* An accrual that cannot be read.                                            *)
LEMMA IncompleteMerges ==
  ASSUME NEW n, NEW e, NEW m, Merges(n, e, m),
         NEW e2, e2 = Incomplete(e), NEW m2, m2 = Incomplete(m)
  PROVE  Merges(n, e2, m2)
<1>1. e \in LedgerType /\ m \in LedgerType
  BY DEF Merges, Joins
<1>2. /\ e2 \in LedgerType /\ e2.day = e.day /\ e2.sku = e.sku /\ e2.net = e.net
      /\ e2.mismatch = e.mismatch /\ e2.reconciled = e.reconciled
      /\ (e2.allocated = e.allocated) /\ (e2.skuUnitsKnown = e.skuUnitsKnown) /\ (e2.unknownSku = e.unknownSku) /\ (e2.sale = e.sale) /\ (e2.raw = e.raw) /\ (e2.complete = FALSE)
  BY <1>1 DEF LedgerType, Incomplete
<1>3. /\ m2 \in LedgerType /\ m2.day = m.day /\ m2.sku = m.sku /\ m2.net = m.net
      /\ m2.mismatch = m.mismatch /\ m2.reconciled = m.reconciled
      /\ (m2.allocated = m.allocated) /\ (m2.skuUnitsKnown = m.skuUnitsKnown) /\ (m2.unknownSku = m.unknownSku) /\ (m2.sale = m.sale) /\ (m2.raw = m.raw) /\ (m2.complete = FALSE)
  BY <1>1 DEF LedgerType, Incomplete
<1>4. (Lost(m) => Lost(m2)) /\ (m2.allocated => m.allocated)
  BY <1>3 DEF Lost
<1>5. MarksAdd(n, e2, m2)
  BY <1>2, <1>3 DEF Merges, Joins, MarksAdd
<1>6. RawAdds(n, e2, m2)
  <2>1. n.raw \in Int /\ e.raw \in Int /\ m.raw \in Int /\ RawAdds(n, e, m)
    BY <1>1 DEF Merges, Joins, LedgerType
  <2> QED BY <1>2, <1>3, <2>1 DEF RawAdds
<1> QED BY <1>2, <1>3, <1>4, <1>5, <1>6, OnlyMarks

(* A line without a SKU.                                                      *)
LEMMA UnknownSkuMerges ==
  ASSUME NEW n, NEW e, NEW m, Merges(n, e, m),
         NEW e2, e2 = [e EXCEPT !.unknownSku = TRUE], NEW m2, m2 = [m EXCEPT !.unknownSku = TRUE]
  PROVE  Merges(n, e2, m2)
<1>1. e \in LedgerType /\ m \in LedgerType
  BY DEF Merges, Joins
<1>2. /\ e2 \in LedgerType /\ e2.day = e.day /\ e2.sku = e.sku /\ e2.net = e.net
      /\ e2.mismatch = e.mismatch /\ e2.reconciled = e.reconciled
      /\ (e2.allocated = e.allocated) /\ (e2.skuUnitsKnown = e.skuUnitsKnown) /\ (e2.unknownSku = TRUE) /\ (e2.sale = e.sale) /\ (e2.raw = e.raw) /\ (e2.complete = e.complete)
  BY <1>1 DEF LedgerType
<1>3. /\ m2 \in LedgerType /\ m2.day = m.day /\ m2.sku = m.sku /\ m2.net = m.net
      /\ m2.mismatch = m.mismatch /\ m2.reconciled = m.reconciled
      /\ (m2.allocated = m.allocated) /\ (m2.skuUnitsKnown = m.skuUnitsKnown) /\ (m2.unknownSku = TRUE) /\ (m2.sale = m.sale) /\ (m2.raw = m.raw) /\ (m2.complete = m.complete)
  BY <1>1 DEF LedgerType
<1>4. (Lost(m) => Lost(m2)) /\ (m2.allocated => m.allocated)
  BY <1>3 DEF Lost
<1>5. MarksAdd(n, e2, m2)
  BY <1>2, <1>3 DEF Merges, Joins, MarksAdd
<1>6. RawAdds(n, e2, m2)
  <2>1. n.raw \in Int /\ e.raw \in Int /\ m.raw \in Int /\ RawAdds(n, e, m)
    BY <1>1 DEF Merges, Joins, LedgerType
  <2> QED BY <1>2, <1>3, <2>1 DEF RawAdds
<1> QED BY <1>2, <1>3, <1>4, <1>5, <1>6, OnlyMarks

(* A sale that is known.                                                      *)
LEMMA SaleMerges ==
  ASSUME NEW n, NEW e, NEW m, Merges(n, e, m),
         NEW e2, e2 = [e EXCEPT !.sale = TRUE], NEW m2, m2 = [m EXCEPT !.sale = TRUE]
  PROVE  Merges(n, e2, m2)
<1>1. e \in LedgerType /\ m \in LedgerType
  BY DEF Merges, Joins
<1>2. /\ e2 \in LedgerType /\ e2.day = e.day /\ e2.sku = e.sku /\ e2.net = e.net
      /\ e2.mismatch = e.mismatch /\ e2.reconciled = e.reconciled
      /\ (e2.allocated = e.allocated) /\ (e2.skuUnitsKnown = e.skuUnitsKnown) /\ (e2.unknownSku = e.unknownSku) /\ (e2.sale = TRUE) /\ (e2.raw = e.raw) /\ (e2.complete = e.complete)
  BY <1>1 DEF LedgerType
<1>3. /\ m2 \in LedgerType /\ m2.day = m.day /\ m2.sku = m.sku /\ m2.net = m.net
      /\ m2.mismatch = m.mismatch /\ m2.reconciled = m.reconciled
      /\ (m2.allocated = m.allocated) /\ (m2.skuUnitsKnown = m.skuUnitsKnown) /\ (m2.unknownSku = m.unknownSku) /\ (m2.sale = TRUE) /\ (m2.raw = m.raw) /\ (m2.complete = m.complete)
  BY <1>1 DEF LedgerType
<1>4. (Lost(m) => Lost(m2)) /\ (m2.allocated => m.allocated)
  BY <1>3 DEF Lost
<1>5. MarksAdd(n, e2, m2)
  BY <1>2, <1>3 DEF Merges, Joins, MarksAdd
<1>6. RawAdds(n, e2, m2)
  <2>1. n.raw \in Int /\ e.raw \in Int /\ m.raw \in Int /\ RawAdds(n, e, m)
    BY <1>1 DEF Merges, Joins, LedgerType
  <2> QED BY <1>2, <1>3, <2>1 DEF RawAdds
<1> QED BY <1>2, <1>3, <1>4, <1>5, <1>6, OnlyMarks

(* Units of no SKU.                                                           *)
LEMMA NoSkuUnitsMerges ==
  ASSUME NEW n, NEW e, NEW m, Merges(n, e, m),
         NEW e2, e2 = [e EXCEPT !.skuUnitsKnown = FALSE, !.allocated = FALSE], NEW m2, m2 = [m EXCEPT !.skuUnitsKnown = FALSE, !.allocated = FALSE]
  PROVE  Merges(n, e2, m2)
<1>1. e \in LedgerType /\ m \in LedgerType
  BY DEF Merges, Joins
<1>2. /\ e2 \in LedgerType /\ e2.day = e.day /\ e2.sku = e.sku /\ e2.net = e.net
      /\ e2.mismatch = e.mismatch /\ e2.reconciled = e.reconciled
      /\ (e2.allocated = FALSE) /\ (e2.skuUnitsKnown = FALSE) /\ (e2.unknownSku = e.unknownSku) /\ (e2.sale = e.sale) /\ (e2.raw = e.raw) /\ (e2.complete = e.complete)
  BY <1>1 DEF LedgerType
<1>3. /\ m2 \in LedgerType /\ m2.day = m.day /\ m2.sku = m.sku /\ m2.net = m.net
      /\ m2.mismatch = m.mismatch /\ m2.reconciled = m.reconciled
      /\ (m2.allocated = FALSE) /\ (m2.skuUnitsKnown = FALSE) /\ (m2.unknownSku = m.unknownSku) /\ (m2.sale = m.sale) /\ (m2.raw = m.raw) /\ (m2.complete = m.complete)
  BY <1>1 DEF LedgerType
<1>4. (Lost(m) => Lost(m2)) /\ (m2.allocated => m.allocated)
  BY <1>3 DEF Lost
<1>5. MarksAdd(n, e2, m2)
  BY <1>2, <1>3 DEF Merges, Joins, MarksAdd
<1>6. RawAdds(n, e2, m2)
  <2>1. n.raw \in Int /\ e.raw \in Int /\ m.raw \in Int /\ RawAdds(n, e, m)
    BY <1>1 DEF Merges, Joins, LedgerType
  <2> QED BY <1>2, <1>3, <2>1 DEF RawAdds
<1> QED BY <1>2, <1>3, <1>4, <1>5, <1>6, OnlyMarks

(* What belongs to no SKU.                                                    *)
LEMMA NotAllocatedMerges ==
  ASSUME NEW n, NEW e, NEW m, Merges(n, e, m),
         NEW e2, e2 = [e EXCEPT !.allocated = FALSE], NEW m2, m2 = [m EXCEPT !.allocated = FALSE]
  PROVE  Merges(n, e2, m2)
<1>1. e \in LedgerType /\ m \in LedgerType
  BY DEF Merges, Joins
<1>2. /\ e2 \in LedgerType /\ e2.day = e.day /\ e2.sku = e.sku /\ e2.net = e.net
      /\ e2.mismatch = e.mismatch /\ e2.reconciled = e.reconciled
      /\ (e2.allocated = FALSE) /\ (e2.skuUnitsKnown = e.skuUnitsKnown) /\ (e2.unknownSku = e.unknownSku) /\ (e2.sale = e.sale) /\ (e2.raw = e.raw) /\ (e2.complete = e.complete)
  BY <1>1 DEF LedgerType
<1>3. /\ m2 \in LedgerType /\ m2.day = m.day /\ m2.sku = m.sku /\ m2.net = m.net
      /\ m2.mismatch = m.mismatch /\ m2.reconciled = m.reconciled
      /\ (m2.allocated = FALSE) /\ (m2.skuUnitsKnown = m.skuUnitsKnown) /\ (m2.unknownSku = m.unknownSku) /\ (m2.sale = m.sale) /\ (m2.raw = m.raw) /\ (m2.complete = m.complete)
  BY <1>1 DEF LedgerType
<1>4. (Lost(m) => Lost(m2)) /\ (m2.allocated => m.allocated)
  BY <1>3 DEF Lost
<1>5. MarksAdd(n, e2, m2)
  BY <1>2, <1>3 DEF Merges, Joins, MarksAdd
<1>6. RawAdds(n, e2, m2)
  <2>1. n.raw \in Int /\ e.raw \in Int /\ m.raw \in Int /\ RawAdds(n, e, m)
    BY <1>1 DEF Merges, Joins, LedgerType
  <2> QED BY <1>2, <1>3, <2>1 DEF RawAdds
<1> QED BY <1>2, <1>3, <1>4, <1>5, <1>6, OnlyMarks

(* An amount that is counted.                                                 *)
LEMMA CountedMerges ==
  ASSUME NEW n, NEW e, NEW m, Merges(n, e, m), NEW a \in Int,
         NEW e2, e2 = Counted(e, a), NEW m2, m2 = Counted(m, a)
  PROVE  Merges(n, e2, m2)
<1>1. e \in LedgerType /\ m \in LedgerType
  BY DEF Merges, Joins
<1>2. /\ e2 \in LedgerType /\ e2.day = e.day /\ e2.sku = e.sku /\ e2.net = e.net
      /\ e2.mismatch = e.mismatch /\ e2.reconciled = e.reconciled
      /\ (e2.allocated = e.allocated) /\ (e2.skuUnitsKnown = e.skuUnitsKnown) /\ (e2.unknownSku = e.unknownSku) /\ (e2.sale = e.sale) /\ (e2.raw = e.raw + a) /\ (e2.complete = e.complete)
  BY <1>1 DEF LedgerType, Counted
<1>3. /\ m2 \in LedgerType /\ m2.day = m.day /\ m2.sku = m.sku /\ m2.net = m.net
      /\ m2.mismatch = m.mismatch /\ m2.reconciled = m.reconciled
      /\ (m2.allocated = m.allocated) /\ (m2.skuUnitsKnown = m.skuUnitsKnown) /\ (m2.unknownSku = m.unknownSku) /\ (m2.sale = m.sale) /\ (m2.raw = m.raw + a) /\ (m2.complete = m.complete)
  BY <1>1 DEF LedgerType, Counted
<1>4. (Lost(m) => Lost(m2)) /\ (m2.allocated => m.allocated)
  BY <1>3 DEF Lost
<1>5. MarksAdd(n, e2, m2)
  BY <1>2, <1>3 DEF Merges, Joins, MarksAdd
<1>6. RawAdds(n, e2, m2)
  <2>1. n.raw \in Int /\ e.raw \in Int /\ m.raw \in Int /\ RawAdds(n, e, m)
    BY <1>1 DEF Merges, Joins, LedgerType
  <2> QED BY <1>2, <1>3, <2>1 DEF RawAdds
<1> QED BY <1>2, <1>3, <1>4, <1>5, <1>6, OnlyMarks

(* _mark_return                                                               *)
LEMMA MarkReturnMerges ==
  ASSUME NEW n, NEW e, NEW m, Merges(n, e, m), NEW s \in Skus \cup {NoSku}, NEW id \in Ids
  PROVE  Merges(n, MarkReturn(e, s, id), MarkReturn(m, s, id))
<1>1. e \in LedgerType /\ m \in LedgerType /\ RowJoins(n.day, e.day, m.day, TRUE, TRUE)
  BY DEF Merges, Joins
<1>2. CASE s = NoSku
  <2> DEFINE D == [e.day EXCEPT !.returns = TRUE]
             D2 == [m.day EXCEPT !.returns = TRUE]
  <2>1. RowJoins(n.day, D, D2, TRUE, TRUE)
    BY <1>1, RowMarks
  <2>2. "cogs" \in m.day.uncertain => "cogs" \in D2.uncertain
    BY <1>1 DEF LedgerType, RowType
  <2>3. MarkReturn(e, s, id) = [e EXCEPT !.day = D] /\ MarkReturn(m, s, id) = [m EXCEPT !.day = D2]
    BY <1>1, <1>2 DEF MarkReturn, LedgerType
  <2> HIDE DEF D, D2
  <2> QED BY <2>1, <2>2, <2>3, DayAlone
<1>3. CASE s \in Skus
  <2> DEFINE e1 == Touch(e, s, id)
             m1 == Touch(m, s, id)
             R == [e1.sku[s] EXCEPT !.returns = TRUE]
             R2 == [m1.sku[s] EXCEPT !.returns = TRUE]
  <2>1. Merges(n, e1, m1)
    BY TouchMerges
  <2>0. s # NoSku
    BY <1>3, AccrualAssumption
  <2> HIDE DEF e1, m1
  <2>2. \A c, u : RowJoins(n.sku[s], e1.sku[s], m1.sku[s], c, u) => RowJoins(n.sku[s], R, R2, c, u)
    BY RowMarks
  <2>3. e1 \in LedgerType /\ m1 \in LedgerType
    BY <2>1 DEF Merges, Joins
  <2>4. MarkReturn(e, s, id) = [e1 EXCEPT !.sku[s] = R] /\ MarkReturn(m, s, id) = [m1 EXCEPT !.sku[s] = R2]
    BY <1>3, <2>0, <2>3 DEF MarkReturn, LedgerType, e1, m1
  <2> HIDE DEF R, R2
  <2>5. ASSUME NEW e2, e2 = [e1 EXCEPT !.sku[s] = R], NEW m2, m2 = [m1 EXCEPT !.sku[s] = R2]
        PROVE  Merges(n, e2, m2)
    BY <1>3, <2>1, <2>2, <2>5, SkuAlone
  <2> QED BY <2>4, <2>5
<1> QED BY <1>2, <1>3

(* A line that nobody can classify.                                           *)
LEMMA UnclearMerges ==
  ASSUME NEW n, NEW e, NEW m, Merges(n, e, m),
         NEW e2, e2 = [e EXCEPT !.day = Unclassified(@)], NEW m2, m2 = [m EXCEPT !.day = Unclassified(@)]
  PROVE  Merges(n, e2, m2)
<1>1. e \in LedgerType /\ m \in LedgerType /\ RowJoins(n.day, e.day, m.day, TRUE, TRUE)
  BY DEF Merges, Joins
<1>2. RowJoins(n.day, Unclassified(e.day), Unclassified(m.day), TRUE, TRUE)
  BY <1>1, RowMarks DEF Unclassified
<1>3. "cogs" \in m.day.uncertain => "cogs" \in Unclassified(m.day).uncertain
  BY <1>1 DEF LedgerType, RowType, Unclassified
<1> QED BY <1>2, <1>3, DayAlone

(* An amount of which nobody knows whose it is.                               *)
LEMMA AsideMerges ==
  ASSUME NEW n, NEW e, NEW m, Merges(n, e, m), NEW a \in Int,
         NEW e2, e2 = [e EXCEPT !.day = Aside(@, a)], NEW m2, m2 = [m EXCEPT !.day = Aside(@, a)]
  PROVE  Merges(n, e2, m2)
<1>1. e \in LedgerType /\ m \in LedgerType /\ RowJoins(n.day, e.day, m.day, TRUE, TRUE)
  BY DEF Merges, Joins
<1>2. RowJoins(n.day, Aside(e.day, a), Aside(m.day, a), TRUE, TRUE)
  BY <1>1, RowMarks DEF Aside
<1>3. "cogs" \in m.day.uncertain => "cogs" \in Aside(m.day, a).uncertain
  BY <1>1 DEF LedgerType, RowType, Aside
<1> QED BY <1>2, <1>3, DayAlone

(* Nor which of a SKU's figures it is.                                        *)
LEMMA SkuAsideMerges ==
  ASSUME NEW n, NEW e, NEW m, Merges(n, e, m), NEW s \in Skus, NEW a \in Int,
         NEW e2, e2 = [e EXCEPT !.sku[s] = Aside(@, a)], NEW m2, m2 = [m EXCEPT !.sku[s] = Aside(@, a)]
  PROVE  Merges(n, e2, m2)
<1>1. \A c, u : RowJoins(n.sku[s], e.sku[s], m.sku[s], c, u)
                  => RowJoins(n.sku[s], Aside(e.sku[s], a), Aside(m.sku[s], a), c, u)
  BY RowMarks DEF Aside
<1> QED BY <1>1, SkuAlone

(* The number of a known amount.                                              *)
LEMMA TheInt == ASSUME NEW a \in Amount, a # Unknown PROVE The(a) \in Int /\ a = {The(a)}
<1>1. PICK x \in Int : a = {x}
  BY AmountIs DEF Unknown
<1> QED BY <1>1, TheIs

(* parse_component                                                            *)
LEMMA ComponentMerges ==
  ASSUME NEW n, NEW e, NEW m, Merges(n, e, m),
         NEW f \in Fields, NEW a \in Amount, NEW s \in Skus \cup {NoSku}, NEW id \in Ids
  PROVE  Merges(n, Component(e, f, a, s, id), Component(m, f, a, s, id))
<1>1. CASE a = Unknown
  <2>1. Merges(n, Incomplete(e), Incomplete(m))
    BY IncompleteMerges
  <2> QED BY <1>1, <2>1, MarkGapMerges DEF Component
<1>2. CASE a # Unknown
  <2>1. The(a) \in Int
    BY <1>2, TheInt
  <2>2. Merges(n, Counted(e, The(a)), Counted(m, The(a)))
    BY <2>1, CountedMerges
  <2> QED BY <1>2, <2>1, <2>2, AddComponentMerges DEF Component
<1> QED BY <1>1, <1>2

(* parse_fee                                                                  *)
LEMMA FeeMerges ==
  ASSUME NEW n, NEW e, NEW m, Merges(n, e, m), NEW line \in FeeLine, NEW id \in Ids
  PROVE  Merges(n, Fee(e, line, id), Fee(m, line, id))
<1>0. /\ line.sku \in Skus \cup {NoSku} /\ line.amount \in Amount
      /\ line.type \in (Fields \ {"revenue"}) \cup {"ambiguous", "unlisted"}
      /\ AnyFee \in SUBSET (Fields \cup {"cogs"}) /\ _POSSIBLE_FEE_FIELDS \in SUBSET (Fields \cup {"cogs"})
      /\ "other_expenses" \in Fields
  BY DEF FeeLine, AnyFee, _POSSIBLE_FEE_FIELDS, Fields, Charges
<1> DEFINE a == The(line.amount)
           M(x) == IF line.returns THEN MarkReturn(x, line.sku, id) ELSE x
           B(x) == Counted(M(x), a)
           C(x) == [B(x) EXCEPT !.day = Unclassified(@)]
<1>1. Merges(n, M(e), M(m))
  BY <1>0, MarkReturnMerges
<1> HIDE DEF M
<1>2. CASE line.amount = Unknown
  <2>1. Merges(n, Incomplete(M(e)), Incomplete(M(m)))
    BY <1>1, IncompleteMerges
  <2> QED BY <1>0, <1>2, <2>1, MarkUnknownMerges DEF Fee, M
<1>3. CASE line.amount # Unknown
  <2>1. a \in Int
    BY <1>0, <1>3, TheInt
  <2>2. Merges(n, B(e), B(m))
    BY <1>1, <2>1, CountedMerges
  <2>4. CASE line.type \in Fields
    BY <1>0, <1>3, <2>1, <2>2, <2>4, AddComponentMerges DEF Fee, M
  <2> HIDE DEF B
  <2>3. Merges(n, C(e), C(m))
    BY <2>2, UnclearMerges
  <2> HIDE DEF C
  <2>5. CASE line.type = "unlisted"
    <3>1. Merges(n, AddComponent(C(e), "other_expenses", a, line.sku, id),
                 AddComponent(C(m), "other_expenses", a, line.sku, id))
      BY <1>0, <2>1, <2>3, AddComponentMerges
    <3>2. \A x : Fee(x, line, id)
                   = MarkUnknown(AddComponent(C(x), "other_expenses", a, line.sku, id), _POSSIBLE_FEE_FIELDS, line.sku, id)
      BY <1>3, <2>5 DEF Fee, M, B, C, Fields, Charges
    <3> HIDE DEF a
    <3> QED BY <1>0, <3>1, <3>2, MarkUnknownMerges
  <2>6. CASE line.type = "ambiguous" /\ line.sku = NoSku
    <3> DEFINE D(x) == [C(x) EXCEPT !.day = Aside(@, a)]
               F(x) == [D(x) EXCEPT !.allocated = FALSE]
    <3>1. Merges(n, D(e), D(m))
      BY <2>1, <2>3, AsideMerges
    <3> HIDE DEF D
    <3>2. Merges(n, F(e), F(m))
      BY <3>1, NotAllocatedMerges
    <3>3. \A x : Fee(x, line, id) = F(x)
      BY <1>3, <2>6 DEF Fee, M, B, C, D, Fields, Charges
    <3> QED BY <3>2, <3>3
  <2>7. CASE line.type = "ambiguous" /\ line.sku # NoSku
    <3> DEFINE T(x) == Touch(C(x), line.sku, id)
               D(x) == [T(x) EXCEPT !.day = Aside(@, a)]
               F(x) == [D(x) EXCEPT !.sku[line.sku] = Aside(@, a)]
    <3>1. Merges(n, T(e), T(m))
      BY <1>0, <2>3, TouchMerges
    <3> HIDE DEF T
    <3>2. Merges(n, D(e), D(m))
      BY <2>1, <3>1, AsideMerges
    <3> HIDE DEF D
    <3>3. Merges(n, F(e), F(m))
      BY <1>0, <2>1, <2>7, <3>2, SkuAsideMerges
    <3>4. \A x : Fee(x, line, id) = F(x)
      BY <1>3, <2>7 DEF Fee, M, B, C, T, D, Fields, Charges
    <3> QED BY <3>3, <3>4
  <2> QED BY <1>0, <2>4, <2>5, <2>6, <2>7
<1> QED BY <1>2, <1>3

--------------------------------------------------------------------------------
(* So do the lines of an accrual, whole accruals, and what they are settled with. *)

(* Units of a row that joins another.                                         *)
LEMMA WithUnitsJoins ==
  ASSUME NEW r, NEW d, NEW k, NEW c, NEW u, RowJoins(r, d, k, c, u), NEW line, The(line.quantity) \in Int
  PROVE  RowJoins(r, WithUnits(d, line), WithUnits(k, line), c, u)
<1> DEFINE q == The(line.quantity)
<1>1. RowJoins(r, [d EXCEPT !.sold = Plus(@, q)], [k EXCEPT !.sold = Plus(@, q)], c, u)
  BY RowUnits
<1>2. RowJoins(r, [d EXCEPT !.returned = Plus(@, q)], [k EXCEPT !.returned = Plus(@, q)], c, u)
  BY RowUnits
<1> QED BY <1>1, <1>2 DEF WithUnits

(* _read_units of a line.                                                     *)
LEMMA UnitsMerges ==
  ASSUME NEW n, NEW e, NEW m, Merges(n, e, m), NEW line \in PostingLine, NEW id \in Ids,
         line.sku = NoSku => e.unknownSku
  PROVE  Merges(n, Units(e, line, id), Units(m, line, id))
<1>0. line.sku \in Skus \cup {NoSku} /\ line.quantity \in Amount /\ e \in LedgerType /\ m \in LedgerType
  BY DEF PostingLine, Merges, Joins
<1> DEFINE S(x) == [x EXCEPT !.sale = TRUE]
           T(x) == Touch(S(x), line.sku, id)
<1>1. Merges(n, S(e), S(m))
  BY SaleMerges
<1>2. line.sku = NoSku => S(e).unknownSku
  BY <1>0 DEF LedgerType
<1> HIDE DEF S
<1>3. Merges(n, T(e), T(m))
  BY <1>0, <1>1, TouchMerges
<1>4. line.sku = NoSku => T(e).unknownSku
  BY <1>2 DEF Touch
<1>5. CASE line.quantity = Unknown
  <2> HIDE DEF T
  <2>1. Merges(n, MarkUnitsUnknown(T(e), line.sku, id), MarkUnitsUnknown(T(m), line.sku, id))
    BY <1>0, <1>3, <1>4, MarkUnitsUnknownMerges
  <2> QED BY <1>5, <2>1 DEF Units, T, S
<1>6. CASE line.quantity # Unknown
  <2> DEFINE B(x) == [T(x) EXCEPT !.day = WithUnits(@, line)]
  <2>1. The(line.quantity) \in Int
    BY <1>0, <1>6, TheInt
  <2> HIDE DEF T
  <2>2. Merges(n, B(e), B(m))
    <3>1. /\ RowJoins(n.day, T(e).day, T(m).day, TRUE, TRUE) /\ T(m) \in LedgerType
      BY <1>3 DEF Merges, Joins
    <3>2. RowJoins(n.day, WithUnits(T(e).day, line), WithUnits(T(m).day, line), TRUE, TRUE)
      BY <2>1, <3>1, WithUnitsJoins
    <3>3. WithUnits(T(m).day, line).uncertain = T(m).day.uncertain
      BY <3>1 DEF LedgerType, RowType, WithUnits
    <3> QED BY <1>3, <3>2, <3>3, DayAlone
  <2> HIDE DEF B
  <2>3. CASE line.sku = NoSku
    <3>1. ASSUME NEW e2, e2 = [B(e) EXCEPT !.skuUnitsKnown = FALSE, !.allocated = FALSE],
                 NEW m2, m2 = [B(m) EXCEPT !.skuUnitsKnown = FALSE, !.allocated = FALSE]
          PROVE  Merges(n, e2, m2)
      BY <2>2, <3>1, NoSkuUnitsMerges
    <3> QED BY <1>6, <2>3, <3>1 DEF Units, B, T, S
  <2>4. CASE line.sku \in Skus
    <3>1. \A c, u : RowJoins(n.sku[line.sku], B(e).sku[line.sku], B(m).sku[line.sku], c, u)
                      => RowJoins(n.sku[line.sku], WithUnits(B(e).sku[line.sku], line), WithUnits(B(m).sku[line.sku], line), c, u)
      BY <2>1, WithUnitsJoins
    <3>2. ASSUME NEW e2, e2 = [B(e) EXCEPT !.sku[line.sku] = WithUnits(@, line)],
                 NEW m2, m2 = [B(m) EXCEPT !.sku[line.sku] = WithUnits(@, line)]
          PROVE  Merges(n, e2, m2)
      BY <2>2, <2>4, <3>1, <3>2, SkuAlone
    <3>3. line.sku # NoSku
      BY <2>4, AccrualAssumption
    <3> QED BY <1>6, <3>2, <3>3 DEF Units, B, T, S
  <2> QED BY <1>0, <2>3, <2>4
<1> QED BY <1>5, <1>6

(* What parse_component leaves alone.                                         *)
LEMMA ComponentKeeps ==
  ASSUME NEW n \in LedgerType, NEW f, NEW a, NEW s, NEW id
  PROVE  Component(n, f, a, s, id).unknownSku = n.unknownSku
BY DEF Component, MarkGap, AddComponent, Incomplete, Counted, Touch, LedgerType

(* The sale of a line.                                                        *)
LEMMA SaleOfLineMerges ==
  ASSUME NEW n, NEW e, NEW m, Merges(n, e, m), NEW line \in PostingLine, NEW id \in Ids,
         line.sku = NoSku => e.unknownSku
  PROVE  Merges(n, Sale(e, line, id), Sale(m, line, id))
<1>0. /\ line.sku \in Skus \cup {NoSku} /\ line.sale \in Amount /\ line.commission \in Amount
      /\ e \in LedgerType /\ m \in LedgerType /\ {"revenue", "commission"} \subseteq Fields
      /\ {"cogs"} \in SUBSET (Fields \cup {"cogs"})
  BY DEF PostingLine, Merges, Joins, Fields, Charges
<1> DEFINE M(x) == Component(x, "revenue", line.sale, line.sku, id)
           N(x) == MarkUnknown(M(x), {"cogs"}, line.sku, id)
           U(x) == IF line.sale # Unknown THEN Units(M(x), line, id) ELSE MarkUnitsUnknown(N(x), line.sku, id)
<1>1. Merges(n, M(e), M(m)) /\ (line.sku = NoSku => M(e).unknownSku)
  BY <1>0, ComponentMerges, ComponentKeeps
<1>2. Merges(n, U(e), U(m))
  <2> HIDE DEF M
  <2>1. CASE line.sale # Unknown
    BY <1>1, <2>1, UnitsMerges
  <2>2. CASE line.sale = Unknown
    <3>0. M(e) \in LedgerType
      BY <1>1 DEF Merges, Joins
    <3>1. Merges(n, N(e), N(m)) /\ M(e) \in LedgerType
      BY <1>0, <1>1, <3>0, MarkUnknownMerges
    <3>2. line.sku = NoSku => "cogs" \in N(e).day.uncertain
      <4>1. M(e).day \in RowType
        BY <3>1 DEF LedgerType
      <4>2. Unclassified(Blank(M(e).day, {"cogs"})) \in RowType
        BY <1>0, <4>1, DoubtedIs
      <4>3. N(e).day = DayUnknown(M(e).day, {"cogs"}, line.sku)
        BY <1>0, <3>1, MarkUnknownDoes DEF Does, DoesToDay
      <4> HIDE DEF N
      <4> QED BY <4>2, <4>3 DEF DayUnknown, RowType
    <3> HIDE DEF N
    <3> QED BY <1>0, <2>2, <3>1, <3>2, MarkUnitsUnknownMerges
  <2> QED BY <2>1, <2>2
<1> HIDE DEF U
<1>3. Merges(n, Component(U(e), "commission", line.commission, line.sku, id),
             Component(U(m), "commission", line.commission, line.sku, id))
  BY <1>0, <1>2, ComponentMerges
<1> QED BY <1>3 DEF Sale, U, M, N

(* _mark_posting_unknown                                                      *)
LEMMA NoPostingMerges ==
  ASSUME NEW n, NEW e, NEW m, Merges(n, e, m), NEW id \in Ids
  PROVE  Merges(n, NoPosting(e, id), NoPosting(m, id))
<1>0. PostingFields \in SUBSET (Fields \cup {"cogs"}) /\ NoSku \in Skus \cup {NoSku} /\ "cogs" \in PostingFields
  BY DEF PostingFields, Fields, Charges
<1> DEFINE I(x) == Incomplete(x)
           N(x) == MarkUnknown(I(x), PostingFields, NoSku, id)
<1>5. Merges(n, I(e), I(m))
  BY IncompleteMerges
<1>1. Merges(n, I(e), I(m)) /\ I(e) \in LedgerType
  BY <1>5 DEF Merges, Joins
<1> HIDE DEF I
<1>2. Merges(n, N(e), N(m))
  BY <1>0, <1>1, MarkUnknownMerges
<1>3. "cogs" \in N(e).day.uncertain
  <2>1. I(e).day \in RowType
    BY <1>1 DEF LedgerType
  <2>2. Unclassified(Blank(I(e).day, PostingFields)) \in RowType
    BY <1>0, <2>1, DoubtedIs
  <2>4. Does(I(e), N(e), NoSku, DayUnknown(I(e).day, PostingFields, NoSku), SkuUnknown(I(e).sku[NoSku], PostingFields, id), Of(NoSku))
    BY <1>0, <1>1, MarkUnknownDoes
  <2>3. N(e).day = DayUnknown(I(e).day, PostingFields, NoSku)
    BY <2>4 DEF Does, DoesToDay
  <2> HIDE DEF N
  <2> QED BY <1>0, <2>2, <2>3 DEF DayUnknown, RowType
<1> HIDE DEF N
<1>4. Merges(n, MarkUnitsUnknown(N(e), NoSku, id), MarkUnitsUnknown(N(m), NoSku, id))
  BY <1>0, <1>2, <1>3, MarkUnitsUnknownMerges
<1> QED BY <1>4 DEF NoPosting, N, I

(* Loops over two ledgers, of which the second holds the first.               *)
LEMMA RunsMerge ==
  ASSUME NEW n, NEW N \in Nat, NEW f, NEW g, Merges(n, f[0], g[0]),
         \A k \in 1..N : Merges(n, f[k - 1], g[k - 1]) => Merges(n, f[k], g[k])
  PROVE  Merges(n, f[N], g[N])
<1> DEFINE T == {k \in 0..N : Merges(n, f[k], g[k])}
<1>1. 0 \in T /\ \A k \in 1..N : k - 1 \in T => k \in T
  OBVIOUS
<1> HIDE DEF T
<1>2. N \in T
  BY <1>1, InductionTo
<1> QED BY <1>2 DEF T

(* The services of a line, one by one.                                        *)
LEMMA ServicesAre ==
  ASSUME NEW n \in LedgerType, NEW line \in PostingLine, NEW id \in Ids
  PROVE  \E f : /\ f[0] = n /\ f[Len(line.amounts)] = Services(n, line, id)
                /\ \A k \in 1..Len(line.amounts) :
                     f[k] = Component(f[k - 1], "logistics", line.amounts[k], line.sku, id)
<1> DEFINE N == Len(line.amounts)
           After(f) == f = [k \in 0..N |-> IF k = 0 THEN n
                                           ELSE Component(f[k - 1], "logistics", line.amounts[k], line.sku, id)]
<1>1. N \in Nat /\ line.sku \in Skus \cup {NoSku} /\ (\A k \in 1..N : line.amounts[k] \in Amount) /\ "logistics" \in Fields
  BY DEF PostingLine, Fields, Charges
<1> HIDE DEF N
<1> DEFINE step == [k \in 1..N |-> [x \in LedgerType |-> Component(x, "logistics", line.amounts[k], line.sku, id)]]
<1>2. \A k \in 1..N, x \in LedgerType : Component(x, "logistics", line.amounts[k], line.sku, id) \in LedgerType
  <2> SUFFICES ASSUME NEW k \in 1..N, NEW x \in LedgerType
               PROVE  Component(x, "logistics", line.amounts[k], line.sku, id) \in LedgerType
    OBVIOUS
  <2>1. Merges(x, EmptyLedger, x)
    BY MergesNothing
  <2>2. Merges(x, Component(EmptyLedger, "logistics", line.amounts[k], line.sku, id),
               Component(x, "logistics", line.amounts[k], line.sku, id))
    BY <1>1, <2>1, ComponentMerges
  <2> QED BY <2>2 DEF Merges, Joins
<1>3. StaysIn(LedgerType, step, N)
  BY <1>2 DEF StaysIn
<1> HIDE DEF step
<1>4. PICK f : IsRun(f, N, LedgerType, n, step)
  BY <1>1, <1>3, RunExists
<1>5. \A k \in 1..N : f[k] = Component(f[k - 1], "logistics", line.amounts[k], line.sku, id)
  <2> SUFFICES ASSUME NEW k \in 1..N PROVE f[k] = Component(f[k - 1], "logistics", line.amounts[k], line.sku, id)
    OBVIOUS
  <2>1. k - 1 \in 0..N
    BY <1>1
  <2>2. f[k - 1] \in LedgerType
    BY <1>4, <2>1 DEF IsRun
  <2>3. f[k] = step[k][f[k - 1]]
    BY <1>4 DEF IsRun
  <2> QED BY <2>2, <2>3 DEF step
<1>6. After(f)
  <2>1. f = [k \in 0..N |-> f[k]] /\ f[0] = n
    BY <1>4 DEF IsRun
  <2>2. \A k \in 0..N : f[k] = IF k = 0 THEN n ELSE Component(f[k - 1], "logistics", line.amounts[k], line.sku, id)
    <3> SUFFICES ASSUME NEW k \in 0..N
                 PROVE  f[k] = IF k = 0 THEN n ELSE Component(f[k - 1], "logistics", line.amounts[k], line.sku, id)
      OBVIOUS
    <3>1. k = 0 \/ k \in 1..N
      BY <1>1
    <3>2. f[0] = n
      BY <2>1
    <3> HIDE <2>1
    <3> QED BY <1>1, <1>5, <3>1, <3>2
  <2> QED BY <2>1, <2>2
<1> DEFINE after == CHOOSE g : After(g)
<1>7. Services(n, line, id) = after[N]
  BY DEF Services, N
<1> HIDE DEF After
<1>8. After(after)
  BY <1>6
<1> HIDE DEF after
<1>9. after[0] = n /\ \A k \in 1..N : after[k] = Component(after[k - 1], "logistics", line.amounts[k], line.sku, id)
  BY <1>1, <1>8 DEF After
<1> QED BY <1>7, <1>9 DEF N

(* The services of a line, read into both.                                    *)
LEMMA ServicesMerge ==
  ASSUME NEW n, NEW e, NEW m, Merges(n, e, m), NEW line \in PostingLine, NEW id \in Ids
  PROVE  Merges(n, Services(e, line, id), Services(m, line, id))
<1> DEFINE N == Len(line.amounts)
<1>1. N \in Nat /\ line.sku \in Skus \cup {NoSku} /\ (\A k \in 1..N : line.amounts[k] \in Amount) /\ "logistics" \in Fields
  BY DEF PostingLine, Fields, Charges
<1>2. e \in LedgerType /\ m \in LedgerType
  BY DEF Merges, Joins
<1>3. PICK f : /\ f[0] = e /\ f[N] = Services(e, line, id)
               /\ \A k \in 1..N : f[k] = Component(f[k - 1], "logistics", line.amounts[k], line.sku, id)
  BY <1>2, ServicesAre
<1>4. PICK g : /\ g[0] = m /\ g[N] = Services(m, line, id)
               /\ \A k \in 1..N : g[k] = Component(g[k - 1], "logistics", line.amounts[k], line.sku, id)
  BY <1>2, ServicesAre
<1> HIDE DEF N
<1>5. ASSUME NEW k \in 1..N, Merges(n, f[k - 1], g[k - 1]) PROVE Merges(n, f[k], g[k])
  <2>1. Merges(n, Component(f[k - 1], "logistics", line.amounts[k], line.sku, id), Component(g[k - 1], "logistics", line.amounts[k], line.sku, id))
    BY <1>1, <1>5, ComponentMerges
  <2> QED BY <1>3, <1>4, <2>1
<1>6. Merges(n, f[N], g[N])
  BY <1>1, <1>3, <1>4, <1>5, RunsMerge
<1> QED BY <1>3, <1>4, <1>6

(* _read_delivery                                                             *)
LEMMA DeliveryMerges ==
  ASSUME NEW n, NEW e, NEW m, Merges(n, e, m), NEW line \in PostingLine, NEW id \in Ids
  PROVE  Merges(n, Delivery(e, line, id), Delivery(m, line, id))
<1>0. /\ line.sku \in Skus \cup {NoSku} /\ "logistics" \in Fields /\ {"logistics"} \in SUBSET (Fields \cup {"cogs"})
      /\ line.delivery \in {"null", "broken", "nothing", "spoiled", "amounts"}
  BY DEF PostingLine, Fields, Charges
<1> DEFINE M(x) == IF line.returns THEN MarkReturn(x, line.sku, id) ELSE x
           I(x) == Incomplete(x)
           U(x) == MarkUnknown(I(x), {"logistics"}, line.sku, id)
<1>1. Merges(n, M(e), M(m))
  BY <1>0, MarkReturnMerges
<1>2. ASSUME NEW x, NEW y, Merges(n, x, y) PROVE Merges(n, I(x), I(y)) /\ Merges(n, U(x), U(y))
  <2>1. Merges(n, I(x), I(y))
    BY <1>2, IncompleteMerges
  <2> HIDE DEF I
  <2> QED BY <1>0, <2>1, MarkUnknownMerges
<1>3. CASE line.delivery = "null"
  BY <1>3 DEF Delivery
<1>4. CASE line.delivery = "broken"
  BY <1>0, <1>2, <1>4, MarkGapMerges DEF Delivery
<1>5. CASE line.delivery = "nothing"
  BY <1>2, <1>5 DEF Delivery
<1> DEFINE V(x) == U(M(x))
<1>6. CASE line.delivery = "spoiled"
  <2>1. Merges(n, V(e), V(m))
    <3> HIDE DEF U, M
    <3> QED BY <1>1, <1>2
  <2>2. \A x : Delivery(x, line, id) = Services(V(x), line, id)
    BY <1>6 DEF Delivery
  <2> HIDE DEF V
  <2> QED BY <2>1, <2>2, ServicesMerge
<1>7. CASE line.delivery = "amounts"
  <2>1. \A x : Delivery(x, line, id) = Services(M(x), line, id)
    BY <1>7 DEF Delivery
  <2> HIDE DEF M
  <2> QED BY <1>1, <2>1, ServicesMerge
<1> QED BY <1>0, <1>3, <1>4, <1>5, <1>6, <1>7

(* _parse_product                                                             *)
LEMMA ProductLineMerges ==
  ASSUME NEW n, NEW e, NEW m, Merges(n, e, m), NEW line \in PostingLine, NEW id \in Ids
  PROVE  Merges(n, ProductLine(e, line, id), ProductLine(m, line, id))
<1> DEFINE K(x) == IF line.sku = NoSku THEN [x EXCEPT !.unknownSku = TRUE] ELSE x
           S(x) == Sale(K(x), line, id)
<1>0. e \in LedgerType
  BY DEF Merges, Joins
<1>1. CASE line.damaged
  BY <1>1, NoPostingMerges DEF ProductLine
<1>2. CASE ~line.damaged
  <2>1. Merges(n, K(e), K(m))
    BY UnknownSkuMerges
  <2>2. line.sku = NoSku => K(e).unknownSku
    BY <1>0 DEF LedgerType
  <2> HIDE DEF K
  <2>3. Merges(n, S(e), S(m))
    BY <2>1, <2>2, SaleOfLineMerges
  <2>4. \A x : ProductLine(x, line, id) = Delivery(S(x), line, id)
    BY <1>2 DEF ProductLine, K
  <2> HIDE DEF S
  <2> QED BY <2>3, <2>4, DeliveryMerges
<1> QED BY <1>1, <1>2

\* Accruals whose lines are read.
HasLines(a) == a.category \in FeeCategories \cup {"POSTING"}

(* A line of an accrual.                                                      *)
LEMMA AccrualLineMerges ==
  ASSUME NEW n, NEW e, NEW m, Merges(n, e, m), NEW a \in Accruals, HasLines(a), NEW i \in 1..Len(a.lines)
  PROVE  Merges(n, AccrualLine(e, a, i), AccrualLine(m, a, i))
<1>1. a.id \in Ids /\ "POSTING" \notin FeeCategories
  BY DEF Ids, FeeCategories
<1>2. CASE a.category = "POSTING"
  <2>1. a.lines[i] \in PostingLine
    BY <1>2, AccrualAssumption
  <2> QED BY <1>1, <1>2, <2>1, ProductLineMerges DEF AccrualLine
<1>3. CASE a.category # "POSTING"
  <2>1. a.lines[i] \in FeeLine
    BY <1>3, AccrualAssumption DEF HasLines
  <2> QED BY <1>1, <1>3, <2>1, FeeMerges DEF AccrualLine
<1> QED BY <1>2, <1>3

(* The lines of an accrual, one by one.                                       *)
LEMMA LinesAre ==
  ASSUME NEW n \in LedgerType, NEW a \in Accruals, HasLines(a)
  PROVE  \E f : /\ f[0] = n /\ f[Len(a.lines)] = Lines(n, a)
                /\ \A k \in 1..Len(a.lines) : f[k] = AccrualLine(f[k - 1], a, k)
<1> DEFINE N == Len(a.lines)
           After(f) == f = [k \in 0..N |-> IF k = 0 THEN n ELSE AccrualLine(f[k - 1], a, k)]
<1>1. N \in Nat /\ a \in Accruals /\ HasLines(a) /\ N = Len(a.lines)
  BY AccrualAssumption DEF HasLines, FeeCategories
<1>0. N \in Nat
  BY <1>1
<1> HIDE DEF N
<1> DEFINE step == [k \in 1..N |-> [x \in LedgerType |-> AccrualLine(x, a, k)]]
<1>2. \A k \in 1..N, x \in LedgerType : AccrualLine(x, a, k) \in LedgerType
  <2> SUFFICES ASSUME NEW k \in 1..N, NEW x \in LedgerType
               PROVE  AccrualLine(x, a, k) \in LedgerType
    OBVIOUS
  <2>1. Merges(x, EmptyLedger, x)
    BY MergesNothing
  <2>2. Merges(x, AccrualLine(EmptyLedger, a, k), AccrualLine(x, a, k))
    BY <1>1, <2>1, AccrualLineMerges
  <2> QED BY <2>2 DEF Merges, Joins
<1>3. StaysIn(LedgerType, step, N)
  BY <1>2 DEF StaysIn
<1> HIDE DEF step
<1>4. PICK f : IsRun(f, N, LedgerType, n, step)
  BY <1>1, <1>3, RunExists
<1>5. \A k \in 1..N : f[k] = AccrualLine(f[k - 1], a, k)
  <2> SUFFICES ASSUME NEW k \in 1..N PROVE f[k] = AccrualLine(f[k - 1], a, k)
    OBVIOUS
  <2>1. f[k - 1] \in LedgerType /\ f[k] = step[k][f[k - 1]]
    BY <1>0, <1>4 DEF IsRun
  <2> QED BY <2>1 DEF step
<1>6. After(f)
  <2>1. f = [k \in 0..N |-> f[k]] /\ f[0] = n
    BY <1>4 DEF IsRun
  <2>2. \A k \in 0..N : f[k] = IF k = 0 THEN n ELSE AccrualLine(f[k - 1], a, k)
    <3> SUFFICES ASSUME NEW k \in 0..N
                 PROVE  f[k] = IF k = 0 THEN n ELSE AccrualLine(f[k - 1], a, k)
      OBVIOUS
    <3>1. k = 0 \/ k \in 1..N
      BY <1>1
    <3>2. f[0] = n
      BY <2>1
    <3> HIDE <2>1
    <3> QED BY <1>1, <1>5, <3>1, <3>2
  <2> QED BY <2>1, <2>2
<1> DEFINE after == CHOOSE g : After(g)
<1>7. Lines(n, a) = after[N]
  BY DEF Lines, N
<1> HIDE DEF After
<1>8. After(after)
  BY <1>6
<1> HIDE DEF after
<1>9. after[0] = n /\ \A k \in 1..N : after[k] = AccrualLine(after[k - 1], a, k)
  BY <1>1, <1>8 DEF After
<1> QED BY <1>7, <1>9 DEF N

(* The lines of an accrual, read into both.                                   *)
LEMMA LinesMerge ==
  ASSUME NEW n, NEW e, NEW m, Merges(n, e, m), NEW a \in Accruals, HasLines(a)
  PROVE  Merges(n, Lines(e, a), Lines(m, a))
<1> DEFINE N == Len(a.lines)
<1>1. N \in Nat /\ a \in Accruals /\ HasLines(a) /\ N = Len(a.lines)
  BY AccrualAssumption DEF HasLines, FeeCategories
<1>2. e \in LedgerType /\ m \in LedgerType
  BY DEF Merges, Joins
<1>3. PICK f : /\ f[0] = e /\ f[N] = Lines(e, a)
               /\ \A k \in 1..N : f[k] = AccrualLine(f[k - 1], a, k)
  BY <1>2, LinesAre
<1>4. PICK g : /\ g[0] = m /\ g[N] = Lines(m, a)
               /\ \A k \in 1..N : g[k] = AccrualLine(g[k - 1], a, k)
  BY <1>2, LinesAre
<1> HIDE DEF N
<1>5. ASSUME NEW k \in 1..N, Merges(n, f[k - 1], g[k - 1]) PROVE Merges(n, f[k], g[k])
  <2>1. Merges(n, AccrualLine(f[k - 1], a, k), AccrualLine(g[k - 1], a, k))
    BY <1>1, <1>5, AccrualLineMerges
  <2> QED BY <1>3, <1>4, <2>1
<1>6. Merges(n, f[N], g[N])
  BY <1>1, <1>3, <1>4, <1>5, RunsMerge
<1> QED BY <1>3, <1>4, <1>6

(* Deliveries that are null, one by one.                                      *)
LEMMA NullDeliveriesAre ==
  ASSUME NEW n \in LedgerType, NEW a \in Accruals, a.category = "POSTING"
  PROVE  \E f : /\ f[0] = n /\ f[Len(a.lines)] = NullDeliveries(n, a)
                /\ \A k \in 1..Len(a.lines) : f[k] = (IF IsNull(a.lines[k]) THEN MarkGap(f[k - 1], "logistics", a.lines[k].sku, a.id) ELSE f[k - 1])
<1> DEFINE N == Len(a.lines)
           After(f) == f = [k \in 0..N |-> IF k = 0 THEN n ELSE (IF IsNull(a.lines[k]) THEN MarkGap(f[k - 1], "logistics", a.lines[k].sku, a.id) ELSE f[k - 1])]
<1>1. /\ N \in Nat /\ a.id \in Ids /\ (\A k \in 1..N : a.lines[k].sku \in Skus \cup {NoSku}) /\ "logistics" \in Fields
  <2>1. a.lines \in Seq(PostingLine)
    BY AccrualAssumption
  <2>2. \A k \in 1..N : a.lines[k] \in PostingLine
    BY <2>1
  <2> QED BY <2>1, <2>2 DEF PostingLine, Ids, Fields, Charges
<1>0. N \in Nat
  BY <1>1
<1> HIDE DEF N
<1> DEFINE step == [k \in 1..N |-> [x \in LedgerType |-> (IF IsNull(a.lines[k]) THEN MarkGap(x, "logistics", a.lines[k].sku, a.id) ELSE x)]]
<1>2. \A k \in 1..N, x \in LedgerType : (IF IsNull(a.lines[k]) THEN MarkGap(x, "logistics", a.lines[k].sku, a.id) ELSE x) \in LedgerType
  <2> SUFFICES ASSUME NEW k \in 1..N, NEW x \in LedgerType
               PROVE  (IF IsNull(a.lines[k]) THEN MarkGap(x, "logistics", a.lines[k].sku, a.id) ELSE x) \in LedgerType
    OBVIOUS
  <2>1. Merges(x, EmptyLedger, x)
    BY MergesNothing
  <2>2. Merges(x, (IF IsNull(a.lines[k]) THEN MarkGap(EmptyLedger, "logistics", a.lines[k].sku, a.id) ELSE EmptyLedger), (IF IsNull(a.lines[k]) THEN MarkGap(x, "logistics", a.lines[k].sku, a.id) ELSE x))
    BY <1>1, <2>1, MarkGapMerges
  <2> QED BY <2>2 DEF Merges, Joins
<1>3. StaysIn(LedgerType, step, N)
  BY <1>2 DEF StaysIn
<1> HIDE DEF step
<1>4. PICK f : IsRun(f, N, LedgerType, n, step)
  BY <1>1, <1>3, RunExists
<1>5. \A k \in 1..N : f[k] = (IF IsNull(a.lines[k]) THEN MarkGap(f[k - 1], "logistics", a.lines[k].sku, a.id) ELSE f[k - 1])
  <2> SUFFICES ASSUME NEW k \in 1..N PROVE f[k] = (IF IsNull(a.lines[k]) THEN MarkGap(f[k - 1], "logistics", a.lines[k].sku, a.id) ELSE f[k - 1])
    OBVIOUS
  <2>0. k - 1 \in 0..N
    BY <1>0
  <2>1. f[k - 1] \in LedgerType /\ f[k] = step[k][f[k - 1]]
    <3>1. (\A j \in 0..N : f[j] \in LedgerType) /\ \A j \in 1..N : f[j] = step[j][f[j - 1]]
      BY <1>4 DEF IsRun
    <3> QED BY <2>0, <3>1
  <2> QED BY <2>1 DEF step
<1>6. After(f)
  <2>1. f = [k \in 0..N |-> f[k]] /\ f[0] = n
    BY <1>4 DEF IsRun
  <2>2. \A k \in 0..N : f[k] = IF k = 0 THEN n ELSE (IF IsNull(a.lines[k]) THEN MarkGap(f[k - 1], "logistics", a.lines[k].sku, a.id) ELSE f[k - 1])
    <3> SUFFICES ASSUME NEW k \in 0..N
                 PROVE  f[k] = IF k = 0 THEN n ELSE (IF IsNull(a.lines[k]) THEN MarkGap(f[k - 1], "logistics", a.lines[k].sku, a.id) ELSE f[k - 1])
      OBVIOUS
    <3>1. k = 0 \/ k \in 1..N
      BY <1>1
    <3>2. f[0] = n
      BY <2>1
    <3> HIDE <2>1
    <3> QED BY <1>1, <1>5, <3>1, <3>2
  <2> QED BY <2>1, <2>2
<1> DEFINE after == CHOOSE g : After(g)
<1>7. NullDeliveries(n, a) = after[N]
  BY DEF NullDeliveries, N
<1> HIDE DEF After
<1>8. After(after)
  BY <1>6
<1> HIDE DEF after
<1>9. after[0] = n /\ \A k \in 1..N : after[k] = (IF IsNull(a.lines[k]) THEN MarkGap(after[k - 1], "logistics", a.lines[k].sku, a.id) ELSE after[k - 1])
  BY <1>1, <1>8 DEF After
<1> QED BY <1>7, <1>9 DEF N

(* Deliveries that are null, marked in both.                                  *)
LEMMA NullDeliveriesMerge ==
  ASSUME NEW n, NEW e, NEW m, Merges(n, e, m), NEW a \in Accruals, a.category = "POSTING"
  PROVE  Merges(n, NullDeliveries(e, a), NullDeliveries(m, a))
<1> DEFINE N == Len(a.lines)
<1>1. /\ N \in Nat /\ a.id \in Ids /\ (\A k \in 1..N : a.lines[k].sku \in Skus \cup {NoSku}) /\ "logistics" \in Fields
  <2>1. a.lines \in Seq(PostingLine)
    BY AccrualAssumption
  <2>2. \A k \in 1..N : a.lines[k] \in PostingLine
    BY <2>1
  <2> QED BY <2>1, <2>2 DEF PostingLine, Ids, Fields, Charges
<1>2. e \in LedgerType /\ m \in LedgerType
  BY DEF Merges, Joins
<1>3. PICK f : /\ f[0] = e /\ f[N] = NullDeliveries(e, a)
               /\ \A k \in 1..N : f[k] = (IF IsNull(a.lines[k]) THEN MarkGap(f[k - 1], "logistics", a.lines[k].sku, a.id) ELSE f[k - 1])
  BY <1>2, NullDeliveriesAre
<1>4. PICK g : /\ g[0] = m /\ g[N] = NullDeliveries(m, a)
               /\ \A k \in 1..N : g[k] = (IF IsNull(a.lines[k]) THEN MarkGap(g[k - 1], "logistics", a.lines[k].sku, a.id) ELSE g[k - 1])
  BY <1>2, NullDeliveriesAre
<1> HIDE DEF N
<1>5. ASSUME NEW k \in 1..N, Merges(n, f[k - 1], g[k - 1]) PROVE Merges(n, f[k], g[k])
  <2>1. Merges(n, (IF IsNull(a.lines[k]) THEN MarkGap(f[k - 1], "logistics", a.lines[k].sku, a.id) ELSE f[k - 1]), (IF IsNull(a.lines[k]) THEN MarkGap(g[k - 1], "logistics", a.lines[k].sku, a.id) ELSE g[k - 1]))
    BY <1>1, <1>5, MarkGapMerges
  <2> QED BY <1>3, <1>4, <2>1
<1>6. Merges(n, f[N], g[N])
  BY <1>1, <1>3, <1>4, <1>5, RunsMerge
<1> QED BY <1>3, <1>4, <1>6

(* Null deliveries, which both ledgers mark or neither.                       *)
LEMMA WithNullDeliveriesMerges ==
  ASSUME NEW n, NEW e, NEW m, Merges(n, e, m), n.raw = 0, n.complete, NEW a \in Accruals, a.category = "POSTING"
  PROVE  Merges(n, WithNullDeliveries(e, a), WithNullDeliveries(m, a))
<1>1. m.raw = e.raw /\ (m.complete <=> e.complete)
  BY DEF Merges, Joins, RawAdds, LedgerType
<1>2. Merges(n, Incomplete(e), Incomplete(m))
  BY IncompleteMerges
<1>3. Merges(n, NullDeliveries(Incomplete(e), a), NullDeliveries(Incomplete(m), a))
  BY <1>2, NullDeliveriesMerge
<1> QED BY <1>1, <1>3 DEF WithNullDeliveries

(* _normalize_accrual, but for what it says of the whole.                     *)
LEMMA DetailsMerge ==
  ASSUME NEW n, NEW e, NEW m, Merges(n, e, m), n.raw = 0, n.complete, NEW a \in Accruals
  PROVE  Merges(n, Details(e, a), Details(m, a))
<1>0. /\ a.id \in Ids /\ "POSTING" \notin FeeCategories /\ NoSku \in Skus \cup {NoSku} /\ a.total \in Int
      /\ AnyFee \in SUBSET (Fields \cup {"cogs"}) /\ {"revenue"} \cup AnyFee \in SUBSET (Fields \cup {"cogs"})
      /\ a.listed \in BOOLEAN
  BY AccrualAssumption DEF Ids, FeeCategories, AnyFee, _POSSIBLE_FEE_FIELDS, Fields, Charges
<1>1. Merges(n, Incomplete(e), Incomplete(m))
  BY IncompleteMerges
<1>2. CASE a.category = "POSTING" /\ a.listed
  <2>1. Merges(n, Lines(e, a), Lines(m, a))
    BY <1>2, LinesMerge DEF HasLines
  <2>2. Merges(n, WithNullDeliveries(Lines(e, a), a), WithNullDeliveries(Lines(m, a), a))
    BY <1>2, <2>1, WithNullDeliveriesMerges
  <2>3. \A x : Details(x, a) = WithNullDeliveries(Lines(x, a), a)
    BY <1>0, <1>2 DEF Details
  <2> QED BY <2>2, <2>3
<1>3. CASE a.category = "POSTING" /\ ~a.listed
  <2>1. \A x : Details(x, a) = NoPosting(x, a.id)
    BY <1>0, <1>3 DEF Details
  <2> QED BY <1>0, <2>1, NoPostingMerges
<1>4. CASE a.category \in FeeCategories /\ a.listed
  <2>1. Merges(n, Lines(e, a), Lines(m, a))
    BY <1>4, LinesMerge DEF HasLines
  <2>2. \A x : Details(x, a) = Lines(x, a)
    BY <1>0, <1>4 DEF Details
  <2> QED BY <2>1, <2>2
<1>5. CASE a.category \in FeeCategories /\ ~a.listed
  <2>1. \A x : Details(x, a) = MarkUnknown(Incomplete(x), AnyFee, NoSku, a.id)
    BY <1>0, <1>5 DEF Details
  <2> QED BY <1>0, <1>1, <2>1, MarkUnknownMerges
<1>6. CASE a.category \notin FeeCategories \cup {"POSTING"}
  <2> DEFINE I(x) == Incomplete(x)
             A(x) == [I(x) EXCEPT !.day = Aside(@, a.total)]
  <2>1. \A x : Details(x, a) = MarkUnknown(A(x), {"revenue"} \cup AnyFee, NoSku, a.id)
    BY <1>6 DEF Details
  <2>2. Merges(n, I(e), I(m))
    BY <1>1
  <2> HIDE DEF I
  <2>3. Merges(n, A(e), A(m))
    BY <1>0, <2>2, AsideMerges
  <2> HIDE DEF A
  <2> QED BY <1>0, <2>1, <2>3, MarkUnknownMerges
<1> QED BY <1>0, <1>2, <1>3, <1>4, <1>5, <1>6

\* An accrual before its details are read, what they come to, and the accrual alone.
Reset(n) == [n EXCEPT !.raw = 0, !.complete = TRUE]
Alone(a) == Normalised(EmptyLedger, a)

(* An accrual begins a count of its own.                                      *)
LEMMA ResetIs ==
  ASSUME NEW n \in LedgerType, NEW a \in Accruals
  PROVE  /\ Reset(n) \in LedgerType /\ Reset(EmptyLedger) = EmptyLedger
         /\ Reset(n).raw = 0 /\ Reset(n).complete
         /\ Reset(n).day = n.day /\ Reset(n).sku = n.sku /\ (Reset(n).allocated <=> n.allocated)
         /\ (Reset(n).skuUnitsKnown <=> n.skuUnitsKnown) /\ (Reset(n).unknownSku <=> n.unknownSku)
         /\ (Reset(n).sale <=> n.sale) /\ Reset(n).net = n.net /\ Reset(n).mismatch = n.mismatch
         /\ Reset(n).reconciled = n.reconciled
         /\ Merges(Reset(n), Details(EmptyLedger, a), Details(Reset(n), a))
<1>1. Reset(n) \in LedgerType
  <2>1. ASSUME NEW k, k = [n EXCEPT !.raw = 0] PROVE k \in LedgerType
    BY <2>1 DEF LedgerType
  <2>2. ASSUME NEW k \in LedgerType, NEW y, y = [k EXCEPT !.complete = TRUE] PROVE y \in LedgerType
    BY <2>2 DEF LedgerType
  <2>3. Reset(n) = [[n EXCEPT !.raw = 0] EXCEPT !.complete = TRUE]
    BY DEF Reset, LedgerType
  <2> QED BY <2>1, <2>2, <2>3
<1>5. /\ Reset(n).raw = 0 /\ (Reset(n).complete = TRUE)
      /\ Reset(n).day = n.day /\ Reset(n).sku = n.sku /\ (Reset(n).allocated = n.allocated)
      /\ (Reset(n).skuUnitsKnown = n.skuUnitsKnown) /\ (Reset(n).unknownSku = n.unknownSku)
      /\ (Reset(n).sale = n.sale) /\ Reset(n).net = n.net /\ Reset(n).mismatch = n.mismatch
      /\ Reset(n).reconciled = n.reconciled
  BY DEF Reset, LedgerType
<1>2. Reset(EmptyLedger) = EmptyLedger
  <2>1. EmptyLedger \in LedgerType /\ EmptyLedger.raw = 0 /\ (EmptyLedger.complete = TRUE)
    BY EmptyIs DEF EmptyLedger
  <2>2. ASSUME NEW x \in LedgerType, x.raw = 0, x.complete = TRUE PROVE [x EXCEPT !.raw = 0, !.complete = TRUE] = x
    BY <2>2 DEF LedgerType
  <2> HIDE DEF EmptyLedger
  <2> QED BY <2>1, <2>2 DEF Reset
<1>3. Merges(Reset(n), EmptyLedger, Reset(n))
  BY <1>1, MergesNothing
<1>4. Merges(Reset(n), Details(EmptyLedger, a), Details(Reset(n), a))
  BY <1>3, <1>5, DetailsMerge
<1> QED BY <1>1, <1>2, <1>4, <1>5

\* Ledger y says of the whole of accrual a what ledger m says of its details.
WholeOf(y, m, a) ==
  /\ y \in LedgerType /\ y.day = m.day /\ y.sku = m.sku /\ (y.allocated <=> m.allocated)
  /\ (y.skuUnitsKnown <=> m.skuUnitsKnown) /\ (y.unknownSku <=> m.unknownSku) /\ (y.sale <=> m.sale)
  /\ y.raw = m.raw /\ (y.complete <=> m.complete)
  /\ y.net = m.net + a.total
  /\ y.mismatch = (IF m.complete THEN Plus(m.mismatch, Difference(a.total, m.raw)) ELSE {})
  /\ y.reconciled = (IF m.complete /\ m.raw = a.total THEN m.reconciled \cup {a.id} ELSE m.reconciled)
  /\ m \in LedgerType /\ Difference(a.total, m.raw) \in Int

(* What is said of the whole accrual, after its details.                      *)
LEMMA NormalisedIs ==
  ASSUME NEW n \in LedgerType, NEW a \in Accruals, NEW m, m = Details(Reset(n), a), NEW y, y = Normalised(n, a)
  PROVE  WholeOf(y, m, a)
<1>1. m \in LedgerType
  <2>1. Merges(Reset(n), Details(EmptyLedger, a), m)
    BY ResetIs
  <2> QED BY <2>1 DEF Merges, Joins
<1>2. a.total \in Int /\ a.id \in Ids
  BY AccrualAssumption DEF Ids
<1>3. Difference(a.total, m.raw) \in Int /\ m.mismatch \in Amount
  BY <1>1, <1>2 DEF Difference, LedgerType
<1>4. Plus(m.mismatch, Difference(a.total, m.raw)) \in Amount /\ {} \in Amount
  BY <1>3, PlusOfBoth, AmountIs
<1> DEFINE d == IF m.complete THEN Plus(m.mismatch, Difference(a.total, m.raw)) ELSE {}
           r == IF m.complete /\ m.raw = a.total THEN m.reconciled \cup {a.id} ELSE m.reconciled
<1>5. y = [m EXCEPT !.net = @ + a.total, !.mismatch = d, !.reconciled = r]
  BY <1>1 DEF Normalised, Reset, Unknown
<1>6. d \in Amount /\ r \in SUBSET Ids
  BY <1>1, <1>2, <1>4 DEF LedgerType
<1> HIDE DEF d, r
<1>7. y \in LedgerType
  <2>1. m.net + a.total \in Int
    BY <1>1, <1>2 DEF LedgerType
  <2> DEFINE w == m.net + a.total
  <2>2. y = [m EXCEPT !.net = w, !.mismatch = d, !.reconciled = r] /\ w \in Int
    BY <1>5, <2>1
  <2> HIDE DEF w
  <2> QED BY <1>1, <1>6, <2>2 DEF LedgerType
<1>8. /\ y.day = m.day /\ y.sku = m.sku /\ (y.allocated = m.allocated)
      /\ (y.skuUnitsKnown = m.skuUnitsKnown) /\ (y.unknownSku = m.unknownSku) /\ (y.sale = m.sale)
      /\ y.raw = m.raw /\ (y.complete = m.complete) /\ y.net = m.net + a.total
      /\ y.mismatch = d /\ y.reconciled = r
  BY <1>1, <1>5 DEF LedgerType
<1> QED BY <1>1, <1>3, <1>7, <1>8 DEF d, r, WholeOf

(* A ledger after one more accrual is joined by that accrual alone.           *)
LEMMA NormalisedJoins ==
  ASSUME NEW n \in LedgerType, NEW a \in Accruals
  PROVE  Joins(n, Alone(a), Normalised(n, a))
<1> DEFINE e == Details(Reset(EmptyLedger), a)
           m == Details(Reset(n), a)
           x == Alone(a)
           y == Normalised(n, a)
           f == Reset(n)
<1>0. EmptyLedger \in LedgerType
  BY EmptyIs
<1>1. Merges(f, e, m)
  BY <1>0, ResetIs
<1>2. /\ f.raw = 0 /\ f.complete
      /\ f.day = n.day /\ f.sku = n.sku /\ (f.allocated <=> n.allocated)
      /\ (f.skuUnitsKnown <=> n.skuUnitsKnown) /\ (f.unknownSku <=> n.unknownSku)
      /\ (f.sale <=> n.sale) /\ f.net = n.net /\ f.mismatch = n.mismatch
      /\ f.reconciled = n.reconciled
  BY ResetIs
<1>3. /\ x \in LedgerType /\ x.day = e.day /\ x.sku = e.sku /\ (x.allocated <=> e.allocated)
      /\ (x.skuUnitsKnown <=> e.skuUnitsKnown) /\ (x.unknownSku <=> e.unknownSku) /\ (x.sale <=> e.sale)
      /\ x.net = e.net + a.total
      /\ x.mismatch = (IF e.complete THEN Plus(e.mismatch, Difference(a.total, e.raw)) ELSE {})
      /\ x.reconciled = (IF e.complete /\ e.raw = a.total THEN e.reconciled \cup {a.id} ELSE e.reconciled)
      /\ e \in LedgerType /\ Difference(a.total, e.raw) \in Int
  <2>1. WholeOf(x, e, a)
    BY <1>0, NormalisedIs DEF Alone
  <2> HIDE DEF x, e
  <2> QED BY <2>1 DEF WholeOf
<1>4. /\ y \in LedgerType /\ y.day = m.day /\ y.sku = m.sku /\ (y.allocated <=> m.allocated)
      /\ (y.skuUnitsKnown <=> m.skuUnitsKnown) /\ (y.unknownSku <=> m.unknownSku) /\ (y.sale <=> m.sale)
      /\ y.net = m.net + a.total
      /\ y.mismatch = (IF m.complete THEN Plus(m.mismatch, Difference(a.total, m.raw)) ELSE {})
      /\ y.reconciled = (IF m.complete /\ m.raw = a.total THEN m.reconciled \cup {a.id} ELSE m.reconciled)
      /\ m \in LedgerType
  <2>1. WholeOf(y, m, a)
    BY NormalisedIs
  <2> HIDE DEF y, m
  <2> QED BY <2>1 DEF WholeOf
<1> HIDE DEF e, m, x, y, f
<1>5. m.raw = e.raw /\ (m.complete <=> e.complete)
  BY <1>1, <1>2, <1>3 DEF Merges, RawAdds, LedgerType
<1>6. RowJoins(n.day, x.day, y.day, TRUE, TRUE)
  BY <1>1, <1>2, <1>3, <1>4 DEF Merges, Joins
<1>7. (Lost(m) <=> Lost(y)) /\ (y.allocated <=> m.allocated)
  BY <1>4 DEF Lost
<1>8. ASSUME NEW s \in Skus PROVE RowJoins(n.sku[s], x.sku[s], y.sku[s], y.allocated, ~Lost(y))
  <2>1. RowJoins(f.sku[s], e.sku[s], m.sku[s], m.allocated, ~Lost(m))
    BY <1>1 DEF Merges, Joins
  <2>2. RowJoins(f.sku[s], e.sku[s], m.sku[s], y.allocated, ~Lost(y))
    BY <1>7, <2>1, RowJoinsLess
  <2> QED BY <1>2, <1>3, <1>4, <2>2
<1>9. MarksAdd(n, x, y)
  BY <1>1, <1>2, <1>3, <1>4 DEF Merges, Joins, MarksAdd
<1>10. y.net = n.net + x.net
  <2>1. n.net \in Int /\ e.net \in Int /\ m.net = n.net + e.net /\ a.total \in Int
    BY <1>1, <1>2, <1>3, AccrualAssumption DEF Merges, Joins, LedgerType
  <2> QED BY <1>3, <1>4, <2>1
<1>11. y.mismatch = Both(n.mismatch, x.mismatch)
  <2>1. n.mismatch \in Amount /\ e.mismatch \in Amount /\ m.mismatch = Both(n.mismatch, e.mismatch)
    BY <1>1, <1>2, <1>3 DEF Merges, Joins, LedgerType
  <2>2. CASE e.complete
    <3>1. Plus(m.mismatch, Difference(a.total, e.raw)) = Both(n.mismatch, Plus(e.mismatch, Difference(a.total, e.raw)))
      BY <1>3, <2>1, PlusOfBoth
    <3> QED BY <1>3, <1>4, <1>5, <2>2, <3>1
  <2>3. CASE ~e.complete
    BY <1>3, <1>4, <1>5, <2>3, BothIs
  <2> QED BY <2>2, <2>3
<1>12. y.reconciled = n.reconciled \cup x.reconciled
  <2>1. m.reconciled = n.reconciled \cup e.reconciled
    BY <1>1, <1>2 DEF Merges, Joins
  <2> QED BY <1>3, <1>4, <1>5, <2>1
<1>13. Joins(n, x, y)
  BY <1>3, <1>4, <1>6, <1>8, <1>9, <1>10, <1>11, <1>12 DEF Joins
<1> QED BY <1>13 DEF x, y

--------------------------------------------------------------------------------
(* What holds of every ledger, of one that knows what was paid, and what it   *)
(* says of SKUs; two ledgers together say what both say.                      *)

(* There are finitely many fields.                                            *)
LEMMA FieldsAreFinite == IsFiniteSet(Fields)
<1>1. IsFiniteSet({"commission"})
  BY FS_Singleton
<1>2. IsFiniteSet({"commission"} \cup {"logistics"})
  BY <1>1, FS_AddElement
<1>3. IsFiniteSet(({"commission"} \cup {"logistics"}) \cup {"storage"})
  BY <1>2, FS_AddElement
<1>4. IsFiniteSet((({"commission"} \cup {"logistics"}) \cup {"storage"}) \cup {"other_expenses"})
  BY <1>3, FS_AddElement
<1>5. IsFiniteSet(((({"commission"} \cup {"logistics"}) \cup {"storage"}) \cup {"other_expenses"}) \cup {"revenue"})
  BY <1>4, FS_AddElement
<1>6. IsFiniteSet((((({"commission"} \cup {"logistics"}) \cup {"storage"}) \cup {"other_expenses"}) \cup {"revenue"})
                    \cup {"compensation"})
  BY <1>5, FS_AddElement
<1>7. Fields = ((((({"commission"} \cup {"logistics"}) \cup {"storage"}) \cup {"other_expenses"}) \cup {"revenue"})
                    \cup {"compensation"})
  BY DEF Fields, Charges
<1> QED BY <1>6, <1>7

\* An amount of a field, as it counts.
Signed(f, a) == {Sign(f) * x : x \in a}

(* What of an amount counts.                                                  *)
LEMMA SignedIs ==
  ASSUME NEW f, NEW a \in Amount, NEW b \in Amount
  PROVE  /\ Signed(f, a) \in Amount /\ (Signed(f, a) = {} <=> a = {}) /\ Signed(f, {0}) = {0}
         /\ Signed(f, Both(a, b)) = Both(Signed(f, a), Signed(f, b))
         /\ \A x \in Int : Signed(f, {x}) = {Sign(f) * x} /\ Signed(f, {Sign(f) * x}) = {x}
<1>1. Sign(f) \in {-1, 1}
  BY DEF Sign
<1>2. \A x \in Int : Sign(f) * x \in Int /\ Sign(f) * (Sign(f) * x) = x /\ Sign(f) * 0 = 0
  BY <1>1
<1>3. \A x : Signed(f, {x}) = {Sign(f) * x}
  BY DEF Signed
<1>4. Signed(f, {}) = {}
  BY DEF Signed
<1>5. \A x, y \in Int : Sign(f) * (x + y) = Sign(f) * x + Sign(f) * y
  BY <1>1
<1>9. 0 \in Int /\ Signed(f, {0}) = {0} /\ {} \in Amount /\ \A x \in Int : {x} \in Amount /\ {x} # {}
  BY <1>2, <1>3, AmountIs
<1>10. \A x \in Int : Signed(f, {x}) = {Sign(f) * x} /\ Signed(f, {Sign(f) * x}) = {x}
  BY <1>2, <1>3
<1>6. CASE a = {}
  <2>1. Signed(f, a) = {} /\ Both(a, b) = {} /\ Both(Signed(f, a), Signed(f, b)) = {}
    BY <1>4, <1>6, BothIs
  <2> QED BY <1>4, <1>6, <1>9, <1>10, <2>1
<1>7. CASE a # {} /\ b = {}
  <2>1. PICK x \in Int : a = {x}
    BY <1>7, AmountIs
  <2>2. Signed(f, a) = {Sign(f) * x} /\ Sign(f) * x \in Int
    BY <1>2, <1>3, <2>1
  <2>3. Both(a, b) = {} /\ Both(Signed(f, a), Signed(f, b)) = {} /\ Signed(f, {}) = {}
    BY <1>4, <1>7, BothIs
  <2> QED BY <1>7, <1>9, <1>10, <2>1, <2>2, <2>3
<1>8. CASE a # {} /\ b # {}
  <2>1. PICK x \in Int, y \in Int : a = {x} /\ b = {y}
    BY <1>8, AmountIs
  <2>2. Both(a, b) = {x + y} /\ x + y \in Int
    BY <2>1 DEF Both
  <2>3. Both(Signed(f, a), Signed(f, b)) = {Sign(f) * x + Sign(f) * y}
    <3>1. Signed(f, a) = {Sign(f) * x} /\ Signed(f, b) = {Sign(f) * y}
      BY <1>3, <2>1
    <3> QED BY <3>1 DEF Both
  <2>4. Signed(f, Both(a, b)) = Both(Signed(f, a), Signed(f, b))
    BY <1>3, <1>5, <2>1, <2>2, <2>3
  <2>5. Signed(f, a) = {Sign(f) * x} /\ Sign(f) * x \in Int
    BY <1>2, <1>3, <2>1
  <2> QED BY <1>9, <1>10, <2>1, <2>4, <2>5
<1> QED BY <1>6, <1>7, <1>8

(* The balance of amounts, one of each field.                                 *)
LEMMA BalanceIs ==
  ASSUME NEW K \in [Fields -> Amount]
  PROVE  /\ Balance(K) \in Amount
         /\ Balance(K) = {} <=> \E f \in Fields : K[f] = {}
         /\ (\A f \in Fields : K[f] = {0}) => Balance(K) = {0}
         /\ \A f \in Fields : (\A g \in Fields : g # f => K[g] = {0}) => Balance(K) = Signed(f, K[f])
<1> DEFINE B == [f \in Fields |-> Signed(f, K[f])]
<1>1. Balance(K) = Total(B)
  BY DEF Balance, Signed
<1>2. B \in [Fields -> Amount]
  BY SignedIs
<1>3. \A f \in Fields : (B[f] = {} <=> K[f] = {}) /\ (K[f] = {0} => B[f] = {0})
  BY SignedIs
<1>5. \A f \in Fields : B[f] = Signed(f, K[f])
  OBVIOUS
<1> HIDE DEF B
<1>4. Total(B) \in Amount /\ (Total(B) = {} <=> \E f \in Fields : B[f] = {})
  BY <1>2, FieldsAreFinite, TotalIs
<1>6. ASSUME \A f \in Fields : K[f] = {0} PROVE Total(B) = {0}
  BY <1>2, <1>3, <1>6, FieldsAreFinite, TotalOfZeros
<1>7. ASSUME NEW f \in Fields, \A g \in Fields : g # f => K[g] = {0} PROVE Total(B) = B[f]
  BY <1>2, <1>3, <1>7, FieldsAreFinite, TotalOfOne
<1> QED BY <1>1, <1>3, <1>4, <1>5, <1>6, <1>7

(* The balance of what two rows come to.                                      *)
LEMMA BalanceOfBoth ==
  ASSUME NEW I \in [Fields -> Amount], NEW J \in [Fields -> Amount], NEW K \in [Fields -> Amount],
         \A f \in Fields : K[f] = Both(I[f], J[f])
  PROVE  Balance(K) = Both(Balance(I), Balance(J))
<1> DEFINE B == [f \in Fields |-> Signed(f, I[f])]
           C == [f \in Fields |-> Signed(f, J[f])]
           D == [f \in Fields |-> Signed(f, K[f])]
<1>1. Balance(I) = Total(B) /\ Balance(J) = Total(C) /\ Balance(K) = Total(D)
  BY DEF Balance, Signed
<1>2. B \in [Fields -> Amount] /\ C \in [Fields -> Amount] /\ D \in [Fields -> Amount]
  BY SignedIs
<1>3. \A f \in Fields : D[f] = Both(B[f], C[f])
  BY SignedIs
<1> HIDE DEF B, C, D
<1> QED BY <1>1, <1>2, <1>3, FieldsAreFinite, TotalOfBoth

(* Units sold less those returned.                                            *)
LEMMA NetUnitsIs ==
  ASSUME NEW r \in RowType, NEW d \in RowType, NEW m \in RowType
  PROVE  /\ NetUnits(m) \in Amount /\ (NetUnits(m) = {} <=> m.sold = {} \/ m.returned = {})
         /\ m.sold = {0} /\ m.returned = {0} => NetUnits(m) = {0}
         /\ m.sold = Both(r.sold, d.sold) /\ m.returned = Both(r.returned, d.returned)
              => NetUnits(m) = Both(NetUnits(r), NetUnits(d))
<1>0. \A a, b \in Amount : \/ a = {} \/ b = {}
                           \/ \E x, y \in Int : a = {x} /\ b = {y}
  BY AmountIs
<1>1. ASSUME NEW k \in RowType
      PROVE  /\ NetUnits(k) \in Amount /\ (NetUnits(k) = {} <=> k.sold = {} \/ k.returned = {})
             /\ k.sold \in Amount /\ k.returned \in Amount
             /\ \A x, y \in Int : k.sold = {x} /\ k.returned = {y} => NetUnits(k) = {x - y}
  <2>1. k.sold \in Amount /\ k.returned \in Amount
    BY DEF RowType
  <2>2. k.sold = {} \/ k.returned = {} => NetUnits(k) = {}
    BY DEF NetUnits
  <2>3. \A x, y \in Int : k.sold = {x} /\ k.returned = {y} => NetUnits(k) = {x - y}
    BY DEF NetUnits
  <2>4. CASE k.sold = {} \/ k.returned = {}
    BY <2>1, <2>2, <2>4, AmountIs
  <2>5. CASE k.sold # {} /\ k.returned # {}
    <3>1. PICK x \in Int, y \in Int : k.sold = {x} /\ k.returned = {y}
      BY <1>0, <2>1, <2>5
    <3>2. NetUnits(k) = {x - y} /\ x - y \in Int
      BY <2>3, <3>1
    <3> QED BY <2>1, <2>3, <2>5, <3>2, AmountIs
  <2> QED BY <2>4, <2>5
<1>2. m.sold = {0} /\ m.returned = {0} => NetUnits(m) = {0}
  BY <1>1
<1>3. ASSUME m.sold = Both(r.sold, d.sold), m.returned = Both(r.returned, d.returned)
      PROVE  NetUnits(m) = Both(NetUnits(r), NetUnits(d))
  <2>1. CASE r.sold = {} \/ r.returned = {} \/ d.sold = {} \/ d.returned = {}
    <3>1. m.sold = {} \/ m.returned = {}
      BY <1>3, <2>1, BothIs
    <3>2. NetUnits(m) = {} /\ (NetUnits(r) = {} \/ NetUnits(d) = {})
      BY <1>1, <2>1, <3>1
    <3> QED BY <3>2, BothIs
  <2>2. CASE ~(r.sold = {} \/ r.returned = {} \/ d.sold = {} \/ d.returned = {})
    <3>0. r.sold \in Amount /\ r.returned \in Amount /\ d.sold \in Amount /\ d.returned \in Amount
      BY DEF RowType
    <3>1. PICK x \in Int, y \in Int : r.sold = {x} /\ r.returned = {y}
      BY <1>0, <2>2, <3>0
    <3>2. PICK z \in Int, w \in Int : d.sold = {z} /\ d.returned = {w}
      BY <1>0, <2>2, <3>0
    <3>3. m.sold = {x + z} /\ m.returned = {y + w}
      BY <1>3, <3>1, <3>2 DEF Both
    <3>4. NetUnits(m) = {(x + z) - (y + w)} /\ NetUnits(r) = {x - y} /\ NetUnits(d) = {z - w}
      BY <1>1, <3>1, <3>2, <3>3
    <3>5. Both({x - y}, {z - w}) = {(x - y) + (z - w)}
      BY DEF Both
    <3>6. (x + z) - (y + w) = (x - y) + (z - w)
      OBVIOUS
    <3> QED BY <3>4, <3>5, <3>6
  <2> QED BY <2>1, <2>2
<1> QED BY <1>1, <1>2, <1>3

\* Its tax leaves no rest.
Exact(o) == \A x \in o : (x * OzonTaxRate) % 100 = 0

(* What two such amounts come to is one too.                                  *)
LEMMA ExactOfBoth ==
  ASSUME NEW a \in Amount, NEW b \in Amount, Exact(a), Exact(b)
  PROVE  Exact(Both(a, b))
<1> SUFFICES ASSUME NEW x \in a, NEW y \in b PROVE ((x + y) * OzonTaxRate) % 100 = 0
  BY DEF Exact, Both
<1>1. x \in Int /\ y \in Int /\ OzonTaxRate \in Int
  BY AccrualAssumption DEF Amount
<1> DEFINE p == x * OzonTaxRate
           q == y * OzonTaxRate
<1>2. p \in Int /\ q \in Int /\ (x + y) * OzonTaxRate = p + q
  BY <1>1
<1>3. p % 100 = 0 /\ q % 100 = 0
  BY DEF Exact
<1> HIDE DEF p, q
<1>4. (p + q) % 100 = 0
  BY <1>2, <1>3
<1> QED BY <1>2, <1>4

(* What two ledgers hold together, of rows and marks.                         *)
LEMMA TogetherIs ==
  ASSUME NEW n, NEW e, NEW m, Joins(n, e, m)
  PROVE  /\ n \in LedgerType /\ e \in LedgerType /\ m \in LedgerType
         /\ RowAdds(n.day, e.day, m.day) /\ UnitsAdd(n.day, e.day, m.day)
         /\ m.day.classified <=> n.day.classified /\ e.day.classified
         /\ n.day \in RowType /\ e.day \in RowType /\ m.day \in RowType
         /\ MarksAdd(n, e, m)
         /\ ~Lost(m) => ~Lost(n) /\ ~Lost(e)
         /\ \A s \in Skus :
              /\ n.sku[s] \in RowType /\ e.sku[s] \in RowType /\ m.sku[s] \in RowType
              /\ RowAdds(n.sku[s], e.sku[s], m.sku[s])
              /\ m.allocated => (m.sku[s].classified <=> n.sku[s].classified /\ e.sku[s].classified)
              /\ ~Lost(m) => UnitsAdd(n.sku[s], e.sku[s], m.sku[s])
<1>1. RowAdds(n.day, e.day, m.day) /\ MarksAdd(n, e, m)
  BY DEF Joins, RowJoins
<1>2. ~Lost(m) => ~Lost(n) /\ ~Lost(e)
  BY <1>1 DEF Lost, RowAdds, MarksAdd
<1> QED BY <1>1, <1>2 DEF Joins, RowJoins

\* What holds of every ledger; k: of a line without a SKU, as long as this is not marked.
Firm(n, k) ==
  /\ "cogs" \in n.day.uncertain => k \/ n.unknownSku \/ n.day.money["revenue"] = {}
  /\ Exact(n.day.money["revenue"]) /\ \A s \in Skus : Exact(n.sku[s].money["revenue"])
  /\ ~n.sale /\ n.day.unitsKnown =>
       n.skuUnitsKnown /\ \A s \in Skus : n.sku[s].sold = {0} /\ n.sku[s].returned = {0}
  /\ n.skuUnitsKnown => \A s \in Skus : n.sku[s].sold # {} /\ n.sku[s].returned # {}
  /\ \A s \in Skus : n.sku[s].from = {} =>
       /\ \A f \in Fields : n.sku[s].money[f] = {0}
       /\ ~Lost(n) => n.sku[s].sold = {0} /\ n.sku[s].returned = {0}

(* It holds of two together.                                                  *)
LEMMA FirmTogether ==
  ASSUME NEW n, NEW e, NEW m, Joins(n, e, m), NEW k, Firm(n, k), Firm(e, k)
  PROVE  Firm(m, k)
<1>1. /\ n \in LedgerType /\ e \in LedgerType /\ m \in LedgerType
      /\ RowAdds(n.day, e.day, m.day) /\ UnitsAdd(n.day, e.day, m.day)
      /\ n.day \in RowType /\ e.day \in RowType /\ m.day \in RowType
      /\ MarksAdd(n, e, m)
      /\ ~Lost(m) => ~Lost(n) /\ ~Lost(e)
      /\ \A s \in Skus :
           /\ n.sku[s] \in RowType /\ e.sku[s] \in RowType /\ m.sku[s] \in RowType
           /\ RowAdds(n.sku[s], e.sku[s], m.sku[s])
           /\ ~Lost(m) => UnitsAdd(n.sku[s], e.sku[s], m.sku[s])
  BY TogetherIs
<1>2. "revenue" \in Fields /\ \A r \in RowType, f \in Fields : r.money[f] \in Amount
  BY DEF Fields, RowType
<1>0. \A r \in RowType : r.sold \in Amount /\ r.returned \in Amount
  BY DEF RowType
<1>3. "cogs" \in m.day.uncertain => k \/ m.unknownSku \/ m.day.money["revenue"] = {}
  <2>1. "cogs" \in m.day.uncertain => "cogs" \in n.day.uncertain \/ "cogs" \in e.day.uncertain
    BY <1>1 DEF RowAdds
  <2>2. m.day.money["revenue"] = Both(n.day.money["revenue"], e.day.money["revenue"])
    BY <1>1, <1>2 DEF RowAdds
  <2>3. n.day.money["revenue"] = {} \/ e.day.money["revenue"] = {} => m.day.money["revenue"] = {}
    BY <2>2, BothIs
  <2> QED BY <1>1, <2>1, <2>3 DEF Firm, MarksAdd
<1>4. Exact(m.day.money["revenue"]) /\ \A s \in Skus : Exact(m.sku[s].money["revenue"])
  <2>1. m.day.money["revenue"] = Both(n.day.money["revenue"], e.day.money["revenue"])
    BY <1>1, <1>2 DEF RowAdds
  <2>2. \A s \in Skus : m.sku[s].money["revenue"] = Both(n.sku[s].money["revenue"], e.sku[s].money["revenue"])
    BY <1>1, <1>2 DEF RowAdds
  <2> QED BY <1>1, <1>2, <2>1, <2>2, ExactOfBoth DEF Firm
<1>5. Both({0}, {0}) = {0}
  BY BothLaws, AmountIs
<1>6. ASSUME ~m.sale, m.day.unitsKnown
      PROVE  m.skuUnitsKnown /\ \A s \in Skus : m.sku[s].sold = {0} /\ m.sku[s].returned = {0}
  <2>1. ~n.sale /\ n.day.unitsKnown /\ ~e.sale /\ e.day.unitsKnown
    BY <1>1, <1>6 DEF MarksAdd, UnitsAdd
  <2>2. n.skuUnitsKnown /\ e.skuUnitsKnown
    BY <2>1 DEF Firm
  <2>3. m.skuUnitsKnown /\ ~Lost(m)
    BY <1>1, <2>2 DEF MarksAdd, Lost
  <2>4. ASSUME NEW s \in Skus PROVE m.sku[s].sold = {0} /\ m.sku[s].returned = {0}
    <3>1. n.sku[s].sold = {0} /\ n.sku[s].returned = {0} /\ e.sku[s].sold = {0} /\ e.sku[s].returned = {0}
      BY <2>1 DEF Firm
    <3>2. UnitsAdd(n.sku[s], e.sku[s], m.sku[s])
      BY <1>1, <2>3
    <3> QED BY <1>5, <3>1, <3>2 DEF UnitsAdd
  <2> QED BY <2>3, <2>4
<1>7. ASSUME m.skuUnitsKnown, NEW s \in Skus PROVE m.sku[s].sold # {} /\ m.sku[s].returned # {}
  <2>1. n.skuUnitsKnown /\ e.skuUnitsKnown /\ ~Lost(m)
    BY <1>1, <1>7 DEF MarksAdd, Lost
  <2>2. n.sku[s].sold # {} /\ n.sku[s].returned # {} /\ e.sku[s].sold # {} /\ e.sku[s].returned # {}
    BY <2>1 DEF Firm
  <2>3. UnitsAdd(n.sku[s], e.sku[s], m.sku[s])
    BY <1>1, <2>1
  <2>4. n.sku[s].sold \in Amount /\ n.sku[s].returned \in Amount /\ e.sku[s].sold \in Amount /\ e.sku[s].returned \in Amount
    BY <1>0, <1>1
  <2> QED BY <2>2, <2>3, <2>4, BothLaws DEF UnitsAdd
<1>8. ASSUME NEW s \in Skus, m.sku[s].from = {}
      PROVE  /\ \A f \in Fields : m.sku[s].money[f] = {0}
             /\ ~Lost(m) => m.sku[s].sold = {0} /\ m.sku[s].returned = {0}
  <2>1. n.sku[s].from = {} /\ e.sku[s].from = {}
    BY <1>1, <1>8 DEF RowAdds
  <2>2. ASSUME NEW f \in Fields PROVE m.sku[s].money[f] = {0}
    <3>1. n.sku[s].money[f] = {0} /\ e.sku[s].money[f] = {0}
      BY <2>1 DEF Firm
    <3>2. m.sku[s].money[f] = Both(n.sku[s].money[f], e.sku[s].money[f])
      BY <1>1 DEF RowAdds
    <3> QED BY <1>5, <3>1, <3>2
  <2>3. ASSUME ~Lost(m) PROVE m.sku[s].sold = {0} /\ m.sku[s].returned = {0}
    <3>1. n.sku[s].sold = {0} /\ n.sku[s].returned = {0} /\ e.sku[s].sold = {0} /\ e.sku[s].returned = {0}
      BY <1>1, <2>1, <2>3 DEF Firm
    <3>2. UnitsAdd(n.sku[s], e.sku[s], m.sku[s])
      BY <1>1, <2>3
    <3> QED BY <1>5, <3>1, <3>2 DEF UnitsAdd
  <2> QED BY <2>2, <2>3
<1> QED BY <1>3, <1>4, <1>6, <1>7, <1>8 DEF Firm

\* What SKUs and nobody keep of the money, and the revenue of SKUs.
Kept(n) == Both(Total([s \in Skus |-> Balance(n.sku[s].money)]), {n.day.unallocated})
SkuRevenue(n) == Total([s \in Skus |-> n.sku[s].money["revenue"]])

(* Both add up.                                                               *)
LEMMA KeptTogether ==
  ASSUME NEW n, NEW e, NEW m, Joins(n, e, m)
  PROVE  /\ Kept(n) \in Amount /\ Kept(e) \in Amount /\ Kept(m) \in Amount
         /\ Kept(m) = Both(Kept(n), Kept(e))
         /\ SkuRevenue(n) \in Amount /\ SkuRevenue(e) \in Amount /\ SkuRevenue(m) \in Amount
         /\ SkuRevenue(m) = Both(SkuRevenue(n), SkuRevenue(e))
<1>1. /\ RowAdds(n.day, e.day, m.day) /\ n.day \in RowType /\ e.day \in RowType /\ m.day \in RowType
      /\ \A s \in Skus :
           /\ n.sku[s] \in RowType /\ e.sku[s] \in RowType /\ m.sku[s] \in RowType
           /\ RowAdds(n.sku[s], e.sku[s], m.sku[s])
  BY TogetherIs
<1>2. "revenue" \in Fields /\ \A r \in RowType : r.money \in [Fields -> Amount] /\ r.unallocated \in Int
  BY DEF Fields, RowType
<1>3. IsFiniteSet(Skus)
  BY AccrualAssumption
<1> DEFINE N == [s \in Skus |-> Balance(n.sku[s].money)]
           X == [s \in Skus |-> Balance(e.sku[s].money)]
           M == [s \in Skus |-> Balance(m.sku[s].money)]
           P == [s \in Skus |-> n.sku[s].money["revenue"]]
           Q == [s \in Skus |-> e.sku[s].money["revenue"]]
           R == [s \in Skus |-> m.sku[s].money["revenue"]]
<1>4. N \in [Skus -> Amount] /\ X \in [Skus -> Amount] /\ M \in [Skus -> Amount]
  BY <1>1, <1>2, BalanceIs
<1>5. ASSUME NEW s \in Skus PROVE M[s] = Both(N[s], X[s])
  <2>1. /\ n.sku[s].money \in [Fields -> Amount] /\ e.sku[s].money \in [Fields -> Amount]
        /\ m.sku[s].money \in [Fields -> Amount]
    BY <1>1, <1>2
  <2>2. \A f \in Fields : m.sku[s].money[f] = Both(n.sku[s].money[f], e.sku[s].money[f])
    BY <1>1 DEF RowAdds
  <2> QED BY <2>1, <2>2, BalanceOfBoth
<1>6. P \in [Skus -> Amount] /\ Q \in [Skus -> Amount] /\ R \in [Skus -> Amount]
  BY <1>1, <1>2
<1>7. \A s \in Skus : R[s] = Both(P[s], Q[s])
  BY <1>1, <1>2 DEF RowAdds
<1>8. /\ Kept(n) = Both(Total(N), {n.day.unallocated}) /\ Kept(e) = Both(Total(X), {e.day.unallocated})
      /\ Kept(m) = Both(Total(M), {m.day.unallocated})
      /\ SkuRevenue(n) = Total(P) /\ SkuRevenue(e) = Total(Q) /\ SkuRevenue(m) = Total(R)
  BY DEF Kept, SkuRevenue
<1> HIDE DEF N, X, M, P, Q, R
<1>9. Total(N) \in Amount /\ Total(X) \in Amount /\ Total(M) \in Amount /\ Total(M) = Both(Total(N), Total(X))
  BY <1>3, <1>4, <1>5, TotalIs, TotalOfBoth
<1>10. Total(P) \in Amount /\ Total(Q) \in Amount /\ Total(R) \in Amount /\ Total(R) = Both(Total(P), Total(Q))
  BY <1>3, <1>6, <1>7, TotalIs, TotalOfBoth
<1>11. /\ n.day.unallocated \in Int /\ e.day.unallocated \in Int
       /\ m.day.unallocated = n.day.unallocated + e.day.unallocated
  BY <1>1, <1>2 DEF RowAdds
<1>12. /\ {n.day.unallocated} \in Amount /\ {e.day.unallocated} \in Amount
       /\ {m.day.unallocated} = Both({n.day.unallocated}, {e.day.unallocated}) /\ {m.day.unallocated} \in Amount
  BY <1>11, AmountIs, BothIs
<1>13. /\ Both(Total(N), {n.day.unallocated}) \in Amount /\ Both(Total(X), {e.day.unallocated}) \in Amount
       /\ Both(Total(M), {m.day.unallocated}) \in Amount
       /\ Both(Total(M), {m.day.unallocated}) = Both(Both(Total(N), {n.day.unallocated}), Both(Total(X), {e.day.unallocated}))
  <2>1. \A a, b, c, d \in Amount : Both(Both(a, b), Both(c, d)) = Both(Both(a, c), Both(b, d))
    BY BothOfFour
  <2>2. Both(Both(Total(N), {n.day.unallocated}), Both(Total(X), {e.day.unallocated}))
          = Both(Both(Total(N), Total(X)), Both({n.day.unallocated}, {e.day.unallocated}))
    BY <1>9, <1>12, <2>1
  <2>3. \A a, b \in Amount : Both(a, b) \in Amount
    BY BothLaws
  <2> QED BY <1>9, <1>12, <2>2, <2>3
<1> QED BY <1>8, <1>10, <1>13

\* What holds of a ledger of which it is known what was paid.
AddsUp(n, k, o) ==
  o # {} =>
    /\ n.day.classified => n.day.uncertain = {} /\ Balance(n.day.money) = o
    /\ n.day.gaps = {} /\ \A s \in Skus : n.sku[s].gaps = {}
    /\ Kept(n) # {} => Kept(n) = o
    /\ ~k /\ ~n.unknownSku /\ SkuRevenue(n) # {} => n.day.money["revenue"] = SkuRevenue(n)

(* It holds of two together.                                                  *)
LEMMA AddsUpTogether ==
  ASSUME NEW n, NEW e, NEW m, Joins(n, e, m), NEW k, NEW o \in Amount, NEW p \in Amount, NEW q \in Amount,
         AddsUp(n, k, o), AddsUp(e, k, p), q # {} => q = Both(o, p)
  PROVE  AddsUp(m, k, q)
<1> SUFFICES ASSUME q # {} PROVE AddsUp(m, k, q)
  BY DEF AddsUp
<1>1. o # {} /\ p # {} /\ q = Both(o, p)
  BY BothIs
<1>2. /\ RowAdds(n.day, e.day, m.day) /\ n.day \in RowType /\ e.day \in RowType /\ m.day \in RowType
      /\ m.day.classified <=> n.day.classified /\ e.day.classified
      /\ MarksAdd(n, e, m)
      /\ \A s \in Skus : RowAdds(n.sku[s], e.sku[s], m.sku[s])
  BY TogetherIs
<1>3. "revenue" \in Fields /\ \A r \in RowType : r.money \in [Fields -> Amount]
  BY DEF Fields, RowType
<1>4. ASSUME m.day.classified PROVE m.day.uncertain = {} /\ Balance(m.day.money) = q
  <2>1. n.day.uncertain = {} /\ Balance(n.day.money) = o /\ e.day.uncertain = {} /\ Balance(e.day.money) = p
    BY <1>1, <1>2, <1>4 DEF AddsUp
  <2>2. \A f \in Fields : m.day.money[f] = Both(n.day.money[f], e.day.money[f])
    BY <1>2 DEF RowAdds
  <2>3. Balance(m.day.money) = Both(o, p)
    BY <1>2, <1>3, <2>1, <2>2, BalanceOfBoth
  <2> QED BY <1>1, <1>2, <2>1, <2>3 DEF RowAdds
<1>5. m.day.gaps = {} /\ \A s \in Skus : m.sku[s].gaps = {}
  BY <1>1, <1>2 DEF AddsUp, RowAdds
<1>6. /\ Kept(n) \in Amount /\ Kept(e) \in Amount /\ Kept(m) = Both(Kept(n), Kept(e))
      /\ SkuRevenue(n) \in Amount /\ SkuRevenue(e) \in Amount
      /\ SkuRevenue(m) = Both(SkuRevenue(n), SkuRevenue(e))
  BY KeptTogether
<1>7. ASSUME Kept(m) # {} PROVE Kept(m) = q
  <2>1. Kept(n) # {} /\ Kept(e) # {}
    BY <1>6, <1>7, BothIs
  <2> QED BY <1>1, <1>6, <2>1 DEF AddsUp
<1>8. ASSUME ~k, ~m.unknownSku, SkuRevenue(m) # {} PROVE m.day.money["revenue"] = SkuRevenue(m)
  <2>1. SkuRevenue(n) # {} /\ SkuRevenue(e) # {} /\ ~n.unknownSku /\ ~e.unknownSku
    BY <1>2, <1>6, <1>8, BothIs DEF MarksAdd
  <2>2. n.day.money["revenue"] = SkuRevenue(n) /\ e.day.money["revenue"] = SkuRevenue(e)
    BY <1>1, <1>8, <2>1 DEF AddsUp
  <2>3. m.day.money["revenue"] = Both(n.day.money["revenue"], e.day.money["revenue"])
    BY <1>2, <1>3 DEF RowAdds
  <2> QED BY <1>6, <2>2, <2>3
<1> QED BY <1>4, <1>5, <1>7, <1>8 DEF AddsUp

\* What a ledger says of SKUs: their own money, and their units.
Says(n, own, un) ==
  \A s \in Skus :
    /\ n.allocated /\ n.sku[s].classified =>
         n.sku[s].gaps = {} /\ n.sku[s].uncertain = {} /\ Balance(n.sku[s].money) = own[s]
    /\ "cogs" \notin n.day.uncertain /\ ~Lost(n) => NetUnits(n.sku[s]) = un[s]

(* Two ledgers say it together.                                               *)
LEMMA SaysTogether ==
  ASSUME NEW n, NEW e, NEW m, Joins(n, e, m), NEW v, NEW w, NEW x, NEW y, NEW own, NEW un,
         Says(n, v, w), Says(e, x, y),
         \A s \in Skus : own[s] = Both(v[s], x[s]) /\ un[s] = Both(w[s], y[s])
  PROVE  Says(m, own, un)
<1>1. /\ RowAdds(n.day, e.day, m.day)
      /\ MarksAdd(n, e, m)
      /\ ~Lost(m) => ~Lost(n) /\ ~Lost(e)
      /\ \A s \in Skus :
           /\ n.sku[s] \in RowType /\ e.sku[s] \in RowType /\ m.sku[s] \in RowType
           /\ RowAdds(n.sku[s], e.sku[s], m.sku[s])
           /\ m.allocated => (m.sku[s].classified <=> n.sku[s].classified /\ e.sku[s].classified)
           /\ ~Lost(m) => UnitsAdd(n.sku[s], e.sku[s], m.sku[s])
  BY TogetherIs
<1>2. \A r \in RowType : r.money \in [Fields -> Amount]
  BY DEF RowType
<1> SUFFICES ASSUME NEW s \in Skus
             PROVE  /\ m.allocated /\ m.sku[s].classified =>
                         m.sku[s].gaps = {} /\ m.sku[s].uncertain = {} /\ Balance(m.sku[s].money) = own[s]
                    /\ "cogs" \notin m.day.uncertain /\ ~Lost(m) => NetUnits(m.sku[s]) = un[s]
  BY DEF Says
<1>3. ASSUME m.allocated, m.sku[s].classified
      PROVE  m.sku[s].gaps = {} /\ m.sku[s].uncertain = {} /\ Balance(m.sku[s].money) = own[s]
  <2>1. n.allocated /\ e.allocated /\ n.sku[s].classified /\ e.sku[s].classified
    BY <1>1, <1>3 DEF MarksAdd
  <2>2. /\ n.sku[s].gaps = {} /\ n.sku[s].uncertain = {} /\ Balance(n.sku[s].money) = v[s]
        /\ e.sku[s].gaps = {} /\ e.sku[s].uncertain = {} /\ Balance(e.sku[s].money) = x[s]
    BY <2>1 DEF Says
  <2>3. \A f \in Fields : m.sku[s].money[f] = Both(n.sku[s].money[f], e.sku[s].money[f])
    BY <1>1 DEF RowAdds
  <2>4. Balance(m.sku[s].money) = Both(v[s], x[s])
    BY <1>1, <1>2, <2>2, <2>3, BalanceOfBoth
  <2>5. m.sku[s].gaps = {} /\ m.sku[s].uncertain = {}
    BY <1>1, <2>2 DEF RowAdds
  <2> QED BY <2>4, <2>5
<1>4. ASSUME "cogs" \notin m.day.uncertain, ~Lost(m) PROVE NetUnits(m.sku[s]) = un[s]
  <2>1. "cogs" \notin n.day.uncertain /\ "cogs" \notin e.day.uncertain /\ ~Lost(n) /\ ~Lost(e)
    BY <1>1, <1>4 DEF RowAdds
  <2>2. NetUnits(n.sku[s]) = w[s] /\ NetUnits(e.sku[s]) = y[s]
    BY <2>1 DEF Says
  <2>3. UnitsAdd(n.sku[s], e.sku[s], m.sku[s])
    BY <1>1, <1>4
  <2>4. NetUnits(m.sku[s]) = Both(NetUnits(n.sku[s]), NetUnits(e.sku[s]))
    BY <1>1, <2>3, NetUnitsIs DEF UnitsAdd
  <2> QED BY <2>2, <2>4
<1> QED BY <1>3, <1>4

--------------------------------------------------------------------------------
(* A piece of an accrual is a ledger of its own, whose money is known or not. *)

\* What the details of an accrual come to, once they are read.
RawOf(n) == IF n.complete THEN {n.raw} ELSE {}
Tells(n, k, o, own, un) == Firm(n, k) /\ AddsUp(n, k, o) /\ Says(n, own, un)

\* An amount of one SKU.
At(x, t) == [s \in Skus |-> IF s = t THEN x ELSE {0}]
\* A ledger of a part of an accrual, whose money is o, and that of SKU t w, with units u.
Part(n, t, k, o, w, u) ==
  /\ n \in LedgerType /\ n.net = 0 /\ n.mismatch = {0} /\ n.reconciled = {}
  /\ Tells(n, k, o, At(w, t), At(u, t))
Piece(n, t, k, o, w, u) == Part(n, t, k, o, w, u) /\ RawOf(n) = o

(* Money of the details is an amount, and adds up.                            *)
LEMMA RawTogether ==
  ASSUME NEW n, NEW e, NEW m, Merges(n, e, m)
  PROVE  RawOf(n) \in Amount /\ RawOf(e) \in Amount /\ RawOf(m) \in Amount /\ RawOf(m) = Both(RawOf(n), RawOf(e))
<1>1. n \in LedgerType /\ e \in LedgerType /\ m \in LedgerType /\ m.raw = n.raw + e.raw /\ (m.complete <=> n.complete /\ e.complete)
  BY DEF Merges, Joins, RawAdds
<1>2. \A x \in LedgerType : x.raw \in Int
  BY DEF LedgerType
<1>3. \A x \in LedgerType : RawOf(x) \in Amount
  BY <1>2, AmountIs DEF RawOf
<1>4. CASE n.complete /\ e.complete
  <2>1. RawOf(n) = {n.raw} /\ RawOf(e) = {e.raw} /\ RawOf(m) = {n.raw + e.raw}
    BY <1>1, <1>4 DEF RawOf
  <2> QED BY <1>1, <1>2, <1>3, <2>1, BothIs
<1>5. CASE ~(n.complete /\ e.complete)
  <2>1. RawOf(m) = {} /\ (RawOf(n) = {} \/ RawOf(e) = {})
    BY <1>1, <1>5 DEF RawOf
  <2> QED BY <1>1, <1>3, <2>1, BothIs
<1> QED BY <1>4, <1>5

(* What two ledgers tell, they tell together.                                 *)
LEMMA TellsTogether ==
  ASSUME NEW n, NEW e, NEW m, Joins(n, e, m), NEW k, NEW o \in Amount, NEW p \in Amount, NEW q \in Amount,
         NEW v, NEW w, NEW x, NEW y, NEW own, NEW un,
         Tells(n, k, o, v, w), Tells(e, k, p, x, y), q # {} => q = Both(o, p),
         \A s \in Skus : own[s] = Both(v[s], x[s]) /\ un[s] = Both(w[s], y[s])
  PROVE  Tells(m, k, q, own, un)
<1>1. Firm(n, k) /\ Firm(e, k) /\ AddsUp(n, k, o) /\ AddsUp(e, k, p) /\ Says(n, v, w) /\ Says(e, x, y)
  BY DEF Tells
<1>2. Firm(m, k)
  BY <1>1, FirmTogether
<1>3. AddsUp(m, k, q)
  BY <1>1, AddsUpTogether
<1>4. Says(m, own, un)
  BY <1>1, SaysTogether
<1> QED BY <1>2, <1>3, <1>4 DEF Tells

(* An amount of one SKU adds up.                                              *)
LEMMA AtBoth ==
  ASSUME NEW w \in Amount, NEW x \in Amount, NEW t
  PROVE  \A s \in Skus : At(Both(w, x), t)[s] = Both(At(w, t)[s], At(x, t)[s])
<1>1. Both({0}, {0}) = {0}
  BY DEF Both
<1> QED BY <1>1 DEF At

(* A part with one more, whose money is unknown or is what it reads.          *)
LEMMA PieceThen ==
  ASSUME NEW n, NEW e, NEW m, Merges(n, e, m), NEW t, NEW k,
         NEW o \in Amount, NEW w \in Amount, NEW u \in Amount, NEW p \in Amount, NEW x \in Amount, NEW y \in Amount,
         Piece(n, t, k, o, w, u), Part(e, t, k, p, x, y), o = {} \/ RawOf(e) = p
  PROVE  Piece(m, t, k, Both(o, p), Both(w, x), Both(u, y))
<1>1. Joins(n, e, m)
  BY DEF Merges
<1>2. RawOf(m) = Both(o, p)
  <2>1. RawOf(n) = o /\ RawOf(m) = Both(RawOf(n), RawOf(e))
    BY RawTogether DEF Piece
  <2>2. o = {} => Both(o, RawOf(e)) = {} /\ Both(o, p) = {}
    BY BothIs
  <2> QED BY <2>1, <2>2
<1>3. Both(o, p) \in Amount
  BY BothLaws
<1>4. Tells(n, k, o, At(w, t), At(u, t)) /\ Tells(e, k, p, At(x, t), At(y, t))
  BY DEF Piece, Part
<1>5. \A s \in Skus : /\ At(Both(w, x), t)[s] = Both(At(w, t)[s], At(x, t)[s])
                      /\ At(Both(u, y), t)[s] = Both(At(u, t)[s], At(y, t)[s])
  BY AtBoth
<1>6. Tells(m, k, Both(o, p), At(Both(w, x), t), At(Both(u, y), t))
  <2> DEFINE q == Both(o, p)
  <2>1. q \in Amount /\ q = Both(o, p)
    BY <1>3
  <2> HIDE DEF q
  <2> QED BY <1>1, <1>4, <1>5, <2>1, TellsTogether
<1>7. m \in LedgerType /\ m.net = 0 /\ m.mismatch = {0} /\ m.reconciled = {}
  <2>1. /\ m \in LedgerType /\ m.net = n.net + e.net /\ m.mismatch = Both(n.mismatch, e.mismatch)
        /\ m.reconciled = n.reconciled \cup e.reconciled
    BY <1>1 DEF Joins
  <2>2. /\ n.net = 0 /\ n.mismatch = {0} /\ n.reconciled = {}
        /\ e.net = 0 /\ e.mismatch = {0} /\ e.reconciled = {}
    BY DEF Piece, Part
  <2>3. Both({0}, {0}) = {0}
    BY DEF Both
  <2> QED BY <2>1, <2>2, <2>3
<1> QED BY <1>2, <1>6, <1>7 DEF Piece, Part

(* The empty row.                                                             *)
LEMMA EmptyRowIs ==
  /\ EmptyRow \in RowType /\ \A f \in Fields : EmptyRow.money[f] = {0}
  /\ EmptyRow.unallocated = 0 /\ EmptyRow.counted = {} /\ EmptyRow.gaps = {} /\ EmptyRow.uncertain = {}
  /\ EmptyRow.sold = {0} /\ EmptyRow.returned = {0} /\ EmptyRow.unitsKnown /\ EmptyRow.classified
  /\ ~EmptyRow.returns /\ EmptyRow.from = {}
  /\ Balance(EmptyRow.money) = {0} /\ NetUnits(EmptyRow) = {0}
<1>1. EmptyRow \in RowType
  BY EmptyIs
<1>2. /\ \A f \in Fields : EmptyRow.money[f] = {0}
      /\ EmptyRow.unallocated = 0 /\ EmptyRow.counted = {} /\ EmptyRow.gaps = {} /\ EmptyRow.uncertain = {}
      /\ EmptyRow.sold = {0} /\ EmptyRow.returned = {0} /\ (EmptyRow.unitsKnown = TRUE) /\ (EmptyRow.classified = TRUE)
      /\ (EmptyRow.returns = FALSE) /\ EmptyRow.from = {}
  BY DEF EmptyRow
<1>3. EmptyRow.money \in [Fields -> Amount]
  BY <1>1 DEF RowType
<1>4. Balance(EmptyRow.money) = {0}
  BY <1>2, <1>3, BalanceIs
<1>5. NetUnits(EmptyRow) = {0}
  BY <1>1, <1>2, NetUnitsIs
<1> QED BY <1>1, <1>2, <1>4, <1>5

(* The empty ledger.                                                          *)
LEMMA EmptyLedgerIs ==
  /\ EmptyLedger \in LedgerType /\ EmptyLedger.day = EmptyRow /\ \A s \in Skus : EmptyLedger.sku[s] = EmptyRow
  /\ EmptyLedger.net = 0 /\ EmptyLedger.mismatch = {0} /\ EmptyLedger.reconciled = {}
  /\ EmptyLedger.allocated /\ EmptyLedger.skuUnitsKnown /\ ~EmptyLedger.unknownSku /\ ~EmptyLedger.sale
  /\ EmptyLedger.raw = 0 /\ EmptyLedger.complete
<1>1. /\ EmptyLedger.day = EmptyRow /\ \A s \in Skus : EmptyLedger.sku[s] = EmptyRow
      /\ EmptyLedger.net = 0 /\ EmptyLedger.mismatch = {0} /\ EmptyLedger.reconciled = {}
      /\ (EmptyLedger.allocated = TRUE) /\ (EmptyLedger.skuUnitsKnown = TRUE) /\ (EmptyLedger.unknownSku = FALSE)
      /\ (EmptyLedger.sale = FALSE) /\ EmptyLedger.raw = 0 /\ (EmptyLedger.complete = TRUE)
  BY DEF EmptyLedger
<1> QED BY <1>1, EmptyIs

\* What the row of the day and that of SKU t, row, say of a part.
RowsSay(y, row, t, k, o, w, u) ==
  /\ "cogs" \in y.day.uncertain => k \/ y.unknownSku \/ y.day.money["revenue"] = {}
  /\ Exact(y.day.money["revenue"]) /\ Exact(row.money["revenue"])
  /\ ~y.sale /\ y.day.unitsKnown => y.skuUnitsKnown /\ row.sold = {0} /\ row.returned = {0}
  /\ y.skuUnitsKnown => row.sold # {} /\ row.returned # {}
  /\ row.from = {} => (\A f \in Fields : row.money[f] = {0}) /\ row.sold = {0} /\ row.returned = {0}
  /\ o # {} =>
       /\ y.day.classified => y.day.uncertain = {} /\ Balance(y.day.money) = o
       /\ y.day.gaps = {} /\ row.gaps = {}
       /\ Balance(row.money) # {} => Both(Balance(row.money), {y.day.unallocated}) = o
       /\ ~k /\ ~y.unknownSku /\ row.money["revenue"] # {} => y.day.money["revenue"] = row.money["revenue"]
  /\ t \in Skus /\ y.allocated /\ row.classified => row.gaps = {} /\ row.uncertain = {} /\ Balance(row.money) = w
  /\ t \in Skus /\ "cogs" \notin y.day.uncertain /\ ~Lost(y) => NetUnits(row) = u

(* A part that changes the day and at most one SKU.                           *)
LEMMA PartIs ==
  ASSUME NEW y \in LedgerType, y.net = 0, y.mismatch = {0}, y.reconciled = {},
         NEW t \in Skus \cup {NoSku}, NEW row \in RowType, t = NoSku => row = EmptyRow,
         \A s \in Skus : y.sku[s] = IF s = t THEN row ELSE EmptyRow,
         NEW k, NEW o, NEW w, NEW u, RowsSay(y, row, t, k, o, w, u)
  PROVE  Part(y, t, k, o, w, u)
<1>0. /\ EmptyRow \in RowType /\ \A f \in Fields : EmptyRow.money[f] = {0}
      /\ EmptyRow.gaps = {} /\ EmptyRow.uncertain = {}
      /\ EmptyRow.sold = {0} /\ EmptyRow.returned = {0}
      /\ Balance(EmptyRow.money) = {0} /\ NetUnits(EmptyRow) = {0}
  BY EmptyRowIs
<1>1. "revenue" \in Fields /\ NoSku \notin Skus /\ IsFiniteSet(Skus) /\ OzonTaxRate \in Nat
  BY AccrualAssumption DEF Fields
<1>2. Exact({0})
  BY <1>1 DEF Exact
<1>3. EmptyRow.money["revenue"] = {0}
  BY <1>0, <1>1
<1>4. \A s \in Skus : (s = t /\ y.sku[s] = row /\ t \in Skus) \/ (s # t /\ y.sku[s] = EmptyRow)
  OBVIOUS
<1> HIDE DEF EmptyRow
<1>5. Firm(y, k)
  <2>1. Exact(y.day.money["revenue"]) /\ \A s \in Skus : Exact(y.sku[s].money["revenue"])
    BY <1>2, <1>3, <1>4 DEF RowsSay
  <2>2. ~y.sale /\ y.day.unitsKnown =>
          y.skuUnitsKnown /\ \A s \in Skus : y.sku[s].sold = {0} /\ y.sku[s].returned = {0}
    BY <1>0, <1>4 DEF RowsSay
  <2>3. y.skuUnitsKnown => \A s \in Skus : y.sku[s].sold # {} /\ y.sku[s].returned # {}
    BY <1>0, <1>4 DEF RowsSay
  <2>4. \A s \in Skus : y.sku[s].from = {} =>
          (\A f \in Fields : y.sku[s].money[f] = {0}) /\ y.sku[s].sold = {0} /\ y.sku[s].returned = {0}
    BY <1>0, <1>4 DEF RowsSay
  <2>5. "cogs" \in y.day.uncertain => k \/ y.unknownSku \/ y.day.money["revenue"] = {}
    BY DEF RowsSay
  <2> QED BY <2>1, <2>2, <2>3, <2>4, <2>5 DEF Firm
<1>6. SkuRevenue(y) = row.money["revenue"]
  <2> DEFINE R == [s \in Skus |-> y.sku[s].money["revenue"]]
  <2>1. R \in [Skus -> Amount]
    <3>1. \A r \in RowType : r.money["revenue"] \in Amount
      BY <1>1 DEF RowType
    <3> QED BY <1>0, <3>1
  <2>2. \A s \in Skus : s # t => R[s] = {0}
    BY <1>3, <1>4
  <2>3. t \in Skus => R[t] = row.money["revenue"]
    BY <1>4
  <2> HIDE DEF R
  <2>4. CASE t \in Skus
    <3>1. Total(R) = R[t]
      BY <1>1, <2>1, <2>2, <2>4, TotalOfOne
    <3> QED BY <2>3, <2>4, <3>1 DEF SkuRevenue, R
  <2>5. CASE t = NoSku
    <3>1. \A s \in Skus : R[s] = {0}
      BY <1>1, <2>2, <2>5
    <3>2. Total(R) = {0}
      BY <1>1, <2>1, <3>1, TotalOfZeros
    <3> QED BY <1>3, <2>5, <3>2 DEF SkuRevenue, R
  <2> QED BY <2>4, <2>5
<1>7. Total([s \in Skus |-> Balance(y.sku[s].money)]) = Balance(row.money)
  <2> DEFINE R == [s \in Skus |-> Balance(y.sku[s].money)]
  <2>1. R \in [Skus -> Amount]
    <3>1. \A r \in RowType : Balance(r.money) \in Amount
      <4>1. \A r \in RowType : r.money \in [Fields -> Amount]
        BY DEF RowType
      <4> QED BY <4>1, BalanceIs
    <3> QED BY <1>0, <3>1
  <2>2. \A s \in Skus : s # t => R[s] = {0}
    BY <1>0, <1>4
  <2>3. t \in Skus => R[t] = Balance(row.money)
    BY <1>4
  <2> HIDE DEF R
  <2>4. CASE t \in Skus
    <3>1. Total(R) = R[t]
      BY <1>1, <2>1, <2>2, <2>4, TotalOfOne
    <3> QED BY <2>3, <2>4, <3>1 DEF R
  <2>5. CASE t = NoSku
    <3>1. \A s \in Skus : R[s] = {0}
      BY <1>1, <2>2, <2>5
    <3>2. Total(R) = {0}
      BY <1>1, <2>1, <3>1, TotalOfZeros
    <3> QED BY <1>0, <2>5, <3>2 DEF R
  <2> QED BY <2>4, <2>5
<1>8. AddsUp(y, k, o)
  <2>1. Kept(y) = Both(Balance(row.money), {y.day.unallocated})
    BY <1>7 DEF Kept
  <2>2. \A b : Both({}, b) = {}
    BY BothIs
  <2>3. Kept(y) # {} => Balance(row.money) # {}
    BY <2>1, <2>2
  <2>4. o # {} => \A s \in Skus : y.sku[s].gaps = {}
    BY <1>0, <1>4 DEF RowsSay
  <2> QED BY <1>6, <2>1, <2>3, <2>4 DEF AddsUp, RowsSay
<1>9. Says(y, At(w, t), At(u, t))
  <2> SUFFICES ASSUME NEW s \in Skus
               PROVE  /\ y.allocated /\ y.sku[s].classified =>
                           y.sku[s].gaps = {} /\ y.sku[s].uncertain = {} /\ Balance(y.sku[s].money) = At(w, t)[s]
                      /\ "cogs" \notin y.day.uncertain /\ ~Lost(y) => NetUnits(y.sku[s]) = At(u, t)[s]
    BY DEF Says
  <2>1. CASE s = t /\ y.sku[s] = row
    BY <2>1 DEF RowsSay, At
  <2>2. CASE s # t /\ y.sku[s] = EmptyRow
    BY <1>0, <2>2 DEF At
  <2> QED BY <1>4, <2>1, <2>2
<1> QED BY <1>5, <1>8, <1>9 DEF Part, Tells

\* A row of which nothing is told but where it comes from.
Clean(r) ==
  /\ r \in RowType /\ \A f \in Fields : r.money[f] = {0}
  /\ r.unallocated = 0 /\ r.gaps = {} /\ r.uncertain = {}
  /\ r.sold = {0} /\ r.returned = {0} /\ r.unitsKnown /\ r.classified
\* A row that says as little of money, or of units.
NoMoney(r) ==
  /\ r \in RowType /\ \A f \in Fields : r.money[f] = {0}
  /\ r.unallocated = 0 /\ r.gaps = {} /\ r.uncertain = {} /\ r.classified /\ Balance(r.money) = {0}
StillUnits(r) == r.sold = {0} /\ r.returned = {0} /\ r.unitsKnown /\ NetUnits(r) = {0}

(* Such are the empty row, and that of a SKU that an accrual names.           *)
LEMMA CleanIs ==
  /\ Clean(EmptyRow)
  /\ \A id \in Ids : Clean([EmptyRow EXCEPT !.from = @ \cup {id}]) /\ id \in [EmptyRow EXCEPT !.from = @ \cup {id}].from
  /\ \A r : Clean(r) => NoMoney(r) /\ StillUnits(r) /\ Exact(r.money["revenue"])
<1>1. Clean(EmptyRow)
  BY EmptyRowIs DEF Clean
<1>2. ASSUME NEW r, Clean(r), NEW id \in Ids, NEW d, d = [r EXCEPT !.from = @ \cup {id}]
      PROVE  Clean(d) /\ id \in d.from
  <2>1. d \in RowType
    BY <1>2, RowsAreTyped DEF Clean
  <2>2. /\ d.money = r.money /\ d.unallocated = r.unallocated /\ d.gaps = r.gaps /\ d.uncertain = r.uncertain
        /\ d.sold = r.sold /\ d.returned = r.returned /\ (d.unitsKnown = r.unitsKnown) /\ (d.classified = r.classified)
        /\ id \in d.from
    BY <1>2 DEF Clean, RowType
  <2> QED BY <1>2, <2>1, <2>2 DEF Clean
<1>3. ASSUME NEW r, Clean(r) PROVE NoMoney(r) /\ StillUnits(r) /\ Exact(r.money["revenue"])
  <2>1. r.money \in [Fields -> Amount] /\ "revenue" \in Fields
    BY <1>3 DEF Clean, RowType, Fields
  <2>2. Balance(r.money) = {0}
    BY <1>3, <2>1, BalanceIs DEF Clean
  <2>3. NetUnits(r) = {0}
    BY <1>3, NetUnitsIs DEF Clean
  <2>4. 0 * OzonTaxRate = 0 /\ 0 % 100 = 0
    BY AccrualAssumption
  <2>5. r.money["revenue"] = {0}
    BY <1>3, <2>1 DEF Clean
  <2>6. Exact({0})
    BY <2>4 DEF Exact
  <2> QED BY <1>3, <2>2, <2>3, <2>5, <2>6 DEF Clean, NoMoney, StillUnits
<1> QED BY <1>1, <1>2, <1>3

\* A row that is told of an amount, and of nothing else.
HasBooked(d, r, f, x) ==
  /\ d \in RowType /\ Balance(d.money) = {x} /\ d.unallocated = 0
  /\ d.gaps = {} /\ d.uncertain = {} /\ d.classified /\ d.from = r.from /\ StillUnits(d)
  /\ d.money["revenue"] = IF f = "revenue" THEN {x} ELSE {0}

(* An amount booked in a clean row.                                           *)
LEMMA CleanBooked ==
  ASSUME NEW r, Clean(r), NEW f \in Fields, NEW x \in Int, NEW d, d = Booked(r, f, x)
  PROVE  HasBooked(d, r, f, x)
<1>0. r \in RowType /\ "revenue" \in Fields
  BY DEF Clean, Fields
<1>1. Sign(f) * x \in Int /\ 0 + Sign(f) * x = Sign(f) * x /\ (f = "revenue" => Sign(f) * x = x)
  BY DEF Sign, Charges
<1>2. Plus({0}, Sign(f) * x) = {Sign(f) * x}
  BY <1>1 DEF Plus
<1>3. d \in RowType
  BY <1>0, RowsAreTyped
<1>4. /\ d.money = [r.money EXCEPT ![f] = Plus(@, Sign(f) * x)] /\ d.unallocated = r.unallocated /\ d.gaps = r.gaps
      /\ d.uncertain = r.uncertain /\ d.sold = r.sold /\ d.returned = r.returned
      /\ (d.unitsKnown = r.unitsKnown) /\ (d.classified = r.classified) /\ d.from = r.from
  BY <1>0 DEF Booked, RowType
<1>5. r.money \in [Fields -> Amount] /\ d.money \in [Fields -> Amount]
  BY <1>0, <1>3 DEF RowType
<1>6. d.money[f] = {Sign(f) * x} /\ \A g \in Fields : g # f => d.money[g] = {0}
  BY <1>2, <1>4, <1>5 DEF Clean
<1>7. Balance(d.money) = Signed(f, {Sign(f) * x})
  <2>1. \A K \in [Fields -> Amount] : (\A g \in Fields : g # f => K[g] = {0}) => Balance(K) = Signed(f, K[f])
    BY BalanceIs
  <2>2. Balance(d.money) = Signed(f, d.money[f])
    BY <1>5, <1>6, <2>1
  <2> QED BY <1>6, <2>2
<1>8. Signed(f, {Sign(f) * x}) = {x}
  <2>1. {0} \in Amount
    BY AmountIs
  <2> QED BY <2>1, SignedIs
<1>9. NetUnits(d) = {0}
  <2>1. d.sold = {0} /\ d.returned = {0}
    BY <1>4 DEF Clean
  <2> QED BY <1>3, <2>1, NetUnitsIs
<1>10. d.money["revenue"] = (IF f = "revenue" THEN {x} ELSE {0})
  BY <1>0, <1>1, <1>6
<1> QED BY <1>3, <1>4, <1>7, <1>8, <1>9, <1>10 DEF Clean, StillUnits, HasBooked

(* What belongs to nobody.                                                    *)
LEMMA AsideIs ==
  ASSUME NEW r \in RowType, NEW x \in Int, NEW d, d = Aside(r, x)
  PROVE  /\ d \in RowType /\ d.money = r.money /\ d.unallocated = r.unallocated + x /\ d.counted = r.counted
         /\ d.gaps = r.gaps /\ d.uncertain = r.uncertain /\ d.sold = r.sold /\ d.returned = r.returned
         /\ (d.unitsKnown <=> r.unitsKnown) /\ (d.classified <=> r.classified) /\ (d.returns <=> r.returns)
         /\ d.from = r.from
<1>1. /\ d.money = r.money /\ d.unallocated = r.unallocated + x /\ d.counted = r.counted
      /\ d.gaps = r.gaps /\ d.uncertain = r.uncertain /\ d.sold = r.sold /\ d.returned = r.returned
      /\ (d.unitsKnown = r.unitsKnown) /\ (d.classified = r.classified) /\ (d.returns = r.returns)
      /\ d.from = r.from
  BY DEF Aside, RowType
<1>2. d \in RowType
  BY DEF Aside, RowType
<1> QED BY <1>1, <1>2

(* A row that is classified no more.                                          *)
LEMMA UnclassifiedIs ==
  ASSUME NEW r \in RowType, NEW d, d = Unclassified(r)
  PROVE  /\ d \in RowType /\ d.money = r.money /\ d.unallocated = r.unallocated /\ d.counted = r.counted
         /\ d.gaps = r.gaps /\ d.uncertain = r.uncertain /\ d.sold = r.sold /\ d.returned = r.returned
         /\ (d.unitsKnown <=> r.unitsKnown) /\ ~d.classified /\ (d.returns <=> r.returns)
         /\ d.from = r.from
<1>1. /\ d.money = r.money /\ d.unallocated = r.unallocated /\ d.counted = r.counted
      /\ d.gaps = r.gaps /\ d.uncertain = r.uncertain /\ d.sold = r.sold /\ d.returned = r.returned
      /\ (d.unitsKnown = r.unitsKnown) /\ (d.classified = FALSE) /\ (d.returns = r.returns)
      /\ d.from = r.from
  BY DEF Unclassified, RowType
<1>2. d \in RowType
  BY DEF Unclassified, RowType
<1> QED BY <1>1, <1>2

(* A row with a missing detail.                                               *)
LEMMA GappedIs ==
  ASSUME NEW r \in RowType, NEW f \in Fields, NEW d, d = Gapped(r, f)
  PROVE  /\ d \in RowType /\ d.money = r.money /\ d.unallocated = r.unallocated
         /\ d.gaps = r.gaps \cup {f} /\ d.uncertain = r.uncertain /\ d.sold = r.sold /\ d.returned = r.returned
         /\ (d.unitsKnown <=> r.unitsKnown) /\ ~d.classified /\ d.from = r.from
<1> DEFINE c == Unclassified(r)
<1>1. /\ c \in RowType /\ c.money = r.money /\ c.unallocated = r.unallocated
      /\ c.gaps = r.gaps /\ c.uncertain = r.uncertain /\ c.sold = r.sold /\ c.returned = r.returned
      /\ (c.unitsKnown <=> r.unitsKnown) /\ ~c.classified /\ c.from = r.from
  BY UnclassifiedIs
<1>2. d = [c EXCEPT !.gaps = @ \cup {f}]
  BY DEF Gapped
<1> HIDE DEF c
<1>3. /\ d.money = c.money /\ d.unallocated = c.unallocated
      /\ d.gaps = c.gaps \cup {f} /\ d.uncertain = c.uncertain /\ d.sold = c.sold /\ d.returned = c.returned
      /\ (d.unitsKnown = c.unitsKnown) /\ (d.classified = c.classified) /\ d.from = c.from
  BY <1>1, <1>2 DEF RowType
<1>4. d \in RowType
  BY <1>1, <1>2 DEF RowType
<1> QED BY <1>1, <1>3, <1>4

(* A row with fields that nobody knows.                                       *)
LEMMA BlankIs ==
  ASSUME NEW r \in RowType, NEW fs, NEW d, d = Unclassified(Blank(r, fs))
  PROVE  /\ d \in RowType /\ d.unallocated = r.unallocated
         /\ d.gaps = r.gaps /\ d.uncertain = r.uncertain /\ d.sold = r.sold /\ d.returned = r.returned
         /\ (d.unitsKnown <=> r.unitsKnown) /\ ~d.classified /\ d.from = r.from
         /\ \A f \in Fields : d.money[f] = IF f \in fs THEN {} ELSE r.money[f]
<1> DEFINE c == Blank(r, fs)
           M == [f \in Fields |-> IF f \in fs THEN {} ELSE r.money[f]]
<1>1. c = [r EXCEPT !.money = M]
  BY DEF Blank, Unknown, RowType
<1>2. c \in RowType
  BY RowsAreTyped
<1>3. \A f \in Fields : M[f] = IF f \in fs THEN {} ELSE r.money[f]
  OBVIOUS
<1> HIDE DEF c, M
<1>4. /\ c.money = M /\ c.unallocated = r.unallocated
      /\ c.gaps = r.gaps /\ c.uncertain = r.uncertain /\ c.sold = r.sold /\ c.returned = r.returned
      /\ (c.unitsKnown = r.unitsKnown) /\ c.from = r.from
  BY <1>1 DEF RowType
<1>5. d = Unclassified(c)
  BY DEF c
<1>6. /\ d \in RowType /\ d.money = c.money /\ d.unallocated = c.unallocated
      /\ d.gaps = c.gaps /\ d.uncertain = c.uncertain /\ d.sold = c.sold /\ d.returned = c.returned
      /\ (d.unitsKnown <=> c.unitsKnown) /\ ~d.classified /\ d.from = c.from
  BY <1>2, <1>5, UnclassifiedIs
<1> QED BY <1>3, <1>4, <1>6

(* And that is uncertain for it.                                              *)
LEMMA DoubtedRow ==
  ASSUME NEW r \in RowType, NEW fs \in SUBSET (Fields \cup {"cogs"}), NEW d, d = Doubted(r, fs)
  PROVE  /\ d \in RowType /\ d.unallocated = r.unallocated
         /\ d.gaps = r.gaps /\ d.uncertain = r.uncertain \cup fs /\ d.sold = r.sold /\ d.returned = r.returned
         /\ (d.unitsKnown <=> r.unitsKnown) /\ ~d.classified /\ d.from = r.from
         /\ \A f \in Fields : d.money[f] = IF f \in fs THEN {} ELSE r.money[f]
<1> DEFINE c == Unclassified(Blank(r, fs))
<1>1. /\ c \in RowType /\ c.unallocated = r.unallocated
      /\ c.gaps = r.gaps /\ c.uncertain = r.uncertain /\ c.sold = r.sold /\ c.returned = r.returned
      /\ (c.unitsKnown <=> r.unitsKnown) /\ ~c.classified /\ c.from = r.from
      /\ \A f \in Fields : c.money[f] = IF f \in fs THEN {} ELSE r.money[f]
  BY BlankIs
<1>2. d = [c EXCEPT !.uncertain = @ \cup fs]
  BY DEF Doubted
<1>3. d \in RowType
  BY DoubtedIs
<1> HIDE DEF c
<1>4. /\ d.money = c.money /\ d.unallocated = c.unallocated
      /\ d.gaps = c.gaps /\ d.uncertain = c.uncertain \cup fs /\ d.sold = c.sold /\ d.returned = c.returned
      /\ (d.unitsKnown = c.unitsKnown) /\ (d.classified = c.classified) /\ d.from = c.from
  BY <1>1, <1>2 DEF RowType
<1> QED BY <1>1, <1>3, <1>4

(* A row whose units nobody knows.                                            *)
LEMMA WithoutUnitsIs ==
  ASSUME NEW r \in RowType, NEW d, d = WithoutUnits(r)
  PROVE  /\ d \in RowType /\ d.money = r.money /\ d.unallocated = r.unallocated
         /\ d.gaps = r.gaps /\ d.uncertain = r.uncertain /\ d.sold = {} /\ d.returned = {}
         /\ ~d.unitsKnown /\ (d.classified <=> r.classified) /\ d.from = r.from /\ NetUnits(d) = {}
<1>1. /\ d.money = r.money /\ d.unallocated = r.unallocated
      /\ d.gaps = r.gaps /\ d.uncertain = r.uncertain /\ d.sold = {} /\ d.returned = {}
      /\ (d.unitsKnown = FALSE) /\ (d.classified = r.classified) /\ d.from = r.from
  BY DEF WithoutUnits, RowType, Unknown
<1>2. d \in RowType
  BY RowsAreTyped
<1>3. NetUnits(d) = {}
  BY <1>1 DEF NetUnits
<1> QED BY <1>1, <1>2, <1>3

(* An amount counted, and an accrual that cannot be read.                     *)
LEMMA CountedIs ==
  ASSUME NEW n \in LedgerType
  PROVE  /\ \A x \in Int : /\ Counted(n, x) \in LedgerType /\ Counted(n, x).day = n.day /\ Counted(n, x).sku = n.sku
                           /\ DoesToDay(n, Counted(n, x), n.day, [Still EXCEPT !.raw = x])
                           /\ [Still EXCEPT !.raw = x] \in Change
         /\ Incomplete(n) \in LedgerType /\ Incomplete(n).day = n.day /\ Incomplete(n).sku = n.sku
         /\ DoesToDay(n, Incomplete(n), n.day, [Still EXCEPT !.complete = FALSE])
<1>1. ASSUME NEW x \in Int, NEW y, y = Counted(n, x), NEW w, w = [Still EXCEPT !.raw = x]
      PROVE  y \in LedgerType /\ y.day = n.day /\ y.sku = n.sku /\ DoesToDay(n, y, n.day, w) /\ w \in Change
  <2>1. /\ (w.allocated = TRUE) /\ (w.skuUnitsKnown = TRUE) /\ (w.unknownSku = FALSE) /\ (w.sale = FALSE)
        /\ w.raw = x /\ (w.complete = TRUE) /\ w \in Change
    BY <1>1 DEF Still, Change
  <2>2. y = [n EXCEPT !.raw = @ + x] /\ n.raw \in Int
    BY <1>1 DEF Counted, LedgerType
  <2>3. y \in LedgerType
    BY <1>1, <2>2 DEF LedgerType
  <2>4. /\ y.day = n.day /\ y.sku = n.sku /\ y.raw = n.raw + x /\ (y.complete = n.complete)
        /\ (y.allocated = n.allocated) /\ (y.skuUnitsKnown = n.skuUnitsKnown)
        /\ (y.unknownSku = n.unknownSku) /\ (y.sale = n.sale) /\ y.net = n.net /\ y.mismatch = n.mismatch
        /\ y.reconciled = n.reconciled
    BY <2>2 DEF LedgerType
  <2> QED BY <2>1, <2>3, <2>4 DEF DoesToDay
<1>2. ASSUME NEW y, y = Incomplete(n), NEW w, w = [Still EXCEPT !.complete = FALSE]
      PROVE  y \in LedgerType /\ y.day = n.day /\ y.sku = n.sku /\ DoesToDay(n, y, n.day, w)
  <2>1. /\ (w.allocated = TRUE) /\ (w.skuUnitsKnown = TRUE) /\ (w.unknownSku = FALSE) /\ (w.sale = FALSE)
        /\ w.raw = 0 /\ (w.complete = FALSE)
    BY <1>2 DEF Still
  <2>2. y = [n EXCEPT !.complete = FALSE] /\ n.raw \in Int /\ n.raw + 0 = n.raw
    BY <1>2 DEF Incomplete, LedgerType
  <2>3. y \in LedgerType
    BY <1>2, <2>2 DEF LedgerType
  <2>4. /\ y.day = n.day /\ y.sku = n.sku /\ y.raw = n.raw /\ (y.complete = FALSE)
        /\ (y.allocated = n.allocated) /\ (y.skuUnitsKnown = n.skuUnitsKnown)
        /\ (y.unknownSku = n.unknownSku) /\ (y.sale = n.sale) /\ y.net = n.net /\ y.mismatch = n.mismatch
        /\ y.reconciled = n.reconciled
    BY <2>2 DEF LedgerType
  <2> QED BY <2>1, <2>2, <2>3, <2>4 DEF DoesToDay
<1> QED BY <1>1, <1>2

(* Marks of a ledger alone.                                                   *)
LEMMA MarksArePart ==
  ASSUME NEW y \in LedgerType, y.net = 0, y.mismatch = {0}, y.reconciled = {},
         y.day = EmptyRow, \A s \in Skus : y.sku[s] = EmptyRow, y.sale \/ y.skuUnitsKnown,
         NEW t \in Skus \cup {NoSku}, NEW k, NEW o \in {{}, {0}}
  PROVE  Part(y, t, k, o, {0}, {0})
<1>1. /\ EmptyRow \in RowType /\ NoMoney(EmptyRow) /\ StillUnits(EmptyRow) /\ Exact(EmptyRow.money["revenue"])
      /\ EmptyRow.money["revenue"] = {0}
  BY CleanIs, EmptyRowIs DEF Fields
<1>2. Both({0}, {0}) = {0}
  BY DEF Both
<1> HIDE DEF EmptyRow
<1>3. RowsSay(y, EmptyRow, t, k, o, {0}, {0})
  BY <1>1, <1>2 DEF RowsSay, NoMoney, StillUnits
<1> QED BY <1>1, <1>3, PartIs

(* Nothing at all, a line without a SKU, and an accrual that cannot be read.  *)
LEMMA NothingIsPiece ==
  ASSUME NEW t \in Skus \cup {NoSku}, NEW k
  PROVE  /\ Piece(EmptyLedger, t, k, {0}, {0}, {0})
         /\ Piece([EmptyLedger EXCEPT !.unknownSku = TRUE], t, k, {0}, {0}, {0})
         /\ Piece(Incomplete(EmptyLedger), t, k, {}, {0}, {0})
<1>1. /\ EmptyLedger \in LedgerType /\ EmptyLedger.day = EmptyRow /\ \A s \in Skus : EmptyLedger.sku[s] = EmptyRow
      /\ EmptyLedger.net = 0 /\ EmptyLedger.mismatch = {0} /\ EmptyLedger.reconciled = {}
      /\ EmptyLedger.allocated /\ EmptyLedger.skuUnitsKnown /\ ~EmptyLedger.unknownSku /\ ~EmptyLedger.sale
      /\ EmptyLedger.raw = 0 /\ EmptyLedger.complete
  BY EmptyLedgerIs
<1> HIDE DEF EmptyLedger
<1>2. Piece(EmptyLedger, t, k, {0}, {0}, {0})
  BY <1>1, MarksArePart DEF Piece, RawOf
<1>3. ASSUME NEW y, y = [EmptyLedger EXCEPT !.unknownSku = TRUE] PROVE Piece(y, t, k, {0}, {0}, {0})
  <2>1. y \in LedgerType
    BY <1>1, <1>3 DEF LedgerType
  <2>2. /\ y.day = EmptyLedger.day /\ y.sku = EmptyLedger.sku /\ y.net = 0 /\ y.mismatch = {0} /\ y.reconciled = {}
        /\ (y.skuUnitsKnown = EmptyLedger.skuUnitsKnown) /\ y.raw = 0 /\ (y.complete = EmptyLedger.complete)
    BY <1>1, <1>3 DEF LedgerType
  <2> QED BY <1>1, <2>1, <2>2, MarksArePart DEF Piece, RawOf
<1>4. ASSUME NEW y, y = Incomplete(EmptyLedger) PROVE Piece(y, t, k, {}, {0}, {0})
  <2>1. y \in LedgerType
    BY <1>1, <1>4, CountedIs
  <2>2. /\ y.day = EmptyLedger.day /\ y.sku = EmptyLedger.sku /\ y.net = 0 /\ y.mismatch = {0} /\ y.reconciled = {}
        /\ (y.skuUnitsKnown = EmptyLedger.skuUnitsKnown) /\ (y.complete = FALSE)
    BY <1>1, <1>4 DEF LedgerType, Incomplete
  <2> QED BY <1>1, <2>1, <2>2, MarksArePart DEF Piece, RawOf
<1> QED BY <1>2, <1>3, <1>4

(* What is unknown of a part needs no proof.                                  *)
LEMMA PartOfUnknown ==
  ASSUME NEW n, NEW t, NEW k, NEW o, NEW w, NEW u, Part(n, t, k, o, w, u)
  PROVE  Part(n, t, k, {}, w, u)
BY DEF Part, Tells, AddsUp

(* Of a ledger that an operation makes of the empty one.                      *)
LEMMA DoneToNothing ==
  ASSUME NEW y, NEW t \in Skus \cup {NoSku}, NEW D, NEW w, DoesToDay(EmptyLedger, y, D, w)
  PROVE  /\ y \in LedgerType /\ y.net = 0 /\ y.mismatch = {0} /\ y.reconciled = {} /\ y.day = D
         /\ y.allocated <=> w.allocated
         /\ y.skuUnitsKnown <=> w.skuUnitsKnown
         /\ y.unknownSku <=> w.unknownSku
         /\ y.sale <=> w.sale
         /\ y.complete <=> w.complete
         /\ y.raw = 0 + w.raw
BY EmptyLedgerIs DEF DoesToDay

(* A known component.                                                         *)
LEMMA KnownComponentIsPiece ==
  ASSUME NEW f \in Fields, NEW x \in Int, NEW t \in Skus \cup {NoSku}, NEW id \in Ids, NEW k,
         f = "revenue" => Exact({x}), f = "revenue" /\ t = NoSku => k
  PROVE  Piece(AddComponent(Counted(EmptyLedger, x), f, x, t, id), t, k, {x}, {x}, {0})
<1> DEFINE n == Counted(EmptyLedger, x)
           y == AddComponent(n, f, x, t, id)
<1>1. /\ EmptyLedger \in LedgerType /\ EmptyLedger.day = EmptyRow /\ \A s \in Skus : EmptyLedger.sku[s] = EmptyRow
      /\ EmptyLedger.net = 0 /\ EmptyLedger.mismatch = {0} /\ EmptyLedger.reconciled = {}
      /\ EmptyLedger.allocated /\ EmptyLedger.skuUnitsKnown /\ ~EmptyLedger.unknownSku /\ ~EmptyLedger.sale
      /\ EmptyLedger.raw = 0 /\ EmptyLedger.complete
  BY EmptyLedgerIs
<1>2. /\ n \in LedgerType /\ n.day = EmptyRow /\ \A s \in Skus : n.sku[s] = EmptyRow
      /\ n.net = 0 /\ n.mismatch = {0} /\ n.reconciled = {}
      /\ n.allocated /\ n.skuUnitsKnown /\ ~n.unknownSku /\ ~n.sale
      /\ n.raw = x /\ n.complete
  <2>1. /\ n \in LedgerType /\ n.day = EmptyLedger.day /\ n.sku = EmptyLedger.sku
        /\ DoesToDay(EmptyLedger, n, EmptyLedger.day, [Still EXCEPT !.raw = x])
    BY <1>1, CountedIs
  <2>2. ASSUME NEW w, w = [Still EXCEPT !.raw = x]
        PROVE  w.raw = x /\ w.allocated /\ w.skuUnitsKnown /\ ~w.unknownSku /\ ~w.sale /\ w.complete
    <3>1. /\ w.raw = x /\ (w.allocated = TRUE) /\ (w.skuUnitsKnown = TRUE) /\ (w.unknownSku = FALSE)
          /\ (w.sale = FALSE) /\ (w.complete = TRUE)
      BY <2>2 DEF Still
    <3> QED BY <3>1
  <2> DEFINE w == [Still EXCEPT !.raw = x]
  <2>3. /\ w.raw = x /\ w.allocated /\ w.skuUnitsKnown /\ ~w.unknownSku /\ ~w.sale /\ w.complete
        /\ DoesToDay(EmptyLedger, n, EmptyLedger.day, w)
    BY <2>1, <2>2
  <2>4. 0 + x = x
    OBVIOUS
  <2> HIDE DEF n, w
  <2>5. /\ n.allocated <=> EmptyLedger.allocated /\ w.allocated
        /\ n.skuUnitsKnown <=> EmptyLedger.skuUnitsKnown /\ w.skuUnitsKnown
        /\ n.unknownSku <=> EmptyLedger.unknownSku \/ w.unknownSku
        /\ n.sale <=> EmptyLedger.sale \/ w.sale
        /\ n.net = EmptyLedger.net /\ n.mismatch = EmptyLedger.mismatch /\ n.reconciled = EmptyLedger.reconciled
        /\ n.raw = EmptyLedger.raw + w.raw /\ (n.complete <=> EmptyLedger.complete /\ w.complete)
    BY <2>3 DEF DoesToDay
  <2> QED BY <1>1, <2>1, <2>3, <2>4, <2>5
<1> HIDE DEF n
<1>3. Does(n, y, t, DayBooked(n.day, f, x, t), SkuBooked(n.sku[t], f, x, id), Of(t))
  BY <1>2, AddComponentDoes
<1>4. /\ y \in LedgerType /\ y.net = 0 /\ y.mismatch = {0} /\ y.reconciled = {}
      /\ y.day = DayBooked(EmptyRow, f, x, t) /\ (y.allocated <=> t # NoSku) /\ y.skuUnitsKnown
      /\ ~y.unknownSku /\ ~y.sale /\ y.raw = x /\ y.complete
      /\ \A s \in Skus : y.sku[s] = IF s = t THEN SkuBooked(EmptyRow, f, x, id) ELSE EmptyRow
  <2>1. /\ (Of(t).allocated <=> t # NoSku) /\ Of(t).skuUnitsKnown
        /\ ~Of(t).unknownSku /\ ~Of(t).sale /\ Of(t).raw = 0 /\ Of(t).complete
    BY OfIs
  <2> HIDE DEF y
  <2>2. /\ y \in LedgerType /\ y.day = DayBooked(EmptyRow, f, x, t)
        /\ y.allocated <=> n.allocated /\ Of(t).allocated
        /\ y.skuUnitsKnown <=> n.skuUnitsKnown /\ Of(t).skuUnitsKnown
        /\ y.unknownSku <=> n.unknownSku \/ Of(t).unknownSku
        /\ y.sale <=> n.sale \/ Of(t).sale
        /\ y.net = n.net /\ y.mismatch = n.mismatch /\ y.reconciled = n.reconciled
        /\ y.raw = n.raw + Of(t).raw /\ (y.complete <=> n.complete /\ Of(t).complete)
    BY <1>2, <1>3 DEF Does, DoesToDay
  <2>3. \A s \in Skus : y.sku[s] = IF s = t THEN SkuBooked(EmptyRow, f, x, id) ELSE EmptyRow
    BY <1>2, <1>3 DEF Does
  <2>4. x + 0 = x
    OBVIOUS
  <2> QED BY <1>2, <2>1, <2>2, <2>3, <2>4
<1>5. Clean(EmptyRow) /\ EmptyRow.from = {}
  BY CleanIs, EmptyRowIs
<1> DEFINE B == Booked(EmptyRow, f, x)
           A == Aside(B, x)
           F == [EmptyRow EXCEPT !.from = @ \cup {id}]
           R == SkuBooked(EmptyRow, f, x, id)
<1>15. B = Booked(EmptyRow, f, x) /\ R = Booked(F, f, x) /\ A = Aside(B, x)
  BY DEF SkuBooked
<1>16. Clean(F) /\ id \in F.from
  BY CleanIs
<1> HIDE DEF F, R, B, A, y
<1>6. /\ B \in RowType /\ Balance(B.money) = {x} /\ B.unallocated = 0
      /\ B.gaps = {} /\ B.uncertain = {} /\ B.classified /\ StillUnits(B)
      /\ B.money["revenue"] = (IF f = "revenue" THEN {x} ELSE {0})
  <2>1. HasBooked(B, EmptyRow, f, x)
    BY <1>5, <1>15, CleanBooked
  <2> QED BY <2>1 DEF HasBooked
<1>9. /\ R \in RowType /\ Balance(R.money) = {x}
      /\ R.gaps = {} /\ R.uncertain = {} /\ R.classified /\ R.from # {} /\ StillUnits(R)
      /\ R.money["revenue"] = (IF f = "revenue" THEN {x} ELSE {0})
  <2>1. HasBooked(R, F, f, x)
    BY <1>15, <1>16, CleanBooked
  <2> QED BY <1>16, <2>1 DEF HasBooked
<1>10. Exact({0})
  BY AccrualAssumption DEF Exact
<1>11. Both({x}, {0}) = {x} /\ Both({0}, {x}) = {x}
  BY DEF Both
<1>12. RawOf(y) = {x}
  BY <1>4 DEF RawOf
<1>13. ASSUME t \in Skus PROVE Piece(y, t, k, {x}, {x}, {0})
  <2>1. y.day = B /\ \A s \in Skus : y.sku[s] = IF s = t THEN R ELSE EmptyRow
    BY <1>4, <1>13, AccrualAssumption DEF DayBooked, R, B, A
  <2>3. t # NoSku
    BY <1>13, AccrualAssumption
  <2>2. RowsSay(y, R, t, k, {x}, {x}, {0})
    BY <1>4, <1>6, <1>9, <1>10, <1>11, <2>1, <2>3 DEF RowsSay, StillUnits
  <2> QED BY <1>4, <1>9, <1>12, <2>1, <2>2, <2>3, PartIs DEF Piece
<1>14. ASSUME t = NoSku PROVE Piece(y, t, k, {x}, {x}, {0})
  <2>1. y.day = A /\ \A s \in Skus : y.sku[s] = IF s = t THEN EmptyRow ELSE EmptyRow
    BY <1>4, <1>14, AccrualAssumption DEF DayBooked, B, A
  <2>2. /\ A.money = B.money /\ A.unallocated = B.unallocated + x
        /\ A.gaps = B.gaps /\ A.uncertain = B.uncertain /\ A.sold = B.sold /\ A.returned = B.returned
        /\ (A.unitsKnown <=> B.unitsKnown) /\ (A.classified <=> B.classified)
    BY <1>6, <1>15, AsideIs
  <2>3. /\ EmptyRow \in RowType /\ NoMoney(EmptyRow) /\ StillUnits(EmptyRow) /\ EmptyRow.money["revenue"] = {0}
    BY CleanIs, EmptyRowIs DEF Fields
  <2>4. t \notin Skus /\ A.unallocated = x
    BY <1>6, <1>14, <2>2, AccrualAssumption
  <2>5. RowsSay(y, EmptyRow, t, k, {x}, {x}, {0})
    <3>1. /\ Exact(y.day.money["revenue"]) /\ Exact(EmptyRow.money["revenue"])
          /\ y.day.uncertain = {} /\ y.day.gaps = {} /\ Balance(y.day.money) = {x} /\ y.day.unallocated = x
      BY <1>6, <1>10, <2>1, <2>2, <2>3, <2>4
    <3>2. ~k => y.day.money["revenue"] = EmptyRow.money["revenue"]
      BY <1>6, <1>14, <2>1, <2>2, <2>3
    <3>3. /\ EmptyRow.gaps = {} /\ Balance(EmptyRow.money) = {0} /\ EmptyRow.sold = {0} /\ EmptyRow.returned = {0}
          /\ \A g \in Fields : EmptyRow.money[g] = {0}
      BY <2>3 DEF NoMoney, StillUnits
    <3> QED BY <1>4, <1>11, <2>4, <3>1, <3>2, <3>3 DEF RowsSay
  <2> QED BY <1>4, <1>12, <1>14, <2>1, <2>3, <2>5, PartIs DEF Piece
<1> QED BY <1>13, <1>14 DEF n, y

\* A ledger of which the row of the day and that of SKU t are told, and that is whole.
RowsOf(y, t, D, R) ==
  /\ y \in LedgerType /\ y.net = 0 /\ y.mismatch = {0} /\ y.reconciled = {} /\ RawOf(y) = {0}
  /\ y.day = D /\ (y.allocated <=> t # NoSku) /\ y.skuUnitsKnown /\ ~y.unknownSku /\ ~y.sale
  /\ \A s \in Skus : y.sku[s] = IF s = t THEN R ELSE EmptyRow

(* Such is what an operation makes of the empty ledger.                       *)
LEMMA DoesToNothing ==
  ASSUME NEW y, NEW t \in Skus \cup {NoSku}, NEW D, NEW R, Does(EmptyLedger, y, t, D, R, Of(t))
  PROVE  RowsOf(y, t, D, R)
<1>1. /\ EmptyLedger \in LedgerType /\ EmptyLedger.day = EmptyRow /\ \A s \in Skus : EmptyLedger.sku[s] = EmptyRow
      /\ EmptyLedger.net = 0 /\ EmptyLedger.mismatch = {0} /\ EmptyLedger.reconciled = {}
      /\ EmptyLedger.allocated /\ EmptyLedger.skuUnitsKnown /\ ~EmptyLedger.unknownSku /\ ~EmptyLedger.sale
      /\ EmptyLedger.raw = 0 /\ EmptyLedger.complete
  BY EmptyLedgerIs
<1>2. /\ (Of(t).allocated <=> t # NoSku) /\ Of(t).skuUnitsKnown
      /\ ~Of(t).unknownSku /\ ~Of(t).sale /\ Of(t).raw = 0 /\ Of(t).complete
  BY OfIs
<1>3. /\ y \in LedgerType /\ y.day = D
      /\ y.allocated <=> EmptyLedger.allocated /\ Of(t).allocated
      /\ y.skuUnitsKnown <=> EmptyLedger.skuUnitsKnown /\ Of(t).skuUnitsKnown
      /\ y.unknownSku <=> EmptyLedger.unknownSku \/ Of(t).unknownSku
      /\ y.sale <=> EmptyLedger.sale \/ Of(t).sale
      /\ y.net = EmptyLedger.net /\ y.mismatch = EmptyLedger.mismatch /\ y.reconciled = EmptyLedger.reconciled
      /\ y.raw = EmptyLedger.raw + Of(t).raw /\ (y.complete <=> EmptyLedger.complete /\ Of(t).complete)
  BY DEF Does, DoesToDay
<1>4. \A s \in Skus : y.sku[s] = IF s = t THEN R ELSE EmptyRow
  BY <1>1 DEF Does
<1>5. y.raw = 0 /\ y.complete
  BY <1>1, <1>2, <1>3
<1> QED BY <1>1, <1>2, <1>3, <1>4, <1>5 DEF RowsOf, RawOf

(* A missing detail.                                                          *)
LEMMA GapIsPart ==
  ASSUME NEW f \in Fields, NEW t \in Skus \cup {NoSku}, NEW id \in Ids, NEW k, NEW w
  PROVE  Part(MarkGap(EmptyLedger, f, t, id), t, k, {}, w, {0})
<1> DEFINE y == MarkGap(EmptyLedger, f, t, id)
           D == Gapped(EmptyRow, f)
           F == [EmptyRow EXCEPT !.from = @ \cup {id}]
           R == Gapped(F, f)
<1>1. /\ EmptyLedger \in LedgerType /\ EmptyLedger.day = EmptyRow /\ \A s \in Skus : EmptyLedger.sku[s] = EmptyRow
      /\ EmptyLedger.net = 0 /\ EmptyLedger.mismatch = {0} /\ EmptyLedger.reconciled = {}
      /\ EmptyLedger.allocated /\ EmptyLedger.skuUnitsKnown /\ ~EmptyLedger.unknownSku /\ ~EmptyLedger.sale
      /\ EmptyLedger.raw = 0 /\ EmptyLedger.complete
  BY EmptyLedgerIs
<1>2. Clean(EmptyRow) /\ EmptyRow \in RowType /\ Exact(EmptyRow.money["revenue"]) /\ EmptyRow.from = {}
  BY CleanIs, EmptyRowIs
<1>3. Clean(F) /\ F \in RowType /\ id \in F.from /\ Exact(F.money["revenue"]) /\ NetUnits(F) = {0}
  BY CleanIs DEF Clean, StillUnits
<1>4. D = Gapped(EmptyRow, f) /\ R = Gapped(F, f)
  OBVIOUS
<1> HIDE DEF D, F, R
<1>5. /\ D \in RowType /\ D.money = EmptyRow.money /\ D.uncertain = EmptyRow.uncertain /\ ~D.classified
      /\ D.sold = EmptyRow.sold /\ D.returned = EmptyRow.returned
  BY <1>2, <1>4, GappedIs
<1>6. /\ R \in RowType /\ R.money = F.money /\ R.sold = F.sold /\ R.returned = F.returned
      /\ ~R.classified /\ R.from = F.from
  BY <1>3, <1>4, GappedIs
<1>7. NetUnits(R) = {0}
  BY <1>3, <1>6 DEF NetUnits
<1>8. ASSUME t \in Skus PROVE Part(y, t, k, {}, w, {0})
  <2>1. Does(EmptyLedger, y, t, Gapped(EmptyLedger.day, f), SkuGap(EmptyLedger.sku[t], f, id), Of(t))
    BY <1>1, <1>8, MarkGapDoes
  <2>2. SkuGap(EmptyLedger.sku[t], f, id) = R /\ Gapped(EmptyLedger.day, f) = D
    BY <1>1, <1>8 DEF SkuGap, R, F, D
  <2>3. RowsOf(y, t, D, R)
    BY <2>1, <2>2, DoesToNothing
  <2>4. t # NoSku
    BY <1>8, AccrualAssumption
  <2> HIDE DEF y
  <2>5. RowsSay(y, R, t, k, {}, w, {0})
    BY <1>2, <1>3, <1>5, <1>6, <1>7, <2>3 DEF RowsSay, RowsOf, Clean
  <2> QED BY <1>6, <2>3, <2>4, <2>5, PartIs DEF RowsOf
<1>9. ASSUME t = NoSku PROVE Part(y, t, k, {}, w, {0})
  <2>1. Named(EmptyLedger) = {}
    BY <1>1, <1>2 DEF Named
  <2> DEFINE S == [s \in Skus |-> EmptyLedger.sku[s]]
  <2>2. S \in [Skus -> RowType] /\ \A s \in Skus : S[s] = EmptyRow
    BY <1>1, <1>2
  <2>3. y = [EmptyLedger EXCEPT !.day = D, !.sku = S, !.allocated = FALSE]
    <3>1. ASSUME NEW n \in LedgerType, Named(n) = {}, NEW d, d = Gapped(n.day, f), d \in RowType
          PROVE  MarkGap(n, f, t, id) = [n EXCEPT !.day = d, !.sku = [s \in Skus |-> n.sku[s]], !.allocated = FALSE]
      <4> DEFINE z == [n EXCEPT !.day = d]
      <4>1. MarkGap(n, f, t, id) = [z EXCEPT !.allocated = FALSE, !.sku = [s \in Skus |-> z.sku[s]]]
        BY <1>9, <3>1 DEF MarkGap
      <4>2. z.sku = n.sku
        BY DEF LedgerType
      <4>3. MarkGap(n, f, t, id) = [z EXCEPT !.allocated = FALSE, !.sku = [s \in Skus |-> n.sku[s]]]
        BY <4>1, <4>2
      <4> DEFINE G == [s \in Skus |-> n.sku[s]]
      <4>4. MarkGap(n, f, t, id) = [z EXCEPT !.allocated = FALSE, !.sku = G]
        BY <4>3
      <4> HIDE DEF G
      <4>5. MarkGap(n, f, t, id) = [n EXCEPT !.day = d, !.sku = G, !.allocated = FALSE]
        BY <4>4 DEF LedgerType
      <4> QED BY <4>5 DEF G
    <3> HIDE DEF EmptyLedger, EmptyRow
    <3> QED BY <1>1, <1>4, <1>5, <2>1, <3>1
  <2> HIDE DEF S, y
  <2>4. DoesToDay(EmptyLedger, y, D, Shared) /\ y.sku = S
    <3>1. DoesToDay(EmptyLedger, y, D, Shared)
      BY <1>1, <1>5, <2>2, <2>3, RowsShared
    <3>2. y.sku = S
      BY <1>1, <2>3 DEF LedgerType
    <3> QED BY <3>1, <3>2
  <2>5. \A s \in Skus : y.sku[s] = IF s = t THEN EmptyRow ELSE EmptyRow
    BY <2>2, <2>4
  <2>6. Of(t) = Shared
    BY <1>9 DEF Of
  <2>7. RowsOf(y, t, D, EmptyRow)
    <3>1. Does(EmptyLedger, y, t, D, EmptyRow, Of(t))
      BY <1>1, <2>4, <2>5, <2>6 DEF Does
    <3> QED BY <3>1, DoesToNothing
  <2>8. NetUnits(EmptyRow) = {0} /\ t \notin Skus
    BY <1>9, EmptyRowIs, AccrualAssumption
  <2>9. RowsSay(y, EmptyRow, t, k, {}, w, {0})
    BY <1>2, <1>5, <2>7, <2>8 DEF RowsSay, RowsOf, Clean
  <2> QED BY <1>2, <2>7, <2>8, <2>9, PartIs DEF RowsOf
<1> QED BY <1>8, <1>9

(* What makes fields unknown.                                                 *)
LEMMA UnknownIsPart ==
  ASSUME NEW fs \in SUBSET (Fields \cup {"cogs"}), NEW t \in Skus \cup {NoSku}, NEW id \in Ids, NEW k, NEW w,
         NEW o \in {{}, {0}}, o = {0} => "revenue" \notin fs,
         "cogs" \in fs /\ t = NoSku => k \/ "revenue" \in fs
  PROVE  /\ Part(MarkUnknown(EmptyLedger, fs, t, id), t, k, o, w, {0})
         /\ RawOf(MarkUnknown(EmptyLedger, fs, t, id)) = {0}
<1> DEFINE y == MarkUnknown(EmptyLedger, fs, t, id)
           B == Unclassified(Blank(EmptyRow, fs))
           D == Doubted(EmptyRow, fs)
           F == [EmptyRow EXCEPT !.from = @ \cup {id}]
           gs == fs \ {"other_expenses"}
           R == Doubted(F, gs)
<1>1. /\ EmptyLedger \in LedgerType /\ EmptyLedger.day = EmptyRow /\ \A s \in Skus : EmptyLedger.sku[s] = EmptyRow
  BY EmptyLedgerIs
<1>2. /\ Clean(EmptyRow) /\ EmptyRow \in RowType /\ EmptyRow.from = {} /\ NetUnits(EmptyRow) = {0}
      /\ Balance(EmptyRow.money) = {0}
  BY CleanIs, EmptyRowIs
<1>3. Clean(F) /\ F \in RowType /\ id \in F.from /\ NetUnits(F) = {0}
  BY CleanIs DEF Clean, StillUnits
<1>4. B = Unclassified(Blank(EmptyRow, fs)) /\ D = Doubted(EmptyRow, fs) /\ R = Doubted(F, gs)
  OBVIOUS
<1>5. gs \in SUBSET (Fields \cup {"cogs"}) /\ ("revenue" \in gs <=> "revenue" \in fs) /\ gs \subseteq fs
  OBVIOUS
<1>6. Exact({}) /\ Exact({0}) /\ "revenue" \in Fields
  BY AccrualAssumption DEF Exact, Fields
<1>7. Does(EmptyLedger, y, t, DayUnknown(EmptyLedger.day, fs, t), SkuUnknown(EmptyLedger.sku[t], fs, id), Of(t))
  BY <1>1, MarkUnknownDoes
<1>8. DayUnknown(EmptyLedger.day, fs, t) = IF t = NoSku THEN D ELSE B
  BY <1>1 DEF DayUnknown, Doubted
<1>9. t \in Skus => SkuUnknown(EmptyLedger.sku[t], fs, id) = R
  BY <1>1 DEF SkuUnknown
<1>10. RawOf(y) = {0}
  BY <1>7, DoesToNothing DEF RowsOf
<1> HIDE DEF B, D, F, R, gs, y
<1>11. /\ B \in RowType /\ B.unallocated = EmptyRow.unallocated
       /\ B.gaps = EmptyRow.gaps /\ B.uncertain = EmptyRow.uncertain /\ B.sold = EmptyRow.sold /\ B.returned = EmptyRow.returned
       /\ ~B.classified
       /\ \A f \in Fields : B.money[f] = IF f \in fs THEN {} ELSE EmptyRow.money[f]
  BY <1>2, <1>4, BlankIs
<1>12. /\ D \in RowType /\ D.unallocated = EmptyRow.unallocated
       /\ D.gaps = EmptyRow.gaps /\ D.uncertain = EmptyRow.uncertain \cup fs
       /\ ~D.classified
       /\ \A f \in Fields : D.money[f] = IF f \in fs THEN {} ELSE EmptyRow.money[f]
  BY <1>2, <1>4, DoubtedRow
<1>13. /\ R \in RowType /\ R.gaps = F.gaps /\ R.sold = F.sold /\ R.returned = F.returned
       /\ ~R.classified /\ R.from = F.from
       /\ \A f \in Fields : R.money[f] = IF f \in gs THEN {} ELSE F.money[f]
  BY <1>3, <1>4, <1>5, DoubtedRow
<1>14. NetUnits(R) = {0}
  BY <1>3, <1>13 DEF NetUnits
<1>15. Balance(R.money) # {} => Balance(R.money) = {0}
  <2>1. ASSUME Balance(R.money) # {} PROVE Balance(R.money) = {0}
    <3>1. R.money \in [Fields -> Amount]
      BY <1>13 DEF RowType
    <3>2. \A K \in [Fields -> Amount] : (Balance(K) = {} <=> \E f \in Fields : K[f] = {})
                                        /\ ((\A f \in Fields : K[f] = {0}) => Balance(K) = {0})
      BY BalanceIs
    <3>3. ~\E f \in Fields : R.money[f] = {}
      BY <2>1, <3>1, <3>2
    <3>4. \A f \in Fields : R.money[f] = {0}
      BY <1>3, <1>13, <3>3 DEF Clean
    <3> QED BY <3>1, <3>2, <3>4
  <2> QED BY <2>1
<1>16. /\ B.money["revenue"] = (IF "revenue" \in fs THEN {} ELSE {0}) /\ D.money["revenue"] = (IF "revenue" \in fs THEN {} ELSE {0})
       /\ R.money["revenue"] = (IF "revenue" \in fs THEN {} ELSE {0})
  <2>1. EmptyRow.money["revenue"] = {0} /\ F.money["revenue"] = {0}
    BY <1>2, <1>3, <1>6 DEF Clean
  <2>2. B.money["revenue"] = IF "revenue" \in fs THEN {} ELSE EmptyRow.money["revenue"]
    BY <1>6, <1>11
  <2>3. D.money["revenue"] = IF "revenue" \in fs THEN {} ELSE EmptyRow.money["revenue"]
    BY <1>6, <1>12
  <2>4. R.money["revenue"] = IF "revenue" \in gs THEN {} ELSE F.money["revenue"]
    BY <1>6, <1>13
  <2> QED BY <1>5, <2>1, <2>2, <2>3, <2>4
<1>17. Both({0}, {0}) = {0}
  BY DEF Both
<1>18. ASSUME t \in Skus PROVE Part(y, t, k, o, w, {0})
  <2>1. t # NoSku
    BY <1>18, AccrualAssumption
  <2>2. RowsOf(y, t, B, R)
    BY <1>7, <1>8, <1>9, <1>18, <2>1, DoesToNothing
  <2>3. RowsSay(y, R, t, k, o, w, {0})
    <3>1. /\ B.uncertain = {} /\ B.gaps = {} /\ B.unallocated = 0 /\ R.gaps = {} /\ R.sold = {0} /\ R.returned = {0}
          /\ R.from # {}
      BY <1>2, <1>3, <1>11, <1>13 DEF Clean
    <3>2. Exact(B.money["revenue"]) /\ Exact(R.money["revenue"]) /\ B.money["revenue"] = R.money["revenue"]
      BY <1>6, <1>16
    <3>3. y.day = B /\ ~y.sale /\ y.skuUnitsKnown
      BY <2>2 DEF RowsOf
    <3>4. o # {} => o = {0}
      OBVIOUS
    <3>5. /\ o # {} => (Balance(R.money) # {} => Both(Balance(R.money), {B.unallocated}) = o)
      BY <1>15, <1>17, <3>1, <3>4
    <3> QED BY <1>11, <1>13, <1>14, <3>1, <3>2, <3>3, <3>5 DEF RowsSay
  <2> QED BY <1>13, <2>1, <2>2, <2>3, PartIs DEF RowsOf
<1>19. ASSUME t = NoSku PROVE Part(y, t, k, o, w, {0})
  <2>0. t \notin Skus
    BY <1>19, AccrualAssumption
  <2>1. \A s \in Skus : y.sku[s] = IF s = t THEN EmptyRow ELSE EmptyRow
    BY <1>1, <1>7, <2>0 DEF Does
  <2>2. RowsOf(y, t, D, EmptyRow)
    <3>1. Does(EmptyLedger, y, t, D, EmptyRow, Of(t))
      BY <1>7, <1>8, <1>19, <2>0 DEF Does
    <3> QED BY <3>1, DoesToNothing
  <2>3. RowsSay(y, EmptyRow, t, k, o, w, {0})
    <3>1. /\ D.uncertain = fs /\ D.gaps = {} /\ D.unallocated = 0 /\ EmptyRow.gaps = {} /\ EmptyRow.sold = {0}
          /\ EmptyRow.returned = {0} /\ EmptyRow.money["revenue"] = {0} /\ \A f \in Fields : EmptyRow.money[f] = {0}
      BY <1>2, <1>6, <1>12 DEF Clean
    <3>2. Exact(D.money["revenue"]) /\ Exact(EmptyRow.money["revenue"])
      BY <1>6, <1>16, <3>1
    <3>3. y.day = D /\ ~y.sale /\ y.skuUnitsKnown
      BY <2>2 DEF RowsOf
    <3>4. o # {} => o = {0} /\ D.money["revenue"] = {0}
      BY <1>16
    <3>5. "cogs" \in D.uncertain => k \/ D.money["revenue"] = {}
      BY <1>16, <1>19, <3>1
    <3> QED BY <1>2, <1>12, <1>17, <2>0, <3>1, <3>2, <3>3, <3>4, <3>5 DEF RowsSay
  <2> QED BY <1>2, <1>19, <2>2, <2>3, PartIs DEF RowsOf
<1> QED BY <1>10, <1>18, <1>19 DEF y

\* Ledger y differs from n in its rows alone.
SameMarks(n, y) ==
  /\ y \in LedgerType /\ y.net = n.net /\ y.mismatch = n.mismatch /\ y.reconciled = n.reconciled
  /\ RawOf(y) = RawOf(n) /\ (y.allocated <=> n.allocated) /\ (y.skuUnitsKnown <=> n.skuUnitsKnown)
  /\ (y.unknownSku <=> n.unknownSku) /\ (y.sale <=> n.sale)

\* It differs in the row of SKU t.
SkuSet(n, y, t, R) ==
  SameMarks(n, y) /\ y.day = n.day /\ \A s \in Skus : y.sku[s] = IF s = t THEN R ELSE n.sku[s]

(* Another row of the day.                                                    *)
LEMMA SetDay ==
  ASSUME NEW n \in LedgerType, NEW D \in RowType, NEW y, y = [n EXCEPT !.day = D]
  PROVE  SameMarks(n, y) /\ y.day = D /\ y.sku = n.sku
<1>1. y \in LedgerType
  BY DEF LedgerType
<1>2. /\ y.net = n.net /\ y.mismatch = n.mismatch /\ y.reconciled = n.reconciled
      /\ y.raw = n.raw /\ (y.complete = n.complete) /\ (y.allocated = n.allocated) /\ (y.skuUnitsKnown = n.skuUnitsKnown)
      /\ (y.unknownSku = n.unknownSku) /\ (y.sale = n.sale) /\ y.day = D /\ y.sku = n.sku
  BY DEF LedgerType
<1> QED BY <1>1, <1>2 DEF SameMarks, RawOf

(* Another row of a SKU.                                                      *)
LEMMA SetSku ==
  ASSUME NEW n \in LedgerType, NEW R \in RowType, NEW t \in Skus, NEW y, y = [n EXCEPT !.sku[t] = R]
  PROVE  SkuSet(n, y, t, R)
<1> DEFINE S == [n.sku EXCEPT ![t] = R]
<1>1. y = [n EXCEPT !.sku = S] /\ S \in [Skus -> RowType] /\ \A s \in Skus : S[s] = IF s = t THEN R ELSE n.sku[s]
  BY DEF LedgerType
<1> HIDE DEF S
<1>2. y \in LedgerType
  BY <1>1 DEF LedgerType
<1>3. /\ y.net = n.net /\ y.mismatch = n.mismatch /\ y.reconciled = n.reconciled
      /\ y.raw = n.raw /\ (y.complete = n.complete) /\ (y.allocated = n.allocated) /\ (y.skuUnitsKnown = n.skuUnitsKnown)
      /\ (y.unknownSku = n.unknownSku) /\ (y.sale = n.sale) /\ y.day = n.day
  BY <1>1 DEF LedgerType
<1>4. y.sku = S
  BY <1>1 DEF LedgerType
<1> QED BY <1>1, <1>2, <1>3, <1>4 DEF SameMarks, RawOf, SkuSet

(* _product, of a ledger.                                                     *)
LEMMA TouchIs ==
  ASSUME NEW n \in LedgerType, NEW t \in Skus \cup {NoSku}, NEW id \in Ids, NEW y, y = Touch(n, t, id)
  PROVE  SkuSet(n, y, t, [n.sku[t] EXCEPT !.from = @ \cup {id}])
<1>1. NoSku \notin Skus
  BY AccrualAssumption
<1> DEFINE R == [n.sku[t] EXCEPT !.from = @ \cup {id}]
<1>2. ASSUME t = NoSku PROVE SkuSet(n, y, t, R)
  <2>1. y = n /\ \A s \in Skus : s # t
    BY <1>1, <1>2 DEF Touch
  <2> HIDE DEF R
  <2> QED BY <2>1 DEF SkuSet, SameMarks
<1>3. ASSUME t \in Skus PROVE SkuSet(n, y, t, R)
  <2>1. R \in RowType
    BY <1>3, RowsAreTyped DEF LedgerType
  <2>2. y = [n EXCEPT !.sku[t] = R]
    BY <1>1, <1>3 DEF Touch, LedgerType
  <2> HIDE DEF R
  <2> QED BY <1>3, <2>1, <2>2, SetSku
<1> QED BY <1>2, <1>3

(* Units of nobody known are taken from nobody, if nobody is named.           *)
LEMMA UnitsOfNobody ==
  ASSUME NEW n \in LedgerType, NEW id \in Ids, \A s \in Skus : n.sku[s].from = {}
  PROVE  \A s \in Skus : MarkUnitsUnknown(n, NoSku, id).sku[s] = n.sku[s]
<1> DEFINE b == WithoutUnits(n.day)
           S == [t \in Skus |-> IF t \in Named(n) THEN WithoutUnits(n.sku[t]) ELSE n.sku[t]]
<1>1. MarkUnitsUnknown(n, NoSku, id) = [n EXCEPT !.day = b, !.sku = S, !.skuUnitsKnown = FALSE]
  BY DEF MarkUnitsUnknown, LedgerType
<1>2. \A t \in Skus : S[t] = n.sku[t]
  BY DEF Named
<1> HIDE DEF b, S
<1>3. MarkUnitsUnknown(n, NoSku, id).sku = S
  BY <1>1 DEF LedgerType
<1> QED BY <1>2, <1>3

(* _mark_return alone.                                                        *)
LEMMA ReturnIsPiece ==
  ASSUME NEW t \in Skus \cup {NoSku}, NEW id \in Ids, NEW k
  PROVE  Piece(MarkReturn(EmptyLedger, t, id), t, k, {0}, {0}, {0})
<1> DEFINE y == MarkReturn(EmptyLedger, t, id)
           D == [EmptyRow EXCEPT !.returns = TRUE]
           F == [EmptyRow EXCEPT !.from = @ \cup {id}]
           R == [F EXCEPT !.returns = TRUE]
           z == Touch(EmptyLedger, t, id)
<1>0. NoSku \notin Skus
  BY AccrualAssumption
<1>1. /\ EmptyLedger \in LedgerType /\ EmptyLedger.day = EmptyRow /\ \A s \in Skus : EmptyLedger.sku[s] = EmptyRow
      /\ EmptyLedger.net = 0 /\ EmptyLedger.mismatch = {0} /\ EmptyLedger.reconciled = {}
      /\ EmptyLedger.allocated /\ EmptyLedger.skuUnitsKnown /\ ~EmptyLedger.unknownSku /\ ~EmptyLedger.sale
      /\ RawOf(EmptyLedger) = {0}
  BY EmptyLedgerIs DEF RawOf
<1>2. Clean(EmptyRow) /\ NoMoney(EmptyRow) /\ StillUnits(EmptyRow) /\ Exact(EmptyRow.money["revenue"])
  BY CleanIs
<1>3. ASSUME NEW r, Clean(r), NEW d, d = [r EXCEPT !.returns = TRUE]
      PROVE  Clean(d) /\ NoMoney(d) /\ StillUnits(d) /\ Exact(d.money["revenue"]) /\ d.from = r.from /\ d \in RowType
             /\ d.money["revenue"] = {0}
  <2>1. d \in RowType
    BY <1>3 DEF Clean, RowType
  <2>2. /\ d.money = r.money /\ d.unallocated = r.unallocated /\ d.gaps = r.gaps /\ d.uncertain = r.uncertain
        /\ d.sold = r.sold /\ d.returned = r.returned /\ (d.unitsKnown = r.unitsKnown) /\ (d.classified = r.classified)
        /\ d.from = r.from
    BY <1>3 DEF Clean, RowType
  <2>3. Clean(d)
    BY <1>3, <2>1, <2>2 DEF Clean
  <2> QED BY <2>1, <2>2, <2>3, CleanIs DEF Clean, Fields
<1>4. Clean(F) /\ id \in F.from
  BY CleanIs
<1>5. D = [EmptyRow EXCEPT !.returns = TRUE] /\ R = [F EXCEPT !.returns = TRUE]
  OBVIOUS
<1>6. /\ z \in LedgerType /\ SameMarks(EmptyLedger, z) /\ z.day = EmptyRow
      /\ (t \in Skus => z.sku[t] = F)
      /\ \A s \in Skus : s # t => z.sku[s] = EmptyRow
  <2>1. SkuSet(EmptyLedger, z, t, [EmptyLedger.sku[t] EXCEPT !.from = @ \cup {id}])
    BY <1>1, TouchIs
  <2>2. t \in Skus => [EmptyLedger.sku[t] EXCEPT !.from = @ \cup {id}] = F
    BY <1>1
  <2> HIDE DEF z, F
  <2> QED BY <1>1, <2>1, <2>2 DEF SkuSet, SameMarks
<1> HIDE DEF D, F, R, z
<1>7. Clean(D) /\ NoMoney(D) /\ StillUnits(D) /\ Exact(D.money["revenue"]) /\ D \in RowType /\ D.money["revenue"] = {0}
  BY <1>2, <1>3, <1>5
<1>8. Clean(R) /\ NoMoney(R) /\ StillUnits(R) /\ Exact(R.money["revenue"]) /\ R.from # {} /\ R \in RowType /\ R.money["revenue"] = {0}
  BY <1>3, <1>4, <1>5
<1>9. Both({0}, {0}) = {0} /\ EmptyRow.money["revenue"] = {0}
  BY EmptyRowIs DEF Both, Fields
<1>10. ASSUME t = NoSku PROVE Piece(y, t, k, {0}, {0}, {0})
  <2>1. y = [EmptyLedger EXCEPT !.day = D]
    BY <1>1, <1>5, <1>10 DEF MarkReturn, LedgerType
  <2> HIDE DEF y
  <2>2. SameMarks(EmptyLedger, y) /\ y.day = D /\ y.sku = EmptyLedger.sku
    BY <1>1, <1>7, <2>1, SetDay
  <2>3. RowsSay(y, EmptyRow, t, k, {0}, {0}, {0})
    BY <1>1, <1>2, <1>7, <1>9, <2>2 DEF RowsSay, SameMarks, NoMoney, StillUnits
  <2>4. \A s \in Skus : y.sku[s] = IF s = t THEN EmptyRow ELSE EmptyRow
    BY <1>1, <2>2
  <2>5. EmptyRow \in RowType
    BY <1>2 DEF Clean
  <2> QED BY <1>1, <1>10, <2>2, <2>3, <2>4, <2>5, PartIs DEF SameMarks, Piece
<1>11. ASSUME t \in Skus PROVE Piece(y, t, k, {0}, {0}, {0})
  <2>1. y = [z EXCEPT !.sku[t] = R]
    <3>1. y = [z EXCEPT !.sku[t].returns = TRUE] /\ z.sku[t] = F
      BY <1>0, <1>6, <1>11 DEF MarkReturn, z
    <3> QED BY <1>5, <1>6, <1>11, <3>1 DEF LedgerType
  <2> HIDE DEF y
  <2>2. SkuSet(z, y, t, R)
    BY <1>6, <1>8, <1>11, <2>1, SetSku
  <2>3. SameMarks(EmptyLedger, y) /\ y.day = EmptyRow /\ \A s \in Skus : y.sku[s] = IF s = t THEN R ELSE EmptyRow
    BY <1>6, <2>2 DEF SameMarks, SkuSet
  <2>4. RowsSay(y, R, t, k, {0}, {0}, {0})
    BY <1>1, <1>2, <1>8, <1>9, <2>3 DEF RowsSay, SameMarks, NoMoney, StillUnits
  <2>5. t # NoSku
    BY <1>0, <1>11
  <2> QED BY <1>1, <1>8, <2>3, <2>4, <2>5, PartIs DEF SameMarks, Piece
<1> QED BY <1>10, <1>11

\* Units of a line of a sale, as they count.
LineUnit(line) == {(IF x > 0 THEN 1 ELSE -1) * q : x \in line.sale, q \in line.quantity}
\* A row that is told of units, and of no money.
HasUnits(d, r, u) == NoMoney(d) /\ d.from = r.from /\ d.sold # {} /\ d.returned # {} /\ NetUnits(d) = u

\* A row whose units are set.
UnitsSet(c, r, a, b) ==
  NoMoney(c) /\ c.from = r.from /\ c.sold = a /\ c.returned = b /\ (c.unitsKnown <=> r.unitsKnown) /\ c \in RowType

(* Units of a row that is told of no money.                                   *)
LEMMA SetUnits ==
  ASSUME NEW r, NoMoney(r), NEW a \in Amount, NEW b \in Amount, NEW c, c = [r EXCEPT !.sold = a, !.returned = b]
  PROVE  UnitsSet(c, r, a, b)
<1>1. r \in RowType
  BY DEF NoMoney
<1>2. c \in RowType
  BY <1>1 DEF RowType
<1>3. /\ c.money = r.money /\ c.unallocated = r.unallocated /\ c.gaps = r.gaps /\ c.uncertain = r.uncertain
      /\ c.sold = a /\ c.returned = b /\ (c.unitsKnown = r.unitsKnown) /\ (c.classified = r.classified)
      /\ c.from = r.from
  BY <1>1 DEF RowType
<1> QED BY <1>2, <1>3 DEF NoMoney, UnitsSet

(* _read_units, of a clean row.                                               *)
LEMMA CleanWithUnits ==
  ASSUME NEW r, Clean(r), NEW line \in PostingLine, line.sale # {}, line.quantity # {}, NEW d, d = WithUnits(r, line)
  PROVE  HasUnits(d, r, LineUnit(line)) /\ d.unitsKnown
<1>1. line.sale \in Amount /\ line.quantity \in Amount
  BY DEF PostingLine
<1>2. PICK x \in Int, q \in Int : line.sale = {x} /\ line.quantity = {q}
  <2>1. \A a \in Amount : a = {} \/ \E y \in Int : a = {y}
    BY AmountIs
  <2> QED BY <1>1, <2>1
<1>3. The(line.sale) = x /\ The(line.quantity) = q
  BY <1>2, TheIs
<1>4. LineUnit(line) = {(IF x > 0 THEN 1 ELSE -1) * q}
  BY <1>2 DEF LineUnit
<1>5. Plus({0}, q) = {q} /\ {q} \in Amount /\ {0} \in Amount /\ {q} # {} /\ {0} # {}
  <2>1. 0 + q = q
    BY <1>2
  <2>2. Plus({0}, q) = {0 + q}
    BY DEF Plus
  <2> QED BY <1>2, <2>1, <2>2, AmountIs
<1>6. r \in RowType /\ r.sold = {0} /\ r.returned = {0}
  BY DEF Clean
<1>7. NoMoney(r)
  BY CleanIs
<1>9. r.unitsKnown
  BY DEF Clean
<1>10. CASE x > 0
  <2>1. d = [r EXCEPT !.sold = {q}]
    BY <1>3, <1>5, <1>6, <1>10 DEF WithUnits
  <2>2. d = [r EXCEPT !.sold = {q}, !.returned = {0}]
    BY <1>6, <2>1 DEF RowType
  <2>3. NoMoney(d) /\ d.from = r.from /\ d.sold = {q} /\ d.returned = {0} /\ d.unitsKnown
    <3>1. UnitsSet(d, r, {q}, {0})
      BY <1>5, <1>7, <2>2, SetUnits
    <3> QED BY <1>9, <3>1 DEF UnitsSet
  <2>4. NetUnits(d) = {q - 0} /\ q - 0 = q /\ 1 * q = q
    BY <1>2, <2>3 DEF NetUnits
  <2>5. LineUnit(line) = {q}
    BY <1>2, <1>4, <1>10, <2>4
  <2> QED BY <1>5, <2>3, <2>4, <2>5 DEF HasUnits
<1>11. CASE ~(x > 0)
  <2>1. d = [r EXCEPT !.returned = {q}]
    BY <1>3, <1>5, <1>6, <1>11 DEF WithUnits
  <2>2. d = [r EXCEPT !.sold = {0}, !.returned = {q}]
    BY <1>6, <2>1 DEF RowType
  <2>3. NoMoney(d) /\ d.from = r.from /\ d.sold = {0} /\ d.returned = {q} /\ d.unitsKnown
    <3>1. UnitsSet(d, r, {0}, {q})
      BY <1>5, <1>7, <2>2, SetUnits
    <3> QED BY <1>9, <3>1 DEF UnitsSet
  <2>4. NetUnits(d) = {0 - q} /\ 0 - q = -1 * q
    BY <1>2, <2>3 DEF NetUnits
  <2>5. LineUnit(line) = {-1 * q}
    BY <1>2, <1>4, <1>11
  <2> QED BY <1>5, <2>3, <2>4, <2>5 DEF HasUnits
<1> QED BY <1>10, <1>11

\* A line without a SKU is read after it has been marked.
LineStart(t) == IF t = NoSku THEN [EmptyLedger EXCEPT !.unknownSku = TRUE] ELSE EmptyLedger

(* What a line starts with.                                                   *)
LEMMA LineStartIs ==
  ASSUME NEW t \in Skus \cup {NoSku}, NEW e, e = LineStart(t)
  PROVE  /\ e \in LedgerType /\ e.day = EmptyRow /\ \A s \in Skus : e.sku[s] = EmptyRow
         /\ e.net = 0 /\ e.mismatch = {0} /\ e.reconciled = {}
         /\ e.allocated /\ e.skuUnitsKnown /\ (e.unknownSku <=> t = NoSku) /\ ~e.sale
         /\ RawOf(e) = {0}
<1>1. /\ EmptyLedger \in LedgerType /\ EmptyLedger.day = EmptyRow /\ \A s \in Skus : EmptyLedger.sku[s] = EmptyRow
      /\ EmptyLedger.net = 0 /\ EmptyLedger.mismatch = {0} /\ EmptyLedger.reconciled = {}
      /\ EmptyLedger.allocated /\ EmptyLedger.skuUnitsKnown /\ ~EmptyLedger.unknownSku /\ ~EmptyLedger.sale
      /\ RawOf(EmptyLedger) = {0}
  BY EmptyLedgerIs DEF RawOf
<1> HIDE DEF EmptyLedger
<1>2. CASE t = NoSku
  <2>1. e = [EmptyLedger EXCEPT !.unknownSku = TRUE]
    BY <1>2 DEF LineStart
  <2>2. e \in LedgerType
    BY <1>1, <2>1 DEF LedgerType
  <2>3. /\ e.day = EmptyLedger.day /\ e.sku = EmptyLedger.sku /\ e.net = EmptyLedger.net
        /\ e.mismatch = EmptyLedger.mismatch /\ e.reconciled = EmptyLedger.reconciled
        /\ (e.allocated = EmptyLedger.allocated) /\ (e.skuUnitsKnown = EmptyLedger.skuUnitsKnown)
        /\ (e.sale = EmptyLedger.sale) /\ (e.unknownSku = TRUE) /\ e.raw = EmptyLedger.raw
        /\ (e.complete = EmptyLedger.complete)
    BY <1>1, <2>1 DEF LedgerType
  <2> QED BY <1>1, <1>2, <2>2, <2>3 DEF RawOf
<1>3. CASE t # NoSku
  <2>1. e = EmptyLedger
    BY <1>3 DEF LineStart
  <2> QED BY <1>1, <1>3, <2>1
<1> QED BY <1>2, <1>3

(* Units that nobody can tell, of a line alone.                               *)
LEMMA NoUnitsArePiece ==
  ASSUME NEW t \in Skus \cup {NoSku}, NEW id \in Ids, NEW k, NEW n \in LedgerType, NEW R \in RowType,
         n.day = EmptyRow, \A s \in Skus : n.sku[s] = IF s = t THEN R ELSE EmptyRow,
         n.net = 0, n.mismatch = {0}, n.reconciled = {}, RawOf(n) = {0}, n.unknownSku <=> t = NoSku, Clean(R)
  PROVE  Piece(MarkUnitsUnknown(n, t, id), t, k, {0}, {0}, {})
<1> DEFINE y == MarkUnitsUnknown(n, t, id)
           D == WithoutUnits(EmptyRow)
           F == [R EXCEPT !.from = @ \cup {id}]
           Z == WithoutUnits(F)
<1>0. NoSku \notin Skus
  BY AccrualAssumption
<1>1. /\ DoesToDay(n, y, D, NoUnits)
      /\ t \in Skus => \A s \in Skus : y.sku[s] = IF s = t THEN Z ELSE n.sku[s]
  <2>1. DoesToDay(n, y, D, NoUnits)
    BY MarkUnitsUnknownDoes
  <2>2. t \in Skus => \A s \in Skus : y.sku[s] = IF s = t THEN SkuWithoutUnits(n.sku[t], id) ELSE n.sku[s]
    BY MarkUnitsUnknownDoes
  <2>3. t \in Skus => n.sku[t] = R
    OBVIOUS
  <2>4. t \in Skus => SkuWithoutUnits(n.sku[t], id) = Z
    BY <2>3 DEF SkuWithoutUnits
  <2> QED BY <2>1, <2>2, <2>4
<1>2. ~NoUnits.skuUnitsKnown /\ NoUnits.allocated /\ ~NoUnits.unknownSku /\ NoUnits.raw = 0 /\ NoUnits.complete
  BY NoUnitsIs
<1>3. /\ y \in LedgerType /\ y.day = D /\ y.net = 0 /\ y.mismatch = {0} /\ y.reconciled = {}
      /\ ~y.skuUnitsKnown /\ (y.unknownSku <=> t = NoSku) /\ RawOf(y) = {0}
  <2> HIDE DEF y, D
  <2>1. /\ y \in LedgerType /\ y.day = D /\ y.net = n.net /\ y.mismatch = n.mismatch /\ y.reconciled = n.reconciled
        /\ y.skuUnitsKnown <=> n.skuUnitsKnown /\ NoUnits.skuUnitsKnown
        /\ y.unknownSku <=> n.unknownSku \/ NoUnits.unknownSku
        /\ y.raw = n.raw + NoUnits.raw /\ (y.complete <=> n.complete /\ NoUnits.complete)
    BY <1>1 DEF DoesToDay
  <2>2. n.raw + 0 = n.raw
    BY DEF LedgerType
  <2> QED BY <1>2, <2>1, <2>2 DEF RawOf
<1>4. EmptyRow \in RowType /\ Clean(EmptyRow) /\ NoMoney(EmptyRow) /\ EmptyRow.from = {}
  BY CleanIs, EmptyRowIs
<1>5. F \in RowType /\ id \in F.from /\ F.money = R.money /\ F.gaps = R.gaps /\ F.uncertain = R.uncertain
  <2>1. F \in RowType
    BY RowsAreTyped
  <2> QED BY <2>1 DEF RowType
<1>6. D = WithoutUnits(EmptyRow) /\ Z = WithoutUnits(F)
  OBVIOUS
<1> HIDE DEF D, F, Z
<1>7. /\ D \in RowType /\ D.money = EmptyRow.money /\ D.unallocated = EmptyRow.unallocated
      /\ D.gaps = EmptyRow.gaps /\ D.uncertain = EmptyRow.uncertain /\ ~D.unitsKnown
  BY <1>4, <1>6, WithoutUnitsIs
<1>8. /\ Z \in RowType /\ Z.money = F.money
      /\ Z.gaps = F.gaps /\ Z.uncertain = F.uncertain /\ Z.from = F.from /\ NetUnits(Z) = {}
  BY <1>5, <1>6, WithoutUnitsIs
<1>9. NoMoney(R) /\ Exact(R.money["revenue"]) /\ Exact(EmptyRow.money["revenue"])
      /\ R.money["revenue"] = {0} /\ EmptyRow.money["revenue"] = {0}
  BY <1>4, CleanIs DEF Clean, Fields
<1>10. Both({0}, {0}) = {0}
  BY DEF Both
<1>11. ASSUME t \in Skus PROVE Piece(y, t, k, {0}, {0}, {})
  <2>1. \A s \in Skus : y.sku[s] = IF s = t THEN Z ELSE EmptyRow
    BY <1>1, <1>11
  <2>2. t # NoSku
    BY <1>0, <1>11
  <2> HIDE DEF y
  <2>3. RowsSay(y, Z, t, k, {0}, {0}, {})
    BY <1>3, <1>4, <1>5, <1>7, <1>8, <1>9, <1>10 DEF RowsSay, NoMoney
  <2> QED BY <1>3, <1>8, <2>1, <2>2, <2>3, PartIs DEF Piece
<1>12. ASSUME t = NoSku PROVE Piece(y, t, k, {0}, {0}, {})
  <2>1. \A s \in Skus : n.sku[s] = EmptyRow
    BY <1>0, <1>12
  <2>2. \A s \in Skus : y.sku[s] = n.sku[s]
    <3>1. \A s \in Skus : n.sku[s].from = {}
      BY <1>4, <2>1
    <3> QED BY <1>12, <3>1, UnitsOfNobody
  <2>3. \A s \in Skus : y.sku[s] = IF s = t THEN EmptyRow ELSE EmptyRow
    BY <2>1, <2>2
  <2>4. t \notin Skus /\ y.unknownSku
    BY <1>0, <1>3, <1>12
  <2> HIDE DEF y
  <2>5. RowsSay(y, EmptyRow, t, k, {0}, {0}, {})
    BY <1>3, <1>4, <1>7, <1>9, <1>10, <2>4 DEF RowsSay, NoMoney, Clean
  <2> QED BY <1>3, <1>4, <1>12, <2>3, <2>5, PartIs DEF Piece
<1> QED BY <1>11, <1>12

(* A line of a sale that is known, before its units are read.                 *)
LEMMA SoldIs ==
  ASSUME NEW t \in Skus \cup {NoSku}, NEW id \in Ids, NEW m, m = Touch([LineStart(t) EXCEPT !.sale = TRUE], t, id)
  PROVE  \E R : /\ R \in RowType /\ Clean(R) /\ (t \in Skus => R.from # {}) /\ (t = NoSku => R = EmptyRow)
                /\ m \in LedgerType /\ m.day = EmptyRow /\ m.net = 0 /\ m.mismatch = {0} /\ m.reconciled = {}
                /\ RawOf(m) = {0} /\ (m.unknownSku <=> t = NoSku) /\ m.sale /\ m.allocated /\ m.skuUnitsKnown
                /\ \A s \in Skus : m.sku[s] = IF s = t THEN R ELSE EmptyRow
<1> DEFINE e == LineStart(t)
           x == [e EXCEPT !.sale = TRUE]
           F == [EmptyRow EXCEPT !.from = @ \cup {id}]
           R == IF t \in Skus THEN F ELSE EmptyRow
<1>0. NoSku \notin Skus
  BY AccrualAssumption
<1>1. /\ e \in LedgerType /\ e.day = EmptyRow /\ \A s \in Skus : e.sku[s] = EmptyRow
      /\ e.net = 0 /\ e.mismatch = {0} /\ e.reconciled = {}
      /\ e.allocated /\ e.skuUnitsKnown /\ (e.unknownSku <=> t = NoSku) /\ ~e.sale
      /\ RawOf(e) = {0}
  BY LineStartIs
<1> HIDE DEF e
<1>2. x \in LedgerType
  BY <1>1 DEF LedgerType
<1>3. /\ x.day = e.day /\ x.sku = e.sku /\ x.net = e.net /\ x.mismatch = e.mismatch /\ x.reconciled = e.reconciled
      /\ (x.allocated = e.allocated) /\ (x.skuUnitsKnown = e.skuUnitsKnown) /\ (x.unknownSku = e.unknownSku)
      /\ (x.sale = TRUE) /\ x.raw = e.raw /\ (x.complete = e.complete)
  BY <1>1 DEF LedgerType
<1>4. RawOf(x) = {0}
  BY <1>1, <1>3 DEF RawOf
<1>5. m = Touch(x, t, id)
  BY DEF e
<1>6. t \in Skus => x.sku[t] = EmptyRow
  BY <1>1, <1>3
<1> HIDE DEF x
<1> DEFINE G == [x.sku[t] EXCEPT !.from = @ \cup {id}]
<1>7. SkuSet(x, m, t, G)
  BY <1>2, <1>5, TouchIs
<1>8. t \in Skus => G = R
  BY <1>6
<1>9. /\ R \in RowType /\ Clean(R) /\ (t \in Skus => R.from # {}) /\ (t = NoSku => R = EmptyRow)
  BY <1>0, CleanIs DEF Clean
<1> HIDE DEF F, R, G
<1>10. \A s \in Skus : m.sku[s] = IF s = t THEN R ELSE EmptyRow
  <2>1. \A s \in Skus : m.sku[s] = IF s = t THEN G ELSE x.sku[s]
    BY <1>7 DEF SkuSet
  <2>2. \A s \in Skus : x.sku[s] = EmptyRow
    BY <1>1, <1>3
  <2>3. \A s \in Skus : s = t => G = R
    BY <1>8
  <2> QED BY <2>1, <2>2, <2>3
<1>11. /\ m \in LedgerType /\ m.day = EmptyRow /\ m.net = 0 /\ m.mismatch = {0} /\ m.reconciled = {}
       /\ RawOf(m) = {0} /\ (m.unknownSku <=> t = NoSku) /\ m.sale /\ m.allocated /\ m.skuUnitsKnown
  BY <1>1, <1>3, <1>4, <1>7 DEF SkuSet, SameMarks
<1> QED BY <1>9, <1>10, <1>11

(* _read_units, of a line alone.                                              *)
LEMMA UnitsArePiece ==
  ASSUME NEW t \in Skus \cup {NoSku}, NEW id \in Ids, NEW k, NEW line \in PostingLine, line.sku = t, line.sale # {}
  PROVE  Piece(Units(LineStart(t), line, id), t, k, {0}, {0}, LineUnit(line))
<1> DEFINE m == Touch([LineStart(t) EXCEPT !.sale = TRUE], t, id)
           D == WithUnits(EmptyRow, line)
           b == [m EXCEPT !.day = D]
           y == Units(LineStart(t), line, id)
<1>0. NoSku \notin Skus
  BY AccrualAssumption
<1>1. PICK R : /\ R \in RowType /\ Clean(R) /\ (t \in Skus => R.from # {}) /\ (t = NoSku => R = EmptyRow)
               /\ m \in LedgerType /\ m.day = EmptyRow /\ m.net = 0 /\ m.mismatch = {0} /\ m.reconciled = {}
               /\ RawOf(m) = {0} /\ (m.unknownSku <=> t = NoSku) /\ m.sale /\ m.allocated /\ m.skuUnitsKnown
               /\ \A s \in Skus : m.sku[s] = IF s = t THEN R ELSE EmptyRow
  BY SoldIs
<1>2. y = IF line.quantity = {} THEN MarkUnitsUnknown(m, t, id)
          ELSE IF t = NoSku THEN [[m EXCEPT !.day = WithUnits(m.day, line)] EXCEPT !.skuUnitsKnown = FALSE, !.allocated = FALSE]
          ELSE [[m EXCEPT !.day = WithUnits(m.day, line)] EXCEPT !.sku[t] = WithUnits([m EXCEPT !.day = WithUnits(m.day, line)].sku[t], line)]
  BY DEF Units, Unknown
<1>3. Clean(EmptyRow)
  BY CleanIs
<1>4. D = WithUnits(EmptyRow, line) /\ (line.quantity = {} => y = MarkUnitsUnknown(m, t, id))
      /\ (line.quantity # {} /\ t = NoSku => y = [b EXCEPT !.skuUnitsKnown = FALSE, !.allocated = FALSE])
      /\ (line.quantity # {} /\ t # NoSku => y = [b EXCEPT !.sku[t] = WithUnits(b.sku[t], line)])
  BY <1>1, <1>2
<1>5. b = [m EXCEPT !.day = D]
  OBVIOUS
<1> HIDE DEF m, D, b, y
<1>6. ASSUME line.quantity = {} PROVE Piece(y, t, k, {0}, {0}, LineUnit(line))
  <2>1. LineUnit(line) = {}
    BY <1>6 DEF LineUnit
  <2>2. Piece(MarkUnitsUnknown(m, t, id), t, k, {0}, {0}, {})
    BY <1>1, NoUnitsArePiece
  <2> QED BY <1>4, <1>6, <2>1, <2>2
<1>7. ASSUME line.quantity # {} PROVE Piece(y, t, k, {0}, {0}, LineUnit(line))
  <2>1. HasUnits(D, EmptyRow, LineUnit(line))
    BY <1>3, <1>4, <1>7, CleanWithUnits
  <2>2. D \in RowType /\ NoMoney(D)
    BY <2>1 DEF HasUnits, NoMoney
  <2>3. SameMarks(m, b) /\ b.day = D /\ b.sku = m.sku
    BY <1>1, <1>5, <2>2, SetDay
  <2>4. /\ b \in LedgerType /\ b.net = 0 /\ b.mismatch = {0} /\ b.reconciled = {} /\ RawOf(b) = {0} /\ b.sale
        /\ \A s \in Skus : b.sku[s] = IF s = t THEN R ELSE EmptyRow
    BY <1>1, <2>3 DEF SameMarks
  <2>5. D.money["revenue"] = {0} /\ EmptyRow.money["revenue"] = {0} /\ Exact({0})
    <3>1. "revenue" \in Fields
      BY DEF Fields
    <3>2. Exact(EmptyRow.money["revenue"])
      BY <1>3, CleanIs
    <3> QED BY <1>3, <2>2, <3>1, <3>2 DEF NoMoney, Clean
  <2>6. Both({0}, {0}) = {0}
    BY DEF Both
  <2>7. ASSUME t = NoSku PROVE Piece(y, t, k, {0}, {0}, LineUnit(line))
    <3>1. y = [b EXCEPT !.skuUnitsKnown = FALSE, !.allocated = FALSE]
      BY <1>4, <1>7, <2>7
    <3>2. y \in LedgerType
      BY <2>4, <3>1 DEF LedgerType
    <3>3. /\ y.day = b.day /\ y.sku = b.sku /\ y.net = b.net /\ y.mismatch = b.mismatch /\ y.reconciled = b.reconciled
          /\ (y.sale = b.sale) /\ y.raw = b.raw /\ (y.complete = b.complete) /\ (y.skuUnitsKnown = FALSE)
          /\ (y.allocated = FALSE)
      BY <2>4, <3>1 DEF LedgerType
    <3>4. RawOf(y) = {0}
      BY <2>4, <3>3 DEF RawOf
    <3>5. \A s \in Skus : y.sku[s] = IF s = t THEN EmptyRow ELSE EmptyRow
      BY <1>0, <2>4, <2>7, <3>3
    <3>6. t \notin Skus /\ y.day = D
      BY <1>0, <2>3, <2>7, <3>3
    <3>7. RowsSay(y, EmptyRow, t, k, {0}, {0}, LineUnit(line))
      BY <1>3, <2>2, <2>4, <2>5, <2>6, <3>3, <3>6, CleanIs DEF RowsSay, NoMoney, Clean
    <3> QED BY <1>3, <2>4, <2>7, <3>2, <3>3, <3>4, <3>5, <3>7, PartIs DEF Piece, Clean
  <2>8. ASSUME t \in Skus PROVE Piece(y, t, k, {0}, {0}, LineUnit(line))
    <3> DEFINE Z == WithUnits(R, line)
    <3>0. t # NoSku /\ b.sku[t] = R
      BY <1>0, <2>4, <2>8
    <3>1. y = [b EXCEPT !.sku[t] = Z]
      BY <1>4, <1>7, <3>0
    <3>2. HasUnits(Z, R, LineUnit(line))
      BY <1>1, <1>7, CleanWithUnits
    <3>3. Z \in RowType /\ NoMoney(Z) /\ Z.from # {} /\ Z.sold # {} /\ Z.returned # {} /\ NetUnits(Z) = LineUnit(line)
      BY <1>1, <2>8, <3>2 DEF HasUnits, NoMoney
    <3> HIDE DEF Z
    <3>4. SkuSet(b, y, t, Z)
      BY <2>4, <2>8, <3>1, <3>3, SetSku
    <3>5. /\ y \in LedgerType /\ y.net = 0 /\ y.mismatch = {0} /\ y.reconciled = {} /\ RawOf(y) = {0} /\ y.sale
          /\ y.day = D /\ \A s \in Skus : y.sku[s] = IF s = t THEN Z ELSE EmptyRow
      BY <2>3, <2>4, <3>4 DEF SkuSet, SameMarks
    <3>6. Z.money["revenue"] = {0}
      BY <3>3 DEF NoMoney, Fields
    <3>7. RowsSay(y, Z, t, k, {0}, {0}, LineUnit(line))
      BY <2>2, <2>5, <2>6, <3>3, <3>5, <3>6 DEF RowsSay, NoMoney
    <3> QED BY <3>0, <3>3, <3>5, <3>7, PartIs DEF Piece
  <2> QED BY <2>7, <2>8
<1> QED BY <1>6, <1>7 DEF y

(* A ledger is joined to nothing.                                             *)
LEMMA WithLineStart ==
  ASSUME NEW n \in LedgerType, NEW t \in Skus \cup {NoSku}, t = NoSku => n.unknownSku
  PROVE  Merges(n, LineStart(t), n)
<1>1. Merges(n, EmptyLedger, n)
  BY MergesNothing
<1>2. CASE t = NoSku
  <2>1. n = [n EXCEPT !.unknownSku = TRUE]
    BY <1>2 DEF LedgerType
  <2>2. LineStart(t) = [EmptyLedger EXCEPT !.unknownSku = TRUE]
    BY <1>2 DEF LineStart
  <2> QED BY <1>1, <2>1, <2>2, UnknownSkuMerges
<1>3. CASE t # NoSku
  <2>1. LineStart(t) = EmptyLedger
    BY <1>3 DEF LineStart
  <2> QED BY <1>1, <2>1
<1> QED BY <1>2, <1>3

(* Pieces are amounts' own: what they stand for can be added.                 *)
LEMMA SmallAmounts ==
  /\ {} \in Amount /\ {0} \in Amount
  /\ Both({}, {}) = {} /\ Both({0}, {}) = {} /\ Both({}, {0}) = {} /\ Both({0}, {0}) = {0}
  /\ \A a \in Amount : Both(a, {0}) = a /\ Both({0}, a) = a /\ Both(a, {}) = {} /\ Both({}, a) = {}
<1>1. {} \in Amount /\ {0} \in Amount
  BY AmountIs
<1>2. \A a \in Amount : Both(a, {0}) = a /\ Both({0}, a) = a
  BY BothLaws
<1>3. \A a \in Amount : Both(a, {}) = {} /\ Both({}, a) = {}
  BY DEF Both
<1> QED BY <1>1, <1>2, <1>3

(* parse_component, alone.                                                    *)
LEMMA ComponentIsPiece ==
  ASSUME NEW f \in Fields, NEW a \in Amount, NEW t \in Skus \cup {NoSku}, NEW id \in Ids, NEW k,
         f = "revenue" => Exact(a), f = "revenue" /\ t = NoSku => k
  PROVE  Piece(Component(EmptyLedger, f, a, t, id), t, k, a, a, {0})
<1>1. ASSUME a = {} PROVE Piece(Component(EmptyLedger, f, a, t, id), t, k, a, a, {0})
  <2> DEFINE n == Incomplete(EmptyLedger)
             e == MarkGap(EmptyLedger, f, t, id)
             m == MarkGap(n, f, t, id)
  <2>1. n \in LedgerType
    BY CountedIs, EmptyLedgerIs
  <2>2. Merges(n, EmptyLedger, n)
    BY <2>1, MergesNothing
  <2>3. Merges(n, e, m)
    <3> HIDE DEF n
    <3> QED BY <2>2, MarkGapMerges
  <2>4. Piece(n, t, k, {}, {0}, {0})
    BY NothingIsPiece
  <2>5. Part(e, t, k, {}, {}, {0})
    BY GapIsPart
  <2>6. Component(EmptyLedger, f, a, t, id) = m
    BY <1>1 DEF Component, Unknown
  <2> HIDE DEF n, e, m
  <2>7. Piece(m, t, k, Both({}, {}), Both({0}, {}), Both({0}, {0}))
    <3> DEFINE z == {0}
               v == {}
    <3>1. z \in Amount /\ v \in Amount /\ Piece(n, t, k, v, v \cup z, z) /\ Part(e, t, k, v, v, z) /\ v \cup z \in Amount /\ v \cup z = z
      BY <2>4, <2>5, SmallAmounts
    <3>2. v = {}
      OBVIOUS
    <3> HIDE DEF z, v
    <3>3. Piece(n, t, k, v, z, z)
      BY <3>1
    <3>4. Piece(m, t, k, Both(v, v), Both(z, v), Both(z, z))
      BY <2>3, <3>1, <3>2, <3>3, PieceThen
    <3> QED BY <3>4 DEF z, v
  <2> QED BY <1>1, <2>6, <2>7, SmallAmounts
<1>2. ASSUME a # {} PROVE Piece(Component(EmptyLedger, f, a, t, id), t, k, a, a, {0})
  <2>1. PICK x \in Int : a = {x}
    BY <1>2, AmountIs
  <2>2. The(a) = x
    BY <2>1, TheIs
  <2>3. Component(EmptyLedger, f, a, t, id) = AddComponent(Counted(EmptyLedger, x), f, x, t, id)
    BY <1>2, <2>2 DEF Component, Unknown
  <2>4. f = "revenue" => Exact({x})
    BY <2>1
  <2>5. Piece(AddComponent(Counted(EmptyLedger, x), f, x, t, id), t, k, {x}, {x}, {0})
    BY <2>4, KnownComponentIsPiece
  <2> QED BY <2>1, <2>3, <2>5
<1> QED BY <1>1, <1>2

(* parse_component, after other parts.                                        *)
LEMMA ThenComponent ==
  ASSUME NEW n, NEW t \in Skus \cup {NoSku}, NEW id \in Ids, NEW k,
         NEW o \in Amount, NEW w \in Amount, NEW u \in Amount, Piece(n, t, k, o, w, u),
         NEW f \in Fields, NEW a \in Amount, f = "revenue" => Exact(a), f = "revenue" /\ t = NoSku => k
  PROVE  Piece(Component(n, f, a, t, id), t, k, Both(o, a), Both(w, a), u)
<1>1. Merges(n, EmptyLedger, n)
  BY MergesNothing DEF Piece, Part
<1>2. Merges(n, Component(EmptyLedger, f, a, t, id), Component(n, f, a, t, id))
  BY <1>1, ComponentMerges
<1>3. Piece(Component(EmptyLedger, f, a, t, id), t, k, a, a, {0})
  BY ComponentIsPiece
<1> DEFINE e == Component(EmptyLedger, f, a, t, id)
           m == Component(n, f, a, t, id)
           z == {0}
<1>4. Merges(n, e, m) /\ Part(e, t, k, a, a, z) /\ RawOf(e) = a /\ z \in Amount
  BY <1>2, <1>3, SmallAmounts DEF Piece
<1> HIDE DEF e, m, z
<1>5. Piece(m, t, k, Both(o, a), Both(w, a), Both(u, z))
  BY <1>4, PieceThen
<1>6. Both(u, z) = u
  BY SmallAmounts DEF z
<1> QED BY <1>5, <1>6 DEF m

(* What is not complete is not known.                                         *)
LEMMA ThenIncomplete ==
  ASSUME NEW n, NEW t \in Skus \cup {NoSku}, NEW k,
         NEW o \in Amount, NEW w \in Amount, NEW u \in Amount, Piece(n, t, k, o, w, u)
  PROVE  Piece(Incomplete(n), t, k, {}, w, u)
<1>1. Merges(n, EmptyLedger, n)
  BY MergesNothing DEF Piece, Part
<1> DEFINE e == Incomplete(EmptyLedger)
           m == Incomplete(n)
           z == {0}
           v == {}
<1>2. Piece(e, t, k, v, z, z)
  BY NothingIsPiece
<1>3. Merges(n, e, m)
  BY <1>1, IncompleteMerges
<1>4. z \in Amount /\ v \in Amount /\ Both(o, v) = v /\ Both(w, z) = w /\ Both(u, z) = u
  BY SmallAmounts
<1>5. v = {}
  OBVIOUS
<1> HIDE DEF e, m, z, v
<1>6. Part(e, t, k, v, z, z) /\ RawOf(e) = v
  BY <1>2 DEF Piece
<1>7. Piece(m, t, k, Both(o, v), Both(w, z), Both(u, z))
  BY <1>3, <1>4, <1>6, PieceThen
<1> QED BY <1>4, <1>5, <1>7 DEF m

(* A return, after other parts.                                               *)
LEMMA ThenReturn ==
  ASSUME NEW n, NEW t \in Skus \cup {NoSku}, NEW id \in Ids, NEW k,
         NEW o \in Amount, NEW w \in Amount, NEW u \in Amount, Piece(n, t, k, o, w, u)
  PROVE  Piece(MarkReturn(n, t, id), t, k, o, w, u)
<1>1. Merges(n, EmptyLedger, n)
  BY MergesNothing DEF Piece, Part
<1> DEFINE e == MarkReturn(EmptyLedger, t, id)
           m == MarkReturn(n, t, id)
           z == {0}
<1>2. Piece(e, t, k, z, z, z)
  BY ReturnIsPiece
<1>3. Merges(n, e, m)
  BY <1>1, MarkReturnMerges
<1>4. z \in Amount /\ Both(o, z) = o /\ Both(w, z) = w /\ Both(u, z) = u
  BY SmallAmounts
<1> HIDE DEF e, m, z
<1>5. Part(e, t, k, z, z, z) /\ RawOf(e) = z
  BY <1>2 DEF Piece
<1>6. Piece(m, t, k, Both(o, z), Both(w, z), Both(u, z))
  BY <1>3, <1>4, <1>5, PieceThen
<1> QED BY <1>4, <1>6 DEF m

(* Fields that become unknown, after a part that is unknown already.          *)
LEMMA ThenUnknown ==
  ASSUME NEW n, NEW t \in Skus \cup {NoSku}, NEW id \in Ids, NEW k,
         NEW w \in Amount, NEW u \in Amount, Piece(n, t, k, {}, w, u),
         NEW fs \in SUBSET (Fields \cup {"cogs"}), "cogs" \in fs /\ t = NoSku => k \/ "revenue" \in fs
  PROVE  Piece(MarkUnknown(n, fs, t, id), t, k, {}, {}, u)
<1>1. Merges(n, EmptyLedger, n)
  BY MergesNothing DEF Piece, Part
<1> DEFINE e == MarkUnknown(EmptyLedger, fs, t, id)
           m == MarkUnknown(n, fs, t, id)
           z == {0}
           v == {}
<1>2. v \in {{}, {0}} /\ v # {0}
  OBVIOUS
<1>3. Part(e, t, k, v, v, z)
  <2> HIDE DEF v
  <2> QED BY <1>2, UnknownIsPart
<1>4. Merges(n, e, m)
  BY <1>1, MarkUnknownMerges
<1>5. z \in Amount /\ v \in Amount /\ Both(v, v) = v /\ Both(w, v) = v /\ Both(u, z) = u /\ Piece(n, t, k, v, w, u)
  BY SmallAmounts
<1>6. v = {}
  OBVIOUS
<1> HIDE DEF e, m, z, v
<1>7. Piece(m, t, k, Both(v, v), Both(w, v), Both(u, z))
  BY <1>3, <1>4, <1>5, <1>6, PieceThen
<1> QED BY <1>5, <1>6, <1>7 DEF m

(* Units of a line, after other parts of it.                                  *)
LEMMA ThenUnits ==
  ASSUME NEW n, NEW t \in Skus \cup {NoSku}, NEW id \in Ids, NEW k,
         NEW o \in Amount, NEW w \in Amount, NEW u \in Amount, Piece(n, t, k, o, w, u),
         t = NoSku => n.unknownSku, NEW line \in PostingLine, line.sku = t, line.sale # {}, LineUnit(line) \in Amount
  PROVE  Piece(Units(n, line, id), t, k, o, w, Both(u, LineUnit(line)))
<1>1. Merges(n, LineStart(t), n)
  BY WithLineStart DEF Piece, Part
<1> DEFINE e == Units(LineStart(t), line, id)
           m == Units(n, line, id)
           z == {0}
<1>2. Piece(e, t, k, z, z, LineUnit(line))
  BY UnitsArePiece
<1>3. t = NoSku => LineStart(t).unknownSku
  BY LineStartIs
<1>4. Merges(n, e, m)
  BY <1>1, <1>3, UnitsMerges
<1>5. z \in Amount /\ Both(o, z) = o /\ Both(w, z) = w
  BY SmallAmounts
<1> HIDE DEF e, m, z
<1>6. Part(e, t, k, z, z, LineUnit(line)) /\ RawOf(e) = z
  BY <1>2 DEF Piece
<1>7. Piece(m, t, k, Both(o, z), Both(w, z), Both(u, LineUnit(line)))
  BY <1>4, <1>5, <1>6, PieceThen
<1> QED BY <1>5, <1>7 DEF m

(* Units that nobody can tell, after other parts.                             *)
LEMMA ThenNoUnits ==
  ASSUME NEW n, NEW t \in Skus \cup {NoSku}, NEW id \in Ids, NEW k,
         NEW o \in Amount, NEW w \in Amount, NEW u \in Amount, Piece(n, t, k, o, w, u),
         t = NoSku => n.unknownSku
  PROVE  Piece(MarkUnitsUnknown(n, t, id), t, k, o, w, {})
<1>1. Merges(n, LineStart(t), n)
  BY WithLineStart DEF Piece, Part
<1> DEFINE x == LineStart(t)
           e == MarkUnitsUnknown(x, t, id)
           m == MarkUnitsUnknown(n, t, id)
           z == {0}
           v == {}
<1>2. /\ x \in LedgerType /\ x.day = EmptyRow /\ \A s \in Skus : x.sku[s] = EmptyRow
      /\ x.net = 0 /\ x.mismatch = {0} /\ x.reconciled = {} /\ RawOf(x) = {0} /\ (x.unknownSku <=> t = NoSku)
  BY LineStartIs
<1>3. Piece(e, t, k, z, z, v)
  <2> HIDE DEF x
  <2>1. \A s \in Skus : x.sku[s] = IF s = t THEN EmptyRow ELSE EmptyRow
    BY <1>2
  <2>2. Clean(EmptyRow) /\ EmptyRow \in RowType
    BY CleanIs, EmptyRowIs
  <2> QED BY <1>2, <2>1, <2>2, NoUnitsArePiece
<1>4. Merges(n, e, m)
  <2> HIDE DEF x
  <2>1. Merges(n, x, n)
    BY <1>1 DEF x
  <2> QED BY <1>2, <2>1, MarkUnitsUnknownMerges
<1>5. z \in Amount /\ v \in Amount /\ Both(o, z) = o /\ Both(w, z) = w /\ Both(u, v) = v
  BY SmallAmounts
<1>6. v = {}
  OBVIOUS
<1> HIDE DEF e, m, z, v
<1>7. Part(e, t, k, z, z, v) /\ RawOf(e) = z
  BY <1>3 DEF Piece
<1>8. Piece(m, t, k, Both(o, z), Both(w, z), Both(u, v))
  BY <1>4, <1>5, <1>7, PieceThen
<1> QED BY <1>5, <1>6, <1>8 DEF m

================================================================================
