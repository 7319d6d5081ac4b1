----------------------------- MODULE SumTheorems -----------------------------
(* Sums over finite sets of naturals: what MapThenSumSet gives for the empty set, *)
(* for one more element, for a larger set and for larger terms. The module         *)
(* proves the induction these need from the least element of a set of naturals.   *)
EXTENDS FiniteSetsExt, WellFoundedInduction, FiniteSetTheorems, Integers, TLAPS

\* A set of naturals that is not empty has a least element.
LEMMA NatMin ==
    ASSUME NEW T, T \subseteq Nat, T # {}
    PROVE  \E m \in T : \A n \in T : m <= n
<1> DEFINE R == {ss \in Nat \X Nat : ss[1] < ss[2]}
<1>1. IsWellFoundedOn(R, Nat)
  BY NatLessThanWellFounded DEF OpToRel
<1>2. PICK m \in T : \A n \in T : ~(<<n, m>> \in R)
  <2> HIDE DEF R
  <2>1. QED
    BY <1>1, WFMin
<1>3. ASSUME NEW n \in T PROVE m <= n
  <2>1. n \in Nat /\ m \in Nat
    OBVIOUS
  <2>2. ~(n < m)
    BY <1>2, <2>1
  <2>3. QED
    BY <2>1, <2>2
<1>4. QED
  BY <1>3

\* A set of naturals up to a bound that is not empty has a greatest element.
LEMMA NatMax ==
    ASSUME NEW n \in Nat, NEW S, S \subseteq 0 .. n, S # {}
    PROVE  \E m \in S : \A k \in S : k <= m
<1> DEFINE T == {n - i : i \in S}
<1>1. T \subseteq Nat /\ T # {}
  <2>1. \A i \in S : i \in Nat /\ i <= n
    OBVIOUS
  <2>2. \A i \in S : n - i \in Nat
    BY <2>1
  <2>3. QED
    BY <2>2
<1>2. PICK t \in T : \A k \in T : t <= k
  <2> HIDE DEF T
  <2>1. QED
    BY <1>1, NatMin
<1>3. PICK i \in S : t = n - i
  BY <1>2
<1>4. \A j \in S : j <= i
  BY <1>2, <1>3
<1>5. QED
  BY <1>3, <1>4

\* A set that has 0 and with a number the next has all naturals.
LEMMA NatAll ==
    ASSUME NEW Q, 0 \in Q, \A n \in Nat : n \in Q => n + 1 \in Q
    PROVE  Nat \subseteq Q
<1> SUFFICES ASSUME Nat \ Q # {} PROVE FALSE
  OBVIOUS
<1>1. PICK m \in Nat \ Q : \A n \in Nat \ Q : m <= n
  BY NatMin
<1>2. m # 0 /\ m - 1 \in Nat
  BY <1>1
<1>3. m - 1 \in Q
  BY <1>1, <1>2
<1>4. (m - 1) + 1 = m
  BY <1>1
<1>5. QED
  BY <1>1, <1>2, <1>3, <1>4

Pick(s) == CHOOSE x \in s : TRUE

\* The function g of the subsets of S sums the terms f of each.
SumsUp(f, S, g) ==
    g = [s \in SUBSET S |-> IF s = {} THEN 0 ELSE f[Pick(s)] + g[s \ {Pick(s)}]]

\* A set that is not empty is one element more than a smaller one.
LEMMA PickFacts ==
    ASSUME NEW s, IsFiniteSet(s), s # {}
    PROVE  /\ Pick(s) \in s /\ IsFiniteSet(s \ {Pick(s)})
           /\ Cardinality(s) \in Nat /\ Cardinality(s) # 0
           /\ Cardinality(s \ {Pick(s)}) = Cardinality(s) - 1
<1>1. Pick(s) \in s
  BY DEF Pick
<1>2. QED
  BY <1>1, FS_RemoveElement, FS_EmptySet, FS_CardinalityType

\* A set of n + 1 elements without one of them has n.
LEMMA OneLess ==
    ASSUME NEW s, IsFiniteSet(s), NEW n \in Nat, Cardinality(s) = n + 1, NEW y \in s
    PROVE  Cardinality(s \ {y}) = n
<1>1. Cardinality(s \ {y}) = Cardinality(s) - 1
  BY FS_RemoveElement
<1>2. (n + 1) - 1 = n
  OBVIOUS
<1>3. QED
  BY <1>1, <1>2

\* Subsets of a finite set are finite.
LEMMA PartFinite ==
    ASSUME NEW S, IsFiniteSet(S), NEW s \in SUBSET S
    PROVE  IsFiniteSet(s) /\ Cardinality(s) \in Nat
BY FS_Subset, FS_CardinalityType

\* So is what a function makes of one.
LEMMA ImageFinite ==
    ASSUME NEW S, IsFiniteSet(S), NEW f
    PROVE  IsFiniteSet({f[x] : x \in S})
<1> DEFINE g == [x \in S |-> f[x]]
<1>1. g \in Surjection(S, {f[x] : x \in S})
  BY DEF Surjection
<1>2. QED
  BY <1>1, FS_Surjection

\* Some function does.
LEMMA SumsExist ==
    ASSUME NEW S, NEW f, IsFiniteSet(S), \A x \in S : f[x] \in Nat
    PROVE  \E g \in [SUBSET S -> Nat] : SumsUp(f, S, g)
<1> DEFINE Upto(g, n) ==
             \A s \in SUBSET S : Cardinality(s) <= n =>
                g[s] = IF s = {} THEN 0 ELSE f[Pick(s)] + g[s \ {Pick(s)}]
           Q == {n \in Nat : \E g \in [SUBSET S -> Nat] : Upto(g, n)}
<1>1. 0 \in Q
  <2> DEFINE g == [s \in SUBSET S |-> 0]
  <2>1. ASSUME NEW s \in SUBSET S, Cardinality(s) <= 0 PROVE s = {}
    BY <2>1, PartFinite, FS_EmptySet
  <2>2. Upto(g, 0)
    BY <2>1
  <2>3. QED
    BY <2>2
<1>2. ASSUME NEW n \in Nat, n \in Q PROVE n + 1 \in Q
  <2>1. PICK g \in [SUBSET S -> Nat] : Upto(g, n)
    BY <1>2
  <2> DEFINE h == [s \in SUBSET S |-> IF s # {} /\ Cardinality(s) = n + 1
                                      THEN f[Pick(s)] + g[s \ {Pick(s)}] ELSE g[s]]
  <2>2. ASSUME NEW s \in SUBSET S, s # {}
        PROVE  /\ Pick(s) \in S /\ s \ {Pick(s)} \in SUBSET S
               /\ Cardinality(s) \in Nat /\ Cardinality(s \ {Pick(s)}) = Cardinality(s) - 1
    BY <2>2, PartFinite, PickFacts
  <2>3. h \in [SUBSET S -> Nat]
    <3>1. ASSUME NEW s \in SUBSET S, s # {} PROVE f[Pick(s)] + g[s \ {Pick(s)}] \in Nat
      BY <2>2, <3>1
    <3>2. QED
      BY <3>1
  <2>4. ASSUME NEW s \in SUBSET S, Cardinality(s) <= n + 1
        PROVE  h[s] = IF s = {} THEN 0 ELSE f[Pick(s)] + h[s \ {Pick(s)}]
    <3>1. CASE s = {}
      <4>1. Cardinality(s) = 0
        BY <3>1, FS_EmptySet
      <4>2. g[s] = 0
        BY <2>1, <3>1, <4>1
      <4>3. QED
        BY <3>1, <4>2
    <3>2. CASE s # {}
      <4>1. /\ s \ {Pick(s)} \in SUBSET S /\ Cardinality(s \ {Pick(s)}) = Cardinality(s) - 1
            /\ Cardinality(s) \in Nat
        BY <2>2, <3>2
      <4>2. Cardinality(s \ {Pick(s)}) # n + 1
        BY <2>4, <4>1
      <4>3. h[s \ {Pick(s)}] = g[s \ {Pick(s)}]
        BY <4>1, <4>2
      <4>4. CASE Cardinality(s) = n + 1
        BY <3>2, <4>3, <4>4
      <4>5. CASE Cardinality(s) # n + 1
        <5>1. Cardinality(s) <= n
          BY <2>4, <4>1, <4>5
        <5>2. h[s] = g[s]
          BY <4>5
        <5>3. g[s] = f[Pick(s)] + g[s \ {Pick(s)}]
          BY <2>1, <3>2, <5>1
        <5>4. QED
          BY <3>2, <4>3, <5>2, <5>3
      <4>6. QED
        BY <4>4, <4>5
    <3>3. QED
      BY <3>1, <3>2
  <2> HIDE DEF h
  <2>5. Upto(h, n + 1)
    BY <2>4
  <2> HIDE DEF Upto
  <2>6. \E k \in [SUBSET S -> Nat] : Upto(k, n + 1)
    BY <2>3, <2>5
  <2>7. QED
    BY <2>6
<1>3. Cardinality(S) \in Q
  <2> HIDE DEF Q
  <2>1. QED
    BY <1>1, <1>2, NatAll, FS_CardinalityType
<1>4. PICK g \in [SUBSET S -> Nat] : Upto(g, Cardinality(S))
  BY <1>3
<1>5. ASSUME NEW s \in SUBSET S
      PROVE  g[s] = IF s = {} THEN 0 ELSE f[Pick(s)] + g[s \ {Pick(s)}]
  BY <1>4, FS_Subset
<1>6. QED
  BY <1>5 DEF SumsUp

\* The sum of the terms f of S.
Total(f, S) == (CHOOSE g : SumsUp(f, S, g))[S]

\* Functions that sum the same terms agree.
LEMMA SumsAgree ==
    ASSUME NEW S, NEW T, NEW f, NEW h, NEW g, NEW k, IsFiniteSet(S), IsFiniteSet(T),
           SumsUp(f, S, g), SumsUp(h, T, k),
           NEW U, U \subseteq S, U \subseteq T, \A x \in U : f[x] = h[x]
    PROVE  g[U] = k[U]
<1> DEFINE Q == {n \in Nat : \A s \in SUBSET U : Cardinality(s) = n => g[s] = k[s]}
<1>1. ASSUME NEW s \in SUBSET U
      PROVE  /\ IsFiniteSet(s) /\ Cardinality(s) \in Nat
             /\ s = {} => g[s] = 0 /\ k[s] = 0
             /\ s # {} => g[s] = f[Pick(s)] + g[s \ {Pick(s)}] /\ k[s] = h[Pick(s)] + k[s \ {Pick(s)}]
  <2>1. s \in SUBSET S /\ s \in SUBSET T
    OBVIOUS
  <2>2. IsFiniteSet(s) /\ Cardinality(s) \in Nat
    BY <2>1, PartFinite
  <2>3. QED
    BY <2>1, <2>2 DEF SumsUp
<1>2. 0 \in Q
  <2>1. ASSUME NEW s \in SUBSET U, Cardinality(s) = 0 PROVE s = {}
    BY <1>1, <2>1, FS_EmptySet
  <2>2. QED
    BY <1>1, <2>1
<1>3. ASSUME NEW n \in Nat, n \in Q PROVE n + 1 \in Q
  <2>1. ASSUME NEW s \in SUBSET U, Cardinality(s) = n + 1 PROVE g[s] = k[s]
    <3>1. s # {}
      BY <2>1, FS_EmptySet
    <3>2. Pick(s) \in U /\ s \ {Pick(s)} \in SUBSET U /\ Cardinality(s \ {Pick(s)}) = n
      <4>1. IsFiniteSet(s) /\ Pick(s) \in s
        BY <1>1, <3>1, PickFacts
      <4>2. Cardinality(s \ {Pick(s)}) = n
        BY <2>1, <4>1, OneLess
      <4>3. QED
        BY <4>1, <4>2
    <3>3. g[s \ {Pick(s)}] = k[s \ {Pick(s)}]
      BY <1>3, <3>2
    <3>4. QED
      BY <1>1, <3>1, <3>2, <3>3
  <2>2. QED
    BY <2>1
<1>4. Cardinality(U) \in Q
  <2> HIDE DEF Q
  <2>1. QED
    BY <1>1, <1>2, <1>3, NatAll
<1>5. QED
  BY <1>4

\* A function that sums the terms of a set says what the sum of any subset is.
LEMMA TotalIs ==
    ASSUME NEW S, NEW f, NEW g, IsFiniteSet(S), \A x \in S : f[x] \in Nat, SumsUp(f, S, g),
           NEW s \in SUBSET S
    PROVE  Total(f, s) = g[s]
<1> DEFINE k == CHOOSE k : SumsUp(f, s, k)
<1>1. IsFiniteSet(s)
  BY PartFinite
<1>2. \E q : SumsUp(f, s, q)
  BY <1>1, SumsExist
<1>3. SumsUp(f, s, k)
  BY <1>2
<1> HIDE DEF k
<1>4. k[s] = g[s]
  BY <1>1, <1>3, SumsAgree
<1>5. Total(f, s) = k[s]
  BY DEF Total, k
<1>6. QED
  BY <1>4, <1>5

\* The sum is a natural, of nothing 0, and takes its terms one by one.
LEMMA TotalStep ==
    ASSUME NEW S, NEW f, IsFiniteSet(S), \A x \in S : f[x] \in Nat
    PROVE  /\ Total(f, S) \in Nat
           /\ S = {} => Total(f, S) = 0
           /\ S # {} => Total(f, S) = f[Pick(S)] + Total(f, S \ {Pick(S)})
<1>1. PICK g \in [SUBSET S -> Nat] : SumsUp(f, S, g)
  BY SumsExist
<1>2. \A s \in SUBSET S : Total(f, s) = g[s]
  BY <1>1, TotalIs
<1>3. S # {} => g[S] = f[Pick(S)] + g[S \ {Pick(S)}]
  BY <1>1 DEF SumsUp
<1>4. S = {} => g[S] = 0
  BY <1>1 DEF SumsUp
<1>5. S \in SUBSET S /\ S \ {Pick(S)} \in SUBSET S
  OBVIOUS
<1>6. QED
  BY <1>2, <1>3, <1>4, <1>5

\* What the library's sum computes is the total.
THEOREM SumIsTotal ==
    ASSUME NEW S, NEW f, IsFiniteSet(S), \A x \in S : f[x] \in Nat
    PROVE  MapThenSumSet(LAMBDA x : f[x], S) = Total(f, S)
<1> DEFINE g == CHOOSE g : SumsUp(f, S, g)
<1>1. \E k : SumsUp(f, S, k)
  BY SumsExist
<1>2. SumsUp(f, S, g)
  BY <1>1
<1>3. MapThenSumSet(LAMBDA x : f[x], S) = g[S]
  BY Zenon DEF MapThenSumSet, MapThenFoldSet, SumsUp, Pick
<1> HIDE DEF g
<1>4. Total(f, S) = g[S]
  BY <1>2, TotalIs
<1>5. QED
  BY <1>3, <1>4

\* The same terms have the same sum.
LEMMA TotalSame ==
    ASSUME NEW S, NEW f, NEW h, IsFiniteSet(S), \A x \in S : f[x] \in Nat /\ h[x] = f[x]
    PROVE  Total(h, S) = Total(f, S)
<1>1. PICK g \in [SUBSET S -> Nat] : SumsUp(f, S, g)
  BY SumsExist
<1>2. PICK k \in [SUBSET S -> Nat] : SumsUp(h, S, k)
  BY SumsExist
<1>3. g[S] = k[S]
  BY <1>1, <1>2, SumsAgree
<1>4. S \in SUBSET S
  OBVIOUS
<1>5. Total(f, S) = g[S] /\ Total(h, S) = k[S]
  BY <1>1, <1>2, <1>4, TotalIs
<1>6. QED
  BY <1>3, <1>5

\* Any term can be the one that is taken.
THEOREM TotalRemove ==
    ASSUME NEW S, NEW f, IsFiniteSet(S), \A x \in S : f[x] \in Nat, NEW x \in S
    PROVE  Total(f, S) = f[x] + Total(f, S \ {x})
<1> DEFINE Q == {n \in Nat : \A s \in SUBSET S : Cardinality(s) = n =>
                    \A y \in s : Total(f, s) = f[y] + Total(f, s \ {y})}
<1>1. ASSUME NEW s \in SUBSET S
      PROVE  /\ IsFiniteSet(s) /\ Cardinality(s) \in Nat /\ Total(f, s) \in Nat
             /\ s # {} => Total(f, s) = f[Pick(s)] + Total(f, s \ {Pick(s)})
  <2>1. IsFiniteSet(s) /\ Cardinality(s) \in Nat
    BY PartFinite
  <2>2. \A y \in s : f[y] \in Nat
    OBVIOUS
  <2>3. QED
    BY <2>1, <2>2, TotalStep
<1>2. 0 \in Q
  BY <1>1, FS_EmptySet
<1>3. ASSUME NEW n \in Nat, n \in Q PROVE n + 1 \in Q
  <2>1. ASSUME NEW s \in SUBSET S, Cardinality(s) = n + 1, NEW y \in s
        PROVE  Total(f, s) = f[y] + Total(f, s \ {y})
    <3> DEFINE p == Pick(s)
               r == s \ {p}
               q == s \ {y}
               both == r \ {y}
    <3>1. s # {} /\ p \in s
      BY PickFacts, <1>1
    <3>2. Total(f, s) = f[p] + Total(f, r)
      BY <1>1, <3>1
    <3>3. CASE y = p
      BY <3>2, <3>3
    <3>4. CASE y # p
      <4>0. Cardinality(r) = n
        BY <1>1, <2>1, <3>1, OneLess
      <4>1. /\ r \in SUBSET S /\ q \in SUBSET S /\ both \in SUBSET S /\ y \in r /\ p \in q
            /\ Cardinality(r) = n /\ q \ {p} = both
        BY <2>1, <3>1, <3>4, <4>0
      <4>2. Cardinality(q) = n
        BY <1>1, <2>1, OneLess
      <4>3. Total(f, r) = f[y] + Total(f, both)
        BY <1>3, <4>1
      <4>4. Total(f, q) = f[p] + Total(f, q \ {p})
        BY <1>3, <4>1, <4>2
      <4>5. Total(f, both) \in Nat /\ f[p] \in Nat /\ f[y] \in Nat
        BY <1>1, <3>1, <4>1
      <4> HIDE DEF p, r, q, both
      <4>6. Total(f, s) = f[y] + Total(f, q)
        BY <3>2, <4>1, <4>3, <4>4, <4>5
      <4>7. QED
        BY <4>6 DEF q
    <3>5. QED
      BY <3>3, <3>4
  <2>2. QED
    BY <2>1
<1>4. Cardinality(S) \in Q
  <2> HIDE DEF Q
  <2>1. QED
    BY <1>1, <1>2, <1>3, NatAll
<1>5. QED
  BY <1>4

\* Terms that are 0 add up to 0.
THEOREM TotalZero ==
    ASSUME NEW S, NEW f, IsFiniteSet(S), \A x \in S : f[x] = 0
    PROVE  Total(f, S) = 0
<1> DEFINE Q == {n \in Nat : \A s \in SUBSET S : Cardinality(s) = n => Total(f, s) = 0}
<1>1. ASSUME NEW s \in SUBSET S
      PROVE  /\ IsFiniteSet(s) /\ Cardinality(s) \in Nat /\ Total(f, s) \in Nat
             /\ s = {} => Total(f, s) = 0
             /\ \A y \in s : Total(f, s) = f[y] + Total(f, s \ {y})
  <2>1. IsFiniteSet(s) /\ Cardinality(s) \in Nat /\ \A y \in s : f[y] \in Nat
    BY PartFinite
  <2>2. QED
    BY <2>1, TotalStep, TotalRemove
<1>2. 0 \in Q
  BY <1>1, FS_EmptySet
<1>3. ASSUME NEW n \in Nat, n \in Q PROVE n + 1 \in Q
  <2>1. ASSUME NEW s \in SUBSET S, Cardinality(s) = n + 1 PROVE Total(f, s) = 0
    <3>1. PICK y : y \in s
      BY <2>1, FS_EmptySet
    <3>2. s \ {y} \in SUBSET S /\ Cardinality(s \ {y}) = n
      BY <1>1, <2>1, <3>1, OneLess
    <3>3. Total(f, s \ {y}) = 0 /\ f[y] = 0
      BY <1>3, <3>1, <3>2
    <3>4. QED
      BY <1>1, <3>1, <3>3
  <2>2. QED
    BY <2>1
<1>4. Cardinality(S) \in Q
  <2> HIDE DEF Q
  <2>1. QED
    BY <1>1, <1>2, <1>3, NatAll
<1>5. QED
  BY <1>4

\* Equal terms add up to as many times the term.
THEOREM TotalConst ==
    ASSUME NEW S, NEW f, NEW c \in Nat, IsFiniteSet(S), \A x \in S : f[x] = c
    PROVE  Total(f, S) = c * Cardinality(S)
<1> DEFINE Q == {n \in Nat : \A s \in SUBSET S : Cardinality(s) = n => Total(f, s) = c * n}
<1>1. ASSUME NEW s \in SUBSET S
      PROVE  /\ IsFiniteSet(s) /\ Cardinality(s) \in Nat /\ Total(f, s) \in Nat
             /\ s = {} => Total(f, s) = 0
             /\ \A y \in s : Total(f, s) = f[y] + Total(f, s \ {y})
  <2>1. IsFiniteSet(s) /\ Cardinality(s) \in Nat /\ \A y \in s : f[y] \in Nat
    BY PartFinite
  <2>2. QED
    BY <2>1, TotalStep, TotalRemove
<1>2. 0 \in Q
  BY <1>1, FS_EmptySet
<1>3. ASSUME NEW n \in Nat, n \in Q PROVE n + 1 \in Q
  <2>1. ASSUME NEW s \in SUBSET S, Cardinality(s) = n + 1 PROVE Total(f, s) = c * (n + 1)
    <3>1. PICK y : y \in s
      BY <2>1, FS_EmptySet
    <3>2. s \ {y} \in SUBSET S /\ Cardinality(s \ {y}) = n
      BY <1>1, <2>1, <3>1, OneLess
    <3>3. Total(f, s \ {y}) = c * n /\ f[y] = c
      BY <1>3, <3>1, <3>2
    <3>4. Total(f, s) = c + c * n
      BY <1>1, <3>1, <3>3
    <3>5. QED
      BY <3>4
  <2>2. QED
    BY <2>1
<1>4. Cardinality(S) \in Q
  <2> HIDE DEF Q
  <2>1. QED
    BY <1>1, <1>2, <1>3, NatAll
<1>5. QED
  BY <1>4

\* One element more adds its term.
THEOREM TotalAdd ==
    ASSUME NEW S, NEW f, IsFiniteSet(S), NEW x, x \notin S, \A y \in S \cup {x} : f[y] \in Nat
    PROVE  Total(f, S \cup {x}) = f[x] + Total(f, S)
<1>1. IsFiniteSet(S \cup {x}) /\ (S \cup {x}) \ {x} = S
  BY FS_AddElement
<1>2. QED
  BY <1>1, TotalRemove

\* Smaller terms and fewer terms have a smaller sum.
THEOREM TotalMono ==
    ASSUME NEW S, NEW T, NEW f, NEW h, IsFiniteSet(T), S \subseteq T,
           \A x \in T : f[x] \in Nat /\ h[x] \in Nat, \A x \in S : f[x] <= h[x]
    PROVE  Total(f, S) <= Total(h, T)
<1> DEFINE Q == {n \in Nat : \A t \in SUBSET T : Cardinality(t) = n =>
                    Total(f, t \cap S) <= Total(h, t)}
<1>1. ASSUME NEW t \in SUBSET T
      PROVE  /\ IsFiniteSet(t) /\ Cardinality(t) \in Nat /\ Total(h, t) \in Nat
             /\ IsFiniteSet(t \cap S) /\ Total(f, t \cap S) \in Nat
             /\ \A y \in t : Total(h, t) = h[y] + Total(h, t \ {y})
             /\ \A y \in t \cap S : Total(f, t \cap S) = f[y] + Total(f, (t \cap S) \ {y})
  <2>1. IsFiniteSet(t) /\ Cardinality(t) \in Nat /\ IsFiniteSet(t \cap S)
    BY PartFinite
  <2>2. (\A y \in t : h[y] \in Nat) /\ (\A y \in t \cap S : f[y] \in Nat)
    OBVIOUS
  <2>3. Total(h, t) \in Nat /\ Total(f, t \cap S) \in Nat
    BY <2>1, <2>2, TotalStep
  <2>4. QED
    BY <2>1, <2>2, <2>3, TotalRemove
<1>2. 0 \in Q
  <2>1. ASSUME NEW t \in SUBSET T, Cardinality(t) = 0
        PROVE  Total(f, t \cap S) <= Total(h, t)
    <3>1. t = {} /\ t \cap S = {}
      BY <1>1, <2>1, FS_EmptySet
    <3>2. Total(f, t \cap S) = 0 /\ Total(h, t) = 0
      BY <3>1, FS_EmptySet, TotalStep
    <3>3. QED
      BY <3>2
  <2>2. QED
    BY <2>1
<1>3. ASSUME NEW n \in Nat, n \in Q PROVE n + 1 \in Q
  <2>1. ASSUME NEW t \in SUBSET T, Cardinality(t) = n + 1
        PROVE  Total(f, t \cap S) <= Total(h, t)
    <3>1. PICK y : y \in t
      BY <2>1, FS_EmptySet
    <3> DEFINE u == t \ {y}
    <3>2. u \in SUBSET T /\ Cardinality(u) = n
      BY <1>1, <2>1, <3>1, OneLess
    <3>3. Total(f, u \cap S) <= Total(h, u)
      BY <1>3, <3>2
    <3>4. Total(h, t) = h[y] + Total(h, u) /\ h[y] \in Nat /\ f[y] \in Nat
      BY <1>1, <3>1
    <3>5. Total(f, u \cap S) \in Nat /\ Total(h, u) \in Nat /\ Total(f, t \cap S) \in Nat
      BY <1>1, <3>2
    <3>6. CASE y \in S
      <4>1. (t \cap S) \ {y} = u \cap S /\ y \in t \cap S
        BY <3>1, <3>6
      <4>2. Total(f, t \cap S) = f[y] + Total(f, (t \cap S) \ {y})
        BY <1>1, <4>1
      <4>3. f[y] <= h[y]
        BY <3>6
      <4>4. Total(f, t \cap S) = f[y] + Total(f, u \cap S)
        BY <4>1, <4>2
      <4> HIDE DEF u
      <4>5. QED
        BY <3>3, <3>4, <3>5, <4>3, <4>4
    <3>7. CASE y \notin S
      <4>1. t \cap S = u \cap S
        BY <3>1, <3>7
      <4> HIDE DEF u
      <4>2. QED
        BY <3>3, <3>4, <3>5, <4>1
    <3>8. QED
      BY <3>6, <3>7
  <2>2. QED
    BY <2>1
<1>4. Cardinality(T) \in Q
  <2> HIDE DEF Q
  <2>1. QED
    BY <1>1, <1>2, <1>3, NatAll
<1>5. T \cap S = S
  OBVIOUS
<1>6. QED
  BY <1>4, <1>5

\* Terms that each go into one of their own, and are no larger, have no larger sum.
THEOREM TotalInto ==
    ASSUME NEW S, NEW T, NEW f, NEW h, NEW m, IsFiniteSet(S), IsFiniteSet(T),
           \A x \in S : m[x] \in T /\ f[x] \in Nat /\ f[x] <= h[m[x]],
           \A y \in T : h[y] \in Nat,
           \A x, y \in S : m[x] = m[y] => x = y
    PROVE  Total(f, S) <= Total(h, T)
<1> DEFINE Image(s) == {m[x] : x \in s}
           Q == {n \in Nat : \A s \in SUBSET S : Cardinality(s) = n =>
                    Total(f, s) <= Total(h, Image(s))}
<1>1. ASSUME NEW s \in SUBSET S
      PROVE  /\ IsFiniteSet(s) /\ Cardinality(s) \in Nat /\ Total(f, s) \in Nat
             /\ Image(s) \subseteq T /\ IsFiniteSet(Image(s)) /\ Total(h, Image(s)) \in Nat
             /\ s = {} => Total(f, s) = 0
             /\ \A y \in s : Total(f, s) = f[y] + Total(f, s \ {y})
  <2>1. IsFiniteSet(s) /\ Cardinality(s) \in Nat /\ \A y \in s : f[y] \in Nat
    BY PartFinite
  <2>2. Image(s) \in SUBSET T
    OBVIOUS
  <2>3. IsFiniteSet(Image(s)) /\ \A y \in Image(s) : h[y] \in Nat
    BY <2>2, PartFinite
  <2> HIDE DEF Image
  <2>4. QED
    BY <2>1, <2>2, <2>3, TotalStep, TotalRemove
<1>2. 0 \in Q
  <2>1. ASSUME NEW s \in SUBSET S, Cardinality(s) = 0 PROVE Total(f, s) <= Total(h, Image(s))
    <3>1. Total(f, s) = 0 /\ Total(h, Image(s)) \in Nat
      BY <1>1, <2>1, FS_EmptySet
    <3>2. QED
      BY <3>1
  <2>2. QED
    BY <2>1
<1>3. ASSUME NEW n \in Nat, n \in Q PROVE n + 1 \in Q
  <2>1. ASSUME NEW s \in SUBSET S, Cardinality(s) = n + 1 PROVE Total(f, s) <= Total(h, Image(s))
    <3>1. PICK y : y \in s
      BY <2>1, FS_EmptySet
    <3> DEFINE u == s \ {y}
    <3>2. u \in SUBSET S /\ Cardinality(u) = n
      BY <1>1, <2>1, <3>1, OneLess
    <3>3. Total(f, u) <= Total(h, Image(u))
      BY <1>3, <3>2
    <3>4. Image(s) = Image(u) \cup {m[y]} /\ m[y] \notin Image(u)
      BY <3>1
    <3>5. Total(f, s) = f[y] + Total(f, u)
      BY <1>1, <3>1
    <3> HIDE DEF Image, u
    <3>6. /\ Image(u) \subseteq T /\ IsFiniteSet(Image(u)) /\ m[y] \in T
          /\ {Total(f, u), Total(h, Image(u)), f[y], h[m[y]]} \subseteq Nat /\ f[y] <= h[m[y]]
      BY <1>1, <3>1, <3>2
    <3>7. Total(h, Image(s)) = h[m[y]] + Total(h, Image(u))
      BY <3>4, <3>6, TotalAdd
    <3>8. QED
      BY <3>3, <3>5, <3>6, <3>7
  <2>2. QED
    BY <2>1
<1>4. Cardinality(S) \in Q
  <2> HIDE DEF Q
  <2>1. QED
    BY <1>1, <1>2, <1>3, NatAll
<1>5. Total(f, S) <= Total(h, Image(S))
  BY <1>4
<1>6. Total(h, Image(S)) <= Total(h, T)
  <2>1. Image(S) \subseteq T
    OBVIOUS
  <2>2. \A y \in T : h[y] \in Nat /\ h[y] <= h[y]
    OBVIOUS
  <2> HIDE DEF Image
  <2>3. QED
    BY <2>1, <2>2, TotalMono
<1>7. {Total(f, S), Total(h, Image(S)), Total(h, T)} \subseteq Nat
  BY <1>1, TotalStep
<1>8. QED
  BY <1>5, <1>6, <1>7

\* A part of a whole, rounded down.
THEOREM ShareOf ==
    ASSUME NEW a \in Nat, NEW p \in Nat, NEW q \in Nat \ {0}
    PROVE  /\ (a * p) \div q \in Nat
           /\ q * ((a * p) \div q) <= a * p
           /\ p <= q => (a * p) \div q <= a
<1> DEFINE x == (a * p) \div q
<1>1. a * p \in Nat
  OBVIOUS
<1>2. x \in Nat /\ q * x <= a * p
  BY <1>1
<1>3. ASSUME p <= q PROVE x <= a
  <2>1. a * p <= a * q
    BY <1>3
  <2>2. q * x <= q * a
    BY <2>1, <1>2
  <2>3. QED
    BY <2>2, <1>2
<1>4. QED
  BY <1>2, <1>3

==============================================================================
