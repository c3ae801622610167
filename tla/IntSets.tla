------------------------------ MODULE IntSets -------------------------------
(* Facts about sets of integers that the proofs about frisbee and syncd      *)
(* share: the least and the greatest element of a set, which Min and Max     *)
(* choose, and the first run of consecutive members of a set.                *)
EXTENDS FiniteSetsExt, FiniteSetTheorems, WellFoundedInduction, TLAPS

(* A set of naturals that is not empty has a least element.                  *)
LEMMA LeastExists ==
  ASSUME NEW S \in SUBSET Nat, S # {}
  PROVE  \E m \in S : \A s \in S : m <= s
<1> DEFINE Less == OpToRel(<, Nat)
<1>1. IsWellFoundedOn(Less, Nat)
  BY NatLessThanWellFounded
<1>2. \A i, j \in Nat : <<i, j>> \in Less <=> i < j
  BY DEF OpToRel
<1> HIDE DEF Less
<1>3. PICK m \in S : \A s \in S : ~ (<<s, m>> \in Less)
  BY <1>1, WFMin
<1>4. ASSUME NEW s \in S PROVE m <= s
  <2>1. ~ (s < m)
    BY <1>2, <1>3
  <2> QED BY <2>1
<1> QED BY <1>4

(* A set of naturals with an upper bound that is not empty has a greatest    *)
(* element.                                                                  *)
LEMMA GreatestExists ==
  ASSUME NEW n \in Nat, NEW S \in SUBSET (0 .. n), S # {}
  PROVE  \E m \in S : \A s \in S : s <= m
<1> DEFINE R == {k \in Nat : n - k \in S}
<1>1. PICK s \in S : TRUE
  OBVIOUS
<1>2. n - s \in R
  BY <1>1
<1>3. PICK k \in R : \A r \in R : k <= r
  BY <1>2, LeastExists
<1>4. ASSUME NEW t \in S PROVE t <= n - k
  <2>1. n - t \in R
    OBVIOUS
  <2> HIDE DEF R
  <2>2. k <= n - t /\ k \in Nat
    BY <2>1, <1>3 DEF R
  <2> QED BY <2>2
<1>5. n - k \in S
  BY <1>3
<1> QED BY <1>4, <1>5

(* Min chooses the least element.                                            *)
LEMMA MinOfNats ==
  ASSUME NEW S \in SUBSET Nat, S # {}
  PROVE  Min(S) \in S /\ \A s \in S : Min(S) <= s
  BY LeastExists DEF Min

(* Max chooses the greatest element.                                         *)
LEMMA MaxOfNats ==
  ASSUME NEW n \in Nat, NEW S \in SUBSET (0 .. n), S # {}
  PROVE  Max(S) \in S /\ \A s \in S : s <= Max(S)
<1>1. \E m \in S : \A s \in S : m >= s
  BY GreatestExists
<1> QED BY <1>1 DEF Max

(* Min is the element that is below all others.                              *)
LEMMA MinIs ==
  ASSUME NEW S \in SUBSET Nat, NEW m \in S, \A s \in S : m <= s
  PROVE  Min(S) = m
<1> DEFINE n == Min(S)
<1>1. n \in S /\ \A s \in S : n <= s
  BY MinOfNats
<1> HIDE DEF n
<1>2. n <= m /\ m <= n /\ n \in Nat /\ m \in Nat
  BY <1>1
<1>3. n = m
  BY <1>2
<1> QED BY <1>3 DEF n

(* The members that follow the least one without a gap are an interval.      *)
LEMMA FirstRunIsInterval ==
  ASSUME NEW n \in Nat, NEW S \in SUBSET (0 .. n), S # {},
         NEW run, run = {b \in S : Min(S) .. b \subseteq S}
  PROVE  /\ run \subseteq S
         /\ Min(S) \in run /\ Min(run) = Min(S)
         /\ IsFiniteSet(run) /\ Cardinality(run) \in 1 .. n + 1
         /\ run = Min(S) .. (Min(S) + Cardinality(run) - 1)
<1> DEFINE m == Min(S)
<1>1. m \in S /\ \A s \in S : m <= s
  BY MinOfNats
<1>r. run = {b \in S : m .. b \subseteq S}
  OBVIOUS
<1> HIDE DEF m
<1>2. m \in run
  <2>1. m \in Int
    BY <1>1
  <2>2. m .. m \subseteq {m}
    BY <2>1
  <2> QED BY <1>1, <1>r, <2>2
<1>3. run \in SUBSET (0 .. n) /\ run # {} /\ run \subseteq S
  BY <1>2, <1>r
<1>4. PICK k \in run : \A s \in run : s <= k
  BY <1>3, GreatestExists
<1>5. m .. k \subseteq S /\ m \in Nat /\ k \in Nat /\ m <= k /\ k <= n
  BY <1>1, <1>3, <1>4, <1>r
<1>6. ASSUME NEW x \in m .. k PROVE x \in run
  <2>1. x \in S /\ m .. x \subseteq m .. k
    BY <1>5
  <2> QED BY <2>1, <1>5, <1>r
<1>7. ASSUME NEW x \in run PROVE x \in m .. k
  BY <1>1, <1>3, <1>4, <1>5
<1>8. run = m .. k
  BY <1>6, <1>7
<1>9. IsFiniteSet(run) /\ Cardinality(run) = k - m + 1
  <2>1. m \in Int /\ k \in Int /\ ~ (m > k)
    BY <1>5
  <2>2. IsFiniteSet(m .. k) /\ Cardinality(m .. k) = k - m + 1
    BY <2>1, FS_Interval
  <2> QED BY <1>8, <2>2
<1>10. m + Cardinality(run) - 1 = k /\ Cardinality(run) \in 1 .. n + 1
  BY <1>5, <1>9
<1>11. Min(run) = m
  <2>1. run \in SUBSET Nat /\ \A s \in run : m <= s
    BY <1>3, <1>5, <1>7
  <2> QED BY <1>2, <2>1, MinIs
<1> QED BY <1>2, <1>3, <1>8, <1>9, <1>10, <1>11 DEF m

(* Induction over the naturals, stated for the set of those that have a      *)
(* property.                                                                 *)
LEMMA SetInduction ==
  ASSUME NEW S \in SUBSET Nat, 0 \in S, \A n \in S : n + 1 \in S
  PROVE  S = Nat
<1> DEFINE T == Nat \ S
<1>1. CASE T = {}
  BY <1>1
<1>2. CASE T # {}
  <2>1. PICK m \in T : \A t \in T : m <= t
    BY <1>2, LeastExists
  <2>2. m \in Nat /\ m \notin S /\ m # 0
    BY <2>1
  <2>3. m - 1 \in Nat /\ ~ (m <= m - 1) /\ (m - 1) + 1 = m
    BY <2>2
  <2>4. m - 1 \in S
    BY <2>1, <2>3
  <2> QED BY <2>2, <2>3, <2>4
<1> QED BY <1>1, <1>2

(* Division with remainder.                                                  *)
LEMMA DivMod ==
  ASSUME NEW a \in Nat, NEW n \in Nat \ {0}
  PROVE  /\ a \div n \in Nat /\ a % n \in 0 .. n - 1
         /\ a = (a \div n) * n + (a % n)
  OBVIOUS

(* Quotient and remainder are the only ones.                                 *)
LEMMA DivUnique ==
  ASSUME NEW n \in Nat \ {0}, NEW p \in Int, NEW q \in Int,
         NEW r \in 0 .. n - 1, NEW s \in 0 .. n - 1, p * n + r = q * n + s
  PROVE  p = q /\ r = s
<1>1. CASE p < q
  <2>1. (q - p) * n >= n
    BY <1>1
  <2>2. (q - p) * n = r - s
    OBVIOUS
  <2> QED BY <2>1, <2>2
<1>2. CASE q < p
  <2>1. (p - q) * n >= n
    BY <1>2
  <2>2. (p - q) * n = s - r
    OBVIOUS
  <2> QED BY <2>1, <2>2
<1> QED BY <1>1, <1>2

---------------------------------------------------------------------------
(* A function by recursion over the naturals, of which each value is a step  *)
(* from the one before: its first values exist.                              *)
FirstValues(g, s, step, n) ==
  g = [i \in 0 .. n |-> IF i = 0 THEN s ELSE step[g[i - 1]]]

LEMMA FirstValuesExist ==
  ASSUME NEW s, NEW step, NEW n \in Nat
  PROVE  \E g : FirstValues(g, s, step, n)
<1> DEFINE S == {k \in Nat : \E g : FirstValues(g, s, step, k)}
<1>1. 0 \in S
  <2> DEFINE g == [i \in 0 .. 0 |-> s]
  <2>1. g = [i \in 0 .. 0 |-> IF i = 0 THEN s ELSE step[g[i - 1]]]
    OBVIOUS
  <2> QED BY <2>1 DEF FirstValues
<1>2. ASSUME NEW k \in S PROVE k + 1 \in S
  <2>1. PICK g : FirstValues(g, s, step, k)
    OBVIOUS
  <2> DEFINE h == [i \in 0 .. k + 1 |-> IF i = k + 1 THEN step[g[k]] ELSE g[i]]
  <2>2. ASSUME NEW i \in 0 .. k + 1
        PROVE  h[i] = IF i = 0 THEN s ELSE step[h[i - 1]]
    <3>1. k \in Nat /\ i \in Nat
      OBVIOUS
    <3>2. CASE i = k + 1
      <4>1. i # 0 /\ i - 1 = k /\ k \in 0 .. k + 1 /\ k # k + 1
        BY <3>1, <3>2
      <4>2. h[i] = step[g[k]] /\ h[k] = g[k]
        BY <3>2, <4>1
      <4> QED BY <4>1, <4>2
    <3>3. CASE i # k + 1
      <4>1. i \in 0 .. k /\ h[i] = g[i]
        BY <3>1, <3>3
      <4>2. g[i] = IF i = 0 THEN s ELSE step[g[i - 1]]
        BY <2>1, <4>1 DEF FirstValues
      <4>3. i # 0 => i - 1 \in 0 .. k + 1 /\ i - 1 # k + 1
        BY <3>1, <3>3
      <4>4. i # 0 => h[i - 1] = g[i - 1]
        BY <4>3
      <4> HIDE DEF h
      <4> QED BY <4>1, <4>2, <4>4
    <3> QED BY <3>2, <3>3
  <2>3. h = [i \in 0 .. k + 1 |-> h[i]]
    OBVIOUS
  <2> HIDE DEF h
  <2>4. h = [i \in 0 .. k + 1 |-> IF i = 0 THEN s ELSE step[h[i - 1]]]
    BY <2>2, <2>3
  <2> QED BY <2>4 DEF FirstValues
<1> HIDE DEF S
<1>3. S = Nat
  <2>1. S \in SUBSET Nat
    BY DEF S
  <2> QED BY <1>1, <1>2, <2>1, SetInduction
<1> QED BY <1>3 DEF S

(* Two such lists of values agree where both have one.                       *)
LEMMA FirstValuesAgree ==
  ASSUME NEW s, NEW step, NEW n \in Nat, NEW m \in Nat, NEW g, NEW h,
         FirstValues(g, s, step, n), FirstValues(h, s, step, m),
         NEW i \in Nat, i <= n, i <= m
  PROVE  g[i] = h[i]
<1> DEFINE S == {k \in Nat : k <= n /\ k <= m => g[k] = h[k]}
<1>1. 0 \in S
  <2>1. 0 \in 0 .. n /\ 0 \in 0 .. m
    OBVIOUS
  <2> QED BY <2>1 DEF FirstValues
<1>2. ASSUME NEW k \in S PROVE k + 1 \in S
  <2> SUFFICES ASSUME k + 1 <= n, k + 1 <= m PROVE g[k + 1] = h[k + 1]
    OBVIOUS
  <2>1. /\ k \in Nat /\ k <= n /\ k <= m /\ k + 1 \in 0 .. n /\ k + 1 \in 0 .. m
        /\ k + 1 # 0 /\ (k + 1) - 1 = k
    OBVIOUS
  <2>2. g[k] = h[k]
    BY <2>1
  <2>3. g[k + 1] = step[g[k]]
    BY <2>1 DEF FirstValues
  <2>4. h[k + 1] = step[h[k]]
    BY <2>1 DEF FirstValues
  <2> QED BY <2>2, <2>3, <2>4
<1> HIDE DEF S
<1>3. S = Nat
  <2>1. S \in SUBSET Nat
    BY DEF S
  <2> QED BY <1>1, <1>2, <2>1, SetInduction
<1>4. i \in S
  BY <1>3
<1> QED BY <1>4 DEF S

(* The recursion is well defined.                                            *)
Values(s, step) == CHOOSE h : h = [n \in Nat |-> IF n = 0 THEN s ELSE step[h[n - 1]]]

LEMMA Recursion ==
  ASSUME NEW s, NEW step, NEW g, g = Values(s, step)
  PROVE  g[0] = s /\ \A n \in Nat : g[n + 1] = step[g[n]]
<1> DEFINE V(n) == CHOOSE h : FirstValues(h, s, step, n)
           f == [n \in Nat |-> V(n)[n]]
<1>1. ASSUME NEW n \in Nat PROVE FirstValues(V(n), s, step, n)
  BY FirstValuesExist
<1>2. ASSUME NEW n \in Nat
      PROVE  f[n] = IF n = 0 THEN s ELSE step[f[n - 1]]
  <2>1. n \in 0 .. n /\ FirstValues(V(n), s, step, n)
    BY <1>1
  <2>2. V(n)[n] = IF n = 0 THEN s ELSE step[V(n)[n - 1]]
    <3> HIDE DEF V
    <3> QED BY <2>1 DEF FirstValues
  <2>3. ASSUME n # 0 PROVE V(n)[n - 1] = f[n - 1]
    <3>1. n - 1 \in Nat /\ n - 1 <= n /\ n - 1 <= n - 1
      BY <2>3
    <3>2. FirstValues(V(n - 1), s, step, n - 1)
      BY <3>1, <1>1
    <3> HIDE DEF V
    <3>3. V(n)[n - 1] = V(n - 1)[n - 1]
      BY <2>1, <3>1, <3>2, FirstValuesAgree
    <3> QED BY <3>1, <3>3
  <2>4. f[n] = V(n)[n]
    OBVIOUS
  <2> HIDE DEF f, V
  <2> QED BY <2>2, <2>3, <2>4
<1>3. f = [n \in Nat |-> f[n]]
  OBVIOUS
<1> HIDE DEF f
<1>4. f = [n \in Nat |-> IF n = 0 THEN s ELSE step[f[n - 1]]]
  BY <1>2, <1>3
<1>5. g = [n \in Nat |-> IF n = 0 THEN s ELSE step[g[n - 1]]]
  BY <1>4 DEF Values
<1>6. g[0] = s
  BY <1>5
<1>7. ASSUME NEW n \in Nat PROVE g[n + 1] = step[g[n]]
  <2>1. n + 1 \in Nat /\ n + 1 # 0 /\ (n + 1) - 1 = n
    OBVIOUS
  <2> QED BY ONLY <1>5, <2>1
<1> QED BY <1>6, <1>7

---------------------------------------------------------------------------
(* g has the sums of h over the subsets of S, in the order in which the      *)
(* library's folds take the members: MapThenSumSet is defined by this        *)
(* recursion.                                                                *)
AMember(T) == CHOOSE x \in T : TRUE

Sums(g, h, D) ==
  /\ g = [T \in D |-> g[T]]
  /\ \A T \in D : g[T] = IF T = {} THEN 0 ELSE h[AMember(T)] + g[T \ {AMember(T)}]

(* The subsets of S with at most n members.                                  *)
UpTo(S, n) == {T \in SUBSET S : Cardinality(T) <= n}

LEMMA WithoutAMember ==
  ASSUME NEW T, IsFiniteSet(T), T # {}
  PROVE  /\ AMember(T) \in T /\ IsFiniteSet(T \ {AMember(T)})
         /\ Cardinality(T) \in Nat \ {0}
         /\ Cardinality(T \ {AMember(T)}) = Cardinality(T) - 1
<1>1. AMember(T) \in T
  BY DEF AMember
<1>2. Cardinality(T) \in Nat /\ Cardinality(T) # 0
  BY FS_CardinalityType, FS_EmptySet
<1> QED BY <1>1, <1>2, FS_RemoveElement

LEMMA SumsUpToExist ==
  ASSUME NEW S, IsFiniteSet(S), NEW h \in [S -> Int], NEW n \in Nat
  PROVE  \E g \in [UpTo(S, n) -> Int] : Sums(g, h, UpTo(S, n))
<1> DEFINE K == {k \in Nat : \E g \in [UpTo(S, k) -> Int] : Sums(g, h, UpTo(S, k))}
<1>0. ASSUME NEW T \in SUBSET S
      PROVE  IsFiniteSet(T) /\ Cardinality(T) \in Nat /\ (Cardinality(T) = 0 <=> T = {})
  BY FS_Subset, FS_CardinalityType, FS_EmptySet
<1>1. 0 \in K
  <2> DEFINE g == [T \in UpTo(S, 0) |-> 0]
  <2>1. \A T \in UpTo(S, 0) : T = {}
    BY <1>0 DEF UpTo
  <2>2. g \in [UpTo(S, 0) -> Int] /\ Sums(g, h, UpTo(S, 0))
    BY <2>1 DEF Sums
  <2> QED BY <2>2
<1>2. ASSUME NEW k \in K PROVE k + 1 \in K
  <2>1. PICK g \in [UpTo(S, k) -> Int] : Sums(g, h, UpTo(S, k))
    OBVIOUS
  <2> DEFINE f == [T \in UpTo(S, k + 1) |->
                     IF T = {} THEN 0 ELSE h[AMember(T)] + g[T \ {AMember(T)}]]
  <2>2. ASSUME NEW T \in UpTo(S, k + 1), T # {}
        PROVE  T \ {AMember(T)} \in UpTo(S, k) /\ AMember(T) \in S
    <3>1. IsFiniteSet(T) /\ T \in SUBSET S /\ Cardinality(T) <= k + 1 /\ k \in Nat
      BY <1>0 DEF UpTo
    <3> DEFINE x == AMember(T)
    <3>2. x \in T /\ Cardinality(T) \in Nat /\ Cardinality(T \ {x}) = Cardinality(T) - 1
      BY <2>2, <3>1, WithoutAMember
    <3> HIDE DEF x
    <3>3. Cardinality(T \ {x}) <= k /\ T \ {x} \in SUBSET S /\ x \in S
      BY <3>1, <3>2
    <3> QED BY <3>3 DEF UpTo, x
  <2>3. f \in [UpTo(S, k + 1) -> Int]
    BY <2>2
  <2>4. ASSUME NEW T \in UpTo(S, k) PROVE T \in UpTo(S, k + 1) /\ f[T] = g[T]
    <3>1. T \in UpTo(S, k + 1)
      BY <1>0 DEF UpTo
    <3> QED BY <2>1, <3>1 DEF Sums
  <2>5. ASSUME NEW T \in UpTo(S, k + 1)
        PROVE  f[T] = IF T = {} THEN 0 ELSE h[AMember(T)] + f[T \ {AMember(T)}]
    <3>1. T # {} => f[T \ {AMember(T)}] = g[T \ {AMember(T)}]
      BY <2>2, <2>4
    <3>2. f[T] = IF T = {} THEN 0 ELSE h[AMember(T)] + g[T \ {AMember(T)}]
      OBVIOUS
    <3> HIDE DEF f
    <3> QED BY <3>1, <3>2
  <2>6. f = [T \in UpTo(S, k + 1) |-> f[T]]
    OBVIOUS
  <2> HIDE DEF f
  <2>7. Sums(f, h, UpTo(S, k + 1))
    BY <2>5, <2>6 DEF Sums
  <2> QED BY <2>3, <2>7
<1> HIDE DEF K
<1>3. K = Nat
  <2>1. K \in SUBSET Nat
    BY DEF K
  <2> QED BY <1>1, <1>2, <2>1, SetInduction
<1> QED BY <1>3 DEF K

(* The sums of h exist.                                                      *)
LEMMA SetSumsExist ==
  ASSUME NEW S, IsFiniteSet(S), NEW h \in [S -> Int]
  PROVE  \E g \in [SUBSET S -> Int] : Sums(g, h, SUBSET S)
<1>1. Cardinality(S) \in Nat /\ \A T \in SUBSET S : Cardinality(T) <= Cardinality(S)
  BY FS_CardinalityType, FS_Subset
<1>2. UpTo(S, Cardinality(S)) = SUBSET S
  BY <1>1 DEF UpTo
<1>3. \E g \in [UpTo(S, Cardinality(S)) -> Int] : Sums(g, h, UpTo(S, Cardinality(S)))
  BY <1>1, SumsUpToExist
<1> QED BY <1>2, <1>3

(* A sum does not depend on the order: any member may be taken out.          *)
SumsOver(S, h, g) == IsFiniteSet(S) /\ h \in [S -> Int] /\ Sums(g, h, SUBSET S)

LEMMA SumWithout ==
  ASSUME NEW S, NEW h, NEW g, SumsOver(S, h, g), NEW T \in SUBSET S
  PROVE  g[T] \in Int /\ \A x \in T : g[T] = h[x] + g[T \ {x}]
<1> USE DEF SumsOver
<1> DEFINE P(U) == g[U] \in Int /\ \A x \in U : g[U] = h[x] + g[U \ {x}]
           K == {k \in Nat : \A U \in SUBSET S : Cardinality(U) <= k => P(U)}
<1>0. ASSUME NEW U \in SUBSET S
      PROVE  IsFiniteSet(U) /\ Cardinality(U) \in Nat /\ (Cardinality(U) = 0 <=> U = {})
  BY FS_Subset, FS_CardinalityType, FS_EmptySet
<1>1. 0 \in K
  <2>1. ASSUME NEW U \in SUBSET S, Cardinality(U) <= 0 PROVE P(U)
    <3>1. U = {}
      BY <1>0, <2>1
    <3>2. g[{}] = 0
      BY DEF Sums
    <3> QED BY <3>1, <3>2
  <2> HIDE DEF P
  <2> QED BY <2>1
<1>2. ASSUME NEW k \in K PROVE k + 1 \in K
  <2> SUFFICES ASSUME NEW U \in SUBSET S, Cardinality(U) = k + 1 PROVE P(U)
    <3>1. \A U \in SUBSET S : Cardinality(U) \in Nat
      BY <1>0
    <3>2. \A m \in Nat : m <= k + 1 => m <= k \/ m = k + 1
      OBVIOUS
    <3> HIDE DEF P
    <3> QED BY <3>1, <3>2
  <2>1. IsFiniteSet(U) /\ U # {} /\ k \in Nat
    BY <1>0
  <2> DEFINE c == AMember(U)
  <2>2. c \in U /\ Cardinality(U \ {c}) = k /\ U \ {c} \in SUBSET S
    <3>1. c \in U /\ Cardinality(U \ {c}) = Cardinality(U) - 1
      BY <2>1, WithoutAMember
    <3> HIDE DEF c
    <3> QED BY <2>1, <3>1
  <2>3. g[U] = h[c] + g[U \ {c}]
    BY <2>1 DEF Sums
  <2> HIDE DEF c
  <2>k. k <= k /\ \A V \in SUBSET S : Cardinality(V) <= k => P(V)
    <3> HIDE DEF P
    <3>1. k <= k
      BY <2>1
    <3>2. \A V \in SUBSET S : Cardinality(V) <= k => P(V)
      OBVIOUS
    <3> QED BY <3>1, <3>2
  <2>4. P(U \ {c})
    <3> HIDE DEF P
    <3> QED BY <2>2, <2>k
  <2>5. h[c] \in Int /\ g[U] \in Int
    BY <2>2, <2>3, <2>4
  <2>6. ASSUME NEW x \in U PROVE g[U] = h[x] + g[U \ {x}]
    <3>1. CASE x = c
      BY <2>3, <3>1
    <3>2. CASE x # c
      <4>1. x \in U \ {c} /\ c \in U \ {x} /\ U \ {x} \in SUBSET S
            /\ (U \ {c}) \ {x} = (U \ {x}) \ {c}
        BY <2>2, <3>2
      <4>2. Cardinality(U \ {x}) = k
        <5>1. Cardinality(U \ {x}) = Cardinality(U) - 1
          BY <2>1, FS_RemoveElement
        <5> QED BY <2>1, <5>1
      <4>3. P(U \ {x})
        <5> HIDE DEF P
        <5> QED BY <4>1, <4>2, <2>k
      <4>4. g[U \ {c}] = h[x] + g[(U \ {c}) \ {x}]
        BY <2>4, <4>1
      <4>5. g[U \ {x}] = h[c] + g[(U \ {x}) \ {c}]
        BY <4>1, <4>3
      <4>6. g[(U \ {c}) \ {x}] \in Int /\ h[x] \in Int
        <5> DEFINE V == (U \ {c}) \ {x}
        <5>1. V \in SUBSET S /\ IsFiniteSet(U \ {c}) /\ k \in Nat
          BY <2>1, <1>0
        <5>2. Cardinality(V) = k - 1
          BY <5>1, <2>2, <4>1, FS_RemoveElement
        <5>3. Cardinality(V) <= k
          BY <5>1, <5>2
        <5> HIDE DEF V
        <5>4. g[V] \in Int
          BY <5>1, <5>3
        <5> QED BY <4>1, <5>4 DEF V
      <4>7. g[U] = h[c] + (h[x] + g[(U \ {c}) \ {x}])
        BY <2>3, <4>4
      <4>8. g[U \ {x}] = h[c] + g[(U \ {c}) \ {x}]
        BY <4>1, <4>5
      <4> QED BY <2>5, <4>6, <4>7, <4>8
    <3> QED BY <3>1, <3>2
  <2> QED BY <2>5, <2>6
<1> HIDE DEF K
<1>3. K = Nat
  <2>1. K \in SUBSET Nat
    BY DEF K
  <2> QED BY <1>1, <1>2, <2>1, SetInduction
<1> QED BY <1>0, <1>3 DEF K

(* The sum over an interval, where the partial sums are known.               *)
SumsTo(F, h, n) ==
  /\ F \in [0 .. n -> Int] /\ F[0] = 0
  /\ \A k \in 0 .. n - 1 : F[k + 1] = F[k] + h[k]

LEMMA SumInterval ==
  ASSUME NEW n \in Nat, NEW h, NEW g, SumsOver(0 .. n - 1, h, g), NEW F, SumsTo(F, h, n)
  PROVE  g[0 .. n - 1] = F[n]
<1> DEFINE S == 0 .. n - 1
<1>1. SumsOver(S, h, g)
  OBVIOUS
<1> HIDE DEF S
<1>w. ASSUME NEW T \in SUBSET S, NEW x \in T PROVE g[T] = h[x] + g[T \ {x}]
  <2>1. T \in SUBSET S
    OBVIOUS
  <2>2. \A y \in T : g[T] = h[y] + g[T \ {y}]
    BY ONLY <1>1, <2>1, SumWithout
  <2> QED BY <2>2, Zenon
<1> USE DEF S, SumsTo
<1> DEFINE K == {k \in Nat : k <= n => g[0 .. k - 1] = F[k]}
<1>2. 0 \in K
  <2>1. 0 .. 0 - 1 = {} /\ {} \in SUBSET S
    OBVIOUS
  <2>2. g[{}] = 0
    BY <2>1, <1>1 DEF SumsOver, Sums
  <2> QED BY <2>1, <2>2
<1>3. ASSUME NEW k \in K PROVE k + 1 \in K
  <2> SUFFICES ASSUME k + 1 <= n PROVE g[0 .. (k + 1) - 1] = F[k + 1]
    OBVIOUS
  <2> DEFINE A == 0 .. (k + 1) - 1
             B == 0 .. k - 1
  <2>1. k \in Nat /\ k <= n /\ k \in S
    OBVIOUS
  <2>2. g[B] = F[k]
    BY <2>1
  <2>3. A \in SUBSET S /\ k \in A
    BY <2>1
  <2>4. A \ {k} = B
    <3>1. ASSUME NEW x \in B PROVE x \in A \ {k}
      BY <2>1
    <3>2. ASSUME NEW x \in A \ {k} PROVE x \in B
      BY <2>1
    <3> HIDE DEF A, B
    <3> QED BY <3>1, <3>2
  <2>5. F[k] \in Int /\ F[k + 1] = F[k] + h[k]
    BY <2>1
  <2> HIDE DEF S, A, B
  <2>6. g[A] = h[k] + g[A \ {k}]
    <3>1. A \in SUBSET S /\ k \in A
      BY <2>3
    <3> QED BY ONLY <1>w, <3>1, Zenon
  <2>7. g[A] = F[k + 1]
    <3>1. g[A] = h[k] + F[k]
      BY ONLY <2>2, <2>4, <2>6, Zenon
    <3>2. \A a, b \in Int : a + b = b + a
      OBVIOUS
    <3>3. h[k] \in Int
      BY <1>1, <2>1 DEF SumsOver, S
    <3> QED BY ONLY <2>5, <3>1, <3>2, <3>3, Zenon
  <2> QED BY <2>7 DEF A
<1> HIDE DEF K
<1>4. K = Nat
  <2>1. K \in SUBSET Nat
    BY DEF K
  <2> QED BY <1>2, <1>3, <2>1, SetInduction
<1>5. n \in K /\ n <= n
  BY <1>4
<1> QED BY <1>5 DEF K

=============================================================================
