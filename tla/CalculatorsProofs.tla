------------------------- MODULE CalculatorsProofs --------------------------
(***************************************************************************)
(* What the calculators promise for any tables, forms, releases and        *)
(* visitors: a kept address shows what it was kept of, the ranking of a    *)
(* league is the best there is, the breakpoints and the attackers are all  *)
(* there are, and bills add up.                                            *)
(***************************************************************************)
EXTENDS Calculators, FiniteSetTheorems, SequenceTheorems, TLAPS

-----------------------------------------------------------------------------
(* Smallest and largest *)

\* A set of naturals that is not empty has a smallest member.
LEMMA MinIsThere ==
    ASSUME NEW S \in SUBSET Nat, S # {}
    PROVE  Min(S) \in S /\ \A s \in S : Min(S) <= s
<1> DEFINE less == {p \in Nat \X Nat : p[1] < p[2]}
<1>1. IsWellFoundedOn(less, Nat)
    BY NatLessThanWellFounded DEF OpToRel
<1>2. \A s, t \in Nat : s < t => <<s, t>> \in less
    OBVIOUS
<1> HIDE DEF less
<1>3. PICK k \in S : \A m \in S : ~(<<m, k>> \in less)
    BY <1>1, WFMin
<1>4. \A m \in S : k <= m
    <2> SUFFICES ASSUME NEW m \in S PROVE k <= m
        OBVIOUS
    <2>1. k \in Nat /\ m \in Nat /\ ~(m < k)
        BY <1>2, <1>3
    <2>2. QED
        BY <2>1
<1>5. QED
    BY <1>4 DEF Min

\* A bounded set of naturals that is not empty has a largest member.
LEMMA MaxIsThere ==
    ASSUME NEW S \in SUBSET Nat, NEW n \in Nat, \A s \in S : s <= n, S # {}
    PROVE  Max(S) \in S /\ \A s \in S : s <= Max(S)
<1> DEFINE over == {k \in Nat : \A s \in S : s <= k}
<1>1. PICK k \in over : \A m \in over : k <= m
    <2>1. over \in SUBSET Nat /\ n \in over
        OBVIOUS
    <2> HIDE DEF over
    <2>2. QED
        BY <2>1, MinIsThere
<1>2. k \in S
    <2> SUFFICES ASSUME k \notin S PROVE FALSE
        OBVIOUS
    <2>1. k \in Nat /\ \A s \in S : s \in Nat /\ s <= k /\ s # k
        BY <1>1
    <2>2. k # 0
        <3>1. PICK s \in S : TRUE
            OBVIOUS
        <3>2. QED
            BY <2>1, <3>1
    <2>3. ASSUME NEW s \in S PROVE s <= k - 1
        BY <2>1
    <2>4. k - 1 \in over /\ ~(k <= k - 1)
        BY <2>1, <2>2, <2>3
    <2>5. QED
        BY <1>1, <2>4
<1>3. k \in S /\ \A s \in S : k >= s
    BY <1>1, <1>2
<1>4. Max(S) \in S /\ \A s \in S : Max(S) >= s
    BY <1>3 DEF Max
<1>5. QED
    BY <1>4

-----------------------------------------------------------------------------
(* The formulas *)

LEMMA RootIsThere ==
    ASSUME NEW x \in Nat
    PROVE  /\ SquareRoot(x) \in Nat
           /\ SquareRoot(x) * SquareRoot(x) <= x
           /\ x < (SquareRoot(x) + 1) * (SquareRoot(x) + 1)
<1> DEFINE S == {r \in 0 .. x : r * r <= x}
<1>1. S \in SUBSET Nat /\ (\A s \in S : s <= x) /\ 0 \in S
    OBVIOUS
<1>2. PICK r \in S : \A s \in S : s <= r
    BY <1>1, MaxIsThere
<1>3. r \in 0 .. x /\ r * r <= x
    BY <1>2
<1>4. x < (r + 1) * (r + 1)
    <2>1. CASE r = x
        BY <1>3, <2>1
    <2>2. CASE r # x
        <3>1. r + 1 \in 0 .. x /\ ~(r + 1 <= r)
            BY <1>3, <2>2
        <3>2. r + 1 \notin S
            BY <1>2, <3>1
        <3>3. ~((r + 1) * (r + 1) <= x)
            BY <3>1, <3>2
        <3>4. QED
            BY <1>3, <3>3
    <2>3. QED
        BY <2>1, <2>2
<1>5. /\ SquareRoot(x) \in 0 .. x
      /\ SquareRoot(x) * SquareRoot(x) <= x /\ x < (SquareRoot(x) + 1) * (SquareRoot(x) + 1)
    BY <1>3, <1>4 DEF SquareRoot
<1>6. QED
    BY <1>5

LEMMA RootGrows ==
    ASSUME NEW x \in Nat, NEW y \in Nat, x <= y
    PROVE  SquareRoot(x) <= SquareRoot(y)
<1>1. PICK r \in Nat : r = SquareRoot(x) /\ r * r <= x
    BY RootIsThere
<1>2. PICK s \in Nat : s = SquareRoot(y) /\ y < (s + 1) * (s + 1)
    BY RootIsThere
<1>3. r * r < (s + 1) * (s + 1)
    BY <1>1, <1>2
<1>4. r <= s
    <2> SUFFICES ASSUME s + 1 <= r PROVE FALSE
        OBVIOUS
    <2>1. (s + 1) * (s + 1) <= r * (s + 1) /\ r * (s + 1) <= r * r
        OBVIOUS
    <2>2. QED
        BY <1>3, <2>1
<1>5. QED
    BY <1>1, <1>2, <1>4

\* A quotient does not fall as the dividend grows.
LEMMA QuotientGrows ==
    ASSUME NEW x \in Nat, NEW y \in Nat, x <= y, NEW d \in Nat \ {0}
    PROVE  x \div d \in Nat /\ y \div d \in Nat /\ x \div d <= y \div d
OBVIOUS

LEMMA ProductGrows ==
    ASSUME NEW a \in Nat, NEW b \in Nat, NEW c \in Nat, NEW d \in Nat, a <= c, b <= d
    PROVE  a * b \in Nat /\ c * d \in Nat /\ a * b <= c * d
<1>1. a * b <= c * b /\ c * b <= c * d
    OBVIOUS
<1>2. QED
    BY <1>1

\* What SPECIES_DB says of a species.
Stats == [atk : Nat \ {0}, def : Nat \ {0}, sta : Nat \ {0}]

\* A level higher is never a combat point, a hit point or a product lower.
LEMMA CpGrows ==
    ASSUME NEW b \in Stats, NEW iv \in IVs, NEW l \in Levels, NEW m \in Levels, l <= m
    PROVE  CP(b, iv, l) \in Nat /\ CP(b, iv, m) \in Nat /\ CP(b, iv, l) <= CP(b, iv, m)
<1> DEFINE square == (b.atk + iv.atk) * (b.atk + iv.atk) * (b.def + iv.def) * (b.sta + iv.sta)
           unit == 100 * CpmUnit * CpmUnit * CpmUnit * CpmUnit
           power(x) == square * x * x * x * x
<1>1. PICK c \in Nat, d \in Nat : c = Cpm[l] /\ d = Cpm[m] /\ c <= d
    BY RankingAssumption DEF Levels
<1>2. square \in Nat
    <2>1. /\ b.atk + iv.atk \in Nat /\ b.def + iv.def \in Nat /\ b.sta + iv.sta \in Nat
        BY RankingAssumption DEF Stats, IVs
    <2>2. QED
        BY <2>1
<1>3. unit \in Nat \ {0}
    <2>1. CpmUnit \in Nat \ {0}
        BY RankingAssumption
    <2>2. CpmUnit * CpmUnit \in Nat \ {0}
        BY <2>1
    <2>3. (CpmUnit * CpmUnit) * (CpmUnit * CpmUnit) \in Nat \ {0}
        BY <2>2
    <2>4. unit = 100 * ((CpmUnit * CpmUnit) * (CpmUnit * CpmUnit))
        BY <2>1
    <2>5. QED
        BY <2>3, <2>4
<1>4. CP(b, iv, l) = AtLeast10(SquareRoot(power(c) \div unit))
    BY <1>1 DEF CP
<1>5. CP(b, iv, m) = AtLeast10(SquareRoot(power(d) \div unit))
    BY <1>1 DEF CP
<1>6. PICK q \in Nat : q = square
    BY <1>2
<1>7. power(c) \in Nat /\ power(d) \in Nat /\ power(c) <= power(d)
    <2>1. q * c \in Nat /\ q * d \in Nat /\ q * c <= q * d
        BY <1>1, ProductGrows
    <2>2. q * c * c \in Nat /\ q * d * d \in Nat /\ q * c * c <= q * d * d
        BY <1>1, <2>1, ProductGrows
    <2>3. q * c * c * c \in Nat /\ q * d * d * d \in Nat /\ q * c * c * c <= q * d * d * d
        BY <1>1, <2>2, ProductGrows
    <2>4. /\ q * c * c * c * c \in Nat /\ q * d * d * d * d \in Nat
          /\ q * c * c * c * c <= q * d * d * d * d
        BY <1>1, <2>3, ProductGrows
    <2>5. QED
        BY <1>6, <2>4
<1> HIDE DEF power, unit
<1>8. /\ power(c) \div unit \in Nat /\ power(d) \div unit \in Nat
      /\ power(c) \div unit <= power(d) \div unit
    BY <1>3, <1>7, QuotientGrows
<1>9. PICK x \in Nat, y \in Nat :
          x = SquareRoot(power(c) \div unit) /\ y = SquareRoot(power(d) \div unit) /\ x <= y
    BY <1>8, RootIsThere, RootGrows
<1>10. AtLeast10(x) \in Nat /\ AtLeast10(y) \in Nat /\ AtLeast10(x) <= AtLeast10(y)
    BY <1>9 DEF AtLeast10
<1>11. QED
    BY <1>4, <1>5, <1>9, <1>10

LEMMA HpGrows ==
    ASSUME NEW b \in Stats, NEW iv \in IVs, NEW l \in Levels, NEW m \in Levels, l <= m
    PROVE  HP(b, iv, l) \in Nat /\ HP(b, iv, m) \in Nat /\ HP(b, iv, l) <= HP(b, iv, m)
<1>1. PICK c \in Nat, d \in Nat : c = Cpm[l] /\ d = Cpm[m] /\ c <= d
    BY RankingAssumption DEF Levels
<1>2. PICK s \in Nat : s = b.sta + iv.sta
    BY RankingAssumption DEF Stats, IVs
<1>3. s * c \in Nat /\ s * d \in Nat /\ s * c <= s * d
    BY <1>1, ProductGrows
<1>4. PICK x \in Nat, y \in Nat : x = (s * c) \div CpmUnit /\ y = (s * d) \div CpmUnit /\ x <= y
    BY <1>3, RankingAssumption, QuotientGrows
<1>5. AtLeast10(x) \in Nat /\ AtLeast10(y) \in Nat /\ AtLeast10(x) <= AtLeast10(y)
    BY <1>4 DEF AtLeast10
<1>6. QED
    BY <1>1, <1>2, <1>4, <1>5 DEF HP

LEMMA StatProductGrows ==
    ASSUME NEW b \in Stats, NEW iv \in IVs, NEW l \in Levels, NEW m \in Levels, l <= m
    PROVE  /\ StatProduct(b, iv, l) \in Nat /\ StatProduct(b, iv, m) \in Nat
           /\ StatProduct(b, iv, l) <= StatProduct(b, iv, m)
<1>1. PICK c \in Nat, d \in Nat : c = Cpm[l] /\ d = Cpm[m] /\ c <= d
    BY RankingAssumption DEF Levels
<1>2. PICK h \in Nat, k \in Nat : h = HP(b, iv, l) /\ k = HP(b, iv, m) /\ h <= k
    BY HpGrows
<1>3. PICK q \in Nat : q = (b.atk + iv.atk) * (b.def + iv.def)
    <2>1. b.atk + iv.atk \in Nat /\ b.def + iv.def \in Nat
        BY RankingAssumption DEF Stats, IVs
    <2>2. QED
        BY <2>1
<1>4. q * c \in Nat /\ q * d \in Nat /\ q * c <= q * d
    BY <1>1, ProductGrows
<1>5. q * c * c \in Nat /\ q * d * d \in Nat /\ q * c * c <= q * d * d
    BY <1>1, <1>4, ProductGrows
<1>6. q * c * c * h \in Nat /\ q * d * d * k \in Nat /\ q * c * c * h <= q * d * d * k
    BY <1>2, <1>5, ProductGrows
<1>7. PICK u \in Nat \ {0} : u = CpmUnit * CpmUnit
    <2>1. CpmUnit \in Nat \ {0}
        BY RankingAssumption
    <2>2. QED
        BY <2>1
<1>8. (q * c * c * h) \div u \in Nat /\ (q * d * d * k) \div u \in Nat
      /\ (q * c * c * h) \div u <= (q * d * d * k) \div u
    BY <1>6, QuotientGrows
<1>9. /\ StatProduct(b, iv, l) = (q * c * c * h) \div u
      /\ StatProduct(b, iv, m) = (q * d * d * k) \div u
    BY <1>1, <1>2, <1>3, <1>7 DEF StatProduct
<1>10. QED
    BY <1>8, <1>9

-----------------------------------------------------------------------------
(* The level of a spread *)

Reach(b, iv, maxCp, cap) == {l \in Levels : l <= cap /\ CP(b, iv, l) <= maxCp}

\* Trying upwards until one is over the cap finds every level under the cap.
LEMMA FittingIsReach ==
    ASSUME NEW b \in Stats, NEW iv \in IVs, NEW maxCp \in Int, NEW cap \in Nat
    PROVE  /\ Fitting(b, iv, maxCp, cap) = Reach(b, iv, maxCp, cap)
           /\ Reach(b, iv, maxCp, cap) \in SUBSET Levels
           /\ Reach(b, iv, maxCp, cap) \in SUBSET Nat
<1>1. ASSUME NEW l \in Levels, NEW m \in Levels, m <= l, CP(b, iv, l) <= maxCp
      PROVE  CP(b, iv, m) <= maxCp
    <2>1. PICK x \in Nat, y \in Nat : x = CP(b, iv, m) /\ y = CP(b, iv, l) /\ x <= y
        BY <1>1, CpGrows
    <2>2. QED
        BY <1>1, <2>1
<1>2. \A l \in Levels : l \in Nat /\ l <= l
    BY RankingAssumption DEF Levels
<1>3. QED
    BY <1>1, <1>2 DEF Fitting, Reach

\* A spread is at the highest level there is under the cap, where its product is best.
LEMMA SpreadIsBest ==
    ASSUME NEW b \in Stats, NEW iv \in IVs, NEW maxCp \in Int, NEW cap \in Nat,
           Reach(b, iv, maxCp, cap) # {}
    PROVE  /\ Spread(b, iv, maxCp, cap).iv = iv
           /\ Spread(b, iv, maxCp, cap).level = Max(Reach(b, iv, maxCp, cap))
           /\ Spread(b, iv, maxCp, cap).product \in Nat
           /\ \A l \in Reach(b, iv, maxCp, cap) :
                  StatProduct(b, iv, l) <= Spread(b, iv, maxCp, cap).product
<1> DEFINE S == Reach(b, iv, maxCp, cap)
<1>1. PICK top : top = Max(S)
    OBVIOUS
<1>2. S \in SUBSET Levels /\ S \in SUBSET Nat /\ S # {} /\ Fitting(b, iv, maxCp, cap) = S
    BY FittingIsReach
<1>3. \A l \in S : l <= cap
    BY DEF Reach
<1> HIDE DEF S
<1>4. top \in S /\ \A l \in S : l <= top
    BY <1>1, <1>2, <1>3, MaxIsThere
<1>5. /\ Spread(b, iv, maxCp, cap).iv = iv /\ Spread(b, iv, maxCp, cap).level = top
      /\ Spread(b, iv, maxCp, cap).product = StatProduct(b, iv, top)
    BY <1>1, <1>2 DEF Spread
<1>6. top \in Levels /\ StatProduct(b, iv, top) \in Nat
    BY <1>2, <1>4, StatProductGrows, RankingAssumption DEF Levels
<1>7. \A l \in S : StatProduct(b, iv, l) <= StatProduct(b, iv, top)
    BY <1>2, <1>4, <1>6, StatProductGrows
<1>8. QED
    BY <1>1, <1>5, <1>6, <1>7 DEF S

-----------------------------------------------------------------------------
(* Sorting *)

StrictOrder(R, S) ==
    /\ \A s \in S : <<s, s>> \notin R
    /\ \A s, t, u \in S : <<s, t>> \in R /\ <<t, u>> \in R => <<s, u>> \in R
    /\ \A s, t \in S : s = t \/ <<s, t>> \in R \/ <<t, s>> \in R

Place(R, S, s) == Cardinality({t \in S : <<t, s>> \in R})

\* In a strict total order the places of the n members are 0, 1, ..., n - 1, upwards.
LEMMA PlacesAreAll ==
    ASSUME NEW S, IsFiniteSet(S), NEW R, StrictOrder(R, S)
    PROVE  /\ Cardinality(S) \in Nat
           /\ \A s \in S : Place(R, S, s) \in 0 .. Cardinality(S) - 1
           /\ \A s, t \in S : <<s, t>> \in R => Place(R, S, s) < Place(R, S, t)
           /\ \A s, t \in S : Place(R, S, s) = Place(R, S, t) => s = t
           /\ \A k \in 0 .. Cardinality(S) - 1 : \E s \in S : Place(R, S, s) = k
<1> DEFINE below(s) == {t \in S : <<t, s>> \in R}
           n == Cardinality(S)
           place == [s \in S |-> Place(R, S, s)]
<1>1. n \in Nat
    BY FS_CardinalityType
<1>2. ASSUME NEW s \in S, NEW T \in SUBSET S, below(s) \cup {s} \subseteq T
      PROVE  /\ Cardinality(below(s)) \in Nat /\ Cardinality(T) \in Nat
             /\ Cardinality(below(s)) < Cardinality(T)
    <2>1. below(s) \in SUBSET S /\ s \notin below(s)
        BY DEF StrictOrder
    <2> HIDE DEF below
    <2>2. IsFiniteSet(below(s)) /\ IsFiniteSet(T)
        BY <2>1, FS_Subset
    <2>3. Cardinality(below(s) \cup {s}) = Cardinality(below(s)) + 1
        BY <2>1, <2>2, FS_AddElement
    <2>4. Cardinality(below(s) \cup {s}) <= Cardinality(T)
        BY <1>2, <2>2, FS_Subset
    <2>5. Cardinality(below(s)) \in Nat /\ Cardinality(T) \in Nat
        BY <2>2, FS_CardinalityType
    <2>6. QED
        BY <2>3, <2>4, <2>5
<1>3. ASSUME NEW s \in S PROVE Place(R, S, s) \in 0 .. n - 1
    <2>1. S \in SUBSET S /\ below(s) \cup {s} \subseteq S /\ Place(R, S, s) = Cardinality(below(s))
        BY DEF Place
    <2> HIDE DEF below, n
    <2>2. Cardinality(below(s)) \in Nat /\ Cardinality(below(s)) < n
        BY <1>2, <2>1 DEF n
    <2>3. QED
        BY <1>1, <2>1, <2>2
<1>4. ASSUME NEW s \in S, NEW t \in S, <<s, t>> \in R PROVE Place(R, S, s) < Place(R, S, t)
    <2>1. below(t) \in SUBSET S /\ below(s) \cup {s} \subseteq below(t)
        BY <1>4 DEF StrictOrder
    <2>2. Place(R, S, s) = Cardinality(below(s)) /\ Place(R, S, t) = Cardinality(below(t))
        BY DEF Place
    <2> HIDE DEF below
    <2>3. QED
        BY <1>2, <2>1, <2>2
<1>5. ASSUME NEW s \in S, NEW t \in S, Place(R, S, s) = Place(R, S, t) PROVE s = t
    <2>1. Place(R, S, s) \in Int /\ Place(R, S, t) \in Int
        BY <1>1, <1>3
    <2>2. ~(<<s, t>> \in R) /\ ~(<<t, s>> \in R)
        BY <1>4, <1>5, <2>1
    <2>3. QED
        BY <2>2 DEF StrictOrder
<1>6. place \in Injection(S, 0 .. n - 1)
    <2>1. place \in [S -> 0 .. n - 1]
        BY <1>3
    <2>2. \A s, t \in S : place[s] = place[t] => s = t
        BY <1>5
    <2> HIDE DEF place, n
    <2>3. QED
        BY <2>1, <2>2 DEF Injection, IsInjective
<1>7. IsFiniteSet(0 .. n - 1) /\ Cardinality(0 .. n - 1) = n
    <2> HIDE DEF n
    <2>1. 0 \in Int /\ n - 1 \in Int
        BY <1>1
    <2>2. QED
        BY <1>1, <2>1, FS_Interval
<1>8. place \in Surjection(S, 0 .. n - 1)
    <2> HIDE DEF place
    <2>1. QED
        BY <1>6, <1>7, FS_Injection DEF n
<1>9. ASSUME NEW k \in 0 .. n - 1 PROVE \E s \in S : Place(R, S, s) = k
    <2> HIDE DEF place, n
    <2>1. PICK s \in S : place[s] = k
        BY <1>8 DEF Surjection
    <2>2. place[s] = Place(R, S, s)
        BY DEF place
    <2>3. QED
        BY <2>1, <2>2
<1>10. QED
    BY <1>1, <1>3, <1>4, <1>5, <1>9

\* A list of the members by their places has each of them, in order.
LEMMA ListIsInOrder ==
    ASSUME NEW S, IsFiniteSet(S), NEW R, StrictOrder(R, S), NEW list,
           \A i \in 1 .. Cardinality(S) : (\E s \in S : Place(R, S, s) = i - 1) =>
                   list[i] \in S /\ Place(R, S, list[i]) = i - 1
    PROVE  /\ Cardinality(S) \in Nat
           /\ \A i \in 1 .. Cardinality(S) : list[i] \in S /\ Place(R, S, list[i]) = i - 1
           /\ \A i, j \in 1 .. Cardinality(S) : i < j <=> <<list[i], list[j]>> \in R
           /\ \A s \in S : \E i \in 1 .. Cardinality(S) : list[i] = s
<1>1. PICK n \in Nat : n = Cardinality(S)
    BY PlacesAreAll
<1>3. \A i \in 1 .. n : list[i] \in S /\ Place(R, S, list[i]) = i - 1
    <2> SUFFICES ASSUME NEW i \in 1 .. n PROVE list[i] \in S /\ Place(R, S, list[i]) = i - 1
        OBVIOUS
    <2>1. i - 1 \in 0 .. n - 1
        OBVIOUS
    <2>2. \E s \in S : Place(R, S, s) = i - 1
        BY <1>1, <2>1, PlacesAreAll
    <2>3. QED
        BY <1>1, <2>2
<1>5. ASSUME NEW i \in 1 .. n, NEW j \in 1 .. n PROVE i < j <=> <<list[i], list[j]>> \in R
    <2>1. list[i] \in S /\ list[j] \in S /\ Place(R, S, list[i]) = i - 1 /\ Place(R, S, list[j]) = j - 1
        BY <1>3
    <2>2. <<list[i], list[j]>> \in R => i < j
        BY <2>1, PlacesAreAll
    <2>3. <<list[j], list[i]>> \in R => j < i
        BY <2>1, PlacesAreAll
    <2>4. list[i] = list[j] => i = j
        BY <2>1
    <2>5. list[i] = list[j] \/ <<list[i], list[j]>> \in R \/ <<list[j], list[i]>> \in R
        BY <2>1 DEF StrictOrder
    <2>6. i \in Int /\ j \in Int
        OBVIOUS
    <2>7. QED
        BY <2>2, <2>3, <2>4, <2>5, <2>6
<1>6. ASSUME NEW s \in S PROVE \E i \in 1 .. n : list[i] = s
    <2>1. PICK k \in 0 .. n - 1 : k = Place(R, S, s)
        BY <1>1, PlacesAreAll
    <2>2. k + 1 \in 1 .. n /\ (k + 1) - 1 = k
        OBVIOUS
    <2>3. list[k + 1] \in S /\ Place(R, S, list[k + 1]) = k
        BY <1>3, <2>2
    <2>4. list[k + 1] = s
        BY <2>1, <2>3, PlacesAreAll
    <2>5. QED
        BY <2>2, <2>4
<1>7. QED
    BY <1>1, <1>3, <1>5, <1>6

LEMMA IVsAreFinite == IsFiniteSet(IVs)
<1> DEFINE One == 0 .. MaxIV
           f == [iv \in IVs |-> <<iv.atk, <<iv.def, iv.sta>>>>]
<1>1. IsFiniteSet(One)
    BY FS_Interval, RankingAssumption
<1>2. IsFiniteSet(One \X (One \X One))
    <2> HIDE DEF One
    <2>1. IsFiniteSet(One \X One)
        BY <1>1, FS_Product
    <2>2. QED
        BY <1>1, <2>1, FS_Product
<1>3. f \in [IVs -> One \X (One \X One)]
    BY DEF IVs
<1>4. ASSUME NEW u \in IVs, NEW v \in IVs, f[u] = f[v] PROVE u = v
    <2>1. u.atk = v.atk /\ u.def = v.def /\ u.sta = v.sta
        BY <1>4
    <2>2. QED
        BY <2>1 DEF IVs
<1> HIDE DEF f, One
<1>5. f \in Injection(IVs, One \X (One \X One))
    BY <1>3, <1>4 DEF Injection, IsInjective
<1>6. QED
    BY <1>2, <1>5, FS_Injection

Able(b, maxCp, cap) == {iv \in IVs : Reach(b, iv, maxCp, cap) # {}}
Spreads(b, maxCp, cap) == {Spread(b, iv, maxCp, cap) : iv \in Able(b, maxCp, cap)}
Precedence(S) == {p \in S \X S : Before(p[1], p[2])}

LEMMA SpreadsAreOrdered ==
    ASSUME NEW b \in Stats, NEW maxCp \in Int, NEW cap \in Nat
    PROVE  /\ IsFiniteSet(Spreads(b, maxCp, cap))
           /\ Cardinality(Spreads(b, maxCp, cap)) = Cardinality(Able(b, maxCp, cap))
           /\ \A s \in Spreads(b, maxCp, cap) : /\ s.iv \in Able(b, maxCp, cap)
                                                /\ s = Spread(b, s.iv, maxCp, cap)
                                                /\ s.product \in Nat
           /\ StrictOrder(Precedence(Spreads(b, maxCp, cap)), Spreads(b, maxCp, cap))
<1> DEFINE A == Able(b, maxCp, cap)
           S == Spreads(b, maxCp, cap)
           sp(iv) == Spread(b, iv, maxCp, cap)
           f == [iv \in A |-> sp(iv)]
<1>1. A \in SUBSET IVs /\ IsFiniteSet(A)
    BY IVsAreFinite, FS_Subset DEF Able
<1>2. \A iv \in A : sp(iv).iv = iv /\ sp(iv).product \in Nat /\ sp(iv) \in S
    BY SpreadIsBest DEF Able, Spreads
<1>3. \A s \in S : \E iv \in A : s = sp(iv)
    BY DEF Spreads
<1> HIDE DEF A, S, sp
<1>4. f \in Surjection(A, S)
    BY <1>2, <1>3 DEF Surjection
<1>5. f \in Injection(A, S)
    BY <1>2 DEF Injection, IsInjective
<1>6. IsFiniteSet(S) /\ Cardinality(S) = Cardinality(A)
    <2> HIDE DEF f
    <2>1. QED
        BY <1>1, <1>4, <1>5, FS_Surjection
<1>7. \A s \in S : s.iv \in A /\ s = sp(s.iv) /\ s.product \in Nat
    BY <1>2, <1>3
<1>8. \A s \in S : s.iv.atk \in Int /\ s.iv.def \in Int /\ s.iv.sta \in Int /\ s.product \in Int
    BY <1>1, <1>7, RankingAssumption DEF IVs
<1>9. \A s, t \in S : <<s, t>> \in Precedence(S) <=> Before(s, t)
    BY DEF Precedence
<1>10. \A s \in S : ~Before(s, s)
    BY <1>8 DEF Before
<1>11. \A s, t, u \in S : Before(s, t) /\ Before(t, u) => Before(s, u)
    BY <1>8 DEF Before
<1>12. ASSUME NEW s \in S, NEW t \in S PROVE s = t \/ Before(s, t) \/ Before(t, s)
    <2> SUFFICES ASSUME ~Before(s, t), ~Before(t, s) PROVE s = t
        OBVIOUS
    <2>1. s.iv.atk = t.iv.atk /\ s.iv.def = t.iv.def /\ s.iv.sta = t.iv.sta
        BY <1>8 DEF Before
    <2>2. s.iv \in IVs /\ t.iv \in IVs
        BY <1>1, <1>7
    <2>3. s.iv = t.iv
        BY <2>1, <2>2 DEF IVs
    <2>4. QED
        BY <1>7, <2>3
<1>13. StrictOrder(Precedence(S), S)
    BY <1>9, <1>10, <1>11, <1>12 DEF StrictOrder
<1>14. QED
    BY <1>6, <1>7, <1>13 DEF A, S, sp

\* The whole ranking: each combination that has a level, the best first.
LEMMA RankingIsInOrder ==
    ASSUME NEW b \in Stats, NEW maxCp \in Int, NEW cap \in Nat, NEW n, NEW list,
           n = Cardinality(Able(b, maxCp, cap)), list = RankForLeague(b, maxCp, cap)
    PROVE  /\ n \in Nat /\ list \in [1 .. n -> Spreads(b, maxCp, cap)]
           /\ \A i, j \in 1 .. n : i < j <=> Before(list[i], list[j])
           /\ \A s \in Spreads(b, maxCp, cap) : \E i \in 1 .. n : list[i] = s
<1> DEFINE S == Spreads(b, maxCp, cap)
           R == Precedence(S)
<1>1. IsFiniteSet(S) /\ Cardinality(S) = n /\ StrictOrder(R, S)
    BY SpreadsAreOrdered
<1>2. {Spread(b, iv, maxCp, cap) : iv \in {v \in IVs : Fitting(b, v, maxCp, cap) # {}}} = S
    <2>1. {v \in IVs : Fitting(b, v, maxCp, cap) # {}} = Able(b, maxCp, cap)
        BY FittingIsReach DEF Able
    <2>2. QED
        BY <2>1 DEF Spreads
<1> HIDE DEF S
<1>3. list = InOrder(S, Before)
    BY <1>2 DEF RankForLeague
<1>4. list = [i \in 1 .. n |-> CHOOSE s \in S : Cardinality({t \in S : Before(t, s)}) = i - 1]
    BY <1>1, <1>3 DEF InOrder
<1>5. \A s \in S : Place(R, S, s) = Cardinality({t \in S : Before(t, s)})
    <2> SUFFICES ASSUME NEW s \in S PROVE Place(R, S, s) = Cardinality({t \in S : Before(t, s)})
        OBVIOUS
    <2>1. {t \in S : <<t, s>> \in R} = {t \in S : Before(t, s)}
        BY DEF Precedence
    <2>2. QED
        BY <2>1 DEF Place
<1>6. ASSUME NEW i \in 1 .. n, \E s \in S : Place(R, S, s) = i - 1
      PROVE  list[i] \in S /\ Place(R, S, list[i]) = i - 1
    <2>1. list[i] = CHOOSE s \in S : Cardinality({t \in S : Before(t, s)}) = i - 1
        BY <1>4
    <2>2. \E s \in S : Cardinality({t \in S : Before(t, s)}) = i - 1
        BY <1>5, <1>6
    <2>3. list[i] \in S /\ Cardinality({t \in S : Before(t, list[i])}) = i - 1
        BY <2>1, <2>2
    <2>4. QED
        BY <1>5, <2>3
<1>8. \A s, t \in S : <<s, t>> \in R <=> Before(s, t)
    BY DEF Precedence
<1> HIDE DEF R
<1>9. /\ n \in Nat /\ list \in [1 .. n -> S]
      /\ \A i, j \in 1 .. n : i < j <=> <<list[i], list[j]>> \in R
      /\ \A s \in S : \E i \in 1 .. n : list[i] = s
    <2>1. \A i \in 1 .. Cardinality(S) : (\E s \in S : Place(R, S, s) = i - 1) =>
                                    list[i] \in S /\ Place(R, S, list[i]) = i - 1
        BY <1>1, <1>6
    <2>2. IsFiniteSet(S) /\ StrictOrder(R, S)
        BY <1>1
    <2>3. /\ Cardinality(S) \in Nat /\ \A i \in 1 .. Cardinality(S) : list[i] \in S
          /\ \A i, j \in 1 .. Cardinality(S) : i < j <=> <<list[i], list[j]>> \in R
          /\ \A s \in S : \E i \in 1 .. Cardinality(S) : list[i] = s
        BY <2>1, <2>2, ListIsInOrder
    <2>4. list \in [1 .. n -> S]
        BY <1>1, <1>4, <2>3
    <2>5. QED
        BY <1>1, <2>3, <2>4
<1>10. QED
    BY <1>8, <1>9 DEF S

ShowsBest(top, m, b, maxCp, cap) ==
    /\ m \in Nat /\ Len(top) = m /\ DOMAIN top = 1 .. m
    /\ \A i \in 1 .. m : /\ top[i].iv \in Able(b, maxCp, cap)
                         /\ top[i] = Spread(b, top[i].iv, maxCp, cap)
    /\ \A i, j \in 1 .. m : i < j => Before(top[i], top[j])
    /\ \A iv \in Able(b, maxCp, cap) :
           \/ \E i \in 1 .. m : top[i].iv = iv
           \/ \A i \in 1 .. m : Before(top[i], Spread(b, iv, maxCp, cap))

\* What is shown of it: the best, as many as asked for.
LEMMA TopIsBest ==
    ASSUME NEW b \in Stats, NEW maxCp \in Int, NEW cap \in Nat, NEW k \in Nat,
           NEW n, NEW m, NEW top,
           n = Cardinality(Able(b, maxCp, cap)), m = Min({k, n}),
           top = TopSpreads(b, maxCp, k, cap)
    PROVE  ShowsBest(top, m, b, maxCp, cap)
<1> DEFINE A == Able(b, maxCp, cap)
           S == Spreads(b, maxCp, cap)
<1>1. PICK list : list = RankForLeague(b, maxCp, cap)
    OBVIOUS
<1>2. /\ n \in Nat /\ list \in [1 .. n -> S]
      /\ \A i, j \in 1 .. n : i < j <=> Before(list[i], list[j])
      /\ \A s \in S : \E i \in 1 .. n : list[i] = s
    BY <1>1, RankingIsInOrder
<1>3. /\ \A s \in S : s.iv \in A /\ s = Spread(b, s.iv, maxCp, cap)
      /\ \A iv \in A : Spread(b, iv, maxCp, cap) \in S /\ Spread(b, iv, maxCp, cap).iv = iv
    BY SpreadsAreOrdered, SpreadIsBest DEF Able, Spreads
<1> HIDE DEF A, S
<1>4. list \in Seq(S) /\ Len(list) = n
    BY <1>2
<1>5. m \in Nat /\ m <= n /\ m <= k
    <2>1. {k, n} \in SUBSET Nat /\ {k, n} # {} /\ k \in {k, n} /\ n \in {k, n}
        BY <1>2
    <2>2. Min({k, n}) \in {k, n} /\ \A s \in {k, n} : Min({k, n}) <= s
        BY <2>1, MinIsThere
    <2>3. QED
        BY <1>2, <2>1, <2>2
<1>6. top = SubSeq(list, 1, m)
    BY <1>1, <1>4 DEF TopSpreads
<1>7. Len(top) = m /\ DOMAIN top = 1 .. m /\ \A i \in 1 .. m : top[i] = list[i]
    <2>1. m \in Nat /\ m <= Len(list)
        BY <1>4, <1>5
    <2>2. SubSeq(list, 1, m) \in Seq(S)
        BY <1>4, <2>1
    <2>3. Len(SubSeq(list, 1, m)) = m
        BY <1>4, <2>1
    <2>4. \A i \in 1 .. m : SubSeq(list, 1, m)[i] = list[i]
        BY <1>4, <2>1
    <2>5. QED
        BY <1>6, <2>2, <2>3, <2>4, LenProperties
<1>8. \A i \in 1 .. m : i \in 1 .. n /\ list[i] \in S
    BY <1>2, <1>5
<1>9. ASSUME NEW iv \in A, ~(\E i \in 1 .. m : top[i].iv = iv), NEW i \in 1 .. m
      PROVE  Before(top[i], Spread(b, iv, maxCp, cap))
    <2>1. PICK j \in 1 .. n : list[j] = Spread(b, iv, maxCp, cap)
        BY <1>2, <1>3
    <2>2. list[j].iv = iv
        BY <1>3, <2>1
    <2>3. j \notin 1 .. m
        BY <1>7, <1>9, <2>2
    <2>4. i < j
        BY <1>2, <1>5, <2>3
    <2>5. QED
        BY <1>2, <1>7, <1>8, <2>1, <2>4
<1>10. \A i \in 1 .. m : top[i].iv \in A /\ top[i] = Spread(b, top[i].iv, maxCp, cap)
    BY <1>3, <1>7, <1>8
<1>11. \A i, j \in 1 .. m : i < j => Before(top[i], top[j])
    BY <1>2, <1>7, <1>8
<1>12. QED
    BY <1>5, <1>7, <1>9, <1>10, <1>11 DEF A, ShowsBest

-----------------------------------------------------------------------------
(* The inductive invariant, part by part *)

\* The spreads a form asks for, which depend on nothing but the form.
SpreadsOf(f) == TopSpreads(Species(f.species, "medicham"), League(f), TopN, 200)

\* What a calculator has to show for a form in a release whose algorithm is `rank`.
Answer(c, f, rank) ==
    IF f = NoForm THEN NoResult
    ELSE IF c = "pvp"
         THEN [kind |-> "pvp", species |-> f.species, league |-> League(f),
               spreads |-> SpreadsOf(f), by |-> rank]
    ELSE Computed(c, f)

\* An entry holds what its key says.
CacheSound ==
    \A e \in cache :
        /\ e.by = e.key.algo
        /\ e.spreads = TopSpreads(e.key.base, e.key.maxCp, e.key.n, e.key.cap)

PageSound ==
    /\ page.of \in Calculator \cup DOMAIN DpsForms \cup {"cp"}
    /\ page.of \notin DOMAIN DpsForms => page.result = Answer(page.of, page.form, release.rank)
    /\ page.of \in DOMAIN DpsForms =>
           page.via = "visit" /\ page.result = Browsed(page.of, page.form)

\* The result that is kept with an address is history: it is what the address had to show.
\* An address is as long as its parameters make it.
LinkSound ==
    link # NoLink =>
        /\ link.shown = Answer(link.address.t, link.address.params, link.rank)
        /\ link.address.length = AddressLength[link.address.params]

\* Every form was sent to the calculator it is of.
FormsSent ==
    /\ page.of \notin DOMAIN DpsForms /\ page.form # NoForm =>
           page.of \in Calculator /\ page.form \in Forms[page.of]
    /\ link # NoLink =>
           link.address.t \in Calculator /\ link.address.params \in Forms[link.address.t]

\* Who came by an address has its parameters, or none.
ViaLink == page.via = "link" => page.form = GetParams(page.of, link.address)

Releases == release \in [rank : Nat, share : Nat \ {0}]

CalculatorsInv == Releases /\ CacheSound /\ PageSound /\ LinkSound /\ FormsSent /\ ViaLink

-----------------------------------------------------------------------------
\* However old an entry is, its key is that of the release that asks: what the cache gives is
\* what would be computed.
LEMMA EntryIsSound ==
    ASSUME CacheSound, NEW f
    PROVE  /\ PvpEntry(f).by = release.rank /\ PvpEntry(f).spreads = SpreadsOf(f)
           /\ PvpEntry(f).by = PvpEntry(f).key.algo
           /\ PvpEntry(f).spreads =
                  TopSpreads(PvpEntry(f).key.base, PvpEntry(f).key.maxCp, PvpEntry(f).key.n,
                             PvpEntry(f).key.cap)
<1>1. PICK key : key = CacheKey(Species(f.species, "medicham"), League(f), TopN, 200)
    OBVIOUS
<1>2. /\ key.base = Species(f.species, "medicham") /\ key.maxCp = League(f)
      /\ key.n = TopN /\ key.cap = 200 /\ key.algo = release.rank
    BY <1>1 DEF CacheKey
<1>3. CASE Entries(key) # {}
    <2>1. PvpEntry(f) \in Entries(key)
        BY <1>1, <1>3 DEF PvpEntry, TopSpreadsCached
    <2>2. PICK e \in cache : e = PvpEntry(f) /\ e.key = key
        BY <2>1 DEF Entries
    <2>3. QED
        BY <1>2, <2>2 DEF CacheSound, SpreadsOf
<1>4. CASE Entries(key) = {}
    <2>1. PvpEntry(f) = [key |-> key, spreads |-> SpreadsOf(f), by |-> release.rank]
        BY <1>1, <1>4 DEF PvpEntry, TopSpreadsCached, SpreadsOf
    <2>2. PICK e : e = PvpEntry(f) /\ e.key = key /\ e.spreads = SpreadsOf(f) /\ e.by = release.rank
        BY <2>1
    <2>3. QED
        BY <1>2, <2>2 DEF SpreadsOf
<1>5. QED
    BY <1>3, <1>4

LEMMA ResultIsAnswer ==
    ASSUME CacheSound, NEW c, NEW f PROVE Result(c, f) = Answer(c, f, release.rank)
BY EntryIsSound DEF Result, Answer, PvpResult

\* A page is shown, and the ranking it needed is in the cache from then on.
LEMMA ShowKeeps ==
    ASSUME CalculatorsInv, NEW c \in Calculator, NEW f \in Forms[c] \cup {NoForm}, NEW via,
           Show(c, f, via),
           UNCHANGED <<link, release>>, via = "link" => f = GetParams(c, link.address)
    PROVE  CalculatorsInv'
<1>1. /\ page'.of = c /\ page'.form = f /\ page'.via = via
      /\ page'.result = Answer(c, f, release.rank)
    BY ResultIsAnswer DEF Show, CalculatorsInv
<1>2. c \notin DOMAIN DpsForms
    BY CalculatorsAssumption DEF Calculator
<1>3. PageSound'
    <2>1. Answer(page'.of, page'.form, release'.rank) = Answer(c, f, release.rank)
        BY <1>1
    <2>2. QED
        BY <1>1, <1>2, <2>1 DEF PageSound, Answer
<1>4. CacheSound'
    <2>1. cache' \subseteq cache \cup {PvpEntry(f)}
        BY DEF Show
    <2>2. PICK e : e = PvpEntry(f)
        OBVIOUS
    <2>3. e.by = e.key.algo /\ e.spreads = TopSpreads(e.key.base, e.key.maxCp, e.key.n, e.key.cap)
        BY <2>2, EntryIsSound DEF CalculatorsInv
    <2>4. QED
        BY <2>1, <2>2, <2>3 DEF CalculatorsInv, CacheSound
<1>5. LinkSound'
    BY DEF CalculatorsInv, LinkSound, Answer
<1>6. ViaLink'
    BY <1>1 DEF ViaLink, GetParams, ShortEnough
<1>7. FormsSent'
    BY <1>1, <1>2 DEF CalculatorsInv, FormsSent
<1>8. QED
    BY <1>3, <1>4, <1>5, <1>6, <1>7 DEF CalculatorsInv, Releases

LEMMA KeepKeeps == ASSUME CalculatorsInv, Keep PROVE CalculatorsInv'
<1>1. /\ page.of \in Calculator /\ UNCHANGED <<page, cache, release>>
      /\ page.of \notin DOMAIN DpsForms
    BY CalculatorsAssumption DEF Keep, Calculator
<1>2. /\ link'.address.v = release.share
      /\ link'.address.t = page.of /\ link'.address.params = page.form
      /\ link'.address.length = AddressLength[page.form]
      /\ link'.shown = page.result /\ link'.rank = release.rank
    BY DEF Keep, EncodeCalcShare
<1>3. page.result = Answer(page.of, page.form, release.rank)
    BY <1>1 DEF CalculatorsInv, PageSound
<1>4. CacheSound' /\ PageSound'
    BY <1>1 DEF CalculatorsInv, CacheSound, PageSound, Answer
<1>5. LinkSound'
    BY <1>2, <1>3 DEF LinkSound, Answer
<1>6. ViaLink'
    <2> SUFFICES ASSUME page.via = "link"
                 PROVE  page.form = GetParams(page.of, link.address)'
        BY <1>1 DEF ViaLink
    <2>1. page.form = GetParams(page.of, link.address) /\ page.form # NoForm
        BY CalculatorsAssumption DEF CalculatorsInv, ViaLink, Keep
    <2>2. page.form = link.address.params /\ ShortEnough(link.address)
        BY <2>1 DEF GetParams
    <2>3. link # NoLink
        BY <2>1 DEF CalculatorsInv, Releases, NoLink, GetParams
    <2>4. link.address.length = AddressLength[page.form]
        BY <2>2, <2>3 DEF CalculatorsInv, LinkSound
    <2>5. ShortEnough(link.address)'
        BY <1>2, <2>2, <2>4 DEF ShortEnough
    <2>6. QED
        BY <1>1, <1>2, <2>5 DEF GetParams
<1>7. FormsSent'
    <2>1. page.form \in Shared /\ page.form # NoForm
        BY CalculatorsAssumption DEF Keep
    <2>2. page.form \in Forms[page.of]
        BY <1>1, <2>1 DEF CalculatorsInv, FormsSent
    <2>3. QED
        BY <1>1, <1>2, <2>1, <2>2 DEF CalculatorsInv, FormsSent
<1>8. QED
    BY <1>1, <1>4, <1>5, <1>6, <1>7 DEF CalculatorsInv, Releases

LEMMA BrowseKeeps ==
    ASSUME CalculatorsInv, NEW p \in DOMAIN DpsForms, Browse(p) PROVE CalculatorsInv'
<1>1. PICK f \in DpsForms[p] :
          /\ page' = [of |-> p, form |-> f, result |-> Browsed(p, f), via |-> "visit"]
          /\ UNCHANGED <<link, cache, release>>
    BY DEF Browse
<1>2. /\ page'.of = p /\ page'.form = f /\ page'.result = Browsed(p, f) /\ page'.via = "visit"
    BY <1>1
<1>3. PageSound' /\ ViaLink'
    BY <1>2 DEF PageSound, ViaLink
<1>4. CacheSound' /\ LinkSound'
    BY <1>1 DEF CalculatorsInv, CacheSound, LinkSound, Answer
<1>5. FormsSent'
    BY <1>1, <1>2 DEF CalculatorsInv, FormsSent
<1>6. QED
    BY <1>1, <1>3, <1>4, <1>5 DEF CalculatorsInv, Releases

LEMMA DeployKeeps == ASSUME CalculatorsInv, Deploy PROVE CalculatorsInv'
<1>1. /\ page'.of = "cp" /\ page'.form = NoForm /\ page'.result = NoResult /\ page'.via = "visit"
      /\ UNCHANGED <<link, cache>>
    BY DEF Deploy
<1>2. "cp" \notin DOMAIN DpsForms
    BY CalculatorsAssumption
<1>3. PageSound' /\ ViaLink'
    BY <1>1, <1>2 DEF PageSound, ViaLink, Answer
<1>4. CacheSound' /\ LinkSound'
    BY <1>1 DEF CalculatorsInv, CacheSound, LinkSound, Answer
<1>5. Releases'
    <2>1. \/ release' = [release EXCEPT !.rank = @ + 1]
          \/ release' = [release EXCEPT !.share = @ + 1]
        BY DEF Deploy
    <2>2. QED
        BY <2>1 DEF CalculatorsInv, Releases
<1>6. FormsSent'
    BY <1>1 DEF CalculatorsInv, FormsSent
<1>7. QED
    BY <1>3, <1>4, <1>5, <1>6 DEF CalculatorsInv

LEMMA InitHolds == Init => CalculatorsInv
<1> SUFFICES ASSUME Init PROVE CalculatorsInv
    OBVIOUS
<1>1. /\ page.of = "cp" /\ page.form = NoForm /\ page.result = NoResult /\ page.via = "visit"
      /\ link = NoLink /\ cache = {} /\ Releases
    BY DEF Init, Releases
<1>2. "cp" \notin DOMAIN DpsForms
    BY CalculatorsAssumption
<1>3. QED
    BY <1>1, <1>2 DEF CalculatorsInv, CacheSound, PageSound, LinkSound, FormsSent, ViaLink, Answer

LEMMA StepKeeps == CalculatorsInv /\ [Next]_vars => CalculatorsInv'
<1> SUFFICES ASSUME CalculatorsInv, [Next]_vars PROVE CalculatorsInv'
    OBVIOUS
<1>1. ASSUME NEW c \in Calculator, Visit(c) PROVE CalculatorsInv'
    BY <1>1, ShowKeeps DEF Visit
<1>2. ASSUME NEW c \in Calculator, Submit(c) PROVE CalculatorsInv'
    BY <1>2, ShowKeeps DEF Submit
<1>3. ASSUME NEW c \in Calculator, Open(c) PROVE CalculatorsInv'
    <2>1. GetParams(c, link.address) \in Forms[c] \cup {NoForm}
        BY <1>3 DEF CalculatorsInv, FormsSent, Open, GetParams
    <2>2. QED
        BY <1>3, <2>1, ShowKeeps DEF Open
<1>4. CASE Expire \/ UNCHANGED vars
    <2>1. cache' \subseteq cache /\ UNCHANGED <<page, link, release>>
        BY <1>4 DEF Expire, vars
    <2>2. QED
        BY <2>1
        DEF CalculatorsInv, Releases, CacheSound, PageSound, LinkSound, FormsSent, ViaLink, Answer,
            GetParams, ShortEnough
<1>5. QED
    BY <1>1, <1>2, <1>3, <1>4, KeepKeeps, BrowseKeeps, DeployKeeps DEF Next

LEMMA InvHolds == Spec => []CalculatorsInv
BY InitHolds, StepKeeps, PTL DEF Spec

\* LinkShowsWhatWasShared, for any calculators, forms and releases, and any entries left in
\* the cache.
THEOREM LinksShow == Spec => []LinkShowsWhatWasShared
<1>1. ASSUME CalculatorsInv PROVE LinkShowsWhatWasShared
    <2> SUFFICES ASSUME page.via = "link" PROVE LinkShowsWhatWasShared
        BY DEF LinkShowsWhatWasShared
    <2>1. /\ page.result = Answer(page.of, page.form, release.rank)
          /\ page.form = GetParams(page.of, link.address)
        BY <1>1 DEF CalculatorsInv, PageSound, ViaLink
    <2>2. CASE /\ ShortEnough(link.address)
               /\ link.address.v = release.share /\ link.address.t = page.of
        <3>1. page.form = link.address.params
            BY <2>1, <2>2 DEF GetParams
        <3>2. link # NoLink
            BY <1>1, <2>2 DEF CalculatorsInv, Releases, NoLink
        <3>3. link.shown = Answer(page.of, page.form, link.rank)
            BY <1>1, <2>2, <3>1, <3>2 DEF CalculatorsInv, LinkSound
        <3>4. page.of # "pvp" => Answer(page.of, page.form, link.rank) = page.result
            BY <2>1 DEF Answer
        <3>5. QED
            BY <2>1, <2>2, <3>1, <3>3, <3>4 DEF LinkShowsWhatWasShared
    <2>3. CASE ~(/\ ShortEnough(link.address)
                 /\ link.address.v = release.share /\ link.address.t = page.of)
        <3>1. page.result = NoResult
            BY <2>1, <2>3 DEF GetParams, Answer
        <3>2. QED
            BY <2>3, <3>1 DEF LinkShowsWhatWasShared
    <2>4. QED
        BY <2>2, <2>3
<1>2. QED
    BY <1>1, InvHolds, PTL

-----------------------------------------------------------------------------
(* What kind of result it is *)

LEMMA KindOfComputed ==
    ASSUME NEW c \in Calculator, c # "pvp", NEW f
    PROVE  Computed(c, f).kind \in {c, "error"}
<1>1. c \in {"cp", "cost", "catch", "types", "shiny", "shadow", "breakpoints"}
    BY CalculatorsAssumption DEF Calculator
<1>2. CpResult(f).kind \in {"cp", "error"} /\ CostResult(f).kind \in {"cost", "error"}
    BY DEF CpResult, CostResult, Failed
<1>3. CatchResult(f).kind \in {"catch", "error"} /\ TypeResult(f).kind \in {"types", "error"}
    BY DEF CatchResult, TypeResult, Failed
<1>4. ShinyResult(f).kind \in {"shiny", "error"} /\ ShadowResult(f).kind \in {"shadow", "error"}
    BY DEF ShinyResult, ShadowResult, Failed
<1>5. BreakpointsResult(f).kind \in {"breakpoints", "error"}
    BY DEF BreakpointsResult, Failed
<1>6. QED
    BY <1>1, <1>2, <1>3, <1>4, <1>5 DEF Computed

LEMMA KindOfBrowsed ==
    ASSUME NEW p \in DOMAIN DpsForms, NEW f
    PROVE  Browsed(p, f).kind \in {"ranking", "overview", "not found", "moves", "comparison"}
<1>1. p \in {"browser", "by type", "moves", "compare"}
    BY CalculatorsAssumption
<1>2. \A g : RankingOf(f, g).kind = "ranking"
    BY DEF RankingOf
<1>3. /\ DpsBrowser(f).kind \in {"ranking", "overview"}
      /\ DpsByType(f).kind \in {"ranking", "not found"}
    BY <1>2 DEF DpsBrowser, DpsByType
<1>4. MoveBrowser(f).kind = "moves" /\ Compare(f).kind = "comparison"
    BY DEF MoveBrowser, Compare
<1>5. QED
    BY <1>1, <1>3, <1>4 DEF Browsed

\* A result of a kind that is a calculator's is that calculator's, for a form that was sent.
LEMMA ResultIsOf ==
    ASSUME CalculatorsInv,
           page.result.kind \notin {"none", "error", "ranking", "overview", "not found", "moves",
                                    "comparison"}
    PROVE  /\ page.of \in Calculator /\ page.of = page.result.kind
           /\ page.form \in Forms[page.of] /\ page.form # NoForm
           /\ page.result = Answer(page.of, page.form, release.rank)
<1>1. page.of \notin DOMAIN DpsForms
    BY KindOfBrowsed DEF CalculatorsInv, PageSound
<1>2. page.result = Answer(page.of, page.form, release.rank)
    BY <1>1 DEF CalculatorsInv, PageSound
<1>3. page.form # NoForm
    <2> SUFFICES ASSUME page.form = NoForm PROVE FALSE
        OBVIOUS
    <2>1. page.result = NoResult
        BY <1>2 DEF Answer
    <2>2. page.result.kind = "none"
        BY <2>1 DEF NoResult
    <2>3. QED
        BY <2>2
<1>4. page.of \in Calculator /\ page.form \in Forms[page.of]
    BY <1>1, <1>3 DEF CalculatorsInv, PageSound, FormsSent
<1>5. page.of = page.result.kind
    <2>1. CASE page.of = "pvp"
        <3>1. page.result = [kind |-> "pvp", species |-> page.form.species,
                             league |-> League(page.form), spreads |-> SpreadsOf(page.form),
                             by |-> release.rank]
            BY <1>2, <1>3, <2>1 DEF Answer
        <3>2. QED
            BY <2>1, <3>1
    <2>2. CASE page.of # "pvp"
        <3>1. page.result = Computed(page.of, page.form)
            BY <1>2, <1>3, <2>2 DEF Answer
        <3>2. page.result.kind \in {page.of, "error"}
            BY <1>4, <2>2, <3>1, KindOfComputed
        <3>3. QED
            BY <3>2
    <2>3. QED
        BY <2>1, <2>2
<1>6. QED
    BY <1>2, <1>3, <1>4, <1>5

-----------------------------------------------------------------------------
(* The ranking *)

LEMMA SpeciesHasStats == ASSUME NEW s PROVE Species(s, "medicham") \in Stats
BY RankingAssumption, CalculatorsAssumption DEF Species, Stats

\* No two of those shown are of the same combination.
LEMMA ShownAreDistinct ==
    ASSUME NEW m \in Nat, NEW top, DOMAIN top = 1 .. m,
           \A i, j \in 1 .. m : top[i].iv = top[j].iv => i = j
    PROVE  Cardinality({top[i].iv : i \in DOMAIN top}) = m
<1> DEFINE T == {top[i].iv : i \in 1 .. m}
           f == [i \in 1 .. m |-> top[i].iv]
<1>1. IsFiniteSet(1 .. m) /\ Cardinality(1 .. m) = m
    <2>1. 1 \in Int /\ m \in Int
        OBVIOUS
    <2>2. IsFiniteSet(1 .. m) /\ Cardinality(1 .. m) = IF 1 > m THEN 0 ELSE m - 1 + 1
        BY <2>1, FS_Interval
    <2>3. QED
        BY <2>2
<1>2. f \in Surjection(1 .. m, T) /\ f \in Injection(1 .. m, T)
    BY DEF Surjection, Injection, IsInjective
<1> HIDE DEF f, T
<1>3. Cardinality(T) = m
    BY <1>1, <1>2, FS_Surjection
<1>4. QED
    BY <1>3 DEF T

\* The ranking of a league is the best there is, for any base stats, IVs, levels, caps and
\* numbers of spreads shown, though it may come from the cache.  (rank_for_league tries the
\* levels upwards and stops at the first over the cap: as CP does not fall with the level,
\* that misses none; top_spreads_cached)
THEOREM RankingHolds == Spec => []RankingIsBest
<1>1. ASSUME CalculatorsInv PROVE RankingIsBest
    <2> SUFFICES ASSUME page.result.kind = "pvp" PROVE RankingIsBest
        BY DEF RankingIsBest
    <2>1. page.of = "pvp" /\ page.form \in Forms["pvp"] /\ "pvp" \in DOMAIN Forms
          /\ page.form # NoForm /\ page.result = Answer(page.of, page.form, release.rank)
        BY <1>1, ResultIsOf DEF Calculator
    <2>2. PICK f \in Forms["pvp"] : f = page.form
        BY <2>1
    <2>3. PICK b \in Stats : b = Species(f.species, "medicham")
        BY SpeciesHasStats
    <2>4. PICK maxCp \in Int : maxCp = League(f)
        BY <2>1, CalculatorsAssumption DEF League, OrDefault
    <2>5. PICK top : top = TopSpreads(b, maxCp, TopN, 200)
        OBVIOUS
    <2>6. page.result = [kind |-> "pvp", species |-> f.species, league |-> maxCp,
                         spreads |-> top, by |-> release.rank]
        BY <2>1, <2>2, <2>3, <2>4, <2>5 DEF Answer, SpreadsOf
    <2>7. /\ page.result.species = f.species /\ page.result.league = maxCp
          /\ page.result.spreads = top /\ page.result.by = release.rank
        BY <2>6
    <2> DEFINE able == Able(b, maxCp, 200)
               reach(iv) == Reach(b, iv, maxCp, 200)
               shown == {top[i].iv : i \in DOMAIN top}
    <2>8. PICK n, m, cap : n = Cardinality(able) /\ m = Min({TopN, n}) /\ cap = 200
        OBVIOUS
    <2>9. TopN \in Nat /\ cap \in Nat /\ n = Cardinality(Able(b, maxCp, cap))
          /\ top = TopSpreads(b, maxCp, TopN, cap)
        BY <2>5, <2>8, CalculatorsAssumption
    <2>10. ShowsBest(top, m, b, maxCp, cap)
        BY <2>8, <2>9, TopIsBest
    <2>11. /\ m \in Nat /\ Len(top) = m /\ DOMAIN top = 1 .. m
          /\ \A i, j \in 1 .. m : i < j => Before(top[i], top[j])
        BY <2>10 DEF ShowsBest
    <2>12. /\ \A i \in 1 .. m : top[i].iv \in able /\ top[i] = Spread(b, top[i].iv, maxCp, 200)
           /\ \A iv \in able : \/ \E i \in 1 .. m : top[i].iv = iv
                               \/ \A i \in 1 .. m : Before(top[i], Spread(b, iv, maxCp, 200))
        BY <2>8, <2>10 DEF ShowsBest
    <2>13. ASSUME NEW iv \in able
           PROVE  /\ iv \in IVs /\ iv.atk \in Int /\ Spread(b, iv, maxCp, 200).iv = iv
                  /\ Spread(b, iv, maxCp, 200).level = Max(reach(iv))
                  /\ Spread(b, iv, maxCp, 200).product \in Nat
                  /\ \A l \in reach(iv) : StatProduct(b, iv, l)
                                              <= Spread(b, iv, maxCp, 200).product
        <3>1. iv \in IVs /\ reach(iv) # {} /\ 200 \in Nat
            BY DEF Able
        <3>2. iv.atk \in Int
            BY <3>1, RankingAssumption DEF IVs
        <3>3. QED
            BY <3>1, <3>2, SpreadIsBest
    <2>14. \A iv \in IVs : reach(iv) = {l \in Levels : l <= 200 /\ CP(b, iv, l) <= maxCp}
        BY DEF Reach
    <2>15. able = {iv \in IVs : {l \in Levels : l <= 200 /\ CP(b, iv, l) <= maxCp} # {}}
        BY <2>14 DEF Able
    <2> HIDE DEF able, reach
    <2>16. ASSUME NEW i \in 1 .. m
           PROVE  /\ top[i].iv \in able /\ top[i].level = Max(reach(top[i].iv))
                  /\ top[i].product \in Nat /\ top[i].iv.atk \in Int
                  /\ \A l \in reach(top[i].iv) :
                         StatProduct(b, top[i].iv, l) <= top[i].product
        <3>1. PICK iv \in able : iv = top[i].iv /\ top[i] = Spread(b, iv, maxCp, 200)
            BY <2>12
        <3>2. QED
            BY <2>13, <3>1
    <2>17. ASSUME NEW i \in 1 .. m, NEW j \in 1 .. m, i < j
           PROVE  /\ top[i].iv # top[j].iv
                  /\ \/ top[i].product > top[j].product
                     \/ top[i].product = top[j].product /\ top[i].iv.atk <= top[j].iv.atk
        <3>1. Before(top[i], top[j])
            BY <2>11, <2>17
        <3>2. ASSUME top[i].iv = top[j].iv PROVE FALSE
            <4>1. top[i] = top[j]
                BY <2>12, <3>2
            <4>2. Before(top[i], top[i])
                BY <3>1, <4>1
            <4>3. PICK iv \in IVs, x \in Nat : iv = top[i].iv /\ x = top[i].product
                BY <2>13, <2>16
            <4>4. iv.atk \in Int /\ iv.def \in Int /\ iv.sta \in Int
                BY RankingAssumption DEF IVs
            <4>5. QED
                BY <4>2, <4>3, <4>4 DEF Before
        <3>3. QED
            BY <2>16, <3>1, <3>2 DEF Before
    <2>18. Cardinality(shown) = m
        <3>1. \A i, j \in 1 .. m : top[i].iv = top[j].iv => i = j
            <4> SUFFICES ASSUME NEW i \in 1 .. m, NEW j \in 1 .. m, top[i].iv = top[j].iv
                         PROVE  i = j
                OBVIOUS
            <4>1. ~(i < j) /\ ~(j < i) /\ i \in Int /\ j \in Int
                BY <2>17
            <4>2. QED
                BY <4>1
        <3>2. QED
            BY <2>11, <3>1, ShownAreDistinct
    <2>19. shown \subseteq able
        BY <2>11, <2>16
    <2>20. ASSUME NEW i \in 1 .. m, NEW iv \in able \ shown, NEW l \in reach(iv)
           PROVE  StatProduct(b, iv, l) <= top[i].product
        <3>1. ~(\E k \in 1 .. m : top[k].iv = iv)
            BY <2>11
        <3>2. Before(top[i], Spread(b, iv, maxCp, 200))
            BY <2>12, <3>1
        <3>3. PICK x \in Nat, y \in Nat :
                  x = top[i].product /\ y = Spread(b, iv, maxCp, 200).product
            BY <2>13, <2>16
        <3>4. y <= x
            BY <3>2, <3>3 DEF Before
        <3>5. l \in Levels /\ iv \in IVs
            BY <2>13, <2>14
        <3>6. PICK z \in Nat : z = StatProduct(b, iv, l)
            BY <3>5, StatProductGrows, RankingAssumption DEF Levels
        <3>7. z <= y
            BY <2>13, <3>3, <3>6
        <3>8. QED
            BY <3>3, <3>4, <3>6, <3>7
    <2>21. ASSUME NEW i \in 1 .. m, NEW j \in 1 .. i - 1
           PROVE  \/ top[j].product > top[i].product
                  \/ top[j].product = top[i].product /\ top[j].iv.atk <= top[i].iv.atk
        <3>1. j \in 1 .. m /\ j < i
            BY <2>11
        <3>2. QED
            BY <2>17, <3>1
    <2>22. /\ Len(top) = Min({TopN, Cardinality(able)})
           /\ Cardinality(shown) = Len(top) /\ shown \subseteq able
        BY <2>8, <2>11, <2>18, <2>19
    <2>23. ASSUME NEW i \in DOMAIN top
           PROVE  LET s == top[i] IN
                  /\ s.level = Max({l \in Levels : l <= 200 /\ CP(b, s.iv, l) <= maxCp})
                  /\ \A iv \in able \ shown :
                         \A l \in {k \in Levels : k <= 200 /\ CP(b, iv, k) <= maxCp} :
                             StatProduct(b, iv, l) <= s.product
                  /\ \A l \in {k \in Levels : k <= 200 /\ CP(b, s.iv, k) <= maxCp} :
                         StatProduct(b, s.iv, l) <= s.product
                  /\ \A j \in 1 .. i - 1 : \/ top[j].product > s.product
                                           \/ /\ top[j].product = s.product
                                              /\ top[j].iv.atk <= s.iv.atk
        <3>1. i \in 1 .. m
            BY <2>11
        <3>2. reach(top[i].iv) = {l \in Levels : l <= 200 /\ CP(b, top[i].iv, l) <= maxCp}
            BY <2>13, <2>14, <2>16, <3>1
        <3>3. \A iv \in able : reach(iv) = {k \in Levels : k <= 200 /\ CP(b, iv, k) <= maxCp}
            BY <2>13, <2>14
        <3> HIDE DEF shown
        <3>4. \A iv \in able \ shown :
                  \A l \in {k \in Levels : k <= 200 /\ CP(b, iv, k) <= maxCp} :
                      StatProduct(b, iv, l) <= top[i].product
            BY <2>20, <3>1, <3>3
        <3>5. top[i].level = Max({l \in Levels : l <= 200 /\ CP(b, top[i].iv, l) <= maxCp})
            BY <2>16, <3>1, <3>2
        <3>6. \A l \in {k \in Levels : k <= 200 /\ CP(b, top[i].iv, k) <= maxCp} :
                  StatProduct(b, top[i].iv, l) <= top[i].product
            BY <2>16, <3>1, <3>2
        <3>7. QED
            BY <2>21, <3>1, <3>4, <3>5, <3>6
    <2>24. QED
        <3>1. BestOnly(top, b, maxCp)
            BY <2>15, <2>22, <2>23 DEF BestOnly
        <3>2. QED
            BY <2>3, <2>4, <2>7, <3>1 DEF RankingIsBest
<1>2. QED
    BY <1>1, InvHolds, PTL

-----------------------------------------------------------------------------
(* Breakpoints *)

\* A level that is a rise does more than every level below it, of which there is one.
IsRise(d, l) == (\E m \in DOMAIN d : m < l) /\ \A m \in DOMAIN d : m < l => d[m] < d[l]

Growing(d) == \A l, m \in DOMAIN d : l <= m => d[l] <= d[m]

Above(d) == {d[l] : l \in DOMAIN d} \ {d[Min(DOMAIN d)]}

\* The lowest level at which a damage is done.
FirstWith(d, x) == Min({l \in DOMAIN d : d[l] >= x})

LEMMA RisesAreRises ==
    ASSUME NEW range \in SUBSET Nat, NEW d \in [range -> Nat], Growing(d)
    PROVE  Rises(d) = {l \in range : IsRise(d, l)}
<1>1. ASSUME NEW l \in range, NEW m \in range, m < l
      PROVE  /\ Max({k \in range : k < l}) \in range /\ Max({k \in range : k < l}) < l
             /\ \A k \in range : k < l => k <= Max({j \in range : j < l})
    <2> DEFINE S == {k \in range : k < l}
    <2>1. S \in SUBSET Nat /\ l \in Nat /\ (\A s \in S : s <= l) /\ S # {}
        <3>1. \A k \in range : k \in Nat
            OBVIOUS
        <3>2. m \in S /\ \A k \in S : k \in Nat /\ k < l
            BY <1>1, <3>1
        <3> HIDE DEF S
        <3>3. QED
            BY <3>1, <3>2
    <2> HIDE DEF S
    <2>2. Max(S) \in S /\ \A s \in S : s <= Max(S)
        BY <2>1, MaxIsThere
    <2>3. QED
        BY <2>2 DEF S
<1>2. ASSUME NEW l \in range
      PROVE  l \in Rises(d) <=> IsRise(d, l)
    <2>1. CASE \A m \in range : ~(m < l)
        <3>1. {k \in range : k < l} = {}
            BY <2>1
        <3>2. QED
            BY <2>1, <3>1 DEF Rises, IsRise
    <2>2. CASE \E m \in range : m < l
        <3>1. PICK p \in range : /\ p = Max({k \in range : k < l}) /\ p < l
                                 /\ \A k \in range : k < l => k <= p
            BY <1>1, <2>2
        <3>2. {k \in range : k < l} # {}
            BY <2>2
        <3>3. l \in Rises(d) <=> d[p] < d[l]
            BY <3>1, <3>2 DEF Rises
        <3>4. \A k \in range : k < l => d[k] <= d[p]
            BY <3>1 DEF Growing
        <3>5. d[p] \in Nat /\ d[l] \in Nat /\ \A k \in range : d[k] \in Nat
            OBVIOUS
        <3>6. d[p] < d[l] <=> \A k \in range : k < l => d[k] < d[l]
            BY <3>1, <3>4, <3>5
        <3>7. QED
            BY <2>2, <3>3, <3>6 DEF IsRise
    <2>3. QED
        BY <2>1, <2>2
<1>3. Rises(d) \subseteq range
    BY DEF Rises
<1>4. QED
    BY <1>2, <1>3

\* The damages above the first are the rises' damages, each of one rise, which is the lowest
\* level that does as much.
LEMMA RisesAreTheDamages ==
    ASSUME NEW range \in SUBSET Nat, NEW d \in [range -> Nat], Growing(d)
    PROVE  /\ \A l \in Rises(d) : /\ l \in range /\ d[l] \in Above(d)
                                  /\ l = FirstWith(d, d[l])
           /\ \A l, m \in Rises(d) : l < m <=> d[l] < d[m]
           /\ \A x \in Above(d) : \E l \in Rises(d) : d[l] = x
<1>1. Rises(d) = {l \in range : IsRise(d, l)}
    BY RisesAreRises
<1>2. DOMAIN d = range /\ \A l \in range : l \in Nat /\ d[l] \in Nat
    OBVIOUS
<1>3. range # {} => Min(range) \in range /\ \A l \in range : Min(range) <= l
    BY MinIsThere
<1>4. ASSUME NEW l \in Rises(d)
      PROVE  l \in range /\ d[l] \in Above(d) /\ l = FirstWith(d, d[l])
    <2>1. l \in range /\ IsRise(d, l)
        BY <1>1
    <2>2. PICK b \in range : b = Min(range) /\ \A k \in range : b <= k
        BY <1>3, <2>1
    <2>3. b < l
        <3>1. PICK k \in range : k < l
            BY <1>2, <2>1 DEF IsRise
        <3>2. b <= k
            BY <2>2
        <3>3. QED
            BY <1>2, <2>1, <3>1, <3>2
    <2>4. d[b] < d[l]
        BY <1>2, <2>1, <2>3 DEF IsRise
    <2>5. d[l] \in Above(d)
        BY <1>2, <2>1, <2>2, <2>4 DEF Above
    <2> DEFINE S == {m \in range : d[m] >= d[l]}
    <2>6. l \in Nat /\ d[l] \in Nat /\ d[l] >= d[l]
        BY <1>2, <2>1
    <2>7. l \in S /\ \A m \in S : m \in range /\ m \in Nat /\ d[m] >= d[l]
        BY <1>2, <2>1, <2>6
    <2>8. \A m \in S : l <= m
        <3> SUFFICES ASSUME NEW m \in S, m < l PROVE FALSE
            BY <2>6, <2>7
        <3>1. m \in range /\ d[m] >= d[l] /\ d[m] \in Nat
            BY <1>2, <2>7
        <3>2. d[m] < d[l]
            BY <1>2, <2>1, <3>1 DEF IsRise
        <3>3. QED
            BY <2>6, <3>1, <3>2
    <2> HIDE DEF S
    <2>9. S \in SUBSET Nat
        BY <2>7
    <2>10. PICK low \in S : low = Min(S) /\ \A s \in S : low <= s
        BY <2>7, <2>9, MinIsThere
    <2>11. l = Min(S)
        <3>1. low <= l /\ l <= low /\ low \in Nat
            BY <2>7, <2>8, <2>10
        <3>2. QED
            BY <2>6, <2>10, <3>1
    <2>12. QED
        BY <1>2, <2>1, <2>5, <2>11 DEF S, FirstWith
<1>5. ASSUME NEW l \in Rises(d), NEW m \in Rises(d), l < m PROVE d[l] < d[m]
    BY <1>1, <1>2, <1>5 DEF IsRise
<1>6. ASSUME NEW l \in Rises(d), NEW m \in Rises(d) PROVE l < m <=> d[l] < d[m]
    <2>1. l \in Nat /\ m \in Nat /\ d[l] \in Nat /\ d[m] \in Nat
        BY <1>1, <1>2
    <2>2. CASE l < m
        BY <1>5, <2>2
    <2>3. CASE m < l
        BY <1>5, <2>1, <2>3
    <2>4. CASE l = m
        BY <2>1, <2>4
    <2>5. QED
        BY <2>1, <2>2, <2>3, <2>4
<1>7. ASSUME NEW x \in Above(d) PROVE \E l \in Rises(d) : d[l] = x
    <2>1. PICK a \in range : x = d[a] /\ x # d[Min(range)]
        BY <1>2 DEF Above
    <2> DEFINE S == {m \in range : d[m] >= x}
    <2>2. a \in S /\ S \in SUBSET Nat
        <3>1. a \in Nat /\ d[a] \in Nat /\ d[a] >= x
            BY <1>2, <2>1
        <3>2. a \in S /\ \A m \in S : m \in Nat
            BY <1>2, <3>1
        <3> HIDE DEF S
        <3>3. QED
            BY <3>2
    <2>3. \A m \in S : m \in range /\ d[m] >= x
        OBVIOUS
    <2>4. \A m \in range : m \notin S => d[m] < x
        BY <1>2, <2>1
    <2> HIDE DEF S
    <2>5. PICK l \in S : \A s \in S : l <= s
        BY <2>2, MinIsThere
    <2>6. l \in range /\ d[l] = x
        <3>1. l \in range /\ l <= a /\ d[l] >= x
            BY <2>2, <2>3, <2>5
        <3>2. d[l] <= d[a]
            BY <1>2, <3>1 DEF Growing
        <3>3. QED
            BY <1>2, <2>1, <3>1, <3>2
    <2>7. \A m \in range : m < l => d[m] < d[l]
        <3> SUFFICES ASSUME NEW m \in range, m < l PROVE d[m] < d[l]
            OBVIOUS
        <3>1. m \notin S
            BY <1>2, <2>5, <2>6
        <3>2. QED
            BY <2>4, <2>6, <3>1
    <2>8. \E m \in range : m < l
        <3>1. PICK b \in range : b = Min(range) /\ b <= l
            BY <1>3, <2>6
        <3>2. b # l
            BY <2>1, <2>6, <3>1
        <3>3. QED
            BY <1>2, <2>6, <3>1, <3>2
    <2>9. QED
        BY <1>1, <1>2, <2>6, <2>7, <2>8 DEF IsRise
<1>8. QED
    BY <1>4, <1>6, <1>7

LEMMA OneToOne ==
    ASSUME NEW S, IsFiniteSet(S), NEW T, NEW d,
           \A s \in S : d[s] \in T, \A s, t \in S : d[s] = d[t] => s = t,
           \A x \in T : \E s \in S : d[s] = x
    PROVE  IsFiniteSet(T) /\ Cardinality(T) = Cardinality(S)
<1> DEFINE f == [s \in S |-> d[s]]
<1>1. f \in Surjection(S, T) /\ f \in Injection(S, T)
    BY DEF Surjection, Injection, IsInjective
<1> HIDE DEF f
<1>2. QED
    BY <1>1, FS_Surjection

Ascending(S) ==
    [i \in 1 .. Cardinality(S) |-> CHOOSE s \in S : Cardinality({t \in S : t < s}) = i - 1]

\* The rises in their order, and how many damages are below each.
LEMMA RisesInOrder ==
    ASSUME NEW range \in SUBSET Nat, IsFiniteSet(range), NEW d \in [range -> Nat], Growing(d),
           NEW n, n = Cardinality(Above(d)), NEW list, list = Ascending(Rises(d))
    PROVE  /\ n \in Nat /\ DOMAIN list = 1 .. n /\ list \in Seq(range)
           /\ \A i \in 1 .. n : list[i] \in Rises(d)
           /\ \A i \in 1 .. n : Cardinality({x \in Above(d) : x < d[list[i]]}) = i - 1
<1> DEFINE S == Rises(d)
           R == {p \in S \X S : p[1] < p[2]}
<1>1. /\ \A l \in S : l \in range /\ l \in Nat /\ d[l] \in Nat /\ d[l] \in Above(d)
      /\ \A l, m \in S : l < m <=> d[l] < d[m]
      /\ \A x \in Above(d) : \E l \in S : d[l] = x
    BY RisesAreTheDamages
<1>2. IsFiniteSet(S)
    <2>1. S \in SUBSET range
        BY <1>1
    <2> HIDE DEF S
    <2>2. QED
        BY <2>1, FS_Subset
<1> HIDE DEF S
<1>3. \A l, m \in S : d[l] = d[m] => l = m
    <2> SUFFICES ASSUME NEW l \in S, NEW m \in S, d[l] = d[m] PROVE l = m
        OBVIOUS
    <2>1. l \in Nat /\ m \in Nat /\ d[l] \in Nat /\ ~(d[l] < d[m]) /\ ~(d[m] < d[l])
        BY <1>1
    <2>2. ~(l < m) /\ ~(m < l)
        BY <1>1, <2>1
    <2>3. QED
        BY <2>1, <2>2
<1>4. Cardinality(S) = n
    BY <1>1, <1>2, <1>3, OneToOne
<1>5. StrictOrder(R, S)
    <2>1. \A s, t \in S : <<s, t>> \in R <=> s < t
        OBVIOUS
    <2> HIDE DEF R
    <2>2. QED
        BY <1>1, <2>1 DEF StrictOrder
<1>6. list = [i \in 1 .. n |-> CHOOSE s \in S : Cardinality({t \in S : t < s}) = i - 1]
    BY <1>4 DEF Ascending, S
<1>7. \A s \in S : Place(R, S, s) = Cardinality({t \in S : t < s})
    <2> SUFFICES ASSUME NEW s \in S PROVE Place(R, S, s) = Cardinality({t \in S : t < s})
        OBVIOUS
    <2>1. {t \in S : <<t, s>> \in R} = {t \in S : t < s}
        OBVIOUS
    <2>2. QED
        BY <2>1 DEF Place
<1> HIDE DEF R
<1>8. ASSUME NEW i \in 1 .. n, \E s \in S : Place(R, S, s) = i - 1
      PROVE  list[i] \in S /\ Place(R, S, list[i]) = i - 1
    <2>1. list[i] = CHOOSE s \in S : Cardinality({t \in S : t < s}) = i - 1
        BY <1>6
    <2>2. \E s \in S : Cardinality({t \in S : t < s}) = i - 1
        BY <1>7, <1>8
    <2>3. list[i] \in S /\ Cardinality({t \in S : t < list[i]}) = i - 1
        BY <2>1, <2>2
    <2>4. QED
        BY <1>7, <2>3
<1>9. n \in Nat /\ \A i \in 1 .. n : list[i] \in S /\ Place(R, S, list[i]) = i - 1
    <2>1. \A i \in 1 .. Cardinality(S) : (\E s \in S : Place(R, S, s) = i - 1) =>
              list[i] \in S /\ Place(R, S, list[i]) = i - 1
        BY <1>4, <1>8
    <2>2. /\ Cardinality(S) \in Nat
          /\ \A i \in 1 .. Cardinality(S) : list[i] \in S /\ Place(R, S, list[i]) = i - 1
        BY <1>2, <1>5, <2>1, ListIsInOrder
    <2>3. QED
        BY <1>4, <2>2
<1>10. list \in [1 .. n -> range]
    BY <1>1, <1>6, <1>9
<1>11. ASSUME NEW i \in 1 .. n PROVE Cardinality({x \in Above(d) : x < d[list[i]]}) = i - 1
    <2>1. PICK r \in S : r = list[i] /\ Cardinality({t \in S : t < r}) = i - 1
        BY <1>7, <1>9
    <2> DEFINE low == {t \in S : t < r}
               less == {x \in Above(d) : x < d[r]}
    <2>2. low \in SUBSET S
        OBVIOUS
    <2>3. /\ \A s \in low : d[s] \in less
          /\ \A s, t \in low : d[s] = d[t] => s = t
        BY <1>1, <1>3
    <2>4. \A x \in less : \E s \in low : d[s] = x
        BY <1>1
    <2>5. IsFiniteSet(low)
        <3> HIDE DEF low
        <3>1. QED
            BY <1>2, <2>2, FS_Subset
    <2> HIDE DEF low, less
    <2>6. Cardinality(less) = Cardinality(low)
        BY <2>3, <2>4, <2>5, OneToOne
    <2>7. QED
        BY <2>1, <2>6 DEF low, less
<1>12. QED
    BY <1>9, <1>10, <1>11 DEF S

\* The breakpoints of a damage that does not fall, however many are asked for.
LEMMA BreakpointsOfGrowing ==
    ASSUME NEW range \in SUBSET Nat, IsFiniteSet(range), NEW d \in [range -> Nat], Growing(d),
           NEW list, list = Ascending(Rises(d)),
           NEW m, m = Min({MaxBreakpoints, Len(list)}),
           NEW points, points = [i \in 1 .. m |-> [level |-> list[i], damage |-> d[list[i]]]]
    PROVE  FirstRises(points, d)
<1>1. PICK n : n = Cardinality(Above(d))
    OBVIOUS
<1>2. /\ n \in Nat /\ DOMAIN list = 1 .. n /\ list \in Seq(range)
      /\ \A i \in 1 .. n : list[i] \in Rises(d)
      /\ \A i \in 1 .. n : Cardinality({x \in Above(d) : x < d[list[i]]}) = i - 1
    BY <1>1, RisesInOrder
<1>3. Len(list) = n
    BY <1>2
<1>4. m \in Nat /\ m <= n
    <2>1. {MaxBreakpoints, n} \in SUBSET Nat /\ {MaxBreakpoints, n} # {} /\ n \in {MaxBreakpoints, n}
        BY <1>2, CalculatorsAssumption
    <2>2. /\ Min({MaxBreakpoints, n}) \in {MaxBreakpoints, n}
          /\ \A s \in {MaxBreakpoints, n} : Min({MaxBreakpoints, n}) <= s
        BY <2>1, MinIsThere
    <2>3. m = Min({MaxBreakpoints, n})
        BY <1>3
    <2>4. QED
        BY <2>1, <2>2, <2>3
<1>5. Len(points) = m /\ DOMAIN points = 1 .. m
    BY <1>4
<1>6. ASSUME NEW i \in 1 .. m
      PROVE  /\ points[i].damage \in Above(d)
             /\ points[i].level = FirstWith(d, points[i].damage)
             /\ Cardinality({x \in Above(d) : x < points[i].damage}) = i - 1
    <2>1. PICK l \in Rises(d) : l = list[i] /\ Cardinality({x \in Above(d) : x < d[l]}) = i - 1
        BY <1>2, <1>4
    <2>2. points[i].level = l /\ points[i].damage = d[l]
        BY <2>1
    <2>3. d[l] \in Above(d) /\ l = FirstWith(d, d[l])
        BY RisesAreTheDamages
    <2>4. QED
        BY <2>1, <2>2, <2>3
<1>7. DOMAIN d = range
    OBVIOUS
<1>8. Len(points) = Min({MaxBreakpoints, Cardinality(Above(d))})
    BY <1>1, <1>3, <1>5
<1>9. QED
    BY <1>5, <1>6, <1>7, <1>8 DEF FirstRises, Above, FirstWith

\* An effectiveness against one type is one of four.
Exponents == {-2, -1, 0, 1}

LEMMA MultiplierOfOne ==
    ASSUME NEW attack, NEW defend
    PROVE  TypeMultiplier(attack, defend, "") \in Exponents
<1> DEFINE lookup == {e[3] : e \in {f \in TypeEffectivenessTable : f[1] = attack /\ f[2] = defend}}
           get == IF lookup = {} THEN 0 ELSE CHOOSE x \in lookup : TRUE
<1>1. \A s, t : TypeChart(s, t) \in Exponents
    BY DEF TypeChart, Exponents
<1>2. \A e \in TypeEffectivenessTable : e[3] \in Exponents
    BY <1>1 DEF TypeEffectivenessTable
<1>3. \A x \in lookup : x \in Exponents
    BY <1>2
<1>4. TypeMultiplier(attack, defend, "") = get + 0
    BY DEF TypeMultiplier
<1> HIDE DEF lookup
<1>5. get \in Exponents
    <2>1. CASE lookup = {}
        BY <2>1 DEF Exponents
    <2>2. CASE lookup # {}
        BY <1>3, <2>2
    <2>3. QED
        BY <2>1, <2>2
<1> HIDE DEF get
<1>6. get + 0 = get
    BY <1>5 DEF Exponents
<1>7. QED
    BY <1>4, <1>5, <1>6

\* The powers an effectiveness stands for are positive.
Up(x) == IF x > 0 THEN x ELSE 0

LEMMA PowersOf ==
    ASSUME NEW exponent \in Exponents
    PROVE  \E e \in Nat, g \in Nat, h \in Nat \ {0}, k \in Nat \ {0} :
               /\ e = 8 ^ Up(exponent) /\ g = 5 ^ Up(-exponent)
               /\ h = 5 ^ Up(exponent) /\ k = 8 ^ Up(-exponent)
<1>1. PICK x \in Int : x = exponent
    BY DEF Exponents
<1>2. PICK p, q : p = Up(x) /\ q = Up(-x)
    OBVIOUS
<1>3. (p = 0 /\ q = 2) \/ (p = 0 /\ q = 1) \/ (p = 0 /\ q = 0) \/ (p = 1 /\ q = 0)
    BY <1>1, <1>2 DEF Exponents, Up
<1>4. /\ 8 ^ 0 = 1 /\ 8 ^ 1 = 8 /\ 8 ^ 2 = 64
      /\ 5 ^ 0 = 1 /\ 5 ^ 1 = 5 /\ 5 ^ 2 = 25
    OBVIOUS
<1>5. 8 ^ p \in {1, 8} /\ 5 ^ p \in {1, 5} /\ 8 ^ q \in {1, 8, 64} /\ 5 ^ q \in {1, 5, 25}
    <2>1. CASE p = 0 /\ q = 2
        BY <1>4, <2>1, Zenon
    <2>2. CASE p = 0 /\ q = 1
        BY <1>4, <2>2, Zenon
    <2>3. CASE p = 0 /\ q = 0
        BY <1>4, <2>3, Zenon
    <2>4. CASE p = 1 /\ q = 0
        BY <1>4, <2>4, Zenon
    <2>5. QED
        BY <1>3, <2>1, <2>2, <2>3, <2>4
<1>6. /\ {1, 8} \subseteq Nat /\ {1, 5, 25} \subseteq Nat
      /\ {1, 5} \subseteq Nat \ {0} /\ {1, 8, 64} \subseteq Nat \ {0}
    OBVIOUS
<1>7. 8 ^ p \in Nat /\ 5 ^ q \in Nat /\ 5 ^ p \in Nat \ {0} /\ 8 ^ q \in Nat \ {0}
    BY <1>5, <1>6, Zenon
<1>8. p = Up(exponent) /\ q = Up(-exponent)
    BY <1>1, <1>2
<1>9. QED
    BY <1>7, <1>8, Zenon

LEMMA DamageGrows ==
    ASSUME NEW power \in Nat, NEW attack \in Nat, NEW defense \in Nat \ {0},
           NEW stab, NEW exponent \in Exponents, NEW weather,
           NEW l \in Levels, NEW m \in Levels, l <= m
    PROVE  /\ Damage(power, attack, l, defense, stab, exponent, weather) \in Nat
           /\ Damage(power, attack, m, defense, stab, exponent, weather) \in Nat
           /\ Damage(power, attack, l, defense, stab, exponent, weather)
                  <= Damage(power, attack, m, defense, stab, exponent, weather)
<1>1. PICK c \in Nat, d \in Nat : c = Cpm[l] /\ d = Cpm[m] /\ c <= d
    BY RankingAssumption DEF Levels
<1>2. PICK s \in Nat, w \in Nat :
          s = (IF stab THEN 6 ELSE 5) /\ w = (IF weather THEN 6 ELSE 5)
    OBVIOUS
<1>3. PICK e \in Nat, g \in Nat, h \in Nat \ {0}, k \in Nat \ {0} :
          /\ e = 8 ^ Up(exponent) /\ g = 5 ^ Up(-exponent)
          /\ h = 5 ^ Up(exponent) /\ k = 8 ^ Up(-exponent)
    BY PowersOf
<1>4. PICK u \in Nat \ {0} : u = CpmUnit
    BY RankingAssumption
<1> DEFINE above(x) == power * attack * x * s * w * e * g
           below == 50 * u * defense * h * k
<1>5. /\ Damage(power, attack, l, defense, stab, exponent, weather) = (above(c) \div below) + 1
      /\ Damage(power, attack, m, defense, stab, exponent, weather) = (above(d) \div below) + 1
    BY <1>1, <1>2, <1>3, <1>4 DEF Damage, Up
<1>6. PICK a \in Nat, b \in Nat : a = above(c) /\ b = above(d) /\ a <= b
    <2>1. PICK p \in Nat : p = power * attack
        OBVIOUS
    <2>2. /\ p * c \in Nat /\ p * d \in Nat /\ p * c <= p * d
        BY <1>1, ProductGrows
    <2>3. PICK q \in Nat : q = s * w * e * g
        OBVIOUS
    <2>4. p * c * q \in Nat /\ p * d * q \in Nat /\ p * c * q <= p * d * q
        BY <2>2, ProductGrows
    <2>5. above(c) = p * c * q /\ above(d) = p * d * q
        BY <2>1, <2>3
    <2> HIDE DEF above
    <2>6. QED
        BY <2>4, <2>5
<1>7. below \in Nat \ {0}
    <2>1. PICK x \in Nat \ {0} : x = u * defense
        OBVIOUS
    <2>2. PICK y \in Nat \ {0} : y = h * k
        OBVIOUS
    <2>3. 50 * x * y \in Nat \ {0}
        OBVIOUS
    <2>4. below = 50 * x * y
        BY <2>1, <2>2
    <2>5. QED
        BY <2>3, <2>4
<1> HIDE DEF above, below
<1>8. (a \div below) \in Nat /\ (b \div below) \in Nat /\ (a \div below) <= (b \div below)
    BY <1>6, <1>7, QuotientGrows
<1>9. QED
    BY <1>5, <1>6, <1>8

\* What find_breakpoints lists, with the order written out.
LEMMA BreakpointsAreRises ==
    ASSUME NEW f, NEW move, NEW iv, NEW defense, NEW weather, NEW range, NEW maxResults
    PROVE  Breakpoints(f, move, iv, defense, weather, range, maxResults) =
               LET d == [l \in range |->
                            Damage(move.power, f.atk + iv, l, defense, HasStab(f, move),
                                   TypeMultiplier(move.type, "normal", ""), weather)]
                   list == Ascending(Rises(d))
               IN  [i \in 1 .. Min({maxResults, Len(list)}) |->
                       [level |-> list[i], damage |-> d[list[i]]]]
BY DEF Breakpoints, InOrder, Ascending

LEMMA BreakpointLevelsAreFinite ==
    BreakpointLevels \in SUBSET Levels /\ BreakpointLevels \in SUBSET Nat
    /\ IsFiniteSet(BreakpointLevels)
<1>1. BreakpointLevels \in SUBSET Levels
    BY DEF BreakpointLevels
<1>2. BreakpointLevels \in SUBSET (80 .. 200)
    BY DEF BreakpointLevels
<1>3. IsFiniteSet(80 .. 200)
    <2>1. 80 \in Int /\ 200 \in Int
        OBVIOUS
    <2>2. QED
        BY <2>1, FS_Interval
<1>4. IsFiniteSet(BreakpointLevels)
    BY <1>2, <1>3, FS_Subset
<1>5. (80 .. 200) \subseteq Nat
    OBVIOUS
<1>6. QED
    BY <1>1, <1>2, <1>4, <1>5

\* find_breakpoints misses no rise: whatever the fighter, the move and the table, what the
\* page lists are the lowest levels with each damage above the first one, in order, as many
\* as it may show.  A damage does not fall with the level, so comparing each level with the
\* one before is comparing it with all of them.
THEOREM BreakpointsHold == Spec => []BreakpointsAreExact
<1>1. ASSUME CalculatorsInv PROVE BreakpointsAreExact
    <2> SUFFICES ASSUME page.result.kind = "breakpoints" PROVE BreakpointsAreExact
        BY DEF BreakpointsAreExact
    <2>1. page.of = "breakpoints" /\ page.form \in Forms["breakpoints"]
          /\ "breakpoints" \in DOMAIN Forms
          /\ page.form # NoForm /\ page.result = Answer(page.of, page.form, release.rank)
        BY <1>1, ResultIsOf DEF Calculator
    <2>2. PICK f \in Forms["breakpoints"] : f = page.form
        BY <2>1
    <2>3. page.result = BreakpointsResult(f)
        BY <2>1, <2>2 DEF Answer, Computed
    <2> DEFINE shooter == Fighters[f.species]
               move == FastMoves[f.move]
    <2>4. PICK iv, defense : iv = OrDefault(f.atk, MaxIV) /\ defense = OrDefault(f.defense, 200)
        OBVIOUS
    <2>5. f.species \in DOMAIN Fighters /\ f.move \in DOMAIN FastMoves
          /\ iv \in 0 .. MaxIV /\ defense # NotFinite /\ defense > 0
        BY <2>3, <2>4 DEF BreakpointsResult, Failed
    <2>6. PICK points : points = Breakpoints(shooter, move, iv, defense, f.weather,
                                             BreakpointLevels, MaxBreakpoints)
        OBVIOUS
    <2>7. page.result = [kind |-> "breakpoints", species |-> f.species, move |-> f.move,
                         iv |-> iv, defense |-> defense, weather |-> f.weather,
                         breakpoints |-> points]
        BY <2>3, <2>4, <2>5, <2>6 DEF BreakpointsResult
    <2>8. /\ page.result.species = f.species /\ page.result.move = f.move
          /\ page.result.iv = iv /\ page.result.defense = defense
          /\ page.result.weather = f.weather /\ page.result.breakpoints = points
        BY <2>7
    <2>9. PICK power \in Nat, attack \in Nat : power = move.power /\ attack = shooter.atk + iv
        BY <2>5, BattleAssumption, RankingAssumption
    <2>10. defense \in Nat \ {0}
        <3>1. f.defense \in {Blank, Junk, NotFinite} \/ f.defense \in Int
            BY <2>1, CalculatorsAssumption
        <3>2. defense \in Int
            BY <2>4, <2>5, <3>1 DEF OrDefault
        <3>3. QED
            BY <2>5, <3>2
    <2>11. PICK exponent \in Exponents : exponent = TypeMultiplier(move.type, "normal", "")
        BY MultiplierOfOne
    <2>12. PICK stab : stab = HasStab(shooter, move)
        OBVIOUS
    <2>13. PICK d : d = [l \in BreakpointLevels |->
                           Damage(power, attack, l, defense, stab, exponent, f.weather)]
        OBVIOUS
    <2>14. PICK list : list = Ascending(Rises(d))
        OBVIOUS
    <2>15. points = [i \in 1 .. Min({MaxBreakpoints, Len(list)}) |->
                       [level |-> list[i], damage |-> d[list[i]]]]
        <3> HIDE DEF shooter, move
        <3>1. points = LET e == [l \in BreakpointLevels |->
                                   Damage(move.power, shooter.atk + iv, l, defense,
                                          HasStab(shooter, move),
                                          TypeMultiplier(move.type, "normal", ""), f.weather)]
                           order == Ascending(Rises(e))
                       IN  [i \in 1 .. Min({MaxBreakpoints, Len(order)}) |->
                               [level |-> order[i], damage |-> e[order[i]]]]
            BY <2>6, BreakpointsAreRises, Zenon
        <3>2. d = [l \in BreakpointLevels |->
                     Damage(move.power, shooter.atk + iv, l, defense, HasStab(shooter, move),
                            TypeMultiplier(move.type, "normal", ""), f.weather)]
            BY <2>9, <2>11, <2>12, <2>13
        <3>3. QED
            BY <2>14, <3>1, <3>2, Zenon
    <2>16. d \in [BreakpointLevels -> Nat] /\ Growing(d)
        <3>1. ASSUME NEW l \in BreakpointLevels, NEW m \in BreakpointLevels, l <= m
              PROVE  d[l] \in Nat /\ d[l] <= d[m]
            <4>1. l \in Levels /\ m \in Levels
                BY BreakpointLevelsAreFinite
            <4>2. /\ Damage(power, attack, l, defense, stab, exponent, f.weather) \in Nat
                  /\ Damage(power, attack, l, defense, stab, exponent, f.weather)
                         <= Damage(power, attack, m, defense, stab, exponent, f.weather)
                BY <2>10, <3>1, <4>1, DamageGrows
            <4>3. QED
                BY <2>13, <4>2
        <3>2. \A l \in BreakpointLevels : l <= l
            BY BreakpointLevelsAreFinite
        <3>3. \A l \in BreakpointLevels : d[l] \in Nat
            BY <3>1, <3>2
        <3>4. QED
            BY <2>13, <3>1, <3>3 DEF Growing
    <2>17. FirstRises(points, d)
        BY <2>14, <2>15, <2>16, BreakpointLevelsAreFinite, BreakpointsOfGrowing
    <2>18. QED
        BY <2>8, <2>9, <2>11, <2>12, <2>13, <2>17 DEF BreakpointsAreExact
<1>2. QED
    BY <1>1, InvHolds, PTL

-----------------------------------------------------------------------------
(* The attackers: lists of rows, sorted and filtered *)

-----------------------------------------------------------------------------
(* Lists that are sorted and filtered *)

\* A list of the members of a set in the order R.
InPlaces(list, R, S) ==
    /\ Cardinality(S) \in Nat
    /\ \A i \in 1 .. Cardinality(S) : list[i] \in S
    /\ \A i, j \in 1 .. Cardinality(S) : i < j => <<list[i], list[j]>> \in R
    /\ \A s \in S : \E i \in 1 .. Cardinality(S) : list[i] = s

LEMMA ListIsInPlaces ==
    ASSUME NEW S, IsFiniteSet(S), NEW R, StrictOrder(R, S), NEW list,
           \A i \in 1 .. Cardinality(S) : (\E s \in S : Place(R, S, s) = i - 1) =>
                   list[i] \in S /\ Place(R, S, list[i]) = i - 1
    PROVE  InPlaces(list, R, S)
<1>1. /\ Cardinality(S) \in Nat
      /\ \A i \in 1 .. Cardinality(S) : list[i] \in S /\ Place(R, S, list[i]) = i - 1
    BY ListIsInOrder
<1>2. \A i, j \in 1 .. Cardinality(S) : i < j <=> <<list[i], list[j]>> \in R
    BY ListIsInOrder
<1>3. \A s \in S : \E i \in 1 .. Cardinality(S) : list[i] = s
    BY ListIsInOrder
<1>4. QED
    BY <1>1, <1>2, <1>3 DEF InPlaces

\* A list of the members of a set of naturals, upwards.
Enumerates(list, S) ==
    /\ Cardinality(S) \in Nat /\ DOMAIN list = 1 .. Cardinality(S)
    /\ \A i \in 1 .. Cardinality(S) : list[i] \in S
    /\ \A i, j \in 1 .. Cardinality(S) : i < j => list[i] < list[j]
    /\ \A s \in S : \E i \in 1 .. Cardinality(S) : list[i] = s

LEMMA AscendingEnumerates ==
    ASSUME NEW S \in SUBSET Nat, IsFiniteSet(S)
    PROVE  Enumerates(Ascending(S), S)
<1> DEFINE R == {p \in S \X S : p[1] < p[2]}
<1>1. PICK list : list = Ascending(S)
    OBVIOUS
<1>2. PICK n : n = Cardinality(S)
    OBVIOUS
<1>3. \A s \in S : s \in Nat
    OBVIOUS
<1>4. \A s, t \in S : <<s, t>> \in R <=> s < t
    OBVIOUS
<1>5. \A s \in S : Place(R, S, s) = Cardinality({t \in S : t < s})
    <2> SUFFICES ASSUME NEW s \in S PROVE Place(R, S, s) = Cardinality({t \in S : t < s})
        OBVIOUS
    <2>1. {t \in S : <<t, s>> \in R} = {t \in S : t < s}
        OBVIOUS
    <2>2. QED
        BY <2>1 DEF Place
<1> HIDE DEF R
<1>6. StrictOrder(R, S)
    BY <1>3, <1>4 DEF StrictOrder
<1>7. list = [i \in 1 .. n |-> CHOOSE s \in S : Cardinality({t \in S : t < s}) = i - 1]
    BY <1>1, <1>2 DEF Ascending
<1>8. ASSUME NEW i \in 1 .. n, \E s \in S : Place(R, S, s) = i - 1
      PROVE  list[i] \in S /\ Place(R, S, list[i]) = i - 1
    <2>1. list[i] = CHOOSE s \in S : Cardinality({t \in S : t < s}) = i - 1
        BY <1>7
    <2>2. \E s \in S : Cardinality({t \in S : t < s}) = i - 1
        BY <1>5, <1>8
    <2>3. list[i] \in S /\ Cardinality({t \in S : t < list[i]}) = i - 1
        BY <2>1, <2>2
    <2>4. QED
        BY <1>5, <2>3
<1>9. \A i \in 1 .. Cardinality(S) : (\E s \in S : Place(R, S, s) = i - 1) =>
          list[i] \in S /\ Place(R, S, list[i]) = i - 1
    BY <1>2, <1>8
<1>10. InPlaces(list, R, S)
    BY <1>6, <1>9, ListIsInPlaces
<1>11. DOMAIN list = 1 .. Cardinality(S)
    BY <1>2, <1>7
<1>12. QED
    BY <1>1, <1>4, <1>10, <1>11 DEF Enumerates, InPlaces

Picks(out, order, seq, positions) ==
    /\ Enumerates(order, positions)
    /\ out = [i \in 1 .. Cardinality(positions) |-> seq[order[i]]]

\* Picked, by the positions of what is wanted, and SortBy, by the keys of the positions: what
\* the two come to once their operator is given.
Select(seq, positions) ==
    LET order == InOrder(positions, <) IN [i \in DOMAIN order |-> seq[order[i]]]

SortWith(seq, key) ==
    LET order == InOrder(DOMAIN key, LAMBDA i, j : \/ key[i] < key[j]
                                                   \/ key[i] = key[j] /\ i < j)
    IN  [i \in DOMAIN order |-> seq[order[i]]]

LEMMA PickedIs ==
    ASSUME NEW seq, NEW positions \in SUBSET Nat, IsFiniteSet(positions)
    PROVE  \E order : Picks(Select(seq, positions), order, seq, positions)
<1>1. Select(seq, positions) =
          LET order == Ascending(positions) IN [i \in DOMAIN order |-> seq[order[i]]]
    BY DEF Select, InOrder, Ascending
<1>2. PICK order : order = Ascending(positions)
    OBVIOUS
<1>3. Enumerates(order, positions)
    BY <1>2, AscendingEnumerates
<1>4. Select(seq, positions) = [i \in DOMAIN order |-> seq[order[i]]]
    BY <1>1, <1>2, Zenon
<1>5. QED
    BY <1>3, <1>4 DEF Enumerates, Picks

\* The positions 1 .. n in the order of their keys.
Sorts(order, n, key) ==
    /\ \A i \in 1 .. n : order[i] \in 1 .. n
    /\ \A i, j \in 1 .. n : i < j => order[i] # order[j] /\ key[order[i]] <= key[order[j]]
    /\ \A k \in 1 .. n : \E i \in 1 .. n : order[i] = k

First(key, i, j) == key[i] < key[j] \/ (key[i] = key[j] /\ i < j)

ByKey(S, key) ==
    [i \in 1 .. Cardinality(S) |->
        CHOOSE s \in S : Cardinality({t \in S : First(key, t, s)}) = i - 1]

LEMMA ByKeySorts ==
    ASSUME NEW n \in Nat, NEW key \in [1 .. n -> Int]
    PROVE  Sorts(ByKey(1 .. n, key), n, key)
<1>1. PICK S : S = 1 .. n
    OBVIOUS
<1> DEFINE R == {p \in S \X S : First(key, p[1], p[2])}
<1>2. PICK list : list = ByKey(S, key)
    OBVIOUS
<1>3. IsFiniteSet(S) /\ Cardinality(S) = n
    <2>1. 1 \in Int /\ n \in Int
        OBVIOUS
    <2>2. IsFiniteSet(1 .. n) /\ Cardinality(1 .. n) = IF 1 > n THEN 0 ELSE n - 1 + 1
        BY <2>1, FS_Interval
    <2>3. QED
        BY <1>1, <2>2
<1>4. \A s \in S : s \in Int /\ key[s] \in Int
    BY <1>1
<1>5. \A s, t \in S : <<s, t>> \in R <=> First(key, s, t)
    OBVIOUS
<1>6. \A s \in S : Place(R, S, s) = Cardinality({t \in S : First(key, t, s)})
    <2> SUFFICES ASSUME NEW s \in S
                 PROVE  Place(R, S, s) = Cardinality({t \in S : First(key, t, s)})
        OBVIOUS
    <2>1. {t \in S : <<t, s>> \in R} = {t \in S : First(key, t, s)}
        OBVIOUS
    <2>2. QED
        BY <2>1 DEF Place
<1> HIDE DEF R
<1>7. StrictOrder(R, S)
    <2>1. \A s, t, u \in S : First(key, s, t) /\ First(key, t, u) => First(key, s, u)
        BY <1>4 DEF First
    <2>2. \A s, t \in S : s # t => First(key, s, t) \/ First(key, t, s)
        BY <1>4 DEF First
    <2>3. \A s \in S : ~First(key, s, s)
        BY <1>4 DEF First
    <2>4. \A s, t \in S : ~(First(key, s, t) /\ First(key, t, s))
        BY <1>4 DEF First
    <2>5. QED
        BY <1>5, <2>1, <2>2, <2>3, <2>4 DEF StrictOrder
<1>8. list = [i \in 1 .. n |->
                 CHOOSE s \in S : Cardinality({t \in S : First(key, t, s)}) = i - 1]
    BY <1>2, <1>3 DEF ByKey
<1>9. ASSUME NEW i \in 1 .. n, \E s \in S : Place(R, S, s) = i - 1
      PROVE  list[i] \in S /\ Place(R, S, list[i]) = i - 1
    <2>1. list[i] = CHOOSE s \in S : Cardinality({t \in S : First(key, t, s)}) = i - 1
        BY <1>8
    <2>2. \E s \in S : Cardinality({t \in S : First(key, t, s)}) = i - 1
        BY <1>6, <1>9
    <2>3. list[i] \in S /\ Cardinality({t \in S : First(key, t, list[i])}) = i - 1
        BY <2>1, <2>2
    <2>4. QED
        BY <1>6, <2>3
<1>10. \A i \in 1 .. Cardinality(S) : (\E s \in S : Place(R, S, s) = i - 1) =>
          list[i] \in S /\ Place(R, S, list[i]) = i - 1
    BY <1>3, <1>9
<1>11. InPlaces(list, R, S)
    BY <1>3, <1>7, <1>10, ListIsInPlaces
<1>12. ASSUME NEW i \in 1 .. n, NEW j \in 1 .. n, i < j
       PROVE  list[i] # list[j] /\ key[list[i]] <= key[list[j]]
    <2>1. list[i] \in S /\ list[j] \in S /\ First(key, list[i], list[j])
        BY <1>3, <1>5, <1>11, <1>12 DEF InPlaces
    <2>2. QED
        BY <1>4, <2>1 DEF First
<1>13. Sorts(list, n, key)
    BY <1>1, <1>3, <1>11, <1>12 DEF Sorts, InPlaces
<1>14. QED
    BY <1>1, <1>2, <1>13

Sorted(out, order, n, seq, key) ==
    Sorts(order, n, key) /\ out = [i \in 1 .. n |-> seq[order[i]]]

LEMMA SortedIs ==
    ASSUME NEW n \in Nat, NEW seq, DOMAIN seq = 1 .. n, NEW key \in [1 .. n -> Int]
    PROVE  \E order : Sorted(SortWith(seq, key), order, n, seq, key)
<1>1. SortWith(seq, key) =
          LET order == ByKey(DOMAIN key, key) IN [i \in DOMAIN order |-> seq[order[i]]]
    BY DEF SortWith, InOrder, ByKey, First
<1>2. DOMAIN key = 1 .. n
    OBVIOUS
<1>3. PICK order : order = ByKey(1 .. n, key)
    OBVIOUS
<1>4. Sorts(order, n, key)
    BY <1>3, ByKeySorts
<1>5. DOMAIN order = 1 .. n
    <2>1. 1 \in Int /\ n \in Int
        OBVIOUS
    <2>2. Cardinality(1 .. n) = IF 1 > n THEN 0 ELSE n - 1 + 1
        BY <2>1, FS_Interval
    <2>3. Cardinality(1 .. n) = n
        BY <2>2
    <2>4. QED
        BY <1>3, <2>3 DEF ByKey
<1>6. SortWith(seq, key) = [i \in DOMAIN order |-> seq[order[i]]]
    BY <1>1, <1>2, <1>3, Zenon
<1>7. QED
    BY <1>4, <1>5, <1>6 DEF Sorted

-----------------------------------------------------------------------------
(* The attackers *)

\* The rows are those of the species in W, each once; row gives a species' row.
Lists(rows, W, row) ==
    /\ \E n \in Nat : DOMAIN rows = 1 .. n
    /\ \A i \in DOMAIN rows : rows[i].species \in W /\ rows[i] = row[rows[i].species]
    /\ \A i, j \in DOMAIN rows : rows[i].species = rows[j].species => i = j
    /\ \A s \in W : \E i \in DOMAIN rows : rows[i].species = s

LEMMA IntervalsAreFinite ==
    ASSUME NEW n \in Nat, NEW S \in SUBSET (1 .. n)
    PROVE  IsFiniteSet(S) /\ S \in SUBSET Nat
<1>1. 1 \in Int /\ n \in Int
    OBVIOUS
<1>2. IsFiniteSet(1 .. n)
    BY <1>1, FS_Interval
<1>3. IsFiniteSet(S)
    BY <1>2, FS_Subset
<1>4. (1 .. n) \subseteq Nat
    OBVIOUS
<1>5. QED
    BY <1>3, <1>4

\* A filter leaves the rows of the species it is for.
LEMMA PickedLists ==
    ASSUME NEW rows, NEW W, NEW row, Lists(rows, W, row),
           NEW V \in SUBSET W, NEW keep, keep = {i \in DOMAIN rows : rows[i].species \in V}
    PROVE  \E order : /\ Picks(Select(rows, keep), order, rows, keep)
                      /\ Lists(Select(rows, keep), V, row)
<1>1. PICK n \in Nat : DOMAIN rows = 1 .. n
    BY DEF Lists
<1>2. keep \in SUBSET (1 .. n)
    BY <1>1
<1>3. IsFiniteSet(keep) /\ keep \in SUBSET Nat
    BY <1>2, IntervalsAreFinite
<1>4. PICK order : Picks(Select(rows, keep), order, rows, keep)
    BY <1>3, PickedIs
<1>5. PICK out : out = Select(rows, keep)
    OBVIOUS
<1>6. PICK m \in Nat : m = Cardinality(keep)
    BY <1>4 DEF Enumerates, Picks
<1>7. /\ DOMAIN out = 1 .. m /\ \A i \in 1 .. m : out[i] = rows[order[i]]
      /\ \A i \in 1 .. m : order[i] \in keep
      /\ \A i, j \in 1 .. m : i < j => order[i] < order[j]
      /\ \A k \in keep : \E i \in 1 .. m : order[i] = k
    BY <1>4, <1>5, <1>6 DEF Enumerates, Picks
<1>8. \A k \in keep : k \in DOMAIN rows /\ k \in Nat /\ rows[k].species \in V
    BY <1>3
<1>9. \A k \in DOMAIN rows : rows[k].species \in V => k \in keep
    OBVIOUS
<1>10. ASSUME NEW i \in 1 .. m PROVE out[i].species \in V /\ out[i] = row[out[i].species]
    <2>1. PICK k \in DOMAIN rows : out[i] = rows[k] /\ rows[k].species \in V
        BY <1>7, <1>8
    <2>2. rows[k] = row[rows[k].species]
        BY DEF Lists
    <2>3. QED
        BY <2>1, <2>2
<1>11. ASSUME NEW i \in 1 .. m, NEW j \in 1 .. m, out[i].species = out[j].species
       PROVE  i = j
    <2>1. order[i] = order[j]
        BY <1>7, <1>8, <1>11 DEF Lists
    <2>2. order[i] \in Nat /\ order[j] \in Nat
        BY <1>7, <1>8
    <2>3. ~(i < j) /\ ~(j < i)
        BY <1>7, <2>1, <2>2
    <2>4. QED
        BY <2>3
<1>12. ASSUME NEW s \in V PROVE \E i \in 1 .. m : out[i].species = s
    <2>1. PICK k \in DOMAIN rows : rows[k].species = s
        BY DEF Lists
    <2>2. k \in keep
        BY <1>9, <2>1
    <2>3. QED
        BY <1>7, <2>1, <2>2
<1>13. Lists(out, V, row)
    BY <1>7, <1>10, <1>11, <1>12 DEF Lists
<1>14. QED
    BY <1>4, <1>5, <1>13

\* A sort leaves the rows.
LEMMA SortedLists ==
    ASSUME NEW rows, NEW W, NEW row, Lists(rows, W, row),
           NEW key \in [DOMAIN rows -> Int]
    PROVE  \E n \in Nat : \E order :
               /\ DOMAIN rows = 1 .. n /\ Sorted(SortWith(rows, key), order, n, rows, key)
               /\ Lists(SortWith(rows, key), W, row)
<1>1. PICK n \in Nat : DOMAIN rows = 1 .. n
    BY DEF Lists
<1>2. PICK order : Sorted(SortWith(rows, key), order, n, rows, key)
    <2>1. key \in [1 .. n -> Int]
        BY <1>1
    <2>2. QED
        BY <1>1, <2>1, SortedIs
<1>3. PICK out : out = SortWith(rows, key)
    OBVIOUS
<1>4. PICK D : D = DOMAIN rows
    OBVIOUS
<1>5. /\ DOMAIN out = 1 .. n /\ \A i \in 1 .. n : out[i] = rows[order[i]]
      /\ \A i \in 1 .. n : order[i] \in D
      /\ \A i, j \in 1 .. n : i < j => order[i] # order[j]
      /\ \A k \in D : \E i \in 1 .. n : order[i] = k
    BY <1>1, <1>2, <1>3, <1>4 DEF Sorts, Sorted
<1>6. /\ \A k \in D : rows[k].species \in W /\ rows[k] = row[rows[k].species]
      /\ \A k, l \in D : rows[k].species = rows[l].species => k = l
      /\ \A s \in W : \E k \in D : rows[k].species = s
    BY <1>4 DEF Lists
<1>7. ASSUME NEW i \in 1 .. n PROVE out[i].species \in W /\ out[i] = row[out[i].species]
    <2>1. PICK k \in D : out[i] = rows[k]
        BY <1>5
    <2>2. QED
        BY <1>6, <2>1
<1>8. ASSUME NEW i \in 1 .. n, NEW j \in 1 .. n, out[i].species = out[j].species
      PROVE  i = j
    <2>1. PICK k \in D, l \in D :
              k = order[i] /\ l = order[j] /\ out[i] = rows[k] /\ out[j] = rows[l]
        BY <1>5
    <2>2. k = l
        BY <1>6, <1>8, <2>1
    <2>3. ~(i < j) /\ ~(j < i)
        BY <1>5, <2>1, <2>2
    <2>4. QED
        BY <2>3
<1>9. ASSUME NEW s \in W PROVE \E i \in 1 .. n : out[i].species = s
    BY <1>5, <1>6
<1>10. Lists(out, W, row)
    BY <1>5, <1>7, <1>8, <1>9 DEF Lists
<1>11. QED
    BY <1>1, <1>2, <1>3, <1>10

\* The species a ranking has.
AbleSpecies == {s \in DOMAIN Fighters : HasMoveset(s)}

LEMMA RoundIsInt ==
    ASSUME NEW n \in Nat, NEW d \in Nat \ {0}
    PROVE  Round(n, d) \in Int
<1>1. n \div d \in Int
    OBVIOUS
<1>2. QED
    BY <1>1 DEF Round

LEMMA HitIsNat ==
    ASSUME NEW power \in Nat, NEW atk \in Nat, NEW level \in Levels, NEW stab, NEW type, NEW target
    PROVE  Damage(power, atk + MaxIV, level, BossDefense, stab,
                  TypeMultiplier(type, target, ""), FALSE) \in Nat
<1>1. PICK attack \in Nat : attack = atk + MaxIV
    BY RankingAssumption
<1>2. PICK exponent \in Exponents : exponent = TypeMultiplier(type, target, "")
    BY MultiplierOfOne
<1>3. BossDefense \in Nat \ {0} /\ level <= level
    BY BattleAssumption, RankingAssumption DEF Levels
<1>4. Damage(power, attack, level, BossDefense, stab, exponent, FALSE) \in Nat
    BY <1>3, DamageGrows
<1>5. QED
    BY <1>1, <1>2, <1>4

LEMMA CyclesAreNat ==
    ASSUME NEW fast, fast.gain \in Int, NEW charge, charge.cost \in Nat
    PROVE  FastPerCycle(fast, charge) \in Nat \ {0}
<1>1. CASE fast.gain <= 0
    BY <1>1 DEF FastPerCycle
<1>2. CASE ~(fast.gain <= 0)
    <2>1. PICK g \in Nat \ {0}, c \in Nat : g = fast.gain /\ c = charge.cost
        BY <1>2
    <2>2. PICK x \in Nat : x = (c + g - 1) \div g
        <3>1. PICK y \in Nat : y = c + g - 1
            BY <2>1
        <3>2. y \div g \in Nat
            BY <2>1, QuotientGrows
        <3>3. QED
            BY <3>1, <3>2
    <2>3. FastPerCycle(fast, charge) = Max({1, x})
        BY <1>2, <2>1, <2>2 DEF FastPerCycle
    <2>4. PICK top \in Nat : \A y \in {1, x} : y <= top
        <3>1. 1 <= x + 1 /\ x <= x + 1 /\ x + 1 \in Nat
            OBVIOUS
        <3>2. QED
            BY <3>1
    <2>5. Max({1, x}) \in {1, x} /\ \A y \in {1, x} : y <= Max({1, x})
        BY <2>4, MaxIsThere
    <2>6. QED
        BY <2>3, <2>5
<1>3. QED
    BY <1>1, <1>2

\* The keys the attackers are sorted by are numbers.
LEMMA RowsAreTyped ==
    ASSUME NEW s \in AbleSpecies, NEW level \in Levels, NEW target
    PROVE  /\ BestMoveset(s, level, target).dps \in Int
           /\ BestMoveset(s, level, target).tdo \in Int
           /\ BestMoveset(s, level, target).edps \in Int
<1>1. PICK f : f = Fighters[s] /\ f.atk \in Nat /\ f.sta \in Nat
    BY BattleAssumption DEF AbleSpecies
<1>2. PICK fast : /\ fast = FastMoves[BestMovesets[s][1]] /\ fast.power \in Nat
                  /\ fast.gain \in Int /\ fast.ticks \in Nat \ {0}
    BY BattleAssumption DEF AbleSpecies, HasMoveset
<1>3. PICK charge : /\ charge = ChargeMoves[BestMovesets[s][2]] /\ charge.power \in Nat
                    /\ charge.cost \in Nat /\ charge.ticks \in Nat \ {0}
    BY BattleAssumption DEF AbleSpecies, HasMoveset
<1>4. PICK a \in Nat :
          a = Damage(fast.power, f.atk + MaxIV, level, BossDefense, HasStab(f, fast),
                     TypeMultiplier(fast.type, target, ""), FALSE)
    BY <1>1, <1>2, HitIsNat
<1>5. PICK b \in Nat :
          b = Damage(charge.power, f.atk + MaxIV, level, BossDefense, HasStab(f, charge),
                     TypeMultiplier(charge.type, target, ""), FALSE)
    BY <1>1, <1>3, HitIsNat
<1>6. PICK n \in Nat \ {0} : n = FastPerCycle(fast, charge)
    BY <1>2, <1>3, CyclesAreNat
<1>7. PICK damage \in Nat : damage = n * a + b
    OBVIOUS
<1>8. PICK ticks \in Nat \ {0} : ticks = n * fast.ticks + charge.ticks
    BY <1>2, <1>3
<1>9. PICK hp \in Nat : hp = (f.sta + MaxIV) * Cpm[level]
    BY <1>1, RankingAssumption DEF Levels
<1>10. BestMoveset(s, level, target) =
           [fastDamage |-> a, chargeDamage |-> b, dps |-> Round(200 * damage, ticks),
            tdo |-> Round(damage * hp, 5 * ticks * CpmUnit),
            edps |-> Round(400 * damage * hp, ticks * (2 * hp + 10 * CpmUnit)),
            hp |-> hp, level |-> level]
    <2> DEFINE hit(move) == Damage(move.power, f.atk + MaxIV, level, BossDefense, HasStab(f, move),
                                   TypeMultiplier(move.type, target, ""), FALSE)
               cycles == FastPerCycle(fast, charge)
               dealt == cycles * hit(fast) + hit(charge)
               taken == cycles * fast.ticks + charge.ticks
               life == (f.sta + MaxIV) * Cpm[level]
    <2>1. BestMoveset(s, level, target) = MovesetDamage(f, fast, charge, level, target)
        BY <1>1, <1>2, <1>3 DEF BestMoveset
    <2>2. MovesetDamage(f, fast, charge, level, target) =
              [fastDamage |-> hit(fast), chargeDamage |-> hit(charge),
               dps |-> Round(200 * dealt, taken), tdo |-> Round(dealt * life, 5 * taken * CpmUnit),
               edps |-> Round(400 * dealt * life, taken * (2 * life + 10 * CpmUnit)),
               hp |-> life, level |-> level]
        BY DEF MovesetDamage
    <2>3. hit(fast) = a /\ hit(charge) = b /\ life = hp
        BY <1>4, <1>5, <1>9
    <2>4. dealt = damage /\ taken = ticks
        <3> HIDE DEF hit
        <3>1. QED
            BY <1>6, <1>7, <1>8, <2>3
    <2> HIDE DEF hit, dealt, taken, life
    <2>5. QED
        BY <2>1, <2>2, <2>3, <2>4
<1>11. CpmUnit \in Nat \ {0}
    BY RankingAssumption
<1>12. Round(200 * damage, ticks) \in Int
    BY RoundIsInt
<1>13. Round(damage * hp, 5 * ticks * CpmUnit) \in Int
    <2>1. damage * hp \in Nat /\ 5 * ticks * CpmUnit \in Nat \ {0}
        BY <1>11
    <2>2. QED
        BY <2>1, RoundIsInt
<1>14. Round(400 * damage * hp, ticks * (2 * hp + 10 * CpmUnit)) \in Int
    <2>1. 400 * damage * hp \in Nat
        OBVIOUS
    <2>2. 2 * hp + 10 * CpmUnit \in Nat \ {0}
        BY <1>11
    <2>3. ticks * (2 * hp + 10 * CpmUnit) \in Nat \ {0}
        BY <2>2
    <2>4. QED
        BY <2>1, <2>3, RoundIsInt
<1>15. QED
    BY <1>10, <1>12, <1>13, <1>14

\* What a ranking says of a species, and the row that is made of it.
RankedRows(level, target) ==
    [s \in AbleSpecies |-> [species |-> s, result |-> BestMoveset(s, level, target)]]

AttackerRows(level, target) ==
    [s \in AbleSpecies |->
        [species |-> s, level |-> level, target |-> target,
         dps |-> BestMoveset(s, level, target).dps, tdo |-> BestMoveset(s, level, target).tdo,
         edps |-> BestMoveset(s, level, target).edps]]

LEMMA RankByTypeIs ==
    ASSUME NEW level, NEW target
    PROVE  RankByType(target, level) =
               LET able   == {i \in DOMAIN FighterOrder : HasMoveset(FighterOrder[i])}
                   listed == Select(FighterOrder, able)
                   ranked == [i \in DOMAIN listed |-> [species |-> listed[i],
                                 result |-> BestMoveset(listed[i], level, target)]]
               IN  SortWith(ranked, [i \in DOMAIN ranked |-> -ranked[i].result.dps])
    BY DEF RankByType, Picked, SortBy, Select, SortWith

LEMMA RankedLists ==
    ASSUME NEW level \in Levels, NEW target
    PROVE  Lists(RankByType(target, level), AbleSpecies, RankedRows(level, target))
<1> DEFINE able == {i \in DOMAIN FighterOrder : HasMoveset(FighterOrder[i])}
<1>1. PICK n \in Nat : DOMAIN FighterOrder = 1 .. n
    BY BattleAssumption
<1>2. able \in SUBSET (1 .. n)
    BY <1>1
<1>3. /\ \A i \in able : FighterOrder[i] \in AbleSpecies
      /\ \A s \in AbleSpecies : \E i \in able : FighterOrder[i] = s
      /\ \A i, j \in able : FighterOrder[i] = FighterOrder[j] => i = j
    BY BattleAssumption DEF AbleSpecies
<1>4. PICK listed : listed = Select(FighterOrder, able)
    OBVIOUS
<1>5. PICK ranked : ranked = [i \in DOMAIN listed |-> [species |-> listed[i],
                                  result |-> BestMoveset(listed[i], level, target)]]
    OBVIOUS
<1>6. RankByType(target, level) = SortWith(ranked, [i \in DOMAIN ranked |-> -ranked[i].result.dps])
    BY <1>4, <1>5, RankByTypeIs
<1> HIDE DEF able
<1>7. PICK order : Picks(listed, order, FighterOrder, able)
    BY <1>2, <1>4, IntervalsAreFinite, PickedIs
<1>8. PICK m \in Nat : m = Cardinality(able)
    BY <1>7 DEF Picks, Enumerates
<1>9. /\ DOMAIN listed = 1 .. m /\ \A i \in 1 .. m : listed[i] = FighterOrder[order[i]]
      /\ \A i \in 1 .. m : order[i] \in able
      /\ \A i, j \in 1 .. m : i < j => order[i] < order[j]
      /\ \A k \in able : \E i \in 1 .. m : order[i] = k
    BY <1>7, <1>8 DEF Picks, Enumerates
<1>10. PICK row : row = RankedRows(level, target)
    OBVIOUS
<1>11. \A s \in AbleSpecies : row[s] = [species |-> s, result |-> BestMoveset(s, level, target)]
    BY <1>10 DEF RankedRows
<1>12. ASSUME NEW i \in 1 .. m
       PROVE  /\ listed[i] \in AbleSpecies /\ ranked[i].species = listed[i]
              /\ ranked[i] = row[listed[i]]
    <2>1. listed[i] \in AbleSpecies
        BY <1>3, <1>9
    <2>2. ranked[i] = [species |-> listed[i], result |-> BestMoveset(listed[i], level, target)]
        BY <1>5, <1>9
    <2>3. QED
        BY <1>11, <2>1, <2>2
<1>13. ASSUME NEW i \in 1 .. m, NEW j \in 1 .. m, listed[i] = listed[j]
       PROVE  i = j
    <2>1. PICK k \in able, l \in able :
              /\ k = order[i] /\ l = order[j]
              /\ listed[i] = FighterOrder[k] /\ listed[j] = FighterOrder[l]
        BY <1>9
    <2>2. FighterOrder[k] = FighterOrder[l]
        BY <1>13, <2>1
    <2>3. k = l
        BY <1>3, <2>2
    <2>4. order[i] = order[j] /\ order[i] \in Nat
        BY <1>2, <2>1, <2>3
    <2>5. (i < j => order[i] < order[j]) /\ (j < i => order[j] < order[i])
        BY <1>9
    <2>6. ~(i < j) /\ ~(j < i)
        BY <2>4, <2>5
    <2>7. QED
        BY <2>6
<1>14. ASSUME NEW s \in AbleSpecies PROVE \E i \in 1 .. m : listed[i] = s
    <2>1. PICK k \in able : FighterOrder[k] = s
        BY <1>3
    <2>2. QED
        BY <1>9, <2>1
<1>15. DOMAIN ranked = 1 .. m
    BY <1>5, <1>9
<1>16. Lists(ranked, AbleSpecies, row)
    <2>1. \A i \in 1 .. m : ranked[i].species \in AbleSpecies /\ ranked[i] = row[ranked[i].species]
        BY <1>12
    <2>2. \A i, j \in 1 .. m : ranked[i].species = ranked[j].species => i = j
        BY <1>12, <1>13
    <2>3. \A s \in AbleSpecies : \E i \in 1 .. m : ranked[i].species = s
        BY <1>12, <1>14
    <2>4. QED
        BY <1>15, <2>1, <2>2, <2>3 DEF Lists
<1>17. PICK key : key = [i \in DOMAIN ranked |-> -ranked[i].result.dps]
    OBVIOUS
<1>18. key \in [DOMAIN ranked -> Int]
    <2>1. ASSUME NEW i \in 1 .. m PROVE -ranked[i].result.dps \in Int
        <3>1. PICK s \in AbleSpecies : ranked[i] = row[s]
            BY <1>12
        <3>2. PICK best : best = BestMoveset(s, level, target) /\ best.dps \in Int
            BY RowsAreTyped
        <3>3. row[s] = [species |-> s, result |-> best]
            BY <1>11, <3>2
        <3>4. ranked[i].result = best
            BY <3>1, <3>3
        <3>5. QED
            BY <3>2, <3>4
    <2>2. QED
        BY <1>15, <1>17, <2>1
<1>19. Lists(SortWith(ranked, key), AbleSpecies, row)
    BY <1>16, <1>18, SortedLists
<1>20. QED
    BY <1>6, <1>10, <1>17, <1>19

LEMMA BuiltLists ==
    ASSUME NEW level \in Levels, NEW target
    PROVE  Lists(BuildAttackers(RankByType(target, level), level, target), AbleSpecies,
                 AttackerRows(level, target))
<1>1. PICK ranked, before : /\ ranked = RankByType(target, level)
                            /\ before = RankedRows(level, target)
    OBVIOUS
<1>2. PICK rows, row : /\ rows = BuildAttackers(ranked, level, target)
                       /\ row = AttackerRows(level, target)
    OBVIOUS
<1>3. Lists(ranked, AbleSpecies, before)
    BY <1>1, RankedLists
<1>4. PICK D : D = DOMAIN ranked /\ D = DOMAIN rows
    BY <1>2 DEF BuildAttackers
<1>5. ASSUME NEW i \in D
      PROVE  /\ rows[i].species = ranked[i].species
             /\ rows[i].species \in AbleSpecies /\ rows[i] = row[rows[i].species]
    <2>1. PICK s \in AbleSpecies : s = ranked[i].species /\ ranked[i] = before[s]
        BY <1>3, <1>4 DEF Lists
    <2>2. ranked[i].result = BestMoveset(s, level, target)
        BY <1>1, <2>1 DEF RankedRows
    <2>3. PICK best : best = BestMoveset(s, level, target)
        OBVIOUS
    <2>4. rows[i] = [species |-> s, level |-> level, target |-> target,
                     dps |-> best.dps, tdo |-> best.tdo, edps |-> best.edps]
        BY <1>2, <1>4, <2>1, <2>2, <2>3 DEF BuildAttackers
    <2>5. row[s] = [species |-> s, level |-> level, target |-> target,
                    dps |-> best.dps, tdo |-> best.tdo, edps |-> best.edps]
        BY <1>2, <2>3 DEF AttackerRows
    <2>6. rows[i].species = s
        BY <2>4
    <2>7. QED
        BY <2>1, <2>4, <2>5, <2>6
<1>6. Lists(rows, AbleSpecies, row)
    <2>1. /\ \E n \in Nat : D = 1 .. n
          /\ \A i, j \in D : ranked[i].species = ranked[j].species => i = j
          /\ \A s \in AbleSpecies : \E i \in D : ranked[i].species = s
        BY <1>3, <1>4 DEF Lists
    <2>2. QED
        BY <1>4, <1>5, <2>1 DEF Lists
<1>7. QED
    BY <1>1, <1>2, <1>6

\* What the rows are sorted by.
AttKey(r, by) ==
    CASE by = "tdo"  -> -r.tdo
      [] by = "edps" -> -r.edps
      [] by = "name" -> Alphabet[r.species]
      [] OTHER       -> -r.dps

RisesBy(rows, by) ==
    \A i, j \in DOMAIN rows : i < j => AttKey(rows[i], by) <= AttKey(rows[j], by)

LEMMA KeysAreInt ==
    ASSUME NEW level \in Levels, NEW target, NEW s \in AbleSpecies, NEW by
    PROVE  AttKey(AttackerRows(level, target)[s], by) \in Int
<1>1. PICK best : /\ best = BestMoveset(s, level, target)
                  /\ best.dps \in Int /\ best.tdo \in Int /\ best.edps \in Int
    BY RowsAreTyped
<1>2. PICK r : r = AttackerRows(level, target)[s]
    OBVIOUS
<1>3. r = [species |-> s, level |-> level, target |-> target,
           dps |-> best.dps, tdo |-> best.tdo, edps |-> best.edps]
    BY <1>1, <1>2 DEF AttackerRows
<1>4. r.species = s /\ r.dps \in Int /\ r.tdo \in Int /\ r.edps \in Int
    BY <1>1, <1>3
<1>5. Alphabet[s] \in Int
    BY PagesAssumption DEF AbleSpecies
<1>6. -r.dps \in Int /\ -r.tdo \in Int /\ -r.edps \in Int
    BY <1>4
<1>7. AttKey(r, by) \in Int
    BY <1>4, <1>5, <1>6 DEF AttKey
<1>8. QED
    BY <1>2, <1>7

LEMMA SortedAttackers ==
    ASSUME NEW level \in Levels, NEW target, NEW W \in SUBSET AbleSpecies, NEW rows, NEW by,
           Lists(rows, W, AttackerRows(level, target))
    PROVE  /\ Lists(SortAttackers(rows, by), W, AttackerRows(level, target))
           /\ RisesBy(SortAttackers(rows, by), by)
<1>1. PICK key, row : /\ key = [i \in DOMAIN rows |-> AttKey(rows[i], by)]
                      /\ row = AttackerRows(level, target)
    OBVIOUS
<1>2. SortAttackers(rows, by) = SortWith(rows, [i \in DOMAIN rows |-> AttKey(rows[i], by)])
    BY DEF SortAttackers, SortBy, SortWith, AttKey
<1>3. PICK out : out = SortWith(rows, key) /\ out = SortAttackers(rows, by)
    BY <1>1, <1>2
<1>4. Lists(rows, W, row)
    BY <1>1
<1>5. \A i \in DOMAIN rows : key[i] = AttKey(rows[i], by) /\ key[i] \in Int
    <2> SUFFICES ASSUME NEW i \in DOMAIN rows
                 PROVE  key[i] = AttKey(rows[i], by) /\ key[i] \in Int
        OBVIOUS
    <2>1. PICK s \in W : rows[i] = row[s]
        BY <1>4 DEF Lists
    <2>2. AttKey(rows[i], by) \in Int
        BY <1>1, <2>1, KeysAreInt
    <2>3. QED
        BY <1>1, <2>2
<1>6. key \in [DOMAIN rows -> Int]
    BY <1>1, <1>5
<1>7. \E n \in Nat : \E order :
          /\ DOMAIN rows = 1 .. n /\ Sorted(out, order, n, rows, key)
          /\ Lists(out, W, row)
    BY <1>3, <1>4, <1>6, SortedLists
<1>8. RisesBy(out, by)
    <2>1. PICK n \in Nat : \E order : DOMAIN rows = 1 .. n /\ Sorted(out, order, n, rows, key)
        BY <1>7
    <2>2. PICK order : DOMAIN rows = 1 .. n /\ Sorted(out, order, n, rows, key)
        BY <2>1
    <2>3. /\ DOMAIN out = 1 .. n
          /\ \A i \in 1 .. n : order[i] \in DOMAIN rows /\ out[i] = rows[order[i]]
          /\ \A i, j \in 1 .. n : i < j => key[order[i]] <= key[order[j]]
        BY <2>2 DEF Sorted, Sorts
    <2>4. ASSUME NEW i \in 1 .. n, NEW j \in 1 .. n, i < j
          PROVE  AttKey(out[i], by) <= AttKey(out[j], by)
        <3>1. PICK k \in DOMAIN rows, l \in DOMAIN rows :
                  /\ k = order[i] /\ l = order[j] /\ out[i] = rows[k] /\ out[j] = rows[l]
                  /\ key[k] <= key[l]
            BY <2>3, <2>4
        <3>2. key[k] = AttKey(rows[k], by) /\ key[l] = AttKey(rows[l], by)
            BY <1>5
        <3>3. QED
            BY <3>1, <3>2
    <2>5. QED
        BY <2>3, <2>4 DEF RisesBy
<1>9. QED
    BY <1>1, <1>3, <1>7, <1>8

\* A filter leaves the order, too.
LEMMA PickedRises ==
    ASSUME NEW rows, NEW by, RisesBy(rows, by), NEW keep \in SUBSET DOMAIN rows,
           NEW out, NEW order, Picks(out, order, rows, keep)
    PROVE  RisesBy(out, by)
<1>1. PICK m : m = Cardinality(keep)
    OBVIOUS
<1>2. /\ DOMAIN out = 1 .. m /\ \A i \in 1 .. m : out[i] = rows[order[i]]
      /\ \A i \in 1 .. m : order[i] \in keep
      /\ \A i, j \in 1 .. m : i < j => order[i] < order[j]
    BY <1>1 DEF Picks, Enumerates
<1>3. ASSUME NEW i \in 1 .. m, NEW j \in 1 .. m, i < j
      PROVE  AttKey(out[i], by) <= AttKey(out[j], by)
    <2>1. PICK k \in DOMAIN rows, l \in DOMAIN rows :
              k < l /\ out[i] = rows[k] /\ out[j] = rows[l]
        BY <1>2, <1>3
    <2>2. QED
        BY <2>1 DEF RisesBy
<1>4. QED
    BY <1>2, <1>3 DEF RisesBy

\* The positions of what is searched for, and what is wanted in the end.
Found(rows, search) == {i \in DOMAIN rows : rows[i].species \in search}

Wanted(filter, search) == {s \in AbleSpecies : OfType(s, filter) /\ s \in search}

\* The attackers of a type, filtered, sorted and searched through.
LEMMA RankingLists ==
    ASSUME NEW level \in Levels, NEW target, NEW by, NEW filter, NEW search,
           NEW rows, rows = TypeAttackers(target, by, filter, level),
           NEW out, out = Select(rows, Found(rows, search)),
           NEW wanted, wanted = Wanted(filter, search)
    PROVE  Lists(out, wanted, AttackerRows(level, target)) /\ RisesBy(out, by)
<1>1. PICK row : row = AttackerRows(level, target)
    OBVIOUS
<1>2. PICK all : all = BuildAttackers(RankByType(target, level), level, target)
    OBVIOUS
<1>3. PICK typed : typed = {s \in AbleSpecies : OfType(s, filter)}
    OBVIOUS
<1>4. Lists(all, AbleSpecies, row)
    BY <1>1, <1>2, BuiltLists
<1>5. PICK of : of = {i \in DOMAIN all : OfType(all[i].species, filter)}
    OBVIOUS
<1>6. of = {i \in DOMAIN all : all[i].species \in typed}
    BY <1>3, <1>4, <1>5 DEF Lists
<1>7. PICK some : some = Select(all, of)
    OBVIOUS
<1>8. rows = SortAttackers(some, by)
    BY <1>2, <1>5, <1>7 DEF TypeAttackers, Picked, Select
<1>9. Lists(some, typed, row)
    <2>1. typed \in SUBSET AbleSpecies
        BY <1>3
    <2>2. QED
        BY <1>4, <1>6, <1>7, <2>1, PickedLists
<1>10. Lists(rows, typed, row) /\ RisesBy(rows, by)
    <2>1. typed \in SUBSET AbleSpecies
        BY <1>3
    <2>2. QED
        BY <1>1, <1>8, <1>9, <2>1, SortedAttackers
<1>11. PICK keep : keep = {i \in DOMAIN rows : rows[i].species \in search}
    OBVIOUS
<1>12. keep = {i \in DOMAIN rows : rows[i].species \in wanted}
    BY <1>3, <1>10, <1>11 DEF Lists, Wanted
<1>13. out = Select(rows, keep)
    BY <1>11 DEF Found
<1>14. wanted \in SUBSET typed
    BY <1>3 DEF Wanted
<1>15. PICK order : Picks(out, order, rows, keep) /\ Lists(out, wanted, row)
    <2>1. PICK chosen, T : chosen = wanted /\ T = typed /\ chosen \in SUBSET T
        BY <1>14
    <2>2. PICK list : list = rows
        OBVIOUS
    <2>3. Lists(list, T, row) /\ keep = {i \in DOMAIN list : list[i].species \in chosen}
        BY <1>10, <1>12, <2>1, <2>2
    <2>4. \E order : /\ Picks(Select(list, keep), order, list, keep)
                    /\ Lists(Select(list, keep), chosen, row)
        BY ONLY <2>1, <2>3, PickedLists
    <2>5. QED
        BY <1>13, <2>1, <2>2, <2>4
<1>16. RisesBy(out, by)
    <2>1. keep \in SUBSET DOMAIN rows
        BY <1>11
    <2>2. QED
        BY <1>10, <1>15, <2>1, PickedRises
<1>17. QED
    BY <1>1, <1>15, <1>16

\* A level that is shown and was not asked for was refused, and said to be.
LEMMA LevelIsAsked ==
    ASSUME NEW raw
    PROVE  /\ ParseLevel(raw).level \in Levels
           /\ ParseLevel(raw).invalid <=> (raw # Blank /\ raw # ParseLevel(raw).level)
<1>1. 160 \in Levels /\ Blank \notin Levels /\ Junk \notin Levels /\ Blank # Junk
    BY PagesAssumption DEF DefaultLevel
<1>2. 160 \in SupportedLevels
    BY <1>1 DEF SupportedLevels
<1>3. CASE raw = Blank
    <2>1. ParseLevel(raw) = [level |-> 160, invalid |-> FALSE]
        BY <1>1, <1>3 DEF ParseLevel, DefaultLevel
    <2>2. QED
        BY <1>1, <1>3, <2>1
<1>4. CASE raw # Blank /\ raw \in SupportedLevels
    <2>1. raw # Junk /\ raw \in Levels
        BY <1>1, <1>4 DEF SupportedLevels
    <2>2. ParseLevel(raw) = [level |-> raw, invalid |-> FALSE]
        BY <1>4, <2>1 DEF ParseLevel
    <2>3. QED
        BY <2>1, <2>2
<1>5. CASE raw # Blank /\ raw \notin SupportedLevels
    <2>1. ParseLevel(raw) = [level |-> 160, invalid |-> TRUE]
        BY <1>5 DEF ParseLevel, DefaultLevel
    <2>2. QED
        BY <1>1, <1>2, <1>5, <2>1
<1>6. QED
    BY <1>3, <1>4, <1>5

\* Only the pages of attackers show a ranking of them.
LEMMA OnlyPagesRank ==
    ASSUME CalculatorsInv, page.result.kind = "ranking"
    PROVE  \E filter : page.result = RankingOf(page.form, filter)
<1>1. page.of \in DOMAIN DpsForms
    <2> SUFFICES ASSUME page.of \notin DOMAIN DpsForms PROVE FALSE
        OBVIOUS
    <2>1. page.result = Answer(page.of, page.form, release.rank)
        BY DEF CalculatorsInv, PageSound
    <2>2. CASE page.form = NoForm
        BY <2>1, <2>2 DEF Answer, NoResult
    <2>3. CASE page.form # NoForm /\ page.of = "pvp"
        BY <2>1, <2>3 DEF Answer
    <2>4. CASE page.form # NoForm /\ page.of # "pvp"
        <3>1. page.of \in Calculator
            BY <2>4 DEF CalculatorsInv, FormsSent
        <3>2. page.result = Computed(page.of, page.form)
            BY <2>1, <2>4 DEF Answer
        <3>3. page.of # "ranking"
            BY <3>1, CalculatorsAssumption DEF Calculator
        <3>4. QED
            BY <2>4, <3>1, <3>2, <3>3, KindOfComputed
    <2>5. QED
        BY <2>2, <2>3, <2>4
<1>2. PICK p, f : p = page.of /\ f = page.form
    OBVIOUS
<1>3. p \in {"browser", "by type", "moves", "compare"}
    BY <1>1, <1>2, CalculatorsAssumption
<1>4. Browsed(p, f).kind = "ranking" /\ page.result = Browsed(p, f)
    BY <1>1, <1>2 DEF CalculatorsInv, PageSound
<1>5. MoveBrowser(f).kind = "moves" /\ Compare(f).kind = "comparison"
    BY DEF MoveBrowser, Compare
<1>6. p = "browser" \/ p = "by type"
    BY <1>3, <1>4, <1>5 DEF Browsed
<1>7. CASE p = "browser"
    <2>1. DpsBrowser(f).kind = "ranking" /\ page.result = DpsBrowser(f)
        BY <1>4, <1>7 DEF Browsed
    <2>2. page.result = RankingOf(f, Blank)
        BY <2>1 DEF DpsBrowser
    <2>3. QED
        BY <1>2, <2>2
<1>8. CASE p = "by type"
    <2>1. DpsByType(f).kind = "ranking" /\ page.result = DpsByType(f)
        BY <1>4, <1>8 DEF Browsed
    <2>2. page.result = RankingOf(f, f.filter)
        BY <2>1 DEF DpsByType
    <2>3. QED
        BY <1>2, <2>2
<1>9. QED
    BY <1>6, <1>7, <1>8

\* Which of two rows may come first.
MayPrecede(r, s, by) ==
    CASE by = "name" -> Alphabet[r.species] < Alphabet[s.species]
      [] by = "tdo"  -> r.tdo >= s.tdo
      [] by = "edps" -> r.edps >= s.edps
      [] OTHER       -> r.dps >= s.dps

LEMMA RowIs ==
    ASSUME NEW level \in Levels, NEW target, NEW s \in AbleSpecies,
           NEW r, r = AttackerRows(level, target)[s]
    PROVE  /\ r.species = s /\ r.level = level /\ r.dps = BestMoveset(s, level, target).dps
           /\ r.dps \in Int /\ r.tdo \in Int /\ r.edps \in Int
<1>1. PICK best : /\ best = BestMoveset(s, level, target)
                  /\ best.dps \in Int /\ best.tdo \in Int /\ best.edps \in Int
    BY RowsAreTyped
<1>2. r = [species |-> s, level |-> level, target |-> target,
           dps |-> best.dps, tdo |-> best.tdo, edps |-> best.edps]
    BY <1>1 DEF AttackerRows
<1>3. QED
    BY <1>1, <1>2

\* Where the keys rise the rows are in the order that was asked for; no two species have one
\* name.
LEMMA RisingIsOrder ==
    ASSUME NEW level \in Levels, NEW target, NEW W \in SUBSET AbleSpecies, NEW by,
           NEW rows, Lists(rows, W, AttackerRows(level, target)), RisesBy(rows, by),
           NEW i \in DOMAIN rows, NEW j \in DOMAIN rows, j < i
    PROVE  MayPrecede(rows[j], rows[i], by)
<1>1. PICK r, s : r = rows[j] /\ s = rows[i]
    OBVIOUS
<1>2. AttKey(r, by) <= AttKey(s, by)
    BY <1>1 DEF RisesBy
<1>3. r.species \in W /\ s.species \in W /\ r.species # s.species
    <2>1. \A k, l \in DOMAIN rows : rows[k].species = rows[l].species => k = l
        BY DEF Lists
    <2>2. r.species \in W /\ s.species \in W
        BY <1>1 DEF Lists
    <2>3. ASSUME r.species = s.species PROVE FALSE
        <3>1. j = i
            BY <1>1, <2>1, <2>3
        <3>2. \E n \in Nat : DOMAIN rows = 1 .. n
            BY DEF Lists
        <3>3. i \in Int
            BY <3>2
        <3>4. QED
            BY <3>1, <3>3
    <2>4. QED
        BY <2>2, <2>3
<1>4. /\ r.dps \in Int /\ r.tdo \in Int /\ r.edps \in Int
      /\ s.dps \in Int /\ s.tdo \in Int /\ s.edps \in Int
    <2>1. r = AttackerRows(level, target)[r.species] /\ s = AttackerRows(level, target)[s.species]
        BY <1>1 DEF Lists
    <2>2. r.species \in AbleSpecies /\ s.species \in AbleSpecies
        BY <1>3
    <2>3. QED
        BY <2>1, <2>2, RowIs
<1>5. PICK a \in Nat, b \in Nat : a = Alphabet[r.species] /\ b = Alphabet[s.species] /\ a # b
    BY <1>3, PagesAssumption DEF AbleSpecies
<1>6. MayPrecede(r, s, by)
    <2>1. CASE by = "name"
        <3>1. a < b
            BY <1>2, <1>5, <2>1 DEF AttKey
        <3>2. QED
            BY <1>5, <2>1, <3>1, Zenon DEF MayPrecede
    <2>2. CASE by = "tdo"
        BY <1>2, <1>4, <2>2 DEF AttKey, MayPrecede
    <2>3. CASE by = "edps"
        BY <1>2, <1>4, <2>3 DEF AttKey, MayPrecede
    <2>4. CASE by \notin {"name", "tdo", "edps"}
        BY <1>2, <1>4, <2>4 DEF AttKey, MayPrecede
    <2>5. QED
        BY <2>1, <2>2, <2>3, <2>4
<1>7. QED
    BY <1>1, <1>6

\* A list of the wanted has as many rows as there are wanted.
LEMMA ListsAreComplete ==
    ASSUME NEW W, NEW row, NEW rows, Lists(rows, W, row), NEW n \in Nat, DOMAIN rows = 1 .. n
    PROVE  {rows[i].species : i \in DOMAIN rows} = W /\ n = Cardinality(W)
<1>1. PICK D, name : D = 1 .. n /\ name = [i \in D |-> rows[i].species]
    OBVIOUS
<1>2. /\ \A i \in D : name[i] \in W
      /\ \A i, j \in D : name[i] = name[j] => i = j
      /\ \A s \in W : \E i \in D : name[i] = s
    BY <1>1 DEF Lists
<1>3. IsFiniteSet(D) /\ Cardinality(D) = n
    BY <1>1, FS_Interval
<1>4. Cardinality(W) = Cardinality(D)
    BY <1>2, <1>3, OneToOne
<1>5. {rows[i].species : i \in DOMAIN rows} = W
    BY DEF Lists
<1>6. QED
    BY <1>3, <1>4, <1>5

\* What the property says of a ranking, by the rows of it.
RightRow(rows, i, level, type, by) ==
    /\ rows[i].level = level
    /\ rows[i].dps = BestMoveset(rows[i].species, level, type).dps
    /\ \A j \in 1 .. i - 1 : MayPrecede(rows[j], rows[i], by)

LEMMA RankingOfIs ==
    ASSUME NEW f, NEW filter, NEW level, level = ParseLevel(f.level).level,
           NEW rows, rows = TypeAttackers(f.type, f.sort, filter, level),
           NEW out, out = Select(rows, Found(rows, f.search))
    PROVE  /\ RankingOf(f, filter).type = f.type /\ RankingOf(f, filter).sort = f.sort
           /\ RankingOf(f, filter).level = level /\ RankingOf(f, filter).filter = filter
           /\ RankingOf(f, filter).invalid = ParseLevel(f.level).invalid
           /\ RankingOf(f, filter).attackers = out
<1>1. RankingOf(f, filter) =
          [kind |-> "ranking", type |-> f.type, level |-> ParseLevel(f.level).level,
           invalid |-> ParseLevel(f.level).invalid,
           sort |-> f.sort, filter |-> filter, counts |-> TypeStats,
           attackers |->
               LET all == TypeAttackers(f.type, f.sort, filter, ParseLevel(f.level).level)
               IN  Select(all, Found(all, f.search)),
           listed |-> ListedEffectiveness(f.type), moves |-> MoveEffectiveness(f.type)]
    BY DEF RankingOf, Picked, Select, Found
<1>2. PICK shown : shown =
          LET all == TypeAttackers(f.type, f.sort, filter, ParseLevel(f.level).level)
          IN  Select(all, Found(all, f.search))
    OBVIOUS
<1>3. shown = out
    BY <1>2, Zenon
<1>4. QED
    BY <1>1, <1>2, <1>3

\* The attackers shown are all there are of the type, at the level shown, in the order asked
\* for: whatever the species, their moves and the tables, what is filtered, sorted and searched
\* for.  A list that is sorted or filtered keeps every row it should, once.
THEOREM AttackersHold == Spec => []AttackersAreRight
<1>1. ASSUME CalculatorsInv PROVE AttackersAreRight
    <2> SUFFICES ASSUME page.result.kind = "ranking" PROVE AttackersAreRight
        BY DEF AttackersAreRight
    <2>1. PICK f, filter : f = page.form /\ page.result = RankingOf(f, filter)
        BY <1>1, OnlyPagesRank
    <2>2. PICK level, invalid : level = ParseLevel(f.level).level
                                /\ invalid = ParseLevel(f.level).invalid
        OBVIOUS
    <2>3. level \in Levels /\ (invalid <=> (f.level # Blank /\ f.level # level))
        BY <2>2, LevelIsAsked
    <2>4. PICK rows : rows = TypeAttackers(f.type, f.sort, filter, level)
        OBVIOUS
    <2>5. PICK out : out = Select(rows, Found(rows, f.search))
        OBVIOUS
    <2>6. /\ page.result.type = f.type /\ page.result.level = level
          /\ page.result.invalid = invalid /\ page.result.sort = f.sort
          /\ page.result.filter = filter /\ page.result.attackers = out
        BY <2>1, <2>2, <2>4, <2>5, RankingOfIs
    <2>7. PICK wanted : wanted = {s \in AbleSpecies : OfType(s, filter) /\ s \in f.search}
        OBVIOUS
    <2>8. PICK type, by, search : type = f.type /\ by = f.sort /\ search = f.search
        OBVIOUS
    <2>9. Lists(out, wanted, AttackerRows(level, type)) /\ RisesBy(out, by)
        <3>1. /\ rows = TypeAttackers(type, by, filter, level)
              /\ out = Select(rows, Found(rows, search)) /\ wanted = Wanted(filter, search)
            BY <2>4, <2>5, <2>7, <2>8 DEF Wanted
        <3>2. QED
            BY ONLY <2>3, <3>1, RankingLists
    <2>10. PICK n \in Nat : DOMAIN out = 1 .. n
        BY <2>9 DEF Lists
    <2>11. {out[i].species : i \in DOMAIN out} = wanted /\ n = Cardinality(wanted)
        BY <2>9, <2>10, ListsAreComplete
    <2>12. Len(out) = n
        <3>1. PICK order : out = [i \in DOMAIN order |-> rows[order[i]]]
            BY <2>5 DEF Select
        <3>2. out = [i \in 1 .. n |-> rows[order[i]]]
            BY <2>10, <3>1
        <3>3. QED
            BY <3>2
    <2>13. ASSUME NEW i \in 1 .. n PROVE RightRow(out, i, level, type, by)
        <3>1. wanted \in SUBSET AbleSpecies
            BY <2>7
        <3>2. PICK s \in AbleSpecies : s = out[i].species /\ out[i] = AttackerRows(level, type)[s]
            BY <2>9, <2>10, <3>1 DEF Lists
        <3>3. out[i].level = level /\ out[i].dps = BestMoveset(s, level, type).dps
            BY <2>3, <3>2, RowIs
        <3>4. ASSUME NEW j \in 1 .. i - 1 PROVE MayPrecede(out[j], out[i], by)
            <4>1. j \in DOMAIN out /\ i \in DOMAIN out /\ j < i
                BY <2>10
            <4>2. QED
                BY <2>3, <2>9, <3>1, <4>1, RisingIsOrder
        <3>5. QED
            BY <3>2, <3>3, <3>4 DEF RightRow
    <2>14. wanted = {s \in {s \in f.search \cap DOMAIN Fighters : HasMoveset(s)} :
                        filter = Blank \/ filter \in {Fighters[s].type1, Fighters[s].type2}}
        BY <2>7 DEF AbleSpecies, OfType
    <2>15. \A i \in DOMAIN out :
              /\ out[i].level = level
              /\ out[i].dps = BestMoveset(out[i].species, level, type).dps
              /\ \A j \in 1 .. i - 1 :
                     CASE by = "name" -> Alphabet[out[j].species] < Alphabet[out[i].species]
                       [] by = "tdo"  -> out[j].tdo >= out[i].tdo
                       [] by = "edps" -> out[j].edps >= out[i].edps
                       [] OTHER       -> out[j].dps >= out[i].dps
        BY <2>10, <2>13 DEF RightRow, MayPrecede
    <2> DEFINE Right(r, g, W) ==
            /\ {r.attackers[i].species : i \in DOMAIN r.attackers} = W
            /\ Len(r.attackers) = Cardinality(W)
            /\ r.invalid <=> (g.level # Blank /\ g.level # r.level)
            /\ \A i \in DOMAIN r.attackers :
                  /\ r.attackers[i].level = r.level
                  /\ r.attackers[i].dps = BestMoveset(r.attackers[i].species, r.level, r.type).dps
                  /\ \A j \in 1 .. i - 1 :
                      CASE r.sort = "name" ->
                               Alphabet[r.attackers[j].species] < Alphabet[r.attackers[i].species]
                        [] r.sort = "tdo"  -> r.attackers[j].tdo >= r.attackers[i].tdo
                        [] r.sort = "edps" -> r.attackers[j].edps >= r.attackers[i].edps
                        [] OTHER           -> r.attackers[j].dps >= r.attackers[i].dps
    <2>16. Right(page.result, f, wanted)
        BY <2>3, <2>6, <2>8, <2>11, <2>12, <2>15
    <2>17. QED
        BY <2>1, <2>6, <2>14, <2>16, Zenon DEF AttackersAreRight
<1>2. QED
    BY <1>1, InvHolds, PTL

-----------------------------------------------------------------------------
(* Sums over a finite set *)

\* A set of finite sets that is not empty has a member of which it has no smaller part.
LEMMA SmallestIsThere ==
    ASSUME NEW U, IsFiniteSet(U), NEW C \in SUBSET SUBSET U, C # {}
    PROVE  \E S \in C : \A T \in C : T \subseteq S => T = S
<1>1. \A S \in C : IsFiniteSet(S) /\ Cardinality(S) \in Nat
    BY FS_Subset, FS_CardinalityType
<1> DEFINE sizes == {Cardinality(S) : S \in C}
<1>2. sizes \in SUBSET Nat /\ sizes # {}
    BY <1>1
<1>3. PICK n \in sizes : \A m \in sizes : n <= m
    <2> HIDE DEF sizes
    <2>1. QED
        BY <1>2, MinIsThere
<1>4. PICK S \in C : n = Cardinality(S)
    BY <1>3
<1>5. ASSUME NEW T \in C, T \subseteq S PROVE T = S
    <2>1. Cardinality(T) <= Cardinality(S) /\ (Cardinality(S) = Cardinality(T) => S = T)
        BY <1>1, <1>5, FS_Subset
    <2>2. Cardinality(S) <= Cardinality(T)
        BY <1>3, <1>4, <1>5
    <2>3. QED
        BY <1>1, <1>5, <2>1, <2>2
<1>6. QED
    BY <1>5

\* The equation that defines the sum of f over the parts of S.
Chosen(s) == CHOOSE x \in s : TRUE

Solves(g, f, S) ==
    g = [s \in SUBSET S |-> IF s = {} THEN 0 ELSE f[Chosen(s)] + g[s \ {Chosen(s)}]]

Solution(f, S) == CHOOSE g : Solves(g, f, S)

LEMMA SumIsSolution ==
    ASSUME NEW f, NEW S
    PROVE  SumFunctionOnSet(f, S) = Solution(f, S)[S]
BY DEF SumFunctionOnSet, FoldFunctionOnSet, MapThenFoldSet, Solution, Solves, Chosen

LEMMA ChosenIsThere ==
    ASSUME NEW s, s # {}
    PROVE  Chosen(s) \in s /\ s \ {Chosen(s)} \subseteq s /\ s \ {Chosen(s)} # s
BY DEF Chosen

LEMMA SolvesIs ==
    ASSUME NEW g, NEW f, NEW S, Solves(g, f, S), NEW s \in SUBSET S
    PROVE  /\ s = {} => g[s] = 0
           /\ s # {} => g[s] = f[Chosen(s)] + g[s \ {Chosen(s)}]
BY DEF Solves

\* Where two such functions are both defined they are equal.
LEMMA SolutionsAgree ==
    ASSUME NEW f, NEW S, IsFiniteSet(S), NEW T, NEW g, NEW h,
           Solves(g, f, S), Solves(h, f, T), NEW s \in SUBSET S, s \in SUBSET T
    PROVE  g[s] = h[s]
<1> DEFINE C == {V \in SUBSET S : V \subseteq T /\ g[V] # h[V]}
<1> SUFFICES ASSUME C # {} PROVE FALSE
    OBVIOUS
<1>1. PICK V \in C : \A W \in C : W \subseteq V => W = V
    <2>1. C \in SUBSET SUBSET S
        OBVIOUS
    <2> HIDE DEF C
    <2>2. QED
        BY <2>1, SmallestIsThere
<1>2. V \in SUBSET S /\ V \in SUBSET T /\ g[V] # h[V]
    OBVIOUS
<1>3. V # {}
    BY <1>2, SolvesIs
<1>4. PICK W : W = V \ {Chosen(V)}
    OBVIOUS
<1>5. W \subseteq V /\ W # V
    BY <1>3, <1>4, ChosenIsThere
<1>6. g[W] = h[W]
    BY <1>1, <1>2, <1>5
<1>7. g[V] = f[Chosen(V)] + g[W] /\ h[V] = f[Chosen(V)] + h[W]
    BY <1>2, <1>3, <1>4, SolvesIs
<1>8. QED
    BY <1>2, <1>6, <1>7

\* The sum of each part of S, if the smaller parts have one.
Sums(f, S) ==
    [s \in SUBSET S |->
        IF s = {} THEN 0
        ELSE f[Chosen(s)] + Solution(f, s \ {Chosen(s)})[s \ {Chosen(s)}]]

LEMMA SolutionIsThere ==
    ASSUME NEW f, NEW U, IsFiniteSet(U)
    PROVE  Solves(Solution(f, U), f, U)
<1> DEFINE C == {S \in SUBSET U : ~Solves(Solution(f, S), f, S)}
<1> SUFFICES ASSUME C # {} PROVE FALSE
    OBVIOUS
<1>1. PICK S \in C : \A T \in C : T \subseteq S => T = S
    <2>1. C \in SUBSET SUBSET U
        OBVIOUS
    <2> HIDE DEF C
    <2>2. QED
        BY <2>1, SmallestIsThere
<1>2. ASSUME NEW T \in SUBSET S, T # S PROVE Solves(Solution(f, T), f, T) /\ IsFiniteSet(T)
    BY <1>1, <1>2, FS_Subset
<1>3. PICK g : g = Sums(f, S)
    OBVIOUS
<1>4. \A s \in SUBSET S : /\ s = {} => g[s] = 0
                          /\ s # {} => g[s] = f[Chosen(s)] +
                                           Solution(f, s \ {Chosen(s)})[s \ {Chosen(s)}]
    BY <1>3 DEF Sums
<1>5. ASSUME NEW T \in SUBSET S, T # S PROVE g[T] = Solution(f, T)[T]
    <2>1. Solves(Solution(f, T), f, T) /\ IsFiniteSet(T)
        BY <1>2, <1>5
    <2>2. CASE T = {}
        BY <1>4, <2>1, <2>2, SolvesIs
    <2>3. CASE T # {}
        <3>1. PICK W : W = T \ {Chosen(T)} /\ W \subseteq T /\ W # T
            BY <2>3, ChosenIsThere
        <3>2. g[T] = f[Chosen(T)] + Solution(f, W)[W]
            BY <1>4, <2>3, <3>1
        <3>3. Solution(f, T)[T] = f[Chosen(T)] + Solution(f, T)[W]
            BY <2>1, <2>3, <3>1, SolvesIs
        <3>4. Solves(Solution(f, W), f, W) /\ IsFiniteSet(W)
            BY <1>2, <1>5, <3>1
        <3>5. Solution(f, W)[W] = Solution(f, T)[W]
            BY <2>1, <3>1, <3>4, SolutionsAgree
        <3>6. QED
            BY <3>2, <3>3, <3>5
    <2>4. QED
        BY <2>2, <2>3
<1>6. Solves(g, f, S)
    <2>1. ASSUME NEW s \in SUBSET S, s # {}
          PROVE  g[s] = f[Chosen(s)] + g[s \ {Chosen(s)}]
        <3>1. PICK W : W = s \ {Chosen(s)} /\ W \subseteq s /\ W # s
            BY <2>1, ChosenIsThere
        <3>2. g[W] = Solution(f, W)[W]
            BY <1>5, <3>1
        <3>3. QED
            BY <1>4, <2>1, <3>1, <3>2
    <2>2. g = [s \in SUBSET S |-> g[s]]
        BY <1>3 DEF Sums
    <2>3. QED
        BY <1>4, <2>1, <2>2 DEF Solves
<1>7. Solves(Solution(f, S), f, S)
    BY <1>6 DEF Solution
<1>8. QED
    BY <1>1, <1>7

LEMMA SumUnfolds ==
    ASSUME NEW f, NEW S, IsFiniteSet(S)
    PROVE  /\ S = {} => SumFunctionOnSet(f, S) = 0
           /\ S # {} => SumFunctionOnSet(f, S) =
                            f[Chosen(S)] + SumFunctionOnSet(f, S \ {Chosen(S)})
<1>1. SumFunctionOnSet(f, S) = Solution(f, S)[S] /\ Solves(Solution(f, S), f, S)
    BY SumIsSolution, SolutionIsThere
<1>2. CASE S = {}
    BY <1>1, <1>2, SolvesIs
<1>3. CASE S # {}
    <2> DEFINE W == S \ {Chosen(S)}
    <2>1. W \in SUBSET S /\ IsFiniteSet(W)
        BY <1>3, FS_Subset
    <2> HIDE DEF W
    <2>2. Solution(f, S)[S] = f[Chosen(S)] + Solution(f, S)[W]
        BY <1>1, <1>3, <2>1, SolvesIs DEF W
    <2>3. SumFunctionOnSet(f, W) = Solution(f, W)[W] /\ Solves(Solution(f, W), f, W)
        BY <2>1, SumIsSolution, SolutionIsThere
    <2>4. Solution(f, S)[W] = Solution(f, W)[W]
        <3>1. W \in SUBSET W
            OBVIOUS
        <3>2. QED
            BY <1>1, <2>1, <2>3, <3>1, SolutionsAgree
    <2>5. QED
        BY <1>1, <1>3, <2>1, <2>2, <2>3, <2>4 DEF W
<1>4. QED
    BY <1>2, <1>3

\* A sum is a number, and a multiple of what all its terms are multiples of.
Multiples(k) == {k * n : n \in Nat}

LEMMA SumIsMultiple ==
    ASSUME NEW k \in Nat, NEW U, IsFiniteSet(U), NEW f, \A x \in U : f[x] \in Multiples(k)
    PROVE  SumFunctionOnSet(f, U) \in Multiples(k)
<1> DEFINE C == {S \in SUBSET U : SumFunctionOnSet(f, S) \notin Multiples(k)}
<1> SUFFICES ASSUME C # {} PROVE FALSE
    OBVIOUS
<1>1. PICK S \in C : \A T \in C : T \subseteq S => T = S
    <2>1. C \in SUBSET SUBSET U
        OBVIOUS
    <2> HIDE DEF C
    <2>2. QED
        BY <2>1, SmallestIsThere
<1>2. S \in SUBSET U /\ IsFiniteSet(S) /\ SumFunctionOnSet(f, S) \notin Multiples(k)
    BY FS_Subset
<1>3. S # {}
    <2>1. 0 \in Multiples(k)
        <3>1. 0 = k * 0 /\ 0 \in Nat
            OBVIOUS
        <3>2. QED
            BY <3>1 DEF Multiples
    <2>2. QED
        BY <1>2, <2>1, SumUnfolds
<1> DEFINE x == Chosen(S)
           T == S \ {x}
<1>4. x \in S /\ T \subseteq S /\ T # S
    BY <1>3, ChosenIsThere
<1>5. SumFunctionOnSet(f, T) \in Multiples(k)
    BY <1>1, <1>2, <1>4
<1>6. SumFunctionOnSet(f, S) = f[x] + SumFunctionOnSet(f, T)
    BY <1>2, <1>3, <1>4, SumUnfolds
<1>7. f[x] \in Multiples(k)
    BY <1>2, <1>4
<1>8. PICK m \in Nat, n \in Nat : f[x] = k * m /\ SumFunctionOnSet(f, T) = k * n
    BY <1>5, <1>7 DEF Multiples
<1>9. k * m + k * n = k * (m + n) /\ m + n \in Nat
    OBVIOUS
<1>10. SumFunctionOnSet(f, S) \in Multiples(k)
    BY <1>6, <1>8, <1>9 DEF Multiples
<1>11. QED
    BY <1>2, <1>10

LEMMA SumIsNat ==
    ASSUME NEW S, IsFiniteSet(S), NEW f, \A x \in S : f[x] \in Nat
    PROVE  SumFunctionOnSet(f, S) \in Nat
<1>1. \A n \in Nat : n \in Multiples(1)
    <2> SUFFICES ASSUME NEW n \in Nat PROVE n \in Multiples(1)
        OBVIOUS
    <2>1. n = 1 * n
        OBVIOUS
    <2>2. QED
        BY <2>1 DEF Multiples
<1>2. SumFunctionOnSet(f, S) \in Multiples(1)
    BY <1>1, SumIsMultiple
<1>3. QED
    BY <1>2 DEF Multiples

\* Any member may be taken first.
LEMMA SumTakes ==
    ASSUME NEW U, IsFiniteSet(U), NEW f, \A x \in U : f[x] \in Nat, NEW y \in U
    PROVE  SumFunctionOnSet(f, U) = f[y] + SumFunctionOnSet(f, U \ {y})
<1> DEFINE C == {S \in SUBSET U : \E x \in S :
                    SumFunctionOnSet(f, S) # f[x] + SumFunctionOnSet(f, S \ {x})}
<1> SUFFICES ASSUME C # {} PROVE FALSE
    OBVIOUS
<1>1. PICK S \in C : \A T \in C : T \subseteq S => T = S
    <2>1. C \in SUBSET SUBSET U
        OBVIOUS
    <2> HIDE DEF C
    <2>2. QED
        BY <2>1, SmallestIsThere
<1>2. PICK x \in S : SumFunctionOnSet(f, S) # f[x] + SumFunctionOnSet(f, S \ {x})
    OBVIOUS
<1>3. S \in SUBSET U /\ IsFiniteSet(S)
    BY FS_Subset
<1> DEFINE c == Chosen(S)
           T == S \ {c}
           R == S \ {x}
           both == T \ {x}
<1>4. c \in S /\ T \subseteq S /\ T # S
    BY <1>2, ChosenIsThere
<1>5. SumFunctionOnSet(f, S) = f[c] + SumFunctionOnSet(f, T)
    BY <1>2, <1>3, <1>4, SumUnfolds
<1>6. c # x
    BY <1>2, <1>4, <1>5
<1>7. both = R \ {c}
    OBVIOUS
<1>8. SumFunctionOnSet(f, T) = f[x] + SumFunctionOnSet(f, both)
    <2>1. T \in SUBSET U /\ T \notin C /\ x \in T
        BY <1>1, <1>2, <1>3, <1>4, <1>6
    <2>2. QED
        BY <1>7, <2>1
<1>9. SumFunctionOnSet(f, R) = f[c] + SumFunctionOnSet(f, both)
    <2>1. R \in SUBSET U /\ R \subseteq S /\ R # S /\ c \in R
        BY <1>2, <1>3, <1>4, <1>6, <1>7
    <2>2. R \notin C
        BY <1>1, <2>1
    <2>3. QED
        BY <1>7, <2>1, <2>2
<1>10. f[c] \in Nat /\ f[x] \in Nat /\ SumFunctionOnSet(f, both) \in Nat
    <2>1. IsFiniteSet(both) /\ both \subseteq U
        BY <1>3, <1>4, <1>7, FS_Subset
    <2>2. SumFunctionOnSet(f, both) \in Nat
        BY <2>1, SumIsNat
    <2>3. QED
        BY <1>2, <1>3, <1>4, <2>2
<1>11. QED
    BY <1>2, <1>5, <1>7, <1>8, <1>9, <1>10

\* The sum over two sets apart is the sum of their sums.
LEMMA SumAdds ==
    ASSUME NEW A, NEW B, IsFiniteSet(A), IsFiniteSet(B), A \cap B = {},
           NEW f, \A x \in A \cup B : f[x] \in Nat
    PROVE  SumFunctionOnSet(f, A \cup B) = SumFunctionOnSet(f, A) + SumFunctionOnSet(f, B)
<1> DEFINE C == {S \in SUBSET A : SumFunctionOnSet(f, S \cup B) #
                                      SumFunctionOnSet(f, S) + SumFunctionOnSet(f, B)}
<1> SUFFICES ASSUME C # {} PROVE FALSE
    OBVIOUS
<1>1. PICK S \in C : \A T \in C : T \subseteq S => T = S
    <2>1. C \in SUBSET SUBSET A
        OBVIOUS
    <2> HIDE DEF C
    <2>2. QED
        BY <2>1, SmallestIsThere
<1>2. /\ S \in SUBSET A /\ IsFiniteSet(S)
      /\ SumFunctionOnSet(f, S \cup B) # SumFunctionOnSet(f, S) + SumFunctionOnSet(f, B)
    BY FS_Subset
<1>3. SumFunctionOnSet(f, B) \in Nat
    BY SumIsNat
<1>4. S # {}
    <2> SUFFICES ASSUME S = {} PROVE FALSE
        OBVIOUS
    <2>1. SumFunctionOnSet(f, S) = 0 /\ S \cup B = B
        BY <1>2, SumUnfolds
    <2>2. QED
        BY <1>2, <1>3, <2>1
<1>5. PICK x \in S : S \ {x} # S
    BY <1>4
<1> DEFINE T == S \ {x}
<1>6. SumFunctionOnSet(f, T \cup B) = SumFunctionOnSet(f, T) + SumFunctionOnSet(f, B)
    BY <1>1, <1>2, <1>5
<1>7. SumFunctionOnSet(f, S) = f[x] + SumFunctionOnSet(f, T)
    BY <1>2, <1>5, SumTakes
<1>8. SumFunctionOnSet(f, S \cup B) = f[x] + SumFunctionOnSet(f, T \cup B)
    <2>1. PICK both : both = S \cup B
        OBVIOUS
    <2>2. IsFiniteSet(both) /\ x \in both /\ \A y \in both : f[y] \in Nat
        BY <1>2, <1>5, <2>1, FS_Union
    <2>3. both \ {x} = T \cup B
        BY <1>2, <1>5, <2>1
    <2>4. SumFunctionOnSet(f, both) = f[x] + SumFunctionOnSet(f, both \ {x})
        BY <2>2, SumTakes
    <2>5. QED
        BY <2>1, <2>3, <2>4
<1>9. f[x] \in Nat /\ SumFunctionOnSet(f, T) \in Nat
    <2>1. IsFiniteSet(T) /\ \A y \in T : f[y] \in Nat
        BY <1>2, <1>5, FS_Subset
    <2>2. QED
        BY <1>2, <1>5, <2>1, SumIsNat
<1>10. QED
    BY <1>2, <1>3, <1>6, <1>7, <1>8, <1>9

-----------------------------------------------------------------------------
(* The prices *)

\* Stardust is counted in hundreds.
LEMMA TiersAreHundreds ==
    ASSUME NEW t \in 1 .. 30 PROVE DustTiers[t] \in Multiples(100)
<1>1. PICK tiers : tiers = DustTiers
    OBVIOUS
<1>2. DustTiers[t] \in Nat /\ DustTiers[t] % 100 = 0
    BY DEF DustTiers
<1>3. PICK d \in Nat : d = DustTiers[t] /\ d % 100 = 0
    BY <1>2
<1>4. d \div 100 \in Nat /\ d = 100 * (d \div 100)
    BY <1>3
<1>5. QED
    BY <1>3, <1>4 DEF Multiples

LEMMA TierCounts ==
    ASSUME NEW t
    PROVE  CandyTier(t) \in Nat /\ XlTier(t) \in Nat
<1>1. IsFiniteSet({5, 10, 15, 26, 29}) /\ IsFiniteSet({23, 26, 29})
    <2>1. {5, 10, 15, 26, 29} \in SUBSET (0 .. 29) /\ {23, 26, 29} \in SUBSET (0 .. 29)
        OBVIOUS
    <2>2. IsFiniteSet(0 .. 29)
        <3>1. 0 \in Int /\ 29 \in Int
            OBVIOUS
        <3>2. QED
            BY <3>1, FS_Interval
    <2>3. QED
        BY <2>1, <2>2, FS_Subset
<1>2. \A S : IsFiniteSet(S) => Cardinality(S) \in Nat
    BY FS_CardinalityType
<1>3. Cardinality({s \in {5, 10, 15, 26, 29} : t >= s}) \in Nat
    <2>1. {s \in {5, 10, 15, 26, 29} : t >= s} \in SUBSET {5, 10, 15, 26, 29}
        OBVIOUS
    <2>2. IsFiniteSet({s \in {5, 10, 15, 26, 29} : t >= s})
        BY <1>1, <2>1, FS_Subset
    <2>3. QED
        BY <1>2, <2>2
<1>4. Cardinality({s \in {23, 26, 29} : t >= s}) \in Nat
    <2>1. {s \in {23, 26, 29} : t >= s} \in SUBSET {23, 26, 29}
        OBVIOUS
    <2>2. IsFiniteSet({s \in {23, 26, 29} : t >= s})
        BY <1>1, <2>1, FS_Subset
    <2>3. QED
        BY <1>2, <2>2
<1>5. QED
    BY <1>3, <1>4 DEF CandyTier, XlTier

LEMMA PricesAre ==
    ASSUME NEW i \in Nat
    PROVE  DustOf[i] \in Multiples(100) /\ CandyOf[i] \in Nat /\ XlOf[i] \in Nat
<1>1. PICK tier \in Nat : tier = i \div 4
    OBVIOUS
<1>2. Len(DustTiers) = 30
    BY DEF DustTiers
<1>3. PICK cost : cost = CostForPowerUp(i)
    OBVIOUS
<1>4. cost.dust \in Multiples(100) /\ cost.candy \in Nat /\ cost.xl \in Nat
    <2>1. CASE tier >= 30
        <3>1. cost = [dust |-> 30000, candy |-> 6, xl |-> 3]
            BY <1>1, <1>2, <1>3, <2>1 DEF CostForPowerUp, PowerUpsPerTier
        <3>2. 30000 = 100 * 300 /\ 300 \in Nat
            OBVIOUS
        <3>3. 30000 \in Multiples(100)
            BY <3>2 DEF Multiples
        <3>4. QED
            BY <3>1, <3>3
    <2>2. CASE ~(tier >= 30)
        <3>1. cost = [dust |-> DustTiers[tier + 1], candy |-> CandyTier(tier), xl |-> XlTier(tier)]
            BY <1>1, <1>2, <1>3, <2>2 DEF CostForPowerUp, PowerUpsPerTier
        <3>2. tier + 1 \in 1 .. 30
            BY <2>2
        <3>3. QED
            BY <3>1, <3>2, TiersAreHundreds, TierCounts
    <2>3. QED
        BY <2>1, <2>2
<1>5. QED
    BY <1>3, <1>4 DEF DustOf, CandyOf, XlOf

LEMMA HalvesRise ==
    ASSUME NEW m \in Nat, NEW n \in Nat, m <= n
    PROVE  Round(m, 2) \in Nat /\ Round(n, 2) \in Nat /\ Round(m, 2) <= Round(n, 2)
<1>1. ASSUME NEW k \in Nat
      PROVE  Round(k, 2) \in Nat /\ k \div 2 <= Round(k, 2) /\ Round(k, 2) <= (k \div 2) + 1
    BY DEF Round
<1>2. CASE m \div 2 = n \div 2
    BY <1>2 DEF Round
<1>3. CASE (m \div 2) + 1 <= n \div 2
    BY <1>1, <1>3
<1>4. m \div 2 <= n \div 2
    OBVIOUS
<1>5. m \div 2 \in Nat /\ n \div 2 \in Nat
    OBVIOUS
<1>6. (m \div 2 = n \div 2) \/ ((m \div 2) + 1 <= n \div 2)
    BY <1>4, <1>5
<1>7. QED
    BY <1>1, <1>2, <1>3, <1>6

LEMMA IndicesRise ==
    ASSUME NEW from \in Nat, NEW to \in Nat, 4 <= from, from <= to
    PROVE  /\ PowerUpIndex(from) \in Nat /\ PowerUpIndex(to) \in Nat
           /\ PowerUpIndex(from) <= PowerUpIndex(to)
BY HalvesRise DEF PowerUpIndex

\* What is bought on the way.
LEMMA PowerUpsAre ==
    ASSUME NEW from \in Nat, NEW to \in Nat, 4 <= from, from <= to
    PROVE  PowerUps(from, to) \in SUBSET Nat /\ IsFiniteSet(PowerUps(from, to))
<1>1. PICK a \in Nat, b \in Nat : a = PowerUpIndex(from) /\ b = PowerUpIndex(to)
    BY IndicesRise
<1>2. PowerUps(from, to) = a .. b - 1
    BY <1>1 DEF PowerUps
<1>3. a \in Int /\ b - 1 \in Int
    OBVIOUS
<1>4. IsFiniteSet(a .. b - 1)
    BY <1>3, FS_Interval
<1>5. QED
    BY <1>2, <1>4

\* The rounding of a discount loses nothing.
LEMMA DiscountsAreExact ==
    ASSUME NEW n \in Nat
    PROVE  /\ Lucky(100 * n) = 50 * n
           /\ Shadowed(50 * n) = 60 * n /\ Shadowed(100 * n) = 120 * n
           /\ Round(9 * (100 * n), 10) = 90 * n
BY DEF Lucky, Shadowed, Round

\* What is paid for so many hundreds of stardust.
Paid(n, lucky, shadow) ==
    IF lucky THEN (IF shadow THEN 60 * n ELSE 50 * n) ELSE (IF shadow THEN 120 * n ELSE 100 * n)

Hundreds(from, to) == CHOOSE n \in Nat : SumFunctionOnSet(DustOf, PowerUps(from, to)) = 100 * n

LEMMA PriceIs ==
    ASSUME NEW from \in Nat, NEW to \in Nat, 4 <= from, from <= to, NEW lucky, NEW shadow
    PROVE  /\ Hundreds(from, to) \in Nat
           /\ SumFunctionOnSet(DustOf, PowerUps(from, to)) = 100 * Hundreds(from, to)
           /\ SumFunctionOnSet(CandyOf, PowerUps(from, to)) \in Nat
           /\ SumFunctionOnSet(XlOf, PowerUps(from, to)) \in Nat
           /\ PowerUpCost(from, to, lucky, shadow) =
                  [dust |-> Paid(Hundreds(from, to), lucky, shadow),
                   candy |-> SumFunctionOnSet(CandyOf, PowerUps(from, to)),
                   xl |-> SumFunctionOnSet(XlOf, PowerUps(from, to)),
                   powerUps |-> PowerUpIndex(to) - PowerUpIndex(from)]
<1>1. PICK bought : bought = PowerUps(from, to) /\ bought \in SUBSET Nat /\ IsFiniteSet(bought)
    BY PowerUpsAre
<1>2. SumFunctionOnSet(DustOf, bought) \in Multiples(100)
    <2>1. 100 \in Nat /\ \A x \in bought : DustOf[x] \in Multiples(100)
        BY <1>1, PricesAre
    <2>2. QED
        BY <1>1, <2>1, SumIsMultiple
<1>3. /\ SumFunctionOnSet(CandyOf, bought) \in Nat /\ SumFunctionOnSet(XlOf, bought) \in Nat
    <2>1. \A x \in bought : CandyOf[x] \in Nat /\ XlOf[x] \in Nat
        BY <1>1, PricesAre
    <2>2. QED
        BY <1>1, <2>1, SumIsNat
<1>4. \E n \in Nat : SumFunctionOnSet(DustOf, bought) = 100 * n
    BY <1>2 DEF Multiples
<1>5. Hundreds(from, to) \in Nat /\ SumFunctionOnSet(DustOf, bought) = 100 * Hundreds(from, to)
    BY <1>1, <1>4 DEF Hundreds
<1>6. PICK n \in Nat, dust \in Nat :
          n = Hundreds(from, to) /\ dust = SumFunctionOnSet(DustOf, bought) /\ dust = 100 * n
    BY <1>5
<1>7. PICK paid : paid = (IF lucky THEN Lucky(dust) ELSE dust)
    OBVIOUS
<1>8. (IF shadow THEN Shadowed(paid) ELSE paid) = Paid(n, lucky, shadow)
    BY <1>6, <1>7, DiscountsAreExact DEF Paid
<1>9. PowerUpCost(from, to, lucky, shadow) =
          [dust |-> IF shadow THEN Shadowed(paid) ELSE paid,
           candy |-> SumFunctionOnSet(CandyOf, bought), xl |-> SumFunctionOnSet(XlOf, bought),
           powerUps |-> PowerUpIndex(to) - PowerUpIndex(from)]
    BY <1>1, <1>6, <1>7 DEF PowerUpCost
<1>10. QED
    BY <1>1, <1>3, <1>5, <1>6, <1>8, <1>9

\* Two ways that meet are one, in each of the things that are paid.
LEMMA WaysJoin ==
    ASSUME NEW from \in Nat, NEW stop \in Nat, NEW to \in Nat,
           4 <= from, from <= stop, stop <= to,
           NEW f, \A i \in Nat : f[i] \in Nat
    PROVE  SumFunctionOnSet(f, PowerUps(from, to)) =
               SumFunctionOnSet(f, PowerUps(from, stop)) + SumFunctionOnSet(f, PowerUps(stop, to))
<1>1. PICK A, B : /\ A = PowerUps(from, stop) /\ B = PowerUps(stop, to)
                  /\ A \in SUBSET Nat /\ B \in SUBSET Nat /\ IsFiniteSet(A) /\ IsFiniteSet(B)
    BY PowerUpsAre
<1>2. PICK a \in Nat, s \in Nat, b \in Nat :
          /\ a = PowerUpIndex(from) /\ s = PowerUpIndex(stop) /\ b = PowerUpIndex(to)
          /\ a <= s /\ s <= b
    <2>1. 4 <= stop
        OBVIOUS
    <2>2. QED
        BY <2>1, IndicesRise
<1>3. A = a .. s - 1 /\ B = s .. b - 1 /\ PowerUps(from, to) = a .. b - 1
    BY <1>1, <1>2 DEF PowerUps
<1>4. A \cap B = {} /\ PowerUps(from, to) = A \cup B
    BY <1>2, <1>3
<1>5. SumFunctionOnSet(f, A \cup B) = SumFunctionOnSet(f, A) + SumFunctionOnSet(f, B)
    BY <1>1, <1>4, SumAdds
<1>6. QED
    BY <1>1, <1>4, <1>5

\* Every column of a bill is the sum of those of the two.
AddsUp(whole, first, second) == \A x \in DOMAIN whole : whole[x] = first[x] + second[x]

LEMMA BillsAddUp ==
    ASSUME NEW from \in Nat, NEW stop \in Nat, NEW to \in Nat,
           4 <= from, from <= stop, stop <= to, NEW lucky, NEW shadow
    PROVE  AddsUp(PowerUpCost(from, to, lucky, shadow), PowerUpCost(from, stop, lucky, shadow),
                  PowerUpCost(stop, to, lucky, shadow))
<1>1. 4 <= stop /\ from <= to
    OBVIOUS
<1>2. PICK m \in Nat, k \in Nat, n \in Nat :
          m = Hundreds(from, stop) /\ k = Hundreds(stop, to) /\ n = Hundreds(from, to)
    BY <1>1, PriceIs
<1>3. n = m + k
    <2>1. \A i \in Nat : DustOf[i] \in Nat
        BY PricesAre DEF Multiples
    <2>2. /\ SumFunctionOnSet(DustOf, PowerUps(from, stop)) = 100 * m
          /\ SumFunctionOnSet(DustOf, PowerUps(stop, to)) = 100 * k
          /\ SumFunctionOnSet(DustOf, PowerUps(from, to)) = 100 * n
        BY <1>1, <1>2, PriceIs
    <2>3. 100 * n = 100 * m + 100 * k
        BY <2>1, <2>2, WaysJoin
    <2>4. QED
        BY <2>3
<1>4. PICK c, d, e, x, y, z :
          /\ c = SumFunctionOnSet(CandyOf, PowerUps(from, stop))
          /\ d = SumFunctionOnSet(CandyOf, PowerUps(stop, to))
          /\ e = SumFunctionOnSet(CandyOf, PowerUps(from, to))
          /\ x = SumFunctionOnSet(XlOf, PowerUps(from, stop))
          /\ y = SumFunctionOnSet(XlOf, PowerUps(stop, to))
          /\ z = SumFunctionOnSet(XlOf, PowerUps(from, to))
    OBVIOUS
<1>5. e = c + d /\ z = x + y
    <2>1. \A i \in Nat : CandyOf[i] \in Nat /\ XlOf[i] \in Nat
        BY PricesAre
    <2>2. QED
        BY <1>4, <2>1, WaysJoin
<1>6. PICK a \in Nat, s \in Nat, b \in Nat :
          a = PowerUpIndex(from) /\ s = PowerUpIndex(stop) /\ b = PowerUpIndex(to)
    BY <1>1, IndicesRise
<1>7. Paid(n, lucky, shadow) = Paid(m, lucky, shadow) + Paid(k, lucky, shadow)
    BY <1>3 DEF Paid
<1>8. PICK whole, first, second :
          /\ whole = PowerUpCost(from, to, lucky, shadow)
          /\ first = PowerUpCost(from, stop, lucky, shadow)
          /\ second = PowerUpCost(stop, to, lucky, shadow)
    OBVIOUS
<1>9. /\ whole = [dust |-> Paid(n, lucky, shadow), candy |-> e, xl |-> z, powerUps |-> b - a]
      /\ first = [dust |-> Paid(m, lucky, shadow), candy |-> c, xl |-> x, powerUps |-> s - a]
      /\ second = [dust |-> Paid(k, lucky, shadow), candy |-> d, xl |-> y, powerUps |-> b - s]
    BY <1>1, <1>2, <1>4, <1>6, <1>8, PriceIs
<1>10. b - a = (s - a) + (b - s)
    OBVIOUS
<1>11. AddsUp(whole, first, second)
    BY <1>5, <1>7, <1>9, <1>10 DEF AddsUp
<1>12. QED
    BY <1>8, <1>11

LEMMA ShadowToPurified ==
    ASSUME NEW level \in Nat, 4 <= level
    PROVE  3 * ShadowComparison(level).dustShadow = 4 * ShadowComparison(level).dustPurified
<1>1. PICK n \in Nat : n = Hundreds(4, level)
    BY PriceIs
<1>2. PICK purified, shadow : /\ purified = PowerUpCost(4, level, FALSE, FALSE)
                              /\ shadow = PowerUpCost(4, level, FALSE, TRUE)
    OBVIOUS
<1>3. purified.dust = 100 * n /\ shadow.dust = 120 * n
    <2>1. 4 \in Nat /\ 4 <= 4
        OBVIOUS
    <2>2. ASSUME NEW lucky, NEW shadowed
          PROVE  PowerUpCost(4, level, lucky, shadowed).dust = Paid(n, lucky, shadowed)
        <3>1. PICK bill : bill = PowerUpCost(4, level, lucky, shadowed)
            OBVIOUS
        <3>2. bill = [dust |-> Paid(n, lucky, shadowed),
                      candy |-> SumFunctionOnSet(CandyOf, PowerUps(4, level)),
                      xl |-> SumFunctionOnSet(XlOf, PowerUps(4, level)),
                      powerUps |-> PowerUpIndex(level) - PowerUpIndex(4)]
            BY <1>1, <2>1, <3>1, PriceIs
        <3>3. QED
            BY <3>1, <3>2
    <2>3. /\ PowerUpCost(4, level, FALSE, FALSE).dust = Paid(n, FALSE, FALSE)
          /\ PowerUpCost(4, level, FALSE, TRUE).dust = Paid(n, FALSE, TRUE)
        BY <2>2, Zenon
    <2>4. Paid(n, FALSE, FALSE) = 100 * n /\ Paid(n, FALSE, TRUE) = 120 * n
        BY DEF Paid
    <2>5. QED
        BY <1>2, <2>3, <2>4
<1>4. Round(9 * purified.dust, 10) = 90 * n
    BY <1>3, DiscountsAreExact
<1>5. /\ ShadowComparison(level).dustPurified = 90 * n
      /\ ShadowComparison(level).dustShadow = 120 * n
    BY <1>2, <1>3, <1>4 DEF ShadowComparison
<1>6. QED
    BY <1>5

\* A field that is in range holds a natural number.
LEMMA LevelsInRange ==
    ASSUME NEW raw, NEW default, InRange(raw, default, MinLevel, TopLevel)
    PROVE  Given(raw, default) \in Nat /\ 4 <= Given(raw, default)
BY DEF InRange, MinLevel, TopLevel

\* Bills add up, whatever the levels of the table, wherever the way begins, stops and ends
\* and with any discount: every tier costs whole hundreds, of which neither the half of a
\* lucky one nor the six fifths of a shadow loses anything to a rounding.
THEOREM BillsHold == Spec => []CostsAddUp
<1>1. ASSUME CalculatorsInv, page.result.kind = "cost"
      PROVE  \A stop \in {l \in Levels : page.result.from <= l /\ l <= page.result.to} :
                 AddsUp(page.result.cost,
                        PowerUpCost(page.result.from, stop, page.result.lucky, page.result.shadow),
                        PowerUpCost(stop, page.result.to, page.result.lucky, page.result.shadow))
    <2>1. page.of = "cost" /\ page.form # NoForm
          /\ page.result = Answer(page.of, page.form, release.rank)
        BY <1>1, ResultIsOf
    <2>2. PICK f : f = page.form
        OBVIOUS
    <2>3. page.result = CostResult(f)
        BY <2>1, <2>2 DEF Answer, Computed
    <2>4. PICK from, to : from = Given(f.from, 80) /\ to = Given(f.to, 160)
        OBVIOUS
    <2>5. /\ InRange(f.from, 80, MinLevel, TopLevel) /\ InRange(f.to, 160, MinLevel, TopLevel)
          /\ from <= to
        BY <1>1, <2>3, <2>4 DEF CostResult, Failed
    <2>6. page.result = [kind |-> "cost", from |-> from, to |-> to, lucky |-> f.lucky,
                         shadow |-> f.shadow, cost |-> PowerUpCost(from, to, f.lucky, f.shadow)]
        BY <2>3, <2>4, <2>5 DEF CostResult
    <2>7. from \in Nat /\ to \in Nat /\ 4 <= from
        BY <2>4, <2>5, LevelsInRange
    <2>8. /\ page.result.from = from /\ page.result.to = to /\ page.result.lucky = f.lucky
          /\ page.result.shadow = f.shadow
          /\ page.result.cost = PowerUpCost(from, to, f.lucky, f.shadow)
        BY <2>6
    <2>9. ASSUME NEW stop \in Levels, from <= stop, stop <= to
          PROVE  AddsUp(PowerUpCost(from, to, f.lucky, f.shadow),
                        PowerUpCost(from, stop, f.lucky, f.shadow),
                        PowerUpCost(stop, to, f.lucky, f.shadow))
        <3>1. stop \in Nat
            BY RankingAssumption DEF Levels
        <3>2. QED
            BY <2>7, <2>9, <3>1, BillsAddUp
    <2>10. QED
        BY <2>8, <2>9
<1>2. ASSUME CalculatorsInv, page.result.kind = "shadow"
      PROVE  3 * page.result.costs.dustShadow = 4 * page.result.costs.dustPurified
    <2>1. page.of = "shadow" /\ page.form # NoForm
          /\ page.result = Answer(page.of, page.form, release.rank)
        BY <1>2, ResultIsOf
    <2>2. PICK f : f = page.form
        OBVIOUS
    <2>3. page.result = ShadowResult(f)
        BY <2>1, <2>2 DEF Answer, Computed
    <2>4. PICK level : level = Given(f.level, 160)
        OBVIOUS
    <2>5. InRange(f.level, 160, MinLevel, TopLevel)
        BY <1>2, <2>3 DEF ShadowResult, Failed
    <2>6. page.result.costs = ShadowComparison(level)
        BY <1>2, <2>3, <2>4 DEF ShadowResult, Failed
    <2>7. level \in Nat /\ 4 <= level
        BY <2>4, <2>5, LevelsInRange
    <2>8. QED
        BY <2>6, <2>7, ShadowToPurified
<1>3. CalculatorsInv => CostsAddUp
    BY <1>1, <1>2 DEF CostsAddUp, AddsUp
<1>4. QED
    BY <1>3, InvHolds, PTL
=============================================================================
