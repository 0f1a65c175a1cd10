------------------------------ MODULE Ranking -------------------------------
(***************************************************************************)
(* Combat points, hit points and the league ranking: engine/stats.py and   *)
(* engine/pvp_rank.py.                                                     *)
(*                                                                         *)
(* A level is counted in quarters (level 20.5 is 82) and its multiplier is *)
(* Cpm[level] / CpmUnit, for a few of CPM_TABLE's levels; the formulas are *)
(* those of the code, over integers: the floor of a root is that of the    *)
(* root of the floor, so nothing is lost there.                            *)
(***************************************************************************)
EXTENDS Integers, Sequences, FiniteSets, FiniteSetsExt

CONSTANTS
    Cpm,        \* CPM_TABLE: [level -> multiplier]
    CpmUnit,
    MaxIV,      \* 15 in the code
    Base        \* SPECIES_DB: [species -> [atk, def, sta]]

ASSUME RankingAssumption ==
    /\ CpmUnit \in Nat \ {0} /\ MaxIV \in Nat
    /\ \A l \in DOMAIN Cpm : l \in Nat \ {0} /\ Cpm[l] \in Nat \ {0}
    /\ \A l, m \in DOMAIN Cpm : l < m => Cpm[l] < Cpm[m]
    /\ \A s \in DOMAIN Base : Base[s] \in [atk : Nat \ {0}, def : Nat \ {0}, sta : Nat \ {0}]

Levels == DOMAIN Cpm

IVs == [atk : 0 .. MaxIV, def : 0 .. MaxIV, sta : 0 .. MaxIV]

AtLeast10(x) == IF x < 10 THEN 10 ELSE x

\* The integer part of the square root of x.
SquareRoot(x) == CHOOSE r \in 0 .. x : r * r <= x /\ x < (r + 1) * (r + 1)

\* stats.cp: max(10, floor(atk * sqrt(def) * sqrt(sta) * cpm^2 / 10)).
CP(b, iv, level) ==
    LET c == Cpm[level]
        square == (b.atk + iv.atk) * (b.atk + iv.atk) * (b.def + iv.def) * (b.sta + iv.sta)
    IN  AtLeast10(SquareRoot((square * c * c * c * c)
                             \div (100 * CpmUnit * CpmUnit * CpmUnit * CpmUnit)))

\* stats.hp: max(10, floor(sta * cpm)).
HP(b, iv, level) == AtLeast10(((b.sta + iv.sta) * Cpm[level]) \div CpmUnit)

\* stat_product: attack and defence as they are, the hit points already cut to an integer.
StatProduct(b, iv, level) ==
    ((b.atk + iv.atk) * (b.def + iv.def) * Cpm[level] * Cpm[level] * HP(b, iv, level))
        \div (CpmUnit * CpmUnit)

-----------------------------------------------------------------------------
(* rank_for_league *)

\* Variant: a level is dropped as soon as it reaches the cap.
FittingBelow(b, iv, maxCp, cap) ==
    {l \in Levels : l <= cap /\ \A m \in Levels : m <= l => CP(b, iv, m) < maxCp}

\* The levels that are tried, upwards, before one is over the cap.
Fitting(b, iv, maxCp, cap) ==
    {l \in Levels : l <= cap /\ \A m \in Levels : m <= l => CP(b, iv, m) <= maxCp}

Spread(b, iv, maxCp, cap) ==
    LET level == Max(Fitting(b, iv, maxCp, cap)) IN
    [iv |-> iv, level |-> level, cp |-> CP(b, iv, level),
     product |-> StatProduct(b, iv, level), hp |-> HP(b, iv, level)]

\* sort(key=(-stat_product, atk_iv)); the sort is stable and product() gives atk, def, sta.
Before(s, t) ==
    \/ s.product > t.product
    \/ s.product = t.product /\ s.iv.atk < t.iv.atk
    \/ s.product = t.product /\ s.iv.atk = t.iv.atk /\ s.iv.def < t.iv.def
    \/ s.product = t.product /\ s.iv.atk = t.iv.atk /\ s.iv.def = t.iv.def
       /\ s.iv.sta < t.iv.sta

\* The members of S in the order `precedes`, a strict total order on S.
InOrder(S, precedes(_, _)) ==
    [i \in 1 .. Cardinality(S) |->
        CHOOSE s \in S : Cardinality({t \in S : precedes(t, s)}) = i - 1]

\* Python's sort(key=...), the smallest key first; reverse=True is a negative key.  Of two
\* with one key the one that came first stays first.
SortBy(seq, key(_)) ==
    LET keys == [i \in DOMAIN seq |-> key(seq[i])]
        order == InOrder(DOMAIN keys, LAMBDA i, j : \/ keys[i] < keys[j]
                                                    \/ keys[i] = keys[j] /\ i < j)
    IN  [i \in DOMAIN order |-> seq[order[i]]]

\* [x for x in seq if ...]
Picked(seq, wanted(_)) ==
    LET order == InOrder({i \in DOMAIN seq : wanted(seq[i])}, <)
    IN  [i \in DOMAIN order |-> seq[order[i]]]

\* A combination that is over the cap at its lowest level is not listed.
RankForLeague(b, maxCp, cap) ==
    InOrder({Spread(b, iv, maxCp, cap) : iv \in {v \in IVs : Fitting(b, v, maxCp, cap) # {}}},
            Before)

\* top_spreads
TopSpreads(b, maxCp, n, cap) ==
    LET ranking == RankForLeague(b, maxCp, cap) IN
    SubSeq(ranking, 1, Min({n, Len(ranking)}))
=============================================================================
