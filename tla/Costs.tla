------------------------------- MODULE Costs --------------------------------
(***************************************************************************)
(* What it costs to power a Pokemon up: engine/costs.py and the comparison *)
(* of a shadow with a purified one, engine/shadow.py.                      *)
(*                                                                         *)
(* A level is counted in quarters, so that level 20.25, which the form     *)
(* accepts and no table holds, has a name too: 20.5 is 82.  A factor such  *)
(* as 1.2 is a fraction; Python's round() is exact on the totals there are *)
(* (multiples of 50 for stardust).                                         *)
(***************************************************************************)
EXTENDS Integers, Sequences, FiniteSetsExt

\* round(n / d): a tie goes to the even neighbour.
Round(n, d) ==
    LET q == n \div d
        r == n % d
    IN  IF 2 * r > d \/ (2 * r = d /\ q % 2 = 1) THEN q + 1 ELSE q

-----------------------------------------------------------------------------
(* The price of one power-up *)

DustTiers ==
    <<200, 400, 600, 800, 1000, 1300, 1600, 1900, 2200, 2500, 3000, 3500, 4000, 4500, 5000,
      6000, 7000, 8000, 9000, 10000, 11000, 12000, 13000, 14000, 15000, 17500, 20000, 22500,
      25000, 30000>>

\* Each step up of the list is named by the first tier that has it.
CandyTier(t) == 1 + Cardinality({s \in {5, 10, 15, 26, 29} : t >= s})
XlTier(t) == Cardinality({s \in {23, 26, 29} : t >= s})

PowerUpsPerTier == 4

\* _cost_for_powerup: past the last tier every power-up costs what the last one does.
CostForPowerUp(i) ==
    LET tier == i \div PowerUpsPerTier IN
    IF tier >= Len(DustTiers) THEN [dust |-> 30000, candy |-> 6, xl |-> 3]
    ELSE [dust |-> DustTiers[tier + 1], candy |-> CandyTier(tier), xl |-> XlTier(tier)]

\* What each costs of one thing.
DustOf == [i \in Nat |-> CostForPowerUp(i).dust]
CandyOf == [i \in Nat |-> CostForPowerUp(i).candy]
XlOf == [i \in Nat |-> CostForPowerUp(i).xl]

\* _level_to_powerup_index: round((level - 1.0) * 2).
PowerUpIndex(level) == Round(level - 4, 2)

-----------------------------------------------------------------------------
(* The price of many *)

PowerUps(from, to) == PowerUpIndex(from) .. PowerUpIndex(to) - 1

Lucky(dust) == Round(dust, 2)
Shadowed(dust) == Round(6 * dust, 5)

\* Variant: the level that is reached is paid for as well.
PowerUpCostInclusive(from, to, lucky, shadow) ==
    LET bought == PowerUpIndex(from) .. PowerUpIndex(to)
        dust == SumFunctionOnSet(DustOf, bought)
        paid == IF lucky THEN Lucky(dust) ELSE dust
    IN  [dust |-> IF shadow THEN Shadowed(paid) ELSE paid,
         candy |-> SumFunctionOnSet(CandyOf, bought),
         xl |-> SumFunctionOnSet(XlOf, bought),
         powerUps |-> PowerUpIndex(to) - PowerUpIndex(from)]

\* power_up_cost, for from <= to: the discounts are taken of the total, one after the other.
PowerUpCost(from, to, lucky, shadow) ==
    LET bought == PowerUps(from, to)
        dust == SumFunctionOnSet(DustOf, bought)
        paid == IF lucky THEN Lucky(dust) ELSE dust
    IN  [dust |-> IF shadow THEN Shadowed(paid) ELSE paid,
         candy |-> SumFunctionOnSet(CandyOf, bought),
         xl |-> SumFunctionOnSet(XlOf, bought),
         powerUps |-> PowerUpIndex(to) - PowerUpIndex(from)]

-----------------------------------------------------------------------------
(* Shadow or purified *)

\* compare_shadow_purified: a purified one is a tenth cheaper, candy rounded to even.
ShadowComparison(level) ==
    LET purified == PowerUpCost(4, level, FALSE, FALSE)
        shadow == PowerUpCost(4, level, FALSE, TRUE)
    IN  [dustPurified |-> Round(9 * purified.dust, 10), candyPurified |-> Round(9 * purified.candy, 10),
         dustShadow |-> shadow.dust, candyShadow |-> shadow.candy]
=============================================================================
