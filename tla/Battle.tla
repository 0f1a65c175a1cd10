------------------------------- MODULE Battle -------------------------------
(***************************************************************************)
(* Types, damage and damage per second: engine/types.py, the lookups of    *)
(* engine/dps_data.py, engine/dps.py and engine/breakpoints.py.            *)
(*                                                                         *)
(* A multiplier of the chart is a power of 8/5: 1.6 is its first, 0.625    *)
(* its inverse and 0.390625 that inverse squared, so an effectiveness is   *)
(* named by its exponent and two of them are multiplied by adding.  The    *)
(* catalogues of species and moves are constants with a few entries.       *)
(***************************************************************************)
EXTENDS Ranking, Costs

CONSTANTS
    Fighters,       \* dps_data.SPECIES: [species -> [type1, type2, atk, sta]], type2 "" for none
    FighterOrder,   \* ... and the order it lists them in, a sequence
    FastMoves,      \* FAST_MOVES: [move -> [type, power, ticks, gain]]
    ChargeMoves,    \* CHARGE_MOVES: [move -> [type, power, ticks, cost]]
    BestMovesets,   \* BEST_MOVESETS: [species -> <<fast, charge>>], of other species too
    BossDefense

ASSUME BattleAssumption ==
    /\ \A s \in DOMAIN Fighters : Fighters[s].atk \in Nat /\ Fighters[s].sta \in Nat
    /\ \A m \in DOMAIN FastMoves :
           /\ FastMoves[m].power \in Nat /\ FastMoves[m].gain \in Int
           /\ FastMoves[m].ticks \in Nat \ {0}
    /\ \A m \in DOMAIN ChargeMoves :
           /\ ChargeMoves[m].power \in Nat /\ ChargeMoves[m].cost \in Nat
           /\ ChargeMoves[m].ticks \in Nat \ {0}
    /\ BossDefense \in Nat \ {0}
    /\ FighterOrder \in Seq(DOMAIN Fighters)
    /\ \A s \in DOMAIN Fighters : \E i \in DOMAIN FighterOrder : FighterOrder[i] = s
    /\ \A i, j \in DOMAIN FighterOrder : FighterOrder[i] = FighterOrder[j] => i = j

-----------------------------------------------------------------------------
(* The chart *)

PokemonTypes ==
    {"normal", "fire", "water", "electric", "grass", "ice", "fighting", "poison", "ground",
     "flying", "psychic", "bug", "rock", "ghost", "dragon", "dark", "steel", "fairy"}

SuperEffective ==
    [normal |-> {}, fire |-> {"grass", "ice", "bug", "steel"},
     water |-> {"fire", "ground", "rock"}, electric |-> {"water", "flying"},
     grass |-> {"water", "ground", "rock"}, ice |-> {"grass", "ground", "flying", "dragon"},
     fighting |-> {"normal", "ice", "rock", "dark", "steel"}, poison |-> {"grass", "fairy"},
     ground |-> {"fire", "electric", "poison", "rock", "steel"},
     flying |-> {"grass", "fighting", "bug"}, psychic |-> {"fighting", "poison"},
     bug |-> {"grass", "psychic", "dark"}, rock |-> {"fire", "ice", "flying", "bug"},
     ghost |-> {"psychic", "ghost"}, dragon |-> {"dragon"}, dark |-> {"psychic", "ghost"},
     steel |-> {"ice", "rock", "fairy"}, fairy |-> {"fighting", "dragon", "dark"}]

NotVeryEffective ==
    [normal |-> {"rock", "steel"}, fire |-> {"fire", "water", "rock", "dragon"},
     water |-> {"water", "grass", "dragon"}, electric |-> {"electric", "grass", "dragon"},
     grass |-> {"fire", "grass", "poison", "flying", "bug", "dragon", "steel"},
     ice |-> {"fire", "water", "ice", "steel"},
     fighting |-> {"poison", "flying", "psychic", "bug", "fairy"},
     poison |-> {"poison", "ground", "rock", "ghost"}, ground |-> {"grass", "bug"},
     flying |-> {"electric", "rock", "steel"}, psychic |-> {"psychic", "steel"},
     bug |-> {"fire", "fighting", "poison", "flying", "ghost", "steel", "fairy"},
     rock |-> {"fighting", "ground", "steel"}, ghost |-> {"dark"}, dragon |-> {"steel"},
     dark |-> {"fighting", "dark", "fairy"}, steel |-> {"fire", "water", "electric", "steel"},
     fairy |-> {"fire", "poison", "steel"}]

Immune ==
    [t \in PokemonTypes |->
        CASE t \in {"normal", "fighting"} -> {"ghost"} [] t = "electric" -> {"ground"}
          [] t = "poison" -> {"steel"} [] t = "ground" -> {"flying"} [] t = "psychic" -> {"dark"}
          [] t = "ghost" -> {"normal"} [] t = "dragon" -> {"fairy"} [] OTHER -> {}]

\* TYPE_CHART
TypeChart(attack, defend) ==
    CASE defend \in SuperEffective[attack] -> 1
      [] defend \in NotVeryEffective[attack] -> -1
      [] defend \in Immune[attack] -> -2
      [] OTHER -> 0

\* type_effectiveness: a second type, if there is one, counts as much as the first.
TypeEffectiveness(attack, defend1, defend2) ==
    TypeChart(attack, defend1) + (IF defend2 = "" THEN 0 ELSE TypeChart(attack, defend2))

Weaknesses(defend1, defend2) ==
    [t \in PokemonTypes |-> TypeEffectiveness(t, defend1, defend2)]

\* dps_data._build_type_effectiveness: only the pairs that are not neutral.
TypeEffectivenessTable ==
    {<<p[1], p[2], TypeChart(p[1], p[2])>> :
        p \in {q \in PokemonTypes \X PokemonTypes : TypeChart(q[1], q[2]) # 0}}

\* dps_data.type_multiplier: a pair the table does not list is neutral.
TypeMultiplier(attack, defend1, defend2) ==
    LET lookup(d) == {e[3] : e \in {f \in TypeEffectivenessTable : f[1] = attack /\ f[2] = d}}
        get(d) == IF lookup(d) = {} THEN 0 ELSE CHOOSE x \in lookup(d) : TRUE
    IN  get(defend1) + (IF defend2 = "" THEN 0 ELSE get(defend2))

-----------------------------------------------------------------------------
(* Damage *)

\* floor(0.5 * power * (attack / defense) * stab * effectiveness * weather) + 1, for the attack
\* (base + iv) * cpm: base_damage of dps.py and _pve_damage of breakpoints.py, the latter's
\* max(1, ...) included, which a damage of at least 1 never needs.
Damage(power, attack, level, defense, stab, exponent, weather) ==
    LET up(x) == IF x > 0 THEN x ELSE 0 IN
    ((power * attack * Cpm[level] * (IF stab THEN 6 ELSE 5) * (IF weather THEN 6 ELSE 5)
        * 8 ^ up(exponent) * 5 ^ up(-exponent))
     \div (50 * CpmUnit * defense * 5 ^ up(exponent) * 8 ^ up(-exponent))) + 1

HasStab(f, move) == move.type \in {f.type1, f.type2}

\* max(1, ceil(energy_cost / energy_gain))
FastPerCycle(fast, charge) ==
    IF fast.gain <= 0 THEN 1 ELSE Max({1, (charge.cost + fast.gain - 1) \div fast.gain})

\* compute_moveset_damage: enough fast moves to pay for the charged one, and that one.
\* Durations are counted in ticks of half a second; dps, tdo and edps in hundredths.
MovesetDamage(f, fast, charge, level, defend1) ==
    LET hit(move) == Damage(move.power, f.atk + MaxIV, level, BossDefense, HasStab(f, move),
                            TypeMultiplier(move.type, defend1, ""), FALSE)
        fastMoves == FastPerCycle(fast, charge)
        damage == fastMoves * hit(fast) + hit(charge)
        ticks == fastMoves * fast.ticks + charge.ticks
        hp == (f.sta + MaxIV) * Cpm[level]      \* times CpmUnit: dps._hp does not round
    IN  [fastDamage |-> hit(fast), chargeDamage |-> hit(charge),
         dps |-> Round(200 * damage, ticks),
         tdo |-> Round(damage * hp, 5 * ticks * CpmUnit),
         edps |-> Round(400 * damage * hp, ticks * (2 * hp + 10 * CpmUnit)),
         hp |-> hp, level |-> level]

\* compute_best_moveset's three ways to give none: it only looks at species that are listed.
HasMoveset(s) ==
    /\ s \in DOMAIN BestMovesets /\ s \in DOMAIN Fighters
    /\ BestMovesets[s][1] \in DOMAIN FastMoves /\ BestMovesets[s][2] \in DOMAIN ChargeMoves

BestMoveset(s, level, defend1) ==
    MovesetDamage(Fighters[s], FastMoves[BestMovesets[s][1]], ChargeMoves[BestMovesets[s][2]],
                  level, defend1)

\* rank_by_type: the species with a moveset, the highest dps against the type first.
RankByType(defend1, level) ==
    LET listed == Picked(FighterOrder, HasMoveset)
        rows == [i \in DOMAIN listed |->
                    [species |-> listed[i], result |-> BestMoveset(listed[i], level, defend1)]]
    IN  SortBy(rows, LAMBDA r : -r.result.dps)

-----------------------------------------------------------------------------
(* Breakpoints *)

\* Variant: the level a range starts at counts as a rise.
RisesFromFirst(damage) ==
    {l \in DOMAIN damage : \A m \in DOMAIN damage : m < l => damage[m] < damage[l]}

\* The loop: a level whose damage is more than that of the level before, if there is one.
Rises(damage) ==
    {l \in DOMAIN damage : LET lower == {m \in DOMAIN damage : m < l}
                           IN  lower # {} /\ damage[Max(lower)] < damage[l]}

\* find_breakpoints for a known species and move: the first maxResults rises.
Breakpoints(f, move, iv, defense, weather, range, maxResults) ==
    LET damage == [l \in range |->
                      Damage(move.power, f.atk + iv, l, defense, HasStab(f, move),
                             TypeMultiplier(move.type, "normal", ""), weather)]
        rises == InOrder(Rises(damage), <)
    IN  [i \in 1 .. Min({maxResults, Len(rises)}) |->
            [level |-> rises[i], damage |-> damage[rises[i]]]]
=============================================================================
