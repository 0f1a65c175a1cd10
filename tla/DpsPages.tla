------------------------------ MODULE DpsPages ------------------------------
(***************************************************************************)
(* The pages of apps/dps (views.py, services.py): the attackers against a  *)
(* type, the moves, the comparison of two species.  They are answered from *)
(* the address alone.                                                      *)
(*                                                                         *)
(* Text that is read as a number is Blank, Junk or the number; what is     *)
(* searched for is the set of species whose names contain it.              *)
(***************************************************************************)
EXTENDS Battle

CONSTANTS
    Blank,          \* an empty or missing field
    Junk,           \* a text that is no number
    MoveOrder,      \* the moves, the fast ones first, in the order of their tables
    Alphabet        \* [species, move or type -> its place in the order of their names]

DefaultLevel == 160

ASSUME PagesAssumption ==
    /\ {Blank, Junk} \cap Levels = {} /\ Blank # Junk /\ DefaultLevel \in Levels
    /\ \A s \in DOMAIN Fighters : Alphabet[s] \in Nat
    /\ \A s, t \in DOMAIN Fighters : Alphabet[s] = Alphabet[t] => s = t

SupportedLevels == {l \in Levels : l % 4 = 0}

\* _parse_level: the level to use and whether another one was asked for.
ParseLevel(raw) ==
    CASE raw = Blank           -> [level |-> DefaultLevel, invalid |-> FALSE]
      [] raw = Junk            -> [level |-> DefaultLevel, invalid |-> TRUE]
      [] OTHER -> IF raw \in SupportedLevels THEN [level |-> raw, invalid |-> FALSE]
                  ELSE [level |-> DefaultLevel, invalid |-> TRUE]

-----------------------------------------------------------------------------
(* The attackers *)

\* _build_attackers: each row says the level and the type it was computed for.
BuildAttackers(ranked, level, target) ==
    [i \in DOMAIN ranked |->
        [species |-> ranked[i].species, level |-> level, target |-> target,
         dps |-> ranked[i].result.dps, tdo |-> ranked[i].result.tdo,
         edps |-> ranked[i].result.edps]]

\* The sort of get_type_attackers_filtered_sorted; anything else asked for is dps.
SortAttackers(rows, by) ==
    SortBy(rows, LAMBDA r : CASE by = "tdo"  -> -r.tdo
                              [] by = "edps" -> -r.edps
                              [] by = "name" -> Alphabet[r.species]
                              [] OTHER       -> -r.dps)

\* Variant: the filter only looks at the first type.
AttackersByFirstType(target, by, filter, level) ==
    LET rows == BuildAttackers(RankByType(target, level), level, target)
        wanted(r) == filter \in {Blank, Fighters[r.species].type1}
    IN  SortAttackers(Picked(rows, wanted), by)

\* The type that is filtered for is one of the species', or there is no filter.
OfType(s, filter) == filter = Blank \/ filter \in {Fighters[s].type1, Fighters[s].type2}

\* get_type_attackers_filtered_sorted
TypeAttackers(target, by, filter, level) ==
    LET rows == BuildAttackers(RankByType(target, level), level, target)
        wanted(r) == OfType(r.species, filter)
    IN  SortAttackers(Picked(rows, wanted), by)

\* get_type_effectiveness and get_type_move_effectiveness: what moves of the type do.
ListedEffectiveness(type) ==
    {<<e[2], e[3]>> : e \in {f \in TypeEffectivenessTable : f[1] = type}}

MoveEffectiveness(type) == [d \in PokemonTypes |-> TypeMultiplier(type, d, "")]

\* get_type_stats: how many attackers a type has, at level 40; a ranking leaves none out.
TypeStats == [t \in PokemonTypes |-> Cardinality({s \in DOMAIN Fighters : HasMoveset(s)})]

RankingOf(f, filter) ==
    LET asked == ParseLevel(f.level)
        found(r) == r.species \in f.search
    IN  [kind |-> "ranking", type |-> f.type, level |-> asked.level, invalid |-> asked.invalid,
         sort |-> f.sort, filter |-> filter, counts |-> TypeStats,
         attackers |-> Picked(TypeAttackers(f.type, f.sort, filter, asked.level), found),
         listed |-> ListedEffectiveness(f.type), moves |-> MoveEffectiveness(f.type)]

\* dps_browser has no filter, and without a known type no ranking.
DpsBrowser(f) ==
    IF f.type \in PokemonTypes THEN RankingOf(f, Blank)
    ELSE [kind |-> "overview", level |-> ParseLevel(f.level).level,
          invalid |-> ParseLevel(f.level).invalid, counts |-> TypeStats]

\* dps_by_type
DpsByType(f) ==
    IF f.type \in PokemonTypes THEN RankingOf(f, f.filter) ELSE [kind |-> "not found"]

-----------------------------------------------------------------------------
(* The moves and the comparison *)

FastRow(m) ==
    [move |-> m, type |-> FastMoves[m].type, kind |-> "fast", power |-> FastMoves[m].power,
     ticks |-> FastMoves[m].ticks,
     dps |-> IF FastMoves[m].power > 0 THEN Round(200 * FastMoves[m].power, FastMoves[m].ticks)
             ELSE 0]

ChargeRow(m) ==
    [move |-> m, type |-> ChargeMoves[m].type, kind |-> "charge",
     power |-> ChargeMoves[m].power, ticks |-> ChargeMoves[m].ticks,
     dps |-> IF ChargeMoves[m].power > 0
             THEN Round(200 * ChargeMoves[m].power, ChargeMoves[m].ticks) ELSE 0]

MoveRow(m) == IF m \in DOMAIN FastMoves THEN FastRow(m) ELSE ChargeRow(m)

\* get_move_list
MoveList ==
    SortBy([i \in DOMAIN MoveOrder |-> MoveRow(MoveOrder[i])], LAMBDA r : -r.dps)

\* move_browser
MoveBrowser(f) ==
    LET wanted(r) == f.kind \in {"fast", "charge"} => r.kind = f.kind
    IN  [kind |-> "moves", sort |-> f.sort,
         moves |-> SortBy(Picked(MoveList, wanted),
             LAMBDA r : CASE f.sort = "name"     -> Alphabet[r.move]
                          [] f.sort = "power"    -> -r.power
                          [] f.sort = "duration" -> r.ticks
                          [] f.sort = "type"     -> Alphabet[r.type]
                          [] OTHER               -> -r.dps)]

\* pokemon_compare: against no type in particular, which is normal.
Compare(f) ==
    LET asked == ParseLevel(f.level)
        side(s) == IF s \in DOMAIN Fighters /\ HasMoveset(s)
                   THEN [species |-> s, result |-> BestMoveset(s, asked.level, "normal")]
                   ELSE [species |-> Blank]
    IN  [kind |-> "comparison", left |-> side(f.a), right |-> side(f.b),
         level |-> asked.level, invalid |-> asked.invalid]
=============================================================================
