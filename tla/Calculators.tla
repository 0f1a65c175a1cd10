---------------------------- MODULE Calculators ----------------------------
(***************************************************************************)
(* The calculators (apps/calculators/views.py), the addresses they share   *)
(* (encode_calc_share, decode_calc_share), the cache of the league ranking *)
(* (top_spreads_cached) and, beside them, the pages of apps/dps, while     *)
(* releases are deployed: the cache is a table of the database, an address *)
(* is kept by whoever got it, and both outlive the release that made them. *)
(*                                                                         *)
(* A form maps each field to Blank, Junk (no number), NotFinite (nan, inf) *)
(* or what it holds: a level in quarters, a factor in hundredths, a chance *)
(* in thousandths.  A result is what the page shows; the calculator of IV  *)
(* scenarios is in FloorReads.                                             *)
(***************************************************************************)
EXTENDS DpsPages, TLC

CONSTANTS
    NotFinite,
    NoForm,         \* the parameters of a page opened without any
    Forms,          \* [calculator -> the forms that are sent]
    Shared,         \* the forms whose addresses are kept
    AddressLength,  \* [Shared -> the characters of a form's address]
    MaxShareUrlLength, \* 2048 in the code
    DpsForms,       \* [page of apps/dps -> what its addresses ask for]
    MiddleIV,       \* 10 in the code, a default
    DefaultLeague,  \* 1500, the cap of CP
    CatchRates,     \* BCR_DB: [species -> hundredths]
    TopN,           \* 25 spreads are shown
    MaxBreakpoints, \* 15
    MaxEncounters,  \* 100 000 000
    MaxCached,      \* bound: rankings in the cache at once
    MaxDeploys      \* bound: releases after the first

ASSUME CalculatorsAssumption ==
    /\ DOMAIN Forms \subseteq {"cp", "cost", "pvp", "catch", "types", "shiny", "shadow",
                              "breakpoints"}
    /\ DOMAIN DpsForms \subseteq {"browser", "by type", "moves", "compare"}
    /\ \A c \in DOMAIN Forms : NoForm \notin Forms[c]
    /\ MiddleIV \in 0 .. MaxIV /\ MaxDeploys \in Nat /\ MaxCached \in Nat
    /\ \A f \in Shared : \E c \in DOMAIN Forms : f \in Forms[c]
    /\ AddressLength \in [Shared -> Nat] /\ MaxShareUrlLength \in Nat
    /\ {"pikachu", "medicham", "machamp"} \subseteq DOMAIN Base
    /\ TopN \in Nat /\ MaxBreakpoints \in Nat /\ DefaultLeague \in Int
    /\ "pvp" \in DOMAIN Forms =>
           \A f \in Forms["pvp"] : f.league \in {Blank, Junk} \/ f.league \in Int
    /\ "breakpoints" \in DOMAIN Forms =>
           \A f \in Forms["breakpoints"] :
               f.defense \in {Blank, Junk, NotFinite} \/ f.defense \in Int

VARIABLES
    page,           \* the page last shown: what it is of, its parameters, its result
    link,           \* an address that was kept and what it showed then, or NoLink
    cache,          \* the rankings in the cache
    release         \* what the running release says: PVP_RANK_VERSION, GENERIC_SHARE_VERSION

vars == <<page, link, cache, release>>

Calculator == DOMAIN Forms

NoResult == [kind |-> "none"]
Failed == [kind |-> "error"]
NoLink == [address |-> [v |-> 0]]

-----------------------------------------------------------------------------
(* Reading a form *)

\* _float_or and _int_or_default: what cannot be read is the default.
OrDefault(raw, default) == IF raw \in {Blank, Junk} THEN default ELSE raw

\* _parse_int_in_range and _parse_finite_float refuse what cannot be read or is out of
\* range; only a missing value is the default.
Given(raw, default) == IF raw = Blank THEN default ELSE raw

InRange(raw, default, lo, hi) ==
    /\ raw \notin {Junk, NotFinite}
    /\ Given(raw, default) \in lo .. hi

IVsOf(f, default) ==
    [atk |-> Given(f.atk, default), def |-> Given(f.def, default), sta |-> Given(f.sta, default)]

GoodIVs(f, default) ==
    \A raw \in {f.atk, f.def, f.sta} : InRange(raw, default, 0, MaxIV)

\* SPECIES_DB.get(species_id, SPECIES_DB[fallback])
Species(s, fallback) == IF s \in DOMAIN Base THEN Base[s] ELSE Base[fallback]

MinLevel == 4
TopLevel == 220

-----------------------------------------------------------------------------
(* The results *)

\* _cp_result: a level that is not in the table is an error, one that is no number is 20.
CpResult(f) ==
    LET level == OrDefault(f.level, 80)
        b == Species(f.species, "pikachu")
        iv == IVsOf(f, MiddleIV)
    IN  IF GoodIVs(f, MiddleIV) /\ level \in Levels
        THEN [kind |-> "cp", species |-> f.species, level |-> level, iv |-> iv,
              cp |-> CP(b, iv, level), hp |-> HP(b, iv, level)]
        ELSE Failed

\* _cost_result
CostResult(f) ==
    LET from == Given(f.from, 80)
        to == Given(f.to, 160)
    IN  IF /\ InRange(f.from, 80, MinLevel, TopLevel) /\ InRange(f.to, 160, MinLevel, TopLevel)
           /\ from <= to
        THEN [kind |-> "cost", from |-> from, to |-> to, lucky |-> f.lucky, shadow |-> f.shadow,
              cost |-> PowerUpCost(from, to, f.lucky, f.shadow)]
        ELSE Failed

\* _catch_result: whatever the level asked for, mewtwo is met at level 20.  The chance
\* itself is a function of these.
CatchResult(f) ==
    LET asked == Given(f.level, 60)
        level == IF f.species = "mewtwo" THEN 80 ELSE asked
        factors == [ball |-> Given(f.ball, 100), berry |-> Given(f.berry, 150),
                    throw |-> Given(f.throw, 115), medal |-> Given(f.medal, 130)]
    IN  IF /\ InRange(f.level, 60, MinLevel, TopLevel)
           /\ \A x \in {f.ball, f.berry, f.throw, f.medal} : InRange(x, 100, 1, 1000)
           /\ level \in Levels
        THEN [kind |-> "catch", species |-> f.species, level |-> level, factors |-> factors,
              curve |-> IF f.curve THEN 170 ELSE 100,
              rate |-> IF f.species \in DOMAIN CatchRates THEN CatchRates[f.species] ELSE 20]
        ELSE Failed

\* _type_result
TypeResult(f) ==
    LET type2 == IF f.type2 = Blank THEN "" ELSE f.type2 IN
    IF f.type1 \in PokemonTypes /\ type2 \in PokemonTypes \cup {""}
    THEN [kind |-> "types", type1 |-> f.type1, type2 |-> type2,
          weaknesses |-> Weaknesses(f.type1, type2)]
    ELSE Failed

\* _shiny_result; the chances are functions of these.
ShinyResult(f) ==
    IF /\ InRange(f.rate, 2, 0, 1000) /\ InRange(f.n, 100, 0, MaxEncounters)
       /\ InRange(f.confidence, 950, 0, 1000)
    THEN [kind |-> "shiny", rate |-> Given(f.rate, 2), n |-> Given(f.n, 100),
          confidence |-> Given(f.confidence, 950)]
    ELSE Failed

\* _shadow_result
ShadowResult(f) ==
    LET level == Given(f.level, 160)
        b == Species(f.species, "machamp")
        iv == IVsOf(f, MaxIV)
    IN  IF /\ InRange(f.level, 160, MinLevel, TopLevel) /\ GoodIVs(f, MaxIV)
           /\ level \in Levels
        THEN [kind |-> "shadow", species |-> f.species, level |-> level, iv |-> iv,
              cp |-> CP(b, iv, level), hp |-> HP(b, iv, level),
              costs |-> ShadowComparison(level)]
        ELSE Failed

\* _breakpoints_result: from level 20 to 50, against no particular type.
BreakpointLevels == {l \in Levels : l \in 80 .. 200}

BreakpointsResult(f) ==
    LET iv == OrDefault(f.atk, MaxIV)
        defense == OrDefault(f.defense, 200)
    IN  IF /\ f.species \in DOMAIN Fighters /\ f.move \in DOMAIN FastMoves
           /\ iv \in 0 .. MaxIV /\ defense # NotFinite /\ defense > 0
        THEN [kind |-> "breakpoints", species |-> f.species, move |-> f.move, iv |-> iv,
              defense |-> defense, weather |-> f.weather,
              breakpoints |-> Breakpoints(Fighters[f.species], FastMoves[f.move], iv, defense,
                                          f.weather, BreakpointLevels, MaxBreakpoints)]
        ELSE Failed

-----------------------------------------------------------------------------
(* The ranking and its cache *)

\* Variant: the key says what is asked for and not by which algorithm.
CacheKeyOfInputs(b, maxCp, n, cap) ==
    [base |-> b, maxCp |-> maxCp, n |-> n, cap |-> cap, algo |-> 0]

\* _pvp_rank_cache_key
CacheKey(b, maxCp, n, cap) ==
    [base |-> b, maxCp |-> maxCp, n |-> n, cap |-> cap, algo |-> release.rank]

Entries(k) == {e \in cache : e.key = k}

\* top_spreads_cached; "by" is the algorithm that made the spreads.
TopSpreadsCached(b, maxCp) ==
    LET key == CacheKey(b, maxCp, TopN, 200) IN
    IF Entries(key) # {} THEN CHOOSE e \in Entries(key) : TRUE
    ELSE [key |-> key, spreads |-> TopSpreads(b, maxCp, TopN, 200), by |-> release.rank]

\* _pvp_result: any cap that is a number is taken.
League(f) == OrDefault(f.league, DefaultLeague)

PvpEntry(f) == TopSpreadsCached(Species(f.species, "medicham"), League(f))

PvpResult(f) ==
    [kind |-> "pvp", species |-> f.species, league |-> League(f),
     spreads |-> PvpEntry(f).spreads, by |-> PvpEntry(f).by]

\* What the other calculators show for a form is a function of the form.
Computed(c, f) ==
    CASE c = "cp"          -> CpResult(f)
      [] c = "cost"        -> CostResult(f)
      [] c = "catch"       -> CatchResult(f)
      [] c = "types"       -> TypeResult(f)
      [] c = "shiny"       -> ShinyResult(f)
      [] c = "shadow"      -> ShadowResult(f)
      [] c = "breakpoints" -> BreakpointsResult(f)

\* The result a calculator shows for its parameters.
Result(c, f) ==
    IF f = NoForm THEN NoResult
    ELSE IF c = "pvp" THEN PvpResult(f)
    ELSE Computed(c, f)

-----------------------------------------------------------------------------
(* Shared addresses *)

\* encode_calc_share makes an address of any length.
EncodeCalcShare(c, f) ==
    [v |-> release.share, t |-> c, params |-> f, length |-> AddressLength[f]]

\* What decode_calc_share reads at all.
ShortEnough(a) == a.length <= MaxShareUrlLength

\* Variant: the format of an address is not looked at.
GetParamsOfAny(c, a) == IF ShortEnough(a) /\ a.t = c THEN a.params ELSE NoForm

\* _get_params of a request that names an address, with decode_calc_share: one that is too
\* long, of another format or of another calculator counts as none.
GetParams(c, a) ==
    IF ShortEnough(a) /\ a.v = release.share /\ a.t = c THEN a.params ELSE NoForm

-----------------------------------------------------------------------------
(* The actions *)

Show(c, f, via) ==
    /\ page' = [of |-> c, form |-> f, result |-> Result(c, f), via |-> via]
    /\ IF c = "pvp" /\ f # NoForm
       THEN /\ cache' = cache \cup {PvpEntry(f)}
            /\ Cardinality(cache') <= MaxCached
       ELSE UNCHANGED cache

Init ==
    /\ page = [of |-> "cp", form |-> NoForm, result |-> NoResult, via |-> "visit"]
    /\ link = NoLink
    /\ cache = {}
    /\ release = [rank |-> 1, share |-> 1]

\* A calculator is opened, or the form of its page sent.
Visit(c) == Show(c, NoForm, "visit") /\ UNCHANGED <<link, release>>

Submit(c) ==
    /\ page.of = c
    /\ \E f \in Forms[c] : Show(c, f, "form")
    /\ UNCHANGED <<link, release>>

\* The page's address is kept: there is one as soon as there are parameters, also beside
\* an error.  What it is the address of is history.
Keep ==
    /\ page.of \in Calculator /\ page.form \in Shared
    /\ link' = [address |-> EncodeCalcShare(page.of, page.form),
                shown   |-> page.result,
                rank    |-> release.rank]
    /\ UNCHANGED <<page, cache, release>>

\* The address that was kept is opened at a calculator, its own or, mistyped, another.
Open(c) ==
    /\ link # NoLink
    /\ Show(c, GetParams(c, link.address), "link")
    /\ UNCHANGED <<link, release>>

\* The pages of apps/dps.
Browsed(p, f) ==
    CASE p = "browser" -> DpsBrowser(f)
      [] p = "by type" -> DpsByType(f)
      [] p = "moves"   -> MoveBrowser(f)
      [] p = "compare" -> Compare(f)

Browse(p) ==
    \E f \in DpsForms[p] :
        /\ page' = [of |-> p, form |-> f, result |-> Browsed(p, f), via |-> "visit"]
        /\ UNCHANGED <<link, cache, release>>

\* An entry is past CALC_CACHE_TIMEOUT.
Expire == \E e \in cache : cache' = cache \ {e} /\ UNCHANGED <<page, link, release>>

\* A release with another algorithm or another format of addresses.  It has answered
\* nothing yet.
Deploy ==
    /\ release.rank + release.share < 2 + MaxDeploys
    /\ release' \in {[release EXCEPT !.rank = @ + 1], [release EXCEPT !.share = @ + 1]}
    /\ page' = [of |-> "cp", form |-> NoForm, result |-> NoResult, via |-> "visit"]
    /\ UNCHANGED <<link, cache>>

Next ==
    \/ \E c \in Calculator : Visit(c) \/ Submit(c) \/ Open(c)
    \/ Keep
    \/ \E p \in DOMAIN DpsForms : Browse(p)
    \/ Expire
    \/ Deploy

Spec == Init /\ [][Next]_vars

-----------------------------------------------------------------------------
(* Properties *)

\* Of all the combinations of a species that fit in a league these are the best.
BestOnly(spreads, b, league) ==
    LET reach(iv) == {l \in Levels : l <= 200 /\ CP(b, iv, l) <= league}
        able == {iv \in IVs : reach(iv) # {}}
        shown == {spreads[i].iv : i \in DOMAIN spreads}
    IN  /\ Len(spreads) = Min({TopN, Cardinality(able)})
        /\ Cardinality(shown) = Len(spreads) /\ shown \subseteq able
        /\ \A i \in DOMAIN spreads :
               LET s == spreads[i] IN
               /\ s.level = Max(reach(s.iv))
               /\ \A iv \in able \ shown : \A l \in reach(iv) : StatProduct(b, iv, l) <= s.product
               /\ \A l \in reach(s.iv) : StatProduct(b, s.iv, l) <= s.product
               /\ \A j \in 1 .. i - 1 : \/ spreads[j].product > s.product
                                        \/ /\ spreads[j].product = s.product
                                           /\ spreads[j].iv.atk <= s.iv.atk

\* The ranking of a league is the best there is, made by the algorithm of the release that
\* shows it: every combination that has a level under the cap competes with its best level,
\* none is better than those listed, and they are in order.  (top_spreads_cached:
\* "un despliegue con una corrección de cálculo nunca sirva un ranking obsoleto")
RankingIsBest ==
    page.result.kind = "pvp" =>
        /\ page.result.by = release.rank
        /\ BestOnly(page.result.spreads, Species(page.result.species, "medicham"),
                    page.result.league)

\* Powering up in two goes costs what it costs in one, whatever the discounts and wherever
\* the stop; a shadow's stardust is to a purified one's as 4 to 3, with nothing lost to the
\* roundings.  (power_up_cost, compare_shadow_purified)
CostsAddUp ==
    /\ page.result.kind = "cost" =>
           LET r == page.result
               price(from, to) == PowerUpCost(from, to, r.lucky, r.shadow)
           IN  \A stop \in {l \in Levels : r.from <= l /\ l <= r.to} :
                   \A x \in DOMAIN r.cost :
                       r.cost[x] = price(r.from, stop)[x] + price(stop, r.to)[x]
    /\ page.result.kind = "shadow" =>
           3 * page.result.costs.dustShadow = 4 * page.result.costs.dustPurified

\* These points are the first at which the damage rises, and what it rises to.
FirstRises(points, damage) ==
    LET levels == DOMAIN damage
        above == {damage[l] : l \in levels} \ {damage[Min(levels)]}
    IN  /\ Len(points) = Min({MaxBreakpoints, Cardinality(above)})
        /\ \A i \in DOMAIN points :
               LET p == points[i] IN
               /\ p.damage \in above
               /\ p.level = Min({l \in levels : damage[l] >= p.damage})
               /\ Cardinality({d \in above : d < p.damage}) = i - 1

\* The breakpoints shown are the levels at which the move first does each damage above the
\* one it does at level 20, the lowest ones, in order, each with its damage; a damage that
\* rises by several points at once makes one of them.
\* (engine/breakpoints.py: "El breakpoint es el nivel más bajo donde el daño aumenta en 1 punto")
BreakpointsAreExact ==
    page.result.kind = "breakpoints" =>
        LET r == page.result
            shooter == Fighters[r.species]
            move == FastMoves[r.move]
        IN  FirstRises(r.breakpoints,
                       [l \in BreakpointLevels |->
                           Damage(move.power, shooter.atk + r.iv, l, r.defense,
                                  HasStab(shooter, move), TypeMultiplier(move.type, "normal", ""),
                                  r.weather)])

\* What a kept address shows is what it was kept of, however much was asked of the site since;
\* at another calculator, after a release with another format, or when its form was so long
\* that the address made of it is longer than what is read back, it shows no result.  Only a
\* ranking may change with its algorithm.  (_get_params, encode_calc_share,
\* decode_calc_share, "plan 053")
LinkShowsWhatWasShared ==
    page.via = "link" =>
        IF /\ ShortEnough(link.address)
           /\ link.address.v = release.share /\ link.address.t = page.of
        THEN /\ page.form = link.address.params
             /\ (page.of = "pvp" => link.rank = release.rank) => page.result = link.shown
        ELSE page.result = NoResult

\* The ranking of attackers has every species there is of the type asked for, each computed
\* at the level the page shows, in the order asked for; a level the page does not show was
\* refused.  (dps_browser, dps_by_type, "plan 046")
AttackersAreRight ==
    page.result.kind = "ranking" =>
        LET r == page.result
            f == page.form
            able == {s \in f.search \cap DOMAIN Fighters : HasMoveset(s)}
            wanted == {s \in able : r.filter = Blank \/ r.filter \in {Fighters[s].type1,
                                                                   Fighters[s].type2}}
            rows == r.attackers
        IN  /\ {rows[i].species : i \in DOMAIN rows} = wanted
            /\ Len(rows) = Cardinality(wanted)
            /\ r.invalid <=> (f.level # Blank /\ f.level # r.level)
            /\ \A i \in DOMAIN rows :
                   LET s == rows[i].species IN
                   /\ rows[i].level = r.level
                   /\ rows[i].dps = BestMoveset(s, r.level, r.type).dps
                   /\ \A j \in 1 .. i - 1 :
                          CASE r.sort = "name" -> Alphabet[rows[j].species] < Alphabet[s]
                            [] r.sort = "tdo"  -> rows[j].tdo >= rows[i].tdo
                            [] r.sort = "edps" -> rows[j].edps >= rows[i].edps
                            [] OTHER           -> rows[j].dps >= rows[i].dps
=============================================================================
