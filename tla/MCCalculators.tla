--------------------------- MODULE MCCalculators ---------------------------
(***************************************************************************)
(* Calculators for TLC: six levels of the table (1, 20, 20.5, 40, 50 and   *)
(* 55), IVs of 0 and 1, base stats and powers small enough for the         *)
(* products to stay under 2^31, three fighters, four moves.                *)
(***************************************************************************)
EXTENDS Calculators

MCCpm == 4 :> 1 @@ 80 :> 3 @@ 82 :> 4 @@ 160 :> 6 @@ 200 :> 7 @@ 220 :> 8

\* pikachu's CP and HP are at their minimum at low levels, machamp's are not.
MCBase == "pikachu" :> [atk |-> 11, def |-> 9, sta |-> 10]
          @@ "medicham" :> [atk |-> 12, def |-> 20, sta |-> 15]
          @@ "machamp" :> [atk |-> 25, def |-> 16, sta |-> 18]

\* A species of two types, one of one, one with no listed moveset; the ranking also meets a
\* moveset of a species that is not listed and one of a move that is not.
MCFighters == "mewtwo" :> [type1 |-> "psychic", type2 |-> "", atk |-> 29, sta |-> 20]
              @@ "lucario" :> [type1 |-> "fighting", type2 |-> "steel", atk |-> 23, sta |-> 14]
              @@ "gengar" :> [type1 |-> "ghost", type2 |-> "poison", atk |-> 26, sta |-> 12]
              @@ "medicham" :> [type1 |-> "fighting", type2 |-> "psychic", atk |-> 12, sta |-> 15]
              @@ "ditto" :> [type1 |-> "normal", type2 |-> "", atk |-> 9, sta |-> 9]
MCFighterOrder == <<"mewtwo", "lucario", "gengar", "medicham", "ditto">>
MCFastMoves == "counter" :> [type |-> "fighting", power |-> 8, ticks |-> 2, gain |-> 7]
               @@ "confusion" :> [type |-> "psychic", power |-> 9, ticks |-> 3, gain |-> 15]
               @@ "splash" :> [type |-> "normal", power |-> 0, ticks |-> 2, gain |-> 0]
MCChargeMoves == "psystrike" :> [type |-> "psychic", power |-> 10, ticks |-> 4, cost |-> 50]
                 @@ "shadow_ball" :> [type |-> "ghost", power |-> 10, ticks |-> 6, cost |-> 50]
MCMoveOrder == <<"counter", "confusion", "splash", "psystrike", "shadow_ball">>
MCBestMovesets == "mewtwo" :> <<"confusion", "psystrike">> @@ "lucario" :> <<"counter", "shadow_ball">>
                  @@ "gengar" :> <<"confusion", "shadow_ball">> @@ "pikachu" :> <<"counter", "psystrike">>
                  @@ "medicham" :> <<"counter", "ice_punch">>
MCAlphabet == "confusion" :> 1 @@ "counter" :> 2 @@ "ditto" :> 3 @@ "fighting" :> 4
              @@ "gengar" :> 5 @@ "ghost" :> 6 @@ "lucario" :> 7 @@ "medicham" :> 8
              @@ "mewtwo" :> 9 @@ "normal" :> 10 @@ "psychic" :> 11 @@ "psystrike" :> 12
              @@ "shadow_ball" :> 13 @@ "splash" :> 14
MCCatchRates == "mewtwo" :> 2 @@ "machamp" :> 10

-----------------------------------------------------------------------------
(* What is sent.  81 is level 20.25, 224 is 56. *)

MCForms ==
    "cp" :> [species : {"machamp", "unown"}, level : {Blank, Junk, 81, 220}, atk : {Blank, 2},
             def : {0}, sta : {1}]
    @@ "cost" :> [from : {4, 81, 160}, to : {Blank, 82, 220, NotFinite}, lucky : BOOLEAN,
                  shadow : BOOLEAN]
    @@ "pvp" :> {[species |-> "machamp", league |-> Blank], [species |-> "unown", league |-> 16]}
    @@ "catch" :> [species : {"mewtwo", "unown"}, level : {Blank, 81}, ball : {0, 200},
                   berry : {Blank}, throw : {185}, medal : {140}, curve : {TRUE}]
    @@ "types" :> [type1 : {"steel", "ghost", Junk}, type2 : {Blank, "steel", "fairy"}]
    @@ "shiny" :> [rate : {0, NotFinite}, n : {Blank, 101}, confidence : {950}]
    @@ "shadow" :> [species : {"machamp"}, level : {Blank, 82}, atk : {Blank, 2}, def : {0},
                    sta : {1}]
    @@ "breakpoints" :> [species : {"lucario", "pikachu"}, move : {"counter"},
                         atk : {Blank, 2}, defense : {Blank, 0, 5, 16}, weather : BOOLEAN]

\* Of three calculators an address with a result, or with an error.  That of the ranking is as
\* long as an address may be, one of the CP is longer: any text does for a species.
MCTooLong == [species |-> "unown", level |-> 220, atk |-> Blank, def |-> 0, sta |-> 1]
MCLongest == [species |-> "unown", league |-> 16]
MCShared ==
    {MCTooLong, MCLongest,
     [species |-> "unown", level |-> 81, atk |-> Blank, def |-> 0, sta |-> 1],
     [from |-> 4, to |-> 82, lucky |-> TRUE, shadow |-> FALSE]}
MCAddressLength ==
    [f \in MCShared |-> CASE f = MCTooLong -> 2049 [] f = MCLongest -> 2048 [] OTHER -> 100]

MCDpsForms ==
    LET all == DOMAIN MCFighters IN
    "browser" :> [type : {"ghost"}, sort : {"edps"}, level : {Blank, Junk, 82}, search : {all}]
                 \cup [type : {Blank}, sort : {"dps"}, level : {81}, search : {{"gengar"}}]
    @@ "by type" :> [type : {"psychic"}, sort : {"tdo", "name"}, level : {Blank, 220},
                     filter : {Blank, "steel"}, search : {all}]
                    \cup [type : {"psychic", Junk}, sort : {"dps"}, level : {82}, filter : {Blank},
                          search : {{"gengar", "ditto"}}]
    @@ "moves" :> [sort : {"dps", "name", "power", "duration", "type"}, kind : {"fast", "charge"}]
                  \cup [sort : {"dps"}, kind : {Blank}]
    @@ "compare" :> [a : {Blank, "mewtwo"}, b : {"lucario", "unown"}, level : {81}]
=============================================================================
