------------------------------ MODULE Verdicts ------------------------------
(***************************************************************************)
(* What the dashboard of the personal analysis says (apps/analysis/        *)
(* views.py) of a run: the recommendations that engine/decisions.py draws  *)
(* from the first hundo rate of its results.                               *)
(*                                                                         *)
(* A probability is in hundredths; what the binomial test makes of the     *)
(* rows is any of PValues and Effects.                                     *)
(***************************************************************************)
EXTENDS Analysis, Sequences

CONSTANTS
    MinHundos,      \* min_sample_for("hundo_rate"), 50 in the code
    PValues,        \* what exact_binomial_test can give
    Effects

ASSUME VerdictsAssumption == MinHundos \in Nat \ {0} /\ PValues \cup Effects \subseteq 0 .. 100

Alpha == 5

\* A payload of _hundo_payload: below the minimum the test is not run, and its fields are absent.
HundoPayloads(rows) ==
    IF Cardinality(rows) < MinHundos THEN {[n |-> Cardinality(rows), tested |-> FALSE]}
    ELSE {[n |-> Cardinality(rows), tested |-> TRUE, p |-> p, effect |-> e] :
              p \in PValues, e \in Effects}

\* _build_context: an absent p-value is 1, an absent effect None.
BuildContext(payload, flags) ==
    [n |-> payload.n, lucky_normal |-> {"lucky", "normal"} \subseteq flags,
     rulesets |-> "rulesets" \in flags,
     p |-> IF payload.tested THEN payload.p ELSE 100,
     small |-> payload.tested /\ payload.effect < 10]

\* The rules of evaluate, in its order (has_mixed_periods is never set); the last one holds
\* because no message has an ignored word.
Rules == <<"insufficient_sample", "separate_lucky_and_normal", "mixed_rulesets_or_periods",
           "compatible_with_model", "model_not_demonstrated", "trades_needed_for_confidence",
           "small_effect_more_data", "no_anomaly_conclusion">>

Warnings == {"insufficient_sample", "separate_lucky_and_normal", "mixed_rulesets_or_periods",
             "model_not_demonstrated"}

Enough(c) == c.n >= MinHundos

\* Variant: a high p-value is compatible with the model, however few the rows.
AppliesToFew(c, rule) ==
    CASE rule = "insufficient_sample"          -> ~Enough(c)
      [] rule = "separate_lucky_and_normal"    -> c.lucky_normal
      [] rule = "mixed_rulesets_or_periods"    -> c.rulesets
      [] rule = "compatible_with_model"        -> c.p >= Alpha
      [] rule = "model_not_demonstrated"       -> c.p < Alpha /\ Enough(c)
      [] rule = "trades_needed_for_confidence" -> Enough(c)
      [] rule = "small_effect_more_data"       -> c.small /\ c.p < Alpha /\ Enough(c)
      [] rule = "no_anomaly_conclusion"        -> TRUE

Applies(c, rule) ==
    CASE rule = "insufficient_sample"          -> ~Enough(c)
      [] rule = "separate_lucky_and_normal"    -> c.lucky_normal
      [] rule = "mixed_rulesets_or_periods"    -> c.rulesets
      [] rule = "compatible_with_model"        -> c.p >= Alpha /\ Enough(c)
      [] rule = "model_not_demonstrated"       -> c.p < Alpha /\ Enough(c)
      [] rule = "trades_needed_for_confidence" -> Enough(c)
      [] rule = "small_effect_more_data"       -> c.small /\ c.p < Alpha /\ Enough(c)
      [] rule = "no_anomaly_conclusion"        -> TRUE

\* The sort key, with the order in which the rules are tried: the warnings first.
Rank(i) == IF Rules[i] \in Warnings THEN i ELSE Len(Rules) + i

\* evaluate: what applies, sorted.
Evaluate(c) ==
    LET applicable == {i \in DOMAIN Rules : Applies(c, Rules[i])}
        before(i) == {j \in applicable : Rank(j) < Rank(i)}
    IN  [k \in 1 .. Cardinality(applicable) |->
            Rules[CHOOSE i \in applicable : Cardinality(before(i)) = k - 1]]

\* analysis_dashboard: the recommendations of the hundo rate that is first by its key, which
\* may be any of the run's; one of no rows has none.
HundoResults(q) == {x \in run[q].results : x.metric = "hundo_rate"}

Recommendations(q, result) ==
    IF result.rows = {} THEN {<<>>}
    ELSE {Evaluate(BuildContext(payload, run[q].flags)) : payload \in HundoPayloads(result.rows)}

Says(recommendations, rule) == \E i \in DOMAIN recommendations : recommendations[i] = rule

\* Whatever the dashboard says of the run, it says the rule, unless it says nothing.
Warns(q, rule) ==
    \A x \in HundoResults(q) : \A recs \in Recommendations(q, x) : recs = <<>> \/ Says(recs, rule)

-----------------------------------------------------------------------------
(* Properties *)

\* The dashboard judges the model only by a test of enough rows, and then exactly once: what
\* was not tested is never "compatible", although a p-value that is absent reads as 1, and it
\* is said that the rows are too few.  (stat_tests.py, min_sample_for: "Por debajo del umbral,
\* la inferencia no se muestra")
VerdictsNeedData ==
    \A r \in Requests : LET q == request[r].answer IN
        q # None => \A x \in HundoResults(q) : \A recs \in Recommendations(q, x) :
            LET verdicts == {v \in {"compatible_with_model", "model_not_demonstrated"} : Says(recs, v)}
                tested == Cardinality(x.rows) >= MinHundos
            IN  /\ Cardinality(verdicts) = IF tested THEN 1 ELSE 0
                /\ Says(recs, "insufficient_sample") <=> (x.rows # {} /\ ~tested)

\* The flags are read in three queries after those of the groups, and missing rulesets are
\* counted differently by each.  However rows are added meanwhile, a run that has results of
\* Lucky and of other trades, or of others under two rulesets, or under one and under none,
\* is shown with the warning, if no row of its groups went away before the flags were read.
\* (decisions.py, rules 2 and 3)
MixesAreFlagged ==
    \A r \in Requests : LET q == request[r].answer IN
        q # None /\ q \notin thinned => \A x, y \in run[q].results :
            /\ IsLucky(x.group) /\ ~IsLucky(y.group) => Warns(q, "separate_lucky_and_normal")
            /\ ~IsLucky(x.group) /\ ~IsLucky(y.group) /\ x.group.ruleset # y.group.ruleset
                   => Warns(q, "mixed_rulesets_or_periods")
=============================================================================
