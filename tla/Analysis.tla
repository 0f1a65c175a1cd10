------------------------------ MODULE Analysis ------------------------------
(***************************************************************************)
(* A user's personal analysis: get_or_run_personal_analysis and            *)
(* run_personal_analysis (apps/analysis/services.py), query by query,      *)
(* while the same user's observations are registered and moderated and the *)
(* staff deletes rulesets and changes the current one.                     *)
(*                                                                         *)
(* One user, one choice of filters.  A Lucky trade is of kind "lucky", any *)
(* other of its friendship's.  What a statistic computes from the rows it  *)
(* reads is abstracted to the set of those rows; a floor is named after    *)
(* the ruleset it is read from.  The database is READ COMMITTED, so the    *)
(* queries of the analysis' transaction do not share a snapshot.           *)
(***************************************************************************)
EXTENDS Naturals, FiniteSets, FiniteSetsExt

CONSTANTS
    Obs,            \* primary keys of TradeObservation
    Rulesets,       \* the rulesets there are until they are deleted
    Friendships,    \* friendship levels, which have floors of their own
    Default,        \* the floors _floor_from_params has for parameters that are not there
    Requests,       \* requests of the dashboard; a run is named after the one that creates it
    MaxClock,       \* bound on the clock
    MaxChanges,     \* bound on what the staff does to the rulesets
    None

VARIABLES
    obs,            \* the committed row of each observation, or None
    writing,        \* the row a registration or a mark is about to commit, or None
    clock,          \* the last updated_at handed out
    rulesets,       \* the rulesets that exist
    current,        \* the one resolve_trade_floor gives, or None
    changes,        \* how often the staff has done something to them (a bound)
    request,        \* what each request is doing
    run,            \* the AnalysisRun each request created, or None
    \* History, read by the properties and by no action's guard.
    clean,          \* the data of each request's fingerprint, or None once something
                    \* has changed unnoticed since
    thinned         \* the requests that lost a row of their groups before the flags were read

analysisVars == <<obs, writing, clock, rulesets, current, changes,
                  request, run, clean, thinned>>

Kinds == Friendships \cup {"lucky"}

Row == [state : {"valid", "excluded"}, stamp : 1 .. MaxClock, kind : Kinds,
        ruleset : Rulesets \cup {None}]

\* A population: the Lucky trades of a ruleset, or a friendship's others.
Group == [kind : Kinds, ruleset : Rulesets \cup {None}]

\* Count("id") and Max("updated_at") of the valid observations: what varies in the hash.
Fingerprint == [count : 0 .. Cardinality(Obs), max : 0 .. MaxClock]

\* The three stat_uniformity_* results come of one query.
Metrics == {"hundo_rate", "stat_uniformity", "sum_uniformity"}

\* An AnalysisResult: the rows its payload was computed from.
Result == [metric : Metrics, group : Group, floor : Rulesets \cup {Default}, rows : SUBSET Obs]

\* The counts of _detect_mixing that are not nil, or of rulesets above one: mixing_flags.
Flags == {"lucky", "normal", "rulesets"}

Run == [status : {"pending", "complete", "failed"}, print : Fingerprint, results : SUBSET Result,
        flags : SUBSET Flags, at : 1 .. Cardinality(Requests)]

\* There are finitely many rows and requests, and None is none of what it stands beside.
ASSUME AnalysisAssumption ==
    /\ IsFiniteSet(Obs) /\ IsFiniteSet(Requests) /\ MaxClock \in Nat
    /\ "lucky" \notin Friendships
    /\ None \notin Rulesets /\ None \notin Requests
    /\ None \notin Row /\ None \notin Run /\ None \notin Group

\* The queries in the order they are made, for the groups and their flags ...
Flagging == {"normal_groups", "count_lucky", "count_normal", "count_rulesets"}
\* ... and for one group, whose floor is known from the third on.
Grouping == {"resolve", "parameters", "hundo", "count", "stats", "sums"}
Computing == {"lucky_groups", "floor", "commit"} \cup Flagging \cup Grouping

Request == [step : {"new", "lookup", "create", "done"} \cup Computing,
            print : Fingerprint \cup {None}, answer : Requests \cup {None},
            \* the groups still to be analysed, the one that is, and the results so far
            groups : SUBSET Group, group : Group \cup {None},
            floor : Rulesets \cup {Default, None}, results : SUBSET Result,
            flags : SUBSET Flags]

NewRequest == [step |-> "new", print |-> None, answer |-> None, groups |-> {}, group |-> None,
               floor |-> None, results |-> {}, flags |-> {}]

-----------------------------------------------------------------------------
\* _valid_observations
ValidObs == {o \in Obs : obs[o] # None /\ obs[o].state = "valid"}
GroupOf(o) == [kind |-> obs[o].kind, ruleset |-> obs[o].ruleset]
InGroup(g) == {o \in ValidObs : GroupOf(o) = g}
Groups == {GroupOf(o) : o \in ValidObs}
IsLucky(g) == g.kind = "lucky"

\* Variant: a missing ruleset is not counted, as in COUNT(DISTINCT).
MixedKnownRulesets ==
    Cardinality({g.ruleset : g \in {h \in Groups : ~IsLucky(h)}} \ {None}) > 1

\* has_mixed_rulesets: of the trades that are not Lucky, and SELECT DISTINCT has a row of NULL.
MixedRulesets == Cardinality({g.ruleset : g \in {h \in Groups : ~IsLucky(h)}}) > 1

Input == {<<o, GroupOf(o)>> : o \in ValidObs}

\* Variant: the count is left out of the hash.
NewestOnly ==
    [count |-> 0, max |-> Max({obs[o].stamp : o \in ValidObs} \cup {0})]

InputFingerprint ==
    [count |-> Cardinality(ValidObs),
     max |-> Max({obs[o].stamp : o \in ValidObs} \cup {0})]

AnalysisInit ==
    /\ obs = [o \in Obs |-> None]
    /\ writing = [o \in Obs |-> None]
    /\ clock = 0
    /\ rulesets = Rulesets
    /\ current \in Rulesets
    /\ changes = 0
    /\ request = [r \in Requests |-> NewRequest]
    /\ run = [r \in Requests |-> None]
    /\ clean = [r \in Requests |-> None]
    /\ thinned = {}

Is(r, step) == request[r].step = step
Goes(r, step) == request' = [request EXCEPT ![r].step = step]
DataUnchanged == UNCHANGED <<obs, writing, clock, rulesets, current, changes>>
Queries == DataUnchanged /\ UNCHANGED <<run, clean, thinned>>

Ends(r, answer) ==
    request' = [request EXCEPT ![r] = [NewRequest EXCEPT !.step = "done", !.answer = answer]]

Forget(affected) == clean' = [r \in Requests |-> IF r \in affected THEN None ELSE clean[r]]

-----------------------------------------------------------------------------
(* The dashboard *)

TakeFingerprint(r) ==
    /\ Is(r, "new")
    /\ request' = [request EXCEPT ![r] =
           [@ EXCEPT !.step = "lookup", !.print = InputFingerprint]]
    /\ clean' = [clean EXCEPT ![r] = Input]
    /\ DataUnchanged /\ UNCHANGED <<run, thinned>>

\* The newest complete run with the fingerprint is the answer.
Lookup(r) ==
    /\ Is(r, "lookup")
    /\ LET same == {q \in Requests : run[q] # None /\ run[q].status = "complete"
                                     /\ run[q].print = request[r].print}
       IN  IF same = {} THEN Goes(r, "create")
           ELSE \E q \in same : (\A p \in same : run[p].at <= run[q].at) /\ Ends(r, q)
    /\ Queries

\* The run is created, pending, outside the transaction.
CreateRun(r) ==
    /\ Is(r, "create")
    /\ run' = [run EXCEPT ![r] =
           [status |-> "pending", print |-> request[r].print, results |-> {},
            flags |-> {}, at |-> Cardinality({q \in Requests : run[q] # None}) + 1]]
    /\ Goes(r, "lucky_groups")
    /\ Forget(IF Input = clean[r] THEN {} ELSE {r})
    /\ DataUnchanged /\ UNCHANGED thinned

\* _build_groups: the rulesets of the Lucky trades ...
BuildLuckyGroups(r) ==
    /\ Is(r, "lucky_groups")
    /\ request' = [request EXCEPT ![r] =
           [@ EXCEPT !.step = "normal_groups", !.groups = {g \in Groups : IsLucky(g)}]]
    /\ Queries

\* ... and in another query the friendships and rulesets of the others.
BuildNormalGroups(r) ==
    /\ Is(r, "normal_groups")
    /\ request' = [request EXCEPT ![r] =
           [@ EXCEPT !.step = "count_lucky",
                     !.groups = request[r].groups \cup {g \in Groups : ~IsLucky(g)}]]
    /\ Queries

\* _detect_mixing: three counts, of rows that may be others than those that were grouped.
Counts(r, flag, holds, next) ==
    /\ request' = [request EXCEPT ![r] =
           [@ EXCEPT !.step = next,
                     !.flags = request[r].flags \cup (IF holds THEN {flag} ELSE {})]]
    /\ Queries

CountLucky(r) ==
    Is(r, "count_lucky") /\ Counts(r, "lucky", \E g \in Groups : IsLucky(g), "count_normal")

CountNormal(r) ==
    Is(r, "count_normal") /\ Counts(r, "normal", \E g \in Groups : ~IsLucky(g), "count_rulesets")

\* The flags are saved, inside the transaction.
CountRulesets(r) ==
    Is(r, "count_rulesets") /\ Counts(r, "rulesets", MixedRulesets, "floor")

\* _group_floor, of the next group: its own ruleset, if it has one that is still there ...
GroupFloor(r) ==
    /\ Is(r, "floor")
    /\ \E g \in request[r].groups :
           request' = [request EXCEPT ![r] =
               [@ EXCEPT !.groups = request[r].groups \ {g}, !.group = g,
                         !.floor = IF g.ruleset \in rulesets THEN g.ruleset ELSE None,
                         !.step = IF g.ruleset \in rulesets THEN "parameters" ELSE "resolve"]]
    /\ Queries

Leaves(r) == [request[r] EXCEPT !.step = "floor", !.group = None, !.floor = None]

\* ... or else the current one, without which the group is left out ...
ResolveFloor(r) ==
    /\ Is(r, "resolve")
    /\ request' = [request EXCEPT ![r] =
           IF current = None THEN Leaves(r)
           ELSE [@ EXCEPT !.step = "parameters", !.floor = current]]
    /\ Queries

\* ... and then its parameters: a ruleset deleted since has none, and defaults stand for them.
ReadParameters(r) ==
    /\ Is(r, "parameters")
    /\ request' = [request EXCEPT ![r] =
           [@ EXCEPT !.step = "hundo",
                     !.floor = IF request[r].floor \in rulesets THEN request[r].floor ELSE Default]]
    /\ Queries

\* What a query for the metric finds now.
Finds(q, metric) ==
    [metric |-> metric, group |-> q.group, floor |-> q.floor, rows |-> InGroup(q.group)]

\* _hundo_rate_analysis
CountHundos(r) ==
    /\ Is(r, "hundo")
    /\ request' = [request EXCEPT ![r] =
           [@ EXCEPT !.step = "count",
                     !.results = request[r].results \cup {Finds(request[r], "hundo_rate")}]]
    /\ Queries

\* obs_qs.count(): a group that has no rows any more has no other results.
CountRows(r) ==
    /\ Is(r, "count")
    /\ request' = [request EXCEPT ![r] =
           IF InGroup(request[r].group) = {} THEN Leaves(r) ELSE [@ EXCEPT !.step = "stats"]]
    /\ Queries

\* _stat_uniformity_analysis reads the rows again ...
ReadStats(r) ==
    /\ Is(r, "stats")
    /\ request' = [request EXCEPT ![r] =
           [@ EXCEPT !.step = "sums",
                     !.results = request[r].results \cup {Finds(request[r], "stat_uniformity")}]]
    /\ Queries

\* ... and so does _sum_uniformity_analysis.
ReadSums(r) ==
    /\ Is(r, "sums")
    /\ request' = [request EXCEPT ![r] =
           [Leaves(r) EXCEPT
               !.results = request[r].results \cup {Finds(request[r], "sum_uniformity")}]]
    /\ Queries

\* Variant: bulk_create commits by itself.
StoreAtOnce(r) ==
    /\ Is(r, "floor") /\ request[r].groups = {}
    /\ run' = [run EXCEPT ![r].results = request[r].results]
    /\ Goes(r, "commit")
    /\ DataUnchanged /\ UNCHANGED <<clean, thinned>>

\* When no group is left, bulk_create, inside the transaction: nobody sees it yet.
StoreResults(r) ==
    /\ Is(r, "floor") /\ request[r].groups = {}
    /\ Goes(r, "commit")
    /\ Queries

\* The status is saved and the transaction commits.
CompleteRun(r) ==
    /\ Is(r, "commit")
    /\ run' = [run EXCEPT ![r] = [@ EXCEPT !.status = "complete", !.results = request[r].results,
                                        !.flags = request[r].flags]]
    /\ Ends(r, r)
    /\ DataUnchanged /\ UNCHANGED <<clean, thinned>>

\* An exception in the transaction rolls it back, and the run is saved as failed ...
FailRun(r) ==
    /\ request[r].step \in Computing
    /\ run' = [run EXCEPT ![r].status = "failed"]
    /\ Ends(r, None)
    /\ Forget({r})
    /\ DataUnchanged /\ UNCHANGED thinned

\* ... unless the worker dies.
Crash(r) ==
    /\ request[r].step \notin {"new", "done"}
    /\ Ends(r, None)
    /\ Forget({r})
    /\ DataUnchanged /\ UNCHANGED <<run, thinned>>

-----------------------------------------------------------------------------
(* The observations and the rulesets meanwhile *)

\* A row is no longer where the requests found it that have yet to read their flags.
Thin(rows) ==
    thinned' = thinned \cup {r \in Requests : request[r].step \in Flagging /\ rows \cap ValidObs # {}}

\* A registration or mark_observation sets updated_at ...
BeginWrite(o, state, kind) ==
    /\ writing[o] = None
    /\ clock < MaxClock
    /\ IF obs[o] = None THEN state = "valid" /\ current # None ELSE kind = obs[o].kind
    /\ clock' = clock + 1
    /\ writing' = [writing EXCEPT ![o] =
           [state |-> state, stamp |-> clock + 1, kind |-> kind,
            ruleset |-> IF obs[o] = None THEN current ELSE None]]
    /\ UNCHANGED <<obs, rulesets, current, changes, request, run, clean, thinned>>

\* ... before it commits; of a row that exists a mark writes the state and updated_at only,
\* and a registration fails whose ruleset is gone.
CommitWrite(o) ==
    LET new == writing[o]
        late == \E p \in Obs : obs[p] # None /\ obs[p].stamp > new.stamp
    IN
    /\ new # None
    /\ \/ /\ obs[o] = None /\ new.ruleset \notin rulesets
          /\ UNCHANGED <<obs, clean, thinned>>
       \/ /\ obs[o] # None \/ new.ruleset \in rulesets
          /\ obs' = [obs EXCEPT ![o] =
                 IF @ = None THEN new ELSE [@ EXCEPT !.state = new.state, !.stamp = new.stamp]]
          /\ Forget(IF late THEN Requests ELSE {r \in Requests : request[r].step \in Computing})
          /\ Thin(IF new.state = "excluded" THEN {o} ELSE {})
    /\ writing' = [writing EXCEPT ![o] = None]
    /\ UNCHANGED <<clock, rulesets, current, changes, request, run>>

\* The staff deletes a ruleset: SET_NULL leaves updated_at as it is.
DeleteRuleset(v) ==
    LET cleared == {o \in Obs : obs[o] # None /\ obs[o].ruleset = v}
    IN
    /\ v \in rulesets
    /\ changes < MaxChanges /\ changes' = changes + 1
    /\ rulesets' = rulesets \ {v}
    /\ current' \in rulesets' \cup {None}
    /\ current # v => current' = current
    /\ obs' = [o \in Obs |-> IF o \in cleared THEN [obs[o] EXCEPT !.ruleset = None] ELSE obs[o]]
    /\ Forget(Requests)
    /\ Thin(cleared)
    /\ UNCHANGED <<writing, clock, request, run>>

\* Another ruleset becomes the current one, or none is.
ChangeCurrent(v) ==
    /\ v \in rulesets \cup {None} /\ v # current
    /\ changes < MaxChanges /\ changes' = changes + 1
    /\ current' = v
    /\ Forget(Requests)
    /\ UNCHANGED <<obs, writing, clock, rulesets, request, run, thinned>>

AnalysisNext ==
    \/ \E r \in Requests :
           \/ TakeFingerprint(r) \/ Lookup(r) \/ CreateRun(r)
           \/ BuildLuckyGroups(r) \/ BuildNormalGroups(r)
           \/ CountLucky(r) \/ CountNormal(r) \/ CountRulesets(r)
           \/ GroupFloor(r) \/ ResolveFloor(r) \/ ReadParameters(r)
           \/ CountHundos(r) \/ CountRows(r) \/ ReadStats(r) \/ ReadSums(r)
           \/ StoreResults(r) \/ CompleteRun(r) \/ FailRun(r) \/ Crash(r)
    \/ \E o \in Obs :
           \/ CommitWrite(o)
           \/ \E state \in {"valid", "excluded"}, kind \in Kinds : BeginWrite(o, state, kind)
    \/ \E v \in Rulesets : DeleteRuleset(v)
    \/ \E v \in Rulesets \cup {None} : ChangeCurrent(v)

AnalysisSpec == AnalysisInit /\ [][AnalysisNext]_analysisVars

-----------------------------------------------------------------------------
(* Properties *)

\* The floor a group has with the rulesets there are now, or None.
Floor(g) == IF g.ruleset \in rulesets THEN g.ruleset ELSE current

\* What an analysis of the data `input` finds with them.
Members(g, input) == {o \in Obs : <<o, g>> \in input}
Expected(input) ==
    {[metric |-> m, group |-> g, floor |-> Floor(g), rows |-> Members(g, input)] :
         m \in Metrics, g \in {h \in {p[2] : p \in input} : Floor(h) # None}}

\* An earlier run is given again only for the data it analysed, if nothing changed while it
\* was made, and no write overtook another and no ruleset was deleted or replaced since
\* (_input_fingerprint: a count and a maximum are enough then).
ReuseIsSound ==
    \A r \in Requests : LET q == request[r].answer IN
        q \notin {None, r} /\ clean[r] # None /\ clean[q] # None => run[q].results = Expected(clean[r])

\* services.py:346-347: a run that failed, or was cut short, has no partial results.
FailedIsEmpty ==
    \A r \in Requests : run[r] # None /\ run[r].status # "complete" => run[r].results = {}
=============================================================================
